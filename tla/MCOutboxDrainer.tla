--------------------------- MODULE MCOutboxDrainer ---------------------------
(* TLC instances of OutboxDrainer.                                         *)
EXTENDS OutboxDrainer, TLC

CONSTANTS e1, e2, e3, d1, d2

DrainerSymmetry == Permutations(Drainers)
=============================================================================
