-------------------------- MODULE MCStreamConsumer --------------------------
(* TLC instances of StreamConsumer.                                        *)
EXTENDS StreamConsumer, TLC

CONSTANTS a, b, c1, c2

(* Entries 1 and 2 are two copies of a; later ones, if any, carry b.       *)
CopiesOfA == [m \in Msgs |-> IF m <= 2 THEN a ELSE b]

ConsumerSymmetry == Permutations({c1, c2})

=============================================================================
