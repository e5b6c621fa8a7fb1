---------------------------- MODULE MCDeadLetter ----------------------------
(* TLC instances of DeadLetter.                                            *)
EXTENDS DeadLetter, TLC

CONSTANTS w1, w2, op

=============================================================================
