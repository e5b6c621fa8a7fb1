-------------------------- MODULE MCStreamProducer --------------------------
(* TLC instances of StreamProducer.                                        *)
EXTENDS StreamProducer, TLC

CONSTANTS a, b, x, s1, s2

(* A single event, two events that meet in opposite order, a duplicate and *)
(* an unknown kind.                                                        *)
SomeBatches == {<<a>>, <<a, b>>, <<b, a>>, <<a, a>>, <<a, x>>}

=============================================================================
