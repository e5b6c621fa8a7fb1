---------------------------- MODULE MCIngestion -----------------------------
(* Two jobs on one watermark and a run that is refused.                    *)
EXTENDS Ingestion

CONSTANTS r1, r2, r3

AllRuns == {r1, r2, r3}
RefusedRuns == {r3}
=============================================================================
