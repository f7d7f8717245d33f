---------------------------- MODULE MCCohortBoard ----------------------------
(***************************************************************************)
(* A small instance of CohortBoard for TLC.                                *)
(***************************************************************************)
EXTENDS CohortBoard, TLC

CONSTANTS t1, t2, w1, w2

MCTask == {t1, t2}
MCWorker == {w1, w2}
MCSeeds == <<t1>>
=============================================================================
