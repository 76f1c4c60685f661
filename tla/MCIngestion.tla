---------------------------- MODULE MCIngestion ----------------------------
(***************************************************************************)
(* Instances of EventIngestion for TLC.                                    *)
(***************************************************************************)
EXTENDS EventIngestion

CONSTANTS e1, e2, e3, i1, i2, q1, listed, unlisted
=============================================================================
