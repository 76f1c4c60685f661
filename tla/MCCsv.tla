------------------------------- MODULE MCCsv -------------------------------
(***************************************************************************)
(* Instances of CsvJobs for TLC.                                           *)
(***************************************************************************)
EXTENDS CsvJobs
=============================================================================
