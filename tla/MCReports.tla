----------------------------- MODULE MCReports -----------------------------
(***************************************************************************)
(* Instances of ReportSchedules for TLC.                                   *)
(***************************************************************************)
EXTENDS ReportSchedules

CONSTANTS s1, s2, p1, p2, u1

(* The recipients of s1 are a list, those of any other schedule are not.   *)
MCLists == [s \in Schedules |-> {s = s1}]
=============================================================================
