----------------------------- MODULE MCAccounts -----------------------------
(***************************************************************************)
(* Instances of Accounts for TLC: requests around a seeding on the first   *)
(* of January, whose invoices reach into the year before, and seedings on  *)
(* every day of the year.                                                  *)
(***************************************************************************)
EXTENDS Accounts

CONSTANTS r1, r2, demo, other

NewYear  == {0}
EveryDay == 0 .. 364
=============================================================================
