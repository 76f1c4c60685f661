---------------------------- MODULE ReportLedger ----------------------------
(***************************************************************************)
(* What the scheduler of reports promises, however many passes run at      *)
(* once: a run is created only for an active schedule whose time has come, *)
(* for the slot the schedule stands at in that moment, and moves the       *)
(* schedule on by one period in the same step.  Clients may set a schedule *)
(* to any time.                                                            *)
(***************************************************************************)
EXTENDS Naturals, Sequences

CONSTANTS Schedules, Periods

VARIABLES now,     \* the clock
          active,  \* schedules that are enabled and not deleted
          next,    \* the slot each schedule stands at
          ran      \* the runs created so far, as [schedule, slot]

ledgerVars == <<now, active, next, ran>>

Init ==
  /\ now = 0 /\ active = {} /\ ran = <<>>
  /\ next \in [Schedules -> Nat]

CreateRun(s) ==
  /\ s \in active /\ next[s] <= now
  /\ ran' = Append(ran, [schedule |-> s, slot |-> next[s]])
  /\ \E d \in Periods : next' = [next EXCEPT ![s] = @ + d]
  /\ UNCHANGED <<now, active>>

(* A client creates, changes or deletes a schedule.                        *)
Set(s) ==
  /\ \A t \in Schedules \ {s} : (t \in active') = (t \in active)
  /\ next' = [next EXCEPT ![s] = next'[s]]
  /\ UNCHANGED <<now, ran>>

TimePasses == now' > now /\ UNCHANGED <<active, next, ran>>

Next == (\E s \in Schedules : CreateRun(s) \/ Set(s)) \/ TimePasses

Spec == Init /\ [][Next]_ledgerVars
=============================================================================
