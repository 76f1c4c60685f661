-------------------------- MODULE ReportSchedules --------------------------
(***************************************************************************)
(* Report schedules: the beat task process_due_report_schedules, which may *)
(* overlap with itself, the handlers of reports/views.py, and the task     *)
(* generate_report_run with its retries.  A step is one committed          *)
(* statement or transaction, or one effect outside the database.           *)
(***************************************************************************)
EXTENDS Naturals, Sequences, FiniteSets

CONSTANTS
  Schedules,       \* report schedules
  Passes,          \* scheduler passes that may run at the same time
  Users,           \* request handlers that may run at the same time
  NoSchedule,      \* "no schedule": between two schedules
  Starts,          \* values of next_run_at that clients send
  Periods,         \* what advance_next_run adds (1, 7 or 30 days)
  Lists,           \* whether the recipients clients set are a list, by schedule
  Workers,         \* how many tasks the worker processes run at a time
  MaxRetries,      \* max_retries of the task
  Faults,          \* the failures that happen, a subset of FaultKinds
  MaxTime,         \* bound: the clock stops here
  MaxInputs        \* bound: requests, ticks and failures in all

FaultKinds == {"crash", "enqueue", "start", "render", "lose"}

ASSUME ScheduleConstants ==
  /\ NoSchedule \notin Schedules
  /\ Starts \subseteq Nat /\ Periods \subseteq Nat \ {0} /\ Lists \in [Schedules -> SUBSET BOOLEAN]
  /\ Faults \subseteq FaultKinds
  /\ Workers \in Nat \ {0}
  /\ MaxRetries \in Nat /\ MaxTime \in Nat /\ MaxInputs \in Nat

VARIABLES
  schedule,     \* the report_schedule table; .listed: recipients is a list
  runs,         \* the report_run table, in commit order; .slot is the time
                \* the run was created for (a history variable), .tries the
                \* failed attempts, .file whether the artifact is on disk,
                \* .listed the recipients as the attempt has read them
  gen,          \* where the task of each run is
  now, budget,  \* the clock, and the inputs that may still happen
  pass,         \* scheduler passes: pc, their clock, schedules left, the
                \* schedule locked, its slot as read, the run to enqueue
  req,          \* request handlers: pc, operation, schedule, row in memory
  rescheduled   \* schedules whose slot or period a PATCH changed (history)

vars == <<schedule, runs, gen, now, budget, pass, req, rescheduled>>

ScheduleRow == [life : {"absent", "alive", "deleted"}, enabled : BOOLEAN,
                next : Nat, period : Periods,
                listed : BOOLEAN]

IdlePass == [pc |-> "idle", now |-> 0, batch |-> {}, cur |-> NoSchedule,
             slot |-> 0, run |-> 0]

(* Not started, waiting in the queue, and the steps of one attempt.        *)
TaskStates == {"none", "queued", "taken", "written", "mailing", "failing", "done",
               "lost"}

Active(row) == row.life = "alive" /\ row.enabled

Init ==
  /\ schedule \in [Schedules -> {[life |-> "absent", enabled |-> TRUE, next |-> 0,
                                  period |-> d, listed |-> TRUE] : d \in Periods}]
  /\ runs = <<>> /\ gen = <<>>
  /\ now = 0 /\ budget = MaxInputs
  /\ pass = [p \in Passes |-> IdlePass]
  /\ req = [u \in Users |-> [pc |-> "idle"]]
  /\ rescheduled = {}

Spend == budget > 0 /\ budget' = budget - 1

(* Mutant: the schedule is read with a plain SELECT.                       *)
NeverLocked(s) == FALSE

(* The row lock of select_for_update().get(), held until the commit.       *)
Locked(s) == \E p \in Passes : pass[p].pc = "locked" /\ pass[p].cur = s

-----------------------------------------------------------------------------
(* process_due_report_schedules.                                           *)

(* Mutant: the listing does not leave deleted schedules out.               *)
StartWithDeleted(p) ==
  /\ pass[p].pc = "idle"
  /\ pass' = [pass EXCEPT ![p] =
       [IdlePass EXCEPT !.pc = "loop", !.now = now,
          !.batch = {s \in Schedules : /\ schedule[s].life # "absent"
                                       /\ schedule[s].enabled /\ schedule[s].next <= now}]]
  /\ UNCHANGED <<schedule, runs, gen, now, budget, req, rescheduled>>

StartPass(p) ==
  /\ pass[p].pc = "idle"
  /\ pass' = [pass EXCEPT ![p] =
       [IdlePass EXCEPT !.pc = "loop", !.now = now,
          !.batch = {s \in Schedules : Active(schedule[s]) /\ schedule[s].next <= now}]]
  /\ UNCHANGED <<schedule, runs, gen, now, budget, req, rescheduled>>

(* Mutant: the schedule fetched before the lock is trusted.                *)
LockWithoutRecheck(p, s) ==
  /\ pass[p].pc = "loop" /\ s \in pass[p].batch /\ ~ Locked(s)
  /\ schedule[s].life = "alive"
  /\ pass' = [pass EXCEPT ![p].pc = "locked", ![p].batch = @ \ {s},
                          ![p].cur = s, ![p].slot = schedule[s].next]
  /\ UNCHANGED <<schedule, runs, gen, now, budget, req, rescheduled>>

LockDue(p, s) ==
  /\ pass[p].pc = "loop" /\ s \in pass[p].batch /\ ~ Locked(s)
  /\ Active(schedule[s]) /\ schedule[s].next <= pass[p].now
  /\ pass' = [pass EXCEPT ![p].pc = "locked", ![p].batch = @ \ {s},
                          ![p].cur = s, ![p].slot = schedule[s].next]
  /\ UNCHANGED <<schedule, runs, gen, now, budget, req, rescheduled>>

SkipNotDue(p, s) ==
  /\ pass[p].pc = "loop" /\ s \in pass[p].batch /\ ~ Locked(s)
  /\ schedule[s].life = "alive"
  /\ ~ schedule[s].enabled \/ schedule[s].next > pass[p].now
  /\ pass' = [pass EXCEPT ![p].batch = @ \ {s}]
  /\ UNCHANGED <<schedule, runs, gen, now, budget, req, rescheduled>>

(* get() raises DoesNotExist and the whole pass ends.                      *)
AbortOnDeleted(p, s) ==
  /\ pass[p].pc = "loop" /\ s \in pass[p].batch /\ ~ Locked(s)
  /\ schedule[s].life = "deleted"
  /\ pass' = [pass EXCEPT ![p] = IdlePass]
  /\ UNCHANGED <<schedule, runs, gen, now, budget, req, rescheduled>>

(* The slot after this one: a day, a week or thirty days later.            *)
AdvanceNextRun(slot, s) == slot + schedule[s].period

CreateRun(p) ==
  LET s == pass[p].cur IN
  /\ pass[p].pc = "locked"
  /\ runs' = Append(runs, [schedule |-> s, slot |-> pass[p].slot,
                           status |-> "queued", tries |-> 0, file |-> FALSE,
                           listed |-> TRUE])
  /\ gen' = Append(gen, "none")
  /\ schedule' = [schedule EXCEPT ![s].next = AdvanceNextRun(pass[p].slot, s)]
  /\ pass' = [pass EXCEPT ![p].pc = "enqueue", ![p].run = Len(runs) + 1]
  /\ UNCHANGED <<now, budget, req, rescheduled>>

(* transaction.on_commit.                                                  *)
EnqueueRun(p) ==
  /\ pass[p].pc = "enqueue"
  /\ gen' = [gen EXCEPT ![pass[p].run] = "queued"]
  /\ pass' = [pass EXCEPT ![p].pc = "loop", ![p].cur = NoSchedule, ![p].run = 0,
                          ![p].slot = 0]
  /\ UNCHANGED <<schedule, runs, now, budget, req, rescheduled>>

FinishPass(p) ==
  /\ pass[p].pc = "loop" /\ pass[p].batch = {}
  /\ pass' = [pass EXCEPT ![p] = IdlePass]
  /\ UNCHANGED <<schedule, runs, gen, now, budget, req, rescheduled>>

(* The exception of delay() ends the pass; so does a crash, which also     *)
(* rolls an open transaction back.                                         *)
EndPass(p) ==
  /\ \/ "enqueue" \in Faults /\ pass[p].pc = "enqueue"
     \/ "crash" \in Faults /\ pass[p].pc # "idle"
  /\ Spend
  /\ pass' = [pass EXCEPT ![p] = IdlePass]
  /\ UNCHANGED <<schedule, runs, gen, now, req, rescheduled>>

PassStep(p) ==
  \/ StartPass(p) \/ FinishPass(p) \/ CreateRun(p) \/ EnqueueRun(p)
  \/ \E s \in Schedules : LockDue(p, s) \/ SkipNotDue(p, s) \/ AbortOnDeleted(p, s)

-----------------------------------------------------------------------------
(* The handlers.                                                           *)

(* What the serializer accepts for a schedule.  The JSON column recipients *)
(* takes any value.                                                        *)
Submitted(s, times) == [life : {"alive"}, enabled : BOOLEAN, next : times,
                     period : Periods, listed : Lists[s]]

CreateSchedule(s) ==
  /\ schedule[s].life = "absent"
  /\ Spend
  /\ \E row \in Submitted(s, Starts) : schedule' = [schedule EXCEPT ![s] = row]
  /\ UNCHANGED <<runs, gen, now, pass, req, rescheduled>>

(* PATCH and DELETE fetch a living row ...                                 *)
FetchSchedule(u, s, op, row) ==
  /\ req[u].pc = "idle" /\ schedule[s].life = "alive"
  /\ Spend
  /\ req' = [req EXCEPT ![u] = [pc |-> "save", op |-> op, schedule |-> s, row |-> row]]
  /\ UNCHANGED <<schedule, runs, gen, now, pass, rescheduled>>

PatchSchedule(u, s) ==
  \E row \in Submitted(s, Starts \union {schedule[s].next}) :
    FetchSchedule(u, s, "patch", row)

DeleteSchedule(u, s) ==
  FetchSchedule(u, s, "delete", [schedule[s] EXCEPT !.life = "deleted"])

(* The slot or the period saved is not the one that stands, because the    *)
(* client has sent another or because a pass has moved the schedule since. *)
Moves(s, row) == row.next # schedule[s].next \/ row.period # schedule[s].period

(* ... and save it: PATCH every column, DELETE only deleted_at.            *)
SaveSchedule(u) ==
  LET s == req[u].schedule IN
  /\ req[u].pc = "save" /\ ~ Locked(s)
  /\ \/ /\ req[u].op = "patch"
        /\ schedule' = [schedule EXCEPT ![s] = req[u].row]
        /\ rescheduled' = rescheduled \union {t \in {s} : Moves(t, req[u].row)}
     \/ /\ req[u].op = "delete"
        /\ schedule' = [schedule EXCEPT ![s].life = "deleted"]
        /\ UNCHANGED rescheduled
  /\ req' = [req EXCEPT ![u] = [pc |-> "idle"]]
  /\ UNCHANGED <<runs, gen, now, budget, pass>>

-----------------------------------------------------------------------------
(* generate_report_run, one attempt after the other.                       *)

(* An exception of an attempt: the run is saved as failed, then raised.    *)
Fail(i) ==
  /\ runs' = [runs EXCEPT ![i].status = "failed", ![i].tries = @ + 1]
  /\ gen' = [gen EXCEPT ![i] = "failing"]

Running == {i \in DOMAIN gen : gen[i] \in {"taken", "written", "mailing", "failing"}}

TakeRun(i) ==
  /\ gen[i] = "queued" /\ Cardinality(Running) < Workers
  /\ runs' = [runs EXCEPT ![i].status = "processing",
                           ![i].listed = schedule[runs[i].schedule].listed]
  /\ gen' = [gen EXCEPT ![i] = "taken"]
  /\ UNCHANGED <<schedule, now, budget, pass, req, rescheduled>>

(* Before the try: the run cannot be looked up, or saved as processing.    *)
(* Nothing is saved, but the attempt counts.                               *)
StartFails(i) ==
  /\ "start" \in Faults /\ gen[i] = "queued" /\ Cardinality(Running) < Workers
  /\ Spend
  /\ runs' = [runs EXCEPT ![i].tries = @ + 1]
  /\ gen' = [gen EXCEPT ![i] = "failing"]
  /\ UNCHANGED <<schedule, now, pass, req, rescheduled>>

RenderFails(i) ==
  /\ "render" \in Faults /\ gen[i] = "taken"
  /\ Spend
  /\ Fail(i)
  /\ UNCHANGED <<schedule, now, pass, req, rescheduled>>

(* Mutant: the run is saved as completed before its file is written.       *)
SaveBeforeWrite(i) ==
  /\ gen[i] = "taken"
  /\ runs' = [runs EXCEPT ![i].status = "completed"]
  /\ gen' = [gen EXCEPT ![i] = "written"]
  /\ UNCHANGED <<schedule, now, budget, pass, req, rescheduled>>

WriteReport(i) ==
  /\ gen[i] = "taken"
  /\ runs' = [runs EXCEPT ![i].file = TRUE]
  /\ gen' = [gen EXCEPT ![i] = "written"]
  /\ UNCHANGED <<schedule, now, budget, pass, req, rescheduled>>

(* Mutant: update_fields does not name the status.                         *)
SaveWithoutStatus(i) ==
  /\ gen[i] = "written"
  /\ gen' = [gen EXCEPT ![i] = "mailing"]
  /\ UNCHANGED <<schedule, runs, now, budget, pass, req, rescheduled>>

CompleteRun(i) ==
  /\ gen[i] = "written"
  /\ runs' = [runs EXCEPT ![i].status = "completed"]
  /\ gen' = [gen EXCEPT ![i] = "mailing"]
  /\ UNCHANGED <<schedule, now, budget, pass, req, rescheduled>>

(* A failing mail server only leaves an error message; recipients that     *)
(* cannot be iterated over are an exception of the attempt.                *)
MailReport(i) ==
  /\ gen[i] = "mailing"
  /\ \/ /\ runs[i].listed
        /\ gen' = [gen EXCEPT ![i] = "done"]
        /\ UNCHANGED runs
     \/ ~ runs[i].listed /\ Fail(i)
  /\ UNCHANGED <<schedule, now, budget, pass, req, rescheduled>>

(* autoretry_for: at most MaxRetries further attempts.                     *)
Retry(i) ==
  /\ gen[i] = "failing"
  /\ gen' = [gen EXCEPT ![i] = IF runs[i].tries <= MaxRetries THEN "queued" ELSE "done"]
  /\ UNCHANGED <<schedule, runs, now, budget, pass, req, rescheduled>>

(* The worker dies; the task was acknowledged and is not run again.        *)
LoseTask(i) ==
  /\ "lose" \in Faults /\ i \in Running
  /\ Spend
  /\ gen' = [gen EXCEPT ![i] = "lost"]
  /\ UNCHANGED <<schedule, runs, now, pass, req, rescheduled>>

TaskFails(i) == StartFails(i) \/ RenderFails(i) \/ LoseTask(i)

RunStep(i) == TakeRun(i) \/ WriteReport(i) \/ CompleteRun(i) \/ MailReport(i) \/ Retry(i)

-----------------------------------------------------------------------------
Tick ==
  /\ now < MaxTime
  /\ Spend
  /\ now' = now + 1
  /\ UNCHANGED <<schedule, runs, gen, pass, req, rescheduled>>

Next ==
  \/ \E p \in Passes : PassStep(p) \/ EndPass(p)
  \/ \E s \in Schedules : CreateSchedule(s)
  \/ \E u \in Users : \/ \E s \in Schedules : PatchSchedule(u, s) \/ DeleteSchedule(u, s)
                      \/ SaveSchedule(u)
  \/ \E i \in DOMAIN runs : RunStep(i) \/ TaskFails(i)
  \/ Tick

Spec == Init /\ [][Next]_vars

(* Beat starts a pass every minute, and the workers keep taking tasks.     *)
FairSpec ==
  /\ Spec
  /\ \A p \in Passes : WF_vars(PassStep(p))
  /\ WF_vars(\E i \in DOMAIN runs : RunStep(i))

-----------------------------------------------------------------------------
(* Properties.                                                             *)

TypeOK ==
  /\ schedule \in [Schedules -> ScheduleRow]
  /\ runs \in Seq([schedule : Schedules, slot : Nat, file : BOOLEAN, listed : BOOLEAN,
                   status : {"queued", "processing", "completed", "failed"},
                   tries : 0 .. MaxRetries + 1])
  /\ gen \in Seq(TaskStates) /\ Len(gen) = Len(runs)
  /\ pass \in [Passes -> [pc : {"idle", "loop", "locked", "enqueue"}, now : 0 .. MaxTime,
                          batch : SUBSET Schedules, slot : Nat, run : 0 .. Len(runs),
                          cur : Schedules \union {NoSchedule}]]
  /\ now \in 0 .. MaxTime /\ budget \in 0 .. MaxInputs

(* Overlapping passes never create two runs for the same slot of a         *)
(* schedule, and leave no slot out: the slots of a schedule are those it   *)
(* has moved past, each once and in order, unless a PATCH saved a slot or  *)
(* a period that differs from the row's: a PATCH that finds the row as it  *)
(* fetched it, and names neither, repeats no slot.                         *)
EachSlotOnce ==
  \A i, j \in DOMAIN runs :
    /\ i < j /\ runs[i].schedule = runs[j].schedule
    /\ runs[i].schedule \notin rescheduled
    /\ \A k \in i + 1 .. j - 1 : runs[k].schedule # runs[i].schedule
    => runs[j].slot = runs[i].slot + schedule[runs[i].schedule].period

(* What a run shows for where its task is.  One that can be downloaded has *)
(* its artifact on disk, also when an attempt after the first is half-way; *)
(* one shown as failed is about to be retried or has used its retries,     *)
(* unless a worker died over it.                                           *)
RunsShowTheirTask ==
  \A i \in DOMAIN runs :
    /\ runs[i].status = "completed" => runs[i].file
    /\ runs[i].status = "failed" =>
         \/ gen[i] \in {"failing", "queued", "lost"}
         \/ gen[i] = "done" /\ runs[i].tries = MaxRetries + 1

(* The runs created are those the ledger allows: for an active schedule,   *)
(* in time, for the slot it stands at when the run is committed, although  *)
(* a pass decided on a list and a clock it read earlier.                   *)
Ledger == INSTANCE ReportLedger WITH
            active <- {s \in Schedules : Active(schedule[s])},
            next <- [s \in Schedules |-> schedule[s].next],
            ran <- [i \in DOMAIN runs |-> [schedule |-> runs[i].schedule,
                                           slot |-> runs[i].slot]]
ImplementsLedger == Ledger!Spec

(* No active schedule stays due: a pass that aborts, on a deleted schedule *)
(* or a failing broker, only delays the others.                            *)
DueEventuallyRuns ==
  \A s \in Schedules : ~ <>[](Active(schedule[s]) /\ schedule[s].next <= now)

(* A run whose task was enqueued does not stay in between: it ends as      *)
(* completed or failed, unless its worker died, or each of its attempts    *)
(* failed before it could save anything: then it is queued for good.       *)
RunsEventuallySettle ==
  []<>(\A i \in DOMAIN runs :
         \/ gen[i] \in {"none", "lost"}
         \/ gen[i] = "done" /\ runs[i].status \in {"completed", "failed"}
         \/ gen[i] = "done" /\ runs[i].status = "queued"
                            /\ runs[i].tries = MaxRetries + 1)
=============================================================================
