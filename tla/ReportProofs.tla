---------------------------- MODULE ReportProofs ----------------------------
(***************************************************************************)
(* Proofs about ReportSchedules: types, what a run shows of its task, that *)
(* each slot gets one run, and the refinement of ReportLedger.             *)
(***************************************************************************)
EXTENDS ReportSchedules, TLAPS

RunRow == [schedule : Schedules, slot : Nat, file : BOOLEAN, listed : BOOLEAN,
           status : {"queued", "processing", "completed", "failed"},
           tries : 0 .. MaxRetries + 1]
PassRow(n) == [pc : {"idle", "loop", "locked", "enqueue"}, now : 0 .. MaxTime,
               batch : SUBSET Schedules, slot : Nat, run : 0 .. n,
               cur : Schedules \union {NoSchedule}]

(* What a handler holds between its two steps.                             *)
Holding == [pc : {"save"}, op : {"patch", "delete"}, schedule : Schedules,
            row : ScheduleRow]

(* What a run shows, and how many attempts are left, by where its task is. *)
TaskShows(i) ==
  /\ gen[i] \in {"none", "queued", "taken", "written", "mailing"} =>
       runs[i].tries <= MaxRetries
  /\ gen[i] \in {"taken", "written"} => runs[i].status = "processing"
  /\ gen[i] = "written" => runs[i].file
  /\ gen[i] = "mailing" => runs[i].status = "completed"
  /\ runs[i].status = "completed" => runs[i].file
  /\ runs[i].status = "failed" =>
       \/ gen[i] \in {"failing", "queued", "lost"}
       \/ gen[i] = "done" /\ runs[i].tries = MaxRetries + 1

(* A run that a pass is about to enqueue is enqueued by nobody else.       *)
EnqueuesOwn ==
  \A p \in Passes : pass[p].pc = "enqueue" =>
    /\ pass[p].run \in DOMAIN runs /\ gen[pass[p].run] = "none"
    /\ \A o \in Passes \ {p} : pass[o].pc = "enqueue" => pass[o].run # pass[p].run

RunInv ==
  /\ TypeOK /\ EnqueuesOwn
  /\ \A u \in Users : req[u].pc = "idle" \/ req[u] \in Holding
  /\ \A i \in DOMAIN runs : TaskShows(i)
  /\ \A p \in Passes : pass[p].pc \in {"locked", "enqueue"} => pass[p].cur \in Schedules

LEMMA InitRuns == Init => RunInv
<1> SUFFICES ASSUME Init
             PROVE  RunInv
  OBVIOUS
<1>1. schedule \in [Schedules -> ScheduleRow]
  <2>1. \A d \in Periods : [life |-> "absent", enabled |-> TRUE, next |-> 0,
                           period |-> d, listed |-> TRUE] \in ScheduleRow
    BY DEF ScheduleRow
  <2> QED  BY <2>1 DEF Init
<1>2. pass \in [Passes -> PassRow(0)] /\ \A p \in Passes : pass[p].pc = "idle"
  BY ScheduleConstants DEF Init, IdlePass, PassRow
<1>3. runs = <<>> /\ gen = <<>> /\ now \in 0 .. MaxTime /\ budget \in 0 .. MaxInputs
  BY ScheduleConstants DEF Init
<1>4. \A u \in Users : req[u].pc = "idle"
  BY DEF Init
<1> QED
  BY <1>1, <1>2, <1>3, <1>4 DEF RunInv, TypeOK, PassRow, RunRow, EnqueuesOwn

LEMMA RunStepInv == RunInv /\ [Next]_vars => RunInv'
<1> SUFFICES ASSUME RunInv, [Next]_vars
             PROVE  RunInv'
  OBVIOUS
<1>a. /\ schedule \in [Schedules -> ScheduleRow] /\ runs \in Seq(RunRow)
      /\ gen \in Seq(TaskStates) /\ Len(gen) = Len(runs)
      /\ pass \in [Passes -> PassRow(Len(runs))]
      /\ now \in 0 .. MaxTime /\ budget \in 0 .. MaxInputs
      /\ MaxRetries \in Nat /\ MaxTime \in Nat /\ MaxInputs \in Nat
  BY ScheduleConstants DEF RunInv, TypeOK, RunRow, PassRow
<1>b. /\ Len(runs) \in Nat /\ DOMAIN runs = 1 .. Len(runs) /\ DOMAIN gen = DOMAIN runs
      /\ \A i \in DOMAIN runs : runs[i] \in RunRow /\ gen[i] \in TaskStates
  BY <1>a
(* A step of a pass that creates no run.                                   *)
<1>c. ASSUME NEW p \in Passes, NEW row \in PassRow(Len(runs)),
             pass' = [pass EXCEPT ![p] = row],
             row.pc # "enqueue", row.pc = "locked" => row.cur \in Schedules,
             UNCHANGED <<schedule, runs, gen, now, req>>, budget' \in 0 .. MaxInputs
      PROVE  RunInv'
  <2>1. /\ pass' \in [Passes -> PassRow(Len(runs))]
        /\ \A o \in Passes : pass'[o].pc \in {"locked", "enqueue"} => pass'[o].cur \in Schedules
    BY <1>a, <1>c DEF RunInv
  <2>2. EnqueuesOwn'
    BY <1>a, <1>c DEF RunInv, EnqueuesOwn
  <2> QED  BY <1>c, <2>1, <2>2 DEF RunInv, TypeOK, TaskShows, PassRow
<1>d. IdlePass \in PassRow(Len(runs)) /\ IdlePass.pc = "idle"
  BY <1>b, ScheduleConstants DEF IdlePass, PassRow
(* A step of a task.                                                       *)
<1>e. ASSUME NEW i \in DOMAIN runs, NEW run \in RunRow, NEW state \in TaskStates,
             runs' = [runs EXCEPT ![i] = run], gen' = [gen EXCEPT ![i] = state],
             gen[i] # "none", TaskShows(i)',
             UNCHANGED <<schedule, now, pass, req>>, budget' \in 0 .. MaxInputs
      PROVE  RunInv'
  <2>1. /\ runs' \in Seq(RunRow) /\ gen' \in Seq(TaskStates)
        /\ Len(runs') = Len(runs) /\ Len(gen') = Len(runs') /\ DOMAIN runs' = DOMAIN runs
        /\ \A k \in DOMAIN runs \ {i} : runs'[k] = runs[k] /\ gen'[k] = gen[k]
    BY <1>a, <1>b, <1>e
  <2>2. \A k \in DOMAIN runs' : TaskShows(k)'
    BY <1>e, <2>1 DEF RunInv, TaskShows
  <2>3. TypeOK'
    BY <1>a, <1>e, <2>1 DEF TypeOK, RunRow, PassRow
  <2>4. EnqueuesOwn'
    BY <1>e, <2>1 DEF RunInv, EnqueuesOwn
  <2> QED  BY <1>e, <2>2, <2>3, <2>4 DEF RunInv
(* Passes.                                                                 *)
<1>1. ASSUME NEW p \in Passes, StartPass(p) PROVE RunInv'
  <2> DEFINE due == {s \in Schedules : Active(schedule[s]) /\ schedule[s].next <= now}
             row == [IdlePass EXCEPT !.pc = "loop", !.now = now, !.batch = due]
  <2>1. /\ pass' = [pass EXCEPT ![p] = row]
        /\ UNCHANGED <<schedule, runs, gen, now, budget, req>>
    BY <1>1 DEF StartPass
  <2>2. row \in PassRow(Len(runs)) /\ row.pc = "loop"
    <3>1. due \subseteq Schedules
      OBVIOUS
    <3> HIDE DEF due
    <3> QED  BY <1>a, <1>d, <3>1 DEF IdlePass, PassRow
  <2> HIDE DEF row
  <2> QED  BY <1>a, <1>c, <2>1, <2>2
<1>2. ASSUME NEW p \in Passes, FinishPass(p) \/ EndPass(p)
             \/ \E s \in Schedules : AbortOnDeleted(p, s)
      PROVE  RunInv'
  <2>1. /\ pass' = [pass EXCEPT ![p] = IdlePass] /\ budget' \in 0 .. MaxInputs
        /\ UNCHANGED <<schedule, runs, gen, now, req>>
    BY <1>2, <1>a DEF FinishPass, EndPass, AbortOnDeleted, Spend
  <2> QED  BY <1>c, <1>d, <2>1
<1>3. ASSUME NEW p \in Passes, NEW s \in Schedules, LockDue(p, s) PROVE RunInv'
  <2> DEFINE row == [pass[p] EXCEPT !.pc = "locked", !.batch = @ \ {s}, !.cur = s,
                                    !.slot = schedule[s].next]
  <2>1. row \in PassRow(Len(runs)) /\ row.cur = s /\ row.pc = "locked"
    <3>1. schedule[s].next \in Nat /\ pass[p] \in PassRow(Len(runs))
      BY <1>a DEF ScheduleRow
    <3> QED  BY <3>1 DEF PassRow
  <2>2. /\ pass' = [pass EXCEPT ![p] = row]
        /\ UNCHANGED <<schedule, runs, gen, now, budget, req>>
    BY <1>3, <1>a DEF LockDue
  <2> HIDE DEF row
  <2> QED  BY <1>a, <1>c, <2>1, <2>2
<1>4. ASSUME NEW p \in Passes, NEW s \in Schedules, SkipNotDue(p, s) PROVE RunInv'
  <2> DEFINE row == [pass[p] EXCEPT !.batch = @ \ {s}]
  <2>1. row \in PassRow(Len(runs)) /\ row.pc = "loop"
    <3>1. pass[p] \in PassRow(Len(runs)) /\ pass[p].pc = "loop"
      BY <1>4, <1>a DEF SkipNotDue
    <3> QED  BY <3>1 DEF PassRow
  <2>2. /\ pass' = [pass EXCEPT ![p] = row]
        /\ UNCHANGED <<schedule, runs, gen, now, budget, req>>
    BY <1>4, <1>a DEF SkipNotDue
  <2> HIDE DEF row
  <2> QED  BY <1>a, <1>c, <2>1, <2>2
<1>5. ASSUME NEW p \in Passes, CreateRun(p) PROVE RunInv'
  <2> DEFINE s == pass[p].cur
             run == [schedule |-> s, slot |-> pass[p].slot, status |-> "queued",
                     tries |-> 0, file |-> FALSE, listed |-> TRUE]
             row == [pass[p] EXCEPT !.pc = "enqueue", !.run = Len(runs) + 1]
  <2>1. /\ s \in Schedules /\ pass[p].slot \in Nat /\ pass[p] \in PassRow(Len(runs))
        /\ schedule[s] \in ScheduleRow
    BY <1>5, <1>a DEF CreateRun, RunInv, PassRow
  <2>2. run \in RunRow
    BY <1>a, <2>1 DEF RunRow
  <2>3. schedule' \in [Schedules -> ScheduleRow]
    <3>1. schedule[s].period \in Periods
      BY <2>1 DEF ScheduleRow
    <3>2. pass[p].slot + schedule[s].period \in Nat
      <4>1. \A d \in Periods : d \in Nat
        BY ScheduleConstants
      <4>2. schedule[s].period \in Nat
        BY <3>1, <4>1
      <4> QED  BY <2>1, <4>2
    <3> DEFINE later == [schedule[s] EXCEPT !.next = pass[p].slot + schedule[s].period]
    <3>3. later \in ScheduleRow
      BY <2>1, <3>2 DEF ScheduleRow
    <3>4. schedule' = [schedule EXCEPT ![s] = later]
      BY <1>5, <1>a, <2>1 DEF CreateRun, AdvanceNextRun
    <3> HIDE DEF later
    <3> QED  BY <1>a, <2>1, <3>3, <3>4
  <2>4. row \in PassRow(Len(runs) + 1) /\ row.cur = s /\ row.run = Len(runs) + 1
    <3>1. pass[p].run \in 0 .. (Len(runs) + 1) /\ Len(runs) + 1 \in 0 .. (Len(runs) + 1)
      BY <1>b, <2>1 DEF PassRow
    <3> QED  BY <2>1, <3>1 DEF PassRow
  <2>5. /\ runs' = Append(runs, run) /\ gen' = Append(gen, "none")
        /\ pass' = [pass EXCEPT ![p] = row] /\ UNCHANGED <<now, budget, req>>
    BY <1>5, <1>a DEF CreateRun
  <2> HIDE DEF row
  <2>6. /\ runs' \in Seq(RunRow) /\ gen' \in Seq(TaskStates) /\ Len(gen') = Len(runs')
        /\ Len(runs') = Len(runs) + 1 /\ DOMAIN runs' = DOMAIN runs \union {Len(runs) + 1}
        /\ runs'[Len(runs) + 1] = run /\ gen'[Len(runs) + 1] = "none"
        /\ \A i \in DOMAIN runs : runs'[i] = runs[i] /\ gen'[i] = gen[i]
    <3>1. "none" \in TaskStates
      BY DEF TaskStates
    <3> HIDE DEF run
    <3> QED  BY <1>a, <1>b, <2>2, <2>5, <3>1
  <2>7. \A o \in Passes : pass[o] \in PassRow(Len(runs) + 1)
    BY <1>a, <1>b DEF PassRow
  <2>8. /\ pass' \in [Passes -> PassRow(Len(runs) + 1)]
        /\ \A o \in Passes : pass'[o].pc \in {"locked", "enqueue"} => pass'[o].cur \in Schedules
    BY <1>a, <2>1, <2>4, <2>5, <2>7 DEF RunInv
  <2>9. TypeOK'
    BY <1>a, <2>3, <2>5, <2>6, <2>8 DEF TypeOK, RunRow, PassRow
  <2>10. ASSUME NEW i \in DOMAIN runs' PROVE TaskShows(i)'
    <3>1. CASE i \in DOMAIN runs
      BY <2>6, <3>1 DEF RunInv, TaskShows
    <3>2. CASE i = Len(runs) + 1
      BY <1>a, <2>6, <3>2 DEF TaskShows
    <3> QED  BY <2>6, <3>1, <3>2
  <2>11. EnqueuesOwn'
    <3>1. pass'[p] = row /\ \A o \in Passes \ {p} : pass'[o] = pass[o]
      BY <1>a, <2>5
    <3>2. Len(runs) + 1 \notin DOMAIN runs
      BY <1>b
    <3> QED  BY <2>4, <2>6, <3>1, <3>2 DEF RunInv, EnqueuesOwn
  <2> QED  BY <2>5, <2>8, <2>9, <2>10, <2>11 DEF RunInv
<1>6. ASSUME NEW p \in Passes, EnqueueRun(p) PROVE RunInv'
  <2>1. PICK i \in DOMAIN runs : i = pass[p].run /\ gen[i] = "none" /\ pass[p].pc = "enqueue"
    BY <1>6 DEF EnqueueRun, RunInv, EnqueuesOwn
  <2> DEFINE row == [pass[p] EXCEPT !.pc = "loop", !.cur = NoSchedule, !.run = 0, !.slot = 0]
  <2>2. /\ gen' = [gen EXCEPT ![i] = "queued"] /\ pass' = [pass EXCEPT ![p] = row]
        /\ UNCHANGED <<schedule, runs, now, budget, req>>
    BY <1>6, <1>a, <2>1 DEF EnqueueRun
  <2>3. row \in PassRow(Len(runs)) /\ row.pc = "loop"
    <3>1. pass[p] \in PassRow(Len(runs)) /\ 0 \in 0 .. Len(runs)
      BY <1>a, <1>b
    <3> QED  BY <3>1 DEF PassRow
  <2> HIDE DEF row
  <2>4. /\ pass' \in [Passes -> PassRow(Len(runs))] /\ pass'[p] = row
        /\ \A o \in Passes \ {p} : pass'[o] = pass[o]
    BY <1>a, <2>2, <2>3
  <2>5. /\ gen' \in Seq(TaskStates) /\ Len(gen') = Len(gen) /\ gen'[i] = "queued"
        /\ \A k \in DOMAIN runs \ {i} : gen'[k] = gen[k]
    <3>1. "queued" \in TaskStates
      BY DEF TaskStates
    <3> QED  BY <1>a, <1>b, <2>1, <2>2, <3>1
  <2>6. TypeOK'
    BY <1>a, <2>2, <2>4, <2>5 DEF TypeOK, RunRow, PassRow
  <2>7. \A k \in DOMAIN runs : TaskShows(k)'
    BY <2>1, <2>2, <2>5 DEF RunInv, TaskShows
  <2>8. EnqueuesOwn'
    BY <2>1, <2>2, <2>3, <2>4, <2>5 DEF RunInv, EnqueuesOwn
  <2> QED  BY <2>2, <2>3, <2>4, <2>6, <2>7, <2>8 DEF RunInv
(* Handlers.                                                               *)
<1>f. ASSUME schedule' \in [Schedules -> ScheduleRow], budget' \in 0 .. MaxInputs,
             now' \in 0 .. MaxTime, UNCHANGED <<runs, gen, pass>>,
             \A u \in Users : req'[u].pc = "idle" \/ req'[u] \in Holding
      PROVE  RunInv'
  BY <1>f DEF RunInv, TypeOK, EnqueuesOwn, TaskShows
<1>g. ASSUME NEW s \in Schedules, NEW times \in SUBSET Nat, NEW row \in Submitted(s, times)
      PROVE  row \in ScheduleRow
  <2>1. Lists[s] \subseteq BOOLEAN
    BY ScheduleConstants
  <2> QED  BY <1>g, <2>1 DEF Submitted, ScheduleRow
<1>h. ASSUME NEW u \in Users, NEW s \in Schedules, NEW op \in {"patch", "delete"},
             NEW row \in ScheduleRow, FetchSchedule(u, s, op, row)
      PROVE  RunInv'
  <2> DEFINE held == [pc |-> "save", op |-> op, schedule |-> s, row |-> row]
  <2>1. held \in Holding
    BY DEF Holding
  <2>2. /\ req' = [req EXCEPT ![u] = held] /\ budget' \in 0 .. MaxInputs
        /\ UNCHANGED <<schedule, runs, gen, now, pass>>
    BY <1>h, <1>a DEF FetchSchedule, Spend
  <2> HIDE DEF held
  <2>3. \A v \in Users : req'[v].pc = "idle" \/ req'[v] \in Holding
    BY <2>1, <2>2 DEF RunInv
  <2> QED  BY <1>a, <1>f, <2>2, <2>3
<1>7. ASSUME NEW s \in Schedules, CreateSchedule(s) PROVE RunInv'
  <2>1. PICK row \in Submitted(s, Starts) : schedule' = [schedule EXCEPT ![s] = row]
    BY <1>7 DEF CreateSchedule
  <2>2. Starts \subseteq Nat /\ budget' \in 0 .. MaxInputs
    BY <1>7, <1>a, ScheduleConstants DEF CreateSchedule, Spend
  <2>3. row \in ScheduleRow
    BY <1>g, <2>1, <2>2
  <2>4. schedule' \in [Schedules -> ScheduleRow]
    BY <1>a, <2>1, <2>3
  <2> QED  BY <1>7, <1>a, <1>f, <2>2, <2>4 DEF CreateSchedule, RunInv
<1>8. ASSUME NEW u \in Users, NEW s \in Schedules, PatchSchedule(u, s) PROVE RunInv'
  <2>1. PICK row \in Submitted(s, Starts \union {schedule[s].next}) :
          FetchSchedule(u, s, "patch", row)
    BY <1>8 DEF PatchSchedule
  <2>2. Starts \union {schedule[s].next} \subseteq Nat
    BY <1>a, ScheduleConstants DEF ScheduleRow
  <2>3. row \in ScheduleRow
    BY <1>g, <2>1, <2>2
  <2> QED  BY <1>h, <2>1, <2>3
<1>9. ASSUME NEW u \in Users, NEW s \in Schedules, DeleteSchedule(u, s) PROVE RunInv'
  <2>1. [schedule[s] EXCEPT !.life = "deleted"] \in ScheduleRow
    <3>1. schedule[s] \in ScheduleRow
      BY <1>a
    <3> QED  BY <3>1 DEF ScheduleRow
  <2> QED  BY <1>9, <1>h, <2>1 DEF DeleteSchedule
<1>10. ASSUME NEW u \in Users, SaveSchedule(u) PROVE RunInv'
  <2>1. req[u] \in Holding
    BY <1>10 DEF SaveSchedule, RunInv
  <2>2. /\ req[u].schedule \in Schedules /\ req[u].row \in ScheduleRow
        /\ schedule[req[u].schedule] \in ScheduleRow
    BY <1>a, <2>1 DEF Holding
  <2>3. schedule' \in [Schedules -> ScheduleRow]
    <3>1. CASE schedule' = [schedule EXCEPT ![req[u].schedule] = req[u].row]
      BY <1>a, <2>2, <3>1
    <3>2. CASE schedule' = [schedule EXCEPT ![req[u].schedule].life = "deleted"]
      <4>1. [schedule[req[u].schedule] EXCEPT !.life = "deleted"] \in ScheduleRow
        BY <2>2 DEF ScheduleRow
      <4> QED  BY <1>a, <2>2, <3>2, <4>1
    <3> QED  BY <1>10, <3>1, <3>2 DEF SaveSchedule
  <2>4. /\ req' = [req EXCEPT ![u] = [pc |-> "idle"]]
        /\ UNCHANGED <<runs, gen, now, budget, pass>>
    BY <1>10 DEF SaveSchedule
  <2>5. \A v \in Users : req'[v].pc = "idle" \/ req'[v] \in Holding
    BY <2>4 DEF RunInv
  <2> QED  BY <1>a, <1>f, <2>3, <2>4, <2>5
<1>11. CASE Tick
  <2>1. budget' \in 0 .. MaxInputs /\ now' \in 0 .. MaxTime
    BY <1>11, <1>a, ScheduleConstants DEF Tick, Spend
  <2> QED  BY <1>11, <1>a, <1>f, <2>1 DEF Tick, RunInv
(* Tasks.                                                                  *)
<1>i. ASSUME NEW i \in DOMAIN runs
      PROVE  /\ runs[i] \in RunRow /\ TaskShows(i) /\ runs[i].tries \in 0 .. MaxRetries + 1
             /\ \A tries \in 0 .. MaxRetries : tries + 1 \in 0 .. MaxRetries + 1
  BY <1>a, <1>b DEF RunInv, RunRow
<1>12. ASSUME NEW i \in DOMAIN runs, TakeRun(i) PROVE RunInv'
  <2> DEFINE run == [runs[i] EXCEPT !.status = "processing",
                                    !.listed = schedule[runs[i].schedule].listed]
  <2>1. schedule[runs[i].schedule].listed \in BOOLEAN
    BY <1>a, <1>i DEF RunRow, ScheduleRow
  <2>2. /\ run \in RunRow /\ run.status = "processing" /\ run.tries = runs[i].tries
        /\ run.file = runs[i].file
    BY <1>i, <2>1 DEF RunRow
  <2>3. /\ runs' = [runs EXCEPT ![i] = run] /\ gen' = [gen EXCEPT ![i] = "taken"]
        /\ gen[i] = "queued" /\ UNCHANGED <<schedule, now, budget, pass, req>>
    BY <1>12, <1>a DEF TakeRun
  <2> HIDE DEF run
  <2>4. runs'[i] = run /\ gen'[i] = "taken" /\ "taken" \in TaskStates
    BY <1>a, <1>b, <2>3 DEF TaskStates
  <2>5. TaskShows(i)'
    BY <1>i, <2>2, <2>3, <2>4 DEF TaskShows
  <2> QED  BY <1>a, <1>e, <2>2, <2>3, <2>4, <2>5
<1>13. ASSUME NEW i \in DOMAIN runs, WriteReport(i) PROVE RunInv'
  <2> DEFINE run == [runs[i] EXCEPT !.file = TRUE]
  <2>1. /\ run \in RunRow /\ run.status = runs[i].status /\ run.tries = runs[i].tries
        /\ run.file
    BY <1>i DEF RunRow
  <2>2. /\ runs' = [runs EXCEPT ![i] = run] /\ gen' = [gen EXCEPT ![i] = "written"]
        /\ gen[i] = "taken" /\ UNCHANGED <<schedule, now, budget, pass, req>>
    BY <1>13, <1>a DEF WriteReport
  <2> HIDE DEF run
  <2>3. runs'[i] = run /\ gen'[i] = "written" /\ "written" \in TaskStates
    BY <1>a, <1>b, <2>2 DEF TaskStates
  <2>4. TaskShows(i)'
    BY <1>i, <2>1, <2>2, <2>3 DEF TaskShows
  <2> QED  BY <1>a, <1>e, <2>1, <2>2, <2>3, <2>4
<1>14. ASSUME NEW i \in DOMAIN runs, CompleteRun(i) PROVE RunInv'
  <2> DEFINE run == [runs[i] EXCEPT !.status = "completed"]
  <2>1. /\ run \in RunRow /\ run.status = "completed" /\ run.tries = runs[i].tries
        /\ run.file = runs[i].file
    BY <1>i DEF RunRow
  <2>2. /\ runs' = [runs EXCEPT ![i] = run] /\ gen' = [gen EXCEPT ![i] = "mailing"]
        /\ gen[i] = "written" /\ UNCHANGED <<schedule, now, budget, pass, req>>
    BY <1>14, <1>a DEF CompleteRun
  <2> HIDE DEF run
  <2>3. runs'[i] = run /\ gen'[i] = "mailing" /\ "mailing" \in TaskStates
    BY <1>a, <1>b, <2>2 DEF TaskStates
  <2>4. TaskShows(i)'
    BY <1>i, <2>1, <2>2, <2>3 DEF TaskShows
  <2> QED  BY <1>a, <1>e, <2>1, <2>2, <2>3, <2>4
(* An attempt that had some left fails.                                    *)
<1>j. ASSUME NEW i \in DOMAIN runs, Fail(i), gen[i] \in {"taken", "mailing"},
             UNCHANGED <<schedule, now, pass, req>>, budget' \in 0 .. MaxInputs
      PROVE  RunInv'
  <2> DEFINE run == [runs[i] EXCEPT !.status = "failed", !.tries = @ + 1]
  <2>1. runs[i].tries \in 0 .. MaxRetries
    BY <1>a, <1>i, <1>j DEF TaskShows
  <2>2. run \in RunRow /\ run.status = "failed"
    BY <1>i, <2>1 DEF RunRow
  <2>3. runs' = [runs EXCEPT ![i] = run] /\ gen' = [gen EXCEPT ![i] = "failing"]
    BY <1>j, <1>a DEF Fail
  <2> HIDE DEF run
  <2>4. runs'[i] = run /\ gen'[i] = "failing" /\ "failing" \in TaskStates
    BY <1>a, <1>b, <2>3 DEF TaskStates
  <2>5. TaskShows(i)'
    BY <2>2, <2>4 DEF TaskShows
  <2> QED  BY <1>e, <1>j, <2>2, <2>3, <2>4, <2>5
<1>15. ASSUME NEW i \in DOMAIN runs, RenderFails(i) PROVE RunInv'
  BY <1>15, <1>a, <1>j DEF RenderFails, Spend
(* A step that leaves the run alone.                                       *)
<1>k. ASSUME NEW i \in DOMAIN runs, NEW state \in TaskStates,
             gen' = [gen EXCEPT ![i] = state], gen[i] # "none",
             TaskShows(i)', UNCHANGED <<schedule, runs, now, pass, req>>,
             budget' \in 0 .. MaxInputs
      PROVE  RunInv'
  <2>1. runs' = [runs EXCEPT ![i] = runs[i]]
    BY <1>a, <1>k
  <2> QED  BY <1>e, <1>i, <1>k, <2>1
<1>16. ASSUME NEW i \in DOMAIN runs, MailReport(i) PROVE RunInv'
  <2>1. CASE Fail(i)
    BY <1>16, <1>a, <1>j, <2>1 DEF MailReport
  <2>2. CASE gen' = [gen EXCEPT ![i] = "done"] /\ UNCHANGED runs
    <3>1. gen'[i] = "done" /\ "done" \in TaskStates /\ runs' = runs /\ gen[i] = "mailing"
      BY <1>16, <1>a, <1>b, <2>2 DEF TaskStates, MailReport
    <3>2. TaskShows(i)'
      BY <1>i, <3>1 DEF TaskShows
    <3> QED  BY <1>16, <1>a, <1>k, <2>2, <3>1, <3>2 DEF MailReport
  <2> QED  BY <1>16, <2>1, <2>2 DEF MailReport
<1>17. ASSUME NEW i \in DOMAIN runs, Retry(i) PROVE RunInv'
  <2>1. PICK state \in TaskStates :
          /\ gen' = [gen EXCEPT ![i] = state] /\ runs' = runs /\ gen[i] = "failing"
          /\ state = IF runs[i].tries <= MaxRetries THEN "queued" ELSE "done"
    BY <1>17 DEF Retry, TaskStates
  <2>2. gen'[i] = state
    BY <1>a, <1>b, <2>1
  <2>3. ~ (runs[i].tries <= MaxRetries) => runs[i].tries = MaxRetries + 1
    BY <1>a, <1>i
  <2>4. TaskShows(i)'
    BY <1>i, <2>1, <2>2, <2>3 DEF TaskShows
  <2> QED  BY <1>17, <1>a, <1>k, <2>1, <2>4 DEF Retry
<1>18. ASSUME NEW i \in DOMAIN runs, LoseTask(i) PROVE RunInv'
  <2>1. /\ gen' = [gen EXCEPT ![i] = "lost"] /\ "lost" \in TaskStates /\ gen[i] # "none"
        /\ UNCHANGED <<schedule, runs, now, pass, req>> /\ budget' \in 0 .. MaxInputs
    BY <1>18, <1>a DEF LoseTask, Running, TaskStates, Spend
  <2>2. gen'[i] = "lost"
    BY <1>a, <1>b, <2>1
  <2>3. TaskShows(i)'
    BY <1>i, <2>1, <2>2 DEF TaskShows
  <2> QED  BY <1>k, <2>1, <2>3
(* An attempt that fails before the try.                                   *)
<1>19. ASSUME NEW i \in DOMAIN runs, StartFails(i) PROVE RunInv'
  <2> DEFINE run == [runs[i] EXCEPT !.tries = @ + 1]
  <2>1. /\ runs' = [runs EXCEPT ![i] = run] /\ gen' = [gen EXCEPT ![i] = "failing"]
        /\ gen[i] = "queued" /\ UNCHANGED <<schedule, now, pass, req>>
        /\ budget' \in 0 .. MaxInputs
    BY <1>19, <1>a DEF StartFails, Spend
  <2>2. runs[i].tries \in 0 .. MaxRetries
    BY <1>a, <1>i, <2>1 DEF TaskShows
  <2>3. run \in RunRow /\ run.status = runs[i].status /\ run.file = runs[i].file
    BY <1>i, <2>2 DEF RunRow
  <2> HIDE DEF run
  <2>4. runs'[i] = run /\ gen'[i] = "failing" /\ "failing" \in TaskStates
    BY <1>a, <1>b, <2>1 DEF TaskStates
  <2>5. TaskShows(i)'
    BY <1>i, <2>1, <2>3, <2>4 DEF TaskShows
  <2> QED  BY <1>e, <2>1, <2>3, <2>4, <2>5
<1>20. CASE UNCHANGED vars
  BY <1>20 DEF vars, RunInv, TypeOK, EnqueuesOwn, TaskShows
<1> QED
  BY <1>1, <1>2, <1>3, <1>4, <1>5, <1>6, <1>7, <1>8, <1>9, <1>10, <1>11, <1>12, <1>13,
     <1>14, <1>15, <1>16, <1>17, <1>18, <1>19, <1>20 DEF Next, PassStep, RunStep, TaskFails

LEMMA RunsInvariant == Spec => []RunInv
BY InitRuns, RunStepInv, PTL DEF Spec

(* The model is type correct; in particular no run is attempted more often *)
(* than retry_kwargs allows.                                               *)
THEOREM ReportTypeCorrect == Spec => []TypeOK
<1>1. RunInv => TypeOK
  BY DEF RunInv
<1> QED
  BY <1>1, RunsInvariant, PTL

(* What a run shows: one shown as completed has its artifact on disk, also *)
(* while a retry is half-way (no attempt takes an earlier one's file       *)
(* away), and one left as failed has used all its retries, unless a worker *)
(* died over it.                                                           *)
THEOREM ReportsShowTheirTask == Spec => []RunsShowTheirTask
<1>1. RunInv => RunsShowTheirTask
  BY DEF RunInv, TaskShows, RunsShowTheirTask
<1> QED
  BY <1>1, RunsInvariant, PTL

-----------------------------------------------------------------------------
(* Slots.                                                                  *)

(* A pass that has locked a schedule has it to itself, and it stands at    *)
(* the slot that the pass has read, which has come.                        *)
LocksAreFresh ==
  \A p \in Passes :
    /\ pass[p].pc # "idle" => pass[p].now <= now
    /\ pass[p].pc = "locked" =>
         /\ Active(schedule[pass[p].cur]) /\ pass[p].slot = schedule[pass[p].cur].next
         /\ pass[p].slot <= pass[p].now
         /\ \A o \in Passes \ {p} : pass[o].pc = "locked" => pass[o].cur # pass[p].cur

(* Schedules with runs exist, for good.                                    *)
SchedulesExist ==
  /\ \A i \in DOMAIN runs : schedule[runs[i].schedule].life # "absent"
  /\ \A u \in Users : req[u].pc # "idle" => req[u].row.life # "absent"

(* A schedule whose slot and period no PATCH has changed stands one period *)
(* after its last run.                                                     *)
LastSlot ==
  \A i \in DOMAIN runs :
    /\ runs[i].schedule \notin rescheduled
    /\ \A k \in i + 1 .. Len(runs) : runs[k].schedule # runs[i].schedule
    => schedule[runs[i].schedule].next = runs[i].slot + schedule[runs[i].schedule].period

SlotInv == LocksAreFresh /\ SchedulesExist /\ LastSlot /\ EachSlotOnce

(* What the steps of a task leave alone.                                   *)
KeepsSlots ==
  /\ DOMAIN runs' = DOMAIN runs /\ Len(runs') = Len(runs)
  /\ \A i \in DOMAIN runs : runs'[i].schedule = runs[i].schedule /\ runs'[i].slot = runs[i].slot
  /\ UNCHANGED <<schedule, now, pass, req, rescheduled>>

LEMMA TasksKeepSlots ==
  ASSUME TypeOK, NEW i \in DOMAIN runs, RunStep(i) \/ TaskFails(i)
  PROVE  KeepsSlots
<1>1. runs \in Seq(RunRow)
  BY DEF TypeOK, RunRow
<1>2. runs[i] \in RunRow
  BY <1>1
<1>3. PICK run : /\ run.schedule = runs[i].schedule /\ run.slot = runs[i].slot
                 /\ runs' = [runs EXCEPT ![i] = run]
  <2>1. CASE TakeRun(i)
    <3> DEFINE run == [runs[i] EXCEPT !.status = "processing",
                                      !.listed = schedule[runs[i].schedule].listed]
    <3>1. run.schedule = runs[i].schedule /\ run.slot = runs[i].slot
      BY <1>2 DEF RunRow
    <3>2. runs' = [runs EXCEPT ![i] = run]
      BY <2>1, <1>1 DEF TakeRun
    <3> HIDE DEF run
    <3> QED  BY <3>1, <3>2
  <2>2. CASE WriteReport(i)
    <3> DEFINE run == [runs[i] EXCEPT !.file = TRUE]
    <3>1. run.schedule = runs[i].schedule /\ run.slot = runs[i].slot
      BY <1>2 DEF RunRow
    <3>2. runs' = [runs EXCEPT ![i] = run]
      BY <2>2, <1>1 DEF WriteReport
    <3> HIDE DEF run
    <3> QED  BY <3>1, <3>2
  <2>3. CASE CompleteRun(i)
    <3> DEFINE run == [runs[i] EXCEPT !.status = "completed"]
    <3>1. run.schedule = runs[i].schedule /\ run.slot = runs[i].slot
      BY <1>2 DEF RunRow
    <3>2. runs' = [runs EXCEPT ![i] = run]
      BY <2>3, <1>1 DEF CompleteRun
    <3> HIDE DEF run
    <3> QED  BY <3>1, <3>2
  <2>4. CASE Fail(i)
    <3> DEFINE run == [runs[i] EXCEPT !.status = "failed", !.tries = @ + 1]
    <3>1. run.schedule = runs[i].schedule /\ run.slot = runs[i].slot
      BY <1>2 DEF RunRow
    <3>2. runs' = [runs EXCEPT ![i] = run]
      BY <2>4, <1>1 DEF Fail
    <3> HIDE DEF run
    <3> QED  BY <3>1, <3>2
  <2>5. CASE StartFails(i)
    <3> DEFINE run == [runs[i] EXCEPT !.tries = @ + 1]
    <3>1. run.schedule = runs[i].schedule /\ run.slot = runs[i].slot
      BY <1>2 DEF RunRow
    <3>2. runs' = [runs EXCEPT ![i] = run]
      BY <2>5, <1>1 DEF StartFails
    <3> HIDE DEF run
    <3> QED  BY <3>1, <3>2
  <2>6. CASE UNCHANGED runs
    <3>1. runs' = [runs EXCEPT ![i] = runs[i]]
      BY <2>6, <1>1
    <3> QED  BY <3>1
  <2> QED
    BY <2>1, <2>2, <2>3, <2>4, <2>5, <2>6
       DEF RunStep, TaskFails, RenderFails, LoseTask, MailReport, Retry
<1>4. UNCHANGED <<schedule, now, pass, req, rescheduled>>
  BY DEF RunStep, TaskFails, StartFails, RenderFails, LoseTask, TakeRun, WriteReport,
         CompleteRun, MailReport, Retry
<1>5. /\ DOMAIN runs' = DOMAIN runs /\ DOMAIN runs = 1 .. Len(runs)
      /\ runs'[i] = run /\ \A k \in DOMAIN runs \ {i} : runs'[k] = runs[k]
  BY <1>1, <1>3
<1>6. Len(runs') = Len(runs)
  BY <1>1, <1>3
<1> QED
  BY <1>3, <1>4, <1>5, <1>6 DEF KeepsSlots

LEMMA SlotStep == RunInv /\ SlotInv /\ [Next]_vars => SlotInv'
<1> SUFFICES ASSUME RunInv, SlotInv, [Next]_vars
             PROVE  SlotInv'
  OBVIOUS
<1>a. /\ schedule \in [Schedules -> ScheduleRow] /\ runs \in Seq(RunRow)
      /\ pass \in [Passes -> PassRow(Len(runs))]
      /\ now \in Nat /\ MaxTime \in Nat /\ Len(runs) \in Nat
      /\ DOMAIN runs = 1 .. Len(runs)
      /\ \A i \in DOMAIN runs : runs[i].schedule \in Schedules /\ runs[i].slot \in Nat
      /\ \A s \in Schedules : schedule[s].next \in Nat /\ schedule[s].period \in Nat
  <2>1. /\ schedule \in [Schedules -> ScheduleRow] /\ runs \in Seq(RunRow)
        /\ pass \in [Passes -> PassRow(Len(runs))] /\ now \in 0 .. MaxTime
    BY DEF RunInv, TypeOK, RunRow, PassRow
  <2>2. now \in Nat /\ MaxTime \in Nat
    BY <2>1, ScheduleConstants
  <2>3. Len(runs) \in Nat /\ DOMAIN runs = 1 .. Len(runs)
    BY <2>1
  <2>4. \A i \in DOMAIN runs : runs[i] \in RunRow
    BY <2>1
  <2>5. \A i \in DOMAIN runs : runs[i].schedule \in Schedules /\ runs[i].slot \in Nat
    BY <2>4 DEF RunRow
  <2>6. \A s \in Schedules : schedule[s] \in ScheduleRow
    BY <2>1
  <2>7. \A s \in Schedules : schedule[s].next \in Nat /\ schedule[s].period \in Nat
    BY <2>6, ScheduleConstants DEF ScheduleRow
  <2> QED  BY <2>1, <2>2, <2>3, <2>5, <2>7
<1>b. \A p \in Passes : pass[p].now \in Nat /\ (pass[p].pc = "locked" => pass[p].cur \in Schedules)
  BY <1>a DEF PassRow, RunInv
(* A step of a pass that creates no run.                                   *)
<1>c. ASSUME NEW p \in Passes, NEW row,
             pass' = [pass EXCEPT ![p] = row], row.pc # "locked",
             row.pc # "idle" => row.now <= now,
             UNCHANGED <<schedule, runs, now, req, rescheduled>>
      PROVE  SlotInv'
  <2>1. LocksAreFresh'
    BY <1>a, <1>c DEF SlotInv, LocksAreFresh
  <2> QED  BY <1>c, <2>1 DEF SlotInv, SchedulesExist, LastSlot, EachSlotOnce
<1>1. ASSUME NEW p \in Passes, StartPass(p) PROVE SlotInv'
  <2> DEFINE due == {s \in Schedules : Active(schedule[s]) /\ schedule[s].next <= now}
             row == [IdlePass EXCEPT !.pc = "loop", !.now = now, !.batch = due]
  <2>1. row.pc = "loop" /\ row.now = now /\ now <= now
    BY <1>a DEF IdlePass
  <2>2. pass' = [pass EXCEPT ![p] = row] /\ UNCHANGED <<schedule, runs, now, req, rescheduled>>
    BY <1>1 DEF StartPass
  <2> HIDE DEF row
  <2> QED  BY <1>c, <2>1, <2>2
<1>2. ASSUME NEW p \in Passes, FinishPass(p) \/ EndPass(p)
             \/ \E s \in Schedules : AbortOnDeleted(p, s)
      PROVE  SlotInv'
  <2>1. /\ pass' = [pass EXCEPT ![p] = IdlePass]
        /\ UNCHANGED <<schedule, runs, now, req, rescheduled>>
    BY <1>2 DEF FinishPass, EndPass, AbortOnDeleted
  <2>2. IdlePass.pc = "idle"
    BY DEF IdlePass
  <2> QED  BY <1>c, <2>1, <2>2
<1>3. ASSUME NEW p \in Passes, (\E s \in Schedules : SkipNotDue(p, s)) \/ EnqueueRun(p)
      PROVE  SlotInv'
  <2>1. /\ pass'[p].pc = "loop" /\ pass'[p].now = pass[p].now /\ pass[p].pc # "idle"
        /\ pass' = [pass EXCEPT ![p] = pass'[p]]
        /\ UNCHANGED <<schedule, runs, now, req, rescheduled>>
    <3>1. CASE EnqueueRun(p)
      BY <1>a, <3>1 DEF EnqueueRun, PassRow
    <3>2. ASSUME NEW s \in Schedules, SkipNotDue(p, s)
          PROVE  /\ pass'[p].pc = "loop" /\ pass'[p].now = pass[p].now /\ pass[p].pc # "idle"
                 /\ pass' = [pass EXCEPT ![p] = pass'[p]]
                 /\ UNCHANGED <<schedule, runs, now, req, rescheduled>>
      BY <1>a, <3>2 DEF SkipNotDue, PassRow
    <3> QED  BY <1>3, <3>1, <3>2
  <2>2. pass[p].now <= now
    BY <2>1 DEF SlotInv, LocksAreFresh
  <2> QED  BY <1>c, <2>1, <2>2
<1>4. ASSUME NEW p \in Passes, NEW s \in Schedules, LockDue(p, s) PROVE SlotInv'
  <2>1. /\ pass'[p].pc = "locked" /\ pass'[p].now = pass[p].now /\ pass'[p].cur = s
        /\ pass'[p].slot = schedule[s].next /\ pass[p].pc = "loop"
        /\ \A o \in Passes \ {p} : pass'[o] = pass[o]
    BY <1>4, <1>a DEF LockDue, PassRow
  <2>2. /\ ~ Locked(s) /\ Active(schedule[s]) /\ schedule[s].next <= pass[p].now
        /\ UNCHANGED <<schedule, runs, now, req, rescheduled>>
    BY <1>4 DEF LockDue
  <2>3. \A o \in Passes : pass[o].pc = "locked" => pass[o].cur # s
    BY <2>2 DEF Locked
  <2>4. LocksAreFresh'
    BY <2>1, <2>2, <2>3 DEF SlotInv, LocksAreFresh, Active
  <2> QED  BY <2>2, <2>4 DEF SlotInv, SchedulesExist, LastSlot, EachSlotOnce
<1>5. ASSUME NEW p \in Passes, CreateRun(p) PROVE SlotInv'
  <2>1. PICK s \in Schedules : s = pass[p].cur
    BY <1>5, <1>b DEF CreateRun
  <2>2. /\ pass[p].pc = "locked" /\ pass[p].slot = schedule[s].next
        /\ schedule[s].life # "absent" /\ UNCHANGED <<now, req, rescheduled>>
    BY <1>5, <2>1 DEF CreateRun, SlotInv, LocksAreFresh, Active
  <2>3. PICK run : /\ run.schedule = s /\ run.slot = schedule[s].next
                   /\ runs' = Append(runs, run) /\ run \in RunRow
    <3> DEFINE run == [schedule |-> s, slot |-> pass[p].slot, status |-> "queued",
                       tries |-> 0, file |-> FALSE, listed |-> TRUE]
    <3>1. run.schedule = s /\ run.slot = schedule[s].next
      BY <2>2
    <3>2. run \in RunRow
      BY <1>a, <2>2, ScheduleConstants DEF RunRow
    <3>3. runs' = Append(runs, run)
      BY <1>5, <2>1 DEF CreateRun
    <3> HIDE DEF run
    <3> QED  BY <3>1, <3>2, <3>3
  <2>4. PICK row : /\ row.next = schedule[s].next + schedule[s].period
                   /\ row.period = schedule[s].period /\ row.life = schedule[s].life
                   /\ row.enabled = schedule[s].enabled
                   /\ schedule' = [schedule EXCEPT ![s] = row]
    <3> DEFINE row == [schedule[s] EXCEPT !.next = schedule[s].next + schedule[s].period]
    <3>1. schedule[s] \in ScheduleRow
      BY <1>a
    <3>2. /\ row.next = schedule[s].next + schedule[s].period
          /\ row.period = schedule[s].period /\ row.life = schedule[s].life
          /\ row.enabled = schedule[s].enabled
      BY <3>1 DEF ScheduleRow
    <3>3. schedule' = [schedule EXCEPT ![s] = row]
      BY <1>5, <1>a, <2>1, <2>2 DEF CreateRun, AdvanceNextRun
    <3> HIDE DEF row
    <3> QED  BY <3>2, <3>3
  <2>5. /\ pass'[p].pc = "enqueue" /\ pass'[p].now = pass[p].now
        /\ \A o \in Passes \ {p} : pass'[o] = pass[o]
    BY <1>5, <1>a DEF CreateRun, PassRow
  <2>6. /\ Len(runs') = Len(runs) + 1 /\ DOMAIN runs' = 1 .. Len(runs) + 1
        /\ runs'[Len(runs) + 1] = run /\ \A i \in DOMAIN runs : runs'[i] = runs[i]
    BY <1>a, <2>3
  <2>7. /\ schedule'[s] = row /\ \A t \in Schedules \ {s} : schedule'[t] = schedule[t]
    BY <1>a, <2>4
  <2>8. \A t \in Schedules : /\ schedule'[t].life = schedule[t].life
                            /\ schedule'[t].period = schedule[t].period
    BY <2>4, <2>7
  <2>9. LocksAreFresh'
    <3>1. \A o \in Passes \ {p} : pass[o].pc = "locked" => pass[o].cur \in Schedules \ {s}
      BY <1>b, <2>1, <2>2 DEF SlotInv, LocksAreFresh
    <3> QED  BY <2>2, <2>5, <2>7, <3>1 DEF SlotInv, LocksAreFresh
  <2>10. SchedulesExist'
    BY <1>a, <2>2, <2>3, <2>6, <2>8 DEF SlotInv, SchedulesExist
  <2>11. LastSlot'
    <3> SUFFICES ASSUME NEW i \in 1 .. Len(runs) + 1, runs'[i].schedule \notin rescheduled,
                        \A k \in i + 1 .. Len(runs) + 1 :
                          runs'[k].schedule # runs'[i].schedule
                 PROVE  schedule'[runs'[i].schedule].next
                          = runs'[i].slot + schedule'[runs'[i].schedule].period
      BY <2>2, <2>6 DEF LastSlot
    <3>1. CASE i = Len(runs) + 1
      BY <3>1, <2>3, <2>4, <2>6, <2>7
    <3>2. CASE i \in DOMAIN runs
      <4>1. Len(runs) + 1 \in i + 1 .. Len(runs) + 1
        BY <1>a, <3>2
      <4>2. runs[i].schedule # s /\ runs[i].schedule \in Schedules
        BY <4>1, <3>2, <1>a, <2>3, <2>6
      <4>3. \A k \in i + 1 .. Len(runs) : /\ k \in i + 1 .. Len(runs) + 1
                                         /\ k \in DOMAIN runs
        BY <1>a, <3>2
      <4>4. \A k \in i + 1 .. Len(runs) : runs[k].schedule # runs[i].schedule
        BY <4>3, <2>6, <3>2
      <4>5. schedule[runs[i].schedule].next
              = runs[i].slot + schedule[runs[i].schedule].period
        BY <4>4, <2>6, <3>2 DEF SlotInv, LastSlot
      <4> QED  BY <4>2, <4>5, <2>6, <2>7, <3>2
    <3> QED  BY <1>a, <3>1, <3>2
  <2>12. EachSlotOnce'
    <3> SUFFICES ASSUME NEW i \in 1 .. Len(runs) + 1, NEW j \in 1 .. Len(runs) + 1, i < j,
                        runs'[i].schedule = runs'[j].schedule,
                        runs'[i].schedule \notin rescheduled,
                        \A k \in i + 1 .. j - 1 : runs'[k].schedule # runs'[i].schedule
                 PROVE  runs'[j].slot
                          = runs'[i].slot + schedule'[runs'[i].schedule].period
      BY <2>2, <2>6 DEF EachSlotOnce
    <3>1. i \in DOMAIN runs /\ runs'[i] = runs[i] /\ runs[i].schedule \in Schedules
      BY <1>a, <2>6
    <3>2. \A k \in i + 1 .. j - 1 : k \in DOMAIN runs
      BY <1>a
    <3>6. \A k \in i + 1 .. j - 1 : runs[k].schedule # runs[i].schedule
      BY <2>6, <3>1, <3>2
    <3>3. schedule'[runs[i].schedule].period = schedule[runs[i].schedule].period
      BY <2>8, <3>1
    <3>7. runs[i].schedule \notin rescheduled
      BY <3>1
    <3>4. CASE j = Len(runs) + 1
      <4>1. runs[i].schedule = s /\ runs'[j].slot = schedule[s].next
        BY <3>1, <3>4, <2>3, <2>6
      <4>2. i + 1 .. Len(runs) = i + 1 .. j - 1
        BY <1>a, <3>4
      <4>3. schedule[s].next = runs[i].slot + schedule[s].period
        BY <4>1, <4>2, <3>1, <3>6 DEF SlotInv, LastSlot
      <4> QED  BY <4>1, <4>3, <3>1, <3>3
    <3>5. CASE j \in DOMAIN runs
      <4>1. runs'[j] = runs[j]
        BY <2>6, <3>5
      <4>2. runs[j].slot = runs[i].slot + schedule[runs[i].schedule].period
        BY <4>1, <3>1, <3>6, <3>7, <3>5 DEF SlotInv, EachSlotOnce
      <4>3. runs[j].slot = runs'[i].slot + schedule'[runs'[i].schedule].period
        BY <4>2, <3>1, <3>3
      <4> QED  BY <4>1, <4>3
    <3>8. j = Len(runs) + 1 \/ j \in DOMAIN runs
      BY <1>a
    <3> QED  BY <3>4, <3>5, <3>8
  <2> QED  BY <2>9, <2>10, <2>11, <2>12 DEF SlotInv
<1>6. ASSUME NEW s \in Schedules, CreateSchedule(s) PROVE SlotInv'
  <2>1. PICK row \in Submitted(s, Starts) : schedule' = [schedule EXCEPT ![s] = row]
    BY <1>6 DEF CreateSchedule
  <2>2. /\ row.life # "absent" /\ schedule[s].life = "absent"
        /\ UNCHANGED <<runs, now, pass, req, rescheduled>>
    BY <1>6 DEF CreateSchedule, Submitted
  <2>3. \A t \in Schedules \ {s} : schedule'[t] = schedule[t]
    BY <1>a, <2>1
  <2>4. schedule'[s] = row
    BY <1>a, <2>1
  <2>5. \A i \in DOMAIN runs : runs[i].schedule \in Schedules \ {s}
    BY <1>a, <2>2 DEF SlotInv, SchedulesExist
  <2>6. LocksAreFresh'
    <3>1. \A p \in Passes : pass[p].pc = "locked" => pass[p].cur \in Schedules \ {s}
      BY <1>b, <2>2 DEF SlotInv, LocksAreFresh, Active
    <3> QED  BY <2>2, <2>3, <3>1 DEF SlotInv, LocksAreFresh
  <2>7. SchedulesExist' /\ LastSlot' /\ EachSlotOnce'
    BY <2>2, <2>3, <2>5 DEF SlotInv, SchedulesExist, LastSlot, EachSlotOnce
  <2> QED  BY <2>6, <2>7 DEF SlotInv
<1>7. ASSUME NEW u \in Users, NEW s \in Schedules, PatchSchedule(u, s) \/ DeleteSchedule(u, s)
      PROVE  SlotInv'
  <2>1. PICK op, row : FetchSchedule(u, s, op, row) /\ row.life # "absent"
    <3>1. CASE PatchSchedule(u, s)
      BY <3>1 DEF PatchSchedule, Submitted
    <3>2. CASE DeleteSchedule(u, s)
      <4>1. schedule[s] \in ScheduleRow
        BY <1>a
      <4>2. [schedule[s] EXCEPT !.life = "deleted"].life # "absent"
        BY <4>1 DEF ScheduleRow
      <4> QED  BY <3>2, <4>2 DEF DeleteSchedule
    <3> QED  BY <1>7, <3>1, <3>2
  <2>2. /\ req' = [req EXCEPT ![u] = [pc |-> "save", op |-> op, schedule |-> s, row |-> row]]
        /\ UNCHANGED <<schedule, runs, now, pass, rescheduled>>
    BY <2>1 DEF FetchSchedule
  <2>3. \A v \in Users : req'[v].pc # "idle" => req'[v].row.life # "absent"
    BY <2>1, <2>2 DEF SlotInv, SchedulesExist
  <2> QED  BY <2>2, <2>3 DEF SlotInv, LocksAreFresh, SchedulesExist, LastSlot, EachSlotOnce
<1>8. ASSUME NEW u \in Users, SaveSchedule(u) PROVE SlotInv'
  <2>1. PICK s \in Schedules : s = req[u].schedule
    BY <1>8 DEF SaveSchedule, RunInv, Holding
  <2>2. PICK row : /\ schedule' = [schedule EXCEPT ![s] = row] /\ row.life # "absent"
                   /\ rescheduled \subseteq rescheduled'
                   /\ \/ s \in rescheduled'
                      \/ row.next = schedule[s].next /\ row.period = schedule[s].period
    <3>1. CASE schedule' = [schedule EXCEPT ![s] = req[u].row]
               /\ rescheduled' = rescheduled \union {t \in {s} : Moves(t, req[u].row)}
      <4>1. req[u].row.life # "absent"
        BY <1>8 DEF SaveSchedule, SlotInv, SchedulesExist
      <4>2. \/ s \in rescheduled'
            \/ req[u].row.next = schedule[s].next /\ req[u].row.period = schedule[s].period
        BY <3>1 DEF Moves
      <4> QED  BY <3>1, <4>1, <4>2
    <3>2. CASE schedule' = [schedule EXCEPT ![s].life = "deleted"] /\ UNCHANGED rescheduled
      <4> DEFINE row == [schedule[s] EXCEPT !.life = "deleted"]
      <4>1. schedule[s] \in ScheduleRow
        BY <1>a
      <4>2. /\ row.life # "absent" /\ row.next = schedule[s].next
            /\ row.period = schedule[s].period
        BY <4>1 DEF ScheduleRow
      <4>3. schedule' = [schedule EXCEPT ![s] = row]
        BY <3>2, <1>a
      <4> HIDE DEF row
      <4> QED  BY <3>2, <4>2, <4>3
    <3> QED  BY <1>8, <2>1, <3>1, <3>2 DEF SaveSchedule
  <2>3. /\ ~ Locked(s) /\ UNCHANGED <<runs, now, pass>>
        /\ req' = [req EXCEPT ![u] = [pc |-> "idle"]]
    BY <1>8, <2>1 DEF SaveSchedule
  <2>4. schedule'[s] = row /\ \A t \in Schedules \ {s} : schedule'[t] = schedule[t]
    BY <1>a, <2>2
  <2>5. \A t \in Schedules : t \notin rescheduled' =>
          /\ t \notin rescheduled /\ schedule'[t].next = schedule[t].next
          /\ schedule'[t].period = schedule[t].period
    BY <2>2, <2>4
  <2>6. LocksAreFresh'
    <3>1. \A p \in Passes : pass[p].pc = "locked" => pass[p].cur \in Schedules \ {s}
      BY <1>b, <2>3 DEF Locked
    <3> QED  BY <2>3, <2>4, <3>1 DEF SlotInv, LocksAreFresh
  <2>7. SchedulesExist'
    <3>1. \A v \in Users : req'[v].pc # "idle" => req'[v].row.life # "absent"
      BY <2>3 DEF SlotInv, SchedulesExist
    <3>2. \A t \in Schedules : schedule[t].life # "absent" => schedule'[t].life # "absent"
      BY <2>2, <2>4
    <3> QED  BY <1>a, <2>3, <3>1, <3>2 DEF SlotInv, SchedulesExist
  <2>8. \A i \in DOMAIN runs : runs[i].schedule \in Schedules
    BY <1>a
  <2>9. LastSlot'
    BY <2>3, <2>5, <2>8 DEF SlotInv, LastSlot
  <2>10. EachSlotOnce'
    BY <2>3, <2>5, <2>8 DEF SlotInv, EachSlotOnce
  <2> QED  BY <2>6, <2>7, <2>9, <2>10 DEF SlotInv
<1>9. CASE Tick
  <2>1. now' = now + 1 /\ UNCHANGED <<schedule, runs, pass, req, rescheduled>>
    BY <1>9 DEF Tick
  <2>2. \A p \in Passes : pass[p].now <= now => pass[p].now <= now'
    BY <1>a, <1>b, <2>1
  <2>3. LocksAreFresh'
    BY <2>1, <2>2 DEF SlotInv, LocksAreFresh
  <2> QED  BY <2>1, <2>3 DEF SlotInv, SchedulesExist, LastSlot, EachSlotOnce
<1>10. ASSUME NEW i \in DOMAIN runs, RunStep(i) \/ TaskFails(i)
       PROVE  SlotInv'
  <2>1. KeepsSlots
    BY <1>10, TasksKeepSlots DEF RunInv
  <2>2. LocksAreFresh' /\ SchedulesExist'
    BY <2>1 DEF KeepsSlots, SlotInv, LocksAreFresh, SchedulesExist
  <2>3. \A j \in DOMAIN runs : \A k \in j + 1 .. Len(runs) : k \in DOMAIN runs
    BY <1>a
  <2>4. LastSlot'
    BY <2>1, <2>3 DEF KeepsSlots, SlotInv, LastSlot
  <2>5. \A j, h \in DOMAIN runs : \A k \in j + 1 .. h - 1 : k \in DOMAIN runs
    BY <1>a
  <2>6. EachSlotOnce'
    <3> SUFFICES ASSUME NEW j \in DOMAIN runs, NEW h \in DOMAIN runs, j < h,
                        runs'[j].schedule = runs'[h].schedule,
                        runs'[j].schedule \notin rescheduled,
                        \A k \in j + 1 .. h - 1 : runs'[k].schedule # runs'[j].schedule
                 PROVE  runs'[h].slot
                          = runs'[j].slot + schedule'[runs'[j].schedule].period
      BY <2>1 DEF KeepsSlots, EachSlotOnce
    <3>1. /\ runs'[j].schedule = runs[j].schedule /\ runs'[j].slot = runs[j].slot
          /\ runs'[h].schedule = runs[h].schedule /\ runs'[h].slot = runs[h].slot
          /\ schedule' = schedule
      BY <2>1 DEF KeepsSlots
    <3>2. \A k \in j + 1 .. h - 1 : runs[k].schedule # runs[j].schedule
      BY <2>1, <2>5, <3>1 DEF KeepsSlots
    <3>3. runs[h].slot = runs[j].slot + schedule[runs[j].schedule].period
      BY <3>1, <3>2 DEF SlotInv, EachSlotOnce
    <3> QED  BY <3>1, <3>3
  <2> QED  BY <2>2, <2>4, <2>6 DEF SlotInv
<1>11. CASE UNCHANGED vars
  BY <1>11 DEF vars, SlotInv, LocksAreFresh, SchedulesExist, LastSlot, EachSlotOnce
<1> QED
  BY <1>1, <1>2, <1>3, <1>4, <1>5, <1>6, <1>7, <1>8, <1>9, <1>10, <1>11 DEF Next, PassStep

LEMMA SlotsInvariant == Spec => [](RunInv /\ SlotInv)
<1>1. Init => SlotInv
  BY DEF Init, IdlePass, SlotInv, LocksAreFresh, SchedulesExist, LastSlot, EachSlotOnce
<1> QED
  BY <1>1, InitRuns, RunStepInv, SlotStep, PTL DEF Spec

(* However many passes overlap, each slot of a schedule gets one run, in   *)
(* order, as long as no PATCH moves the schedule.                          *)
THEOREM EachSlotGetsOneRun == Spec => []EachSlotOnce
<1>1. SlotInv => EachSlotOnce
  BY DEF SlotInv
<1> QED
  BY <1>1, SlotsInvariant, PTL

(* In the order of their commits the runs of a schedule have later and     *)
(* later slots, none before its time, and the schedule stands behind them. *)
RunsInOrder ==
  \A i \in DOMAIN runs :
    /\ runs[i].slot <= now
    /\ runs[i].schedule \notin rescheduled =>
         /\ runs[i].slot < schedule[runs[i].schedule].next
         /\ \A j \in DOMAIN runs :
              i < j /\ runs[j].schedule = runs[i].schedule => runs[i].slot < runs[j].slot

(* Only CreateRun moves a schedule that no PATCH moves.                    *)
LEMMA SchedulesStand ==
  ASSUME RunInv, SlotInv, [Next]_vars, \A p \in Passes : ~ CreateRun(p)
  PROVE  /\ DOMAIN runs' = DOMAIN runs
         /\ \A i \in DOMAIN runs :
              /\ runs'[i].schedule = runs[i].schedule /\ runs'[i].slot = runs[i].slot
              /\ runs[i].schedule \notin rescheduled' =>
                   /\ runs[i].schedule \notin rescheduled
                   /\ schedule'[runs[i].schedule].next = schedule[runs[i].schedule].next
<1>1. /\ TypeOK /\ schedule \in [Schedules -> ScheduleRow]
      /\ \A i \in DOMAIN runs : runs[i].schedule \in Schedules
  <2>1. runs \in Seq(RunRow) /\ TypeOK
    BY DEF RunInv, TypeOK, RunRow
  <2>2. \A i \in DOMAIN runs : runs[i] \in RunRow
    BY <2>1
  <2> QED  BY <2>1, <2>2 DEF TypeOK, RunRow
<1>2. CASE UNCHANGED <<schedule, runs, rescheduled>>
  BY <1>2
<1>3. ASSUME NEW p \in Passes, PassStep(p) \/ EndPass(p)
      PROVE  UNCHANGED <<schedule, runs, rescheduled>>
  BY <1>3 DEF PassStep, StartPass, FinishPass, EnqueueRun, LockDue, SkipNotDue,
     AbortOnDeleted, EndPass
<1>4. ASSUME NEW s \in Schedules, CreateSchedule(s)
      PROVE  /\ UNCHANGED <<runs, rescheduled>>
             /\ \A i \in DOMAIN runs : schedule'[runs[i].schedule] = schedule[runs[i].schedule]
  <2>1. \A i \in DOMAIN runs : runs[i].schedule # s
    BY <1>4 DEF CreateSchedule, SlotInv, SchedulesExist
  <2> QED  BY <1>1, <1>4, <2>1 DEF CreateSchedule
<1>5. ASSUME NEW u \in Users, NEW s \in Schedules, PatchSchedule(u, s) \/ DeleteSchedule(u, s)
      PROVE  UNCHANGED <<schedule, runs, rescheduled>>
  BY <1>5 DEF PatchSchedule, DeleteSchedule, FetchSchedule
<1>6. ASSUME NEW u \in Users, SaveSchedule(u)
      PROVE  /\ UNCHANGED runs
             /\ \A t \in Schedules \ rescheduled' :
                  t \notin rescheduled /\ schedule'[t].next = schedule[t].next
  <2>1. PICK s \in Schedules : s = req[u].schedule
    BY <1>6 DEF SaveSchedule, RunInv, Holding
  <2>2. CASE schedule' = [schedule EXCEPT ![s] = req[u].row]
             /\ rescheduled' = rescheduled \union {t \in {s} : Moves(t, req[u].row)}
    BY <1>1, <1>6, <2>2 DEF SaveSchedule, Moves
  <2>3. CASE schedule' = [schedule EXCEPT ![s].life = "deleted"] /\ UNCHANGED rescheduled
    <3>1. \A t \in Schedules : schedule'[t].next = schedule[t].next
      BY <1>1, <2>3 DEF ScheduleRow
    <3> QED  BY <1>6, <2>3, <3>1 DEF SaveSchedule
  <2> QED  BY <1>6, <2>1, <2>2, <2>3 DEF SaveSchedule
<1>7. ASSUME NEW i \in DOMAIN runs, RunStep(i) \/ TaskFails(i)
      PROVE  KeepsSlots
  BY <1>1, <1>7, TasksKeepSlots
<1>8. CASE Tick \/ UNCHANGED vars
  BY <1>2, <1>8 DEF Tick, vars
<1> QED
  BY <1>1, <1>2, <1>3, <1>4, <1>5, <1>6, <1>7, <1>8 DEF Next, KeepsSlots

LEMMA ClockStep ==
  ASSUME RunInv, [Next]_vars
  PROVE  now \in Nat /\ now' \in Nat /\ now <= now'
<1>1. now \in Nat
  BY ScheduleConstants DEF RunInv, TypeOK
<1>2. CASE Tick
  BY <1>1, <1>2 DEF Tick
<1>3. ASSUME NEW p \in Passes, PassStep(p) \/ EndPass(p) PROVE UNCHANGED now
  BY <1>3 DEF PassStep, StartPass, FinishPass, CreateRun, EnqueueRun, LockDue, SkipNotDue,
     AbortOnDeleted, EndPass
<1>4. ASSUME NEW u \in Users, NEW s \in Schedules,
             PatchSchedule(u, s) \/ DeleteSchedule(u, s)
      PROVE  UNCHANGED now
  BY <1>4 DEF PatchSchedule, DeleteSchedule, FetchSchedule
<1>5. ASSUME NEW i \in DOMAIN runs, RunStep(i) \/ TaskFails(i)
      PROVE  UNCHANGED now
  BY <1>5 DEF RunStep, TaskFails, StartFails, RenderFails, LoseTask, TakeRun, WriteReport,
              CompleteRun, MailReport, Retry
<1>6. ASSUME NEW u \in Users, SaveSchedule(u) PROVE UNCHANGED now
  BY <1>6 DEF SaveSchedule
<1>7. ASSUME NEW s \in Schedules, CreateSchedule(s) PROVE UNCHANGED now
  BY <1>7 DEF CreateSchedule
<1> QED
  BY <1>1, <1>2, <1>3, <1>4, <1>5, <1>6, <1>7 DEF Next, vars

LEMMA OrderStep == RunInv /\ SlotInv /\ RunsInOrder /\ [Next]_vars => RunsInOrder'
<1> SUFFICES ASSUME RunInv, SlotInv, RunsInOrder, [Next]_vars
             PROVE  RunsInOrder'
  OBVIOUS
<1>1. now \in Nat /\ now' \in Nat /\ now <= now'
  BY ClockStep
<1>2. /\ TypeOK /\ runs \in Seq(RunRow) /\ DOMAIN runs = 1 .. Len(runs) /\ Len(runs) \in Nat
      /\ schedule \in [Schedules -> ScheduleRow] /\ pass \in [Passes -> PassRow(Len(runs))]
  BY DEF RunInv, TypeOK, RunRow, PassRow
<1>3. \A i \in DOMAIN runs : runs[i].schedule \in Schedules /\ runs[i].slot \in Nat
  <2>1. \A i \in DOMAIN runs : runs[i] \in RunRow
    BY <1>2
  <2> QED  BY <2>1 DEF RunRow
<1>4. CASE \A p \in Passes : ~ CreateRun(p)
  <2>1. /\ DOMAIN runs' = DOMAIN runs
        /\ \A i \in DOMAIN runs :
             /\ runs'[i].schedule = runs[i].schedule /\ runs'[i].slot = runs[i].slot
             /\ runs[i].schedule \notin rescheduled' =>
                  /\ runs[i].schedule \notin rescheduled
                  /\ schedule'[runs[i].schedule].next = schedule[runs[i].schedule].next
    BY <1>4, SchedulesStand
  <2> QED  BY <1>1, <1>3, <2>1 DEF RunsInOrder
<1>5. ASSUME NEW p \in Passes, CreateRun(p)
      PROVE  RunsInOrder'
  <2>1. PICK s \in Schedules : s = pass[p].cur
    BY <1>5 DEF CreateRun, RunInv
  <2>2. /\ pass[p].slot = schedule[s].next /\ pass[p].slot <= pass[p].now
        /\ pass[p].now <= now /\ UNCHANGED <<now, rescheduled>>
    BY <1>5, <2>1 DEF CreateRun, SlotInv, LocksAreFresh
  <2>3. /\ schedule[s].next \in Nat /\ schedule[s].period \in Nat \ {0}
        /\ schedule[s] \in ScheduleRow /\ pass[p].now \in Nat
    <3>1. schedule[s] \in ScheduleRow /\ pass[p] \in PassRow(Len(runs))
      BY <1>2
    <3>2. pass[p].now \in Nat
      BY <3>1, ScheduleConstants DEF PassRow
    <3> QED  BY <3>1, <3>2, ScheduleConstants DEF ScheduleRow
  <2>4. /\ schedule'[s].next = schedule[s].next + schedule[s].period
        /\ \A t \in Schedules \ {s} : schedule'[t] = schedule[t]
    <3>1. schedule' = [schedule EXCEPT ![s].next = schedule[s].next + schedule[s].period]
      BY <1>5, <2>1, <2>2 DEF CreateRun, AdvanceNextRun
    <3> QED  BY <1>2, <2>3, <3>1 DEF ScheduleRow
  <2>5. PICK run : run.schedule = s /\ run.slot = schedule[s].next /\ runs' = Append(runs, run)
    BY <1>5, <2>1, <2>2 DEF CreateRun
  <2>6. /\ DOMAIN runs' = 1 .. Len(runs) + 1
        /\ runs'[Len(runs) + 1] = run /\ \A i \in DOMAIN runs : runs'[i] = runs[i]
    BY <1>2, <2>5
  <2>7. \A i \in DOMAIN runs : runs[i].schedule = s /\ s \notin rescheduled =>
          runs[i].slot < schedule[s].next
    BY DEF RunsInOrder
  <2> SUFFICES ASSUME NEW i \in 1 .. Len(runs) + 1
               PROVE  /\ runs'[i].slot <= now
                      /\ runs'[i].schedule \notin rescheduled =>
                           /\ runs'[i].slot < schedule'[runs'[i].schedule].next
                           /\ \A j \in 1 .. Len(runs) + 1 :
                                i < j /\ runs'[j].schedule = runs'[i].schedule
                                => runs'[i].slot < runs'[j].slot
    BY <2>2, <2>6 DEF RunsInOrder
  <2>8. CASE i = Len(runs) + 1
    BY <1>1, <1>2, <2>2, <2>3, <2>4, <2>5, <2>6, <2>8
  <2>9. CASE i \in DOMAIN runs
    <3>1. runs'[i] = runs[i] /\ runs[i].schedule \in Schedules /\ runs[i].slot \in Nat
      BY <1>3, <2>6, <2>9
    <3>2. runs[i].slot <= now
      BY <2>9 DEF RunsInOrder
    <3>3. runs[i].schedule \notin rescheduled =>
            runs[i].slot < schedule'[runs[i].schedule].next
      <4>1. CASE runs[i].schedule = s
        BY <2>3, <2>4, <2>7, <2>9, <3>1, <4>1
      <4>2. CASE runs[i].schedule # s
        BY <2>4, <2>9, <3>1, <4>2 DEF RunsInOrder
      <4> QED  BY <4>1, <4>2
    <3>4. ASSUME NEW j \in 1 .. Len(runs) + 1, i < j, runs'[j].schedule = runs'[i].schedule,
                 runs[i].schedule \notin rescheduled
          PROVE  runs'[i].slot < runs'[j].slot
      <4>1. CASE j = Len(runs) + 1
        BY <2>5, <2>6, <2>7, <2>9, <3>1, <3>4, <4>1
      <4>2. CASE j \in DOMAIN runs
        BY <2>6, <2>9, <3>1, <3>4, <4>2 DEF RunsInOrder
      <4> QED  BY <1>2, <4>1, <4>2
    <3> QED  BY <3>1, <3>2, <3>3, <3>4
  <2> QED  BY <1>2, <2>8, <2>9
<1> QED
  BY <1>4, <1>5

(* However many passes overlap, and at whatever moments they read the list *)
(* and the clock, no run is created before its slot has come, and no slot  *)
(* of a schedule is run twice, now or later, unless a PATCH moves the      *)
(* schedule (process_due_report_schedules and advance_next_run).           *)
THEOREM SlotsRunOnce == Spec => []RunsInOrder
<1>1. Init => RunsInOrder
  BY DEF Init, RunsInOrder
<1> QED
  BY <1>1, OrderStep, SlotsInvariant, PTL DEF Spec

-----------------------------------------------------------------------------
(* The refinement of the ledger.                                           *)

LedgerActive == {s \in Schedules : Active(schedule[s])}
LedgerNext == [s \in Schedules |-> schedule[s].next]
LedgerRan == [i \in DOMAIN runs |-> [schedule |-> runs[i].schedule, slot |-> runs[i].slot]]

LEMMA LedgerStep == RunInv /\ SlotInv /\ [Next]_vars => [Ledger!Next]_(Ledger!ledgerVars)
<1> SUFFICES ASSUME RunInv, SlotInv, [Next]_vars
             PROVE  [Ledger!Next]_(Ledger!ledgerVars)
  OBVIOUS
<1>a. /\ schedule \in [Schedules -> ScheduleRow] /\ runs \in Seq(RunRow) /\ now \in 0 .. MaxTime
  BY DEF RunInv, TypeOK, RunRow
<1>b. \A i \in DOMAIN runs : runs[i].schedule \in Schedules
  <2>1. \A i \in DOMAIN runs : runs[i] \in RunRow
    BY <1>a
  <2> QED  BY <2>1 DEF RunRow
<1>c. ASSUME UNCHANGED <<now, LedgerActive, LedgerNext, LedgerRan>>
      PROVE  [Ledger!Next]_(Ledger!ledgerVars)
  BY <1>c DEF LedgerActive, LedgerNext, LedgerRan, Ledger!ledgerVars
<1>d. ASSUME UNCHANGED <<schedule, runs, now>>
      PROVE  [Ledger!Next]_(Ledger!ledgerVars)
  <2>1. UNCHANGED <<now, LedgerActive, LedgerNext, LedgerRan>>
    BY <1>d DEF LedgerActive, LedgerNext, LedgerRan
  <2> QED  BY <1>c, <2>1
(* A client's step.                                                        *)
<1>e. ASSUME NEW s \in Schedules, NEW row, schedule' = [schedule EXCEPT ![s] = row],
             UNCHANGED <<runs, now>>
      PROVE  [Ledger!Next]_(Ledger!ledgerVars)
  <2>1. \A t \in Schedules \ {s} : schedule'[t] = schedule[t]
    BY <1>a, <1>e
  <2>2. \A t \in Schedules \ {s} : (t \in LedgerActive') = (t \in LedgerActive)
    BY <2>1 DEF LedgerActive
  <2>3. LedgerNext' = [LedgerNext EXCEPT ![s] = LedgerNext'[s]]
    BY <2>1 DEF LedgerNext
  <2>4. LedgerRan' = LedgerRan /\ now' = now
    BY <1>e DEF LedgerRan
  <2>5. Ledger!Set(s)
    BY <2>2, <2>3, <2>4 DEF Ledger!Set, LedgerActive, LedgerNext, LedgerRan
  <2> QED  BY <2>5 DEF Ledger!Next
<1>1. ASSUME NEW p \in Passes, CreateRun(p) PROVE [Ledger!Next]_(Ledger!ledgerVars)
  <2>1. PICK s \in Schedules : s = pass[p].cur
    BY <1>1 DEF CreateRun, RunInv
  <2>2. /\ pass[p].pc = "locked" /\ pass[p].slot = schedule[s].next
        /\ Active(schedule[s]) /\ pass[p].slot <= pass[p].now /\ pass[p].now <= now
    BY <1>1, <2>1 DEF CreateRun, SlotInv, LocksAreFresh
  <2>3. schedule[s] \in ScheduleRow
    BY <1>a
  <2>4. pass[p].now \in Nat /\ now \in Nat /\ schedule[s].next \in Nat
    <3>1. pass[p] \in PassRow(Len(runs))
      BY DEF RunInv, TypeOK, PassRow
    <3>2. pass[p].now \in 0 .. MaxTime /\ schedule[s].next \in Nat
      BY <2>3, <3>1 DEF PassRow, ScheduleRow
    <3> QED  BY <3>2, <1>a, ScheduleConstants
  <2>5. s \in LedgerActive /\ LedgerNext[s] <= now
    BY <2>2, <2>4 DEF LedgerActive, LedgerNext
  <2>6. PICK row : /\ row.next = schedule[s].next + schedule[s].period
                   /\ row.life = schedule[s].life /\ row.enabled = schedule[s].enabled
                   /\ schedule' = [schedule EXCEPT ![s] = row]
    <3> DEFINE row == [schedule[s] EXCEPT !.next = schedule[s].next + schedule[s].period]
    <3>1. /\ row.next = schedule[s].next + schedule[s].period
          /\ row.life = schedule[s].life /\ row.enabled = schedule[s].enabled
      BY <2>3 DEF ScheduleRow
    <3>2. schedule' = [schedule EXCEPT ![s] = row]
      BY <1>1, <1>a, <2>1, <2>2 DEF CreateRun, AdvanceNextRun
    <3> HIDE DEF row
    <3> QED  BY <3>1, <3>2
  <2>7. schedule'[s] = row /\ \A t \in Schedules \ {s} : schedule'[t] = schedule[t]
    BY <1>a, <2>6
  <2>8. LedgerActive' = LedgerActive
    BY <2>6, <2>7 DEF LedgerActive, Active
  <2>9. PICK d \in Periods : d = schedule[s].period
    BY <2>3 DEF ScheduleRow
  <2>10. LedgerNext' = [LedgerNext EXCEPT ![s] = LedgerNext[s] + d]
    <3>1. schedule'[s].next = schedule[s].next + d
      BY <2>6, <2>7, <2>9
    <3>2. LedgerNext[s] = schedule[s].next /\ LedgerNext'[s] = schedule'[s].next
      BY DEF LedgerNext
    <3>3. \A t \in Schedules \ {s} : LedgerNext'[t] = LedgerNext[t]
      BY <2>7 DEF LedgerNext
    <3>4. LedgerNext' = [t \in Schedules |-> LedgerNext'[t]] /\ DOMAIN LedgerNext = Schedules
      BY DEF LedgerNext
    <3>5. LedgerNext'[s] = LedgerNext[s] + d
      BY <3>1, <3>2
    <3> HIDE DEF LedgerNext
    <3> QED  BY <3>3, <3>4, <3>5
  <2>11. LedgerRan' = Append(LedgerRan, [schedule |-> s, slot |-> LedgerNext[s]])
    <3> DEFINE run == [schedule |-> s, slot |-> pass[p].slot, status |-> "queued",
                       tries |-> 0, file |-> FALSE, listed |-> TRUE]
               short == [schedule |-> s, slot |-> LedgerNext[s]]
    <3>1. runs' = Append(runs, run)
      BY <1>1, <2>1 DEF CreateRun, AdvanceNextRun
    <3>2. run.schedule = s /\ run.slot = LedgerNext[s]
      BY <2>2 DEF LedgerNext
    <3>3. short = [schedule |-> run.schedule, slot |-> run.slot]
      BY <3>2
    <3> HIDE DEF run, short
    <3>4. /\ DOMAIN runs = 1 .. Len(runs) /\ Len(runs) \in Nat
          /\ DOMAIN runs' = 1 .. Len(runs) + 1 /\ runs'[Len(runs) + 1] = run
          /\ \A i \in DOMAIN runs : runs'[i] = runs[i]
      BY <1>a, <3>1
    <3>5. LedgerRan' = [i \in 1 .. Len(runs) + 1 |->
                          IF i = Len(runs) + 1 THEN short ELSE LedgerRan[i]]
      BY <3>3, <3>4 DEF LedgerRan
    <3>6. /\ LedgerRan \in Seq({LedgerRan[i] : i \in DOMAIN runs})
          /\ Len(LedgerRan) = Len(runs) /\ DOMAIN LedgerRan = 1 .. Len(runs)
      BY <3>4 DEF LedgerRan
    <3> HIDE DEF LedgerRan
    <3> QED  BY <3>4, <3>5, <3>6 DEF short
  <2>12. now' = now
    BY <1>1 DEF CreateRun
  <2>13. Ledger!CreateRun(s)
    BY <2>5, <2>8, <2>10, <2>11, <2>12
       DEF Ledger!CreateRun, LedgerActive, LedgerNext, LedgerRan
  <2> QED  BY <2>13 DEF Ledger!Next
<1>2. ASSUME NEW p \in Passes, EndPass(p) \/ (PassStep(p) /\ ~ CreateRun(p))
      PROVE  [Ledger!Next]_(Ledger!ledgerVars)
  <2>1. UNCHANGED <<schedule, runs, now>>
    BY <1>2 DEF EndPass, PassStep, StartPass, FinishPass, EnqueueRun, LockDue, SkipNotDue,
                AbortOnDeleted
  <2> QED  BY <1>d, <2>1
<1>3. ASSUME NEW s \in Schedules, CreateSchedule(s) PROVE [Ledger!Next]_(Ledger!ledgerVars)
  BY <1>3, <1>e DEF CreateSchedule
<1>4. ASSUME NEW u \in Users, NEW s \in Schedules, PatchSchedule(u, s) \/ DeleteSchedule(u, s)
      PROVE  [Ledger!Next]_(Ledger!ledgerVars)
  <2>1. UNCHANGED <<schedule, runs, now>>
    BY <1>4 DEF PatchSchedule, DeleteSchedule, FetchSchedule
  <2> QED  BY <1>d, <2>1
<1>5. ASSUME NEW u \in Users, SaveSchedule(u) PROVE [Ledger!Next]_(Ledger!ledgerVars)
  <2>1. PICK s \in Schedules : s = req[u].schedule
    BY <1>5 DEF SaveSchedule, RunInv, Holding
  <2>2. PICK row : schedule' = [schedule EXCEPT ![s] = row]
    <3>1. CASE schedule' = [schedule EXCEPT ![s] = req[u].row]
      BY <3>1
    <3>2. CASE schedule' = [schedule EXCEPT ![s].life = "deleted"]
      BY <3>2
    <3> QED  BY <1>5, <2>1, <3>1, <3>2 DEF SaveSchedule
  <2>3. UNCHANGED <<runs, now>>
    BY <1>5 DEF SaveSchedule
  <2> QED  BY <1>e, <2>2, <2>3
<1>6. ASSUME NEW i \in DOMAIN runs, RunStep(i) \/ TaskFails(i)
      PROVE  [Ledger!Next]_(Ledger!ledgerVars)
  <2>1. KeepsSlots
    BY <1>6, TasksKeepSlots DEF RunInv
  <2>2. UNCHANGED <<now, LedgerActive, LedgerNext>>
    BY <2>1 DEF KeepsSlots, LedgerActive, LedgerNext
  <2>3. LedgerRan' = LedgerRan
    BY <2>1 DEF KeepsSlots, LedgerRan
  <2> QED  BY <1>c, <2>2, <2>3
<1>7. CASE Tick
  <2>1. now' > now /\ UNCHANGED <<schedule, runs>>
    BY <1>7, <1>a, ScheduleConstants DEF Tick
  <2>2. Ledger!TimePasses
    BY <2>1 DEF Ledger!TimePasses
  <2> QED  BY <2>2 DEF Ledger!Next
<1>8. CASE UNCHANGED vars
  BY <1>8, <1>d DEF vars
<1> QED
  BY <1>1, <1>2, <1>3, <1>4, <1>5, <1>6, <1>7, <1>8 DEF Next, PassStep

(* Overlapping passes that decide on what they read earlier create only    *)
(* the runs the ledger allows.                                             *)
THEOREM PassesFollowTheLedger == Spec => ImplementsLedger
<1>1. Init => Ledger!Init
  <2> SUFFICES ASSUME Init
               PROVE  Ledger!Init
    OBVIOUS
  <2>1. \A s \in Schedules : schedule[s].next = 0 /\ schedule[s].life = "absent"
    BY DEF Init
  <2>2. LedgerActive = {} /\ LedgerNext \in [Schedules -> Nat]
    BY <2>1 DEF LedgerActive, LedgerNext, Active
  <2>3. LedgerRan = <<>> /\ now = 0
    BY DEF Init, LedgerRan
  <2> QED  BY <2>2, <2>3 DEF Ledger!Init, LedgerActive, LedgerNext, LedgerRan
<1> QED
  BY <1>1, SlotsInvariant, LedgerStep, PTL DEF Spec, ImplementsLedger, Ledger!Spec

-----------------------------------------------------------------------------
(* The way a run has left: attempts, and the stage of this one.            *)

Stage(state) ==
  CASE state = "none" -> 5 [] state = "failing" -> 5 [] state = "queued" -> 4
    [] state = "taken" -> 3 [] state = "written" -> 2 [] state = "mailing" -> 1
    [] OTHER -> 0

AttemptsLeft(i) == MaxRetries + 1 - runs[i].tries

(* In the lexicographic order of two natural numbers a step of its task    *)
(* goes down, and no other step has to do with it.                         *)
RunNearer(i) ==
  /\ AttemptsLeft(i)' \in Nat /\ Stage(gen[i])' \in 0 .. 5
  /\ \/ AttemptsLeft(i)' < AttemptsLeft(i)
     \/ AttemptsLeft(i)' = AttemptsLeft(i) /\ Stage(gen[i])' < Stage(gen[i])

RunsComeNearer ==
  \A i \in DOMAIN runs :
    gen'[i] # gen[i] \/ runs'[i] # runs[i] => RunNearer(i)

LEMMA TaskNearer ==
  ASSUME RunInv, RunInv', NEW i \in DOMAIN runs, RunStep(i) \/ TaskFails(i)
  PROVE  RunNearer(i) /\ \A k \in DOMAIN runs \ {i} : gen'[k] = gen[k] /\ runs'[k] = runs[k]
<1>1. /\ runs \in Seq(RunRow) /\ runs' \in Seq(RunRow) /\ DOMAIN gen = DOMAIN runs
      /\ DOMAIN runs' = DOMAIN runs /\ MaxRetries \in Nat
  <2>1. runs \in Seq(RunRow) /\ runs' \in Seq(RunRow) /\ DOMAIN gen = DOMAIN runs
    BY DEF RunInv, TypeOK, RunRow
  <2>2. DOMAIN runs' = DOMAIN runs
    BY <2>1 DEF RunStep, TakeRun, WriteReport, CompleteRun, MailReport, Retry, TaskFails,
                StartFails, RenderFails, LoseTask, Fail
  <2> QED  BY <2>1, <2>2, ScheduleConstants
<1>2. runs[i] \in RunRow /\ runs'[i] \in RunRow
  BY <1>1
<1>3. runs[i].tries \in 0 .. MaxRetries + 1 /\ runs'[i].tries \in 0 .. MaxRetries + 1
  BY <1>2 DEF RunRow
<1>4. \A k \in DOMAIN runs \ {i} : gen'[k] = gen[k] /\ runs'[k] = runs[k]
  BY <1>1 DEF RunStep, TakeRun, WriteReport, CompleteRun, MailReport, Retry, TaskFails,
              StartFails, RenderFails, LoseTask, Fail
<1>5. AttemptsLeft(i)' \in Nat /\ Stage(gen[i])' \in 0 .. 5
  BY <1>1, <1>3 DEF AttemptsLeft, Stage
<1>6. CASE Fail(i) \/ StartFails(i)
  <2>1. runs'[i].tries = runs[i].tries + 1
    <3>1. CASE Fail(i)
      BY <1>1, <1>2, <3>1 DEF Fail, RunRow
    <3>2. CASE StartFails(i)
      BY <1>1, <1>2, <3>2 DEF StartFails, RunRow
    <3> QED  BY <1>6, <3>1, <3>2
  <2> QED  BY <1>1, <1>3, <1>4, <1>5, <2>1 DEF RunNearer, AttemptsLeft
<1>7. CASE ~ Fail(i) /\ ~ StartFails(i)
  <2>1. runs'[i].tries = runs[i].tries
    <3>1. CASE TakeRun(i)
      <4>1. PICK listed : runs' = [runs EXCEPT ![i].status = "processing", ![i].listed = listed]
        BY <3>1 DEF TakeRun
      <4> QED  BY <1>1, <1>2, <4>1 DEF RunRow
    <3>2. CASE WriteReport(i) \/ CompleteRun(i)
      BY <1>1, <1>2, <3>2 DEF WriteReport, CompleteRun, RunRow
    <3>3. CASE MailReport(i) \/ Retry(i) \/ TaskFails(i)
      <4>1. runs' = runs
        BY <1>7, <3>3 DEF MailReport, Retry, TaskFails, RenderFails, LoseTask
      <4> QED  BY <4>1
    <3> QED  BY <3>1, <3>2, <3>3 DEF RunStep
  <2>2. \/ gen[i] = "queued" /\ gen'[i] = "taken"
        \/ gen[i] = "taken" /\ gen'[i] = "written"
        \/ gen[i] = "written" /\ gen'[i] = "mailing"
        \/ gen[i] = "mailing" /\ gen'[i] = "done"
        \/ gen[i] = "failing" /\ gen'[i] \in {"queued", "done"}
        \/ gen[i] \in {"taken", "written", "mailing", "failing"} /\ gen'[i] = "lost"
    <3>1. CASE TakeRun(i) \/ WriteReport(i) \/ CompleteRun(i)
      BY <1>1, <3>1 DEF TakeRun, WriteReport, CompleteRun
    <3>2. CASE MailReport(i) \/ Retry(i)
      BY <1>1, <1>7, <3>2 DEF MailReport, Retry
    <3>3. CASE TaskFails(i)
      BY <1>1, <1>7, <3>3 DEF TaskFails, RenderFails, LoseTask, Running
    <3> QED  BY <3>1, <3>2, <3>3 DEF RunStep
  <2>3. Stage(gen[i])' < Stage(gen[i])
    BY <2>2 DEF Stage
  <2> QED  BY <1>4, <1>5, <2>1, <2>3 DEF RunNearer, AttemptsLeft
<1> QED  BY <1>6, <1>7

LEMMA QueueNearer ==
  ASSUME RunInv, RunInv', NEW p \in Passes, CreateRun(p) \/ EnqueueRun(p)
  PROVE  RunsComeNearer
<1>1. /\ runs \in Seq(RunRow) /\ gen \in Seq(TaskStates) /\ DOMAIN gen = DOMAIN runs
      /\ DOMAIN runs = 1 .. Len(runs) /\ Len(runs) \in Nat /\ Len(gen) = Len(runs)
  BY DEF RunInv, TypeOK, RunRow
<1>2. CASE CreateRun(p)
  <2>1. \A i \in DOMAIN runs : gen'[i] = gen[i] /\ runs'[i] = runs[i]
    BY <1>1, <1>2 DEF CreateRun
  <2> QED  BY <2>1 DEF RunsComeNearer
<1>3. CASE EnqueueRun(p)
  <2>1. /\ pass[p].run \in DOMAIN runs /\ gen[pass[p].run] = "none"
        /\ gen' = [gen EXCEPT ![pass[p].run] = "queued"] /\ runs' = runs
    BY <1>3 DEF EnqueueRun, RunInv, EnqueuesOwn
  <2>2. \A i \in DOMAIN runs : gen'[i] # gen[i] => gen[i] = "none" /\ gen'[i] = "queued"
    BY <1>1, <2>1
  <2>3. \A i \in DOMAIN runs : AttemptsLeft(i)' = AttemptsLeft(i) /\ AttemptsLeft(i) \in Nat
    <3>1. \A i \in DOMAIN runs : runs[i] \in RunRow
      BY <1>1
    <3>2. \A i \in DOMAIN runs : runs[i].tries \in 0 .. MaxRetries + 1
      BY <3>1 DEF RunRow
    <3> QED  BY <2>1, <3>2, ScheduleConstants DEF AttemptsLeft
  <2> QED  BY <2>1, <2>2, <2>3 DEF RunsComeNearer, RunNearer, Stage
<1> QED  BY <1>2, <1>3

(* Every step of a report's task brings it nearer its end, and nothing     *)
(* else touches it: a run does not go on for ever, whatever fails, whoever *)
(* changes its schedule meanwhile (reports/tasks.py:61-94).  With workers  *)
(* that keep taking tasks, RunsEventuallySettle follows.                   *)
THEOREM RunsTerminate == Spec => [][RunsComeNearer]_vars
<1>1. RunInv /\ RunInv' /\ [Next]_vars => [RunsComeNearer]_vars
  <2> SUFFICES ASSUME RunInv, RunInv', Next PROVE RunsComeNearer
    OBVIOUS
  <2>1. ASSUME UNCHANGED <<runs, gen>> PROVE RunsComeNearer
    BY <2>1 DEF RunsComeNearer
  <2>2. ASSUME NEW p \in Passes, PassStep(p) \/ EndPass(p) PROVE RunsComeNearer
    <3>1. CASE CreateRun(p) \/ EnqueueRun(p)
      BY <3>1, QueueNearer
    <3>2. CASE ~ (CreateRun(p) \/ EnqueueRun(p))
      BY <2>1, <2>2, <3>2 DEF PassStep, EndPass, StartPass, FinishPass, LockDue, SkipNotDue,
                              AbortOnDeleted
    <3> QED  BY <3>1, <3>2
  <2>3. ASSUME NEW s \in Schedules, CreateSchedule(s) PROVE RunsComeNearer
    BY <2>1, <2>3 DEF CreateSchedule
  <2>4. ASSUME NEW u \in Users,
               \/ \E s \in Schedules : PatchSchedule(u, s) \/ DeleteSchedule(u, s)
               \/ SaveSchedule(u)
        PROVE  RunsComeNearer
    BY <2>1, <2>4 DEF PatchSchedule, DeleteSchedule, FetchSchedule, SaveSchedule
  <2>5. ASSUME NEW i \in DOMAIN runs, RunStep(i) \/ TaskFails(i)
        PROVE  RunsComeNearer
    BY <2>5, TaskNearer DEF RunsComeNearer
  <2>6. CASE Tick
    BY <2>1, <2>6 DEF Tick
  <2> QED  BY <2>2, <2>3, <2>4, <2>5, <2>6 DEF Next
<1> QED  BY <1>1, RunsInvariant, PTL DEF Spec
=============================================================================
