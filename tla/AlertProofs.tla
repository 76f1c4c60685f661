---------------------------- MODULE AlertProofs ----------------------------
(***************************************************************************)
(* Theorems about AlertLifecycle, for any number of rules, evaluation      *)
(* tasks and request handlers, any deadlines and any bounds.               *)
(***************************************************************************)
EXTENDS AlertProperties, SequenceTheorems, FiniteSetTheorems, TLAPS

-----------------------------------------------------------------------------
(* The operators of the model.                                             *)

(* A sequence whose elements are changed in place stays a sequence.        *)
LEMMA InPlace ==
  ASSUME NEW S, NEW s \in Seq(S), NEW t,
         t = [h \in DOMAIN s |-> t[h]],
         \A h \in DOMAIN s : t[h] \in S
  PROVE  /\ t \in Seq(S) /\ Len(t) = Len(s) /\ DOMAIN t = DOMAIN s
<1>1. Len(s) \in Nat /\ DOMAIN s = 1 .. Len(s)
  OBVIOUS
<1>2. t \in [1 .. Len(s) -> S]
  BY <1>1
<1>3. t \in Seq(S)
  BY <1>1, <1>2
<1> QED
  BY <1>1, <1>2, <1>3

LEMMA SavedType ==
  ASSUME NEW row \in RuleRow, NEW copy \in RuleRow, NEW fields
  PROVE  Saved(row, copy, fields) \in RuleRow
BY DEF Saved, RuleRow

LEMMA IdleTypes ==
  /\ AbsentRow \in RuleRow
  /\ IdleTask \in Task /\ IdleRequest \in Request
  /\ IdleTask.pc = "idle" /\ IdleTask.hist = {}
  /\ IdleRequest.pc = "idle" /\ IdleRequest.op = "none" /\ IdleRequest.close = {}
<1>1. AbsentRow \in RuleRow
  BY DEF AbsentRow, RuleRow, Statuses, MuteTimes
<1>2. IdleTask \in Task
  BY <1>1 DEF IdleTask, Task, TaskPCs
<1>3. IdleRequest \in Request
  BY <1>1 DEF IdleRequest, Request
<1> QED
  BY <1>1, <1>2, <1>3 DEF IdleTask, IdleRequest

-----------------------------------------------------------------------------
(* Type correctness.                                                       *)

LEMMA InitType == Init => TypeOK
BY ConstantsAssumption, IdleTypes
DEF Init, TypeOK, TaskRefersToRows, RequestRefersToRows

(* A step of task w, or of handler u, that leaves its own state correct    *)
(* and everybody else's alone.                                             *)
TaskOnly(w) ==
  /\ ev' = [ev EXCEPT ![w] = ev'[w]] /\ ev'[w] \in Task
  /\ TaskRefersToRows(w)'
  /\ UNCHANGED req

RequestOnly(u) ==
  /\ req' = [req EXCEPT ![u] = req'[u]] /\ req'[u] \in Request
  /\ RequestRefersToRows(u)'
  /\ UNCHANGED ev

LEMMA TaskOnlyType ==
  ASSUME TypeOK, NEW w \in Workers, TaskOnly(w),
         DOMAIN history \subseteq DOMAIN history'
  PROVE  /\ ev' \in [Workers -> Task] /\ req' \in [Users -> Request]
         /\ \A v \in Workers : TaskRefersToRows(v)'
         /\ \A u \in Users : RequestRefersToRows(u)'
BY DEF TypeOK, TaskRefersToRows, RequestRefersToRows, TaskOnly

LEMMA RequestOnlyType ==
  ASSUME TypeOK, NEW u \in Users, RequestOnly(u),
         DOMAIN history \subseteq DOMAIN history'
  PROVE  /\ ev' \in [Workers -> Task] /\ req' \in [Users -> Request]
         /\ \A w \in Workers : TaskRefersToRows(w)'
         /\ \A v \in Users : RequestRefersToRows(v)'
BY DEF TypeOK, TaskRefersToRows, RequestRefersToRows, RequestOnly

LEMMA TaskSteps ==
  ASSUME TypeOK, NEW w \in Workers,
         EvaluatorStep(w) \/ EvaluationFails(w) \/ Crash(w)
  PROVE  TaskOnly(w)
<1>0. /\ ev \in [Workers -> Task] /\ history \in Seq(Incident)
      /\ rule \in [Rules -> RuleRow] /\ TaskRefersToRows(w)
  BY DEF TypeOK
<1> USE <1>0 DEF TaskOnly, TaskRefersToRows, Task
<1>a. ASSUME ev' = NextRule(w), UNCHANGED <<history, req>>
      PROVE  TaskOnly(w)
  <2> DEFINE task == [ev[w] EXCEPT !.pc = "loop", !.cur = NoRule, !.hist = {}]
  <2>1. task \in Task /\ task.hist = {} /\ task.pc = "loop"
    BY DEF TaskPCs
  <2>2. ev' = [ev EXCEPT ![w] = task]
    BY <1>a DEF NextRule
  <2> HIDE DEF task
  <2> QED
    BY <1>a, <2>1, <2>2
<1>1. CASE StartEvaluation(w)
  <2> DEFINE due == {r \in Rules : rule[r].life = "alive" /\ rule[r].enabled
                                  /\ rule[r].status # "Resolved"}
             task == [IdleTask EXCEPT !.pc = "loop", !.copy = rule, !.batch = due]
  <2>1. task \in Task /\ task.hist = {} /\ task.pc = "loop"
    BY DEF IdleTask, TaskPCs
  <2>2. /\ ev' = [ev EXCEPT ![w] = task]
        /\ UNCHANGED <<rule, history, byHand, queued, cond, now, budget, req>>
    BY <1>1 DEF StartEvaluation
  <2> HIDE DEF task
  <2> QED
    BY <2>1, <2>2
<1>2. CASE FinishEvaluation(w) \/ Crash(w)
  BY <1>2, IdleTypes DEF FinishEvaluation, Crash
<1>3. ASSUME NEW r \in Rules, SkipMuted(w, r) \/ TakeUnmuted(w, r)
      PROVE  TaskOnly(w)
  <2>1. CASE SkipMuted(w, r)
    BY <2>1 DEF SkipMuted
  <2>2. CASE TakeUnmuted(w, r)
    BY <2>2 DEF TakeUnmuted, TaskPCs
  <2> QED
    BY <1>3, <2>1, <2>2
<1>4. ASSUME NEW r \in Rules, ExpireMute(w, r)
      PROVE  TaskOnly(w)
  <2> DEFINE row  == [ev[w].copy[r] EXCEPT !.status = "Active", !.mutedUntil = NoDeadline]
             copy == [ev[w].copy EXCEPT ![r] = row]
  <2>0. ev[w].copy \in [Rules -> RuleRow] /\ ev[w].copy[r] \in RuleRow
    OBVIOUS
  <2>1. row \in RuleRow
    BY ONLY <2>0 DEF RuleRow, Statuses, MuteTimes
  <2>2. copy \in [Rules -> RuleRow]
    BY <2>0, <2>1
  <2>3. ev' = [ev EXCEPT ![w] = [ev[w] EXCEPT !.pc = "measure", !.cur = r,
                                   !.batch = @ \ {r}, !.copy = copy]]
    BY <1>4 DEF ExpireMute
  <2> HIDE DEF copy
  <2> QED
    BY <1>4, <2>2, <2>3, SMTT(30) DEF ExpireMute, TaskPCs
<1>5. CASE Measure(w)
  <2>1. /\ ev[w].pc = "measure" /\ UNCHANGED <<history, req>>
        /\ \/ \E pc \in {"trigger", "resolve"} : ev' = [ev EXCEPT ![w].pc = pc]
           \/ ev' = NextRule(w)
    BY <1>5 DEF Measure
  <2>2. ASSUME NEW pc \in {"trigger", "resolve"}, ev' = [ev EXCEPT ![w].pc = pc]
        PROVE  TaskOnly(w)
    BY <2>1, <2>2 DEF TaskPCs
  <2>3. CASE ev' = NextRule(w)
    BY <1>a, <2>1, <2>3
  <2> QED
    BY <2>1, <2>2, <2>3
<1>6. CASE LookupOpen(w)
  <2>1. Open(ev[w].cur) \subseteq DOMAIN history /\ DOMAIN history \subseteq Nat
    BY DEF Open
  <2> QED
    BY <1>6, <2>1 DEF LookupOpen, TaskPCs
<1>7. CASE LockOpen(w)
  BY <1>7 DEF LockOpen, Matching, TaskPCs
<1>8. CASE TriggerNew(w)
  <2>1. Len(history) + 1 \in DOMAIN history' /\ Len(history) + 1 \in Nat
    BY <1>8 DEF TriggerNew, Incident
  <2> QED
    BY <1>8, <2>1 DEF TriggerNew, TaskPCs
<1>9. CASE EvaluationFails(w) \/ TriggerExisting(w) \/ Enqueue(w) \/ ResolveNone(w)
  <2>1. ev' = NextRule(w) /\ UNCHANGED <<history, req>>
    BY <1>9 DEF EvaluationFails, TriggerExisting, Enqueue, ResolveNone
  <2> QED
    BY <1>a, <2>1
<1>10. CASE ResolveOpen(w)
  BY <1>10, ZenonT(40) DEF ResolveOpen, NextRule, TaskPCs
<1> QED
  BY <1>1, <1>2, <1>3, <1>4, <1>5, <1>6, <1>7, <1>8, <1>9, <1>10 DEF EvaluatorStep

LEMMA FetchStep ==
  ASSUME TypeOK, NEW u \in Users, NEW r \in Rules, NEW op \in Operations,
         NEW row \in RuleRow, Fetch(u, r, op, row)
  PROVE  RequestOnly(u) /\ budget' \in 0 .. MaxInputs
BY ConstantsAssumption
DEF Fetch, Spend, TypeOK, RequestOnly, RequestRefersToRows, Request

LEMMA HandlerSteps ==
  ASSUME TypeOK, NEW u \in Users, HandlerStep(u)
  PROVE  RequestOnly(u) /\ budget' \in 0 .. MaxInputs
<1> USE DEF TypeOK, RequestOnly, RequestRefersToRows, Request
<1>1. ASSUME NEW r \in Rules,
             \/ PatchRule(u, r) \/ MuteRule(u, r) \/ ResolveRule(u, r)
             \/ ReactivateRule(u, r) \/ DeleteRule(u, r)
      PROVE  RequestOnly(u) /\ budget' \in 0 .. MaxInputs
  <2> rule[r] \in RuleRow
    OBVIOUS
  <2>1. PICK op \in Operations, row \in RuleRow : Fetch(u, r, op, row)
    <3>1. CASE PatchRule(u, r)
      BY <3>1, ConstantsAssumption DEF PatchRule, RuleRow, Operations
    <3>2. CASE MuteRule(u, r)
      BY <3>2 DEF MuteRule, RuleRow, Operations, Statuses
    <3>3. CASE ResolveRule(u, r)
      BY <3>3 DEF ResolveRule, RuleRow, Operations, Statuses
    <3>4. CASE ReactivateRule(u, r)
      BY <3>4 DEF ReactivateRule, RuleRow, Operations, Statuses, MuteTimes
    <3>5. CASE DeleteRule(u, r)
      BY <3>5 DEF DeleteRule, RuleRow, Operations
    <3> QED
      BY <1>1, <3>1, <3>2, <3>3, <3>4, <3>5
  <2> QED
    BY <2>1, FetchStep
<1>2. CASE SaveRule(u)
  BY <1>2, IdleTypes DEF SaveRule
<1>3. CASE ListOpen(u)
  <2>1. Open(req[u].rule) \subseteq DOMAIN history /\ DOMAIN history \subseteq Nat
    BY DEF Open
  <2> QED
    BY <1>3, <2>1 DEF ListOpen
<1>4. CASE FinishResolve(u) \/ Abandon(u)
  BY <1>4, IdleTypes, ConstantsAssumption DEF FinishResolve, Abandon, Spend
<1>5. ASSUME NEW h \in DOMAIN history, CloseHistory(u, h)
      PROVE  RequestOnly(u) /\ budget' \in 0 .. MaxInputs
  BY <1>5 DEF CloseHistory
<1> QED
  BY <1>1, <1>2, <1>3, <1>4, <1>5 DEF HandlerStep

(* Incidents are appended, never moved, and never reopened.                *)
HistoryGrows ==
  /\ history' \in Seq(Incident)
  /\ DOMAIN history \subseteq DOMAIN history'
  /\ \A h \in DOMAIN history :
       /\ history'[h].rule = history[h].rule
       /\ history'[h].by = history[h].by
       /\ history'[h].open => history[h].open

LEMMA HistoryOnlyGrows ==
  ASSUME TypeOK, [Next]_vars
  PROVE  /\ HistoryGrows
         /\ (\E w \in Workers : TriggerNew(w)) \/ DOMAIN history' = DOMAIN history
         /\ \A h \in DOMAIN history : history[h].open /\ ~ history'[h].open =>
              \/ \E w \in Workers : ResolveOpen(w) /\ h \in ev[w].hist
              \/ \E u \in Users : CloseHistory(u, h)
<1>0. history \in Seq(Incident) /\ \A h \in DOMAIN history : history[h] \in Incident
  BY DEF TypeOK
<1>1. ASSUME NEW w \in Workers, TriggerNew(w)
      PROVE  HistoryGrows /\ \A h \in DOMAIN history : history'[h] = history[h]
  <2>1. [rule |-> ev[w].cur, open |-> TRUE, by |-> w] \in Incident
    BY <1>1 DEF TypeOK, TriggerNew, TaskRefersToRows, Incident
  <2> QED
    BY <1>0, <1>1, <2>1 DEF TriggerNew, HistoryGrows
<1>2. ASSUME NEW w \in Workers, ResolveOpen(w)
      PROVE  /\ HistoryGrows /\ DOMAIN history' = DOMAIN history
             /\ \A h \in DOMAIN history \ ev[w].hist : (history[h].open => history'[h].open)
  <2>1. \A h \in DOMAIN history :
          history'[h] = IF h \in ev[w].hist THEN [history[h] EXCEPT !.open = FALSE]
                                            ELSE history[h]
    BY <1>2 DEF ResolveOpen
  <2>2. \A h \in DOMAIN history :
          /\ history'[h] \in Incident
          /\ history'[h].rule = history[h].rule
          /\ history'[h].by = history[h].by
          /\ history'[h].open => history[h].open
          /\ h \notin ev[w].hist => (history[h].open => history'[h].open)
    BY ONLY <1>0, <2>1 DEF Incident
  <2>3. history' = [h \in DOMAIN history |-> history'[h]]
    BY <1>2 DEF ResolveOpen
  <2> QED
    BY <1>0, <2>2, <2>3, InPlace DEF HistoryGrows
<1>3. ASSUME NEW u \in Users, NEW h \in DOMAIN history, CloseHistory(u, h)
      PROVE  /\ HistoryGrows /\ DOMAIN history' = DOMAIN history
             /\ \A g \in DOMAIN history \ {h} : history'[g] = history[g]
  <2> DEFINE closed == [history[h] EXCEPT !.open = FALSE]
  <2>1. /\ closed \in Incident /\ closed.rule = history[h].rule
        /\ closed.by = history[h].by /\ closed.open = FALSE
    BY <1>0 DEF Incident
  <2>2. history' = [history EXCEPT ![h] = closed]
    BY <1>3 DEF CloseHistory
  <2> HIDE DEF closed
  <2> QED
    BY <1>0, <2>1, <2>2, ExceptSeq, LenProperties DEF HistoryGrows
<1>4. CASE UNCHANGED history
  BY <1>0, <1>4 DEF HistoryGrows
<1>5. ASSUME NEW w \in Workers, EvaluatorStep(w) \/ EvaluationFails(w) \/ Crash(w)
      PROVE  TriggerNew(w) \/ ResolveOpen(w) \/ UNCHANGED history
  BY <1>5 DEF EvaluatorStep, StartEvaluation, FinishEvaluation, SkipMuted,
     ExpireMute, TakeUnmuted, Measure, LookupOpen, LockOpen, TriggerExisting,
     Enqueue, ResolveNone, EvaluationFails, Crash
<1>6. ASSUME NEW u \in Users, HandlerStep(u)
      PROVE  (\E h \in DOMAIN history : CloseHistory(u, h)) \/ UNCHANGED history
  BY <1>6 DEF HandlerStep, PatchRule, MuteRule, ResolveRule, ReactivateRule,
     DeleteRule, Fetch, SaveRule, ListOpen, FinishResolve, Abandon
<1>7. ASSUME (\E r \in Rules : CreateRule(r) \/ FlipCondition(r)) \/ Tick \/ UNCHANGED vars
      PROVE  UNCHANGED history
  BY <1>7 DEF CreateRule, FlipCondition, Tick, vars
<1> QED
  BY <1>1, <1>2, <1>3, <1>4, <1>5, <1>6, <1>7 DEF Next

(* What the rule table may become.                                         *)
LEMMA RuleStep ==
  ASSUME TypeOK, [Next]_vars
  PROVE  rule' \in [Rules -> RuleRow]
<1> USE DEF TypeOK
<1>1. ASSUME NEW w \in Workers, EvaluatorStep(w) \/ EvaluationFails(w) \/ Crash(w)
      PROVE  rule' \in [Rules -> RuleRow]
  <2>1. \A r \in Rules : rule[r] \in RuleRow
    OBVIOUS
  <2>2. ASSUME NEW r \in Rules, ExpireMute(w, r)
        PROVE  rule' \in [Rules -> RuleRow]
    BY <2>2, ZenonT(40) DEF ExpireMute, RuleRow, Statuses, MuteTimes
  <2>3. CASE TriggerExisting(w) \/ TriggerNew(w)
    <3>1. ev[w].cur \in Rules /\ rule' = [rule EXCEPT ![ev[w].cur].status = "Triggered"]
      BY <2>3 DEF TriggerExisting, TriggerNew, TaskRefersToRows
    <3> QED
      BY <3>1 DEF RuleRow, Statuses
  <2>4. CASE ResolveOpen(w) \/ ResolveNone(w)
    <3>1. ev[w].cur \in Rules /\ rule' = [rule EXCEPT ![ev[w].cur].status = "Active"]
      BY <2>4 DEF ResolveOpen, ResolveNone, TaskRefersToRows
    <3> QED
      BY <3>1 DEF RuleRow, Statuses
  <2>5. CASE UNCHANGED rule
    BY <2>5
  <2> QED
    BY <1>1, <2>2, <2>3, <2>4, <2>5 DEF EvaluatorStep, StartEvaluation,
       FinishEvaluation, SkipMuted, TakeUnmuted, Measure, LookupOpen, LockOpen,
       Enqueue, EvaluationFails, Crash
<1>2. ASSUME NEW u \in Users, HandlerStep(u)
      PROVE  rule' \in [Rules -> RuleRow]
  <2>1. CASE SaveRule(u)
    BY <2>1, SavedType DEF SaveRule, RequestRefersToRows, Request
  <2>2. CASE UNCHANGED rule
    BY <2>2
  <2> QED
    BY <1>2, <2>1, <2>2 DEF HandlerStep, PatchRule, MuteRule, ResolveRule,
       ReactivateRule, DeleteRule, Fetch, ListOpen, CloseHistory, FinishResolve, Abandon
<1>3. ASSUME NEW r \in Rules, CreateRule(r)
      PROVE  rule' \in [Rules -> RuleRow]
  <2>1. ClientStatuses \union {"Active"} \subseteq Statuses
    BY ConstantsAssumption DEF Statuses
  <2> QED
    BY <1>3, <2>1 DEF CreateRule, RuleRow
<1>4. ASSUME (\E r \in Rules : FlipCondition(r)) \/ Tick \/ UNCHANGED vars
      PROVE  rule' \in [Rules -> RuleRow]
  BY <1>4 DEF FlipCondition, Tick, vars
<1> QED
  BY <1>1, <1>2, <1>3, <1>4 DEF Next

LEMMA TypeStep == TypeOK /\ [Next]_vars => TypeOK'
<1> SUFFICES ASSUME TypeOK, [Next]_vars
             PROVE  TypeOK'
  OBVIOUS
<1>1. HistoryGrows /\ rule' \in [Rules -> RuleRow]
  BY HistoryOnlyGrows, RuleStep
<1>2. ASSUME NEW w \in Workers, EvaluatorStep(w) \/ EvaluationFails(w) \/ Crash(w)
      PROVE  TypeOK'
  <2>1. TaskOnly(w)
    BY <1>2, TaskSteps
  <2>2. UNCHANGED <<cond, now>> /\ (UNCHANGED budget \/ Spend)
    BY <1>2
    DEF EvaluatorStep, StartEvaluation, FinishEvaluation, SkipMuted,
        ExpireMute, TakeUnmuted, Measure, LookupOpen, LockOpen, TriggerExisting,
        TriggerNew, Enqueue, ResolveOpen, ResolveNone, EvaluationFails, Crash
  <2>4. budget' \in 0 .. MaxInputs
    BY <2>2, ConstantsAssumption DEF TypeOK, Spend
  <2>3. queued' \subseteq DOMAIN history'
    <3>1. queued' \subseteq queued \union ev[w].hist
      BY <1>2
      DEF EvaluatorStep, StartEvaluation, FinishEvaluation, SkipMuted,
          ExpireMute, TakeUnmuted, Measure, LookupOpen, LockOpen, TriggerExisting,
          TriggerNew, Enqueue, ResolveOpen, ResolveNone, EvaluationFails, Crash
    <3> QED
      BY <1>1, <3>1 DEF TypeOK, TaskRefersToRows, HistoryGrows
  <2>5. byHand' \subseteq DOMAIN history'
    <3>1. UNCHANGED byHand
      BY <1>2
      DEF EvaluatorStep, StartEvaluation, FinishEvaluation, SkipMuted,
          ExpireMute, TakeUnmuted, Measure, LookupOpen, LockOpen, TriggerExisting,
          TriggerNew, Enqueue, ResolveOpen, ResolveNone, EvaluationFails, Crash
    <3> QED
      BY <1>1, <3>1 DEF TypeOK, HistoryGrows
  <2> QED
    BY <1>1, <2>1, <2>2, <2>3, <2>4, <2>5, TaskOnlyType DEF TypeOK, HistoryGrows
<1>3. ASSUME NEW u \in Users, HandlerStep(u)
      PROVE  TypeOK'
  <2>1. RequestOnly(u) /\ budget' \in 0 .. MaxInputs
    BY <1>3, HandlerSteps
  <2>2. UNCHANGED <<cond, now, queued>>
    BY <1>3 DEF HandlerStep, PatchRule, MuteRule, ResolveRule, ReactivateRule,
       DeleteRule, Fetch, SaveRule, ListOpen, CloseHistory, FinishResolve, Abandon
  <2>3. byHand' \subseteq DOMAIN history'
    <3>1. byHand' \subseteq byHand \union DOMAIN history
      BY <1>3 DEF HandlerStep, PatchRule, MuteRule, ResolveRule, ReactivateRule,
         DeleteRule, Fetch, SaveRule, ListOpen, CloseHistory, FinishResolve, Abandon
    <3> QED
      BY <1>1, <3>1 DEF TypeOK, HistoryGrows
  <2> QED
    BY <1>1, <2>1, <2>2, <2>3, RequestOnlyType DEF TypeOK, HistoryGrows
<1>4. ASSUME NEW r \in Rules, CreateRule(r)
      PROVE  TypeOK'
  BY <1>1, <1>4 DEF CreateRule, TypeOK, TaskRefersToRows, RequestRefersToRows
<1>5. ASSUME NEW r \in Rules, FlipCondition(r)
      PROVE  TypeOK'
  BY <1>1, <1>5, ConstantsAssumption
  DEF FlipCondition, Spend, TypeOK, TaskRefersToRows, RequestRefersToRows
<1>6. CASE Tick
  BY <1>6, ConstantsAssumption
  DEF Tick, TypeOK, TaskRefersToRows, RequestRefersToRows
<1>7. CASE UNCHANGED vars
  BY <1>7 DEF vars, TypeOK, TaskRefersToRows, RequestRefersToRows
<1> QED
  BY <1>2, <1>3, <1>4, <1>5, <1>6, <1>7 DEF Next

(* The tables and the in-memory state keep their types: what a task or a   *)
(* handler refers to exists.                                               *)
THEOREM TypeCorrect == Spec => []TypeOK
BY InitType, TypeStep, PTL DEF Spec

-----------------------------------------------------------------------------
(* What a step does to one task, one handler.                              *)

LEMMA OwnStep ==
  ASSUME TypeOK, [Next]_vars, NEW w \in Workers
  PROVE  UNCHANGED ev[w] \/ EvaluatorStep(w) \/ EvaluationFails(w) \/ Crash(w)
<1>1. ASSUME NEW v \in Workers, EvaluatorStep(v) \/ EvaluationFails(v) \/ Crash(v), v # w
      PROVE  UNCHANGED ev[w]
  BY <1>1, TaskSteps DEF TaskOnly, TypeOK
<1>2. ASSUME NEW u \in Users, HandlerStep(u)
      PROVE  UNCHANGED ev[w]
  BY <1>2, HandlerSteps DEF RequestOnly
<1>3. ASSUME \/ \E r \in Rules : CreateRule(r) \/ FlipCondition(r)
             \/ Tick \/ UNCHANGED vars
      PROVE  UNCHANGED ev[w]
  BY <1>3 DEF CreateRule, FlipCondition, Tick, vars
<1> QED
  BY <1>1, <1>2, <1>3 DEF Next

LEMMA OwnRequestStep ==
  ASSUME TypeOK, [Next]_vars, NEW u \in Users
  PROVE  UNCHANGED req[u] \/ HandlerStep(u)
<1>1. ASSUME NEW v \in Users, HandlerStep(v), v # u
      PROVE  UNCHANGED req[u]
  BY <1>1, HandlerSteps DEF RequestOnly, TypeOK
<1>2. ASSUME NEW w \in Workers, EvaluatorStep(w) \/ EvaluationFails(w) \/ Crash(w)
      PROVE  UNCHANGED req[u]
  BY <1>2, TaskSteps DEF TaskOnly
<1>3. ASSUME \/ \E r \in Rules : CreateRule(r) \/ FlipCondition(r)
             \/ Tick \/ UNCHANGED vars
      PROVE  UNCHANGED req[u]
  BY <1>3 DEF CreateRule, FlipCondition, Tick, vars
<1> QED
  BY <1>1, <1>2, <1>3 DEF Next

(* How a task gets to the places where it holds something.                 *)
LEMMA TaskArrives ==
  ASSUME TypeOK, [Next]_vars, NEW w \in Workers
  PROVE  /\ ev'[w].pc \in {"triggering", "resolving"} => UNCHANGED ev[w] \/ LookupOpen(w)
         /\ ev'[w].pc \in {"existing", "close"} => UNCHANGED ev[w] \/ LockOpen(w)
         /\ ev'[w].pc = "notify" => UNCHANGED ev[w] \/ TriggerNew(w)
<1>0. ev[w] \in Task /\ ev \in [Workers -> Task]
  BY DEF TypeOK
<1>1. CASE EvaluatorStep(w)
  <2>1. CASE StartEvaluation(w) \/ FinishEvaluation(w)
    BY <1>0, <2>1, IdleTypes, ZenonT(40) DEF StartEvaluation, FinishEvaluation, Task
  <2>2. ASSUME NEW r \in Rules, SkipMuted(w, r) \/ ExpireMute(w, r) \/ TakeUnmuted(w, r)
        PROVE  ev'[w].pc \in {"loop", "measure"}
    BY <1>0, <2>2 DEF SkipMuted, ExpireMute, TakeUnmuted, Task
  <2>3. CASE Measure(w)
    BY <1>0, <2>3 DEF Measure, NextRule, Task
  <2>4. CASE LookupOpen(w)
    BY <1>0, <2>4 DEF LookupOpen, Task
  <2>5. CASE LockOpen(w)
    BY <1>0, <2>5 DEF LockOpen, Task
  <2>6. CASE TriggerNew(w)
    BY <1>0, <2>6 DEF TriggerNew, Task
  <2>7. CASE TriggerExisting(w) \/ Enqueue(w) \/ ResolveOpen(w) \/ ResolveNone(w)
    BY <1>0, <2>7 DEF TriggerExisting, Enqueue, ResolveOpen, ResolveNone, NextRule, Task
  <2> QED
    BY <1>1, <2>1, <2>2, <2>3, <2>4, <2>5, <2>6, <2>7 DEF EvaluatorStep
<1>2. CASE EvaluationFails(w) \/ Crash(w)
  BY <1>2, IdleTypes DEF TypeOK, Task, EvaluationFails, Crash, NextRule
<1> QED
  BY <1>1, <1>2, OwnStep

-----------------------------------------------------------------------------
(* Open incidents of a rule were opened by different evaluations.          *)

(* The strengthening: between its lookup and its insert, a task knows all  *)
(* the open incidents of the rule that it opened itself.                   *)
KnowsOwnIncidents(w) ==
  ev[w].pc = "triggering" =>
    \A h \in Open(ev[w].cur) : history[h].by = w => h \in ev[w].hist

DistinctInv ==
  /\ TypeOK
  /\ OpenByDistinctWorkers
  /\ \A w \in Workers : KnowsOwnIncidents(w)

LEMMA DistinctStep == DistinctInv /\ [Next]_vars => DistinctInv'
<1> SUFFICES ASSUME DistinctInv, [Next]_vars
             PROVE  DistinctInv'
  OBVIOUS
<1>1. TypeOK /\ TypeOK' /\ HistoryGrows
  BY TypeStep, HistoryOnlyGrows DEF DistinctInv
<1>2. ASSUME NEW w \in Workers, TriggerNew(w)
      PROVE  DistinctInv'
  <2>1. ~ \E h \in Open(ev[w].cur) : history[h].by = w
    BY <1>2 DEF DistinctInv, KnowsOwnIncidents, TriggerNew, Matching, Open
  <2>2. /\ DOMAIN history' = DOMAIN history \union {Len(history) + 1}
        /\ Len(history) + 1 \notin DOMAIN history
        /\ history'[Len(history) + 1] = [rule |-> ev[w].cur, open |-> TRUE, by |-> w]
        /\ \A h \in DOMAIN history : history'[h] = history[h]
    BY <1>1, <1>2 DEF TriggerNew, TypeOK
  <2>3. OpenByDistinctWorkers'
    BY <2>1, <2>2 DEF DistinctInv, OpenByDistinctWorkers, Open
  <2>4. ASSUME NEW v \in Workers
        PROVE  KnowsOwnIncidents(v)'
    <3>1. CASE v = w
      BY <1>1, <1>2, <3>1 DEF TriggerNew, KnowsOwnIncidents, TypeOK, Task
    <3>2. CASE v # w
      <4>1. ev'[v] = ev[v]
        BY <1>1, <1>2, <3>2 DEF TriggerNew, TypeOK
      <4> QED
        BY <2>2, <3>2, <4>1 DEF DistinctInv, KnowsOwnIncidents, Open
    <3> QED
      BY <3>1, <3>2
  <2> QED
    BY <1>1, <2>3, <2>4 DEF DistinctInv
<1>3. CASE DOMAIN history' = DOMAIN history
  <2>1. OpenByDistinctWorkers' /\ \A r : Open(r)' \subseteq Open(r)
    BY <1>1, <1>3 DEF HistoryGrows, DistinctInv, OpenByDistinctWorkers, Open
  <2>2. ASSUME NEW w \in Workers
        PROVE  KnowsOwnIncidents(w)'
    <3>1. CASE UNCHANGED ev[w]
      BY <1>1, <2>1, <3>1 DEF DistinctInv, KnowsOwnIncidents, HistoryGrows, Open
    <3>2. CASE LookupOpen(w)
      <4>1. ev'[w].hist = Open(ev[w].cur) /\ ev'[w].cur = ev[w].cur
        BY <1>1, <3>2 DEF LookupOpen, TypeOK, Task
      <4> QED
        BY <2>1, <4>1 DEF KnowsOwnIncidents
    <3>3. CASE ev'[w].pc # "triggering"
      BY <3>3 DEF KnowsOwnIncidents
    <3>4. UNCHANGED ev[w] \/ LookupOpen(w) \/ ev'[w].pc # "triggering"
      BY <1>1, TaskArrives
    <3> QED
      BY <3>1, <3>2, <3>3, <3>4
  <2> QED
    BY <1>1, <2>1, <2>2 DEF DistinctInv
<1> QED
  BY <1>1, <1>2, <1>3, HistoryOnlyGrows

LEMMA DistinctInit == Init => DistinctInv
BY InitType, IdleTypes
DEF Init, DistinctInv, OpenByDistinctWorkers, KnowsOwnIncidents

(* However many evaluations run at once, and whatever requests and         *)
(* failures come between their steps, two open incidents of a rule were    *)
(* opened by different evaluations.                                        *)
THEOREM OpenIncidentsAreDistinct == Spec => []OpenByDistinctWorkers
<1>1. DistinctInv => OpenByDistinctWorkers
  BY DEF DistinctInv
<1> QED
  BY <1>1, DistinctInit, DistinctStep, PTL DEF Spec

(* So when evaluations never run at the same time, a rule never has two    *)
(* open incidents.                                                         *)
THEOREM SingleEvaluatorOpensOnce ==
  ASSUME \A v, w \in Workers : v = w
  PROVE  Spec => []AtMostOneOpen
<1>1. DistinctInv => AtMostOneOpen
  <2>1. TypeOK => \A h \in DOMAIN history : history[h] \in Incident
    BY DEF TypeOK
  <2> QED
    BY <2>1 DEF DistinctInv, OpenByDistinctWorkers, AtMostOneOpen, Incident
<1> QED
  BY <1>1, DistinctInit, DistinctStep, PTL DEF Spec

-----------------------------------------------------------------------------
(* The row lock.                                                           *)

(* The strengthening: the rows of a lookup are the rows of its rule.       *)
LooksAtOwnRule(w) ==
  ev[w].pc \in {"triggering", "resolving", "existing", "close"} =>
    \A h \in ev[w].hist : history[h].rule = ev[w].cur

LockInv ==
  /\ TypeOK
  /\ LockedIsOpen
  /\ \A w \in Workers : LooksAtOwnRule(w)

LEMMA LockStep == LockInv /\ [Next]_vars => LockInv'
<1> SUFFICES ASSUME LockInv, [Next]_vars
             PROVE  LockInv'
  OBVIOUS
<1>1. TypeOK /\ TypeOK' /\ HistoryGrows
  BY TypeStep, HistoryOnlyGrows DEF LockInv
<1>2. ASSUME NEW w \in Workers
      PROVE  LooksAtOwnRule(w)'
  <2>1. CASE UNCHANGED ev[w]
    BY <1>1, <2>1 DEF LockInv, LooksAtOwnRule, HistoryGrows, TypeOK, TaskRefersToRows
  <2>2. CASE LookupOpen(w)
    <3>1. ev'[w].hist = Open(ev[w].cur) /\ ev'[w].cur = ev[w].cur
      BY <1>1, <2>2 DEF LookupOpen, TypeOK, Task
    <3> QED
      BY <1>1, <3>1 DEF LooksAtOwnRule, HistoryGrows, Open
  <2>3. CASE LockOpen(w)
    <3>1. /\ ev'[w].hist \subseteq ev[w].hist /\ ev'[w].cur = ev[w].cur
          /\ ev[w].pc \in {"triggering", "resolving"}
      BY <1>1, <2>3 DEF LockOpen, Matching, TypeOK, Task
    <3> QED
      BY <1>1, <3>1 DEF LockInv, LooksAtOwnRule, HistoryGrows, TypeOK, TaskRefersToRows
  <2>4. CASE ev'[w].pc \notin {"triggering", "resolving", "existing", "close"}
    BY <2>4 DEF LooksAtOwnRule
  <2> QED
    BY <1>1, <2>1, <2>2, <2>3, <2>4, TaskArrives
<1>3. ASSUME NEW w \in Workers, NEW h \in DOMAIN history', Holds(w, h)'
      PROVE  /\ h \in DOMAIN history /\ history'[h].open
             /\ \A v \in Workers \ {w} : ~ Holds(v, h)'
  <2>0. ev'[w].pc \in {"existing", "close"} /\ h \in ev'[w].hist
    BY <1>3 DEF Holds
  <2>1. CASE UNCHANGED ev[w]
    <3>1. Holds(w, h) /\ h \in DOMAIN history
      BY <1>1, <2>0, <2>1 DEF Holds, TypeOK, TaskRefersToRows
    <3>2. history[h].open /\ \A v \in Workers \ {w} : ~ Holds(v, h)
      BY <3>1 DEF LockInv, LockedIsOpen
    <3>3. history'[h].open
      <4>1. ~ \E v \in Workers : ResolveOpen(v) /\ h \in ev[v].hist
        <5>1. ~ ResolveOpen(w)
          BY <1>1, <2>0, <2>1 DEF ResolveOpen, NextRule, TypeOK, Task
        <5> QED
          BY <3>2, <5>1 DEF ResolveOpen, Holds
      <4>2. ~ \E u \in Users : CloseHistory(u, h)
        BY <3>1 DEF CloseHistory, Locked
      <4> QED
        BY <1>1, <3>1, <3>2, <4>1, <4>2, HistoryOnlyGrows
    <3>4. ASSUME NEW v \in Workers \ {w}, Holds(v, h)'
          PROVE  FALSE
      <4>1. ~ Holds(v, h)
        BY <3>2
      <4>2. LockOpen(v)
        BY <1>1, <3>4, <4>1, TaskArrives DEF Holds
      <4>3. h \in Matching(v) /\ ~ Locked(h)
        BY <1>1, <3>4, <4>2 DEF LockOpen, Holds, TypeOK, Task
      <4> QED
        BY <3>1, <4>3 DEF Locked
    <3> QED
      BY <3>1, <3>3, <3>4
  <2>2. CASE LockOpen(w)
    <3>1. h \in Matching(w) /\ ~ Locked(h) /\ UNCHANGED history
      BY <1>1, <2>0, <2>2 DEF LockOpen, TypeOK, Task
    <3>2. \A v \in Workers \ {w} : UNCHANGED ev[v]
      BY <1>1, <2>2 DEF LockOpen, TypeOK
    <3> QED
      BY <1>1, <3>1, <3>2 DEF Locked, Holds, Matching, TypeOK, TaskRefersToRows
  <2> QED
    BY <1>1, <2>0, <2>1, <2>2, TaskArrives
<1>4. LockedIsOpen'
  BY <1>2, <1>3 DEF LockedIsOpen, LooksAtOwnRule, Holds
<1> QED
  BY <1>1, <1>2, <1>4 DEF LockInv

LEMMA LockInit == Init => LockInv
BY InitType, IdleTypes DEF Init, LockInv, LockedIsOpen, LooksAtOwnRule, Holds

(* The incident that a task has locked is open, belongs to the rule under  *)
(* evaluation and is locked by no other task, for as long as the task      *)
(* holds it.                                                               *)
THEOREM LockedIncidentsStayOpen == Spec => []LockedIsOpen
<1>1. LockInv => LockedIsOpen
  BY DEF LockInv
<1> QED
  BY <1>1, LockInit, LockStep, PTL DEF Spec

-----------------------------------------------------------------------------
(* What a request in progress looks like.                                  *)

(* The row in memory has what the handler put there; only the resolve      *)
(* handler goes on after its save, and only it has incidents to close.     *)
RequestInv(u) ==
  /\ req[u].pc # "idle" =>
       /\ req[u].op \in UserOps
       /\ req[u].op = "mute" => req[u].row.status = "Muted"
       /\ req[u].op = "resolve" => req[u].row.status = "Resolved"
       /\ req[u].op = "reactivate" => req[u].row.status = "Active"
       /\ req[u].op = "delete" => req[u].row.life = "deleted"
       /\ req[u].row.life # "absent"
  /\ req[u].pc \in {"list", "close"} => req[u].op = "resolve"
  /\ req[u].pc # "close" => req[u].close = {}

HandlerInv == TypeOK /\ \A u \in Users : RequestInv(u)

LEMMA HandlerInit == Init => HandlerInv
BY InitType, IdleTypes DEF Init, HandlerInv, RequestInv

LEMMA HandlerInvStep == HandlerInv /\ [Next]_vars => HandlerInv'
<1> SUFFICES ASSUME HandlerInv, [Next]_vars
             PROVE  HandlerInv'
  OBVIOUS
<1>1. TypeOK /\ TypeOK'
  BY TypeStep DEF HandlerInv
<1>2. ASSUME NEW u \in Users
      PROVE  RequestInv(u)'
  <2>0. req[u] \in Request /\ RequestInv(u) /\ req \in [Users -> Request]
    BY <1>1 DEF HandlerInv, TypeOK
  <2>1. CASE UNCHANGED req[u]
    BY <2>0, <2>1 DEF RequestInv
  <2>2. ASSUME NEW r \in Rules,
               \/ PatchRule(u, r) \/ MuteRule(u, r) \/ ResolveRule(u, r)
               \/ ReactivateRule(u, r) \/ DeleteRule(u, r)
        PROVE  RequestInv(u)'
    <3>1. rule[r] \in RuleRow
      BY <1>1 DEF TypeOK
    <3>2. CASE PatchRule(u, r)
      BY <2>0, <3>1, <3>2 DEF PatchRule, Fetch, RequestInv, RuleRow
    <3>3. CASE MuteRule(u, r)
      BY <2>0, <3>1, <3>3 DEF MuteRule, Fetch, RequestInv, RuleRow
    <3>4. CASE ResolveRule(u, r)
      BY <2>0, <3>1, <3>4 DEF ResolveRule, Fetch, RequestInv, RuleRow
    <3>5. CASE ReactivateRule(u, r)
      BY <2>0, <3>1, <3>5 DEF ReactivateRule, Fetch, RequestInv, RuleRow
    <3>6. CASE DeleteRule(u, r)
      BY <2>0, <3>1, <3>6 DEF DeleteRule, Fetch, RequestInv, RuleRow
    <3> QED
      BY <2>2, <3>2, <3>3, <3>4, <3>5, <3>6
  <2>3. CASE SaveRule(u)
    BY <2>0, <2>3, IdleTypes DEF SaveRule, RequestInv, Request
  <2>4. CASE ListOpen(u)
    BY <2>0, <2>4 DEF ListOpen, RequestInv, Request
  <2>5. CASE FinishResolve(u) \/ Abandon(u)
    BY <2>0, <2>5, IdleTypes DEF FinishResolve, Abandon, RequestInv
  <2>6. ASSUME NEW h \in DOMAIN history, CloseHistory(u, h)
        PROVE  RequestInv(u)'
    BY <2>0, <2>6 DEF CloseHistory, RequestInv, Request
  <2> QED
    BY <1>1, <2>1, <2>2, <2>3, <2>4, <2>5, <2>6, OwnRequestStep DEF HandlerStep
<1> QED
  BY <1>1, <1>2 DEF HandlerInv

(* A save never changes the row of another rule, and writes no status and  *)
(* no deleted_at but those of its handler.                                 *)
LEMMA SaveWrites ==
  ASSUME HandlerInv, "patch" \notin UserOps, NEW u \in Users, SaveRule(u),
         NEW r \in Rules
  PROVE  /\ rule'[r].life # rule[r].life =>
              rule'[r].life = "deleted"
         /\ rule'[r].status # rule[r].status =>
              \/ rule'[r].status \in {"Muted", "Active"}
              \/ /\ rule'[r].status = "Resolved" /\ req[u].op = "resolve"
                 /\ req[u].rule = r
<1>1. /\ req[u].op \in {"mute", "resolve", "reactivate", "delete"}
      /\ req[u].rule \in Rules /\ rule \in [Rules -> RuleRow]
  BY DEF HandlerInv, RequestInv, SaveRule, TypeOK, RequestRefersToRows, Operations
<1>2. CASE r = req[u].rule
  <2>1. rule'[r] = Saved(rule[r], req[u].row, UpdateFields(req[u].op))
    BY <1>1, <1>2 DEF SaveRule
  <2>2. CASE req[u].op = "mute"
    BY <2>1, <2>2 DEF Saved, UpdateFields, HandlerInv, RequestInv, SaveRule
  <2>3. CASE req[u].op = "resolve"
    BY <1>2, <2>1, <2>3 DEF Saved, UpdateFields, HandlerInv, RequestInv, SaveRule
  <2>4. CASE req[u].op = "reactivate"
    BY <2>1, <2>4 DEF Saved, UpdateFields, HandlerInv, RequestInv, SaveRule
  <2>5. CASE req[u].op = "delete"
    BY <2>1, <2>5 DEF Saved, UpdateFields, HandlerInv, RequestInv, SaveRule
  <2> QED
    BY <1>1, <2>2, <2>3, <2>4, <2>5
<1>3. CASE r # req[u].rule
  BY <1>1, <1>3 DEF SaveRule
<1> QED
  BY <1>2, <1>3

(* Everybody else's writes to the rule table.                              *)
LEMMA TaskWrites ==
  ASSUME TypeOK, NEW w \in Workers, NEW r \in Rules,
         EvaluatorStep(w) \/ EvaluationFails(w) \/ Crash(w)
  PROVE  /\ rule'[r].life = rule[r].life
         /\ rule'[r].status # rule[r].status =>
              \/ rule'[r].status = "Active"
              \/ /\ rule'[r].status = "Triggered" /\ ev[w].cur = r
                 /\ TriggerExisting(w) \/ TriggerNew(w)
<1>0. rule \in [Rules -> RuleRow] /\ rule[r] \in RuleRow
  BY DEF TypeOK
<1>1. ASSUME NEW q \in Rules, ExpireMute(w, q)
      PROVE  /\ rule'[r].life = rule[r].life
             /\ rule'[r].status # rule[r].status => rule'[r].status = "Active"
  BY <1>0, <1>1 DEF ExpireMute, RuleRow
<1>2. CASE TriggerExisting(w) \/ TriggerNew(w)
  BY <1>0, <1>2 DEF TriggerExisting, TriggerNew, RuleRow
<1>3. CASE ResolveOpen(w) \/ ResolveNone(w)
  BY <1>0, <1>3 DEF ResolveOpen, ResolveNone, RuleRow
<1>4. CASE UNCHANGED rule
  BY <1>4
<1> QED
  BY <1>1, <1>2, <1>3, <1>4 DEF EvaluatorStep, StartEvaluation,
     FinishEvaluation, SkipMuted, TakeUnmuted, Measure, LookupOpen, LockOpen,
     Enqueue, EvaluationFails, Crash

LEMMA RuleWrites ==
  ASSUME HandlerInv, [Next]_vars, "patch" \notin UserOps, NEW r \in Rules
  PROVE  /\ rule'[r].life # rule[r].life =>
              rule[r].life = "absent" \/ rule'[r].life = "deleted"
         /\ rule'[r].status # rule[r].status =>
              \/ rule'[r].status \in {"Muted", "Active"}
              \/ CreateRule(r) /\ rule'[r].status \in ClientStatuses
              \/ /\ rule'[r].status = "Triggered"
                 /\ \E w \in Workers :
                      /\ ev[w].cur = r
                      /\ TriggerExisting(w) \/ TriggerNew(w)
              \/ /\ rule'[r].status = "Resolved"
                 /\ \E u \in Users : /\ SaveRule(u) /\ req[u].op = "resolve"
                                     /\ req[u].rule = r
<1>0. TypeOK /\ rule \in [Rules -> RuleRow]
  BY DEF HandlerInv, TypeOK
<1>1. ASSUME NEW w \in Workers, EvaluatorStep(w) \/ EvaluationFails(w) \/ Crash(w)
      PROVE  /\ rule'[r].life = rule[r].life
             /\ rule'[r].status # rule[r].status =>
                  \/ rule'[r].status = "Active"
                  \/ /\ rule'[r].status = "Triggered" /\ ev[w].cur = r
                     /\ TriggerExisting(w) \/ TriggerNew(w)
  BY <1>0, <1>1, TaskWrites
<1>2. ASSUME NEW u \in Users, HandlerStep(u)
      PROVE  SaveRule(u) \/ UNCHANGED rule
  BY <1>2 DEF HandlerStep, PatchRule, MuteRule, ResolveRule, ReactivateRule,
     DeleteRule, Fetch, ListOpen, CloseHistory, FinishResolve, Abandon
<1>3. ASSUME NEW q \in Rules, CreateRule(q)
      PROVE  \/ rule'[r] = rule[r]
             \/ /\ rule[r].life = "absent" /\ q = r
                /\ rule'[r].status \in ClientStatuses \union {"Active"}
  BY <1>0, <1>3 DEF CreateRule
<1>4. ASSUME (\E q \in Rules : FlipCondition(q)) \/ Tick \/ UNCHANGED vars
      PROVE  UNCHANGED rule
  BY <1>4 DEF FlipCondition, Tick, vars
<1> QED
  BY <1>1, <1>2, <1>3, <1>4, SaveWrites DEF Next

(* A deleted rule stays deleted, when no PATCH is in use: every other save *)
(* names its columns, and deleted_at is named by the delete handler only.  *)
THEOREM DeletedRulesStayDeleted ==
  ASSUME "patch" \notin UserOps
  PROVE  Spec => DeletedStaysDeleted
<1>1. HandlerInv /\ [Next]_vars =>
        [\A r \in Rules : rule[r].life = "deleted" => rule'[r].life = "deleted"]_vars
  <2> SUFFICES ASSUME HandlerInv, [Next]_vars, NEW r \in Rules, rule[r].life = "deleted"
               PROVE  rule'[r].life = "deleted"
    OBVIOUS
  <2> QED
    BY RuleWrites
<1> QED
  BY <1>1, HandlerInit, HandlerInvStep, PTL DEF Spec, DeletedStaysDeleted

-----------------------------------------------------------------------------
(* A Triggered rule has an open incident.                                  *)

(* The strengthening: a task in front of a lock or a hand-over has exactly *)
(* one incident in hand.                                                   *)
OneInHand(w) ==
  ev[w].pc \in {"existing", "close", "notify"} => \E h \in Nat : ev[w].hist = {h}

LEMMA OneInHandStep ==
  ASSUME TypeOK, [Next]_vars, NEW w \in Workers, OneInHand(w)
  PROVE  OneInHand(w)'
<1>0. ev \in [Workers -> Task] /\ ev[w] \in Task /\ history \in Seq(Incident)
  BY DEF TypeOK
<1>1. CASE UNCHANGED ev[w]
  BY <1>1 DEF OneInHand
<1>2. CASE LockOpen(w)
  BY <1>0, <1>2 DEF LockOpen, Matching, OneInHand, Task
<1>3. CASE TriggerNew(w)
  <2>1. ev'[w].hist = {Len(history) + 1} /\ Len(history) + 1 \in Nat
    BY <1>0, <1>3 DEF TriggerNew, Task
  <2> QED
    BY <2>1 DEF OneInHand
<1>4. CASE ev'[w].pc \notin {"existing", "close", "notify"}
  BY <1>4 DEF OneInHand
<1> QED
  BY <1>1, <1>2, <1>3, <1>4, TaskArrives

LEMMA ByHandGrows == ASSUME [Next]_vars PROVE byHand \subseteq byHand'
<1>1. ASSUME NEW w \in Workers, EvaluatorStep(w) \/ EvaluationFails(w) \/ Crash(w)
      PROVE  UNCHANGED byHand
  BY <1>1 DEF EvaluatorStep, StartEvaluation, FinishEvaluation, SkipMuted,
     ExpireMute, TakeUnmuted, Measure, LookupOpen, LockOpen, TriggerExisting,
     TriggerNew, Enqueue, ResolveOpen, ResolveNone, EvaluationFails, Crash
<1>2. ASSUME NEW u \in Users, HandlerStep(u)
      PROVE  byHand \subseteq byHand'
  BY <1>2 DEF HandlerStep, PatchRule, MuteRule, ResolveRule, ReactivateRule,
     DeleteRule, Fetch, SaveRule, ListOpen, CloseHistory, FinishResolve, Abandon
<1>3. ASSUME \/ \E r \in Rules : CreateRule(r) \/ FlipCondition(r)
             \/ Tick \/ UNCHANGED vars
      PROVE  UNCHANGED byHand
  BY <1>3 DEF CreateRule, FlipCondition, Tick, vars
<1> QED
  BY <1>1, <1>2, <1>3 DEF Next

TriggeredInv ==
  /\ LockInv /\ HandlerInv /\ TriggeredHasIncident
  /\ \A w \in Workers : OneInHand(w)

LEMMA TriggeredStep ==
  ASSUME "patch" \notin UserOps, "Triggered" \notin ClientStatuses,
         TriggeredInv, [Next]_vars
  PROVE  TriggeredInv'
<1>1. /\ LockInv /\ HandlerInv /\ TypeOK /\ TypeOK' /\ HistoryGrows
      /\ LockInv' /\ HandlerInv' /\ \A w \in Workers : OneInHand(w) /\ OneInHand(w)'
  BY TypeStep, LockStep, HandlerInvStep, HistoryOnlyGrows, OneInHandStep
  DEF TriggeredInv, LockInv
<1>2. ASSUME NEW r \in Rules, rule'[r].status = "Triggered"
      PROVE  Open(r)' # {} \/ \E h \in byHand' : history'[h].rule = r
  <2>0. CASE \E h \in byHand : history[h].rule = r
    <3>1. PICK h \in byHand : history[h].rule = r
      BY <2>0
    <3>2. h \in byHand' /\ history'[h].rule = r
      BY <1>1, <3>1, ByHandGrows DEF TypeOK, HistoryGrows
    <3> QED
      BY <3>2
  <2>1. CASE rule[r].status = "Triggered" /\ ~ \E h \in byHand : history[h].rule = r
    <3>1. PICK h \in DOMAIN history : history[h].open /\ history[h].rule = r
      BY <2>1 DEF TriggeredInv, TriggeredHasIncident, Open
    <3>2. ASSUME NEW u \in Users, CloseHistory(u, h)
          PROVE  h \in byHand' /\ history'[h].rule = r
      BY <1>1, <3>1, <3>2 DEF CloseHistory, HistoryGrows
    <3>3. ~ \E w \in Workers : ResolveOpen(w) /\ h \in ev[w].hist
      <4> SUFFICES ASSUME NEW w \in Workers, ResolveOpen(w), h \in ev[w].hist
                   PROVE  FALSE
        OBVIOUS
      <4>1. ev[w].cur = r
        BY <1>1, <3>1 DEF ResolveOpen, LockInv, LooksAtOwnRule
      <4> QED
        BY <1>1, <1>2, <4>1 DEF ResolveOpen, TypeOK, RuleRow
    <3>4. CASE ~ \E u \in Users : CloseHistory(u, h)
      <4>1. history'[h].open /\ history'[h].rule = r /\ h \in DOMAIN history'
        BY <1>1, <3>1, <3>3, <3>4, HistoryOnlyGrows DEF HistoryGrows
      <4> QED
        BY <4>1 DEF Open
    <3> QED
      BY <3>2, <3>4
  <2>2. CASE rule[r].status # "Triggered"
    <3>1. PICK w \in Workers : ev[w].cur = r /\ (TriggerExisting(w) \/ TriggerNew(w))
      BY <1>1, <1>2, <2>2, RuleWrites
    <3>2. CASE TriggerExisting(w)
      <4>1. PICK h \in DOMAIN history : Holds(w, h)
        BY <1>1, <3>2 DEF TriggerExisting, OneInHand, Holds, TypeOK, TaskRefersToRows
      <4>2. history[h].open /\ history[h].rule = r /\ UNCHANGED history
        BY <1>1, <3>1, <3>2, <4>1 DEF LockInv, LockedIsOpen, TriggerExisting
      <4> QED
        BY <4>2 DEF Open
    <3>3. CASE TriggerNew(w)
      <4>1. /\ Len(history) + 1 \in DOMAIN history'
            /\ history'[Len(history) + 1] = [rule |-> r, open |-> TRUE, by |-> w]
        BY <1>1, <3>1, <3>3 DEF TriggerNew, TypeOK
      <4> QED
        BY <4>1 DEF Open
    <3> QED
      BY <3>1, <3>2, <3>3
  <2> QED
    BY <2>0, <2>1, <2>2
<1> QED
  BY <1>1, <1>2 DEF TriggeredInv, TriggeredHasIncident

(* A rule shown as Triggered has an open incident, or a resolve handler    *)
(* has closed one of its incidents, however evaluations interleave, fail   *)
(* or crash, as long as no client writes "Triggered".  It rests on the row *)
(* lock: an evaluation cannot close the incident that justifies the status *)
(* before the status is committed.                                         *)
THEOREM TriggeredRulesHaveIncidents ==
  ASSUME "patch" \notin UserOps, "Triggered" \notin ClientStatuses
  PROVE  Spec => []TriggeredHasIncident
<1>1. Init => TriggeredInv
  BY LockInit, HandlerInit, IdleTypes
  DEF Init, TriggeredInv, TriggeredHasIncident, OneInHand, AbsentRow
<1>2. TriggeredInv /\ [Next]_vars => TriggeredInv'
  BY TriggeredStep
<1>3. TriggeredInv => TriggeredHasIncident
  BY DEF TriggeredInv
<1> QED
  BY <1>1, <1>2, <1>3, PTL DEF Spec

-----------------------------------------------------------------------------
(* The open incidents of a Resolved rule are being closed.                 *)

(* The strengthening: a rule that was never inserted has no incidents, and *)
(* the tasks only have rules at hand that were inserted.                   *)
AtHand(w) == ev[w].batch \union ({ev[w].cur} \ {NoRule})

RowsExist ==
  /\ \A h \in DOMAIN history : rule[history[h].rule].life # "absent"
  /\ \A w \in Workers : \A r \in AtHand(w) : rule[r].life # "absent"

LEMMA AtHandShrinks ==
  ASSUME TypeOK, NEW w \in Workers,
         EvaluatorStep(w) \/ EvaluationFails(w) \/ Crash(w), ~ StartEvaluation(w)
  PROVE  AtHand(w)' \subseteq AtHand(w)
<1>0. ev \in [Workers -> Task] /\ ev[w] \in Task
  BY DEF TypeOK
<1>1. CASE FinishEvaluation(w) \/ Crash(w)
  BY <1>0, <1>1 DEF FinishEvaluation, Crash, AtHand, IdleTask
<1>2. ASSUME NEW r \in Rules, SkipMuted(w, r)
      PROVE  AtHand(w)' \subseteq AtHand(w)
  BY <1>0, <1>2 DEF SkipMuted, AtHand, Task
<1>3. ASSUME NEW r \in Rules, ExpireMute(w, r) \/ TakeUnmuted(w, r)
      PROVE  AtHand(w)' \subseteq AtHand(w)
  BY <1>0, <1>3 DEF ExpireMute, TakeUnmuted, AtHand, Task
<1>4. CASE Measure(w)
  BY <1>0, <1>4 DEF Measure, NextRule, AtHand, Task
<1>5. CASE LookupOpen(w)
  BY <1>0, <1>5 DEF LookupOpen, AtHand, Task
<1>6. CASE LockOpen(w)
  BY <1>0, <1>6 DEF LockOpen, AtHand, Task
<1>7. CASE TriggerNew(w)
  BY <1>0, <1>7 DEF TriggerNew, AtHand, Task
<1>8. CASE \/ TriggerExisting(w) \/ Enqueue(w) \/ ResolveOpen(w) \/ ResolveNone(w)
           \/ EvaluationFails(w)
  BY <1>0, <1>8 DEF TriggerExisting, Enqueue, ResolveOpen, ResolveNone,
     EvaluationFails, NextRule, AtHand, Task
<1> QED
  BY <1>1, <1>2, <1>3, <1>4, <1>5, <1>6, <1>7, <1>8 DEF EvaluatorStep

LEMMA RowsExistStep ==
  ASSUME HandlerInv, RowsExist, [Next]_vars, "patch" \notin UserOps
  PROVE  RowsExist'
<1>1. TypeOK /\ TypeOK' /\ HistoryGrows /\ HandlerInv'
  BY TypeStep, HistoryOnlyGrows, HandlerInvStep DEF HandlerInv
<1>2. \A r \in Rules : rule[r].life # "absent" => rule'[r].life # "absent"
  BY RuleWrites
<1>3. ASSUME NEW w \in Workers
      PROVE  \A r \in AtHand(w)' : rule'[r].life # "absent"
  <2>1. CASE UNCHANGED ev[w]
    BY <1>1, <1>2, <2>1 DEF AtHand, RowsExist, TypeOK, Task
  <2>2. CASE StartEvaluation(w)
    BY <1>1, <1>2, <2>2 DEF StartEvaluation, AtHand, IdleTask, TypeOK
  <2>3. CASE AtHand(w)' \subseteq AtHand(w)
    BY <1>1, <1>2, <2>3 DEF AtHand, RowsExist, TypeOK, Task
  <2> QED
    BY <1>1, <2>1, <2>2, <2>3, OwnStep, AtHandShrinks
<1>4. ASSUME NEW h \in DOMAIN history'
      PROVE  rule'[history'[h].rule].life # "absent"
  <2>1. CASE h \in DOMAIN history
    <3>1. history[h] \in Incident
      BY <1>1, <2>1 DEF TypeOK
    <3>2. history[h].rule \in Rules
      BY <3>1 DEF Incident
    <3> QED
      BY <1>1, <1>2, <2>1, <3>2 DEF HistoryGrows, RowsExist
  <2>2. CASE h \notin DOMAIN history
    <3>1. PICK w \in Workers : TriggerNew(w)
      BY <1>1, <2>2, HistoryOnlyGrows
    <3>2. history'[h].rule = ev[w].cur /\ ev[w].cur \in Rules
      BY <1>1, <2>2, <3>1 DEF TriggerNew, TypeOK, TaskRefersToRows
    <3> QED
      BY <1>2, <3>2, ConstantsAssumption DEF RowsExist, AtHand
  <2> QED
    BY <2>1, <2>2
<1> QED
  BY <1>3, <1>4 DEF RowsExist

ResolvedInv == HandlerInv /\ RowsExist /\ ResolvedIsBeingClosed

LEMMA ResolvedStep ==
  ASSUME "patch" \notin UserOps, "abandon" \notin Faults, ResolvedInv, [Next]_vars
  PROVE  ResolvedInv'
<1>1. HandlerInv /\ HandlerInv' /\ TypeOK /\ TypeOK' /\ HistoryGrows /\ RowsExist'
  BY TypeStep, HandlerInvStep, HistoryOnlyGrows, RowsExistStep DEF ResolvedInv, HandlerInv
<1>2. ASSUME NEW r \in Rules, rule'[r].status = "Resolved", NEW h \in Open(r)'
      PROVE  \E u \in Users : /\ req'[u].op = "resolve" /\ req'[u].rule = r
                              /\ req'[u].pc = "list" \/ h \in req'[u].close
  <2>0. h \in Open(r)
    <3>1. CASE h \in DOMAIN history
      BY <1>1, <3>1 DEF HistoryGrows, Open
    <3>2. CASE h \notin DOMAIN history
      <4>1. PICK w \in Workers : TriggerNew(w)
        BY <1>1, <1>2, <3>2, HistoryOnlyGrows DEF Open
      <4>2. ev[w].cur = r
        BY <1>1, <1>2, <3>2, <4>1 DEF TriggerNew, TypeOK, Open
      <4> QED
        BY <1>1, <1>2, <4>1, <4>2 DEF TriggerNew, TypeOK, RuleRow
    <3> QED
      BY <3>1, <3>2
  <2>1. CASE rule[r].status = "Resolved"
    <3>1. PICK u \in Users : /\ req[u].op = "resolve" /\ req[u].rule = r
                             /\ req[u].pc = "list" \/ h \in req[u].close
      BY <2>0, <2>1 DEF ResolvedInv, ResolvedIsBeingClosed
    <3>2. req[u] \in Request /\ req \in [Users -> Request] /\ req[u].pc \in {"list", "close"}
      BY <1>1, <3>1 DEF HandlerInv, RequestInv, TypeOK
    <3>3. CASE UNCHANGED req[u]
      BY <3>1, <3>3
    <3>4. CASE ListOpen(u)
      <4>1. req'[u] = [req[u] EXCEPT !.pc = "close", !.close = Open(r)]
        BY <3>1, <3>2, <3>4 DEF ListOpen
      <4> QED
        BY <2>0, <3>1, <3>2, <4>1 DEF Request
    <3>5. ASSUME NEW g \in DOMAIN history, CloseHistory(u, g)
          PROVE  h \in req'[u].close /\ req'[u].op = "resolve" /\ req'[u].rule = r
      <4>1. g # h
        BY <1>1, <1>2, <2>0, <3>5 DEF CloseHistory, TypeOK, Open, Incident
      <4> QED
        BY <3>1, <3>2, <3>5, <4>1 DEF CloseHistory, Request
    <3>6. UNCHANGED req[u] \/ ListOpen(u) \/ \E g \in DOMAIN history : CloseHistory(u, g)
      BY <1>1, <3>1, <3>2, OwnRequestStep
      DEF HandlerStep, PatchRule, MuteRule, ResolveRule, ReactivateRule, DeleteRule,
          Fetch, SaveRule, FinishResolve, Abandon
    <3> QED
      BY <3>3, <3>4, <3>5, <3>6, <3>1, <3>2 DEF ListOpen
  <2>2. CASE rule[r].status # "Resolved"
    <3>1. rule[r].life # "absent"
      BY <2>0 DEF ResolvedInv, RowsExist, Open
    <3>2. PICK u \in Users : SaveRule(u) /\ req[u].op = "resolve" /\ req[u].rule = r
      BY <1>1, <1>2, <2>2, <3>1, RuleWrites DEF CreateRule
    <3>3. req'[u] = [req[u] EXCEPT !.pc = "list"] /\ req[u] \in Request
      BY <1>1, <3>2 DEF SaveRule, TypeOK
    <3> QED
      BY <3>2, <3>3 DEF Request
  <2> QED
    BY <2>1, <2>2
<1> QED
  BY <1>1, <1>2 DEF ResolvedInv, ResolvedIsBeingClosed

(* A rule shown as Resolved has no open incident but those that a resolve  *)
(* request is about to close, whatever evaluations open meanwhile, as long *)
(* as no PATCH is in use and no request dies half way.                     *)
THEOREM ResolvedRulesAreBeingClosed ==
  ASSUME "patch" \notin UserOps, "abandon" \notin Faults
  PROVE  Spec => []ResolvedIsBeingClosed
<1>1. Init => ResolvedInv
  BY HandlerInit, IdleTypes
  DEF Init, ResolvedInv, RowsExist, AtHand, ResolvedIsBeingClosed, IdleTask, Open
<1>2. ResolvedInv /\ [Next]_vars => ResolvedInv'
  BY ResolvedStep
<1>3. ResolvedInv => ResolvedIsBeingClosed
  BY DEF ResolvedInv
<1> QED
  BY <1>1, <1>2, <1>3, PTL DEF Spec

-----------------------------------------------------------------------------
(* One evaluation at a time leaves no incident behind a silent rule.       *)

(* A rule that shows no alarm has no open incident.                        *)
SilentIsClear ==
  \A r \in Rules : rule[r].status \in {"Active", "Muted"} => Open(r) = {}

(* The strengthening: what the task knows of its rules is still so.  The   *)
(* rule at hand is not in the batch any more, its lookup has all its open  *)
(* incidents, and the rules fetched as Muted have none.                    *)
KnowsItsRules(w) ==
  /\ ev[w].cur \notin ev[w].batch
  /\ ev[w].pc = "resolving" => Open(ev[w].cur) \subseteq ev[w].hist
  /\ \A r \in ev[w].batch : ev[w].copy[r].status = "Muted" => Open(r) = {}

ClearInv ==
  /\ DistinctInv /\ LockInv /\ HandlerInv /\ RowsExist /\ SilentIsClear
  /\ \A w \in Workers : OneInHand(w) /\ KnowsItsRules(w)

(* Only the insert of trigger_rule adds to the open incidents of a rule.   *)
LEMMA OpenGrows ==
  ASSUME TypeOK, [Next]_vars, NEW r \in Rules
  PROVE  Open(r)' \subseteq Open(r) \/ \E w \in Workers : TriggerNew(w) /\ ev[w].cur = r
<1>1. HistoryGrows
  BY HistoryOnlyGrows
<1>2. CASE DOMAIN history' = DOMAIN history
  BY <1>1, <1>2 DEF HistoryGrows, Open
<1>3. ASSUME NEW w \in Workers, TriggerNew(w)
      PROVE  Open(r)' \subseteq Open(r) \/ ev[w].cur = r
  <2>1. /\ DOMAIN history' = DOMAIN history \union {Len(history) + 1}
        /\ history'[Len(history) + 1] = [rule |-> ev[w].cur, open |-> TRUE, by |-> w]
        /\ \A h \in DOMAIN history : history'[h] = history[h]
    BY <1>3 DEF TriggerNew, TypeOK
  <2> QED  BY <2>1 DEF Open
<1> QED  BY <1>2, <1>3, HistoryOnlyGrows

(* A step of a task takes rules out of its batch and leaves the copies of  *)
(* the others as they were fetched.                                        *)
LEMMA BatchShrinks ==
  ASSUME TypeOK, NEW w \in Workers, ev[w].cur \notin ev[w].batch,
         EvaluatorStep(w) \/ EvaluationFails(w) \/ Crash(w)
  PROVE  /\ ev'[w].cur \notin ev'[w].batch
         /\ \/ StartEvaluation(w)
            \/ \A r \in ev'[w].batch :
                 r \in ev[w].batch /\ ev'[w].copy[r] = ev[w].copy[r]
<1>0. /\ ev \in [Workers -> Task] /\ ev[w] \in Task /\ ev[w].batch \subseteq Rules
      /\ NoRule \notin Rules
  BY ConstantsAssumption DEF TypeOK, Task
<1>1. CASE StartEvaluation(w)
  BY <1>0, <1>1 DEF StartEvaluation, IdleTask
<1>2. CASE FinishEvaluation(w) \/ Crash(w)
  BY <1>0, <1>2 DEF FinishEvaluation, Crash, IdleTask
<1>3. ASSUME NEW r \in Rules, SkipMuted(w, r)
      PROVE  /\ ev'[w].cur \notin ev'[w].batch
             /\ \A q \in ev'[w].batch : q \in ev[w].batch /\ ev'[w].copy[q] = ev[w].copy[q]
  BY <1>0, <1>3 DEF SkipMuted, Task
<1>4. ASSUME NEW r \in Rules, TakeUnmuted(w, r)
      PROVE  /\ ev'[w].cur \notin ev'[w].batch
             /\ \A q \in ev'[w].batch : q \in ev[w].batch /\ ev'[w].copy[q] = ev[w].copy[q]
  BY <1>0, <1>4 DEF TakeUnmuted, Task
<1>5. ASSUME NEW r \in Rules, ExpireMute(w, r)
      PROVE  /\ ev'[w].cur \notin ev'[w].batch
             /\ \A q \in ev'[w].batch : q \in ev[w].batch /\ ev'[w].copy[q] = ev[w].copy[q]
  <2>1. ev'[w].cur = r /\ ev'[w].batch = ev[w].batch \ {r}
    BY <1>0, <1>5 DEF ExpireMute, Task
  <2>2. \A q \in Rules \ {r} : ev'[w].copy[q] = ev[w].copy[q]
    BY <1>0, <1>5 DEF ExpireMute, Task
  <2> QED  BY <1>0, <2>1, <2>2
<1>6. CASE Measure(w)
  BY <1>0, <1>6 DEF Measure, NextRule, Task
<1>7. CASE LookupOpen(w)
  BY <1>0, <1>7 DEF LookupOpen, Task
<1>8. CASE LockOpen(w)
  BY <1>0, <1>8 DEF LockOpen, Task
<1>9. CASE TriggerNew(w)
  BY <1>0, <1>9 DEF TriggerNew, Task
<1>10. CASE \/ TriggerExisting(w) \/ Enqueue(w) \/ ResolveOpen(w) \/ ResolveNone(w)
            \/ EvaluationFails(w)
  BY <1>0, <1>10 DEF TriggerExisting, Enqueue, ResolveOpen, ResolveNone,
     EvaluationFails, NextRule, Task
<1> QED
  BY <1>1, <1>2, <1>3, <1>4, <1>5, <1>6, <1>7, <1>8, <1>9, <1>10 DEF EvaluatorStep

(* How a rule comes to show no alarm.                                      *)
LEMMA BecomesSilent ==
  ASSUME HandlerInv, [Next]_vars, UserOps \subseteq {"resolve", "delete"},
         NEW r \in Rules, rule'[r].status \in {"Active", "Muted"}
  PROVE  \/ rule'[r].status = rule[r].status
         \/ CreateRule(r)
         \/ \E w \in Workers :
              \/ ExpireMute(w, r)
              \/ ev[w].cur = r /\ (ResolveOpen(w) \/ ResolveNone(w))
<1>0. TypeOK /\ rule \in [Rules -> RuleRow] /\ rule[r] \in RuleRow
  BY DEF HandlerInv, TypeOK
<1>1. ASSUME NEW w \in Workers, EvaluatorStep(w) \/ EvaluationFails(w) \/ Crash(w)
      PROVE  \/ rule'[r].status = rule[r].status
             \/ ExpireMute(w, r)
             \/ ev[w].cur = r /\ (ResolveOpen(w) \/ ResolveNone(w))
  <2>1. ASSUME NEW q \in Rules, ExpireMute(w, q)
        PROVE  rule'[r].status = rule[r].status \/ ExpireMute(w, r)
    BY <1>0, <2>1 DEF ExpireMute
  <2>2. CASE TriggerExisting(w) \/ TriggerNew(w)
    BY <1>0, <2>2 DEF TriggerExisting, TriggerNew, RuleRow
  <2>3. CASE ResolveOpen(w) \/ ResolveNone(w)
    BY <1>0, <2>3 DEF ResolveOpen, ResolveNone
  <2> QED
    BY <1>1, <2>1, <2>2, <2>3 DEF EvaluatorStep, StartEvaluation, FinishEvaluation,
       SkipMuted, TakeUnmuted, Measure, LookupOpen, LockOpen, Enqueue, EvaluationFails, Crash
<1>2. ASSUME NEW u \in Users, SaveRule(u)
      PROVE  rule'[r].status = rule[r].status
  <2>1. /\ req[u].op \in {"resolve", "delete"} /\ req[u].rule \in Rules
        /\ req[u].op = "resolve" => req[u].row.status = "Resolved"
    BY <1>0, <1>2 DEF HandlerInv, RequestInv, SaveRule, TypeOK, RequestRefersToRows
  <2>2. CASE r = req[u].rule
    <3>1. rule'[r] = Saved(rule[r], req[u].row, UpdateFields(req[u].op))
      BY <1>0, <1>2, <2>2 DEF SaveRule
    <3>2. CASE req[u].op = "resolve"
      BY <2>1, <3>1, <3>2 DEF Saved, UpdateFields
    <3>3. CASE req[u].op = "delete"
      BY <3>1, <3>3 DEF Saved, UpdateFields
    <3> QED  BY <2>1, <3>2, <3>3
  <2>3. CASE r # req[u].rule
    BY <1>0, <1>2, <2>1, <2>3 DEF SaveRule
  <2> QED  BY <2>2, <2>3
<1>3. ASSUME NEW u \in Users, HandlerStep(u)
      PROVE  SaveRule(u) \/ UNCHANGED rule
  BY <1>3 DEF HandlerStep, PatchRule, MuteRule, ResolveRule, ReactivateRule,
     DeleteRule, Fetch, ListOpen, CloseHistory, FinishResolve, Abandon
<1>4. ASSUME NEW q \in Rules, CreateRule(q)
      PROVE  rule'[r].status = rule[r].status \/ CreateRule(r)
  BY <1>0, <1>4 DEF CreateRule
<1>5. ASSUME (\E q \in Rules : FlipCondition(q)) \/ Tick \/ UNCHANGED vars
      PROVE  UNCHANGED rule
  BY <1>5 DEF FlipCondition, Tick, vars
<1> QED
  BY <1>1, <1>2, <1>3, <1>4, <1>5 DEF Next

LEMMA ClearStep ==
  ASSUME \A v, w \in Workers : v = w, UserOps \subseteq {"resolve", "delete"},
         ClearInv, [Next]_vars
  PROVE  ClearInv'
<1>1. /\ TypeOK /\ TypeOK' /\ HandlerInv /\ HandlerInv' /\ LockInv /\ LockInv'
      /\ DistinctInv' /\ \A w \in Workers : OneInHand(w) /\ OneInHand(w)'
  BY TypeStep, HandlerInvStep, LockStep, DistinctStep, OneInHandStep
  DEF ClearInv, HandlerInv
<1>2. RowsExist /\ RowsExist'
  BY <1>1, RowsExistStep DEF ClearInv
<1>3. /\ ev \in [Workers -> Task] /\ \A w \in Workers : ev[w] \in Task
      /\ rule \in [Rules -> RuleRow] /\ history \in Seq(Incident)
  BY <1>1 DEF TypeOK
(* There is one task, so a rule has one open incident at most.             *)
<1>4. \A r \in Rules : \A g, h \in Open(r) : g = h
  <2>1. \A h \in DOMAIN history : history[h].by \in Workers
    <3>1. \A h \in DOMAIN history : history[h] \in Incident
      BY <1>3
    <3> QED  BY <3>1 DEF Incident
  <2> QED  BY <2>1 DEF ClearInv, DistinctInv, OpenByDistinctWorkers, Open
<1>5. ASSUME NEW r \in Rules, rule'[r].status \in {"Active", "Muted"}
      PROVE  Open(r)' = {}
  <2>1. Open(r)' \subseteq Open(r)
    <3>1. ASSUME NEW w \in Workers, TriggerNew(w), ev[w].cur = r
          PROVE  FALSE
      BY <1>3, <1>5, <3>1 DEF TriggerNew, RuleRow
    <3> QED  BY <1>1, <3>1, OpenGrows
  <2>2. CASE rule'[r].status = rule[r].status
    BY <1>5, <2>1, <2>2 DEF ClearInv, SilentIsClear
  <2>3. CASE CreateRule(r)
    BY <1>2, <2>1, <2>3 DEF CreateRule, RowsExist, Open
  <2>4. ASSUME NEW w \in Workers, ExpireMute(w, r)
        PROVE  Open(r) = {}
    BY <2>4 DEF ExpireMute, ClearInv, KnowsItsRules
  <2>5. ASSUME NEW w \in Workers, ResolveNone(w), ev[w].cur = r
        PROVE  Open(r) = {}
    <3>1. Open(r) \subseteq ev[w].hist /\ Matching(w) = {}
      BY <2>5 DEF ResolveNone, ClearInv, KnowsItsRules
    <3> QED  BY <3>1 DEF Matching, Open
  <2>6. ASSUME NEW w \in Workers, ResolveOpen(w), ev[w].cur = r
        PROVE  Open(r)' = {}
    <3>1. PICK h \in Nat : ev[w].hist = {h}
      BY <1>1, <2>6 DEF ResolveOpen, OneInHand
    <3>2. h \in DOMAIN history /\ Holds(w, h)
      BY <1>1, <2>6, <3>1 DEF ResolveOpen, Holds, TypeOK, TaskRefersToRows
    <3>3. h \in Open(r)
      BY <1>1, <2>6, <3>2 DEF LockInv, LockedIsOpen, Open
    <3>4. Open(r) \subseteq {h}
      BY <1>4, <3>3
    <3>5. history'[h].open = FALSE
      <4>1. history[h] \in Incident
        BY <1>3, <3>2
      <4>2. history'[h] = [history[h] EXCEPT !.open = FALSE]
        BY <2>6, <3>1, <3>2 DEF ResolveOpen
      <4> QED  BY <4>1, <4>2 DEF Incident
    <3> QED  BY <2>1, <3>4, <3>5 DEF Open
  <2> QED
    BY <1>1, <1>5, <2>1, <2>2, <2>3, <2>4, <2>5, <2>6, BecomesSilent
<1>6. SilentIsClear'
  BY <1>5 DEF SilentIsClear
<1>7. ASSUME NEW w \in Workers
      PROVE  KnowsItsRules(w)'
  <2>0. KnowsItsRules(w) /\ ev[w].batch \subseteq Rules
    BY <1>3 DEF ClearInv, Task
  <2>1. \A r \in Rules : Open(r)' \subseteq Open(r) \/ (TriggerNew(w) /\ ev[w].cur = r)
    BY <1>1, OpenGrows
  <2>2. CASE UNCHANGED ev[w]
    <3>1. ~ TriggerNew(w)
      BY <1>3, <2>2 DEF TriggerNew, Task
    <3>2. ev[w].pc = "resolving" => ev[w].cur \in Rules
      BY <1>1 DEF TypeOK, TaskRefersToRows
    <3> QED  BY <2>0, <2>1, <2>2, <3>1, <3>2 DEF KnowsItsRules
  <2>3. CASE EvaluatorStep(w) \/ EvaluationFails(w) \/ Crash(w)
    <3>1. /\ ev'[w].cur \notin ev'[w].batch
          /\ \/ StartEvaluation(w)
             \/ \A r \in ev'[w].batch :
                  r \in ev[w].batch /\ ev'[w].copy[r] = ev[w].copy[r]
      BY <1>1, <2>0, <2>3, BatchShrinks DEF KnowsItsRules
    <3>2. CASE ev'[w].pc = "resolving" /\ ~ UNCHANGED ev[w]
      <4>1. LookupOpen(w)
        BY <1>1, <3>2, TaskArrives
      <4>2. ev'[w].hist = Open(ev[w].cur) /\ ev'[w].cur = ev[w].cur /\ UNCHANGED history
        BY <1>3, <4>1 DEF LookupOpen, Task
      <4>3. Open(ev[w].cur)' \subseteq ev'[w].hist
        BY <4>2 DEF Open
      <4>4. ~ StartEvaluation(w)
        BY <4>1 DEF LookupOpen, StartEvaluation
      <4>5. \A r \in ev'[w].batch : ev'[w].copy[r].status = "Muted" => Open(r)' = {}
        BY <2>0, <3>1, <4>2, <4>4 DEF KnowsItsRules, Open
      <4> QED  BY <3>1, <4>3, <4>5 DEF KnowsItsRules
    <3>3. CASE StartEvaluation(w)
      <4>1. /\ ev'[w].pc = "loop" /\ ev'[w].copy = rule /\ ev'[w].batch \subseteq Rules
            /\ UNCHANGED history
        BY <1>3, <3>3 DEF StartEvaluation, IdleTask
      <4>2. \A r \in ev'[w].batch : ev'[w].copy[r].status = "Muted" => Open(r)' = {}
        BY <4>1 DEF ClearInv, SilentIsClear, Open
      <4> QED  BY <3>1, <4>1, <4>2 DEF KnowsItsRules
    <3>4. CASE ev'[w].pc # "resolving" /\ ~ StartEvaluation(w)
      <4>1. \A r \in ev'[w].batch : r \in Rules /\ Open(r)' \subseteq Open(r)
        BY <2>0, <2>1, <3>1, <3>4 DEF KnowsItsRules
      <4>2. \A r \in ev'[w].batch : ev'[w].copy[r].status = "Muted" => Open(r)' = {}
        BY <2>0, <3>1, <3>4, <4>1 DEF KnowsItsRules
      <4> QED  BY <3>1, <3>4, <4>2 DEF KnowsItsRules
    <3> QED  BY <2>2, <3>2, <3>3, <3>4
  <2> QED  BY <1>1, <2>2, <2>3, OwnStep
<1> QED
  BY <1>1, <1>2, <1>6, <1>7 DEF ClearInv

(* With one evaluation at a time and no handler that writes a status over  *)
(* an open incident (mute, reactivate, PATCH), a rule that shows no alarm  *)
(* has no open incident, in every state and not only between the tasks:    *)
(* what tests/test_backend.py:395-396 expect.  It is those handlers that   *)
(* AlertMuteExpiry needs.                                                  *)
THEOREM SilentRulesAreClear ==
  ASSUME \A v, w \in Workers : v = w, UserOps \subseteq {"resolve", "delete"}
  PROVE  Spec => [](SilentIsClear /\ ActiveHasNoOpenIncident)
<1>1. Init => ClearInv
  <2>1. Init => \A w \in Workers : OneInHand(w) /\ KnowsItsRules(w)
    BY DEF Init, OneInHand, KnowsItsRules, IdleTask
  <2>2. Init => SilentIsClear /\ RowsExist
    BY DEF Init, SilentIsClear, RowsExist, AtHand, IdleTask, Open
  <2> QED
    BY <2>1, <2>2, DistinctInit, LockInit, HandlerInit DEF ClearInv
<1>2. ClearInv /\ [Next]_vars => ClearInv'
  BY ClearStep
<1>3. ClearInv => SilentIsClear /\ ActiveHasNoOpenIncident
  BY DEF ClearInv, SilentIsClear, ActiveHasNoOpenIncident
<1> QED
  BY <1>1, <1>2, <1>3, PTL DEF Spec

-----------------------------------------------------------------------------
(* A rule has no more open incidents than evaluations run at once.         *)

(* OpenByDistinctWorkers, counted.                                         *)
THEOREM OpenAtMostWorkers ==
  ASSUME IsFiniteSet(Workers)
  PROVE  Spec => [](\A r \in Rules : Cardinality(Open(r)) <= Cardinality(Workers))
<1>1. DistinctInv => \A r \in Rules : Cardinality(Open(r)) <= Cardinality(Workers)
  <2> SUFFICES ASSUME DistinctInv, NEW r \in Rules
               PROVE  Cardinality(Open(r)) <= Cardinality(Workers)
    OBVIOUS
  <2>1. \A h \in Open(r) : history[h].by \in Workers
    <3>1. \A h \in Open(r) : history[h] \in Incident
      BY DEF DistinctInv, TypeOK, Open
    <3> QED  BY <3>1 DEF Incident
  <2>2. \A g, h \in Open(r) : history[g].by = history[h].by => g = h
    BY DEF DistinctInv, OpenByDistinctWorkers, Open
  <2> DEFINE opener == [h \in Open(r) |-> history[h].by]
  <2>3. opener \in Injection(Open(r), Workers)
    BY <2>1, <2>2 DEF Injection, IsInjective
  <2> QED  BY <2>3, FS_Injection
<1> QED
  BY <1>1, DistinctInit, DistinctStep, PTL DEF Spec

-----------------------------------------------------------------------------
(* The hand-over to the notification queue, and the incident log.          *)

(* What changes the log: an insert, a close or a hand-over.                *)
LEMMA LogChanges ==
  ASSUME [Next]_vars
  PROVE  \/ \E w \in Workers : TriggerNew(w) \/ ResolveOpen(w) \/ Enqueue(w)
         \/ \E u \in Users, h \in DOMAIN history : CloseHistory(u, h)
         \/ UNCHANGED <<history, queued>>
<1>1. ASSUME NEW w \in Workers, EvaluatorStep(w) \/ EvaluationFails(w) \/ Crash(w)
      PROVE  \/ TriggerNew(w) \/ ResolveOpen(w) \/ Enqueue(w)
             \/ UNCHANGED <<history, queued>>
  BY <1>1 DEF EvaluatorStep, StartEvaluation, FinishEvaluation, SkipMuted,
     ExpireMute, TakeUnmuted, Measure, LookupOpen, LockOpen, TriggerExisting,
     ResolveNone, EvaluationFails, Crash
<1>2. ASSUME NEW u \in Users, HandlerStep(u)
      PROVE  \/ \E h \in DOMAIN history : CloseHistory(u, h)
             \/ UNCHANGED <<history, queued>>
  BY <1>2 DEF HandlerStep, PatchRule, MuteRule, ResolveRule, ReactivateRule,
     DeleteRule, Fetch, SaveRule, ListOpen, FinishResolve, Abandon
<1>3. ASSUME \/ \E r \in Rules : CreateRule(r) \/ FlipCondition(r)
             \/ Tick \/ UNCHANGED vars
      PROVE  UNCHANGED <<history, queued>>
  BY <1>3 DEF CreateRule, FlipCondition, Tick, vars
<1> QED
  BY <1>1, <1>2, <1>3 DEF Next

LEMMA QueuedOnlyGrows ==
  ASSUME [Next]_vars
  PROVE  /\ queued \subseteq queued'
         /\ \A h \in queued' \ queued : \E w \in Workers : Enqueue(w) /\ h \in ev[w].hist
<1>1. ASSUME NEW w \in Workers, Enqueue(w)
      PROVE  queued' = queued \union ev[w].hist
  BY <1>1 DEF Enqueue
<1>2. ASSUME NEW w \in Workers, TriggerNew(w) \/ ResolveOpen(w)
      PROVE  queued' = queued
  BY <1>2 DEF TriggerNew, ResolveOpen
<1>3. ASSUME NEW u \in Users, NEW h \in DOMAIN history, CloseHistory(u, h)
      PROVE  queued' = queued
  BY <1>3 DEF CloseHistory
<1> QED
  BY <1>1, <1>2, <1>3, LogChanges

(* A new incident that is not queued yet is in the hand of its task.       *)
QueuedInv == TypeOK /\ IncidentIsQueued /\ \A w \in Workers : OneInHand(w)

(* Every incident is queued for delivery or its task is about to queue it, *)
(* as long as neither the broker nor the task fails at that point.         *)
THEOREM IncidentsAreQueued ==
  ASSUME Faults \intersect {"crash", "enqueue"} = {}
  PROVE  Spec => []IncidentIsQueued
<1>1. Init => QueuedInv
  BY InitType, IdleTypes DEF Init, QueuedInv, IncidentIsQueued, OneInHand
<1>2. QueuedInv /\ [Next]_vars => QueuedInv'
  <2> SUFFICES ASSUME QueuedInv, [Next]_vars
               PROVE  QueuedInv'
    OBVIOUS
  <2>1. TypeOK /\ TypeOK' /\ HistoryGrows /\ \A w \in Workers : OneInHand(w)'
    BY TypeStep, HistoryOnlyGrows, OneInHandStep DEF QueuedInv
  <2>2. ASSUME NEW h \in DOMAIN history' \ queued'
        PROVE  \E w \in Workers : ev'[w].pc = "notify" /\ h \in ev'[w].hist
    <3>1. CASE h \notin DOMAIN history
      <4>1. PICK w \in Workers : TriggerNew(w)
        BY <2>1, <3>1, HistoryOnlyGrows
      <4>2. ev'[w].pc = "notify" /\ ev'[w].hist = {Len(history) + 1}
        BY <2>1, <4>1 DEF TriggerNew, TypeOK, Task
      <4>3. h = Len(history) + 1
        BY <2>1, <3>1, <4>1 DEF TriggerNew, TypeOK
      <4> QED
        BY <4>2, <4>3
    <3>2. CASE h \in DOMAIN history
      <4>1. h \notin queued
        BY <2>1, <2>2, <3>2, QueuedOnlyGrows
      <4>2. PICK w \in Workers : ev[w].pc = "notify" /\ h \in ev[w].hist
        BY <3>2, <4>1 DEF QueuedInv, IncidentIsQueued
      <4>3. ~ Enqueue(w)
        BY <2>2, <4>2 DEF Enqueue
      <4>4. UNCHANGED ev[w]
        BY <2>1, <4>2, <4>3, OwnStep
        DEF EvaluatorStep, StartEvaluation, FinishEvaluation, SkipMuted, ExpireMute,
            TakeUnmuted, Measure, LookupOpen, LockOpen, TriggerExisting, TriggerNew,
            ResolveOpen, ResolveNone, EvaluationFails, Crash
      <4> QED
        BY <4>2, <4>4
    <3> QED
      BY <3>1, <3>2
  <2> QED
    BY <2>1, <2>2 DEF QueuedInv, IncidentIsQueued
<1>3. QueuedInv => IncidentIsQueued
  BY DEF QueuedInv
<1> QED
  BY <1>1, <1>2, <1>3, PTL DEF Spec

(* A task that is about to queue an incident opened it, and it is not      *)
(* queued yet: two tasks never queue the same one.                         *)
QueuesOwn(w) ==
  ev[w].pc = "notify" =>
    \A h \in ev[w].hist : h \in DOMAIN history \ queued /\ history[h].by = w

LogInv ==
  /\ DistinctInv /\ LockInv
  /\ \A w \in Workers : OneInHand(w) /\ QueuesOwn(w)

LEMMA LogInvStep == LogInv /\ [Next]_vars => LogInv'
<1> SUFFICES ASSUME LogInv, [Next]_vars
             PROVE  LogInv'
  OBVIOUS
<1>1. /\ TypeOK /\ TypeOK' /\ HistoryGrows /\ DistinctInv' /\ LockInv'
      /\ \A w \in Workers : OneInHand(w)'
  BY TypeStep, HistoryOnlyGrows, OneInHandStep, DistinctStep, LockStep
  DEF LogInv, DistinctInv
<1>2. ASSUME NEW w \in Workers
      PROVE  QueuesOwn(w)'
  <2>1. CASE TriggerNew(w)
    <3>1. /\ ev'[w].hist = {Len(history) + 1} /\ UNCHANGED queued
          /\ Len(history) + 1 \in DOMAIN history' \ DOMAIN history
          /\ history'[Len(history) + 1].by = w
      BY <1>1, <2>1 DEF TriggerNew, TypeOK, Task
    <3> QED
      BY <1>1, <3>1 DEF QueuesOwn, TypeOK
  <2>2. CASE UNCHANGED ev[w] /\ ev[w].pc = "notify"
    <3>1. \A h \in ev[w].hist : h \in DOMAIN history \ queued /\ history[h].by = w
      BY <2>2 DEF LogInv, QueuesOwn
    <3>2. \A h \in ev[w].hist : h \notin queued'
      <4> SUFFICES ASSUME NEW h \in ev[w].hist, h \in queued'
                   PROVE  FALSE
        OBVIOUS
      <4>1. PICK v \in Workers : Enqueue(v) /\ h \in ev[v].hist
        BY <1>1, <3>1, QueuedOnlyGrows
      <4>2. history[h].by = v
        BY <4>1 DEF LogInv, QueuesOwn, Enqueue
      <4> QED
        BY <1>1, <2>2, <3>1, <4>1, <4>2 DEF Enqueue, NextRule, TypeOK, Task
    <3> QED
      BY <1>1, <2>2, <3>1, <3>2 DEF QueuesOwn, HistoryGrows
  <2>3. CASE ev'[w].pc # "notify"
    BY <2>3 DEF QueuesOwn
  <2> QED
    BY <1>1, <2>1, <2>2, <2>3, TaskArrives
<1> QED
  BY <1>1, <1>2 DEF LogInv

(* AlertLifecycle implements IncidentLog: a step of the system appends one *)
(* incident, closes one, queues one, or leaves the log as it is.           *)
LEMMA LogStep == LogInv /\ [Next]_vars => [Log!Next]_(Log!logVars)
<1> SUFFICES ASSUME LogInv, [Next]_vars
             PROVE  Log!Next \/ UNCHANGED <<history, queued>>
  BY DEF Log!logVars
<1>1. TypeOK /\ LockInv /\ history \in Seq(Incident)
  BY DEF LogInv, LockInv, TypeOK
<1>2. ASSUME NEW w \in Workers, TriggerNew(w)
      PROVE  Log!Next
  <2>1. Log!Open(ev[w].cur, w)
    BY <1>2 DEF LogInv, DistinctInv, KnowsOwnIncidents, TriggerNew, Matching, Open, Log!Open
  <2> QED
    BY <1>1, <1>2, <2>1 DEF TriggerNew, TypeOK, TaskRefersToRows, Log!Next
<1>3. ASSUME NEW w \in Workers, ResolveOpen(w)
      PROVE  Log!Next
  <2>1. PICK h \in Nat : ev[w].hist = {h}
    BY <1>3 DEF LogInv, OneInHand, ResolveOpen
  <2>2. h \in DOMAIN history /\ history[h].open
    BY <1>1, <1>3, <2>1
    DEF ResolveOpen, TypeOK, TaskRefersToRows, LockInv, LockedIsOpen, Holds
  <2>3. history' = [history EXCEPT ![h].open = FALSE]
    <3>3. \A g \in DOMAIN history :
            history'[g] = IF g = h THEN [history[g] EXCEPT !.open = FALSE] ELSE history[g]
      BY <1>3, <2>1 DEF ResolveOpen
    <3>4. history' = [g \in DOMAIN history |-> history'[g]]
      BY <1>3 DEF ResolveOpen
    <3>5. history = [g \in DOMAIN history |-> history[g]]
      BY <1>1
    <3> QED
      BY ONLY <2>2, <3>3, <3>4, <3>5
  <2> QED
    BY <1>3, <2>2, <2>3 DEF ResolveOpen, Log!Next, Log!Close
<1>4. ASSUME NEW u \in Users, NEW h \in DOMAIN history, CloseHistory(u, h)
      PROVE  Log!Next \/ UNCHANGED <<history, queued>>
  <2>1. CASE history[h].open
    BY <1>4, <2>1 DEF CloseHistory, Log!Next, Log!Close
  <2>2. CASE ~ history[h].open
    <3>1. history[h] \in Incident
      BY <1>1, <1>4
    <3>2. [history[h] EXCEPT !.open = FALSE] = history[h]
      BY <2>2, <3>1 DEF Incident
    <3>3. history' = [history EXCEPT ![h] = history[h]] /\ UNCHANGED queued
      BY <1>4, <3>2 DEF CloseHistory
    <3> QED
      BY <1>1, <3>3
  <2> QED
    BY <2>1, <2>2
<1>5. ASSUME NEW w \in Workers, Enqueue(w)
      PROVE  Log!Next
  <2>1. PICK h \in Nat : ev[w].hist = {h}
    BY <1>5 DEF LogInv, OneInHand, Enqueue
  <2>2. h \in DOMAIN history \ queued
    BY <1>5, <2>1 DEF LogInv, QueuesOwn, Enqueue
  <2> QED
    BY <1>5, <2>1, <2>2 DEF Enqueue, Log!Next, Log!Notify
<1>6. CASE UNCHANGED <<history, queued>>
  BY <1>6
<1> QED
  BY <1>2, <1>3, <1>4, <1>5, <1>6, LogChanges

(* However the tasks and handlers interleave and fail, every step does to  *)
(* the incidents and the queue what the log allows, or nothing.            *)
THEOREM Refinement == Spec => ImplementsIncidentLog
<1>1. Init => LogInv /\ Log!Init
  BY DistinctInit, LockInit, IdleTypes
  DEF Init, LogInv, OneInHand, QueuesOwn, Log!Init
<1> QED
  BY <1>1, LogInvStep, LogStep, PTL DEF Spec, ImplementsIncidentLog, Log!Spec

(* What the notifications rely on (alerts/tasks.py:170): an incident is    *)
(* handed over after its row is committed, each once and each for itself,  *)
(* so that it has one delivery task; it is never deleted or reopened, nor  *)
(* given to another rule, so that an attempt finds it whenever it runs.    *)
HandedOverOnce ==
  /\ HistoryGrows
  /\ queued' # queued =>
       \E h \in DOMAIN history \ queued : queued' = queued \union {h}

THEOREM IncidentsAreHandedOverOnce == Spec => [][HandedOverOnce]_vars
<1>1. Init => LogInv
  BY DistinctInit, LockInit, IdleTypes DEF Init, LogInv, OneInHand, QueuesOwn
<1>2. LogInv /\ [Next]_vars => HandedOverOnce
  <2> SUFFICES ASSUME LogInv, [Next]_vars PROVE HandedOverOnce
    OBVIOUS
  <2>1. HistoryGrows
    BY HistoryOnlyGrows DEF LogInv, DistinctInv
  <2>2. ASSUME queued' # queued
        PROVE  \E h \in DOMAIN history \ queued : queued' = queued \union {h}
    <3>1. PICK w \in Workers : Enqueue(w)
      BY <2>2, LogChanges DEF TriggerNew, ResolveOpen, CloseHistory
    <3>2. PICK h \in Nat : ev[w].hist = {h}
      BY <3>1 DEF LogInv, OneInHand, Enqueue
    <3>3. h \in DOMAIN history \ queued
      BY <3>1, <3>2 DEF LogInv, QueuesOwn, Enqueue
    <3> QED  BY <3>1, <3>2, <3>3 DEF Enqueue
  <2> QED  BY <2>1, <2>2 DEF HandedOverOnce
<1> QED  BY <1>1, <1>2, LogInvStep, PTL DEF Spec

-----------------------------------------------------------------------------
(* The way an evaluation has left: rules, and the stage of the one at hand. *)

Stage(pc) ==
  CASE pc = "measure" -> 5 [] pc \in {"trigger", "resolve"} -> 4
    [] pc \in {"triggering", "resolving"} -> 3
    [] pc \in {"existing", "close", "notify"} -> 2 [] pc = "loop" -> 1 [] OTHER -> 0

RulesLeft(w) == Cardinality(ev[w].batch)

(* In the lexicographic order of two natural numbers a step of the task    *)
(* goes down, unless it starts the next evaluation; no other step moves it. *)
EvaluationNearer(w) ==
  /\ RulesLeft(w)' \in Nat /\ Stage(ev[w].pc)' \in 0 .. 5
  /\ \/ RulesLeft(w)' < RulesLeft(w)
     \/ RulesLeft(w)' = RulesLeft(w) /\ Stage(ev[w].pc)' < Stage(ev[w].pc)

EvaluationsComeNearer ==
  \A w \in Workers : ev'[w] # ev[w] => StartEvaluation(w) \/ EvaluationNearer(w)

LEMMA TaskNearer ==
  ASSUME IsFiniteSet(Rules), TypeOK, NEW w \in Workers,
         EvaluatorStep(w) \/ EvaluationFails(w) \/ Crash(w), ~ StartEvaluation(w)
  PROVE  EvaluationNearer(w)
<1>1. /\ ev[w] \in Task /\ ev[w].batch \subseteq Rules /\ IsFiniteSet(ev[w].batch)
      /\ RulesLeft(w) \in Nat /\ DOMAIN ev = Workers
  <2>1. ev[w] \in Task /\ ev[w].batch \subseteq Rules /\ DOMAIN ev = Workers
    BY DEF TypeOK, Task
  <2>2. IsFiniteSet(ev[w].batch)
    BY <2>1, FS_Subset
  <2> QED  BY <2>1, <2>2, FS_CardinalityType DEF RulesLeft
(* A rule leaves the batch, to be evaluated or left alone.                 *)
<1>2. ASSUME NEW r \in Rules, SkipMuted(w, r) \/ ExpireMute(w, r) \/ TakeUnmuted(w, r)
      PROVE  EvaluationNearer(w)
  <2>1. r \in ev[w].batch /\ ev'[w].batch = ev[w].batch \ {r}
    BY <1>1, <1>2 DEF SkipMuted, ExpireMute, TakeUnmuted, Task
  <2>2. Cardinality(ev[w].batch \ {r}) = Cardinality(ev[w].batch) - 1
    BY <1>1, <2>1, FS_RemoveElement
  <2>3. IsFiniteSet(ev[w].batch \ {r})
    BY <1>1, FS_Subset
  <2>4. Cardinality(ev[w].batch \ {r}) \in Nat
    BY <2>3, FS_CardinalityType
  <2>5. Stage(ev[w].pc)' \in 0 .. 5
    BY DEF Stage
  <2> QED  BY <1>1, <2>1, <2>2, <2>4, <2>5 DEF EvaluationNearer, RulesLeft
(* The rule at hand goes its way.                                          *)
<1>3. ASSUME ev'[w].batch = ev[w].batch,
             \/ ev[w].pc = "measure" /\ ev'[w].pc \in {"trigger", "resolve", "loop"}
             \/ ev[w].pc \in {"trigger", "resolve"}
                  /\ ev'[w].pc \in {"triggering", "resolving", "loop"}
             \/ ev[w].pc \in {"triggering", "resolving"}
                  /\ ev'[w].pc \in {"existing", "close", "notify", "loop"}
             \/ ev[w].pc \in {"existing", "close", "notify"} /\ ev'[w].pc = "loop"
      PROVE  EvaluationNearer(w)
  <2>1. Stage(ev[w].pc)' < Stage(ev[w].pc) /\ Stage(ev[w].pc)' \in 0 .. 5
    BY <1>3 DEF Stage
  <2> QED  BY <1>1, <1>3, <2>1 DEF EvaluationNearer, RulesLeft
<1>4. CASE Measure(w)
  BY <1>1, <1>3, <1>4 DEF Measure, NextRule, Task
<1>5. CASE LookupOpen(w) \/ LockOpen(w)
  <2>1. CASE LookupOpen(w)
    BY <1>1, <1>3, <2>1 DEF LookupOpen, Task
  <2>2. CASE LockOpen(w)
    BY <1>1, <1>3, <2>2 DEF LockOpen, Task
  <2> QED  BY <1>5, <2>1, <2>2
<1>6. CASE TriggerNew(w)
  BY <1>1, <1>3, <1>6 DEF TriggerNew, Task
<1>7. CASE TriggerExisting(w) \/ Enqueue(w) \/ ResolveOpen(w) \/ ResolveNone(w)
  BY <1>1, <1>3, <1>7 DEF TriggerExisting, Enqueue, ResolveOpen, ResolveNone, NextRule, Task
<1>8. CASE EvaluationFails(w)
  <2>1. ev[w].pc \notin {"idle", "loop"} /\ ev[w].pc \in TaskPCs
    BY <1>1, <1>8 DEF EvaluationFails, Task
  <2>2. ev'[w].pc = "loop" /\ ev'[w].batch = ev[w].batch
    BY <1>1, <1>8 DEF EvaluationFails, NextRule, Task
  <2> QED  BY <1>3, <2>1, <2>2 DEF TaskPCs
(* The evaluation ends, or its worker dies.                                *)
<1>9. CASE FinishEvaluation(w) \/ Crash(w)
  <2>1. ev'[w].batch = {} /\ ev'[w].pc = "idle" /\ ev[w].pc # "idle" /\ ev[w].pc \in TaskPCs
    BY <1>1, <1>9 DEF FinishEvaluation, Crash, IdleTask, Task
  <2>2. RulesLeft(w)' = 0
    BY <2>1, FS_EmptySet DEF RulesLeft
  <2>3. Stage(ev[w].pc)' < Stage(ev[w].pc) /\ Stage(ev[w].pc)' \in 0 .. 5
    BY <2>1 DEF Stage, TaskPCs
  <2> QED  BY <1>1, <2>2, <2>3 DEF EvaluationNearer
<1> QED
  BY <1>2, <1>4, <1>5, <1>6, <1>7, <1>8, <1>9 DEF EvaluatorStep

(* An evaluation works off the rules it has fetched and ends: rules        *)
(* created, changed or triggered meanwhile do not prolong it, and a rule   *)
(* that fails does not hold up the next (alerts/tasks.py:228-241).         *)
THEOREM EvaluationsTerminate ==
  ASSUME IsFiniteSet(Rules) PROVE Spec => [][EvaluationsComeNearer]_vars
<1>1. TypeOK /\ [Next]_vars => [EvaluationsComeNearer]_vars
  <2> SUFFICES ASSUME TypeOK, [Next]_vars, NEW w \in Workers, ev'[w] # ev[w],
                      ~ StartEvaluation(w)
               PROVE  EvaluationNearer(w)
    BY DEF EvaluationsComeNearer
  <2>1. EvaluatorStep(w) \/ EvaluationFails(w) \/ Crash(w)
    BY OwnStep
  <2> QED  BY <2>1, TaskNearer
<1> QED
  BY <1>1, TypeCorrect, PTL DEF Spec
=============================================================================
