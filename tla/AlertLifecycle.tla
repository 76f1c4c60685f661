--------------------------- MODULE AlertLifecycle ---------------------------
(***************************************************************************)
(* Alert rules and their incidents: the evaluation tasks of alerts/tasks.py *)
(* running next to the request handlers of alerts/views.py, over rows of a *)
(* PostgreSQL database at READ COMMITTED (no ATOMIC_REQUESTS).  A step is  *)
(* one committed statement or one committed transaction; what a task or a  *)
(* handler read earlier stays in its in-memory copy.  The rules are those  *)
(* of one organization: the beat task is a loop over organizations of the  *)
(* per-organization evaluation.                                            *)
(***************************************************************************)
EXTENDS Naturals, Sequences

CONSTANTS
  Rules,           \* alert rules of the organization
  Workers,         \* evaluation tasks that may run at the same time
  Users,           \* request handlers that may run at the same time
  NoRule,          \* "no rule": the task or handler is between rules
  Deadlines,       \* values of muted_until, as points of time
  NoDeadline,      \* muted_until is NULL
  ClientStatuses,  \* statuses the clients send in POST and PATCH bodies
  UserOps,         \* the handlers in use, a subset of Operations
  Faults,          \* the failures that happen, a subset of FaultKinds
  MaxTime,         \* bound: the clock stops here
  MaxInputs        \* bound: requests, condition changes and failures in all

Statuses   == {"Active", "Triggered", "Resolved", "Muted"}
Operations == {"patch", "mute", "resolve", "reactivate", "delete"}
FaultKinds == {"crash", "error", "enqueue", "abandon"}
MuteTimes  == Deadlines \union {NoDeadline}

ASSUME ConstantsAssumption ==
  /\ NoRule \notin Rules
  /\ Deadlines \subseteq Nat /\ NoDeadline \notin Nat
  /\ ClientStatuses \subseteq Statuses
  /\ UserOps \subseteq Operations
  /\ Faults \subseteq FaultKinds
  /\ MaxTime \in Nat /\ MaxInputs \in Nat

VARIABLES
  rule,     \* the alert_rule table
  history,  \* the alert_history table, in commit order; .by is the task that
            \* inserted the row (a history variable, not a column)
  byHand,   \* histories that a resolve handler has saved (history variable)
  queued,   \* histories whose deliver_notification_task was enqueued
  cond,     \* does the metric match the rule's condition now?
  now,      \* the clock
  budget,   \* inputs that may still happen
  ev,       \* evaluation tasks: pc, rules left, rows as fetched, rule and
            \* histories at hand
  req       \* request handlers: pc, operation, rule, row in memory and
            \* histories still to close

vars == <<rule, history, byHand, queued, cond, now, budget, ev, req>>

RuleRow == [life : {"absent", "alive", "deleted"}, status : Statuses,
            enabled : BOOLEAN, mutedUntil : MuteTimes]

Incident == [rule : Rules, open : BOOLEAN, by : Workers]

(* Before the INSERT.                                                      *)
AbsentRow == [life |-> "absent", status |-> "Active", enabled |-> TRUE,
              mutedUntil |-> NoDeadline]

TaskPCs == {"idle", "loop", "measure", "trigger", "triggering", "existing",
            "notify", "resolve", "resolving", "close"}

IdleTask == [pc |-> "idle", batch |-> {}, copy |-> [r \in Rules |-> AbsentRow],
             cur |-> NoRule, hist |-> {}]

IdleRequest == [pc |-> "idle", op |-> "none", rule |-> NoRule,
                row |-> AbsentRow, close |-> {}]

Open(r) == {h \in DOMAIN history : history[h].open /\ history[h].rule = r}

(* Mutant: the lookups are plain SELECTs.                                  *)
NeverLocked(h) == FALSE

(* The row lock of SELECT ... FOR UPDATE, held until the task commits.     *)
Holds(w, h) == ev[w].pc \in {"existing", "close"} /\ h \in ev[w].hist
Locked(h) == \E w \in Workers : Holds(w, h)

Init ==
  /\ rule = [r \in Rules |-> AbsentRow]
  /\ history = <<>> /\ byHand = {}
  /\ queued = {}
  /\ cond \in [Rules -> BOOLEAN]
  /\ now = 0
  /\ budget = MaxInputs
  /\ ev = [w \in Workers |-> IdleTask]
  /\ req = [u \in Users |-> IdleRequest]

Spend == budget > 0 /\ budget' = budget - 1

-----------------------------------------------------------------------------
(* The evaluation task.                                                    *)

(* Mutant: muted rules are left out by the query, not by is_muted.         *)
StartWithoutMuted(w) ==
  /\ ev[w].pc = "idle"
  /\ ev' = [ev EXCEPT
       ![w] = [IdleTask EXCEPT
                 !.pc = "loop",
                 !.copy = rule,
                 !.batch = {r \in Rules : /\ rule[r].life = "alive"
                                          /\ rule[r].enabled
                                          /\ rule[r].status \notin {"Resolved", "Muted"}}]]
  /\ UNCHANGED <<rule, history, byHand, queued, cond, now, budget, req>>

(* The queryset is fetched once, before the loop.                          *)
StartEvaluation(w) ==
  /\ ev[w].pc = "idle"
  /\ ev' = [ev EXCEPT
       ![w] = [IdleTask EXCEPT
                 !.pc = "loop",
                 !.copy = rule,
                 !.batch = {r \in Rules : /\ rule[r].life = "alive"
                                          /\ rule[r].enabled
                                          /\ rule[r].status # "Resolved"}]]
  /\ UNCHANGED <<rule, history, byHand, queued, cond, now, budget, req>>

Expired(row) == row.mutedUntil # NoDeadline /\ row.mutedUntil <= now

(* A disabled rule is never in the batch, so that half of evaluate_rule's   *)
(* early return does not occur.                                            *)
SkipMuted(w, r) ==
  /\ ev[w].pc = "loop" /\ r \in ev[w].batch
  /\ ev[w].copy[r].status = "Muted" /\ ~ Expired(ev[w].copy[r])
  /\ ev' = [ev EXCEPT ![w].batch = @ \ {r}]
  /\ UNCHANGED <<rule, history, byHand, queued, cond, now, budget, req>>

(* The copy decides, the table is written: whatever was saved since the    *)
(* fetch is overwritten.                                                   *)
ExpireMute(w, r) ==
  /\ ev[w].pc = "loop" /\ r \in ev[w].batch
  /\ ev[w].copy[r].status = "Muted" /\ Expired(ev[w].copy[r])
  /\ rule' = [rule EXCEPT ![r].status = "Active", ![r].mutedUntil = NoDeadline]
  /\ ev' = [ev EXCEPT ![w].pc = "measure", ![w].cur = r, ![w].batch = @ \ {r},
                      ![w].copy[r].status = "Active",
                      ![w].copy[r].mutedUntil = NoDeadline]
  /\ UNCHANGED <<history, byHand, queued, cond, now, budget, req>>

TakeUnmuted(w, r) ==
  /\ ev[w].pc = "loop" /\ r \in ev[w].batch
  /\ ev[w].copy[r].status # "Muted"
  /\ ev' = [ev EXCEPT ![w].pc = "measure", ![w].cur = r, ![w].batch = @ \ {r}]
  /\ UNCHANGED <<rule, history, byHand, queued, cond, now, budget, req>>

(* The three outcomes of the metric query: trigger, resolve, or nothing to *)
(* do but to save last_evaluated_at.                                       *)
NextRule(w) == [ev EXCEPT ![w].pc = "loop", ![w].cur = NoRule, ![w].hist = {}]

Measure(w) ==
  LET r == ev[w].cur IN
  /\ ev[w].pc = "measure"
  /\ \/ cond[r] /\ ev' = [ev EXCEPT ![w].pc = "trigger"]
     \/ /\ ~ cond[r] /\ ev[w].copy[r].status = "Triggered"
        /\ ev' = [ev EXCEPT ![w].pc = "resolve"]
     \/ /\ ~ cond[r] /\ ev[w].copy[r].status # "Triggered"
        /\ ev' = NextRule(w)
  /\ UNCHANGED <<rule, history, byHand, queued, cond, now, budget, req>>

(* Mutant: a rule fetched as not Triggered is taken to have no incident.   *)
LookupByStatus(w) ==
  /\ ev[w].pc \in {"trigger", "resolve"}
  /\ ev' = [ev EXCEPT
       ![w].hist = IF ev[w].copy[ev[w].cur].status = "Triggered"
                   THEN Open(ev[w].cur) ELSE {},
       ![w].pc = IF @ = "trigger" THEN "triggering" ELSE "resolving"]
  /\ UNCHANGED <<rule, history, byHand, queued, cond, now, budget, req>>

(* SELECT ... FOR UPDATE reads its snapshot, waits for the lock of the     *)
(* first row and skips the rows that no longer match when it gets there.   *)
(* A row inserted after the snapshot is not seen.                          *)
LookupOpen(w) ==
  /\ ev[w].pc \in {"trigger", "resolve"}
  /\ ev' = [ev EXCEPT
       ![w].hist = Open(ev[w].cur),
       ![w].pc = IF @ = "trigger" THEN "triggering" ELSE "resolving"]
  /\ UNCHANGED <<rule, history, byHand, queued, cond, now, budget, req>>

Matching(w) == {h \in ev[w].hist : history[h].open}

(* Rows are ordered by triggered_at, which two tasks may take in one order *)
(* and commit in the other: any matching row may come first.               *)
LockOpen(w) ==
  /\ ev[w].pc \in {"triggering", "resolving"}
  /\ \E h \in Matching(w) :
       /\ ~ Locked(h)
       /\ ev' = [ev EXCEPT
            ![w].hist = {h},
            ![w].pc = IF @ = "triggering" THEN "existing" ELSE "close"]
  /\ UNCHANGED <<rule, history, byHand, queued, cond, now, budget, req>>

(* Mutant: an open incident is returned before the rule is saved.          *)
ReturnExisting(w) ==
  /\ ev[w].pc = "existing"
  /\ ev' = NextRule(w)
  /\ UNCHANGED <<rule, history, byHand, queued, cond, now, budget, req>>

TriggerExisting(w) ==
  /\ ev[w].pc = "existing"
  /\ rule' = [rule EXCEPT ![ev[w].cur].status = "Triggered"]
  /\ ev' = NextRule(w)
  /\ UNCHANGED <<history, byHand, queued, cond, now, budget, req>>

(* Mutant: the notification is sent though the INSERT was rolled back.     *)
TriggerRolledBack(w) ==
  /\ ev[w].pc = "triggering" /\ Matching(w) = {}
  /\ ev' = [ev EXCEPT ![w].pc = "notify", ![w].hist = {Len(history) + 1}]
  /\ UNCHANGED <<rule, history, byHand, queued, cond, now, budget, req>>

TriggerNew(w) ==
  /\ ev[w].pc = "triggering" /\ Matching(w) = {}
  /\ history' = Append(history, [rule |-> ev[w].cur, open |-> TRUE, by |-> w])
  /\ rule' = [rule EXCEPT ![ev[w].cur].status = "Triggered"]
  /\ ev' = [ev EXCEPT ![w].pc = "notify", ![w].hist = {Len(history) + 1}]
  /\ UNCHANGED <<byHand, queued, cond, now, budget, req>>

(* Mutant: the callback re-reads the rule and drops what is not Triggered. *)
EnqueueIfTriggered(w) ==
  /\ ev[w].pc = "notify"
  /\ queued' = IF rule[ev[w].cur].status = "Triggered"
               THEN queued \union ev[w].hist ELSE queued
  /\ ev' = NextRule(w)
  /\ UNCHANGED <<rule, history, byHand, cond, now, budget, req>>

(* transaction.on_commit, after the incident is committed.                 *)
Enqueue(w) ==
  /\ ev[w].pc = "notify"
  /\ queued' = queued \union ev[w].hist
  /\ ev' = NextRule(w)
  /\ UNCHANGED <<rule, history, byHand, cond, now, budget, req>>

ResolveOpen(w) ==
  /\ ev[w].pc = "close"
  /\ history' = [h \in DOMAIN history |->
                   IF h \in ev[w].hist THEN [history[h] EXCEPT !.open = FALSE]
                                       ELSE history[h]]
  /\ rule' = [rule EXCEPT ![ev[w].cur].status = "Active"]
  /\ ev' = NextRule(w)
  /\ UNCHANGED <<byHand, queued, cond, now, budget, req>>

(* Mutant: nothing to resolve, nothing saved.                              *)
ReturnNone(w) ==
  /\ ev[w].pc = "resolving" /\ Matching(w) = {}
  /\ ev' = NextRule(w)
  /\ UNCHANGED <<rule, history, byHand, queued, cond, now, budget, req>>

ResolveNone(w) ==
  /\ ev[w].pc = "resolving" /\ Matching(w) = {}
  /\ rule' = [rule EXCEPT ![ev[w].cur].status = "Active"]
  /\ ev' = NextRule(w)
  /\ UNCHANGED <<history, byHand, queued, cond, now, budget, req>>

FinishEvaluation(w) ==
  /\ ev[w].pc = "loop" /\ ev[w].batch = {}
  /\ ev' = [ev EXCEPT ![w] = IdleTask]
  /\ UNCHANGED <<rule, history, byHand, queued, cond, now, budget, req>>

EvaluatorStep(w) ==
  \/ StartEvaluation(w) \/ FinishEvaluation(w)
  \/ \E r \in Rules : SkipMuted(w, r) \/ ExpireMute(w, r) \/ TakeUnmuted(w, r)
  \/ Measure(w) \/ LookupOpen(w) \/ LockOpen(w)
  \/ TriggerExisting(w) \/ TriggerNew(w) \/ Enqueue(w)
  \/ ResolveOpen(w) \/ ResolveNone(w)

(* An exception while a rule is evaluated rolls its transaction back, is   *)
(* logged, and the loop goes on with the next rule.  The exception of an   *)
(* on_commit callback comes after the commit.                              *)
EvaluationFails(w) ==
  /\ \/ "error" \in Faults /\ ev[w].pc \notin {"idle", "loop", "notify"}
     \/ "enqueue" \in Faults /\ ev[w].pc = "notify"
  /\ Spend
  /\ ev' = NextRule(w)
  /\ UNCHANGED <<rule, history, byHand, queued, cond, now, req>>

(* The task was acknowledged when it was taken: it is not run again.       *)
Crash(w) ==
  /\ "crash" \in Faults /\ ev[w].pc # "idle"
  /\ Spend
  /\ ev' = [ev EXCEPT ![w] = IdleTask]
  /\ UNCHANGED <<rule, history, byHand, queued, cond, now, req>>

-----------------------------------------------------------------------------
(* The request handlers.                                                   *)

(* POST: a single INSERT; status, enabled and mutedUntil are writable.     *)
CreateRule(r) ==
  /\ rule[r].life = "absent"
  /\ \E s \in ClientStatuses \union {"Active"}, e \in BOOLEAN, d \in MuteTimes :
       rule' = [rule EXCEPT ![r] = [life |-> "alive", status |-> s,
                                    enabled |-> e, mutedUntil |-> d]]
  /\ UNCHANGED <<history, byHand, queued, cond, now, budget, ev, req>>

(* get_object_or_404, then the handler changes its copy of the row.        *)
Fetch(u, r, op, row) ==
  /\ op \in UserOps
  /\ req[u].pc = "idle"
  /\ rule[r].life = "alive"
  /\ Spend
  /\ req' = [req EXCEPT ![u] = [pc |-> "save", op |-> op, rule |-> r,
                                row |-> row, close |-> {}]]
  /\ UNCHANGED <<rule, history, byHand, queued, cond, now, ev>>

PatchRule(u, r) ==
  \E s \in ClientStatuses \union {rule[r].status}, e \in BOOLEAN, d \in MuteTimes :
    Fetch(u, r, "patch", [rule[r] EXCEPT !.status = s, !.enabled = e,
                                         !.mutedUntil = d])

(* Without a deadline in the body the old one stays; one that does not     *)
(* parse becomes NULL.                                                     *)
MuteRule(u, r) ==
  \E d \in MuteTimes :
    Fetch(u, r, "mute", [rule[r] EXCEPT !.status = "Muted", !.mutedUntil = d])

ResolveRule(u, r) ==
  Fetch(u, r, "resolve", [rule[r] EXCEPT !.status = "Resolved"])

ReactivateRule(u, r) ==
  Fetch(u, r, "reactivate", [rule[r] EXCEPT !.status = "Active",
                               !.enabled = TRUE, !.mutedUntil = NoDeadline])

DeleteRule(u, r) ==
  Fetch(u, r, "delete", [rule[r] EXCEPT !.life = "deleted"])

(* Mutant: the mute handler calls save() without update_fields.            *)
UpdateAllOnMute(op) ==
  CASE op \in {"patch", "mute"} -> {"life", "status", "enabled", "mutedUntil"}
    [] op = "resolve"    -> {"status"}
    [] op = "reactivate" -> {"status", "enabled", "mutedUntil"}
    [] op = "delete"     -> {"life"}

(* save(update_fields=...); the serializer of PATCH saves every column,    *)
(* deleted_at with them.                                                   *)
UpdateFields(op) ==
  CASE op = "patch"      -> {"life", "status", "enabled", "mutedUntil"}
    [] op = "mute"       -> {"status", "mutedUntil"}
    [] op = "resolve"    -> {"status"}
    [] op = "reactivate" -> {"status", "enabled", "mutedUntil"}
    [] op = "delete"     -> {"life"}

Saved(row, copy, fields) ==
  LET Of(f, new, old) == IF f \in fields THEN new ELSE old IN
  [life       |-> Of("life", copy.life, row.life),
   status     |-> Of("status", copy.status, row.status),
   enabled    |-> Of("enabled", copy.enabled, row.enabled),
   mutedUntil |-> Of("mutedUntil", copy.mutedUntil, row.mutedUntil)]

SaveRule(u) ==
  /\ req[u].pc = "save"
  /\ rule' = [rule EXCEPT ![req[u].rule] =
                Saved(@, req[u].row, UpdateFields(req[u].op))]
  /\ req' = [req EXCEPT ![u] = IF req[u].op = "resolve"
                               THEN [@ EXCEPT !.pc = "list"]
                               ELSE IdleRequest]
  /\ UNCHANGED <<history, byHand, queued, cond, now, budget, ev>>

(* Mutant: only one open history is looked up, as in resolve_rule.         *)
ListFirst(u) ==
  /\ req[u].pc = "list"
  /\ \E some \in SUBSET Open(req[u].rule) :
       /\ some = {} <=> Open(req[u].rule) = {}
       /\ \A g, h \in some : g = h
       /\ req' = [req EXCEPT ![u].pc = "close", ![u].close = some]
  /\ UNCHANGED <<rule, history, byHand, queued, cond, now, budget, ev>>

(* The resolve handler lists the open histories, then saves them one by    *)
(* one, whatever happened to them since; a save waits for the row lock.    *)
ListOpen(u) ==
  /\ req[u].pc = "list"
  /\ req' = [req EXCEPT ![u].pc = "close", ![u].close = Open(req[u].rule)]
  /\ UNCHANGED <<rule, history, byHand, queued, cond, now, budget, ev>>

CloseHistory(u, h) ==
  /\ req[u].pc = "close" /\ h \in req[u].close
  /\ ~ Locked(h)
  /\ history' = [history EXCEPT ![h].open = FALSE]
  /\ byHand' = byHand \union {h}
  /\ req' = [req EXCEPT ![u].close = @ \ {h}]
  /\ UNCHANGED <<rule, queued, cond, now, budget, ev>>

FinishResolve(u) ==
  /\ req[u].pc = "close" /\ req[u].close = {}
  /\ req' = [req EXCEPT ![u] = IdleRequest]
  /\ UNCHANGED <<rule, history, byHand, queued, cond, now, budget, ev>>

(* The web process dies, or a statement fails: what was committed stays.   *)
Abandon(u) ==
  /\ "abandon" \in Faults /\ req[u].pc # "idle"
  /\ Spend
  /\ req' = [req EXCEPT ![u] = IdleRequest]
  /\ UNCHANGED <<rule, history, byHand, queued, cond, now, ev>>

HandlerStep(u) ==
  \/ \E r \in Rules : \/ PatchRule(u, r) \/ MuteRule(u, r) \/ ResolveRule(u, r)
                      \/ ReactivateRule(u, r) \/ DeleteRule(u, r)
  \/ SaveRule(u) \/ ListOpen(u) \/ FinishResolve(u) \/ Abandon(u)
  \/ \E h \in DOMAIN history : CloseHistory(u, h)

-----------------------------------------------------------------------------
(* Events arrive or leave the rule's time window; time passes.             *)
FlipCondition(r) ==
  /\ Spend
  /\ cond' = [cond EXCEPT ![r] = ~ @]
  /\ UNCHANGED <<rule, history, byHand, queued, now, ev, req>>

Tick ==
  /\ now < MaxTime
  /\ now' = now + 1
  /\ UNCHANGED <<rule, history, byHand, queued, cond, budget, ev, req>>

Next ==
  \/ \E w \in Workers : EvaluatorStep(w) \/ EvaluationFails(w) \/ Crash(w)
  \/ \E u \in Users : HandlerStep(u)
  \/ \E r \in Rules : CreateRule(r) \/ FlipCondition(r)
  \/ Tick

Spec == Init /\ [][Next]_vars

(* Beat enqueues an evaluation every minute and the workers keep running;  *)
(* nothing is assumed of the clients or of the failures.                   *)
FairSpec == Spec /\ \A w \in Workers : WF_vars(EvaluatorStep(w))
=============================================================================
