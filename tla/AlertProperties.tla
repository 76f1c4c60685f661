-------------------------- MODULE AlertProperties --------------------------
(***************************************************************************)
(* What the alert evaluators and the alert handlers guarantee together,    *)
(* and what the code's tests say of them that concurrency breaks.          *)
(***************************************************************************)
EXTENDS AlertLifecycle

Task == [pc : TaskPCs, batch : SUBSET Rules, copy : [Rules -> RuleRow],
         cur : Rules \union {NoRule}, hist : SUBSET Nat]

Request == [pc : {"idle", "save", "list", "close"},
            op : Operations \union {"none"}, rule : Rules \union {NoRule},
            row : RuleRow, close : SUBSET Nat]

(* What a task or a handler refers to exists.                              *)
TaskRefersToRows(w) ==
  /\ ev[w].hist \subseteq DOMAIN history
  /\ ev[w].pc \notin {"idle", "loop"} => ev[w].cur \in Rules

RequestRefersToRows(u) ==
  /\ req[u].close \subseteq DOMAIN history
  /\ req[u].pc # "idle" => req[u].rule \in Rules /\ req[u].op \in Operations

TypeOK ==
  /\ rule \in [Rules -> RuleRow]
  /\ history \in Seq(Incident)
  /\ queued \subseteq DOMAIN history /\ byHand \subseteq DOMAIN history
  /\ cond \in [Rules -> BOOLEAN]
  /\ now \in 0 .. MaxTime
  /\ budget \in 0 .. MaxInputs
  /\ ev \in [Workers -> Task]
  /\ req \in [Users -> Request]
  /\ \A w \in Workers : TaskRefersToRows(w)
  /\ \A u \in Users : RequestRefersToRows(u)

-----------------------------------------------------------------------------
(* Safety.                                                                 *)

(* Two evaluations may open an incident each for the same rule, because    *)
(* the lookup of trigger_rule locks nothing when it finds nothing; but no  *)
(* task opens a second one while its first is open, so that a rule never   *)
(* has more open incidents than evaluations run at once.                   *)
OpenByDistinctWorkers ==
  \A g, h \in DOMAIN history :
    /\ g # h
    /\ history[g].open /\ history[h].open
    /\ history[g].rule = history[h].rule
    => history[g].by # history[h].by

(* The FOR UPDATE lock does its work: the incident a task has locked is    *)
(* still open when the task acts on it, and no other task has it.          *)
LockedIsOpen ==
  \A w \in Workers, h \in DOMAIN history :
    Holds(w, h) =>
      /\ history[h].open /\ history[h].rule = ev[w].cur
      /\ \A v \in Workers \ {w} : ~ Holds(v, h)

(* A rule shown as Triggered has an open incident behind it, however the   *)
(* evaluations interleave, fail or crash: the evaluation that closes an    *)
(* incident saves the status with it, so that only a resolve handler, who  *)
(* closes whatever evaluations opened since its save, takes the incident   *)
(* away (as long as no client writes "Triggered" itself).                  *)
TriggeredHasIncident ==
  \A r \in Rules : rule[r].status = "Triggered" =>
    Open(r) # {} \/ \E h \in byHand : history[h].rule = r

(* The resolve handler saves the rule, then lists and closes its incidents *)
(* in statements of their own, next to evaluations that open new ones: a   *)
(* rule shown as Resolved has no open incident but those that some resolve *)
(* request is still about to close.                                        *)
ResolvedIsBeingClosed ==
  \A r \in Rules : rule[r].status = "Resolved" =>
    \A h \in Open(r) : \E u \in Users :
      /\ req[u].op = "resolve" /\ req[u].rule = r
      /\ req[u].pc = "list" \/ h \in req[u].close

(* Every incident is handed to the delivery queue, or its task is about to *)
(* do so (as long as neither the broker nor the task fails there).         *)
IncidentIsQueued ==
  \A h \in DOMAIN history \ queued :
    \E w \in Workers : ev[w].pc = "notify" /\ h \in ev[w].hist

(* A deleted rule stays deleted: saves that were on their way write only   *)
(* the columns they name (which the save of PATCH does not do).            *)
DeletedStaysDeleted ==
  [][\A r \in Rules : rule[r].life = "deleted" => rule'[r].life = "deleted"]_vars

(* The incident log as a whole.  With one evaluation at a time this says   *)
(* that a rule never has two open incidents.                               *)
Log == INSTANCE IncidentLog WITH
         Openers <- Workers, log <- history, notified <- queued
ImplementsIncidentLog == Log!Spec

-----------------------------------------------------------------------------
(* Liveness.                                                               *)

Watched(r) == rule[r].life = "alive" /\ rule[r].enabled

(* A watched rule whose condition holds for good does not stay Active.     *)
AlertEventuallyRaised ==
  \A r \in Rules :
    ~ <>[](Watched(r) /\ rule[r].status = "Active" /\ cond[r])

(* A watched rule whose condition is gone for good does not stay Triggered.*)
AlertEventuallyCleared ==
  \A r \in Rules :
    ~ <>[](Watched(r) /\ rule[r].status = "Triggered" /\ ~ cond[r])

(* A watched rule does not stay Muted once its deadline has passed.        *)
MuteEventuallyExpires ==
  \A r \in Rules :
    ~ <>[](Watched(r) /\ rule[r].status = "Muted" /\ Expired(rule[r]))

-----------------------------------------------------------------------------
(* What the tests say of the code.  One task keeps to it (AlertProofs);    *)
(* what overlapping tasks keep to is OpenByDistinctWorkers.                *)

(* tests/test_backend.py:387: after repeated evaluations of a rule whose   *)
(* condition holds there is exactly one history row.                       *)
AtMostOneOpen ==
  \A g, h \in DOMAIN history :
    /\ history[g].open /\ history[h].open
    /\ history[g].rule = history[h].rule
    => g = h

(* tests/test_backend.py:395-396: once the condition is gone, an           *)
(* evaluation leaves the rule Active and its incident resolved.            *)
ActiveHasNoOpenIncident ==
  (\A w \in Workers : ev[w] = IdleTask) /\ (\A u \in Users : req[u] = IdleRequest)
    => \A r \in Rules : rule[r].status = "Active" => Open(r) = {}
=============================================================================
