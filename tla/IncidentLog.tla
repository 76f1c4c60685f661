---------------------------- MODULE IncidentLog ----------------------------
(***************************************************************************)
(* What the alert evaluators promise about the incident log, whatever the  *)
(* order in which they and the request handlers run: incidents are only    *)
(* ever appended, an incident closes at most once and never reopens, and   *)
(* is handed to the notification queue at most once.  An opener (one       *)
(* evaluation task) never has two open incidents of one rule; when there   *)
(* is a single opener, a rule has at most one open incident.               *)
(***************************************************************************)
EXTENDS Naturals, Sequences

CONSTANTS Rules, Openers

VARIABLES log,       \* sequence of incidents [rule, open, by]
          notified   \* indices of the incidents whose notification is queued

logVars == <<log, notified>>

Incident == [rule : Rules, open : BOOLEAN, by : Openers]

Init == log = <<>> /\ notified = {}

Open(r, w) ==
  /\ \A h \in DOMAIN log : ~ (log[h].open /\ log[h].rule = r /\ log[h].by = w)
  /\ log' = Append(log, [rule |-> r, open |-> TRUE, by |-> w])
  /\ UNCHANGED notified

Close(h) ==
  /\ log[h].open
  /\ log' = [log EXCEPT ![h].open = FALSE]
  /\ UNCHANGED notified

Notify(h) ==
  /\ h \notin notified
  /\ notified' = notified \union {h}
  /\ UNCHANGED log

Next ==
  \/ \E r \in Rules, w \in Openers : Open(r, w)
  \/ \E h \in DOMAIN log : Close(h) \/ Notify(h)

Spec == Init /\ [][Next]_logVars
=============================================================================
