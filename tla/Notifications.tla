--------------------------- MODULE Notifications ---------------------------
(***************************************************************************)
(* Notifications of one organization: deliver_notification_task with its   *)
(* retries, over the channels of the organization, and the settings        *)
(* requests that create and change those channels meanwhile.  A step is    *)
(* one committed statement or one effect outside the database.             *)
(***************************************************************************)
EXTENDS Naturals, Sequences, FiniteSets

CONSTANTS
  Users,         \* members of the organization
  Owner,         \* the one whose sign-up created it
  Requests,      \* settings requests that may run at the same time
  UserOf,        \* the member each of them is from; one may have several
  Incidents,     \* incidents whose delivery may be enqueued
  RuleChannels,  \* what a rule may name as channels when it is read
  Urls,          \* webhook addresses
  Nothing,       \* no address, and no user
  Bodies,        \* what clients send in a PATCH
  MaxRetries,    \* max_retries of the task
  Faults,        \* the failures that happen, a subset of FaultKinds
  MaxInputs      \* bound: requests and failures in all

Types      == {"email", "in_app", "webhook"}
FaultKinds == {"error", "send", "answer", "die"}
Addresses  == Users \union Urls \union {Nothing}

ASSUME NotificationConstants ==
  /\ Owner \in Users /\ Nothing \notin Users \union Urls \union Requests
  /\ UserOf \in [Requests -> Users]
  /\ RuleChannels \subseteq SUBSET Types
  /\ \A b \in Bodies : b \in [on : SUBSET Types, off : SUBSET Types,
                              url : Urls \union {Nothing}]
  /\ Faults \subseteq FaultKinds
  /\ MaxRetries \in Nat /\ MaxInputs \in Nat

VARIABLES
  channel,   \* the notification_channel table, in commit order; .to is the
             \* address in the config, .by the request handler that inserted
             \* the row (a history variable)
  prefers,   \* the types each user's preferences have switched on
  delivery,  \* the notification_delivery table, in commit order; .left tells
             \* whether the message went out, .attempt who inserted the row
             \* (history variables)
  task,      \* the delivery task of each incident
  req,       \* settings requests; .prefs are the preferences in memory, .alone
             \* and .before are history variables
  budget     \* inputs that may still happen

vars == <<channel, prefers, delivery, task, req, budget>>

ChannelRow == [type : Types, enabled : BOOLEAN, to : Addresses,
               by : Requests \union {Nothing}]

DeliveryRow == [channel : Nat, incident : Incidents, left : BOOLEAN, attempt : Nat,
                status : {"queued", "sent", "failed", "skipped"}]

NoAttempt == [pc |-> "none", tries |-> 0, got |-> <<>>, todo |-> {}, row |-> 0,
              outcome |-> "queued"]

(* accounts/serializers.py creates two channels at sign-up.                *)
Init ==
  /\ channel = <<[type |-> "in_app", enabled |-> TRUE, to |-> Nothing, by |-> Nothing],
                 [type |-> "email", enabled |-> TRUE, to |-> Owner, by |-> Nothing]>>
  /\ prefers = [u \in Users |-> Types]
  /\ delivery = <<>>
  /\ task = [h \in Incidents |-> NoAttempt]
  /\ req = [q \in Requests |-> [pc |-> "idle"]]
  /\ budget = MaxInputs

Spend == budget > 0 /\ budget' = budget - 1

-----------------------------------------------------------------------------
(* The delivery task.                                                      *)

(* on_commit of trigger_rule.                                              *)
EnqueueDelivery(h) ==
  /\ task[h].pc = "none"
  /\ task' = [task EXCEPT ![h].pc = "queued"]
  /\ UNCHANGED <<channel, prefers, delivery, req, budget>>

(* A rule that names no type means in-app.                                 *)
EnabledChannels(named) ==
  {c \in DOMAIN channel :
     /\ channel[c].enabled
     /\ channel[c].type \in (IF named = {} THEN {"in_app"} ELSE named)}

(* An attempt fetches the incident with its rule and, once, the channels.  *)
TakeDelivery(h) ==
  /\ task[h].pc = "queued"
  /\ \E named \in RuleChannels :
       task' = [task EXCEPT ![h].pc = "loop", ![h].todo = EnabledChannels(named),
                  ![h].got = [c \in EnabledChannels(named) |-> channel[c].to]]
  /\ UNCHANGED <<channel, prefers, delivery, req, budget>>

(* Mutant: a channel's turn does not end.                                  *)
OpenAgain(h, c) ==
  /\ task[h].pc = "loop" /\ c \in task[h].todo
  /\ delivery' = Append(delivery, [channel |-> c, incident |-> h, status |-> "queued",
                                   left |-> FALSE, attempt |-> task[h].tries + 1])
  /\ task' = [task EXCEPT ![h].pc = "send", ![h].row = Len(delivery) + 1]
  /\ UNCHANGED <<channel, prefers, req, budget>>

OpenDelivery(h, c) ==
  /\ task[h].pc = "loop" /\ c \in task[h].todo
  /\ delivery' = Append(delivery, [channel |-> c, incident |-> h, status |-> "queued",
                                   left |-> FALSE, attempt |-> task[h].tries + 1])
  /\ task' = [task EXCEPT ![h].pc = "send", ![h].todo = @ \ {c},
                          ![h].row = Len(delivery) + 1]
  /\ UNCHANGED <<channel, prefers, req, budget>>

Sent(h, left, outcome) ==
  /\ delivery' = [delivery EXCEPT ![task[h].row].left = left]
  /\ task' = [task EXCEPT ![h].pc = "save", ![h].outcome = outcome]

(* Nothing leaves for an in-app channel, nor without an address; e-mail    *)
(* without one counts as sent all the same.                                *)
SendMessage(h) ==
  /\ task[h].pc = "send"
  /\ LET c == delivery[task[h].row].channel
         t == channel[c].type
         addressed == task[h].got[c] # Nothing
     IN \/ t = "in_app" /\ Sent(h, FALSE, "sent")
        \/ t = "email" /\ Sent(h, addressed, "sent")
        \/ t = "webhook" /\ Sent(h, addressed, IF addressed THEN "sent" ELSE "skipped")
  /\ UNCHANGED <<channel, prefers, req, budget>>

(* An exception is only recorded.  The server may have got the message,    *)
(* when it is its answer that does not arrive within five seconds.         *)
SendingFails(h) ==
  /\ task[h].pc = "send"
  /\ LET c == delivery[task[h].row].channel
     IN channel[c].type # "in_app" /\ task[h].got[c] # Nothing
  /\ Spend
  /\ \/ "send" \in Faults /\ Sent(h, FALSE, "failed")
     \/ "answer" \in Faults /\ Sent(h, TRUE, "failed")
  /\ UNCHANGED <<channel, prefers, req>>

SaveDelivery(h) ==
  /\ task[h].pc = "save"
  /\ delivery' = [delivery EXCEPT ![task[h].row].status = task[h].outcome]
  /\ task' = [task EXCEPT ![h].pc = "loop", ![h].row = 0, ![h].outcome = "queued"]
  /\ UNCHANGED <<channel, prefers, req, budget>>

(* Mutant: the loop is left after its first channel.                       *)
AnnounceEarly(h) ==
  /\ task[h].pc = "loop"
  /\ task' = [task EXCEPT ![h].pc = "done"]
  /\ UNCHANGED <<channel, prefers, delivery, req, budget>>

(* The broadcast, after the last channel.                                  *)
Announce(h) ==
  /\ task[h].pc = "loop" /\ task[h].todo = {}
  /\ task' = [task EXCEPT ![h].pc = "done"]
  /\ UNCHANGED <<channel, prefers, delivery, req, budget>>

(* Any other exception of the attempt: of the database, or of the broadcast *)
(* after the last channel.                                                 *)
AttemptFails(h) ==
  /\ "error" \in Faults /\ task[h].pc \in {"loop", "save"}
  /\ Spend
  /\ task' = [task EXCEPT ![h] = [NoAttempt EXCEPT !.pc = "failing",
                                                   !.tries = task[h].tries + 1]]
  /\ UNCHANGED <<channel, prefers, delivery, req>>

(* Mutant: autoretry_for does not cover the exception.                     *)
GiveUpAtOnce(h) ==
  /\ task[h].pc = "failing"
  /\ task' = [task EXCEPT ![h].pc = "dropped"]
  /\ UNCHANGED <<channel, prefers, delivery, req, budget>>

(* autoretry_for: at most MaxRetries further attempts.                     *)
RetryDelivery(h) ==
  /\ task[h].pc = "failing"
  /\ task' = [task EXCEPT ![h].pc = IF task[h].tries <= MaxRetries THEN "queued"
                                    ELSE "dropped"]
  /\ UNCHANGED <<channel, prefers, delivery, req, budget>>

(* The worker dies; the task was acknowledged and is not run again.        *)
LoseDelivery(h) ==
  /\ "die" \in Faults /\ task[h].pc \in {"loop", "send", "save", "failing"}
  /\ Spend
  /\ task' = [task EXCEPT ![h] = [NoAttempt EXCEPT !.pc = "lost",
                        !.tries = task[h].tries, !.row = task[h].row]]
  /\ UNCHANGED <<channel, prefers, delivery, req>>

TaskStep(h) ==
  \/ TakeDelivery(h) \/ SendMessage(h) \/ SaveDelivery(h) \/ Announce(h) \/ RetryDelivery(h)
  \/ \E c \in DOMAIN channel : OpenDelivery(h, c)

-----------------------------------------------------------------------------
(* Settings requests.                                                      *)

Named(body) == body.on \union body.off

Alone(q) == \A o \in Requests \ {q} : req[o].pc = "idle"

(* The request reads the preferences of its user, and from here on it is   *)
(* one of several, or the only one.                                        *)
Begin(q, pc, op, body, types, prefs) ==
  /\ req[q].pc = "idle"
  /\ Spend
  /\ req' = [r \in Requests |->
       IF r = q
       THEN [pc |-> pc, op |-> op, body |-> body, todo |-> types, prefs |-> prefs,
             row |-> 0, to |-> Nothing, alone |-> Alone(q),
             before |-> IF Alone(q) THEN channel ELSE <<>>]
       ELSE IF req[r].pc = "idle" THEN req[r]
       ELSE [req[r] EXCEPT !.alone = FALSE, !.before = <<>>]]
  /\ UNCHANGED <<channel, prefers, delivery, task>>

GetSettings(q) ==
  Begin(q, "look", "get", [on |-> {}, off |-> {}, url |-> Nothing], Types,
        prefers[UserOf[q]])

PatchSettings(q) ==
  \E body \in Bodies :
    Begin(q, "prefer", "patch", body, Named(body),
          (prefers[UserOf[q]] \ body.off) \union body.on)

(* The whole row is saved, whatever another request of the user has saved  *)
(* since it was read.                                                      *)
SavePreferences(q) ==
  /\ req[q].pc = "prefer"
  /\ prefers' = [prefers EXCEPT ![UserOf[q]] = req[q].prefs]
  /\ req' = [req EXCEPT ![q].pc = "look"]
  /\ UNCHANGED <<channel, delivery, task, budget>>

(* The order in which get() and patch() go through the types.              *)
First(types) == IF "email" \in types THEN "email"
                ELSE IF "in_app" \in types THEN "in_app" ELSE "webhook"

(* Mutant: only channels that are switched on are found.                   *)
EnabledOfType(t) == {c \in DOMAIN channel : channel[c].type = t /\ channel[c].enabled}

OfType(t) == {c \in DOMAIN channel : channel[c].type = t}

(* get_or_create, first half: GET is content with the row it finds, PATCH  *)
(* changes it.  Two rows are an exception, MultipleObjectsReturned.        *)
LookupChannel(q) ==
  LET t == First(req[q].todo) IN
  /\ req[q].pc = "look" /\ req[q].todo # {}
  /\ \/ /\ OfType(t) = {}
        /\ req' = [req EXCEPT ![q].pc = "insert"]
     \/ \E c \in DOMAIN channel :
          /\ OfType(t) = {c}
          /\ req' = IF req[q].op = "get"
                    THEN [req EXCEPT ![q].todo = @ \ {t}]
                    ELSE [req EXCEPT ![q].pc = "save", ![q].row = c,
                                     ![q].to = channel[c].to]
     \/ /\ \E c, d \in OfType(t) : c # d
        /\ req' = [req EXCEPT ![q] = [pc |-> "idle"]]
  /\ UNCHANGED <<channel, prefers, delivery, task, budget>>

(* ... and second half: nothing in the database keeps a type unique.       *)
InsertChannel(q) ==
  LET t == First(req[q].todo) IN
  /\ req[q].pc = "insert"
  /\ \/ /\ req[q].op = "get"
        /\ channel' = Append(channel, [type |-> t, by |-> q, enabled |-> t \in req[q].prefs,
                                       to |-> IF t = "email" THEN UserOf[q] ELSE Nothing])
        /\ req' = [req EXCEPT ![q].pc = "look", ![q].todo = @ \ {t}]
     \/ /\ req[q].op = "patch"
        /\ channel' = Append(channel, [type |-> t, by |-> q, enabled |-> TRUE,
                                       to |-> Nothing])
        /\ req' = [req EXCEPT ![q].pc = "save", ![q].row = Len(channel) + 1]
  /\ UNCHANGED <<prefers, delivery, task, budget>>

(* Mutant: the config is replaced, not merged.                             *)
ReplaceAddress(q, t, body, to) ==
  IF t = "email" THEN UserOf[q] ELSE IF t = "webhook" THEN body.url ELSE to

(* The address a PATCH leaves in a config that held `to'.                  *)
NewAddress(q, t, body, to) ==
  IF t = "email" THEN UserOf[q]
  ELSE IF t = "webhook" /\ body.url # Nothing THEN body.url ELSE to

(* save(update_fields=["enabled", "config"]), from the row in memory.      *)
SaveChannel(q) ==
  LET t == First(req[q].todo) IN
  /\ req[q].pc = "save"
  /\ channel' = [channel EXCEPT ![req[q].row].enabled = t \in req[q].body.on,
                   ![req[q].row].to = NewAddress(q, t, req[q].body, req[q].to)]
  /\ req' = [req EXCEPT ![q].pc = "look", ![q].todo = @ \ {t}, ![q].row = 0,
                        ![q].to = Nothing]
  /\ UNCHANGED <<prefers, delivery, task, budget>>

(* PATCH answers as GET does, and reads the preferences again.             *)
AnswerPatch(q) ==
  /\ req[q].pc = "look" /\ req[q].todo = {} /\ req[q].op = "patch"
  /\ req' = [req EXCEPT ![q].op = "get", ![q].todo = Types,
                        ![q].prefs = prefers[UserOf[q]]]
  /\ UNCHANGED <<channel, prefers, delivery, task, budget>>

Answered(q) == req[q].pc = "look" /\ req[q].todo = {} /\ req[q].op = "get"

FinishSettings(q) ==
  /\ Answered(q)
  /\ req' = [req EXCEPT ![q] = [pc |-> "idle"]]
  /\ UNCHANGED <<channel, prefers, delivery, task, budget>>

SettingsStep(q) ==
  \/ GetSettings(q) \/ PatchSettings(q) \/ SavePreferences(q)
  \/ LookupChannel(q) \/ InsertChannel(q) \/ SaveChannel(q)
  \/ AnswerPatch(q) \/ FinishSettings(q)

-----------------------------------------------------------------------------
Next ==
  \/ \E h \in Incidents : \/ EnqueueDelivery(h) \/ TaskStep(h) \/ SendingFails(h)
                          \/ AttemptFails(h) \/ LoseDelivery(h)
  \/ \E q \in Requests : SettingsStep(q)

Spec == Init /\ [][Next]_vars

(* The workers keep taking tasks.                                          *)
FairSpec == Spec /\ \A h \in Incidents : WF_vars(TaskStep(h))

-----------------------------------------------------------------------------
(* Properties.                                                             *)

Copies == UNION {[cs -> Addresses] : cs \in SUBSET DOMAIN channel}

Attempt == [pc : {"none", "queued", "loop", "send", "save", "failing", "done",
                  "dropped", "lost"},
            tries : 0 .. MaxRetries + 1, todo : SUBSET Nat, row : Nat,
            got : Copies,
            outcome : {"queued", "sent", "failed", "skipped"}]

Request == [pc : {"prefer", "look", "insert", "save"}, op : {"get", "patch"},
            body : [on : SUBSET Types, off : SUBSET Types, url : Urls \union {Nothing}],
            todo : SUBSET Types, prefs : SUBSET Types, row : Nat, to : Addresses,
            alone : BOOLEAN, before : Seq(ChannelRow)]

TypeOK ==
  /\ channel \in Seq(ChannelRow) /\ prefers \in [Users -> SUBSET Types]
  /\ delivery \in Seq(DeliveryRow)
  /\ \A d \in DOMAIN delivery : delivery[d].channel \in DOMAIN channel
  /\ task \in [Incidents -> Attempt]
  /\ \A h \in Incidents :
       /\ task[h].todo \subseteq DOMAIN task[h].got
       /\ task[h].pc \in {"send", "save"} => task[h].row \in DOMAIN delivery
  /\ DOMAIN req = Requests
  /\ \A q \in Requests : \/ req[q] = [pc |-> "idle"]
                         \/ /\ req[q] \in Request
                            /\ req[q].pc \in {"insert", "save"} => req[q].todo # {}
                            /\ req[q].pc = "save" => req[q].row \in DOMAIN channel
  /\ budget \in 0 .. MaxInputs

(* The lookup of get_or_create locks nothing when it finds nothing, and no *)
(* constraint keeps a type unique: requests that overlap, of two members   *)
(* or of one, insert a channel each, to which every incident is then sent  *)
(* as many times.  But no request inserts a second one, nor one after      *)
(* another, so that there are never more than requests that ran at once.   *)
ChannelsByDistinctRequests ==
  \A c, d \in DOMAIN channel :
    c # d /\ channel[c].type = channel[d].type => channel[c].by # channel[d].by

(* A settings request that no other one overlaps has done, when it         *)
(* answers, what it was asked for and nothing else, although it is a       *)
(* sequence of commits: the types it names are switched, no other channel  *)
(* changes, an address stays unless it is replaced, and each type has one  *)
(* channel.                                                                *)
QuietSettingsAreKept ==
  \A q \in Requests : Answered(q) /\ req[q].alone =>
    LET body == req[q].body
        old  == req[q].before
        mail == UserOf[q]
        On(t, was) == IF t \in Named(body) THEN t \in body.on ELSE was
        To(t, was) == IF t \notin Named(body) THEN was
                      ELSE CASE t = "email" -> mail
                             [] t = "in_app" -> was
                             [] t = "webhook" ->
                                  IF body.url \in Urls THEN body.url ELSE was
    IN /\ \A c \in DOMAIN channel : LET t == channel[c].type IN
            IF c \in DOMAIN old
            THEN channel[c] = [old[c] EXCEPT !.enabled = On(t, old[c].enabled),
                                             !.to = To(t, old[c].to)]
            ELSE /\ channel[c].enabled = On(t, t \in prefers[UserOf[q]])
                 /\ channel[c].to = To(t, IF t = "email" THEN mail ELSE Nothing)
       /\ \A t \in Types : \E c \in DOMAIN channel : OfType(t) = {c}

(* A message goes to a channel a second time only in a retry, and never    *)
(* more often than retry_kwargs allows; an attempt sends one message to    *)
(* each channel, although a failing channel does not stop the others.      *)
RepeatedOnlyByRetry ==
  \A d, e \in DOMAIN delivery :
    /\ delivery[d].attempt <= MaxRetries + 1
    /\ /\ d < e /\ delivery[d].channel = delivery[e].channel
       /\ delivery[d].incident = delivery[e].incident
       => delivery[d].attempt < delivery[e].attempt

(* The table tells what happened: what left and was answered is sent, what *)
(* is skipped or in-app did not leave, and a row stays as queued only when *)
(* its attempt is under way, failed or died there.  An announced incident  *)
(* has an outcome for every channel its last attempt listed.               *)
DeliveriesTell ==
  /\ \A d \in DOMAIN delivery :
       LET row == delivery[d]  h == row.incident IN
       /\ row.status = "sent" /\ ~ row.left =>
            channel[row.channel].type = "in_app"
       /\ row.left => row.status # "skipped" /\ channel[row.channel].type # "in_app"
       /\ row.status = "queued" => \/ task[h].row = d \/ row.attempt <= task[h].tries
  /\ \A h \in Incidents : task[h].pc = "done" =>
       \A c \in DOMAIN task[h].got : \E d \in DOMAIN delivery :
         /\ delivery[d].channel = c /\ delivery[d].incident = h
         /\ delivery[d].attempt = task[h].tries + 1 /\ delivery[d].status # "queued"

(* A delivery that was enqueued ends: announced, given up after the last   *)
(* retry, or lost with its worker.                                         *)
DeliveriesEnd ==
  \A h \in Incidents :
    task[h].pc = "queued" ~>
      \/ task[h].pc \in {"done", "lost"}
      \/ task[h].pc = "dropped" /\ task[h].tries = MaxRetries + 1
=============================================================================
