------------------------- MODULE NotificationProofs -------------------------
(***************************************************************************)
(* Proofs about Notifications, for any number of members, settings         *)
(* requests, incidents, channels, retries and failures.                    *)
(***************************************************************************)
EXTENDS Notifications, SequenceTheorems, FiniteSetTheorems, TLAPS

LEMMA Spent == ASSUME TypeOK, Spend PROVE budget' \in 0 .. MaxInputs
BY NotificationConstants DEF TypeOK, Spend

(* Rows are appended or saved; none is deleted, and type and inserter stay. *)
LEMMA Appended ==
  ASSUME NEW S, NEW s \in Seq(S), NEW x \in S
  PROVE  /\ Append(s, x) \in Seq(S)
         /\ DOMAIN Append(s, x) = DOMAIN s \union {Len(s) + 1}
         /\ Len(s) + 1 \notin DOMAIN s /\ Len(s) + 1 \in Nat \ {0}
         /\ \A i \in DOMAIN s : Append(s, x)[i] = s[i]
         /\ Append(s, x)[Len(s) + 1] = x
         /\ DOMAIN s \subseteq Nat /\ Len(s) \in Nat
<1>1. /\ Append(s, x) \in Seq(S) /\ Len(Append(s, x)) = Len(s) + 1
      /\ \A i \in 1 .. Len(s) : Append(s, x)[i] = s[i]
      /\ Append(s, x)[Len(s) + 1] = x
  BY AppendProperties
<1>2. DOMAIN s = 1 .. Len(s) /\ DOMAIN Append(s, x) = 1 .. Len(s) + 1 /\ Len(s) \in Nat
  BY <1>1, LenProperties
<1>3. 1 .. Len(s) + 1 = 1 .. Len(s) \union {Len(s) + 1} /\ Len(s) + 1 \notin 1 .. Len(s)
  BY <1>2
<1> QED  BY <1>1, <1>2, <1>3

LEMMA SeqDomain ==
  ASSUME NEW S, NEW s \in Seq(S)
  PROVE  DOMAIN s \subseteq Nat \ {0} /\ \A i \in DOMAIN s : s[i] \in S
<1>1. DOMAIN s = 1 .. Len(s) /\ Len(s) \in Nat /\ s \in [1 .. Len(s) -> S]
  BY LenProperties
<1> QED  BY <1>1

LEMMA Replaced ==
  ASSUME NEW S, NEW s \in Seq(S), NEW i \in DOMAIN s, NEW x \in S
  PROVE  /\ [s EXCEPT ![i] = x] \in Seq(S)
         /\ DOMAIN [s EXCEPT ![i] = x] = DOMAIN s
<1>1. i \in 1 .. Len(s)
  BY LenProperties
<1> QED  BY <1>1, ExceptSeq

LEMMA CopiesGrow ==
  ASSUME DOMAIN channel \subseteq DOMAIN channel'
  PROVE  Copies \subseteq Copies'
BY DEF Copies

LEMMA AttemptsGrow ==
  ASSUME DOMAIN channel \subseteq DOMAIN channel'
  PROVE  Attempt \subseteq Attempt'
<1>1. Copies \subseteq Copies'
  BY CopiesGrow
<1> QED  BY <1>1 DEF Attempt

(* What is in a task while TypeOK holds.                                   *)
LEMMA TaskFields ==
  ASSUME TypeOK, NEW h \in Incidents
  PROVE  /\ task[h] \in Attempt
         /\ task[h].todo \subseteq DOMAIN task[h].got
         /\ DOMAIN task[h].got \subseteq DOMAIN channel
         /\ \A c \in DOMAIN task[h].got : task[h].got[c] \in Addresses
         /\ task[h].pc \in {"send", "save"} =>
              task[h].row \in DOMAIN delivery /\ delivery[task[h].row] \in DeliveryRow
         /\ task[h].tries \in 0 .. MaxRetries + 1
<1>1. task[h] \in Attempt /\ task[h].got \in Copies
  BY DEF TypeOK, Attempt
<1>2. PICK cs \in SUBSET DOMAIN channel : task[h].got \in [cs -> Addresses]
  BY <1>1 DEF Copies
<1>3. delivery \in Seq(DeliveryRow)
  BY DEF TypeOK
<1> QED  BY <1>1, <1>2, <1>3, SeqDomain DEF TypeOK, Attempt

(* One incident's task changes, the channels do not.                       *)
LEMMA TaskTyped ==
  ASSUME TypeOK, NEW h \in Incidents, NEW x \in Attempt,
         task' = [task EXCEPT ![h] = x], UNCHANGED <<channel, prefers, req>>,
         budget' \in 0 .. MaxInputs,
         delivery' \in Seq(DeliveryRow), DOMAIN delivery \subseteq DOMAIN delivery',
         \A d \in DOMAIN delivery' : delivery'[d].channel \in DOMAIN channel,
         x.todo \subseteq DOMAIN x.got,
         x.pc \in {"send", "save"} => x.row \in DOMAIN delivery'
  PROVE  TypeOK'
<1>1. Attempt' = Attempt
  BY DEF Attempt, Copies
<1>2. /\ task' \in [Incidents -> Attempt] /\ task'[h] = x
      /\ \A g \in Incidents \ {h} : task'[g] = task[g]
  BY DEF TypeOK
<1>3. \A g \in Incidents :
        /\ task'[g].todo \subseteq DOMAIN task'[g].got
        /\ task'[g].pc \in {"send", "save"} => task'[g].row \in DOMAIN delivery'
  <2> TAKE g \in Incidents
  <2>1. CASE g = h  BY <1>2, <2>1
  <2>2. CASE g # h  BY <1>2, <2>2 DEF TypeOK
  <2> QED  BY <2>1, <2>2
<1> QED  BY <1>1, <1>2, <1>3 DEF TypeOK, Request

LEMMA InitTyped == ASSUME Init PROVE TypeOK
<1>1. channel \in Seq(ChannelRow)
  <2>1. /\ [type |-> "in_app", enabled |-> TRUE, to |-> Nothing, by |-> Nothing] \in ChannelRow
        /\ [type |-> "email", enabled |-> TRUE, to |-> Owner, by |-> Nothing] \in ChannelRow
    BY NotificationConstants DEF ChannelRow, Addresses, Types
  <2> QED  BY <2>1 DEF Init
<1>2. delivery \in Seq(DeliveryRow) /\ DOMAIN delivery = {}
  BY DEF Init
<1>3. NoAttempt.got \in Copies
  <2>1. <<>> \in [{} -> Addresses]
    OBVIOUS
  <2> QED  BY <2>1 DEF NoAttempt, Copies
<1>4. task \in [Incidents -> Attempt]
  BY <1>3, NotificationConstants DEF Init, NoAttempt, Attempt
<1> QED  BY <1>1, <1>2, <1>4, NotificationConstants DEF Init, TypeOK, NoAttempt

LEMMA EnqueueTyped ==
  ASSUME TypeOK, NEW h \in Incidents, EnqueueDelivery(h) PROVE TypeOK'
<1> DEFINE x == [task[h] EXCEPT !.pc = "queued"]
<1>1. x \in Attempt /\ x.todo = task[h].todo /\ x.got = task[h].got /\ x.pc = "queued"
  BY TaskFields DEF Attempt
<1>2. task' = [task EXCEPT ![h] = x]
  BY DEF EnqueueDelivery, TypeOK
<1> HIDE DEF x
<1> QED  BY <1>1, <1>2, TaskFields, TaskTyped DEF EnqueueDelivery, TypeOK

LEMMA TakeTyped ==
  ASSUME TypeOK, NEW h \in Incidents, TakeDelivery(h) PROVE TypeOK'
<1>1. PICK named \in RuleChannels :
        task' = [task EXCEPT ![h].pc = "loop", ![h].todo = EnabledChannels(named),
                   ![h].got = [c \in EnabledChannels(named) |-> channel[c].to]]
  BY DEF TakeDelivery
<1> DEFINE cs == EnabledChannels(named)
           copy == [c \in cs |-> channel[c].to]
           x == [task[h] EXCEPT !.pc = "loop", !.todo = cs, !.got = copy]
<1>2. cs \subseteq DOMAIN channel /\ DOMAIN channel \subseteq Nat
      /\ \A c \in cs : channel[c].to \in Addresses
  <2>1. channel \in Seq(ChannelRow)
    BY DEF TypeOK
  <2>2. DOMAIN channel \subseteq Nat /\ \A c \in DOMAIN channel : channel[c] \in ChannelRow
    BY <2>1, SeqDomain
  <2> QED  BY <2>2 DEF EnabledChannels, ChannelRow
<1>3. copy \in [cs -> Addresses] /\ DOMAIN copy = cs
  BY <1>2
<1>4. copy \in Copies
  BY <1>2, <1>3 DEF Copies
<1>5. task' = [task EXCEPT ![h] = x]
  BY <1>1 DEF TypeOK
<1> HIDE DEF cs, copy
<1>6. x \in Attempt /\ x.todo = cs /\ x.got = copy /\ x.pc = "loop"
  <2>1. cs \in SUBSET Nat
    BY <1>2
  <2> QED  BY <1>4, <2>1, TaskFields DEF Attempt
<1> HIDE DEF x
<1> QED  BY <1>3, <1>5, <1>6, TaskTyped DEF TakeDelivery, TypeOK

LEMMA OpenTyped ==
  ASSUME TypeOK, NEW h \in Incidents, NEW c \in DOMAIN channel, OpenDelivery(h, c)
  PROVE  TypeOK'
<1> DEFINE row == [channel |-> c, incident |-> h, status |-> "queued",
                   left |-> FALSE, attempt |-> task[h].tries + 1]
           x == [task[h] EXCEPT !.pc = "send", !.todo = @ \ {c}, !.row = Len(delivery) + 1]
<1>1. row \in DeliveryRow /\ row.channel = c
  <2>1. c \in Nat /\ task[h].tries + 1 \in Nat
    BY TaskFields, SeqDomain, NotificationConstants DEF TypeOK
  <2> QED  BY <2>1 DEF DeliveryRow
<1>2. task' = [task EXCEPT ![h] = x] /\ delivery' = Append(delivery, row)
  BY DEF OpenDelivery, TypeOK
<1> HIDE DEF row
<1>3. delivery \in Seq(DeliveryRow)
  BY DEF TypeOK
<1>4. /\ delivery' \in Seq(DeliveryRow)
      /\ DOMAIN delivery' = DOMAIN delivery \union {Len(delivery) + 1}
      /\ Len(delivery) + 1 \in Nat
      /\ \A d \in DOMAIN delivery : delivery'[d] = delivery[d]
      /\ delivery'[Len(delivery) + 1] = row
  BY <1>1, <1>2, <1>3, Appended
<1>5. \A d \in DOMAIN delivery' : delivery'[d].channel \in DOMAIN channel
  BY <1>1, <1>4 DEF TypeOK
<1>6. x \in Attempt /\ x.todo \subseteq DOMAIN x.got /\ x.row = Len(delivery) + 1
  <2>1. Len(delivery) + 1 \in Nat
    BY <1>4
  <2>2. task[h] \in Attempt /\ task[h].todo \subseteq DOMAIN task[h].got
    BY TaskFields
  <2>3. /\ x.todo = task[h].todo \ {c} /\ x.got = task[h].got
        /\ x.row = Len(delivery) + 1
    BY <2>2 DEF Attempt
  <2>4. x \in Attempt
    BY <2>1, <2>2 DEF Attempt
  <2> QED  BY <2>2, <2>3, <2>4
<1>7. UNCHANGED <<channel, prefers, req, budget>> /\ budget \in 0 .. MaxInputs
  BY DEF OpenDelivery, TypeOK
<1> HIDE DEF x
<1> QED  BY <1>2, <1>4, <1>5, <1>6, <1>7, TaskTyped

(* A row of the deliveries changes, and the task that holds it.            *)
LEMMA RowTyped ==
  ASSUME TypeOK, NEW h \in Incidents, NEW x \in Attempt, NEW row \in DeliveryRow,
         task[h].pc \in {"send", "save"},
         delivery' = [delivery EXCEPT ![task[h].row] = row],
         row.channel = delivery[task[h].row].channel,
         task' = [task EXCEPT ![h] = x], UNCHANGED <<channel, prefers, req>>,
         budget' \in 0 .. MaxInputs,
         x.todo \subseteq DOMAIN x.got,
         x.pc \in {"send", "save"} => x.row = task[h].row
  PROVE  TypeOK'
<1>1. task[h].row \in DOMAIN delivery /\ delivery \in Seq(DeliveryRow)
  BY TaskFields DEF TypeOK
<1>2. delivery' \in Seq(DeliveryRow) /\ DOMAIN delivery' = DOMAIN delivery
  BY <1>1, Replaced
<1>3. \A d \in DOMAIN delivery' : delivery'[d].channel \in DOMAIN channel
  <2> TAKE d \in DOMAIN delivery'
  <2>1. delivery'[d] = IF d = task[h].row THEN row ELSE delivery[d]
    BY <1>1, <1>2
  <2> QED  BY <1>1, <1>2, <2>1 DEF TypeOK
<1> QED  BY <1>1, <1>2, <1>3, TaskTyped

LEMMA SentTyped ==
  ASSUME TypeOK, NEW h \in Incidents, NEW left \in BOOLEAN,
         NEW outcome \in {"sent", "failed", "skipped"}, task[h].pc = "send",
         Sent(h, left, outcome), UNCHANGED <<channel, prefers, req>>,
         budget' \in 0 .. MaxInputs
  PROVE  TypeOK'
<1> DEFINE row == [delivery[task[h].row] EXCEPT !.left = left]
           x == [task[h] EXCEPT !.pc = "save", !.outcome = outcome]
<1>1. task[h].row \in DOMAIN delivery /\ delivery[task[h].row] \in DeliveryRow
  BY TaskFields
<1>2. row \in DeliveryRow /\ row.channel = delivery[task[h].row].channel
  BY <1>1 DEF DeliveryRow
<1>3. x \in Attempt /\ x.todo \subseteq DOMAIN x.got /\ x.row = task[h].row
  BY TaskFields DEF Attempt
<1>4. task' = [task EXCEPT ![h] = x]
  BY DEF Sent, TypeOK
<1>5. delivery' = [delivery EXCEPT ![task[h].row] = row]
  BY <1>1 DEF Sent
<1> HIDE DEF row, x
<1> QED  BY <1>2, <1>3, <1>4, <1>5, RowTyped

LEMMA SaveTyped ==
  ASSUME TypeOK, NEW h \in Incidents, SaveDelivery(h) PROVE TypeOK'
<1> DEFINE row == [delivery[task[h].row] EXCEPT !.status = task[h].outcome]
           x == [task[h] EXCEPT !.pc = "loop", !.row = 0, !.outcome = "queued"]
<1>1. task[h].row \in DOMAIN delivery /\ delivery[task[h].row] \in DeliveryRow
  BY TaskFields DEF SaveDelivery
<1>2. row \in DeliveryRow /\ row.channel = delivery[task[h].row].channel
  BY <1>1, TaskFields DEF DeliveryRow, Attempt
<1>3. x \in Attempt /\ x.todo \subseteq DOMAIN x.got /\ x.pc = "loop"
  BY TaskFields DEF Attempt
<1>4. task' = [task EXCEPT ![h] = x]
  BY DEF SaveDelivery, TypeOK
<1>5. delivery' = [delivery EXCEPT ![task[h].row] = row]
  BY <1>1 DEF SaveDelivery
<1>6. /\ task[h].pc = "save" /\ UNCHANGED <<channel, prefers, req>>
      /\ budget' \in 0 .. MaxInputs
  BY DEF SaveDelivery, TypeOK
<1> HIDE DEF row, x
<1> QED  BY <1>2, <1>3, <1>4, <1>5, <1>6, RowTyped

LEMMA NoAttemptTyped == NoAttempt.got \in Copies
<1>1. <<>> \in [{} -> Addresses]
  OBVIOUS
<1> QED  BY <1>1 DEF NoAttempt, Copies

LEMMA EndTyped ==
  ASSUME TypeOK, NEW h \in Incidents,
         Announce(h) \/ AttemptFails(h) \/ RetryDelivery(h) \/ LoseDelivery(h),
         task[h].pc = "loop" \/ task[h].pc = "save" => task[h].tries <= MaxRetries
  PROVE  TypeOK'
<1>1. CASE Announce(h) \/ RetryDelivery(h)
  <2>1. PICK pc \in {"queued", "done", "dropped"} : task' = [task EXCEPT ![h].pc = pc]
    BY <1>1 DEF Announce, RetryDelivery
  <2> DEFINE x == [task[h] EXCEPT !.pc = pc]
  <2>2. x \in Attempt /\ x.todo \subseteq DOMAIN x.got /\ x.pc \notin {"send", "save"}
    BY TaskFields DEF Attempt
  <2>3. task' = [task EXCEPT ![h] = x]
    BY <2>1 DEF TypeOK
  <2> HIDE DEF x
  <2> QED  BY <1>1, <2>2, <2>3, TaskTyped DEF Announce, RetryDelivery, TypeOK
<1>2. CASE AttemptFails(h)
  <2> DEFINE x == [NoAttempt EXCEPT !.pc = "failing", !.tries = task[h].tries + 1]
  <2>1. x \in Attempt /\ x.todo \subseteq DOMAIN x.got /\ x.pc \notin {"send", "save"}
    <3>1. task[h].tries + 1 \in 0 .. MaxRetries + 1
      BY <1>2, TaskFields, NotificationConstants DEF AttemptFails
    <3> QED  BY <3>1, NoAttemptTyped DEF Attempt, NoAttempt
  <2>2. task' = [task EXCEPT ![h] = x] /\ budget' \in 0 .. MaxInputs
    BY <1>2, Spent DEF AttemptFails
  <2> HIDE DEF x
  <2> QED  BY <1>2, <2>1, <2>2, TaskTyped DEF AttemptFails, TypeOK
<1>3. CASE LoseDelivery(h)
  <2> DEFINE x == [NoAttempt EXCEPT !.pc = "lost", !.tries = task[h].tries,
                                    !.row = task[h].row]
  <2>1. x \in Attempt /\ x.todo \subseteq DOMAIN x.got /\ x.pc \notin {"send", "save"}
    BY TaskFields, NoAttemptTyped DEF Attempt, NoAttempt
  <2>2. task' = [task EXCEPT ![h] = x] /\ budget' \in 0 .. MaxInputs
    BY <1>3, Spent DEF LoseDelivery
  <2> HIDE DEF x
  <2> QED  BY <1>3, <2>1, <2>2, TaskTyped DEF LoseDelivery, TypeOK
<1> QED  BY <1>1, <1>2, <1>3

(* The steps of requests: of one request, and of the channels.             *)
LEMMA RequestFields ==
  ASSUME TypeOK, NEW q \in Requests, req[q].pc # "idle"
  PROVE  /\ req[q] \in Request
         /\ req[q].pc \in {"insert", "save"} => req[q].todo # {}
         /\ req[q].pc = "save" => req[q].row \in DOMAIN channel
<1>1. req[q] # [pc |-> "idle"]
  OBVIOUS
<1> QED  BY <1>1 DEF TypeOK

(* Channels that are appended to or saved: the rest stays typed.           *)
LEMMA RequestTyped ==
  ASSUME TypeOK, NEW q \in Requests, NEW x,
         req' = [req EXCEPT ![q] = x], UNCHANGED <<prefers, delivery, task, budget>>,
         channel' \in Seq(ChannelRow), DOMAIN channel \subseteq DOMAIN channel',
         \/ x = [pc |-> "idle"]
         \/ /\ x \in Request
            /\ x.pc \in {"insert", "save"} => x.todo # {}
            /\ x.pc = "save" => x.row \in DOMAIN channel'
  PROVE  TypeOK'
<1>1. task' \in [Incidents -> Attempt']
  BY AttemptsGrow DEF TypeOK
<1>2. /\ DOMAIN req' = Requests
      /\ \A o \in Requests : req'[o] = IF o = q THEN x ELSE req[o]
  BY DEF TypeOK
<1>3. \A o \in Requests : \/ req'[o] = [pc |-> "idle"]
                        \/ /\ req'[o] \in Request
                           /\ req'[o].pc \in {"insert", "save"} => req'[o].todo # {}
                           /\ req'[o].pc = "save" => req'[o].row \in DOMAIN channel'
  <2> TAKE o \in Requests
  <2>1. CASE o = q  BY <1>2, <2>1
  <2>2. CASE o # q
    <3>1. req'[o] = req[o]
      BY <1>2, <2>2
    <3> QED  BY <3>1 DEF TypeOK
  <2> QED  BY <2>1, <2>2
<1>4. Request' = Request
  BY DEF Request
<1> QED  BY <1>1, <1>2, <1>3, <1>4 DEF TypeOK

LEMMA BeginTyped ==
  ASSUME TypeOK, NEW q \in Requests, NEW op \in {"get", "patch"},
         NEW body \in [on : SUBSET Types, off : SUBSET Types, url : Urls \union {Nothing}],
         NEW types \in SUBSET Types, NEW prefs \in SUBSET Types,
         NEW pc \in {"look", "prefer"}, Begin(q, pc, op, body, types, prefs)
  PROVE  TypeOK'
<1> DEFINE x == [pc |-> pc, op |-> op, body |-> body, todo |-> types, prefs |-> prefs,
                 row |-> 0, to |-> Nothing, alone |-> Alone(q),
                 before |-> IF Alone(q) THEN channel ELSE <<>>]
           y(o) == [req[o] EXCEPT !.alone = FALSE, !.before = <<>>]
<1>1. Alone(q) \in BOOLEAN
  BY DEF Alone
<1>2. x \in Request /\ x.pc = pc
  <2>1. channel \in Seq(ChannelRow) /\ <<>> \in Seq(ChannelRow)
    BY DEF TypeOK
  <2> QED  BY <1>1, <2>1 DEF Request, Addresses
<1>3. \A o \in Requests : req[o].pc # "idle" =>
        /\ y(o) \in Request /\ y(o).pc = req[o].pc
        /\ y(o).todo = req[o].todo /\ y(o).row = req[o].row
  <2> SUFFICES ASSUME NEW o \in Requests, req[o].pc # "idle"
               PROVE  /\ y(o) \in Request /\ y(o).pc = req[o].pc
                      /\ y(o).todo = req[o].todo /\ y(o).row = req[o].row
    OBVIOUS
  <2>1. req[o] \in Request /\ <<>> \in Seq(ChannelRow)
    BY RequestFields
  <2> QED  BY <2>1 DEF Request
<1>4. /\ DOMAIN req' = Requests
      /\ \A o \in Requests : req'[o] = IF o = q THEN x
                                     ELSE IF req[o].pc = "idle" THEN req[o] ELSE y(o)
  BY DEF Begin
<1> HIDE DEF x, y
<1>5. \A o \in Requests : \/ req'[o] = [pc |-> "idle"]
                        \/ /\ req'[o] \in Request
                           /\ req'[o].pc \in {"insert", "save"} => req'[o].todo # {}
                           /\ req'[o].pc = "save" => req'[o].row \in DOMAIN channel
  <2> TAKE o \in Requests
  <2>1. CASE o = q  BY <1>2, <1>4, <2>1
  <2>2. CASE o # q /\ req[o].pc = "idle"
    <3>1. req'[o] = req[o]
      BY <1>4, <2>2
    <3> QED  BY <3>1 DEF TypeOK
  <2>3. CASE o # q /\ req[o].pc # "idle"
    <3>1. req'[o] = y(o)
      BY <1>4, <2>3
    <3> QED  BY <1>3, <2>3, <3>1, RequestFields
  <2> QED  BY <2>1, <2>2, <2>3
<1>6. /\ UNCHANGED <<channel, prefers, delivery, task>> /\ budget' \in 0 .. MaxInputs
  BY Spent DEF Begin
<1>7. Attempt' = Attempt /\ Request' = Request
  BY <1>6 DEF Attempt, Copies, Request
<1> QED  BY <1>4, <1>5, <1>6, <1>7 DEF TypeOK

LEMMA SaneBodies ==
  /\ [on |-> {}, off |-> {}, url |-> Nothing] \in
       [on : SUBSET Types, off : SUBSET Types, url : Urls \union {Nothing}]
  /\ \A body \in Bodies :
       /\ body \in [on : SUBSET Types, off : SUBSET Types, url : Urls \union {Nothing}]
       /\ Named(body) \in SUBSET Types
BY NotificationConstants DEF Named

LEMMA PrefersTyped ==
  ASSUME TypeOK, NEW q \in Requests PROVE prefers[UserOf[q]] \in SUBSET Types
BY NotificationConstants DEF TypeOK

LEMMA GetTyped ==
  ASSUME TypeOK, NEW q \in Requests, GetSettings(q) PROVE TypeOK'
<1>1. Types \in SUBSET Types
  OBVIOUS
<1> QED  BY <1>1, SaneBodies, PrefersTyped, BeginTyped DEF GetSettings

LEMMA PatchTyped ==
  ASSUME TypeOK, NEW q \in Requests, PatchSettings(q) PROVE TypeOK'
<1>1. PICK body \in Bodies :
        Begin(q, "prefer", "patch", body, Named(body),
              (prefers[UserOf[q]] \ body.off) \union body.on)
  BY DEF PatchSettings
<1>2. body.on \in SUBSET Types /\ Named(body) \in SUBSET Types
  BY SaneBodies
<1>3. (prefers[UserOf[q]] \ body.off) \union body.on \in SUBSET Types
  BY <1>2, PrefersTyped
<1> QED  BY <1>1, <1>2, <1>3, SaneBodies, BeginTyped

LEMMA SavePreferencesTyped ==
  ASSUME TypeOK, NEW q \in Requests, SavePreferences(q) PROVE TypeOK'
<1>1. /\ req[q] \in Request /\ UNCHANGED <<channel, delivery, task, budget>>
  BY RequestFields DEF SavePreferences
<1> DEFINE x == [req[q] EXCEPT !.pc = "look"]
<1>2. x \in Request /\ x.pc = "look" /\ req[q].prefs \in SUBSET Types
  BY <1>1 DEF Request
<1>3. req' = [req EXCEPT ![q] = x]
  BY DEF SavePreferences, TypeOK
<1> HIDE DEF x
<1>4. prefers' \in [Users -> SUBSET Types]
  BY <1>2 DEF SavePreferences, TypeOK
<1>5. \A o \in Requests : req'[o] = IF o = q THEN x ELSE req[o]
  BY <1>3 DEF TypeOK
<1>6. \A o \in Requests : \/ req'[o] = [pc |-> "idle"]
                         \/ /\ req'[o] \in Request
                            /\ req'[o].pc \in {"insert", "save"} => req'[o].todo # {}
                            /\ req'[o].pc = "save" => req'[o].row \in DOMAIN channel
  <2> TAKE o \in Requests
  <2>1. CASE o = q  BY <1>2, <1>5, <2>1
  <2>2. CASE o # q
    <3>1. req'[o] = req[o]
      BY <1>5, <2>2
    <3> QED  BY <3>1 DEF TypeOK
  <2> QED  BY <2>1, <2>2
<1>7. DOMAIN req' = Requests
  BY <1>3 DEF TypeOK
<1>8. Attempt' = Attempt /\ Request' = Request
  BY <1>1 DEF Attempt, Copies, Request
<1> QED  BY <1>1, <1>4, <1>6, <1>7, <1>8 DEF TypeOK

LEMMA FirstIn ==
  ASSUME NEW types \in SUBSET Types, types # {} PROVE First(types) \in types
BY DEF First, Types

LEMMA LookupTyped ==
  ASSUME TypeOK, NEW q \in Requests, LookupChannel(q) PROVE TypeOK'
<1> DEFINE t == First(req[q].todo)
<1>1. req[q] \in Request /\ req[q].todo # {} /\ req[q].pc = "look"
  BY RequestFields DEF LookupChannel
<1>2. /\ channel' = channel /\ UNCHANGED <<prefers, delivery, task, budget>>
      /\ channel \in Seq(ChannelRow)
  BY DEF LookupChannel, TypeOK
<1>3. CASE req' = [req EXCEPT ![q].pc = "insert"]
  <2> DEFINE x == [req[q] EXCEPT !.pc = "insert"]
  <2>1. x \in Request /\ x.pc = "insert" /\ x.todo # {}
    BY <1>1 DEF Request
  <2>2. req' = [req EXCEPT ![q] = x]
    BY <1>3 DEF TypeOK
  <2> HIDE DEF x
  <2> QED  BY <1>2, <2>1, <2>2, RequestTyped
<1>4. CASE req' = [req EXCEPT ![q] = [pc |-> "idle"]]
  BY <1>2, <1>4, RequestTyped
<1>5. CASE req' = [req EXCEPT ![q].todo = @ \ {t}]
  <2> DEFINE x == [req[q] EXCEPT !.todo = @ \ {t}]
  <2>1. x \in Request /\ x.pc = "look"
    BY <1>1 DEF Request
  <2>2. req' = [req EXCEPT ![q] = x]
    BY <1>5 DEF TypeOK
  <2> HIDE DEF x
  <2> QED  BY <1>2, <2>1, <2>2, RequestTyped
<1>6. CASE \E c \in DOMAIN channel :
             req' = [req EXCEPT ![q].pc = "save", ![q].row = c, ![q].to = channel[c].to]
  <2>1. PICK c \in DOMAIN channel :
          req' = [req EXCEPT ![q].pc = "save", ![q].row = c, ![q].to = channel[c].to]
    BY <1>6
  <2> DEFINE x == [req[q] EXCEPT !.pc = "save", !.row = c, !.to = channel[c].to]
  <2>2. c \in Nat /\ channel[c].to \in Addresses
    <3>1. c \in Nat /\ channel[c] \in ChannelRow
      BY <1>2, SeqDomain
    <3> QED  BY <3>1 DEF ChannelRow
  <2>3. x \in Request /\ x.pc = "save" /\ x.todo # {} /\ x.row = c
    BY <1>1, <2>2 DEF Request
  <2>4. req' = [req EXCEPT ![q] = x]
    BY <2>1 DEF TypeOK
  <2> HIDE DEF x
  <2> QED  BY <1>2, <2>3, <2>4, RequestTyped
<1> QED  BY <1>3, <1>4, <1>5, <1>6 DEF LookupChannel

LEMMA InsertTyped ==
  ASSUME TypeOK, NEW q \in Requests, InsertChannel(q) PROVE TypeOK'
<1> DEFINE t == First(req[q].todo)
<1>1. /\ req[q] \in Request /\ req[q].todo # {} /\ req[q].pc = "insert"
      /\ channel \in Seq(ChannelRow) /\ t \in Types
  BY RequestFields, FirstIn DEF InsertChannel, TypeOK, Request
<1>2. UNCHANGED <<prefers, delivery, task, budget>>
  BY DEF InsertChannel
<1>3. CASE req[q].op = "get"
  <2> DEFINE row == [type |-> t, by |-> q, enabled |-> t \in req[q].prefs,
                     to |-> IF t = "email" THEN UserOf[q] ELSE Nothing]
             x == [req[q] EXCEPT !.pc = "look", !.todo = @ \ {t}]
  <2>1. row \in ChannelRow
    BY <1>1, NotificationConstants DEF ChannelRow, Addresses
  <2>2. channel' = Append(channel, row) /\ req' = [req EXCEPT ![q] = x]
    BY <1>3 DEF InsertChannel, TypeOK
  <2>3. x \in Request /\ x.pc = "look"
    BY <1>1 DEF Request
  <2> HIDE DEF row, x
  <2>4. channel' \in Seq(ChannelRow) /\ DOMAIN channel \subseteq DOMAIN channel'
    BY <1>1, <2>1, <2>2, Appended
  <2> QED  BY <1>2, <2>2, <2>3, <2>4, RequestTyped
<1>4. CASE req[q].op = "patch"
  <2> DEFINE row == [type |-> t, by |-> q, enabled |-> TRUE, to |-> Nothing]
             x == [req[q] EXCEPT !.pc = "save", !.row = Len(channel) + 1]
  <2>1. row \in ChannelRow
    BY <1>1 DEF ChannelRow, Addresses
  <2>2. channel' = Append(channel, row) /\ req' = [req EXCEPT ![q] = x]
    BY <1>4 DEF InsertChannel, TypeOK
  <2>3. Len(channel) + 1 \in Nat
    BY <1>1, LenProperties
  <2>4. x \in Request /\ x.row = Len(channel) + 1 /\ x.todo # {}
    BY <1>1, <2>3 DEF Request
  <2> HIDE DEF row, x
  <2>5. /\ channel' \in Seq(ChannelRow) /\ DOMAIN channel \subseteq DOMAIN channel'
        /\ Len(channel) + 1 \in DOMAIN channel'
    BY <1>1, <2>1, <2>2, Appended
  <2> QED  BY <1>2, <2>2, <2>4, <2>5, RequestTyped
<1> QED  BY <1>1, <1>3, <1>4 DEF Request

(* The saved row keeps its type and whoever inserted it.                   *)
LEMMA SaveEffect ==
  ASSUME TypeOK, NEW q \in Requests, SaveChannel(q)
  PROVE  LET c == req[q].row
             t == First(req[q].todo)
             row == [channel[c] EXCEPT !.enabled = t \in req[q].body.on,
                       !.to = NewAddress(q, t, req[q].body, req[q].to)]
         IN /\ c \in DOMAIN channel /\ row \in ChannelRow
            /\ row.type = channel[c].type /\ row.by = channel[c].by
            /\ channel' = [channel EXCEPT ![c] = row]
            /\ channel' \in Seq(ChannelRow) /\ DOMAIN channel' = DOMAIN channel
            /\ channel[c] \in ChannelRow
<1> DEFINE c == req[q].row
           t == First(req[q].todo)
           to == NewAddress(q, t, req[q].body, req[q].to)
           row == [channel[c] EXCEPT !.enabled = t \in req[q].body.on, !.to = to]
<1>1. /\ req[q] \in Request /\ c \in DOMAIN channel /\ channel \in Seq(ChannelRow)
  BY RequestFields DEF SaveChannel, TypeOK
<1>2. channel[c] \in ChannelRow
  BY <1>1, SeqDomain
<1>3. to \in Addresses
  BY <1>1, NotificationConstants DEF NewAddress, Request, Addresses
<1>4. row \in ChannelRow /\ row.type = channel[c].type /\ row.by = channel[c].by
  <2>1. \A e \in BOOLEAN, a \in Addresses :
          LET r == [channel[c] EXCEPT !.enabled = e, !.to = a]
          IN r \in ChannelRow /\ r.type = channel[c].type /\ r.by = channel[c].by
    BY <1>2 DEF ChannelRow
  <2>2. (t \in req[q].body.on) \in BOOLEAN
    OBVIOUS
  <2> HIDE DEF t, to
  <2> QED  BY <1>3, <2>1, <2>2
<1>5. channel' = [channel EXCEPT ![c] = row]
  BY <1>1 DEF SaveChannel
<1> HIDE DEF row, c
<1>6. channel' \in Seq(ChannelRow) /\ DOMAIN channel' = DOMAIN channel
  BY <1>1, <1>4, <1>5, Replaced
<1> USE DEF row, c
<1> QED  BY <1>1, <1>2, <1>4, <1>5, <1>6

LEMMA SaveChannelTyped ==
  ASSUME TypeOK, NEW q \in Requests, SaveChannel(q) PROVE TypeOK'
<1> DEFINE t == First(req[q].todo)
           x == [req[q] EXCEPT !.pc = "look", !.todo = @ \ {t}, !.row = 0, !.to = Nothing]
<1>1. req[q] \in Request
  BY RequestFields DEF SaveChannel
<1>2. x \in Request /\ x.pc = "look"
  BY <1>1 DEF Request, Addresses
<1>3. req' = [req EXCEPT ![q] = x] /\ UNCHANGED <<prefers, delivery, task, budget>>
  BY DEF SaveChannel, TypeOK
<1>4. channel' \in Seq(ChannelRow) /\ DOMAIN channel \subseteq DOMAIN channel'
  BY SaveEffect
<1> HIDE DEF x
<1> QED  BY <1>2, <1>3, <1>4, RequestTyped

LEMMA AnswerTyped ==
  ASSUME TypeOK, NEW q \in Requests, AnswerPatch(q) \/ FinishSettings(q) PROVE TypeOK'
<1>1. channel' = channel /\ channel \in Seq(ChannelRow)
      /\ UNCHANGED <<prefers, delivery, task, budget>>
  BY DEF AnswerPatch, FinishSettings, TypeOK
<1>2. CASE AnswerPatch(q)
  <2> DEFINE x == [req[q] EXCEPT !.op = "get", !.todo = Types,
                                 !.prefs = prefers[UserOf[q]]]
  <2>1. x \in Request /\ x.pc = "look"
    BY <1>2, RequestFields, PrefersTyped DEF AnswerPatch, Request
  <2>2. req' = [req EXCEPT ![q] = x]
    BY <1>2 DEF AnswerPatch, TypeOK
  <2> HIDE DEF x
  <2> QED  BY <1>1, <2>1, <2>2, RequestTyped
<1>3. CASE FinishSettings(q)
  BY <1>1, <1>3, RequestTyped DEF FinishSettings
<1> QED  BY <1>2, <1>3

-----------------------------------------------------------------------------
(* Type correctness.                                                       *)

RetriesLeft ==
  \A h \in Incidents :
    task[h].pc \in {"none", "queued", "loop", "send", "save"} => task[h].tries <= MaxRetries

LEMMA RetriesStep ==
  ASSUME TypeOK, RetriesLeft, NEW h \in Incidents,
         \/ EnqueueDelivery(h) \/ TaskStep(h) \/ SendingFails(h)
         \/ AttemptFails(h) \/ LoseDelivery(h)
  PROVE  RetriesLeft'
<1>1. DOMAIN task = Incidents /\ \A g \in Incidents : task[g] \in Attempt
  BY DEF TypeOK
<1>2. \A g \in Incidents \ {h} : task'[g] = task[g]
  BY <1>1 DEF EnqueueDelivery, TaskStep, TakeDelivery, OpenDelivery, SendMessage, SendingFails,
              Sent, SaveDelivery, Announce, AttemptFails, RetryDelivery, LoseDelivery
<1>3. task'[h].pc \in {"none", "queued", "loop", "send", "save"} => task'[h].tries <= MaxRetries
  <2>1. CASE EnqueueDelivery(h)
    BY <1>1, <2>1 DEF EnqueueDelivery, RetriesLeft, Attempt
  <2>2. CASE TakeDelivery(h)
    BY <1>1, <2>2 DEF TakeDelivery, RetriesLeft, Attempt
  <2>3. CASE \E c \in DOMAIN channel : OpenDelivery(h, c)
    BY <1>1, <2>3 DEF OpenDelivery, RetriesLeft, Attempt
  <2>4. CASE SendMessage(h) \/ SendingFails(h)
    BY <1>1, <2>4 DEF SendMessage, SendingFails, Sent, RetriesLeft, Attempt
  <2>5. CASE SaveDelivery(h)
    BY <1>1, <2>5 DEF SaveDelivery, RetriesLeft, Attempt
  <2>6. CASE Announce(h)
    BY <1>1, <2>6 DEF Announce, Attempt
  <2>7. CASE RetryDelivery(h)
    BY <1>1, <2>7 DEF RetryDelivery, Attempt
  <2>8. CASE AttemptFails(h)
    BY <1>1, <2>8 DEF AttemptFails, NoAttempt
  <2>9. CASE LoseDelivery(h)
    BY <1>1, <2>9 DEF LoseDelivery, NoAttempt
  <2> QED  BY <2>1, <2>2, <2>3, <2>4, <2>5, <2>6, <2>7, <2>8, <2>9 DEF TaskStep
<1> QED  BY <1>2, <1>3 DEF RetriesLeft

LEMMA SendTyped ==
  ASSUME TypeOK, NEW h \in Incidents, SendMessage(h) \/ SendingFails(h) PROVE TypeOK'
<1>1. PICK left \in BOOLEAN, outcome \in {"sent", "failed", "skipped"} :
        Sent(h, left, outcome) /\ UNCHANGED <<channel, prefers, req>>
  BY DEF SendMessage, SendingFails
<1>2. task[h].pc = "send" /\ budget' \in 0 .. MaxInputs
  BY Spent DEF SendMessage, SendingFails, TypeOK
<1> QED  BY <1>1, <1>2, SentTyped

LEMMA NextTyped ==
  ASSUME TypeOK, RetriesLeft, [Next]_vars PROVE TypeOK' /\ RetriesLeft'
<1>1. CASE UNCHANGED vars
  BY <1>1 DEF vars, TypeOK, RetriesLeft, Attempt, Copies, Request
<1>2. ASSUME NEW h \in Incidents,
             \/ EnqueueDelivery(h) \/ TaskStep(h) \/ SendingFails(h)
             \/ AttemptFails(h) \/ LoseDelivery(h)
      PROVE  TypeOK' /\ RetriesLeft'
  <2>1. task[h].pc = "loop" \/ task[h].pc = "save" => task[h].tries <= MaxRetries
    BY DEF RetriesLeft
  <2>2. TypeOK'
    BY <1>2, <2>1, EnqueueTyped, TakeTyped, OpenTyped, SendTyped, SaveTyped, EndTyped
    DEF TaskStep
  <2> QED  BY <1>2, <2>2, RetriesStep
<1>3. ASSUME NEW q \in Requests, SettingsStep(q) PROVE TypeOK' /\ RetriesLeft'
  <2>1. TypeOK'
    BY <1>3, GetTyped, PatchTyped, SavePreferencesTyped, LookupTyped, InsertTyped,
       SaveChannelTyped, AnswerTyped
    DEF SettingsStep
  <2>2. task' = task
    BY <1>3 DEF SettingsStep, GetSettings, PatchSettings, Begin, SavePreferences,
                LookupChannel, InsertChannel, SaveChannel, AnswerPatch, FinishSettings
  <2> QED  BY <2>1, <2>2 DEF RetriesLeft
<1> QED  BY <1>1, <1>2, <1>3 DEF Next

(* The variables keep their types; in particular no task is retried more   *)
(* often than retry_kwargs says (alerts/tasks.py:135).                     *)
THEOREM NotificationTypeCorrect == Spec => []TypeOK
<1>1. Init => TypeOK /\ RetriesLeft
  BY InitTyped, NotificationConstants DEF Init, RetriesLeft, NoAttempt
<1>2. TypeOK /\ RetriesLeft /\ [Next]_vars => (TypeOK /\ RetriesLeft)'
  BY NextTyped
<1> QED  BY <1>1, <1>2, PTL DEF Spec

-----------------------------------------------------------------------------
(* Channels.                                                               *)

(* Who is about to insert a channel has inserted none of its type, and it  *)
(* is a webhook: the other types were there from the start.                *)
Inserting ==
  \A q \in Requests : req[q].pc = "insert" =>
    /\ First(req[q].todo) = "webhook"
    /\ \A c \in DOMAIN channel : channel[c].type = "webhook" => channel[c].by # q

Founded ==
  /\ \E c, d \in DOMAIN channel : channel[c].type = "in_app" /\ channel[d].type = "email"
  /\ \A c \in DOMAIN channel : channel[c].type = "email" => channel[c].to \in Users

ChannelInv == TypeOK /\ RetriesLeft /\ ChannelsByDistinctRequests /\ Inserting /\ Founded

LEMMA ChannelInit == ASSUME Init PROVE ChannelInv
<1>1. TypeOK /\ RetriesLeft
  BY InitTyped, NotificationConstants DEF Init, RetriesLeft, NoAttempt
<1>2. /\ DOMAIN channel = {1, 2} /\ channel[1].type = "in_app" /\ channel[2].type = "email"
      /\ channel[2].to = Owner
  BY DEF Init
<1> QED  BY <1>1, <1>2, NotificationConstants
         DEF ChannelInv, ChannelsByDistinctRequests, Inserting, Founded, Init

(* Steps that leave the channels alone and insert none.                    *)
LEMMA ChannelsStay ==
  ASSUME ChannelInv, TypeOK' /\ RetriesLeft', channel' = channel,
         \A q \in Requests : req'[q].pc = "insert" =>
           req[q].pc = "insert" /\ req'[q].todo = req[q].todo
  PROVE  ChannelInv'
<1>1. Inserting'
  <2> SUFFICES ASSUME NEW q \in Requests, req'[q].pc = "insert"
               PROVE  /\ First(req'[q].todo) = "webhook"
                      /\ \A c \in DOMAIN channel' :
                           channel'[c].type = "webhook" => channel'[c].by # q
    BY DEF Inserting
  <2>1. First(req'[q].todo) = First(req[q].todo)
    OBVIOUS
  <2> QED  BY <2>1 DEF ChannelInv, Inserting
<1> QED  BY <1>1 DEF ChannelInv, ChannelsByDistinctRequests, Founded

LEMMA ReqOf ==
  ASSUME TypeOK, NEW q \in Requests, NEW x, req' = [req EXCEPT ![q] = x]
  PROVE  \A o \in Requests : req'[o] = IF o = q THEN x ELSE req[o]
BY DEF TypeOK

LEMMA LookupKeeps ==
  ASSUME ChannelInv, TypeOK', RetriesLeft', NEW q \in Requests, LookupChannel(q)
  PROVE  ChannelInv'
<1> DEFINE t == First(req[q].todo)
<1>1. /\ req[q] \in Request /\ req[q].todo # {} /\ channel' = channel /\ t \in Types
  BY RequestFields, FirstIn DEF LookupChannel, ChannelInv, Request
<1>2. CASE OfType(t) = {} /\ req' = [req EXCEPT ![q].pc = "insert"]
  <2>1. t = "webhook"
    BY <1>1, <1>2 DEF OfType, ChannelInv, Founded, Types
  <2>2. \A o \in Requests : req'[o] = IF o = q THEN [req[q] EXCEPT !.pc = "insert"] ELSE req[o]
    BY <1>2 DEF ChannelInv, TypeOK
  <2>3. req'[q].todo = req[q].todo
    BY <1>1, <2>2 DEF Request
  <2>4. \A c \in DOMAIN channel : channel[c].type # "webhook"
    BY <1>2, <2>1 DEF OfType
  <2>5. Inserting'
    <3> SUFFICES ASSUME NEW o \in Requests, req'[o].pc = "insert"
                 PROVE  /\ First(req'[o].todo) = "webhook"
                        /\ \A c \in DOMAIN channel' :
                             channel'[c].type = "webhook" => channel'[c].by # o
      BY DEF Inserting
    <3>1. CASE o = q
      <4>1. First(req'[o].todo) = t
        BY <2>3, <3>1
      <4> QED  BY <1>1, <2>1, <2>4, <4>1
    <3>2. CASE o # q
      <4>1. req'[o] = req[o]
        BY <2>2, <3>2
      <4> QED  BY <1>1, <2>4, <4>1 DEF ChannelInv, Inserting
    <3> QED  BY <3>1, <3>2
  <2> QED  BY <1>1, <2>5 DEF ChannelInv, ChannelsByDistinctRequests, Founded
<1>3. CASE \/ req' = [req EXCEPT ![q].todo = @ \ {t}]
           \/ req' = [req EXCEPT ![q] = [pc |-> "idle"]]
           \/ \E c \in DOMAIN channel :
                req' = [req EXCEPT ![q].pc = "save", ![q].row = c, ![q].to = channel[c].to]
  <2>1. DOMAIN req = Requests /\ req[q].pc = "look"
    BY DEF LookupChannel, ChannelInv, TypeOK
  <2>2. req'[q].pc # "insert" /\ \A o \in Requests \ {q} : req'[o] = req[o]
    <3>1. CASE req' = [req EXCEPT ![q].todo = @ \ {t}]
      BY <1>1, <2>1, <3>1 DEF Request
    <3>2. CASE req' = [req EXCEPT ![q] = [pc |-> "idle"]]
      BY <1>1, <2>1, <3>2
    <3>3. CASE \E c \in DOMAIN channel :
                 req' = [req EXCEPT ![q].pc = "save", ![q].row = c, ![q].to = channel[c].to]
      BY <1>1, <2>1, <3>3 DEF Request
    <3> QED  BY <1>3, <3>1, <3>2, <3>3
  <2> QED  BY <1>1, <2>2, ChannelsStay DEF ChannelInv
<1> QED  BY <1>2, <1>3 DEF LookupChannel

LEMMA InsertKeeps ==
  ASSUME ChannelInv, TypeOK', RetriesLeft', NEW q \in Requests, InsertChannel(q)
  PROVE  ChannelInv'
<1>1. /\ req[q] \in Request /\ channel \in Seq(ChannelRow) /\ req[q].pc = "insert"
      /\ First(req[q].todo) = "webhook"
      /\ \A c \in DOMAIN channel : channel[c].type = "webhook" => channel[c].by # q
  BY RequestFields DEF InsertChannel, ChannelInv, TypeOK, Inserting
<1>2. PICK row \in ChannelRow : /\ channel' = Append(channel, row)
                                /\ row.type = "webhook" /\ row.by = q
  <2>1. /\ \A e \in BOOLEAN : LET r == [type |-> "webhook", by |-> q, enabled |-> e,
                                        to |-> Nothing]
                               IN r \in ChannelRow /\ r.type = "webhook" /\ r.by = q
    BY DEF ChannelRow, Types, Addresses
  <2>2. \E e \in BOOLEAN :
          channel' = Append(channel, [type |-> "webhook", by |-> q, enabled |-> e,
                                      to |-> Nothing])
    <3>1. ("webhook" \in req[q].prefs) \in BOOLEAN
      OBVIOUS
    <3> QED  BY <1>1, <3>1 DEF InsertChannel
  <2> QED  BY <2>1, <2>2
<1>3. /\ DOMAIN channel' = DOMAIN channel \union {Len(channel) + 1}
      /\ \A c \in DOMAIN channel : channel'[c] = channel[c]
      /\ channel'[Len(channel) + 1] = row
  BY <1>1, <1>2, Appended
<1>4. req'[q].pc # "insert" /\ \A o \in Requests \ {q} : req'[o] = req[o]
  BY <1>1 DEF InsertChannel, ChannelInv, TypeOK, Request
<1>5. ChannelsByDistinctRequests'
  BY <1>1, <1>2, <1>3 DEF ChannelInv, ChannelsByDistinctRequests
<1>6. Inserting'
  <2> SUFFICES ASSUME NEW o \in Requests, req'[o].pc = "insert"
               PROVE  /\ First(req'[o].todo) = "webhook"
                      /\ \A c \in DOMAIN channel' :
                           channel'[c].type = "webhook" => channel'[c].by # o
    BY DEF Inserting
  <2>1. o # q /\ req'[o] = req[o]
    BY <1>4
  <2> QED  BY <1>2, <1>3, <2>1 DEF ChannelInv, Inserting
<1>7. Founded'
  BY <1>2, <1>3 DEF ChannelInv, Founded
<1> QED  BY <1>5, <1>6, <1>7 DEF ChannelInv

LEMMA SaveKeeps ==
  ASSUME ChannelInv, TypeOK', RetriesLeft', NEW q \in Requests, SaveChannel(q),
         channel[req[q].row].type = First(req[q].todo)
  PROVE  ChannelInv'
<1> DEFINE c == req[q].row
           t == First(req[q].todo)
           row == [channel[c] EXCEPT !.enabled = t \in req[q].body.on,
                     !.to = NewAddress(q, t, req[q].body, req[q].to)]
<1>1. /\ c \in DOMAIN channel /\ row.type = channel[c].type /\ row.by = channel[c].by
      /\ channel' = [channel EXCEPT ![c] = row] /\ DOMAIN channel' = DOMAIN channel
      /\ channel[c] \in ChannelRow
  BY SaveEffect DEF ChannelInv
<1>2. t = "email" => row.to = UserOf[q]
  BY <1>1 DEF NewAddress, ChannelRow
<1>3. \A d \in DOMAIN channel : /\ channel'[d].type = channel[d].type
                                /\ channel'[d].by = channel[d].by
                                /\ d # c => channel'[d] = channel[d]
  BY <1>1
<1>4. channel'[c] = row
  BY <1>1
<1>5. req'[q].pc # "insert" /\ \A o \in Requests \ {q} : req'[o] = req[o]
  BY RequestFields DEF SaveChannel, ChannelInv, TypeOK, Request
<1> HIDE DEF row, c
<1>6. Founded'
  BY <1>1, <1>2, <1>3, <1>4, NotificationConstants DEF ChannelInv, Founded, c
<1>7. Inserting'
  <2> SUFFICES ASSUME NEW o \in Requests, req'[o].pc = "insert"
               PROVE  /\ First(req'[o].todo) = "webhook"
                      /\ \A d \in DOMAIN channel' :
                           channel'[d].type = "webhook" => channel'[d].by # o
    BY DEF Inserting
  <2>1. o # q /\ req'[o] = req[o]
    BY <1>5
  <2> QED  BY <1>1, <1>3, <2>1 DEF ChannelInv, Inserting
<1>8. ChannelsByDistinctRequests'
  BY <1>1, <1>3 DEF ChannelInv, ChannelsByDistinctRequests
<1> QED  BY <1>6, <1>7, <1>8 DEF ChannelInv

(* A request saves to a channel of the type whose turn it is.              *)
Saving ==
  \A q \in Requests : req[q].pc = "save" => channel[req[q].row].type = First(req[q].todo)

(* Nothing but a settings request changes the channels, and none of them   *)
(* changes a type.                                                         *)
LEMMA TypesStay ==
  ASSUME TypeOK, NEW q \in Requests, SettingsStep(q)
  PROVE  \A c \in DOMAIN channel :
           c \in DOMAIN channel' /\ channel'[c].type = channel[c].type
                                /\ channel'[c].by = channel[c].by
<1>1. CASE InsertChannel(q)
  <2>1. /\ channel \in Seq(ChannelRow) /\ req[q] \in Request /\ First(req[q].todo) \in Types
    BY <1>1, RequestFields, FirstIn DEF TypeOK, InsertChannel, Request
  <2>2. \E row \in ChannelRow : channel' = Append(channel, row)
    <3>1. (First(req[q].todo) \in req[q].prefs) \in BOOLEAN
      OBVIOUS
    <3>2. \A e \in BOOLEAN, a \in Addresses :
            [type |-> First(req[q].todo), by |-> q, enabled |-> e, to |-> a] \in ChannelRow
      BY <2>1 DEF ChannelRow
    <3>3. UserOf[q] \in Addresses /\ Nothing \in Addresses
      BY NotificationConstants DEF Addresses
    <3> QED  BY <1>1, <3>1, <3>2, <3>3 DEF InsertChannel
  <2> QED  BY <2>1, <2>2, Appended
<1>2. CASE SaveChannel(q)
  <2> DEFINE c == req[q].row
             t == First(req[q].todo)
             row == [channel[c] EXCEPT !.enabled = t \in req[q].body.on,
                       !.to = NewAddress(q, t, req[q].body, req[q].to)]
  <2>1. /\ c \in DOMAIN channel /\ row.type = channel[c].type /\ row.by = channel[c].by
        /\ channel' = [channel EXCEPT ![c] = row] /\ DOMAIN channel' = DOMAIN channel
    BY <1>2, SaveEffect
  <2> HIDE DEF row, c
  <2> QED  BY <2>1
<1>3. CASE \/ GetSettings(q) \/ PatchSettings(q) \/ SavePreferences(q) \/ LookupChannel(q)
           \/ AnswerPatch(q) \/ FinishSettings(q)
  BY <1>3 DEF GetSettings, PatchSettings, Begin, SavePreferences, LookupChannel,
              AnswerPatch, FinishSettings
<1> QED  BY <1>1, <1>2, <1>3 DEF SettingsStep

LEMMA BeginLooks ==
  ASSUME NEW q \in Requests, GetSettings(q) \/ PatchSettings(q)
  PROVE  req'[q].pc \in {"look", "prefer"}
<1>1. CASE GetSettings(q)
  <2>1. req'[q].pc = "look"
    BY <1>1 DEF GetSettings, Begin
  <2> QED  BY <2>1
<1>2. CASE PatchSettings(q)
  <2>1. PICK body \in Bodies : Begin(q, "prefer", "patch", body, Named(body),
                                     (prefers[UserOf[q]] \ body.off) \union body.on)
    BY <1>2 DEF PatchSettings
  <2>2. req'[q].pc = "prefer"
    BY <2>1 DEF Begin
  <2> QED  BY <2>2
<1> QED  BY <1>1, <1>2

(* The other requests go on where they were.                               *)
LEMMA OthersWait ==
  ASSUME TypeOK, NEW q \in Requests, SettingsStep(q), NEW o \in Requests \ {q}
  PROVE  /\ req'[o].pc = req[o].pc
         /\ req[o].pc # "idle" => /\ req'[o].todo = req[o].todo /\ req'[o].row = req[o].row
                                  /\ req'[o].op = req[o].op /\ req'[o].body = req[o].body
<1>1. CASE GetSettings(q) \/ PatchSettings(q)
  <2>1. req'[o] = IF req[o].pc = "idle" THEN req[o]
                  ELSE [req[o] EXCEPT !.alone = FALSE, !.before = <<>>]
    BY <1>1 DEF GetSettings, PatchSettings, Begin
  <2>2. CASE req[o].pc = "idle"  BY <2>1, <2>2
  <2>3. CASE req[o].pc # "idle"
    <3>1. req[o] \in Request
      BY <2>3, RequestFields
    <3> QED  BY <2>1, <2>3, <3>1 DEF Request
  <2> QED  BY <2>2, <2>3
<1>2. CASE \/ SavePreferences(q) \/ LookupChannel(q) \/ InsertChannel(q) \/ SaveChannel(q)
           \/ AnswerPatch(q) \/ FinishSettings(q)
  <2>1. req'[o] = req[o]
    BY <1>2 DEF SavePreferences, LookupChannel, InsertChannel, SaveChannel, AnswerPatch,
                FinishSettings, TypeOK
  <2> QED  BY <2>1
<1> QED  BY <1>1, <1>2 DEF SettingsStep

LEMMA SavingStep ==
  ASSUME TypeOK, Saving, NEW q \in Requests, SettingsStep(q) PROVE Saving'
<1> SUFFICES ASSUME NEW o \in Requests, req'[o].pc = "save"
             PROVE  channel'[req'[o].row].type = First(req'[o].todo)
  BY DEF Saving
<1>0. DOMAIN req = Requests
  BY DEF TypeOK
<1>1. CASE o # q
  <2>1. /\ req[o].pc = "save" /\ req'[o].row = req[o].row /\ req'[o].todo = req[o].todo
        /\ req[o].row \in DOMAIN channel
    BY <1>1, OthersWait, RequestFields
  <2>2. First(req'[o].todo) = First(req[o].todo)
    BY <2>1
  <2> QED  BY <2>1, <2>2, TypesStay DEF Saving
<1>2. CASE o = q /\ LookupChannel(q)
  <2>1. /\ req[q] \in Request /\ req[q].pc = "look" /\ channel' = channel
    BY <1>2, RequestFields DEF LookupChannel
  <2>2. PICK c \in DOMAIN channel :
          /\ OfType(First(req[q].todo)) = {c}
          /\ req' = [req EXCEPT ![q].pc = "save", ![q].row = c, ![q].to = channel[c].to]
    <3>1. req' # [req EXCEPT ![q].pc = "insert"]
      BY <1>0, <1>2, <2>1 DEF Request
    <3>2. req' # [req EXCEPT ![q] = [pc |-> "idle"]]
      BY <1>0, <1>2
    <3>3. req' # [req EXCEPT ![q].todo = @ \ {First(req[q].todo)}]
      BY <1>0, <1>2, <2>1 DEF Request
    <3> QED  BY <1>2, <3>1, <3>2, <3>3 DEF LookupChannel
  <2>3. req'[q].row = c /\ req'[q].todo = req[q].todo
    BY <1>0, <2>1, <2>2 DEF Request
  <2>4. First(req'[q].todo) = First(req[q].todo) /\ channel[c].type = First(req[q].todo)
    BY <2>2, <2>3 DEF OfType
  <2> QED  BY <1>2, <2>1, <2>3, <2>4
<1>3. CASE o = q /\ InsertChannel(q)
  <2> DEFINE row == [type |-> First(req[q].todo), by |-> q, enabled |-> TRUE, to |-> Nothing]
  <2>1. /\ channel \in Seq(ChannelRow) /\ req[q] \in Request /\ First(req[q].todo) \in Types
        /\ req[q].pc = "insert"
    BY <1>3, RequestFields, FirstIn DEF TypeOK, InsertChannel, Request
  <2>2. /\ channel' = Append(channel, row)
        /\ req' = [req EXCEPT ![q].pc = "save", ![q].row = Len(channel) + 1]
    BY <1>0, <1>3, <2>1 DEF InsertChannel, Request
  <2>3. row \in ChannelRow
    BY <2>1 DEF ChannelRow, Addresses
  <2>4. req'[q].row = Len(channel) + 1 /\ req'[q].todo = req[q].todo
    BY <1>0, <2>1, <2>2 DEF Request
  <2>5. channel'[Len(channel) + 1] = row
    BY <2>1, <2>2, <2>3, Appended
  <2>6. First(req'[q].todo) = First(req[q].todo)
    BY <2>4
  <2> QED  BY <1>3, <2>4, <2>5, <2>6
<1>4. CASE o = q /\ (GetSettings(q) \/ PatchSettings(q))
  <2>1. req'[q].pc # "save"
    BY <1>4, BeginLooks
  <2> QED  BY <1>4, <2>1
<1>5. CASE /\ o = q
           /\ SavePreferences(q) \/ SaveChannel(q) \/ AnswerPatch(q) \/ FinishSettings(q)
  <2>1. req'[q].pc # "save"
    <3>1. CASE FinishSettings(q)
      BY <1>0, <3>1 DEF FinishSettings
    <3>2. CASE SaveChannel(q)
      <4>1. req[q] \in Request
        BY <3>2, RequestFields DEF SaveChannel
      <4> QED  BY <1>0, <3>2, <4>1 DEF SaveChannel, Request
    <3>3. CASE AnswerPatch(q)
      <4>1. req[q] \in Request /\ req[q].pc = "look"
        BY <3>3, RequestFields DEF AnswerPatch
      <4> QED  BY <1>0, <3>3, <4>1 DEF AnswerPatch, Request
    <3>4. CASE SavePreferences(q)
      <4>1. req[q] \in Request
        BY <3>4, RequestFields DEF SavePreferences
      <4> QED  BY <1>0, <3>4, <4>1 DEF SavePreferences, Request
    <3> QED  BY <1>5, <3>1, <3>2, <3>3, <3>4
  <2> QED  BY <1>5, <2>1
<1> QED  BY <1>1, <1>2, <1>3, <1>4, <1>5 DEF SettingsStep

LEMMA ChannelStep ==
  ASSUME ChannelInv, Saving, [Next]_vars PROVE ChannelInv' /\ Saving'
<1>1. TypeOK' /\ RetriesLeft'
  BY NextTyped DEF ChannelInv
<1>2. CASE UNCHANGED <<channel, req>>
  <2>1. ChannelInv'
    BY <1>1, <1>2, ChannelsStay
  <2> QED  BY <1>2, <2>1 DEF Saving
<1>3. ASSUME NEW q \in Requests, SettingsStep(q) PROVE ChannelInv' /\ Saving'
  <2>1. Saving'
    BY <1>3, SavingStep DEF ChannelInv
  <2>2. CASE LookupChannel(q)
    BY <1>1, <2>1, <2>2, LookupKeeps
  <2>3. CASE InsertChannel(q)
    BY <1>1, <2>1, <2>3, InsertKeeps
  <2>4. CASE SaveChannel(q)
    <3>1. channel[req[q].row].type = First(req[q].todo)
      BY <2>4 DEF SaveChannel, Saving
    <3> QED  BY <1>1, <2>1, <2>4, <3>1, SaveKeeps
  <2>5. CASE \/ GetSettings(q) \/ PatchSettings(q) \/ SavePreferences(q)
             \/ AnswerPatch(q) \/ FinishSettings(q)
    <3>1. channel' = channel
      BY <2>5 DEF GetSettings, PatchSettings, Begin, SavePreferences, AnswerPatch,
                  FinishSettings
    <3>2. req'[q].pc # "insert"
      <4>1. DOMAIN req = Requests
        BY DEF ChannelInv, TypeOK
      <4>2. CASE GetSettings(q) \/ PatchSettings(q)
        BY <4>2, BeginLooks
      <4>3. CASE AnswerPatch(q)
        <5>1. req[q] \in Request /\ req[q].pc = "look"
          BY <4>3, RequestFields DEF AnswerPatch, ChannelInv
        <5> QED  BY <4>1, <4>3, <5>1 DEF AnswerPatch, Request
      <4>4. CASE FinishSettings(q)
        BY <4>1, <4>4 DEF FinishSettings
      <4>5. CASE SavePreferences(q)
        <5>1. req[q] \in Request
          BY <4>5, RequestFields DEF SavePreferences, ChannelInv
        <5> QED  BY <4>1, <4>5, <5>1 DEF SavePreferences, Request
      <4> QED  BY <2>5, <4>2, <4>3, <4>4, <4>5
    <3>3. \A o \in Requests : req'[o].pc = "insert" =>
            req[o].pc = "insert" /\ req'[o].todo = req[o].todo
      BY <1>3, <3>2, OthersWait DEF ChannelInv
    <3> QED  BY <1>1, <2>1, <3>1, <3>3, ChannelsStay
  <2> QED  BY <1>3, <2>2, <2>3, <2>4, <2>5 DEF SettingsStep
<1>4. ASSUME NEW h \in Incidents,
             \/ EnqueueDelivery(h) \/ TaskStep(h) \/ SendingFails(h)
             \/ AttemptFails(h) \/ LoseDelivery(h)
      PROVE  UNCHANGED <<channel, req>>
  BY <1>4 DEF EnqueueDelivery, TaskStep, TakeDelivery, OpenDelivery, SendMessage, SendingFails,
              SaveDelivery, Announce, AttemptFails, RetryDelivery, LoseDelivery
<1>5. CASE UNCHANGED vars
  BY <1>2, <1>5 DEF vars
<1> QED  BY <1>2, <1>3, <1>4, <1>5 DEF Next

(* However many settings requests overlap, of however many members, none   *)
(* inserts two channels of a type, nor does one after it in its place      *)
(* (accounts/settings_views.py:28 and :73).                                *)
THEOREM ChannelsAreByDistinctRequests == Spec => []ChannelsByDistinctRequests
<1>1. Init => ChannelInv /\ Saving
  BY ChannelInit DEF Init, Saving
<1>2. ChannelInv /\ Saving /\ [Next]_vars => (ChannelInv /\ Saving)'
  BY ChannelStep
<1>3. ChannelInv => ChannelsByDistinctRequests
  BY DEF ChannelInv
<1> QED  BY <1>1, <1>2, <1>3, PTL DEF Spec

-----------------------------------------------------------------------------
(* A settings request that none overlaps.  The types it has switched, and  *)
(* the types it has seen to have one channel.                              *)
Switched(q) ==
  IF req[q].op = "patch" THEN Named(req[q].body) \ req[q].todo ELSE Named(req[q].body)

Settled(q) ==
  Switched(q) \union (IF req[q].op = "get" THEN Types \ req[q].todo ELSE {})

(* What a PATCH makes of a row.                                            *)
Patched(q, body, row) ==
  [row EXCEPT !.enabled = row.type \in body.on,
              !.to = NewAddress(q, row.type, body, row.to)]

(* A channel that was there when the request began, ...                    *)
OldRow(q, c) ==
  LET old == req[q].before[c] IN
  channel[c] = IF old.type \in Switched(q) THEN Patched(q, req[q].body, old) ELSE old

(* ... and one that it has inserted, which a PATCH has in hand at first.   *)
NewRow(q, c) ==
  LET t == channel[c].type IN
  IF req[q].pc = "save" /\ req[q].row = c THEN channel[c].to = Nothing
  ELSE IF t \in Named(req[q].body)
       THEN /\ t \in Switched(q)
            /\ channel[c].enabled = (t \in req[q].body.on)
            /\ channel[c].to = NewAddress(q, t, req[q].body, Nothing)
       ELSE /\ channel[c].enabled = (t \in req[q].prefs)
            /\ channel[c].to = IF t = "email" THEN UserOf[q] ELSE Nothing

AtWork(q) ==
  LET t == First(req[q].todo) IN
  /\ req[q].op = "patch" => req[q].todo \subseteq Named(req[q].body)
  /\ IF req[q].pc = "prefer" THEN req[q].op = "patch" /\ req[q].before = channel
     ELSE req[q].prefs = prefers[UserOf[q]]
  /\ req[q].pc = "insert" => OfType(t) = {}
  /\ IF req[q].pc = "save"
     THEN /\ req[q].op = "patch" /\ OfType(t) = {req[q].row}
          /\ req[q].to = channel[req[q].row].to
     ELSE req[q].to = Nothing

OneEach(q) == \A t \in Settled(q) : \E c \in DOMAIN channel : OfType(t) = {c}

RowsAsAsked(q) ==
  /\ DOMAIN req[q].before \subseteq DOMAIN channel
  /\ \A c \in DOMAIN req[q].before : OldRow(q, c)
  /\ \A c \in DOMAIN channel \ DOMAIN req[q].before : NewRow(q, c)

Quiet(q) ==
  req[q].pc # "idle" /\ req[q].alone =>
    Alone(q) /\ AtWork(q) /\ OneEach(q) /\ RowsAsAsked(q)

(* A step of one request is none of another that nobody overlaps.          *)
LEMMA OthersQuiet ==
  ASSUME TypeOK, NEW q \in Requests, SettingsStep(q), NEW o \in Requests \ {q}, Quiet(o)
  PROVE  Quiet(o)'
<1> SUFFICES ASSUME req'[o].pc # "idle", req'[o].alone PROVE FALSE
  BY DEF Quiet
<1>1. req[o].pc # "idle" /\ req[o] \in Request
  BY OthersWait, RequestFields
<1>2. CASE GetSettings(q) \/ PatchSettings(q)
  <2>1. req'[o] = [req[o] EXCEPT !.alone = FALSE, !.before = <<>>]
    BY <1>1, <1>2 DEF GetSettings, PatchSettings, Begin
  <2> QED  BY <1>1, <2>1 DEF Request
<1>3. CASE \/ SavePreferences(q) \/ LookupChannel(q) \/ InsertChannel(q) \/ SaveChannel(q)
           \/ AnswerPatch(q) \/ FinishSettings(q)
  <2>1. req'[o] = req[o] /\ req[q].pc # "idle"
    BY <1>3 DEF SavePreferences, LookupChannel, InsertChannel, SaveChannel, AnswerPatch,
                FinishSettings, Answered, TypeOK
  <2> QED  BY <1>1, <2>1 DEF Quiet, Alone
<1> QED  BY <1>2, <1>3 DEF SettingsStep

LEMMA BeginQuiet ==
  ASSUME TypeOK, NEW q \in Requests, GetSettings(q) \/ PatchSettings(q) PROVE Quiet(q)'
<1>1. PICK pc \in {"look", "prefer"}, op \in {"get", "patch"},
           body \in [on : SUBSET Types, off : SUBSET Types, url : Urls \union {Nothing}],
           types \in SUBSET Types, prefs \in SUBSET Types :
        /\ Begin(q, pc, op, body, types, prefs)
        /\ op = "patch" => pc = "prefer" /\ types = Named(body)
        /\ op = "get" => /\ pc = "look" /\ types = Types /\ Named(body) = {}
                         /\ prefs = prefers[UserOf[q]]
  <2>1. prefers[UserOf[q]] \in SUBSET Types
    BY PrefersTyped
  <2>2. CASE GetSettings(q)
    BY <2>1, <2>2, SaneBodies DEF GetSettings, Named
  <2>3. CASE PatchSettings(q)
    <3>1. PICK body \in Bodies : Begin(q, "prefer", "patch", body, Named(body),
                                       (prefers[UserOf[q]] \ body.off) \union body.on)
      BY <2>3 DEF PatchSettings
    <3>2. (prefers[UserOf[q]] \ body.off) \union body.on \in SUBSET Types
      BY <2>1, SaneBodies
    <3> QED  BY <3>1, <3>2, SaneBodies
  <2> QED  BY <2>2, <2>3
<1> DEFINE x == [pc |-> pc, op |-> op, body |-> body, todo |-> types, prefs |-> prefs,
                 row |-> 0, to |-> Nothing, alone |-> Alone(q),
                 before |-> IF Alone(q) THEN channel ELSE <<>>]
<1>2. req'[q] = x /\ UNCHANGED <<channel, prefers>>
  BY <1>1 DEF Begin
<1>3. /\ req'[q].pc = pc /\ req'[q].op = op /\ req'[q].body = body
      /\ req'[q].todo = types /\ req'[q].prefs = prefs /\ req'[q].to = Nothing
      /\ req'[q].alone = Alone(q)
      /\ Alone(q) => req'[q].before = channel
  BY <1>2
<1> HIDE DEF x
<1> SUFFICES ASSUME Alone(q)
             PROVE  Alone(q)' /\ AtWork(q)' /\ OneEach(q)' /\ RowsAsAsked(q)'
  BY <1>3 DEF Quiet
<1>4. Alone(q)'
  BY <1>1 DEF Alone, Begin
<1>5. Switched(q)' = {} /\ Settled(q)' = {}
  BY <1>1, <1>3 DEF Switched, Settled
<1>6. AtWork(q)'
  BY <1>1, <1>2, <1>3 DEF AtWork
<1>7. RowsAsAsked(q)'
  BY <1>2, <1>3, <1>5 DEF RowsAsAsked, OldRow
<1> QED  BY <1>4, <1>5, <1>6, <1>7 DEF OneEach

LEMMA PatchedFields ==
  ASSUME NEW q, NEW body, NEW row \in ChannelRow
  PROVE  /\ Patched(q, body, row).type = row.type
         /\ Patched(q, body, row).enabled = (row.type \in body.on)
         /\ Patched(q, body, row).to = NewAddress(q, row.type, body, row.to)
<1>1. \A e, a : LET r == [row EXCEPT !.enabled = e, !.to = a]
                IN  r.type = row.type /\ r.enabled = e /\ r.to = a
  BY DEF ChannelRow
<1> QED  BY <1>1 DEF Patched

(* The request goes on: its history stays, and who was alone still is.     *)
LEMMA GoesOn ==
  ASSUME TypeOK, NEW q \in Requests, Quiet(q), req[q] \in Request, NEW x,
         req' = [req EXCEPT ![q] = x], x.pc # "idle" => x.alone = req[q].alone,
         req[q].alone /\ Alone(q) /\ AtWork(q) /\ OneEach(q) /\ RowsAsAsked(q)
           => AtWork(q)' /\ OneEach(q)' /\ RowsAsAsked(q)'
  PROVE  Quiet(q)'
<1>1. \A o \in Requests : req'[o] = IF o = q THEN x ELSE req[o]
  BY ReqOf
<1>2. req[q].pc # "idle"
  BY DEF Request
<1>3. Alone(q) => Alone(q)'
  BY <1>1 DEF Alone
<1> QED  BY <1>1, <1>2, <1>3 DEF Quiet

LEMMA SavePreferencesQuiet ==
  ASSUME TypeOK, NEW q \in Requests, Quiet(q), SavePreferences(q) PROVE Quiet(q)'
<1>1. /\ req[q] \in Request /\ req[q].pc = "prefer" /\ channel' = channel
  BY RequestFields DEF SavePreferences
<1> DEFINE x == [req[q] EXCEPT !.pc = "look"]
<1>2. req' = [req EXCEPT ![q] = x]
  BY DEF SavePreferences, TypeOK
<1>3. /\ x.pc = "look" /\ x.op = req[q].op /\ x.body = req[q].body
      /\ x.todo = req[q].todo /\ x.to = req[q].to /\ x.alone = req[q].alone
      /\ x.before = req[q].before /\ x.prefs = req[q].prefs
  BY <1>1 DEF Request
<1> HIDE DEF x
<1>4. req'[q] = x
  BY <1>2 DEF TypeOK
<1>5. prefers'[UserOf[q]] = req[q].prefs
  BY NotificationConstants DEF SavePreferences, TypeOK
<1>6. /\ Switched(q)' = Switched(q) /\ Settled(q)' = Settled(q)
      /\ \A s : OfType(s)' = OfType(s)
  BY <1>1, <1>3, <1>4 DEF Switched, Settled, OfType
<1>7. AtWork(q) => AtWork(q)'
  BY <1>1, <1>3, <1>4, <1>5 DEF AtWork
<1>8. OneEach(q) => OneEach(q)'
  BY <1>1, <1>6 DEF OneEach
<1>9. AtWork(q) /\ RowsAsAsked(q) => RowsAsAsked(q)'
  BY <1>1, <1>3, <1>4, <1>6 DEF AtWork, RowsAsAsked, OldRow
<1> QED  BY <1>1, <1>2, <1>3, <1>7, <1>8, <1>9, GoesOn

LEMMA LookupQuiet ==
  ASSUME TypeOK, NEW q \in Requests, Quiet(q), LookupChannel(q) PROVE Quiet(q)'
<1> DEFINE t == First(req[q].todo)
<1>1. /\ req[q] \in Request /\ req[q].todo # {} /\ req[q].pc = "look"
      /\ t \in req[q].todo /\ t \in Types
  BY RequestFields, FirstIn DEF LookupChannel, Request
<1>2. UNCHANGED <<channel, prefers>>
  BY DEF LookupChannel
<1>3. CASE OfType(t) = {} /\ req' = [req EXCEPT ![q].pc = "insert"]
  <2> DEFINE x == [req[q] EXCEPT !.pc = "insert"]
  <2>1. req' = [req EXCEPT ![q] = x]
    BY <1>3 DEF TypeOK
  <2>2. /\ x.pc = "insert" /\ x.op = req[q].op /\ x.body = req[q].body
        /\ x.todo = req[q].todo /\ x.to = req[q].to /\ x.alone = req[q].alone
        /\ x.before = req[q].before /\ x.row = req[q].row
        /\ x.prefs = req[q].prefs
    BY <1>1 DEF Request
  <2> HIDE DEF x
  <2>3. req'[q] = x
    BY <2>1 DEF TypeOK
  <2>4. /\ Switched(q)' = Switched(q) /\ Settled(q)' = Settled(q)
        /\ \A s : OfType(s)' = OfType(s)
    BY <1>2, <2>2, <2>3 DEF Switched, Settled, OfType
  <2>5. AtWork(q) => AtWork(q)'
    BY <1>1, <1>2, <1>3, <2>2, <2>3 DEF AtWork, OfType
  <2>6. OneEach(q) => OneEach(q)'
    BY <1>2, <2>4 DEF OneEach
  <2>7. RowsAsAsked(q) => RowsAsAsked(q)'
    BY <1>1, <1>2, <2>2, <2>3, <2>4 DEF RowsAsAsked, OldRow, NewRow
  <2> QED  BY <1>1, <2>1, <2>2, <2>5, <2>6, <2>7, GoesOn
<1>4. CASE req' = [req EXCEPT ![q] = [pc |-> "idle"]]
  <2>1. req'[q] = [pc |-> "idle"]
    BY <1>4 DEF TypeOK
  <2> QED  BY <2>1 DEF Quiet
<1>5. ASSUME NEW c \in DOMAIN channel, OfType(t) = {c}, req[q].op = "get",
             req' = [req EXCEPT ![q].todo = @ \ {t}]
      PROVE  Quiet(q)'
  <2> DEFINE x == [req[q] EXCEPT !.todo = @ \ {t}]
  <2>1. req' = [req EXCEPT ![q] = x]
    BY <1>5 DEF TypeOK
  <2>2. /\ x.pc = "look" /\ x.op = "get" /\ x.body = req[q].body
        /\ x.todo = req[q].todo \ {t} /\ x.to = req[q].to /\ x.alone = req[q].alone
        /\ x.before = req[q].before /\ x.prefs = req[q].prefs
    BY <1>1, <1>5 DEF Request
  <2> HIDE DEF x
  <2>3. req'[q] = x
    BY <2>1 DEF TypeOK
  <2>4. /\ Switched(q)' = Switched(q) /\ Settled(q)' \subseteq Settled(q) \union {t}
        /\ \A s : OfType(s)' = OfType(s)
    BY <1>2, <1>5, <2>2, <2>3 DEF Switched, Settled, OfType
  <2>5. AtWork(q) => AtWork(q)'
    BY <1>1, <1>2, <2>2, <2>3 DEF AtWork
  <2>6. OneEach(q) => OneEach(q)'
    BY <1>2, <1>5, <2>4 DEF OneEach
  <2>7. RowsAsAsked(q) => RowsAsAsked(q)'
    BY <1>1, <1>2, <2>2, <2>3, <2>4 DEF RowsAsAsked, OldRow, NewRow
  <2> QED  BY <1>1, <2>1, <2>2, <2>5, <2>6, <2>7, GoesOn
<1>6. ASSUME NEW c \in DOMAIN channel, OfType(t) = {c}, req[q].op = "patch",
             req' = [req EXCEPT ![q].pc = "save", ![q].row = c, ![q].to = channel[c].to]
      PROVE  Quiet(q)'
  <2> DEFINE x == [req[q] EXCEPT !.pc = "save", !.row = c, !.to = channel[c].to]
  <2>1. req' = [req EXCEPT ![q] = x]
    BY <1>6 DEF TypeOK
  <2>2. /\ x.pc = "save" /\ x.op = "patch" /\ x.body = req[q].body /\ x.row = c
        /\ x.todo = req[q].todo /\ x.to = channel[c].to /\ x.alone = req[q].alone
        /\ x.before = req[q].before /\ x.prefs = req[q].prefs
    BY <1>1, <1>6 DEF Request
  <2> HIDE DEF x
  <2>3. req'[q] = x
    BY <2>1 DEF TypeOK
  <2>4. /\ Switched(q)' = Switched(q) /\ Settled(q)' = Settled(q)
        /\ \A s : OfType(s)' = OfType(s)
    BY <1>2, <1>6, <2>2, <2>3 DEF Switched, Settled, OfType
  <2>5. AtWork(q) => AtWork(q)'
    <3>1. OfType(First(req[q].todo))' = OfType(t)
      BY <1>2, <2>2, <2>3 DEF OfType
    <3>2. req'[q].to = channel'[req'[q].row].to
      BY <1>2, <2>2, <2>3
    <3> QED  BY <1>1, <1>2, <1>6, <2>2, <2>3, <3>1, <3>2 DEF AtWork
  <2>6. OneEach(q) => OneEach(q)'
    BY <1>2, <2>4 DEF OneEach
  <2>7. ASSUME AtWork(q), RowsAsAsked(q) PROVE RowsAsAsked(q)'
    <3>1. channel[c].type = t
      BY <1>6 DEF OfType
    <3>2. t \in Named(req[q].body) /\ t \notin Switched(q)
      BY <1>1, <1>6, <2>7 DEF AtWork, Switched
    <3>3. c \in DOMAIN req[q].before
      BY <1>1, <2>7, <3>1, <3>2 DEF RowsAsAsked, NewRow
    <3> QED  BY <1>1, <1>2, <2>2, <2>3, <2>4, <2>7, <3>3 DEF RowsAsAsked, OldRow, NewRow
  <2> QED  BY <1>1, <2>1, <2>2, <2>5, <2>6, <2>7, GoesOn
<1>7. req[q].op \in {"get", "patch"}
  BY <1>1 DEF Request
<1> QED  BY <1>3, <1>4, <1>5, <1>6, <1>7 DEF LookupChannel

LEMMA InsertQuiet ==
  ASSUME TypeOK, NEW q \in Requests, Quiet(q), InsertChannel(q) PROVE Quiet(q)'
<1>0. /\ req[q] \in Request /\ req[q].pc = "insert" /\ req[q].todo # {}
      /\ First(req[q].todo) \in req[q].todo /\ First(req[q].todo) \in Types
      /\ channel \in Seq(ChannelRow) /\ prefers' = prefers
      /\ Len(channel) + 1 \in Nat
  <2>1. /\ req[q] \in Request /\ req[q].pc = "insert" /\ req[q].todo # {}
        /\ prefers' = prefers /\ channel \in Seq(ChannelRow)
    BY RequestFields DEF InsertChannel, TypeOK
  <2>2. req[q].todo \in SUBSET Types
    BY <2>1 DEF Request
  <2> QED  BY <2>1, <2>2, FirstIn, LenProperties
<1>1. PICK t \in Types, n \in Nat :
        /\ t = First(req[q].todo) /\ n = Len(channel) + 1
        /\ req[q] \in Request /\ req[q].pc = "insert" /\ req[q].todo # {}
        /\ t \in req[q].todo /\ channel \in Seq(ChannelRow) /\ prefers' = prefers
  BY <1>0
<1>2. ASSUME NEW row \in ChannelRow, row.type = t, channel' = Append(channel, row)
      PROVE  /\ DOMAIN channel' = DOMAIN channel \union {n} /\ n \notin DOMAIN channel
             /\ \A c \in DOMAIN channel : channel'[c] = channel[c]
             /\ channel'[n] = row
             /\ \A s : s # t => OfType(s)' = OfType(s)
             /\ OfType(t) = {} => OfType(t)' = {n}
  <2>1. /\ DOMAIN channel' = DOMAIN channel \union {n} /\ n \notin DOMAIN channel
        /\ \A c \in DOMAIN channel : channel'[c] = channel[c]
        /\ channel'[n] = row
    BY <1>1, <1>2, Appended
  <2> QED  BY <1>2, <2>1 DEF OfType
<1>3. CASE req[q].op = "get"
  <2> DEFINE row == [type |-> t, by |-> q, enabled |-> t \in req[q].prefs,
                     to |-> IF t = "email" THEN UserOf[q] ELSE Nothing]
             x == [req[q] EXCEPT !.pc = "look", !.todo = @ \ {t}]
  <2>1. /\ row \in ChannelRow /\ row.type = t /\ row.enabled = (t \in req[q].prefs)
        /\ row.to = IF t = "email" THEN UserOf[q] ELSE Nothing
    BY <1>1, NotificationConstants DEF ChannelRow, Addresses
  <2>2. channel' = Append(channel, row) /\ req' = [req EXCEPT ![q] = x]
    BY <1>1, <1>3 DEF InsertChannel, TypeOK
  <2>3. /\ x.pc = "look" /\ x.op = "get" /\ x.body = req[q].body
        /\ x.todo = req[q].todo \ {t} /\ x.to = req[q].to /\ x.alone = req[q].alone
        /\ x.before = req[q].before /\ x.prefs = req[q].prefs
    BY <1>1, <1>3 DEF Request
  <2> HIDE DEF x, row
  <2>4. /\ DOMAIN channel' = DOMAIN channel \union {n} /\ n \notin DOMAIN channel
        /\ \A c \in DOMAIN channel : channel'[c] = channel[c]
        /\ channel'[n] = row
        /\ \A s : s # t => OfType(s)' = OfType(s)
        /\ OfType(t) = {} => OfType(t)' = {n}
    BY <1>2, <2>1, <2>2
  <2>5. req'[q] = x
    BY <2>2 DEF TypeOK
  <2>6. /\ Switched(q) = Named(req[q].body) /\ Switched(q)' = Switched(q)
        /\ Settled(q)' \subseteq Settled(q) \union {t} /\ Switched(q) \subseteq Settled(q)
    BY <1>3, <2>3, <2>5 DEF Switched, Settled
  <2>7. AtWork(q) => AtWork(q)' /\ OfType(t) = {}
    BY <1>1, <2>3, <2>5 DEF AtWork
  <2>8. OneEach(q) /\ OfType(t) = {} => OneEach(q)' /\ t \notin Named(req[q].body)
    <3> SUFFICES ASSUME OneEach(q), OfType(t) = {}
                 PROVE  OneEach(q)' /\ t \notin Named(req[q].body)
      OBVIOUS
    <3>1. t \notin Settled(q)
      BY DEF OneEach
    <3>2. \A s \in Settled(q) : \E c \in DOMAIN channel' : OfType(s)' = {c}
      BY <2>4, <3>1 DEF OneEach
    <3>3. \E c \in DOMAIN channel' : OfType(t)' = {c}
      BY <2>4
    <3> QED  BY <2>6, <3>1, <3>2, <3>3 DEF OneEach
  <2>9. RowsAsAsked(q) /\ t \notin Named(req[q].body) => RowsAsAsked(q)'
    <3> SUFFICES ASSUME RowsAsAsked(q), t \notin Named(req[q].body) PROVE RowsAsAsked(q)'
      OBVIOUS
    <3>1. \A c \in DOMAIN req[q].before : OldRow(q, c)'
      BY <2>3, <2>4, <2>5, <2>6 DEF RowsAsAsked, OldRow
    <3>2. \A c \in DOMAIN channel \ DOMAIN req[q].before : NewRow(q, c)'
      BY <1>1, <2>3, <2>4, <2>5, <2>6 DEF RowsAsAsked, NewRow
    <3>3. NewRow(q, n)'
      BY <1>1, <2>1, <2>3, <2>4, <2>5 DEF NewRow
    <3> QED  BY <2>3, <2>4, <2>5, <3>1, <3>2, <3>3 DEF RowsAsAsked
  <2> QED  BY <1>1, <2>2, <2>3, <2>7, <2>8, <2>9, GoesOn
<1>4. CASE req[q].op = "patch"
  <2> DEFINE row == [type |-> t, by |-> q, enabled |-> TRUE, to |-> Nothing]
             x == [req[q] EXCEPT !.pc = "save", !.row = n]
  <2>1. row \in ChannelRow /\ row.type = t /\ row.to = Nothing
    BY <1>1 DEF ChannelRow, Addresses
  <2>2. channel' = Append(channel, row) /\ req' = [req EXCEPT ![q] = x]
    BY <1>1, <1>4 DEF InsertChannel, TypeOK
  <2>3. /\ x.pc = "save" /\ x.op = "patch" /\ x.body = req[q].body
        /\ x.todo = req[q].todo /\ x.to = req[q].to /\ x.alone = req[q].alone
        /\ x.before = req[q].before /\ x.row = n /\ x.prefs = req[q].prefs
    BY <1>1, <1>4 DEF Request
  <2> HIDE DEF x, row
  <2>4. /\ DOMAIN channel' = DOMAIN channel \union {n} /\ n \notin DOMAIN channel
        /\ \A c \in DOMAIN channel : channel'[c] = channel[c]
        /\ channel'[n] = row
        /\ \A s : s # t => OfType(s)' = OfType(s)
        /\ OfType(t) = {} => OfType(t)' = {n}
    BY <1>2, <2>1, <2>2
  <2>5. req'[q] = x
    BY <2>2 DEF TypeOK
  <2>6. /\ Switched(q)' = Switched(q) /\ Settled(q)' = Settled(q)
        /\ t \notin Settled(q) /\ First(req'[q].todo) = t
    BY <1>1, <1>4, <2>3, <2>5 DEF Switched, Settled
  <2>7. AtWork(q) => AtWork(q)'
    <3> SUFFICES ASSUME AtWork(q) PROVE AtWork(q)'
      OBVIOUS
    <3>1. OfType(t)' = {n} /\ channel'[n].to = Nothing /\ req[q].to = Nothing
          /\ req[q].todo \subseteq Named(req[q].body)
      BY <1>1, <1>4, <2>1, <2>4 DEF AtWork
    <3>2. OfType(First(req[q].todo))' = OfType(t)'
      BY <2>6 DEF OfType
    <3> QED  BY <1>1, <2>3, <2>5, <3>1, <3>2 DEF AtWork
  <2>8. OneEach(q) => OneEach(q)'
    BY <2>4, <2>6 DEF OneEach
  <2>9. RowsAsAsked(q) => RowsAsAsked(q)'
    <3> SUFFICES ASSUME RowsAsAsked(q) PROVE RowsAsAsked(q)'
      OBVIOUS
    <3>1. \A c \in DOMAIN req[q].before : OldRow(q, c)'
      BY <2>3, <2>4, <2>5, <2>6 DEF RowsAsAsked, OldRow
    <3>2. \A c \in DOMAIN channel \ DOMAIN req[q].before : NewRow(q, c)'
      BY <1>1, <2>3, <2>4, <2>5, <2>6 DEF RowsAsAsked, NewRow
    <3>3. NewRow(q, n)'
      BY <2>1, <2>3, <2>4, <2>5 DEF NewRow
    <3> QED  BY <2>3, <2>4, <2>5, <3>1, <3>2, <3>3 DEF RowsAsAsked
  <2> QED  BY <1>1, <2>2, <2>3, <2>7, <2>8, <2>9, GoesOn
<1> QED  BY <1>1, <1>3, <1>4 DEF Request

LEMMA SaveQuiet ==
  ASSUME TypeOK, NEW q \in Requests, Quiet(q), SaveChannel(q) PROVE Quiet(q)'
<1>1. PICK t \in Types, c \in DOMAIN channel, row \in ChannelRow :
        /\ t = First(req[q].todo) /\ c = req[q].row
        /\ row = [channel[c] EXCEPT !.enabled = t \in req[q].body.on,
                                    !.to = NewAddress(q, t, req[q].body, req[q].to)]
        /\ channel' = [channel EXCEPT ![c] = row] /\ DOMAIN channel' = DOMAIN channel
        /\ channel[c] \in ChannelRow /\ row.type = channel[c].type
  <2>1. req[q] \in Request /\ req[q].todo # {}
    BY RequestFields DEF SaveChannel
  <2>2. First(req[q].todo) \in Types
    BY <2>1, FirstIn DEF Request
  <2> QED  BY <2>2, SaveEffect
<1>2. /\ req[q] \in Request /\ req[q].pc = "save" /\ t \in req[q].todo
      /\ prefers' = prefers
  BY <1>1, RequestFields, FirstIn DEF SaveChannel, Request
<1>3. channel[c].type = t /\ req[q].to = channel[c].to => row = Patched(q, req[q].body, channel[c])
  BY <1>1 DEF Patched
<1>4. /\ channel'[c] = row /\ \A d \in DOMAIN channel \ {c} : channel'[d] = channel[d]
      /\ \A d \in DOMAIN channel : channel'[d].type = channel[d].type
  BY <1>1
<1>5. \A s : OfType(s)' = OfType(s)
  BY <1>1, <1>4 DEF OfType
<1> DEFINE x == [req[q] EXCEPT !.pc = "look", !.todo = @ \ {t}, !.row = 0, !.to = Nothing]
<1>6. req' = [req EXCEPT ![q] = x]
  BY <1>1 DEF SaveChannel, TypeOK
<1>7. /\ x.pc = "look" /\ x.op = req[q].op /\ x.body = req[q].body
      /\ x.todo = req[q].todo \ {t} /\ x.to = Nothing /\ x.alone = req[q].alone
      /\ x.before = req[q].before /\ x.prefs = req[q].prefs
  BY <1>2 DEF Request
<1> HIDE DEF x
<1>8. req'[q] = x
  BY <1>6 DEF TypeOK
<1>9. ASSUME AtWork(q), OneEach(q), RowsAsAsked(q)
      PROVE  AtWork(q)' /\ OneEach(q)' /\ RowsAsAsked(q)'
  <2>1. /\ req[q].op = "patch" /\ req[q].todo \subseteq Named(req[q].body)
        /\ OfType(t) = {c} /\ req[q].to = channel[c].to
    BY <1>1, <1>2, <1>9 DEF AtWork
  <2>2. /\ Switched(q)' = Switched(q) \union {t} /\ t \notin Switched(q)
        /\ Settled(q)' = Settled(q) \union {t} /\ t \in Named(req[q].body)
    BY <1>2, <1>7, <1>8, <2>1 DEF Switched, Settled
  <2>3. AtWork(q)'
    BY <1>2, <1>7, <1>8, <1>9, <2>1 DEF AtWork
  <2>4. OneEach(q)'
    BY <1>1, <1>5, <1>9, <2>1, <2>2 DEF OneEach
  <2>5. \A d \in DOMAIN channel \ {c} : channel[d].type # t
    BY <2>1 DEF OfType
  <2>6. channel[c].type = t
    BY <2>1 DEF OfType
  <2>7. \A d \in DOMAIN req[q].before :
          d \in DOMAIN channel /\ req[q].before[d] \in ChannelRow
                               /\ req[q].before[d].type = channel[d].type
    <3> TAKE d \in DOMAIN req[q].before
    <3>1. d \in DOMAIN channel /\ OldRow(q, d)
      BY <1>9 DEF RowsAsAsked
    <3>2. req[q].before[d] \in ChannelRow
      BY <1>2, SeqDomain DEF Request
    <3> QED  BY <3>1, <3>2, PatchedFields DEF OldRow
  <2>8. ASSUME NEW d \in DOMAIN req[q].before PROVE OldRow(q, d)'
    <3>1. OldRow(q, d) /\ d \in DOMAIN channel /\ req[q].before[d].type = channel[d].type
      BY <1>9, <2>7 DEF RowsAsAsked
    <3>2. CASE d = c
      <4>1. channel[c] = req[q].before[c]
        BY <2>2, <2>6, <3>1, <3>2 DEF OldRow
      <4>2. channel'[c] = Patched(q, req'[q].body, req'[q].before[c])
        BY <1>3, <1>4, <1>7, <1>8, <2>1, <2>6, <4>1
      <4> QED  BY <1>7, <1>8, <2>2, <2>6, <3>2, <4>1, <4>2 DEF OldRow
    <3>3. CASE d # c
      <4>1. channel'[d] = channel[d] /\ req[q].before[d].type # t
        BY <1>4, <2>5, <3>1, <3>3
      <4> QED  BY <1>7, <1>8, <2>2, <3>1, <4>1 DEF OldRow
    <3> QED  BY <3>2, <3>3
  <2>9. ASSUME NEW d \in DOMAIN channel \ DOMAIN req[q].before PROVE NewRow(q, d)'
    <3>1. NewRow(q, d)
      BY <1>9 DEF RowsAsAsked
    <3>2. CASE d = c
      <4>1. req[q].to = Nothing
        BY <1>1, <1>2, <2>1, <3>1, <3>2 DEF NewRow
      <4>2. /\ channel'[c].type = t
            /\ channel'[c].enabled = (t \in req[q].body.on)
            /\ channel'[c].to = NewAddress(q, t, req[q].body, Nothing)
        <5>1. row = Patched(q, req[q].body, channel[c]) /\ channel[c].to = Nothing
          BY <1>3, <2>1, <2>6, <4>1
        <5>2. /\ row.enabled = (channel[c].type \in req[q].body.on)
              /\ row.to = NewAddress(q, channel[c].type, req[q].body, channel[c].to)
          <6>1. channel[c] \in ChannelRow
            BY <1>1
          <6> QED  BY <5>1, <6>1, PatchedFields
        <5>3. channel'[c] = row /\ row.type = t
          BY <1>1, <1>4, <2>6
        <5>4. row.enabled = (t \in req[q].body.on)
          BY <2>6, <5>2
        <5> QED  BY <2>6, <5>1, <5>2, <5>3, <5>4
      <4>3. t \in Switched(q)' /\ req'[q].pc = "look" /\ req'[q].body = req[q].body
        BY <1>7, <1>8, <2>2
      <4> QED  BY <3>2, <2>2, <4>2, <4>3 DEF NewRow
    <3>3. CASE d # c
      <4>1. channel'[d] = channel[d] /\ channel[d].type # t
        BY <1>4, <2>5, <3>3
      <4> QED  BY <1>1, <1>2, <1>7, <1>8, <2>2, <3>1, <3>3, <4>1 DEF NewRow
    <3> QED  BY <3>2, <3>3
  <2>10. RowsAsAsked(q)'
    BY <1>1, <1>7, <1>8, <1>9, <2>8, <2>9 DEF RowsAsAsked
  <2> QED  BY <2>3, <2>4, <2>10
<1> QED  BY <1>2, <1>6, <1>7, <1>9, GoesOn

LEMMA AnswerQuiet ==
  ASSUME TypeOK, NEW q \in Requests, Quiet(q), AnswerPatch(q) \/ FinishSettings(q)
  PROVE  Quiet(q)'
<1>1. CASE FinishSettings(q)
  <2>1. req'[q] = [pc |-> "idle"]
    BY <1>1 DEF FinishSettings, TypeOK
  <2> QED  BY <2>1 DEF Quiet
<1>2. CASE AnswerPatch(q)
  <2> DEFINE x == [req[q] EXCEPT !.op = "get", !.todo = Types,
                                 !.prefs = prefers[UserOf[q]]]
  <2>1. /\ req[q] \in Request /\ req[q].pc = "look" /\ req[q].op = "patch"
        /\ req[q].todo = {} /\ UNCHANGED <<channel, prefers>>
    BY <1>2, RequestFields DEF AnswerPatch
  <2>2. req' = [req EXCEPT ![q] = x]
    BY <1>2 DEF AnswerPatch, TypeOK
  <2>3. /\ x.pc = "look" /\ x.op = "get" /\ x.body = req[q].body
        /\ x.todo = Types /\ x.to = req[q].to /\ x.alone = req[q].alone
        /\ x.before = req[q].before /\ x.prefs = prefers[UserOf[q]]
    BY <2>1 DEF Request
  <2> HIDE DEF x
  <2>4. req'[q] = x
    BY <2>2 DEF TypeOK
  <2>5. Switched(q)' = Switched(q) /\ Settled(q)' = Settled(q)
        /\ \A s : OfType(s)' = OfType(s)
    BY <2>1, <2>3, <2>4 DEF Switched, Settled, OfType
  <2>6. AtWork(q) => AtWork(q)'
    BY <2>1, <2>3, <2>4 DEF AtWork
  <2>7. OneEach(q) => OneEach(q)'
    BY <2>1, <2>5 DEF OneEach
  <2>8. AtWork(q) /\ RowsAsAsked(q) => RowsAsAsked(q)'
    BY <2>1, <2>3, <2>4, <2>5 DEF AtWork, RowsAsAsked, OldRow, NewRow
  <2> QED  BY <2>1, <2>2, <2>3, <2>6, <2>7, <2>8, GoesOn
<1> QED  BY <1>1, <1>2

QuietInv == \A q \in Requests : Quiet(q)

LEMMA QuietStep ==
  ASSUME TypeOK, QuietInv, [Next]_vars PROVE QuietInv'
<1>1. ASSUME NEW q \in Requests, SettingsStep(q) PROVE QuietInv'
  <2>1. Quiet(q)'
    BY <1>1, BeginQuiet, SavePreferencesQuiet, LookupQuiet, InsertQuiet, SaveQuiet, AnswerQuiet
    DEF SettingsStep, QuietInv
  <2>2. \A o \in Requests \ {q} : Quiet(o)'
    BY <1>1, OthersQuiet DEF QuietInv
  <2> QED  BY <2>1, <2>2 DEF QuietInv
<1>2. CASE UNCHANGED <<channel, prefers, req>>
  <2>1. ASSUME NEW q \in Requests PROVE Quiet(q)'
    <3>1. Switched(q)' = Switched(q) /\ Settled(q)' = Settled(q) /\ Alone(q)' = Alone(q)
          /\ \A s : OfType(s)' = OfType(s)
      BY <1>2 DEF Switched, Settled, OfType, Alone
    <3>2. AtWork(q) => AtWork(q)'
      BY <1>2 DEF AtWork, OfType
    <3>3. OneEach(q) => OneEach(q)'
      BY <1>2, <3>1 DEF OneEach
    <3>4. RowsAsAsked(q) => RowsAsAsked(q)'
      BY <1>2, <3>1 DEF RowsAsAsked, OldRow, NewRow
    <3>5. Quiet(q)
      BY DEF QuietInv
    <3> QED  BY <1>2, <3>1, <3>2, <3>3, <3>4, <3>5 DEF Quiet
  <2> QED  BY <2>1 DEF QuietInv
<1>3. ASSUME NEW h \in Incidents,
             \/ EnqueueDelivery(h) \/ TaskStep(h) \/ SendingFails(h)
             \/ AttemptFails(h) \/ LoseDelivery(h)
      PROVE  UNCHANGED <<channel, prefers, req>>
  BY <1>3 DEF EnqueueDelivery, TaskStep, TakeDelivery, OpenDelivery, SendMessage, SendingFails,
              SaveDelivery, Announce, AttemptFails, RetryDelivery, LoseDelivery
<1> QED  BY <1>1, <1>2, <1>3 DEF Next, vars

(* When it answers, the rows say what it was asked for.                    *)
LEMMA AnsweredAsAsked ==
  ASSUME TypeOK, QuietInv PROVE QuietSettingsAreKept
<1> SUFFICES ASSUME NEW q \in Requests, Answered(q), req[q].alone
             PROVE  LET body == req[q].body
                        old  == req[q].before
                        mail == UserOf[q]
                        On(t, was) == IF t \in Named(body) THEN t \in body.on ELSE was
                        To(t, was) == IF t \notin Named(body) THEN was
                                      ELSE CASE t = "email" -> mail
                                             [] t = "in_app" -> was
                                             [] t = "webhook" ->
                                                  IF body.url \in Urls THEN body.url ELSE was
                    IN /\ \A c \in DOMAIN channel : LET t == channel[c].type IN
                            IF c \in DOMAIN old
                            THEN channel[c] = [old[c] EXCEPT !.enabled = On(t, old[c].enabled),
                                                             !.to = To(t, old[c].to)]
                            ELSE /\ channel[c].enabled = On(t, t \in prefers[UserOf[q]])
                                 /\ channel[c].to = To(t, IF t = "email" THEN mail ELSE Nothing)
                       /\ \A t \in Types : \E c \in DOMAIN channel : OfType(t) = {c}
  BY DEF QuietSettingsAreKept
<1> DEFINE body == req[q].body
           old  == req[q].before
           On(t, was) == IF t \in Named(body) THEN t \in body.on ELSE was
           To(t, was) == IF t \notin Named(body) THEN was
                         ELSE CASE t = "email" -> UserOf[q]
                                [] t = "in_app" -> was
                                [] t = "webhook" -> IF body.url \in Urls THEN body.url ELSE was
<1>1. /\ req[q].pc = "look" /\ req[q].todo = {} /\ req[q].op = "get"
      /\ req[q] \in Request /\ channel \in Seq(ChannelRow)
  BY RequestFields DEF Answered, TypeOK
<1>2. OneEach(q) /\ RowsAsAsked(q) /\ req[q].prefs = prefers[UserOf[q]]
  BY <1>1 DEF QuietInv, Quiet, AtWork
<1>3. Switched(q) = Named(body) /\ Types \subseteq Settled(q)
  BY <1>1 DEF Switched, Settled
<1>4. \A t \in Types : \E c \in DOMAIN channel : OfType(t) = {c}
  BY <1>2, <1>3 DEF OneEach
<1>5. \A t \in Named(body) : t \in Types =>
        \A was : NewAddress(q, t, body, was) = To(t, was)
  BY <1>1, NotificationConstants DEF Request, NewAddress, Types
<1>6. ASSUME NEW c \in DOMAIN channel, c \in DOMAIN old
      PROVE  channel[c] = [old[c] EXCEPT !.enabled = On(channel[c].type, old[c].enabled),
                                         !.to = To(channel[c].type, old[c].to)]
  <2>1. OldRow(q, c) /\ old[c] \in ChannelRow
    BY <1>1, <1>2, <1>6, SeqDomain DEF RowsAsAsked, Request
  <2>2. old[c].type \in Types
    BY <2>1 DEF ChannelRow
  <2>3. channel[c].type = old[c].type
    BY <2>1, PatchedFields DEF OldRow
  <2>4. old[c] = [old[c] EXCEPT !.enabled = old[c].enabled, !.to = old[c].to]
    BY <2>1 DEF ChannelRow
  <2>5. CASE old[c].type \in Named(body)
    <3>1. channel[c] = Patched(q, body, old[c])
      BY <1>3, <2>1, <2>5 DEF OldRow
    <3>2. NewAddress(q, old[c].type, body, old[c].to) = To(old[c].type, old[c].to)
      BY <1>5, <2>2, <2>5
    <3> QED  BY <2>3, <2>5, <3>1, <3>2 DEF Patched
  <2>6. CASE old[c].type \notin Named(body)
    BY <1>3, <2>1, <2>4, <2>6 DEF OldRow
  <2> QED  BY <2>5, <2>6
<1>7. ASSUME NEW c \in DOMAIN channel, c \notin DOMAIN old
      PROVE  LET t == channel[c].type
             IN  /\ channel[c].enabled = On(t, t \in prefers[UserOf[q]])
                 /\ channel[c].to = To(t, IF t = "email" THEN UserOf[q] ELSE Nothing)
  <2>1. NewRow(q, c) /\ channel[c] \in ChannelRow
    BY <1>1, <1>2, <1>7, SeqDomain DEF RowsAsAsked
  <2>2. channel[c].type \in Types
    BY <2>1 DEF ChannelRow
  <2>3. CASE channel[c].type \in Named(body)
    <3>1. /\ channel[c].enabled = (channel[c].type \in body.on)
          /\ channel[c].to = NewAddress(q, channel[c].type, body, Nothing)
      BY <1>1, <2>1, <2>3 DEF NewRow
    <3>2. NewAddress(q, channel[c].type, body, Nothing)
            = To(channel[c].type, IF channel[c].type = "email" THEN UserOf[q] ELSE Nothing)
      BY <1>5, <2>2, <2>3 DEF NewAddress, Types
    <3> QED  BY <2>3, <3>1, <3>2
  <2>4. CASE channel[c].type \notin Named(body)
    BY <1>1, <1>2, <2>1, <2>4 DEF NewRow
  <2> QED  BY <2>3, <2>4
<1> QED  BY <1>4, <1>6, <1>7

(* A settings request that no other one overlaps switches the types it     *)
(* names and changes no other channel, whatever channels there were, and   *)
(* although each of its saves is a commit of its own                       *)
(* (accounts/settings_views.py:49-84).                                     *)
THEOREM QuietSettingsStay == Spec => []QuietSettingsAreKept
<1>1. Init => TypeOK /\ RetriesLeft /\ QuietInv
  BY InitTyped, NotificationConstants DEF Init, RetriesLeft, NoAttempt, QuietInv, Quiet
<1>2. TypeOK /\ RetriesLeft /\ QuietInv /\ [Next]_vars
        => (TypeOK /\ RetriesLeft /\ QuietInv)'
  BY NextTyped, QuietStep
<1>3. TypeOK /\ QuietInv => QuietSettingsAreKept
  BY AnsweredAsAsked
<1> QED  BY <1>1, <1>2, <1>3, PTL DEF Spec

-----------------------------------------------------------------------------
(* Deliveries.  What holds of a row d of incident h ...                    *)
RowKept(d, h) ==
  LET row == delivery[d]  type == channel[delivery[d].channel].type IN
  /\ row.attempt <= MaxRetries + 1 /\ row.attempt <= task[h].tries + 1
  /\ task[h].pc \in {"none", "queued", "failing"} => row.attempt <= task[h].tries
  /\ task[h].pc \in {"loop", "send", "save"} /\ row.attempt = task[h].tries + 1 =>
       row.channel \notin task[h].todo
  /\ row.status = "sent" /\ ~ row.left => type = "in_app"
  /\ row.left => row.status # "skipped" /\ type # "in_app"
  /\ row.status = "queued" => task[h].row = d \/ row.attempt <= task[h].tries

(* ... of the one that is being worked on ...                              *)
Current(h) ==
  task[h].pc \in {"send", "save"} =>
    LET row == delivery[task[h].row]  out == task[h].outcome IN
    /\ row.incident = h /\ row.attempt = task[h].tries + 1 /\ row.status = "queued"
    /\ row.channel \in DOMAIN task[h].got
    /\ task[h].pc = "send" => ~ row.left
    /\ task[h].pc = "save" =>
         /\ out # "queued" /\ (row.left => out # "skipped")
         /\ out = "sent" /\ ~ row.left => channel[row.channel].type = "in_app"

(* ... of the channels an attempt has fetched, and is done with ...        *)
Addressed(h) ==
  \A c \in DOMAIN task[h].got : channel[c].type = "email" => task[h].got[c] # Nothing

Outcome(d, c, h) ==
  /\ delivery[d].channel = c /\ delivery[d].incident = h
  /\ delivery[d].attempt = task[h].tries + 1
  /\ delivery[d].status # "queued" \/ d = task[h].row

Told(h) ==
  task[h].pc \in {"loop", "send", "save", "done"} =>
    \A c \in DOMAIN task[h].got \ task[h].todo : \E d \in DOMAIN delivery : Outcome(d, c, h)

AtRest(h) ==
  /\ task[h].pc \notin {"send", "save", "lost"} => task[h].row = 0
  /\ task[h].pc = "done" => task[h].todo = {}

RowsKept(h) == \A d \in DOMAIN delivery : delivery[d].incident = h => RowKept(d, h)

IncidentInv(h) == RowsKept(h) /\ Current(h) /\ Addressed(h) /\ Told(h) /\ AtRest(h)

DeliveryInv == \A h \in Incidents : IncidentInv(h)

(* An incident whose task and rows stay.                                   *)
LEMMA IncidentStays ==
  ASSUME TypeOK, NEW g \in Incidents, IncidentInv(g), task'[g] = task[g],
         \A c \in DOMAIN channel : c \in DOMAIN channel' /\ channel'[c].type = channel[c].type,
         DOMAIN delivery \subseteq DOMAIN delivery',
         \A d \in DOMAIN delivery : delivery[d].incident = g => delivery'[d] = delivery[d],
         \A d \in DOMAIN delivery' :
           delivery'[d].incident = g => d \in DOMAIN delivery /\ delivery'[d] = delivery[d]
  PROVE  IncidentInv(g)'
<1>1. \A d \in DOMAIN delivery : delivery[d].channel \in DOMAIN channel
  BY DEF TypeOK
<1>2. RowsKept(g)'
  BY <1>1 DEF IncidentInv, RowsKept, RowKept
<1>3. Current(g)'
  <2> SUFFICES ASSUME task[g].pc \in {"send", "save"} PROVE Current(g)'
    BY DEF Current
  <2>1. task[g].row \in DOMAIN delivery /\ delivery[task[g].row].incident = g
    BY TaskFields DEF IncidentInv, Current
  <2>2. delivery'[task[g].row] = delivery[task[g].row]
    BY <2>1
  <2> QED  BY <1>1, <2>1, <2>2 DEF IncidentInv, Current
<1>4. Addressed(g)'
  BY TaskFields DEF IncidentInv, Addressed
<1>5. Told(g)'
  <2> SUFFICES ASSUME task[g].pc \in {"loop", "send", "save", "done"},
                      NEW c \in DOMAIN task[g].got \ task[g].todo
               PROVE  \E d \in DOMAIN delivery' : Outcome(d, c, g)'
    BY DEF Told
  <2>1. PICK d \in DOMAIN delivery : Outcome(d, c, g)
    BY DEF IncidentInv, Told
  <2>2. Outcome(d, c, g)'
    BY <2>1 DEF Outcome
  <2> QED  BY <2>1, <2>2
<1>6. AtRest(g)'
  BY DEF IncidentInv, AtRest
<1> QED  BY <1>2, <1>3, <1>4, <1>5, <1>6 DEF IncidentInv

(* The rows of other incidents stay when a task appends or changes a row   *)
(* of its own.                                                             *)
LEMMA OpenRows ==
  ASSUME TypeOK, NEW h \in Incidents, NEW c \in DOMAIN channel, OpenDelivery(h, c)
  PROVE  LET n == Len(delivery) + 1 IN
         /\ DOMAIN delivery' = DOMAIN delivery \union {n} /\ n \notin DOMAIN delivery
         /\ n \in Nat /\ n # 0
         /\ \A d \in DOMAIN delivery : delivery'[d] = delivery[d]
         /\ delivery'[n].channel = c /\ delivery'[n].incident = h
         /\ delivery'[n].attempt = task[h].tries + 1 /\ delivery'[n].status = "queued"
         /\ delivery'[n].left = FALSE
<1> DEFINE row == [channel |-> c, incident |-> h, status |-> "queued",
                   left |-> FALSE, attempt |-> task[h].tries + 1]
<1>1. row \in DeliveryRow
  <2>1. c \in Nat /\ task[h].tries + 1 \in Nat
    BY TaskFields, SeqDomain, NotificationConstants DEF TypeOK
  <2> QED  BY <2>1 DEF DeliveryRow
<1>2. /\ row.channel = c /\ row.incident = h /\ row.attempt = task[h].tries + 1
      /\ row.status = "queued" /\ row.left = FALSE
  OBVIOUS
<1>3. delivery \in Seq(DeliveryRow) /\ delivery' = Append(delivery, row)
  BY DEF OpenDelivery, TypeOK
<1> HIDE DEF row
<1> QED  BY <1>1, <1>2, <1>3, Appended

(* The task of h after each of its steps.                                  *)
LEMMA TaskAfter ==
  ASSUME TypeOK, NEW h \in Incidents,
         \/ EnqueueDelivery(h) \/ TaskStep(h) \/ SendingFails(h)
         \/ AttemptFails(h) \/ LoseDelivery(h)
  PROVE  channel' = channel /\ \A g \in Incidents \ {h} : task'[g] = task[g]
<1>1. DOMAIN task = Incidents
  BY DEF TypeOK
<1> QED  BY <1>1 DEF EnqueueDelivery, TaskStep, TakeDelivery, OpenDelivery, SendMessage,
              SendingFails, Sent, SaveDelivery, Announce, AttemptFails, RetryDelivery, LoseDelivery

(* The step leaves every row as it is.                                     *)
LEMMA QuietKeeps ==
  ASSUME TypeOK, RetriesLeft, Founded, NEW h \in Incidents, IncidentInv(h),
         \/ EnqueueDelivery(h) \/ TakeDelivery(h) \/ Announce(h)
         \/ AttemptFails(h) \/ RetryDelivery(h) \/ LoseDelivery(h)
  PROVE  IncidentInv(h)' /\ delivery' = delivery
<1>1. task[h] \in Attempt /\ DOMAIN task = Incidents /\ channel' = channel
      /\ task[h].tries \in 0 .. MaxRetries + 1
  BY TaskAfter, TaskFields DEF TypeOK, TaskStep
<1>2. delivery' = delivery
  BY DEF EnqueueDelivery, TakeDelivery, Announce, AttemptFails, RetryDelivery, LoseDelivery
<1>3. CASE EnqueueDelivery(h)
  <2>1. /\ task[h].pc = "none" /\ task'[h] = [task[h] EXCEPT !.pc = "queued"]
    BY <1>1, <1>3 DEF EnqueueDelivery
  <2>2. /\ task'[h].pc = "queued" /\ task'[h].tries = task[h].tries
        /\ task'[h].todo = task[h].todo /\ task'[h].row = task[h].row
        /\ task'[h].got = task[h].got
    BY <1>1, <2>1 DEF Attempt
  <2> QED  BY <1>1, <1>2, <2>1, <2>2 DEF IncidentInv, RowsKept, RowKept, Current, Addressed,
                 Told, AtRest
<1>4. CASE TakeDelivery(h)
  <2>1. PICK named \in RuleChannels :
          task' = [task EXCEPT ![h].pc = "loop", ![h].todo = EnabledChannels(named),
                     ![h].got = [c \in EnabledChannels(named) |-> channel[c].to]]
    BY <1>4 DEF TakeDelivery
  <2> DEFINE cs == EnabledChannels(named)
  <2>2. /\ task'[h].pc = "loop" /\ task'[h].tries = task[h].tries
        /\ task'[h].todo = cs /\ task'[h].row = task[h].row
        /\ task'[h].got = [c \in cs |-> channel[c].to] /\ task[h].pc = "queued"
    BY <1>1, <1>4, <2>1 DEF Attempt, TakeDelivery
  <2>3. cs \subseteq DOMAIN channel
    BY DEF EnabledChannels
  <2> HIDE DEF cs
  <2>4. Addressed(h)'
    BY <1>1, <2>2, <2>3, NotificationConstants DEF Addressed, Founded
  <2>5. RowsKept(h)'
    <3> SUFFICES ASSUME NEW d \in DOMAIN delivery, delivery[d].incident = h
                 PROVE  RowKept(d, h)'
      BY <1>2 DEF RowsKept
    <3>1. delivery[d].attempt <= task[h].tries /\ RowKept(d, h)
      BY <2>2 DEF IncidentInv, RowsKept, RowKept
    <3>2. delivery[d].attempt \in Nat
      <4>1. delivery \in Seq(DeliveryRow)
        BY DEF TypeOK
      <4>2. delivery[d] \in DeliveryRow
        BY <4>1, SeqDomain
      <4> QED  BY <4>2 DEF DeliveryRow
    <3>3. delivery[d].attempt # task[h].tries + 1
      BY <1>1, <3>1, <3>2, NotificationConstants
    <3> QED  BY <1>1, <1>2, <2>2, <3>1, <3>3 DEF RowKept
  <2> QED  BY <1>1, <1>2, <2>2, <2>4, <2>5 DEF IncidentInv, Current, Told, AtRest
<1>5. CASE Announce(h)
  <2>1. /\ task[h].pc = "loop" /\ task'[h] = [task[h] EXCEPT !.pc = "done"]
        /\ task[h].todo = {}
    BY <1>1, <1>5 DEF Announce
  <2>2. /\ task'[h].pc = "done" /\ task'[h].tries = task[h].tries
        /\ task'[h].todo = task[h].todo /\ task'[h].row = task[h].row
        /\ task'[h].got = task[h].got
    BY <1>1, <2>1 DEF Attempt
  <2>3. Told(h)'
    BY <1>2, <2>1, <2>2 DEF IncidentInv, Told, Outcome
  <2> QED  BY <1>1, <1>2, <2>1, <2>2, <2>3 DEF IncidentInv, RowsKept, RowKept, Current,
                 Addressed, AtRest
<1>6. CASE AttemptFails(h)
  <2>1. task'[h] = [NoAttempt EXCEPT !.pc = "failing", !.tries = task[h].tries + 1]
    BY <1>1, <1>6 DEF AttemptFails
  <2>2. /\ task'[h].pc = "failing" /\ task'[h].tries = task[h].tries + 1
        /\ task'[h].row = 0 /\ DOMAIN task'[h].got = {}
    BY <2>1 DEF NoAttempt
  <2>3. RowsKept(h)'
    <3> SUFFICES ASSUME NEW d \in DOMAIN delivery, delivery[d].incident = h
                 PROVE  RowKept(d, h)'
      BY <1>2 DEF RowsKept
    <3>1. RowKept(d, h)
      BY DEF IncidentInv, RowsKept
    <3>2. delivery[d].attempt \in Nat
      <4>1. delivery \in Seq(DeliveryRow)
        BY DEF TypeOK
      <4>2. delivery[d] \in DeliveryRow
        BY <4>1, SeqDomain
      <4> QED  BY <4>2 DEF DeliveryRow
    <3> QED  BY <1>1, <1>2, <2>2, <3>1, <3>2, NotificationConstants DEF RowKept
  <2> QED  BY <1>1, <1>2, <2>2, <2>3 DEF IncidentInv, Current, Addressed, Told, AtRest
<1>7. CASE RetryDelivery(h)
  <2>1. PICK pc \in {"queued", "dropped"} : task'[h] = [task[h] EXCEPT !.pc = pc]
    BY <1>1, <1>7 DEF RetryDelivery
  <2>2. /\ task[h].pc = "failing" /\ task'[h].pc = pc /\ task'[h].tries = task[h].tries
        /\ task'[h].todo = task[h].todo /\ task'[h].row = task[h].row
        /\ task'[h].got = task[h].got
    BY <1>1, <1>7, <2>1 DEF Attempt, RetryDelivery
  <2> QED  BY <1>1, <1>2, <2>1, <2>2 DEF IncidentInv, RowsKept, RowKept, Current, Addressed,
                 Told, AtRest
<1>8. CASE LoseDelivery(h)
  <2>1. task'[h] = [NoAttempt EXCEPT !.pc = "lost", !.tries = task[h].tries,
                                     !.row = task[h].row]
    BY <1>1, <1>8 DEF LoseDelivery
  <2>2. /\ task'[h].pc = "lost" /\ task'[h].tries = task[h].tries
        /\ task'[h].row = task[h].row /\ DOMAIN task'[h].got = {}
    BY <2>1 DEF NoAttempt
  <2> QED  BY <1>1, <1>2, <2>2 DEF IncidentInv, RowsKept, RowKept, Current, Addressed,
                 Told, AtRest
<1> QED  BY <1>2, <1>3, <1>4, <1>5, <1>6, <1>7, <1>8

LEMMA OpenKeeps ==
  ASSUME TypeOK, RetriesLeft, NEW h \in Incidents, IncidentInv(h),
         NEW c \in DOMAIN channel, OpenDelivery(h, c)
  PROVE  IncidentInv(h)'
<1>1. task[h] \in Attempt /\ DOMAIN task = Incidents /\ channel' = channel
      /\ task[h].tries \in 0 .. MaxRetries + 1 /\ task[h].todo \subseteq DOMAIN task[h].got
  BY TaskFields DEF TypeOK, OpenDelivery
<1>2. PICK n \in Nat \ {0} :
        /\ n = Len(delivery) + 1
        /\ DOMAIN delivery' = DOMAIN delivery \union {n} /\ n \notin DOMAIN delivery
        /\ \A d \in DOMAIN delivery : delivery'[d] = delivery[d]
        /\ delivery'[n].channel = c /\ delivery'[n].incident = h
        /\ delivery'[n].attempt = task[h].tries + 1 /\ delivery'[n].status = "queued"
        /\ delivery'[n].left = FALSE
  BY OpenRows
<1>3. /\ task[h].pc = "loop" /\ c \in task[h].todo
      /\ task'[h] = [task[h] EXCEPT !.pc = "send", !.todo = @ \ {c}, !.row = n]
  BY <1>1, <1>2 DEF OpenDelivery
<1>4. /\ task'[h].pc = "send" /\ task'[h].tries = task[h].tries
      /\ task'[h].todo = task[h].todo \ {c} /\ task'[h].row = n
      /\ task'[h].got = task[h].got
  BY <1>1, <1>3 DEF Attempt
<1>5. 0 \notin DOMAIN delivery /\ task[h].row = 0
  <2>1. delivery \in Seq(DeliveryRow)
    BY DEF TypeOK
  <2> QED  BY <1>3, <2>1, SeqDomain DEF IncidentInv, AtRest
<1>6. RowsKept(h)'
  <2> SUFFICES ASSUME NEW d \in DOMAIN delivery', delivery'[d].incident = h
               PROVE  RowKept(d, h)'
    BY DEF RowsKept
  <2>1. CASE d = n
    <3>1. task[h].tries + 1 <= MaxRetries + 1
      BY <1>1, <1>3, NotificationConstants DEF RetriesLeft
    <3> QED  BY <1>1, <1>2, <1>4, <2>1, <3>1, NotificationConstants DEF RowKept
  <2>2. CASE d \in DOMAIN delivery
    <3>1. RowKept(d, h) /\ delivery'[d] = delivery[d]
      BY <1>2, <2>2 DEF IncidentInv, RowsKept
    <3>2. delivery[d].status = "queued" => delivery[d].attempt <= task[h].tries
      BY <1>5, <2>2, <3>1 DEF RowKept
    <3> QED  BY <1>1, <1>3, <1>4, <3>1, <3>2 DEF RowKept
  <2> QED  BY <1>2, <2>1, <2>2
<1>7. Current(h)'
  BY <1>1, <1>2, <1>3, <1>4 DEF Current
<1>8. Told(h)'
  <2> SUFFICES ASSUME NEW b \in DOMAIN task[h].got \ (task[h].todo \ {c})
               PROVE  \E d \in DOMAIN delivery' : Outcome(d, b, h)'
    BY <1>4 DEF Told
  <2>1. CASE b = c
    BY <1>2, <1>4, <2>1 DEF Outcome
  <2>2. CASE b # c
    <3>1. PICK d \in DOMAIN delivery : Outcome(d, b, h)
      BY <1>3, <2>2 DEF IncidentInv, Told
    <3> QED  BY <1>2, <1>4, <1>5, <3>1 DEF Outcome
  <2> QED  BY <2>1, <2>2
<1>9. Addressed(h)' /\ AtRest(h)'
  BY <1>1, <1>4 DEF IncidentInv, Addressed, AtRest
<1> QED  BY <1>6, <1>7, <1>8, <1>9 DEF IncidentInv

(* The row a task works on changes.                                        *)
LEMMA RowChanges ==
  ASSUME TypeOK, NEW h \in Incidents, task[h].pc \in {"send", "save"},
         NEW row, delivery' = [delivery EXCEPT ![task[h].row] = row]
  PROVE  /\ DOMAIN delivery' = DOMAIN delivery /\ task[h].row \in DOMAIN delivery
         /\ delivery'[task[h].row] = row
         /\ \A d \in DOMAIN delivery : d # task[h].row => delivery'[d] = delivery[d]
BY TaskFields

LEMMA SentKeeps ==
  ASSUME TypeOK, NEW h \in Incidents, IncidentInv(h), NEW left \in BOOLEAN,
         NEW outcome \in {"sent", "failed", "skipped"},
         task[h].pc = "send", channel' = channel, Sent(h, left, outcome),
         left => /\ outcome # "skipped"
                 /\ channel[delivery[task[h].row].channel].type # "in_app",
         outcome = "sent" /\ ~ left =>
           channel[delivery[task[h].row].channel].type = "in_app"
  PROVE  IncidentInv(h)'
<1> DEFINE r == task[h].row
           row == [delivery[r] EXCEPT !.left = left]
<1>1. task[h] \in Attempt /\ DOMAIN task = Incidents /\ delivery[r] \in DeliveryRow
  BY TaskFields DEF TypeOK
<1>2. /\ row.channel = delivery[r].channel /\ row.incident = delivery[r].incident
      /\ row.attempt = delivery[r].attempt /\ row.status = delivery[r].status
      /\ row.left = left
  BY <1>1 DEF DeliveryRow
<1>3. delivery' = [delivery EXCEPT ![r] = row]
  BY TaskFields DEF Sent
<1> HIDE DEF row
<1>4. /\ DOMAIN delivery' = DOMAIN delivery /\ r \in DOMAIN delivery
      /\ delivery'[r] = row
      /\ \A d \in DOMAIN delivery : d # r => delivery'[d] = delivery[d]
  BY <1>3, RowChanges
<1>5. /\ task'[h].pc = "save" /\ task'[h].tries = task[h].tries
      /\ task'[h].todo = task[h].todo /\ task'[h].row = task[h].row
      /\ task'[h].got = task[h].got /\ task'[h].outcome = outcome
  BY <1>1 DEF Sent, Attempt
<1>6. Current(h) /\ RowsKept(h) /\ Told(h)
  BY DEF IncidentInv
<1>7. RowsKept(h)'
  <2> SUFFICES ASSUME NEW d \in DOMAIN delivery, delivery'[d].incident = h
               PROVE  RowKept(d, h)'
    BY <1>4 DEF RowsKept
  <2>1. delivery[d].incident = h /\ RowKept(d, h)
    BY <1>2, <1>4, <1>6 DEF RowsKept
  <2>2. CASE d = r
    <3>1. delivery[r].status = "queued"
      BY <1>6 DEF Current
    <3> QED  BY <1>2, <1>4, <1>5, <2>1, <2>2, <3>1 DEF RowKept
  <2>3. CASE d # r
    BY <1>4, <1>5, <2>1, <2>3 DEF RowKept
  <2> QED  BY <2>2, <2>3
<1>8. Current(h)'
  BY <1>2, <1>4, <1>5, <1>6 DEF Current
<1>9. Told(h)'
  <2> SUFFICES ASSUME NEW b \in DOMAIN task[h].got \ task[h].todo
               PROVE  \E d \in DOMAIN delivery' : Outcome(d, b, h)'
    BY <1>5 DEF Told
  <2>1. PICK d \in DOMAIN delivery : Outcome(d, b, h)
    BY <1>6 DEF Told
  <2>2. Outcome(d, b, h)'
    BY <1>2, <1>4, <1>5, <2>1 DEF Outcome
  <2> QED  BY <1>4, <2>2
<1>10. Addressed(h)' /\ AtRest(h)'
  BY <1>5 DEF IncidentInv, Addressed, AtRest
<1> QED  BY <1>7, <1>8, <1>9, <1>10 DEF IncidentInv

LEMMA SendKeeps ==
  ASSUME TypeOK, NEW h \in Incidents, IncidentInv(h), SendMessage(h) \/ SendingFails(h)
  PROVE  IncidentInv(h)'
<1>1. PICK c : c = delivery[task[h].row].channel
  OBVIOUS
<1>2. /\ task[h].pc = "send" /\ channel' = channel
      /\ delivery[task[h].row] \in DeliveryRow
  BY TaskFields DEF SendMessage, SendingFails
<1>3. c \in DOMAIN task[h].got /\ c \in DOMAIN channel
  BY <1>1, <1>2, TaskFields DEF IncidentInv, Current
<1>4. channel[c].type = "email" => task[h].got[c] # Nothing
  BY <1>3 DEF IncidentInv, Addressed
<1>5. PICK left \in BOOLEAN, outcome \in {"sent", "failed", "skipped"} :
        /\ Sent(h, left, outcome)
        /\ left => outcome # "skipped" /\ channel[c].type # "in_app"
        /\ outcome = "sent" /\ ~ left => channel[c].type = "in_app"
  <2>1. CASE SendMessage(h)
    <3>1. \/ channel[c].type = "in_app" /\ Sent(h, FALSE, "sent")
          \/ /\ channel[c].type = "email"
             /\ Sent(h, task[h].got[c] # Nothing, "sent")
          \/ /\ channel[c].type = "webhook"
             /\ Sent(h, task[h].got[c] # Nothing,
                     IF task[h].got[c] # Nothing THEN "sent" ELSE "skipped")
      BY <1>1, <2>1 DEF SendMessage
    <3>2. CASE channel[c].type = "in_app" /\ Sent(h, FALSE, "sent")
      BY <3>2
    <3>3. CASE task[h].got[c] = Nothing /\ channel[c].type # "in_app"
      <4>1. (task[h].got[c] # Nothing) = FALSE
        BY <3>3
      <4>2. Sent(h, FALSE, "skipped")
        BY <1>4, <3>1, <3>3, <4>1
      <4> QED  BY <4>2
    <3>4. CASE task[h].got[c] # Nothing /\ channel[c].type # "in_app"
      <4>1. (task[h].got[c] # Nothing) = TRUE
        BY <3>4
      <4>2. Sent(h, TRUE, "sent")
        BY <3>1, <3>4, <4>1
      <4> QED  BY <3>4, <4>2
    <3> QED  BY <3>1, <3>2, <3>3, <3>4
  <2>2. CASE SendingFails(h)
    <3>1. /\ channel[c].type # "in_app"
          /\ Sent(h, FALSE, "failed") \/ Sent(h, TRUE, "failed")
      BY <1>1, <2>2 DEF SendingFails
    <3> QED  BY <3>1
  <2> QED  BY <2>1, <2>2
<1> QED  BY <1>1, <1>2, <1>5, SentKeeps

LEMMA SaveRowKeeps ==
  ASSUME TypeOK, NEW h \in Incidents, IncidentInv(h), SaveDelivery(h)
  PROVE  IncidentInv(h)'
<1> DEFINE r == task[h].row
           row == [delivery[r] EXCEPT !.status = task[h].outcome]
<1>1. task[h] \in Attempt /\ DOMAIN task = Incidents /\ delivery[r] \in DeliveryRow
      /\ task[h].pc = "save" /\ channel' = channel
  BY TaskFields DEF TypeOK, SaveDelivery
<1>2. /\ row.channel = delivery[r].channel /\ row.incident = delivery[r].incident
      /\ row.attempt = delivery[r].attempt /\ row.left = delivery[r].left
      /\ row.status = task[h].outcome
  BY <1>1 DEF DeliveryRow
<1>3. delivery' = [delivery EXCEPT ![r] = row]
  BY <1>1, TaskFields DEF SaveDelivery
<1> HIDE DEF row
<1>4. /\ DOMAIN delivery' = DOMAIN delivery /\ r \in DOMAIN delivery
      /\ delivery'[r] = row
      /\ \A d \in DOMAIN delivery : d # r => delivery'[d] = delivery[d]
  BY <1>1, <1>3, RowChanges
<1>5. /\ task'[h].pc = "loop" /\ task'[h].tries = task[h].tries
      /\ task'[h].todo = task[h].todo /\ task'[h].row = 0
      /\ task'[h].got = task[h].got
  BY <1>1 DEF SaveDelivery, Attempt
<1>6. Current(h) /\ RowsKept(h) /\ Told(h)
  BY DEF IncidentInv
<1>7. RowsKept(h)'
  <2> SUFFICES ASSUME NEW d \in DOMAIN delivery, delivery'[d].incident = h
               PROVE  RowKept(d, h)'
    BY <1>4 DEF RowsKept
  <2>1. delivery[d].incident = h /\ RowKept(d, h)
    BY <1>2, <1>4, <1>6 DEF RowsKept
  <2>2. CASE d = r
    <3>1. /\ task[h].outcome # "queued" /\ (row.left => task[h].outcome # "skipped")
          /\ task[h].outcome = "sent" /\ ~ row.left => channel[row.channel].type = "in_app"
      BY <1>1, <1>2, <1>6 DEF Current
    <3> QED  BY <1>1, <1>2, <1>4, <1>5, <2>1, <2>2, <3>1 DEF RowKept
  <2>3. CASE d # r
    BY <1>1, <1>4, <1>5, <2>1, <2>3 DEF RowKept
  <2> QED  BY <2>2, <2>3
<1>8. Current(h)'
  BY <1>5 DEF Current
<1>9. Told(h)'
  <2> SUFFICES ASSUME NEW b \in DOMAIN task[h].got \ task[h].todo
               PROVE  \E d \in DOMAIN delivery' : Outcome(d, b, h)'
    BY <1>5 DEF Told
  <2>1. PICK d \in DOMAIN delivery : Outcome(d, b, h)
    BY <1>1, <1>6 DEF Told
  <2>2. task[h].outcome # "queued"
    BY <1>1, <1>6 DEF Current
  <2>3. Outcome(d, b, h)'
    BY <1>2, <1>4, <1>5, <2>1, <2>2 DEF Outcome
  <2> QED  BY <1>4, <2>3
<1>10. Addressed(h)' /\ AtRest(h)'
  BY <1>1, <1>5 DEF IncidentInv, Addressed, AtRest
<1> QED  BY <1>7, <1>8, <1>9, <1>10 DEF IncidentInv

(* A step of h changes no other incident's rows; no row changes its        *)
(* channel, its incident or its attempt.                                   *)
Fixed(h) ==
  /\ DOMAIN delivery \subseteq DOMAIN delivery'
  /\ \A d \in DOMAIN delivery :
       /\ delivery[d].incident # h => delivery'[d] = delivery[d]
       /\ delivery'[d].channel = delivery[d].channel
       /\ delivery'[d].incident = delivery[d].incident
       /\ delivery'[d].attempt = delivery[d].attempt
  /\ \A d \in DOMAIN delivery' \ DOMAIN delivery : delivery'[d].incident = h

LEMMA TaskFixes ==
  ASSUME ChannelInv, NEW h \in Incidents, IncidentInv(h),
         \/ EnqueueDelivery(h) \/ TaskStep(h) \/ SendingFails(h)
         \/ AttemptFails(h) \/ LoseDelivery(h)
  PROVE  /\ Fixed(h) /\ IncidentInv(h)'
         /\ DOMAIN delivery' = DOMAIN delivery \/ \E c \in DOMAIN channel : OpenDelivery(h, c)
<1>1. CASE \/ EnqueueDelivery(h) \/ TakeDelivery(h) \/ Announce(h)
           \/ AttemptFails(h) \/ RetryDelivery(h) \/ LoseDelivery(h)
  <2>1. delivery' = delivery /\ IncidentInv(h)'
    BY <1>1, QuietKeeps DEF ChannelInv
  <2> QED  BY <2>1 DEF Fixed
<1>2. ASSUME NEW c \in DOMAIN channel, OpenDelivery(h, c)
      PROVE  Fixed(h) /\ IncidentInv(h)'
  <2>1. IncidentInv(h)'
    BY <1>2, OpenKeeps DEF ChannelInv
  <2>2. Fixed(h)
    BY <1>2, OpenRows DEF ChannelInv, Fixed
  <2> QED  BY <2>1, <2>2
<1>3. CASE SendMessage(h) \/ SendingFails(h) \/ SaveDelivery(h)
  <2>1. IncidentInv(h)'
    BY <1>3, SendKeeps, SaveRowKeeps DEF ChannelInv
  <2>2. /\ task[h].pc \in {"send", "save"}
        /\ delivery[task[h].row].incident = h /\ delivery[task[h].row] \in DeliveryRow
    <3>1. task[h].pc \in {"send", "save"}
      BY <1>3 DEF SendMessage, SendingFails, SaveDelivery
    <3> QED  BY <3>1, TaskFields DEF ChannelInv, IncidentInv, Current
  <2>3. PICK row : /\ delivery' = [delivery EXCEPT ![task[h].row] = row]
                   /\ row.channel = delivery[task[h].row].channel /\ row.incident = h
                   /\ row.attempt = delivery[task[h].row].attempt
    <3>1. CASE SaveDelivery(h)
      <4> DEFINE row == [delivery[task[h].row] EXCEPT !.status = task[h].outcome]
      <4>1. delivery' = [delivery EXCEPT ![task[h].row] = row]
        BY <2>2, <3>1, TaskFields DEF SaveDelivery, ChannelInv
      <4>2. /\ row.channel = delivery[task[h].row].channel /\ row.incident = h
            /\ row.attempt = delivery[task[h].row].attempt
        BY <2>2 DEF DeliveryRow
      <4> QED  BY <4>1, <4>2
    <3>2. CASE SendMessage(h) \/ SendingFails(h)
      <4>1. PICK left : delivery' = [delivery EXCEPT ![task[h].row].left = left]
        BY <3>2 DEF SendMessage, SendingFails, Sent
      <4> DEFINE row == [delivery[task[h].row] EXCEPT !.left = left]
      <4>2. delivery' = [delivery EXCEPT ![task[h].row] = row]
        BY <2>2, <4>1, TaskFields DEF ChannelInv
      <4>3. /\ row.channel = delivery[task[h].row].channel /\ row.incident = h
            /\ row.attempt = delivery[task[h].row].attempt
        BY <2>2 DEF DeliveryRow
      <4> QED  BY <4>2, <4>3
    <3> QED  BY <1>3, <3>1, <3>2
  <2>4. /\ DOMAIN delivery' = DOMAIN delivery /\ delivery'[task[h].row] = row
        /\ \A d \in DOMAIN delivery : d # task[h].row => delivery'[d] = delivery[d]
    BY <2>2, <2>3, RowChanges DEF ChannelInv
  <2> QED  BY <2>1, <2>2, <2>3, <2>4 DEF Fixed
<1> QED  BY <1>1, <1>2, <1>3 DEF TaskStep

LEMMA DeliveryInit == ASSUME Init PROVE DeliveryInv
<1>1. DOMAIN delivery = {} /\ \A h \in Incidents : task[h] = NoAttempt
  BY DEF Init
<1> QED  BY <1>1 DEF DeliveryInv, IncidentInv, RowsKept, Current, Addressed, Told, AtRest,
             NoAttempt

(* The rows of one incident and channel are in the order of their attempts. *)
Ordered ==
  \A d, e \in DOMAIN delivery :
    /\ d < e /\ delivery[d].channel = delivery[e].channel
    /\ delivery[d].incident = delivery[e].incident
    => delivery[d].attempt < delivery[e].attempt

LEMMA OpenOrders ==
  ASSUME ChannelInv, DeliveryInv, Ordered, NEW h \in Incidents, NEW c \in DOMAIN channel,
         OpenDelivery(h, c)
  PROVE  Ordered'
<1>1. PICK n \in Nat :
        /\ n = Len(delivery) + 1 /\ n \notin DOMAIN delivery
        /\ DOMAIN delivery' = DOMAIN delivery \union {n}
        /\ \A d \in DOMAIN delivery : delivery'[d] = delivery[d]
        /\ delivery'[n].channel = c /\ delivery'[n].incident = h
        /\ delivery'[n].attempt = task[h].tries + 1
  BY OpenRows DEF ChannelInv
<1>2. delivery \in Seq(DeliveryRow)
  BY DEF ChannelInv, TypeOK
<1>3. \A d \in DOMAIN delivery : d < n
  <2>1. DOMAIN delivery = 1 .. Len(delivery) /\ Len(delivery) \in Nat
    BY <1>2, LenProperties
  <2> QED  BY <1>1, <2>1
<1>4. ASSUME NEW d \in DOMAIN delivery, delivery[d].channel = c, delivery[d].incident = h
      PROVE  delivery[d].attempt < task[h].tries + 1
  <2>1. RowKept(d, h) /\ task[h].pc = "loop" /\ c \in task[h].todo
    BY <1>4 DEF DeliveryInv, IncidentInv, RowsKept, OpenDelivery
  <2>2. delivery[d].attempt <= task[h].tries + 1 /\ delivery[d].attempt # task[h].tries + 1
    BY <1>4, <2>1 DEF RowKept
  <2>3. delivery[d].attempt \in Nat /\ task[h].tries \in Nat
    <3>1. delivery[d] \in DeliveryRow
      BY <1>2, SeqDomain
    <3> QED  BY <3>1, TaskFields, NotificationConstants DEF DeliveryRow, ChannelInv
  <2> QED  BY <2>2, <2>3
<1> SUFFICES ASSUME NEW d \in DOMAIN delivery', NEW e \in DOMAIN delivery', d < e,
                    delivery'[d].channel = delivery'[e].channel,
                    delivery'[d].incident = delivery'[e].incident
             PROVE  delivery'[d].attempt < delivery'[e].attempt
  BY DEF Ordered
<1>5. d \in DOMAIN delivery
  <2>1. e \in DOMAIN delivery \/ e = n
    BY <1>1
  <2>2. \A i \in DOMAIN delivery : i \in Nat
    BY <1>2, SeqDomain
  <2>3. d # n
    BY <1>1, <1>3, <2>1, <2>2
  <2> QED  BY <1>1, <2>3
<1>6. CASE e = n
  BY <1>1, <1>4, <1>5, <1>6
<1>7. CASE e # n
  BY <1>1, <1>5, <1>7 DEF Ordered
<1> QED  BY <1>6, <1>7

LEMMA DeliveryStep ==
  ASSUME ChannelInv, DeliveryInv, Ordered, [Next]_vars PROVE DeliveryInv' /\ Ordered'
<1>1. ASSUME NEW h \in Incidents,
             \/ EnqueueDelivery(h) \/ TaskStep(h) \/ SendingFails(h)
             \/ AttemptFails(h) \/ LoseDelivery(h)
      PROVE  DeliveryInv' /\ Ordered'
  <2>1. /\ Fixed(h) /\ IncidentInv(h)'
        /\ DOMAIN delivery' = DOMAIN delivery \/ \E c \in DOMAIN channel : OpenDelivery(h, c)
    BY <1>1, TaskFixes DEF DeliveryInv
  <2>2. channel' = channel /\ \A g \in Incidents \ {h} : task'[g] = task[g]
    BY <1>1, TaskAfter DEF ChannelInv
  <2>3. ASSUME NEW g \in Incidents \ {h} PROVE IncidentInv(g)'
    <3>1. IncidentInv(g) /\ TypeOK
      BY DEF DeliveryInv, ChannelInv
    <3>2. \A d \in DOMAIN delivery : delivery[d].incident = g => delivery'[d] = delivery[d]
      BY <2>1 DEF Fixed
    <3>3. \A d \in DOMAIN delivery' :
            delivery'[d].incident = g => d \in DOMAIN delivery /\ delivery'[d] = delivery[d]
      BY <2>1 DEF Fixed
    <3>4. DOMAIN delivery \subseteq DOMAIN delivery'
      BY <2>1 DEF Fixed
    <3> QED  BY <2>2, <3>1, <3>2, <3>3, <3>4, IncidentStays
  <2>4. DeliveryInv'
    BY <2>1, <2>3 DEF DeliveryInv
  <2>5. CASE DOMAIN delivery' = DOMAIN delivery
    BY <2>1, <2>4, <2>5 DEF Ordered, Fixed
  <2>6. CASE \E c \in DOMAIN channel : OpenDelivery(h, c)
    BY <2>4, <2>6, OpenOrders
  <2> QED  BY <2>1, <2>4, <2>5, <2>6
<1>2. ASSUME UNCHANGED <<delivery, task>>,
             \A c \in DOMAIN channel : c \in DOMAIN channel' /\ channel'[c].type = channel[c].type
      PROVE  DeliveryInv' /\ Ordered'
  <2>1. ASSUME NEW g \in Incidents PROVE IncidentInv(g)'
    BY <1>2, IncidentStays DEF DeliveryInv, ChannelInv
  <2> QED  BY <1>2, <2>1 DEF DeliveryInv, Ordered
<1>3. ASSUME NEW q \in Requests, SettingsStep(q) PROVE DeliveryInv' /\ Ordered'
  <2>1. UNCHANGED <<delivery, task>>
    BY <1>3 DEF SettingsStep, GetSettings, PatchSettings, Begin, SavePreferences,
                LookupChannel, InsertChannel, SaveChannel, AnswerPatch, FinishSettings
  <2> QED  BY <1>2, <1>3, <2>1, TypesStay DEF ChannelInv
<1>4. CASE UNCHANGED vars
  BY <1>2, <1>4 DEF vars
<1> QED  BY <1>1, <1>3, <1>4 DEF Next

(* Whatever is requested of the channels meanwhile, and whatever fails, a  *)
(* channel gets an incident a second time only in a retry of its task, and *)
(* at most MaxRetries + 1 times (alerts/tasks.py:135).                     *)
THEOREM RepeatedMessagesAreRetries == Spec => []RepeatedOnlyByRetry
<1> DEFINE I == ChannelInv /\ Saving /\ DeliveryInv /\ Ordered
<1>1. Init => I
  BY ChannelInit, DeliveryInit DEF Init, Saving, Ordered
<1>2. I /\ [Next]_vars => I'
  BY ChannelStep, DeliveryStep
<1>3. I => RepeatedOnlyByRetry
  <2> SUFFICES ASSUME I, NEW d \in DOMAIN delivery, NEW e \in DOMAIN delivery
               PROVE  /\ delivery[d].attempt <= MaxRetries + 1
                      /\ /\ d < e /\ delivery[d].channel = delivery[e].channel
                         /\ delivery[d].incident = delivery[e].incident
                         => delivery[d].attempt < delivery[e].attempt
    BY DEF RepeatedOnlyByRetry
  <2>1. delivery[d].incident \in Incidents
    <3>1. delivery \in Seq(DeliveryRow)
      BY DEF ChannelInv, TypeOK
    <3>2. delivery[d] \in DeliveryRow
      BY <3>1, SeqDomain
    <3> QED  BY <3>2 DEF DeliveryRow
  <2>2. RowKept(d, delivery[d].incident)
    BY <2>1 DEF DeliveryInv, IncidentInv, RowsKept
  <2> QED  BY <2>2 DEF RowKept, Ordered
<1> QED  BY <1>1, <1>2, <1>3, PTL DEF Spec

(* The deliveries tell what happened to every message, after any failures  *)
(* and retries (alerts/tasks.py:89-127).                                   *)
THEOREM DeliveriesTellOutcomes == Spec => []DeliveriesTell
<1> DEFINE I == ChannelInv /\ Saving /\ DeliveryInv /\ Ordered
<1>1. Init => I
  BY ChannelInit, DeliveryInit DEF Init, Saving, Ordered
<1>2. I /\ [Next]_vars => I'
  BY ChannelStep, DeliveryStep
<1>3. I => DeliveriesTell
  <2> SUFFICES ASSUME I PROVE DeliveriesTell
    OBVIOUS
  <2>1. delivery \in Seq(DeliveryRow)
    BY DEF ChannelInv, TypeOK
  <2>2. ASSUME NEW d \in DOMAIN delivery PROVE RowKept(d, delivery[d].incident)
    <3>1. delivery[d] \in DeliveryRow
      BY <2>1, SeqDomain
    <3> QED  BY <3>1 DEF DeliveryRow, DeliveryInv, IncidentInv, RowsKept
  <2>3. ASSUME NEW h \in Incidents, task[h].pc = "done", NEW c \in DOMAIN task[h].got
        PROVE  \E d \in DOMAIN delivery :
                 /\ delivery[d].channel = c /\ delivery[d].incident = h
                 /\ delivery[d].attempt = task[h].tries + 1 /\ delivery[d].status # "queued"
    <3>1. task[h].todo = {} /\ task[h].row = 0 /\ Told(h)
      BY <2>3 DEF DeliveryInv, IncidentInv, AtRest
    <3>2. PICK d \in DOMAIN delivery : Outcome(d, c, h)
      BY <2>3, <3>1 DEF Told
    <3>3. d # 0
      BY <2>1, SeqDomain
    <3> QED  BY <3>1, <3>2, <3>3 DEF Outcome
  <2> QED  BY <2>2, <2>3 DEF DeliveriesTell, RowKept
<1> QED  BY <1>1, <1>2, <1>3, PTL DEF Spec

-----------------------------------------------------------------------------
(* How many channels there are, and how many messages one of them gets.    *)

(* The sign-up's channels come first; requests have inserted the others.   *)
OthersAreWebhooks ==
  /\ {1, 2} \subseteq DOMAIN channel
  /\ channel[1].type = "in_app" /\ channel[2].type = "email"
  /\ \A c \in DOMAIN channel \ {1, 2} : channel[c].type = "webhook" /\ channel[c].by \in Requests

LEMMA OthersStep ==
  ASSUME ChannelInv, OthersAreWebhooks, NEW q \in Requests, SettingsStep(q)
  PROVE  OthersAreWebhooks'
<1>1. \A c \in DOMAIN channel :
        c \in DOMAIN channel' /\ channel'[c].type = channel[c].type
                              /\ channel'[c].by = channel[c].by
  BY TypesStay DEF ChannelInv
<1>2. \A c \in DOMAIN channel' \ DOMAIN channel :
        channel'[c].type = "webhook" /\ channel'[c].by \in Requests
  <2>1. CASE InsertChannel(q)
    <3>1. /\ req[q] \in Request /\ channel \in Seq(ChannelRow)
          /\ First(req[q].todo) = "webhook"
      BY <2>1, RequestFields DEF InsertChannel, ChannelInv, TypeOK, Inserting
    <3>2. PICK row \in ChannelRow : /\ channel' = Append(channel, row)
                                    /\ row.type = "webhook" /\ row.by = q
      <4>1. \A e \in BOOLEAN : LET r == [type |-> "webhook", by |-> q, enabled |-> e,
                                         to |-> Nothing]
                               IN r \in ChannelRow /\ r.type = "webhook" /\ r.by = q
        BY DEF ChannelRow, Types, Addresses
      <4>2. ("webhook" \in req[q].prefs) \in BOOLEAN
        OBVIOUS
      <4>3. \E e \in BOOLEAN :
              channel' = Append(channel, [type |-> "webhook", by |-> q, enabled |-> e,
                                          to |-> Nothing])
        BY <2>1, <3>1, <4>2 DEF InsertChannel
      <4> QED  BY <4>1, <4>3
    <3>3. /\ DOMAIN channel' = DOMAIN channel \union {Len(channel) + 1}
          /\ channel'[Len(channel) + 1] = row
      BY <3>1, <3>2, Appended
    <3> QED  BY <3>2, <3>3
  <2>2. CASE SaveChannel(q)
    <3>1. DOMAIN channel' = DOMAIN channel
      BY <2>2, SaveEffect DEF ChannelInv
    <3> QED  BY <3>1
  <2>3. CASE \/ GetSettings(q) \/ PatchSettings(q) \/ SavePreferences(q) \/ LookupChannel(q)
             \/ AnswerPatch(q) \/ FinishSettings(q)
    <3>1. channel' = channel
      BY <2>3 DEF GetSettings, PatchSettings, Begin, SavePreferences, LookupChannel,
                  AnswerPatch, FinishSettings
    <3> QED  BY <3>1
  <2> QED  BY <2>1, <2>2, <2>3 DEF SettingsStep
<1> QED  BY <1>1, <1>2 DEF OthersAreWebhooks

(* The in-app and the e-mail channel stay single, however many requests    *)
(* overlap, and there are never more webhooks than requests that may run   *)
(* at once, of one member or of several: an incident goes out at most      *)
(* 2 + Cardinality(Requests) times in an attempt.                          *)
THEOREM ChannelsAtMostRequests ==
  ASSUME IsFiniteSet(Requests)
  PROVE  Spec => [](/\ Cardinality(OfType("in_app")) = 1 /\ Cardinality(OfType("email")) = 1
                    /\ Cardinality(OfType("webhook")) <= Cardinality(Requests))
<1> DEFINE I == ChannelInv /\ Saving /\ OthersAreWebhooks
<1>1. Init => I
  <2>1. Init => OthersAreWebhooks
    <3>1. Init => /\ DOMAIN channel = {1, 2}
                  /\ channel[1].type = "in_app" /\ channel[2].type = "email"
      BY DEF Init
    <3> QED  BY <3>1 DEF OthersAreWebhooks
  <2> QED  BY <2>1, ChannelInit DEF Init, Saving
<1>2. I /\ [Next]_vars => I'
  <2> SUFFICES ASSUME I, [Next]_vars PROVE OthersAreWebhooks'
    BY ChannelStep
  <2>1. CASE \E q \in Requests : SettingsStep(q)
    BY <2>1, OthersStep
  <2>2. CASE \E h \in Incidents : \/ EnqueueDelivery(h) \/ TaskStep(h) \/ SendingFails(h)
                                  \/ AttemptFails(h) \/ LoseDelivery(h)
    <3>1. channel' = channel
      BY <2>2, TaskAfter DEF ChannelInv
    <3> QED  BY <3>1 DEF OthersAreWebhooks
  <2>3. CASE UNCHANGED vars
    BY <2>3 DEF vars, OthersAreWebhooks
  <2> QED  BY <2>1, <2>2, <2>3 DEF Next
<1>3. I => /\ Cardinality(OfType("in_app")) = 1 /\ Cardinality(OfType("email")) = 1
           /\ Cardinality(OfType("webhook")) <= Cardinality(Requests)
  <2> SUFFICES ASSUME I
               PROVE  /\ Cardinality(OfType("in_app")) = 1
                      /\ Cardinality(OfType("email")) = 1
                      /\ Cardinality(OfType("webhook")) <= Cardinality(Requests)
    OBVIOUS
  <2>1. OfType("in_app") = {1} /\ OfType("email") = {2}
    BY DEF OthersAreWebhooks, OfType
  <2>2. Cardinality({1}) = 1 /\ Cardinality({2}) = 1
    BY FS_Singleton
  <2> DEFINE inserter == [c \in OfType("webhook") |-> channel[c].by]
  <2>3. inserter \in Injection(OfType("webhook"), Requests)
    BY DEF OthersAreWebhooks, OfType, ChannelInv, ChannelsByDistinctRequests, Injection, IsInjective
  <2>4. Cardinality(OfType("webhook")) <= Cardinality(Requests)
    BY <2>3, FS_Injection
  <2> QED  BY <2>1, <2>2, <2>4
<1> QED  BY <1>1, <1>2, <1>3, PTL DEF Spec

(* An attempt has a number, counted from one.                              *)
FromOne == \A d \in DOMAIN delivery : delivery[d].attempt >= 1

LEMMA FromOneStep ==
  ASSUME ChannelInv, DeliveryInv, FromOne, [Next]_vars PROVE FromOne'
<1>1. ASSUME NEW h \in Incidents,
             \/ EnqueueDelivery(h) \/ TaskStep(h) \/ SendingFails(h)
             \/ AttemptFails(h) \/ LoseDelivery(h)
      PROVE  FromOne'
  <2>1. /\ Fixed(h)
        /\ DOMAIN delivery' = DOMAIN delivery \/ \E c \in DOMAIN channel : OpenDelivery(h, c)
    BY <1>1, TaskFixes DEF DeliveryInv
  <2>2. ASSUME NEW c \in DOMAIN channel, OpenDelivery(h, c) PROVE FromOne'
    <3>1. task[h].tries \in Nat
      BY TaskFields, NotificationConstants DEF ChannelInv
    <3>2. PICK n \in Nat : /\ DOMAIN delivery' = DOMAIN delivery \union {n}
                           /\ \A d \in DOMAIN delivery : delivery'[d] = delivery[d]
                           /\ delivery'[n].attempt = task[h].tries + 1
      BY <2>2, OpenRows DEF ChannelInv
    <3>3. delivery'[n].attempt >= 1
      BY <3>1, <3>2
    <3> QED  BY <3>2, <3>3 DEF FromOne
  <2> QED  BY <2>1, <2>2 DEF Fixed, FromOne
<1>2. ASSUME UNCHANGED delivery PROVE FromOne'
  BY <1>2 DEF FromOne
<1>3. ASSUME NEW q \in Requests, SettingsStep(q) PROVE UNCHANGED delivery
  BY <1>3 DEF SettingsStep, GetSettings, PatchSettings, Begin, SavePreferences,
              LookupChannel, InsertChannel, SaveChannel, AnswerPatch, FinishSettings
<1> QED  BY <1>1, <1>2, <1>3 DEF Next, vars

(* A channel gets an incident at most MaxRetries + 1 times                 *)
(* (alerts/tasks.py:135): RepeatedOnlyByRetry, counted.                    *)
THEOREM MessagesAtMostRetries ==
  Spec => [](\A c \in DOMAIN channel, h \in Incidents :
               Cardinality({d \in DOMAIN delivery : /\ delivery[d].channel = c
                                                    /\ delivery[d].incident = h})
                 <= MaxRetries + 1)
<1> DEFINE I == ChannelInv /\ Saving /\ DeliveryInv /\ Ordered /\ FromOne
           Messages(c, h) == {d \in DOMAIN delivery : /\ delivery[d].channel = c
                                                      /\ delivery[d].incident = h}
<1>1. Init => I
  BY ChannelInit, DeliveryInit DEF Init, Saving, Ordered, FromOne
<1>2. I /\ [Next]_vars => I'
  BY ChannelStep, DeliveryStep, FromOneStep
<1>3. I => \A c \in DOMAIN channel, h \in Incidents :
             Cardinality(Messages(c, h)) <= MaxRetries + 1
  <2> SUFFICES ASSUME I, NEW c \in DOMAIN channel, NEW h \in Incidents
               PROVE  Cardinality(Messages(c, h)) <= MaxRetries + 1
    OBVIOUS
  <2>1. \A d \in DOMAIN delivery : d \in Nat /\ delivery[d].attempt \in Nat
    <3>1. delivery \in Seq(DeliveryRow)
      BY DEF ChannelInv, TypeOK
    <3>2. \A d \in DOMAIN delivery : d \in Nat /\ delivery[d] \in DeliveryRow
      BY <3>1, SeqDomain
    <3> QED  BY <3>2 DEF DeliveryRow
  <2>2. \A d \in Messages(c, h) : delivery[d].attempt \in 1 .. MaxRetries + 1
    BY <2>1, NotificationConstants
       DEF FromOne, DeliveryInv, IncidentInv, RowsKept, RowKept
  <2>3. \A d, e \in Messages(c, h) : delivery[d].attempt = delivery[e].attempt => d = e
    <3> SUFFICES ASSUME NEW d \in Messages(c, h), NEW e \in Messages(c, h),
                        delivery[d].attempt = delivery[e].attempt, d # e
                 PROVE  FALSE
      OBVIOUS
    <3>1. d < e \/ e < d
      BY <2>1
    <3> QED  BY <2>1, <3>1 DEF Ordered
  <2> DEFINE attempt == [d \in Messages(c, h) |-> delivery[d].attempt]
  <2>4. attempt \in Injection(Messages(c, h), 1 .. MaxRetries + 1)
    BY <2>2, <2>3 DEF Injection, IsInjective
  <2>5. /\ IsFiniteSet(1 .. MaxRetries + 1)
        /\ Cardinality(1 .. MaxRetries + 1) = MaxRetries + 1
    BY FS_Interval, NotificationConstants
  <2> HIDE DEF Messages
  <2> QED  BY <2>4, <2>5, FS_Injection
<1> QED  BY <1>1, <1>2, <1>3, PTL DEF Spec

-----------------------------------------------------------------------------
(* The way a delivery has left: attempts, the stage of this one, and the   *)
(* channels it has still to serve, in three steps each.                    *)

Stage(pc) ==
  CASE pc = "none" -> 4 [] pc = "failing" -> 3 [] pc = "queued" -> 2
    [] pc \in {"loop", "send", "save"} -> 1 [] OTHER -> 0

AttemptsLeft(h) == MaxRetries + 1 - task[h].tries

StepsLeft(h) ==
  3 * Cardinality(task[h].todo)
    + (IF task[h].pc = "send" THEN 2 ELSE IF task[h].pc = "save" THEN 1 ELSE 0)

(* In the lexicographic order of three natural numbers ...                 *)
Nearer(h) ==
  /\ AttemptsLeft(h)' \in Nat /\ Stage(task[h].pc)' \in 0 .. 4 /\ StepsLeft(h)' \in Nat
  /\ \/ AttemptsLeft(h)' < AttemptsLeft(h)
     \/ /\ AttemptsLeft(h)' = AttemptsLeft(h) /\ Stage(task[h].pc)' < Stage(task[h].pc)
     \/ /\ AttemptsLeft(h)' = AttemptsLeft(h) /\ Stage(task[h].pc)' = Stage(task[h].pc)
        /\ StepsLeft(h)' < StepsLeft(h)

(* ... a step of the delivery goes down, and other steps leave it alone.   *)
NearerTheEnd == \A h \in Incidents : task'[h] # task[h] => Nearer(h)

(* The channels an attempt has listed are finitely many.                   *)
LEMMA TodoFinite ==
  ASSUME TypeOK, NEW h \in Incidents
  PROVE  IsFiniteSet(task[h].todo) /\ Cardinality(task[h].todo) \in Nat
<1>1. task[h] \in Attempt /\ task[h].todo \subseteq DOMAIN task[h].got
  BY DEF TypeOK
<1>2. PICK cs \in SUBSET DOMAIN channel : task[h].got \in [cs -> Addresses]
  BY <1>1 DEF Attempt, Copies
<1>3. task[h].todo \subseteq DOMAIN channel
  BY <1>1, <1>2
<1>4. DOMAIN channel = 1 .. Len(channel) /\ Len(channel) \in Nat
  BY LenProperties DEF TypeOK
<1>5. IsFiniteSet(DOMAIN channel)
  BY <1>4, FS_Interval
<1>6. IsFiniteSet(task[h].todo)
  BY <1>3, <1>5, FS_Subset
<1> QED  BY <1>6, FS_CardinalityType

LEMMA DeliveryNearer ==
  ASSUME TypeOK, TypeOK', RetriesLeft, RetriesLeft', NEW h \in Incidents,
         \/ EnqueueDelivery(h) \/ TaskStep(h) \/ SendingFails(h)
         \/ AttemptFails(h) \/ LoseDelivery(h)
  PROVE  Nearer(h)
<1>1. /\ task[h] \in Attempt /\ task'[h].tries \in 0 .. MaxRetries + 1 /\ DOMAIN task = Incidents
      /\ task[h].tries \in 0 .. MaxRetries + 1
  BY DEF TypeOK, Attempt
<1>2. /\ Cardinality(task[h].todo) \in Nat /\ IsFiniteSet(task[h].todo)
      /\ Cardinality(task'[h].todo) \in Nat
  <2>1. IsFiniteSet(task[h].todo)
    BY TodoFinite
  <2>2. IsFiniteSet(task'[h].todo)
    <3>1. task'[h] \in Attempt' /\ task'[h].todo \subseteq DOMAIN task'[h].got
      BY DEF TypeOK
    <3>2. PICK cs \in SUBSET DOMAIN channel' : task'[h].got \in [cs -> Addresses]
      BY <3>1 DEF Attempt, Copies
    <3>3. task'[h].todo \subseteq DOMAIN channel'
      BY <3>1, <3>2
    <3>4. DOMAIN channel' = 1 .. Len(channel') /\ Len(channel') \in Nat
      BY LenProperties DEF TypeOK
    <3>5. IsFiniteSet(DOMAIN channel')
      BY <3>4, FS_Interval
    <3> QED  BY <3>3, <3>5, FS_Subset
  <2> QED  BY <2>1, <2>2, FS_CardinalityType
<1>3. /\ AttemptsLeft(h) \in Nat /\ AttemptsLeft(h)' \in Nat
      /\ Stage(task[h].pc)' \in 0 .. 4 /\ StepsLeft(h)' \in Nat /\ StepsLeft(h) \in Nat
  <2>1. AttemptsLeft(h) \in Nat /\ AttemptsLeft(h)' \in Nat
    BY <1>1, NotificationConstants DEF AttemptsLeft
  <2>2. Stage(task[h].pc)' \in 0 .. 4
    BY DEF Stage
  <2>3. StepsLeft(h)' \in Nat /\ StepsLeft(h) \in Nat
    BY <1>2 DEF StepsLeft
  <2> QED  BY <2>1, <2>2, <2>3
<1>4. CASE AttemptFails(h)
  <2>1. task'[h].tries = task[h].tries + 1
    BY <1>1, <1>4 DEF AttemptFails, NoAttempt
  <2> QED  BY <1>1, <1>3, <2>1, NotificationConstants DEF Nearer, AttemptsLeft
<1>5. CASE \/ EnqueueDelivery(h) \/ TakeDelivery(h) \/ Announce(h) \/ RetryDelivery(h)
           \/ LoseDelivery(h)
  <2>1. /\ task'[h].tries = task[h].tries
        /\ \/ task[h].pc = "none" /\ task'[h].pc = "queued"
           \/ task[h].pc = "queued" /\ task'[h].pc = "loop"
           \/ task[h].pc \in {"loop", "send", "save"} /\ task'[h].pc \in {"done", "lost"}
           \/ task[h].pc = "failing" /\ task'[h].pc \in {"queued", "dropped", "lost"}
    <3>1. CASE EnqueueDelivery(h) \/ Announce(h) \/ RetryDelivery(h)
      BY <1>1, <3>1 DEF EnqueueDelivery, Announce, RetryDelivery, Attempt
    <3>2. CASE TakeDelivery(h)
      <4>1. PICK cs, got : task' = [task EXCEPT ![h].pc = "loop", ![h].todo = cs, ![h].got = got]
        BY <3>2 DEF TakeDelivery
      <4> QED  BY <1>1, <3>2, <4>1 DEF TakeDelivery, Attempt
    <3>3. CASE LoseDelivery(h)
      <4>1. task'[h] = [NoAttempt EXCEPT !.pc = "lost", !.tries = task[h].tries,
                                         !.row = task[h].row]
        BY <1>1, <3>3 DEF LoseDelivery
      <4>2. task'[h].pc = "lost" /\ task'[h].tries = task[h].tries
        BY <4>1 DEF NoAttempt
      <4> QED  BY <3>3, <4>2 DEF LoseDelivery
    <3> QED  BY <1>5, <3>1, <3>2, <3>3
  <2>2. Stage(task[h].pc)' < Stage(task[h].pc)
    BY <2>1 DEF Stage
  <2> QED  BY <1>3, <2>1, <2>2 DEF Nearer, AttemptsLeft
<1>6. ASSUME NEW c \in DOMAIN channel, OpenDelivery(h, c) PROVE Nearer(h)
  <2>1. /\ task'[h].tries = task[h].tries /\ task[h].pc = "loop" /\ task'[h].pc = "send"
        /\ c \in task[h].todo /\ task'[h].todo = task[h].todo \ {c}
    BY <1>1, <1>6 DEF OpenDelivery, Attempt
  <2>2. Cardinality(task'[h].todo) = Cardinality(task[h].todo) - 1
    BY <1>2, <2>1, FS_RemoveElement
  <2>3. StepsLeft(h)' < StepsLeft(h) /\ Stage(task[h].pc)' = Stage(task[h].pc)
    BY <1>2, <2>1, <2>2 DEF StepsLeft, Stage
  <2> QED  BY <1>3, <2>1, <2>3 DEF Nearer, AttemptsLeft
<1>7. CASE SendMessage(h) \/ SendingFails(h) \/ SaveDelivery(h)
  <2>1. /\ task'[h].tries = task[h].tries /\ task'[h].todo = task[h].todo
        /\ \/ task[h].pc = "send" /\ task'[h].pc = "save"
           \/ task[h].pc = "save" /\ task'[h].pc = "loop"
    BY <1>1, <1>7 DEF SendMessage, SendingFails, Sent, SaveDelivery, Attempt
  <2>2. StepsLeft(h)' < StepsLeft(h) /\ Stage(task[h].pc)' = Stage(task[h].pc)
    BY <1>2, <2>1 DEF StepsLeft, Stage
  <2> QED  BY <1>3, <2>1, <2>2 DEF Nearer, AttemptsLeft
<1> QED  BY <1>4, <1>5, <1>6, <1>7 DEF TaskStep

(* Every step of a delivery brings it nearer its end, and nothing else     *)
(* moves it, neither the settings that add channels nor the deliveries of  *)
(* other incidents: a delivery cannot go on for ever, whatever fails       *)
(* (alerts/tasks.py:135-138).  With workers that keep taking tasks,        *)
(* DeliveriesEnd follows.                                                  *)
THEOREM DeliveriesTerminate == Spec => [][NearerTheEnd]_vars
<1> DEFINE I == TypeOK /\ RetriesLeft
<1>1. Init => I
  BY InitTyped, NotificationConstants DEF Init, RetriesLeft, NoAttempt
<1>2. I /\ [Next]_vars => I'
  BY NextTyped
<1>3. I /\ I' /\ [Next]_vars => [NearerTheEnd]_vars
  <2> SUFFICES ASSUME I, I', Next, NEW g \in Incidents, task'[g] # task[g] PROVE Nearer(g)
    BY DEF NearerTheEnd
  <2>1. ASSUME NEW q \in Requests, SettingsStep(q) PROVE FALSE
    BY <2>1 DEF SettingsStep, GetSettings, PatchSettings, Begin, SavePreferences,
                LookupChannel, InsertChannel, SaveChannel, AnswerPatch, FinishSettings
  <2>2. ASSUME NEW h \in Incidents,
               \/ EnqueueDelivery(h) \/ TaskStep(h) \/ SendingFails(h)
               \/ AttemptFails(h) \/ LoseDelivery(h)
        PROVE  Nearer(g)
    <3>1. g = h
      BY <2>2, TaskAfter
    <3> QED  BY <2>2, <3>1, DeliveryNearer
  <2> QED  BY <2>1, <2>2 DEF Next
<1> QED  BY <1>1, <1>2, <1>3, PTL DEF Spec
=============================================================================
