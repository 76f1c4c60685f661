--------------------------- MODULE EventIngestion ---------------------------
(***************************************************************************)
(* Events of one organization: the transactions of create_event and        *)
(* create_events, what post_events_created does after they commit, and the *)
(* readers of analytics/services.py that fill the cache next to them.      *)
(* Single events, batches, webhooks, demo events and the rows of a CSV     *)
(* file all come in this way.                                              *)
(***************************************************************************)
EXTENDS Naturals, FiniteSets

CONSTANTS
  Events,     \* events that clients may send
  ApiCalls,   \* those of type api_call
  Ingesters,  \* requests and task attempts that may ingest at the same time
  Readers,    \* requests that may compute an overview at the same time
  Keys,       \* cache keys: a series and a range
  Listed,     \* the keys invalidate_analytics_cache names
  NoEntry,    \* nothing is cached under a key
  Faults      \* the failures that happen, a subset of FaultKinds

FaultKinds == {"stop", "enqueue"}

ASSUME IngestionConstants ==
  /\ IsFiniteSet(Events)
  /\ ApiCalls \subseteq Events
  /\ Listed \subseteq Keys
  /\ Faults \subseteq FaultKinds
  /\ NoEntry \notin [seen : SUBSET Events, known : SUBSET Events]

VARIABLES
  stored,    \* the event table
  sources,   \* rows of the data source "API Ingestion": the ingestion that
             \* inserted each, and its events (history)
  metered,   \* do the usage counters exist?  They are not created at sign-up
  used,      \* the counters "Monthly Events" and "API Calls"
  active,    \* the events that the value of "Active Users" was counted from
  cache,     \* entries: the events seen, and those known (history) to have
             \* been invalidated before the computation began
  ing,       \* ingestions: pc, events, whether they insert a source, has the
             \* counter been read, and what was read
  reader,    \* readers: pc, key, events seen, events known
  \* History variables.
  counted,   \* events whose ingestion has saved a counter, by counter
  raced,     \* counters that two ingestions have read before either saved
  invalidated,  \* events whose ingestion has invalidated the cache
  unevaluated,  \* events stored since an evaluation was last enqueued
  dropped    \* events whose ingestion stopped short of its evaluation

vars == <<stored, sources, metered, used, active, cache, ing, reader,
          counted, raced, invalidated, unevaluated, dropped>>
tables   == <<stored, sources, metered>>
counters == <<used, active, counted, raced>>

Tallies  == {"monthly", "api"}
Counters == Tallies \union {"active"}
Entry    == [seen : SUBSET Events, known : SUBSET Events]

Source   == [by : Ingesters, batch : SUBSET Events]

IdleIngester == [pc |-> "idle", batch |-> {}, new |-> FALSE, half |-> FALSE,
                 read |-> 0, seen |-> {}]
IdleReader == [pc |-> "idle", key |-> NoEntry, seen |-> {}, known |-> {}]

Init ==
  /\ stored = {} /\ sources = {} /\ metered \in BOOLEAN
  /\ used = [c \in Tallies |-> 0] /\ active = {}
  /\ cache = [k \in Keys |-> NoEntry]
  /\ ing = [i \in Ingesters |-> IdleIngester]
  /\ reader = [q \in Readers |-> IdleReader]
  /\ counted = [c \in Counters |-> {}] /\ raced = {}
  /\ invalidated = {} /\ unevaluated = {} /\ dropped = {}

-----------------------------------------------------------------------------
(* An ingestion.                                                           *)

(* Mutant: post_events_created is called inside the transaction.           *)
AfterInside(pc) ==
  CASE pc = "begin"      -> "invalidate"
    [] pc = "commit"     -> "idle"
    [] pc = "invalidate" -> IF metered THEN "monthly" ELSE "broadcast"
    [] pc = "monthly"    -> "api"
    [] pc = "api"        -> "active"
    [] pc = "active"     -> "broadcast"
    [] pc = "broadcast"  -> "evaluate"
    [] pc = "evaluate"   -> "commit"

(* The transaction, then its on_commit callback.                           *)
After(pc) ==
  CASE pc = "begin"      -> "commit"
    [] pc = "commit"     -> "invalidate"
    [] pc = "invalidate" -> IF metered THEN "monthly" ELSE "broadcast"
    [] pc = "monthly"    -> "api"
    [] pc = "api"        -> "active"
    [] pc = "active"     -> "broadcast"
    [] pc = "broadcast"  -> "evaluate"
    [] pc = "evaluate"   -> "idle"

(* The row of an ingestion that has done the step it was at.               *)
Advanced(i) ==
  IF After(ing[i].pc) = "idle" THEN IdleIngester
  ELSE [ing[i] EXCEPT !.pc = After(@), !.half = FALSE, !.read = 0, !.seen = {}]

Sent == stored \union UNION {ing[i].batch : i \in Ingesters}

(* Mutant: the source is created, not looked up.                           *)
BeginCreating(i, batch) ==
  /\ ing[i].pc = "idle"
  /\ \E given \in BOOLEAN :
       ing' = [ing EXCEPT ![i] = [IdleIngester EXCEPT
                 !.pc = After("begin"), !.batch = batch, !.new = ~ given]]
  /\ UNCHANGED <<tables, counters, cache, reader, invalidated, unevaluated, dropped>>

(* A webhook has its source; everything else takes get_or_create, which    *)
(* raises when there are two rows, and then nothing is stored.             *)
Begin(i, batch) ==
  /\ ing[i].pc = "idle"
  /\ \E given \in BOOLEAN :
       /\ given \/ \A a, b \in sources : a = b
       /\ ing' = [ing EXCEPT ![i] = [IdleIngester EXCEPT
                    !.pc = After("begin"), !.batch = batch,
                    !.new = ~ given /\ sources = {}]]
  /\ UNCHANGED <<tables, counters, cache, reader, invalidated, unevaluated, dropped>>

Commit(i) ==
  /\ ing[i].pc = "commit"
  /\ stored' = stored \union ing[i].batch
  /\ sources' = IF ing[i].new
                THEN sources \union {[by |-> i, batch |-> ing[i].batch]} ELSE sources
  /\ unevaluated' = unevaluated \union ing[i].batch
  /\ ing' = [ing EXCEPT ![i] = Advanced(i)]
  /\ UNCHANGED <<metered, counters, cache, reader, invalidated, dropped>>

Invalidate(i) ==
  /\ ing[i].pc = "invalidate"
  /\ cache' = [k \in Keys |-> IF k \in Listed THEN NoEntry ELSE cache[k]]
  /\ invalidated' = invalidated \union ing[i].batch
  /\ ing' = [ing EXCEPT ![i] = Advanced(i)]
  /\ UNCHANGED <<tables, counters, reader, unevaluated, dropped>>

(* Someone else has read the counter and not saved it yet.                 *)
InHand(i, c) == \E j \in Ingesters \ {i} : ing[j].pc = c /\ ing[j].half

ReadTally(i, c) ==
  /\ ing[i].pc = c /\ ~ ing[i].half
  /\ ing' = [ing EXCEPT ![i] = [@ EXCEPT !.half = TRUE, !.read = used[c]]]
  /\ raced' = IF InHand(i, c) THEN raced \union {c} ELSE raced
  /\ UNCHANGED <<tables, used, active, counted, cache, reader, invalidated,
                 unevaluated, dropped>>

(* Mutant: one request counts once, whatever it brings.                    *)
CountRequest(c, batch) == 1

Increment(c, batch) ==
  IF c = "api" THEN Cardinality(batch \intersect ApiCalls) ELSE Cardinality(batch)

SaveTally(i, c) ==
  /\ ing[i].pc = c /\ ing[i].half
  /\ used' = [used EXCEPT ![c] = ing[i].read + Increment(c, ing[i].batch)]
  /\ counted' = [counted EXCEPT ![c] = @ \union ing[i].batch]
  /\ ing' = [ing EXCEPT ![i] = Advanced(i)]
  /\ UNCHANGED <<tables, active, raced, cache, reader, invalidated,
                 unevaluated, dropped>>

CountActive(i) ==
  /\ ing[i].pc = "active" /\ ~ ing[i].half
  /\ ing' = [ing EXCEPT ![i] = [@ EXCEPT !.half = TRUE, !.seen = stored]]
  /\ raced' = IF InHand(i, "active") THEN raced \union {"active"} ELSE raced
  /\ UNCHANGED <<tables, used, active, counted, cache, reader, invalidated,
                 unevaluated, dropped>>

SaveActive(i) ==
  /\ ing[i].pc = "active" /\ ing[i].half
  /\ active' = ing[i].seen
  /\ counted' = [counted EXCEPT !["active"] = @ \union ing[i].batch]
  /\ ing' = [ing EXCEPT ![i] = Advanced(i)]
  /\ UNCHANGED <<tables, used, raced, cache, reader, invalidated, unevaluated, dropped>>

Broadcast(i) ==
  /\ ing[i].pc = "broadcast"
  /\ ing' = [ing EXCEPT ![i] = Advanced(i)]
  /\ UNCHANGED <<tables, counters, cache, reader, invalidated, unevaluated, dropped>>

(* The evaluation that is enqueued runs later and sees all that is stored. *)
EnqueueEvaluation(i) ==
  /\ ing[i].pc = "evaluate"
  /\ unevaluated' = {}
  /\ ing' = [ing EXCEPT ![i] = Advanced(i)]
  /\ UNCHANGED <<tables, counters, cache, reader, invalidated, dropped>>

(* A broker that fails is logged.                                          *)
EvaluationNotEnqueued(i) ==
  /\ "enqueue" \in Faults /\ ing[i].pc = "evaluate"
  /\ dropped' = dropped \union ing[i].batch
  /\ ing' = [ing EXCEPT ![i] = Advanced(i)]
  /\ UNCHANGED <<tables, counters, cache, reader, invalidated, unevaluated>>

(* An exception of the callback (the cache, the database, the channel      *)
(* layer), or a process that dies: the rest is skipped.  A transaction     *)
(* that fails leaves nothing.                                              *)
Stop(i) ==
  /\ "stop" \in Faults /\ ing[i].pc # "idle"
  /\ dropped' = dropped \union (ing[i].batch \intersect stored)
  /\ ing' = [ing EXCEPT ![i] = IdleIngester]
  /\ UNCHANGED <<tables, counters, cache, reader, invalidated, unevaluated>>

IngesterStep(i) ==
  \/ Commit(i) \/ Invalidate(i)
  \/ \E c \in Tallies : ReadTally(i, c) \/ SaveTally(i, c)
  \/ CountActive(i) \/ SaveActive(i)
  \/ Broadcast(i) \/ EnqueueEvaluation(i)

-----------------------------------------------------------------------------
(* The readers: a hit is given the entry; a miss computes, fills, and is   *)
(* given what it computed.                                                 *)

Hit(q, k) ==
  /\ reader[q].pc = "idle" /\ cache[k] # NoEntry
  /\ reader' = [reader EXCEPT ![q] = [pc |-> "answer", key |-> k,
                                      seen |-> cache[k].seen, known |-> {}]]
  /\ UNCHANGED <<tables, counters, cache, ing, invalidated, unevaluated, dropped>>

Miss(q, k) ==
  /\ reader[q].pc = "idle" /\ cache[k] = NoEntry
  /\ reader' = [reader EXCEPT ![q] = [pc |-> "query", key |-> k, seen |-> {},
                                      known |-> invalidated]]
  /\ UNCHANGED <<tables, counters, cache, ing, invalidated, unevaluated, dropped>>

(* Mutant: the overview shows the usage counter, not the event table.      *)
QueryMetered(q) ==
  /\ reader[q].pc = "query"
  /\ reader' = [reader EXCEPT ![q] = [@ EXCEPT !.pc = "fill", !.seen = active]]
  /\ UNCHANGED <<tables, counters, cache, ing, invalidated, unevaluated, dropped>>

Query(q) ==
  /\ reader[q].pc = "query"
  /\ reader' = [reader EXCEPT ![q] = [@ EXCEPT !.pc = "fill", !.seen = stored]]
  /\ UNCHANGED <<tables, counters, cache, ing, invalidated, unevaluated, dropped>>

Fill(q) ==
  /\ reader[q].pc = "fill"
  /\ cache' = [cache EXCEPT ![reader[q].key] =
                 [seen |-> reader[q].seen, known |-> reader[q].known]]
  /\ reader' = [reader EXCEPT ![q] = [@ EXCEPT !.pc = "answer", !.known = {}]]
  /\ UNCHANGED <<tables, counters, ing, invalidated, unevaluated, dropped>>

(* What was found or computed is given to the one who asked.               *)
Answer(q) ==
  /\ reader[q].pc = "answer"
  /\ reader' = [reader EXCEPT ![q] = IdleReader]
  /\ UNCHANGED <<tables, counters, cache, ing, invalidated, unevaluated, dropped>>

ReaderStep(q) ==
  \/ \E k \in Keys : Hit(q, k) \/ Miss(q, k)
  \/ Query(q) \/ Fill(q) \/ Answer(q)

(* The 60 seconds of an entry are over.                                    *)
Expire(k) ==
  /\ cache[k] # NoEntry
  /\ cache' = [cache EXCEPT ![k] = NoEntry]
  /\ UNCHANGED <<tables, counters, ing, reader, invalidated, unevaluated, dropped>>

Next ==
  \/ \E i \in Ingesters :
       \/ \E batch \in SUBSET (Events \ Sent) \ {{}} : Begin(i, batch)
       \/ IngesterStep(i) \/ EvaluationNotEnqueued(i) \/ Stop(i)
  \/ \E q \in Readers : ReaderStep(q)
  \/ \E k \in Keys : Expire(k)

Spec == Init /\ [][Next]_vars

(* Time passes for every entry, and a request that has its overview ends.  *)
FairSpec ==
  /\ Spec
  /\ \A k \in Keys : WF_vars(Expire(k))
  /\ \A q \in Readers : WF_vars(Answer(q))

-----------------------------------------------------------------------------
(* Properties.                                                             *)

PCs == {"idle", "commit", "invalidate", "broadcast", "evaluate"} \union Counters

TypeOK ==
  /\ stored \subseteq Events /\ sources \subseteq Source /\ metered \in BOOLEAN
  /\ used \in [Tallies -> Nat] /\ active \subseteq Events
  /\ cache \in [Keys -> Entry \union {NoEntry}]
  /\ ing \in [Ingesters -> [pc : PCs, batch : SUBSET Events, new : BOOLEAN,
                            half : BOOLEAN, read : Nat, seen : SUBSET Events]]
  /\ reader \in [Readers -> [pc : {"idle", "query", "fill", "answer"},
                             key : Keys \union {NoEntry},
                             seen : SUBSET Events, known : SUBSET Events]]
  /\ \A i \in Ingesters : ing[i].half => ing[i].pc \in Counters
  /\ \A q \in Readers : reader[q].pc # "idle" => reader[q].key \in Keys
  /\ counted \in [Counters -> SUBSET Events] /\ raced \subseteq Counters
  /\ invalidated \subseteq Events /\ unevaluated \subseteq Events
  /\ dropped \subseteq Events

(* The usage counters never count an event twice, whatever overlaps or     *)
(* fails, and are exact for the ingestions that have come to save them as  *)
(* long as no two were between the read and the save of a counter at once. *)
Tally(c, E) == Cardinality(IF c = "api" THEN E \intersect ApiCalls ELSE E)

TalliesAreExact ==
  \A c \in Tallies :
    /\ used[c] <= Tally(c, counted[c])
    /\ c \notin raced => used[c] = Tally(c, counted[c])

(* "Active Users" is counted from the table at least up to the events of   *)
(* every ingestion that has saved it, unless two overlapped there.         *)
ActiveIsCurrent == "active" \notin raced => counted["active"] \subseteq active

(* A cached overview contains every event whose ingestion had invalidated  *)
(* the cache before the overview was asked for, so that only a reader that *)
(* overlaps an ingestion can leave a stale entry.                          *)
FreshAfterInvalidation ==
  \A k \in Keys : cache[k] # NoEntry => cache[k].known \subseteq cache[k].seen

(* Every stored event is followed by an evaluation of the alert rules      *)
(* enqueued after its commit, or its ingestion is still on its way there,  *)
(* or has stopped with an exception.                                       *)
EvaluationFollows ==
  \A e \in unevaluated \ dropped :
    \E i \in Ingesters : e \in ing[i].batch /\ ing[i].pc # "idle"

(* A second data source "API Ingestion", with which every later get_or_    *)
(* create raises, comes from ingestions that overlap on the first one: no  *)
(* request, and no CSV file with its many rows, ever inserts two.          *)
SourcesByOverlap == \A a, b \in sources : a # b => a.by # b.by

(* An event that is stored is in every overview that is given from some    *)
(* time on, whether its key is invalidated or not, and however many        *)
(* readers that asked before it was stored fill the cache after it, and    *)
(* give the stale entry to others.                                         *)
EventsEventuallyGiven ==
  \A k \in Keys, e \in Events :
    <>[](e \in stored =>
           \A q \in Readers : reader[q].pc = "answer" /\ reader[q].key = k
                                => e \in reader[q].seen)
=============================================================================
