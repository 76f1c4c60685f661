---------------------------- MODULE EventProofs ----------------------------
(***************************************************************************)
(* Proofs about EventIngestion: types, and the safety properties of the    *)
(* counters, the data source, the cache and the evaluations.               *)
(***************************************************************************)
EXTENDS EventIngestion, FiniteSetTheorems, TLAPS

(* Where a step leads.  No ingestion that is under way is at "begin".      *)
LEMMA AfterPCs ==
  /\ After("begin") = "commit" /\ After("commit") = "invalidate"
  /\ After("invalidate") \in {"monthly", "broadcast"}
  /\ After("monthly") = "api" /\ After("api") = "active"
  /\ After("active") = "broadcast" /\ After("broadcast") = "evaluate"
  /\ After("evaluate") = "idle"
<1>1. /\ After("begin") = "commit" /\ After("commit") = "invalidate"
      /\ After("monthly") = "api" /\ After("api") = "active"
      /\ After("active") = "broadcast" /\ After("broadcast") = "evaluate"
      /\ After("evaluate") = "idle"
  BY DEF After
<1>2. After("invalidate") = IF metered THEN "monthly" ELSE "broadcast"
  BY DEF After
<1> QED  BY <1>1, <1>2

Ingestion == [pc : PCs, batch : SUBSET Events, new : BOOLEAN,
              half : BOOLEAN, read : Nat, seen : SUBSET Events]

(* What a step makes of the ingestion that takes it.                       *)
LEMMA AdvancedShape ==
  ASSUME NEW i \in Ingesters, ing[i] \in Ingestion, ing[i].pc # "idle"
  PROVE  /\ Advanced(i) \in Ingestion /\ ~ Advanced(i).half
         /\ Advanced(i).pc = After(ing[i].pc)
         /\ ing[i].pc # "evaluate" =>
              /\ Advanced(i).pc \notin {"idle", "commit"}
              /\ Advanced(i).batch = ing[i].batch /\ Advanced(i).new = ing[i].new
         /\ ing[i].pc = "evaluate" => Advanced(i) = IdleIngester
<1>1. After(ing[i].pc) \in PCs /\ After(ing[i].pc) # "commit"
  BY AfterPCs DEF Ingestion, PCs, Counters, Tallies
<1>2. After(ing[i].pc) = "idle" <=> ing[i].pc = "evaluate"
  BY AfterPCs DEF Ingestion, PCs, Counters, Tallies
<1>3. IdleIngester \in Ingestion /\ IdleIngester.pc = "idle" /\ ~ IdleIngester.half
  BY DEF IdleIngester, Ingestion, PCs
<1> QED
  BY <1>1, <1>2, <1>3 DEF Advanced, Ingestion

-----------------------------------------------------------------------------
(* Type correctness.                                                       *)

LEMMA InitType == Init => TypeOK
BY DEF Init, TypeOK, Entry, Source, IdleIngester, IdleReader, Tallies, Counters, PCs

LEMMA TypeStep == TypeOK /\ [Next]_vars => TypeOK'
<1> SUFFICES ASSUME TypeOK, [Next]_vars
             PROVE  TypeOK'
  OBVIOUS
<1> USE DEF Ingestion
<1>0. ASSUME NEW i \in Ingesters, ing[i].pc # "idle"
      PROVE  Advanced(i) \in Ingestion /\ ~ Advanced(i).half
  BY <1>0, AdvancedShape DEF TypeOK
<1>1. ASSUME NEW i \in Ingesters, NEW batch \in SUBSET (Events \ Sent), Begin(i, batch)
      PROVE  TypeOK'
  <2>1. PICK given \in BOOLEAN :
          ing' = [ing EXCEPT ![i] = [IdleIngester EXCEPT
                    !.pc = After("begin"), !.batch = batch,
                    !.new = ~ given /\ sources = {}]]
    BY <1>1 DEF Begin
  <2>2. [IdleIngester EXCEPT !.pc = After("begin"), !.batch = batch,
                             !.new = ~ given /\ sources = {}] \in Ingestion
    BY AfterPCs DEF IdleIngester, PCs
  <2> QED
    BY <1>1, <2>1, <2>2 DEF Begin, TypeOK, tables, counters, IdleIngester
<1>2. ASSUME NEW i \in Ingesters, Commit(i) PROVE TypeOK'
  <2>1. [by |-> i, batch |-> ing[i].batch] \in Source /\ ing[i].pc # "idle"
    BY <1>2 DEF TypeOK, Source, Commit
  <2> QED
    BY <1>0, <1>2, <2>1 DEF Commit, TypeOK, counters
<1>3. ASSUME NEW i \in Ingesters, Invalidate(i) PROVE TypeOK'
  BY <1>0, <1>3 DEF Invalidate, TypeOK, tables, counters
<1>4. ASSUME NEW i \in Ingesters, NEW c \in Tallies, ReadTally(i, c) PROVE TypeOK'
  <2>1. ing' = [ing EXCEPT ![i] = [ing[i] EXCEPT !.half = TRUE, !.read = used[c]]]
    BY <1>4 DEF ReadTally
  <2>2. /\ [ing[i] EXCEPT !.half = TRUE, !.read = used[c]] \in Ingestion
        /\ ing[i].pc \in Counters /\ raced \union {c} \subseteq Counters
    <3>1. ing[i] \in Ingestion /\ used[c] \in Nat
      BY DEF TypeOK
    <3>2. [ing[i] EXCEPT !.half = TRUE, !.read = used[c]] \in Ingestion
      BY <3>1
    <3>3. ing[i].pc \in Counters /\ raced \union {c} \subseteq Counters
      BY <1>4 DEF TypeOK, ReadTally, Counters
    <3> QED  BY <3>2, <3>3
  <2> QED
    <3>1. /\ UNCHANGED <<stored, sources, metered, used, active, counted, cache,
                          reader, invalidated, unevaluated, dropped>>
          /\ raced' \subseteq Counters
      BY <1>4, <2>2 DEF ReadTally, TypeOK, tables
    <3>2. /\ ing' \in [Ingesters -> Ingestion]
          /\ \A j \in Ingesters : ing'[j].half => ing'[j].pc \in Counters
      BY <2>1, <2>2 DEF TypeOK
    <3> QED  BY <3>1, <3>2 DEF TypeOK
<1>5. ASSUME NEW i \in Ingesters, NEW c \in Tallies, SaveTally(i, c) PROVE TypeOK'
  <2>1. ing[i].read + Increment(c, ing[i].batch) \in Nat /\ ing[i].pc # "idle"
    <3>1. IsFiniteSet(ing[i].batch) /\ IsFiniteSet(ing[i].batch \intersect ApiCalls)
      BY IngestionConstants, FS_Subset DEF TypeOK
    <3> QED
      BY <1>5, <3>1, FS_CardinalityType DEF Increment, TypeOK, SaveTally, Tallies
  <2>2. used' \in [Tallies -> Nat]
    BY <1>5, <2>1 DEF SaveTally, TypeOK
  <2>3. counted' \in [Counters -> SUBSET Events]
    BY <1>5 DEF SaveTally, TypeOK, Counters
  <2> QED
    BY <1>0, <1>5, <2>1, <2>2, <2>3 DEF SaveTally, TypeOK, tables
<1>6. ASSUME NEW i \in Ingesters, CountActive(i) PROVE TypeOK'
  <2>1. ing' = [ing EXCEPT ![i] = [ing[i] EXCEPT !.half = TRUE, !.seen = stored]]
    BY <1>6 DEF CountActive
  <2>2. /\ [ing[i] EXCEPT !.half = TRUE, !.seen = stored] \in Ingestion
        /\ ing[i].pc \in Counters /\ raced \union {"active"} \subseteq Counters
    <3>1. ing[i] \in Ingestion /\ stored \in SUBSET Events
      BY DEF TypeOK
    <3>2. [ing[i] EXCEPT !.half = TRUE, !.seen = stored] \in Ingestion
      BY <3>1
    <3>3. ing[i].pc \in Counters /\ raced \union {"active"} \subseteq Counters
      BY <1>6 DEF TypeOK, CountActive, Counters
    <3> QED  BY <3>2, <3>3
  <2> QED
    <3>1. /\ UNCHANGED <<stored, sources, metered, used, active, counted, cache,
                          reader, invalidated, unevaluated, dropped>>
          /\ raced' \subseteq Counters
      BY <1>6, <2>2 DEF CountActive, TypeOK, tables
    <3>2. /\ ing' \in [Ingesters -> Ingestion]
          /\ \A j \in Ingesters : ing'[j].half => ing'[j].pc \in Counters
      BY <2>1, <2>2 DEF TypeOK
    <3> QED  BY <3>1, <3>2 DEF TypeOK
<1>7. ASSUME NEW i \in Ingesters, SaveActive(i) PROVE TypeOK'
  BY <1>0, <1>7 DEF SaveActive, TypeOK, tables, Counters
<1>8. ASSUME NEW i \in Ingesters,
             Broadcast(i) \/ EnqueueEvaluation(i) \/ EvaluationNotEnqueued(i)
      PROVE  TypeOK'
  BY <1>0, <1>8 DEF Broadcast, EnqueueEvaluation, EvaluationNotEnqueued, TypeOK,
     tables, counters
<1>9. ASSUME NEW i \in Ingesters, Stop(i) PROVE TypeOK'
  <2>1. IdleIngester \in Ingestion /\ ~ IdleIngester.half
    BY DEF IdleIngester, PCs
  <2> QED
    BY <1>9, <2>1 DEF Stop, TypeOK, tables, counters
<1>10. ASSUME NEW q \in Readers, ReaderStep(q) PROVE TypeOK'
  <2> DEFINE Reading == [pc : {"idle", "query", "fill", "answer"},
                         key : Keys \union {NoEntry},
                         seen : SUBSET Events, known : SUBSET Events]
  <2>1. reader[q] \in Reading
    BY DEF TypeOK
  <2>2. ASSUME NEW r \in Reading, r.pc # "idle" => r.key \in Keys,
               reader' = [reader EXCEPT ![q] = r],
               cache' \in [Keys -> Entry \union {NoEntry}],
               UNCHANGED <<tables, counters, ing, invalidated, unevaluated, dropped>>
        PROVE  TypeOK'
    BY <2>2 DEF TypeOK, tables, counters
  <2>3. ASSUME NEW k \in Keys, Hit(q, k) PROVE TypeOK'
    <3>1. cache[k] \in Entry
      BY <2>3 DEF Hit, TypeOK
    <3>2. [pc |-> "answer", key |-> k, seen |-> cache[k].seen, known |-> {}] \in Reading
      BY <3>1 DEF Entry
    <3> QED  BY <2>2, <2>3, <3>2 DEF Hit, TypeOK
  <2>4. ASSUME NEW k \in Keys, Miss(q, k) PROVE TypeOK'
    BY <2>4 DEF Miss, TypeOK, tables, counters
  <2>5. CASE Query(q)
    <3>1. [reader[q] EXCEPT !.pc = "fill", !.seen = stored] \in Reading
      BY <2>1 DEF TypeOK
    <3>2. reader[q].key \in Keys
      BY <2>5 DEF Query, TypeOK
    <3>3. [reader[q] EXCEPT !.pc = "fill", !.seen = stored].key = reader[q].key
      BY <2>1
    <3> QED  BY <2>2, <2>5, <3>1, <3>2, <3>3 DEF Query, TypeOK
  <2>6. CASE Fill(q)
    <3>1. [seen |-> reader[q].seen, known |-> reader[q].known] \in Entry
      BY <2>1 DEF Entry
    <3>2. [reader[q] EXCEPT !.pc = "answer", !.known = {}] \in Reading
      BY <2>1
    <3>3. reader[q].key \in Keys
      BY <2>6 DEF Fill, TypeOK
    <3>4. [reader[q] EXCEPT !.pc = "answer", !.known = {}].key = reader[q].key
      BY <2>1
    <3> QED  BY <2>2, <2>6, <3>1, <3>2, <3>3, <3>4 DEF Fill, TypeOK
  <2>7. CASE Answer(q)
    <3>1. IdleReader \in Reading /\ IdleReader.pc = "idle"
      BY DEF IdleReader
    <3> QED  BY <2>2, <2>7, <3>1 DEF Answer, TypeOK
  <2> QED  BY <1>10, <2>3, <2>4, <2>5, <2>6, <2>7 DEF ReaderStep
<1>11. ASSUME NEW k \in Keys, Expire(k) PROVE TypeOK'
  BY <1>11 DEF Expire, TypeOK, tables, counters
<1>12. CASE UNCHANGED vars
  BY <1>12 DEF TypeOK, vars, tables, counters
<1> QED
  BY <1>1, <1>2, <1>3, <1>4, <1>5, <1>6, <1>7, <1>8, <1>9, <1>10, <1>11, <1>12
  DEF Next, IngesterStep

(* The model is type correct: in particular, no ingestion holds a counter  *)
(* it has read beyond the step that saves it.                              *)
THEOREM EventTypeCorrect == Spec => []TypeOK
BY InitType, TypeStep, PTL DEF Spec

-----------------------------------------------------------------------------
(* What a step does to the rows of the ingestions.                         *)

Moved(i) ==
  /\ \A j \in Ingesters \ {i} : ing'[j] = ing[j]
  /\ ~ ing'[i].half
  /\ ing[i].pc # "evaluate" =>
       /\ ing'[i].pc = After(ing[i].pc) /\ ing'[i].pc \notin {"idle", "commit"}
       /\ ing'[i].batch = ing[i].batch /\ ing'[i].new = ing[i].new
  /\ ing[i].pc = "evaluate" => ing'[i].pc = "idle" /\ ing'[i].batch = {}

Held(i) ==
  /\ \A j \in Ingesters \ {i} : ing'[j] = ing[j]
  /\ ing'[i].pc = ing[i].pc /\ ing'[i].half
  /\ ing'[i].batch = ing[i].batch /\ ing'[i].new = ing[i].new

Reset(i) ==
  /\ \A j \in Ingesters \ {i} : ing'[j] = ing[j]
  /\ ing'[i].pc = "idle" /\ ing'[i].batch = {} /\ ~ ing'[i].half

Begun(i, batch) ==
  /\ \A j \in Ingesters \ {i} : ing'[j] = ing[j]
  /\ ing[i].pc = "idle" /\ ing'[i].pc = "commit" /\ ~ ing'[i].half
  /\ ing'[i].batch = batch /\ (ing'[i].new => sources = {})

LEMMA RowMoves ==
  ASSUME TypeOK, NEW i \in Ingesters, ing[i].pc # "idle",
         ing' = [ing EXCEPT ![i] = Advanced(i)]
  PROVE  Moved(i)
<1>1. ing[i] \in Ingestion /\ ing'[i] = Advanced(i)
  BY DEF TypeOK, Ingestion
<1>2. \A j \in Ingesters \ {i} : ing'[j] = ing[j]
  BY DEF TypeOK
<1> QED
  BY <1>1, <1>2, AdvancedShape DEF Moved, IdleIngester

LEMMA RowsOfSteps ==
  ASSUME TypeOK, NEW i \in Ingesters
  PROVE  /\ \A batch : Begin(i, batch) => Begun(i, batch)
         /\ Commit(i) \/ Invalidate(i) \/ SaveActive(i) \/ Broadcast(i) => Moved(i)
         /\ EnqueueEvaluation(i) \/ EvaluationNotEnqueued(i) => Moved(i)
         /\ \A c \in Tallies : (ReadTally(i, c) => Held(i))
                             /\ (SaveTally(i, c) => Moved(i))
         /\ CountActive(i) => Held(i)
         /\ Stop(i) => Reset(i)
<1>1. ASSUME NEW batch, Begin(i, batch) PROVE Begun(i, batch)
  <2>1. PICK given \in BOOLEAN :
          ing' = [ing EXCEPT ![i] = [IdleIngester EXCEPT
                    !.pc = After("begin"), !.batch = batch,
                    !.new = ~ given /\ sources = {}]]
    BY <1>1 DEF Begin
  <2> QED
    BY <1>1, <2>1, AfterPCs DEF Begun, Begin, TypeOK, IdleIngester
<1>2. ASSUME Commit(i) \/ Invalidate(i) \/ SaveActive(i) \/ Broadcast(i)
      PROVE  Moved(i)
  BY <1>2, RowMoves DEF Commit, Invalidate, SaveActive, Broadcast
<1>3. ASSUME EnqueueEvaluation(i) \/ EvaluationNotEnqueued(i) PROVE Moved(i)
  BY <1>3, RowMoves DEF EnqueueEvaluation, EvaluationNotEnqueued
<1>4. ASSUME NEW c \in Tallies, SaveTally(i, c) PROVE Moved(i)
  BY <1>4, RowMoves DEF SaveTally, Tallies
<1>5. ASSUME NEW c \in Tallies, ReadTally(i, c) PROVE Held(i)
  <2>1. ing' = [ing EXCEPT ![i] = [ing[i] EXCEPT !.half = TRUE, !.read = used[c]]]
    BY <1>5 DEF ReadTally
  <2> QED  BY <2>1 DEF Held, TypeOK
<1>6. ASSUME CountActive(i) PROVE Held(i)
  <2>1. ing' = [ing EXCEPT ![i] = [ing[i] EXCEPT !.half = TRUE, !.seen = stored]]
    BY <1>6 DEF CountActive
  <2> QED  BY <2>1 DEF Held, TypeOK
<1>7. ASSUME Stop(i) PROVE Reset(i)
  BY <1>7 DEF Stop, Reset, TypeOK, IdleIngester
<1> QED
  BY <1>1, <1>2, <1>3, <1>4, <1>5, <1>6, <1>7

-----------------------------------------------------------------------------
(* Where the events of an ingestion are: with nobody else, not stored      *)
(* before the commit, and stored after it.                                 *)

Located ==
  /\ \A i, j \in Ingesters : i # j => ing[i].batch \intersect ing[j].batch = {}
  /\ \A i \in Ingesters :
       /\ ing[i].pc = "idle" => ing[i].batch = {}
       /\ ing[i].pc = "commit" => ing[i].batch \intersect stored = {}
       /\ ing[i].pc \notin {"idle", "commit"} => ing[i].batch \subseteq stored
  /\ invalidated \subseteq stored /\ unevaluated \subseteq stored
  /\ \A c \in Counters : counted[c] \subseteq stored

LEMMA LocatedStep == TypeOK /\ Located /\ [Next]_vars => Located'
<1> SUFFICES ASSUME TypeOK, Located, [Next]_vars
             PROVE  Located'
  OBVIOUS
<1>1. ASSUME NEW i \in Ingesters, NEW batch \in SUBSET (Events \ Sent), Begin(i, batch)
      PROVE  Located'
  <2>1. Begun(i, batch) /\ UNCHANGED <<stored, counted, invalidated, unevaluated>>
    BY <1>1, RowsOfSteps DEF Begin, tables, counters
  <2>2. batch \intersect stored = {}
        /\ \A j \in Ingesters : batch \intersect ing[j].batch = {}
    BY DEF Sent
  <2> QED  BY <2>1, <2>2 DEF Located, Begun
<1>2. ASSUME NEW i \in Ingesters, Commit(i) PROVE Located'
  <2>1. /\ Moved(i) /\ ing[i].pc = "commit" /\ stored' = stored \union ing[i].batch
        /\ unevaluated' = unevaluated \union ing[i].batch
        /\ UNCHANGED <<counted, invalidated>>
    BY <1>2, RowsOfSteps DEF Commit, counters
  <2> QED  BY <2>1 DEF Located, Moved
<1>3. ASSUME NEW i \in Ingesters, Invalidate(i) PROVE Located'
  <2>1. /\ Moved(i) /\ ing[i].pc = "invalidate"
        /\ invalidated' = invalidated \union ing[i].batch
        /\ UNCHANGED <<stored, counted, unevaluated>>
    BY <1>3, RowsOfSteps DEF Invalidate, tables, counters
  <2> QED  BY <2>1 DEF Located, Moved
<1>4. ASSUME NEW i \in Ingesters, NEW c \in Tallies, SaveTally(i, c) PROVE Located'
  <2>1. /\ Moved(i) /\ ing[i].pc \notin {"idle", "commit"}
        /\ counted' = [counted EXCEPT ![c] = @ \union ing[i].batch]
        /\ UNCHANGED <<stored, invalidated, unevaluated>>
    BY <1>4, RowsOfSteps DEF SaveTally, tables, Tallies
  <2>2. \A d \in Counters : counted'[d] \subseteq counted[d] \union ing[i].batch
    BY <2>1 DEF TypeOK
  <2> QED  BY <2>1, <2>2 DEF Located, Moved
<1>5. ASSUME NEW i \in Ingesters, SaveActive(i) PROVE Located'
  <2>1. /\ Moved(i) /\ ing[i].pc = "active"
        /\ counted' = [counted EXCEPT !["active"] = @ \union ing[i].batch]
        /\ UNCHANGED <<stored, invalidated, unevaluated>>
    BY <1>5, RowsOfSteps DEF SaveActive, tables
  <2>2. \A d \in Counters : counted'[d] \subseteq counted[d] \union ing[i].batch
    BY <2>1 DEF TypeOK
  <2> QED  BY <2>1, <2>2 DEF Located, Moved
<1>6. ASSUME NEW i \in Ingesters,
             CountActive(i) \/ \E c \in Tallies : ReadTally(i, c)
      PROVE  Located'
  <2>1. Held(i) /\ UNCHANGED <<stored, counted, invalidated, unevaluated>>
    BY <1>6, RowsOfSteps DEF CountActive, ReadTally, tables
  <2> QED  BY <2>1 DEF Located, Held
<1>7. ASSUME NEW i \in Ingesters, Broadcast(i) \/ EvaluationNotEnqueued(i)
      PROVE  Located'
  <2>1. /\ Moved(i) /\ ing[i].pc \in {"broadcast", "evaluate"}
        /\ UNCHANGED <<stored, counted, invalidated, unevaluated>>
    BY <1>7, RowsOfSteps DEF Broadcast, EvaluationNotEnqueued, tables, counters
  <2> QED  BY <2>1 DEF Located, Moved
<1>8. ASSUME NEW i \in Ingesters, EnqueueEvaluation(i) PROVE Located'
  <2>1. /\ Moved(i) /\ ing[i].pc = "evaluate" /\ unevaluated' = {}
        /\ UNCHANGED <<stored, counted, invalidated>>
    BY <1>8, RowsOfSteps DEF EnqueueEvaluation, tables, counters
  <2> QED  BY <2>1 DEF Located, Moved
<1>9. ASSUME NEW i \in Ingesters, Stop(i) PROVE Located'
  <2>1. Reset(i) /\ UNCHANGED <<stored, counted, invalidated, unevaluated>>
    BY <1>9, RowsOfSteps DEF Stop, tables, counters
  <2> QED  BY <2>1 DEF Located, Reset
<1>10. ASSUME UNCHANGED <<ing, stored, counted, invalidated, unevaluated>>
       PROVE  Located'
  BY <1>10 DEF Located
<1>11. ASSUME NEW q \in Readers, ReaderStep(q)
       PROVE  Located'
  BY <1>10, <1>11 DEF ReaderStep, Hit, Miss, Query, Fill, Answer, tables, counters
<1>12. ASSUME NEW k \in Keys, Expire(k) PROVE Located'
  BY <1>10, <1>12 DEF Expire, tables, counters
<1>13. CASE UNCHANGED vars
  BY <1>10, <1>13 DEF vars
<1> QED
  BY <1>1, <1>2, <1>3, <1>4, <1>5, <1>6, <1>7, <1>8, <1>9, <1>11, <1>12, <1>13
  DEF Next, IngesterStep

LEMMA EventsLocated == Spec => [](TypeOK /\ Located)
<1>1. Init => TypeOK /\ Located
  BY InitType DEF Init, Located, IdleIngester
<1> QED
  BY <1>1, TypeStep, LocatedStep, PTL DEF Spec

-----------------------------------------------------------------------------
(* The data source.                                                        *)

OneInsertEach ==
  /\ \A i \in Ingesters : ing[i].pc = "commit" /\ ing[i].new =>
                            \A a \in sources : a.by # i
  /\ SourcesByOverlap

LEMMA OneInsertEachStep ==
  TypeOK /\ OneInsertEach /\ [Next]_vars => OneInsertEach'
<1> SUFFICES ASSUME TypeOK, OneInsertEach, [Next]_vars
             PROVE  OneInsertEach'
  OBVIOUS
<1> USE DEF OneInsertEach, SourcesByOverlap
<1>1. ASSUME NEW i \in Ingesters, NEW batch, Begin(i, batch) PROVE OneInsertEach'
  <2>1. Begun(i, batch) /\ sources' = sources
    BY <1>1, RowsOfSteps DEF Begin, tables
  <2> QED  BY <2>1 DEF Begun
<1>2. ASSUME NEW i \in Ingesters, Commit(i) PROVE OneInsertEach'
  <2>1. /\ Moved(i) /\ ing[i].pc = "commit"
        /\ sources' = IF ing[i].new
                      THEN sources \union {[by |-> i, batch |-> ing[i].batch]}
                      ELSE sources
    BY <1>2, RowsOfSteps DEF Commit
  <2> QED  BY <2>1 DEF Moved
<1>3. ASSUME NEW i \in Ingesters, Moved(i), ing[i].pc # "commit", sources' = sources
      PROVE  OneInsertEach'
  BY <1>3 DEF Moved
<1>4. ASSUME NEW i \in Ingesters, NEW c \in Tallies, SaveTally(i, c)
      PROVE  OneInsertEach'
  BY <1>3, <1>4, RowsOfSteps DEF SaveTally, tables, Tallies
<1>5. ASSUME NEW i \in Ingesters,
             Invalidate(i) \/ SaveActive(i) \/ Broadcast(i)
               \/ EnqueueEvaluation(i) \/ EvaluationNotEnqueued(i)
      PROVE  OneInsertEach'
  BY <1>3, <1>5, RowsOfSteps DEF Invalidate, SaveActive, Broadcast,
     EnqueueEvaluation, EvaluationNotEnqueued, tables
<1>6. ASSUME NEW i \in Ingesters,
             CountActive(i) \/ \E c \in Tallies : ReadTally(i, c)
      PROVE  OneInsertEach'
  <2>1. Held(i) /\ ing[i].pc # "commit" /\ sources' = sources
    BY <1>6, RowsOfSteps DEF CountActive, ReadTally, tables, Tallies
  <2> QED  BY <2>1 DEF Held
<1>7. ASSUME NEW i \in Ingesters, Stop(i) PROVE OneInsertEach'
  <2>1. Reset(i) /\ sources' = sources
    BY <1>7, RowsOfSteps DEF Stop, tables
  <2> QED  BY <2>1 DEF Reset
<1>8. ASSUME UNCHANGED <<ing, sources>> PROVE OneInsertEach'
  BY <1>8
<1>9. ASSUME NEW q \in Readers, ReaderStep(q)
      PROVE  OneInsertEach'
  BY <1>8, <1>9 DEF ReaderStep, Hit, Miss, Query, Fill, Answer, tables
<1>10. ASSUME NEW k \in Keys, Expire(k) PROVE OneInsertEach'
  BY <1>8, <1>10 DEF Expire, tables
<1>11. CASE UNCHANGED vars
  BY <1>8, <1>11 DEF vars, tables
<1> QED
  BY <1>1, <1>2, <1>4, <1>5, <1>6, <1>7, <1>9, <1>10, <1>11 DEF Next, IngesterStep

(* Two data sources "API Ingestion" were inserted by two ingestions that   *)
(* overlapped (get_api_data_source): one that saw a row inserts none, and  *)
(* one that inserts one does so at its only commit.                        *)
THEOREM SecondSourceNeedsOverlap == Spec => []SourcesByOverlap
<1>1. Init => OneInsertEach
  BY DEF Init, OneInsertEach, SourcesByOverlap, IdleIngester
<1>2. OneInsertEach => SourcesByOverlap
  BY DEF OneInsertEach
<1> QED
  BY <1>1, <1>2, InitType, TypeStep, OneInsertEachStep, PTL DEF Spec

-----------------------------------------------------------------------------
(* The cache.                                                              *)

Informed ==
  /\ \A q \in Readers :
       /\ reader[q].pc # "idle" => reader[q].known \subseteq invalidated
       /\ reader[q].pc = "fill" => reader[q].known \subseteq reader[q].seen
  /\ FreshAfterInvalidation

LEMMA InformedStep ==
  TypeOK /\ Located /\ Informed /\ [Next]_vars => Informed'
<1> SUFFICES ASSUME TypeOK, Located, Informed, [Next]_vars
             PROVE  Informed'
  OBVIOUS
<1> USE DEF Informed, FreshAfterInvalidation
<1>1. ASSUME UNCHANGED <<cache, reader, invalidated>> PROVE Informed'
  BY <1>1
<1>2. ASSUME NEW i \in Ingesters, Invalidate(i) PROVE Informed'
  BY <1>2 DEF Invalidate, TypeOK
<1>3. ASSUME NEW i \in Ingesters, NEW c \in Tallies, ReadTally(i, c) \/ SaveTally(i, c)
      PROVE  Informed'
  BY <1>1, <1>3 DEF ReadTally, SaveTally
<1>4. ASSUME NEW i \in Ingesters,
             \/ (\E batch : Begin(i, batch)) \/ Commit(i) \/ CountActive(i)
             \/ SaveActive(i) \/ Broadcast(i) \/ EnqueueEvaluation(i)
             \/ EvaluationNotEnqueued(i) \/ Stop(i)
      PROVE  Informed'
  BY <1>1, <1>4 DEF Begin, Commit, CountActive, SaveActive, Broadcast,
     EnqueueEvaluation, EvaluationNotEnqueued, Stop
<1>5. ASSUME NEW q \in Readers, NEW k \in Keys, Miss(q, k) PROVE Informed'
  BY <1>5 DEF Miss, TypeOK
<1>6. ASSUME NEW q \in Readers, Query(q) PROVE Informed'
  <2>1. invalidated \subseteq stored
    BY DEF Located
  <2> QED  BY <1>6, <2>1 DEF Query, TypeOK
<1>7. ASSUME NEW q \in Readers, Fill(q) PROVE Informed'
  <2>1. /\ reader[q].key \in Keys /\ reader[q].known \subseteq reader[q].seen
        /\ cache' = [cache EXCEPT ![reader[q].key] =
                       [seen |-> reader[q].seen, known |-> reader[q].known]]
    BY <1>7 DEF Fill, TypeOK
  <2>2. FreshAfterInvalidation'
    BY <2>1 DEF TypeOK
  <2> QED  BY <1>7, <2>2 DEF Fill, TypeOK, IdleReader
<1>8. ASSUME NEW q \in Readers, Answer(q) \/ \E k \in Keys : Hit(q, k)
      PROVE  Informed'
  <2>1. /\ \A p \in Readers \ {q} : reader'[p] = reader[p]
        /\ reader'[q].known = {} /\ reader'[q].pc # "fill"
        /\ UNCHANGED <<cache, invalidated>>
    BY <1>8 DEF Answer, Hit, TypeOK, IdleReader
  <2> QED  BY <2>1
<1>9. ASSUME NEW k \in Keys, Expire(k) PROVE Informed'
  BY <1>9 DEF Expire, TypeOK
<1>10. CASE UNCHANGED vars
  BY <1>1, <1>10 DEF vars
<1> QED
  BY <1>2, <1>3, <1>4, <1>5, <1>6, <1>7, <1>8, <1>9, <1>10
  DEF Next, IngesterStep, ReaderStep

(* A cached overview has every event whose ingestion invalidated the cache *)
(* before the overview was asked for, in any interleaving of ingestions,   *)
(* readers and expiries: invalidation follows the commit, so a reader that *)
(* begins later queries a table that has the event.                        *)
THEOREM CacheMissesNothingInvalidated == Spec => []FreshAfterInvalidation
<1>1. Init => Informed
  BY DEF Init, Informed, FreshAfterInvalidation, IdleReader
<1>2. Informed => FreshAfterInvalidation
  BY DEF Informed
<1> QED
  BY <1>1, <1>2, EventsLocated, InformedStep, PTL DEF Spec

-----------------------------------------------------------------------------
(* The evaluations.                                                        *)

LEMMA EvaluationStep ==
  TypeOK /\ Located /\ EvaluationFollows /\ [Next]_vars => EvaluationFollows'
<1> SUFFICES ASSUME TypeOK, Located, EvaluationFollows, [Next]_vars
             PROVE  EvaluationFollows'
  OBVIOUS
<1> USE DEF EvaluationFollows
<1>1. ASSUME NEW i \in Ingesters, NEW batch, Begin(i, batch) PROVE EvaluationFollows'
  <2>1. Begun(i, batch) /\ UNCHANGED <<unevaluated, dropped>>
    BY <1>1, RowsOfSteps DEF Begin
  <2> QED  BY <2>1 DEF Begun
<1>2. ASSUME NEW i \in Ingesters, Commit(i) PROVE EvaluationFollows'
  <2>1. /\ Moved(i) /\ ing[i].pc = "commit" /\ dropped' = dropped
        /\ unevaluated' = unevaluated \union ing[i].batch
    BY <1>2, RowsOfSteps DEF Commit
  <2> QED  BY <2>1 DEF Moved
<1>3. ASSUME NEW i \in Ingesters, Moved(i) \/ Held(i), ing[i].pc # "evaluate",
             UNCHANGED <<unevaluated, dropped>>
      PROVE  EvaluationFollows'
  BY <1>3 DEF Moved, Held
<1>4. ASSUME NEW i \in Ingesters, NEW c \in Tallies, ReadTally(i, c) \/ SaveTally(i, c)
      PROVE  EvaluationFollows'
  BY <1>3, <1>4, RowsOfSteps DEF ReadTally, SaveTally, Tallies
<1>5. ASSUME NEW i \in Ingesters,
             Invalidate(i) \/ CountActive(i) \/ SaveActive(i) \/ Broadcast(i)
      PROVE  EvaluationFollows'
  BY <1>3, <1>5, RowsOfSteps DEF Invalidate, CountActive, SaveActive, Broadcast
<1>6. ASSUME NEW i \in Ingesters, EnqueueEvaluation(i) PROVE EvaluationFollows'
  BY <1>6 DEF EnqueueEvaluation
<1>7. ASSUME NEW i \in Ingesters, EvaluationNotEnqueued(i) PROVE EvaluationFollows'
  <2>1. /\ Moved(i) /\ dropped' = dropped \union ing[i].batch
        /\ unevaluated' = unevaluated
    BY <1>7, RowsOfSteps DEF EvaluationNotEnqueued
  <2> QED  BY <2>1 DEF Moved
<1>8. ASSUME NEW i \in Ingesters, Stop(i) PROVE EvaluationFollows'
  <2>1. /\ Reset(i) /\ dropped' = dropped \union (ing[i].batch \intersect stored)
        /\ unevaluated' = unevaluated /\ unevaluated \subseteq stored
    BY <1>8, RowsOfSteps DEF Stop, Located
  <2> QED  BY <2>1 DEF Reset
<1>9. ASSUME UNCHANGED <<ing, unevaluated, dropped>> PROVE EvaluationFollows'
  BY <1>9
<1>10. ASSUME NEW q \in Readers, ReaderStep(q)
       PROVE  EvaluationFollows'
  BY <1>9, <1>10 DEF ReaderStep, Hit, Miss, Query, Fill, Answer
<1>11. ASSUME NEW k \in Keys, Expire(k) PROVE EvaluationFollows'
  BY <1>9, <1>11 DEF Expire
<1>12. CASE UNCHANGED vars
  BY <1>9, <1>12 DEF vars
<1> QED
  BY <1>1, <1>2, <1>4, <1>5, <1>6, <1>7, <1>8, <1>10, <1>11, <1>12
  DEF Next, IngesterStep

(* No stored event is without an evaluation that was enqueued after its    *)
(* commit unless its own ingestion is still under way or has failed: an    *)
(* evaluation enqueued by another ingestion never stands in too early.     *)
THEOREM EveryEventIsEvaluated == Spec => []EvaluationFollows
<1>1. Init => EvaluationFollows
  BY DEF Init, EvaluationFollows
<1> QED
  BY <1>1, EventsLocated, EvaluationStep, PTL DEF Spec

-----------------------------------------------------------------------------
(* The counters.                                                           *)

(* Counting is additive over batches that are new.                         *)
LEMMA TallyAdds ==
  ASSUME NEW E \in SUBSET Events, NEW B \in SUBSET Events, B \intersect E = {}, NEW c
  PROVE  /\ Tally(c, E) \in Nat /\ Increment(c, B) \in Nat
         /\ Tally(c, E \union B) = Tally(c, E) + Increment(c, B)
<1>1. /\ IsFiniteSet(E) /\ IsFiniteSet(B)
      /\ IsFiniteSet(E \intersect ApiCalls) /\ IsFiniteSet(B \intersect ApiCalls)
  BY IngestionConstants, FS_Subset
<1>2. Cardinality({}) = 0
  BY FS_EmptySet
<1>3. Cardinality(E \union B) = Cardinality(E) + Cardinality(B)
  <2>1. Cardinality(E \union B)
          = Cardinality(E) + Cardinality(B) - Cardinality(E \intersect B)
    BY <1>1, FS_Union
  <2>2. Cardinality(E \intersect B) = 0
    <3>1. E \intersect B = {}
      OBVIOUS
    <3> QED  BY <1>2, <3>1
  <2>3. Cardinality(E) \in Nat /\ Cardinality(B) \in Nat
    BY <1>1, FS_CardinalityType
  <2> QED  BY <2>1, <2>2, <2>3
<1>4. Cardinality((E \union B) \intersect ApiCalls)
        = Cardinality(E \intersect ApiCalls) + Cardinality(B \intersect ApiCalls)
  <2> DEFINE F == E \intersect ApiCalls
             C == B \intersect ApiCalls
  <2>1. /\ (E \union B) \intersect ApiCalls = F \union C
        /\ F \intersect C = {}
    OBVIOUS
  <2> HIDE DEF F, C
  <2>2. IsFiniteSet(F) /\ IsFiniteSet(C)
    BY <1>1 DEF F, C
  <2>3. Cardinality(F \union C) = Cardinality(F) + Cardinality(C)
    BY <1>2, <2>1, <2>2, FS_Union, FS_CardinalityType
  <2> QED  BY <2>1, <2>3 DEF F, C
<1> QED
  BY <1>1, <1>3, <1>4, FS_CardinalityType DEF Tally, Increment

(* The steps of an ingestion that are before its save of a tally.          *)
Ahead(c) == IF c = "monthly" THEN {"commit", "invalidate", "monthly"}
            ELSE {"commit", "invalidate", "monthly", "api"}

Tallied ==
  /\ \A c \in Tallies, i \in Ingesters :
       /\ ing[i].pc \in Ahead(c) => ing[i].batch \intersect counted[c] = {}
       /\ ing[i].pc = c /\ ing[i].half =>
            /\ ing[i].read <= Tally(c, counted[c])
            /\ c \notin raced => ing[i].read = used[c]
  /\ \A c \in Tallies, i, j \in Ingesters :
       i # j /\ ing[i].pc = c /\ ing[i].half /\ ing[j].pc = c /\ ing[j].half
         => c \in raced
  /\ TalliesAreExact

LEMMA TalliedStep ==
  TypeOK /\ Located /\ Tallied /\ [Next]_vars => Tallied'
<1> SUFFICES ASSUME TypeOK, Located, Tallied, [Next]_vars
             PROVE  Tallied'
  OBVIOUS
<1> USE DEF Tallied, TalliesAreExact
<1>1. ASSUME NEW i \in Ingesters, NEW batch \in SUBSET (Events \ Sent), Begin(i, batch)
      PROVE  Tallied'
  <2>1. Begun(i, batch) /\ UNCHANGED <<used, counted, raced>>
    BY <1>1, RowsOfSteps DEF Begin, counters
  <2>2. \A c \in Tallies : batch \intersect counted[c] = {}
    BY DEF Sent, Located, Counters
  <2> QED  BY <2>1, <2>2 DEF Begun, Tally
<1>2. ASSUME NEW i \in Ingesters, Moved(i), ing[i].pc \notin Tallies \union {"idle"},
             UNCHANGED <<used, raced>>,
             \A c \in Tallies : counted'[c] = counted[c]
      PROVE  Tallied'
  <2>1. \A c \in Tallies : /\ ing'[i].pc \in Ahead(c) => ing[i].pc \in Ahead(c)
                           /\ ing'[i].pc # "idle" => ing'[i].batch = ing[i].batch
    BY <1>2, AfterPCs DEF Moved, Ahead, Tallies, TypeOK, PCs, Counters
  <2>2. \A c \in Tallies : Tally(c, counted[c])' = Tally(c, counted[c])
    BY <1>2 DEF Tally
  <2>3. /\ \A j \in Ingesters \ {i} : ing'[j] = ing[j]
        /\ ~ ing'[i].half
    BY <1>2 DEF Moved
  <2>4. \A c \in Tallies, j \in Ingesters :
          ing'[j].pc \in Ahead(c) => ing'[j].batch \intersect counted'[c] = {}
    BY <1>2, <2>1, <2>3 DEF Ahead
  <2> QED  BY <1>2, <2>2, <2>3, <2>4
<1>3. ASSUME NEW i \in Ingesters, Commit(i) \/ Invalidate(i) \/ Broadcast(i)
                                   \/ EnqueueEvaluation(i) \/ EvaluationNotEnqueued(i)
      PROVE  Tallied'
  <2>1. /\ Moved(i) /\ ing[i].pc \notin Tallies \union {"idle"}
        /\ UNCHANGED <<used, raced, counted>>
    BY <1>3, RowsOfSteps DEF Commit, Invalidate, Broadcast, EnqueueEvaluation,
       EvaluationNotEnqueued, counters, Tallies
  <2> QED  BY <1>2, <2>1
<1>4. ASSUME NEW i \in Ingesters, SaveActive(i) PROVE Tallied'
  <2>1. /\ Moved(i) /\ ing[i].pc \notin Tallies \union {"idle"}
        /\ UNCHANGED <<used, raced>>
        /\ counted' = [counted EXCEPT !["active"] = @ \union ing[i].batch]
    BY <1>4, RowsOfSteps DEF SaveActive, Tallies
  <2>2. \A c \in Tallies : counted'[c] = counted[c]
    BY <2>1 DEF TypeOK, Tallies, Counters
  <2> QED  BY <1>2, <2>1, <2>2
<1>5. ASSUME NEW i \in Ingesters, CountActive(i) PROVE Tallied'
  <2>1. /\ Held(i) /\ ing[i].pc = "active" /\ UNCHANGED <<used, counted>>
        /\ raced' = raced \/ raced' = raced \union {"active"}
    BY <1>5, RowsOfSteps DEF CountActive
  <2>2. \A c \in Tallies : c # "active" /\ "active" \notin Ahead(c)
    BY DEF Tallies, Ahead
  <2>3. \A c \in Tallies : (c \in raced)' <=> c \in raced
    BY <2>1, <2>2
  <2>4. \A c \in Tallies : Tally(c, counted[c])' = Tally(c, counted[c])
    BY <2>1 DEF Tally
  <2> QED  BY <2>1, <2>2, <2>3, <2>4 DEF Held, Ahead
<1>6. ASSUME NEW i \in Ingesters, NEW d \in Tallies, ReadTally(i, d) PROVE Tallied'
  <2>1. /\ Held(i) /\ ing[i].pc = d /\ ing'[i].read = used[d]
        /\ UNCHANGED <<used, counted>>
        /\ raced' = IF InHand(i, d) THEN raced \union {d} ELSE raced
    <3>1. ing' = [ing EXCEPT ![i] = [ing[i] EXCEPT !.half = TRUE, !.read = used[d]]]
      BY <1>6 DEF ReadTally
    <3>2. ing'[i].read = used[d]
      BY <3>1 DEF TypeOK
    <3> QED  BY <1>6, <3>2, RowsOfSteps DEF ReadTally
  <2>2. \A c \in Tallies : Tally(c, counted[c])' = Tally(c, counted[c])
    BY <2>1 DEF Tally
  <2>3. raced \subseteq raced' /\ \A c \in Tallies : c # d => (c \in raced' <=> c \in raced)
    BY <2>1
  <2>4. \A j \in Ingesters : j # i /\ ing'[j].pc = d /\ ing'[j].half => d \in raced'
    BY <2>1 DEF InHand, Held
  <2>5. \A c \in Tallies, j \in Ingesters :
          ing'[j].pc \in Ahead(c) => ing'[j].batch \intersect counted'[c] = {}
    BY <2>1 DEF Held, Ahead
  <2>6. \A c \in Tallies, j \in Ingesters :
          ing'[j].pc = c /\ ing'[j].half =>
            /\ ing'[j].read <= Tally(c, counted[c])
            /\ c \notin raced' => ing'[j].read = used[c]
    BY <2>1, <2>3 DEF Held
  <2>7. \A c \in Tallies, j, k \in Ingesters :
          j # k /\ ing'[j].pc = c /\ ing'[j].half /\ ing'[k].pc = c /\ ing'[k].half
            => c \in raced'
    BY <2>1, <2>3, <2>4 DEF Held
  <2>8. TalliesAreExact'
    BY <2>1, <2>2, <2>3
  <2> QED  BY <2>1, <2>2, <2>5, <2>6, <2>7, <2>8
<1>7. ASSUME NEW i \in Ingesters, NEW d \in Tallies, SaveTally(i, d) PROVE Tallied'
  <2> DEFINE B == ing[i].batch
             D == counted[d]
  <2>1. /\ Moved(i) /\ ing[i].pc = d /\ ing[i].half /\ raced' = raced
        /\ used'[d] = ing[i].read + Increment(d, B)
        /\ counted'[d] = D \union B
        /\ \A c \in Tallies \ {d} : used'[c] = used[c] /\ counted'[c] = counted[c]
    BY <1>7, RowsOfSteps DEF SaveTally, TypeOK, Counters
  <2>2. B \in SUBSET Events /\ D \in SUBSET Events /\ B \intersect D = {}
    BY <2>1 DEF TypeOK, Counters, Ahead, Tallies
  <2>3. /\ Tally(d, D) \in Nat /\ Increment(d, B) \in Nat
        /\ Tally(d, D \union B) = Tally(d, D) + Increment(d, B)
    BY <2>2, TallyAdds, ZenonT(40)
  <2>4. ing[i].read \in Nat /\ used[d] \in Nat
    BY DEF TypeOK
  <2>5. /\ Tally(d, counted[d])' = Tally(d, D) + Increment(d, B)
        /\ \A c \in Tallies \ {d} : Tally(c, counted[c])' = Tally(c, counted[c])
    BY <2>1, <2>3 DEF Tally
  <2>6. TalliesAreExact'
    <3>1. /\ ing[i].read <= Tally(d, D)
          /\ d \notin raced => ing[i].read = used[d] /\ used[d] = Tally(d, D)
      BY <2>1
    <3>2. /\ used'[d] <= Tally(d, counted[d])'
          /\ d \notin raced' => used'[d] = Tally(d, counted[d])'
      BY <2>1, <2>3, <2>4, <2>5, <3>1
    <3>3. \A c \in Tallies \ {d} :
            /\ used'[c] <= Tally(c, counted[c])'
            /\ c \notin raced' => used'[c] = Tally(c, counted[c])'
      BY <2>1, <2>5
    <3> QED  BY <3>2, <3>3
  <2>7. \A c \in Tallies, j \in Ingesters :
          ing'[j].pc \in Ahead(c) => ing'[j].batch \intersect counted'[c] = {}
    <3>1. CASE d = "monthly"
      <4>1. ing'[i].pc = "api" /\ ing'[i].batch = B
        BY <2>1, <3>1, AfterPCs DEF Moved
      <4>2. \A j \in Ingesters \ {i} : ing'[j] = ing[j] /\ ing[j].batch \intersect B = {}
        BY <2>1 DEF Moved, Located
      <4> QED
        BY <2>1, <3>1, <4>1, <4>2 DEF Ahead, Tallies
    <3>2. CASE d = "api"
      <4>1. ing'[i].pc = "active"
        BY <2>1, <3>2, AfterPCs DEF Moved
      <4>2. \A j \in Ingesters \ {i} : ing'[j] = ing[j] /\ ing[j].batch \intersect B = {}
        BY <2>1 DEF Moved, Located
      <4> QED
        BY <2>1, <3>2, <4>1, <4>2 DEF Ahead, Tallies
    <3> QED  BY <3>1, <3>2 DEF Tallies
  <2>8. \A c \in Tallies, j \in Ingesters :
          ing'[j].pc = c /\ ing'[j].half =>
            /\ ing'[j].read <= Tally(c, counted[c])'
            /\ c \notin raced' => ing'[j].read = used'[c]
    <3> SUFFICES ASSUME NEW c \in Tallies, NEW j \in Ingesters,
                        ing'[j].pc = c, ing'[j].half
                 PROVE  /\ ing'[j].read <= Tally(c, counted[c])'
                        /\ c \notin raced' => ing'[j].read = used'[c]
      OBVIOUS
    <3>1. j # i /\ ing'[j] = ing[j]
      BY <2>1 DEF Moved
    <3>2. CASE c = d
      <4>1. d \in raced /\ ing[j].read <= Tally(d, D) /\ ing[j].read \in Nat
        BY <2>1, <3>1, <3>2 DEF TypeOK
      <4>2. ing[j].read <= Tally(d, D) + Increment(d, B)
        BY <2>3, <4>1
      <4>3. ing'[j].read <= Tally(d, counted[d])'
        BY <2>5, <3>1, <4>2
      <4> QED
        BY <2>1, <3>2, <4>1, <4>3
    <3>3. CASE c # d
      BY <2>1, <2>5, <3>1, <3>3
    <3> QED  BY <3>2, <3>3
  <2>9. \A c \in Tallies, j, k \in Ingesters :
          j # k /\ ing'[j].pc = c /\ ing'[j].half /\ ing'[k].pc = c /\ ing'[k].half
            => c \in raced'
    BY <2>1 DEF Moved
  <2> QED  BY <2>6, <2>7, <2>8, <2>9
<1>8. ASSUME NEW i \in Ingesters, Stop(i) PROVE Tallied'
  <2>1. Reset(i) /\ UNCHANGED <<used, counted, raced>>
    BY <1>8, RowsOfSteps DEF Stop, counters
  <2>2. \A c \in Tallies : Tally(c, counted[c])' = Tally(c, counted[c])
    BY <2>1 DEF Tally
  <2> QED  BY <2>1, <2>2 DEF Reset, Ahead
<1>9. ASSUME UNCHANGED <<ing, used, counted, raced>> PROVE Tallied'
  BY <1>9 DEF Tally
<1>10. ASSUME NEW q \in Readers, ReaderStep(q)
       PROVE  Tallied'
  BY <1>9, <1>10 DEF ReaderStep, Hit, Miss, Query, Fill, Answer, counters
<1>11. ASSUME NEW k \in Keys, Expire(k) PROVE Tallied'
  BY <1>9, <1>11 DEF Expire, counters
<1>12. CASE UNCHANGED vars
  BY <1>9, <1>12 DEF vars, counters
<1> QED
  BY <1>1, <1>3, <1>4, <1>5, <1>6, <1>7, <1>8, <1>10, <1>11, <1>12
  DEF Next, IngesterStep

(* update_usage_counters never counts an event twice, whatever fails and   *)
(* however many ingestions overlap; a counter falls short only after two   *)
(* ingestions were between its read and its save at once.                  *)
THEOREM CountersNeverOvercount == Spec => []TalliesAreExact
<1>1. Init => Tallied
  <2>1. Cardinality({}) = 0 /\ {} \intersect ApiCalls = {}
    BY FS_EmptySet
  <2> QED
    BY <2>1 DEF Init, Tallied, TalliesAreExact, IdleIngester, Ahead, Tally, Tallies,
       Counters
<1>2. Tallied => TalliesAreExact
  BY DEF Tallied
<1> QED
  BY <1>1, <1>2, EventsLocated, TalliedStep, PTL DEF Spec

(* Between the count of the active users and its save, the count has seen  *)
(* the events of every earlier save, or another ingestion overlapped.      *)
ActiveSeen ==
  /\ \A i \in Ingesters : ing[i].pc = "active" /\ ing[i].half =>
       /\ ing[i].batch \subseteq ing[i].seen
       /\ "active" \notin raced => counted["active"] \subseteq ing[i].seen
  /\ \A i, j \in Ingesters :
       i # j /\ ing[i].pc = "active" /\ ing[i].half /\ ing[j].pc = "active" /\ ing[j].half
         => "active" \in raced
  /\ ActiveIsCurrent

LEMMA ActiveSeenStep ==
  TypeOK /\ Located /\ ActiveSeen /\ [Next]_vars => ActiveSeen'
<1> SUFFICES ASSUME TypeOK, Located, ActiveSeen, [Next]_vars
             PROVE  ActiveSeen'
  OBVIOUS
<1> USE DEF ActiveSeen, ActiveIsCurrent
<1>1. ASSUME NEW i \in Ingesters, \A j \in Ingesters \ {i} : ing'[j] = ing[j],
             ~ (ing'[i].pc = "active" /\ ing'[i].half), active' = active,
             ("active" \in raced)' <=> "active" \in raced,
             counted'["active"] = counted["active"]
      PROVE  ActiveSeen'
  BY <1>1
<1>2. ASSUME NEW i \in Ingesters, NEW batch, Begin(i, batch) PROVE ActiveSeen'
  BY <1>1, <1>2, RowsOfSteps DEF Begin, Begun, counters
<1>3. ASSUME NEW i \in Ingesters, Commit(i) \/ Invalidate(i) \/ Broadcast(i)
                                   \/ EnqueueEvaluation(i) \/ EvaluationNotEnqueued(i)
      PROVE  ActiveSeen'
  <2>1. Moved(i) /\ UNCHANGED <<active, raced, counted>>
    BY <1>3, RowsOfSteps DEF Commit, Invalidate, Broadcast, EnqueueEvaluation,
       EvaluationNotEnqueued, counters
  <2> QED  BY <1>1, <2>1 DEF Moved
<1>4. ASSUME NEW i \in Ingesters, NEW d \in Tallies, ReadTally(i, d) PROVE ActiveSeen'
  <2>1. /\ Held(i) /\ ing[i].pc = d /\ UNCHANGED <<active, counted>>
        /\ raced' = raced \/ raced' = raced \union {d}
    BY <1>4, RowsOfSteps DEF ReadTally
  <2>2. d # "active"
    BY DEF Tallies
  <2> QED  BY <1>1, <2>1, <2>2 DEF Held
<1>5. ASSUME NEW i \in Ingesters, NEW d \in Tallies, SaveTally(i, d) PROVE ActiveSeen'
  <2>1. /\ Moved(i) /\ UNCHANGED <<active, raced>>
        /\ counted' = [counted EXCEPT ![d] = @ \union ing[i].batch]
    BY <1>5, RowsOfSteps DEF SaveTally
  <2>2. counted'["active"] = counted["active"]
    BY <2>1 DEF TypeOK, Tallies, Counters
  <2> QED  BY <1>1, <2>1, <2>2 DEF Moved
<1>6. ASSUME NEW i \in Ingesters, CountActive(i) PROVE ActiveSeen'
  <2>1. /\ Held(i) /\ ing[i].pc = "active" /\ UNCHANGED <<active, counted>>
        /\ raced' = IF InHand(i, "active") THEN raced \union {"active"} ELSE raced
    BY <1>6, RowsOfSteps DEF CountActive
  <2>2. ing'[i].seen = stored
    <3>1. ing' = [ing EXCEPT ![i] = [ing[i] EXCEPT !.half = TRUE, !.seen = stored]]
      BY <1>6 DEF CountActive
    <3> QED  BY <3>1 DEF TypeOK
  <2>3. ing[i].batch \subseteq stored /\ counted["active"] \subseteq stored
    BY <2>1 DEF Located, Counters
  <2>4. \A j \in Ingesters : j # i /\ ing'[j].pc = "active" /\ ing'[j].half
                             => "active" \in raced'
    BY <2>1 DEF InHand, Held
  <2> QED  BY <2>1, <2>2, <2>3, <2>4 DEF Held
<1>7. ASSUME NEW i \in Ingesters, SaveActive(i) PROVE ActiveSeen'
  <2>1. /\ Moved(i) /\ ing[i].pc = "active" /\ ing[i].half /\ raced' = raced
        /\ active' = ing[i].seen
        /\ counted'["active"] = counted["active"] \union ing[i].batch
    BY <1>7, RowsOfSteps DEF SaveActive, TypeOK, Counters
  <2>2. \A j \in Ingesters \ {i} :
          ing'[j] = ing[j] /\ (ing[j].pc = "active" /\ ing[j].half => "active" \in raced')
    BY <2>1 DEF Moved
  <2> QED  BY <2>1, <2>2 DEF Moved
<1>8. ASSUME NEW i \in Ingesters, Stop(i) PROVE ActiveSeen'
  BY <1>1, <1>8, RowsOfSteps DEF Stop, Reset, counters
<1>9. ASSUME UNCHANGED <<ing, active, counted, raced>> PROVE ActiveSeen'
  BY <1>9
<1>10. ASSUME NEW q \in Readers, ReaderStep(q)
       PROVE  ActiveSeen'
  BY <1>9, <1>10 DEF ReaderStep, Hit, Miss, Query, Fill, Answer, counters
<1>11. ASSUME NEW k \in Keys, Expire(k) PROVE ActiveSeen'
  BY <1>9, <1>11 DEF Expire, counters
<1>12. CASE UNCHANGED vars
  BY <1>9, <1>12 DEF vars, counters
<1> QED
  BY <1>2, <1>3, <1>4, <1>5, <1>6, <1>7, <1>8, <1>10, <1>11, <1>12
  DEF Next, IngesterStep

(* The value of "Active Users" was counted from a table that had the       *)
(* events of every ingestion that has saved it, unless two ingestions had  *)
(* both counted before either saved.                                       *)
THEOREM ActiveUsersAreCurrent == Spec => []ActiveIsCurrent
<1>1. Init => ActiveSeen
  BY DEF Init, ActiveSeen, ActiveIsCurrent, IdleIngester, Counters
<1>2. ActiveSeen => ActiveIsCurrent
  BY DEF ActiveSeen
<1> QED
  BY <1>1, <1>2, EventsLocated, ActiveSeenStep, PTL DEF Spec


-----------------------------------------------------------------------------
(* Every event is counted, or is going to be.                              *)

(* The steps of an ingestion that has stored its events and has not saved  *)
(* a counter yet.                                                          *)
Uncounted(c) ==
  {"invalidate", "monthly"} \union (IF c = "monthly" THEN {} ELSE {"api"})
    \union (IF c = "active" THEN {"active"} ELSE {})

OnItsWay(c, e) ==
  \E i \in Ingesters : e \in ing[i].batch /\ ing[i].pc \in Uncounted(c)

CountingFollows ==
  metered => \A c \in Counters, e \in stored :
    e \in counted[c] \/ OnItsWay(c, e) \/ ("stop" \in Faults /\ e \in dropped)

LEMMA CountingStep ==
  TypeOK /\ Located /\ CountingFollows /\ [Next]_vars => CountingFollows'
<1> SUFFICES ASSUME TypeOK, Located, CountingFollows, [Next]_vars, metered',
                    NEW c \in Counters, NEW e \in stored'
             PROVE  \/ e \in counted'[c] \/ OnItsWay(c, e)'
                    \/ "stop" \in Faults /\ e \in dropped'
  BY DEF CountingFollows
<1> DEFINE Goal == \/ e \in counted'[c] \/ OnItsWay(c, e)'
                   \/ "stop" \in Faults /\ e \in dropped'
<1>0. /\ {"idle", "commit", "broadcast", "evaluate"} \intersect Uncounted(c) = {}
      /\ "invalidate" \in Uncounted(c) /\ "monthly" \in Uncounted(c)
      /\ "api" \in Uncounted(c) <=> c # "monthly"
      /\ "active" \in Uncounted(c) <=> c = "active"
  BY DEF Uncounted
<1>m. metered
  BY DEF Next, Begin, IngesterStep, Commit, Invalidate, ReadTally, SaveTally, CountActive,
         SaveActive, Broadcast, EnqueueEvaluation, EvaluationNotEnqueued, Stop,
         ReaderStep, Hit, Miss, Query, Fill, Answer, Expire, tables, vars
(* The ingestion was not among those on their way, or still is.            *)
<1>a. ASSUME NEW i \in Ingesters, \A j \in Ingesters \ {i} : ing'[j] = ing[j],
             ing[i].pc \in Uncounted(c) =>
               ing'[i].pc \in Uncounted(c) /\ ing'[i].batch = ing[i].batch,
             stored' = stored, counted[c] \subseteq counted'[c], dropped \subseteq dropped'
      PROVE  Goal
  BY <1>m, <1>a DEF CountingFollows, OnItsWay
<1>1. ASSUME NEW i \in Ingesters, NEW batch, Begin(i, batch) PROVE Goal
  <2>1. Begun(i, batch) /\ UNCHANGED <<stored, counted, dropped>>
    BY <1>1, RowsOfSteps DEF Begin, tables, counters
  <2> QED  BY <1>0, <1>a, <2>1 DEF Begun
<1>2. ASSUME NEW i \in Ingesters, Commit(i) PROVE Goal
  <2>1. /\ Moved(i) /\ ing[i].pc = "commit" /\ stored' = stored \union ing[i].batch
        /\ ing'[i].pc = "invalidate" /\ UNCHANGED <<counted, dropped>>
    BY <1>2, RowsOfSteps, AfterPCs DEF Commit, counters, Moved
  <2>2. CASE e \in ing[i].batch
    BY <1>0, <2>1, <2>2 DEF Moved, OnItsWay
  <2>3. CASE e \in stored
    BY <1>m, <1>0, <2>1, <2>3 DEF Moved, OnItsWay, CountingFollows
  <2> QED  BY <2>1, <2>2, <2>3
<1>3. ASSUME NEW i \in Ingesters, Invalidate(i) PROVE Goal
  <2>1. Moved(i) /\ ing[i].pc = "invalidate" /\ UNCHANGED <<stored, counted, dropped>>
    BY <1>3, RowsOfSteps DEF Invalidate, tables, counters
  <2>2. ing'[i].pc = "monthly"
    BY <1>m, <2>1 DEF Moved, After
  <2> QED  BY <1>0, <1>a, <2>1, <2>2 DEF Moved
<1>4. ASSUME NEW i \in Ingesters, CountActive(i) \/ \E d \in Tallies : ReadTally(i, d)
      PROVE  Goal
  <2>1. Held(i) /\ UNCHANGED <<stored, counted, dropped>>
    BY <1>4, RowsOfSteps DEF CountActive, ReadTally, tables
  <2> QED  BY <1>a, <2>1 DEF Held
<1>5. ASSUME NEW i \in Ingesters, NEW d \in Tallies, SaveTally(i, d) PROVE Goal
  <2>1. /\ Moved(i) /\ ing[i].pc = d /\ UNCHANGED <<stored, dropped>>
        /\ counted' = [counted EXCEPT ![d] = @ \union ing[i].batch]
    BY <1>5, RowsOfSteps DEF SaveTally, tables
  <2>2. /\ \A b \in Counters : counted[b] \subseteq counted'[b]
        /\ counted'[d] = counted[d] \union ing[i].batch
    BY <2>1 DEF TypeOK, Counters
  <2>3. CASE c = d
    BY <1>m, <2>1, <2>2, <2>3 DEF CountingFollows, OnItsWay, Moved
  <2>4. CASE c # d
    <3>1. /\ d = "monthly" => ing'[i].pc = "api"
          /\ d = "api" => ing'[i].pc = "active"
          /\ ing'[i].batch = ing[i].batch
      BY <2>1, AfterPCs DEF Moved, Tallies
    <3>2. ing[i].pc \in Uncounted(c) => ing'[i].pc \in Uncounted(c)
      BY <1>0, <2>1, <2>4, <3>1 DEF Tallies, Counters
    <3> QED  BY <1>a, <2>1, <2>2, <3>1, <3>2 DEF Moved
  <2> QED  BY <2>3, <2>4
<1>6. ASSUME NEW i \in Ingesters, SaveActive(i) PROVE Goal
  <2>1. /\ Moved(i) /\ ing[i].pc = "active" /\ UNCHANGED <<stored, dropped>>
        /\ counted' = [counted EXCEPT !["active"] = @ \union ing[i].batch]
    BY <1>6, RowsOfSteps DEF SaveActive, tables
  <2>2. /\ \A b \in Counters : counted[b] \subseteq counted'[b]
        /\ counted'["active"] = counted["active"] \union ing[i].batch
    BY <2>1 DEF TypeOK, Counters
  <2>3. CASE c = "active"
    BY <1>m, <2>1, <2>2, <2>3 DEF CountingFollows, OnItsWay, Moved
  <2>4. CASE c # "active"
    BY <1>0, <1>a, <2>1, <2>2, <2>4 DEF Moved
  <2> QED  BY <2>3, <2>4
<1>7. ASSUME NEW i \in Ingesters,
             Broadcast(i) \/ EnqueueEvaluation(i) \/ EvaluationNotEnqueued(i)
      PROVE  Goal
  <2>1. /\ Moved(i) /\ ing[i].pc \in {"broadcast", "evaluate"}
        /\ UNCHANGED <<stored, counted>> /\ dropped \subseteq dropped'
    BY <1>7, RowsOfSteps DEF Broadcast, EnqueueEvaluation, EvaluationNotEnqueued, tables,
       counters
  <2> QED  BY <1>0, <1>a, <2>1 DEF Moved
<1>8. ASSUME NEW i \in Ingesters, Stop(i) PROVE Goal
  <2>1. /\ Reset(i) /\ UNCHANGED <<stored, counted>> /\ "stop" \in Faults
        /\ dropped' = dropped \union (ing[i].batch \intersect stored)
    BY <1>8, RowsOfSteps DEF Stop, tables, counters
  <2> QED  BY <1>m, <2>1 DEF Reset, CountingFollows, OnItsWay
<1>9. ASSUME UNCHANGED <<ing, stored, counted, dropped>> PROVE Goal
  BY <1>m, <1>9 DEF CountingFollows, OnItsWay
<1>10. ASSUME NEW q \in Readers, ReaderStep(q)
       PROVE  Goal
  BY <1>9, <1>10 DEF ReaderStep, Hit, Miss, Query, Fill, Answer, tables, counters
<1>11. ASSUME NEW k \in Keys, Expire(k) PROVE Goal
  BY <1>9, <1>11 DEF Expire, tables, counters
<1>12. CASE UNCHANGED vars
  BY <1>9, <1>12 DEF vars
<1> QED
  BY <1>1, <1>2, <1>3, <1>4, <1>5, <1>6, <1>7, <1>8, <1>10, <1>11, <1>12
  DEF Next, IngesterStep

(* No stored event is forgotten by a counter that exists: its ingestion    *)
(* has saved it, is still on its way there, or was stopped short of it     *)
(* (update_usage_counters, ingestion/services.py:63).                      *)
THEOREM EveryEventIsCounted == Spec => []CountingFollows
<1>1. Init => CountingFollows
  BY DEF Init, CountingFollows
<1> QED  BY <1>1, EventsLocated, CountingStep, PTL DEF Spec

(* With one ingestion at a time nothing is read in between.                *)
NothingRaced ==
  /\ raced = {} /\ active \subseteq stored
  /\ \A i \in Ingesters : ing[i].seen \subseteq stored

LEMMA NothingRacedStep ==
  ASSUME \A i, j \in Ingesters : i = j
  PROVE  TypeOK /\ NothingRaced /\ [Next]_vars => NothingRaced'
<1> SUFFICES ASSUME TypeOK, NothingRaced, [Next]_vars PROVE NothingRaced'
  OBVIOUS
<1>1. /\ \A i \in Ingesters, d \in Counters : ~ InHand(i, d)
      /\ DOMAIN ing = Ingesters
  BY DEF InHand, TypeOK
<1>2. ASSUME NEW i \in Ingesters, ing[i] \in Ingestion, ing' = [ing EXCEPT ![i] = Advanced(i)],
             stored \subseteq stored', UNCHANGED raced, active' \subseteq stored'
      PROVE  NothingRaced'
  <2>1. Advanced(i).seen = {}
    BY <1>2 DEF Advanced, IdleIngester, Ingestion
  <2> QED  BY <1>1, <1>2, <2>1 DEF NothingRaced
<1>3. \A i \in Ingesters : ing[i] \in Ingestion
  BY DEF TypeOK, Ingestion
<1>4. ASSUME NEW i \in Ingesters, NEW batch, Begin(i, batch) PROVE NothingRaced'
  <2>1. PICK given \in BOOLEAN :
          ing' = [ing EXCEPT ![i] = [IdleIngester EXCEPT
                    !.pc = After("begin"), !.batch = batch,
                    !.new = ~ given /\ sources = {}]]
    BY <1>4 DEF Begin
  <2>2. ing'[i].seen = {}
    BY <1>1, <2>1 DEF IdleIngester
  <2> QED  BY <1>1, <1>4, <2>1, <2>2 DEF Begin, tables, counters, NothingRaced
<1>5. ASSUME NEW i \in Ingesters,
             \/ Commit(i) \/ Invalidate(i) \/ Broadcast(i) \/ EnqueueEvaluation(i)
             \/ EvaluationNotEnqueued(i) \/ SaveActive(i)
             \/ \E d \in Tallies : SaveTally(i, d)
      PROVE  NothingRaced'
  <2>1. /\ ing' = [ing EXCEPT ![i] = Advanced(i)] /\ stored \subseteq stored'
        /\ UNCHANGED raced /\ active' \in {active, ing[i].seen}
    BY <1>5 DEF Commit, Invalidate, Broadcast, EnqueueEvaluation, EvaluationNotEnqueued,
                SaveActive, SaveTally, tables, counters
  <2> QED  BY <1>2, <1>3, <2>1 DEF NothingRaced
<1>6. ASSUME NEW i \in Ingesters, NEW d \in Tallies, ReadTally(i, d) PROVE NothingRaced'
  <2>1. /\ ing' = [ing EXCEPT ![i] = [ing[i] EXCEPT !.half = TRUE, !.read = used[d]]]
        /\ UNCHANGED <<stored, active, raced>>
    BY <1>1, <1>6 DEF ReadTally, tables, Counters
  <2>2. ing'[i].seen = ing[i].seen
    BY <1>1, <1>3, <2>1 DEF Ingestion
  <2> QED  BY <1>1, <2>1, <2>2 DEF NothingRaced
<1>7. ASSUME NEW i \in Ingesters, CountActive(i) PROVE NothingRaced'
  <2>1. /\ ing' = [ing EXCEPT ![i] = [ing[i] EXCEPT !.half = TRUE, !.seen = stored]]
        /\ UNCHANGED <<stored, active, raced>>
    BY <1>1, <1>7 DEF CountActive, tables, Counters
  <2>2. ing'[i].seen = stored
    BY <1>1, <1>3, <2>1 DEF Ingestion
  <2> QED  BY <1>1, <2>1, <2>2 DEF NothingRaced
<1>8. ASSUME NEW i \in Ingesters, Stop(i) PROVE NothingRaced'
  <2>1. ing'[i].seen = {} /\ \A j \in Ingesters \ {i} : ing'[j] = ing[j]
    BY <1>1, <1>8 DEF Stop, IdleIngester
  <2> QED  BY <1>8, <2>1 DEF Stop, tables, counters, NothingRaced
<1>9. ASSUME UNCHANGED <<ing, stored, active, raced>> PROVE NothingRaced'
  BY <1>9 DEF NothingRaced
<1>10. ASSUME NEW q \in Readers, ReaderStep(q)
       PROVE  NothingRaced'
  BY <1>9, <1>10 DEF ReaderStep, Hit, Miss, Query, Fill, Answer, tables, counters
<1>11. ASSUME NEW k \in Keys, Expire(k) PROVE NothingRaced'
  BY <1>9, <1>11 DEF Expire, tables, counters
<1>12. CASE UNCHANGED vars
  BY <1>9, <1>12 DEF vars
<1> QED
  BY <1>4, <1>5, <1>6, <1>7, <1>8, <1>10, <1>11, <1>12 DEF Next, IngesterStep

(* With one ingestion at a time, and none stopped in its callback, the     *)
(* counters are those of the event table whenever none is under way, and   *)
(* the data source is inserted once: what tests/test_backend.py:242-256    *)
(* expect.  It takes an overlap or an exception to make them differ.       *)
THEOREM OneAtATimeCountsAll ==
  ASSUME \A i, j \in Ingesters : i = j, "stop" \notin Faults
  PROVE  Spec => [](/\ \A a, b \in sources : a = b
                    /\ metered /\ (\A i \in Ingesters : ing[i].pc = "idle") =>
                         /\ \A c \in Tallies : used[c] = Tally(c, stored)
                         /\ active = stored)
<1> DEFINE I == /\ TypeOK /\ Located /\ Tallied /\ ActiveSeen /\ OneInsertEach
                /\ CountingFollows /\ NothingRaced
<1>1. Init => I
  <2>1. Cardinality({}) = 0 /\ {} \intersect ApiCalls = {}
    BY FS_EmptySet
  <2>2. Init => Tallied
    BY <2>1 DEF Init, Tallied, TalliesAreExact, IdleIngester, Ahead, Tally, Tallies, Counters
  <2>3. Init => Located /\ OneInsertEach /\ CountingFollows /\ NothingRaced
    BY DEF Init, Located, OneInsertEach, SourcesByOverlap, CountingFollows, NothingRaced,
           IdleIngester
  <2>4. Init => ActiveSeen
    BY DEF Init, ActiveSeen, ActiveIsCurrent, IdleIngester, Counters
  <2> QED  BY InitType, <2>2, <2>3, <2>4
<1>2. I /\ [Next]_vars => I'
  BY TypeStep, LocatedStep, TalliedStep, ActiveSeenStep, OneInsertEachStep, CountingStep,
     NothingRacedStep
<1>3. I => /\ \A a, b \in sources : a = b
           /\ metered /\ (\A i \in Ingesters : ing[i].pc = "idle") =>
                /\ \A c \in Tallies : used[c] = Tally(c, stored)
                /\ active = stored
  <2>1. I => \A a, b \in sources : a = b
    BY DEF OneInsertEach, SourcesByOverlap, TypeOK, Source
  <2>2. I /\ metered /\ (\A i \in Ingesters : ing[i].pc = "idle")
          => \A c \in Counters : counted[c] = stored
    <3> SUFFICES ASSUME I, metered, \A i \in Ingesters : ing[i].pc = "idle",
                        NEW c \in Counters
                 PROVE  counted[c] = stored
      OBVIOUS
    <3>1. "idle" \notin Uncounted(c)
      BY DEF Uncounted
    <3>2. \A e : ~OnItsWay(c, e)
      BY <3>1 DEF OnItsWay
    <3>3. stored \subseteq counted[c]
      BY <3>2 DEF CountingFollows
    <3>4. counted[c] \subseteq stored
      BY DEF Located
    <3> QED  BY <3>3, <3>4
  <2>3. I => /\ \A c \in Tallies : used[c] = Tally(c, counted[c])
             /\ counted["active"] \subseteq active /\ active \subseteq stored
    BY DEF Tallied, TalliesAreExact, ActiveSeen, ActiveIsCurrent, NothingRaced
  <2> QED  BY <2>1, <2>2, <2>3 DEF Counters
<1> QED  BY <1>1, <1>2, <1>3, PTL DEF Spec
=============================================================================
