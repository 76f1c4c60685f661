----------------------------- MODULE CsvProofs -----------------------------
(***************************************************************************)
(* Proofs about CsvJobs, for files of any length, any checkpoint interval  *)
(* and any number of retries and failures.                                 *)
(***************************************************************************)
EXTENDS CsvJobs, SequenceTheorems, FiniteSetTheorems, TLAPS

(* The rows of a file are a sequence of good and bad rows.                 *)
LEMMA FileRows ==
  ASSUME file \in Files
  PROVE  /\ file.header \in BOOLEAN
         /\ file.rows \in Seq({"good", "bad"})
         /\ Len(file.rows) \in Nat /\ DOMAIN file.rows = 1 .. Len(file.rows)
<1>1. PICK n \in 0 .. MaxRows : file.rows \in [1 .. n -> {"good", "bad"}]
  BY CsvConstants DEF Files
<1>2. file.rows \in Seq({"good", "bad"})
  BY <1>1, CsvConstants, IsASeq
<1> QED  BY <1>2 DEF Files

(* The good rows the attempt has passed.                                   *)
GoodBefore(n) == {i \in Good : i < n}

(* An attempt starts at the first row.  The rows behind it are in the      *)
(* table, and its counts, whatever they started from, cover them.          *)
Passed ==
  \A i \in GoodBefore(task.row) : Stored(i) # {}

Counted ==
  /\ task.processed >= Cardinality(GoodBefore(task.row))
  /\ task.processed + task.failed >= task.row - 1

InCallback ==
  task.pc = "callback" =>
    task.row \in Good /\ Stored(task.row) # {} /\ task.processed < Len(events)

InProgress ==
  /\ task.pc = "open" => task.row = 1
  /\ task.pc \in {"row", "callback"} =>
       Passed /\ Counted /\ job.total = Len(file.rows)

EndsCompleted ==
  job.status = "completed" => task.pc = "done" /\ CompletedIngestedAll

(* Retries are left to every attempt that runs or is going to run.         *)
RetriesLeft ==
  /\ job.status = "none" => task.pc = "none"
  /\   task.pc \in {"none", "upload", "queued", "open", "row", "callback"}
       => task.failures <= MaxRetries

CsvInv == /\ TypeOK /\ RetriesLeft /\ CountsAreStored
          /\ InCallback /\ InProgress /\ EndsCompleted

LEMMA CsvInit == ASSUME Init PROVE CsvInv
<1> USE DEF Init, TypeOK, Job, Attempt, TaskPCs
<1>1. file \in Files /\ 1 \in 1 .. Len(file.rows) + 1
  BY FileRows
<1>2. events \in Seq(DOMAIN file.rows) /\ Len(events) = 0
  OBVIOUS
<1>3. TypeOK
  BY <1>1, <1>2, FileRows, CsvConstants
<1> QED  BY <1>2, <1>3, CsvConstants DEF CsvInv, CountsAreStored, InCallback, InProgress, EndsCompleted,
              RetriesLeft

LEMMA GoodFinite ==
  ASSUME file \in Files, NEW n \in Nat
  PROVE  IsFiniteSet(Good) /\ IsFiniteSet(GoodBefore(n))
<1>1. IsFiniteSet(1 .. Len(file.rows))
  BY FileRows, FS_Interval
<1>2. Good \subseteq 1 .. Len(file.rows) /\ GoodBefore(n) \subseteq 1 .. Len(file.rows)
  BY FileRows DEF Good, GoodBefore
<1> QED  BY <1>1, <1>2, FS_Subset

(* Passing a bad row adds nothing to the good rows passed, passing a good  *)
(* one adds it.                                                            *)
LEMMA GoodGrows ==
  ASSUME file \in Files, NEW n \in DOMAIN file.rows
  PROVE  /\ file.rows[n] = "bad" =>
              GoodBefore(n + 1) = GoodBefore(n) /\ n \notin Good
         /\ Cardinality(GoodBefore(n + 1)) <= Cardinality(GoodBefore(n)) + 1
         /\ \A i \in GoodBefore(n + 1) : i \in GoodBefore(n) \/ (i = n /\ n \in Good)
<1>1. n \in Nat /\ Good \subseteq Nat
  BY FileRows DEF Good
<1>2. IsFiniteSet(GoodBefore(n)) /\ IsFiniteSet(GoodBefore(n + 1))
  BY <1>1, GoodFinite
<1>3. \A i \in GoodBefore(n + 1) : i \in GoodBefore(n) \/ (i = n /\ n \in Good)
  BY <1>1 DEF GoodBefore
<1>4. GoodBefore(n) \subseteq GoodBefore(n + 1)
  <2> SUFFICES ASSUME NEW i \in Good, i < n PROVE i < n + 1
    BY DEF GoodBefore
  <2> QED  BY <1>1
<1>5. file.rows[n] = "bad" => n \notin Good
  BY DEF Good
<1>6. file.rows[n] = "bad" => GoodBefore(n + 1) = GoodBefore(n)
  BY <1>3, <1>4, <1>5
<1>7. GoodBefore(n + 1) \subseteq GoodBefore(n) \union {n}
  BY <1>3
<1>8. /\ IsFiniteSet(GoodBefore(n) \union {n})
      /\ Cardinality(GoodBefore(n) \union {n}) <= Cardinality(GoodBefore(n)) + 1
  <2>1. \/ Cardinality(GoodBefore(n) \union {n}) = Cardinality(GoodBefore(n))
        \/ Cardinality(GoodBefore(n) \union {n}) = Cardinality(GoodBefore(n)) + 1
    BY <1>2, FS_AddElement
  <2> QED  BY <1>2, <2>1, FS_AddElement, FS_CardinalityType
<1>9. Cardinality(GoodBefore(n + 1)) <= Cardinality(GoodBefore(n)) + 1
  <2>1. Cardinality(GoodBefore(n + 1)) <= Cardinality(GoodBefore(n) \union {n})
    BY <1>7, <1>8, FS_Subset
  <2> QED  BY <1>2, <1>8, <2>1, FS_CardinalityType
<1> QED  BY <1>3, <1>5, <1>6, <1>9

(* Once every row is passed, all the good rows are.                        *)
LEMMA GoodAtEnd ==
  ASSUME file \in Files
  PROVE  GoodBefore(Len(file.rows) + 1) = Good
<1>1. \A i \in Good : i \in Nat /\ i < Len(file.rows) + 1
  BY FileRows DEF Good
<1> QED  BY <1>1 DEF GoodBefore

(* Nothing is ever taken out of the events table.                          *)
LEMMA StoredGrows ==
  ASSUME TypeOK, NEW r \in DOMAIN file.rows, events' = Append(events, r)
  PROVE  /\ events' \in Seq(DOMAIN file.rows) /\ Len(events') = Len(events) + 1
         /\ Stored(r)' # {}
         /\ \A i \in DOMAIN file.rows : Stored(i) # {} => Stored(i)' # {}
<1>1. /\ events' \in Seq(DOMAIN file.rows) /\ Len(events') = Len(events) + 1
      /\ \A e \in DOMAIN events : e \in DOMAIN events' /\ events'[e] = events[e]
      /\ Len(events') \in DOMAIN events' /\ events'[Len(events')] = r
  BY AppendProperties DEF TypeOK
<1> QED  BY <1>1 DEF Stored

(* What the compound steps do, column by column.                           *)
LEMMA StartEffect ==
  ASSUME TypeOK, StartJob
  PROVE  /\ job' \in Job /\ job'.status = "processing" /\ job'.total = job.total
         /\ job'.processed = job.processed
         /\ task' \in Attempt /\ task'.pc = "open" /\ task'.row = 1
         /\ task'.processed = job.processed /\ task'.failures = task.failures
<1>1. job \in Job /\ task \in Attempt /\ job.processed \in Nat /\ job.failed \in Nat
  BY DEF TypeOK, Job
<1>2. \A r \in Nat \ {0}, p, f \in Nat :
        task' = [task EXCEPT !.pc = "open", !.row = r, !.processed = p, !.failed = f]
        => /\ task' \in Attempt /\ task'.pc = "open" /\ task'.row = r
           /\ task'.processed = p /\ task'.failures = task.failures
  BY <1>1 DEF Attempt, TaskPCs
<1>3. /\ task'.processed = job.processed /\ task'.failures = task.failures
      /\ task' \in Attempt /\ task'.pc = "open" /\ task'.row = 1
  <2>1. 1 \in Nat \ {0}
    OBVIOUS
  <2> QED  BY <1>1, <1>2, <2>1 DEF StartJob
<1>4. /\ job' \in Job /\ job'.status = "processing" /\ job'.total = job.total
      /\ job'.processed = job.processed
  BY <1>1 DEF StartJob, Job
<1> QED  BY <1>3, <1>4

LEMMA FailEffect ==
  ASSUME TypeOK, task.failures <= MaxRetries, Fail
  PROVE  /\ job' \in Job /\ job'.status = "failed" /\ job'.total = job.total
         /\ job'.processed = job.processed
         /\ task' \in Attempt /\ task'.pc = "failing" /\ task'.row = task.row
         /\ task'.processed = task.processed
<1>1. job \in Job /\ task \in Attempt /\ task.failures + 1 \in 0 .. MaxRetries + 1
  BY CsvConstants DEF TypeOK, Attempt
<1>2. \A k \in 0 .. MaxRetries + 1 :
        task' = [task EXCEPT !.pc = "failing", !.failures = k]
        => /\ task' \in Attempt /\ task'.pc = "failing" /\ task'.row = task.row
           /\ task'.processed = task.processed
  BY <1>1 DEF Attempt, TaskPCs
<1>3. /\ task' \in Attempt /\ task'.pc = "failing" /\ task'.row = task.row
      /\ task'.processed = task.processed
  BY <1>1, <1>2 DEF Fail
<1>4. /\ job' \in Job /\ job'.status = "failed" /\ job'.total = job.total
      /\ job'.processed = job.processed
  BY <1>1 DEF Fail, Job
<1> QED  BY <1>3, <1>4

LEMMA CountEffect ==
  ASSUME TypeOK, NEW p \in Nat, NEW f \in Nat, CountRow(p, f)
  PROVE  /\ job' \in Job /\ job'.status = job.status /\ job'.total = job.total
         /\ job'.processed \in {job.processed, p}
         /\ task' \in Attempt /\ task'.pc = "row" /\ task'.row = task.row + 1
         /\ task'.processed = p /\ task'.failed = f /\ task'.failures = task.failures
<1>1. job \in Job /\ task \in Attempt /\ task.row + 1 \in Nat \ {0}
  BY DEF TypeOK, Attempt
<1>2. \A r \in Nat \ {0} :
        task' = [task EXCEPT !.pc = "row", !.row = r, !.processed = p, !.failed = f]
        => /\ task' \in Attempt /\ task'.pc = "row" /\ task'.row = r
           /\ task'.processed = p /\ task'.failed = f /\ task'.failures = task.failures
  BY <1>1 DEF Attempt, TaskPCs
<1>3. /\ task' \in Attempt /\ task'.pc = "row" /\ task'.row = task.row + 1
      /\ task'.processed = p /\ task'.failed = f /\ task'.failures = task.failures
  BY <1>1, <1>2 DEF CountRow
<1>4. job' = job \/ job' = [job EXCEPT !.processed = p, !.failed = f]
  BY DEF CountRow
<1>5. /\ job' \in Job /\ job'.status = job.status /\ job'.total = job.total
      /\ job'.processed \in {job.processed, p}
  BY <1>1, <1>4 DEF Job
<1> QED  BY <1>3, <1>5

LEMMA FinishEffect ==
  ASSUME TypeOK, FinishJob
  PROVE  /\ job' \in Job /\ job'.status \in {"completed", "failed"}
         /\ job'.total = job.total
         /\ job'.processed = task.processed /\ job'.failed = task.failed
         /\ task' \in Attempt /\ task'.pc = "done" /\ task'.row = task.row
         /\ task'.processed = task.processed
<1>1. /\ job \in Job /\ task \in Attempt
      /\ task.processed \in Nat /\ task.failed \in Nat
      /\ Outcome(task.processed, task.failed) \in {"completed", "failed"}
  BY DEF TypeOK, Attempt, Outcome
<1>2. \A s \in {"completed", "failed"}, p, f \in Nat :
        job' = [job EXCEPT !.status = s, !.processed = p, !.failed = f]
        => /\ job' \in Job /\ job'.status = s /\ job'.total = job.total
           /\ job'.processed = p /\ job'.failed = f
  BY <1>1 DEF Job
<1>3. /\ job' \in Job /\ job'.status \in {"completed", "failed"}
      /\ job'.total = job.total
      /\ job'.processed = task.processed /\ job'.failed = task.failed
  BY <1>1, <1>2 DEF FinishJob
<1>4. /\ task' \in Attempt /\ task'.pc = "done" /\ task'.row = task.row
      /\ task'.processed = task.processed
  BY <1>1 DEF FinishJob, Attempt, TaskPCs
<1> QED  BY <1>3, <1>4

LEMMA TypeStep ==
  ASSUME TypeOK, RetriesLeft, InCallback, [Next]_vars
  PROVE  TypeOK' /\ RetriesLeft'
<1> USE DEF TypeOK, RetriesLeft
<1>0. /\ MaxRetries \in Nat /\ MaxFaults \in Nat
      /\ Len(file.rows) \in Nat /\ DOMAIN file.rows = 1 .. Len(file.rows)
      /\ Good \subseteq DOMAIN file.rows
      /\ task.row \in Nat /\ task.processed \in Nat /\ task.failed \in Nat
  BY FileRows, CsvConstants DEF Attempt, Good
<1>1. CASE UNCHANGED vars
  BY <1>1 DEF vars, Job, Attempt
<1>2. CASE Upload
  <2>1. job' \in Job /\ job'.total \in {0, Len(file.rows)} /\ job'.status # "none"
    BY <1>0, <1>2 DEF Upload, Job
  <2>2. task' \in Attempt /\ task'.row <= Len(file.rows) + 1 /\ RetriesLeft'
    BY <1>0, <1>2, <2>1 DEF Upload, Attempt, TaskPCs
  <2> QED  BY <1>0, <1>2, <2>1, <2>2 DEF Upload
<1>3. CASE EnqueueJob
  <2>1. job' \in Job /\ job'.total \in {0, Len(file.rows)} /\ job'.status # "none"
    BY <1>0, <1>3 DEF EnqueueJob, Job
  <2>2. task' \in Attempt /\ task'.row <= Len(file.rows) + 1 /\ RetriesLeft'
    BY <1>0, <1>3, <2>1 DEF EnqueueJob, Attempt, TaskPCs
  <2> QED  BY <1>0, <1>3, <2>1, <2>2 DEF EnqueueJob
<1>4. CASE EnqueueFails
  <2>1. job' \in Job /\ job'.total \in {0, Len(file.rows)} /\ job'.status # "none"
    BY <1>0, <1>4 DEF EnqueueFails, Job
  <2>2. task' \in Attempt /\ task'.row <= Len(file.rows) + 1 /\ RetriesLeft'
    BY <1>0, <1>4, <2>1 DEF EnqueueFails, Attempt, TaskPCs
  <2> QED  BY <1>0, <1>4, <2>1, <2>2 DEF EnqueueFails, Spend
<1>5. CASE StartJob
  BY <1>0, <1>5, StartEffect DEF StartJob
<1>6. CASE ReadFile
  <2>1. job' \in Job /\ job'.total \in {0, Len(file.rows)} /\ job'.status # "none"
    BY <1>0, <1>6 DEF ReadFile, Job
  <2>2. task' \in Attempt /\ task'.row <= Len(file.rows) + 1 /\ RetriesLeft'
    BY <1>0, <1>6, <2>1 DEF ReadFile, Attempt, TaskPCs
  <2> QED  BY <1>0, <1>6, <2>1, <2>2 DEF ReadFile
<1>7. CASE NoHeader
  BY <1>0, <1>7, FailEffect DEF NoHeader
<1>8. CASE StoreRow
  <2>1. job' \in Job /\ job'.total \in {0, Len(file.rows)} /\ job'.status # "none"
    BY <1>0, <1>8 DEF StoreRow, Job, AtRow
  <2>2. task' \in Attempt /\ task'.row <= Len(file.rows) + 1 /\ RetriesLeft'
    BY <1>0, <1>8, <2>1 DEF StoreRow, AtRow, Attempt, TaskPCs
  <2>3. events' \in Seq(DOMAIN file.rows)
    BY <1>8, StoredGrows DEF StoreRow, AtRow
  <2> QED  BY <1>0, <1>8, <2>1, <2>2, <2>3 DEF StoreRow
<1>9. CASE RejectRow
  BY <1>0, <1>9, FailEffect DEF RejectRow, Spend, AtRow
<1>10. CASE CallbackFails
  BY <1>0, <1>10, FailEffect DEF CallbackFails, Spend
<1>11. CASE CountProcessed
  <2>1. CountRow(task.processed + 1, task.failed) /\ task.row \in Good
    BY <1>11 DEF CountProcessed, InCallback
  <2>2. /\ job' \in Job /\ job'.status = job.status /\ job'.total = job.total
        /\ task' \in Attempt /\ task'.pc = "row" /\ task'.row = task.row + 1
        /\ task'.failures = task.failures
    BY <1>0, <2>1, CountEffect
  <2> QED  BY <1>0, <1>11, <2>1, <2>2 DEF CountProcessed
<1>12. CASE CountFailed
  <2>1. CountRow(task.processed, task.failed + 1) /\ task.row \in DOMAIN file.rows
    BY <1>12 DEF CountFailed, AtRow
  <2>2. /\ job' \in Job /\ job'.status = job.status /\ job'.total = job.total
        /\ task' \in Attempt /\ task'.pc = "row" /\ task'.row = task.row + 1
        /\ task'.failures = task.failures
    BY <1>0, <2>1, CountEffect
  <2> QED  BY <1>0, <1>12, <2>1, <2>2 DEF CountFailed, AtRow
<1>13. CASE FinishJob
  BY <1>0, <1>13, FinishEffect DEF FinishJob
<1>14. CASE RetryJob
  <2>1. job' \in Job /\ job'.total \in {0, Len(file.rows)} /\ job'.status # "none"
    BY <1>0, <1>14 DEF RetryJob, Job
  <2>2. task' \in Attempt /\ task'.row <= Len(file.rows) + 1 /\ RetriesLeft'
    BY <1>0, <1>14, <2>1 DEF RetryJob, Attempt, TaskPCs
  <2> QED  BY <1>0, <1>14, <2>1, <2>2 DEF RetryJob
<1>15. CASE LoseTask
  <2>1. job' \in Job /\ job'.total \in {0, Len(file.rows)} /\ job'.status # "none"
    BY <1>0, <1>15 DEF LoseTask, Job
  <2>2. task' \in Attempt /\ task'.row <= Len(file.rows) + 1 /\ RetriesLeft'
    BY <1>0, <1>15, <2>1 DEF LoseTask, Attempt, TaskPCs
  <2> QED  BY <1>0, <1>15, <2>1, <2>2 DEF LoseTask, Spend
<1> QED
  BY <1>1, <1>2, <1>3, <1>4, <1>5, <1>6, <1>7, <1>8, <1>9, <1>10, <1>11,
     <1>12, <1>13, <1>14, <1>15 DEF Next, TaskStep


LEMMA CsvStep == ASSUME CsvInv, [Next]_vars PROVE CsvInv'
<1> USE DEF CsvInv, CountsAreStored, InCallback, InProgress, EndsCompleted
<1>1. /\ TypeOK' /\ RetriesLeft' /\ TypeOK /\ RetriesLeft
  BY TypeStep
<1>2. /\ file \in Files /\ Len(events) \in Nat
      /\ Len(file.rows) \in Nat /\ DOMAIN file.rows = 1 .. Len(file.rows)
      /\ Good \subseteq DOMAIN file.rows
      /\ task.row \in Nat /\ task.processed \in Nat /\ task.failed \in Nat
      /\ job.processed \in Nat /\ job.status \in {"none", "pending", "processing",
                                                   "completed", "failed"}
      /\ job \in Job /\ task \in Attempt
  BY <1>1, FileRows, SMTT(30) DEF TypeOK, Good, Job, Attempt
(* Every step leaves the file alone, most of them the events.              *)
<1>3. ASSUME UNCHANGED file
      PROVE  Good' = Good /\ \A n : GoodBefore(n)' = GoodBefore(n)
  BY <1>3 DEF Good, GoodBefore
<1>4. ASSUME UNCHANGED events
      PROVE  \A i : Stored(i)' = Stored(i)
  BY <1>4 DEF Stored
<1>5. CASE UNCHANGED vars
  BY <1>1, <1>3, <1>4, <1>5 DEF vars, Passed, Counted, CompletedIngestedAll
<1>6. CASE Upload
  <2>1. /\ task'.pc \notin {"row", "callback"} /\ job'.status # "completed"
        /\ job'.processed = job.processed /\ task'.processed = task.processed
    BY <1>2, <1>6 DEF Upload, Job, Attempt
  <2> QED  BY <1>1, <1>2, <1>6, <2>1 DEF Upload
<1>7. CASE EnqueueJob
  <2>1. /\ task'.pc \notin {"row", "callback"} /\ job'.status # "completed"
        /\ job'.processed = job.processed /\ task'.processed = task.processed
    BY <1>2, <1>7 DEF EnqueueJob, Job, Attempt
  <2> QED  BY <1>1, <1>2, <1>7, <2>1 DEF EnqueueJob
<1>8. CASE EnqueueFails
  <2>1. /\ task'.pc \notin {"row", "callback"} /\ job'.status # "completed"
        /\ job'.processed = job.processed /\ task'.processed = task.processed
    BY <1>2, <1>8 DEF EnqueueFails, Spend, Job, Attempt
  <2> QED  BY <1>1, <1>2, <1>8, <2>1 DEF EnqueueFails
<1>9. CASE StartJob
  <2>1. UNCHANGED events
    BY <1>9 DEF StartJob
  <2> QED  BY <1>1, <1>2, <1>9, <2>1, StartEffect
<1>10. CASE ReadFile
  <2>1. /\ job'.total = Len(file.rows) /\ job'.processed = job.processed
        /\ job'.status # "completed"
    BY <1>2, <1>10 DEF ReadFile, Job
  <2>2. task'.pc = "row" /\ task'.row = task.row /\ task'.processed = task.processed
    BY <1>2, <1>10 DEF ReadFile, Attempt
  <2>3. UNCHANGED <<file, events>>
    BY <1>10 DEF ReadFile
  <2>4. task.row = 1 /\ GoodBefore(task.row)' = {}
    BY <1>2, <1>3, <1>10, <2>2, <2>3 DEF GoodBefore, ReadFile
  <2>5. Cardinality(GoodBefore(task.row)') = 0
    BY <2>4, FS_EmptySet
  <2>6. task'.failed = task.failed
    BY <1>2, <1>10 DEF ReadFile, Attempt
  <2>7. Passed' /\ Counted'
    BY <1>2, <2>2, <2>4, <2>5, <2>6 DEF Passed, Counted
  <2> QED  BY <1>1, <1>2, <2>1, <2>2, <2>3, <2>7
<1>11. CASE NoHeader
  <2>1. task.failures <= MaxRetries /\ Fail /\ UNCHANGED events
    BY <1>1, <1>11 DEF NoHeader, AtRow, RetriesLeft
  <2> QED  BY <1>1, <1>2, <2>1, FailEffect
<1>12. CASE StoreRow
  <2>1. /\ task.pc = "row" /\ task.row \in Good /\ Passed /\ Counted
        /\ events' = Append(events, task.row) /\ UNCHANGED <<file, job>>
    BY <1>12 DEF StoreRow, AtRow, Good
  <2>2. /\ task'.pc = "callback" /\ task'.row = task.row
        /\ task'.processed = task.processed /\ task'.failed = task.failed
    BY <1>2, <1>12 DEF StoreRow, Attempt
  <2>3. PICK r \in DOMAIN file.rows : r = task.row
    BY <1>2, <2>1
  <2>4. /\ Len(events') = Len(events) + 1 /\ Stored(r)' # {}
        /\ \A i \in DOMAIN file.rows : Stored(i) # {} => Stored(i)' # {}
    <3>1. TypeOK /\ events' = Append(events, r)
      BY <1>1, <2>1, <2>3
    <3> QED  BY <3>1, StoredGrows
  <2>5. Stored(task.row)' # {}
    BY <2>2, <2>3, <2>4
  <2>6. CountsAreStored' /\ InCallback'
    BY <1>2, <1>3, <2>1, <2>2, <2>4, <2>5
  <2>7. Passed' /\ Counted' /\ job'.total = Len(file'.rows)
    BY <1>2, <1>3, <2>1, <2>2, <2>4 DEF Passed, Counted, GoodBefore
  <2>8. job'.status # "completed"
    BY <2>1
  <2> QED  BY <1>1, <2>2, <2>6, <2>7, <2>8
<1>13. CASE RejectRow
  <2>1. task.failures <= MaxRetries /\ Fail /\ UNCHANGED events
    BY <1>1, <1>13 DEF RejectRow, AtRow, RetriesLeft
  <2> QED  BY <1>1, <1>2, <2>1, FailEffect
<1>14. CASE CallbackFails
  <2>1. task.failures <= MaxRetries /\ Fail /\ UNCHANGED events
    BY <1>1, <1>14 DEF CallbackFails, AtRow, RetriesLeft
  <2> QED  BY <1>1, <1>2, <2>1, FailEffect
<1>15. CASE CountProcessed
  <2>1. /\ task.row \in Good /\ Stored(task.row) # {} /\ task.processed < Len(events)
        /\ Passed /\ Counted /\ CountRow(task.processed + 1, task.failed)
        /\ UNCHANGED <<file, events>> /\ job.status # "completed"
        /\ job.total = Len(file.rows)
    BY <1>2, <1>15 DEF CountProcessed, AtRow
  <2>2. /\ job'.status = job.status /\ job'.total = job.total
        /\ job'.processed \in {job.processed, task.processed + 1}
        /\ task'.pc = "row" /\ task'.row = task.row + 1
        /\ task'.processed = task.processed + 1 /\ task'.failed = task.failed
    <3>1. task.processed + 1 \in Nat /\ task.failed \in Nat
      BY <1>2
    <3> QED  BY <1>1, <2>1, <3>1, CountEffect
  <2>3. CountsAreStored' /\ InCallback'
    BY <1>2, <2>1, <2>2
  <2>4. Passed'
    <3> SUFFICES ASSUME NEW i \in GoodBefore(task.row + 1) PROVE Stored(i)' # {}
      BY <1>3, <2>1, <2>2 DEF Passed
    <3> QED  BY <1>2, <1>4, <2>1, GoodGrows DEF Passed
  <2>5. Counted'
    <3>1. /\ Cardinality(GoodBefore(task.row)) \in Nat
          /\ Cardinality(GoodBefore(task.row + 1)) \in Nat
      <4>1. task.row + 1 \in Nat
        BY <1>2
      <4>2. IsFiniteSet(GoodBefore(task.row)) /\ IsFiniteSet(GoodBefore(task.row + 1))
        BY <1>2, <4>1, GoodFinite
      <4> QED  BY <4>2, FS_CardinalityType
    <3>2. Cardinality(GoodBefore(task.row + 1)) <= Cardinality(GoodBefore(task.row)) + 1
      BY <1>2, <2>1, GoodGrows
    <3> QED  BY <1>2, <1>3, <2>1, <2>2, <3>1, <3>2 DEF Counted
  <2> QED  BY <1>1, <2>1, <2>2, <2>3, <2>4, <2>5
<1>16. CASE CountFailed
  <2>1. /\ task.row \in DOMAIN file.rows /\ file.rows[task.row] = "bad"
        /\ Passed /\ Counted /\ CountRow(task.processed, task.failed + 1)
        /\ UNCHANGED <<file, events>> /\ job.status # "completed"
        /\ job.total = Len(file.rows)
    BY <1>2, <1>16 DEF CountFailed, AtRow
  <2>2. /\ job'.status = job.status /\ job'.total = job.total
        /\ job'.processed \in {job.processed, task.processed}
        /\ task'.pc = "row" /\ task'.row = task.row + 1
        /\ task'.processed = task.processed /\ task'.failed = task.failed + 1
    <3>1. task.processed \in Nat /\ task.failed + 1 \in Nat
      BY <1>2
    <3> QED  BY <1>1, <2>1, <3>1, CountEffect
  <2>3. CountsAreStored' /\ InCallback'
    BY <1>2, <2>1, <2>2
  <2>4. Passed'
    <3> SUFFICES ASSUME NEW i \in GoodBefore(task.row + 1) PROVE Stored(i)' # {}
      BY <1>3, <2>1, <2>2 DEF Passed
    <3> QED  BY <1>2, <1>4, <2>1, GoodGrows DEF Passed
  <2>5. Counted'
    <3>1. /\ Cardinality(GoodBefore(task.row)) \in Nat
          /\ Cardinality(GoodBefore(task.row + 1)) \in Nat
      <4>1. task.row + 1 \in Nat
        BY <1>2
      <4>2. IsFiniteSet(GoodBefore(task.row)) /\ IsFiniteSet(GoodBefore(task.row + 1))
        BY <1>2, <4>1, GoodFinite
      <4> QED  BY <4>2, FS_CardinalityType
    <3>2. GoodBefore(task.row + 1) = GoodBefore(task.row)
      BY <1>2, <2>1, GoodGrows
    <3> QED  BY <1>2, <1>3, <2>1, <2>2, <3>1, <3>2 DEF Counted
  <2> QED  BY <1>1, <2>1, <2>2, <2>3, <2>4, <2>5
<1>17. CASE FinishJob
  <2>1. /\ task.pc = "row" /\ task.row = Len(file.rows) + 1
        /\ Passed /\ Counted /\ job.total = Len(file.rows)
        /\ UNCHANGED <<file, events>>
    BY <1>17 DEF FinishJob
  <2>2. /\ job'.total = job.total /\ job'.processed = task.processed
        /\ job'.failed = task.failed
        /\ task'.pc = "done" /\ task'.processed = task.processed
    BY <1>1, <1>17, FinishEffect
  <2>3. GoodBefore(task.row) = Good
    BY <1>2, <2>1, GoodAtEnd
  <2>4. \A i \in Good' : Stored(i)' # {}
    BY <1>3, <1>4, <2>1, <2>3 DEF Passed
  <2>5. job'.processed >= Cardinality(Good') /\ job'.processed + job'.failed >= job'.total
    BY <1>2, <1>3, <2>1, <2>2, <2>3 DEF Counted
  <2>6. CompletedIngestedAll'
    BY <2>4, <2>5 DEF CompletedIngestedAll
  <2> QED  BY <1>1, <2>1, <2>2, <2>6
<1>18. CASE RetryJob
  <2>1. /\ task'.pc \notin {"row", "callback"} /\ job'.status # "completed"
        /\ job'.processed = job.processed /\ task'.processed = task.processed
    BY <1>2, <1>18 DEF RetryJob, Job, Attempt
  <2> QED  BY <1>1, <1>2, <1>18, <2>1 DEF RetryJob
<1>19. CASE LoseTask
  <2>1. /\ task'.pc \notin {"row", "callback"} /\ job'.status # "completed"
        /\ job'.processed = job.processed /\ task'.processed = task.processed
    BY <1>2, <1>19 DEF LoseTask, Spend, Job, Attempt
  <2> QED  BY <1>1, <1>2, <1>19, <2>1 DEF LoseTask
<1> QED
  BY <1>5, <1>6, <1>7, <1>8, <1>9, <1>10, <1>11, <1>12, <1>13, <1>14,
     <1>15, <1>16, <1>17, <1>18, <1>19 DEF Next, TaskStep

LEMMA CsvInvariant == Spec => []CsvInv
<1>1. Init => CsvInv
  BY CsvInit
<1>2. CsvInv /\ [Next]_vars => CsvInv'
  BY CsvStep
<1> QED  BY <1>1, <1>2, PTL DEF Spec

(* The upload's row, its events and the attempt keep their types.          *)
THEOREM CsvTypeCorrect == Spec => []TypeOK
<1>1. CsvInv => TypeOK
  BY DEF CsvInv
<1> QED  BY <1>1, CsvInvariant, PTL

(* What has failed rows has rows.                                          *)
FailedRowsExist ==
  (task.failed > 0 \/ job.failed > 0) => file.rows # <<>>

LEMMA FailedStep ==
  ASSUME CsvInv, FailedForGood, FailedRowsExist, [Next]_vars
  PROVE  (FailedForGood /\ FailedRowsExist)'
<1>1. /\ file \in Files /\ job \in Job /\ task \in Attempt /\ RetriesLeft
      /\ Len(file.rows) \in Nat /\ DOMAIN file.rows = 1 .. Len(file.rows)
      /\ file.rows \in Seq({"good", "bad"})
  BY FileRows DEF CsvInv, TypeOK
<1>2. /\ task.failed \in Nat /\ job.failed \in Nat /\ task.failures \in 0 .. MaxRetries + 1
  BY <1>1 DEF Job, Attempt
<1>3. UNCHANGED file => Good' = Good
  BY DEF Good
(* A step that counts no failed row and does not end the task.             *)
<1>4. ASSUME UNCHANGED file, task'.pc # "done",
             task'.failed \in {task.failed, job.failed}, job'.failed \in {task.failed, job.failed}
      PROVE  (FailedForGood /\ FailedRowsExist)'
  BY <1>2, <1>4 DEF FailedForGood, FailedRowsExist
<1>5. ASSUME Fail, UNCHANGED file
      PROVE  (FailedForGood /\ FailedRowsExist)'
  BY <1>1, <1>4, <1>5 DEF Fail, Job, Attempt
<1>6. CASE Upload \/ EnqueueJob \/ EnqueueFails \/ LoseTask
  BY <1>1, <1>4, <1>6 DEF Upload, EnqueueJob, EnqueueFails, LoseTask, Job, Attempt
<1>7. CASE StartJob \/ ReadFile \/ StoreRow
  BY <1>1, <1>4, <1>7 DEF StartJob, ReadFile, StoreRow, Job, Attempt
<1>8. CASE NoHeader \/ RejectRow \/ CallbackFails
  BY <1>5, <1>8 DEF NoHeader, RejectRow, CallbackFails
<1>9. CASE CountProcessed
  <2>1. /\ task'.pc = "row" /\ task'.failed = task.failed
        /\ job'.failed \in {task.failed, job.failed} /\ UNCHANGED file
    BY <1>1, <1>9 DEF CountProcessed, CountRow, Job, Attempt
  <2> QED  BY <1>4, <2>1
<1>10. CASE CountFailed
  <2>1. file.rows # <<>> /\ task'.pc = "row" /\ UNCHANGED file
    BY <1>1, <1>10 DEF CountFailed, AtRow, CountRow, Attempt
  <2> QED  BY <2>1 DEF FailedForGood, FailedRowsExist
<1>11. CASE FinishJob
  <2>1. /\ task.pc = "row" /\ task.row = Len(file.rows) + 1 /\ UNCHANGED file
        /\ job'.failed = task.failed /\ task'.failed = task.failed
        /\ job'.status = Outcome(task.processed, task.failed)
    BY <1>1, <1>11 DEF FinishJob, Job, Attempt
  <2>2. job'.status = "failed" => task.processed = 0 /\ task.failed > 0
    BY <2>1 DEF Outcome
  <2>3. GoodBefore(task.row) = Good
    BY <1>1, <2>1, GoodAtEnd
  <2>4. task.processed >= Cardinality(Good)
    BY <2>1, <2>3 DEF CsvInv, InProgress, Counted
  <2>5. IsFiniteSet(Good)
    BY <1>1, <2>3, <2>1, GoodFinite
  <2>6. task.processed = 0 => Good = {}
    BY <2>4, <2>5, FS_CardinalityType, FS_EmptySet
  <2> QED  BY <1>2, <1>3, <2>1, <2>2, <2>6 DEF FailedForGood, FailedRowsExist
<1>12. CASE RetryJob
  <2>1. /\ UNCHANGED <<file, job>> /\ task'.failed = task.failed
        /\ task'.failures = task.failures
        /\ task'.pc = IF task.failures <= MaxRetries THEN "queued" ELSE "done"
    BY <1>1, <1>12 DEF RetryJob, Attempt
  <2>2. task'.pc = "done" => task'.failures = MaxRetries + 1
    BY <1>2, <2>1, CsvConstants
  <2> QED  BY <2>1, <2>2 DEF FailedForGood, FailedRowsExist
<1>13. CASE UNCHANGED vars
  BY <1>3, <1>13 DEF vars, FailedForGood, FailedRowsExist
<1> QED
  BY <1>6, <1>7, <1>8, <1>9, <1>10, <1>11, <1>12, <1>13 DEF Next, TaskStep

(* What a job shows of its file is true after any number of attempts.      *)
THEOREM JobsShowTheirFiles == Spec => []JobShowsItsFile
<1>1. Init => FailedForGood /\ FailedRowsExist
  BY DEF Init, FailedForGood, FailedRowsExist
<1>2. CsvInv /\ FailedForGood /\ FailedRowsExist /\ [Next]_vars
        => (FailedForGood /\ FailedRowsExist)'
  BY FailedStep
<1>3. CsvInv => CountsAreStored /\ CompletedIngestedAll
  BY DEF CsvInv, EndsCompleted, CompletedIngestedAll
<1>4. CountsAreStored /\ CompletedIngestedAll /\ FailedForGood => JobShowsItsFile
  BY DEF JobShowsItsFile
<1> QED  BY <1>1, <1>2, <1>3, <1>4, CsvInvariant, PTL DEF Spec
-----------------------------------------------------------------------------
(* How often a row is in the table, and what the first attempt counts.     *)

(* The attempt under way, or the one that ended, has stored row i.         *)
HasStored(i) ==
  \/ task.pc \in {"row", "callback"} /\ i < task.row
  \/ task.pc = "callback" /\ i = task.row
  \/ task.pc \in {"done", "lost"} /\ task.failures <= MaxRetries

StoredEach ==
  \A i \in DOMAIN file.rows :
    Cardinality(Stored(i)) <= task.failures + (IF HasStored(i) THEN 1 ELSE 0)

LEMMA StoredFinite ==
  ASSUME TypeOK, NEW i
  PROVE  IsFiniteSet(Stored(i)) /\ Cardinality(Stored(i)) \in Nat
<1>1. Len(events) \in Nat /\ Stored(i) \subseteq 1 .. Len(events)
  <2>1. Len(events) \in Nat /\ DOMAIN events = 1 .. Len(events)
    BY DEF TypeOK
  <2>2. \A e \in Stored(i) : e \in DOMAIN events
    BY DEF Stored
  <2> QED  BY <2>1, <2>2
<1>2. IsFiniteSet(1 .. Len(events))
  BY <1>1, FS_Interval
<1>3. IsFiniteSet(Stored(i))
  BY <1>1, <1>2, FS_Subset
<1> QED  BY <1>3, FS_CardinalityType

(* An event more is one event of one row.                                  *)
LEMMA StoredByOne ==
  ASSUME TypeOK, NEW r \in DOMAIN file.rows, events' = Append(events, r)
  PROVE  /\ Cardinality(Stored(r)') \in {Cardinality(Stored(r)), Cardinality(Stored(r)) + 1}
         /\ \A i : i # r => Stored(i)' = Stored(i)
<1>1. /\ events \in Seq(DOMAIN file.rows) /\ Len(events) \in Nat
      /\ DOMAIN events = 1 .. Len(events)
  BY DEF TypeOK
<1>2. /\ DOMAIN events' = 1 .. Len(events) + 1
      /\ \A e \in DOMAIN events : events'[e] = events[e]
      /\ events'[Len(events) + 1] = r
  BY <1>1, AppendProperties
<1>3. \A i : i # r => Stored(i)' = Stored(i)
  BY <1>1, <1>2 DEF Stored
<1>4. Stored(r)' = Stored(r) \union {Len(events) + 1}
  BY <1>1, <1>2 DEF Stored
<1>5. /\ IsFiniteSet(Stored(r)) /\ Cardinality(Stored(r)) \in Nat
      /\ Cardinality(Stored(r) \union {Len(events) + 1})
           \in {Cardinality(Stored(r)), Cardinality(Stored(r)) + 1}
  BY StoredFinite, FS_AddElement
<1> QED  BY <1>3, <1>4, <1>5

LEMMA StoredEachStep ==
  ASSUME CsvInv, StoredEach, [Next]_vars
  PROVE  StoredEach'
<1>1. /\ TypeOK /\ RetriesLeft /\ file \in Files /\ job \in Job /\ task \in Attempt
      /\ DOMAIN file.rows = 1 .. Len(file.rows) /\ Len(file.rows) \in Nat
      /\ task.row \in Nat /\ task.failures \in Nat /\ MaxRetries \in Nat
      /\ task.processed \in Nat /\ task.failed \in Nat
  BY CsvConstants, FileRows DEF CsvInv, TypeOK, Attempt
<1>2. \A i : Cardinality(Stored(i)) \in Nat
  BY <1>1, StoredFinite
<1>3. ASSUME UNCHANGED events
      PROVE  \A i : Stored(i)' = Stored(i)
  BY <1>3 DEF Stored
(* A step that stores nothing and forgets no row.                          *)
<1>4. ASSUME UNCHANGED <<file, events>>, task'.failures = task.failures,
             \A i \in DOMAIN file.rows : HasStored(i) => HasStored(i)'
      PROVE  StoredEach'
  BY <1>1, <1>2, <1>3, <1>4 DEF StoredEach
<1>5. ASSUME Fail, UNCHANGED <<file, events>>
      PROVE  StoredEach'
  <2>1. task'.failures = task.failures + 1
    BY <1>1, <1>5 DEF Fail, Attempt
  <2> QED  BY <1>1, <1>2, <1>3, <1>5, <2>1 DEF StoredEach
<1>6. CASE Upload \/ EnqueueJob \/ EnqueueFails
  BY <1>1, <1>4, <1>6 DEF Upload, EnqueueJob, EnqueueFails, RetriesLeft, Attempt, HasStored
<1>7. CASE StartJob
  BY <1>1, <1>4, <1>7, StartEffect DEF StartJob, HasStored
<1>8. CASE ReadFile
  BY <1>1, <1>4, <1>8 DEF ReadFile, Attempt, HasStored
<1>9. CASE NoHeader \/ RejectRow \/ CallbackFails
  BY <1>5, <1>9 DEF NoHeader, RejectRow, CallbackFails
<1>10. CASE StoreRow
  <2>1. /\ task.pc = "row" /\ task.row \in DOMAIN file.rows
        /\ events' = Append(events, task.row) /\ UNCHANGED file
    BY <1>10 DEF StoreRow, AtRow
  <2>2. task'.pc = "callback" /\ task'.row = task.row /\ task'.failures = task.failures
    BY <1>1, <1>10 DEF StoreRow, Attempt
  <2>3. PICK r \in DOMAIN file.rows : r = task.row
    BY <2>1
  <2>4. /\ Cardinality(Stored(r)') \in {Cardinality(Stored(r)), Cardinality(Stored(r)) + 1}
        /\ \A i : i # r => Stored(i)' = Stored(i)
    <3>1. TypeOK /\ events' = Append(events, r)
      BY <1>1, <2>1, <2>3
    <3> QED  BY <3>1, StoredByOne
  <2>5. SUFFICES ASSUME NEW i \in DOMAIN file.rows
                 PROVE  Cardinality(Stored(i)')
                          <= task'.failures + (IF HasStored(i)' THEN 1 ELSE 0)
    BY <2>1 DEF StoredEach
  <2>6. CASE i = r
    <3>1. ~ HasStored(r) /\ HasStored(r)'
      BY <1>1, <2>1, <2>2, <2>3 DEF HasStored
    <3>2. Cardinality(Stored(r)) <= task.failures
      BY <1>1, <3>1 DEF StoredEach
    <3> QED  BY <1>1, <1>2, <2>2, <2>4, <2>6, <3>1, <3>2
  <2>7. CASE i # r
    <3>1. HasStored(i) <=> HasStored(i)'
      BY <1>1, <2>1, <2>2, <2>3, <2>7 DEF HasStored
    <3>2. Cardinality(Stored(i)) <= task.failures + (IF HasStored(i) THEN 1 ELSE 0)
      BY DEF StoredEach
    <3> QED  BY <2>2, <2>4, <2>7, <3>1, <3>2
  <2> QED  BY <2>6, <2>7
<1>11. CASE CountProcessed
  <2>1. CountRow(task.processed + 1, task.failed) /\ UNCHANGED <<file, events>>
    BY <1>11 DEF CountProcessed
  <2>2. task'.pc = "row" /\ task'.row = task.row + 1 /\ task'.failures = task.failures
    BY <1>1, <2>1, CountEffect
  <2> QED  BY <1>1, <1>4, <1>11, <2>1, <2>2 DEF CountProcessed, HasStored
<1>12. CASE CountFailed
  <2>1. CountRow(task.processed, task.failed + 1) /\ UNCHANGED <<file, events>>
    BY <1>12 DEF CountFailed
  <2>2. task'.pc = "row" /\ task'.row = task.row + 1 /\ task'.failures = task.failures
    BY <1>1, <2>1, CountEffect
  <2> QED  BY <1>1, <1>4, <1>12, <2>1, <2>2 DEF CountFailed, AtRow, HasStored
<1>13. CASE FinishJob
  BY <1>1, <1>4, <1>13 DEF FinishJob, RetriesLeft, Attempt, HasStored
<1>14. CASE RetryJob
  BY <1>1, <1>4, <1>14 DEF RetryJob, Attempt, HasStored
<1>15. CASE LoseTask
  BY <1>1, <1>4, <1>15 DEF LoseTask, RetriesLeft, Attempt, HasStored
<1>16. CASE UNCHANGED vars
  BY <1>1, <1>4, <1>16 DEF vars, HasStored
<1> QED
  BY <1>6, <1>7, <1>8, <1>9, <1>10, <1>11, <1>12, <1>13, <1>14, <1>15, <1>16
     DEF Next, TaskStep

LEMMA InitEach == ASSUME Init PROVE StoredEach
<1> SUFFICES ASSUME NEW i \in DOMAIN file.rows
             PROVE  Cardinality(Stored(i)) <= task.failures + (IF HasStored(i) THEN 1 ELSE 0)
  BY DEF StoredEach
<1>1. Stored(i) = {}
  BY DEF Init, Stored
<1>2. Cardinality(Stored(i)) = 0 /\ task.failures = 0 /\ ~ HasStored(i)
  BY <1>1, FS_EmptySet DEF Init, HasStored
<1> QED  BY <1>2

(* No attempt stores a row twice: a row of the file is in the table at     *)
(* most once for each attempt made, and never more often than the retries  *)
(* allow (create_event of ingestion/tasks.py, run once per row and attempt *)
(* and never undone).                                                      *)
THEOREM RowsOncePerAttempt ==
  Spec => [](\A i \in DOMAIN file.rows :
               /\ Cardinality(Stored(i)) <= task.failures + 1
               /\ Cardinality(Stored(i)) <= MaxRetries + 1)
<1>1. Init => StoredEach
  BY InitEach
<1>2. CsvInv /\ StoredEach /\ [Next]_vars => StoredEach'
  BY StoredEachStep
<1>3. CsvInv /\ StoredEach => \A i \in DOMAIN file.rows :
                               /\ Cardinality(Stored(i)) <= task.failures + 1
                               /\ Cardinality(Stored(i)) <= MaxRetries + 1
  <2> SUFFICES ASSUME CsvInv, StoredEach, NEW i \in DOMAIN file.rows
               PROVE  /\ Cardinality(Stored(i)) <= task.failures + 1
                      /\ Cardinality(Stored(i)) <= MaxRetries + 1
    OBVIOUS
  <2>1. Cardinality(Stored(i)) \in Nat
    BY StoredFinite DEF CsvInv
  <2>2. /\ MaxRetries \in Nat /\ RetriesLeft /\ task.pc \in TaskPCs
        /\ task.failures \in 0 .. MaxRetries + 1
    BY CsvConstants DEF CsvInv, TypeOK, Attempt
  <2>3. HasStored(i) => task.failures <= MaxRetries
    BY <2>2 DEF HasStored, RetriesLeft
  <2>4. Cardinality(Stored(i)) <= task.failures + (IF HasStored(i) THEN 1 ELSE 0)
    BY DEF StoredEach
  <2> QED  BY <2>1, <2>2, <2>3, <2>4
<1> QED  BY <1>1, <1>2, <1>3, CsvInvariant, PTL DEF Spec

(* Until an attempt fails, the counts are those of the rows passed.        *)
FirstCounts ==
  /\ task.pc = "failing" => task.failures > 0
  /\ task.failures = 0 =>
       /\ task.pc \in {"none", "upload", "queued"} => job.processed = 0
       /\ task.pc = "open" => task.processed = 0
       /\ task.pc \in {"row", "callback"} =>
            task.processed = Cardinality(GoodBefore(task.row))
       /\ job.status = "completed" => job.processed = Cardinality(Good)

LEMMA FirstCountsStep ==
  ASSUME CsvInv, FirstCounts, [Next]_vars
  PROVE  FirstCounts'
<1> USE DEF FirstCounts
<1>1. /\ TypeOK /\ RetriesLeft /\ file \in Files /\ job \in Job /\ task \in Attempt
      /\ DOMAIN file.rows = 1 .. Len(file.rows) /\ Len(file.rows) \in Nat
      /\ task.row \in Nat /\ task.failures \in Nat
      /\ task.processed \in Nat /\ task.failed \in Nat
  BY FileRows DEF CsvInv, TypeOK, Attempt
<1>2. job.status = "completed" => task.pc = "done"
  BY DEF CsvInv, EndsCompleted
<1>3. ASSUME UNCHANGED file
      PROVE  Good' = Good /\ \A n : GoodBefore(n)' = GoodBefore(n)
  BY <1>3 DEF Good, GoodBefore
<1>4. ASSUME Fail
      PROVE  FirstCounts'
  <2>1. task'.pc = "failing" /\ task'.failures = task.failures + 1
    BY <1>1, <1>4 DEF Fail, Attempt
  <2> QED  BY <1>1, <2>1
<1>5. CASE Upload \/ EnqueueJob \/ EnqueueFails
  BY <1>1, <1>2, <1>5 DEF Upload, EnqueueJob, EnqueueFails, RetriesLeft, Job, Attempt
<1>6. CASE StartJob
  BY <1>1, <1>6, StartEffect DEF StartJob
<1>7. CASE ReadFile
  <2>1. /\ task'.pc = "row" /\ task'.row = 1 /\ task'.processed = task.processed
        /\ task'.failures = task.failures /\ UNCHANGED file /\ job'.status = job.status
    BY <1>1, <1>7 DEF ReadFile, CsvInv, InProgress, Job, Attempt
  <2>2. GoodBefore(1) = {}
    BY <1>1 DEF GoodBefore, Good
  <2>3. Cardinality(GoodBefore(task.row)') = 0
    BY <1>3, <2>1, <2>2, FS_EmptySet
  <2> QED  BY <1>2, <1>7, <2>1, <2>3 DEF ReadFile
<1>8. CASE NoHeader \/ RejectRow \/ CallbackFails
  BY <1>4, <1>8 DEF NoHeader, RejectRow, CallbackFails
<1>9. CASE StoreRow
  <2>1. /\ task'.pc = "callback" /\ task'.row = task.row /\ task.pc = "row"
        /\ task'.processed = task.processed /\ task'.failures = task.failures
        /\ UNCHANGED <<file, job>>
    BY <1>1, <1>9 DEF StoreRow, AtRow, Attempt
  <2> QED  BY <1>2, <1>3, <2>1
<1>10. CASE CountProcessed
  <2>1. /\ CountRow(task.processed + 1, task.failed) /\ UNCHANGED file
        /\ task.pc = "callback" /\ task.row \in Good
    BY <1>10 DEF CountProcessed, CsvInv, InCallback
  <2>2. /\ task'.pc = "row" /\ task'.row = task.row + 1 /\ task'.failures = task.failures
        /\ task'.processed = task.processed + 1 /\ job'.status = job.status
    BY <1>1, <2>1, CountEffect
  <2>3. /\ GoodBefore(task.row + 1) = GoodBefore(task.row) \union {task.row}
        /\ task.row \notin GoodBefore(task.row)
    BY <1>1, <2>1 DEF Good, GoodBefore
  <2>4. IsFiniteSet(GoodBefore(task.row))
    BY <1>1, GoodFinite
  <2>5. Cardinality(GoodBefore(task.row + 1)) = Cardinality(GoodBefore(task.row)) + 1
    BY <2>3, <2>4, FS_AddElement
  <2>6. GoodBefore(task.row)' = GoodBefore(task.row + 1)
    BY <1>3, <2>1, <2>2
  <2> QED  BY <1>2, <2>1, <2>2, <2>5, <2>6
<1>11. CASE CountFailed
  <2>1. /\ CountRow(task.processed, task.failed + 1) /\ UNCHANGED file /\ task.pc = "row"
        /\ task.row \in DOMAIN file.rows /\ file.rows[task.row] = "bad"
    BY <1>11 DEF CountFailed, AtRow
  <2>2. /\ task'.pc = "row" /\ task'.row = task.row + 1 /\ task'.failures = task.failures
        /\ task'.processed = task.processed /\ job'.status = job.status
    BY <1>1, <2>1, CountEffect
  <2>3. GoodBefore(task.row)' = GoodBefore(task.row)
    BY <1>1, <1>3, <2>1, <2>2, GoodGrows
  <2> QED  BY <1>2, <2>1, <2>2, <2>3
<1>12. CASE FinishJob
  <2>1. /\ task.pc = "row" /\ task.row = Len(file.rows) + 1 /\ UNCHANGED file
        /\ job'.processed = task.processed
        /\ task'.pc = "done" /\ task'.failures = task.failures
    BY <1>1, <1>12 DEF FinishJob, Job, Attempt
  <2>2. GoodBefore(task.row) = Good /\ Good' = Good
    BY <1>1, <1>3, <2>1, GoodAtEnd
  <2> QED  BY <2>1, <2>2
<1>13. CASE RetryJob
  <2>1. task'.failures = task.failures /\ task'.pc \in {"queued", "done"} /\ task.pc = "failing"
    BY <1>1, <1>13 DEF RetryJob, Attempt
  <2> QED  BY <1>1, <2>1
<1>14. CASE LoseTask
  <2>1. /\ task'.failures = task.failures /\ task'.pc = "lost" /\ task.pc # "done"
        /\ UNCHANGED job
    BY <1>1, <1>14 DEF LoseTask, Attempt
  <2> QED  BY <1>2, <2>1
<1>15. CASE UNCHANGED vars
  BY <1>3, <1>15 DEF vars
<1> QED
  BY <1>5, <1>6, <1>7, <1>8, <1>9, <1>10, <1>11, <1>12, <1>13, <1>14, <1>15
     DEF Next, TaskStep

(* A job completed by its first attempt has counted each good row once and *)
(* stored one event for it, as tests/test_backend.py:189-191 expect of any *)
(* completed job: what the run of CsvRetries shows takes a failed attempt. *)
THEOREM FirstAttemptsCountOnce == Spec => [](task.failures = 0 => CompletedCountsOnce)
<1>1. Init => FirstCounts /\ StoredEach
  BY InitEach DEF Init, FirstCounts
<1>2. CsvInv /\ FirstCounts /\ StoredEach /\ [Next]_vars => (FirstCounts /\ StoredEach)'
  BY FirstCountsStep, StoredEachStep
<1>3. CsvInv /\ FirstCounts /\ StoredEach => (task.failures = 0 => CompletedCountsOnce)
  <2> SUFFICES ASSUME CsvInv, FirstCounts, StoredEach, task.failures = 0,
                      job.status = "completed", NEW i \in Good
               PROVE  job.processed = Cardinality(Good) /\ Cardinality(Stored(i)) = 1
    BY DEF CompletedCountsOnce, FirstCounts
  <2>1. job.processed = Cardinality(Good)
    BY DEF FirstCounts
  <2>2. Stored(i) # {}
    BY DEF CsvInv, EndsCompleted, CompletedIngestedAll
  <2>3. IsFiniteSet(Stored(i)) /\ Cardinality(Stored(i)) \in Nat
    BY StoredFinite DEF CsvInv
  <2>4. Cardinality(Stored(i)) # 0
    BY <2>2, <2>3, FS_EmptySet
  <2>5. Cardinality(Stored(i)) <= 1
    <3>1. Cardinality(Stored(i)) <= task.failures + (IF HasStored(i) THEN 1 ELSE 0)
      BY DEF StoredEach, Good
    <3> QED  BY <2>3, <3>1
  <2> QED  BY <2>1, <2>3, <2>4, <2>5
<1> QED  BY <1>1, <1>2, <1>3, CsvInvariant, PTL DEF Spec

-----------------------------------------------------------------------------
(* The way a job has left: attempts, the stage of this one, rows.          *)

Stage(pc) ==
  CASE pc = "none" -> 6 [] pc = "upload" -> 5 [] pc = "failing" -> 4 [] pc = "queued" -> 3
    [] pc = "open" -> 2 [] pc \in {"row", "callback"} -> 1 [] OTHER -> 0

RowsLeft == IF task.pc = "row" THEN 2 * (Len(file.rows) + 1 - task.row) + 1
            ELSE IF task.pc = "callback" THEN 2 * (Len(file.rows) + 1 - task.row)
            ELSE 0

AttemptsLeft == MaxRetries + 1 - task.failures

(* In the lexicographic order of three natural numbers a step goes down.   *)
NearerTheEnd ==
  /\ AttemptsLeft' \in Nat /\ Stage(task.pc)' \in 0 .. 6 /\ RowsLeft' \in Nat
  /\ \/ AttemptsLeft' < AttemptsLeft
     \/ /\ AttemptsLeft' = AttemptsLeft /\ Stage(task.pc)' < Stage(task.pc)
     \/ /\ AttemptsLeft' = AttemptsLeft /\ Stage(task.pc)' = Stage(task.pc)
        /\ RowsLeft' < RowsLeft

LEMMA EveryStepNearer ==
  ASSUME CsvInv, CsvInv', Next PROVE NearerTheEnd
<1>1. /\ task \in Attempt /\ task' \in Attempt /\ file' = file
      /\ Len(file.rows) \in Nat /\ task.row <= Len(file.rows) + 1
      /\ task'.row <= Len(file.rows) + 1
  <2>1. file' = file
    BY DEF Next, TaskStep, Upload, EnqueueJob, EnqueueFails, StartJob, ReadFile, NoHeader,
           StoreRow, CountProcessed, CountFailed, FinishJob, RetryJob, RejectRow,
           CallbackFails, LoseTask
  <2> QED  BY <2>1, FileRows DEF CsvInv, TypeOK
<1>2. /\ task.failures \in 0 .. MaxRetries + 1 /\ task'.failures \in 0 .. MaxRetries + 1
      /\ task.row \in Nat \ {0} /\ task'.row \in Nat \ {0}
  BY <1>1 DEF Attempt
<1>3. AttemptsLeft' \in Nat /\ Stage(task.pc)' \in 0 .. 6 /\ RowsLeft' \in Nat
  <2>1. AttemptsLeft' \in Nat
    BY <1>2, CsvConstants DEF AttemptsLeft
  <2>2. Stage(task.pc)' \in 0 .. 6
    BY DEF Stage
  <2>3. RowsLeft' \in Nat
    <3>1. Len(file'.rows) + 1 - task'.row \in Nat
      BY <1>1, <1>2
    <3>2. \A d \in Nat : 2 * d \in Nat /\ 2 * d + 1 \in Nat
      OBVIOUS
    <3> QED  BY <3>1, <3>2 DEF RowsLeft
  <2> QED  BY <2>1, <2>2, <2>3
<1>4. CASE NoHeader \/ RejectRow \/ CallbackFails
  <2>1. task'.failures = task.failures + 1
    <3>1. CASE NoHeader  BY <1>1, <3>1 DEF NoHeader, Fail, Attempt
    <3>2. CASE RejectRow  BY <1>1, <3>2 DEF RejectRow, Fail, Attempt
    <3>3. CASE CallbackFails  BY <1>1, <3>3 DEF CallbackFails, Fail, Attempt
    <3> QED  BY <1>4, <3>1, <3>2, <3>3
  <2> QED  BY <1>2, <1>3, <2>1, CsvConstants DEF NearerTheEnd, AttemptsLeft
<1>5. CASE \/ Upload \/ EnqueueJob \/ EnqueueFails \/ StartJob \/ ReadFile \/ FinishJob
           \/ RetryJob \/ LoseTask
  <2>1. task'.failures = task.failures
    BY <1>1, <1>5 DEF Upload, EnqueueJob, EnqueueFails, StartJob, ReadFile, FinishJob,
                      RetryJob, LoseTask, Attempt
  <2>2. \/ /\ task.pc = "none" /\ task'.pc = "upload"
        \/ /\ task.pc = "upload" /\ task'.pc \in {"queued", "lost"}
        \/ /\ task.pc = "queued" /\ task'.pc = "open"
        \/ /\ task.pc = "open" /\ task'.pc \in {"row", "lost"}
        \/ /\ task.pc \in {"row", "callback"} /\ task'.pc \in {"done", "lost"}
        \/ /\ task.pc = "failing" /\ task'.pc \in {"queued", "done", "lost"}
    BY <1>1, <1>5 DEF Upload, EnqueueJob, EnqueueFails, StartJob, ReadFile, FinishJob,
                      RetryJob, LoseTask, Attempt, CsvInv, RetriesLeft
  <2>3. Stage(task.pc)' < Stage(task.pc)
    BY <2>2 DEF Stage
  <2> QED  BY <1>3, <2>1, <2>3 DEF NearerTheEnd, AttemptsLeft
<1>6. CASE StoreRow \/ CountProcessed \/ CountFailed
  <2>1. task'.failures = task.failures
    BY <1>1, <1>6 DEF StoreRow, CountProcessed, CountFailed, CountRow, Attempt
  <2>2. \/ /\ task.pc = "row" /\ task'.pc = "callback" /\ task'.row = task.row
        \/ /\ task.pc = "callback" /\ task'.pc = "row" /\ task'.row = task.row + 1
        \/ /\ task.pc = "row" /\ task'.pc = "row" /\ task'.row = task.row + 1
    BY <1>1, <1>6 DEF StoreRow, CountProcessed, CountFailed, CountRow, AtRow, Attempt
  <2>3. Stage(task.pc)' = Stage(task.pc)
    BY <2>2 DEF Stage
  <2>4. RowsLeft' < RowsLeft
    <3>1. PICK n \in Nat : n = Len(file.rows) /\ n = Len(file'.rows)
      BY <1>1
    <3>2. /\ task.pc = "row" => RowsLeft = 2 * (n + 1 - task.row) + 1
          /\ task.pc = "callback" => RowsLeft = 2 * (n + 1 - task.row)
          /\ task'.pc = "row" => RowsLeft' = 2 * (n + 1 - task'.row) + 1
          /\ task'.pc = "callback" => RowsLeft' = 2 * (n + 1 - task'.row)
      BY <3>1 DEF RowsLeft
    <3> QED  BY <1>2, <2>2, <3>2
  <2> QED  BY <1>3, <2>1, <2>3, <2>4 DEF NearerTheEnd, AttemptsLeft
<1> QED  BY <1>4, <1>5, <1>6 DEF Next, TaskStep

(* Every commit of a job, and every failure, brings it nearer its end: it  *)
(* cannot go on for ever, whatever fails, and an attempt takes no more     *)
(* commits than twice the rows and a few (ingestion/tasks.py:19-64).       *)
(* With workers that keep taking tasks, JobsEventuallyEnd follows.         *)
THEOREM JobsTerminate == Spec => [][NearerTheEnd]_vars
<1>1. CsvInv /\ CsvInv' /\ [Next]_vars => [NearerTheEnd]_vars
  BY EveryStepNearer
<1> QED  BY <1>1, CsvInvariant, PTL DEF Spec
=============================================================================
