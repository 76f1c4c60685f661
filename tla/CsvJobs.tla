------------------------------ MODULE CsvJobs ------------------------------
(***************************************************************************)
(* One uploaded CSV file: the upload handler of ingestion/views.py and the *)
(* task process_csv_job of ingestion/tasks.py with its retries.  Every row *)
(* is ingested in a transaction of its own by create_event, the counts of  *)
(* the job live in the memory of the attempt and are saved at checkpoints, *)
(* and a retry starts the file again from the counts that were saved.      *)
(***************************************************************************)
EXTENDS Naturals, Sequences, FiniteSets

CONSTANTS
  MaxRows,     \* bound: the longest file
  Checkpoint,  \* rows between two saves of the counts (25 in the code)
  MaxRetries,  \* max_retries of the task (3 in the code)
  Faults,      \* the failures that happen, a subset of FaultKinds
  MaxFaults    \* bound: failures in all

FaultKinds == {"enqueue", "reject", "callback", "lose"}

ASSUME CsvConstants ==
  /\ MaxRows \in Nat /\ Checkpoint \in Nat \ {0}
  /\ MaxRetries \in Nat /\ MaxFaults \in Nat
  /\ Faults \subseteq FaultKinds

VARIABLES
  file,    \* the rows of the upload, good or bad, below a header or not
  job,     \* the ingestion_job row
  events,  \* the events committed for the job, in order, by the row they come from
  task,    \* the attempt: where it is, its row, its counts, attempts failed
  budget   \* failures that may still happen

vars == <<file, job, events, task, budget>>

Files == {f \in [header : BOOLEAN,
                 rows : UNION {[1 .. n -> {"good", "bad"}] : n \in 0 .. MaxRows}] :
            f.header \/ f.rows = <<>>}

Good == {i \in DOMAIN file.rows : file.rows[i] = "good"}

Init ==
  /\ file \in Files
  /\ job = [status |-> "none", total |-> 0, processed |-> 0, failed |-> 0]
  /\ events = <<>>
  /\ task = [pc |-> "none", row |-> 1, processed |-> 0, failed |-> 0, failures |-> 0]
  /\ budget = MaxFaults

Spend == budget > 0 /\ budget' = budget - 1

-----------------------------------------------------------------------------
(* POST of a file: the job is committed, then its task enqueued; a broker  *)
(* that fails is only logged.                                              *)

Upload ==
  /\ job.status = "none"
  /\ job' = [job EXCEPT !.status = "pending"]
  /\ task' = [task EXCEPT !.pc = "upload"]
  /\ UNCHANGED <<file, events, budget>>

EnqueueJob ==
  /\ task.pc = "upload"
  /\ task' = [task EXCEPT !.pc = "queued"]
  /\ UNCHANGED <<file, job, events, budget>>

EnqueueFails ==
  /\ "enqueue" \in Faults /\ task.pc = "upload"
  /\ Spend
  /\ task' = [task EXCEPT !.pc = "lost"]
  /\ UNCHANGED <<file, job, events>>

-----------------------------------------------------------------------------
(* An attempt of process_csv_job.                                          *)

(* The job is fetched with the counts the last attempt has saved.          *)
StartJob ==
  /\ task.pc = "queued"
  /\ job' = [job EXCEPT !.status = "processing"]
  /\ task' = [task EXCEPT !.pc = "open", !.row = 1,
                          !.processed = job.processed, !.failed = job.failed]
  /\ UNCHANGED <<file, events, budget>>

ReadFile ==
  /\ task.pc = "open" /\ file.header
  /\ job' = [job EXCEPT !.total = Len(file.rows)]
  /\ task' = [task EXCEPT !.pc = "row"]
  /\ UNCHANGED <<file, events, budget>>

(* The task fails: the status is saved, the counts in memory are not.      *)
Fail ==
  /\ job' = [job EXCEPT !.status = "failed"]
  /\ task' = [task EXCEPT !.pc = "failing", !.failures = @ + 1]

NoHeader ==
  /\ task.pc = "open" /\ ~ file.header
  /\ Fail
  /\ UNCHANGED <<file, events, budget>>

AtRow(kind) ==
  task.pc = "row" /\ task.row \in DOMAIN file.rows /\ file.rows[task.row] = kind

(* create_event commits the event, then runs its on_commit callback.       *)
StoreRow ==
  /\ AtRow("good")
  /\ events' = Append(events, task.row)
  /\ task' = [task EXCEPT !.pc = "callback"]
  /\ UNCHANGED <<file, job, budget>>

(* Mutant: any exception of a row counts as a failed row.                  *)
CountRejected ==
  /\ "reject" \in Faults /\ AtRow("good")
  /\ Spend
  /\ task' = [task EXCEPT !.row = @ + 1, !.failed = @ + 1]
  /\ UNCHANGED <<file, job, events>>

(* The database refuses the row with an exception that is no ValueError.   *)
RejectRow ==
  /\ "reject" \in Faults /\ AtRow("good")
  /\ Spend /\ Fail
  /\ UNCHANGED <<file, events>>

(* post_events_created raises (the channel layer, the cache): the event    *)
(* stays, the attempt fails.                                               *)
CallbackFails ==
  /\ "callback" \in Faults /\ task.pc = "callback"
  /\ Spend /\ Fail
  /\ UNCHANGED <<file, events>>

(* Both kinds of row end with the counts, and at a checkpoint save them.   *)
CountRow(p, f) ==
  /\ task' = [task EXCEPT !.pc = "row", !.row = @ + 1, !.processed = p, !.failed = f]
  /\ job' = IF (p + f) % Checkpoint = 0
            THEN [job EXCEPT !.processed = p, !.failed = f] ELSE job

CountProcessed ==
  /\ task.pc = "callback"
  /\ CountRow(task.processed + 1, task.failed)
  /\ UNCHANGED <<file, events, budget>>

CountFailed ==
  /\ AtRow("bad")
  /\ CountRow(task.processed, task.failed + 1)
  /\ UNCHANGED <<file, events, budget>>

Outcome(p, f) == IF p = 0 /\ f > 0 THEN "failed" ELSE "completed"

(* Mutant: update_fields does not name the status.                         *)
FinishWithoutStatus ==
  /\ task.pc = "row" /\ task.row = Len(file.rows) + 1
  /\ job' = [job EXCEPT !.processed = task.processed, !.failed = task.failed]
  /\ task' = [task EXCEPT !.pc = "done"]
  /\ UNCHANGED <<file, events, budget>>

FinishJob ==
  /\ task.pc = "row" /\ task.row = Len(file.rows) + 1
  /\ job' = [job EXCEPT !.status = Outcome(task.processed, task.failed),
                        !.processed = task.processed, !.failed = task.failed]
  /\ task' = [task EXCEPT !.pc = "done"]
  /\ UNCHANGED <<file, events, budget>>

(* autoretry_for: at most MaxRetries further attempts.                     *)
RetryJob ==
  /\ task.pc = "failing"
  /\ task' = [task EXCEPT !.pc = IF task.failures <= MaxRetries THEN "queued" ELSE "done"]
  /\ UNCHANGED <<file, job, events, budget>>

(* The worker dies; the task was acknowledged and is not run again.        *)
LoseTask ==
  /\ "lose" \in Faults /\ task.pc \in {"open", "row", "callback", "failing"}
  /\ Spend
  /\ task' = [task EXCEPT !.pc = "lost"]
  /\ UNCHANGED <<file, job, events>>

TaskStep == \/ StartJob \/ ReadFile \/ NoHeader \/ StoreRow \/ CountProcessed
            \/ CountFailed \/ FinishJob \/ RetryJob

Next == \/ Upload \/ EnqueueJob \/ EnqueueFails \/ TaskStep
        \/ RejectRow \/ CallbackFails \/ LoseTask

Spec == Init /\ [][Next]_vars

(* The workers keep taking tasks.                                          *)
FairSpec == Spec /\ WF_vars(TaskStep)

-----------------------------------------------------------------------------
(* Properties.                                                             *)

Stored(i) == {e \in DOMAIN events : events[e] = i}

Job == [status : {"none", "pending", "processing", "completed", "failed"},
        total : Nat, processed : Nat, failed : Nat]

TaskPCs == {"none", "upload", "queued", "open", "row", "callback", "failing", "done",
            "lost"}

Attempt == [pc : TaskPCs,
            row : Nat \ {0}, processed : Nat, failed : Nat,
            failures : 0 .. MaxRetries + 1]

TypeOK ==
  /\ file \in Files /\ events \in Seq(DOMAIN file.rows)
  /\ job \in Job /\ job.total \in {0, Len(file.rows)}
  /\ task \in Attempt /\ task.row <= Len(file.rows) + 1
  /\ budget \in 0 .. MaxFaults

CountsAreStored == job.processed <= Len(events) /\ task.processed <= Len(events)

CompletedIngestedAll ==
  job.status = "completed" =>
    /\ \A i \in Good : Stored(i) # {}
    /\ job.processed >= Cardinality(Good)
    /\ job.processed + job.failed >= job.total

FailedForGood ==
  job.status = "failed" /\ task.pc = "done" =>
    task.failures = MaxRetries + 1 \/ (Good = {} /\ file.rows # <<>>)

(* What a client is told of its file, through checkpoints, failed attempts *)
(* and lost workers: the counts never run ahead of the events stored, a    *)
(* completed job has ingested every good row at least once and its counts  *)
(* cover the file, and one failed for good has used up its retries or has  *)
(* rows of which none is good.                                             *)
JobShowsItsFile == CountsAreStored /\ CompletedIngestedAll /\ FailedForGood

(* A job whose task was enqueued ends, unless its worker dies.             *)
JobsEventuallyEnd ==
  (task.pc = "queued") ~>
    (task.pc = "lost" \/ (task.pc = "done" /\ job.status \in {"completed", "failed"}))

(* tests/test_backend.py:189-191: a completed job has counted each row of  *)
(* the file once and stored one event for it.                              *)
CompletedCountsOnce ==
  job.status = "completed" =>
    job.processed = Cardinality(Good) /\ \A i \in Good : Cardinality(Stored(i)) = 1
=============================================================================
