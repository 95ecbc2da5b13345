----------------------------- MODULE FlushPool ------------------------------
(***************************************************************************)
(* The worker pool of Book.flushData, flushImages and flushXHTML           *)
(* (processor/book.go): three copies of one algorithm.  A supplier feeds   *)
(* a buffered channel "job" to runtime.NumCPU() goroutines; a goroutine    *)
(* whose flush fails raises the atomic counter haveError, puts the error   *)
(* on the buffered channel "res" and stops; everybody looks at haveError   *)
(* before going on.  Both channels have room for the whole batch.          *)
(*                                                                         *)
(* Every access to shared state (channel operation, atomic load, atomic    *)
(* add, file write) is a step of its own.  An I/O failure of a flush is a  *)
(* nondeterministic choice.                                                *)
(***************************************************************************)
EXTENDS Naturals, Sequences, FiniteSets

CONSTANTS
    MaxFiles,           \* bound on the length of the list
    Workers             \* the goroutines, runtime.NumCPU() of them

ASSUME MaxFilesAssumption == MaxFiles \in Nat
ASSUME WorkersAssumption == Workers # {}

VARIABLES
    n,                  \* length of Book.Data, Book.Images or Book.Files
    spc,                \* where the caller's goroutine is
    next,               \* the file the supplier hands out next
    job,                \* channel job
    closed,             \* close(job) was executed
    haveError,          \* the atomic counter
    res,                \* channel res, an error is named by its file
    wpc,                \* where every worker is
    wjob,               \* the file a worker took from job
    written,            \* files whose flush returned nil
    result              \* file whose error the call returns, 0 is nil

vars == <<n, spc, next, job, closed, haveError, res, wpc, wjob, written, result>>

Batch == 1..n

supplierVars == <<n, next, closed, result>>
workerVars   == <<wpc, wjob, written, res, haveError>>

Init ==
    /\ n \in 0..MaxFiles
    /\ spc = "start"
    /\ next = 1
    /\ job = <<>>
    /\ closed = FALSE
    /\ haveError = 0
    /\ res = <<>>
    /\ wpc = [w \in Workers |-> "idle"]
    /\ wjob = [w \in Workers |-> 0]
    /\ written = {}
    /\ result = 0

-----------------------------------------------------------------------------
(* The caller. *)

(* An empty list is done at once. *)
FlushNothing ==
    /\ spc = "start"
    /\ n = 0
    /\ spc' = "returned"
    /\ UNCHANGED <<job, supplierVars, workerVars>>

(* A single file is flushed by the caller itself, without goroutines. *)
FlushSingle ==
    /\ spc = "start"
    /\ n = 1
    /\ spc' = "single"
    /\ \/ written' = {1} /\ UNCHANGED result
       \/ result' = 1 /\ UNCHANGED written
    /\ UNCHANGED <<n, next, job, closed, haveError, res, wpc, wjob>>

ReturnSingle ==
    /\ spc = "single"
    /\ spc' = "returned"
    /\ UNCHANGED <<job, supplierVars, workerVars>>

(* Start one goroutine per CPU, then supply work. *)
StartPool ==
    /\ spc = "start"
    /\ n > 1
    /\ spc' = "look"
    /\ wpc' = [w \in Workers |-> "recv"]
    /\ UNCHANGED <<job, supplierVars, wjob, written, res, haveError>>

StopSupply == haveError # 0

(* The supplier's loop: look at haveError before every send. *)
SupplierLooks ==
    /\ spc = "look"
    /\ spc' = IF next > n \/ StopSupply THEN "close" ELSE "send"
    /\ UNCHANGED <<job, supplierVars, workerVars>>

JobRoom == n

SupplierSends ==
    /\ spc = "send"
    /\ Len(job) < JobRoom
    /\ job' = Append(job, next)
    /\ next' = next + 1
    /\ spc' = "look"
    /\ UNCHANGED <<n, closed, result, workerVars>>

CloseJobForgotten ==
    /\ spc = "close"
    /\ spc' = "wait"
    /\ UNCHANGED <<job, supplierVars, workerVars>>

CloseJob ==
    /\ spc = "close"
    /\ closed' = TRUE
    /\ spc' = "wait"
    /\ UNCHANGED <<n, next, job, result, workerVars>>

SomeDone == \E w \in Workers : wpc[w] = "done"
AllDone == \A w \in Workers : wpc[w] = "done"

(* wg.Wait() *)
WaitWorkers ==
    /\ spc = "wait"
    /\ AllDone
    /\ spc' = "return"
    /\ UNCHANGED <<job, supplierVars, workerVars>>

(* The receive from res takes the oldest error; it would block on an empty *)
(* channel.                                                                *)
Return ==
    /\ spc = "return"
    /\ spc' = "returned"
    /\ \/ haveError = 0 /\ UNCHANGED <<res, result>>
       \/ haveError # 0 /\ res # <<>> /\ result' = Head(res) /\ res' = Tail(res)
    /\ UNCHANGED <<n, next, job, closed, haveError, wpc, wjob, written>>

Supplier ==
    \/ FlushNothing \/ FlushSingle \/ ReturnSingle \/ StartPool
    \/ SupplierLooks \/ SupplierSends \/ CloseJob \/ WaitWorkers \/ Return

-----------------------------------------------------------------------------
(* A worker. *)

(* for f := range job: take a file or see the channel closed and drained.  *)
Recv(w) ==
    /\ wpc[w] = "recv"
    /\ \/ /\ job # <<>>
          /\ wjob' = [wjob EXCEPT ![w] = Head(job)]
          /\ job' = Tail(job)
          /\ wpc' = [wpc EXCEPT ![w] = "look"]
       \/ /\ job = <<>> /\ closed
          /\ wpc' = [wpc EXCEPT ![w] = "done"]
          /\ UNCHANGED <<job, wjob>>
    /\ UNCHANGED <<spc, supplierVars, written, res, haveError>>

(* The file is dropped when another worker has already failed. *)
Look(w) ==
    /\ wpc[w] = "look"
    /\ wpc' = [wpc EXCEPT ![w] = IF haveError # 0 THEN "done" ELSE "flush"]
    /\ UNCHANGED <<spc, job, supplierVars, wjob, written, res, haveError>>

FlushSucceedsReported(w) ==
    /\ wpc[w] = "flush"
    /\ written' = written \union {wjob[w]}
    /\ wpc' = [wpc EXCEPT ![w] = "count"]
    /\ UNCHANGED <<spc, job, supplierVars, wjob, res, haveError>>

FlushSucceeds(w) ==
    /\ wpc[w] = "flush"
    /\ written' = written \union {wjob[w]}
    /\ wpc' = [wpc EXCEPT ![w] = "recv"]
    /\ UNCHANGED <<spc, job, supplierVars, wjob, res, haveError>>

FlushFailsSilently(w) ==
    /\ wpc[w] = "flush"
    /\ wpc' = [wpc EXCEPT ![w] = "done"]
    /\ UNCHANGED <<spc, job, supplierVars, wjob, written, res, haveError>>

FlushFails(w) ==
    /\ wpc[w] = "flush"
    /\ wpc' = [wpc EXCEPT ![w] = "count"]
    /\ UNCHANGED <<spc, job, supplierVars, wjob, written, res, haveError>>

(* atomic.AddInt32(&haveError, 1) *)
CountError(w) ==
    /\ wpc[w] = "count"
    /\ haveError' = haveError + 1
    /\ wpc' = [wpc EXCEPT ![w] = "report"]
    /\ UNCHANGED <<spc, job, supplierVars, wjob, written, res>>

ResRoomSingle == 1
ResRoom == n

(* res <- err, then break *)
ReportError(w) ==
    /\ wpc[w] = "report"
    /\ Len(res) < ResRoom
    /\ res' = Append(res, wjob[w])
    /\ wpc' = [wpc EXCEPT ![w] = "done"]
    /\ UNCHANGED <<spc, job, supplierVars, wjob, written, haveError>>

Worker(w) ==
    \/ Recv(w) \/ Look(w) \/ FlushSucceeds(w) \/ FlushFails(w)
    \/ CountError(w) \/ ReportError(w)

-----------------------------------------------------------------------------
Next == Supplier \/ \E w \in Workers : Worker(w)

Spec == Init /\ [][Next]_vars

(* Every goroutine that can run is eventually scheduled by the Go runtime.  *)
(* A write takes a finite time, so the flush steps are included.           *)
Fairness == WF_vars(Supplier) /\ \A w \in Workers : WF_vars(Worker(w))

FairSpec == Spec /\ Fairness

-----------------------------------------------------------------------------
(* Files whose flush failed, whether or not the error was reported yet. *)
FailedFiles ==
    {wjob[w] : w \in {v \in Workers : wpc[v] \in {"count", "report"}}}
        \union {res[i] : i \in 1..Len(res)}
        \union (IF result = 0 THEN {} ELSE {result})

TypeOK ==
    /\ n \in 0..MaxFiles
    /\ spc \in {"start", "single", "look", "send", "close", "wait",
               "return", "returned"}
    /\ next \in 1..(n + 1)
    /\ job \in Seq(Batch)
    /\ closed \in BOOLEAN
    /\ haveError \in Nat
    /\ res \in Seq(Batch)
    /\ wpc \in [Workers -> {"idle", "recv", "look", "flush", "count", "report", "done"}]
    /\ wjob \in [Workers -> 0..n]
    /\ written \subseteq Batch
    /\ result \in 0..n

(* A nil result means that every file of the batch was written: Save goes   *)
(* on to pack the directory on the strength of it (book.go:166-170).        *)
NilMeansAllWritten ==
    spc = "returned" /\ result = 0 => written = Batch

(* The error that is returned is the error of a file that was not written.  *)
ErrorIsOfUnwrittenFile ==
    spc = "returned" /\ result # 0 => result \notin written

(* res has room whenever a worker is about to report, so the send in        *)
(* "res <- err" never blocks a worker while the caller sits in wg.Wait.     *)
ReportNeverBlocks ==
    \A w \in Workers : wpc[w] = "report" => Len(res) < ResRoom

(* When the call has returned no goroutine of it touches the output         *)
(* directory any more: the next stage of Save may rely on that.             *)
NoWriterLeft ==
    spc = "returned" =>
        \A w \in Workers : wpc[w] \in {"idle", "done"}

(* What the caller learns when the call returns is true, and stays so. *)
ResultIsTrue == NilMeansAllWritten /\ ErrorIsOfUnwrittenFile /\ NoWriterLeft

(* A file handed out by the supplier is lost only if some flush failed.     *)
NoFileLost ==
    \A f \in 1..(next - 1) :
        \/ f \in written
        \/ f \in {job[i] : i \in 1..Len(job)}
        \/ \E w \in Workers : wjob[w] = f /\ wpc[w] \in {"look", "flush", "count"}
        \/ haveError # 0

(* The call always returns, whatever fails and however it is scheduled.     *)
Returns == <>(spc = "returned")

(* The pool implements its contract. *)
Contract == INSTANCE FlushAll WITH
    NoError <- 0,
    batch <- Batch,
    failed <- FailedFiles,
    returned <- (spc = "returned"),
    err <- IF spc = "returned" THEN result ELSE 0

ImplementsContract == Contract!AbsSpec

=============================================================================
