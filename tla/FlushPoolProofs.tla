--------------------------- MODULE FlushPoolProofs --------------------------
(***************************************************************************)
(* Proofs about FlushPool, for every batch length and every set of         *)
(* goroutines.  The inductive invariant IInv says where every file of the  *)
(* batch is: the files below Frontier were taken from the channel, the     *)
(* channel holds the consecutive files from Frontier to next - 1, and a    *)
(* taken file is in one place only.                                        *)
(*                                                                         *)
(* And about XmlTree, the documents of the parts that are written: in a    *)
(* document of any size, after any operations, tokens and children agree.  *)
(***************************************************************************)
EXTENDS FlushPool, XmlTree, FlattenFacts, FiniteSetTheorems

(* The oldest file that no worker has taken from the channel. *)
Frontier == next - Len(job)

Holding(w) == wpc[w] \in {"look", "flush", "count", "report"}

(* What holds before goroutines are started. *)
BeforePool ==
    spc \in {"start", "single"} =>
        /\ \A w \in Workers : wpc[w] = "idle"
        /\ job = <<>> /\ next = 1 /\ ~closed /\ haveError = 0 /\ res = <<>>
        /\ spc = "start" => written = {} /\ result = 0
        /\ spc = "single" => /\ n = 1
                             /\ \/ written = {1} /\ result = 0
                                \/ written = {} /\ result = 1

(* What the caller's position says about the rest. *)
Phases ==
    /\ spc \in {"look", "send", "close"} => ~closed
    /\ spc = "send" => next <= n
    /\ spc \in {"close", "wait", "return"} /\ haveError = 0 => next = n + 1
    /\ spc = "return" => AllDone
    /\ result # 0 => spc \in {"single", "returned"}

(* The channel is a first-in first-out queue of consecutive files. *)
JobConsecutive ==
    /\ Len(job) < next
    /\ \A i \in 1..Len(job) : job[i] = Frontier + i - 1

(* Every taken file is below Frontier and in one place. *)
OnePlace ==
    /\ \A w \in Workers : Holding(w) => wjob[w] \in 1..(Frontier - 1) /\ wjob[w] \notin written
    /\ \A v, w \in Workers : v # w /\ Holding(v) /\ Holding(w) => wjob[v] # wjob[w]
    /\ \A i \in 1..Len(res) : /\ res[i] \in 1..(Frontier - 1)
                              /\ res[i] \notin written
                              /\ \A w \in Workers : Holding(w) => wjob[w] # res[i]
    /\ spc \notin {"start", "single", "returned"} => written \subseteq 1..(Frontier - 1)

(* As long as nothing failed a taken file is written or in the hands of a  *)
(* worker, and no worker left before the channel was closed and drained.   *)
NoneLost ==
    haveError = 0 =>
        /\ spc \notin {"start", "single", "returned"} =>
             \A f \in 1..(Frontier - 1) :
                \/ f \in written
                \/ \E w \in Workers : wjob[w] = f /\ wpc[w] \in {"look", "flush", "count"}
        /\ \A w \in Workers : wpc[w] = "done" => closed /\ job = <<>>
        /\ \A w \in Workers : wpc[w] # "report"
        /\ res = <<>>

IInv ==
    /\ TypeOK
    /\ BeforePool
    /\ Phases
    /\ JobConsecutive
    /\ OnePlace
    /\ NoneLost
    /\ NilMeansAllWritten
    /\ ErrorIsOfUnwrittenFile
    /\ NoWriterLeft

-----------------------------------------------------------------------------
USE MaxFilesAssumption, WorkersAssumption

LEMMA InitIInv == Init => IInv
<1> SUFFICES ASSUME Init PROVE IInv
  OBVIOUS
<1>1. TypeOK
  <2>1. n \in 0..MaxFiles /\ next \in 1..(n + 1) /\ result \in 0..n  BY DEF Init
  <2>2. job \in Seq(Batch) /\ res \in Seq(Batch)  BY EmptySeq DEF Init
  <2>3. wpc \in [Workers -> {"idle", "recv", "look", "flush", "count", "report", "done"}]
    BY DEF Init
  <2>4. wjob \in [Workers -> 0..n]  BY DEF Init
  <2>5. QED  BY <2>1, <2>2, <2>3, <2>4 DEF Init, TypeOK
<1>2. BeforePool  BY DEF Init, BeforePool
<1>3. Phases  BY DEF Init, Phases
<1>4. JobConsecutive  BY DEF Init, JobConsecutive
<1>5. OnePlace  BY DEF Init, OnePlace, Holding
<1>6. NoneLost  BY DEF Init, NoneLost
<1>7. NilMeansAllWritten /\ ErrorIsOfUnwrittenFile /\ NoWriterLeft
  BY DEF Init, NilMeansAllWritten, ErrorIsOfUnwrittenFile, NoWriterLeft
<1>8. QED  BY <1>1, <1>2, <1>3, <1>4, <1>5, <1>6, <1>7 DEF IInv

(* The head of the channel is Frontier; taking it moves Frontier up. *)
LEMMA TakeFromJob ==
    ASSUME TypeOK, JobConsecutive, job # <<>>
    PROVE  /\ Head(job) = Frontier
           /\ Frontier \in 1..(next - 1)
           /\ Tail(job) \in Seq(Batch)
           /\ Len(Tail(job)) = Len(job) - 1
           /\ \A i \in 1..Len(Tail(job)) : Tail(job)[i] = job[i + 1]
<1>1. job \in Seq(Batch) /\ next \in Nat  BY DEF TypeOK
<1>2. Len(job) \in Nat \ {0}  BY <1>1, EmptySeq
<1>3. Head(job) = job[1]  BY <1>1
<1>4. job[1] = Frontier + 1 - 1  BY <1>2 DEF JobConsecutive
<1>5. Frontier \in 1..(next - 1)  BY <1>1, <1>2 DEF JobConsecutive, Frontier
<1>6. Head(job) = Frontier  BY <1>3, <1>4, <1>5
<1>7. QED  BY <1>1, <1>5, <1>6, HeadTailProperties

(* Every action keeps the types of the variables. *)
LEMMA TypeStep ==
    ASSUME TypeOK, Phases, OnePlace, JobConsecutive, [Next]_vars
    PROVE  TypeOK'
<1> USE DEF TypeOK, supplierVars, workerVars
<1>0. n' = n /\ Batch' = Batch
  BY DEF Batch, Next, vars, Supplier, Worker, FlushNothing, FlushSingle, ReturnSingle,
         StartPool, SupplierLooks, SupplierSends, CloseJob, WaitWorkers, Return, Recv,
         Look, FlushSucceeds, FlushFails, CountError, ReportError
<1>1. CASE FlushNothing  BY <1>0, <1>1 DEF FlushNothing
<1>2. CASE FlushSingle
  <2>1. written' \subseteq Batch' /\ result' \in 0..n'
    <3>1. n = 1 /\ 1 \in Batch  BY <1>2 DEF FlushSingle, Batch
    <3>2. written' \subseteq Batch  BY <1>2, <3>1 DEF FlushSingle
    <3>3. result' = result \/ result' = 1  BY <1>2 DEF FlushSingle
    <3>4. result' \in 0..n  BY <3>1, <3>3
    <3>5. QED  BY <1>0, <3>2, <3>4
  <2>2. spc' = "single" /\ UNCHANGED <<n, next, job, closed, haveError, res, wpc, wjob>>
    BY <1>2 DEF FlushSingle
  <2>3. QED  BY <1>0, <2>1, <2>2
<1>3. CASE ReturnSingle  BY <1>0, <1>3 DEF ReturnSingle
<1>4. CASE StartPool  BY <1>0, <1>4 DEF StartPool
<1>5. CASE SupplierLooks  BY <1>0, <1>5 DEF SupplierLooks
<1>6. CASE SupplierSends
  <2>1. next \in Batch /\ next' \in 1..(n' + 1)
    BY <1>0, <1>6 DEF SupplierSends, Phases, Batch
  <2>2. job' \in Seq(Batch')  BY <1>0, <1>6, <2>1 DEF SupplierSends
  <2>3. QED  BY <1>0, <1>6, <2>1, <2>2 DEF SupplierSends
<1>7. CASE CloseJob  BY <1>0, <1>7 DEF CloseJob
<1>8. CASE WaitWorkers  BY <1>0, <1>8 DEF WaitWorkers
<1>9. CASE Return
  <2>1. res' \in Seq(Batch')
    BY <1>0, <1>9, HeadTailProperties DEF Return
  <2>2. result' \in 0..n'
    BY <1>0, <1>9, HeadTailProperties DEF Return, Batch
  <2>3. QED  BY <1>0, <1>9, <2>1, <2>2 DEF Return
<1>10. ASSUME NEW w \in Workers, Recv(w) PROVE TypeOK'
  <2>1. job' \in Seq(Batch')
    BY <1>0, <1>10, TakeFromJob DEF Recv
  <2>2. wjob' \in [Workers -> 0..n']
    <3>1. CASE job # <<>>
      <4>1. Frontier \in 0..n'  BY <1>0, <3>1, TakeFromJob
      <4>2. wjob' = [wjob EXCEPT ![w] = Frontier]
        BY <1>10, <3>1, TakeFromJob DEF Recv
      <4>3. QED  BY <1>0, <4>1, <4>2
    <3>2. CASE job = <<>>  BY <1>0, <1>10, <3>2 DEF Recv
    <3>3. QED  BY <3>1, <3>2
  <2>3. QED  BY <1>0, <1>10, <2>1, <2>2 DEF Recv
<1>11. ASSUME NEW w \in Workers, Look(w) PROVE TypeOK'
  BY <1>0, <1>11 DEF Look
<1>12. ASSUME NEW w \in Workers, wpc[w] \in {"flush", "report"} PROVE wjob[w] \in Batch
  <2>1. wjob[w] \in 1..(Frontier - 1)  BY <1>12 DEF OnePlace, Holding
  <2>2. Frontier - 1 <= n /\ Frontier \in Int
    BY LenProperties DEF Frontier, JobConsecutive
  <2>3. QED  BY <2>1, <2>2 DEF Batch
<1>13. ASSUME NEW w \in Workers, FlushSucceeds(w) PROVE TypeOK'
  BY <1>0, <1>12, <1>13 DEF FlushSucceeds
<1>14. ASSUME NEW w \in Workers, FlushFails(w) PROVE TypeOK'
  BY <1>0, <1>14 DEF FlushFails
<1>15. ASSUME NEW w \in Workers, CountError(w) PROVE TypeOK'
  BY <1>0, <1>15 DEF CountError
<1>16. ASSUME NEW w \in Workers, ReportError(w) PROVE TypeOK'
  BY <1>0, <1>12, <1>16 DEF ReportError
<1>17. CASE UNCHANGED vars  BY <1>0, <1>17 DEF vars
<1>18. QED
  BY <1>1, <1>2, <1>3, <1>4, <1>5, <1>6, <1>7, <1>8, <1>9, <1>10, <1>11, <1>13,
     <1>14, <1>15, <1>16, <1>17 DEF Next, Supplier, Worker

-----------------------------------------------------------------------------
(* What the caller does preserves the rest of the invariant. *)
LEMMA SupplierStep ==
    ASSUME IInv, Supplier, TypeOK'
    PROVE  BeforePool' /\ Phases' /\ JobConsecutive' /\ OnePlace' /\ NoneLost'
           /\ NilMeansAllWritten' /\ ErrorIsOfUnwrittenFile' /\ NoWriterLeft'
<1> USE DEF IInv, supplierVars, workerVars
<1>0. Len(job) \in Nat /\ next \in Nat /\ Frontier \in Nat
  BY LenProperties DEF TypeOK, Frontier, JobConsecutive
<1>1. CASE FlushNothing
  <2>1. Batch = {}  BY <1>1 DEF FlushNothing, Batch
  <2>2. written = {} /\ result = 0  BY <1>1 DEF FlushNothing, BeforePool
  <2>3. QED
    BY <1>1, <2>1, <2>2 DEF FlushNothing, BeforePool, Phases, JobConsecutive, OnePlace,
       NoneLost, NilMeansAllWritten, ErrorIsOfUnwrittenFile, NoWriterLeft, Frontier, Holding, Batch
<1>2. CASE FlushSingle
  BY <1>2 DEF FlushSingle, BeforePool, Phases, JobConsecutive, OnePlace,
     NoneLost, NilMeansAllWritten, ErrorIsOfUnwrittenFile, NoWriterLeft, Frontier, Holding
<1>3. CASE ReturnSingle
  BY <1>3 DEF ReturnSingle, BeforePool, Phases, JobConsecutive, OnePlace, Batch,
     NoneLost, NilMeansAllWritten, ErrorIsOfUnwrittenFile, NoWriterLeft, Frontier, Holding
<1>4. CASE StartPool
  BY <1>4 DEF StartPool, BeforePool, Phases, JobConsecutive, OnePlace, TypeOK,
     NoneLost, NilMeansAllWritten, ErrorIsOfUnwrittenFile, NoWriterLeft, Frontier, Holding
<1>5. CASE SupplierLooks
  BY <1>5 DEF SupplierLooks, StopSupply, BeforePool, Phases, JobConsecutive, OnePlace,
     TypeOK, NoneLost, NilMeansAllWritten, ErrorIsOfUnwrittenFile, NoWriterLeft, Frontier, Holding
<1>6. CASE SupplierSends
  <2>1. job' = Append(job, next) /\ next' = next + 1 /\ Len(job') = Len(job) + 1
    BY <1>6 DEF SupplierSends, TypeOK
  <2>2. Frontier' = Frontier  BY <1>0, <2>1 DEF Frontier
  <2>3. JobConsecutive'
    <3>1. ASSUME NEW i \in 1..Len(job') PROVE job'[i] = Frontier + i - 1
      <4>1. CASE i = Len(job) + 1  BY <1>0, <2>1, <4>1 DEF TypeOK, Frontier
      <4>2. CASE i \in 1..Len(job)
        BY <1>0, <2>1, <4>2 DEF TypeOK, JobConsecutive
      <4>3. QED  BY <1>0, <2>1, <4>1, <4>2
    <3>2. Len(job') < next'  BY <1>0, <2>1 DEF JobConsecutive
    <3>3. QED  BY <2>2, <3>1, <3>2 DEF JobConsecutive
  <2>4. OnePlace' /\ NoneLost' /\ BeforePool' /\ Phases'
    BY <1>6, <2>2 DEF SupplierSends, OnePlace, NoneLost, BeforePool, Phases, Holding, TypeOK
  <2>5. QED
    BY <1>6, <2>3, <2>4 DEF SupplierSends, NilMeansAllWritten, ErrorIsOfUnwrittenFile,
       NoWriterLeft
<1>7. CASE CloseJob
  BY <1>7 DEF CloseJob, BeforePool, Phases, JobConsecutive, OnePlace, TypeOK,
     NoneLost, NilMeansAllWritten, ErrorIsOfUnwrittenFile, NoWriterLeft, Frontier, Holding
<1>8. CASE WaitWorkers
  BY <1>8 DEF WaitWorkers, BeforePool, Phases, JobConsecutive, OnePlace, TypeOK, AllDone,
     NoneLost, NilMeansAllWritten, ErrorIsOfUnwrittenFile, NoWriterLeft, Frontier, Holding
<1>9. CASE Return
  <2>1. AllDone /\ result = 0  BY <1>9 DEF Return, Phases
  <2>2. \A w \in Workers : ~Holding(w)  BY <2>1 DEF AllDone, Holding
  <2>3. NilMeansAllWritten'
    <3>1. SUFFICES ASSUME result' = 0 PROVE written' = Batch'
      BY DEF NilMeansAllWritten
    <3>2. haveError = 0
      BY <1>9, <3>1 DEF Return, OnePlace, TypeOK
    <3>3. next = n + 1  BY <1>9, <3>2 DEF Return, Phases
    <3>4. job = <<>>  BY <2>1, <3>2 DEF AllDone, NoneLost
    <3>5. Frontier = n + 1  BY <3>3, <3>4 DEF Frontier, TypeOK
    <3>6. \A f \in 1..n : f \in written
      BY <1>9, <2>1, <3>2, <3>5 DEF Return, AllDone, NoneLost, TypeOK
    <3>7. QED  BY <1>9, <3>6 DEF Return, Batch, TypeOK
  <2>4. ErrorIsOfUnwrittenFile'
    <3>1. SUFFICES ASSUME result' # 0 PROVE result' \notin written'
      BY DEF ErrorIsOfUnwrittenFile
    <3>2. res # <<>> /\ result' = Head(res) /\ written' = written
      BY <1>9, <2>1, <3>1 DEF Return
    <3>3. Len(res) \in Nat \ {0} /\ Head(res) = res[1]
      BY <3>2, EmptySeq DEF TypeOK
    <3>4. QED  BY <3>2, <3>3 DEF OnePlace
  <2>5. BeforePool' /\ Phases'
    BY <1>9 DEF Return, BeforePool, Phases
  <2>6. JobConsecutive'  BY <1>9 DEF Return, JobConsecutive, Frontier
  <2>7. OnePlace'
    <3>1. \A i \in 1..Len(res') : res'[i] \in 1..(Frontier - 1) /\ res'[i] \notin written
      <4>1. CASE res' = res  BY <4>1 DEF OnePlace
      <4>2. CASE res # <<>> /\ res' = Tail(res)
        <5>1. Len(res) \in Nat /\ Len(res') = Len(res) - 1
              /\ \A i \in 1..Len(res') : res'[i] = res[i + 1]
          BY <4>2, HeadTailProperties, LenProperties DEF TypeOK
        <5>2. \A i \in 1..Len(res') : i + 1 \in 1..Len(res)  BY <5>1
        <5>3. QED  BY <5>1, <5>2 DEF OnePlace
      <4>3. QED  BY <1>9, <4>1, <4>2 DEF Return
    <3>2. QED  BY <1>9, <2>2, <3>1 DEF Return, OnePlace, Holding, Frontier
  <2>8. NoneLost'  BY <1>9 DEF Return, NoneLost
  <2>9. NoWriterLeft'  BY <1>9, <2>1 DEF Return, AllDone, NoWriterLeft
  <2>10. QED  BY <2>3, <2>4, <2>5, <2>6, <2>7, <2>8, <2>9
<1>10. QED
  BY <1>1, <1>2, <1>3, <1>4, <1>5, <1>6, <1>7, <1>8, <1>9 DEF Supplier

(* What a worker does preserves the rest of the invariant.                 *)
LEMMA WorkerStep ==
    ASSUME IInv, NEW w \in Workers, Worker(w), TypeOK'
    PROVE  BeforePool' /\ Phases' /\ JobConsecutive' /\ OnePlace' /\ NoneLost'
           /\ NilMeansAllWritten' /\ ErrorIsOfUnwrittenFile' /\ NoWriterLeft'
<1> USE DEF IInv, supplierVars, workerVars
<1>0. Len(job) \in Nat /\ next \in Nat /\ Frontier \in Nat
  BY LenProperties DEF TypeOK, Frontier, JobConsecutive
<1>1. UNCHANGED <<spc, n, next, closed, result>>
  BY DEF Worker, Recv, Look, FlushSucceeds, FlushFails, CountError, ReportError
<1>2. wpc[w] \in {"recv", "look", "flush", "count", "report"}
  BY DEF Worker, Recv, Look, FlushSucceeds, FlushFails, CountError, ReportError
<1>3. spc \in {"look", "send", "close", "wait"}
  BY <1>2 DEF TypeOK, BeforePool, Phases, AllDone, NoWriterLeft
<1>4. BeforePool' /\ NilMeansAllWritten' /\ ErrorIsOfUnwrittenFile' /\ NoWriterLeft'
  BY <1>1, <1>3 DEF BeforePool, NilMeansAllWritten, ErrorIsOfUnwrittenFile, NoWriterLeft
<1>5. Phases'
  <2>1. haveError' = 0 => haveError = 0
    BY DEF TypeOK, Worker, Recv, Look, FlushSucceeds, FlushFails, CountError, ReportError
  <2>2. QED  BY <1>1, <1>3, <2>1 DEF Phases
<1>6. CASE Recv(w) /\ job # <<>>
  <2>1. /\ Len(job') = Len(job) - 1
        /\ \A i \in 1..Len(job') : job'[i] = job[i + 1]
        /\ wjob' = [wjob EXCEPT ![w] = Frontier]
        /\ wpc' = [wpc EXCEPT ![w] = "look"]
        /\ UNCHANGED <<written, res, haveError>>
    BY <1>6, TakeFromJob DEF Recv
  <2>2. Frontier' = Frontier + 1 /\ Frontier \in 1..(next - 1)
    BY <1>0, <1>1, <1>6, <2>1, TakeFromJob DEF Frontier
  <2>3. JobConsecutive'
    <3>1. Len(job') < next'  BY <1>0, <1>1, <2>1 DEF JobConsecutive
    <3>2. ASSUME NEW i \in 1..Len(job') PROVE job'[i] = Frontier' + i - 1
      <4>1. i + 1 \in 1..Len(job)  BY <1>0, <2>1
      <4>2. job[i + 1] = Frontier + (i + 1) - 1  BY <4>1 DEF JobConsecutive
      <4>3. QED  BY <1>0, <2>1, <2>2, <4>2
    <3>3. QED  BY <3>1, <3>2 DEF JobConsecutive
  <2>4. wjob'[w] = Frontier
        /\ \A v \in Workers : v # w => wjob'[v] = wjob[v] /\ (Holding(v)' <=> Holding(v))
    BY <2>1 DEF TypeOK, Holding
  <2>5. Frontier \notin written
    BY <1>0, <1>3, <2>2 DEF OnePlace
  <2>6. OnePlace'
    BY <1>0, <1>1, <1>3, <2>1, <2>2, <2>4, <2>5 DEF OnePlace
  <2>7. NoneLost'
    <3>1. wpc[w] = "recv" /\ wpc'[w] = "look" /\ \A v \in Workers : v # w => wpc'[v] = wpc[v]
      BY <1>6, <2>1 DEF Recv, TypeOK
    <3>2. SUFFICES ASSUME haveError = 0 PROVE NoneLost'
      BY <2>1 DEF NoneLost
    <3>3. \A v \in Workers : wpc'[v] # "done" /\ wpc'[v] # "report"
      BY <1>6, <3>1, <3>2 DEF NoneLost
    <3>4. ASSUME NEW f \in 1..(Frontier' - 1)
          PROVE  \/ f \in written'
                 \/ \E v \in Workers : wjob'[v] = f /\ wpc'[v] \in {"look", "flush", "count"}
      <4>1. CASE f = Frontier  BY <2>4, <3>1, <4>1
      <4>2. CASE f \in 1..(Frontier - 1)
        <5>1. \/ f \in written
              \/ \E v \in Workers : wjob[v] = f /\ wpc[v] \in {"look", "flush", "count"}
          BY <1>3, <3>2, <4>2 DEF NoneLost
        <5>2. QED  BY <2>1, <2>4, <3>1, <5>1
      <4>3. QED  BY <1>0, <2>2, <4>1, <4>2
    <3>5. closed' = closed /\ res' = <<>>  BY <1>1, <2>1, <3>2 DEF NoneLost
    <3>6. QED  BY <3>3, <3>4, <3>5 DEF NoneLost
  <2>8. QED  BY <1>4, <1>5, <2>3, <2>6, <2>7
<1>7. CASE UNCHANGED job /\ ~(Recv(w) /\ job # <<>>)
  <2>1. JobConsecutive' /\ Frontier' = Frontier
    BY <1>1, <1>7 DEF JobConsecutive, Frontier
  <2>2. CASE Recv(w)
    <3>1. OnePlace'
      BY <1>1, <1>7, <2>1, <2>2 DEF Recv, OnePlace, Holding, TypeOK
    <3>2. job = <<>> /\ closed /\ wpc' = [wpc EXCEPT ![w] = "done"]
          /\ UNCHANGED <<job, wjob, written, res, haveError>> /\ wpc[w] = "recv"
      BY <1>7, <2>2 DEF Recv
    <3>3. NoneLost'
      BY <1>1, <1>3, <2>1, <3>2 DEF NoneLost, TypeOK
    <3>4. QED  BY <1>4, <1>5, <2>1, <3>1, <3>3
  <2>3. CASE Look(w)
    <3>1. OnePlace'  BY <1>1, <2>1, <2>3 DEF Look, OnePlace, Holding, TypeOK
    <3>2. NoneLost'  BY <1>1, <2>1, <2>3 DEF Look, NoneLost, TypeOK
    <3>3. QED  BY <1>4, <1>5, <2>1, <3>1, <3>2
  <2>4. CASE FlushSucceeds(w)
    <3>1. OnePlace'  BY <1>0, <1>1, <2>1, <2>4 DEF FlushSucceeds, OnePlace, Holding, TypeOK
    <3>2. NoneLost'  BY <1>1, <2>1, <2>4 DEF FlushSucceeds, NoneLost, TypeOK
    <3>3. QED  BY <1>4, <1>5, <2>1, <3>1, <3>2
  <2>5. CASE FlushFails(w)
    <3>1. OnePlace'  BY <1>1, <2>1, <2>5 DEF FlushFails, OnePlace, Holding, TypeOK
    <3>2. NoneLost'  BY <1>1, <2>1, <2>5 DEF FlushFails, NoneLost, TypeOK
    <3>3. QED  BY <1>4, <1>5, <2>1, <3>1, <3>2
  <2>6. CASE CountError(w)
    <3>1. OnePlace'  BY <1>1, <2>1, <2>6 DEF CountError, OnePlace, Holding, TypeOK
    <3>2. haveError' # 0  BY <2>6 DEF CountError, TypeOK
    <3>3. NoneLost'  BY <3>2 DEF NoneLost
    <3>4. QED  BY <1>4, <1>5, <2>1, <3>1, <3>3
  <2>7. CASE ReportError(w)
    <3>1. OnePlace'
      <4>1. /\ Len(res') = Len(res) + 1
            /\ \A i \in 1..Len(res') : res'[i] = IF i <= Len(res) THEN res[i] ELSE wjob[w]
        BY <2>7, LenProperties DEF ReportError, TypeOK
      <4>2. Holding(w) /\ ~Holding(w)'
        BY <2>7 DEF ReportError, Holding, TypeOK
      <4>3. \A v \in Workers : v # w => (Holding(v)' <=> Holding(v))
        BY <2>7 DEF ReportError, Holding, TypeOK
      <4>4. Len(res) \in Nat /\ UNCHANGED <<wjob, written, spc>>
        BY <1>1, <2>7, LenProperties DEF ReportError, TypeOK
      <4>5. \A v \in Workers : Holding(v)' => Holding(v) /\ v # w  BY <4>2, <4>3
      <4>6. ASSUME NEW i \in 1..Len(res')
            PROVE  /\ res'[i] \in 1..(Frontier - 1) /\ res'[i] \notin written
                   /\ \A v \in Workers : Holding(v)' => wjob[v] # res'[i]
        <5>1. CASE i \in 1..Len(res)  BY <4>1, <4>5, <5>1 DEF OnePlace
        <5>2. CASE i = Len(res) + 1  BY <4>1, <4>2, <4>4, <4>5, <5>2 DEF OnePlace
        <5>3. QED  BY <4>1, <4>4, <5>1, <5>2
      <4>7. QED  BY <2>1, <4>4, <4>5, <4>6 DEF OnePlace
    <3>2. wpc[w] = "report" /\ haveError' = haveError  BY <2>7 DEF ReportError
    <3>3. haveError' # 0  BY <3>2 DEF NoneLost
    <3>4. NoneLost'  BY <3>3 DEF NoneLost
    <3>5. QED  BY <1>4, <1>5, <2>1, <3>1, <3>4
  <2>8. QED  BY <2>2, <2>3, <2>4, <2>5, <2>6, <2>7 DEF Worker
<1>8. QED
  BY <1>6, <1>7 DEF Worker, Recv, Look, FlushSucceeds, FlushFails, CountError, ReportError

LEMMA StepIInv == IInv /\ [Next]_vars => IInv'
<1> SUFFICES ASSUME IInv, [Next]_vars PROVE IInv'
  OBVIOUS
<1>1. TypeOK'  BY TypeStep DEF IInv
<1>2. CASE Supplier  BY <1>1, <1>2, SupplierStep DEF IInv
<1>3. ASSUME NEW w \in Workers, Worker(w) PROVE IInv'
  BY <1>1, <1>3, WorkerStep DEF IInv
<1>4. CASE UNCHANGED vars
  BY <1>1, <1>4 DEF vars, IInv, BeforePool, Phases, JobConsecutive, OnePlace, NoneLost,
     NilMeansAllWritten, ErrorIsOfUnwrittenFile, NoWriterLeft, Frontier, Holding,
     AllDone, Batch
<1>5. QED  BY <1>2, <1>3, <1>4 DEF Next

LEMMA Inductive == Spec => []IInv
<1>1. QED  BY InitIInv, StepIInv, PTL DEF Spec

-----------------------------------------------------------------------------
(* Type correctness of the pool, for every batch and every set of workers. *)
THEOREM PoolTypes == Spec => []TypeOK
<1>1. IInv => TypeOK  BY DEF IInv
<1>2. QED  BY <1>1, Inductive, PTL

(* A nil result of flushData, flushImages and flushXHTML means that every  *)
(* file of the batch is on the disk, whatever the goroutines did meanwhile.*)
THEOREM NilIsComplete == Spec => []NilMeansAllWritten
<1>1. IInv => NilMeansAllWritten  BY DEF IInv
<1>2. QED  BY <1>1, Inductive, PTL

(* The error the caller gets is the error of a file that is not written.   *)
THEOREM ErrorIsGenuine == Spec => []ErrorIsOfUnwrittenFile
<1>1. IInv => ErrorIsOfUnwrittenFile  BY DEF IInv
<1>2. QED  BY <1>1, Inductive, PTL

(* No goroutine of the call is still writing when the call has returned.   *)
THEOREM WritersAreGone == Spec => []NoWriterLeft
<1>1. IInv => NoWriterLeft  BY DEF IInv
<1>2. QED  BY <1>1, Inductive, PTL

(* What the three calls report is true when they return, and stays so.     *)
THEOREM ResultIsAlwaysTrue == Spec => []ResultIsTrue
<1>1. IInv => ResultIsTrue  BY DEF IInv, ResultIsTrue
<1>2. QED  BY <1>1, Inductive, PTL

-----------------------------------------------------------------------------
(* Where the file f of the batch is, as NoFileLost counts it. *)
Accounted(f) ==
    \/ f \in written
    \/ f \in {job[i] : i \in 1..Len(job)}
    \/ \E w \in Workers : wjob[w] = f /\ wpc[w] \in {"look", "flush", "count"}
    \/ haveError # 0

InCall == spc # "returned"

(* Until the call returns the files are where NoneLost and JobConsecutive  *)
(* say: below Frontier with the workers, from Frontier on in the channel.  *)
LEMMA AccountedBeforeReturn ==
    ASSUME IInv, InCall
    PROVE  NoFileLost
<1> SUFFICES ASSUME NEW f \in 1..(next - 1) PROVE Accounted(f)
  BY DEF NoFileLost, Accounted
<1> USE DEF IInv
<1>1. next \in Nat /\ Len(job) \in Nat /\ f \in Nat  BY LenProperties DEF TypeOK
<1>2. spc \notin {"start", "single", "returned"}  BY <1>1 DEF BeforePool, InCall
<1>3. CASE haveError # 0  BY <1>3 DEF Accounted
<1>4. CASE haveError = 0 /\ f < Frontier
  <2>1. f \in 1..(Frontier - 1)  BY <1>1, <1>4 DEF Frontier
  <2>2. QED  BY <1>2, <1>4, <2>1 DEF NoneLost, Accounted
<1>5. CASE f >= Frontier
  <2>1. f - Frontier + 1 \in 1..Len(job)  BY <1>1, <1>5 DEF Frontier
  <2>2. job[f - Frontier + 1] = f  BY <1>1, <2>1 DEF JobConsecutive, Frontier
  <2>3. QED  BY <2>1, <2>2 DEF Accounted
<1>6. QED  BY <1>1, <1>3, <1>4, <1>5 DEF Frontier

(* The steps into the returned state, and after it. *)
LEMMA AccountedStep ==
    ASSUME IInv, IInv', NoFileLost, [Next]_vars, ~InCall'
    PROVE  NoFileLost'
<1> USE DEF supplierVars, workerVars
<1>2. CASE FlushNothing \/ ReturnSingle
  <2>1. next = 1 /\ next' = next
    BY <1>2 DEF FlushNothing, ReturnSingle, IInv, BeforePool
  <2>2. QED  BY <2>1 DEF NoFileLost
<1>3. CASE Return
  <2>1. haveError' = haveError /\ next' = next /\ n' = n /\ spc' = "returned"
    BY <1>3 DEF Return
  <2>2. CASE haveError # 0  BY <2>1, <2>2 DEF NoFileLost
  <2>3. CASE haveError = 0
    <3>1. result' = 0  BY <1>3, <2>3 DEF Return, IInv, Phases
    <3>2. written' = Batch'  BY <2>1, <3>1 DEF IInv, NilMeansAllWritten
    <3>3. \A f \in 1..(next' - 1) : f \in Batch'
      BY <2>1 DEF IInv, TypeOK, Batch
    <3>4. QED  BY <3>2, <3>3 DEF NoFileLost
  <2>4. QED  BY <2>2, <2>3
<1>4. CASE spc = "returned"
  <2>1. UNCHANGED vars
    BY <1>4 DEF IInv, NoWriterLeft, Next, Supplier, Worker, FlushNothing, FlushSingle,
       ReturnSingle, StartPool, SupplierLooks, SupplierSends, CloseJob, WaitWorkers,
       Return, Recv, Look, FlushSucceeds, FlushFails, CountError, ReportError
  <2>2. QED  BY <2>1 DEF NoFileLost, vars
<1>5. CASE spc # "returned" /\ spc' = "returned"
  <2>1. FlushNothing \/ ReturnSingle \/ Return
    BY <1>5 DEF Next, Supplier, Worker, vars, FlushSingle, StartPool, SupplierLooks,
       SupplierSends, CloseJob, WaitWorkers, Recv, Look, FlushSucceeds, FlushFails,
       CountError, ReportError
  <2>2. QED  BY <1>2, <1>3, <2>1
<1>6. QED  BY <1>4, <1>5 DEF InCall

(* A file the supplier has handed out is on the disk, in the channel or in *)
(* the hands of a worker, in every state, unless some flush has failed:    *)
(* no interleaving of the goroutines drops one on the way.                 *)
THEOREM NoFileIsLost == Spec => []NoFileLost
<1>1. Init => NoFileLost  BY DEF Init, NoFileLost
<1>2. IInv /\ InCall => NoFileLost  BY AccountedBeforeReturn
<1>3. IInv /\ IInv' /\ NoFileLost /\ [Next]_vars /\ ~InCall' => NoFileLost'
  BY AccountedStep
<1>4. QED  BY <1>1, <1>2, <1>3, Inductive, PTL DEF Spec

-----------------------------------------------------------------------------
(* Two errors on the channel are the errors of two files. *)
ErrorsDistinct == \A i, j \in 1..Len(res) : i # j => res[i] # res[j]

LEMMA DistinctStep ==
    ASSUME IInv, ErrorsDistinct, [Next]_vars
    PROVE  ErrorsDistinct'
<1> USE DEF supplierVars, workerVars
<1>1. res \in Seq(Batch) /\ Len(res) \in Nat  BY LenProperties DEF IInv, TypeOK
<1>2. CASE res' = res  BY <1>2 DEF ErrorsDistinct
<1>3. CASE Return /\ res' # res
  <2>1. res # <<>> /\ res' = Tail(res)  BY <1>3 DEF Return
  <2>2. Len(res') = Len(res) - 1 /\ \A i \in 1..Len(res') : res'[i] = res[i + 1]
    BY <1>1, <2>1, HeadTailProperties
  <2>3. \A i \in 1..Len(res') : i + 1 \in 1..Len(res)  BY <1>1, <2>2
  <2>4. \A i, j \in 1..Len(res') : i # j => i + 1 # j + 1  BY <1>1, <2>2
  <2>5. QED  BY <2>2, <2>3, <2>4 DEF ErrorsDistinct
<1>4. ASSUME NEW w \in Workers, ReportError(w) PROVE ErrorsDistinct'
  <2>1. wpc[w] = "report" /\ res' = Append(res, wjob[w])  BY <1>4 DEF ReportError
  <2>2. /\ Len(res') = Len(res) + 1
        /\ \A i \in 1..Len(res') : res'[i] = IF i <= Len(res) THEN res[i] ELSE wjob[w]
    BY <1>1, <2>1 DEF IInv, TypeOK
  <2>3. \A i \in 1..Len(res) : res[i] # wjob[w]  BY <2>1 DEF IInv, OnePlace, Holding
  <2>4. QED  BY <1>1, <2>2, <2>3 DEF ErrorsDistinct
<1>5. QED
  BY <1>2, <1>3, <1>4 DEF Next, Supplier, Worker, vars, FlushNothing, FlushSingle,
     ReturnSingle, StartPool, SupplierLooks, SupplierSends, CloseJob, WaitWorkers,
     Return, Recv, Look, FlushSucceeds, FlushFails, CountError

(* Distinct numbers from 1..k, all different from one of them, are fewer   *)
(* than k.                                                                 *)
LEMMA FewerThanAll ==
    ASSUME NEW k \in Nat, NEW s \in Seq(1..k), NEW x \in 1..k,
           \A i, j \in 1..Len(s) : i # j => s[i] # s[j],
           \A i \in 1..Len(s) : s[i] # x
    PROVE  Len(s) < k
<1> DEFINE others == (1..k) \ {x}
<1>1. Len(s) \in Nat  BY LenProperties
<1>2. IsFiniteSet(1..k) /\ Cardinality(1..k) = k  BY FS_Interval
<1>3. IsFiniteSet(others) /\ Cardinality(others) = k - 1
  BY <1>2, FS_RemoveElement
<1>4. s \in [1..Len(s) -> 1..k]  BY LenProperties
<1>5. s \in [1..Len(s) -> others]  BY <1>4
<1>6. s \in Injection(1..Len(s), others)  BY <1>5 DEF Injection, IsInjective
<1>7. Cardinality(1..Len(s)) <= Cardinality(others)  BY <1>3, <1>6, FS_Injection
<1>8. Cardinality(1..Len(s)) = Len(s)
  <2>1. \A m \in Nat : Cardinality(1..m) = m  BY FS_Interval
  <2>2. QED  BY <1>1, <2>1
<1>9. QED  BY <1>1, <1>3, <1>7, <1>8

(* The send "res <- err" of a worker never blocks: at most one error per   *)
(* file is sent, the worker that is about to send has the error of yet     *)
(* another file, and the channel has room for the whole batch.             *)
THEOREM ReportIsNeverBlocked == Spec => []ReportNeverBlocks
<1>1. Init => ErrorsDistinct  BY DEF Init, ErrorsDistinct
<1>2. IInv /\ ErrorsDistinct /\ [Next]_vars => ErrorsDistinct'  BY DistinctStep
<1>3. IInv /\ ErrorsDistinct => ReportNeverBlocks
  <2> SUFFICES ASSUME IInv, ErrorsDistinct, NEW w \in Workers, wpc[w] = "report"
               PROVE  Len(res) < n
    BY DEF ReportNeverBlocks, ResRoom
  <2>1. n \in Nat /\ next \in 1..(n + 1) /\ Len(job) \in Nat
    BY LenProperties, MaxFilesAssumption DEF IInv, TypeOK
  <2>2. res \in Seq(1..n)  BY DEF IInv, TypeOK, Batch
  <2>3. wjob[w] \in 1..(Frontier - 1)  BY DEF IInv, OnePlace, Holding
  <2>4. wjob[w] \in 1..n  BY <2>1, <2>3 DEF Frontier
  <2>5. \A i \in 1..Len(res) : res[i] # wjob[w]  BY DEF IInv, OnePlace, Holding
  <2>6. QED  BY <2>1, <2>2, <2>4, <2>5, FewerThanAll DEF ErrorsDistinct
<1>4. QED  BY <1>1, <1>2, <1>3, Inductive, PTL DEF Spec

-----------------------------------------------------------------------------
(* Refinement.  A file in the hands of a worker about to flush it has not  *)
(* been dealt with: neither written nor failed.                            *)
LEMMA FlushedOnce ==
    ASSUME IInv, NEW w \in Workers, wpc[w] = "flush"
    PROVE  wjob[w] \in Batch /\ wjob[w] \notin written \union FailedFiles
<1> USE DEF IInv
<1>1. wjob[w] \in 1..(Frontier - 1) /\ wjob[w] \notin written  BY DEF OnePlace, Holding
<1>2. wjob[w] \in Batch
  BY <1>1, LenProperties DEF TypeOK, Frontier, JobConsecutive, Batch
<1>3. result = 0
  BY DEF TypeOK, BeforePool, Phases, NoWriterLeft
<1>4. \A v \in Workers : wpc[v] \in {"count", "report"} => wjob[v] # wjob[w]
  BY DEF OnePlace, Holding
<1>5. \A i \in 1..Len(res) : res[i] # wjob[w]  BY DEF OnePlace, Holding
<1>6. QED  BY <1>1, <1>2, <1>3, <1>4, <1>5 DEF FailedFiles

LEMMA InitContract == Init => Contract!AbsInit
<1> SUFFICES ASSUME Init PROVE Contract!AbsInit
  OBVIOUS
<1>1. FailedFiles = {}  BY DEF Init, FailedFiles
<1>2. QED  BY <1>1 DEF Init, Contract!AbsInit

(* A step that ends the call returns nil or the error of a failed file.    *)
LEMMA ReturnContract ==
    ASSUME IInv, Return
    PROVE  Contract!AbsNext
<1> USE DEF IInv
<1>1. result = 0 /\ AllDone  BY DEF Return, Phases
<1>2. spc = "return" /\ spc' = "returned" /\ UNCHANGED <<n, wpc, wjob, written>>
  BY DEF Return
<1>3. \A w \in Workers : wpc[w] \notin {"count", "report"}  BY <1>1 DEF AllDone
<1>4. FailedFiles = {res[i] : i \in 1..Len(res)}  BY <1>1, <1>3 DEF FailedFiles
<1>5. CASE haveError = 0
  <2>1. res = <<>> /\ res' = res /\ result' = 0
    BY <1>1, <1>5 DEF Return, NoneLost
  <2>2. FailedFiles = {}  BY <1>4, <2>1
  <2>3. FailedFiles' = {}  BY <1>2, <1>3, <2>1 DEF FailedFiles
  <2>4. next = n + 1 /\ job = <<>>
    BY <1>1, <1>2, <1>5 DEF Phases, AllDone, NoneLost, TypeOK
  <2>5. Frontier = n + 1  BY <2>4 DEF Frontier, TypeOK
  <2>6. \A f \in 1..n : f \in written
    BY <1>1, <1>2, <1>5, <2>5 DEF NoneLost, AllDone, TypeOK
  <2>7. written = Batch  BY <2>6 DEF TypeOK, Batch
  <2>8. Contract!ReturnNil
    BY <1>2, <2>1, <2>2, <2>3, <2>7 DEF Contract!ReturnNil, Batch
  <2>9. QED  BY <2>8 DEF Contract!AbsNext
<1>6. CASE haveError # 0
  <2>1. res # <<>> /\ result' = Head(res) /\ res' = Tail(res)
    BY <1>6 DEF Return
  <2>2. /\ Len(res) \in Nat \ {0} /\ Head(res) = res[1]
        /\ Len(res') = Len(res) - 1 /\ \A i \in 1..Len(res') : res'[i] = res[i + 1]
    BY <2>1, EmptySeq, HeadTailProperties DEF TypeOK
  <2>3. Head(res) # 0  BY <2>2, LenProperties DEF OnePlace, TypeOK, Frontier, JobConsecutive
  <2>4. FailedFiles' = {res'[i] : i \in 1..Len(res')} \union {res[1]}
    BY <1>2, <1>3, <2>1, <2>2, <2>3 DEF FailedFiles
  <2>5. FailedFiles' = FailedFiles
    <3>1. ASSUME NEW f \in FailedFiles PROVE f \in FailedFiles'
      <4>1. PICK i \in 1..Len(res) : f = res[i]  BY <1>4
      <4>2. CASE i = 1  BY <2>4, <4>1, <4>2
      <4>3. CASE i # 1
        <5>1. i - 1 \in 1..Len(res') /\ res'[i - 1] = res[i]  BY <2>2, <4>1, <4>3
        <5>2. QED  BY <2>4, <4>1, <5>1
      <4>4. QED  BY <4>2, <4>3
    <3>2. ASSUME NEW f \in FailedFiles' PROVE f \in FailedFiles
      <4>1. CASE f = res[1]  BY <1>4, <2>2, <4>1
      <4>2. CASE \E i \in 1..Len(res') : f = res'[i]
        <5>1. PICK i \in 1..Len(res') : f = res'[i]  BY <4>2
        <5>2. i + 1 \in 1..Len(res) /\ f = res[i + 1]  BY <2>2, <5>1
        <5>3. QED  BY <1>4, <5>2
      <4>3. QED  BY <2>4, <4>1, <4>2
    <3>3. QED  BY <3>1, <3>2
  <2>6. Contract!ReturnError
    BY <1>2, <1>4, <2>1, <2>2, <2>5 DEF Contract!ReturnError, Batch
  <2>7. QED  BY <2>6 DEF Contract!AbsNext
<1>7. QED  BY <1>5, <1>6

(* Every step of the pool is a step of the contract or changes nothing it  *)
(* can see.                                                                *)
LEMMA StepContract ==
    ASSUME IInv, [Next]_vars
    PROVE  [Contract!AbsNext]_(Contract!absVars)
<1> USE DEF supplierVars, workerVars
<1>1. CASE FlushNothing
  <2>1. Batch = {} /\ FailedFiles = {}
    BY <1>1 DEF IInv, BeforePool, FlushNothing, FailedFiles, Batch
  <2>2. FailedFiles' = FailedFiles  BY <1>1 DEF FlushNothing, FailedFiles
  <2>3. Contract!ReturnNil
    BY <1>1, <2>1, <2>2 DEF IInv, BeforePool, FlushNothing, Contract!ReturnNil, Batch
  <2>4. QED  BY <2>3 DEF Contract!AbsNext
<1>2. CASE FlushSingle
  <2>1. Batch = {1} /\ FailedFiles = {} /\ written = {} /\ result = 0
    BY <1>2 DEF IInv, BeforePool, FlushSingle, FailedFiles, Batch
  <2>2. UNCHANGED <<n, wpc, wjob, res>> /\ spc = "start" /\ spc' = "single"
    BY <1>2 DEF FlushSingle
  <2>3. CASE written' = {1} /\ result' = result
    <3>1. FailedFiles' = FailedFiles  BY <2>2, <2>3 DEF FailedFiles
    <3>2. Contract!Write(1)
      BY <2>1, <2>2, <2>3, <3>1 DEF Contract!Write, Batch
    <3>3. QED  BY <2>1, <3>2 DEF Contract!AbsNext
  <2>4. CASE result' = 1 /\ written' = written
    <3>1. FailedFiles' = FailedFiles \union {1}
      BY <2>1, <2>2, <2>4 DEF FailedFiles
    <3>2. Contract!Fail(1)
      BY <2>1, <2>2, <2>4, <3>1 DEF Contract!Fail, Batch
    <3>3. QED  BY <2>1, <3>2 DEF Contract!AbsNext
  <2>5. QED  BY <1>2, <2>3, <2>4 DEF FlushSingle
<1>3. CASE ReturnSingle
  <2>1. FailedFiles' = FailedFiles /\ UNCHANGED <<n, written, result>>
        /\ spc = "single" /\ spc' = "returned"
    BY <1>3 DEF ReturnSingle, FailedFiles
  <2>2. Batch = {1}  BY <2>1 DEF IInv, BeforePool, Batch
  <2>3. CASE written = {1} /\ result = 0
    <3>1. FailedFiles = {}  BY <2>1, <2>3 DEF IInv, BeforePool, FailedFiles
    <3>2. Contract!ReturnNil
      BY <2>1, <2>2, <2>3, <3>1 DEF Contract!ReturnNil, Batch
    <3>3. QED  BY <3>2 DEF Contract!AbsNext
  <2>4. CASE written = {} /\ result = 1
    <3>1. 1 \in FailedFiles  BY <2>4 DEF FailedFiles
    <3>2. Contract!ReturnError
      BY <2>1, <2>4, <3>1 DEF Contract!ReturnError, Batch
    <3>3. QED  BY <3>2 DEF Contract!AbsNext
  <2>5. QED  BY <2>1, <2>3, <2>4 DEF IInv, BeforePool
<1>4. CASE Return
  BY <1>4, ReturnContract
<1>5. CASE StartPool
  <2>1. FailedFiles' = FailedFiles
    BY <1>5 DEF StartPool, FailedFiles, IInv, BeforePool
  <2>2. QED  BY <1>5, <2>1 DEF StartPool, Contract!absVars, Batch
<1>6. CASE SupplierLooks \/ SupplierSends \/ CloseJob \/ WaitWorkers
  <2>1. FailedFiles' = FailedFiles /\ UNCHANGED <<n, written, result>>
        /\ spc # "returned" /\ spc' # "returned"
    BY <1>6 DEF SupplierLooks, SupplierSends, CloseJob, WaitWorkers, FailedFiles
  <2>2. QED  BY <2>1 DEF Contract!absVars, Batch
<1>7. ASSUME NEW w \in Workers, Worker(w) PROVE [Contract!AbsNext]_(Contract!absVars)
  <2>1. UNCHANGED <<n, spc, result>> /\ spc # "returned"
    BY <1>7 DEF IInv, NoWriterLeft, Worker, Recv, Look, FlushSucceeds, FlushFails,
       CountError, ReportError
  <2>2. CASE Recv(w)
    <3>1. FailedFiles' = FailedFiles
      <4>1. /\ wpc[w] = "recv" /\ wpc'[w] \in {"look", "done"} /\ UNCHANGED <<res, result>>
            /\ \A v \in Workers : v # w => wpc'[v] = wpc[v] /\ wjob'[v] = wjob[v]
        BY <2>2 DEF Recv, IInv, TypeOK
      <4>2. \A v \in Workers : wpc'[v] \in {"count", "report"}
                                <=> wpc[v] \in {"count", "report"}
        BY <4>1
      <4>3. \A v \in Workers : wpc[v] \in {"count", "report"} => wjob'[v] = wjob[v]
        BY <4>1
      <4>4. {wjob'[v] : v \in {u \in Workers : wpc'[u] \in {"count", "report"}}}
              = {wjob[v] : v \in {u \in Workers : wpc[u] \in {"count", "report"}}}
        BY <4>2, <4>3
      <4>5. QED  BY <4>1, <4>4 DEF FailedFiles
    <3>2. QED  BY <2>1, <2>2, <3>1 DEF Recv, Contract!absVars, Batch
  <2>3. CASE Look(w)
    <3>1. FailedFiles' = FailedFiles
      BY <2>3 DEF Look, FailedFiles, IInv, TypeOK
    <3>2. QED  BY <2>1, <2>3, <3>1 DEF Look, Contract!absVars, Batch
  <2>4. CASE FlushSucceeds(w)
    <3>1. FailedFiles' = FailedFiles
      BY <2>4 DEF FlushSucceeds, FailedFiles, IInv, TypeOK
    <3>2. wjob[w] \in Batch /\ wjob[w] \notin written \union FailedFiles
      BY <2>4, FlushedOnce DEF FlushSucceeds
    <3>3. Contract!Write(wjob[w])
      BY <2>1, <2>4, <3>1, <3>2 DEF FlushSucceeds, Contract!Write, Batch
    <3>4. QED  BY <3>2, <3>3 DEF Contract!AbsNext
  <2>5. CASE FlushFails(w)
    <3>1. FailedFiles' = FailedFiles \union {wjob[w]}
      BY <2>5 DEF FlushFails, FailedFiles, IInv, TypeOK
    <3>2. wjob[w] \in Batch /\ wjob[w] \notin written \union FailedFiles
      BY <2>5, FlushedOnce DEF FlushFails
    <3>3. Contract!Fail(wjob[w])
      BY <2>1, <2>5, <3>1, <3>2 DEF FlushFails, Contract!Fail, Batch
    <3>4. QED  BY <3>2, <3>3 DEF Contract!AbsNext
  <2>6. CASE CountError(w)
    <3>1. FailedFiles' = FailedFiles
      BY <2>6 DEF CountError, FailedFiles, IInv, TypeOK
    <3>2. QED  BY <2>1, <2>6, <3>1 DEF CountError, Contract!absVars, Batch
  <2>7. CASE ReportError(w)
    <3>1. /\ Len(res) \in Nat /\ Len(res') = Len(res) + 1
          /\ \A i \in 1..Len(res') : res'[i] = IF i <= Len(res) THEN res[i] ELSE wjob[w]
      BY <2>7, LenProperties DEF ReportError, IInv, TypeOK
    <3>2. {res'[i] : i \in 1..Len(res')} = {res[i] : i \in 1..Len(res)} \union {wjob[w]}
      <4>1. \A i \in 1..Len(res) : i \in 1..Len(res') /\ res'[i] = res[i]  BY <3>1
      <4>2. Len(res') \in 1..Len(res') /\ res'[Len(res')] = wjob[w]  BY <3>1
      <4>3. \A i \in 1..Len(res') : i \in 1..Len(res) \/ i = Len(res')  BY <3>1
      <4>4. QED  BY <4>1, <4>2, <4>3
    <3>3. {wjob'[v] : v \in {u \in Workers : wpc'[u] \in {"count", "report"}}} \union {wjob[w]}
            = {wjob[v] : v \in {u \in Workers : wpc[u] \in {"count", "report"}}}
      <4>1. /\ wpc[w] = "report" /\ wpc'[w] = "done" /\ wjob' = wjob
            /\ \A v \in Workers : v # w => wpc'[v] = wpc[v]
        BY <2>7 DEF ReportError, IInv, TypeOK
      <4>2. {u \in Workers : wpc[u] \in {"count", "report"}}
              = {u \in Workers : wpc'[u] \in {"count", "report"}} \union {w}
        BY <4>1
      <4>3. QED  BY <4>1, <4>2
    <3>4. FailedFiles' = FailedFiles  BY <2>1, <3>2, <3>3 DEF FailedFiles
    <3>5. QED  BY <2>1, <2>7, <3>4 DEF ReportError, Contract!absVars, Batch
  <2>8. QED  BY <1>7, <2>2, <2>3, <2>4, <2>5, <2>6, <2>7 DEF Worker
<1>8. CASE UNCHANGED vars
  <2>1. FailedFiles' = FailedFiles  BY <1>8 DEF vars, FailedFiles
  <2>2. QED  BY <1>8, <2>1 DEF vars, Contract!absVars, Batch
<1>9. QED
  BY <1>1, <1>2, <1>3, <1>4, <1>5, <1>6, <1>7, <1>8 DEF Next, Supplier

(* The pool implements the contract of one flush: every file is dealt with *)
(* at most once, nil is returned exactly when all are written, and an      *)
(* error is the error of a file whose write failed.                        *)
THEOREM PoolImplementsContract == Spec => ImplementsContract
<1>1. Init => Contract!AbsInit  BY InitContract
<1>2. IInv /\ [Next]_vars => [Contract!AbsNext]_(Contract!absVars)  BY StepContract
<1>3. QED
  BY <1>1, <1>2, Inductive, PTL DEF Spec, ImplementsContract, Contract!AbsSpec


-----------------------------------------------------------------------------
(* Lists of children: s has the elements of C, each once. *)
Lists(s, S, C) == s \in Seq(S) /\ ToSet(s) = C /\ IsInjective(s)

LEMMA SetOf ==
  ASSUME NEW S, NEW s \in Seq(S)
  PROVE  /\ Len(s) \in Nat /\ DOMAIN s = 1..Len(s)
         /\ \A x : x \in ToSet(s) <=> \E i \in 1..Len(s) : x = s[i]
<1>1. Len(s) \in Nat /\ DOMAIN s = 1..Len(s)
  BY LenProperties
<1> QED BY <1>1 DEF ToSet

LEMMA ListsPlaces ==
  ASSUME NEW S, NEW s, NEW C, Lists(s, S, C)
  PROVE  /\ Len(s) \in Nat /\ s \in Seq(S) /\ C \subseteq S
         /\ \A i \in 1..Len(s) : s[i] \in C
         /\ \A x \in C : \E i \in 1..Len(s) : s[i] = x
         /\ \A i, j \in 1..Len(s) : s[i] = s[j] => i = j
<1>1. s \in Seq(S) /\ ToSet(s) = C /\ IsInjective(s)
  BY DEF Lists
<1>2. /\ Len(s) \in Nat /\ DOMAIN s = 1..Len(s)
      /\ \A x : x \in ToSet(s) <=> \E i \in 1..Len(s) : x = s[i]
  BY <1>1, SetOf
<1>3. \A i \in 1..Len(s) : s[i] \in S
  BY <1>1, ElementOfSeq
<1>4. \A i, j \in 1..Len(s) : s[i] = s[j] => i = j
  BY <1>1, <1>2 DEF IsInjective
<1> QED BY <1>1, <1>2, <1>3, <1>4

LEMMA PlacesList ==
  ASSUME NEW S, NEW s \in Seq(S), NEW C,
         \A i \in 1..Len(s) : s[i] \in C,
         \A x \in C : \E i \in 1..Len(s) : s[i] = x,
         \A i, j \in 1..Len(s) : s[i] = s[j] => i = j
  PROVE  Lists(s, S, C)
<1>1. /\ Len(s) \in Nat /\ DOMAIN s = 1..Len(s)
      /\ \A x : x \in ToSet(s) <=> \E i \in 1..Len(s) : x = s[i]
  BY SetOf
<1>2. IsInjective(s)
  BY <1>1 DEF IsInjective
<1>3. \A x : x \in ToSet(s) <=> x \in C
  BY <1>1
<1> QED BY <1>2, <1>3 DEF Lists

LEMMA ListsNothing ==
  ASSUME NEW S
  PROVE  Lists(<<>>, S, {})
<1>1. <<>> \in Seq(S) /\ Len(<<>>) = 0 /\ 1..0 = {}
  BY EmptySeq
<1> QED BY <1>1, PlacesList

LEMMA ListsOne ==
  ASSUME NEW S, NEW x \in S
  PROVE  Lists(<<x>>, S, {x})
<1> DEFINE o == <<x>>
<1>1. o \in Seq(S) /\ Len(o) = 1 /\ o[1] = x
  BY SingleIsSeq
<1> HIDE DEF o
<1>2. 1..Len(o) = {1}
  BY <1>1
<1>3. Lists(o, S, {x})
  BY <1>1, <1>2, PlacesList
<1> QED BY <1>3 DEF o

LEMMA ListsConcat ==
  ASSUME NEW S, NEW s, NEW t, NEW B, NEW C, Lists(s, S, B), Lists(t, S, C), B \cap C = {}
  PROVE  Lists(s \o t, S, B \union C)
<1> DEFINE u == s \o t
           m == Len(s)
           size == Len(t)
<1>1. /\ m \in Nat /\ s \in Seq(S)
      /\ \A i \in 1..m : s[i] \in B
      /\ \A x \in B : \E i \in 1..m : s[i] = x
      /\ \A i, j \in 1..m : s[i] = s[j] => i = j
  BY ListsPlaces
<1>2. /\ size \in Nat /\ t \in Seq(S)
      /\ \A i \in 1..size : t[i] \in C
      /\ \A x \in C : \E i \in 1..size : t[i] = x
      /\ \A i, j \in 1..size : t[i] = t[j] => i = j
  BY ListsPlaces
<1>3. u \in Seq(S) /\ Len(u) = m + size /\ \A i \in 1..(m + size) : u[i] = IF i <= m THEN s[i] ELSE t[i - m]
  BY <1>1, <1>2, ConcatProperties
<1> HIDE DEF u, m, size
<1>4. ASSUME NEW i \in 1..(m + size)
      PROVE  \/ i \in 1..m /\ u[i] = s[i] /\ u[i] \in B
             \/ ~(i <= m) /\ i - m \in 1..size /\ u[i] = t[i - m] /\ u[i] \in C
  <2>1. CASE i <= m
    <3>1. i \in 1..m
      BY <1>1, <2>1
    <3> QED BY <1>1, <1>3, <2>1, <3>1
  <2>2. CASE ~(i <= m)
    <3>1. i - m \in 1..size
      BY <1>1, <1>2, <2>2
    <3> QED BY <1>2, <1>3, <2>2, <3>1
  <2> QED BY <2>1, <2>2
<1>5. \A i \in 1..(m + size) : u[i] \in B \union C
  BY <1>4
<1>6. \A x \in B \union C : \E i \in 1..(m + size) : u[i] = x
  <2> SUFFICES ASSUME NEW x \in B \union C
               PROVE  \E i \in 1..(m + size) : u[i] = x
    OBVIOUS
  <2>1. CASE x \in B
    <3>1. PICK i \in 1..m : s[i] = x
      BY <1>1, <2>1
    <3>2. i \in 1..(m + size) /\ i <= m
      BY <1>1, <1>2
    <3> QED BY <1>3, <3>1, <3>2
  <2>2. CASE x \in C
    <3>1. PICK i \in 1..size : t[i] = x
      BY <1>2, <2>2
    <3>2. m + i \in 1..(m + size) /\ ~(m + i <= m) /\ (m + i) - m = i
      BY <1>1, <1>2
    <3> QED BY <1>3, <3>1, <3>2
  <2> QED BY <2>1, <2>2
<1>7. ASSUME NEW i \in 1..(m + size), NEW j \in 1..(m + size), u[i] = u[j]
      PROVE  i = j
  <2>1. CASE i \in 1..m /\ j \in 1..m
    <3>1. u[i] = s[i] /\ u[j] = s[j]
      BY <1>1, <1>3, <2>1
    <3> QED BY <1>1, <1>7, <2>1, <3>1
  <2>2. CASE i - m \in 1..size /\ j - m \in 1..size /\ u[i] = t[i - m] /\ u[j] = t[j - m]
    <3>1. i - m = j - m
      BY <1>2, <1>7, <2>2
    <3> QED BY <1>1, <1>2, <3>1
  <2> QED BY <1>4, <1>7, <2>1, <2>2
<1>8. Lists(u, S, B \union C)
  BY <1>3, <1>5, <1>6, <1>7, PlacesList
<1> QED BY <1>8 DEF u

LEMMA ListsPart ==
  ASSUME NEW S, NEW s, NEW C, Lists(s, S, C), NEW a \in Int, NEW b \in Int, a >= 1, b <= Len(s)
  PROVE  Lists(SubSeq(s, a, b), S, {s[i] : i \in a..b})
<1> DEFINE u == SubSeq(s, a, b)
           D == {s[i] : i \in a..b}
           size == IF a <= b THEN b - a + 1 ELSE 0
<1>1. /\ Len(s) \in Nat /\ s \in Seq(S)
      /\ \A i, j \in 1..Len(s) : s[i] = s[j] => i = j
  BY ListsPlaces
<1>2. \A i \in a..b : i \in 1..Len(s) /\ s[i] \in S
  <2>1. \A i \in a..b : i \in 1..Len(s)
    BY <1>1
  <2> QED BY <1>1, <2>1, ElementOfSeq
<1>3. u \in Seq(S) /\ Len(u) = size /\ \A i \in 1..(b - a + 1) : u[i] = s[a + i - 1]
  BY <1>2, SubSeqProperties
<1> HIDE DEF u
<1>4. \A i \in 1..size : a + i - 1 \in a..b /\ u[i] = s[a + i - 1] /\ i \in Int
  <2> SUFFICES ASSUME NEW i \in 1..size
               PROVE  a + i - 1 \in a..b /\ u[i] = s[a + i - 1] /\ i \in Int
    OBVIOUS
  <2>1. a <= b /\ i \in 1..(b - a + 1)
    OBVIOUS
  <2> QED BY <1>3, <2>1
<1>5. \A i \in 1..size : u[i] \in D
  BY <1>4
<1>6. \A x \in D : \E i \in 1..size : u[i] = x
  <2> SUFFICES ASSUME NEW k \in a..b
               PROVE  \E i \in 1..size : u[i] = s[k]
    OBVIOUS
  <2>1. k - a + 1 \in 1..size /\ a + (k - a + 1) - 1 = k
    OBVIOUS
  <2> QED BY <1>4, <2>1
<1>7. ASSUME NEW i \in 1..size, NEW j \in 1..size, u[i] = u[j]
      PROVE  i = j
  <2>1. a + i - 1 = a + j - 1
    BY <1>1, <1>2, <1>4, <1>7
  <2> QED BY <1>4, <2>1
<1> HIDE DEF D, size
<1>8. Lists(u, S, D)
  BY <1>3, <1>5, <1>6, <1>7, PlacesList
<1> QED BY <1>8 DEF u, D

LEMMA ListsAppend ==
  ASSUME NEW S, NEW s, NEW C, Lists(s, S, C), NEW x \in S, x \notin C
  PROVE  Lists(Append(s, x), S, C \union {x})
<1> DEFINE o == <<x>>
<1>1. Lists(o, S, {x})
  BY ListsOne
<1>2. Append(s, x) = s \o o
  BY AppendIsConcat DEF Lists
<1> HIDE DEF o
<1>3. C \cap {x} = {}
  OBVIOUS
<1> QED BY <1>1, <1>2, <1>3, ListsConcat

(* The first place where something is. *)
LEMMA FoundFirst ==
  ASSUME NEW s, NEW x
  PROVE  LET i == SelectInSeq(s, LAMBDA v : v = x)
         IN  /\ i = 0 => \A k \in 1..Len(s) : s[k] # x
             /\ i # 0 => i \in 1..Len(s) /\ s[i] = x
<1> DEFINE I == {k \in 1..Len(s) : s[k] = x}
<1>1. SelectInSeq(s, LAMBDA v : v = x) = IF I # {} THEN Min(I) ELSE 0
  BY DEF SelectInSeq
<1>2. I # {} => Min(I) \in I
  <2>1. I \in SUBSET Nat
    OBVIOUS
  <2> HIDE DEF I
  <2> QED BY <2>1, LeastIsLeast
<1>3. CASE I = {}
  BY <1>1, <1>3
<1>4. CASE I # {}
  <2>1. SelectInSeq(s, LAMBDA v : v = x) \in I
    BY <1>1, <1>2, <1>4
  <2> QED BY <2>1
<1> QED BY <1>3, <1>4

LEMMA ListsRemove ==
  ASSUME NEW S, NEW s, NEW C, Lists(s, S, C), NEW x \in C
  PROVE  Lists(RemoveFirst(s, x), S, C \ {x})
<1> DEFINE i == SelectInSeq(s, LAMBDA v : v = x)
           a == SubSeq(s, 1, i - 1)
           b == SubSeq(s, i + 1, Len(s))
           A == {s[k] : k \in 1..(i - 1)}
           B == {s[k] : k \in (i + 1)..Len(s)}
<1>1. /\ Len(s) \in Nat /\ s \in Seq(S)
      /\ \A k \in 1..Len(s) : s[k] \in C
      /\ \A y \in C : \E k \in 1..Len(s) : s[k] = y
      /\ \A k, j \in 1..Len(s) : s[k] = s[j] => k = j
  BY ListsPlaces
<1>2. i \in 1..Len(s) /\ s[i] = x
  <2>1. \E k \in 1..Len(s) : s[k] = x
    BY <1>1
  <2> QED BY <2>1, FoundFirst
<1>3. RemoveFirst(s, x) = a \o b
  <2>1. \E k \in 1..Len(s) : s[k] = x
    BY <1>2
  <2> QED BY <2>1 DEF RemoveFirst, RemoveAt
<1> HIDE DEF i
<1>4. Lists(a, S, A) /\ Lists(b, S, B)
  <2>1. 1 \in Int /\ i - 1 \in Int /\ i + 1 \in Int /\ Len(s) \in Int /\ i + 1 >= 1 /\ i - 1 <= Len(s)
    BY <1>1, <1>2
  <2> QED BY <2>1, ListsPart
<1>5. A \cap B = {}
  <2>1. ASSUME NEW k \in 1..(i - 1), NEW j \in (i + 1)..Len(s), s[k] = s[j]
        PROVE  FALSE
    <3>1. k \in 1..Len(s) /\ j \in 1..Len(s) /\ k # j
      BY <1>1, <1>2
    <3> QED BY <1>1, <2>1, <3>1
  <2> QED BY <2>1
<1>6. A \union B = C \ {x}
  <2>1. ASSUME NEW y \in A \union B
        PROVE  y \in C \ {x}
    <3>1. PICK k \in 1..Len(s) : k # i /\ y = s[k]
      BY <1>1, <1>2
    <3> QED BY <1>1, <1>2, <3>1
  <2>2. ASSUME NEW y \in C \ {x}
        PROVE  y \in A \union B
    <3>1. PICK k \in 1..Len(s) : y = s[k]
      BY <1>1
    <3>2. k # i
      BY <1>2, <3>1
    <3>3. k \in 1..(i - 1) \/ k \in (i + 1)..Len(s)
      BY <1>1, <1>2, <3>2
    <3> QED BY <3>1, <3>3
  <2> QED BY <2>1, <2>2
<1> HIDE DEF a, b, A, B
<1>7. Lists(a \o b, S, A \union B)
  BY <1>4, <1>5, ListsConcat
<1> QED BY <1>3, <1>6, <1>7

LEMMA ListsInsert ==
  ASSUME NEW S, NEW s, NEW C, Lists(s, S, C), NEW x \in S, x \notin C, NEW i \in 1..Len(s)
  PROVE  Lists(InsertAt(s, i, x), S, C \union {x})
<1> DEFINE a == SubSeq(s, 1, i - 1)
           b == SubSeq(s, i, Len(s))
           o == <<x>>
           A == {s[k] : k \in 1..(i - 1)}
           B == {s[k] : k \in i..Len(s)}
<1>1. /\ Len(s) \in Nat /\ s \in Seq(S)
      /\ \A k \in 1..Len(s) : s[k] \in C
      /\ \A y \in C : \E k \in 1..Len(s) : s[k] = y
      /\ \A k, j \in 1..Len(s) : s[k] = s[j] => k = j
  BY ListsPlaces
<1>2. InsertAt(s, i, x) = (a \o o) \o b
  BY DEF InsertAt
<1>3. Lists(a, S, A) /\ Lists(b, S, B)
  <2>1. 1 \in Int /\ i - 1 \in Int /\ i \in Int /\ Len(s) \in Int /\ i >= 1 /\ i - 1 <= Len(s)
    BY <1>1
  <2> QED BY <2>1, ListsPart
<1>4. Lists(o, S, {x})
  BY ListsOne
<1>5. A \cap B = {}
  <2>1. ASSUME NEW k \in 1..(i - 1), NEW j \in i..Len(s), s[k] = s[j]
        PROVE  FALSE
    <3>1. k \in 1..Len(s) /\ j \in 1..Len(s) /\ k # j
      BY <1>1
    <3> QED BY <1>1, <2>1, <3>1
  <2> QED BY <2>1
<1>6. A \union B = C
  <2>1. ASSUME NEW y \in A \union B
        PROVE  y \in C
    <3>1. PICK k \in 1..Len(s) : y = s[k]
      BY <1>1
    <3> QED BY <1>1, <3>1
  <2>2. ASSUME NEW y \in C
        PROVE  y \in A \union B
    <3>1. PICK k \in 1..Len(s) : y = s[k]
      BY <1>1
    <3>2. k \in 1..(i - 1) \/ k \in i..Len(s)
      BY <1>1
    <3> QED BY <3>1, <3>2
  <2> QED BY <2>1, <2>2
<1> HIDE DEF a, b, o, A, B
<1>7. Lists(a \o o, S, A \union {x})
  BY <1>3, <1>4, <1>6, ListsConcat
<1>8. (A \union {x}) \cap B = {} /\ (A \union {x}) \union B = C \union {x}
  BY <1>5, <1>6
<1>9. Lists((a \o o) \o b, S, (A \union {x}) \union B)
  BY <1>3, <1>7, <1>8, ListsConcat
<1> QED BY <1>2, <1>8, <1>9

LEMMA ListsReplace ==
  ASSUME NEW S, NEW s, NEW C, Lists(s, S, C), NEW x \in S, x \notin C, NEW i \in 1..Len(s)
  PROVE  Lists([s EXCEPT ![i] = x], S, (C \ {s[i]}) \union {x})
<1> DEFINE t == [s EXCEPT ![i] = x]
           D == (C \ {s[i]}) \union {x}
<1>1. /\ Len(s) \in Nat /\ s \in Seq(S)
      /\ \A k \in 1..Len(s) : s[k] \in C
      /\ \A y \in C : \E k \in 1..Len(s) : s[k] = y
      /\ \A k, j \in 1..Len(s) : s[k] = s[j] => k = j
  BY ListsPlaces
<1>2. /\ t \in Seq(S) /\ Len(t) = Len(s)
      /\ \A k \in 1..Len(s) : t[k] = IF k = i THEN x ELSE s[k]
  <2>1. DOMAIN s = 1..Len(s)
    BY <1>1, LenProperties
  <2> QED BY <1>1, <2>1, ExceptSeq
<1> HIDE DEF t
<1>3. \A k \in 1..Len(t) : t[k] \in D
  <2> SUFFICES ASSUME NEW k \in 1..Len(s)
               PROVE  t[k] \in D
    BY <1>2
  <2>1. k # i => s[k] # s[i]
    BY <1>1
  <2> QED BY <1>1, <1>2, <2>1
<1>4. \A y \in D : \E k \in 1..Len(t) : t[k] = y
  <2> SUFFICES ASSUME NEW y \in D
               PROVE  \E k \in 1..Len(s) : t[k] = y
    BY <1>2
  <2>1. CASE y = x
    BY <1>2, <2>1
  <2>2. CASE y # x
    <3>1. PICK k \in 1..Len(s) : s[k] = y
      BY <1>1, <2>2
    <3>2. k # i
      BY <2>2, <3>1
    <3> QED BY <1>2, <3>1, <3>2
  <2> QED BY <2>1, <2>2
<1>5. \A k, j \in 1..Len(t) : t[k] = t[j] => k = j
  <2> SUFFICES ASSUME NEW k \in 1..Len(s), NEW j \in 1..Len(s), t[k] = t[j]
               PROVE  k = j
    BY <1>2
  <2>1. s[k] # x /\ s[j] # x
    BY <1>1
  <2> QED BY <1>1, <1>2, <2>1
<1> HIDE DEF D
<1>6. Lists(t, S, D)
  BY <1>2, <1>3, <1>4, <1>5, PlacesList
<1> QED BY <1>6 DEF t, D

LEMMA ListsRotate ==
  ASSUME NEW S, NEW s, NEW C, Lists(s, S, C), s # <<>>
  PROVE  Lists(<<Last(s)>> \o Front(s), S, C)
<1> DEFINE size == Len(s)
           a == SubSeq(s, 1, size - 1)
           o == <<s[size]>>
           A == {s[k] : k \in 1..(size - 1)}
<1>1. /\ size \in Nat /\ s \in Seq(S) /\ C \subseteq S
      /\ \A k \in 1..size : s[k] \in C
      /\ \A y \in C : \E k \in 1..size : s[k] = y
      /\ \A k, j \in 1..size : s[k] = s[j] => k = j
  BY ListsPlaces
<1>2. size # 0
  BY <1>1, EmptySeq
<1>3. size \in 1..size /\ 1 \in Int /\ size - 1 \in Int /\ size - 1 <= size /\ s[size] \in S
  BY <1>1, <1>2
<1>4. Lists(a, S, A) /\ Lists(o, S, {s[size]})
  <2>1. size - 1 <= Len(s)
    BY <1>3
  <2> HIDE DEF size
  <2>2. Lists(a, S, A)
    BY <1>3, <2>1, ListsPart
  <2> QED BY <1>3, <2>2, ListsOne
<1>5. {s[size]} \cap A = {}
  <2>1. ASSUME NEW k \in 1..(size - 1), s[k] = s[size]
        PROVE  FALSE
    <3>1. k \in 1..size /\ k # size
      BY <1>1
    <3> QED BY <1>1, <1>3, <2>1, <3>1
  <2> QED BY <2>1
<1>6. {s[size]} \union A = C
  <2>1. ASSUME NEW y \in {s[size]} \union A
        PROVE  y \in C
    <3>1. PICK k \in 1..size : y = s[k]
      BY <1>1, <1>3
    <3> QED BY <1>1, <3>1
  <2>2. ASSUME NEW y \in C
        PROVE  y \in {s[size]} \union A
    <3>1. PICK k \in 1..size : y = s[k]
      BY <1>1
    <3>2. k \in 1..(size - 1) \/ k = size
      BY <1>1
    <3> QED BY <3>1, <3>2
  <2> QED BY <2>1, <2>2
<1>7. <<Last(s)>> \o Front(s) = o \o a
  BY DEF Last, Front
<1> HIDE DEF a, o, A, size
<1>8. Lists(o \o a, S, {s[size]} \union A)
  BY <1>4, <1>5, ListsConcat
<1> QED BY <1>6, <1>7, <1>8

LEMMA ListsTaken ==
  ASSUME NEW S, NEW s, NEW C, Lists(s, S, C), NEW at
  PROVE  Lists(Taken(s, at), S, {s[i] : i \in {k \in 1..Len(s) : k \in at}})
<1> DEFINE o == Taken(s, at)
           D == {s[i] : i \in {k \in 1..Len(s) : k \in at}}
<1>1. /\ Len(s) \in Nat /\ s \in Seq(S)
      /\ \A k, j \in 1..Len(s) : s[k] = s[j] => k = j
  BY ListsPlaces
<1>2. o = Picked(s, at)
  BY DEF Taken, Picked
<1> HIDE DEF o
<1>3. /\ o \in Seq(S)
      /\ \A x : x \in ToSet(o) <=> \E i \in 1..Len(s) : i \in at /\ x = s[i]
  BY <1>1, <1>2, PickedHas
<1>4. \A j, k \in 1..Len(o) : j # k => o[j] # o[k]
  <2> DEFINE Apart(u) ==
               \A j, k \in 1..Len(u) : j # k =>
                 \E a, b \in 1..Len(s) : /\ a # b /\ a \in at /\ b \in at
                                         /\ u[j] = s[a] /\ u[k] = s[b]
  <2>3. Apart(Picked(s, at))
    BY <1>1, PickedHas
  <2>4. Apart(o)
    <3> HIDE DEF Apart
    <3> QED BY <1>2, <2>3
  <2>1. \A j, k \in 1..Len(o) : j # k =>
              \E a, b \in 1..Len(s) : /\ a # b /\ a \in at /\ b \in at
                                      /\ o[j] = s[a] /\ o[k] = s[b]
    BY <2>4
  <2> HIDE DEF Apart
  <2> SUFFICES ASSUME NEW j \in 1..Len(o), NEW k \in 1..Len(o), j # k
               PROVE  o[j] # o[k]
    OBVIOUS
  <2>2. PICK a \in 1..Len(s), b \in 1..Len(s) : a # b /\ o[j] = s[a] /\ o[k] = s[b]
    BY <2>1
  <2> QED BY <1>1, <2>2
<1>5. \A x : x \in ToSet(o) <=> \E i \in 1..Len(o) : x = o[i]
  BY <1>3, SetOf
<1>6. \A x : x \in ToSet(o) <=> x \in D
  BY <1>3
<1> HIDE DEF D
<1>7. Lists(o, S, D)
  BY <1>3, <1>4, <1>5, <1>6, PlacesList
<1> QED BY <1>7 DEF o, D

-----------------------------------------------------------------------------
(* The way up from a token. *)
Fields == {"kind", "data", "tail", "blank", "child", "parent"}

(* The tokens have the fields that operations change, with numbers of      *)
(* tokens in them.                                                         *)
Formed(tokens) ==
    /\ \E S : tokens \in Seq(S)
    /\ \A t \in DOMAIN tokens : /\ Fields \subseteq DOMAIN tokens[t]
                                /\ tokens[t].parent \in DOMAIN tokens \union {None}
                                /\ tokens[t].child \in Seq(DOMAIN tokens)

LEMMA FormedTokens ==
  ASSUME NEW tokens, Formed(tokens)
  PROVE  Len(tokens) \in Nat /\ DOMAIN tokens = 1..Len(tokens) /\ None \notin DOMAIN tokens
<1>1. Len(tokens) \in Nat /\ DOMAIN tokens = 1..Len(tokens)
  BY LenProperties DEF Formed
<1> QED BY <1>1 DEF None

Up(t) == IF t = None THEN None ELSE tree[t].parent

(* F goes up from e, m steps. *)
Ups(F, e, m) == F = [k \in 0..m |-> IF k = 0 THEN e ELSE Up(F[k - 1])]

LEMMA UpsAre ==
  ASSUME NEW e, NEW m \in Nat, NEW F, Ups(F, e, m)
  PROVE  F[0] = e /\ \A k \in 0..m : k # 0 => F[k] = Up(F[k - 1])
<1>1. \A k \in 0..m : F[k] = IF k = 0 THEN e ELSE Up(F[k - 1])
  BY DEF Ups
<1>2. 0 \in 0..m
  OBVIOUS
<1> QED BY <1>1, <1>2

LEMMA UpType ==
  ASSUME Formed(tree), NEW t \in Tokens \union {None}
  PROVE  Up(t) \in Tokens \union {None}
BY DEF Up, Formed, Tokens

LEMMA UpsExist ==
  ASSUME Formed(tree), NEW e \in Tokens, NEW m \in Nat
  PROVE  \E F \in [0..m -> Tokens \union {None}] : Ups(F, e, m)
<1> DEFINE B == Tokens \union {None}
           T == {size \in Nat : \E F \in [0..size -> B] : Ups(F, e, size)}
<1>1. 0 \in T
  <2> DEFINE F == [k \in 0..0 |-> e]
  <2>1. F \in [0..0 -> B]
    OBVIOUS
  <2>2. F = [k \in 0..0 |-> IF k = 0 THEN e ELSE Up(F[k - 1])]
    OBVIOUS
  <2> HIDE DEF F
  <2>3. Ups(F, e, 0)
    BY <2>2 DEF Ups
  <2> QED BY <2>1, <2>3
<1>2. ASSUME NEW size \in Nat, size \in T
      PROVE  size + 1 \in T
  <2>1. PICK F \in [0..size -> B] : Ups(F, e, size)
    BY <1>2
  <2> DEFINE x == Up(F[size])
             G == [k \in 0..(size + 1) |-> IF k = size + 1 THEN x ELSE F[k]]
  <2>2. x \in B
    <3>1. F[size] \in B
      BY <2>1
    <3> QED BY <3>1, UpType
  <2> HIDE DEF x
  <2>3. G \in [0..(size + 1) -> B]
    BY <2>1, <2>2
  <2>4. \A k \in 0..(size + 1) : G[k] = IF k = size + 1 THEN x ELSE F[k]
    OBVIOUS
  <2> HIDE DEF G, B
  <2>5. F[0] = e /\ \A k \in 0..size : k # 0 => F[k] = Up(F[k - 1])
    <3>1. \A k \in 0..size : F[k] = IF k = 0 THEN e ELSE Up(F[k - 1])
      BY <2>1 DEF Ups
    <3>2. 0 \in 0..size
      OBVIOUS
    <3> QED BY <3>1, <3>2
  <2>6. \A k \in 0..(size + 1) : G[k] = IF k = 0 THEN e ELSE Up(G[k - 1])
    <3> TAKE k \in 0..(size + 1)
    <3>1. CASE k = size + 1
      <4>1. k - 1 = size /\ size \in 0..(size + 1) /\ size # size + 1 /\ k # 0
        BY <3>1
      <4> QED BY <2>4, <3>1, <4>1 DEF x
    <3>2. CASE k # size + 1
      <4>1. k \in 0..size /\ (k # 0 => k - 1 \in 0..(size + 1) /\ k - 1 # size + 1)
        BY <3>2
      <4> QED BY <2>4, <2>5, <3>2, <4>1
    <3> QED BY <3>1, <3>2
  <2>7. Ups(G, e, size + 1)
    BY <2>3, <2>6 DEF Ups
  <2> QED BY <2>3, <2>7
<1>3. \A size \in Nat : size \in T
  <2> HIDE DEF T
  <2> QED BY <1>1, <1>2, InductionInSet
<1> QED BY <1>3

(* The way up from a token is that from its parent, a step later. *)
LEMMA UpsAgree ==
  ASSUME NEW e, NEW p, p = Up(e), NEW m \in Nat, NEW F, NEW G, Ups(F, e, m), Ups(G, p, m)
  PROVE  \A k \in 0..m : k + 1 <= m => F[k + 1] = G[k]
<1> DEFINE T == {k \in Nat : k + 1 <= m => F[k + 1] = G[k]}
<1>1. F[0] = e /\ \A k \in 0..m : k # 0 => F[k] = Up(F[k - 1])
  <2>1. Ups(F, e, m) /\ m \in Nat
    OBVIOUS
  <2> QED BY ONLY <2>1, UpsAre
<1>2. G[0] = p /\ \A k \in 0..m : k # 0 => G[k] = Up(G[k - 1])
  <2>1. \A k \in 0..m : G[k] = IF k = 0 THEN p ELSE Up(G[k - 1])
    BY DEF Ups
  <2>2. 0 \in 0..m
    OBVIOUS
  <2> QED BY <2>1, <2>2
<1>3. 0 \in T
  <2>1. 1 <= m => 1 \in 0..m /\ 1 # 0 /\ 1 - 1 = 0 /\ 0 + 1 = 1
    OBVIOUS
  <2> QED BY <1>1, <1>2, <2>1
<1>4. ASSUME NEW k \in Nat, k \in T
      PROVE  k + 1 \in T
  <2>1. SUFFICES ASSUME (k + 1) + 1 <= m
                 PROVE  F[(k + 1) + 1] = G[k + 1]
    OBVIOUS
  <2>2. /\ (k + 1) + 1 \in 0..m /\ (k + 1) + 1 # 0 /\ ((k + 1) + 1) - 1 = k + 1
        /\ k + 1 \in 0..m /\ k + 1 # 0 /\ (k + 1) - 1 = k /\ k + 1 <= m
    BY <2>1
  <2>3. F[(k + 1) + 1] = Up(F[k + 1])
    BY <1>1, <2>2
  <2>4. G[k + 1] = Up(G[k])
    BY <1>2, <2>2
  <2> QED BY <1>4, <2>2, <2>3, <2>4
<1>5. \A k \in Nat : k \in T
  <2> HIDE DEF T
  <2> QED BY <1>3, <1>4, InductionInSet
<1> QED BY <1>5

LEMMA UpsUnique ==
  ASSUME NEW e, NEW m \in Nat, NEW F, NEW G, Ups(F, e, m), Ups(G, e, m)
  PROVE  \A k \in 0..m : F[k] = G[k]
<1> DEFINE T == {k \in Nat : k <= m => F[k] = G[k]}
<1>1. F[0] = e /\ \A k \in 0..m : k # 0 => F[k] = Up(F[k - 1])
  <2>1. \A k \in 0..m : F[k] = IF k = 0 THEN e ELSE Up(F[k - 1])
    BY DEF Ups
  <2>2. 0 \in 0..m
    OBVIOUS
  <2> QED BY <2>1, <2>2
<1>2. G[0] = e /\ \A k \in 0..m : k # 0 => G[k] = Up(G[k - 1])
  <2>1. \A k \in 0..m : G[k] = IF k = 0 THEN e ELSE Up(G[k - 1])
    BY DEF Ups
  <2>2. 0 \in 0..m
    OBVIOUS
  <2> QED BY <2>1, <2>2
<1>3. 0 \in T
  BY <1>1, <1>2
<1>4. ASSUME NEW k \in Nat, k \in T
      PROVE  k + 1 \in T
  <2>1. SUFFICES ASSUME k + 1 <= m
                 PROVE  F[k + 1] = G[k + 1]
    OBVIOUS
  <2>2. k + 1 \in 0..m /\ k + 1 # 0 /\ (k + 1) - 1 = k /\ k <= m
    BY <2>1
  <2> QED BY <1>1, <1>2, <1>4, <2>2
<1>5. \A k \in Nat : k \in T
  <2> HIDE DEF T
  <2> QED BY <1>3, <1>4, InductionInSet
<1> QED BY <1>5

LEMMA AboveIs ==
  ASSUME MaxTokens \in Nat, NEW e, NEW F, Ups(F, e, MaxTokens), NEW t
  PROVE  IsAbove(t, e) <=> \E k \in 0..MaxTokens : F[k] = t
<1> DEFINE C == CHOOSE G : G = [k \in 0..MaxTokens |->
                   IF k = 0 THEN e ELSE IF G[k - 1] = None THEN None ELSE tree[G[k - 1]].parent]
<1>1. IsAbove(t, e) <=> \E k \in 0..MaxTokens : C[k] = t
  BY DEF IsAbove
<1>2. \A G : Ups(G, e, MaxTokens) <=>
        G = [k \in 0..MaxTokens |->
               IF k = 0 THEN e ELSE IF G[k - 1] = None THEN None ELSE tree[G[k - 1]].parent]
  BY DEF Ups, Up
<1>3. Ups(C, e, MaxTokens)
  <2>1. \E G : G = [k \in 0..MaxTokens |->
               IF k = 0 THEN e ELSE IF G[k - 1] = None THEN None ELSE tree[G[k - 1]].parent]
    BY <1>2
  <2>2. C = [k \in 0..MaxTokens |->
               IF k = 0 THEN e ELSE IF C[k - 1] = None THEN None ELSE tree[C[k - 1]].parent]
    BY <2>1
  <2> HIDE DEF C
  <2> QED BY <1>2, <2>2
<1> HIDE DEF C
<1>4. \A k \in 0..MaxTokens : C[k] = F[k]
  BY <1>3, UpsUnique
<1> QED BY <1>1, <1>4

(* Every token is ranked behind its parent. *)
Ranks(R, tokens) ==
    /\ R \in [DOMAIN tokens -> Nat]
    /\ \A t \in DOMAIN tokens : tokens[t].parent # None => R[tokens[t].parent] < R[t]

Ranked(tokens) == \E R : Ranks(R, tokens)

LEMMA UpsRank ==
  ASSUME Formed(tree), NEW R, Ranks(R, tree), NEW e \in Tokens, NEW m \in Nat,
         NEW F \in [0..m -> Tokens \union {None}], Ups(F, e, m)
  PROVE  \A k \in 0..m : F[k] # None =>
           \A j \in 0..m : j < k => F[j] # None /\ R[F[k]] < R[F[j]]
<1> DEFINE T == {k \in Nat : k <= m /\ F[k] # None =>
                   \A j \in 0..m : j < k => F[j] # None /\ R[F[k]] < R[F[j]]}
<1>1. F[0] = e /\ \A k \in 0..m : k # 0 => F[k] = Up(F[k - 1])
  <2>1. Ups(F, e, m) /\ m \in Nat
    OBVIOUS
  <2>2. \A k \in 0..m : F[k] = IF k = 0 THEN e ELSE Up(F[k - 1])
    BY <2>1 DEF Ups
  <2>3. 0 \in 0..m
    BY <2>1
  <2> QED BY <2>2, <2>3
<1>2. 0 \in T
  OBVIOUS
<1>3. ASSUME NEW k \in Nat, k \in T
      PROVE  k + 1 \in T
  <2>1. SUFFICES ASSUME k + 1 <= m, F[k + 1] # None, NEW j \in 0..m, j < k + 1
                 PROVE  F[j] # None /\ R[F[k + 1]] < R[F[j]]
    OBVIOUS
  <2>2. k + 1 \in 0..m /\ k + 1 # 0 /\ (k + 1) - 1 = k /\ k <= m /\ k \in 0..m
    BY <2>1
  <2>3. F[k + 1] = Up(F[k])
    BY <1>1, <2>2
  <2>4. F[k] # None /\ F[k] \in Tokens /\ F[k + 1] = tree[F[k]].parent
    BY <2>1, <2>2, <2>3 DEF Up
  <2>5. R[F[k + 1]] < R[F[k]]
    BY <2>1, <2>4 DEF Ranks, Tokens
  <2>6. CASE j = k
    BY <2>4, <2>5, <2>6
  <2>7. CASE j # k
    <3>1. j < k
      BY <2>1, <2>7
    <3>2. F[j] # None /\ R[F[k]] < R[F[j]]
      BY <1>3, <2>2, <2>4, <3>1
    <3>3. F[j] \in Tokens /\ F[k + 1] \in Tokens
      BY <2>1, <2>2, <3>2
    <3>4. R[F[k + 1]] \in Nat /\ R[F[k]] \in Nat /\ R[F[j]] \in Nat
      BY <2>4, <3>3 DEF Ranks, Tokens
    <3> QED BY <2>5, <3>2, <3>4
  <2> QED BY <2>6, <2>7
<1>4. \A k \in Nat : k \in T
  <2> HIDE DEF T
  <2> QED BY <1>2, <1>3, InductionInSet
<1> QED BY <1>4

(* There are no more steps than tokens. *)
LEMMA UpEnds ==
  ASSUME Formed(tree), Ranked(tree), NEW e \in Tokens, NEW m \in Nat, Len(tree) <= m,
         NEW F \in [0..m -> Tokens \union {None}], Ups(F, e, m)
  PROVE  F[m] = None
<1> SUFFICES ASSUME F[m] # None
             PROVE  FALSE
  OBVIOUS
<1>1. PICK R : Ranks(R, tree)
  BY DEF Ranked
<1>2. \A k \in 0..m : F[k] # None => \A j \in 0..m : j < k => F[j] # None /\ R[F[k]] < R[F[j]]
  BY <1>1, UpsRank
<1>3. m \in 0..m /\ \A j \in 0..m : j < m \/ j = m
  OBVIOUS
<1>4. \A j \in 0..m : F[j] \in Tokens
  BY <1>2, <1>3
<1>5. \A j \in 0..m : R[F[j]] \in Nat
  BY <1>1, <1>4 DEF Ranks, Tokens
<1>6. ASSUME NEW j \in 0..m, NEW k \in 0..m, F[j] = F[k]
      PROVE  j = k
  <2>0. F[j] # None /\ F[k] # None /\ R[F[j]] \in Nat /\ R[F[j]] = R[F[k]]
    BY <1>4, <1>5, <1>6, FormedTokens DEF Tokens
  <2>1. ~(j < k)
    <3>1. j < k => R[F[k]] < R[F[j]]
      BY <1>2, <2>0
    <3> QED BY <2>0, <3>1
  <2>2. ~(k < j)
    <3>1. k < j => R[F[j]] < R[F[k]]
      BY <1>2, <2>0
    <3> QED BY <2>0, <3>1
  <2> QED BY <2>1, <2>2
<1>7. F \in Injection(0..m, Tokens)
  <2>1. F \in [0..m -> Tokens]
    BY <1>4
  <2> QED BY <1>6, <2>1 DEF Injection, IsInjective
<1>8. Len(tree) \in Nat /\ Tokens = 1..Len(tree)
  BY FormedTokens DEF Tokens
<1>9. /\ IsFiniteSet(Tokens) /\ Cardinality(Tokens) = Len(tree)
      /\ Cardinality(0..m) = m + 1
  <2>1. Cardinality(0..m) = m + 1
    BY FS_Interval
  <2>2. IsFiniteSet(1..Len(tree)) /\ Cardinality(1..Len(tree)) = IF 1 > Len(tree) THEN 0 ELSE Len(tree) - 1 + 1
    BY <1>8, FS_Interval
  <2> QED BY <1>8, <2>1, <2>2
<1>10. Cardinality(0..m) <= Cardinality(Tokens)
  BY <1>7, <1>9, FS_Injection
<1> QED BY <1>8, <1>9, <1>10

(* What IsAbove says, without the bound. *)
LEMMA AboveStep ==
  ASSUME Formed(tree), Ranked(tree), MaxTokens \in Nat, Len(tree) <= MaxTokens,
         NEW t \in Tokens, NEW y \in Tokens
  PROVE  IsAbove(t, y) <=> t = y \/ (tree[y].parent # None /\ IsAbove(t, tree[y].parent))
<1> DEFINE m == MaxTokens
           p == tree[y].parent
<1>1. p = Up(y) /\ None \notin Tokens /\ p \in Tokens \union {None}
  BY FormedTokens, UpType DEF Up, Tokens
<1>2. PICK F \in [0..m -> Tokens \union {None}] : Ups(F, y, m)
  BY UpsExist
<1>3. IsAbove(t, y) <=> \E k \in 0..m : F[k] = t
  BY <1>2, AboveIs
<1>4. F[0] = y /\ \A k \in 0..m : k # 0 => F[k] = Up(F[k - 1])
  <2>1. \A k \in 0..m : F[k] = IF k = 0 THEN y ELSE Up(F[k - 1])
    BY <1>2 DEF Ups
  <2>2. 0 \in 0..m
    OBVIOUS
  <2> QED BY <2>1, <2>2
<1>5. F[m] = None
  BY <1>2, UpEnds
<1>6. CASE p # None
  <2>1. PICK G \in [0..m -> Tokens \union {None}] : Ups(G, p, m)
    BY <1>1, <1>6, UpsExist
  <2>2. IsAbove(t, p) <=> \E k \in 0..m : G[k] = t
    BY <2>1, AboveIs
  <2>3. \A k \in 0..m : k + 1 <= m => F[k + 1] = G[k]
    BY <1>1, <1>2, <2>1, UpsAgree
  <2>4. G[m] = None
    BY <1>1, <1>6, <2>1, UpEnds
  <2> HIDE DEF p, m
  <2>8. m \in Nat
    BY DEF m
  <2>5. ASSUME NEW k \in 0..m, F[k] = t
        PROVE  t = y \/ \E j \in 0..m : G[j] = t
    <3>1. CASE k = 0
      BY <1>4, <2>5, <3>1
    <3>2. CASE k # 0
      <4>1. k - 1 \in 0..m /\ (k - 1) + 1 = k /\ (k - 1) + 1 <= m
        BY <2>8, <3>2
      <4> QED BY <2>3, <2>5, <4>1
    <3> QED BY <3>1, <3>2
  <2>6. ASSUME NEW j \in 0..m, G[j] = t
        PROVE  \E k \in 0..m : F[k] = t
    <3>1. j # m
      BY <1>1, <2>4, <2>6
    <3>2. j + 1 \in 0..m /\ j + 1 <= m
      BY <2>8, <3>1
    <3> QED BY <2>3, <2>6, <3>2
  <2>7. t = y => \E k \in 0..m : F[k] = t
    <3>1. 0 \in 0..m
      BY <2>8
    <3> QED BY <1>4, <3>1
  <2> QED BY <1>3, <1>6, <2>2, <2>5, <2>6, <2>7 DEF p
<1>7. CASE p = None
  <2>1. PICK G \in [0..m -> {None}] : Ups(G, None, m)
    <3> DEFINE G == [k \in 0..m |-> None]
    <3>1. G \in [0..m -> {None}] /\ \A k \in 0..m : k # 0 => k - 1 \in 0..m
      OBVIOUS
    <3>2. \A k \in 0..m : G[k] = IF k = 0 THEN None ELSE Up(G[k - 1])
      BY <3>1 DEF Up
    <3> HIDE DEF G
    <3>3. Ups(G, None, m)
      BY <3>1, <3>2 DEF Ups
    <3> QED BY <3>1, <3>3
  <2>2. \A k \in 0..m : k + 1 <= m => F[k + 1] = G[k]
    <3>1. None = Up(y) /\ Ups(G, None, m) /\ Ups(F, y, m)
      BY <1>1, <1>2, <1>7, <2>1
    <3>2. m \in Nat
      OBVIOUS
    <3> QED BY ONLY <3>1, <3>2, UpsAgree
  <2> HIDE DEF p, m
  <2>8. m \in Nat
    BY DEF m
  <2>3. ASSUME NEW k \in 0..m, F[k] = t
        PROVE  t = y
    <3>1. CASE k = 0
      BY <1>4, <2>3, <3>1
    <3>2. CASE k # 0
      <4>1. k - 1 \in 0..m /\ (k - 1) + 1 = k /\ (k - 1) + 1 <= m
        BY <2>8, <3>2
      <4>2. F[k] = None
        BY <2>1, <2>2, <4>1
      <4> QED BY <1>1, <2>3, <4>2
    <3> QED BY <3>1, <3>2
  <2>4. t = y => \E k \in 0..m : F[k] = t
    <3>1. 0 \in 0..m
      BY <2>8
    <3> QED BY <1>4, <3>1
  <2> QED BY <1>3, <1>7, <2>3, <2>4 DEF p
<1> QED BY <1>6, <1>7

LEMMA AboveRanks ==
  ASSUME Formed(tree), NEW R, Ranks(R, tree), MaxTokens \in Nat,
         NEW t \in Tokens, NEW y \in Tokens, IsAbove(t, y)
  PROVE  R[t] <= R[y]
<1>1. PICK F \in [0..MaxTokens -> Tokens \union {None}] : Ups(F, y, MaxTokens)
  BY UpsExist
<1>2. PICK k \in 0..MaxTokens : F[k] = t
  BY <1>1, AboveIs
<1>3. F[0] = y /\ t # None /\ R[t] \in Nat /\ R[y] \in Nat
  BY <1>1, UpsAre, FormedTokens DEF Ranks, Tokens
<1>4. CASE k = 0
  BY <1>2, <1>3, <1>4
<1>5. CASE k # 0
  <2>1. 0 \in 0..MaxTokens /\ 0 < k
    BY <1>5
  <2>2. R[F[k]] < R[F[0]]
    BY <1>1, <1>2, <1>3, <2>1, UpsRank
  <2> QED BY <1>2, <1>3, <2>2
<1> QED BY <1>4, <1>5

-----------------------------------------------------------------------------
(* Children and parents. *)
Kids(tokens, p) == {t \in DOMAIN tokens : tokens[t].parent = p}

(* A token lists the tokens whose parent it is, each once. *)
Bound(tokens) ==
    \A p \in DOMAIN tokens : Lists(tokens[p].child, DOMAIN tokens, Kids(tokens, p))

LEMMA Forms ==
  ASSUME NEW size \in Nat, NEW w, w = [t \in 1..size |-> w[t]],
         \A t \in 1..size : /\ Fields \subseteq DOMAIN w[t]
                         /\ w[t].parent \in 1..size \union {None}
                         /\ w[t].child \in Seq(1..size)
  PROVE  Formed(w) /\ Len(w) = size /\ DOMAIN w = 1..size
<1> DEFINE S == {w[t] : t \in 1..size}
<1>1. w \in [1..size -> S] /\ DOMAIN w = 1..size
  OBVIOUS
<1> HIDE DEF S
<1>2. w \in Seq(S) /\ Len(w) = size
  BY <1>1, FunctionIsSeq
<1> QED BY <1>1, <1>2 DEF Formed

LEMMA FieldSet ==
  ASSUME NEW r, NEW f \in DOMAIN r, NEW x
  PROVE  LET q == [r EXCEPT ![f] = x]
         IN  DOMAIN q = DOMAIN r /\ q[f] = x /\ \A g \in DOMAIN r : g # f => q[g] = r[g]
OBVIOUS

WithChild(tokens, p, c) == [tokens EXCEPT ![p].child = c]
WithParent(tokens, t, q) == [tokens EXCEPT ![t].parent = q]

LEMMA ChildSet ==
  ASSUME NEW tokens, Formed(tokens), NEW p \in DOMAIN tokens, NEW c \in Seq(DOMAIN tokens)
  PROVE  LET w == WithChild(tokens, p, c)
         IN  /\ Formed(w) /\ Len(w) = Len(tokens) /\ DOMAIN w = DOMAIN tokens
             /\ \A t \in DOMAIN tokens : /\ w[t].parent = tokens[t].parent
                                         /\ w[t].child = IF t = p THEN c ELSE tokens[t].child
<1> DEFINE w == WithChild(tokens, p, c)
           size == Len(tokens)
<1>1. size \in Nat /\ DOMAIN tokens = 1..size
  BY FormedTokens
<1>2. w = [t \in 1..size |-> w[t]]
  BY <1>1 DEF WithChild
<1>3. \A t \in 1..size : t # p => w[t] = tokens[t]
  BY <1>1 DEF WithChild
<1>4. w[p] = [tokens[p] EXCEPT !.child = c]
  BY DEF WithChild
<1>5. "child" \in DOMAIN tokens[p] /\ "parent" \in DOMAIN tokens[p]
  BY DEF Formed, Fields
<1>6. w[p].child = c /\ w[p].parent = tokens[p].parent /\ DOMAIN w[p] = DOMAIN tokens[p]
  BY <1>4, <1>5, FieldSet
<1> HIDE DEF w
<1>7. \A t \in 1..size : /\ Fields \subseteq DOMAIN w[t]
                      /\ w[t].parent \in 1..size \union {None}
                      /\ w[t].child \in Seq(1..size)
  <2> TAKE t \in 1..size
  <2>1. /\ Fields \subseteq DOMAIN tokens[t]
        /\ tokens[t].parent \in 1..size \union {None}
        /\ tokens[t].child \in Seq(1..size)
    BY <1>1 DEF Formed
  <2>2. CASE t = p
    BY <1>1, <1>6, <2>1, <2>2
  <2>3. CASE t # p
    BY <1>3, <2>1, <2>3
  <2> QED BY <2>2, <2>3
<1> HIDE DEF size
<1>8. Formed(w) /\ Len(w) = size /\ DOMAIN w = 1..size
  BY <1>1, <1>2, <1>7, Forms
<1>9. \A t \in DOMAIN tokens : /\ w[t].parent = tokens[t].parent
                               /\ w[t].child = IF t = p THEN c ELSE tokens[t].child
  BY <1>1, <1>3, <1>6
<1> QED BY <1>1, <1>8, <1>9 DEF w, size

LEMMA ParentSet ==
  ASSUME NEW tokens, Formed(tokens), NEW t \in DOMAIN tokens, NEW q \in DOMAIN tokens \union {None}
  PROVE  LET w == WithParent(tokens, t, q)
         IN  /\ Formed(w) /\ Len(w) = Len(tokens) /\ DOMAIN w = DOMAIN tokens
             /\ \A y \in DOMAIN tokens : /\ w[y].parent = IF y = t THEN q ELSE tokens[y].parent
                                         /\ w[y].child = tokens[y].child
<1> DEFINE w == WithParent(tokens, t, q)
           size == Len(tokens)
<1>1. size \in Nat /\ DOMAIN tokens = 1..size
  BY FormedTokens
<1>2. w = [y \in 1..size |-> w[y]]
  BY <1>1 DEF WithParent
<1>3. \A y \in 1..size : y # t => w[y] = tokens[y]
  BY <1>1 DEF WithParent
<1>4. w[t] = [tokens[t] EXCEPT !.parent = q]
  BY DEF WithParent
<1>5. "child" \in DOMAIN tokens[t] /\ "parent" \in DOMAIN tokens[t]
  BY DEF Formed, Fields
<1>6. w[t].parent = q /\ w[t].child = tokens[t].child /\ DOMAIN w[t] = DOMAIN tokens[t]
  BY <1>4, <1>5, FieldSet
<1> HIDE DEF w
<1>7. \A y \in 1..size : /\ Fields \subseteq DOMAIN w[y]
                      /\ w[y].parent \in 1..size \union {None}
                      /\ w[y].child \in Seq(1..size)
  <2> TAKE y \in 1..size
  <2>1. /\ Fields \subseteq DOMAIN tokens[y]
        /\ tokens[y].parent \in 1..size \union {None}
        /\ tokens[y].child \in Seq(1..size)
    BY <1>1 DEF Formed
  <2>2. CASE y = t
    BY <1>1, <1>6, <2>1, <2>2
  <2>3. CASE y # t
    BY <1>3, <2>1, <2>3
  <2> QED BY <2>2, <2>3
<1> HIDE DEF size
<1>8. Formed(w) /\ Len(w) = size /\ DOMAIN w = 1..size
  BY <1>1, <1>2, <1>7, Forms
<1>9. \A y \in DOMAIN tokens : /\ w[y].parent = IF y = t THEN q ELSE tokens[y].parent
                               /\ w[y].child = tokens[y].child
  BY <1>1, <1>3, <1>6
<1> QED BY <1>1, <1>8, <1>9 DEF w, size

(* What an operation that keeps the tokens leaves. *)
Keeps(w, tokens) == Formed(w) /\ Bound(w) /\ Len(w) = Len(tokens) /\ DOMAIN w = DOMAIN tokens

LEMMA RemovedKeeps ==
  ASSUME NEW tokens, Formed(tokens), Bound(tokens), NEW e \in DOMAIN tokens, NEW t \in DOMAIN tokens
  PROVE  LET w == Removed(tokens, e, t)
         IN  /\ Keeps(w, tokens)
             /\ \A y \in DOMAIN tokens :
                  w[y].parent = IF y = t /\ tokens[t].parent = e THEN None ELSE tokens[y].parent
<1> DEFINE c == RemoveFirst(tokens[e].child, t)
           v == WithChild(tokens, e, c)
           w == WithParent(v, t, None)
<1>1. Lists(tokens[e].child, DOMAIN tokens, Kids(tokens, e))
  BY DEF Bound
<1>2. t \in ToSet(tokens[e].child) <=> tokens[t].parent = e
  BY <1>1 DEF Lists, Kids
<1>3. CASE tokens[t].parent # e
  <2>1. Removed(tokens, e, t) = tokens
    BY <1>2, <1>3 DEF Removed
  <2> QED BY <1>3, <2>1 DEF Keeps
<1>4. CASE tokens[t].parent = e
  <2>1. Removed(tokens, e, t) = w
    BY <1>2, <1>4 DEF Removed, WithChild, WithParent
  <2>2. Lists(c, DOMAIN tokens, Kids(tokens, e) \ {t})
    BY <1>1, <1>4, ListsRemove DEF Kids
  <2> HIDE DEF c
  <2>3. c \in Seq(DOMAIN tokens)
    BY <2>2 DEF Lists
  <2>4. /\ Formed(v) /\ Len(v) = Len(tokens) /\ DOMAIN v = DOMAIN tokens
        /\ \A y \in DOMAIN tokens : /\ v[y].parent = tokens[y].parent
                                    /\ v[y].child = IF y = e THEN c ELSE tokens[y].child
    BY <2>3, ChildSet
  <2> HIDE DEF v
  <2>5. /\ Formed(w) /\ Len(w) = Len(v) /\ DOMAIN w = DOMAIN v
        /\ \A y \in DOMAIN v : /\ w[y].parent = IF y = t THEN None ELSE v[y].parent
                               /\ w[y].child = v[y].child
    <3>1. Formed(v) /\ t \in DOMAIN v /\ None \in DOMAIN v \union {None}
      BY <2>4
    <3> QED BY <3>1, ParentSet
  <2> HIDE DEF w
  <2>6. ASSUME NEW p \in DOMAIN w
        PROVE  Lists(w[p].child, DOMAIN w, Kids(w, p))
    <3>1. Lists(tokens[p].child, DOMAIN tokens, Kids(tokens, p)) /\ p # None
      BY <2>4, <2>5, FormedTokens DEF Bound
    <3>2. CASE p = e
      <4>1. Kids(w, p) = Kids(tokens, e) \ {t}
        BY <2>4, <2>5, <3>1, <3>2 DEF Kids
      <4> QED BY <2>2, <2>4, <2>5, <3>2, <4>1
    <3>3. CASE p # e
      <4>1. Kids(w, p) = Kids(tokens, p)
        BY <1>4, <2>4, <2>5, <3>1, <3>3 DEF Kids
      <4> QED BY <2>4, <2>5, <3>1, <3>3, <4>1
    <3> QED BY <3>2, <3>3
  <2> QED BY <1>4, <2>1, <2>4, <2>5, <2>6 DEF Keeps, Bound
<1> QED BY <1>3, <1>4

LEMMA UnboundKeeps ==
  ASSUME NEW tokens, Formed(tokens), Bound(tokens), NEW t \in DOMAIN tokens
  PROVE  LET w == Unbound(tokens, t)
         IN  /\ Keeps(w, tokens)
             /\ \A y \in DOMAIN tokens :
                  w[y].parent = IF y = t THEN None ELSE tokens[y].parent
<1>1. CASE tokens[t].parent = None
  <2>1. Unbound(tokens, t) = tokens
    BY <1>1 DEF Unbound
  <2> QED BY <1>1, <2>1 DEF Keeps
<1>2. CASE tokens[t].parent # None
  <2> DEFINE e == tokens[t].parent
  <2>1. Unbound(tokens, t) = Removed(tokens, e, t) /\ e \in DOMAIN tokens
    BY <1>2 DEF Unbound, Formed
  <2>2. /\ Keeps(Removed(tokens, e, t), tokens)
        /\ \A y \in DOMAIN tokens :
             Removed(tokens, e, t)[y].parent = IF y = t /\ tokens[t].parent = e THEN None
                                               ELSE tokens[y].parent
    <3> HIDE DEF e
    <3> QED BY <2>1, RemovedKeeps
  <2> QED BY <2>1, <2>2
<1> QED BY <1>1, <1>2

(* A token without a parent is put in the list of e. *)
Put(u, e, t, c) == WithParent(WithChild(u, e, c), t, e)

LEMMA PutKeeps ==
  ASSUME NEW u, Formed(u), Bound(u), NEW e \in DOMAIN u, NEW t \in DOMAIN u,
         u[t].parent = None, NEW c, NEW C, Lists(c, DOMAIN u, C), C = Kids(u, e) \union {t}
  PROVE  LET w == Put(u, e, t, c)
         IN  /\ Keeps(w, u)
             /\ \A y \in DOMAIN u : w[y].parent = IF y = t THEN e ELSE u[y].parent
<1> DEFINE v == WithChild(u, e, c)
           w == WithParent(v, t, e)
<1>0. Put(u, e, t, c) = w
  BY DEF Put
<1>1. c \in Seq(DOMAIN u)
  BY DEF Lists
<1>2. /\ Formed(v) /\ Len(v) = Len(u) /\ DOMAIN v = DOMAIN u
      /\ \A y \in DOMAIN u : /\ v[y].parent = u[y].parent
                             /\ v[y].child = IF y = e THEN c ELSE u[y].child
  BY <1>1, ChildSet
<1> HIDE DEF v
<1>3. /\ Formed(w) /\ Len(w) = Len(v) /\ DOMAIN w = DOMAIN v
      /\ \A y \in DOMAIN v : /\ w[y].parent = IF y = t THEN e ELSE v[y].parent
                             /\ w[y].child = v[y].child
  <2>1. Formed(v) /\ t \in DOMAIN v /\ e \in DOMAIN v \union {None}
    BY <1>2
  <2> QED BY <2>1, ParentSet
<1> HIDE DEF w
<1>4. ASSUME NEW p \in DOMAIN w
      PROVE  Lists(w[p].child, DOMAIN w, Kids(w, p))
  <2>1. Lists(u[p].child, DOMAIN u, Kids(u, p)) /\ p # None
    BY <1>2, <1>3, FormedTokens DEF Bound
  <2>2. CASE p = e
    <3>1. Kids(w, p) = Kids(u, e) \union {t}
      BY <1>2, <1>3, <2>1, <2>2 DEF Kids
    <3> QED BY <1>2, <1>3, <2>2, <3>1
  <2>3. CASE p # e
    <3>1. Kids(w, p) = Kids(u, p)
      BY <1>2, <1>3, <2>1, <2>3 DEF Kids
    <3> QED BY <1>2, <1>3, <2>1, <2>3, <3>1
  <2> QED BY <2>2, <2>3
<1> QED BY <1>0, <1>2, <1>3, <1>4 DEF Keeps, Bound

LEMMA AppendedKeeps ==
  ASSUME NEW tokens, Formed(tokens), Bound(tokens), NEW e \in DOMAIN tokens, NEW t \in DOMAIN tokens
  PROVE  LET w == Appended(tokens, e, t)
         IN  /\ Keeps(w, tokens)
             /\ \A y \in DOMAIN tokens : w[y].parent = IF y = t THEN e ELSE tokens[y].parent
<1> DEFINE u == Unbound(tokens, t)
           c == Append(u[e].child, t)
           w == Put(u, e, t, c)
<1>1. /\ Keeps(u, tokens)
      /\ \A y \in DOMAIN tokens : u[y].parent = IF y = t THEN None ELSE tokens[y].parent
  BY UnboundKeeps
<1>2. Appended(tokens, e, t) = w
  BY DEF Appended, Put, WithChild, WithParent
<1> HIDE DEF u
<1>3. /\ Formed(u) /\ Bound(u) /\ Len(u) = Len(tokens) /\ DOMAIN u = DOMAIN tokens
      /\ e \in DOMAIN u /\ t \in DOMAIN u /\ u[t].parent = None /\ e # None
  BY <1>1, FormedTokens DEF Keeps
<1>4. Lists(c, DOMAIN u, Kids(u, e) \union {t})
  <2>1. Lists(u[e].child, DOMAIN u, Kids(u, e)) /\ t \notin Kids(u, e)
    BY <1>3 DEF Bound, Kids
  <2> QED BY <1>3, <2>1, ListsAppend
<1> HIDE DEF c
<1>5. Keeps(w, u) /\ \A y \in DOMAIN u : w[y].parent = IF y = t THEN e ELSE u[y].parent
  <2> DEFINE C == Kids(u, e) \union {t}
  <2>1. /\ Formed(u) /\ Bound(u) /\ e \in DOMAIN u /\ t \in DOMAIN u /\ u[t].parent = None
        /\ Lists(c, DOMAIN u, C) /\ C = Kids(u, e) \union {t}
    BY <1>3, <1>4
  <2> HIDE DEF C
  <2> QED BY ONLY <2>1, PutKeeps
<1> HIDE DEF w
<1> QED BY <1>1, <1>2, <1>3, <1>5 DEF Keeps

LEMMA InsertedKeeps ==
  ASSUME NEW tokens, Formed(tokens), Bound(tokens), NEW e \in DOMAIN tokens, NEW t \in DOMAIN tokens,
         NEW ex
  PROVE  LET w == Inserted(tokens, e, ex, t)
         IN  /\ Keeps(w, tokens)
             /\ \A y \in DOMAIN tokens : w[y].parent = IF y = t THEN e ELSE tokens[y].parent
<1> DEFINE u == Unbound(tokens, t)
           s == u[e].child
           i == SelectInSeq(s, LAMBDA v : v = ex)
           c == IF i = 0 THEN Append(s, t) ELSE InsertAt(s, i, t)
           w == Put(u, e, t, c)
<1>1. /\ Keeps(u, tokens)
      /\ \A y \in DOMAIN tokens : u[y].parent = IF y = t THEN None ELSE tokens[y].parent
  BY UnboundKeeps
<1>2. Inserted(tokens, e, ex, t) = w
  BY DEF Inserted, Put, WithChild, WithParent
<1>6. i = 0 \/ i \in 1..Len(s)
  <2> HIDE DEF s
  <2> DEFINE I == {k \in 1..Len(s) : s[k] = ex}
  <2>1. i = IF I # {} THEN Min(I) ELSE 0
    BY DEF SelectInSeq
  <2>2. I \in SUBSET Nat /\ I \subseteq 1..Len(s)
    OBVIOUS
  <2> HIDE DEF I, i
  <2>3. I # {} => Min(I) \in I
    BY <2>2, LeastIsLeast
  <2> QED BY <2>1, <2>2, <2>3
<1> HIDE DEF u, i
<1>3. /\ Formed(u) /\ Bound(u) /\ Len(u) = Len(tokens) /\ DOMAIN u = DOMAIN tokens
      /\ e \in DOMAIN u /\ t \in DOMAIN u /\ u[t].parent = None /\ e # None
  BY <1>1, FormedTokens DEF Keeps
<1>4. Lists(c, DOMAIN u, Kids(u, e) \union {t})
  <2>1. Lists(s, DOMAIN u, Kids(u, e)) /\ t \notin Kids(u, e)
    BY <1>3 DEF Bound, Kids
  <2> HIDE DEF s
  <2>2. CASE i = 0
    <3>1. Lists(Append(s, t), DOMAIN u, Kids(u, e) \union {t})
      BY <1>3, <2>1, ListsAppend
    <3> QED BY <2>2, <3>1
  <2>3. CASE i # 0
    <3>1. Lists(InsertAt(s, i, t), DOMAIN u, Kids(u, e) \union {t})
      BY <1>3, <1>6, <2>1, <2>3, ListsInsert
    <3> QED BY <2>3, <3>1
  <2> QED BY <2>2, <2>3
<1> HIDE DEF c
<1>5. Keeps(w, u) /\ \A y \in DOMAIN u : w[y].parent = IF y = t THEN e ELSE u[y].parent
  <2> DEFINE C == Kids(u, e) \union {t}
  <2>1. /\ Formed(u) /\ Bound(u) /\ e \in DOMAIN u /\ t \in DOMAIN u /\ u[t].parent = None
        /\ Lists(c, DOMAIN u, C) /\ C = Kids(u, e) \union {t}
    BY <1>3, <1>4
  <2> HIDE DEF C
  <2> QED BY ONLY <2>1, PutKeeps
<1> HIDE DEF w
<1> QED BY <1>1, <1>2, <1>3, <1>5 DEF Keeps

LEMMA RootedKeeps ==
  ASSUME NEW tokens, Formed(tokens), Bound(tokens), Doc \in DOMAIN tokens, tokens[Doc].parent = None,
         NEW e \in DOMAIN tokens, e # Doc
  PROVE  LET w == Rooted(tokens, e)
         IN  /\ Keeps(w, tokens) /\ w[e].parent = Doc /\ w[Doc].parent = None
             /\ \A y \in DOMAIN tokens : y # e => w[y].parent \in {None, tokens[y].parent}
<1> DEFINE u == Unbound(tokens, e)
           s == u[Doc].child
           i == SelectInSeq(s, LAMBDA c : u[c].kind = "element")
<1>1. /\ Keeps(u, tokens)
      /\ \A y \in DOMAIN tokens : u[y].parent = IF y = e THEN None ELSE tokens[y].parent
  BY UnboundKeeps
<1>2. i = 0 \/ i \in 1..Len(s)
  <2> DEFINE I == {k \in 1..Len(s) : u[s[k]].kind = "element"}
  <2>1. i = IF I # {} THEN Min(I) ELSE 0
    BY DEF SelectInSeq
  <2>2. I \in SUBSET Nat /\ I \subseteq 1..Len(s)
    OBVIOUS
  <2> HIDE DEF I, i, s, u
  <2>3. I # {} => Min(I) \in I
    BY <2>2, LeastIsLeast
  <2> QED BY <2>1, <2>2, <2>3
<1> DEFINE v == Put(u, Doc, e, Append(s, e))
           d == [s EXCEPT ![i] = e]
           r == s[i]
           x == WithParent(u, r, None)
           a == WithChild(x, Doc, d)
           z == WithParent(a, e, Doc)
<1>3. Rooted(tokens, e) = IF i = 0 THEN v ELSE [[x EXCEPT ![Doc].child[i] = e] EXCEPT ![e].parent = Doc]
  BY DEF Rooted, Put, WithChild, WithParent
<1> HIDE DEF u, i
<1>4. /\ Formed(u) /\ Bound(u) /\ Len(u) = Len(tokens) /\ DOMAIN u = DOMAIN tokens
      /\ e \in DOMAIN u /\ Doc \in DOMAIN u /\ u[e].parent = None /\ u[Doc].parent = None /\ Doc # None
  BY <1>1, FormedTokens DEF Keeps
<1>5. Lists(s, DOMAIN u, Kids(u, Doc)) /\ e \notin Kids(u, Doc)
  BY <1>4 DEF Bound, Kids
<1>6. CASE i = 0
  <2> HIDE DEF s
  <2>1. Lists(Append(s, e), DOMAIN u, Kids(u, Doc) \union {e})
    BY <1>4, <1>5, ListsAppend
  <2>2. Keeps(v, u) /\ \A y \in DOMAIN u : v[y].parent = IF y = e THEN Doc ELSE u[y].parent
    <3> DEFINE c == Append(s, e)
               C == Kids(u, Doc) \union {e}
    <3>1. Lists(c, DOMAIN u, C) /\ C = Kids(u, Doc) \union {e}
      BY <2>1
    <3> HIDE DEF c, C
    <3> DEFINE d0 == Doc
    <3>3. Formed(u) /\ Bound(u) /\ d0 \in DOMAIN u /\ e \in DOMAIN u /\ u[e].parent = None
          /\ Lists(c, DOMAIN u, C) /\ C = Kids(u, d0) \union {e}
      BY <1>4, <3>1
    <3> HIDE DEF d0
    <3>2. Keeps(Put(u, d0, e, c), u)
          /\ \A y \in DOMAIN u : Put(u, d0, e, c)[y].parent = IF y = e THEN d0 ELSE u[y].parent
      BY ONLY <3>3, PutKeeps
    <3> QED BY <3>2 DEF c, d0
  <2> HIDE DEF v
  <2> QED BY <1>1, <1>3, <1>4, <1>6, <2>2 DEF Keeps
<1>7. CASE i # 0
  <2>1. r \in Kids(u, Doc) /\ r \in DOMAIN u /\ i \in 1..Len(s)
    BY <1>2, <1>5, <1>7, ListsPlaces
  <2>2. r # e /\ r # Doc /\ u[r].parent = Doc
    BY <1>4, <2>1 DEF Kids
  <2>3. Lists(d, DOMAIN u, (Kids(u, Doc) \ {r}) \union {e})
    <3> HIDE DEF s
    <3> QED BY <1>4, <1>5, <2>1, ListsReplace
  <2>4. /\ Formed(x) /\ Len(x) = Len(u) /\ DOMAIN x = DOMAIN u
        /\ \A y \in DOMAIN u : /\ x[y].parent = IF y = r THEN None ELSE u[y].parent
                               /\ x[y].child = u[y].child
    <3>1. Formed(u) /\ r \in DOMAIN u /\ None \in DOMAIN u \union {None}
      BY <1>4, <2>1
    <3> HIDE DEF r
    <3> QED BY ONLY <3>1, ParentSet
  <2>5. [[x EXCEPT ![Doc].child[i] = e] EXCEPT ![e].parent = Doc] = z
    <3>1. x[Doc].child = s
      BY <1>4, <2>4
    <3> HIDE DEF x, s
    <3>2. [x EXCEPT ![Doc].child[i] = e] = [x EXCEPT ![Doc].child = d]
      BY <3>1
    <3> QED BY <3>2 DEF WithChild, WithParent
  <2> HIDE DEF x, d, r, s
  <2>7. /\ Formed(a) /\ Len(a) = Len(x) /\ DOMAIN a = DOMAIN x
        /\ \A y \in DOMAIN x : /\ a[y].parent = x[y].parent
                               /\ a[y].child = IF y = Doc THEN d ELSE x[y].child
    <3>1. Doc \in DOMAIN x /\ d \in Seq(DOMAIN x)
      BY <1>4, <2>3, <2>4 DEF Lists
    <3> QED BY <2>4, <3>1, ChildSet
  <2> HIDE DEF a
  <2>8. /\ Formed(z) /\ Len(z) = Len(a) /\ DOMAIN z = DOMAIN a
        /\ \A y \in DOMAIN a : /\ z[y].parent = IF y = e THEN Doc ELSE a[y].parent
                               /\ z[y].child = a[y].child
    <3>1. Formed(a) /\ e \in DOMAIN a /\ Doc \in DOMAIN a \union {None}
      BY <1>4, <2>4, <2>7
    <3> QED BY <3>1, ParentSet
  <2> HIDE DEF z
  <2>9. ASSUME NEW p \in DOMAIN z
        PROVE  Lists(z[p].child, DOMAIN z, Kids(z, p))
    <3>0. p \in DOMAIN u /\ DOMAIN z = DOMAIN u
      BY <2>4, <2>7, <2>8
    <3>1. Lists(u[p].child, DOMAIN u, Kids(u, p)) /\ p # None
      BY <1>4, <3>0, FormedTokens DEF Bound
    <3>2. CASE p = Doc
      <4>1. Kids(z, p) = (Kids(u, Doc) \ {r}) \union {e}
        BY <1>4, <2>1, <2>2, <2>4, <2>7, <2>8, <3>1, <3>2 DEF Kids
      <4>2. z[p].child = d
        BY <2>4, <2>7, <2>8, <3>0, <3>2
      <4> QED BY <2>3, <3>0, <4>1, <4>2
    <3>3. CASE p # Doc
      <4>1. Kids(z, p) = Kids(u, p)
        <5>1. \A y \in DOMAIN u : z[y].parent = p <=> u[y].parent = p
          BY <1>4, <2>2, <2>4, <2>7, <2>8, <3>1, <3>3
        <5> QED BY <3>0, <5>1 DEF Kids
      <4>2. z[p].child = u[p].child
        BY <2>4, <2>7, <2>8, <3>0, <3>3
      <4> QED BY <3>0, <3>1, <4>1, <4>2
    <3> QED BY <3>2, <3>3
  <2>10. Rooted(tokens, e) = z
    BY <1>3, <1>7, <2>5
  <2>11. \A y \in DOMAIN u : z[y].parent = IF y = e THEN Doc ELSE IF y = r THEN None ELSE u[y].parent
    BY <2>4, <2>7, <2>8
  <2>12. Keeps(z, tokens)
    BY <1>4, <2>4, <2>7, <2>8, <2>9 DEF Keeps, Bound
  <2>13. \A y \in DOMAIN tokens : y # e => z[y].parent \in {None, tokens[y].parent}
    BY <1>1, <1>4, <2>11
  <2> QED BY <1>4, <2>2, <2>10, <2>11, <2>12, <2>13
<1> QED BY <1>6, <1>7

-----------------------------------------------------------------------------
(* What each operation leaves. *)
Sound(tokens) ==
    /\ Formed(tokens) /\ Bound(tokens) /\ Ranked(tokens)
    /\ Doc \in DOMAIN tokens /\ tokens[Doc].parent = None

(* Parents are left or lost. *)
LEMMA Loosened ==
  ASSUME NEW tokens, Ranked(tokens), NEW w, DOMAIN w = DOMAIN tokens,
         \A y \in DOMAIN tokens : w[y].parent \in {None, tokens[y].parent}
  PROVE  Ranked(w)
<1>1. PICK R : Ranks(R, tokens)
  BY DEF Ranked
<1>2. Ranks(R, w)
  BY <1>1 DEF Ranks
<1> QED BY <1>2 DEF Ranked

(* t gets the parent e, which is not under t. *)
LEMMA Reparented ==
  ASSUME Formed(tree), Ranked(tree), MaxTokens \in Nat, Len(tree) <= MaxTokens,
         NEW t \in Tokens, NEW e \in Tokens, ~IsAbove(t, e),
         NEW w, DOMAIN w = Tokens, w[t].parent = e,
         \A y \in Tokens : y # t => w[y].parent \in {None, tree[y].parent}
  PROVE  Ranked(w)
<1>1. PICK R : Ranks(R, tree)
  BY DEF Ranked
<1>2. /\ \A y \in Tokens : R[y] \in Nat
      /\ \A y \in Tokens : tree[y].parent # None => R[tree[y].parent] < R[y]
      /\ \A y \in Tokens : tree[y].parent \in Tokens \union {None}
  BY <1>1 DEF Ranks, Tokens, Formed
<1> DEFINE Q == [y \in Tokens |-> IF IsAbove(t, y) THEN R[y] + R[e] + 1 ELSE R[y]]
<1>3. IsAbove(t, t)
  BY AboveStep
<1>4. \A y \in Tokens : Q[y] = IF IsAbove(t, y) THEN R[y] + R[e] + 1 ELSE R[y]
  OBVIOUS
<1>5. Q \in [Tokens -> Nat]
  BY <1>2
<1> HIDE DEF Q
<1>6. ASSUME NEW y \in Tokens, w[y].parent # None
      PROVE  Q[w[y].parent] < Q[y]
  <2>1. CASE y = t
    <3>1. Q[e] = R[e] /\ Q[t] = R[t] + R[e] + 1
      BY <1>3, <1>4
    <3>2. R[e] \in Nat /\ R[t] \in Nat
      BY <1>2
    <3> QED BY <2>1, <3>1, <3>2
  <2>2. CASE y # t
    <3> DEFINE p == tree[y].parent
    <3>1. w[y].parent = p /\ p \in Tokens /\ R[p] < R[y] /\ R[p] \in Nat /\ R[y] \in Nat /\ R[e] \in Nat
      BY <1>2, <1>6, <2>2
    <3>2. IsAbove(t, y) <=> IsAbove(t, p)
      BY <1>2, <1>6, <2>2, <3>1, AboveStep
    <3>3. Q[p] = (IF IsAbove(t, p) THEN R[p] + R[e] + 1 ELSE R[p])
      BY <1>4, <3>1
    <3>4. Q[y] = (IF IsAbove(t, y) THEN R[y] + R[e] + 1 ELSE R[y])
      BY <1>4
    <3> HIDE DEF p
    <3> QED BY <3>1, <3>2, <3>3, <3>4
  <2> QED BY <2>1, <2>2
<1>7. Ranks(Q, w)
  BY <1>5, <1>6 DEF Ranks
<1> QED BY <1>7 DEF Ranked

LEMMA RemovedIsSound ==
  ASSUME NEW tokens, Sound(tokens), NEW e \in DOMAIN tokens, NEW t \in DOMAIN tokens
  PROVE  Sound(Removed(tokens, e, t)) /\ Len(Removed(tokens, e, t)) = Len(tokens)
<1> DEFINE w == Removed(tokens, e, t)
<1>1. /\ Keeps(w, tokens)
      /\ \A y \in DOMAIN tokens :
           w[y].parent = IF y = t /\ tokens[t].parent = e THEN None ELSE tokens[y].parent
  BY RemovedKeeps DEF Sound
<1> HIDE DEF w
<1>2. Ranked(w)
  BY <1>1, Loosened DEF Sound, Keeps
<1>3. Sound(w) /\ Len(w) = Len(tokens)
  BY <1>1, <1>2 DEF Sound, Keeps
<1> QED BY <1>3 DEF w

LEMMA MovedIsSound ==
  ASSUME Sound(tree), MaxTokens \in Nat, Len(tree) <= MaxTokens,
         NEW e \in Tokens, NEW t \in Tokens, t # Doc, ~IsAbove(t, e), NEW w, Keeps(w, tree),
         w[t].parent = e, \A y \in Tokens : y # t => w[y].parent \in {None, tree[y].parent}
  PROVE  Sound(w) /\ Len(w) = Len(tree)
<1>1. Ranked(w)
  <2>1. DOMAIN w = Tokens /\ Formed(tree) /\ Ranked(tree)
    BY DEF Keeps, Tokens, Sound
  <2> QED BY <2>1, Reparented
<1> QED BY <1>1 DEF Sound, Keeps, Tokens

(* A change of a field other than child and parent. *)
WithField(tokens, t, f, x) == [tokens EXCEPT ![t] = [tokens[t] EXCEPT ![f] = x]]

LEMMA OtherFieldIsSound ==
  ASSUME NEW tokens, Sound(tokens), NEW t \in DOMAIN tokens, NEW f \in Fields \ {"child", "parent"}, NEW x
  PROVE  Sound(WithField(tokens, t, f, x)) /\ Len(WithField(tokens, t, f, x)) = Len(tokens)
<1> DEFINE size == Len(tokens)
           w == WithField(tokens, t, f, x)
<1>1. size \in Nat /\ DOMAIN tokens = 1..size
  BY FormedTokens DEF Sound
<1>2. w = [y \in 1..size |-> w[y]]
  BY <1>1 DEF WithField
<1>3. \A y \in 1..size : y # t => w[y] = tokens[y]
  BY <1>1 DEF WithField
<1>4. w[t] = [tokens[t] EXCEPT ![f] = x]
  BY DEF WithField
<1> HIDE DEF w
<1>5. "child" \in DOMAIN tokens[t] /\ "parent" \in DOMAIN tokens[t] /\ f \in DOMAIN tokens[t]
  BY DEF Sound, Formed, Fields
<1>6. w[t].parent = tokens[t].parent /\ w[t].child = tokens[t].child /\ DOMAIN w[t] = DOMAIN tokens[t]
  <2> DEFINE q == [tokens[t] EXCEPT ![f] = x]
  <2>1. DOMAIN q = DOMAIN tokens[t] /\ \A g \in DOMAIN tokens[t] : g # f => q[g] = tokens[t][g]
    BY <1>5, FieldSet
  <2> HIDE DEF q
  <2>2. w[t] = q
    BY <1>4 DEF q
  <2>3. "child" # f /\ "parent" # f
    OBVIOUS
  <2>4. q["child"] = tokens[t]["child"] /\ q["parent"] = tokens[t]["parent"]
    BY <1>5, <2>1, <2>3
  <2> QED BY <2>1, <2>2, <2>4
<1>7. \A y \in 1..size : /\ Fields \subseteq DOMAIN tokens[y]
                      /\ tokens[y].parent \in 1..size \union {None}
                      /\ tokens[y].child \in Seq(1..size)
  BY <1>1 DEF Sound, Formed
<1>8. \A y \in 1..size : /\ w[y].parent = tokens[y].parent
                      /\ w[y].child = tokens[y].child
                      /\ Fields \subseteq DOMAIN w[y]
  BY <1>3, <1>6, <1>7
<1>9. Formed(w) /\ Len(w) = size /\ DOMAIN w = 1..size
  <2> HIDE DEF size
  <2>1. \A y \in 1..size : /\ Fields \subseteq DOMAIN w[y]
                        /\ w[y].parent \in 1..size \union {None}
                        /\ w[y].child \in Seq(1..size)
    BY <1>7, <1>8
  <2> QED BY ONLY <1>1, <1>2, <2>1, Forms
<1>10. ASSUME NEW p \in 1..size
       PROVE  Lists(w[p].child, 1..size, Kids(w, p))
  <2>1. Lists(tokens[p].child, 1..size, Kids(tokens, p))
    BY <1>1 DEF Sound, Bound
  <2>2. Kids(w, p) = Kids(tokens, p)
    BY <1>1, <1>8, <1>9 DEF Kids
  <2> QED BY <1>8, <2>1, <2>2
<1>11. Ranked(w)
  <2>1. DOMAIN w = DOMAIN tokens /\ \A y \in DOMAIN tokens : w[y].parent \in {None, tokens[y].parent}
    BY <1>1, <1>8, <1>9
  <2>2. Ranked(tokens)
    BY DEF Sound
  <2> QED BY ONLY <2>1, <2>2, Loosened
<1>12. Doc \in DOMAIN w /\ w[Doc].parent = None
  BY <1>1, <1>8, <1>9 DEF Sound
<1> QED BY <1>9, <1>10, <1>11, <1>12 DEF Sound, Bound, w

(* A new token has no children yet. *)
Fresh(token) == Fields \subseteq DOMAIN token /\ token.child = <<>>

LEMMA TokenIsFresh ==
  ASSUME NEW k, NEW s, NEW d
  PROVE  Fresh(Token(k, s, d)) /\ "blank" \in DOMAIN Token(k, s, d)
BY DEF Fresh, Fields, Token

(* All tokens of before are there, with their parents; the last one has the parent p. *)
Grows(w, tokens, p) ==
    /\ Len(w) = Len(tokens) + 1
    /\ \A t \in DOMAIN tokens : t \in DOMAIN w /\ w[t].parent = tokens[t].parent
    /\ Len(tokens) + 1 \in DOMAIN w /\ w[Len(tokens) + 1].parent = p

LEMMA WiderList ==
  ASSUME NEW size \in Nat, NEW s \in Seq(1..size)
  PROVE  s \in Seq(1..(size + 1))
<1> DEFINE S == 1..size
           T == 1..(size + 1)
<1>1. S \subseteq T /\ s \in Seq(S)
  OBVIOUS
<1> HIDE DEF S, T
<1>2. s \in Seq(T)
  BY <1>1, SeqMonotonic
<1> QED BY <1>2 DEF T

LEMMA CreatedIsSound ==
  ASSUME NEW tokens, Sound(tokens), NEW token, Fresh(token), NEW p \in DOMAIN tokens \union {None}
  PROVE  Sound(Created(tokens, token, p)) /\ Grows(Created(tokens, token, p), tokens, p)
<1> DEFINE size == Len(tokens)
           x == [token EXCEPT !.parent = p]
           all == Append(tokens, x)
           c == Append(all[p].child, size + 1)
           w == IF p = None THEN all ELSE WithChild(all, p, c)
<1>1. size \in Nat /\ DOMAIN tokens = 1..size /\ None \notin 1..size /\ Formed(tokens)
  BY FormedTokens DEF Sound
<1>2. Created(tokens, token, p) = w
  BY DEF Created, WithChild
<1>3. x.parent = p /\ x.child = <<>> /\ Fields \subseteq DOMAIN x
  <2>1. "parent" \in DOMAIN token /\ "child" \in DOMAIN token
    BY DEF Fresh, Fields
  <2>2. DOMAIN x = DOMAIN token /\ x["parent"] = p /\ x["child"] = token["child"]
    BY <2>1, FieldSet
  <2> QED BY <2>2 DEF Fresh
<1> HIDE DEF x
<1>4. /\ Len(all) = size + 1 /\ DOMAIN all = 1..(size + 1)
      /\ all[size + 1] = x /\ \A t \in 1..size : all[t] = tokens[t]
      /\ all = [t \in 1..(size + 1) |-> all[t]]
  <2>1. PICK S : tokens \in Seq(S)
    BY <1>1 DEF Formed
  <2> DEFINE T == S \union {x}
  <2>2. tokens \in Seq(T) /\ x \in T
    BY <2>1, SeqMonotonic
  <2> HIDE DEF T, size
  <2>3. /\ all \in Seq(T) /\ Len(all) = Len(tokens) + 1 /\ all[Len(tokens) + 1] = x
        /\ \A i \in 1..Len(tokens) : all[i] = tokens[i]
    BY <2>2, AppendProperties
  <2> HIDE DEF all
  <2>4. DOMAIN all = 1..Len(all) /\ all \in [1..Len(all) -> T]
    BY <2>3, LenProperties
  <2> QED BY <1>1, <2>3, <2>4 DEF size
<1>5. \A t \in 1..size : /\ Fields \subseteq DOMAIN tokens[t]
                      /\ tokens[t].parent \in 1..size \union {None}
                      /\ tokens[t].child \in Seq(1..size)
  BY <1>1 DEF Formed
<1>6. 1..size \subseteq 1..(size + 1) /\ size + 1 \in 1..(size + 1) /\ size + 1 \notin 1..size
  BY <1>1
<1>7. \A t \in 1..size : Lists(tokens[t].child, 1..size, Kids(tokens, t))
  BY <1>1 DEF Sound, Bound
<1> HIDE DEF all, size
<1>8. ASSUME NEW t \in 1..(size + 1)
      PROVE  /\ all[t].parent = (IF t = size + 1 THEN p ELSE tokens[t].parent)
             /\ all[t].child = (IF t = size + 1 THEN <<>> ELSE tokens[t].child)
             /\ Fields \subseteq DOMAIN all[t]
             /\ all[t].parent \in 1..(size + 1) \union {None}
             /\ all[t].child \in Seq(1..(size + 1))
             /\ t = size + 1 \/ t \in 1..size
  <2>1. CASE t = size + 1
    <3>1. <<>> \in Seq(1..(size + 1))
      BY EmptySeq
    <3> QED BY <1>1, <1>3, <1>4, <1>6, <2>1, <3>1
  <2>2. CASE t # size + 1
    <3>1. t \in 1..size
      BY <1>1, <2>2
    <3>2. tokens[t].child \in Seq(1..(size + 1))
      BY <1>1, <1>5, <3>1, WiderList
    <3> QED BY <1>4, <1>5, <1>6, <2>2, <3>1, <3>2
  <2> QED BY <2>1, <2>2
<1>9. Formed(all) /\ Len(all) = size + 1 /\ DOMAIN all = 1..(size + 1)
  <2>1. size + 1 \in Nat
    BY <1>1
  <2>2. \A t \in 1..(size + 1) : /\ Fields \subseteq DOMAIN all[t]
                              /\ all[t].parent \in 1..(size + 1) \union {None}
                              /\ all[t].child \in Seq(1..(size + 1))
    BY <1>8
  <2> QED BY <1>4, <2>1, <2>2, Forms
(* The lists of children, with more tokens to choose from. *)
<1>10. ASSUME NEW t \in 1..size
       PROVE  Lists(tokens[t].child, 1..(size + 1), Kids(tokens, t))
  <2>1. tokens[t].child \in Seq(1..(size + 1))
    BY <1>1, <1>5, WiderList
  <2> QED BY <1>7, <2>1 DEF Lists
<1>11. ASSUME NEW q \in 1..(size + 1)
       PROVE  Kids(all, q) = (IF q = size + 1 THEN {} ELSE Kids(tokens, q))
                               \union (IF p = q THEN {size + 1} ELSE {})
  <2>1. \A t \in 1..(size + 1) :
          all[t].parent = q <=> (t = size + 1 /\ p = q) \/ (t \in 1..size /\ tokens[t].parent = q)
    BY <1>6, <1>8
  <2>2. q = size + 1 => \A t \in 1..size : tokens[t].parent # q
    <3>1. size + 1 # None
      BY <1>1 DEF None
    <3> QED BY <1>5, <1>6, <3>1
  <2>3. \A t : t \in 1..(size + 1) <=> t = size + 1 \/ t \in 1..size
    BY <1>6, <1>8
  <2> QED BY <1>1, <1>4, <1>6, <2>1, <2>2, <2>3 DEF Kids
<1>12. Ranked(all)
  <2>1. PICK R : Ranks(R, tokens)
    BY DEF Sound, Ranked
  <2>2. /\ \A t \in 1..size : R[t] \in Nat
        /\ \A t \in 1..size : tokens[t].parent # None => R[tokens[t].parent] < R[t]
    BY <1>1, <2>1 DEF Ranks
  <2> DEFINE r == IF p = None THEN 0 ELSE R[p] + 1
             Q == [t \in 1..(size + 1) |-> IF t = size + 1 THEN r ELSE R[t]]
  <2>3. r \in Nat /\ (p # None => p \in 1..size /\ R[p] < r)
    BY <1>1, <2>2
  <2> HIDE DEF r
  <2>4. Q \in [1..(size + 1) -> Nat]
    BY <1>8, <2>2, <2>3
  <2>5. \A t \in 1..(size + 1) : Q[t] = IF t = size + 1 THEN r ELSE R[t]
    OBVIOUS
  <2> HIDE DEF Q
  <2>6. ASSUME NEW t \in 1..(size + 1), all[t].parent # None
        PROVE  Q[all[t].parent] < Q[t]
    <3>1. CASE t = size + 1
      <4>1. all[t].parent = p /\ p \in 1..size /\ p \in 1..(size + 1) /\ p # size + 1
        BY <1>6, <1>8, <2>3, <2>6, <3>1
      <4>2. Q[p] = R[p] /\ Q[t] = r
        BY <2>5, <3>1, <4>1
      <4> QED BY <2>3, <2>6, <4>1, <4>2
    <3>2. CASE t # size + 1
      <4>1. t \in 1..size /\ all[t].parent = tokens[t].parent
        BY <1>8, <3>2
      <4>2. tokens[t].parent \in 1..size /\ tokens[t].parent \in 1..(size + 1) /\ tokens[t].parent # size + 1
        BY <1>5, <1>6, <2>6, <4>1
      <4>3. R[tokens[t].parent] < R[t]
        BY <2>2, <2>6, <4>1
      <4> QED BY <2>5, <3>2, <4>1, <4>2, <4>3
    <3> QED BY <3>1, <3>2
  <2>7. Ranks(Q, all)
    BY <1>9, <2>4, <2>6 DEF Ranks
  <2> QED BY <2>7 DEF Ranked
<1>13. Doc \in 1..size /\ tokens[Doc].parent = None
  BY <1>1 DEF Sound
<1>14. CASE p = None
  <2>1. ASSUME NEW q \in DOMAIN all
        PROVE  Lists(all[q].child, DOMAIN all, Kids(all, q))
    <3>0. q \in 1..(size + 1) /\ p # q /\ DOMAIN all = 1..(size + 1)
      BY <1>9, <1>14 DEF None
    <3>1. CASE q = size + 1
      <4>1. all[q].child = <<>> /\ Kids(all, q) = {}
        BY <1>8, <1>11, <3>0, <3>1
      <4> QED BY <3>0, <4>1, ListsNothing
    <3>2. CASE q # size + 1
      <4>1. all[q].child = tokens[q].child /\ Kids(all, q) = Kids(tokens, q) /\ q \in 1..size
        BY <1>8, <1>11, <3>0, <3>2
      <4> QED BY <1>10, <3>0, <4>1
    <3> QED BY <3>1, <3>2
  <2>2. Sound(all)
    BY <1>6, <1>8, <1>9, <1>12, <1>13, <2>1 DEF Sound, Bound
  <2>3. Grows(all, tokens, p)
    <3>1. \A t \in 1..size : t \in 1..(size + 1) /\ t # size + 1
      BY <1>6
    <3>2. \A t \in 1..size : all[t].parent = tokens[t].parent
      BY <1>8, <3>1
    <3>3. all[size + 1].parent = p
      BY <1>6, <1>8
    <3> QED BY <1>1, <1>6, <1>9, <3>2, <3>3 DEF Grows, size
  <2> QED BY <1>2, <1>14, <2>2, <2>3
<1>15. CASE p # None
  <2>1. p \in 1..size /\ p \in 1..(size + 1) /\ p # size + 1
    BY <1>1, <1>6, <1>15
  <2>2. all[p].child = tokens[p].child
    BY <1>8, <2>1
  <2>3. Lists(c, 1..(size + 1), Kids(tokens, p) \union {size + 1})
    <3>1. Lists(tokens[p].child, 1..(size + 1), Kids(tokens, p))
      BY <1>10, <2>1
    <3>2. size + 1 \notin Kids(tokens, p)
      BY <1>1, <1>6 DEF Kids
    <3> DEFINE S == 1..(size + 1)
               m == size + 1
    <3>3. m \in S /\ Lists(tokens[p].child, S, Kids(tokens, p)) /\ m \notin Kids(tokens, p)
      BY <1>6, <3>1, <3>2
    <3> HIDE DEF S, m
    <3>4. Lists(Append(tokens[p].child, m), S, Kids(tokens, p) \union {m})
      BY <3>3, ListsAppend
    <3> QED BY <2>2, <3>4 DEF S, m
  <2> HIDE DEF c
  <2> DEFINE v == WithChild(all, p, c)
  <2>4. /\ Formed(v) /\ Len(v) = Len(all) /\ DOMAIN v = DOMAIN all
        /\ \A t \in DOMAIN all : /\ v[t].parent = all[t].parent
                                 /\ v[t].child = IF t = p THEN c ELSE all[t].child
    <3>1. Formed(all) /\ p \in DOMAIN all /\ c \in Seq(DOMAIN all)
      BY <1>9, <2>1, <2>3 DEF Lists
    <3> QED BY ONLY <3>1, ChildSet
  <2> HIDE DEF v
  <2>5. ASSUME NEW q \in DOMAIN v
        PROVE  Lists(v[q].child, DOMAIN v, Kids(v, q))
    <3>0. q \in 1..(size + 1) /\ DOMAIN v = 1..(size + 1) /\ DOMAIN all = 1..(size + 1)
      BY <1>9, <2>4
    <3>1. Kids(v, q) = Kids(all, q)
      BY <2>4, <3>0 DEF Kids
    <3>2. v[q].child = IF q = p THEN c ELSE all[q].child
      BY <2>4, <3>0
    <3>3. CASE q = size + 1
      <4>1. v[q].child = <<>> /\ Kids(v, q) = {}
        BY <1>8, <1>11, <2>1, <3>0, <3>1, <3>2, <3>3
      <4> QED BY <3>0, <4>1, ListsNothing
    <3>4. CASE q = p
      <4>1. Kids(v, q) = Kids(tokens, p) \union {size + 1}
        BY <1>11, <2>1, <3>0, <3>1, <3>4
      <4> QED BY <2>3, <3>0, <3>2, <3>4, <4>1
    <3>5. CASE q # size + 1 /\ q # p
      <4>1. v[q].child = tokens[q].child /\ Kids(v, q) = Kids(tokens, q) /\ q \in 1..size
        BY <1>8, <1>11, <3>0, <3>1, <3>2, <3>5
      <4> QED BY <1>10, <3>0, <4>1
    <3> QED BY <3>3, <3>4, <3>5
  <2>6. Ranked(v)
    BY <1>12, <2>4, Loosened
  <2>7. \A t \in 1..(size + 1) : v[t].parent = IF t = size + 1 THEN p ELSE tokens[t].parent
    BY <1>8, <1>9, <2>4
  <2>8. Sound(v)
    BY <1>6, <1>9, <1>13, <2>4, <2>5, <2>6, <2>7 DEF Sound, Bound
  <2>9. Grows(v, tokens, p)
    <3>1. \A t \in 1..size : t \in 1..(size + 1) /\ t # size + 1
      BY <1>6
    <3>2. \A t \in 1..size : v[t].parent = tokens[t].parent
      BY <2>7, <3>1
    <3>3. v[size + 1].parent = p
      BY <1>6, <2>7
    <3>4. Len(v) = size + 1 /\ DOMAIN v = 1..(size + 1)
      BY <1>9, <2>4
    <3> QED BY <1>1, <1>6, <3>2, <3>3, <3>4 DEF Grows, size
  <2> QED BY <1>2, <1>15, <2>8, <2>9 DEF v
<1> QED BY <1>14, <1>15

LEMMA TextSetIsSound ==
  ASSUME NEW tokens, Sound(tokens), NEW e \in DOMAIN tokens, NEW s
  PROVE  Sound(TextSet(tokens, e, s)) /\ Len(TextSet(tokens, e, s)) \in {Len(tokens), Len(tokens) + 1}
<1> DEFINE first == tokens[e].child
<1>0. first \in Seq(DOMAIN tokens)
  BY DEF Sound, Formed
<1>1. CASE first # <<>> /\ tokens[Head(first)].kind = "text"
  <2> DEFINE t == Head(first)
             w == WithField(tokens, t, "data", s)
  <2>1. TextSet(tokens, e, s) = w
    BY <1>1 DEF TextSet, WithField
  <2>2. t \in DOMAIN tokens /\ "data" \in Fields \ {"child", "parent"}
    BY <1>0, <1>1, HeadTailProperties DEF Fields
  <2> HIDE DEF t
  <2>4. Sound(w) /\ Len(w) = Len(tokens)
    BY <2>2, OtherFieldIsSound
  <2> QED BY <2>1, <2>4
<1>2. CASE ~(first # <<>> /\ tokens[Head(first)].kind = "text")
  <2> DEFINE new == Created(tokens, Token("text", NoShape, s), e)
             k == new[e].child
             c == <<Last(k)>> \o Front(k)
             w == WithChild(new, e, c)
  <2>1. TextSet(tokens, e, s) = w
    BY <1>2 DEF TextSet, WithChild
  <2>2. Sound(new) /\ Grows(new, tokens, e)
    BY TokenIsFresh, CreatedIsSound
  <2> HIDE DEF new
  <2>3. e \in DOMAIN new /\ Len(new) = Len(tokens) + 1 /\ Len(tokens) + 1 \in Kids(new, e)
    BY <2>2 DEF Grows, Kids
  <2>4. Lists(k, DOMAIN new, Kids(new, e))
    BY <2>2, <2>3 DEF Sound, Bound
  <2>5. Lists(c, DOMAIN new, Kids(new, e))
    <3> HIDE DEF k
    <3>1. k # <<>>
      <4>1. ToSet(k) # {}
        BY <2>3, <2>4 DEF Lists
      <4>2. ToSet(<<>>) = {}
        BY EmptySeq DEF ToSet
      <4> QED BY <4>1, <4>2
    <3> QED BY <2>4, <3>1, ListsRotate
  <2> HIDE DEF k, c
  <2>6. /\ Formed(w) /\ Len(w) = Len(new) /\ DOMAIN w = DOMAIN new
        /\ \A t \in DOMAIN new : /\ w[t].parent = new[t].parent
                                 /\ w[t].child = IF t = e THEN c ELSE new[t].child
    <3>1. Formed(new) /\ e \in DOMAIN new /\ c \in Seq(DOMAIN new)
      BY <2>2, <2>3, <2>5 DEF Lists, Sound
    <3> QED BY ONLY <3>1, ChildSet
  <2> HIDE DEF w
  <2>7. ASSUME NEW p \in DOMAIN w
        PROVE  Lists(w[p].child, DOMAIN w, Kids(w, p))
    <3>1. Kids(w, p) = Kids(new, p) /\ DOMAIN w = DOMAIN new /\ p \in DOMAIN new
      BY <2>6 DEF Kids
    <3>2. Lists(new[p].child, DOMAIN new, Kids(new, p))
      BY <2>2, <3>1 DEF Sound, Bound
    <3>3. w[p].child = IF p = e THEN c ELSE new[p].child
      BY <2>6, <3>1
    <3>4. CASE p = e
      BY <2>5, <3>1, <3>3, <3>4
    <3>5. CASE p # e
      BY <3>1, <3>2, <3>3, <3>5
    <3> QED BY <3>4, <3>5
  <2>8. Ranked(w)
    <3>1. Ranked(new) /\ DOMAIN w = DOMAIN new /\ \A t \in DOMAIN new : w[t].parent \in {None, new[t].parent}
      BY <2>2, <2>6 DEF Sound
    <3> QED BY ONLY <3>1, Loosened
  <2>9. Sound(w)
    BY <2>2, <2>6, <2>7, <2>8 DEF Sound, Bound
  <2> QED BY <2>1, <2>3, <2>6, <2>9
<1> QED BY <1>1, <1>2

-----------------------------------------------------------------------------
(* Copies. *)
LEMMA ListsMap ==
  ASSUME NEW S, NEW s, NEW C, Lists(s, S, C), NEW T, NEW f, \A x \in C : f[x] \in T,
         \A x, y \in C : f[x] = f[y] => x = y
  PROVE  Lists([i \in DOMAIN s |-> f[s[i]]], T, {f[x] : x \in C})
<1> DEFINE u == [i \in DOMAIN s |-> f[s[i]]]
           D == {f[x] : x \in C}
           size == Len(s)
<1>1. /\ size \in Nat /\ s \in Seq(S)
      /\ \A i \in 1..size : s[i] \in C
      /\ \A x \in C : \E i \in 1..size : s[i] = x
      /\ \A i, j \in 1..size : s[i] = s[j] => i = j
  BY ListsPlaces
<1>2. DOMAIN s = 1..size
  BY <1>1, LenProperties
<1>3. \A i \in 1..size : u[i] = f[s[i]]
  BY <1>2
<1>4. u \in [1..size -> T]
  BY <1>1, <1>2
<1> HIDE DEF u, size
<1>5. u \in Seq(T) /\ Len(u) = size
  BY <1>1, <1>4, FunctionIsSeq
<1>6. \A i \in 1..size : u[i] \in D
  BY <1>1, <1>3
<1>7. \A y \in D : \E i \in 1..size : u[i] = y
  BY <1>1, <1>3
<1>8. \A i, j \in 1..size : u[i] = u[j] => i = j
  BY <1>1, <1>3
<1> HIDE DEF D
<1>9. Lists(u, T, D)
  BY <1>5, <1>6, <1>7, <1>8, PlacesList
<1> QED BY <1>9 DEF u, D

LEMMA UnderIs ==
  ASSUME Formed(tree), NEW e
  PROVE  Lists(Under(e), Tokens, {t \in Tokens : IsAbove(e, t)})
<1> DEFINE size == Len(tree)
           s == [t \in Tokens |-> t]
           A == {t \in Tokens : IsAbove(e, t)}
<1>1. size \in Nat /\ Tokens = 1..size
  BY FormedTokens DEF Tokens
<1>2. s \in [1..size -> Tokens] /\ \A t \in 1..size : s[t] = t
  BY <1>1
<1> HIDE DEF s, size
<1>3. s \in Seq(Tokens) /\ Len(s) = size
  BY <1>1, <1>2, FunctionIsSeq
<1>4. Lists(s, Tokens, Tokens)
  BY <1>1, <1>2, <1>3, PlacesList
<1>5. Under(e) = Taken(s, A)
  BY DEF Under, s
<1>6. A = {s[i] : i \in {k \in 1..Len(s) : k \in A}}
  BY <1>1, <1>2, <1>3
<1> HIDE DEF A
<1>7. Lists(Taken(s, A), Tokens, {s[i] : i \in {k \in 1..Len(s) : k \in A}})
  BY <1>4, ListsTaken
<1>8. Lists(Under(e), Tokens, A)
  BY <1>5, <1>6, <1>7
<1> QED BY <1>8 DEF A

(* The k-th token under e becomes the k-th new one. *)
LEMMA CopiesAre ==
  ASSUME Formed(tree), NEW e
  PROVE  /\ Len(Under(e)) \in Nat
         /\ \A t : t \in Tokens /\ IsAbove(e, t) => \E k \in 1..Len(Under(e)) : Under(e)[k] = t
         /\ \A k \in 1..Len(Under(e)) : /\ Under(e)[k] \in Tokens /\ IsAbove(e, Under(e)[k])
                                        /\ CopyOf(e, Under(e)[k]) = Len(tree) + k
<1> DEFINE U == Under(e)
           A == {t \in Tokens : IsAbove(e, t)}
<1>1. /\ Len(U) \in Nat /\ U \in Seq(Tokens)
      /\ \A i \in 1..Len(U) : U[i] \in A
      /\ \A x \in A : \E i \in 1..Len(U) : U[i] = x
      /\ \A i, j \in 1..Len(U) : U[i] = U[j] => i = j
  <2> HIDE DEF A, U
  <2>1. Lists(U, Tokens, A)
    BY UnderIs DEF A, U
  <2> QED BY <2>1, ListsPlaces
<1>2. DOMAIN U = 1..Len(U)
  BY <1>1, LenProperties
<1>3. ASSUME NEW k \in 1..Len(U)
      PROVE  CopyOf(e, U[k]) = Len(tree) + k
  <2> DEFINE j == CHOOSE i \in DOMAIN U : U[i] = U[k]
  <2>1. CopyOf(e, U[k]) = Len(tree) + j
    BY DEF CopyOf
  <2>2. j \in DOMAIN U /\ U[j] = U[k]
    BY <1>2
  <2> HIDE DEF j
  <2> QED BY <1>1, <1>2, <2>1, <2>2
<1> QED BY <1>1, <1>3

LEMMA DuplicatedIsSound ==
  ASSUME Sound(tree), MaxTokens \in Nat, Len(tree) <= MaxTokens, NEW e \in Tokens
  PROVE  /\ Sound(tree \o Duplicated(e))
         /\ Len(tree \o Duplicated(e)) = Len(tree) + Len(Under(e))
<1> DEFINE size == Len(tree)
           U == Under(e)
           m == Len(U)
           C(t) == CopyOf(e, t)
           A == {t \in Tokens : IsAbove(e, t)}
           D == Duplicated(e)
           w == tree \o D
<1>1. /\ size \in Nat /\ Tokens = 1..size /\ DOMAIN tree = 1..size /\ None \notin 1..size
      /\ Formed(tree) /\ Ranked(tree)
  BY FormedTokens DEF Tokens, Sound
<1>2. /\ m \in Nat
      /\ \A t \in A : \E k \in 1..m : U[k] = t
      /\ \A k \in 1..m : U[k] \in A /\ C(U[k]) = size + k
  BY <1>1, CopiesAre
<1>3. DOMAIN U = 1..m
  <2>1. U \in Seq(Tokens)
    BY <1>1, UnderIs DEF Lists
  <2> QED BY <2>1, LenProperties
<1>4. \A t \in Tokens : IsAbove(e, t) <=> e = t \/ (tree[t].parent # None /\ IsAbove(e, tree[t].parent))
  BY <1>1, AboveStep
<1>5. /\ \A t \in 1..size : /\ Fields \subseteq DOMAIN tree[t]
                         /\ tree[t].parent \in 1..size \union {None}
                         /\ tree[t].child \in Seq(1..size)
      /\ \A t \in 1..size : Lists(tree[t].child, 1..size, Kids(tree, t))
  BY <1>1 DEF Sound, Formed, Bound
(* The copy of a token. *)
<1>6. ASSUME NEW k \in 1..m
      PROVE  /\ D[k].child = [i \in DOMAIN tree[U[k]].child |-> C(tree[U[k]].child[i])]
             /\ D[k].parent = IF U[k] = e THEN None ELSE C(tree[U[k]].parent)
             /\ Fields \subseteq DOMAIN D[k]
  <2> DEFINE r == tree[U[k]]
             c == [i \in DOMAIN r.child |-> C(r.child[i])]
             p == IF U[k] = e THEN None ELSE C(r.parent)
             q == [r EXCEPT !.child = c]
  <2>1. Fields \subseteq DOMAIN r /\ "child" \in Fields /\ "parent" \in Fields
    BY <1>1, <1>2, <1>5 DEF Fields
  <2>2. D[k] = [r EXCEPT !.child = [i \in DOMAIN @ |-> C(@[i])], !.parent = IF U[k] = e THEN None ELSE C(@)]
    BY <1>3 DEF Duplicated
  <2>3. DOMAIN q = DOMAIN r /\ q["child"] = c /\ q["parent"] = r["parent"]
    <3> HIDE DEF r, c
    <3> QED BY <2>1, FieldSet
  <2>4. D[k] = [q EXCEPT !.parent = p]
    <3> HIDE DEF r
    <3>1. [r EXCEPT !.child = [i \in DOMAIN @ |-> C(@[i])], !.parent = IF U[k] = e THEN None ELSE C(@)]
            = [[r EXCEPT !.child = c] EXCEPT !.parent = IF U[k] = e THEN None ELSE C(@)]
      OBVIOUS
    <3>2. [q EXCEPT !.parent = IF U[k] = e THEN None ELSE C(@)] = [q EXCEPT !.parent = p]
      <4> HIDE DEF q
      <4> QED BY <2>3
    <3> QED BY <2>2, <3>1, <3>2
  <2> HIDE DEF q, c, p
  <2>5. D[k]["child"] = c /\ D[k]["parent"] = p /\ DOMAIN D[k] = DOMAIN r
    <3> HIDE DEF D, r
    <3>1. "child" \in DOMAIN q /\ "parent" \in DOMAIN q
      BY <2>1, <2>3
    <3> QED BY <2>3, <2>4, <3>1, FieldSet
  <2> QED BY <2>1, <2>5 DEF c, p
<1>7. \A k \in 1..m : U[k] # e => tree[U[k]].parent \in A
  BY <1>1, <1>2, <1>4, <1>5
<1>8. \A k \in 1..m : \A t \in Kids(tree, U[k]) : t \in A
  <2> SUFFICES ASSUME NEW k \in 1..m, NEW t \in Kids(tree, U[k])
               PROVE  t \in A
    OBVIOUS
  <2>1. U[k] \in A
    BY <1>2
  <2> DEFINE p == U[k]
  <2>2. p \in Tokens /\ IsAbove(e, p) /\ p # None /\ t \in Tokens /\ tree[t].parent = p
    BY <1>1, <2>1 DEF Kids
  <2>3. IsAbove(e, t)
    <3> HIDE DEF p
    <3> QED BY <1>4, <2>2
  <2> QED BY <2>2, <2>3
<1>9. tree[e].parent \notin A
  <2>1. PICK R : Ranks(R, tree)
    BY <1>1 DEF Ranked
  <2>2. SUFFICES ASSUME tree[e].parent \in A
                 PROVE  FALSE
    OBVIOUS
  <2>3. R[e] <= R[tree[e].parent]
    BY <1>1, <2>1, <2>2, AboveRanks
  <2>4. R[tree[e].parent] < R[e] /\ R[e] \in Nat /\ R[tree[e].parent] \in Nat
    BY <1>1, <2>1, <2>2 DEF Ranks
  <2> QED BY <2>3, <2>4
<1>10. ASSUME NEW t \in A
       PROVE  C(t) \in (size + 1)..(size + m) /\ \E k \in 1..m : U[k] = t /\ C(t) = size + k
  <2>1. PICK k \in 1..m : U[k] = t
    BY <1>2
  <2> HIDE DEF size, m, A, U, C
  <2> QED BY <1>1, <1>2, <2>1
<1>11. \A s, t \in A : C(s) = C(t) => s = t
  <2> SUFFICES ASSUME NEW s \in A, NEW t \in A, C(s) = C(t)
               PROVE  s = t
    OBVIOUS
  <2>1. PICK j \in 1..m : U[j] = s /\ C(s) = size + j
    BY <1>10
  <2>2. PICK k \in 1..m : U[k] = t /\ C(t) = size + k
    BY <1>10
  <2>4. C(s) = C(t)
    OBVIOUS
  <2> HIDE DEF size, m, A, U, C
  <2>5. size + j = size + k
    BY <2>1, <2>2, <2>4
  <2>3. j = k
    BY <1>1, <1>2, <2>5
  <2> QED BY <2>1, <2>2, <2>3
<1>12. /\ Len(w) = size + m /\ DOMAIN w = 1..(size + m)
       /\ w = [t \in 1..(size + m) |-> w[t]]
       /\ \A t \in 1..size : w[t] = tree[t]
       /\ \A k \in 1..m : w[size + k] = D[k]
  <2>1. PICK S : tree \in Seq(S)
    BY <1>1 DEF Formed
  <2> DEFINE E == {D[k] : k \in 1..m}
             T == S \union E
  <2>2. tree \in Seq(T)
    BY <2>1, SeqMonotonic
  <2>3. D \in [1..m -> T] /\ DOMAIN D = 1..m
    BY <1>3 DEF Duplicated
  <2> HIDE DEF T, D, m
  <2>4. D \in Seq(T) /\ Len(D) = m
    BY <1>2, <2>3, FunctionIsSeq
  <2>5. /\ w \in Seq(T) /\ Len(w) = size + m
        /\ \A i \in 1..(size + m) : w[i] = IF i <= size THEN tree[i] ELSE D[i - size]
    BY <2>2, <2>4, ConcatProperties
  <2> HIDE DEF w, size
  <2>6. DOMAIN w = 1..Len(w) /\ w \in [1..Len(w) -> T]
    BY <2>5, LenProperties
  <2>7. \A t \in 1..size : w[t] = tree[t]
    <3>1. \A t \in 1..size : t \in 1..(size + m) /\ t <= size
      BY <1>1, <1>2
    <3> QED BY <2>5, <3>1
  <2>8. \A k \in 1..m : w[size + k] = D[k]
    <3>1. \A k \in 1..m : size + k \in 1..(size + m) /\ ~(size + k <= size) /\ (size + k) - size = k
      BY <1>1, <1>2
    <3> QED BY <2>5, <3>1
  <2> QED BY <2>5, <2>6, <2>7, <2>8
<1> HIDE DEF w, D
<1>13. \A q \in 1..(size + m) : q \in 1..size \/ \E k \in 1..m : q = size + k
  <2> HIDE DEF size, m
  <2> SUFFICES ASSUME NEW q \in 1..(size + m), q \notin 1..size
               PROVE  \E k \in 1..m : q = size + k
    OBVIOUS
  <2>1. q - size \in 1..m /\ q = size + (q - size)
    BY <1>1, <1>2
  <2> QED BY <2>1
<1>14. 1..size \subseteq 1..(size + m) /\ \A k \in 1..m : size + k \in 1..(size + m) /\ size + k \notin 1..size
  <2> HIDE DEF size, m
  <2> QED BY <1>1, <1>2
(* Its children are the copies of its children. *)
<1>15. ASSUME NEW k \in 1..m
       PROVE  Lists(w[size + k].child, 1..(size + m), {C(t) : t \in Kids(tree, U[k])})
  <2> DEFINE s == tree[U[k]].child
             K == Kids(tree, U[k])
             f == [t \in A |-> C(t)]
             W == 1..(size + m)
  <2>1. Lists(s, 1..size, K)
    BY <1>1, <1>2, <1>5
  <2>2. \A t \in K : t \in A
    BY <1>8
  <2>3. \A t \in K : f[t] = C(t) /\ C(t) \in W
    <3> TAKE t \in K
    <3>1. t \in A /\ C(t) \in (size + 1)..(size + m)
      BY <1>10, <2>2
    <3> QED BY <1>1, <1>2, <3>1
  <2>4. w[size + k].child = [i \in DOMAIN s |-> C(s[i])]
    BY <1>6, <1>12
  <2>5. \A i \in DOMAIN s : s[i] \in K
    <3> HIDE DEF s, K
    <3>1. s \in Seq(1..size) /\ \A i \in 1..Len(s) : s[i] \in K
      BY <2>1, ListsPlaces
    <3>2. DOMAIN s = 1..Len(s)
      BY <3>1, LenProperties
    <3> QED BY <3>1, <3>2
  <2> HIDE DEF f, K, A, W, C, s
  <2>6. [i \in DOMAIN s |-> C(s[i])] = [i \in DOMAIN s |-> f[s[i]]]
    BY <2>3, <2>5
  <2>7. {C(t) : t \in K} = {f[t] : t \in K}
    BY <2>3
  <2>8. Lists([i \in DOMAIN s |-> f[s[i]]], W, {f[t] : t \in K})
    <3>1. \A x \in K : f[x] \in W
      BY <2>3
    <3>2. \A x, y \in K : f[x] = f[y] => x = y
      BY <1>11, <2>2, <2>3
    <3> QED BY ONLY <2>1, <3>1, <3>2, ListsMap
  <2> QED BY <2>4, <2>6, <2>7, <2>8 DEF W, K
<1>16. ASSUME NEW k \in 1..m
       PROVE  /\ Fields \subseteq DOMAIN w[size + k]
              /\ w[size + k].parent = IF U[k] = e THEN None ELSE C(tree[U[k]].parent)
              /\ w[size + k].parent \in (size + 1)..(size + m) \union {None}
  <2>1. /\ Fields \subseteq DOMAIN w[size + k]
        /\ w[size + k].parent = IF U[k] = e THEN None ELSE C(tree[U[k]].parent)
    BY <1>6, <1>12
  <2>2. U[k] # e => C(tree[U[k]].parent) \in (size + 1)..(size + m)
    BY <1>7, <1>10
  <2> QED BY <2>1, <2>2
<1> HIDE DEF size, m, U, C, A
<1>17. size + m \in Nat
  BY <1>1, <1>2
<1>18. /\ (size + 1)..(size + m) \subseteq 1..(size + m)
       /\ \A q \in (size + 1)..(size + m) : q \notin 1..size /\ q # None
  BY <1>1, <1>2 DEF None
<1>19. Formed(w) /\ Len(w) = size + m
  <2>1. \A q \in 1..(size + m) : /\ Fields \subseteq DOMAIN w[q]
                              /\ w[q].parent \in 1..(size + m) \union {None}
                              /\ w[q].child \in Seq(1..(size + m))
    <3> TAKE q \in 1..(size + m)
    <3>1. CASE q \in 1..size
      <4> DEFINE S == 1..size
                 T == 1..(size + m)
      <4>1. tree[q].child \in Seq(S) /\ S \subseteq T
        BY <1>5, <1>14, <3>1
      <4>2. tree[q].child \in Seq(T)
        <5> HIDE DEF S, T
        <5> QED BY <4>1, SeqMonotonic
      <4> QED BY <1>5, <1>12, <1>14, <3>1, <4>2
    <3>2. CASE \E k \in 1..m : q = size + k
      <4>1. PICK k \in 1..m : q = size + k
        BY <3>2
      <4>2. w[size + k].child \in Seq(1..(size + m))
        BY <1>15 DEF Lists
      <4> QED BY <1>16, <1>18, <4>1, <4>2
    <3> QED BY <1>13, <3>1, <3>2
  <2> DEFINE N == size + m
  <2>2. /\ N \in Nat /\ w = [t \in 1..N |-> w[t]]
        /\ \A q \in 1..N : /\ Fields \subseteq DOMAIN w[q]
                           /\ w[q].parent \in 1..N \union {None}
                           /\ w[q].child \in Seq(1..N)
    BY <1>12, <1>17, <2>1
  <2> HIDE DEF N
  <2>3. Formed(w)
    BY ONLY <2>2, Forms
  <2> QED BY <1>12, <2>3
<1>20. ASSUME NEW q \in 1..size
       PROVE  Kids(w, q) = Kids(tree, q)
  <2>1. \A t \in 1..(size + m) : w[t].parent = q <=> t \in 1..size /\ tree[t].parent = q
    <3> TAKE t \in 1..(size + m)
    <3>1. CASE t \in 1..size
      BY <1>12, <3>1
    <3>2. CASE \E k \in 1..m : t = size + k
      <4>1. PICK k \in 1..m : t = size + k
        BY <3>2
      <4>2. w[t].parent \in (size + 1)..(size + m) \union {None} /\ t \notin 1..size
        BY <1>14, <1>16, <4>1
      <4>3. w[t].parent # q
        BY <1>1, <1>18, <4>2
      <4> QED BY <4>2, <4>3
    <3> QED BY <1>13, <3>1, <3>2
  <2> QED BY <1>1, <1>12, <1>14, <2>1 DEF Kids
<1>21. ASSUME NEW k \in 1..m
       PROVE  Kids(w, size + k) = {C(t) : t \in Kids(tree, U[k])}
  <2> DEFINE K == Kids(tree, U[k])
             M == {C(t) : t \in K}
  <2>1. ASSUME NEW t \in Kids(w, size + k)
        PROVE  t \in M
    <3>1. t \in 1..(size + m) /\ w[t].parent = size + k
      BY <1>12 DEF Kids
    <3>2. t \notin 1..size
      <4>1. t \in 1..size => w[t].parent \in 1..size \union {None}
        BY <1>5, <1>12
      <4>2. size + k \notin 1..size /\ size + k # None
        BY <1>1, <1>14 DEF None
      <4> QED BY <3>1, <4>1, <4>2
    <3>3. PICK j \in 1..m : t = size + j
      BY <1>13, <3>1, <3>2
    <3>4. size + k # None /\ C(U[k]) = size + k /\ C(U[j]) = size + j /\ U[k] \in A /\ U[j] \in A
      BY <1>1, <1>2 DEF None
    <3>5. U[j] # e /\ C(tree[U[j]].parent) = size + k
      BY <1>16, <3>1, <3>3, <3>4
    <3>6. tree[U[j]].parent = U[k]
      BY <1>7, <1>11, <3>4, <3>5
    <3>7. U[j] \in K
      BY <1>1, <3>4, <3>6 DEF Kids, A
    <3> QED BY <3>3, <3>4, <3>7
  <2>2. ASSUME NEW t \in K
        PROVE  C(t) \in Kids(w, size + k)
    <3>1. t \in A /\ tree[t].parent = U[k]
      BY <1>8 DEF Kids
    <3>2. PICK j \in 1..m : U[j] = t /\ C(t) = size + j
      BY <1>10, <3>1
    <3>3. U[j] # e
      BY <1>2, <1>9, <3>1, <3>2
    <3>4. w[size + j].parent = size + k
      BY <1>2, <1>16, <3>1, <3>2, <3>3
    <3> QED BY <1>12, <1>14, <3>2, <3>4 DEF Kids
  <2> HIDE DEF K
  <2>3. \A x : x \in Kids(w, size + k) <=> x \in M
    BY <2>1, <2>2
  <2> HIDE DEF M
  <2>4. Kids(w, size + k) = M
    BY <2>3
  <2> QED BY <2>4 DEF M, K
<1>22. Bound(w)
  <2> SUFFICES ASSUME NEW q \in 1..(size + m)
               PROVE  Lists(w[q].child, 1..(size + m), Kids(w, q))
    BY <1>12 DEF Bound
  <2>1. CASE q \in 1..size
    <3> DEFINE S == 1..size
               T == 1..(size + m)
    <3>1. Lists(tree[q].child, S, Kids(tree, q)) /\ S \subseteq T
      BY <1>5, <1>14, <2>1
    <3>2. Lists(tree[q].child, T, Kids(tree, q))
      <4> HIDE DEF S, T
      <4> QED BY <3>1, SeqMonotonic DEF Lists
    <3> QED BY <1>12, <1>20, <2>1, <3>2
  <2>2. CASE \E k \in 1..m : q = size + k
    <3>1. PICK k \in 1..m : q = size + k
      BY <2>2
    <3> QED BY <1>15, <1>21, <3>1
  <2> QED BY <1>13, <2>1, <2>2
<1>23. Ranked(w)
  <2>1. PICK R : Ranks(R, tree)
    BY <1>1 DEF Ranked
  <2>2. /\ \A t \in 1..size : R[t] \in Nat
        /\ \A t \in 1..size : tree[t].parent # None => R[tree[t].parent] < R[t]
    BY <1>1, <2>1 DEF Ranks
  <2> DEFINE Q == [q \in 1..(size + m) |-> IF q \in 1..size THEN R[q] ELSE R[U[q - size]]]
  <2>3. \A q \in 1..size : Q[q] = R[q]
    BY <1>14
  <2>4. \A k \in 1..m : Q[size + k] = R[U[k]] /\ U[k] \in 1..size
    <3> TAKE k \in 1..m
    <3>1. (size + k) - size = k
      BY <1>1, <1>2
    <3> QED BY <1>1, <1>2, <1>14, <3>1 DEF A
  <2>5. Q = [q \in 1..(size + m) |-> Q[q]]
    OBVIOUS
  <2> HIDE DEF Q
  <2>6. \A q \in 1..(size + m) : Q[q] \in Nat
    BY <1>13, <2>2, <2>3, <2>4
  <2>7. ASSUME NEW q \in 1..(size + m), w[q].parent # None
        PROVE  Q[w[q].parent] < Q[q]
    <3>1. CASE q \in 1..size
      BY <1>5, <1>12, <2>2, <2>3, <2>7, <3>1
    <3>2. CASE \E k \in 1..m : q = size + k
      <4>1. PICK k \in 1..m : q = size + k
        BY <3>2
      <4>2. U[k] # e /\ w[q].parent = C(tree[U[k]].parent)
        BY <1>16, <2>7, <4>1
      <4> DEFINE p == tree[U[k]].parent
      <4>3. p \in A /\ p \in 1..size /\ p # None
        BY <1>1, <1>7, <4>2 DEF A
      <4>4. PICK j \in 1..m : U[j] = p /\ C(p) = size + j
        BY <1>10, <4>3
      <4>5. R[p] < R[U[k]]
        BY <2>2, <2>4, <4>3
      <4>6. Q[q] = R[U[k]] /\ Q[w[q].parent] = R[p]
        BY <2>4, <4>1, <4>2, <4>4
      <4> HIDE DEF p
      <4> QED BY <4>5, <4>6
    <3> QED BY <1>13, <3>1, <3>2
  <2>8. Ranks(Q, w)
    <3>1. Q \in [1..(size + m) -> Nat]
      BY <2>5, <2>6
    <3> QED BY <1>12, <2>7, <3>1 DEF Ranks
  <2> QED BY <2>8 DEF Ranked
<1>24. Doc \in DOMAIN w /\ w[Doc].parent = None
  BY <1>1, <1>12, <1>14 DEF Sound
<1> QED BY <1>19, <1>22, <1>23, <1>24 DEF Sound, w, size, m, D, U

-----------------------------------------------------------------------------
(* The tree without blanks.  Of the children some are left. *)
Thinned(tokens) ==
    \A p \in DOMAIN tokens :
      \E C : /\ Lists(tokens[p].child, DOMAIN tokens, C)
             /\ C \subseteq Kids(tokens, p)
             /\ \A t \in Kids(tokens, p) : tokens[t].blank \/ t \in C

LEMMA TrimmedIsThin ==
  ASSUME Sound(tree), MaxTokens \in Nat,
         NEW w, w = [t \in Tokens |-> IF IsAbove(Doc, t) THEN Trimmed(t) ELSE tree[t]]
  PROVE  Formed(w) /\ Thinned(w) /\ Ranked(w) /\ Len(w) = Len(tree)
<1> DEFINE size == Len(tree)
           at(t) == {i \in DOMAIN tree[t].child : ~Blank(tree[t].child[i])}
<1>1. size \in Nat /\ Tokens = 1..size /\ DOMAIN tree = 1..size /\ None \notin 1..size /\ Formed(tree)
  BY FormedTokens DEF Tokens, Sound
<1>2. DOMAIN w = 1..size /\ w = [t \in 1..size |-> w[t]]
  BY <1>1
<1>3. \A t \in 1..size : w[t] = IF IsAbove(Doc, t) THEN Trimmed(t) ELSE tree[t]
  BY <1>1
<1>4. /\ \A t \in 1..size : /\ Fields \subseteq DOMAIN tree[t]
                         /\ tree[t].parent \in 1..size \union {None}
                         /\ tree[t].child \in Seq(1..size)
      /\ \A t \in 1..size : Lists(tree[t].child, 1..size, Kids(tree, t))
  BY <1>1 DEF Sound, Formed, Bound
<1>5. ASSUME NEW t \in 1..size
      PROVE  /\ Fields \subseteq DOMAIN Trimmed(t)
             /\ Trimmed(t).parent = tree[t].parent
             /\ Trimmed(t).blank = tree[t].blank
             /\ Trimmed(t).child = Taken(tree[t].child, at(t))
  <2> DEFINE r == tree[t]
             c == Taken(r.child, at(t))
             l == IF t = Doc THEN r.tail ELSE TrimIndent(r.tail)
             q == [r EXCEPT !.child = c]
  <2>1. /\ Fields \subseteq DOMAIN r
        /\ "child" \in DOMAIN r /\ "parent" \in DOMAIN r /\ "tail" \in DOMAIN r /\ "blank" \in DOMAIN r
    BY <1>4 DEF Fields
  <2>2. DOMAIN q = DOMAIN r /\ q["child"] = c /\ q["parent"] = r["parent"] /\ q["tail"] = r["tail"]
        /\ q["blank"] = r["blank"]
    <3> HIDE DEF r, c
    <3> QED BY <2>1, FieldSet
  <2>3. Trimmed(t) = [q EXCEPT !.tail = l]
    <3>1. Trimmed(t) = [q EXCEPT !.tail = IF t = Doc THEN @ ELSE TrimIndent(@)]
      BY DEF Trimmed
    <3> HIDE DEF q
    <3> QED BY <2>2, <3>1
  <2> HIDE DEF q, l
  <2>4. /\ DOMAIN Trimmed(t) = DOMAIN q /\ Trimmed(t)["child"] = q["child"]
        /\ Trimmed(t)["parent"] = q["parent"] /\ Trimmed(t)["blank"] = q["blank"]
    <3> HIDE DEF r, c
    <3>1. "child" \in DOMAIN q /\ "parent" \in DOMAIN q /\ "tail" \in DOMAIN q /\ "blank" \in DOMAIN q
      BY <2>1, <2>2
    <3> QED BY <2>3, <3>1, FieldSet
  <2> QED BY <2>1, <2>2, <2>4
<1>6. ASSUME NEW t \in 1..size
      PROVE  LET C == {tree[t].child[i] : i \in {k \in 1..Len(tree[t].child) : k \in at(t)}}
             IN  /\ Lists(Taken(tree[t].child, at(t)), 1..size, C)
                 /\ C \subseteq Kids(tree, t)
                 /\ \A y \in Kids(tree, t) : tree[y].blank \/ y \in C
  <2> DEFINE s == tree[t].child
             C == {s[i] : i \in {k \in 1..Len(s) : k \in at(t)}}
  <2>1. Lists(s, 1..size, Kids(tree, t))
    BY <1>4
  <2>2. Lists(Taken(s, at(t)), 1..size, C)
    <3> HIDE DEF at, s, size
    <3> QED BY <2>1, ListsTaken
  <2>3. /\ \A i \in 1..Len(s) : s[i] \in Kids(tree, t)
        /\ \A x \in Kids(tree, t) : \E i \in 1..Len(s) : s[i] = x
        /\ s \in Seq(1..size)
    <3> HIDE DEF s, size, at
    <3> QED BY <2>1, ListsPlaces
  <2>4. DOMAIN s = 1..Len(s)
    BY <2>3, LenProperties
  <2>5. \A y \in Kids(tree, t) : tree[y].blank \/ y \in C
    <3> SUFFICES ASSUME NEW y \in Kids(tree, t), ~tree[y].blank
                 PROVE  y \in C
      OBVIOUS
    <3>1. PICK i \in 1..Len(s) : s[i] = y
      BY <2>3
    <3>2. i \in at(t)
      BY <2>4, <3>1 DEF Blank
    <3> QED BY <3>1, <3>2
  <2> QED BY <2>2, <2>3, <2>5
<1> HIDE DEF at
<1>7. ASSUME NEW t \in 1..size
      PROVE  /\ Fields \subseteq DOMAIN w[t]
             /\ w[t].parent = tree[t].parent /\ w[t].blank = tree[t].blank
             /\ w[t].child \in {tree[t].child, Taken(tree[t].child, at(t))}
             /\ \E C : /\ Lists(w[t].child, 1..size, C) /\ C \subseteq Kids(tree, t)
                       /\ \A y \in Kids(tree, t) : tree[y].blank \/ y \in C
  <2>1. CASE IsAbove(Doc, t)
    <3>1. w[t] = Trimmed(t)
      BY <1>3, <2>1
    <3>2. \E C : /\ Lists(Taken(tree[t].child, at(t)), 1..size, C) /\ C \subseteq Kids(tree, t)
                 /\ \A y \in Kids(tree, t) : tree[y].blank \/ y \in C
      BY <1>6
    <3> QED BY <1>5, <3>1, <3>2
  <2>2. CASE ~IsAbove(Doc, t)
    <3>1. w[t] = tree[t]
      BY <1>3, <2>2
    <3>2. Lists(tree[t].child, 1..size, Kids(tree, t)) /\ Fields \subseteq DOMAIN tree[t]
      BY <1>4
    <3> QED BY <3>1, <3>2
  <2> QED BY <2>1, <2>2
<1> HIDE DEF size
<1>8. \A t \in 1..size : Kids(w, t) = Kids(tree, t)
  BY <1>1, <1>2, <1>7 DEF Kids
<1>9. Formed(w) /\ Len(w) = size
  <2>1. \A t \in 1..size : /\ Fields \subseteq DOMAIN w[t]
                        /\ w[t].parent \in 1..size \union {None}
                        /\ w[t].child \in Seq(1..size)
    BY <1>4, <1>7 DEF Lists
  <2> QED BY ONLY <1>1, <1>2, <2>1, Forms
<1>10. Thinned(w)
  <2> SUFFICES ASSUME NEW p \in 1..size
               PROVE  \E C : /\ Lists(w[p].child, 1..size, C)
                             /\ C \subseteq Kids(w, p)
                             /\ \A t \in Kids(w, p) : w[t].blank \/ t \in C
    BY <1>2 DEF Thinned
  <2>1. PICK C : /\ Lists(w[p].child, 1..size, C) /\ C \subseteq Kids(tree, p)
                 /\ \A y \in Kids(tree, p) : tree[y].blank \/ y \in C
    BY <1>7
  <2>2. \A t \in Kids(tree, p) : w[t].blank = tree[t].blank
    BY <1>1, <1>7 DEF Kids
  <2> QED BY <1>8, <2>1, <2>2
<1>11. Ranked(w)
  <2>1. Ranked(tree) /\ DOMAIN w = DOMAIN tree /\ \A y \in DOMAIN tree : w[y].parent \in {None, tree[y].parent}
    BY <1>1, <1>2, <1>7 DEF Sound
  <2> QED BY ONLY <2>1, Loosened
<1> QED BY <1>9, <1>10, <1>11 DEF size

-----------------------------------------------------------------------------
(* The invariant. *)
TreeInv ==
    /\ phase \in {"read", "edit", "indented", "error"}
    /\ stack \in Seq(Tokens)
    /\ prev \in Tokens \union {None}
    /\ Len(tree) <= MaxTokens
    /\ IF phase = "indented" THEN Formed(tree) /\ Thinned(tree) /\ Ranked(tree) ELSE Sound(tree)

LEMMA CountIs ==
  ASSUME NEW S, NEW s, NEW C, Lists(s, S, C), NEW t
  PROVE  Cardinality({i \in DOMAIN s : s[i] = t}) = IF t \in C THEN 1 ELSE 0
<1> DEFINE I == {i \in DOMAIN s : s[i] = t}
<1>1. /\ Len(s) \in Nat /\ s \in Seq(S)
      /\ \A i \in 1..Len(s) : s[i] \in C
      /\ \A x \in C : \E i \in 1..Len(s) : s[i] = x
      /\ \A i, j \in 1..Len(s) : s[i] = s[j] => i = j
  BY ListsPlaces
<1>2. DOMAIN s = 1..Len(s)
  BY <1>1, LenProperties
<1>3. CASE t \notin C
  <2>1. I = {}
    BY <1>1, <1>2, <1>3
  <2> QED BY <1>3, <2>1, FS_EmptySet
<1>4. CASE t \in C
  <2>1. PICK i \in 1..Len(s) : s[i] = t
    BY <1>1, <1>4
  <2>2. I = {i}
    BY <1>1, <1>2, <2>1
  <2>3. Cardinality({i}) = 1
    BY FS_Singleton
  <2> QED BY <1>4, <2>2, <2>3
<1> QED BY <1>3, <1>4

LEMMA InvIsOK ==
  ASSUME MaxTokens \in Nat, TreeInv
  PROVE  TreeOK
<1>1. Formed(tree) /\ Ranked(tree)
  BY DEF TreeInv, Sound
<1>2. ToSet(stack) \subseteq Tokens
  BY SetOf, ElementOfSeq DEF TreeInv
<1>3. ParentsAgree
  <2> SUFFICES ASSUME NEW p \in Tokens, NEW t \in Tokens
               PROVE  Cardinality({i \in DOMAIN tree[p].child : tree[p].child[i] = t})
                        \in IF tree[t].parent # p THEN {0}
                            ELSE IF phase = "indented" /\ tree[t].blank THEN {0, 1} ELSE {1}
    BY DEF ParentsAgree
  <2> DEFINE count == Cardinality({i \in DOMAIN tree[p].child : tree[p].child[i] = t})
  <2>1. CASE phase = "indented"
    <3>1. PICK C : /\ Lists(tree[p].child, DOMAIN tree, C)
                   /\ C \subseteq Kids(tree, p)
                   /\ \A y \in Kids(tree, p) : tree[y].blank \/ y \in C
      BY <2>1 DEF TreeInv, Thinned, Tokens
    <3>2. count = IF t \in C THEN 1 ELSE 0
      BY <3>1, CountIs
    <3> HIDE DEF count
    <3>3. t \in Kids(tree, p) <=> tree[t].parent = p
      BY DEF Kids, Tokens
    <3>4. count \in IF tree[t].parent # p THEN {0} ELSE IF tree[t].blank THEN {0, 1} ELSE {1}
      BY <3>1, <3>2, <3>3
    <3> QED BY <2>1, <3>4 DEF count
  <2>2. CASE phase # "indented"
    <3>1. Lists(tree[p].child, DOMAIN tree, Kids(tree, p))
      BY <2>2 DEF TreeInv, Sound, Bound, Tokens
    <3>2. count = IF t \in Kids(tree, p) THEN 1 ELSE 0
      BY <3>1, CountIs
    <3> HIDE DEF count
    <3>3. t \in Kids(tree, p) <=> tree[t].parent = p
      BY DEF Kids, Tokens
    <3>4. count \in IF tree[t].parent # p THEN {0} ELSE {1}
      BY <3>2, <3>3
    <3> QED BY <2>2, <3>4 DEF count
  <2> QED BY <2>1, <2>2
<1>4. NoCycles
  <2> SUFFICES ASSUME NEW t \in Tokens, tree[t].parent # None, IsAbove(t, tree[t].parent)
               PROVE  FALSE
    BY DEF NoCycles
  <2> DEFINE p == tree[t].parent
  <2>1. PICK R : Ranks(R, tree)
    BY <1>1 DEF Ranked
  <2>2. p \in Tokens
    BY <1>1 DEF Formed, Tokens
  <2>3. R[t] <= R[p]
    BY <1>1, <2>1, <2>2, AboveRanks
  <2>4. R[p] < R[t] /\ R[p] \in Nat /\ R[t] \in Nat
    BY <2>1, <2>2 DEF Ranks, Tokens
  <2> QED BY <2>3, <2>4
<1> QED BY <1>2, <1>3, <1>4 DEF TreeOK, TreeInv

LEMMA InitInv ==
  ASSUME MaxTokens \in Nat \ {0}, TreeInit
  PROVE  TreeInv
<1> DEFINE r == Token("element", NoShape, <<>>)
<1>1. tree = <<r>> /\ phase = "read" /\ stack = <<Doc>> /\ prev = None
  BY DEF TreeInit
<1>2. r.parent = None /\ r.child = <<>> /\ Fields \subseteq DOMAIN r
  BY DEF Token, Fields
<1> HIDE DEF r
<1>3. 1..1 = {1}
  OBVIOUS
<1>4. tree \in Seq({r}) /\ Len(tree) = 1 /\ tree[1] = r
  BY <1>1, SingleIsSeq
<1>5. DOMAIN tree = {1} /\ tree = [t \in 1..1 |-> tree[t]]
  <2>1. DOMAIN tree = 1..1 /\ tree \in [1..1 -> {r}]
    BY <1>4, LenProperties
  <2> QED BY <1>3, <2>1
<1>6. Formed(tree)
  <2>1. <<>> \in Seq(1..1)
    BY EmptySeq
  <2>2. \A t \in 1..1 : /\ Fields \subseteq DOMAIN tree[t]
                        /\ tree[t].parent \in 1..1 \union {None}
                        /\ tree[t].child \in Seq(1..1)
    BY <1>2, <1>3, <1>4, <2>1
  <2>3. 1 \in Nat
    OBVIOUS
  <2> QED BY ONLY <1>5, <2>2, <2>3, Forms
<1>7. Bound(tree)
  <2>1. Kids(tree, 1) = {}
    BY <1>2, <1>4, <1>5 DEF Kids, None
  <2>2. Lists(<<>>, {1}, {})
    BY ListsNothing
  <2> QED BY <1>2, <1>4, <1>5, <2>1, <2>2 DEF Bound
<1>8. Ranked(tree)
  <2> DEFINE R == [t \in {1} |-> 0]
  <2>1. Ranks(R, tree)
    BY <1>2, <1>4, <1>5 DEF Ranks
  <2> QED BY <2>1 DEF Ranked
<1>9. Sound(tree)
  BY <1>2, <1>4, <1>5, <1>6, <1>7, <1>8 DEF Sound, Doc
<1>10. stack \in Seq(Tokens) /\ prev \in Tokens \union {None}
  <2>1. Doc \in Tokens
    BY <1>5 DEF Doc, Tokens
  <2> QED BY <1>1, <2>1, SingleIsSeq
<1>11. Len(tree) <= MaxTokens
  BY <1>4
<1> QED BY <1>1, <1>9, <1>10, <1>11 DEF TreeInv

(* Tokens stay. *)
LEMMA Stays ==
  ASSUME NEW s, NEW q, NEW old, NEW new, Formed(old), Formed(new), Len(old) <= Len(new),
         s \in Seq(DOMAIN old), q \in DOMAIN old \union {None}
  PROVE  /\ DOMAIN old \subseteq DOMAIN new
         /\ s \in Seq(DOMAIN new) /\ q \in DOMAIN new \union {None}
<1>1. /\ Len(old) \in Nat /\ DOMAIN old = 1..Len(old)
      /\ Len(new) \in Nat /\ DOMAIN new = 1..Len(new)
  BY FormedTokens
<1>2. DOMAIN old \subseteq DOMAIN new
  BY <1>1
<1>3. s \in Seq(DOMAIN new)
  BY <1>2, SeqMonotonic
<1> QED BY <1>2, <1>3

(* A step that leaves the tree sound and the phase, or ends reading. *)
LEMMA Holds ==
  ASSUME TreeInv, phase # "indented", phase' \in {"read", "edit", "error"},
         Sound(tree'), Len(tree) <= Len(tree'), Len(tree') <= MaxTokens,
         stack' \in Seq(Tokens'), prev' \in Tokens' \union {None}
  PROVE  TreeInv'
BY DEF TreeInv

LEMMA EditHolds ==
  ASSUME TreeInv, phase = "edit", UNCHANGED <<phase, stack, prev>>,
         Sound(tree'), Len(tree) <= Len(tree'), Len(tree') <= MaxTokens
  PROVE  TreeInv'
<1>1. Sound(tree) /\ stack \in Seq(DOMAIN tree) /\ prev \in DOMAIN tree \union {None}
  BY DEF TreeInv, Tokens
<1>2. stack \in Seq(DOMAIN tree') /\ prev \in DOMAIN tree' \union {None}
  BY <1>1, Stays DEF Sound
<1> QED BY <1>2, Holds DEF Tokens

(* A token is created while the document is read. *)
LEMMA ReadCreates ==
  ASSUME TreeInv, phase = "read", stack # <<>>, Room, MaxTokens \in Nat, NEW token, Fresh(token)
  PROVE  LET w == Created(tree, token, Last(stack))
             size == Len(tree) + 1
         IN  /\ Sound(w) /\ Len(tree) <= Len(w) /\ Len(w) <= MaxTokens
             /\ size \in DOMAIN w /\ stack \in Seq(DOMAIN w) /\ prev \in DOMAIN w \union {None}
<1> DEFINE w == Created(tree, token, Last(stack))
<1>1. Sound(tree) /\ stack \in Seq(DOMAIN tree) /\ prev \in DOMAIN tree \union {None}
  BY DEF TreeInv, Tokens
<1>2. Last(stack) \in DOMAIN tree
  <2>1. Len(stack) \in 1..Len(stack)
    BY <1>1, EmptySeq, LenProperties
  <2> QED BY <1>1, <2>1, ElementOfSeq DEF Last
<1>3. Sound(w) /\ Grows(w, tree, Last(stack))
  <2>1. Last(stack) \in DOMAIN tree \union {None} /\ Sound(tree) /\ Fresh(token)
    BY <1>1, <1>2
  <2> QED BY ONLY <2>1, CreatedIsSound
<1> HIDE DEF w
<1>4. Len(tree) \in Nat /\ Formed(tree)
  BY <1>1, FormedTokens DEF Sound
<1>5. Len(tree) <= Len(w) /\ Len(w) <= MaxTokens /\ Len(tree) + 1 \in DOMAIN w
  BY <1>3, <1>4 DEF Grows, Room
<1>6. stack \in Seq(DOMAIN w) /\ prev \in DOMAIN w \union {None}
  BY <1>1, <1>3, <1>4, <1>5, Stays DEF Sound
<1> QED BY <1>3, <1>5, <1>6 DEF w

LEMMA StepReads ==
  ASSUME MaxTokens \in Nat, TreeInv,
         \/ \E shape \in Shapes : StartElement(shape)
         \/ EndElement \/ (\E s \in Texts : ReadText(s)) \/ NoteRead \/ TooManyEnds \/ EndOfInput
  PROVE  TreeInv'
<1>1. CASE \E shape \in Shapes : StartElement(shape)
  <2>1. PICK shape \in Shapes : StartElement(shape)
    BY <1>1
  <2> DEFINE token == Token("element", shape, <<>>)
             w == Created(tree, token, Last(stack))
             size == Len(tree) + 1
  <2>2. /\ phase = "read" /\ stack # <<>> /\ Room /\ tree' = w /\ phase' = phase
        /\ stack' = Append(stack, size) /\ prev' = None
    BY <2>1 DEF StartElement, Reads
  <2>3. Fresh(token)
    BY TokenIsFresh
  <2> HIDE DEF token
  <2>4. /\ Sound(w) /\ Len(tree) <= Len(w) /\ Len(w) <= MaxTokens
        /\ size \in DOMAIN w /\ stack \in Seq(DOMAIN w) /\ prev \in DOMAIN w \union {None}
    BY <2>2, <2>3, ReadCreates
  <2> HIDE DEF w, size
  <2>5. Append(stack, size) \in Seq(DOMAIN w)
    BY <2>4, AppendProperties
  <2> QED BY <2>2, <2>4, <2>5, Holds DEF Tokens
<1>2. CASE EndElement
  <2>1. /\ phase = "read" /\ phase' = phase /\ stack # <<>> /\ tree' = tree
        /\ prev' = Last(stack) /\ stack' = Front(stack)
    BY <1>2 DEF EndElement, Reads
  <2>2. stack \in Seq(Tokens) /\ Sound(tree) /\ Len(tree) <= MaxTokens
    BY <2>1 DEF TreeInv
  <2>3. Front(stack) \in Seq(Tokens) /\ Last(stack) \in Tokens
    <3>1. Len(stack) \in 1..Len(stack) /\ Len(stack) \in Nat
      BY <2>1, <2>2, EmptySeq, LenProperties
    <3>2. \A i \in 1..(Len(stack) - 1) : stack[i] \in Tokens
      BY <2>2, <3>1, ElementOfSeq
    <3>3. SubSeq(stack, 1, Len(stack) - 1) \in Seq(Tokens)
      <4>1. 1 \in Int /\ Len(stack) - 1 \in Int
        BY <3>1
      <4> QED BY <2>2, <3>2, <4>1, SubSeqProperties
    <3> QED BY <2>2, <3>1, <3>3, ElementOfSeq DEF Last, Front
  <2>4. Tokens' = Tokens /\ Len(tree) <= Len(tree')
    BY <2>1, <2>2, FormedTokens DEF Tokens, Sound
  <2> QED BY <2>1, <2>2, <2>3, <2>4, Holds
<1>3. CASE \E s \in Texts : ReadText(s)
  <2>1. PICK s \in Texts : ReadText(s)
    BY <1>3
  <2>2. /\ phase = "read" /\ stack # <<>> /\ Room /\ phase' = phase /\ stack' = stack /\ prev' = prev
        /\ tree' = IF prev = None
                     THEN Created(tree, [Token("text", NoShape, s) EXCEPT !.blank = IsWhitespace(s)],
                                  Last(stack))
                     ELSE TailSet(tree, prev, s)
    BY <2>1 DEF ReadText, Reads
  <2>3. CASE prev = None
    <3> DEFINE r == Token("text", NoShape, s)
               token == [r EXCEPT !.blank = IsWhitespace(s)]
               w == Created(tree, token, Last(stack))
    <3>1. Fresh(token)
      <4>1. Fresh(r) /\ "blank" \in DOMAIN r
        BY TokenIsFresh
      <4> HIDE DEF r
      <4>2. DOMAIN token = DOMAIN r /\ \A g \in DOMAIN r : g # "blank" => token[g] = r[g]
        BY <4>1, FieldSet
      <4>3. "child" \in DOMAIN r
        BY <4>1 DEF Fresh, Fields
      <4>4. token["child"] = r["child"]
        BY <4>2, <4>3
      <4> HIDE DEF token
      <4> QED BY <4>1, <4>2, <4>4 DEF Fresh
    <3> HIDE DEF token
    <3>2. /\ Sound(w) /\ Len(tree) <= Len(w) /\ Len(w) <= MaxTokens
          /\ stack \in Seq(DOMAIN w) /\ prev \in DOMAIN w \union {None}
      BY <2>2, <3>1, ReadCreates
    <3>3. tree' = w
      BY <2>2, <2>3 DEF token
    <3> HIDE DEF w
    <3> QED BY <2>2, <3>2, <3>3, Holds DEF Tokens
  <2>4. CASE prev # None
    <3>1. Sound(tree) /\ prev \in Tokens /\ stack \in Seq(Tokens) /\ Len(tree) <= MaxTokens
      BY <2>2, <2>4 DEF TreeInv
    <3>2. tree' = TailSet(tree, prev, s)
      BY <2>2, <2>4
    <3>3. Sound(tree') /\ Len(tree') = Len(tree)
      <4>1. Sound(TailSet(tree, prev, s)) /\ Len(TailSet(tree, prev, s)) = Len(tree)
        <5>1. TailSet(tree, prev, s) \in {tree, WithField(tree, prev, "tail", s)}
          BY DEF TailSet, WithField
        <5>2. prev \in DOMAIN tree /\ "tail" \in Fields \ {"child", "parent"}
          BY <3>1 DEF Fields, Tokens
        <5>3. Sound(WithField(tree, prev, "tail", s)) /\ Len(WithField(tree, prev, "tail", s)) = Len(tree)
          BY <3>1, <5>2, OtherFieldIsSound
        <5> QED BY <3>1, <5>1, <5>3
      <4> QED BY <3>2, <4>1
    <3>4. Len(tree) <= Len(tree')
      BY <3>1, <3>3, FormedTokens DEF Sound
    <3>5. stack \in Seq(DOMAIN tree') /\ prev \in DOMAIN tree' \union {None}
      BY <3>1, <3>3, <3>4, Stays DEF Sound, Tokens
    <3> QED BY <2>2, <3>1, <3>3, <3>4, <3>5, Holds DEF Tokens
  <2> QED BY <2>3, <2>4
<1>4. CASE NoteRead
  <2> DEFINE w == Created(tree, Note, Last(stack))
             size == Len(tree) + 1
  <2>1. /\ phase = "read" /\ stack # <<>> /\ Room /\ tree' = w /\ phase' = phase
        /\ stack' = stack /\ prev' = size
    BY <1>4 DEF NoteRead, Reads
  <2>2. Fresh(Note)
    BY TokenIsFresh DEF Note
  <2>3. /\ Sound(w) /\ Len(tree) <= Len(w) /\ Len(w) <= MaxTokens
        /\ size \in DOMAIN w /\ stack \in Seq(DOMAIN w)
    BY <2>1, <2>2, ReadCreates
  <2> HIDE DEF w, size
  <2> QED BY <2>1, <2>3, Holds DEF Tokens
<1>5. CASE TooManyEnds \/ EndOfInput
  <2>1. /\ phase = "read" /\ phase' \in {"error", "edit"} /\ tree' = tree
        /\ stack' \in {stack, <<>>} /\ prev' \in {prev, None}
    BY <1>5 DEF TooManyEnds, EndOfInput, Reads
  <2>2. stack \in Seq(Tokens) /\ <<>> \in Seq(Tokens) /\ Sound(tree) /\ Len(tree) <= MaxTokens
        /\ prev \in Tokens \union {None}
    BY <2>1, EmptySeq DEF TreeInv
  <2>3. Tokens' = Tokens /\ Len(tree) <= Len(tree')
    BY <2>1, <2>2, FormedTokens DEF Tokens, Sound
  <2> QED BY <2>1, <2>2, <2>3, Holds
<1> QED BY <1>1, <1>2, <1>3, <1>4, <1>5

LEMMA StepEdits ==
  ASSUME MaxTokens \in Nat, TreeInv,
         \/ \E shape \in Shapes : NewElement(shape)
         \/ \E e \in Elements, shape \in Shapes : CreateElement(e, shape)
         \/ \E e \in Elements, s \in Texts : CreateCharData(e, s) \/ SetText(e, s)
         \/ \E e \in Elements, t \in Tokens : AddChild(e, t) \/ RemoveChild(e, t)
         \/ \E e \in Elements, ex, t \in Tokens : InsertChild(e, ex, t)
         \/ \E e \in Elements : SetRoot(e)
         \/ \E t \in Tokens \ {Doc}, s \in Texts : SetTail(t, s)
         \/ \E e \in Elements \ {Doc} : Copy(e)
  PROVE  TreeInv'
<1>1. phase = "edit" /\ UNCHANGED <<phase, stack, prev>>
  BY DEF NewElement, CreateElement, CreateCharData, SetText, AddChild, RemoveChild, InsertChild, SetRoot,
         SetTail, Copy, Edits
<1>2. Sound(tree) /\ Formed(tree) /\ Ranked(tree) /\ Bound(tree) /\ Len(tree) <= MaxTokens /\ Len(tree) \in Nat
  <2>1. Sound(tree) /\ Len(tree) <= MaxTokens
    BY <1>1 DEF TreeInv
  <2> QED BY <2>1, FormedTokens DEF Sound
<1>3. Elements \subseteq Tokens /\ Tokens = DOMAIN tree
  BY DEF Elements, Tokens
<1> SUFFICES Sound(tree') /\ Len(tree) <= Len(tree') /\ Len(tree') <= MaxTokens
  BY <1>1, EditHolds
<1>4. CASE \/ \E shape \in Shapes : NewElement(shape)
           \/ \E e \in Elements, shape \in Shapes : CreateElement(e, shape)
           \/ \E e \in Elements, s \in Texts : CreateCharData(e, s)
  <2>1. ASSUME NEW token, Fresh(token), NEW p \in Tokens \union {None}, Room, tree' = Created(tree, token, p)
        PROVE  Sound(tree') /\ Len(tree) <= Len(tree') /\ Len(tree') <= MaxTokens
    <3>1. Sound(Created(tree, token, p)) /\ Grows(Created(tree, token, p), tree, p)
      BY <1>2, <1>3, <2>1, CreatedIsSound
    <3> QED BY <1>2, <2>1, <3>1 DEF Grows, Room
  <2>2. CASE \E shape \in Shapes : NewElement(shape)
    <3>1. PICK shape \in Shapes : NewElement(shape)
      BY <2>2
    <3>2. Room /\ tree' = Created(tree, Token("element", shape, <<>>), None) /\ None \in Tokens \union {None}
      BY <3>1 DEF NewElement
    <3>3. Fresh(Token("element", shape, <<>>))
      BY TokenIsFresh
    <3> QED BY <2>1, <3>2, <3>3
  <2>3. CASE \E e \in Elements, shape \in Shapes : CreateElement(e, shape)
    <3>1. PICK e \in Elements, shape \in Shapes : CreateElement(e, shape)
      BY <2>3
    <3>2. Room /\ tree' = Created(tree, Token("element", shape, <<>>), e) /\ e \in Tokens \union {None}
      BY <1>3, <3>1 DEF CreateElement
    <3>3. Fresh(Token("element", shape, <<>>))
      BY TokenIsFresh
    <3> QED BY <2>1, <3>2, <3>3
  <2>4. CASE \E e \in Elements, s \in Texts : CreateCharData(e, s)
    <3>1. PICK e \in Elements, s \in Texts : CreateCharData(e, s)
      BY <2>4
    <3>2. Room /\ tree' = Created(tree, Token("text", NoShape, s), e) /\ e \in Tokens \union {None}
      BY <1>3, <3>1 DEF CreateCharData
    <3>3. Fresh(Token("text", NoShape, s))
      BY TokenIsFresh
    <3> QED BY <2>1, <3>2, <3>3
  <2> QED BY <1>4, <2>2, <2>3, <2>4
<1>5. CASE \E e \in Elements, s \in Texts : SetText(e, s)
  <2>1. PICK e \in Elements, s \in Texts : SetText(e, s)
    BY <1>5
  <2>2. Sound(TextSet(tree, e, s)) /\ Len(TextSet(tree, e, s)) \in {Len(tree), Len(tree) + 1}
    BY <1>2, <1>3, TextSetIsSound
  <2>3. Room /\ tree' = TextSet(tree, e, s)
    BY <2>1 DEF SetText
  <2> QED BY <1>2, <2>2, <2>3 DEF Room
<1>6. CASE \E e \in Elements, t \in Tokens : AddChild(e, t)
  <2>1. PICK e \in Elements, t \in Tokens : AddChild(e, t)
    BY <1>6
  <2>2. t # Doc /\ ~IsAbove(t, e) /\ tree' = Appended(tree, e, t) /\ e \in Tokens
    BY <1>3, <2>1 DEF AddChild
  <2> DEFINE w == Appended(tree, e, t)
  <2>3. Keeps(w, tree) /\ \A y \in DOMAIN tree : w[y].parent = IF y = t THEN e ELSE tree[y].parent
    BY <1>2, <1>3, <2>2, AppendedKeeps
  <2> HIDE DEF w
  <2>4. Sound(w) /\ Len(w) = Len(tree)
    BY <1>2, <1>3, <2>2, <2>3, MovedIsSound
  <2> QED BY <1>2, <2>2, <2>4 DEF w
<1>7. CASE \E e \in Elements, t \in Tokens : RemoveChild(e, t)
  <2>1. PICK e \in Elements, t \in Tokens : RemoveChild(e, t)
    BY <1>7
  <2>2. tree' = Removed(tree, e, t)
    BY <2>1 DEF RemoveChild
  <2>3. Sound(Removed(tree, e, t)) /\ Len(Removed(tree, e, t)) = Len(tree)
    BY <1>2, <1>3, RemovedIsSound
  <2> QED BY <1>2, <2>2, <2>3
<1>8. CASE \E e \in Elements, ex, t \in Tokens : InsertChild(e, ex, t)
  <2>1. PICK e \in Elements, ex \in Tokens, t \in Tokens : InsertChild(e, ex, t)
    BY <1>8
  <2>2. t # Doc /\ ~IsAbove(t, e) /\ tree' = Inserted(tree, e, ex, t) /\ e \in Tokens
    BY <1>3, <2>1 DEF InsertChild
  <2> DEFINE w == Inserted(tree, e, ex, t)
  <2>3. Keeps(w, tree) /\ \A y \in DOMAIN tree : w[y].parent = IF y = t THEN e ELSE tree[y].parent
    BY <1>2, <1>3, <2>2, InsertedKeeps
  <2> HIDE DEF w
  <2>4. Sound(w) /\ Len(w) = Len(tree)
    BY <1>2, <1>3, <2>2, <2>3, MovedIsSound
  <2> QED BY <1>2, <2>2, <2>4 DEF w
<1>9. CASE \E e \in Elements : SetRoot(e)
  <2>1. PICK e \in Elements : SetRoot(e)
    BY <1>9
  <2>2. e # Doc /\ tree' = Rooted(tree, e) /\ e \in Tokens /\ Doc \in Tokens /\ tree[Doc].parent = None
    BY <1>2, <1>3, <2>1 DEF SetRoot, Sound
  <2>3. ~IsAbove(e, Doc)
    BY <1>2, <2>2, AboveStep
  <2> DEFINE w == Rooted(tree, e)
  <2>4. /\ Keeps(w, tree) /\ w[e].parent = Doc
        /\ \A y \in DOMAIN tree : y # e => w[y].parent \in {None, tree[y].parent}
    BY <1>2, <1>3, <2>2, RootedKeeps
  <2> HIDE DEF w
  <2>5. Sound(w) /\ Len(w) = Len(tree)
    BY <1>2, <1>3, <2>2, <2>3, <2>4, MovedIsSound
  <2> QED BY <1>2, <2>2, <2>5 DEF w
<1>10. CASE \E t \in Tokens \ {Doc}, s \in Texts : SetTail(t, s)
  <2>1. PICK t \in Tokens \ {Doc}, s \in Texts : SetTail(t, s)
    BY <1>10
  <2>2. tree' = TailSet(tree, t, s) /\ t \in DOMAIN tree
    BY <1>3, <2>1 DEF SetTail
  <2>3. TailSet(tree, t, s) \in {tree, WithField(tree, t, "tail", s)}
    BY DEF TailSet, WithField
  <2>4. Sound(WithField(tree, t, "tail", s)) /\ Len(WithField(tree, t, "tail", s)) = Len(tree)
    <3>1. "tail" \in Fields \ {"child", "parent"}
      BY DEF Fields
    <3> QED BY <1>2, <2>2, <3>1, OtherFieldIsSound
  <2>5. Sound(tree') /\ Len(tree') = Len(tree)
    BY <1>2, <2>2, <2>3, <2>4
  <2> QED BY <1>2, <2>5
<1>11. CASE \E e \in Elements \ {Doc} : Copy(e)
  <2>1. PICK e \in Elements \ {Doc} : Copy(e)
    BY <1>11
  <2>2. tree' = tree \o Duplicated(e) /\ Len(tree) + Len(Under(e)) <= MaxTokens /\ e \in Tokens
    BY <1>3, <2>1 DEF Copy
  <2>3. Sound(tree \o Duplicated(e)) /\ Len(tree \o Duplicated(e)) = Len(tree) + Len(Under(e))
    BY <1>2, <2>2, DuplicatedIsSound
  <2>4. Len(Under(e)) \in Nat
    BY <1>2, CopiesAre
  <2> QED BY <1>2, <2>2, <2>3, <2>4
<1> QED BY <1>4, <1>5, <1>6, <1>7, <1>8, <1>9, <1>10, <1>11

LEMMA StepIndents ==
  ASSUME MaxTokens \in Nat, TreeInv, Indent
  PROVE  TreeInv'
<1> DEFINE w == [t \in Tokens |-> IF IsAbove(Doc, t) THEN Trimmed(t) ELSE tree[t]]
<1>1. phase = "edit" /\ phase' = "indented" /\ tree' = w /\ stack' = stack /\ prev' = prev
  BY DEF Indent
<1>2. /\ Sound(tree) /\ Len(tree) <= MaxTokens
      /\ stack \in Seq(DOMAIN tree) /\ prev \in DOMAIN tree \union {None}
  BY <1>1 DEF TreeInv, Tokens
<1>3. Formed(w) /\ Thinned(w) /\ Ranked(w) /\ Len(w) = Len(tree)
  BY <1>2, TrimmedIsThin
<1>4. DOMAIN w = DOMAIN tree
  BY DEF Tokens
<1> HIDE DEF w
<1>5. stack \in Seq(DOMAIN w) /\ prev \in DOMAIN w \union {None}
  BY <1>2, <1>4
<1> QED BY <1>1, <1>2, <1>3, <1>5 DEF TreeInv, Tokens

LEMMA StepInv ==
  ASSUME MaxTokens \in Nat, TreeInv, [TreeNext]_treeVars
  PROVE  TreeInv'
<1>1. CASE UNCHANGED treeVars
  <2>1. /\ tree' = tree /\ phase' = phase /\ stack' = stack /\ prev' = prev
    BY <1>1 DEF treeVars
  <2> QED BY <2>1 DEF TreeInv, Tokens
<1>2. CASE TreeNext
  BY <1>2, StepReads, StepEdits, StepIndents DEF TreeNext
<1> QED BY <1>1, <1>2

(* The tokens and the lists of children agree, and nothing is under itself, *)
(* whatever is read and however the document is changed.                    *)
THEOREM TreeIsSound == TreeSpec => []TreeOK
<1>1. MaxTokens \in Nat \ {0}
  BY TreeAssumption DEF TreeAssumption
<1>2. TreeInit => TreeInv
  BY <1>1, InitInv
<1>3. TreeInv /\ [TreeNext]_treeVars => TreeInv'
  BY <1>1, StepInv
<1>4. TreeInv => TreeOK
  BY <1>1, InvIsOK
<1> QED BY <1>2, <1>3, <1>4, PTL DEF TreeSpec
=============================================================================
