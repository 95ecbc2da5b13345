------------------------------ MODULE FlushAll ------------------------------
(***************************************************************************)
(* What one call of Book.flushData, Book.flushImages or Book.flushXHTML    *)
(* promises to Processor.Save: every file of the list is written and nil   *)
(* comes back, or at least one write failed and the error of one failed    *)
(* write comes back.  How the work is spread over goroutines is left to    *)
(* the module FlushPool, which implements this one.                        *)
(***************************************************************************)

CONSTANT NoError        \* nil

VARIABLES
    batch,              \* Book.Data, Book.Images or Book.Files
    written,            \* files whose flush returned nil
    failed,             \* files whose flush returned an error
    returned,           \* the call is over
    err                 \* file whose error is returned, NoError for nil

absVars == <<batch, written, failed, returned, err>>

AbsInit ==
    /\ written = {}
    /\ failed = {}
    /\ returned = FALSE
    /\ err = NoError

(* A file nobody has dealt with yet is written. *)
Write(f) ==
    /\ ~returned
    /\ f \notin written \union failed
    /\ written' = written \union {f}
    /\ UNCHANGED <<batch, failed, returned, err>>

(* A write fails; files that are in flight may still be finished. *)
Fail(f) ==
    /\ ~returned
    /\ f \notin written \union failed
    /\ failed' = failed \union {f}
    /\ UNCHANGED <<batch, written, returned, err>>

ReturnNil ==
    /\ ~returned
    /\ written = batch
    /\ failed = {}
    /\ returned' = TRUE
    /\ UNCHANGED <<batch, written, failed, err>>

ReturnError ==
    /\ ~returned
    /\ err' \in failed
    /\ returned' = TRUE
    /\ UNCHANGED <<batch, written, failed>>

AbsNext ==
    \/ \E f \in batch : Write(f) \/ Fail(f)
    \/ ReturnNil
    \/ ReturnError

AbsSpec == AbsInit /\ [][AbsNext]_absVars

=============================================================================
