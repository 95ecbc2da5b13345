----------------------------- MODULE ConvertRun -----------------------------
(***************************************************************************)
(* A run of the convert command: processDir and processArchive hand book   *)
(* after book to processBook (commands/convert.go), which prepares a work  *)
(* directory, converts, writes the result to its destination, mails it and *)
(* cleans up (processor/process.go, epub.go, mobiazw3.go).  Every step     *)
(* that touches the disk, kindlegen or the mail server may fail; a book    *)
(* that fails, or panics, is logged and the next one is tried.             *)
(*                                                                         *)
(* The program works on one book at a time.  What the properties are about *)
(* is what a step that fails leaves behind for the user and for the books  *)
(* that follow, some of which have the same destination.                   *)
(***************************************************************************)
EXTENDS Integers, FiniteSets

CONSTANTS
    NBooks,         \* books that the walk over the source finds
    Targets,        \* output files that prepareOutputName can come to
    Dirs,           \* directories below the destination
    Above,          \* the directories that a target or a directory is in
    Faults          \* what the environment does unnoticed: "close", "kindlegen"

Books == 1..NBooks

ASSUME BooksAssumption == NBooks \in Nat
ASSUME AboveAssumption ==
    /\ Above \in [Targets \union Dirs -> SUBSET Dirs]
    /\ \A d \in Dirs : d \notin Above[d]
    /\ \A x \in Targets \union Dirs : \A d \in Above[x] : Above[d] \subseteq Above[x]
ASSUME FaultsAssumption == Faults \subseteq {"close", "kindlegen"}

(* epub: written in place; fixed: written to the work directory and then   *)
(* rewritten (fix_zip_format); kindle: split out of what kindlegen made;   *)
(* copied: the same as is (no_mobi_optimization).                          *)
Formats == {"epub", "fixed", "kindle", "copied"}
Kindle == {"kindle", "copied"}

VARIABLES
    opts,           \* command line and configuration
    target,         \* prepareOutputName of every book
    book,           \* the book at hand
    pc,             \* where processBook is
    file,           \* the files at the destination
    dirs,           \* the directories there
    work,           \* the work directory of every book and what is ready in it
    outcome,        \* what processBook came to
    mail,           \* what was mailed
    stored,         \* what the report is to contain
    archive         \* what it contains

vars == <<opts, target, book, pc, file, dirs, work, outcome, mail, stored, archive>>

(* A file of the book b, or of 0 when it is older than the run. *)
Nothing == [of |-> -1, whole |-> FALSE]
Part(b) == [of |-> b, whole |-> FALSE]
Whole(b) == [of |-> b, whole |-> TRUE]

t == target[book]

Exists(x) == file[x] # Nothing

Init ==
    /\ opts \in [format : Formats, overwrite : BOOLEAN, report : BOOLEAN,
                 mail : BOOLEAN, delete : BOOLEAN, nodirs : BOOLEAN]
    /\ opts.mail => opts.format \notin Kindle
    /\ opts.delete => opts.mail
    /\ opts.nodirs => opts.delete
    /\ target \in [Books -> Targets]
    /\ file \in [Targets -> {Nothing, Whole(0)}]
    /\ dirs = UNION {Above[x] : x \in {y \in Targets : Exists(y)}}
    /\ book = 1 /\ pc = "start"
    /\ work = [b \in Books |-> "none"]
    /\ outcome = [b \in Books |-> "none"]
    /\ mail = [b \in Books |-> "none"]
    /\ stored = {} /\ archive = {}

-----------------------------------------------------------------------------
(* processBook returned, or recovered from a panic: the walk goes on. *)
EndStopping(result) ==
    /\ outcome' = [outcome EXCEPT ![book] = result]
    /\ pc' = IF result = "error" THEN "end" ELSE "start"
    /\ book' = book + 1

End(result) ==
    /\ outcome' = [outcome EXCEPT ![book] = result]
    /\ pc' = "start"
    /\ book' = book + 1

Go(to) == pc' = to /\ UNCHANGED <<book, outcome>>

Store(what) == stored' = IF opts.report THEN stored \union {<<what, book>>} ELSE stored

At(place) == book \in Books /\ pc = place

(* A file that cannot be opened or is not a book.                          *)
Skip == At("start") /\ End("skipped") /\ UNCHANGED <<file, dirs, work, mail, stored>>

(* NewFB2: no kindlegen or no work directory, or a source that is no FB2. *)
Prepare ==
    /\ At("start")
    /\ work' = [work EXCEPT ![book] = "empty"]
    /\ Store("work")
    /\ Go("read")
    /\ UNCHANGED <<file, dirs, mail>>

PrepareFails == At("start") /\ End("error") /\ UNCHANGED <<file, dirs, work, mail, stored>>

Read == At("read") /\ Go("process") /\ UNCHANGED <<file, dirs, work, mail, stored>>

ReadFails == At("read") /\ End("error") /\ UNCHANGED <<file, dirs, work, mail, stored>>

Process == At("process") /\ Go("flush") /\ UNCHANGED <<file, dirs, work, mail, stored>>

ProcessFails ==
    /\ At("process")
    /\ End("error") \/ End("panic")
    /\ UNCHANGED <<file, dirs, work, mail, stored>>

-----------------------------------------------------------------------------
(* Save. *)
Generates == opts.format \in Kindle

AfterFlushChecking == "check"
AfterFlush == IF Generates THEN "generate" ELSE "check"

Flush ==
    /\ At("flush")
    /\ work' = [work EXCEPT ![book] = "content"]
    /\ Go(AfterFlush)
    /\ UNCHANGED <<file, dirs, mail, stored>>

FlushFails == At("flush") /\ End("error") /\ UNCHANGED <<file, dirs, work, mail, stored>>

(* generateIntermediateContent.  The result is looked for when kindlegen   *)
(* exits with 1; when it exits with 0 it is taken to be there.             *)
Generate ==
    /\ At("generate")
    /\ \/ work' = [work EXCEPT ![book] = "result"]
       \/ "kindlegen" \in Faults /\ UNCHANGED work
    /\ Go("check")
    /\ UNCHANGED <<file, dirs, mail, stored>>

GenerateFails == At("generate") /\ End("error") /\ UNCHANGED <<file, dirs, work, mail, stored>>

(* What the three Finalize functions do with the destination. *)
AfterCheck == IF opts.format = "fixed" THEN "pack" ELSE "create"

InTheWayNever == FALSE
InTheWay == Exists(t) /\ ~opts.overwrite

Refuse == At("check") /\ InTheWay /\ End("error") /\ UNCHANGED <<file, dirs, work, mail, stored>>

RemoveOld ==
    /\ At("check") /\ Exists(t) /\ ~InTheWay
    /\ file' = [file EXCEPT ![t] = Nothing]
    /\ Go(AfterCheck)
    /\ UNCHANGED <<dirs, work, mail, stored>>

(* os.MkdirAll(filepath.Dir(fname)) *)
MadeFor(x) == Above[x]

MakeDirs ==
    /\ At("check") /\ ~Exists(t)
    /\ dirs' = dirs \union MadeFor(t)
    /\ Go(AfterCheck)
    /\ UNCHANGED <<file, work, mail, stored>>

CheckFails ==
    /\ At("check") /\ ~InTheWay
    /\ End("error")
    /\ UNCHANGED <<file, dirs, work, mail, stored>>

(* writeEPUB to the work directory.  The zip writer is closed by a defer   *)
(* that drops its error.                                                   *)
Pack ==
    /\ At("pack")
    /\ \/ work' = [work EXCEPT ![book] = "result"]
       \/ "close" \in Faults /\ UNCHANGED work
    /\ Go("create")
    /\ UNCHANGED <<file, dirs, mail, stored>>

PackFails == At("pack") /\ End("error") /\ UNCHANGED <<file, dirs, work, mail, stored>>

(* CopyFile and NewSplitter read what kindlegen made before they create    *)
(* the file, zipRemoveDataDescriptors opens its source afterwards.         *)
Create ==
    /\ At("create")
    /\ Generates => work[book] = "result"
    /\ file' = [file EXCEPT ![t] = Part(book)]
    /\ Go("fill")
    /\ UNCHANGED <<dirs, work, mail, stored>>

(* The parsing of what kindlegen made indexes it unchecked: it may panic.  *)
CreateFails ==
    /\ At("create")
    /\ End("error") \/ (opts.format = "kindle" /\ End("panic"))
    /\ UNCHANGED <<file, dirs, work, mail, stored>>

Fill ==
    /\ At("fill")
    /\ opts.format # "epub" => work[book] = "result"
    /\ file' = [file EXCEPT ![t] = Whole(book)]
    /\ Go("finish")
    /\ UNCHANGED <<dirs, work, mail, stored>>

FillFails == At("fill") /\ End("error") /\ UNCHANGED <<file, dirs, work, mail, stored>>

(* The errors of Close are dropped, but not by os.WriteFile (SaveResult).  *)
FillUnnoticed ==
    /\ At("fill")
    /\ "close" \in Faults /\ opts.format # "kindle"
    /\ opts.format = "fixed" => work[book] = "result"
    /\ Go("finish")
    /\ UNCHANGED <<file, dirs, work, mail, stored>>

(* The packed file is removed, the page map written: either may fail when  *)
(* the book itself is complete.                                            *)
Finish ==
    /\ At("finish")
    /\ work' = IF opts.format = "fixed" THEN [work EXCEPT ![book] = "content"] ELSE work
    /\ Store("book")
    /\ Go("mail")
    /\ UNCHANGED <<file, dirs, mail>>

FinishFails ==
    /\ At("finish") /\ opts.format \in {"fixed", "kindle"}
    /\ End("error")
    /\ UNCHANGED <<file, dirs, work, mail, stored>>

-----------------------------------------------------------------------------
(* SendToKindle. *)
NoMail == At("mail") /\ ~opts.mail /\ Go("clean") /\ UNCHANGED <<file, dirs, work, mail, stored>>

Send ==
    /\ At("mail") /\ opts.mail
    /\ mail' = [mail EXCEPT ![book] = IF file[t].whole THEN "whole" ELSE "part"]
    /\ Go(IF opts.delete THEN "delete" ELSE "clean")
    /\ UNCHANGED <<file, dirs, work, stored>>

SendFails ==
    /\ At("mail") /\ opts.mail
    /\ End("error")
    /\ UNCHANGED <<file, dirs, work, mail, stored>>

(* Directories are removed from the innermost on: one that is not empty    *)
(* stays, and so do those it is in.                                        *)
EmptyAlways(d, files) == TRUE

Empty(d, files) ==
    /\ \A x \in Targets : files[x] # Nothing => d \notin Above[x]
    /\ \A e \in dirs : d \in Above[e] => e \in Above[t]

DeleteSent ==
    /\ At("delete")
    /\ \/ file' = [file EXCEPT ![t] = Nothing]
       \/ UNCHANGED file
    /\ dirs' = IF opts.nodirs THEN dirs
               ELSE {d \in dirs : ~(d \in Above[t] /\ Empty(d, file'))}
    /\ Go("clean")
    /\ UNCHANGED <<work, mail, stored>>

(* Clean. *)
KeepsWork == opts.report

Clean ==
    /\ At("clean")
    /\ work' = IF KeepsWork THEN work ELSE [work EXCEPT ![book] = "none"]
    /\ End("ok")
    /\ UNCHANGED <<file, dirs, mail, stored>>

CleanFails ==
    /\ At("clean") /\ ~KeepsWork
    /\ End("error")
    /\ UNCHANGED <<file, dirs, work, mail, stored>>

-----------------------------------------------------------------------------
(* The walk is over.  Report.finalize takes what is still on the disk.     *)
Found(item) ==
    \/ item[1] = "work" /\ work[item[2]] # "none"
    \/ item[1] = "book" /\ Exists(target[item[2]])

Report ==
    /\ pc = "start" /\ book > NBooks
    /\ archive' = {item \in stored : Found(item)}
    /\ pc' = "end"
    /\ UNCHANGED <<book, file, dirs, work, outcome, mail, stored>>

BookStep ==
    \/ Skip \/ Prepare \/ PrepareFails \/ Read \/ ReadFails \/ Process \/ ProcessFails
    \/ Flush \/ FlushFails \/ Generate \/ GenerateFails
    \/ Refuse \/ RemoveOld \/ MakeDirs \/ CheckFails \/ Pack \/ PackFails
    \/ Create \/ CreateFails \/ Fill \/ FillFails \/ FillUnnoticed
    \/ Finish \/ FinishFails
    \/ NoMail \/ Send \/ SendFails \/ DeleteSent \/ Clean \/ CleanFails

Next ==
    \/ BookStep /\ UNCHANGED <<opts, target, archive>>
    \/ Report /\ UNCHANGED <<opts, target>>

Spec == Init /\ [][Next]_vars

(* The program is a single thread that keeps going. *)
FairSpec == Spec /\ WF_vars(Next)

-----------------------------------------------------------------------------
Contents == [of : {-1, 0} \union Books, whole : BOOLEAN]

TypeOK ==
    /\ book \in 1..(NBooks + 1)
    /\ pc \in {"start", "read", "process", "flush", "generate", "check", "pack",
               "create", "fill", "finish", "mail", "delete", "clean", "end"}
    /\ target \in [Books -> Targets]
    /\ file \in [Targets -> Contents]
    /\ dirs \subseteq Dirs
    /\ work \in [Books -> {"none", "empty", "content", "result"}]
    /\ outcome \in [Books -> {"none", "ok", "error", "panic", "skipped"}]
    /\ mail \in [Books -> {"none", "part", "whole"}]
    /\ stored \subseteq {"work", "book"} \X Books
    /\ archive \subseteq stored

(* A book that was converted stays at its destination, complete, through   *)
(* everything that happens to the books after it.  It may be deleted after *)
(* it was mailed, and a later book may take its place under --overwrite.   *)
DeliveredStays ==
    \A b \in Books : outcome[b] = "ok" =>
        \/ file[target[b]] = Whole(b)
        \/ opts.delete /\ mail[b] = "whole"
        \/ opts.overwrite /\ \E c \in (b + 1)..NBooks : target[c] = target[b] /\ c <= book

(* Files that were there before the run are there after it, unless         *)
(* --overwrite is given.                                                   *)
OldFilesStay ==
    [][\A x \in Targets :
        file[x] = Whole(0) /\ file'[x] # Whole(0) => opts.overwrite /\ target[book] = x]_vars

(* Under --overwrite the old file is given up only for a book that is      *)
(* converted: its content is on the disk, and so is what kindlegen makes   *)
(* of it.                                                                  *)
ReplacedWhenReady ==
    [][\A x \in Targets :
        Exists(x) /\ file'[x] = Nothing =>
            work[book] = (IF Generates THEN "result" ELSE "content")]_vars

(* What goes to the reader's device is the complete book. *)
MailIsWhole == \A b \in Books : mail[b] # "part"

(* Deleting the directories of a book that was mailed leaves those that    *)
(* hold something, a file or a directory.                                  *)
FilesHaveDirs ==
    /\ \A x \in Targets : Exists(x) => Above[x] \subseteq dirs
    /\ \A d \in dirs : Above[d] \subseteq dirs

(* With --debug the report has the work directory of every book that got   *)
(* one, also of those that were converted.                                 *)
ReportHasTheWork ==
    pc = "end" /\ opts.report =>
        \A b \in Books : outcome[b] \in {"ok", "panic"} => <<"work", b>> \in archive

(* What is done with a book after it was saved: mailing, deleting what was *)
(* mailed, reporting.                                                      *)
AfterSaveSound == MailIsWhole /\ FilesHaveDirs /\ ReportHasTheWork

(* No failure or panic of a book keeps the program from trying the rest.   *)
EveryBookIsTried == <>(pc = "end" /\ \A b \in Books : outcome[b] # "none")

(* "Save makes the conversion results permanent by storing everything      *)
(* properly and cleaning temporary artifacts" (process.go:278): a book     *)
(* that was saved without an error is complete.                            *)
SavedIsWhole ==
    book \in Books /\ pc \in {"mail", "delete"} => file[t] = Whole(book)

=============================================================================
