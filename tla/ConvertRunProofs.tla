-------------------------- MODULE ConvertRunProofs --------------------------
(***************************************************************************)
(* Proofs about ConvertRun, for any number of books, any destinations and  *)
(* any directories.  IInv holds whatever the environment does; the         *)
(* theorems that need an environment without silent failures say so.       *)
(***************************************************************************)
EXTENDS ConvertRun, TLAPS

Options == [format : Formats, overwrite : BOOLEAN, report : BOOLEAN,
            mail : BOOLEAN, delete : BOOLEAN, nodirs : BOOLEAN]

OptionsOK ==
    /\ opts \in Options
    /\ opts.mail => opts.format \notin Kindle
    /\ opts.delete => opts.mail

(* The books are done one after the other. *)
InOrder == \A b \in Books : b >= book => outcome[b] = "none"

Closes == "close" \notin Faults

Written == file[t].of = book /\ (Closes => file[t] = Whole(book))

Mailed == opts.delete /\ (Closes => mail[book] = "whole")

(* What is at the destination at each step of Save, mail and deletion. *)
AtDestination ==
    book \in Books =>
        /\ pc \in {"pack", "create"} => ~Exists(t) /\ Above[t] \subseteq dirs
        /\ pc = "fill" => file[t] = Part(book)
        /\ pc \in {"finish", "mail", "delete"} => Written
        /\ pc = "delete" => Mailed
        /\ pc = "clean" => Written \/ Mailed

(* What is in the work directory meanwhile. *)
InWork ==
    book \in Books =>
        /\ pc = "generate" => Generates
        /\ pc = "check" /\ Generates /\ "kindlegen" \notin Faults => work[book] = "result"
        /\ pc = "check" /\ ~Generates => work[book] = "content"
        /\ pc = "pack" => opts.format = "fixed"
        /\ pc \in {"create", "fill", "finish"} /\ opts.format = "epub" => work[book] = "content"
        /\ pc \in {"mail", "delete"} /\ ~Generates => work[book] = "content"

(* The report knows the work directories, and they are there. *)
WorkIsKept ==
    opts.report =>
        \A b \in Books :
            \/ outcome[b] \in {"ok", "panic"}
            \/ b = book /\ pc \notin {"start", "end"}
            => <<"work", b>> \in stored /\ work[b] # "none"

IInv ==
    /\ TypeOK
    /\ OptionsOK
    /\ InOrder
    /\ AtDestination
    /\ InWork
    /\ FilesHaveDirs
    /\ WorkIsKept
    /\ ReportHasTheWork
    /\ Closes => MailIsWhole /\ DeliveredStays


-----------------------------------------------------------------------------
(* The files that the model speaks of have the type of a file.             *)
LEMMA FilesAreContents ==
    /\ Nothing \in Contents
    /\ \A b \in {0} \union Books : Whole(b) \in Contents /\ Part(b) \in Contents
BY DEF Nothing, Whole, Part, Contents

(* The files and directories that the run starts with.                     *)
LEMMA InitIInv == Init => IInv
<1> SUFFICES ASSUME Init PROVE IInv
  OBVIOUS
<1> USE DEF Init
<1>1. dirs \subseteq Dirs
  BY AboveAssumption
<1>2. file \in [Targets -> Contents]
  <2>1. {Nothing, Whole(0)} \subseteq Contents
    BY FilesAreContents
  <2> QED
    BY <2>1
<1>2a. TypeOK
  BY <1>1, <1>2, BooksAssumption DEF TypeOK, Books
<1>3. OptionsOK
  BY DEF OptionsOK, Options
<1>4. FilesHaveDirs
  BY AboveAssumption DEF FilesHaveDirs
<1>5. InOrder /\ AtDestination /\ InWork /\ WorkIsKept /\ ReportHasTheWork
  BY DEF InOrder, AtDestination, InWork, WorkIsKept, ReportHasTheWork
<1>6. MailIsWhole /\ DeliveredStays
  BY DEF MailIsWhole, DeliveredStays
<1> QED
  BY <1>2a, <1>3, <1>4, <1>5, <1>6 DEF IInv

-----------------------------------------------------------------------------
(* A book is given up, at any step: nothing but the place in the walk      *)
(* changes.                                                                *)
LEMMA GivenUp ==
    ASSUME IInv, book \in Books, pc # "end",
           NEW result \in {"error", "panic", "skipped"}, End(result),
           result = "panic" => pc # "start",
           UNCHANGED <<opts, target, archive, file, dirs, work, mail, stored>>
    PROVE  IInv'
<1> USE DEF IInv, End, Books
<1>1. TypeOK'
  BY BooksAssumption DEF TypeOK
<1>2. OptionsOK' /\ FilesHaveDirs'
  BY DEF OptionsOK, Options, FilesHaveDirs, Exists, Nothing
<1>3. InOrder'
  BY DEF InOrder, TypeOK
<1>4. AtDestination' /\ InWork'
  BY DEF AtDestination, InWork
<1>5. WorkIsKept'
  BY DEF WorkIsKept, TypeOK
<1>6. ReportHasTheWork'
  BY DEF ReportHasTheWork
<1>7. Closes => MailIsWhole' /\ DeliveredStays'
  BY DEF MailIsWhole, DeliveredStays, TypeOK, Whole
<1> QED
  BY <1>1, <1>2, <1>3, <1>4, <1>5, <1>6, <1>7 DEF Closes

-----------------------------------------------------------------------------
(* Going on to another step with the same book: what is left to show when  *)
(* the destination is not touched.                                         *)
LEMMA GoesOn ==
    ASSUME IInv, book \in Books, NEW to, Go(to),
           to \in {"read", "process", "flush", "generate", "check", "pack",
                   "create", "fill", "finish", "mail", "delete", "clean"},
           UNCHANGED <<opts, target, archive, file, dirs>>,
           pc = "start" /\ opts.report =>
                <<"work", book>> \in stored' /\ work'[book] # "none",
           \E w \in {work[book], "empty", "content", "result"} :
                work' = [work EXCEPT ![book] = w],
           stored \subseteq stored',
           stored' \subseteq {"work", "book"} \X Books,
           \/ UNCHANGED mail
           \/ outcome[book] = "none" /\ \E m \in {"part", "whole"} :
                  mail' = [mail EXCEPT ![book] = m] /\ (Closes => m = "whole"),
           AtDestination', InWork', pc # "end"
    PROVE  IInv'
<1> USE DEF IInv, Go
<1>1. TypeOK'
  BY DEF TypeOK
<1>2. OptionsOK' /\ FilesHaveDirs' /\ InOrder'
  BY DEF OptionsOK, Options, FilesHaveDirs, Exists, Nothing, InOrder
<1>3. WorkIsKept'
  <2>1. \A b \in Books : work[b] # "none" => work'[b] # "none"
    BY DEF TypeOK
  <2> QED
    BY <2>1 DEF WorkIsKept, TypeOK
<1>4. ReportHasTheWork'
  BY DEF ReportHasTheWork
<1>5. Closes => MailIsWhole' /\ DeliveredStays'
  BY DEF MailIsWhole, DeliveredStays, TypeOK, Whole
<1> QED
  BY <1>1, <1>2, <1>3, <1>4, <1>5 DEF Closes, AtDestination, InWork

(* NewFB2, Process, and the first half of Save. *)
LEMMA BeforeDestination ==
    ASSUME IInv, UNCHANGED <<opts, target, archive>>,
           Prepare \/ Read \/ Process \/ Flush \/ Generate \/ Pack
    PROVE  IInv'
<1> USE DEF At
<1>1. CASE Prepare
  <2>1. AtDestination' /\ InWork'
    BY <1>1 DEF Prepare, Go, AtDestination, InWork
  <2> QED
    BY <1>1, <2>1, GoesOn DEF Prepare, Go, Store, IInv, TypeOK
<1>2. CASE Read \/ Process
  <2>1. AtDestination' /\ InWork'
    BY <1>2 DEF Read, Process, Go, AtDestination, InWork
  <2> QED
    BY <1>2, <2>1, GoesOn DEF Read, Process, IInv, TypeOK
<1>3. CASE Flush
  <2>1. AtDestination' /\ InWork'
    <3>1. pc' = (IF Generates THEN "generate" ELSE "check") /\ book' = book
      BY <1>3 DEF Flush, AfterFlush, Go
    <3>2. work'[book] = "content"
      BY <1>3 DEF Flush, IInv, TypeOK
    <3>3. AtDestination'
      BY <3>1 DEF AtDestination
    <3>4. InWork'
      <4>1. CASE Generates
        BY <3>1, <4>1 DEF InWork, Generates
      <4>2. CASE ~Generates
        BY <3>1, <3>2, <4>2 DEF InWork, Generates
      <4> QED
        BY <4>1, <4>2
    <3> QED
      BY <3>3, <3>4
  <2> QED
    BY <1>3, <2>1, GoesOn DEF Flush, AfterFlush, IInv, TypeOK
<1>4. CASE Generate
  <2>1. AtDestination' /\ InWork'
    BY <1>4 DEF Generate, Go, AtDestination, InWork, IInv, TypeOK, Generates
  <2> QED
    BY <1>4, <2>1, GoesOn DEF Generate, IInv, TypeOK
<1>5. CASE Pack
  <2>1. AtDestination' /\ InWork'
    BY <1>5 DEF Pack, Go, AtDestination, InWork, IInv, TypeOK, Exists, t
  <2> QED
    BY <1>5, <2>1, GoesOn DEF Pack, IInv, TypeOK
<1> QED
  BY <1>1, <1>2, <1>3, <1>4, <1>5

-----------------------------------------------------------------------------
(* The destination is cleared or its directories are made, the book is     *)
(* written there.                                                          *)
LEMMA ClearsDestination ==
    ASSUME IInv, UNCHANGED <<opts, target, archive>>, RemoveOld \/ MakeDirs
    PROVE  IInv'
<1> USE DEF IInv
<1>1. book \in Books /\ pc = "check" /\ t \in Targets
  BY DEF RemoveOld, MakeDirs, At, TypeOK, t
<1>2. /\ pc' = AfterCheck /\ AfterCheck \in {"pack", "create"}
      /\ UNCHANGED <<book, outcome, work, mail, stored>>
  BY DEF RemoveOld, MakeDirs, Go, AfterCheck
<1>3. /\ file' = [file EXCEPT ![t] = Nothing]
      /\ Exists(t) => opts.overwrite
      /\ Above[t] \subseteq dirs'
      /\ FilesHaveDirs'
  <2>1. CASE RemoveOld
    BY <1>1, <2>1 DEF RemoveOld, InTheWay, FilesHaveDirs, TypeOK, Exists
  <2>2. CASE MakeDirs
    BY <1>1, <2>2, AboveAssumption DEF MakeDirs, MadeFor, FilesHaveDirs, TypeOK, Exists
  <2> QED
    BY <2>1, <2>2
<1>4. TypeOK'
  <2>1. dirs' \subseteq Dirs
    BY <1>1, AboveAssumption DEF RemoveOld, MakeDirs, MadeFor, TypeOK
  <2> QED
    BY <1>1, <1>2, <1>3, <2>1, FilesAreContents DEF TypeOK
<1>5. OptionsOK' /\ InOrder' /\ WorkIsKept' /\ ReportHasTheWork'
  BY <1>1, <1>2 DEF OptionsOK, Options, InOrder, WorkIsKept, ReportHasTheWork
<1>6. AtDestination'
  BY <1>1, <1>2, <1>3 DEF AtDestination, Exists, t, TypeOK
<1>7. InWork'
  BY <1>1, <1>2 DEF InWork, AfterCheck, Generates, OptionsOK, Options, Formats, Kindle
<1>8. Closes => MailIsWhole' /\ DeliveredStays'
  <2>1. ASSUME Closes, NEW b \in Books, outcome[b] = "ok"
        PROVE  \/ file'[target[b]] = Whole(b)
               \/ opts.delete /\ mail[b] = "whole"
               \/ opts.overwrite /\ \E c \in (b + 1)..NBooks : target[c] = target[b] /\ c <= book
    <3>1. b < book
      BY <1>1, <2>1 DEF InOrder, Books
    <3>2. CASE target[b] = t
      BY <1>1, <1>3, <2>1, <3>1, <3>2, BooksAssumption DEF DeliveredStays, Exists, Books, t, Whole, Nothing
    <3>3. CASE target[b] # t
      BY <1>3, <2>1, <3>3 DEF DeliveredStays, TypeOK
    <3> QED
      BY <3>2, <3>3
  <2> QED
    BY <1>2, <2>1 DEF MailIsWhole, DeliveredStays
<1> QED
  BY <1>3, <1>4, <1>5, <1>6, <1>7, <1>8 DEF Closes

LEMMA WritesBook ==
    ASSUME IInv, UNCHANGED <<opts, target, archive>>, Create \/ Fill \/ FillUnnoticed
    PROVE  IInv'
<1> USE DEF IInv
<1>1. book \in Books /\ pc \in {"create", "fill"} /\ t \in Targets /\ t' = t
  BY DEF Create, Fill, FillUnnoticed, At, Go, TypeOK, t
<1>2. /\ pc' \in {"fill", "finish"}
      /\ UNCHANGED <<book, outcome, dirs, work, mail, stored>>
  BY DEF Create, Fill, FillUnnoticed, Go
<1>3. PICK c \in {Part(book), Whole(book)} :
          /\ file' = [file EXCEPT ![t] = c]
          /\ pc' = "fill" => c = Part(book)
          /\ pc' = "finish" /\ Closes => c = Whole(book)
  <2>1. CASE FillUnnoticed
    <3>1. file[t] = Part(book)
      BY <2>1 DEF FillUnnoticed, At, AtDestination
    <3>2. file' = [file EXCEPT ![t] = Part(book)] /\ pc' = "finish" /\ ~Closes
      BY <1>1, <2>1, <3>1 DEF FillUnnoticed, Go, Closes, TypeOK
    <3> QED
      BY <3>2
  <2>2. CASE Create \/ Fill
    BY <2>2 DEF Create, Fill, Go
  <2> QED
    BY <2>1, <2>2
<1>4. file[t] \in {Nothing, Part(book)} /\ Above[t] \subseteq dirs
  <2>1. CASE pc = "create"
    BY <1>1, <2>1 DEF AtDestination, Exists
  <2>2. CASE pc = "fill"
    <3>1. file[t] = Part(book)
      BY <1>1, <2>2 DEF AtDestination
    <3>2. Exists(t)
      BY <1>1, <3>1 DEF Exists, Part, Nothing, Books
    <3> QED
      BY <1>1, <3>1, <3>2 DEF FilesHaveDirs
  <2> QED
    BY <1>1, <2>1, <2>2
<1>5. c.of = book /\ c # Nothing
  BY <1>1 DEF Part, Whole, Nothing, Books
<1>6. TypeOK'
  BY <1>1, <1>2, <1>3, FilesAreContents DEF TypeOK
<1>7. OptionsOK' /\ InOrder' /\ WorkIsKept' /\ ReportHasTheWork'
  BY <1>1, <1>2 DEF OptionsOK, Options, InOrder, WorkIsKept, ReportHasTheWork
<1>8. AtDestination'
  BY <1>1, <1>2, <1>3, <1>5 DEF AtDestination, TypeOK, Written, Closes
<1>9. InWork'
  BY <1>1, <1>2 DEF InWork
<1>10. FilesHaveDirs'
  BY <1>1, <1>2, <1>3, <1>4 DEF FilesHaveDirs, Exists, TypeOK
<1>11. Closes => MailIsWhole' /\ DeliveredStays'
  <2>1. ASSUME Closes, NEW b \in Books, outcome[b] = "ok"
        PROVE  \/ file'[target[b]] = Whole(b)
               \/ opts.delete /\ mail[b] = "whole"
               \/ opts.overwrite /\ \E c_1 \in (b + 1)..NBooks :
                    target[c_1] = target[b] /\ c_1 <= book
    <3>1. b # book
      BY <1>1, <2>1 DEF InOrder, Books
    <3>2. CASE target[b] = t
      BY <1>4, <2>1, <3>1, <3>2 DEF DeliveredStays, Whole, Part, Nothing
    <3>3. CASE target[b] # t
      BY <1>3, <2>1, <3>3 DEF DeliveredStays, TypeOK
    <3> QED
      BY <3>2, <3>3
  <2> QED
    BY <1>2, <2>1 DEF MailIsWhole, DeliveredStays
<1> QED
  BY <1>6, <1>7, <1>8, <1>9, <1>10, <1>11 DEF Closes

-----------------------------------------------------------------------------
(* The book is complete: the end of Save, and the mail.                    *)
LEMMA AfterDestination ==
    ASSUME IInv, UNCHANGED <<opts, target, archive>>, Finish \/ NoMail \/ Send
    PROVE  IInv'
<1> USE DEF At, IInv
<1>1. /\ book \in Books /\ pc \in {"finish", "mail"} /\ t' = t
      /\ UNCHANGED <<file, dirs, book>>
      /\ outcome[book] = "none" /\ Written
  BY DEF Finish, NoMail, Send, Go, t, InOrder, Books, AtDestination
<1>2. CASE Finish
  <2>1. AtDestination'
    BY <1>1, <1>2 DEF Finish, Go, AtDestination, Written
  <2>2. InWork'
    BY <1>1, <1>2 DEF Finish, Go, InWork, TypeOK, OptionsOK, Options, Formats, Generates, Kindle
  <2>3. \E w \in {work[book], "content"} : work' = [work EXCEPT ![book] = w]
    <3>1. work = [work EXCEPT ![book] = work[book]]
      BY DEF TypeOK
    <3> QED
      BY <1>2, <3>1 DEF Finish
  <2>4. /\ stored \subseteq stored'
        /\ stored' \subseteq {"work", "book"} \X Books
    BY <1>1, <1>2 DEF Finish, Store, TypeOK
  <2> QED
    BY <1>1, <1>2, <2>1, <2>2, <2>3, <2>4, GoesOn DEF Finish
<1>3. CASE NoMail
  <2>1. AtDestination' /\ InWork'
    BY <1>1, <1>3 DEF NoMail, Go, AtDestination, Written, InWork
  <2> QED
    BY <1>3, <2>1, GoesOn DEF NoMail, TypeOK
<1>4. CASE Send
  <2>1. PICK m \in {"part", "whole"} :
            mail' = [mail EXCEPT ![book] = m] /\ (Closes => m = "whole")
    <3> DEFINE m == IF file[t].whole THEN "whole" ELSE "part"
    <3>1. mail' = [mail EXCEPT ![book] = m]
      BY <1>4 DEF Send
    <3>2. ASSUME Closes PROVE m = "whole"
      BY <1>1, <3>2 DEF Written, Whole
    <3> QED
      BY <3>1, <3>2
  <2>2. AtDestination'
    BY <1>1, <1>4, <2>1 DEF Send, Go, AtDestination, Written, Mailed, TypeOK
  <2>3. InWork'
    BY <1>1, <1>4 DEF Send, Go, InWork, Generates
  <2> QED
    <3>1. PICK to \in {"delete", "clean"} : Go(to)
      BY <1>4 DEF Send
    <3>2. work' = [work EXCEPT ![book] = work[book]]
      BY <1>4 DEF Send, TypeOK
    <3> QED
      BY <1>1, <1>4, <2>1, <2>2, <2>3, <3>1, <3>2, GoesOn DEF Send, TypeOK
<1> QED
  BY <1>2, <1>3, <1>4

-----------------------------------------------------------------------------
(* Of the directories of the book that was mailed those go that hold       *)
(* nothing.  A directory that stays holds on to all it is in: this is      *)
(* where the order of directories, AboveAssumption, matters.               *)
LEMMA DirsStay ==
    ASSUME TypeOK, FilesHaveDirs, DeleteSent
    PROVE  FilesHaveDirs'
<1>1. \A x \in Targets : file'[x] # Nothing => file[x] # Nothing
  BY DEF DeleteSent, TypeOK
<1>2. dirs' \subseteq dirs
  BY DEF DeleteSent
<1>3. ASSUME NEW d \in dirs, d \notin dirs'
      PROVE  d \in Above[t] /\ Empty(d, file')
  BY <1>3 DEF DeleteSent
<1>4. ASSUME NEW x \in Targets, file'[x] # Nothing, NEW d \in Above[x]
      PROVE  d \in dirs'
  BY <1>1, <1>3, <1>4 DEF FilesHaveDirs, Exists, Empty
<1>5. ASSUME NEW e \in dirs', NEW d \in Above[e]
      PROVE  d \in dirs'
  <2>1. e \in dirs /\ e \in Dirs /\ d \in dirs
    BY <1>2, <1>5 DEF FilesHaveDirs, TypeOK
  <2> SUFFICES ASSUME d \notin dirs' PROVE FALSE
    OBVIOUS
  <2>2. d \in Above[t] /\ Empty(d, file')
    BY <1>3, <2>1
  <2>3. e \in Above[t] /\ ~opts.nodirs
    BY <2>1, <2>2 DEF Empty, DeleteSent
  <2>4. ~Empty(e, file')
    BY <1>5, <2>1, <2>3 DEF DeleteSent
  <2>5. CASE \E x \in Targets : file'[x] # Nothing /\ e \in Above[x]
    BY <1>4, <2>5, <2>1, <2>2, AboveAssumption DEF Empty
  <2>6. CASE \E g \in dirs : e \in Above[g] /\ g \notin Above[t]
    BY <2>1, <2>2, <2>6, AboveAssumption DEF Empty, TypeOK
  <2> QED
    BY <2>4, <2>5, <2>6 DEF Empty
<1> QED
  BY <1>4, <1>5 DEF FilesHaveDirs, Exists

LEMMA DeletesSent ==
    ASSUME IInv, UNCHANGED <<opts, target, archive>>, DeleteSent
    PROVE  IInv'
<1> USE DEF IInv
<1>1. /\ book \in Books /\ pc = "delete" /\ t \in Targets /\ t' = t
      /\ pc' = "clean"
      /\ UNCHANGED <<book, outcome, work, mail, stored>>
  BY DEF DeleteSent, At, Go, TypeOK, t
<1>2. file[t].of = book /\ (Closes => file[t] = Whole(book)) /\ Mailed
  BY <1>1 DEF AtDestination, Written
<1>3. \A x \in Targets : file'[x] = file[x] \/ (x = t /\ file'[x] = Nothing)
  BY <1>1 DEF DeleteSent, TypeOK
<1>4. TypeOK'
  <2>1. dirs' \subseteq Dirs /\ file' \in [Targets -> Contents]
    BY <1>1, FilesAreContents DEF DeleteSent, TypeOK
  <2> QED
    BY <1>1, <2>1 DEF TypeOK
<1>5. OptionsOK' /\ InOrder' /\ WorkIsKept' /\ ReportHasTheWork'
  BY <1>1 DEF OptionsOK, Options, InOrder, WorkIsKept, ReportHasTheWork
<1>6. AtDestination' /\ InWork'
  BY <1>1, <1>2 DEF AtDestination, InWork, Mailed
<1>7. FilesHaveDirs'
  BY DirsStay
<1>8. Closes => MailIsWhole' /\ DeliveredStays'
  <2>1. ASSUME Closes, NEW b \in Books, outcome[b] = "ok"
        PROVE  file'[target[b]] = Whole(b) \/ file[target[b]] # Whole(b)
    <3>1. b # book
      BY <1>1, <2>1 DEF InOrder, Books
    <3>2. Whole(b) # Whole(book)
      BY <3>1 DEF Whole
    <3> QED
      BY <1>2, <1>3, <2>1, <3>2 DEF TypeOK
  <2> QED
    BY <1>1, <2>1 DEF MailIsWhole, DeliveredStays
<1> QED
  BY <1>4, <1>5, <1>6, <1>7, <1>8 DEF Closes

(* The book is done: from here on its file is under DeliveredStays.        *)
LEMMA Cleans ==
    ASSUME IInv, UNCHANGED <<opts, target, archive>>, Clean
    PROVE  IInv'
<1> USE DEF IInv
<1>1. /\ book \in Books /\ pc = "clean" /\ pc' = "start" /\ book' = book + 1
      /\ outcome' = [outcome EXCEPT ![book] = "ok"]
      /\ UNCHANGED <<file, dirs, mail, stored>>
      /\ work' = IF opts.report THEN work ELSE [work EXCEPT ![book] = "none"]
  BY DEF Clean, At, End, KeepsWork
<1>2. TypeOK'
  BY <1>1, BooksAssumption DEF TypeOK, Books
<1>3. OptionsOK' /\ FilesHaveDirs'
  BY <1>1 DEF OptionsOK, Options, FilesHaveDirs, Exists, Nothing
<1>4. InOrder'
  BY <1>1 DEF InOrder, Books, TypeOK
<1>5. AtDestination' /\ InWork' /\ ReportHasTheWork'
  BY <1>1 DEF AtDestination, InWork, ReportHasTheWork
<1>6. WorkIsKept'
  BY <1>1 DEF WorkIsKept, TypeOK
<1>7. Closes => MailIsWhole' /\ DeliveredStays'
  <2>1. ASSUME Closes PROVE file[t] = Whole(book) \/ (opts.delete /\ mail[book] = "whole")
    BY <1>1, <2>1 DEF AtDestination, Written, Mailed
  <2>2. ASSUME NEW c \in Books, c <= book PROVE c <= book'
    <3>1. c \in Int /\ book \in Int
      BY BooksAssumption DEF Books, TypeOK
    <3> QED
      BY <1>1, <2>2, <3>1
  <2> QED
    BY <1>1, <2>1, <2>2 DEF MailIsWhole, DeliveredStays, TypeOK, t, Books
<1> QED
  BY <1>2, <1>3, <1>4, <1>5, <1>6, <1>7 DEF Closes

LEMMA Reports ==
    ASSUME IInv, UNCHANGED <<opts, target>>, Report
    PROVE  IInv'
<1> USE DEF IInv
<1>1. /\ book \notin Books /\ pc = "start" /\ pc' = "end"
      /\ UNCHANGED <<book, file, dirs, work, outcome, mail, stored>>
      /\ archive' = {item \in stored : Found(item)}
  BY BooksAssumption DEF Report, Books, TypeOK
<1>2. TypeOK'
  BY <1>1 DEF TypeOK
<1>3. OptionsOK' /\ FilesHaveDirs' /\ InOrder' /\ AtDestination' /\ InWork' /\ WorkIsKept'
  BY <1>1 DEF OptionsOK, Options, FilesHaveDirs, Exists, Nothing, InOrder, AtDestination,
              InWork, WorkIsKept
<1>4. ReportHasTheWork'
  <2>1. ASSUME NEW b \in Books, <<"work", b>> \in stored, work[b] # "none"
        PROVE  <<"work", b>> \in archive'
    BY <1>1, <2>1 DEF Found
  <2> QED
    BY <1>1, <2>1 DEF ReportHasTheWork, WorkIsKept
<1>5. Closes => MailIsWhole' /\ DeliveredStays'
  BY <1>1 DEF MailIsWhole, DeliveredStays, Whole
<1> QED
  BY <1>2, <1>3, <1>4, <1>5 DEF Closes

-----------------------------------------------------------------------------
LEMMA Inductive == IInv /\ [Next]_vars => IInv'
<1> SUFFICES ASSUME IInv, [Next]_vars PROVE IInv'
  OBVIOUS
<1>1. CASE BookStep /\ UNCHANGED <<opts, target, archive>>
  <2>1. CASE Skip \/ PrepareFails
    BY <1>1, <2>1, GivenUp DEF Skip, PrepareFails, At
  <2>2. CASE ReadFails \/ ProcessFails
    BY <1>1, <2>2, GivenUp DEF ReadFails, ProcessFails, At
  <2>3. CASE FlushFails \/ GenerateFails \/ PackFails
    BY <1>1, <2>3, GivenUp DEF FlushFails, GenerateFails, PackFails, At
  <2>4. CASE Refuse \/ CheckFails
    BY <1>1, <2>4, GivenUp DEF Refuse, CheckFails, At
  <2>5. CASE CreateFails \/ FillFails \/ FinishFails
    BY <1>1, <2>5, GivenUp DEF CreateFails, FillFails, FinishFails, At
  <2>6. CASE SendFails \/ CleanFails
    BY <1>1, <2>6, GivenUp DEF SendFails, CleanFails, At
  <2>7. CASE Prepare \/ Read \/ Process \/ Flush \/ Generate \/ Pack
    BY <1>1, <2>7, BeforeDestination
  <2>8. CASE RemoveOld \/ MakeDirs
    BY <1>1, <2>8, ClearsDestination
  <2>9. CASE Create \/ Fill \/ FillUnnoticed
    BY <1>1, <2>9, WritesBook
  <2>10. CASE Finish \/ NoMail \/ Send
    BY <1>1, <2>10, AfterDestination
  <2>11. CASE DeleteSent
    BY <1>1, <2>11, DeletesSent
  <2>12. CASE Clean
    BY <1>1, <2>12, Cleans
  <2> QED
    BY <1>1, <2>1, <2>2, <2>3, <2>4, <2>5, <2>6, <2>7, <2>8, <2>9, <2>10, <2>11, <2>12
       DEF BookStep
<1>2. CASE Report /\ UNCHANGED <<opts, target>>
  BY <1>2, Reports
<1>3. CASE UNCHANGED vars
  BY <1>3 DEF vars, IInv, TypeOK, OptionsOK, Options, InOrder, AtDestination, Written, Mailed,
              Exists, Nothing, Part, Whole, t, InWork, Generates, FilesHaveDirs, WorkIsKept,
              ReportHasTheWork, MailIsWhole, DeliveredStays, Contents, Closes
<1> QED
  BY <1>1, <1>2, <1>3 DEF Next

LEMMA Invariant == Spec => []IInv
BY InitIInv, Inductive, PTL DEF Spec

-----------------------------------------------------------------------------
(* The state of the run has its types.                                     *)
THEOREM RunTypes == Spec => []TypeOK
<1>1. IInv => TypeOK
  BY DEF IInv
<1> QED
  BY <1>1, Invariant, PTL

(* Directories are there as long as something is in them: SendToKindle     *)
(* removes those of the book that hold nothing, also when it is done with  *)
(* one of several books of an author (processor/process.go:385).           *)
THEOREM DirsAreKept == Spec => []FilesHaveDirs
<1>1. IInv => FilesHaveDirs
  BY DEF IInv
<1> QED
  BY <1>1, Invariant, PTL

(* With --debug the report has the work directories of converted books and *)
(* of those that made the program panic (processor/process.go:403,         *)
(* reporter/reporter.go:78).                                               *)
THEOREM ReportIsUseful == Spec => []ReportHasTheWork
<1>1. IInv => ReportHasTheWork
  BY DEF IInv
<1> QED
  BY <1>1, Invariant, PTL

(* Books that were converted are not lost to what happens to later ones,   *)
(* if Close does not fail unnoticed (commands/convert.go:30, the three     *)
(* Finalize functions).                                                    *)
THEOREM ConvertedIsSafe == ASSUME "close" \notin Faults PROVE Spec => []DeliveredStays
<1>1. IInv => DeliveredStays
  BY DEF IInv, Closes
<1> QED
  BY <1>1, Invariant, PTL

(* No part of a book is mailed, on the same condition                      *)
(* (processor/process.go:319).                                             *)
THEOREM MailIsAlwaysWhole == ASSUME "close" \notin Faults PROVE Spec => []MailIsWhole
<1>1. IInv => MailIsWhole
  BY DEF IInv, Closes
<1> QED
  BY <1>1, Invariant, PTL

(* What is done after Save, in mailing, in deleting directories and in the *)
(* report, is sound, on the same condition (processor/process.go:319-412). *)
THEOREM AfterSaveIsSound == ASSUME "close" \notin Faults PROVE Spec => []AfterSaveSound
<1>1. Spec => []MailIsWhole
  BY MailIsAlwaysWhole
<1>2. Spec => [](FilesHaveDirs /\ ReportHasTheWork)
  BY DirsAreKept, ReportIsUseful, PTL
<1>3. MailIsWhole /\ FilesHaveDirs /\ ReportHasTheWork => AfterSaveSound
  BY DEF AfterSaveSound
<1> QED
  BY <1>1, <1>2, <1>3, PTL

-----------------------------------------------------------------------------
(* A step that changes what is at a destination is one of five, and the    *)
(* destination is the one of the book at hand.                             *)
LEMMA WhoTouchesFiles ==
    ASSUME IInv, [Next]_vars, NEW x \in Targets, file'[x] # file[x]
    PROVE  /\ book \in Books /\ x = t
           /\ \/ RemoveOld /\ pc = "check"
              \/ Create /\ pc = "create" /\ file'[x] # Nothing
              \/ Fill /\ pc = "fill" /\ file'[x] # Nothing
              \/ DeleteSent /\ pc = "delete"
<1> USE DEF At
<1>1. BookStep
  BY DEF Next, Report, vars
<1>2. RemoveOld \/ Create \/ Fill \/ DeleteSent
  BY <1>1 DEF BookStep, Skip, Prepare, PrepareFails, Read, ReadFails, Process, ProcessFails,
     Flush, FlushFails, Generate, GenerateFails, Refuse, MakeDirs, CheckFails, Pack,
     PackFails, CreateFails, FillFails, FillUnnoticed, Finish, FinishFails, NoMail, Send,
     SendFails, Clean, CleanFails
<1>3. CASE RemoveOld
  BY <1>3 DEF RemoveOld, IInv, TypeOK
<1>4. CASE Create
  BY <1>4 DEF Create, IInv, TypeOK, Part, Nothing, Books
<1>5. CASE Fill
  BY <1>5 DEF Fill, IInv, TypeOK, Whole, Nothing, Books
<1>6. CASE DeleteSent
  BY <1>6 DEF DeleteSent, IInv, TypeOK
<1> QED
  BY <1>2, <1>3, <1>4, <1>5, <1>6

(* Files older than the run go under --overwrite only, and only at the     *)
(* destination of the book at hand (processor/epub.go:133).                *)
THEOREM OldFilesAreSafe == Spec => OldFilesStay
<1> DEFINE Safe == \A x \in Targets :
        file[x] = Whole(0) /\ file'[x] # Whole(0) => opts.overwrite /\ target[book] = x
<1>1. IInv /\ [Next]_vars => Safe
  <2> SUFFICES ASSUME IInv, [Next]_vars, NEW x \in Targets,
                      file[x] = Whole(0), file'[x] # Whole(0)
               PROVE  opts.overwrite /\ target[book] = x
    OBVIOUS
  <2>1. book \in Books /\ x = t
    BY WhoTouchesFiles
  <2>2. file[t].of = 0 /\ file[t] # Nothing /\ file[t] # Part(book) /\ ~Written
    BY <2>1 DEF Whole, Nothing, Part, Books, Written
  <2>3. RemoveOld
    BY <2>1, <2>2, WhoTouchesFiles DEF IInv, AtDestination, Exists
  <2> QED
    BY <2>1, <2>3 DEF RemoveOld, InTheWay, t
<1>2. IInv /\ [Next]_vars => [Safe]_vars
  BY <1>1
<1> QED
  BY <1>2, Invariant, PTL DEF Spec, OldFilesStay

(* Under --overwrite a file goes only when the book that takes its place   *)
(* is converted, if kindlegen does not fail unnoticed.                     *)
THEOREM ReplacedInTime == ASSUME "kindlegen" \notin Faults PROVE Spec => ReplacedWhenReady
<1> DEFINE InTime == \A x \in Targets :
        Exists(x) /\ file'[x] = Nothing =>
            work[book] = (IF Generates THEN "result" ELSE "content")
<1>1. IInv /\ [Next]_vars => InTime
  <2> SUFFICES ASSUME IInv, [Next]_vars, NEW x \in Targets, Exists(x), file'[x] = Nothing
               PROVE  work[book] = (IF Generates THEN "result" ELSE "content")
    OBVIOUS
  <2>1. book \in Books /\ pc \in {"check", "delete"}
    BY WhoTouchesFiles DEF Exists
  <2>2. pc = "delete" => ~Generates
    BY <2>1 DEF IInv, AtDestination, Mailed, OptionsOK, Generates
  <2> QED
    BY <2>1, <2>2 DEF IInv, InWork
<1>2. IInv /\ [Next]_vars => [InTime]_vars
  BY <1>1
<1> QED
  BY <1>2, Invariant, PTL DEF Spec, ReplacedWhenReady
=============================================================================
