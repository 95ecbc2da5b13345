-------------------------------- MODULE Notes --------------------------------
(***************************************************************************)
(* Notes: processNotes reads the bodies with notes before anything else    *)
(* (processor/process.go); the references of the text are then transferred *)
(* in the mode asked for, and the bodies with notes last (processBody and  *)
(* transfer, processor/xhtml.go); processLinks makes the links of all      *)
(* files whole.                                                            *)
(*                                                                         *)
(* What a mode leaves in the files:                                        *)
(*   default    references are links to the notes, which are a text of     *)
(*              their own                                                  *)
(*   inline     the note follows its reference                             *)
(*   block      the notes follow the paragraph                             *)
(*   float      as default, with a way back from the note ("float-old" is  *)
(*              the same); of the note only its plain text is left         *)
(*   float-new  as float, with the note as it was formatted                *)
(* "float-new-more" differs from float-new in the text only.  The numbers  *)
(* that renumbering puts into the text are left out too.                   *)
(***************************************************************************)
EXTENDS Integers, SequencesExt

CONSTANTS
    Modes,              \* document.notes.mode
    Ids,                \* what a reference may refer to
    Names,              \* bodies with notes
    Outside,            \* references that are in no paragraph (a table, an author)
    MaxBodies,          \* bound on the bodies with notes
    MaxEvents,          \* bound on what is read of the main body
    MaxFiles            \* bound on its files

ASSUME NotesAssumption ==
    /\ Modes \subseteq {"default", "inline", "block", "float", "float-new"}
    /\ Outside \in BOOLEAN
    /\ {MaxBodies, MaxEvents, MaxFiles} \subseteq Nat

VARIABLES
    mode, phase,        \* "scan", "main", "notes" or "done"
    scanned,            \* the bodies with notes, in their order
    titles,             \* Book.NoteBodyTitles: the bodies that have a title
    order,              \* Book.NotesOrder, with the notes themselves
    links,              \* Book.LinksLocations
    files,              \* Book.Files
    toc,                \* the entries of Book.TOC for bodies with notes
    inParagraph,
    currentNotes,       \* ctx.currentNotes
    events, bodies      \* how much was read, how many bodies were transferred

vars == <<mode, phase, scanned, titles, order, links, files, toc, inParagraph, currentNotes,
          events, bodies>>

Nowhere == <<"nowhere", 0>>     \* a reference to a file that is not there
Local   == <<"", 0>>            \* a reference within the file, "#id"

Floats == {"float", "float-new"}
InPlace == {"inline", "block"}

Known == {order[i].id : i \in DOMAIN order}

FileOf(name) == <<"notes", name>>

(* What is in a file, in its order.  A "ref" has the id back_<note> in the *)
(* float modes, a "link" leads to nothing that is known as a note.         *)
Item(kind, id) == [kind |-> kind, id |-> id, href |-> Local]
BackItem(id, href) == [kind |-> "note", id |-> id, href |-> href]

Note(id) == <<"note", id>>
Back(id) == <<"back", id>>

LocateFirst(ids, name) ==
    [l \in DOMAIN links \union ids |-> IF l \in DOMAIN links THEN links[l] ELSE name]

Locate(ids, name) ==
    [l \in DOMAIN links \union ids |-> IF l \in ids THEN name ELSE links[l]]

-----------------------------------------------------------------------------
Init ==
    /\ mode \in Modes
    /\ phase = "scan"
    /\ scanned = <<>> /\ titles = {} /\ order = <<>>
    /\ links = <<>>
    /\ files = <<>> /\ toc = <<>>
    /\ inParagraph = FALSE /\ currentNotes = <<>>
    /\ events = 0 /\ bodies = 0

-----------------------------------------------------------------------------
(* processNotes *)
ScanBody(name) ==
    /\ phase = "scan"
    /\ Len(scanned) < MaxBodies /\ ~Contains(scanned, name)
    /\ scanned' = Append(scanned, name)
    /\ UNCHANGED <<mode, phase, titles, order, links, files, toc, inParagraph, currentNotes,
                   events, bodies>>

(* The first title of a body is kept, at whatever depth it was found.      *)
ScanTitle ==
    /\ phase = "scan" /\ scanned # <<>>
    /\ titles' = titles \union {Last(scanned)}
    /\ UNCHANGED <<mode, phase, scanned, order, links, files, toc, inParagraph, currentNotes,
                   events, bodies>>

(* A note, whose text may have references.  The text is transferred there  *)
(* and then: only the notes before this one are known, and of the notes    *)
(* that inline and block references ask for nothing remains.               *)
Parsed(ref) == IF mode \in Floats /\ ref \in Known THEN Item("ref", ref) ELSE Item("link", ref)

ScanNote(id, refs) ==
    /\ phase = "scan" /\ scanned # <<>> /\ id \notin Known
    /\ LET parsed == [i \in DOMAIN refs |-> Parsed(refs[i])]
           back == {Back(refs[i]) : i \in {j \in DOMAIN refs : parsed[j].kind = "ref"}}
       IN  /\ links' = Locate(back, FileOf(Last(scanned)))
           /\ order' = Append(order, [id |-> id, body |-> Last(scanned), refs |-> refs,
                                      parsed |-> parsed])
    /\ UNCHANGED <<mode, phase, scanned, titles, files, toc, inParagraph, currentNotes,
                   events, bodies>>

NewFile(name) == [name |-> name, items |-> <<>>]

StartMain ==
    /\ phase = "scan"
    /\ phase' = "main"
    /\ files' = <<NewFile(<<"index", 1>>)>>
    /\ UNCHANGED <<mode, scanned, titles, order, links, toc, inParagraph, currentNotes,
                   events, bodies>>

-----------------------------------------------------------------------------
(* The main body. *)
Reading ==
    /\ phase = "main"
    /\ events < MaxEvents
    /\ events' = events + 1
    /\ UNCHANGED <<mode, phase, scanned, titles, order, toc, bodies>>

Current == Last(files).name

Written(items) == [files EXCEPT ![Len(files)].items = @ \o items]

StartParagraph ==
    /\ Reading /\ ~inParagraph
    /\ inParagraph' = TRUE
    /\ UNCHANGED <<links, files, currentNotes>>

Shown(notes) == [i \in DOMAIN notes |-> Item("shown", notes[i])]

(* At the end of a paragraph the notes that are waiting follow, in block   *)
(* mode.                                                                   *)
EndParagraphForgetting ==
    /\ Reading /\ inParagraph
    /\ inParagraph' = FALSE
    /\ files' = IF mode = "block" THEN Written(Shown(currentNotes)) ELSE files
    /\ UNCHANGED <<links, currentNotes>>

EndParagraph ==
    /\ Reading /\ inParagraph
    /\ inParagraph' = FALSE
    /\ IF mode = "block"
         THEN files' = Written(Shown(currentNotes)) /\ currentNotes' = <<>>
         ELSE UNCHANGED <<files, currentNotes>>
    /\ UNCHANGED links

(* A reference, to a note or to something else.  The link of a reference   *)
(* that is shown in place is dropped.                                      *)
ToElsewhere(id) ==
    /\ Reading /\ (inParagraph \/ Outside) /\ id \notin Known
    /\ files' = Written(<<Item("link", id)>>)
    /\ UNCHANGED <<links, inParagraph, currentNotes>>

ToNote(id) ==
    /\ Reading /\ (inParagraph \/ Outside) /\ id \in Known
    /\ CASE mode = "default" ->
              /\ files' = Written(<<Item("ref", id)>>)
              /\ UNCHANGED <<links, currentNotes>>
         [] mode = "inline" ->
              /\ files' = Written(<<Item("anchor", id)>> \o Shown(<<Head(Append(currentNotes, id))>>))
              /\ currentNotes' = <<>>
              /\ UNCHANGED links
         [] mode = "block" ->
              /\ files' = Written(<<Item("anchor", id)>>)
              /\ currentNotes' = Append(currentNotes, id)
              /\ UNCHANGED links
         [] mode \in Floats ->
              /\ files' = Written(<<Item("ref", id)>>)
              /\ links' = Locate({Back(id)}, Current)
              /\ UNCHANGED currentNotes
    /\ UNCHANGED inParagraph

(* createXHTML: a chapter that starts a file. *)
NextFile ==
    /\ Reading /\ ~inParagraph /\ Len(files) < MaxFiles
    /\ files' = Append(files, NewFile(<<"index", Len(files) + 1>>))
    /\ UNCHANGED <<links, inParagraph, currentNotes>>

EndMain ==
    /\ phase = "main" /\ ~inParagraph
    /\ phase' = "notes"
    /\ UNCHANGED <<mode, scanned, titles, order, links, files, toc, inParagraph, currentNotes,
                   events, bodies>>

-----------------------------------------------------------------------------
(* The bodies with notes, one after the other (processBody).  What the     *)
(* notes of a body become, note by note:                                   *)
NotesOf(name, as) ==
    FlattenSeq([i \in DOMAIN order |-> IF order[i].body = name THEN as[i] ELSE <<>>])

IdsOf(name) == {Note(order[i].id) : i \in {j \in DOMAIN order : order[j].body = name}}

NextBody ==
    /\ phase = "notes" /\ bodies < Len(scanned)
    /\ bodies' = bodies + 1
    /\ UNCHANGED <<mode, phase, scanned, titles, order, inParagraph, currentNotes, events>>

AddFile(name, items) == files' = Append(files, [name |-> FileOf(name), items |-> items])

(* transfer, like any body: notes and what they refer to. *)
TransferBody ==
    LET name == scanned[bodies + 1]
        Plain(n) == <<Item("note", n.id)>>
                      \o [i \in DOMAIN n.refs |->
                            Item(IF n.refs[i] \in Known THEN "ref" ELSE "link", n.refs[i])]
    IN  /\ mode = "default" /\ NextBody
        /\ AddFile(name, NotesOf(name, [i \in DOMAIN order |-> Plain(order[i])]))
        /\ links' = Locate(IdsOf(name), FileOf(name))
        /\ UNCHANGED toc

SkipBody ==
    /\ mode \in InPlace /\ NextBody
    /\ UNCHANGED <<links, files, toc>>

(* The notes, each with the way back to the reference that was found last, *)
(* under a title (when there is any note at all).                          *)
BackRef(id) == IF Back(id) \in DOMAIN links THEN links[Back(id)] ELSE Nowhere

FloatBody ==
    LET name == scanned[bodies + 1]
        Whole(n) == <<BackItem(n.id, BackRef(n.id))>>
                      \o (IF mode = "float-new" THEN n.parsed ELSE <<>>)
        title == IF order = <<>> THEN <<>> ELSE <<Item("title", name)>>
    IN  /\ mode \in Floats /\ NextBody
        /\ AddFile(name, title \o NotesOf(name, [i \in DOMAIN order |-> Whole(order[i])]))
        /\ links' = Locate(IdsOf(name), FileOf(name))
        /\ toc' = IF order = <<>> THEN toc
                  ELSE Append(toc, [file |-> FileOf(name), given |-> name \in titles])

(* processLinks *)
LinksInMainOnly(item) ==
    IF item.kind = "ref" /\ Note(item.id) \in DOMAIN links
      THEN [item EXCEPT !.href = links[Note(item.id)]] ELSE item

MakeWhole(item) ==
    IF item.kind \in {"ref", "link"} /\ Note(item.id) \in DOMAIN links
      THEN [item EXCEPT !.href = links[Note(item.id)]] ELSE item

ProcessLinks ==
    /\ phase = "notes" /\ bodies = Len(scanned)
    /\ phase' = "done"
    /\ files' = [f \in DOMAIN files |->
                   [files[f] EXCEPT !.items = [i \in DOMAIN @ |-> MakeWhole(@[i])]]]
    /\ UNCHANGED <<mode, scanned, titles, order, links, toc, inParagraph, currentNotes,
                   events, bodies>>

-----------------------------------------------------------------------------
Refs == UNION {[1..n -> Ids] : n \in 0..1}

Next ==
    \/ \E name \in Names : ScanBody(name)
    \/ ScanTitle
    \/ \E id \in Ids, refs \in Refs : ScanNote(id, refs)
    \/ StartMain
    \/ StartParagraph \/ EndParagraph
    \/ \E id \in Ids : ToElsewhere(id) \/ ToNote(id)
    \/ NextFile \/ EndMain
    \/ TransferBody \/ SkipBody \/ FloatBody
    \/ ProcessLinks

Spec == Init /\ [][Next]_vars

-----------------------------------------------------------------------------
(* The ids of the items of a kind, in their order. *)
IdsIn(items, kind) ==
    FlattenSeq([i \in DOMAIN items |-> IF items[i].kind = kind THEN <<items[i].id>> ELSE <<>>])

Has(name, kind, id) ==
    \E f \in DOMAIN files :
      files[f].name = name /\ \E x \in ToSet(files[f].items) : x.kind = kind /\ x.id = id

(* In the modes that keep notes as a text of their own every link to a     *)
(* note leads to it, once all is done: also one in a note that refers to a *)
(* note after it, which was not known when it was transferred.             *)
NoteLinksResolve ==
    phase = "done" /\ mode \notin InPlace =>
      \A f \in DOMAIN files : \A x \in ToSet(files[f].items) : x.kind \in {"ref", "link"} =>
        IF x.id \in Known THEN Has(x.href, "note", x.id) ELSE x.href = Local

(* "bi-directional links" (configuration.toml:295): from a note that the   *)
(* main body refers to there is a way back to such a reference.            *)
IsReferred(id) ==
    \E f \in DOMAIN files : files[f].name[1] = "index"
                            /\ \E x \in ToSet(files[f].items) : x.kind = "ref" /\ x.id = id

BackRefsResolve ==
    phase = "done" /\ mode \in Floats =>
      \A f \in DOMAIN files : \A x \in ToSet(files[f].items) :
        x.kind = "note" /\ IsReferred(x.id) => Has(x.href, "ref", x.id)

(* "notes are shown in-place at the paragraph end" (configuration.toml:294 *)
(* and 293): in every file the notes shown are those referred to, in their *)
(* order, and none waits when a paragraph is over.                         *)
ShownIn(f) == IdsIn(files[f].items, "shown")
AskedIn(f) == IdsIn(files[f].items, "anchor")

NotesInPlace ==
    mode \in InPlace =>
      /\ \A f \in DOMAIN files :
           AskedIn(f) = ShownIn(f) \o (IF f = Len(files) THEN currentNotes ELSE <<>>)
      /\ currentNotes # <<>> => inParagraph

(* The same when all is done, wherever the references were: no note is     *)
(* left out or shown in another file.                                      *)
NotesAreShown ==
    phase = "done" /\ mode \in InPlace => \A f \in DOMAIN files : AskedIn(f) = ShownIn(f)
=============================================================================
