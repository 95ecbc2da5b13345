---------------------------- MODULE BookTransfer ----------------------------
(***************************************************************************)
(* From the bodies of an FB2 document to the XHTML files of the book:      *)
(* Processor.processBodies and processBody, the recursive transfer and the *)
(* handlers of supportedTransfers (processor/xhtml.go), the annotation     *)
(* page of processDescription (processor/process.go) and createXHTML       *)
(* (processor/context.go).                                                 *)
(*                                                                         *)
(* The handlers recurse over the source tree and pass down the node "to"   *)
(* they write under, while the file that is current (ctx.out, ctx.fname)   *)
(* is global and changes in the middle of the walk whenever a handler      *)
(* opens the next file.  What can go wrong is that the two part ways.  The *)
(* recursion is the variable "stack" here: a frame per open source element *)
(* with the document its "inner" node is in.  The source tree is not given *)
(* in advance: every step reads one more tag of a document of the FB2      *)
(* schema.  Elements are numbered in reading order; each carries an id and *)
(* (if it has one) its text, both named by the number.                     *)
(***************************************************************************)
EXTENDS Integers, Sequences, FiniteSets

CONSTANTS
    Settings,           \* configurations, with the kinds of elements a source has
    MaxElems,           \* bound on the elements of the source
    MaxDepth,           \* bound on their nesting
    MaxMarkers          \* bound on the page ends within one text

ASSUME SettingsAssumption ==
    \A s \in Settings :
        /\ {s.chapterPerFile, s.noTitleChapters, s.annotationPage, s.notesBody} \subseteq BOOLEAN
        /\ s.chapterLevel \in Int /\ s.pagesPerFile \in Int
ASSUME BoundsAssumption == {MaxElems, MaxDepth, MaxMarkers} \subseteq Nat

VARIABLES
    conf,               \* the configuration, of Settings
    phase,              \* the part of the source that is read
    docs,               \* documents in the order of creation
    files,              \* Book.Files, as numbers of documents
    cur,                \* the current document: ctx.out and ctx.fname
    stack,              \* the open source elements
    toc,                \* Book.TOC
    links,              \* Book.LinksLocations: the document of every id
    tocIndex,           \* ctx.tocIndex
    firstBodyTitle,     \* ctx.firstBodyTitle
    specialParagraph    \* ctx.specialParagraph

vars == <<conf, phase, docs, files, cur, stack, toc, links, tocIndex,
          firstBodyTitle, specialParagraph>>

ChapterPerFile  == conf.chapterPerFile      \* document.chapter_per_file
ChapterLevel    == conf.chapterLevel        \* document.chapter_level
PagesPerFile    == conf.pagesPerFile        \* document.pages_per_file
NoTitleChapters == conf.noTitleChapters     \* document.toc.include_chapters_without_title
AnnotationPage  == conf.annotationPage      \* document.annotation.create and add_to_toc
NotesBody       == conf.notesBody           \* the book has a second, named body, mode "default"

-----------------------------------------------------------------------------
(* Documents.  "pages" is Book.Pages of the file, NoPages when the file has *)
(* no entry there (the annotation).  An item is <<kind, number>>.           *)
NoPages == -1

NewDoc(name, pages) == [name |-> name, pages |-> pages, items |-> <<>>]

Findex == Cardinality({d \in 1..Len(docs) : docs[d].name[1] = "index"})

(* createXHTML: files of the main body are numbered, a named body has one. *)
FileName == IF phase = "notes" THEN <<"notes", 0>> ELSE <<"index", Findex + 1>>

Main == phase # "notes"         \* len(ctx.bodyName) == 0

Header == Cardinality({k \in 1..Len(stack) : stack[k].tag = "section"})

-----------------------------------------------------------------------------
(* The recursion. *)
Top == stack[Len(stack)]

Special == {"epigraph", "poem"}
Containers == Special \union {"cite"}

Frame(tag, d, number) ==
    [tag |-> tag, inner |-> d, to |-> d, number |-> number,
     titled |-> FALSE, hasText |-> FALSE, mode |-> "start"]

(* The innermost open section owns sectionWithTitle and sectionTextLength. *)
InSection(st, k) ==
    st[k].tag = "section" /\ \A j \in (k + 1)..Len(st) : st[j].tag # "section"

WithTitle(st) ==
    [k \in 1..Len(st) |-> IF InSection(st, k) THEN [st[k] EXCEPT !.titled = TRUE] ELSE st[k]]

WithText(st) ==
    [k \in 1..Len(st) |-> IF InSection(st, k) THEN [st[k] EXCEPT !.hasText = TRUE] ELSE st[k]]

(* After a child of a section the section goes on in the current file.     *)
AfterChildStaying(st, c, mode) ==
    [st EXCEPT ![Len(st)].mode = mode]

AfterChild(st, c, mode) ==
    [st EXCEPT ![Len(st)].mode = mode,
               ![Len(st)].inner = IF st[Len(st)].tag = "section" THEN c ELSE @]

(* Where the FB2 schema allows an element, by what came before it. *)
InText == Top.tag = "section" /\ Top.mode # "sections"

Allows(kind) ==
    /\ kind \in conf.kinds
    /\ stack # <<>>
    /\ Len(links) < MaxElems
    /\ Top.mode # "tail" \/ kind = "author"
    /\ CASE kind = "title" -> Top.tag \in {"body", "section", "poem"} /\ Top.mode = "start"
         [] kind = "epigraph" -> /\ Top.tag \in {"body", "section", "poem"}
                                 /\ Top.mode \in {"start", "head"}
         [] kind = "section" -> Top.tag \in {"body", "section"} /\ Top.mode # "text"
         [] kind = "p" -> InText \/ Top.tag \in {"cite", "epigraph", "annotation"}
         [] kind = "cite" -> InText \/ Top.tag \in {"epigraph", "annotation"}
         [] kind = "poem" -> InText \/ Top.tag \in {"cite", "epigraph", "annotation"}
         [] kind \in {"subtitle", "divider"} -> InText \/ Top.tag \in {"cite", "poem", "annotation"}
         [] kind = "verse" -> Top.tag = "poem"
         [] kind = "author" -> Top.tag \in {"cite", "epigraph", "poem"}

-----------------------------------------------------------------------------
(* The next file, when one is opened, is current, is in the book and has   *)
(* no pages; the element goes there.  Otherwise it goes under "inner".     *)
TargetStays(open) == Top.inner
Target(open) == IF open THEN Len(docs) + 1 ELSE Top.inner
Current(open) == IF open THEN Len(docs) + 1 ELSE cur
Opened(open) == IF open THEN Append(docs, NewDoc(FileName, 0)) ELSE docs

OpenFileFirstIf(open) ==
    /\ cur' = Current(open)
    /\ files' = IF open THEN <<Len(docs) + 1>> \o files ELSE files

OpenFileIf(open) ==
    /\ cur' = Current(open)
    /\ files' = IF open THEN Append(files, Len(docs) + 1) ELSE files

(* formatText puts page ends into the node at hand, and numbers them and   *)
(* counts them by the current file.                                        *)
MarkersFromOne(first, k) == [i \in 1..k |-> <<"page", i>>]
Markers(first, k) == [i \in 1..k |-> <<"page", first + i - 1>>]

Write(open, items, k) ==
    LET first == Opened(open)[Current(open)].pages IN
    /\ k > 0 => first # NoPages
    /\ docs' = [Opened(open) EXCEPT
                    ![Target(open)].items = @ \o items \o Markers(first, k),
                    ![Current(open)].pages = @ + k]

Number == Len(links) + 1

(* Every element with an id is entered into LinksLocations on the way.     *)
Locate(open) == links' = Append(links, Current(open))

TocEntry(anchor, d, number) ==
    [anchor |-> anchor, doc |-> d, level |-> Header, number |-> number]

-----------------------------------------------------------------------------
(* Opening of bodies and of the annotation page. *)
Init ==
    /\ conf \in Settings
    /\ phase = IF AnnotationPage THEN "description" ELSE "bodies"
    /\ docs = <<>> /\ files = <<>> /\ cur = 0 /\ stack = <<>>
    /\ toc = <<>> /\ links = <<>> /\ tocIndex = 1
    /\ firstBodyTitle = FALSE /\ specialParagraph = FALSE

StartAnnotation ==
    /\ phase = "description" /\ stack = <<>>
    /\ docs' = Append(docs, NewDoc(<<"annotation", 0>>, NoPages))
    /\ cur' = Len(docs) + 1
    /\ stack' = <<Frame("annotation", cur', 0)>>
    /\ UNCHANGED <<phase, files, toc, links, tocIndex, firstBodyTitle, specialParagraph>>

(* The page joins the book when it is complete, and gets its TOC entry. *)
EndAnnotation ==
    /\ phase = "description" /\ Len(stack) = 1 /\ Top.mode # "start"
    /\ files' = Append(files, Top.to)
    /\ docs' = [docs EXCEPT ![Top.to].items = Append(@, <<"tocref", tocIndex>>)]
    /\ toc' = Append(toc, TocEntry(<<"tocref", tocIndex>>, cur, 0))
    /\ tocIndex' = tocIndex + 1
    /\ stack' = <<>>
    /\ phase' = "bodies"
    /\ UNCHANGED <<cur, links, firstBodyTitle, specialParagraph>>

StartBody ==
    /\ stack = <<>>
    /\ \/ phase = "bodies" /\ phase' = "main"
       \/ phase = "main" /\ NotesBody /\ phase' = "notes"
    /\ docs' = Append(docs, NewDoc(IF phase' = "notes" THEN <<"notes", 0>>
                                   ELSE <<"index", Findex + 1>>, 0))
    /\ cur' = Len(docs) + 1
    /\ files' = Append(files, cur')
    /\ stack' = <<Frame("body", cur', 0)>>
    /\ firstBodyTitle' = TRUE
    /\ UNCHANGED <<toc, links, tocIndex, specialParagraph>>

EndBody ==
    /\ Len(stack) = 1 /\ Top.tag = "body" /\ Top.mode = "sections"
    /\ stack' = <<>>
    /\ UNCHANGED <<phase, docs, files, cur, toc, links, tocIndex, firstBodyTitle,
                   specialParagraph>>

-----------------------------------------------------------------------------
(* transferTitle: in the main body, and for the first title of a named one, *)
(* a block the TOC entry refers to; otherwise a plain block.                *)
Title(k) ==
    /\ Allows("title")
    /\ IF Main \/ firstBodyTitle
       THEN /\ Write(FALSE, <<<<"tocref", tocIndex>>, <<"text", Number>>>>, k)
            /\ toc' = Append(toc, TocEntry(<<"tocref", tocIndex>>, cur, Number))
            /\ stack' = AfterChild(WithTitle(stack), cur, "head")
       ELSE /\ Write(FALSE, <<<<"text", Number>>>>, k)
            /\ UNCHANGED toc
            /\ stack' = AfterChild(stack, cur, "head")
    /\ Locate(FALSE)
    /\ tocIndex' = tocIndex + 1
    /\ firstBodyTitle' = FALSE
    /\ UNCHANGED <<phase, files, cur, specialParagraph>>

(* transferSection.  A main body without a title gets one made up from the  *)
(* description, at the place of its first section.                          *)
FakesTitle == Main /\ Header = 0 /\ firstBodyTitle

StartsFile == ChapterPerFile /\ Main /\ Header + 1 < ChapterLevel

OpenSection ==
    /\ Allows("section")
    /\ Len(stack) < MaxDepth
    /\ LET fake == IF FakesTitle THEN <<<<"tocref", tocIndex>>>> ELSE <<>>
           titled == [docs EXCEPT ![Top.inner].items = @ \o fake]
           opened == IF StartsFile THEN Append(titled, NewDoc(FileName, 0)) ELSE titled
       IN docs' = [opened EXCEPT ![Target(StartsFile)].items = Append(@, <<"section", Number>>)]
    /\ OpenFileIf(StartsFile)
    /\ Locate(StartsFile)
    /\ stack' = Append(stack, Frame("section", Target(StartsFile), Number))
    /\ IF FakesTitle
       THEN /\ toc' = Append(toc, TocEntry(<<"tocref", tocIndex>>, cur, 0))
            /\ tocIndex' = tocIndex + 1
            /\ firstBodyTitle' = FALSE
       ELSE UNCHANGED <<toc, tocIndex, firstBodyTitle>>
    /\ UNCHANGED <<phase, specialParagraph>>

(* The end of a chapter: a vignette if it has a title and text, or an entry *)
(* in the TOC if it has text and no title; and one mark of the end, where   *)
(* several sections end together too.  "to" is the node transferSection     *)
(* started with.  A vignette is numbered by the last element of its section.*)
HasVignette(f) == f.hasText /\ f.titled

HasUntitledEntry(f) == f.hasText /\ ~f.titled /\ NoTitleChapters

EndMark(items) ==
    IF items # <<>> /\ items[Len(items)] = <<"end", 0>> THEN items
    ELSE Append(items, <<"end", 0>>)

VignetteMarkFirst(f, items) ==
    IF HasVignette(f) THEN <<<<"vignette", Len(links)>>>> \o items ELSE items

VignetteMark(f, items) ==
    IF HasVignette(f) THEN Append(items, <<"vignette", Len(links)>>) ELSE items

CloseSection ==
    /\ stack # <<>> /\ Top.tag = "section" /\ Top.mode # "start"
    /\ LET rest == SubSeq(stack, 1, Len(stack) - 1) IN
       stack' = AfterChild(rest, cur, "sections")
    /\ docs' = IF Main
               THEN [docs EXCEPT ![Top.to].items = EndMark(VignetteMark(Top, @))]
               ELSE docs
    /\ IF Main /\ HasUntitledEntry(Top)
       THEN /\ toc' = Append(toc, TocEntry(<<"secref", Findex>>, cur, Top.number))
            /\ tocIndex' = tocIndex + 1
       ELSE UNCHANGED <<toc, tocIndex>>
    /\ UNCHANGED <<phase, files, cur, links, firstBodyTitle, specialParagraph>>

-----------------------------------------------------------------------------
(* Text is split into files only outside of epigraphs, poems and authors of *)
(* texts, and in the main body.                                             *)
MaySplit == ChapterPerFile /\ Main /\ ~specialParagraph

(* transferParagraph: the current file has its pages. *)
FileIsFull ==
    /\ docs[cur].pages # NoPages
    /\ docs[cur].pages >= PagesPerFile

Paragraph(k) ==
    LET split == MaySplit /\ FileIsFull IN
    /\ Allows("p")
    /\ OpenFileIf(split)
    /\ Write(split, <<<<"text", Number>>>>, k)
    /\ Locate(split)
    /\ stack' = AfterChild(IF Main THEN WithText(stack) ELSE stack, Current(split), "text")
    /\ UNCHANGED <<phase, toc, tocIndex, firstBodyTitle, specialParagraph>>

(* transferSubtitle: a subtitle may be one of the dividers. *)
Subtitle(k) ==
    /\ Allows("subtitle")
    /\ Write(FALSE, <<<<"text", Number>>>>, k)
    /\ Locate(FALSE)
    /\ stack' = AfterChild(stack, cur, "text")
    /\ UNCHANGED <<phase, files, cur, toc, tocIndex, firstBodyTitle, specialParagraph>>

Divider ==
    /\ Allows("divider")
    /\ OpenFileIf(MaySplit)
    /\ Write(MaySplit, <<<<"text", Number>>>>, 0)
    /\ Locate(MaySplit)
    /\ stack' = AfterChild(stack, Current(MaySplit), "text")
    /\ UNCHANGED <<phase, toc, tocIndex, firstBodyTitle, specialParagraph>>

(* A line of a poem is a paragraph without the splitting. *)
Verse(k) ==
    /\ Allows("verse")
    /\ Write(FALSE, <<<<"text", Number>>>>, k)
    /\ Locate(FALSE)
    /\ stack' = AfterChild(IF Main THEN WithText(stack) ELSE stack, cur, "text")
    /\ UNCHANGED <<phase, files, cur, toc, tocIndex, firstBodyTitle, specialParagraph>>

(* The author of a text is special and resets the flag on the way out. *)
TextAuthor ==
    /\ Allows("author")
    /\ Write(FALSE, <<<<"text", Number>>>>, 0)
    /\ Locate(FALSE)
    /\ stack' = AfterChild(stack, cur, "tail")
    /\ specialParagraph' = FALSE
    /\ UNCHANGED <<phase, files, cur, toc, tocIndex, firstBodyTitle>>

(* epigraph and poem set the flag and reset it on the way out, cite does    *)
(* not touch it.                                                            *)
OpenContainer(kind) ==
    /\ Allows(kind)
    /\ Len(stack) < MaxDepth
    /\ Write(FALSE, <<<<"id", Number>>>>, 0)
    /\ Locate(FALSE)
    /\ stack' = Append(stack, Frame(kind, Top.inner, Number))
    /\ specialParagraph' = (specialParagraph \/ kind \in Special)
    /\ UNCHANGED <<phase, files, cur, toc, tocIndex, firstBodyTitle>>

CloseContainer ==
    /\ stack # <<>> /\ Top.tag \in Containers /\ Top.mode # "start"
    /\ LET rest == SubSeq(stack, 1, Len(stack) - 1) IN
       stack' = AfterChild(rest, cur, IF Top.tag = "epigraph" THEN "head" ELSE "text")
    /\ specialParagraph' = (specialParagraph /\ Top.tag \notin Special)
    /\ UNCHANGED <<phase, docs, files, cur, toc, links, tocIndex, firstBodyTitle>>

-----------------------------------------------------------------------------
Next ==
    /\ conf' = conf
    /\ \/ StartAnnotation \/ EndAnnotation \/ StartBody \/ EndBody
       \/ OpenSection \/ CloseSection
       \/ \E k \in 0..MaxMarkers : Title(k) \/ Paragraph(k) \/ Subtitle(k) \/ Verse(k)
       \/ Divider \/ TextAuthor
       \/ \E kind \in Containers : OpenContainer(kind)
       \/ CloseContainer

Spec == Init /\ [][Next]_vars

-----------------------------------------------------------------------------
Has(d, item) == \E i \in 1..Len(docs[d].items) : docs[d].items[i] = item

(* What a reader meets, by file of the book and place in it. *)
Places == UNION {{i} \X (1..Len(docs[files[i]].items)) : i \in 1..Len(files)}

Before(p, q) == p[1] < q[1] \/ (p[1] = q[1] /\ p[2] < q[2])

At(p) == docs[files[p[1]]].items[p[2]]

(* The files, read one after the other, give the text in the order of the   *)
(* source.                                                                  *)
ReadingOrder ==
    \A p, q \in Places :
        At(p)[1] = "text" /\ At(q)[1] = "text" /\ Before(p, q) => At(p)[2] < At(q)[2]

(* The target of a TOC entry is in the file the entry names and nowhere     *)
(* else: ids are not repeated.  The one exception are the entries that      *)
(* include_chapters_without_title asks for: they name an id ("secref" and   *)
(* the number of the file) that no code writes, and lead to no target.      *)
TocRefsResolve ==
    \A i \in 1..Len(toc) :
        ~(NoTitleChapters /\ toc[i].anchor[1] = "secref") =>
            {d \in 1..Len(docs) : Has(d, toc[i].anchor)} = {toc[i].doc}

(* "link ID -> file (in what file link id is)" (book.go:61): processLinks   *)
(* turns the links of the book into references on the strength of it.       *)
LinksLocated ==
    \A n \in 1..Len(links) :
        \E kind \in {"text", "section", "id"} : Has(links[n], <<kind, n>>)

(* "additional pages per file" (book.go:58): the page ends in a file are    *)
(* page_0, page_1, ... in this order, as many as Book.Pages says;           *)
(* generatePagemap makes a reference to each of them.                       *)
PageMarkersMatch ==
    \A d \in 1..Len(docs) :
        LET items == docs[d].items
            Ends == {i \in 1..Len(items) : items[i][1] = "page"}
        IN  /\ \A i \in Ends : items[i][2] \in 0..(docs[d].pages - 1)
            /\ \A m \in 0..(docs[d].pages - 1) : Has(d, <<"page", m>>)
            /\ \A i, j \in Ends : i < j => items[i][2] < items[j][2]

(* A text may go on in another file, after a page end or at a divider.      *)
Splits == PagesPerFile <= MaxElems * MaxMarkers \/ "divider" \in conf.kinds

(* The configuration keeps the whole of a section, the sections inside it   *)
(* too, in the file it starts in: no file is opened while a section is open.*)
SectionsInOneFile == ~ChapterPerFile \/ (ChapterLevel <= 2 /\ ~Splits)

(* The vignette of a chapter is "at the chapter end" (xhtml.go:916): no     *)
(* text that comes after the chapter is in front of it, and no text of the  *)
(* chapter behind it.  But it is put where the section started: where a     *)
(* section goes on in other files, those of its own sections or those a     *)
(* text is split into, what the other files hold of it is behind, and only  *)
(* within its file the vignette is at the end.                              *)
VignetteAtChapterEnd ==
    \A p, q \in Places : At(p)[1] = "vignette" /\ At(q)[1] = "text" =>
        /\ Before(q, p) => At(q)[2] <= At(p)[2]
        /\ Before(p, q) /\ (SectionsInOneFile \/ p[1] = q[1]) => At(q)[2] > At(p)[2]
=============================================================================
