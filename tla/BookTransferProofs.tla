------------------------- MODULE BookTransferProofs -------------------------
(***************************************************************************)
(* Proofs about BookTransfer, for sources of any size and nesting and for  *)
(* every configuration in which a text is never split inside an epigraph,  *)
(* a cite, a poem or the annotation (Settled).  The inductive invariant    *)
(* CInv relates the recursion to the current file: where a handler may     *)
(* write, the node it writes under is in the file that is current.  All    *)
(* that the handlers do to the documents is a Growth: items are added at   *)
(* the end of some documents, and a document at the end of all.            *)
(***************************************************************************)
EXTENDS BookTransfer, SequenceTheorems, FiniteSetTheorems, TLAPS

(* A configuration may split a text in the middle of a chapter.            *)
MaySplitText(s) ==
    s.chapterPerFile /\ (s.pagesPerFile <= MaxElems * MaxMarkers \/ "divider" \in s.kinds)

(* Where texts are split, a section of the body starts a file, there is no *)
(* cite and no poem, and no divider in an annotation.                      *)
Settled ==
    \A s \in Settings : MaySplitText(s) =>
        /\ s.chapterLevel > 1
        /\ s.kinds \intersect {"cite", "poem"} = {}
        /\ s.annotationPage => "divider" \notin s.kinds

-----------------------------------------------------------------------------
(* Types. *)
Item == {"text", "section", "id", "page", "tocref", "vignette", "end"} \X Nat

Doc == [name : {"annotation", "index", "notes"} \X Nat, pages : Nat \union {NoPages},
        items : Seq(Item)]

Modes == {"start", "head", "text", "tail", "sections"}

Frames == [tag : {"body", "annotation", "section"} \union Containers, inner : Nat, to : Nat,
           number : Nat, titled : BOOLEAN, hasText : BOOLEAN, mode : Modes]

TocEntries == [anchor : {"tocref", "secref"} \X Nat, doc : Nat, level : Nat, number : Nat]

Types ==
    /\ conf \in Settings
    /\ phase \in {"description", "bodies", "main", "notes"}
    /\ docs \in Seq(Doc)
    /\ files \in Seq(Nat)
    /\ cur = Len(docs)
    /\ stack \in Seq(Frames)
    /\ toc \in Seq(TocEntries)
    /\ links \in Seq(Nat) /\ Len(links) <= MaxElems
    /\ tocIndex \in Nat
    /\ firstBodyTitle \in BOOLEAN /\ specialParagraph \in BOOLEAN

(* The stack is a path through a document of the schema, in its phase.     *)
Shape ==
    /\ \A k \in 1..Len(stack) :
        /\ stack[k].tag \in {"body", "annotation"} <=> k = 1
        /\ stack[k].tag = "section" => \A j \in 1..(k - 1) : stack[j].tag \in {"body", "section"}
        /\ stack[k].mode = "sections" => stack[k].tag \in {"body", "section"}
        /\ stack[k].to \in 1..Len(docs)
        /\ stack[k].inner \in 1..Len(docs)
        /\ stack[k].number <= Len(links)
    /\ phase = "description" => AnnotationPage /\ files = <<>>
    /\ phase = "bodies" => stack = <<>>
    /\ stack # <<>> =>
        /\ stack[1].tag = "annotation" <=> phase = "description"
        /\ phase = "description" => docs[cur].pages = NoPages /\ stack[1].to = cur
        /\ phase # "description" => docs[cur].pages # NoPages
        /\ phase = "notes" => docs[cur].name[1] = "notes"

(* A split never happens inside an epigraph, a cite or a poem.             *)
Unsplit ==
    MaySplitText(conf) =>
        \A k \in 1..Len(stack) : stack[k].tag \in Containers =>
            /\ stack[k].tag = "epigraph" /\ k = Len(stack)
            /\ stack[k].mode # "tail" => specialParagraph

(* Sections open files. *)
Opens == ChapterPerFile /\ Main /\ ChapterLevel > 1

(* A body whose sections have begun: whatever comes next opens a file, if  *)
(* anything does.                                                          *)
Waits(k) == stack[k].tag = "body" /\ stack[k].mode = "sections"

(* The node the recursion writes under is in the current file.             *)
InStep ==
    \A k \in 1..Len(stack) :
        /\ ~Opens => stack[k].inner = cur
        /\ k = Len(stack) /\ ~Waits(k) => stack[k].inner = cur
        /\ k < Len(stack) /\ stack[k + 1].tag \in Containers => stack[k].inner = cur
        /\ Main /\ Waits(k) => ~firstBodyTitle
        /\ Main /\ k > 1 /\ stack[2].tag = "section" => ~firstBodyTitle

PagesCounted == \A d \in 1..Len(docs) : docs[d].pages <= Len(links) * MaxMarkers

CInv == Types /\ Shape /\ Unsplit /\ InStep /\ PagesCounted

-----------------------------------------------------------------------------
USE SettingsAssumption, BoundsAssumption

(* A child changes its parent's frame in the mode, and in the node to go   *)
(* on with when the parent is a section.                                   *)
LEMMA AfterChildFrames ==
    ASSUME NEW st \in Seq(Frames), st # <<>>, NEW c \in Nat, NEW mode \in Modes
    PROVE  LET after == AfterChild(st, c, mode) IN
           /\ after \in Seq(Frames) /\ Len(after) = Len(st) /\ after # <<>>
           /\ \A k \in 1..Len(st) :
                /\ after[k].tag = st[k].tag /\ after[k].to = st[k].to
                /\ after[k].number = st[k].number
                /\ k # Len(st) => after[k] = st[k]
           /\ after[Len(st)].mode = mode
           /\ after[Len(st)].inner = IF st[Len(st)].tag = "section" THEN c
                                     ELSE st[Len(st)].inner
<1> DEFINE L == Len(st)
           f == st[L]
           g == [f EXCEPT !.mode = mode, !.inner = IF f.tag = "section" THEN c ELSE f.inner]
<1>1. L \in Nat \ {0} /\ f \in Frames
  BY EmptySeq, LenProperties, ElementOfSeq
<1>2. g \in Frames /\ g.tag = f.tag /\ g.to = f.to /\ g.number = f.number /\ g.mode = mode
      /\ g.inner = IF f.tag = "section" THEN c ELSE f.inner
  BY <1>1 DEF Frames
<1>3. AfterChild(st, c, mode) = [st EXCEPT ![L] = g]
  BY <1>1 DEF AfterChild, Frames
<1>4. [st EXCEPT ![L] = g] \in Seq(Frames) /\ Len([st EXCEPT ![L] = g]) = L
  BY <1>1, <1>2, ExceptSeq
<1>5. \A k \in 1..L : [st EXCEPT ![L] = g][k] = IF k = L THEN g ELSE st[k]
  BY <1>1
<1> DEFINE after == AfterChild(st, c, mode)
<1>6. after = [st EXCEPT ![L] = g]  BY <1>3
<1> HIDE DEF g, after
<1>7. after \in Seq(Frames) /\ Len(after) = L  BY <1>4, <1>6
<1>8. after # <<>>  BY <1>1, <1>7, EmptySeq
<1>9. \A k \in 1..L : after[k] = IF k = L THEN g ELSE st[k]  BY <1>5, <1>6
<1>10. L \in 1..L  BY <1>1
<1>11. after[L] = g  BY <1>9, <1>10
<1>12. ASSUME NEW k \in 1..L
       PROVE  /\ after[k].tag = st[k].tag /\ after[k].to = st[k].to
              /\ after[k].number = st[k].number
              /\ k # L => after[k] = st[k]
  BY <1>2, <1>9
<1>13. QED  BY <1>2, <1>7, <1>8, <1>11, <1>12 DEF after

(* The marks of the innermost section change nothing else. *)
LEMMA MarkedFrames ==
    ASSUME NEW st \in Seq(Frames), NEW after \in {st, WithTitle(st), WithText(st)}
    PROVE  /\ after \in Seq(Frames) /\ Len(after) = Len(st)
           /\ \A k \in 1..Len(st) :
                /\ after[k].tag = st[k].tag /\ after[k].to = st[k].to
                /\ after[k].number = st[k].number /\ after[k].mode = st[k].mode
                /\ after[k].inner = st[k].inner
<1>1. Len(st) \in Nat /\ \A k \in 1..Len(st) : st[k] \in Frames
  BY LenProperties, ElementOfSeq
<1>2. \A k \in 1..Len(st) :
        /\ [st[k] EXCEPT !.titled = TRUE] \in Frames /\ [st[k] EXCEPT !.hasText = TRUE] \in Frames
  BY <1>1 DEF Frames
<1>3. CASE after = WithTitle(st)
  <2>1. after = [k \in 1..Len(st) |->
                    IF InSection(st, k) THEN [st[k] EXCEPT !.titled = TRUE] ELSE st[k]]
    BY <1>3 DEF WithTitle
  <2>2. after \in [1..Len(st) -> Frames]  BY <1>1, <1>2, <2>1
  <2>3. after \in Seq(Frames) /\ Len(after) = Len(st)  BY <1>1, <2>2, SeqDef, LenProperties
  <2>4. \A k \in 1..Len(st) :
          after[k] = IF InSection(st, k) THEN [st[k] EXCEPT !.titled = TRUE] ELSE st[k]
    BY <2>1
  <2>5. QED  BY <1>1, <2>3, <2>4 DEF Frames
<1>4. CASE after = WithText(st)
  <2>1. after = [k \in 1..Len(st) |->
                    IF InSection(st, k) THEN [st[k] EXCEPT !.hasText = TRUE] ELSE st[k]]
    BY <1>4 DEF WithText
  <2>2. after \in [1..Len(st) -> Frames]  BY <1>1, <1>2, <2>1
  <2>3. after \in Seq(Frames) /\ Len(after) = Len(st)  BY <1>1, <2>2, SeqDef, LenProperties
  <2>4. \A k \in 1..Len(st) :
          after[k] = IF InSection(st, k) THEN [st[k] EXCEPT !.hasText = TRUE] ELSE st[k]
    BY <2>1
  <2>5. QED  BY <1>1, <2>3, <2>4 DEF Frames
<1>5. QED  BY <1>3, <1>4

-----------------------------------------------------------------------------
(* Growth.  A step adds new[d] at the end of document d; there may be a    *)
(* new document, and it is the last and the current one.                   *)
Old(d) == IF d <= Len(docs) THEN docs[d].items ELSE <<>>

Growth(new) ==
    /\ docs' \in Seq(Doc) /\ Len(docs') \in {Len(docs), Len(docs) + 1}
    /\ cur' = Len(docs')
    /\ new \in [1..Len(docs') -> Seq(Item)]
    /\ \A d \in 1..Len(docs') : docs'[d].items = Old(d) \o new[d]
    /\ \A d \in 1..Len(docs) : docs'[d].name = docs[d].name

LEMMA GrownItems ==
    ASSUME docs \in Seq(Doc), NEW new, Growth(new), NEW d \in 1..Len(docs')
    PROVE  /\ Len(docs'[d].items) = Len(Old(d)) + Len(new[d])
           /\ Len(Old(d)) \in Nat /\ Len(new[d]) \in Nat
           /\ \A i \in 1..Len(Old(d)) : docs'[d].items[i] = Old(d)[i] /\ i \in 1..Len(docs'[d].items)
           /\ \A i \in 1..Len(new[d]) : /\ docs'[d].items[Len(Old(d)) + i] = new[d][i]
                                       /\ Len(Old(d)) + i \in 1..Len(docs'[d].items)
           /\ \A i \in 1..Len(docs'[d].items) :
                \/ i \in 1..Len(Old(d)) /\ docs'[d].items[i] = Old(d)[i]
                \/ /\ i - Len(Old(d)) \in 1..Len(new[d])
                   /\ docs'[d].items[i] = new[d][i - Len(Old(d))]
<1>1. Len(docs) \in Nat /\ Len(docs') \in Nat  BY LenProperties DEF Growth
<1>2. Old(d) \in Seq(Item)
  <2>1. CASE d <= Len(docs)
    <3>1. d \in 1..Len(docs)  BY <1>1, <2>1
    <3>2. docs[d] \in Doc  BY <3>1, ElementOfSeq
    <3>3. QED  BY <2>1, <3>2 DEF Old, Doc
  <2>2. CASE ~(d <= Len(docs))  BY <2>2, EmptySeq DEF Old
  <2>3. QED  BY <2>1, <2>2
<1>3. new[d] \in Seq(Item)  BY DEF Growth
<1>4. docs'[d].items = Old(d) \o new[d]  BY DEF Growth
<1>5. Len(Old(d)) \in Nat /\ Len(new[d]) \in Nat  BY <1>2, <1>3, LenProperties
<1>6. Len(docs'[d].items) = Len(Old(d)) + Len(new[d])
  BY <1>2, <1>3, <1>4, ConcatProperties
<1>7. \A i \in 1..(Len(Old(d)) + Len(new[d])) :
        docs'[d].items[i] = IF i <= Len(Old(d)) THEN Old(d)[i] ELSE new[d][i - Len(Old(d))]
  BY <1>2, <1>3, <1>4, ConcatProperties
<1>8. ASSUME NEW i \in 1..Len(Old(d))
      PROVE  docs'[d].items[i] = Old(d)[i] /\ i \in 1..Len(docs'[d].items)
  BY <1>5, <1>6, <1>7
<1>9. ASSUME NEW i \in 1..Len(new[d])
      PROVE  /\ docs'[d].items[Len(Old(d)) + i] = new[d][i]
             /\ Len(Old(d)) + i \in 1..Len(docs'[d].items)
  <2>1. Len(Old(d)) + i \in 1..(Len(Old(d)) + Len(new[d]))  BY <1>5
  <2>2. ~(Len(Old(d)) + i <= Len(Old(d))) /\ Len(Old(d)) + i - Len(Old(d)) = i  BY <1>5
  <2>3. QED  BY <1>6, <1>7, <2>1, <2>2
<1>10. ASSUME NEW i \in 1..Len(docs'[d].items)
       PROVE  \/ i \in 1..Len(Old(d)) /\ docs'[d].items[i] = Old(d)[i]
              \/ /\ i - Len(Old(d)) \in 1..Len(new[d])
                 /\ docs'[d].items[i] = new[d][i - Len(Old(d))]
  <2>1. CASE i <= Len(Old(d))  BY <1>5, <1>6, <1>7, <2>1
  <2>2. CASE ~(i <= Len(Old(d)))
    <3>1. i - Len(Old(d)) \in 1..Len(new[d])  BY <1>5, <1>6, <2>2
    <3>2. docs'[d].items[i] = new[d][i - Len(Old(d))]  BY <1>6, <1>7, <2>2
    <3>3. QED  BY <3>1, <3>2
  <2>3. QED  BY <2>1, <2>2
<1>11. QED  BY <1>5, <1>6, <1>8, <1>9, <1>10

(* An item is in a document after the step when it was there or is new.    *)
LEMMA GrownHas ==
    ASSUME docs \in Seq(Doc), NEW new, Growth(new), NEW d \in 1..Len(docs'), NEW item
    PROVE  Has(d, item)' <=> \/ d \in 1..Len(docs) /\ Has(d, item)
                            \/ \E i \in 1..Len(new[d]) : new[d][i] = item
<1>1. Len(docs) \in Nat /\ Len(docs') \in Nat  BY LenProperties DEF Growth
<1>2. /\ \A i \in 1..Len(Old(d)) : docs'[d].items[i] = Old(d)[i] /\ i \in 1..Len(docs'[d].items)
      /\ \A i \in 1..Len(new[d]) : /\ docs'[d].items[Len(Old(d)) + i] = new[d][i]
                                  /\ Len(Old(d)) + i \in 1..Len(docs'[d].items)
      /\ \A i \in 1..Len(docs'[d].items) :
            \/ i \in 1..Len(Old(d)) /\ docs'[d].items[i] = Old(d)[i]
            \/ /\ i - Len(Old(d)) \in 1..Len(new[d])
               /\ docs'[d].items[i] = new[d][i - Len(Old(d))]
  BY GrownItems
<1>3. Has(d, item)' <=> \E i \in 1..Len(docs'[d].items) : docs'[d].items[i] = item
  BY DEF Has
<1>4. d \in 1..Len(docs) /\ Has(d, item) <=> \E i \in 1..Len(Old(d)) : Old(d)[i] = item
  <2>1. CASE d \in 1..Len(docs)  BY <1>1, <2>1 DEF Old, Has
  <2>2. CASE d \notin 1..Len(docs)  BY <1>1, <2>2, EmptySeq DEF Old
  <2>3. QED  BY <2>1, <2>2
<1>5. QED  BY <1>2, <1>3, <1>4

-----------------------------------------------------------------------------
(* What the properties say, document by document. *)

(* An item precedes another one in the order the documents were created.   *)
Precedes(d, i, e, j) == d < e \/ (d = e /\ i < j)

IsText(item) == item[1] = "text"

TextInOrder ==
    \A d, e \in 1..Len(docs) :
        \A i \in 1..Len(docs[d].items), j \in 1..Len(docs[e].items) :
            /\ IsText(docs[d].items[i]) => docs[d].items[i][2] <= Len(links)
            /\ IsText(docs[d].items[i]) /\ IsText(docs[e].items[j]) /\ Precedes(d, i, e, j)
                => docs[d].items[i][2] < docs[e].items[j][2]

Located ==
    /\ LinksLocated
    /\ \A n \in 1..Len(links) : links[n] \in 1..Len(docs)

(* tocIndex is above every number that was used, the anchor of an entry is  *)
(* in the document of the entry only, and there are entries of chapters     *)
(* without a title only where the configuration asks for them.              *)
TocInv ==
    /\ \A i \in 1..Len(toc) : toc[i].anchor[1] = "secref" => NoTitleChapters
    /\ \A d \in 1..Len(docs), n \in Nat : Has(d, <<"tocref", n>>) => n < tocIndex
    /\ \A i \in 1..Len(toc), n \in Nat : toc[i].anchor = <<"tocref", n>> =>
        /\ n < tocIndex /\ toc[i].doc \in 1..Len(docs)
        /\ \A d \in 1..Len(docs) : Has(d, <<"tocref", n>>) <=> d = toc[i].doc

FilesInOrder ==
    /\ \A i \in 1..Len(files) : files[i] \in 1..Len(docs)
    /\ \A i, j \in 1..Len(files) : i < j => files[i] < files[j]

(* What a step may add. *)
AddsText(new) ==
    /\ Len(links') \in {Len(links), Len(links) + 1}
    /\ \A d \in 1..Len(docs') : \A j \in 1..Len(new[d]) :
        IsText(new[d][j]) =>
            /\ d = Len(docs') /\ new[d][j][2] = Len(links) + 1 /\ Len(links') = Len(links) + 1
            /\ \A i \in 1..Len(new[d]) : IsText(new[d][i]) => i = j

AddsLink(new) ==
    \/ links' = links
    \/ /\ links' = Append(links, Len(docs')) /\ Len(docs') > 0
       /\ \E kind \in {"text", "section", "id"}, j \in 1..Len(new[Len(docs')]) :
            new[Len(docs')][j] = <<kind, Len(links) + 1>>

AddsToc(new) ==
    \/ /\ \A d \in 1..Len(docs') : \A j \in 1..Len(new[d]) : new[d][j][1] # "tocref"
       /\ tocIndex' \in {tocIndex, tocIndex + 1}
       /\ \/ toc' = toc
          \/ NoTitleChapters /\ \E entry \in TocEntries :
                entry.anchor[1] = "secref" /\ toc' = Append(toc, entry)
    \/ \E entry \in TocEntries :
        /\ toc' = Append(toc, entry)
        /\ entry.anchor = <<"tocref", tocIndex>> /\ entry.doc \in 1..Len(docs')
        /\ tocIndex' = tocIndex + 1
        /\ \A d \in 1..Len(docs') : \A j \in 1..Len(new[d]) :
            new[d][j][1] = "tocref" => d = entry.doc /\ new[d][j] = entry.anchor
        /\ \E j \in 1..Len(new[entry.doc]) : new[entry.doc][j] = entry.anchor

OldPages(d) == IF d <= Len(docs) THEN docs[d].pages ELSE 0

IsPage(item) == item[1] = "page"

AddsPages(new) ==
    \A d \in 1..Len(docs') :
        /\ d <= Len(docs) => docs[d].pages <= docs'[d].pages
        /\ \A j \in 1..Len(new[d]) :
            IsPage(new[d][j]) => new[d][j][2] \in OldPages(d)..(docs'[d].pages - 1)
        /\ \A m \in OldPages(d)..(docs'[d].pages - 1) :
            \E j \in 1..Len(new[d]) : new[d][j] = <<"page", m>>
        /\ \A i, j \in 1..Len(new[d]) :
            i < j /\ IsPage(new[d][i]) /\ IsPage(new[d][j]) => new[d][i][2] < new[d][j][2]

(* Only the end of a section adds a vignette, to the node the section       *)
(* started with, and it adds nothing that has an id.                        *)
AddsVignette(new) ==
    \A d \in 1..Len(docs') : \A j \in 1..Len(new[d]) :
        new[d][j][1] = "vignette" =>
            /\ phase = "main" /\ stack # <<>> /\ Top.tag = "section"
            /\ d = Top.to /\ new[d][j][2] = Len(links) /\ links' = links

AddsFile ==
    \/ files' = files
    \/ files' = Append(files, Len(docs')) /\ Len(docs') = Len(docs) + 1
    \/ files = <<>> /\ files' = Append(files, Len(docs')) /\ Len(docs') > 0

-----------------------------------------------------------------------------
(* Each of the parts is kept by a step that adds what it may. *)
LEMMA TextStep ==
    ASSUME Types, NEW new, Growth(new), AddsText(new), TextInOrder
    PROVE  TextInOrder'
<1>1. docs \in Seq(Doc) /\ Len(docs) \in Nat /\ Len(docs') \in Nat /\ Len(links) \in Nat
  BY LenProperties DEF Types, Growth
<1>2. Len(docs') \in {Len(docs), Len(docs) + 1}  BY DEF Growth
<1>3. ASSUME NEW d \in 1..Len(docs'), NEW i \in 1..Len(docs'[d].items)
      PROVE  \/ d \in 1..Len(docs) /\ i \in 1..Len(docs[d].items)
                    /\ Old(d) = docs[d].items /\ docs'[d].items[i] = docs[d].items[i]
             \/ /\ i - Len(Old(d)) \in 1..Len(new[d])
                /\ docs'[d].items[i] = new[d][i - Len(Old(d))]
  <2>1. \/ i \in 1..Len(Old(d)) /\ docs'[d].items[i] = Old(d)[i]
        \/ /\ i - Len(Old(d)) \in 1..Len(new[d])
           /\ docs'[d].items[i] = new[d][i - Len(Old(d))]
    BY <1>1, GrownItems
  <2>2. CASE d <= Len(docs)  BY <1>1, <2>1, <2>2 DEF Old
  <2>3. CASE ~(d <= Len(docs))  BY <1>1, <2>1, <2>3, EmptySeq DEF Old
  <2>4. QED  BY <2>2, <2>3
<1> SUFFICES ASSUME NEW d \in 1..Len(docs'), NEW e \in 1..Len(docs'),
                    NEW i \in 1..Len(docs'[d].items), NEW j \in 1..Len(docs'[e].items),
                    IsText(docs'[d].items[i])
             PROVE  /\ docs'[d].items[i][2] <= Len(links')
                    /\ IsText(docs'[e].items[j]) /\ Precedes(d, i, e, j)
                        => docs'[d].items[i][2] < docs'[e].items[j][2]
  BY DEF TextInOrder, IsText
<1>4. Len(Old(d)) \in Nat /\ Len(Old(e)) \in Nat  BY <1>1, GrownItems
<1>5. CASE d \in 1..Len(docs) /\ i \in 1..Len(docs[d].items) /\ docs'[d].items[i] = docs[d].items[i]
  <2>1. docs[d].items[i][2] <= Len(links)  BY <1>5 DEF TextInOrder, Precedes
  <2>2. docs'[d].items[i][2] \in Nat
    <3>1. docs[d] \in Doc  BY <1>1, <1>5, ElementOfSeq
    <3>2. docs[d].items[i] \in Item  BY <1>5, <3>1, ElementOfSeq DEF Doc
    <3>3. QED  BY <1>5, <3>2 DEF Item
  <2>3. docs'[d].items[i][2] <= Len(links')
    <3>1. Len(links') \in {Len(links), Len(links) + 1}  BY DEF AddsText
    <3>2. docs'[d].items[i][2] <= Len(links)  BY <1>5, <2>1
    <3>3. QED  BY SMTT(40), <1>1, <2>2, <3>1, <3>2
  <2>4. ASSUME IsText(docs'[e].items[j]), Precedes(d, i, e, j)
        PROVE  docs'[d].items[i][2] < docs'[e].items[j][2]
    <3>1. CASE e \in 1..Len(docs) /\ j \in 1..Len(docs[e].items) /\ docs'[e].items[j] = docs[e].items[j]
      BY <1>5, <2>4, <3>1 DEF TextInOrder
    <3>2. CASE j - Len(Old(e)) \in 1..Len(new[e]) /\ docs'[e].items[j] = new[e][j - Len(Old(e))]
      <4>1. IsText(new[e][j - Len(Old(e))])  BY <2>4, <3>2
      <4>2. new[e][j - Len(Old(e))][2] = Len(links) + 1  BY <3>2, <4>1 DEF AddsText
      <4>3. docs'[e].items[j][2] = Len(links) + 1  BY <3>2, <4>2
      <4>4. docs'[d].items[i][2] <= Len(links)  BY <1>5, <2>1
      <4>5. QED  BY SMTT(40), <1>1, <2>2, <4>3, <4>4
    <3>3. QED  BY <1>3, <3>1, <3>2
  <2>5. QED  BY <2>3, <2>4
<1>6. CASE /\ i - Len(Old(d)) \in 1..Len(new[d])
           /\ docs'[d].items[i] = new[d][i - Len(Old(d))]
  <2>1. /\ d = Len(docs') /\ docs'[d].items[i][2] = Len(links) + 1 /\ Len(links') = Len(links) + 1
        /\ \A l \in 1..Len(new[d]) : IsText(new[d][l]) => l = i - Len(Old(d))
    BY <1>6 DEF AddsText
  <2>2. ASSUME IsText(docs'[e].items[j]), Precedes(d, i, e, j)
        PROVE  FALSE
    <3>1. e = d /\ i < j  BY <1>1, <2>1, <2>2 DEF Precedes
    <3>2. CASE e \in 1..Len(docs) /\ j \in 1..Len(docs[e].items) /\ Old(e) = docs[e].items
      BY <1>4, <1>6, <3>1, <3>2
    <3>3. CASE j - Len(Old(e)) \in 1..Len(new[e]) /\ docs'[e].items[j] = new[e][j - Len(Old(e))]
      <4>1. IsText(new[d][j - Len(Old(d))]) /\ j - Len(Old(d)) \in 1..Len(new[d])
        BY <2>2, <3>1, <3>3
      <4>2. j - Len(Old(d)) = i - Len(Old(d))  BY <2>1, <4>1
      <4>3. i \in Int /\ j \in Int  OBVIOUS
      <4>4. QED  BY <1>4, <3>1, <4>2, <4>3
    <3>4. QED  BY <1>3, <3>2, <3>3
  <2>3. QED  BY <1>1, <2>1, <2>2
<1>7. QED  BY <1>3, <1>5, <1>6

LEMMA LinkStep ==
    ASSUME Types, NEW new, Growth(new), AddsLink(new), Located
    PROVE  Located'
<1>1. docs \in Seq(Doc) /\ Len(docs) \in Nat /\ Len(docs') \in Nat
      /\ links \in Seq(Nat) /\ Len(links) \in Nat
  BY LenProperties DEF Types, Growth
<1>2. ASSUME NEW d \in 1..Len(docs), NEW item, Has(d, item)
      PROVE  d \in 1..Len(docs') /\ Has(d, item)'
  <2>1. d \in 1..Len(docs')  BY <1>1 DEF Growth
  <2>2. QED  BY <1>1, <1>2, <2>1, GrownHas
<1>3. ASSUME NEW n \in 1..Len(links)
      PROVE  /\ links[n] \in 1..Len(docs')
             /\ \E kind \in {"text", "section", "id"} :
                    \E i \in 1..Len(docs'[links[n]].items) :
                        docs'[links[n]].items[i] = <<kind, n>>
  <2>1. links[n] \in 1..Len(docs)  BY DEF Located
  <2>2. PICK kind \in {"text", "section", "id"} : Has(links[n], <<kind, n>>)
    BY DEF Located, LinksLocated
  <2>3. \A d \in 1..Len(docs) : Has(d, <<kind, n>>) => Has(d, <<kind, n>>)'  BY <1>2
  <2>4. \A d \in 1..Len(docs) : Has(d, <<kind, n>>) =>
          \E i \in 1..Len(docs'[d].items) : docs'[d].items[i] = <<kind, n>>
    BY <2>3 DEF Has
  <2>5. links[n] \in 1..Len(docs')  BY <1>1, <2>1 DEF Growth
  <2>6. QED  BY <2>1, <2>2, <2>4, <2>5
<1>4. CASE links' = links  BY <1>3, <1>4 DEF Located, LinksLocated, Has
<1>5. CASE /\ links' = Append(links, Len(docs')) /\ Len(docs') > 0
           /\ \E kind \in {"text", "section", "id"}, j \in 1..Len(new[Len(docs')]) :
                new[Len(docs')][j] = <<kind, Len(links) + 1>>
  <2>1. /\ Len(links') = Len(links) + 1
        /\ \A n \in 1..Len(links) : links'[n] = links[n]
        /\ links'[Len(links) + 1] = Len(docs')
    BY <1>1, <1>5, AppendProperties
  <2>2. \E kind \in {"text", "section", "id"} :
            \E i \in 1..Len(docs'[Len(docs')].items) :
                docs'[Len(docs')].items[i] = <<kind, Len(links) + 1>>
    <3>1. PICK kind \in {"text", "section", "id"}, j \in 1..Len(new[Len(docs')]) :
                new[Len(docs')][j] = <<kind, Len(links) + 1>>
      BY <1>5
    <3>2. Len(docs') \in 1..Len(docs')  BY <1>1, <1>5
    <3>3. Has(Len(docs), <<kind, Len(links) + 1>>)' <=>
             \E i \in 1..Len(docs'[Len(docs')].items) :
                docs'[Len(docs')].items[i] = <<kind, Len(links') + 1>>
      BY DEF Has
    <3>4. /\ docs'[Len(docs')].items[Len(Old(Len(docs'))) + j] = new[Len(docs')][j]
          /\ Len(Old(Len(docs'))) + j \in 1..Len(docs'[Len(docs')].items)
      BY <1>1, <3>2, GrownItems
    <3>5. QED  BY <3>1, <3>4
  <2>3. ASSUME NEW n \in 1..Len(links')
        PROVE  /\ links'[n] \in 1..Len(docs')
               /\ \E kind \in {"text", "section", "id"} :
                    \E i \in 1..Len(docs'[links'[n]].items) :
                        docs'[links'[n]].items[i] = <<kind, n>>
    <3>1. CASE n \in 1..Len(links)
      <4>1. links'[n] = links[n]  BY <2>1, <3>1
      <4>2. QED  BY <1>3, <3>1, <4>1
    <3>2. CASE n = Len(links) + 1
      <4>1. links'[n] = Len(docs') /\ Len(docs') \in 1..Len(docs')
        BY <1>1, <1>5, <2>1, <3>2
      <4>2. QED  BY <2>2, <3>2, <4>1
    <3>3. n \in 1..Len(links) \/ n = Len(links) + 1  BY <1>1, <2>1
    <3>4. QED  BY <3>1, <3>2, <3>3
  <2>4. QED  BY <2>3 DEF Located, LinksLocated, Has
<1>6. QED  BY <1>4, <1>5 DEF AddsLink

LEMMA TocStep ==
    ASSUME Types, conf' = conf, NEW new, Growth(new), AddsToc(new), TocInv
    PROVE  TocInv'
<1>1. docs \in Seq(Doc) /\ Len(docs) \in Nat /\ Len(docs') \in Nat
      /\ toc \in Seq(TocEntries) /\ Len(toc) \in Nat /\ tocIndex \in Nat
  BY LenProperties DEF Types, Growth
<1>2. \A d \in 1..Len(docs) : d \in 1..Len(docs')  BY <1>1 DEF Growth
<1>3. \A d \in 1..Len(docs), n \in Nat : Has(d, <<"tocref", n>>) => n < tocIndex
  BY DEF TocInv
<1>4. tocIndex' \in Nat /\ tocIndex' >= tocIndex  BY <1>1 DEF AddsToc
(* What a document holds after the step, when the anchor is not new. *)
<1>5. ASSUME NEW d \in 1..Len(docs'), NEW n \in Nat,
             \A j \in 1..Len(new[d]) : new[d][j] # <<"tocref", n>>
      PROVE  Has(d, <<"tocref", n>>)' <=> d \in 1..Len(docs) /\ Has(d, <<"tocref", n>>)
  <2>1. \A item : Has(d, item)' <=> \/ d \in 1..Len(docs) /\ Has(d, item)
                                 \/ \E j \in 1..Len(new[d]) : new[d][j] = item
    BY <1>1, GrownHas
  <2>2. QED  BY <1>5, <2>1
(* An old entry keeps its place when the step adds no anchor below tocIndex. *)
<1>6. ASSUME \A d \in 1..Len(docs') : \A j \in 1..Len(new[d]), n \in Nat :
                new[d][j] = <<"tocref", n>> => n = tocIndex,
             NEW i \in 1..Len(toc), NEW n \in Nat, toc[i].anchor = <<"tocref", n>>
      PROVE  /\ n < tocIndex' /\ toc[i].doc \in 1..Len(docs')
             /\ \A d \in 1..Len(docs') : Has(d, <<"tocref", n>>)' <=> d = toc[i].doc
  <2>1. /\ n < tocIndex /\ toc[i].doc \in 1..Len(docs)
        /\ \A d \in 1..Len(docs) : Has(d, <<"tocref", n>>) <=> d = toc[i].doc
    BY <1>6 DEF TocInv
  <2>2. ASSUME NEW d \in 1..Len(docs')
        PROVE  Has(d, <<"tocref", n>>)' <=> d \in 1..Len(docs) /\ Has(d, <<"tocref", n>>)
    <3>1. n # tocIndex  BY <1>1, <2>1
    <3>2. \A j \in 1..Len(new[d]) : new[d][j] # <<"tocref", n>>  BY <1>6, <3>1
    <3>3. QED  BY <1>5, <3>2
  <2>3. n < tocIndex'  BY <1>1, <1>4, <2>1
  <2>4. QED  BY <1>2, <2>1, <2>2, <2>3
<1>7. CASE /\ \A d \in 1..Len(docs') : \A j \in 1..Len(new[d]) : new[d][j][1] # "tocref"
           /\ \/ toc' = toc
              \/ NoTitleChapters /\ \E entry \in TocEntries :
                    entry.anchor[1] = "secref" /\ toc' = Append(toc, entry)
  <2>1. \A d \in 1..Len(docs') : \A j \in 1..Len(new[d]), n \in Nat :
            new[d][j] # <<"tocref", n>>
    <3> SUFFICES ASSUME NEW d \in 1..Len(docs'), NEW j \in 1..Len(new[d]), NEW n \in Nat,
                        new[d][j] = <<"tocref", n>>
                 PROVE  FALSE
      OBVIOUS
    <3>1. new[d][j][1] = "tocref"  OBVIOUS
    <3>2. QED  BY <1>7, <3>1
  <2>2. ASSUME NEW d \in 1..Len(docs'), NEW n \in Nat, Has(d, <<"tocref", n>>)'
        PROVE  n < tocIndex'
    <3>1. n < tocIndex  BY <1>3, <1>5, <2>1, <2>2
    <3>2. QED  BY <1>1, <1>4, <3>1
  <2>3. ASSUME NEW i \in 1..Len(toc'), NEW n \in Nat, toc'[i].anchor = <<"tocref", n>>
        PROVE  i \in 1..Len(toc) /\ toc'[i] = toc[i]
    <3>1. CASE toc' = toc  BY <3>1
    <3>2. ASSUME NEW entry \in TocEntries, entry.anchor[1] = "secref", toc' = Append(toc, entry)
          PROVE  i \in 1..Len(toc) /\ toc'[i] = toc[i]
      <4>1. /\ Len(toc') = Len(toc) + 1
            /\ \A k \in 1..Len(toc) : toc'[k] = toc[k]
            /\ toc'[Len(toc) + 1] = entry
        BY <1>1, <3>2, AppendProperties
      <4>2. i = Len(toc) + 1 => toc'[i].anchor[1] = "secref"  BY <3>2, <4>1
      <4>3. i # Len(toc) + 1
        <5>1. toc'[i].anchor[1] = "tocref"  BY <2>3
        <5>2. QED  BY <4>2, <5>1
      <4>4. i \in 1..Len(toc)  BY <1>1, <4>1, <4>3
      <4>5. QED  BY <4>1, <4>4
    <3>3. QED  BY <1>7, <3>1, <3>2
  <2>4. ASSUME NEW i \in 1..Len(toc'), NEW n \in Nat, toc'[i].anchor = <<"tocref", n>>
        PROVE  /\ n < tocIndex' /\ toc'[i].doc \in 1..Len(docs')
               /\ \A d \in 1..Len(docs') : Has(d, <<"tocref", n>>)' <=> d = toc'[i].doc
    <3>1. i \in 1..Len(toc) /\ toc'[i] = toc[i]  BY <2>3, <2>4
    <3>2. toc[i].anchor = <<"tocref", n>>  BY <2>4, <3>1
    <3>3. QED  BY <1>6, <2>1, <3>1, <3>2
  <2>5. ASSUME NEW i \in 1..Len(toc'), toc'[i].anchor[1] = "secref"
        PROVE  NoTitleChapters
    <3>1. CASE NoTitleChapters  BY <3>1
    <3>2. CASE toc' = toc  BY <2>5, <3>2 DEF TocInv
    <3>3. QED  BY <1>7, <3>1, <3>2
  <2>6. NoTitleChapters' <=> NoTitleChapters  BY DEF NoTitleChapters
  <2>7. QED  BY <2>2, <2>4, <2>5, <2>6 DEF TocInv
<1>8. ASSUME NEW entry \in TocEntries,
             toc' = Append(toc, entry),
             entry.anchor = <<"tocref", tocIndex>>, entry.doc \in 1..Len(docs'),
             tocIndex' = tocIndex + 1,
             \A d \in 1..Len(docs') : \A j \in 1..Len(new[d]) :
                new[d][j][1] = "tocref" => d = entry.doc /\ new[d][j] = entry.anchor,
             \E j \in 1..Len(new[entry.doc]) : new[entry.doc][j] = entry.anchor
      PROVE  TocInv'
  <2>1. ASSUME NEW d \in 1..Len(docs'), NEW j \in 1..Len(new[d]), NEW n \in Nat,
               new[d][j] = <<"tocref", n>>
        PROVE  d = entry.doc /\ n = tocIndex
    <3>1. new[d][j][1] = "tocref" /\ new[d][j][2] = n  BY <2>1
    <3>2. d = entry.doc /\ new[d][j] = entry.anchor  BY <1>8, <3>1
    <3>3. entry.anchor[2] = tocIndex  BY <1>8
    <3>4. QED  BY <3>1, <3>2, <3>3
  <2>2. ASSUME NEW d \in 1..Len(docs'), NEW n \in Nat, n = tocIndex
        PROVE  Has(d, <<"tocref", n>>)' <=> d = entry.doc
    <3>1. Has(d, <<"tocref", n>>)' <=> \/ d \in 1..Len(docs) /\ Has(d, <<"tocref", n>>)
                                      \/ \E i \in 1..Len(new[d]) : new[d][i] = <<"tocref", n>>
      <4>1. \A item : Has(d, item)' <=> \/ d \in 1..Len(docs) /\ Has(d, item)
                                     \/ \E i \in 1..Len(new[d]) : new[d][i] = item
        BY <1>1, GrownHas
      <4>2. QED  BY <4>1
    <3>2. ~(d \in 1..Len(docs) /\ Has(d, <<"tocref", n>>))
      <4>1. ~(n < tocIndex)  BY <1>1, <2>2
      <4>2. QED  BY <1>3, <4>1
    <3>3. (\E i \in 1..Len(new[d]) : new[d][i] = <<"tocref", n>>) <=> d = entry.doc
      BY <1>8, <2>1, <2>2
    <3>4. QED  BY <3>1, <3>2, <3>3
  <2>3. ASSUME NEW d \in 1..Len(docs'), NEW n \in Nat, Has(d, <<"tocref", n>>)'
        PROVE  n < tocIndex'
    <3>1. CASE n = tocIndex  BY <1>1, <1>8, <3>1
    <3>2. CASE n # tocIndex
      <4>1. \A j \in 1..Len(new[d]) : new[d][j] # <<"tocref", n>>  BY <2>1, <3>2
      <4>2. n < tocIndex  BY <1>3, <1>5, <2>3, <4>1
      <4>3. QED  BY <1>1, <1>4, <4>2
    <3>3. QED  BY <3>1, <3>2
  <2>4. /\ Len(toc') = Len(toc) + 1
        /\ \A i \in 1..Len(toc) : toc'[i] = toc[i]
        /\ toc'[Len(toc) + 1] = entry
    BY <1>1, <1>8, AppendProperties
  <2>5. ASSUME NEW i \in 1..Len(toc'), NEW n \in Nat, toc'[i].anchor = <<"tocref", n>>
        PROVE  /\ n < tocIndex' /\ toc'[i].doc \in 1..Len(docs')
               /\ \A d \in 1..Len(docs') : Has(d, <<"tocref", n>>)' <=> d = toc'[i].doc
    <3>1. CASE i \in 1..Len(toc)
      <4>1. toc'[i] = toc[i] /\ toc[i].anchor = <<"tocref", n>>  BY <2>4, <2>5, <3>1
      <4>2. QED  BY <1>6, <2>1, <3>1, <4>1
    <3>2. CASE i = Len(toc) + 1
      <4>1. toc'[i] = entry  BY <2>4, <3>2
      <4>2. n = tocIndex
        <5>1. <<"tocref", n>> = <<"tocref", tocIndex>>  BY <1>8, <2>5, <4>1
        <5>2. QED  BY <5>1
      <4>3. n < tocIndex'  BY <1>1, <1>8, <4>2
      <4>4. QED  BY <1>8, <2>2, <4>1, <4>2, <4>3
    <3>3. i \in 1..Len(toc) \/ i = Len(toc) + 1  BY <1>1, <2>4
    <3>4. QED  BY <3>1, <3>2, <3>3
  <2>6. ASSUME NEW i \in 1..Len(toc'), toc'[i].anchor[1] = "secref"
        PROVE  NoTitleChapters
    <3>1. i # Len(toc) + 1
      <4>1. toc'[Len(toc) + 1].anchor[1] = "tocref"  BY <1>8, <2>4
      <4>2. QED  BY <2>6, <4>1
    <3>2. i \in 1..Len(toc)  BY <1>1, <2>4, <3>1
    <3>3. QED  BY <2>4, <2>6, <3>2 DEF TocInv
  <2>7. NoTitleChapters' <=> NoTitleChapters  BY DEF NoTitleChapters
  <2>8. QED  BY <2>3, <2>5, <2>6, <2>7 DEF TocInv
<1>9. QED  BY <1>7, <1>8 DEF AddsToc

LEMMA PagesStep ==
    ASSUME Types, NEW new, Growth(new), AddsPages(new), PageMarkersMatch
    PROVE  PageMarkersMatch'
<1>1. docs \in Seq(Doc) /\ Len(docs) \in Nat /\ docs' \in Seq(Doc) /\ Len(docs') \in Nat
  BY LenProperties DEF Types, Growth
<1> SUFFICES ASSUME NEW d \in 1..Len(docs')
             PROVE  LET items == docs'[d].items
                        Ends == {i \in 1..Len(items) : items[i][1] = "page"}
                    IN  /\ \A i \in Ends : items[i][2] \in 0..(docs'[d].pages - 1)
                        /\ \A m \in 0..(docs'[d].pages - 1) :
                            \E i \in 1..Len(items) : items[i] = <<"page", m>>
                        /\ \A i, j \in Ends : i < j => items[i][2] < items[j][2]
  BY DEF PageMarkersMatch, Has
<1> DEFINE items == docs'[d].items
           n == Len(Old(d))
           p == OldPages(d)
           q == docs'[d].pages
<1>2. /\ Len(items) = n + Len(new[d]) /\ n \in Nat /\ Len(new[d]) \in Nat
      /\ \A i \in 1..n : items[i] = Old(d)[i] /\ i \in 1..Len(items)
      /\ \A i \in 1..Len(new[d]) : items[n + i] = new[d][i] /\ n + i \in 1..Len(items)
      /\ \A i \in 1..Len(items) : \/ i \in 1..n /\ items[i] = Old(d)[i]
                                  \/ i - n \in 1..Len(new[d]) /\ items[i] = new[d][i - n]
  BY <1>1, GrownItems
<1>3. p \in Int /\ q \in Int /\ (n > 0 => p <= q)
  <2>1. docs'[d] \in Doc  BY <1>1, ElementOfSeq
  <2>2. q \in Int  BY <2>1 DEF Doc, NoPages
  <2>3. CASE d <= Len(docs)
    <3>1. docs[d] \in Doc  BY <1>1, <2>3, ElementOfSeq
    <3>2. p = docs[d].pages  BY <2>3 DEF OldPages
    <3>3. docs[d].pages <= docs'[d].pages  BY <2>3 DEF AddsPages
    <3>4. QED  BY <2>2, <3>1, <3>2, <3>3 DEF Doc, NoPages
  <2>4. CASE ~(d <= Len(docs))
    <3>1. p = 0  BY <2>4 DEF OldPages
    <3>2. n = 0  BY <2>4, EmptySeq DEF Old
    <3>3. QED  BY <2>2, <3>1, <3>2
  <2>5. QED  BY <2>3, <2>4
(* The page ends that were there, and those that are new. *)
<1>4. /\ \A i \in 1..n : IsPage(Old(d)[i]) => Old(d)[i][2] \in 0..(p - 1)
      /\ \A m \in 0..(p - 1) : \E i \in 1..n : Old(d)[i] = <<"page", m>>
      /\ \A i, j \in 1..n : /\ i < j /\ IsPage(Old(d)[i]) /\ IsPage(Old(d)[j])
                            => Old(d)[i][2] < Old(d)[j][2]
  <2>1. CASE d <= Len(docs)
    <3>1. d \in 1..Len(docs) /\ Old(d) = docs[d].items /\ p = docs[d].pages
      BY <1>1, <2>1 DEF Old, OldPages
    <3>2. QED  BY <3>1 DEF PageMarkersMatch, Has, IsPage
  <2>2. CASE ~(d <= Len(docs))
    <3>1. Old(d) = <<>> /\ n = 0 /\ p = 0  BY <2>2, EmptySeq DEF Old, OldPages
    <3>2. QED  BY <3>1
  <2>3. QED  BY <2>1, <2>2
<1>5. /\ \A i \in 1..Len(new[d]) : IsPage(new[d][i]) => new[d][i][2] \in p..(q - 1)
      /\ \A i \in 1..Len(new[d]) : new[d][i][2] \in Nat
      /\ \A m \in p..(q - 1) : \E i \in 1..Len(new[d]) : new[d][i] = <<"page", m>>
      /\ \A i, j \in 1..Len(new[d]) : /\ i < j /\ IsPage(new[d][i]) /\ IsPage(new[d][j])
                                      => new[d][i][2] < new[d][j][2]
  <2>1. new[d] \in Seq(Item)  BY DEF Growth
  <2>2. \A i \in 1..Len(new[d]) : new[d][i] \in Item  BY <2>1, ElementOfSeq
  <2>3. \A i \in 1..Len(new[d]) : new[d][i][2] \in Nat  BY <2>2 DEF Item
  <2>4. QED  BY <2>3 DEF AddsPages
<1> HIDE DEF items, n, p, q
<1>6. ASSUME NEW i \in 1..Len(items), IsPage(items[i])
      PROVE  items[i][2] \in 0..(q - 1)
  <2>1. CASE i \in 1..n /\ items[i] = Old(d)[i]
    <3>1. items[i][2] \in 0..(p - 1)  BY <1>4, <1>6, <2>1
    <3>2. QED  BY <1>2, <1>3, <2>1, <3>1
  <2>2. CASE i - n \in 1..Len(new[d]) /\ items[i] = new[d][i - n]
    <3>1. items[i][2] \in p..(q - 1) /\ items[i][2] \in Nat  BY <1>5, <1>6, <2>2
    <3>2. QED  BY <1>3, <3>1
  <2>3. QED  BY <1>2, <2>1, <2>2
<1>7. ASSUME NEW m \in 0..(q - 1)
      PROVE  \E i \in 1..Len(items) : items[i] = <<"page", m>>
  <2>1. CASE m < p
    <3>1. m \in 0..(p - 1)  BY <1>3, <2>1
    <3>2. PICK i \in 1..n : Old(d)[i] = <<"page", m>>  BY <1>4, <3>1
    <3>3. QED  BY <1>2, <3>2
  <2>2. CASE ~(m < p)
    <3>1. m \in p..(q - 1)  BY <1>3, <2>2
    <3>2. PICK i \in 1..Len(new[d]) : new[d][i] = <<"page", m>>  BY <1>5, <3>1
    <3>3. QED  BY <1>2, <3>2
  <2>3. QED  BY <2>1, <2>2
<1>8. ASSUME NEW i \in 1..Len(items), NEW j \in 1..Len(items),
             i < j, IsPage(items[i]), IsPage(items[j])
      PROVE  items[i][2] < items[j][2]
  <2>1. CASE i \in 1..n /\ items[i] = Old(d)[i]
    <3>1. items[i][2] \in 0..(p - 1)  BY <1>4, <1>8, <2>1
    <3>2. CASE j \in 1..n /\ items[j] = Old(d)[j]  BY <1>4, <1>8, <2>1, <3>2
    <3>3. CASE j - n \in 1..Len(new[d]) /\ items[j] = new[d][j - n]
      <4>1. items[j][2] \in p..(q - 1)  BY <1>5, <1>8, <3>3
      <4>2. QED  BY SMTT(40), <1>3, <3>1, <4>1
    <3>4. QED  BY <1>2, <3>2, <3>3
  <2>2. CASE i - n \in 1..Len(new[d]) /\ items[i] = new[d][i - n]
    <3>1. ~(j \in 1..n)  BY <1>2, <1>8, <2>2
    <3>2. j - n \in 1..Len(new[d]) /\ items[j] = new[d][j - n]  BY <1>2, <3>1
    <3>3. i - n < j - n  BY <1>2, <1>8
    <3>4. QED  BY <1>5, <1>8, <2>2, <3>2, <3>3
  <2>3. QED  BY <1>2, <2>1, <2>2
<1>9. QED  BY <1>6, <1>7, <1>8 DEF items, q, IsPage

LEMMA FilesStep ==
    ASSUME Types, NEW new, Growth(new), AddsFile, FilesInOrder
    PROVE  FilesInOrder'
<1>1. /\ Len(docs) \in Nat /\ Len(docs') \in Nat /\ Len(docs') >= Len(docs)
      /\ files \in Seq(Nat) /\ Len(files) \in Nat
  BY LenProperties DEF Types, Growth
<1>2. CASE files' = files  BY <1>1, <1>2 DEF FilesInOrder
<1>3. ASSUME files' = Append(files, Len(docs')), Len(docs') > 0,
             \A i \in 1..Len(files) : files[i] < Len(docs')
      PROVE  FilesInOrder'
  <2>1. /\ Len(files') = Len(files) + 1
        /\ \A i \in 1..Len(files) : files'[i] = files[i]
        /\ files'[Len(files) + 1] = Len(docs')
    BY <1>1, <1>3, AppendProperties
  <2>2. \A i \in 1..Len(files') : i \in 1..Len(files) \/ i = Len(files) + 1  BY <1>1, <2>1
  <2>3. \A i \in 1..Len(files') : files'[i] \in 1..Len(docs')
    BY <1>1, <1>3, <2>1, <2>2 DEF FilesInOrder
  <2>4. \A i, j \in 1..Len(files') : i < j => files'[i] < files'[j]
    BY <1>1, <1>3, <2>1, <2>2 DEF FilesInOrder
  <2>5. QED  BY <2>3, <2>4 DEF FilesInOrder
<1>4. CASE files' = Append(files, Len(docs')) /\ Len(docs') = Len(docs) + 1
  <2>1. \A i \in 1..Len(files) : files[i] < Len(docs')  BY <1>1, <1>4 DEF FilesInOrder
  <2>2. QED  BY <1>1, <1>3, <1>4, <2>1
<1>5. CASE files = <<>> /\ files' = Append(files, Len(docs')) /\ Len(docs') > 0
  <2>1. Len(files) = 0  BY <1>5, EmptySeq
  <2>2. QED  BY <1>3, <1>5, <2>1
<1>6. QED  BY <1>2, <1>4, <1>5 DEF AddsFile

-----------------------------------------------------------------------------
(* The parts give the properties. *)
LEMMA OrderedText ==
    ASSUME Types, TextInOrder, FilesInOrder
    PROVE  ReadingOrder
<1> SUFFICES ASSUME NEW p \in Places, NEW q \in Places,
                    At(p)[1] = "text", At(q)[1] = "text", Before(p, q)
             PROVE  At(p)[2] < At(q)[2]
  BY DEF ReadingOrder
<1>1. /\ p[1] \in 1..Len(files) /\ p[2] \in 1..Len(docs[files[p[1]]].items)
      /\ q[1] \in 1..Len(files) /\ q[2] \in 1..Len(docs[files[q[1]]].items)
  BY DEF Places
<1>2. Len(files) \in Nat /\ Len(docs) \in Nat  BY LenProperties DEF Types
<1>3. files[p[1]] \in 1..Len(docs) /\ files[q[1]] \in 1..Len(docs)
  BY <1>1 DEF FilesInOrder
<1>4. Precedes(files[p[1]], p[2], files[q[1]], q[2])
  <2>1. CASE p[1] < q[1]  BY <1>1, <2>1 DEF FilesInOrder, Precedes
  <2>2. CASE p[1] = q[1] /\ p[2] < q[2]  BY <2>2 DEF Precedes
  <2>3. QED  BY <2>1, <2>2 DEF Before
<1>5. QED  BY <1>1, <1>3, <1>4 DEF TextInOrder, At, IsText

LEMMA AnchoredEntries ==
    ASSUME Types, TocInv
    PROVE  TocRefsResolve
<1> SUFFICES ASSUME NEW i \in 1..Len(toc), ~(NoTitleChapters /\ toc[i].anchor[1] = "secref")
             PROVE  {d \in 1..Len(docs) : Has(d, toc[i].anchor)} = {toc[i].doc}
  BY DEF TocRefsResolve
<1>1. toc[i] \in TocEntries /\ toc[i].anchor[1] # "secref"  BY ElementOfSeq DEF Types, TocInv
<1>2. toc[i].anchor[2] \in Nat /\ toc[i].anchor = <<"tocref", toc[i].anchor[2]>>
  BY <1>1 DEF TocEntries
<1>3. PICK n \in Nat : toc[i].anchor = <<"tocref", n>>  BY <1>2
<1>4. /\ toc[i].doc \in 1..Len(docs)
      /\ \A d \in 1..Len(docs) : Has(d, <<"tocref", n>>) <=> d = toc[i].doc
  BY <1>3 DEF TocInv
<1>5. QED  BY <1>3, <1>4

-----------------------------------------------------------------------------
(* Writing. *)
LEMMA Associates == \A s, t, u \in Seq(Item) : (s \o t) \o u = s \o (t \o u)
BY SMTT(40), ConcatAssociative

LEMMA FileNames ==
    ASSUME Types
    PROVE  Findex \in Nat /\ FileName \in {"annotation", "index", "notes"} \X Nat
<1>1. Len(docs) \in Nat  BY LenProperties DEF Types
<1>2. IsFiniteSet(1..Len(docs))  BY <1>1, FS_Interval
<1>3. IsFiniteSet({d \in 1..Len(docs) : docs[d].name[1] = "index"})  BY <1>2, FS_Subset
<1>4. Findex \in Nat  BY <1>3, FS_CardinalityType DEF Findex
<1>5. QED  BY <1>4 DEF FileName

LEMMA OpenedDocs ==
    ASSUME Types, NEW open \in BOOLEAN
    PROVE  /\ Opened(open) \in Seq(Doc)
           /\ Len(Opened(open)) = IF open THEN Len(docs) + 1 ELSE Len(docs)
           /\ \A d \in 1..Len(docs) : Opened(open)[d] = docs[d]
           /\ open => Opened(open)[Len(docs) + 1] = NewDoc(FileName, 0)
<1>1. docs \in Seq(Doc) /\ Len(docs) \in Nat  BY LenProperties DEF Types
<1>2. NewDoc(FileName, 0) \in Doc  BY FileNames, EmptySeq DEF NewDoc, Doc
<1>3. QED  BY <1>1, <1>2, AppendProperties DEF Opened

(* What a handler has written: items and page ends in the current file.    *)
Wrote(open, k) ==
    /\ docs' \in Seq(Doc) /\ Len(docs') = (IF open THEN Len(docs) + 1 ELSE Len(docs))
    /\ cur' = Len(docs')
    /\ \A d \in 1..Len(docs) : docs'[d].name = docs[d].name
    /\ \A d \in 1..Len(docs') : docs'[d].pages = IF d = cur' THEN OldPages(d) + k ELSE OldPages(d)

WrittenItems(items, k) ==
    [d \in 1..Len(docs') |->
        IF d = cur' THEN items \o Markers(OldPages(d), k) ELSE <<>>]

LEMMA PageEnds ==
    ASSUME NEW first \in Nat \union {NoPages}, NEW k \in Nat, k > 0 => first # NoPages
    PROVE  /\ Markers(first, k) \in Seq(Item) /\ Len(Markers(first, k)) = k
           /\ \A i \in 1..k : Markers(first, k)[i] = <<"page", first + i - 1>>
<1>1. \A i \in 1..k : <<"page", first + i - 1>> \in Item
  <2> SUFFICES ASSUME NEW i \in 1..k PROVE first + i - 1 \in Nat
    BY DEF Item
  <2>1. first \in Nat  BY DEF NoPages
  <2>2. QED  BY <2>1
<1>2. Markers(first, k) \in [1..k -> Item]  BY <1>1 DEF Markers
<1>3. Markers(first, k) \in Seq(Item)  BY <1>2, SeqDef
<1>4. Len(Markers(first, k)) = k  BY <1>2, <1>3, LenProperties
<1>5. QED  BY <1>3, <1>4 DEF Markers

LEMMA WriteGrows ==
    ASSUME Types, NEW open \in BOOLEAN, NEW items \in Seq(Item), NEW k \in Nat,
           Write(open, items, k), cur' = Current(open), Target(open) = Current(open),
           ~open => docs # <<>>
    PROVE  /\ Wrote(open, k) /\ cur' \in 1..Len(docs')
           /\ Growth(WrittenItems(items, k))
           /\ Markers(OldPages(cur'), k) \in Seq(Item) /\ Len(Markers(OldPages(cur'), k)) = k
           /\ \A i \in 1..k : Markers(OldPages(cur'), k)[i] = <<"page", OldPages(cur') + i - 1>>
           /\ OldPages(cur') \in Nat \union {NoPages}
           /\ k > 0 => OldPages(cur') # NoPages
<1> DEFINE mid == Opened(open)
           c == Current(open)
           first == mid[c].pages
           added == items \o Markers(first, k)
           new == WrittenItems(items, k)
<1>1. /\ docs \in Seq(Doc) /\ Len(docs) \in Nat /\ cur = Len(docs)
      /\ mid \in Seq(Doc) /\ Len(mid) = IF open THEN Len(docs) + 1 ELSE Len(docs)
      /\ \A d \in 1..Len(docs) : mid[d] = docs[d]
      /\ open => mid[Len(docs) + 1] = NewDoc(FileName, 0)
  BY OpenedDocs, LenProperties DEF Types
<1>2. c = Len(mid) /\ c \in 1..Len(mid)
  <2>1. CASE open  BY <1>1, <2>1 DEF Current
  <2>2. CASE ~open
    <3>1. Len(docs) > 0  BY <1>1, <2>2, EmptySeq
    <3>2. QED  BY <1>1, <2>2, <3>1 DEF Current
  <2>3. QED  BY <2>1, <2>2
<1>3. mid[c] \in Doc  BY <1>1, <1>2, ElementOfSeq
<1>4. first \in Nat \union {NoPages} /\ (k > 0 => first # NoPages) /\ mid[c].items \in Seq(Item)
  BY <1>3 DEF Doc, Write
<1>5. /\ Markers(first, k) \in Seq(Item) /\ Len(Markers(first, k)) = k
      /\ \A i \in 1..k : Markers(first, k)[i] = <<"page", first + i - 1>>
  BY <1>4, PageEnds
<1>6. added \in Seq(Item)  BY <1>5, ConcatProperties
<1> DEFINE g == [mid[c] EXCEPT !.items = mid[c].items \o added, !.pages = first + k]
<1>7. /\ g \in Doc /\ g.items = mid[c].items \o added /\ g.pages = first + k
      /\ g.name = mid[c].name
  <2>1. mid[c].items \o added \in Seq(Item)  BY <1>4, <1>6, ConcatProperties
  <2>2. first + k \in Nat \union {NoPages}  BY <1>4 DEF NoPages
  <2>3. QED  BY <1>3, <2>1, <2>2 DEF Doc
<1>8. docs' = [mid EXCEPT ![c] = g]
  <2>1. (mid[c].items \o items) \o Markers(first, k) = mid[c].items \o added
    <3>1. mid[c].items \in Seq(Item) /\ items \in Seq(Item) /\ Markers(first, k) \in Seq(Item)
      BY <1>4, <1>5
    <3>2. QED  BY <3>1, Associates, Zenon
  <2>2. docs' = [mid EXCEPT ![c].items = @ \o items \o Markers(first, k), ![c].pages = @ + k]
    BY DEF Write
  <2>3. docs' = [mid EXCEPT ![c] = [mid[c] EXCEPT !.items = (mid[c].items \o items) \o Markers(first, k),
                                                  !.pages = first + k]]
    BY <1>1, <1>2, <1>3, <2>2 DEF Doc
  <2>4. QED  BY <2>1, <2>3
<1> HIDE DEF g
<1>9. docs' \in Seq(Doc) /\ Len(docs') = Len(mid)
  BY <1>1, <1>2, <1>7, <1>8, ExceptSeq
<1>10. \A d \in 1..Len(mid) : docs'[d] = IF d = c THEN g ELSE mid[d]
  BY <1>1, <1>2, <1>8
<1> HIDE DEF mid, c, first, added
<1>11. OldPages(c) = first
  <2>1. CASE open
    <3>1. c = Len(docs) + 1  BY <1>1, <1>2, <2>1
    <3>2. first = 0  BY <1>1, <2>1, <3>1 DEF NewDoc, first
    <3>3. ~(c <= Len(docs))  BY <1>1, <3>1
    <3>4. QED  BY <3>2, <3>3 DEF OldPages
  <2>2. CASE ~open  BY <1>1, <1>2, <2>2 DEF OldPages, first
  <2>3. QED  BY <2>1, <2>2
<1>12. \A d \in 1..Len(mid) : d # c => d \in 1..Len(docs)
  BY <1>1, <1>2
<1>13. mid[c].items = Old(c)
  <2>1. CASE open
    <3>1. c = Len(docs) + 1  BY <1>1, <1>2, <2>1
    <3>2. mid[c].items = <<>>  BY <1>1, <2>1, <3>1 DEF NewDoc
    <3>3. ~(c <= Len(docs))  BY <1>1, <3>1
    <3>4. QED  BY <3>2, <3>3 DEF Old
  <2>2. CASE ~open  BY <1>1, <1>2, <2>2 DEF Old
  <2>3. QED  BY <2>1, <2>2
<1>14. Wrote(open, k)
  <2>1. ASSUME NEW d \in 1..Len(docs')
        PROVE  docs'[d].pages = IF d = cur' THEN OldPages(d) + k ELSE OldPages(d)
    <3>1. CASE d = c  BY <1>7, <1>9, <1>10, <1>11, <3>1 DEF c
    <3>2. CASE d # c
      <4>1. d \in 1..Len(docs) /\ docs'[d] = docs[d]
        BY <1>1, <1>9, <1>10, <1>12, <3>2
      <4>2. OldPages(d) = docs[d].pages  BY <1>1, <4>1 DEF OldPages
      <4>3. QED  BY <3>2, <4>1, <4>2 DEF c
    <3>3. QED  BY <3>1, <3>2
  <2>2. ASSUME NEW d \in 1..Len(docs)
        PROVE  docs'[d].name = docs[d].name
    <3>1. d \in 1..Len(mid) /\ mid[d] = docs[d]  BY <1>1
    <3>2. QED  BY <1>7, <1>10, <3>1
  <2>3. cur' = Len(docs')  BY <1>2, <1>9 DEF c
  <2>4. QED  BY <1>1, <1>9, <2>1, <2>2, <2>3 DEF Wrote
<1>15. Growth(new)
  <2>1. ASSUME NEW d \in 1..Len(docs')
        PROVE  new[d] \in Seq(Item) /\ docs'[d].items = Old(d) \o new[d]
    <3>1. CASE d = c
      <4>1. new[d] = added  BY <1>11, <3>1 DEF WrittenItems, added, c
      <4>2. docs'[d].items = Old(d) \o added  BY <1>7, <1>9, <1>10, <1>13, <3>1
      <4>3. QED  BY <1>6, <4>1, <4>2
    <3>2. CASE d # c
      <4>1. new[d] = <<>>  BY <3>2 DEF WrittenItems, c
      <4>2. d \in 1..Len(docs) /\ docs'[d] = docs[d]  BY <1>1, <1>9, <1>10, <1>12, <3>2
      <4>3. Old(d) = docs[d].items  BY <1>1, <4>2 DEF Old
      <4>4. docs[d].items \in Seq(Item)
        <5>1. docs[d] \in Doc  BY <1>1, <4>2, ElementOfSeq
        <5>2. QED  BY <5>1 DEF Doc
      <4>5. docs[d].items \o <<>> = docs[d].items  BY <4>4, ConcatEmptySeq
      <4>6. QED  BY <4>1, <4>2, <4>3, <4>5, EmptySeq
    <3>3. QED  BY <3>1, <3>2
  <2>2. new \in [1..Len(docs') -> Seq(Item)]
    <3>1. new = [d \in 1..Len(docs') |-> new[d]]  BY DEF WrittenItems
    <3>2. QED  BY <2>1, <3>1
  <2>3. Len(docs') \in {Len(docs), Len(docs) + 1}  BY <1>1, <1>9
  <2>4. QED  BY <1>14, <2>1, <2>2, <2>3 DEF Growth, Wrote
<1>16. cur' = c  BY DEF c
<1>17. cur' \in 1..Len(docs')  BY <1>2, <1>9, <1>16
<1>18. QED  BY <1>4, <1>5, <1>11, <1>14, <1>15, <1>16, <1>17

(* All that a step does to the documents and to the tables that name them. *)
Adds ==
    /\ AddsFile
    /\ \E new : /\ Growth(new) /\ AddsText(new) /\ AddsLink(new)
                /\ AddsToc(new) /\ AddsPages(new) /\ AddsVignette(new)

LEMMA WithinRun ==
    ASSUME NEW a \in Int, NEW k \in Nat, NEW l \in 1..k
    PROVE  a + l - 1 \in a..((a + k) - 1)
OBVIOUS

LEMMA HeaderIsNat ==
    ASSUME Types
    PROVE  Header \in Nat
<1>1. IsFiniteSet(1..Len(stack))  BY FS_Interval, LenProperties DEF Types
<1>2. IsFiniteSet({k \in 1..Len(stack) : stack[k].tag = "section"})  BY <1>1, FS_Subset
<1>3. QED  BY <1>2, FS_CardinalityType DEF Header

(* A handler that writes an element, with an anchor or without. *)
LEMMA WriteAdds ==
    ASSUME Types, NEW open \in BOOLEAN, NEW items \in Seq(Item), NEW k \in Nat,
           Write(open, items, k), cur' = Current(open), Target(open) = Current(open),
           ~open => docs # <<>>, Locate(open),
           files' = IF open THEN Append(files, Len(docs) + 1) ELSE files,
           NEW kind \in {"text", "id"}, NEW last \in 1..Len(items),
           items[last] = <<kind, Number>>,
           \A j \in 1..Len(items) : j # last => items[j] = <<"tocref", tocIndex>>,
           \/ Len(items) = 1 /\ toc' = toc /\ tocIndex' \in {tocIndex, tocIndex + 1}
           \/ /\ Len(items) = 2 /\ tocIndex' = tocIndex + 1
              /\ toc' = Append(toc, TocEntry(<<"tocref", tocIndex>>, cur', Number))
    PROVE  Adds
<1> DEFINE new == WrittenItems(items, k)
           p == OldPages(cur')
           ends == Markers(p, k)
<1>1. /\ Wrote(open, k) /\ cur' \in 1..Len(docs') /\ Growth(new)
      /\ ends \in Seq(Item) /\ Len(ends) = k
      /\ \A i \in 1..k : ends[i] = <<"page", p + i - 1>>
      /\ p \in Nat \union {NoPages} /\ (k > 0 => p # NoPages)
  BY WriteGrows
<1>2. /\ Len(docs) \in Nat /\ Len(docs') \in Nat /\ cur' = Len(docs')
      /\ links \in Seq(Nat) /\ Len(links) \in Nat /\ tocIndex \in Nat
      /\ Len(docs') = IF open THEN Len(docs) + 1 ELSE Len(docs)
  BY <1>1, LenProperties DEF Types, Wrote
<1>3. \A d \in 1..Len(docs') : new[d] = IF d = cur' THEN items \o ends ELSE <<>>
  BY DEF WrittenItems
<1>4. Len(items) \in Nat  BY LenProperties
<1>5. /\ Len(new[cur']) = Len(items) + k
      /\ \A j \in 1..Len(items) : new[cur'][j] = items[j]
      /\ \A j \in 1..k : new[cur'][Len(items) + j] = <<"page", p + j - 1>>
      /\ \A j \in 1..Len(new[cur']) :
            j \in 1..Len(items) \/ (j - Len(items) \in 1..k /\ new[cur'][j] = <<"page", p + (j - Len(items)) - 1>>)
  <2>1. new[cur'] = items \o ends  BY <1>1, <1>3
  <2> DEFINE w == items \o ends
  <2>2. /\ Len(w) = Len(items) + k
        /\ \A j \in 1..(Len(items) + k) :
            w[j] = IF j <= Len(items) THEN items[j] ELSE ends[j - Len(items)]
    <3>1. ends \in Seq(Item)  BY <1>1
    <3> HIDE DEF ends
    <3>2. /\ Len(w) = Len(items) + Len(ends)
          /\ \A j \in 1..(Len(items) + Len(ends)) :
                w[j] = IF j <= Len(items) THEN items[j] ELSE ends[j - Len(items)]
      BY <3>1, ConcatProperties
    <3>3. Len(ends) = k  BY <1>1 DEF ends
    <3>4. QED  BY <3>2, <3>3
  <2> HIDE DEF w
  <2>3. \A j \in 1..Len(items) : w[j] = items[j]  BY SMTT(40), <1>4, <2>2
  <2>4. \A j \in 1..Len(w) :
          j \in 1..Len(items) \/ (j - Len(items) \in 1..k /\ w[j] = <<"page", p + (j - Len(items)) - 1>>)
    <3> SUFFICES ASSUME NEW j \in 1..Len(w), j \notin 1..Len(items)
                 PROVE  j - Len(items) \in 1..k /\ w[j] = <<"page", p + (j - Len(items)) - 1>>
      OBVIOUS
    <3>1. j - Len(items) \in 1..k /\ ~(j <= Len(items))  BY <1>4, <2>2
    <3>2. w[j] = ends[j - Len(items)]  BY <2>2, <3>1
    <3>3. QED  BY <1>1, <3>1, <3>2
  <2>5. \A j \in 1..k : w[Len(items) + j] = <<"page", p + j - 1>>
    <3> SUFFICES ASSUME NEW j \in 1..k PROVE w[Len(items) + j] = <<"page", p + j - 1>>
      OBVIOUS
    <3>1. Len(items) + j \in 1..(Len(items) + k) /\ ~(Len(items) + j <= Len(items))
          /\ Len(items) + j - Len(items) = j
      BY <1>4
    <3>2. w[Len(items) + j] = ends[j]  BY <2>2, <3>1
    <3>3. QED  BY <1>1, <3>2
  <2>6. QED  BY <2>1, <2>2, <2>3, <2>4, <2>5 DEF w
<1>6. \A d \in 1..Len(docs') : d # cur' => Len(new[d]) = 0
  BY <1>3, EmptySeq
<1> HIDE DEF new, ends
(* Every new item is in the current file and is one of these. *)
<1>7. ASSUME NEW d \in 1..Len(docs'), NEW j \in 1..Len(new[d])
      PROVE  /\ d = cur'
             /\ \/ /\ j = last /\ new[d][j] = <<kind, Number>>
                   /\ new[d][j][1] = kind /\ new[d][j][2] = Number
                \/ /\ j \in 1..Len(items) /\ j # last /\ new[d][j] = <<"tocref", tocIndex>>
                   /\ new[d][j][1] = "tocref"
                \/ /\ j - Len(items) \in 1..k
                   /\ new[d][j] = <<"page", p + (j - Len(items)) - 1>>
                   /\ new[d][j][1] = "page" /\ new[d][j][2] = p + (j - Len(items)) - 1
  <2>1. d = cur'  BY <1>6
  <2>2. \/ j = last /\ new[d][j] = <<kind, Number>>
        \/ j \in 1..Len(items) /\ j # last /\ new[d][j] = <<"tocref", tocIndex>>
        \/ /\ j - Len(items) \in 1..k
           /\ new[d][j] = <<"page", p + (j - Len(items)) - 1>>
    BY <1>5, <2>1
  <2>3. CASE j = last /\ new[d][j] = <<kind, Number>>
    <3>1. new[d][j][1] = kind /\ new[d][j][2] = Number  BY <2>3
    <3>2. QED  BY <2>1, <2>3, <3>1
  <2>4. CASE j \in 1..Len(items) /\ j # last /\ new[d][j] = <<"tocref", tocIndex>>
    <3>1. new[d][j][1] = "tocref"  BY <2>4
    <3>2. QED  BY <2>1, <2>4, <3>1
  <2>5. CASE /\ j - Len(items) \in 1..k
             /\ new[d][j] = <<"page", p + (j - Len(items)) - 1>>
    <3>1. new[d][j][1] = "page" /\ new[d][j][2] = p + (j - Len(items)) - 1  BY <2>5
    <3>2. QED  BY <2>1, <2>5, <3>1
  <2>6. QED  BY <2>2, <2>3, <2>4, <2>5
<1>8. Number = Len(links) + 1 /\ Number \in Nat  BY <1>2 DEF Number
<1>9. links' = Append(links, Len(docs')) /\ Len(links') = Len(links) + 1
  <2>1. Current(open) = Len(docs')  BY <1>2
  <2>2. links' = Append(links, Len(docs'))  BY <2>1 DEF Locate
  <2>3. QED  BY <1>2, <2>2, AppendProperties
<1>10. AddsText(new)
  <2>1. ASSUME NEW d \in 1..Len(docs'), NEW j \in 1..Len(new[d]), IsText(new[d][j])
        PROVE  j = last /\ d = Len(docs') /\ new[d][j][2] = Len(links) + 1
    <3>1. new[d][j][1] = "text"  BY <2>1 DEF IsText
    <3>2. d = cur' /\ j = last /\ new[d][j][2] = Number  BY <1>7, <3>1
    <3>3. QED  BY <1>2, <1>8, <3>2
  <2>2. QED  BY <1>9, <2>1 DEF AddsText
<1>11. AddsLink(new)
  <2>1. new[cur'][last] = <<kind, Number>> /\ last \in 1..Len(new[cur'])
    <3>1. last \in 1..Len(new[cur'])  BY <1>4, <1>5
    <3>2. QED  BY <1>5, <3>1
  <2>2. new[Len(docs')][last] = <<kind, Len(links) + 1>> /\ last \in 1..Len(new[Len(docs')])
    BY <1>2, <1>8, <2>1
  <2>3. kind \in {"text", "section", "id"}  OBVIOUS
  <2>4. Len(docs') > 0  BY <1>1, <1>2
  <2>5. QED  BY <1>9, <2>2, <2>3, <2>4 DEF AddsLink
<1>12. AddsToc(new)
  <2>1. CASE Len(items) = 1 /\ toc' = toc /\ tocIndex' \in {tocIndex, tocIndex + 1}
    <3>1. \A j \in 1..Len(items) : j = last  BY <2>1
    <3>2. ASSUME NEW d \in 1..Len(docs'), NEW j \in 1..Len(new[d])
          PROVE  new[d][j][1] # "tocref"
      BY <1>7, <3>1
    <3>3. QED  BY <2>1, <3>2 DEF AddsToc
  <2>2. CASE /\ Len(items) = 2 /\ tocIndex' = tocIndex + 1
             /\ toc' = Append(toc, TocEntry(<<"tocref", tocIndex>>, cur', Number))
    <3> DEFINE entry == TocEntry(<<"tocref", tocIndex>>, cur', Number)
    <3>1. /\ entry \in TocEntries /\ entry.anchor = <<"tocref", tocIndex>>
          /\ entry.doc = cur'
      BY <1>1, <1>2, <1>8, HeaderIsNat DEF TocEntry, TocEntries
    <3>2. ASSUME NEW d \in 1..Len(docs'), NEW j \in 1..Len(new[d]), new[d][j][1] = "tocref"
          PROVE  d = entry.doc /\ new[d][j] = entry.anchor
      <4>1. d = cur' /\ new[d][j] = <<"tocref", tocIndex>>  BY <1>7, <3>2
      <4>2. QED  BY <3>1, <4>1
    <3>3. \E j \in 1..Len(new[entry.doc]) : new[entry.doc][j] = entry.anchor
      <4>1. PICK j \in 1..Len(items) : j # last
        <5>1. 1 \in 1..Len(items) /\ 2 \in 1..Len(items) /\ 1 # 2  BY <2>2
        <5>2. QED  BY <5>1
      <4>2. items[j] = <<"tocref", tocIndex>>  BY <4>1
      <4>3. j \in 1..Len(new[cur']) /\ new[cur'][j] = items[j]  BY <1>4, <1>5
      <4>4. QED  BY <3>1, <4>2, <4>3
    <3> HIDE DEF entry
    <3>4. entry.doc \in 1..Len(docs')  BY <1>1, <3>1
    <3>5. toc' = Append(toc, entry)  BY <2>2 DEF entry
    <3>6. QED  BY <2>2, <3>1, <3>2, <3>3, <3>4, <3>5 DEF AddsToc
  <2>3. QED  BY <2>1, <2>2
<1>13. AddsPages(new)
  <2>1. ASSUME NEW d \in 1..Len(docs'), d # cur'
        PROVE  docs'[d].pages = OldPages(d) /\ Len(new[d]) = 0 /\ OldPages(d) \in Int
    <3>1. docs'[d].pages = OldPages(d)  BY <2>1, <1>1 DEF Wrote
    <3>2. docs'[d] \in Doc  BY <1>1, ElementOfSeq DEF Wrote
    <3>3. QED  BY <1>6, <2>1, <3>1, <3>2 DEF Doc, NoPages
  <2>2. docs'[cur'].pages = p + k  BY <1>1 DEF Wrote
  <2>3. \A d \in 1..Len(docs) : d \in 1..Len(docs') /\ docs[d].pages = OldPages(d)
    BY <1>2 DEF OldPages
  <2>4. p \in Int /\ (k > 0 => p \in Nat)  BY <1>1 DEF NoPages
  <2>5. ASSUME NEW d \in 1..Len(docs'), d = cur'
        PROVE  /\ d <= Len(docs) => docs[d].pages <= docs'[d].pages
               /\ \A j \in 1..Len(new[d]) :
                    IsPage(new[d][j]) => new[d][j][2] \in OldPages(d)..(docs'[d].pages - 1)
               /\ \A m \in OldPages(d)..(docs'[d].pages - 1) :
                    \E j \in 1..Len(new[d]) : new[d][j] = <<"page", m>>
               /\ \A i, j \in 1..Len(new[d]) :
                    i < j /\ IsPage(new[d][i]) /\ IsPage(new[d][j]) => new[d][i][2] < new[d][j][2]
    <3>1. OldPages(d) = p /\ docs'[d].pages = p + k  BY <2>2, <2>5
    <3>2. d <= Len(docs) => docs[d].pages <= docs'[d].pages
      BY <2>4, <3>1 DEF OldPages
    <3>3. ASSUME NEW j \in 1..Len(new[d]), IsPage(new[d][j])
          PROVE  /\ j - Len(items) \in 1..k
                 /\ new[d][j][2] = p + (j - Len(items)) - 1
      <4>1. new[d][j][1] = "page"  BY <3>3 DEF IsPage
      <4>2. QED  BY <1>7, <4>1
    <3>4. ASSUME NEW j \in 1..Len(new[d]), IsPage(new[d][j])
          PROVE  new[d][j][2] \in OldPages(d)..(docs'[d].pages - 1)
      <4>1. PICK l \in 1..k : new[d][j][2] = p + l - 1
        BY <3>3, <3>4
      <4> HIDE DEF p
      <4>2. new[d][j][2] \in p..((p + k) - 1)  BY <2>4, <4>1, WithinRun
      <4>3. QED  BY <3>1, <4>2
    <3>5. ASSUME NEW m \in OldPages(d)..(docs'[d].pages - 1)
          PROVE  \E j \in 1..Len(new[d]) : new[d][j] = <<"page", m>>
      <4>1. m - p + 1 \in 1..k /\ p + (m - p + 1) - 1 = m  BY SMTT(40), <2>4, <3>1
      <4>2. new[d][Len(items) + (m - p + 1)] = <<"page", m>>  BY <1>5, <2>5, <4>1
      <4>3. Len(items) + (m - p + 1) \in 1..Len(new[d])  BY SMTT(40), <1>4, <1>5, <2>5, <4>1
      <4>4. QED  BY <4>2, <4>3
    <3>6. ASSUME NEW i \in 1..Len(new[d]), NEW j \in 1..Len(new[d]),
                 i < j, IsPage(new[d][i]), IsPage(new[d][j])
          PROVE  new[d][i][2] < new[d][j][2]
      <4>1. /\ new[d][i][2] = p + (i - Len(items)) - 1
            /\ new[d][j][2] = p + (j - Len(items)) - 1
        BY <3>3, <3>6
      <4>2. i \in Int /\ j \in Int  OBVIOUS
      <4>3. p + (i - Len(items)) - 1 < p + (j - Len(items)) - 1  BY <1>4, <2>4, <3>6, <4>2
      <4>4. QED  BY <4>1, <4>3
    <3>7. QED  BY <3>2, <3>4, <3>5, <3>6
  <2>6. ASSUME NEW d \in 1..Len(docs')
        PROVE  /\ d <= Len(docs) => docs[d].pages <= docs'[d].pages
               /\ \A j \in 1..Len(new[d]) :
                    IsPage(new[d][j]) => new[d][j][2] \in OldPages(d)..(docs'[d].pages - 1)
               /\ \A m \in OldPages(d)..(docs'[d].pages - 1) :
                    \E j \in 1..Len(new[d]) : new[d][j] = <<"page", m>>
               /\ \A i, j \in 1..Len(new[d]) :
                    i < j /\ IsPage(new[d][i]) /\ IsPage(new[d][j]) => new[d][i][2] < new[d][j][2]
    <3>1. CASE d = cur'  BY <2>5, <3>1
    <3>2. CASE d # cur'  BY SMTT(40), <2>1, <3>2 DEF OldPages
    <3>3. QED  BY <3>1, <3>2
  <2>7. QED  BY <2>6 DEF AddsPages
<1>14. AddsFile  BY <1>2 DEF AddsFile
<1>15. AddsVignette(new)
  <2>1. ASSUME NEW d \in 1..Len(docs'), NEW j \in 1..Len(new[d])
        PROVE  new[d][j][1] # "vignette"
    BY <1>7
  <2>2. QED  BY <2>1 DEF AddsVignette
<1>16. QED  BY <1>1, <1>10, <1>11, <1>12, <1>13, <1>14, <1>15 DEF Adds

-----------------------------------------------------------------------------
(* Control. *)
LEMMA Products ==
    ASSUME NEW a \in Nat, NEW b \in Nat, a <= b, NEW m \in Nat
    PROVE  a * m <= b * m /\ (a + 1) * m = a * m + m /\ a * m \in Nat
OBVIOUS

LEMMA OpenFrame ==
    ASSUME CInv, stack # <<>>
    PROVE  /\ Len(stack) \in Nat \ {0} /\ Len(stack) \in 1..Len(stack)
           /\ Top = stack[Len(stack)] /\ Top \in Frames
           /\ cur \in 1..Len(docs) /\ docs[cur] \in Doc /\ docs # <<>>
           /\ Top.tag \in {"body", "annotation"} <=> Len(stack) = 1
           /\ ~Waits(Len(stack)) => Top.inner = cur
           /\ Top.inner \in 1..Len(docs) /\ Top.to \in 1..Len(docs)
<1>1. stack \in Seq(Frames) /\ docs \in Seq(Doc) /\ cur = Len(docs)  BY DEF CInv, Types
<1>2. Len(stack) \in Nat \ {0} /\ Len(docs) \in Nat  BY <1>1, EmptySeq, LenProperties
<1>3. Len(stack) \in 1..Len(stack)  BY <1>2
<1>4. Top = stack[Len(stack)]  BY DEF Top
<1>5. Top \in Frames  BY <1>1, <1>3, <1>4, ElementOfSeq
<1>6. /\ Top.tag \in {"body", "annotation"} <=> Len(stack) = 1
      /\ Top.inner \in 1..Len(docs) /\ Top.to \in 1..Len(docs)
  BY <1>3, <1>4 DEF CInv, Shape
<1>7. cur \in 1..Len(docs)  BY <1>1, <1>2, <1>6
<1>8. docs[cur] \in Doc  BY <1>1, <1>7, ElementOfSeq
<1>9. docs # <<>>  BY <1>7, <1>1, EmptySeq
<1>10. ~Waits(Len(stack)) => Top.inner = cur  BY <1>3, <1>4 DEF CInv, InStep
<1>11. QED  BY <1>2, <1>3, <1>4, <1>5, <1>6, <1>7, <1>8, <1>9, <1>10

(* Under a section there are only sections and the body. *)
LEMMA UnderSections ==
    ASSUME CInv, stack # <<>>, Top.tag \in {"body", "section"}
    PROVE  /\ \A k \in 1..Len(stack) : stack[k].tag \in {"body", "section"}
           /\ phase # "description"
<1>1. /\ Len(stack) \in Nat \ {0} /\ Top = stack[Len(stack)]
      /\ Top.tag \in {"body", "annotation"} <=> Len(stack) = 1
  BY OpenFrame
<1>2. \A k \in 1..Len(stack) : stack[k].tag \in {"body", "section"}
  <2>1. CASE Top.tag = "body"
    <3>0. Len(stack) = 1  BY <1>1, <2>1
    <3>1. \A k \in 1..Len(stack) : k = Len(stack)  BY <3>0
    <3>2. QED  BY <1>1, <2>1, <3>1
  <2>2. CASE Top.tag = "section"
    <3>1. \A j \in 1..(Len(stack) - 1) : stack[j].tag \in {"body", "section"}
      BY <1>1, <2>2 DEF CInv, Shape
    <3>2. \A k \in 1..Len(stack) : k = Len(stack) \/ k \in 1..(Len(stack) - 1)  BY <1>1
    <3>3. QED  BY <1>1, <2>2, <3>1, <3>2
  <2>3. QED  BY <2>1, <2>2
<1>3. phase # "description"
  <2>1. stack[1].tag \in {"body", "section"}  BY <1>1, <1>2
  <2>2. stack[1].tag # "annotation"  BY <2>1
  <2>3. QED  BY <2>2 DEF CInv, Shape
<1>4. QED  BY <1>2, <1>3

(* Whatever is written below the bodies goes where the reader is. *)
LEMMA NotWaiting ==
    ASSUME stack # <<>>, NEW kind \in {"title", "epigraph", "p", "cite", "poem", "subtitle",
                                       "divider", "verse", "author"}, Allows(kind)
    PROVE  ~Waits(Len(stack))
BY DEF Allows, Waits, InText, Top

(* A text is split only within a section of the body. *)
SplitHere == /\ Top.tag = "section" /\ phase # "description" /\ Main /\ MaySplitText(conf)

LEMMA ParagraphSplits ==
    ASSUME Settled, CInv, stack # <<>>, Allows("p"), MaySplit, FileIsFull
    PROVE  SplitHere
<1>1. /\ Len(stack) \in Nat \ {0} /\ Len(stack) \in 1..Len(stack)
      /\ Top = stack[Len(stack)] /\ Top \in Frames
      /\ cur \in 1..Len(docs) /\ docs[cur] \in Doc
      /\ Top.tag \in {"body", "annotation"} <=> Len(stack) = 1
  BY OpenFrame
<1>2. MaySplitText(conf)
  <2>1. conf \in Settings /\ links \in Seq(Nat) /\ Len(links) <= MaxElems  BY DEF CInv, Types
  <2>2. Len(links) \in Nat /\ MaxElems \in Nat /\ MaxMarkers \in Nat  BY <2>1, LenProperties
  <2>3. Len(links) * MaxMarkers <= MaxElems * MaxMarkers /\ Len(links) * MaxMarkers \in Nat
        /\ MaxElems * MaxMarkers \in Nat
    BY <2>1, <2>2, Products
  <2>4. docs[cur].pages <= Len(links) * MaxMarkers  BY <1>1 DEF CInv, PagesCounted
  <2>5. docs[cur].pages \in Int /\ conf.pagesPerFile \in Int /\ docs[cur].pages >= conf.pagesPerFile
    BY <1>1, <2>1 DEF Doc, NoPages, FileIsFull, PagesPerFile
  <2>6. conf.pagesPerFile <= MaxElems * MaxMarkers
    <3> DEFINE a == Len(links) * MaxMarkers
               b == MaxElems * MaxMarkers
    <3> HIDE DEF a, b
    <3>1. a <= b /\ a \in Nat /\ b \in Nat /\ docs[cur].pages <= a  BY <2>3, <2>4 DEF a, b
    <3>2. conf.pagesPerFile <= b  BY <2>5, <3>1
    <3>3. QED  BY <3>2 DEF b
  <2>7. QED  BY <2>6 DEF MaySplitText, MaySplit, ChapterPerFile
<1>3. Top.tag \in {"section", "cite", "epigraph", "annotation"} /\ Top.mode # "tail"
  BY DEF Allows, InText
<1>4. Top.tag # "annotation"
  <2>1. SUFFICES ASSUME Top.tag = "annotation" PROVE FALSE  OBVIOUS
  <2>2. stack[1].tag = "annotation"  BY <1>1, <2>1
  <2>3. docs[cur].pages = NoPages  BY <2>2 DEF CInv, Shape
  <2>4. QED  BY <2>3 DEF FileIsFull
<1>5. Top.tag \notin {"cite", "epigraph"}
  <2>1. SUFFICES ASSUME Top.tag \in {"cite", "epigraph"} PROVE FALSE  OBVIOUS
  <2>2. Top.tag \in Containers  BY <2>1 DEF Containers, Special
  <2>3. specialParagraph  BY <1>1, <1>2, <1>3, <2>2 DEF CInv, Unsplit
  <2>4. QED  BY <2>3 DEF MaySplit
<1>6. Top.tag = "section"  BY <1>3, <1>4, <1>5
<1>7. phase # "description"  BY <1>6, UnderSections
<1>8. QED  BY <1>2, <1>6, <1>7 DEF SplitHere, MaySplit

LEMMA DividerSplits ==
    ASSUME Settled, CInv, stack # <<>>, Allows("divider"), MaySplit
    PROVE  SplitHere
<1>1. /\ Len(stack) \in Nat \ {0} /\ Len(stack) \in 1..Len(stack)
      /\ Top = stack[Len(stack)] /\ Top \in Frames
      /\ Top.tag \in {"body", "annotation"} <=> Len(stack) = 1
  BY OpenFrame
<1>2. conf \in Settings /\ "divider" \in conf.kinds  BY DEF CInv, Types, Allows
<1>3. MaySplitText(conf)  BY <1>2 DEF MaySplitText, MaySplit, ChapterPerFile
<1>4. Top.tag \in {"section", "cite", "poem", "annotation"}
  BY DEF Allows, InText
<1>5. Top.tag # "annotation"
  <2>1. SUFFICES ASSUME Top.tag = "annotation" PROVE FALSE  OBVIOUS
  <2>2. stack[1].tag = "annotation"  BY <1>1, <2>1
  <2>3. AnnotationPage  BY <2>2 DEF CInv, Shape
  <2>4. QED  BY <1>2, <1>3, <2>3 DEF Settled, AnnotationPage
<1>6. Top.tag \notin {"cite", "poem"}
  <2>1. SUFFICES ASSUME Top.tag \in {"cite", "poem"} PROVE FALSE  OBVIOUS
  <2>2. Top.tag \in Containers  BY <2>1 DEF Containers, Special
  <2>3. Top.tag = "epigraph"  BY <1>1, <1>3, <2>2 DEF CInv, Unsplit
  <2>4. QED  BY <2>1, <2>3
<1>7. Top.tag = "section"  BY <1>4, <1>5, <1>6
<1>8. phase # "description"  BY <1>7, UnderSections
<1>9. QED  BY <1>3, <1>7, <1>8 DEF SplitHere, MaySplit

(* A handler that writes an element and returns keeps the control. *)
LEMMA PutKeepsControl ==
    ASSUME Settled, CInv, stack # <<>>, NEW open \in BOOLEAN, NEW k \in 0..MaxMarkers,
           Wrote(open, k), k > 0 => OldPages(cur') # NoPages,
           ~Waits(Len(stack)), open => SplitHere,
           NEW st \in {stack, WithTitle(stack), WithText(stack)},
           NEW mode \in {"head", "text", "tail"}, stack' = AfterChild(st, cur', mode),
           Top.mode = "tail" => mode = "tail",
           Len(links) < MaxElems, links' = Append(links, Len(docs')),
           conf' = conf, phase' = phase, toc' \in Seq(TocEntries), tocIndex' \in Nat,
           files' = IF open THEN Append(files, Len(docs) + 1) ELSE files,
           firstBodyTitle' \in {firstBodyTitle, FALSE},
           specialParagraph' \in BOOLEAN,
           mode # "tail" => specialParagraph' = specialParagraph
    PROVE  CInv'
<1> DEFINE L == Len(stack)
<1>1. /\ L \in Nat \ {0} /\ L \in 1..L
      /\ Top = stack[L] /\ Top \in Frames
      /\ cur \in 1..Len(docs) /\ docs[cur] \in Doc
      /\ Top.tag \in {"body", "annotation"} <=> L = 1
      /\ Top.inner = cur
  BY OpenFrame
<1>2. /\ conf \in Settings /\ stack \in Seq(Frames) /\ docs \in Seq(Doc) /\ cur = Len(docs)
      /\ files \in Seq(Nat) /\ links \in Seq(Nat) /\ Len(links) \in Nat /\ Len(docs) \in Nat
      /\ firstBodyTitle \in BOOLEAN /\ phase \in {"description", "bodies", "main", "notes"}
  BY LenProperties DEF CInv, Types
<1>3. /\ docs' \in Seq(Doc) /\ Len(docs') = (IF open THEN Len(docs) + 1 ELSE Len(docs))
      /\ cur' = Len(docs') /\ Len(docs') \in Nat /\ Len(docs') >= Len(docs)
      /\ ~open => cur' = cur
      /\ \A d \in 1..Len(docs) : docs'[d].name = docs[d].name
      /\ \A d \in 1..Len(docs') :
            docs'[d].pages = IF d = cur' THEN OldPages(d) + k ELSE OldPages(d)
  BY <1>2 DEF Wrote
<1>4. st \in Seq(Frames) /\ Len(st) = L
      /\ \A j \in 1..L :
            /\ st[j].tag = stack[j].tag /\ st[j].to = stack[j].to
            /\ st[j].number = stack[j].number /\ st[j].mode = stack[j].mode
            /\ st[j].inner = stack[j].inner
  BY <1>2, MarkedFrames
<1>5. /\ stack' \in Seq(Frames) /\ Len(stack') = L /\ stack' # <<>>
      /\ \A j \in 1..L :
            /\ stack'[j].tag = stack[j].tag /\ stack'[j].to = stack[j].to
            /\ stack'[j].number = stack[j].number
            /\ j # L => stack'[j].mode = stack[j].mode /\ stack'[j].inner = stack[j].inner
      /\ stack'[L].mode = mode
      /\ stack'[L].inner = IF Top.tag = "section" THEN cur' ELSE Top.inner
  <2>1. st # <<>>  BY <1>1, <1>4, EmptySeq
  <2>2. mode \in Modes /\ cur' \in Nat  BY <1>3 DEF Modes
  <2>3. LET after == AfterChild(st, cur', mode) IN
           /\ after \in Seq(Frames) /\ Len(after) = Len(st) /\ after # <<>>
           /\ \A j \in 1..Len(st) :
                /\ after[j].tag = st[j].tag /\ after[j].to = st[j].to
                /\ after[j].number = st[j].number
                /\ j # Len(st) => after[j] = st[j]
           /\ after[Len(st)].mode = mode
           /\ after[Len(st)].inner = IF st[Len(st)].tag = "section" THEN cur'
                                     ELSE st[Len(st)].inner
    BY <1>4, <2>1, <2>2, AfterChildFrames
  <2>4. QED  BY SMTT(40), <1>1, <1>4, <2>3
<1> HIDE DEF L
<1>6. Len(links') = Len(links) + 1 /\ links' \in Seq(Nat)
  BY <1>2, <1>3, AppendProperties
<1>7. Types'
  <2>1. files' \in Seq(Nat)  BY <1>2, AppendProperties
  <2>2. Len(links') <= MaxElems  BY <1>2, <1>6
  <2>3. QED  BY <1>2, <1>3, <1>5, <1>6, <2>1, <2>2 DEF Types
<1>8. open => Main /\ phase # "description" /\ MaySplitText(conf) /\ Top.tag = "section"
              /\ cur' = Len(docs) + 1
  BY <1>3 DEF SplitHere
<1>9. cur' \in 1..Len(docs')  BY <1>1, <1>3
<1>10. Shape'
  <2>1. ASSUME NEW j \in 1..Len(stack')
        PROVE  /\ stack'[j].tag \in {"body", "annotation"} <=> j = 1
               /\ stack'[j].tag = "section" =>
                    \A i \in 1..(j - 1) : stack'[i].tag \in {"body", "section"}
               /\ stack'[j].mode = "sections" => stack'[j].tag \in {"body", "section"}
               /\ stack'[j].to \in 1..Len(docs')
               /\ stack'[j].inner \in 1..Len(docs')
               /\ stack'[j].number <= Len(links')
    <3>1. j \in 1..L /\ stack[j] \in Frames  BY <1>2, <1>5, ElementOfSeq DEF L
    <3>2. /\ stack[j].tag \in {"body", "annotation"} <=> j = 1
          /\ stack[j].tag = "section" =>
                \A i \in 1..(j - 1) : stack[i].tag \in {"body", "section"}
          /\ stack[j].mode = "sections" => stack[j].tag \in {"body", "section"}
          /\ stack[j].to \in 1..Len(docs)
          /\ stack[j].inner \in 1..Len(docs)
          /\ stack[j].number <= Len(links)
      BY <3>1 DEF CInv, Shape, L
    <3>3. \A i \in 1..(j - 1) : i \in 1..L  BY <1>1, <3>1
    <3>4. stack'[j].tag = "section" =>
             \A i \in 1..(j - 1) : stack'[i].tag \in {"body", "section"}
      BY <1>5, <3>1, <3>2, <3>3
    <3>5. stack'[j].mode = "sections" => stack'[j].tag \in {"body", "section"}
      BY <1>5, <3>1, <3>2
    <3>6. stack'[j].inner \in 1..Len(docs') /\ stack'[j].to \in 1..Len(docs')
      <4>1. \A d \in 1..Len(docs) : d \in 1..Len(docs')  BY <1>2, <1>3
      <4>2. stack'[j].to \in 1..Len(docs')  BY <1>5, <3>1, <3>2, <4>1
      <4>3. CASE j # L  BY <1>5, <3>1, <3>2, <4>1, <4>2, <4>3
      <4>4. CASE j = L
        <5>1. stack'[L].inner \in 1..Len(docs')  BY <1>1, <1>5, <1>9, <4>1
        <5>2. QED  BY <4>2, <4>4, <5>1
      <4>5. QED  BY <4>3, <4>4
    <3>7. stack'[j].number <= Len(links')
      <4>1. stack[j].number \in Nat  BY <3>1 DEF Frames
      <4>2. stack[j].number <= Len(links')  BY SMTT(40), <1>2, <1>6, <3>2, <4>1
      <4>3. QED  BY <1>5, <3>1, <4>2
    <3>8. QED  BY <1>5, <3>1, <3>2, <3>4, <3>5, <3>6, <3>7
  <2>2. phase' = "description" => AnnotationPage' /\ files' = <<>>
    BY <1>8 DEF CInv, Shape, AnnotationPage
  <2>3. phase' # "bodies"  BY DEF CInv, Shape
  <2>4. stack'[1].tag = "annotation" <=> phase' = "description"
    <3>1. 1 \in 1..L  BY <1>1
    <3>2. QED  BY <1>5, <3>1 DEF CInv, Shape
  <2>5. ASSUME phase' = "description"
        PROVE  docs'[cur'].pages = NoPages /\ stack'[1].to = cur'
    <3>1. ~open /\ cur' = cur  BY <1>3, <1>8, <2>5
    <3>2. docs[cur].pages = NoPages /\ stack[1].to = cur  BY <2>5 DEF CInv, Shape
    <3>3. OldPages(cur') = NoPages  BY <1>1, <1>2, <3>1, <3>2 DEF OldPages
    <3>4. k = 0  BY <3>3
    <3>5. docs'[cur'].pages = NoPages  BY SMTT(40), <1>3, <1>9, <3>3, <3>4 DEF NoPages
    <3>6. 1 \in 1..L  BY <1>1
    <3>7. QED  BY <1>5, <3>1, <3>2, <3>5, <3>6
  <2>6. ASSUME phase' # "description"
        PROVE  docs'[cur'].pages # NoPages
    <3>1. OldPages(cur') \in Nat
      <4>1. CASE open
        <5>1. ~(cur' <= Len(docs))  BY <1>2, <1>8, <4>1
        <5>2. QED  BY <5>1 DEF OldPages
      <4>2. CASE ~open
        <5>1. docs[cur].pages # NoPages  BY <2>6 DEF CInv, Shape
        <5>2. OldPages(cur') = docs[cur].pages  BY <1>1, <1>2, <1>3, <4>2 DEF OldPages
        <5>3. QED  BY <1>1, <5>1, <5>2 DEF Doc
      <4>3. QED  BY <4>1, <4>2
    <3>2. docs'[cur'].pages = OldPages(cur') + k  BY <1>3, <1>9
    <3>3. QED  BY <3>1, <3>2 DEF NoPages
  <2>7. phase' = "notes" => docs'[cur'].name[1] = "notes"
    <3>1. SUFFICES ASSUME phase' = "notes" PROVE docs'[cur'].name[1] = "notes"  OBVIOUS
    <3>2. ~open  BY <1>8, <3>1 DEF Main
    <3>3. docs[cur].name[1] = "notes"  BY <3>1 DEF CInv, Shape
    <3>4. QED  BY <1>1, <1>3, <3>2, <3>3
  <2>8. QED  BY <1>5, <2>1, <2>2, <2>3, <2>4, <2>5, <2>6, <2>7 DEF Shape
<1>11. Unsplit'
  <2> SUFFICES ASSUME MaySplitText(conf), NEW j \in 1..L, stack'[j].tag \in Containers
               PROVE  /\ stack'[j].tag = "epigraph" /\ j = L
                      /\ stack'[j].mode # "tail" => specialParagraph'
    BY <1>5 DEF Unsplit
  <2>1. stack[j].tag \in Containers  BY <1>5
  <2>2. /\ stack[j].tag = "epigraph" /\ j = L
        /\ stack[j].mode # "tail" => specialParagraph
    BY <2>1 DEF CInv, Unsplit, L
  <2>3. QED  BY <1>1, <1>5, <2>2 DEF L
<1>12. ~Opens' => ~open
  <2>1. conf.chapterLevel > 1 \/ ~MaySplitText(conf)  BY <1>2 DEF Settled
  <2>2. QED  BY <1>8, <2>1 DEF Opens, Main, ChapterPerFile, ChapterLevel, MaySplitText
<1>13. InStep'
  <2>0. \A j \in 1..L : Waits(j)' => Waits(j)
    BY <1>1, <1>5 DEF Waits, L
  <2> SUFFICES ASSUME NEW j \in 1..L
               PROVE  /\ ~Opens' => stack'[j].inner = cur'
                      /\ j = L /\ ~Waits(j)' => stack'[j].inner = cur'
                      /\ j < L /\ stack'[j + 1].tag \in Containers => stack'[j].inner = cur'
                      /\ Main' /\ Waits(j)' => ~firstBodyTitle'
                      /\ Main' /\ j > 1 /\ stack'[2].tag = "section" => ~firstBodyTitle'
    BY <1>5 DEF InStep
  <2>1. /\ ~Opens => stack[j].inner = cur
        /\ j < L /\ stack[j + 1].tag \in Containers => stack[j].inner = cur
        /\ Main /\ Waits(j) => ~firstBodyTitle
        /\ Main /\ j > 1 /\ stack[2].tag = "section" => ~firstBodyTitle
    BY DEF CInv, InStep, L
  <2>2. stack'[L].inner = cur'
    <3>1. CASE Top.tag = "section"  BY <1>5, <3>1
    <3>2. CASE Top.tag # "section"  BY <1>1, <1>3, <1>5, <1>8, <3>2
    <3>3. QED  BY <3>1, <3>2
  <2>3. ~Opens' => stack'[j].inner = cur'
    <3>1. Opens' <=> Opens  BY DEF Opens, Main, ChapterPerFile, ChapterLevel
    <3>2. QED  BY <1>3, <1>5, <1>12, <2>1, <2>2, <3>1
  <2>4. ASSUME j < L, stack'[j + 1].tag \in Containers
        PROVE  stack'[j].inner = cur'
    <3>1. j + 1 \in 1..L  BY <1>1, <2>4
    <3>2. stack[j + 1].tag \in Containers  BY <1>5, <2>4, <3>1
    <3>3. stack'[j].inner = cur  BY SMTT(40), <1>5, <2>1, <2>4, <3>2
    <3>4. ~open
      <4>1. SUFFICES ASSUME open PROVE FALSE  OBVIOUS
      <4>2. \A i \in 1..Len(stack) : stack[i].tag \in {"body", "section"}
        BY <1>8, <4>1, UnderSections
      <4>3. stack[j + 1].tag \in {"body", "section"}  BY <3>1, <4>2 DEF L
      <4>4. QED  BY <3>2, <4>3 DEF Containers, Special
    <3>5. QED  BY <1>3, <3>3, <3>4
  <2>5. Main' /\ Waits(j)' => ~firstBodyTitle'
    BY <2>0, <2>1 DEF Main
  <2>6. Main' /\ j > 1 /\ stack'[2].tag = "section" => ~firstBodyTitle'
    <3>1. j > 1 => 2 \in 1..L  BY <1>1
    <3>2. QED  BY <1>5, <2>1, <3>1 DEF Main
  <2>7. QED  BY <2>2, <2>3, <2>4, <2>5, <2>6
<1>14. PagesCounted'
  <2> SUFFICES ASSUME NEW d \in 1..Len(docs')
               PROVE  docs'[d].pages <= (Len(links) + 1) * MaxMarkers
    BY <1>6 DEF PagesCounted
  <2> DEFINE a == Len(links) * MaxMarkers
  <2>1. (Len(links) + 1) * MaxMarkers = a + MaxMarkers /\ a \in Nat /\ MaxMarkers \in Nat
    <3>1. Len(links) \in Nat /\ Len(links) <= Len(links) /\ MaxMarkers \in Nat  BY <1>2
    <3>2. QED  BY <3>1, Products
  <2>2. OldPages(d) <= a /\ OldPages(d) \in Int
    <3>1. CASE d <= Len(docs)
      <4>1. d \in 1..Len(docs) /\ docs[d] \in Doc  BY <1>2, <3>1, ElementOfSeq
      <4>2. OldPages(d) = docs[d].pages  BY <3>1 DEF OldPages
      <4>3. QED  BY SMTT(40), <4>1, <4>2 DEF CInv, PagesCounted, Doc, NoPages
    <3>2. CASE ~(d <= Len(docs))  BY <2>1, <3>2 DEF OldPages
    <3>3. QED  BY <3>1, <3>2
  <2> HIDE DEF a
  <2>3. docs'[d].pages <= a + MaxMarkers
    <3>1. k <= MaxMarkers /\ k \in Nat  BY <2>1
    <3>2. docs'[d].pages = OldPages(d) + k \/ docs'[d].pages = OldPages(d)  BY <1>3
    <3>3. OldPages(d) + k <= a + MaxMarkers /\ OldPages(d) <= a + MaxMarkers
      BY SMTT(40), <2>1, <2>2, <3>1
    <3>4. QED  BY <3>2, <3>3
  <2>4. QED  BY <2>1, <2>3
<1>15. QED  BY <1>7, <1>10, <1>11, <1>13, <1>14 DEF CInv

LEMMA ShortSeqs ==
    ASSUME NEW S, NEW a \in S, NEW b \in S
    PROVE  <<a>> \in Seq(S) /\ <<a, b>> \in Seq(S) /\ <<>> \in Seq(S)
BY EmptySeq

LEMMA PutStep ==
    ASSUME Settled, CInv, conf' = conf,
           NEW what \in {"title", "p", "subtitle", "divider", "verse", "author"}, Allows(what),
           NEW open \in BOOLEAN, open => SplitHere, NEW k \in 0..MaxMarkers, NEW items,
           \/ /\ items = <<<<"text", Number>>>>
              /\ toc' = toc /\ tocIndex' \in {tocIndex, tocIndex + 1}
           \/ /\ items = <<<<"tocref", tocIndex>>, <<"text", Number>>>>
              /\ toc' = Append(toc, TocEntry(<<"tocref", tocIndex>>, cur', Number))
              /\ tocIndex' = tocIndex + 1,
           Write(open, items, k), OpenFileIf(open), Locate(open),
           NEW st \in {stack, WithTitle(stack), WithText(stack)},
           NEW mode \in {"head", "text", "tail"}, stack' = AfterChild(st, cur', mode),
           what = "author" => mode = "tail", phase' = phase,
           firstBodyTitle' \in {firstBodyTitle, FALSE},
           specialParagraph' \in BOOLEAN,
           mode # "tail" => specialParagraph' = specialParagraph
    PROVE  CInv' /\ Adds
<1>1. stack # <<>> /\ Len(links) < MaxElems /\ (Top.mode = "tail" => mode = "tail")
  BY DEF Allows
<1>2. Types  BY DEF CInv
<1>3. ~Waits(Len(stack))  BY <1>1, NotWaiting
<1>4. Top.inner = cur /\ docs # <<>> /\ cur \in 1..Len(docs)  BY <1>1, <1>3, OpenFrame
<1>5. Target(open) = Current(open)  BY <1>4 DEF Target, Current
<1>6. /\ cur' = Current(open)
      /\ files' = IF open THEN Append(files, Len(docs) + 1) ELSE files
  BY DEF OpenFileIf
<1>7. Number \in Nat /\ tocIndex \in Nat /\ k \in Nat /\ toc \in Seq(TocEntries)
  BY <1>2, LenProperties DEF Number, Types
<1>8. <<"text", Number>> \in Item /\ <<"tocref", tocIndex>> \in Item  BY <1>7 DEF Item
<1>9. items \in Seq(Item)
  <2>1. CASE items = <<<<"text", Number>>>>  BY <1>8, <2>1, ShortSeqs
  <2>2. CASE items = <<<<"tocref", tocIndex>>, <<"text", Number>>>>  BY <1>8, <2>2, ShortSeqs
  <2>3. QED  BY <2>1, <2>2
<1>10. Wrote(open, k) /\ cur' \in 1..Len(docs') /\ (k > 0 => OldPages(cur') # NoPages)
  BY <1>2, <1>4, <1>5, <1>6, <1>7, <1>9, WriteGrows
<1>11. cur' = Len(docs') /\ links' = Append(links, Len(docs'))
  BY <1>6, <1>10 DEF Wrote, Locate
<1>12. TocEntry(<<"tocref", tocIndex>>, cur', Number) \in TocEntries
  BY <1>2, <1>7, <1>10, HeaderIsNat DEF TocEntry, TocEntries
<1>13. toc' \in Seq(TocEntries) /\ tocIndex' \in Nat
  <2>1. tocIndex' \in Nat  BY <1>7
  <2>2. Append(toc, TocEntry(<<"tocref", tocIndex>>, cur', Number)) \in Seq(TocEntries)
    BY <1>7, <1>12, AppendProperties
  <2>3. QED  BY <1>7, <2>1, <2>2
<1>14. CInv'
  BY <1>1, <1>3, <1>6, <1>10, <1>11, <1>13, PutKeepsControl
<1>15. Adds
  <2>1. CASE /\ items = <<<<"text", Number>>>>
             /\ toc' = toc /\ tocIndex' \in {tocIndex, tocIndex + 1}
    <3>1. /\ Len(items) = 1 /\ 1 \in 1..Len(items) /\ items[1] = <<"text", Number>>
          /\ \A j \in 1..Len(items) : j # 1 => items[j] = <<"tocref", tocIndex>>
      BY <2>1
    <3>2. QED
      BY <1>2, <1>4, <1>5, <1>6, <1>7, <1>9, <2>1, <3>1, WriteAdds
  <2>2. CASE /\ items = <<<<"tocref", tocIndex>>, <<"text", Number>>>>
             /\ toc' = Append(toc, TocEntry(<<"tocref", tocIndex>>, cur', Number))
             /\ tocIndex' = tocIndex + 1
    <3>1. /\ Len(items) = 2 /\ 2 \in 1..Len(items) /\ items[2] = <<"text", Number>>
          /\ \A j \in 1..Len(items) : j # 2 => items[j] = <<"tocref", tocIndex>>
      BY <2>2
    <3>2. QED
      BY <1>2, <1>4, <1>5, <1>6, <1>7, <1>9, <2>2, <3>1, WriteAdds
  <2>3. QED  BY <2>1, <2>2
<1>16. QED  BY <1>14, <1>15

-----------------------------------------------------------------------------
(* The handlers, one by one. *)
LEMMA TitleStep ==
    ASSUME Settled, CInv, conf' = conf, NEW k \in 0..MaxMarkers, Title(k)
    PROVE  CInv' /\ Adds
<1>1. /\ Allows("title") /\ Locate(FALSE) /\ tocIndex' = tocIndex + 1
      /\ firstBodyTitle' = FALSE
      /\ phase' = phase /\ files' = files /\ cur' = cur /\ specialParagraph' = specialParagraph
  BY DEF Title
<1>2. OpenFileIf(FALSE)  BY <1>1 DEF OpenFileIf, Current
<1>3. specialParagraph' \in BOOLEAN  BY <1>1 DEF CInv, Types
<1>4. CASE Main \/ firstBodyTitle
  <2>1. /\ Write(FALSE, <<<<"tocref", tocIndex>>, <<"text", Number>>>>, k)
        /\ toc' = Append(toc, TocEntry(<<"tocref", tocIndex>>, cur', Number))
        /\ stack' = AfterChild(WithTitle(stack), cur', "head")
    BY <1>1, <1>4 DEF Title
  <2>2. QED  BY <1>1, <1>2, <1>3, <2>1, PutStep
<1>5. CASE ~(Main \/ firstBodyTitle)
  <2>1. /\ Write(FALSE, <<<<"text", Number>>>>, k) /\ toc' = toc
        /\ stack' = AfterChild(stack, cur', "head")
    BY <1>1, <1>5 DEF Title
  <2>2. QED  BY <1>1, <1>2, <1>3, <2>1, PutStep
<1>6. QED  BY <1>4, <1>5

LEMMA ParagraphStep ==
    ASSUME Settled, CInv, conf' = conf, NEW k \in 0..MaxMarkers, Paragraph(k)
    PROVE  CInv' /\ Adds
<1> DEFINE split == MaySplit /\ FileIsFull
<1>1. /\ Allows("p") /\ OpenFileIf(split) /\ Write(split, <<<<"text", Number>>>>, k)
      /\ Locate(split)
      /\ stack' = AfterChild(IF Main THEN WithText(stack) ELSE stack, Current(split), "text")
      /\ phase' = phase /\ toc' = toc /\ tocIndex' = tocIndex
      /\ firstBodyTitle' = firstBodyTitle /\ specialParagraph' = specialParagraph
  BY DEF Paragraph
<1>2. stack # <<>>  BY <1>1 DEF Allows
<1>3. split => SplitHere  BY <1>1, <1>2, ParagraphSplits
<1>4. split \in BOOLEAN  BY DEF MaySplit, FileIsFull
<1> HIDE DEF split
<1>5. specialParagraph' \in BOOLEAN  BY <1>1 DEF CInv, Types
<1>6. PICK st \in {stack, WithTitle(stack), WithText(stack)} : stack' = AfterChild(st, cur', "text")
  BY <1>1 DEF OpenFileIf
<1>7. QED  BY <1>1, <1>3, <1>4, <1>5, <1>6, PutStep

LEMMA SubtitleStep ==
    ASSUME Settled, CInv, conf' = conf, NEW k \in 0..MaxMarkers, Subtitle(k)
    PROVE  CInv' /\ Adds
<1>1. /\ Allows("subtitle") /\ Write(FALSE, <<<<"text", Number>>>>, k) /\ Locate(FALSE)
      /\ stack' = AfterChild(stack, cur', "text")
      /\ phase' = phase /\ files' = files /\ cur' = cur /\ toc' = toc /\ tocIndex' = tocIndex
      /\ firstBodyTitle' = firstBodyTitle /\ specialParagraph' = specialParagraph
  BY DEF Subtitle
<1>2. OpenFileIf(FALSE)  BY <1>1 DEF OpenFileIf, Current
<1>3. specialParagraph' \in BOOLEAN  BY <1>1 DEF CInv, Types
<1>4. QED  BY <1>1, <1>2, <1>3, PutStep

LEMMA DividerStep ==
    ASSUME Settled, CInv, conf' = conf, Divider
    PROVE  CInv' /\ Adds
<1>1. /\ Allows("divider") /\ OpenFileIf(MaySplit)
      /\ Write(MaySplit, <<<<"text", Number>>>>, 0) /\ Locate(MaySplit)
      /\ stack' = AfterChild(stack, cur', "text")
      /\ phase' = phase /\ toc' = toc /\ tocIndex' = tocIndex
      /\ firstBodyTitle' = firstBodyTitle /\ specialParagraph' = specialParagraph
  BY DEF Divider, OpenFileIf
<1>2. stack # <<>>  BY <1>1 DEF Allows
<1>3. MaySplit => SplitHere  BY <1>1, <1>2, DividerSplits
<1>4. specialParagraph' \in BOOLEAN  BY <1>1 DEF CInv, Types
<1>5. MaySplit \in BOOLEAN /\ 0 \in 0..MaxMarkers  BY DEF MaySplit
<1>6. QED  BY <1>1, <1>3, <1>4, <1>5, PutStep

LEMMA VerseStep ==
    ASSUME Settled, CInv, conf' = conf, NEW k \in 0..MaxMarkers, Verse(k)
    PROVE  CInv' /\ Adds
<1>1. /\ Allows("verse") /\ Write(FALSE, <<<<"text", Number>>>>, k) /\ Locate(FALSE)
      /\ stack' = AfterChild(IF Main THEN WithText(stack) ELSE stack, cur', "text")
      /\ phase' = phase /\ files' = files /\ cur' = cur /\ toc' = toc /\ tocIndex' = tocIndex
      /\ firstBodyTitle' = firstBodyTitle /\ specialParagraph' = specialParagraph
  BY DEF Verse
<1>2. OpenFileIf(FALSE)  BY <1>1 DEF OpenFileIf, Current
<1>3. specialParagraph' \in BOOLEAN  BY <1>1 DEF CInv, Types
<1>4. PICK st \in {stack, WithTitle(stack), WithText(stack)} : stack' = AfterChild(st, cur', "text")
  BY <1>1
<1>5. QED  BY <1>1, <1>2, <1>3, <1>4, PutStep

LEMMA TextAuthorStep ==
    ASSUME Settled, CInv, conf' = conf, TextAuthor
    PROVE  CInv' /\ Adds
<1>1. /\ Allows("author") /\ Write(FALSE, <<<<"text", Number>>>>, 0) /\ Locate(FALSE)
      /\ stack' = AfterChild(stack, cur', "tail")
      /\ phase' = phase /\ files' = files /\ cur' = cur /\ toc' = toc /\ tocIndex' = tocIndex
      /\ firstBodyTitle' = firstBodyTitle /\ specialParagraph' = FALSE
  BY DEF TextAuthor
<1>2. OpenFileIf(FALSE)  BY <1>1 DEF OpenFileIf, Current
<1>3. 0 \in 0..MaxMarkers  OBVIOUS
<1>4. QED  BY <1>1, <1>2, <1>3, PutStep

-----------------------------------------------------------------------------
(* Steps that leave text and page ends alone. *)
LEMMA MarksAdd ==
    ASSUME Types, NEW new, Growth(new),
           \A d \in 1..Len(docs) : docs'[d].pages = docs[d].pages,
           \A d \in 1..Len(docs') : d > Len(docs) => docs'[d].pages <= 0,
           \A d \in 1..Len(docs') : \A j \in 1..Len(new[d]) :
                ~IsText(new[d][j]) /\ ~IsPage(new[d][j]),
           AddsLink(new), AddsToc(new), AddsVignette(new), AddsFile
    PROVE  Adds
<1>1. /\ Len(docs) \in Nat /\ docs' \in Seq(Doc) /\ Len(docs') \in {Len(docs), Len(docs) + 1}
      /\ links \in Seq(Nat) /\ Len(links) \in Nat
  BY LenProperties DEF Types, Growth
<1>2. Len(links') \in {Len(links), Len(links) + 1}
  <2>1. CASE links' = links  BY <2>1
  <2>2. CASE links' = Append(links, Len(docs'))  BY <1>1, <2>2, AppendProperties
  <2>3. QED  BY <2>1, <2>2 DEF AddsLink
<1>3. AddsText(new)  BY <1>2 DEF AddsText
<1>4. ASSUME NEW d \in 1..Len(docs')
      PROVE  /\ docs'[d].pages \in Int /\ OldPages(d) \in Int
             /\ docs'[d].pages <= OldPages(d)
             /\ d <= Len(docs) => docs[d].pages <= docs'[d].pages
  <2>1. docs'[d] \in Doc  BY <1>1, ElementOfSeq
  <2>2. docs'[d].pages \in Int  BY <2>1 DEF Doc, NoPages
  <2>3. CASE d <= Len(docs)
    <3>1. docs'[d].pages = docs[d].pages  BY <1>1, <2>3
    <3>2. QED  BY <2>2, <2>3, <3>1 DEF OldPages
  <2>4. CASE ~(d <= Len(docs))
    <3>1. docs'[d].pages <= 0  BY <1>1, <2>4
    <3>2. QED  BY <2>2, <2>4, <3>1 DEF OldPages
  <2>5. QED  BY <2>3, <2>4
<1>5. \A d \in 1..Len(docs') : OldPages(d)..(docs'[d].pages - 1) = {}
  BY <1>4
<1>6. AddsPages(new)  BY <1>4, <1>5 DEF AddsPages
<1>7. QED  BY <1>3, <1>6 DEF Adds

(* Nothing new, or an empty document. *)
LEMMA NothingAdded ==
    ASSUME Types, links' = links, tocIndex' \in {tocIndex, tocIndex + 1}, cur' = Len(docs'), AddsFile,
           \/ toc' = toc
           \/ NoTitleChapters /\ \E entry \in TocEntries :
                entry.anchor[1] = "secref" /\ toc' = Append(toc, entry),
           \/ docs' = docs
           \/ \E doc \in Doc : doc.items = <<>> /\ doc.pages <= 0 /\ docs' = Append(docs, doc)
    PROVE  Adds
<1> DEFINE new == [d \in 1..Len(docs') |-> <<>>]
<1>1. docs \in Seq(Doc) /\ Len(docs) \in Nat  BY LenProperties DEF Types
<1>2. /\ docs' \in Seq(Doc) /\ Len(docs') \in {Len(docs), Len(docs) + 1}
      /\ \A d \in 1..Len(docs) : docs'[d] = docs[d]
      /\ \A d \in 1..Len(docs') : d > Len(docs) => docs'[d].items = <<>> /\ docs'[d].pages <= 0
  <2>1. CASE docs' = docs  BY <1>1, <2>1
  <2>2. CASE \E doc \in Doc : doc.items = <<>> /\ doc.pages <= 0 /\ docs' = Append(docs, doc)
    <3>1. PICK doc \in Doc : doc.items = <<>> /\ doc.pages <= 0 /\ docs' = Append(docs, doc)
      BY <2>2
    <3>2. /\ docs' \in Seq(Doc) /\ Len(docs') = Len(docs) + 1
          /\ \A d \in 1..Len(docs) : docs'[d] = docs[d]
          /\ docs'[Len(docs) + 1] = doc
      BY <1>1, <3>1, AppendProperties
    <3>3. \A d \in 1..Len(docs') : d > Len(docs) => d = Len(docs) + 1  BY <1>1, <3>2
    <3>4. QED  BY <3>1, <3>2, <3>3
  <2>3. QED  BY <2>1, <2>2
<1>3. <<>> \in Seq(Item) /\ Len(<<>>) = 0  BY EmptySeq
<1>4. ASSUME NEW d \in 1..Len(docs')
      PROVE  docs'[d].items = Old(d) \o <<>>
  <2>1. docs'[d].items = Old(d)  BY <1>1, <1>2 DEF Old
  <2>2. docs'[d].items \in Seq(Item)
    <3>1. docs'[d] \in Doc  BY <1>2, ElementOfSeq
    <3>2. QED  BY <3>1 DEF Doc
  <2>3. QED  BY <2>1, <2>2, ConcatEmptySeq
<1>5. new \in [1..Len(docs') -> Seq(Item)] /\ \A d \in 1..Len(docs') : new[d] = <<>>
  BY <1>3
<1> HIDE DEF new
<1>6. Growth(new)  BY <1>2, <1>4, <1>5 DEF Growth
<1>7. \A d \in 1..Len(docs') : \A j \in 1..Len(new[d]) : FALSE  BY <1>3, <1>5
<1>8. AddsLink(new)  BY DEF AddsLink
<1>9. AddsToc(new)  BY <1>7 DEF AddsToc
<1>10. AddsVignette(new)  BY <1>7 DEF AddsVignette
<1>11. QED  BY <1>2, <1>6, <1>7, <1>8, <1>9, <1>10, MarksAdd

LEMMA PagesKept ==
    ASSUME Types, PagesCounted, docs' \in Seq(Doc),
           \A d \in 1..Len(docs') : d <= Len(docs) => docs'[d].pages = docs[d].pages,
           \A d \in 1..Len(docs') : d > Len(docs) => docs'[d].pages <= 0,
           Len(links') \in {Len(links), Len(links) + 1}
    PROVE  PagesCounted'
<1>1. Len(docs) \in Nat /\ Len(links) \in Nat /\ Len(links') \in Nat /\ Len(links) <= Len(links')
      /\ MaxMarkers \in Nat /\ Len(docs') \in Nat
  BY LenProperties DEF Types
<1> DEFINE a == Len(links) * MaxMarkers
           b == Len(links') * MaxMarkers
<1>2. a <= b /\ a \in Nat  BY <1>1, Products
<1>3. b \in Nat  BY <1>1, Products
<1>4. \A d \in 1..Len(docs) : docs[d].pages <= a  BY DEF PagesCounted
<1> HIDE DEF a, b
<1>5. ASSUME NEW d \in 1..Len(docs')
      PROVE  docs'[d].pages <= b
  <2>1. docs'[d] \in Doc  BY ElementOfSeq
  <2>2. docs'[d].pages \in Int  BY <2>1 DEF Doc, NoPages
  <2>3. CASE d <= Len(docs)
    <3>1. docs'[d].pages <= a  BY <1>1, <1>4, <2>3
    <3>2. QED  BY <1>2, <1>3, <2>2, <3>1
  <2>4. CASE ~(d <= Len(docs))
    <3>1. docs'[d].pages <= 0  BY <1>1, <2>4
    <3>2. QED  BY <1>3, <2>2, <3>1
  <2>5. QED  BY <2>3, <2>4
<1>6. QED  BY <1>5 DEF PagesCounted, b

(* A body or an annotation begins in a document of its own. *)
LEMMA BeginDocument ==
    ASSUME CInv, conf' = conf, stack = <<>>,
           NEW doc \in Doc, doc.items = <<>>, doc.pages <= 0, docs' = Append(docs, doc),
           cur' = Len(docs) + 1, NEW tag \in {"body", "annotation"},
           stack' = <<Frame(tag, cur', 0)>>, phase' \in {"description", "main", "notes"},
           tag = "annotation" <=> phase' = "description",
           phase' = "description" => AnnotationPage /\ files' = <<>> /\ doc.pages = NoPages,
           phase' # "description" => doc.pages # NoPages,
           phase' = "notes" => doc.name[1] = "notes",
           files' \in Seq(Nat), AddsFile,
           toc' = toc, links' = links, tocIndex' = tocIndex, firstBodyTitle' \in BOOLEAN,
           specialParagraph' = specialParagraph
    PROVE  CInv' /\ Adds
<1>1. Types  BY DEF CInv
<1>2. /\ docs \in Seq(Doc) /\ Len(docs) \in Nat /\ tocIndex \in Nat
      /\ links \in Seq(Nat) /\ Len(links) \in Nat
  BY <1>1, LenProperties DEF Types
<1>3. /\ docs' \in Seq(Doc) /\ Len(docs') = Len(docs) + 1
      /\ \A d \in 1..Len(docs) : docs'[d] = docs[d]
      /\ docs'[Len(docs) + 1] = doc
  BY <1>2, AppendProperties
<1>4. cur' = Len(docs') /\ cur' \in 1..Len(docs') /\ docs'[cur'] = doc  BY <1>2, <1>3
<1>5. Adds  BY <1>1, <1>2, <1>4, NothingAdded
<1> DEFINE f == Frame(tag, cur', 0)
<1>6. /\ f \in Frames /\ f.tag = tag /\ f.inner = cur' /\ f.to = cur' /\ f.number = 0
      /\ f.mode = "start"
  BY <1>2 DEF Frame, Frames, Modes
<1> HIDE DEF f
<1>7. /\ stack' \in Seq(Frames) /\ Len(stack') = 1 /\ stack' # <<>>
      /\ \A k \in 1..Len(stack') : k = 1 /\ stack'[k] = f
  <2>1. stack' = <<f>>  BY DEF f
  <2>2. QED  BY <1>6, <2>1, ShortSeqs
<1>8. Types'  BY <1>1, <1>3, <1>4, <1>7 DEF Types
<1>9. Shape'
  <2>1. \A k \in 1..Len(stack') :
          /\ stack'[k].tag \in {"body", "annotation"} <=> k = 1
          /\ stack'[k].tag = "section" =>
                \A j \in 1..(k - 1) : stack'[j].tag \in {"body", "section"}
          /\ stack'[k].mode = "sections" => stack'[k].tag \in {"body", "section"}
          /\ stack'[k].to \in 1..Len(docs')
          /\ stack'[k].inner \in 1..Len(docs')
          /\ stack'[k].number <= Len(links')
    BY <1>2, <1>4, <1>6, <1>7
  <2>2. stack'[1] = f  BY <1>7
  <2>3. QED  BY <1>4, <1>6, <1>7, <2>1, <2>2 DEF Shape, AnnotationPage
<1>10. Unsplit'
  <2>1. tag \notin Containers  BY DEF Containers, Special
  <2>2. QED  BY <1>6, <1>7, <2>1 DEF Unsplit
<1>11. InStep'  BY <1>6, <1>7 DEF InStep, Waits
<1>12. PagesCounted'
  <2>1. \A d \in 1..Len(docs') : d <= Len(docs) => docs'[d].pages = docs[d].pages
    BY <1>2, <1>3
  <2>2. \A d \in 1..Len(docs') : d > Len(docs) => docs'[d].pages <= 0  BY <1>2, <1>3
  <2>3. PagesCounted  BY DEF CInv
  <2>4. QED  BY <1>1, <1>3, <2>1, <2>2, <2>3, PagesKept
<1>13. QED  BY <1>5, <1>8, <1>9, <1>10, <1>11, <1>12 DEF CInv

LEMMA StartAnnotationStep ==
    ASSUME CInv, conf' = conf, StartAnnotation
    PROVE  CInv' /\ Adds
<1> DEFINE doc == NewDoc(<<"annotation", 0>>, NoPages)
<1>1. /\ phase = "description" /\ stack = <<>> /\ docs' = Append(docs, doc)
      /\ cur' = Len(docs) + 1 /\ stack' = <<Frame("annotation", cur', 0)>>
      /\ phase' = phase /\ files' = files /\ toc' = toc /\ links' = links
      /\ tocIndex' = tocIndex /\ firstBodyTitle' = firstBodyTitle
      /\ specialParagraph' = specialParagraph
  BY DEF StartAnnotation
<1>2. doc \in Doc /\ doc.items = <<>> /\ doc.pages <= 0 /\ doc.pages = NoPages
  BY EmptySeq DEF NewDoc, Doc, NoPages
<1> HIDE DEF doc
<1>3. AnnotationPage /\ files = <<>> /\ files \in Seq(Nat) /\ firstBodyTitle \in BOOLEAN
  BY <1>1 DEF CInv, Shape, Types
<1>4. AddsFile  BY <1>1 DEF AddsFile
<1>5. phase' = "description"  BY <1>1
<1>6. QED  BY <1>1, <1>2, <1>3, <1>4, <1>5, BeginDocument

LEMMA StartBodyStep ==
    ASSUME CInv, conf' = conf, StartBody
    PROVE  CInv' /\ Adds
<1> DEFINE name == IF phase' = "notes" THEN <<"notes", 0>> ELSE <<"index", Findex + 1>>
           doc == NewDoc(name, 0)
<1>1. /\ phase' \in {"main", "notes"} /\ stack = <<>> /\ docs' = Append(docs, doc)
      /\ cur' = Len(docs) + 1 /\ files' = Append(files, cur')
      /\ stack' = <<Frame("body", cur', 0)>>
      /\ toc' = toc /\ links' = links /\ tocIndex' = tocIndex /\ firstBodyTitle' = TRUE
      /\ specialParagraph' = specialParagraph
  BY DEF StartBody
<1>2. Types  BY DEF CInv
<1>3. docs \in Seq(Doc) /\ Len(docs) \in Nat /\ files \in Seq(Nat)
  BY <1>2, LenProperties DEF Types
<1>4. name \in {"annotation", "index", "notes"} \X Nat
      /\ (phase' = "notes" => name[1] = "notes")
  BY <1>2, FileNames
<1> HIDE DEF name
<1>5. doc \in Doc /\ doc.items = <<>> /\ doc.pages = 0 /\ doc.pages # NoPages
      /\ (phase' = "notes" => doc.name[1] = "notes")
  BY <1>4, EmptySeq DEF NewDoc, Doc, NoPages
<1> HIDE DEF doc
<1>6. Len(docs') = Len(docs) + 1  BY <1>1, <1>3, <1>5, AppendProperties
<1>7. files' \in Seq(Nat)  BY <1>1, <1>3, AppendProperties
<1>8. AddsFile  BY <1>1, <1>6 DEF AddsFile
<1>9. phase' # "description" /\ doc.pages <= 0  BY <1>1, <1>5
<1>10. QED  BY <1>1, <1>5, <1>7, <1>8, <1>9, BeginDocument

LEMMA EndBodyStep ==
    ASSUME CInv, conf' = conf, EndBody
    PROVE  CInv' /\ Adds
<1>1. /\ Len(stack) = 1 /\ Top.tag = "body" /\ stack' = <<>> /\ phase' = phase /\ docs' = docs
      /\ files' = files /\ cur' = cur /\ toc' = toc /\ links' = links /\ tocIndex' = tocIndex
      /\ firstBodyTitle' = firstBodyTitle /\ specialParagraph' = specialParagraph
  BY DEF EndBody
<1>2. Types  BY DEF CInv
<1>3. AddsFile /\ cur' = Len(docs')  BY <1>1, <1>2 DEF AddsFile, Types
<1>4. Adds  BY <1>1, <1>2, <1>3, NothingAdded
<1>5. stack' \in Seq(Frames) /\ Len(stack') = 0  BY <1>1, EmptySeq
<1>6. Types'  BY <1>1, <1>2, <1>5 DEF Types
<1>7. Shape' /\ Unsplit' /\ InStep' /\ PagesCounted'
  BY <1>1, <1>5 DEF CInv, Shape, Unsplit, InStep, PagesCounted, AnnotationPage
<1>8. QED  BY <1>4, <1>6, <1>7 DEF CInv

MarkedItems(t, s) == [d \in 1..Len(docs') |-> IF d = t THEN s ELSE <<>>]

Marked(t, v) == docs' = [docs EXCEPT ![t].items = v]

LEMMA MarkGrows ==
    ASSUME Types, NEW t \in 1..Len(docs), NEW s \in Seq(Item), NEW v,
           v = docs[t].items \o s, Marked(t, v), cur' = cur
    PROVE  /\ Growth(MarkedItems(t, s))
           /\ docs' \in Seq(Doc) /\ Len(docs') = Len(docs) /\ cur' = Len(docs')
           /\ \A d \in 1..Len(docs) : docs'[d].pages = docs[d].pages /\ docs'[d].name = docs[d].name
<1>1. docs \in Seq(Doc) /\ Len(docs) \in Nat /\ cur = Len(docs)  BY LenProperties DEF Types
<1>2. /\ docs' \in Seq(Doc) /\ Len(docs') = Len(docs)
      /\ \A d \in 1..Len(docs) :
            /\ docs'[d].items = docs[d].items \o (IF d = t THEN s ELSE <<>>)
            /\ docs'[d].pages = docs[d].pages /\ docs'[d].name = docs[d].name
  <2> DEFINE g == [docs[t] EXCEPT !.items = v]
  <2>1. \A d \in 1..Len(docs) : docs[d] \in Doc  BY <1>1, ElementOfSeq
  <2>2. docs' = [docs EXCEPT ![t] = g]  BY <1>1, <2>1 DEF Doc, Marked
  <2>3. v \in Seq(Item)
    <3>1. docs[t].items \in Seq(Item)  BY <2>1 DEF Doc
    <3>2. QED  BY <3>1, ConcatProperties
  <2>4. g \in Doc /\ g.items = v /\ g.pages = docs[t].pages /\ g.name = docs[t].name
    BY <2>1, <2>3 DEF Doc
  <2> HIDE DEF g
  <2>5. docs' \in Seq(Doc) /\ Len(docs') = Len(docs)  BY <1>1, <2>2, <2>4, ExceptSeq
  <2>6. \A d \in 1..Len(docs) : docs'[d] = IF d = t THEN g ELSE docs[d]  BY <1>1, <2>2
  <2>7. ASSUME NEW d \in 1..Len(docs), d # t
        PROVE  docs[d].items = docs[d].items \o <<>>
    <3>1. docs[d].items \in Seq(Item)  BY <2>1 DEF Doc
    <3>2. QED  BY <3>1, ConcatEmptySeq
  <2>8. QED  BY <2>4, <2>5, <2>6, <2>7
<1> DEFINE new == MarkedItems(t, s)
<1>3. \A d \in 1..Len(docs') : new[d] = IF d = t THEN s ELSE <<>>  BY DEF MarkedItems
<1>4. new \in [1..Len(docs') -> Seq(Item)]
  <2>1. \A d \in 1..Len(docs') : new[d] \in Seq(Item)  BY <1>3, EmptySeq
  <2>2. new = [d \in 1..Len(docs') |-> new[d]]  BY DEF MarkedItems
  <2>3. QED  BY <2>1, <2>2
<1> HIDE DEF new
<1>5. ASSUME NEW d \in 1..Len(docs')
      PROVE  docs'[d].items = Old(d) \o new[d]
  <2>1. Old(d) = docs[d].items /\ d \in 1..Len(docs)  BY <1>1, <1>2 DEF Old
  <2>2. docs'[d].items = docs[d].items \o new[d]  BY <1>2, <1>3, <2>1
  <2>3. QED  BY <2>1, <2>2
<1>6. Growth(new)  BY <1>1, <1>2, <1>4, <1>5 DEF Growth
<1>7. QED  BY <1>1, <1>2, <1>6 DEF new

LEMMA EndAnnotationStep ==
    ASSUME CInv, conf' = conf, EndAnnotation
    PROVE  CInv' /\ Adds
<1> DEFINE anchor == <<"tocref", tocIndex>>
           entry == TocEntry(anchor, cur, 0)
           new == MarkedItems(cur, <<anchor>>)
<1>1. /\ phase = "description" /\ Len(stack) = 1 /\ files' = Append(files, Top.to)
      /\ docs' = [docs EXCEPT ![Top.to].items = Append(@, anchor)]
      /\ toc' = Append(toc, entry) /\ tocIndex' = tocIndex + 1 /\ stack' = <<>>
      /\ phase' = "bodies" /\ cur' = cur /\ links' = links
      /\ firstBodyTitle' = firstBodyTitle /\ specialParagraph' = specialParagraph
  BY DEF EndAnnotation
<1>2. Types  BY DEF CInv
<1>3. stack # <<>>
  <2>1. SUFFICES ASSUME stack = <<>> PROVE FALSE  OBVIOUS
  <2>2. Len(stack) = 0  BY <2>1, EmptySeq
  <2>3. QED  BY <1>1, <2>2
<1>4. Top.to = cur /\ cur \in 1..Len(docs) /\ files = <<>>
  <2>1. Top = stack[1]  BY <1>1 DEF Top
  <2>2. QED  BY <1>1, <1>3, <2>1, OpenFrame DEF CInv, Shape
<1>5. /\ docs \in Seq(Doc) /\ Len(docs) \in Nat /\ tocIndex \in Nat /\ toc \in Seq(TocEntries)
      /\ docs[cur] \in Doc /\ cur = Len(docs) /\ files \in Seq(Nat)
  BY <1>2, <1>3, OpenFrame, LenProperties DEF Types
<1>6. anchor \in Item /\ anchor[1] = "tocref"  BY <1>5 DEF Item
<1>7. /\ entry \in TocEntries /\ entry.anchor = anchor /\ entry.doc = cur
  BY <1>2, <1>4, <1>5, HeaderIsNat DEF TocEntry, TocEntries
<1> HIDE DEF entry
<1>8. /\ Growth(new) /\ docs' \in Seq(Doc) /\ Len(docs') = Len(docs) /\ cur' = Len(docs')
      /\ \A d \in 1..Len(docs) : docs'[d].pages = docs[d].pages /\ docs'[d].name = docs[d].name
  <2> HIDE DEF anchor
  <2>1. docs[cur].items \in Seq(Item)  BY <1>5 DEF Doc
  <2>2. Append(docs[cur].items, anchor) = docs[cur].items \o <<anchor>>
    BY <1>6, <2>1, AppendIsConcat
  <2>3. <<anchor>> \in Seq(Item)  BY <1>6, ShortSeqs
  <2>4. Marked(cur, Append(docs[cur].items, anchor))
    BY <1>1, <1>4 DEF Marked
  <2>5. cur' = cur  BY <1>1
  <2>6. QED  BY <1>2, <1>4, <2>2, <2>3, <2>4, <2>5, MarkGrows
<1>9. \A d \in 1..Len(docs') : new[d] = IF d = cur THEN <<anchor>> ELSE <<>>
  BY DEF MarkedItems
<1> HIDE DEF new
<1>10. \A d \in 1..Len(docs') : \A j \in 1..Len(new[d]) :
            d = cur /\ j = 1 /\ new[d][j] = anchor
  <2> SUFFICES ASSUME NEW d \in 1..Len(docs'), NEW j \in 1..Len(new[d])
               PROVE  d = cur /\ j = 1 /\ new[d][j] = anchor
    OBVIOUS
  <2>1. CASE d = cur  BY <1>9, <2>1
  <2>2. CASE d # cur  BY <1>9, <2>2, EmptySeq
  <2>3. QED  BY <2>1, <2>2
<1>11. new[cur] = <<anchor>> /\ cur \in 1..Len(docs')  BY <1>4, <1>8, <1>9
<1>12. Adds
  <2>1. AddsLink(new)  BY <1>1 DEF AddsLink
  <2>2. \A d \in 1..Len(docs') : \A j \in 1..Len(new[d]) :
            ~IsText(new[d][j]) /\ ~IsPage(new[d][j])
    BY <1>6, <1>10 DEF IsText, IsPage
  <2>3. \E j \in 1..Len(new[entry.doc]) : new[entry.doc][j] = entry.anchor
    <3>1. 1 \in 1..Len(<<anchor>>) /\ <<anchor>>[1] = anchor  OBVIOUS
    <3>2. QED  BY <1>7, <1>11, <3>1
  <2>4. AddsToc(new)  BY <1>1, <1>7, <1>10, <1>11, <2>3 DEF AddsToc
  <2>5. AddsFile  BY <1>1, <1>4, <1>5, <1>8 DEF AddsFile
  <2>6. \A d \in 1..Len(docs') : d > Len(docs) => docs'[d].pages <= 0  BY <1>5, <1>8
  <2>7. AddsVignette(new)  BY <1>6, <1>10 DEF AddsVignette
  <2>8. QED  BY <1>2, <1>8, <2>1, <2>2, <2>4, <2>5, <2>6, <2>7, MarksAdd
<1>13. stack' \in Seq(Frames) /\ Len(stack') = 0  BY <1>1, EmptySeq
<1>14. Types'
  <2>1. toc' \in Seq(TocEntries)  BY <1>1, <1>5, <1>7, AppendProperties
  <2>2. files' \in Seq(Nat)  BY <1>1, <1>4, <1>5, AppendProperties
  <2>3. QED  BY SMTT(40), <1>1, <1>2, <1>5, <1>8, <1>13, <2>1, <2>2 DEF Types
<1>15. Shape' /\ Unsplit' /\ InStep'
  BY <1>1, <1>13 DEF Shape, Unsplit, InStep
<1>16. PagesCounted'
  <2>1. PagesCounted  BY DEF CInv
  <2>2. \A d \in 1..Len(docs') : d <= Len(docs) => docs'[d].pages = docs[d].pages
    BY <1>5, <1>8
  <2>3. \A d \in 1..Len(docs') : d > Len(docs) => docs'[d].pages <= 0  BY <1>5, <1>8
  <2>4. QED  BY <1>1, <1>2, <1>8, <2>1, <2>2, <2>3, PagesKept
<1>17. QED  BY <1>12, <1>14, <1>15, <1>16 DEF CInv

-----------------------------------------------------------------------------
(* A frame is pushed, by a container or by a section.                      *)
LEMMA PushKeepsControl ==
    ASSUME Settled, CInv, stack # <<>>, NEW open \in BOOLEAN,
           NEW f \in Frames, stack' = Append(stack, f), f.tag \in {"section"} \union Containers,
           f.inner = cur', f.to = cur', f.mode = "start", f.number <= Len(links'),
           f.tag = "section" => Top.tag \in {"body", "section"},
           open => f.tag = "section" /\ Opens,
           ~open => Top.inner = cur,
           MaySplitText(conf) /\ f.tag \in Containers =>
                f.tag = "epigraph" /\ Top.tag \notin Containers /\ specialParagraph',
           firstBodyTitle' \in {firstBodyTitle, FALSE},
           f.tag = "section" /\ Main /\ Len(stack) = 1 => ~firstBodyTitle',
           docs' \in Seq(Doc), Len(docs') = (IF open THEN Len(docs) + 1 ELSE Len(docs)),
           cur' = Len(docs'),
           \A d \in 1..Len(docs) : docs'[d].pages = docs[d].pages /\ docs'[d].name = docs[d].name,
           open => docs'[Len(docs) + 1].pages = 0,
           conf' = conf, phase' = phase, toc' \in Seq(TocEntries), tocIndex' \in Nat,
           Len(links) < MaxElems, links' \in Seq(Nat), Len(links') = Len(links) + 1,
           files' = IF open THEN Append(files, Len(docs) + 1) ELSE files,
           specialParagraph' \in BOOLEAN
    PROVE  CInv'
<1> DEFINE L == Len(stack)
<1>1. /\ L \in Nat \ {0} /\ L \in 1..L /\ Top = stack[L] /\ Top \in Frames
      /\ cur \in 1..Len(docs)
  BY OpenFrame
<1>2. /\ Types /\ conf \in Settings /\ stack \in Seq(Frames) /\ cur = Len(docs)
      /\ files \in Seq(Nat) /\ links \in Seq(Nat) /\ Len(links) \in Nat /\ Len(docs) \in Nat
      /\ firstBodyTitle \in BOOLEAN /\ phase \in {"description", "bodies", "main", "notes"}
  BY LenProperties DEF CInv, Types
<1>3. /\ stack' \in Seq(Frames) /\ Len(stack') = L + 1 /\ stack' # <<>>
      /\ \A j \in 1..L : stack'[j] = stack[j]
      /\ stack'[L + 1] = f
  <2>1. stack \in Seq(Frames)  BY <1>2
  <2>2. QED  BY SMTT(40), <2>1, AppendProperties
<1> HIDE DEF L
<1>4. \A j \in 1..(L + 1) : j \in 1..L \/ j = L + 1  BY <1>1
<1>5. cur' \in 1..Len(docs') /\ (~open => cur' = cur) /\ \A d \in 1..Len(docs) : d \in 1..Len(docs')
  <2>1. CASE open  BY SMTT(40), <1>2, <2>1
  <2>2. CASE ~open  BY <1>1, <1>2, <2>2
  <2>3. QED  BY <2>1, <2>2
<1>6. open => phase # "description" /\ \A j \in 1..L : stack[j].tag \in {"body", "section"}
  BY UnderSections DEF L
<1>7. Types'
  <2>1. files' \in Seq(Nat)  BY <1>2, AppendProperties
  <2>2. Len(links') <= MaxElems  BY <1>2
  <2>3. QED  BY <1>2, <1>3, <2>1, <2>2 DEF Types
<1>8. Shape'
  <2>1. ASSUME NEW j \in 1..Len(stack')
        PROVE  /\ stack'[j].tag \in {"body", "annotation"} <=> j = 1
               /\ stack'[j].tag = "section" =>
                    \A i \in 1..(j - 1) : stack'[i].tag \in {"body", "section"}
               /\ stack'[j].mode = "sections" => stack'[j].tag \in {"body", "section"}
               /\ stack'[j].to \in 1..Len(docs')
               /\ stack'[j].inner \in 1..Len(docs')
               /\ stack'[j].number <= Len(links')
    <3>1. CASE j \in 1..L
      <4>1. /\ stack[j].tag \in {"body", "annotation"} <=> j = 1
            /\ stack[j].tag = "section" =>
                \A i \in 1..(j - 1) : stack[i].tag \in {"body", "section"}
            /\ stack[j].mode = "sections" => stack[j].tag \in {"body", "section"}
            /\ stack[j].to \in 1..Len(docs)
            /\ stack[j].inner \in 1..Len(docs)
            /\ stack[j].number <= Len(links)
        BY <3>1 DEF CInv, Shape, L
      <4>2. stack'[j] = stack[j]  BY <1>3, <3>1
      <4>3. \A i \in 1..(j - 1) : i \in 1..L /\ stack'[i] = stack[i]  BY <1>1, <1>3, <3>1
      <4>4. stack[j].number \in Nat
        <5>1. stack[j] \in Frames  BY <1>2, <3>1, ElementOfSeq DEF L
        <5>2. QED  BY <5>1 DEF Frames
      <4>5. stack[j].number <= Len(links')  BY SMTT(40), <1>2, <4>1, <4>4
      <4>6. QED  BY <1>5, <4>1, <4>2, <4>3, <4>5
    <3>2. CASE j = L + 1
      <4>1. stack'[j] = f  BY <1>3, <3>2
      <4>2. f.tag \notin {"body", "annotation"} /\ j # 1
        <5>1. f.tag \notin {"body", "annotation"}  BY DEF Containers, Special
        <5>2. j # 1  BY <1>1, <3>2
        <5>3. QED  BY <5>1, <5>2
      <4>3. f.tag = "section" => \A i \in 1..(j - 1) : stack'[i].tag \in {"body", "section"}
        <5>1. SUFFICES ASSUME f.tag = "section", NEW i \in 1..(j - 1)
                       PROVE  stack'[i].tag \in {"body", "section"}
          OBVIOUS
        <5>2. i \in 1..L /\ stack'[i] = stack[i]  BY <1>1, <1>3, <3>2
        <5>3. stack[i].tag \in {"body", "section"}  BY <5>1, <5>2, UnderSections DEF L
        <5>4. QED  BY <5>2, <5>3
      <4>4. QED  BY <1>5, <4>1, <4>2, <4>3
    <3>3. QED  BY <1>3, <1>4, <3>1, <3>2
  <2>2. phase' = "description" => AnnotationPage' /\ files' = <<>>
    BY <1>6 DEF CInv, Shape, AnnotationPage
  <2>3. phase' # "bodies"  BY DEF CInv, Shape
  <2>4. stack'[1] = stack[1] /\ stack'[1].to = stack[1].to
    <3>1. 1 \in 1..L  BY <1>1
    <3>2. QED  BY <1>3, <3>1
  <2>5. stack'[1].tag = "annotation" <=> phase' = "description"
    BY <2>4 DEF CInv, Shape
  <2>6. ~open => docs'[cur'].pages = docs[cur].pages /\ docs'[cur'].name = docs[cur].name
    BY <1>1, <1>5
  <2>7. phase' = "description" => docs'[cur'].pages = NoPages /\ stack'[1].to = cur'
    BY <1>5, <1>6, <2>4, <2>6 DEF CInv, Shape
  <2>8. phase' # "description" => docs'[cur'].pages # NoPages
    <3>1. CASE open  BY <3>1 DEF NoPages
    <3>2. CASE ~open  BY <2>6, <3>2 DEF CInv, Shape
    <3>3. QED  BY <3>1, <3>2
  <2>9. phase' = "notes" => docs'[cur'].name[1] = "notes"
    <3>1. SUFFICES ASSUME phase' = "notes" PROVE docs'[cur'].name[1] = "notes"  OBVIOUS
    <3>2. ~open  BY <3>1 DEF Opens, Main
    <3>3. QED  BY <2>6, <3>1, <3>2 DEF CInv, Shape
  <2>10. QED  BY <1>3, <2>1, <2>2, <2>3, <2>5, <2>7, <2>8, <2>9 DEF Shape
<1>9. Unsplit'
  <2> SUFFICES ASSUME MaySplitText(conf), NEW j \in 1..Len(stack'), stack'[j].tag \in Containers
               PROVE  /\ stack'[j].tag = "epigraph" /\ j = Len(stack')
                      /\ stack'[j].mode # "tail" => specialParagraph'
    BY DEF Unsplit
  <2>1. j \notin 1..L
    <3>1. SUFFICES ASSUME j \in 1..L PROVE FALSE  OBVIOUS
    <3>2. stack[j].tag \in Containers  BY <1>3, <3>1
    <3>3. j = L /\ Top.tag \in Containers  BY <1>1, <3>1, <3>2 DEF CInv, Unsplit, L
    <3>4. Top.tag \notin {"body", "section"}  BY <3>3 DEF Containers, Special
    <3>5. QED  BY <3>3, <3>4
  <2>2. j = L + 1 /\ stack'[j] = f  BY <1>3, <1>4, <2>1
  <2>3. QED  BY <1>3, <2>2
<1>10. InStep'
  <2>0. Opens' <=> Opens  BY DEF Opens, Main, ChapterPerFile, ChapterLevel
  <2> SUFFICES ASSUME NEW j \in 1..(L + 1)
               PROVE  /\ ~Opens' => stack'[j].inner = cur'
                      /\ j = L + 1 /\ ~Waits(j)' => stack'[j].inner = cur'
                      /\ j < L + 1 /\ stack'[j + 1].tag \in Containers => stack'[j].inner = cur'
                      /\ Main' /\ Waits(j)' => ~firstBodyTitle'
                      /\ Main' /\ j > 1 /\ stack'[2].tag = "section" => ~firstBodyTitle'
    BY <1>3 DEF InStep
  <2>1. j = L + 1 => stack'[j].inner = cur' /\ ~Waits(j)'
    BY <1>3 DEF Waits, Containers, Special
  <2>2. ~Opens' => stack'[j].inner = cur'
    <3>1. j \in 1..L /\ ~Opens => stack[j].inner = cur  BY DEF CInv, InStep, L
    <3>2. QED  BY <1>3, <1>4, <1>5, <2>0, <2>1, <3>1
  <2>3. ASSUME j < L + 1, stack'[j + 1].tag \in Containers
        PROVE  stack'[j].inner = cur'
    <3>1. j \in 1..L /\ stack'[j] = stack[j]  BY SMTT(40), <1>3, <1>4, <2>3
    <3>2. CASE j = L
      <4>1. stack'[j + 1] = f  BY <1>3, <3>2
      <4>2. f.tag # "section"  BY <2>3, <4>1 DEF Containers, Special
      <4>3. ~open  BY <4>2
      <4>4. QED  BY <1>1, <1>5, <3>1, <3>2, <4>3
    <3>3. CASE j # L
      <4>1. j + 1 \in 1..L /\ stack'[j + 1] = stack[j + 1]  BY <1>1, <1>3, <3>1, <3>3
      <4>2. stack[j + 1].tag \in Containers  BY <2>3, <4>1
      <4>3. stack[j].inner = cur  BY <1>1, <3>1, <3>3, <4>2 DEF CInv, InStep, L
      <4>4. stack[j + 1].tag \notin {"body", "section"}  BY <4>2 DEF Containers, Special
      <4>5. ~open  BY <1>6, <4>1, <4>4
      <4>6. QED  BY <1>5, <3>1, <4>3, <4>5
    <3>4. QED  BY <3>2, <3>3
  <2>4. Main' /\ Waits(j)' => ~firstBodyTitle'
    <3>1. SUFFICES ASSUME Main', Waits(j)' PROVE ~firstBodyTitle'  OBVIOUS
    <3>2. j \in 1..L  BY <1>4, <2>1, <3>1
    <3>3. Waits(j) /\ Main  BY <1>3, <3>1, <3>2 DEF Waits, Main
    <3>4. ~firstBodyTitle  BY <3>2, <3>3 DEF CInv, InStep, L
    <3>5. QED  BY <3>4
  <2>5. Main' /\ j > 1 /\ stack'[2].tag = "section" => ~firstBodyTitle'
    <3>1. SUFFICES ASSUME Main', j > 1, stack'[2].tag = "section" PROVE ~firstBodyTitle'  OBVIOUS
    <3>2. Main  BY <3>1 DEF Main
    <3>3. CASE L = 1
      <4>1. f.tag = "section"  BY <1>3, <3>1, <3>3
      <4>2. QED  BY <3>2, <3>3, <4>1 DEF L
    <3>4. CASE L # 1
      <4>1. 2 \in 1..L /\ stack'[2] = stack[2]  BY <1>1, <1>3, <3>4
      <4>2. ~firstBodyTitle  BY <3>1, <3>2, <4>1 DEF CInv, InStep, L
      <4>3. QED  BY <4>2
    <3>5. QED  BY <3>3, <3>4
  <2>6. QED  BY <2>1, <2>2, <2>3, <2>4, <2>5
<1>11. PagesCounted'
  <2>1. PagesCounted  BY DEF CInv
  <2>2. \A d \in 1..Len(docs') : d <= Len(docs) => docs'[d].pages = docs[d].pages
    BY <1>2
  <2>3. \A d \in 1..Len(docs') : d > Len(docs) => docs'[d].pages <= 0
    <3>1. \A d \in 1..Len(docs') : d > Len(docs) => open /\ d = Len(docs) + 1  BY SMTT(40), <1>2
    <3>2. QED  BY <3>1
  <2>4. QED  BY <1>2, <2>1, <2>2, <2>3, PagesKept
<1>12. QED  BY <1>7, <1>8, <1>9, <1>10, <1>11 DEF CInv

LEMMA OpenContainerStep ==
    ASSUME Settled, CInv, conf' = conf, NEW kind \in Containers, OpenContainer(kind)
    PROVE  CInv' /\ Adds
<1> DEFINE f == Frame(kind, Top.inner, Number)
           items == <<<<"id", Number>>>>
<1>1. /\ Allows(kind) /\ Write(FALSE, items, 0) /\ Locate(FALSE)
      /\ stack' = Append(stack, f)
      /\ specialParagraph' = (specialParagraph \/ kind \in Special)
      /\ phase' = phase /\ files' = files /\ cur' = cur /\ toc' = toc /\ tocIndex' = tocIndex
      /\ firstBodyTitle' = firstBodyTitle
  BY DEF OpenContainer
<1>2. stack # <<>> /\ Len(links) < MaxElems /\ kind \in conf.kinds  BY <1>1 DEF Allows
<1>3. Types /\ conf \in Settings  BY DEF CInv, Types
<1>4. ~Waits(Len(stack))
  <2>1. kind \in {"title", "epigraph", "p", "cite", "poem", "subtitle", "divider", "verse", "author"}
    BY DEF Containers, Special
  <2>2. QED  BY <1>1, <1>2, <2>1, NotWaiting
<1>5. Top.inner = cur /\ docs # <<>> /\ cur \in 1..Len(docs)  BY <1>2, <1>4, OpenFrame
<1>6. Target(FALSE) = Current(FALSE) /\ cur' = Current(FALSE)  BY <1>1, <1>5 DEF Target, Current
<1>7. /\ Number \in Nat /\ Number = Len(links) + 1 /\ tocIndex \in Nat /\ toc \in Seq(TocEntries)
      /\ Len(docs) \in Nat /\ links \in Seq(Nat)
  BY <1>3, LenProperties DEF Number, Types
<1>8. items \in Seq(Item)
  <2>1. <<"id", Number>> \in Item  BY <1>7 DEF Item
  <2>2. QED  BY <2>1, ShortSeqs
<1>9. /\ Len(items) = 1 /\ 1 \in 1..Len(items) /\ items[1] = <<"id", Number>>
      /\ \A j \in 1..Len(items) : j # 1 => items[j] = <<"tocref", tocIndex>>
  OBVIOUS
<1> HIDE DEF items
<1>10. Wrote(FALSE, 0) /\ cur' \in 1..Len(docs')
  BY <1>1, <1>3, <1>5, <1>6, <1>8, WriteGrows
<1>11. Adds
  BY <1>1, <1>3, <1>5, <1>6, <1>8, <1>9, WriteAdds
<1>12. /\ docs' \in Seq(Doc) /\ Len(docs') = Len(docs) /\ cur' = Len(docs')
       /\ \A d \in 1..Len(docs) : docs'[d].pages = docs[d].pages /\ docs'[d].name = docs[d].name
  <2>1. ASSUME NEW d \in 1..Len(docs)
        PROVE  docs'[d].pages = docs[d].pages
    <3>1. d \in 1..Len(docs') /\ OldPages(d) = docs[d].pages
      BY <1>7, <1>10 DEF Wrote, OldPages
    <3>2. docs[d].pages \in Int
      <4>1. docs[d] \in Doc  BY <1>3, ElementOfSeq DEF Types
      <4>2. QED  BY <4>1 DEF Doc, NoPages
    <3>3. docs'[d].pages = docs[d].pages + 0 \/ docs'[d].pages = docs[d].pages
      BY <1>10, <3>1 DEF Wrote
    <3>4. QED  BY <3>2, <3>3
  <2>2. QED  BY <1>10, <2>1 DEF Wrote
<1>13. links' \in Seq(Nat) /\ Len(links') = Len(links) + 1
  <2>1. links' = Append(links, cur)  BY <1>1 DEF Locate, Current
  <2>2. cur \in Nat  BY <1>5, <1>7
  <2>3. QED  BY <1>7, <2>1, <2>2, AppendProperties
<1>14. /\ f \in Frames /\ f.tag = kind /\ f.inner = cur' /\ f.to = cur' /\ f.mode = "start"
       /\ f.number = Number
  <2>1. cur \in Nat  BY <1>5, <1>7
  <2>2. QED  BY <1>1, <1>5, <1>7, <2>1 DEF Frame, Frames, Modes
<1>15. f.number <= Len(links')  BY <1>7, <1>13, <1>14
<1> HIDE DEF f
<1>16. MaySplitText(conf) =>
            kind = "epigraph" /\ Top.tag \notin Containers /\ specialParagraph'
  <2>1. SUFFICES ASSUME MaySplitText(conf)
                 PROVE  kind = "epigraph" /\ Top.tag \notin Containers /\ specialParagraph'
    OBVIOUS
  <2>2. conf.kinds \intersect {"cite", "poem"} = {}  BY <1>3, <2>1 DEF Settled
  <2>3. kind = "epigraph"  BY <1>2, <2>2 DEF Containers, Special
  <2>4. Top.tag \in {"body", "section", "poem"}  BY <1>1, <2>3 DEF Allows
  <2>5. Top.tag # "poem"
    <3>1. SUFFICES ASSUME Top.tag = "poem" PROVE FALSE  OBVIOUS
    <3>2. Len(stack) \in 1..Len(stack) /\ Top = stack[Len(stack)]  BY <1>2, OpenFrame
    <3>3. Top.tag \in Containers  BY <3>1 DEF Containers, Special
    <3>4. Top.tag = "epigraph"  BY <2>1, <3>2, <3>3 DEF CInv, Unsplit
    <3>5. QED  BY <3>1, <3>4
  <2>6. Top.tag \notin Containers  BY <2>4, <2>5 DEF Containers, Special
  <2>7. QED  BY <1>1, <2>3, <2>6 DEF Special
<1>17. specialParagraph' \in BOOLEAN  BY <1>1, <1>3 DEF Types
<1>18. kind # "section"  BY DEF Containers, Special
<1>19. CInv'
  BY <1>1, <1>2, <1>5, <1>7, <1>12, <1>13, <1>14, <1>15, <1>16, <1>17, <1>18, PushKeepsControl
<1>20. QED  BY <1>11, <1>19

(* A frame is popped, of a container or of a section.                      *)
(* What is left of the stack when a frame is popped. *)
LEMMA Popped ==
    ASSUME CInv, stack # <<>>, Top.tag \in {"section"} \union Containers, NEW mode \in Modes,
           stack' = AfterChild(SubSeq(stack, 1, Len(stack) - 1), cur, mode)
    PROVE  LET M == Len(stack) - 1 IN
           /\ M \in Nat \ {0} /\ \A j \in 1..M : j \in 1..Len(stack)
           /\ stack' \in Seq(Frames) /\ Len(stack') = M /\ stack' # <<>>
           /\ \A j \in 1..M :
                /\ stack'[j].tag = stack[j].tag /\ stack'[j].to = stack[j].to
                /\ stack'[j].number = stack[j].number
                /\ j # M => stack'[j].mode = stack[j].mode /\ stack'[j].inner = stack[j].inner
           /\ stack'[M].mode = mode
           /\ stack'[M].inner = IF stack[M].tag = "section" THEN cur ELSE stack[M].inner
<1> DEFINE L == Len(stack)
           M == L - 1
           rest == SubSeq(stack, 1, M)
<1>1. /\ L \in Nat \ {0} /\ L \in 1..L /\ Top = stack[L] /\ Top \in Frames
      /\ cur \in 1..Len(docs) /\ (Top.tag \in {"body", "annotation"} <=> L = 1)
  BY OpenFrame
<1>2. /\ Types /\ conf \in Settings /\ stack \in Seq(Frames) /\ cur = Len(docs)
      /\ links \in Seq(Nat) /\ Len(links) \in Nat /\ Len(docs) \in Nat
  BY LenProperties DEF CInv, Types
<1>3. L # 1
  <2>1. Top.tag \notin {"body", "annotation"}  BY DEF Containers, Special
  <2>2. QED  BY <1>1, <2>1
<1>4. M \in Nat \ {0} /\ M \in 1..L /\ L = M + 1 /\ \A j \in 1..M : j \in 1..L
  <2> HIDE DEF L
  <2>1. L \in Nat /\ L > 1  BY <1>1, <1>3
  <2>2. QED  BY <2>1
<1>5. /\ rest \in Seq(Frames) /\ Len(rest) = M /\ rest # <<>>
      /\ \A j \in 1..M : rest[j] = stack[j]
  <2>1. rest \in Seq(Frames)  BY <1>2, <1>4, SubSeqProperties
  <2>2. Len(rest) = M  BY <1>2, <1>4, SubSeqProperties
  <2>3. \A j \in 1..M : rest[j] = stack[j]  BY <1>2, <1>4, SubSeqProperties
  <2>4. rest # <<>>
    <3>1. SUFFICES ASSUME rest = <<>> PROVE FALSE  OBVIOUS
    <3>2. Len(rest) = 0  BY <3>1, EmptySeq
    <3>3. QED  BY <1>4, <2>2, <3>2
  <2>5. QED  BY <2>1, <2>2, <2>3, <2>4
<1>6. stack' = AfterChild(rest, cur, mode)  OBVIOUS
<1> HIDE DEF L, M, rest
<1>7. /\ stack' \in Seq(Frames) /\ Len(stack') = M /\ stack' # <<>>
      /\ \A j \in 1..M :
            /\ stack'[j].tag = stack[j].tag /\ stack'[j].to = stack[j].to
            /\ stack'[j].number = stack[j].number
            /\ j # M => stack'[j].mode = stack[j].mode /\ stack'[j].inner = stack[j].inner
      /\ stack'[M].mode = mode
      /\ stack'[M].inner = IF stack[M].tag = "section" THEN cur ELSE stack[M].inner
  <2>1. /\ mode \in Modes /\ cur \in Nat
        /\ rest \in Seq(Frames) /\ rest # <<>>
    BY <1>2, <1>5
  <2>2. LET after == AfterChild(rest, cur, mode) IN
           /\ after \in Seq(Frames) /\ Len(after) = Len(rest) /\ after # <<>>
           /\ \A j \in 1..Len(rest) :
                /\ after[j].tag = rest[j].tag /\ after[j].to = rest[j].to
                /\ after[j].number = rest[j].number
                /\ j # Len(rest) => after[j] = rest[j]
           /\ after[Len(rest)].mode = mode
           /\ after[Len(rest)].inner = IF rest[Len(rest)].tag = "section" THEN cur
                                       ELSE rest[Len(rest)].inner
    BY <2>1, AfterChildFrames
  <2>3. M \in 1..M  BY <1>4
  <2>4. QED  BY <1>5, <1>6, <2>2, <2>3
<1>8. QED  BY <1>4, <1>7 DEF L, M

LEMMA PopKeepsControl ==
    ASSUME CInv, stack # <<>>, NEW mode \in {"head", "text", "sections"},
           stack' = AfterChild(SubSeq(stack, 1, Len(stack) - 1), cur, mode),
           Top.tag \in {"section"} \union Containers,
           mode = "sections" <=> Top.tag = "section",
           docs' \in Seq(Doc), Len(docs') = Len(docs), cur' = cur,
           \A d \in 1..Len(docs) : docs'[d].pages = docs[d].pages /\ docs'[d].name = docs[d].name,
           conf' = conf, phase' = phase, files' = files, links' = links,
           toc' \in Seq(TocEntries), tocIndex' \in Nat,
           firstBodyTitle' = firstBodyTitle, specialParagraph' \in BOOLEAN
    PROVE  CInv'
<1> DEFINE L == Len(stack)
           M == L - 1
<1>1. /\ L \in Nat \ {0} /\ L \in 1..L /\ Top = stack[L] /\ Top \in Frames
      /\ cur \in 1..Len(docs) /\ (Top.tag \in {"body", "annotation"} <=> L = 1)
  BY OpenFrame
<1>2. /\ Types /\ conf \in Settings /\ stack \in Seq(Frames) /\ cur = Len(docs)
      /\ links \in Seq(Nat) /\ Len(links) \in Nat /\ Len(docs) \in Nat
  BY LenProperties DEF CInv, Types
<1>3. L # 1
  <2>1. Top.tag \notin {"body", "annotation"}  BY DEF Containers, Special
  <2>2. QED  BY <1>1, <2>1
<1>4. M \in Nat \ {0} /\ M \in 1..L /\ L = M + 1 /\ \A j \in 1..M : j \in 1..L
  <2> HIDE DEF L
  <2>1. L \in Nat /\ L > 1  BY <1>1, <1>3
  <2>2. QED  BY <2>1
<1>5. mode \in Modes  BY DEF Modes
<1>6. M \in Nat \ {0} /\ M \in 1..M /\ \A j \in 1..M : j \in 1..L  BY <1>4
<1>7. /\ stack' \in Seq(Frames) /\ Len(stack') = M /\ stack' # <<>>
      /\ \A j \in 1..M :
            /\ stack'[j].tag = stack[j].tag /\ stack'[j].to = stack[j].to
            /\ stack'[j].number = stack[j].number
            /\ j # M => stack'[j].mode = stack[j].mode /\ stack'[j].inner = stack[j].inner
      /\ stack'[M].mode = mode
      /\ stack'[M].inner = IF stack[M].tag = "section" THEN cur ELSE stack[M].inner
  BY <1>5, Popped
<1> HIDE DEF L, M
<1>8. Types'  BY <1>2, <1>7 DEF Types
<1>9. \A j \in 1..L :
        /\ stack[j].tag \in {"body", "annotation"} <=> j = 1
        /\ stack[j].tag = "section" =>
                \A i \in 1..(j - 1) : stack[i].tag \in {"body", "section"}
        /\ stack[j].mode = "sections" => stack[j].tag \in {"body", "section"}
        /\ stack[j].to \in 1..Len(docs)
        /\ stack[j].inner \in 1..Len(docs)
        /\ stack[j].number <= Len(links)
  BY DEF CInv, Shape, L
<1>10. Top.tag = "section" => \A j \in 1..M : stack[j].tag \in {"body", "section"}
  BY <1>1, <1>4, <1>9
<1>11. Shape'
  <2>1. ASSUME NEW j \in 1..Len(stack')
        PROVE  /\ stack'[j].tag \in {"body", "annotation"} <=> j = 1
               /\ stack'[j].tag = "section" =>
                    \A i \in 1..(j - 1) : stack'[i].tag \in {"body", "section"}
               /\ stack'[j].mode = "sections" => stack'[j].tag \in {"body", "section"}
               /\ stack'[j].to \in 1..Len(docs')
               /\ stack'[j].inner \in 1..Len(docs')
               /\ stack'[j].number <= Len(links')
    <3>1. j \in 1..M /\ j \in 1..L  BY <1>4, <1>7
    <3>2. stack'[j].tag \in {"body", "annotation"} <=> j = 1  BY <1>7, <1>9, <3>1
    <3>3. stack'[j].tag = "section" =>
             \A i \in 1..(j - 1) : stack'[i].tag \in {"body", "section"}
      <4>1. SUFFICES ASSUME stack'[j].tag = "section", NEW i \in 1..(j - 1)
                     PROVE  stack'[i].tag \in {"body", "section"}
        OBVIOUS
      <4>2. i \in 1..M  BY <1>4, <3>1
      <4>3. stack[j].tag = "section"  BY <1>7, <3>1, <4>1
      <4>4. stack[i].tag \in {"body", "section"}  BY <1>9, <3>1, <4>3
      <4>5. QED  BY <1>7, <4>2, <4>4
    <3>4. stack'[j].mode = "sections" => stack'[j].tag \in {"body", "section"}
      BY SMTT(40), <1>7, <1>9, <1>10, <3>1
    <3>5. stack'[j].to \in 1..Len(docs')  BY <1>7, <1>9, <3>1
    <3>6. stack'[j].inner \in 1..Len(docs')
      <4>1. stack[j].inner \in 1..Len(docs)  BY <1>9, <3>1
      <4>2. stack'[j].inner = cur \/ stack'[j].inner = stack[j].inner  BY <1>7, <3>1
      <4>3. QED  BY <1>1, <4>1, <4>2
    <3>7. stack'[j].number <= Len(links')  BY <1>7, <1>9, <3>1
    <3>8. QED  BY <3>2, <3>3, <3>4, <3>5, <3>6, <3>7
  <2>2. stack'[1].tag = stack[1].tag /\ stack'[1].to = stack[1].to
    <3>1. 1 \in 1..M  BY <1>4
    <3>2. QED  BY <1>7, <3>1
  <2>3. docs'[cur'].pages = docs[cur].pages /\ docs'[cur'].name = docs[cur].name
    BY <1>1
  <2>4. QED  BY <1>7, <2>1, <2>2, <2>3 DEF CInv, Shape, AnnotationPage
<1>12. Unsplit'
  <2> SUFFICES ASSUME MaySplitText(conf), NEW j \in 1..M, stack'[j].tag \in Containers
               PROVE  FALSE
    BY <1>7 DEF Unsplit
  <2>1. stack[j].tag \in Containers /\ j \in 1..L  BY <1>4, <1>7
  <2>2. j = L  BY <2>1 DEF CInv, Unsplit, L
  <2>3. QED  BY <1>4, <2>2
<1>13. InStep'
  <2> SUFFICES ASSUME NEW j \in 1..M
               PROVE  /\ ~Opens' => stack'[j].inner = cur'
                      /\ j = M /\ ~Waits(j)' => stack'[j].inner = cur'
                      /\ j < M /\ stack'[j + 1].tag \in Containers => stack'[j].inner = cur'
                      /\ Main' /\ Waits(j)' => ~firstBodyTitle'
                      /\ Main' /\ j > 1 /\ stack'[2].tag = "section" => ~firstBodyTitle'
    BY <1>7 DEF InStep
  <2>1. /\ ~Opens => stack[j].inner = cur
        /\ j < L /\ stack[j + 1].tag \in Containers => stack[j].inner = cur
        /\ Main /\ Waits(j) => ~firstBodyTitle
        /\ Main /\ j > 1 /\ stack[2].tag = "section" => ~firstBodyTitle
    BY <1>4 DEF CInv, InStep, L
  <2>2. Opens' = Opens /\ Main' = Main  BY DEF Opens, Main, ChapterPerFile, ChapterLevel
  <2>3. ~Opens' => stack'[j].inner = cur'  BY <1>7, <2>1, <2>2
  <2>4. ASSUME j = M, ~Waits(j)'
        PROVE  stack'[j].inner = cur'
    <3>1. CASE stack[M].tag = "section"  BY <1>7, <2>4, <3>1
    <3>2. CASE stack[M].tag # "section" /\ Top.tag \in Containers
      <4>1. stack[j + 1].tag \in Containers /\ j < L  BY <1>1, <1>4, <2>4, <3>2
      <4>2. QED  BY <1>7, <2>1, <2>4, <3>2, <4>1
    <3>3. CASE stack[M].tag # "section" /\ Top.tag = "section"
      <4>1. stack[M].tag = "body"  BY <1>4, <1>10, <3>3
      <4>2. stack'[j].tag = "body" /\ stack'[j].mode = "sections"  BY <1>7, <2>4, <3>3, <4>1
      <4>3. QED  BY <2>4, <4>2 DEF Waits
    <3>4. QED  BY <3>1, <3>2, <3>3
  <2>5. ASSUME j < M, stack'[j + 1].tag \in Containers
        PROVE  stack'[j].inner = cur'
    <3>1. j + 1 \in 1..M /\ j < L  BY <1>4, <2>5
    <3>2. stack[j + 1].tag \in Containers  BY <1>7, <2>5, <3>1
    <3>3. QED  BY <1>4, <1>7, <2>1, <2>5, <3>1, <3>2
  <2>6. Main' /\ j > 1 /\ stack'[2].tag = "section" => ~firstBodyTitle'
    <3>1. j > 1 => 2 \in 1..M  BY <1>4
    <3>2. QED  BY <1>7, <2>1, <2>2, <3>1
  <2>7. ASSUME Main', Waits(j)'
        PROVE  ~firstBodyTitle'
    <3>1. stack'[j].tag = "body" /\ stack'[j].mode = "sections"  BY <2>7 DEF Waits
    <3>2. CASE j # M
      <4>1. Waits(j)  BY <1>7, <3>1, <3>2 DEF Waits
      <4>2. QED  BY <2>1, <2>2, <2>7, <4>1
    <3>3. CASE j = M
      <4>1. Top.tag = "section"  BY <1>7, <3>1, <3>3
      <4>2. j = 1
        <5>1. stack[j].tag = "body" /\ j \in 1..L  BY <1>4, <1>7, <3>1
        <5>2. QED  BY <1>9, <5>1
      <4>3. L = 2  BY <1>4, <3>3, <4>2
      <4>4. 2 \in 1..L /\ stack[2].tag = "section"  BY <1>1, <4>1, <4>3
      <4>5. ~firstBodyTitle  BY <2>2, <2>7, <4>4 DEF CInv, InStep, L
      <4>6. QED  BY <4>5
    <3>4. QED  BY <3>2, <3>3
  <2>8. QED  BY <2>3, <2>4, <2>5, <2>6, <2>7
<1>14. PagesCounted'  BY DEF CInv, PagesCounted
<1>15. QED  BY <1>8, <1>11, <1>12, <1>13, <1>14 DEF CInv

LEMMA CloseContainerStep ==
    ASSUME CInv, conf' = conf, CloseContainer
    PROVE  CInv' /\ Adds
<1>1. /\ stack # <<>> /\ Top.tag \in Containers
      /\ stack' = AfterChild(SubSeq(stack, 1, Len(stack) - 1), cur,
                             IF Top.tag = "epigraph" THEN "head" ELSE "text")
      /\ specialParagraph' = (specialParagraph /\ Top.tag \notin Special)
      /\ phase' = phase /\ docs' = docs /\ files' = files /\ cur' = cur /\ toc' = toc
      /\ links' = links /\ tocIndex' = tocIndex /\ firstBodyTitle' = firstBodyTitle
  BY DEF CloseContainer
<1>2. Types  BY DEF CInv
<1>3. /\ docs \in Seq(Doc) /\ cur = Len(docs) /\ toc \in Seq(TocEntries) /\ tocIndex \in Nat
  BY <1>2 DEF Types
<1>4. AddsFile  BY <1>1 DEF AddsFile
<1>5. Adds  BY <1>1, <1>2, <1>3, <1>4, NothingAdded
<1>6. specialParagraph' \in BOOLEAN  BY <1>1, <1>2 DEF Types
<1>7. Top.tag # "section"  BY <1>1 DEF Containers, Special
<1>8. PICK mode \in {"head", "text", "sections"} :
        /\ mode # "sections"
        /\ stack' = AfterChild(SubSeq(stack, 1, Len(stack) - 1), cur, mode)
  BY <1>1
<1>9. CInv'  BY <1>1, <1>3, <1>6, <1>7, <1>8, PopKeepsControl
<1>10. QED  BY <1>5, <1>9

LEMMA SectionsAbove ==
    ASSUME CInv, stack # <<>>, Top.tag \in {"body", "section"}
    PROVE  Header \in Nat /\ (Header = 0 <=> Top.tag = "body") /\ (Top.tag = "body" <=> Len(stack) = 1)
<1> DEFINE S == {k \in 1..Len(stack) : stack[k].tag = "section"}
<1>1. /\ Len(stack) \in Nat \ {0} /\ Len(stack) \in 1..Len(stack) /\ Top = stack[Len(stack)]
      /\ (Top.tag \in {"body", "annotation"} <=> Len(stack) = 1)
  BY OpenFrame
<1>2. IsFiniteSet(1..Len(stack))  BY <1>1, FS_Interval
<1>3. IsFiniteSet(S)  BY <1>2, FS_Subset
<1>4. Header = Cardinality(S)  BY DEF Header
<1>5. Header \in Nat /\ (Header = 0 <=> S = {})  BY <1>3, <1>4, FS_CardinalityType, FS_EmptySet
<1>6. Top.tag = "section" => S # {}  BY <1>1
<1>7. Top.tag = "body" => S = {}
  <2>1. SUFFICES ASSUME Top.tag = "body", NEW k \in S PROVE FALSE  OBVIOUS
  <2>2. Len(stack) = 1  BY <1>1, <2>1
  <2>3. k = Len(stack)  BY <2>2
  <2>4. QED  BY <1>1, <2>1, <2>3
<1>8. QED  BY <1>1, <1>5, <1>6, <1>7

(* The documents after the step of OpenSection, by the two places it writes. *)
SectionItems(x, t, fake, section) ==
    [d \in 1..Len(docs') |-> (IF d = x THEN fake ELSE <<>>) \o (IF d = t THEN <<section>> ELSE <<>>)]

Sectioned(open, x, t, fake, section) ==
    LET titled == [docs EXCEPT ![x].items = @ \o fake]
        opened == IF open THEN Append(titled, NewDoc(FileName, 0)) ELSE titled
    IN docs' = [opened EXCEPT ![t].items = Append(@, section)]

LEMMA SectionGrows ==
    ASSUME Types, NEW open \in BOOLEAN, NEW x \in 1..Len(docs), NEW t, NEW fake \in Seq(Item),
           NEW section \in Item, t = (IF open THEN Len(docs) + 1 ELSE Len(docs)), t > 0,
           Sectioned(open, x, t, fake, section), cur' = t
    PROVE  /\ Growth(SectionItems(x, t, fake, section))
           /\ docs' \in Seq(Doc) /\ Len(docs') = t
           /\ \A d \in 1..Len(docs) : docs'[d].pages = docs[d].pages /\ docs'[d].name = docs[d].name
           /\ open => docs'[Len(docs) + 1].pages = 0
<1> DEFINE gx == [docs[x] EXCEPT !.items = docs[x].items \o fake]
           titled == [docs EXCEPT ![x] = gx]
           opened == IF open THEN Append(titled, NewDoc(FileName, 0)) ELSE titled
           A(d) == IF d = x THEN fake ELSE <<>>
           B(d) == IF d = t THEN <<section>> ELSE <<>>
           new == SectionItems(x, t, fake, section)
<1>1. docs \in Seq(Doc) /\ Len(docs) \in Nat /\ \A d \in 1..Len(docs) : docs[d] \in Doc
  BY LenProperties, ElementOfSeq DEF Types
<1>2. /\ gx \in Doc /\ gx.items = docs[x].items \o fake /\ gx.pages = docs[x].pages
      /\ gx.name = docs[x].name
  <2>1. docs[x].items \in Seq(Item)  BY <1>1 DEF Doc
  <2>2. docs[x].items \o fake \in Seq(Item)  BY <2>1, ConcatProperties
  <2>3. QED  BY <1>1, <2>2 DEF Doc
<1>3. [docs EXCEPT ![x].items = @ \o fake] = titled  BY <1>1 DEF Doc
<1> HIDE DEF gx
<1>4. titled \in Seq(Doc) /\ Len(titled) = Len(docs)  BY <1>1, <1>2, ExceptSeq
<1>5. \A d \in 1..Len(docs) : titled[d] = IF d = x THEN gx ELSE docs[d]  BY <1>1
<1>6. docs' = [opened EXCEPT ![t].items = Append(@, section)]  BY <1>3 DEF Sectioned
<1> HIDE DEF titled
<1>7. NewDoc(FileName, 0) \in Doc /\ NewDoc(FileName, 0).items = <<>> /\ NewDoc(FileName, 0).pages = 0
  BY FileNames, EmptySeq DEF NewDoc, Doc
<1>8. /\ opened \in Seq(Doc) /\ Len(opened) = t
      /\ \A d \in 1..Len(docs) : opened[d] = titled[d]
      /\ open => opened[Len(docs) + 1] = NewDoc(FileName, 0)
  <2>1. CASE open  BY <1>4, <1>7, <2>1, AppendProperties
  <2>2. CASE ~open  BY <1>4, <2>2
  <2>3. QED  BY <2>1, <2>2
<1> HIDE DEF opened
<1>9. t \in 1..t /\ t \in Nat  BY <1>1
<1>10. \A d \in 1..t : opened[d] \in Doc  BY <1>8, ElementOfSeq
<1> DEFINE gt == [opened[t] EXCEPT !.items = Append(opened[t].items, section)]
<1>11. docs' = [opened EXCEPT ![t] = gt]  BY <1>6, <1>8, <1>9, <1>10 DEF Doc
<1>12. /\ gt \in Doc /\ gt.items = opened[t].items \o <<section>> /\ gt.pages = opened[t].pages
       /\ gt.name = opened[t].name
  <2>1. opened[t] \in Doc  BY <1>9, <1>10
  <2>2. opened[t].items \in Seq(Item)  BY <2>1 DEF Doc
  <2>3. Append(opened[t].items, section) = opened[t].items \o <<section>>
        /\ Append(opened[t].items, section) \in Seq(Item)
    <3> DEFINE items == opened[t].items
    <3>1. items \in Seq(Item)  BY <2>2
    <3> HIDE DEF items
    <3>2. Append(items, section) = items \o <<section>>  BY <3>1, AppendIsConcat
    <3>3. Append(items, section) \in Seq(Item)  BY <3>1, AppendProperties
    <3>4. QED  BY <3>2, <3>3 DEF items
  <2>4. QED  BY <2>1, <2>3 DEF Doc
<1> HIDE DEF gt
<1>13. docs' \in Seq(Doc) /\ Len(docs') = t  BY <1>8, <1>9, <1>11, <1>12, ExceptSeq
<1>14. \A d \in 1..t : docs'[d] = IF d = t THEN gt ELSE opened[d]
  BY <1>8, <1>9, <1>11
<1>15. \A d \in 1..t : A(d) \in Seq(Item) /\ B(d) \in Seq(Item)
  BY ShortSeqs, EmptySeq
<1>16. \A d \in 1..t : d \in 1..Len(docs) \/ (open /\ d = Len(docs) + 1)  BY <1>1
<1>17. ASSUME NEW d \in 1..t
       PROVE  opened[d].items = Old(d) \o A(d) /\ Old(d) \in Seq(Item)
  <2>1. CASE d \in 1..Len(docs)
    <3>1. Old(d) = docs[d].items /\ docs[d].items \in Seq(Item)  BY <1>1, <2>1 DEF Old, Doc
    <3>2. opened[d].items = docs[d].items \o A(d)
      <4>1. CASE d = x  BY <1>2, <1>5, <1>8, <2>1, <4>1
      <4>2. CASE d # x
        <5>1. docs[d].items \o <<>> = docs[d].items  BY <3>1, ConcatEmptySeq
        <5>2. QED  BY <1>5, <1>8, <2>1, <4>2, <5>1
      <4>3. QED  BY <4>1, <4>2
    <3>3. QED  BY <3>1, <3>2
  <2>2. CASE open /\ d = Len(docs) + 1
    <3>1. Old(d) = <<>> /\ A(d) = <<>>  BY <1>1, <2>2 DEF Old
    <3>2. opened[d].items = <<>>  BY <1>7, <1>8, <2>2
    <3>3. <<>> \in Seq(Item)  BY EmptySeq
    <3>4. <<>> \o <<>> = <<>>  BY <3>3, ConcatEmptySeq
    <3>5. QED  BY <3>1, <3>2, <3>3, <3>4
  <2>3. QED  BY <1>16, <2>1, <2>2
<1>18. \A d \in 1..t : new[d] = A(d) \o B(d)
  BY <1>13 DEF SectionItems
<1> HIDE DEF A, B
<1>19. ASSUME NEW d \in 1..t
       PROVE  docs'[d].items = Old(d) \o new[d] /\ new[d] \in Seq(Item)
  <2>1. docs'[d].items = opened[d].items \o B(d)
    <3>1. CASE d = t  BY <1>12, <1>14, <3>1 DEF B
    <3>2. CASE d # t
      <4>1. opened[d].items \in Seq(Item)  BY <1>10 DEF Doc
      <4>2. opened[d].items \o <<>> = opened[d].items  BY <4>1, ConcatEmptySeq
      <4>3. QED  BY <1>14, <3>2, <4>2 DEF B
    <3>3. QED  BY <3>1, <3>2
  <2>2. Old(d) \in Seq(Item) /\ A(d) \in Seq(Item) /\ B(d) \in Seq(Item)  BY <1>15, <1>17
  <2>3. (Old(d) \o A(d)) \o B(d) = Old(d) \o (A(d) \o B(d))  BY <2>2, Associates, Zenon
  <2>4. A(d) \o B(d) \in Seq(Item)  BY <2>2, ConcatProperties
  <2>5. QED  BY <1>17, <1>18, <2>1, <2>3, <2>4
<1>20. ASSUME NEW d \in 1..Len(docs)
       PROVE  docs'[d].pages = docs[d].pages /\ docs'[d].name = docs[d].name
  <2>1. d \in 1..t  BY <1>1
  <2>2. opened[d].pages = docs[d].pages /\ opened[d].name = docs[d].name
    BY <1>2, <1>5, <1>8
  <2>3. QED  BY <1>12, <1>14, <2>1, <2>2
<1>21. open => docs'[Len(docs) + 1].pages = 0  BY <1>7, <1>8, <1>9, <1>12, <1>14
<1>22. Growth(new)
  <2>1. new = [d \in 1..Len(docs') |-> new[d]]  BY DEF SectionItems
  <2> HIDE DEF new
  <2>2. new \in [1..Len(docs') -> Seq(Item)]  BY <1>13, <1>19, <2>1
  <2>3. Len(docs') \in {Len(docs), Len(docs) + 1}  BY <1>13
  <2>4. QED  BY <1>13, <1>19, <1>20, <2>2, <2>3 DEF Growth
<1>23. QED  BY <1>13, <1>20, <1>21, <1>22

LEMMA OpenSectionStep ==
    ASSUME Settled, CInv, conf' = conf, OpenSection
    PROVE  /\ CInv' /\ Adds
           /\ cur' \in 1..Len(docs') /\ cur' = Target(StartsFile)
           /\ Len(links') = Len(links) + 1
           /\ \E i \in 1..Len(docs'[cur'].items) :
                docs'[cur'].items[i] = <<"section", Len(links) + 1>>
<1> DEFINE open == StartsFile
           x == Top.inner
           t == Target(StartsFile)
           anchor == <<"tocref", tocIndex>>
           fake == IF FakesTitle THEN <<anchor>> ELSE <<>>
           section == <<"section", Number>>
           entry == TocEntry(anchor, cur, 0)
           f == Frame("section", t, Number)
           new == SectionItems(x, t, fake, section)
<1>1. /\ Allows("section") /\ Sectioned(open, x, t, fake, section)
      /\ cur' = Current(open) /\ files' = IF open THEN Append(files, Len(docs) + 1) ELSE files
      /\ links' = Append(links, Current(open))
      /\ stack' = Append(stack, f)
      /\ \/ /\ FakesTitle /\ toc' = Append(toc, entry) /\ tocIndex' = tocIndex + 1
            /\ firstBodyTitle' = FALSE
         \/ /\ ~FakesTitle /\ toc' = toc /\ tocIndex' = tocIndex
            /\ firstBodyTitle' = firstBodyTitle
      /\ phase' = phase /\ specialParagraph' = specialParagraph
  BY DEF OpenSection, Sectioned, OpenFileIf, Locate
<1>2. /\ stack # <<>> /\ Len(links) < MaxElems /\ Top.tag \in {"body", "section"}
  BY <1>1 DEF Allows
<1>3. /\ Types /\ conf \in Settings /\ docs \in Seq(Doc) /\ Len(docs) \in Nat /\ cur = Len(docs)
      /\ links \in Seq(Nat) /\ Len(links) \in Nat /\ toc \in Seq(TocEntries) /\ tocIndex \in Nat
      /\ firstBodyTitle \in BOOLEAN
  BY LenProperties DEF CInv, Types
<1>4. /\ Len(stack) \in Nat \ {0} /\ Len(stack) \in 1..Len(stack) /\ Top = stack[Len(stack)]
      /\ cur \in 1..Len(docs) /\ x \in 1..Len(docs)
      /\ (~Waits(Len(stack)) => x = cur)
  BY <1>2, OpenFrame
<1>5. /\ Header \in Nat /\ (Header = 0 <=> Top.tag = "body")
      /\ (Top.tag = "body" <=> Len(stack) = 1)
  BY <1>2, SectionsAbove
<1>6. open \in BOOLEAN /\ (open => Opens)
  <2>1. conf.chapterLevel \in Int  BY <1>3
  <2>2. QED  BY <1>5, <2>1 DEF StartsFile, Opens, ChapterLevel, ChapterPerFile, Main
(* Without a file of its own the section is in the current one. *)
<1>7. ~open => x = cur
  <2>1. SUFFICES ASSUME ~open PROVE x = cur  OBVIOUS
  <2>2. CASE ~Opens  BY <1>4, <2>2 DEF CInv, InStep
  <2>3. CASE Opens
    <3>1. conf.chapterLevel \in Int  BY <1>3
    <3>2. Header # 0  BY <1>5, <2>1, <2>3, <3>1 DEF StartsFile, Opens, ChapterLevel
    <3>3. ~Waits(Len(stack))  BY <1>4, <1>5, <3>2 DEF Waits
    <3>4. QED  BY <1>4, <3>3
  <2>4. QED  BY <2>2, <2>3
(* The made up title is in the current file, too. *)
<1>8. FakesTitle => x = cur
  <2>1. SUFFICES ASSUME FakesTitle PROVE x = cur  OBVIOUS
  <2>2. Main /\ firstBodyTitle  BY <2>1 DEF FakesTitle
  <2>3. ~Waits(Len(stack))  BY <1>4, <2>2 DEF CInv, InStep
  <2>4. QED  BY <1>4, <2>3
<1>9. /\ t = (IF open THEN Len(docs) + 1 ELSE Len(docs)) /\ t > 0 /\ cur' = t /\ t \in Nat
      /\ links' = Append(links, t)
  <2>1. t = (IF open THEN Len(docs) + 1 ELSE Len(docs))  BY <1>3, <1>7 DEF Target
  <2>2. Current(open) = t  BY <1>7 DEF Current, Target
  <2>3. QED  BY <1>1, <1>3, <1>4, <2>1, <2>2
<1>10. /\ anchor \in Item /\ section \in Item /\ Number \in Nat /\ Number = Len(links) + 1
       /\ anchor[1] = "tocref" /\ section[1] = "section"
  BY <1>3 DEF Item, Number
<1>11. /\ entry \in TocEntries /\ entry.anchor = anchor /\ entry.doc = cur
  BY <1>3, <1>4, <1>5 DEF TocEntry, TocEntries
<1>12. /\ f \in Frames /\ f.tag = "section" /\ f.inner = t /\ f.to = t /\ f.mode = "start"
       /\ f.number = Number
  BY <1>9, <1>10 DEF Frame, Frames, Modes
<1> HIDE DEF open, x, t, entry, f, section, anchor
<1>13. fake \in Seq(Item)  BY <1>10, ShortSeqs
<1> HIDE DEF fake
<1>14. /\ Growth(new) /\ docs' \in Seq(Doc) /\ Len(docs') = t
       /\ \A d \in 1..Len(docs) : docs'[d].pages = docs[d].pages /\ docs'[d].name = docs[d].name
       /\ open => docs'[Len(docs) + 1].pages = 0
  BY <1>1, <1>3, <1>4, <1>6, <1>9, <1>10, <1>13, SectionGrows
<1>15. t \in 1..Len(docs') /\ x \in 1..Len(docs')  BY <1>3, <1>4, <1>9, <1>14
(* What is new in a document. *)
<1>16. ASSUME NEW d \in 1..Len(docs')
       PROVE  /\ \A j \in 1..Len(new[d]) :
                    \/ FakesTitle /\ d = x /\ new[d][j] = anchor
                    \/ d = t /\ new[d][j] = section
              /\ FakesTitle /\ d = x => \E j \in 1..Len(new[d]) : new[d][j] = anchor
              /\ d = t => \E j \in 1..Len(new[d]) : new[d][j] = section
  <2> DEFINE a == IF d = x THEN fake ELSE <<>>
             b == IF d = t THEN <<section>> ELSE <<>>
             w == a \o b
  <2>1. new[d] = w  BY DEF SectionItems
  <2>2. a \in Seq(Item) /\ b \in Seq(Item)  BY <1>10, <1>13, ShortSeqs
  <2>3. \A j \in 1..Len(a) : FakesTitle /\ d = x /\ a[j] = anchor
    <3>1. Len(<<>>) = 0  BY EmptySeq
    <3>2. QED  BY <3>1 DEF fake
  <2>4. \A j \in 1..Len(b) : d = t /\ b[j] = section
    <3>1. Len(<<>>) = 0  BY EmptySeq
    <3>2. QED  BY <3>1
  <2>5. FakesTitle /\ d = x => Len(a) = 1 /\ a[1] = anchor  BY DEF fake
  <2>6. d = t => Len(b) = 1 /\ b[1] = section  OBVIOUS
  <2>7. Len(a) \in Nat /\ Len(b) \in Nat  BY <2>2, LenProperties
  <2> HIDE DEF a, b, new
  <2>8. /\ Len(w) = Len(a) + Len(b)
        /\ \A j \in 1..(Len(a) + Len(b)) : w[j] = IF j <= Len(a) THEN a[j] ELSE b[j - Len(a)]
    BY <2>2, ConcatProperties
  <2> HIDE DEF w
  <2>9. ASSUME NEW j \in 1..Len(w)
        PROVE  \/ FakesTitle /\ d = x /\ w[j] = anchor
               \/ d = t /\ w[j] = section
    <3>1. CASE j <= Len(a)
      <4>1. j \in 1..Len(a) /\ w[j] = a[j]  BY <2>7, <2>8, <3>1
      <4>2. QED  BY <2>3, <4>1
    <3>2. CASE ~(j <= Len(a))
      <4>1. j - Len(a) \in 1..Len(b) /\ w[j] = b[j - Len(a)]  BY <2>7, <2>8, <3>2
      <4>2. QED  BY <2>4, <4>1
    <3>3. QED  BY <3>1, <3>2
  <2>10. FakesTitle /\ d = x => \E j \in 1..Len(w) : w[j] = anchor
    <3>1. SUFFICES ASSUME FakesTitle /\ d = x PROVE \E j \in 1..Len(w) : w[j] = anchor  OBVIOUS
    <3>2. Len(a) = 1 /\ a[1] = anchor  BY <2>5, <3>1
    <3>3. 1 \in 1..(Len(a) + Len(b)) /\ 1 <= Len(a)  BY <2>7, <3>2
    <3>4. 1 \in 1..Len(w) /\ w[1] = a[1]  BY <2>8, <3>3
    <3>5. QED  BY <3>2, <3>4
  <2>11. d = t => \E j \in 1..Len(w) : w[j] = section
    <3>1. SUFFICES ASSUME d = t PROVE \E j \in 1..Len(w) : w[j] = section  OBVIOUS
    <3>2. Len(b) = 1 /\ b[1] = section  BY <2>6, <3>1
    <3>3. /\ Len(a) + 1 \in 1..(Len(a) + Len(b)) /\ ~(Len(a) + 1 <= Len(a))
          /\ (Len(a) + 1) - Len(a) = 1
      BY <2>7, <3>2
    <3>4. Len(a) + 1 \in 1..Len(w) /\ w[Len(a) + 1] = b[(Len(a) + 1) - Len(a)]  BY <2>8, <3>3
    <3>5. QED  BY <3>2, <3>3, <3>4
  <2>12. QED  BY <2>1, <2>9, <2>10, <2>11
<1> HIDE DEF new
<1>17. Adds
  <2>1. AddsFile  BY <1>1, <1>3, <1>9, <1>14 DEF AddsFile
  <2>2. AddsLink(new)
    <3>1. PICK j \in 1..Len(new[t]) : new[t][j] = section  BY <1>15, <1>16
    <3>2. new[Len(docs')][j] = <<"section", Len(links) + 1>> /\ j \in 1..Len(new[Len(docs')])
      BY <1>10, <1>14, <3>1 DEF section
    <3>3. links' = Append(links, Len(docs')) /\ Len(docs') > 0  BY <1>9, <1>14
    <3>4. "section" \in {"text", "section", "id"}  OBVIOUS
    <3>5. QED  BY <3>2, <3>3, <3>4 DEF AddsLink
  <2>3. \A d \in 1..Len(docs') : \A j \in 1..Len(new[d]) :
            ~IsText(new[d][j]) /\ ~IsPage(new[d][j])
    BY <1>10, <1>16 DEF IsText, IsPage
  <2>4. AddsToc(new)
    <3>1. CASE FakesTitle
      <4>1. \A d \in 1..Len(docs') : \A j \in 1..Len(new[d]) :
                new[d][j][1] = "tocref" => d = entry.doc /\ new[d][j] = entry.anchor
        BY <1>8, <1>10, <1>11, <1>16, <3>1
      <4>2. \E j \in 1..Len(new[entry.doc]) : new[entry.doc][j] = entry.anchor
        <5>1. entry.doc = x  BY <1>8, <1>11, <3>1
        <5>2. \E j \in 1..Len(new[x]) : new[x][j] = anchor  BY <1>15, <1>16, <3>1
        <5>3. QED  BY <1>11, <5>1, <5>2
      <4>3. entry.doc \in 1..Len(docs')  BY <1>8, <1>11, <1>15, <3>1
      <4>4. entry.anchor = <<"tocref", tocIndex>>  BY <1>11 DEF anchor
      <4>5. QED  BY <1>1, <1>11, <3>1, <4>1, <4>2, <4>3, <4>4 DEF AddsToc
    <3>2. CASE ~FakesTitle
      <4>1. \A d \in 1..Len(docs') : \A j \in 1..Len(new[d]) : new[d][j][1] # "tocref"
        BY <1>10, <1>16, <3>2
      <4>2. QED  BY <1>1, <3>2, <4>1 DEF AddsToc
    <3>3. QED  BY <3>1, <3>2
  <2>5. \A d \in 1..Len(docs') : d > Len(docs) => docs'[d].pages <= 0
    <3>1. \A d \in 1..Len(docs') : d > Len(docs) => open /\ d = Len(docs) + 1
      BY <1>3, <1>9, <1>14
    <3>2. QED  BY <1>14, <3>1
  <2>6. AddsVignette(new)  BY <1>10, <1>16 DEF AddsVignette
  <2>7. QED  BY <1>3, <1>14, <2>1, <2>2, <2>3, <2>4, <2>5, <2>6, MarksAdd
<1>18. CInv'
  <2>1. links' \in Seq(Nat) /\ Len(links') = Len(links) + 1  BY <1>3, <1>9, AppendProperties
  <2>2. f.number <= Len(links')  BY <1>3, <1>10, <1>12, <2>1
  <2>3. toc' \in Seq(TocEntries) /\ tocIndex' \in Nat
    <3>1. CASE FakesTitle
      <4>1. toc' = Append(toc, entry)  BY <1>1, <3>1
      <4>2. toc' \in Seq(TocEntries)  BY <1>3, <1>11, <4>1, AppendProperties
      <4>3. QED  BY <1>1, <1>3, <4>2
    <3>2. CASE ~FakesTitle  BY <1>1, <1>3, <3>2
    <3>3. QED  BY <3>1, <3>2
  <2>4. firstBodyTitle' \in {firstBodyTitle, FALSE}  BY <1>1
  <2>5. Main /\ Len(stack) = 1 => ~firstBodyTitle'
    <3>1. SUFFICES ASSUME Main, Len(stack) = 1, firstBodyTitle PROVE ~firstBodyTitle'
      BY <1>1, <1>3
    <3>2. FakesTitle  BY <1>5, <3>1 DEF FakesTitle
    <3>3. QED  BY <1>1, <3>2
  <2>6. specialParagraph' \in BOOLEAN  BY <1>1, <1>3 DEF Types
  <2>7. f.tag \notin Containers  BY <1>12 DEF Containers, Special
  <2>8. f.tag \in {"section"} \union Containers  BY <1>12
  <2>9. ~open => Top.inner = cur  BY <1>7 DEF x
  <2>10. cur' = Len(docs') /\ Len(docs') = (IF open THEN Len(docs) + 1 ELSE Len(docs))
         /\ f.inner = cur' /\ f.to = cur'
    BY <1>9, <1>12, <1>14
  <2>11. /\ files' = IF open THEN Append(files, Len(docs) + 1) ELSE files
         /\ stack' = Append(stack, f) /\ phase' = phase
    BY <1>1
  <2>12. f.mode = "start" /\ f.tag = "section" /\ f \in Frames  BY <1>12
  <2>13. QED
    BY <1>2, <1>6, <1>14, <2>1, <2>2, <2>3, <2>4, <2>5, <2>6, <2>7, <2>8, <2>9, <2>10, <2>11,
       <2>12, PushKeepsControl
<1>19. \E i \in 1..Len(docs'[t].items) : docs'[t].items[i] = section
  <2>1. PICK j \in 1..Len(new[t]) : new[t][j] = section  BY <1>15, <1>16
  <2>2. docs \in Seq(Doc) /\ Growth(new) /\ t \in 1..Len(docs')  BY <1>3, <1>14, <1>15
  <2>3. /\ docs'[t].items[Len(Old(t)) + j] = new[t][j]
        /\ Len(Old(t)) + j \in 1..Len(docs'[t].items)
    BY <2>2, GrownItems
  <2>4. QED  BY <2>1, <2>3
<1>20. Len(links') = Len(links) + 1  BY <1>3, <1>9, AppendProperties
<1>21. section = <<"section", Len(links) + 1>>  BY <1>10 DEF section
<1>22. cur' = Target(StartsFile)  BY <1>9 DEF t
<1>23. QED  BY <1>9, <1>15, <1>17, <1>18, <1>19, <1>20, <1>21, <1>22

(* The marks at the end of a chapter. *)
LEMMA ClosingMarks ==
    ASSUME links \in Seq(Nat), NEW f \in Frames, NEW items \in Seq(Item)
    PROVE  \E s \in Seq(Item) :
            /\ EndMark(VignetteMark(f, items)) = items \o s
            /\ \A j \in 1..Len(s) :
                s[j] = <<"end", 0>> \/ (HasVignette(f) /\ s[j] = <<"vignette", Len(links)>>)
<1> DEFINE v == <<"vignette", Len(links)>>
           e == <<"end", 0>>
           Mark(item) == item = e \/ (HasVignette(f) /\ item = v)
           first == VignetteMark(f, items)
<1>1. v \in Item /\ e \in Item  BY LenProperties DEF Item
<1> HIDE DEF v, e
<1>2. PICK s \in Seq(Item) : first = items \o s /\ \A j \in 1..Len(s) : Mark(s[j])
  <2>1. CASE HasVignette(f)
    <3>1. first = items \o <<v>>  BY <1>1, <2>1, AppendIsConcat DEF VignetteMark, v
    <3>2. <<v>> \in Seq(Item) /\ \A j \in 1..Len(<<v>>) : Mark(<<v>>[j])
      BY <1>1, <2>1, ShortSeqs
    <3>3. QED  BY <3>1, <3>2
  <2>2. CASE ~HasVignette(f)
    <3>1. first = items \o <<>>  BY <2>2, ConcatEmptySeq DEF VignetteMark
    <3>2. <<>> \in Seq(Item) /\ \A j \in 1..Len(<<>>) : FALSE  BY EmptySeq
    <3> DEFINE none == <<>>
    <3>3. first = items \o none /\ none \in Seq(Item) /\ \A j \in 1..Len(none) : Mark(none[j])
      BY <3>1, <3>2
    <3> HIDE DEF none, Mark
    <3>4. QED  BY <3>3
  <2>3. QED  BY <2>1, <2>2
<1>3. first \in Seq(Item)  BY <1>2, ConcatProperties
<1> HIDE DEF first
<1>4. CASE EndMark(first) = first  BY <1>2, <1>4 DEF first, v, e
<1>5. CASE EndMark(first) # first
  <2>1. EndMark(first) = Append(first, e)  BY <1>5 DEF EndMark, e
  <2>2. Append(first, e) = first \o <<e>>  BY <1>1, <1>3, AppendIsConcat
  <2>3. <<e>> \in Seq(Item)  BY <1>1, ShortSeqs
  <2>4. (items \o s) \o <<e>> = items \o (s \o <<e>>)  BY <2>3, Associates, Zenon
  <2> DEFINE w == s \o <<e>>
  <2>5. w \in Seq(Item)  BY <2>3, ConcatProperties
  <2>6. \A j \in 1..Len(w) : Mark(w[j])
    <3>1. /\ Len(w) = Len(s) + Len(<<e>>)
          /\ \A j \in 1..(Len(s) + Len(<<e>>)) :
                w[j] = IF j <= Len(s) THEN s[j] ELSE <<e>>[j - Len(s)]
      BY <2>3, ConcatProperties
    <3>2. Len(<<e>>) = 1 /\ <<e>>[1] = e /\ Len(s) \in Nat  BY LenProperties
    <3> HIDE DEF w
    <3> SUFFICES ASSUME NEW j \in 1..Len(w) PROVE Mark(w[j])
      OBVIOUS
    <3>3. CASE j <= Len(s)
      <4>1. j \in 1..Len(s) /\ w[j] = s[j]  BY <3>1, <3>2, <3>3
      <4>2. QED  BY <1>2, <4>1
    <3>4. CASE ~(j <= Len(s))
      <4>1. j - Len(s) = 1 /\ w[j] = <<e>>[j - Len(s)]  BY <3>1, <3>2, <3>4
      <4>2. QED  BY <3>2, <4>1
    <3>5. QED  BY <3>3, <3>4
  <2>7. EndMark(first) = items \o w  BY <1>2, <2>1, <2>2, <2>4
  <2> HIDE DEF w
  <2>8. QED  BY <2>5, <2>6, <2>7 DEF first, v, e
<1>6. QED  BY <1>4, <1>5

(* A section is open only while a body is read. *)
LEMMA SectionsInBodies ==
    ASSUME CInv, stack # <<>>, Top.tag = "section"
    PROVE  phase \in {"main", "notes"}
<1>1. /\ Len(stack) \in Nat \ {0} /\ Top = stack[Len(stack)] /\ Len(stack) \in 1..Len(stack)
      /\ Len(stack) # 1
  BY OpenFrame
<1>2. 1 \in 1..(Len(stack) - 1)
  <2> DEFINE L == Len(stack)
  <2>1. L \in Nat /\ L # 0 /\ L # 1  BY <1>1
  <2> HIDE DEF L
  <2>2. 1 \in 1..(L - 1)  BY <2>1
  <2>3. QED  BY <2>2 DEF L
<1>3. stack[1].tag \in {"body", "section"}  BY <1>1, <1>2 DEF CInv, Shape
<1>4. phase # "description" /\ phase # "bodies"  BY <1>3 DEF CInv, Shape
<1>5. QED  BY <1>4 DEF CInv, Types

LEMMA CloseSectionStep ==
    ASSUME CInv, conf' = conf, CloseSection
    PROVE  CInv' /\ Adds
<1> DEFINE t == Top.to
           items == docs[t].items
           v == EndMark(VignetteMark(Top, items))
           entry == TocEntry(<<"secref", Findex>>, cur, Top.number)
<1>1. /\ stack # <<>> /\ Top.tag = "section"
      /\ stack' = AfterChild(SubSeq(stack, 1, Len(stack) - 1), cur, "sections")
      /\ \/ Main /\ Marked(t, v)
         \/ ~Main /\ docs' = docs
      /\ \/ /\ Main /\ NoTitleChapters
            /\ toc' = Append(toc, entry) /\ tocIndex' = tocIndex + 1
         \/ toc' = toc /\ tocIndex' = tocIndex
      /\ phase' = phase /\ files' = files /\ cur' = cur /\ links' = links
      /\ firstBodyTitle' = firstBodyTitle /\ specialParagraph' = specialParagraph
  BY DEF CloseSection, Marked, HasUntitledEntry
<1>2. /\ Types /\ docs \in Seq(Doc) /\ cur = Len(docs) /\ Len(docs) \in Nat
      /\ toc \in Seq(TocEntries) /\ tocIndex \in Nat
  BY LenProperties DEF CInv, Types
<1>3. Top \in Frames /\ t \in 1..Len(docs) /\ cur \in 1..Len(docs)  BY <1>1, OpenFrame
<1>4. entry \in TocEntries /\ entry.anchor[1] = "secref"
  <2>1. Top.number \in Nat  BY <1>3 DEF Frames
  <2>2. QED  BY <1>2, <1>3, <2>1, FileNames, HeaderIsNat DEF TocEntry, TocEntries
<1> HIDE DEF entry
<1>5. items \in Seq(Item)
  <2>1. docs[t] \in Doc  BY <1>2, <1>3, ElementOfSeq
  <2>2. QED  BY <2>1 DEF Doc
<1>6. AddsFile  BY <1>1 DEF AddsFile
<1>7. toc' \in Seq(TocEntries) /\ tocIndex' \in Nat
  <2>1. Append(toc, entry) \in Seq(TocEntries)  BY <1>2, <1>4, AppendProperties
  <2>2. tocIndex + 1 \in Nat  BY <1>2
  <2>3. \/ toc' = Append(toc, entry) /\ tocIndex' = tocIndex + 1
        \/ toc' = toc /\ tocIndex' = tocIndex
    BY <1>1
  <2>4. QED  BY <1>2, <2>1, <2>2, <2>3
<1>8. links \in Seq(Nat)  BY <1>2 DEF Types
<1>9. /\ Adds /\ docs' \in Seq(Doc) /\ Len(docs') = Len(docs)
      /\ \A d \in 1..Len(docs) : docs'[d].pages = docs[d].pages /\ docs'[d].name = docs[d].name
  <2>1. CASE Main /\ Marked(t, v)
    <3>1. PICK s \in Seq(Item) :
            /\ v = items \o s
            /\ \A j \in 1..Len(s) :
                s[j] = <<"end", 0>> \/ (HasVignette(Top) /\ s[j] = <<"vignette", Len(links)>>)
      BY <1>3, <1>5, <1>8, ClosingMarks
    <3> DEFINE new == MarkedItems(t, s)
    <3> HIDE DEF v
    <3>2. /\ Growth(new) /\ docs' \in Seq(Doc) /\ Len(docs') = Len(docs) /\ cur' = Len(docs')
          /\ \A d \in 1..Len(docs) : docs'[d].pages = docs[d].pages /\ docs'[d].name = docs[d].name
      BY <1>1, <1>2, <1>3, <2>1, <3>1, MarkGrows
    <3>3. \A d \in 1..Len(docs') : new[d] = IF d = t THEN s ELSE <<>>  BY DEF MarkedItems
    <3> HIDE DEF new
    <3>4. ASSUME NEW d \in 1..Len(docs'), NEW j \in 1..Len(new[d])
          PROVE  new[d][j][1] \in {"end", "vignette"}
      <4>1. CASE d = t
        <5>1. new[d] = s  BY <3>3, <4>1
        <5>2. s[j] = <<"end", 0>> \/ s[j] = <<"vignette", Len(links)>>  BY <3>1, <5>1
        <5>3. QED  BY <5>1, <5>2
      <4>2. CASE d # t  BY <3>3, <4>2, EmptySeq
      <4>3. QED  BY <4>1, <4>2
    <3>5. AddsLink(new)  BY <1>1 DEF AddsLink
    <3>6. AddsToc(new)
      <4>1. \A d \in 1..Len(docs') : \A j \in 1..Len(new[d]) : new[d][j][1] # "tocref"
        BY <3>4
      <4>2. QED  BY <1>1, <1>4, <4>1 DEF AddsToc
    <3>7. \A d \in 1..Len(docs') : \A j \in 1..Len(new[d]) :
            ~IsText(new[d][j]) /\ ~IsPage(new[d][j])
      BY <3>4 DEF IsText, IsPage
    <3>8. \A d \in 1..Len(docs') : d > Len(docs) => docs'[d].pages <= 0  BY <1>2, <3>2
    <3>9. AddsVignette(new)
      <4>1. phase = "main"  BY <1>1, <2>1, SectionsInBodies DEF Main
      <4>2. ASSUME NEW d \in 1..Len(docs'), NEW j \in 1..Len(new[d]), new[d][j][1] = "vignette"
            PROVE  d = t /\ new[d][j][2] = Len(links)
        <5>1. CASE d = t
          <6>1. new[d] = s  BY <3>3, <5>1
          <6>2. s[j] = <<"end", 0>> \/ s[j] = <<"vignette", Len(links)>>  BY <3>1, <6>1
          <6>3. new[d][j] = <<"vignette", Len(links)>>  BY <4>2, <6>1, <6>2
          <6>4. QED  BY <5>1, <6>3
        <5>2. CASE d # t  BY <3>3, <5>2, EmptySeq
        <5>3. QED  BY <5>1, <5>2
      <4>3. QED  BY <1>1, <4>1, <4>2 DEF AddsVignette
    <3>10. Adds  BY <1>2, <1>6, <3>2, <3>5, <3>6, <3>7, <3>8, <3>9, MarksAdd
    <3>11. QED  BY <3>2, <3>10
  <2>2. CASE ~Main /\ docs' = docs
    <3>1. Adds  BY <1>1, <1>2, <1>6, <2>2, NothingAdded
    <3>2. QED  BY <1>2, <2>2, <3>1
  <2>3. QED  BY <1>1, <2>1, <2>2
<1>10. CInv'
  <2>1. specialParagraph' \in BOOLEAN  BY <1>1, <1>2 DEF Types
  <2>2. QED  BY <1>1, <1>7, <1>9, <2>1, PopKeepsControl
<1>11. QED  BY <1>9, <1>10

-----------------------------------------------------------------------------
(* The invariant. *)
BInv == CInv /\ TextInOrder /\ FilesInOrder /\ Located /\ TocInv /\ PageMarkersMatch

LEMMA ControlStep ==
    ASSUME Settled, CInv, [Next]_vars
    PROVE  CInv' /\ Adds
<1>1. CASE UNCHANGED vars
  <2>1. CInv'
    BY <1>1 DEF vars, CInv, Types, Shape, Unsplit, InStep, PagesCounted, Opens, Waits, Main,
                AnnotationPage, ChapterPerFile, ChapterLevel
  <2>2. /\ docs' = docs /\ files' = files /\ cur' = cur
        /\ toc' = toc /\ tocIndex' = tocIndex /\ links' = links
    BY <1>1 DEF vars
  <2>3. Types /\ cur' = Len(docs') /\ AddsFile  BY <2>2 DEF CInv, Types, AddsFile
  <2>4. Adds  BY <2>2, <2>3, NothingAdded
  <2>5. QED  BY <2>1, <2>4
<1>2. CASE Next
  <2>1. conf' = conf  BY <1>2 DEF Next
  <2>2. CASE StartAnnotation \/ EndAnnotation \/ StartBody \/ EndBody
    BY <2>1, <2>2, StartAnnotationStep, EndAnnotationStep, StartBodyStep, EndBodyStep
  <2>3. CASE OpenSection \/ CloseSection
    BY <2>1, <2>3, OpenSectionStep, CloseSectionStep
  <2>4. ASSUME NEW k \in 0..MaxMarkers, Title(k) \/ Paragraph(k) \/ Subtitle(k) \/ Verse(k)
        PROVE  CInv' /\ Adds
    BY <2>1, <2>4, TitleStep, ParagraphStep, SubtitleStep, VerseStep
  <2>5. CASE Divider \/ TextAuthor  BY <2>1, <2>5, DividerStep, TextAuthorStep
  <2>6. ASSUME NEW kind \in Containers, OpenContainer(kind)
        PROVE  CInv' /\ Adds
    BY <2>1, <2>6, OpenContainerStep
  <2>7. CASE CloseContainer  BY <2>1, <2>7, CloseContainerStep
  <2>8. QED  BY <1>2, <2>2, <2>3, <2>4, <2>5, <2>6, <2>7 DEF Next
<1>3. QED  BY <1>1, <1>2

LEMMA BInvInit ==
    ASSUME Init
    PROVE  BInv
<1>1. /\ conf \in Settings /\ docs = <<>> /\ files = <<>> /\ cur = 0 /\ stack = <<>>
      /\ toc = <<>> /\ links = <<>> /\ tocIndex = 1
      /\ firstBodyTitle = FALSE /\ specialParagraph = FALSE
      /\ phase = IF AnnotationPage THEN "description" ELSE "bodies"
  BY DEF Init
<1>2. Len(docs) = 0 /\ Len(files) = 0 /\ Len(stack) = 0 /\ Len(toc) = 0 /\ Len(links) = 0
  BY <1>1, EmptySeq
<1>3. Types
  <2>1. docs \in Seq(Doc) /\ files \in Seq(Nat) /\ stack \in Seq(Frames)
        /\ toc \in Seq(TocEntries) /\ links \in Seq(Nat)
    BY <1>1, EmptySeq
  <2>2. cur = Len(docs) /\ Len(links) <= MaxElems  BY <1>1, <1>2, BoundsAssumption
  <2>3. cur \in Nat /\ tocIndex \in Nat  BY <1>1
  <2>4. QED  BY <1>1, <2>1, <2>2, <2>3 DEF Types
<1>4. Shape /\ Unsplit /\ InStep /\ PagesCounted
  BY <1>1, <1>2 DEF Shape, Unsplit, InStep, PagesCounted
<1>5. TextInOrder /\ FilesInOrder /\ Located /\ TocInv /\ PageMarkersMatch
  BY <1>2 DEF TextInOrder, FilesInOrder, Located, LinksLocated, TocInv, PageMarkersMatch
<1>6. QED  BY <1>3, <1>4, <1>5 DEF BInv, CInv

LEMMA BInvStep ==
    ASSUME Settled, BInv, [Next]_vars
    PROVE  BInv'
<1>1. CInv' /\ Adds  BY ControlStep DEF BInv
<1>2. PICK new : Growth(new) /\ AddsText(new) /\ AddsLink(new) /\ AddsToc(new) /\ AddsPages(new)
  BY <1>1 DEF Adds
<1>3. Types /\ AddsFile  BY <1>1 DEF BInv, CInv, Adds
<1>4. TextInOrder'  BY <1>2, <1>3, TextStep DEF BInv
<1>5. Located'  BY <1>2, <1>3, LinkStep DEF BInv
<1>6. TocInv'
  <2>1. conf' = conf  BY DEF Next, vars
  <2>2. QED  BY <1>2, <1>3, <2>1, TocStep DEF BInv
<1>7. PageMarkersMatch'  BY <1>2, <1>3, PagesStep DEF BInv
<1>8. FilesInOrder'  BY <1>2, <1>3, FilesStep DEF BInv
<1>9. QED  BY <1>1, <1>4, <1>5, <1>6, <1>7, <1>8 DEF BInv

(* The handlers and the current file stay in step (CInv), and what they     *)
(* write is in order (the rest of BInv).                                    *)
THEOREM TransferInvariant ==
    ASSUME Settled
    PROVE  Spec => []BInv
<1>1. Init => BInv  BY BInvInit
<1>2. BInv /\ [Next]_vars => BInv'  BY BInvStep
<1>3. QED  BY <1>1, <1>2, PTL DEF Spec

(* The files, read one after the other, give the text in the order of the   *)
(* source, wherever the handlers open the next file.                        *)
THEOREM TextIsReadInOrder ==
    ASSUME Settled
    PROVE  Spec => []ReadingOrder
<1>1. BInv => ReadingOrder  BY OrderedText DEF BInv, CInv
<1>2. QED  BY <1>1, TransferInvariant, PTL

(* Every id is in the file LinksLocations names for it.                     *)
THEOREM LinksAreLocated ==
    ASSUME Settled
    PROVE  Spec => []LinksLocated
<1>1. BInv => LinksLocated  BY DEF BInv, Located
<1>2. QED  BY <1>1, TransferInvariant, PTL

(* The anchor of a TOC entry is in the file the entry names, and in no      *)
(* other; with include_chapters_without_title, of the entry of a title.     *)
THEOREM TocRefsAlwaysResolve ==
    ASSUME Settled
    PROVE  Spec => []TocRefsResolve
<1>1. BInv => TocRefsResolve  BY AnchoredEntries DEF BInv, CInv
<1>2. QED  BY <1>1, TransferInvariant, PTL

(* Every page Book.Pages counts for a file has its mark in the file.        *)
THEOREM PagesAreMarked ==
    ASSUME Settled
    PROVE  Spec => []PageMarkersMatch
<1>1. BInv => PageMarkersMatch  BY DEF BInv
<1>2. QED  BY <1>1, TransferInvariant, PTL

-----------------------------------------------------------------------------
(***************************************************************************)
(* The order of texts and end vignettes.  An end vignette has the number   *)
(* of the last element of its section: whatever text is there when it is   *)
(* written is of the chapter or in front of it, and whatever comes later   *)
(* is not.  It is written under the node its section began in, and that is *)
(* in the last file as long as no file is opened within a section          *)
(* (SectionsStay).                                                         *)
(***************************************************************************)
IsVignette(item) == item[1] = "vignette"

VignettesInOrder ==
    \A d, e \in 1..Len(docs) :
        \A i \in 1..Len(docs[d].items), j \in 1..Len(docs[e].items) :
            IsVignette(docs[d].items[i]) =>
                /\ docs[d].items[i][2] <= Len(links)
                /\ IsText(docs[e].items[j]) =>
                    /\ Precedes(e, j, d, i) => docs[e].items[j][2] <= docs[d].items[i][2]
                    /\ Precedes(d, i, e, j) /\ (SectionsInOneFile \/ d = e)
                        => docs[e].items[j][2] > docs[d].items[i][2]

SectionsStay ==
    SectionsInOneFile /\ Main =>
        \A k \in 1..Len(stack) : stack[k].tag = "section" => stack[k].to = Len(docs)

VInv == VignettesInOrder /\ SectionsStay

(* What a step may do to the open sections of the main body, where these    *)
(* stay in one file.                                                        *)
KeepsSections ==
    \A k \in 1..Len(stack') : Main' /\ stack'[k].tag = "section" =>
        \/ /\ Main /\ k \in 1..Len(stack) /\ stack[k].tag = "section"
           /\ stack'[k].to = stack[k].to /\ Len(docs') = Len(docs)
        \/ stack'[k].to = Len(docs')

-----------------------------------------------------------------------------
(* What a step adds to the documents is of these kinds. *)
LEMMA NewItems ==
    ASSUME Types, NEW new, Growth(new), AddsText(new), AddsVignette(new),
           NEW d \in 1..Len(docs'), NEW i \in 1..Len(docs'[d].items)
    PROVE  \/ /\ d \in 1..Len(docs) /\ i \in 1..Len(docs[d].items)
              /\ docs'[d].items[i] = docs[d].items[i]
           \/ /\ d \in 1..Len(docs) => i > Len(docs[d].items)
              /\ IsText(docs'[d].items[i]) =>
                    /\ d = Len(docs') /\ docs'[d].items[i][2] = Len(links) + 1
                    /\ Len(links') = Len(links) + 1
              /\ IsVignette(docs'[d].items[i]) =>
                    /\ phase = "main" /\ stack # <<>> /\ Top.tag = "section"
                    /\ d = Top.to /\ docs'[d].items[i][2] = Len(links) /\ links' = links
<1>1. docs \in Seq(Doc) /\ Len(docs) \in Nat /\ Len(docs') \in Nat
  BY LenProperties DEF Types, Growth
<1>2. Len(Old(d)) \in Nat /\ Len(new[d]) \in Nat  BY <1>1, GrownItems
<1>3. CASE i \in 1..Len(Old(d)) /\ docs'[d].items[i] = Old(d)[i]
  <2>1. d \in 1..Len(docs)
    <3>1. SUFFICES ASSUME d > Len(docs) PROVE FALSE  BY <1>1
    <3>2. Old(d) = <<>>  BY <1>1, <3>1 DEF Old
    <3>3. QED  BY <1>3, <3>2, EmptySeq
  <2>2. Old(d) = docs[d].items  BY <2>1 DEF Old
  <2>3. QED  BY <1>3, <2>1, <2>2
<1>4. CASE /\ i - Len(Old(d)) \in 1..Len(new[d])
           /\ docs'[d].items[i] = new[d][i - Len(Old(d))]
  <2> DEFINE j == i - Len(Old(d))
             item == docs'[d].items[i]
  <2>1. j \in 1..Len(new[d]) /\ item = new[d][j]  BY <1>4
  <2>2. d \in 1..Len(docs) => i > Len(docs[d].items)
    <3>1. i > Len(Old(d))  BY <1>2, <1>4
    <3>2. d \in 1..Len(docs) => Old(d) = docs[d].items  BY DEF Old
    <3>3. QED  BY <3>1, <3>2
  <2> HIDE DEF j, item
  <2>3. IsText(item) =>
            /\ d = Len(docs') /\ item[2] = Len(links) + 1 /\ Len(links') = Len(links) + 1
    BY <2>1 DEF AddsText
  <2>4. IsVignette(item) =>
            /\ phase = "main" /\ stack # <<>> /\ Top.tag = "section"
            /\ d = Top.to /\ item[2] = Len(links) /\ links' = links
    BY <2>1 DEF AddsVignette, IsVignette
  <2>5. QED  BY <2>2, <2>3, <2>4 DEF item
<1>5. \/ i \in 1..Len(Old(d)) /\ docs'[d].items[i] = Old(d)[i]
      \/ /\ i - Len(Old(d)) \in 1..Len(new[d])
         /\ docs'[d].items[i] = new[d][i - Len(Old(d))]
  BY <1>1, GrownItems
<1>6. QED  BY <1>3, <1>4, <1>5

(* The items of a document are items, and how many there are is a number.   *)
LEMMA ItemTypes ==
    ASSUME Types, NEW d \in 1..Len(docs)
    PROVE  /\ Len(docs[d].items) \in Nat
           /\ \A i \in 1..Len(docs[d].items) : docs[d].items[i][2] \in Nat
<1>1. docs[d] \in Doc  BY ElementOfSeq DEF Types
<1>2. docs[d].items \in Seq(Item)  BY <1>1 DEF Doc
<1>3. ASSUME NEW i \in 1..Len(docs[d].items)
      PROVE  docs[d].items[i][2] \in Nat
  <2>1. docs[d].items[i] \in Item  BY <1>2, ElementOfSeq
  <2>2. QED  BY <2>1 DEF Item
<1>4. QED  BY <1>2, <1>3, LenProperties

(* Texts and vignettes keep their order in a step that adds what it may. *)
LEMMA VignettesStep ==
    ASSUME CInv, Types', conf' = conf, NEW new, Growth(new), AddsText(new), AddsVignette(new),
           TextInOrder, VignettesInOrder, SectionsStay
    PROVE  VignettesInOrder'
<1> DEFINE L == Len(links)
           L1 == Len(links')
           N == Len(docs)
           N1 == Len(docs')
<1>1. /\ Types /\ N \in Nat /\ N1 \in {N, N + 1} /\ L \in Nat /\ L1 \in {L, L + 1}
  BY LenProperties DEF CInv, Types, Growth, AddsText
<1>2. SectionsInOneFile' <=> SectionsInOneFile
  BY DEF SectionsInOneFile, Splits, ChapterPerFile, ChapterLevel, PagesPerFile
<1> DEFINE WasThere(d, i) == /\ d \in 1..N /\ i \in 1..Len(docs[d].items)
                             /\ docs'[d].items[i] = docs[d].items[i]
           IsNew(d, i) ==
              /\ d \in 1..N => i > Len(docs[d].items)
              /\ IsText(docs'[d].items[i]) =>
                    d = N1 /\ docs'[d].items[i][2] = L + 1 /\ L1 = L + 1
              /\ IsVignette(docs'[d].items[i]) =>
                    /\ phase = "main" /\ stack # <<>> /\ Top.tag = "section"
                    /\ d = Top.to /\ docs'[d].items[i][2] = L /\ links' = links
<1>3. ASSUME NEW d \in 1..N1, NEW i \in 1..Len(docs'[d].items)
      PROVE  (WasThere(d, i) \/ IsNew(d, i)) /\ docs'[d].items[i][2] \in Nat /\ i \in Nat
  <2>1. docs'[d].items[i][2] \in Nat
    <3>1. docs'[d] \in Doc  BY ElementOfSeq DEF Types
    <3>2. docs'[d].items \in Seq(Item)  BY <3>1 DEF Doc
    <3>3. docs'[d].items[i] \in Item  BY <3>2, ElementOfSeq
    <3>4. QED  BY <3>3 DEF Item
  <2>2. QED  BY <1>1, <2>1, NewItems
<1> SUFFICES ASSUME NEW d \in 1..N1, NEW e \in 1..N1,
                    NEW i \in 1..Len(docs'[d].items), NEW j \in 1..Len(docs'[e].items),
                    IsVignette(docs'[d].items[i])
             PROVE  /\ docs'[d].items[i][2] <= L1
                    /\ IsText(docs'[e].items[j]) =>
                        /\ Precedes(e, j, d, i) => docs'[e].items[j][2] <= docs'[d].items[i][2]
                        /\ Precedes(d, i, e, j) /\ (SectionsInOneFile \/ d = e)
                            => docs'[e].items[j][2] > docs'[d].items[i][2]
  BY <1>2 DEF VignettesInOrder
<1> DEFINE n == docs'[d].items[i][2]
           t == docs'[e].items[j][2]
<1>4. n \in Nat /\ t \in Nat /\ i \in Nat /\ j \in Nat  BY <1>3
<1>5. n <= L
  <2>1. CASE WasThere(d, i)  BY <2>1 DEF VignettesInOrder
  <2>2. CASE IsNew(d, i)  BY <1>1, <2>2
  <2>3. QED  BY <1>3, <2>1, <2>2
<1>6. n <= L1
  <2> HIDE DEF n
  <2>1. QED  BY <1>1, <1>4, <1>5
<1>7. ASSUME IsText(docs'[e].items[j])
      PROVE  /\ Precedes(e, j, d, i) => t <= n
             /\ Precedes(d, i, e, j) /\ (SectionsInOneFile \/ d = e) => t > n
  <2>1. CASE WasThere(d, i) /\ WasThere(e, j)  BY <1>7, <2>1 DEF VignettesInOrder
  <2>2. CASE WasThere(d, i) /\ IsNew(e, j)
    <3>1. d \in 1..N /\ i \in 1..Len(docs[d].items) /\ e = N1 /\ t = L + 1  BY <1>7, <2>2
    <3>2. e \in 1..N => j > Len(docs[e].items)  BY <2>2
    <3>3. Len(docs[d].items) \in Nat  BY <1>1, <3>1, ItemTypes
    <3> HIDE DEF n, t, WasThere, IsNew
    <3>4. t > n  BY <1>1, <1>4, <1>5, <3>1
    <3>5. ~Precedes(e, j, d, i)
      <4>1. ~(e < d)
        <5> HIDE DEF N, N1
        <5>1. QED  BY <1>1, <3>1
      <4>2. ~(e = d /\ j < i)
        <5>1. SUFFICES ASSUME e = d, j < i PROVE FALSE  OBVIOUS
        <5>2. j > Len(docs[d].items) /\ i <= Len(docs[d].items)  BY <3>1, <3>2, <3>3, <5>1
        <5>3. QED  BY <1>4, <3>3, <5>1, <5>2
      <4>3. QED  BY <4>1, <4>2 DEF Precedes
    <3>6. QED  BY <3>4, <3>5
  <2>3. CASE IsNew(d, i) /\ WasThere(e, j)
    <3>1. /\ phase = "main" /\ stack # <<>> /\ Top.tag = "section" /\ d = Top.to /\ n = L
          /\ d \in 1..N => i > Len(docs[d].items)
      BY <2>3
    <3>2. /\ e \in 1..N /\ j \in 1..Len(docs[e].items) /\ IsText(docs[e].items[j])
          /\ docs[e].items[j][2] = t
      BY <1>7, <2>3
    <3>3. Len(docs[e].items) \in Nat  BY <1>1, <3>2, ItemTypes
    <3> HIDE DEF n, t, WasThere, IsNew
    <3>4. t <= n
      <4>1. t <= L  BY <3>2 DEF TextInOrder
      <4>2. QED  BY <3>1, <4>1
    <3>5. ~(d = e /\ i < j)
      <4>1. SUFFICES ASSUME d = e, i < j PROVE FALSE  OBVIOUS
      <4>2. i > Len(docs[e].items) /\ j <= Len(docs[e].items)  BY <3>1, <3>2, <3>3, <4>1
      <4>3. QED  BY <1>4, <3>3, <4>1, <4>2
    <3>6. SectionsInOneFile => ~(d < e)
      <4>1. SUFFICES ASSUME SectionsInOneFile PROVE ~(d < e)  OBVIOUS
      <4>2. Len(stack) \in 1..Len(stack) /\ Top = stack[Len(stack)]  BY <3>1, OpenFrame
      <4>3. Top.to = N  BY <3>1, <4>1, <4>2 DEF SectionsStay, Main
      <4> HIDE DEF N
      <4>4. QED  BY <1>1, <3>1, <3>2, <4>3
    <3>7. d = e => ~(d < e)  BY <1>1, <3>2
    <3>8. QED  BY <3>4, <3>5, <3>6, <3>7 DEF Precedes
  <2>4. ~(IsNew(d, i) /\ IsNew(e, j))  BY <1>1, <1>7
  <2>5. QED  BY <1>3, <2>1, <2>2, <2>3, <2>4
<1>8. QED  BY <1>6, <1>7

-----------------------------------------------------------------------------
(* The open sections stay in the last document. *)
LEMMA StackAfterChild ==
    ASSUME NEW st \in Seq(Frames), st # <<>>, NEW c \in Nat, NEW mode \in Modes,
           stack' = AfterChild(st, c, mode)
    PROVE  /\ Len(stack') = Len(st)
           /\ \A k \in 1..Len(st) : stack'[k].tag = st[k].tag /\ stack'[k].to = st[k].to
<1> DEFINE after == AfterChild(st, c, mode)
<1>1. /\ after \in Seq(Frames) /\ Len(after) = Len(st) /\ after # <<>>
      /\ \A k \in 1..Len(st) :
           /\ after[k].tag = st[k].tag /\ after[k].to = st[k].to
           /\ after[k].number = st[k].number
           /\ k # Len(st) => after[k] = st[k]
      /\ after[Len(st)].mode = mode
      /\ after[Len(st)].inner = IF st[Len(st)].tag = "section" THEN c ELSE st[Len(st)].inner
  BY AfterChildFrames
<1>2. stack' = after  OBVIOUS
<1> HIDE DEF after
<1>3. QED  BY <1>1, <1>2

LEMMA LeafKeepsSections ==
    ASSUME CInv, stack # <<>>, Len(docs') = Len(docs), phase' = phase,
           NEW st \in {stack, WithTitle(stack), WithText(stack)}, NEW c \in Nat,
           NEW mode \in {"head", "text", "tail"}, stack' = AfterChild(st, c, mode)
    PROVE  KeepsSections
<1>1. stack # <<>> /\ stack \in Seq(Frames)  BY DEF CInv, Types
<1>2. /\ st \in Seq(Frames) /\ Len(st) = Len(stack) /\ st # <<>>
      /\ \A k \in 1..Len(stack) : st[k].tag = stack[k].tag /\ st[k].to = stack[k].to
  BY <1>1, MarkedFrames
<1>3. mode \in Modes /\ st \in Seq(Frames) /\ st # <<>>  BY <1>2 DEF Modes
<1>4. /\ Len(stack') = Len(st)
      /\ \A k \in 1..Len(st) : stack'[k].tag = st[k].tag /\ stack'[k].to = st[k].to
  BY <1>3, StackAfterChild
<1>5. Main' <=> Main  BY DEF Main
<1>6. QED  BY <1>2, <1>4, <1>5 DEF KeepsSections

LEMMA LeavesKeepSections ==
    ASSUME Settled, CInv, Adds, SectionsInOneFile, NEW k \in 0..MaxMarkers,
           \/ Title(k) \/ Paragraph(k) \/ Subtitle(k) \/ Verse(k) \/ Divider \/ TextAuthor
    PROVE  KeepsSections
<1>1. cur = Len(docs) /\ cur' = Len(docs') /\ cur \in Nat  BY LenProperties DEF CInv, Types, Adds, Growth
<1>2. MaySplit => ~SplitHere
  BY DEF SplitHere, MaySplitText, MaySplit, SectionsInOneFile, Splits, ChapterPerFile, PagesPerFile
<1> DEFINE Leaf == \E st \in {stack, WithTitle(stack), WithText(stack)},
                      mode \in {"head", "text", "tail"} : stack' = AfterChild(st, cur, mode)
<1>3. CASE Title(k)
  <2>1. stack # <<>> /\ phase' = phase /\ cur' = cur /\ Leaf  BY <1>3 DEF Title, Allows
  <2>2. QED  BY <1>1, <2>1, LeafKeepsSections
<1>4. CASE Paragraph(k)
  <2>1. Allows("p") /\ stack # <<>> /\ phase' = phase  BY <1>4 DEF Paragraph, Allows
  <2>2. ~(MaySplit /\ FileIsFull)  BY <1>2, <2>1, ParagraphSplits
  <2>3. cur' = cur /\ Leaf  BY <1>4, <2>2 DEF Paragraph, OpenFileIf, Current
  <2>4. QED  BY <1>1, <2>1, <2>3, LeafKeepsSections
<1>5. CASE Subtitle(k)
  <2>1. stack # <<>> /\ phase' = phase /\ cur' = cur /\ Leaf  BY <1>5 DEF Subtitle, Allows
  <2>2. QED  BY <1>1, <2>1, LeafKeepsSections
<1>6. CASE Verse(k)
  <2>1. stack # <<>> /\ phase' = phase /\ cur' = cur /\ Leaf  BY <1>6 DEF Verse, Allows
  <2>2. QED  BY <1>1, <2>1, LeafKeepsSections
<1>7. CASE Divider
  <2>1. Allows("divider") /\ stack # <<>> /\ phase' = phase  BY <1>7 DEF Divider, Allows
  <2>2. ~MaySplit  BY <1>2, <2>1, DividerSplits
  <2>3. cur' = cur /\ Leaf  BY <1>7, <2>2 DEF Divider, OpenFileIf, Current
  <2>4. QED  BY <1>1, <2>1, <2>3, LeafKeepsSections
<1>8. CASE TextAuthor
  <2>1. stack # <<>> /\ phase' = phase /\ cur' = cur /\ Leaf  BY <1>8 DEF TextAuthor, Allows
  <2>2. QED  BY <1>1, <2>1, LeafKeepsSections
<1>9. QED  BY <1>3, <1>4, <1>5, <1>6, <1>7, <1>8

(* What is pushed onto the stack, and what is left of it. *)
LEMMA PushKeepsSections ==
    ASSUME CInv, phase' = phase, NEW f, stack' = Append(stack, f),
           f.tag = "section" => f.to = Len(docs'),
           \/ Len(docs') = Len(docs)
           \/ \A k \in 1..Len(stack) : stack[k].tag # "section"
    PROVE  KeepsSections
<1>1. stack \in Seq(Frames)  BY DEF CInv, Types
<1>2. /\ Len(stack') = Len(stack) + 1 /\ Len(stack) \in Nat
      /\ \A k \in 1..Len(stack) : stack'[k] = stack[k]
      /\ stack'[Len(stack) + 1] = f
  BY <1>1
<1>3. \A k \in 1..Len(stack') : k \in 1..Len(stack) \/ k = Len(stack) + 1  BY <1>2
<1>4. Main' <=> Main  BY DEF Main
<1>5. QED  BY <1>2, <1>3, <1>4 DEF KeepsSections

LEMMA PopKeepsSections ==
    ASSUME CInv, stack # <<>>, Top.tag \in {"section"} \union Containers,
           phase' = phase, Len(docs') = Len(docs), NEW mode \in Modes,
           stack' = AfterChild(SubSeq(stack, 1, Len(stack) - 1), cur, mode)
    PROVE  KeepsSections
<1>1. /\ Len(stack') = Len(stack) - 1
      /\ \A k \in 1..(Len(stack) - 1) :
            /\ k \in 1..Len(stack) /\ stack'[k].tag = stack[k].tag
            /\ stack'[k].to = stack[k].to
  BY Popped
<1>2. Main' <=> Main  BY DEF Main
<1>3. QED  BY <1>1, <1>2 DEF KeepsSections

(* A section that opens a file while sections are to stay in one is the     *)
(* only one that is open.                                                   *)
LEMMA OutermostStarts ==
    ASSUME CInv, SectionsInOneFile, StartsFile
    PROVE  \A k \in 1..Len(stack) : stack[k].tag # "section"
<1>1. Header \in Nat /\ conf \in Settings  BY HeaderIsNat DEF CInv, Types
<1>2. Header = 0
  <2>1. ChapterPerFile /\ Header + 1 < ChapterLevel  BY DEF StartsFile
  <2>2. ChapterLevel <= 2  BY <2>1 DEF SectionsInOneFile
  <2>3. ChapterLevel \in Int  BY <1>1 DEF ChapterLevel
  <2>4. QED  BY <1>1, <2>1, <2>2, <2>3
<1> DEFINE S == {k \in 1..Len(stack) : stack[k].tag = "section"}
<1>3. IsFiniteSet(S)
  <2>1. IsFiniteSet(1..Len(stack))  BY FS_Interval, LenProperties DEF CInv, Types
  <2>2. QED  BY <2>1, FS_Subset
<1>4. Cardinality(S) = 0  BY <1>2 DEF Header
<1>5. S = {}  BY <1>3, <1>4, FS_EmptySet
<1>6. QED  BY <1>5

LEMMA NodesKeepSections ==
    ASSUME Settled, CInv, Adds, conf' = conf, SectionsInOneFile,
           \/ OpenSection \/ CloseSection \/ CloseContainer
           \/ \E kind \in Containers : OpenContainer(kind)
    PROVE  KeepsSections
<1>1. cur = Len(docs) /\ cur' = Len(docs') /\ cur \in Nat  BY LenProperties DEF CInv, Types, Adds, Growth
<1>2. CASE OpenSection
  <2> DEFINE f == Frame("section", Target(StartsFile), Number)
  <2>1. cur' = Target(StartsFile)  BY <1>2, OpenSectionStep
  <2>2. /\ phase' = phase /\ stack' = Append(stack, f) /\ cur' = Current(StartsFile)
    BY <1>2 DEF OpenSection, OpenFileIf
  <2>3. f.to = cur'  BY <2>1 DEF Frame
  <2> HIDE DEF f
  <2>4. CASE StartsFile
    <3>1. \A k \in 1..Len(stack) : stack[k].tag # "section"  BY <2>4, OutermostStarts
    <3>2. QED  BY <1>1, <2>2, <2>3, <3>1, PushKeepsSections
  <2>5. CASE ~StartsFile
    <3>1. Len(docs') = Len(docs)  BY <1>1, <2>2, <2>5 DEF Current
    <3>2. QED  BY <1>1, <2>2, <2>3, <3>1, PushKeepsSections
  <2>6. QED  BY <2>4, <2>5
<1>3. CASE CloseSection
  <2>1. /\ stack # <<>> /\ Top.tag = "section" /\ phase' = phase /\ cur' = cur
        /\ stack' = AfterChild(SubSeq(stack, 1, Len(stack) - 1), cur, "sections")
    BY <1>3 DEF CloseSection
  <2>2. "sections" \in Modes  BY DEF Modes
  <2>3. QED  BY <1>1, <2>1, <2>2, PopKeepsSections
<1>4. CASE CloseContainer
  <2>1. PICK mode \in {"head", "text"} :
            stack' = AfterChild(SubSeq(stack, 1, Len(stack) - 1), cur, mode)
    BY <1>4 DEF CloseContainer
  <2>2. /\ stack # <<>> /\ Top.tag \in Containers /\ phase' = phase /\ cur' = cur
        /\ mode \in Modes
    BY <1>4 DEF CloseContainer, Modes
  <2>3. QED  BY <1>1, <2>1, <2>2, PopKeepsSections
<1>5. ASSUME NEW kind \in Containers, OpenContainer(kind)
      PROVE  KeepsSections
  <2> DEFINE f == Frame(kind, Top.inner, Number)
  <2>1. phase' = phase /\ cur' = cur /\ stack' = Append(stack, f)  BY <1>5 DEF OpenContainer
  <2>2. f.tag # "section"  BY DEF Frame, Containers, Special
  <2> HIDE DEF f
  <2>3. QED  BY <1>1, <2>1, <2>2, PushKeepsSections
<1>6. QED  BY <1>2, <1>3, <1>4, <1>5

LEMMA BodiesKeepSections ==
    ASSUME StartAnnotation \/ EndAnnotation \/ StartBody \/ EndBody
    PROVE  KeepsSections
<1>1. CASE StartAnnotation \/ StartBody
  <2>1. PICK tag \in {"annotation", "body"} : stack' = <<Frame(tag, cur', 0)>>
    BY <1>1 DEF StartAnnotation, StartBody
  <2>2. \A k \in 1..Len(stack') : stack'[k].tag # "section"  BY <2>1 DEF Frame
  <2>3. QED  BY <2>2 DEF KeepsSections
<1>2. CASE EndAnnotation \/ EndBody
  <2>1. stack' = <<>>  BY <1>2 DEF EndAnnotation, EndBody
  <2>2. Len(stack') = 0  BY <2>1, EmptySeq
  <2>3. QED  BY <2>2 DEF KeepsSections
<1>3. QED  BY <1>1, <1>2

LEMMA SectionsStayStep ==
    ASSUME Settled, BInv, SectionsStay, [Next]_vars
    PROVE  SectionsStay'
<1>1. CInv /\ CInv' /\ Adds  BY ControlStep DEF BInv
<1>2. conf' = conf  BY DEF Next, vars
<1>3. SectionsInOneFile' <=> SectionsInOneFile
  BY <1>2 DEF SectionsInOneFile, Splits, ChapterPerFile, ChapterLevel, PagesPerFile
<1> SUFFICES ASSUME SectionsInOneFile, Main'
             PROVE  \A k \in 1..Len(stack') :
                        stack'[k].tag = "section" => stack'[k].to = Len(docs')
  BY <1>3 DEF SectionsStay
<1>4. KeepsSections
  <2>1. CASE StartAnnotation \/ EndAnnotation \/ StartBody \/ EndBody
    BY <2>1, BodiesKeepSections
  <2>2. CASE \/ OpenSection \/ CloseSection \/ CloseContainer
             \/ \E kind \in Containers : OpenContainer(kind)
    BY <1>1, <1>2, <2>2, NodesKeepSections
  <2>3. ASSUME NEW k \in 0..MaxMarkers, Title(k) \/ Paragraph(k) \/ Subtitle(k) \/ Verse(k)
        PROVE  KeepsSections
    BY <1>1, <2>3, LeavesKeepSections
  <2>4. CASE Divider \/ TextAuthor
    <3>1. 0 \in 0..MaxMarkers  BY BoundsAssumption
    <3>2. QED  BY <1>1, <2>4, <3>1, LeavesKeepSections
  <2>5. CASE UNCHANGED vars
    <3>1. docs' = docs /\ stack' = stack /\ phase' = phase  BY <2>5 DEF vars
    <3>2. Main' <=> Main  BY <3>1 DEF Main
    <3>3. QED  BY <3>1, <3>2 DEF KeepsSections
  <2>6. QED  BY <2>1, <2>2, <2>3, <2>4, <2>5 DEF Next
<1>5. QED  BY <1>4 DEF KeepsSections, SectionsStay

LEMMA VInvStep ==
    ASSUME Settled, BInv, VInv, [Next]_vars
    PROVE  VInv'
<1>1. CInv /\ CInv' /\ Adds /\ TextInOrder  BY ControlStep DEF BInv
<1>2. conf' = conf  BY DEF Next, vars
<1>3. PICK new : Growth(new) /\ AddsText(new) /\ AddsVignette(new)  BY <1>1 DEF Adds
<1>4. Types'  BY <1>1 DEF CInv
<1>5. VignettesInOrder'  BY <1>1, <1>2, <1>3, <1>4, VignettesStep DEF VInv
<1>6. SectionsStay'  BY SectionsStayStep DEF VInv
<1>7. QED  BY <1>5, <1>6 DEF VInv

LEMMA VignettesOfFiles ==
    ASSUME Types, FilesInOrder, VignettesInOrder
    PROVE  VignetteAtChapterEnd
<1> SUFFICES ASSUME NEW p \in Places, NEW q \in Places,
                    At(p)[1] = "vignette", At(q)[1] = "text"
             PROVE  /\ Before(q, p) => At(q)[2] <= At(p)[2]
                    /\ Before(p, q) /\ (SectionsInOneFile \/ p[1] = q[1]) => At(q)[2] > At(p)[2]
  BY DEF VignetteAtChapterEnd
<1>1. /\ p[1] \in 1..Len(files) /\ p[2] \in 1..Len(docs[files[p[1]]].items)
      /\ q[1] \in 1..Len(files) /\ q[2] \in 1..Len(docs[files[q[1]]].items)
  BY DEF Places
<1>2. files[p[1]] \in 1..Len(docs) /\ files[q[1]] \in 1..Len(docs)
  BY <1>1 DEF FilesInOrder
<1>3. /\ Before(p, q) => Precedes(files[p[1]], p[2], files[q[1]], q[2])
      /\ Before(q, p) => Precedes(files[q[1]], q[2], files[p[1]], p[2])
  BY <1>1 DEF FilesInOrder, Before, Precedes
<1>4. p[1] = q[1] => files[p[1]] = files[q[1]]  OBVIOUS
<1>5. QED  BY <1>1, <1>2, <1>3, <1>4 DEF VignettesInOrder, At, IsText, IsVignette

LEMMA VInvInit ==
    ASSUME Init
    PROVE  VInv
<1>1. Len(docs) = 0 /\ Len(stack) = 0  BY EmptySeq DEF Init
<1>2. QED  BY <1>1 DEF VInv, VignettesInOrder, SectionsStay

(* An end vignette has no text in front of it that comes after its chapter, *)
(* and no text of its chapter behind it, in its own file always, and in all *)
(* files where the configuration keeps sections in one file.                *)
THEOREM VignettesEndChapters ==
    ASSUME Settled
    PROVE  Spec => []VignetteAtChapterEnd
<1>1. Init => VInv  BY VInvInit
<1>2. BInv /\ VInv /\ [Next]_vars => VInv'  BY VInvStep
<1>3. BInv /\ VInv => VignetteAtChapterEnd  BY VignettesOfFiles DEF BInv, CInv, VInv
<1>4. QED  BY <1>1, <1>2, <1>3, TransferInvariant, PTL DEF Spec

=============================================================================
