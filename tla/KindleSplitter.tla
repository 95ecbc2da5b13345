--------------------------- MODULE KindleSplitter ---------------------------
(***************************************************************************)
(* mobi.Splitter (processor/internal/mobi/splitter.go) and mobi.Reader     *)
(* (reader.go).  kindlegen makes a joint file: sections of the old format, *)
(* among them the images, a boundary, and sections of the new format (KF8) *)
(* without images.  produceCombo cleans the joint file and saves it as     *)
(* MOBI; produceKF8 cuts the KF8 part out, moves the images into it and    *)
(* saves it as AZW3.  Later the reader takes the thumbnail for a device    *)
(* from what was saved.                                                    *)
(*                                                                         *)
(* The header of a part names sections by number, relative to its part or  *)
(* to the first image; what can go wrong is that a number is used for      *)
(* another file than the one it counts in.                                 *)
(***************************************************************************)
EXTENDS PdbFile

Nothing == -1           \* the value of a number that is not set

CONSTANTS
    Layouts,            \* [kind, pre7, images, sources, page, pre8, pad]: what kindlegen
                        \* left ("joint", or a file of one part), numbers of sections
    Metas,              \* [starts, uri, count, cdekey, asin]: the EXTH records
    Covers,             \* <<cover, thumb>>: numbers of images, Nothing for none
    Modes               \* [combo, nonPersonal, forceASIN]: what is asked for

ASSUME LayoutsAssumption ==
    \A l \in Layouts : /\ l.pre7 \in Nat \ {0} /\ l.images \in Nat \ {0}
                       /\ l.pre8 \in Nat /\ l.sources \in Nat
                       /\ l.page \in {"none", "seven", "eight"}
                       /\ l.kind \in {"joint", "single", "old"} /\ l.pad \in Nat

ASSUME MetasAssumption ==
    \A m \in Metas : m.starts \in Nat /\ {m.uri, m.count, m.cdekey, m.asin} \subseteq BOOLEAN

ASSUME ModesAssumption ==
    \A m \in Modes : {m.combo, m.nonPersonal, m.forceASIN} \subseteq BOOLEAN

ASSUME CoversAssumption == \A c \in Covers : {c[1], c[2]} \subseteq Nat \union {Nothing}

VARIABLES
    mode,               \* the arguments of NewSplitter
    data,               \* the file, as read
    pc,                 \* the next step
    result,             \* Splitter.result, a file in the making
    rec0,               \* header of the old part
    head,               \* kfrec0, header of the new part
    todo,               \* sections of the sources still to be emptied
    asin, cdekey, cdetype,      \* fields of the Splitter of these names
    pages,              \* pagedata: the key and type it is written for
    disk,               \* what is saved
    seen                \* what the reader found in the result

vars == <<mode, data, pc, result, rec0, head, todo, asin, cdekey, cdetype,
          pages, disk, seen>>

-----------------------------------------------------------------------------
(* EXTH numbers. *)
ASIN == 113
StartReading == 116
KF8Offset == 121
ResourceCount == 125
ThumbnailURI == 129
CoverOffset == 201
ThumbOffset == 202
CDEType == 501
CDEContentKey == 504

(* Values of these: keys, of the source or given by the converter, and the  *)
(* types of a content. Numbers of sections and images are below 100.       *)
OwnKey == 101
OwnASIN == 102
Given == 103
EBOK == 201
PDOC == 202

Pointers == {"fdst", "fcis", "flis", "datp", "hufftbl"}

(* What kindlegen writes. *)
Base == 248             \* bytes of a header section before its EXTH block

ExthSize(recs) == ExthHead + ByteCount(recs)

Times(n, x) == [k \in 1..n |-> x]

If(b, x) == IF b THEN <<x>> ELSE <<>>

CoverRecs(c) ==
    If(c[1] # Nothing, Rec(CoverOffset, c[1], 4)) \o If(c[2] # Nothing, Rec(ThumbOffset, c[2], 4))

SharedRecs(m, c) ==
    CoverRecs(c) \o If(m.cdekey, Rec(CDEContentKey, OwnKey, 10))

Recs7(l, m, c) ==
    If(m.asin, Rec(ASIN, OwnASIN, 10)) \o SharedRecs(m, c)
      \o If(l.kind = "joint", Rec(KF8Offset, 3 + l.pre7 + l.images + l.sources
                                               + (IF l.page = "seven" THEN 1 ELSE 0), 4))

Head7(l, m, c) ==
    [part |-> 7, version |-> IF l.kind = "single" THEN 8 ELSE 6,
     firstNonText |-> 1 + l.pre7, firstRes |-> 1 + l.pre7, lastRes |-> l.pre7 + l.images,
     srcs |-> IF l.sources = 0 THEN Nothing ELSE 1 + l.pre7 + l.images, nsrcs |-> l.sources,
     exth |-> Recs7(l, m, c), enum |-> Len(Recs7(l, m, c)), elen |-> ExthSize(Recs7(l, m, c)),
     title |-> Base + ExthSize(Recs7(l, m, c)), len |-> Base + ExthSize(Recs7(l, m, c)) + 20]

(* The KF8 pointers count from the header of the part. *)
Recs8(m, c) ==
    SharedRecs(m, c) \o [k \in 1..m.starts |-> Rec(StartReading, k, 4)]
      \o If(m.uri, Rec(ThumbnailURI, Nothing, 20)) \o If(m.count, Rec(ResourceCount, 0, 4))

Head8(l, m, c) ==
    [part |-> 8, version |-> 8, firstRes |-> 1 + l.pre8, flags |-> 4176,
     ptr |-> [fdst |-> 1 + l.pre8, fcis |-> 2 + l.pre8, flis |-> 2 + l.pre8,
              datp |-> Nothing, hufftbl |-> Nothing],
     exth |-> Recs8(m, c), enum |-> Len(Recs8(m, c)), elen |-> ExthSize(Recs8(m, c)),
     title |-> Base + ExthSize(Recs8(m, c)), len |-> Base + ExthSize(Recs8(m, c)) + 20]

Text(part, k) == [text |-> <<part, k>>, len |-> 40]
Image(k) == [image |-> k, len |-> 50 + k]
Other(what) == [other |-> what, len |-> 36]

JointSections(l, m, c) ==
    <<Head7(l, m, c)>> \o [i \in 1..l.pre7 |-> Text(7, i)] \o [i \in 1..l.images |-> Image(i - 1)]
      \o Times(l.sources, Other("SRCS")) \o If(l.page = "seven", Other("PAGE"))
      \o <<Other("FCIS7"), Other("BOUNDARY"), Head8(l, m, c)>> \o [i \in 1..l.pre8 |-> Text(8, i)]
      \o <<Other("FDST"), Other("FCIS")>> \o If(l.page = "eight", Other("PAGE")) \o <<Other("EOF")>>

MakeFile(secs, pad) ==
    LET zero == FirstRecord + EntrySize * Len(secs) + pad
    IN  [seed |-> 2 * Len(secs) + 1, pad |-> pad,
         table |-> [k \in 1..Len(secs) |->
                      [ofs |-> zero + ByteCount(SubSeq(secs, 1, k - 1)), id |-> 2 * (k - 1)]],
         body |-> FlattenSeq([k \in DOMAIN secs |-> Run(secs[k])])]

-----------------------------------------------------------------------------
(* A section that holds all of one content, or nothing known. *)
Torn == [other |-> "torn", len |-> 0]
Empty == [other |-> "empty", len |-> 0]

Content(pdb, i) ==
    LET r == ReadSection(pdb, i)
    IN  IF r = <<>> THEN Empty
        ELSE IF Len(r) = 1 /\ r[1].from = 0 /\ r[1].len = r[1].of.len THEN r[1].of
        ELSE Torn

Kf8(h) == ReadExth(h, KF8Offset)[1].val

First(recs) == IF recs = <<>> THEN Nothing ELSE recs[1].val

(* image.Decode *)
Decodes(c) == {"image", "thumb"} \cap DOMAIN c # {}

-----------------------------------------------------------------------------
Init ==
    /\ mode \in Modes
    /\ \E l \in Layouts, m \in Metas, c \in Covers :
         /\ c[1] < l.images /\ c[2] < l.images
         /\ data = MakeFile(JointSections(l, m, c), l.pad)
    /\ pc = "open"
    /\ result = <<>>
    /\ rec0 = <<>> /\ head = <<>> /\ todo = <<>>
    /\ asin = Nothing /\ cdekey = Nothing /\ cdetype = Nothing
    /\ pages = <<>> /\ disk = {} /\ seen = <<>>

fields == <<asin, cdekey, cdetype>>
input  == <<mode, data>>

(* A file that is KF8 already, or that has no KF8 part: there will be no   *)
(* result.                                                                 *)
Ignore ==
    /\ pc = "open"
    /\ \/ Content(data, 0).version = 8
       \/ ReadExth(Content(data, 0), KF8Offset) = <<>>
    /\ pc' = "ignored"
    /\ UNCHANGED <<input, result, rec0, head, todo, fields, pages, disk, seen>>

Open ==
    /\ pc = "open"
    /\ rec0' = Content(data, 0)
    /\ rec0'.version # 8
    /\ ReadExth(rec0', KF8Offset) # <<>>
    /\ head' = Content(data, Kf8(rec0'))
    /\ result' = data
    /\ IF mode.combo
         THEN /\ pc' = "sources"
              /\ todo' = [k \in 1..rec0'.nsrcs |-> rec0'.srcs + k - 1]
         ELSE pc' = "cut" /\ UNCHANGED todo
    /\ asin' = IF ReadExth(rec0', ASIN) = <<>> THEN Given ELSE First(ReadExth(rec0', ASIN))
    /\ UNCHANGED <<input, cdekey, cdetype, pages, disk, seen>>

-----------------------------------------------------------------------------
(* produceCombo: the sections with the sources are emptied, so that no     *)
(* section changes its number.                                             *)
EmptySource ==
    /\ pc = "sources" /\ todo # <<>>
    /\ result' = NullSection(result, todo[1])
    /\ todo' = Tail(todo)
    /\ UNCHANGED <<input, pc, rec0, head, fields, pages, disk, seen>>

PatchOldHeader ==
    /\ pc = "sources" /\ todo = <<>>
    /\ LET r == IF rec0.srcs >= 0 /\ rec0.nsrcs > 0
                  THEN [rec0 EXCEPT !.srcs = Nothing, !.nsrcs = 0] ELSE rec0
           t == IF mode.nonPersonal THEN AddExth(r, CDEType, EBOK, 4) ELSE r
       IN  rec0' = IF mode.nonPersonal /\ ReadExth(rec0, ASIN) = <<>>
                     THEN AddExth(t, ASIN, asin, 10) ELSE t
    /\ result' = WriteSection(result, 0, Run(rec0'))
    /\ pc' = "starts"
    /\ UNCHANGED <<input, head, todo, fields, pages, disk, seen>>

-----------------------------------------------------------------------------
(* produceKF8: the sections before the KF8 header go, the images come in   *)
(* where its header says that they are.                                    *)
Cut ==
    /\ pc = "cut"
    /\ result' = InsertRange(data, rec0.firstRes, rec0.lastRes,
                             DeleteRange(data, 0, Kf8(rec0) - 1), head.firstRes)
    /\ head' = Content(result', 0)
    /\ pc' = "starts"
    /\ UNCHANGED <<input, rec0, todo, fields, pages, disk, seen>>

Inserted == rec0.lastRes - rec0.firstRes + 1

(* fval & 0x1FFF | 0x0800 *)
SharedImages(flags) ==
    LET f == flags % 8192 IN IF (f \div 2048) % 2 = 1 THEN f ELSE f + 2048

PatchCountOnly ==
    /\ pc = "header"
    /\ head' = [WriteExth(head, ResourceCount, Inserted, 4) EXCEPT !.flags = SharedImages(@)]
    /\ pc' = "cover"
    /\ UNCHANGED <<input, result, rec0, todo, fields, pages, disk, seen>>

PatchHeader ==
    /\ pc = "header"
    /\ head' = [WriteExth(head, ResourceCount, Inserted, 4) EXCEPT
                  !.flags = SharedImages(@),
                  !.ptr = [p \in Pointers |-> IF @[p] >= 0 THEN @[p] + Inserted ELSE @[p]]]
    /\ pc' = "cover"
    /\ UNCHANGED <<input, result, rec0, todo, fields, pages, disk, seen>>

-----------------------------------------------------------------------------
(* Both. Of several records "start reading" the last one is kept. *)
DropStart ==
    /\ pc = "starts"
    /\ Len(ReadExth(head, StartReading)) > 1
    /\ head' = DelExth(head, StartReading)
    /\ UNCHANGED <<input, pc, result, rec0, todo, fields, pages, disk, seen>>

StartsDone ==
    /\ pc = "starts"
    /\ Len(ReadExth(head, StartReading)) <= 1
    /\ pc' = IF mode.combo THEN "cover" ELSE "header"
    /\ UNCHANGED <<input, result, rec0, head, todo, fields, pages, disk, seen>>

(* The number of the first image in the result. *)
FirstImage == IF mode.combo THEN rec0.firstRes ELSE head.firstRes

Cover0 == First(ReadExth(head, CoverOffset))
Thumb0 == First(ReadExth(head, ThumbOffset))

(* Where the image for the thumbnail is read: the source file, by the      *)
(* number that the image has in the result.                                *)
CoverImage == Content(data, FirstImage + Cover0)

NoCover ==
    /\ pc = "cover"
    /\ Cover0 = Nothing
    /\ pc' = "keys"
    /\ UNCHANGED <<input, result, rec0, head, todo, fields, pages, disk, seen>>

(* The thumbnail is made again from the cover, when that can be done; if   *)
(* there is none the cover itself is named.                                *)
MakeThumbnail(encodes) ==
    /\ pc = "cover"
    /\ Cover0 # Nothing
    /\ result' = IF Thumb0 # Nothing /\ Decodes(CoverImage) /\ encodes
                   THEN WriteSection(result, FirstImage + Thumb0, Run([thumb |-> CoverImage, len |-> 30]))
                   ELSE result
    /\ LET h == IF Thumb0 # Nothing THEN head ELSE AddExth(head, ThumbOffset, Cover0, 4)
           i == IF Thumb0 # Nothing THEN Thumb0 ELSE Cover0
       IN  head' = AddExth(DelExth(h, ThumbnailURI), ThumbnailURI, i, 20)
    /\ pc' = "keys"
    /\ UNCHANGED <<input, rec0, todo, fields, pages, disk, seen>>

TypeAsked == IF mode.nonPersonal THEN EBOK ELSE PDOC

KeysComboUnwritten ==
    /\ pc = "keys" /\ mode.combo
    /\ cdekey' = IF ReadExth(head, CDEContentKey) = <<>> THEN Given
                   ELSE First(ReadExth(head, CDEContentKey))
    /\ cdetype' = TypeAsked
    /\ head' = IF mode.nonPersonal THEN AddExth(head, CDEType, EBOK, 4) ELSE head
    /\ pc' = "write"
    /\ UNCHANGED <<input, result, rec0, todo, asin, pages, disk, seen>>

KeysCombo ==
    /\ pc = "keys" /\ mode.combo
    /\ LET none == ReadExth(head, CDEContentKey) = <<>>
           t == AddExth(head, CDEType, EBOK, 4)
       IN  /\ cdekey' = IF none THEN Given ELSE First(ReadExth(head, CDEContentKey))
           /\ cdetype' = TypeAsked
           /\ head' = CASE ~mode.nonPersonal -> head
                        [] mode.nonPersonal /\ none -> AddExth(t, CDEContentKey, cdekey', 10)
                        [] OTHER -> t
    /\ pc' = "write"
    /\ UNCHANGED <<input, result, rec0, todo, asin, pages, disk, seen>>

KeysKF8 ==
    /\ pc = "keys" /\ ~mode.combo
    /\ LET t == AddExth(head, CDEType, TypeAsked, 4)
           none == ReadExth(t, CDEContentKey) = <<>>
           k == IF none THEN AddExth(t, CDEContentKey, Given, 10) ELSE t
       IN  /\ cdetype' = First(ReadExth(t, CDEType))
           /\ cdekey' = First(ReadExth(k, CDEContentKey))
           /\ head' = IF mode.forceASIN /\ ReadExth(k, ASIN) = <<>>
                        THEN AddExth(k, ASIN, cdekey', 10) ELSE k
    /\ pc' = "write"
    /\ UNCHANGED <<input, result, rec0, todo, asin, pages, disk, seen>>

(* Any PAGE section behind the text, the header of the old part says where *)
(* the text ends.                                                          *)
HasPageMap ==
    LET h == Content(data, 0)
    IN  \E i \in Sections(data) : i >= h.firstNonText /\ Content(data, i) = Other("PAGE")

(* processPageData: the page map goes by the key of the book, unless it    *)
(* cannot be parsed.                                                       *)
PageData(parses) ==
    IF HasPageMap /\ parses
      THEN [key |-> IF cdekey = Nothing THEN asin ELSE cdekey, type |-> cdetype, kf8 |-> ~mode.combo]
      ELSE <<>>

Write(parses) ==
    /\ pc = "write"
    /\ result' = WriteSection(result, IF mode.combo THEN Kf8(rec0) ELSE 0, Run(head))
    /\ pages' = PageData(parses)
    /\ pc' = "done"
    /\ UNCHANGED <<input, rec0, head, todo, fields, disk, seen>>

(* SaveResult and SavePageMap: nothing to save is an error; a page map that *)
(* is asked for is written, an empty one as well.                          *)
Save(wanted) ==
    /\ pc \in {"done", "ignored"}
    /\ pc' = IF result = <<>> THEN "failed" ELSE "saved"
    /\ disk' = IF result = <<>> THEN disk
               ELSE {"book"} \union (IF wanted THEN {"page map"} ELSE {})
    /\ UNCHANGED <<input, result, rec0, head, todo, fields, pages, seen>>

-----------------------------------------------------------------------------
(* Reader.produceThumbnail of the saved file: a thumbnail that is large    *)
(* enough is taken, otherwise it is made from the cover; the name comes    *)
(* from the keys, those of the KF8 part first.                             *)
Prefer(h8, h, num) ==
    IF ReadExth(h8, num) # <<>> THEN First(ReadExth(h8, num)) ELSE First(ReadExth(h, num))

Extract(large) ==
    /\ pc = "saved"
    /\ LET h  == Content(result, 0)
           h8 == IF ReadExth(h, KF8Offset) # <<>> THEN Content(result, Kf8(h)) ELSE h
           c == First(ReadExth(h, CoverOffset))
           t == First(ReadExth(h, ThumbOffset))
           taken == /\ t # Nothing /\ large /\ Decodes(Content(result, h.firstRes + t))
           image == Content(result, h.firstRes + IF taken THEN t ELSE c)
           key == Prefer(h8, h, CDEContentKey)
       IN  seen' = [image |-> IF c # Nothing /\ Decodes(image) THEN image ELSE Torn,
                    key |-> IF key # Nothing THEN key ELSE Prefer(h8, h, ASIN),
                    type |-> Prefer(h8, h, CDEType)]
    /\ pc' = "read"
    /\ UNCHANGED <<input, result, rec0, head, todo, fields, pages, disk>>

Next ==
    \/ Ignore
    \/ Open
    \/ EmptySource
    \/ PatchOldHeader
    \/ Cut
    \/ PatchHeader
    \/ DropStart
    \/ StartsDone
    \/ NoCover
    \/ \E encodes \in BOOLEAN : MakeThumbnail(encodes)
    \/ KeysCombo
    \/ KeysKF8
    \/ \E parses \in BOOLEAN : Write(parses)
    \/ \E wanted \in BOOLEAN : Save(wanted)
    \/ \E large \in BOOLEAN : Extract(large)

Spec == Init /\ [][Next]_vars

-----------------------------------------------------------------------------
(* Properties. *)

(* The file in the making is a database at every step: addresses ascend    *)
(* from the end of the table, sections are numbered and so is the seed of  *)
(* new ids.                                                                *)
TypeOK ==
    /\ pc \in {"open", "ignored", "sources", "cut", "starts", "header", "cover", "keys",
              "write", "done", "saved", "failed", "read"}
    /\ result # <<>> =>
         /\ result.seed = 2 * Len(result.table) + 1
         /\ Start(result, 0) = BodyStart(result)
         /\ \A i \in Sections(result) : /\ Start(result, i) <= End(result, i)
                                       /\ result.table[i + 1].id = 2 * i

Saved == pc \in {"saved", "read"}

OldHead == Content(data, 0)
NewHead == Content(data, Kf8(OldHead))

(* Where a section of the saved file comes from. *)
Origin(i) ==
    LET kf8 == Kf8(OldHead)
        target == NewHead.firstRes
    IN  CASE mode.combo -> i
          [] ~mode.combo /\ i < target -> kf8 + i
          [] ~mode.combo /\ i \in target..(target + Inserted - 1) -> OldHead.firstRes + i - target
          [] OTHER -> kf8 + i - Inserted

Planned(c) == IF mode.combo /\ c = Other("SRCS") THEN Empty ELSE c

HeadSections == IF mode.combo THEN {0, Kf8(OldHead)} ELSE {0}

(* What is saved has the sections of the source, in their order and whole: *)
(* without those cut or emptied, with the images in their new place, with  *)
(* new headers, and a new thumbnail at most where the thumbnail was.       *)
SavedAsPlanned ==
    Saved =>
      /\ Len(result.table) = IF mode.combo THEN Len(data.table)
                             ELSE Len(data.table) - Kf8(OldHead) + Inserted
      /\ \A i \in Sections(result) :
           LET new == Content(result, i)
               old == Content(data, Origin(i))
           IN  IF i \in HeadSections THEN new.part = old.part
               ELSE \/ new = Planned(old)
                    \/ i = FirstImage + Thumb0 /\ "thumb" \in DOMAIN new

(* A section that the KF8 header named in the joint file is the one that   *)
(* it names in the file cut out of it.                                     *)
PointersFollow ==
    Saved /\ ~mode.combo =>
      \A p \in Pointers :
        NewHead.ptr[p] # Nothing =>
          Content(result, Content(result, 0).ptr[p]) = Content(data, Kf8(OldHead) + NewHead.ptr[p])

(* The counters of the EXTH blocks are right and the title stays behind    *)
(* them, after any number of records were added and deleted.               *)
ExthIsSound ==
    \A h \in {h \in {rec0, head} : h # <<>>} :
      /\ h.enum = Len(h.exth)
      /\ h.elen = ExthSize(h.exth)
      /\ h.title = Base + h.elen

(* Where reading starts is where it started last in the source, and the    *)
(* one thumbnail that is named is an image of the saved file.              *)
NamesOneThumbnail ==
    Saved =>
      LET h == Content(result, IF mode.combo THEN Kf8(OldHead) ELSE 0)
          starts == ReadExth(NewHead, StartReading)
          uris == ReadExth(h, ThumbnailURI)
      IN  /\ starts # <<>> => ReadExth(h, StartReading) = <<Last(starts)>>
          /\ ReadExth(h, CoverOffset) # <<>> =>
               /\ Len(uris) = 1
               /\ uris[1].val = First(ReadExth(h, ThumbOffset))
               /\ Decodes(Content(result, FirstImage + uris[1].val))

(* A joint file that stays a personal document gets no records for its key *)
(* and its type: what the page map says of them is in the page map only.   *)
PersonalJoint == mode.combo /\ ~mode.nonPersonal

(* The page map has the type of content that was asked for, and the reader *)
(* finds that type in the saved file, or none where a joint file stays a   *)
(* personal document. The reader and the page map go by the same key,      *)
(* unless such a file came without a key.                                  *)
KeysAgree ==
    pc = "read" /\ "page map" \in disk /\ pages # <<>> =>
      /\ pages.type = TypeAsked
      /\ seen.type = IF PersonalJoint THEN Nothing ELSE TypeAsked
      /\ \/ seen.key = pages.key
         \/ PersonalJoint /\ ReadExth(NewHead, CDEContentKey) = <<>>

(* "make sure embedded thumbnail has the right size" (splitter.go:378):    *)
(* the new thumbnail is the cover.                                         *)
ThumbnailShowsCover ==
    Saved =>
      LET t == Content(result, FirstImage + Thumb0)
      IN  Cover0 # Nothing /\ "thumb" \in DOMAIN t =>
            t.thumb = Content(data, OldHead.firstRes + Cover0)
=============================================================================
