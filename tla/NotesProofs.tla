----------------------------- MODULE NotesProofs -----------------------------
(***************************************************************************)
(* Proofs about Notes: for any number of notes, bodies and files, notes in *)
(* place are where they are referred to, links to notes lead to them, and  *)
(* notes lead back.                                                        *)
(***************************************************************************)
EXTENDS Notes, FlattenFacts

-----------------------------------------------------------------------------
FileNames == ({"index"} \X Nat) \union ({"notes"} \X Names)
Hrefs == FileNames \union {Nowhere, Local}
Kinds == {"ref", "link", "anchor", "shown", "note", "title"}
ItemSet == [kind : Kinds, id : Ids \union Names, href : Hrefs]
NoteSet == [id : Ids, body : Names, refs : Seq(Ids), parsed : Seq(ItemSet)]
FileSet == [name : FileNames, items : Seq(ItemSet)]
Keys == {Note(id) : id \in Ids} \union {Back(id) : id \in Ids}

In(f) == ToSet(files[f].items)

Types ==
    /\ mode \in Modes
    /\ phase \in {"scan", "main", "notes", "done"}
    /\ scanned \in Seq(Names)
    /\ order \in Seq(NoteSet)
    /\ DOMAIN links \subseteq Keys
    /\ links \in [DOMAIN links -> FileNames]
    /\ files \in Seq(FileSet)
    /\ inParagraph \in BOOLEAN
    /\ currentNotes \in Seq(Ids)
    /\ bodies \in 0..Len(scanned)

(* What was left of the phases before. *)
Phases ==
    /\ phase = "scan" => files = <<>> /\ currentNotes = <<>>
    /\ phase # "scan" => files # <<>>
    /\ phase # "main" => ~inParagraph
    /\ phase \in {"scan", "main"} => bodies = 0
    /\ phase = "done" => bodies = Len(scanned)
    /\ mode = "inline" => currentNotes = <<>>

(* Files of the main body have no note, and before the bodies with notes   *)
(* there are no others.                                                    *)
Texts ==
    /\ phase \in {"scan", "main"} => \A f \in DOMAIN files : files[f].name[1] = "index"
    /\ \A f \in DOMAIN files : files[f].name[1] = "index" => \A x \in In(f) : x.kind # "note"

(* A link is local until all links are made whole, also in a note that was *)
(* kept as it was read.                                                    *)
LocalLinks ==
    /\ \A n \in DOMAIN order : \A x \in ToSet(order[n].parsed) :
         x.kind \in {"ref", "link"} /\ x.href = Local
    /\ phase # "done" => \A f \in DOMAIN files : \A x \in In(f) :
         x.kind \in {"ref", "link"} => x.href = Local

(* The notes of the bodies that were transferred have their places. *)
Placed ==
    /\ \A n \in DOMAIN order : order[n].body \in ToSet(scanned)
    /\ mode \notin InPlace =>
         \A n \in DOMAIN order, k \in 1..bodies :
           order[n].body = scanned[k] => Note(order[n].id) \in DOMAIN links
    /\ \A id \in Ids : Note(id) \in DOMAIN links => id \in Known
    /\ \A id \in Ids : Note(id) \in DOMAIN links => Has(links[Note(id)], "note", id)

(* Of what the main body refers to, the last place is known. *)
Referred == mode \in Floats =>
    /\ \A id \in Ids : IsReferred(id) =>
         Back(id) \in DOMAIN links /\ Has(links[Back(id)], "ref", id)
    /\ \A f \in DOMAIN files : \A x \in In(f) :
         x.kind = "note" => (x.id \in Ids /\ (IsReferred(x.id) => Has(x.href, "ref", x.id)))
-----------------------------------------------------------------------------
(* Items and the two ways files grow. *)
LEMMA ItemsAreItems ==
  ASSUME NEW kind \in Kinds, NEW id \in Ids \union Names
  PROVE  /\ Item(kind, id) \in ItemSet
         /\ Item(kind, id).kind = kind /\ Item(kind, id).id = id /\ Item(kind, id).href = Local
BY DEF Item, ItemSet, Hrefs

LEMMA KeysDiffer ==
  /\ \A id1, id2 : Note(id1) # Back(id2)
  /\ \A id1, id2 : Note(id1) = Note(id2) => id1 = id2
  /\ \A id1, id2 : Back(id1) = Back(id2) => id1 = id2
BY DEF Note, Back

LEMMA Writes ==
  ASSUME files \in Seq(FileSet), files # <<>>, NEW items \in Seq(ItemSet), files' = Written(items)
  PROVE  /\ files' \in Seq(FileSet) /\ Len(files') = Len(files) /\ files' # <<>>
         /\ Len(files) \in DOMAIN files
         /\ \A f \in DOMAIN files :
              /\ files'[f].name = files[f].name
              /\ f # Len(files) => files'[f] = files[f]
         /\ files'[Len(files)].items = files[Len(files)].items \o items
         /\ files[Len(files)].items \in Seq(ItemSet)
<1>1. Len(files) \in DOMAIN files /\ files[Len(files)] \in FileSet
  BY EmptySeq, ElementOfSeq
<1>2. files[Len(files)].items \in Seq(ItemSet)
  BY <1>1 DEF FileSet
<1>3. files[Len(files)].items \o items \in Seq(ItemSet)
  BY <1>2, ConcatProperties
<1> DEFINE new == [files[Len(files)] EXCEPT !.items = @ \o items]
<1>4. files' = [files EXCEPT ![Len(files)] = new]
  BY DEF Written
<1>5. /\ new \in FileSet /\ new.items = files[Len(files)].items \o items
      /\ new.name = files[Len(files)].name
  BY <1>1, <1>3 DEF FileSet
<1> HIDE DEF new
<1>6. files' \in Seq(FileSet) /\ Len(files') = Len(files)
  BY <1>1, <1>4, <1>5, ExceptSeq
<1>7. \A f \in DOMAIN files : files'[f] = IF f = Len(files) THEN new ELSE files[f]
  BY <1>4
<1>8. files' # <<>>
  BY <1>1, <1>6
<1> QED BY <1>1, <1>2, <1>5, <1>6, <1>7, <1>8

LEMMA Adds ==
  ASSUME files \in Seq(FileSet), NEW name \in FileNames, NEW items \in Seq(ItemSet),
         files' = Append(files, [name |-> name, items |-> items])
  PROVE  /\ files' \in Seq(FileSet) /\ Len(files') = Len(files) + 1 /\ files' # <<>>
         /\ DOMAIN files' = DOMAIN files \union {Len(files) + 1}
         /\ \A f \in DOMAIN files : files'[f] = files[f] /\ f # Len(files')
         /\ files'[Len(files) + 1].name = name /\ files'[Len(files) + 1].items = items
<1> DEFINE new == [name |-> name, items |-> items]
<1>1. new \in FileSet /\ new.name = name /\ new.items = items
  BY DEF FileSet
<1> HIDE DEF new
<1>2. files' = Append(files, new)
  BY DEF new
<1> QED BY <1>1, <1>2, AppendProperties

LEMMA LocatesAll ==
  ASSUME NEW ids \in SUBSET Keys, NEW name \in FileNames,
         DOMAIN links \subseteq Keys, links \in [DOMAIN links -> FileNames]
  PROVE  /\ DOMAIN Locate(ids, name) = DOMAIN links \union ids
         /\ DOMAIN Locate(ids, name) \subseteq Keys
         /\ Locate(ids, name) \in [DOMAIN Locate(ids, name) -> FileNames]
         /\ \A l \in ids : Locate(ids, name)[l] = name
         /\ \A l \in DOMAIN links : l \notin ids => Locate(ids, name)[l] = links[l]
BY DEF Locate

LEMMA ShownItems ==
  ASSUME NEW notes \in Seq(Ids)
  PROVE  /\ Shown(notes) \in Seq(ItemSet) /\ Len(Shown(notes)) = Len(notes)
         /\ \A i \in 1..Len(notes) : Shown(notes)[i] = Item("shown", notes[i])
<1>1. \A i \in 1..Len(notes) : Item("shown", notes[i]) \in ItemSet
  <2> TAKE i \in 1..Len(notes)
  <2>1. notes[i] \in Ids
    BY ElementOfSeq
  <2> QED BY <2>1, ItemsAreItems DEF Kinds
<1>2. Shown(notes) \in [1..Len(notes) -> ItemSet]
  BY <1>1 DEF Shown
<1>3. Len(notes) \in Nat
  OBVIOUS
<1>4. Shown(notes) \in Seq(ItemSet) /\ Len(Shown(notes)) = Len(notes)
  BY <1>2, <1>3, FunctionIsSeq
<1>5. \A i \in 1..Len(notes) : Shown(notes)[i] = Item("shown", notes[i])
  BY DEF Shown
<1> QED BY <1>4, <1>5

(* A note as it was read. *)
LEMMA ParsedItems ==
  ASSUME NEW refs \in Refs
  PROVE  /\ refs \in Seq(Ids)
         /\ [i \in DOMAIN refs |-> Parsed(refs[i])] \in Seq(ItemSet)
         /\ \A x \in ToSet([i \in DOMAIN refs |-> Parsed(refs[i])]) :
              x.kind \in {"ref", "link"} /\ x.href = Local
<1> DEFINE parsed == [i \in DOMAIN refs |-> Parsed(refs[i])]
<1>1. PICK n \in 0..1 : refs \in [1..n -> Ids]
  BY DEF Refs
<1>2. \A i \in 1..n : Parsed(refs[i]) \in ItemSet /\ Parsed(refs[i]).kind \in {"ref", "link"}
                      /\ Parsed(refs[i]).href = Local
  <2> TAKE i \in 1..n
  <2>1. refs[i] \in Ids
    BY <1>1
  <2>2. {"ref", "link"} \subseteq Kinds
    BY DEF Kinds
  <2>3. Parsed(refs[i]) \in {Item("ref", refs[i]), Item("link", refs[i])}
    BY DEF Parsed
  <2> QED BY <2>1, <2>2, <2>3, ItemsAreItems
<1>3. parsed \in [1..n -> ItemSet] /\ n \in Nat
  BY <1>1, <1>2
<1>4. refs \in Seq(Ids) /\ parsed \in Seq(ItemSet)
  <2> HIDE DEF parsed
  <2> QED BY <1>1, <1>3, FunctionIsSeq
<1>5. \A x \in ToSet(parsed) : x.kind \in {"ref", "link"} /\ x.href = Local
  <2> TAKE x \in ToSet(parsed)
  <2>1. PICK i \in 1..n : x = Parsed(refs[i])
    BY <1>1 DEF ToSet
  <2> QED BY <1>2, <2>1
<1> QED BY <1>4, <1>5

-----------------------------------------------------------------------------
(* The files of bodies with notes. *)
PlainNote(n) ==
    <<Item("note", n.id)>>
      \o [i \in DOMAIN n.refs |-> Item(IF n.refs[i] \in Known THEN "ref" ELSE "link", n.refs[i])]

WholeNote(n) ==
    <<BackItem(n.id, BackRef(n.id))>> \o (IF mode = "float-new" THEN n.parsed ELSE <<>>)

LEMMA PlainItems ==
  ASSUME NEW n \in NoteSet
  PROVE  /\ PlainNote(n) \in Seq(ItemSet)
         /\ Item("note", n.id) \in ToSet(PlainNote(n))
         /\ \A x \in ToSet(PlainNote(n)) : x.href = Local
<1> DEFINE head == <<Item("note", n.id)>>
           item(i) == Item(IF n.refs[i] \in Known THEN "ref" ELSE "link", n.refs[i])
           tail == [i \in DOMAIN n.refs |-> item(i)]
<1>1. n.id \in Ids /\ n.refs \in Seq(Ids) /\ {"ref", "link", "note"} \subseteq Kinds
  BY DEF NoteSet, Kinds
<1>2. head \in Seq(ItemSet) /\ ToSet(head) = {Item("note", n.id)} /\ Item("note", n.id).href = Local
  BY <1>1, ItemsAreItems, SingleIsSeq
<1>3. \A i \in 1..Len(n.refs) : item(i) \in ItemSet /\ item(i).href = Local
  <2> TAKE i \in 1..Len(n.refs)
  <2>1. n.refs[i] \in Ids
    BY <1>1, ElementOfSeq
  <2> QED BY <1>1, <2>1, ItemsAreItems
<1>4. tail \in [1..Len(n.refs) -> ItemSet] /\ Len(n.refs) \in Nat
  <2>1. DOMAIN n.refs = 1..Len(n.refs) /\ Len(n.refs) \in Nat
    BY <1>1
  <2> HIDE DEF item
  <2> QED BY <1>3, <2>1
<1>5. tail \in Seq(ItemSet)
  <2> HIDE DEF tail
  <2> QED BY <1>4, FunctionIsSeq
<1>6. \A x \in ToSet(tail) : x.href = Local
  <2> TAKE x \in ToSet(tail)
  <2>1. DOMAIN n.refs = 1..Len(n.refs)
    BY <1>1
  <2>2. PICK i \in 1..Len(n.refs) : x = item(i)
    BY <2>1 DEF ToSet
  <2> HIDE DEF item
  <2> QED BY <1>3, <2>2
<1>7. head \o tail \in Seq(ItemSet) /\ ToSet(head \o tail) = ToSet(head) \union ToSet(tail)
  <2> HIDE DEF head, tail
  <2> QED BY <1>2, <1>5, ConcatProperties, ConcatHas
<1>8. PlainNote(n) = head \o tail
  BY DEF PlainNote
<1> HIDE DEF head, tail
<1> QED BY <1>2, <1>6, <1>7, <1>8

LEMMA WholeItems ==
  ASSUME Types, NEW n \in NoteSet,
         \A x \in ToSet(n.parsed) : x.kind \in {"ref", "link"} /\ x.href = Local
  PROVE  /\ WholeNote(n) \in Seq(ItemSet)
         /\ BackItem(n.id, BackRef(n.id)) \in ToSet(WholeNote(n))
         /\ \A x \in ToSet(WholeNote(n)) :
              \/ x = BackItem(n.id, BackRef(n.id))
              \/ x.kind \in {"ref", "link"} /\ x.href = Local
<1> DEFINE back == BackItem(n.id, BackRef(n.id))
           tail == IF mode = "float-new" THEN n.parsed ELSE <<>>
<1>1. n.id \in Ids /\ n.parsed \in Seq(ItemSet)
  BY DEF NoteSet
<1>2. BackRef(n.id) \in Hrefs
  <2>1. CASE Back(n.id) \in DOMAIN links
    BY <2>1 DEF Types, BackRef, Hrefs
  <2>2. CASE Back(n.id) \notin DOMAIN links
    BY <2>2 DEF BackRef, Hrefs
  <2> QED BY <2>1, <2>2
<1>3. back \in ItemSet
  BY <1>1, <1>2 DEF BackItem, ItemSet, Kinds
<1>4. <<back>> \in Seq(ItemSet) /\ ToSet(<<back>>) = {back}
  <2> HIDE DEF back
  <2> QED BY <1>3, SingleIsSeq
<1>5. /\ tail \in Seq(ItemSet)
      /\ \A x \in ToSet(tail) : x.kind \in {"ref", "link"} /\ x.href = Local
  <2>1. ToSet(<<>>) = {} /\ <<>> \in Seq(ItemSet)
    BY EmptySeq DEF ToSet
  <2> QED BY <1>1, <2>1
<1>6. <<back>> \o tail \in Seq(ItemSet) /\ ToSet(<<back>> \o tail) = {back} \union ToSet(tail)
  <2> HIDE DEF back, tail
  <2> DEFINE one == <<back>>
  <2>1. one \in Seq(ItemSet) /\ ToSet(one) = {back} /\ tail \in Seq(ItemSet)
    BY <1>4, <1>5
  <2> HIDE DEF one
  <2>2. one \o tail \in Seq(ItemSet)
    BY <2>1, ConcatProperties
  <2>3. ToSet(one \o tail) = ToSet(one) \union ToSet(tail)
    BY <2>1, ConcatHas
  <2>4. one \o tail \in Seq(ItemSet) /\ ToSet(one \o tail) = {back} \union ToSet(tail)
    BY <2>1, <2>2, <2>3
  <2> QED BY <2>4 DEF one
<1>7. WholeNote(n) = <<back>> \o tail
  BY DEF WholeNote
<1> HIDE DEF back, tail
<1> QED BY <1>5, <1>6, <1>7 DEF back

LEMMA BodyParts ==
  ASSUME order \in Seq(NoteSet), NEW name, NEW A \in [DOMAIN order -> Seq(ItemSet)],
         NEW pp \in [DOMAIN order -> Seq(ItemSet)],
         \A i \in DOMAIN order : pp[i] = IF order[i].body = name THEN A[i] ELSE <<>>
  PROVE  /\ FlattenSeq(pp) \in Seq(ItemSet)
         /\ \A x : x \in ToSet(FlattenSeq(pp)) <=>
                     \E i \in DOMAIN order : order[i].body = name /\ x \in ToSet(A[i])
<1>1. <<>> \in Seq(ItemSet) /\ ToSet(<<>>) = {}
  BY EmptySeq DEF ToSet
<1>2. DOMAIN order = 1..Len(order) /\ Len(order) \in Nat
  OBVIOUS
<1>3. pp \in [1..Len(order) -> Seq(ItemSet)]
  BY <1>2
<1>4. pp \in Seq(Seq(ItemSet)) /\ DOMAIN pp = DOMAIN order
  <2>1. DOMAIN pp = DOMAIN order
    OBVIOUS
  <2> QED BY <1>2, <1>3, <2>1, FunctionIsSeq
<1>6. FlattenSeq(pp) \in Seq(ItemSet)
  BY <1>4, FlattenType
<1>7. ToSet(FlattenSeq(pp)) = UNION {ToSet(pp[i]) : i \in DOMAIN pp}
  BY <1>4, FlattenHas
<1>8. \A x : x \in ToSet(FlattenSeq(pp)) <=>
              \E i \in DOMAIN order : order[i].body = name /\ x \in ToSet(A[i])
  <2> TAKE x
  <2>1. x \in ToSet(FlattenSeq(pp)) <=> \E i \in DOMAIN order : x \in ToSet(pp[i])
    BY <1>4, <1>7
  <2>2. \A i \in DOMAIN order :
          x \in ToSet(pp[i]) <=> order[i].body = name /\ x \in ToSet(A[i])
    BY <1>1
  <2> QED BY <2>1, <2>2
<1> QED BY <1>6, <1>8

LEMMA BodyAtHand ==
  ASSUME Types, NextBody
  PROVE  /\ bodies + 1 \in 1..Len(scanned) /\ scanned[bodies + 1] \in Names
         /\ FileOf(scanned[bodies + 1]) \in FileNames
         /\ FileOf(scanned[bodies + 1])[1] = "notes"
<1>1. bodies + 1 \in 1..Len(scanned)
  BY DEF Types, NextBody
<1>2. scanned[bodies + 1] \in Names
  BY <1>1, ElementOfSeq DEF Types
<1> QED BY <1>1, <1>2 DEF FileOf, FileNames

LEMMA PlainFile ==
  ASSUME Types, TransferBody
  PROVE  \E items \in Seq(ItemSet) :
           /\ files' = Append(files, [name |-> FileOf(scanned[bodies + 1]), items |-> items])
           /\ \A n \in DOMAIN order : order[n].body = scanned[bodies + 1] =>
                Item("note", order[n].id) \in ToSet(items)
           /\ \A x \in ToSet(items) : x.href = Local
<1> DEFINE name == scanned[bodies + 1]
           A == [i \in DOMAIN order |-> PlainNote(order[i])]
           pp == [i \in DOMAIN order |-> IF order[i].body = name THEN A[i] ELSE <<>>]
<1>1. order \in Seq(NoteSet) /\ \A n \in DOMAIN order : order[n] \in NoteSet
  BY ElementOfSeq DEF Types
<1>2. A \in [DOMAIN order -> Seq(ItemSet)]
  BY <1>1, PlainItems
<1>3. /\ FlattenSeq(pp) \in Seq(ItemSet)
      /\ \A x : x \in ToSet(FlattenSeq(pp)) <=>
                  \E i \in DOMAIN order : order[i].body = name /\ x \in ToSet(A[i])
  <2>1. \A i \in DOMAIN order : pp[i] = IF order[i].body = name THEN A[i] ELSE <<>>
    OBVIOUS
  <2>2. pp \in [DOMAIN order -> Seq(ItemSet)]
    <3> HIDE DEF A
    <3> QED BY <1>2, EmptySeq
  <2> HIDE DEF A, name, pp
  <2> QED BY <1>1, <1>2, <2>1, <2>2, BodyParts
<1>4. pp = [i \in DOMAIN order |-> IF order[i].body = name THEN PlainNote(order[i]) ELSE <<>>]
  OBVIOUS
<1>5. files' = Append(files, [name |-> FileOf(name), items |-> FlattenSeq(pp)])
  <2> HIDE DEF pp
  <2> QED BY <1>4 DEF TransferBody, AddFile, NotesOf, PlainNote
<1>6. \A n \in DOMAIN order : order[n].body = name =>
        Item("note", order[n].id) \in ToSet(FlattenSeq(pp))
  <2> TAKE n \in DOMAIN order
  <2>1. A[n] = PlainNote(order[n]) /\ Item("note", order[n].id) \in ToSet(PlainNote(order[n]))
    BY <1>1, PlainItems
  <2> HIDE DEF A, pp, name
  <2> QED BY <1>3, <2>1
<1>7. \A x \in ToSet(FlattenSeq(pp)) : x.href = Local
  <2> TAKE x \in ToSet(FlattenSeq(pp))
  <2>1. PICK i \in DOMAIN order : x \in ToSet(A[i])
    <3> HIDE DEF A, pp, name
    <3> QED BY <1>3
  <2>2. A[i] = PlainNote(order[i])
    OBVIOUS
  <2> HIDE DEF A, pp, name
  <2> QED BY <1>1, <2>1, <2>2, PlainItems
<1> HIDE DEF pp
<1> QED BY <1>3, <1>5, <1>6, <1>7

LEMMA WholeFile ==
  ASSUME Types, LocalLinks, FloatBody
  PROVE  \E items \in Seq(ItemSet) :
           /\ files' = Append(files, [name |-> FileOf(scanned[bodies + 1]), items |-> items])
           /\ \A n \in DOMAIN order : order[n].body = scanned[bodies + 1] =>
                BackItem(order[n].id, BackRef(order[n].id)) \in ToSet(items)
           /\ \A x \in ToSet(items) :
                \/ x.kind = "title"
                \/ \E n \in DOMAIN order : x = BackItem(order[n].id, BackRef(order[n].id))
                \/ x.kind \in {"ref", "link"} /\ x.href = Local
<1> DEFINE name == scanned[bodies + 1]
           title == IF order = <<>> THEN <<>> ELSE <<Item("title", name)>>
           A == [i \in DOMAIN order |-> WholeNote(order[i])]
           pp == [i \in DOMAIN order |-> IF order[i].body = name THEN A[i] ELSE <<>>]
           items == title \o FlattenSeq(pp)
<1>1. order \in Seq(NoteSet) /\ \A n \in DOMAIN order : order[n] \in NoteSet
  BY ElementOfSeq DEF Types
<1>2. \A n \in DOMAIN order : \A x \in ToSet(order[n].parsed) :
        x.kind \in {"ref", "link"} /\ x.href = Local
  BY DEF LocalLinks
<1>3. A \in [DOMAIN order -> Seq(ItemSet)]
  BY <1>1, <1>2, WholeItems
<1>4. /\ FlattenSeq(pp) \in Seq(ItemSet)
      /\ \A x : x \in ToSet(FlattenSeq(pp)) <=>
                  \E i \in DOMAIN order : order[i].body = name /\ x \in ToSet(A[i])
  <2>1. \A i \in DOMAIN order : pp[i] = IF order[i].body = name THEN A[i] ELSE <<>>
    OBVIOUS
  <2>2. pp \in [DOMAIN order -> Seq(ItemSet)]
    <3> HIDE DEF A
    <3> QED BY <1>3, EmptySeq
  <2> HIDE DEF A, name, pp
  <2> QED BY <1>1, <1>3, <2>1, <2>2, BodyParts
<1>5. pp = [i \in DOMAIN order |-> IF order[i].body = name THEN WholeNote(order[i]) ELSE <<>>]
  OBVIOUS
<1>6. files' = Append(files, [name |-> FileOf(name), items |-> items])
  <2> HIDE DEF pp
  <2> QED BY <1>5 DEF FloatBody, AddFile, NotesOf, WholeNote
<1>7. title \in Seq(ItemSet) /\ \A x \in ToSet(title) : x.kind = "title"
  <2>1. scanned[bodies + 1] \in Names
    BY BodyAtHand DEF FloatBody
  <2>2. Item("title", name) \in ItemSet /\ Item("title", name).kind = "title"
    BY <2>1, ItemsAreItems DEF Kinds
  <2>3. <<>> \in Seq(ItemSet) /\ ToSet(<<>>) = {}
    BY EmptySeq DEF ToSet
  <2> HIDE DEF name
  <2> QED BY <2>2, <2>3, SingleIsSeq
<1>8. items \in Seq(ItemSet) /\ ToSet(items) = ToSet(title) \union ToSet(FlattenSeq(pp))
  <2> HIDE DEF title, pp
  <2>1. items \in Seq(ItemSet)
    BY <1>4, <1>7, ConcatProperties
  <2>2. ToSet(items) = ToSet(title) \union ToSet(FlattenSeq(pp))
    BY <1>4, <1>7, ConcatHas
  <2> QED BY <2>1, <2>2
<1>9. \A n \in DOMAIN order : order[n].body = name =>
        BackItem(order[n].id, BackRef(order[n].id)) \in ToSet(items)
  <2> TAKE n \in DOMAIN order
  <2>1. /\ A[n] = WholeNote(order[n])
        /\ BackItem(order[n].id, BackRef(order[n].id)) \in ToSet(WholeNote(order[n]))
    BY <1>1, <1>2, WholeItems
  <2> HIDE DEF A, pp, name, title, items
  <2> QED BY <1>4, <1>8, <2>1
<1>10. \A x \in ToSet(items) :
         \/ x.kind = "title"
         \/ \E n \in DOMAIN order : x = BackItem(order[n].id, BackRef(order[n].id))
         \/ x.kind \in {"ref", "link"} /\ x.href = Local
  <2> TAKE x \in ToSet(items)
  <2>1. CASE x \in ToSet(title)
    BY <1>7, <2>1
  <2>2. CASE x \in ToSet(FlattenSeq(pp))
    <3>1. PICK i \in DOMAIN order : x \in ToSet(A[i])
      <4> HIDE DEF A, pp, name
      <4> QED BY <1>4, <2>2
    <3>2. A[i] = WholeNote(order[i])
      OBVIOUS
    <3> HIDE DEF A, pp, name, items, title
    <3>3. \/ x = BackItem(order[i].id, BackRef(order[i].id))
          \/ x.kind \in {"ref", "link"} /\ x.href = Local
      BY <1>1, <1>2, <3>1, <3>2, WholeItems
    <3> QED BY <3>3
  <2>3. x \in ToSet(title) \/ x \in ToSet(FlattenSeq(pp))
    <3> HIDE DEF items, title, pp
    <3> QED BY <1>8
  <2> QED BY <2>1, <2>2, <2>3
<1> HIDE DEF items
<1> QED BY <1>6, <1>8, <1>9, <1>10

-----------------------------------------------------------------------------
(* Types, phases and what is local. *)
LEMMA SingleItem ==
  ASSUME NEW kind \in Kinds, NEW id \in Ids
  PROVE  /\ <<Item(kind, id)>> \in Seq(ItemSet)
         /\ ToSet(<<Item(kind, id)>>) = {Item(kind, id)}
<1>1. Item(kind, id) \in ItemSet
  BY ItemsAreItems
<1> QED BY <1>1, SingleIsSeq

(* What is written at a reference to a note. *)
AtRef(id) ==
    CASE mode = "inline" -> <<Item("anchor", id)>> \o Shown(<<Head(Append(currentNotes, id))>>)
      [] mode = "block" -> <<Item("anchor", id)>>
      [] mode \notin InPlace -> <<Item("ref", id)>>

LEMMA AtRefItems ==
  ASSUME Types, Phases, NEW id \in Ids
  PROVE  /\ AtRef(id) \in Seq(ItemSet)
         /\ mode = "inline" =>
              AtRef(id) = <<Item("anchor", id), Item("shown", id)>>
         /\ mode = "block" => AtRef(id) = <<Item("anchor", id)>>
         /\ mode \notin InPlace => AtRef(id) = <<Item("ref", id)>>
         /\ \A x \in ToSet(AtRef(id)) : x.href = Local /\ x.kind \notin {"note", "title"}
<1>0. {"anchor", "shown", "ref"} \subseteq Kinds
  BY DEF Kinds
<1>1. CASE mode = "inline"
  <2>1. Head(Append(currentNotes, id)) = id
    BY <1>1 DEF Phases
  <2>2. Shown(<<id>>) = <<Item("shown", id)>>
    <3>1. <<id>> \in Seq(Ids) /\ Len(<<id>>) = 1 /\ <<id>>[1] = id
      BY SingleIsSeq
    <3>2. /\ Shown(<<id>>) \in Seq(ItemSet) /\ Len(Shown(<<id>>)) = 1
          /\ Shown(<<id>>)[1] = Item("shown", id)
      <4> DEFINE ids == <<id>>
      <4> HIDE DEF ids
      <4>1. ids \in Seq(Ids) /\ Len(ids) = 1 /\ ids[1] = id
        BY <3>1 DEF ids
      <4>2. 1 \in 1..Len(ids)
        BY <4>1
      <4>3. Shown(ids) \in Seq(ItemSet) /\ Len(Shown(ids)) = 1 /\ Shown(ids)[1] = Item("shown", id)
        BY <4>1, <4>2, ShownItems
      <4> QED BY <4>3 DEF ids
    <3>3. Item("shown", id) \in ItemSet
      BY <1>0, ItemsAreItems
    <3> QED BY <3>2, <3>3
  <2>8. AtRef(id) = <<Item("anchor", id)>> \o Shown(<<Head(Append(currentNotes, id))>>)
    BY <1>1 DEF AtRef, InPlace
  <2>3. AtRef(id) = <<Item("anchor", id)>> \o <<Item("shown", id)>>
    BY <2>1, <2>2, <2>8, Zenon
  <2>4. AtRef(id) = <<Item("anchor", id), Item("shown", id)>>
    <3>1. Item("anchor", id) \in ItemSet /\ Item("shown", id) \in ItemSet
      BY <1>0, ItemsAreItems
    <3> QED BY <2>3, <3>1, PairIsConcat
  <2>5. /\ <<Item("anchor", id)>> \in Seq(ItemSet) /\ <<Item("shown", id)>> \in Seq(ItemSet)
        /\ ToSet(<<Item("anchor", id)>>) = {Item("anchor", id)}
        /\ ToSet(<<Item("shown", id)>>) = {Item("shown", id)}
    BY <1>0, SingleItem
  <2>6. AtRef(id) \in Seq(ItemSet)
    BY <2>3, <2>5, ConcatProperties
  <2>7. ToSet(AtRef(id)) = {Item("anchor", id), Item("shown", id)}
    <3>1. Item("anchor", id) \in ItemSet /\ Item("shown", id) \in ItemSet
      BY <1>0, ItemsAreItems
    <3> QED BY <2>4, <3>1, PairIsConcat
  <2> QED BY <1>0, <1>1, <2>4, <2>6, <2>7, ItemsAreItems DEF InPlace
<1>2. CASE mode = "block"
  <2>1. AtRef(id) = <<Item("anchor", id)>>
    BY <1>2 DEF AtRef, InPlace
  <2> QED BY <1>0, <1>2, <2>1, SingleItem, ItemsAreItems DEF InPlace
<1>3. CASE mode \notin InPlace
  <2>1. AtRef(id) = <<Item("ref", id)>>
    BY <1>3 DEF AtRef, InPlace
  <2> QED BY <1>0, <1>3, <2>1, SingleItem, ItemsAreItems DEF InPlace
<1> QED BY <1>1, <1>2, <1>3 DEF InPlace

(* What a reference to a note does. *)
LEMMA AtNote ==
  ASSUME Types, Phases, NEW id \in Ids, ToNote(id)
  PROVE  /\ phase = "main" /\ phase' = "main" /\ id \in Known
         /\ files' = Written(AtRef(id))
         /\ links' = IF mode \in Floats THEN Locate({Back(id)}, Current) ELSE links
         /\ currentNotes' = IF mode = "block" THEN Append(currentNotes, id) ELSE
                            IF mode = "inline" THEN <<>> ELSE currentNotes
         /\ UNCHANGED <<mode, scanned, titles, order, toc, bodies, inParagraph>>
         /\ inParagraph \/ Outside
<1>1. mode \in {"default", "inline", "block", "float", "float-new"}
  BY NotesAssumption DEF Types
<1>2. CASE mode = "default"
  BY <1>2 DEF ToNote, Reading, AtRef, InPlace, Floats
<1>3. CASE mode = "inline"
  BY <1>3 DEF ToNote, Reading, AtRef, InPlace, Floats
<1>4. CASE mode = "block"
  BY <1>4 DEF ToNote, Reading, AtRef, InPlace, Floats
<1>5. CASE mode \in Floats
  BY <1>5 DEF ToNote, Reading, AtRef, InPlace, Floats
<1> QED BY <1>1, <1>2, <1>3, <1>4, <1>5 DEF Floats

LEMMA AtEnd ==
  ASSUME EndParagraph
  PROVE  /\ phase = "main" /\ phase' = "main" /\ inParagraph /\ inParagraph' = FALSE
         /\ files' = IF mode = "block" THEN Written(Shown(currentNotes)) ELSE files
         /\ currentNotes' = IF mode = "block" THEN <<>> ELSE currentNotes
         /\ UNCHANGED <<mode, scanned, titles, order, toc, bodies, links>>
BY DEF EndParagraph, Reading

LEMMA CurrentIsFile ==
  ASSUME Types, files # <<>>
  PROVE  /\ Len(files) \in DOMAIN files /\ Current = files[Len(files)].name
         /\ Current \in FileNames
<1>1. Len(files) \in DOMAIN files /\ files[Len(files)] \in FileSet
      /\ Last(files) = files[Len(files)]
  BY EmptySeq, ElementOfSeq DEF Types, Last
<1> QED BY <1>1 DEF Current, FileSet

(* The links that are made whole. *)
LEMMA Wholes ==
  ASSUME Types, ProcessLinks
  PROVE  /\ files' \in Seq(FileSet) /\ Len(files') = Len(files)
         /\ \A f \in DOMAIN files :
              /\ files'[f].name = files[f].name
              /\ DOMAIN files'[f].items = DOMAIN files[f].items
              /\ \A i \in DOMAIN files[f].items : files'[f].items[i] = MakeWhole(files[f].items[i])
<1>1. \A x \in ItemSet : MakeWhole(x) \in ItemSet
  BY DEF MakeWhole, ItemSet, Types, Hrefs
<1>2. files \in Seq(FileSet)
  BY DEF Types
<1> DEFINE new(f) == [files[f] EXCEPT !.items = [i \in DOMAIN @ |-> MakeWhole(@[i])]]
<1>3. ASSUME NEW f \in DOMAIN files
      PROVE  /\ new(f) \in FileSet /\ new(f).name = files[f].name
             /\ DOMAIN new(f).items = DOMAIN files[f].items
             /\ \A i \in DOMAIN files[f].items : new(f).items[i] = MakeWhole(files[f].items[i])
  <2>0. files[f] \in FileSet
    BY <1>2, ElementOfSeq
  <2>1. files[f] \in FileSet /\ files[f].items \in Seq(ItemSet) /\ files[f].name \in FileNames
    BY <2>0 DEF FileSet
  <2> DEFINE s == files[f].items
             t == [i \in DOMAIN s |-> MakeWhole(s[i])]
  <2>2. DOMAIN s = 1..Len(s) /\ Len(s) \in Nat /\ \A i \in DOMAIN s : s[i] \in ItemSet
    BY <2>1, ElementOfSeq
  <2>3. t \in [1..Len(s) -> ItemSet]
    BY <1>1, <2>2
  <2>4. t \in Seq(ItemSet)
    <3> HIDE DEF s, t
    <3> QED BY <2>2, <2>3, FunctionIsSeq
  <2>5. new(f) = [files[f] EXCEPT !.items = t]
    OBVIOUS
  <2>6. DOMAIN t = DOMAIN s /\ \A i \in DOMAIN s : t[i] = MakeWhole(s[i])
    OBVIOUS
  <2> HIDE DEF t, new
  <2> QED BY <2>1, <2>4, <2>5, <2>6 DEF FileSet
<1>4. DOMAIN files = 1..Len(files) /\ Len(files) \in Nat
  BY <1>2
<1>5. files' = [f \in 1..Len(files) |-> new(f)]
  BY <1>4 DEF ProcessLinks
<1> HIDE DEF new
<1>6. files' \in [1..Len(files) -> FileSet]
  BY <1>3, <1>4, <1>5
<1>7. files' \in Seq(FileSet) /\ Len(files') = Len(files)
  BY <1>4, <1>6, FunctionIsSeq
<1>8. \A f \in DOMAIN files : files'[f] = new(f)
  BY <1>4, <1>5
<1> QED BY <1>3, <1>7, <1>8

-----------------------------------------------------------------------------
LEMMA InitTypes == Init => Types /\ Phases
<1>1. \A S : <<>> \in Seq(S)
  BY EmptySeq
<1>2. DOMAIN <<>> = {} /\ Len(<<>>) = 0
  OBVIOUS
<1>3. links = <<>> => DOMAIN links \subseteq Keys /\ links \in [DOMAIN links -> FileNames]
  BY <1>2
<1> SUFFICES ASSUME Init
             PROVE  Types /\ Phases
  OBVIOUS
<1>5. scanned \in Seq(Names) /\ order \in Seq(NoteSet)
      /\ files \in Seq(FileSet) /\ currentNotes \in Seq(Ids)
  BY <1>1 DEF Init
<1>6. DOMAIN links \subseteq Keys /\ links \in [DOMAIN links -> FileNames]
  BY <1>3 DEF Init
<1>7. Len(scanned) = 0
  BY <1>2 DEF Init
<1>8. mode \in Modes /\ phase = "scan" /\ inParagraph = FALSE /\ bodies = 0
      /\ currentNotes = <<>> /\ files = <<>>
  BY DEF Init
<1>9. bodies \in 0..Len(scanned)
  BY <1>7, <1>8
<1>10. Types
  BY <1>5, <1>6, <1>8, <1>9 DEF Types
<1>11. Phases
  BY <1>8 DEF Phases
<1> QED BY <1>10, <1>11

LEMMA ScanTypes ==
  ASSUME Types, Phases,
         \/ \E name \in Names : ScanBody(name)
         \/ ScanTitle
         \/ \E id \in Ids, refs \in Refs : ScanNote(id, refs)
         \/ StartMain
  PROVE  Types' /\ Phases'
<1>1. CASE \E name \in Names : ScanBody(name)
  <2>1. PICK name \in Names : ScanBody(name)
    BY <1>1
  <2>2. scanned' \in Seq(Names) /\ Len(scanned') = Len(scanned) + 1
    BY <2>1, AppendProperties DEF ScanBody, Types
  <2>3. UNCHANGED <<mode, phase, order, links, files, inParagraph, currentNotes, bodies>>
    BY <2>1 DEF ScanBody
  <2>4. phase = "scan" /\ bodies = 0
    BY <2>1 DEF ScanBody, Phases
  <2>5. Types'
    BY <2>2, <2>3, <2>4 DEF Types
  <2> QED BY <2>3, <2>4, <2>5 DEF Phases
<1>2. CASE ScanTitle
  BY <1>2 DEF ScanTitle, Types, Phases
<1>3. CASE \E id \in Ids, refs \in Refs : ScanNote(id, refs)
  <2>1. PICK id \in Ids, refs \in Refs : ScanNote(id, refs)
    BY <1>3
  <2> DEFINE parsed == [i \in DOMAIN refs |-> Parsed(refs[i])]
             back == {Back(refs[i]) : i \in {j \in DOMAIN refs : parsed[j].kind = "ref"}}
             new == [id |-> id, body |-> Last(scanned), refs |-> refs, parsed |-> parsed]
  <2>2. refs \in Seq(Ids) /\ parsed \in Seq(ItemSet)
    BY ParsedItems
  <2>3. Last(scanned) \in Names
    BY <2>1, EmptySeq, ElementOfSeq DEF ScanNote, Types, Last
  <2>4. new \in NoteSet
    BY <2>2, <2>3 DEF NoteSet
  <2>5. order' = Append(order, new)
    BY <2>1 DEF ScanNote
  <2>6. order' \in Seq(NoteSet)
    <3> HIDE DEF new
    <3> QED BY <2>4, <2>5, AppendProperties DEF Types
  <2>7. links' = Locate(back, FileOf(Last(scanned)))
    BY <2>1 DEF ScanNote
  <2>8. back \in SUBSET Keys
    <3>1. \A i \in DOMAIN refs : refs[i] \in Ids
      BY <2>2, ElementOfSeq
    <3> QED BY <3>1 DEF Keys
  <2>9. FileOf(Last(scanned)) \in FileNames
    BY <2>3 DEF FileOf, FileNames
  <2>10. DOMAIN links' \subseteq Keys /\ links' \in [DOMAIN links' -> FileNames]
    <3> DEFINE place == FileOf(Last(scanned))
    <3> HIDE DEF back, place
    <3>1. DOMAIN links \subseteq Keys /\ links \in [DOMAIN links -> FileNames]
      BY DEF Types
    <3>2. place \in FileNames
      BY <2>9 DEF place
    <3>3. /\ DOMAIN Locate(back, place) \subseteq Keys
          /\ Locate(back, place) \in [DOMAIN Locate(back, place) -> FileNames]
      BY <2>8, <3>1, <3>2, LocatesAll
    <3> QED BY <2>7, <3>3 DEF place
  <2>11. UNCHANGED <<mode, phase, scanned, files, inParagraph, currentNotes, bodies>>
    BY <2>1 DEF ScanNote
  <2> QED BY <2>6, <2>10, <2>11 DEF Types, Phases
<1>4. CASE StartMain
  <2>1. NewFile(<<"index", 1>>) \in FileSet
    BY EmptySeq DEF NewFile, FileSet, FileNames
  <2>2. files' \in Seq(FileSet) /\ files' # <<>>
    <3> DEFINE new == NewFile(<<"index", 1>>)
    <3>1. files' = <<new>>
      BY <1>4 DEF StartMain
    <3> HIDE DEF new
    <3> QED BY <2>1, <3>1 DEF new
  <2>3. UNCHANGED <<mode, scanned, order, links, inParagraph, currentNotes, bodies>>
    BY <1>4 DEF StartMain
  <2>4. phase = "scan" /\ phase' = "main"
    BY <1>4 DEF StartMain
  <2> QED BY <2>2, <2>3, <2>4 DEF Types, Phases
<1> QED BY <1>1, <1>2, <1>3, <1>4

LEMMA MainTypes ==
  ASSUME Types, Phases,
         \/ StartParagraph \/ EndParagraph
         \/ \E id \in Ids : ToElsewhere(id) \/ ToNote(id)
         \/ NextFile \/ EndMain
  PROVE  Types' /\ Phases'
<1>1. CASE StartParagraph
  BY <1>1 DEF StartParagraph, Reading, Types, Phases
<1>2. CASE EndParagraph
  <2>0. /\ phase = "main" /\ phase' = "main" /\ inParagraph' = FALSE
        /\ files' = IF mode = "block" THEN Written(Shown(currentNotes)) ELSE files
        /\ currentNotes' = IF mode = "block" THEN <<>> ELSE currentNotes
        /\ UNCHANGED <<mode, scanned, titles, order, toc, bodies, links>>
    BY <1>2, AtEnd
  <2>1. files # <<>> /\ files \in Seq(FileSet) /\ currentNotes \in Seq(Ids)
    BY <2>0 DEF Phases, Types
  <2>2. Shown(currentNotes) \in Seq(ItemSet)
    BY <2>1, ShownItems
  <2>3. files' \in Seq(FileSet) /\ files' # <<>>
    BY <2>0, <2>1, <2>2, Writes
  <2>4. currentNotes' \in Seq(Ids)
    BY <2>0, <2>1, EmptySeq
  <2> QED BY <2>0, <2>3, <2>4 DEF Types, Phases
<1>3. CASE \E id \in Ids : ToElsewhere(id)
  <2>1. PICK id \in Ids : ToElsewhere(id)
    BY <1>3
  <2>2. /\ phase = "main" /\ phase' = "main" /\ files' = Written(<<Item("link", id)>>)
        /\ UNCHANGED <<mode, scanned, order, bodies, links, inParagraph, currentNotes>>
    BY <2>1 DEF ToElsewhere, Reading
  <2>3. <<Item("link", id)>> \in Seq(ItemSet)
    BY SingleItem DEF Kinds
  <2>4. files' \in Seq(FileSet) /\ files' # <<>>
    BY <2>2, <2>3, Writes DEF Types, Phases
  <2> QED BY <2>2, <2>4 DEF Types, Phases
<1>4. CASE \E id \in Ids : ToNote(id)
  <2>1. PICK id \in Ids : ToNote(id)
    BY <1>4
  <2>2. /\ phase = "main" /\ phase' = "main"
        /\ files' = Written(AtRef(id))
        /\ links' = IF mode \in Floats THEN Locate({Back(id)}, Current) ELSE links
        /\ currentNotes' = IF mode = "block" THEN Append(currentNotes, id) ELSE
                           IF mode = "inline" THEN <<>> ELSE currentNotes
        /\ UNCHANGED <<mode, scanned, titles, order, toc, bodies, inParagraph>>
    BY <2>1, AtNote
  <2>3. AtRef(id) \in Seq(ItemSet)
    BY AtRefItems
  <2>4. files \in Seq(FileSet) /\ files # <<>>
    BY <2>2 DEF Types, Phases
  <2>5. files' \in Seq(FileSet) /\ files' # <<>>
    BY <2>2, <2>3, <2>4, Writes
  <2>6. DOMAIN links' \subseteq Keys /\ links' \in [DOMAIN links' -> FileNames]
    <3>1. Current \in FileNames /\ {Back(id)} \in SUBSET Keys
      BY <2>4, CurrentIsFile DEF Keys
    <3> QED BY <2>2, <3>1, LocatesAll DEF Types
  <2>7. currentNotes' \in Seq(Ids)
    BY <2>2, EmptySeq, AppendProperties DEF Types
  <2> QED BY <2>2, <2>5, <2>6, <2>7 DEF Types, Phases
<1>5. CASE NextFile
  <2> DEFINE name == <<"index", Len(files) + 1>>
  <2>1. /\ phase = "main" /\ phase' = "main"
        /\ files' = Append(files, [name |-> name, items |-> <<>>])
        /\ UNCHANGED <<mode, scanned, order, bodies, links, inParagraph, currentNotes>>
    BY <1>5 DEF NextFile, Reading, NewFile
  <2>2. name \in FileNames /\ <<>> \in Seq(ItemSet) /\ files \in Seq(FileSet)
    BY EmptySeq DEF FileNames, Types
  <2>3. files' \in Seq(FileSet) /\ files' # <<>>
    <3> HIDE DEF name
    <3> QED BY <2>1, <2>2, Adds
  <2> QED BY <2>1, <2>3 DEF Types, Phases
<1>6. CASE EndMain
  BY <1>6 DEF EndMain, Types, Phases
<1> QED BY <1>1, <1>2, <1>3, <1>4, <1>5, <1>6

LEMMA LocatesIds ==
  ASSUME Types, NEW name
  PROVE  IdsOf(name) \in SUBSET Keys
<1>1. \A n \in DOMAIN order : order[n].id \in Ids
  <2> TAKE n \in DOMAIN order
  <2>1. order[n] \in NoteSet
    BY ElementOfSeq DEF Types
  <2> QED BY <2>1 DEF NoteSet
<1> QED BY <1>1 DEF IdsOf, Keys

LEMMA BodiesTypes ==
  ASSUME Types, Phases, LocalLinks, TransferBody \/ SkipBody \/ FloatBody \/ ProcessLinks
  PROVE  Types' /\ Phases'
<1> DEFINE name == scanned[bodies + 1]
<1>1. CASE TransferBody \/ FloatBody
  <2>1. NextBody /\ links' = Locate(IdsOf(name), FileOf(name))
    BY <1>1 DEF TransferBody, FloatBody
  <2>2. /\ phase = "notes" /\ phase' = "notes" /\ bodies' = bodies + 1 /\ bodies < Len(scanned)
        /\ UNCHANGED <<mode, scanned, order, inParagraph, currentNotes>>
    BY <2>1 DEF NextBody
  <2>3. FileOf(name) \in FileNames
    BY <2>1, BodyAtHand
  <2>4. PICK items \in Seq(ItemSet) : files' = Append(files, [name |-> FileOf(name), items |-> items])
    BY <1>1, PlainFile, WholeFile
  <2>5. files' \in Seq(FileSet) /\ files' # <<>>
    <3> HIDE DEF name
    <3> QED BY <2>3, <2>4, Adds DEF Types
  <2>6. DOMAIN links' \subseteq Keys /\ links' \in [DOMAIN links' -> FileNames]
    <3> DEFINE place == FileOf(name)
               ids == IdsOf(name)
    <3>1. ids \in SUBSET Keys /\ place \in FileNames
      BY <2>3, LocatesIds
    <3>2. DOMAIN links \subseteq Keys /\ links \in [DOMAIN links -> FileNames]
      BY DEF Types
    <3> HIDE DEF ids, place, name
    <3>3. /\ DOMAIN Locate(ids, place) \subseteq Keys
          /\ Locate(ids, place) \in [DOMAIN Locate(ids, place) -> FileNames]
      BY <3>1, <3>2, LocatesAll
    <3> QED BY <2>1, <3>3 DEF ids, place
  <2> QED BY <2>2, <2>5, <2>6 DEF Types, Phases
<1>2. CASE SkipBody
  BY <1>2 DEF SkipBody, NextBody, Types, Phases
<1>3. CASE ProcessLinks
  <2>1. /\ phase = "notes" /\ bodies = Len(scanned) /\ phase' = "done"
        /\ UNCHANGED <<mode, scanned, order, links, inParagraph, currentNotes, bodies>>
    BY <1>3 DEF ProcessLinks
  <2>2. files' \in Seq(FileSet) /\ Len(files') = Len(files)
    BY <1>3, Wholes
  <2>3. files # <<>> /\ files \in Seq(FileSet)
    BY <2>1 DEF Phases, Types
  <2>4. files' # <<>>
    BY <2>2, <2>3, EmptySeq
  <2> QED BY <2>1, <2>2, <2>4 DEF Types, Phases
<1> QED BY <1>1, <1>2, <1>3

-----------------------------------------------------------------------------
(* Whether something of a kind is in a file of that name, as in Has. *)
HasIn(fs, name, kind, id) ==
    \E f \in DOMAIN fs : fs[f].name = name
                         /\ \E x \in ToSet(fs[f].items) : x.kind = kind /\ x.id = id

(* What was in a file stays there. *)
Grows(fs, gs) ==
    /\ DOMAIN fs \subseteq DOMAIN gs
    /\ \A f \in DOMAIN fs :
         /\ gs[f].name = fs[f].name
         /\ \A x \in ToSet(fs[f].items) :
              \E y \in ToSet(gs[f].items) : y.kind = x.kind /\ y.id = x.id

LEMMA GrowsHas ==
  ASSUME NEW fs, NEW gs, Grows(fs, gs), NEW name, NEW kind, NEW id, HasIn(fs, name, kind, id)
  PROVE  HasIn(gs, name, kind, id)
BY DEF Grows, HasIn

LEMMA SameGrows == \A fs : Grows(fs, fs)
BY DEF Grows

LEMMA WritesIn ==
  ASSUME files \in Seq(FileSet), files # <<>>, NEW items \in Seq(ItemSet), files' = Written(items)
  PROVE  /\ Grows(files, files') /\ DOMAIN files' = DOMAIN files
         /\ \A f \in DOMAIN files :
              In(f)' = IF f = Len(files) THEN In(f) \union ToSet(items) ELSE In(f)
<1>1. /\ files' \in Seq(FileSet) /\ Len(files') = Len(files)
      /\ Len(files) \in DOMAIN files
      /\ \A f \in DOMAIN files :
           /\ files'[f].name = files[f].name
           /\ f # Len(files) => files'[f] = files[f]
      /\ files'[Len(files)].items = files[Len(files)].items \o items
      /\ files[Len(files)].items \in Seq(ItemSet)
  BY Writes
<1>2. DOMAIN files' = DOMAIN files
  BY <1>1
<1>3. ToSet(files[Len(files)].items \o items) = ToSet(files[Len(files)].items) \union ToSet(items)
  BY <1>1, ConcatHas
<1>4. \A f \in DOMAIN files :
        In(f)' = IF f = Len(files) THEN In(f) \union ToSet(items) ELSE In(f)
  BY <1>1, <1>3 DEF In
<1>5. Grows(files, files')
  <2> SUFFICES ASSUME NEW f \in DOMAIN files, NEW x \in ToSet(files[f].items)
               PROVE  x \in ToSet(files'[f].items)
    BY <1>1, <1>2 DEF Grows
  <2> QED BY <1>4 DEF In
<1> QED BY <1>2, <1>4, <1>5

LEMMA AddsIn ==
  ASSUME files \in Seq(FileSet), NEW name \in FileNames, NEW items \in Seq(ItemSet),
         files' = Append(files, [name |-> name, items |-> items])
  PROVE  /\ Grows(files, files')
         /\ DOMAIN files' = DOMAIN files \union {Len(files) + 1}
         /\ Len(files) + 1 \notin DOMAIN files
         /\ \A f \in DOMAIN files : In(f)' = In(f) /\ files'[f].name = files[f].name
         /\ ToSet(files'[Len(files) + 1].items) = ToSet(items)
         /\ files'[Len(files) + 1].name = name
<1>1. /\ DOMAIN files' = DOMAIN files \union {Len(files) + 1}
      /\ \A f \in DOMAIN files : files'[f] = files[f]
      /\ files'[Len(files) + 1].name = name /\ files'[Len(files) + 1].items = items
  BY Adds
<1>2. Len(files) + 1 \notin DOMAIN files
  OBVIOUS
<1>3. Grows(files, files')
  BY <1>1 DEF Grows
<1> QED BY <1>1, <1>2, <1>3 DEF In

LEMMA WholesIn ==
  ASSUME Types, ProcessLinks
  PROVE  /\ Grows(files, files') /\ DOMAIN files' = DOMAIN files
         /\ \A f \in DOMAIN files : /\ files'[f].name = files[f].name
                                    /\ In(f)' = {MakeWhole(x) : x \in In(f)}
<1>1. /\ files' \in Seq(FileSet) /\ Len(files') = Len(files)
      /\ \A f \in DOMAIN files :
           /\ files'[f].name = files[f].name
           /\ DOMAIN files'[f].items = DOMAIN files[f].items
           /\ \A i \in DOMAIN files[f].items : files'[f].items[i] = MakeWhole(files[f].items[i])
  BY Wholes
<1>2. DOMAIN files' = DOMAIN files
  BY <1>1 DEF Types
<1>3. \A f \in DOMAIN files : In(f)' = {MakeWhole(x) : x \in In(f)}
  BY <1>1 DEF In, ToSet
<1>4. \A f \in DOMAIN files : \A x \in In(f) :
        MakeWhole(x).kind = x.kind /\ MakeWhole(x).id = x.id
  <2> TAKE f \in DOMAIN files
  <2>1. files[f] \in FileSet
    BY ElementOfSeq DEF Types
  <2>2. files[f].items \in Seq(ItemSet)
    BY <2>1 DEF FileSet
  <2>3. In(f) \subseteq ItemSet
    BY <2>2, ElementOfSeq DEF In, ToSet
  <2> QED BY <2>3 DEF MakeWhole, ItemSet
<1>5. Grows(files, files')
  <2> SUFFICES ASSUME NEW f \in DOMAIN files, NEW x \in ToSet(files[f].items)
               PROVE  \E y \in ToSet(files'[f].items) : y.kind = x.kind /\ y.id = x.id
    BY <1>1, <1>2 DEF Grows
  <2>1. x \in In(f) /\ MakeWhole(x) \in ToSet(files'[f].items)
    BY <1>3 DEF In
  <2> QED BY <1>4, <2>1
<1> QED BY <1>1, <1>2, <1>3, <1>5

(* What is written while the main body is read. *)
LEMMA MainStep ==
  ASSUME Types, Phases,
         \/ StartParagraph \/ EndParagraph
         \/ \E id \in Ids : ToElsewhere(id) \/ ToNote(id)
  PROVE  /\ phase = "main" /\ phase' = "main" /\ files # <<>> /\ files \in Seq(FileSet)
         /\ UNCHANGED <<mode, scanned, order, bodies>>
         /\ \E items \in Seq(ItemSet) :
              /\ (files' = files /\ items = <<>>) \/ files' = Written(items)
              /\ \A x \in ToSet(items) : x.href = Local /\ x.kind \notin {"note", "title"}
              /\ \/ links' = links /\ (mode \in Floats => \A x \in ToSet(items) : x.kind # "ref")
                 \/ \E id \in Ids : /\ links' = Locate({Back(id)}, Current)
                                    /\ items = <<Item("ref", id)>>
                                    /\ ToSet(items) = {Item("ref", id)}
<1>1. ToSet(<<>>) = {} /\ <<>> \in Seq(ItemSet)
  BY EmptySeq DEF ToSet
<1>2. CASE StartParagraph
  BY <1>1, <1>2 DEF StartParagraph, Reading, Types, Phases
<1>3. CASE EndParagraph
  <2>1. /\ phase = "main" /\ phase' = "main"
        /\ files' = IF mode = "block" THEN Written(Shown(currentNotes)) ELSE files
        /\ UNCHANGED <<mode, scanned, titles, order, toc, bodies, links>>
    BY <1>3, AtEnd
  <2>2. files # <<>> /\ files \in Seq(FileSet) /\ currentNotes \in Seq(Ids)
    BY <2>1 DEF Phases, Types
  <2>3. CASE mode = "block"
    <3>1. /\ Shown(currentNotes) \in Seq(ItemSet) /\ Len(Shown(currentNotes)) = Len(currentNotes)
          /\ \A i \in 1..Len(currentNotes) : Shown(currentNotes)[i] = Item("shown", currentNotes[i])
      BY <2>2, ShownItems
    <3>2. \A x \in ToSet(Shown(currentNotes)) : x.href = Local /\ x.kind = "shown"
      <4> TAKE x \in ToSet(Shown(currentNotes))
      <4>1. PICK i \in 1..Len(currentNotes) : x = Shown(currentNotes)[i]
        BY <3>1 DEF ToSet
      <4>2. currentNotes[i] \in Ids
        BY <2>2, ElementOfSeq
      <4> QED BY <3>1, <4>1, <4>2, ItemsAreItems DEF Kinds
    <3>3. \A x \in ToSet(Shown(currentNotes)) : x.kind \notin {"note", "title", "ref"}
      BY <3>2
    <3> QED BY <2>1, <2>2, <2>3, <3>1, <3>2, <3>3
  <2>4. CASE mode # "block"
    BY <1>1, <2>1, <2>2, <2>4
  <2> QED BY <2>3, <2>4
<1>4. CASE \E id \in Ids : ToElsewhere(id)
  <2>1. PICK id \in Ids : ToElsewhere(id)
    BY <1>4
  <2>2. /\ phase = "main" /\ phase' = "main" /\ files' = Written(<<Item("link", id)>>)
        /\ UNCHANGED <<mode, scanned, order, bodies, links, inParagraph, currentNotes>>
    BY <2>1 DEF ToElsewhere, Reading
  <2>3. /\ <<Item("link", id)>> \in Seq(ItemSet) /\ ToSet(<<Item("link", id)>>) = {Item("link", id)}
        /\ Item("link", id).kind = "link" /\ Item("link", id).href = Local
    BY SingleItem, ItemsAreItems DEF Kinds
  <2>4. files # <<>> /\ files \in Seq(FileSet)
    BY <2>2 DEF Phases, Types
  <2> QED BY <2>2, <2>3, <2>4
<1>5. CASE \E id \in Ids : ToNote(id)
  <2>1. PICK id \in Ids : ToNote(id)
    BY <1>5
  <2>2. /\ phase = "main" /\ phase' = "main"
        /\ files' = Written(AtRef(id))
        /\ links' = IF mode \in Floats THEN Locate({Back(id)}, Current) ELSE links
        /\ UNCHANGED <<mode, scanned, titles, order, toc, bodies, inParagraph>>
    BY <2>1, AtNote
  <2>3. /\ AtRef(id) \in Seq(ItemSet)
        /\ mode \notin InPlace => AtRef(id) = <<Item("ref", id)>>
        /\ \A x \in ToSet(AtRef(id)) : x.href = Local /\ x.kind \notin {"note", "title"}
    BY AtRefItems
  <2>4. files # <<>> /\ files \in Seq(FileSet)
    BY <2>2 DEF Phases, Types
  <2>5. ToSet(<<Item("ref", id)>>) = {Item("ref", id)}
    BY SingleItem DEF Kinds
  <2>6. mode \in Floats => mode \notin InPlace
    BY DEF Floats, InPlace
  <2> QED BY <2>2, <2>3, <2>4, <2>5, <2>6
<1> QED BY <1>2, <1>3, <1>4, <1>5

-----------------------------------------------------------------------------
LEMMA InitTexts == Init => Texts /\ LocalLinks
<1>1. DOMAIN <<>> = {}
  OBVIOUS
<1> QED BY <1>1 DEF Init, Texts, LocalLinks

LEMMA ScanTexts ==
  ASSUME Types, Phases, Texts, LocalLinks,
         \/ \E name \in Names : ScanBody(name)
         \/ ScanTitle
         \/ \E id \in Ids, refs \in Refs : ScanNote(id, refs)
         \/ StartMain
  PROVE  Texts' /\ LocalLinks'
<1>1. CASE (\E name \in Names : ScanBody(name)) \/ ScanTitle
  <2>1. UNCHANGED <<phase, files, order>>
    BY <1>1 DEF ScanBody, ScanTitle
  <2> QED BY <2>1 DEF Texts, LocalLinks, In
<1>2. CASE \E id \in Ids, refs \in Refs : ScanNote(id, refs)
  <2>1. PICK id \in Ids, refs \in Refs : ScanNote(id, refs)
    BY <1>2
  <2> DEFINE parsed == [i \in DOMAIN refs |-> Parsed(refs[i])]
             new == [id |-> id, body |-> Last(scanned), refs |-> refs, parsed |-> parsed]
  <2>2. order' = Append(order, new) /\ UNCHANGED <<phase, files>>
    BY <2>1 DEF ScanNote
  <2>3. \A x \in ToSet(parsed) : x.kind \in {"ref", "link"} /\ x.href = Local
    BY ParsedItems
  <2>4. new.parsed = parsed
    OBVIOUS
  <2>5. \A n \in DOMAIN order' : (n \in DOMAIN order /\ order'[n] = order[n]) \/ order'[n] = new
    <3> HIDE DEF new
    <3> QED BY <2>2 DEF Types
  <2>6. \A n \in DOMAIN order' : \A x \in ToSet(order'[n].parsed) :
          x.kind \in {"ref", "link"} /\ x.href = Local
    <3> HIDE DEF new, parsed
    <3> QED BY <2>3, <2>4, <2>5 DEF LocalLinks
  <2> QED BY <2>2, <2>6 DEF Texts, LocalLinks, In
<1>3. CASE StartMain
  <2>1. files' = <<NewFile(<<"index", 1>>)>> /\ UNCHANGED order /\ phase' = "main"
    BY <1>3 DEF StartMain
  <2>2. DOMAIN files' = {1} /\ files'[1].name = <<"index", 1>> /\ files'[1].items = <<>>
    BY <2>1 DEF NewFile
  <2>3. \A f \in DOMAIN files' : files'[f].name[1] = "index" /\ ToSet(files'[f].items) = {}
    BY <2>2 DEF ToSet
  <2> QED BY <2>1, <2>3 DEF Texts, LocalLinks, In
<1> QED BY <1>1, <1>2, <1>3

LEMMA MainTexts ==
  ASSUME Types, Phases, Texts, LocalLinks,
         \/ StartParagraph \/ EndParagraph
         \/ \E id \in Ids : ToElsewhere(id) \/ ToNote(id)
         \/ NextFile \/ EndMain
  PROVE  Texts' /\ LocalLinks'
<1>1. CASE \/ StartParagraph \/ EndParagraph
           \/ \E id \in Ids : ToElsewhere(id) \/ ToNote(id)
  <2>1. /\ phase = "main" /\ phase' = "main" /\ files # <<>> /\ files \in Seq(FileSet)
        /\ UNCHANGED <<mode, scanned, order, bodies>>
    BY <1>1, MainStep
  <2>2. PICK items \in Seq(ItemSet) :
          /\ (files' = files /\ items = <<>>) \/ files' = Written(items)
          /\ \A x \in ToSet(items) : x.href = Local /\ x.kind \notin {"note", "title"}
    BY <1>1, MainStep
  <2>3. CASE files' = files
    BY <2>1, <2>3 DEF Texts, LocalLinks, In
  <2>4. CASE files' = Written(items)
    <3>1. /\ DOMAIN files' = DOMAIN files
          /\ \A f \in DOMAIN files :
               In(f)' = IF f = Len(files) THEN In(f) \union ToSet(items) ELSE In(f)
      BY <2>1, <2>4, WritesIn
    <3>2. \A f \in DOMAIN files : files'[f].name = files[f].name
      BY <2>1, <2>4, Writes
    <3>3. Texts'
      BY <2>1, <2>2, <3>1, <3>2 DEF Texts
    <3>4. LocalLinks'
      BY <2>1, <2>2, <3>1 DEF LocalLinks
    <3> QED BY <3>3, <3>4
  <2> QED BY <2>2, <2>3, <2>4
<1>2. CASE NextFile
  <2> DEFINE name == <<"index", Len(files) + 1>>
  <2>1. /\ phase = "main" /\ phase' = "main"
        /\ files' = Append(files, [name |-> name, items |-> <<>>])
        /\ UNCHANGED <<mode, scanned, order, bodies, links, inParagraph, currentNotes>>
    BY <1>2 DEF NextFile, Reading, NewFile
  <2>2. name \in FileNames /\ <<>> \in Seq(ItemSet) /\ files \in Seq(FileSet) /\ name[1] = "index"
    BY EmptySeq DEF FileNames, Types
  <2> HIDE DEF name
  <2>3. /\ DOMAIN files' = DOMAIN files \union {Len(files) + 1}
        /\ \A f \in DOMAIN files : In(f)' = In(f) /\ files'[f].name = files[f].name
        /\ ToSet(files'[Len(files) + 1].items) = ToSet(<<>>)
        /\ files'[Len(files) + 1].name = name
    BY <2>1, <2>2, AddsIn
  <2>4. ToSet(<<>>) = {}
    BY DEF ToSet
  <2>5. \A f \in DOMAIN files' :
          \/ f \in DOMAIN files /\ In(f)' = In(f) /\ files'[f].name = files[f].name
          \/ ToSet(files'[f].items) = {} /\ files'[f].name[1] = "index"
    BY <2>2, <2>3, <2>4
  <2>6. Texts'
    BY <2>1, <2>5 DEF Texts, In
  <2>7. LocalLinks'
    BY <2>1, <2>5 DEF LocalLinks, In
  <2> QED BY <2>6, <2>7
<1>3. CASE EndMain
  BY <1>3 DEF EndMain, Texts, LocalLinks, In
<1> QED BY <1>1, <1>2, <1>3

LEMMA BodiesTexts ==
  ASSUME Types, Phases, Texts, LocalLinks,
         TransferBody \/ SkipBody \/ FloatBody \/ ProcessLinks
  PROVE  Texts' /\ LocalLinks'
<1>1. CASE TransferBody \/ FloatBody
  <2> DEFINE name == FileOf(scanned[bodies + 1])
  <2>1. NextBody
    BY <1>1 DEF TransferBody, FloatBody
  <2>2. phase = "notes" /\ phase' = "notes" /\ UNCHANGED order
    BY <2>1 DEF NextBody
  <2>3. PICK items \in Seq(ItemSet) :
          /\ files' = Append(files, [name |-> name, items |-> items])
          /\ \A x \in ToSet(items) : x.kind \in {"ref", "link"} => x.href = Local
    <3>1. CASE TransferBody
      BY <3>1, PlainFile
    <3>2. CASE FloatBody
      <4>1. \A n \in DOMAIN order : BackItem(order[n].id, BackRef(order[n].id)).kind = "note"
        BY DEF BackItem
      <4> QED BY <3>2, <4>1, WholeFile
    <3> QED BY <1>1, <3>1, <3>2
  <2>4. name \in FileNames /\ name[1] = "notes"
    BY <2>1, BodyAtHand
  <2> HIDE DEF name
  <2>5. /\ DOMAIN files' = DOMAIN files \union {Len(files) + 1}
        /\ \A f \in DOMAIN files : In(f)' = In(f) /\ files'[f].name = files[f].name
        /\ ToSet(files'[Len(files) + 1].items) = ToSet(items)
        /\ files'[Len(files) + 1].name = name
    BY <2>3, <2>4, AddsIn DEF Types
  <2>6. Texts'
    BY <2>2, <2>4, <2>5 DEF Texts, In
  <2>7. LocalLinks'
    BY <2>2, <2>3, <2>5 DEF LocalLinks, In
  <2> QED BY <2>6, <2>7
<1>2. CASE SkipBody
  BY <1>2 DEF SkipBody, NextBody, Texts, LocalLinks, In
<1>3. CASE ProcessLinks
  <2>1. /\ DOMAIN files' = DOMAIN files
        /\ \A f \in DOMAIN files : /\ files'[f].name = files[f].name
                                   /\ In(f)' = {MakeWhole(x) : x \in In(f)}
    BY <1>3, WholesIn
  <2>2. phase = "notes" /\ phase' = "done" /\ UNCHANGED order
    BY <1>3 DEF ProcessLinks
  <2>3. \A f \in DOMAIN files : \A x \in In(f) : MakeWhole(x).kind = x.kind
    <3> TAKE f \in DOMAIN files
    <3>1. files[f].items \in Seq(ItemSet)
      <4>1. files[f] \in FileSet
        BY ElementOfSeq DEF Types
      <4> QED BY <4>1 DEF FileSet
    <3>2. In(f) \subseteq ItemSet
      BY <3>1, ElementOfSeq DEF In, ToSet
    <3> QED BY <3>2 DEF MakeWhole, ItemSet
  <2>4. Texts'
    BY <2>1, <2>2, <2>3 DEF Texts
  <2> QED BY <2>2, <2>4 DEF LocalLinks
<1> QED BY <1>1, <1>2, <1>3

-----------------------------------------------------------------------------
(* Notes have their places. *)
LEMMA HasIsHasIn ==
  /\ \A name, kind, id : Has(name, kind, id) <=> HasIn(files, name, kind, id)
  /\ \A name, kind, id : Has(name, kind, id)' <=> HasIn(files', name, kind, id)
BY DEF Has, HasIn

(* Placed, in terms of what is in files. *)
LEMMA PlacedMeans ==
  /\ Placed <=>
       /\ \A n \in DOMAIN order : order[n].body \in ToSet(scanned)
       /\ mode \notin InPlace =>
            \A n \in DOMAIN order, k \in 1..bodies :
              order[n].body = scanned[k] => Note(order[n].id) \in DOMAIN links
       /\ \A id \in Ids : Note(id) \in DOMAIN links => id \in Known
       /\ \A id \in Ids : Note(id) \in DOMAIN links => HasIn(files, links[Note(id)], "note", id)
  /\ Placed' <=>
       /\ \A n \in DOMAIN order' : order'[n].body \in ToSet(scanned')
       /\ mode' \notin InPlace =>
            \A n \in DOMAIN order', k \in 1..bodies' :
              order'[n].body = scanned'[k] => Note(order'[n].id) \in DOMAIN links'
       /\ \A id \in Ids : Note(id) \in DOMAIN links' => id \in Known'
       /\ \A id \in Ids : Note(id) \in DOMAIN links' => HasIn(files', links'[Note(id)], "note", id)
BY DEF Placed, Has, HasIn, Note

LEMMA InitPlaced == Init => Placed
<1>1. DOMAIN <<>> = {}
  OBVIOUS
<1> QED BY <1>1 DEF Init, Placed

LEMMA ScanPlaced ==
  ASSUME Types, Phases, Placed,
         \/ \E name \in Names : ScanBody(name)
         \/ ScanTitle
         \/ \E id \in Ids, refs \in Refs : ScanNote(id, refs)
         \/ StartMain
  PROVE  Placed'
<1>1. CASE \E name \in Names : ScanBody(name)
  <2>1. PICK name \in Names : ScanBody(name)
    BY <1>1
  <2>2. /\ scanned' = Append(scanned, name)
        /\ UNCHANGED <<mode, order, links, files, bodies>> /\ bodies = 0
    BY <2>1 DEF ScanBody, Phases
  <2>3. ToSet(scanned) \subseteq ToSet(scanned')
    <3>1. scanned' = scanned \o <<name>> /\ <<name>> \in Seq(Names)
      BY <2>2, AppendIsConcat DEF Types
    <3> DEFINE one == <<name>>
    <3> HIDE DEF one
    <3>2. scanned \in Seq(Names) /\ one \in Seq(Names) /\ scanned' = scanned \o one
      BY <3>1 DEF one, Types
    <3> QED BY <3>2, ConcatHas
  <2>4. Known' = Known
    BY <2>2 DEF Known
  <2>5. 1..bodies' = {}
    BY <2>2
  <2> QED BY <2>2, <2>3, <2>4, <2>5, PlacedMeans
<1>2. CASE ScanTitle
  BY <1>2 DEF ScanTitle, Placed, Known, Has
<1>3. CASE \E id \in Ids, refs \in Refs : ScanNote(id, refs)
  <2>1. PICK id \in Ids, refs \in Refs : ScanNote(id, refs)
    BY <1>3
  <2> DEFINE parsed == [i \in DOMAIN refs |-> Parsed(refs[i])]
             back == {Back(refs[i]) : i \in {j \in DOMAIN refs : parsed[j].kind = "ref"}}
             new == [id |-> id, body |-> Last(scanned), refs |-> refs, parsed |-> parsed]
             place == FileOf(Last(scanned))
  <2>2. /\ order' = Append(order, new) /\ links' = Locate(back, place) /\ scanned # <<>>
        /\ UNCHANGED <<mode, scanned, files, bodies>> /\ bodies = 0
    BY <2>1 DEF ScanNote, Phases
  <2>3. new.body = Last(scanned) /\ Last(scanned) \in ToSet(scanned)
    BY <2>2, EmptySeq DEF Types, Last, ToSet
  <2>4. \A n \in DOMAIN order' : (n \in DOMAIN order /\ order'[n] = order[n]) \/ order'[n] = new
    <3> HIDE DEF new
    <3> QED BY <2>2 DEF Types
  <2>5. \A n \in DOMAIN order : n \in DOMAIN order' /\ order'[n] = order[n]
    <3> HIDE DEF new
    <3> QED BY <2>2 DEF Types
  <2>6. Known \subseteq Known'
    <3> HIDE DEF new
    <3> QED BY <2>5 DEF Known
  <2>7. \A k : Note(k) \in DOMAIN links' => Note(k) \in DOMAIN links /\ links'[Note(k)] = links[Note(k)]
    <3> TAKE k
    <3>1. Note(k) \notin back
      BY KeysDiffer
    <3> HIDE DEF back, place
    <3> QED BY <2>2, <3>1 DEF Locate
  <2>8. \A n \in DOMAIN order' : order'[n].body \in ToSet(scanned')
    <3> HIDE DEF new
    <3> QED BY <2>2, <2>3, <2>4 DEF Placed
  <2>9. 1..bodies' = {}
    BY <2>2
  <2> HIDE DEF new, place, back
  <2> QED BY <2>2, <2>6, <2>7, <2>8, <2>9, PlacedMeans
<1>4. CASE StartMain
  <2>1. UNCHANGED <<mode, scanned, order, links, bodies>> /\ phase = "scan"
    BY <1>4 DEF StartMain
  <2>2. files = <<>>
    BY <2>1 DEF Phases
  <2>3. \A id \in Ids : Note(id) \notin DOMAIN links
    <3>1. DOMAIN files = {}
      BY <2>2
    <3> QED BY <3>1, PlacedMeans DEF HasIn
  <2>4. Known' = Known
    BY <2>1 DEF Known
  <2> QED BY <2>1, <2>3, <2>4, PlacedMeans
<1> QED BY <1>1, <1>2, <1>3, <1>4

LEMMA MainPlaced ==
  ASSUME Types, Phases, Placed,
         \/ StartParagraph \/ EndParagraph
         \/ \E id \in Ids : ToElsewhere(id) \/ ToNote(id)
         \/ NextFile \/ EndMain
  PROVE  Placed'
<1>1. CASE \/ StartParagraph \/ EndParagraph
           \/ \E id \in Ids : ToElsewhere(id) \/ ToNote(id)
  <2>1. /\ files # <<>> /\ files \in Seq(FileSet)
        /\ UNCHANGED <<mode, scanned, order, bodies>>
    BY <1>1, MainStep
  <2>2. PICK items \in Seq(ItemSet) :
          /\ (files' = files /\ items = <<>>) \/ files' = Written(items)
          /\ \/ links' = links
             \/ \E id \in Ids : links' = Locate({Back(id)}, Current)
    BY <1>1, MainStep
  <2>3. Grows(files, files')
    BY <2>1, <2>2, WritesIn, SameGrows
  <2>4. \A id \in Ids :
          /\ Note(id) \in DOMAIN links' <=> Note(id) \in DOMAIN links
          /\ Note(id) \in DOMAIN links => links'[Note(id)] = links[Note(id)]
    <3>1. CASE links' = links
      BY <3>1
    <3>2. CASE \E id \in Ids : links' = Locate({Back(id)}, Current)
      BY <3>2, KeysDiffer DEF Locate
    <3> QED BY <2>2, <3>1, <3>2
  <2>5. \A n \in DOMAIN order : order[n].id \in Ids
    <3> TAKE n \in DOMAIN order
    <3>1. order[n] \in NoteSet
      BY ElementOfSeq DEF Types
    <3> QED BY <3>1 DEF NoteSet
  <2>6. Known' = Known
    BY <2>1 DEF Known
  <2>7. \A id \in Ids : Note(id) \in DOMAIN links' => HasIn(files', links'[Note(id)], "note", id)
    BY <2>3, <2>4, PlacedMeans, GrowsHas
  <2> QED BY <2>1, <2>4, <2>5, <2>6, <2>7, PlacedMeans
<1>2. CASE NextFile
  <2> DEFINE name == <<"index", Len(files) + 1>>
  <2>1. /\ files' = Append(files, [name |-> name, items |-> <<>>])
        /\ UNCHANGED <<mode, scanned, order, bodies, links>>
    BY <1>2 DEF NextFile, Reading, NewFile
  <2>2. name \in FileNames /\ <<>> \in Seq(ItemSet) /\ files \in Seq(FileSet)
    BY EmptySeq DEF FileNames, Types
  <2> HIDE DEF name
  <2>3. Grows(files, files')
    BY <2>1, <2>2, AddsIn
  <2>4. Known' = Known
    BY <2>1 DEF Known
  <2> QED BY <2>1, <2>3, <2>4, PlacedMeans, GrowsHas
<1>3. CASE EndMain
  BY <1>3 DEF EndMain, Placed, Known, Has
<1> QED BY <1>1, <1>2, <1>3

LEMMA BodiesPlaced ==
  ASSUME Types, Phases, LocalLinks, Placed,
         TransferBody \/ SkipBody \/ FloatBody \/ ProcessLinks
  PROVE  Placed'
<1>0. \A n \in DOMAIN order : order[n].id \in Ids
  <2> TAKE n \in DOMAIN order
  <2>1. order[n] \in NoteSet
    BY ElementOfSeq DEF Types
  <2> QED BY <2>1 DEF NoteSet
<1>1. CASE TransferBody \/ FloatBody
  <2> DEFINE name == scanned[bodies + 1]
             place == FileOf(name)
  <2>1. NextBody /\ links' = Locate(IdsOf(name), place)
    BY <1>1 DEF TransferBody, FloatBody
  <2>2. UNCHANGED <<mode, order, scanned>> /\ bodies' = bodies + 1
    BY <2>1 DEF NextBody
  <2>3. PICK items \in Seq(ItemSet) :
          /\ files' = Append(files, [name |-> place, items |-> items])
          /\ \A n \in DOMAIN order : order[n].body = name =>
               \E x \in ToSet(items) : x.kind = "note" /\ x.id = order[n].id
    <3>1. CASE TransferBody
      <4>1. \A id \in Ids : Item("note", id).kind = "note" /\ Item("note", id).id = id
        BY ItemsAreItems DEF Kinds
      <4>2. PICK items \in Seq(ItemSet) :
              /\ files' = Append(files, [name |-> place, items |-> items])
              /\ \A n \in DOMAIN order : order[n].body = name =>
                   Item("note", order[n].id) \in ToSet(items)
        BY <3>1, PlainFile
      <4> QED BY <1>0, <4>1, <4>2
    <3>2. CASE FloatBody
      <4>1. \A n \in DOMAIN order : /\ BackItem(order[n].id, BackRef(order[n].id)).kind = "note"
                                    /\ BackItem(order[n].id, BackRef(order[n].id)).id = order[n].id
        BY DEF BackItem
      <4>2. PICK items \in Seq(ItemSet) :
              /\ files' = Append(files, [name |-> place, items |-> items])
              /\ \A n \in DOMAIN order : order[n].body = name =>
                   BackItem(order[n].id, BackRef(order[n].id)) \in ToSet(items)
        BY <3>2, WholeFile
      <4> QED BY <4>1, <4>2
    <3> QED BY <1>1, <3>1, <3>2
  <2>4. place \in FileNames
    BY <2>1, BodyAtHand
  <2> HIDE DEF place
  <2>5. /\ Grows(files, files')
        /\ Len(files) + 1 \in DOMAIN files'
        /\ ToSet(files'[Len(files) + 1].items) = ToSet(items)
        /\ files'[Len(files) + 1].name = place
    BY <2>3, <2>4, AddsIn DEF Types
  <2> HIDE DEF name
  <2>6. \A n \in DOMAIN order : order[n].body = name => HasIn(files', place, "note", order[n].id)
    BY <2>3, <2>5 DEF HasIn
  <2>7. Known' = Known
    BY <2>2 DEF Known
  <2>8. \A id \in Ids : Note(id) \in IdsOf(name) =>
          \E n \in DOMAIN order : order[n].body = name /\ order[n].id = id
    BY KeysDiffer DEF IdsOf
  <2>9. /\ DOMAIN links' = DOMAIN links \union IdsOf(name)
        /\ \A l \in IdsOf(name) : links'[l] = place
        /\ \A l \in DOMAIN links : l \notin IdsOf(name) => links'[l] = links[l]
    BY <2>1 DEF Locate
  <2>10. \A id \in Ids : Note(id) \in DOMAIN links' => id \in Known'
    BY <2>7, <2>8, <2>9, PlacedMeans DEF Known
  <2>11. \A id \in Ids : Note(id) \in DOMAIN links' => HasIn(files', links'[Note(id)], "note", id)
    <3> SUFFICES ASSUME NEW id \in Ids, Note(id) \in DOMAIN links'
                 PROVE  HasIn(files', links'[Note(id)], "note", id)
      OBVIOUS
    <3>1. CASE Note(id) \in IdsOf(name)
      BY <2>6, <2>8, <2>9, <3>1
    <3>2. CASE Note(id) \notin IdsOf(name)
      <4>1. Note(id) \in DOMAIN links /\ links'[Note(id)] = links[Note(id)]
        BY <2>9, <3>2
      <4>2. HasIn(files, links[Note(id)], "note", id)
        BY <4>1, PlacedMeans
      <4> QED BY <2>5, <4>1, <4>2, GrowsHas
    <3> QED BY <3>1, <3>2
  <2>12. ASSUME mode \notin InPlace, NEW n \in DOMAIN order, NEW k \in 1..(bodies + 1),
                order[n].body = scanned[k]
         PROVE  Note(order[n].id) \in DOMAIN links'
    <3>1. CASE k = bodies + 1
      BY <2>9, <2>12, <3>1 DEF IdsOf, name
    <3>2. CASE k # bodies + 1
      <4>1. k \in 1..bodies
        BY <3>2 DEF Types
      <4> QED BY <2>9, <2>12, <4>1, PlacedMeans
    <3> QED BY <3>1, <3>2
  <2> QED BY <2>2, <2>10, <2>11, <2>12, PlacedMeans
<1>2. CASE SkipBody
  <2>1. UNCHANGED <<mode, order, scanned, links, files>> /\ mode \in InPlace
    BY <1>2 DEF SkipBody, NextBody
  <2>2. Known' = Known
    BY <2>1 DEF Known
  <2> QED BY <2>1, <2>2, PlacedMeans
<1>3. CASE ProcessLinks
  <2>1. UNCHANGED <<mode, order, scanned, links, bodies>>
    BY <1>3 DEF ProcessLinks
  <2>2. Known' = Known
    BY <2>1 DEF Known
  <2>3. Grows(files, files')
    BY <1>3, WholesIn
  <2> QED BY <2>1, <2>2, <2>3, PlacedMeans, GrowsHas
<1> QED BY <1>1, <1>2, <1>3

-----------------------------------------------------------------------------
(* Notes lead back. *)
ReferredIn(fs, id) ==
    \E f \in DOMAIN fs : fs[f].name[1] = "index"
                         /\ \E x \in ToSet(fs[f].items) : x.kind = "ref" /\ x.id = id

LEMMA ReferredMeans ==
  /\ \A id : IsReferred(id) <=> ReferredIn(files, id)
  /\ Referred <=> (mode \in Floats =>
       /\ \A id \in Ids : ReferredIn(files, id) =>
            Back(id) \in DOMAIN links /\ HasIn(files, links[Back(id)], "ref", id)
       /\ \A f \in DOMAIN files : \A x \in In(f) :
            x.kind = "note" =>
              (x.id \in Ids /\ (ReferredIn(files, x.id) => HasIn(files, x.href, "ref", x.id))))
  /\ Referred' <=> (mode' \in Floats =>
       /\ \A id \in Ids : ReferredIn(files', id) =>
            Back(id) \in DOMAIN links' /\ HasIn(files', links'[Back(id)], "ref", id)
       /\ \A f \in DOMAIN files' : \A x \in ToSet(files'[f].items) :
            x.kind = "note" =>
              (x.id \in Ids /\ (ReferredIn(files', x.id) => HasIn(files', x.href, "ref", x.id))))
BY DEF Referred, ReferredIn, IsReferred, Has, HasIn, In, Back

LEMMA InitReferred == Init => Referred
<1>1. DOMAIN <<>> = {}
  OBVIOUS
<1> QED BY <1>1 DEF Init, Referred, IsReferred

LEMMA ScanReferred ==
  ASSUME Types, Phases, Referred,
         \/ \E name \in Names : ScanBody(name)
         \/ ScanTitle
         \/ \E id \in Ids, refs \in Refs : ScanNote(id, refs)
         \/ StartMain
  PROVE  Referred'
<1>1. phase = "scan" /\ (files' = files \/ files' = <<NewFile(<<"index", 1>>)>>)
  BY DEF ScanBody, ScanTitle, ScanNote, StartMain
<1>2. files = <<>>
  BY <1>1 DEF Phases
<1>3. \A f \in DOMAIN files' : ToSet(files'[f].items) = {}
  <2>1. CASE files' = files
    BY <1>2, <2>1
  <2>2. CASE files' = <<NewFile(<<"index", 1>>)>>
    <3>1. DOMAIN files' = {1} /\ files'[1].items = <<>>
      BY <2>2 DEF NewFile
    <3> QED BY <3>1 DEF ToSet
  <2> QED BY <1>1, <2>1, <2>2
<1> QED BY <1>3, ReferredMeans DEF ReferredIn

LEMMA MainReferred ==
  ASSUME Types, Phases, Texts, Referred,
         \/ StartParagraph \/ EndParagraph
         \/ \E id \in Ids : ToElsewhere(id) \/ ToNote(id)
         \/ NextFile \/ EndMain
  PROVE  Referred'
<1>0. SUFFICES ASSUME mode' \in Floats
               PROVE  Referred'
  BY ReferredMeans
<1>1. CASE \/ StartParagraph \/ EndParagraph
           \/ \E id \in Ids : ToElsewhere(id) \/ ToNote(id)
  <2>1. /\ phase = "main" /\ files # <<>> /\ files \in Seq(FileSet)
        /\ UNCHANGED <<mode, scanned, order, bodies>>
    BY <1>1, MainStep
  <2>2. PICK items \in Seq(ItemSet) :
          /\ (files' = files /\ items = <<>>) \/ files' = Written(items)
          /\ \A x \in ToSet(items) : x.href = Local /\ x.kind \notin {"note", "title"}
          /\ \/ links' = links /\ (mode \in Floats => \A x \in ToSet(items) : x.kind # "ref")
             \/ \E id \in Ids : /\ links' = Locate({Back(id)}, Current)
                                /\ items = <<Item("ref", id)>>
                                /\ ToSet(items) = {Item("ref", id)}
    BY <1>1, MainStep
  <2>3. /\ Grows(files, files') /\ DOMAIN files' = DOMAIN files
        /\ \A f \in DOMAIN files :
             /\ files'[f].name = files[f].name
             /\ \/ ToSet(files'[f].items) = In(f)
                \/ f = Len(files) /\ ToSet(files'[f].items) = In(f) \union ToSet(items)
    <3>1. CASE files' = files
      BY <3>1, SameGrows DEF In
    <3>2. CASE files' = Written(items)
      <4>1. \A f \in DOMAIN files : files'[f].name = files[f].name
        BY <2>1, <3>2, Writes
      <4>2. /\ Grows(files, files') /\ DOMAIN files' = DOMAIN files
            /\ \A f \in DOMAIN files :
                 In(f)' = IF f = Len(files) THEN In(f) \union ToSet(items) ELSE In(f)
        BY <2>1, <3>2, WritesIn
      <4> QED BY <4>1, <4>2 DEF In
    <3> QED BY <2>2, <3>1, <3>2
  <2>4. \A f \in DOMAIN files' : \A x \in ToSet(files'[f].items) : x.kind # "note"
    BY <2>1, <2>2, <2>3 DEF Texts
  <2>5. ASSUME NEW id \in Ids, ReferredIn(files, id)
        PROVE  Back(id) \in DOMAIN links /\ HasIn(files', links[Back(id)], "ref", id)
    BY <1>0, <2>1, <2>3, <2>5, ReferredMeans, GrowsHas
  <2>6. ASSUME NEW id \in Ids, ReferredIn(files', id)
        PROVE  Back(id) \in DOMAIN links' /\ HasIn(files', links'[Back(id)], "ref", id)
    <3>1. CASE links' = links /\ \A x \in ToSet(items) : x.kind # "ref"
      <4>1. ReferredIn(files, id)
        BY <2>3, <2>6, <3>1 DEF ReferredIn, In
      <4> QED BY <2>5, <3>1, <4>1
    <3>2. CASE \E k \in Ids : /\ links' = Locate({Back(k)}, Current)
                              /\ items = <<Item("ref", k)>>
                              /\ ToSet(items) = {Item("ref", k)}
      <4>1. PICK k \in Ids : /\ links' = Locate({Back(k)}, Current)
                             /\ items = <<Item("ref", k)>>
                             /\ ToSet(items) = {Item("ref", k)}
        BY <3>2
      <4>2. Item("ref", k).kind = "ref" /\ Item("ref", k).id = k
        BY ItemsAreItems DEF Kinds
      <4>3. Len(files) \in DOMAIN files /\ Current = files[Len(files)].name
        BY <2>1, CurrentIsFile
      <4>4. /\ DOMAIN links' = DOMAIN links \union {Back(k)}
            /\ links'[Back(k)] = Current
            /\ \A l \in DOMAIN links : l # Back(k) => links'[l] = links[l]
        BY <4>1 DEF Locate
      <4>5. CASE id = k
        <5>1. Item("ref", k) \in ToSet(files'[Len(files)].items)
          <6>1. files' = Written(items)
            <7>1. items # <<>>
              <8>1. <<Item("ref", k)>> # <<>>
                OBVIOUS
              <8> QED BY <4>1, <8>1
            <7> QED BY <2>2, <7>1
          <6> QED BY <2>1, <4>1, <4>3, <6>1, WritesIn DEF In
        <5>2. HasIn(files', Current, "ref", k)
          BY <2>3, <4>2, <4>3, <5>1 DEF HasIn
        <5> QED BY <4>4, <4>5, <5>2
      <4>6. CASE id # k
        <5>1. ReferredIn(files, id)
          BY <2>3, <2>6, <4>1, <4>2, <4>6 DEF ReferredIn, In
        <5>2. Back(id) # Back(k)
          BY <4>6, KeysDiffer
        <5> QED BY <2>5, <4>4, <5>1, <5>2
      <4> QED BY <4>5, <4>6
    <3> QED BY <1>0, <2>1, <2>2, <3>1, <3>2
  <2> QED BY <2>4, <2>6, ReferredMeans
<1>2. CASE NextFile
  <2> DEFINE name == <<"index", Len(files) + 1>>
  <2>1. /\ files' = Append(files, [name |-> name, items |-> <<>>])
        /\ UNCHANGED <<mode, scanned, order, bodies, links>>
    BY <1>2 DEF NextFile, Reading, NewFile
  <2>2. name \in FileNames /\ <<>> \in Seq(ItemSet) /\ files \in Seq(FileSet)
    BY EmptySeq DEF FileNames, Types
  <2> HIDE DEF name
  <2>3. /\ Grows(files, files')
        /\ DOMAIN files' = DOMAIN files \union {Len(files) + 1}
        /\ \A f \in DOMAIN files : In(f)' = In(f) /\ files'[f].name = files[f].name
        /\ ToSet(files'[Len(files) + 1].items) = ToSet(<<>>)
    BY <2>1, <2>2, AddsIn
  <2>4. ToSet(<<>>) = {}
    BY DEF ToSet
  <2>5. \A f \in DOMAIN files' :
          \/ f \in DOMAIN files /\ ToSet(files'[f].items) = In(f) /\ files'[f].name = files[f].name
          \/ ToSet(files'[f].items) = {}
    BY <2>3, <2>4 DEF In
  <2>6. \A id : ReferredIn(files', id) => ReferredIn(files, id)
    BY <2>5 DEF ReferredIn, In
  <2> QED BY <2>1, <2>3, <2>5, <2>6, ReferredMeans, GrowsHas
<1>3. CASE EndMain
  BY <1>3 DEF EndMain, Referred, IsReferred, Has, In
<1> QED BY <1>1, <1>2, <1>3

LEMMA BodiesReferred ==
  ASSUME Types, Phases, LocalLinks, Referred,
         TransferBody \/ SkipBody \/ FloatBody \/ ProcessLinks
  PROVE  Referred'
<1>0. SUFFICES ASSUME mode' \in Floats
               PROVE  Referred'
  BY ReferredMeans
<1>1. CASE FloatBody
  <2> DEFINE place == FileOf(scanned[bodies + 1])
             ids == IdsOf(scanned[bodies + 1])
  <2>1. NextBody /\ links' = Locate(ids, place)
    BY <1>1 DEF FloatBody
  <2>2. UNCHANGED <<mode, order, scanned>>
    BY <2>1 DEF NextBody
  <2>3. PICK items \in Seq(ItemSet) :
          /\ files' = Append(files, [name |-> place, items |-> items])
          /\ \A x \in ToSet(items) :
               \/ x.kind = "title"
               \/ \E n \in DOMAIN order : x = BackItem(order[n].id, BackRef(order[n].id))
               \/ x.kind \in {"ref", "link"} /\ x.href = Local
    BY <1>1, WholeFile
  <2>4. place \in FileNames /\ place[1] = "notes"
    BY <2>1, BodyAtHand
  <2> HIDE DEF place
  <2>5. /\ Grows(files, files')
        /\ DOMAIN files' = DOMAIN files \union {Len(files) + 1}
        /\ \A f \in DOMAIN files : In(f)' = In(f) /\ files'[f].name = files[f].name
        /\ ToSet(files'[Len(files) + 1].items) = ToSet(items)
        /\ files'[Len(files) + 1].name = place
    BY <2>3, <2>4, AddsIn DEF Types
  <2>6. \A id : ReferredIn(files', id) => ReferredIn(files, id)
    BY <2>4, <2>5 DEF ReferredIn, In
  <2>7. \A id \in Ids : Back(id) \in DOMAIN links =>
          Back(id) \in DOMAIN links' /\ links'[Back(id)] = links[Back(id)]
    <3> TAKE id \in Ids
    <3>1. Back(id) \notin ids
      BY KeysDiffer DEF IdsOf
    <3> HIDE DEF ids
    <3> QED BY <2>1, <3>1 DEF Locate
  <2> HIDE DEF ids
  <2>8. \A id \in Ids : ReferredIn(files', id) =>
          Back(id) \in DOMAIN links' /\ HasIn(files', links'[Back(id)], "ref", id)
    BY <1>0, <2>2, <2>5, <2>6, <2>7, ReferredMeans, GrowsHas
  <2>9. ASSUME NEW x \in ToSet(items), x.kind = "note"
        PROVE  x.id \in Ids /\ (ReferredIn(files', x.id) => HasIn(files', x.href, "ref", x.id))
    <3>1. PICK n \in DOMAIN order : x = BackItem(order[n].id, BackRef(order[n].id))
      BY <2>3, <2>9
    <3>2. order[n] \in NoteSet
      BY ElementOfSeq DEF Types
    <3>3. order[n].id \in Ids
      BY <3>2 DEF NoteSet
    <3>4. x.id = order[n].id /\ x.href = BackRef(order[n].id)
      BY <3>1 DEF BackItem
    <3>5. ASSUME ReferredIn(files', x.id)
          PROVE  HasIn(files', x.href, "ref", x.id)
      <4>1. Back(x.id) \in DOMAIN links /\ HasIn(files, links[Back(x.id)], "ref", x.id)
        BY <1>0, <2>2, <2>6, <3>3, <3>4, <3>5, ReferredMeans
      <4>2. x.href = links[Back(x.id)]
        BY <3>4, <4>1 DEF BackRef
      <4> QED BY <2>5, <4>1, <4>2, GrowsHas
    <3> QED BY <3>3, <3>4, <3>5
  <2>10. ASSUME NEW f \in DOMAIN files, NEW x \in In(f), x.kind = "note"
         PROVE  x.id \in Ids /\ (ReferredIn(files', x.id) => HasIn(files', x.href, "ref", x.id))
    BY <1>0, <2>2, <2>5, <2>6, <2>10, ReferredMeans, GrowsHas
  <2>11. \A f \in DOMAIN files' : \A x \in ToSet(files'[f].items) :
           x.kind = "note" =>
             (x.id \in Ids /\ (ReferredIn(files', x.id) => HasIn(files', x.href, "ref", x.id)))
    <3> TAKE f \in DOMAIN files'
    <3> TAKE x \in ToSet(files'[f].items)
    <3>1. (f \in DOMAIN files /\ x \in In(f)) \/ x \in ToSet(items)
      BY <2>5 DEF In
    <3> QED BY <2>9, <2>10, <3>1
  <2> QED BY <2>8, <2>11, ReferredMeans
<1>2. CASE TransferBody \/ SkipBody
  <2>1. mode \notin Floats /\ mode' = mode
    BY <1>2 DEF TransferBody, SkipBody, NextBody, InPlace, Floats
  <2> QED BY <1>0, <2>1
<1>3. CASE ProcessLinks
  <2>1. UNCHANGED <<mode, order, scanned, links, bodies>>
    BY <1>3 DEF ProcessLinks
  <2>2. /\ Grows(files, files') /\ DOMAIN files' = DOMAIN files
        /\ \A f \in DOMAIN files : /\ files'[f].name = files[f].name
                                   /\ ToSet(files'[f].items) = {MakeWhole(x) : x \in In(f)}
    BY <1>3, WholesIn DEF In
  <2>3. \A f \in DOMAIN files : \A x \in In(f) :
          /\ MakeWhole(x).kind = x.kind /\ MakeWhole(x).id = x.id
          /\ x.kind = "note" => MakeWhole(x) = x
    <3> TAKE f \in DOMAIN files
    <3>1. files[f].items \in Seq(ItemSet)
      <4>1. files[f] \in FileSet
        BY ElementOfSeq DEF Types
      <4> QED BY <4>1 DEF FileSet
    <3>2. In(f) \subseteq ItemSet
      BY <3>1, ElementOfSeq DEF In, ToSet
    <3> QED BY <3>2 DEF MakeWhole, ItemSet
  <2>4. \A id : ReferredIn(files', id) => ReferredIn(files, id)
    BY <2>2, <2>3 DEF ReferredIn, In
  <2>5. \A f \in DOMAIN files' : \A x \in ToSet(files'[f].items) :
          x.kind = "note" => f \in DOMAIN files /\ x \in In(f)
    BY <2>2, <2>3
  <2>6. \A id \in Ids : ReferredIn(files', id) =>
          Back(id) \in DOMAIN links' /\ HasIn(files', links'[Back(id)], "ref", id)
    BY <1>0, <2>1, <2>2, <2>4, ReferredMeans, GrowsHas
  <2>7. \A f \in DOMAIN files' : \A x \in ToSet(files'[f].items) :
          x.kind = "note" =>
            (x.id \in Ids /\ (ReferredIn(files', x.id) => HasIn(files', x.href, "ref", x.id)))
    BY <1>0, <2>1, <2>2, <2>4, <2>5, ReferredMeans, GrowsHas
  <2> QED BY <2>6, <2>7, ReferredMeans
<1> QED BY <1>1, <1>2, <1>3

-----------------------------------------------------------------------------
(* Ids in their order. *)
PartOf(x, kind) == IF x.kind = kind THEN <<x.id>> ELSE <<>>

LEMMA PartsAreSeqs ==
  ASSUME NEW s \in Seq(ItemSet), NEW kind
  PROVE  /\ [i \in DOMAIN s |-> PartOf(s[i], kind)] \in Seq(Seq(Ids \union Names))
         /\ Len([i \in DOMAIN s |-> PartOf(s[i], kind)]) = Len(s)
         /\ \A i \in 1..Len(s) : [j \in DOMAIN s |-> PartOf(s[j], kind)][i] = PartOf(s[i], kind)
         /\ IdsIn(s, kind) = FlattenSeq([i \in DOMAIN s |-> PartOf(s[i], kind)])
<1> DEFINE pp == [i \in DOMAIN s |-> PartOf(s[i], kind)]
<1>1. DOMAIN s = 1..Len(s) /\ Len(s) \in Nat
  OBVIOUS
<1>2. \A i \in 1..Len(s) : PartOf(s[i], kind) \in Seq(Ids \union Names)
  <2> TAKE i \in 1..Len(s)
  <2>1. s[i] \in ItemSet
    BY ElementOfSeq
  <2>2. s[i].id \in Ids \union Names
    BY <2>1 DEF ItemSet
  <2>3. <<s[i].id>> \in Seq(Ids \union Names) /\ <<>> \in Seq(Ids \union Names)
    BY <2>2, SingleIsSeq, EmptySeq
  <2> QED BY <2>3 DEF PartOf
<1>3. pp \in [1..Len(s) -> Seq(Ids \union Names)]
  BY <1>1, <1>2
<1>4. pp \in Seq(Seq(Ids \union Names)) /\ Len(pp) = Len(s)
  <2> HIDE DEF pp
  <2> QED BY <1>1, <1>3, FunctionIsSeq
<1>5. \A i \in 1..Len(s) : pp[i] = PartOf(s[i], kind)
  BY <1>1
<1>6. IdsIn(s, kind) = FlattenSeq(pp)
  BY DEF IdsIn, PartOf
<1> QED BY <1>4, <1>5, <1>6

LEMMA IdsInType ==
  ASSUME NEW s \in Seq(ItemSet), NEW kind
  PROVE  IdsIn(s, kind) \in Seq(Ids \union Names)
<1> DEFINE pp == [i \in DOMAIN s |-> PartOf(s[i], kind)]
<1>1. pp \in Seq(Seq(Ids \union Names)) /\ IdsIn(s, kind) = FlattenSeq(pp)
  BY PartsAreSeqs
<1> HIDE DEF pp
<1> QED BY <1>1, FlattenType

LEMMA IdsInConcat ==
  ASSUME NEW s \in Seq(ItemSet), NEW t \in Seq(ItemSet), NEW kind
  PROVE  IdsIn(s \o t, kind) = IdsIn(s, kind) \o IdsIn(t, kind)
<1> DEFINE u == s \o t
           ps == [i \in DOMAIN s |-> PartOf(s[i], kind)]
           pt == [i \in DOMAIN t |-> PartOf(t[i], kind)]
           pu == [i \in DOMAIN u |-> PartOf(u[i], kind)]
           SS == Seq(Ids \union Names)
<1>1. /\ u \in Seq(ItemSet) /\ Len(u) = Len(s) + Len(t)
      /\ \A i \in 1..(Len(s) + Len(t)) : u[i] = IF i <= Len(s) THEN s[i] ELSE t[i - Len(s)]
  BY ConcatProperties
<1>2. /\ ps \in Seq(SS) /\ Len(ps) = Len(s) /\ IdsIn(s, kind) = FlattenSeq(ps)
      /\ \A i \in 1..Len(s) : ps[i] = PartOf(s[i], kind)
  BY PartsAreSeqs
<1>3. /\ pt \in Seq(SS) /\ Len(pt) = Len(t) /\ IdsIn(t, kind) = FlattenSeq(pt)
      /\ \A i \in 1..Len(t) : pt[i] = PartOf(t[i], kind)
  BY PartsAreSeqs
<1>4. /\ pu \in Seq(SS) /\ Len(pu) = Len(u) /\ IdsIn(u, kind) = FlattenSeq(pu)
      /\ \A i \in 1..Len(u) : pu[i] = PartOf(u[i], kind)
  <2> HIDE DEF u
  <2> QED BY <1>1, PartsAreSeqs
<1>5. Len(s) \in Nat /\ Len(t) \in Nat
  OBVIOUS
<1> HIDE DEF u, ps, pt, pu
<1>6. /\ ps \o pt \in Seq(SS) /\ Len(ps \o pt) = Len(s) + Len(t)
      /\ \A i \in 1..(Len(s) + Len(t)) : (ps \o pt)[i] = IF i <= Len(s) THEN ps[i] ELSE pt[i - Len(s)]
  <2> HIDE DEF SS
  <2>1. ps \in Seq(SS) /\ pt \in Seq(SS) /\ Len(ps) = Len(s) /\ Len(pt) = Len(t)
    BY <1>2, <1>3
  <2>2. /\ ps \o pt \in Seq(SS) /\ Len(ps \o pt) = Len(ps) + Len(pt)
        /\ \A i \in 1..(Len(ps) + Len(pt)) :
             (ps \o pt)[i] = IF i <= Len(ps) THEN ps[i] ELSE pt[i - Len(ps)]
    BY <2>1, ConcatProperties
  <2> QED BY <2>1, <2>2
<1>7. \A i \in 1..(Len(s) + Len(t)) : pu[i] = (ps \o pt)[i]
  <2> TAKE i \in 1..(Len(s) + Len(t))
  <2>1. CASE i <= Len(s)
    <3>1. i \in 1..Len(s)
      BY <1>5, <2>1
    <3> QED BY <1>1, <1>2, <1>4, <1>6, <2>1, <3>1
  <2>2. CASE ~(i <= Len(s))
    <3>1. i - Len(s) \in 1..Len(t)
      BY <1>5, <2>2
    <3>2. u[i] = t[i - Len(s)] /\ (ps \o pt)[i] = pt[i - Len(s)]
      BY <1>1, <1>6, <2>2
    <3> QED BY <1>1, <1>3, <1>4, <3>1, <3>2
  <2> QED BY <2>1, <2>2
<1>8. pu = ps \o pt
  <2> HIDE DEF SS
  <2> QED BY <1>1, <1>4, <1>6, <1>7, SeqEqual
<1>9. FlattenSeq(ps \o pt) = FlattenSeq(ps) \o FlattenSeq(pt)
  BY <1>2, <1>3, FlattenConcat
<1> QED BY <1>2, <1>3, <1>4, <1>8, <1>9 DEF u

LEMMA IdsInSame ==
  ASSUME NEW s, NEW t, NEW kind, DOMAIN s = DOMAIN t,
         \A i \in DOMAIN s : s[i].kind = t[i].kind /\ s[i].id = t[i].id
  PROVE  IdsIn(s, kind) = IdsIn(t, kind)
<1>1. [i \in DOMAIN s |-> IF s[i].kind = kind THEN <<s[i].id>> ELSE <<>>]
        = [i \in DOMAIN t |-> IF t[i].kind = kind THEN <<t[i].id>> ELSE <<>>]
  OBVIOUS
<1> QED BY <1>1 DEF IdsIn

LEMMA IdsInEmpty == \A kind : IdsIn(<<>>, kind) = <<>>
<1> TAKE kind
<1>1. [i \in DOMAIN <<>> |-> IF <<>>[i].kind = kind THEN <<(<<>>[i]).id>> ELSE <<>>] = <<>>
  OBVIOUS
<1> QED BY <1>1, FlattenEmpty DEF IdsIn

LEMMA IdsInSingle ==
  ASSUME NEW x \in ItemSet, NEW kind
  PROVE  IdsIn(<<x>>, kind) = IF x.kind = kind THEN <<x.id>> ELSE <<>>
<1> DEFINE s == <<x>>
           pp == [i \in DOMAIN s |-> PartOf(s[i], kind)]
           SS == Seq(Ids \union Names)
<1>1. s \in Seq(ItemSet) /\ Len(s) = 1 /\ s[1] = x
  BY SingleIsSeq
<1>2. /\ pp \in Seq(SS) /\ Len(pp) = Len(s) /\ IdsIn(s, kind) = FlattenSeq(pp)
      /\ \A i \in 1..Len(s) : pp[i] = PartOf(s[i], kind)
  <2> HIDE DEF s
  <2> QED BY <1>1, PartsAreSeqs
<1> HIDE DEF s, pp
<1>3. PartOf(x, kind) \in SS
  <2>1. x.id \in Ids \union Names
    BY DEF ItemSet
  <2> QED BY <2>1, SingleIsSeq, EmptySeq DEF PartOf
<1> HIDE DEF SS
<1>4. pp = Append(<<>>, PartOf(x, kind))
  <2> DEFINE q == PartOf(x, kind)
  <2> HIDE DEF q
  <2>1. pp[1] = q /\ Len(pp) = 1 /\ q \in SS
    BY <1>1, <1>2, <1>3 DEF q
  <2>2. Append(<<>>, q) \in Seq(SS) /\ Len(Append(<<>>, q)) = 1 /\ Append(<<>>, q)[1] = q
    BY <2>1, EmptySeq, AppendProperties
  <2>3. pp = Append(<<>>, q)
    BY <1>2, <2>1, <2>2, SeqEqual
  <2> QED BY <2>3 DEF q
<1>5. FlattenSeq(pp) = <<>> \o PartOf(x, kind)
  <2>1. <<>> \in Seq(SS)
    BY EmptySeq
  <2>2. FlattenSeq(Append(<<>>, PartOf(x, kind))) = FlattenSeq(<<>>) \o PartOf(x, kind)
    BY <1>3, <2>1, FlattenAppend DEF SS
  <2> QED BY <1>4, <2>2, FlattenEmpty
<1>6. <<>> \o PartOf(x, kind) = PartOf(x, kind)
  BY <1>3, ConcatEmptySeq DEF SS
<1> QED BY <1>2, <1>5, <1>6 DEF PartOf, s

LEMMA IdsInShown ==
  ASSUME NEW notes \in Seq(Ids)
  PROVE  IdsIn(Shown(notes), "shown") = notes /\ IdsIn(Shown(notes), "anchor") = <<>>
<1> DEFINE T == {n \in Seq(Ids) : IdsIn(Shown(n), "shown") = n /\ IdsIn(Shown(n), "anchor") = <<>>}
<1>1. <<>> \in T
  <2>1. Shown(<<>>) = <<>>
    BY DEF Shown
  <2> QED BY <2>1, IdsInEmpty, EmptySeq
<1>2. ASSUME NEW n \in Seq(Ids), NEW id \in Ids, n \in T
      PROVE  Append(n, id) \in T
  <2> DEFINE m == Append(n, id)
             x == Item("shown", id)
  <2>1. /\ m \in Seq(Ids) /\ Len(m) = Len(n) + 1 /\ m[Len(n) + 1] = id
        /\ \A i \in 1..Len(n) : m[i] = n[i]
    BY AppendProperties
  <2>2. x \in ItemSet /\ x.kind = "shown" /\ x.id = id
    BY ItemsAreItems DEF Kinds
  <2> HIDE DEF m, x
  <2>3. /\ Shown(n) \in Seq(ItemSet) /\ Len(Shown(n)) = Len(n)
        /\ \A i \in 1..Len(n) : Shown(n)[i] = Item("shown", n[i])
    BY ShownItems
  <2>4. /\ Shown(m) \in Seq(ItemSet) /\ Len(Shown(m)) = Len(m)
        /\ \A i \in 1..Len(m) : Shown(m)[i] = Item("shown", m[i])
    BY <2>1, ShownItems
  <2>5. /\ Append(Shown(n), x) \in Seq(ItemSet) /\ Len(Append(Shown(n), x)) = Len(n) + 1
        /\ Append(Shown(n), x)[Len(n) + 1] = x
        /\ \A i \in 1..Len(n) : Append(Shown(n), x)[i] = Shown(n)[i]
    BY <2>2, <2>3, AppendProperties
  <2>6. Shown(m) = Append(Shown(n), x)
    <3>1. \A i \in 1..(Len(n) + 1) : Shown(m)[i] = Append(Shown(n), x)[i]
      <4> TAKE i \in 1..(Len(n) + 1)
      <4>1. CASE i = Len(n) + 1
        BY <2>1, <2>4, <2>5, <4>1 DEF x
      <4>2. CASE i # Len(n) + 1
        <5>1. i \in 1..Len(n)
          BY <4>2
        <5> QED BY <2>1, <2>3, <2>4, <2>5, <5>1
      <4> QED BY <4>1, <4>2
    <3> QED BY <2>1, <2>4, <2>5, <3>1, SeqEqual
  <2>7. Append(Shown(n), x) = Shown(n) \o <<x>> /\ <<x>> \in Seq(ItemSet)
    BY <2>2, <2>3, AppendIsConcat
  <2>8. \A kind : IdsIn(Shown(m), kind) = IdsIn(Shown(n), kind) \o IdsIn(<<x>>, kind)
    <3> TAKE kind
    <3> DEFINE one == <<x>>
    <3>1. one \in Seq(ItemSet) /\ Shown(m) = Shown(n) \o one /\ Shown(n) \in Seq(ItemSet)
      BY <2>3, <2>6, <2>7
    <3> HIDE DEF one
    <3>2. IdsIn(Shown(n) \o one, kind) = IdsIn(Shown(n), kind) \o IdsIn(one, kind)
      BY <3>1, IdsInConcat
    <3> QED BY <3>1, <3>2 DEF one
  <2>9. IdsIn(<<x>>, "shown") = <<id>> /\ IdsIn(<<x>>, "anchor") = <<>>
    BY <2>2, IdsInSingle
  <2>10. IdsIn(Shown(m), "shown") = n \o <<id>> /\ IdsIn(Shown(m), "anchor") = <<>> \o <<>>
    BY <1>2, <2>8, <2>9
  <2>11. n \o <<id>> = m
    BY AppendIsConcat DEF m
  <2>12. <<>> \o <<>> = <<>>
    BY EmptySeq, ConcatEmptySeq
  <2> QED BY <2>1, <2>10, <2>11, <2>12 DEF m
<1>3. \A n \in Seq(Ids) : n \in T
  <2> HIDE DEF T
  <2> QED BY <1>1, <1>2, SequenceInSet
<1> QED BY <1>3

-----------------------------------------------------------------------------
(* Notes in place. *)
Waiting(f) == IF f = Len(files) THEN currentNotes ELSE <<>>

LEMMA InPlaceMeans ==
  /\ NotesInPlace <=> (mode \in InPlace =>
       /\ \A f \in DOMAIN files : IdsIn(files[f].items, "anchor")
                                    = IdsIn(files[f].items, "shown") \o Waiting(f)
       /\ currentNotes # <<>> => inParagraph)
  /\ NotesInPlace' <=> (mode' \in InPlace =>
       /\ \A f \in DOMAIN files' : IdsIn(files'[f].items, "anchor")
            = IdsIn(files'[f].items, "shown") \o (IF f = Len(files') THEN currentNotes' ELSE <<>>)
       /\ currentNotes' # <<>> => inParagraph')
BY DEF NotesInPlace, AskedIn, ShownIn, Waiting

(* The last file gets items, and the notes that wait are others: if both   *)
(* go together there, they do in all files.                                *)
(* What waited and was asked for is what is written or waits.              *)
Balanced(items) ==
    currentNotes \o IdsIn(items, "anchor") = IdsIn(items, "shown") \o currentNotes'

LEMMA LastInPlace ==
  ASSUME Types, files # <<>>, NotesInPlace, mode \in InPlace, NEW items \in Seq(ItemSet),
         files' = Written(items), currentNotes' \in Seq(Ids),
         mode' = mode, currentNotes' # <<>> => inParagraph', Balanced(items)
  PROVE  NotesInPlace'
<1>1. /\ Len(files') = Len(files) /\ DOMAIN files' = DOMAIN files /\ Len(files) \in DOMAIN files
      /\ \A f \in DOMAIN files : f # Len(files) => files'[f] = files[f]
      /\ files'[Len(files)].items = files[Len(files)].items \o items
      /\ files[Len(files)].items \in Seq(ItemSet)
  <2>1. files \in Seq(FileSet)
    BY DEF Types
  <2>2. files' \in Seq(FileSet)
    BY <2>1, Writes
  <2>3. Len(files') = Len(files)
    BY <2>1, Writes
  <2> QED BY <2>1, <2>2, <2>3, Writes
<1> DEFINE old == files[Len(files)].items
           asked == IdsIn(old, "anchor")
           shown == IdsIn(old, "shown")
           Marks == Seq(Ids \union Names)
<1>2. asked \in Marks /\ shown \in Marks
      /\ IdsIn(items, "anchor") \in Marks /\ IdsIn(items, "shown") \in Marks
  BY <1>1, IdsInType
<1>3. currentNotes \in Marks /\ currentNotes' \in Marks
  <2>1. currentNotes \in Seq(Ids) /\ currentNotes' \in Seq(Ids)
    BY DEF Types
  <2> QED BY <2>1, SeqMonotonic
<1>4. asked = shown \o currentNotes
  BY <1>1, InPlaceMeans DEF Waiting
<1>5. \A kind : IdsIn(files'[Len(files)].items, kind) = IdsIn(old, kind) \o IdsIn(items, kind)
  <2>1. old \in Seq(ItemSet) /\ files'[Len(files)].items = old \o items
    BY <1>1
  <2> HIDE DEF old
  <2>2. \A kind : IdsIn(old \o items, kind) = IdsIn(old, kind) \o IdsIn(items, kind)
    BY <2>1, IdsInConcat
  <2> QED BY <2>1, <2>2
<1> HIDE DEF old
<1>6. PICK s \in Marks, t \in Marks, u \in Marks, v \in Marks, w \in Marks :
        /\ s = shown /\ t = currentNotes /\ u = IdsIn(items, "anchor")
        /\ v = IdsIn(items, "shown") /\ w = currentNotes'
  <2> HIDE DEF shown
  <2> QED BY <1>2, <1>3
<1>7. IdsIn(files'[Len(files)].items, "anchor")
        = IdsIn(files'[Len(files)].items, "shown") \o currentNotes'
  <2>1. Rebrackets(s, t, u, v, w)
    BY SameInMiddle
  <2>2. t \o u = v \o w
    BY <1>6 DEF Balanced
  <2>3. (s \o t) \o u = IdsIn(files'[Len(files)].items, "anchor")
    BY <1>4, <1>5, <1>6
  <2>4. s \o v = IdsIn(files'[Len(files)].items, "shown")
    BY <1>5, <1>6
  <2>5. (s \o t) \o u = (s \o v) \o w
    BY <2>1, <2>2 DEF Rebrackets
  <2> QED BY <1>6, <2>3, <2>4, <2>5
<1>8. \A f \in DOMAIN files : f # Len(files) =>
        IdsIn(files'[f].items, "anchor") = IdsIn(files'[f].items, "shown") \o <<>>
  BY <1>1, InPlaceMeans DEF Waiting
<1> QED BY <1>1, <1>7, <1>8, InPlaceMeans

LEMMA EmptyConcat ==
  /\ <<>> \o <<>> = <<>>
  /\ \A s \in Seq(Ids) : s \o <<>> = s /\ <<>> \o s = s
BY EmptySeq, ConcatEmptySeq

LEMMA MainInPlace ==
  ASSUME ~Outside, Types, Phases, NotesInPlace,
         \/ StartParagraph \/ EndParagraph
         \/ \E id \in Ids : ToElsewhere(id) \/ ToNote(id)
         \/ NextFile \/ EndMain
  PROVE  NotesInPlace'
<1> SUFFICES ASSUME mode' \in InPlace
             PROVE  NotesInPlace'
  BY InPlaceMeans
<1>0. currentNotes \in Seq(Ids) /\ files \in Seq(FileSet)
  BY DEF Types
<1>1. CASE StartParagraph
  <2>1. UNCHANGED <<mode, files, currentNotes>> /\ inParagraph' = TRUE
    BY <1>1 DEF StartParagraph, Reading
  <2> QED BY <2>1, InPlaceMeans DEF Waiting
<1>2. CASE EndParagraph
  <2>1. /\ phase = "main" /\ inParagraph' = FALSE
        /\ files' = IF mode = "block" THEN Written(Shown(currentNotes)) ELSE files
        /\ currentNotes' = IF mode = "block" THEN <<>> ELSE currentNotes
        /\ mode' = mode
    BY <1>2, AtEnd
  <2>2. CASE mode = "block"
    <3>1. Shown(currentNotes) \in Seq(ItemSet)
      BY <1>0, ShownItems
    <3>2. IdsIn(Shown(currentNotes), "shown") = currentNotes
          /\ IdsIn(Shown(currentNotes), "anchor") = <<>>
      BY <1>0, IdsInShown
    <3>3. currentNotes \o <<>> = currentNotes \o <<>>
      OBVIOUS
    <3>4. files # <<>> /\ files' = Written(Shown(currentNotes)) /\ currentNotes' = <<>>
      BY <2>1, <2>2 DEF Phases
    <3>5. <<>> \in Seq(Ids) /\ mode \in InPlace
      BY <2>1, EmptySeq
    <3> QED BY <2>1, <3>1, <3>2, <3>4, <3>5, LastInPlace DEF Balanced
  <2>3. CASE mode # "block"
    <3>1. mode = "inline" /\ currentNotes = <<>>
      BY <2>1, <2>3 DEF InPlace, Phases
    <3> QED BY <2>1, <2>3, <3>1, InPlaceMeans DEF Waiting
  <2> QED BY <2>2, <2>3
<1>3. CASE \E id \in Ids : ToElsewhere(id)
  <2>1. PICK id \in Ids : ToElsewhere(id)
    BY <1>3
  <2> DEFINE items == <<Item("link", id)>>
  <2>2. /\ phase = "main" /\ files' = Written(items)
        /\ UNCHANGED <<mode, inParagraph, currentNotes>>
    BY <2>1 DEF ToElsewhere, Reading
  <2>3. Item("link", id) \in ItemSet /\ Item("link", id).kind = "link"
    BY ItemsAreItems DEF Kinds
  <2>4. items \in Seq(ItemSet) /\ IdsIn(items, "shown") = <<>> /\ IdsIn(items, "anchor") = <<>>
    BY <2>3, SingleIsSeq, IdsInSingle
  <2>5. currentNotes \o <<>> = <<>> \o currentNotes
    BY <1>0, EmptyConcat
  <2>6. files # <<>> /\ mode \in InPlace /\ (currentNotes # <<>> => inParagraph)
    BY <2>2, InPlaceMeans DEF Phases
  <2> HIDE DEF items
  <2> QED BY <1>0, <2>2, <2>4, <2>5, <2>6, LastInPlace DEF Balanced
<1>4. CASE \E id \in Ids : ToNote(id)
  <2>1. PICK id \in Ids : ToNote(id)
    BY <1>4
  <2>2. /\ phase = "main"
        /\ files' = Written(AtRef(id))
        /\ currentNotes' = IF mode = "block" THEN Append(currentNotes, id) ELSE
                           IF mode = "inline" THEN <<>> ELSE currentNotes
        /\ mode' = mode /\ inParagraph' = inParagraph
        /\ inParagraph \/ Outside
    BY <2>1, AtNote
  <2>3. AtRef(id) \in Seq(ItemSet)
    BY AtRefItems
  <2>4. files # <<>> /\ inParagraph
    BY <2>2 DEF Phases
  <2> DEFINE x == Item("anchor", id)
             y == Item("shown", id)
  <2>5. /\ x \in ItemSet /\ x.kind = "anchor" /\ x.id = id
        /\ y \in ItemSet /\ y.kind = "shown" /\ y.id = id
    BY ItemsAreItems DEF Kinds
  <2>6. /\ mode = "inline" => AtRef(id) = <<x, y>>
        /\ mode = "block" => AtRef(id) = <<x>>
    BY AtRefItems
  <2> HIDE DEF x, y
  <2>7. /\ IdsIn(<<x>>, "anchor") = <<id>> /\ IdsIn(<<x>>, "shown") = <<>>
        /\ IdsIn(<<y>>, "anchor") = <<>> /\ IdsIn(<<y>>, "shown") = <<id>>
    BY <2>5, IdsInSingle
  <2>8. CASE mode = "block"
    <3>1. currentNotes' = Append(currentNotes, id) /\ currentNotes' \in Seq(Ids)
      BY <1>0, <2>2, <2>8, AppendProperties
    <3>2. currentNotes \o <<id>> = <<>> \o currentNotes'
      BY <1>0, <3>1, AppendIsConcat, EmptyConcat
    <3>3. IdsIn(AtRef(id), "anchor") = <<id>> /\ IdsIn(AtRef(id), "shown") = <<>>
      BY <2>6, <2>7, <2>8
    <3> QED BY <2>2, <2>3, <2>4, <3>1, <3>2, <3>3, LastInPlace DEF Balanced
  <2>9. CASE mode = "inline"
    <3>1. currentNotes' = <<>> /\ currentNotes = <<>> /\ <<>> \in Seq(Ids)
      BY <2>2, <2>9, EmptySeq DEF Phases
    <3>2. <<x, y>> = <<x>> \o <<y>> /\ <<x>> \in Seq(ItemSet) /\ <<y>> \in Seq(ItemSet)
      <4>1. x \in ItemSet /\ y \in ItemSet
        BY <2>5
      <4>2. <<x, y>> = <<x>> \o <<y>>
        BY <4>1, PairIsConcat
      <4>3. <<x>> \in Seq(ItemSet) /\ <<y>> \in Seq(ItemSet)
        BY <4>1, SingleIsSeq
      <4> QED BY <4>2, <4>3
    <3>3. /\ IdsIn(AtRef(id), "anchor") = <<id>> \o <<>>
          /\ IdsIn(AtRef(id), "shown") = <<>> \o <<id>>
      <4> DEFINE sx == <<x>>
                 sy == <<y>>
      <4>1. sx \in Seq(ItemSet) /\ sy \in Seq(ItemSet)
        BY <3>2
      <4>2. AtRef(id) = sx \o sy
        BY <2>6, <2>9, <3>2
      <4> HIDE DEF sx, sy
      <4>3. \A k : IdsIn(sx \o sy, k) = IdsIn(sx, k) \o IdsIn(sy, k)
        BY <4>1, IdsInConcat
      <4> QED BY <2>7, <4>2, <4>3 DEF sx, sy
    <3>4. <<>> \o (<<id>> \o <<>>) = (<<>> \o <<id>>) \o <<>>
      <4>1. <<id>> \in Seq(Ids)
        BY SingleIsSeq
      <4> QED BY <4>1, EmptyConcat
    <3>5. currentNotes \o IdsIn(AtRef(id), "anchor") = IdsIn(AtRef(id), "shown") \o currentNotes'
      BY <3>1, <3>3, <3>4
    <3> QED BY <2>2, <2>3, <2>4, <3>1, <3>5, LastInPlace DEF Balanced
  <2> QED BY <2>2, <2>8, <2>9 DEF InPlace
<1>5. CASE NextFile
  <2> DEFINE name == <<"index", Len(files) + 1>>
  <2>1. /\ files' = Append(files, [name |-> name, items |-> <<>>]) /\ ~inParagraph
        /\ UNCHANGED <<mode, inParagraph, currentNotes>>
    BY <1>5 DEF NextFile, Reading, NewFile
  <2>2. name \in FileNames /\ <<>> \in Seq(ItemSet)
    BY EmptySeq DEF FileNames, Types
  <2>3. currentNotes = <<>>
    BY <2>1, InPlaceMeans
  <2> HIDE DEF name
  <2>4. /\ Len(files') = Len(files) + 1 /\ DOMAIN files' = DOMAIN files \union {Len(files) + 1}
        /\ \A f \in DOMAIN files : files'[f] = files[f] /\ f # Len(files')
        /\ files'[Len(files) + 1].items = <<>>
    BY <1>0, <2>1, <2>2, Adds
  <2>5. \A kind : IdsIn(<<>>, kind) = <<>>
    BY IdsInEmpty
  <2>6. \A f \in DOMAIN files :
          IdsIn(files'[f].items, "anchor") = IdsIn(files'[f].items, "shown") \o <<>>
    BY <2>1, <2>3, <2>4, InPlaceMeans DEF Waiting
  <2>7. IdsIn(files'[Len(files) + 1].items, "anchor")
          = IdsIn(files'[Len(files) + 1].items, "shown") \o <<>>
    BY <2>4, <2>5, EmptyConcat
  <2> QED BY <2>1, <2>3, <2>4, <2>6, <2>7, InPlaceMeans
<1>6. CASE EndMain
  BY <1>6, InPlaceMeans DEF EndMain, Waiting
<1> QED BY <1>1, <1>2, <1>3, <1>4, <1>5, <1>6

LEMMA OtherInPlace ==
  ASSUME Types, Phases, NotesInPlace,
         \/ \E name \in Names : ScanBody(name)
         \/ ScanTitle
         \/ \E id \in Ids, refs \in Refs : ScanNote(id, refs)
         \/ StartMain
         \/ TransferBody \/ SkipBody \/ FloatBody \/ ProcessLinks
  PROVE  NotesInPlace'
<1>1. CASE \/ \E name \in Names : ScanBody(name)
           \/ ScanTitle
           \/ \E id \in Ids, refs \in Refs : ScanNote(id, refs)
           \/ SkipBody
  <2>1. UNCHANGED <<mode, files, currentNotes, inParagraph>>
    BY <1>1 DEF ScanBody, ScanTitle, ScanNote, SkipBody, NextBody
  <2> QED BY <2>1, InPlaceMeans DEF Waiting
<1>2. CASE StartMain
  <2>1. files' = <<NewFile(<<"index", 1>>)>> /\ UNCHANGED <<mode, currentNotes, inParagraph>>
        /\ phase = "scan"
    BY <1>2 DEF StartMain
  <2>2. currentNotes' = <<>>
    BY <2>1 DEF Phases
  <2>3. DOMAIN files' = {1} /\ files'[1].items = <<>>
    BY <2>1 DEF NewFile
  <2>4. \A kind : IdsIn(<<>>, kind) = <<>>
    BY IdsInEmpty
  <2> QED BY <2>2, <2>3, <2>4, EmptyConcat, InPlaceMeans
<1>3. CASE TransferBody \/ FloatBody
  <2>1. mode' \notin InPlace
    BY <1>3 DEF TransferBody, FloatBody, NextBody, InPlace, Floats
  <2> QED BY <2>1, InPlaceMeans
<1>4. CASE ProcessLinks
  <2>1. UNCHANGED <<mode, currentNotes, inParagraph>>
    BY <1>4 DEF ProcessLinks
  <2>2. /\ Len(files') = Len(files) /\ files' \in Seq(FileSet) /\ files \in Seq(FileSet)
        /\ \A f \in DOMAIN files :
             /\ DOMAIN files'[f].items = DOMAIN files[f].items
             /\ \A i \in DOMAIN files[f].items : files'[f].items[i] = MakeWhole(files[f].items[i])
    BY <1>4, Wholes DEF Types
  <2>3. DOMAIN files' = DOMAIN files
    BY <2>2
  <2>4. ASSUME NEW f \in DOMAIN files, NEW kind
        PROVE  IdsIn(files'[f].items, kind) = IdsIn(files[f].items, kind)
    <3>1. files[f].items \in Seq(ItemSet)
      <4>1. files[f] \in FileSet
        BY <2>2, ElementOfSeq
      <4> QED BY <4>1 DEF FileSet
    <3>2. \A i \in DOMAIN files[f].items :
            /\ MakeWhole(files[f].items[i]).kind = files[f].items[i].kind
            /\ MakeWhole(files[f].items[i]).id = files[f].items[i].id
      <4> TAKE i \in DOMAIN files[f].items
      <4>1. files[f].items[i] \in ItemSet
        BY <3>1, ElementOfSeq
      <4> QED BY <4>1 DEF MakeWhole, ItemSet
    <3> QED BY <2>2, <3>2, IdsInSame
  <2> QED BY <2>1, <2>2, <2>3, <2>4, InPlaceMeans DEF Waiting
<1> QED BY <1>1, <1>2, <1>3, <1>4

-----------------------------------------------------------------------------
Scans ==
    \/ \E name \in Names : ScanBody(name)
    \/ ScanTitle
    \/ \E id \in Ids, refs \in Refs : ScanNote(id, refs)
    \/ StartMain

Mains ==
    \/ StartParagraph \/ EndParagraph
    \/ \E id \in Ids : ToElsewhere(id) \/ ToNote(id)
    \/ NextFile \/ EndMain

Bodies == TransferBody \/ SkipBody \/ FloatBody \/ ProcessLinks

LEMMA NextSplits == Next => Scans \/ Mains \/ Bodies
BY DEF Next, Scans, Mains, Bodies

Inv == Types /\ Phases /\ Texts /\ LocalLinks /\ Placed /\ Referred

LEMMA InvStep == Inv /\ [Next]_vars => Inv'
<1> SUFFICES ASSUME Inv, [Next]_vars
             PROVE  Inv'
  OBVIOUS
<1>1. Types /\ Phases /\ Texts /\ LocalLinks /\ Placed /\ Referred
  BY DEF Inv
<1>2. CASE Scans
  <2>1. Types' /\ Phases'
    BY <1>1, <1>2, ScanTypes DEF Scans
  <2>2. Texts' /\ LocalLinks'
    BY <1>1, <1>2, ScanTexts DEF Scans
  <2>3. Placed'
    BY <1>1, <1>2, ScanPlaced DEF Scans
  <2>4. Referred'
    BY <1>1, <1>2, ScanReferred DEF Scans
  <2> QED BY <2>1, <2>2, <2>3, <2>4 DEF Inv
<1>3. CASE Mains
  <2>1. Types' /\ Phases'
    BY <1>1, <1>3, MainTypes DEF Mains
  <2>2. Texts' /\ LocalLinks'
    BY <1>1, <1>3, MainTexts DEF Mains
  <2>3. Placed'
    BY <1>1, <1>3, MainPlaced DEF Mains
  <2>4. Referred'
    BY <1>1, <1>3, MainReferred DEF Mains
  <2> QED BY <2>1, <2>2, <2>3, <2>4 DEF Inv
<1>4. CASE Bodies
  <2>1. Types' /\ Phases'
    BY <1>1, <1>4, BodiesTypes DEF Bodies
  <2>2. Texts' /\ LocalLinks'
    BY <1>1, <1>4, BodiesTexts DEF Bodies
  <2>3. Placed'
    BY <1>1, <1>4, BodiesPlaced DEF Bodies
  <2>4. Referred'
    BY <1>1, <1>4, BodiesReferred DEF Bodies
  <2> QED BY <2>1, <2>2, <2>3, <2>4 DEF Inv
<1>5. CASE UNCHANGED vars
  <2>1. Types' /\ Phases'
    BY <1>1, <1>5 DEF vars, Types, Phases
  <2>2. Texts' /\ LocalLinks'
    BY <1>1, <1>5 DEF vars, Texts, LocalLinks, In
  <2>3. Placed'
    BY <1>1, <1>5, PlacedMeans DEF vars, Known
  <2>4. Referred'
    BY <1>1, <1>5, ReferredMeans DEF vars, In
  <2> QED BY <2>1, <2>2, <2>3, <2>4 DEF Inv
<1> QED BY <1>2, <1>3, <1>4, <1>5, NextSplits

(* What holds of every state: types; what each phase leaves behind; where  *)
(* notes are; that links are local until processLinks (process.go); that   *)
(* the known places of notes and of references are places where they are.  *)
THEOREM NotesInvariant == Spec => []Inv
<1>1. Init => Inv
  BY InitTypes, InitTexts, InitPlaced, InitReferred DEF Inv
<1> QED BY <1>1, InvStep, PTL DEF Spec

-----------------------------------------------------------------------------
LEMMA KnownIds ==
  ASSUME Types
  PROVE  Known \subseteq Ids
<1>1. \A i \in DOMAIN order : order[i] \in NoteSet
  BY ElementOfSeq DEF Types
<1> QED BY <1>1 DEF Known, NoteSet

LEMMA NotesHavePlaces ==
  ASSUME Types, Placed, mode \notin InPlace, bodies = Len(scanned)
  PROVE  \A id : Note(id) \in DOMAIN links <=> id \in Known
<1> TAKE id
<1>1. ASSUME id \in Known
      PROVE  Note(id) \in DOMAIN links
  <2>1. PICK n \in DOMAIN order : order[n].id = id
    BY <1>1 DEF Known
  <2>2. order[n].body \in ToSet(scanned)
    BY <2>1 DEF Placed
  <2>3. DOMAIN scanned = 1..Len(scanned)
    BY DEF Types
  <2>4. PICK k \in 1..Len(scanned) : order[n].body = scanned[k]
    BY <2>2, <2>3 DEF ToSet
  <2> QED BY <2>1, <2>4 DEF Placed
<1>2. ASSUME Note(id) \in DOMAIN links
      PROVE  id \in Known
  <2>1. id \in Ids
    BY <1>2, KeysDiffer DEF Types, Keys
  <2> QED BY <1>2, <2>1 DEF Placed
<1> QED BY <1>1, <1>2

LEMMA LinksAreMade ==
  ASSUME Inv, ProcessLinks
  PROVE  NoteLinksResolve'
<1>1. Types /\ LocalLinks /\ Placed
  BY DEF Inv
<1>2. phase = "notes" /\ bodies = Len(scanned) /\ UNCHANGED <<mode, order, links>>
  BY DEF ProcessLinks
<1>3. Known' = Known
  BY <1>2 DEF Known
<1> SUFFICES ASSUME mode \notin InPlace,
                    NEW f \in DOMAIN files', NEW x \in ToSet(files'[f].items),
                    x.kind \in {"ref", "link"}
             PROVE  IF x.id \in Known THEN HasIn(files', x.href, "note", x.id)
                                      ELSE x.href = Local
  BY <1>2, <1>3, HasIsHasIn DEF NoteLinksResolve
<1>4. f \in DOMAIN files /\ Grows(files, files')
  BY <1>1, WholesIn
<1>5. ToSet(files'[f].items) = {MakeWhole(y) : y \in In(f)}
  BY <1>1, <1>4, WholesIn DEF In
<1>6. PICK y \in In(f) : x = MakeWhole(y)
  BY <1>5
<1>7. y \in ItemSet
  <2>1. files[f] \in FileSet
    BY <1>1, <1>4, ElementOfSeq DEF Types
  <2>2. files[f].items \in Seq(ItemSet)
    BY <2>1 DEF FileSet
  <2> QED BY <1>6, <2>2, ElementOfSeq DEF In, ToSet
<1>8. /\ x.kind = y.kind /\ x.id = y.id
      /\ x.href = IF Note(x.id) \in DOMAIN links THEN links[Note(x.id)] ELSE y.href
  BY <1>6, <1>7 DEF MakeWhole, ItemSet
<1>9. y.href = Local
  BY <1>1, <1>2, <1>4, <1>6, <1>8 DEF LocalLinks
<1>10. Note(x.id) \in DOMAIN links <=> x.id \in Known
  BY <1>1, <1>2, NotesHavePlaces
<1>11. x.id \in Known => HasIn(files, links[Note(x.id)], "note", x.id)
  BY <1>1, <1>10, KnownIds, PlacedMeans
<1>12. x.id \in Known => HasIn(files', links[Note(x.id)], "note", x.id)
  BY <1>4, <1>11, GrowsHas
<1> QED BY <1>8, <1>9, <1>10, <1>12

(* Not done before, not done after, except for processLinks. *)
LEMMA OnlyLinksEnd ==
  ASSUME Next, ~ProcessLinks
  PROVE  phase' # "done"
<1>1. CASE Scans
  BY <1>1 DEF Scans, ScanBody, ScanTitle, ScanNote, StartMain
<1>2. CASE Mains
  BY <1>2 DEF Mains, StartParagraph, EndParagraph, ToElsewhere, ToNote, NextFile, EndMain, Reading
<1>3. CASE Bodies
  BY <1>3 DEF Bodies, TransferBody, SkipBody, FloatBody, NextBody
<1> QED BY <1>1, <1>2, <1>3, NextSplits

(* However many notes there are and whichever refer to which: when         *)
(* processLinks (process.go) is done, every link to a note leads to the    *)
(* file the note is in, and every other link is left as it was.            *)
THEOREM NoteLinksAlwaysResolve == Spec => []NoteLinksResolve
<1>1. Init => NoteLinksResolve
  BY DEF Init, NoteLinksResolve
<1>2. Inv /\ NoteLinksResolve /\ [Next]_vars => NoteLinksResolve'
  <2> SUFFICES ASSUME Inv, NoteLinksResolve, [Next]_vars
               PROVE  NoteLinksResolve'
    OBVIOUS
  <2>1. CASE ProcessLinks
    BY <2>1, LinksAreMade
  <2>2. CASE Next /\ ~ProcessLinks
    BY <2>2, OnlyLinksEnd DEF NoteLinksResolve
  <2>3. CASE UNCHANGED vars
    BY <2>3 DEF vars, NoteLinksResolve, Has, Known
  <2> QED BY <2>1, <2>2, <2>3
<1> QED BY <1>1, <1>2, NotesInvariant, PTL DEF Spec

(* "bi-directional links": in the float modes the way back from a note the *)
(* main body refers to leads to a file with such a reference, whichever of *)
(* them were read last (processBody, xhtml.go).                            *)
THEOREM NotesLeadBack == Spec => []BackRefsResolve
<1>1. Inv => BackRefsResolve
  BY DEF Inv, Referred, BackRefsResolve, In
<1> QED BY <1>1, NotesInvariant, PTL

(* Where every reference is in a paragraph, as the run has it (the finding *)
(* is about those that are not): in every file the notes shown are those   *)
(* asked for, in their order, and none waits after its paragraph.          *)
THEOREM NotesStayInPlace ==
  ASSUME ~Outside
  PROVE  Spec => []NotesInPlace
<1>1. Init => NotesInPlace
  BY DEF Init, NotesInPlace
<1>2. Inv /\ NotesInPlace /\ [Next]_vars => NotesInPlace'
  <2> SUFFICES ASSUME Inv, NotesInPlace, [Next]_vars
               PROVE  NotesInPlace'
    OBVIOUS
  <2>1. Types /\ Phases
    BY DEF Inv
  <2>2. CASE Mains
    BY <2>1, <2>2, MainInPlace DEF Mains
  <2>3. CASE Scans \/ Bodies
    BY <2>1, <2>3, OtherInPlace DEF Scans, Bodies
  <2>4. CASE UNCHANGED vars
    BY <2>4, InPlaceMeans DEF vars, Waiting
  <2> QED BY <2>2, <2>3, <2>4, NextSplits
<1> QED BY <1>1, <1>2, NotesInvariant, PTL DEF Spec

=============================================================================
