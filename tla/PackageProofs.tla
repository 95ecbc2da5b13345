---------------------------- MODULE PackageProofs ----------------------------
(***************************************************************************)
(* Proofs about Package: for any number of binaries, files, pages and      *)
(* images, what the generators refer to is there, the cover is marked, and *)
(* a Kindle can read the images.                                           *)
(*                                                                         *)
(* And about TocNcx, the file of the package with the contents, for lists  *)
(* of any length and levels of any size below the largest 32-bit integer.  *)
(***************************************************************************)
EXTENDS Package, TocNcx, FlattenFacts, FiniteSetTheorems

-----------------------------------------------------------------------------
(* What is at some places of a sequence: what is there, alone if it was    *)
(* alone, and first if it was first.                                       *)
LEMMA OnlyHas ==
  ASSUME NEW S, NEW s \in Seq(S), NEW at
  PROVE  /\ Only(s, at) \in Seq(S)
         /\ \A x : x \in ToSet(Only(s, at)) <=> \E i \in 1..Len(s) : i \in at /\ x = s[i]
         /\ \A j, k \in 1..Len(Only(s, at)) : j # k =>
              \E a, b \in 1..Len(s) : /\ a # b /\ a \in at /\ b \in at
                                      /\ Only(s, at)[j] = s[a] /\ Only(s, at)[k] = s[b]
         /\ s # <<>> /\ 1 \in at => Only(s, at) # <<>> /\ Only(s, at)[1] = s[1]
<1> DEFINE Tells(o) ==
             /\ o \in Seq(S)
             /\ \A x : x \in ToSet(o) <=> \E i \in 1..Len(s) : i \in at /\ x = s[i]
             /\ \A j, k \in 1..Len(o) : j # k =>
                  \E a, b \in 1..Len(s) : /\ a # b /\ a \in at /\ b \in at
                                          /\ o[j] = s[a] /\ o[k] = s[b]
             /\ s # <<>> /\ 1 \in at => o # <<>> /\ o[1] = s[1]
<1>1. Tells(Picked(s, at))
  BY PickedHas
<1>2. Only(s, at) = Picked(s, at)
  BY DEF Only, Picked
<1>3. Tells(Only(s, at))
  <2> HIDE DEF Tells
  <2> QED BY <1>1, <1>2
<1> QED BY <1>3

-----------------------------------------------------------------------------
Steps == {"binaries", "text", "images", "toc", "cover", "ncx", "stylesheet", "pagemap", "opf",
          "meta", "flush", "done"}
Exts == {"jpeg", "png", "gif", "webp", "svg", "broken", "garbage"}
ImageIds == Ids \union {"notfound", "dummycover"}
Image == [id : ImageIds, name : {"bin"} \X Nat \X Exts, type : Exts, decoded : BOOLEAN,
          jpeg : BOOLEAN]
Kinds == {"index", "annotation", "toc", "cover", "ncx", "page-map", "opf"}
Page == {f \in [kind : Kinds, number : Nat, pages : Nat, spine : BOOLEAN, manifest : BOOLEAN,
                kobo : BOOLEAN] : /\ f.spine = (f.kind \notin {"ncx", "page-map", "opf"})
                                  /\ f.manifest = (f.kind # "opf")}
DataPath == {In("", <<"style", 0>>)} \union {In("fonts", n) : n \in STRING}
              \union {In("images", <<"css", n>>) : n \in STRING}

Types ==
    /\ opt \in Settings
    /\ step \in Steps
    /\ bins \in Nat
    /\ images \in Seq(Image)
    /\ cover \in ImageIds \union {None}
    /\ files \in Seq(Page)
    /\ vignettes \in Seq(Vignettes)
    /\ data \in Seq(DataPath)
    /\ tocEntries \in Nat

LEMMA WithIdFinds ==
  ASSUME NEW id
  PROVE  /\ WithId(id) = 0 => \A i \in 1..Len(images) : images[i].id # id
         /\ WithId(id) # 0 => /\ WithId(id) \in 1..Len(images) /\ images[WithId(id)].id = id
                              /\ \A i \in 1..Len(images) : images[i].id = id => WithId(id) <= i
<1> DEFINE I == {i \in 1..Len(images) : images[i].id = id}
<1>1. WithId(id) = IF I # {} THEN Min(I) ELSE 0
  BY DEF WithId, SelectInSeq
<1>2. CASE I = {}
  BY <1>1, <1>2
<1>3. CASE I # {}
  <2>1. I \in SUBSET Nat
    OBVIOUS
  <2>2. Min(I) \in I /\ \A i \in I : Min(I) <= i
    <3> HIDE DEF I
    <3> QED BY <1>3, <2>1, LeastIsLeast
  <2>3. Min(I) \in Nat \ {0}
    BY <2>2
  <2> QED BY <1>1, <1>3, <2>2, <2>3
<1> QED BY <1>2, <1>3

LEMMA NewPicture ==
  ASSUME NEW id \in ImageIds, NEW n \in Nat, NEW ext \in Exts, NEW type \in Exts,
         NEW b, b = Picture(id, BinName(n, ext), type)
  PROVE  /\ b \in Image /\ b.id = id /\ b.name = BinName(n, ext) /\ b.type = type
         /\ b.decoded /\ ~b.jpeg
BY DEF Picture, BinName, Image

LEMMA NewBinary ==
  ASSUME Types, NEW kind \in BinaryKinds, NEW id \in Ids, ProcessBinary(kind, id)
  PROVE  \/ images' = images /\ kind \in {"garbage", "broken"}
                             /\ (kind = "broken" => ~opt.useBroken)
         \/ \E b \in Image : /\ images' = Append(images, b)
                             /\ b.id = id /\ b.name = BinName(bins, kind)
                             /\ Kindle /\ b.decoded /\ b.type = "webp" => b.jpeg
<1> DEFINE b == Picture(id, BinName(bins, kind), kind)
           left == [b EXCEPT !.decoded = FALSE]
           read == [b EXCEPT !.jpeg = kind = "webp" /\ Kindle]
<1>1. kind \in Exts /\ id \in ImageIds /\ bins \in Nat /\ images \in Seq(Image)
  BY PackageAssumption DEF Exts, ImageIds, Types
<1>2. b \in Image /\ b.id = id /\ b.name = BinName(bins, kind) /\ b.type = kind
  BY <1>1, NewPicture
<1>3. /\ left \in Image /\ left.id = id /\ left.name = BinName(bins, kind) /\ ~left.decoded
  BY <1>2 DEF Image
<1>4. (kind = "webp" /\ Kindle) \in BOOLEAN
  OBVIOUS
<1>5. /\ read \in Image /\ read.id = id /\ read.name = BinName(bins, kind)
      /\ Kindle /\ read.type = "webp" => read.jpeg
  BY <1>2, <1>4 DEF Image
<1>6. images' = images \o Decoded(kind, id)
  BY DEF ProcessBinary
<1>7. \/ Decoded(kind, id) = <<>> /\ kind \in {"garbage", "broken"}
                                  /\ (kind = "broken" => ~opt.useBroken)
      \/ Decoded(kind, id) = <<left>>
      \/ Decoded(kind, id) = <<read>>
  <2> HIDE DEF left, read
  <2>1. CASE kind = "garbage"
    BY <2>1 DEF Decoded
  <2>2. CASE kind = "svg"
    BY <2>2 DEF Decoded, left
  <2>3. CASE kind = "broken"
    BY <2>3 DEF Decoded, left
  <2>4. CASE kind \notin {"garbage", "svg", "broken"}
    BY <2>4 DEF Decoded, read
  <2> QED BY <2>1, <2>2, <2>3, <2>4
<1> HIDE DEF left, read
<1>8. /\ images \o <<>> = images
      /\ Append(images, left) = images \o <<left>>
      /\ Append(images, read) = images \o <<read>>
  BY <1>1, <1>3, <1>5, AppendIsConcat, ConcatEmptySeq
<1> QED BY <1>3, <1>5, <1>6, <1>7, <1>8

LEMMA ReplacementIsImage ==
  ASSUME Types, NEW b \in Image
  PROVE  /\ Replacement(b) \in Image /\ Replacement(b).id = b.id
         /\ Replacement(b).name[2] = b.name[2]
         /\ \/ Replacement(b) = b
            \/ opt.overwrite \in Formats /\ Replacement(b).type = opt.overwrite
         /\ opt.overwrite \notin Formats => Replacement(b) = b
<1> DEFINE o == opt.overwrite
<1>1. b.name[2] \in Nat /\ b.id \in ImageIds
  BY DEF Image
<1>2. CASE o \in Formats
  <2>1. Replacement(b) = Picture(b.id, BinName(b.name[2], o), o)
    BY <1>2 DEF Replacement
  <2>2. BinName(b.name[2], o)[2] = b.name[2] /\ o \in Exts
    BY <1>2 DEF BinName, Formats, Exts
  <2> QED BY <1>1, <1>2, <2>1, <2>2, NewPicture
<1>3. CASE o \notin Formats
  BY <1>3 DEF Replacement
<1> QED BY <1>2, <1>3

(* What processImages leaves of the images when there is a cover. *)
Kept(c) == [i \in DOMAIN images |-> IF i = WithId(c) THEN Replacement(images[i]) ELSE images[i]]
Left(c) == {i \in DOMAIN images :
              images[i].id # c \/ (i = WithId(c) /\ opt.overwrite # "remove")}

LEMMA CoverKept ==
  ASSUME Types, NEW c
  PROVE  /\ FirstCover(c) = Only(Kept(c), Left(c))
         /\ Kept(c) \in Seq(Image) /\ Len(Kept(c)) = Len(images)
         /\ \A i \in 1..Len(images) :
              /\ images[i] \in Image
              /\ Kept(c)[i] = IF i = WithId(c) THEN Replacement(images[i]) ELSE images[i]
              /\ Kept(c)[i].id = images[i].id /\ Kept(c)[i].name[2] = images[i].name[2]
<1>1. /\ images \in Seq(Image) /\ DOMAIN images = 1..Len(images) /\ Len(images) \in Nat
  BY LenProperties DEF Types
<1>2. \A i \in 1..Len(images) : images[i] \in Image
  BY <1>1, ElementOfSeq
<1>3. \A i \in 1..Len(images) :
        Kept(c)[i] = IF i = WithId(c) THEN Replacement(images[i]) ELSE images[i]
  BY <1>1 DEF Kept
<1>4. \A i \in 1..Len(images) :
        /\ Kept(c)[i] \in Image /\ Kept(c)[i].id = images[i].id
        /\ Kept(c)[i].name[2] = images[i].name[2]
  BY <1>2, <1>3, ReplacementIsImage
<1>5. Kept(c) \in [1..Len(images) -> Image]
  BY <1>1, <1>2, ReplacementIsImage DEF Kept
<1>6. Kept(c) \in Seq(Image) /\ Len(Kept(c)) = Len(images)
  BY <1>1, <1>5, FunctionIsSeq
<1>7. FirstCover(c) = Only(Kept(c), Left(c))
  BY DEF FirstCover, Kept, Left
<1> QED BY <1>2, <1>3, <1>4, <1>6, <1>7

(* What generateCover does to the cover makes it at most a JPEG.           *)
LEMMA StyledIsImage ==
  ASSUME NEW b \in Image, NEW tall \in BOOLEAN, NEW titled \in BOOLEAN,
         NEW c, c = Stamped(Resized(b, tall), titled)
  PROVE  /\ c \in Image /\ c.id = b.id /\ c.name = b.name /\ c.type = b.type
         /\ c.decoded = b.decoded /\ (b.jpeg => c.jpeg)
<1> DEFINE d == Resized(b, tall)
<1>1. /\ d \in Image /\ d.id = b.id /\ d.name = b.name /\ d.type = b.type
      /\ d.decoded = b.decoded /\ (b.jpeg => d.jpeg)
  BY DEF Image, Resized
<1> HIDE DEF d
<1>2. c = [d EXCEPT !.jpeg = @ \/ (stamp /\ titled /\ Kindle)]
  BY DEF Stamped, d
<1>3. /\ c \in Image /\ c.id = d.id /\ c.name = d.name /\ c.type = d.type
      /\ c.decoded = d.decoded /\ (d.jpeg => c.jpeg)
  BY <1>1, <1>2 DEF Image
<1> QED BY <1>1, <1>3

(* The image at a place of what is left came from a place of what was.     *)
LEMMA CoverLeaves ==
  ASSUME Types, NEW c
  PROVE  /\ FirstCover(c) \in Seq(Image)
         /\ \A k \in 1..Len(FirstCover(c)) :
              \E i \in 1..Len(images) :
                 /\ i \in Left(c)
                 /\ FirstCover(c)[k] = IF i = WithId(c) THEN Replacement(images[i]) ELSE images[i]
                 /\ FirstCover(c)[k].id = images[i].id
<1> DEFINE o == Only(Kept(c), Left(c))
<1>1. /\ FirstCover(c) = o
      /\ Kept(c) \in Seq(Image) /\ Len(Kept(c)) = Len(images)
      /\ \A i \in 1..Len(images) :
              /\ Kept(c)[i] = IF i = WithId(c) THEN Replacement(images[i]) ELSE images[i]
              /\ Kept(c)[i].id = images[i].id
  BY CoverKept
<1>2. /\ o \in Seq(Image)
      /\ \A x : x \in ToSet(o) <=> \E i \in 1..Len(Kept(c)) : i \in Left(c) /\ x = Kept(c)[i]
  BY <1>1, OnlyHas
<1> HIDE DEF o
<1>3. \A k \in 1..Len(o) : o[k] \in ToSet(o)
  BY <1>2 DEF ToSet
<1>4. \A k \in 1..Len(o) : \E i \in 1..Len(images) : i \in Left(c) /\ o[k] = Kept(c)[i]
  BY <1>1, <1>2, <1>3
<1>5. \A k \in 1..Len(o) :
        \E i \in 1..Len(images) :
           /\ i \in Left(c)
           /\ o[k] = IF i = WithId(c) THEN Replacement(images[i]) ELSE images[i]
           /\ o[k].id = images[i].id
  BY <1>1, <1>4
<1> QED BY <1>1, <1>2, <1>5

-----------------------------------------------------------------------------
(* How each action changes the images. *)
LEMMA ImagesFromText ==
  ASSUME Types, NEW id \in Ids, TransferImage(id)
  PROVE  \/ images' = images
         \/ \E b \in Image : /\ images' = Append(images, b)
                             /\ b.id = "notfound" /\ b.name = BinName(Len(images), "png")
                             /\ b.type = "png" /\ b.decoded
                             /\ notFound = None /\ notFound' = b.name
<1> DEFINE b == NotFoundPicture
<1>1. "notfound" \in ImageIds /\ Len(images) \in Nat /\ "png" \in Exts
  BY LenProperties DEF ImageIds, Exts, Types
<1>2. b = Picture("notfound", BinName(Len(images), "png"), "png")
  BY DEF NotFoundPicture
<1> HIDE DEF b
<1>3. /\ b \in Image /\ b.id = "notfound" /\ b.name = BinName(Len(images), "png")
      /\ b.type = "png" /\ b.decoded
  BY <1>1, <1>2, NewPicture
<1>4. \/ images' = images
      \/ images' = Append(images, b) /\ notFound = None /\ notFound' = b.name
  BY DEF TransferImage, b
<1> QED BY <1>3, <1>4

LEMMA DefaultIsImage ==
  ASSUME Types
  PROVE  /\ DefaultCover \in Image /\ DefaultCover.id = "dummycover"
         /\ DefaultCover.name = BinName(Len(images), opt.defaultType)
         /\ DefaultCover.type = opt.defaultType
<1> DEFINE b == DefaultCover
           t == opt.defaultType
<1>1. "dummycover" \in ImageIds /\ Len(images) \in Nat /\ t \in Exts
  BY PackageAssumption, LenProperties DEF ImageIds, Formats, Exts, Types
<1>2. b = Picture("dummycover", BinName(Len(images), t), t)
  BY DEF DefaultCover
<1> HIDE DEF b, t
<1>3. /\ b \in Image /\ b.id = "dummycover" /\ b.name = BinName(Len(images), t)
      /\ b.type = t
  BY <1>1, <1>2, NewPicture
<1> QED BY <1>3 DEF b, t

(* The cover may be changed in its place. *)
LEMMA ImagesFromCover ==
  ASSUME Types, NEW tall \in BOOLEAN, NEW titled \in BOOLEAN, GenerateCover(tall, titled)
  PROVE  /\ images' \in Seq(Image) /\ Len(images') = Len(images)
         /\ \A i \in 1..Len(images) :
              /\ images'[i].id = images[i].id /\ images'[i].name = images[i].name
              /\ images'[i].type = images[i].type /\ images'[i].decoded = images[i].decoded
              /\ (images[i].jpeg => images'[i].jpeg)
<1>1. images \in Seq(Image) /\ Len(images) \in Nat /\ DOMAIN images = 1..Len(images)
  BY LenProperties DEF Types
<1>2. \A i \in 1..Len(images) : images[i] \in Image
  BY <1>1, ElementOfSeq
<1> DEFINE j == WithId(cover)
<1>3. j # 0 => j \in 1..Len(images)
  BY WithIdFinds
<1> HIDE DEF j
<1>4. \/ images' = images
      \/ j # 0 /\ images' = [images EXCEPT ![j] = Stamped(Resized(@, tall), titled)]
  BY DEF GenerateCover, j
<1>5. CASE images' = images
  BY <1>1, <1>5
<1>6. CASE j # 0 /\ images' = [images EXCEPT ![j] = Stamped(Resized(@, tall), titled)]
  <2> DEFINE c == Stamped(Resized(images[j], tall), titled)
  <2>1. /\ c \in Image /\ c.id = images[j].id /\ c.name = images[j].name
        /\ c.type = images[j].type /\ c.decoded = images[j].decoded
        /\ (images[j].jpeg => c.jpeg)
    <3>1. images[j] \in Image
      BY <1>2, <1>3, <1>6
    <3> QED BY <3>1, StyledIsImage
  <2>2. images' = [images EXCEPT ![j] = c]
    BY <1>6
  <2> HIDE DEF c
  <2>3. images' \in [1..Len(images) -> Image]
    <3>1. images \in [1..Len(images) -> Image]
      BY <1>1, LenProperties
    <3> QED BY <2>1, <2>2, <3>1
  <2>4. images' \in Seq(Image) /\ Len(images') = Len(images)
    BY <1>1, <2>3, FunctionIsSeq
  <2>5. \A i \in 1..Len(images) : images'[i] = IF i = j THEN c ELSE images[i]
    BY <1>1, <2>2
  <2> QED BY <2>1, <2>4, <2>5
<1> QED BY <1>4, <1>5, <1>6

LEMMA ImagesFromFlush ==
  ASSUME Types, NEW late \in BOOLEAN, FlushAll(late)
  PROVE  /\ images' \in Seq(Image) /\ Len(images') = Len(images)
         /\ \A i \in 1..Len(images) :
              images[i] \in Image /\ images'[i] = Flushed(images[i])
<1>1. images \in Seq(Image) /\ Len(images) \in Nat /\ DOMAIN images = 1..Len(images)
  BY LenProperties DEF Types
<1>2. \A i \in 1..Len(images) : images[i] \in Image
  BY <1>1, ElementOfSeq
<1>3. \A b \in Image : Flushed(b) \in Image
  BY DEF Flushed, Image, Exts
<1>4. images' = [i \in 1..Len(images) |-> Flushed(images[i])]
  BY <1>1 DEF FlushAll
<1>5. images' \in [1..Len(images) -> Image]
  BY <1>2, <1>3, <1>4
<1>6. images' \in Seq(Image) /\ Len(images') = Len(images)
  BY <1>1, <1>5, FunctionIsSeq
<1> QED BY <1>2, <1>4, <1>6

-----------------------------------------------------------------------------
LEMMA FileIsPage ==
  ASSUME NEW kind \in Kinds, NEW n \in Nat, NEW pages \in Nat,
         NEW f, f = File(kind, n, pages)
  PROVE  /\ f \in Page /\ f.kind = kind /\ f.number = n /\ f.pages = pages
         /\ f.spine = (kind \notin {"ncx", "page-map", "opf"}) /\ f.manifest = (kind # "opf")
BY DEF File, Page, Kinds

(* One file more, behind the others or, a TOC page or the cover, in front  *)
(* of them; or all as they were, but for the columns of a KEPUB.           *)
FilesFrom ==
    \/ files' = files
    \/ \E kind \in Kinds, n \in Nat, pages \in Nat :
         files' = Append(files, File(kind, n, pages)) \/ files' = <<File(kind, n, pages)>> \o files
    \/ /\ step = "meta"
       /\ files' = [i \in DOMAIN files |-> [files[i] EXCEPT !.kobo = files[i].spine]]

LEMMA FilesChange ==
  ASSUME Types, [Next]_vars
  PROVE  FilesFrom
<1>1. /\ {"index", "annotation", "toc", "cover", "ncx", "page-map", "opf"} \subseteq Kinds
      /\ Len(files) + 1 \in Nat /\ 0 \in Nat /\ 0..1 \subseteq Nat
  BY LenProperties DEF Kinds, Types
<1>2. ASSUME NEW kind \in {"index", "annotation"}, NEW pages \in 0..1, NEW titled \in BOOLEAN,
             NextFile(kind, pages, titled)
      PROVE  FilesFrom
  BY <1>1, <1>2 DEF NextFile, FilesFrom
<1>3. CASE GenerateTOCPage
  <2> DEFINE page == File("toc", 0, 0)
  <2>1. opt.toc \in {"none", "before", "after"} /\ tocEntries \in Nat
    BY PackageAssumption DEF Types
  <2>2. files' = files \/ files' = <<page>> \o files \/ files' = Append(files, page)
    <3>1. files' = CASE opt.toc = "none" \/ tocEntries = 0 -> files
                     [] opt.toc = "before" /\ tocEntries > 0 -> <<page>> \o files
                     [] opt.toc = "after" /\ tocEntries > 0 -> Append(files, page)
      BY <1>3 DEF GenerateTOCPage
    <3> HIDE DEF page
    <3>2. CASE opt.toc = "none" \/ tocEntries = 0
      BY <3>1, <3>2
    <3>3. CASE opt.toc = "before" /\ tocEntries > 0
      BY <2>1, <3>1, <3>3
    <3>4. CASE opt.toc = "after" /\ tocEntries > 0
      BY <2>1, <3>1, <3>4
    <3> QED BY <2>1, <3>2, <3>3, <3>4
  <2> QED BY <1>1, <2>2 DEF FilesFrom
<1>4. ASSUME NEW tall \in BOOLEAN, NEW titled \in BOOLEAN, GenerateCover(tall, titled)
      PROVE  FilesFrom
  BY <1>1, <1>4 DEF GenerateCover, FilesFrom
<1>5. CASE GenerateNCX \/ GeneratePagemap \/ GenerateOPF
  BY <1>1, <1>5 DEF GenerateNCX, GeneratePagemap, GenerateOPF, FilesFrom
<1>6. CASE KepubifyXHTML
  BY <1>6 DEF KepubifyXHTML, FilesFrom, Goes
<1>7. CASE \/ \E kind \in BinaryKinds, id \in Ids : ProcessBinary(kind, id)
           \/ StartText
           \/ \E id \in Ids : TransferImage(id)
           \/ \E v \in Vignettes : UseVignette(v)
           \/ EndText \/ ProcessImages \/ PrepareStylesheet
           \/ \E late \in BOOLEAN : FlushAll(late)
           \/ UNCHANGED vars
  BY <1>7 DEF ProcessBinary, StartText, TransferImage, UseVignette, EndText, ProcessImages,
              PrepareStylesheet, FlushAll, vars, FilesFrom
<1> QED BY <1>2, <1>3, <1>4, <1>5, <1>6, <1>7 DEF Next

LEMMA FilesAreTyped ==
  ASSUME Types, FilesFrom
  PROVE  files' \in Seq(Page)
<1>1. files \in Seq(Page) /\ DOMAIN files = 1..Len(files) /\ Len(files) \in Nat
  BY LenProperties DEF Types
<1>2. ASSUME NEW kind \in Kinds, NEW n \in Nat, NEW pages \in Nat, NEW f,
             f = File(kind, n, pages), files' = Append(files, f) \/ files' = <<f>> \o files
      PROVE  files' \in Seq(Page)
  <2>1. f \in Page
    BY <1>2, FileIsPage
  <2>2. Append(files, f) \in Seq(Page) /\ <<f>> \o files \in Seq(Page)
    BY <1>1, <2>1, AppendHas, PrependHas
  <2> QED BY <1>2, <2>2
<1>3. CASE files' = [i \in DOMAIN files |-> [files[i] EXCEPT !.kobo = files[i].spine]]
  <2>1. \A f \in Page : [f EXCEPT !.kobo = f.spine] \in Page
    BY DEF Page
  <2>2. \A i \in 1..Len(files) : files[i] \in Page
    BY <1>1, ElementOfSeq
  <2>3. files' \in [1..Len(files) -> Page]
    BY <1>1, <1>3, <2>1, <2>2
  <2> QED BY <1>1, <2>3, FunctionIsSeq
<1> QED BY <1>1, <1>2, <1>3 DEF FilesFrom

(* One image more, the ones left when there is a cover, or each in its     *)
(* place.                                                                  *)
Grows(b) == images' = Append(images, b) /\ b \in Image

LEMMA ImagesAreTyped ==
  ASSUME Types, [Next]_vars
  PROVE  images' \in Seq(Image)
<1>1. images \in Seq(Image)
  BY DEF Types
<1>2. ASSUME NEW b, Grows(b)
      PROVE  images' \in Seq(Image)
  BY <1>1, <1>2, AppendHas DEF Grows
<1>3. ASSUME NEW kind \in BinaryKinds, NEW id \in Ids, ProcessBinary(kind, id)
      PROVE  images' = images \/ \E b : Grows(b)
  BY <1>3, NewBinary DEF Grows
<1>4. ASSUME NEW id \in Ids, TransferImage(id)
      PROVE  images' = images \/ \E b : Grows(b)
  BY <1>4, ImagesFromText DEF Grows
<1>5. ASSUME ProcessImages
      PROVE  images' = images \/ images' = FirstCover(cover) \/ \E b : Grows(b)
  BY <1>5, DefaultIsImage DEF Grows, ProcessImages
<1>6. ASSUME NEW tall \in BOOLEAN, NEW titled \in BOOLEAN, GenerateCover(tall, titled)
      PROVE  images' \in Seq(Image)
  BY <1>6, ImagesFromCover
<1>7. ASSUME NEW late \in BOOLEAN, FlushAll(late)
      PROVE  images' \in Seq(Image)
  BY <1>7, ImagesFromFlush
<1>8. CASE \/ StartText
           \/ \E kind \in {"index", "annotation"}, pages \in 0..1, titled \in BOOLEAN :
                 NextFile(kind, pages, titled)
           \/ \E v \in Vignettes : UseVignette(v)
           \/ EndText \/ GenerateTOCPage \/ GenerateNCX \/ PrepareStylesheet \/ GeneratePagemap
           \/ GenerateOPF \/ KepubifyXHTML \/ UNCHANGED vars
  BY <1>1, <1>8 DEF StartText, NextFile, UseVignette, EndText, GenerateTOCPage, GenerateNCX,
                    PrepareStylesheet, GeneratePagemap, GenerateOPF, KepubifyXHTML, vars
<1>9. FirstCover(cover) \in Seq(Image)
  BY CoverLeaves
<1> QED BY <1>1, <1>2, <1>3, <1>4, <1>5, <1>6, <1>7, <1>8, <1>9 DEF Next

LEMMA DataAreTyped ==
  ASSUME Types, [Next]_vars
  PROVE  data' \in Seq(DataPath)
<1>1. data \in Seq(DataPath)
  BY DEF Types
<1>2. CASE PrepareStylesheet
  <2> DEFINE d == [i \in DOMAIN opt.urls |-> Resource(opt.urls[i])]
             s == In("", <<"style", 0>>)
  <2>1. opt.urls \in Seq(STRING \X STRING)
    BY PackageAssumption DEF Types
  <2>2. /\ DOMAIN opt.urls = 1..Len(opt.urls) /\ Len(opt.urls) \in Nat
        /\ \A i \in 1..Len(opt.urls) : opt.urls[i] \in STRING \X STRING
    BY <2>1, ElementOfSeq, LenProperties
  <2>3. \A u \in STRING \X STRING : Resource(u) \in DataPath
    BY DEF Resource, DataPath
  <2>4. d \in [1..Len(opt.urls) -> DataPath]
    BY <2>2, <2>3
  <2>5. d \in Seq(DataPath)
    <3> HIDE DEF d
    <3> QED BY <2>2, <2>4, FunctionIsSeq
  <2>6. s \in DataPath
    BY DEF DataPath
  <2>7. data' = <<s>> \o d
    BY <1>2 DEF PrepareStylesheet
  <2> HIDE DEF d, s
  <2> QED BY <2>5, <2>6, <2>7, PrependHas
<1>3. CASE data' = data
  BY <1>1, <1>3
<1>4. data' = data \/ PrepareStylesheet
  BY DEF Next, vars, ProcessBinary, StartText, NextFile, TransferImage, UseVignette, EndText,
         ProcessImages, GenerateTOCPage, GenerateCover, GenerateNCX, GeneratePagemap, GenerateOPF,
         KepubifyXHTML, FlushAll
<1> QED BY <1>2, <1>3, <1>4

LEMMA VignettesAreTyped ==
  ASSUME Types, [Next]_vars
  PROVE  vignettes' \in Seq(Vignettes)
<1>1. vignettes \in Seq(Vignettes)
  BY DEF Types
<1>2. vignettes' = vignettes \/ \E v \in Vignettes : vignettes' = Append(vignettes, v)
  BY DEF Next, vars, ProcessBinary, StartText, NextFile, TransferImage, UseVignette, EndText,
         ProcessImages, GenerateTOCPage, GenerateCover, GenerateNCX, PrepareStylesheet,
         GeneratePagemap, GenerateOPF, KepubifyXHTML, FlushAll
<1> QED BY <1>1, <1>2, AppendHas

LEMMA TypesKept ==
  ASSUME Types, [Next]_vars
  PROVE  Types'
<1>1. opt' \in Settings /\ step' \in Steps
  BY DEF Types, Steps, Goes, Next, vars, ProcessBinary, StartText, NextFile, TransferImage,
         UseVignette, EndText, ProcessImages, GenerateTOCPage, GenerateCover, GenerateNCX,
         PrepareStylesheet, GeneratePagemap, GenerateOPF, KepubifyXHTML, FlushAll
<1>2. bins' \in Nat
  <2>1. bins' = bins \/ bins' = bins + 1
    BY DEF Next, vars, ProcessBinary, StartText, NextFile, TransferImage, UseVignette, EndText,
           ProcessImages, GenerateTOCPage, GenerateCover, GenerateNCX, PrepareStylesheet,
           GeneratePagemap, GenerateOPF, KepubifyXHTML, FlushAll
  <2> QED BY <2>1 DEF Types
<1>3. cover' \in ImageIds \union {None}
  BY DEF Types, ImageIds, Next, vars, ProcessBinary, StartText, NextFile, TransferImage, UseVignette,
         EndText, ProcessImages, GenerateTOCPage, GenerateCover, GenerateNCX, PrepareStylesheet,
         GeneratePagemap, GenerateOPF, KepubifyXHTML, FlushAll
<1>4. tocEntries' \in Nat
  <2>1. tocEntries' = tocEntries \/ \E titled \in BOOLEAN :
                                      tocEntries' = tocEntries + (IF titled THEN 1 ELSE 0)
    BY DEF Next, vars, ProcessBinary, StartText, NextFile, TransferImage, UseVignette, EndText,
           ProcessImages, GenerateTOCPage, GenerateCover, GenerateNCX, PrepareStylesheet,
           GeneratePagemap, GenerateOPF, KepubifyXHTML, FlushAll
  <2> QED BY <2>1 DEF Types
<1>5. files' \in Seq(Page)
  BY FilesChange, FilesAreTyped
<1> QED BY <1>1, <1>2, <1>3, <1>4, <1>5, ImagesAreTyped, DataAreTyped, VignettesAreTyped DEF Types

LEMMA TypesFirst == Init => Types
<1>1. \A S : <<>> \in Seq(S)
  BY EmptySeq
<1> QED BY <1>1 DEF Init, Types, Steps, ImageIds

-----------------------------------------------------------------------------
(* What is in the manifest. *)
ImageItem(i) ==
    ManifestItem(IF images[i].id = cover THEN <<"book-cover-image", 0>> ELSE <<"image", i>>,
                 ImagePath(images[i]))
VignetteItem(i) == ManifestItem(<<"vignette", i>>, In("vignettes", vignettes[i][2]))
DataItem(i) == ManifestItem(<<"data", i>>, data[i])
FileItem(f) == ManifestItem(<<f.kind, f.number>>, Href(f))

ItemKinds == Kinds \union {"book-cover-image", "image", "vignette", "data"}
ItemPaths == {In("", f) : f \in Kinds \X Nat}
               \union {In("images", n) : n \in {"bin"} \X Nat \X Exts}
               \union {In("vignettes", v[2]) : v \in Vignettes} \union DataPath
Items == [id : ItemKinds \X Nat, path : ItemPaths]

LEMMA PathsOfItems ==
  /\ \A kind \in Kinds, n \in Nat : In("", <<kind, n>>) \in ItemPaths
  /\ \A n \in {"bin"} \X Nat \X Exts : In("images", n) \in ItemPaths
  /\ \A v \in Vignettes : In("vignettes", v[2]) \in ItemPaths
  /\ \A p \in DataPath : p \in ItemPaths
<1> DEFINE A == {In("", f) : f \in Kinds \X Nat}
           B == {In("images", n) : n \in {"bin"} \X Nat \X Exts}
           C == {In("vignettes", v[2]) : v \in Vignettes}
<1>1. ItemPaths = A \union B \union C \union DataPath
  BY DEF ItemPaths
<1>2. \A kind \in Kinds, n \in Nat : In("", <<kind, n>>) \in A
  <2> TAKE kind \in Kinds, n \in Nat
  <2>1. <<kind, n>> \in Kinds \X Nat
    OBVIOUS
  <2> QED BY <2>1
<1>3. \A n \in {"bin"} \X Nat \X Exts : In("images", n) \in B
  OBVIOUS
<1>4. \A v \in Vignettes : In("vignettes", v[2]) \in C
  OBVIOUS
<1> HIDE DEF A, B, C
<1> QED BY <1>1, <1>2, <1>3, <1>4

LEMMA ItemIsItem ==
  ASSUME NEW kind \in ItemKinds, NEW n \in Nat, NEW path \in ItemPaths
  PROVE  ManifestItem(<<kind, n>>, path) \in Items
BY DEF ManifestItem, Items

ImageItems == [i \in DOMAIN images |-> ImageItem(i)]
VignetteItems == [i \in DOMAIN vignettes |-> VignetteItem(i)]
DataItems == [i \in DOMAIN data |-> DataItem(i)]

LEMMA FilesListed ==
  ASSUME NEW fs \in Seq(Page)
  PROVE  /\ ManifestFiles(fs) \in Seq(Items)
         /\ \A m : m \in ToSet(ManifestFiles(fs)) <=>
                     \E i \in 1..Len(fs) : fs[i].manifest /\ m = FileItem(fs[i])
         /\ \A m \in ToSet(ManifestFiles(fs)) : m.id[1] \in Kinds
<1> DEFINE at == {i \in DOMAIN fs : fs[i].manifest}
           o == Only(fs, at)
           items == ManifestFiles(fs)
<1>1. /\ o \in Seq(Page)
      /\ \A x : x \in ToSet(o) <=> \E i \in 1..Len(fs) : i \in at /\ x = fs[i]
  <2> HIDE DEF at
  <2> QED BY OnlyHas
<1>2. items = [i \in DOMAIN o |-> FileItem(o[i])]
  BY DEF ManifestFiles, FileItem
<1>3. DOMAIN fs = 1..Len(fs)
  OBVIOUS
<1> HIDE DEF o, items
<1>4. Len(o) \in Nat /\ DOMAIN o = 1..Len(o) /\ \A i \in 1..Len(o) : o[i] \in Page
  BY <1>1, ElementOfSeq, LenProperties
<1>5. \A f \in Page : FileItem(f) \in Items /\ FileItem(f).id[1] \in Kinds
  <2> TAKE f \in Page
  <2>1. f.kind \in Kinds /\ f.number \in Nat
    BY DEF Page
  <2>2. f.kind \in ItemKinds /\ Href(f) \in ItemPaths
    BY <2>1, PathsOfItems DEF ItemKinds, Href
  <2>3. FileItem(f) \in Items
    BY <2>1, <2>2, ItemIsItem DEF FileItem
  <2> QED BY <2>1, <2>3 DEF FileItem, ManifestItem
<1>6. items \in Seq(Items) /\ Len(items) = Len(o) /\ ToSet(items) = {items[i] : i \in 1..Len(o)}
  <2>1. DOMAIN items = 1..Len(o) /\ \A i \in 1..Len(o) : items[i] = FileItem(o[i])
    BY <1>2, <1>4
  <2>2. \A i \in 1..Len(o) : items[i] \in Items
    BY <1>4, <1>5, <2>1
  <2>3. items \in [1..Len(o) -> Items]
    BY <1>2, <1>4, <2>2
  <2>4. items \in Seq(Items) /\ Len(items) = Len(o)
    BY <1>4, <2>3, FunctionIsSeq
  <2> QED BY <2>1, <2>4 DEF ToSet
<1>7. \A m : m \in ToSet(items) <=> \E i \in 1..Len(o) : m = FileItem(o[i])
  <2>1. \A i \in 1..Len(o) : items[i] = FileItem(o[i])
    BY <1>2, <1>4
  <2> QED BY <1>6, <2>1
<1>8. \A m : m \in ToSet(items) <=> \E f \in ToSet(o) : m = FileItem(f)
  BY <1>4, <1>7 DEF ToSet
<1>9. \A m : m \in ToSet(items) <=> \E i \in 1..Len(fs) : fs[i].manifest /\ m = FileItem(fs[i])
  BY <1>1, <1>3, <1>8
<1>10. \A m \in ToSet(items) : m.id[1] \in Kinds
  BY <1>4, <1>5, <1>7
<1> QED BY <1>6, <1>9, <1>10 DEF items

LEMMA OthersListed ==
  ASSUME Types
  PROVE  /\ ImageItems \in Seq(Items) /\ Len(ImageItems) = Len(images)
         /\ \A i \in 1..Len(images) : ImageItems[i] = ImageItem(i)
         /\ VignetteItems \in Seq(Items) /\ Len(VignetteItems) = Len(vignettes)
         /\ \A i \in 1..Len(vignettes) : VignetteItems[i] = VignetteItem(i)
         /\ DataItems \in Seq(Items) /\ Len(DataItems) = Len(data)
         /\ \A i \in 1..Len(data) : DataItems[i] = DataItem(i)
<1>1. /\ images \in Seq(Image) /\ DOMAIN images = 1..Len(images) /\ Len(images) \in Nat
      /\ vignettes \in Seq(Vignettes) /\ DOMAIN vignettes = 1..Len(vignettes)
      /\ Len(vignettes) \in Nat
      /\ data \in Seq(DataPath) /\ DOMAIN data = 1..Len(data) /\ Len(data) \in Nat
  BY LenProperties DEF Types
<1>2. /\ \A i \in 1..Len(images) : images[i] \in Image
      /\ \A i \in 1..Len(vignettes) : vignettes[i] \in Vignettes
      /\ \A i \in 1..Len(data) : data[i] \in DataPath
  BY <1>1, ElementOfSeq
<1>3. \A i \in 1..Len(images) : ImageItem(i) \in Items
  <2> TAKE i \in 1..Len(images)
  <2>1. images[i].name \in {"bin"} \X Nat \X Exts
    BY <1>2 DEF Image
  <2>2. ImagePath(images[i]) \in ItemPaths
    BY <2>1, PathsOfItems DEF ImagePath
  <2>3. /\ "book-cover-image" \in ItemKinds /\ "image" \in ItemKinds
        /\ i \in Nat /\ 0 \in Nat
    BY <1>1 DEF ItemKinds
  <2> QED BY <2>2, <2>3, ItemIsItem DEF ImageItem
<1>4. \A i \in 1..Len(vignettes) : VignetteItem(i) \in Items
  <2> TAKE i \in 1..Len(vignettes)
  <2>1. In("vignettes", vignettes[i][2]) \in ItemPaths
    <3> DEFINE v == vignettes[i]
    <3>1. v \in Vignettes
      BY <1>2
    <3> HIDE DEF v
    <3>2. In("vignettes", v[2]) \in ItemPaths
      BY <3>1, PathsOfItems
    <3> QED BY <3>2 DEF v
  <2>2. "vignette" \in ItemKinds /\ i \in Nat
    BY <1>1 DEF ItemKinds
  <2> QED BY <2>1, <2>2, ItemIsItem DEF VignetteItem
<1>5. \A i \in 1..Len(data) : DataItem(i) \in Items
  <2> TAKE i \in 1..Len(data)
  <2>1. data[i] \in DataPath
    BY <1>2
  <2>2. data[i] \in ItemPaths
    BY <2>1, PathsOfItems
  <2>3. "data" \in ItemKinds /\ i \in Nat
    BY <1>1 DEF ItemKinds
  <2> QED BY <2>2, <2>3, ItemIsItem DEF DataItem
<1>6. ImageItems \in [1..Len(images) -> Items]
  BY <1>1, <1>3 DEF ImageItems
<1>7. VignetteItems \in [1..Len(vignettes) -> Items]
  BY <1>1, <1>4 DEF VignetteItems
<1>8. DataItems \in [1..Len(data) -> Items]
  BY <1>1, <1>5 DEF DataItems
<1>9. /\ \A i \in 1..Len(images) : ImageItems[i] = ImageItem(i)
      /\ \A i \in 1..Len(vignettes) : VignetteItems[i] = VignetteItem(i)
      /\ \A i \in 1..Len(data) : DataItems[i] = DataItem(i)
  BY <1>1 DEF ImageItems, VignetteItems, DataItems
<1> QED BY <1>1, <1>6, <1>7, <1>8, <1>9, FunctionIsSeq

LEMMA ManifestHas ==
  ASSUME Types, NEW fs \in Seq(Page)
  PROVE  /\ Manifest(fs) \in Seq(Items)
         /\ \A m : m \in ToSet(Manifest(fs)) <=>
                     \/ \E i \in 1..Len(fs) : fs[i].manifest /\ m = FileItem(fs[i])
                     \/ \E i \in 1..Len(images) : m = ImageItem(i)
                     \/ \E i \in 1..Len(vignettes) : m = VignetteItem(i)
                     \/ \E i \in 1..Len(data) : m = DataItem(i)
<1> DEFINE a == ManifestFiles(fs)
           b == ImageItems
           c == VignetteItems
           d == DataItems
<1>1. Manifest(fs) = ((a \o b) \o c) \o d
  BY DEF Manifest, ImageItems, VignetteItems, DataItems, ImageItem, VignetteItem, DataItem
<1>2. a \in Seq(Items) /\ b \in Seq(Items) /\ c \in Seq(Items) /\ d \in Seq(Items)
  BY FilesListed, OthersListed
<1>3. \A m : m \in ToSet(a) <=> \E i \in 1..Len(fs) : fs[i].manifest /\ m = FileItem(fs[i])
  BY FilesListed
<1>4. /\ \A m : m \in ToSet(b) <=> \E i \in 1..Len(images) : m = ImageItem(i)
      /\ \A m : m \in ToSet(c) <=> \E i \in 1..Len(vignettes) : m = VignetteItem(i)
      /\ \A m : m \in ToSet(d) <=> \E i \in 1..Len(data) : m = DataItem(i)
  <2>1. DOMAIN b = 1..Len(images) /\ DOMAIN c = 1..Len(vignettes) /\ DOMAIN d = 1..Len(data)
    BY OthersListed, LenProperties
  <2> HIDE DEF b, c, d
  <2>2. /\ \A i \in 1..Len(images) : b[i] = ImageItem(i)
        /\ \A i \in 1..Len(vignettes) : c[i] = VignetteItem(i)
        /\ \A i \in 1..Len(data) : d[i] = DataItem(i)
    BY OthersListed DEF b, c, d
  <2> QED BY <2>1, <2>2 DEF ToSet
<1> HIDE DEF a, b, c, d
<1> DEFINE ab == a \o b
<1>5. ab \in Seq(Items) /\ ToSet(ab) = ToSet(a) \union ToSet(b)
  BY <1>2, ConcatHas, ConcatProperties
<1> HIDE DEF ab
<1> DEFINE abc == ab \o c
<1>6. abc \in Seq(Items) /\ ToSet(abc) = ToSet(ab) \union ToSet(c)
  BY <1>2, <1>5, ConcatHas, ConcatProperties
<1> HIDE DEF abc
<1>7. abc \o d \in Seq(Items) /\ ToSet(abc \o d) = ToSet(abc) \union ToSet(d)
  BY <1>2, <1>6, ConcatHas, ConcatProperties
<1>8. Manifest(fs) = abc \o d
  BY <1>1 DEF ab, abc
<1> QED BY <1>3, <1>4, <1>5, <1>6, <1>7, <1>8

-----------------------------------------------------------------------------
(* The ids that Process gives to pictures of its own, and no cover.        *)
OwnIds == Ids \intersect {None, "notfound", "dummycover"} = {}

Early == {"binaries", "text", "images"}
Fronted == {"ncx", "stylesheet", "pagemap", "opf", "meta", "flush", "done"}
Listed == {"meta", "flush", "done"}

(* The cover is one of the book, until there may be one made for it.       *)
CoverKnown ==
    step \in Early => /\ cover \in Ids \union {None}
                      /\ \A i \in 1..Len(images) : images[i].id # "dummycover"

(* Of the images that could be the cover one is left. *)
CoverAlone ==
    step \notin Early /\ cover # None =>
      \A i, j \in 1..Len(images) : images[i].id = cover /\ images[j].id = cover => i = j

(* What is the cover is there, and so is its page, in front.               *)
CoverThere ==
    step \in Fronted /\ cover # None =>
      /\ \E i \in 1..Len(images) : images[i].id = cover
      /\ ~Kindle => files # <<>> /\ files[1].kind = "cover" /\ files[1].number = 0

CoverMarked ==
    LET marked == {m \in ToSet(opf.manifest) : m.id = <<"book-cover-image", 0>>}
    IN  /\ Cardinality(marked) = IF cover = None THEN 0 ELSE 1
        /\ cover # None /\ ~Kindle => Head(opf.spine) = <<"cover", 0>>

CoverListed == step \in Listed => CoverMarked

CoverInvariant == Types /\ CoverKnown /\ CoverAlone /\ CoverThere /\ CoverListed

(* Once the cover is chosen the images keep their places and ids.          *)
LEMMA IdsKept ==
  ASSUME Types, [Next]_vars, step \notin Early
  PROVE  /\ Len(images') = Len(images)
         /\ \A i \in 1..Len(images) : images'[i].id = images[i].id
         /\ cover' \in {cover, None} /\ step' \notin Early
         /\ (step \in Fronted => cover' = cover /\ step' \in Fronted)
<1>1. ASSUME NEW tall \in BOOLEAN, NEW titled \in BOOLEAN, GenerateCover(tall, titled)
      PROVE  /\ Len(images') = Len(images)
             /\ \A i \in 1..Len(images) : images'[i].id = images[i].id
             /\ cover' \in {cover, None} /\ step' \notin Early /\ step \notin Fronted
  <2>1. /\ Len(images') = Len(images)
        /\ \A i \in 1..Len(images) : images'[i].id = images[i].id
    BY <1>1, ImagesFromCover
  <2>2. cover' \in {cover, None} /\ step' \notin Early /\ step \notin Fronted
    BY <1>1 DEF GenerateCover, Goes, Early, Fronted
  <2> QED BY <2>1, <2>2
<1>2. ASSUME NEW late \in BOOLEAN, FlushAll(late)
      PROVE  /\ Len(images') = Len(images)
             /\ \A i \in 1..Len(images) : images'[i].id = images[i].id
             /\ cover' = cover /\ step' \notin Early /\ step' \in Fronted
  <2>1. /\ Len(images') = Len(images)
        /\ \A i \in 1..Len(images) : images[i] \in Image /\ images'[i] = Flushed(images[i])
    BY <1>2, ImagesFromFlush
  <2>2. \A b \in Image : Flushed(b).id = b.id
    BY DEF Flushed, Image
  <2>3. cover' = cover /\ step' \notin Early /\ step' \in Fronted
    BY <1>2 DEF FlushAll, Goes, Early, Fronted
  <2> QED BY <2>1, <2>2, <2>3
<1>3. CASE \/ GenerateTOCPage \/ GenerateNCX \/ PrepareStylesheet \/ GeneratePagemap
           \/ GenerateOPF \/ KepubifyXHTML \/ UNCHANGED vars
  <2>1. images' = images /\ cover' = cover
    BY <1>3 DEF GenerateTOCPage, GenerateNCX, PrepareStylesheet, GeneratePagemap, GenerateOPF,
                KepubifyXHTML, vars
  <2>2. step' \notin Early /\ (step \in Fronted => step' \in Fronted)
    BY <1>3 DEF GenerateTOCPage, GenerateNCX, PrepareStylesheet, GeneratePagemap, GenerateOPF,
                KepubifyXHTML, vars, Goes, Early, Fronted
  <2> QED BY <2>1, <2>2
<1>4. CASE \/ \E kind \in BinaryKinds, id \in Ids : ProcessBinary(kind, id)
           \/ StartText
           \/ \E kind \in {"index", "annotation"}, pages \in 0..1, titled \in BOOLEAN :
                NextFile(kind, pages, titled)
           \/ \E id \in Ids : TransferImage(id)
           \/ \E v \in Vignettes : UseVignette(v)
           \/ EndText \/ ProcessImages
  <2>1. FALSE
    BY <1>4 DEF ProcessBinary, StartText, NextFile, TransferImage, UseVignette, EndText,
                ProcessImages, Goes, Early
  <2> QED BY <2>1
<1> QED BY <1>1, <1>2, <1>3, <1>4 DEF Next

(* From then on nothing comes in front of the files. *)
LEMMA FrontKept ==
  ASSUME Types, [Next]_vars, step \in Fronted, files # <<>>
  PROVE  files' # <<>> /\ files'[1].kind = files[1].kind /\ files'[1].number = files[1].number
<1>1. files \in Seq(Page) /\ DOMAIN files = 1..Len(files) /\ Len(files) \in Nat /\ 1 \in 1..Len(files)
  BY EmptySeq, LenProperties DEF Types
<1>2. \/ files' = files
      \/ \E kind \in Kinds : files' = Append(files, File(kind, 0, 0))
      \/ files' = [i \in DOMAIN files |-> [files[i] EXCEPT !.kobo = files[i].spine]]
  BY DEF Kinds, Fronted, Goes, Next, vars, ProcessBinary, StartText, NextFile, TransferImage,
         UseVignette, EndText, ProcessImages, GenerateTOCPage, GenerateCover, GenerateNCX,
         PrepareStylesheet, GeneratePagemap, GenerateOPF, KepubifyXHTML, FlushAll
<1>3. ASSUME NEW kind \in Kinds, files' = Append(files, File(kind, 0, 0))
      PROVE  files' # <<>> /\ files'[1] = files[1]
  <2> DEFINE f == File(kind, 0, 0)
  <2>1. f \in Page
    BY FileIsPage
  <2> HIDE DEF f
  <2>2. files' = Append(files, f)
    BY <1>3 DEF f
  <2>3. files' \in Seq(Page) /\ Len(files') = Len(files) + 1 /\ files'[1] = files[1]
    BY <1>1, <2>1, <2>2, AppendHas
  <2> QED BY <1>1, <2>3, EmptySeq
<1>4. CASE files' = [i \in DOMAIN files |-> [files[i] EXCEPT !.kobo = files[i].spine]]
  <2>1. files'[1] = [files[1] EXCEPT !.kobo = files[1].spine] /\ DOMAIN files' = 1..Len(files)
    BY <1>1, <1>4
  <2>2. files[1] \in Page
    BY <1>1, ElementOfSeq
  <2>3. files'[1].kind = files[1].kind /\ files'[1].number = files[1].number
    BY <2>1, <2>2 DEF Page
  <2>4. files' # <<>>
    BY <1>1, <2>1
  <2> QED BY <2>3, <2>4
<1> QED BY <1>2, <1>3, <1>4

LEMMA KnownKept ==
  ASSUME OwnIds, CoverInvariant, [Next]_vars
  PROVE  CoverKnown'
<1> DEFINE fit == \A i \in 1..Len(images) : images[i].id # "dummycover"
           fits == \A i \in 1..Len(images') : images'[i].id # "dummycover"
<1>1. SUFFICES ASSUME step' \in Early
               PROVE  cover' \in Ids \union {None} /\ fits
  BY DEF CoverKnown
<1>2. /\ Types /\ images \in Seq(Image) /\ Len(images) \in Nat
  BY LenProperties DEF CoverInvariant, Types
<1>3. \/ \E kind \in BinaryKinds, id \in Ids : ProcessBinary(kind, id)
      \/ \E id \in Ids : TransferImage(id)
      \/ images' = images /\ cover' = cover /\ step \in Early
  BY <1>1 DEF Early, Goes, Next, vars, StartText, NextFile, UseVignette, EndText, ProcessImages,
              GenerateTOCPage, GenerateCover, GenerateNCX, PrepareStylesheet, GeneratePagemap,
              GenerateOPF, KepubifyXHTML, FlushAll
<1>4. ASSUME NEW b \in Image, images' = Append(images, b), b.id # "dummycover", fit
      PROVE  fits
  <2>1. /\ Len(images') = Len(images) + 1 /\ images'[Len(images) + 1] = b
        /\ \A i \in 1..Len(images) : images'[i] = images[i]
    BY <1>2, <1>4, AppendHas
  <2> QED BY <1>2, <1>4, <2>1
<1>5. ASSUME NEW kind \in BinaryKinds, NEW id \in Ids, ProcessBinary(kind, id)
      PROVE  cover' = cover /\ step \in Early /\ (fit => fits)
  <2>1. cover' = cover /\ step \in Early
    BY <1>5 DEF ProcessBinary, Goes, Early
  <2>2. \/ images' = images
        \/ \E b \in Image : images' = Append(images, b) /\ b.id = id
    BY <1>2, <1>5, NewBinary
  <2>3. id # "dummycover"
    BY DEF OwnIds
  <2> HIDE DEF fits, fit
  <2>4. images' = images => (fit => fits)
    BY DEF fit, fits
  <2> QED BY <1>4, <2>1, <2>2, <2>3, <2>4
<1>6. ASSUME NEW id \in Ids, TransferImage(id)
      PROVE  cover' = cover /\ step \in Early /\ (fit => fits)
  <2>1. cover' = cover /\ step \in Early
    BY <1>6 DEF TransferImage, Goes, Early
  <2>2. \/ images' = images
        \/ \E b \in Image : images' = Append(images, b) /\ b.id = "notfound"
    BY <1>2, <1>6, ImagesFromText
  <2> HIDE DEF fits, fit
  <2>3. images' = images => (fit => fits)
    BY DEF fit, fits
  <2> QED BY <1>4, <2>1, <2>2, <2>3
<1>7. cover' = cover /\ step \in Early /\ (fit => fits)
  BY <1>3, <1>5, <1>6
<1> QED BY <1>7 DEF CoverInvariant, CoverKnown

(* processImages leaves one image with the id of the cover. *)
LEMMA ChosenAlone ==
  ASSUME OwnIds, CoverInvariant, ProcessImages
  PROVE  CoverAlone'
<1>1. /\ Types /\ images \in Seq(Image) /\ Len(images) \in Nat
  BY LenProperties DEF CoverInvariant, Types
<1>2. /\ cover \in Ids \union {None}
      /\ \A i \in 1..Len(images) : images[i].id # "dummycover"
  BY DEF CoverInvariant, CoverKnown, ProcessImages, Goes, Early
<1>3. CASE cover # None
  <2>1. images' = FirstCover(cover) /\ cover' \in {cover, None}
    BY <1>3 DEF ProcessImages
  <2> DEFINE k == Kept(cover)
             at == Left(cover)
  <2>2. /\ FirstCover(cover) = Only(k, at)
        /\ k \in Seq(Image) /\ Len(k) = Len(images)
        /\ \A i \in 1..Len(images) : k[i].id = images[i].id
    BY <1>1, CoverKept
  <2> HIDE DEF k, at
  <2>3. \A j, l \in 1..Len(images') : j # l =>
              \E a, b \in 1..Len(images) : /\ a # b /\ a \in at /\ b \in at
                                           /\ images'[j] = k[a] /\ images'[l] = k[b]
    <3> DEFINE o == Only(k, at)
    <3>1. \A j, l \in 1..Len(o) : j # l =>
              \E a, b \in 1..Len(k) : /\ a # b /\ a \in at /\ b \in at
                                      /\ o[j] = k[a] /\ o[l] = k[b]
      BY <2>2, OnlyHas
    <3>2. images' = o
      BY <2>1, <2>2
    <3>3. Len(k) = Len(images)
      BY <2>2
    <3> HIDE DEF o
    <3> DEFINE Apart(u) ==
                 \A j, l \in 1..Len(u) : j # l =>
                   \E a, b \in 1..Len(images) : /\ a # b /\ a \in at /\ b \in at
                                                /\ u[j] = k[a] /\ u[l] = k[b]
    <3>4. Apart(o)
      BY <3>1, <3>3
    <3> HIDE DEF Apart
    <3>5. Apart(images')
      BY <3>2, <3>4
    <3> QED BY <3>5 DEF Apart
  <2>4. \A a \in 1..Len(images) : a \in at /\ images[a].id = cover => a = WithId(cover)
    BY DEF Left, at
  <2>5. ASSUME NEW j \in 1..Len(images'), NEW l \in 1..Len(images'),
               images'[j].id = cover, images'[l].id = cover, j # l
        PROVE  FALSE
    <3>1. PICK a, b \in 1..Len(images) : /\ a # b /\ a \in at /\ b \in at
                                         /\ images'[j] = k[a] /\ images'[l] = k[b]
      BY <2>3, <2>5
    <3>2. images[a].id = cover /\ images[b].id = cover
      BY <2>2, <2>5, <3>1
    <3> QED BY <2>4, <3>1, <3>2
  <2> QED BY <2>1, <2>5 DEF CoverAlone
<1>4. CASE cover = None /\ images' = Append(images, DefaultCover) /\ cover' = "dummycover"
  <2>1. DefaultCover \in Image
    BY <1>1, DefaultIsImage
  <2>2. /\ Len(images') = Len(images) + 1
        /\ \A i \in 1..Len(images) : images'[i] = images[i]
    BY <1>1, <1>4, <2>1, AppendHas
  <2>3. \A i \in 1..Len(images') : images'[i].id = "dummycover" => i = Len(images) + 1
    BY <1>1, <1>2, <2>2
  <2> QED BY <1>4, <2>3 DEF CoverAlone
<1>5. CASE cover' = None
  BY <1>5 DEF CoverAlone
<1>6. \/ cover # None
      \/ cover = None /\ images' = Append(images, DefaultCover) /\ cover' = "dummycover"
      \/ cover' = None
  BY DEF ProcessImages
<1> QED BY <1>3, <1>4, <1>5, <1>6

LEMMA AloneKept ==
  ASSUME OwnIds, CoverInvariant, [Next]_vars
  PROVE  CoverAlone'
<1>1. CASE step \notin Early
  <2>1. /\ Len(images') = Len(images)
        /\ \A i \in 1..Len(images) : images'[i].id = images[i].id
        /\ cover' \in {cover, None}
    BY <1>1, IdsKept DEF CoverInvariant
  <2>2. cover # None =>
          \A i, j \in 1..Len(images) : images[i].id = cover /\ images[j].id = cover => i = j
    BY <1>1 DEF CoverInvariant, CoverAlone
  <2> QED BY <2>1, <2>2 DEF CoverAlone
<1>2. CASE step \in Early
  <2>1. step' \in Early \/ ProcessImages
    BY <1>2 DEF Early, Goes, Next, vars, ProcessBinary, StartText, NextFile, TransferImage,
                UseVignette, EndText, GenerateTOCPage, GenerateCover, GenerateNCX,
                PrepareStylesheet, GeneratePagemap, GenerateOPF, KepubifyXHTML, FlushAll
  <2>2. step' \in Early => CoverAlone'
    BY DEF CoverAlone
  <2> QED BY <2>1, <2>2, ChosenAlone
<1> QED BY <1>1, <1>2

LEMMA ThereKept ==
  ASSUME CoverInvariant, [Next]_vars
  PROVE  CoverThere'
<1>1. Types /\ files \in Seq(Page) /\ (Kindle <=> Kindle')
  BY DEF CoverInvariant, Types, Kindle, Goes, Next, vars, ProcessBinary, StartText, NextFile,
         TransferImage, UseVignette, EndText, ProcessImages, GenerateTOCPage, GenerateCover,
         GenerateNCX, PrepareStylesheet, GeneratePagemap, GenerateOPF, KepubifyXHTML, FlushAll
<1>2. CASE step \in Fronted
  <2>1. step \notin Early
    BY <1>2 DEF Early, Fronted
  <2>2. /\ Len(images') = Len(images)
        /\ \A i \in 1..Len(images) : images'[i].id = images[i].id
        /\ cover' = cover
    BY <1>1, <1>2, <2>1, IdsKept
  <2>3. files # <<>> =>
          files' # <<>> /\ files'[1].kind = files[1].kind /\ files'[1].number = files[1].number
    BY <1>1, <1>2, FrontKept
  <2>4. cover # None =>
          /\ \E i \in 1..Len(images) : images[i].id = cover
          /\ ~Kindle => files # <<>> /\ files[1].kind = "cover" /\ files[1].number = 0
    BY <1>2 DEF CoverInvariant, CoverThere
  <2> QED BY <1>1, <2>2, <2>3, <2>4 DEF CoverThere
<1>3. ASSUME NEW tall \in BOOLEAN, NEW titled \in BOOLEAN, GenerateCover(tall, titled)
      PROVE  CoverThere'
  <2>1. SUFFICES ASSUME cover' # None
                 PROVE  /\ \E i \in 1..Len(images') : images'[i].id = cover'
                        /\ ~Kindle => files' # <<>> /\ files'[1].kind = "cover" /\ files'[1].number = 0
    BY <1>1 DEF CoverThere
  <2>2. /\ Len(images') = Len(images)
        /\ \A i \in 1..Len(images) : images'[i].id = images[i].id
    BY <1>1, <1>3, ImagesFromCover
  <2>3. /\ WithId(cover) # 0 /\ cover' = cover
        /\ ~Kindle => files' = <<File("cover", 0, 0)>> \o files
    BY <1>3, <2>1 DEF GenerateCover
  <2>4. WithId(cover) \in 1..Len(images) /\ images[WithId(cover)].id = cover
    BY <2>3, WithIdFinds
  <2>5. \E i \in 1..Len(images') : images'[i].id = cover'
    BY <2>2, <2>3, <2>4
  <2>6. ASSUME ~Kindle
        PROVE  files' # <<>> /\ files'[1].kind = "cover" /\ files'[1].number = 0
    <3> DEFINE f == File("cover", 0, 0)
    <3>1. f \in Page /\ f.kind = "cover" /\ f.number = 0
      BY FileIsPage DEF Kinds
    <3>2. files' = <<f>> \o files
      BY <2>3, <2>6
    <3> HIDE DEF f
    <3>3. files' \in Seq(Page) /\ Len(files') = Len(files) + 1 /\ files'[1] = f
      BY <1>1, <3>1, <3>2, PrependHas
    <3>4. files' # <<>>
      BY <1>1, <3>3, EmptySeq, LenProperties
    <3> QED BY <3>1, <3>3, <3>4
  <2> QED BY <2>5, <2>6
<1>4. \/ step \in Fronted
      \/ \E tall, titled \in BOOLEAN : GenerateCover(tall, titled)
      \/ step' \notin Fronted
  BY DEF Fronted, Goes, Next, vars, ProcessBinary, StartText, NextFile, TransferImage,
         UseVignette, EndText, ProcessImages, GenerateTOCPage, GenerateNCX,
         PrepareStylesheet, GeneratePagemap, GenerateOPF, KepubifyXHTML, FlushAll
<1>5. step' \notin Fronted => CoverThere'
  BY DEF CoverThere
<1> QED BY <1>2, <1>3, <1>4, <1>5

(* The OPF marks the cover, and says that its page comes first. *)
LEMMA OpfMarks ==
  ASSUME OwnIds, CoverInvariant, GenerateOPF
  PROVE  CoverMarked'
<1>1. /\ Types /\ files \in Seq(Page) /\ images \in Seq(Image) /\ Len(images) \in Nat
      /\ (Kindle <=> Kindle') /\ cover' = cover /\ step = "opf"
  BY LenProperties DEF CoverInvariant, Types, Kindle, Goes, GenerateOPF
<1>2. /\ cover # None =>
           /\ \E i \in 1..Len(images) : images[i].id = cover
           /\ \A i, j \in 1..Len(images) : images[i].id = cover /\ images[j].id = cover => i = j
           /\ ~Kindle => files # <<>> /\ files[1].kind = "cover" /\ files[1].number = 0
  BY <1>1 DEF CoverInvariant, CoverAlone, CoverThere, Early, Fronted
<1>3. files' \in Seq(Page)
  BY <1>1, FilesChange, FilesAreTyped DEF Next
<1>4. /\ opf'.manifest = Manifest(files')
      /\ opf'.spine = [i \in DOMAIN OnSpine(files) |->
                         <<OnSpine(files)[i].kind, OnSpine(files)[i].number>>]
  BY DEF GenerateOPF
<1> DEFINE marked == {m \in ToSet(opf'.manifest) : m.id = <<"book-cover-image", 0>>}
<1>5. \A m : m \in marked <=> \E i \in 1..Len(images) : images[i].id = cover /\ m = ImageItem(i)
  <2>1. \A m : m \in ToSet(Manifest(files')) <=>
                     \/ \E i \in 1..Len(files') : files'[i].manifest /\ m = FileItem(files'[i])
                     \/ \E i \in 1..Len(images) : m = ImageItem(i)
                     \/ \E i \in 1..Len(vignettes) : m = VignetteItem(i)
                     \/ \E i \in 1..Len(data) : m = DataItem(i)
    BY <1>1, <1>3, ManifestHas
  <2>2. \A i \in 1..Len(files') : FileItem(files'[i]).id # <<"book-cover-image", 0>>
    <3> TAKE i \in 1..Len(files')
    <3>1. files'[i] \in Page
      BY <1>3, ElementOfSeq
    <3>2. files'[i].kind \in Kinds
      BY <3>1 DEF Page
    <3> QED BY <3>2 DEF FileItem, ManifestItem, Kinds
  <2>3. \A i \in 1..Len(images) :
          ImageItem(i).id = <<"book-cover-image", 0>> <=> images[i].id = cover
    BY DEF ImageItem, ManifestItem
  <2>4. /\ \A i \in 1..Len(vignettes) : VignetteItem(i).id # <<"book-cover-image", 0>>
        /\ \A i \in 1..Len(data) : DataItem(i).id # <<"book-cover-image", 0>>
    BY DEF VignetteItem, DataItem, ManifestItem
  <2>5. \A m : m \in marked <=> m \in ToSet(Manifest(files')) /\ m.id = <<"book-cover-image", 0>>
    BY <1>4
  <2> HIDE DEF marked
  <2> SUFFICES ASSUME NEW m
               PROVE  m \in marked <=> \E i \in 1..Len(images) : images[i].id = cover /\ m = ImageItem(i)
    OBVIOUS
  <2>6. m \in marked => \E i \in 1..Len(images) : images[i].id = cover /\ m = ImageItem(i)
    BY <2>1, <2>2, <2>3, <2>4, <2>5
  <2>7. ASSUME NEW i \in 1..Len(images), images[i].id = cover, m = ImageItem(i)
        PROVE  m \in marked
    BY <2>1, <2>3, <2>5, <2>7
  <2> QED BY <2>6, <2>7
<1>6. Cardinality(marked) = IF cover = None THEN 0 ELSE 1
  <2> HIDE DEF marked
  <2>1. CASE cover = None
    <3>1. \A i \in 1..Len(images) : images[i] \in Image
      BY <1>1, ElementOfSeq
    <3>2. \A i \in 1..Len(images) : images[i].id # None
      BY <3>1 DEF Image, ImageIds, OwnIds, None
    <3>3. marked = {}
      BY <1>5, <2>1, <3>2
    <3> QED BY <2>1, <3>3, FS_EmptySet
  <2>2. CASE cover # None
    <3>1. PICK i \in 1..Len(images) : images[i].id = cover
      BY <1>2, <2>2
    <3>2. marked = {ImageItem(i)}
      BY <1>2, <1>5, <2>2, <3>1
    <3> QED BY <2>2, <3>2, FS_Singleton
  <2> QED BY <2>1, <2>2
<1>7. ASSUME cover # None, ~Kindle
      PROVE  Head(opf'.spine) = <<"cover", 0>>
  <2> DEFINE at == {i \in DOMAIN files : files[i].spine}
             on == Only(files, at)
  <2>1. files # <<>> /\ files[1].kind = "cover" /\ files[1].number = 0
    BY <1>2, <1>7
  <2>2. 1 \in 1..Len(files) /\ DOMAIN files = 1..Len(files)
    BY <1>1, <2>1, EmptySeq, LenProperties
  <2>3. files[1] \in Page
    BY <1>1, <2>2, ElementOfSeq
  <2>4. 1 \in at
    BY <2>1, <2>2, <2>3 DEF Page
  <2>5. OnSpine(files) = on
    BY DEF OnSpine
  <2> HIDE DEF at
  <2>6. on \in Seq(Page) /\ on # <<>> /\ on[1] = files[1]
    BY <1>1, <2>1, <2>4, OnlyHas
  <2> HIDE DEF on
  <2>7. 1 \in 1..Len(on) /\ DOMAIN on = 1..Len(on) /\ Len(on) \in Nat
    BY <2>6, EmptySeq, LenProperties
  <2> DEFINE spine == [i \in DOMAIN on |-> <<on[i].kind, on[i].number>>]
  <2>8. opf'.spine = spine
    BY <1>4, <2>5
  <2>9. spine[1] = <<"cover", 0>>
    BY <2>1, <2>6, <2>7
  <2> HIDE DEF spine
  <2>10. Head(spine) = spine[1]
    OBVIOUS
  <2> QED BY <2>8, <2>9, <2>10
<1> QED BY <1>1, <1>6, <1>7 DEF CoverMarked

LEMMA ListedKept ==
  ASSUME OwnIds, CoverInvariant, [Next]_vars
  PROVE  CoverListed'
<1>1. CASE step \in Listed
  <2>1. opf' = opf /\ cover' = cover /\ (Kindle <=> Kindle')
    BY <1>1 DEF Listed, Kindle, Goes, Next, vars, ProcessBinary, StartText, NextFile, TransferImage,
                UseVignette, EndText, ProcessImages, GenerateTOCPage, GenerateCover, GenerateNCX,
                PrepareStylesheet, GeneratePagemap, GenerateOPF, KepubifyXHTML, FlushAll
  <2>2. CoverMarked
    BY <1>1 DEF CoverInvariant, CoverListed
  <2>3. CoverMarked'
    BY <2>1, <2>2 DEF CoverMarked
  <2> QED BY <2>3 DEF CoverListed
<1>2. step \in Listed \/ GenerateOPF \/ step' \notin Listed
  BY DEF Listed, Goes, Next, vars, ProcessBinary, StartText, NextFile, TransferImage,
         UseVignette, EndText, ProcessImages, GenerateTOCPage, GenerateCover, GenerateNCX,
         PrepareStylesheet, GeneratePagemap, KepubifyXHTML, FlushAll
<1>3. GenerateOPF => CoverListed'
  BY OpfMarks DEF CoverListed
<1>4. step' \notin Listed => CoverListed'
  BY DEF CoverListed
<1> QED BY <1>1, <1>2, <1>3, <1>4

LEMMA CoverFirst == Init => CoverInvariant
<1>1. Len(<<>>) = 0
  OBVIOUS
<1> QED BY <1>1, TypesFirst DEF Init, CoverInvariant, CoverKnown, CoverAlone, CoverThere,
           CoverListed, Early, Fronted, Listed

LEMMA CoverStep ==
  ASSUME OwnIds, CoverInvariant, [Next]_vars
  PROVE  CoverInvariant'
BY TypesKept, KnownKept, AloneKept, ThereKept, ListedKept DEF CoverInvariant

(* THEOREM.  When the ids of the images are none of those the program      *)
(* itself gives to images, the OPF of a book with a cover marks one image  *)
(* as the cover, that of one without marks none, and the page of the cover *)
(* comes first: whichever of several images with its id processImages      *)
(* leaves, and however the generators in between change it.                *)
THEOREM CoversAreMarked ==
  ASSUME OwnIds
  PROVE  Spec => []CoverIsMarked
<1>1. CoverInvariant => CoverIsMarked
  BY DEF CoverInvariant, CoverListed, CoverMarked, CoverIsMarked, Done, Listed
<1>2. CoverInvariant /\ [Next]_vars => CoverInvariant'
  BY CoverStep
<1> QED BY <1>1, <1>2, CoverFirst, PTL DEF Spec

-----------------------------------------------------------------------------
(* An image a Kindle does not read and that will be written as it is.  The *)
(* only one is a cover that the user gave, from when it is chosen, and     *)
(* once the cover is generated only if it is to be left alone.             *)
Unread(b) == Kindle /\ b.decoded /\ b.type = "webp" /\ ~b.jpeg

UserCover(b, c) ==
    /\ b.id = c
    /\ opt.overwrite = "webp" \/ (b.id = "dummycover" /\ opt.defaultType = "webp")

LeftAlone == opt.resize = "none" /\ ~opt.convert

OnlyGivenUnread ==
    step # "done" =>
      \A i \in 1..Len(images) :
        Unread(images[i]) => /\ step \notin Early /\ UserCover(images[i], cover)
                             /\ step \in Fronted => LeftAlone

KindleInvariant == CoverInvariant /\ OnlyGivenUnread /\ KindleReadsImages

(* The text brings none. *)
LEMMA TextIsRead ==
  ASSUME KindleInvariant, step \in Early, images' = images \/
         \E b \in Image : images' = Append(images, b) /\ ~Unread(b)
  PROVE  \A i \in 1..Len(images') : ~Unread(images'[i])
<1>1. images \in Seq(Image) /\ Len(images) \in Nat
  BY LenProperties DEF KindleInvariant, CoverInvariant, Types
<1>2. \A i \in 1..Len(images) : ~Unread(images[i])
  BY DEF KindleInvariant, OnlyGivenUnread, Early
<1>3. CASE images' = images
  BY <1>2, <1>3
<1>4. ASSUME NEW b \in Image, images' = Append(images, b), ~Unread(b)
      PROVE  \A i \in 1..Len(images') : ~Unread(images'[i])
  <2>1. /\ Len(images') = Len(images) + 1 /\ images'[Len(images) + 1] = b
        /\ \A i \in 1..Len(images) : images'[i] = images[i]
    BY <1>1, <1>4, AppendHas
  <2> QED BY <1>1, <1>2, <1>4, <2>1
<1> QED BY <1>3, <1>4

(* Of the images that processImages leaves or adds, only the cover.        *)
LEMMA ChosenIsGiven ==
  ASSUME KindleInvariant, ProcessImages, NEW k \in 1..Len(images'), Unread(images'[k])
  PROVE  UserCover(images'[k], cover')
<1>1. /\ Types /\ images \in Seq(Image) /\ Len(images) \in Nat /\ opt' = opt /\ step \in Early
  BY LenProperties DEF KindleInvariant, CoverInvariant, Types, ProcessImages, Goes, Early
<1>2. \A i \in 1..Len(images) : images[i] \in Image /\ ~Unread(images[i])
  BY <1>1, ElementOfSeq DEF KindleInvariant, OnlyGivenUnread, Early
<1>3. CASE /\ images' = FirstCover(cover)
           /\ cover' = IF opt.overwrite = "remove" /\ WithId(cover) # 0 THEN None ELSE cover
  <2>1. PICK i \in 1..Len(images) :
           /\ i \in Left(cover)
           /\ images'[k] = IF i = WithId(cover) THEN Replacement(images[i]) ELSE images[i]
           /\ images'[k].id = images[i].id
    BY <1>1, <1>3, CoverLeaves
  <2>2. images'[k] # images[i]
    BY <1>2
  <2>3. i = WithId(cover) /\ images'[k] = Replacement(images[i])
    BY <2>1, <2>2
  <2>4. opt.overwrite \in Formats /\ images'[k].type = opt.overwrite
    BY <1>1, <1>2, <2>2, <2>3, ReplacementIsImage
  <2>5. opt.overwrite = "webp"
    BY <2>4 DEF Unread
  <2>6. images'[k].id = cover
    <3>1. WithId(cover) # 0
      BY <2>3
    <3> QED BY <2>1, <2>3, <3>1, WithIdFinds
  <2>7. cover' = cover
    BY <1>3, <2>5
  <2> QED BY <2>5, <2>6, <2>7 DEF UserCover
<1>4. CASE images' = Append(images, DefaultCover) /\ cover' = "dummycover"
  <2>1. /\ Len(images') = Len(images) + 1 /\ images'[Len(images) + 1] = DefaultCover
        /\ \A i \in 1..Len(images) : images'[i] = images[i]
    BY <1>1, <1>4, DefaultIsImage, AppendHas
  <2>2. images'[k] = DefaultCover
    BY <1>1, <1>2, <2>1
  <2>3. DefaultCover.id = "dummycover" /\ DefaultCover.type = opt.defaultType
    BY <1>1, DefaultIsImage
  <2> QED BY <1>1, <1>4, <2>2, <2>3 DEF UserCover, Unread
<1>5. CASE images' = images
  BY <1>2, <1>5
<1>6. \/ /\ images' = FirstCover(cover)
         /\ cover' = IF opt.overwrite = "remove" /\ WithId(cover) # 0 THEN None ELSE cover
      \/ images' = Append(images, DefaultCover) /\ cover' = "dummycover"
      \/ images' = images
  BY DEF ProcessImages
<1> QED BY <1>3, <1>4, <1>5, <1>6

(* generateCover leaves the cover unread only when it is to be left alone. *)
LEMMA CoverIsRead ==
  ASSUME OwnIds, KindleInvariant, NEW tall \in BOOLEAN, NEW titled \in BOOLEAN,
         GenerateCover(tall, titled), NEW k \in 1..Len(images'), Unread(images'[k])
  PROVE  UserCover(images'[k], cover') /\ LeftAlone
<1> DEFINE j == WithId(cover)
           c == Stamped(Resized(images[j], tall), titled)
           fine == cover # None /\ j # 0 /\ images[j].decoded
<1>1. /\ Types /\ images \in Seq(Image) /\ Len(images) \in Nat /\ DOMAIN images = 1..Len(images)
      /\ opt' = opt /\ step = "cover" /\ step \notin Early /\ step # "done"
  BY LenProperties DEF KindleInvariant, CoverInvariant, Types, GenerateCover, Goes, Early
<1>2. /\ Len(images') = Len(images)
      /\ \A i \in 1..Len(images) :
           /\ images'[i].id = images[i].id /\ images'[i].type = images[i].type
           /\ images'[i].decoded = images[i].decoded /\ (images[i].jpeg => images'[i].jpeg)
  BY <1>1, ImagesFromCover
<1>3. k \in 1..Len(images) /\ images[k] \in Image
  BY <1>1, <1>2, ElementOfSeq
<1>4. Unread(images[k])
  BY <1>2, <1>3 DEF Unread
<1>5. UserCover(images[k], cover)
  BY <1>1, <1>3, <1>4 DEF KindleInvariant, OnlyGivenUnread
<1>6. cover # None
  BY <1>3, <1>5 DEF UserCover, Image, ImageIds, OwnIds, None
<1>7. j = k
  <2>1. j # 0 /\ j \in 1..Len(images) /\ images[j].id = cover
    BY <1>3, <1>5, WithIdFinds DEF UserCover
  <2> QED BY <1>1, <1>3, <1>5, <1>6, <2>1 DEF UserCover, KindleInvariant, CoverInvariant, CoverAlone
<1>8. fine
  BY <1>3, <1>4, <1>6, <1>7 DEF Unread
<1>9. cover' = cover /\ images' = [images EXCEPT ![j] = c]
  BY <1>8 DEF GenerateCover
<1>10. images'[k] = c
  BY <1>1, <1>3, <1>7, <1>9
<1>11. LeftAlone
  <2> DEFINE d == Resized(images[j], tall)
             alone == opt.resize = "none" /\ ~opt.convert /\ (~Kindle \/ tall)
             converts == Kindle \/ (opt.convert /\ opt.resize # "stretch")
  <2>1. d = [images[j] EXCEPT !.jpeg = @ \/ (~alone /\ converts)] /\ images[j] \in Image
    BY <1>3, <1>7 DEF Resized
  <2>2. d.jpeg = (images[j].jpeg \/ (~alone /\ converts)) /\ "jpeg" \in DOMAIN d
    <3> HIDE DEF alone, converts
    <3> QED BY <2>1 DEF Image
  <2> HIDE DEF d
  <2>3. c = [d EXCEPT !.jpeg = @ \/ (stamp /\ titled /\ Kindle)]
    BY DEF Stamped, d
  <2>4. c.jpeg = (d.jpeg \/ (stamp /\ titled /\ Kindle))
    BY <2>2, <2>3
  <2>5. Kindle /\ ~c.jpeg
    BY <1>10 DEF Unread
  <2> QED BY <2>2, <2>4, <2>5 DEF LeftAlone
<1> HIDE DEF j, c
<1>12. UserCover(images'[k], cover')
  BY <1>1, <1>2, <1>3, <1>5, <1>9 DEF UserCover
<1> QED BY <1>11, <1>12

LEMMA GivenKept ==
  ASSUME OwnIds, KindleInvariant, [Next]_vars
  PROVE  OnlyGivenUnread'
<1>1. Types /\ opt' = opt
  BY DEF KindleInvariant, CoverInvariant, Goes, Next, vars, ProcessBinary, StartText, NextFile,
         TransferImage, UseVignette, EndText, ProcessImages, GenerateTOCPage, GenerateCover,
         GenerateNCX, PrepareStylesheet, GeneratePagemap, GenerateOPF, KepubifyXHTML, FlushAll
<1>2. (LeftAlone' <=> LeftAlone) /\ \A b : Unread(b)' <=> Unread(b)
  BY <1>1 DEF LeftAlone, Unread, Kindle
<1>3. SUFFICES ASSUME step' # "done", NEW i \in 1..Len(images'), Unread(images'[i])
               PROVE  /\ step' \notin Early /\ UserCover(images'[i], cover')
                      /\ step' \in Fronted => LeftAlone
  BY <1>1, <1>2 DEF OnlyGivenUnread, UserCover
<1>4. ASSUME NEW kind \in BinaryKinds, NEW id \in Ids, ProcessBinary(kind, id)
      PROVE  FALSE
  <2>1. \/ images' = images
        \/ \E b \in Image : images' = Append(images, b) /\ ~Unread(b)
    BY <1>1, <1>4, NewBinary DEF Unread
  <2>2. step \in Early
    BY <1>4 DEF ProcessBinary, Goes, Early
  <2> QED BY <1>3, <2>1, <2>2, TextIsRead
<1>5. ASSUME NEW id \in Ids, TransferImage(id)
      PROVE  FALSE
  <2>1. \/ images' = images
        \/ \E b \in Image : images' = Append(images, b) /\ ~Unread(b)
    BY <1>1, <1>5, ImagesFromText DEF Unread
  <2>2. step \in Early
    BY <1>5 DEF TransferImage, Goes, Early
  <2> QED BY <1>3, <2>1, <2>2, TextIsRead
<1>6. CASE ProcessImages
  <2>1. step' \notin Early /\ step' \notin Fronted
    BY <1>6 DEF ProcessImages, Goes, Early, Fronted
  <2> QED BY <1>3, <1>6, <2>1, ChosenIsGiven
<1>7. ASSUME NEW tall \in BOOLEAN, NEW titled \in BOOLEAN, GenerateCover(tall, titled)
      PROVE  /\ step' \notin Early /\ UserCover(images'[i], cover')
             /\ step' \in Fronted => LeftAlone
  <2>1. step' \notin Early
    BY <1>7 DEF GenerateCover, Goes, Early
  <2> QED BY <1>3, <1>7, <2>1, CoverIsRead
<1>8. ASSUME NEW late \in BOOLEAN, FlushAll(late)
      PROVE  FALSE
  BY <1>3, <1>8 DEF FlushAll, Goes
<1>9. CASE \/ StartText
           \/ \E kind \in {"index", "annotation"}, pages \in 0..1, titled \in BOOLEAN :
                 NextFile(kind, pages, titled)
           \/ \E v \in Vignettes : UseVignette(v)
           \/ EndText \/ GenerateTOCPage \/ GenerateNCX \/ PrepareStylesheet \/ GeneratePagemap
           \/ GenerateOPF \/ KepubifyXHTML \/ UNCHANGED vars
  <2>1. images' = images /\ cover' = cover
    BY <1>9 DEF StartText, NextFile, UseVignette, EndText, GenerateTOCPage, GenerateNCX,
                PrepareStylesheet, GeneratePagemap, GenerateOPF, KepubifyXHTML, vars
  <2>2. /\ step' \in Early => step \in Early
        /\ step' \in Fronted => step \in Fronted
        /\ step = "done" => step' = "done"
    BY <1>9 DEF StartText, NextFile, UseVignette, EndText, GenerateTOCPage, GenerateNCX,
                PrepareStylesheet, GeneratePagemap, GenerateOPF, KepubifyXHTML, vars, Goes, Early,
                Fronted
  <2>3. /\ step \notin Early /\ UserCover(images[i], cover)
        /\ step \in Fronted => LeftAlone
    BY <1>3, <2>1, <2>2 DEF KindleInvariant, OnlyGivenUnread
  <2> QED BY <1>1, <2>1, <2>2, <2>3 DEF UserCover
<1> QED BY <1>4, <1>5, <1>6, <1>7, <1>8, <1>9 DEF Next

LEMMA KindleImagesKept ==
  ASSUME KindleInvariant, [Next]_vars
  PROVE  KindleReadsImages'
<1>1. Types
  BY DEF KindleInvariant, CoverInvariant
<1>2. ASSUME NEW late \in BOOLEAN, FlushAll(late)
      PROVE  KindleReadsImages'
  <2>1. /\ images' \in Seq(Image) /\ Len(images') = Len(images)
        /\ \A i \in 1..Len(images) : images[i] \in Image /\ images'[i] = Flushed(images[i])
    BY <1>1, <1>2, ImagesFromFlush
  <2>2. /\ step = "flush" /\ (Kindle <=> Kindle')
        /\ \A b : GivenAsIs(b)' <=> GivenAsIs(b)
    BY <1>2 DEF FlushAll, Goes, Kindle, GivenAsIs
  <2>3. \A i \in 1..Len(images) : Unread(images[i]) => GivenAsIs(images[i])
    BY <2>2 DEF KindleInvariant, OnlyGivenUnread, UserCover, LeftAlone, GivenAsIs, Fronted
  <2>4. ASSUME Kindle, NEW i \in 1..Len(images), images'[i].decoded, images'[i].type = "webp"
        PROVE  GivenAsIs(images'[i])
    <3> DEFINE b == images[i]
    <3>1. b \in Image /\ images'[i] = Flushed(b) /\ (Unread(b) => GivenAsIs(b))
      BY <2>1, <2>3
    <3> HIDE DEF b
    <3>2. CASE b.type # "svg" /\ b.jpeg
      <4>1. Flushed(b).type = "jpeg"
        BY <3>1, <3>2 DEF Flushed, Image
      <4> QED BY <2>4, <3>1, <4>1
    <3>3. CASE ~(b.type # "svg" /\ b.jpeg)
      <4>1. Flushed(b) = b
        BY <3>3 DEF Flushed
      <4>2. GivenAsIs(b)
        BY <2>4, <3>1, <3>3, <4>1 DEF Unread
      <4> QED BY <3>1, <4>1, <4>2
    <3> QED BY <3>2, <3>3
  <2>5. DOMAIN images' = 1..Len(images)
    BY <2>1, LenProperties
  <2> QED BY <2>2, <2>4, <2>5 DEF KindleReadsImages, ToSet
<1>3. CASE UNCHANGED vars
  BY <1>3 DEF vars, KindleInvariant, KindleReadsImages, Done, Kindle, GivenAsIs
<1>4. Done' => UNCHANGED vars \/ \E late \in BOOLEAN : FlushAll(late)
  BY DEF Done, Goes, Next, vars, ProcessBinary, StartText, NextFile, TransferImage,
         UseVignette, EndText, ProcessImages, GenerateTOCPage, GenerateCover, GenerateNCX,
         PrepareStylesheet, GeneratePagemap, GenerateOPF, KepubifyXHTML
<1>5. ~Done' => KindleReadsImages'
  BY DEF KindleReadsImages
<1> QED BY <1>2, <1>3, <1>4, <1>5

(* THEOREM.  When the ids of the images are none of those the program      *)
(* itself gives to images, each image of a Kindle book that could be       *)
(* decoded is written in a format a Kindle reads, but for one: a cover     *)
(* that the user gave, with no resizing or conversion asked for.  Nothing  *)
(* between processBinaries and flush takes back that an image of the       *)
(* source is to become a JPEG, not the choice among several covers, not    *)
(* the replacement by a description that overrides the one of the book,    *)
(* not the resizing.                                                       *)
THEOREM KindlesReadTheImages ==
  ASSUME OwnIds
  PROVE  Spec => []KindleReadsImages
<1>1. Init => KindleInvariant
  <2>1. Len(<<>>) = 0
    OBVIOUS
  <2> QED BY <2>1, CoverFirst DEF Init, KindleInvariant, OnlyGivenUnread, KindleReadsImages, Done
<1>2. KindleInvariant /\ [Next]_vars => KindleInvariant'
  <2> SUFFICES ASSUME KindleInvariant, [Next]_vars
               PROVE  KindleInvariant'
    OBVIOUS
  <2>1. CoverInvariant'
    BY CoverStep DEF KindleInvariant
  <2> QED BY <2>1, GivenKept, KindleImagesKept DEF KindleInvariant
<1>3. KindleInvariant => KindleReadsImages
  BY DEF KindleInvariant
<1> QED BY <1>1, <1>2, <1>3, PTL DEF Spec

-----------------------------------------------------------------------------
(* A file of the book stays, with all that refers to it. *)
SameFile(f, g) == /\ g.kind = f.kind /\ g.number = f.number /\ g.pages = f.pages
                  /\ g.spine = f.spine /\ g.manifest = f.manifest

LEMMA FilesPersist ==
  ASSUME Types, FilesFrom
  PROVE  \A i \in 1..Len(files) : \E j \in 1..Len(files') : SameFile(files[i], files'[j])
<1>1. files \in Seq(Page) /\ DOMAIN files = 1..Len(files) /\ Len(files) \in Nat
      /\ \A i \in 1..Len(files) : files[i] \in Page
  BY ElementOfSeq, LenProperties DEF Types
<1>2. ASSUME NEW kind \in Kinds, NEW n \in Nat, NEW pages \in Nat, NEW f,
             f = File(kind, n, pages), files' = Append(files, f) \/ files' = <<f>> \o files,
             NEW i \in 1..Len(files)
      PROVE  \E j \in 1..Len(files') : files'[j] = files[i]
  <2>1. f \in Page
    BY <1>2, FileIsPage
  <2>2. CASE files' = Append(files, f)
    <3>1. Len(files') = Len(files) + 1 /\ files'[i] = files[i]
      BY <1>1, <2>1, <2>2, AppendHas
    <3> QED BY <1>1, <3>1
  <2>3. CASE files' = <<f>> \o files
    <3>1. Len(files') = Len(files) + 1 /\ files'[i + 1] = files[i]
      BY <1>1, <2>1, <2>3, PrependHas
    <3> QED BY <1>1, <3>1
  <2> QED BY <1>2, <2>2, <2>3
<1>3. ASSUME files' = [i \in DOMAIN files |-> [files[i] EXCEPT !.kobo = files[i].spine]],
             NEW i \in 1..Len(files)
      PROVE  \E j \in 1..Len(files') : SameFile(files[i], files'[j])
  <2>1. \A f \in Page : [f EXCEPT !.kobo = f.spine] \in Page
                        /\ SameFile(f, [f EXCEPT !.kobo = f.spine])
    BY DEF Page, SameFile
  <2>2. files' \in [1..Len(files) -> Page] /\ SameFile(files[i], files'[i])
    BY <1>1, <1>3, <2>1
  <2>3. Len(files') = Len(files)
    BY <1>1, <2>2, FunctionIsSeq
  <2> QED BY <2>2, <2>3
<1>4. \A f : SameFile(f, f)
  BY DEF SameFile
<1>5. \/ files' = files
      \/ \E kind \in Kinds, n \in Nat, pages \in Nat :
           files' = Append(files, File(kind, n, pages)) \/ files' = <<File(kind, n, pages)>> \o files
      \/ files' = [i \in DOMAIN files |-> [files[i] EXCEPT !.kobo = files[i].spine]]
  BY DEF FilesFrom
<1>6. CASE files' = files
  BY <1>4, <1>6
<1>7. CASE \E kind \in Kinds, n \in Nat, pages \in Nat :
             files' = Append(files, File(kind, n, pages)) \/ files' = <<File(kind, n, pages)>> \o files
  <2>1. \A i \in 1..Len(files) : \E j \in 1..Len(files') : files'[j] = files[i]
    BY <1>2, <1>7
  <2> QED BY <1>4, <2>1
<1> QED BY <1>3, <1>5, <1>6, <1>7

-----------------------------------------------------------------------------
(* An image that was added leaves the others where they are. *)
Behind(b) ==
    /\ Len(images') = Len(images) + 1 /\ images'[Len(images) + 1] = b
    /\ \A i \in 1..Len(images) : images'[i] = images[i]

IsVignette(p) == \E i \in 1..Len(vignettes) : p = In("vignettes", vignettes[i][2])

(* An image the text may show: it is the one for all that are missing, or  *)
(* no image before it has its id.                                          *)
Showable(i) == images[i].id = "notfound" \/ \A j \in 1..Len(images) :
                                                images[j].id = images[i].id => i <= j

ShownEarly ==
    step \in Early => \A p \in shown : \/ IsVignette(p)
                                       \/ \E i \in 1..Len(images) :
                                            p = ImagePath(images[i]) /\ Showable(i)

NotFoundThere ==
    step \in Early /\ notFound # None =>
      \E i \in 1..Len(images) : images[i].name = notFound /\ images[i].id = "notfound"

LEMMA VignettesKept ==
  ASSUME Types, [Next]_vars
  PROVE  \A p : IsVignette(p) => IsVignette(p)'
<1>1. vignettes \in Seq(Vignettes) /\ Len(vignettes) \in Nat
  BY LenProperties DEF Types
<1>2. vignettes' = vignettes \/ \E v \in Vignettes : vignettes' = Append(vignettes, v)
  BY DEF Next, vars, ProcessBinary, StartText, NextFile, TransferImage, UseVignette, EndText,
         ProcessImages, GenerateTOCPage, GenerateCover, GenerateNCX, PrepareStylesheet,
         GeneratePagemap, GenerateOPF, KepubifyXHTML, FlushAll
<1>3. ASSUME NEW v \in Vignettes, vignettes' = Append(vignettes, v)
      PROVE  Len(vignettes') = Len(vignettes) + 1
             /\ \A i \in 1..Len(vignettes) : vignettes'[i] = vignettes[i]
  BY <1>1, <1>3, AppendHas
<1>4. \A i \in 1..Len(vignettes) : i \in 1..Len(vignettes') /\ vignettes'[i] = vignettes[i]
  BY <1>1, <1>2, <1>3
<1> QED BY <1>4 DEF IsVignette

LEMMA ShowableBehind ==
  ASSUME Types, NEW b, Behind(b), NEW p,
         \E i \in 1..Len(images) : p = ImagePath(images[i]) /\ Showable(i)
  PROVE  \E i \in 1..Len(images') : p = ImagePath(images'[i]) /\ Showable(i)'
<1>1. Len(images) \in Nat
  BY LenProperties DEF Types
<1>2. PICK i \in 1..Len(images) : p = ImagePath(images[i]) /\ Showable(i)
  OBVIOUS
<1>3. i \in 1..Len(images') /\ images'[i] = images[i]
  BY <1>1, <1>2 DEF Behind
<1>4. Showable(i)'
  BY <1>1, <1>2, <1>3 DEF Showable, Behind
<1> QED BY <1>2, <1>3, <1>4

LEMMA ShownByText ==
  ASSUME OwnIds, Types, ShownEarly, NotFoundThere, NEW id \in Ids, TransferImage(id)
  PROVE  ShownEarly' /\ NotFoundThere'
<1>1. Len(images) \in Nat /\ step \in Early /\ vignettes' = vignettes
  BY LenProperties DEF Types, TransferImage, Goes, Early
<1> DEFINE i == WithId(id)
           Fits(p) == \E k \in 1..Len(images') : p = ImagePath(images'[k]) /\ Showable(k)'
<1>2. /\ i # 0 => /\ i \in 1..Len(images) /\ images[i].id = id
                  /\ \A k \in 1..Len(images) : images[k].id = id => i <= k
  BY WithIdFinds
<1>3. shown' = shown \union {In("images", IF i # 0 THEN images[i].name ELSE notFound')}
  BY DEF TransferImage
<1>4. \/ images' = images /\ notFound' = notFound /\ (i # 0 \/ notFound # None)
      \/ /\ i = 0 /\ \E b \in Image : /\ Behind(b) /\ b.id = "notfound" /\ notFound' = b.name
  <2> DEFINE b == NotFoundPicture
  <2>1. b \in Image /\ b.id = "notfound"
    <3>1. "notfound" \in ImageIds /\ "png" \in Exts
      BY DEF ImageIds, Exts
    <3> QED BY <1>1, <3>1, NewPicture DEF NotFoundPicture
  <2>2. images' = IF i = 0 /\ notFound = None THEN Append(images, b) ELSE images
    BY DEF TransferImage
  <2>3. notFound' = IF i = 0 /\ notFound = None THEN b.name ELSE notFound
    BY DEF TransferImage
  <2> HIDE DEF b
  <2>4. images' = Append(images, b) => Behind(b)
    BY <2>1, AppendHas DEF Behind, Types
  <2> HIDE DEF i
  <2> QED BY <2>1, <2>2, <2>3, <2>4
<1> HIDE DEF i
<1>5. CASE images' = images /\ notFound' = notFound /\ (i # 0 \/ notFound # None)
  <2>1. \A k : Showable(k)' <=> Showable(k)
    BY <1>5 DEF Showable
  <2>2. \A p : IsVignette(p)' <=> IsVignette(p)
    BY <1>1 DEF IsVignette
  <2>3. Fits(In("images", IF i # 0 THEN images[i].name ELSE notFound'))
    <3>1. CASE i # 0
      <4>1. Showable(i)
        BY <1>2, <3>1 DEF Showable
      <4> QED BY <1>2, <1>5, <2>1, <3>1, <4>1 DEF ImagePath
    <3>2. CASE i = 0
      <4>1. PICK k \in 1..Len(images) : images[k].name = notFound /\ images[k].id = "notfound"
        BY <1>1, <1>5, <3>2 DEF NotFoundThere
      <4>2. Showable(k)
        BY <4>1 DEF Showable
      <4> QED BY <1>5, <2>1, <3>2, <4>1, <4>2 DEF ImagePath
    <3> QED BY <3>1, <3>2
  <2>4. \A p \in shown : IsVignette(p) \/ Fits(p)
    BY <1>1, <1>5, <2>1 DEF ShownEarly
  <2> HIDE DEF Fits
  <2>5. \A p \in shown' : IsVignette(p)' \/ Fits(p)
    BY <1>3, <2>2, <2>3, <2>4
  <2>6. ShownEarly'
    BY <2>5 DEF ShownEarly, Fits
  <2>7. NotFoundThere'
    BY <1>1, <1>5 DEF NotFoundThere
  <2> QED BY <2>6, <2>7
<1>6. ASSUME i = 0, NEW b \in Image, Behind(b), b.id = "notfound", notFound' = b.name
      PROVE  ShownEarly' /\ NotFoundThere'
  <2>1. PICK k \in 1..Len(images') : images'[k] = b
    <3>1. Len(images) + 1 \in 1..Len(images')
      BY <1>1, <1>6 DEF Behind
    <3> QED BY <1>6, <3>1 DEF Behind
  <2>2. Showable(k)'
    BY <1>6, <2>1 DEF Showable
  <2>3. Fits(In("images", notFound'))
    BY <1>6, <2>1, <2>2 DEF ImagePath
  <2>4. \A p : IsVignette(p)' <=> IsVignette(p)
    BY <1>1 DEF IsVignette
  <2>5. \A p \in shown : IsVignette(p) \/ Fits(p)
    BY <1>1, <1>6, ShowableBehind DEF ShownEarly
  <2> HIDE DEF Fits
  <2>6. \A p \in shown' : IsVignette(p)' \/ Fits(p)
    BY <1>3, <1>6, <2>3, <2>4, <2>5
  <2>7. ShownEarly'
    BY <2>6 DEF ShownEarly, Fits
  <2>8. NotFoundThere'
    BY <1>6, <2>1 DEF NotFoundThere
  <2> QED BY <2>7, <2>8
<1> QED BY <1>4, <1>5, <1>6

LEMMA ShownEarlyKept ==
  ASSUME OwnIds, Types, ShownEarly, NotFoundThere, [Next]_vars
  PROVE  ShownEarly' /\ NotFoundThere'
<1>1. ASSUME NEW id \in Ids, TransferImage(id)
      PROVE  ShownEarly' /\ NotFoundThere'
  BY <1>1, ShownByText
<1>2. CASE step' \notin Early
  BY <1>2 DEF ShownEarly, NotFoundThere
<1>3. ASSUME NEW kind \in BinaryKinds, NEW id \in Ids, ProcessBinary(kind, id)
      PROVE  ShownEarly' /\ NotFoundThere'
  <2>1. /\ step \in Early /\ shown' = shown /\ notFound' = notFound /\ vignettes' = vignettes
        /\ images \in Seq(Image) /\ Len(images) \in Nat
    BY <1>3, LenProperties DEF ProcessBinary, Goes, Early, Types
  <2>2. images' = images \/ \E b : Behind(b)
    <3>1. images' = images \/ \E b \in Image : images' = Append(images, b)
      BY <1>3, NewBinary
    <3> QED BY <2>1, <3>1, AppendHas DEF Behind
  <2>3. \A p : IsVignette(p)' <=> IsVignette(p)
    BY <2>1 DEF IsVignette
  <2>4. CASE images' = images
    <3>1. \A k : Showable(k)' <=> Showable(k)
      BY <2>4 DEF Showable
    <3> QED BY <2>1, <2>3, <2>4, <3>1 DEF ShownEarly, NotFoundThere
  <2>5. ASSUME NEW b, Behind(b)
        PROVE  ShownEarly' /\ NotFoundThere'
    <3>1. ShownEarly'
      <4>1. SUFFICES ASSUME NEW p \in shown
                     PROVE  \/ IsVignette(p)'
                            \/ \E i \in 1..Len(images') : p = ImagePath(images'[i]) /\ Showable(i)'
        BY <2>1 DEF ShownEarly
      <4>2. \/ IsVignette(p)
            \/ \E i \in 1..Len(images) : p = ImagePath(images[i]) /\ Showable(i)
        BY <2>1 DEF ShownEarly
      <4> QED BY <2>3, <2>5, <4>2, ShowableBehind
    <3>2. NotFoundThere'
      BY <2>1, <2>5 DEF NotFoundThere, Behind
    <3> QED BY <3>1, <3>2
  <2> QED BY <2>2, <2>4, <2>5
<1>4. ASSUME NEW v \in Vignettes, UseVignette(v)
      PROVE  ShownEarly' /\ NotFoundThere'
  <2>1. /\ step \in Early /\ shown' = shown \union {In("vignettes", v[2])}
        /\ notFound' = notFound /\ images' = images
        /\ vignettes \in Seq(Vignettes) /\ Len(vignettes) \in Nat
    BY <1>4, LenProperties DEF UseVignette, Goes, Early, Types
  <2>2. \E i \in 1..Len(vignettes') : vignettes'[i] = v
    <3>1. CASE Contains(vignettes, v)
      BY <1>4, <2>1, <3>1 DEF UseVignette, Contains
    <3>2. CASE ~Contains(vignettes, v)
      <4>1. vignettes' = Append(vignettes, v)
        BY <1>4, <3>2 DEF UseVignette
      <4>2. Len(vignettes') = Len(vignettes) + 1 /\ vignettes'[Len(vignettes) + 1] = v
        BY <2>1, <4>1, AppendHas
      <4> QED BY <2>1, <4>2
    <3> QED BY <3>1, <3>2
  <2>3. IsVignette(In("vignettes", v[2]))'
    <3>1. PICK i \in 1..Len(vignettes') : vignettes'[i] = v
      BY <2>2
    <3> QED BY <3>1 DEF IsVignette
  <2>4. \A p : IsVignette(p) => IsVignette(p)'
    BY <1>4, VignettesKept DEF Next
  <2>5. \A k : Showable(k)' <=> Showable(k)
    BY <2>1 DEF Showable
  <2> QED BY <2>1, <2>3, <2>4, <2>5 DEF ShownEarly, NotFoundThere
<1>5. CASE step \in Early /\ UNCHANGED <<images, notFound, shown, vignettes>>
  <2>1. \A k : Showable(k)' <=> Showable(k)
    BY <1>5 DEF Showable
  <2>2. \A p : IsVignette(p)' <=> IsVignette(p)
    BY <1>5 DEF IsVignette
  <2> QED BY <1>5, <2>1, <2>2 DEF ShownEarly, NotFoundThere
<1>6. \/ step' \notin Early
      \/ \E kind \in BinaryKinds, id \in Ids : ProcessBinary(kind, id)
      \/ \E id \in Ids : TransferImage(id)
      \/ \E v \in Vignettes : UseVignette(v)
      \/ step \in Early /\ UNCHANGED <<images, notFound, shown, vignettes>>
  BY DEF Early, Goes, Next, vars, StartText, NextFile, EndText, ProcessImages,
         GenerateTOCPage, GenerateCover, GenerateNCX, PrepareStylesheet, GeneratePagemap,
         GenerateOPF, KepubifyXHTML, FlushAll
<1> QED BY <1>1, <1>2, <1>3, <1>4, <1>5, <1>6

(* What the text and the cover page show, when nothing takes the place of  *)
(* the cover of the book.                                                  *)
IsImage(p) == \E i \in 1..Len(images) : p = ImagePath(images[i])

ShownThere ==
    step \notin Early /\ step \notin Listed /\ opt.overwrite = "no" =>
      \A p \in shown : IsVignette(p) \/ IsImage(p)

LEMMA ImagesKept ==
  ASSUME Types, [Next]_vars, step \notin Early
  PROVE  \A p : IsImage(p) => IsImage(p)'
<1>1. \/ images' = images
      \/ \E tall, titled \in BOOLEAN : GenerateCover(tall, titled)
      \/ \E late \in BOOLEAN : FlushAll(late)
  BY DEF Early, Goes, Next, vars, ProcessBinary, StartText, NextFile, TransferImage, UseVignette,
         EndText, ProcessImages, GenerateTOCPage, GenerateNCX, PrepareStylesheet, GeneratePagemap,
         GenerateOPF, KepubifyXHTML
<1>2. ASSUME NEW late \in BOOLEAN, FlushAll(late)
      PROVE  Len(images') = Len(images) /\ \A i \in 1..Len(images) : images'[i].name = images[i].name
  <2>1. /\ Len(images') = Len(images)
        /\ \A i \in 1..Len(images) : images[i] \in Image /\ images'[i] = Flushed(images[i])
    BY <1>2, ImagesFromFlush
  <2>2. \A b \in Image : Flushed(b).name = b.name
    BY DEF Flushed, Image
  <2> QED BY <2>1, <2>2
<1>3. ASSUME NEW tall \in BOOLEAN, NEW titled \in BOOLEAN, GenerateCover(tall, titled)
      PROVE  Len(images') = Len(images) /\ \A i \in 1..Len(images) : images'[i].name = images[i].name
  BY <1>3, ImagesFromCover
<1>4. Len(images') = Len(images) /\ \A i \in 1..Len(images) : images'[i].name = images[i].name
  BY <1>1, <1>2, <1>3
<1> QED BY <1>4 DEF IsImage, ImagePath

(* Of the images with the id of the cover the first is left, and no other  *)
(* can be shown.                                                           *)
LEMMA ShownStays ==
  ASSUME OwnIds, CoverInvariant, ShownEarly, ProcessImages, opt.overwrite = "no", NEW p \in shown
  PROVE  IsVignette(p)' \/ IsImage(p)'
<1>1. /\ Types /\ images \in Seq(Image) /\ Len(images) \in Nat
      /\ shown' = shown /\ vignettes' = vignettes /\ step \in Early
  BY LenProperties DEF CoverInvariant, Types, ProcessImages, Goes, Early
<1>2. cover \in Ids \union {None}
  BY <1>1 DEF CoverInvariant, CoverKnown
<1>3. \/ IsVignette(p)
      \/ \E i \in 1..Len(images) : p = ImagePath(images[i]) /\ Showable(i)
  BY <1>1 DEF ShownEarly
<1>4. IsVignette(p) => IsVignette(p)'
  BY <1>1 DEF IsVignette
<1>5. ASSUME NEW i \in 1..Len(images), p = ImagePath(images[i]), Showable(i)
      PROVE  IsImage(p)'
  <2>1. CASE images' = images
    BY <1>5, <2>1 DEF IsImage
  <2>2. CASE images' = Append(images, DefaultCover)
    <3>1. Behind(DefaultCover)
      BY <1>1, <2>2, DefaultIsImage, AppendHas DEF Behind
    <3>2. i \in 1..Len(images') /\ images'[i] = images[i]
      BY <1>1, <3>1 DEF Behind
    <3> QED BY <1>5, <3>2 DEF IsImage
  <2>3. CASE cover # None /\ images' = FirstCover(cover)
    <3> DEFINE k == Kept(cover)
               at == Left(cover)
    <3>1. /\ FirstCover(cover) = Only(k, at)
          /\ k \in Seq(Image) /\ Len(k) = Len(images)
          /\ k[i] = IF i = WithId(cover) THEN Replacement(images[i]) ELSE images[i]
          /\ images[i] \in Image
      BY <1>1, CoverKept
    <3>2. k[i] = images[i]
      <4>1. "no" \notin Formats
        BY DEF Formats
      <4> QED BY <1>1, <3>1, <4>1, ReplacementIsImage
    <3>3. i \in at
      <4>1. CASE images[i].id # cover
        BY <1>1, <4>1, LenProperties DEF Left
      <4>2. CASE images[i].id = cover
        <5>1. cover # "notfound"
          BY <1>2 DEF OwnIds, None
        <5>2. \A j \in 1..Len(images) : images[j].id = cover => i <= j
          BY <1>5, <4>2, <5>1 DEF Showable
        <5>3. /\ WithId(cover) # 0
              /\ WithId(cover) \in 1..Len(images) /\ images[WithId(cover)].id = cover
              /\ WithId(cover) <= i
          BY <1>5, <4>2, WithIdFinds
        <5>4. i = WithId(cover)
          BY <1>1, <5>2, <5>3
        <5> QED BY <1>1, <5>4, LenProperties DEF Left
      <4> QED BY <4>1, <4>2
    <3> HIDE DEF k, at
    <3> DEFINE o == Only(k, at)
    <3>4. o \in Seq(Image) /\ (k[i] \in ToSet(o) <=> \E j \in 1..Len(k) : j \in at /\ k[i] = k[j])
      BY <3>1, OnlyHas
    <3>5. images' = o
      BY <2>3, <3>1
    <3> HIDE DEF o
    <3>6. images[i] \in ToSet(o) /\ DOMAIN o = 1..Len(o)
      BY <3>1, <3>2, <3>3, <3>4, LenProperties
    <3>7. \E j \in 1..Len(images') : images'[j] = images[i]
      BY <3>5, <3>6 DEF ToSet
    <3> QED BY <1>5, <3>7 DEF IsImage
  <2>4. \/ images' = images
        \/ images' = Append(images, DefaultCover)
        \/ cover # None /\ images' = FirstCover(cover)
    BY DEF ProcessImages
  <2> QED BY <2>1, <2>2, <2>3, <2>4
<1> QED BY <1>3, <1>4, <1>5

LEMMA ShownThereKept ==
  ASSUME OwnIds, CoverInvariant, ShownEarly, ShownThere, [Next]_vars
  PROVE  ShownThere'
<1>1. Types /\ opt' = opt
  BY DEF CoverInvariant, Goes, Next, vars, ProcessBinary, StartText, NextFile, TransferImage,
         UseVignette, EndText, ProcessImages, GenerateTOCPage, GenerateCover, GenerateNCX,
         PrepareStylesheet, GeneratePagemap, GenerateOPF, KepubifyXHTML, FlushAll
<1>2. SUFFICES ASSUME step' \notin Early, step' \notin Listed, opt.overwrite = "no",
                      NEW p \in shown'
               PROVE  IsVignette(p)' \/ IsImage(p)'
  BY <1>1 DEF ShownThere
<1>3. CASE ProcessImages
  <2>1. shown' = shown
    BY <1>3 DEF ProcessImages
  <2> QED BY <1>2, <1>3, <2>1, ShownStays
<1>4. ASSUME NEW tall \in BOOLEAN, NEW titled \in BOOLEAN, GenerateCover(tall, titled)
      PROVE  IsVignette(p)' \/ IsImage(p)'
  <2>1. step \notin Early /\ step \notin Listed
    BY <1>4 DEF GenerateCover, Goes, Early, Listed
  <2>2. p \in shown \/ IsImage(p)
    <3>1. WithId(cover) # 0 => WithId(cover) \in 1..Len(images)
      BY WithIdFinds
    <3>2. \/ shown' = shown
          \/ WithId(cover) # 0 /\ shown' = shown \union {ImagePath(images[WithId(cover)])}
      BY <1>4 DEF GenerateCover
    <3> QED BY <1>2, <3>1, <3>2 DEF IsImage
  <2>3. IsVignette(p) \/ IsImage(p)
    BY <1>2, <2>1, <2>2 DEF ShownThere
  <2>4. [Next]_vars
    OBVIOUS
  <2> QED BY <1>1, <2>1, <2>3, <2>4, VignettesKept, ImagesKept
<1>5. CASE step \notin Early /\ step \notin Listed /\ shown' = shown
  <2>1. IsVignette(p) \/ IsImage(p)
    BY <1>2, <1>5 DEF ShownThere
  <2> QED BY <1>1, <1>5, <2>1, VignettesKept, ImagesKept
<1>6. \/ ProcessImages
      \/ \E tall, titled \in BOOLEAN : GenerateCover(tall, titled)
      \/ step \notin Early /\ step \notin Listed /\ shown' = shown
  BY <1>2 DEF Early, Listed, Goes, Next, vars, ProcessBinary, StartText, NextFile, TransferImage,
              UseVignette, EndText, GenerateTOCPage, GenerateNCX, PrepareStylesheet,
              GeneratePagemap, GenerateOPF, KepubifyXHTML, FlushAll
<1> QED BY <1>3, <1>4, <1>5, <1>6

-----------------------------------------------------------------------------
(* What is in front, behind and between: files that something refers to.   *)
FontsOnly == \A s \in Settings : \A u \in ToSet(s.urls) : u[1] = "font"

HasFile(kind) == \E i \in 1..Len(files) : files[i].kind = kind /\ files[i].number = 0

TextThere == step \notin {"binaries", "text"} => \E i \in 1..Len(files) : files[i].kind = "index"

TocThere ==
    step \notin Early \union {"toc"} /\ opt.toc # "none" /\ tocEntries # 0 => HasFile("toc")

FontsThere == step \notin Listed => \A p \in css : \E i \in 1..Len(data) : data[i] = p

Marks(p) == \E i \in 1..Len(files) : /\ files[i].spine /\ Href(files[i]) = p[1]
                                     /\ p[2] <= files[i].pages

MarksThere == \A p \in ToSet(pageMap) : Marks(p)

LEMMA TextKept ==
  ASSUME Types, TextThere, [Next]_vars
  PROVE  TextThere'
<1>1. \A i \in 1..Len(files) : \E j \in 1..Len(files') : SameFile(files[i], files'[j])
  BY FilesChange, FilesPersist
<1>2. CASE step \notin {"binaries", "text"}
  BY <1>1, <1>2 DEF TextThere, SameFile
<1>3. CASE EndText
  <2>1. files' = files /\ DOMAIN files = 1..Len(files) /\ \E f \in ToSet(files) : f.kind = "index"
    BY <1>3, LenProperties DEF EndText, Types
  <2> QED BY <2>1 DEF TextThere, ToSet
<1>4. \/ step \notin {"binaries", "text"} \/ EndText \/ step' \in {"binaries", "text"}
  BY DEF Goes, Next, vars, ProcessBinary, StartText, NextFile, TransferImage, UseVignette,
         ProcessImages, GenerateTOCPage, GenerateCover, GenerateNCX, PrepareStylesheet,
         GeneratePagemap, GenerateOPF, KepubifyXHTML, FlushAll
<1>5. step' \in {"binaries", "text"} => TextThere'
  BY DEF TextThere
<1> QED BY <1>2, <1>3, <1>4, <1>5

LEMMA TocKept ==
  ASSUME Types, TocThere, [Next]_vars
  PROVE  TocThere'
<1> DEFINE after == step \notin Early \union {"toc"}
<1>1. \A i \in 1..Len(files) : \E j \in 1..Len(files') : SameFile(files[i], files'[j])
  BY FilesChange, FilesPersist
<1>2. CASE after
  <2>1. opt' = opt /\ tocEntries' = tocEntries
    BY <1>2 DEF Early, Goes, Next, vars, ProcessBinary, StartText, NextFile, TransferImage,
                UseVignette, EndText, ProcessImages, GenerateTOCPage, GenerateCover, GenerateNCX,
                PrepareStylesheet, GeneratePagemap, GenerateOPF, KepubifyXHTML, FlushAll
  <2>2. HasFile("toc") => HasFile("toc")'
    BY <1>1 DEF HasFile, SameFile
  <2> QED BY <1>2, <2>1, <2>2 DEF TocThere
<1>3. CASE GenerateTOCPage
  <2> DEFINE page == File("toc", 0, 0)
  <2>1. /\ opt.toc \in {"none", "before", "after"} /\ tocEntries \in Nat /\ files \in Seq(Page)
        /\ opt' = opt /\ tocEntries' = tocEntries
    BY <1>3, PackageAssumption DEF Types, GenerateTOCPage, Goes
  <2>2. page \in Page /\ page.kind = "toc" /\ page.number = 0
    BY FileIsPage DEF Kinds
  <2>3. files' = CASE opt.toc = "none" \/ tocEntries = 0 -> files
                   [] opt.toc = "before" /\ tocEntries > 0 -> <<page>> \o files
                   [] opt.toc = "after" /\ tocEntries > 0 -> Append(files, page)
    BY <1>3 DEF GenerateTOCPage
  <2> HIDE DEF page
  <2>4. CASE opt.toc = "before" /\ tocEntries > 0
    <3>1. files' = <<page>> \o files
      BY <2>1, <2>3, <2>4
    <3>2. Len(files') = Len(files) + 1 /\ files'[1] = page /\ Len(files) \in Nat
      BY <2>1, <2>2, <3>1, PrependHas, LenProperties
    <3> QED BY <2>2, <3>2 DEF TocThere, HasFile
  <2>5. CASE opt.toc = "after" /\ tocEntries > 0
    <3>1. files' = Append(files, page)
      BY <2>1, <2>3, <2>5
    <3>2. Len(files') = Len(files) + 1 /\ files'[Len(files) + 1] = page /\ Len(files) \in Nat
      BY <2>1, <2>2, <3>1, AppendHas, LenProperties
    <3> QED BY <2>2, <3>2 DEF TocThere, HasFile
  <2>6. CASE opt.toc = "none" \/ tocEntries = 0
    BY <2>1, <2>6 DEF TocThere
  <2> QED BY <2>1, <2>4, <2>5, <2>6
<1>4. after \/ GenerateTOCPage \/ step' \in Early \union {"toc"}
  BY DEF Early, Goes, Next, vars, ProcessBinary, StartText, NextFile, TransferImage,
         UseVignette, EndText, ProcessImages, GenerateCover, GenerateNCX,
         PrepareStylesheet, GeneratePagemap, GenerateOPF, KepubifyXHTML, FlushAll
<1>5. step' \in Early \union {"toc"} => TocThere'
  BY DEF TocThere
<1> QED BY <1>2, <1>3, <1>4, <1>5

LEMMA FontsKept ==
  ASSUME FontsOnly, Types, FontsThere, [Next]_vars
  PROVE  FontsThere'
<1>1. CASE PrepareStylesheet
  <2> DEFINE d == [i \in DOMAIN opt.urls |-> Resource(opt.urls[i])]
             s == In("", <<"style", 0>>)
             n == Len(opt.urls)
  <2>1. /\ DOMAIN opt.urls = 1..n /\ n \in Nat
        /\ \A i \in 1..n : opt.urls[i] \in STRING \X STRING /\ opt.urls[i][1] = "font"
    <3>1. opt \in Settings /\ opt.urls \in Seq(STRING \X STRING)
      BY PackageAssumption DEF Types
    <3>2. DOMAIN opt.urls = 1..n /\ n \in Nat
      BY <3>1, LenProperties
    <3>3. \A i \in 1..n : opt.urls[i] \in STRING \X STRING
      BY <3>1, ElementOfSeq
    <3>4. \A i \in 1..n : opt.urls[i][1] = "font"
      BY <3>1, <3>2 DEF FontsOnly, ToSet
    <3> QED BY <3>2, <3>3, <3>4
  <2>2. \A i \in 1..n : Resource(opt.urls[i]) = In("fonts", opt.urls[i][2])
    BY <2>1 DEF Resource
  <2>3. \A u : In("fonts", u)[2] = u
    BY DEF In
  <2>4. \A p \in css' : \E i \in 1..n : p = In("fonts", opt.urls[i][2])
    <3>1. css' = {In("fonts", Resource(u)[2]) : u \in ToSet(opt.urls)}
      BY <1>1 DEF PrepareStylesheet
    <3>2. \A u \in ToSet(opt.urls) : \E i \in 1..n : u = opt.urls[i]
      BY <2>1 DEF ToSet
    <3> QED BY <2>2, <2>3, <3>1, <3>2
  <2>5. /\ d \in [1..n -> DataPath] /\ \A i \in 1..n : d[i] = In("fonts", opt.urls[i][2])
    <3>1. \A i \in 1..n : Resource(opt.urls[i]) \in DataPath
      BY <2>1 DEF Resource, DataPath
    <3> QED BY <2>1, <2>2, <3>1
  <2>6. d \in Seq(DataPath) /\ Len(d) = n
    <3> HIDE DEF d
    <3> QED BY <2>1, <2>5, FunctionIsSeq
  <2>7. data' = <<s>> \o d /\ s \in DataPath
    BY <1>1 DEF PrepareStylesheet, DataPath
  <2> HIDE DEF d, s
  <2>8. Len(data') = n + 1 /\ \A i \in 1..n : data'[i + 1] = d[i]
    BY <2>6, <2>7, PrependHas
  <2>9. \A p \in css' : \E i \in 1..Len(data') : data'[i] = p
    <3> TAKE p \in css'
    <3>1. PICK i \in 1..n : p = In("fonts", opt.urls[i][2])
      BY <2>4
    <3>2. data'[i + 1] = p /\ i + 1 \in 1..Len(data')
      BY <2>1, <2>5, <2>8, <3>1
    <3> QED BY <3>2
  <2> QED BY <2>9 DEF FontsThere
<1>2. CASE css' = css /\ data' = data /\ step \notin Listed
  BY <1>2 DEF FontsThere
<1>3. PrepareStylesheet \/ (css' = css /\ data' = data /\ step \notin Listed) \/ step' \in Listed
  BY DEF Listed, Goes, Next, vars, ProcessBinary, StartText, NextFile, TransferImage,
         UseVignette, EndText, ProcessImages, GenerateTOCPage, GenerateCover, GenerateNCX,
         GeneratePagemap, GenerateOPF, KepubifyXHTML, FlushAll
<1>4. step' \in Listed => FontsThere'
  BY DEF FontsThere
<1> QED BY <1>1, <1>2, <1>3, <1>4

LEMMA MarksKept ==
  ASSUME Types, MarksThere, [Next]_vars
  PROVE  MarksThere'
<1>1. \A i \in 1..Len(files) : \E j \in 1..Len(files') : SameFile(files[i], files'[j])
  BY FilesChange, FilesPersist
<1>2. \A p : Marks(p) => Marks(p)'
  <2> SUFFICES ASSUME NEW p, Marks(p)
               PROVE  Marks(p)'
    OBVIOUS
  <2>1. PICK i \in 1..Len(files) : files[i].spine /\ Href(files[i]) = p[1] /\ p[2] <= files[i].pages
    BY DEF Marks
  <2>2. PICK j \in 1..Len(files') : SameFile(files[i], files'[j])
    BY <1>1
  <2>3. files'[j].spine /\ Href(files'[j]) = p[1] /\ p[2] <= files'[j].pages
    BY <2>1, <2>2 DEF SameFile, Href
  <2> QED BY <2>3 DEF Marks
<1>3. CASE pageMap' = pageMap
  BY <1>2, <1>3 DEF MarksThere
<1>4. CASE pageMap' # pageMap
  <2>1. GeneratePagemap /\ ~opt.noPages
    BY <1>4 DEF Next, vars, ProcessBinary, StartText, NextFile, TransferImage, UseVignette, EndText,
                ProcessImages, GenerateTOCPage, GenerateCover, GenerateNCX, PrepareStylesheet,
                GeneratePagemap, GenerateOPF, KepubifyXHTML, FlushAll
  <2> DEFINE at == {i \in DOMAIN files : files[i].spine}
             on == Only(files, at)
             pages == [i \in DOMAIN on |-> PagesOf(on[i])]
             M == UNION {ToSet(PagesOf(f)) : f \in Page}
  <2>2. files \in Seq(Page) /\ DOMAIN files = 1..Len(files)
    BY LenProperties DEF Types
  <2>3. /\ on \in Seq(Page)
        /\ \A x : x \in ToSet(on) <=> \E i \in 1..Len(files) : i \in at /\ x = files[i]
    <3> HIDE DEF at
    <3> QED BY <2>2, OnlyHas
  <2>4. pageMap' = FlattenSeq(pages)
    BY <2>1 DEF GeneratePagemap, OnSpine
  <2>5. \A f \in Page : PagesOf(f) \in Seq(M)
    <3> TAKE f \in Page
    <3> DEFINE q == PagesOf(f)
    <3>1. f.pages + 1 \in Nat
      BY DEF Page
    <3>2. DOMAIN q = 1..(f.pages + 1) /\ q = [k \in 1..(f.pages + 1) |-> q[k]]
      BY <3>1 DEF PagesOf
    <3>3. ToSet(q) \subseteq M
      OBVIOUS
    <3> HIDE DEF q, M
    <3>4. q \in [1..(f.pages + 1) -> M]
      BY <3>2, <3>3 DEF ToSet
    <3>5. q \in Seq(M)
      BY <3>1, <3>4, FunctionIsSeq
    <3> QED BY <3>5 DEF q
  <2> HIDE DEF on, M
  <2>6. Len(on) \in Nat /\ DOMAIN on = 1..Len(on) /\ \A i \in 1..Len(on) : on[i] \in Page
    BY <2>3, ElementOfSeq, LenProperties
  <2>7. pages \in Seq(Seq(M)) /\ DOMAIN pages = 1..Len(on)
    <3>1. pages \in [1..Len(on) -> Seq(M)] /\ DOMAIN pages = 1..Len(on)
      BY <2>5, <2>6
    <3> HIDE DEF pages
    <3> QED BY <2>6, <3>1, FunctionIsSeq
  <2>8. \A i \in 1..Len(on) : pages[i] = PagesOf(on[i])
    BY <2>6
  <2> HIDE DEF pages
  <2>9. ToSet(pageMap') = UNION {ToSet(pages[i]) : i \in DOMAIN pages}
    BY <2>4, <2>7, FlattenHas
  <2>10. ASSUME NEW p \in ToSet(pageMap')
         PROVE  Marks(p)
    <3>1. PICK i \in 1..Len(on) : p \in ToSet(pages[i])
      BY <2>7, <2>9
    <3>2. p \in ToSet(PagesOf(on[i])) /\ on[i] \in Page
      BY <2>6, <2>8, <3>1
    <3>3. PICK k \in 1..(on[i].pages + 1) : p = <<Href(on[i]), k - 1>>
      BY <3>2 DEF PagesOf, ToSet
    <3>4. on[i] \in ToSet(on)
      BY <2>6 DEF ToSet
    <3>5. PICK j \in 1..Len(files) : j \in at /\ on[i] = files[j]
      BY <2>3, <3>4
    <3>6. files[j].spine
      BY <3>5
    <3>7. p[1] = Href(files[j]) /\ p[2] = k - 1
      BY <3>3, <3>5
    <3>8. k - 1 <= files[j].pages
      BY <3>2, <3>3, <3>5 DEF Page
    <3> QED BY <3>6, <3>7, <3>8 DEF Marks
  <2> QED BY <1>2, <2>10 DEF MarksThere
<1> QED BY <1>3, <1>4

-----------------------------------------------------------------------------
(* What the OPF and the text refer to is in the manifest. *)
OpfRefers ==
    /\ opt.overwrite = "no" => shown \subseteq Paths
    /\ css \subseteq Paths
    /\ \A g \in opf.guide : (g[1] = "toc" /\ tocEntries = 0) \/ g[2] \in Paths
    /\ \A id \in ToSet(opf.spine) : \E m \in ToSet(opf.manifest) : m.id = id

OpfRefersThere == step \in Listed => OpfRefers

RefsInvariant ==
    /\ CoverInvariant /\ ShownEarly /\ NotFoundThere /\ ShownThere /\ TextThere /\ TocThere
    /\ FontsThere /\ MarksThere /\ OpfRefersThere

(* The manifest has every part there is before it is made. *)
LEMMA PathsHave ==
  ASSUME Types, GenerateOPF
  PROVE  /\ \A i \in 1..Len(files) : files[i].manifest =>
              /\ Href(files[i]) \in Paths'
              /\ \E m \in ToSet(opf'.manifest) : m.id = <<files[i].kind, files[i].number>>
         /\ \A p : IsImage(p) => p \in Paths'
         /\ \A p : IsVignette(p) => p \in Paths'
         /\ \A i \in 1..Len(data) : data[i] \in Paths'
<1> DEFINE ms == Manifest(files')
<1>1. files \in Seq(Page) /\ Len(files) \in Nat
  BY LenProperties DEF Types
<1>2. files' \in Seq(Page)
  BY FilesChange, FilesAreTyped DEF Next
<1>3. /\ ms \in Seq(Items)
      /\ \A m : m \in ToSet(ms) <=>
                     \/ \E i \in 1..Len(files') : files'[i].manifest /\ m = FileItem(files'[i])
                     \/ \E i \in 1..Len(images) : m = ImageItem(i)
                     \/ \E i \in 1..Len(vignettes) : m = VignetteItem(i)
                     \/ \E i \in 1..Len(data) : m = DataItem(i)
  BY <1>2, ManifestHas
<1>4. opf'.manifest = ms
  BY DEF GenerateOPF
<1> HIDE DEF ms
<1>5. \A m \in ToSet(ms) : m.path \in Paths' /\ m \in ToSet(opf'.manifest)
  BY <1>3, <1>4 DEF Paths, ToSet
<1>6. \A i \in 1..Len(files) : i \in 1..Len(files') /\ files'[i] = files[i]
  <2> DEFINE f == File("opf", 0, 0)
  <2>1. f \in Page
    BY FileIsPage DEF Kinds
  <2>2. files' = Append(files, f)
    BY DEF GenerateOPF
  <2> HIDE DEF f
  <2>3. /\ Len(files') = Len(files) + 1
        /\ \A i \in 1..Len(files) : files'[i] = files[i]
    BY <1>1, <2>1, <2>2, AppendHas
  <2> QED BY <1>1, <2>3
<1>7. ASSUME NEW i \in 1..Len(files), files[i].manifest
      PROVE  /\ Href(files[i]) \in Paths'
             /\ \E m \in ToSet(opf'.manifest) : m.id = <<files[i].kind, files[i].number>>
  <2>1. FileItem(files[i]) \in ToSet(ms)
    BY <1>3, <1>6, <1>7
  <2>2. /\ FileItem(files[i]).path = Href(files[i])
        /\ FileItem(files[i]).id = <<files[i].kind, files[i].number>>
    BY DEF FileItem, ManifestItem
  <2> QED BY <1>5, <2>1, <2>2
<1>8. \A i \in 1..Len(images) : ImagePath(images[i]) \in Paths'
  <2> TAKE i \in 1..Len(images)
  <2>1. ImageItem(i) \in ToSet(ms)
    BY <1>3
  <2>2. ImageItem(i).path = ImagePath(images[i])
    BY DEF ImageItem, ManifestItem
  <2> QED BY <1>5, <2>1, <2>2
<1>9. \A i \in 1..Len(vignettes) : In("vignettes", vignettes[i][2]) \in Paths'
  <2> TAKE i \in 1..Len(vignettes)
  <2>1. VignetteItem(i) \in ToSet(ms)
    BY <1>3
  <2>2. VignetteItem(i).path = In("vignettes", vignettes[i][2])
    BY DEF VignetteItem, ManifestItem
  <2> QED BY <1>5, <2>1, <2>2
<1>10. \A i \in 1..Len(data) : data[i] \in Paths'
  <2> TAKE i \in 1..Len(data)
  <2>1. DataItem(i) \in ToSet(ms)
    BY <1>3
  <2>2. DataItem(i).path = data[i]
    BY DEF DataItem, ManifestItem
  <2> QED BY <1>5, <2>1, <2>2
<1> QED BY <1>7, <1>8, <1>9, <1>10 DEF IsImage, IsVignette

LEMMA SomeOfKind ==
  ASSUME NEW kind
  PROVE  LET i == SelectInSeq(files, LAMBDA f: f.kind = kind)
         IN  /\ i # 0 => i \in 1..Len(files) /\ files[i].kind = kind
             /\ (\E k \in 1..Len(files) : files[k].kind = kind) => i # 0
<1> DEFINE I == {k \in 1..Len(files) : files[k].kind = kind}
           i == SelectInSeq(files, LAMBDA f: f.kind = kind)
<1>1. i = IF I # {} THEN Min(I) ELSE 0
  BY DEF SelectInSeq
<1>2. I \in SUBSET Nat
  OBVIOUS
<1> HIDE DEF I
<1>3. I # {} => Min(I) \in I
  BY <1>2, LeastIsLeast
<1> HIDE DEF i
<1>4. /\ i # 0 => i \in 1..Len(files) /\ files[i].kind = kind
      /\ (\E k \in 1..Len(files) : files[k].kind = kind) => i # 0
  BY <1>1, <1>3 DEF I
<1> QED BY <1>4 DEF i

LEMMA GuideResolves ==
  ASSUME RefsInvariant, GenerateOPF
  PROVE  \A g \in Guide : (g[1] = "toc" /\ tocEntries = 0) \/ g[2] \in Paths'
<1>1. /\ Types /\ step = "opf" /\ files \in Seq(Page) /\ Len(files) \in Nat
      /\ DOMAIN files = 1..Len(files)
      /\ \A i \in 1..Len(files) : files[i] \in Page
  BY ElementOfSeq, LenProperties DEF RefsInvariant, CoverInvariant, Types, GenerateOPF, Goes
<1>2. \A i \in 1..Len(files) : files[i].kind # "opf" => Href(files[i]) \in Paths'
  <2>1. \A i \in 1..Len(files) : files[i].kind # "opf" => files[i].manifest
    BY <1>1 DEF Page
  <2> QED BY <1>1, <2>1, PathsHave
<1>3. cover # None /\ ~Kindle => In("", <<"cover", 0>>) \in Paths'
  <2>1. SUFFICES ASSUME cover # None, ~Kindle
                 PROVE  In("", <<"cover", 0>>) \in Paths'
    OBVIOUS
  <2>2. files # <<>> /\ files[1].kind = "cover" /\ files[1].number = 0
    BY <1>1, <2>1 DEF RefsInvariant, CoverInvariant, CoverThere, Fronted
  <2>3. 1 \in 1..Len(files)
    BY <1>1, <2>2, EmptySeq
  <2>4. Href(files[1]) = In("", <<"cover", 0>>)
    BY <2>2 DEF Href
  <2> QED BY <1>2, <2>2, <2>3, <2>4
<1>4. opt.toc # "none" => tocEntries = 0 \/ In("", <<"toc", 0>>) \in Paths'
  <2>1. SUFFICES ASSUME opt.toc # "none", tocEntries # 0
                 PROVE  In("", <<"toc", 0>>) \in Paths'
    OBVIOUS
  <2>2. PICK i \in 1..Len(files) : files[i].kind = "toc" /\ files[i].number = 0
    BY <1>1, <2>1 DEF RefsInvariant, TocThere, HasFile, Early
  <2>3. Href(files[i]) = In("", <<"toc", 0>>)
    BY <2>2 DEF Href
  <2> QED BY <1>2, <2>2, <2>3
<1>5. Begins \in Paths'
  <2> DEFINE At(kind) == SelectInSeq(files, LAMBDA f: f.kind = kind)
  <2>1. At("annotation") # 0 => Href(files[At("annotation")]) \in Paths'
    <3>1. At("annotation") # 0 => /\ At("annotation") \in 1..Len(files)
                                  /\ files[At("annotation")].kind = "annotation"
      BY SomeOfKind
    <3> HIDE DEF At
    <3> QED BY <1>2, <3>1
  <2>2. Href(files[At("index")]) \in Paths'
    <3>1. \E k \in 1..Len(files) : files[k].kind = "index"
      BY <1>1 DEF RefsInvariant, TextThere
    <3>2. At("index") \in 1..Len(files) /\ files[At("index")].kind = "index"
      BY <3>1, SomeOfKind
    <3> HIDE DEF At
    <3> QED BY <1>2, <3>2
  <2>3. Begins = CASE cover # None /\ opt.openFromCover /\ ~Kindle -> In("", <<"cover", 0>>)
                   [] opt.openFromCover /\ Kindle /\ At("annotation") # 0 ->
                        Href(files[At("annotation")])
                   [] OTHER -> Href(files[At("index")])
    BY DEF Begins
  <2> HIDE DEF At
  <2>4. CASE cover # None /\ opt.openFromCover /\ ~Kindle
    BY <1>3, <2>3, <2>4
  <2>5. CASE opt.openFromCover /\ Kindle /\ At("annotation") # 0
    BY <2>1, <2>3, <2>5
  <2>6. CASE /\ ~(cover # None /\ opt.openFromCover /\ ~Kindle)
             /\ ~(opt.openFromCover /\ Kindle /\ At("annotation") # 0)
    BY <2>2, <2>3, <2>6
  <2> QED BY <2>4, <2>5, <2>6
<1>6. \A g \in Guide : \/ g = <<"text", Begins>>
                       \/ cover # None /\ ~Kindle /\ g = <<"cover-page", In("", <<"cover", 0>>)>>
                       \/ opt.toc # "none" /\ g = <<"toc", In("", <<"toc", 0>>)>>
  BY DEF Guide
<1>7. ASSUME NEW g \in Guide
      PROVE  (g[1] = "toc" /\ tocEntries = 0) \/ g[2] \in Paths'
  <2>1. CASE g = <<"text", Begins>>
    <3>1. g[2] = Begins
      BY <2>1
    <3> QED BY <1>5, <3>1
  <2>2. CASE cover # None /\ ~Kindle /\ g = <<"cover-page", In("", <<"cover", 0>>)>>
    <3>1. g[2] = In("", <<"cover", 0>>)
      BY <2>2
    <3> QED BY <1>3, <2>2, <3>1
  <2>3. CASE opt.toc # "none" /\ g = <<"toc", In("", <<"toc", 0>>)>>
    <3>1. g[1] = "toc" /\ g[2] = In("", <<"toc", 0>>)
      BY <2>3
    <3> QED BY <1>4, <2>3, <3>1
  <2> QED BY <1>6, <2>1, <2>2, <2>3
<1> QED BY <1>7

LEMMA OpfRefersKept ==
  ASSUME RefsInvariant, [Next]_vars
  PROVE  OpfRefersThere'
<1>1. Types
  BY DEF RefsInvariant, CoverInvariant
<1>2. CASE step \in Listed
  <2>1. opf' = opf /\ opt' = opt /\ shown' = shown /\ css' = css /\ tocEntries' = tocEntries
    BY <1>2 DEF Listed, Goes, Next, vars, ProcessBinary, StartText, NextFile, TransferImage,
                UseVignette, EndText, ProcessImages, GenerateTOCPage, GenerateCover, GenerateNCX,
                PrepareStylesheet, GeneratePagemap, GenerateOPF, KepubifyXHTML, FlushAll
  <2>2. OpfRefers
    BY <1>2 DEF RefsInvariant, OpfRefersThere
  <2>3. Paths' = Paths
    BY <2>1 DEF Paths
  <2> QED BY <2>1, <2>2, <2>3 DEF OpfRefersThere, OpfRefers
<1>3. CASE GenerateOPF
  <2>1. /\ step = "opf" /\ opt' = opt /\ shown' = shown /\ css' = css /\ tocEntries' = tocEntries
        /\ opf'.guide = Guide
        /\ opf'.spine = [i \in DOMAIN OnSpine(files) |->
                           <<OnSpine(files)[i].kind, OnSpine(files)[i].number>>]
    BY <1>3 DEF GenerateOPF, Goes
  <2>2. opt.overwrite = "no" => shown' \subseteq Paths'
    <3>1. opt.overwrite = "no" => \A p \in shown : IsVignette(p) \/ IsImage(p)
      BY <2>1 DEF RefsInvariant, ShownThere, Early, Listed
    <3> QED BY <1>1, <1>3, <2>1, <3>1, PathsHave
  <2>3. css' \subseteq Paths'
    <3>1. \A p \in css : \E i \in 1..Len(data) : data[i] = p
      BY <2>1 DEF RefsInvariant, FontsThere, Listed
    <3> QED BY <1>1, <1>3, <2>1, <3>1, PathsHave
  <2>4. \A g \in opf'.guide : (g[1] = "toc" /\ tocEntries' = 0) \/ g[2] \in Paths'
    BY <1>3, <2>1, GuideResolves
  <2>5. \A id \in ToSet(opf'.spine) : \E m \in ToSet(opf'.manifest) : m.id = id
    <3> DEFINE at == {i \in DOMAIN files : files[i].spine}
               on == Only(files, at)
               spine == [i \in DOMAIN on |-> <<on[i].kind, on[i].number>>]
    <3>1. files \in Seq(Page) /\ DOMAIN files = 1..Len(files)
          /\ \A i \in 1..Len(files) : files[i] \in Page
      BY <1>1, ElementOfSeq, LenProperties DEF Types
    <3>2. \A x : x \in ToSet(on) <=> \E i \in 1..Len(files) : i \in at /\ x = files[i]
      <4> HIDE DEF at
      <4> QED BY <3>1, OnlyHas
    <3>3. opf'.spine = spine
      BY <2>1 DEF OnSpine
    <3> HIDE DEF on
    <3>4. \A id \in ToSet(spine) : \E f \in ToSet(on) : id = <<f.kind, f.number>>
      BY DEF ToSet
    <3>5. \A i \in 1..Len(files) : files[i].spine => files[i].manifest
      BY <3>1 DEF Page
    <3>6. \A id \in ToSet(spine) : \E i \in 1..Len(files) :
             files[i].manifest /\ id = <<files[i].kind, files[i].number>>
      BY <3>2, <3>4, <3>5
    <3> HIDE DEF spine
    <3>7. \A i \in 1..Len(files) : files[i].manifest =>
            \E m \in ToSet(opf'.manifest) : m.id = <<files[i].kind, files[i].number>>
      BY <1>1, <1>3, PathsHave
    <3>8. \A id \in ToSet(spine) : \E m \in ToSet(opf'.manifest) : m.id = id
      <4> TAKE id \in ToSet(spine)
      <4>1. PICK i \in 1..Len(files) : files[i].manifest /\ id = <<files[i].kind, files[i].number>>
        BY <3>6
      <4> QED BY <3>7, <4>1
    <3> QED BY <3>3, <3>8
  <2> QED BY <2>1, <2>2, <2>3, <2>4, <2>5 DEF OpfRefersThere, OpfRefers
<1>4. step \in Listed \/ GenerateOPF \/ step' \notin Listed
  BY DEF Listed, Goes, Next, vars, ProcessBinary, StartText, NextFile, TransferImage, UseVignette,
         EndText, ProcessImages, GenerateTOCPage, GenerateCover, GenerateNCX, PrepareStylesheet,
         GeneratePagemap, KepubifyXHTML, FlushAll
<1>5. step' \notin Listed => OpfRefersThere'
  BY DEF OpfRefersThere
<1> QED BY <1>2, <1>3, <1>4, <1>5

(* THEOREM.  When the ids of the images are none of the program's own and  *)
(* the stylesheet asks for fonts only, every part of a book that the text, *)
(* the stylesheet, the guide, the spine or the page map refers to is in    *)
(* the manifest, and so are the page marks in the files: for any number of *)
(* binaries, files, pages and shown images, and for every setting, where   *)
(* images of the text are taken as RefsResolve takes them.                 *)
THEOREM PackageRefsResolve ==
  ASSUME OwnIds, FontsOnly
  PROVE  Spec => []RefsResolve
<1>1. Init => RefsInvariant
  <2>1. Len(<<>>) = 0 /\ ToSet(<<>>) = {}
    BY DEF ToSet
  <2>2. Init => CoverInvariant
    BY <2>1, TypesFirst DEF Init, CoverInvariant, CoverKnown, CoverAlone, CoverThere,
       CoverListed, Early, Fronted, Listed
  <2>3. Init => /\ ShownEarly /\ NotFoundThere /\ ShownThere /\ TextThere /\ TocThere
                /\ FontsThere /\ MarksThere /\ OpfRefersThere
    BY <2>1 DEF Init, ShownEarly, NotFoundThere, ShownThere, TextThere, TocThere, FontsThere,
                MarksThere, OpfRefersThere, Early, Listed
  <2> QED BY <2>2, <2>3 DEF RefsInvariant
<1>2. RefsInvariant /\ [Next]_vars => RefsInvariant'
  <2>1. SUFFICES ASSUME RefsInvariant, [Next]_vars
                 PROVE  RefsInvariant'
    OBVIOUS
  <2>2. CoverInvariant /\ Types
    BY <2>1 DEF RefsInvariant, CoverInvariant
  <2>3. CoverInvariant'
    BY <2>1, <2>2, TypesKept, KnownKept, AloneKept, ThereKept, ListedKept DEF CoverInvariant
  <2>4. ShownEarly' /\ NotFoundThere' /\ ShownThere'
    BY <2>1, <2>2, ShownEarlyKept, ShownThereKept DEF RefsInvariant
  <2>5. TextThere' /\ TocThere' /\ FontsThere' /\ MarksThere'
    BY <2>1, <2>2, TextKept, TocKept, FontsKept, MarksKept DEF RefsInvariant
  <2>6. OpfRefersThere'
    BY <2>1, OpfRefersKept
  <2> QED BY <2>3, <2>4, <2>5, <2>6 DEF RefsInvariant
<1>3. RefsInvariant => RefsResolve
  <2>1. SUFFICES ASSUME RefsInvariant, Done
                 PROVE  RefsResolve
    BY DEF RefsResolve
  <2>2. OpfRefers
    BY <2>1 DEF RefsInvariant, OpfRefersThere, Done, Listed
  <2>3. \A p \in ToSet(pageMap) :
                 \E f \in ToSet(files) : f.spine /\ Href(f) = p[1] /\ p[2] <= f.pages
    <3>1. \A i \in 1..Len(files) : files[i] \in ToSet(files)
      BY <2>1, LenProperties DEF RefsInvariant, CoverInvariant, Types, ToSet
    <3> QED BY <2>1, <3>1 DEF RefsInvariant, MarksThere, Marks
  <2> QED BY <2>2, <2>3 DEF RefsResolve, OpfRefers
<1> QED BY <1>1, <1>2, <1>3, PTL DEF Spec

-----------------------------------------------------------------------------
(* Every part has a name of its own, if no binary is left out and what     *)
(* comes from outside has names of its own.                                *)
NothingLeftOut ==
    /\ "garbage" \notin BinaryKinds
    /\ "broken" \in BinaryKinds => \A s \in Settings : s.useBroken

OwnNames ==
    /\ \A v, w \in Vignettes : v[2] = w[2] => v = w
    /\ \A s \in Settings : \A i, j \in 1..Len(s.urls) :
         i # j => Resource(s.urls[i]) # Resource(s.urls[j])

(* Images are numbered; until the cover is chosen the next number is how   *)
(* many there are.                                                         *)
ImagesNumbered ==
    /\ \A i, j \in 1..Len(images) : i # j => images[i].name[2] # images[j].name[2]
    /\ step \in Early => \A i \in 1..Len(images) : images[i].name[2] < Len(images)
    /\ step = "binaries" => bins = Len(images)

LEMMA NumberedBehind ==
  ASSUME Types, ImagesNumbered, step \in Early, NEW b, Behind(b), b.name[2] = Len(images)
  PROVE  /\ \A i, j \in 1..Len(images') : i # j => images'[i].name[2] # images'[j].name[2]
         /\ \A i \in 1..Len(images') : images'[i].name[2] < Len(images')
<1>1. Len(images) \in Nat /\ Len(images') = Len(images) + 1
  BY LenProperties DEF Types, Behind
<1>2. \A i \in 1..Len(images) : images[i] \in Image
  BY ElementOfSeq DEF Types
<1>3. \A i \in 1..Len(images) :
        /\ images[i].name[2] \in Nat /\ images[i].name[2] < Len(images)
        /\ images'[i].name[2] = images[i].name[2]
  BY <1>2 DEF Image, ImagesNumbered, Behind
<1>4. images'[Len(images) + 1].name[2] = Len(images)
  BY DEF Behind
<1>5. \A i, j \in 1..Len(images) : i # j => images[i].name[2] # images[j].name[2]
  BY DEF ImagesNumbered
<1>6. ASSUME NEW i \in 1..Len(images'), NEW j \in 1..Len(images'), i < j
      PROVE  images'[i].name[2] # images'[j].name[2]
  <2>1. i \in 1..Len(images)
    BY <1>1, <1>6
  <2>2. CASE j \in 1..Len(images)
    BY <1>3, <1>5, <1>6, <2>1, <2>2
  <2>3. CASE j = Len(images) + 1
    BY <1>1, <1>3, <1>4, <2>1, <2>3
  <2> QED BY <1>1, <2>2, <2>3
<1>7. \A i, j \in 1..Len(images') : i # j => images'[i].name[2] # images'[j].name[2]
  <2> TAKE i, j \in 1..Len(images')
  <2>1. i # j => i < j \/ j < i
    BY <1>1
  <2> QED BY <1>6, <2>1
<1>8. \A i \in 1..Len(images') : images'[i].name[2] < Len(images')
  BY <1>1, <1>3, <1>4
<1> QED BY <1>7, <1>8

LEMMA NumberedKept ==
  ASSUME NothingLeftOut, Types, ImagesNumbered, [Next]_vars
  PROVE  ImagesNumbered'
<1>1. images \in Seq(Image) /\ Len(images) \in Nat
  BY LenProperties DEF Types
<1>2. \A b \in Image : images' = Append(images, b) => Behind(b)
  BY <1>1, AppendHas DEF Behind
<1>3. ASSUME NEW kind \in BinaryKinds, NEW id \in Ids, ProcessBinary(kind, id)
      PROVE  ImagesNumbered'
  <2>1. step = "binaries" /\ step' = "binaries" /\ bins' = bins + 1
    BY <1>3 DEF ProcessBinary, Goes
  <2>2. ~(kind \in {"garbage", "broken"} /\ (kind = "broken" => ~opt.useBroken))
    BY DEF NothingLeftOut, Types
  <2>3. PICK b \in Image : images' = Append(images, b) /\ b.name = BinName(bins, kind)
    BY <1>3, <2>2, NewBinary
  <2>4. b.name[2] = Len(images)
    BY <2>1, <2>3 DEF ImagesNumbered, BinName
  <2>5. Behind(b)
    BY <1>2, <2>3
  <2>6. Len(images') = Len(images) + 1 /\ bins = Len(images)
    BY <2>1, <2>5 DEF Behind, ImagesNumbered
  <2> QED BY <2>1, <2>4, <2>5, <2>6, NumberedBehind DEF ImagesNumbered, Early
<1>4. ASSUME NEW id \in Ids, TransferImage(id)
      PROVE  ImagesNumbered'
  <2>1. step = "text" /\ step' = "text"
    BY <1>4 DEF TransferImage, Goes
  <2>2. CASE images' = images
    BY <2>1, <2>2 DEF ImagesNumbered, Early
  <2>3. ASSUME NEW b \in Image, images' = Append(images, b), b.name = BinName(Len(images), "png")
        PROVE  ImagesNumbered'
    <3>1. b.name[2] = Len(images) /\ Behind(b)
      BY <1>2, <2>3 DEF BinName
    <3> QED BY <2>1, <3>1, NumberedBehind DEF ImagesNumbered, Early
  <2> QED BY <1>4, <2>2, <2>3, ImagesFromText
<1>5. CASE ProcessImages
  <2>1. step \in Early /\ step' = "toc" /\ step' \notin Early /\ step' # "binaries"
    BY <1>5 DEF ProcessImages, Goes, Early
  <2>2. CASE images' = images
    BY <2>1, <2>2 DEF ImagesNumbered
  <2>3. CASE images' = Append(images, DefaultCover)
    <3>1. DefaultCover.name[2] = Len(images) /\ Behind(DefaultCover)
      BY <1>2, <2>3, DefaultIsImage DEF BinName
    <3> QED BY <2>1, <3>1, NumberedBehind DEF ImagesNumbered
  <2>4. CASE images' = FirstCover(cover)
    <3> DEFINE k == Kept(cover)
               at == Left(cover)
    <3>1. /\ FirstCover(cover) = Only(k, at)
          /\ k \in Seq(Image) /\ Len(k) = Len(images)
          /\ \A i \in 1..Len(images) : k[i].name[2] = images[i].name[2]
      BY CoverKept
    <3> HIDE DEF k, at
    <3> DEFINE o == Only(k, at)
    <3>2. \A j, l \in 1..Len(o) : j # l =>
              \E a, b \in 1..Len(k) : /\ a # b /\ a \in at /\ b \in at
                                      /\ o[j] = k[a] /\ o[l] = k[b]
      <4>1. k \in Seq(Image)
        BY <3>1
      <4> QED BY <4>1, OnlyHas
    <3>3. images' = o
      BY <2>4, <3>1
    <3> HIDE DEF o
    <3>4. ASSUME NEW j \in 1..Len(images'), NEW l \in 1..Len(images'), j # l
          PROVE  images'[j].name[2] # images'[l].name[2]
      <4>1. PICK a, b \in 1..Len(images) : a # b /\ images'[j] = k[a] /\ images'[l] = k[b]
        BY <3>1, <3>2, <3>3, <3>4
      <4>2. images[a].name[2] # images[b].name[2]
        BY <4>1 DEF ImagesNumbered
      <4> QED BY <3>1, <4>1, <4>2
    <3> QED BY <2>1, <3>4 DEF ImagesNumbered
  <2>5. images' = images \/ images' = Append(images, DefaultCover) \/ images' = FirstCover(cover)
    BY <1>5 DEF ProcessImages
  <2> QED BY <2>2, <2>3, <2>4, <2>5
<1>6. CASE /\ step' # "binaries" /\ (step' \in Early => step \in Early)
           /\ Len(images') = Len(images)
           /\ \A i \in 1..Len(images) : images'[i].name = images[i].name
  BY <1>6 DEF ImagesNumbered
<1>7. ASSUME NEW tall \in BOOLEAN, NEW titled \in BOOLEAN, GenerateCover(tall, titled)
      PROVE  ImagesNumbered'
  <2>1. step' # "binaries" /\ step' \notin Early
    BY <1>7 DEF GenerateCover, Goes, Early
  <2> QED BY <1>6, <1>7, <2>1, ImagesFromCover
<1>8. ASSUME NEW late \in BOOLEAN, FlushAll(late)
      PROVE  ImagesNumbered'
  <2>1. step' # "binaries" /\ step' \notin Early
    BY <1>8 DEF FlushAll, Goes, Early
  <2>2. /\ Len(images') = Len(images)
        /\ \A i \in 1..Len(images) : images[i] \in Image /\ images'[i] = Flushed(images[i])
    BY <1>8, ImagesFromFlush
  <2>3. \A b \in Image : Flushed(b).name = b.name
    BY DEF Flushed, Image
  <2> QED BY <1>6, <2>1, <2>2, <2>3
<1>9. CASE UNCHANGED vars
  BY <1>9 DEF vars, ImagesNumbered
<1>10. \/ \E kind \in BinaryKinds, id \in Ids : ProcessBinary(kind, id)
       \/ \E id \in Ids : TransferImage(id)
       \/ ProcessImages
       \/ \E tall, titled \in BOOLEAN : GenerateCover(tall, titled)
       \/ \E late \in BOOLEAN : FlushAll(late)
       \/ UNCHANGED vars
       \/ images' = images /\ step' # "binaries" /\ (step' \in Early => step \in Early)
  BY DEF Early, Goes, Next, StartText, NextFile, UseVignette, EndText, GenerateTOCPage, GenerateNCX,
         PrepareStylesheet, GeneratePagemap, GenerateOPF, KepubifyXHTML
<1>11. CASE images' = images /\ step' # "binaries" /\ (step' \in Early => step \in Early)
  BY <1>6, <1>11
<1> QED BY <1>3, <1>4, <1>5, <1>7, <1>8, <1>9, <1>10, <1>11

-----------------------------------------------------------------------------
(* Files are told apart by kind and number.  A generator adds the only     *)
(* file of its kind.                                                       *)
Apart2(f, g) == f.kind # g.kind \/ f.number # g.number

FilesApart == \A i, j \in 1..Len(files) : i # j => Apart2(files[i], files[j])

BeforeKind(kind) ==
    CASE kind = "toc" -> Early \union {"toc"}
      [] kind = "cover" -> Early \union {"toc", "cover"}
      [] kind = "ncx" -> Early \union {"toc", "cover", "ncx"}
      [] kind = "page-map" -> Early \union {"toc", "cover", "ncx", "stylesheet", "pagemap"}
      [] kind = "opf" -> Early \union {"toc", "cover", "ncx", "stylesheet", "pagemap", "opf"}

NotYet(kind) == step \in BeforeKind(kind) => \A i \in 1..Len(files) : files[i].kind # kind

Generated == {"toc", "cover", "ncx", "page-map", "opf"}

FilesNumbered ==
    /\ FilesApart
    /\ \A kind \in Generated : NotYet(kind)
    /\ step \in Early => \A i \in 1..Len(files) : files[i].number = i

LEMMA FileBehind ==
  ASSUME Types, FilesApart, NEW f \in Page, \A i \in 1..Len(files) : Apart2(files[i], f),
         files' = Append(files, f) \/ files' = <<f>> \o files
  PROVE  /\ FilesApart'
         /\ Len(files') = Len(files) + 1
         /\ \A i \in 1..Len(files') : files'[i] = f \/ \E k \in 1..Len(files) : files'[i] = files[k]
<1>1. files \in Seq(Page) /\ Len(files) \in Nat
  BY LenProperties DEF Types
<1>2. \A i, j \in 1..Len(files) : i # j => Apart2(files[i], files[j])
  BY DEF FilesApart
<1>3. \A i \in 1..Len(files) : Apart2(f, files[i])
  BY DEF Apart2
<1>4. CASE files' = Append(files, f)
  <2>1. /\ Len(files') = Len(files) + 1 /\ files'[Len(files) + 1] = f
        /\ \A i \in 1..Len(files) : files'[i] = files[i]
    BY <1>1, <1>4, AppendHas
  <2>2. ASSUME NEW i \in 1..Len(files'), NEW j \in 1..Len(files'), i # j
        PROVE  Apart2(files'[i], files'[j])
    <3>1. CASE i \in 1..Len(files) /\ j \in 1..Len(files)
      BY <1>2, <2>1, <2>2, <3>1
    <3>2. CASE i \in 1..Len(files) /\ j = Len(files) + 1
      BY <2>1, <3>2
    <3>3. CASE j \in 1..Len(files) /\ i = Len(files) + 1
      BY <1>3, <2>1, <3>3
    <3> QED BY <1>1, <2>1, <2>2, <3>1, <3>2, <3>3
  <2>3. FilesApart'
    BY <2>2 DEF FilesApart
  <2>4. \A i \in 1..Len(files') : files'[i] = f \/ \E k \in 1..Len(files) : files'[i] = files[k]
    BY <1>1, <2>1
  <2> QED BY <2>1, <2>3, <2>4
<1>5. CASE files' = <<f>> \o files
  <2>1. /\ Len(files') = Len(files) + 1 /\ files'[1] = f
        /\ \A i \in 1..Len(files) : files'[i + 1] = files[i]
    BY <1>1, <1>5, PrependHas
  <2>2. \A i \in 1..Len(files') : i = 1 \/ (i - 1 \in 1..Len(files) /\ files'[i] = files[i - 1])
    <3> TAKE i \in 1..Len(files')
    <3>1. i = 1 \/ (i - 1 \in 1..Len(files) /\ (i - 1) + 1 = i)
      BY <1>1, <2>1
    <3> QED BY <2>1, <3>1
  <2>3. ASSUME NEW i \in 1..Len(files'), NEW j \in 1..Len(files'), i # j
        PROVE  Apart2(files'[i], files'[j])
    <3>1. CASE i # 1 /\ j # 1
      <4>1. i - 1 # j - 1
        BY <1>1, <2>1, <2>3
      <4> QED BY <1>2, <2>2, <3>1, <4>1
    <3>2. CASE i = 1
      BY <1>3, <2>1, <2>2, <2>3, <3>2
    <3>3. CASE j = 1
      BY <2>1, <2>2, <2>3, <3>3
    <3> QED BY <3>1, <3>2, <3>3
  <2>4. FilesApart'
    BY <2>3 DEF FilesApart
  <2>5. \A i \in 1..Len(files') : files'[i] = f \/ \E k \in 1..Len(files) : files'[i] = files[k]
    BY <2>1, <2>2
  <2> QED BY <2>1, <2>4, <2>5
<1> QED BY <1>4, <1>5

(* A generator adds its file once. *)
LEMMA GeneratedOnce ==
  ASSUME Types, FilesNumbered, NEW kind \in Generated,
         files' = Append(files, File(kind, 0, 0)) \/ files' = <<File(kind, 0, 0)>> \o files,
         step \in BeforeKind(kind), step' \notin BeforeKind(kind), step' \notin Early,
         \A k \in Generated : step' \in BeforeKind(k) => step \in BeforeKind(k)
  PROVE  FilesNumbered'
<1> DEFINE f == File(kind, 0, 0)
<1>1. f \in Page /\ f.kind = kind
  BY FileIsPage DEF Generated, Kinds
<1>2. files' = Append(files, f) \/ files' = <<f>> \o files
  OBVIOUS
<1> HIDE DEF f
<1>3. \A i \in 1..Len(files) : Apart2(files[i], f)
  BY <1>1 DEF FilesNumbered, NotYet, Apart2
<1>4. /\ FilesApart'
      /\ \A i \in 1..Len(files') : files'[i] = f \/ \E k \in 1..Len(files) : files'[i] = files[k]
  BY <1>1, <1>2, <1>3, FileBehind DEF FilesNumbered
<1>5. ASSUME NEW k \in Generated, step' \in BeforeKind(k), NEW i \in 1..Len(files')
      PROVE  files'[i].kind # k
  <2>1. k # kind /\ step \in BeforeKind(k)
    BY <1>5
  <2>2. \A l \in 1..Len(files) : files[l].kind # k
    BY <2>1 DEF FilesNumbered, NotYet
  <2> QED BY <1>1, <1>4, <2>1, <2>2
<1> QED BY <1>4, <1>5 DEF FilesNumbered, NotYet

LEMMA FilesNumberedKept ==
  ASSUME Types, FilesNumbered, [Next]_vars
  PROVE  FilesNumbered'
<1>1. files \in Seq(Page) /\ Len(files) \in Nat /\ DOMAIN files = 1..Len(files)
      /\ \A i \in 1..Len(files) : files[i] \in Page
  BY ElementOfSeq, LenProperties DEF Types
<1>2. ASSUME NEW kind \in {"index", "annotation"}, NEW pages \in 0..1, NEW titled \in BOOLEAN,
             NextFile(kind, pages, titled)
      PROVE  FilesNumbered'
  <2> DEFINE f == File(kind, Len(files) + 1, pages)
  <2>1. f \in Page /\ f.kind = kind /\ f.number = Len(files) + 1
    <3>1. kind \in Kinds /\ Len(files) + 1 \in Nat /\ pages \in Nat
      BY <1>1 DEF Kinds
    <3> QED BY <3>1, FileIsPage
  <2>2. files' = Append(files, f) /\ step = "text" /\ step' = "text"
    BY <1>2 DEF NextFile, Goes
  <2> HIDE DEF f
  <2>3. \A i \in 1..Len(files) : files[i].number = i
    BY <2>2 DEF FilesNumbered, Early
  <2>4. \A i \in 1..Len(files) : Apart2(files[i], f)
    BY <1>1, <2>1, <2>3 DEF Apart2
  <2>5. /\ FilesApart'
        /\ \A i \in 1..Len(files') : files'[i] = f \/ \E k \in 1..Len(files) : files'[i] = files[k]
    BY <2>1, <2>2, <2>4, FileBehind DEF FilesNumbered
  <2>6. \A i \in 1..Len(files') : files'[i].number = i
    <3>1. /\ Len(files') = Len(files) + 1 /\ files'[Len(files) + 1] = f
          /\ \A i \in 1..Len(files) : files'[i] = files[i]
      BY <1>1, <2>1, <2>2, AppendHas
    <3> QED BY <1>1, <2>1, <2>3, <3>1
  <2>7. \A k \in Generated : NotYet(k)'
    <3> SUFFICES ASSUME NEW k \in Generated, step' \in BeforeKind(k), NEW i \in 1..Len(files')
                 PROVE  files'[i].kind # k
      BY DEF NotYet
    <3>1. \A l \in 1..Len(files) : files[l].kind # k
      BY <2>2 DEF FilesNumbered, NotYet
    <3>2. kind # k
      BY DEF Generated
    <3> QED BY <2>1, <2>5, <3>1, <3>2
  <2> QED BY <2>5, <2>6, <2>7 DEF FilesNumbered
<1>3. CASE /\ files' = files
           /\ \A k \in Generated : step' \in BeforeKind(k) => step \in BeforeKind(k)
           /\ step' \in Early => step \in Early
  BY <1>3 DEF FilesNumbered, FilesApart, NotYet
<1>4. CASE GenerateTOCPage
  <2>1. step = "toc" /\ step' = "cover"
    BY <1>4 DEF GenerateTOCPage, Goes
  <2>2. /\ "toc" \in Generated /\ step \in BeforeKind("toc") /\ step' \notin BeforeKind("toc")
        /\ step' \notin Early
        /\ \A k \in Generated : step' \in BeforeKind(k) => step \in BeforeKind(k)
    BY <2>1 DEF Generated, BeforeKind, Early
  <2> DEFINE page == File("toc", 0, 0)
  <2>3. files' = files \/ files' = <<page>> \o files \/ files' = Append(files, page)
    <3>1. opt.toc \in {"none", "before", "after"} /\ tocEntries \in Nat
      BY PackageAssumption DEF Types
    <3>2. files' = CASE opt.toc = "none" \/ tocEntries = 0 -> files
                     [] opt.toc = "before" /\ tocEntries > 0 -> <<page>> \o files
                     [] opt.toc = "after" /\ tocEntries > 0 -> Append(files, page)
      BY <1>4 DEF GenerateTOCPage
    <3> HIDE DEF page
    <3>3. CASE opt.toc = "none" \/ tocEntries = 0
      BY <3>2, <3>3
    <3>4. CASE opt.toc = "before" /\ tocEntries > 0
      BY <3>1, <3>2, <3>4
    <3>5. CASE opt.toc = "after" /\ tocEntries > 0
      BY <3>1, <3>2, <3>5
    <3> QED BY <3>1, <3>3, <3>4, <3>5
  <2> QED BY <1>3, <2>2, <2>3, GeneratedOnce
<1>5. ASSUME NEW tall \in BOOLEAN, NEW titled \in BOOLEAN, GenerateCover(tall, titled)
      PROVE  FilesNumbered'
  <2>1. step = "cover" /\ step' = "ncx"
    BY <1>5 DEF GenerateCover, Goes
  <2>2. /\ "cover" \in Generated /\ step \in BeforeKind("cover") /\ step' \notin BeforeKind("cover")
        /\ step' \notin Early
        /\ \A k \in Generated : step' \in BeforeKind(k) => step \in BeforeKind(k)
    BY <2>1 DEF Generated, BeforeKind, Early
  <2>3. files' = files \/ files' = <<File("cover", 0, 0)>> \o files
    BY <1>5 DEF GenerateCover
  <2> QED BY <1>3, <2>2, <2>3, GeneratedOnce
<1>6. CASE GenerateNCX
  <2>1. step = "ncx" /\ step' = "stylesheet" /\ files' = Append(files, File("ncx", 0, 0))
    BY <1>6 DEF GenerateNCX, Goes
  <2>2. /\ "ncx" \in Generated /\ step \in BeforeKind("ncx") /\ step' \notin BeforeKind("ncx")
        /\ step' \notin Early
        /\ \A k \in Generated : step' \in BeforeKind(k) => step \in BeforeKind(k)
    BY <2>1 DEF Generated, BeforeKind, Early
  <2> QED BY <2>1, <2>2, GeneratedOnce
<1>7. CASE GeneratePagemap
  <2>1. step = "pagemap" /\ step' = "opf"
        /\ (files' = files \/ files' = Append(files, File("page-map", 0, 0)))
    BY <1>7 DEF GeneratePagemap, Goes
  <2>2. /\ "page-map" \in Generated /\ step \in BeforeKind("page-map")
        /\ step' \notin BeforeKind("page-map") /\ step' \notin Early
        /\ \A k \in Generated : step' \in BeforeKind(k) => step \in BeforeKind(k)
    BY <2>1 DEF Generated, BeforeKind, Early
  <2> QED BY <1>3, <2>1, <2>2, GeneratedOnce
<1>8. CASE GenerateOPF
  <2>1. step = "opf" /\ step' = "meta" /\ files' = Append(files, File("opf", 0, 0))
    BY <1>8 DEF GenerateOPF, Goes
  <2>2. /\ "opf" \in Generated /\ step \in BeforeKind("opf") /\ step' \notin BeforeKind("opf")
        /\ step' \notin Early
        /\ \A k \in Generated : step' \in BeforeKind(k) => step \in BeforeKind(k)
    BY <2>1 DEF Generated, BeforeKind, Early
  <2> QED BY <2>1, <2>2, GeneratedOnce
<1>9. CASE KepubifyXHTML
  <2>1. /\ step' = "flush"
        /\ \/ files' = [i \in DOMAIN files |-> [files[i] EXCEPT !.kobo = files[i].spine]]
           \/ files' = files
    BY <1>9 DEF KepubifyXHTML, Goes
  <2>2. step' \notin Early /\ \A k \in Generated : step' \notin BeforeKind(k)
    <3>1. step' = "flush"
      BY <2>1
    <3> QED BY <3>1 DEF Generated, BeforeKind, Early
  <2>3. CASE files' = files
    BY <1>3, <2>2, <2>3
  <2>4. CASE files' = [i \in DOMAIN files |-> [files[i] EXCEPT !.kobo = files[i].spine]]
    <3>1. \A f \in Page : [f EXCEPT !.kobo = f.spine] \in Page
      BY DEF Page
    <3>2. \A f \in Page : LET g == [f EXCEPT !.kobo = f.spine]
                          IN  g.kind = f.kind /\ g.number = f.number
      BY DEF Page
    <3>3. files' \in [1..Len(files) -> Page]
      BY <1>1, <2>4, <3>1
    <3>4. Len(files') = Len(files)
      BY <1>1, <3>3, FunctionIsSeq
    <3>5. \A i \in 1..Len(files) :
            files'[i].kind = files[i].kind /\ files'[i].number = files[i].number
      BY <1>1, <2>4, <3>2
    <3>6. FilesApart'
      BY <3>4, <3>5 DEF FilesNumbered, FilesApart, Apart2
    <3> QED BY <2>2, <3>6 DEF FilesNumbered, NotYet
  <2> QED BY <2>1, <2>3, <2>4
<1>10. CASE \/ \E kind \in BinaryKinds, id \in Ids : ProcessBinary(kind, id)
            \/ StartText
            \/ \E id \in Ids : TransferImage(id)
            \/ \E v \in Vignettes : UseVignette(v)
            \/ EndText \/ ProcessImages \/ PrepareStylesheet
            \/ \E late \in BOOLEAN : FlushAll(late)
            \/ UNCHANGED vars
  <2>1. files' = files
    BY <1>10 DEF ProcessBinary, StartText, TransferImage, UseVignette, EndText, ProcessImages,
                 PrepareStylesheet, FlushAll, vars
  <2>2. \/ step \in Early /\ step' \in Early
        \/ step \in Early /\ step' = "toc"
        \/ step = "stylesheet" /\ step' = "pagemap"
        \/ step' = "done"
        \/ step' = step
    BY <1>10 DEF ProcessBinary, StartText, TransferImage, UseVignette, EndText, ProcessImages,
                 PrepareStylesheet, FlushAll, vars, Goes, Early
  <2>3. /\ \A k \in Generated : step' \in BeforeKind(k) => step \in BeforeKind(k)
        /\ step' \in Early => step \in Early
    BY <2>2 DEF Generated, BeforeKind, Early
  <2> QED BY <1>3, <2>1, <2>3
<1> QED BY <1>2, <1>4, <1>5, <1>6, <1>7, <1>8, <1>9, <1>10 DEF Next

-----------------------------------------------------------------------------
(* Vignettes are kept once, and so are the stylesheet and its resources.   *)
PartsOnce ==
    /\ \A i, j \in 1..Len(vignettes) : i # j => vignettes[i] # vignettes[j]
    /\ \A i, j \in 1..Len(data) : i # j => data[i] # data[j]

LEMMA PartsOnceKept ==
  ASSUME OwnNames, Types, PartsOnce, [Next]_vars
  PROVE  PartsOnce'
<1>1. /\ vignettes \in Seq(Vignettes) /\ Len(vignettes) \in Nat /\ opt \in Settings
      /\ opt.urls \in Seq(STRING \X STRING)
  BY PackageAssumption, LenProperties DEF Types
<1>2. \A i, j \in 1..Len(vignettes') : i # j => vignettes'[i] # vignettes'[j]
  <2>1. \/ vignettes' = vignettes
        \/ \E v \in Vignettes : ~Contains(vignettes, v) /\ vignettes' = Append(vignettes, v)
    BY DEF Next, vars, ProcessBinary, StartText, NextFile, TransferImage, UseVignette, EndText,
           ProcessImages, GenerateTOCPage, GenerateCover, GenerateNCX, PrepareStylesheet,
           GeneratePagemap, GenerateOPF, KepubifyXHTML, FlushAll
  <2>2. ASSUME NEW v \in Vignettes, ~Contains(vignettes, v), vignettes' = Append(vignettes, v)
        PROVE  \A i, j \in 1..Len(vignettes') : i # j => vignettes'[i] # vignettes'[j]
    <3>1. /\ Len(vignettes') = Len(vignettes) + 1 /\ vignettes'[Len(vignettes) + 1] = v
          /\ \A i \in 1..Len(vignettes) : vignettes'[i] = vignettes[i]
      BY <1>1, <2>2, AppendHas
    <3>2. \A i \in 1..Len(vignettes) : vignettes[i] # v
      BY <2>2 DEF Contains
    <3> QED BY <1>1, <3>1, <3>2 DEF PartsOnce
  <2> QED BY <2>1, <2>2 DEF PartsOnce
<1>3. \A i, j \in 1..Len(data') : i # j => data'[i] # data'[j]
  <2>1. CASE PrepareStylesheet
    <3> DEFINE n == Len(opt.urls)
               d == [i \in DOMAIN opt.urls |-> Resource(opt.urls[i])]
               s == In("", <<"style", 0>>)
    <3>1. /\ n \in Nat /\ DOMAIN opt.urls = 1..n
          /\ \A i \in 1..n : opt.urls[i] \in STRING \X STRING
      BY <1>1, ElementOfSeq, LenProperties
    <3>2. \A i \in 1..n : d[i] = Resource(opt.urls[i])
      BY <3>1
    <3>3. \A u \in STRING \X STRING : Resource(u) \in DataPath /\ Resource(u) # s
      <4> TAKE u \in STRING \X STRING
      <4>1. Resource(u) \in DataPath
        BY DEF Resource, DataPath
      <4>2. Resource(u)[1] \in {"fonts", "images"} /\ s[1] = ""
        BY DEF Resource, In
      <4> QED BY <4>1, <4>2
    <3>4. d \in [1..n -> DataPath]
      BY <3>1, <3>2, <3>3
    <3>5. d \in Seq(DataPath) /\ Len(d) = n
      <4> HIDE DEF d
      <4> QED BY <3>1, <3>4, FunctionIsSeq
    <3>6. data' = <<s>> \o d /\ s \in DataPath
      BY <2>1 DEF PrepareStylesheet, DataPath
    <3>7. \A i \in 1..n : d[i] # s
      BY <3>1, <3>2, <3>3
    <3>8. \A i, j \in 1..n : i # j => d[i] # d[j]
      BY <1>1, <3>2 DEF OwnNames
    <3> HIDE DEF d, s, n
    <3>9. Len(data') = n + 1 /\ data'[1] = s /\ \A i \in 1..n : data'[i + 1] = d[i]
      BY <3>5, <3>6, PrependHas
    <3>10. \A i \in 1..Len(data') : i = 1 \/ (i - 1 \in 1..n /\ data'[i] = d[i - 1])
      <4> TAKE i \in 1..Len(data')
      <4>1. i = 1 \/ (i - 1 \in 1..n /\ (i - 1) + 1 = i)
        BY <3>1, <3>9
      <4> QED BY <3>9, <4>1
    <3>11. ASSUME NEW i \in 1..Len(data'), NEW j \in 1..Len(data'), i # j
           PROVE  data'[i] # data'[j]
      <4>1. CASE i # 1 /\ j # 1
        <5>1. i - 1 # j - 1
          BY <3>1, <3>9, <3>11
        <5> QED BY <3>8, <3>10, <4>1, <5>1
      <4>2. CASE i = 1
        BY <3>7, <3>9, <3>10, <3>11, <4>2
      <4>3. CASE j = 1
        BY <3>7, <3>9, <3>10, <3>11, <4>3
      <4> QED BY <4>1, <4>2, <4>3
    <3> QED BY <3>11
  <2>2. data' = data \/ PrepareStylesheet
    BY DEF Next, vars, ProcessBinary, StartText, NextFile, TransferImage, UseVignette, EndText,
           ProcessImages, GenerateTOCPage, GenerateCover, GenerateNCX, GeneratePagemap, GenerateOPF,
           KepubifyXHTML, FlushAll
  <2> QED BY <2>1, <2>2 DEF PartsOnce
<1> QED BY <1>2, <1>3 DEF PartsOnce

-----------------------------------------------------------------------------
(* Items of which no two have one path or one id. *)
Differ(m, n) == m.path # n.path /\ m.id # n.id

AllDiffer(s) == \A i, j \in 1..Len(s) : i # j => Differ(s[i], s[j])

LEMMA DifferTogether ==
  ASSUME NEW S, NEW s \in Seq(S), NEW t \in Seq(S), AllDiffer(s), AllDiffer(t),
         \A x \in ToSet(s), y \in ToSet(t) : Differ(x, y)
  PROVE  AllDiffer(s \o t)
<1> DEFINE u == s \o t
<1>1. /\ u \in Seq(S) /\ Len(u) = Len(s) + Len(t)
      /\ \A i \in 1..(Len(s) + Len(t)) : u[i] = IF i <= Len(s) THEN s[i] ELSE t[i - Len(s)]
  BY ConcatProperties
<1>2. /\ Len(s) \in Nat /\ Len(t) \in Nat /\ DOMAIN s = 1..Len(s) /\ DOMAIN t = 1..Len(t)
  BY LenProperties
<1> HIDE DEF u
<1>3. \A i \in 1..Len(u) :
        \/ i \in 1..Len(s) /\ u[i] = s[i]
        \/ i > Len(s) /\ i - Len(s) \in 1..Len(t) /\ u[i] = t[i - Len(s)]
  BY <1>1, <1>2
<1>4. \A x, y : Differ(x, y) => Differ(y, x)
  BY DEF Differ
<1>5. \A i \in 1..Len(s), j \in 1..Len(t) : Differ(s[i], t[j])
  BY <1>2 DEF ToSet
<1>6. ASSUME NEW i \in 1..Len(u), NEW j \in 1..Len(u), i # j
      PROVE  Differ(u[i], u[j])
  <2>1. CASE i \in 1..Len(s) /\ u[i] = s[i] /\ j \in 1..Len(s) /\ u[j] = s[j]
    BY <1>6, <2>1 DEF AllDiffer
  <2>2. CASE /\ i > Len(s) /\ i - Len(s) \in 1..Len(t) /\ u[i] = t[i - Len(s)]
             /\ j > Len(s) /\ j - Len(s) \in 1..Len(t) /\ u[j] = t[j - Len(s)]
    <3>1. i - Len(s) # j - Len(s)
      BY <1>1, <1>2, <1>6
    <3> QED BY <2>2, <3>1 DEF AllDiffer
  <2>3. CASE /\ i \in 1..Len(s) /\ u[i] = s[i]
             /\ j > Len(s) /\ j - Len(s) \in 1..Len(t) /\ u[j] = t[j - Len(s)]
    BY <1>5, <2>3
  <2>4. CASE /\ j \in 1..Len(s) /\ u[j] = s[j]
             /\ i > Len(s) /\ i - Len(s) \in 1..Len(t) /\ u[i] = t[i - Len(s)]
    BY <1>4, <1>5, <2>4
  <2> QED BY <1>3, <2>1, <2>2, <2>3, <2>4
<1> QED BY <1>6 DEF AllDiffer, u

(* Such items have as many paths as there are of them.                     *)
LEMMA DifferCounted ==
  ASSUME NEW S, NEW s \in Seq(S), AllDiffer(s)
  PROVE  /\ Cardinality({s[i].path : i \in DOMAIN s}) = Len(s)
         /\ IsInjective([i \in DOMAIN s |-> s[i].id])
<1> DEFINE P == {s[i].path : i \in DOMAIN s}
           f == [i \in 1..Len(s) |-> s[i].path]
           g == [i \in DOMAIN s |-> s[i].id]
<1>1. Len(s) \in Nat /\ DOMAIN s = 1..Len(s)
  BY LenProperties
<1>2. f \in [1..Len(s) -> P] /\ \A i \in 1..Len(s) : f[i] = s[i].path
  BY <1>1
<1>3. \A i, j \in 1..Len(s) : f[i] = f[j] => i = j
  BY <1>2 DEF AllDiffer, Differ
<1>4. \A p \in P : \E i \in 1..Len(s) : f[i] = p
  BY <1>1, <1>2
<1>5. f \in Bijection(1..Len(s), P)
  <2> HIDE DEF f, P
  <2>1. DOMAIN f = 1..Len(s)
    BY <1>2
  <2> QED BY <1>2, <1>3, <1>4, <2>1 DEF Bijection, Injection, Surjection, IsInjective
<1>6. ExistsBijection(1..Len(s), P)
  BY <1>5 DEF ExistsBijection
<1>7. Cardinality(P) = Len(s)
  <2> HIDE DEF P
  <2> QED BY <1>1, <1>6, FS_CountingElements
<1>8. \A i, j \in DOMAIN s : g[i] = g[j] => i = j
  BY <1>1 DEF AllDiffer, Differ
<1>9. IsInjective(g)
  BY <1>8 DEF IsInjective
<1> QED BY <1>7, <1>9

-----------------------------------------------------------------------------
(* The directories and ids tell files, images, vignettes and data apart.   *)
FilePart(m) == m.path[1] = "" /\ m.path[2][1] \in Kinds /\ m.id[1] \in Kinds
ImagePart(m) == /\ m.path[1] = "images" /\ m.path[2][1] = "bin"
                /\ m.id[1] \in {"book-cover-image", "image"}
VignettePart(m) == m.path[1] = "vignettes" /\ m.id[1] = "vignette"
DataPart(m) == /\ \/ m.path[1] = "" /\ m.path[2][1] = "style"
                  \/ m.path[1] = "fonts"
                  \/ m.path[1] = "images" /\ m.path[2][1] = "css"
               /\ m.id[1] = "data"

LEMMA PartsDiffer ==
  ASSUME NEW x, NEW y
  PROVE  /\ FilePart(x) /\ (ImagePart(y) \/ VignettePart(y) \/ DataPart(y)) => Differ(x, y)
         /\ ImagePart(x) /\ (VignettePart(y) \/ DataPart(y)) => Differ(x, y)
         /\ VignettePart(x) /\ DataPart(y) => Differ(x, y)
BY DEF FilePart, ImagePart, VignettePart, DataPart, Differ, Kinds

LEMMA FilesDiffer ==
  ASSUME NEW fs \in Seq(Page), \A i, j \in 1..Len(fs) : i # j => Apart2(fs[i], fs[j])
  PROVE  /\ AllDiffer(ManifestFiles(fs))
         /\ \A m \in ToSet(ManifestFiles(fs)) : FilePart(m)
<1> DEFINE at == {i \in DOMAIN fs : fs[i].manifest}
           items == ManifestFiles(fs)
<1> HIDE DEF at
<1> DEFINE o == Only(fs, at)
<1>1. /\ o \in Seq(Page)
      /\ \A j, k \in 1..Len(o) : j # k =>
              \E a, b \in 1..Len(fs) : /\ a # b /\ a \in at /\ b \in at /\ o[j] = fs[a] /\ o[k] = fs[b]
  BY OnlyHas
<1>2. items = [i \in DOMAIN o |-> FileItem(o[i])]
  BY DEF ManifestFiles, FileItem, at
<1> HIDE DEF o, items
<1>3. /\ Len(o) \in Nat /\ DOMAIN o = 1..Len(o) /\ Len(items) = Len(o)
      /\ \A i \in 1..Len(o) : items[i] = FileItem(o[i]) /\ o[i] \in Page
  <2>1. /\ Len(o) \in Nat /\ DOMAIN o = 1..Len(o) /\ \A i \in 1..Len(o) : o[i] \in Page
    BY <1>1, ElementOfSeq, LenProperties
  <2>2. items \in Seq(Items)
    BY FilesListed DEF items
  <2>3. DOMAIN items = 1..Len(o) /\ DOMAIN items = 1..Len(items) /\ Len(items) \in Nat
    BY <1>2, <2>1, <2>2, LenProperties
  <2> QED BY <1>2, <2>1, <2>3
<1>4. \A f, g : Apart2(f, g) => Differ(FileItem(f), FileItem(g))
  <2> TAKE f, g
  <2>1. SUFFICES ASSUME ~Differ(FileItem(f), FileItem(g))
                 PROVE  f.kind = g.kind /\ f.number = g.number
    BY DEF Apart2
  <2>2. \/ FileItem(f).path = FileItem(g).path
        \/ FileItem(f).id = FileItem(g).id
    BY <2>1 DEF Differ
  <2>3. <<f.kind, f.number>> = <<g.kind, g.number>>
    BY <2>2 DEF FileItem, ManifestItem, Href, In
  <2> QED BY <2>3
<1>5. \A j, k \in 1..Len(o) : j # k => Apart2(o[j], o[k])
  BY <1>1
<1>6. AllDiffer(items)
  BY <1>3, <1>4, <1>5 DEF AllDiffer
<1>7. \A m \in ToSet(items) : FilePart(m)
  <2>1. \A i \in 1..Len(fs) : fs[i] \in Page
    BY ElementOfSeq
  <2>2. \A f \in Page : FilePart(FileItem(f))
    BY DEF Page, FilePart, FileItem, ManifestItem, Href, In
  <2>3. \A m : m \in ToSet(items) => \E i \in 1..Len(fs) : m = FileItem(fs[i])
    BY FilesListed DEF items
  <2> QED BY <2>1, <2>2, <2>3
<1> QED BY <1>6, <1>7 DEF items

LEMMA ImagesDiffer ==
  ASSUME Types, ImagesNumbered,
         \A i, j \in 1..Len(images) : images[i].id = cover /\ images[j].id = cover => i = j
  PROVE  AllDiffer(ImageItems) /\ \A m \in ToSet(ImageItems) : ImagePart(m)
<1>1. /\ ImageItems \in Seq(Items) /\ Len(ImageItems) = Len(images)
      /\ \A i \in 1..Len(images) : ImageItems[i] = ImageItem(i)
  BY OthersListed
<1>2. /\ Len(images) \in Nat /\ DOMAIN ImageItems = 1..Len(images)
      /\ \A i \in 1..Len(images) : images[i] \in Image
  BY <1>1, ElementOfSeq, LenProperties DEF Types
<1>3. ASSUME NEW i \in 1..Len(images), NEW j \in 1..Len(images), i # j
      PROVE  Differ(ImageItem(i), ImageItem(j))
  <2>1. ImageItem(i).path # ImageItem(j).path
    <3>1. images[i].name # images[j].name
      BY <1>3 DEF ImagesNumbered
    <3>2. ImageItem(i).path = <<"images", images[i].name>>
          /\ ImageItem(j).path = <<"images", images[j].name>>
      BY DEF ImageItem, ManifestItem, ImagePath, In
    <3> QED BY <3>1, <3>2
  <2>2. /\ ImageItem(i).id = IF images[i].id = cover THEN <<"book-cover-image", 0>> ELSE <<"image", i>>
        /\ ImageItem(j).id = IF images[j].id = cover THEN <<"book-cover-image", 0>> ELSE <<"image", j>>
    BY DEF ImageItem, ManifestItem
  <2>3. ~(images[i].id = cover /\ images[j].id = cover)
    BY <1>3
  <2>4. ImageItem(i).id # ImageItem(j).id
    BY <1>3, <2>2, <2>3
  <2> QED BY <2>1, <2>4 DEF Differ
<1>4. \A i \in 1..Len(images) : ImagePart(ImageItem(i))
  <2> TAKE i \in 1..Len(images)
  <2>1. images[i].name \in {"bin"} \X Nat \X Exts
    BY <1>2 DEF Image
  <2>2. ImageItem(i).path = <<"images", images[i].name>> /\ images[i].name[1] = "bin"
    BY <2>1 DEF ImageItem, ManifestItem, ImagePath, In
  <2>3. ImageItem(i).id[1] \in {"book-cover-image", "image"}
    BY DEF ImageItem, ManifestItem
  <2> QED BY <2>2, <2>3 DEF ImagePart
<1>5. AllDiffer(ImageItems)
  BY <1>1, <1>3 DEF AllDiffer
<1>6. \A m \in ToSet(ImageItems) : ImagePart(m)
  BY <1>1, <1>2, <1>4 DEF ToSet
<1> QED BY <1>5, <1>6

LEMMA VignettesDiffer ==
  ASSUME OwnNames, Types, PartsOnce
  PROVE  AllDiffer(VignetteItems) /\ \A m \in ToSet(VignetteItems) : VignettePart(m)
<1>1. /\ VignetteItems \in Seq(Items) /\ Len(VignetteItems) = Len(vignettes)
      /\ \A i \in 1..Len(vignettes) : VignetteItems[i] = VignetteItem(i)
  BY OthersListed
<1>2. /\ Len(vignettes) \in Nat /\ DOMAIN VignetteItems = 1..Len(vignettes)
      /\ \A i \in 1..Len(vignettes) : vignettes[i] \in Vignettes
  BY <1>1, ElementOfSeq, LenProperties DEF Types
<1>3. ASSUME NEW i \in 1..Len(vignettes), NEW j \in 1..Len(vignettes), i # j
      PROVE  Differ(VignetteItem(i), VignetteItem(j))
  <2>1. vignettes[i][2] # vignettes[j][2]
    BY <1>2, <1>3 DEF OwnNames, PartsOnce
  <2>2. /\ VignetteItem(i).path = <<"vignettes", vignettes[i][2]>>
        /\ VignetteItem(j).path = <<"vignettes", vignettes[j][2]>>
        /\ VignetteItem(i).id = <<"vignette", i>> /\ VignetteItem(j).id = <<"vignette", j>>
    BY DEF VignetteItem, ManifestItem, In
  <2> QED BY <1>3, <2>1, <2>2 DEF Differ
<1>4. \A i \in 1..Len(vignettes) : VignettePart(VignetteItem(i))
  BY DEF VignettePart, VignetteItem, ManifestItem, In
<1>5. AllDiffer(VignetteItems)
  BY <1>1, <1>3 DEF AllDiffer
<1>6. \A m \in ToSet(VignetteItems) : VignettePart(m)
  BY <1>1, <1>2, <1>4 DEF ToSet
<1> QED BY <1>5, <1>6

LEMMA DataDiffer ==
  ASSUME Types, PartsOnce
  PROVE  AllDiffer(DataItems) /\ \A m \in ToSet(DataItems) : DataPart(m)
<1>1. /\ DataItems \in Seq(Items) /\ Len(DataItems) = Len(data)
      /\ \A i \in 1..Len(data) : DataItems[i] = DataItem(i)
  BY OthersListed
<1>2. /\ Len(data) \in Nat /\ DOMAIN DataItems = 1..Len(data)
      /\ \A i \in 1..Len(data) : data[i] \in DataPath
  BY <1>1, ElementOfSeq, LenProperties DEF Types
<1>3. ASSUME NEW i \in 1..Len(data), NEW j \in 1..Len(data), i # j
      PROVE  Differ(DataItem(i), DataItem(j))
  <2>1. data[i] # data[j]
    BY <1>3 DEF PartsOnce
  <2>2. /\ DataItem(i).path = data[i] /\ DataItem(j).path = data[j]
        /\ DataItem(i).id = <<"data", i>> /\ DataItem(j).id = <<"data", j>>
    BY DEF DataItem, ManifestItem
  <2> QED BY <1>3, <2>1, <2>2 DEF Differ
<1>4. \A i \in 1..Len(data) : DataPart(DataItem(i))
  <2> TAKE i \in 1..Len(data)
  <2>1. DataItem(i).path = data[i] /\ DataItem(i).id[1] = "data"
    BY DEF DataItem, ManifestItem
  <2>2. \/ data[i] = In("", <<"style", 0>>)
        \/ \E n \in STRING : data[i] = In("fonts", n)
        \/ \E n \in STRING : data[i] = In("images", <<"css", n>>)
    BY <1>2 DEF DataPath
  <2>3. \/ data[i][1] = "" /\ data[i][2][1] = "style"
        \/ data[i][1] = "fonts"
        \/ data[i][1] = "images" /\ data[i][2][1] = "css"
    <3>1. CASE data[i] = In("", <<"style", 0>>)
      <4> DEFINE p == In("", <<"style", 0>>)
      <4>1. p[1] = "" /\ p[2][1] = "style"
        BY DEF In
      <4>2. data[i] = p
        BY <3>1
      <4> HIDE DEF p
      <4> QED BY <4>1, <4>2
    <3>2. ASSUME NEW n \in STRING, data[i] = In("fonts", n)
          PROVE  data[i][1] = "fonts"
      BY <3>2 DEF In
    <3>3. ASSUME NEW n \in STRING, data[i] = In("images", <<"css", n>>)
          PROVE  data[i][1] = "images" /\ data[i][2][1] = "css"
      BY <3>3 DEF In
    <3> QED BY <2>2, <3>1, <3>2, <3>3
  <2> QED BY <2>1, <2>3 DEF DataPart
<1>5. AllDiffer(DataItems)
  BY <1>1, <1>3 DEF AllDiffer
<1>6. \A m \in ToSet(DataItems) : DataPart(m)
  BY <1>1, <1>2, <1>4 DEF ToSet
<1> QED BY <1>5, <1>6

LEMMA ManifestDiffers ==
  ASSUME OwnNames, Types, ImagesNumbered, PartsOnce,
         \A i, j \in 1..Len(images) : images[i].id = cover /\ images[j].id = cover => i = j,
         NEW fs \in Seq(Page), \A i, j \in 1..Len(fs) : i # j => Apart2(fs[i], fs[j])
  PROVE  AllDiffer(Manifest(fs))
<1> DEFINE a == ManifestFiles(fs)
           b == ImageItems
           c == VignetteItems
           d == DataItems
<1>1. Manifest(fs) = ((a \o b) \o c) \o d
  BY DEF Manifest, ImageItems, VignetteItems, DataItems, ImageItem, VignetteItem, DataItem
<1>2. a \in Seq(Items) /\ b \in Seq(Items) /\ c \in Seq(Items) /\ d \in Seq(Items)
  BY FilesListed, OthersListed
<1>3. AllDiffer(a) /\ \A m \in ToSet(a) : FilePart(m)
  BY FilesDiffer
<1>4. AllDiffer(b) /\ \A m \in ToSet(b) : ImagePart(m)
  BY ImagesDiffer
<1>5. AllDiffer(c) /\ \A m \in ToSet(c) : VignettePart(m)
  BY VignettesDiffer
<1>6. AllDiffer(d) /\ \A m \in ToSet(d) : DataPart(m)
  BY DataDiffer
<1> HIDE DEF a, b, c, d
<1> DEFINE ab == a \o b
<1>7. ab \in Seq(Items) /\ ToSet(ab) = ToSet(a) \union ToSet(b)
  BY <1>2, ConcatHas, ConcatProperties
<1>8. AllDiffer(ab)
  <2>1. \A x \in ToSet(a), y \in ToSet(b) : Differ(x, y)
    BY <1>3, <1>4, PartsDiffer
  <2> QED BY <1>2, <1>3, <1>4, <2>1, DifferTogether
<1> HIDE DEF ab
<1> DEFINE abc == ab \o c
<1>9. abc \in Seq(Items) /\ ToSet(abc) = ToSet(ab) \union ToSet(c)
  BY <1>2, <1>7, ConcatHas, ConcatProperties
<1>10. AllDiffer(abc)
  <2>1. \A x \in ToSet(ab), y \in ToSet(c) : Differ(x, y)
    BY <1>3, <1>4, <1>5, <1>7, PartsDiffer
  <2> QED BY <1>2, <1>5, <1>7, <1>8, <2>1, DifferTogether
<1> HIDE DEF abc
<1>11. AllDiffer(abc \o d)
  <2>1. \A x \in ToSet(abc), y \in ToSet(d) : Differ(x, y)
    BY <1>3, <1>4, <1>5, <1>6, <1>7, <1>9, PartsDiffer
  <2> QED BY <1>2, <1>6, <1>9, <1>10, <2>1, DifferTogether
<1> QED BY <1>1, <1>11 DEF ab, abc

-----------------------------------------------------------------------------
(* What the book is made of, and what of it the manifest has.              *)
OpfPath == In("", <<"opf", 0>>)

IsFile(p) == \E i \in 1..Len(files) : p = Href(files[i])
IsData(p) == \E i \in 1..Len(data) : p = data[i]
IsPart(p) == IsFile(p) \/ IsImage(p) \/ IsVignette(p) \/ IsData(p)

ManifestWhole ==
    /\ opf.manifest \in Seq(Items) /\ AllDiffer(opf.manifest)
    /\ step # "done" => \A p : p \in Paths <=> IsPart(p) /\ p # OpfPath
    /\ step = "done" => Paths = DOMAIN disk \ {OpfPath}

ManifestListed == step \in Listed => ManifestWhole

PartsInvariant ==
    CoverInvariant /\ FilesNumbered /\ ImagesNumbered /\ PartsOnce /\ ManifestListed

LEMMA OpfLists ==
  ASSUME Types, FilesNumbered, GenerateOPF
  PROVE  \A p : p \in Paths' <=> IsPart(p)' /\ p # OpfPath
<1> DEFINE f == File("opf", 0, 0)
           ms == Manifest(files')
<1>1. /\ files \in Seq(Page) /\ Len(files) \in Nat /\ step = "opf"
      /\ images' = images /\ vignettes' = vignettes /\ data' = data
  BY LenProperties DEF Types, GenerateOPF, Goes
<1>2. f \in Page /\ f.kind = "opf" /\ f.number = 0 /\ ~f.manifest
  <2>1. f \in Page /\ f.kind = "opf" /\ f.number = 0
    BY FileIsPage DEF Kinds
  <2> HIDE DEF f
  <2>2. f.manifest = (f.kind # "opf")
    BY <2>1 DEF Page
  <2> QED BY <2>1, <2>2
<1>3. files' = Append(files, f)
  BY DEF GenerateOPF
<1>4. opf'.manifest = ms
  BY DEF GenerateOPF
<1>5. files' \in Seq(Page) /\ \A i \in 1..Len(files') : files'[i] \in Page
  BY FilesChange, FilesAreTyped, ElementOfSeq DEF Next
<1>6. /\ ms \in Seq(Items)
      /\ \A m : m \in ToSet(ms) <=>
                     \/ \E i \in 1..Len(files') : files'[i].manifest /\ m = FileItem(files'[i])
                     \/ \E i \in 1..Len(images) : m = ImageItem(i)
                     \/ \E i \in 1..Len(vignettes) : m = VignetteItem(i)
                     \/ \E i \in 1..Len(data) : m = DataItem(i)
  BY <1>5, ManifestHas
<1> HIDE DEF ms, f
<1>7. \A i \in 1..Len(files') : files'[i] = f \/ files'[i].kind # "opf"
  <2>1. "opf" \in Generated /\ step \in BeforeKind("opf")
    BY <1>1 DEF Generated, BeforeKind
  <2>2. \A i \in 1..Len(files) : files[i].kind # "opf"
    BY <2>1 DEF FilesNumbered, NotYet
  <2>3. \A i \in 1..Len(files) : Apart2(files[i], f)
    BY <1>2, <2>2 DEF Apart2
  <2>4. \A i \in 1..Len(files') : files'[i] = f \/ \E k \in 1..Len(files) : files'[i] = files[k]
    BY <1>2, <1>3, <2>3, FileBehind DEF FilesNumbered
  <2> QED BY <2>2, <2>4
<1>8. \A i \in 1..Len(files') : /\ files'[i].manifest <=> Href(files'[i]) # OpfPath
                                /\ FileItem(files'[i]).path = Href(files'[i])
  <2> TAKE i \in 1..Len(files')
  <2>1. files'[i].manifest = (files'[i].kind # "opf")
    BY <1>5 DEF Page
  <2>2. Href(f) = OpfPath
    BY <1>2 DEF Href, OpfPath
  <2>3. files'[i].kind # "opf" => Href(files'[i]) # OpfPath
    BY DEF Href, OpfPath, In
  <2>4. FileItem(files'[i]).path = Href(files'[i])
    BY DEF FileItem, ManifestItem
  <2> QED BY <1>2, <1>7, <2>1, <2>2, <2>3, <2>4
<1>9. \A i \in 1..Len(images) : /\ ImageItem(i).path = ImagePath(images[i])
                                /\ ImagePath(images[i]) # OpfPath
  BY DEF ImageItem, ManifestItem, ImagePath, OpfPath, In
<1>10. \A i \in 1..Len(vignettes) : /\ VignetteItem(i).path = In("vignettes", vignettes[i][2])
                                    /\ In("vignettes", vignettes[i][2]) # OpfPath
  BY DEF VignetteItem, ManifestItem, OpfPath, In
<1>11. \A i \in 1..Len(data) : DataItem(i).path = data[i] /\ data[i] # OpfPath
  <2> TAKE i \in 1..Len(data)
  <2>1. data[i] \in DataPath
    BY ElementOfSeq DEF Types
  <2>2. \A p \in DataPath : p # OpfPath
    <3>1. /\ In("", <<"style", 0>>) # OpfPath
          /\ \A n : In("fonts", n) # OpfPath /\ In("images", n) # OpfPath
      BY DEF OpfPath, In
    <3> QED BY <3>1 DEF DataPath
  <2>3. DataItem(i).path = data[i]
    BY DEF DataItem, ManifestItem
  <2> QED BY <2>1, <2>2, <2>3
<1>12. \A p : p \in Paths' <=> \E m \in ToSet(ms) : p = m.path
  BY <1>4 DEF Paths, ToSet
<1>13. ASSUME NEW m \in ToSet(ms)
       PROVE  IsPart(m.path)' /\ m.path # OpfPath
  <2>1. CASE \E i \in 1..Len(files') : files'[i].manifest /\ m = FileItem(files'[i])
    BY <1>8, <2>1 DEF IsPart, IsFile
  <2>2. CASE \E i \in 1..Len(images) : m = ImageItem(i)
    BY <1>1, <1>9, <2>2 DEF IsPart, IsImage
  <2>3. CASE \E i \in 1..Len(vignettes) : m = VignetteItem(i)
    BY <1>1, <1>10, <2>3 DEF IsPart, IsVignette
  <2>4. CASE \E i \in 1..Len(data) : m = DataItem(i)
    BY <1>1, <1>11, <2>4 DEF IsPart, IsData
  <2> QED BY <1>6, <2>1, <2>2, <2>3, <2>4
<1>14. ASSUME NEW p, IsPart(p)', p # OpfPath
       PROVE  \E m \in ToSet(ms) : p = m.path
  <2>1. ASSUME NEW i \in 1..Len(files'), p = Href(files'[i])
        PROVE  \E m \in ToSet(ms) : p = m.path
    <3>1. files'[i].manifest /\ FileItem(files'[i]).path = p
      BY <1>8, <1>14, <2>1
    <3> QED BY <1>6, <3>1
  <2>2. ASSUME NEW i \in 1..Len(images), p = ImagePath(images[i])
        PROVE  \E m \in ToSet(ms) : p = m.path
    BY <1>6, <1>9, <2>2
  <2>3. ASSUME NEW i \in 1..Len(vignettes), p = In("vignettes", vignettes[i][2])
        PROVE  \E m \in ToSet(ms) : p = m.path
    BY <1>6, <1>10, <2>3
  <2>4. ASSUME NEW i \in 1..Len(data), p = data[i]
        PROVE  \E m \in ToSet(ms) : p = m.path
    BY <1>6, <1>11, <2>4
  <2> QED BY <1>1, <1>14, <2>1, <2>2, <2>3, <2>4 DEF IsPart, IsFile, IsImage, IsVignette, IsData
<1> QED BY <1>12, <1>13, <1>14

(* What is written is what the book is made of. *)
LEMMA DiskHas ==
  ASSUME Types, NEW late \in BOOLEAN, FlushAll(late)
  PROVE  \A p : p \in DOMAIN disk' <=> IsPart(p)
<1> DEFINE fileParts == {[path |-> Href(files[i]), is |-> <<"file", i>>] : i \in DOMAIN files}
           imageParts == {[path |-> ImagePath(images[i]), is |-> <<"image", i>>] : i \in DOMAIN images}
           vignetteParts == {[path |-> In("vignettes", v[2]), is |-> v] : v \in ToSet(vignettes)}
           dataParts == {[path |-> data[i], is |-> <<"data", i>>] : i \in DOMAIN data}
           parts == fileParts \union imageParts \union vignetteParts \union dataParts
<1>1. DOMAIN disk' = {q.path : q \in parts}
  BY DEF FlushAll
<1>2. /\ DOMAIN files = 1..Len(files) /\ DOMAIN images = 1..Len(images)
      /\ DOMAIN vignettes = 1..Len(vignettes) /\ DOMAIN data = 1..Len(data)
  BY LenProperties DEF Types
<1>3. \A p : (\E q \in fileParts : p = q.path) <=> IsFile(p)
  <2>1. \A i : [path |-> Href(files[i]), is |-> <<"file", i>>].path = Href(files[i])
    OBVIOUS
  <2> QED BY <1>2, <2>1 DEF IsFile
<1>4. \A p : (\E q \in imageParts : p = q.path) <=> IsImage(p)
  <2>1. \A i : [path |-> ImagePath(images[i]), is |-> <<"image", i>>].path = ImagePath(images[i])
    OBVIOUS
  <2> QED BY <1>2, <2>1 DEF IsImage
<1>5. \A p : (\E q \in vignetteParts : p = q.path) <=> IsVignette(p)
  <2>1. \A i \in 1..Len(vignettes) : vignettes[i] \in ToSet(vignettes)
    BY <1>2 DEF ToSet
  <2>2. \A v \in ToSet(vignettes) : \E i \in 1..Len(vignettes) : v = vignettes[i]
    BY <1>2 DEF ToSet
  <2>3. ASSUME NEW p, NEW q \in vignetteParts, p = q.path
        PROVE  IsVignette(p)
    <3>1. PICK v \in ToSet(vignettes) : q = [path |-> In("vignettes", v[2]), is |-> v]
      OBVIOUS
    <3>2. p = In("vignettes", v[2])
      BY <2>3, <3>1
    <3>3. PICK i \in 1..Len(vignettes) : v = vignettes[i]
      BY <2>2
    <3> QED BY <3>2, <3>3 DEF IsVignette
  <2>4. ASSUME NEW p, IsVignette(p)
        PROVE  \E q \in vignetteParts : p = q.path
    <3>1. PICK i \in 1..Len(vignettes) : p = In("vignettes", vignettes[i][2])
      BY <2>4 DEF IsVignette
    <3> DEFINE v == vignettes[i]
    <3>2. v \in ToSet(vignettes) /\ p = In("vignettes", v[2])
      BY <2>1, <3>1
    <3> HIDE DEF v
    <3> DEFINE q == [path |-> In("vignettes", v[2]), is |-> v]
    <3>3. q \in vignetteParts
      BY <3>2
    <3>4. q.path = p
      BY <3>2
    <3> QED BY <3>3, <3>4
  <2> QED BY <2>3, <2>4
<1>6. \A p : (\E q \in dataParts : p = q.path) <=> IsData(p)
  <2>1. \A i : [path |-> data[i], is |-> <<"data", i>>].path = data[i]
    OBVIOUS
  <2> QED BY <1>2, <2>1 DEF IsData
<1> HIDE DEF fileParts, imageParts, vignetteParts, dataParts
<1>7. \A p : (\E q \in parts : p = q.path) <=> IsPart(p)
  BY <1>3, <1>4, <1>5, <1>6 DEF IsPart
<1> QED BY <1>1, <1>7

LEMMA ManifestListedKept ==
  ASSUME OwnIds, OwnNames, PartsInvariant, [Next]_vars, FilesNumbered'
  PROVE  ManifestListed'
<1>1. /\ Types /\ FilesNumbered /\ ImagesNumbered /\ PartsOnce /\ files \in Seq(Page)
      /\ Len(files) \in Nat /\ DOMAIN files = 1..Len(files)
      /\ \A i \in 1..Len(files) : files[i] \in Page
      /\ images \in Seq(Image)
  BY ElementOfSeq, LenProperties DEF PartsInvariant, CoverInvariant, Types
<1>2. CASE GenerateOPF
  <2>1. step = "opf" /\ step' = "meta" /\ opf'.manifest = Manifest(files')
    BY <1>2 DEF GenerateOPF, Goes
  <2>2. files' \in Seq(Page)
    BY <1>1, FilesChange, FilesAreTyped
  <2>3. \A i, j \in 1..Len(images) : images[i].id = cover /\ images[j].id = cover => i = j
    <3>1. CASE cover = None
      <4>1. \A i \in 1..Len(images) : images[i] \in Image
        BY <1>1, ElementOfSeq
      <4>2. \A i \in 1..Len(images) : images[i].id # cover
        BY <3>1, <4>1 DEF Image, ImageIds, OwnIds, None
      <4> QED BY <4>2
    <3>2. CASE cover # None
      BY <2>1, <3>2 DEF PartsInvariant, CoverInvariant, CoverAlone, Early
    <3> QED BY <3>1, <3>2
  <2>4. \A i, j \in 1..Len(files') : i # j => Apart2(files'[i], files'[j])
    BY DEF FilesNumbered, FilesApart
  <2>5. AllDiffer(Manifest(files')) /\ Manifest(files') \in Seq(Items)
    BY <1>1, <2>2, <2>3, <2>4, ManifestDiffers, ManifestHas
  <2>6. \A p : p \in Paths' <=> IsPart(p)' /\ p # OpfPath
    BY <1>1, <1>2, OpfLists
  <2> QED BY <2>1, <2>5, <2>6 DEF ManifestListed, ManifestWhole
<1>3. CASE KepubifyXHTML
  <2>1. /\ step = "meta" /\ step' = "flush" /\ opf' = opf
        /\ images' = images /\ vignettes' = vignettes /\ data' = data
        /\ \/ files' = [i \in DOMAIN files |-> [files[i] EXCEPT !.kobo = files[i].spine]]
           \/ files' = files
    BY <1>3 DEF KepubifyXHTML, Goes
  <2>2. \A p : IsFile(p)' <=> IsFile(p)
    <3>1. CASE files' = files
      BY <3>1 DEF IsFile
    <3>2. CASE files' = [i \in DOMAIN files |-> [files[i] EXCEPT !.kobo = files[i].spine]]
      <4>1. \A f \in Page : LET g == [f EXCEPT !.kobo = f.spine]
                            IN  g \in Page /\ g.kind = f.kind /\ g.number = f.number
        BY DEF Page
      <4>2. files' \in [1..Len(files) -> Page]
        BY <1>1, <3>2, <4>1
      <4>3. Len(files') = Len(files)
        BY <1>1, <4>2, FunctionIsSeq
      <4>4. \A i \in 1..Len(files) :
              files'[i].kind = files[i].kind /\ files'[i].number = files[i].number
        BY <1>1, <3>2, <4>1
      <4> QED BY <4>3, <4>4 DEF IsFile, Href
    <3> QED BY <2>1, <3>1, <3>2
  <2>3. \A p : IsPart(p)' <=> IsPart(p)
    BY <2>1, <2>2 DEF IsPart, IsImage, IsVignette, IsData
  <2>4. ManifestWhole /\ Paths' = Paths
    BY <2>1 DEF PartsInvariant, ManifestListed, Listed, Paths
  <2> QED BY <2>1, <2>3, <2>4 DEF ManifestListed, ManifestWhole
<1>4. ASSUME NEW late \in BOOLEAN, FlushAll(late)
      PROVE  ManifestListed'
  <2>1. step = "flush" /\ step' = "done" /\ opf' = opf
    BY <1>4 DEF FlushAll, Goes
  <2>2. ManifestWhole /\ Paths' = Paths
    BY <2>1 DEF PartsInvariant, ManifestListed, Listed, Paths
  <2>3. \A p : p \in DOMAIN disk' <=> IsPart(p)
    BY <1>1, <1>4, DiskHas
  <2>4. Paths' = DOMAIN disk' \ {OpfPath}
    BY <2>1, <2>2, <2>3 DEF ManifestWhole
  <2> QED BY <2>1, <2>2, <2>4 DEF ManifestListed, ManifestWhole
<1>5. CASE UNCHANGED vars
  BY <1>5 DEF vars, PartsInvariant, ManifestListed, ManifestWhole, Paths, IsPart, IsFile, IsImage,
              IsVignette, IsData
<1>6. \/ GenerateOPF \/ KepubifyXHTML \/ UNCHANGED vars
      \/ \E late \in BOOLEAN : FlushAll(late)
      \/ step' \notin Listed
  BY DEF Listed, Goes, Next, ProcessBinary, StartText, NextFile, TransferImage, UseVignette,
         EndText, ProcessImages, GenerateTOCPage, GenerateCover, GenerateNCX, PrepareStylesheet,
         GeneratePagemap
<1>7. step' \notin Listed => ManifestListed'
  BY DEF ManifestListed
<1> QED BY <1>2, <1>3, <1>4, <1>5, <1>6, <1>7

(* THEOREM.  When no binary of the source is left out, and the ids of the  *)
(* images, the vignettes and the resources of the stylesheet have names of *)
(* their own, the manifest lists what is written to the work directory,    *)
(* each part once under an id of its own, and nothing else: covers that    *)
(* are replaced, given up or removed, images added for missing ones, pages *)
(* put in front included.                                                  *)
THEOREM ManifestsAreTheBook ==
  ASSUME OwnIds, OwnNames, NothingLeftOut
  PROVE  Spec => []ManifestIsTheBook
<1>1. Init => PartsInvariant
  <2>1. Len(<<>>) = 0
    OBVIOUS
  <2>2. Init => CoverInvariant
    BY <2>1, TypesFirst DEF Init, CoverInvariant, CoverKnown, CoverAlone, CoverThere,
       CoverListed, Early, Fronted, Listed
  <2>3. Init => FilesNumbered /\ ImagesNumbered /\ PartsOnce /\ ManifestListed
    BY <2>1 DEF Init, FilesNumbered, FilesApart, NotYet, ImagesNumbered, PartsOnce, ManifestListed,
                Listed
  <2> QED BY <2>2, <2>3 DEF PartsInvariant
<1>2. PartsInvariant /\ [Next]_vars => PartsInvariant'
  <2>1. SUFFICES ASSUME PartsInvariant, [Next]_vars
                 PROVE  PartsInvariant'
    OBVIOUS
  <2>2. CoverInvariant /\ Types
    BY <2>1 DEF PartsInvariant, CoverInvariant
  <2>3. CoverInvariant'
    BY <2>1, <2>2, TypesKept, KnownKept, AloneKept, ThereKept, ListedKept DEF CoverInvariant
  <2>4. FilesNumbered' /\ ImagesNumbered' /\ PartsOnce'
    BY <2>1, <2>2, FilesNumberedKept, NumberedKept, PartsOnceKept DEF PartsInvariant
  <2>5. ManifestListed'
    BY <2>1, <2>4, ManifestListedKept
  <2> QED BY <2>3, <2>4, <2>5 DEF PartsInvariant
<1>3. PartsInvariant => ManifestIsTheBook
  <2>1. SUFFICES ASSUME PartsInvariant, Done
                 PROVE  ManifestIsTheBook
    BY DEF ManifestIsTheBook
  <2>2. ManifestWhole /\ step = "done"
    BY <2>1 DEF PartsInvariant, ManifestListed, Done, Listed
  <2>3. /\ Cardinality(Paths) = Len(opf.manifest)
        /\ IsInjective([i \in DOMAIN opf.manifest |-> opf.manifest[i].id])
    BY <2>2, DifferCounted DEF ManifestWhole, Paths
  <2> QED BY <2>2, <2>3 DEF ManifestWhole, ManifestIsTheBook, OpfPath
<1> QED BY <1>1, <1>2, <1>3, PTL DEF Spec

-----------------------------------------------------------------------------
(* The file of an image is that image.                                     *)
ImagesWritten == step = "done" =>
                   \A i \in 1..Len(images) : disk[ImagePath(images[i])] = <<"image", i>>

WrittenInvariant == Types /\ ImagesNumbered /\ ImagesWritten

LEMMA NumbersName ==
  ASSUME Types, ImagesNumbered, NEW i \in 1..Len(images), NEW j \in 1..Len(images),
         ImagePath(images[i]) = ImagePath(images[j])
  PROVE  i = j
<1>1. images[i].name = images[j].name
  BY DEF ImagePath, In
<1> QED BY <1>1 DEF ImagesNumbered

LEMMA OthersElsewhere ==
  ASSUME Types, NEW i \in 1..Len(images)
  PROVE  /\ \A f \in ToSet(files) : Href(f) # ImagePath(images[i])
         /\ \A v : In("vignettes", v) # ImagePath(images[i])
         /\ \A k \in 1..Len(data) : data[k] # ImagePath(images[i])
<1> DEFINE p == ImagePath(images[i])
<1>1. p[1] = "images" /\ p[2][1] = "bin"
  <2>1. images[i] \in Image
    BY ElementOfSeq DEF Types
  <2>2. images[i].name[1] = "bin"
    BY <2>1 DEF Image
  <2> QED BY <2>2 DEF ImagePath, In
<1> HIDE DEF p
<1>2. \A f : Href(f)[1] = ""
  BY DEF Href, In
<1>3. \A v : In("vignettes", v)[1] = "vignettes"
  BY DEF In
<1>4. ASSUME NEW k \in 1..Len(data)
      PROVE  data[k] # p
  <2>1. data[k] \in DataPath
    BY ElementOfSeq DEF Types
  <2>2. \A q \in DataPath : q # p
    <3>1. /\ In("", <<"style", 0>>)[1] = ""
          /\ \A n : In("fonts", n)[1] = "fonts" /\ In("images", <<"css", n>>)[2][1] = "css"
      BY DEF In
    <3>2. /\ In("", <<"style", 0>>) # p
          /\ \A n : In("fonts", n) # p /\ In("images", <<"css", n>>) # p
      BY <1>1, <3>1
    <3> QED BY <3>2 DEF DataPath
  <2> QED BY <2>1, <2>2
<1>5. /\ \A f : Href(f) # p
      /\ \A v : In("vignettes", v) # p
  BY <1>1, <1>2, <1>3
<1> QED BY <1>4, <1>5 DEF p

LEMMA WrittenAtFlush ==
  ASSUME Types, ImagesNumbered, NEW late \in BOOLEAN, FlushAll(late), NEW i \in 1..Len(images)
  PROVE  disk'[ImagePath(images[i])] = <<"image", i>>
<1> DEFINE fileParts == {[path |-> Href(files[k]), is |-> <<"file", k>>] : k \in DOMAIN files}
           imageParts == {[path |-> ImagePath(images[k]), is |-> <<"image", k>>] : k \in DOMAIN images}
           vignetteParts == {[path |-> In("vignettes", v[2]), is |-> v] : v \in ToSet(vignettes)}
           dataParts == {[path |-> data[k], is |-> <<"data", k>>] : k \in DOMAIN data}
           parts == fileParts \union imageParts \union vignetteParts \union dataParts
           Last2(same) == CHOOSE q \in same :
                            \A r \in same : IF late THEN r.is[2] <= q.is[2] ELSE q.is[2] <= r.is[2]
           paths == {q.path : q \in parts}
           p == ImagePath(images[i])
           x == [path |-> p, is |-> <<"image", i>>]
<1>1. disk' = [path \in paths |->
                 LET same == {q \in parts : q.path = path}
                 IN  IF Cardinality(same) = 1 THEN (CHOOSE q \in same : TRUE).is ELSE Last2(same).is]
  BY DEF FlushAll
<1>2. /\ DOMAIN files = 1..Len(files) /\ DOMAIN images = 1..Len(images)
      /\ DOMAIN data = 1..Len(data)
  BY LenProperties DEF Types
<1>3. x \in imageParts /\ x.path = p /\ x.is = <<"image", i>>
  BY <1>2
<1>4. \A q \in imageParts : q.path = p => q = x
  <2> SUFFICES ASSUME NEW k \in 1..Len(images),
                      [path |-> ImagePath(images[k]), is |-> <<"image", k>>].path = p
               PROVE  [path |-> ImagePath(images[k]), is |-> <<"image", k>>] = x
    BY <1>2
  <2>1. ImagePath(images[k]) = p
    OBVIOUS
  <2>2. k = i
    BY <2>1, NumbersName
  <2> QED BY <2>2
<1>5. \A q \in fileParts : q.path # p
  <2>1. \A k \in 1..Len(files) : files[k] \in ToSet(files)
    BY <1>2 DEF ToSet
  <2>2. \A k \in 1..Len(files) : Href(files[k]) # p
    BY <2>1, OthersElsewhere
  <2> HIDE DEF p
  <2> QED BY <1>2, <2>2
<1>6. \A q \in vignetteParts : q.path # p
  <2> SUFFICES ASSUME NEW v \in ToSet(vignettes)
               PROVE  [path |-> In("vignettes", v[2]), is |-> v].path # p
    OBVIOUS
  <2>1. In("vignettes", v[2]) # p
    BY OthersElsewhere
  <2> HIDE DEF p
  <2> QED BY <2>1
<1>7. \A q \in dataParts : q.path # p
  <2>1. \A k \in 1..Len(data) : data[k] # p
    BY OthersElsewhere
  <2> HIDE DEF p
  <2> QED BY <1>2, <2>1
<1> HIDE DEF fileParts, imageParts, vignetteParts, dataParts, p, x
<1> DEFINE same == {q \in parts : q.path = p}
<1>8. same = {x}
  BY <1>3, <1>4, <1>5, <1>6, <1>7
<1>9. Cardinality(same) = 1 /\ (CHOOSE q \in same : TRUE) = x
  <2> HIDE DEF same
  <2> QED BY <1>8, FS_Singleton
<1>10. p \in paths
  BY <1>3
<1>11. disk'[p] = IF Cardinality(same) = 1 THEN (CHOOSE q \in same : TRUE).is ELSE Last2(same).is
  BY <1>1, <1>10
<1> HIDE DEF same, Last2
<1>12. disk'[p] = x.is
  BY <1>9, <1>11
<1> QED BY <1>3, <1>12 DEF p

(* THEOREM.  When no binary of the source is left out, no image of a book  *)
(* is written over another, nor anything else over an image: what          *)
(* EveryImageIsThere says, which fails where an image is left out and the  *)
(* numbers of the later ones and of those the program adds meet.           *)
THEOREM NoImageIsOverwritten ==
  ASSUME NothingLeftOut
  PROVE  Spec => []EveryImageIsThere
<1>1. Init => WrittenInvariant
  <2>1. Len(<<>>) = 0
    OBVIOUS
  <2> QED BY <2>1, TypesFirst DEF Init, WrittenInvariant, ImagesNumbered, ImagesWritten
<1>2. WrittenInvariant /\ [Next]_vars => WrittenInvariant'
  <2>1. SUFFICES ASSUME WrittenInvariant, [Next]_vars
                 PROVE  WrittenInvariant'
    OBVIOUS
  <2>2. Types' /\ ImagesNumbered'
    BY <2>1, TypesKept, NumberedKept DEF WrittenInvariant
  <2>3. ASSUME NEW late \in BOOLEAN, FlushAll(late)
        PROVE  ImagesWritten'
    <3>1. /\ Len(images') = Len(images)
          /\ \A i \in 1..Len(images) : images[i] \in Image /\ images'[i] = Flushed(images[i])
      BY <2>1, <2>3, ImagesFromFlush DEF WrittenInvariant
    <3>2. \A b \in Image : Flushed(b).name = b.name
      BY DEF Flushed, Image
    <3>3. \A i \in 1..Len(images) : ImagePath(images'[i]) = ImagePath(images[i])
      BY <3>1, <3>2 DEF ImagePath
    <3>4. \A i \in 1..Len(images) : disk'[ImagePath(images[i])] = <<"image", i>>
      BY <2>1, <2>3, WrittenAtFlush DEF WrittenInvariant
    <3> QED BY <3>1, <3>3, <3>4 DEF ImagesWritten
  <2>4. ASSUME UNCHANGED vars
        PROVE  ImagesWritten'
    BY <2>1, <2>4 DEF vars, WrittenInvariant, ImagesWritten, ImagePath
  <2>5. \/ \E late \in BOOLEAN : FlushAll(late)
        \/ UNCHANGED vars
        \/ step' # "done"
    BY <2>1 DEF Goes, Next, ProcessBinary, StartText, NextFile, TransferImage, UseVignette,
                EndText, ProcessImages, GenerateTOCPage, GenerateCover, GenerateNCX,
                PrepareStylesheet, GeneratePagemap, GenerateOPF, KepubifyXHTML
  <2>6. step' # "done" => ImagesWritten'
    BY DEF ImagesWritten
  <2> QED BY <2>2, <2>3, <2>4, <2>5, <2>6 DEF WrittenInvariant
<1>3. WrittenInvariant => EveryImageIsThere
  BY LenProperties DEF WrittenInvariant, ImagesWritten, EveryImageIsThere, Done, Types
<1> QED BY <1>1, <1>2, <1>3, PTL DEF Spec

-----------------------------------------------------------------------------
(* The NCX table of contents.  All five cases of the loop of TocNcx are    *)
(* instances of one step: cut the stack down to its first k items, put the *)
(* new navPoint under item k and push it.  Lemma Push shows that the step  *)
(* keeps the inductive invariant when item k has a lower level and k fits  *)
(* the type of the table of contents; each case then has to establish only *)
(* these two facts.                                                        *)
(* What the barrier of every type means for the stack. *)
StackIsShallow ==
    /\ tocType = "flat" => Len(history) <= 1
    /\ tocType = "kindle" => Len(history) <= 2

(* Whatever came after an entry that is still on the stack lies deeper.    *)
StackIsOpen ==
    \A k \in 1..Len(history) :
        \A j \in (history[k].elem + 1)..Len(nav) : nav[j].level > history[k].level

NcxProgress ==
    /\ prev = NoPrev => history = <<>>
    /\ finished => done = total

NcxInv ==
    /\ TypeOK
    /\ NcxProgress
    /\ StackIsPath
    /\ StackIsShallow
    /\ ~finished => StackIsOpen
    /\ DepthIsLimited
    /\ NestingIsScoped

-----------------------------------------------------------------------------
USE MaxLevelAssumption, MaxEntriesAssumption

LEMMA InitNcxInv == TocInit => NcxInv
<1> SUFFICES ASSUME TocInit PROVE NcxInv
  OBVIOUS
<1>1. history = <<>> /\ Len(history) = 0 /\ prev = NoPrev /\ done = 0 /\ ~finished
  BY DEF TocInit
<1>2. \/ nav = <<>>
      \/ nav = <<NavPoint(PageLevel, Root)>>
  BY DEF TocInit
<1>3. /\ nav \in Seq(NavPoints)
      /\ \A i \in 1..Len(nav) : nav[i].parent = Root
  <2>1. NavPoint(PageLevel, Root) \in NavPoints /\ NavPoint(PageLevel, Root).parent = Root
    BY DEF NavPoint, NavPoints, Root
  <2>2. CASE nav = <<>>  BY <2>2, EmptySeq
  <2>3. CASE nav = <<NavPoint(PageLevel, Root)>>
    <3>1. nav \in Seq(NavPoints) /\ Len(nav) = 1 /\ nav[1] = NavPoint(PageLevel, Root)
      BY <2>1, <2>3
    <3>2. QED  BY <2>1, <3>1
  <2>4. QED  BY <1>2, <2>2, <2>3
<1>4. TypeOK
  <2>1. history \in Seq(StackItems)  BY <1>1, EmptySeq
  <2>2. total \in 0..MaxEntries /\ done \in 0..total  BY <1>1 DEF TocInit
  <2>3. prev \in Levels \union {NoPrev}  BY <1>1
  <2>4. QED  BY <1>1, <1>3, <2>1, <2>2, <2>3 DEF TocInit, TypeOK
<1>5. NcxProgress /\ StackIsPath /\ StackIsShallow /\ StackIsOpen
  BY <1>1 DEF NcxProgress, StackIsPath, StackIsShallow, StackIsOpen
<1>6. DepthIsLimited /\ NestingIsScoped
  BY <1>3 DEF DepthIsLimited, NestingIsScoped
<1>7. QED  BY <1>4, <1>5, <1>6 DEF NcxInv

(* One turn of the loop: the stack is cut to k items and the entry goes    *)
(* under the last of them.                                                 *)
LEMMA Push ==
    ASSUME NcxInv, done < total,
           NEW level \in Levels,
           NEW k \in 0..Len(history),
           k > 0 => history[k].level < level,
           tocType = "flat" => k = 0,
           tocType = "kindle" => k <= 1,
           PushUnder(SubSeq(history, 1, k), level)
    PROVE  NcxInv'
<1> DEFINE stack == SubSeq(history, 1, k)
           N == Len(nav) + 1
<1>1. /\ history \in Seq(StackItems) /\ nav \in Seq(NavPoints)
      /\ Len(history) \in Nat /\ Len(nav) \in Nat /\ k \in Nat
  BY LenProperties DEF NcxInv, TypeOK
<1>20. \A i \in 1..Len(history) :
            history[i].level \in Levels /\ history[i].elem \in Nat \ {0}
  <2>1. \A i \in 1..Len(history) : history[i] \in StackItems  BY <1>1, ElementOfSeq
  <2>2. QED  BY <2>1 DEF StackItems
<1>21. \A i \in 1..Len(nav) : nav[i].level \in Int /\ nav[i].parent \in Nat
  <2>1. \A i \in 1..Len(nav) : nav[i] \in NavPoints  BY <1>1, ElementOfSeq
  <2>2. QED  BY <2>1 DEF NavPoints, Levels, PageLevel
<1>2. /\ stack \in Seq(StackItems) /\ Len(stack) = k
      /\ \A i \in 1..k : stack[i] = history[i]
  <2>1. \A i \in 1..k : history[i] \in StackItems  BY <1>1, ElementOfSeq
  <2>2. QED  BY <1>1, <2>1, SubSeqProperties
<1> HIDE DEF stack
<1>3. Peek(stack) = IF k = 0 THEN Root ELSE history[k].elem
  BY <1>1, <1>2, EmptySeq DEF Peek
<1>4. Peek(stack) \in Nat
  BY <1>1, <1>3, <1>20 DEF Root
<1>5. /\ nav' \in Seq(NavPoints) /\ Len(nav') = N
      /\ \A i \in 1..Len(nav) : nav'[i] = nav[i]
      /\ nav'[N].level = level /\ nav'[N].parent = Peek(stack)
  <2>1. NavPoint(level, Peek(stack)) \in NavPoints  BY <1>4 DEF NavPoint, NavPoints
  <2>2. nav' = Append(nav, NavPoint(level, Peek(stack)))  BY DEF PushUnder, stack
  <2>3. QED  BY <1>1, <2>1, <2>2, AppendProperties DEF NavPoint
<1>6. /\ history' \in Seq(StackItems) /\ Len(history') = k + 1
      /\ \A i \in 1..k : history'[i] = history[i]
      /\ history'[k + 1].level = level /\ history'[k + 1].elem = N
  <2>1. [level |-> level, elem |-> N] \in StackItems  BY <1>1 DEF StackItems
  <2>2. history' = Append(stack, [level |-> level, elem |-> N])  BY DEF PushUnder, stack
  <2>3. QED  BY <1>1, <1>2, <2>1, <2>2, AppendProperties
<1>7. /\ prev' = level /\ done' = done + 1 /\ finished' = finished
      /\ tocType' = tocType /\ tocPlacement' = tocPlacement /\ total' = total
  BY DEF PushUnder, config
<1>8. ~finished  BY DEF NcxInv, NcxProgress, TypeOK
<1>9. level \in Int /\ level >= 0  BY DEF Levels
<1>10. \A i \in 1..Len(history) :
          /\ history[i].elem \in 1..Len(nav) /\ history[i].level \in Int
          /\ nav[history[i].elem].level = history[i].level
          /\ nav[history[i].elem].parent = IF i = 1 THEN Root ELSE history[i - 1].elem
  BY <1>20 DEF NcxInv, StackIsPath, Levels
<1>11. TypeOK'
  BY <1>5, <1>6, <1>7, <1>8 DEF NcxInv, TypeOK
<1>12. NcxProgress'
  BY <1>7, <1>8, <1>9 DEF NcxProgress, NoPrev
<1>13. StackIsPath'
  <2>1. \A i \in 1..Len(history') :
          /\ history'[i].elem \in 1..Len(nav')
          /\ nav'[history'[i].elem].level = history'[i].level
          /\ nav'[history'[i].elem].parent
                = IF i = 1 THEN Root ELSE history'[i - 1].elem
    <3> SUFFICES ASSUME NEW i \in 1..(k + 1)
                 PROVE  /\ history'[i].elem \in 1..Len(nav')
                        /\ nav'[history'[i].elem].level = history'[i].level
                        /\ nav'[history'[i].elem].parent
                              = IF i = 1 THEN Root ELSE history'[i - 1].elem
      BY <1>6
    <3>1. CASE i = k + 1
      BY <1>1, <1>3, <1>5, <1>6, <3>1
    <3>2. CASE i \in 1..k
      <4>1. i \in 1..Len(history) /\ (i # 1 => i - 1 \in 1..k)  BY <1>1, <3>2
      <4>2. history[i].elem \in 1..Len(nav) /\ history[i].elem \in 1..N
        BY <1>1, <1>10, <4>1
      <4>3. nav'[history[i].elem] = nav[history[i].elem]  BY <1>5, <4>2
      <4>4. history'[i] = history[i] /\ (i # 1 => history'[i - 1] = history[i - 1])
        BY <1>6, <3>2, <4>1
      <4>5. history'[i].elem \in 1..Len(nav')  BY <1>1, <1>5, <4>2, <4>4
      <4>6. nav'[history'[i].elem].level = history'[i].level
        BY <1>10, <4>1, <4>3, <4>4
      <4>7. nav'[history'[i].elem].parent = IF i = 1 THEN Root ELSE history[i - 1].elem
        BY <1>10, <4>1, <4>3, <4>4
      <4>8. QED  BY <4>4, <4>5, <4>6, <4>7
    <3>3. QED  BY <1>1, <3>1, <3>2
  <2>2. \A i, j \in 1..Len(history') : i < j => history'[i].level < history'[j].level
    <3> SUFFICES ASSUME NEW i \in 1..(k + 1), NEW j \in 1..(k + 1), i < j
                 PROVE  history'[i].level < history'[j].level
      BY <1>6
    <3>1. i \in 1..k  BY <1>1
    <3>2. CASE j \in 1..k
      <4>1. i \in 1..Len(history) /\ j \in 1..Len(history)  BY <1>1, <3>1, <3>2
      <4>2. history[i].level < history[j].level  BY <4>1 DEF NcxInv, StackIsPath
      <4>3. QED  BY <1>6, <3>1, <3>2, <4>2
    <3>3. CASE j = k + 1
      <4>1. history[i].level <= history[k].level
        BY <1>1, <1>10, <3>1 DEF NcxInv, StackIsPath
      <4>2. history[k].level < level /\ history[k].level \in Int /\ history[i].level \in Int
        BY <1>1, <1>10, <3>1
      <4>3. QED  BY <1>6, <1>9, <3>1, <3>3, <4>1, <4>2
    <3>4. QED  BY <1>1, <3>2, <3>3
  <2>3. history' # <<>> /\ history'[Len(history')].level = prev'
    BY <1>1, <1>6, <1>7
  <2>4. QED  BY <2>1, <2>2, <2>3 DEF StackIsPath
<1>14. StackIsShallow'
  BY <1>1, <1>6, <1>7 DEF StackIsShallow
<1>15. StackIsOpen'
  <2> SUFFICES ASSUME NEW i \in 1..(k + 1),
                      NEW j \in (history'[i].elem + 1)..N
               PROVE  nav'[j].level > history'[i].level
    BY <1>5, <1>6 DEF StackIsOpen
  <2>1. CASE i = k + 1  BY <1>1, <1>6, <2>1
  <2>2. CASE i \in 1..k
    <3>1. history'[i] = history[i] /\ i \in 1..Len(history)
      BY <1>1, <1>6, <2>2
    <3>2. CASE j = N
      <4>1. history'[i].level < history'[k + 1].level
        BY <1>1, <1>6, <1>13, <2>2 DEF StackIsPath
      <4>2. QED  BY <1>5, <1>6, <1>9, <1>10, <3>1, <3>2, <4>1
    <3>3. CASE j # N
      <4>1. j \in (history[i].elem + 1)..Len(nav) /\ j \in 1..Len(nav)
        <5>1. history[i].elem \in Nat /\ j \in Int /\ j <= Len(nav)
          BY <1>1, <1>20, <3>1, <3>3
        <5>2. QED  BY <1>1, <3>1, <5>1
      <4>2. QED  BY <1>5, <1>8, <3>1, <4>1 DEF NcxInv, StackIsOpen
    <3>4. QED  BY <3>2, <3>3
  <2>3. QED  BY <1>1, <2>1, <2>2
<1>16. NestingIsScoped'
  <2> SUFFICES ASSUME NEW i \in 1..N, nav'[i].parent # Root
               PROVE  /\ nav'[i].parent \in 1..(i - 1)
                      /\ nav'[nav'[i].parent].level # PageLevel
                      /\ \A j \in (nav'[i].parent + 1)..i :
                            nav'[j].level > nav'[nav'[i].parent].level
    BY <1>5 DEF NestingIsScoped
  <2>1. CASE i = N
    <3>1. k > 0 /\ nav'[N].parent = history[k].elem
      BY <1>1, <1>3, <1>5, <2>1
    <3>2. history'[k] = history[k] /\ k \in 1..Len(history)  BY <1>1, <1>6, <3>1
    <3>3. history[k].elem \in 1..Len(nav) /\ nav'[history[k].elem].level = history[k].level
      BY <1>5, <1>10, <3>2
    <3>4. history[k].level # PageLevel
      BY <1>20, <3>2 DEF Levels, PageLevel
    <3>5. \A j \in (history[k].elem + 1)..N : nav'[j].level > history[k].level
      BY <1>1, <1>5, <1>6, <1>15, <3>2 DEF StackIsOpen
    <3>6. QED  BY <1>1, <2>1, <3>1, <3>3, <3>4, <3>5
  <2>2. CASE i \in 1..Len(nav)
    <3>1. nav'[i] = nav[i] /\ nav[i].parent # Root  BY <1>5, <2>2
    <3>2. /\ nav[i].parent \in 1..(i - 1)
          /\ nav[nav[i].parent].level # PageLevel
          /\ \A j \in (nav[i].parent + 1)..i : nav[j].level > nav[nav[i].parent].level
      BY <2>2, <3>1 DEF NcxInv, NestingIsScoped
    <3>3. \A j \in nav[i].parent..i : j \in 1..Len(nav)  BY <1>1, <2>2, <3>2
    <3>4. nav'[nav[i].parent] = nav[nav[i].parent]
      <4>1. nav[i].parent \in 1..Len(nav)  BY <1>1, <2>2, <3>2
      <4>2. QED  BY <1>5, <4>1
    <3>5. ASSUME NEW j \in (nav[i].parent + 1)..i PROVE nav'[j] = nav[j]
      <4>1. j \in 1..Len(nav)  BY <1>1, <2>2, <3>2
      <4>2. QED  BY <1>5, <4>1
    <3>6. QED  BY <3>1, <3>2, <3>4, <3>5
  <2>3. QED  BY <1>1, <2>1, <2>2
<1>17. DepthIsLimited'
  <2> SUFFICES ASSUME NEW i \in 1..N
               PROVE  /\ tocType = "flat" => nav'[i].parent = Root
                      /\ tocType = "kindle" /\ nav'[i].parent # Root
                            => nav'[nav'[i].parent].parent = Root
    BY <1>5, <1>7 DEF DepthIsLimited
  <2>1. CASE i = N
    <3>1. CASE k = 0  BY <1>3, <1>5, <2>1, <3>1
    <3>2. CASE k = 1 /\ tocType # "flat"
      <4>1. nav'[N].parent = history[1].elem  BY <1>3, <1>5, <3>2
      <4>2. 1 \in 1..Len(history)  BY <1>1, <3>2
      <4>3. nav[history[1].elem].parent = Root /\ history[1].elem \in 1..Len(nav)
        BY <1>10, <4>2
      <4>4. QED  BY <1>5, <2>1, <3>2, <4>1, <4>3
    <3>3. QED  BY <1>1, <2>1, <3>1, <3>2
  <2>2. CASE i \in 1..Len(nav)
    <3>1. nav'[i] = nav[i]  BY <1>5, <2>2
    <3>2. nav[i].parent # Root => nav[i].parent \in 1..Len(nav)
      BY <1>1, <2>2 DEF NcxInv, NestingIsScoped
    <3>3. QED  BY <1>5, <2>2, <3>1, <3>2 DEF NcxInv, DepthIsLimited
  <2>3. QED  BY <1>1, <2>1, <2>2
<1>18. QED  BY <1>11, <1>12, <1>13, <1>14, <1>15, <1>16, <1>17 DEF NcxInv

(* The top of the stack is the previous entry, so pop never fails.         *)
LEMMA TopIsPrev ==
    ASSUME NcxInv, prev # NoPrev
    PROVE  /\ Len(history) \in Nat \ {0}
           /\ history[Len(history)].level = prev
           /\ history \in Seq(StackItems)
           /\ \A k \in 1..Len(history) : history[k].level \in Int
           /\ prev \in Int
<1>1. history \in Seq(StackItems) /\ history # <<>> /\ history[Len(history)].level = prev
      /\ prev \in Int
  BY DEF NcxInv, TypeOK, StackIsPath, Levels
<1>2. Len(history) \in Nat \ {0}  BY <1>1, EmptySeq, LenProperties
<1>3. \A k \in 1..Len(history) : history[k] \in StackItems  BY <1>1, ElementOfSeq
<1>4. QED  BY <1>1, <1>2, <1>3 DEF StackItems, Levels

LEMMA ShallowAfterPop ==
    ASSUME NEW depth \in Nat, depth >= 1
    PROVE  (depth <= 1 => depth - 1 = 0) /\ (depth <= 2 => depth - 1 <= 1)
<1>1. QED  OBVIOUS

(* The loop puts an entry under item k of the stack; an item above k is of *)
(* the entry's level or deeper, unless it is the top of the stack.         *)
Entry(level, k) ==
    /\ done < total
    /\ k > 0 => history[k].level < level
    /\ tocType = "flat" => k = 0
    /\ tocType = "kindle" => k <= 1
    /\ \A m \in (k + 1)..Len(history) : m = Len(history) \/ history[m].level >= level
    /\ prev = NoPrev => history = <<>> /\ level = 0
    /\ PushUnder(SubSeq(history, 1, k), level)

LEMMA EveryEntryIsAPush ==
    ASSUME NcxInv,
           \/ FirstEntry
           \/ \E level \in Levels : GoingIn(level) \/ SameLevel(level) \/ GoingOut(level)
    PROVE  \E level \in Levels, k \in 0..Len(history) : Entry(level, k)
<1> DEFINE Goal == \E level \in Levels, k \in 0..Len(history) : Entry(level, k)
<1> HIDE DEF Goal
<1>0. Len(history) \in Nat  BY LenProperties DEF NcxInv, TypeOK
<1>1. CASE FirstEntry
  <2>1. history = <<>> /\ Len(history) = 0  BY <1>1 DEF FirstEntry, NcxInv, NcxProgress
  <2>2. SubSeq(history, 1, 0) = history  BY <2>1, SubSeqEmpty
  <2>3. 0 \in Levels /\ 0 \in 0..Len(history)  BY <2>1 DEF Levels
  <2>4. PushUnder(SubSeq(history, 1, 0), 0) /\ done < total  BY <1>1, <2>2 DEF FirstEntry
  <2>5. Entry(0, 0)  BY <2>1, <2>4 DEF Entry
  <2>6. QED  BY <2>3, <2>5 DEF Goal
<1>2. ASSUME NEW level \in Levels, GoingIn(level) PROVE Goal
  <2>1. /\ Len(history) \in Nat \ {0} /\ history[Len(history)].level = prev
        /\ history \in Seq(StackItems) /\ prev < level /\ done < total
        /\ \A k \in 1..Len(history) : history[k].level \in Int
        /\ prev \in Int /\ level \in Int
    BY <1>2, TopIsPrev DEF GoingIn, Levels
  <2>2. CASE level < LevelFor(tocType) \/ Len(history) > BarrierFor(tocType)
    <3>1. PushUnder(SubSeq(history, 1, Len(history) - 1), level)
      BY <1>2, <2>2 DEF GoingIn, Pop
    <3>2. Len(history) - 1 > 0 => history[Len(history) - 1].level < level
      BY <2>1 DEF NcxInv, StackIsPath
    <3>3. /\ tocType = "flat" => Len(history) - 1 = 0
          /\ tocType = "kindle" => Len(history) - 1 <= 1
      <4>1. StackIsShallow  BY DEF NcxInv
      <4>2. Len(history) \in Nat /\ Len(history) >= 1  BY <2>1
      <4>3. tocType = "flat" => Len(history) <= 1  BY <4>1 DEF StackIsShallow
      <4>4. tocType = "kindle" => Len(history) <= 2  BY <4>1 DEF StackIsShallow
      <4>5. QED  BY <4>2, <4>3, <4>4, ShallowAfterPop
    <3>4. Len(history) - 1 \in 0..Len(history)  BY <2>1
    <3>5. Entry(level, Len(history) - 1)
      BY <1>2, <2>1, <3>1, <3>2, <3>3 DEF Entry, GoingIn
    <3>6. QED  BY <3>4, <3>5 DEF Goal
  <2>3. CASE ~(level < LevelFor(tocType) \/ Len(history) > BarrierFor(tocType))
    <3>1. SubSeq(history, 1, Len(history)) = history  BY <2>1, SubSeqFull
    <3>2. PushUnder(SubSeq(history, 1, Len(history)), level)
      BY <1>2, <2>3, <3>1 DEF GoingIn
    <3>3. tocType # "flat"
      BY <2>3 DEF LevelFor, Levels, MaxInt32
    <3>4. tocType = "kindle" => Len(history) <= 1
      BY <2>1, <2>3 DEF BarrierFor
    <3>5. Len(history) \in 0..Len(history)  BY <2>1
    <3>6. Entry(level, Len(history))
      BY <1>2, <2>1, <3>2, <3>3, <3>4 DEF Entry, GoingIn
    <3>7. QED  BY <3>5, <3>6 DEF Goal
  <2>4. QED  BY <2>2, <2>3
<1>3. ASSUME NEW level \in Levels, SameLevel(level) PROVE Goal
  <2>1. prev # NoPrev /\ prev = level /\ done < total
        /\ PushUnder(SubSeq(history, 1, Len(history) - 1), level)
    BY <1>3 DEF SameLevel, Pop, Levels, NoPrev
  <2>2. /\ Len(history) \in Nat \ {0} /\ history[Len(history)].level = level
        /\ \A k \in 1..Len(history) : history[k].level \in Int
    BY <2>1, TopIsPrev
  <2>3. Len(history) - 1 > 0 => history[Len(history) - 1].level < level
    BY <2>2 DEF NcxInv, StackIsPath
  <2>4. /\ tocType = "flat" => Len(history) - 1 = 0
        /\ tocType = "kindle" => Len(history) - 1 <= 1
    <3>1. StackIsShallow  BY DEF NcxInv
    <3>2. Len(history) \in Nat /\ Len(history) >= 1  BY <2>2
    <3>3. tocType = "flat" => Len(history) <= 1  BY <3>1 DEF StackIsShallow
    <3>4. tocType = "kindle" => Len(history) <= 2  BY <3>1 DEF StackIsShallow
    <3>5. QED  BY <3>2, <3>3, <3>4, ShallowAfterPop
  <2>5. Len(history) - 1 \in 0..Len(history)  BY <2>2
  <2>6. Entry(level, Len(history) - 1)  BY <2>1, <2>2, <2>3, <2>4 DEF Entry
  <2>7. QED  BY <2>5, <2>6 DEF Goal
<1>4. ASSUME NEW level \in Levels, GoingOut(level) PROVE Goal
  <2>1. prev # NoPrev /\ prev > level /\ done < total
    BY <1>4 DEF GoingOut, Levels, NoPrev
  <2>2. PICK k \in 0..Len(history) :
            Remains(history, k, level) /\ PushUnder(SubSeq(history, 1, k), level)
    BY <1>4 DEF GoingOut
  <2>3. k > 0 => history[k].level < level  BY <2>2 DEF Remains
  <2>4. Len(history) \in Nat \ {0} /\ history[Len(history)].level = prev /\ prev \in Int
    BY <2>1, TopIsPrev
  <2>5. k < Len(history)  BY <2>1, <2>2, <2>3, <2>4 DEF Levels
  <2>6. /\ tocType = "flat" => k = 0
        /\ tocType = "kindle" => k <= 1
    BY <2>2, <2>4, <2>5 DEF NcxInv, StackIsShallow
  <2>7. Entry(level, k)  BY <2>1, <2>2, <2>3, <2>6 DEF Entry, Remains
  <2>8. QED  BY <2>7 DEF Goal
<1>5. QED  BY <1>1, <1>2, <1>3, <1>4 DEF Goal

LEMMA StepNcxInv == NcxInv /\ [TocNext]_tocVars => NcxInv'
<1> SUFFICES ASSUME NcxInv, [TocNext]_tocVars PROVE NcxInv'
  OBVIOUS
<1>0. Len(history) \in Nat /\ Len(nav) \in Nat /\ nav \in Seq(NavPoints)
  BY LenProperties DEF NcxInv, TypeOK
<1>1. CASE \/ FirstEntry
           \/ \E level \in Levels : GoingIn(level) \/ SameLevel(level) \/ GoingOut(level)
  <2>1. PICK level \in Levels, k \in 0..Len(history) : Entry(level, k)
    BY <1>1, EveryEntryIsAPush
  <2>2. QED  BY <2>1, Push DEF Entry
<1>5. CASE Finish
  <2>1. /\ UNCHANGED <<tocType, tocPlacement, total, done, history, prev>>
        /\ finished' /\ done = total
    BY <1>5 DEF Finish, config
  <2>2. \/ nav' = nav
        \/ nav' = Append(nav, NavPoint(PageLevel, Root))
    BY <1>5 DEF Finish
  <2>3. /\ nav' \in Seq(NavPoints)
        /\ Len(nav') \in {Len(nav), Len(nav) + 1}
        /\ \A i \in 1..Len(nav) : nav'[i] = nav[i]
        /\ Len(nav') = Len(nav) + 1 => nav'[Len(nav) + 1].parent = Root
    <3>1. NavPoint(PageLevel, Root) \in NavPoints /\ NavPoint(PageLevel, Root).parent = Root
      BY DEF NavPoint, NavPoints, Root
    <3>2. CASE nav' = nav  BY <1>0, <3>2
    <3>3. CASE nav' = Append(nav, NavPoint(PageLevel, Root))
      BY <1>0, <3>1, <3>3, AppendProperties
    <3>4. QED  BY <2>2, <3>2, <3>3
  <2>4. TypeOK' /\ NcxProgress' /\ StackIsShallow' /\ finished'
    BY <2>1, <2>3 DEF NcxInv, TypeOK, NcxProgress, StackIsShallow
  <2>5. StackIsPath'
    <3>1. \A k \in 1..Len(history) : history[k].elem \in 1..Len(nav)
      BY DEF NcxInv, StackIsPath
    <3>2. \A k \in 1..Len(history) :
            /\ nav'[history[k].elem] = nav[history[k].elem]
            /\ history[k].elem \in 1..Len(nav')
      BY <1>0, <2>3, <3>1
    <3>3. QED  BY <2>1, <3>2 DEF NcxInv, StackIsPath
  <2>6. \A i \in 1..Len(nav) : nav[i].parent # Root => nav[i].parent \in 1..(i - 1)
    BY DEF NcxInv, NestingIsScoped
  <2>7. DepthIsLimited'
    <3> SUFFICES ASSUME NEW i \in 1..Len(nav')
                 PROVE  /\ tocType = "flat" => nav'[i].parent = Root
                        /\ tocType = "kindle" /\ nav'[i].parent # Root
                              => nav'[nav'[i].parent].parent = Root
      BY <2>1 DEF DepthIsLimited
    <3>1. CASE i = Len(nav) + 1  BY <1>0, <2>3, <3>1
    <3>2. CASE i \in 1..Len(nav)
      <4>1. nav'[i] = nav[i]  BY <2>3, <3>2
      <4>2. nav[i].parent # Root => nav[i].parent \in 1..Len(nav)  BY <1>0, <2>6, <3>2
      <4>3. QED  BY <2>3, <3>2, <4>1, <4>2 DEF NcxInv, DepthIsLimited
    <3>3. QED  BY <1>0, <2>3, <3>1, <3>2
  <2>8. NestingIsScoped'
    <3> SUFFICES ASSUME NEW i \in 1..Len(nav'), nav'[i].parent # Root
                 PROVE  /\ nav'[i].parent \in 1..(i - 1)
                        /\ nav'[nav'[i].parent].level # PageLevel
                        /\ \A j \in (nav'[i].parent + 1)..i :
                              nav'[j].level > nav'[nav'[i].parent].level
      BY DEF NestingIsScoped
    <3>1. i \in 1..Len(nav) /\ nav'[i] = nav[i]  BY <1>0, <2>3
    <3>2. /\ nav[i].parent \in 1..(i - 1)
          /\ nav[nav[i].parent].level # PageLevel
          /\ \A j \in (nav[i].parent + 1)..i : nav[j].level > nav[nav[i].parent].level
      BY <3>1 DEF NcxInv, NestingIsScoped
    <3>3. nav'[nav[i].parent] = nav[nav[i].parent]
      <4>1. nav[i].parent \in 1..Len(nav)  BY <1>0, <3>1, <3>2
      <4>2. QED  BY <2>3, <4>1
    <3>4. ASSUME NEW j \in (nav[i].parent + 1)..i PROVE nav'[j] = nav[j]
      <4>1. j \in 1..Len(nav)  BY <1>0, <3>1, <3>2
      <4>2. QED  BY <2>3, <4>1
    <3>5. QED  BY <3>1, <3>2, <3>3, <3>4
  <2>9. QED  BY <2>4, <2>5, <2>7, <2>8 DEF NcxInv
<1>6. CASE UNCHANGED tocVars
  BY <1>6 DEF tocVars, NcxInv, TypeOK, NcxProgress, StackIsPath, StackIsShallow, StackIsOpen,
     DepthIsLimited, NestingIsScoped
<1>7. QED  BY <1>1, <1>5, <1>6 DEF TocNext

LEMMA NcxInductive == TocSpec => []NcxInv
<1>1. QED  BY InitNcxInv, StepNcxInv, PTL DEF TocSpec

-----------------------------------------------------------------------------
(* Type correctness of generateNCX.                                        *)
THEOREM NcxTypes == TocSpec => []TypeOK
<1>1. NcxInv => TypeOK  BY DEF NcxInv
<1>2. QED  BY <1>1, NcxInductive, PTL

(* The stack of stackTOC is the path to the last navPoint with growing     *)
(* levels, so pop and peek never meet an empty stack they do not expect.   *)
THEOREM StackIsAlwaysPath == TocSpec => []StackIsPath
<1>1. NcxInv => StackIsPath  BY DEF NcxInv
<1>2. QED  BY <1>1, NcxInductive, PTL

(* A TOC of type "kindle" has at most two levels and one of type "flat" a  *)
(* single one, for every list of entries.                                  *)
THEOREM DepthIsAlwaysLimited == TocSpec => []DepthIsLimited
<1>1. NcxInv => DepthIsLimited  BY DEF NcxInv
<1>2. QED  BY <1>1, NcxInductive, PTL

(* An entry is nested only under a higher heading whose part of the book   *)
(* has not ended, for every list of entries and every type.                *)
THEOREM NestingIsAlwaysScoped == TocSpec => []NestingIsScoped
<1>1. NcxInv => NestingIsScoped  BY DEF NcxInv
<1>2. QED  BY <1>1, NcxInductive, PTL

-----------------------------------------------------------------------------
(* Siblings.  An entry is open for its level as long as nothing higher has *)
(* come after it: it is item k of the stack, or the limit on the depth has *)
(* dropped it, and in both cases its parent is the item a new entry of its *)
(* level would get.                                                        *)
OpenSiblings ==
    \A i \in 1..Len(nav), k \in 0..Len(history) :
        /\ \A j \in (i + 1)..Len(nav) : nav[j].level >= nav[i].level
        /\ k > 0 => history[k].level < nav[i].level
        /\ \A m \in (k + 1)..Len(history) : history[m].level >= nav[i].level
        => nav[i].parent = IF k = 0 THEN Root ELSE history[k].elem

TopIsLast == history # <<>> => history[Len(history)].elem = Len(nav)

SiblingsInv ==
    /\ ~finished => OpenSiblings /\ TopIsLast
    /\ ChaptersAreSiblings

LEMMA InitSiblingsInv == TocInit => SiblingsInv
<1> SUFFICES ASSUME TocInit PROVE SiblingsInv
  OBVIOUS
<1>1. history = <<>> /\ Len(history) = 0  BY DEF TocInit
<1>2. Len(nav) \in {0, 1} /\ \A i \in 1..Len(nav) : nav[i].parent = Root
  BY DEF TocInit, NavPoint
<1>3. QED
  BY <1>1, <1>2 DEF SiblingsInv, OpenSiblings, TopIsLast, ChaptersAreSiblings

(* A new entry gets the parent of the open entries of its level.           *)
LEMMA EntrySiblings ==
    ASSUME NcxInv, NcxInv', SiblingsInv,
           NEW level \in Levels, NEW k \in 0..Len(history), Entry(level, k)
    PROVE  SiblingsInv'
<1> DEFINE stack == SubSeq(history, 1, k)
           N == Len(nav) + 1
<1>1. /\ history \in Seq(StackItems) /\ nav \in Seq(NavPoints)
      /\ Len(history) \in Nat /\ Len(nav) \in Nat /\ k \in Nat
  BY LenProperties DEF NcxInv, TypeOK
<1>2. \A i \in 1..Len(history) :
            history[i].level \in Levels /\ history[i].elem \in Nat \ {0}
  <2>1. \A i \in 1..Len(history) : history[i] \in StackItems  BY <1>1, ElementOfSeq
  <2>2. QED  BY <2>1 DEF StackItems
<1>3. \A i \in 1..Len(nav) : nav[i].level \in Int /\ nav[i].parent \in Nat
  <2>1. \A i \in 1..Len(nav) : nav[i] \in NavPoints  BY <1>1, ElementOfSeq
  <2>2. QED  BY <2>1 DEF NavPoints, Levels, PageLevel
<1>4. /\ stack \in Seq(StackItems) /\ Len(stack) = k
      /\ \A i \in 1..k : stack[i] = history[i]
  <2>1. \A i \in 1..k : history[i] \in StackItems  BY <1>1, ElementOfSeq
  <2>2. QED  BY <1>1, <2>1, SubSeqProperties
<1> HIDE DEF stack
<1>5. Peek(stack) = IF k = 0 THEN Root ELSE history[k].elem
  BY <1>1, <1>4, EmptySeq DEF Peek
<1>6. Peek(stack) \in Nat  BY <1>1, <1>2, <1>5 DEF Root
<1>7. /\ Len(nav') = N
      /\ \A i \in 1..Len(nav) : nav'[i] = nav[i]
      /\ nav'[N].level = level /\ nav'[N].parent = Peek(stack)
  <2>1. NavPoint(level, Peek(stack)) \in NavPoints  BY <1>6 DEF NavPoint, NavPoints
  <2>2. nav' = Append(nav, NavPoint(level, Peek(stack)))  BY DEF Entry, PushUnder, stack
  <2>3. QED  BY <1>1, <2>1, <2>2, AppendProperties DEF NavPoint
<1>8. /\ Len(history') = k + 1
      /\ \A i \in 1..k : history'[i] = history[i]
      /\ history'[k + 1].level = level /\ history'[k + 1].elem = N
  <2>1. [level |-> level, elem |-> N] \in StackItems  BY <1>1 DEF StackItems
  <2>2. history' = Append(stack, [level |-> level, elem |-> N])
    BY DEF Entry, PushUnder, stack
  <2>3. QED  BY <1>1, <1>4, <2>1, <2>2, AppendProperties
<1>9. ~finished /\ level \in Int /\ level >= 0
  BY DEF Entry, NcxInv, NcxProgress, TypeOK, Levels
<1>10. OpenSiblings /\ TopIsLast  BY <1>9 DEF SiblingsInv
<1>11. TopIsLast'  BY <1>1, <1>7, <1>8 DEF TopIsLast
<1>12. \A m \in 1..Len(history) : history[m].level \in Int  BY <1>2 DEF Levels
(* An entry that is open for a level not above the new one keeps its       *)
(* parent on the stack.                                                    *)
<1>13. ASSUME NEW i \in 1..Len(nav), NEW b \in 0..(k + 1),
              \A j \in (i + 1)..N : nav'[j].level >= nav'[i].level,
              b > 0 => history'[b].level < nav'[i].level,
              \A m \in (b + 1)..(k + 1) : history'[m].level >= nav'[i].level
       PROVE  nav'[i].parent = IF b = 0 THEN Root ELSE history'[b].elem
  <2>1. nav'[i] = nav[i] /\ nav[i].level \in Int  BY <1>3, <1>7
  <2>2. level >= nav[i].level  BY <1>1, <1>7, <1>13, <2>1
  <2>3. b # k + 1  BY <1>8, <1>9, <1>13, <2>1, <2>2
  <2>4. b \in 0..k /\ b \in 0..Len(history)  BY <1>1, <2>3
  <2>5. \A j \in (i + 1)..Len(nav) : nav[j].level >= nav[i].level
    BY <1>1, <1>7, <1>13, <2>1
  <2>6. b > 0 => history[b] = history'[b] /\ history[b].level < nav[i].level
    BY <1>1, <1>8, <1>13, <2>1, <2>4
  <2>7. ASSUME NEW m \in (b + 1)..Len(history) PROVE history[m].level >= nav[i].level
    <3>1. m \in 1..Len(history) /\ history[m].level \in Int  BY <1>1, <1>12, <2>4
    <3>2. CASE m <= k
      <4>1. m \in 1..k /\ m \in (b + 1)..(k + 1)  BY <1>1, <2>4, <3>1, <3>2
      <4>2. history'[m] = history[m] /\ history'[m].level >= nav'[i].level
        BY <1>8, <1>13, <4>1
      <4>3. QED  BY <2>1, <4>2
    <3>3. CASE m > k /\ history[m].level >= level
      BY <1>9, <2>1, <2>2, <3>1, <3>3
    <3>4. CASE m = Len(history)
      <4>1. history # <<>> /\ history[m].elem = Len(nav)
        BY <1>1, <1>10, <3>1, <3>4 DEF TopIsLast
      <4>2. nav[Len(nav)].level = history[m].level /\ Len(nav) \in 1..Len(nav)
        BY <3>1, <4>1 DEF NcxInv, StackIsPath
      <4>3. CASE i = Len(nav)  BY <2>1, <4>2, <4>3
      <4>4. CASE i # Len(nav)
        <5>1. Len(nav) \in (i + 1)..Len(nav)  BY <1>1, <4>4
        <5>2. QED  BY <2>5, <4>2, <5>1
      <4>5. QED  BY <4>3, <4>4
    <3>5. m \in (k + 1)..Len(history) => m = Len(history) \/ history[m].level >= level
      BY DEF Entry
    <3>6. QED  BY <1>1, <3>1, <3>2, <3>3, <3>4, <3>5
  <2>8. nav[i].parent = IF b = 0 THEN Root ELSE history[b].elem
    BY <1>10, <2>4, <2>5, <2>6, <2>7 DEF OpenSiblings
  <2>9. QED  BY <2>1, <2>4, <2>6, <2>8
<1>14. k > 0 => history'[k].level < level  BY <1>1, <1>8 DEF Entry
<1>15. nav'[N].parent = IF k = 0 THEN Root ELSE history'[k].elem
  BY <1>1, <1>5, <1>7, <1>8
<1>16. OpenSiblings'
  <2> SUFFICES ASSUME NEW i \in 1..N, NEW b \in 0..(k + 1),
                      \A j \in (i + 1)..N : nav'[j].level >= nav'[i].level,
                      b > 0 => history'[b].level < nav'[i].level,
                      \A m \in (b + 1)..(k + 1) : history'[m].level >= nav'[i].level
               PROVE  nav'[i].parent = IF b = 0 THEN Root ELSE history'[b].elem
    BY <1>7, <1>8 DEF OpenSiblings
  <2>1. CASE i # N
    <3>1. i \in 1..Len(nav)  BY <1>1, <2>1
    <3>2. QED  BY <3>1, <1>13
  <2>2. CASE i = N
    <3>1. b # k + 1  BY <1>7, <1>8, <1>9, <2>2
    <3>2. b = k
      <4>1. ASSUME b < k PROVE FALSE
        <5>1. k \in (b + 1)..(k + 1) /\ k > 0  BY <1>1, <4>1
        <5>2. history'[k].level >= level  BY <1>7, <2>2, <5>1
        <5>3. history'[k].level \in Int  BY <1>1, <1>8, <1>12, <5>1
        <5>4. QED  BY <1>9, <1>14, <5>1, <5>2, <5>3
      <4>2. QED  BY <1>1, <3>1, <4>1
    <3>3. QED  BY <1>15, <2>2, <3>2
  <2>3. QED  BY <2>1, <2>2
<1>17. ChaptersAreSiblings'
  <2> SUFFICES ASSUME NEW i \in 1..N, NEW j \in 1..N, i < j,
                      nav'[i].level = nav'[j].level,
                      \A m \in (i + 1)..j : nav'[m].level >= nav'[i].level
               PROVE  nav'[i].parent = nav'[j].parent
    BY <1>7 DEF ChaptersAreSiblings
  <2>1. i \in 1..Len(nav) /\ nav'[i] = nav[i]  BY <1>1, <1>7
  <2>2. CASE j = N
    <3>1. nav'[i].level = level  BY <1>7, <2>2
    <3>2. k \in 0..(k + 1)  BY <1>1
    <3>3. \A m \in (k + 1)..(k + 1) : history'[m].level >= level  BY <1>1, <1>8, <1>9
    <3>4. nav'[i].parent = IF k = 0 THEN Root ELSE history'[k].elem
      BY <1>13, <1>14, <2>1, <2>2, <3>1, <3>2, <3>3
    <3>5. QED  BY <1>15, <2>2, <3>4
  <2>3. CASE j # N
    <3>1. j \in 1..Len(nav)  BY <1>1, <2>3
    <3>2. nav'[j] = nav[j]  BY <1>7, <3>1
    <3>3. \A m \in (i + 1)..j : nav[m].level >= nav[i].level
      BY <1>1, <1>7, <2>1, <3>1
    <3>4. QED  BY <2>1, <3>1, <3>2, <3>3 DEF SiblingsInv, ChaptersAreSiblings
  <2>4. QED  BY <2>2, <2>3
<1>18. QED  BY <1>11, <1>16, <1>17 DEF SiblingsInv

LEMMA StepSiblingsInv == NcxInv /\ NcxInv' /\ SiblingsInv /\ [TocNext]_tocVars => SiblingsInv'
<1> SUFFICES ASSUME NcxInv, NcxInv', SiblingsInv, [TocNext]_tocVars PROVE SiblingsInv'
  OBVIOUS
<1>1. CASE \/ FirstEntry
           \/ \E level \in Levels : GoingIn(level) \/ SameLevel(level) \/ GoingOut(level)
  <2>1. PICK level \in Levels, k \in 0..Len(history) : Entry(level, k)
    BY <1>1, EveryEntryIsAPush
  <2>2. QED  BY <2>1, EntrySiblings
<1>2. CASE Finish
  <2>1. finished' /\ ~finished  BY <1>2 DEF Finish
  <2>2. nav \in Seq(NavPoints) /\ Len(nav) \in Nat /\ Len(history) \in Nat
    BY LenProperties DEF NcxInv, TypeOK
  <2>3. \A i \in 1..Len(nav) : nav[i].level \in Int /\ nav[i].level >= PageLevel
    <3>1. \A i \in 1..Len(nav) : nav[i] \in NavPoints  BY <2>2, ElementOfSeq
    <3>2. QED  BY <3>1 DEF NavPoints, Levels, PageLevel
  <2>4. \A m \in 1..Len(history) : history[m].level >= PageLevel
    <3>1. \A m \in 1..Len(history) : history[m] \in StackItems
      BY ElementOfSeq DEF NcxInv, TypeOK
    <3>2. QED  BY <3>1 DEF StackItems, Levels, PageLevel
  <2>5. CASE nav' = nav  BY <2>1, <2>5 DEF SiblingsInv, ChaptersAreSiblings
  <2>6. CASE nav' = Append(nav, NavPoint(PageLevel, Root))
    <3>1. /\ Len(nav') = Len(nav) + 1
          /\ \A i \in 1..Len(nav) : nav'[i] = nav[i]
          /\ nav'[Len(nav) + 1].level = PageLevel /\ nav'[Len(nav) + 1].parent = Root
      <4>1. NavPoint(PageLevel, Root) \in NavPoints  BY DEF NavPoint, NavPoints, Root
      <4>2. QED  BY <2>2, <2>6, <4>1, AppendProperties DEF NavPoint
    <3>2. ASSUME NEW i \in 1..Len(nav), nav[i].level = PageLevel
          PROVE  nav[i].parent = Root
      <4>1. \A j \in (i + 1)..Len(nav) : nav[j].level >= nav[i].level
        BY <2>2, <2>3, <3>2
      <4>2. \A m \in 1..Len(history) : history[m].level >= nav[i].level
        BY <2>4, <3>2
      <4>3. OpenSiblings /\ 0 \in 0..Len(history) /\ 0 + 1 = 1  BY <2>1, <2>2 DEF SiblingsInv
      <4>4. QED  BY <4>1, <4>2, <4>3 DEF OpenSiblings
    <3>3. ChaptersAreSiblings'
      <4> SUFFICES ASSUME NEW i \in 1..(Len(nav) + 1), NEW j \in 1..(Len(nav) + 1), i < j,
                          nav'[i].level = nav'[j].level,
                          \A m \in (i + 1)..j : nav'[m].level >= nav'[i].level
                   PROVE  nav'[i].parent = nav'[j].parent
        BY <3>1 DEF ChaptersAreSiblings
      <4>1. i \in 1..Len(nav) /\ nav'[i] = nav[i]  BY <2>2, <3>1
      <4>2. CASE j = Len(nav) + 1  BY <3>1, <3>2, <4>1, <4>2
      <4>3. CASE j # Len(nav) + 1
        <5>1. j \in 1..Len(nav) /\ nav'[j] = nav[j]  BY <2>2, <3>1, <4>3
        <5>2. \A m \in (i + 1)..j : nav[m].level >= nav[i].level
          BY <2>2, <3>1, <4>1, <5>1
        <5>3. QED  BY <4>1, <5>1, <5>2 DEF SiblingsInv, ChaptersAreSiblings
      <4>4. QED  BY <4>2, <4>3
    <3>4. QED  BY <2>1, <3>3 DEF SiblingsInv
  <2>7. QED  BY <1>2, <2>5, <2>6 DEF Finish
<1>3. CASE UNCHANGED tocVars
  BY <1>3 DEF tocVars, SiblingsInv, OpenSiblings, TopIsLast, ChaptersAreSiblings
<1>4. QED  BY <1>1, <1>2, <1>3 DEF TocNext

(* Entries of one level are siblings as long as no higher heading comes    *)
(* between them, for every list of entries and every type: the limit on    *)
(* the depth never tears the chapters of one part apart.                   *)
THEOREM ChaptersAreAlwaysSiblings == TocSpec => []ChaptersAreSiblings
<1>1. SiblingsInv => ChaptersAreSiblings  BY DEF SiblingsInv
<1>2. QED  BY <1>1, NcxInductive, InitSiblingsInv, StepSiblingsInv, PTL DEF TocSpec

=============================================================================
