------------------------------- MODULE Package -------------------------------
(***************************************************************************)
(* From the images of the source to the package of the book: Process calls *)
(* processBinaries, the transfer of the text, processImages, and then one  *)
(* generator after the other for the TOC page, the cover, the stylesheet,  *)
(* the page map and the OPF (processor/process.go, generate.go,            *)
(* helpers.go); at last all of it is written (imagefile.go, datafile.go).  *)
(*                                                                         *)
(* Every generator finds in Book.Files, Images, Vignettes and Data what    *)
(* those before it left there, and refers to it by name.  Of the text only *)
(* the files, their pages and the images it shows matter here.             *)
(***************************************************************************)
EXTENDS Integers, SequencesExt

CONSTANTS
    Settings,           \* configurations and formats
    BinaryKinds,        \* what a <binary> of the source may be
    Ids,                \* ids of images
    Vignettes,          \* vignettes: <<directory, base name>>
    MaxBinaries, MaxFiles, MaxShown     \* bounds on binaries, files of the text, images in it

(* What image.Decode reads.  "webp" stands for BMP and TIFF as well, those *)
(* that a Kindle does not read.                                            *)
Formats == {"jpeg", "png", "gif", "webp"}

ASSUME PackageAssumption ==
    /\ \A s \in Settings : /\ s.format \in {"epub", "kepub", "kindle"}
                           /\ s.toc \in {"none", "before", "after"}
                           /\ s.resize \in {"none", "keepAR", "stretch"}
                           /\ s.overwrite \in {"no", "remove"} \union Formats
                           /\ s.defaultType \in Formats
                           /\ s.urls \in Seq(STRING \X STRING)
    /\ BinaryKinds \subseteq {"jpeg", "png", "gif", "webp", "svg", "broken", "garbage"}
    /\ {MaxBinaries, MaxFiles, MaxShown} \subseteq Nat

VARIABLES
    opt,                \* the configuration
    step,               \* what Process is about to do
    bins,               \* binaries seen
    images,             \* Book.Images
    cover, stamp,       \* Book.Cover, and whether the cover is stamped
    notFound,           \* the image shown for missing ones, or None
    files,              \* Book.Files
    tocEntries,         \* how many entries Book.TOC has
    shown, shows,       \* images the text refers to, and how many it asked for
    vignettes, data,    \* Book.Vignettes, Book.Data
    css,                \* what the stylesheet refers to
    pageMap, opf,       \* the page map and the OPF
    disk                \* what is in the work directory at the end

vars == <<opt, step, bins, images, cover, stamp, notFound, files, tocEntries, shown, shows,
          vignettes, data, css, pageMap, opf, disk>>

None == "none"

Kindle == opt.format = "kindle"

In(dir, name) == <<dir, name>>
ImagePath(b) == In("images", b.name)

BinName(i, ext) == <<"bin", i, ext>>

(* A file of the book; "index" files are the text, numbered. *)
File(kind, number, pages) ==
    [kind |-> kind, number |-> number, pages |-> pages,
     spine |-> kind \notin {"ncx", "page-map", "opf"}, manifest |-> kind # "opf", kobo |-> FALSE]

Href(f) == In("", <<f.kind, f.number>>)

(* An image, whether it could be decoded, and whether it is to become a    *)
(* JPEG when it is written; scaling, transparency and quality, which       *)
(* change no more than the picture, are left out.                          *)
Picture(id, name, type) ==
    [id |-> id, name |-> name, type |-> type, decoded |-> TRUE, jpeg |-> FALSE]

NoOPF == [manifest |-> <<>>, spine |-> <<>>, guide |-> {}]

Init ==
    /\ opt \in Settings
    /\ step = "binaries"
    /\ bins = 0 /\ images = <<>>
    /\ cover \in Ids \union {None} /\ stamp = opt.stamp
    /\ notFound = None
    /\ files = <<>> /\ tocEntries = 0 /\ shown = {} /\ shows = 0
    /\ vignettes = <<>> /\ data = <<>> /\ css = {}
    /\ pageMap = <<>> /\ opf = NoOPF /\ disk = <<>>

Goes(from, to) == step = from /\ step' = to /\ opt' = opt

-----------------------------------------------------------------------------
(* processBinaries, one binary at a time.  The name has the number of the  *)
(* binary, also when earlier ones were left out.                           *)
Decoded(kind, id) ==
    LET b == Picture(id, BinName(bins, kind), kind)
    IN  CASE kind = "garbage" -> <<>>
          [] kind = "svg" -> <<[b EXCEPT !.decoded = FALSE]>>
          [] kind = "broken" -> IF opt.useBroken THEN <<[b EXCEPT !.decoded = FALSE]>> ELSE <<>>
          [] OTHER -> <<[b EXCEPT !.jpeg = kind = "webp" /\ Kindle]>>

ProcessBinary(kind, id) ==
    /\ Goes("binaries", "binaries")
    /\ bins < MaxBinaries
    /\ bins' = bins + 1
    /\ images' = images \o Decoded(kind, id)
    /\ UNCHANGED <<cover, stamp, notFound, files, tocEntries, shown, shows, vignettes, data, css,
                   pageMap, opf, disk>>

StartText ==
    /\ Goes("binaries", "text")
    /\ UNCHANGED <<bins, images, cover, stamp, notFound, files, tocEntries, shown, shows, vignettes,
                   data, css, pageMap, opf, disk>>

-----------------------------------------------------------------------------
(* The text: its files, the images and vignettes it shows. *)
NextFile(kind, pages, titled) ==
    /\ Goes("text", "text")
    /\ Len(files) < MaxFiles /\ (kind = "annotation" => files = <<>> /\ pages = 0)
    /\ files' = Append(files, File(kind, Len(files) + 1, pages))
    /\ tocEntries' = tocEntries + (IF titled THEN 1 ELSE 0)
    /\ UNCHANGED <<bins, images, cover, stamp, notFound, shown, shows, vignettes, data, css,
                   pageMap, opf, disk>>

WithId(id) == SelectInSeq(images, LAMBDA b: b.id = id)

(* transferImage: the first image with the id, or the one that says that   *)
(* there is none.                                                          *)
NotFoundPicture == Picture("notfound", BinName(Len(images), "png"), "png")

TransferImageUnlisted(id) ==
    /\ Goes("text", "text")
    /\ files # <<>> /\ shows < MaxShown
    /\ shows' = shows + 1
    /\ LET i == WithId(id)
       IN  /\ notFound' = IF i = 0 /\ notFound = None THEN NotFoundPicture.name ELSE notFound
           /\ shown' = shown \union {In("images", IF i # 0 THEN images[i].name ELSE notFound')}
    /\ UNCHANGED <<bins, images, cover, stamp, files, tocEntries, vignettes, data, css, pageMap, opf,
                   disk>>

TransferImage(id) ==
    /\ Goes("text", "text")
    /\ files # <<>> /\ shows < MaxShown
    /\ shows' = shows + 1
    /\ LET i == WithId(id)
           missing == i = 0 /\ notFound = None
       IN  /\ images' = IF missing THEN Append(images, NotFoundPicture) ELSE images
           /\ notFound' = IF missing THEN NotFoundPicture.name ELSE notFound
           /\ shown' = shown \union {In("images", IF i # 0 THEN images[i].name ELSE notFound')}
    /\ UNCHANGED <<bins, cover, stamp, files, tocEntries, vignettes, data, css, pageMap, opf, disk>>

(* getVignetteFile: a vignette that is there is kept once. *)
UseVignette(v) ==
    /\ Goes("text", "text")
    /\ files # <<>>
    /\ vignettes' = IF Contains(vignettes, v) THEN vignettes ELSE Append(vignettes, v)
    /\ shown' = shown \union {In("vignettes", v[2])}
    /\ UNCHANGED <<bins, images, cover, stamp, notFound, files, tocEntries, shows, data, css,
                   pageMap, opf, disk>>

EndText ==
    /\ Goes("text", "images")
    /\ \E f \in ToSet(files) : f.kind = "index"
    /\ UNCHANGED <<bins, images, cover, stamp, notFound, files, tocEntries, shown, shows, vignettes,
                   data, css, pageMap, opf, disk>>

-----------------------------------------------------------------------------
(* processImages: of several images with the id of the cover the first is  *)
(* left.  The description that overrides the one of the book may put a     *)
(* picture of any format in its place, as it is, or take the cover out.    *)
ReplacementUnflagged(b) ==
    IF opt.overwrite \in Formats THEN Picture(b.id, BinName(b.name[2], opt.overwrite), opt.overwrite)
    ELSE [b EXCEPT !.jpeg = FALSE]

Replacement(b) ==
    IF opt.overwrite \in Formats THEN Picture(b.id, BinName(b.name[2], opt.overwrite), opt.overwrite)
    ELSE b

Only(s, at) == FlattenSeq([i \in DOMAIN s |-> IF i \in at THEN <<s[i]>> ELSE <<>>])

FirstCover(c) ==
    LET first == WithId(c)
        kept == [i \in DOMAIN images |-> IF i = first THEN Replacement(images[i]) ELSE images[i]]
    IN  Only(kept, {i \in DOMAIN images :
                      images[i].id # c \/ (i = first /\ opt.overwrite # "remove")})

(* getDefaultCover: the one built in, a JPEG, or the file that is          *)
(* configured, as it is, its name taken to say what is in it.  (A file     *)
(* that cannot be decoded ends the run.)                                   *)
DefaultCover == Picture("dummycover", BinName(Len(images), opt.defaultType), opt.defaultType)

ProcessImages ==
    /\ Goes("images", "toc")
    /\ CASE cover # None ->
              /\ images' = FirstCover(cover)
              /\ cover' = IF opt.overwrite = "remove" /\ WithId(cover) # 0 THEN None ELSE cover
              /\ UNCHANGED stamp
         [] cover = None /\ (opt.defaultCover \/ Kindle) ->
              /\ images' = Append(images, DefaultCover)
              /\ cover' = "dummycover"
              /\ stamp' = TRUE
         [] OTHER -> UNCHANGED <<images, cover, stamp>>
    /\ UNCHANGED <<bins, notFound, files, tocEntries, shown, shows, vignettes, data, css, pageMap,
                   opf, disk>>

(* generateTOCPage *)
GenerateTOCPage ==
    /\ Goes("toc", "cover")
    /\ LET page == File("toc", 0, 0)
       IN  files' = CASE opt.toc = "none" \/ tocEntries = 0 -> files
                      [] opt.toc = "before" /\ tocEntries > 0 -> <<page>> \o files
                      [] opt.toc = "after" /\ tocEntries > 0 -> Append(files, page)
    /\ UNCHANGED <<bins, images, cover, stamp, notFound, tocEntries, shown, shows, vignettes, data,
                   css, pageMap, opf, disk>>

-----------------------------------------------------------------------------
(* generateCover.  "tall": the picture has the height asked for; "titled": *)
(* there is something to stamp, and stamping works.                        *)
Resized(b, tall) ==
    LET alone == opt.resize = "none" /\ ~opt.convert /\ (~Kindle \/ tall)
        converts == Kindle \/ (opt.convert /\ opt.resize # "stretch")
    IN  [b EXCEPT !.jpeg = @ \/ (~alone /\ converts)]

Stamped(b, titled) == [b EXCEPT !.jpeg = @ \/ (stamp /\ titled /\ Kindle)]

CoverLeft(tall, titled) ==
    /\ Goes("cover", "ncx")
    /\ LET i == WithId(cover)
           fine == cover # None /\ i # 0 /\ images[i].decoded
       IN  IF fine
             THEN /\ images' = [images EXCEPT ![i] = Stamped(Resized(@, tall), titled)]
                  /\ files' = IF Kindle THEN files ELSE <<File("cover", 0, 0)>> \o files
                  /\ shown' = IF Kindle THEN shown ELSE shown \union {ImagePath(images[i])}
             ELSE UNCHANGED <<images, files, shown>>
    /\ UNCHANGED <<bins, cover, stamp, notFound, tocEntries, shows, vignettes, data, css, pageMap,
                   opf, disk>>

GenerateCover(tall, titled) ==
    /\ Goes("cover", "ncx")
    /\ LET i == WithId(cover)
           fine == cover # None /\ i # 0 /\ images[i].decoded
       IN  IF fine
             THEN /\ images' = [images EXCEPT ![i] = Stamped(Resized(@, tall), titled)]
                  /\ files' = IF Kindle THEN files ELSE <<File("cover", 0, 0)>> \o files
                  /\ shown' = IF Kindle THEN shown ELSE shown \union {ImagePath(images[i])}
                  /\ UNCHANGED cover
             ELSE /\ cover' = None
                  /\ UNCHANGED <<images, files, shown>>
    /\ UNCHANGED <<bins, stamp, notFound, tocEntries, shows, vignettes, data, css, pageMap, opf, disk>>

(* generateNCX; what is in it is in the module TocNcx. *)
GenerateNCX ==
    /\ Goes("ncx", "stylesheet")
    /\ files' = Append(files, File("ncx", 0, 0))
    /\ UNCHANGED <<bins, images, cover, stamp, notFound, tocEntries, shown, shows, vignettes, data,
                   css, pageMap, opf, disk>>

(* prepareStylesheet: fonts and other resources, <<kind, name>>, go to     *)
(* different directories, and the stylesheet refers to the one for fonts.  *)
Resource(url) ==
    IF url[1] = "font" THEN In("fonts", url[2]) ELSE In("images", <<"css", url[2]>>)

PrepareStylesheet ==
    /\ Goes("stylesheet", "pagemap")
    /\ data' = <<In("", <<"style", 0>>)>> \o [i \in DOMAIN opt.urls |-> Resource(opt.urls[i])]
    /\ css' = {In("fonts", Resource(u)[2]) : u \in ToSet(opt.urls)}
    /\ UNCHANGED <<bins, images, cover, stamp, notFound, files, tocEntries, shown, shows, vignettes,
                   pageMap, opf, disk>>

-----------------------------------------------------------------------------
(* generatePagemap: a page for every file of the spine and for every mark  *)
(* in it.                                                                  *)
OnSpine(fs) == Only(fs, {i \in DOMAIN fs : fs[i].spine})

PagesOf(f) == [k \in 1..(f.pages + 1) |-> <<Href(f), k - 1>>]

GeneratePagemap ==
    /\ Goes("pagemap", "opf")
    /\ IF opt.noPages THEN UNCHANGED <<files, pageMap>>
       ELSE /\ files' = Append(files, File("page-map", 0, 0))
            /\ LET on == OnSpine(files)
               IN  pageMap' = FlattenSeq([i \in DOMAIN on |-> PagesOf(on[i])])
    /\ UNCHANGED <<bins, images, cover, stamp, notFound, tocEntries, shown, shows, vignettes, data,
                   css, opf, disk>>

(* generateOPF; the metadata of the book are left out. *)
ManifestItem(id, path) == [id |-> id, path |-> path]

ManifestFilesAll(fs) ==
    [i \in DOMAIN fs |-> ManifestItem(<<fs[i].kind, fs[i].number>>, Href(fs[i]))]

ManifestFiles(fs) ==
    LET listed == Only(fs, {i \in DOMAIN fs : fs[i].manifest})
    IN  [i \in DOMAIN listed |-> ManifestItem(<<listed[i].kind, listed[i].number>>, Href(listed[i]))]

Manifest(fs) ==
    ManifestFiles(fs)
      \o [i \in DOMAIN images |->
            ManifestItem(IF images[i].id = cover THEN <<"book-cover-image", 0>> ELSE <<"image", i>>,
                         ImagePath(images[i]))]
      \o [i \in DOMAIN vignettes |->
            ManifestItem(<<"vignette", i>>, In("vignettes", vignettes[i][2]))]
      \o [i \in DOMAIN data |-> ManifestItem(<<"data", i>>, data[i])]

(* Where reading begins: the cover, or on a Kindle the annotation, if that *)
(* is asked for, and otherwise the text.                                   *)
Begins ==
    LET FirstOf(kind) == SelectInSeq(files, LAMBDA f: f.kind = kind)
        annotation == FirstOf("annotation")
    IN  CASE cover # None /\ opt.openFromCover /\ ~Kindle -> In("", <<"cover", 0>>)
          [] opt.openFromCover /\ Kindle /\ annotation # 0 -> Href(files[annotation])
          [] OTHER -> Href(files[FirstOf("index")])

Guide ==
    {<<"text", Begins>>}
      \union (IF cover # None /\ ~Kindle THEN {<<"cover-page", In("", <<"cover", 0>>)>>} ELSE {})
      \union (IF opt.toc # "none" THEN {<<"toc", In("", <<"toc", 0>>)>>} ELSE {})

GenerateOPF ==
    /\ Goes("opf", "meta")
    /\ files' = Append(files, File("opf", 0, 0))
    /\ opf' = [manifest |-> Manifest(files'),
               spine |-> LET on == OnSpine(files) IN [i \in DOMAIN on |-> <<on[i].kind, on[i].number>>],
               guide |-> Guide]
    /\ UNCHANGED <<bins, images, cover, stamp, notFound, tocEntries, shown, shows, vignettes, data,
                   css, pageMap, disk>>

(* generateMeta adds the container files, which nothing refers to;         *)
(* KepubifyXHTML puts the content of every page into columns.              *)
KepubifyXHTML ==
    /\ Goes("meta", "flush")
    /\ files' = IF opt.format # "kepub" THEN files
                ELSE [i \in DOMAIN files |-> [files[i] EXCEPT !.kobo = files[i].spine]]
    /\ UNCHANGED <<bins, images, cover, stamp, notFound, tocEntries, shown, shows, vignettes, data,
                   css, pageMap, opf, disk>>

-----------------------------------------------------------------------------
(* binImage.flush *)
Flushed(b) ==
    IF b.type # "svg" /\ b.jpeg THEN [b EXCEPT !.type = "jpeg"] ELSE b

(* All is written at last.  Of two parts with one name either may be the   *)
(* last one to be written.                                                 *)
FlushAll(late) ==
    /\ Goes("flush", "done")
    /\ images' = [i \in DOMAIN images |-> Flushed(images[i])]
    /\ LET parts == {[path |-> Href(files[i]), is |-> <<"file", i>>] : i \in DOMAIN files}
                      \union {[path |-> ImagePath(images[i]), is |-> <<"image", i>>]
                              : i \in DOMAIN images}
                      \union {[path |-> In("vignettes", v[2]), is |-> v] : v \in ToSet(vignettes)}
                      \union {[path |-> data[i], is |-> <<"data", i>>] : i \in DOMAIN data}
           Last2(same) == CHOOSE p \in same :
                            \A q \in same : IF late THEN q.is[2] <= p.is[2] ELSE p.is[2] <= q.is[2]
           paths == {p.path : p \in parts}
       IN  disk' = [path \in paths |->
                      LET same == {p \in parts : p.path = path}
                      IN  IF Cardinality(same) = 1 THEN (CHOOSE p \in same : TRUE).is
                          ELSE Last2(same).is]
    /\ UNCHANGED <<bins, cover, stamp, notFound, files, tocEntries, shown, shows, vignettes, data,
                   css, pageMap, opf>>

-----------------------------------------------------------------------------
Next ==
    \/ \E kind \in BinaryKinds, id \in Ids : ProcessBinary(kind, id)
    \/ StartText
    \/ \E kind \in {"index", "annotation"}, pages \in 0..1, titled \in BOOLEAN :
         NextFile(kind, pages, titled)
    \/ \E id \in Ids : TransferImage(id)
    \/ \E v \in Vignettes : UseVignette(v)
    \/ EndText \/ ProcessImages \/ GenerateTOCPage
    \/ \E tall, titled \in BOOLEAN : GenerateCover(tall, titled)
    \/ GenerateNCX \/ PrepareStylesheet \/ GeneratePagemap \/ GenerateOPF \/ KepubifyXHTML
    \/ \E late \in BOOLEAN : FlushAll(late)

Spec == Init /\ [][Next]_vars

-----------------------------------------------------------------------------
Done == step = "done"

Paths == {opf.manifest[i].path : i \in DOMAIN opf.manifest}

(* The manifest lists what is in the book, every part once, and nothing    *)
(* else: parts come and go (covers, missing images, pages put in front) up *)
(* to the moment it is made.                                               *)
ManifestIsTheBook ==
    Done => /\ Paths = DOMAIN disk \ {In("", <<"opf", 0>>)}
            /\ Cardinality(Paths) = Len(opf.manifest)
            /\ IsInjective([i \in DOMAIN opf.manifest |-> opf.manifest[i].id])

(* Whatever refers to a part of the book finds it.  A guide to a TOC page  *)
(* that had no entries, and images of the text when the cover of the book  *)
(* was changed after it, are left out.                                     *)
RefsResolve ==
    Done => /\ opt.overwrite = "no" => shown \subseteq Paths
            /\ css \subseteq Paths
            /\ \A g \in opf.guide : (g[1] = "toc" /\ tocEntries = 0) \/ g[2] \in Paths
            /\ \A id \in ToSet(opf.spine) : \E m \in ToSet(opf.manifest) : m.id = id
            /\ \A p \in ToSet(pageMap) :
                 \E f \in ToSet(files) : f.spine /\ Href(f) = p[1] /\ p[2] <= f.pages

(* A book that says it has a cover has one image marked as such, and its   *)
(* page is in front of all others; what is done to images between the      *)
(* reading of the source and the OPF keeps both together.                  *)
CoverIsMarked ==
    Done => LET marked == {m \in ToSet(opf.manifest) : m.id = <<"book-cover-image", 0>>}
            IN  /\ Cardinality(marked) = IF cover = None THEN 0 ELSE 1
                /\ cover # None /\ ~Kindle => Head(opf.spine) = <<"cover", 0>>

(* Every image of the book is in its file: none is written over another.   *)
EveryImageIsThere ==
    Done => \A i \in DOMAIN images : disk[ImagePath(images[i])] = <<"image", i>>

(* The cover is a picture that the user gave, in place of that of the book *)
(* or for want of one, and its size and format are to be left alone.       *)
GivenAsIs(b) ==
    /\ b.id = cover /\ opt.resize = "none" /\ ~opt.convert
    /\ opt.overwrite = "webp" \/ (b.id = "dummycover" /\ opt.defaultType = "webp")

(* A Kindle does not read every format: an image the reading of the source *)
(* found to be in another one is converted when it is written, also when   *)
(* it was the cover, or was kept of several covers, in between.  A cover   *)
(* that the user gave is converted as well, unless it is given as is.      *)
KindleReadsImages ==
    Done /\ Kindle =>
      \A b \in ToSet(images) : b.decoded /\ b.type = "webp" => GivenAsIs(b)
=============================================================================
