# A TLA+ model of fb2converter

fb2converter (Go) turns FB2 books into EPUB, KEPUB, MOBI and AZW3. This directory
holds TLA+ modules for the parts of it where the order of events decides whether the
result is right, TLC configurations that check them on small instances, and TLAPS
proofs of what matters most for every instance. `PROJECT.json` lists the components,
the runs, the source lines behind each definition, the mutants, the findings and the
hazards; this file explains them.

    tlc -workers 2 -config FlushPool.cfg FlushPool.tla      # a run
    tlapm FlushPoolProofs.tla                               # a proof

## 1. The system

`fb2c convert SOURCE DEST` walks a directory, an archive or a single file and hands one
book at a time to `processBook`:

    NewFB2 -> Process -> Save (flush to the work directory, Finalize*) -> report -> SendToKindle -> Clean

| component | source | state | operations | what makes it right |
|---|---|---|---|---|
| Convert run | commands/convert.go, processor/process.go, epub.go, mobiazw3.go, reporter/ | destination files and directories, a work directory per book, the report | one book after the other; every step may fail, panics are recovered | converted books stay; an old file is given up only for a book that is ready; every book is tried |
| Book transfer | processor/xhtml.go, context.go, process.go | `context` (current file, flags, heading level, TOC index), `Files`, `Pages`, `TOC`, `LinksLocations` | recursive handlers per FB2 tag | reading order; what is recorded about files is what is in them |
| NCX | processor/generate.go | the stack of `stackTOC`, the tree | one pass over `Book.TOC` | the tree nests by headings, and no deeper than the device takes |
| Flush pool | processor/book.go, datafile.go, imagefile.go | channels `job` and `res`, `haveError`, `wg` | supplier and `NumCPU` workers | nil means that all is written; the call returns; no goroutine stays |
| Notes | processor/process.go, xhtml.go | `Notes`, `NotesOrder`, `NoteBodyTitles` | a first pass over note bodies, references while text is transferred, a last pass that makes the notes | every reference finds its note and its way back |
| Images, cover, package files | processor/process.go, imagefile.go, generate.go, helpers.go | `Images` and their flags, `Cover`, `Files`, `Vignettes`, `Data` | read and name images, give covers, one generator after the other, write all | the manifest is what is in the book; what is referred to is there; the cover is marked |
| Kindle splitter | processor/internal/mobi | PDB sections, EXTH records, the keys of the book | cut the joint file, patch headers, make a thumbnail, read it again | sections are whole, numbers count in the file they are used for |
| Description | processor/process.go, stamp.go | `Book` | copy fields, draw stamps | - |
| Configuration | config/cfg.go | `Config` | build, look up overwrites and transformations, set up logs | most specific overwrite first |
| Configuration loader | go-micro/config | sources, merged values, watchers | load, watch, sync in goroutines | the newest value is seen |
| Program start and end | cmd/fb2c, state/ | log, report, profile | hooks before and after a command | the report is closed on every path |
| Thumbnails, resources, dump | commands/ | none | input and output | - |
| Input detection | commands/utils.go, archive/ | none | names and headers | - |
| XML tree | etree/ | tokens with parent, children, tail | read, add, remove, copy, find, indent, write | texts keep their order; a path finds what it denotes |
| Text, hyphenation, names | processor/textutils.go, sentences.go, hyphenator/ | none | functions on strings | - |
| JPEG quality; wrappers | jpegquality/, cmd/fb2epub, cmd/fb2mobi | none | arithmetic; start the main program | - |

How they interact. The convert run is a single thread; the only concurrency in a
conversion is the flush pool inside `Save`, and `Save` goes on to pack the directory on
the strength of its nil. Book transfer writes `Files`, `Pages`, `TOC` and
`LinksLocations`; links, NCX, TOC page, page map and OPF are made from these four and
never look into the files again, so a wrong record is a broken reference in the book.
The configuration is shared by all books of a run.

What is hard here:
- *stale state in a recursion*: a handler writes under the node its caller gave it, while
  the file that is current may have been replaced inside the recursion;
- *partial failure*: disk, kindlegen and mail server fail between two steps of a book,
  and the next book of the batch may have the same destination;
- *interleavings*: workers, supplier, the error counter and two channels in the pool, the
  watchers of the configuration loader;
- *sequences of legal elements* that leave the flags of the context wrong;
- *levels that jump*: sections without titles count for the level and make no TOC entry;
- *generators in a row*: each refers to what it finds, and later ones add, rename and remove;
- *numbers that count in one file* (of a section, a record, an image) used for another.

The hazards with a property, and the gravest without one, are in `PROJECT.json` with their
lines; section 3 lists what else was met.

## 2. The modules

### FlushAll and FlushPool
`FlushAll` is the contract of a flush: all files are written and nil is returned, or some
write failed and the error of a failed write is returned. `FlushPool` is `flushXHTML`
(flushData and flushImages are the same text): `n` files, the constant set `Workers`. The
supplier is a program counter `spc` with one action per step of the source that others can
see (look at `haveError`, send, close, wait, return); a worker has `wpc` (receive, look,
write, count the error, report it). The reads of `haveError` are steps of their own, as
they are in the code. A write succeeds or fails by choice. `Contract` is FlushAll with the
refinement mapping: what was written, what failed, and the result.

### TocNcx
`generateNCX`. `total` entries, whose levels are chosen as the loop gets to them, `nav` is
the tree (level and parent of every navPoint, by playOrder), `history` is the stack of the
code. FirstEntry, GoingIn, SameLevel and GoingOut are the cases of the switch in the loop,
Finish puts in the navPoint of the TOC page. Titles and links are left out. The "default"
case of the switch, a panic, has no counterpart: the four cases are exhaustive for
integers.

### BookTransfer
From the source tree to files. The source is read tag by tag: each action opens or closes
an element or takes a whole leaf, as far as the FB2 schema (`Allows`) permits it there, so
that TLC goes through all documents of a bounded size. `stack` is the Go recursion: a frame
has the document of the handler's `to` and of `inner`, and the two values that
`sectionWithTitle` and `sectionTextLength` keep per section. A document is a sequence of
items: text, section, an id, the target of a TOC entry, a page marker, a vignette and the
end of a chapter. `docs`, `files`, `cur`, `toc`, `links`, `tocIndex`, `firstBodyTitle` and
`specialParagraph` are the fields of `context` and `Book` of these names. `AfterChild` is
the statement everything turns on: after a child of a *section* the parent goes on in the
file that is current then.

`conf` is the configuration, one of `Settings`: MCBookTransfer has *Chapters* (files per
chapter, two levels deep, with an annotation page and a named body), *Split* (files
split by pages and by dividers in the middle of a chapter) and *Whole* (a file for each
chapter with all its sections, TOC entries also for chapters without a title).

Assumed: the notes mode "default"; vignettes are configured for all levels; every element
has an id of its own; inline elements do not matter (they are formatted into the text they
are in); a text puts `k` page ends, 0 to `MaxMarkers`, where the code counts characters.

### Notes (and MCNotes)
`phase` follows the three passes: *scan* (processNotes: ScanBody, ScanTitle, ScanNote), *main*
(the references of the main body, by mode: ToNote, ToElsewhere, the paragraphs at whose end
the block mode shows what waits in `currentNotes`, NextFile), *notes* (TransferBody,
SkipBody or FloatBody, the branches of processBody for bodies with notes) and then
ProcessLinks. A file is a list of items: a reference, a note, a note shown in its place, a
plain link. A note is its references to other notes, because these are what the order of the passes
can get wrong. `Outside` allows references that are in no paragraph (a table, an author).

Assumed: ids of notes and names of bodies are distinct; references have no id of their own.

### Package (and MCPackage)
The order of `Process` from the binaries of the source to the files on the disk; `step` says which
generator is next, and each takes what is in `files`, `images`, `vignettes` and `data`.
ProcessBinary names images by their place in the source, TransferImage makes those for missing ones,
ProcessImages looks for the cover, resizes, overwrites or removes it, and then come the TOC page, the
cover page, the stylesheet, the page map, the OPF and the columns of a KEPUB. Of an image the model has
name, id and flags, of a page its number of page marks and the images it shows. `disk` is
what the flush leaves: of two parts with one name either may be the last to be written, because the
workers of FlushPool write them. Configurations are records; MCPackage has eight, for the three
formats and every branch of the generators. A cover the user gave, in place of the one of the book or as
the default, has any format image.Decode knows, and two of the eight give a Kindle book one it cannot show.

### PdbFile and KindleSplitter (and MCKindleSplitter)
PdbFile is the database: a table of addresses in front of bytes, and every operation on
sections (read, write, insert, delete, cut out a range, empty) as the code does it, with its
arithmetic of addresses and padding; and the operations on EXTH records, with the two counters and
the address of the title. Bytes are runs of a content, so that a slice at a wrong address is seen as
a run that is no whole content, without a byte being modelled. KindleSplitter is
NewSplitter: `pc` goes through produceCombo or produceKF8, the thumbnail (which may fail),
the keys, the page map (which may fail to parse), SaveResult, SavePageMap and the reader that takes
the thumbnail from what was saved. Layouts and metadata of what kindlegen leaves are constants.

### XmlTree and XmlDoc (and MCXmlDoc)
XmlTree is the data structure of package etree: tokens with a list of children, a parent and a tail;
reading a document from the events of the decoder and each operation that
changes a tree, copies and Indent among them. It has no RECURSIVE operator: `IsAbove` walks up with a
recursive function, and what is copied, `Under`, are the tokens below the copied one. XmlDoc adds writing and
paths: the queue of `traverse` and the filters as they are, beside `Denoted`, the sets a path is about.
These walk down a tree and are RECURSIVE, so that XmlDoc is for TLC alone. A copy has its tokens in the order of the
tokens it is a copy of, where the code allocates them as it walks; nothing depends on the numbers.

### ConvertRun (and MCConvertRun)
`processBook` for a batch of books: `pc` names the step, `file` what is at each
destination (nothing, a part or the whole of a book, a file older than the run), `work`
what is ready in a work directory, `outcome` what the call came to. Every step has its
failing counterpart. The options (format, --overwrite, report, mail, delete_sent_book,
--nodirs) are chosen in Init: mail stands for --stk with a valid configuration. The four
formats are the four ways to write the destination: EPUB and KEPUB directly, or through a
packed file in the work directory (fix_zip), Kindle books split out of what kindlegen
made, or copied. `Faults` are failures nobody notices: an error that only Close reports,
a kindlegen that exits with 0 and leaves nothing. `Skip` stands for inputs that are no books
or cannot be opened. What a directory is in, `Above`, is a constant; MCConvertRun gives it
two destinations, one in a directory inside the directory of the other.

### ConfigLoader (and MCConfigLoader)
`BuildConfig` calls `config.Load`, and four kinds of goroutine go on from there: Load itself
(`mpc`), one goroutine per source that follows its file (`wpc`), one of the configuration
that follows the loader (`run`, `rpc`), and the user who saves files. The steps are those
between which the locks are free: reading a source and appending its set, the merge, looking
for watchers (`update`), the send, taking a snapshot and storing it. `sets` has the sets of
the sources and the empty ones that each goroutine appends when it starts; `idx` is where a
goroutine takes its own to be. What a source says is the number of times it was saved, and a
merge, in which later sets override earlier ones, comes to the sets that have data with their
places. `Broken` are saves that cannot be decoded.

Assumed: a save is one step that changes the content of the same file (a file that is
truncated first, or replaced by a rename, is left to a later version of the module); the
defaults never change; the value that `update` reads without the lock is the one of the
moment it is sent. Left out: Sync, Close and watchers of single paths, which the program never
uses.

Definitions whose names say how they are wrong (`FlushFailsSilently`, `OpenFileFirstIf`,
`EmptyAlways`, ...) are mutants: they stand before the definition they replace and are
used by no module. Each property has one that breaks it.

## 3. What is checked

| run | instance | states | shows |
|---|---|---|---|
| flush_pool | 0 to 4 files, 3 workers | 57 k | all schedules and all combinations of failing writes |
| toc_ncx | levels 0 to 3, up to 6 entries, 3 TOC types, 3 placements | 29 k | all lists of entries |
| book_transfer | 7 elements, depth 5, up to 2 page ends in a text, the configurations Chapters, Split and Whole | 1.15 M | where text, entries, ids and page ends come to be |
| notes | 2 notes, 2 bodies, 7 steps of the main body, 2 files, 5 modes, symmetric | 893 k | references and the ways back |
| package | 2 binaries, 2 text files, 2 references to images, 8 configurations | 4.4 M | the generators in their order |
| kindle_splitter | 6 layouts with 1 to 3 images, 12 sets of metadata, 5 covers, 6 modes | 28 k | the split, the save and the reading of the thumbnail |
| xml_doc | 5 events of the decoder, 5 tokens, one operation, 5 paths | 245 k | the tree, its text, paths |
| convert_run | 2 books, 2 destinations, all options | 124 k | every failure at every step |
| config_loader | 2 files, saved twice and once, one save broken | 106 k | every schedule of Load, the watchers and the user |

Three more runs show a disagreement, below.

*flush_pool.* ResultIsTrue (nil means that all is written, an error is of a file that was not, and no
goroutine writes after the return), ReportNeverBlocks (a worker that has an error to report
finds room in `res`), NoFileLost (unless there was an error, every file that was
sent is in the channel, with a worker or written), Returns (liveness), ImplementsContract (refinement).
Three workers and four files are enough for a worker to be late while another has failed
and a third is in a write; the code is symmetric in both.

*toc_ncx.* DepthIsLimited (no nesting for the
flat type, one entry inside another and no deeper for Kindle), NestingIsScoped (an entry is nested only under
an earlier heading above it, with none of its level or above in between),
ChaptersAreSiblings. Six entries with four levels contain every pattern of going in and out
over two steps, twice.

*book_transfer.* ReadingOrder (the files one after the other give the text in
the order of the source), TocRefsResolve (the target of an entry is in the file the entry
names and nowhere else, except for the entries of chapters without a title, below), LinksLocated (an id is in the file recorded for
it), PageMarkersMatch (the markers in a file are 0, 1, ... as many as `Pages` says),
VignetteAtChapterEnd (no text from after a chapter is before its end vignette; no text of the chapter is
behind it in the same file, nor in any other file in a configuration like Whole, where no file is opened
while a section is open. In the other two the vignette ends the file the chapter began in, and later
files of the chapter come after it, below). Seven elements hold a body title,
a chapter with a title, a section inside with its title and text, and a next chapter.
Split and Whole leave out cites and poems, and all three have a chapter_level above 1 (below).

*notes.* NoteLinksResolve (a link to a note leads to it once all is done, also one to a note that was not
known yet), BackRefsResolve (from a note that the main body refers to there is a way to such a
reference), NotesInPlace (inline and block: in every file the notes are those referred to, in their
order, and none waits after its paragraph). Two notes that refer to each other, in one body or in two,
referred to from two files, are all the ways in which a location can be entered, be left or be missing
when it is looked up.

*package.* ManifestIsTheBook (what the OPF lists is what is on the disk, once each), RefsResolve (text,
TOC, guide, page map and stylesheet refer to what is in the manifest), CoverIsMarked (a book with a cover
has one image marked, and its page in front), KindleReadsImages (no image that a Kindle cannot read is
written as it was, except for a cover the user gave with neither resizing nor conversion asked for, below). Two binaries are enough for one to be left out or to be the cover and the other to
keep its name; every generator looks at a part by its name or its place in front.

*kindle_splitter.* SavedAsPlanned (the sections of the result are those of the source, whole, in their
place), PointersFollow (the header of the cut file names the sections it named in the joint file),
ExthIsSound (counters and title address after any edits), NamesOneThumbnail (one URI,
of an image that is there, also when no thumbnail can be made), KeysAgree (the page map has the type
asked for; the reader finds in the saved file the key and the type the page map has, except that the joint file of a
personal document has no type at all and maybe no key, below). Three images are enough for the thumbnail to be
before, at and behind the cover, two source sections for one to be in front of the other.

*xml_doc.* TreeOK (parents and children agree, nothing is under itself), TextInOrder (what is written has the texts of the source in their
order), IndentTouchesNoText, RelativePathFinds, ResultsAsDenoted (a search finds what the path denotes,
nothing twice). Five tokens have an element beside and under another, with text and tail.

*convert_run.* DeliveredStays (a converted book stays, whole, unless mailed and deleted, or
replaced under --overwrite), OldFilesStay, ReplacedWhenReady (the old file goes only when
the new one is converted), AfterSaveSound (the mailed book is whole, directories of files are there,
the report has the work directory of a book that was tried), EveryBookIsTried
(liveness). Two books and two destinations have all the conflicts: same file, same
directory, a directory inside the other's. A third book meets what the first two left,
which one book meets already: the files that are there before the run.

*config_loader.* SourcesInOrder (later configurations override earlier ones, whatever order
the goroutines start in), NothingForgotten (a source is in the values exactly if it was read),
NeverBack (the values of a source are only replaced by later ones), ChangeTakesEffect
(liveness: what is saved under a watch comes to be in the values, unless an error makes the
goroutine start anew). Two files are enough for one place to be shifted by the goroutine of
the other and for the merge of one to fail because of the other; the first is saved
twice, broken and then mended.

*Fairness.* FlushPool: weak fairness of the supplier and of each worker, which is what the
Go scheduler gives to a goroutine that is not blocked. ConvertRun: weak fairness of Next,
one thread that goes on. ConfigLoader: weak fairness of Load, of run and of each watcher, the
goroutines; none for the user. The other modules have no liveness property; a document ends when
the source ends.

*Deadlock* is not checked, because everything modelled comes to an end after which nothing
happens: the call returns, the source ends, the program ends, and the user has saved as
often as the bound allows. That FlushPool and ConvertRun
do not stop before that is what Returns and EveryBookIsTried say.

### Where code and comments disagree

Each of these is a run whose one property TLC refutes.

| run | property | what the code does |
|---|---|---|
| xml_cdata | TextInOrder | text after a closing tag that comes in two pieces (characters, then CDATA) loses the first one |
| notes_block | NotesAreShown | a reference in a table or in an author waits for the end of a later paragraph: its note is in another file, or lost |
| package_names | EveryImageIsThere | images of the source are named by place, those the program adds by count: after a binary that was left out two images have one name |

Seen while modelling, and not among the runs. Of the first group the modules have the property or the
constant that shows it:

- chapter_level 1 with a page split (chapterLevel 1 in Split, ReadingOrder and TocRefsResolve): the body does not
  notice that a split opened a file; later sections are written to the first one and recorded for the last.
- A page split inside a cite or a poem ("cite" among the kinds of Split, LinksLocated and PageMarkersMatch): ids and page markers are
  recorded for the new file and are in the old one.
- `Faults` with "close" (ConvertRun, SavedIsWhole): the error of the last write is dropped with that of Close.
- `Faults` with "kindlegen" (ReplacedWhenReady): an empty-handed kindlegen is not noticed before the old file is removed.
- ConfigLoader, CurrentIsCurrent: a change that comes while the watcher of the configuration is being
  registered, or finds its channel full, is never told.
- KindleSplitter, ThumbnailShowsCover: the number of the cover in the result is used for the joint file
  (splitter.go:366 and 379): the new thumbnail is made of another section, or not at all.

Of the second group the models take the code as it is, or leave the detail out, because no document says
what should be:

- with include_chapters_without_title a chapter without a title gets a TOC entry that names the file current at its
  end and in it the id secref and a number (xhtml.go:922-926), which nothing writes: the entry leads to a file, not
  to a place in it. TocRefsResolve is about all other entries;
- the end vignette of a chapter is put where the chapter began (xhtml.go:916-920): with chapter_level above 2 in front of its
  own sections that are in later files, and with a split in front of the rest of the chapter. VignetteAtChapterEnd
  holds across files for SectionsInOneFile only;
- a cover that replaces the one of the book, and the default one, is taken as it is, whatever its format
  (process.go:983-992, helpers.go:71-99); unless it is resized or converted on the way, a Kindle book gets a WebP, BMP or TIFF.
  The comment in helpers.go says that this is meant;
- the joint file of a personal document gets no type, and if kindlegen left no key, not the one made up for it, while the
  page map is written with both (splitter.go:233-246);
- a reference loses its own id when it becomes a note reference (xhtml.go:493); in the older
  float modes a reference that is only inside another note is not in the book, and the note it leads to links
  back to it; a body of notes has a title exactly if there is any note at all (xhtml.go:73);
- two bodies with one name have one file name (context.go:54);
- a PNG cover is stored unchanged when its new encoding is not smaller, against the resizing of
  configuration.toml:359 (imagefile.go:149); the media type of an image that is converted is out of date in
  the OPF (imagefile.go:140); with `resize = "stretch"` always_convert does nothing for the cover (generate.go:152);
- the guide refers to a TOC page also when it has no entries (generate.go:627); a cover
  replaced by one of another type, or removed, leaves the references of the text to it behind (process.go:990);
- resources that are no fonts go to the directory of images while the stylesheet refers to the one of
  fonts (generate.go:354-365); a Kindle book whose cover is named but missing gets no default one (generate.go:123);
- a last image that is unknown (0xFFFF) is taken for a number (splitter.go:308), and an empty page map is
  saved when the book has pages (splitter.go:78);
- an unknown stamp placement is said to be replaced by the default but is kept (process.go:127-132), and the cover panics
  over it (stamp.go:103);
- SetText keeps the mark "was blank", and Indent takes the new text out (etree.go:349);
- a write that fails leaves a part of a book at the destination (epub.go:154), or with --overwrite no book at
  all where there was one (mobiazw3.go:32); an error leaves the work
  directory (convert.go:46-62), a panic in a worker is not recovered (book.go:195).

## 4. What is proved

The proofs hold for all values of the constants: any number of files and workers, levels
and entries, sections, tokens. A module of proofs is about one module, or two of one kind: *PackageProofs*
has TocNcx too, and *FlushPoolProofs* XmlTree.

*FlushPoolProofs*: PoolTypes, NilIsComplete, ErrorIsGenuine, WritersAreGone, together
ResultIsAlwaysTrue, NoFileIsLost, ReportIsNeverBlocked, and PoolImplementsContract. None of the properties is
inductive. The invariant adds `Phases` (what each step of the supplier may assume of the others),
`JobConsecutive` (the channel holds an interval of the files), `OnePlace` (a file is in the channel or with
one worker or dealt with) and `NoneLost` (a file that was sent and is nowhere was given up because
haveError is set). NilIsComplete follows because every worker ended with haveError at 0, and
so none gave up. NoFileIsLost follows from the same parts until the call returns. ReportIsNeverBlocked is
counting: the errors in `res` are of different files (`ErrorsDistinct`), none of them the one the worker still has to
report, so there are fewer of them than files, and there is room for as many as there are files. For the contract each step of the pool is a step of FlushAll or a
stutter; the return needs that `res` is not empty when haveError is set and all workers are
done, and that it holds failed files only.

*FlushPoolProofs*, XmlTree: TreeIsSound, which is TreeOK for documents of any size and any number of
operations. TreeOK is not inductive, for two reasons. That a token is listed once by its parent does not say that
its other fields are numbers of tokens (`Formed`), nor that the document has no parent. And that nothing is under
itself, said with the bounded walk of IsAbove, is no help when a subtree moves: the walk of every token below gets
longer. `TreeInv` has `Ranked` in its place: the tokens can be ranked so that each is behind its parent. Moving t
under an e that is not below it keeps this (`Reparented`): what is not below t goes first. A walk up that meets
rising ranks is shorter than the tree (`UpEnds`, by the pigeonhole principle), so IsAbove says
what it would without its bound (`AboveStep`, `AboveRanks`), and TreeOK follows. `Bound` is counted out with `Lists(s, S, C)`: s has the
elements of C, each once. There is a lemma for every operation (AppendedKeeps,
InsertedKeeps, RootedKeeps, RemovedKeeps, CreatedIsSound, TextSetIsSound, DuplicatedIsSound); for the
copy, the tokens under e and their copies are matched one to one, in their order. After Indent a list of children may
leave out blank texts that still name their parent (`Thinned`, `TrimmedIsThin`): nothing is changed after
that in a document of this program, and the invariant is for such documents.

*KindleSplitterProofs*: SplitterInvariant, SplitterType, ExthStaysSound, SplitterSavesAsPlanned,
SplitterPointersFollow, SplitterNamesOneThumbnail, SplitterKeysAgree, for layouts and headers of any size, any
number of images and records and all modes. It has three parts.

- Bytes: lengths of runs of bytes are sums over folds; a slice at two addresses of a concatenation of whole
  contents is what lies between them (`SliceMiddle`), and no less is shown than that nothing is cut.
- The database: `Filed(file, s)` says that a file is that of the sections s, at the right addresses with the right
  table in front. Each operation is shown to do to s what its name says (`WriteHolds`, `NullHolds`, `InsertHolds`,
  `DeleteHolds`, ...), whatever the sizes of the sections, that is, every address it computes is right. The
  operations on EXTH records keep `Sound`, that the two counters and the title follow (`AddSound`, `DelSound`,
  `WriteSound`).
- The splitter: `SplitInv` says for every step what the two headers still have from the source and what is
  patched already (`OldOK`, `NewOK`), and of which sections the result is made (`Made`: headers apart, a section is that of the
  source at `Place`, or the thumbnail at the number the header names). None of the properties is inductive: they
  are about the saved file, and what makes it right is done before. KeysAgree needs `PagesOK`, which ties the page
  map to the keys at the time it is made, and splits on `PersonalJoint`, the one mode in which they are not written, and SavedAsPlanned needs that the patched sections are the only ones.

They assume of what kindlegen leaves what is in the ASSUMEs of KindleSplitter: sections of both parts are counted by
naturals, there is a header and an image, and numbers of covers are naturals or absent. A layout is any of
these; the sections in it are those of `Source`.

*PackageProofs*, TocNcx: NcxTypes, StackIsAlwaysPath, DepthIsAlwaysLimited, NestingIsAlwaysScoped,
ChaptersAreAlwaysSiblings. The lemma `Push` says what putting an entry under what remains of a stack does to all
parts of the invariant, the four cases of the loop are its uses; `StackIsShallow` (the stack of the flat
and Kindle types has at most two elements) is what makes the depth inductive,
`StackIsOpen` (what is on the stack was not closed by a later entry) the nesting, and `OpenSiblings` (an entry with
nothing above its level after it has the parent a new entry of its level would get) the siblings.

*BookTransferProofs*: TransferInvariant, TextIsReadInOrder, LinksAreLocated, TocRefsAlwaysResolve,
PagesAreMarked, for sources of any size and nesting. `CInv` relates the recursion to the current file: where a
handler may write, the node it writes under is in the file that is current (`InStep`; a body whose sections have
begun is excepted, because whatever comes next in it opens a file). From it every step is a `Growth`: items are added at the end of
the current documents, and a document at the end of all; and each property is kept by a Growth that `Adds` what
the step adds. The hypothesis `Settled` says of configurations that split files that chapter_level is above 1, that
there are no cites and poems, and no dividers when the annotation has a page: otherwise the code goes on in the
file it has left, and TLC refutes the properties (section 3, "Seen while modelling"). All
settings of MCBookTransfer are Settled.

The last part is VignettesEndChapters, the order of texts and end vignettes. A vignette has the number of the last
element of its section. It is written under the node the section began in, so in one file (`VignettesInOrder`)
everything before it is of a lower or the same number and every text behind it of a higher one. Across files this
needs that the section did not go on in another file: `SectionsStay` says that where no file is opened while a
section is open (SectionsInOneFile) the node of each open section is in the last file.

*NotesProofs*: NotesInvariant, NoteLinksAlwaysResolve, NotesLeadBack, NotesStayInPlace, for any number of
notes, bodies, references and files. `LocalLinks` (no link is whole before processLinks, also not in a note that was kept as it was
read) and `Placed` (a known place of a note is a file that has it, and all notes of the bodies that were
transferred have one) give the first; `Referred` (for every reference of the main body there is an entry back_...,
of a file that has such a reference, though maybe a later one) gives the second. NotesStayInPlace is inductive as it stands and
assumes ~`Outside`: the run notes_block shows it fails with references outside of paragraphs.
What is written is put together by FlattenSeq, a fold. *FlattenFacts* proves what it returns by an induction that
takes a set in place of a predicate (the set of the naturals for which the claim holds, and a least one outside of
it, from the library's well-founded order): FlattenType, FlattenAppend, FlattenConcat, FlattenHas; and what a
sequence keeps when only some places of it are taken (PickedPlaces, PickedHas), which Package and XmlTree both do.

*PackageProofs*: KindlesReadTheImages, CoversAreMarked, PackageRefsResolve, ManifestsAreTheBook,
NoImageIsOverwritten, for any number of binaries, files and images. The files are followed through
the generators, which put parts in front, behind and take them out (`FilesPersist`: a file that is there stays, with its
place in manifest and spine, though not its place in the sequence). `CoverInvariant` says what each generator
may assume of the cover: until there may be one made for it, it is named in the source or not at all (`CoverKnown`), one image
has its id (`CoverAlone`), and its page is in front once it was made. `RefsInvariant` has a part for
every kind of reference (images shown, text, TOC page, fonts, page marks), which says from which step on its
target is there. `PartsInvariant` numbers files and images: an image of the source has the number of its place, one the program adds
the number of images there are, and the two cannot meet while no binary has been left out
(`ImagesNumbered`). From it no part is listed twice, and no path is written twice (`WrittenInvariant`). The hypotheses are

- `OwnIds`: no image of the source has an id that Process gives to pictures of its own. KindlesReadTheImages,
  CoversAreMarked, PackageRefsResolve and ManifestsAreTheBook have it; such a book can hold two images with the id of the cover;
- `FontsOnly`: what the stylesheet refers to are fonts, since other resources go to a directory the stylesheet does
  not name (section 3, "Seen while modelling");
- `OwnNames`: vignettes and resources, which are named by the user's configuration, have names of their own;
- `NothingLeftOut`: every binary becomes an image. The run package_names shows that EveryImageIsThere fails
  without it, and NoImageIsOverwritten that nothing else is needed.

The constants of the run package satisfy all four. KindlesReadTheImages needs OwnIds, too: the one image that may be left in
a format a Kindle does not read is the cover the user gave, and `CoverAlone` says that no other has its
id. `OnlyGivenUnread` follows this image from processImages, where it comes in, past the resizing of the cover.

*ConvertRunProofs*: RunTypes, DirsAreKept, ReportIsUseful, ConvertedIsSafe, MailIsAlwaysWhole
(the three about mail, directories and report together: AfterSaveIsSound), OldFilesAreSafe, ReplacedInTime. The invariant adds what the steps of Save hand on to each
other: `AtDestination` (what is at the destination of the book at hand, step by step: nothing
before the file is created, the whole book when it is mailed), `InWork` (what is ready in the
work directory), `InOrder` (later books are untouched, so the file of an earlier book is
another's) and `WorkIsKept`. The invariant holds with silent failures; ConvertedIsSafe
and MailIsAlwaysWhole assume that no Close fails unnoticed, ReplacedInTime that kindlegen
does not, and they have to: TLC refutes the properties with "close" and "kindlegen" in `Faults`.
DirsAreKept is the one that needs `Above` to be transitive: a directory is kept by what is
in a directory in it.

*ConfigLoaderProofs*: LoaderTypes, SourcesAreInOrder, NoSourceForgotten, ValuesNeverBack, for any
number of sources and saves. The invariant adds `Slots` (`sets` and `idx` are inverse to each other:
the place of a source has its set, every set with data is in the place of its source),
`InOrder` (places are given in the order of the sources), `OneWay` (what was saved travels
disk, changeset, sets, and is nowhere newer than where it came from) and `FromSets` (the
values come from the sets as they are or were). The lemma `Merges` says what a merge of sets
with these properties comes to; the other lemmas take the steps in groups.

Assumptions: those just named and those in the modules (finite bounds are naturals; `Above` is a strict order),
each checked by TLC in the passing runs.

Only model-checked: liveness (Returns, EveryBookIsTried, ChangeTakesEffect), which is out of the prover's reach;
and TextInOrder, IndentTouchesNoText, RelativePathFinds and ResultsAsDenoted of XmlDoc. These are about the RECURSIVE
operators that write a tree and look for paths, which the prover cannot see, and what they return
for every tree would be an induction over trees. Every other property of a passing run is the statement of
a theorem.

## 5. What is not modelled, and the plan

Not modelled for good: decoding and formatting (pixels, fonts, templates, hyphenation
tables, metadata), the command line library, the wrappers, resources, thumbnails: no state of
their own, input and output only. The fields of the description are copied and formatted.

Modules, in the order they were written: FlushPool and FlushAll, TocNcx, BookTransfer, ConvertRun,
ConfigLoader, each with its proofs; PdbFile and KindleSplitter, with theirs; XmlTree, with a theorem, and XmlDoc; Notes and
Package, each with its proofs. ConvertRun takes a flush as one step that is right or fails, which is what FlushAll promises and
ImplementsContract shows. Left are

1. Overwrites - the search order of GetOverwrite as a function against its documentation
   (the loop of cfg.go:476 ends at once).
2. AppLifecycle - the hooks around a command, log and report on every path.
3. Saves in parts, and BuildConfig as a reader of sections, in ConfigLoader.
4. The placing of hyphens.

Theorems to come: TextInOrder for the operations of XmlTree, with the text of a tree as a sequence over the
tokens instead of a walk; and the properties of each module of the list above.
