--------------------------- MODULE MCBookTransfer ---------------------------
EXTENDS BookTransfer

(* Chapters two levels deep in files of their own, an annotation page and  *)
(* a named body.                                                           *)
Chapters ==
    [chapterPerFile |-> TRUE, chapterLevel |-> 3, pagesPerFile |-> 99, noTitleChapters |-> FALSE,
     annotationPage |-> TRUE, notesBody |-> TRUE,
     kinds |-> {"title", "epigraph", "section", "p", "cite", "poem", "subtitle", "verse", "author"}]

(* Files are split by pages and by dividers in the middle of a chapter.    *)
Split ==
    [chapterPerFile |-> TRUE, chapterLevel |-> 2, pagesPerFile |-> 1, noTitleChapters |-> FALSE,
     annotationPage |-> FALSE, notesBody |-> FALSE,
     kinds |-> {"title", "epigraph", "section", "p", "divider"}]

(* Every chapter is in a file of its own, with all its sections; those      *)
(* without a title get an entry in the TOC.                                *)
Whole ==
    [chapterPerFile |-> TRUE, chapterLevel |-> 2, pagesPerFile |-> 99, noTitleChapters |-> TRUE,
     annotationPage |-> FALSE, notesBody |-> FALSE,
     kinds |-> {"title", "section", "p", "subtitle"}]

MCSettings == {Chapters, Split, Whole}
=============================================================================
