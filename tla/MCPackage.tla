------------------------------ MODULE MCPackage ------------------------------
(* Configurations, chosen so that every branch of the generators is taken. *)
EXTENDS Package

Plain ==
    [format |-> "epub", toc |-> "none", defaultCover |-> FALSE, resize |-> "none",
     convert |-> FALSE, stamp |-> FALSE, openFromCover |-> FALSE, noPages |-> TRUE,
     overwrite |-> "no", defaultType |-> "jpeg", useBroken |-> TRUE, urls |-> <<>>]

Kobo == [Plain EXCEPT !.format = "kepub", !.toc = "before", !.noPages = FALSE, !.defaultCover = TRUE,
                      !.resize = "stretch",
                      !.urls = <<<<"font", "f">>, <<"font", "g">>>>]

Full == [Plain EXCEPT !.toc = "after", !.openFromCover = TRUE, !.noPages = FALSE, !.resize = "keepAR",
                      !.stamp = TRUE, !.convert = TRUE]

KindleBook == [Plain EXCEPT !.format = "kindle", !.toc = "after", !.openFromCover = TRUE]

(* The covers that the user gave are of a format that a Kindle cannot read. *)
Given == [KindleBook EXCEPT !.overwrite = "webp", !.defaultType = "webp"]

MCSettings ==
    {Plain, Kobo, Full, KindleBook, [Plain EXCEPT !.overwrite = "png"],
     [KindleBook EXCEPT !.overwrite = "remove"], Given, [Given EXCEPT !.resize = "keepAR"]}

(* Images that cannot be decoded are left out. *)
SkippingSettings == {[s EXCEPT !.useBroken = FALSE] : s \in {Plain, Kobo}}

MCVignettes == {<<"profiles", "v">>}
=============================================================================
