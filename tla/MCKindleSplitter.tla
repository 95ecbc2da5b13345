-------------------------- MODULE MCKindleSplitter --------------------------
(* Joint files with up to three images; the EXTH records in several        *)
(* combinations.                                                           *)
EXTENDS KindleSplitter

LayoutOf(kind, pre7, images, sources, page, pre8, pad) ==
    [kind |-> kind, pre7 |-> pre7, images |-> images, sources |-> sources, page |-> page,
     pre8 |-> pre8, pad |-> pad]

MCLayouts == {LayoutOf("joint", 1, 1, 0, "none", 0, 0), LayoutOf("joint", 1, 2, 2, "seven", 0, 2),
              LayoutOf("joint", 2, 3, 1, "eight", 1, 0), LayoutOf("joint", 1, 3, 0, "seven", 2, 2),
              LayoutOf("single", 1, 1, 0, "none", 0, 2), LayoutOf("old", 1, 1, 0, "none", 0, 2)}

MCMetas == {[starts |-> IF u THEN 3 ELSE n, uri |-> u, count |-> u, cdekey |-> k, asin |-> a] :
              n \in {0, 1}, u \in BOOLEAN, k \in BOOLEAN, a \in BOOLEAN}

MCCovers == {<<Nothing, Nothing>>, <<0, Nothing>>, <<0, 0>>, <<0, 1>>, <<2, 1>>}

MCModes == [combo : BOOLEAN, nonPersonal : BOOLEAN, forceASIN : BOOLEAN]
             \ [combo : {TRUE}, nonPersonal : BOOLEAN, forceASIN : {TRUE}]
=============================================================================
