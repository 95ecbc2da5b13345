------------------------------- MODULE XmlDoc -------------------------------
(***************************************************************************)
(* What package etree reads off a tree: the document that is written       *)
(* (etree/etree.go) and what paths lead to (etree/path.go).  A path is     *)
(* what CompilePath makes of its string, a sequence of segments; the       *)
(* results of a search and of GetRelativePath are compared with what a     *)
(* path denotes.                                                           *)
(***************************************************************************)
EXTENDS XmlTree

CONSTANTS
    Paths               \* the paths to look for

-----------------------------------------------------------------------------
(* writeTo: a token is aligned, that is put on a line of its own, when no  *)
(* text is next to it and it is in no paragraph.                           *)
Mark(what, t) == <<what, t>>

Line(aligned) == IF aligned /\ phase = "indented" THEN <<Mark("indent", None)>> ELSE <<>>

Written(s) == IF s = <<>> THEN <<>> ELSE <<Mark("text", s)>>

WriteNote(t, aligned) ==
    Line(aligned) \o <<Mark("note", t)>> \o Written(tree[t].tail)

BesideTail(kids, i) == i > 0 /\ ~IsWhitespace(tree[kids[i]].tail)

Beside(kids, i) ==
    i > 0 /\ (~IsWhitespace(tree[kids[i]].tail) \/ tree[kids[i]].kind = "text")

RECURSIVE WriteTo(_, _)
WriteTo(t, aligned) ==
    LET kids == tree[t].child
        free == aligned /\ tree[t].tag # "p"
        inside == FoldLeftDomain(LAMBDA out, i: out \o WriteTo(kids[i], free /\ ~Beside(kids, i - 1)),
                                 <<>>, kids)
        others == \E i \in DOMAIN kids : tree[kids[i]].kind # "text"
    IN  CASE tree[t].kind = "text" -> Written(tree[t].data)
          [] tree[t].kind = "note" -> WriteNote(t, aligned)
          [] OTHER -> Line(aligned) \o <<Mark("open", t)>> \o inside
                        \o Line(free /\ others /\ ~Beside(kids, Len(kids)))
                        \o <<Mark("close", t)>> \o Written(tree[t].tail)

(* Document.WriteTo: nothing is put before the first token.                *)
Output ==
    LET kids == tree[Doc].child
        Aligned(i) == /\ tree[kids[i]].kind # "text"
                      /\ \E j \in 1..(i - 1) : tree[kids[j]].kind # "text"
    IN  FoldLeftDomain(LAMBDA out, i: out \o WriteTo(kids[i], Aligned(i)), <<>>, kids)

Letters(out) ==
    FoldLeft(LAMBDA s, m: IF m[1] = "text" THEN s \o SelectSeq(m[2], LAMBDA c: c # "n") ELSE s,
             <<>>, out)

-----------------------------------------------------------------------------
(* Paths.  A segment is a selector and filters; <<what, tag or value>>.     *)
Seg(sel, filters) == [sel |-> sel, filters |-> filters]

Kids(e) == SelectSeq(tree[e].child, IsElement)

RootOf(e) == CHOOSE r \in Elements : tree[r].parent = None /\ IsAbove(r, e)

(* selectDescendants goes level by level, e is the first. *)
RECURSIVE Levels(_)
Levels(queue) ==
    IF queue = <<>> THEN <<>>
    ELSE <<Head(queue)>> \o Levels(Tail(queue) \o Kids(Head(queue)))

SelectedShallow(e, sel) ==
    CASE sel[1] = "self"        -> <<e>>
      [] sel[1] = "root"        -> <<RootOf(e)>>
      [] sel[1] = "parent"      -> IF tree[e].parent = None THEN <<>> ELSE <<tree[e].parent>>
      [] sel[1] = "children"    -> Kids(e)
      [] sel[1] = "descendants" -> <<e>> \o Kids(e)
      [] sel[1] = "tag"         -> SelectSeq(Kids(e), LAMBDA c: tree[c].tag = sel[2])

Selected(e, sel) ==
    CASE sel[1] = "self"        -> <<e>>
      [] sel[1] = "root"        -> <<RootOf(e)>>
      [] sel[1] = "parent"      -> IF tree[e].parent = None THEN <<>> ELSE <<tree[e].parent>>
      [] sel[1] = "children"    -> Kids(e)
      [] sel[1] = "descendants" -> Levels(<<e>>)
      [] sel[1] = "tag"         -> SelectSeq(Kids(e), LAMBDA c: tree[c].tag = sel[2])

At(cands, k) ==
    LET i == IF k = 0 THEN 1 ELSE IF k > 0 THEN k ELSE Len(cands) + 1 + k
    IN  IF i \in DOMAIN cands THEN <<cands[i]>> ELSE <<>>

(* The filters of children keep a candidate once for every child.          *)
WithChild(cands, tag) ==
    FoldLeft(LAMBDA out, c: out \o [k \in 1..Cardinality({x \in Range(Kids(c)): tree[x].tag = tag}) |-> c],
             <<>>, cands)

Filtered(cands, f) ==
    CASE f[1] = "pos"   -> At(cands, f[2])
      [] f[1] = "attr"  -> SelectSeq(cands, LAMBDA c: tree[c].attr # "")
      [] f[1] = "value" -> SelectSeq(cands, LAMBDA c: tree[c].attr = f[2])
      [] f[1] = "text"  -> SelectSeq(cands, LAMBDA c: TextOf(tree, c) # <<>>)
      [] f[1] = "child" -> WithChild(cands, f[2])

(* pather.eval *)
Candidates(e, seg) == FoldLeft(Filtered, Selected(e, seg.sel), seg.filters)

(* pather.traverse: a queue of elements with what remains of the path.     *)
RECURSIVE Traverse(_, _)
Traverse(queue, results) ==
    IF queue = <<>> THEN results
    ELSE LET n == Head(queue)
             cands == Candidates(n.e, Head(n.segs))
             remain == Tail(n.segs)
         IN  IF remain = <<>>
               THEN Traverse(Tail(queue),
                             FoldLeft(LAMBDA r, c: IF Contains(r, c) THEN r ELSE Append(r, c),
                                      results, cands))
               ELSE Traverse(Tail(queue) \o [k \in DOMAIN cands |-> [e |-> cands[k], segs |-> remain]],
                             results)

FindElements(e, path) == Traverse(<<[e |-> e, segs |-> path]>>, <<>>)

(* GetRelativePath: up to the lowest element that has both under it, and   *)
(* down from there.  Nothing when there is none.                           *)
RECURSIVE Upward(_)
Upward(e) == IF e = None THEN <<>> ELSE <<e>> \o Upward(tree[e].parent)

TagSeg(t) == Seg(<<"tag", tree[t].tag>>, <<>>)

RelativePathOneMore(e, source) ==
    LET up == Upward(e)
        from == Upward(source)
        climb == SelectInSeq(from, LAMBDA a: Contains(up, a))
        to == SelectInSeq(up, LAMBDA a: climb # 0 /\ a = from[climb])
    IN  IF climb = 0 THEN <<>>
        ELSE [k \in 1..climb |-> Seg(<<"parent">>, <<>>)]
               \o [k \in 1..(to - 1) |-> TagSeg(up[to - k])]

GetRelativePath(e, source) ==
    LET up == Upward(e)
        from == Upward(source)
        climb == SelectInSeq(from, LAMBDA a: Contains(up, a))
        to == SelectInSeq(up, LAMBDA a: climb # 0 /\ a = from[climb])
        down == Reverse(SubSeq(up, 1, to - 1))
        start == IF climb = 1 THEN <<Seg(<<"self">>, <<>>)>>
                 ELSE [k \in 1..(climb - 1) |-> Seg(<<"parent">>, <<>>)]
    IN  IF climb = 0 THEN <<>> ELSE start \o [k \in DOMAIN down |-> TagSeg(down[k])]

-----------------------------------------------------------------------------
(* Whatever the order of texts, elements and notes, and where the text was *)
(* put (child or tail), the document has the texts of the source, in their *)
(* order (readFrom, setTail, writeTo).                                     *)
TextInOrder ==
    edits = 0 /\ phase \in {"read", "edit"} =>
      Letters(Output) = SelectSeq(read, LAMBDA c: c # "n")

(* Indentation is never put beside a text that is not blank: the text of a *)
(* paragraph would get blanks at its ends (writeTo: prevNodeHasTail,       *)
(* prevNodeWasText).  Between the tokens of the document itself XML has no *)
(* text, and Document.WriteTo does not look for one.                       *)
TextOutsideRoot ==
    \E c \in ToSet(tree[Doc].child) : ~IsWhitespace(tree[c].tail) \/ ~IsWhitespace(tree[c].data)

IndentTouchesNoText ==
    phase = "indented" /\ ~TextOutsideRoot =>
      \A i \in 1..(Len(Output) - 1) :
        LET Indents(m) == m[1] = "indent"
            Says(m) == m[1] = "text" /\ ~IsWhitespace(m[2])
        IN  ~(Indents(Output[i]) /\ Says(Output[i + 1])) /\ ~(Says(Output[i]) /\ Indents(Output[i + 1]))

(* The path GetRelativePath gives for an element leads back to it, among   *)
(* the elements with the same tags, from wherever it was asked for; there  *)
(* is none between two trees.                                              *)
RelativePathFinds ==
    \A e, source \in Elements :
      LET path == GetRelativePath(e, source)
      IN  IF RootOf(e) = RootOf(source)
            THEN path # <<>> /\ Contains(FindElements(source, path), e)
            ELSE path = <<>>

(* What a path denotes, as sets: a step leads from an element to the ones  *)
(* the selector is about, and the filters without a position are tests.    *)
Step(e, seg) ==
    LET reached ==
          CASE seg.sel[1] = "self"        -> {e}
            [] seg.sel[1] = "root"        -> {r \in Elements : tree[r].parent = None /\ IsAbove(r, e)}
            [] seg.sel[1] = "parent"      -> {tree[e].parent} \ {None}
            [] seg.sel[1] = "children"    -> {c \in Elements : tree[c].parent = e}
            [] seg.sel[1] = "descendants" -> {d \in Elements : IsAbove(e, d)}
            [] seg.sel[1] = "tag"         -> {c \in Elements : tree[c].parent = e /\ tree[c].tag = seg.sel[2]}
        Passes(c, f) ==
          CASE f[1] = "attr"  -> tree[c].attr # ""
            [] f[1] = "value" -> tree[c].attr = f[2]
            [] f[1] = "text"  -> TextOf(tree, c) # <<>>
            [] f[1] = "child" -> \E d \in Elements : tree[d].parent = c /\ tree[d].tag = f[2]
    IN  {c \in reached : \A i \in DOMAIN seg.filters : Passes(c, seg.filters[i])}

Denoted(e, path) ==
    FoldLeft(LAMBDA found, seg: UNION {Step(c, seg) : c \in found}, {e}, path)

(* A search finds what its path denotes, and nothing twice, although the   *)
(* queue has elements that were reached in several ways and the filters of *)
(* children keep a candidate once for every child.                         *)
ResultsAsDenoted ==
    \A e \in Elements, path \in Paths :
      LET found == FindElements(e, path)
      IN  ToSet(found) = Denoted(e, path) /\ IsInjective(found)

=============================================================================
