------------------------------ MODULE XmlTree -------------------------------
(***************************************************************************)
(* The document tree of package etree (etree/etree.go): reading a document *)
(* into it and the operations that change it.  A token is an element, a    *)
(* text (CharData), or a note, which stands for comments, directives and   *)
(* processing instructions: the three are treated alike.  Text after a     *)
(* token that is not a text is kept with that token as its tail.           *)
(*                                                                         *)
(* A token points to its parent and the parent lists its children; every   *)
(* operation has to change both.  Tokens are numbered in the order of      *)
(* their creation (a copy in that of what is copied), 1 is the document.   *)
(* A text is a sequence of characters: "n" is a line end, other blanks are *)
(* left out.                                                               *)
(***************************************************************************)
EXTENDS Naturals, SequencesExt

CONSTANTS
    Shapes,             \* the elements: <<tag, value of the one attribute>>
    Texts,              \* the texts of the source
    TextAfterText,      \* a text may follow a text (character data and CDATA)
    MaxTokens,          \* bound on the tokens created
    MaxEvents,          \* bound on what the decoder reads
    MaxEdits            \* bound on the changes after that

ASSUME TreeAssumption ==
    /\ TextAfterText \in BOOLEAN
    /\ {MaxEvents, MaxEdits} \subseteq Nat
    /\ MaxTokens \in Nat \ {0}

VARIABLES
    tree,               \* the tokens
    phase,              \* "read", "edit", "indented" or "error"
    stack, prev,        \* of readFrom: open elements, the token whose tail is next
    read,               \* the texts read so far
    events, edits       \* how much was read and changed

treeVars == <<tree, phase, stack, prev, read, events, edits>>

None == 0
Doc  == 1

Token(kind, shape, data) ==
    [kind |-> kind, tag |-> shape[1], attr |-> shape[2], data |-> data, tail |-> <<>>,
     blank |-> FALSE, child |-> <<>>, parent |-> None]

NoShape == <<"", "">>

Note == Token("note", NoShape, <<>>)     \* newComment, newDirective, newProcInst

IsWhitespace(s) == ToSet(s) \subseteq {"n"}

Tokens == DOMAIN tree
IsElement(t) == tree[t].kind = "element"

-----------------------------------------------------------------------------
(* Operations, as functions on the tokens. *)

(* newElement, newCharData, newComment: a token, bound to p unless p is nil. *)
Created(tokens, token, p) ==
    LET t == Len(tokens) + 1
        all == Append(tokens, [token EXCEPT !.parent = p])
    IN  IF p = None THEN all ELSE [all EXCEPT ![p].child = Append(@, t)]

(* RemoveChild: nothing happens unless t is a child of e. *)
Removed(tokens, e, t) ==
    IF t \in ToSet(tokens[e].child)
      THEN [tokens EXCEPT ![e].child = RemoveFirst(@, t), ![t].parent = None]
      ELSE tokens

Unbound(tokens, t) ==
    IF tokens[t].parent = None THEN tokens ELSE Removed(tokens, tokens[t].parent, t)

(* AddChild *)
AppendedInPlace(tokens, e, t) ==
    [tokens EXCEPT ![e].child = Append(@, t), ![t].parent = e]

Appended(tokens, e, t) ==
    [Unbound(tokens, t) EXCEPT ![e].child = Append(@, t), ![t].parent = e]

(* InsertChild: before ex, or as the last one. *)
Inserted(tokens, e, ex, t) ==
    LET u == Unbound(tokens, t)
        i == SelectInSeq(u[e].child, LAMBDA c: c = ex)
    IN  IF i = 0 THEN [u EXCEPT ![e].child = Append(@, t), ![t].parent = e]
        ELSE [u EXCEPT ![e].child = InsertAt(@, i, t), ![t].parent = e]

(* SetRoot: e takes the place of the first element of the document.        *)
Rooted(tokens, e) ==
    LET u == Unbound(tokens, e)
        i == SelectInSeq(u[Doc].child, LAMBDA c: u[c].kind = "element")
    IN  IF i = 0 THEN [u EXCEPT ![Doc].child = Append(@, e), ![e].parent = Doc]
        ELSE [u EXCEPT ![u[Doc].child[i]].parent = None, ![Doc].child[i] = e, ![e].parent = Doc]

(* SetText: a text that comes first is replaced, and otherwise one is put  *)
(* there.                                                                  *)
TextSet(tokens, e, s) ==
    LET first == tokens[e].child
    IN  IF first # <<>> /\ tokens[Head(first)].kind = "text"
          THEN [tokens EXCEPT ![Head(first)].data = s]
          ELSE LET new == Created(tokens, Token("text", NoShape, s), e)
               IN  [new EXCEPT ![e].child = <<Last(@)>> \o Front(@)]

(* Element.SetTail; a text has none. *)
TailSet(tokens, t, s) ==
    IF tokens[t].kind = "text" THEN tokens ELSE [tokens EXCEPT ![t].tail = s]

(* Text: all texts before the first other child. *)
TextOf(tokens, e) ==
    LET kids == tokens[e].child
        other == SelectInSeq(kids, LAMBDA c: tokens[c].kind # "text")
        n == IF other = 0 THEN Len(kids) ELSE other - 1
    IN  FoldLeft(LAMBDA s, c: s \o tokens[c].data, <<>>, SubSeq(kids, 1, n))

(* t is e or has e under it: the callers never put such a t under e.       *)
IsAbove(t, e) ==
    LET up[k \in 0..MaxTokens] ==
          IF k = 0 THEN e ELSE IF up[k - 1] = None THEN None ELSE tree[up[k - 1]].parent
    IN  \E k \in 0..MaxTokens : up[k] = t

(* The elements of s at some places, in their order. *)
Taken(s, places) == FlattenSeq([i \in DOMAIN s |-> IF i \in places THEN <<s[i]>> ELSE <<>>])

(* Element.dup: copies of e and of all that is under it. *)
Under(e) == Taken([t \in Tokens |-> t], {t \in Tokens : IsAbove(e, t)})

CopyOf(e, t) == Len(tree) + CHOOSE k \in DOMAIN Under(e) : Under(e)[k] = t

Duplicated(e) ==
    [k \in DOMAIN Under(e) |->
       [tree[Under(e)[k]] EXCEPT
          !.child = [i \in DOMAIN @ |-> CopyOf(e, @[i])],
          !.parent = IF Under(e)[k] = e THEN None ELSE CopyOf(e, @)]]

(* Of blank tails, what is behind the line end is taken. *)
TrimIndent(s) == IF IsWhitespace(s) THEN <<>> ELSE s

Blank(t) == tree[t].kind = "text" /\ tree[t].blank

(* removeBlanks takes out the texts that were blank when they were read.   *)
Trimmed(t) ==
    [tree[t] EXCEPT !.child = Taken(@, {i \in DOMAIN @ : ~Blank(@[i])}),
                    !.tail = IF t = Doc THEN @ ELSE TrimIndent(@)]

-----------------------------------------------------------------------------
TreeInit ==
    /\ tree = <<Token("element", NoShape, <<>>)>>
    /\ phase = "read"
    /\ stack = <<Doc>>
    /\ prev = None
    /\ read = <<>>
    /\ events = 0 /\ edits = 0

(* readFrom, an event of the decoder at a time. *)
Reads ==
    /\ phase = "read"
    /\ events < MaxEvents
    /\ events' = events + 1
    /\ UNCHANGED edits

Room == Len(tree) < MaxTokens

StartElement(shape) ==
    /\ Reads /\ stack # <<>> /\ Room
    /\ tree' = Created(tree, Token("element", shape, <<>>), Last(stack))
    /\ stack' = Append(stack, Len(tree) + 1)
    /\ prev' = None
    /\ UNCHANGED <<phase, read>>

EndElementToParent ==
    /\ Reads /\ stack # <<>>
    /\ prev' = IF Len(stack) > 1 THEN Last(Front(stack)) ELSE None
    /\ stack' = Front(stack)
    /\ UNCHANGED <<tree, phase, read>>

EndElement ==
    /\ Reads /\ stack # <<>>
    /\ prev' = Last(stack)
    /\ stack' = Front(stack)
    /\ UNCHANGED <<tree, phase, read>>

LastWasText ==
    LET kids == tree[Last(stack)].child
    IN  IF prev # None THEN tree[prev].tail # <<>>
        ELSE kids # <<>> /\ tree[Last(kids)].kind = "text"

(* The text is a child right after the start of an element, and a tail     *)
(* after everything else.                                                  *)
ReadText(s) ==
    /\ Reads /\ stack # <<>> /\ Room
    /\ LastWasText => TextAfterText
    /\ tree' = IF prev = None
                 THEN Created(tree, [Token("text", NoShape, s) EXCEPT !.blank = IsWhitespace(s)],
                              Last(stack))
                 ELSE TailSet(tree, prev, s)
    /\ read' = read \o s
    /\ UNCHANGED <<phase, stack, prev>>

NoteRead ==
    /\ Reads /\ stack # <<>> /\ Room
    /\ tree' = Created(tree, Note, Last(stack))
    /\ prev' = Len(tree) + 1
    /\ UNCHANGED <<phase, stack, read>>

(* One end too many, and something behind it. *)
TooManyEnds ==
    /\ Reads /\ stack = <<>>
    /\ phase' = "error"
    /\ UNCHANGED <<tree, stack, prev, read>>

EndOfInput ==
    /\ phase = "read"
    /\ phase' = "edit"
    /\ stack' = <<>> /\ prev' = None
    /\ UNCHANGED <<tree, read, events, edits>>

-----------------------------------------------------------------------------
(* Changes by the program. *)
Edits ==
    /\ phase = "edit"
    /\ edits < MaxEdits
    /\ edits' = edits + 1
    /\ UNCHANGED <<phase, stack, prev, read, events>>

Elements == {t \in Tokens : IsElement(t)}

CreateElement(e, shape) ==
    /\ Edits /\ Room
    /\ tree' = Created(tree, Token("element", shape, <<>>), e)

NewElement(shape) ==
    /\ Edits /\ Room
    /\ tree' = Created(tree, Token("element", shape, <<>>), None)

CreateCharData(e, s) ==
    /\ Edits /\ Room
    /\ tree' = Created(tree, Token("text", NoShape, s), e)

AddChild(e, t) ==
    /\ Edits /\ t # Doc /\ ~IsAbove(t, e)
    /\ tree' = Appended(tree, e, t)

InsertChild(e, ex, t) ==
    /\ Edits /\ t # Doc /\ ~IsAbove(t, e)
    /\ tree' = Inserted(tree, e, ex, t)

RemoveChild(e, t) ==
    /\ Edits
    /\ tree' = Removed(tree, e, t)

SetRoot(e) ==
    /\ Edits /\ e # Doc
    /\ tree' = Rooted(tree, e)

SetText(e, s) ==
    /\ Edits /\ Room
    /\ tree' = TextSet(tree, e, s)

SetTail(t, s) ==
    /\ Edits
    /\ tree' = TailSet(tree, t, s)

Copy(e) ==
    /\ Edits
    /\ Len(tree) + Len(Under(e)) <= MaxTokens
    /\ tree' = tree \o Duplicated(e)

(* From then on the document is written with indentation. *)
Indent ==
    /\ phase = "edit"
    /\ tree' = [t \in Tokens |-> IF IsAbove(Doc, t) THEN Trimmed(t) ELSE tree[t]]
    /\ phase' = "indented"
    /\ UNCHANGED <<stack, prev, read, events, edits>>

TreeNext ==
    \/ \E shape \in Shapes : StartElement(shape) \/ NewElement(shape)
    \/ EndElement
    \/ \E s \in Texts : ReadText(s)
    \/ NoteRead
    \/ TooManyEnds
    \/ EndOfInput
    \/ \E e \in Elements, shape \in Shapes : CreateElement(e, shape)
    \/ \E e \in Elements, s \in Texts : CreateCharData(e, s) \/ SetText(e, s)
    \/ \E e \in Elements, t \in Tokens : AddChild(e, t) \/ RemoveChild(e, t)
    \/ \E e \in Elements, ex, t \in Tokens : InsertChild(e, ex, t)
    \/ \E e \in Elements : SetRoot(e)
    \/ \E t \in Tokens \ {Doc}, s \in Texts : SetTail(t, s)
    \/ \E e \in Elements \ {Doc} : Copy(e)
    \/ Indent

TreeSpec == TreeInit /\ [][TreeNext]_treeVars

-----------------------------------------------------------------------------
(* The tokens and their children agree: what is in a list of children says *)
(* so, nothing is in two lists or twice in one, and what has a parent is   *)
(* in its list, unless it is a blank text that Indent took out.            *)
ParentsAgree ==
    \A p, t \in Tokens :
      Cardinality({i \in DOMAIN tree[p].child : tree[p].child[i] = t})
        \in IF tree[t].parent # p THEN {0}
            ELSE IF phase = "indented" /\ tree[t].blank THEN {0, 1} ELSE {1}

(* Nothing is under itself. *)
NoCycles == \A t \in Tokens : tree[t].parent # None => ~IsAbove(t, tree[t].parent)

TreeOK ==
    /\ phase \in {"read", "edit", "indented", "error"}
    /\ ToSet(stack) \subseteq Tokens /\ prev \in Tokens \union {None}
    /\ ParentsAgree
    /\ NoCycles
=============================================================================
