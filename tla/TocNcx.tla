------------------------------- MODULE TocNcx -------------------------------
(***************************************************************************)
(* Processor.generateNCX (processor/generate.go): the flat list Book.TOC,  *)
(* in reading order and with the heading level of every entry, becomes a   *)
(* tree of navPoints.  The code walks the list once and keeps the path to  *)
(* the last navPoint on a stack (stackTOC).                                *)
(*                                                                         *)
(* An entry is known here by its level only.  The first entry comes from   *)
(* the annotation or from the title of a body and has level 0; later ones  *)
(* jump up and down freely, because sections without a title count for the *)
(* level and have no entry, or get theirs when they are closed.            *)
(***************************************************************************)
EXTENDS Integers, Sequences

CONSTANTS
    MaxLevel,           \* bound on the levels of entries
    MaxEntries          \* bound on the length of Book.TOC

MaxInt32 == 2147483647

ASSUME MaxLevelAssumption == MaxLevel \in Nat /\ MaxLevel < MaxInt32
ASSUME MaxEntriesAssumption == MaxEntries \in Nat

Levels == 0..MaxLevel

Root == 0               \* the navMap element
NoPrev == -1            \* prev == nil
PageLevel == -1         \* the navPoint of the TOC page has no level

VARIABLES
    tocType,            \* Processor.tocType
    tocPlacement,       \* Processor.tocPlacement
    total,              \* len(Book.TOC)
    done,               \* entries of Book.TOC the loop went through
    nav,                \* the navPoints, numbered by playOrder
    history,            \* the stack of [level, elem]
    prev,               \* level of the previous entry
    finished            \* the function returned

tocVars == <<tocType, tocPlacement, total, done, nav, history, prev, finished>>

config == <<tocType, tocPlacement, total>>

NavPoints == [level : Levels \union {PageLevel}, parent : Nat]
StackItems == [level : Levels, elem : Nat \ {0}]

NavPoint(level, parent) == [level |-> level, parent |-> parent]

(* The page with the contents is the first navPoint when it is placed      *)
(* before the book and there is something to list.                         *)
TocInit ==
    /\ tocType \in {"normal", "kindle", "flat"}
    /\ tocPlacement \in {"none", "before", "after"}
    /\ total \in 0..MaxEntries
    /\ done = 0
    /\ nav = IF tocPlacement = "before" /\ total > 0
             THEN <<NavPoint(PageLevel, Root)>> ELSE <<>>
    /\ history = <<>>
    /\ prev = NoPrev
    /\ finished = FALSE

-----------------------------------------------------------------------------
(* Tuning by the type of the table of contents. *)
LevelFor(t) == IF t = "flat" THEN MaxInt32 ELSE 2

BarrierForAlways(t) == MaxInt32
BarrierFor(t) == IF t = "normal" THEN MaxInt32 ELSE 1

Pop(stack) == SubSeq(stack, 1, Len(stack) - 1)

Peek(stack) == IF stack = <<>> THEN Root ELSE stack[Len(stack)].elem

(* for history.peek() >= level { history.pop() }: what is left is the      *)
(* stack up to its last item of a lower level.                             *)
RemainsStrictlyAbove(stack, k, level) ==
    /\ k > 0 => stack[k].level <= level
    /\ \A i \in (k + 1)..Len(stack) : stack[i].level > level

Remains(stack, k, level) ==
    /\ k > 0 => stack[k].level < level
    /\ \A i \in (k + 1)..Len(stack) : stack[i].level >= level

(* history.push(e.level, addNavPoint(history.peek(), index, ...)) *)
PushUnder(stack, level) ==
    /\ nav' = Append(nav, NavPoint(level, Peek(stack)))
    /\ history' = Append(stack, [level |-> level, elem |-> Len(nav) + 1])
    /\ prev' = level
    /\ done' = done + 1
    /\ UNCHANGED <<config, finished>>

FirstEntry ==
    /\ done < total
    /\ prev = NoPrev
    /\ PushUnder(history, 0)

(* Going in: the previous entry is the parent, unless this is a chapter    *)
(* after the book title or the tree is deep enough.                        *)
GoingIn(level) ==
    /\ done < total
    /\ prev # NoPrev /\ prev < level
    /\ PushUnder(IF level < LevelFor(tocType) \/ Len(history) > BarrierFor(tocType)
                 THEN Pop(history) ELSE history, level)

SameLevelStacked(level) ==
    /\ done < total
    /\ prev = level
    /\ PushUnder(history, level)

SameLevel(level) ==
    /\ done < total
    /\ prev = level
    /\ PushUnder(Pop(history), level)

GoingOut(level) ==
    /\ done < total
    /\ prev > level
    /\ \E k \in 0..Len(history) :
        /\ Remains(history, k, level)
        /\ PushUnder(SubSeq(history, 1, k), level)

(* The page with the contents comes last when it is placed after the book. *)
Finish ==
    /\ done = total
    /\ ~finished
    /\ finished' = TRUE
    /\ nav' = IF tocPlacement = "after" /\ total > 0
              THEN Append(nav, NavPoint(PageLevel, Root)) ELSE nav
    /\ UNCHANGED <<config, done, history, prev>>

TocNext ==
    \/ FirstEntry
    \/ \E level \in Levels : GoingIn(level) \/ SameLevel(level) \/ GoingOut(level)
    \/ Finish

TocSpec == TocInit /\ [][TocNext]_tocVars

-----------------------------------------------------------------------------
TypeOK ==
    /\ tocType \in {"normal", "kindle", "flat"}
    /\ tocPlacement \in {"none", "before", "after"}
    /\ total \in 0..MaxEntries
    /\ done \in 0..total
    /\ nav \in Seq(NavPoints)
    /\ history \in Seq(StackItems)
    /\ prev \in Levels \union {NoPrev}
    /\ finished \in BOOLEAN

(* The stack is the path from the navMap to the last entry, its levels grow *)
(* strictly from bottom to top.  The code pops without looking whether the  *)
(* stack is empty and relies on exactly this: after the first entry there   *)
(* is always the previous entry on top.                                     *)
StackIsPath ==
    /\ \A k \in 1..Len(history) :
        /\ history[k].elem \in 1..Len(nav)
        /\ nav[history[k].elem].level = history[k].level
        /\ nav[history[k].elem].parent = IF k = 1 THEN Root ELSE history[k - 1].elem
    /\ \A i, k \in 1..Len(history) : i < k => history[i].level < history[k].level
    /\ prev # NoPrev => history # <<>> /\ history[Len(history)].level = prev

(* "kindle" gives two levels of navPoints, "flat" a single one, as the      *)
(* option document.toc.type promises (configuration.toml:328-330).          *)
DepthIsLimited ==
    \A i \in 1..Len(nav) :
        /\ tocType = "flat" => nav[i].parent = Root
        /\ tocType = "kindle" /\ nav[i].parent # Root => nav[nav[i].parent].parent = Root

(* A navPoint is put under an earlier entry of a lower level, and only while *)
(* that entry's part of the book lasts: nothing of its level or below comes  *)
(* between the two.                                                          *)
NestingIsScoped ==
    \A i \in 1..Len(nav) :
        LET p == nav[i].parent
        IN  p # Root =>
                /\ p \in 1..(i - 1)
                /\ nav[p].level # PageLevel
                /\ \A j \in (p + 1)..i : nav[j].level > nav[p].level

(* Entries of one level with nothing of a lower level between them are      *)
(* siblings, also where the depth is limited.                               *)
ChaptersAreSiblings ==
    \A i, j \in 1..Len(nav) :
        /\ i < j
        /\ nav[i].level = nav[j].level
        /\ \A k \in (i + 1)..j : nav[k].level >= nav[i].level
        => nav[i].parent = nav[j].parent

=============================================================================
