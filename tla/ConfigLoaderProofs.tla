------------------------- MODULE ConfigLoaderProofs -------------------------
(***************************************************************************)
(* Proofs about ConfigLoader, for any number of sources and saves.  The    *)
(* invariant says that sets and idx are inverse to each other, whatever    *)
(* the goroutines have put in between, and that what was saved travels one *)
(* way: disk, changeset, sets, values.                                     *)
(***************************************************************************)
EXTENDS ConfigLoader, TLAPS

(* The place of a source has its set, and every set with data is in the    *)
(* place of its source.                                                    *)
SlotsOf(ss, ix) ==
    /\ \A i \in Sources : ix[i] # 0 => ix[i] \in 1..Len(ss) /\ ss[ix[i]].of = i
    /\ \A k \in 1..Len(ss) :
          ss[k] # Empty => ss[k].of \in Sources /\ ix[ss[k].of] = k

Slots == SlotsOf(sets, idx)

(* Places are given in the order of the sources. *)
InOrder ==
    /\ \A i \in Sources : i >= at => idx[i] = 0
    /\ \A i, j \in Sources : i < j /\ idx[i] # 0 /\ idx[j] # 0 => idx[i] < idx[j]
    /\ mpc \in {"list", "send", "snapshot", "store", "built"} => at \notin Sources

(* The goroutines and Load have sets of their sources, not older than what *)
(* they replace and not newer than the disk.                               *)
OneWay ==
    /\ mpc = "append" => at \in Sources /\ read.of = at /\ read.save <= saves[at]
    /\ \A i \in Sources :
        /\ wpc[i] # "none" => idx[i] # 0
        /\ idx[i] # 0 => sets[idx[i]].save <= saves[i]
        /\ wpc[i] = "merge" => /\ cs[i].of = i /\ cs[i].save <= saves[i]
                               /\ sets[idx[i]].save <= cs[i].save

(* The values come from the sets as they are or as they were. *)
FromSets ==
    \A a \in vals :
        /\ a[1] \in 1..Len(sets)
        /\ sets[a[1]].of = a[2].of
        /\ a[2].save <= sets[a[1]].save

IInv ==
    /\ TypeOK
    /\ Slots
    /\ InOrder
    /\ OneWay
    /\ FromSets
    /\ NothingForgotten

-----------------------------------------------------------------------------
(* A source is a number from 1 on, and so the set of a source is not the   *)
(* empty one.                                                              *)
LEMMA ChangesAreNotEmpty ==
    /\ Empty \notin Changes
    /\ \A s \in Changes \union {Empty} : s.save \in Nat /\ (s # Empty <=> s.of \in Sources)
BY SourcesAssumption DEF Changes, Empty, Sources

(* What a merge comes to, once the sets are where they should be: the      *)
(* values have every source that has a place, and are no older.            *)
LEMMA Merges ==
    ASSUME NEW ss \in Seq(Changes \union {Empty}), NEW ix \in [Sources -> Nat],
           SlotsOf(ss, ix),
           NEW v, v = Merge(ss)
    PROVE  /\ v \in Values
           /\ \A a \in v : a[1] \in 1..Len(ss) /\ a[2] = ss[a[1]]
           /\ {a[2].of : a \in v} = {i \in Sources : ix[i] # 0}
           /\ \A i \in Sources : ix[i] # 0 => <<ix[i], ss[ix[i]]>> \in v
<1>1. /\ DOMAIN ss = 1..Len(ss) /\ Len(ss) \in Nat
      /\ \A k \in 1..Len(ss) : ss[k] \in Changes \union {Empty}
  OBVIOUS
<1>2. \A i \in Sources : ix[i] # 0 => ss[ix[i]] # Empty
  BY <1>1, ChangesAreNotEmpty DEF SlotsOf
<1>3. \A a \in v : a[1] \in 1..Len(ss) /\ a[2] = ss[a[1]] /\ a[2] # Empty /\ a = <<a[1], a[2]>>
  BY <1>1 DEF Merge
<1>4. v \in Values
  BY <1>1, <1>3 DEF Values
<1>5. \A i \in Sources : ix[i] # 0 => <<ix[i], ss[ix[i]]>> \in v
  BY <1>1, <1>2 DEF Merge, SlotsOf
<1>6. {a[2].of : a \in v} = {i \in Sources : ix[i] # 0}
  <2>1. ASSUME NEW a \in v PROVE a[2].of \in Sources /\ ix[a[2].of] # 0
    BY <1>1, <1>3 DEF SlotsOf
  <2>2. ASSUME NEW i \in Sources, ix[i] # 0 PROVE \E a \in v : a[2].of = i
    BY <1>5, <2>2 DEF SlotsOf
  <2> QED
    BY <2>1, <2>2
<1> QED
  BY <1>3, <1>4, <1>5, <1>6

-----------------------------------------------------------------------------
LEMMA InitIInv == Init => IInv
<1> SUFFICES ASSUME Init PROVE IInv
  OBVIOUS
<1> USE DEF Init
<1>1. TypeOK
  <2>1. sets \in Seq(Changes \union {Empty}) /\ updates \in Seq(Values) /\ Len(updates) <= 1
    OBVIOUS
  <2>2. vals \in Values /\ snap \in Values /\ value \in Values /\ current \in Values
    BY DEF Values
  <2>3. at \in 1..(NSources + 1)
    BY SourcesAssumption
  <2> QED
    BY <2>1, <2>2, <2>3 DEF TypeOK
<1> QED
  BY <1>1 DEF IInv, Slots, SlotsOf, InOrder, OneWay, FromSets, NothingForgotten

(* Steps that leave the sets and the values alone, and the places. *)
LEMMA SetsUntouched ==
    ASSUME IInv, UNCHANGED <<sets, vals, idx>>, TypeOK', OneWay',
           \/ UNCHANGED <<mpc, at>>
           \/ UNCHANGED at /\ mpc = "read" /\ mpc' = "append"
           \/ at' = at + 1 /\ at \in Sources /\ mpc' = "read"
           \/ /\ UNCHANGED at
              /\ mpc \in {"list", "send", "snapshot", "store"}
           \/ mpc' = "failed" /\ UNCHANGED at
    PROVE  IInv'
<1> USE DEF IInv
<1>1. Slots' /\ FromSets' /\ NothingForgotten'
  BY DEF Slots, SlotsOf, FromSets, NothingForgotten
<1>2. InOrder'
  BY SourcesAssumption DEF InOrder, TypeOK, Sources
<1> QED
  BY <1>1, <1>2

-----------------------------------------------------------------------------
(* Load. *)
LEMMA LoadSteps == IInv /\ Load => IInv'
<1> SUFFICES ASSUME IInv, Load PROVE IInv'
  OBVIOUS
<1> USE DEF IInv, diskVars, watchVars, runVars
<1>1. CASE ReadSource
  <2>1. TypeOK'
    BY <1>1 DEF ReadSource, TypeOK, OnDisk, Changes
  <2>2. OneWay'
    BY <1>1 DEF ReadSource, OneWay, OnDisk, TypeOK
  <2> QED
    BY <1>1, <2>1, <2>2, SetsUntouched DEF ReadSource
<1>2. CASE ReadSourceFails
  <2>1. TypeOK'
    BY <1>2, SourcesAssumption DEF ReadSourceFails, TypeOK, Sources
  <2>2. OneWay'
    BY <1>2 DEF ReadSourceFails, OneWay
  <2> QED
    BY <1>2, <2>1, <2>2, SourcesAssumption, SetsUntouched DEF ReadSourceFails
<1>3. CASE AppendSet
  <2>1. /\ at \in Sources /\ idx[at] = 0 /\ read.of = at /\ read.save <= saves[at]
        /\ at' = at + 1 /\ mpc' = "read" /\ read \in Changes \union {Empty}
        /\ sets' = Append(sets, read) /\ Len(sets') = Len(sets) + 1 /\ Len(sets) \in Nat
        /\ sets'[Len(sets) + 1] = read
        /\ \A k \in 1..Len(sets) : sets'[k] = sets[k]
        /\ idx' = [idx EXCEPT ![at] = Len(sets) + 1]
        /\ UNCHANGED <<vals, saves, cs>>
    BY <1>3 DEF AppendSet, OneWay, InOrder, TypeOK, Place, Sources
  <2>2. TypeOK'
    BY <1>3, <2>1, SourcesAssumption DEF AppendSet, TypeOK, Sources
  <2>3. Slots'
    BY <2>1 DEF Slots, SlotsOf, TypeOK
  <2>4. InOrder'
    BY <2>1, SourcesAssumption DEF InOrder, Slots, SlotsOf, TypeOK, Sources
  <2>5. OneWay'
    <3>1. \A i \in Sources : wpc'[i] = wpc[i] \/ (i = at /\ wpc'[i] = "start")
      BY <1>3 DEF AppendSet, TypeOK
    <3> QED
      BY <2>1, <3>1 DEF OneWay, Slots, SlotsOf, TypeOK
  <2>6. FromSets'
    BY <2>1 DEF FromSets
  <2>7. NothingForgotten'
    BY <2>1 DEF NothingForgotten
  <2> QED
    BY <2>2, <2>3, <2>4, <2>5, <2>6, <2>7
<1>4. CASE Reload
  <2>1. /\ vals' = Merge(sets) /\ mpc' = "list" /\ at \notin Sources
        /\ UNCHANGED <<sets, idx, at, saves, wpc, cs, read>>
    BY <1>4 DEF Reload
  <2>2. /\ vals' \in Values
        /\ \A a \in vals' : a[1] \in 1..Len(sets) /\ a[2] = sets[a[1]]
        /\ {a[2].of : a \in vals'} = {i \in Sources : idx[i] # 0}
    <3>1. sets \in Seq(Changes \union {Empty}) /\ idx \in [Sources -> Nat] /\ SlotsOf(sets, idx)
      BY DEF TypeOK, Slots
    <3> HIDE DEF IInv
    <3> QED
      BY <2>1, <3>1, Merges
  <2>3. TypeOK'
    BY <1>4, <2>2 DEF Reload, TypeOK
  <2>4. Slots' /\ InOrder' /\ OneWay' /\ NothingForgotten'
    BY <2>1, <2>2 DEF Slots, SlotsOf, InOrder, OneWay, NothingForgotten
  <2>5. FromSets'
    <3>1. \A k \in 1..Len(sets) : sets[k].save \in Nat
      BY DEF TypeOK, Changes, Empty
    <3> QED
      BY <2>1, <2>2, <3>1 DEF FromSets
  <2> QED
    BY <2>3, <2>4, <2>5
<1>5. CASE ReloadFails
  BY <1>5, SetsUntouched DEF ReloadFails, TypeOK, OneWay
<1>6. CASE LoadLists
  BY <1>6, SetsUntouched DEF LoadLists, AfterReload, TypeOK, OneWay
<1>7. CASE LoadSends
  <2>1. TypeOK'
    <3>1. updates' \in Seq(Values) /\ Len(updates') <= 1
      BY <1>7 DEF LoadSends, Send, TypeOK
    <3> QED
      BY <1>7, <3>1 DEF LoadSends, AfterReload, TypeOK
  <2> QED
    BY <1>7, <2>1, SetsUntouched DEF LoadSends, AfterReload, OneWay
<1>8. CASE Snapshot
  BY <1>8, SetsUntouched DEF Snapshot, TypeOK, OneWay
<1>9. CASE Store
  BY <1>9, SetsUntouched DEF Store, TypeOK, OneWay, Values
<1> QED
  BY <1>1, <1>2, <1>3, <1>4, <1>5, <1>6, <1>7, <1>8, <1>9 DEF Load

(* The goroutine of a source. *)
LEMMA WatchSteps == ASSUME NEW i \in Sources PROVE IInv /\ Watch(i) => IInv'
<1> SUFFICES ASSUME IInv, Watch(i) PROVE IInv'
  OBVIOUS
<1> USE DEF IInv, diskVars, loadVars, runVars
<1>1. CASE StartWatch(i)
  <2>1. /\ sets' = Append(sets, Empty) /\ Len(sets') = Len(sets) + 1 /\ Len(sets) \in Nat
        /\ sets'[Len(sets) + 1] = Empty
        /\ \A k \in 1..Len(sets) : sets'[k] = sets[k]
        /\ UNCHANGED <<vals, idx, saves, cs, loadVars>>
    BY <1>1 DEF StartWatch, TypeOK
  <2>2. TypeOK'
    BY <1>1, <2>1 DEF StartWatch, TypeOK
  <2>3. Slots' /\ FromSets' /\ NothingForgotten'
    BY <2>1 DEF Slots, SlotsOf, FromSets, NothingForgotten
  <2>4. InOrder'
    BY <2>1 DEF InOrder
  <2>5. OneWay'
    <3>1. \A j \in Sources : wpc'[j] = wpc[j] \/ (j = i /\ wpc'[j] = "watch" /\ wpc[j] = "start")
      BY <1>1 DEF StartWatch, TypeOK
    <3> QED
      BY <2>1, <3>1 DEF OneWay, Slots, SlotsOf
  <2> QED
    BY <2>2, <2>3, <2>4, <2>5
<1>2. CASE WatchSource(i) \/ TakeEvent(i) \/ ReadChangeFails(i) \/ StopWatch(i) \/ WatchLists(i)
  <2>1. TypeOK'
    <3>1. CASE WatchSource(i)
      BY <3>1 DEF WatchSource, TypeOK
    <3>2. CASE TakeEvent(i)
      BY <3>2 DEF TakeEvent, TypeOK
    <3>3. CASE ReadChangeFails(i)
      BY <3>3 DEF ReadChangeFails, TypeOK
    <3>4. CASE StopWatch(i)
      BY <3>4 DEF StopWatch, TypeOK
    <3>5. CASE WatchLists(i)
      BY <3>5 DEF WatchLists, AfterChange, TypeOK
    <3> QED
      BY <1>2, <3>1, <3>2, <3>3, <3>4, <3>5
  <2>2. \A j \in Sources : wpc'[j] = wpc[j] \/ (wpc'[j] # "merge" /\ wpc[j] # "none")
    BY <1>2 DEF WatchSource, TakeEvent, ReadChangeFails, StopWatch, WatchLists, AfterChange, TypeOK
  <2>3. UNCHANGED <<sets, vals, idx, saves, cs, loadVars>>
    BY <1>2 DEF WatchSource, TakeEvent, ReadChangeFails, StopWatch, WatchLists
  <2>4. OneWay'
    BY <2>2, <2>3 DEF OneWay
  <2> QED
    BY <2>1, <2>3, <2>4, SetsUntouched
<1>3. CASE ReadChange(i)
  <2>1. TypeOK'
    BY <1>3 DEF ReadChange, TypeOK, OnDisk, Changes
  <2>2. OneWay'
    BY <1>3 DEF ReadChange, TypeOK, OnDisk, OneWay
  <2> QED
    BY <1>3, <2>1, <2>2, SetsUntouched DEF ReadChange
<1>4. CASE MergeChange(i)
  <2>1. /\ wpc[i] = "merge" /\ idx[i] \in 1..Len(sets) /\ idx[i] # 0
        /\ cs[i].of = i /\ cs[i].save <= saves[i] /\ sets[idx[i]].save <= cs[i].save
        /\ sets[idx[i]].of = i
        /\ sets' = [sets EXCEPT ![idx[i]] = cs[i]] /\ Len(sets') = Len(sets)
        /\ Len(sets) \in Nat /\ cs[i] \in Changes \union {Empty}
        /\ UNCHANGED <<idx, saves, loadVars>>
    BY <1>4 DEF MergeChange, OneWay, Slots, SlotsOf, TypeOK
  <2>2. /\ sets' \in Seq(Changes \union {Empty})
        /\ \A k \in 1..Len(sets) : sets'[k] = IF k = idx[i] THEN cs[i] ELSE sets[k]
    BY <2>1 DEF TypeOK
  <2>3. Slots'
    BY <2>1, <2>2 DEF Slots, SlotsOf, TypeOK
  <2>4. sets' \in Seq(Changes \union {Empty}) /\ idx' \in [Sources -> Nat] /\ SlotsOf(sets', idx')
    BY <2>1, <2>2, <2>3 DEF TypeOK, Slots
  <2>5. ASSUME vals' = Merge(sets')
        PROVE  FromSets' /\ NothingForgotten' /\ vals' \in Values
    <3>1. /\ vals' \in Values
          /\ \A a \in vals' : a[1] \in 1..Len(sets') /\ a[2] = sets'[a[1]]
          /\ {a[2].of : a \in vals'} = {j \in Sources : idx'[j] # 0}
      <4> HIDE DEF IInv
      <4> QED
        BY <2>4, <2>5, Merges
    <3>2. \A k \in 1..Len(sets') : sets'[k].save \in Nat
      BY <2>2 DEF TypeOK, Changes, Empty
    <3>3. FromSets' /\ NothingForgotten'
      BY <2>1, <3>1, <3>2 DEF FromSets, NothingForgotten
    <3> QED
      BY <3>1, <3>3
  <2>6. ASSUME UNCHANGED vals
        PROVE  FromSets' /\ NothingForgotten' /\ vals' \in Values
    <3>1. \A k \in 1..Len(sets) : sets'[k].of = sets[k].of /\ sets[k].save <= sets'[k].save
      BY <2>1, <2>2 DEF TypeOK, Changes, Empty
    <3>2. \A k \in 1..Len(sets) : sets'[k].save \in Nat /\ sets[k].save \in Nat
      BY <2>2, <2>1 DEF TypeOK, Changes, Empty
    <3>3. \A a \in vals : a[2].save \in Nat
      BY DEF TypeOK, Values, Changes
    <3>4. FromSets' /\ NothingForgotten'
      BY <2>1, <2>6, <3>1, <3>2, <3>3 DEF FromSets, NothingForgotten
    <3> QED
      BY <2>6, <3>4 DEF TypeOK
  <2>7. /\ FromSets' /\ NothingForgotten' /\ vals' \in Values
        /\ wpc'[i] \in {"list", "stop"}
        /\ \A j \in Sources : j # i => wpc'[j] = wpc[j]
        /\ \A j \in Sources : j # i => cs'[j] = cs[j]
    BY <1>4, <2>5, <2>6 DEF MergeChange, TypeOK
  <2>8. TypeOK'
    BY <1>4, <2>4, <2>7 DEF MergeChange, TypeOK
  <2>9. InOrder'
    BY <2>1 DEF InOrder
  <2>10. OneWay'
    <3>1. sets'[idx[i]] = cs[i] /\ wpc[i] # "none"
      BY <2>1, <2>2
    <3>2. \A j \in Sources : j # i /\ idx[j] # 0 => sets'[idx[j]] = sets[idx[j]]
      BY <2>1, <2>2 DEF Slots, SlotsOf
    <3>3. mpc' = "append" => at' \in Sources /\ read'.of = at' /\ read'.save <= saves'[at']
      BY <2>1 DEF OneWay
    <3>4. ASSUME NEW j \in Sources
          PROVE  /\ wpc'[j] # "none" => idx'[j] # 0
                 /\ idx'[j] # 0 => sets'[idx'[j]].save <= saves'[j]
                 /\ wpc'[j] = "merge" => /\ cs'[j].of = j /\ cs'[j].save <= saves'[j]
                                         /\ sets'[idx'[j]].save <= cs'[j].save
      <4>1. CASE j = i
        BY <2>1, <2>7, <3>1, <4>1
      <4>2. CASE j # i
        <5>1. wpc'[j] = wpc[j] /\ cs'[j] = cs[j] /\ idx'[j] = idx[j] /\ saves'[j] = saves[j]
          BY <2>1, <2>7, <4>2
        <5>2. wpc[j] # "none" => idx[j] # 0
          BY DEF OneWay
        <5> QED
          BY <3>2, <4>2, <5>1, <5>2 DEF OneWay
      <4> QED
        BY <4>1, <4>2
    <3> QED
      BY <3>3, <3>4 DEF OneWay
  <2> QED
    BY <2>3, <2>7, <2>8, <2>9, <2>10
<1>5. CASE WatchSends(i)
  <2>1. TypeOK'
    <3>1. updates' \in Seq(Values) /\ Len(updates') <= 1
      BY <1>5 DEF WatchSends, Send, TypeOK
    <3> QED
      BY <1>5, <3>1 DEF WatchSends, AfterChange, TypeOK
  <2>2. OneWay'
    BY <1>5 DEF WatchSends, AfterChange, OneWay, TypeOK
  <2> QED
    BY <1>5, <2>1, <2>2, SetsUntouched DEF WatchSends
<1> QED
  BY <1>1, <1>2, <1>3, <1>4, <1>5 DEF Watch

(* The user, and run. *)
LEMMA OtherSteps ==
    ASSUME IInv, Run \/ \E i \in Sources : Save(i)
    PROVE  IInv'
<1> USE DEF IInv
<1>1. CASE Run
  <2> USE DEF diskVars, loadVars, watchVars, runVars
  <2>1. OneWay' /\ UNCHANGED <<sets, vals, idx, mpc, at>>
    BY <1>1 DEF Run, RunGets, RunRegisters, RunTakes, RunSets, OneWay
  <2>2. TypeOK'
    <3>1. CASE RunGets \/ RunRegisters \/ RunSets
      BY <3>1 DEF RunGets, RunRegisters, RunSets, TypeOK
    <3>2. CASE RunTakes
      <4>1. Head(updates) \in Values /\ updates' \in Seq(Values) /\ Len(updates') <= 1
        BY <3>2 DEF RunTakes, TypeOK
      <4> QED
        BY <3>2, <4>1 DEF RunTakes, TypeOK
    <3> QED
      BY <1>1, <3>1, <3>2 DEF Run
  <2> QED
    BY <2>1, <2>2, SetsUntouched
<1>2. ASSUME NEW i \in Sources, Save(i) PROVE IInv'
  <2> USE DEF loadVars, watchVars, runVars
  <2>1. \A j \in Sources : saves[j] \in Nat /\ saves'[j] \in Nat /\ saves[j] <= saves'[j]
    BY <1>2 DEF Save, TypeOK
  <2>2. TypeOK'
    BY <1>2, <2>1 DEF Save, TypeOK
  <2>3. /\ read.save \in Nat
        /\ \A j \in Sources : cs[j].save \in Nat /\ (idx[j] # 0 => sets[idx[j]].save \in Nat)
    BY DEF TypeOK, Changes, Empty, Slots, SlotsOf
  <2>4. OneWay'
    BY <1>2, <2>1, <2>3 DEF Save, OneWay
  <2> QED
    BY <1>2, <2>2, <2>4, SetsUntouched DEF Save
<1> QED
  BY <1>1, <1>2

LEMMA Inductive == IInv /\ [Next]_vars => IInv'
<1> SUFFICES ASSUME IInv, [Next]_vars PROVE IInv'
  OBVIOUS
<1>1. CASE UNCHANGED vars
  <2> USE DEF vars, diskVars, loadVars, watchVars, runVars
  <2>1. TypeOK'
    BY <1>1 DEF IInv, TypeOK
  <2>2. OneWay'
    BY <1>1 DEF IInv, OneWay
  <2> QED
    BY <1>1, <2>1, <2>2, SetsUntouched
<1> QED
  BY <1>1, LoadSteps, WatchSteps, OtherSteps DEF Next

LEMMA Invariant == Spec => []IInv
BY InitIInv, Inductive, PTL DEF Spec

-----------------------------------------------------------------------------
(* The state of the loader has its types.                                  *)
THEOREM LoaderTypes == Spec => []TypeOK
<1>1. IInv => TypeOK
  BY DEF IInv
<1> QED
  BY <1>1, Invariant, PTL

(* Whatever the goroutines that start put between the sets, the values     *)
(* have the sources in the order of the command line, each once            *)
(* (go-micro/config/loader/memory/memory.go, watch and Load).              *)
THEOREM SourcesAreInOrder == Spec => []SourcesInOrder
<1>1. IInv => SourcesInOrder
  <2> SUFFICES ASSUME IInv, NEW a \in vals, NEW b \in vals
               PROVE  a[1] < b[1] <=> a[2].of < b[2].of
    BY DEF SourcesInOrder
  <2>1. /\ a[2].of \in Sources /\ b[2].of \in Sources
    BY DEF IInv, TypeOK, Values, Changes
  <2>2. /\ a[1] = idx[a[2].of] /\ b[1] = idx[b[2].of]
        /\ a[1] \in 1..Len(sets) /\ b[1] \in 1..Len(sets)
    BY <2>1, ChangesAreNotEmpty DEF IInv, FromSets, Slots, SlotsOf, TypeOK
  <2> QED
    <3>1. \A i, j \in Sources : i < j /\ idx[i] # 0 /\ idx[j] # 0 => idx[i] < idx[j]
      BY DEF IInv, InOrder
    <3>2. /\ a[1] \in Int /\ b[1] \in Int /\ a[1] # 0 /\ b[1] # 0
          /\ a[2].of \in Int /\ b[2].of \in Int
      BY <2>1, <2>2, SourcesAssumption DEF Sources
    <3>3. CASE a[2].of < b[2].of
      BY <2>1, <2>2, <3>1, <3>2, <3>3
    <3>4. CASE a[2].of = b[2].of
      BY <2>2, <3>2, <3>4
    <3>5. CASE b[2].of < a[2].of
      BY <2>1, <2>2, <3>1, <3>2, <3>5
    <3> QED
      BY <3>2, <3>3, <3>4, <3>5
<1> QED
  BY <1>1, Invariant, PTL

(* From the reload on the values have every source that was read.          *)
THEOREM NoSourceForgotten == Spec => []NothingForgotten
<1>1. IInv => NothingForgotten
  BY DEF IInv
<1> QED
  BY <1>1, Invariant, PTL

(* The values never fall back behind what a file once said.                *)
THEOREM ValuesNeverBack == Spec => NeverBack
<1> DEFINE Newer == \A a \in vals : \E b \in vals' : b[2].of = a[2].of /\ b[2].save >= a[2].save
<1>1. IInv /\ IInv' /\ [Next]_vars => Newer
  <2> SUFFICES ASSUME IInv, IInv', [Next]_vars, NEW a \in vals
               PROVE  \E b \in vals' : b[2].of = a[2].of /\ b[2].save >= a[2].save
    OBVIOUS
  <2>1. /\ a[2].of \in Sources /\ a[2].save \in Nat /\ a[1] \in 1..Len(sets)
        /\ sets[a[1]].of = a[2].of /\ a[2].save <= sets[a[1]].save
        /\ idx[a[2].of] = a[1] /\ a[1] # 0
    BY ChangesAreNotEmpty DEF IInv, TypeOK, Values, Changes, FromSets, Slots, SlotsOf
  <2>2. CASE UNCHANGED vals
    BY <2>1, <2>2
  <2>3. CASE ~UNCHANGED vals
    <3>1. Reload \/ \E i \in Sources : MergeChange(i)
      BY <2>3 DEF Next, Save, Load, ReadSource, ReadSourceFails, AppendSet, ReloadFails, LoadLists,
         LoadSends, Snapshot, Store, Watch, StartWatch, WatchSource, TakeEvent, ReadChange,
         ReadChangeFails, WatchLists, WatchSends, StopWatch, Run, RunGets, RunRegisters, RunTakes,
         RunSets, vars
    <3>2. /\ vals' = Merge(sets') /\ UNCHANGED idx
          /\ sets'[a[1]].save >= sets[a[1]].save
      <4>1. CASE Reload
        <5>1. sets[a[1]].save \in Nat
          BY <2>1, ChangesAreNotEmpty DEF IInv, TypeOK
        <5> QED
          BY <4>1, <5>1 DEF Reload, watchVars
      <4>2. ASSUME NEW i \in Sources, MergeChange(i)
            PROVE  /\ vals' = Merge(sets') /\ UNCHANGED idx
                   /\ sets'[a[1]].save >= sets[a[1]].save
        <5>1. /\ wpc[i] = "merge" /\ idx[i] \in 1..Len(sets)
              /\ sets[idx[i]].save <= cs[i].save /\ cs[i].save \in Nat
              /\ sets[a[1]].save \in Nat
          <6>1. wpc[i] = "merge" /\ idx[i] # 0 /\ sets[idx[i]].save <= cs[i].save
            BY <4>2 DEF MergeChange, IInv, OneWay
          <6>2. idx[i] \in 1..Len(sets)
            BY <6>1 DEF IInv, Slots, SlotsOf
          <6>3. cs[i].save \in Nat /\ sets[a[1]].save \in Nat
            <7>1. cs[i] \in Changes \union {Empty} /\ sets[a[1]] \in Changes \union {Empty}
              BY <2>1 DEF IInv, TypeOK
            <7> QED
              BY <7>1, ChangesAreNotEmpty
          <6> QED
            BY <6>1, <6>2, <6>3
        <5>2. /\ vals' = Merge(sets') /\ UNCHANGED idx
              /\ sets' = [sets EXCEPT ![idx[i]] = cs[i]]
          BY <2>3, <4>2 DEF MergeChange
        <5> QED
          BY <2>1, <5>1, <5>2 DEF IInv, TypeOK
      <4> QED
        BY <3>1, <4>1, <4>2
    <3>3. sets' \in Seq(Changes \union {Empty}) /\ idx' \in [Sources -> Nat] /\ SlotsOf(sets', idx')
      BY DEF IInv, TypeOK, Slots
    <3>4. <<idx'[a[2].of], sets'[idx'[a[2].of]]>> \in vals'
      BY <2>1, <3>2, <3>3, Merges
    <3>5. sets'[idx'[a[2].of]].of = a[2].of /\ idx'[a[2].of] = a[1]
      BY <2>1, <3>2, <3>3 DEF SlotsOf
    <3>6. sets'[a[1]].save \in Nat /\ sets[a[1]].save \in Nat
      <4>1. a[1] \in 1..Len(sets')
        BY <2>1, <3>3, <3>5 DEF SlotsOf
      <4> QED
        BY <2>1, <3>3, <4>1, ChangesAreNotEmpty DEF IInv, TypeOK
    <3> QED
      BY <2>1, <3>2, <3>4, <3>5, <3>6
  <2> QED
    BY <2>2, <2>3
<1>2. IInv /\ IInv' /\ [Next]_vars => [Newer]_vars
  BY <1>1
<1> QED
  BY <1>2, Invariant, PTL DEF Spec, NeverBack
=============================================================================
