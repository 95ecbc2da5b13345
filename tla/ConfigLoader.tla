---------------------------- MODULE ConfigLoader ----------------------------
(***************************************************************************)
(* How BuildConfig (config/cfg.go) gets its values from several sources:   *)
(* the loader (go-micro/config/loader/memory), the configuration above it  *)
(* (go-micro/config/default.go), and the watchers of files.                *)
(*                                                                         *)
(* Load reads the sources one after the other and starts a goroutine for   *)
(* each, which follows the file from then on.  A goroutine of the          *)
(* configuration, run, waits for new values of the loader.  Meanwhile the  *)
(* user may save the files.  A source is followed by its number, what it   *)
(* says by the number of times it was saved.                               *)
(***************************************************************************)
EXTENDS Integers, Sequences

CONSTANTS
    NSources,       \* the defaults, then the files in the order of --config
    Files,          \* the sources that are files: the others never change
    MaxSaves,       \* bound: how often each of them is saved
    Broken          \* <<source, save>> that cannot be decoded

Sources == 1..NSources

ASSUME SourcesAssumption ==
    /\ NSources \in Nat
    /\ Files \subseteq Sources
    /\ MaxSaves \in [Files -> Nat]

VARIABLES
    saves,          \* what is on the disk
    watched,        \* fsnotify has the file
    event,          \* and has an event of it
    sets,           \* memory.sets
    vals,           \* memory.vals and memory.snap
    mpc, at,        \* config.Load: where it is, and at which source
    read,           \* the changeset it has read
    snap,           \* the snapshot it has taken
    failed,         \* it has an error to return
    idx,            \* memory.watch: the place of the source in sets
    wpc, cs,        \* where it is, the changeset
    registered,     \* the loader has the watcher of run
    updates,        \* its channel
    rpc, value,     \* run: where it is, watcher.value
    current         \* config.vals, from which BuildConfig takes its sections

diskVars == <<saves, watched, event>>
loadVars == <<mpc, at, read, snap, failed>>
watchVars == <<idx, wpc, cs>>
runVars == <<registered, rpc, value>>
vars == <<diskVars, sets, vals, loadVars, watchVars, runVars, updates, current>>

Changes == [of : Sources, save : Nat]
Empty == [of |-> 0, save |-> 0]

OnDisk(i) == [of |-> i, save |-> saves[i]]

-----------------------------------------------------------------------------
(* The reader.  Later sets override earlier ones, so that a merge comes to *)
(* the sets that have data and their places.                               *)
Decodes(ss) == \A k \in DOMAIN ss : <<ss[k].of, ss[k].save>> \notin Broken

Merge(ss) == {<<k, ss[k]>> : k \in {j \in DOMAIN ss : ss[j] # Empty}}

(* newConfig has loaded no sources and started run. *)
Init ==
    /\ saves = [i \in Sources |-> 0]
    /\ watched = [i \in Sources |-> FALSE]
    /\ event = [i \in Sources |-> FALSE]
    /\ sets = <<>> /\ vals = {}
    /\ mpc = "read" /\ at = 1 /\ read = Empty /\ snap = {} /\ failed = FALSE
    /\ idx = [i \in Sources |-> 0]
    /\ wpc = [i \in Sources |-> "none"]
    /\ cs = [i \in Sources |-> Empty]
    /\ registered = FALSE /\ updates = <<>>
    /\ rpc = "get" /\ value = {}
    /\ current = {}

(* The user saves a file, in one step for those who read it. *)
Save(i) ==
    /\ i \in Files /\ saves[i] < MaxSaves[i]
    /\ saves' = [saves EXCEPT ![i] = @ + 1]
    /\ event' = [event EXCEPT ![i] = @ \/ watched[i]]
    /\ UNCHANGED <<watched, sets, vals, loadVars, watchVars, runVars, updates, current>>

(* The send of memory.update: a value that finds no room is dropped. *)
Send == updates' = IF updates = <<>> THEN <<vals>> ELSE updates

-----------------------------------------------------------------------------
(* config.Load and memory.Load. *)
ReadSource ==
    /\ mpc = "read" /\ at \in Sources
    /\ read' = OnDisk(at)
    /\ mpc' = "append"
    /\ UNCHANGED <<diskVars, sets, vals, at, snap, failed, watchVars, runVars, updates, current>>

(* A source that cannot be read is left out, and reported in the end. *)
ReadSourceFails ==
    /\ mpc = "read" /\ at \in Files
    /\ failed' = TRUE
    /\ at' = at + 1
    /\ UNCHANGED <<diskVars, sets, vals, mpc, read, snap, watchVars, runVars, updates, current>>

PlaceBySource == at
PlaceBefore == Len(sets)
Place == Len(sets) + 1

(* append and the index of what was appended, under one lock. *)
AppendSet ==
    /\ mpc = "append"
    /\ sets' = Append(sets, read)
    /\ idx' = [idx EXCEPT ![at] = Place]
    /\ wpc' = [wpc EXCEPT ![at] = "start"]
    /\ at' = at + 1
    /\ mpc' = "read" /\ read' = Empty
    /\ UNCHANGED <<diskVars, vals, snap, failed, cs, runVars, updates, current>>

Reload ==
    /\ mpc = "read" /\ at \notin Sources
    /\ Decodes(sets)
    /\ vals' = Merge(sets)
    /\ mpc' = "list"
    /\ UNCHANGED <<diskVars, sets, at, read, snap, failed, watchVars, runVars, updates, current>>

ReloadFails ==
    /\ mpc = "read" /\ at \notin Sources
    /\ ~Decodes(sets)
    /\ mpc' = "failed"
    /\ UNCHANGED <<diskVars, sets, vals, at, read, snap, failed, watchVars, runVars, updates, current>>

(* memory.update: look who is there, then send. *)
AfterReload == IF failed THEN "failed" ELSE "snapshot"

LoadLists ==
    /\ mpc = "list"
    /\ mpc' = IF registered THEN "send" ELSE AfterReload
    /\ UNCHANGED <<diskVars, sets, vals, at, read, snap, failed, watchVars, runVars, updates, current>>

LoadSends ==
    /\ mpc = "send"
    /\ Send
    /\ mpc' = AfterReload
    /\ UNCHANGED <<diskVars, sets, vals, at, read, snap, failed, watchVars, runVars, current>>

(* loader.Snapshot, and then c.Lock and the assignment. *)
Snapshot ==
    /\ mpc = "snapshot"
    /\ mpc' = "store"
    /\ snap' = vals
    /\ UNCHANGED <<diskVars, sets, vals, at, read, failed, watchVars, runVars, updates, current>>

Store ==
    /\ mpc = "store"
    /\ current' = snap
    /\ mpc' = "built" /\ snap' = {}
    /\ UNCHANGED <<diskVars, sets, vals, at, read, failed, watchVars, runVars, updates>>

Load ==
    \/ ReadSource \/ ReadSourceFails \/ AppendSet \/ Reload \/ ReloadFails
    \/ LoadLists \/ LoadSends \/ Snapshot \/ Store

-----------------------------------------------------------------------------
(* memory.watch.  It starts with a set of its own, which has no data.      *)
StartWatch(i) ==
    /\ wpc[i] = "start"
    /\ sets' = Append(sets, Empty)
    /\ wpc' = [wpc EXCEPT ![i] = "watch"]
    /\ UNCHANGED <<diskVars, vals, loadVars, idx, cs, runVars, updates, current>>

(* s.Watch.  What was saved before is not noticed. *)
WatchSource(i) ==
    /\ wpc[i] = "watch"
    /\ watched' = [watched EXCEPT ![i] = i \in Files]
    /\ wpc' = [wpc EXCEPT ![i] = "next"]
    /\ UNCHANGED <<saves, event, sets, vals, loadVars, idx, cs, runVars, updates, current>>

TakeEvent(i) ==
    /\ wpc[i] = "next" /\ event[i]
    /\ event' = [event EXCEPT ![i] = FALSE]
    /\ wpc' = [wpc EXCEPT ![i] = "read"]
    /\ UNCHANGED <<saves, watched, sets, vals, loadVars, idx, cs, runVars, updates, current>>

ReadChange(i) ==
    /\ wpc[i] = "read"
    /\ cs' = [cs EXCEPT ![i] = OnDisk(i)]
    /\ wpc' = [wpc EXCEPT ![i] = "merge"]
    /\ UNCHANGED <<diskVars, sets, vals, loadVars, idx, runVars, updates, current>>

ReadChangeFails(i) ==
    /\ wpc[i] = "read"
    /\ wpc' = [wpc EXCEPT ![i] = "stop"]
    /\ UNCHANGED <<diskVars, sets, vals, loadVars, idx, cs, runVars, updates, current>>

MergeChangeEarly(i) ==
    /\ wpc[i] = "merge"
    /\ Decodes(sets)
    /\ vals' = Merge(sets)
    /\ sets' = [sets EXCEPT ![idx[i]] = cs[i]]
    /\ cs' = [cs EXCEPT ![i] = Empty]
    /\ wpc' = [wpc EXCEPT ![i] = "list"]
    /\ UNCHANGED <<diskVars, loadVars, idx, runVars, updates, current>>

(* The set is kept also when the merge fails. *)
MergeChange(i) ==
    /\ wpc[i] = "merge"
    /\ sets' = [sets EXCEPT ![idx[i]] = cs[i]]
    /\ IF Decodes(sets')
         THEN vals' = Merge(sets') /\ wpc' = [wpc EXCEPT ![i] = "list"]
         ELSE wpc' = [wpc EXCEPT ![i] = "stop"] /\ UNCHANGED vals
    /\ cs' = [cs EXCEPT ![i] = Empty]
    /\ UNCHANGED <<diskVars, loadVars, idx, runVars, updates, current>>

AfterChange == "next"

WatchLists(i) ==
    /\ wpc[i] = "list"
    /\ wpc' = [wpc EXCEPT ![i] = IF registered THEN "send" ELSE AfterChange]
    /\ UNCHANGED <<diskVars, sets, vals, loadVars, idx, cs, runVars, updates, current>>

WatchSends(i) ==
    /\ wpc[i] = "send"
    /\ Send
    /\ wpc' = [wpc EXCEPT ![i] = AfterChange]
    /\ UNCHANGED <<diskVars, sets, vals, loadVars, idx, cs, runVars, current>>

(* The watcher of the file is closed and another is made. *)
StopWatch(i) ==
    /\ wpc[i] = "stop"
    /\ watched' = [watched EXCEPT ![i] = FALSE]
    /\ event' = [event EXCEPT ![i] = FALSE]
    /\ wpc' = [wpc EXCEPT ![i] = "watch"]
    /\ UNCHANGED <<saves, sets, vals, loadVars, idx, cs, runVars, updates, current>>

Watch(i) ==
    \/ StartWatch(i) \/ WatchSource(i) \/ TakeEvent(i) \/ ReadChange(i) \/ ReadChangeFails(i)
    \/ MergeChange(i) \/ WatchLists(i) \/ WatchSends(i) \/ StopWatch(i)

-----------------------------------------------------------------------------
(* config.run, with memory.Watch and watcher.Next. *)
RunGets ==
    /\ rpc = "get"
    /\ value' = vals
    /\ rpc' = "register"
    /\ UNCHANGED <<diskVars, sets, vals, loadVars, watchVars, registered, updates, current>>

RunRegisters ==
    /\ rpc = "register"
    /\ registered' = TRUE
    /\ rpc' = "next"
    /\ UNCHANGED <<diskVars, sets, vals, loadVars, watchVars, value, updates, current>>

(* A value that is the same as the last one is passed over. *)
RunTakes ==
    /\ rpc = "next" /\ updates # <<>>
    /\ updates' = <<>>
    /\ value' = Head(updates)
    /\ rpc' = IF Head(updates) = value THEN "next" ELSE "set"
    /\ UNCHANGED <<diskVars, sets, vals, loadVars, watchVars, registered, current>>

RunSets ==
    /\ rpc = "set"
    /\ current' = value
    /\ rpc' = "next"
    /\ UNCHANGED <<diskVars, sets, vals, loadVars, watchVars, registered, value, updates>>

Run == RunGets \/ RunRegisters \/ RunTakes \/ RunSets

Next ==
    \/ \E i \in Sources : Save(i)
    \/ Load
    \/ \E i \in Sources : Watch(i)
    \/ Run

Spec == Init /\ [][Next]_vars

(* Goroutines that can go on do; nobody has to save a file. *)
FairSpec ==
    /\ Spec
    /\ WF_vars(Load)
    /\ \A i \in Sources : WF_vars(Watch(i))
    /\ WF_vars(Run)

-----------------------------------------------------------------------------
Values == SUBSET (Nat \X Changes)

TypeOK ==
    /\ saves \in [Sources -> Nat]
    /\ watched \in [Sources -> BOOLEAN] /\ event \in [Sources -> BOOLEAN]
    /\ sets \in Seq(Changes \union {Empty})
    /\ vals \in Values
    /\ mpc \in {"read", "append", "list", "send", "snapshot", "store", "built", "failed"}
    /\ at \in 1..(NSources + 1)
    /\ read \in Changes \union {Empty} /\ snap \in Values /\ failed \in BOOLEAN
    /\ idx \in [Sources -> Nat]
    /\ wpc \in [Sources -> {"none", "start", "watch", "next", "read", "merge", "list",
                            "send", "stop"}]
    /\ cs \in [Sources -> Changes \union {Empty}]
    /\ registered \in BOOLEAN
    /\ updates \in Seq(Values) /\ Len(updates) <= 1
    /\ rpc \in {"get", "register", "next", "set"} /\ value \in Values
    /\ current \in Values

(* Later configurations override earlier ones (README.md:87, --config      *)
(* "accepts multiple inputs"), although every goroutine that starts puts a *)
(* set of its own among those of Load: in the values the sources have the  *)
(* order of the command line, and none is there twice.                     *)
SourcesInOrder ==
    \A a, b \in vals : a[1] < b[1] <=> a[2].of < b[2].of

(* What a source said is replaced by what it says now, and by nothing      *)
(* else: from the reload on, the values have every source that was read.   *)
NothingForgotten ==
    mpc \in {"list", "send", "snapshot", "store", "built"} =>
        {a[2].of : a \in vals} = {i \in Sources : idx[i] # 0}

(* The values never fall back to an earlier state of a file.               *)
NeverBack ==
    [][\A a \in vals : \E b \in vals' : b[2].of = a[2].of /\ b[2].save >= a[2].save]_vars

(* A file that is saved while it is watched is read, and what was saved is *)
(* in the values, unless the goroutine is starting anew after an error.    *)
ChangeTakesEffect ==
    \A i \in Files : \A n \in 1..MaxSaves[i] :
        event[i] /\ saves[i] = n ~>
            wpc[i] = "stop" \/ \E a \in vals : a[2].of = i /\ a[2].save >= n

(* "the current values" (go-micro/config/default.go:22): when BuildConfig  *)
(* is through with Load and nobody has anything to tell any more, the      *)
(* configuration has the values of the loader.                             *)
CurrentIsCurrent ==
    /\ mpc = "built" /\ rpc = "next" /\ updates = <<>>
    /\ \A i \in Sources : wpc[i] \notin {"list", "send"}
    => current = vals

=============================================================================
