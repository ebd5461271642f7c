-------------------------------- MODULE Store --------------------------------
(***************************************************************************)
(* The directory of paired devices (store.rs), one file per device id, as  *)
(* the daemon and the import command (server.rs) write it and a power cut  *)
(* leaves it.                                                              *)
(*                                                                         *)
(* The daemon runs save, list and remove to their end without an .await;   *)
(* an import is a process of its own.  Either may be killed between two    *)
(* system calls.  The file system gives what POSIX promises: rename is     *)
(* atomic, and what no fsync covered a power cut may undo.                 *)
(***************************************************************************)
EXTENDS Naturals, FiniteSets

CONSTANTS
    Ids,      \* device ids, a hash of the key
    Saves,    \* calls of Store::save, each with a record of its own
    Of,       \* the id of the record each saves
    Imports,  \* the saves made by the import command
    MaxCuts,  \* bound on power cuts
    None,     \* no such file
    Torn      \* a file list cannot parse

ASSUME StoreAssumption ==
    /\ Of \in [Saves -> Ids]
    /\ Imports \subseteq Saves
    /\ MaxCuts \in Nat
    /\ None \notin Saves /\ Torn \notin Saves /\ None # Torn

VARIABLES
    file,   \* per id: <id>.json as a reader sees it
    temp,   \* per id: <id>.json.tmp
    older,  \* per id: what the directory on disk may still have for <id>.json
    cached, \* the saves whose bytes may not be on disk
    pc,     \* per save: how far it is
    told,   \* history: per id, what the answers so far let list show
    cuts

vars == <<file, temp, older, cached, pc, told, cuts>>

Contents == Saves \cup {None, Torn}
UnderWay(s) == pc[s] \in {"written", "renamed"}
DaemonIdle == \A s \in Saves \ Imports : ~UnderWay(s)

PathForAny(s) == CHOOSE i \in Ids : TRUE  \* mutant: one file for all
PathFor(s) == Of[s]

\* Mutant: a temporary file counts where there is no other.
ListedTemporaries ==
    [i \in Ids |-> IF file[i] \in Saves THEN file[i]
                   ELSE IF temp[i] \in Saves THEN temp[i] ELSE None]

\* Store::list passes over temporary files and whatever it cannot parse.
Listed == [i \in Ids |-> IF file[i] \in Saves THEN file[i] ELSE None]

Init ==
    /\ file = [i \in Ids |-> None]
    /\ temp = [i \in Ids |-> None]
    /\ older = [i \in Ids |-> {}]
    /\ cached = {}
    /\ pc = [s \in Saves |-> "new"]
    /\ told = [i \in Ids |-> {None}]
    /\ cuts = 0

-------------------------------------------------------------------------------
\* save is called: the daemon does one thing at a time, and nobody imports one
\* key twice at once.
MayBegin(s) ==
    /\ pc[s] = "new"
    /\ s \notin Imports => DaemonIdle
    /\ \A r \in Saves : PathFor(r) = PathFor(s) => ~UnderWay(r)

WriteTemporary(s) ==
    /\ MayBegin(s)
    /\ temp' = [temp EXCEPT ![PathFor(s)] = s]
    /\ cached' = cached \cup {s}
    /\ pc' = [pc EXCEPT ![s] = "written"]
    /\ UNCHANGED <<file, older, told, cuts>>

\* Mutant: the record is written where it is read.
WriteFailsInPlace(s) ==
    /\ MayBegin(s)
    /\ file' = [file EXCEPT ![PathFor(s)] = Torn]
    /\ pc' = [pc EXCEPT ![s] = "failed"]
    /\ UNCHANGED <<temp, older, cached, told, cuts>>

\* The disk is full, or the process is killed half way.
WriteFails(s) ==
    /\ MayBegin(s)
    /\ temp' = [temp EXCEPT ![PathFor(s)] = Torn]
    /\ pc' = [pc EXCEPT ![s] = "failed"]
    /\ UNCHANGED <<file, older, cached, told, cuts>>

Rename(s) ==
    LET i == PathFor(s) IN
    /\ pc[s] = "written"
    /\ file' = [file EXCEPT ![i] = temp[i]]
    /\ temp' = [temp EXCEPT ![i] = None]
    /\ older' = [older EXCEPT ![i] = @ \cup {file[i]}]
    /\ told' = [told EXCEPT ![i] = @ \cup {s}]
    /\ pc' = [pc EXCEPT ![s] = "renamed"]
    /\ UNCHANGED <<cached, cuts>>

\* The call answers Ok; the record is there, unless it was removed meanwhile.
Saved(s) ==
    /\ pc[s] = "renamed"
    /\ pc' = [pc EXCEPT ![s] = "saved"]
    /\ told' = [told EXCEPT ![PathFor(s)] = IF s \in @ THEN {s} ELSE @]

SyncSkipped(s) == Saved(s) /\ UNCHANGED <<file, temp, older, cached, cuts>>  \* mutant

\* fsync of the directory makes every rename and removal in it durable, though
\* not the bytes of the files.
Sync(s) ==
    /\ Saved(s)
    /\ older' = [i \in Ids |-> {}]
    /\ UNCHANGED <<file, temp, cached, cuts>>

\* rename or fsync returns an error, or the process is killed before it.
Abandon(s) ==
    /\ UnderWay(s)
    /\ pc' = [pc EXCEPT ![s] = "failed"]
    /\ UNCHANGED <<file, temp, older, cached, told, cuts>>

\* Store::remove, from RemoveDevice on the bus: no fsync follows.
RemoveDevice(i) ==
    /\ DaemonIdle
    /\ file[i] # None
    /\ file' = [file EXCEPT ![i] = None]
    /\ older' = [older EXCEPT ![i] = @ \cup {file[i]}]
    /\ told' = [told EXCEPT ![i] = {None}]
    /\ UNCHANGED <<temp, cached, pc, cuts>>

\* Each name is what one of the last writes of the directory made it, and bytes
\* that were still cached may be missing.
PowerCut ==
    /\ cuts < MaxCuts
    /\ cuts' = cuts + 1
    /\ file' \in [Ids -> Contents]
    /\ \A i \in Ids :
         \E c \in older[i] \cup {file[i]} :
            file'[i] = c \/ (file'[i] = Torn /\ c \in cached)
    /\ temp' = [i \in Ids |-> IF temp[i] \in cached THEN Torn ELSE temp[i]]
    /\ older' = [i \in Ids |-> {}]
    /\ cached' = {}
    /\ pc' = [s \in Saves |-> IF UnderWay(s) THEN "failed" ELSE pc[s]]
    /\ UNCHANGED told

Next ==
    \/ \E s \in Saves : WriteTemporary(s) \/ WriteFails(s) \/ Rename(s)
                        \/ Sync(s) \/ Abandon(s)
    \/ \E i \in Ids : RemoveDevice(i)
    \/ PowerCut

Spec == Init /\ [][Next]_vars

-------------------------------------------------------------------------------
\* The variables keep their types, and a file holds a record of its own id
\* (store.rs: path_for).
TypeOK ==
    /\ file \in [Ids -> Contents]
    /\ temp \in [Ids -> Contents]
    /\ older \in [Ids -> SUBSET Contents]
    /\ cached \subseteq Saves
    /\ pc \in [Saves -> {"new", "written", "renamed", "saved", "failed"}]
    /\ told \in [Ids -> SUBSET (Saves \cup {None})]
    /\ cuts \in 0..MaxCuts
    /\ \A i \in Ids : \A s \in {file[i], temp[i]} \cap Saves : Of[s] = i

\* A record whose save answered Ok is listed until it is removed, or replaced by
\* a later save of the same id, whatever other saves fail or are killed half way
\* and whatever else is in the directory; a power cut can only take its bytes,
\* never its name or its successor's (store.rs: "so the rename itself is durable").
SavedSurvives ==
    \A i \in Ids : None \notin told[i] =>
        Listed[i] \in told[i] \/ (file[i] = Torn /\ cuts > 0)

\* As long as the power lasts, a device that was removed is not listed again,
\* although a save of it that never finished left its temporary file behind.
RemovedIsGone ==
    \A i \in Ids : told[i] = {None} /\ cuts = 0 => Listed[i] = None
=============================================================================
