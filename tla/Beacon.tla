-------------------------------- MODULE Beacon --------------------------------
(***************************************************************************)
(* The proximity beacon (kpk-proximity): start registers an advertisement  *)
(* with BlueZ over a bus connection of its own, stop withdraws it, and     *)
(* BlueZ may release it of its own accord in between.                      *)
(*                                                                         *)
(* Each .await of start and stop is a control point.  BlueZ and the bus    *)
(* are external, modelled by what the calls rely on: a call is answered,   *)
(* a release is a message that takes its time, and the advertisements of a *)
(* connection that has closed are dropped.                                 *)
(***************************************************************************)
EXTENDS Naturals, FiniteSets

CONSTANTS
    Beacons,
    Instances  \* advertisements the controller takes

VARIABLES
    pc,        \* where the owner of each beacon is
    released,  \* Beacon.released
    call,      \* the call BlueZ has yet to handle
    answer,    \* its answer, not yet read
    notices,   \* beacons with a Release on its way
    onAir      \* advertisements BlueZ holds

vars == <<pc, released, call, answer, notices, onAir>>

Ended(b) == pc[b] \in {"stopped", "failed", "dropped"}

\* The connection is the beacon's and goes with it, in whatever way it ends.
ClosedByStop(b) == pc[b] = "stopped"  \* mutant
Closed(b) == Ended(b)

Init ==
    /\ pc = [b \in Beacons |-> "new"]
    /\ released = [b \in Beacons |-> FALSE]
    /\ call = [b \in Beacons |-> "none"]
    /\ answer = [b \in Beacons |-> "none"]
    /\ notices = {} /\ onAir = {}

-------------------------------------------------------------------------------
\* The connection is built, the object served, and the call sent.
Start(b) ==
    /\ pc[b] = "new"
    /\ call' = [call EXCEPT ![b] = "register"]
    /\ pc' = [pc EXCEPT ![b] = "starting"]
    /\ UNCHANGED <<released, answer, notices, onAir>>

Fail(b) ==
    /\ pc' = [pc EXCEPT ![b] = "failed"]
    /\ UNCHANGED <<released, call, answer, notices, onAir>>

\* No bus, no object, or no proxy for the manager.
StartFails(b) == pc[b] = "new" /\ Fail(b)

\* Mutant: the answer is not awaited.
RegisterUnanswered(b) ==
    /\ pc[b] = "starting"
    /\ pc' = [pc EXCEPT ![b] = "up"]
    /\ UNCHANGED <<released, call, answer, notices, onAir>>

\* register returns; an error takes the beacon, and its connection, with it.
Register(b) ==
    /\ pc[b] = "starting" /\ answer[b] # "none"
    /\ pc' = [pc EXCEPT ![b] = IF answer[b] = "ok" THEN "up" ELSE "failed"]
    /\ answer' = [answer EXCEPT ![b] = "none"]
    /\ UNCHANGED <<released, call, notices, onAir>>

\* The owner lets go of the beacon, or gives up waiting for start.
Drop(b) ==
    /\ pc[b] \in {"starting", "up"}
    /\ pc' = [pc EXCEPT ![b] = "dropped"]
    /\ UNCHANGED <<released, call, answer, notices, onAir>>

StopReleased(b) ==
    /\ pc[b] = "up" /\ released[b]
    /\ pc' = [pc EXCEPT ![b] = "stopped"]
    /\ UNCHANGED <<released, call, answer, notices, onAir>>

Stop(b) ==
    /\ pc[b] = "up" /\ ~released[b]
    /\ call' = [call EXCEPT ![b] = "unregister"]
    /\ pc' = [pc EXCEPT ![b] = "stopping"]
    /\ UNCHANGED <<released, answer, notices, onAir>>

\* Mutant: that the manager is out of reach is passed over.
StopFailsQuietly(b) ==
    /\ pc[b] = "up" /\ ~released[b]
    /\ pc' = [pc EXCEPT ![b] = "stopped"]
    /\ UNCHANGED <<released, call, answer, notices, onAir>>

\* The manager is out of reach.
StopFails(b) == pc[b] = "up" /\ ~released[b] /\ Fail(b)

Unregister(b) ==
    /\ pc[b] = "stopping" /\ answer[b] # "none"
    /\ pc' = [pc EXCEPT ![b] = IF answer[b] = "ok" THEN "stopped" ELSE "failed"]
    /\ answer' = [answer EXCEPT ![b] = "none"]
    /\ UNCHANGED <<released, call, notices, onAir>>

\* The release handler runs in a task of its own, in the midst of a stop too.
Release(b) ==
    /\ b \in notices /\ ~Closed(b)
    /\ notices' = notices \ {b}
    /\ released' = [released EXCEPT ![b] = TRUE]
    /\ UNCHANGED <<pc, call, answer, onAir>>

-------------------------------------------------------------------------------
(***************************************************************************)
(* BlueZ.                                                                  *)
(***************************************************************************)

Reply(b, a) ==
    /\ call' = [call EXCEPT ![b] = "none"]
    /\ answer' = [answer EXCEPT ![b] = a]

\* It may refuse for want of an instance, of power or of permission.
BlueZRegisters(b) ==
    /\ call[b] = "register"
    /\ \/ Cardinality(onAir) < Instances /\ onAir' = onAir \cup {b} /\ Reply(b, "ok")
       \/ onAir' = onAir /\ Reply(b, "refused")
    /\ UNCHANGED <<pc, released, notices>>

\* An advertisement that is gone already is answered with DoesNotExist.
BlueZUnregisters(b) ==
    /\ call[b] = "unregister"
    /\ onAir' = onAir \ {b}
    /\ Reply(b, IF b \in onAir THEN "ok" ELSE "refused")
    /\ UNCHANGED <<pc, released, notices>>

\* The adapter is switched off or taken out.
BlueZReleases(b) ==
    /\ b \in onAir
    /\ onAir' = onAir \ {b}
    /\ notices' = notices \cup {b}
    /\ UNCHANGED <<pc, released, call, answer>>

BlueZDropsClient(b) ==
    /\ Closed(b) /\ call[b] = "none" /\ b \in onAir
    /\ onAir' = onAir \ {b}
    /\ UNCHANGED <<pc, released, call, answer, notices>>

\* bluetoothd ends: nothing is released, and its callers get an error.
BlueZEnds ==
    /\ onAir # {}
    /\ onAir' = {}
    /\ answer' = [b \in Beacons |-> IF call[b] = "none" THEN answer[b] ELSE "refused"]
    /\ call' = [b \in Beacons |-> "none"]
    /\ UNCHANGED <<pc, released, notices>>

Owner(b) == Start(b) \/ StartFails(b) \/ Drop(b) \/ StopReleased(b) \/ Stop(b) \/ StopFails(b)
Returns(b) == Register(b) \/ Unregister(b) \/ Release(b)
BlueZ(b) == BlueZRegisters(b) \/ BlueZUnregisters(b) \/ BlueZDropsClient(b)

Next ==
    \/ \E b \in Beacons : Owner(b) \/ Returns(b) \/ BlueZ(b) \/ BlueZReleases(b)
    \/ BlueZEnds

Spec == Init /\ [][Next]_vars

\* BlueZ answers and notices closed connections; nobody has to stop a beacon.
FairSpec == Spec /\ \A b \in Beacons : WF_vars(BlueZ(b))

-------------------------------------------------------------------------------
\* The variables keep their types; no call is out while the beacon is up.
TypeOK ==
    /\ pc \in [Beacons -> {"new", "starting", "up", "stopping",
                           "stopped", "failed", "dropped"}]
    /\ released \in [Beacons -> BOOLEAN]
    /\ call \in [Beacons -> {"none", "register", "unregister"}]
    /\ answer \in [Beacons -> {"none", "ok", "refused"}]
    /\ notices \subseteq Beacons /\ onAir \subseteq Beacons
    /\ \A b \in Beacons : pc[b] = "up" => call[b] = "none" /\ answer[b] = "none"

\* When stop has returned Ok nothing is broadcast any more, whether BlueZ
\* released the advertisement before, during or not at all (lib.rs:162).
StoppedIsOffAir == \A b \in Beacons : pc[b] = "stopped" => b \notin onAir

\* However a beacon ends - stop that fails, start that is given up, a beacon
\* that is just dropped - its nonce leaves the air in the end.
NothingLeftOnAir == \A b \in Beacons : Ended(b) ~> b \notin onAir
=============================================================================
