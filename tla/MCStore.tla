------------------------------ MODULE MCStore ------------------------------
(* Instances for TLC of the two components that meet no other: the store's *)
(* files and the proximity beacon.  Neither reads what the other writes,   *)
(* so a behaviour follows one of them and the other stays where it starts. *)
EXTENDS Store

CONSTANTS
    Beacons, Instances,  \* of Beacon
    x, y, x1, x2, y1, y2

OfDef == [s \in Saves |-> IF s \in {x1, x2} THEN x ELSE y]

VARIABLES part, pc_beacon, released, call, answer, notices, onAir

B == INSTANCE Beacon WITH pc <- pc_beacon

beaconVars == <<pc_beacon, released, call, answer, notices, onAir>>

MCInit == part \in {"store", "beacon"} /\ Init /\ B!Init
MCNext ==
    /\ UNCHANGED part
    /\ \/ part = "store" /\ Next /\ UNCHANGED beaconVars
       \/ part = "beacon" /\ B!Next /\ UNCHANGED vars
MCSpec ==
    /\ MCInit
    /\ [][MCNext]_<<part, vars, beaconVars>>
    /\ \A b \in Beacons : WF_beaconVars(part = "beacon" /\ B!BlueZ(b) /\ UNCHANGED <<part, vars>>)

\* Type correctness of the beacon.
BeaconTypeOK == B!TypeOK

\* A beacon that was stopped with success is off the air (lib.rs:162).
StoppedIsOffAir == B!StoppedIsOffAir

\* Whatever way a beacon ends, its nonce leaves the air in the end (lib.rs:99).
NothingLeftOnAir == B!NothingLeftOnAir
=============================================================================
