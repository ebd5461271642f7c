---------------------------- MODULE MCStore_proofs -----------------------------
(***************************************************************************)
(* Proofs about the device store, for any ids, saves and power cuts, and   *)
(* about the proximity beacon, for any beacons on one controller: first of *)
(* Store's own specification, then of the beacon beside it.                *)
(***************************************************************************)
EXTENDS MCStore, TLAPS

\* What the disk may still have for a file is a record of its id, as well.
OlderIsOwn == \A i \in Ids : \A s \in older[i] \cap Saves : Of[s] = i

\* A save under way has its temporary file to itself; once renamed, its record is
\* in place unless it was removed, and was told of then.
Alone == \A r, s \in Saves : UnderWay(r) /\ UnderWay(s) /\ Of[r] = Of[s] => r = s
Written == \A s \in Saves : pc[s] = "written" => temp[Of[s]] = s
Renamed == \A s \in Saves : pc[s] = "renamed" /\ s \in told[Of[s]] => file[Of[s]] = s

\* Where a record was promised, neither the reader's view nor what a power cut
\* may bring back is anything else, but for bytes an earlier cut took.
Lost == IF cuts > 0 THEN {Torn} ELSE {}
Kept == \A i \in Ids : None \notin told[i] => older[i] \cup {file[i]} \subseteq told[i] \cup Lost

\* Before the first power cut, what was removed or never saved is not there.
Gone == \A i \in Ids : told[i] = {None} /\ cuts = 0 => file[i] = None

IInv == TypeOK /\ OlderIsOwn /\ Alone /\ Written /\ Renamed /\ Kept /\ Gone

\* The empty directory promises nothing.
LEMMA InitIInv == Init => IInv
BY StoreAssumption DEF Init, IInv, TypeOK, OlderIsOwn, Alone, Written, Renamed, Kept,
   Gone, Lost, Contents, UnderWay

\* Types, and whose record is where.
LEMMA TypedStep == IInv /\ [Next]_vars => TypeOK' /\ OlderIsOwn'
<1>. SUFFICES ASSUME IInv, [Next]_vars
              PROVE  TypeOK' /\ OlderIsOwn'
  OBVIOUS
<1>. USE StoreAssumption DEF IInv, TypeOK, OlderIsOwn, Contents, PathFor
<1>1. CASE \E s \in Saves : WriteTemporary(s) \/ WriteFails(s)
  BY <1>1 DEF WriteTemporary, WriteFails, MayBegin
<1>2. ASSUME NEW s \in Saves, Rename(s)
      PROVE  TypeOK' /\ OlderIsOwn'
  <2>1. temp[Of[s]] = s /\ Of[s] \in Ids
    BY <1>2 DEF Rename, Written
  <2>. QED  BY <1>2, <2>1 DEF Rename
<1>3. CASE \E s \in Saves : Sync(s) \/ Abandon(s)
  BY <1>3 DEF Sync, Saved, Abandon, UnderWay
<1>4. CASE \E i \in Ids : RemoveDevice(i)
  BY <1>4 DEF RemoveDevice
<1>5. CASE PowerCut
  <2>1. \A i \in Ids : file'[i] \in older[i] \cup {file[i], Torn}
    BY <1>5 DEF PowerCut
  <2>2. temp' \in [Ids -> Contents] /\ \A i \in Ids : temp'[i] \in {temp[i], Torn}
    BY <1>5 DEF PowerCut
  <2>3. pc' \in [Saves -> {"new", "written", "renamed", "saved", "failed"}]
    BY <1>5 DEF PowerCut
  <2>4. file' \in [Ids -> Contents] /\ cuts' \in 0..MaxCuts /\ older' = [i \in Ids |-> {}]
        /\ cached' = {} /\ told' = told
    BY <1>5 DEF PowerCut
  <2>. QED  BY <2>1, <2>2, <2>3, <2>4
<1>6. CASE UNCHANGED vars
  BY <1>6 DEF vars
<1>. QED  BY <1>1, <1>2, <1>3, <1>4, <1>5, <1>6 DEF Next

\* Who is under way, and what it has written.
LEMMA AloneStep == IInv /\ [Next]_vars => Alone' /\ Written' /\ Renamed'
<1>. SUFFICES ASSUME IInv, [Next]_vars
              PROVE  Alone' /\ Written' /\ Renamed'
  OBVIOUS
<1>. USE StoreAssumption DEF IInv, TypeOK, Contents, Alone, Written, Renamed, UnderWay, PathFor
<1>1. ASSUME NEW s \in Saves, WriteTemporary(s)
      PROVE  Alone' /\ Written' /\ Renamed'
  BY <1>1 DEF WriteTemporary, MayBegin
<1>2. ASSUME NEW s \in Saves, WriteFails(s)
      PROVE  Alone' /\ Written' /\ Renamed'
  BY <1>2 DEF WriteFails, MayBegin
<1>3. ASSUME NEW s \in Saves, Rename(s)
      PROVE  Alone' /\ Written' /\ Renamed'
  <2>1. temp[Of[s]] = s /\ Of[s] \in Ids
    BY <1>3 DEF Rename
  <2>2. \A r \in Saves \ {s} : UnderWay(r) => Of[r] # Of[s]
    BY <1>3 DEF Rename
  <2>. QED  BY <1>3, <2>1, <2>2 DEF Rename
<1>4. ASSUME NEW s \in Saves, Sync(s)
      PROVE  Alone' /\ Written' /\ Renamed'
  BY <1>4 DEF Sync, Saved
<1>5. CASE \E s \in Saves : Abandon(s)
  BY <1>5 DEF Abandon
<1>6. CASE \E i \in Ids : RemoveDevice(i)
  BY <1>6 DEF RemoveDevice
<1>7. CASE PowerCut
  BY <1>7 DEF PowerCut
<1>8. CASE UNCHANGED vars
  BY <1>8 DEF vars
<1>. QED  BY <1>1, <1>2, <1>3, <1>4, <1>5, <1>6, <1>7, <1>8 DEF Next

\* What was promised is kept, and what is gone stays gone.
LEMMA KeptStep == IInv /\ [Next]_vars => Kept' /\ Gone'
<1>. SUFFICES ASSUME IInv, [Next]_vars
              PROVE  Kept' /\ Gone'
  OBVIOUS
<1>. USE StoreAssumption DEF IInv, TypeOK, Contents, Kept, Gone, Lost, PathFor
<1>1. CASE \E s \in Saves : WriteTemporary(s) \/ WriteFails(s) \/ Abandon(s)
  BY <1>1 DEF WriteTemporary, WriteFails, Abandon
<1>2. ASSUME NEW s \in Saves, Rename(s)
      PROVE  Kept' /\ Gone'
  <2>1. temp[Of[s]] = s /\ Of[s] \in Ids /\ cuts' = cuts
    BY <1>2 DEF Rename, Written
  <2>2. /\ file'[Of[s]] = s /\ told'[Of[s]] = told[Of[s]] \cup {s}
        /\ older'[Of[s]] = older[Of[s]] \cup {file[Of[s]]}
    BY <1>2, <2>1 DEF Rename
  <2>3. \A i \in Ids \ {Of[s]} :
           file'[i] = file[i] /\ told'[i] = told[i] /\ older'[i] = older[i]
    BY <1>2 DEF Rename
  <2>4. Kept'
    BY <2>1, <2>2, <2>3
  <2>5. told'[Of[s]] # {None}
    BY <2>2
  <2>6. Gone'
    BY <2>1, <2>3, <2>5
  <2>. QED  BY <2>4, <2>6
<1>3. ASSUME NEW s \in Saves, Sync(s)
      PROVE  Kept' /\ Gone'
  BY <1>3 DEF Sync, Saved, Renamed
<1>4. CASE \E i \in Ids : RemoveDevice(i)
  BY <1>4 DEF RemoveDevice
<1>5. CASE PowerCut
  <2>1. \A i \in Ids : file'[i] \in older[i] \cup {file[i], Torn}
    BY <1>5 DEF PowerCut
  <2>2. told' = told /\ cuts' > 0 /\ \A i \in Ids : older'[i] = {}
    BY <1>5 DEF PowerCut
  <2>. QED  BY <2>1, <2>2
<1>6. CASE UNCHANGED vars
  BY <1>6 DEF vars
<1>. QED  BY <1>1, <1>2, <1>3, <1>4, <1>5, <1>6 DEF Next

\* The invariant holds of every behaviour of the store.
LEMMA IInvAlways == Spec => []IInv
<1>1. IInv /\ [Next]_vars => IInv'
  BY TypedStep, AloneStep, KeptStep DEF IInv
<1>. QED  BY <1>1, InitIInv, PTL DEF Spec

\* The store's types, and that a file holds records of its own id.
THEOREM StoreTyped == Spec => []TypeOK
<1>1. IInv => TypeOK
  BY DEF IInv
<1>. QED  BY <1>1, IInvAlways, PTL

\* A record whose save answered Ok stays listed until it is removed or replaced,
\* across failing saves, kills and power cuts, of which only the first loses bytes.
THEOREM SavedSurvivesCorrect == Spec => []SavedSurvives
<1>1. IInv => SavedSurvives
  BY StoreAssumption DEF IInv, TypeOK, Kept, Lost, SavedSurvives, Listed, Contents
<1>. QED  BY <1>1, IInvAlways, PTL

\* Without a power cut a removed device is not listed again.
THEOREM RemovedIsGoneCorrect == Spec => []RemovedIsGone
<1>1. IInv => RemovedIsGone
  BY StoreAssumption DEF IInv, TypeOK, Gone, RemovedIsGone, Listed
<1>. QED  BY <1>1, IInvAlways, PTL

-------------------------------------------------------------------------------
\* A beacon that was not started has nothing anywhere.
NewIsClean(b) ==
    pc_beacon[b] = "new" => /\ call[b] = "none" /\ answer[b] = "none"
                            /\ b \notin onAir \cup notices /\ ~released[b]

\* A registration under way is the beacon's first and only one.
RegisterIsFirst(b) ==
    call[b] = "register" => /\ pc_beacon[b] \in {"starting", "dropped"} /\ answer[b] = "none"
                            /\ b \notin onAir \cup notices /\ ~released[b]

UnregisterIsStop(b) ==
    call[b] = "unregister" => pc_beacon[b] = "stopping" /\ answer[b] = "none"

\* What BlueZ let go of is off the air, and so is what it took back.
GoneIsOff(b) ==
    \/ released[b] \/ b \in notices \/ pc_beacon[b] = "stopped"
    \/ pc_beacon[b] = "stopping" /\ answer[b] = "ok"
    => b \notin onAir

Tidy(b) == NewIsClean(b) /\ RegisterIsFirst(b) /\ UnregisterIsStop(b) /\ GoneIsOff(b)
BeaconIInv == BeaconTypeOK /\ \A b \in Beacons : Tidy(b)

\* Nothing is registered at first.
LEMMA BeaconInit == B!Init => BeaconIInv
BY DEF B!Init, BeaconIInv, BeaconTypeOK, B!TypeOK, Tidy, NewIsClean, RegisterIsFirst,
   UnregisterIsStop, GoneIsOff

\* Every step of the owner, of the release handler and of BlueZ keeps it.
LEMMA BeaconStep == BeaconIInv /\ (B!Next \/ UNCHANGED beaconVars) => BeaconIInv'
<1>. SUFFICES ASSUME BeaconIInv, B!Next \/ UNCHANGED beaconVars
              PROVE  BeaconIInv'
  OBVIOUS
<1>. USE DEF BeaconIInv, BeaconTypeOK, B!TypeOK, Tidy, NewIsClean, RegisterIsFirst,
             UnregisterIsStop, GoneIsOff
<1>1. ASSUME NEW b \in Beacons, B!Start(b) \/ B!StartFails(b) \/ B!Drop(b)
      PROVE  BeaconIInv'
  BY <1>1 DEF B!Start, B!StartFails, B!Fail, B!Drop
<1>2. ASSUME NEW b \in Beacons, B!StopReleased(b) \/ B!Stop(b) \/ B!StopFails(b)
      PROVE  BeaconIInv'
  BY <1>2 DEF B!StopReleased, B!Stop, B!StopFails, B!Fail
<1>3. ASSUME NEW b \in Beacons, B!Register(b) \/ B!Unregister(b)
      PROVE  BeaconIInv'
  BY <1>3 DEF B!Register, B!Unregister
<1>4. ASSUME NEW b \in Beacons, B!Release(b)
      PROVE  BeaconIInv'
  BY <1>4 DEF B!Release
<1>5. ASSUME NEW b \in Beacons, B!BlueZRegisters(b)
      PROVE  BeaconIInv'
  BY <1>5 DEF B!BlueZRegisters, B!Reply
<1>6. ASSUME NEW b \in Beacons, B!BlueZUnregisters(b)
      PROVE  BeaconIInv'
  BY <1>6 DEF B!BlueZUnregisters, B!Reply
<1>7. ASSUME NEW b \in Beacons, B!BlueZReleases(b) \/ B!BlueZDropsClient(b)
      PROVE  BeaconIInv'
  BY <1>7 DEF B!BlueZReleases, B!BlueZDropsClient
<1>8. CASE B!BlueZEnds
  BY <1>8 DEF B!BlueZEnds
<1>9. CASE UNCHANGED beaconVars
  BY <1>9 DEF beaconVars
<1>. QED  BY <1>1, <1>2, <1>3, <1>4, <1>5, <1>6, <1>7, <1>8, <1>9
          DEF B!Next, B!Owner, B!Returns, B!BlueZ

\* So it holds whatever the store does meanwhile.
LEMMA BeaconAlways == MCSpec => []BeaconIInv
<1>1. MCInit => BeaconIInv
  BY BeaconInit DEF MCInit
<1>2. BeaconIInv /\ [MCNext]_<<part, vars, beaconVars>> => BeaconIInv'
  BY BeaconStep DEF MCNext
<1>. QED  BY <1>1, <1>2, PTL DEF MCSpec

\* The beacon's types, and that no call of a beacon is out while it is up.
THEOREM BeaconTyped == MCSpec => []BeaconTypeOK
<1>1. BeaconIInv => BeaconTypeOK
  BY DEF BeaconIInv
<1>. QED  BY <1>1, BeaconAlways, PTL

\* A beacon that was stopped with success is off the air, and stays so: no release,
\* late answer or end of BlueZ brings it back.
THEOREM StoppedIsOffAirCorrect == MCSpec => []StoppedIsOffAir
<1>1. BeaconIInv => StoppedIsOffAir
  BY DEF BeaconIInv, Tidy, GoneIsOff, StoppedIsOffAir, B!StoppedIsOffAir
<1>. QED  BY <1>1, BeaconAlways, PTL
===============================================================================
