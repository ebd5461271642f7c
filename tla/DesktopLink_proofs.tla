-------------------------- MODULE DesktopLink_proofs --------------------------
(***************************************************************************)
(* Proofs about the phone's queue of answers, for any answers, any number  *)
(* of connections and any number of breaks and stops.                      *)
(***************************************************************************)
EXTENDS DesktopLink, SequenceTheorems, TLAPS

Fates == {"none", "queued", "written", "read", "lost"}

\* What waits is owed; what a socket took was written.
Owed == \A i \in DOMAIN outbox : outbox[i] \in Tracked /\ fate[outbox[i]] = "queued"
OwedByPump == taken # None => taken \in Tracked /\ fate[taken] = "queued"
Sent ==
    \A k \in Conns : \A i \in DOMAIN up[k] :
        up[k][i] \in Tracked /\ fate[up[k][i]] \in {"written", "read"}

\* Each waits in one place.
OnePlace ==
    /\ \A a \in Tracked : fate[a] = "queued" => a \in Queued
    /\ \A i, j \in DOMAIN outbox : outbox[i] = outbox[j] => i = j
    /\ \A i \in DOMAIN outbox : outbox[i] # taken

\* The pump holds a line only while a session runs, and none runs without a link.
Sessions == (taken # None => session # None) /\ (session # None => linked)

IInv == TypeOK /\ Owed /\ OwedByPump /\ Sent /\ OnePlace /\ Sessions

\* The empty queue, and what taking a line and putting one do to a queue.
LEMMA EmptyQueue == DOMAIN <<>> = {} /\ <<>> \in Seq(Answers)
<1>1. Len(<<>>) = 0 /\ DOMAIN <<>> = 1..Len(<<>>) /\ <<>> \in Seq(Answers)
  OBVIOUS
<1>2. 1..0 = {}
  OBVIOUS
<1>. QED  BY <1>1, <1>2

\* Every line but the first remains, where the one before it was.
LEMMA Behind ==
    ASSUME NEW q \in Seq(Answers), q # <<>>
    PROVE  /\ Tail(q) \in Seq(Answers) /\ Head(q) = q[1] /\ 1 \in DOMAIN q
           /\ DOMAIN q = 1..Len(q) /\ DOMAIN Tail(q) = 1..(Len(q) - 1)
           /\ Len(q) \in Nat \ {0}
           /\ \A i \in DOMAIN Tail(q) : i + 1 \in DOMAIN q /\ Tail(q)[i] = q[i + 1]
<1>1. Len(q) \in Nat \ {0} /\ DOMAIN q = 1..Len(q)
  BY EmptySeq
<1>. QED  BY <1>1, HeadTailProperties

\* The lines keep their places, and the new one comes last.
LEMMA Appended ==
    ASSUME NEW q \in Seq(Answers), NEW a \in Answers
    PROVE  /\ Append(q, a) \in Seq(Answers)
           /\ DOMAIN Append(q, a) = 1..(Len(q) + 1) /\ DOMAIN q = 1..Len(q) /\ Len(q) \in Nat
           /\ \A i \in DOMAIN q : Append(q, a)[i] = q[i]
           /\ Append(q, a)[Len(q) + 1] = a
OBVIOUS

\* What Become notes.
LEMMA Noted ==
    ASSUME fate \in [Tracked -> Fates], NEW S, NEW f \in Fates, Become(S, f)
    PROVE  /\ fate' \in [Tracked -> Fates]
           /\ \A a \in Tracked : fate'[a] = IF a \in S THEN f ELSE fate[a]
BY DEF Become

\* Nothing is queued, nothing sent.
LEMMA InitIInv == Init => IInv
<1>. SUFFICES ASSUME Init
              PROVE  IInv
  OBVIOUS
<1>. USE ConnAssumption, BreakAssumption, EmptyQueue DEF Init
<1>1. TypeOK
  BY Zenon, SMT DEF TypeOK
<1>2. Owed /\ OwedByPump /\ Sent /\ OnePlace /\ Sessions
  BY DEF Owed, OwedByPump, Sent, OnePlace, Sessions
<1>. QED  BY <1>1, <1>2 DEF IInv

\* A line the pump takes leaves the queue; the others move up.
LEMMA TakeStep == IInv /\ Take => IInv'
<1>. SUFFICES ASSUME IInv, Take
              PROVE  IInv'
  OBVIOUS
<1>. USE ConnAssumption DEF IInv
<1>1. /\ outbox \in Seq(Answers) /\ outbox # <<>> /\ outbox' = Tail(outbox)
      /\ taken = None /\ taken' = outbox[1] /\ taken' \in Answers
      /\ UNCHANGED <<linked, session, used, broken, up, fate, stops>> /\ session # None
  BY Behind DEF Take, TypeOK, netVars
<1>2. TypeOK'
  BY <1>1, Behind DEF TypeOK
<1>3. Owed' /\ OwedByPump'
  BY <1>1, Behind DEF Owed, OwedByPump
<1>4. \A i \in DOMAIN outbox : i = 1 \/ (i - 1 \in DOMAIN outbox' /\ outbox'[i - 1] = outbox[i])
  BY <1>1, Behind
<1>5. \A a \in Queued : a \in Queued'
  <2>. SUFFICES ASSUME NEW a \in Queued
                PROVE  a \in Queued'
    OBVIOUS
  <2>1. PICK i \in DOMAIN outbox : outbox[i] = a
    BY <1>1 DEF Queued
  <2>2. CASE i = 1
    BY <1>1, <2>1, <2>2 DEF Queued
  <2>3. CASE i - 1 \in DOMAIN outbox' /\ outbox'[i - 1] = a
    BY <2>3 DEF Queued
  <2>. QED  BY <1>4, <2>1, <2>2, <2>3
<1>6. OnePlace'
  BY <1>1, <1>5, Behind DEF OnePlace
<1>. QED  BY <1>1, <1>2, <1>3, <1>6 DEF Sent, Sessions

\* A line is queued once: its fate says so from then on.
LEMMA QueueStep == ASSUME NEW a \in Tracked, fate[a] = "none", Queue(a), IInv
                   PROVE  IInv'
<1>. USE ConnAssumption, TrackedAssumption DEF IInv
<1>1. /\ outbox \in Seq(Answers) /\ a \in Answers /\ outbox' = Append(outbox, a) /\ linked
      /\ UNCHANGED <<linked, taken, session, used, broken, up, stops>>
  BY DEF Queue, TypeOK, netVars
<1>2. /\ fate' \in [Tracked -> Fates]
      /\ \A b \in Tracked : fate'[b] = IF b = a THEN "queued" ELSE fate[b]
  BY Noted DEF Queue, TypeOK, Fates
<1>3. TypeOK'
  BY <1>1, <1>2, Appended DEF TypeOK, Fates
<1>4. Owed' /\ OwedByPump' /\ Sent'
  BY <1>1, <1>2, Appended DEF Owed, OwedByPump, Sent
<1>5. (\A i \in DOMAIN outbox : outbox[i] # a) /\ taken # a
  BY DEF Owed, OwedByPump
<1>6. \A b \in Queued : b \in Queued'
  BY <1>1, Appended DEF Queued
<1>7. a \in Queued'
  BY <1>1, Appended DEF Queued
<1>8. OnePlace'
  BY <1>1, <1>2, <1>5, <1>6, <1>7, Appended DEF OnePlace
<1>. QED  BY <1>1, <1>3, <1>4, <1>8 DEF Sessions

\* A line written is in the socket and with the pump no more.
LEMMA WriteStep == IInv /\ Write => IInv'
<1>. SUFFICES ASSUME IInv, Write
              PROVE  IInv'
  OBVIOUS
<1>. USE ConnAssumption DEF IInv
<1>1. /\ taken \in Answers /\ taken \in Tracked /\ taken' = None /\ session \in Conns
      /\ up[session] \in Seq(Answers)
      /\ up' = [up EXCEPT ![session] = Append(up[session], taken)]
      /\ UNCHANGED <<linked, outbox, session, used, broken, stops>>
  BY DEF Write, TypeOK, OwedByPump, Sessions
<1>2. /\ fate' \in [Tracked -> Fates]
      /\ \A b \in Tracked : fate'[b] = IF b = taken THEN "written" ELSE fate[b]
  BY Noted DEF Write, TypeOK, Fates
<1>3. TypeOK'
  BY <1>1, <1>2, Appended DEF TypeOK, Fates
<1>4. Owed' /\ OwedByPump'
  BY <1>1, <1>2 DEF Owed, OwedByPump, OnePlace
<1>5. Sent'
  <2>. SUFFICES ASSUME NEW k \in Conns, NEW i \in DOMAIN up'[k]
                PROVE  up'[k][i] \in Tracked /\ fate'[up'[k][i]] \in {"written", "read"}
    BY DEF Sent
  <2>1. up'[k] = IF k = session THEN Append(up[k], taken) ELSE up[k]
    BY <1>1 DEF TypeOK
  <2>2. up'[k][i] = taken \/ (i \in DOMAIN up[k] /\ up'[k][i] = up[k][i])
    BY <1>1, <2>1, Appended
  <2>. QED  BY <1>1, <1>2, <2>2 DEF Sent
<1>6. \A i \in DOMAIN outbox : outbox[i] # None
  BY DEF TypeOK
<1>7. \A b \in Queued : b = taken \/ b \in Queued'
  BY <1>1 DEF Queued
<1>8. OnePlace'
  BY <1>1, <1>2, <1>6, <1>7 DEF OnePlace
<1>. QED  BY <1>1, <1>3, <1>4, <1>5, <1>8 DEF Sessions

\* A line whose write fails goes back, behind the others.
LEMMA WriteFailsStep == IInv /\ WriteFails => IInv'
<1>. SUFFICES ASSUME IInv, WriteFails
              PROVE  IInv'
  OBVIOUS
<1>. USE ConnAssumption DEF IInv
<1>1. /\ outbox \in Seq(Answers) /\ taken \in Answers /\ taken \in Tracked
      /\ outbox' = Append(outbox, taken)
      /\ taken' = None /\ session' = None
      /\ UNCHANGED <<linked, used, broken, up, fate, stops>>
  BY DEF WriteFails, TypeOK, netVars, OwedByPump
<1>2. TypeOK'
  BY <1>1, Appended DEF TypeOK
<1>3. Owed' /\ OwedByPump' /\ Sent'
  BY <1>1, Appended DEF Owed, OwedByPump, Sent
<1>4. \A b \in Queued : b \in Queued'
  BY <1>1, Appended DEF Queued
<1>5. \A i \in DOMAIN outbox' : outbox'[i] # None
  BY <1>1, <1>2 DEF TypeOK
<1>6. OnePlace'
  BY <1>1, <1>4, <1>5, Appended DEF OnePlace
<1>. QED  BY <1>1, <1>2, <1>3, <1>6 DEF Sessions

\* A line that goes with the session is lost, and noted so.
LEMMA SessionEndsStep == IInv /\ SessionEnds => IInv'
<1>. SUFFICES ASSUME IInv, SessionEnds
              PROVE  IInv'
  OBVIOUS
<1>. USE ConnAssumption DEF IInv
<1>1. /\ taken' = None /\ session' = None
      /\ UNCHANGED <<linked, outbox, used, broken, up, stops>>
  BY DEF SessionEnds, netVars
<1>2. /\ fate' \in [Tracked -> Fates]
      /\ \A b \in Tracked : fate'[b] = IF b = taken THEN "lost" ELSE fate[b]
  BY Noted DEF SessionEnds, TypeOK, Fates
<1>3. TypeOK'
  BY <1>1, <1>2 DEF TypeOK, Fates
<1>4. \A i \in DOMAIN outbox : outbox[i] # None /\ outbox[i] # taken
  BY DEF TypeOK, OnePlace
<1>5. Owed' /\ OwedByPump'
  BY <1>1, <1>2, <1>4 DEF Owed, OwedByPump
<1>6. Sent'
  <2>. SUFFICES ASSUME NEW k \in Conns, NEW i \in DOMAIN up[k]
                PROVE  fate'[up[k][i]] \in {"written", "read"}
    BY <1>1 DEF Sent
  <2>1. up[k][i] \in Tracked /\ fate[up[k][i]] \in {"written", "read"}
    BY DEF Sent
  <2>2. up[k][i] # taken
    BY <2>1, TrackedAssumption DEF OwedByPump
  <2>. QED  BY <1>2, <2>1, <2>2
<1>7. \A b \in Queued : b = taken \/ b \in Queued'
  BY <1>1 DEF Queued
<1>8. OnePlace'
  BY <1>1, <1>2, <1>4, <1>7 DEF OnePlace
<1>. QED  BY <1>1, <1>3, <1>5, <1>6, <1>8 DEF Sessions

\* Stopping loses all that waits, and nothing else.
LEMMA StopStep == IInv /\ Stop => IInv'
<1>. SUFFICES ASSUME IInv, Stop
              PROVE  IInv'
  OBVIOUS
<1>. USE ConnAssumption DEF IInv
<1>1. /\ linked' = FALSE /\ outbox' = <<>> /\ taken' = None /\ session' = None
      /\ DOMAIN outbox' = {} /\ outbox' \in Seq(Answers)
      /\ UNCHANGED <<used, broken, up>>
  BY EmptyQueue DEF Stop, netVars
<1>2. /\ fate' \in [Tracked -> Fates]
      /\ \A b \in Tracked : fate'[b] = IF b \in Queued THEN "lost" ELSE fate[b]
  BY Noted DEF Stop, TypeOK, Fates
<1>3. stops' \in 0..MaxStops
  BY BreakAssumption DEF Stop, TypeOK
<1>4. TypeOK'
  BY <1>1, <1>2, <1>3 DEF TypeOK, Fates
<1>5. \A b \in Tracked : b \in Queued => fate[b] = "queued"
  BY DEF Queued, Owed, OwedByPump
<1>6. Sent'
  BY <1>1, <1>2, <1>5 DEF Sent
<1>7. OnePlace'
  BY <1>1, <1>2 DEF OnePlace
<1>. QED  BY <1>1, <1>4, <1>6, <1>7 DEF Owed, OwedByPump, Sessions

\* What the network does with the lines in it is no matter of the queue.
LEMMA NetStep == ASSUME NEW k \in Conns, DaemonReads(k) \/ Break(k), IInv
                 PROVE  IInv'
<1>. USE ConnAssumption DEF IInv
<1>1. CASE DaemonReads(k)
  <2>1. /\ up[k] \in Seq(Answers) /\ up[k] # <<>>
        /\ up' = [up EXCEPT ![k] = Tail(up[k])]
        /\ UNCHANGED <<linked, outbox, taken, session, used, broken, stops>>
    BY <1>1 DEF DaemonReads, TypeOK
  <2>2. Head(up[k]) = up[k][1] /\ 1 \in DOMAIN up[k]
    BY <2>1, Behind
  <2>3. /\ fate' \in [Tracked -> Fates]
        /\ \A b \in Tracked : fate'[b] = IF b = up[k][1] THEN "read" ELSE fate[b]
    BY <1>1, <2>2, Noted DEF DaemonReads, TypeOK, Fates
  <2>4. fate[up[k][1]] \in {"written", "read"}
    BY <2>2 DEF Sent
  <2>5. TypeOK'
    BY <2>1, <2>3, Behind DEF TypeOK, Fates
  <2>6. Owed' /\ OwedByPump'
    BY <2>1, <2>3, <2>4 DEF Owed, OwedByPump
  <2>7. Sent'
    <3>. SUFFICES ASSUME NEW l \in Conns, NEW i \in DOMAIN up'[l]
                  PROVE  up'[l][i] \in Tracked /\ fate'[up'[l][i]] \in {"written", "read"}
      BY DEF Sent
    <3>1. \E j \in DOMAIN up[l] : up'[l][i] = up[l][j]
      BY <2>1, Behind DEF TypeOK
    <3>. QED  BY <2>3, <3>1 DEF Sent
  <2>8. OnePlace'
    BY <2>1, <2>3, <2>4 DEF OnePlace, Queued
  <2>. QED  BY <2>1, <2>5, <2>6, <2>7, <2>8 DEF Sessions
<1>2. CASE Break(k)
  <2>1. PICK n \in 0..Len(up[k]) : up' = [up EXCEPT ![k] = SubSeq(up[k], 1, n)]
    BY <1>2 DEF Break
  <2>2. /\ up[k] \in Seq(Answers)
        /\ SubSeq(up[k], 1, n) \in Seq(Answers)
        /\ \A i \in DOMAIN SubSeq(up[k], 1, n) :
              i \in DOMAIN up[k] /\ SubSeq(up[k], 1, n)[i] = up[k][i]
    BY <2>1 DEF TypeOK
  <2>3. UNCHANGED <<linked, outbox, taken, session, used, fate, stops>>
        /\ broken' \subseteq used
    BY <1>2 DEF Break, TypeOK
  <2>4. TypeOK'
    BY <2>1, <2>2, <2>3 DEF TypeOK
  <2>5. \A l \in Conns : \A i \in DOMAIN up'[l] :
           i \in DOMAIN up[l] /\ up'[l][i] = up[l][i]
    BY <2>1, <2>2 DEF TypeOK
  <2>6. Sent'
    BY <2>3, <2>5 DEF Sent
  <2>. QED  BY <2>3, <2>4, <2>6 DEF Owed, OwedByPump, OnePlace, Queued, Sessions
<1>. QED  BY <1>1, <1>2

\* The invariant holds of every behaviour.
LEMMA IInvAlways == Spec => []IInv
<1>1. IInv /\ [Next]_vars => IInv'
  <2>. SUFFICES ASSUME IInv, [Next]_vars
                PROVE  IInv'
    OBVIOUS
  <2>1. CASE Start
    BY <2>1 DEF Start, IInv, TypeOK, netVars, Owed, OwedByPump, Sent, OnePlace, Queued, Sessions
  <2>2. ASSUME NEW k \in Conns, Connect(k)
        PROVE  IInv'
    BY <2>2, ConnAssumption DEF Connect, IInv, TypeOK, netVars, Owed, OwedByPump, Sent,
       OnePlace, Queued, Sessions
  <2>3. CASE UNCHANGED vars
    BY <2>3 DEF vars, IInv, TypeOK, netVars, Owed, OwedByPump, Sent, OnePlace, Queued, Sessions
  <2>. QED  BY <2>1, <2>2, <2>3, TakeStep, QueueStep, WriteStep, WriteFailsStep,
            SessionEndsStep, StopStep, NetStep DEF Next, Pump
<1>. QED  BY <1>1, InitIInv, PTL DEF Spec

\* Types.
THEOREM LinkTyped == Spec => []TypeOK
<1>1. IInv => TypeOK
  BY DEF IInv
<1>. QED  BY <1>1, IInvAlways, PTL

\* An answer owed is held once, and one a socket took is not held at all.
THEOREM OwedIsHeldOnceCorrect == Spec => []OwedIsHeldOnce
<1>1. IInv => OwedIsHeldOnce
  <2>. SUFFICES ASSUME IInv
                PROVE  OwedIsHeldOnce
    OBVIOUS
  <2>1. \A a \in Tracked : a \in Queued => fate[a] = "queued"
    BY DEF IInv, Owed, OwedByPump, Queued
  <2>. QED  BY <2>1 DEF IInv, OnePlace, OwedIsHeldOnce
<1>. QED  BY <1>1, IInvAlways, PTL
===============================================================================
