----------------------------- MODULE Daemon_proofs -----------------------------
(***************************************************************************)
(* Proofs about the daemon's request core, for any number of tasks,        *)
(* connections, keys and restarts.                                         *)
(***************************************************************************)
EXTENDS Daemon, FiniteSetTheorems, TLAPS

\* What an answer from a phone is, whatever its id: the reply the environment may
\* hand to on_phone_message is one of the replies the protocol has.
LEMMA RepliesAreTyped ==
    ASSUME TypeOK
    PROVE  /\ PossibleReplies \subseteq Replies
           /\ None \notin PossibleReplies
<1>1. \A n \in 1..Cardinality(Tasks) : n \in Nat
  OBVIOUS
<1>2. PossibleReplies \subseteq Replies
  BY <1>1 DEF TypeOK, PossibleReplies, Replies
<1>. QED  BY <1>2, NoneAssumption

\* Each step keeps the variables well typed: a timeout or a failed send in
\* particular leaves well-formed maps.
LEMMA TypeStep == TypeOK /\ [Next]_vars => TypeOK'
<1>. SUFFICES ASSUME TypeOK, [Next]_vars
              PROVE  TypeOK'
  OBVIOUS
<1>. USE DEF TypeOK, InProgress
<1>1. ASSUME NEW c \in Tasks, PamConnects(c)
      PROVE  TypeOK'
  BY <1>1 DEF PamConnects, netVars, phoneVars
<1>2. ASSUME NEW c \in Tasks, AcceptPam(c)
      PROVE  TypeOK'
  BY <1>2 DEF AcceptPam, netVars, phoneVars
<1>3. ASSUME NEW c \in Tasks, NoDevice(c)
      PROVE  TypeOK'
  BY <1>3 DEF NoDevice, netVars, phoneVars
<1>4. ASSUME NEW c \in Tasks, RunVerification(c)
      PROVE  TypeOK'
  BY <1>4 DEF RunVerification, netVars, phoneVars, Insert, Waiters, Oldest, DeviceRecords
<1>5. ASSUME NEW c \in Tasks, AskPhone(c)
      PROVE  TypeOK'
  BY <1>5 DEF AskPhone, netVars, phoneVars, Insert, Waiters
<1>6. ASSUME NEW c \in Tasks, LockOutbound(c)
      PROVE  TypeOK'
  BY <1>6 DEF LockOutbound, netVars, phoneVars
<1>7. ASSUME NEW c \in Tasks, SendLine(c)
      PROVE  TypeOK'
  BY <1>7 DEF SendLine, Line, Lines, phoneVars
<1>8. ASSUME NEW c \in Tasks, SendFails(c)
      PROVE  TypeOK'
  BY <1>8 DEF SendFails, GiveUp, Remove, netVars, phoneVars
<1>9. ASSUME NEW c \in Tasks, Timeout(c)
      PROVE  TypeOK'
  BY <1>9 DEF Timeout, GiveUp, Remove, netVars, phoneVars
<1>10. ASSUME NEW c \in Tasks, Resume(c)
       PROVE  TypeOK'
  BY <1>10 DEF Resume, netVars, phoneVars
<1>11. ASSUME NEW c \in Tasks, Answer(c)
       PROVE  TypeOK'
  BY <1>11 DEF Answer, netVars, phoneVars
<1>12. ASSUME NEW k \in Conns, PhoneConnects(k)
       PROVE  TypeOK'
  BY <1>12 DEF PhoneConnects, taskVars, phoneVars
<1>13. ASSUME NEW k \in Conns, AcceptPhone(k)
       PROVE  TypeOK'
  BY <1>13 DEF AcceptPhone, taskVars, phoneVars
<1>14. ASSUME NEW k \in Conns, AdoptPhone(k)
       PROVE  TypeOK'
  BY <1>14 DEF AdoptPhone, taskVars, phoneVars
<1>15. ASSUME NEW k \in Conns, ReaderEnds(k)
       PROVE  TypeOK'
  BY <1>15 DEF ReaderEnds, taskVars, phoneVars
<1>16. ASSUME NEW k \in Conns, Break(k)
       PROVE  TypeOK'
  BY <1>16 DEF Break, taskVars, phoneVars
<1>17. ASSUME NEW k \in Conns, PhoneReads(k)
       PROVE  TypeOK'
  BY <1>17 DEF PhoneReads, taskVars
<1>18. ASSUME NEW k \in Conns, NEW m \in PossibleReplies, Receive(k, m)
       PROVE  TypeOK'
  <2>1. m \in Replies
    BY RepliesAreTyped
  <2>. QED  BY <1>18, <2>1 DEF Receive, Deliver, Remove, netVars, phoneVars
<1>19. ASSUME NEW k \in Keys, NEW line \in seen, Sign(k, line)
       PROVE  TypeOK'
  BY <1>19 DEF Sign, Signatures, taskVars, netVars
<1>20. ASSUME NEW k \in Keys, NEW now \in Times, SaveDevice(k, now)
       PROVE  TypeOK'
  BY <1>20 DEF SaveDevice, DeviceRecords, taskVars, netVars, phoneVars
<1>21. ASSUME NEW k \in Keys, RemoveDevice(k)
       PROVE  TypeOK'
  BY <1>21 DEF RemoveDevice, taskVars, netVars, phoneVars
<1>22. CASE Restart
  BY <1>22, BoundAssumption DEF Restart, FirstId, phoneVars
<1>23. CASE UNCHANGED vars
  BY <1>23 DEF vars, taskVars, netVars, phoneVars
<1>. QED
  BY <1>1, <1>2, <1>3, <1>4, <1>5, <1>6, <1>7, <1>8, <1>9, <1>10, <1>11, <1>12,
     <1>13, <1>14, <1>15, <1>16, <1>17, <1>18, <1>19, <1>20, <1>21, <1>22, <1>23
  DEF Next, Runs, Connection

\* The variables of the daemon and of its environment keep the values they are
\* meant to have.
THEOREM TypeCorrect == Spec => []TypeOK
<1>1. Init => TypeOK
  BY BoundAssumption DEF Init, TypeOK, FirstId, InProgress, Waiters
<1>. QED  BY <1>1, TypeStep, PTL DEF Spec

-------------------------------------------------------------------------------
(***************************************************************************)
(* The waiter maps. WaitersAreExact is not inductive: that an insertion    *)
(* replaces nobody's waiter and a removal takes away nobody else's needs   *)
(* the ids drawn so far to be behind the counter and to differ.            *)
(***************************************************************************)
IdsBehind ==
    /\ \A w \in pending \cup pending_json : w.id < next_id
    /\ \A c \in Tasks : Registered(c) => id[c] < next_id

IdsDiffer ==
    \A c, d \in Tasks : Registered(c) /\ Registered(d) /\ id[c] = id[d] => c = d

\* No answer comes for an id that is not drawn yet.
UnaskedUnanswered ==
    \A c \in Tasks : pc[c] \in {"idle", "backlog", "accepted"} => mail[c] = None

WaiterParts ==
    WaiterOfEach /\ TaskOfEach /\ OnePerId /\ IdsBehind /\ IdsDiffer /\ UnaskedUnanswered
WaiterInv == TypeOK /\ WaiterParts

\* The task an answer wakes is one whose request has the answer's id, in either
\* map: Daemon.deliver looks the id up, and CHOOSE finds the one waiter with it.
LEMMA WokenHasId ==
    ASSUME WaiterInv, NEW m, NEW d \in Woken(m)
    PROVE  /\ d \in Tasks /\ Registered(d) /\ id[d] = m.id
           /\ \E w \in pending \cup pending_json : w.id = m.id /\ w.task = d
<1>. USE DEF WaiterInv, TypeOK, Waiters
<1>1. CASE Waiting(pending_json, m.id)
  <2>1. PICK w \in pending_json : w.id = m.id /\ w.task = d
    BY <1>1 DEF Woken, Waiting, Waiter
  <2>. QED  BY <2>1 DEF WaiterParts, TaskOfEach
<1>2. CASE ~Waiting(pending_json, m.id)
  <2>1. PICK w \in pending : w.id = m.id /\ w.task = d
    BY <1>2 DEF Woken, Waiting, Waiter
  <2>. QED  BY <2>1 DEF WaiterParts, TaskOfEach
<1>. QED  BY <1>1, <1>2

\* Nobody waits when the daemon first starts.
LEMMA WaiterInit == Init => WaiterInv
<1>1. Init => TypeOK
  BY BoundAssumption DEF Init, TypeOK, FirstId, InProgress, Waiters
<1>2. Init => WaiterParts
  BY DEF Init, WaiterParts, WaiterOfEach, TaskOfEach, OnePerId, IdsBehind, IdsDiffer,
         UnaskedUnanswered, Registered
<1>. QED  BY <1>1, <1>2 DEF WaiterInv

\* Each step keeps the maps exact: what an insertion replaces and a removal takes
\* away is the waiter of the task that takes the step, or of the one it wakes.
LEMMA WaiterStep == WaiterInv /\ [Next]_vars => WaiterInv'
<1>. SUFFICES ASSUME WaiterInv, TypeOK', [Next]_vars
              PROVE  WaiterParts'
  BY TypeStep DEF WaiterInv
<1>. USE DEF WaiterInv, WaiterParts, WaiterOfEach, TaskOfEach, OnePerId, IdsBehind,
             IdsDiffer, UnaskedUnanswered, Registered, MapOf
<1>1. ASSUME NEW c \in Tasks, PamConnects(c)
      PROVE  WaiterParts'
  BY <1>1 DEF PamConnects, netVars, phoneVars, taskVars
<1>2. ASSUME NEW c \in Tasks, AcceptPam(c)
      PROVE  WaiterParts'
  BY <1>2 DEF AcceptPam, netVars, phoneVars, taskVars
<1>3. ASSUME NEW c \in Tasks, NoDevice(c)
      PROVE  WaiterParts'
  BY <1>3 DEF NoDevice, netVars, phoneVars, taskVars
<1>4. ASSUME NEW c \in Tasks, RunVerification(c)
      PROVE  WaiterParts'
  <2>1. WaiterOfEach'
    BY <1>4 DEF RunVerification, Insert, TypeOK, Waiters
  <2>2. TaskOfEach'
    BY <1>4 DEF RunVerification, Insert, TypeOK, Waiters
  <2>3. OnePerId'
    BY <1>4 DEF RunVerification, Insert, TypeOK, Waiters
  <2>4. IdsBehind' /\ IdsDiffer' /\ UnaskedUnanswered'
    BY <1>4 DEF RunVerification, Insert, TypeOK, Waiters
  <2>. QED  BY <2>1, <2>2, <2>3, <2>4
<1>5. ASSUME NEW c \in Tasks, AskPhone(c)
      PROVE  WaiterParts'
  <2>1. WaiterOfEach'
    BY <1>5 DEF AskPhone, Insert, TypeOK, Waiters
  <2>2. TaskOfEach'
    BY <1>5 DEF AskPhone, Insert, TypeOK, Waiters
  <2>3. OnePerId'
    BY <1>5 DEF AskPhone, Insert, TypeOK, Waiters
  <2>4. IdsBehind' /\ IdsDiffer' /\ UnaskedUnanswered'
    BY <1>5 DEF AskPhone, Insert, TypeOK, Waiters
  <2>. QED  BY <2>1, <2>2, <2>3, <2>4
<1>6. ASSUME NEW c \in Tasks, LockOutbound(c)
      PROVE  WaiterParts'
  BY <1>6 DEF LockOutbound, netVars, phoneVars, taskVars
<1>7. ASSUME NEW c \in Tasks, SendLine(c)
      PROVE  WaiterParts'
  BY <1>7 DEF SendLine, netVars, phoneVars, taskVars
<1>8. ASSUME NEW c \in Tasks, SendFails(c)
      PROVE  WaiterParts'
  <2>1. WaiterOfEach'
    BY <1>8 DEF SendFails, GiveUp, Remove, TypeOK, Waiters
  <2>2. ASSUME NEW w \in pending' \cup pending_json'
        PROVE  w \in pending \cup pending_json /\ w.task # c
    BY <1>8 DEF SendFails, GiveUp, Remove
  <2>3. TaskOfEach'
    BY <1>8, <2>2 DEF SendFails, GiveUp, Remove, TypeOK, Waiters
  <2>4. OnePerId'
    BY <2>2
  <2>5. IdsBehind' /\ IdsDiffer' /\ UnaskedUnanswered'
    BY <1>8 DEF SendFails, GiveUp, Remove, TypeOK, Waiters
  <2>. QED  BY <2>1, <2>3, <2>4, <2>5
<1>9. ASSUME NEW c \in Tasks, Timeout(c)
      PROVE  WaiterParts'
  <2>1. WaiterOfEach'
    BY <1>9 DEF Timeout, GiveUp, Remove, TypeOK, Waiters
  <2>2. ASSUME NEW w \in pending' \cup pending_json'
        PROVE  w \in pending \cup pending_json /\ w.task # c
    BY <1>9 DEF Timeout, GiveUp, Remove
  <2>3. TaskOfEach'
    BY <1>9, <2>2 DEF Timeout, GiveUp, Remove, TypeOK, Waiters
  <2>4. OnePerId'
    BY <2>2
  <2>5. IdsBehind' /\ IdsDiffer' /\ UnaskedUnanswered'
    BY <1>9 DEF Timeout, GiveUp, Remove, TypeOK, Waiters
  <2>. QED  BY <2>1, <2>3, <2>4, <2>5
<1>10. ASSUME NEW c \in Tasks, Resume(c)
      PROVE  WaiterParts'
  BY <1>10 DEF Resume, netVars, phoneVars, taskVars
<1>11. ASSUME NEW c \in Tasks, Answer(c)
      PROVE  WaiterParts'
  BY <1>11 DEF Answer, netVars, phoneVars, taskVars
<1>12. ASSUME NEW k \in Conns, PhoneConnects(k)
      PROVE  WaiterParts'
  BY <1>12 DEF PhoneConnects, netVars, phoneVars, taskVars
<1>13. ASSUME NEW k \in Conns, AcceptPhone(k)
      PROVE  WaiterParts'
  BY <1>13 DEF AcceptPhone, netVars, phoneVars, taskVars
<1>14. ASSUME NEW k \in Conns, AdoptPhone(k)
      PROVE  WaiterParts'
  BY <1>14 DEF AdoptPhone, netVars, phoneVars, taskVars
<1>15. ASSUME NEW k \in Conns, ReaderEnds(k)
      PROVE  WaiterParts'
  BY <1>15 DEF ReaderEnds, netVars, phoneVars, taskVars
<1>16. ASSUME NEW k \in Conns, Break(k)
      PROVE  WaiterParts'
  BY <1>16 DEF Break, netVars, phoneVars, taskVars
<1>17. ASSUME NEW k \in Conns, PhoneReads(k)
      PROVE  WaiterParts'
  BY <1>17 DEF PhoneReads, netVars, phoneVars, taskVars
<1>18. ASSUME NEW k \in Conns, NEW m \in PossibleReplies, Receive(k, m)
       PROVE  WaiterParts'
  <2>1. \A d \in Woken(m) :
          /\ d \in Tasks /\ Registered(d) /\ id[d] = m.id
          /\ \E w \in pending \cup pending_json : w.id = m.id /\ w.task = d
    BY WokenHasId
  <2>2. /\ UNCHANGED <<next_id, pc, id>>
        /\ mail' = [d \in Tasks |-> IF d \in Woken(m) THEN m ELSE mail[d]]
        /\ m # None
        /\ pending' \subseteq pending /\ pending_json' \subseteq pending_json
    BY <1>18, RepliesAreTyped DEF Receive, Deliver, Remove
  <2>3. ASSUME NEW w \in pending \cup pending_json
        PROVE  w \in pending' \cup pending_json' <=> w.task \notin Woken(m)
    <3>1. CASE w.id # m.id
      BY <1>18, <2>1, <3>1 DEF Receive, Deliver, Remove
    <3>2. CASE w.id = m.id /\ w \in pending_json
      <4>1. Waiting(pending_json, m.id) /\ Waiter(pending_json, m.id) = w.task
        BY <3>2 DEF Waiting, Waiter
      <4>. QED  BY <1>18, <3>2, <4>1 DEF Receive, Deliver, Remove, Woken
    <3>3. CASE w.id = m.id /\ w \in pending
      <4>1. ~Waiting(pending_json, m.id)
        BY <3>3 DEF Waiting
      <4>2. Waiting(pending, m.id) /\ Waiter(pending, m.id) = w.task
        BY <3>3 DEF Waiting, Waiter
      <4>3. m.kind \in {"sig", "denied", "cred"}
        BY RepliesAreTyped DEF Replies
      <4>. QED  BY <1>18, <3>3, <4>1, <4>2, <4>3 DEF Receive, Deliver, Remove, Woken
    <3>. QED  BY <3>1, <3>2, <3>3
  <2>4. WaiterOfEach'
    BY <2>2, <2>3 DEF TypeOK
  <2>5. TaskOfEach'
    <3>. SUFFICES ASSUME NEW w \in pending' \cup pending_json'
                  PROVE  /\ Registered(w.task)' /\ mail'[w.task] = None
                         /\ id'[w.task] = w.id
                         /\ w \in pending' <=> Op[w.task] = "verify"
                         /\ w \in pending_json' <=> Op[w.task] # "verify"
      OBVIOUS
    <3>1. w \in pending \cup pending_json /\ w.task \in Tasks
      BY <2>2 DEF TypeOK, Waiters
    <3>2. w.task \notin Woken(m)
      BY <2>3, <3>1
    <3>. QED  BY <2>2, <3>1, <3>2 DEF TypeOK
  <2>6. OnePerId' /\ IdsBehind' /\ IdsDiffer' /\ UnaskedUnanswered'
    BY <2>1, <2>2 DEF TypeOK
  <2>. QED  BY <2>4, <2>5, <2>6
<1>19. ASSUME NEW k \in Keys, NEW line \in seen, Sign(k, line)
       PROVE  WaiterParts'
  BY <1>19 DEF Sign, taskVars, netVars
<1>20. ASSUME NEW k \in Keys, NEW now \in Times, SaveDevice(k, now)
       PROVE  WaiterParts'
  BY <1>20 DEF SaveDevice, taskVars, netVars, phoneVars
<1>21. ASSUME NEW k \in Keys, RemoveDevice(k)
       PROVE  WaiterParts'
  BY <1>21 DEF RemoveDevice, taskVars, netVars, phoneVars
<1>22. CASE Restart
  BY <1>22 DEF Restart, TypeOK, InProgress
<1>23. CASE UNCHANGED vars
  BY <1>23 DEF vars, taskVars, netVars, phoneVars
<1>. QED
  BY <1>1, <1>2, <1>3, <1>4, <1>5, <1>6, <1>7, <1>8, <1>9, <1>10, <1>11, <1>12,
     <1>13, <1>14, <1>15, <1>16, <1>17, <1>18, <1>19, <1>20, <1>21, <1>22, <1>23
  DEF Next, Runs, Connection

\* Every waiter in a map belongs to a task still waiting for an answer, and every
\* such task has its waiter: no answer is lost, none leaks, whatever the order of
\* answers, timeouts, failed sends and restarts.
THEOREM WaitersCorrect == Spec => []WaitersAreExact
<1>1. WaiterInv => WaitersAreExact
  BY DEF WaiterInv, WaiterParts, WaitersAreExact
<1>. QED  BY <1>1, WaiterInit, WaiterStep, PTL DEF Spec

-------------------------------------------------------------------------------
(***************************************************************************)
(* Approvals. A verdict rests on a value in the task's mailbox, and a      *)
(* signature there is one the phone made; a phone can only have read what  *)
(* some task had sent, and a task draws its challenge once.                *)
(***************************************************************************)
Unasked(c) == pc[c] \in {"idle", "backlog", "accepted"}

MailIsSigned ==
    \A c \in Tasks : mail[c] # None /\ mail[c].kind = "sig" => mail[c].sig \in signed

VerdictIsLate ==
    \A c \in Tasks : verdict[c] = "ok" => pc[c] \in {"reply", "done", "gone"}

\* No line carries the challenge of a task that has not asked.
LinesAreSent ==
    /\ \A k \in Conns : \A i \in DOMAIN wire[k] : ~Unasked(wire[k][i].challenge)
    /\ \A line \in seen : ~Unasked(line.challenge)
    /\ \A s \in signed : ~Unasked(s.line.challenge)

ApprovalParts == MailIsSigned /\ VerdictIsLate /\ ApprovedMeansSigned /\ LinesAreSent
ApprovalInv == TypeOK /\ ApprovalParts

\* Each step keeps what ApprovedMeansSigned rests on: where signatures come from,
\* when a verdict may stand, and which requests are on their way.
LEMMA ApprovalStep == ApprovalInv /\ [Next]_vars => ApprovalInv'
<1>. SUFFICES ASSUME ApprovalInv, TypeOK', [Next]_vars
              PROVE  ApprovalParts'
  BY TypeStep DEF ApprovalInv
<1>. USE DEF ApprovalInv, ApprovalParts, MailIsSigned, VerdictIsLate, ApprovedMeansSigned,
             LinesAreSent, Unasked, Verifiers
<1>1. ASSUME NEW c \in Tasks, PamConnects(c)
      PROVE  ApprovalParts'
  BY <1>1 DEF PamConnects, Line, TypeOK, netVars, phoneVars, taskVars
<1>2. ASSUME NEW c \in Tasks, AcceptPam(c)
      PROVE  ApprovalParts'
  BY <1>2 DEF AcceptPam, Line, TypeOK, netVars, phoneVars, taskVars
<1>3. ASSUME NEW c \in Tasks, NoDevice(c)
      PROVE  ApprovalParts'
  BY <1>3 DEF NoDevice, Line, TypeOK, netVars, phoneVars, taskVars
<1>4. ASSUME NEW c \in Tasks, RunVerification(c)
      PROVE  ApprovalParts'
  BY <1>4 DEF RunVerification, Line, TypeOK, netVars, phoneVars, taskVars
<1>5. ASSUME NEW c \in Tasks, AskPhone(c)
      PROVE  ApprovalParts'
  BY <1>5 DEF AskPhone, Line, TypeOK, netVars, phoneVars, taskVars
<1>6. ASSUME NEW c \in Tasks, LockOutbound(c)
      PROVE  ApprovalParts'
  BY <1>6 DEF LockOutbound, Line, TypeOK, netVars, phoneVars, taskVars
<1>7. ASSUME NEW c \in Tasks, SendLine(c)
      PROVE  ApprovalParts'
  BY <1>7 DEF SendLine, Line, Lines, Line, TypeOK, netVars, phoneVars, taskVars
<1>8. ASSUME NEW c \in Tasks, SendFails(c)
      PROVE  ApprovalParts'
  BY <1>8 DEF SendFails, GiveUp, Line, TypeOK, netVars, phoneVars, taskVars
<1>9. ASSUME NEW c \in Tasks, Timeout(c)
      PROVE  ApprovalParts'
  BY <1>9 DEF Timeout, GiveUp, Line, TypeOK, netVars, phoneVars, taskVars
<1>10. ASSUME NEW c \in Tasks, Resume(c)
      PROVE  ApprovalParts'
  <2>1. MailIsSigned' /\ VerdictIsLate' /\ LinesAreSent'
    BY <1>10 DEF Resume, TypeOK, netVars, phoneVars
  <2>2. ASSUME Op[c] = "verify", Accepts(c, mail[c])
        PROVE  [key |-> key[c], line |-> Line(c)] \in signed
    BY <1>10, <2>2 DEF Resume, Accepts, Verifies
  <2>3. ApprovedMeansSigned'
    BY <1>10, <2>2 DEF Resume, Line, TypeOK, netVars, phoneVars
  <2>. QED  BY <2>1, <2>2, <2>3
<1>11. ASSUME NEW c \in Tasks, Answer(c)
      PROVE  ApprovalParts'
  BY <1>11 DEF Answer, Line, TypeOK, netVars, phoneVars, taskVars
<1>12. ASSUME NEW k \in Conns, PhoneConnects(k)
      PROVE  ApprovalParts'
  BY <1>12 DEF PhoneConnects, Line, TypeOK, netVars, phoneVars, taskVars
<1>13. ASSUME NEW k \in Conns, AcceptPhone(k)
      PROVE  ApprovalParts'
  BY <1>13 DEF AcceptPhone, Line, TypeOK, netVars, phoneVars, taskVars
<1>14. ASSUME NEW k \in Conns, AdoptPhone(k)
      PROVE  ApprovalParts'
  BY <1>14 DEF AdoptPhone, Line, TypeOK, netVars, phoneVars, taskVars
<1>15. ASSUME NEW k \in Conns, ReaderEnds(k)
      PROVE  ApprovalParts'
  BY <1>15 DEF ReaderEnds, Line, TypeOK, netVars, phoneVars, taskVars
<1>16. ASSUME NEW k \in Conns, Break(k)
      PROVE  ApprovalParts'
  BY <1>16 DEF Break, Line, TypeOK, netVars, phoneVars, taskVars
<1>17. ASSUME NEW k \in Conns, PhoneReads(k)
      PROVE  ApprovalParts'
  BY <1>17 DEF PhoneReads, Line, TypeOK, netVars, phoneVars, taskVars
<1>18. ASSUME NEW k \in Conns, NEW m \in PossibleReplies, Receive(k, m)
       PROVE  ApprovalParts'
  BY <1>18, RepliesAreTyped DEF Receive, Deliver, PossibleReplies, Line, TypeOK, netVars, phoneVars
<1>19. ASSUME NEW k \in Keys, NEW line \in seen, Sign(k, line)
       PROVE  ApprovalParts'
  BY <1>19 DEF Sign, Line, TypeOK, taskVars, netVars
<1>20. ASSUME NEW k \in Keys, NEW now \in Times, SaveDevice(k, now)
       PROVE  ApprovalParts'
  BY <1>20 DEF SaveDevice, Line, taskVars, netVars, phoneVars
<1>21. ASSUME NEW k \in Keys, RemoveDevice(k)
       PROVE  ApprovalParts'
  BY <1>21 DEF RemoveDevice, Line, taskVars, netVars, phoneVars
<1>22. CASE Restart
  <2>1. /\ \A c \in Tasks : pc'[c] = IF pc[c] \in InProgress THEN "gone" ELSE pc[c]
        /\ mail' = [c \in Tasks |-> None]
        /\ UNCHANGED <<id, key, verdict, wire, seen, signed>>
    BY <1>22 DEF Restart, TypeOK, phoneVars
  <2>2. MailIsSigned' /\ ApprovedMeansSigned'
    BY <2>1 DEF Line
  <2>3. VerdictIsLate'
    BY <2>1 DEF InProgress
  <2>4. \A c \in Tasks : ~Unasked(c) => ~Unasked(c)'
    BY <2>1 DEF InProgress
  <2>5. LinesAreSent'
    <3>1. ASSUME NEW k \in Conns, NEW i \in DOMAIN wire[k]
          PROVE  ~Unasked(wire[k][i].challenge)'
      <4>1. wire[k] \in Seq(Lines)
        BY DEF TypeOK
      <4>2. wire[k] \in [1..Len(wire[k]) -> Lines] /\ i \in 1..Len(wire[k])
        BY <4>1
      <4>3. wire[k][i].challenge \in Tasks
        BY <4>2 DEF Lines
      <4>. QED  BY <2>1, <2>4, <4>3
    <3>2. ASSUME NEW line \in seen
          PROVE  ~Unasked(line.challenge)'
      BY <2>1, <2>4 DEF TypeOK, Lines
    <3>3. ASSUME NEW s \in signed
          PROVE  ~Unasked(s.line.challenge)'
      BY <2>1, <2>4 DEF TypeOK, Lines, Signatures
    <3>. QED  BY <2>1, <3>1, <3>2, <3>3
  <2>. QED  BY <2>2, <2>3, <2>5
<1>23. CASE UNCHANGED vars
  BY <1>23 DEF vars, Line, taskVars, netVars, phoneVars
<1>. QED
  BY <1>1, <1>2, <1>3, <1>4, <1>5, <1>6, <1>7, <1>8, <1>9, <1>10, <1>11, <1>12,
     <1>13, <1>14, <1>15, <1>16, <1>17, <1>18, <1>19, <1>20, <1>21, <1>22, <1>23
  DEF Next, Runs, Connection

\* And nothing is signed, sent or approved when the daemon first starts.
LEMMA ApprovalInit == Init => ApprovalInv
<1>1. Init => TypeOK
  BY BoundAssumption DEF Init, TypeOK, FirstId, InProgress, Waiters
<1>2. Init => ApprovalParts
  BY DEF Init, ApprovalParts, MailIsSigned, VerdictIsLate, ApprovedMeansSigned,
         LinesAreSent, Verifiers
<1>. QED  BY <1>1, <1>2 DEF ApprovalInv

\* A verification succeeds only with a signature over that very request under the
\* key that was active when it was made, whatever the phone or the network replays
\* and however often the daemon restarts and hands out the same ids again.
THEOREM ApprovalCorrect == Spec => []ApprovedMeansSigned
<1>1. ApprovalInv => ApprovedMeansSigned
  BY DEF ApprovalInv, ApprovalParts
<1>. QED  BY <1>1, ApprovalInit, ApprovalStep, PTL DEF Spec

-------------------------------------------------------------------------------
(***************************************************************************)
(* Ids. What any step does to the counter, to the ids of tasks and to the  *)
(* lines under way, then two things that follow: ids stay within the       *)
(* number of tasks, and one process never gives an id twice.               *)
(***************************************************************************)
Asked == {c \in Tasks : ~Unasked(c)}

\* The request lines under way or read.
Sent == seen \cup {line \in Lines : \E k \in Conns : \E i \in DOMAIN wire[k] : wire[k][i] = line}

Draws(c) ==
    /\ Unasked(c) /\ ~Unasked(c)'
    /\ next_id' = next_id + 1
    /\ id' = [id EXCEPT ![c] = next_id]
    /\ \A d \in Tasks \ {c} : pc'[d] = pc[d]
    /\ UNCHANGED <<wire, seen, restarts>>

DrawsNothing ==
    /\ UNCHANGED <<next_id, id, restarts>>
    /\ \A c \in Tasks : Registered(c)' => Registered(c)

\* A step draws one id, or none, or starts the process again; nobody who has asked
\* is ever back where it had not.
LEMMA StepDraws ==
    ASSUME TypeOK, [Next]_vars
    PROVE  /\ Asked \subseteq Asked'
           /\ \/ DrawsNothing
              \/ \E c \in Tasks : Draws(c)
              \/ Restart
<1>. USE DEF TypeOK, Asked, Unasked, Registered, DrawsNothing
<1>1. ASSUME NEW c \in Tasks,
             \/ PamConnects(c) \/ AcceptPam(c) \/ NoDevice(c)
             \/ LockOutbound(c) \/ Resume(c) \/ Answer(c)
      PROVE  Asked \subseteq Asked' /\ DrawsNothing
  BY <1>1 DEF PamConnects, AcceptPam, NoDevice, LockOutbound, Resume, Answer
<1>2. ASSUME NEW c \in Tasks, SendLine(c) \/ SendFails(c) \/ Timeout(c)
      PROVE  Asked \subseteq Asked' /\ DrawsNothing
  BY <1>2 DEF SendLine, SendFails, Timeout, GiveUp
<1>3. ASSUME NEW c \in Tasks, RunVerification(c) \/ AskPhone(c)
      PROVE  Asked \subseteq Asked' /\ Draws(c)
  BY <1>3 DEF RunVerification, AskPhone, Draws, netVars, phoneVars
<1>4. ASSUME NEW k \in Conns, Connection(k)
      PROVE  Asked \subseteq Asked' /\ DrawsNothing
  BY <1>4 DEF Connection, PhoneConnects, AcceptPhone, AdoptPhone, ReaderEnds, Break,
              PhoneReads, taskVars
<1>5. ASSUME NEW k \in Conns, NEW m \in PossibleReplies, Receive(k, m)
      PROVE  Asked \subseteq Asked' /\ DrawsNothing
  BY <1>5 DEF Receive
<1>6. ASSUME NEW k \in Keys,
             \/ \E line \in seen : Sign(k, line)
             \/ \E now \in Times : SaveDevice(k, now)
             \/ RemoveDevice(k)
      PROVE  Asked \subseteq Asked' /\ DrawsNothing
  BY <1>6 DEF Sign, SaveDevice, RemoveDevice, taskVars
<1>7. CASE Restart
  BY <1>7 DEF Restart, InProgress
<1>8. CASE UNCHANGED vars
  BY <1>8 DEF vars, taskVars
<1>. QED
  BY <1>1, <1>2, <1>3, <1>4, <1>5, <1>6, <1>7, <1>8 DEF Next, Runs

\* What is sent was sent before, or is the request of the task inside send_line.
LEMMA StepSends ==
    ASSUME TypeOK, [Next]_vars
    PROVE  Sent' \subseteq Sent \cup {Line(c) : c \in {d \in Tasks : pc[d] = "write"}}
<1>. USE DEF TypeOK, Sent
<1>1. ASSUME NEW c \in Tasks, SendLine(c)
      PROVE  Sent' \subseteq Sent \cup {Line(c)} /\ pc[c] = "write"
  <2>1. /\ pc[c] = "write" /\ seen' = seen /\ outbound \in Conns
        /\ wire' = [wire EXCEPT ![outbound] = Append(@, Line(c))]
    BY <1>1 DEF SendLine, phoneVars
  <2>2. ASSUME NEW k \in Conns, NEW i \in DOMAIN wire'[k]
        PROVE  wire'[k][i] = Line(c) \/ (i \in DOMAIN wire[k] /\ wire'[k][i] = wire[k][i])
    BY <2>1
  <2>. QED  BY <2>1, <2>2
<1>2. ASSUME NEW k \in Conns, Break(k)
      PROVE  Sent' \subseteq Sent
  <2>1. PICK n \in 0..Len(wire[k]) : wire' = [wire EXCEPT ![k] = SubSeq(@, 1, n)]
    BY <1>2 DEF Break
  <2>2. ASSUME NEW j \in Conns, NEW i \in DOMAIN wire'[j]
        PROVE  i \in DOMAIN wire[j] /\ wire'[j][i] = wire[j][i]
    BY <2>1
  <2>. QED  BY <1>2, <2>2 DEF Break, phoneVars
<1>3. ASSUME NEW k \in Conns, PhoneReads(k)
      PROVE  Sent' \subseteq Sent
  <2>1. /\ wire[k] # <<>> /\ seen' = seen \cup {Head(wire[k])}
        /\ wire' = [wire EXCEPT ![k] = Tail(@)]
    BY <1>3 DEF PhoneReads
  <2>2. 1 \in DOMAIN wire[k] /\ Head(wire[k]) = wire[k][1] /\ wire[k][1] \in Lines
    BY <2>1
  <2>3. ASSUME NEW j \in Conns, NEW i \in DOMAIN wire'[j]
        PROVE  \E h \in DOMAIN wire[j] : wire'[j][i] = wire[j][h]
    <3>1. CASE j = k
      <4>1. i + 1 \in DOMAIN wire[j] /\ wire'[j][i] = wire[j][i + 1]
        BY <2>1, <3>1
      <4>. QED  BY <4>1
    <3>2. CASE j # k
      BY <2>1, <3>2
    <3>. QED  BY <3>1, <3>2
  <2>. QED  BY <2>1, <2>2, <2>3
<1>4. CASE UNCHANGED <<wire, seen>>
  BY <1>4
<1>5. ASSUME NEW c \in Tasks, PamConnects(c) \/ Runs(c)
      PROVE  UNCHANGED <<wire, seen>> \/ SendLine(c)
  BY <1>5 DEF Runs, PamConnects, AcceptPam, NoDevice, RunVerification, AskPhone,
              LockOutbound, SendFails, Timeout, Resume, Answer, netVars, phoneVars
<1>6. ASSUME NEW k \in Conns, Connection(k)
      PROVE  UNCHANGED <<wire, seen>> \/ Break(k) \/ PhoneReads(k)
  BY <1>6 DEF Connection, PhoneConnects, AcceptPhone, AdoptPhone, ReaderEnds, phoneVars
<1>7. ASSUME NEW k \in Conns, NEW m \in PossibleReplies, Receive(k, m)
      PROVE  UNCHANGED <<wire, seen>>
  BY <1>7 DEF Receive, netVars, phoneVars
<1>8. ASSUME NEW k \in Keys,
             \/ \E line \in seen : Sign(k, line)
             \/ \E now \in Times : SaveDevice(k, now)
             \/ RemoveDevice(k)
      PROVE  UNCHANGED <<wire, seen>>
  BY <1>8 DEF Sign, SaveDevice, RemoveDevice, netVars, phoneVars
<1>9. ASSUME Restart \/ UNCHANGED vars
      PROVE  UNCHANGED <<wire, seen>>
  BY <1>9 DEF Restart, vars, netVars, phoneVars
<1>10. \/ UNCHANGED <<wire, seen>>
       \/ \E c \in Tasks : SendLine(c)
       \/ \E k \in Conns : Break(k) \/ PhoneReads(k)
  BY <1>5, <1>6, <1>7, <1>8, <1>9 DEF Next
<1>. HIDE DEF TypeOK, Sent
<1>. QED  BY <1>1, <1>2, <1>3, <1>4, <1>10

\* PossibleReplies gives an answer any id up to the number of tasks. There is no
\* other: each id is drawn by a task that has not asked before.
IdsFit ==
    /\ next_id <= 1 + Cardinality(Asked)
    /\ \A c \in Tasks : id[c] <= Cardinality(Tasks) /\ (Registered(c) => id[c] # 0)
    /\ \A line \in Sent : line.id \in 1..Cardinality(Tasks)

LEMMA IdsFitInit == IsFiniteSet(Tasks) /\ Init => IdsFit
<1>. SUFFICES ASSUME IsFiniteSet(Tasks), Init
              PROVE  IdsFit
  OBVIOUS
<1>1. Asked = {} /\ Sent = {}
  BY DEF Init, Asked, Unasked, Sent
<1>2. Cardinality(Tasks) \in Nat /\ Cardinality({}) = 0
  BY FS_CardinalityType, FS_EmptySet
<1>. QED  BY <1>1, <1>2 DEF Init, IdsFit, FirstId, Registered

\* Each step keeps every id within the number of tasks.
LEMMA IdsFitStep ==
    ASSUME IsFiniteSet(Tasks), TypeOK, IdsFit, [Next]_vars
    PROVE  IdsFit'
<1>. DEFINE N == Cardinality(Tasks)
<1>1. /\ Asked \subseteq Tasks /\ Asked' \subseteq Tasks /\ Asked \subseteq Asked'
      /\ \/ DrawsNothing
         \/ \E c \in Tasks : Draws(c)
         \/ Restart
  BY StepDraws DEF Asked
<1>2. /\ IsFiniteSet(Asked) /\ IsFiniteSet(Asked')
      /\ N \in Nat /\ Cardinality(Asked) \in Nat /\ Cardinality(Asked') \in Nat
  BY <1>1, FS_Subset, FS_CardinalityType
<1>3. Cardinality(Asked) <= Cardinality(Asked')
  BY <1>1, <1>2, FS_Subset
<1>4. ASSUME NEW c \in Tasks, Draws(c)
      PROVE  Cardinality(Asked) + 1 <= Cardinality(Asked') /\ Cardinality(Asked) + 1 <= N
  <2>1. c \notin Asked /\ Asked \cup {c} \subseteq Asked' /\ Asked \cup {c} \subseteq Tasks
    BY <1>1, <1>4 DEF Draws, Asked
  <2>2. Cardinality(Asked \cup {c}) = Cardinality(Asked) + 1
    BY <1>2, <2>1, FS_AddElement
  <2>3. /\ Cardinality(Asked \cup {c}) <= Cardinality(Asked')
        /\ Cardinality(Asked \cup {c}) <= N
    BY <1>2, <2>1, FS_Subset
  <2>. QED  BY <2>2, <2>3
<1>. HIDE DEF N
<1>5. (next_id <= 1 + Cardinality(Asked))'
  <2>1. next_id \in Nat /\ next_id <= 1 + Cardinality(Asked)
    BY DEF TypeOK, IdsFit
  <2>2. CASE DrawsNothing
    BY <1>2, <1>3, <2>1, <2>2 DEF DrawsNothing
  <2>3. ASSUME NEW c \in Tasks, Draws(c)
        PROVE  (next_id <= 1 + Cardinality(Asked))'
    <3>1. next_id' = next_id + 1
      BY <2>3 DEF Draws
    <3>2. Cardinality(Asked) + 1 <= Cardinality(Asked')
      BY <1>4, <2>3
    <3>. QED  BY <1>2, <2>1, <3>1, <3>2
  <2>4. CASE Restart
    BY <1>2, <2>4 DEF Restart, FirstId
  <2>. QED  BY <1>1, <2>2, <2>3, <2>4
<1>6. ASSUME NEW c \in Tasks
      PROVE  (id[c] <= N /\ (Registered(c) => id[c] # 0))'
  <2>1. id[c] \in Nat /\ id[c] <= N /\ (Registered(c) => id[c] # 0)
    BY DEF TypeOK, IdsFit, N
  <2>2. CASE DrawsNothing
    BY <2>1, <2>2 DEF DrawsNothing, N
  <2>3. ASSUME NEW d \in Tasks, Draws(d)
        PROVE  (id[c] <= N /\ (Registered(c) => id[c] # 0))'
    <3>1. next_id \in Nat \ {0} /\ next_id <= N
      <4>1. next_id \in Nat \ {0} /\ next_id <= 1 + Cardinality(Asked)
        BY DEF TypeOK, IdsFit
      <4>2. Cardinality(Asked) + 1 <= N
        BY <1>4, <2>3
      <4>. QED  BY <1>2, <4>1, <4>2
    <3>. QED  BY <2>1, <2>3, <3>1 DEF Draws, Registered, TypeOK, N
  <2>4. CASE Restart
    BY <2>1, <2>4 DEF Restart, Registered, InProgress, TypeOK, N
  <2>. QED  BY <1>1, <2>2, <2>3, <2>4
<1>7. ASSUME NEW line \in Sent'
      PROVE  line.id \in 1..N
  <2>1. CASE line \in Sent
    BY <2>1 DEF IdsFit, N
  <2>2. ASSUME NEW c \in Tasks, pc[c] = "write", line = Line(c)
        PROVE  line.id \in 1..N
    BY <1>2, <2>2 DEF IdsFit, N, Line, Registered, TypeOK
  <2>. QED  BY <2>1, <2>2, StepSends
<1>. QED  BY <1>5, <1>6, <1>7 DEF IdsFit, N

\* Until it restarts the daemon gives no id twice, so a line under way is the
\* request of the task whose challenge it carries, and no other has its id.
IdsOnce ==
    restarts = 0 =>
      /\ \A c \in Tasks : id[c] < next_id /\ (Unasked(c) => id[c] = 0)
      /\ \A c \in Tasks : Registered(c) => id[c] # 0
      /\ \A c, d \in Tasks : id[c] = id[d] /\ id[c] # 0 => c = d
      /\ \A line \in Sent : line = Line(line.challenge) /\ line.id # 0

LEMMA IdsOnceInit == Init => IdsOnce
BY DEF Init, IdsOnce, FirstId, Sent, Unasked, Registered

\* Each step keeps the ids of one process apart.
LEMMA IdsOnceStep ==
    ASSUME TypeOK, IdsOnce, [Next]_vars
    PROVE  IdsOnce'
<1>1. Asked \subseteq Asked'
  BY StepDraws
<1>2. \A c \in Tasks : Unasked(c)' => Unasked(c)
  BY <1>1 DEF Asked
<1>3. CASE Restart
  BY <1>3 DEF Restart, IdsOnce, TypeOK
<1>4. \A line \in Sent' :
        line \in Sent \/ \E c \in Tasks : Registered(c) /\ line = Line(c)
  BY StepSends DEF Registered
<1>5. \A line \in Sent : line \in Lines /\ line.challenge \in Tasks
  BY DEF Sent, TypeOK, Lines
<1>6. CASE DrawsNothing
  <2>. SUFFICES ASSUME restarts = 0
                PROVE  IdsOnce'
    BY <1>6 DEF DrawsNothing, IdsOnce
  <2>1. \A line \in Sent' : line = Line(line.challenge)' /\ line.id # 0
    BY <1>4, <1>6 DEF DrawsNothing, IdsOnce, Line
  <2>. QED  BY <1>2, <1>6, <2>1 DEF DrawsNothing, IdsOnce
<1>7. ASSUME NEW c \in Tasks, Draws(c)
      PROVE  IdsOnce'
  <2>. SUFFICES ASSUME restarts = 0
                PROVE  IdsOnce'
    BY <1>7 DEF Draws, IdsOnce
  <2>1. /\ id[c] = 0 /\ next_id \in Nat \ {0}
        /\ id' = [id EXCEPT ![c] = next_id]
        /\ next_id' = next_id + 1
        /\ \A d \in Tasks : id[d] \in Nat /\ id[d] < next_id
    BY <1>7 DEF Draws, IdsOnce, TypeOK
  <2>2. \A d \in Tasks : (id[d] < next_id)' /\ (Unasked(d)' => id'[d] = 0)
    BY <1>2, <1>7, <2>1 DEF Draws, IdsOnce, TypeOK
  <2>3. \A d \in Tasks : Registered(d)' => id'[d] # 0
    BY <1>7, <2>1 DEF Draws, Registered, IdsOnce, TypeOK
  <2>4. \A d, e \in Tasks : id'[d] = id'[e] /\ id'[d] # 0 => d = e
    BY <2>1 DEF IdsOnce, TypeOK
  <2>5. ASSUME NEW line \in Sent'
        PROVE  line = Line(line.challenge)' /\ line.id # 0
    <3>1. line \in Sent
      BY <1>7 DEF Draws, Sent
    <3>2. line = Line(line.challenge) /\ line.id # 0 /\ line.challenge \in Tasks
      BY <1>5, <3>1 DEF IdsOnce
    <3>3. line.challenge # c
      BY <2>1, <3>2 DEF Line
    <3>4. Line(line.challenge)' = Line(line.challenge)
      BY <2>1, <3>2, <3>3 DEF Line, TypeOK
    <3>. QED  BY <3>2, <3>4
  <2>. QED  BY <2>2, <2>3, <2>4, <2>5 DEF IdsOnce
<1>. QED  BY <1>3, <1>6, <1>7, StepDraws

\* Only a connection that was opened is found broken, and an opened one never
\* becomes new again.
BrokenWereOpened == \A k \in broken : conn[k] # "new"

LEMMA BrokenStep ==
    ASSUME TypeOK, [Next]_vars
    PROVE  /\ \A k \in Conns : conn[k] # "new" => conn'[k] # "new"
           /\ BrokenWereOpened => BrokenWereOpened'
<1>. USE DEF TypeOK, BrokenWereOpened
<1>1. ASSUME NEW k \in Conns, Connection(k)
      PROVE  /\ \A j \in Conns : conn[j] # "new" => conn'[j] # "new"
             /\ broken' = broken \/ (broken' = broken \cup {k} /\ conn'[k] # "new")
  BY <1>1 DEF Connection, PhoneConnects, AcceptPhone, AdoptPhone, ReaderEnds, Break, PhoneReads
<1>2. ASSUME Restart
      PROVE  /\ \A j \in Conns : conn[j] # "new" => conn'[j] # "new"
             /\ broken' = broken \cup {j \in Conns : conn[j] # "new"}
  BY <1>2 DEF Restart
<1>3. ASSUME NEW c \in Tasks, PamConnects(c) \/ Runs(c)
      PROVE  UNCHANGED <<conn, broken>>
  BY <1>3 DEF Runs, PamConnects, AcceptPam, NoDevice, RunVerification, AskPhone,
              LockOutbound, SendLine, SendFails, Timeout, Resume, Answer, netVars
<1>4. ASSUME NEW k \in Conns, NEW m \in PossibleReplies, Receive(k, m)
      PROVE  UNCHANGED <<conn, broken>>
  BY <1>4 DEF Receive, netVars
<1>5. ASSUME NEW k \in Keys,
             \/ \E line \in seen : Sign(k, line)
             \/ \E now \in Times : SaveDevice(k, now)
             \/ RemoveDevice(k)
      PROVE  UNCHANGED <<conn, broken>>
  BY <1>5 DEF Sign, SaveDevice, RemoveDevice, netVars
<1>6. ASSUME UNCHANGED vars
      PROVE  UNCHANGED <<conn, broken>>
  BY <1>6 DEF vars, netVars
<1>. HIDE DEF TypeOK, BrokenWereOpened
<1>7. \/ UNCHANGED <<conn, broken>> \/ Restart
      \/ \E k \in Conns : Connection(k)
  BY <1>3, <1>4, <1>5, <1>6 DEF Next
<1>. USE DEF BrokenWereOpened
<1>. QED  BY <1>1, <1>2, <1>7 DEF TypeOK

-------------------------------------------------------------------------------
(***************************************************************************)
(* The verifications implement Authorization. A verification is asked when *)
(* it draws its id and told when its task answers; what is proved of each  *)
(* step is either that nobody's Told or Consented changes, or the one      *)
(* abstract step it is.                                                    *)
(***************************************************************************)
Unchanged == \A c \in Verifiers : Told(c)' = Told(c) /\ Consented(c)' = Consented(c)

\* A step that changes what nobody is told or consented to is a stutter.
LEMMA StepStutters ==
    ASSUME Unchanged
    PROVE  UNCHANGED Abstract!avars
<1>1. [c \in Verifiers |-> Told(c)]' = [c \in Verifiers |-> Told(c)]
  BY DEF Unchanged
<1>2. {c \in Verifiers : Consented(c)}' = {c \in Verifiers : Consented(c)}
  BY DEF Unchanged
<1>. QED  BY <1>1, <1>2 DEF Abstract!avars

\* What remains of Consented when neither signatures nor the task's own request
\* change.
LEMMA ConsentKept ==
    ASSUME ApprovalInv, NEW c \in Verifiers, UNCHANGED signed,
           \/ UNCHANGED <<id, key>> /\ (Told(c) = "idle" <=> Told(c)' = "idle")
           \/ Unasked(c)
    PROVE  Consented(c)' = Consented(c)
<1>1. CASE Unasked(c)
  <2>1. ~Consented(c)
    BY <1>1 DEF Unasked, Consented, Told
  <2>2. ~Consented(c)'
    BY <1>1 DEF Consented, Line, ApprovalInv, ApprovalParts, LinesAreSent
  <2>. QED  BY <2>1, <2>2 DEF Consented
<1>2. CASE UNCHANGED <<id, key>> /\ (Told(c) = "idle" <=> Told(c)' = "idle")
  BY <1>2 DEF Consented, Line
<1>. QED  BY <1>1, <1>2

\* Drawing an id for a verification is the abstract Ask.
LEMMA AskMaps ==
    ASSUME NEW c \in Verifiers, Told(c) = "idle", Told(c)' = "asked",
           \A d \in Verifiers \ {c} : Told(d)' = Told(d),
           \A d \in Verifiers : Consented(d)' = Consented(d)
    PROVE  Abstract!Next
<1>1. Abstract!Ask(c)
  BY DEF Abstract!Ask
<1>. QED  BY <1>1 DEF Abstract!Next

\* Refusing some of those not told yet is the abstract Refuse.
LEMMA RefuseMaps ==
    ASSUME NEW S \in SUBSET Verifiers,
           \A d \in S : Told(d) \in {"idle", "asked"} /\ Told(d)' = "refused",
           \A d \in Verifiers \ S : Told(d)' = Told(d),
           \A d \in Verifiers : Consented(d)' = Consented(d)
    PROVE  Abstract!Next
<1>1. Abstract!Refuse(S)
  BY DEF Abstract!Refuse
<1>. QED  BY <1>1 DEF Abstract!Next

\* A yes to a verification is the abstract Grant.
LEMMA GrantMaps ==
    ASSUME NEW c \in Verifiers, Told(c) = "asked", Consented(c), Told(c)' = "granted",
           \A d \in Verifiers \ {c} : Told(d)' = Told(d),
           \A d \in Verifiers : Consented(d)' = Consented(d)
    PROVE  Abstract!Next
<1>1. Abstract!Grant(c)
  BY DEF Abstract!Grant
<1>. QED  BY <1>1 DEF Abstract!Next

\* A signature over the request of a verification is the abstract Consent.
LEMMA ConsentMaps ==
    ASSUME NEW c \in Verifiers, Told(c) # "idle", Consented(c)',
           \A d \in Verifiers : Told(d)' = Told(d),
           \A d \in Verifiers \ {c} : Consented(d)' = Consented(d)
    PROVE  Abstract!Next
<1>1. Abstract!Consent(c)
  BY DEF Abstract!Consent
<1>. QED  BY <1>1 DEF Abstract!Next

\* Every step of the daemon is a step of Authorization, or a stutter.
LEMMA DaemonStepMaps ==
    ASSUME ApprovalInv, [Next]_vars
    PROVE  [Abstract!Next]_(Abstract!avars)
<1>. USE DEF Verifiers, Told, ApprovalInv
<1>1. ASSUME NEW c \in Tasks, PamConnects(c)
      PROVE  [Abstract!Next]_(Abstract!avars)
  <2>1. Unchanged
    BY <1>1 DEF PamConnects, Unchanged, Consented, Line, TypeOK, taskVars, phoneVars
  <2>. QED  BY <2>1, StepStutters
<1>2. ASSUME NEW c \in Tasks, AcceptPam(c)
      PROVE  [Abstract!Next]_(Abstract!avars)
  <2>1. Unchanged
    BY <1>2 DEF AcceptPam, Unchanged, Consented, Line, TypeOK, taskVars, phoneVars
  <2>. QED  BY <2>1, StepStutters
<1>3. ASSUME NEW c \in Tasks, NoDevice(c)
      PROVE  [Abstract!Next]_(Abstract!avars)
  <2>1. /\ pc[c] = "accepted"
        /\ pc' = [pc EXCEPT ![c] = "reply"]
        /\ UNCHANGED signed
        /\ \A d \in Verifiers \ {c} : UNCHANGED <<id[d], key[d], verdict[d]>>
    BY <1>3 DEF NoDevice, TypeOK, phoneVars
  <2>2. \A d \in Verifiers : Consented(d)' = Consented(d)
    <3>1. ASSUME NEW d \in Verifiers \ {c}
          PROVE  Consented(d)' = Consented(d)
      BY <2>1 DEF Consented, Line, TypeOK
    <3>2. c \in Verifiers => Consented(c)' = Consented(c)
      BY <2>1, ConsentKept DEF Unasked
    <3>. QED  BY <3>1, <3>2
  <2>3. \A d \in Verifiers \ {c} : Told(d)' = Told(d)
    BY <2>1 DEF TypeOK
  <2>4. CASE c \in Verifiers
    <3>1. Told(c) = "idle" /\ Told(c)' = "asked"
      BY <2>1 DEF TypeOK
    <3>. QED  BY <2>2, <2>3, <2>4, <3>1, AskMaps
  <2>5. CASE c \notin Verifiers
    BY <2>2, <2>3, <2>5, StepStutters DEF Unchanged
  <2>. QED  BY <2>4, <2>5
<1>4. ASSUME NEW c \in Tasks, RunVerification(c)
      PROVE  [Abstract!Next]_(Abstract!avars)
  <2>1. /\ pc[c] = "accepted"
        /\ pc' = [pc EXCEPT ![c] = "lock"]
        /\ UNCHANGED signed
        /\ \A d \in Verifiers \ {c} : UNCHANGED <<id[d], key[d], verdict[d]>>
    BY <1>4 DEF RunVerification, TypeOK, phoneVars
  <2>2. \A d \in Verifiers : Consented(d)' = Consented(d)
    <3>1. ASSUME NEW d \in Verifiers \ {c}
          PROVE  Consented(d)' = Consented(d)
      BY <2>1 DEF Consented, Line, TypeOK
    <3>2. c \in Verifiers => Consented(c)' = Consented(c)
      BY <2>1, ConsentKept DEF Unasked
    <3>. QED  BY <3>1, <3>2
  <2>3. \A d \in Verifiers \ {c} : Told(d)' = Told(d)
    BY <2>1 DEF TypeOK
  <2>4. CASE c \in Verifiers
    <3>1. Told(c) = "idle" /\ Told(c)' = "asked"
      BY <2>1 DEF TypeOK
    <3>. QED  BY <2>2, <2>3, <2>4, <3>1, AskMaps
  <2>. QED  BY <1>4, <2>4 DEF RunVerification
<1>5. ASSUME NEW c \in Tasks, AskPhone(c)
      PROVE  [Abstract!Next]_(Abstract!avars)
  <2>1. Unchanged
    BY <1>5 DEF AskPhone, Unchanged, Consented, Line, TypeOK, taskVars, phoneVars
  <2>. QED  BY <2>1, StepStutters
<1>6. ASSUME NEW c \in Tasks, LockOutbound(c)
      PROVE  [Abstract!Next]_(Abstract!avars)
  <2>1. Unchanged
    BY <1>6 DEF LockOutbound, Unchanged, Consented, Line, TypeOK, taskVars, phoneVars
  <2>. QED  BY <2>1, StepStutters
<1>7. ASSUME NEW c \in Tasks, SendLine(c)
      PROVE  [Abstract!Next]_(Abstract!avars)
  <2>1. Unchanged
    BY <1>7 DEF SendLine, Unchanged, Consented, Line, TypeOK, taskVars, phoneVars
  <2>. QED  BY <2>1, StepStutters
<1>8. ASSUME NEW c \in Tasks, SendFails(c)
      PROVE  [Abstract!Next]_(Abstract!avars)
  <2>1. Unchanged
    BY <1>8 DEF SendFails, GiveUp, Unchanged, Consented, Line, TypeOK, taskVars, phoneVars
  <2>. QED  BY <2>1, StepStutters
<1>9. ASSUME NEW c \in Tasks, Timeout(c)
      PROVE  [Abstract!Next]_(Abstract!avars)
  <2>1. Unchanged
    BY <1>9 DEF Timeout, GiveUp, Unchanged, Consented, Line, TypeOK, taskVars, phoneVars
  <2>. QED  BY <2>1, StepStutters
<1>10. ASSUME NEW c \in Tasks, Resume(c)
      PROVE  [Abstract!Next]_(Abstract!avars)
  <2>1. Unchanged
    BY <1>10 DEF Resume, Unchanged, Consented, Line, TypeOK, taskVars, phoneVars
  <2>. QED  BY <2>1, StepStutters
<1>11. ASSUME NEW c \in Tasks, Answer(c)
      PROVE  [Abstract!Next]_(Abstract!avars)
  <2>1. /\ pc[c] = "reply"
        /\ pc' = [pc EXCEPT ![c] = "done"]
        /\ UNCHANGED <<signed, id, key, verdict>>
    BY <1>11 DEF Answer, phoneVars
  <2>2. \A d \in Verifiers : Consented(d)' = Consented(d)
    BY <2>1 DEF Consented, Line, TypeOK
  <2>3. \A d \in Verifiers \ {c} : Told(d)' = Told(d)
    BY <2>1 DEF TypeOK
  <2>4. CASE c \notin Verifiers
    BY <2>2, <2>3, <2>4, StepStutters DEF Unchanged
  <2>5. CASE c \in Verifiers /\ verdict[c] = "ok"
    <3>1. Told(c) = "asked" /\ Told(c)' = "granted"
      BY <2>1, <2>5 DEF TypeOK
    <3>2. Consented(c)
      BY <2>5, <3>1 DEF Consented, ApprovalParts, ApprovedMeansSigned
    <3>. QED  BY <2>2, <2>3, <2>5, <3>1, <3>2, GrantMaps
  <2>6. CASE c \in Verifiers /\ verdict[c] # "ok"
    <3>1. Told(c) = "asked" /\ Told(c)' = "refused"
      BY <2>1, <2>6 DEF TypeOK
    <3>. DEFINE S == {c}
    <3>2. /\ S \in SUBSET Verifiers
          /\ \A d \in S : Told(d) \in {"idle", "asked"} /\ Told(d)' = "refused"
      BY <2>6, <3>1
    <3>3. \A d \in Verifiers \ S : Told(d)' = Told(d)
      BY <2>3
    <3>. HIDE DEF S, Told
    <3>. QED  BY <2>2, <3>2, <3>3, RefuseMaps
  <2>. QED  BY <2>4, <2>5, <2>6
<1>12. ASSUME NEW k \in Conns, PhoneConnects(k)
      PROVE  [Abstract!Next]_(Abstract!avars)
  <2>1. Unchanged
    BY <1>12 DEF PhoneConnects, Unchanged, Consented, Line, TypeOK, taskVars, phoneVars
  <2>. QED  BY <2>1, StepStutters
<1>13. ASSUME NEW k \in Conns, AcceptPhone(k)
      PROVE  [Abstract!Next]_(Abstract!avars)
  <2>1. Unchanged
    BY <1>13 DEF AcceptPhone, Unchanged, Consented, Line, TypeOK, taskVars, phoneVars
  <2>. QED  BY <2>1, StepStutters
<1>14. ASSUME NEW k \in Conns, AdoptPhone(k)
      PROVE  [Abstract!Next]_(Abstract!avars)
  <2>1. Unchanged
    BY <1>14 DEF AdoptPhone, Unchanged, Consented, Line, TypeOK, taskVars, phoneVars
  <2>. QED  BY <2>1, StepStutters
<1>15. ASSUME NEW k \in Conns, ReaderEnds(k)
      PROVE  [Abstract!Next]_(Abstract!avars)
  <2>1. Unchanged
    BY <1>15 DEF ReaderEnds, Unchanged, Consented, Line, TypeOK, taskVars, phoneVars
  <2>. QED  BY <2>1, StepStutters
<1>16. ASSUME NEW k \in Conns, Break(k)
      PROVE  [Abstract!Next]_(Abstract!avars)
  <2>1. Unchanged
    BY <1>16 DEF Break, Unchanged, Consented, Line, TypeOK, taskVars, phoneVars
  <2>. QED  BY <2>1, StepStutters
<1>17. ASSUME NEW k \in Conns, PhoneReads(k)
      PROVE  [Abstract!Next]_(Abstract!avars)
  <2>1. Unchanged
    BY <1>17 DEF PhoneReads, Unchanged, Consented, Line, TypeOK, taskVars, phoneVars
  <2>. QED  BY <2>1, StepStutters
<1>18. ASSUME NEW k \in Conns, NEW m \in PossibleReplies, Receive(k, m)
       PROVE  [Abstract!Next]_(Abstract!avars)
  <2>1. Unchanged
    BY <1>18 DEF Receive, Deliver, Unchanged, Consented, Line, TypeOK, phoneVars
  <2>. QED  BY <2>1, StepStutters
<1>19. ASSUME NEW k \in Keys, NEW line \in seen, Sign(k, line)
       PROVE  [Abstract!Next]_(Abstract!avars)
  <2>. DEFINE c == line.challenge
  <2>1. /\ signed' = signed \cup {[key |-> k, line |-> line]}
        /\ UNCHANGED taskVars
    BY <1>19 DEF Sign
  <2>2. \A d \in Verifiers : Told(d)' = Told(d)
    BY <2>1 DEF taskVars
  <2>3. ASSUME NEW d \in Verifiers \ {c}
        PROVE  Consented(d)' = Consented(d)
    <3>1. Line(d).challenge # line.challenge /\ UNCHANGED <<key[d], Line(d)>>
      BY <2>1 DEF Line, taskVars
    <3>2. [key |-> key[d], line |-> Line(d)] # [key |-> k, line |-> line]
      BY <3>1
    <3>. QED  BY <2>1, <2>2, <3>1, <3>2 DEF Consented
  <2>4. c \in Verifiers => (Consented(c) => Consented(c)')
    BY <2>1, <2>2 DEF Consented, Line, taskVars
  <2>5. CASE c \in Verifiers /\ Consented(c)' # Consented(c)
    <3>1. Consented(c)'
      BY <2>4, <2>5 DEF Consented
    <3>2. Told(c) # "idle"
      BY <2>2, <2>5, <3>1 DEF Consented
    <3>. QED  BY <2>2, <2>3, <2>5, <3>1, <3>2, ConsentMaps
  <2>6. CASE c \notin Verifiers \/ Consented(c)' = Consented(c)
    <3>1. Unchanged
      BY <2>2, <2>3, <2>6 DEF Unchanged
    <3>. QED  BY <3>1, StepStutters
  <2>. QED  BY <2>5, <2>6
<1>20. ASSUME NEW k \in Keys, NEW now \in Times, SaveDevice(k, now)
       PROVE  [Abstract!Next]_(Abstract!avars)
  <2>1. Unchanged
    BY <1>20 DEF SaveDevice, Unchanged, Consented, Line, taskVars, phoneVars
  <2>. QED  BY <2>1, StepStutters
<1>21. ASSUME NEW k \in Keys, RemoveDevice(k)
       PROVE  [Abstract!Next]_(Abstract!avars)
  <2>1. Unchanged
    BY <1>21 DEF RemoveDevice, Unchanged, Consented, Line, taskVars, phoneVars
  <2>. QED  BY <2>1, StepStutters
<1>22. ASSUME Restart
       PROVE  [Abstract!Next]_(Abstract!avars)
  <2>. DEFINE S == {c \in Verifiers : pc[c] \in InProgress}
  <2>1. /\ pc' = [c \in Tasks |-> IF pc[c] \in InProgress THEN "gone" ELSE pc[c]]
        /\ UNCHANGED <<signed, id, key, verdict>>
    BY <1>22 DEF Restart, phoneVars
  <2>2. \A d \in S : Told(d) \in {"idle", "asked"} /\ Told(d)' = "refused"
    BY <2>1 DEF InProgress
  <2>3. \A d \in Verifiers \ S : Told(d)' = Told(d)
    BY <2>1 DEF InProgress
  <2>4. ASSUME NEW d \in Verifiers
        PROVE  Consented(d)' = Consented(d)
    <3>1. CASE Unasked(d)
      BY <2>1, <3>1, ConsentKept
    <3>2. CASE ~Unasked(d)
      <4>1. Told(d) # "idle" /\ Told(d)' # "idle"
        BY <2>1, <3>2 DEF Unasked, TypeOK, InProgress
      <4>. QED  BY <2>1, <4>1, ConsentKept
    <3>. QED  BY <3>1, <3>2
  <2>. QED  BY <2>2, <2>3, <2>4, RefuseMaps
<1>23. CASE UNCHANGED vars
  <2>1. Unchanged
    BY <1>23 DEF vars, Unchanged, Consented, Line, taskVars, phoneVars
  <2>. QED  BY <2>1, StepStutters
<1>. QED
  BY <1>1, <1>2, <1>3, <1>4, <1>5, <1>6, <1>7, <1>8, <1>9, <1>10, <1>11, <1>12,
     <1>13, <1>14, <1>15, <1>16, <1>17, <1>18, <1>19, <1>20, <1>21, <1>22, <1>23
  DEF Next, Runs, Connection

\* The daemon grants only what the owner of the active phone consented to, and
\* never changes an answer it has given: it implements Authorization.
THEOREM DaemonImplementsAuthorization == Spec => ImplementsAuthorization
<1>1. Init => Abstract!Init
  BY DEF Init, Abstract!Init, Told, Consented, Verifiers
<1>2. Init => ApprovalInv
  BY ApprovalInit
<1>3. ApprovalInv /\ [Next]_vars => [Abstract!Next]_(Abstract!avars)
  BY DaemonStepMaps
<1>. QED  BY <1>1, <1>2, <1>3, ApprovalStep, PTL DEF Spec, ImplementsAuthorization, Abstract!Spec
================================================================================
