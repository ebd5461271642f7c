---------------------------- MODULE KPasskey_proofs ----------------------------
(***************************************************************************)
(* Proofs about the daemon and the phone together, for any number of       *)
(* tasks, connections, breaks and restarts. What the phone and the wire    *)
(* do is shown to be within what Daemon allows its environment, so that    *)
(* the invariants proved of the daemon alone hold here as well.            *)
(***************************************************************************)
EXTENDS KPasskey, TLAPS

\* The theorems about the daemon, for its one key and one time.
DP == INSTANCE Daemon_proofs WITH Keys <- {PhoneKey}, Times <- {0}

\* What those theorems assume of their constants.
LEMMA DaemonAssumptions ==
    /\ DP!IsFiniteSet(Tasks)
    /\ Op \in [Tasks -> {"verify", "makecred", "assert"}]
    /\ {0} \subseteq Nat /\ BufCap \in Nat \ {0} /\ MaxRestarts \in Nat
    /\ None \notin Tasks \cup Conns \cup {PhoneKey} \cup DP!Replies
BY TaskAssumption, BoundAssumption, NoneAssumption
DEF D!Replies, D!Signatures, D!Lines, DP!Replies, DP!Signatures, DP!Lines,
    DP!IsFiniteSet, IsFiniteSet

\* The instance counts tasks the way this module does.
LEMMA SameCount == DP!Cardinality(Tasks) = Cardinality(Tasks)
BY DEF DP!Cardinality, Cardinality

-------------------------------------------------------------------------------
(***************************************************************************)
(* What the composition adds to the daemon's own invariants.               *)
(***************************************************************************)

\* The phone shows, asks about and has approved only requests it has read, and
\* its key has signed only what was approved.
PhoneHoldsRead ==
    /\ {slot, shown, prompt} \subseteq seen \cup {None}
    /\ touched \subseteq seen
    /\ \A s \in signed : s.line \in touched

\* An answer is to a request the phone has read, and a signature is one it made.
Made == {a \in L!Answers :
           a.on \in seen /\ (a.kind = "sig" => [key |-> PhoneKey, line |-> a.on] \in signed)}

AnswersAreMade ==
    /\ main # None => main.answer \in Made
    /\ \A i \in DOMAIN outbox : outbox[i] \in Made
    /\ taken # None => taken \in Made
    /\ \A k \in Conns : \A i \in DOMAIN up[k] : up[k][i] \in Made

DaemonInv == DP!ApprovalInv /\ DP!WaiterInv /\ DP!IdsFit /\ DP!IdsOnce /\ DP!BrokenWereOpened
LinkTypes == L!TypeOK /\ T!TypeOK
KInv == DaemonInv /\ LinkTypes /\ PhoneHoldsRead /\ AnswersAreMade

\* Every line under way is one of the requests the phone can present.
LEMMA SentAreRequests ==
    ASSUME DaemonInv
    PROVE  DP!Sent \subseteq Requests
<1>. SUFFICES ASSUME NEW line \in DP!Sent
              PROVE  line \in Requests
  OBVIOUS
<1>1. line \in DP!Lines
  BY DEF DaemonInv, DP!ApprovalInv, DP!TypeOK, DP!Sent
<1>2. line.id \in 1..Cardinality(Tasks)
  BY SameCount DEF DaemonInv, DP!IdsFit
<1>. QED  BY <1>1, <1>2 DEF DP!Lines, Requests

\* What the phone reads next is one of them, and a line was sent before it is read.
LEMMA HeadIsRequest ==
    ASSUME DaemonInv, NEW k \in Conns, wire[k] # <<>>
    PROVE  Head(wire[k]) \in Requests
<1>1. wire[k] \in Seq(DP!Lines)
  BY DEF DaemonInv, DP!ApprovalInv, DP!TypeOK
<1>2. 1 \in DOMAIN wire[k] /\ Head(wire[k]) = wire[k][1] /\ wire[k][1] \in DP!Lines
  BY <1>1
<1>3. Head(wire[k]) \in DP!Sent
  BY <1>2 DEF DP!Sent
<1>. QED  BY <1>3, SentAreRequests

\* What the daemon takes from a connection is a reply its environment may give.
LEMMA ReplyIsPossible ==
    ASSUME KInv, NEW k \in Conns, up[k] # <<>>
    PROVE  AsReply(Head(up[k])) \in DP!PossibleReplies
<1>. DEFINE a == Head(up[k])
<1>1. up[k] \in Seq(L!Answers)
  BY DEF KInv, LinkTypes, T!TypeOK
<1>2. 1 \in DOMAIN up[k] /\ a = up[k][1] /\ a \in L!Answers
  BY <1>1
<1>3. a \in Made
  BY <1>2 DEF KInv, AnswersAreMade
<1>4. a.on.id \in 1..Cardinality(Tasks) /\ a.kind \in {"sig", "cred", "denied"}
  BY <1>2 DEF L!Answers, Requests
<1>. HIDE DEF a
<1>5. AsReply(a) \in DP!PossibleReplies
  BY <1>3, <1>4, SameCount DEF AsReply, Made, DP!PossibleReplies
<1>. QED  BY <1>5 DEF a

-------------------------------------------------------------------------------
\* The steps of the daemon's tasks are those its theorems are about.
LEMMA TaskMoves ==
    ASSUME NEW c \in Tasks, D!PamConnects(c) \/ D!Runs(c)
    PROVE  DP!Next
<1>. USE DEF D!taskVars, DP!taskVars, D!netVars, DP!netVars, D!phoneVars, DP!phoneVars
<1>1. D!PamConnects(c) => DP!PamConnects(c)
  BY DEF D!PamConnects, DP!PamConnects
<1>2. D!AcceptPam(c) => DP!AcceptPam(c)
  BY DEF D!AcceptPam, DP!AcceptPam, D!LoopIdle, DP!LoopIdle
<1>3. D!NoDevice(c) => DP!NoDevice(c)
  BY DEF D!NoDevice, DP!NoDevice
<1>4. D!RunVerification(c) => DP!RunVerification(c)
  BY DEF D!RunVerification, DP!RunVerification, D!Insert, DP!Insert, D!Oldest, DP!Oldest
<1>5. D!AskPhone(c) => DP!AskPhone(c)
  BY DEF D!AskPhone, DP!AskPhone, D!Insert, DP!Insert
<1>6. D!LockOutbound(c) => DP!LockOutbound(c)
  BY DEF D!LockOutbound, DP!LockOutbound
<1>7. D!SendLine(c) => DP!SendLine(c)
  BY DEF D!SendLine, DP!SendLine, D!Line, DP!Line
<1>8. D!SendFails(c) => DP!SendFails(c)
  BY DEF D!SendFails, DP!SendFails, D!GiveUp, DP!GiveUp, D!Remove, DP!Remove
<1>9. D!Timeout(c) => DP!Timeout(c)
  BY DEF D!Timeout, DP!Timeout, D!GiveUp, DP!GiveUp, D!Remove, DP!Remove
<1>10. D!Resume(c) => DP!Resume(c)
  BY DEF D!Resume, DP!Resume, D!Accepts, DP!Accepts, D!Verifies, DP!Verifies, D!Line, DP!Line
<1>11. D!Answer(c) => DP!Answer(c)
  BY DEF D!Answer, DP!Answer
<1>. QED
  BY <1>1, <1>2, <1>3, <1>4, <1>5, <1>6, <1>7, <1>8, <1>9, <1>10, <1>11 DEF D!Runs, DP!Next, DP!Runs

\* And so are those of its connections, with the phone's own steps among them.
LEMMA ConnectionMoves ==
    ASSUME NEW k \in Conns,
           \/ D!PhoneConnects(k) \/ D!AcceptPhone(k) \/ D!AdoptPhone(k) \/ D!ReaderEnds(k)
           \/ D!Break(k) \/ D!PhoneReads(k)
    PROVE  DP!Next
<1>. USE DEF D!taskVars, DP!taskVars, D!netVars, DP!netVars, D!phoneVars, DP!phoneVars
<1>1. D!PhoneConnects(k) => DP!PhoneConnects(k)
  BY DEF D!PhoneConnects, DP!PhoneConnects
<1>2. D!AcceptPhone(k) => DP!AcceptPhone(k)
  BY DEF D!AcceptPhone, DP!AcceptPhone, D!LoopIdle, DP!LoopIdle
<1>3. D!AdoptPhone(k) => DP!AdoptPhone(k)
  BY DEF D!AdoptPhone, DP!AdoptPhone
<1>4. D!ReaderEnds(k) => DP!ReaderEnds(k)
  BY DEF D!ReaderEnds, DP!ReaderEnds
<1>5. D!Break(k) => DP!Break(k)
  BY DEF D!Break, DP!Break
<1>6. D!PhoneReads(k) => DP!PhoneReads(k)
  BY DEF D!PhoneReads, DP!PhoneReads
<1>. QED
  BY <1>1, <1>2, <1>3, <1>4, <1>5, <1>6 DEF DP!Next, DP!Connection

\* Every step of the composition is a step of the daemon and its environment, or
\* leaves the daemon alone.
LEMMA DaemonMoves ==
    ASSUME KInv, [Next]_vars
    PROVE  [DP!Next]_(DP!vars)
<1>. USE DEF D!taskVars, DP!taskVars, D!netVars, DP!netVars, D!phoneVars, DP!phoneVars
<1>1. CASE DaemonSteps
  <2>1. D!Restart => DP!Restart
    BY DEF D!Restart, DP!Restart, D!FirstId, DP!FirstId, D!InProgress, DP!InProgress
  <2>. QED  BY <1>1, <2>1, TaskMoves, ConnectionMoves DEF DaemonSteps, DP!Next
<1>2. ASSUME NEW k \in Conns, PhoneConnects(k) \/ Break(k) \/ PhoneReads(k)
      PROVE  DP!Next
  BY <1>2, ConnectionMoves DEF PhoneConnects, Break, PhoneReads
<1>3. ASSUME NEW k \in Conns, DaemonReads(k)
      PROVE  DP!Next
  <2>. DEFINE m == AsReply(Head(up[k]))
  <2>1. up[k] # <<>> /\ D!Receive(k, m)
    BY <1>3 DEF DaemonReads
  <2>2. m \in DP!PossibleReplies
    BY <2>1, ReplyIsPossible
  <2>. HIDE DEF m
  <2>3. DP!Receive(k, m)
    BY <2>1 DEF D!Receive, DP!Receive, D!Deliver, DP!Deliver, D!Woken, DP!Woken,
                D!Waiting, DP!Waiting, D!Waiter, DP!Waiter, D!Remove, DP!Remove
  <2>. QED  BY <2>2, <2>3 DEF DP!Next
<1>4. ASSUME Touch
      PROVE  [DP!Next]_(DP!vars)
  <2>1. CASE L!AnswersWithSignature(prompt)
    <3>1. D!Sign(PhoneKey, prompt)
      BY <1>4, <2>1 DEF Touch
    <3>2. DP!Sign(PhoneKey, prompt) /\ prompt \in seen
      BY <3>1 DEF D!Sign, DP!Sign
    <3>. QED  BY <3>2 DEF DP!Next
  <2>2. CASE ~L!AnswersWithSignature(prompt)
    BY <1>4, <2>2 DEF Touch, daemonVars, DP!vars
  <2>. QED  BY <2>1, <2>2
<1>5. CASE SendAnswer \/ OtherPhoneSteps \/ LinkSteps
  BY <1>5 DEF SendAnswer, OtherPhoneSteps, LinkSteps, daemonVars, DP!vars
<1>6. CASE UNCHANGED vars
  BY <1>6 DEF vars, daemonVars, DP!vars
<1>. QED  BY <1>1, <1>2, <1>3, <1>4, <1>5, <1>6 DEF Next

\* So what is proved of the daemon in any environment holds of it with this one.
LEMMA DaemonInvStep ==
    ASSUME KInv, [Next]_vars
    PROVE  DaemonInv'
<1>1. [DP!Next]_(DP!vars) /\ DP!TypeOK
  BY DaemonMoves DEF KInv, DaemonInv, DP!ApprovalInv
<1>2. DP!ApprovalInv'
  BY <1>1, DaemonAssumptions, DP!ApprovalStep DEF KInv, DaemonInv
<1>3. DP!WaiterInv'
  BY <1>1, DaemonAssumptions, DP!WaiterStep DEF KInv, DaemonInv
<1>4. DP!IdsFit'
  BY <1>1, DaemonAssumptions, DP!IdsFitStep DEF KInv, DaemonInv
<1>5. DP!IdsOnce'
  BY <1>1, DaemonAssumptions, DP!IdsOnceStep DEF KInv, DaemonInv
<1>6. DP!BrokenWereOpened'
  BY <1>1, DaemonAssumptions, DP!BrokenStep DEF KInv, DaemonInv
<1>. QED  BY <1>2, <1>3, <1>4, <1>5, <1>6 DEF DaemonInv

-------------------------------------------------------------------------------
(***************************************************************************)
(* The phone and the link.                                                 *)
(***************************************************************************)
DaemonOnly == DaemonSteps \/ UNCHANGED vars

\* A step of the daemon's own leaves the phone and what it has signed alone.
LEMMA DaemonOnlyLeaves ==
    ASSUME DaemonOnly
    PROVE  UNCHANGED <<phoneVars, linkVars, seen, signed>>
<1>. USE DEF D!phoneVars
<1>1. ASSUME NEW c \in Tasks, D!PamConnects(c) \/ D!Runs(c)
      PROVE  UNCHANGED <<seen, signed>>
  BY <1>1 DEF D!Runs, D!PamConnects, D!AcceptPam, D!NoDevice, D!RunVerification,
              D!AskPhone, D!LockOutbound, D!SendLine, D!SendFails, D!Timeout, D!Resume,
              D!Answer
<1>2. ASSUME NEW k \in Conns, D!AcceptPhone(k) \/ D!AdoptPhone(k) \/ D!ReaderEnds(k)
      PROVE  UNCHANGED <<seen, signed>>
  BY <1>2 DEF D!AcceptPhone, D!AdoptPhone, D!ReaderEnds
<1>3. ASSUME D!Restart
      PROVE  UNCHANGED <<seen, signed>>
  BY <1>3 DEF D!Restart
<1>4. ASSUME UNCHANGED vars
      PROVE  UNCHANGED <<phoneVars, linkVars, seen, signed>>
  BY <1>4 DEF vars, daemonVars
<1>. QED  BY <1>1, <1>2, <1>3, <1>4 DEF DaemonOnly, DaemonSteps

\* The phone forgets nothing it has read or approved, and signs only at a touch,
\* the request the prompt is up for.
LEMMA HistoryGrows ==
    ASSUME [Next]_vars
    PROVE  /\ seen \subseteq seen' /\ touched \subseteq touched'
           /\ \/ UNCHANGED signed
              \/ /\ Touch /\ prompt \in seen /\ prompt \in touched'
                 /\ signed' = signed \cup {[key |-> PhoneKey, line |-> prompt]}
<1>1. CASE DaemonOnly
  BY <1>1, DaemonOnlyLeaves DEF phoneVars
<1>2. ASSUME NEW k \in Conns, PhoneConnects(k) \/ Break(k) \/ DaemonReads(k)
      PROVE  UNCHANGED <<seen, signed, touched>>
  BY <1>2 DEF PhoneConnects, Break, DaemonReads, D!PhoneConnects, D!Break, D!Receive,
              D!phoneVars, phoneVars
<1>3. ASSUME NEW k \in Conns, PhoneReads(k)
      PROVE  seen \subseteq seen' /\ UNCHANGED <<signed, touched>>
  BY <1>3 DEF PhoneReads, D!PhoneReads, L!Present
<1>4. CASE Touch
  <2>1. touched' = touched \cup {prompt}
    BY <1>4 DEF Touch, L!FingerprintAccepted
  <2>2. CASE L!AnswersWithSignature(prompt)
    <3>1. D!Sign(PhoneKey, prompt)
      BY <1>4, <2>2 DEF Touch
    <3>. QED  BY <1>4, <2>1, <3>1 DEF D!Sign
  <2>3. CASE ~L!AnswersWithSignature(prompt)
    BY <1>4, <2>1, <2>3 DEF Touch, daemonVars
  <2>. QED  BY <2>2, <2>3
<1>5. ASSUME SendAnswer \/ LinkSteps
      PROVE  UNCHANGED <<seen, signed, touched>>
  BY <1>5 DEF SendAnswer, LinkSteps, daemonVars, phoneVars, L!SendAnswer
<1>6. ASSUME OtherPhoneSteps
      PROVE  UNCHANGED <<seen, signed>> /\ touched \subseteq touched'
  BY <1>6 DEF OtherPhoneSteps, daemonVars, L!ExpiryChecks, L!ExpiryClears, L!Recompose,
              L!ClearSlot, L!TapApprove, L!PromptFails, L!CredentialFails, L!TapDeny,
              L!NotificationDeny
<1>. QED  BY <1>1, <1>2, <1>3, <1>4, <1>5, <1>6 DEF Next, DaemonOnly

\* So an answer once made stays one.
LEMMA MadeStays ==
    ASSUME [Next]_vars
    PROVE  Made \subseteq Made'
BY HistoryGrows DEF Made

\* What the phone shows is what it showed or something it has read, and what it
\* has approved was on its prompt.
LEMMA PhoneHoldsReadStep ==
    ASSUME KInv, [Next]_vars
    PROVE  PhoneHoldsRead'
<1>. DEFINE Was == seen \cup {None}
<1>1. /\ slot \in Was /\ shown \in Was /\ prompt \in Was
      /\ touched \subseteq seen /\ \A s \in signed : s.line \in touched
  BY DEF KInv, PhoneHoldsRead
<1>2. /\ seen \subseteq seen' /\ touched \subseteq touched'
      /\ \/ UNCHANGED signed
         \/ /\ prompt \in touched'
            /\ signed' = signed \cup {[key |-> PhoneKey, line |-> prompt]}
  BY HistoryGrows
<1>3. /\ slot' \in Was \cup seen' /\ shown' \in Was /\ prompt' \in Was
      /\ touched' \subseteq seen
  <2>1. CASE DaemonOnly
    BY <1>1, <2>1, DaemonOnlyLeaves DEF phoneVars
  <2>2. ASSUME NEW k \in Conns, PhoneConnects(k) \/ Break(k) \/ DaemonReads(k)
        PROVE  UNCHANGED <<slot, shown, prompt, touched>>
    BY <2>2 DEF PhoneConnects, Break, DaemonReads, phoneVars
  <2>3. ASSUME NEW k \in Conns, PhoneReads(k)
        PROVE  slot' \in seen' /\ UNCHANGED <<shown, prompt, touched>>
    BY <2>3 DEF PhoneReads, D!PhoneReads, L!Present
  <2>4. CASE Touch
    BY <1>1, <2>4 DEF Touch, L!FingerprintAccepted
  <2>5. ASSUME SendAnswer \/ LinkSteps
        PROVE  UNCHANGED <<slot, shown, prompt, touched>>
    BY <2>5 DEF SendAnswer, LinkSteps, phoneVars, L!SendAnswer
  <2>6. CASE OtherPhoneSteps
    BY <1>1, <2>6
    DEF OtherPhoneSteps, L!ExpiryChecks, L!ExpiryClears, L!Recompose, L!ClearSlot,
        L!TapApprove, L!PromptFails, L!CredentialFails, L!TapDeny, L!NotificationDeny
  <2>. QED  BY <1>1, <2>1, <2>2, <2>3, <2>4, <2>5, <2>6 DEF Next, DaemonOnly
<1>4. \A s \in signed' : s.line \in touched'
  BY <1>1, <1>2
<1>. QED  BY <1>2, <1>3, <1>4 DEF PhoneHoldsRead

\* The values of the variables the phone's link shares with its controller.
LinkValues ==
    /\ linked \in BOOLEAN
    /\ outbox \in Seq(L!Answers)
    /\ taken \in L!Answers \cup {None}
    /\ session \in Conns \cup {None}
    /\ up \in [Conns -> Seq(L!Answers)]

\* Those are all the link's type invariant says, once the daemon's invariant tells
\* which connections may be broken.
LEMMA LinkValuesSuffice ==
    /\ T!TypeOK => LinkValues
    /\ DaemonInv /\ LinkValues => T!TypeOK
    /\ DaemonInv' /\ LinkValues' => T!TypeOK'
<1>1. /\ DaemonInv => broken \subseteq {k \in Conns : conn[k] # "new"}
      /\ DaemonInv' => broken' \subseteq {k \in Conns : conn'[k] # "new"}
  BY DEF DaemonInv, DP!BrokenWereOpened, DP!ApprovalInv, DP!TypeOK
<1>. QED  BY <1>1 DEF T!TypeOK, LinkValues

\* An answer the main thread is giving is an answer of the link.
LEMMA MainAnswers == ASSUME L!TypeOK, main # None PROVE main.answer \in L!Answers
BY DEF L!TypeOK, L!MainStates

\* Each step keeps the phone's variables and the link's well typed.
LEMMA LinkTypesStep ==
    ASSUME KInv, [Next]_vars
    PROVE  LinkTypes'
<1>1. L!TypeOK /\ LinkValues
  BY LinkValuesSuffice DEF KInv, LinkTypes
<1>. SUFFICES L!TypeOK' /\ LinkValues'
  BY DaemonInvStep, LinkValuesSuffice DEF LinkTypes
<1>2. CASE DaemonOnly
  BY <1>1, <1>2, DaemonOnlyLeaves DEF phoneVars, linkVars, L!TypeOK, LinkValues
<1>3. ASSUME NEW k \in Conns, PhoneConnects(k)
      PROVE  L!TypeOK' /\ LinkValues'
  BY <1>1, <1>3 DEF PhoneConnects, T!Connect, phoneVars, L!TypeOK, LinkValues
<1>4. ASSUME NEW k \in Conns, Break(k)
      PROVE  L!TypeOK' /\ LinkValues'
  BY <1>1, <1>4 DEF Break, T!Break, phoneVars, L!TypeOK, LinkValues
<1>5. ASSUME NEW k \in Conns, PhoneReads(k)
      PROVE  L!TypeOK' /\ LinkValues'
  <2>1. wire[k] # <<>> /\ L!Present(Head(wire[k])) /\ UNCHANGED <<taken, session, up>>
    BY <1>5 DEF PhoneReads, D!PhoneReads
  <2>2. Head(wire[k]) \in Requests
    BY <2>1, HeadIsRequest DEF KInv
  <2>. QED  BY <1>1, <2>1, <2>2 DEF L!Present, L!TypeOK, LinkValues
<1>6. ASSUME NEW k \in Conns, DaemonReads(k)
      PROVE  L!TypeOK' /\ LinkValues'
  BY <1>1, <1>6 DEF DaemonReads, T!DaemonReads, phoneVars, L!TypeOK, LinkValues
<1>7. CASE Touch
  <2>1. /\ prompt \in Requests
        /\ L!FingerprintAccepted /\ UNCHANGED <<taken, session, up>>
    BY <1>1, <1>7 DEF Touch, L!TypeOK
  <2>2. [r \in Requests |-> IF Op[r.challenge] = "makecred" THEN "cred" ELSE "sig"][prompt]
          \in {"sig", "cred"}
    BY <2>1
  <2>. QED  BY <1>1, <2>1, <2>2
            DEF L!FingerprintAccepted, L!Giving, L!MainStates, L!Answers, L!TypeOK, LinkValues
<1>8. CASE SendAnswer
  <2>1. main # None /\ L!SendAnswer /\ T!Queue(main.answer)
    BY <1>8 DEF SendAnswer, L!SendAnswer
  <2>2. main.answer \in L!Answers
    BY <1>1, <2>1, MainAnswers
  <2>3. main' \in L!MainStates \cup {None}
    BY <1>1, <2>1 DEF L!SendAnswer, L!TypeOK, L!MainStates
  <2>. QED  BY <1>1, <2>1, <2>2, <2>3 DEF L!SendAnswer, T!Queue, T!netVars, L!TypeOK, LinkValues
<1>9. CASE OtherPhoneSteps
  <2>1. ASSUME NEW r \in Requests, L!ExpiryChecks(r) \/ L!ExpiryClears(r)
        PROVE  L!TypeOK'
    BY <1>1, <2>1 DEF L!ExpiryChecks, L!ExpiryClears, L!TypeOK
  <2>2. ASSUME L!Recompose \/ L!ClearSlot \/ L!TapApprove \/ L!PromptFails
        PROVE  L!TypeOK'
    BY <1>1, <2>2 DEF L!Recompose, L!ClearSlot, L!TapApprove, L!PromptFails, L!TypeOK
  <2>3. ASSUME L!CredentialFails \/ L!TapDeny \/ L!NotificationDeny
        PROVE  L!TypeOK'
    BY <1>1, <2>3 DEF L!CredentialFails, L!TapDeny, L!NotificationDeny, L!Giving,
                      L!MainStates, L!Answers, L!TypeOK
  <2>4. L!TypeOK' /\ UNCHANGED <<taken, session, up>>
    BY <1>9, <2>1, <2>2, <2>3 DEF OtherPhoneSteps
  <2>5. UNCHANGED <<linked, outbox>>
    BY <1>9 DEF OtherPhoneSteps, L!ExpiryChecks, L!ExpiryClears, L!Recompose, L!ClearSlot,
                L!TapApprove, L!PromptFails, L!CredentialFails, L!TapDeny, L!NotificationDeny
  <2>. QED  BY <1>1, <2>4, <2>5 DEF LinkValues
<1>10. CASE LinkSteps
  <2>1. UNCHANGED phoneVars
    BY <1>10 DEF LinkSteps
  <2>2. CASE T!Take
    BY <1>1, <2>1, <2>2 DEF T!Take, T!netVars, phoneVars, L!TypeOK, LinkValues
  <2>3. CASE T!Write
    <3>1. /\ taken # None /\ up' = [up EXCEPT ![session] = Append(@, taken)]
          /\ taken' = None /\ UNCHANGED <<linked, outbox, session>>
      BY <2>3 DEF T!Write
    <3>2. up' \in [Conns -> Seq(L!Answers)]
      <4>1. ASSUME NEW k \in Conns
            PROVE  up'[k] \in Seq(L!Answers)
        BY <1>1, <3>1 DEF LinkValues
      <4>. QED  BY <1>1, <3>1, <4>1 DEF LinkValues
    <3>. QED  BY <1>1, <2>1, <3>1, <3>2 DEF phoneVars, L!TypeOK, LinkValues
  <2>4. CASE T!WriteFails
    <3>1. /\ taken # None /\ outbox' = Append(outbox, taken)
          /\ taken' = None /\ session' = None /\ UNCHANGED <<linked, up>>
      BY <2>4 DEF T!WriteFails, T!netVars
    <3>2. outbox' \in Seq(L!Answers)
      BY <1>1, <3>1 DEF LinkValues
    <3>. QED  BY <1>1, <2>1, <3>1, <3>2 DEF phoneVars, L!TypeOK, LinkValues
  <2>5. CASE T!SessionEnds
    BY <1>1, <2>1, <2>5 DEF T!SessionEnds, T!netVars, phoneVars, L!TypeOK, LinkValues
  <2>. QED  BY <1>10, <2>2, <2>3, <2>4, <2>5 DEF LinkSteps, T!Pump
<1>. QED
  BY <1>2, <1>3, <1>4, <1>5, <1>6, <1>7, <1>8, <1>9, <1>10 DEF Next, DaemonOnly

\* An answer moves from the main thread through the queue and the pump to the
\* wire as it was made.
LEMMA AnswersAreMadeStep ==
    ASSUME KInv, [Next]_vars
    PROVE  AnswersAreMade'
<1>. USE DEF AnswersAreMade
<1>1. AnswersAreMade /\ L!TypeOK /\ LinkValues
  BY LinkValuesSuffice DEF KInv, LinkTypes
<1>2. Made \subseteq Made'
  BY MadeStays
<1>. HIDE DEF Made
<1>3. ASSUME UNCHANGED <<main, outbox, taken, up>>
      PROVE  AnswersAreMade'
  BY <1>1, <1>2, <1>3
<1>4. CASE DaemonOnly
  BY <1>3, <1>4, DaemonOnlyLeaves DEF phoneVars, linkVars
<1>5. ASSUME NEW k \in Conns, PhoneConnects(k) \/ PhoneReads(k)
      PROVE  UNCHANGED <<main, outbox, taken, up>>
  BY <1>5 DEF PhoneConnects, PhoneReads, T!Connect, L!Present, phoneVars
<1>6. ASSUME NEW k \in Conns, Break(k)
      PROVE  AnswersAreMade'
  <2>1. UNCHANGED <<main, outbox, taken>>
    BY <1>6 DEF Break, T!Break, phoneVars
  <2>2. PICK n \in 0..Len(up[k]) : up' = [up EXCEPT ![k] = SubSeq(@, 1, n)]
    BY <1>6 DEF Break, T!Break
  <2>3. ASSUME NEW j \in Conns, NEW i \in DOMAIN up'[j]
        PROVE  i \in DOMAIN up[j] /\ up'[j][i] = up[j][i]
    BY <1>1, <2>2 DEF LinkValues
  <2>. QED  BY <1>1, <1>2, <2>1, <2>3
<1>7. ASSUME NEW k \in Conns, DaemonReads(k)
      PROVE  AnswersAreMade'
  <2>1. /\ UNCHANGED <<main, outbox, taken>>
        /\ up[k] # <<>> /\ up' = [up EXCEPT ![k] = Tail(@)]
    BY <1>7 DEF DaemonReads, T!DaemonReads, phoneVars
  <2>2. ASSUME NEW j \in Conns, NEW i \in DOMAIN up'[j]
        PROVE  \E h \in DOMAIN up[j] : up'[j][i] = up[j][h]
    <3>1. CASE j = k
      <4>1. i + 1 \in DOMAIN up[j] /\ up'[j][i] = up[j][i + 1]
        BY <1>1, <2>1, <3>1 DEF LinkValues
      <4>. QED  BY <4>1
    <3>2. CASE j # k
      BY <1>1, <2>1, <3>2 DEF LinkValues
    <3>. QED  BY <3>1, <3>2
  <2>. QED  BY <1>1, <1>2, <2>1, <2>2
<1>8. CASE Touch
  <2>1. /\ main' = [stage |-> "send", answer |-> [kind |-> IF L!AnswersWithSignature(prompt)
                                                           THEN "sig" ELSE "cred",
                                                  on |-> prompt]]
        /\ prompt \in Requests /\ prompt \in seen /\ UNCHANGED <<outbox, taken, up>>
    BY <1>1, <1>8 DEF Touch, L!FingerprintAccepted, L!Giving, L!AnswersWithSignature,
                      L!TypeOK, KInv, PhoneHoldsRead
  <2>2. seen \subseteq seen'
    BY HistoryGrows
  <2>3. L!AnswersWithSignature(prompt) => [key |-> PhoneKey, line |-> prompt] \in signed'
    BY <1>8 DEF Touch, D!Sign
  <2>4. main'.answer \in Made'
    BY <2>1, <2>2, <2>3 DEF Made, L!Answers
  <2>. QED  BY <1>1, <1>2, <2>1, <2>4
<1>9. CASE SendAnswer
  <2>1. /\ main # None /\ UNCHANGED <<taken, up>>
        /\ outbox' = Append(outbox, main.answer)
        /\ main' # None => main'.answer = main.answer
    BY <1>1, <1>9 DEF SendAnswer, L!SendAnswer, T!Queue, T!netVars, L!TypeOK, L!MainStates
  <2>2. main.answer \in Made'
    BY <1>1, <1>2, <2>1
  <2>3. ASSUME NEW i \in DOMAIN outbox'
        PROVE  outbox'[i] = main.answer \/ (i \in DOMAIN outbox /\ outbox'[i] = outbox[i])
    BY <1>1, <2>1 DEF LinkValues
  <2>. QED  BY <1>1, <1>2, <2>1, <2>2, <2>3
<1>10. CASE OtherPhoneSteps
  <2>1. UNCHANGED <<outbox, taken, up>>
    BY <1>10 DEF OtherPhoneSteps, L!ExpiryChecks, L!ExpiryClears, L!Recompose, L!ClearSlot,
                 L!TapApprove, L!PromptFails, L!CredentialFails, L!TapDeny, L!NotificationDeny
  <2>2. ASSUME \/ L!Recompose \/ L!ClearSlot \/ L!TapApprove \/ L!PromptFails
               \/ \E r \in Requests : L!ExpiryChecks(r) \/ L!ExpiryClears(r)
        PROVE  main' = main \/ main' = None
    BY <2>2 DEF L!ExpiryChecks, L!ExpiryClears, L!Recompose, L!ClearSlot, L!TapApprove,
                L!PromptFails
  <2>3. ASSUME L!CredentialFails \/ L!TapDeny \/ L!NotificationDeny
        PROVE  \E r \in {slot, shown, prompt} \ {None} :
                 main' = [stage |-> "send", answer |-> [kind |-> "denied", on |-> r]]
    BY <2>3 DEF L!CredentialFails, L!TapDeny, L!NotificationDeny, L!Giving
  <2>4. ASSUME NEW r \in {slot, shown, prompt} \ {None}
        PROVE  [kind |-> "denied", on |-> r] \in Made'
    BY <1>1, HistoryGrows DEF Made, L!Answers, L!TypeOK, KInv, PhoneHoldsRead
  <2>5. main' # None => main'.answer \in Made'
    <3>1. CASE main' = main \/ main' = None
      BY <1>1, <1>2, <3>1
    <3>2. CASE \E r \in {slot, shown, prompt} \ {None} :
                 main' = [stage |-> "send", answer |-> [kind |-> "denied", on |-> r]]
      BY <2>4, <3>2
    <3>. QED  BY <1>10, <2>2, <2>3, <3>1, <3>2 DEF OtherPhoneSteps
  <2>. QED  BY <1>1, <1>2, <2>1, <2>5
<1>11. CASE LinkSteps
  <2>1. UNCHANGED main
    BY <1>11 DEF LinkSteps, phoneVars
  <2>2. CASE T!Take
    <3>1. /\ outbox # <<>> /\ taken' = Head(outbox) /\ outbox' = Tail(outbox) /\ up' = up
      BY <2>2 DEF T!Take, T!netVars, T!netVars
    <3>2. 1 \in DOMAIN outbox /\ taken' = outbox[1]
      BY <1>1, <3>1 DEF LinkValues
    <3>3. ASSUME NEW i \in DOMAIN outbox'
          PROVE  i + 1 \in DOMAIN outbox /\ outbox'[i] = outbox[i + 1]
      BY <1>1, <3>1 DEF LinkValues
    <3>. QED  BY <1>1, <1>2, <2>1, <3>1, <3>2, <3>3
  <2>3. CASE T!Write
    <3>1. /\ taken # None /\ taken' = None /\ outbox' = outbox
          /\ up' = [up EXCEPT ![session] = Append(@, taken)]
      BY <2>3 DEF T!Write, T!netVars, T!netVars
    <3>2. ASSUME NEW j \in Conns, NEW i \in DOMAIN up'[j]
          PROVE  up'[j][i] = taken \/ (i \in DOMAIN up[j] /\ up'[j][i] = up[j][i])
      BY <1>1, <3>1 DEF LinkValues
    <3>. QED  BY <1>1, <1>2, <2>1, <3>1, <3>2
  <2>4. CASE T!WriteFails
    <3>1. /\ taken # None /\ taken' = None /\ up' = up
          /\ outbox' = Append(outbox, taken)
      BY <2>4 DEF T!WriteFails, T!netVars, T!netVars
    <3>2. ASSUME NEW i \in DOMAIN outbox'
          PROVE  outbox'[i] = taken \/ (i \in DOMAIN outbox /\ outbox'[i] = outbox[i])
      BY <1>1, <3>1 DEF LinkValues
    <3>. QED  BY <1>1, <1>2, <2>1, <3>1, <3>2
  <2>5. CASE T!SessionEnds
    <3>1. taken' = None /\ UNCHANGED <<outbox, up>>
      BY <2>5 DEF T!SessionEnds, T!netVars, T!netVars
    <3>. QED  BY <1>1, <1>2, <2>1, <3>1
  <2>. QED  BY <1>11, <2>2, <2>3, <2>4, <2>5 DEF LinkSteps, T!Pump
<1>. QED
  BY <1>3, <1>4, <1>5, <1>6, <1>7, <1>8, <1>9, <1>10, <1>11 DEF Next, DaemonOnly

-------------------------------------------------------------------------------
\* The invariant of the composition holds when it starts ...
LEMMA KInvInit == Init => KInv
<1>. SUFFICES ASSUME Init
              PROVE  KInv
  OBVIOUS
<1>1. DP!Init
  BY DEF Init, D!Init, DP!Init, D!FirstId, DP!FirstId, D!DeviceRecords, DP!DeviceRecords
<1>2. DaemonInv
  <2>1. DP!ApprovalInv
    BY <1>1, DaemonAssumptions, DP!ApprovalInit
  <2>2. DP!WaiterInv
    BY <1>1, DaemonAssumptions, DP!WaiterInit
  <2>3. DP!IdsFit
    BY <1>1, DaemonAssumptions, DP!IdsFitInit
  <2>4. DP!IdsOnce
    BY <1>1, DaemonAssumptions, DP!IdsOnceInit
  <2>5. DP!BrokenWereOpened
    BY <1>1 DEF DP!Init, DP!BrokenWereOpened
  <2>. QED  BY <2>1, <2>2, <2>3, <2>4, <2>5 DEF DaemonInv
<1>3. L!TypeOK /\ LinkValues
  BY DEF Init, L!Init, T!Init, L!TypeOK, LinkValues
<1>4. LinkTypes
  BY <1>2, <1>3, LinkValuesSuffice DEF LinkTypes
<1>5. PhoneHoldsRead /\ AnswersAreMade
  BY DEF Init, D!Init, L!Init, T!Init, PhoneHoldsRead, AnswersAreMade
<1>. QED  BY <1>2, <1>4, <1>5 DEF KInv

\* ... and every step keeps it.
LEMMA KInvStep == KInv /\ [Next]_vars => KInv'
BY DaemonInvStep, LinkTypesStep, PhoneHoldsReadStep, AnswersAreMadeStep DEF KInv

\* The two programs and the connections between them keep their variables well
\* typed: whatever the phone reads is a request it can present, and whatever the
\* daemon reads a reply it knows, across breaks and restarts.
THEOREM CompositionTyped == Spec => []TypeOK
<1>1. DP!TypeOK => D!TypeOK
  BY DEF DP!TypeOK, D!TypeOK, DP!Waiters, D!Waiters, DP!DeviceRecords, D!DeviceRecords,
         DP!InProgress, D!InProgress, DP!Replies, D!Replies, DP!Signatures, D!Signatures,
         DP!Lines, D!Lines
<1>2. KInv => TypeOK
  BY <1>1 DEF KInv, DaemonInv, LinkTypes, DP!ApprovalInv, TypeOK
<1>. QED  BY <1>2, KInvInit, KInvStep, PTL DEF Spec

-------------------------------------------------------------------------------
(***************************************************************************)
(* From the fingerprint to the verdict. What requesters are told changes   *)
(* as Daemon_proofs shows; consent is now the touch, which the signature   *)
(* the daemon goes by is a consequence of.                                 *)
(***************************************************************************)
Status == [c \in DP!Verifiers |-> DP!Told(c)]
Agreed == {c \in DP!Verifiers : DP!Told(c) # "idle" /\ DP!Line(c) \in touched}

\* The mapping's operators are those of the theorems about the daemon.
LEMMA SameMapping ==
    /\ D!Verifiers = DP!Verifiers
    /\ [c \in D!Verifiers |-> D!Told(c)] = Status
    /\ [c \in D!Verifiers |-> D!Told(c)]' = Status'
    /\ {c \in D!Verifiers : D!Told(c) # "idle" /\ D!Line(c) \in touched} = Agreed
    /\ {c \in D!Verifiers : D!Told(c) # "idle" /\ D!Line(c) \in touched}' = Agreed'
BY DEF Status, Agreed, D!Verifiers, DP!Verifiers, D!Told, DP!Told, D!Line, DP!Line

\* What requesters are told changes by one of four moves, and the one that grants
\* has the owner's agreement.
LEMMA StatusMoves ==
    ASSUME KInv, [Next]_vars
    PROVE  \/ Status' = Status
           \/ \E r \in DP!Verifiers :
                /\ Status[r] = "idle"
                /\ Status' = [Status EXCEPT ![r] = "asked"]
           \/ \E r \in DP!Verifiers :
                /\ Status[r] = "asked" /\ r \in Agreed
                /\ Status' = [Status EXCEPT ![r] = "granted"]
           \/ \E S \in SUBSET DP!Verifiers :
                /\ \A r \in S : Status[r] \in {"idle", "asked"}
                /\ Status' = [r \in DP!Verifiers |-> IF r \in S THEN "refused" ELSE Status[r]]
<1>1. [DP!Abstract!Next]_(DP!Abstract!avars)
  BY DaemonMoves, DaemonAssumptions, DP!DaemonStepMaps DEF KInv, DaemonInv
<1>2. ASSUME NEW r \in DP!Verifiers, DP!Consented(r)
      PROVE  r \in Agreed
  <2>1. [key |-> key[r], line |-> DP!Line(r)] \in signed /\ DP!Told(r) # "idle"
    BY <1>2 DEF DP!Consented
  <2>2. DP!Line(r) \in touched
    BY <2>1 DEF KInv, PhoneHoldsRead
  <2>. QED  BY <2>1, <2>2 DEF Agreed
<1>3. CASE UNCHANGED DP!Abstract!avars
  BY <1>3 DEF DP!Abstract!avars, Status
<1>4. ASSUME NEW r \in DP!Verifiers, DP!Abstract!Ask(r)
      PROVE  /\ Status[r] = "idle"
             /\ Status' = [Status EXCEPT ![r] = "asked"]
  BY <1>4 DEF DP!Abstract!Ask, Status
<1>5. ASSUME NEW r \in DP!Verifiers, DP!Abstract!Consent(r)
      PROVE  Status' = Status
  BY <1>5 DEF DP!Abstract!Consent, Status
<1>6. ASSUME NEW r \in DP!Verifiers, DP!Abstract!Grant(r)
      PROVE  /\ Status[r] = "asked" /\ DP!Consented(r)
             /\ Status' = [Status EXCEPT ![r] = "granted"]
  BY <1>6 DEF DP!Abstract!Grant, Status
<1>7. ASSUME NEW S \in SUBSET DP!Verifiers, DP!Abstract!Refuse(S)
      PROVE  /\ \A r \in S : Status[r] \in {"idle", "asked"}
             /\ Status' = [r \in DP!Verifiers |-> IF r \in S THEN "refused" ELSE Status[r]]
  BY <1>7 DEF DP!Abstract!Refuse, Status
<1>. QED  BY <1>1, <1>2, <1>3, <1>4, <1>5, <1>6, <1>7 DEF DP!Abstract!Next

\* Nobody who has not asked is agreed to: the phone holds no request of theirs.
LEMMA UnaskedUntouched ==
    ASSUME KInv, NEW c \in Tasks, NEW line \in touched, line.challenge = c
    PROVE  ~DP!Unasked(c)
BY DEF KInv, PhoneHoldsRead, DaemonInv, DP!ApprovalInv, DP!ApprovalParts, DP!LinesAreSent

\* Without a new touch, agreement neither comes nor goes: no task takes another id
\* once it has asked, and none has an id the phone could have approved before.
LEMMA AgreementStays ==
    ASSUME KInv, [Next]_vars, UNCHANGED touched
    PROVE  Agreed' = Agreed
<1>1. DP!TypeOK /\ DP!TypeOK'
  BY DaemonInvStep DEF KInv, DaemonInv, DP!ApprovalInv
<1>2. /\ DP!Asked \subseteq DP!Asked'
      /\ DP!DrawsNothing \/ (\E c \in Tasks : DP!Draws(c)) \/ DP!Restart
  BY <1>1, DaemonMoves, DaemonAssumptions, DP!StepDraws
<1>3. ASSUME NEW c \in Tasks, ~DP!Unasked(c)
      PROVE  DP!Line(c)' = DP!Line(c) /\ ~DP!Unasked(c)'
  <2>1. ~DP!Unasked(c)'
    BY <1>2, <1>3 DEF DP!Asked
  <2>2. id'[c] = id[c]
    BY <1>1, <1>2, <1>3 DEF DP!DrawsNothing, DP!Draws, DP!Restart, DP!TypeOK
  <2>. QED  BY <2>1, <2>2 DEF DP!Line
<1>4. \A c \in DP!Verifiers : /\ DP!Told(c) # "idle" <=> ~DP!Unasked(c)
                              /\ DP!Told(c)' # "idle" <=> ~DP!Unasked(c)'
  BY <1>1 DEF DP!Told, DP!Unasked, DP!TypeOK, DP!InProgress, DP!Verifiers
<1>5. \A c \in DP!Verifiers : c \in Tasks
  BY DEF DP!Verifiers
<1>6. ASSUME NEW c \in DP!Verifiers
      PROVE  c \in Agreed' <=> c \in Agreed
  <2>1. CASE DP!Unasked(c)
    <3>1. DP!Line(c) \notin touched /\ DP!Line(c)' \notin touched
      BY <1>5, <2>1, UnaskedUntouched DEF DP!Line
    <3>. QED  BY <3>1 DEF Agreed
  <2>2. CASE ~DP!Unasked(c)
    BY <1>3, <1>4, <1>5, <2>2 DEF Agreed
  <2>. QED  BY <2>1, <2>2
<1>. QED  BY <1>6 DEF Agreed

\* A touch leaves the daemon's tasks alone.
LEMMA TouchMoves ==
    ASSUME [Next]_vars
    PROVE  \/ UNCHANGED touched
           \/ /\ touched' = touched \cup {prompt}
              /\ UNCHANGED <<pc, id, verdict>>
<1>1. CASE DaemonOnly
  BY <1>1, DaemonOnlyLeaves DEF phoneVars
<1>2. ASSUME NEW k \in Conns,
             PhoneConnects(k) \/ Break(k) \/ PhoneReads(k) \/ DaemonReads(k)
      PROVE  UNCHANGED touched
  BY <1>2 DEF PhoneConnects, Break, PhoneReads, DaemonReads, L!Present, phoneVars
<1>3. CASE Touch
  <2>1. touched' = touched \cup {prompt}
    BY <1>3 DEF Touch, L!FingerprintAccepted
  <2>2. UNCHANGED <<pc, id, verdict>>
    BY <1>3 DEF Touch, D!Sign, D!taskVars, daemonVars
  <2>. QED  BY <2>1, <2>2
<1>4. ASSUME SendAnswer \/ LinkSteps
      PROVE  UNCHANGED touched
  BY <1>4 DEF SendAnswer, LinkSteps, L!SendAnswer, phoneVars
<1>5. ASSUME OtherPhoneSteps
      PROVE  /\ UNCHANGED <<pc, id, verdict>>
             /\ touched' = touched \/ touched' = touched \cup {prompt}
  BY <1>5 DEF OtherPhoneSteps, daemonVars, L!ExpiryChecks, L!ExpiryClears, L!Recompose,
              L!ClearSlot, L!TapApprove, L!PromptFails, L!CredentialFails, L!TapDeny,
              L!NotificationDeny
<1>. QED  BY <1>1, <1>2, <1>3, <1>4, <1>5 DEF Next, DaemonOnly

\* Every step of the two programs and the link is a step of Authorization, or a
\* stutter.
LEMMA CompositionStepMaps ==
    ASSUME KInv, [Next]_vars
    PROVE  [Granted!Next]_(Granted!avars)
<1>. USE SameMapping
<1>1. CASE UNCHANGED touched
  <2>1. Agreed' = Agreed
    BY <1>1, AgreementStays
  <2>2. CASE Status' = Status
    BY <2>1, <2>2 DEF Granted!avars
  <2>3. ASSUME NEW r \in DP!Verifiers, Status[r] = "idle",
               Status' = [Status EXCEPT ![r] = "asked"]
        PROVE  Granted!Ask(r)
    BY <2>1, <2>3 DEF Granted!Ask
  <2>4. ASSUME NEW r \in DP!Verifiers, Status[r] = "asked", r \in Agreed,
               Status' = [Status EXCEPT ![r] = "granted"]
        PROVE  Granted!Grant(r)
    BY <2>1, <2>4 DEF Granted!Grant
  <2>5. ASSUME NEW S \in SUBSET DP!Verifiers,
               \A r \in S : Status[r] \in {"idle", "asked"},
               Status' = [r \in DP!Verifiers |-> IF r \in S THEN "refused" ELSE Status[r]]
        PROVE  Granted!Refuse(S)
    BY <2>1, <2>5 DEF Granted!Refuse
  <2>. QED  BY <2>2, <2>3, <2>4, <2>5, StatusMoves DEF Granted!Next
<1>2. CASE touched' = touched \cup {prompt} /\ UNCHANGED <<pc, id, verdict>>
  <2>1. \A c \in DP!Verifiers : DP!Told(c)' = DP!Told(c) /\ DP!Line(c)' = DP!Line(c)
    BY <1>2 DEF DP!Told, DP!Line
  <2>2. Status' = Status
    BY <2>1 DEF Status
  <2>3. CASE Agreed' = Agreed
    BY <2>2, <2>3 DEF Granted!avars
  <2>4. CASE Agreed' # Agreed
    <3>1. \A c \in DP!Verifiers : c \in Agreed => c \in Agreed'
      BY <1>2, <2>1 DEF Agreed
    <3>2. \A c \in DP!Verifiers : c \in Agreed' /\ c \notin Agreed => DP!Line(c) = prompt
      BY <1>2, <2>1 DEF Agreed
    <3>3. PICK r \in DP!Verifiers : r \in Agreed' /\ r \notin Agreed
      BY <2>4, <3>1 DEF Agreed
    <3>4. DP!Line(r) = prompt /\ \A c : DP!Line(c) = prompt => c = r
      BY <3>2, <3>3 DEF DP!Line
    <3>5. Agreed' = Agreed \cup {r}
      BY <3>1, <3>2, <3>3, <3>4 DEF Agreed
    <3>6. Status[r] # "idle"
      BY <2>1, <3>3 DEF Agreed, Status
    <3>7. Granted!Consent(r)
      BY <2>2, <3>5, <3>6 DEF Granted!Consent
    <3>. QED  BY <3>7 DEF Granted!Next
  <2>. QED  BY <2>3, <2>4
<1>. QED  BY <1>1, <1>2, TouchMoves

\* A verification is granted only when the owner touched the sensor for a prompt
\* showing that very request, whatever is lost, replayed, answered late or
\* restarted in between, and an answer once given is never changed.
THEOREM CompositionImplementsAuthorization == Spec => ImplementsAuthorization
<1>1. Init => Granted!Init
  <2>. SUFFICES ASSUME Init
                PROVE  Granted!Init
    OBVIOUS
  <2>1. \A c \in D!Verifiers : D!Told(c) = "idle"
    BY DEF Init, D!Init, D!Told, D!Verifiers
  <2>. QED  BY <2>1 DEF Granted!Init
<1>2. KInv /\ [Next]_vars => [Granted!Next]_(Granted!avars)
  BY CompositionStepMaps
<1>. QED
  BY <1>1, <1>2, KInvInit, KInvStep, PTL DEF Spec, ImplementsAuthorization, Granted!Spec

-------------------------------------------------------------------------------
(***************************************************************************)
(* Late replies. An answer finds its task by its id; in one process that   *)
(* is the task whose request was answered, since no two get the same id.   *)
(***************************************************************************)

\* The tail of a line of answers is not the line.
LEMMA TailDiffers ==
    ASSUME NEW S, NEW s \in Seq(S), s # <<>>
    PROVE  Tail(s) # s
<1>. DEFINE n == Len(s)
            t == Len(Tail(s))
<1>1. n \in Nat /\ t = n - 1
  OBVIOUS
<1>2. t = n => Tail(s) # s
  <2>. HIDE DEF n, t
  <2>. QED  BY <1>1
<1>3. Tail(s) = s => t = n
  BY Zenon
<1>. QED  BY <1>2, <1>3

\* A task's mailbox is filled only by an answer the daemon reads.
LEMMA MailComesFromReading ==
    ASSUME KInv, [Next]_vars, NEW c \in Tasks, mail'[c] # mail[c], mail'[c] # None
    PROVE  \E k \in Conns : DaemonReads(k)
<1>. USE DEF D!taskVars
<1>2. ASSUME NEW d \in Tasks, D!PamConnects(d) \/ D!Runs(d)
      PROVE  UNCHANGED mail
  BY <1>2 DEF D!Runs, D!PamConnects, D!AcceptPam, D!NoDevice, D!RunVerification,
              D!AskPhone, D!LockOutbound, D!SendLine, D!SendFails, D!Timeout, D!Resume,
              D!Answer
<1>3. ASSUME NEW k \in Conns,
             \/ D!AcceptPhone(k) \/ D!AdoptPhone(k) \/ D!ReaderEnds(k)
             \/ PhoneConnects(k) \/ Break(k) \/ PhoneReads(k)
      PROVE  UNCHANGED mail
  <2>1. \/ D!AcceptPhone(k) \/ D!AdoptPhone(k) \/ D!ReaderEnds(k)
        \/ D!PhoneConnects(k) \/ D!Break(k) \/ D!PhoneReads(k)
    BY <1>3 DEF PhoneConnects, Break, PhoneReads
  <2>. QED  BY <2>1 DEF D!AcceptPhone, D!AdoptPhone, D!ReaderEnds, D!PhoneConnects,
                        D!Break, D!PhoneReads
<1>4. ASSUME D!Restart
      PROVE  mail'[c] = None
  BY <1>4 DEF D!Restart
<1>5. ASSUME Touch
      PROVE  UNCHANGED mail
  BY <1>5 DEF Touch, D!Sign, daemonVars
<1>6. ASSUME SendAnswer \/ OtherPhoneSteps \/ LinkSteps
      PROVE  UNCHANGED mail
  BY <1>6 DEF SendAnswer, OtherPhoneSteps, LinkSteps, daemonVars
<1>7. ASSUME UNCHANGED vars
      PROVE  UNCHANGED mail
  BY <1>7 DEF vars, daemonVars
<1>. QED  BY <1>2, <1>3, <1>4, <1>5, <1>6, <1>7 DEF Next, DaemonSteps

\* The line an answer is to is the request of the task with its id.
LEMMA AnswerNamesItsTask ==
    ASSUME KInv, restarts = 0, NEW c \in Tasks, NEW line \in seen, id[c] = line.id
    PROVE  line = D!Line(c)
<1>1. line \in DP!Sent /\ line.challenge \in Tasks
  BY DEF DP!Sent, KInv, DaemonInv, DP!ApprovalInv, DP!TypeOK, DP!Lines
<1>2. /\ line = DP!Line(line.challenge) /\ line.id # 0
      /\ \A d, e \in Tasks : id[d] = id[e] /\ id[d] # 0 => d = e
  BY <1>1 DEF KInv, DaemonInv, DP!IdsOnce
<1>3. line.id = id[line.challenge]
  BY <1>2 DEF DP!Line
<1>4. line.challenge = c
  BY <1>1, <1>2, <1>3
<1>. QED  BY <1>2, <1>4 DEF DP!Line, D!Line

\* The step that fills a mailbox does so with an answer to that task's request.
LEMMA OnlyItsOwnAnswer ==
    ASSUME KInv, [Next]_vars, restarts = 0,
           NEW k \in Conns, up[k] # <<>>, up'[k] = Tail(up[k]),
           NEW c \in Tasks, mail'[c] # mail[c], mail'[c] # None
    PROVE  Head(up[k]).on = D!Line(c)
<1>1. up \in [Conns -> Seq(L!Answers)]
  BY DEF KInv, LinkTypes, T!TypeOK
<1>2. PICK j \in Conns : DaemonReads(j)
  BY MailComesFromReading
<1>3. up' = [up EXCEPT ![j] = Tail(@)]
  BY <1>2 DEF DaemonReads, T!DaemonReads
<1>4. j = k
  <2>1. j # k => up'[k] = up[k]
    BY <1>1, <1>3
  <2>2. up[k] \in Seq(L!Answers)
    BY <1>1
  <2>. QED  BY <2>1, <2>2, TailDiffers
<1>. DEFINE a == Head(up[k])
<1>5. a \in L!Answers /\ a.on \in seen
  <2>1. 1 \in DOMAIN up[k] /\ a = up[k][1] /\ a \in L!Answers
    BY <1>1
  <2>. QED  BY <2>1 DEF KInv, AnswersAreMade, Made
<1>. HIDE DEF a
<1>. DEFINE m == AsReply(a)
<1>6. m.id = a.on.id
  BY DEF AsReply
<1>7. D!Deliver(m)
  BY <1>2, <1>4 DEF DaemonReads, D!Receive, a
<1>. HIDE DEF m
<1>8. c \in DP!Woken(m)
  BY <1>7 DEF D!Deliver, D!Woken, DP!Woken, D!Waiting, DP!Waiting, D!Waiter, DP!Waiter
<1>9. id[c] = m.id
  BY <1>8, DaemonAssumptions, DP!WokenHasId DEF KInv, DaemonInv
<1>10. a.on = D!Line(c)
  BY <1>5, <1>6, <1>9, AnswerNamesItsTask
<1>. QED  BY <1>10 DEF a

\* While the daemon does not restart, an answer wakes only the task whose request
\* it answers; one that comes after its task has given up finds no waiter and is
\* discarded, however the link reordered, delayed or lost the others.
THEOREM LateRepliesDiscarded ==
    ASSUME MaxRestarts = 0
    PROVE  Spec => LateReplyIsDiscarded
<1>1. ASSUME KInv, [Next]_vars
      PROVE  [\A k \in Conns : up[k] # <<>> /\ up'[k] = Tail(up[k]) =>
                \A c \in Tasks : mail'[c] # mail[c] /\ mail'[c] # None =>
                  Head(up[k]).on = D!Line(c)]_vars
  <2>1. restarts = 0
    BY <1>1 DEF KInv, DaemonInv, DP!ApprovalInv, DP!TypeOK
  <2>. QED  BY <1>1, <2>1, OnlyItsOwnAnswer
<1>. QED  BY <1>1, KInvInit, KInvStep, PTL DEF Spec, LateReplyIsDiscarded
================================================================================
