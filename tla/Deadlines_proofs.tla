--------------------------- MODULE Deadlines_proofs ---------------------------
(***************************************************************************)
(* Proofs about the three clocks, for any calls and any limits.            *)
(***************************************************************************)
EXTENDS Deadlines, TLAPS

CallStates == {"new", "reading", "granted", "refused", "left"}
TaskStates == {"none", "queued", "waiting", "ok", "no", "done", "unheard"}

Typed ==
    /\ call \in [Calls -> CallStates] /\ task \in [Calls -> TaskStates]
    /\ waited \in [Calls -> Nat] /\ late \in [Calls -> Nat]
    /\ age \in [Calls -> Nat] /\ lag \in [Calls -> Nat]
    /\ wire \subseteq Calls /\ timers \subseteq Calls /\ shown \subseteq Calls
    /\ slot \in timers \cup {None}
    /\ answers \subseteq Answers
    /\ signals \in 0..MaxSignals

\* Nothing of a request is anywhere before it is written.
Unsent(c) ==
    task[c] \in {"none", "queued"} => age[c] = 0 /\ c \notin wire \cup timers \cup shown

\* No clock runs past its limit.
InTime(c) ==
    /\ waited[c] <= Limit[c]
    /\ task[c] = "waiting" => age[c] <= VerifyTimeout
    /\ c \in wire => age[c] <= MaxLag
    /\ lag[c] <= MaxLag
    /\ c \in timers => age[c] <= lag[c] + RequestTTL

\* A request whose expiry has come has been out for that long.
Expired(c) == task[c] = "waiting" /\ c \in shown \ timers => age[c] >= RequestTTL

\* Who may still be waited for, and what the program's read has to do with the age
\* of its request.
Heard(c) ==
    /\ call[c] = "new" => task[c] = "none"
    /\ call[c] = "granted" => task[c] = "done"
    /\ call[c] = "reading" => task[c] \in {"queued", "waiting", "ok", "no"}
    /\ call[c] = "reading" /\ task[c] = "waiting" => waited[c] <= late[c] + age[c]
    /\ call[c] = "reading" /\ task[c] = "ok" => waited[c] <= late[c] + VerifyTimeout
    /\ call[c] = "refused" /\ task[c] = "queued" => Timed(c) /\ waited[c] = Limit[c]
    /\ call[c] = "refused" /\ task[c] \in {"waiting", "ok", "unheard"} =>
          Timed(c) /\ late[c] + VerifyTimeout >= Limit[c]

IInv ==
    /\ Typed
    /\ \A c \in Calls : Unsent(c) /\ InTime(c) /\ Expired(c) /\ Heard(c)

\* No clock has started.
LEMMA InitIInv == Init => IInv
BY DeadlineAssumption DEF Init, IInv, Typed, CallStates, TaskStates, Unsent, InTime,
   Expired, Heard

\* Types.
LEMMA TypedStep == IInv /\ [Next]_vars => Typed'
<1>. SUFFICES ASSUME IInv, [Next]_vars
              PROVE  Typed'
  OBVIOUS
<1>. USE DeadlineAssumption
     DEF IInv, Typed, CallStates, TaskStates, clientVars, phoneVars
<1>1. ASSUME NEW c \in Calls,
             Ask(c) \/ CannotAsk(c) \/ GiveUp(c) \/ Leave(c) \/ Interrupt(c)
      PROVE  Typed'
  BY <1>1 DEF Ask, CannotAsk, GiveUp, Leave, Interrupt
<1>2. ASSUME NEW c \in Calls, Send(c) \/ SendFails(c) \/ Timeout(c) \/ Answer(c)
      PROVE  Typed'
  BY <1>2 DEF Send, SendFails, Timeout, Answer
<1>3. ASSUME NEW a \in Answers, Deliver(a)
      PROVE  Typed'
  BY <1>3 DEF Deliver, Answers
<1>4. CASE DaemonEnds
  BY <1>4 DEF DaemonEnds
<1>5. ASSUME NEW c \in Calls, Present(c) \/ Lose(c) \/ Expire(c)
      PROVE  Typed'
  BY <1>5 DEF Present, Lose, Expire, ExpiryIsDue
<1>6. ASSUME NEW c \in Calls, Touch(c)
      PROVE  Typed'
  BY <1>6 DEF Touch, Answers
<1>7. CASE Tick
  BY <1>7 DEF Tick
<1>8. CASE UNCHANGED vars
  BY <1>8 DEF vars
<1>. QED  BY <1>1, <1>2, <1>3, <1>4, <1>5, <1>6, <1>7, <1>8 DEF Next, Fires

\* One unit of time: whatever is due stops it.
LEMMA TickStep ==
    ASSUME IInv, Tick, NEW c \in Calls
    PROVE  Unsent(c)' /\ InTime(c)' /\ Expired(c)' /\ Heard(c)'
<1>. USE DeadlineAssumption DEF IInv, Typed
<1>1. ~Due(c)
  BY DEF Tick
<1>2. /\ waited'[c] = IF call[c] = "reading" /\ Timed(c) /\ waited[c] < Limit[c]
                      THEN waited[c] + 1 ELSE IF task[c] = "queued" THEN waited[c] ELSE 0
      /\ age'[c] = IF task[c] = "waiting" \/ c \in wire \cup timers THEN age[c] + 1 ELSE 0
      /\ lag'[c] = IF c \in timers THEN lag[c] ELSE 0
      /\ late'[c] = IF task[c] \in {"waiting", "unheard"} THEN late[c] ELSE 0
  BY DEF Tick
<1>3. UNCHANGED <<call, task, wire, timers, slot, shown>>
  BY DEF Tick
<1>4. waited[c] \in Nat /\ age[c] \in Nat /\ lag[c] \in Nat /\ late[c] \in Nat
      /\ Limit[c] \in Nat
  OBVIOUS
<1>5. Unsent(c) /\ InTime(c) /\ Expired(c) /\ Heard(c)
  OBVIOUS
<1>. HIDE DEF IInv, Typed
<1>6. Unsent(c)'
  BY <1>2, <1>3, <1>5 DEF Unsent
<1>7. InTime(c)'
  BY <1>1, <1>2, <1>3, <1>4, <1>5 DEF InTime, Due, VerifyTimesOut, ExpiryIsDue
<1>8. Expired(c)'
  BY <1>2, <1>3, <1>4, <1>5 DEF Expired
<1>9. Heard(c)'
  BY <1>1, <1>2, <1>3, <1>4, <1>5 DEF Heard, Due, Timed, ReadTimesOut
<1>. QED  BY <1>6, <1>7, <1>8, <1>9

\* The program, the daemon and the phone, one request at a time.
LEMMA ClocksStep ==
    ASSUME IInv, [Next]_vars, NEW c \in Calls
    PROVE  Unsent(c)' /\ InTime(c)' /\ Expired(c)' /\ Heard(c)'
<1>. USE DeadlineAssumption
     DEF IInv, Typed, CallStates, TaskStates, Unsent, InTime, Expired, Heard, Timed,
         clientVars, phoneVars
<1>. DEFINE Goal == Unsent(c)' /\ InTime(c)' /\ Expired(c)' /\ Heard(c)'
<1>1. ASSUME NEW d \in Calls, Ask(d) \/ CannotAsk(d)
      PROVE  Goal
  BY <1>1 DEF Ask, CannotAsk
<1>2. ASSUME NEW d \in Calls, GiveUp(d)
      PROVE  Goal
  BY <1>2 DEF GiveUp, ReadTimesOut
<1>3. ASSUME NEW d \in Calls, Leave(d) \/ Interrupt(d)
      PROVE  Goal
  BY <1>3 DEF Leave, Interrupt
<1>4. ASSUME NEW d \in Calls, Send(d)
      PROVE  Goal
  BY <1>4 DEF Send
<1>5. ASSUME NEW d \in Calls, SendFails(d) \/ Timeout(d)
      PROVE  Goal
  <2>1. CASE c = d
    <3>1. /\ task[c] \in {"queued", "waiting"} /\ task'[c] = "no"
          /\ UNCHANGED <<call, waited, late, age, lag, wire, timers, shown>>
      BY <1>5, <2>1 DEF SendFails, Timeout, VerifyTimesOut
    <3>. QED  BY <3>1
  <2>2. CASE c # d
    <3>1. /\ task'[c] = task[c]
          /\ UNCHANGED <<call, waited, late, age, lag, wire, timers, shown>>
      BY <1>5, <2>2 DEF SendFails, Timeout
    <3>. QED  BY <3>1
  <2>. QED  BY <2>1, <2>2
<1>6. ASSUME NEW d \in Calls, Answer(d)
      PROVE  Goal
  BY <1>6 DEF Answer
<1>7. ASSUME NEW a \in Answers, Deliver(a)
      PROVE  Goal
  BY <1>7 DEF Deliver, Answers
<1>8. CASE DaemonEnds
  BY <1>8 DEF DaemonEnds
<1>9. ASSUME NEW d \in Calls, Present(d)
      PROVE  Goal
  BY <1>9 DEF Present
<1>10. ASSUME NEW d \in Calls, Lose(d) \/ Touch(d)
      PROVE  Goal
  BY <1>10 DEF Lose, Touch
<1>11. ASSUME NEW d \in Calls, Expire(d)
      PROVE  Goal
  BY <1>11 DEF Expire, ExpiryIsDue
<1>12. CASE Tick
  BY <1>12, TickStep
<1>13. CASE UNCHANGED vars
  BY <1>13 DEF vars
<1>. QED  BY <1>1, <1>2, <1>3, <1>4, <1>5, <1>6, <1>7, <1>8, <1>9, <1>10, <1>11,
          <1>12, <1>13 DEF Next, Fires

\* The invariant holds of every behaviour.
LEMMA IInvAlways == Spec => []IInv
<1>1. IInv /\ [Next]_vars => IInv'
  BY TypedStep, ClocksStep DEF IInv
<1>. QED  BY <1>1, InitIInv, PTL DEF Spec

\* Types, and that no read outlasts its limit.
THEOREM DeadlinesTyped == Spec => []TypeOK
<1>1. IInv => TypeOK
  BY DeadlineAssumption DEF IInv, Typed, TypeOK, InTime, CallStates, TaskStates
<1>. QED  BY <1>1, IInvAlways, PTL

\* An approval comes too late only for a program that left, or whose request waited
\* in the daemon for what the two limits leave between them.
THEOREM GrantIsHeardCorrect == Spec => []GrantIsHeard
<1>1. IInv => GrantIsHeard
  BY DEF IInv, Typed, CallStates, Heard, GrantIsHeard
<1>. QED  BY <1>1, IInvAlways, PTL

\* Where the phone's limit is the daemon's, a prompt outlives its request by the way
\* to the phone at most, and is not withdrawn while the daemon waits.
THEOREM PromptMirrorsRequestCorrect == Spec => []PromptMirrorsRequest
<1>1. IInv => PromptMirrorsRequest
  <2>. SUFFICES ASSUME IInv, NEW c \in Calls
                PROVE  /\ RequestTTL <= VerifyTimeout /\ slot = c
                          => age[c] <= VerifyTimeout + lag[c]
                       /\ VerifyTimeout <= RequestTTL /\ task[c] = "waiting"
                             /\ c \in shown \ timers => age[c] = VerifyTimeout
    BY DEF PromptMirrorsRequest
  <2>1. /\ age[c] \in Nat /\ lag[c] \in Nat
        /\ VerifyTimeout \in Nat /\ RequestTTL \in Nat
    BY DeadlineAssumption DEF IInv, Typed
  <2>2. slot = c => c \in timers
    BY DeadlineAssumption DEF IInv, Typed
  <2>3. c \in timers => age[c] <= lag[c] + RequestTTL
    BY DEF IInv, InTime
  <2>4. task[c] = "waiting" => age[c] <= VerifyTimeout
    BY DEF IInv, InTime
  <2>5. task[c] = "waiting" /\ c \in shown \ timers => age[c] >= RequestTTL
    BY DEF IInv, Expired
  <2>. QED  BY <2>1, <2>2, <2>3, <2>4, <2>5
<1>. QED  BY <1>1, IInvAlways, PTL
===============================================================================
