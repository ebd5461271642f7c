---------------------------- MODULE Service_proofs ----------------------------
(***************************************************************************)
(* Proofs about the phone's request slot and the service around it, for    *)
(* any requests and any number of stops.                                   *)
(***************************************************************************)
EXTENDS Service, TLAPS

Presented == {r \in Requests : expiry[r] # "none"}

\* What anybody holds has been presented.
HeldWasPresented ==
    /\ slot # None => slot \in Presented
    /\ shown # None => shown \in Presented
    /\ prompt # None => prompt \in Presented
    /\ main # None => main.answer.on \in Presented
    /\ \A i \in DOMAIN outbox : outbox[i].on \in Presented

\* The answer being given, as ApprovedWasTouched has it for those queued.
GivenWasTouched == main # None /\ main.answer.kind # "denied" => main.answer.on \in touched

\* A request approved in the queue is on no screen, and in the slot only until the
\* main thread has cleared it.
Spent ==
    \A i \in DOMAIN outbox : outbox[i].kind # "denied" =>
        /\ outbox[i].on # shown /\ outbox[i].on # prompt
        /\ outbox[i].on = slot => main # None /\ main.stage = "clear"

\* The approval being given is the first of its request, and no screen is up.
FirstOfItsKind ==
    main # None /\ main.stage = "send" /\ main.answer.kind # "denied" =>
        /\ shown = None /\ prompt = None
        /\ \A i \in DOMAIN outbox : outbox[i].kind # "denied" => outbox[i].on # main.answer.on

\* Nothing is posted without the permission.
NoticeNeedsPermission == ~allowed => notice = None

IInv ==
    /\ ServiceTypeOK
    /\ SlotHasExpiry
    /\ HeldWasPresented
    /\ GivenWasTouched /\ ApprovedWasTouched
    /\ Spent /\ FirstOfItsKind /\ SignedOnce
    /\ NoticeNeedsPermission /\ NoticeIsPending

\* The steps at the slot, whoever takes them.
SlotSteps == Controller \/ NotificationDeny \/ \E r \in Requests : Present(r)

\* What the screen, the prompt and the notification's Deny leave alone.
ScreenOrDeny == Screen \/ NotificationDeny

\* Nothing is pending, nothing queued.
LEMMA InitIInv == ServiceInit => IInv
<1>. SUFFICES ASSUME ServiceInit
              PROVE  IInv
  OBVIOUS
<1>. USE RequestAssumption, StopsAssumption DEF ServiceInit, Init
<1>1. outbox \in Seq(Answers) /\ DOMAIN outbox = {}
  <2>1. outbox = <<>>
    OBVIOUS
  <2>2. <<>> \in Seq(Answers)
    OBVIOUS
  <2>3. Len(<<>>) = 0 /\ DOMAIN <<>> = 1..Len(<<>>)
    OBVIOUS
  <2>4. 1..0 = {}
    OBVIOUS
  <2>. QED  BY <2>1, <2>2, <2>3, <2>4
<1>2. ServiceTypeOK
  <2>1. TypeOK
    BY <1>1 DEF TypeOK
  <2>2. /\ running \in BOOLEAN /\ collected \in BOOLEAN /\ allowed \in BOOLEAN
        /\ intent \in BOOLEAN
    BY Zenon
  <2>3. notice \in Requests \cup {None} /\ stops \in 0..MaxStops
    OBVIOUS
  <2>. QED  BY <2>1, <2>2, <2>3, Zenon DEF ServiceTypeOK
<1>3. HeldWasPresented /\ ApprovedWasTouched /\ Spent /\ SignedOnce
  BY <1>1 DEF HeldWasPresented, ApprovedWasTouched, Spent, SignedOnce
<1>. QED  BY <1>2, <1>3 DEF IInv, SlotHasExpiry, GivenWasTouched, FirstOfItsKind,
          NoticeNeedsPermission, NoticeIsPending

\* The variables of LinkController keep their types in every step at the slot.
LEMMA SlotTypes == TypeOK /\ SlotSteps => TypeOK'
<1>. SUFFICES ASSUME TypeOK, SlotSteps
              PROVE  TypeOK'
  OBVIOUS
<1>. USE RequestAssumption DEF TypeOK
<1>1. ASSUME NEW r \in Requests, ExpiryChecks(r) \/ ExpiryClears(r) \/ Present(r)
      PROVE  TypeOK'
  BY <1>1 DEF ExpiryChecks, ExpiryClears, Present
<1>2. CASE Screen
  <2>. USE DEF Idle, Giving, MainStates, Answers
  <2>1. CASE Recompose \/ TapApprove \/ PromptFails
    BY <2>1 DEF Recompose, TapApprove, PromptFails
  <2>2. CASE FingerprintAccepted
    BY <2>2 DEF FingerprintAccepted
  <2>3. CASE CredentialFails \/ TapDeny
    BY <2>3 DEF CredentialFails, TapDeny
  <2>. QED  BY <1>2, <2>1, <2>2, <2>3 DEF Screen
<1>3. CASE NotificationDeny
  BY <1>3 DEF NotificationDeny, Idle, Giving, MainStates, Answers
<1>4. CASE SendAnswer
  <2>1. main.answer \in Answers /\ [main EXCEPT !.stage = "clear"] \in MainStates
    BY <1>4 DEF SendAnswer, MainStates
  <2>. QED  BY <1>4, <2>1 DEF SendAnswer
<1>5. CASE ClearSlot
  BY <1>5 DEF ClearSlot
<1>. QED  BY <1>1, <1>2, <1>3, <1>4, <1>5 DEF SlotSteps, Controller

\* What fills the slot starts an expiry, and only that expiry ends it, emptying the slot.
LEMMA SlotExpiry == TypeOK /\ SlotHasExpiry /\ SlotSteps => SlotHasExpiry'
<1>. SUFFICES ASSUME TypeOK, SlotHasExpiry, SlotSteps
              PROVE  SlotHasExpiry'
  OBVIOUS
<1>. USE RequestAssumption DEF TypeOK, SlotHasExpiry
<1>1. ASSUME NEW r \in Requests, ExpiryChecks(r) \/ ExpiryClears(r) \/ Present(r)
      PROVE  SlotHasExpiry'
  BY <1>1 DEF ExpiryChecks, ExpiryClears, Present, SameId
<1>2. CASE Screen \/ NotificationDeny \/ SendAnswer \/ ClearSlot
  BY <1>2 DEF Screen, Recompose, TapApprove, FingerprintAccepted, PromptFails,
     CredentialFails, TapDeny, NotificationDeny, SendAnswer, ClearSlot
<1>. QED  BY <1>1, <1>2 DEF SlotSteps, Controller

\* What is queued: a fact of every answer in the queue carries over when the queue is
\* left alone, and when an answer it holds of is appended.
LEMMA QueueStep ==
    ASSUME TypeOK, SendAnswer, linked
    PROVE  /\ DOMAIN outbox' = 1..Len(outbox) + 1 /\ DOMAIN outbox = 1..Len(outbox)
           /\ Len(outbox) \in Nat
           /\ \A i \in DOMAIN outbox : outbox'[i] = outbox[i]
           /\ outbox'[Len(outbox) + 1] = main.answer
<1>1. outbox \in Seq(Answers) /\ main.answer \in Answers
  BY DEF TypeOK, SendAnswer, MainStates
<1>2. outbox' = Append(outbox, main.answer)
  BY DEF SendAnswer
<1>. QED  BY <1>1, <1>2

\* Nothing is held that was not presented.
LEMMA HeldStep == TypeOK /\ HeldWasPresented /\ SlotSteps => HeldWasPresented'
<1>. SUFFICES ASSUME TypeOK, HeldWasPresented, SlotSteps
              PROVE  HeldWasPresented'
  OBVIOUS
<1>. USE RequestAssumption DEF HeldWasPresented, Presented
<1>1. ASSUME NEW r \in Requests, ExpiryChecks(r) \/ ExpiryClears(r) \/ Present(r)
      PROVE  HeldWasPresented'
  <2>1. expiry \in [Requests -> {"none", "sleeping", "clearing", "over"}]
    BY DEF TypeOK
  <2>2. \A q \in Presented : q \in Presented'
    BY <1>1, <2>1 DEF ExpiryChecks, ExpiryClears, Present
  <2>3. slot' # None => slot' \in Presented'
    BY <1>1, <2>1, <2>2 DEF ExpiryChecks, ExpiryClears, Present
  <2>4. UNCHANGED <<shown, prompt, main, outbox>>
    BY <1>1 DEF ExpiryChecks, ExpiryClears, Present
  <2>. QED  BY <2>2, <2>3, <2>4
<1>2. CASE ScreenOrDeny
  BY <1>2 DEF ScreenOrDeny, Screen, Recompose, TapApprove, FingerprintAccepted,
     PromptFails, CredentialFails, TapDeny, NotificationDeny, Giving, Idle
<1>3. CASE SendAnswer
  <2>1. CASE linked
    BY <1>3, <2>1, QueueStep DEF SendAnswer
  <2>2. CASE ~linked
    BY <1>3, <2>2 DEF SendAnswer
  <2>. QED  BY <2>1, <2>2
<1>4. CASE ClearSlot
  BY <1>4 DEF ClearSlot
<1>. QED  BY <1>1, <1>2, <1>3, <1>4 DEF SlotSteps, Controller, ScreenOrDeny

\* An approval is given in the step that takes the fingerprint.
LEMMA TouchedStep ==
    TypeOK /\ GivenWasTouched /\ ApprovedWasTouched /\ SlotSteps
    => GivenWasTouched' /\ ApprovedWasTouched'
<1>. SUFFICES ASSUME TypeOK, GivenWasTouched, ApprovedWasTouched, SlotSteps
              PROVE  GivenWasTouched' /\ ApprovedWasTouched'
  OBVIOUS
<1>. USE DEF GivenWasTouched, ApprovedWasTouched
<1>1. ASSUME NEW r \in Requests, ExpiryChecks(r) \/ ExpiryClears(r) \/ Present(r)
      PROVE  GivenWasTouched' /\ ApprovedWasTouched'
  BY <1>1 DEF ExpiryChecks, ExpiryClears, Present
<1>2. CASE ScreenOrDeny
  BY <1>2 DEF ScreenOrDeny, Screen, Recompose, TapApprove, FingerprintAccepted,
     PromptFails, CredentialFails, TapDeny, NotificationDeny, Giving, Idle
<1>3. CASE SendAnswer
  <2>1. GivenWasTouched'
    BY <1>3 DEF SendAnswer, TypeOK, MainStates
  <2>2. CASE linked
    BY <1>3, <2>1, <2>2, QueueStep DEF SendAnswer
  <2>3. CASE ~linked
    BY <1>3, <2>1, <2>3 DEF SendAnswer
  <2>. QED  BY <2>2, <2>3
<1>4. CASE ClearSlot
  BY <1>4 DEF ClearSlot
<1>. QED  BY <1>1, <1>2, <1>3, <1>4 DEF SlotSteps, Controller, ScreenOrDeny

Once == Spent /\ FirstOfItsKind /\ SignedOnce

\* An approved request is never on the screen again.
LEMMA OnceStep == TypeOK /\ HeldWasPresented /\ Once /\ SlotSteps => Once'
<1>. SUFFICES ASSUME TypeOK, HeldWasPresented, Once, SlotSteps
              PROVE  Once'
  OBVIOUS
<1>. USE RequestAssumption DEF Once, Spent, FirstOfItsKind, SignedOnce
<1>1. ASSUME NEW r \in Requests, Present(r)
      PROVE  Once'
  <2>1. UNCHANGED <<shown, prompt, main, outbox>> /\ slot' = r
    BY <1>1 DEF Present
  <2>2. \A i \in DOMAIN outbox : outbox[i].on # r
    BY <1>1 DEF Present, HeldWasPresented, Presented
  <2>. QED  BY <2>1, <2>2
<1>2. ASSUME NEW r \in Requests, ExpiryChecks(r) \/ ExpiryClears(r)
      PROVE  Once'
  <2>1. UNCHANGED <<shown, prompt, main, outbox>> /\ slot' \in {slot, None}
    BY <1>2 DEF ExpiryChecks, ExpiryClears
  <2>2. \A i \in DOMAIN outbox : outbox[i].on # None
    BY DEF HeldWasPresented, Presented
  <2>. QED  BY <2>1, <2>2
<1>3. CASE Screen
  <2>1. UNCHANGED <<outbox, slot>> /\ main = None
    BY <1>3 DEF Screen, Recompose, TapApprove, FingerprintAccepted, PromptFails,
       CredentialFails, TapDeny, Idle
  <2>2. \A i \in DOMAIN outbox : outbox[i].on # None
    BY DEF HeldWasPresented, Presented
  <2>3. CASE Recompose \/ TapApprove \/ PromptFails
    BY <2>1, <2>2, <2>3 DEF Recompose, TapApprove, PromptFails
  <2>4. CASE FingerprintAccepted
    BY <2>1, <2>2, <2>4 DEF FingerprintAccepted, Giving
  <2>5. CASE CredentialFails \/ TapDeny
    BY <2>1, <2>2, <2>5 DEF CredentialFails, TapDeny, Giving
  <2>. QED  BY <1>3, <2>3, <2>4, <2>5 DEF Screen
<1>4. CASE NotificationDeny
  BY <1>4 DEF NotificationDeny, Idle, Giving
<1>5. CASE SendAnswer
  <2>1. CASE linked
    <3>1. /\ UNCHANGED <<slot, shown, prompt>>
          /\ main # None /\ main.stage = "send"
          /\ main' = IF SameId(slot, main.answer.on) THEN [main EXCEPT !.stage = "clear"]
                     ELSE None
      BY <1>5 DEF SendAnswer
    <3>2. main.answer.on = slot => main' # None /\ main'.stage = "clear"
      <4>. SUFFICES ASSUME main.answer.on = slot
                    PROVE  main' # None /\ main'.stage = "clear"
        OBVIOUS
      <4>1. main \in MainStates /\ main.answer \in Answers /\ slot \in Requests
        BY <3>1 DEF TypeOK, MainStates, Answers
      <4>2. SameId(slot, main.answer.on)
        BY <4>1 DEF SameId
      <4>3. main' = [main EXCEPT !.stage = "clear"]
        BY <3>1, <4>2
      <4>4. main'.stage = "clear" /\ main'.answer.on = slot
        BY <4>1, <4>3 DEF MainStates
      <4>5. main' # None
        BY <4>1, <4>3 DEF MainStates
      <4>. QED  BY <4>4, <4>5
    <3>3. main' # None => main'.stage = "clear"
      BY <3>1 DEF TypeOK, MainStates
    <3>4. main.answer.on \in Requests
      BY <3>1 DEF TypeOK, MainStates, Answers
    <3>5. Spent'
      BY <1>5, <2>1, <3>1, <3>2, <3>4, QueueStep
    <3>6. FirstOfItsKind'
      BY <3>3
    <3>7. SignedOnce'
      BY <1>5, <2>1, <3>1, QueueStep
    <3>. QED  BY <3>5, <3>6, <3>7
  <2>2. CASE ~linked
    BY <1>5, <2>2 DEF SendAnswer, TypeOK, MainStates
  <2>. QED  BY <2>1, <2>2
<1>6. CASE ClearSlot
  <2>1. \A i \in DOMAIN outbox : outbox[i].on # None
    BY DEF HeldWasPresented, Presented
  <2>. QED  BY <1>6, <2>1 DEF ClearSlot
<1>. QED  BY <1>1, <1>2, <1>3, <1>4, <1>5, <1>6 DEF SlotSteps, Controller

\* The slot's part of the invariant in every step at the slot.
SlotInv ==
    /\ TypeOK /\ SlotHasExpiry /\ HeldWasPresented
    /\ GivenWasTouched /\ ApprovedWasTouched /\ Once

\* Nothing else the service does disturbs it; stopping it empties the queue.
LEMMA SlotInvStep == SlotInv /\ [ServiceNext]_allVars => SlotInv'
<1>. SUFFICES ASSUME SlotInv, [ServiceNext]_allVars
              PROVE  SlotInv'
  OBVIOUS
<1>1. CASE SlotSteps
  BY <1>1, SlotTypes, SlotExpiry, HeldStep, TouchedStep, OnceStep DEF SlotInv
<1>2. CASE UNCHANGED lcVars /\ UNCHANGED outbox /\ linked' \in BOOLEAN
  BY <1>2 DEF SlotInv, lcVars, TypeOK, SlotHasExpiry, HeldWasPresented, Presented,
     GivenWasTouched, ApprovedWasTouched, Once, Spent, FirstOfItsKind, SignedOnce
<1>3. CASE Destroy
  <2>1. UNCHANGED lcVars /\ outbox' = <<>> /\ linked' = FALSE
    BY <1>3 DEF Destroy
  <2>2. <<>> \in Seq(Answers)
    OBVIOUS
  <2>3. Len(<<>>) = 0 /\ DOMAIN <<>> = 1..Len(<<>>)
    OBVIOUS
  <2>4. 1..0 = {}
    OBVIOUS
  <2>5. outbox' \in Seq(Answers) /\ DOMAIN outbox' = {}
    BY <2>1, <2>2, <2>3, <2>4
  <2>6. main = None
    BY <1>3 DEF Destroy, Idle
  <2>. QED  BY <2>1, <2>5, <2>6 DEF SlotInv, lcVars, TypeOK, SlotHasExpiry, HeldWasPresented,
            Presented, GivenWasTouched, ApprovedWasTouched, Once, Spent, FirstOfItsKind,
            SignedOnce
<1>4. SlotSteps \/ Destroy \/ (UNCHANGED lcVars /\ UNCHANGED outbox /\ linked' \in BOOLEAN)
  <2>1. linked \in BOOLEAN
    BY DEF SlotInv, TypeOK
  <2>2. CASE ControllerStep
    BY <2>2 DEF ControllerStep, SlotSteps
  <2>3. CASE Connect \/ Create
    BY <2>1, <2>3 DEF Connect, Create
  <2>4. CASE Collect \/ Grant \/ Dismiss \/ TapNotice
    BY <2>1, <2>4 DEF Collect, Grant, Dismiss, TapNotice, vars
  <2>5. CASE DenyLands
    BY <2>1, <2>5 DEF DenyLands, SlotSteps, vars
  <2>6. CASE UNCHANGED allVars
    BY <2>1, <2>6 DEF allVars, vars
  <2>. QED  BY <2>2, <2>3, <2>4, <2>5, <2>6 DEF ServiceNext
<1>. QED  BY <1>1, <1>2, <1>3, <1>4

\* The service's own variables, and what its notification shows.
ServiceInv ==
    /\ running \in BOOLEAN /\ collected \in BOOLEAN /\ allowed \in BOOLEAN
    /\ notice \in Requests \cup {None}
    /\ intent \in BOOLEAN
    /\ stops \in 0..MaxStops
    /\ NoticeNeedsPermission /\ NoticeIsPending

\* A slot that changes is looked at again.
LEMMA ServiceInvStep == ServiceInv /\ TypeOK /\ [ServiceNext]_allVars => ServiceInv'
<1>. SUFFICES ASSUME ServiceInv, TypeOK, [ServiceNext]_allVars
              PROVE  ServiceInv'
  OBVIOUS
<1>. USE RequestAssumption, StopsAssumption
     DEF ServiceInv, NoticeNeedsPermission, NoticeIsPending
<1>1. CASE ControllerStep
  <2>1. /\ collected' = (collected /\ slot' = slot)
        /\ UNCHANGED <<running, allowed, notice, intent, stops>>
    BY <1>1, Zenon DEF ControllerStep
  <2>. QED  BY <2>1, Zenon
<1>2. CASE Connect \/ Create
  <2>1. UNCHANGED <<slot, allowed, notice, intent, stops>>
    BY <1>2 DEF Connect, Create, lcVars, serviceVars
  <2>2. UNCHANGED <<running, collected>> \/ (running' = TRUE /\ collected' = FALSE)
    BY <1>2 DEF Connect, Create, serviceVars
  <2>3. CASE UNCHANGED <<running, collected>>
    BY <2>1, <2>3, Zenon
  <2>4. CASE running' = TRUE /\ collected' = FALSE
    BY <2>1, <2>4, Zenon
  <2>. QED  BY <2>2, <2>3, <2>4
<1>3. CASE Destroy
  <2>1. /\ running' = FALSE
        /\ UNCHANGED <<collected, allowed, notice, intent>>
    BY <1>3 DEF Destroy
  <2>2. stops' \in 0..MaxStops
    BY <1>3 DEF Destroy
  <2>. QED  BY <2>1, <2>2, Zenon
<1>4. CASE Collect
  <2>1. /\ collected' = TRUE
        /\ UNCHANGED <<running, allowed, intent, stops>>
    BY <1>4 DEF Collect
  <2>2. slot' = slot
    BY <1>4 DEF Collect, vars, lcVars
  <2>3. notice' \in {slot, None} /\ (allowed \/ notice' = None)
    BY <1>4, Zenon DEF Collect
  <2>4. notice' \in Requests \cup {None}
    BY <2>3 DEF TypeOK
  <2>5. NoticeIsPending'
    BY <2>2, <2>3
  <2>6. NoticeNeedsPermission'
    BY <2>1, <2>3, Zenon
  <2>. QED  BY <2>1, <2>4, <2>5, <2>6, Zenon
<1>5. CASE Grant \/ Dismiss \/ TapNotice
  <2>1. UNCHANGED <<slot, running, collected, stops>>
    BY <1>5 DEF Grant, Dismiss, TapNotice, vars, lcVars
  <2>2. CASE Grant
    <3>1. allowed' = TRUE /\ UNCHANGED <<notice, intent>>
      BY <2>2 DEF Grant
    <3>. QED  BY <2>1, <3>1, Zenon
  <2>3. CASE Dismiss
    <3>1. notice' = None /\ UNCHANGED <<allowed, intent>>
      BY <2>3 DEF Dismiss
    <3>. QED  BY <2>1, <3>1, Zenon
  <2>4. CASE TapNotice
    <3>1. intent' = TRUE /\ UNCHANGED <<allowed, notice>>
      BY <2>4 DEF TapNotice
    <3>. QED  BY <2>1, <3>1, Zenon
  <2>. QED  BY <1>5, <2>2, <2>3, <2>4
<1>6. CASE DenyLands
  <2>1. slot' = slot
    BY <1>6 DEF DenyLands, NotificationDeny, vars, lcVars
  <2>. QED  BY <1>6, <2>1 DEF DenyLands
<1>7. CASE UNCHANGED allVars
  BY <1>7 DEF allVars, vars, lcVars, serviceVars
<1>. QED  BY <1>1, <1>2, <1>3, <1>4, <1>5, <1>6, <1>7 DEF ServiceNext

\* The invariant holds of every behaviour, whatever is scheduled.
LEMMA IInvAlways == ServiceSpec => []IInv
<1>1. IInv <=> SlotInv /\ ServiceInv
  BY DEF IInv, SlotInv, ServiceInv, ServiceTypeOK, Once
<1>2. IInv /\ [ServiceNext]_allVars => IInv'
  <2>. SUFFICES ASSUME IInv, [ServiceNext]_allVars
                PROVE  IInv'
    OBVIOUS
  <2>1. SlotInv' /\ ServiceInv'
    BY <1>1, SlotInvStep, ServiceInvStep DEF SlotInv
  <2>. QED  BY <2>1 DEF IInv, SlotInv, ServiceInv, ServiceTypeOK, Once
<1>. QED  BY <1>2, InitIInv, PTL DEF ServiceSpec

\* Types.
THEOREM ServiceTyped == ServiceSpec => []ServiceTypeOK
<1>1. IInv => ServiceTypeOK
  BY DEF IInv
<1>. QED  BY <1>1, IInvAlways, PTL

\* The request in the slot has a coroutine that will still take it away.
THEOREM SlotHasExpiryCorrect == ServiceSpec => []SlotHasExpiry
<1>1. IInv => SlotHasExpiry
  BY DEF IInv
<1>. QED  BY <1>1, IInvAlways, PTL

\* Nothing is approved but what a fingerprint was given for.
THEOREM ApprovedWasTouchedCorrect == ServiceSpec => []ApprovedWasTouched
<1>1. IInv => ApprovedWasTouched
  BY DEF IInv
<1>. QED  BY <1>1, IInvAlways, PTL

\* No request is signed twice over one link.
THEOREM SignedOnceCorrect == ServiceSpec => []SignedOnce
<1>1. IInv => SignedOnce
  BY DEF IInv
<1>. QED  BY <1>1, IInvAlways, PTL

\* The notification shows the pending request or none once the service has caught up.
THEOREM NoticeIsPendingCorrect == ServiceSpec => []NoticeIsPending
<1>1. IInv => NoticeIsPending
  BY DEF IInv
<1>. QED  BY <1>1, IInvAlways, PTL
===============================================================================
