---------------------------- MODULE Pairing_proofs ----------------------------
(***************************************************************************)
(* Proofs about pairing, for any number of phones, attempts and windows of *)
(* any length.                                                             *)
(***************************************************************************)
EXTENDS Pairing, FiniteSetTheorems, TLAPS

-------------------------------------------------------------------------------
(***************************************************************************)
(* Types, one actor's variables at a time. Each step below names the       *)
(* actions that touch them and leaves the others to a lemma on what they   *)
(* leave alone.                                                            *)
(***************************************************************************)
WindowTyped ==
    /\ window \in Tokens \cup {None} /\ age \in 0..Window /\ issued \in 0..MaxTokens
    /\ revoked \subseteq Tokens

DaemonTyped ==
    /\ store \subseteq Attempts /\ IsFiniteSet(store)
    /\ backlog \in Seq(Attempts) /\ outbound \in Attempts \cup {None}
    /\ admitted \subseteq [token : Tokens, key : Attempts]

Requests ==
    [Attempts -> [at : {"none", "queued", "sent", "recorded", "refused", "done"},
                  token : 0..MaxTokens]]

\* The daemon has a connection to answer on by the time it has read a request, as
\* it adopts a connection before it reads from it.
Read(a) == request[a].at = "sent" /\ \A i \in DOMAIN backlog : backlog[i] # a
AdoptedFirst ==
    \A a \in Attempts :
        Read(a) \/ request[a].at \in {"recorded", "refused"} => outbound # None

WireTyped == results \subseteq [to : Attempts, ok : BOOLEAN, id : Attempts]

PhoneTyped ==
    /\ link \in [Phones -> 0..MaxAttempts] /\ waiting \in [Phones -> BOOLEAN]
    /\ key \in [Phones -> 0..MaxAttempts] /\ made \in 0..MaxAttempts
    /\ believes \in [Phones -> Attempts \cup {None}]

SheetTyped ==
    /\ sheet \in Tokens \cup {None} /\ baseline \in Nat /\ listed \in Nat
    /\ todo \in Seq({"conclude", "close"})
    /\ said \in [token : 0..MaxTokens, verdict : {"nothing", "paired", "timed out"}]

Typed ==
    /\ WindowTyped /\ DaemonTyped /\ request \in Requests /\ WireTyped
    /\ PhoneTyped /\ SheetTyped /\ AdoptedFirst

\* The bounds are naturals, whatever they are.
LEMMA Bounds == MaxAttempts \in Nat /\ MaxTokens \in Nat /\ Window \in Nat
BY PairingAssumption

\* None is neither an attempt nor a token.
LEMMA NoneIsNothing == None \notin Attempts /\ None \notin Nat
BY PairingAssumption DEF Attempts

\* What a step may do to the window.
LEMMA WindowSteps ==
    Next => \/ Tick \/ StartPairing \/ Poll \/ SheetClosed \/ UserCancels
            \/ \E a \in Attempts : CompletePairing(a)
            \/ UNCHANGED windowVars
BY DEF Next, Settings, Phone, Attempt, Conclude, Refresh, RemoveDevice, Pair,
       GenerateFails, PairTimesOut, Unpair, SendRequest, AdoptPhone, SendResult,
       SendResultFails, PairResult, windowVars

\* The window holds a token that was issued, and no other value.
LEMMA WindowTypedStep == WindowTyped /\ [Next]_vars => WindowTyped'
<1>. SUFFICES ASSUME WindowTyped, [Next]_vars
              PROVE  WindowTyped'
  OBVIOUS
<1>. USE Bounds DEF WindowTyped, Tokens
<1>1. CASE Tick
  BY <1>1 DEF Tick
<1>2. CASE StartPairing
  <2>1. issued' \in 1..MaxTokens /\ window' = issued' /\ age' = 0
    BY <1>2 DEF StartPairing
  <2>2. revoked' \subseteq 1..MaxTokens
    BY <1>2 DEF StartPairing, Withdraw
  <2>. QED  BY <2>1, <2>2
<1>3. CASE Poll
  BY <1>3 DEF Poll, Current
<1>4. CASE SheetClosed
  BY <1>4 DEF SheetClosed, CancelPairing, Withdraw
<1>5. CASE UserCancels
  BY <1>5 DEF UserCancels, CancelPairing, Withdraw
<1>6. ASSUME NEW a \in Attempts, CompletePairing(a)
      PROVE  WindowTyped'
  BY <1>6 DEF CompletePairing, AfterTake, Current
<1>7. CASE UNCHANGED windowVars
  BY <1>7 DEF windowVars
<1>. QED
  BY <1>1, <1>2, <1>3, <1>4, <1>5, <1>6, <1>7, WindowSteps DEF vars, windowVars

\* What a step may do to the daemon's records and connections.
LEMMA DaemonSteps ==
    Next => \/ AdoptPhone
            \/ \E a \in store : RemoveDevice(a)
            \/ \E a \in Attempts : SendRequest(a) \/ CompletePairing(a)
            \/ UNCHANGED daemonVars
BY DEF Next, Settings, Phone, Attempt, Tick, StartPairing, Poll, Conclude, SheetClosed,
       UserCancels, CancelPairing, Refresh, Pair, GenerateFails, PairTimesOut, Unpair,
       SendResult, SendResultFails, PairResult, daemonVars

\* The records stay finitely many, and a token admitted is one that exists: no request
\* names the absence of a window.
LEMMA DaemonTypedStep ==
    DaemonTyped /\ WindowTyped /\ request \in Requests /\ [Next]_vars => DaemonTyped'
<1>. SUFFICES ASSUME DaemonTyped, WindowTyped, request \in Requests, [Next]_vars
              PROVE  DaemonTyped'
  OBVIOUS
<1>. USE DEF DaemonTyped
<1>1. CASE AdoptPhone
  BY <1>1 DEF AdoptPhone
<1>2. ASSUME NEW a \in store, RemoveDevice(a)
      PROVE  DaemonTyped'
  BY <1>2, FS_RemoveElement DEF RemoveDevice
<1>3. ASSUME NEW a \in Attempts, SendRequest(a)
      PROVE  DaemonTyped'
  BY <1>3 DEF SendRequest
<1>4. ASSUME NEW a \in Attempts, CompletePairing(a)
      PROVE  DaemonTyped'
  <2>1. UNCHANGED <<backlog, outbound>>
    BY <1>4 DEF CompletePairing
  <2>2. store' \subseteq Attempts /\ IsFiniteSet(store')
    BY <1>4, FS_AddElement DEF CompletePairing
  <2>3. Matches(request[a].token) => request[a].token \in Tokens
    BY Bounds, NoneIsNothing DEF Matches, Current, WindowTyped, Requests
  <2>4. admitted' \subseteq [token : Tokens, key : Attempts]
    BY <1>4, <2>3 DEF CompletePairing
  <2>. QED  BY <2>1, <2>2, <2>4
<1>5. CASE UNCHANGED daemonVars
  BY <1>5 DEF daemonVars
<1>. QED
  BY <1>1, <1>2, <1>3, <1>4, <1>5, DaemonSteps DEF vars

\* What a step may do to the requests of the phones.
LEMMA RequestSteps ==
    Next => \/ \E p \in Phones, token \in 1..issued : Pair(p, token)
            \/ \E p \in Phones : Unpair(p)
            \/ \E a \in Attempts : Attempt(a)
            \/ UNCHANGED request
BY DEF Next, Settings, Phone, Tick, StartPairing, Poll, Conclude, SheetClosed,
       UserCancels, CancelPairing, Refresh, RemoveDevice, GenerateFails, PairTimesOut,
       AdoptPhone, PairResult, wireVars

\* Requests keep one of the stages they go through.
LEMMA RequestsStep ==
    request \in Requests /\ WindowTyped /\ PhoneTyped /\ [Next]_vars => request' \in Requests
<1>. SUFFICES ASSUME request \in Requests, WindowTyped, PhoneTyped, [Next]_vars
              PROVE  request' \in Requests
  OBVIOUS
<1>. USE Bounds DEF Requests
<1>1. ASSUME NEW p \in Phones, NEW token \in 1..issued, Pair(p, token)
      PROVE  request' \in Requests
  <2>1. Stopped(p) \in Requests
    BY DEF Stopped
  <2>2. token \in 0..MaxTokens
    BY DEF WindowTyped
  <2>. QED  BY <1>1, <2>1, <2>2 DEF Pair
<1>2. ASSUME NEW p \in Phones, Unpair(p)
      PROVE  request' \in Requests
  BY <1>2 DEF Unpair, Stopped
<1>3. ASSUME NEW a \in Attempts, Attempt(a)
      PROVE  request' \in Requests
  BY <1>3 DEF Attempt, SendRequest, CompletePairing, SendResult, SendResultFails
<1>. QED  BY <1>1, <1>2, <1>3, RequestSteps DEF vars, wireVars

\* What a step may do to the phones.
LEMMA PhoneSteps ==
    Next => \/ \E p \in Phones : Phone(p)
            \/ \E r \in results : PairResult(r)
            \/ UNCHANGED phoneVars
BY DEF Next, Settings, Attempt, Tick, StartPairing, Poll, Conclude, SheetClosed,
       UserCancels, CancelPairing, Refresh, RemoveDevice, AdoptPhone, SendRequest,
       CompletePairing, SendResult, SendResultFails

\* A phone keeps the number of an attempt it has made, and believes in one there was.
LEMMA PhoneTypedStep == PhoneTyped /\ WireTyped /\ [Next]_vars => PhoneTyped'
<1>. SUFFICES ASSUME PhoneTyped, WireTyped, [Next]_vars
              PROVE  PhoneTyped'
  OBVIOUS
<1>. USE Bounds DEF PhoneTyped
<1>1. ASSUME NEW p \in Phones, Phone(p)
      PROVE  PhoneTyped'
  <2>1. ASSUME NEW token \in 1..issued, Pair(p, token)
        PROVE  PhoneTyped'
    BY <2>1 DEF Pair
  <2>2. CASE GenerateFails(p)
    BY <2>2 DEF GenerateFails
  <2>3. CASE PairTimesOut(p)
    BY <2>3 DEF PairTimesOut
  <2>4. CASE Unpair(p)
    BY <2>4 DEF Unpair
  <2>. QED  BY <1>1, <2>1, <2>2, <2>3, <2>4 DEF Phone
<1>2. ASSUME NEW r \in results, PairResult(r)
      PROVE  PhoneTyped'
  BY <1>2 DEF PairResult, WireTyped, Attempts
<1>3. CASE UNCHANGED phoneVars
  BY <1>3 DEF phoneVars
<1>. QED  BY <1>1, <1>2, <1>3, PhoneSteps DEF vars

\* What a step may do to System Settings.
LEMMA SheetSteps ==
    Next => Settings \/ UNCHANGED sheetVars
BY DEF Next, Phone, Attempt, Tick, AdoptPhone, Pair, GenerateFails, PairTimesOut, Unpair,
       SendRequest, CompletePairing, SendResult, SendResultFails, PairResult

\* System Settings counts a finite list, and concludes of a sheet that was open.
LEMMA SheetTypedStep ==
    SheetTyped /\ WindowTyped /\ DaemonTyped /\ [Next]_vars => SheetTyped'
<1>. SUFFICES ASSUME SheetTyped, WindowTyped, DaemonTyped, [Next]_vars
              PROVE  SheetTyped'
  OBVIOUS
<1>. DEFINE Todos == Seq({"conclude", "close"})
            Said == [token : 0..MaxTokens, verdict : {"nothing", "paired", "timed out"}]
<1>1. sheet \in Tokens \cup {None}
  BY DEF SheetTyped
<1>2. said \in Said
  BY DEF SheetTyped
<1>3. Cardinality(store) \in Nat
  BY FS_CardinalityType DEF DaemonTyped
<1>4. sheet' \in Tokens \cup {None}
  <2>1. CASE StartPairing
    BY <2>1, Bounds DEF StartPairing, WindowTyped, Tokens
  <2>2. CASE sheet' = None
    BY <2>2
  <2>3. CASE UNCHANGED sheet
    BY <1>1, <2>3
  <2>. QED
    BY <2>1, <2>2, <2>3, SheetSteps
    DEF Settings, Poll, Conclude, SheetClosed, UserCancels, Refresh, RemoveDevice,
        sheetVars, vars
<1>5. baseline' \in Nat /\ listed' \in Nat
  BY <1>3, SheetSteps
  DEF SheetTyped, Settings, StartPairing, Poll, Conclude, SheetClosed, UserCancels,
      CancelPairing, Refresh, RemoveDevice, sheetVars, vars
<1>6. todo' \in Todos
  <2>1. todo \in Todos
    BY DEF SheetTyped
  <2>2. <<"conclude", "close">> \in Todos /\ <<"close", "conclude">> \in Todos
        /\ <<"close">> \in Todos
    OBVIOUS
  <2>3. todo # <<>> => Tail(todo) \in Todos
    BY <2>1
  <2>. HIDE DEF Todos
  <2>. QED
    BY <2>1, <2>2, <2>3, SheetSteps
    DEF Settings, StartPairing, Poll, Conclude, SheetClosed, UserCancels, Refresh,
        RemoveDevice, sheetVars, vars
<1>7. said' \in Said
  <2>1. sheet # None => sheet \in 0..MaxTokens
    <3>1. Tokens \subseteq 0..MaxTokens
      BY Bounds DEF Tokens
    <3>. QED  BY <1>1, <3>1
  <2>2. CASE Poll
    BY <1>2, <2>1, <2>2 DEF Poll
  <2>3. CASE Conclude
    BY <1>2, <2>3 DEF Conclude
  <2>4. CASE UNCHANGED said
    BY <1>2, <2>4
  <2>. QED
    BY <2>2, <2>3, <2>4, SheetSteps
    DEF Settings, StartPairing, SheetClosed, UserCancels, CancelPairing, Refresh,
        RemoveDevice, sheetVars, vars
<1>. QED  BY <1>4, <1>5, <1>6, <1>7 DEF SheetTyped

\* A verdict is addressed to a connection there is.
LEMMA WireTypedStep ==
    WireTyped /\ AdoptedFirst /\ DaemonTyped /\ [Next]_vars => WireTyped'
<1>. SUFFICES ASSUME WireTyped, AdoptedFirst, DaemonTyped, [Next]_vars
              PROVE  WireTyped'
  OBVIOUS
<1>. USE DEF WireTyped
<1>1. ASSUME NEW a \in Attempts, SendResult(a)
      PROVE  WireTyped'
  <2>. DEFINE ok == request[a].at = "recorded"
  <2>1. outbound \in Attempts
    BY <1>1 DEF SendResult, AdoptedFirst, DaemonTyped
  <2>2. results' = results \cup {[to |-> outbound, ok |-> ok, id |-> a]}
    BY <1>1 DEF SendResult
  <2>3. ok \in BOOLEAN
    OBVIOUS
  <2>. HIDE DEF ok
  <2>. QED  BY <2>1, <2>2, <2>3
<1>2. CASE results' \subseteq results
  BY <1>2
<1>. QED
  BY <1>1, <1>2
  DEF Next, Settings, Phone, Attempt, Tick, StartPairing, Poll, Conclude, SheetClosed,
      UserCancels, CancelPairing, Refresh, RemoveDevice, AdoptPhone, Pair, GenerateFails,
      PairTimesOut, Unpair, SendRequest, CompletePairing, SendResultFails, PairResult,
      wireVars, vars

\* Only AdoptPhone takes a connection out of the backlog, and then it is outbound.
LEMMA AdoptedFirstStep ==
    /\ AdoptedFirst /\ DaemonTyped /\ request \in Requests /\ [Next]_vars
    => AdoptedFirst'
<1>. SUFFICES ASSUME AdoptedFirst, DaemonTyped, request \in Requests, [Next]_vars
              PROVE  AdoptedFirst'
  OBVIOUS
<1>. USE DEF AdoptedFirst, Read
<1>1. CASE AdoptPhone
  <2>1. Head(backlog) \in Attempts
    BY <1>1 DEF AdoptPhone, DaemonTyped
  <2>. QED  BY <1>1, <2>1, NoneIsNothing DEF AdoptPhone
<1>2. ASSUME NEW a \in Attempts, SendRequest(a)
      PROVE  AdoptedFirst'
  <2>1. \A b \in Attempts : b # a => request'[b] = request[b]
    BY <1>2 DEF SendRequest, Requests
  <2>2. backlog' = Append(backlog, a) /\ outbound' = outbound
    BY <1>2 DEF SendRequest
  <2>3. /\ \A i \in DOMAIN backlog : i \in DOMAIN backlog' /\ backlog'[i] = backlog[i]
        /\ Len(backlog) + 1 \in DOMAIN backlog' /\ backlog'[Len(backlog) + 1] = a
    BY <2>2 DEF DaemonTyped
  <2>4. request'[a].at = "sent"
    BY <1>2 DEF SendRequest, Requests
  <2>. QED  BY <2>1, <2>2, <2>3, <2>4
<1>3. ASSUME NEW a \in Attempts, CompletePairing(a) \/ SendResult(a) \/ SendResultFails(a)
      PROVE  AdoptedFirst'
  <2>1. \A b \in Attempts : b # a => request'[b] = request[b]
    BY <1>3 DEF CompletePairing, SendResult, SendResultFails, Requests
  <2>2. UNCHANGED <<backlog, outbound>>
    BY <1>3 DEF CompletePairing, SendResult, SendResultFails, daemonVars
  <2>3. Read(a) \/ request[a].at \in {"recorded", "refused"}
    BY <1>3 DEF CompletePairing, SendResult, SendResultFails
  <2>. QED  BY <2>1, <2>2, <2>3
<1>4. ASSUME NEW p \in Phones, Unpair(p) \/ \E token \in 1..issued : Pair(p, token)
      PROVE  AdoptedFirst'
  <2>1. UNCHANGED <<backlog, outbound>>
    BY <1>4 DEF Unpair, Pair, daemonVars
  <2>2. \A b \in Attempts :
           Stopped(p)[b] = request[b] \/ Stopped(p)[b].at = "none"
    BY DEF Stopped, Requests
  <2>3. \A b \in Attempts :
           \/ request'[b] = Stopped(p)[b]
           \/ request'[b].at = "queued"
    <3>1. CASE Unpair(p)
      BY <3>1 DEF Unpair
    <3>2. ASSUME NEW token \in 1..issued, Pair(p, token)
          PROVE  \A b \in Attempts :
                    request'[b] = Stopped(p)[b] \/ request'[b].at = "queued"
      <4>1. DOMAIN Stopped(p) = Attempts
        BY DEF Stopped
      <4>. QED  BY <3>2, <4>1 DEF Pair
    <3>. QED  BY <1>4, <3>1, <3>2
  <2>. QED  BY <2>1, <2>2, <2>3
<1>5. CASE UNCHANGED <<request, backlog, outbound>>
  BY <1>5
<1>. QED
  BY <1>1, <1>2, <1>3, <1>4, <1>5
  DEF Next, Settings, Phone, Attempt, Tick, StartPairing, Poll, Conclude, SheetClosed,
      UserCancels, CancelPairing, Refresh, RemoveDevice, GenerateFails, PairTimesOut,
      PairResult, wireVars, daemonVars, vars

\* All of it holds at the start, when nothing is paired.
LEMMA TypedInit == Init => Typed
<1>. SUFFICES ASSUME Init
              PROVE  Typed
  OBVIOUS
<1>. USE Bounds DEF Init
<1>1. WindowTyped /\ WireTyped /\ PhoneTyped /\ AdoptedFirst
  BY DEF WindowTyped, WireTyped, PhoneTyped, AdoptedFirst, Read
<1>2. DaemonTyped
  BY FS_EmptySet DEF DaemonTyped
<1>3. request \in Requests
  BY DEF Requests
<1>4. SheetTyped
  BY DEF SheetTyped
<1>. QED  BY <1>1, <1>2, <1>3, <1>4 DEF Typed

\* Each step keeps every variable well typed.
LEMMA TypedStep == Typed /\ [Next]_vars => Typed'
BY WindowTypedStep, DaemonTypedStep, RequestsStep, PhoneTypedStep, SheetTypedStep,
   WireTypedStep, AdoptedFirstStep
DEF Typed

\* The variables of pairing keep the values they are meant to have; in particular a
\* verdict is always addressed to a connection (complete_pairing, send_line).
THEOREM PairingTyped == Spec => []TypeOK
<1>1. Typed => TypeOK
  BY DEF Typed, TypeOK, WindowTyped, DaemonTyped, Requests, WireTyped, PhoneTyped,
         SheetTyped
<1>. QED  BY <1>1, TypedInit, TypedStep, PTL DEF Spec

-------------------------------------------------------------------------------
(***************************************************************************)
(* Tokens. That a token admits once is not inductive: the open window's    *)
(* token must not have been admitted (TokenUnspent), which needs that no   *)
(* token was admitted, nor withdrawn, before it was drawn (PastOnly). That *)
(* a withdrawn token admits nobody needs a token that is still good not to *)
(* be withdrawn (GoodIsNotRevoked).                                        *)
(***************************************************************************)
PastOnly ==
    /\ window # None => window <= issued
    /\ \A x \in admitted : x.token <= issued
    /\ \A token \in revoked : token <= issued

TokenUnspent == \A x \in admitted : x.token # window

GoodIsNotRevoked == window # None /\ age < Window => window \notin revoked

TokenParts ==
    PastOnly /\ TokenUnspent /\ GoodIsNotRevoked /\ TokenAdmitsOnce /\ RevokedNeverAdmits

\* Each step keeps them: a token leaves the window by being taken, withdrawn or
\* replaced, and none of these lets it return.
LEMMA TokenStep == Typed /\ TokenParts /\ [Next]_vars => TokenParts'
<1>. SUFFICES ASSUME Typed, TokenParts, [Next]_vars
              PROVE  TokenParts'
  OBVIOUS
<1>1. /\ window \in Tokens \cup {None} /\ age \in Nat /\ issued \in Nat
      /\ admitted \subseteq [token : Tokens, key : Attempts] /\ revoked \subseteq Tokens
      /\ Tokens \subseteq Nat /\ None \notin Nat /\ Window \in Nat
  BY Bounds, NoneIsNothing DEF Typed, WindowTyped, DaemonTyped, Tokens
<1>. USE <1>1 DEF TokenParts, PastOnly, TokenUnspent, GoodIsNotRevoked, TokenAdmitsOnce,
                  RevokedNeverAdmits
<1>2. CASE Tick
  BY <1>2 DEF Tick, daemonVars
<1>3. CASE StartPairing
  <2>1. /\ issued' = issued + 1 /\ window' = issued'
        /\ admitted' = admitted /\ revoked' \subseteq revoked \cup ({window} \ {None})
    BY <1>3 DEF StartPairing, Withdraw, daemonVars
  <2>2. \A n \in Nat : n <= issued => n <= issued' /\ n # issued'
    BY <2>1
  <2>3. \A token \in revoked' : token <= issued /\ token \in Nat
    BY <2>1
  <2>4. \A x \in admitted' : x.token \in Nat /\ x.token <= issued /\ x.token \notin revoked'
    BY <2>1
  <2>5. PastOnly'
    BY <2>1, <2>2, <2>3, <2>4
  <2>6. TokenUnspent' /\ GoodIsNotRevoked'
    BY <2>1, <2>2, <2>3, <2>4
  <2>. QED  BY <2>1, <2>4, <2>5, <2>6
<1>4. CASE Poll
  BY <1>4 DEF Poll, Current, Expired, daemonVars
<1>5. ASSUME window' = None, issued' = issued, admitted' = admitted, Withdraw
      PROVE  TokenParts'
  BY <1>5 DEF Withdraw
<1>6. ASSUME NEW a \in Attempts, CompletePairing(a)
      PROVE  TokenParts'
  <2>1. UNCHANGED <<age, issued, revoked>>
    BY <1>6 DEF CompletePairing
  <2>2. request[a].token \in Nat
    BY Bounds DEF Typed, Requests
  <2>3. CASE Matches(request[a].token)
    <3>1. window = request[a].token /\ age < Window /\ window' = None
      BY <1>6, <2>2, <2>3 DEF CompletePairing, AfterTake, Matches, Current, Expired
    <3>2. admitted' \subseteq admitted \cup {[token |-> window, key |-> a]}
      BY <1>6, <3>1 DEF CompletePairing
    <3>3. \A x \in admitted' : x \in admitted \/ (x.token = window /\ x.key = a)
      BY <3>2
    <3>4. TokenAdmitsOnce'
      BY <3>3, <1>6, <3>1, <2>3 DEF CompletePairing
    <3>5. \A x \in admitted' : x.token \in Nat /\ x.token <= issued /\ x.token \notin revoked
      BY <2>2, <3>1, <3>3
    <3>. QED  BY <2>1, <3>1, <3>4, <3>5
  <2>4. CASE ~Matches(request[a].token)
    <3>1. admitted' = admitted /\ window' \in {window, None}
      BY <1>6, <2>4 DEF CompletePairing, AfterTake, Current
    <3>. QED  BY <2>1, <3>1
  <2>. QED  BY <2>3, <2>4
<1>7. CASE UNCHANGED <<window, age, issued, admitted, revoked>>
  BY <1>7
<1>. QED
  BY <1>2, <1>3, <1>4, <1>5, <1>6, <1>7, WindowSteps
  DEF Next, Settings, Phone, Attempt, Conclude, SheetClosed, UserCancels, CancelPairing,
      Refresh, RemoveDevice, Pair, GenerateFails, PairTimesOut, Unpair, SendRequest,
      AdoptPhone, SendResult, SendResultFails, PairResult, daemonVars, windowVars, vars

\* The invariant the two theorems on tokens rest on.
LEMMA TokenInvariant == Spec => [](Typed /\ TokenParts)
<1>1. Init => TokenParts
  BY DEF Init, TokenParts, PastOnly, TokenUnspent, GoodIsNotRevoked, TokenAdmitsOnce,
         RevokedNeverAdmits
<1>. QED  BY <1>1, TypedInit, TypedStep, TokenStep, PTL DEF Spec

\* A token pairs one phone at most, however many scanned it and however often the
\* request that carries it arrives (take_matching).
THEOREM TokenAdmitsOnceCorrect == Spec => []TokenAdmitsOnce
BY TokenInvariant, PTL DEF TokenParts

\* Once its window has run out, was cancelled or replaced, a token pairs nobody.
THEOREM RevokedNeverAdmitsCorrect == Spec => []RevokedNeverAdmits
BY TokenInvariant, PTL DEF TokenParts

-------------------------------------------------------------------------------
(***************************************************************************)
(* What a phone believes. A success travels from the record through the    *)
(* request and its verdict to the phone, and records made are never unmade *)
(* in the history, so each of these stages names one.                      *)
(***************************************************************************)
Recorded(k) == \E x \in admitted : x.key = k

SuccessIsRecorded ==
    /\ \A a \in Attempts : request[a].at = "recorded" => Recorded(a)
    /\ \A r \in results : r.ok => Recorded(r.id)

BelievedParts == SuccessIsRecorded /\ BelievedIsRecorded

\* Each step keeps them, a phone that is told of another attempt's success included.
LEMMA BelievedStep == Typed /\ BelievedParts /\ [Next]_vars => BelievedParts'
<1>. SUFFICES ASSUME Typed, BelievedParts, [Next]_vars
              PROVE  BelievedParts'
  OBVIOUS
<1>. USE DEF BelievedParts, SuccessIsRecorded, BelievedIsRecorded, Recorded
<1>1. /\ request \in Requests /\ believes \in [Phones -> Attempts \cup {None}]
      /\ results \subseteq [to : Attempts, ok : BOOLEAN, id : Attempts]
      /\ admitted \subseteq admitted'
  <2>1. admitted \subseteq admitted'
    BY DaemonSteps DEF AdoptPhone, RemoveDevice, SendRequest, CompletePairing, daemonVars, vars
  <2>. QED  BY <2>1 DEF Typed, PhoneTyped, WireTyped
<1>2. ASSUME NEW a \in Attempts, CompletePairing(a)
      PROVE  BelievedParts'
  <2>1. \A b \in Attempts : b # a => request'[b] = request[b]
    BY <1>1, <1>2 DEF CompletePairing, Requests
  <2>2. request'[a].at = "recorded" =>
          admitted' = admitted \cup {[token |-> request[a].token, key |-> a]}
    BY <1>1, <1>2 DEF CompletePairing, Requests
  <2>3. UNCHANGED <<results, believes>>
    BY <1>2 DEF CompletePairing, phoneVars
  <2>4. request'[a].at = "recorded" => Recorded(a)'
    <3>. DEFINE record == [token |-> request[a].token, key |-> a]
    <3>1. record.key = a
      OBVIOUS
    <3>. HIDE DEF record
    <3>. QED  BY <2>2, <3>1 DEF record
  <2>5. \A k : Recorded(k) => Recorded(k)'
    BY <1>1
  <2>. HIDE DEF Recorded
  <2>. QED  BY <1>1, <2>1, <2>3, <2>4, <2>5
<1>3. ASSUME NEW a \in Attempts, SendResult(a) \/ SendResultFails(a) \/ SendRequest(a)
      PROVE  BelievedParts'
  <2>1. \A b \in Attempts : request'[b].at = "recorded" => request[b].at = "recorded"
    BY <1>1, <1>3 DEF SendResult, SendResultFails, SendRequest, Requests
  <2>. DEFINE verdict == [to |-> outbound, ok |-> request[a].at = "recorded", id |-> a]
  <2>2. results' \subseteq results \cup {verdict}
    BY <1>3 DEF SendResult, SendResultFails, SendRequest
  <2>3. verdict.ok => Recorded(verdict.id)
    BY <1>1
  <2>4. UNCHANGED believes
    BY <1>3 DEF SendResult, SendResultFails, SendRequest, phoneVars
  <2>. QED  BY <1>1, <2>1, <2>2, <2>3, <2>4
<1>4. ASSUME NEW p \in Phones, Phone(p)
      PROVE  BelievedParts'
  <2>1. \A b \in Attempts : request'[b].at = "recorded" => request[b].at = "recorded"
    <3>1. \A b \in Attempts : Stopped(p)[b].at = "recorded" => request[b].at = "recorded"
      BY <1>1 DEF Stopped, Requests
    <3>2. DOMAIN Stopped(p) = Attempts
      BY DEF Stopped
    <3>3. ASSUME NEW token \in 1..issued, Pair(p, token)
          PROVE  \A b \in Attempts : request'[b].at = "recorded" => request[b].at = "recorded"
      BY <3>1, <3>2, <3>3 DEF Pair
    <3>. QED
      BY <1>4, <3>1, <3>3 DEF Phone, GenerateFails, PairTimesOut, Unpair, wireVars
  <2>2. \A q \in Phones : believes'[q] \in {believes[q], None}
    BY <1>1, <1>4 DEF Phone, Pair, GenerateFails, PairTimesOut, Unpair
  <2>3. UNCHANGED results
    BY <1>4 DEF Phone, Pair, GenerateFails, PairTimesOut, Unpair, wireVars
  <2>. QED  BY <1>1, <2>1, <2>2, <2>3
<1>5. ASSUME NEW r \in results, PairResult(r)
      PROVE  BelievedParts'
  <2>1. \A q \in Phones : believes'[q] = believes[q] \/ (believes'[q] = r.id /\ r.ok)
    BY <1>1, <1>5 DEF PairResult
  <2>2. results' \subseteq results /\ request' = request
    BY <1>5 DEF PairResult
  <2>. QED  BY <1>1, <2>1, <2>2
<1>6. CASE UNCHANGED <<request, results, believes>>
  BY <1>1, <1>6
<1>. QED
  BY <1>2, <1>3, <1>4, <1>5, <1>6
  DEF Next, Settings, Attempt, Tick, StartPairing, Poll, Conclude, SheetClosed,
      UserCancels, CancelPairing, Refresh, RemoveDevice, AdoptPhone, wireVars, phoneVars,
      vars

\* A phone that takes itself for paired has a record with the desktop under that id,
\* though verdicts may be lost, come late, or answer an attempt it has given up.
THEOREM BelievedIsRecordedCorrect == Spec => []BelievedIsRecorded
<1>1. Init => BelievedParts
  BY DEF Init, BelievedParts, SuccessIsRecorded, BelievedIsRecorded, Attempts
<1>. QED  BY <1>1, TypedInit, TypedStep, BelievedStep, PTL DEF Spec, BelievedParts

-------------------------------------------------------------------------------
(***************************************************************************)
(* "Phone paired." What the sheet compares are the lengths of two lists,   *)
(* read when it opened and when it closed. It is right because the first   *)
(* is never shorter than what the daemon holds: between two sheets no      *)
(* window is open, so the list can only have become too long.              *)
(***************************************************************************)
Nothing == <<>>
CloseOnly == <<"close">>
ConcludeOnly == <<"conclude">>
CloseLast == <<"conclude", "close">>
CloseFirst == <<"close", "conclude">>

ToConclude == todo \in {ConcludeOnly, CloseLast, CloseFirst}
ToClose == todo \in {CloseOnly, CloseLast, CloseFirst}
PairedWith(token) == \E a \in admitted : a.token = token

\* What the verdict on a token will compare, while it is yet to come.
Fair(token) ==
    /\ window \in {None, token}
    /\ PairedWith(token) \/ Cardinality(store) <= baseline

SaidParts ==
    /\ todo \in {Nothing, CloseOnly, ConcludeOnly, CloseLast, CloseFirst}
    /\ sheet # None => todo = Nothing /\ Fair(sheet)
    /\ ToConclude => Fair(said.token)
    /\ sheet = None /\ ~ToClose => window = None /\ Cardinality(store) <= listed
    /\ SaidPairedIsTrue

\* What is left to do, one thing at a time.
LEMMA Todos ==
    /\ Head(CloseOnly) = "close" /\ Tail(CloseOnly) = Nothing
    /\ Head(ConcludeOnly) = "conclude" /\ Tail(ConcludeOnly) = Nothing
    /\ Head(CloseLast) = "conclude" /\ Tail(CloseLast) = CloseOnly
    /\ Head(CloseFirst) = "close" /\ Tail(CloseFirst) = ConcludeOnly
BY DEF Nothing, CloseOnly, ConcludeOnly, CloseLast, CloseFirst

\* No two of these are the same.
LEMMA TodosDiffer ==
    /\ Nothing \notin {CloseOnly, ConcludeOnly, CloseLast, CloseFirst}
    /\ CloseOnly \notin {ConcludeOnly, CloseLast, CloseFirst}
    /\ ConcludeOnly \notin {CloseLast, CloseFirst}
    /\ CloseLast # CloseFirst
BY DEF Nothing, CloseOnly, ConcludeOnly, CloseLast, CloseFirst

\* The number of records is a number, and no record removed adds one.
LEMMA Records ==
    ASSUME DaemonTyped
    PROVE  Cardinality(store) \in Nat
           /\ \A a \in store : Cardinality(store \ {a}) <= Cardinality(store)
<1>1. IsFiniteSet(store) /\ Cardinality(store) \in Nat
  BY FS_CardinalityType DEF DaemonTyped
<1>2. \A a \in store : Cardinality(store \ {a}) = Cardinality(store) - 1
  BY <1>1, FS_RemoveElement
<1>. QED  BY <1>1, <1>2

\* No step makes the sheet's comparison unfair, or concludes from an unfair one.
LEMMA SaidStep == Typed /\ SaidParts /\ [Next]_vars => SaidParts'
<1>. SUFFICES ASSUME Typed, SaidParts, [Next]_vars
              PROVE  SaidParts'
  OBVIOUS
<1>. USE TodosDiffer DEF ToConclude, ToClose
<1>a. Cardinality(store) \in Nat /\ listed \in Nat /\ baseline \in Nat
  BY Records DEF Typed, SheetTyped
<1>1. CASE StartPairing
  <2>1. /\ sheet = None /\ todo = <<>> /\ sheet' = issued' /\ window' = issued'
        /\ issued' \in Nat
        /\ baseline' = listed /\ UNCHANGED <<store, admitted, listed, todo, said>>
    BY <1>1 DEF StartPairing, daemonVars, Typed, WindowTyped
  <2>2. todo = Nothing /\ sheet' # None
    BY <2>1, NoneIsNothing DEF Nothing
  <2>. QED  BY <2>1, <2>2 DEF SaidParts, Fair, PairedWith, SaidPairedIsTrue
<1>2. CASE Poll
  <2>1. /\ sheet # None /\ window' \in {None, window}
        /\ UNCHANGED <<store, admitted, baseline, listed>>
    BY <1>2 DEF Poll, Current, daemonVars
  <2>2. CASE SecondsLeft # 0
    <3>1. UNCHANGED <<sheet, todo, said>>
      BY <1>2, <2>2 DEF Poll
    <3>. QED  BY <2>1, <3>1 DEF SaidParts, Fair, PairedWith, SaidPairedIsTrue
  <2>3. CASE SecondsLeft = 0
    <3>1. /\ sheet' = None /\ todo' \in {CloseLast, CloseFirst}
          /\ said' = [token |-> sheet, verdict |-> "nothing"]
      BY <1>2, <2>3 DEF Poll, CloseLast, CloseFirst
    <3>2. said'.token = sheet /\ said'.verdict # "paired"
      BY <3>1
    <3>3. Fair(sheet)
      BY <2>1 DEF SaidParts
    <3>. QED  BY <2>1, <3>1, <3>2, <3>3 DEF SaidParts, Fair, PairedWith, SaidPairedIsTrue
  <2>. QED  BY <2>2, <2>3
<1>3. CASE Conclude
  <2>1. /\ todo \in {ConcludeOnly, CloseLast} /\ todo' = Tail(todo)
        /\ listed' = Cardinality(store)
        /\ UNCHANGED <<window, store, admitted, sheet, baseline>>
    <3>1. todo # Nothing /\ Head(todo) = "conclude"
      BY <1>3 DEF Conclude, Nothing
    <3>. QED  BY <1>3, <3>1, Todos DEF Conclude, SaidParts, windowVars, daemonVars
  <2>2. /\ said'.token = said.token
        /\ said'.verdict = IF Cardinality(store) > baseline THEN "paired" ELSE "timed out"
    BY <1>3 DEF Conclude, Typed, SheetTyped
  <2>3. sheet = None /\ Fair(said.token)
    BY <2>1 DEF SaidParts
  <2>4. said'.verdict = "paired" => PairedWith(said.token)
    <3>1. PairedWith(said.token) \/ Cardinality(store) <= baseline
      BY <2>3 DEF Fair
    <3>2. Cardinality(store) <= baseline => ~(Cardinality(store) > baseline)
      BY <1>a
    <3>. QED  BY <2>2, <3>1, <3>2
  <2>5. SaidPairedIsTrue'
    BY <2>1, <2>2, <2>4 DEF SaidPairedIsTrue, PairedWith
  <2>6. Cardinality(store') <= listed'
    BY <1>a, <2>1
  <2>7. ~ToConclude' /\ (~ToClose' => ~ToClose) /\ todo' \in {Nothing, CloseOnly}
    BY <2>1, Todos
  <2>. QED  BY <2>1, <2>3, <2>5, <2>6, <2>7 DEF SaidParts
<1>4. CASE SheetClosed \/ UserCancels
  <2>1. /\ window' = None /\ listed' = Cardinality(store) /\ sheet' = None
        /\ UNCHANGED <<store, admitted, baseline, said>>
    <3>1. CASE SheetClosed
      BY <3>1 DEF SheetClosed, CancelPairing, daemonVars, SaidParts, Nothing
    <3>2. CASE UserCancels
      BY <3>2 DEF UserCancels, CancelPairing, daemonVars
    <3>. QED  BY <1>4, <3>1, <3>2
  <2>2. \/ todo \in {CloseOnly, CloseFirst} /\ todo' = Tail(todo)
        \/ todo' = CloseOnly
    <3>1. CASE SheetClosed
      <4>1. todo # Nothing /\ Head(todo) = "close" /\ todo' = Tail(todo)
        BY <3>1 DEF SheetClosed, Nothing
      <4>. QED  BY <4>1, Todos DEF SaidParts
    <3>2. CASE UserCancels
      BY <3>2 DEF UserCancels, CloseOnly
    <3>. QED  BY <1>4, <3>1, <3>2
  <2>3. Cardinality(store') <= listed'
    BY <1>a, <2>1
  <2>4. /\ ToConclude' => ToConclude
        /\ todo' \in {Nothing, ConcludeOnly, CloseOnly}
    BY <2>2, Todos
  <2>5. ToConclude' => Fair(said.token)'
    BY <2>1, <2>4 DEF SaidParts, Fair, PairedWith
  <2>6. SaidPairedIsTrue'
    BY <2>1 DEF SaidParts, SaidPairedIsTrue
  <2>. QED  BY <2>1, <2>3, <2>4, <2>5, <2>6 DEF SaidParts
<1>5. CASE Refresh
  <2>1. /\ todo = Nothing /\ listed' = Cardinality(store)
        /\ UNCHANGED <<window, store, admitted, sheet, baseline, todo, said>>
    BY <1>5 DEF Refresh, windowVars, daemonVars, Nothing
  <2>2. Cardinality(store') <= listed'
    BY <1>a, <2>1
  <2>. QED  BY <2>1, <2>2 DEF SaidParts, Fair, PairedWith, SaidPairedIsTrue
<1>6. ASSUME NEW a \in store, RemoveDevice(a)
      PROVE  SaidParts'
  <2>1. /\ store' = store \ {a}
        /\ UNCHANGED <<window, admitted, sheet, baseline, listed, todo, said>>
    BY <1>6 DEF RemoveDevice, windowVars, sheetVars
  <2>2. Cardinality(store') \in Nat /\ Cardinality(store') <= Cardinality(store)
    <3>1. Cardinality(store') = Cardinality(store \ {a})
      BY <2>1
    <3>2. IsFiniteSet(store') /\ Cardinality(store') \in Nat
      BY <2>1, FS_RemoveElement, FS_CardinalityType DEF Typed, DaemonTyped
    <3>. QED  BY <1>6, <3>1, <3>2, Records DEF Typed
  <2>3. Cardinality(store) <= listed => Cardinality(store') <= listed
    BY <1>a, <2>2
  <2>4. Cardinality(store) <= baseline => Cardinality(store') <= baseline
    BY <1>a, <2>2
  <2>. QED  BY <2>1, <2>3, <2>4 DEF SaidParts, Fair, PairedWith, SaidPairedIsTrue
<1>7. ASSUME NEW a \in Attempts, CompletePairing(a)
      PROVE  SaidParts'
  <2>1. UNCHANGED <<sheet, baseline, listed, todo, said>> /\ window' \in {None, window}
    BY <1>7 DEF CompletePairing, sheetVars, AfterTake, Current
  <2>2. CASE Matches(request[a].token)
    <3>. DEFINE record == [token |-> request[a].token, key |-> a]
    <3>1. window = request[a].token /\ window # None
      BY <2>2, NoneIsNothing DEF Matches, Current, Typed, Requests
    <3>2. admitted \subseteq admitted' /\ (record \in admitted' \/ UNCHANGED <<store, admitted>>)
      BY <1>7 DEF CompletePairing
    <3>3. \A t : PairedWith(t) => PairedWith(t)'
      BY <3>2 DEF PairedWith
    <3>4. \/ \E b \in admitted' : b.token = window
          \/ UNCHANGED <<store, admitted>>
      <4>1. record.token = window
        BY <3>1
      <4>. HIDE DEF record
      <4>. QED  BY <2>2, <3>2, <4>1
    <3>5. CASE UNCHANGED <<store, admitted>>
      BY <2>1, <3>5 DEF SaidParts, Fair, PairedWith, SaidPairedIsTrue
    <3>6. CASE \E b \in admitted' : b.token = window
      <4>1. SaidPairedIsTrue'
        BY <2>1, <3>3 DEF SaidParts, SaidPairedIsTrue, PairedWith
      <4>2. sheet # None => sheet = window
        BY <3>1 DEF SaidParts, Fair
      <4>3. ToConclude => said.token = window
        BY <3>1 DEF SaidParts, Fair
      <4>4. sheet # None \/ ToClose
        BY <3>1 DEF SaidParts
      <4>5. (sheet # None => Fair(sheet)') /\ (ToConclude => Fair(said.token)')
        BY <2>1, <3>6, <4>2, <4>3 DEF Fair, PairedWith
      <4>. QED  BY <2>1, <4>1, <4>4, <4>5 DEF SaidParts
    <3>. QED  BY <3>4, <3>5, <3>6
  <2>3. CASE ~Matches(request[a].token)
    <3>1. UNCHANGED <<store, admitted>>
      BY <1>7, <2>3 DEF CompletePairing
    <3>. QED  BY <2>1, <3>1 DEF SaidParts, Fair, PairedWith, SaidPairedIsTrue
  <2>. QED  BY <2>2, <2>3
<1>8. CASE UNCHANGED <<window, store, admitted, sheetVars>>
  BY <1>8 DEF SaidParts, Fair, PairedWith, SaidPairedIsTrue, sheetVars
<1>. QED
  BY <1>1, <1>2, <1>3, <1>4, <1>5, <1>6, <1>7, <1>8
  DEF Next, Settings, Phone, Attempt, Tick, AdoptPhone, Pair, GenerateFails, PairTimesOut,
      Unpair, SendRequest, SendResult, SendResultFails, PairResult, windowVars, daemonVars,
      vars

\* "Phone paired." is said of a sheet only if a phone was recorded with its code,
\* though phones may be removed meanwhile and the list is read when it happens to be.
THEOREM SaidPairedIsTrueCorrect == Spec => []SaidPairedIsTrue
<1>1. Init => SaidParts
  <2>. SUFFICES ASSUME Init
                PROVE  SaidParts
    OBVIOUS
  <2>1. /\ todo = Nothing /\ sheet = None /\ window = None /\ listed = 0
        /\ Cardinality(store) = 0 /\ said.verdict # "paired"
    BY FS_EmptySet DEF Init, Nothing
  <2>. QED  BY <2>1, TodosDiffer DEF SaidParts, ToConclude, ToClose, SaidPairedIsTrue
<1>. QED  BY <1>1, TypedInit, TypedStep, SaidStep, PTL DEF Spec, SaidParts
================================================================================
