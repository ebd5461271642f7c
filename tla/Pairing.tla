-------------------------------- MODULE Pairing --------------------------------
(***************************************************************************)
(* Pairing a phone: the window and its single-use token (pairing.rs), the  *)
(* daemon's handling of pair.request (server.rs), the pairing sheet of     *)
(* System Settings that opens the window and polls it (devicemodel.cpp,    *)
(* main.qml), and the phones that scan its code and ask to be recorded     *)
(* (MainActivity.kt, LinkController.kt).                                   *)
(*                                                                         *)
(* Time is the age of the open window, in half seconds: the daemon reports *)
(* whole seconds left. Every attempt of a phone makes a key and opens a    *)
(* link of its own, so an attempt names its key and its connection.        *)
(***************************************************************************)
EXTENDS Naturals, Sequences, FiniteSets

CONSTANTS
    Phones,
    MaxAttempts,  \* bound on the attempts of all phones together
    MaxTokens,    \* bound on the windows opened
    Window,       \* PAIRING_WINDOW, in half seconds
    None

ASSUME PairingAssumption ==
    /\ MaxAttempts \in Nat /\ MaxTokens \in Nat /\ Window \in Nat
    /\ None \notin Phones \cup Nat \cup [phone : Phones, n : Nat]

VARIABLES
    window,    \* Pairings.current: the token of the open window
    age,       \* how long it has been open
    issued,    \* tokens are numbered in the order they are drawn
    store,     \* the keys recorded by the daemon
    backlog,   \* connections not yet adopted
    outbound,  \* the connection the daemon writes to
    request,   \* per attempt: its pair.request and where it is
    results,   \* pair.result lines on their way to a phone
    link,      \* per phone: the attempt whose link it keeps, 0 if none
    waiting,   \* per phone: whether pair() awaits a verdict
    key,       \* per phone: the attempt whose key it holds, 0 if none
    made,      \* attempts so far; they are numbered in this order
    believes,  \* per phone: the device id in its DesktopStore
    sheet,     \* the token the pairing sheet shows
    baseline,  \* m_pairingBaseline
    listed,    \* the number of devices System Settings lists
    todo,      \* what is left to do once the sheet was told 0 seconds
    said,      \* what it concluded, of which token
    admitted, revoked   \* history: records made, tokens withdrawn

windowVars == <<window, age, issued, revoked>>
daemonVars == <<store, backlog, outbound, admitted>>
wireVars == <<request, results>>
phoneVars == <<link, waiting, key, made, believes>>
sheetVars == <<sheet, baseline, listed, todo, said>>
vars == <<windowVars, daemonVars, wireVars, phoneVars, sheetVars>>

Tokens == 1..MaxTokens
Attempts == [phone : Phones, n : 1..MaxAttempts]
Keep(a) == link[a.phone] = a.n

Init ==
    /\ window = None /\ age = 0 /\ issued = 0 /\ revoked = {}
    /\ store = {} /\ backlog = <<>> /\ outbound = None /\ admitted = {}
    /\ request = [a \in Attempts |-> [at |-> "none", token |-> 0]]
    /\ results = {}
    /\ link = [p \in Phones |-> 0]
    /\ waiting = [p \in Phones |-> FALSE]
    /\ key = [p \in Phones |-> 0]
    /\ made = 0
    /\ believes = [p \in Phones |-> None]
    /\ sheet = None /\ baseline = 0 /\ listed = 0 /\ todo = <<>>
    /\ said = [token |-> 0, verdict |-> "nothing"]

-------------------------------------------------------------------------------
(***************************************************************************)
(* The window. Every user of it holds the mutex around Pairings.           *)
(***************************************************************************)
Expired == window # None /\ age >= Window

CurrentUnchecked == window  \* mutant: nobody looks at the clock

\* expire_if_due, with which seconds_left and take_matching begin.
Current == IF Expired THEN None ELSE window

\* as_secs() drops the fraction.
SecondsLeft == IF Current = None THEN 0 ELSE (Window - age) \div 2

\* take_matching: a token that matches is taken with its window.
Matches(token) == Current = token
AfterTakeKept(token) == Current  \* mutant: the token is not taken
AfterTake(token) == IF Matches(token) THEN None ELSE Current

\* Half a second passes; a token that reaches its age is withdrawn.
Tick ==
    /\ window # None
    /\ age < Window
    /\ age' = age + 1
    /\ revoked' = IF age' = Window THEN revoked \cup {window} ELSE revoked
    /\ UNCHANGED <<window, issued, daemonVars, wireVars, phoneVars, sheetVars>>

\* cancel: what Pairings.current becomes, and the token that withdraws.
Withdraw == revoked' = revoked \cup ({window} \ {None})

-------------------------------------------------------------------------------
(***************************************************************************)
(* System Settings. Its calls block until the daemon has answered.         *)
(***************************************************************************)

\* startPairing: BeginPairing draws a token, replacing the window there may be.
StartPairing ==
    /\ sheet = None /\ todo = <<>>
    /\ issued < MaxTokens
    /\ Withdraw
    /\ issued' = issued + 1
    /\ window' = issued' /\ age' = 0
    /\ sheet' = issued'
    /\ baseline' = listed
    /\ UNCHANGED <<daemonVars, wireVars, phoneVars, listed, todo, said>>

\* pairingSecondsLeft, once a second: on 0 the sheet closes. Its closed signal
\* may come while pairingChanged is emitted, or when the sheet has faded.
Poll ==
    /\ sheet # None
    /\ window' = Current
    /\ IF SecondsLeft # 0 THEN UNCHANGED <<sheet, todo>>
       ELSE /\ sheet' = None
            /\ todo' \in {<<"conclude", "close">>, <<"close", "conclude">>}
    /\ said' = IF SecondsLeft # 0 THEN said ELSE [token |-> sheet, verdict |-> "nothing"]
    /\ UNCHANGED <<age, issued, revoked, daemonVars, wireVars, phoneVars,
                   baseline, listed>>

\* refresh(), and then what to tell the user.
Conclude ==
    /\ todo # <<>> /\ Head(todo) = "conclude"
    /\ listed' = Cardinality(store)
    /\ said' = [said EXCEPT !.verdict =
                  IF Cardinality(store) > baseline THEN "paired" ELSE "timed out"]
    /\ todo' = Tail(todo)
    /\ UNCHANGED <<windowVars, daemonVars, wireVars, phoneVars, sheet, baseline>>

\* Mutant: the list is not read again.
CancelPairingOnly ==
    /\ Withdraw
    /\ window' = None
    /\ UNCHANGED <<age, issued, daemonVars, wireVars, phoneVars, baseline, listed, said>>

\* cancelPairing: CancelPairing, then refresh(); no window is open between them,
\* so nothing is recorded between them.
CancelPairing ==
    /\ Withdraw
    /\ window' = None
    /\ listed' = Cardinality(store)
    /\ UNCHANGED <<age, issued, daemonVars, wireVars, phoneVars, baseline, said>>

SheetClosed ==
    /\ todo # <<>> /\ Head(todo) = "close"
    /\ todo' = Tail(todo)
    /\ UNCHANGED sheet
    /\ CancelPairing

\* The user cancels: onRejected, and onClosed will follow.
UserCancels ==
    /\ sheet # None
    /\ sheet' = None
    /\ todo' = <<"close">>
    /\ CancelPairing

\* DevicesChanged, or the Refresh button.
Refresh ==
    /\ todo = <<>>
    /\ listed' = Cardinality(store)
    /\ UNCHANGED <<windowVars, daemonVars, wireVars, phoneVars,
                   sheet, baseline, todo, said>>

RemoveDevice(a) ==
    /\ a \in store
    /\ store' = store \ {a}
    /\ UNCHANGED <<windowVars, backlog, outbound, admitted, wireVars, phoneVars,
                   sheetVars>>

-------------------------------------------------------------------------------
(***************************************************************************)
(* The phones.                                                             *)
(***************************************************************************)

\* stop(): the job of the link is cancelled and its queue goes with it. Lines
\* already in the socket stay there.
Stopped(p) ==
    [a \in Attempts |-> IF a.phone = p /\ request[a].at = "queued"
                        THEN [request[a] EXCEPT !.at = "none"] ELSE request[a]]

\* pairWith and pair() as far as its await, on a code scanned now or before: a
\* new key replaces the old one, a new link the old link.
Pair(p, token) ==
    /\ ~waiting[p]
    /\ made < MaxAttempts
    /\ LET n == made + 1 IN
         /\ made' = n
         /\ key' = [key EXCEPT ![p] = n]
         /\ link' = [link EXCEPT ![p] = n]
         /\ request' = [Stopped(p) EXCEPT ![[phone |-> p, n |-> n]] =
                          [at |-> "queued", token |-> token]]
    /\ waiting' = [waiting EXCEPT ![p] = TRUE]
    /\ UNCHANGED <<windowVars, daemonVars, results, believes, sheetVars>>

\* generate() deletes the old key before the new one turns out impossible.
GenerateFails(p) ==
    /\ ~waiting[p]
    /\ key[p] # 0
    /\ key' = [key EXCEPT ![p] = 0]
    /\ UNCHANGED <<windowVars, daemonVars, wireVars, link, waiting, made, believes,
                   sheetVars>>

\* PAIR_TIMEOUT_MS, or the screen is gone: the link and its request stay.
PairTimesOut(p) ==
    /\ waiting[p]
    /\ waiting' = [waiting EXCEPT ![p] = FALSE]
    /\ UNCHANGED <<windowVars, daemonVars, wireVars, link, key, made, believes,
                   sheetVars>>

\* onUnpair
Unpair(p) ==
    /\ ~waiting[p]
    /\ believes[p] # None
    /\ link' = [link EXCEPT ![p] = 0]
    /\ request' = Stopped(p)
    /\ key' = [key EXCEPT ![p] = 0]
    /\ believes' = [believes EXCEPT ![p] = None]
    /\ UNCHANGED <<windowVars, daemonVars, results, waiting, made, sheetVars>>

\* The link connects, and its pump writes the request.
SendRequest(a) ==
    /\ request[a].at = "queued"
    /\ request' = [request EXCEPT ![a].at = "sent"]
    /\ backlog' = Append(backlog, a)
    /\ UNCHANGED <<windowVars, store, outbound, admitted, results, phoneVars, sheetVars>>

\* Mutant: any verdict is a success.
PairResultUnchecked(r) ==
    /\ Keep(r.to)
    /\ results' = results \ {r}
    /\ LET p == r.to.phone IN
         /\ waiting' = [waiting EXCEPT ![p] = FALSE]
         /\ believes' = [believes EXCEPT ![p] = IF waiting[p] THEN r.id ELSE @]
    /\ UNCHANGED <<windowVars, daemonVars, request, link, key, made, sheetVars>>

\* onMessage: whoever awaits a verdict on this phone takes it.
PairResult(r) ==
    /\ Keep(r.to)
    /\ results' = results \ {r}
    /\ LET p == r.to.phone IN
         /\ waiting' = [waiting EXCEPT ![p] = FALSE]
         /\ believes' = [believes EXCEPT ![p] =
                           IF waiting[p] /\ r.ok THEN r.id ELSE @]
    /\ UNCHANGED <<windowVars, daemonVars, request, link, key, made, sheetVars>>

-------------------------------------------------------------------------------
(***************************************************************************)
(* The daemon.                                                             *)
(***************************************************************************)

\* Mutant: the reader runs before the write half is kept.
AdoptPhoneReadOnly ==
    /\ backlog # <<>>
    /\ backlog' = Tail(backlog)
    /\ UNCHANGED <<windowVars, store, outbound, admitted, wireVars, phoneVars, sheetVars>>

AdoptPhone ==
    /\ backlog # <<>>
    /\ outbound' = Head(backlog)
    /\ backlog' = Tail(backlog)
    /\ UNCHANGED <<windowVars, store, admitted, wireVars, phoneVars, sheetVars>>

\* complete_pairing as far as its send_line. The token is spent before the record
\* is saved, and saving may fail.
CompletePairing(a) ==
    /\ request[a].at = "sent"
    /\ \A i \in DOMAIN backlog : backlog[i] # a
    /\ window' = AfterTake(request[a].token)
    /\ \/ /\ Matches(request[a].token)
          /\ store' = store \cup {a}
          /\ admitted' = admitted \cup {[token |-> request[a].token, key |-> a]}
          /\ request' = [request EXCEPT ![a].at = "recorded"]
       \/ /\ request' = [request EXCEPT ![a].at = "refused"]
          /\ UNCHANGED <<store, admitted>>
    /\ UNCHANGED <<age, issued, revoked, backlog, outbound, results, phoneVars,
                   sheetVars>>

\* send_line: the verdict goes to the newest connection, whoever asked.
SendResult(a) ==
    /\ request[a].at \in {"recorded", "refused"}
    /\ request' = [request EXCEPT ![a].at = "done"]
    /\ results' = results \cup
         {[to |-> outbound, ok |-> request[a].at = "recorded", id |-> a]}
    /\ UNCHANGED <<windowVars, daemonVars, phoneVars, sheetVars>>

\* The write fails: a recorded phone is refused after all, on what is then the
\* newest connection; a refusal that cannot be sent is dropped.
SendResultFails(a) ==
    /\ request[a].at \in {"recorded", "refused"}
    /\ request' = [request EXCEPT ![a].at =
                     IF @ = "recorded" THEN "refused" ELSE "done"]
    /\ UNCHANGED <<windowVars, daemonVars, results, phoneVars, sheetVars>>

-------------------------------------------------------------------------------
Settings ==
    \/ StartPairing \/ Poll \/ Conclude \/ SheetClosed \/ UserCancels \/ Refresh
    \/ \E a \in store : RemoveDevice(a)

Phone(p) ==
    \/ \E token \in 1..issued : Pair(p, token)
    \/ GenerateFails(p) \/ PairTimesOut(p) \/ Unpair(p)

Attempt(a) ==
    SendRequest(a) \/ CompletePairing(a) \/ SendResult(a) \/ SendResultFails(a)

Next ==
    \/ Tick \/ Settings \/ AdoptPhone
    \/ \E p \in Phones : Phone(p)
    \/ \E a \in Attempts : Attempt(a)
    \/ \E r \in results : PairResult(r)

Spec == Init /\ [][Next]_vars

-------------------------------------------------------------------------------
TypeOK ==
    /\ window \in Tokens \cup {None}
    /\ age \in 0..Window
    /\ issued \in 0..MaxTokens
    /\ store \subseteq Attempts
    /\ backlog \in Seq(Attempts)
    /\ outbound \in Attempts \cup {None}
    /\ request \in [Attempts ->
         [at : {"none", "queued", "sent", "recorded", "refused", "done"},
          token : 0..MaxTokens]]
    /\ results \subseteq [to : Attempts, ok : BOOLEAN, id : Attempts]
    /\ link \in [Phones -> 0..MaxAttempts]
    /\ waiting \in [Phones -> BOOLEAN]
    /\ key \in [Phones -> 0..MaxAttempts]
    /\ made \in 0..MaxAttempts
    /\ believes \in [Phones -> Attempts \cup {None}]
    /\ sheet \in Tokens \cup {None}
    /\ baseline \in Nat /\ listed \in Nat
    /\ todo \in Seq({"conclude", "close"})
    /\ said \in [token : 0..MaxTokens, verdict : {"nothing", "paired", "timed out"}]
    /\ admitted \subseteq [token : Tokens, key : Attempts]
    /\ revoked \subseteq Tokens

\* A token records one phone and no more, whoever scanned it and however often
\* its request is sent (take_matching: "a token can pair exactly one device").
TokenAdmitsOnce ==
    \A a, b \in admitted : a.token = b.token => a = b

\* A token whose window ran out, was cancelled or was replaced records no phone,
\* though its request had been queued or was on its way by then.
RevokedNeverAdmits == \A a \in admitted : a.token \notin revoked

\* "Phone paired." is said only when a phone was recorded with the code on that
\* sheet, though it is concluded from the length of a list alone
\* (devicemodel.cpp:288-295).
SaidPairedIsTrue ==
    said.verdict = "paired" => \E a \in admitted : a.token = said.token

\* A phone takes itself for paired only under an id the desktop has recorded.
BelievedIsRecorded ==
    \A p \in Phones : believes[p] # None => \E a \in admitted : a.key = believes[p]

\* "On success the link stays up as the paired link, so the phone is immediately
\* ready to answer" (LinkController.kt:148-150): when pairing succeeds, the key the
\* phone holds is one the desktop has recorded.
PairedCanAnswer ==
    [][\A p \in Phones : believes'[p] # believes[p] /\ believes'[p] # None =>
         \E a \in admitted : a.key = [phone |-> p, n |-> key[p]]]_vars
================================================================================
