------------------------------- MODULE KPasskey -------------------------------
(***************************************************************************)
(* The desktop daemon, one paired phone and the TCP connections between    *)
(* them: Daemon with its environment replaced by LinkController and        *)
(* DesktopLink. What the phone reads is what the daemon wrote, what the    *)
(* daemon receives is what the phone's pump wrote.                         *)
(***************************************************************************)
EXTENDS Naturals, Sequences, FiniteSets

CONSTANTS
    Tasks, Op, Conns, PhoneKey, BufCap, MaxRestarts, MaxBreaks, None

VARIABLES
    next_id, pending, pending_json, outbound, writer, devices,
    pc, id, key, mail, verdict, conn, broken, wire, seen, signed, restarts,
    slot, expiry, shown, prompt, main, linked, outbox, touched,
    taken, session, up

D == INSTANCE Daemon WITH Keys <- {PhoneKey}, Times <- {0}

\* Ids start over after a restart; a line is an id and the task that drew it.
Requests == [id : 1..Cardinality(Tasks), challenge : Tasks]

L == INSTANCE LinkController WITH
         AnswerKind <- [r \in Requests |->
                          IF Op[r.challenge] = "makecred" THEN "cred" ELSE "sig"]

T == INSTANCE DesktopLink WITH
         Answers <- L!Answers,
         Tracked <- {}, fate <- [a \in {} |-> "none"],
         MaxStops <- 0, stops <- 0,
         used <- {k \in Conns : conn[k] # "new"}

ASSUME TaskAssumption ==
    IsFiniteSet(Tasks) /\ Op \in [Tasks -> {"verify", "makecred", "assert"}]
ASSUME BoundAssumption == BufCap \in Nat \ {0} /\ MaxRestarts \in Nat /\ MaxBreaks \in Nat
ASSUME NoneAssumption ==
    None \notin Tasks \cup Conns \cup {PhoneKey} \cup D!Replies
               \cup Requests \cup L!Answers \cup L!MainStates

daemonVars == <<next_id, pending, pending_json, outbound, writer, devices,
                pc, id, key, mail, verdict, conn, wire, seen, signed, restarts>>
phoneVars == <<slot, expiry, shown, prompt, main, touched>>
linkVars == <<linked, outbox, taken, session, up>>
vars == <<daemonVars, broken, phoneVars, linkVars>>

Init ==
    /\ D!Init
    /\ devices = {[key |-> PhoneKey, at |-> 0]}
    /\ L!Init
    /\ T!Init

\* approvalLine, credentialLine, denialLine: what is left of an answer on the
\* wire. The request it answers is known from its id alone, unless it is signed.
AsReply(a) ==
    IF a.kind = "sig"
    THEN [kind |-> "sig", id |-> a.on.id, sig |-> [key |-> PhoneKey, line |-> a.on]]
    ELSE [kind |-> a.kind, id |-> a.on.id]

-------------------------------------------------------------------------------
DaemonSteps ==
    /\ \/ \E c \in Tasks : D!PamConnects(c) \/ D!Runs(c)
       \/ \E k \in Conns : \/ D!AcceptPhone(k) \/ D!AdoptPhone(k)
                           \/ up[k] = <<>> /\ D!ReaderEnds(k)
       \/ D!Restart
    /\ UNCHANGED <<phoneVars, linkVars>>

PhoneConnects(k) == D!PhoneConnects(k) /\ T!Connect(k) /\ UNCHANGED phoneVars

Break(k) ==
    /\ Cardinality(broken) < MaxBreaks
    /\ D!Break(k)
    /\ T!Break(k)
    /\ UNCHANGED phoneVars

PhoneReads(k) ==
    /\ session = k
    /\ D!PhoneReads(k)
    /\ L!Present(Head(wire[k]))
    /\ UNCHANGED <<taken, session, up>>

DaemonReads(k) ==
    /\ up[k] # <<>>
    /\ D!Receive(k, AsReply(Head(up[k])))
    /\ T!DaemonReads(k)
    /\ UNCHANGED phoneVars

\* The touch lets the key sign the request on the prompt. (An assertion is signed
\* with a credential's key; the daemon does not look at which.)
Touch ==
    /\ prompt # None
    /\ IF L!AnswersWithSignature(prompt) THEN D!Sign(PhoneKey, prompt)
       ELSE UNCHANGED <<daemonVars, broken>>
    /\ L!FingerprintAccepted
    /\ UNCHANGED <<taken, session, up>>

SendAnswer ==
    /\ UNCHANGED <<daemonVars, broken>>
    /\ L!SendAnswer
    /\ T!Queue(main.answer)

OtherPhoneSteps ==
    /\ UNCHANGED <<daemonVars, broken>>
    /\ \/ \E r \in Requests : L!ExpiryChecks(r) \/ L!ExpiryClears(r)
       \/ L!Recompose \/ L!ClearSlot
       \/ L!TapApprove \/ L!PromptFails \/ L!CredentialFails
       \/ L!TapDeny \/ L!NotificationDeny
    /\ UNCHANGED <<taken, session, up>>

LinkSteps ==
    /\ UNCHANGED <<daemonVars, broken, phoneVars>>
    /\ T!Pump \/ T!SessionEnds

Next ==
    \/ DaemonSteps
    \/ \E k \in Conns : PhoneConnects(k) \/ Break(k) \/ PhoneReads(k) \/ DaemonReads(k)
    \/ Touch \/ SendAnswer \/ OtherPhoneSteps \/ LinkSteps

Spec == Init /\ [][Next]_vars

-------------------------------------------------------------------------------
TypeOK == D!TypeOK /\ L!TypeOK /\ T!TypeOK

\* An answer wakes only the task whose request it answers: "a late reply simply
\* finds no waiter and is discarded" (docs/spike.md:65-66). Replies carry an id
\* and nothing else of the request (Protocol.kt:136-150).
LateReplyIsDiscarded ==
    [][\A k \in Conns : up[k] # <<>> /\ up'[k] = Tail(up[k]) =>
         \A c \in Tasks : mail'[c] # mail[c] /\ mail'[c] # None =>
             Head(up[k]).on = D!Line(c)]_vars

\* From the fingerprint to the verdict: a verification is granted only when the
\* owner touched the sensor for a prompt showing that very request.
Granted == INSTANCE Authorization WITH
               Requests <- D!Verifiers,
               status <- [c \in D!Verifiers |-> D!Told(c)],
               consented <- {c \in D!Verifiers : D!Told(c) # "idle" /\ D!Line(c) \in touched}

ImplementsAuthorization == Granted!Spec
===============================================================================
