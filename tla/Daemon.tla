-------------------------------- MODULE Daemon --------------------------------
(***************************************************************************)
(* The desktop daemon's request core (server.rs): the accept loop, one     *)
(* handle_pam task per connection to pam.sock, the single outbound write   *)
(* half, the two waiter maps, and the store they authorise against.        *)
(*                                                                         *)
(* main.rs builds a current-thread runtime, so code between two .await     *)
(* points is one step; every .await that can suspend is a control point.   *)
(* The phone and the network are the environment: they may delay, repeat,  *)
(* reorder and invent answers, but not sign a request they have not read.  *)
(***************************************************************************)
EXTENDS Naturals, Sequences, FiniteSets

CONSTANTS
    Tasks,        \* connections to pam.sock, each one handle_pam task
    Op,           \* the operation each of them asks for
    Conns,        \* TCP connections a phone opens, each used once
    Keys,         \* signing keys; a device record is identified by its key
    Times,        \* values of paired_at
    BufCap,       \* request lines a socket takes before a write suspends
    MaxRestarts,  \* bound on daemon restarts
    None

ASSUME OpAssumption == Op \in [Tasks -> {"verify", "makecred", "assert"}]
ASSUME BoundAssumption == /\ Times \subseteq Nat
                          /\ BufCap \in Nat \ {0}
                          /\ MaxRestarts \in Nat

VARIABLES
    next_id,       \* Daemon.next_id
    pending,       \* Daemon.pending: the waiters of verifications
    pending_json,  \* Daemon.pending_json: the waiters of WebAuthn requests
    outbound,      \* the connection whose write half the daemon holds
    writer,        \* the task inside send_line, holding outbound's lock
    devices,       \* the device records on disk
    pc, id, key, mail, verdict,  \* per task: control point and locals
    conn,          \* per connection: where the accept loop and reader are
    broken,        \* connections the kernel knows to be dead
    wire,          \* per connection: lines written and not yet read
    seen, signed,  \* history: requests the phone read, signatures it made
    restarts

taskVars == <<pc, id, key, mail, verdict>>
netVars == <<conn, broken, wire>>
phoneVars == <<seen, signed>>
vars == <<next_id, pending, pending_json, outbound, writer, devices,
          taskVars, netVars, phoneVars, restarts>>

Verifiers == {c \in Tasks : Op[c] = "verify"}

\* The bytes of a request: the id and a challenge no other request shares, so
\* the challenge is named by the task that drew it. These bytes are signed.
Lines == [id : Nat, challenge : Tasks]
Line(c) == [id |-> id[c], challenge |-> c]
Signatures == [key : Keys, line : Lines]
Replies == [kind : {"sig"}, id : Nat, sig : Signatures]
           \cup [kind : {"denied", "cred"}, id : Nat]
Waiters == [id : Nat, task : Tasks]
DeviceRecords == [key : Keys, at : Times]

ASSUME NoneAssumption == None \notin Tasks \cup Conns \cup Keys \cup Replies

\* Ids are drawn from here on, by every process anew.
FirstIdZero == 0  \* mutant
FirstId == 1

\* Store::list sorts by paired_at; records paired in one second tie.
Oldest(store) == {d \in store : \A e \in store : d.at <= e.at}
Paired(k) == \E d \in devices : d.key = k

Insert(map, i, c) == {w \in map : w.id # i} \cup {[id |-> i, task |-> c]}
Remove(map, i) == {w \in map : w.id # i}
Waiting(map, i) == \E w \in map : w.id = i
Waiter(map, i) == (CHOOSE w \in map : w.id = i).task

\* The accept loop runs adopt_phone inline, so it takes nothing else meanwhile.
LoopIdle == \A k \in Conns : conn[k] # "adopting"

Init ==
    /\ next_id = FirstId
    /\ pending = {} /\ pending_json = {}
    /\ outbound = None /\ writer = None
    /\ devices \in SUBSET DeviceRecords
    /\ \A d, e \in devices : d.key = e.key => d = e
    /\ pc = [c \in Tasks |-> "idle"]
    /\ id = [c \in Tasks |-> 0]
    /\ key = [c \in Tasks |-> None]
    /\ mail = [c \in Tasks |-> None]
    /\ verdict = [c \in Tasks |-> "none"]
    /\ conn = [k \in Conns |-> "new"]
    /\ broken = {}
    /\ wire = [k \in Conns |-> <<>>]
    /\ seen = {} /\ signed = {}
    /\ restarts = 0

-------------------------------------------------------------------------------
(***************************************************************************)
(* The accept loop and the phone's connections.                            *)
(***************************************************************************)

PhoneConnects(k) ==
    /\ conn[k] = "new"
    /\ conn' = [conn EXCEPT ![k] = "backlog"]
    /\ UNCHANGED <<next_id, pending, pending_json, outbound, writer, devices,
                   taskVars, broken, wire, phoneVars, restarts>>

AcceptPhone(k) ==
    /\ LoopIdle
    /\ conn[k] = "backlog"
    /\ conn' = [conn EXCEPT ![k] = "adopting"]
    /\ UNCHANGED <<next_id, pending, pending_json, outbound, writer, devices,
                   taskVars, broken, wire, phoneVars, restarts>>

\* The newest connection replaces the write half; older readers keep running.
AdoptPhone(k) ==
    /\ conn[k] = "adopting"
    /\ writer = None
    /\ outbound' = k
    /\ conn' = [conn EXCEPT ![k] = "reading"]
    /\ UNCHANGED <<next_id, pending, pending_json, writer, devices,
                   taskVars, broken, wire, phoneVars, restarts>>

\* End of file or an error ends the reader and touches nothing of the daemon's.
ReaderEnds(k) ==
    /\ conn[k] = "reading"
    /\ k \in broken
    /\ conn' = [conn EXCEPT ![k] = "ended"]
    /\ UNCHANGED <<next_id, pending, pending_json, outbound, writer, devices,
                   taskVars, broken, wire, phoneVars, restarts>>

\* The kernel finds the connection dead; a tail of the unread bytes is lost.
Break(k) ==
    /\ conn[k] # "new"
    /\ k \notin broken
    /\ broken' = broken \cup {k}
    /\ \E n \in 0..Len(wire[k]) :
         wire' = [wire EXCEPT ![k] = SubSeq(@, 1, n)]
    /\ UNCHANGED <<next_id, pending, pending_json, outbound, writer, devices,
                   taskVars, conn, phoneVars, restarts>>

-------------------------------------------------------------------------------
(***************************************************************************)
(* One handle_pam task.                                                    *)
(***************************************************************************)

PamConnects(c) ==
    /\ pc[c] = "idle"
    /\ pc' = [pc EXCEPT ![c] = "backlog"]
    /\ UNCHANGED <<next_id, pending, pending_json, outbound, writer, devices,
                   id, key, mail, verdict, netVars, phoneVars, restarts>>

AcceptPam(c) ==
    /\ LoopIdle
    /\ pc[c] = "backlog"
    /\ pc' = [pc EXCEPT ![c] = "accepted"]
    /\ UNCHANGED <<next_id, pending, pending_json, outbound, writer, devices,
                   id, key, mail, verdict, netVars, phoneVars, restarts>>

\* active_device()? with nothing paired: refused before an id is drawn.
NoDevice(c) ==
    /\ pc[c] = "accepted"
    /\ Op[c] # "assert"
    /\ devices = {}
    /\ verdict' = [verdict EXCEPT ![c] = "fail"]
    /\ pc' = [pc EXCEPT ![c] = "reply"]
    /\ UNCHANGED <<next_id, pending, pending_json, outbound, writer, devices,
                   id, key, mail, netVars, phoneVars, restarts>>

\* run_verification up to send_line: the key is fixed here, and the waiter is
\* registered before anything is sent.
RunVerification(c) ==
    /\ pc[c] = "accepted"
    /\ Op[c] = "verify"
    /\ \E d \in Oldest(devices) : key' = [key EXCEPT ![c] = d.key]
    /\ id' = [id EXCEPT ![c] = next_id]
    /\ next_id' = next_id + 1
    /\ pending' = Insert(pending, next_id, c)
    /\ pc' = [pc EXCEPT ![c] = "lock"]
    /\ UNCHANGED <<pending_json, outbound, writer, devices, mail, verdict,
                   netVars, phoneVars, restarts>>

\* Mutant: the id is left for the next request as well.
AskPhoneKeepsId(c) ==
    /\ pc[c] = "accepted"
    /\ Op[c] # "verify"
    /\ Op[c] = "makecred" => devices # {}
    /\ id' = [id EXCEPT ![c] = next_id]
    /\ pending_json' = Insert(pending_json, next_id, c)
    /\ pc' = [pc EXCEPT ![c] = "lock"]
    /\ UNCHANGED <<next_id, pending, outbound, writer, devices, key, mail, verdict,
                   netVars, phoneVars, restarts>>

\* webauthn_make_credential and webauthn_assert up to send_line.
AskPhone(c) ==
    /\ pc[c] = "accepted"
    /\ Op[c] # "verify"
    /\ Op[c] = "makecred" => devices # {}
    /\ id' = [id EXCEPT ![c] = next_id]
    /\ next_id' = next_id + 1
    /\ pending_json' = Insert(pending_json, next_id, c)
    /\ pc' = [pc EXCEPT ![c] = "lock"]
    /\ UNCHANGED <<pending, outbound, writer, devices, key, mail, verdict,
                   netVars, phoneVars, restarts>>

\* send_line: outbound.lock().await
LockOutbound(c) ==
    /\ pc[c] = "lock"
    /\ writer = None
    /\ writer' = c
    /\ pc' = [pc EXCEPT ![c] = "write"]
    /\ UNCHANGED <<next_id, pending, pending_json, outbound, devices,
                   id, key, mail, verdict, netVars, phoneVars, restarts>>

\* write_all returns once the socket has taken the line; while the buffer is
\* full the task stays here, the lock in its hand and no timeout running.
SendLine(c) ==
    /\ pc[c] = "write"
    /\ outbound # None
    /\ outbound \notin broken
    /\ Len(wire[outbound]) < BufCap
    /\ wire' = [wire EXCEPT ![outbound] = Append(@, Line(c))]
    /\ writer' = None
    /\ pc' = [pc EXCEPT ![c] = "wait"]
    /\ UNCHANGED <<next_id, pending, pending_json, outbound, devices, id, key,
                   mail, verdict, conn, broken, phoneVars, restarts>>

\* Mutant: the waiter stays in its map.
GiveUpKeepsWaiter(c) ==
    /\ UNCHANGED <<pending, pending_json>>
    /\ verdict' = [verdict EXCEPT ![c] = "fail"]
    /\ pc' = [pc EXCEPT ![c] = "reply"]

\* Takes the task's waiter out of its own map and refuses.
GiveUp(c) ==
    /\ pending' = IF Op[c] = "verify" THEN Remove(pending, id[c]) ELSE pending
    /\ pending_json' = IF Op[c] = "verify" THEN pending_json
                       ELSE Remove(pending_json, id[c])
    /\ verdict' = [verdict EXCEPT ![c] = "fail"]
    /\ pc' = [pc EXCEPT ![c] = "reply"]

\* Mutant: a write into a dead socket is not noticed.
SendFailsUnconnected(c) ==
    /\ pc[c] = "write"
    /\ outbound = None
    /\ writer' = None
    /\ GiveUp(c)
    /\ UNCHANGED <<next_id, outbound, devices, id, key, mail,
                   netVars, phoneVars, restarts>>

\* No phone connected, or the write failed; outbound is left as it was.
SendFails(c) ==
    /\ pc[c] = "write"
    /\ outbound = None \/ outbound \in broken
    /\ writer' = None
    /\ GiveUp(c)
    /\ UNCHANGED <<next_id, outbound, devices, id, key, mail,
                   netVars, phoneVars, restarts>>

NoTimeout(c) == FALSE  \* mutant: the answer is awaited without a timeout

\* tokio::time::timeout polls the receiver first, so a value already in it wins.
Timeout(c) ==
    /\ pc[c] = "wait"
    /\ mail[c] = None
    /\ GiveUp(c)
    /\ UNCHANGED <<next_id, outbound, writer, devices, id, key, mail,
                   netVars, phoneVars, restarts>>

\* Mutants: whose key it was, or which bytes were signed, does not matter.
VerifiesAnyKey(c, reply) == reply.kind = "sig" /\ reply.sig.line = Line(c)
VerifiesAnyLine(c, reply) == reply.kind = "sig" /\ reply.sig.key = key[c]

\* verify_assertion: the key read at the start, over the bytes sent.
Verifies(c, reply) ==
    reply.kind = "sig" /\ reply.sig = [key |-> key[c], line |-> Line(c)]

\* What each operation requires of the value it was handed.
Accepts(c, reply) ==
    CASE Op[c] = "verify" -> Verifies(c, reply)
      [] Op[c] = "makecred" -> reply.kind = "cred"
      [] Op[c] = "assert" -> reply.kind = "sig"

Resume(c) ==
    /\ pc[c] = "wait"
    /\ mail[c] # None
    /\ verdict' = [verdict EXCEPT ![c] = IF Accepts(c, mail[c]) THEN "ok" ELSE "fail"]
    /\ pc' = [pc EXCEPT ![c] = "reply"]
    /\ UNCHANGED <<next_id, pending, pending_json, outbound, writer, devices,
                   id, key, mail, netVars, phoneVars, restarts>>

\* The verdict is written to the client and the task ends.
Answer(c) ==
    /\ pc[c] = "reply"
    /\ pc' = [pc EXCEPT ![c] = "done"]
    /\ UNCHANGED <<next_id, pending, pending_json, outbound, writer, devices,
                   id, key, mail, verdict, netVars, phoneVars, restarts>>

-------------------------------------------------------------------------------
(***************************************************************************)
(* Lines from the phone.                                                   *)
(***************************************************************************)

\* The waiter a line from the phone wakes, as deliver looks for it: the JSON
\* map by id alone, then the verification map for a signature or a denial.
Woken(m) ==
    IF Waiting(pending_json, m.id) THEN {Waiter(pending_json, m.id)}
    ELSE IF m.kind \in {"sig", "denied"} /\ Waiting(pending, m.id)
         THEN {Waiter(pending, m.id)} ELSE {}

Deliver(m) ==
    /\ mail' = [c \in Tasks |-> IF c \in Woken(m) THEN m ELSE mail[c]]
    /\ pending_json' = Remove(pending_json, m.id)
    /\ pending' = IF Waiting(pending_json, m.id) \/ m.kind = "cred" THEN pending
                  ELSE Remove(pending, m.id)

\* on_phone_message, on any connection whose reader still runs.
Receive(k, m) ==
    /\ conn[k] = "reading"
    /\ Deliver(m)
    /\ UNCHANGED <<next_id, outbound, writer, devices, pc, id, key, verdict,
                   netVars, phoneVars, restarts>>

PhoneReads(k) ==
    /\ wire[k] # <<>>
    /\ seen' = seen \cup {Head(wire[k])}
    /\ wire' = [wire EXCEPT ![k] = Tail(@)]
    /\ UNCHANGED <<next_id, pending, pending_json, outbound, writer, devices,
                   taskVars, conn, broken, signed, restarts>>

\* A phone holding key k signs a request it has read.
Sign(k, line) ==
    /\ line \in seen
    /\ signed' = signed \cup {[key |-> k, line |-> line]}
    /\ UNCHANGED <<next_id, pending, pending_json, outbound, writer, devices,
                   taskVars, netVars, seen, restarts>>

\* Whatever ids have been drawn, what a phone can put on a connection.
PossibleReplies ==
    [kind : {"sig"}, id : 1..Cardinality(Tasks), sig : signed]
    \cup [kind : {"denied", "cred"}, id : 1..Cardinality(Tasks)]

-------------------------------------------------------------------------------
(***************************************************************************)
(* The store, through D-Bus and pairing, and the process itself.           *)
(***************************************************************************)

\* Store::save under the key's own id: a key saved again overwrites its record.
SaveDevice(k, now) ==
    /\ devices' = {d \in devices : d.key # k} \cup {[key |-> k, at |-> now]}
    /\ UNCHANGED <<next_id, pending, pending_json, outbound, writer, taskVars,
                   netVars, phoneVars, restarts>>

\* Manager1.RemoveDevice
RemoveDevice(k) ==
    /\ Paired(k)
    /\ devices' = {d \in devices : d.key # k}
    /\ UNCHANGED <<next_id, pending, pending_json, outbound, writer, taskVars,
                   netVars, phoneVars, restarts>>

InProgress == {"backlog", "accepted", "lock", "write", "wait", "reply"}

\* The process exits and systemd starts it again: Daemon::new, ids from 1. Its
\* clients read end of file; its sockets close.
Restart ==
    /\ restarts < MaxRestarts
    /\ restarts' = restarts + 1
    /\ next_id' = FirstId
    /\ pending' = {} /\ pending_json' = {}
    /\ outbound' = None /\ writer' = None
    /\ pc' = [c \in Tasks |-> IF pc[c] \in InProgress THEN "gone" ELSE pc[c]]
    /\ mail' = [c \in Tasks |-> None]
    /\ conn' = [k \in Conns |-> IF conn[k] = "new" THEN "new" ELSE "ended"]
    /\ broken' = broken \cup {k \in Conns : conn[k] # "new"}
    /\ UNCHANGED <<devices, id, key, verdict, wire, phoneVars>>

-------------------------------------------------------------------------------
\* What the daemon does of its own for a task, once the client has connected.
Runs(c) ==
    \/ AcceptPam(c) \/ NoDevice(c) \/ RunVerification(c) \/ AskPhone(c)
    \/ LockOutbound(c) \/ SendLine(c) \/ SendFails(c)
    \/ Timeout(c) \/ Resume(c) \/ Answer(c)

Connection(k) ==
    \/ PhoneConnects(k) \/ AcceptPhone(k) \/ AdoptPhone(k) \/ ReaderEnds(k)
    \/ Break(k) \/ PhoneReads(k)

Next ==
    \/ \E c \in Tasks : PamConnects(c) \/ Runs(c)
    \/ \E k \in Conns : Connection(k)
    \/ \E k \in Conns, m \in PossibleReplies : Receive(k, m)
    \/ \E k \in Keys, line \in seen : Sign(k, line)
    \/ \E k \in Keys, now \in Times : SaveDevice(k, now)
    \/ \E k \in Keys : RemoveDevice(k)
    \/ Restart

Spec == Init /\ [][Next]_vars
(***************************************************************************)
(* Fairness. The runtime polls every ready task, tokio's Mutex is first    *)
(* come, first served, and select! picks among ready branches at random,   *)
(* so no step stays enabled and untaken. A connection whose buffer is full *)
(* is read in the end, or found dead. A client is not obliged to connect.  *)
(***************************************************************************)
Fairness ==
    /\ \A c \in Tasks : WF_vars(Runs(c))
    /\ \A k \in Conns : /\ WF_vars(AcceptPhone(k) \/ AdoptPhone(k))
                        /\ WF_vars(PhoneReads(k) \/ Break(k))

FairSpec == Spec /\ Fairness

-------------------------------------------------------------------------------
TypeOK ==
    /\ next_id \in Nat \ {0}
    /\ pending \subseteq Waiters
    /\ pending_json \subseteq Waiters
    /\ outbound \in Conns \cup {None}
    /\ writer \in Tasks \cup {None}
    /\ devices \subseteq DeviceRecords
    /\ pc \in [Tasks -> {"idle", "done", "gone"} \cup InProgress]
    /\ id \in [Tasks -> Nat]
    /\ key \in [Tasks -> Keys \cup {None}]
    /\ mail \in [Tasks -> Replies \cup {None}]
    /\ verdict \in [Tasks -> {"none", "ok", "fail"}]
    /\ conn \in [Conns -> {"new", "backlog", "adopting", "reading", "ended"}]
    /\ broken \subseteq Conns
    /\ wire \in [Conns -> Seq(Lines)]
    /\ seen \subseteq Lines
    /\ signed \subseteq Signatures
    /\ restarts \in 0..MaxRestarts

\* A task between drawing its id and leaving the wait.
Registered(c) == pc[c] \in {"lock", "write", "wait"}
MapOf(c) == IF Op[c] = "verify" THEN pending ELSE pending_json

\* An answer that comes is never lost, nothing leaks on a timeout or a failed send,
\* and "verification was abandoned" (server.rs:237-240, 269-272) cannot happen: a
\* task that has not been answered has its waiter in the map of its kind, a waiter
\* belongs to such a task, and one id counter serves both maps.
WaiterOfEach ==
    \A c \in Tasks : Registered(c) /\ mail[c] = None
                       => [id |-> id[c], task |-> c] \in MapOf(c)
TaskOfEach ==
    \A w \in pending \cup pending_json :
      /\ Registered(w.task) /\ mail[w.task] = None /\ id[w.task] = w.id
      /\ w \in pending <=> Op[w.task] = "verify"
      /\ w \in pending_json <=> Op[w.task] # "verify"
OnePerId == \A v, w \in pending \cup pending_json : v.id = w.id => v = w

WaitersAreExact == WaiterOfEach /\ TaskOfEach /\ OnePerId

\* A verification succeeds only with a signature the phone made over that very
\* request, under the key that was active when the request was made
\* (verify_assertion, link.rs:19-23): whatever the phone or the network
\* replays, across restarts that hand out the same ids again.
ApprovedMeansSigned ==
    \A c \in Verifiers :
        verdict[c] = "ok" => [key |-> key[c], line |-> Line(c)] \in signed

\* Every request made on pam.sock is answered, or its connection is closed by a
\* restart: no lost wakeup, no wait without a timeout, no lock kept.
EveryRequestAnswered ==
    \A c \in Tasks : pc[c] = "backlog" ~> pc[c] \in {"done", "gone"}

\* A phone that connects becomes the phone requests go to, or is gone: a write
\* stuck on the previous connection does not keep the accept loop forever.
EveryPhoneAdopted ==
    \A k \in Conns : conn[k] = "backlog" ~> conn[k] \in {"reading", "ended"}

-------------------------------------------------------------------------------
(***************************************************************************)
(* The verifications implement Authorization: a requester is told when its *)
(* task ends, and consents by a signature under the key it is held to.     *)
(***************************************************************************)
Told(c) ==
    CASE pc[c] \in {"idle", "backlog", "accepted"} -> "idle"
      [] pc[c] \in {"lock", "write", "wait", "reply"} -> "asked"
      [] pc[c] = "gone" -> "refused"
      [] pc[c] = "done" -> IF verdict[c] = "ok" THEN "granted" ELSE "refused"

Consented(c) ==
    Told(c) # "idle" /\ [key |-> key[c], line |-> Line(c)] \in signed

Abstract == INSTANCE Authorization WITH
                Requests <- Verifiers,
                status <- [c \in Verifiers |-> Told(c)],
                consented <- {c \in Verifiers : Consented(c)}

\* The daemon grants only what the owner of the active phone consented to, and
\* never changes an answer it has given.
ImplementsAuthorization == Abstract!Spec
===============================================================================
