------------------------------ MODULE DesktopLink ------------------------------
(***************************************************************************)
(* The phone's end of the TCP line protocol (DesktopLink.kt, and start,    *)
(* stop and connect of LinkController.kt): a queue of answers that         *)
(* outlives connections, the pump that writes them into the current        *)
(* socket, and the loop that reconnects.                                   *)
(*                                                                         *)
(* The network may drop a connection at any time, with what it carries.    *)
(***************************************************************************)
EXTENDS Naturals, Sequences, FiniteSets

CONSTANTS
    Answers,     \* lines the phone may queue
    Tracked,     \* those whose fate the history records
    Conns,       \* TCP connections, each used once
    MaxBreaks,   \* bound on connections the network drops
    MaxStops,    \* bound on stop()
    None

ASSUME ConnAssumption == None \notin Answers \cup Conns
ASSUME TrackedAssumption == Tracked \subseteq Answers
ASSUME BreakAssumption == MaxBreaks \in Nat /\ MaxStops \in Nat

VARIABLES
    linked,     \* link is set and its job runs
    outbox,     \* the channel of lines not yet taken by the pump
    taken,      \* the line the pump has received and not yet written
    session,    \* the socket of the running session
    used,       \* connections opened so far
    broken,     \* connections the kernels know to be dead
    up,         \* per connection: lines written and not yet read
    fate,       \* history: what became of each answer
    stops

netVars == <<used, broken, up>>
vars == <<linked, outbox, taken, session, netVars, fate, stops>>

Init ==
    /\ linked = TRUE
    /\ outbox = <<>>
    /\ taken = None /\ session = None
    /\ used = {} /\ broken = {}
    /\ up = [k \in Conns |-> <<>>]
    /\ fate = [a \in Tracked |-> "none"]
    /\ stops = 0

Become(S, f) == fate' = [a \in Tracked |-> IF a \in S THEN f ELSE fate[a]]

Queued == {outbox[i] : i \in DOMAIN outbox} \cup ({taken} \ {None})

-------------------------------------------------------------------------------
\* stop() cancels the job, which closes the socket, and lets the link go with
\* whatever it still holds.
Stop ==
    /\ linked
    /\ stops < MaxStops
    /\ stops' = stops + 1
    /\ linked' = FALSE
    /\ outbox' = <<>> /\ taken' = None /\ session' = None
    /\ Become(Queued, "lost")
    /\ UNCHANGED netVars

\* start(), or pair() to the same desktop: a new link, a new queue.
Start ==
    /\ ~linked
    /\ linked' = TRUE
    /\ UNCHANGED <<outbox, taken, session, netVars, fate, stops>>

\* Mutant: the loop ends with its first session.
ConnectOnce(k) ==
    /\ linked
    /\ session = None
    /\ used = {}
    /\ used' = used \cup {k}
    /\ session' = k
    /\ UNCHANGED <<linked, outbox, taken, broken, up, fate, stops>>

Connect(k) ==
    /\ linked
    /\ session = None
    /\ k \notin used
    /\ used' = used \cup {k}
    /\ session' = k
    /\ UNCHANGED <<linked, outbox, taken, broken, up, fate, stops>>

\* send(): the channel is unbounded, so it never refuses.
Queue(a) ==
    /\ linked
    /\ outbox' = Append(outbox, a)
    /\ Become({a}, "queued")
    /\ UNCHANGED <<linked, taken, session, netVars, stops>>

\* pump: the channel hands over its first line ...
Take ==
    /\ session # None
    /\ taken = None
    /\ outbox # <<>>
    /\ taken' = Head(outbox)
    /\ outbox' = Tail(outbox)
    /\ UNCHANGED <<linked, session, netVars, fate, stops>>

\* ... which goes into the socket, dead or not yet known to be,
Write ==
    /\ taken # None
    /\ session \notin broken
    /\ up' = [up EXCEPT ![session] = Append(@, taken)]
    /\ Become({taken}, "written")
    /\ taken' = None
    /\ UNCHANGED <<linked, outbox, session, used, broken, stops>>

\* Mutants: the line is not put back, or is forgotten before it is.
WriteFailsDropping ==
    /\ taken # None
    /\ session \in broken
    /\ taken' = None
    /\ session' = None
    /\ UNCHANGED <<linked, outbox, netVars, fate, stops>>
WriteFailsTooLate ==
    /\ taken # None
    /\ session \in broken
    /\ taken' = None
    /\ outbox' = Append(outbox, taken')
    /\ session' = None
    /\ UNCHANGED <<linked, netVars, fate, stops>>

\* ... or back to the end of the queue, and the exception ends the session.
WriteFails ==
    /\ taken # None
    /\ session \in broken
    /\ outbox' = Append(outbox, taken)
    /\ taken' = None
    /\ session' = None
    /\ UNCHANGED <<linked, netVars, fate, stops>>

\* The reader sees the end first and cancels the pump. A line handed to the
\* pump before it could run again is dropped with it: a cancelled receive does
\* not put its element back.
SessionEnds ==
    /\ session \in broken
    /\ session' = None
    /\ taken' = None
    /\ Become({taken}, "lost")
    /\ UNCHANGED <<linked, outbox, netVars, stops>>

-------------------------------------------------------------------------------
Break(k) ==
    /\ k \in used \ broken
    /\ broken' = broken \cup {k}
    /\ \E n \in 0..Len(up[k]) : up' = [up EXCEPT ![k] = SubSeq(@, 1, n)]
    /\ UNCHANGED <<linked, outbox, taken, session, used, fate, stops>>

\* The daemon's reader on this connection takes the next line.
DaemonReads(k) ==
    /\ up[k] # <<>>
    /\ up' = [up EXCEPT ![k] = Tail(@)]
    /\ Become({Head(up[k])}, "read")
    /\ UNCHANGED <<linked, outbox, taken, session, used, broken, stops>>

Pump == Take \/ Write \/ WriteFails

Next ==
    \/ Stop \/ Start \/ Pump \/ SessionEnds
    \/ \E a \in Tracked : fate[a] = "none" /\ Queue(a)
    \/ \E k \in Conns :
         \/ Connect(k) \/ DaemonReads(k)
         \/ Cardinality(broken) < MaxBreaks /\ Break(k)

Spec == Init /\ [][Next]_vars

\* The loop retries for ever, the pump and the daemon's reader are scheduled,
\* and a dead socket is noticed.
Fairness ==
    /\ WF_vars(Pump) /\ WF_vars(SessionEnds)
    /\ WF_vars(\E k \in Conns : Connect(k))
    /\ \A k \in Conns : WF_vars(DaemonReads(k))

FairSpec == Spec /\ Fairness

-------------------------------------------------------------------------------
TypeOK ==
    /\ linked \in BOOLEAN
    /\ outbox \in Seq(Answers)
    /\ taken \in Answers \cup {None}
    /\ session \in Conns \cup {None}
    /\ used \subseteq Conns /\ broken \subseteq used
    /\ up \in [Conns -> Seq(Answers)]
    /\ fate \in [Tracked -> {"none", "queued", "written", "read", "lost"}]
    /\ stops \in 0..MaxStops

\* An answer that is still owed is held once, in the queue or by the pump, and one
\* a socket took is in neither: a failed write puts its line back
\* (DesktopLink.kt:99-109) and no other does, so the daemon never reads it twice.
OwedIsHeldOnce ==
    /\ \A a \in Tracked : fate[a] = "queued" <=> a \in Queued
    /\ \A i, j \in DOMAIN outbox : outbox[i] = outbox[j] => i = j
    /\ \A i \in DOMAIN outbox : outbox[i] # taken

\* Every answer leaves the queue in the end, however often the link drops.
AnswersLeave ==
    \A a \in Tracked : fate[a] = "queued" ~> fate[a] \in {"written", "read", "lost"}
===============================================================================
