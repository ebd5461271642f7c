-------------------------------- MODULE CtapHid --------------------------------
(***************************************************************************)
(* The virtual FIDO authenticator (uhid.rs, fidolink.rs): one loop that    *)
(* reads the reports programs write to the device, puts messages together  *)
(* from them, and answers; a thread per request that needs the phone.      *)
(*                                                                         *)
(* Programs write their messages one report at a time, interleaved, give   *)
(* up half way, and read every report the helper writes. The kernel keeps  *)
(* a bounded number of reports for the helper and drops what exceeds it.   *)
(*                                                                         *)
(* A byte says which message it is from and where it stands in it.         *)
(***************************************************************************)
EXTENDS Naturals, Sequences, Functions

CONSTANTS
    Apps,         \* programs that have the device open
    Commands,     \* what they ask: "ping", "info", "makecred", "assert", "cancel"
    Lengths,      \* lengths of their messages
    Size,         \* HID_REPORT_SIZE
    MaxChannel,   \* 0xffffffff
    MaxMessages,  \* per program: bound on its messages, INIT included
    MaxEvents,    \* reports the kernel holds for the helper
    MaxRestarts,  \* bound on restarts of the helper
    None

ASSUME SizeAssumption ==
    /\ Size \in Nat /\ Size > 7
    /\ Commands \subseteq {"ping", "info", "makecred", "assert", "cancel"}
    /\ Lengths \subseteq Nat \ {0}
    /\ MaxMessages \in [Apps -> Nat]
    /\ MaxChannel \in Nat \ {0}
    /\ MaxEvents \in Nat /\ MaxRestarts \in Nat

VARIABLES
    helper,        \* "running", "failed", or "stopped" for good
    restarts,
    next_channel,
    assembly,      \* the message being put together, or None
    asked,         \* Outcome::Waiting: the request await_phone waits for
    worker,        \* its thread
    events,        \* reports the kernel holds
    lost,          \* whether the kernel dropped one
    chan,          \* per program: its channel
    sending,       \* per program: the reports it has yet to write
    sent,          \* per program: the messages it has begun
    answers        \* messages written to the device

helperVars == <<helper, restarts, next_channel, assembly>>
phoneVars == <<asked, worker>>
appVars == <<chan, sending, sent>>
vars == <<helperVars, phoneVars, events, lost, appVars, answers>>

Broadcast == MaxChannel
Channels == 0..MaxChannel
First == Size - 7
Continued == Size - 5

Byte == [app : Apps, n : Nat, of : Nat, at : Nat]
Payload == Seq(Byte \cup {None})
Data(width) == [1..width -> Byte \cup {None}]
Report ==
    [first : {TRUE}, channel : Channels, command : Commands \cup {"init"},
     length : Nat, data : Data(First)]
    \cup [first : {FALSE}, channel : Channels, seq : 0..255, data : Data(Continued)]
Assembling == [channel : Channels, command : Commands, expected : Nat, payload : Payload]
Asking ==
    [channel : Channels, command : Commands \cap {"makecred", "assert"}, payload : Payload]

ASSUME NoneAssumption == None \notin Channels \cup Byte \cup Assembling \cup Asking

Init ==
    /\ helper = "running" /\ restarts = 0
    /\ next_channel = 1
    /\ assembly = None
    /\ asked = None /\ worker = "none"
    /\ events = <<>> /\ lost = FALSE
    /\ chan = [a \in Apps |-> None]
    /\ sending = [a \in Apps |-> <<>>]
    /\ sent = [a \in Apps |-> 0]
    /\ answers = {}

-------------------------------------------------------------------------------
(***************************************************************************)
(* Framing.                                                                *)
(***************************************************************************)
Least(m, n) == IF m <= n THEN m ELSE n

\* A report is zeroed before the payload is put into it.
Padded(bytes, n) == [i \in 1..n |-> IF i <= Len(bytes) THEN bytes[i] ELSE None]

\* frame: one initial packet, then continuations numbered in a byte.
Frame(channel, command, payload) ==
    LET head == Least(Len(payload), First)
        rest == Len(payload) - head
        Chunk(k) == SubSeq(payload, head + (k - 1) * Continued + 1,
                           Least(head + k * Continued, Len(payload)))
    IN  <<[first |-> TRUE, channel |-> channel, command |-> command,
           length |-> Len(payload), data |-> Padded(payload, First)]>>
        \o [k \in 1..((rest + Continued - 1) \div Continued) |->
              [first |-> FALSE, channel |-> channel, seq |-> (k - 1) % 256,
               data |-> Padded(Chunk(k), Continued)]]

\* What a program makes of packets: continuations in order, cut to the length.
Unframed(packets) ==
    [i \in 1..packets[1].length |->
        IF i <= First
        THEN packets[1].data[i]
        ELSE LET j == i - First - 1
             IN  packets[2 + j \div Continued].data[1 + (j % Continued)]]

-------------------------------------------------------------------------------
(***************************************************************************)
(* Programs and the kernel.                                                *)
(***************************************************************************)
Bytes(a, length) == [i \in 1..length |-> [app |-> a, n |-> sent[a] + 1,
                                          of |-> length, at |-> i]]

\* A program begins a message; one it was still writing is given up.
Begin(a, channel, command, length) ==
    /\ sent[a] < MaxMessages[a]
    /\ sent' = [sent EXCEPT ![a] = @ + 1]
    /\ sending' = [sending EXCEPT ![a] = Frame(channel, command, Bytes(a, length))]
    /\ UNCHANGED <<helperVars, phoneVars, events, lost, chan, answers>>

\* INIT asks for a channel, or resynchronises the one there is. Its nonce of eight
\* bytes is one byte here; a nonce too short is a message of none.
AppInits(a) ==
    \E length \in {0, 1} :
        Begin(a, IF chan[a] = None THEN Broadcast ELSE chan[a], "init", length)

AppSends(a) ==
    /\ chan[a] # None
    /\ \E command \in Commands, length \in Lengths :
         Begin(a, chan[a], command, length)

\* The kernel queues a report for the helper, or drops it.
AppWrites(a) ==
    /\ helper = "running"
    /\ sending[a] # <<>>
    /\ sending' = [sending EXCEPT ![a] = Tail(@)]
    /\ IF Len(events) < MaxEvents
       THEN events' = Append(events, Head(sending[a])) /\ UNCHANGED lost
       ELSE lost' = TRUE /\ UNCHANGED events
    /\ UNCHANGED <<helperVars, phoneVars, chan, sent, answers>>

\* Whoever recognises its nonce in an answer to INIT takes the channel.
AppTakesChannel(a) ==
    /\ chan[a] = None
    /\ \E x \in answers :
         /\ x.command = "init" /\ x.channel = Broadcast
         /\ x.of[1].app = a /\ x.of[1].n = sent[a]
         /\ chan' = [chan EXCEPT ![a] = x.assigned]
    /\ UNCHANGED <<helperVars, phoneVars, events, lost, sending, sent, answers>>

-------------------------------------------------------------------------------
(***************************************************************************)
(* The loop. While it awaits the phone it reads no report.                 *)
(***************************************************************************)
Answer(channel, command, of, body, assigned) ==
    answers' = answers \cup
        {[channel |-> channel, command |-> command, of |-> of,
          packets |-> Frame(channel, command, body), assigned |-> assigned]}

\* Mutant: the counter is read and not advanced.
NextChannelStuck(channel) == next_channel

\* What the counter becomes: wrapping_add on 32 bits.
NextChannel(channel) ==
    IF channel = Broadcast THEN (next_channel + 1) % (MaxChannel + 1) ELSE next_channel

\* dispatch. An INIT without its nonce is an error, and ends the helper.
Dispatch(channel, command, payload) ==
    \/ /\ command = "init" /\ payload # <<>>
       /\ next_channel' = NextChannel(channel)
       /\ Answer(channel, "init", payload, <<>>,
                 IF channel = Broadcast THEN next_channel' ELSE channel)
       /\ UNCHANGED <<helper, phoneVars>>
    \/ /\ command = "init" /\ payload = <<>>
       /\ helper' = "failed"
       /\ UNCHANGED <<next_channel, phoneVars, answers>>
    \/ /\ command \in {"ping", "info", "cancel"}
       /\ Answer(channel, command, payload,
                 IF command = "ping" THEN payload ELSE <<>>, None)
       /\ UNCHANGED <<helper, next_channel, phoneVars>>
    \/ /\ command \in {"makecred", "assert"}
       /\ asked' = [channel |-> channel, command |-> command, payload |-> payload]
       /\ worker' = "parsing"
       /\ UNCHANGED <<helper, next_channel, answers>>

\* handle_report, of the report the loop has read.
Reads(r) ==
    /\ helper = "running" /\ asked = None
    /\ events # <<>> /\ r = Head(events)
    /\ events' = Tail(events)
    /\ UNCHANGED <<restarts, lost, appVars>>

\* A first packet with more to come displaces the message under way; one that is
\* all there is leaves it.
ReadFirst ==
    \E r \in {events[i] : i \in DOMAIN events \cap {1}} :
        /\ Reads(r)
        /\ r.first
        /\ \/ /\ r.length > First
              /\ assembly' = [channel |-> r.channel, command |-> r.command,
                              expected |-> r.length, payload |-> r.data]
              /\ UNCHANGED <<helper, next_channel, phoneVars, answers>>
           \/ /\ r.length <= First
              /\ Dispatch(r.channel, r.command, SubSeq(r.data, 1, r.length))
              /\ UNCHANGED assembly

\* Mutant: a continuation belongs to the message under way, whoever sent it.
ContinuesAny(r) == assembly # None

Continues(r) == assembly # None /\ assembly.channel = r.channel

\* The payload with what it still lacks of the report; the sequence is not looked at.
Extended(r) ==
    assembly.payload \o
        SubSeq(r.data, 1, Least(assembly.expected - Len(assembly.payload), Continued))

\* Mutant: a message that is just complete waits for another packet.
CompleteLate(payload) == Len(payload) > assembly.expected

Complete(payload) == Len(payload) >= assembly.expected

ReadContinuation ==
    \E r \in {events[i] : i \in DOMAIN events \cap {1}} :
        /\ Reads(r)
        /\ ~r.first
        /\ \/ /\ ~Continues(r)
              /\ UNCHANGED <<helper, next_channel, assembly, phoneVars, answers>>
           \/ /\ Continues(r) /\ ~Complete(Extended(r))
              /\ assembly' = [assembly EXCEPT !.payload = Extended(r)]
              /\ UNCHANGED <<helper, next_channel, phoneVars, answers>>
           \/ /\ Continues(r) /\ Complete(Extended(r))
              /\ assembly' = None
              /\ Dispatch(assembly.channel, assembly.command, Extended(r))

\* await_phone has its answer, and the loop goes on. What the KEEPALIVEs before it
\* tell a program is nothing the helper remembers.
AnswerPhone ==
    /\ helper = "running"
    /\ worker \in {"created", "refused"}
    /\ Answer(asked.channel, asked.command, asked.payload, <<>>, None)
    /\ asked' = None /\ worker' = "none"
    /\ UNCHANGED <<helperVars, events, lost, appVars>>

\* UHID_STOP; the unit restarts the helper only when it fails.
HostStops ==
    /\ helper = "running" /\ asked = None
    /\ helper' = "stopped"
    /\ UNCHANGED <<restarts, next_channel, assembly, phoneVars, events, lost,
                   appVars, answers>>

\* The device is a new one, and whoever had the old one open has lost it.
Restart ==
    /\ helper = "failed"
    /\ restarts < MaxRestarts
    /\ restarts' = restarts + 1
    /\ helper' = "running" /\ next_channel' = 1 /\ assembly' = None
    /\ events' = <<>> /\ answers' = {}
    /\ chan' = [a \in Apps |-> None]
    /\ sending' = [a \in Apps |-> <<>>]
    /\ UNCHANGED <<phoneVars, lost, sent>>

-------------------------------------------------------------------------------
(***************************************************************************)
(* The thread of a request.                                                *)
(***************************************************************************)
Work(from, to) ==
    /\ worker = from
    /\ worker' = to
    /\ UNCHANGED <<helperVars, asked, events, lost, appVars, answers>>

\* The body is no request, or names no credential, or the daemon is not there.
RequestFails == Work("parsing", "refused")

RequestSent == Work("parsing", "asking")

\* The daemon grants it, or refuses it or goes away or says what cannot be used.
DaemonAnswers == Work("asking", "created") \/ Work("asking", "refused")

NoReadTimeout == FALSE  \* mutant: the socket has no read timeout

ReadTimesOut == Work("asking", "refused")

Worker == RequestFails \/ RequestSent \/ DaemonAnswers \/ ReadTimesOut

-------------------------------------------------------------------------------
App(a) == AppInits(a) \/ AppSends(a) \/ AppWrites(a) \/ AppTakesChannel(a)

Next ==
    \/ \E a \in Apps : App(a)
    \/ ReadFirst \/ ReadContinuation \/ AnswerPhone \/ HostStops \/ Restart
    \/ Worker

Spec == Init /\ [][Next]_vars

\* The loop and the thread run, and a read of the socket ends by its timeout. What
\* programs and the daemon do is up to them.
Fairness ==
    /\ WF_vars(ReadFirst \/ ReadContinuation \/ AnswerPhone)
    /\ WF_vars(RequestFails \/ RequestSent)
    /\ WF_vars(ReadTimesOut)

FairSpec == Spec /\ Fairness

-------------------------------------------------------------------------------
TypeOK ==
    /\ helper \in {"running", "failed", "stopped"}
    /\ restarts \in 0..MaxRestarts
    /\ next_channel \in Channels
    /\ assembly \in Assembling \cup {None}
    /\ assembly # None => Len(assembly.payload) \in First..(assembly.expected - 1)
    /\ asked \in Asking \cup {None}
    /\ worker \in {"none", "parsing", "asking", "created", "refused"}
    /\ asked = None <=> worker = "none"
    /\ events \in Seq(Report) /\ Len(events) <= MaxEvents
    /\ lost \in BOOLEAN
    /\ chan \in [Apps -> Channels \cup {None}]
    /\ sending \in [Apps -> Seq(Report)]
    /\ sent \in [Apps -> Nat] /\ \A a \in Apps : sent[a] <= MaxMessages[a]
    /\ answers \subseteq
         [channel : Channels, command : Commands \cup {"init"}, of : Payload,
          packets : Seq(Report), assigned : Channels \cup {None}]

Assignments == {x \in answers : x.command = "init" /\ x.channel = Broadcast}

\* Each program that asked for a channel was given one of its own, none the one
\* they all share, so programs tell their answers from others' by the channel.
ChannelsDiffer ==
    /\ \A x \in Assignments : x.assigned # Broadcast
    /\ \A x, y \in Assignments : x.assigned = y.assigned => x = y

\* Whether these are the bytes of one message, all of them and no padding.
Whole(bytes) ==
    /\ Len(bytes) = bytes[1].of
    /\ \A i \in DOMAIN bytes : bytes[i] = [bytes[1] EXCEPT !.at = i]

\* An answer, an echo or a verdict of the phone, is to what the program on its channel
\* has sent and to nothing of another's, though their packets came in between and
\* messages were given up half way; and, unless the kernel dropped a report, to one
\* whole message.
AnswersAreOwn ==
    \A x \in answers : x.command # "init" =>
        /\ \E y \in Assignments :
             /\ y.assigned = x.channel
             /\ \A byte \in Range(x.of) \ {None} : byte.app = y.of[1].app
        /\ ~lost => Whole(x.of)
        /\ x.command = "ping" => Unframed(x.packets) = x.of

\* A request in one packet that has reached the helper is answered, though the loop
\* may be waiting for the phone on another's behalf when it comes, and for a daemon
\* that never answers; unless the helper ends first.
SingleIsAnswered ==
    \A a \in Apps : \A n \in 1..MaxMessages[a] :
        (\E r \in Range(events) :
             /\ r.first /\ r.length \in 1..First
             /\ r.data[1].app = a /\ r.data[1].n = n)
        ~> \/ \E x \in answers : x.of[1].app = a /\ x.of[1].n = n
           \/ helper # "running"
================================================================================
