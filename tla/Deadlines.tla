------------------------------ MODULE Deadlines ------------------------------
(***************************************************************************)
(* One authentication is timed by three clocks that know nothing of each   *)
(* other: the read timeout of the program on pam.sock (pam_kpk_spike.c,    *)
(* fidolink.rs; kpk-spike probe has none), the daemon's --timeout, which   *)
(* starts when the request has been written (server.rs), and the phone's   *)
(* REQUEST_TTL_MS, which starts when it arrives (LinkController.kt).       *)
(*                                                                         *)
(* Tick lets one unit of time pass, and waits for what is due: a timer     *)
(* fires, and a verdict is written, before the next unit begins.  A        *)
(* request waits without a clock while the daemon's write is blocked.      *)
(* Which answer belongs to which request is the matter of Daemon, and the  *)
(* screen that of LinkController; here an answer names its call.           *)
(***************************************************************************)
EXTENDS Naturals

CONSTANTS
    Calls,          \* requests on pam.sock
    Untimed,        \* those of the probe
    Limit,          \* the read timeout of the others
    VerifyTimeout,  \* serve --timeout
    RequestTTL,     \* REQUEST_TTL_MS
    MaxLag,         \* bound on what the network takes to deliver a request
    MaxSignals,     \* bound on the signals that interrupt a read
    None

ASSUME DeadlineAssumption ==
    /\ Untimed \subseteq Calls
    /\ Limit \in [Calls -> Nat \ {0}]
    /\ VerifyTimeout \in Nat \ {0} /\ RequestTTL \in Nat \ {0}
    /\ MaxLag \in Nat /\ MaxSignals \in Nat
    /\ None \notin Calls

VARIABLES
    call,     \* per call: what the program does
    waited,   \* how long its read has been blocked
    task,     \* what the daemon does for it
    late,     \* history: waited when the request was written
    age,      \* time since the request was written
    lag,      \* age when the phone presented it
    wire,     \* requests on their way to the phone
    timers,   \* requests whose expiry coroutine runs
    slot,     \* LinkController.pending
    shown,    \* requests the user has been shown and may still answer
    answers,  \* answers on their way to the daemon
    signals

vars == <<call, waited, task, late, age, lag, wire, timers, slot, shown,
          answers, signals>>
clientVars == <<call, waited, signals>>
phoneVars == <<lag, timers, slot, shown>>

Timed(c) == c \notin Untimed
Answers == [call : Calls, yes : BOOLEAN]

Init ==
    /\ call = [c \in Calls |-> "new"]
    /\ waited = [c \in Calls |-> 0]
    /\ task = [c \in Calls |-> "none"]
    /\ late = [c \in Calls |-> 0]
    /\ age = [c \in Calls |-> 0]
    /\ lag = [c \in Calls |-> 0]
    /\ wire = {} /\ timers = {} /\ slot = None /\ shown = {} /\ answers = {}
    /\ signals = 0

-------------------------------------------------------------------------------
(***************************************************************************)
(* The program that asks.                                                  *)
(***************************************************************************)

\* connect, write, and from here on read_line.
Ask(c) ==
    /\ call[c] = "new"
    /\ call' = [call EXCEPT ![c] = "reading"]
    /\ task' = [task EXCEPT ![c] = "queued"]
    /\ UNCHANGED <<waited, late, age, wire, phoneVars, answers, signals>>

\* No daemon on the socket, or a request that cannot be written: refused at once.
CannotAsk(c) ==
    /\ call[c] = "new"
    /\ call' = [call EXCEPT ![c] = "refused"]
    /\ UNCHANGED <<waited, task, late, age, wire, phoneVars, answers, signals>>

\* Mutants: SO_RCVTIMEO is not set, or to what the FIDO helper waits.
NoReadTimeout(c) == FALSE
ReadTimesOutEarly(c) == call[c] = "reading" /\ Timed(c) /\ waited[c] + 1 = Limit[c]

ReadTimesOut(c) == call[c] = "reading" /\ Timed(c) /\ waited[c] = Limit[c]

\* The program refuses; the daemon is not told.
GiveUp(c) ==
    /\ ReadTimesOut(c)
    /\ call' = [call EXCEPT ![c] = "refused"]
    /\ UNCHANGED <<waited, task, late, age, wire, phoneVars, answers, signals>>

\* The dialog is cancelled and the program ends, with nothing said either.
Leave(c) ==
    /\ call[c] = "reading"
    /\ call' = [call EXCEPT ![c] = "left"]
    /\ UNCHANGED <<waited, task, late, age, wire, phoneVars, answers, signals>>

\* EINTR: the read starts over, its timeout with it.
Interrupt(c) ==
    /\ call[c] = "reading"
    /\ signals < MaxSignals
    /\ signals' = signals + 1
    /\ waited' = [waited EXCEPT ![c] = 0]
    /\ UNCHANGED <<call, task, late, age, wire, phoneVars, answers>>

-------------------------------------------------------------------------------
(***************************************************************************)
(* The daemon's task for it.                                               *)
(***************************************************************************)

\* The line is written, be it to a program that has left; the timeout starts.
Send(c) ==
    /\ task[c] = "queued"
    /\ task' = [task EXCEPT ![c] = "waiting"]
    /\ late' = [late EXCEPT ![c] = waited[c]]
    /\ wire' = wire \cup {c}
    /\ UNCHANGED <<clientVars, age, phoneVars, answers>>

SendFails(c) ==
    /\ task[c] = "queued"
    /\ task' = [task EXCEPT ![c] = "no"]
    /\ UNCHANGED <<clientVars, late, age, wire, phoneVars, answers>>

VerifyTimesOut(c) == task[c] = "waiting" /\ age[c] = VerifyTimeout

Timeout(c) ==
    /\ VerifyTimesOut(c)
    /\ task' = [task EXCEPT ![c] = "no"]
    /\ UNCHANGED <<clientVars, late, age, wire, phoneVars, answers>>

\* An answer nobody waits for is dropped.
Deliver(a) ==
    /\ a \in answers
    /\ answers' = answers \ {a}
    /\ task' = IF task[a.call] = "waiting"
               THEN [task EXCEPT ![a.call] = IF a.yes THEN "ok" ELSE "no"] ELSE task
    /\ UNCHANGED <<clientVars, late, age, wire, phoneVars>>

\* The verdict is written; an approval may find that nobody reads any more.
Answer(c) ==
    /\ task[c] \in {"ok", "no"}
    /\ task' = [task EXCEPT ![c] =
                  IF @ = "ok" /\ call[c] # "reading" THEN "unheard" ELSE "done"]
    /\ call' = [call EXCEPT ![c] = IF @ # "reading" THEN @
                  ELSE IF task[c] = "ok" THEN "granted" ELSE "refused"]
    /\ UNCHANGED <<waited, late, age, wire, phoneVars, answers, signals>>

\* The daemon ends: every reader sees the end of its socket and refuses.
DaemonEnds ==
    /\ \E c \in Calls : task[c] \in {"queued", "waiting"}
    /\ task' = [c \in Calls |-> IF task[c] \in {"none", "unheard"} THEN task[c] ELSE "done"]
    /\ call' = [c \in Calls |-> IF call[c] = "reading" THEN "refused" ELSE call[c]]
    /\ UNCHANGED <<waited, late, age, wire, phoneVars, answers, signals>>

-------------------------------------------------------------------------------
(***************************************************************************)
(* The phone.                                                              *)
(***************************************************************************)

\* Mutant: a request that finds the slot taken gets no expiry of its own.
PresentUntimed(c) ==
    /\ c \in wire
    /\ wire' = wire \ {c}
    /\ lag' = [lag EXCEPT ![c] = age[c]]
    /\ timers' = IF slot = None THEN timers \cup {c} ELSE timers
    /\ slot' = c
    /\ shown' = shown \cup {c}
    /\ UNCHANGED <<clientVars, task, late, age, answers>>

\* present: the newest request takes the slot, and starts its expiry.
Present(c) ==
    /\ c \in wire
    /\ wire' = wire \ {c}
    /\ lag' = [lag EXCEPT ![c] = age[c]]
    /\ timers' = timers \cup {c}
    /\ slot' = c
    /\ shown' = shown \cup {c}
    /\ UNCHANGED <<clientVars, task, late, age, answers>>

Lose(c) ==
    /\ c \in wire
    /\ wire' = wire \ {c}
    /\ UNCHANGED <<clientVars, task, late, age, phoneVars, answers>>

ExpiryEarly(c) == c \in timers /\ age[c] + 1 = lag[c] + RequestTTL  \* mutant
ExpiryIsDue(c) == c \in timers /\ age[c] = lag[c] + RequestTTL

Expire(c) ==
    /\ ExpiryIsDue(c)
    /\ timers' = timers \ {c}
    /\ slot' = IF slot = c THEN None ELSE slot
    /\ UNCHANGED <<clientVars, task, late, age, lag, wire, shown, answers>>

\* A request once shown may be answered late, from the fingerprint prompt.
Touch(c) ==
    /\ c \in shown
    /\ shown' = shown \ {c}
    /\ slot' = IF slot = c THEN None ELSE slot
    /\ \E yes \in BOOLEAN : answers' = answers \cup {[call |-> c, yes |-> yes]}
    /\ UNCHANGED <<clientVars, task, late, age, lag, wire, timers>>

-------------------------------------------------------------------------------
Due(c) ==
    \/ ReadTimesOut(c) \/ VerifyTimesOut(c) \/ ExpiryIsDue(c)
    \/ task[c] \in {"ok", "no"}
    \/ c \in wire /\ age[c] = MaxLag

\* Clocks that no longer run, and what was noted for them, are set back.
Tick ==
    /\ \A c \in Calls : ~Due(c)
    /\ waited' = [c \in Calls |->
          IF call[c] = "reading" /\ Timed(c) /\ waited[c] < Limit[c] THEN waited[c] + 1
          ELSE IF task[c] = "queued" THEN waited[c] ELSE 0]
    /\ age' = [c \in Calls |-> IF task[c] = "waiting" \/ c \in wire \cup timers
                               THEN age[c] + 1 ELSE 0]
    /\ lag' = [c \in Calls |-> IF c \in timers THEN lag[c] ELSE 0]
    /\ late' = [c \in Calls |-> IF task[c] \in {"waiting", "unheard"} THEN late[c] ELSE 0]
    /\ UNCHANGED <<call, task, wire, timers, slot, shown, answers, signals>>

\* What happens by itself once it is due.
Fires(c) == GiveUp(c) \/ Timeout(c) \/ Answer(c) \/ Expire(c) \/ Present(c) \/ Lose(c)

Next ==
    \/ \E c \in Calls : Ask(c) \/ CannotAsk(c) \/ Leave(c) \/ Interrupt(c) \/ Send(c)
                        \/ SendFails(c) \/ Touch(c) \/ Fires(c)
    \/ \E a \in Answers : Deliver(a)
    \/ DaemonEnds
    \/ Tick

Spec == Init /\ [][Next]_vars

\* Time goes on and timers fire; nothing makes the daemon send, nor the user touch.
FairSpec == Spec /\ WF_vars(Tick) /\ \A c \in Calls : WF_vars(Fires(c))

-------------------------------------------------------------------------------
\* The variables keep their types, no read outlasts its limit, and what is in the
\* slot has an expiry that runs.
TypeOK ==
    /\ call \in [Calls -> {"new", "reading", "granted", "refused", "left"}]
    /\ task \in [Calls -> {"none", "queued", "waiting", "ok", "no", "done", "unheard"}]
    /\ waited \in [Calls -> Nat] /\ late \in [Calls -> Nat]
    /\ age \in [Calls -> Nat] /\ lag \in [Calls -> 0..MaxLag]
    /\ wire \subseteq Calls /\ timers \subseteq Calls /\ shown \subseteq Calls
    /\ slot \in timers \cup {None}
    /\ answers \subseteq Answers
    /\ signals \in 0..MaxSignals
    /\ \A c \in Calls : waited[c] <= Limit[c]

\* An approval comes too late for the program that asked only if it left, or if
\* the request waited in the daemon for what its timeout leaves over the
\* daemon's: with 180 s over 120 s (polkit-1.spike:5, kpasskey.service:12) one
\* minute at least, with the defaults of 120 s over 45 s more than that.
GrantIsHeard ==
    \A c \in Calls : task[c] = "unheard" =>
        \/ call[c] = "left"
        \/ Timed(c) /\ late[c] + VerifyTimeout >= Limit[c]

\* The phone's limit mirrors the daemon's (LinkController.kt:196): where the two
\* are equal, a prompt outlives its request by no more than the way to the phone
\* took, and none is withdrawn that the daemon still waits for.
PromptMirrorsRequest ==
    \A c \in Calls :
        /\ RequestTTL <= VerifyTimeout /\ slot = c => age[c] <= VerifyTimeout + lag[c]
        /\ VerifyTimeout <= RequestTTL /\ task[c] = "waiting" /\ c \in shown \ timers
           => age[c] = VerifyTimeout

\* A program with a read timeout gets an answer or refuses, though the daemon
\* hangs in a write or the phone never answers; the probe may wait for ever.
EveryTimedCallReturns ==
    \A c \in Calls \ Untimed : call[c] = "reading" ~> call[c] # "reading"
=============================================================================
