-------------------------------- MODULE Service --------------------------------
(***************************************************************************)
(* The phone's foreground service (LinkService.kt) and the one approval    *)
(* notification (Notifications.kt) around LinkController: the service      *)
(* brings the link up and down, a coroutine on the main thread makes the   *)
(* notification follow the slot, and the notification's Deny comes back as *)
(* an intent that carries no request.                                      *)
(***************************************************************************)
EXTENDS LinkController

CONSTANT MaxStops  \* bound on how often the service is stopped

ASSUME StopsAssumption == MaxStops \in Nat

VARIABLES
    running,    \* the service is created
    collected,  \* its coroutine has seen what the slot holds
    allowed,    \* POST_NOTIFICATIONS; taking it back ends the process
    notice,     \* the request the notification shows, or None
    intent,     \* a Deny was tapped and its intent is on the way
    stops

serviceVars == <<running, collected, allowed, notice, intent, stops>>
allVars == <<vars, serviceVars>>

ServiceInit ==
    /\ Init
    /\ running = TRUE /\ collected = FALSE
    /\ allowed \in BOOLEAN
    /\ notice = None /\ intent = FALSE /\ stops = 0

\* What the slot's flow holds anew the coroutine has yet to see.
ControllerStep ==
    /\ Controller \/ (linked /\ \E r \in Requests : Present(r))
    /\ collected' = (collected /\ slot' = slot)
    /\ UNCHANGED <<running, allowed, notice, intent, stops>>

-------------------------------------------------------------------------------
\* pair() opens the link on its own, before the service is started.
Connect ==
    /\ ~linked
    /\ linked' = TRUE
    /\ UNCHANGED <<lcVars, outbox, serviceVars>>

\* onCreate: start() opens the link if a desktop is paired and none is open, and
\* collect begins with whatever the slot holds.
Create ==
    /\ ~running /\ Idle
    /\ running' = TRUE
    /\ collected' = FALSE
    /\ linked' \in {linked, TRUE}
    /\ UNCHANGED <<lcVars, outbox, allowed, notice, intent, stops>>

\* stopService, from onUnpair: the link and its queue go, slot and notice stay.
Destroy ==
    /\ running /\ Idle /\ stops < MaxStops
    /\ running' = FALSE
    /\ stops' = stops + 1
    /\ linked' = FALSE
    /\ outbox' = <<>>
    /\ UNCHANGED <<lcVars, collected, allowed, notice, intent>>

\* Mutant: only requests are looked at.
CollectRequests ==
    /\ running /\ Idle /\ ~collected
    /\ collected' = TRUE
    /\ notice' = IF slot # None /\ allowed THEN slot ELSE notice
    /\ UNCHANGED <<vars, running, allowed, intent, stops>>

\* clearApproval, or raiseApproval, which does nothing without the permission.
Collect ==
    /\ running /\ Idle /\ ~collected
    /\ collected' = TRUE
    /\ notice' = IF slot = None THEN None ELSE IF allowed THEN slot ELSE notice
    /\ UNCHANGED <<vars, running, allowed, intent, stops>>

\* The permission is granted in the app, after a request was or was not shown.
Grant ==
    /\ ~allowed
    /\ allowed' = TRUE
    /\ UNCHANGED <<vars, running, collected, notice, intent, stops>>

\* Swiped away, or tapped: the screen it opens shows the slot (Recompose).
Dismiss ==
    /\ notice # None
    /\ notice' = None
    /\ UNCHANGED <<vars, running, collected, allowed, intent, stops>>

TapNotice ==
    /\ notice # None
    /\ intent' = TRUE
    /\ UNCHANGED <<vars, running, collected, allowed, notice, stops>>

\* onStartCommand, after onCreate where that has to come first.
DenyLands ==
    /\ intent /\ running /\ Idle
    /\ intent' = FALSE
    /\ IF slot = None THEN UNCHANGED vars ELSE NotificationDeny
    /\ UNCHANGED <<running, collected, allowed, notice, stops>>

ServiceNext ==
    ControllerStep \/ Connect \/ Create \/ Destroy \/ Collect \/ Grant \/ Dismiss
    \/ TapNotice \/ DenyLands

\* The main thread and the coroutines are scheduled; the service need not be
\* started again, nor anything be tapped.
ServiceSpec ==
    /\ ServiceInit
    /\ [][ServiceNext]_allVars
    /\ WF_allVars(Collect)
    /\ WF_allVars((SendAnswer \/ ClearSlot) /\ ControllerStep)
    /\ \A r \in Requests : WF_allVars((ExpiryChecks(r) \/ ExpiryClears(r)) /\ ControllerStep)

-------------------------------------------------------------------------------
\* The variables keep their types, those of LinkController included.
ServiceTypeOK ==
    /\ TypeOK
    /\ running \in BOOLEAN /\ collected \in BOOLEAN /\ allowed \in BOOLEAN
    /\ notice \in Requests \cup {None}
    /\ intent \in BOOLEAN
    /\ stops \in 0..MaxStops

\* Once the service has caught up with the slot, its notification shows the
\* pending request or none, also where it took over one an earlier service left
\* (LinkService.kt:36-42).
NoticeIsPending == running /\ collected => notice \in {slot, None}

\* A notification does not outlive its request while the service runs; only a
\* service stopped with a request pending leaves one behind.
NoticeGoesAway ==
    \A r \in Requests : notice = r /\ running ~> notice # r \/ ~running
===============================================================================
