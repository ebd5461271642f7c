---------------------------- MODULE LinkController ----------------------------
(***************************************************************************)
(* The phone's request slot (LinkController.kt) and who acts on it: the    *)
(* link's reader, which presents requests; one expiry coroutine for each,  *)
(* on the IO dispatcher; and the main thread, where the approval screen,   *)
(* the fingerprint prompt and the notification's Deny answer them.         *)
(*                                                                         *)
(* The slot is a MutableStateFlow: each read and each write is atomic, a   *)
(* comparison followed by a write is not.                                  *)
(***************************************************************************)
EXTENDS Naturals, Sequences

CONSTANTS
    Requests,     \* requests a desktop can send: records with a field id
    AnswerKind,   \* what approving each produces: a signature or a credential
    None

Answers == [kind : {"sig", "cred", "denied"}, on : Requests]
MainStates == [stage : {"send", "clear"}, answer : Answers]

ASSUME RequestAssumption ==
    /\ None \notin Requests \cup MainStates
    /\ \A r \in Requests : r.id \in Nat
    /\ AnswerKind \in [Requests -> {"sig", "cred"}]

VARIABLES
    slot,       \* mutablePending
    expiry,     \* per request: its expiry coroutine
    shown,      \* the request the approval screen last composed
    prompt,     \* the request a fingerprint prompt is up for
    main,       \* the answer the main thread is giving, if any
    linked,     \* whether LinkController.link is set
    outbox,     \* that link's queue of answers
    touched     \* history: requests a fingerprint was given for

lcVars == <<slot, expiry, shown, prompt, main, touched>>
vars == <<lcVars, linked, outbox>>

AnswersWithSignature(r) == AnswerKind[r] = "sig"

SameIdNever(q, r) == FALSE  \* mutant: compares objects
SameId(q, r) == q # None /\ q.id = r.id

Init ==
    /\ slot = None
    /\ expiry = [r \in Requests |-> "none"]
    /\ shown = None /\ prompt = None /\ main = None
    /\ linked = TRUE /\ outbox = <<>>
    /\ touched = {}

-------------------------------------------------------------------------------
\* Mutant: the request is shown and no expiry launched.
PresentForEver(r) ==
    /\ expiry[r] = "none"
    /\ slot' = r
    /\ UNCHANGED <<expiry, shown, prompt, main, linked, outbox, touched>>

\* onMessage and present: the newest request takes the one slot.
Present(r) ==
    /\ expiry[r] = "none"
    /\ slot' = r
    /\ expiry' = [expiry EXCEPT ![r] = "sleeping"]
    /\ UNCHANGED <<shown, prompt, main, linked, outbox, touched>>

\* Mutant: the coroutine ends without a look at the slot.
ExpiryEnds(r) ==
    /\ expiry[r] = "sleeping"
    /\ expiry' = [expiry EXCEPT ![r] = "over"]
    /\ UNCHANGED <<slot, shown, prompt, main, linked, outbox, touched>>

\* REQUEST_TTL_MS have passed: the coroutine compares ids ...
ExpiryChecks(r) ==
    /\ expiry[r] = "sleeping"
    /\ expiry' = [expiry EXCEPT ![r] = IF SameId(slot, r) THEN "clearing" ELSE "over"]
    /\ UNCHANGED <<slot, shown, prompt, main, linked, outbox, touched>>

\* ... and, when they agreed, empties the slot.
ExpiryClears(r) ==
    /\ expiry[r] = "clearing"
    /\ slot' = None
    /\ expiry' = [expiry EXCEPT ![r] = "over"]
    /\ UNCHANGED <<shown, prompt, main, linked, outbox, touched>>

Idle == main = None

\* The screen follows the flow, some time later; composition is the main
\* thread's. Opening the screen from the notification does the same.
Recompose ==
    /\ Idle
    /\ shown # slot
    /\ shown' = slot
    /\ UNCHANGED <<slot, expiry, prompt, main, linked, outbox, touched>>

-------------------------------------------------------------------------------
(***************************************************************************)
(* The main thread. Whatever the screen answers, the request was captured  *)
(* when its buttons were composed; finish() takes the screen down.         *)
(***************************************************************************)
Giving(kind, r) == main' = [stage |-> "send", answer |-> [kind |-> kind, on |-> r]]

TapApprove ==
    /\ Idle /\ prompt = None
    /\ shown # None
    /\ prompt' = shown
    /\ UNCHANGED <<slot, expiry, shown, main, linked, outbox, touched>>

\* Mutant: what is pending now is answered, not what was captured.
FingerprintForSlot ==
    /\ Idle /\ prompt # None /\ slot # None
    /\ Giving(AnswerKind[slot], slot)
    /\ touched' = touched \cup {prompt}
    /\ prompt' = None
    /\ shown' = None
    /\ UNCHANGED <<slot, expiry, linked, outbox>>

\* onAuthenticationSucceeded: sign the captured bytes or mint the credential.
FingerprintAccepted ==
    /\ Idle /\ prompt # None
    /\ Giving(AnswerKind[prompt], prompt)
    /\ touched' = touched \cup {prompt}
    /\ prompt' = None
    /\ shown' = None
    /\ UNCHANGED <<slot, expiry, linked, outbox>>

\* Cancelled, or the key would not sign: the request stays pending.
PromptFails ==
    /\ Idle /\ prompt # None
    /\ prompt' = None
    /\ UNCHANGED <<slot, expiry, shown, main, linked, outbox, touched>>

\* Touched, but createCredential fails.
CredentialFails ==
    /\ Idle /\ prompt # None
    /\ AnswerKind[prompt] = "cred"
    /\ Giving("denied", prompt)
    /\ touched' = touched \cup {prompt}
    /\ prompt' = None
    /\ shown' = None
    /\ UNCHANGED <<slot, expiry, linked, outbox>>

\* Mutant: nothing need be shown.
TapDenyAlways ==
    /\ Idle /\ prompt = None
    /\ Giving("denied", shown)
    /\ shown' = None
    /\ UNCHANGED <<slot, expiry, prompt, linked, outbox, touched>>

\* Deny, or Approve with a key that a new enrolment has invalidated.
TapDeny ==
    /\ Idle /\ prompt = None
    /\ shown # None
    /\ Giving("denied", shown)
    /\ shown' = None
    /\ UNCHANGED <<slot, expiry, prompt, linked, outbox, touched>>

\* LinkService.onStartCommand denies whatever is pending when the intent lands.
NotificationDeny ==
    /\ Idle
    /\ slot # None
    /\ Giving("denied", slot)
    /\ UNCHANGED <<slot, expiry, shown, prompt, linked, outbox, touched>>

\* approve, approveCredential and deny: queue the line, then clear() compares.
SendAnswer ==
    /\ main # None /\ main.stage = "send"
    /\ outbox' = IF linked THEN Append(outbox, main.answer) ELSE outbox
    /\ main' = IF SameId(slot, main.answer.on) THEN [main EXCEPT !.stage = "clear"] ELSE None
    /\ UNCHANGED <<slot, expiry, shown, prompt, linked, touched>>

ClearSlot ==
    /\ main # None /\ main.stage = "clear"
    /\ slot' = None
    /\ main' = None
    /\ UNCHANGED <<expiry, shown, prompt, linked, outbox, touched>>

Screen == Recompose \/ TapApprove \/ FingerprintAccepted \/ PromptFails
          \/ CredentialFails \/ TapDeny

Controller ==
    \/ \E r \in Requests : ExpiryChecks(r) \/ ExpiryClears(r)
    \/ Screen \/ SendAnswer \/ ClearSlot

Next == Controller \/ NotificationDeny \/ \E r \in Requests : Present(r)

Spec == Init /\ [][Next]_vars

\* Coroutines and the main thread are scheduled; a user owes nobody a tap.
Fairness ==
    /\ \A r \in Requests : WF_vars(ExpiryChecks(r) \/ ExpiryClears(r))
    /\ WF_vars(SendAnswer \/ ClearSlot)

FairSpec == Spec /\ Fairness

-------------------------------------------------------------------------------
TypeOK ==
    /\ slot \in Requests \cup {None}
    /\ expiry \in [Requests -> {"none", "sleeping", "clearing", "over"}]
    /\ shown \in Requests \cup {None}
    /\ prompt \in Requests \cup {None}
    /\ main \in MainStates \cup {None}
    /\ linked \in BOOLEAN
    /\ outbox \in Seq(Answers)
    /\ touched \subseteq Requests

\* The request in the slot always has a coroutine that will still take it away
\* (present launches it, LinkController.kt:101-112), whatever came and went.
SlotHasExpiry ==
    slot # None => expiry[slot] \in {"sleeping", "clearing"}

\* Nothing is approved but what a fingerprint was given for, though a newer
\* request may have taken the slot, or the old one expired, while the prompt
\* was up (ApprovalActivity.answer captures the request, ApprovalActivity.kt:88).
ApprovedWasTouched ==
    \A i \in DOMAIN outbox :
        outbox[i].kind # "denied" => outbox[i].on \in touched

\* No request is signed twice: "one biometric touch authorises exactly one
\* signing operation" (SigningPrompt.kt:13-14), and an answered request does
\* not come back to the screen.
SignedOnce ==
    \A i, j \in DOMAIN outbox :
        outbox[i].kind # "denied" /\ outbox[i] = outbox[j] => i = j

\* A request does not stay on the phone for ever.
PromptGoesAway == \A r \in Requests : slot = r ~> slot # r

\* Only a request's own expiry and its own answer empty the slot it is in:
\* "a second request arriving in the meantime owns the slot and its own expiry"
\* (LinkController.kt:105-106).
OnlyOwnerClears ==
    [][slot # None /\ slot' = None =>
         \/ expiry[slot] = "clearing" /\ expiry'[slot] = "over"
         \/ main # None /\ main.answer.on = slot]_vars
===============================================================================
