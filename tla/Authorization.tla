----------------------------- MODULE Authorization -----------------------------
(***************************************************************************)
(* What the desktop promises whoever asks it to authenticate somebody: an  *)
(* answer is given at most once, and a yes only after the owner of the     *)
(* paired phone consented to that very request. Everything may be refused  *)
(* at any time: when the phone is away, out of time, or on a restart.      *)
(***************************************************************************)

CONSTANT Requests

VARIABLES
    status,     \* what each requester has been told
    consented   \* the requests the owner said yes to on the phone

avars == <<status, consented>>

Init ==
    /\ status = [r \in Requests |-> "idle"]
    /\ consented = {}

Ask(r) ==
    /\ status[r] = "idle"
    /\ status' = [status EXCEPT ![r] = "asked"]
    /\ UNCHANGED consented

\* The owner may also consent to a request that was refused meanwhile.
Consent(r) ==
    /\ status[r] # "idle"
    /\ consented' = consented \cup {r}
    /\ UNCHANGED status

Grant(r) ==
    /\ status[r] = "asked"
    /\ r \in consented
    /\ status' = [status EXCEPT ![r] = "granted"]
    /\ UNCHANGED consented

\* Refusals come one at a time, or all at once when the daemon dies.
Refuse(S) ==
    /\ \A r \in S : status[r] \in {"idle", "asked"}
    /\ status' = [r \in Requests |-> IF r \in S THEN "refused" ELSE status[r]]
    /\ UNCHANGED consented

Next ==
    \/ \E r \in Requests : Ask(r) \/ Consent(r) \/ Grant(r)
    \/ \E S \in SUBSET Requests : Refuse(S)

Spec == Init /\ [][Next]_avars
================================================================================
