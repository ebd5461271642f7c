----------------------------- MODULE MCDeadlines -----------------------------
(* One polkit dialog and one probe, a unit of time being a minute. *)
EXTENDS Deadlines

CONSTANTS pam, probe

\* timeout=180 of polkit-1.spike; the probe's is never looked at.
LimitDef == [c \in Calls |-> 3]
=============================================================================
