------------------------------ MODULE MCCtapHid ------------------------------
(* Instances of CtapHid for TLC. *)
EXTENDS CtapHid, TLC

CONSTANTS a, b

\* One program opens the device and sends two messages, the other sends one.
Messages == (a :> 3) @@ (b :> 2)
==============================================================================
