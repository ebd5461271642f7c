--------------------------- MODULE MCLinkController ---------------------------
(* Instances of LinkController and of the Service around it for TLC. *)
EXTENDS Service

\* Three requests of one daemon: ids are never the same.
Three == {[id |-> n] : n \in 1..3}
Two == {[id |-> n] : n \in 1..2}

\* The second creates a passkey, the others are signed.
Kinds == [r \in Requests |-> IF r.id = 2 THEN "cred" ELSE "sig"]
===============================================================================
