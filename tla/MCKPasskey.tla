------------------------------ MODULE MCKPasskey ------------------------------
(* Instances of KPasskey for TLC. *)
EXTENDS KPasskey, TLC

CONSTANTS p1, p2, f1

OpVerify == [c \in Tasks |-> "verify"]
OpMakeCred == [c \in Tasks |-> IF c = f1 THEN "makecred" ELSE "verify"]

\* Tasks of one kind and unused connections are interchangeable.
Symmetry == {p @@ q : p \in Permutations(Tasks), q \in Permutations(Conns)}
===============================================================================
