------------------------------ MODULE MCDaemon ------------------------------
(* Instances of Daemon for TLC. *)
EXTENDS Daemon, TLC

CONSTANTS p1, f1, k1, k2, c1, c2

\* One session and one browser, through the FIDO helper.
OpAssert == [c \in Tasks |-> IF c = f1 THEN "assert" ELSE "verify"]
OpMakeCred == [c \in Tasks |-> IF c = f1 THEN "makecred" ELSE "verify"]

\* Records that all tie, so that any of them may be the active one.
OneTime == {0}

\* Phones and keys are interchangeable, and no property of the safety run is
\* about time.
Symmetric == Permutations(Conns) \cup Permutations(Keys)
=============================================================================
