---------------------------- MODULE AtomicStore ----------------------------
(***************************************************************************)
(* What JsonStore promises, stated on its own: a change is applied once    *)
(* and for good, or not at all, and its caller is told which; only a crash *)
(* leaves a caller without an answer.  Store implements it with a queue, a *)
(* copy, a temporary file and a rename.                                    *)
(***************************************************************************)
CONSTANT Callers    \* each asks for one change

VARIABLES
    applied,    \* the changes the database holds
    outcome     \* outcome[c]: what c knows of its change

vars == <<applied, outcome>>

Outcomes == {"idle", "pending", "done", "failed", "lost"}

Init ==
    /\ applied = {}
    /\ outcome = [c \in Callers |-> "idle"]

Tell(c, from, to) == outcome[c] = from /\ outcome' = [outcome EXCEPT ![c] = to]

Ask(c) == Tell(c, "idle", "pending") /\ UNCHANGED applied

Apply(c) ==
    /\ outcome[c] = "pending"
    /\ c \notin applied
    /\ applied' = applied \cup {c}
    /\ UNCHANGED outcome

Confirm(c) == c \in applied /\ Tell(c, "pending", "done") /\ UNCHANGED applied

Fail(c) == c \notin applied /\ Tell(c, "pending", "failed") /\ UNCHANGED applied

Lose ==
    /\ outcome' = [c \in Callers |-> IF outcome[c] = "pending" THEN "lost" ELSE outcome[c]]
    /\ UNCHANGED applied

Next == Lose \/ \E c \in Callers : Ask(c) \/ Apply(c) \/ Confirm(c) \/ Fail(c)

Spec == Init /\ [][Next]_vars
=============================================================================
