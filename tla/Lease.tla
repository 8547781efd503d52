------------------------------- MODULE Lease -------------------------------
(***************************************************************************)
(* What a caller of the lock backend may rely on, and nothing of how it is *)
(* implemented: at most one holder per key, nobody waits for a free lock,  *)
(* a lock changes hands only when its holder leaves, and every wait ends.  *)
(* LockBackend implements this specification (its waiters are a queue).    *)
(***************************************************************************)
CONSTANTS
    Keys,      \* the resources a lock scopes
    Actors,    \* the callers of acquire
    Nobody     \* the holder of a free lock

VARIABLES
    holder,    \* holder[k]: who holds the lock on k
    pending    \* pending[k]: who waits for the lock on k

vars == <<holder, pending>>

Init ==
    /\ holder = [k \in Keys |-> Nobody]
    /\ pending = [k \in Keys |-> {}]

Enter(a, k) ==
    /\ holder[k] = Nobody
    /\ holder' = [holder EXCEPT ![k] = a]
    /\ UNCHANGED pending

Wait(a, k) ==
    /\ holder[k] # Nobody
    /\ pending' = [pending EXCEPT ![k] = @ \cup {a}]
    /\ UNCHANGED holder

GiveUp(a, k) ==
    /\ a \in pending[k]
    /\ pending' = [pending EXCEPT ![k] = @ \ {a}]
    /\ UNCHANGED holder

\* The holder leaves, and the lock stays taken whenever somebody waits for it.
Leave(k) ==
    /\ holder[k] # Nobody
    /\ \/ /\ pending[k] = {}
          /\ holder' = [holder EXCEPT ![k] = Nobody]
          /\ UNCHANGED pending
       \/ \E b \in pending[k] :
              /\ holder' = [holder EXCEPT ![k] = b]
              /\ pending' = [pending EXCEPT ![k] = @ \ {b}]

Next ==
    \E k \in Keys :
        \/ Leave(k)
        \/ \E a \in Actors : Enter(a, k) \/ Wait(a, k) \/ GiveUp(a, k)

Spec == Init /\ [][Next]_vars
=============================================================================
