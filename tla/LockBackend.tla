---------------------------- MODULE LockBackend ----------------------------
(***************************************************************************)
(* InMemoryLockBackend (apps/server/src/sync.ts): one exclusive lock per   *)
(* key, FIFO waiters with a bounded wait, and a lease that takes the lock  *)
(* back from a holder that does not release it in time.                    *)
(*                                                                         *)
(* An actor is a caller of acquire: it awaits the promise, works, and      *)
(* calls lease.release() once, in a finally block, as every caller in      *)
(* agent-service.ts does.  A LockState object belongs to one grant, so an  *)
(* actor's current grant stands for its LockState: released[a] is that     *)
(* object's flag and locks[k] = a says that the Map holds that object.     *)
(* Timers are actions that may fire whenever they are armed.               *)
(***************************************************************************)
EXTENDS Naturals, Sequences, SequencesExt

CONSTANTS
    Keys,      \* lock keys: "channel:<id>", "channels", "approval:<id>"
    Actors,    \* callers of acquire
    Nobody,    \* no entry in the locks Map
    NoKey      \* the key of an actor that is not inside acquire ... release

ASSUME NullAssumption == Nobody \notin Actors /\ NoKey \notin Keys

VARIABLES
    locks,     \* the Map key -> LockState, Nobody when the key has no entry
    waiters,   \* the Map key -> Waiter[], oldest first
    call,      \* call[a]: what the caller sees of its acquire
    key,       \* key[a]: the key it was called with
    released   \* released[a]: LockState.released of a's grant

lockVars == <<locks, waiters, call, key, released>>

CallStates == {"idle", "waiting", "leased"}

TypeOK ==
    /\ locks \in [Keys -> Actors \cup {Nobody}]
    /\ waiters \in [Keys -> Seq(Actors)]
    /\ call \in [Actors -> CallStates]
    /\ key \in [Actors -> Keys \cup {NoKey}]
    /\ released \in [Actors -> BOOLEAN]

Init ==
    /\ locks = [k \in Keys |-> Nobody]
    /\ waiters = [k \in Keys |-> <<>>]
    /\ call = [a \in Actors |-> "idle"]
    /\ key = [a \in Actors |-> NoKey]
    /\ released = [a \in Actors |-> TRUE]

\* A new server process builds a new backend, with empty Maps.
Reset ==
    /\ locks' = [k \in Keys |-> Nobody]
    /\ waiters' = [k \in Keys |-> <<>>]
    /\ call' = [a \in Actors |-> "idle"]
    /\ key' = [a \in Actors |-> NoKey]
    /\ released' = [a \in Actors |-> TRUE]

-----------------------------------------------------------------------------

\* acquire on a key without an entry: granted before the promise is returned.
AcquireFree(a, k) ==
    /\ call[a] = "idle"
    /\ locks[k] = Nobody
    /\ locks' = [locks EXCEPT ![k] = a]
    /\ call' = [call EXCEPT ![a] = "leased"]
    /\ key' = [key EXCEPT ![a] = k]
    /\ released' = [released EXCEPT ![a] = FALSE]
    /\ UNCHANGED waiters

\* acquire on a held key: a Waiter goes to the back of the queue.
AcquireHeld(a, k) ==
    /\ call[a] = "idle"
    /\ locks[k] # Nobody
    /\ waiters' = [waiters EXCEPT ![k] = Append(@, a)]
    /\ call' = [call EXCEPT ![a] = "waiting"]
    /\ key' = [key EXCEPT ![a] = k]
    /\ UNCHANGED <<locks, released>>

Acquire(a, k) == AcquireFree(a, k) \/ AcquireHeld(a, k)

\* Mutant: the rejection is missing.
TimeoutNeverRejects(a) ==
    /\ call[a] = "waiting"
    /\ \E i \in 1..Len(waiters[key[a]]) :
          /\ waiters[key[a]][i] = a
          /\ waiters' = [waiters EXCEPT ![key[a]] = RemoveAt(@, i)]
    /\ UNCHANGED <<locks, call, key, released>>

\* The wait timer: the waiter leaves the queue and its promise is rejected
\* with LockTimeoutError, after which the caller holds nothing.
WaitTimeout(a) ==
    /\ call[a] = "waiting"
    /\ \E i \in 1..Len(waiters[key[a]]) :
          /\ waiters[key[a]][i] = a
          /\ waiters' = [waiters EXCEPT ![key[a]] = RemoveAt(@, i)]
    /\ call' = [call EXCEPT ![a] = "idle"]
    /\ key' = [key EXCEPT ![a] = NoKey]
    /\ UNCHANGED <<locks, released>>

\* Mutants: no hand-over; pop() for shift().
HeirIsNobody(k) == Nobody
HeirIsNewest(k) == IF waiters[k] = <<>> THEN Nobody ELSE Last(waiters[k])

\* Who gets the lock when the entry of k is deleted: the oldest waiter, if any.
Heir(k) == IF waiters[k] = <<>> THEN Nobody ELSE Head(waiters[k])

\* release(key, state) on a LockState whose flag is not set: the flag is set,
\* and unless the Map has moved on the entry is deleted and the oldest waiter
\* is granted the lock in the same turn.  `after` is a's call afterwards.
Unlock(a, after) ==
    LET k == key[a]
        next == IF locks[k] = a THEN Heir(k) ELSE Nobody
    IN  /\ IF locks[k] # a
           THEN UNCHANGED <<locks, waiters>>
           ELSE /\ locks' = [locks EXCEPT ![k] = next]
                /\ waiters' = [waiters EXCEPT ![k] = IF @ = <<>> THEN @ ELSE Tail(@)]
        /\ call' = [b \in Actors |-> IF b = next THEN "leased"
                                     ELSE IF b = a THEN after ELSE call[b]]
        /\ released' = [b \in Actors |-> IF b = next THEN FALSE
                                         ELSE IF b = a THEN TRUE ELSE released[b]]

\* The lease timer.  The former holder is not told: its call stays "leased".
LeaseExpires(a) ==
    /\ call[a] = "leased"
    /\ ~released[a]
    /\ Unlock(a, "leased")
    /\ UNCHANGED key

\* lease.release() of a holder whose lease is still running.
ReleaseHeld(a) ==
    /\ call[a] = "leased"
    /\ ~released[a]
    /\ Unlock(a, "idle")
    /\ key' = [key EXCEPT ![a] = NoKey]

\* Mutant: neither the flag nor the identity of the Map entry is tested.
ReleaseIgnoresFlag(a) ==
    /\ call[a] = "leased"
    /\ released[a]
    /\ locks' = [locks EXCEPT ![key[a]] = Nobody]
    /\ call' = [call EXCEPT ![a] = "idle"]
    /\ key' = [key EXCEPT ![a] = NoKey]
    /\ UNCHANGED <<waiters, released>>

\* lease.release() after the lease expired: the flag makes it a no-op.
ReleaseLate(a) ==
    /\ call[a] = "leased"
    /\ released[a]
    /\ call' = [call EXCEPT ![a] = "idle"]
    /\ key' = [key EXCEPT ![a] = NoKey]
    /\ UNCHANGED <<locks, waiters, released>>

Release(a) == ReleaseHeld(a) \/ ReleaseLate(a)

LockNext ==
    \E a \in Actors :
        \/ \E k \in Keys : Acquire(a, k)
        \/ WaitTimeout(a)
        \/ LeaseExpires(a)
        \/ Release(a)

LockSpec == Init /\ [][LockNext]_lockVars

\* Node fires an armed timer unless it is cleared first.  Nothing is assumed of
\* the callers: a holder may never release.
Timers == \A a \in Actors : WF_lockVars(WaitTimeout(a)) /\ WF_lockVars(LeaseExpires(a))

FairSpec == LockSpec /\ Timers
-----------------------------------------------------------------------------

(***************************************************************************)
(* Properties.                                                             *)
(***************************************************************************)

\* The Map, the queues and what the callers believe agree: the entry of a key
\* is the one unexpired grant on it, and a queue holds exactly the callers that
\* wait on its key, each once.
QueueAgrees ==
    /\ \A k \in Keys : \A i \in 1..Len(waiters[k]) :
          /\ call[waiters[k][i]] = "waiting"
          /\ key[waiters[k][i]] = k
    /\ \A k \in Keys : \A i, j \in 1..Len(waiters[k]) :
          waiters[k][i] = waiters[k][j] => i = j
    /\ \A a \in Actors : call[a] = "waiting" =>
          /\ key[a] \in Keys
          /\ \E i \in 1..Len(waiters[key[a]]) : waiters[key[a]][i] = a

GrantAgrees ==
    /\ \A k \in Keys : \A a \in Actors : locks[k] = a =>
          call[a] = "leased" /\ key[a] = k /\ ~released[a]
    /\ \A a \in Actors : call[a] = "leased" =>
          /\ key[a] \in Keys
          /\ ~released[a] => locks[key[a]] = a

\* A free lock has no waiters: whatever empties the Map entry (a release, a
\* lease expiry, a waiter's timeout racing either) hands the lock on, so nobody
\* is left waiting for a lock that no release will ever pass to it.
NoStrandedWaiter == \A k \in Keys : waiters[k] # <<>> => locks[k] # Nobody

\* Two callers can both believe they hold a key only when the lease of all but
\* one of them has expired (the backend has no fencing token).
ExclusiveUnlessExpired ==
    \A a, b \in Actors :
        (a # b /\ call[a] = "leased" /\ call[b] = "leased" /\ key[a] = key[b])
            => (released[a] \/ released[b])

\* The late release() of a holder whose lease expired never takes the lock from
\* the actor it was passed to, nor wakes a waiter.
LateReleaseIsHarmless ==
    [][\A a \in Actors : (call[a] = "leased" /\ released[a] /\ call'[a] = "idle")
            => UNCHANGED <<locks, waiters>>]_lockVars

\* First come, first served: a waiter is granted the lock only when every
\* waiter ahead of it has been granted it or has timed out.
NoOvertaking ==
    [][\A k \in Keys : \A i, j \in 1..Len(waiters[k]) :
          (i < j /\ call'[waiters[k][j]] = "leased")
              => call'[waiters[k][i]] # "waiting"]_lockVars

\* Every wait ends, in a lease or in a LockTimeoutError, even when the holder
\* never releases.
EveryWaitEnds == \A a \in Actors : (call[a] = "waiting") ~> (call[a] # "waiting")

\* No grant outlives its lease: a holder that never returns loses the lock.
NoLeakedLock == \A a \in Actors : \A k \in Keys : (locks[k] = a) ~> (locks[k] # a)

\* The detailed lock implements the abstract one.
Abstract == INSTANCE Lease WITH
    holder <- locks,
    pending <- [k \in Keys |-> ToSet(waiters[k])]

AbstractSpec == Abstract!Spec

\* The lock moves on: every wait ends, and so does every grant, whatever its holder does.
LockMovesOn == EveryWaitEnds /\ NoLeakedLock
=============================================================================
