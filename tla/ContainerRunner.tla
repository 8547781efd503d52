-------------------------- MODULE ContainerRunner --------------------------
(***************************************************************************)
(* ContainerCodexRunner (apps/server/src/container-codex-runner.ts): each  *)
(* run of an agent is a client of the container engine and the container   *)
(* it asks for, ended by removing the container.  One agent: the Map's     *)
(* entry and the container's name are each agent's own.                    *)
(*                                                                         *)
(* The engine is the environment: it makes a container unless one has the  *)
(* name, removes by name, succeeds when there is nothing to remove, and    *)
(* may fail to remove.                                                     *)
(***************************************************************************)
EXTENDS Naturals

CONSTANTS
    MaxRuns,         \* bound: runs of the agent
    Cancels,         \* calls of cancel()
    MaxStops,        \* bound: how often the server stops
    EngineMayFail    \* whether a removal may fail or take more than 8 s

ContainerAssumption ==
    /\ MaxRuns \in Nat /\ MaxStops \in Nat
    /\ EngineMayFail \in BOOLEAN

Runs == 1 .. MaxRuns

VARIABLES
    up,          \* whether the server runs
    active,      \* the run the Map's entry is of, or None
    last,        \* the last run started
    entry,       \* entry[r]: the flags, the promise of removeContainer, the outcome
    client,      \* the engine's client, of the active run
    container,   \* the run whose container has the agent's name, or None
    caller,      \* caller[k]: a call of cancel() and the run whose entry it holds
    stops        \* how often the server has stopped

vars == <<up, active, last, entry, client, container, caller, stops>>

None == 0
Limits == {"timedOut", "outputExceeded"}
Living == {"creating", "attached"}
Exited == {"ok", "error"}

Init ==
    /\ up = TRUE /\ active = None /\ last = 0 /\ stops = 0
    /\ entry = [r \in Runs |-> [flags |-> {}, termination |-> "none", result |-> "none"]]
    /\ client = "none" /\ container = None
    /\ caller = [k \in Cancels |-> [at |-> "idle", run |-> None]]

\* run(): the client is spawned and entered in the Map.
Run ==
    /\ up /\ active = None /\ last < MaxRuns
    /\ active' = last + 1 /\ last' = last + 1
    /\ client' = "creating"
    /\ UNCHANGED <<up, entry, container, caller, stops>>

Create ==
    /\ client = "creating" /\ container = None
    /\ container' = active
    /\ client' = "attached"
    /\ UNCHANGED <<up, active, last, entry, caller, stops>>

\* A container of an earlier run has the name: the client exits with an error.
NameInUse ==
    /\ client = "creating" /\ container # None
    /\ client' = "error"
    /\ UNCHANGED <<up, active, last, entry, container, caller, stops>>

\* Codex ends as it likes, and with it the container (--rm) and an attached client.
CodexEnds ==
    /\ container # None
    /\ container' = None
    /\ IF client = "attached" THEN \E how \in Exited : client' = how ELSE client' = client
    /\ UNCHANGED <<up, active, last, entry, caller, stops>>

\* Mutant: the client is killed as well.
RemoveContainerAndClient(r, flag) ==
    /\ entry' = [entry EXCEPT ![r].flags = @ \cup {flag},
                              ![r].termination = IF @ = "none" THEN "removing" ELSE @]
    /\ client' = "error"

\* A flag is set, and the container removed unless that was tried before.
RemoveContainer(r, flag) ==
    /\ entry' = [entry EXCEPT ![r].flags = @ \cup {flag},
                              ![r].termination = IF @ = "none" THEN "removing" ELSE @]
    /\ client' = client

Cancel(k) ==
    /\ caller[k].at = "idle" /\ active # None
    /\ caller' = [caller EXCEPT ![k] = [at |-> "waiting", run |-> active]]
    /\ RemoveContainer(active, "cancelled")
    /\ UNCHANGED <<up, active, last, container, stops>>

\* More output than CODEX_MAX_OUTPUT_BYTES, or the run timeout: minutes, so that the
\* container exists.
LimitReached(limit) ==
    /\ active # None /\ client # "creating"
    /\ limit \notin entry[active].flags
    /\ RemoveContainer(active, limit)
    /\ UNCHANGED <<up, active, last, container, caller, stops>>

\* rm --force goes by the name, whosever container has it now.
RmSucceeds(r) ==
    /\ entry[r].termination = "removing"
    /\ entry' = [entry EXCEPT ![r].termination = "removed"]
    /\ container' = None
    /\ client' = IF client = "attached" THEN "error" ELSE client
    /\ UNCHANGED <<up, active, last, caller, stops>>

RmFails(r) ==
    /\ EngineMayFail /\ entry[r].termination = "removing"
    /\ entry' = [entry EXCEPT ![r].termination = "failed"]
    /\ UNCHANGED <<up, active, last, client, container, caller, stops>>

\* Mutant: nothing is done when the removal fails.
NeverKilled == FALSE /\ UNCHANGED vars

\* The removal failed: the client gets SIGTERM and after three seconds SIGKILL.  That
\* ends the client; the container goes on.
KillClient ==
    /\ active # None /\ entry[active].termination = "failed"
    /\ client \in Living
    /\ client' = "error"
    /\ UNCHANGED <<up, active, last, entry, container, caller, stops>>

Result(r) ==
    IF "cancelled" \in entry[r].flags THEN "cancelled"
    ELSE IF entry[r].flags # {} \/ client # "ok" THEN "failed"
    ELSE "completed"

\* The client closes: run() settles and the entry goes, whatever the removal does.
Settle ==
    /\ client \in Exited
    /\ entry' = [entry EXCEPT ![active].result = Result(active)]
    /\ active' = None
    /\ client' = "none"
    /\ UNCHANGED <<up, last, container, caller, stops>>

\* cancel() returns when the removal and the client have ended.
CancelReturns(k) ==
    /\ caller[k].at = "waiting"
    /\ entry[caller[k].run].termination \in {"removed", "failed"}
    /\ active # caller[k].run
    /\ caller' = [caller EXCEPT ![k].at = "true"]
    /\ UNCHANGED <<up, active, last, entry, client, container, stops>>

\* The server stops and leaves what its client has asked for.
ServerStops ==
    /\ up /\ stops < MaxStops
    /\ up' = FALSE /\ stops' = stops + 1
    /\ entry' = [r \in Runs |-> IF r = active THEN [entry[r] EXCEPT !.result = "lost"] ELSE entry[r]]
    /\ active' = None
    /\ client' = "none"
    /\ container' \in {container, IF client = "creating" /\ container = None THEN active ELSE container}
    /\ caller' = [k \in Cancels |-> IF caller[k].at = "waiting" THEN [caller[k] EXCEPT !.at = "lost"] ELSE caller[k]]
    /\ UNCHANGED last

\* The script of the local setup removes containers before it starts the server; a
\* server that is started otherwise finds what was left.
Boot ==
    /\ ~up
    /\ up' = TRUE
    /\ container' \in {None, container}
    /\ UNCHANGED <<active, last, entry, client, caller, stops>>

Next ==
    \/ Run
    \/ Create
    \/ NameInUse
    \/ CodexEnds
    \/ \E k \in Cancels : Cancel(k)
    \/ \E limit \in Limits : LimitReached(limit)
    \/ \E r \in Runs : RmSucceeds(r)
    \/ \E r \in Runs : RmFails(r)
    \/ KillClient
    \/ Settle
    \/ \E k \in Cancels : CancelReturns(k)
    \/ ServerStops
    \/ Boot

\* The engine answers; signals arrive; promises settle.  Codex need never end, and no
\* limit need be reached.
Fairness ==
    /\ WF_vars(Create) /\ WF_vars(NameInUse)
    /\ \A r \in Runs : WF_vars(RmSucceeds(r) \/ RmFails(r))
    /\ WF_vars(KillClient) /\ WF_vars(Settle)
    /\ \A k \in Cancels : WF_vars(CancelReturns(k))

Spec == Init /\ [][Next]_vars /\ Fairness
-----------------------------------------------------------------------------
\* The variables hold values of their types; the Map has an entry exactly while its
\* run has a client and no outcome, and an attached client has its own container.
TypeOK ==
    /\ active \in Runs \cup {None} /\ last \in 0 .. MaxRuns /\ container \in Runs \cup {None}
    /\ client \in {"none"} \cup Living \cup Exited
    /\ \A r \in Runs :
          /\ entry[r].flags \subseteq Limits \cup {"cancelled"}
          /\ entry[r].termination \in {"none", "removing", "removed", "failed"}
          /\ entry[r].result \in {"none", "completed", "failed", "cancelled", "lost"}
    /\ active # None <=> client # "none"
    /\ active # None => entry[active].result = "none"
    /\ client = "attached" => container = active

\* Who called cancel() and was told true finds the run cancelled, whatever else ended
\* the run and however its client exited.
CancelReported == \A k \in Cancels : caller[k].at = "true" => entry[caller[k].run].result = "cancelled"

\* A container outlives its run only if the engine failed to remove it or the server
\* stopped: the agent's next run, which needs the name, does not meet it otherwise.
LeftOnlyByEngine ==
    container \notin {None, active} =>
        entry[container].termination = "failed" \/ entry[container].result = "lost"

\* A run that nobody cancelled ends once it has reached its timeout, though the engine
\* may fail to remove the container ("Both providers ... bound output and time").
TimeIsBounded ==
    \A r \in Runs :
        (active = r /\ "timedOut" \in entry[r].flags /\ "cancelled" \notin entry[r].flags)
            ~> (active # r)

\* The same of every run, which does not hold: a cancellation may come before there is
\* a container, and the removal is not tried again.
EveryRunIsBounded == \A r \in Runs : (active = r /\ "timedOut" \in entry[r].flags) ~> (active # r)

\* "disposable container Runs are force-removed": a cancelled run has no container.  It
\* does not hold where the engine fails to remove.
ContainerGone == \A r \in Runs : entry[r].result = "cancelled" => container # r
=============================================================================
