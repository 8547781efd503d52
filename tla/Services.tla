------------------------------ MODULE Services ------------------------------
(***************************************************************************)
(* Four services that share no state, side by side: a behaviour is one of  *)
(* the registry, of the logins, of the container runner or of the review   *)
(* artefacts, and the others stay as they start.  Fairness asks nothing of *)
(* those, for none of its steps is possible in an initial state.           *)
(***************************************************************************)
EXTENDS Naturals, FiniteSets

CONSTANTS
    \* the registry
    Agents, Founders, Policies, Inherited, Names, GeneralName, DmName(_), MaxChannels, Calls, CallOps, MaxStarts,
    \* the logins
    Integrations, LoginAgents, Shared, Requests, NoLogin, LoginOps, MayRestart, DiskMayFail,
    \* the container runner
    MaxRuns, Cancels, MaxStops, EngineMayFail,
    \* the review artefacts
    Paths, Nodes, Ids, Readers, MaxFiles, MaxTotal, MaxResponse, MaxSize, MaxChanges, NoFile

VARIABLES
    part,           \* the service a behaviour is about
    chan, agent, run, draining, pending, asked, registry, said, call, runs,
    server, status, own, tokens, writes, logins, old, request, child, printed,
    up, active, last, entry, client, container, caller, stops,
    where, size, pub, dir, disk, stored, reader, changes

registryVars == <<chan, agent, run, draining, pending, asked, registry, said, call, runs>>
loginVars == <<server, status, own, tokens, writes, logins, old, request, child, printed>>
containerVars == <<up, active, last, entry, client, container, caller, stops>>
reviewVars == <<where, size, pub, dir, disk, stored, reader, changes>>
vars == <<part, registryVars, loginVars, containerVars, reviewVars>>

R == INSTANCE Registry WITH Requests <- Calls, Ops <- CallOps, MaxRuns <- MaxStarts, request <- call
L == INSTANCE Integrations WITH Agents <- LoginAgents, None <- NoLogin, Ops <- LoginOps
C == INSTANCE ContainerRunner
A == INSTANCE ReviewArtifacts WITH None <- NoFile

ASSUME ServicesAssumption ==
    /\ R!RegistryAssumption
    /\ L!IntegrationsAssumption
    /\ C!ContainerAssumption
    /\ A!ArtifactAssumption

Init ==
    /\ part \in {"registry", "logins", "container", "review"}
    /\ R!Init /\ L!Init /\ C!Init /\ A!Init
    /\ part # "review" => where = [p \in Paths |-> CHOOSE n \in Nodes : TRUE]
    /\ part # "registry" => \A a \in Founders : agent[a].may = CHOOSE policy \in Inherited : TRUE

Next ==
    \/ part = "registry" /\ R!Next /\ UNCHANGED <<part, loginVars, containerVars, reviewVars>>
    \/ part = "logins" /\ L!Next /\ UNCHANGED <<part, registryVars, containerVars, reviewVars>>
    \/ part = "container" /\ C!Next /\ UNCHANGED <<part, registryVars, loginVars, reviewVars>>
    \/ part = "review" /\ A!Next /\ UNCHANGED <<part, registryVars, loginVars, containerVars>>

Spec == Init /\ [][Next]_vars /\ L!Fairness /\ C!Fairness
-----------------------------------------------------------------------------
\* The registry: open channels have different names, and their members exist and,
\* #general apart, may post there, whatever is created, joined and deleted at the same time.
RegistryConsistent == R!TypeOK /\ R!NamesUnique /\ R!MembersExist /\ R!MembersMayPost

\* A deleted channel comes to rest for good once what was under way there is through.
DeletedRests == R!DeletedRests

\* An integration shows "connecting" only while something is left that will settle it,
\* and an agent's own login is the work of its own login process.
LoginsConsistent == L!TypeOK /\ L!ConnectingSettles /\ L!OwnByLogin

\* Login requests are answered, their processes end, and none blocks the next for good.
LoginsEnd == L!LoginAnswered /\ L!LoginProcessEnds /\ L!MapUnblocks

\* A container outlives its run by a failure of the engine or a stop of the server only,
\* and a call of cancel() that returned true has cancelled the run.
ContainersAccounted == C!TypeOK /\ C!LeftOnlyByEngine /\ C!CancelReported

\* A run that nobody cancelled ends once it has reached its timeout.
TimeIsBounded == C!TimeIsBounded

\* What the database knows is on disk and within the limit, and what is answered is what
\* was published.
ArtifactsConsistent == A!TypeOK /\ A!WithinLimit /\ A!StoredIsOnDisk /\ A!ReadsPublished
=============================================================================
