------------------------------ MODULE Registry ------------------------------
(***************************************************************************)
(* The channel registry (apps/server/src/agent-service.ts): creating and   *)
(* deleting channels, agents that join and leave them, and what goes on in *)
(* a channel meanwhile: posts that wait for its lock, wakes, runs, pending *)
(* approvals.                                                              *)
(*                                                                         *)
(* A request is a call of the service by the human or by an agent in its   *)
(* run; what it reads before an await and uses after it is in its record.  *)
(* Of a policy only the channels it allows are kept: no policy here denies *)
(* one.  Staleness, traces and budgets are in ChannelSync and Conversation;*)
(* the files the handlers write are left out, the awaits for them are not. *)
(***************************************************************************)
EXTENDS Naturals, FiniteSets

CONSTANTS
    Agents,         \* principals, existing and to come
    Founders,       \* those in the database at the start, members of #general only
    Policies,       \* what policies allow, before any channel is granted
    Inherited,      \* those of them that founders may have
    Names,          \* names of public channels that are asked for
    GeneralName,    \* "general"
    DmName(_),      \* the name createAgent gives to an agent's DM
    MaxChannels,    \* bound: channels ever made
    Requests,       \* bound: calls of the service
    Ops,            \* what is called
    MaxRuns         \* bound: runs ever started

Channels == 1 .. MaxChannels
General == 1

RegistryAssumption ==
    /\ Founders \subseteq Agents /\ IsFiniteSet(Founders)
    /\ GeneralName \notin Names
    /\ Inherited \subseteq Policies /\ Policies \subseteq SUBSET ({GeneralName} \cup Names)
    /\ MaxChannels \in Nat /\ MaxChannels > Cardinality(Founders) /\ MaxRuns \in Nat
    /\ Ops \subseteq {"create_channel", "delete_channel", "create_agent", "update_agent",
                      "delete_agent", "post", "human_post"}

VARIABLES
    chan,      \* database.channels
    agent,     \* database.agents: state, DM, the channel names its policy allows
    run,       \* run[a]: the channel of a's active run, or None
    draining,  \* agents whose execution has ended and which look for deferred wakes
    pending,   \* pendingWakes: the channels an agent was called to while busy
    asked,     \* channels with a pending approval
    registry,  \* the request that holds the lock "channels", or None
    said,      \* said[c]: messages in a channel; only their number
    request,   \* the calls
    runs       \* how many runs were started

people == <<agent, run, draining, pending>>
vars == <<chan, people, asked, registry, said, request, runs>>

None == 0
NoChannel == [state |-> "none", name |-> GeneralName, kind |-> "none", members |-> {}]
NoRequest == [at |-> "idle", op |-> "none", by |-> None, chan |-> None, name |-> GeneralName,
              agent |-> None, chosen |-> {}, left |-> {}]

Open(c) == chan[c].state = "open"
OpenChannels == {c \in Channels : Open(c)}
Alive(a) == agent[a].state \in {"ready", "busy"}

\* ensureSystemChannels.  #approvals has no members and cannot be deleted: left out.
Init ==
    /\ \E dm \in [Founders -> 2 .. Cardinality(Founders) + 1], given \in [Founders -> Inherited] :
        /\ \A a, b \in Founders : a # b => dm[a] # dm[b]
        /\ chan = [c \in Channels |->
             IF c = General
             THEN [state |-> "open", name |-> GeneralName, kind |-> "public", members |-> Founders]
             ELSE IF \E a \in Founders : dm[a] = c
             THEN LET a == CHOOSE a \in Founders : dm[a] = c
                  IN  [state |-> "open", name |-> DmName(a), kind |-> "dm", members |-> {a}]
             ELSE NoChannel]
        /\ agent = [a \in Agents |->
             IF a \in Founders THEN [state |-> "ready", dm |-> dm[a], may |-> given[a]]
             ELSE [state |-> "none", dm |-> None, may |-> {}]]
    /\ run = [a \in Agents |-> None]
    /\ draining = {}
    /\ pending = [a \in Agents |-> {}]
    /\ asked = {}
    /\ registry = None
    /\ said = [c \in Channels |-> 0]
    /\ request = [r \in Requests |-> NoRequest]
    /\ runs = 0

Goto(r, at) == request' = [request EXCEPT ![r].at = at]
Ask(r, call) ==
    /\ call.op \in Ops /\ request[r].at = "idle"
    /\ \A q \in Requests : q < r => request[q].at # "idle"
    /\ request' = [request EXCEPT ![r] = call]

At(r, op, at) == request[r].op = op /\ request[r].at = at
NextChannel == CHOOSE c \in Channels : chan[c] = NoChannel /\ \A d \in 1 .. c - 1 : chan[d] # NoChannel
RoomForChannel == \E c \in Channels : chan[c] = NoChannel

\* newChannel: nothing is asked about the name here.
NewChannel(cs, c, name, kind, members) ==
    [cs EXCEPT ![c] = [state |-> "open", name |-> name, kind |-> kind, members |-> members]]

\* getChannelByName: the first open channel of that name.
ByName(name) ==
    LET named == {c \in OpenChannels : chan[c].name = name}
    IN  IF named = {} THEN None ELSE CHOOSE c \in named : \A d \in named : c <= d

(***************************************************************************)
(* createChannel                                                           *)
(***************************************************************************)
\* The human names members; an agent, whose call was authorized, is one itself.
AskCreateChannel(r, by, name, members) ==
    /\ by \in {None} \cup {a \in members : run[a] # None}
    /\ \A a \in members : Alive(a)
    /\ Ask(r, [NoRequest EXCEPT !.op = "create_channel", !.at = "locking", !.by = by,
                                !.chan = IF by = None THEN None ELSE run[by],
                                !.name = name, !.chosen = members])
    /\ UNCHANGED <<chan, people, asked, registry, said, runs>>

LockRegistry(r) ==
    /\ At(r, "create_channel", "locking") /\ registry = None
    /\ registry' = r
    /\ Goto(r, "locked")
    /\ UNCHANGED <<chan, people, asked, said, runs>>

\* LockTimeoutError: the registry is busy, 409.
RegistryBusy(r) ==
    /\ At(r, "create_channel", "locking") /\ registry # None
    /\ Goto(r, "refused")
    /\ UNCHANGED <<chan, people, asked, registry, said, runs>>

\* The lease of a lock ends before its holder's mutation.
LeaseExpires ==
    /\ registry # None
    /\ registry' = None
    /\ UNCHANGED <<chan, people, asked, said, request, runs>>

Release(r) == registry' = IF registry = r THEN None ELSE registry
Taken(name) == \E c \in OpenChannels : chan[c].name = name

\* The members' policies come to allow the channel.
Join(as, members, name) ==
    [a \in Agents |-> IF a \in members THEN [as[a] EXCEPT !.may = @ \cup {name}] ELSE as[a]]

\* Mutant: the name is checked by the caller, before the lock.
CommitAnyName(r) ==
    /\ At(r, "create_channel", "locked") /\ RoomForChannel
    /\ chan' = NewChannel(chan, NextChannel, request[r].name, "public", request[r].chosen)
    /\ agent' = Join(agent, request[r].chosen, request[r].name)
    /\ Release(r)
    /\ Goto(r, "done")
    /\ UNCHANGED <<run, draining, pending, asked, said, runs>>

\* validate and commit in one mutation.  Agents deleted meanwhile are no members.
CommitCreate(r) ==
    LET members == {a \in request[r].chosen : Alive(a)}
        name == request[r].name
    IN  /\ At(r, "create_channel", "locked") /\ RoomForChannel
        /\ ~Taken(name)
        /\ chan' = NewChannel(chan, NextChannel, name, "public", members)
        /\ agent' = Join(agent, members, name)
        /\ Release(r)
        /\ Goto(r, "done")
        /\ UNCHANGED <<run, draining, pending, asked, said, runs>>

\* The name is taken: 409; an agent is told in the channel of its run, or its DM.
CreateConflict(r) ==
    /\ At(r, "create_channel", "locked") /\ Taken(request[r].name)
    /\ Release(r)
    /\ Goto(r, IF request[r].by = None THEN "refused" ELSE "noticing")
    /\ UNCHANGED <<chan, people, asked, said, runs>>

\* recordDecision and announceConflict: in the run's channel, archived meanwhile or
\* not; in the DM when the run went with its agent.
AnnounceConflict(r) ==
    LET a == request[r].by
        c == IF Alive(a) THEN request[r].chan ELSE agent[a].dm
    IN  /\ At(r, "create_channel", "noticing")
        /\ said' = [said EXCEPT ![c] = @ + 1]
        /\ Goto(r, "refused")
        /\ UNCHANGED <<chan, people, asked, registry, runs>>

(***************************************************************************)
(* deleteChannel                                                           *)
(***************************************************************************)
AskDelete(r, c) ==
    /\ Open(c) /\ chan[c].kind = "public" /\ c # General
    /\ Ask(r, [NoRequest EXCEPT !.op = "delete_channel", !.at = "writing", !.chan = c])
    /\ UNCHANGED <<chan, people, asked, registry, said, runs>>

InUse(c) == c \in asked \/ \E a \in Agents : run[a] = c

Archive(r) ==
    LET c == request[r].chan
    IN  /\ At(r, "delete_channel", "writing")
        /\ Open(c) /\ ~InUse(c)
        /\ chan' = [chan EXCEPT ![c].state = "archived"]
        /\ request' = [request EXCEPT ![r].at = "clearing", ![r].left = chan[c].members]
        /\ UNCHANGED <<people, asked, registry, said, runs>>

\* Deleted meanwhile, 404; a run or an approval is pending, 409.
ArchiveRefused(r) ==
    LET c == request[r].chan
    IN  /\ At(r, "delete_channel", "writing")
        /\ ~Open(c) \/ InUse(c)
        /\ Goto(r, "refused")
        /\ UNCHANGED <<chan, people, asked, registry, said, runs>>

\* One turn of the loop: the member's instructions are written, then its deferred
\* wake is taken back.
ClearWake(r, a) ==
    /\ At(r, "delete_channel", "clearing") /\ a \in request[r].left
    /\ request' = [request EXCEPT ![r].left = @ \ {a},
                                  ![r].at = IF request[r].left = {a} THEN "done" ELSE @]
    /\ pending' = [pending EXCEPT ![a] = @ \ {request[r].chan}]
    /\ UNCHANGED <<chan, agent, run, draining, asked, registry, said, runs>>

NothingToClear(r) ==
    /\ At(r, "delete_channel", "clearing") /\ request[r].left = {}
    /\ Goto(r, "done")
    /\ UNCHANGED <<chan, people, asked, registry, said, runs>>

(***************************************************************************)
(* createAgent, updateAgent, deleteAgent                                   *)
(***************************************************************************)
Choosable == {c \in OpenChannels : chan[c].kind # "dm"}

\* resolveChannels, before the mutation.
AskAgent(r, op, a, chosen) ==
    /\ op = "create_agent" => agent[a].state = "none"
    /\ op = "update_agent" => agent[a].state = "ready"
    /\ op = "delete_agent" => Alive(a)
    /\ chosen \subseteq Choosable
    /\ Ask(r, [NoRequest EXCEPT !.op = op, !.at = "writing", !.agent = a, !.chosen = chosen])
    /\ UNCHANGED <<chan, people, asked, registry, said, runs>>

\* The DM is made whatever its name; the agent joins #general and what was chosen,
\* archived meanwhile or not.  What was chosen is added to what its policy allows;
\* #general is not.
CommitAgent(r) ==
    LET a == request[r].agent
        joined == {General} \cup request[r].chosen
    IN  /\ At(r, "create_agent", "writing") /\ RoomForChannel
        /\ agent[a].state = "none"
        /\ chan' = [c \in Channels |->
             IF c \in joined THEN [chan[c] EXCEPT !.members = @ \cup {a}]
             ELSE NewChannel(chan, NextChannel, DmName(a), "dm", {a})[c]]
        /\ \E given \in Policies :
              agent' = [agent EXCEPT ![a] =
                 [state |-> "ready", dm |-> NextChannel,
                  may |-> given \cup {chan[c].name : c \in request[r].chosen}]]
        /\ said' = [c \in Channels |-> IF c \in joined THEN said[c] + 1 ELSE said[c]]
        /\ Goto(r, "done")
        /\ UNCHANGED <<run, draining, pending, asked, registry, runs>>

\* The agent joins and leaves until it is in the chosen channels, #general apart.
\* Its policy, kept or replaced, comes to allow all it is in.
CommitUpdate(r) ==
    LET a == request[r].agent
        Wanted(c) == IF c = General \/ chan[c].kind # "public" THEN a \in chan[c].members
                     ELSE c \in request[r].chosen
        in == {c \in Channels : Wanted(c) /\ chan[c].kind = "public"}
    IN  /\ At(r, "update_agent", "writing")
        /\ agent[a].state = "ready"
        /\ chan' = [c \in Channels |->
             [chan[c] EXCEPT !.members = IF Wanted(c) THEN @ \cup {a} ELSE @ \ {a}]]
        /\ \E kept \in {agent[a].may} \cup Policies :
              agent' = [agent EXCEPT ![a].may = kept \cup {chan[c].name : c \in in}]
        /\ said' = [c \in Channels |-> IF c \in in /\ a \notin chan[c].members THEN said[c] + 1 ELSE said[c]]
        /\ Goto(r, "done")
        /\ UNCHANGED <<run, draining, pending, asked, registry, runs>>

\* Busy, 409, or deleted, 404.
UpdateRefused(r) ==
    /\ At(r, "update_agent", "writing")
    /\ agent[request[r].agent].state # "ready"
    /\ Goto(r, "refused")
    /\ UNCHANGED <<chan, people, asked, registry, said, runs>>

\* cancelExecution: the deferred wakes go, the run is killed and awaited.
CancelAgent(r) ==
    /\ At(r, "delete_agent", "writing")
    /\ pending' = [pending EXCEPT ![request[r].agent] = {}]
    /\ Goto(r, "awaiting")
    /\ UNCHANGED <<chan, agent, run, draining, asked, registry, said, runs>>

AgentIsQuiet(r) ==
    /\ At(r, "delete_agent", "awaiting")
    /\ run[request[r].agent] = None /\ request[r].agent \notin draining
    /\ Goto(r, "removing")
    /\ UNCHANGED <<chan, people, asked, registry, said, runs>>

\* The agent and its runs are removed, and its DM archived, whatever was deferred or
\* started since.
RemoveAgent(r) ==
    LET a == request[r].agent
    IN  /\ At(r, "delete_agent", "removing")
        /\ agent' = [agent EXCEPT ![a].state = "gone"]
        /\ run' = [run EXCEPT ![a] = None]
        /\ chan' = [c \in Channels |->
             [chan[c] EXCEPT !.members = @ \ {a}, !.state = IF c = agent[a].dm THEN "archived" ELSE @]]
        /\ Goto(r, "done")
        /\ UNCHANGED <<draining, pending, asked, registry, said, runs>>

(***************************************************************************)
(* What goes on in a channel                                               *)
(***************************************************************************)
\* decide: the channel an agent names is open, it is a member, its policy allows it.
MayUse(a, c) ==
    /\ c = ByName(chan[c].name)
    /\ a \in chan[c].members /\ (chan[c].kind = "dm" \/ chan[c].name \in agent[a].may)

\* Mutant: whether the channel was deleted is not asked.
AskHumanPostAny(r, c) ==
    /\ chan[c].state # "none"
    /\ Ask(r, [NoRequest EXCEPT !.op = "human_post", !.at = "locking", !.chan = c])
    /\ UNCHANGED <<chan, people, asked, registry, said, runs>>

\* postUserMessage tests the channel and waits for its lock.
AskHumanPost(r, c) ==
    /\ Open(c)
    /\ Ask(r, [NoRequest EXCEPT !.op = "human_post", !.at = "locking", !.chan = c])
    /\ UNCHANGED <<chan, people, asked, registry, said, runs>>

\* An agent posts to a channel by name, or its run replies where it is.
AskPost(r, a, c) ==
    /\ run[a] # None
    /\ run[a] = c \/ MayUse(a, c)
    /\ Ask(r, [NoRequest EXCEPT !.op = "post", !.at = "locking", !.by = a, !.chan = c])
    /\ UNCHANGED <<chan, people, asked, registry, said, runs>>

\* The members a message addresses, if their policy lets them read the channel.
Addressable(c, by) ==
    {a \in chan[c].members \ {by} : Alive(a) /\ (chan[c].kind = "dm" \/ chan[c].name \in agent[a].may)}

\* The lock is granted, the message appended, and wakeMembers begins.
AppendPost(r) ==
    LET c == request[r].chan
    IN  /\ At(r, "human_post", "locking") \/ At(r, "post", "locking")
        /\ said' = [said EXCEPT ![c] = @ + 1]
        /\ \E addressed \in SUBSET Addressable(c, request[r].by) :
              request' = [request EXCEPT ![r].left = addressed,
                                         ![r].at = IF addressed = {} THEN "done" ELSE "waking"]
        /\ UNCHANGED <<chan, people, asked, registry, runs>>

\* The lock times out, or the post is stale.
PostRefused(r) ==
    /\ At(r, "human_post", "locking") \/ At(r, "post", "locking")
    /\ Goto(r, "refused")
    /\ UNCHANGED <<chan, people, asked, registry, said, runs>>

Woken(r, a) == request' = [request EXCEPT ![r].left = @ \ {a},
                                          ![r].at = IF request[r].left = {a} THEN "done" ELSE @]
Start(a, c) ==
    /\ runs < MaxRuns
    /\ run' = [run EXCEPT ![a] = c]
    /\ agent' = [agent EXCEPT ![a].state = "busy"]
    /\ runs' = runs + 1

\* queueTurn for the next member: deferred while the agent is busy or its last
\* execution has not ended.
DeferTurn(r, a) ==
    /\ request[r].at = "waking" /\ a \in request[r].left
    /\ agent[a].state = "busy" \/ a \in draining
    /\ pending' = [pending EXCEPT ![a] = @ \cup {request[r].chan}]
    /\ Woken(r, a)
    /\ UNCHANGED <<chan, agent, run, draining, asked, registry, said, runs>>

StartTurn(r, a) ==
    /\ request[r].at = "waking" /\ a \in request[r].left
    /\ agent[a].state = "ready" /\ a \notin draining
    /\ Start(a, request[r].chan)
    /\ Woken(r, a)
    /\ UNCHANGED <<chan, draining, pending, asked, registry, said>>

\* The agent has seen everything, or (404, which ends the loop) is gone.
NoTurn(r, a) ==
    /\ request[r].at = "waking" /\ a \in request[r].left
    /\ \/ agent[a].state = "ready" /\ a \notin draining /\ Woken(r, a)
       \/ agent[a].state = "gone" /\ Goto(r, "failed")
    /\ UNCHANGED <<chan, people, asked, registry, said, runs>>

\* The run ends; its execution goes on to the deferred wakes.
EndRun(a) ==
    /\ run[a] # None
    /\ run' = [run EXCEPT ![a] = None]
    /\ agent' = [agent EXCEPT ![a].state = "ready"]
    /\ draining' = draining \cup {a}
    /\ UNCHANGED <<chan, pending, asked, registry, said, request, runs>>

\* drainPendingWakes: the channel is not looked at.
DrainStarts(a) ==
    /\ a \in draining /\ agent[a].state = "ready"
    /\ \E c \in pending[a] :
          /\ pending' = [pending EXCEPT ![a] = @ \ {c}]
          /\ Start(a, c)
    /\ draining' = draining \ {a}
    /\ UNCHANGED <<chan, asked, registry, said, request>>

\* Nothing left, or nothing new in the oldest one, or the agent is not ready.
DrainEnds(a) ==
    /\ a \in draining
    /\ \/ pending[a] = {} /\ draining' = draining \ {a} /\ UNCHANGED pending
       \/ \E c \in pending[a] :
             /\ pending' = [pending EXCEPT ![a] = @ \ {c}]
             /\ draining' = IF agent[a].state = "ready" THEN draining ELSE draining \ {a}
    /\ UNCHANGED <<chan, agent, run, asked, registry, said, request, runs>>

RequestApproval(a) ==
    /\ run[a] # None
    /\ asked' = asked \cup {run[a]}
    /\ UNCHANGED <<chan, people, registry, said, request, runs>>

ResolveApproval(c) ==
    /\ c \in asked
    /\ asked' = asked \ {c}
    /\ UNCHANGED <<chan, people, registry, said, request, runs>>

Next ==
    \/ \E r \in Requests, by \in Agents \cup {None}, name \in Names, members \in SUBSET Agents :
          AskCreateChannel(r, by, name, members)
    \/ \E r \in Requests, c \in Channels : AskDelete(r, c)
    \/ \E r \in Requests, c \in Channels : AskHumanPost(r, c)
    \/ \E r \in Requests, a \in Agents, chosen \in SUBSET Choosable : AskAgent(r, "create_agent", a, chosen)
    \/ \E r \in Requests, a \in Agents, chosen \in SUBSET Choosable : AskAgent(r, "update_agent", a, chosen)
    \/ \E r \in Requests, a \in Agents : AskAgent(r, "delete_agent", a, {})
    \/ \E r \in Requests, a \in Agents, c \in Channels : AskPost(r, a, c)
    \/ \E r \in Requests : LockRegistry(r)
    \/ \E r \in Requests : RegistryBusy(r)
    \/ LeaseExpires
    \/ \E r \in Requests : CommitCreate(r)
    \/ \E r \in Requests : CreateConflict(r)
    \/ \E r \in Requests : AnnounceConflict(r)
    \/ \E r \in Requests : Archive(r)
    \/ \E r \in Requests : ArchiveRefused(r)
    \/ \E r \in Requests, a \in Agents : ClearWake(r, a)
    \/ \E r \in Requests : NothingToClear(r)
    \/ \E r \in Requests : CommitAgent(r)
    \/ \E r \in Requests : CommitUpdate(r)
    \/ \E r \in Requests : UpdateRefused(r)
    \/ \E r \in Requests : CancelAgent(r)
    \/ \E r \in Requests : AgentIsQuiet(r)
    \/ \E r \in Requests : RemoveAgent(r)
    \/ \E r \in Requests : AppendPost(r)
    \/ \E r \in Requests : PostRefused(r)
    \/ \E r \in Requests, a \in Agents : DeferTurn(r, a)
    \/ \E r \in Requests, a \in Agents : StartTurn(r, a)
    \/ \E r \in Requests, a \in Agents : NoTurn(r, a)
    \/ \E a \in Agents : EndRun(a)
    \/ \E a \in Agents : DrainStarts(a)
    \/ \E a \in Agents : DrainEnds(a)
    \/ \E a \in Agents : RequestApproval(a)
    \/ \E c \in Channels : ResolveApproval(c)

Spec == Init /\ [][Next]_vars
-----------------------------------------------------------------------------
\* The variables hold values of their types; who runs exists and is busy, and a DM
\* is its agent's.
TypeOK ==
    /\ \A c \in Channels : chan[c].state \in {"none", "open", "archived"} /\ chan[c].members \subseteq Agents
    /\ \A a \in Agents :
          /\ agent[a].state \in {"none", "ready", "busy", "gone"}
          /\ Alive(a) => Open(agent[a].dm) /\ chan[agent[a].dm].members = {a}
          /\ run[a] \in Channels \cup {None} /\ (run[a] # None <=> agent[a].state = "busy")
          /\ pending[a] \subseteq Channels
    /\ draining \subseteq Agents /\ asked \subseteq Channels
    /\ registry \in Requests \cup {None}
    /\ runs \in 0 .. MaxRuns

\* No two open channels have one name, whoever creates them at the same time and
\* though the lock of the registry may expire: names are how agents address channels
\* and how policies allow them.
NamesUnique == \A c, d \in OpenChannels : chan[c].name = chan[d].name => c = d

\* Nobody who was deleted is a member of an open channel, though members are chosen
\* before the lock and the mutation that adds them.
MembersExist == \A c \in OpenChannels : chan[c].members \subseteq {a \in Agents : Alive(a)}

\* A member of an open public channel is allowed there by its policy, however it came
\* to be one and whatever policy it was given since; otherwise it would never be woken.
\* #general is the exception: whoever is created is a member of it.
MembersMayPost ==
    \A c \in OpenChannels \ {General} : chan[c].kind = "public" =>
        \A a \in chan[c].members : chan[c].name \in agent[a].may

\* #general is for everyone: "Mention an agent with @name to wake it".
\* Does not hold: see "Known divergences" in the README.
GeneralMayPost == \A a \in chan[General].members : GeneralName \in agent[a].may

\* What may still happen in a channel: a call that is about it and is under way, a run,
\* a deferred wake, an approval.
UnderWay(r, c) ==
    /\ request[r].at \notin {"idle", "done", "refused", "failed"}
    /\ request[r].chan = c \/ (request[r].op \in {"create_agent", "update_agent"} /\ c \in request[r].chosen)
AtRest(c) ==
    /\ chan[c].state = "archived" /\ chan[c].kind = "public" /\ c \notin asked
    /\ \A a \in Agents : run[a] # c /\ c \notin pending[a]
    /\ \A r \in Requests : ~UnderWay(r, c)

\* Posts, joins and wakes that were under way when a channel was deleted may still come
\* late.  But once they are through nothing begins there again: nobody is woken, posts or
\* joins, though its members remain, their policies allow the name, and another channel
\* may have it by now.
DeletedRests == [][\A c \in Channels : AtRest(c) => AtRest(c)' /\ said'[c] = said[c]]_vars

\* "late write": nothing is posted to a channel that was deleted.
\* Does not hold: see "Known divergences" in the README.
LateWriteRefused ==
    [][\A c \in Channels : chan[c].state = "archived" => said'[c] = said[c]]_vars
=============================================================================
