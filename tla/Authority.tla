----------------------------- MODULE Authority -----------------------------
(***************************************************************************)
(* Who may do what, and how that changes while agents run                  *)
(* (apps/server/src/agent-service.ts): the decision on a tool call, the    *)
(* requests for a capability or a new principal and the clicks that        *)
(* resolve them, grants for one run, sessions spawned with a derived       *)
(* policy, and the cascade that closes them.                               *)
(*                                                                         *)
(* The decision on a tool call goes on record before the call takes        *)
(* effect.  Spawning and asking for a capability use what was read before  *)
(* that, so these calls have two steps; of the others the code checks      *)
(* nothing again and they have one.  A click has two or three steps.  Of   *)
(* the scheduler only the beginning and the end of runs are left.          *)
(***************************************************************************)
EXTENDS Policy, Naturals, Sequences, FiniteSets

CONSTANTS
    Founders,       \* the agents in the database at the start
    Lineage,        \* Lineage[a]: the parent of one of them
    Spares,         \* identities for sessions and principals to come
    NoAgent,        \* the parent of a principal
    Approvals,      \* identities of approval requests
    Clicks,         \* the human's requests; they bound what the human does
    Authored,       \* the policies the human gives to principals
    Capabilities,   \* what agents ask for: records of an action and a resource
    Delegations,    \* what sessions are spawned with: records of actions, channels
    MaxDepth,       \* MAX_SESSION_DEPTH
    MaxRuns,        \* bound: runs ever started
    MayRestart      \* whether the server may restart

Agents == Founders \cup Spares
Runs == 1..MaxRuns

ASSUME AuthorityAssumption ==
    /\ Founders \cap Spares = {}
    /\ NoAgent \notin Agents
    /\ Lineage \in [Founders -> Founders \cup {NoAgent}]
    /\ {"capability:request", "principal:request", "agent:spawn", "agent:close"} \subseteq Actions
    /\ Authored \subseteq Policies
    /\ Capabilities \subseteq [action : Actions, resource : Resources]
    /\ Delegations \subseteq [actions : SUBSET Actions, channels : SUBSET (Resources \ {Star})]
    /\ MaxDepth \in Nat
    /\ MaxRuns \in Nat
    /\ MayRestart \in BOOLEAN

VARIABLES
    status,      \* status[a]: Agent.status, "unborn" before and "gone" after
    parent,      \* parent[a]: Agent.parentAgentId
    policy,      \* policy[a]: Agent.policy
    turn,        \* turn[a]: the run whose execution is in progress, or 0
    running,     \* the agents whose process may call tools
    runs,        \* how many runs were started
    call,        \* call[a]: a's tool call, between authorisation and effect
    approval,    \* approval[i]: the stored request
    grants,      \* database.grants
    click,       \* click[k]: how far the human's request k is
    closing      \* the frames of closeSession and deleteAgent, innermost first

agentVars == <<status, parent, policy>>
runVars == <<turn, running, runs>>
vars == <<agentVars, runVars, call, approval, grants, click, closing>>

Statuses == {"unborn", "ready", "busy", "closed", "gone"}
Tools == {"request_capability", "spawn_agent"}
Decisions == {"deny", "once", "forever"}

NoCall == [tool |-> "none"]
ToolCalls == [tool : Tools, policy : Policies]

NoApproval == [status |-> "none"]
CapabilityRequests ==
    [kind : {"capability"}, status : {"pending", "approved", "denied"}, agent : Agents,
     cap : Capabilities, resolution : {"none", "once", "forever"}]
PrincipalRequests ==
    [kind : {"create_principal"}, status : {"pending", "approved", "denied"},
     agent : Agents, draft : Authored]

\* A grant is told from others by the click that made it.
Grants == [agent : Agents, cap : Capabilities, click : Clicks, run : Runs \cup {0}]

NoClick == [phase |-> "idle"]
Spent == [phase |-> "spent"]    \* a request to delete or edit an agent was made
Handled ==
    [phase : {"granting", "claiming", "creating", "created", "answered"},
     approval : Approvals, decision : Decisions]

\* One call of closeSession or deleteAgent: the children it found, those it has
\* not closed yet, and the execution it awaits.
Frames ==
    [agent : Agents, how : {"closed", "gone"}, kids : SUBSET Agents, left : SUBSET Agents,
     phase : {"kids", "cancelled"}, run : Runs \cup {0}]

TypeOK ==
    /\ status \in [Agents -> Statuses]
    /\ parent \in [Agents -> Agents \cup {NoAgent}]
    /\ policy \in [Agents -> Policies]
    /\ turn \in [Agents -> Runs \cup {0}]
    /\ running \subseteq Agents
    /\ runs \in 0..MaxRuns
    /\ call \in [Agents -> {NoCall} \cup ToolCalls]
    /\ approval \in [Approvals -> {NoApproval} \cup CapabilityRequests \cup PrincipalRequests]
    /\ grants \subseteq Grants
    /\ click \in [Clicks -> {NoClick, Spent} \cup Handled]
    /\ closing \in Seq(Frames)

NoPolicy == [statements |-> {}, delegable |-> {}]

Init ==
    /\ status = [a \in Agents |-> IF a \in Founders THEN "ready" ELSE "unborn"]
    /\ parent = [a \in Agents |-> IF a \in Founders THEN Lineage[a] ELSE NoAgent]
    /\ \E authored \in [Founders -> Authored] :
          policy = [a \in Agents |-> IF a \in Founders THEN authored[a] ELSE NoPolicy]
    /\ turn = [a \in Agents |-> 0]
    /\ running = {}
    /\ runs = 0
    /\ call = [a \in Agents |-> NoCall]
    /\ approval = [i \in Approvals |-> NoApproval]
    /\ grants = {}
    /\ click = [k \in Clicks |-> NoClick]
    /\ closing = <<>>

-----------------------------------------------------------------------------

(***************************************************************************)
(* Decisions.  Channel membership, which decide() checks first for actions *)
(* on one channel, is not modelled.                                        *)
(***************************************************************************)

\* decide: a grant of the current run, else the policy.
Decide(a, action, resource) ==
    IF status[a] = "closed" THEN "deny"
    ELSE IF \E g \in grants : /\ g.agent = a
                              /\ turn[a] # 0
                              /\ g.run = turn[a]
                              /\ Match(g.cap.action, action)
                              /\ Match(g.cap.resource, resource)
    THEN "allow"
    ELSE Evaluate(policy[a], action, resource)

(***************************************************************************)
(* Runs.                                                                   *)
(***************************************************************************)

\* The agent's grants that wait for a run are bound to r.
Bind(a, r) == {IF g.agent = a /\ g.run = 0 THEN [g EXCEPT !.run = r] ELSE g : g \in grants}

\* startRun's mutation.
StartRun(a) ==
    /\ status[a] = "ready"
    /\ turn[a] = 0
    /\ runs < MaxRuns
    /\ runs' = runs + 1
    /\ status' = [status EXCEPT ![a] = "busy"]
    /\ turn' = [turn EXCEPT ![a] = runs + 1]
    /\ running' = running \cup {a}
    /\ grants' = Bind(a, runs + 1)
    /\ UNCHANGED <<parent, policy, call, approval, click, closing>>

\* The run is over on record, its tokens are revoked.  Its tool calls may still
\* be on their way.
FinishRun(a) ==
    /\ a \in running
    /\ running' = running \ {a}
    /\ status' = [status EXCEPT ![a] = IF @ = "busy" THEN "ready" ELSE @]
    /\ UNCHANGED <<parent, policy, turn, runs, call, approval, grants, click, closing>>

\* The end of executeRun: the run's grants go.
EndRun(a) ==
    /\ turn[a] # 0
    /\ a \notin running
    /\ turn' = [turn EXCEPT ![a] = 0]
    /\ grants' = {g \in grants : g.run # turn[a]}
    /\ UNCHANGED <<agentVars, running, runs, call, approval, click, closing>>

(***************************************************************************)
(* Tool calls.                                                             *)
(***************************************************************************)

ActionOf(tool) == IF tool = "spawn_agent" THEN "agent:spawn" ELSE "capability:request"

\* authorize.  (An agent's identity is a resource only "*" covers.)
Authorized(a, action) ==
    /\ a \in running
    /\ status[a] # "gone"
    /\ call[a] = NoCall
    /\ Decide(a, action, Star) = "allow"

\* The agent is read and the call authorised; the rest of it rests on that copy.
Authorize(a, tool) ==
    /\ Authorized(a, ActionOf(tool))
    /\ call' = [call EXCEPT ![a] = [tool |-> tool, policy |-> policy[a]]]
    /\ UNCHANGED <<agentVars, runVars, approval, grants, click, closing>>

Calling(a, tool) == call[a].tool = tool

\* The call is refused after all: its last check fails or the server gives up.
Refuse(a) ==
    /\ call[a] # NoCall
    /\ call' = [call EXCEPT ![a] = NoCall]
    /\ UNCHANGED <<agentVars, runVars, approval, grants, click, closing>>

\* agentRequestCapability: a card is posted, unless the policy has it.
RequestCapability(a, i, cap) ==
    /\ Calling(a, "request_capability")
    /\ Evaluate(call[a].policy, cap.action, cap.resource) # "allow"
    /\ approval[i] = NoApproval
    /\ approval' = [approval EXCEPT ![i] =
          [kind |-> "capability", status |-> "pending", agent |-> a,
           cap |-> cap, resolution |-> "none"]]
    /\ call' = [call EXCEPT ![a] = NoCall]
    /\ UNCHANGED <<agentVars, runVars, grants, click, closing>>

\* agentRequestPrincipal.
RequestPrincipal(a, i, draft) ==
    /\ Authorized(a, "principal:request")
    /\ approval[i] = NoApproval
    /\ approval' = [approval EXCEPT ![i] =
          [kind |-> "create_principal", status |-> "pending", agent |-> a, draft |-> draft]]
    /\ UNCHANGED <<agentVars, runVars, call, grants, click, closing>>

\* The agents above a, one level up after the other; a deleted one ends the walk.
Above(a) ==
    LET up[n \in Nat] ==
            IF n = 0 THEN a
            ELSE IF up[n - 1] = NoAgent \/ (n > 1 /\ status[up[n - 1]] = "gone") THEN NoAgent
            ELSE parent[up[n - 1]]
    IN  {up[n] : n \in 1..Cardinality(Agents)} \ {NoAgent}

\* agentSpawn: the session is stored with what the copy of its parent may pass
\* on, whatever has become of the parent since.
Spawn(a, s, d) ==
    /\ Calling(a, "spawn_agent")
    /\ Cardinality(Above(a)) < MaxDepth
    /\ MayDerive(call[a].policy, d.actions, d.channels)
    /\ status[s] = "unborn"
    /\ status' = [status EXCEPT ![s] = "ready"]
    /\ parent' = [parent EXCEPT ![s] = a]
    /\ policy' = [policy EXCEPT ![s] = DerivedPolicy(call[a].policy, d.actions, d.channels)]
    /\ call' = [call EXCEPT ![a] = NoCall]
    /\ UNCHANGED <<runVars, approval, grants, click, closing>>

(***************************************************************************)
(* The human's clicks.                                                     *)
(***************************************************************************)

\* resolveApproval up to its first await.
Click(k, i, decision) ==
    /\ click[k] = NoClick
    /\ approval[i].status = "pending"
    /\ click' = [click EXCEPT ![k] =
          [phase |-> IF approval[i].kind = "capability" THEN "granting" ELSE "claiming",
           approval |-> i, decision |-> decision]]
    /\ UNCHANGED <<agentVars, runVars, call, approval, grants, closing>>

Answered(k) == click' = [click EXCEPT ![k].phase = "answered"]

Verdict(decision) == IF decision = "deny" THEN "denied" ELSE "approved"

\* Mutant: the run in progress gets the grant.
GrantOnceAtOnce(k, a, cap) ==
    grants' = grants \cup {[agent |-> a, cap |-> cap, click |-> k, run |-> turn[a]]}

\* "Allow once": a grant that waits for the agent's next run.
GrantOnce(k, a, cap) ==
    grants' = grants \cup {[agent |-> a, cap |-> cap, click |-> k, run |-> 0]}

\* resolveCapability's mutation.  An agent deleted since gets nothing.
CommitCapability(k) ==
    /\ click[k].phase = "granting"
    /\ LET i == click[k].approval
           decision == click[k].decision
           a == approval[i].agent
           cap == approval[i].cap
           exists == status[a] # "gone"
       IN  /\ approval' = [approval EXCEPT
                 ![i].status = Verdict(decision),
                 ![i].resolution = IF decision = "deny" THEN "none" ELSE decision]
           /\ policy' = IF decision = "forever" /\ exists
                        THEN [policy EXCEPT ![a] = GrantOverride(@, cap.action, cap.resource)]
                        ELSE policy
           /\ IF decision = "once" /\ exists
              THEN GrantOnce(k, a, cap)
              ELSE UNCHANGED grants
           /\ Answered(k)
    /\ UNCHANGED <<status, parent, runVars, call, closing>>

\* Mutant: the claim does not look at the status again.
Unclaimed(i) == TRUE

\* The validation of the synced claim.
Pending(i) == approval[i].status = "pending"

\* The synced claim of a principal request: only one click finds it pending.
ClaimPrincipal(k) ==
    /\ click[k].phase = "claiming"
    /\ LET i == click[k].approval IN
           IF Pending(i)
           THEN /\ approval' = [approval EXCEPT ![i].status = Verdict(click[k].decision)]
                /\ click' = [click EXCEPT ![k].phase =
                      IF click[k].decision = "deny" THEN "answered" ELSE "creating"]
           ELSE /\ Answered(k)
                /\ UNCHANGED approval
    /\ UNCHANGED <<agentVars, runVars, call, grants, closing>>

\* The claim's lock is held by another click for too long: 409.
ClaimBusy(k) ==
    /\ click[k].phase = "claiming"
    /\ \E other \in Clicks \ {k} : /\ click[other] \notin {NoClick, Spent}
                                   /\ click[other].approval = click[k].approval
    /\ Answered(k)
    /\ UNCHANGED <<agentVars, runVars, call, approval, grants, closing>>

\* createAgent for the click that won the claim.
CreatePrincipal(k, s) ==
    /\ click[k].phase = "creating"
    /\ status[s] = "unborn"
    /\ status' = [status EXCEPT ![s] = "ready"]
    /\ policy' = [policy EXCEPT ![s] = approval[click[k].approval].draft]
    /\ click' = [click EXCEPT ![k].phase = "created"]
    /\ UNCHANGED <<parent, runVars, call, approval, grants, closing>>

\* createAgent throws (a channel is gone, the workspace cannot be made): the
\* approval stays approved.
CreateFails(k) ==
    /\ click[k].phase = "creating"
    /\ Answered(k)
    /\ UNCHANGED <<agentVars, runVars, call, approval, grants, closing>>

\* updateAgent with a policy.
UpdatePolicy(k, a, authored) ==
    /\ click[k] = NoClick
    /\ click' = [click EXCEPT ![k] = Spent]
    /\ status[a] \notin {"unborn", "gone", "busy"}
    /\ policy' = [policy EXCEPT ![a] = authored]
    /\ UNCHANGED <<status, parent, runVars, call, approval, grants, closing>>

(***************************************************************************)
(* closeSession and deleteAgent.  One cascade at a time.                   *)
(***************************************************************************)

ChildrenOf(a) == {c \in Agents : parent[c] = a /\ status[c] \notin {"unborn", "gone"}}

\* The call begins: it takes down its children before it closes the first.
Frame(a, how) ==
    [agent |-> a, how |-> how, kids |-> ChildrenOf(a), left |-> ChildrenOf(a),
     phase |-> "kids", run |-> 0]

\* deleteAgent.
Delete(k, a) ==
    /\ click[k] = NoClick
    /\ click' = [click EXCEPT ![k] = Spent]
    /\ closing = <<>>
    /\ status[a] \notin {"unborn", "gone"}
    /\ closing' = <<Frame(a, "gone")>>
    /\ UNCHANGED <<agentVars, runVars, call, approval, grants>>

\* agentClose: only sessions below the agent.
CloseAgent(a, s) ==
    /\ closing = <<>>
    /\ Authorized(a, "agent:close")
    /\ status[s] \notin {"unborn", "gone"}
    /\ a \in Above(s)
    /\ closing' = <<Frame(s, "closed")>>
    /\ UNCHANGED <<agentVars, runVars, call, approval, grants, click>>

Top == Head(closing)

\* Mutant: children without a run are passed over.
DescendIfRunning ==
    /\ closing # <<>>
    /\ Top.phase = "kids"
    /\ \E c \in Top.left :
          closing' = (IF turn[c] # 0 THEN <<Frame(c, "closed")>> ELSE <<>>)
                        \o <<[Top EXCEPT !.left = @ \ {c}]>> \o Tail(closing)
    /\ UNCHANGED <<agentVars, runVars, call, approval, grants, click>>

\* closeSession is called for the next child.
Descend ==
    /\ closing # <<>>
    /\ Top.phase = "kids"
    /\ \E c \in Top.left :
          closing' = <<Frame(c, "closed"), [Top EXCEPT !.left = @ \ {c}]>> \o Tail(closing)
    /\ UNCHANGED <<agentVars, runVars, call, approval, grants, click>>

\* cancelExecution: what runs is cancelled and awaited.
Cancel ==
    /\ closing # <<>>
    /\ Top.phase = "kids"
    /\ Top.left = {}
    /\ closing' = <<[Top EXCEPT !.phase = "cancelled", !.run = turn[Top.agent]]>> \o Tail(closing)
    /\ UNCHANGED <<agentVars, runVars, call, approval, grants, click>>

\* The execution is over and the status changes.
CommitClose ==
    /\ closing # <<>>
    /\ Top.phase = "cancelled"
    /\ Top.run = 0 \/ turn[Top.agent] # Top.run
    /\ status' = [status EXCEPT ![Top.agent] = Top.how]
    /\ closing' = Tail(closing)
    /\ UNCHANGED <<parent, policy, runVars, call, approval, grants, click>>

(***************************************************************************)
(* The server restarts: what was in progress is lost.                      *)
(***************************************************************************)

\* initialize: "One-run grants never survive a restart".
GrantsUnbound == {g \in grants : g.run = 0}

Restart ==
    /\ MayRestart
    /\ status' = [a \in Agents |-> IF status[a] = "busy" THEN "ready" ELSE status[a]]
    /\ turn' = [a \in Agents |-> 0]
    /\ running' = {}
    /\ call' = [a \in Agents |-> NoCall]
    /\ grants' = GrantsUnbound
    /\ click' = [k \in Clicks |-> IF click[k] \in {NoClick, Spent} THEN click[k]
                                  ELSE [click[k] EXCEPT !.phase =
                                          IF @ = "created" THEN @ ELSE "answered"]]
    /\ closing' = <<>>
    /\ UNCHANGED <<parent, policy, runs, approval>>

-----------------------------------------------------------------------------

RunStep(a) == StartRun(a) \/ FinishRun(a) \/ EndRun(a)

ToolStep(a) ==
    \/ \E tool \in Tools : Authorize(a, tool)
    \/ Refuse(a)
    \/ \E i \in Approvals, cap \in Capabilities : RequestCapability(a, i, cap)
    \/ \E i \in Approvals, draft \in Authored : RequestPrincipal(a, i, draft)
    \/ \E s \in Spares, d \in Delegations : Spawn(a, s, d)
    \/ \E s \in Spares : CloseAgent(a, s)

ClickStep(k) ==
    \/ \E i \in Approvals, decision \in Decisions : Click(k, i, decision)
    \/ CommitCapability(k)
    \/ ClaimPrincipal(k)
    \/ ClaimBusy(k)
    \/ \E s \in Spares : CreatePrincipal(k, s)
    \/ CreateFails(k)
    \/ \E a \in Agents, authored \in Authored : UpdatePolicy(k, a, authored)
    \/ \E a \in Agents : Delete(k, a)

Next ==
    \/ \E a \in Agents : RunStep(a)
    \/ \E a \in Agents : ToolStep(a)
    \/ \E k \in Clicks : ClickStep(k)
    \/ Descend
    \/ Cancel
    \/ CommitClose
    \/ Restart

Spec == Init /\ [][Next]_vars

-----------------------------------------------------------------------------

(***************************************************************************)
(* Properties.                                                             *)
(***************************************************************************)

\* A grant for one run is never in force beyond it: once bound, its run is the
\* execution in progress of the agent that holds it, through cancellations,
\* restarts and the agent's next runs.
GrantEndsWithRun == \A g \in grants : g.run # 0 => turn[g.agent] = g.run

ServesOneRun ==
    /\ \A h \in grants' : (\A g \in grants : g.click # h.click) => h.run = 0
    /\ \A g \in grants : g.run = 0 =>
          \/ g \in grants'
          \/ \E h \in grants' : /\ h = [g EXCEPT !.run = h.run]
                                /\ turn[g.agent] = 0
                                /\ turn'[g.agent] = h.run
    /\ \A g \in grants, h \in grants' :
          (g.click = h.click /\ g.run # 0) => h.run = g.run

\* "Allow once" serves exactly one run: the grant is no run's at first, waits for
\* the agent's next one, however long that takes, and never changes runs.
GrantServesOneRun == [][ServesOneRun]_vars

\* One request creates one principal, however many clicks approve it at once.
PrincipalOnce ==
    \A i \in Approvals :
        Cardinality({k \in Clicks : /\ click[k].phase \in {"creating", "created"}
                                    /\ click[k].approval = i}) <= 1

TakesEffect(k) ==
    LET a == approval[click[k].approval].agent
        cap == approval[click[k].approval].cap
    IN  (CommitCapability(k) /\ click[k].decision = "forever" /\ status[a] # "gone")
          => /\ Evaluate(policy'[a], cap.action, cap.resource) = "allow"
             /\ \A x \in Actions, r \in Resources :
                   Evaluate(policy[a], x, r) = "allow" => Evaluate(policy'[a], x, r) = "allow"

\* "Allow forever" takes effect at once whatever denies the policy has, and
\* takes nothing away.
ForeverTakesEffect == [][\A k \in Clicks : TakesEffect(k)]_vars

Spawned(s) == status[s] = "unborn" /\ parent'[s] # parent[s]

WithinDelegation(s) ==
    LET snapshot == call[parent'[s]].policy
    IN  /\ \A x \in Actions, r \in Resources :
              Evaluate(policy'[s], x, r) = "allow"
                  => Delegates(snapshot, x) /\ ~Denied(snapshot, x, r)
        /\ \A x \in Actions : Delegates(policy'[s], x) => Delegates(snapshot, x)

\* A session may do only what its parent could delegate when it asked, minus
\* what its parent was denied; and it may pass on no more than that.
SpawnDelegates == [][\A s \in Agents : Spawned(s) => WithinDelegation(s)]_vars

\* Sessions close before the one that spawned them: when closeSession marks an
\* agent, every child it had when the call began is closed.
ChildrenCloseFirst ==
    [][CommitClose => \A c \in Top.kids : status[c] = "closed"]_vars

\* "Concurrent clicks resolve exactly once" (README).
\* Does not hold: see "Known divergences" in the README.
ResolvedOnce ==
    [][\A i \in Approvals : approval[i].status \in {"approved", "denied"}
          => approval'[i] = approval[i]]_vars

\* "A session can therefore never exceed its parent" (docs/MULTI_AGENT_IAM.md).
\* Does not hold: see "Known divergences" in the README.
SessionWithinParent ==
    [][\A s \in Agents : Spawned(s) =>
          \A x \in Actions, r \in Resources \ {Star} :
              Evaluate(policy'[s], x, r) = "allow"
                  => Evaluate(call[parent'[s]].policy, x, r) = "allow"]_vars

\* A session "Closes with its parent" (README): none is left open below one that
\* was deleted or closed, not even one its parent was spawning meanwhile.
\* Does not hold: see "Known divergences" in the README.
ClosesWithParent ==
    \A s \in Agents :
        /\ status[s] \in {"ready", "busy"}
        /\ parent[s] # NoAgent
        => status[parent[s]] \notin {"closed", "gone"}
=============================================================================
