-------------------------- MODULE AuthorityProofs --------------------------
(***************************************************************************)
(* What the policy engine guarantees of every policy, request and name;    *)
(* then proofs about Authority for any sets of agents, requests, clicks    *)
(* and policies, and any number of runs.  A click that is past its first   *)
(* check knows what kind of request it handles: types rest on that.        *)
(***************************************************************************)
EXTENDS Authority, TLAPS, SequenceTheorems, FiniteSetTheorems

-----------------------------------------------------------------------------
(* Policies: their types. *)

LEMMA LiftedType ==
    ASSUME NEW s \in Statements, NEW action, NEW resource
    PROVE  Lifted(s, action, resource) \in Statements
  BY DEF Lifted, Statements

LEMMA GrantOverrideType ==
    ASSUME NEW given \in Policies, NEW action \in Actions, NEW resource \in Resources
    PROVE  GrantOverride(given, action, resource) \in Policies
<1>1. {Lifted(s, action, resource) : s \in given.statements} \subseteq Statements
  BY LiftedType DEF Policies
<1>2. Allow({action}, {resource}) \in Statements
  BY DEF Allow, Statements, Effects
<1> QED
  BY <1>1, <1>2 DEF GrantOverride, Policies, NonEmpty

LEMMA DerivedPolicyType ==
    ASSUME NEW delegator \in Policies, NEW actions \in SUBSET Actions,
           NEW channels \in SUBSET Resources
    PROVE  DerivedPolicy(delegator, actions, channels) \in Policies
<1>1. Allow(Plain(actions), {Star}) \in Statements
  BY PolicyAssumption DEF Allow, Plain, Statements, Effects
<1>2. Allow(ChannelActions, channels) \in Statements
  BY PolicyAssumption DEF Allow, Statements, Effects
<1> QED
  BY <1>1, <1>2 DEF DerivedPolicy, Policies, NonEmpty

-----------------------------------------------------------------------------
(* Policies: grantOverride. *)

\* What is lifted hits less, and never hits what was granted.
LEMMA LiftedHits ==
    ASSUME NEW s \in Statements, NEW action, NEW resource,
           s.effect = "deny"
    PROVE  /\ ~Hits(Lifted(s, action, resource), action, resource)
           /\ \A x, r : Hits(Lifted(s, action, resource), x, r) => Hits(s, x, r)
  BY DEF Lifted, Hits, MatchesSome, Statements

LEMMA LiftedEffect ==
    ASSUME NEW s \in Statements, NEW action, NEW resource
    PROVE  /\ Lifted(s, action, resource).effect = s.effect
           /\ s.effect # "deny" => Lifted(s, action, resource) = s
  BY DEF Lifted, Statements

\* After the human's "allow forever" the policy allows what was granted, whatever
\* its statements denied, and in whatever order they stood.
THEOREM GrantTakesEffect ==
    ASSUME NEW given \in Policies, NEW action \in Actions, NEW resource \in Resources
    PROVE  Evaluate(GrantOverride(given, action, resource), action, resource) = "allow"
<1> DEFINE after == GrantOverride(given, action, resource)
           new == Allow({action}, {resource})
<1>1. new \in after.statements /\ new.effect = "allow" /\ Hits(new, action, resource)
  BY DEF GrantOverride, Allow, Hits, MatchesSome, Match, Policies
<1>2. ASSUME NEW t \in after.statements, t.effect = "deny"
      PROVE  ~Hits(t, action, resource)
  <2>1. PICK s \in given.statements : t = Lifted(s, action, resource)
    BY <1>2 DEF GrantOverride, NonEmpty, Allow, Policies
  <2>2. s \in Statements /\ s.effect = "deny"
    BY <1>2, <2>1, LiftedEffect DEF Policies
  <2> QED
    BY <2>1, <2>2, LiftedHits
<1> QED
  BY <1>1, <1>2 DEF Evaluate, Granted, Denied

\* "Allow forever" takes nothing away: what the policy allowed, it still allows.
THEOREM GrantKeepsAllows ==
    ASSUME NEW given \in Policies, NEW action \in Actions, NEW resource \in Resources,
           NEW x \in Actions, NEW r \in Resources,
           Evaluate(given, x, r) = "allow"
    PROVE  Evaluate(GrantOverride(given, action, resource), x, r) = "allow"
<1> DEFINE after == GrantOverride(given, action, resource)
<1>1. ~Denied(given, x, r) /\ Granted(given, x, r)
  BY DEF Evaluate
<1>2. PICK s \in given.statements : s.effect = "allow" /\ Hits(s, x, r)
  BY <1>1 DEF Granted
<1>3. s \in after.statements
  <2>1. s \in Statements /\ Lifted(s, action, resource) = s
    BY <1>2, LiftedEffect DEF Policies
  <2>2. s.actions # {} /\ s.resources # {}
    BY <1>2 DEF Hits, MatchesSome
  <2> QED
    BY <2>1, <2>2 DEF GrantOverride, NonEmpty, Policies
<1>4. ASSUME NEW t \in after.statements, t.effect = "deny", Hits(t, x, r)
      PROVE  FALSE
  <2>1. PICK u \in given.statements : t = Lifted(u, action, resource)
    BY <1>4 DEF GrantOverride, NonEmpty, Allow, Policies
  <2>2. u \in Statements /\ u.effect = "deny"
    BY <1>4, <2>1, LiftedEffect DEF Policies
  <2>3. Hits(u, x, r)
    BY <1>4, <2>1, <2>2, LiftedHits
  <2> QED
    BY <1>1, <2>2, <2>3 DEF Denied
<1> QED
  BY <1>2, <1>3, <1>4 DEF Evaluate, Granted, Denied

-----------------------------------------------------------------------------
(* Policies: deriveSessionPolicy. *)

\* What a derived policy allows matches an action that was requested, or is an
\* action on channels, and the parent may delegate it.
LEMMA DerivedIsDelegated ==
    ASSUME NEW delegator \in Policies, NEW actions \in SUBSET Actions,
           NEW channels \in SUBSET Resources,
           MayDerive(delegator, actions, channels),
           NEW x \in Actions, NEW r \in Resources,
           Granted(DerivedPolicy(delegator, actions, channels), x, r)
    PROVE  Delegates(delegator, x)
<1>1. PICK s \in DerivedPolicy(delegator, actions, channels).statements :
          s.effect = "allow" /\ Hits(s, x, r)
  BY DEF Granted
<1>2. \/ s = Allow(Plain(actions), {Star})
      \/ s = Allow(ChannelActions, channels) /\ channels # {}
  BY <1>1 DEF DerivedPolicy, NonEmpty, Allow
<1>3. PICK p \in s.actions : Match(p, x)
  BY <1>1 DEF Hits, MatchesSome
<1>4. p \in Actions /\ Delegates(delegator, p)
  BY <1>2, <1>3, PolicyAssumption DEF Allow, Plain, MayDerive
<1>5. PICK d \in delegator.delegable : Match(d, p)
  BY <1>4 DEF Delegates, MatchesSome
<1> QED
  BY <1>3, <1>4, <1>5, MatchTransitive DEF Delegates, MatchesSome, Policies

\* A session never gets an action its parent could not delegate, nor anything
\* its parent is explicitly denied.  (That its parent is allowed it does not
\* follow, and does not hold.)
THEOREM SessionStaysWithinDelegation ==
    ASSUME NEW delegator \in Policies, NEW actions \in SUBSET Actions,
           NEW channels \in SUBSET Resources,
           MayDerive(delegator, actions, channels),
           NEW x \in Actions, NEW r \in Resources,
           Evaluate(DerivedPolicy(delegator, actions, channels), x, r) = "allow"
    PROVE  Delegates(delegator, x) /\ ~Denied(delegator, x, r)
<1> DEFINE derived == DerivedPolicy(delegator, actions, channels)
<1>1. Granted(derived, x, r) /\ ~Denied(derived, x, r)
  BY DEF Evaluate
<1>2. {s \in delegator.statements : s.effect = "deny"} \subseteq derived.statements
  BY DEF DerivedPolicy
<1>3. ~Denied(delegator, x, r)
  BY <1>1, <1>2 DEF Denied
<1> QED
  BY <1>1, <1>3, DerivedIsDelegated

\* Delegation shrinks along a line of sessions: what a session may pass on, its
\* parent could pass on.
THEOREM DelegationShrinks ==
    ASSUME NEW delegator \in Policies, NEW actions \in SUBSET Actions,
           NEW channels \in SUBSET Resources,
           NEW x \in Actions,
           Delegates(DerivedPolicy(delegator, actions, channels), x)
    PROVE  Delegates(delegator, x)
<1>1. PICK a \in actions : Delegates(delegator, a) /\ Match(a, x)
  BY DEF Delegates, DerivedPolicy, MatchesSome
<1>2. PICK d \in delegator.delegable : Match(d, a)
  BY <1>1 DEF Delegates, MatchesSome
<1> QED
  BY <1>1, <1>2, MatchTransitive DEF Delegates, MatchesSome, Policies

-----------------------------------------------------------------------------
(* What a click is doing. *)

Claimed(k) == click[k].phase \in {"creating", "created"}

\* What a click is doing fits the request it is about.
ClickFits ==
    \A k \in Clicks :
        /\ click[k].phase = "granting" => approval[click[k].approval] \in CapabilityRequests
        /\ (click[k].phase = "claiming" \/ Claimed(k))
              => approval[click[k].approval] \in PrincipalRequests

TypeInv == TypeOK /\ ClickFits

-----------------------------------------------------------------------------
(* Types. *)

LEMMA InitType == Init => TypeInv
<1> SUFFICES ASSUME Init PROVE TypeInv
  OBVIOUS
<1>1. NoPolicy \in Policies
  BY DEF NoPolicy, Policies
<1>2. policy \in [Agents -> Policies]
  BY <1>1, AuthorityAssumption DEF Init, Agents
<1>3. TypeOK
  BY <1>2, AuthorityAssumption DEF Init, TypeOK, Agents, Statuses, Runs
<1>4. ClickFits
  BY DEF Init, ClickFits, Claimed, NoClick
<1> QED
  BY <1>3, <1>4 DEF TypeInv

\* A mutation of a run leaves clicks and requests alone.
LEMMA FitsKept ==
    ASSUME ClickFits, UNCHANGED <<approval, click>>
    PROVE  ClickFits'
  BY DEF ClickFits, Claimed

LEMMA BindType ==
    ASSUME grants \subseteq Grants, NEW a, NEW r \in Runs
    PROVE  Bind(a, r) \subseteq Grants
  BY DEF Bind, Grants

LEMMA RunType ==
    ASSUME TypeInv, NEW a \in Agents, RunStep(a)
    PROVE  TypeInv'
<1>1. CASE StartRun(a)
  <2>1. runs + 1 \in Runs /\ runs + 1 \in 0..MaxRuns
    BY <1>1, AuthorityAssumption DEF TypeInv, TypeOK, StartRun, Runs
  <2>2. grants' \subseteq Grants
    BY <1>1, <2>1, BindType DEF TypeInv, TypeOK, StartRun
  <2>3. TypeOK'
    BY <1>1, <2>1, <2>2 DEF TypeInv, TypeOK, StartRun, Statuses
  <2> QED
    BY <1>1, <2>3, FitsKept DEF TypeInv, StartRun
<1>2. CASE FinishRun(a)
  <2>1. TypeOK'
    BY <1>2 DEF TypeInv, TypeOK, FinishRun, Statuses
  <2> QED
    BY <1>2, <2>1, FitsKept DEF TypeInv, FinishRun
<1>3. CASE EndRun(a)
  <2>1. TypeOK'
    BY <1>3 DEF TypeInv, TypeOK, EndRun, agentVars
  <2> QED
    BY <1>3, <2>1, FitsKept DEF TypeInv, EndRun
<1> QED
  BY <1>1, <1>2, <1>3 DEF RunStep

\* A new request disturbs no click: the clicks are about older ones.
LEMMA RequestFits ==
    ASSUME TypeInv, NEW i \in Approvals, approval[i] = NoApproval, click' = click,
           \A j \in Approvals \ {i} : approval'[j] = approval[j]
    PROVE  ClickFits'
<1>1. ASSUME NEW k \in Clicks, click[k].phase \in {"granting", "claiming"} \/ Claimed(k)
      PROVE  click[k].approval # i /\ click[k].approval \in Approvals
  <2>1. click[k] \in Handled
    BY <1>1 DEF TypeInv, TypeOK, NoClick, Spent, Claimed
  <2>2. approval[click[k].approval].status # "none"
    BY <1>1 DEF TypeInv, ClickFits, CapabilityRequests, PrincipalRequests
  <2> QED
    BY <2>1, <2>2 DEF Handled, NoApproval
<1> QED
  BY <1>1 DEF TypeInv, ClickFits, Claimed

LEMMA ToolType ==
    ASSUME TypeInv, NEW a \in Agents, ToolStep(a)
    PROVE  TypeInv'
<1>1. ASSUME NEW tool \in Tools, Authorize(a, tool)
      PROVE  TypeInv'
  <2>1. [tool |-> tool, policy |-> policy[a]] \in ToolCalls
    BY DEF TypeInv, TypeOK, ToolCalls
  <2>2. TypeOK'
    BY <1>1, <2>1 DEF TypeInv, TypeOK, Authorize, agentVars, runVars
  <2> QED
    BY <1>1, <2>2, FitsKept DEF TypeInv, Authorize
<1>2. CASE Refuse(a)
  <2>1. TypeOK'
    BY <1>2 DEF TypeInv, TypeOK, Refuse, agentVars, runVars
  <2> QED
    BY <1>2, <2>1, FitsKept DEF TypeInv, Refuse
<1>3. ASSUME NEW i \in Approvals, NEW cap \in Capabilities, RequestCapability(a, i, cap)
      PROVE  TypeInv'
  <2>1. approval' \in [Approvals -> {NoApproval} \cup CapabilityRequests \cup PrincipalRequests]
    BY <1>3 DEF TypeInv, TypeOK, RequestCapability, CapabilityRequests
  <2>2. TypeOK'
    BY <1>3, <2>1 DEF TypeInv, TypeOK, RequestCapability, agentVars, runVars
  <2>3. ClickFits'
    BY <1>3, RequestFits DEF TypeInv, TypeOK, RequestCapability
  <2> QED
    BY <2>2, <2>3 DEF TypeInv
<1>4. ASSUME NEW i \in Approvals, NEW draft \in Authored, RequestPrincipal(a, i, draft)
      PROVE  TypeInv'
  <2>1. approval' \in [Approvals -> {NoApproval} \cup CapabilityRequests \cup PrincipalRequests]
    BY <1>4 DEF TypeInv, TypeOK, RequestPrincipal, PrincipalRequests
  <2>2. TypeOK'
    BY <1>4, <2>1 DEF TypeInv, TypeOK, RequestPrincipal, agentVars, runVars
  <2>3. ClickFits'
    BY <1>4, RequestFits DEF TypeInv, TypeOK, RequestPrincipal
  <2> QED
    BY <2>2, <2>3 DEF TypeInv
<1>5. ASSUME NEW s \in Spares, NEW d \in Delegations, Spawn(a, s, d)
      PROVE  TypeInv'
  <2>1. call[a].policy \in Policies
    BY <1>5 DEF TypeInv, TypeOK, Spawn, Calling, NoCall, ToolCalls
  <2>2. DerivedPolicy(call[a].policy, d.actions, d.channels) \in Policies
    BY <2>1, DerivedPolicyType, AuthorityAssumption
  <2>3. TypeOK'
    BY <1>5, <2>2 DEF TypeInv, TypeOK, Spawn, Statuses, Agents, runVars
  <2> QED
    BY <1>5, <2>3, FitsKept DEF TypeInv, Spawn
<1>6. ASSUME NEW s \in Spares, CloseAgent(a, s)
      PROVE  TypeInv'
  <2>1. Frame(s, "closed") \in Frames
    BY DEF Frame, Frames, ChildrenOf, Agents
  <2>2. TypeOK'
    BY <1>6, <2>1 DEF TypeInv, TypeOK, CloseAgent, agentVars, runVars
  <2> QED
    BY <1>6, <2>2, FitsKept DEF TypeInv, CloseAgent
<1> QED
  BY <1>1, <1>2, <1>3, <1>4, <1>5, <1>6 DEF ToolStep

\* What a click's next phase is about does not change, so it still fits.
LEMMA ClickMoves ==
    ASSUME TypeInv, NEW k \in Clicks, click[k] \in Handled,
           NEW phase \in {"granting", "claiming", "creating", "created", "answered"}
    PROVE  /\ [click EXCEPT ![k].phase = phase] \in [Clicks -> {NoClick, Spent} \cup Handled]
           /\ [click EXCEPT ![k].phase = phase][k].approval = click[k].approval
           /\ [click EXCEPT ![k].phase = phase][k].decision = click[k].decision
           /\ [click EXCEPT ![k].phase = phase][k].phase = phase
           /\ \A l \in Clicks \ {k} : [click EXCEPT ![k].phase = phase][l] = click[l]
  BY DEF TypeInv, TypeOK, Handled

LEMMA Resolved ==
    ASSUME TypeInv, NEW k \in Clicks,
           click[k].phase \in {"granting", "claiming"} \/ Claimed(k)
    PROVE  /\ click[k] \in Handled
           /\ click[k].approval \in Approvals
           /\ click[k].decision \in Decisions
<1>1. click[k] \in Handled
  BY DEF TypeInv, TypeOK, NoClick, Spent, Claimed
<1> QED
  BY <1>1 DEF Handled

LEMMA CommitCapabilityType ==
    ASSUME TypeInv, NEW k \in Clicks, CommitCapability(k)
    PROVE  TypeInv'
<1> DEFINE i == click[k].approval
           decision == click[k].decision
           a == approval[i].agent
           cap == approval[i].cap
<1>1. click[k] \in Handled /\ i \in Approvals /\ decision \in Decisions
  BY Resolved DEF CommitCapability
<1>2. approval[i] \in CapabilityRequests
  BY DEF TypeInv, ClickFits, CommitCapability
<1>3. a \in Agents /\ cap \in Capabilities
  BY <1>2 DEF CapabilityRequests
<1>4. cap.action \in Actions /\ cap.resource \in Resources
  BY <1>3, AuthorityAssumption
<1>5. policy' \in [Agents -> Policies]
  <2>1. GrantOverride(policy[a], cap.action, cap.resource) \in Policies
    BY <1>3, <1>4, GrantOverrideType DEF TypeInv, TypeOK
  <2> QED
    BY <2>1 DEF TypeInv, TypeOK, CommitCapability
<1>6. grants' \subseteq Grants
  <2>1. [agent |-> a, cap |-> cap, click |-> k, run |-> 0] \in Grants
    BY <1>3 DEF Grants
  <2> QED
    BY <2>1 DEF TypeInv, TypeOK, CommitCapability, GrantOnce
<1>7. \A j \in Approvals : approval'[j] =
          IF j = i THEN [approval[i] EXCEPT !.status = Verdict(decision),
                                            !.resolution = IF decision = "deny" THEN "none" ELSE decision]
          ELSE approval[j]
  BY <1>1 DEF TypeInv, TypeOK, CommitCapability
<1>8. approval'[i] \in CapabilityRequests
  BY <1>1, <1>2, <1>7 DEF CapabilityRequests, Verdict, Decisions
<1>9. approval' \in [Approvals -> {NoApproval} \cup CapabilityRequests \cup PrincipalRequests]
  <2>1. approval' = [j \in Approvals |-> approval'[j]]
    BY DEF TypeInv, TypeOK, CommitCapability
  <2> QED
    BY <1>7, <1>8, <2>1 DEF TypeInv, TypeOK
<1>10. click' = [click EXCEPT ![k].phase = "answered"]
  BY DEF CommitCapability, Answered
<1>11. TypeOK'
  BY <1>1, <1>5, <1>6, <1>9, <1>10, ClickMoves DEF TypeInv, TypeOK, CommitCapability, runVars
<1>12. ClickFits'
  <2>1. \A j \in Approvals : /\ approval[j] \in CapabilityRequests => approval'[j] \in CapabilityRequests
                             /\ approval[j] \in PrincipalRequests => approval'[j] \in PrincipalRequests
    BY <1>2, <1>7, <1>8 DEF CapabilityRequests, PrincipalRequests
  <2>2. ASSUME NEW l \in Clicks, click'[l].phase \in {"granting", "claiming"} \/ Claimed(l)'
        PROVE  click'[l] = click[l] /\ click[l].approval \in Approvals
    <3>1. click'[l] = click[l]
      BY <1>1, <1>10, <2>2, ClickMoves DEF Claimed
    <3> QED
      BY <2>2, <3>1, Resolved DEF Claimed
  <2> QED
    BY <2>1, <2>2 DEF TypeInv, ClickFits, Claimed
<1> QED
  BY <1>11, <1>12 DEF TypeInv

LEMMA ClaimPrincipalType ==
    ASSUME TypeInv, NEW k \in Clicks, ClaimPrincipal(k)
    PROVE  TypeInv'
<1> DEFINE i == click[k].approval
           decision == click[k].decision
<1>1. click[k] \in Handled /\ i \in Approvals /\ decision \in Decisions
  BY Resolved DEF ClaimPrincipal
<1>2. approval[i] \in PrincipalRequests
  BY DEF TypeInv, ClickFits, ClaimPrincipal
<1>3. approval'[i] \in PrincipalRequests /\ \A j \in Approvals \ {i} : approval'[j] = approval[j]
  BY <1>1, <1>2 DEF TypeInv, TypeOK, ClaimPrincipal, Verdict, Decisions, PrincipalRequests
<1>4. approval' \in [Approvals -> {NoApproval} \cup CapabilityRequests \cup PrincipalRequests]
  <2>1. approval' = [j \in Approvals |-> approval'[j]]
    BY DEF TypeInv, TypeOK, ClaimPrincipal
  <2> QED
    BY <1>3, <2>1 DEF TypeInv, TypeOK
<1>5. PICK phase \in {"creating", "answered"} : click' = [click EXCEPT ![k].phase = phase]
  BY DEF ClaimPrincipal, Answered
<1>6. TypeOK'
  BY <1>1, <1>4, <1>5, ClickMoves
     DEF TypeInv, TypeOK, ClaimPrincipal, agentVars, runVars
<1>7. ClickFits'
  <2>1. \A j \in Approvals : /\ approval[j] \in CapabilityRequests => approval'[j] \in CapabilityRequests
                             /\ approval[j] \in PrincipalRequests => approval'[j] \in PrincipalRequests
    BY <1>2, <1>3 DEF CapabilityRequests, PrincipalRequests
  <2>2. /\ click'[k].approval = i
        /\ click'[k].phase \in {"creating", "answered"}
        /\ \A l \in Clicks \ {k} : click'[l] = click[l]
    BY <1>1, <1>5 DEF TypeInv, TypeOK, Handled
  <2>3. ASSUME NEW l \in Clicks
        PROVE  /\ click'[l].phase = "granting" => approval'[click'[l].approval] \in CapabilityRequests
               /\ (click'[l].phase = "claiming" \/ Claimed(l)')
                     => approval'[click'[l].approval] \in PrincipalRequests
    <3>1. CASE l = k
      BY <1>3, <2>2, <3>1 DEF Claimed
    <3>2. CASE l # k
      BY <2>1, <2>2, <3>2, Resolved DEF TypeInv, ClickFits, Claimed
    <3> QED
      BY <3>1, <3>2
  <2> QED
    BY <2>3 DEF ClickFits
<1> QED
  BY <1>6, <1>7 DEF TypeInv

\* A click that ends, or has made its principal, with the requests as they were.
LEMMA ClickEnds ==
    ASSUME TypeInv, NEW k \in Clicks, click[k] \in Handled,
           NEW phase \in {"created", "answered"},
           click' = [click EXCEPT ![k].phase = phase],
           phase = "created" => Claimed(k),
           approval' = approval
    PROVE  ClickFits'
<1>1. \A l \in Clicks \ {k} : click'[l] = click[l]
  BY ClickMoves
<1>2. click'[k].approval = click[k].approval /\ click'[k].phase = phase
  BY DEF TypeInv, TypeOK, Handled
<1> QED
  BY <1>1, <1>2 DEF TypeInv, ClickFits, Claimed

LEMMA ClickType ==
    ASSUME TypeInv, NEW k \in Clicks, ClickStep(k)
    PROVE  TypeInv'
<1>1. ASSUME NEW i \in Approvals, NEW decision \in Decisions, Click(k, i, decision)
      PROVE  TypeInv'
  <2>1. approval[i] \in CapabilityRequests \cup PrincipalRequests
    BY <1>1 DEF TypeInv, TypeOK, Click, NoApproval
  <2>2. click' \in [Clicks -> {NoClick, Spent} \cup Handled]
    BY <1>1 DEF TypeInv, TypeOK, Click, Handled
  <2>3. TypeOK'
    BY <1>1, <2>2 DEF TypeInv, TypeOK, Click, agentVars, runVars
  <2>4. ClickFits'
    <3>1. click'[k].approval = i /\ click'[k].phase =
              IF approval[i].kind = "capability" THEN "granting" ELSE "claiming"
      BY <1>1 DEF TypeInv, TypeOK, Click
    <3>2. approval' = approval /\ \A l \in Clicks \ {k} : click'[l] = click[l]
      BY <1>1 DEF TypeInv, TypeOK, Click
    <3>3. approval[i].kind = "capability" <=> approval[i] \in CapabilityRequests
      BY <2>1 DEF CapabilityRequests, PrincipalRequests
    <3> QED
      BY <2>1, <3>1, <3>2, <3>3 DEF TypeInv, ClickFits, Claimed
  <2> QED
    BY <2>3, <2>4 DEF TypeInv
<1>2. CASE CommitCapability(k)
  BY <1>2, CommitCapabilityType
<1>3. CASE ClaimPrincipal(k)
  BY <1>3, ClaimPrincipalType
<1>4. CASE ClaimBusy(k)
  <2>1. click[k] \in Handled
    BY <1>4, Resolved DEF ClaimBusy
  <2>2. TypeOK'
    BY <1>4, <2>1, ClickMoves DEF TypeInv, TypeOK, ClaimBusy, Answered, agentVars, runVars
  <2> QED
    BY <1>4, <2>1, <2>2, ClickEnds DEF TypeInv, ClaimBusy, Answered
<1>5. ASSUME NEW s \in Spares, CreatePrincipal(k, s)
      PROVE  TypeInv'
  <2>1. click[k] \in Handled /\ Claimed(k)
    BY <1>5, Resolved DEF CreatePrincipal, Claimed
  <2>2. approval[click[k].approval].draft \in Policies
    BY <2>1, AuthorityAssumption DEF TypeInv, ClickFits, PrincipalRequests
  <2>3. policy' \in [Agents -> Policies]
    BY <1>5, <2>2 DEF TypeInv, TypeOK, CreatePrincipal
  <2>4. status' \in [Agents -> Statuses]
    BY <1>5 DEF TypeInv, TypeOK, CreatePrincipal, Statuses
  <2>5. TypeOK'
    BY <1>5, <2>1, <2>3, <2>4, ClickMoves DEF TypeInv, TypeOK, CreatePrincipal, runVars
  <2> QED
    BY <1>5, <2>1, <2>5, ClickEnds DEF TypeInv, CreatePrincipal
<1>6. CASE CreateFails(k)
  <2>1. click[k] \in Handled
    BY <1>6, Resolved DEF CreateFails, Claimed
  <2>2. TypeOK'
    BY <1>6, <2>1, ClickMoves DEF TypeInv, TypeOK, CreateFails, Answered, agentVars, runVars
  <2> QED
    BY <1>6, <2>1, <2>2, ClickEnds DEF TypeInv, CreateFails, Answered
<1>7. ASSUME NEW a \in Agents, NEW authored \in Authored, UpdatePolicy(k, a, authored)
      PROVE  TypeInv'
  <2>1. policy' \in [Agents -> Policies]
    BY <1>7, AuthorityAssumption DEF TypeInv, TypeOK, UpdatePolicy
  <2>2. TypeOK'
    BY <1>7, <2>1 DEF TypeInv, TypeOK, UpdatePolicy, runVars
  <2>3. ClickFits'
    BY <1>7 DEF TypeInv, TypeOK, UpdatePolicy, ClickFits, Claimed, Spent
  <2> QED
    BY <2>2, <2>3 DEF TypeInv
<1>8. ASSUME NEW a \in Agents, Delete(k, a)
      PROVE  TypeInv'
  <2>1. Frame(a, "gone") \in Frames
    BY DEF Frame, Frames, ChildrenOf
  <2>2. TypeOK'
    BY <1>8, <2>1 DEF TypeInv, TypeOK, Delete, agentVars, runVars
  <2>3. ClickFits'
    BY <1>8 DEF TypeInv, TypeOK, Delete, ClickFits, Claimed, Spent
  <2> QED
    BY <2>2, <2>3 DEF TypeInv
<1> QED
  BY <1>1, <1>2, <1>3, <1>4, <1>5, <1>6, <1>7, <1>8 DEF ClickStep

LEMMA CascadeType ==
    ASSUME TypeInv, Descend \/ Cancel \/ CommitClose
    PROVE  TypeInv'
<1>1. closing # <<>> => Top \in Frames /\ Tail(closing) \in Seq(Frames)
  BY DEF TypeInv, TypeOK, Top
<1>2. ClickFits'
  BY FitsKept DEF TypeInv, Descend, Cancel, CommitClose
<1>3. CASE Descend
  <2>1. PICK c \in Top.left :
            closing' = <<Frame(c, "closed"), [Top EXCEPT !.left = @ \ {c}]>> \o Tail(closing)
    BY <1>3 DEF Descend
  <2>2. c \in Agents
    BY <1>1, <1>3, <2>1 DEF Frames, Descend
  <2>3. Frame(c, "closed") \in Frames /\ [Top EXCEPT !.left = @ \ {c}] \in Frames
    BY <1>1, <1>3, <2>2 DEF Frame, Frames, ChildrenOf, Descend
  <2>4. <<Frame(c, "closed"), [Top EXCEPT !.left = @ \ {c}]>> \in Seq(Frames)
    BY <2>3
  <2>5. closing' \in Seq(Frames)
    BY <1>1, <1>3, <2>1, <2>4, ConcatProperties DEF Descend
  <2> QED
    BY <1>2, <1>3, <2>5 DEF TypeInv, TypeOK, Descend, agentVars, runVars
<1>4. CASE Cancel
  <2>1. Top.agent \in Agents
    BY <1>1, <1>4 DEF Frames, Cancel
  <2>2. [Top EXCEPT !.phase = "cancelled", !.run = turn[Top.agent]] \in Frames
    BY <1>1, <1>4, <2>1 DEF TypeInv, TypeOK, Frames, Cancel
  <2>3. closing' \in Seq(Frames)
    BY <1>1, <1>4, <2>2 DEF Cancel
  <2> QED
    BY <1>2, <1>4, <2>3 DEF TypeInv, TypeOK, Cancel, agentVars, runVars
<1>5. CASE CommitClose
  <2>1. Top.how \in Statuses
    BY <1>1, <1>5 DEF Frames, Statuses, CommitClose
  <2> QED
    BY <1>1, <1>2, <1>5, <2>1 DEF TypeInv, TypeOK, CommitClose, runVars
<1> QED
  BY <1>3, <1>4, <1>5

LEMMA RestartType ==
    ASSUME TypeInv, Restart
    PROVE  TypeInv'
<1>1. \A k \in Clicks : \/ click'[k] = click[k] /\ click[k] \in {NoClick, Spent}
                        \/ /\ click'[k] \in Handled
                           /\ click'[k].approval = click[k].approval
                           /\ \/ click'[k].phase = "answered"
                              \/ click'[k].phase = "created" /\ click[k].phase = "created"
  BY DEF TypeInv, TypeOK, Restart, Handled
<1>2. click' = [k \in Clicks |-> click'[k]]
  BY DEF Restart
<1>3. click' \in [Clicks -> {NoClick, Spent} \cup Handled]
  BY <1>1, <1>2
<1>4. grants' \subseteq Grants
  BY DEF TypeInv, TypeOK, Restart, GrantsUnbound
<1>5. status' \in [Agents -> Statuses]
  BY DEF TypeInv, TypeOK, Restart, Statuses
<1>6. TypeOK'
  BY <1>3, <1>4, <1>5 DEF TypeInv, TypeOK, Restart
<1>7. ClickFits'
  BY <1>1 DEF TypeInv, Restart, ClickFits, Claimed, NoClick, Spent
<1> QED
  BY <1>6, <1>7 DEF TypeInv

LEMMA TypeStep ==
    ASSUME TypeInv, [Next]_vars
    PROVE  TypeInv'
<1>1. CASE UNCHANGED vars
  BY <1>1 DEF TypeInv, TypeOK, ClickFits, Claimed, vars, agentVars, runVars
<1>2. CASE Next
  BY <1>2, RunType, ToolType, ClickType, CascadeType, RestartType DEF Next
<1> QED
  BY <1>1, <1>2

LEMMA TypeInvariant == Spec => []TypeInv
  BY InitType, TypeStep, PTL DEF Spec

\* Every variable keeps its type: policies stay policies through grants and
\* delegation, and a click handles the kind of request it began with.
THEOREM AuthorityTypeOK == Spec => []TypeOK
<1>1. TypeInv => TypeOK
  BY DEF TypeInv
<1> QED
  BY <1>1, TypeInvariant, PTL

-----------------------------------------------------------------------------
(* Grants for one run. *)

\* Which steps touch grants and runs.
LEMMA GrantSteps ==
    ASSUME Next
    PROVE  \/ \E a \in Agents : StartRun(a) \/ EndRun(a)
           \/ \E k \in Clicks : CommitCapability(k)
           \/ Restart
           \/ UNCHANGED <<grants, turn>>
<1>1. ASSUME NEW a \in Agents, RunStep(a)
      PROVE  StartRun(a) \/ EndRun(a) \/ UNCHANGED <<grants, turn>>
  BY <1>1 DEF RunStep, FinishRun
<1>2. ASSUME NEW a \in Agents, ToolStep(a)
      PROVE  UNCHANGED <<grants, turn>>
  BY <1>2 DEF ToolStep, Authorize, Refuse, RequestCapability, RequestPrincipal, Spawn,
              CloseAgent, runVars
<1>3. ASSUME NEW k \in Clicks, ClickStep(k)
      PROVE  CommitCapability(k) \/ UNCHANGED <<grants, turn>>
  BY <1>3 DEF ClickStep, Click, ClaimPrincipal, ClaimBusy, CreatePrincipal, CreateFails,
              UpdatePolicy, Delete, runVars
<1>4. Descend \/ Cancel \/ CommitClose => UNCHANGED <<grants, turn>>
  BY DEF Descend, Cancel, CommitClose, runVars
<1> QED
  BY <1>1, <1>2, <1>3, <1>4 DEF Next

LEMMA GrantStep ==
    ASSUME TypeInv, GrantEndsWithRun, [Next]_vars
    PROVE  GrantEndsWithRun'
<1>1. ASSUME NEW a \in Agents, StartRun(a)
      PROVE  GrantEndsWithRun'
  <2> SUFFICES ASSUME NEW h \in grants', h.run # 0
               PROVE  turn'[h.agent] = h.run
    BY DEF GrantEndsWithRun
  <2>1. PICK g \in grants : h = IF g.agent = a /\ g.run = 0 THEN [g EXCEPT !.run = runs + 1] ELSE g
    BY <1>1 DEF StartRun, Bind
  <2>2. g \in Grants
    BY DEF TypeInv, TypeOK
  <2>3. CASE g.agent = a /\ g.run = 0
    BY <1>1, <2>1, <2>2, <2>3 DEF TypeInv, TypeOK, StartRun, Grants
  <2>4. CASE ~(g.agent = a /\ g.run = 0)
    <3>1. h = g /\ turn[g.agent] = g.run /\ g.agent \in Agents
      BY <2>1, <2>2, <2>4 DEF GrantEndsWithRun, Grants
    <3>2. g.agent # a
      BY <1>1, <3>1 DEF StartRun
    <3> QED
      BY <1>1, <3>1, <3>2 DEF TypeInv, TypeOK, StartRun
  <2> QED
    BY <2>3, <2>4
<1>2. ASSUME NEW a \in Agents, EndRun(a)
      PROVE  GrantEndsWithRun'
  <2> SUFFICES ASSUME NEW h \in grants', h.run # 0
               PROVE  turn'[h.agent] = h.run
    BY DEF GrantEndsWithRun
  <2>1. h \in grants /\ h.run # turn[a] /\ turn[h.agent] = h.run /\ h.agent \in Agents
    BY <1>2 DEF TypeInv, TypeOK, EndRun, GrantEndsWithRun, Grants
  <2> QED
    BY <1>2, <2>1 DEF TypeInv, TypeOK, EndRun
<1>3. ASSUME NEW k \in Clicks, CommitCapability(k)
      PROVE  GrantEndsWithRun'
  BY <1>3 DEF CommitCapability, GrantOnce, GrantEndsWithRun, runVars
<1>4. CASE Restart
  BY <1>4 DEF Restart, GrantsUnbound, GrantEndsWithRun
<1>5. CASE UNCHANGED <<grants, turn>>
  BY <1>5 DEF GrantEndsWithRun
<1> QED
  BY <1>1, <1>2, <1>3, <1>4, <1>5, GrantSteps DEF vars, runVars

\* A grant for one run is never in force beyond it, whoever cancels, closes or
\* restarts what and however many clicks approve at once.
THEOREM AuthorityGrantEnds == Spec => []GrantEndsWithRun
<1>1. Init => GrantEndsWithRun
  BY DEF Init, GrantEndsWithRun
<1> QED
  BY <1>1, GrantStep, TypeInvariant, PTL DEF Spec

\* A click makes at most one grant, and makes it when it is answered.
GrantIds ==
    /\ \A g, h \in grants : g.click = h.click => g = h
    /\ \A g \in grants : click[g.click].phase = "answered"

\* What binding makes of a grant.
LEMMA BoundFrom ==
    ASSUME TypeInv, NEW a, NEW r, NEW h \in Bind(a, r)
    PROVE  \E g \in grants : /\ h = IF g.agent = a /\ g.run = 0 THEN [g EXCEPT !.run = r] ELSE g
                             /\ h.click = g.click
<1>1. PICK g \in grants : h = IF g.agent = a /\ g.run = 0 THEN [g EXCEPT !.run = r] ELSE g
  BY DEF Bind
<1>2. g \in Grants
  BY DEF TypeInv, TypeOK
<1> QED
  BY <1>1, <1>2 DEF Grants

\* A click that was answered stays so.
LEMMA AnsweredStays ==
    ASSUME TypeInv, [Next]_vars, NEW k \in Clicks, click[k].phase = "answered"
    PROVE  click'[k].phase = "answered"
<1>0. click[k] \in Handled /\ click[k] # NoClick
  BY DEF TypeInv, TypeOK, NoClick, Spent
<1>1. ASSUME NEW l \in Clicks, ClickStep(l)
      PROVE  click'[k] = click[k]
  <2>1. l # k
    BY <1>0, <1>1 DEF ClickStep, Click, CommitCapability, ClaimPrincipal, ClaimBusy,
          CreatePrincipal, CreateFails, UpdatePolicy, Delete
  <2> QED
    BY <1>1, <2>1 DEF TypeInv, TypeOK, ClickStep, Click, CommitCapability, ClaimPrincipal, ClaimBusy,
          CreatePrincipal, CreateFails, UpdatePolicy, Delete, Answered
<1>2. ASSUME NEW a \in Agents, RunStep(a) \/ ToolStep(a)
      PROVE  click' = click
  BY <1>2 DEF RunStep, StartRun, FinishRun, EndRun, ToolStep, Authorize, Refuse,
        RequestCapability, RequestPrincipal, Spawn, CloseAgent
<1>3. Descend \/ Cancel \/ CommitClose \/ UNCHANGED vars => click' = click
  BY DEF Descend, Cancel, CommitClose, vars
<1>4. Restart => click'[k].phase = "answered"
  BY <1>0 DEF Restart, Handled, Spent
<1> QED
  BY <1>1, <1>2, <1>3, <1>4 DEF Next

LEMMA GrantIdsStep ==
    ASSUME TypeInv, GrantIds, [Next]_vars
    PROVE  GrantIds'
<1>0. \A g \in grants : g.click \in Clicks /\ click'[g.click].phase = "answered"
  BY AnsweredStays DEF GrantIds, TypeInv, TypeOK, Grants
<1>1. ASSUME NEW a \in Agents, StartRun(a)
      PROVE  GrantIds'
  <2>1. grants' = Bind(a, runs + 1)
    BY <1>1 DEF StartRun
  <2> QED
    BY <1>0, <2>1, BoundFrom DEF GrantIds
<1>2. ASSUME NEW k \in Clicks, CommitCapability(k)
      PROVE  GrantIds'
  <2>1. \A g \in grants : g.click # k
    BY <1>2 DEF CommitCapability, GrantIds
  <2>2. click'[k].phase = "answered"
    BY <1>2, Resolved DEF CommitCapability, Answered, TypeInv, TypeOK, Handled
  <2>3. \A h \in grants' : h \in grants \/ h.click = k
    BY <1>2 DEF CommitCapability, GrantOnce
  <2>4. \A g, h \in grants' : g.click = k /\ h.click = k => g = h
    BY <1>2, <2>1 DEF CommitCapability, GrantOnce
  <2> QED
    BY <1>0, <2>1, <2>2, <2>3, <2>4 DEF GrantIds
<1>3. CASE grants' \subseteq grants
  BY <1>0, <1>3 DEF GrantIds
<1>4. CASE UNCHANGED vars
  BY <1>3, <1>4 DEF vars
<1>5. CASE Next
  BY <1>1, <1>2, <1>3, <1>5, GrantSteps DEF EndRun, Restart, GrantsUnbound
<1> QED
  BY <1>4, <1>5

LEMMA ServesStep ==
    ASSUME TypeInv, GrantIds, [Next]_vars
    PROVE  [ServesOneRun]_vars
<1>1. ASSUME NEW a \in Agents, StartRun(a)
      PROVE  ServesOneRun
  <2>1. grants' = Bind(a, runs + 1) /\ turn[a] = 0 /\ turn'[a] = runs + 1
    BY <1>1 DEF StartRun, TypeInv, TypeOK
  <2>2. \A h \in grants' : \E g \in grants :
            /\ h = IF g.agent = a /\ g.run = 0 THEN [g EXCEPT !.run = runs + 1] ELSE g
            /\ h.click = g.click
    BY <2>1, BoundFrom
  <2>3. \A h \in grants' : (\A g \in grants : g.click # h.click) => h.run = 0
    BY <2>2
  <2>4. ASSUME NEW g \in grants, g.run = 0
        PROVE  \/ g \in grants'
               \/ \E h \in grants' : /\ h = [g EXCEPT !.run = h.run]
                                     /\ turn[g.agent] = 0
                                     /\ turn'[g.agent] = h.run
    <3>1. g \in Grants
      BY DEF TypeInv, TypeOK
    <3>2. CASE g.agent = a
      <4> DEFINE h == [g EXCEPT !.run = runs + 1]
      <4>1. h \in grants'
        BY <2>1, <2>4, <3>2 DEF Bind
      <4>2. h = [g EXCEPT !.run = h.run] /\ h.run = runs + 1
        BY <3>1 DEF Grants
      <4> QED
        BY <2>1, <3>2, <4>1, <4>2
    <3>3. CASE g.agent # a
      BY <2>1, <3>3 DEF Bind
    <3> QED
      BY <3>2, <3>3
  <2>5. \A g \in grants, h \in grants' : (g.click = h.click /\ g.run # 0) => h.run = g.run
    BY <2>2 DEF GrantIds
  <2> QED
    BY <2>3, <2>4, <2>5 DEF ServesOneRun
<1>2. ASSUME NEW a \in Agents, EndRun(a)
      PROVE  ServesOneRun
  <2>1. grants' \subseteq grants
    BY <1>2 DEF EndRun
  <2>2. \A g \in grants : g.run = 0 => g \in grants'
    BY <1>2 DEF EndRun
  <2> QED
    BY <2>1, <2>2 DEF ServesOneRun, GrantIds
<1>3. ASSUME NEW k \in Clicks, CommitCapability(k)
      PROVE  ServesOneRun
  <2>1. grants \subseteq grants' /\ \A h \in grants' : h \in grants \/ (h.click = k /\ h.run = 0)
    BY <1>3 DEF CommitCapability, GrantOnce
  <2>2. \A g \in grants : g.click # k
    BY <1>3 DEF CommitCapability, GrantIds
  <2> QED
    BY <2>1, <2>2 DEF ServesOneRun, GrantIds
<1>4. CASE Restart
  BY <1>4 DEF Restart, GrantsUnbound, ServesOneRun, GrantIds
<1>5. CASE UNCHANGED <<grants, turn>>
  BY <1>5 DEF ServesOneRun, GrantIds
<1> QED
  BY <1>1, <1>2, <1>3, <1>4, <1>5, GrantSteps

\* "Allow once" is for one run: no grant is bound to a run in progress when it is
\* made, is lost before its agent runs again, or is bound a second time.
THEOREM AuthorityGrantServesOneRun == Spec => GrantServesOneRun
<1>1. Init => GrantIds
  BY DEF Init, GrantIds
<1>2. GrantServesOneRun <=> [][ServesOneRun]_vars
  BY PTL DEF GrantServesOneRun
<1> QED
  BY <1>1, <1>2, GrantIdsStep, ServesStep, TypeInvariant, PTL DEF Spec

-----------------------------------------------------------------------------
(* Policies. *)

LEMMA TakesEffectStep ==
    ASSUME TypeInv, NEW k \in Clicks
    PROVE  TakesEffect(k)
<1> DEFINE a == approval[click[k].approval].agent
           cap == approval[click[k].approval].cap
<1> SUFFICES ASSUME CommitCapability(k), click[k].decision = "forever", status[a] # "gone"
             PROVE  /\ Evaluate(policy'[a], cap.action, cap.resource) = "allow"
                    /\ \A x \in Actions, r \in Resources :
                          Evaluate(policy[a], x, r) = "allow" => Evaluate(policy'[a], x, r) = "allow"
  BY DEF TakesEffect
<1>1. approval[click[k].approval] \in CapabilityRequests
  BY DEF TypeInv, ClickFits, CommitCapability
<1>2. a \in Agents /\ policy[a] \in Policies /\ cap.action \in Actions /\ cap.resource \in Resources
  BY <1>1, AuthorityAssumption DEF CapabilityRequests, TypeInv, TypeOK
<1>3. policy'[a] = GrantOverride(policy[a], cap.action, cap.resource)
  BY <1>2 DEF CommitCapability, TypeInv, TypeOK
<1> QED
  BY <1>2, <1>3, GrantTakesEffect, GrantKeepsAllows

\* "Allow forever" takes effect in the step that records it, whatever the policy
\* denies by then, and takes nothing away.
THEOREM AuthorityForeverTakesEffect == Spec => ForeverTakesEffect
<1>1. TypeInv /\ [Next]_vars => [\A k \in Clicks : TakesEffect(k)]_vars
  BY TakesEffectStep
<1>2. ForeverTakesEffect <=> [][\A k \in Clicks : TakesEffect(k)]_vars
  BY PTL DEF ForeverTakesEffect
<1> QED
  BY <1>1, <1>2, TypeInvariant, PTL DEF Spec

\* Only agentSpawn makes an agent the child of another.
LEMMA SpawnedBySpawn ==
    ASSUME TypeInv, [Next]_vars, NEW s \in Agents, Spawned(s)
    PROVE  \E a \in Agents, d \in Delegations : Spawn(a, s, d)
<1>1. parent' # parent
  BY DEF Spawned
<1>2. ASSUME NEW a \in Agents, RunStep(a)
      PROVE  parent' = parent
  BY <1>2 DEF RunStep, StartRun, FinishRun, EndRun, agentVars
<1>3. ASSUME NEW k \in Clicks, ClickStep(k)
      PROVE  parent' = parent
  BY <1>3 DEF ClickStep, Click, CommitCapability, ClaimPrincipal, ClaimBusy, CreatePrincipal,
        CreateFails, UpdatePolicy, Delete, agentVars
<1>4. Descend \/ Cancel \/ CommitClose \/ Restart \/ UNCHANGED vars => parent' = parent
  BY DEF Descend, Cancel, CommitClose, Restart, vars, agentVars
<1>5. PICK a \in Agents : ToolStep(a)
  BY <1>1, <1>2, <1>3, <1>4 DEF Next
<1>6. PICK t \in Spares, d \in Delegations : Spawn(a, t, d)
  BY <1>1, <1>5 DEF ToolStep, Authorize, Refuse, RequestCapability, RequestPrincipal,
        CloseAgent, agentVars
<1>7. t = s
  BY <1>6 DEF Spawn, Spawned, TypeInv, TypeOK
<1> QED
  BY <1>6, <1>7

LEMMA SpawnStep ==
    ASSUME TypeInv, [Next]_vars, NEW s \in Agents, Spawned(s)
    PROVE  WithinDelegation(s)
<1>1. PICK a \in Agents, d \in Delegations : Spawn(a, s, d)
  BY SpawnedBySpawn
<1> DEFINE snapshot == call[a].policy
<1>2. parent'[s] = a /\ policy'[s] = DerivedPolicy(snapshot, d.actions, d.channels)
  BY <1>1 DEF Spawn, TypeInv, TypeOK
<1>3. snapshot \in Policies
  BY <1>1 DEF TypeInv, TypeOK, Spawn, Calling, NoCall, ToolCalls
<1>4. d.actions \in SUBSET Actions /\ d.channels \in SUBSET Resources
  BY AuthorityAssumption
<1>5. MayDerive(snapshot, d.actions, d.channels)
  BY <1>1 DEF Spawn
<1>6. \A x \in Actions, r \in Resources :
          Evaluate(policy'[s], x, r) = "allow" => Delegates(snapshot, x) /\ ~Denied(snapshot, x, r)
  BY <1>2, <1>3, <1>4, <1>5, SessionStaysWithinDelegation
<1>7. \A x \in Actions : Delegates(policy'[s], x) => Delegates(snapshot, x)
  BY <1>2, <1>3, <1>4, DelegationShrinks
<1> QED
  BY <1>2, <1>6, <1>7 DEF WithinDelegation

\* A session is born within what its parent could delegate and was not denied,
\* and with no more to delegate, however deep it stands.
THEOREM AuthoritySpawnDelegates == Spec => SpawnDelegates
<1>1. TypeInv /\ [Next]_vars => [\A s \in Agents : Spawned(s) => WithinDelegation(s)]_vars
  BY SpawnStep
<1>2. SpawnDelegates <=> [][\A s \in Agents : Spawned(s) => WithinDelegation(s)]_vars
  BY PTL DEF SpawnDelegates
<1> QED
  BY <1>1, <1>2, TypeInvariant, PTL DEF Spec

-----------------------------------------------------------------------------
(* Principal requests. *)

\* A click past the claim has its request to itself, and the request is closed.
ClaimInv ==
    /\ \A k \in Clicks : Claimed(k) => ~Pending(click[k].approval)
    /\ \A k, l \in Clicks :
          (Claimed(k) /\ Claimed(l) /\ click[k].approval = click[l].approval) => k = l

\* Nothing opens a request again.
LEMMA StaysClosed ==
    ASSUME TypeInv, [Next]_vars, NEW i \in Approvals,
           approval[i] \in PrincipalRequests, ~Pending(i)
    PROVE  ~Pending(i)'
<1>0. approval[i] # NoApproval
  BY DEF PrincipalRequests, NoApproval
<1>1. ASSUME NEW k \in Clicks, CommitCapability(k)
      PROVE  approval'[i] = approval[i]
  <2>1. click[k].approval # i
    BY <1>1 DEF CommitCapability, TypeInv, ClickFits, CapabilityRequests, PrincipalRequests
  <2> QED
    BY <1>1, <2>1 DEF CommitCapability, TypeInv, TypeOK
<1>2. ASSUME NEW k \in Clicks, ClaimPrincipal(k)
      PROVE  approval'[i] = approval[i]
  <2>1. Pending(click[k].approval) => click[k].approval # i
    OBVIOUS
  <2> QED
    BY <1>2, <2>1 DEF ClaimPrincipal, TypeInv, TypeOK
<1>3. ASSUME NEW k \in Clicks, ClickStep(k), ~CommitCapability(k), ~ClaimPrincipal(k)
      PROVE  approval' = approval
  BY <1>3 DEF ClickStep, Click, ClaimBusy, CreatePrincipal, CreateFails, UpdatePolicy, Delete
<1>4. ASSUME NEW a \in Agents, ToolStep(a)
      PROVE  approval'[i] = approval[i]
  BY <1>0, <1>4 DEF ToolStep, Authorize, Refuse, RequestCapability, RequestPrincipal, Spawn,
        CloseAgent, TypeInv, TypeOK
<1>5. ASSUME NEW a \in Agents, RunStep(a)
      PROVE  approval' = approval
  BY <1>5 DEF RunStep, StartRun, FinishRun, EndRun
<1>6. Descend \/ Cancel \/ CommitClose \/ Restart \/ UNCHANGED vars => approval' = approval
  BY DEF Descend, Cancel, CommitClose, Restart, vars
<1>7. approval'[i] = approval[i]
  BY <1>1, <1>2, <1>3, <1>4, <1>5, <1>6 DEF Next
<1> QED
  BY <1>7 DEF Pending

\* A click gets past the claim only by the claim, and then keeps its request.
LEMMA ClaimedFrom ==
    ASSUME TypeInv, [Next]_vars, NEW k \in Clicks, Claimed(k)'
    PROVE  /\ click'[k].approval = click[k].approval
           /\ \/ Claimed(k)
              \/ /\ ClaimPrincipal(k)
                 /\ Pending(click[k].approval)
                 /\ ~Pending(click[k].approval)'
                 /\ \A l \in Clicks \ {k} : click'[l] = click[l]
<1>1. ASSUME NEW l \in Clicks, l # k, ClickStep(l)
      PROVE  click'[k] = click[k]
  BY <1>1 DEF TypeInv, TypeOK, ClickStep, Click, CommitCapability, ClaimPrincipal, ClaimBusy,
        CreatePrincipal, CreateFails, UpdatePolicy, Delete, Answered
<1>2. CASE ClickStep(k)
  <2>1. \/ ClaimPrincipal(k)
        \/ \E s \in Spares : CreatePrincipal(k, s)
        \/ \E i \in Approvals, decision \in Decisions : Click(k, i, decision)
        \/ click'[k].phase \in {"answered", "spent"}
    <3>1. CommitCapability(k) \/ ClaimBusy(k) \/ CreateFails(k) => click'[k].phase = "answered"
      BY Resolved DEF CommitCapability, ClaimBusy, CreateFails, Answered, Claimed, TypeInv, TypeOK, Handled
    <3>2. ASSUME NEW a \in Agents, NEW authored \in Authored, UpdatePolicy(k, a, authored)
          PROVE  click'[k].phase = "spent"
      BY <3>2 DEF UpdatePolicy, TypeInv, TypeOK, Spent
    <3>3. ASSUME NEW a \in Agents, Delete(k, a)
          PROVE  click'[k].phase = "spent"
      BY <3>3 DEF Delete, TypeInv, TypeOK, Spent
    <3> QED
      BY <1>2, <3>1, <3>2, <3>3 DEF ClickStep
  <2>2. CASE ClaimPrincipal(k)
    <3>1. click[k] \in Handled /\ click[k].approval \in Approvals /\ click[k].decision \in Decisions
      BY <2>2, Resolved DEF ClaimPrincipal
    <3>2. Pending(click[k].approval)
      BY <2>2, <3>1 DEF ClaimPrincipal, Answered, Claimed, TypeInv, TypeOK, Handled
    <3>3. click' = [click EXCEPT ![k].phase =
                      IF click[k].decision = "deny" THEN "answered" ELSE "creating"]
      BY <2>2, <3>2 DEF ClaimPrincipal
    <3>4. approval[click[k].approval] \in PrincipalRequests
      BY <2>2 DEF ClaimPrincipal, TypeInv, ClickFits
    <3>5. approval'[click[k].approval].status = Verdict(click[k].decision)
      BY <2>2, <3>1, <3>2, <3>4 DEF ClaimPrincipal, TypeInv, TypeOK, PrincipalRequests
    <3>6. click'[k].approval = click[k].approval /\ \A l \in Clicks \ {k} : click'[l] = click[l]
      BY <3>1, <3>3 DEF TypeInv, TypeOK, Handled
    <3>7. ~Pending(click[k].approval)'
      BY <3>5, <3>6 DEF Pending, Verdict
    <3> QED
      BY <2>2, <3>2, <3>6, <3>7
  <2>3. ASSUME NEW s \in Spares, CreatePrincipal(k, s)
        PROVE  Claimed(k) /\ click'[k].approval = click[k].approval
    BY <2>3, Resolved DEF CreatePrincipal, Claimed, TypeInv, TypeOK, Handled
  <2>4. ASSUME NEW i \in Approvals, NEW decision \in Decisions, Click(k, i, decision)
        PROVE  FALSE
    BY <2>4 DEF Click, Claimed, TypeInv, TypeOK
  <2>5. click'[k].phase \notin {"answered", "spent"}
    BY DEF Claimed
  <2> QED
    BY <2>1, <2>2, <2>3, <2>4, <2>5
<1>3. ASSUME NEW a \in Agents, RunStep(a) \/ ToolStep(a)
      PROVE  click' = click
  BY <1>3 DEF RunStep, StartRun, FinishRun, EndRun, ToolStep, Authorize, Refuse,
        RequestCapability, RequestPrincipal, Spawn, CloseAgent
<1>4. Descend \/ Cancel \/ CommitClose \/ UNCHANGED vars => click' = click
  BY DEF Descend, Cancel, CommitClose, vars
<1>5. Restart => Claimed(k) /\ click'[k].approval = click[k].approval
  BY DEF Restart, Claimed, TypeInv, TypeOK, Handled, NoClick, Spent
<1> QED
  BY <1>1, <1>2, <1>3, <1>4, <1>5 DEF Next, Claimed

LEMMA ClaimStep ==
    ASSUME TypeInv, ClaimInv, [Next]_vars
    PROVE  ClaimInv'
<1>1. ASSUME NEW k \in Clicks, NEW i \in Approvals, Claimed(k), click[k].approval = i
      PROVE  approval'[i].status # "pending"
  <2>1. approval[i] \in PrincipalRequests /\ ~Pending(i)
    BY <1>1 DEF TypeInv, ClickFits, ClaimInv
  <2> QED
    BY <2>1, StaysClosed DEF Pending
<1>2. ASSUME NEW k \in Clicks, Claimed(k)'
      PROVE  approval'[click'[k].approval].status # "pending"
  <2>1. CASE Claimed(k)
    <3>1. click[k].approval \in Approvals /\ click'[k].approval = click[k].approval
      BY <1>2, <2>1, Resolved, ClaimedFrom
    <3> QED
      BY <1>1, <2>1, <3>1
  <2>2. CASE ~Claimed(k)
    BY <1>2, <2>2, ClaimedFrom DEF Pending
  <2> QED
    BY <2>1, <2>2
<1>3. ASSUME NEW k \in Clicks, NEW l \in Clicks, Claimed(k)', Claimed(l)',
             click'[k].approval = click'[l].approval
      PROVE  k = l
  <2>1. click[k].approval = click[l].approval
    BY <1>3, ClaimedFrom
  <2>2. CASE Claimed(k) /\ Claimed(l)
    BY <2>1, <2>2 DEF ClaimInv
  <2>3. CASE ~Claimed(k)
    <3>1. Pending(click[k].approval) /\ \A m \in Clicks \ {k} : click'[m] = click[m]
      BY <1>3, <2>3, ClaimedFrom
    <3>2. ASSUME l # k PROVE FALSE
      <4>1. Claimed(l)
        BY <1>3, <3>1, <3>2 DEF Claimed
      <4> QED
        BY <2>1, <3>1, <4>1 DEF ClaimInv
    <3> QED
      BY <3>2
  <2>4. CASE ~Claimed(l)
    <3>1. Pending(click[l].approval) /\ \A m \in Clicks \ {l} : click'[m] = click[m]
      BY <1>3, <2>4, ClaimedFrom
    <3>2. ASSUME l # k PROVE FALSE
      <4>1. Claimed(k)
        BY <1>3, <3>1, <3>2 DEF Claimed
      <4> QED
        BY <2>1, <3>1, <4>1 DEF ClaimInv
    <3> QED
      BY <3>2
  <2> QED
    BY <2>2, <2>3, <2>4
<1> QED
  BY <1>2, <1>3 DEF ClaimInv, Pending

LEMMA AtMostOne ==
    ASSUME NEW S, \A x, y \in S : x = y
    PROVE  Cardinality(S) <= 1
<1>1. CASE S = {}
  BY <1>1, FS_EmptySet
<1>2. CASE S # {}
  <2>1. PICK x \in S : S = {x}
    BY <1>2
  <2> QED
    BY <2>1, FS_Singleton
<1> QED
  BY <1>1, <1>2

\* However many clicks approve one request at once, and whatever the lock does,
\* one of them at most creates the principal.
THEOREM AuthorityPrincipalOnce == Spec => []PrincipalOnce
<1>1. Init => ClaimInv
  BY DEF Init, ClaimInv, Claimed, NoClick
<1>2. ClaimInv => PrincipalOnce
  <2> SUFFICES ASSUME ClaimInv, NEW i \in Approvals
               PROVE  Cardinality({k \in Clicks : /\ click[k].phase \in {"creating", "created"}
                                                  /\ click[k].approval = i}) <= 1
    BY DEF PrincipalOnce
  <2> QED
    BY AtMostOne DEF ClaimInv, Claimed
<1> QED
  BY <1>1, <1>2, ClaimStep, TypeInvariant, PTL DEF Spec

-----------------------------------------------------------------------------
(* The cascade of closes: a stack of calls, innermost first.               *)

\* A call on the stack that awaits its execution has closed all its children;
\* only the outermost call deletes; and a child that a call is done with is
\* closed, or is being closed by the call right above.
Cascade ==
    \A i \in 1..Len(closing) :
        /\ closing[i].phase = "cancelled" => closing[i].left = {}
        /\ i < Len(closing) => closing[i].how = "closed"
        /\ \A c \in closing[i].kids \ closing[i].left :
              status[c] = "closed" \/ (i > 1 /\ c = closing[i - 1].agent)

LEMMA OnTop ==
    ASSUME NEW s \in Seq(Frames), s # <<>>, NEW f \in Frames
    PROVE  /\ s[1] = Head(s) /\ Len(s) \in Nat \ {0}
           /\ Len(<<f>> \o Tail(s)) = Len(s)
           /\ (<<f>> \o Tail(s))[1] = f
           /\ \A i \in 2..Len(s) : (<<f>> \o Tail(s))[i] = s[i]
<1>1. /\ Tail(s) \in Seq(Frames) /\ Len(Tail(s)) = Len(s) - 1 /\ Len(s) \in Nat \ {0}
      /\ \A i \in 1..(Len(s) - 1) : Tail(s)[i] = s[i + 1]
      /\ s[1] = Head(s)
  BY EmptySeq, HeadTailProperties, LenProperties
<1>2. <<f>> \in Seq(Frames) /\ Len(<<f>>) = 1 /\ <<f>>[1] = f
  OBVIOUS
<1>3. /\ Len(<<f>> \o Tail(s)) = Len(<<f>>) + Len(Tail(s))
      /\ \A i \in 1..(Len(<<f>>) + Len(Tail(s))) :
            (<<f>> \o Tail(s))[i] = IF i <= Len(<<f>>) THEN <<f>>[i] ELSE Tail(s)[i - Len(<<f>>)]
  BY <1>1, <1>2, ConcatProperties
<1>4. ASSUME NEW i \in 2..Len(s) PROVE (<<f>> \o Tail(s))[i] = s[i]
  <2>1. i - 1 \in 1..(Len(s) - 1) /\ (i - 1) + 1 = i /\ ~(i <= 1) /\ i \in 1..(1 + (Len(s) - 1))
    BY <1>1, <1>4
  <2> QED BY <1>1, <1>2, <1>3, <2>1
<1> QED BY <1>1, <1>2, <1>3, <1>4

LEMMA OnTopOf ==
    ASSUME NEW s \in Seq(Frames), s # <<>>, NEW f \in Frames, NEW g \in Frames
    PROVE  /\ Len(<<f, g>> \o Tail(s)) = Len(s) + 1
           /\ (<<f, g>> \o Tail(s))[1] = f /\ (<<f, g>> \o Tail(s))[2] = g
           /\ \A i \in 3..(Len(s) + 1) : (<<f, g>> \o Tail(s))[i] = s[i - 1]
<1>1. /\ Tail(s) \in Seq(Frames) /\ Len(Tail(s)) = Len(s) - 1 /\ Len(s) \in Nat \ {0}
      /\ \A i \in 1..(Len(s) - 1) : Tail(s)[i] = s[i + 1]
  BY EmptySeq, HeadTailProperties, LenProperties
<1>2. <<f, g>> \in Seq(Frames) /\ Len(<<f, g>>) = 2 /\ <<f, g>>[1] = f /\ <<f, g>>[2] = g
  OBVIOUS
<1>3. /\ Len(<<f, g>> \o Tail(s)) = Len(<<f, g>>) + Len(Tail(s))
      /\ \A i \in 1..(Len(<<f, g>>) + Len(Tail(s))) :
            (<<f, g>> \o Tail(s))[i] =
                IF i <= Len(<<f, g>>) THEN <<f, g>>[i] ELSE Tail(s)[i - Len(<<f, g>>)]
  BY <1>1, <1>2, ConcatProperties
<1>4. ASSUME NEW i \in 3..(Len(s) + 1) PROVE (<<f, g>> \o Tail(s))[i] = s[i - 1]
  <2>1. /\ i - 2 \in 1..(Len(s) - 1) /\ (i - 2) + 1 = i - 1 /\ ~(i <= 2)
        /\ i \in 1..(2 + (Len(s) - 1))
    BY <1>1, <1>4
  <2> QED BY <1>1, <1>2, <1>3, <2>1
<1> QED BY <1>1, <1>2, <1>3, <1>4

\* A call that begins has closed none of its children.
LEMMA FrameBegins ==
    ASSUME NEW a \in Agents, NEW how \in {"closed", "gone"}
    PROVE  /\ Frame(a, how) \in Frames
           /\ Frame(a, how).phase = "kids" /\ Frame(a, how).kids \ Frame(a, how).left = {}
           /\ Frame(a, how).agent = a /\ Frame(a, how).how = how
  BY DEF Frame, Frames, ChildrenOf

\* Only the cascade and a restart change the stack while a call is on it, and
\* nothing but the end of a call reopens what was closed.
LEMMA Elsewhere ==
    ASSUME TypeInv, [Next]_vars, ~Descend, ~Cancel, ~CommitClose, ~Restart
    PROVE  /\ \A c \in Agents : status[c] = "closed" => status'[c] = "closed"
           /\ \/ closing' = closing
              \/ closing = <<>> /\ \E a \in Agents, how \in {"closed", "gone"} : closing' = <<Frame(a, how)>>
<1> DEFINE Kept == /\ \A c \in Agents : status[c] = "closed" => status'[c] = "closed"
                   /\ \/ closing' = closing
                      \/ /\ closing = <<>>
                         /\ \E a \in Agents, how \in {"closed", "gone"} : closing' = <<Frame(a, how)>>
<1>0. \A s \in Spares : s \in Agents
  BY DEF Agents
<1>1. ASSUME NEW a \in Agents, RunStep(a) PROVE Kept
  BY <1>1 DEF RunStep, StartRun, FinishRun, EndRun, agentVars, TypeInv, TypeOK
<1>2. ASSUME NEW a \in Agents, ToolStep(a) PROVE Kept
  <2>1. ASSUME NEW s \in Spares, CloseAgent(a, s) PROVE Kept
    BY <1>0, <2>1 DEF CloseAgent, agentVars
  <2>2. ASSUME NEW s \in Spares, NEW d \in Delegations, Spawn(a, s, d) PROVE Kept
    BY <2>2 DEF Spawn, TypeInv, TypeOK
  <2> QED
    BY <1>2, <2>1, <2>2 DEF ToolStep, Authorize, Refuse, RequestCapability, RequestPrincipal, agentVars
<1>3. ASSUME NEW k \in Clicks, ClickStep(k) PROVE Kept
  <2>1. ASSUME NEW a \in Agents, Delete(k, a) PROVE Kept
    BY <2>1 DEF Delete, agentVars
  <2>2. ASSUME NEW s \in Spares, CreatePrincipal(k, s) PROVE Kept
    BY <2>2 DEF CreatePrincipal, TypeInv, TypeOK
  <2> QED
    BY <1>3, <2>1, <2>2 DEF ClickStep, Click, CommitCapability, ClaimPrincipal, ClaimBusy, CreateFails,
                            UpdatePolicy, agentVars
<1>4. CASE UNCHANGED vars
  BY <1>4 DEF vars, agentVars
<1> QED BY <1>1, <1>2, <1>3, <1>4 DEF Next

LEMMA CascadeStep ==
    ASSUME TypeInv, Cascade, [Next]_vars
    PROVE  Cascade'
<1> DEFINE Fits(i) ==
        /\ closing[i].phase = "cancelled" => closing[i].left = {}
        /\ i < Len(closing) => closing[i].how = "closed"
        /\ \A c \in closing[i].kids \ closing[i].left :
              status[c] = "closed" \/ (i > 1 /\ c = closing[i - 1].agent)
<1>0. /\ closing \in Seq(Frames) /\ Len(closing) \in Nat
      /\ \A i \in 1..Len(closing) : closing[i] \in Frames /\ Fits(i)
      /\ status \in [Agents -> Statuses]
  BY LenProperties, ElementOfSeq DEF TypeInv, TypeOK, Cascade
<1>1. \A i \in 1..Len(closing) : closing[i].kids \subseteq Agents
  BY <1>0 DEF Frames
<1>2. CASE ~Descend /\ ~Cancel /\ ~CommitClose /\ ~Restart
  <2>1. \A c \in Agents : status[c] = "closed" => status'[c] = "closed"
    BY <1>2, Elsewhere
  <2>2. CASE closing' = closing
    BY <1>0, <1>1, <2>1, <2>2 DEF Cascade
  <2>3. ASSUME NEW a \in Agents, NEW how \in {"closed", "gone"}, closing' = <<Frame(a, how)>>
        PROVE  Cascade'
    <3>1. Len(closing') = 1 /\ closing'[1] = Frame(a, how)
      BY <2>3
    <3>2. \A i \in 1..Len(closing') : i = 1
      BY <3>1
    <3> QED BY <3>1, <3>2, FrameBegins DEF Cascade
  <2> QED BY <1>2, <2>2, <2>3, Elsewhere
<1>3. CASE Descend
  <2>1. closing # <<>> /\ Top.phase = "kids" /\ status' = status
    BY <1>3 DEF Descend, agentVars
  <2>2. PICK c \in Top.left :
            closing' = <<Frame(c, "closed"), [Top EXCEPT !.left = @ \ {c}]>> \o Tail(closing)
    BY <1>3 DEF Descend
  <2>3. Top = closing[1] /\ 1 \in 1..Len(closing) /\ Top \in Frames /\ Len(closing) \in Nat \ {0}
    <3>1. Top = closing[1] /\ Len(closing) \in Nat \ {0}
      BY <1>0, <2>1, EmptySeq, HeadTailProperties, LenProperties DEF Top
    <3> QED BY <1>0, <3>1
  <2> DEFINE g == [Top EXCEPT !.left = @ \ {c}]
  <2>4. c \in Agents
    BY <2>3 DEF Frames
  <2>5. /\ g \in Frames /\ g.phase = "kids" /\ g.how = Top.how /\ g.agent = Top.agent
        /\ g.kids = Top.kids /\ g.left = Top.left \ {c}
    BY <2>1, <2>3 DEF Frames
  <2>6. Frame(c, "closed") \in Frames
    BY <2>4, FrameBegins
  <2> HIDE DEF g
  <2>7. /\ Len(closing') = Len(closing) + 1
        /\ closing'[1] = Frame(c, "closed") /\ closing'[2] = g
        /\ \A i \in 3..(Len(closing) + 1) : closing'[i] = closing[i - 1]
    BY <1>0, <2>1, <2>2, <2>5, <2>6, OnTopOf DEF g
  <2>8. Fits(1)'
    BY <2>3, <2>4, <2>7, FrameBegins
  <2>9. Fits(2)'
    <3>1. 2 < Len(closing') => g.how = "closed"
      BY <1>0, <2>3, <2>5, <2>7
    <3>2. ASSUME NEW x \in g.kids \ g.left PROVE status'[x] = "closed" \/ x = c
      BY <1>0, <2>1, <2>3, <2>5, <3>2
    <3>3. closing'[2 - 1].agent = c
      BY <2>4, <2>7, FrameBegins
    <3> QED BY <2>5, <2>7, <3>1, <3>2, <3>3
  <2>10. ASSUME NEW i \in 3..(Len(closing) + 1) PROVE Fits(i)'
    <3>1. /\ i - 1 \in 1..Len(closing) /\ i - 1 > 1 /\ closing'[i] = closing[i - 1]
          /\ i < Len(closing') => i - 1 < Len(closing)
      BY <2>3, <2>7, <2>10
    <3>2. closing'[i - 1].agent = closing[(i - 1) - 1].agent
      <4>1. CASE i = 3
        BY <2>3, <2>5, <2>7, <4>1
      <4>2. CASE i # 3
        BY <2>3, <2>7, <2>10, <4>2
      <4> QED BY <4>1, <4>2
    <3>3. Fits(i - 1) /\ i > 1
      BY <1>0, <3>1
    <3> QED BY <2>1, <3>1, <3>2, <3>3
  <2>11. \A i \in 1..Len(closing') : i = 1 \/ i = 2 \/ i \in 3..(Len(closing) + 1)
    BY <2>3, <2>7
  <2> HIDE DEF Fits
  <2>12. \A i \in 1..Len(closing') : Fits(i)'
    BY <2>8, <2>9, <2>10, <2>11
  <2> QED BY <2>12 DEF Cascade, Fits
<1>4. CASE Cancel
  <2>1. closing # <<>> /\ Top.phase = "kids" /\ Top.left = {} /\ status' = status
    BY <1>4 DEF Cancel, agentVars
  <2>3. Top = closing[1] /\ 1 \in 1..Len(closing) /\ Top \in Frames /\ Len(closing) \in Nat \ {0}
    <3>1. Top = closing[1] /\ Len(closing) \in Nat \ {0}
      BY <1>0, <2>1, EmptySeq, HeadTailProperties, LenProperties DEF Top
    <3> QED BY <1>0, <3>1
  <2> DEFINE g == [Top EXCEPT !.phase = "cancelled", !.run = turn[Top.agent]]
  <2>4. Top.agent \in Agents /\ turn[Top.agent] \in Runs \cup {0}
    BY <2>3 DEF Frames, TypeInv, TypeOK
  <2>5. /\ g \in Frames /\ g.how = Top.how /\ g.agent = Top.agent
        /\ g.kids = Top.kids /\ g.left = {}
    BY <2>1, <2>3, <2>4 DEF Frames
  <2>6. closing' = <<g>> \o Tail(closing)
    BY <1>4 DEF Cancel
  <2> HIDE DEF g
  <2>7. /\ Len(closing') = Len(closing) /\ closing'[1] = g
        /\ \A i \in 2..Len(closing) : closing'[i] = closing[i]
    BY <1>0, <2>1, <2>5, <2>6, OnTop
  <2>8. ASSUME NEW i \in 1..Len(closing)
        PROVE  /\ closing'[i].how = closing[i].how /\ closing'[i].agent = closing[i].agent
               /\ closing'[i].kids = closing[i].kids /\ closing'[i].left = closing[i].left
               /\ closing'[i].phase = "cancelled" => closing'[i].left = {}
    <3>1. CASE i = 1
      BY <2>1, <2>3, <2>5, <2>7, <3>1
    <3>2. CASE i # 1
      <4>1. closing'[i] = closing[i]
        BY <2>3, <2>7, <3>2
      <4> QED BY <1>0, <4>1
    <3> QED BY <3>1, <3>2
  <2>9. ASSUME NEW i \in 1..Len(closing) PROVE Fits(i)'
    <3>1. i > 1 => i - 1 \in 1..Len(closing)
      BY <2>3, <2>9
    <3>2. i > 1 => closing'[i - 1].agent = closing[i - 1].agent
      BY <2>8, <3>1
    <3> QED BY <1>0, <2>1, <2>7, <2>8, <3>2
  <2> HIDE DEF Fits
  <2> QED BY <2>7, <2>9 DEF Cascade, Fits
<1>5. CASE CommitClose
  <2>1. /\ closing # <<>> /\ Top.phase = "cancelled" /\ closing' = Tail(closing)
        /\ status' = [status EXCEPT ![Top.agent] = Top.how]
    BY <1>5 DEF CommitClose
  <2>2. /\ Top = closing[1] /\ Len(closing) \in Nat \ {0} /\ Len(closing') = Len(closing) - 1
        /\ \A i \in 1..(Len(closing) - 1) : closing'[i] = closing[i + 1]
    BY <1>0, <2>1, EmptySeq, HeadTailProperties, LenProperties DEF Top
  <2>3. ASSUME NEW i \in 1..(Len(closing) - 1) PROVE Fits(i)'
    <3>1. /\ i + 1 \in 1..Len(closing) /\ 1 \in 1..Len(closing) /\ 1 < Len(closing)
          /\ closing'[i] = closing[i + 1] /\ (i + 1) - 1 = i
          /\ i < Len(closing') => i + 1 < Len(closing)
      BY <2>2, <2>3
    <3>2. Top.how = "closed"
      BY <1>0, <2>2, <3>1
    <3>3. \A c \in Agents : /\ status[c] = "closed" => status'[c] = "closed"
                            /\ c = Top.agent => status'[c] = "closed"
      BY <1>0, <2>1, <3>2
    <3>4. i > 1 => closing'[i - 1] = closing[i]
      <4>1. i > 1 => i - 1 \in 1..(Len(closing) - 1) /\ (i - 1) + 1 = i
        BY <2>2, <2>3
      <4> QED BY <2>2, <4>1
    <3>5. ASSUME NEW c \in closing'[i].kids \ closing'[i].left
          PROVE  status'[c] = "closed" \/ (i > 1 /\ c = closing'[i - 1].agent)
      <4>1. c \in Agents /\ (status[c] = "closed" \/ c = closing[i].agent)
        BY <1>0, <1>1, <3>1, <3>5
      <4>2. CASE i = 1
        BY <2>2, <3>3, <4>1, <4>2
      <4>3. CASE i # 1
        <5>1. i > 1
          BY <2>2, <2>3, <4>3
        <5> QED BY <3>3, <3>4, <4>1, <5>1
      <4> QED BY <4>2, <4>3
    <3>6. /\ closing'[i].phase = "cancelled" => closing'[i].left = {}
          /\ i < Len(closing') => closing'[i].how = "closed"
      BY <1>0, <3>1
    <3> QED BY <3>5, <3>6
  <2> HIDE DEF Fits
  <2> QED BY <2>2, <2>3 DEF Cascade, Fits
<1>6. CASE Restart
  <2>1. closing' = <<>> /\ Len(closing') = 0
    BY <1>6, EmptySeq DEF Restart
  <2> QED BY <2>1 DEF Cascade
<1> QED BY <1>2, <1>3, <1>4, <1>5, <1>6

\* When closeSession marks an agent, or deleteAgent removes one, every child it
\* had when the call began is closed, however deep the tree and whatever else
\* the human and the agents do meanwhile.
THEOREM AuthorityChildrenCloseFirst == Spec => ChildrenCloseFirst
<1> DEFINE Step == CommitClose => \A c \in Top.kids : status[c] = "closed"
<1>1. ASSUME TypeInv, Cascade PROVE Step
  <2> SUFFICES ASSUME CommitClose, NEW c \in Top.kids PROVE status[c] = "closed"
    OBVIOUS
  <2>1. closing # <<>> /\ closing \in Seq(Frames) /\ Top.phase = "cancelled"
    BY <1>1 DEF CommitClose, TypeInv, TypeOK
  <2>2. Top = closing[1] /\ 1 \in 1..Len(closing)
    BY <2>1, EmptySeq, HeadTailProperties, LenProperties DEF Top
  <2>3. /\ closing[1].phase = "cancelled" => closing[1].left = {}
        /\ \A x \in closing[1].kids \ closing[1].left : status[x] = "closed"
    BY <1>1, <2>2 DEF Cascade
  <2> QED BY <2>1, <2>2, <2>3
<1>2. TypeInv /\ Cascade => [Step]_vars
  BY <1>1
<1>3. Init => Cascade
  <2>1. Len(<<>>) = 0
    BY EmptySeq
  <2> QED BY <2>1 DEF Init, Cascade
<1>4. TypeInv /\ Cascade /\ [Next]_vars => Cascade'
  BY CascadeStep
<1>5. ChildrenCloseFirst <=> [][Step]_vars
  BY PTL DEF ChildrenCloseFirst
<1> QED BY <1>2, <1>3, <1>4, <1>5, TypeInvariant, PTL DEF Spec
=============================================================================
