------------------------------- MODULE Policy -------------------------------
(***************************************************************************)
(* The policy engine (apps/server/src/policy.ts).  A policy is a set of    *)
(* statements and a set of delegable action patterns; the order of the     *)
(* statements matters only to the wording of a reason.  Actions, resources *)
(* and patterns are names; which names a pattern with a "*" inside, or a   *)
(* command prefix, covers is the relation Covers.                          *)
(***************************************************************************)
CONSTANTS
    Actions,         \* names of actions and action patterns, Star among them
    Resources,       \* names of resources and resource patterns, Star too
    ChannelActions,  \* "channel:read" and "channel:post"
    ChannelNames,    \* the names in Actions that begin with "channel:"
    Star,            \* "*"
    Covers           \* <<pattern, name>>: matches that are not equality or Star

ASSUME PolicyAssumption ==
    /\ Star \in Actions \cap Resources
    /\ ChannelActions \subseteq ChannelNames
    /\ ChannelNames \subseteq Actions \ {Star}

Effects == {"allow", "deny"}
Statements == [effect : Effects, actions : SUBSET Actions, resources : SUBSET Resources]
Policies == [statements : SUBSET Statements, delegable : SUBSET Actions]

Allow(actions, resources) ==
    [effect |-> "allow", actions |-> actions, resources |-> resources]
Deny(actions, resources) ==
    [effect |-> "deny", actions |-> actions, resources |-> resources]

\* matchGlob, matchAction, matchResource.
Match(pattern, name) == pattern = Star \/ pattern = name \/ <<pattern, name>> \in Covers

\* A glob that matches another matches whatever that one does.
ASSUME MatchTransitive ==
    \A p, q, n \in Actions : Match(p, q) /\ Match(q, n) => Match(p, n)

MatchesSome(patterns, name) == \E pattern \in patterns : Match(pattern, name)

Hits(statement, action, resource) ==
    /\ MatchesSome(statement.actions, action)
    /\ MatchesSome(statement.resources, resource)

Denied(policy, action, resource) ==
    \E s \in policy.statements : s.effect = "deny" /\ Hits(s, action, resource)

Granted(policy, action, resource) ==
    \E s \in policy.statements : s.effect = "allow" /\ Hits(s, action, resource)

\* evaluate: an explicit deny wins, then an allow, else the implicit deny.
Evaluate(policy, action, resource) ==
    IF ~Denied(policy, action, resource) /\ Granted(policy, action, resource)
    THEN "allow" ELSE "deny"

\* mayEver: some allow could grant the action and nothing denies it wholesale.
MayEver(policy, action) ==
    /\ ~ \E s \in policy.statements :
            /\ s.effect = "deny"
            /\ MatchesSome(s.actions, action)
            /\ Star \in s.resources
    /\ \E s \in policy.statements : s.effect = "allow" /\ MatchesSome(s.actions, action)

(***************************************************************************)
(* deriveSessionPolicy.                                                    *)
(***************************************************************************)

Delegates(parent, action) == MatchesSome(parent.delegable, action)

\* Actions on channels are granted with the channels, not as such.
Plain(actions) == actions \ ChannelNames

\* The parent may hand out every requested action and channel.
MayDerive(parent, actions, channels) ==
    /\ \A a \in actions : Delegates(parent, a)
    /\ \A a \in Plain(actions) : MayEver(parent, a)
    /\ \A c \in channels, a \in ChannelActions :
          Delegates(parent, a) /\ Evaluate(parent, a, c) = "allow"

NonEmpty(statements) == {s \in statements : s.actions # {} /\ s.resources # {}}

\* Mutant: the parent's denies are not copied.
DerivedWithoutDenies(parent, actions, channels) ==
    [statements |->
        NonEmpty({Allow(Plain(actions), {Star}), Allow(ChannelActions, channels)}),
     delegable |-> {a \in actions : Delegates(parent, a)}]

\* The session's policy: the requested allows, then every deny of the parent.
\* (The request doubles as the list of what the session may delegate.)
DerivedPolicy(parent, actions, channels) ==
    [statements |->
        NonEmpty({Allow(Plain(actions), {Star}), Allow(ChannelActions, channels)})
            \cup {s \in parent.statements : s.effect = "deny"},
     delegable |-> {a \in actions : Delegates(parent, a)}]

(***************************************************************************)
(* grantOverride.                                                          *)
(***************************************************************************)

\* A deny that covers the grant gives up the patterns that do so: those of the
\* action when it, or the grant, is about every resource, else those of the
\* resource.
Lifted(s, action, resource) ==
    IF s.effect # "deny" \/ ~Hits(s, action, resource) THEN s
    ELSE IF Star \in s.resources \/ resource = Star
    THEN [s EXCEPT !.actions = {p \in @ : ~Match(p, action)}]
    ELSE [s EXCEPT !.resources = {p \in @ : ~Match(p, resource)}]

\* Mutant: the allow is added and no deny is lifted.
GrantOnlyAdds(policy, action, resource) ==
    [policy EXCEPT !.statements = @ \cup {Allow({action}, {resource})}]

GrantOverride(policy, action, resource) ==
    [policy EXCEPT !.statements =
        NonEmpty({Lifted(s, action, resource) : s \in @}) \cup {Allow({action}, {resource})}]
=============================================================================
