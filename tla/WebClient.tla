----------------------------- MODULE WebClient -----------------------------
(***************************************************************************)
(* The web client's App (apps/web/src/App.tsx, api.ts): the auth gate, the *)
(* overview that is fetched every two seconds whether or not the fetch     *)
(* before has been answered, the selected channel and agent, and the       *)
(* human's requests, each followed by a fetch of its own.  The server      *)
(* reads the overview at one moment, the answer arrives at another, and    *)
(* answers overtake each other.                                            *)
(***************************************************************************)
EXTENDS Naturals, FiniteSets

CONSTANTS
    Channels,      \* channels that may come to exist
    Agents,        \* agents that may come to exist, with a DM each
    General,       \* the channel that always exists
    Dm(_),         \* Dm(a): the DM of an agent
    None,          \* nothing selected
    Slots,         \* bound: overview fetches in flight at a time
    Required,      \* whether the server wants a token
    MayFail        \* whether fetches may fail on the way

WebClientAssumption ==
    /\ General \in Channels
    /\ None \notin Channels \cup Agents
    /\ \A a \in Agents : Dm(a) \in Channels \ {General}
    /\ {Required, MayFail} \subseteq BOOLEAN
    /\ Slots # {}

VARIABLES
    server,    \* the server's channels and agents
    auth,      \* "checking", "failed" (no answer), "locked" or "open"
    token,     \* the token sent along: "none", "wrong", "right"
    stored,    \* the token in localStorage
    fetches,   \* overview fetches: the token sent, and what the server has read
    overview,  \* the overview that is shown, or NoOverview
    picked,    \* pickedDefault
    channel,   \* selectedChannelId
    agent,     \* selectedAgentId
    missing,   \* missingChannelPolls and missingAgentPolls
    act,       \* the request of the human that is under way
    made       \* channels and agents that were ever made: ids are not used again

session == <<auth, token, stored>>
selection == <<picked, channel, agent, missing>>
vars == <<server, session, fetches, overview, selection, act, made>>

NoOverview == [channels |-> {}, agents |-> {}]
NoAct == [op |-> "none", what |-> None, token |-> "none", at |-> "idle"]
Idle == [at |-> "idle", token |-> "none", data |-> NoOverview]
Tokens == {"none", "wrong", "right"}
Public == Channels \ {Dm(a) : a \in Agents}

Init ==
    /\ server = [channels |-> {General}, agents |-> {}]
    /\ auth = "checking"
    /\ token = "none"
    /\ stored \in IF Required THEN Tokens ELSE {"none"}
    /\ fetches = [s \in Slots |-> Idle]
    /\ overview = NoOverview
    /\ picked = FALSE
    /\ channel = None
    /\ agent = None
    /\ missing = [channel |-> 0, agent |-> 0]
    /\ act = NoAct
    /\ made = {General}

Accepted(t) == ~Required \/ t = "right"

(***************************************************************************)
(* The auth gate                                                           *)
(***************************************************************************)
\* The answer to /api/auth, or none.
Boot ==
    /\ auth = "checking"
    /\ \/ ~Required /\ auth' = "open" /\ UNCHANGED token
       \/ Required /\ stored # "none" /\ auth' = "open" /\ token' = stored
       \/ Required /\ stored = "none" /\ auth' = "locked" /\ UNCHANGED token
       \/ MayFail /\ auth' = "failed" /\ UNCHANGED token
    /\ UNCHANGED <<server, stored, fetches, overview, selection, act, made>>

\* The screen shown when there was none: all it offers is to load the page again.
Reload ==
    /\ auth = "failed"
    /\ auth' = "checking"
    /\ UNCHANGED <<server, token, stored, fetches, overview, selection, act, made>>

\* The unlock screen: a token is entered.
Unlock ==
    /\ auth = "locked"
    /\ auth' = "open"
    /\ token' \in {"wrong", "right"}
    /\ stored' = token'
    /\ UNCHANGED <<server, fetches, overview, selection, act, made>>

Lock == auth' = "locked" /\ token' = "none" /\ stored' = "none"

(***************************************************************************)
(* The overview                                                            *)
(***************************************************************************)
Free == {s \in Slots : fetches[s].at = "idle"}
Fetch(s) == [fetches EXCEPT ![s] = [Idle EXCEPT !.at = "sent", !.token = token]]

\* On opening and every two seconds from then on.
Poll ==
    /\ auth = "open"
    /\ \E s \in Free : fetches' = Fetch(s)
    /\ UNCHANGED <<server, session, overview, selection, act, made>>

ServerReads(s) ==
    /\ fetches[s].at = "sent" /\ Accepted(fetches[s].token)
    /\ fetches' = [fetches EXCEPT ![s].at = "read", ![s].data = server]
    /\ UNCHANGED <<server, session, overview, selection, act, made>>

Default(o) == IF General \in o.channels THEN General ELSE None

\* Mutant: what is missing is counted but never given up.
SettleNever(o) ==
    /\ picked' = TRUE
    /\ channel' = IF channel = None THEN Default(o) ELSE channel
    /\ UNCHANGED <<agent, missing>>

\* The effect of a new overview.  The first picks a channel; after that, what is
\* missing when the count stands at one is given up.
Settle(o) ==
    IF ~picked
    THEN /\ picked' = TRUE
         /\ channel' = IF channel = None THEN Default(o) ELSE channel
         /\ UNCHANGED <<agent, missing>>
    ELSE LET lostChannel == channel # None /\ channel \notin o.channels
             lostAgent == agent # None /\ agent \notin o.agents
             Again(n, lost) == IF lost THEN 1 - n ELSE 0
         IN  /\ channel' = IF channel = None \/ (lostChannel /\ missing.channel = 1)
                           THEN Default(o) ELSE channel
             /\ agent' = IF lostAgent /\ missing.agent = 1 THEN None ELSE agent
             /\ missing' = [channel |-> Again(missing.channel, lostChannel),
                            agent |-> Again(missing.agent, lostAgent)]
             /\ UNCHANGED picked

\* refreshOverview: the answer is shown, whenever it was read.
Arrive(s) ==
    /\ fetches[s].at = "read"
    /\ fetches' = [fetches EXCEPT ![s] = Idle]
    /\ overview' = fetches[s].data
    /\ Settle(fetches[s].data)
    /\ UNCHANGED <<server, session, act, made>>

\* 401: whichever token the request carried, the app locks and forgets its own.
Reject(s) ==
    /\ fetches[s].at = "sent" /\ ~Accepted(fetches[s].token)
    /\ fetches' = [fetches EXCEPT ![s] = Idle]
    /\ Lock
    /\ UNCHANGED <<server, overview, selection, act, made>>

\* The overview shown stays as it is.
FetchFails(s) ==
    /\ MayFail /\ fetches[s].at # "idle"
    /\ fetches' = [fetches EXCEPT ![s] = Idle]
    /\ UNCHANGED <<server, session, overview, selection, act, made>>

(***************************************************************************)
(* The human                                                               *)
(***************************************************************************)
\* The sidebar offers the channels and agents shown; an agent brings its DM.
SelectChannel(c) ==
    /\ auth = "open" /\ c \in overview.channels \cap Public
    /\ channel' = c
    /\ UNCHANGED <<server, session, fetches, overview, picked, agent, missing, act, made>>

SelectAgentAndDm(a) ==
    /\ auth = "open" /\ a \in overview.agents
    /\ agent' = a
    /\ channel' = Dm(a)
    /\ UNCHANGED <<server, session, fetches, overview, picked, missing, act, made>>

\* A dialog or a button sends a request; one at a time.
Ask(op, x) ==
    /\ auth = "open" /\ act = NoAct
    /\ CASE op = "createChannel" -> x \in Public \ {General}
         [] op = "createAgent" -> x \in Agents
         [] op = "deleteChannel" -> x \in (overview.channels \cap Public) \ {General}
         [] op = "deleteAgent" -> x \in overview.agents
    /\ act' = [op |-> op, what |-> x, token |-> token, at |-> "sent"]
    /\ UNCHANGED <<server, session, fetches, overview, selection, made>>

Changed(op, x) ==
    CASE op = "createChannel" -> [server EXCEPT !.channels = @ \cup {x}]
      [] op = "createAgent" -> [channels |-> server.channels \cup {Dm(x)},
                                agents |-> server.agents \cup {x}]
      [] op = "deleteChannel" -> [server EXCEPT !.channels = @ \ {x}]
      [] op = "deleteAgent" -> [channels |-> server.channels \ {Dm(x)},
                                agents |-> server.agents \ {x}]

ServerActs ==
    /\ act.at = "sent" /\ Accepted(act.token)
    /\ IF act.op \in {"createChannel", "createAgent"}
       THEN act.what \notin made
       ELSE act.what \in server.channels \cup server.agents
    /\ server' = Changed(act.op, act.what)
    /\ act' = [act EXCEPT !.at = "done"]
    /\ made' = made \cup {act.what}
    /\ UNCHANGED <<session, fetches, overview, selection>>

\* An agent, another browser or the parent of a session deletes a channel or agent.
Elsewhere ==
    /\ \/ \E c \in (server.channels \cap Public) \ {General} : server' = Changed("deleteChannel", c)
       \/ \E a \in server.agents : server' = Changed("deleteAgent", a)
    /\ UNCHANGED <<session, fetches, overview, selection, act, made>>

\* What is selected once the request has been carried out.
Selected(op, x) ==
    CASE op = "createChannel" -> [channel |-> x, agent |-> agent]
      [] op = "createAgent" -> [channel |-> channel, agent |-> x]
      [] op = "deleteChannel" -> [channel |-> IF channel = x THEN None ELSE channel, agent |-> agent]
      [] op = "deleteAgent" -> [channel |-> IF channel = Dm(x) THEN None ELSE channel,
                                agent |-> IF agent = x THEN None ELSE agent]

\* The answer: what was made is selected, what was deleted no longer is, and the
\* overview is fetched.
ActAnswered ==
    /\ act.at = "done"
    /\ LET now == Selected(act.op, act.what)
       IN  channel' = now.channel /\ agent' = now.agent
    /\ \E s \in Free : fetches' = Fetch(s)
    /\ act' = NoAct
    /\ UNCHANGED <<server, session, overview, picked, missing, made>>

\* The request or its answer is lost, or the server refuses it: nothing follows.
ActFails ==
    /\ act.at # "idle"
    /\ act.at = "sent" \/ MayFail
    /\ act' = NoAct
    /\ IF ~Accepted(act.token) THEN Lock ELSE UNCHANGED session
    /\ UNCHANGED <<server, fetches, overview, selection, made>>

Next ==
    \/ Boot \/ Reload \/ Unlock \/ Poll
    \/ \E s \in Slots : ServerReads(s)
    \/ \E s \in Slots : Arrive(s)
    \/ \E s \in Slots : Reject(s)
    \/ \E s \in Slots : FetchFails(s)
    \/ \E c \in Channels : SelectChannel(c)
    \/ \E a \in Agents : SelectAgentAndDm(a)
    \/ \E x \in Channels \cup Agents : Ask("createChannel", x)
    \/ \E x \in Channels \cup Agents : Ask("createAgent", x)
    \/ \E x \in Channels \cup Agents : Ask("deleteChannel", x)
    \/ \E x \in Channels \cup Agents : Ask("deleteAgent", x)
    \/ ServerActs \/ Elsewhere \/ ActAnswered \/ ActFails

\* The interval fires, the server reads and answers; a fetch may be lost now and
\* then, but not every fetch.
Fairness ==
    /\ WF_vars(Poll)
    /\ SF_vars(\E s \in Slots : ServerReads(s))
    /\ SF_vars(\E s \in Slots : Reject(s))
    /\ SF_vars(\E s \in Slots : Arrive(s))

Spec == Init /\ [][Next]_vars
FairSpec == Spec /\ Fairness
-----------------------------------------------------------------------------
\* The variables hold values of their types; only a miss of the first kind is ever
\* left counted, and what is selected may exist, though perhaps not yet or no more.
TypeOK ==
    /\ server \in [channels : SUBSET Channels, agents : SUBSET Agents]
    /\ auth \in {"checking", "failed", "locked", "open"}
    /\ token \in Tokens /\ stored \in Tokens
    /\ fetches \in [Slots -> [at : {"idle", "sent", "read"}, token : Tokens,
                             data : [channels : SUBSET Channels, agents : SUBSET Agents]]]
    /\ overview \in [channels : SUBSET Channels, agents : SUBSET Agents]
    /\ picked \in BOOLEAN
    /\ channel \in Channels \cup {None}
    /\ agent \in Agents \cup {None}
    /\ missing \in [channel : 0 .. 1, agent : 0 .. 1]
    /\ act.at \in {"idle", "sent", "done"}
    /\ server.channels \cup server.agents \subseteq made \cup {Dm(a) : a \in made \cap Agents}

\* An app that stays open comes to show the server's channels and agents, and keeps
\* showing them once those no longer change, however late or out of order answers
\* arrive.
CatchesUp == <>[](auth = "open") => <>[](overview = server)

\* A channel or agent that is gone does not stay selected in an app that stays
\* open, whoever deleted it and however the answers raced ("drop selections that
\* have gone missing").
GoneIsDropped ==
    <>[](auth = "open") =>
        <>[](channel \in server.channels /\ agent \in server.agents \cup {None})

\* An overview does not take the selection away from a channel the server still
\* has: the one fetch that may be in flight when a channel is created is one miss,
\* and one miss is forgiven (the comment on the effect).
\* Does not hold: see "Known divergences" in the README.
CreatedStaysSelected ==
    [][\A s \in Slots : Arrive(s) /\ channel # None /\ channel \in server.channels
            => channel' = channel]_vars

\* The app locks only when the token it now holds is refused ("That token was
\* rejected"), not over an answer to an earlier one.
\* Does not hold: see "Known divergences" in the README.
RejectedIsOwn ==
    [][auth = "open" /\ auth' = "locked" => ~Accepted(token)]_vars
=============================================================================
