--------------------------- MODULE MCConversation ---------------------------
(***************************************************************************)
(* Four deployments in one run.  "round", the one the configuration gives  *)
(* to Conversation: three agents that take turns on one post.  "chains":   *)
(* two of the agents, with all that makes chains branch and merge (tools,  *)
(* questions, failures, two posts of the human) and budgets of one.        *)
(* "direct": the same with a second channel, a direct message, and less    *)
(* said.  "talk": two agents that may answer each other for as long as the *)
(* chatter budget lets them; the bound on messages is never reached.       *)
(*                                                                         *)
(* Only "round" has the channel general, which RoundCompletes is about.    *)
(***************************************************************************)
EXTENDS Conversation

CONSTANTS a1, a2, a3, general, lounge, dm

VARIABLE setting   \* the deployment a behaviour is of

MCMembers == general :> {a1, a2, a3}
MCMentions == {{}, {a1, a2, a3}}

Two == {a1, a2}

C == INSTANCE Conversation WITH
    Channels <- {lounge}, Members <- lounge :> Two, Mentions <- {{}, Two},
    Asking <- BOOLEAN, TurnTaking <- FALSE, ChatterBudget <- 1, TraceBudget <- 1,
    MaxPosts <- 2, MaxTools <- 1, MayFail <- TRUE

D == INSTANCE Conversation WITH
    Channels <- {lounge, dm}, Members <- lounge :> Two @@ dm :> {a1}, Dms <- {dm},
    Mentions <- {{}, Two}, Asking <- BOOLEAN, TurnTaking <- FALSE, ChatterBudget <- 1, TraceBudget <- 1,
    MaxPosts <- 2, MaxMessages <- 3, MaxTools <- 1

T == INSTANCE Conversation WITH
    Channels <- {lounge}, Members <- lounge :> Two, Mentions <- SUBSET Two,
    ChatterBudget <- 3, TraceBudget <- 20, Asking <- {FALSE}, MaxMessages <- 20

ASSUME MCConversationAssumption ==
    /\ ConversationAssumption
    /\ C!ConversationAssumption /\ D!ConversationAssumption /\ T!ConversationAssumption

MCInit ==
    \/ setting = "round" /\ Init
    \/ setting = "chains" /\ C!Init
    \/ setting = "direct" /\ D!Init
    \/ setting = "talk" /\ T!Init

MCNext ==
    \/ setting = "round" /\ Next /\ UNCHANGED setting
    \/ setting = "chains" /\ C!Next /\ UNCHANGED setting
    \/ setting = "direct" /\ D!Next /\ UNCHANGED setting
    \/ setting = "talk" /\ T!Next /\ UNCHANGED setting

\* The fairness of Conversation in "talk", the deployment Settles is about.
MCFairness ==
    /\ WF_vars(setting = "talk" /\ \E k \in DOMAIN turns : T!QueueTurn(k))
    /\ WF_vars(setting = "talk" /\ \E r \in DOMAIN runs : T!RunStep(r) \/ T!Drain(r))

MCSpec == MCInit /\ [][MCNext]_<<setting, vars>> /\ MCFairness
-----------------------------------------------------------------------------
\* Agents alone do not talk for ever: there are no more runs than the chatter budget
\* gives, and once the human has stopped the channels come to rest.
TalkEnds == (setting = "talk") => []T!TalkIsBounded /\ T!Settles
=============================================================================
