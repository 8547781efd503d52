------------------------------ MODULE MCViews ------------------------------
(***************************************************************************)
(* The parts of the web client that fetch and poll are checked side by     *)
(* side: a behaviour is one of the app, with or without an access token,   *)
(* of the message list, or of the trace view; the others stay as they are. *)
(* The trace view gives its own names and constants, the others are        *)
(* instances.                                                              *)
(***************************************************************************)
EXTENDS TraceView

CONSTANTS general, work, dm, helper, none

VARIABLES
    part,           \* the part a behaviour is about
    server, auth, token, stored, fetches, overview, picked, channel, agent, missing, act, made,
    said, open, listEffect, shown, loading, failed, draft, sending, polls

appVars == <<server, auth, token, stored, fetches, overview, picked, channel, agent, missing, act, made>>
listVars == <<said, open, listEffect, shown, loading, failed, draft, sending, polls>>
vars == <<part, appVars, listVars, viewVars>>

MCDm(a) == dm

\* Three messages and one run; 9 stands for something outside the trace.
Shape(p2, r2, p3, r3, trigger) ==
    [root |-> 1,
     messages |-> <<[id |-> 1, parent |-> 0, run |-> 0, kind |-> "message"],
                    [id |-> 2, parent |-> p2, run |-> r2, kind |-> "message"],
                    [id |-> 3, parent |-> p3, run |-> r3, kind |-> "message"]>>,
     runs |-> {[id |-> 1, trigger |-> trigger]}]

\* Two that a conversation makes, and those with parents and triggers that are missing,
\* of another trace, or in a circle.
MCShapes ==
    {Shape(1, 0, 2, 1, 1), Shape(1, 1, 2, 0, 1)} \cup
    {Shape(p2, 1, p3, r3, trigger) :
        p2 \in {3, 9}, p3 \in {0, 2}, r3 \in {0, 1}, trigger \in {0, 3}}

\* The app of a server that wants no token, and of one that does and is hard to reach,
\* without agents.
W == INSTANCE WebClient WITH
    Channels <- {general, work, dm}, Agents <- {helper}, General <- general, Dm <- MCDm,
    None <- none, Slots <- {1, 2}, Required <- FALSE, MayFail <- FALSE

P == INSTANCE WebClient WITH
    Channels <- {general, work}, Agents <- {}, General <- general, Dm <- MCDm,
    None <- none, Slots <- {1, 2}, Required <- TRUE, MayFail <- TRUE

L == INSTANCE ChannelView WITH
    Channels <- {general, work}, None <- none, MaxPosts <- 1, MaxSwitches <- 2, MaxPolls <- 2,
    effect <- listEffect

ASSUME ViewsAssumption ==
    /\ W!WebClientAssumption /\ P!WebClientAssumption
    /\ L!ViewAssumption
    /\ TraceViewAssumption

Init ==
    /\ part \in {"app", "app with token", "list", "trace"}
    /\ IF part = "app with token" THEN P!Init ELSE W!Init
    /\ L!Init
    /\ ViewInit
    /\ part # "trace" => chain = [trace |-> Shape(1, 0, 2, 1, 1), live |-> FALSE]

InApp == part = "app" /\ UNCHANGED <<part, listVars, viewVars>>
InTokenApp == part = "app with token" /\ UNCHANGED <<part, listVars, viewVars>>
InList == part = "list" /\ UNCHANGED <<part, appVars, viewVars>>
InTrace == part = "trace" /\ UNCHANGED <<part, appVars, listVars>>

Next ==
    \/ InApp /\ W!Next
    \/ InTokenApp /\ P!Next
    \/ InList /\ L!Next
    \/ InTrace /\ ViewNext

\* The fairness of WebClient, ChannelView and TraceView.  Only the part at hand has a
\* step, so that one formula states it for all: timers fire; a server that is asked
\* again and again answers at times, with a refusal where one is due; and answers that
\* keep coming do not all get lost.
Asks ==
    \/ InApp /\ W!Poll
    \/ InTokenApp /\ P!Poll
    \/ InList /\ L!Tick
    \/ InTrace /\ Timer
Answers ==
    \/ InApp /\ \E s \in {1, 2} : W!ServerReads(s)
    \/ InTokenApp /\ \E s \in {1, 2} : P!ServerReads(s)
    \/ InList /\ L!Answered
    \/ InTrace /\ AnswerOk
Refuses == InTokenApp /\ \E s \in {1, 2} : P!Reject(s)
Arrives ==
    \/ InApp /\ \E s \in {1, 2} : W!Arrive(s)
    \/ InTokenApp /\ \E s \in {1, 2} : P!Arrive(s)
    \/ InList /\ L!Received
Discards ==
    \/ InList /\ L!Gone
    \/ InTrace /\ AnswerIgnored

Fairness ==
    /\ WF_vars(Asks) /\ WF_vars(Discards)
    /\ SF_vars(Answers) /\ SF_vars(Refuses) /\ SF_vars(Arrives)

Spec == Init /\ [][Next]_vars /\ Fairness
-----------------------------------------------------------------------------
\* An app that stays open comes to show the server's channels and agents, and drops a
\* selection that is gone, however late or out of order the answers arrive.
CatchesUp == W!CatchesUp /\ W!GoneIsDropped

\* While the human stays in a channel its list comes to be the channel's.
ListSettles == L!ListSettles
=============================================================================
