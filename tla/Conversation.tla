---------------------------- MODULE Conversation ----------------------------
(***************************************************************************)
(* Who speaks next, and where what is said belongs: how a message wakes    *)
(* agents (mentions, answers to questions, turn taking, chatter and trace  *)
(* budgets), and which parent and trace messages and runs are given        *)
(* (apps/server/src/agent-service.ts).                                     *)
(*                                                                         *)
(* A step is one handler up to the point where it has written: a message   *)
(* and the wakes it decides on, one queueTurn, one drain.  Inside a step   *)
(* nothing interleaves; Scheduler and ChannelSync are about that.          *)
(***************************************************************************)
EXTENDS TraceTree, SequencesExt

CONSTANTS
    Agents,        \* every agent is ready and may read every channel
    User,          \* the human
    System,        \* author of notices
    Channels,
    Members,       \* Members[c]: the agents in channel c
    Dms,           \* channels that are direct messages
    Mentions,      \* the sets of agents a text may mention
    Asking,        \* whether a text with a mention may expect a reply
    TurnTaking,    \* TURN_TAKING
    ChatterBudget, \* CHATTER_BUDGET
    TraceBudget,   \* TRACE_BUDGET
    MaxConflicts,  \* MAX_CONFLICTS_PER_TURN
    MaxPosts,      \* bound: messages of the human
    MaxTools,      \* bound: uses of post_message and read_channel per run
    MaxMessages,   \* bound: no more is said once there are so many messages
    MayFail        \* whether runs may fail

ConversationAssumption ==
    /\ IsFiniteSet(Agents) /\ {User, System} \cap Agents = {}
    /\ Members \in [Channels -> SUBSET Agents]
    /\ Dms \subseteq Channels
    /\ Mentions \subseteq SUBSET Agents
    /\ Asking \subseteq BOOLEAN
    /\ {TurnTaking, MayFail} \subseteq BOOLEAN
    /\ {ChatterBudget, TraceBudget, MaxConflicts, MaxPosts, MaxMessages} \subseteq Nat \ {0}
    /\ MaxTools \in Nat
    /\ None = 0 /\ None \notin Agents \cup Channels

VARIABLES
    messages,  \* the messages of all channels; an index is id, seq and time
    runs,      \* runs[r]: the r-th run
    reads,     \* reads[a][c]: the last message of c that a has been shown
    chatter,   \* chatter[c]: agent turns since the human spoke
    pending,   \* pendingWakes[a], in the order of the Map
    turns,     \* queueTurn calls on their way, oldest first
    noticed    \* traceNotices

vars == <<messages, runs, reads, chatter, pending, turns, noticed>>

Init ==
    /\ messages = <<>>
    /\ runs = <<>>
    /\ reads = [a \in Agents |-> [c \in Channels |-> 0]]
    /\ chatter = [c \in Channels |-> 0]
    /\ pending = [a \in Agents |-> <<>>]
    /\ turns = <<>>
    /\ noticed = {}

Engaged == {"running", "replied", "lost", "silent", "failed"}
\* activeExecutions: a run holds its agent until it has drained.
BusyAgent(a) == \E r \in DOMAIN runs : runs[r].agent = a /\ runs[r].at \in Engaged

Room == Len(messages) < MaxMessages
In(ms, c) == {i \in DOMAIN ms : ms[i].chan = c}
Latest(S) == IF S = {} THEN 0 ELSE CHOOSE i \in S : \A j \in S : j <= i
StateBearing(i) == messages[i].kind = "message"   \* STATE_KINDS

(***************************************************************************)
(* Messages: appendMessage, traceOfRun, replyLineage                       *)
(***************************************************************************)
\* to: the agents the text mentions; asks: it expects a reply.  A message
\* without a trace starts one.
Said(c, author, kind, r, lineage, to, asks) ==
    [id |-> Len(messages) + 1, chan |-> c, author |-> author, kind |-> kind, run |-> r,
     trace |-> IF lineage.trace = None THEN Len(messages) + 1 ELSE lineage.trace,
     parent |-> lineage.parent, to |-> to, asks |-> asks]

NoLineage == [trace |-> None, parent |-> None]
TraceOfRun(r) == [trace |-> runs[r].trace, parent |-> runs[r].trigger]

\* executeRun goes on with the run as it was started: a move by replyLineage is one
\* of the stored run only.
StartedTrace(r) == messages[runs[r].trigger].trace
TraceAsStarted(r) == [trace |-> StartedTrace(r), parent |-> runs[r].trigger]

Addresses(c, a, i) == c \in Dms \/ a \in messages[i].to

\* The newest message of the channel that the agent was shown and that belongs
\* to its run's chain or addressed it.
LineageTarget(a, c, r) ==
    Latest({i \in In(messages, c) :
        /\ i <= reads[a][c]
        /\ messages[i].author # a
        /\ StateBearing(i)
        /\ messages[i].trace = runs[r].trace \/ Addresses(c, a, i)})

ReplyLineage(a, c, r) ==
    LET target == LineageTarget(a, c, r)
    IN  IF target = 0 THEN TraceOfRun(r)
        ELSE [trace |-> messages[target].trace, parent |-> target]

(***************************************************************************)
(* Turn taking                                                             *)
(***************************************************************************)
\* participantOrder: the first run of each agent that has run in the trace and channel.
ParticipantOrder(rs, c, trace) ==
    LET mine == {r \in DOMAIN rs : rs[r].trace = trace /\ rs[r].chan = c}
    IN  {r \in mine : \A q \in mine : rs[q].agent = rs[r].agent => r <= q}

\* nextAfter: the agent that follows a in the order, the first one following the last.
NextAfter(rs, order, a) ==
    LET others == {r \in order : rs[r].agent # a}
        later == {r \in others : \E q \in order : rs[q].agent = a /\ q < r}
        Earliest(S) == CHOOSE r \in S : \A q \in S : r <= q
    IN  IF Cardinality(order) < 2 THEN None
        ELSE rs[Earliest(IF later # {} THEN later ELSE others)].agent

(***************************************************************************)
(* wakeMembers: the queueTurn calls for message m, or a pause              *)
(***************************************************************************)
Turn(a, c, i, reply, by) == [agent |-> a, chan |-> c, msg |-> i, reply |-> reply, by |-> by]

\* The message that woke m's author, if it asked the author something.
Question(m) ==
    LET i == IF m.run # None THEN runs[m.run].trigger ELSE m.parent
    IN  IF i # None /\ messages[i].author \in Agents \ {m.author}
           /\ m.author \in messages[i].to /\ messages[i].asks
        THEN i ELSE None

\* Where the asker was asked itself.
AskedIn(i) == IF messages[i].run = None THEN None ELSE runs[messages[i].run].reply

BudgetSpent(c, m) == m.author # User /\ chatter[c] >= ChatterBudget

Woken(c, m, rs) ==
    LET q == Question(m)
        asker == IF q = None THEN None ELSE messages[q].author
        next == IF TurnTaking /\ m.author # User /\ c \notin Dms
                THEN NextAfter(rs, ParticipantOrder(rs, c, m.trace), m.author) ELSE None
        addressed == {a \in Members[c] \cup (Agents \cap {asker}) :
                         a # m.author /\ (c \in Dms \/ a \in m.to \/ a \in {next, asker})}
    IN  SetToSeq({Turn(a, c, m.id, IF a = asker THEN AskedIn(q) ELSE None, m.run) : a \in addressed})

PauseNotice(c, after) ==
    [id |-> after.id + 1, chan |-> c, author |-> System, kind |-> "system", run |-> None,
     trace |-> after.id + 1, parent |-> None, to |-> {}, asks |-> FALSE]

\* m is appended, and its channel's members are woken or the channel pauses; rs
\* are the runs as m has left them.
AppendAndWake(c, m, rs) ==
    /\ chatter' = [chatter EXCEPT ![c] = IF m.author = User THEN 0 ELSE @ + 1]
    /\ IF BudgetSpent(c, m)
       THEN /\ messages' = messages \o
                 (IF chatter[c] = ChatterBudget THEN <<m, PauseNotice(c, m)>> ELSE <<m>>)
            /\ UNCHANGED turns
       ELSE /\ messages' = Append(messages, m)
            /\ turns' = turns \o Woken(c, m, rs)

\* postUserMessage
Posted == Cardinality({i \in DOMAIN messages : messages[i].author = User})
PostUserMessage(c, to) ==
    /\ Room /\ Posted < MaxPosts
    /\ AppendAndWake(c, Said(c, User, "message", None, NoLineage, to, FALSE), runs)
    /\ UNCHANGED <<runs, reads, pending, noticed>>

(***************************************************************************)
(* Starting runs                                                           *)
(***************************************************************************)
\* deferWake: one wake per channel, which keeps its place and its conflict.
Defer(a, c, i, lost) ==
    LET places == {k \in DOMAIN pending[a] : pending[a][k].chan = c}
    IN  IF places = {}
        THEN pending' = [pending EXCEPT ![a] = Append(@, [chan |-> c, msg |-> i, lost |-> lost])]
        ELSE \E k \in places :
                pending' = [pending EXCEPT ![a][k].msg = i, ![a][k].lost = IF lost > 0 THEN lost ELSE @]

\* buildChannelPrompt has something to say: a message the last prompt did not
\* cover, or a conflict.
LastSeen(a, c) ==
    Latest({0} \cup {runs[r].seen : r \in {q \in DOMAIN runs :
        runs[q].agent = a /\ runs[q].chan = c /\ runs[q].at # "running"}})
HasPrompt(a, c, lost) ==
    \/ lost > 0
    \/ \E i \in In(messages, c) :
          i > LastSeen(a, c) /\ messages[i].author # a /\ messages[i].kind # "conflict"

\* startRun, after which the run of r is over.
StartRun(a, c, reply, i, lost) ==
    /\ runs' = Append(runs,
          [agent |-> a, chan |-> c, reply |-> IF reply = None THEN c ELSE reply,
           trace |-> messages[i].trace, trigger |-> i, at |-> "running", silent |-> FALSE,
           seen |-> Latest(In(messages, c)), after |-> Len(messages), lost |-> lost, tools |-> 0])
    /\ reads' = [reads EXCEPT ![a][c] = Latest(In(messages, c))]

RunsOf(trace) == {r \in DOMAIN runs : runs[r].trace = trace}

\* traceExhausted
Exhausted(i) == messages[i].author # User /\ Cardinality(RunsOf(messages[i].trace)) >= TraceBudget
NoticesExhaustion(i) ==
    Cardinality(RunsOf(messages[i].trace)) = TraceBudget /\ messages[i].trace \notin noticed

\* The calls of one wakeMembers are made in order; those of several overlap.
Callable(k) == \A j \in 1 .. k - 1 : turns[j].msg # turns[k].msg

QueueTurn(k) ==
    LET t == turns[k]
        a == t.agent
        i == t.msg
    IN  /\ Callable(k)
        /\ turns' = RemoveAt(turns, k)
        /\ \/ /\ Room /\ Exhausted(i)
              /\ IF NoticesExhaustion(i)
                 THEN /\ noticed' = noticed \cup {messages[i].trace}
                      /\ messages' = Append(messages,
                            Said(t.chan, System, "system", None,
                                 [trace |-> messages[i].trace, parent |-> i], {}, FALSE))
                 ELSE UNCHANGED <<noticed, messages>>
              /\ UNCHANGED <<runs, reads, pending>>
           \/ /\ ~Exhausted(i) /\ BusyAgent(a)
              /\ Defer(a, t.chan, i, 0)
              /\ UNCHANGED <<messages, runs, reads, noticed>>
           \/ /\ ~Exhausted(i) /\ ~BusyAgent(a)
              /\ IF HasPrompt(a, t.chan, 0) THEN StartRun(a, t.chan, t.reply, i, 0)
                 ELSE UNCHANGED <<runs, reads>>
              /\ UNCHANGED <<messages, pending, noticed>>
        /\ UNCHANGED chatter

(***************************************************************************)
(* A run                                                                   *)
(***************************************************************************)
Running(r) == runs[r].at = "running"

\* read_channel
ReadChannel(r, c) ==
    /\ Running(r) /\ runs[r].tools < MaxTools
    /\ reads[runs[r].agent][c] # Latest(In(messages, c))
    /\ reads' = [reads EXCEPT ![runs[r].agent][c] = Latest(In(messages, c))]
    /\ runs' = [runs EXCEPT ![r].tools = @ + 1]
    /\ UNCHANGED <<messages, chatter, pending, turns, noticed>>

\* staleCheck: the newest message of the channel is another's and unseen.
Newest(c) == Latest({i \in In(messages, c) : StateBearing(i)})
Stale(a, c) == Newest(c) > reads[a][c] /\ messages[Newest(c)].author # a

\* A post that is accepted moves the run and its decisions to the chain it joins.
Accept(r, c, to, asks, at) ==
    LET a == runs[r].agent
        m == Said(c, a, "message", r, ReplyLineage(a, c, r), to, asks)
        moved == [runs EXCEPT ![r].trace = m.trace, ![r].at = at, ![r].tools = @ + 1]
    IN  /\ Room /\ ~Stale(a, c)
        /\ AppendAndWake(c, m, moved)
        /\ reads' = [reads EXCEPT ![a][c] = m.id]
        /\ runs' = moved

\* A post that is refused leaves a notice, which is not channel state.
Refuse(r, c, at) ==
    LET a == runs[r].agent
    IN  /\ Room /\ Stale(a, c)
        /\ messages' = Append(messages, Said(c, a, "conflict", r, TraceOfRun(r), {}, FALSE))
        /\ runs' = [runs EXCEPT ![r].lost = @ + 1, ![r].at = at, ![r].tools = @ + 1]
        /\ UNCHANGED <<reads, chatter, turns>>

PostMessage(r, c, to, asks) ==
    /\ Running(r) /\ runs[r].tools < MaxTools
    /\ runs[r].agent \in Members[c]
    /\ Accept(r, c, to, asks, "running") \/ Refuse(r, c, "running")
    /\ UNCHANGED <<pending, noticed>>

\* finishRun: the reply goes where the agent was asked.
Reply(r, to, asks) ==
    /\ Running(r)
    /\ Accept(r, runs[r].reply, to, asks, "replied")
    /\ UNCHANGED <<pending, noticed>>

\* A reply that lost a race owes its agent another turn, within the limit.
LoseReply(r) ==
    LET a == runs[r].agent
        c == runs[r].reply
    IN  /\ Running(r)
        /\ Refuse(r, c, "lost")
        /\ IF runs[r].lost + 1 > MaxConflicts THEN UNCHANGED pending
           ELSE Defer(a, c, Latest({i \in In(messages, c) :
                                      StateBearing(i) /\ messages[i].author # a}), runs[r].lost + 1)
        /\ UNCHANGED noticed

\* Mutant: a silent turn ends the round.
MayPassNever(r) == FALSE

\* Not every other participant has passed since the last message.
MayPass(r) ==
    LET c == runs[r].chan
        passes == {q \in DOMAIN runs : /\ runs[q].chan = c /\ runs[q].trace = StartedTrace(r)
                                       /\ runs[q].silent \/ q = r
                                       /\ runs[q].after >= Newest(c)}
    IN  Cardinality(passes) < Cardinality(ParticipantOrder(runs, c, StartedTrace(r))) - 1

\* passTurn after a run that said nothing, in the trace the run started in.
StaySilent(r) ==
    LET c == runs[r].chan
        next == NextAfter(runs, ParticipantOrder(runs, c, StartedTrace(r)), runs[r].agent)
        passed == /\ TurnTaking /\ c \notin Dms
                  /\ messages[Newest(c)].trace = StartedTrace(r)
                  /\ MayPass(r)
                  /\ next \in Members[c] \ {messages[Newest(c)].author}
    IN  /\ Running(r)
        /\ runs' = [runs EXCEPT ![r].at = "silent", ![r].silent = TRUE]
        /\ turns' = IF passed THEN Append(turns, Turn(next, c, Newest(c), None, r)) ELSE turns
        /\ UNCHANGED <<messages, reads, chatter, pending, noticed>>

\* A failed run says so in the trace it started in, wherever its posts have moved it.
Fail(r) ==
    /\ Room /\ MayFail /\ Running(r)
    /\ messages' = Append(messages, Said(runs[r].reply, System, "system", r, TraceAsStarted(r), {}, FALSE))
    /\ runs' = [runs EXCEPT ![r].at = "failed"]
    /\ UNCHANGED <<reads, chatter, pending, turns, noticed>>

\* Mutant: a run that lost its race is not drained.
DrainUnlessLost(r) ==
    /\ runs[r].at \in Engaged \ {"running", "lost"}
    /\ pending[runs[r].agent] = <<>>
    /\ runs' = [runs EXCEPT ![r].at = "done"]
    /\ UNCHANGED <<messages, reads, chatter, pending, turns, noticed>>

\* drainPendingWakes: once the wakes of the run's own reply have been queued the
\* oldest deferred one is started.  The agent of a failed run starts none.
Drain(r) ==
    LET a == runs[r].agent
        w == pending[a][1]
    IN  /\ runs[r].at \in Engaged \ {"running"}
        /\ \A k \in DOMAIN turns : turns[k].by # r
        /\ IF pending[a] = <<>>
           THEN runs' = [runs EXCEPT ![r].at = "done"] /\ UNCHANGED <<reads, pending>>
           ELSE /\ pending' = [pending EXCEPT ![a] = Tail(@)]
                /\ IF runs[r].at = "failed"
                   THEN runs' = [runs EXCEPT ![r].at = "done"] /\ UNCHANGED reads
                   ELSE IF HasPrompt(a, w.chan, w.lost)
                   THEN /\ reads' = [reads EXCEPT ![a][w.chan] = Latest(In(messages, w.chan))]
                        /\ runs' = Append([runs EXCEPT ![r].at = "done"],
                              [agent |-> a, chan |-> w.chan, reply |-> w.chan,
                               trace |-> messages[w.msg].trace, trigger |-> w.msg,
                               at |-> "running", silent |-> FALSE,
                               seen |-> Latest(In(messages, w.chan)), after |-> Len(messages),
                               lost |-> w.lost, tools |-> 0])
                   ELSE UNCHANGED <<runs, reads>>
        /\ UNCHANGED <<messages, chatter, turns, noticed>>

(***************************************************************************)
(* getTrace: what the web client is shown of the chain of message i        *)
(***************************************************************************)
GetTrace(i) ==
    LET trace == messages[i].trace
    IN  [root |-> trace,
         messages |-> Restrict(messages,
                         {j \in DOMAIN messages : messages[j].trace = trace /\ messages[j].kind # "conflict"}),
         runs |-> {[id |-> r, trigger |-> runs[r].trigger] : r \in RunsOf(trace)}]

RunStep(r) ==
    \/ \E to \in {m \ {runs[r].agent} : m \in Mentions} : \E asks \in IF to = {} THEN {FALSE} ELSE Asking :
          Reply(r, to, asks) \/ \E c \in Channels : PostMessage(r, c, to, asks)
    \/ \E c \in Channels : ReadChannel(r, c)
    \/ LoseReply(r) \/ StaySilent(r) \/ Fail(r)

Next ==
    \/ \E c \in Channels, to \in Mentions : PostUserMessage(c, to)
    \/ \E k \in DOMAIN turns : QueueTurn(k)
    \/ \E r \in DOMAIN runs : RunStep(r) \/ Drain(r)

Spec == Init /\ [][Next]_vars

\* Calls are made, and a run uses its tools so often and no more, then ends
\* (the runner's timeouts).
Fairness ==
    /\ WF_vars(\E k \in DOMAIN turns : QueueTurn(k))
    /\ WF_vars(\E r \in DOMAIN runs : RunStep(r) \/ Drain(r))

FairSpec == Spec /\ Fairness
-----------------------------------------------------------------------------
(***************************************************************************)
(* Properties                                                              *)
(***************************************************************************)
TypeOK ==
    /\ \A i \in DOMAIN messages : messages[i].id = i /\ messages[i].trace \in 1 .. i
    /\ \A r \in DOMAIN runs : runs[r].trigger \in DOMAIN messages /\ runs[r].agent \in Agents
    /\ \A k \in DOMAIN turns : turns[k].msg \in DOMAIN messages
    /\ \A a \in Agents : \A c \in DOMAIN reads[a] :
          reads[a][c] <= Len(messages) /\ Cardinality({k \in DOMAIN pending[a] : pending[a][k].chan = c}) <= 1

\* Every chain starts with a message that nothing caused, and what a message
\* answers was said before it.
Rooted ==
    \A i \in DOMAIN messages :
        LET m == messages[i]
        IN  /\ messages[m.trace].trace = m.trace
            /\ m.parent # None => m.parent < i
            /\ m.parent = None => m.trace = i

\* No run and message of a trace hang off each other in a circle, though runs
\* move from chain to chain: the tree needs no guard, and shows everything.
TreesWhole ==
    \A i \in DOMAIN messages : messages[i].trace = i => Acyclic(GetTrace(i))

\* In the timeline of any chain every reply stands deeper than what it answers, and
\* every run deeper than the message it hangs off, though chains merge and what a
\* message answers may be in another one.
RepliesIndented ==
    \A i \in DOMAIN messages : messages[i].trace = i => Indented(GetTrace(i))

\* Chains of messages and runs stay whole.
ChainsWhole == TypeOK /\ Rooted /\ TreesWhole /\ RepliesIndented

Quiet == turns = <<>> /\ \A a \in Agents : ~BusyAgent(a)

\* Once the human has stopped the channels come to rest: no agent stays engaged
\* and no wake stays on its way.
Settles == <>[]Quiet

\* Agents alone do not talk forever: each message of the human wakes every member
\* at most, each agent turn within the budget every other agent, and each of
\* these is repeated only as often as it may lose a race.
RunLimit ==
    LET n == Cardinality(UNION {Members[c] : c \in Channels})
    IN  MaxPosts * (n + (n - 1) * ChatterBudget) * (1 + MaxConflicts)
TalkIsBounded == Len(runs) <= RunLimit

\* When a collaboration rests on a message of an agent, within the budgets and
\* with no failures, every other participant has been shown that message.
RoundCompletes ==
    \A c \in Channels \ Dms :
        LET h == Newest(c)
            order == ParticipantOrder(runs, c, messages[h].trace)
        IN  TurnTaking /\ Quiet /\ h # 0 =>
              (messages[h].author # User /\ chatter[c] <= ChatterBudget
                 /\ Cardinality(RunsOf(messages[h].trace)) < TraceBudget /\ Cardinality(order) > 1
               => \A q \in order : runs[q].agent \in Members[c] \ {messages[h].author} =>
                     \E r \in DOMAIN runs : runs[r].agent = runs[q].agent /\ runs[r].chan = c /\ runs[r].seen >= h)

\* "so a trace holds every turn that contributed to it"
\* Does not hold: see "Known divergences" in the README.
TraceHoldsTurns ==
    \A i \in DOMAIN messages : messages[i].run # None => runs[messages[i].run].trace = messages[i].trace

\* "One prompt may cause at most TRACE_BUDGET agent runs in total"
\* Does not hold: see "Known divergences" in the README.
TraceBudgetHolds ==
    \A i \in DOMAIN messages :
        Cardinality({r \in RunsOf(messages[i].trace) : messages[runs[r].trigger].author # User}) <= TraceBudget
=============================================================================
