---------------------------- MODULE ChannelSync ----------------------------
(***************************************************************************)
(* Per-channel synchronisation of Volc Agent Launchpad: one channel, the   *)
(* agents that are woken by it, and the human who posts to it.             *)
(*                                                                         *)
(* A post by an agent (the post_message tool, or the automatic reply at    *)
(* the end of a run) takes the channel lock, then validates and commits in *)
(* one store mutation, then releases the lock.  Reads are cursors that the *)
(* server keeps in memory.  The store serialises mutations, so a mutation  *)
(* is one step here; everything between two awaits may interleave.         *)
(*                                                                         *)
(* A tool call is a request of its own: once the server has authorised it  *)
(* its handler goes on whatever becomes of the run that made it, and may   *)
(* wait for the lock, post and hold the lock when the run is over.         *)
(*                                                                         *)
(* Sources: apps/server/src/agent-service.ts, sync.ts and store.ts.        *)
(***************************************************************************)
EXTENDS Naturals, FiniteSets

CONSTANTS
    Agents,        \* the agents of the channel
    Slots,         \* bound: the tool calls of an agent that are under way
    User,          \* the human
    System,        \* the author of server notices
    Channel,       \* the lock key of the channel
    Nobody, NoKey, \* the null values of LockBackend
    Cards,         \* kinds of card agents post past the check: spawn, approval
    ConflictLimit, \* MAX_CONFLICTS_PER_TURN
    PromptWindow,  \* CONTEXT_MESSAGES: how many messages a wake prompt quotes
    ReadLimit,     \* how many messages read_channel returns
    MayRestart,    \* whether the server process may restart
    DiskMayFail,   \* whether writing the database file may fail
    MaxSeq         \* bound: length of the channel

\* Handlers of tool calls: <<a, s>> is one of a's.
Handlers == Agents \X Slots
Reply(a) == <<a, "reply">>
Post == <<User, "post">>

\* Who calls acquire: handlers of posts, finishRun, and the human's requests.
Callers == Handlers \cup {Reply(a) : a \in Agents} \cup {Post}

ASSUME ChannelAssumption ==
    /\ User \notin Agents /\ System \notin Agents /\ User # System
    /\ "reply" \notin Slots
    /\ Nobody \notin Callers
    /\ NoKey # Channel
    /\ Cards \subseteq {"spawn", "approval"}
    /\ ConflictLimit \in Nat /\ PromptWindow \in Nat /\ ReadLimit \in Nat /\ MaxSeq \in Nat
    /\ MayRestart \in BOOLEAN /\ DiskMayFail \in BOOLEAN

VARIABLES
    messages,   \* the channel's messages in the database
    lastSeq,    \* channel.lastSeq
    runSeen,    \* runSeen[a]: seenSeq of a's latest stored run woken here
    read,       \* read[a]: the in-memory read cursor
    phase,      \* phase[a]: where a's run is; "off" when it has none
    tool,       \* tool[h]: where the handler h is; "idle" when there is none
    counts,     \* the handlers whose conflicts are those of their agent's current run
    here,       \* here[a]: a's run was woken in this channel
    conflicts,  \* conflicts[a]: run.conflicts of a's current run; the attempt of its lost reply
    owed,       \* owed[a]: attempt of the conflict the pending wake carries, 0 if none
    human,      \* where the human's post is
    locks, waiters, call, key, released,    \* the lock backend
    shown,      \* history: the state-bearing messages of others a has been served
    base        \* history: the attempt a's current run inherited

rows == <<messages, lastSeq>>
handlerVars == <<tool, counts>>
lockVars == <<locks, waiters, call, key, released>>
vars == <<messages, lastSeq, runSeen, read, phase, tool, counts, here, conflicts, owed, human,
          locks, waiters, call, key, released, shown, base>>

Lock == INSTANCE LockBackend WITH Keys <- {Channel}, Actors <- Callers

\* "notice" stands for conflict and denial notices (authored by the agent) and
\* system notices: the kinds that take a seq and are not state.
Kinds == {"message", "spawn", "approval", "notice"}

\* Mutant: notices count as state.
NoticesAreState == Kinds
STATE_KINDS == {"message", "spawn", "approval"}

Message == [seq : 1..MaxSeq, author : Agents \cup {User, System}, kind : Kinds]

Phases == {"off", "run", "reply", "replyBusy", "replyDone", "replyLost", "replyFault", "failed"}

\* "calledHere": authorised, for a run that this channel woke; "called": for another.
HandlerStates == {"idle", "called", "calledHere", "lock", "done"}

Init ==
    /\ messages = {}
    /\ lastSeq = 0
    /\ runSeen = [a \in Agents |-> 0]
    /\ read = [a \in Agents |-> 0]
    /\ phase = [a \in Agents |-> "off"]
    /\ tool = [h \in Handlers |-> "idle"]
    /\ counts = {}
    /\ here = [a \in Agents |-> FALSE]
    /\ conflicts = [a \in Agents |-> 0]
    /\ owed = [a \in Agents |-> 0]
    /\ human = "idle"
    /\ shown = [a \in Agents |-> {}]
    /\ base = [a \in Agents |-> 0]
    /\ Lock!Init
-----------------------------------------------------------------------------
(* What a mutation reads and writes. *)

Seqs(S) == {m.seq : m \in S}
Larger(m, n) == IF m >= n THEN m ELSE n

\* The n newest of a set of messages.
Newest(S, n) == {m \in S : Cardinality({x \in S : x.seq >= m.seq}) <= n}

\* Serving S to a adds to its history what others did.
Serve(a, S) ==
    shown' = [shown EXCEPT ![a] =
                 @ \cup Seqs({m \in S : m.kind \in STATE_KINDS /\ m.author # a})]

StateMessages == {m \in messages : m.kind \in STATE_KINDS}

\* channelHead: the newest state-bearing message.
IsHead(m) == m \in StateMessages /\ \A x \in StateMessages : x.seq <= m.seq

\* Mutant: the cursor is compared off by one.
StaleOffByOne(a) == \E m \in messages : IsHead(m) /\ m.seq > read[a] + 1 /\ m.author # a

\* staleCheck: the head is newer than a's cursor, and not a's own.
Stale(a) == \E m \in messages : IsHead(m) /\ m.seq > read[a] /\ m.author # a

\* appendMessage, in a mutation that reaches the disk.
AppendMessage(author, kind) ==
    /\ lastSeq < MaxSeq
    /\ lastSeq' = lastSeq + 1
    /\ messages' = messages \cup {[seq |-> lastSeq + 1, author |-> author, kind |-> kind]}

\* ReadStateStore.advance never moves a cursor backwards.
Advance(a, seq) == read' = [read EXCEPT ![a] = Larger(@, seq)]

Goto(a, from, to) ==
    /\ phase[a] = from
    /\ phase' = [phase EXCEPT ![a] = to]

Move(h, from, to) ==
    /\ tool[h] = from
    /\ tool' = [tool EXCEPT ![h] = to]

\* What the handlers of a run do no longer counts for the agent's current run: its
\* reply has lost, with an attempt that stays what it is, or the run is over.
Detach(a) == counts' = {h \in counts : h[1] # a}

\* Bound: a step that leads to an append is taken only while the model has room
\* for it, so that no post that was started is ever stuck at MaxSeq.
InFlight ==
    {h \in Handlers : tool[h] = "lock"}
    \cup {a \in Agents : phase[a] \in {"reply", "replyBusy", "replyFault", "failed"}}
Room == lastSeq + Cardinality(InFlight) + (IF human = "posting" THEN 1 ELSE 0) < MaxSeq

\* What a run starts with: whether this channel woke it, and the conflicts it
\* inherits.  Nothing of it is left when it ends.
Begin(a, woken, attempt) ==
    /\ here' = [here EXCEPT ![a] = woken]
    /\ conflicts' = [conflicts EXCEPT ![a] = attempt]
    /\ base' = [base EXCEPT ![a] = attempt]

End(a) == Begin(a, FALSE, 0) /\ Detach(a)
-----------------------------------------------------------------------------
(* Runs. *)

\* buildChannelPrompt: what others wrote since the prompt of a's previous run
\* here, conflict and denial notices left out, the newest PromptWindow of it.
Prompt(a) ==
    LET since == {m \in messages : m.seq > runSeen[a] /\ m.author # a /\ (m.kind = "notice" => m.author = System)}
    IN  Newest(since, PromptWindow)

\* The conflicts the pending regenerate turn inherits.
Regenerate(a) ==
    /\ owed[a] > 0 /\ owed' = [owed EXCEPT ![a] = 0]
    /\ Begin(a, TRUE, owed[a])

\* startRun for a wake in this channel: a plain one, which needs something new
\* to show, or a regenerate turn.  Prompt and cursor come from one snapshot.
StartRun(a) ==
    /\ Goto(a, "off", "run")
    /\ \/ Prompt(a) # {} /\ Begin(a, TRUE, 0) /\ UNCHANGED owed
       \/ Regenerate(a)
    /\ Serve(a, Prompt(a))
    /\ runSeen' = [runSeen EXCEPT ![a] = lastSeq]
    /\ Advance(a, lastSeq)
    /\ UNCHANGED <<rows, handlerVars, human, lockVars>>

\* startRun's mutation cannot be written: no run, and the cursor has moved.
StartFault(a) ==
    /\ DiskMayFail
    /\ phase[a] = "off"
    /\ \/ Prompt(a) # {} /\ UNCHANGED owed
       \/ owed[a] > 0 /\ owed' = [owed EXCEPT ![a] = 0]
    /\ Advance(a, lastSeq)
    /\ UNCHANGED <<rows, runSeen, phase, handlerVars, here, conflicts, human, lockVars, shown, base>>

\* A run woken in another channel, which may post here with the tool or have
\* its reply routed here.
StartElsewhere(a) ==
    /\ Goto(a, "off", "run")
    /\ UNCHANGED <<rows, runSeen, read, handlerVars, here, conflicts, owed, human, lockVars, shown, base>>

\* A run that ends without posting here: [no reply], a reply posted elsewhere,
\* a cancelled run.  Its handlers may still be under way.
EndRun(a) ==
    /\ Goto(a, "run", "off")
    /\ End(a)
    /\ UNCHANGED <<rows, runSeen, read, tool, owed, human, lockVars, shown>>

\* executeRun's catch, after a runner failure or a failed finishRun: the system
\* notice is posted where the reply would have been, if it can be written.
FailRun(a) ==
    /\ \/ phase[a] = "run" /\ Room
       \/ phase[a] = "failed"
    /\ phase' = [phase EXCEPT ![a] = "off"]
    /\ \/ AppendMessage(System, "notice")
       \/ DiskMayFail /\ UNCHANGED rows
    /\ End(a)
    /\ UNCHANGED <<runSeen, read, tool, owed, human, lockVars, shown>>

\* cancelExecution drops what a had pending; so does a drain that finds the
\* agent not ready.
DropPending(a) ==
    /\ owed[a] > 0
    /\ owed' = [owed EXCEPT ![a] = 0]
    /\ UNCHANGED <<rows, runSeen, read, phase, handlerVars, here, conflicts, human, lockVars, shown, base>>

-----------------------------------------------------------------------------
(* Tool calls. *)

\* A call is authorised, after which its decision is written.  The token is good until
\* the run is over, though what is called once its reply was validated counts no more.
Call(h) ==
    /\ phase[h[1]] # "off"
    /\ Move(h, "idle", IF here[h[1]] THEN "calledHere" ELSE "called")
    /\ counts' = IF phase[h[1]] \in {"run", "reply"} THEN counts \cup {h} ELSE counts
    /\ UNCHANGED <<rows, runSeen, read, phase, here, conflicts, owed, human, lockVars, shown, base>>

\* A call is answered.
Answered(h, from) ==
    /\ Move(h, from, "idle")
    /\ counts' = counts \ {h}

\* agentReadChannel: the tail of the channel is served, and all of it counts.
ReadChannel(h) ==
    /\ \E from \in {"called", "calledHere"} : Answered(h, from)
    /\ Serve(h[1], Newest(messages, ReadLimit))
    /\ Advance(h[1], lastSeq)
    /\ UNCHANGED <<rows, runSeen, phase, here, conflicts, owed, human, lockVars, base>>

\* announceDenial: a call the policy denies leaves a notice by the agent in the
\* channel that woke its run.
Denied(h) ==
    /\ Answered(h, "calledHere") /\ Room
    /\ AppendMessage(h[1], "notice")
    /\ UNCHANGED <<runSeen, read, phase, here, conflicts, owed, human, lockVars, shown, base>>

\* agentSpawn and agentRequestCapability post a card in that channel, in a plain
\* mutation: no lock, no check, no cursor.
PostCard(h, kind) ==
    /\ Answered(h, "calledHere") /\ Room
    /\ AppendMessage(h[1], kind)
    /\ UNCHANGED <<runSeen, read, phase, here, conflicts, owed, human, lockVars, shown, base>>
-----------------------------------------------------------------------------
(* The post_message tool: agentChannelPost through performSynced. *)

ToolAcquire(h) ==
    /\ \E from \in {"called", "calledHere"} : Move(h, from, "lock")
    /\ Room
    /\ Lock!Acquire(h, Channel)
    /\ UNCHANGED <<rows, runSeen, read, phase, counts, here, conflicts, owed, human, shown, base>>

\* The wait timed out: a busy conflict for the caller, and no onConflict.
ToolTimeout(h) ==
    /\ Answered(h, "lock")
    /\ Lock!WaitTimeout(h)
    /\ UNCHANGED <<rows, runSeen, read, phase, here, conflicts, owed, human, shown, base>>

\* A conflict is counted and leaves a notice.  The cursor stays where it is.
Rejected(a, counted) ==
    /\ conflicts' = IF counted THEN [conflicts EXCEPT ![a] = @ + 1] ELSE conflicts
    /\ AppendMessage(a, "notice")
    /\ UNCHANGED read

\* commit: append, and the agent's own post counts as read.
Accepted(a) ==
    /\ AppendMessage(a, "message")
    /\ Advance(a, lastSeq')
    /\ UNCHANGED conflicts

\* validate and commit, in one mutation; countConflict goes by the call's own run.
ToolCommit(h) ==
    /\ Move(h, "lock", "done")
    /\ call[h] = "leased"
    /\ IF Stale(h[1]) THEN Rejected(h[1], h \in counts) ELSE Accepted(h[1])
    /\ UNCHANGED <<runSeen, phase, counts, here, owed, human, lockVars, shown, base>>

\* Mutant: the channel row keeps its new lastSeq.
ToolFaultHalf(h) ==
    /\ DiskMayFail
    /\ Move(h, "lock", "done")
    /\ call[h] = "leased"
    /\ IF Stale(h[1]) THEN UNCHANGED read ELSE Advance(h[1], lastSeq + 1)
    /\ lastSeq' = lastSeq + 1
    /\ UNCHANGED <<messages, runSeen, phase, counts, here, conflicts, owed, human, lockVars, shown, base>>

\* The same mutation when the file cannot be written: the rows roll back, the
\* cursor, which is not in the store, does not.
ToolFault(h) ==
    /\ DiskMayFail
    /\ Move(h, "lock", "done")
    /\ call[h] = "leased"
    /\ IF Stale(h[1]) THEN UNCHANGED read ELSE Advance(h[1], lastSeq + 1)
    /\ UNCHANGED <<rows, runSeen, phase, counts, here, conflicts, owed, human, lockVars, shown, base>>

ToolRelease(h) ==
    /\ Answered(h, "done")
    /\ Lock!Release(h)
    /\ UNCHANGED <<rows, runSeen, read, phase, here, conflicts, owed, human, shown, base>>
-----------------------------------------------------------------------------
(* The automatic reply: finishRun. *)

ReplyAcquire(a) ==
    /\ Goto(a, "run", "reply") /\ Room
    /\ Lock!Acquire(Reply(a), Channel)
    /\ UNCHANGED <<rows, runSeen, read, handlerVars, here, conflicts, owed, human, shown, base>>

\* The wait timed out: the run is completed with a busy conflict, without a lease.
ReplyTimeout(a) ==
    /\ Goto(a, "reply", "replyBusy")
    /\ Lock!WaitTimeout(Reply(a))
    /\ Detach(a)
    /\ UNCHANGED <<rows, runSeen, read, tool, here, conflicts, owed, human, shown, base>>

\* Mutant: the automatic reply is not checked.
ReplyUnchecked(a) ==
    /\ Goto(a, "reply", "replyDone")
    /\ call[Reply(a)] = "leased"
    /\ Accepted(a)
    /\ Detach(a)
    /\ UNCHANGED <<runSeen, tool, here, owed, human, lockVars, shown, base>>

ReplyAccepted(a) ==
    /\ Goto(a, "reply", "replyDone")
    /\ call[Reply(a)] = "leased"
    /\ ~Stale(a)
    /\ Accepted(a)
    /\ Detach(a)
    /\ UNCHANGED <<runSeen, tool, here, owed, human, lockVars, shown, base>>

\* Mutant: a busy channel is not treated as a conflict.
ReplyBusyDropped(a) ==
    /\ phase[a] = "reply" /\ call[Reply(a)] = "leased" /\ Stale(a)
    /\ phase' = [phase EXCEPT ![a] = "replyLost"]
    /\ Rejected(a, TRUE)
    /\ Detach(a)
    /\ UNCHANGED <<runSeen, tool, here, owed, human, lockVars, shown, base>>

ReplyRejected(a) ==
    /\ \/ phase[a] = "reply" /\ call[Reply(a)] = "leased" /\ Stale(a)
       \/ phase[a] = "replyBusy"
    /\ phase' = [phase EXCEPT ![a] = "replyLost"]
    /\ Rejected(a, TRUE)
    /\ Detach(a)
    /\ UNCHANGED <<runSeen, tool, here, owed, human, lockVars, shown, base>>

\* finishRun's mutation cannot be written; executeRun's catch comes next.
ReplyFault(a) ==
    /\ DiskMayFail
    /\ Goto(a, "reply", "replyFault")
    /\ call[Reply(a)] = "leased"
    /\ IF Stale(a) THEN UNCHANGED read ELSE Advance(a, lastSeq + 1)
    /\ UNCHANGED <<rows, runSeen, handlerVars, here, conflicts, owed, human, lockVars, shown, base>>

\* Mutant: the limit is not tested.
OwedUnbounded(a) == conflicts[a]
\* regenerateAfterConflict: the attempt the deferred wake carries.
Owed(a) == IF conflicts[a] <= ConflictLimit THEN conflicts[a] ELSE owed[a]

\* lease?.release(), then regenerateAfterConflict for a lost reply.
Settle(a) ==
    /\ \/ Goto(a, "replyDone", "off") /\ UNCHANGED owed
       \/ Goto(a, "replyLost", "off") /\ owed' = [owed EXCEPT ![a] = Owed(a)]
    /\ IF call[Reply(a)] = "leased" THEN Lock!Release(Reply(a)) ELSE UNCHANGED lockVars
    /\ End(a)
    /\ UNCHANGED <<rows, runSeen, read, tool, human, shown>>

\* finishRun throws: its mutation could not be written, or it was and the
\* decision row after it could not.  The lease is released on the way out.
SettleFault(a) ==
    /\ \/ phase[a] = "replyFault"
       \/ DiskMayFail /\ phase[a] \in {"replyDone", "replyLost"} /\ Room
    /\ phase' = [phase EXCEPT ![a] = "failed"]
    /\ IF call[Reply(a)] = "leased" THEN Lock!Release(Reply(a)) ELSE UNCHANGED lockVars
    /\ UNCHANGED <<rows, runSeen, read, handlerVars, here, conflicts, owed, human, shown, base>>
-----------------------------------------------------------------------------
(* The human's post, lease expiry, restart. *)

HumanAcquire ==
    /\ human = "idle" /\ human' = "posting" /\ Room
    /\ Lock!Acquire(Post, Channel)
    /\ UNCHANGED <<rows, runSeen, read, phase, handlerVars, here, conflicts, owed, shown, base>>

\* 503 "Channel is busy, try again".
HumanTimeout ==
    /\ human = "posting" /\ human' = "idle"
    /\ Lock!WaitTimeout(Post)
    /\ UNCHANGED <<rows, runSeen, read, phase, handlerVars, here, conflicts, owed, shown, base>>

HumanCommit ==
    /\ human = "posting" /\ human' = "posted"
    /\ call[Post] = "leased"
    /\ AppendMessage(User, "message")
    /\ UNCHANGED <<runSeen, read, phase, handlerVars, here, conflicts, owed, lockVars, shown, base>>

HumanRelease ==
    /\ human = "posted" /\ human' = "idle"
    /\ Lock!Release(Post)
    /\ UNCHANGED <<rows, runSeen, read, phase, handlerVars, here, conflicts, owed, shown, base>>

LeaseExpires(x) ==
    /\ Lock!LeaseExpires(x)
    /\ UNCHANGED <<rows, runSeen, read, phase, handlerVars, here, conflicts, owed, human, shown, base>>

\* seedReadState advances a's cursor through its runs and through every message
\* it authored, of whatever kind: it ends at the largest.
SeededAt(a, n) ==
    LET seen == {runSeen[a]} \cup Seqs({m \in messages : m.author = a})
    IN  n \in seen /\ \A x \in seen : x <= n

\* initialize after a crash: memory is gone and active runs are cancelled.
Restart ==
    /\ MayRestart
    /\ \E f \in [Agents -> 0..MaxSeq] : (\A a \in Agents : SeededAt(a, f[a])) /\ read' = f
    /\ phase' = [a \in Agents |-> "off"]
    /\ tool' = [h \in Handlers |-> "idle"]
    /\ counts' = {}
    /\ here' = [a \in Agents |-> FALSE]
    /\ conflicts' = [a \in Agents |-> 0]
    /\ owed' = [a \in Agents |-> 0]
    /\ base' = [a \in Agents |-> 0]
    /\ human' = "idle"
    /\ Lock!Reset
    /\ UNCHANGED <<rows, runSeen, shown>>

ToolStep(h) ==
    \/ Call(h) \/ ReadChannel(h) \/ Denied(h) \/ \E kind \in Cards : PostCard(h, kind)
    \/ ToolAcquire(h) \/ ToolTimeout(h) \/ ToolCommit(h) \/ ToolFault(h) \/ ToolRelease(h)

ReplyStep(a) ==
    \/ ReplyAcquire(a) \/ ReplyTimeout(a) \/ ReplyAccepted(a)
    \/ ReplyRejected(a) \/ ReplyFault(a) \/ Settle(a) \/ SettleFault(a)

RunStep(a) ==
    \/ StartRun(a) \/ StartFault(a) \/ StartElsewhere(a) \/ EndRun(a) \/ FailRun(a)
    \/ DropPending(a)

HumanStep == HumanAcquire \/ HumanTimeout \/ HumanCommit \/ HumanRelease

Next ==
    \/ \E a \in Agents : RunStep(a) \/ ReplyStep(a)
    \/ \E h \in Handlers : ToolStep(h)
    \/ HumanStep
    \/ \E x \in Callers : LeaseExpires(x)
    \/ Restart

Spec == Init /\ [][Next]_vars

\* A post that was begun goes on: the store's queue runs every mutation it was given,
\* timers fire, and finally blocks run.  Agents, the human and the disk promise nothing.
Fairness ==
    /\ \A h \in Handlers : WF_vars(ToolTimeout(h) \/ ToolCommit(h) \/ ToolRelease(h))
    /\ \A a \in Agents :
          WF_vars(\/ ReplyTimeout(a) \/ ReplyAccepted(a) \/ ReplyRejected(a)
                  \/ Settle(a) \/ SettleFault(a) \/ (FailRun(a) /\ phase[a] = "failed"))
    /\ WF_vars(HumanTimeout \/ HumanCommit \/ HumanRelease)

FairSpec == Spec /\ Fairness
-----------------------------------------------------------------------------
(* Properties. *)

\* Only handlers that are under way count.
HandlersOK ==
    /\ tool \in [Handlers -> HandlerStates]
    /\ counts \subseteq {h \in Handlers : tool[h] # "idle"}

\* Types and ranges.
TypeOK ==
    /\ messages \subseteq Message
    /\ lastSeq \in 0..MaxSeq
    /\ runSeen \in [Agents -> 0..MaxSeq]
    /\ read \in [Agents -> 0..(MaxSeq + 1)]
    /\ phase \in [Agents -> Phases]
    /\ HandlersOK
    /\ here \in [Agents -> BOOLEAN]
    /\ conflicts \in [Agents -> Nat]
    /\ owed \in [Agents -> Nat]
    /\ human \in {"idle", "posting", "posted"}
    /\ shown \in [Agents -> SUBSET (1..MaxSeq)]
    /\ base \in [Agents -> Nat]

\* seq is a 1-based, strictly increasing position without gaps or repeats, and
\* lastSeq is the newest, through rejected posts, failed writes and restarts.
SeqsIntact ==
    /\ Seqs(messages) = 1..lastSeq
    /\ \A m, n \in messages : m.seq = n.seq => m = n

\* A cursor is never ahead of the channel (the disk permitting): a message that
\* is yet to be written is never taken for one that was read.
CursorWithin == \A a \in Agents : read[a] <= lastSeq

\* What a cursor covers was served: every state-bearing message of somebody
\* else up to a's cursor was in a prompt or a read_channel answer given to a.
CursorCovers ==
    \A a \in Agents : \A m \in StateMessages :
        (m.author # a /\ m.seq <= read[a]) => m.seq \in shown[a]

Posts(a) == \E m \in messages' \ messages : m.author = a /\ m.kind = "message"

\* Read-before-act: an agent's post, by the tool or as the reply of its run, is
\* accepted only if the server has shown it every state-bearing message in the
\* channel, whatever leases expire and whoever else is between lock and commit.
ReadBeforeAct ==
    [][\A a \in Agents : Posts(a) =>
          Seqs({m \in StateMessages : m.author # a}) \subseteq shown[a]]_vars

\* The same as a refinement: agents and the human append to a shared log that
\* admits an agent's entry only after it has seen all the others.
Log == INSTANCE SharedLog WITH
    log <- {[seq |-> m.seq, author |-> m.author] : m \in StateMessages},
    view <- shown

SharedLogSpec == Log!Spec

\* An identical retry without re-reading fails again: a stale view stays stale
\* until the server serves the channel to that agent.
StaleUntilServed ==
    [][\A a \in Agents : (Stale(a) /\ ~Stale(a)') => read'[a] > read[a]]_vars

\* A server notice never makes anyone's view stale, so a lost race cannot feed
\* the next one.
NoticesKeepViews ==
    [][(messages' # messages /\ \A m \in messages' \ messages : m.kind = "notice")
          => \A a \in Agents : Stale(a)' => Stale(a)]_vars

\* A chain of regenerate turns ends: each lost reply owes a turn with a higher
\* attempt than the one its run inherited, and never past the limit.
RegenerateEnds ==
    [][\A a \in Agents : (owed'[a] # owed[a] /\ owed'[a] # 0) =>
          base[a] < owed'[a] /\ owed'[a] <= ConflictLimit]_vars

\* A lock is taken for one post: whoever is in the lock backend is inside one, and
\* leaves with it, whatever has become of the run that made the call.
PostsOwnLocks ==
    /\ \A h \in Handlers : call[h] # "idle" <=> tool[h] \in {"lock", "done"}
    /\ \A a \in Agents : call[Reply(a)] # "idle" =>
          phase[a] \in {"reply", "replyDone", "replyLost", "replyFault"}
    /\ \A a \in Agents : phase[a] \in {"reply", "replyDone"} => call[Reply(a)] # "idle"
    /\ (human # "idle") <=> (call[Post] # "idle")

\* "Locks are held for one mutation, never across a turn": no lock is held for an
\* agent that has no run.
\* Does not hold: see "Known divergences" in the README.
NoLockAcrossTurn ==
    \A h \in Handlers : call[h] = "leased" => phase[h[1]] # "off"

\* Every post is answered, accepted or refused, even when whoever holds the lock
\* never returns, the disk fails, the run ends meanwhile or the server restarts.
PostsAnswered ==
    /\ \A h \in Handlers : (tool[h] = "lock") ~> (tool[h] = "idle")
    /\ \A a \in Agents : (phase[a] = "reply") ~> (phase[a] = "off")
    /\ (human = "posting") ~> (human = "idle")

\* Conflicts are "counted across a regenerate chain and across tool posts in one
\* run" (docs/SYNCHRONISATION.md): a tool post that comes back without having been
\* posted is one of them.
ToolConflictsCounted ==
    [][\A h \in Handlers :
          (tool[h] = "lock" /\ tool'[h] = "idle" /\ h \in counts)
              => conflicts'[h[1]] = conflicts[h[1]] + 1]_vars

\* Windows of one message, failing writes and restarts: the server drops what it
\* may not have shown (agent-service.ts:2248) but neither leaves a gap or a repeat
\* in the numbers of the channel, nor a lock without the post it was taken for.
FaultsLeaveNoTrace == TypeOK /\ SeqsIntact /\ PostsOwnLocks
=============================================================================
