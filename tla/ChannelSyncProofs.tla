------------------------- MODULE ChannelSyncProofs -------------------------
(***************************************************************************)
(* Proofs about ChannelSync for any set of agents and any length of the    *)
(* channel.  What an agent was shown when it posts does not depend on the  *)
(* lock: the check and the append are one store mutation, and a lease that *)
(* expires makes no difference; nor does it depend on the run that made    *)
(* the call being there still.  The last part is about the lock, and rests *)
(* on what LockBackendProofs proves of it.                                 *)
(***************************************************************************)
EXTENDS ChannelSync, Sequences, FiniteSetTheorems, TLAPS

Authors == Agents \cup {User, System}

-----------------------------------------------------------------------------
(* Types. *)

LEMMA AppendType ==
    ASSUME TypeOK, NEW author \in Authors, NEW kind \in Kinds, AppendMessage(author, kind)
    PROVE  /\ messages' \subseteq Message
           /\ lastSeq' \in 0..MaxSeq /\ lastSeq' = lastSeq + 1
  BY ChannelAssumption DEF TypeOK, AppendMessage, Message, Authors

LEMMA AdvanceType ==
    ASSUME TypeOK, NEW a \in Agents, NEW n \in 0..(MaxSeq + 1), Advance(a, n)
    PROVE  read' \in [Agents -> 0..(MaxSeq + 1)]
  BY ChannelAssumption DEF TypeOK, Advance, Larger

LEMMA ServeType ==
    ASSUME TypeOK, NEW a \in Agents, NEW S, S \subseteq messages, Serve(a, S)
    PROVE  shown' \in [Agents -> SUBSET (1..MaxSeq)]
<1>1. Seqs({m \in S : m.kind \in STATE_KINDS /\ m.author # a}) \subseteq 1..MaxSeq
  BY DEF TypeOK, Seqs, Message
<1> QED BY <1>1 DEF TypeOK, Serve

LEMMA PromptSubset ==
    ASSUME NEW a \in Agents
    PROVE  Prompt(a) \subseteq messages /\ Newest(messages, ReadLimit) \subseteq messages
  BY DEF Prompt, Newest

\* What a refused post does to the rows, the cursors and the counts.
Rejects(a) ==
    /\ conflicts' \in {conflicts, [conflicts EXCEPT ![a] = @ + 1]}
    /\ AppendMessage(a, "notice")
    /\ UNCHANGED read

LEMMA HandlerOf ==
    ASSUME NEW h \in Handlers
    PROVE  h[1] \in Agents
  BY DEF Handlers

\* A handler that moves on, and one that leaves.
LEMMA HandlerMoves ==
    ASSUME HandlersOK, NEW h \in Handlers, NEW from, NEW to \in HandlerStates
    PROVE  /\ Move(h, from, to) /\ to # "idle" /\ (counts' = counts \/ counts' = counts \cup {h}) => HandlersOK'
           /\ Answered(h, from) => HandlersOK'
<1>1. ASSUME tool' = [tool EXCEPT ![h] = to] PROVE tool' \in [Handlers -> HandlerStates] /\ tool'[h] = to
                                                  /\ \A g \in Handlers : g # h => tool'[g] = tool[g]
  BY <1>1 DEF HandlersOK
<1>2. Move(h, from, to) /\ to # "idle" /\ (counts' = counts \/ counts' = counts \cup {h}) => HandlersOK'
  BY <1>1 DEF HandlersOK, Move
<1>3. ASSUME Answered(h, from) PROVE HandlersOK'
  <2>1. tool' = [tool EXCEPT ![h] = "idle"] /\ counts' = counts \ {h}
    BY <1>3 DEF Answered, Move
  <2>2. tool' \in [Handlers -> HandlerStates] /\ \A g \in Handlers : g # h => tool'[g] = tool[g]
    BY <2>1 DEF HandlersOK, HandlerStates
  <2> QED BY <2>1, <2>2 DEF HandlersOK
<1> QED BY <1>2, <1>3

LEMMA HandlersStep ==
    ASSUME HandlersOK, [Next]_vars
    PROVE  HandlersOK'
<1>0. /\ UNCHANGED handlerVars => HandlersOK'
      /\ \A a \in Agents : Detach(a) /\ tool' = tool => HandlersOK'
  BY DEF HandlersOK, handlerVars, Detach
<1>1. ASSUME NEW a \in Agents, RunStep(a) PROVE HandlersOK'
  <2>1. UNCHANGED handlerVars \/ (Detach(a) /\ tool' = tool)
    BY <1>1 DEF RunStep, StartRun, StartFault, StartElsewhere, EndRun, FailRun, DropPending, End, handlerVars
  <2> QED BY <1>0, <2>1
<1>2. ASSUME NEW a \in Agents, ReplyStep(a) PROVE HandlersOK'
  <2>1. UNCHANGED handlerVars \/ (Detach(a) /\ tool' = tool)
    BY <1>2 DEF ReplyStep, ReplyAcquire, ReplyTimeout, ReplyAccepted, ReplyRejected, ReplyFault,
                Settle, SettleFault, End, handlerVars
  <2> QED BY <1>0, <2>1
<1>3. ASSUME NEW h \in Handlers, ToolStep(h) PROVE HandlersOK'
  <2>1. \/ \E from : Answered(h, from)
        \/ \E from, to \in HandlerStates \ {"idle"} : Move(h, from, to) /\ counts' = counts
        \/ \E to \in HandlerStates \ {"idle"} : Move(h, "idle", to) /\ counts' \in {counts, counts \cup {h}}
    <3>1. CASE Call(h)
      <4>1. PICK to \in HandlerStates \ {"idle"} : to = IF here[h[1]] THEN "calledHere" ELSE "called"
        BY DEF HandlerStates
      <4> QED BY <3>1, <4>1 DEF Call
    <3>2. CASE ReadChannel(h) \/ Denied(h) \/ (\E kind \in Cards : PostCard(h, kind)) \/ ToolTimeout(h) \/ ToolRelease(h)
      BY <3>2 DEF ReadChannel, Denied, PostCard, ToolTimeout, ToolRelease
    <3>3. CASE ToolAcquire(h) \/ ToolCommit(h) \/ ToolFault(h)
      BY <3>3 DEF ToolAcquire, ToolCommit, ToolFault, HandlerStates
    <3> QED BY <1>3, <3>1, <3>2, <3>3 DEF ToolStep
  <2>2. "idle" \in HandlerStates
    BY DEF HandlerStates
  <2> QED BY <2>1, <2>2, HandlerMoves
<1>4. CASE HumanStep \/ (\E x \in Callers : LeaseExpires(x)) \/ UNCHANGED vars
  BY <1>0, <1>4 DEF HumanStep, HumanAcquire, HumanTimeout, HumanCommit, HumanRelease, LeaseExpires, vars, handlerVars
<1>5. CASE Restart
  BY <1>5 DEF Restart, HandlersOK, HandlerStates
<1> QED BY <1>1, <1>2, <1>3, <1>4, <1>5 DEF Next

LEMMA TypeStep ==
    ASSUME TypeOK, [Next]_vars
    PROVE  TypeOK'
<1> USE ChannelAssumption
<1>h. HandlersOK'
  BY HandlersStep DEF TypeOK
<1>0. /\ lastSeq \in Nat /\ lastSeq \in 0..(MaxSeq + 1) /\ lastSeq + 1 \in 0..(MaxSeq + 1)
      /\ {"message", "notice"} \cup Cards \subseteq Kinds
  BY DEF TypeOK, Kinds
<1>1. ASSUME NEW a \in Agents, StartRun(a) PROVE TypeOK'
  <2>1. Advance(a, lastSeq) /\ Serve(a, Prompt(a)) /\ UNCHANGED rows
    BY <1>1 DEF StartRun
  <2>2. read' \in [Agents -> 0..(MaxSeq + 1)] /\ shown' \in [Agents -> SUBSET (1..MaxSeq)]
    BY <2>1, <1>0, AdvanceType, ServeType, PromptSubset
  <2>3. \E attempt \in Nat : Begin(a, TRUE, attempt)
    <3>1. CASE Begin(a, TRUE, 0)
      BY <3>1
    <3>2. CASE Begin(a, TRUE, owed[a])
      BY <3>2 DEF TypeOK
    <3> QED BY <1>1, <3>1, <3>2 DEF StartRun, Regenerate
  <2>4. owed' \in [Agents -> Nat]
    <3>1. owed' = owed \/ owed' = [owed EXCEPT ![a] = 0]
      BY <1>1 DEF StartRun, Regenerate
    <3> QED BY <3>1 DEF TypeOK
  <2>5. /\ here' \in [Agents -> BOOLEAN]
        /\ conflicts' \in [Agents -> Nat] /\ base' \in [Agents -> Nat]
    BY <2>3 DEF Begin, TypeOK
  <2>6. runSeen' \in [Agents -> 0..MaxSeq] /\ phase' \in [Agents -> Phases]
    BY <1>1, <1>0 DEF StartRun, Goto, Phases, TypeOK
  <2> QED BY <1>1, <1>h, <2>2, <2>4, <2>5, <2>6 DEF TypeOK, StartRun, rows
<1>2. ASSUME NEW a \in Agents, StartFault(a) PROVE TypeOK'
  <2>1. read' \in [Agents -> 0..(MaxSeq + 1)]
    BY <1>2, <1>0, AdvanceType DEF StartFault
  <2> QED BY <1>2, <1>h, <2>1 DEF TypeOK, StartFault, rows
<1>3. ASSUME NEW a \in Agents, StartElsewhere(a) PROVE TypeOK'
  BY <1>3, <1>h DEF TypeOK, StartElsewhere, Goto, Phases, rows
<1>4. ASSUME NEW a \in Agents, EndRun(a) PROVE TypeOK'
  BY <1>4, <1>h DEF TypeOK, EndRun, End, Begin, Goto, Phases, rows
<1>5. ASSUME NEW a \in Agents, FailRun(a) PROVE TypeOK'
  <2>1. messages' \subseteq Message /\ lastSeq' \in 0..MaxSeq
    BY <1>5, <1>0, AppendType DEF FailRun, TypeOK, Authors, rows
  <2> QED BY <1>5, <1>h, <2>1 DEF TypeOK, FailRun, End, Begin, Phases
<1>6. ASSUME NEW a \in Agents, DropPending(a) PROVE TypeOK'
  BY <1>6, <1>h DEF TypeOK, DropPending, rows
<1>7. ASSUME NEW a \in Agents, NEW h \in Handlers, a = h[1], ReadChannel(h) PROVE TypeOK'
  <2>1. Advance(a, lastSeq) /\ Serve(a, Newest(messages, ReadLimit)) /\ UNCHANGED rows
    BY <1>7 DEF ReadChannel
  <2>2. read' \in [Agents -> 0..(MaxSeq + 1)] /\ shown' \in [Agents -> SUBSET (1..MaxSeq)]
    BY <2>1, <1>0, AdvanceType, ServeType, PromptSubset
  <2> QED BY <1>7, <1>h, <2>2 DEF TypeOK, ReadChannel, rows
<1>8. ASSUME NEW a \in Agents, NEW h \in Handlers, a = h[1], Denied(h) PROVE TypeOK'
  <2>1. messages' \subseteq Message /\ lastSeq' \in 0..MaxSeq
    BY <1>8, <1>0, AppendType DEF Denied, Authors
  <2> QED BY <1>8, <1>h, <2>1 DEF TypeOK, Denied
<1>9. ASSUME NEW a \in Agents, NEW h \in Handlers, a = h[1], NEW kind \in Cards, PostCard(h, kind) PROVE TypeOK'
  <2>1. messages' \subseteq Message /\ lastSeq' \in 0..MaxSeq
    BY <1>9, <1>0, AppendType DEF PostCard, Authors
  <2> QED BY <1>9, <1>h, <2>1 DEF TypeOK, PostCard
<1>10. ASSUME NEW a \in Agents, Rejects(a) \/ Accepted(a)
       PROVE  /\ messages' \subseteq Message /\ lastSeq' \in 0..MaxSeq
              /\ read' \in [Agents -> 0..(MaxSeq + 1)]
              /\ conflicts' \in [Agents -> Nat]
  <2>1. CASE Rejects(a)
    <3>1. messages' \subseteq Message /\ lastSeq' \in 0..MaxSeq
      BY <2>1, <1>0, AppendType DEF Rejects, Authors
    <3> QED BY <2>1, <3>1 DEF Rejects, TypeOK
  <2>2. CASE Accepted(a)
    <3>1. messages' \subseteq Message /\ lastSeq' \in 0..MaxSeq
      BY <2>2, <1>0, AppendType DEF Accepted, Authors
    <3>2. lastSeq' \in 0..(MaxSeq + 1)
      BY <3>1
    <3>3. read' \in [Agents -> 0..(MaxSeq + 1)]
      BY <2>2, <3>2, AdvanceType DEF Accepted
    <3> QED BY <2>2, <3>1, <3>3 DEF Accepted, TypeOK
  <2> QED BY <1>10, <2>1, <2>2
<1>11. ASSUME NEW h \in Handlers, ToolStep(h) PROVE TypeOK'
  <2>a. PICK a \in Agents : a = h[1]
    BY HandlerOf
  <2>1. CASE Call(h)
    BY <2>1, <1>h DEF TypeOK, Call, rows
  <2>2. CASE ToolAcquire(h) \/ ToolTimeout(h) \/ ToolRelease(h)
    BY <2>2, <1>h DEF TypeOK, ToolAcquire, ToolTimeout, ToolRelease, rows
  <2>3. CASE ToolCommit(h)
    <3>1. Rejects(a) \/ Accepted(a)
      BY <2>a, <2>3 DEF ToolCommit, Rejected, Rejects
    <3> QED BY <2>3, <3>1, <1>10, <1>h DEF TypeOK, ToolCommit
  <2>4. CASE ToolFault(h)
    <3>1. read' \in [Agents -> 0..(MaxSeq + 1)]
      BY <2>a, <2>4, <1>0, AdvanceType DEF ToolFault, TypeOK
    <3> QED BY <2>4, <3>1, <1>h DEF TypeOK, ToolFault, rows
  <2> QED BY <1>7, <1>8, <1>9, <1>11, <2>a, <2>1, <2>2, <2>3, <2>4 DEF ToolStep
<1>12. ASSUME NEW a \in Agents, ReplyStep(a) PROVE TypeOK'
  <2>1. CASE ReplyAcquire(a)
    BY <2>1, <1>h DEF TypeOK, ReplyAcquire, Goto, Phases, rows
  <2>2. CASE ReplyTimeout(a)
    BY <2>2, <1>h DEF TypeOK, ReplyTimeout, Goto, Phases, rows
  <2>3. CASE ReplyAccepted(a)
    <3>1. Accepted(a)
      BY <2>3 DEF ReplyAccepted
    <3> QED BY <2>3, <3>1, <1>10, <1>h DEF TypeOK, ReplyAccepted, Goto, Phases
  <2>4. CASE ReplyRejected(a)
    <3>1. Rejects(a)
      BY <2>4 DEF ReplyRejected, Rejected, Rejects
    <3> QED BY <2>4, <3>1, <1>10, <1>h DEF TypeOK, ReplyRejected, Phases
  <2>5. CASE ReplyFault(a)
    <3>1. read' \in [Agents -> 0..(MaxSeq + 1)]
      BY <2>5, <1>0, AdvanceType DEF ReplyFault, TypeOK
    <3> QED BY <2>5, <3>1, <1>h DEF TypeOK, ReplyFault, Goto, Phases, rows
  <2>6. CASE Settle(a)
    BY <2>6, <1>h DEF TypeOK, Settle, Owed, End, Begin, Goto, Phases, rows
  <2>7. CASE SettleFault(a)
    BY <2>7, <1>h DEF TypeOK, SettleFault, Phases, rows
  <2> QED BY <1>12, <2>1, <2>2, <2>3, <2>4, <2>5, <2>6, <2>7 DEF ReplyStep
<1>13. ASSUME HumanStep PROVE TypeOK'
  <2>1. CASE HumanCommit
    <3>1. messages' \subseteq Message /\ lastSeq' \in 0..MaxSeq
      BY <2>1, <1>0, AppendType DEF HumanCommit, Authors
    <3> QED BY <2>1, <3>1, <1>h DEF TypeOK, HumanCommit
  <2> QED BY <1>13, <2>1, <1>h DEF TypeOK, HumanStep, HumanAcquire, HumanTimeout, HumanRelease, rows
<1>14. ASSUME NEW x \in Callers, LeaseExpires(x) PROVE TypeOK'
  BY <1>14, <1>h DEF TypeOK, LeaseExpires, rows
<1>15. ASSUME Restart PROVE TypeOK'
  BY <1>15, <1>h DEF TypeOK, Restart, Phases, rows
<1>16. CASE UNCHANGED vars
  BY <1>16, <1>h DEF TypeOK, vars
<1> QED
  BY <1>1, <1>2, <1>3, <1>4, <1>5, <1>6, <1>11, <1>12, <1>13, <1>14, <1>15, <1>16
     DEF Next, RunStep

\* Types and ranges hold in every reachable state, with every fault enabled.
THEOREM ChannelTypeOK == Spec => []TypeOK
<1>1. Init => TypeOK
  BY ChannelAssumption DEF Init, TypeOK, HandlersOK, HandlerStates, Phases
<1>2. TypeOK /\ [Next]_vars => TypeOK'
  BY TypeStep
<1> QED BY <1>1, <1>2, PTL DEF Spec

-----------------------------------------------------------------------------
(* The rows: every step appends one message at lastSeq + 1, or none. *)

LEMMA RowsStep ==
    ASSUME TypeOK, [Next]_vars
    PROVE  UNCHANGED rows \/ \E author \in Authors, kind \in Kinds : AppendMessage(author, kind)
<1> DEFINE Shape == UNCHANGED rows \/ \E author \in Authors, kind \in Kinds : AppendMessage(author, kind)
<1>0. {"message", "notice"} \cup Cards \subseteq Kinds
  BY ChannelAssumption DEF Kinds
<1>1. ASSUME NEW a \in Agents, RunStep(a) PROVE Shape
  BY <1>0, <1>1 DEF RunStep, StartRun, StartFault, StartElsewhere, EndRun, FailRun, DropPending,
                    Authors
<1>6. ASSUME NEW h \in Handlers, ToolStep(h) PROVE Shape
  BY <1>0, <1>6, HandlerOf
     DEF ToolStep, Call, ReadChannel, Denied, PostCard, ToolAcquire, ToolTimeout, ToolCommit, ToolFault,
         ToolRelease, Rejected, Accepted, Authors
<1>2. ASSUME NEW a \in Agents, ReplyStep(a) PROVE Shape
  BY <1>0, <1>2 DEF ReplyStep, ReplyAcquire, ReplyTimeout, ReplyAccepted, ReplyRejected, ReplyFault,
                    Settle, SettleFault, Rejected, Accepted, Authors
<1>3. ASSUME HumanStep PROVE Shape
  BY <1>0, <1>3 DEF HumanStep, HumanAcquire, HumanTimeout, HumanCommit, HumanRelease, Authors
<1>4. ASSUME NEW x \in Callers, LeaseExpires(x) PROVE Shape
  BY <1>4 DEF LeaseExpires
<1>5. CASE Restart \/ UNCHANGED vars
  BY <1>5 DEF Restart, vars, rows
<1> QED BY <1>1, <1>2, <1>3, <1>4, <1>5, <1>6 DEF Next

LEMMA SeqsMember ==
    ASSUME NEW S, NEW n
    PROVE  n \in Seqs(S) <=> \E m \in S : m.seq = n
  BY DEF Seqs

LEMMA SeqRange ==
    ASSUME TypeOK, SeqsIntact
    PROVE  \A m \in messages : m.seq \in 1..lastSeq /\ m.seq \in Nat /\ m.seq <= lastSeq
<1>1. \A m \in messages : m.seq \in 1..lastSeq
  BY SeqsMember DEF SeqsIntact
<1>2. lastSeq \in Nat
  BY DEF TypeOK
<1> QED BY <1>1, <1>2

LEMMA SeqsStep ==
    ASSUME TypeOK, SeqsIntact, [Next]_vars
    PROVE  SeqsIntact'
<1>1. CASE UNCHANGED rows
  BY <1>1 DEF SeqsIntact, Seqs, rows
<1>2. ASSUME NEW author \in Authors, NEW kind \in Kinds, AppendMessage(author, kind)
      PROVE  SeqsIntact'
  <2>1. lastSeq' = lastSeq + 1 /\ lastSeq \in Nat
    BY <1>2 DEF AppendMessage, TypeOK
  <2> DEFINE row == [seq |-> lastSeq + 1, author |-> author, kind |-> kind]
  <2>0. messages' = messages \cup {row} /\ row.seq = lastSeq + 1
    BY <1>2 DEF AppendMessage
  <2> HIDE DEF row
  <2>2. PICK new : messages' = messages \cup {new} /\ new.seq = lastSeq + 1
    BY <2>0
  <2>3. \A n : n \in Seqs(messages') <=> n \in Seqs(messages) \/ n = lastSeq + 1
    BY <2>2, SeqsMember
  <2>4. Seqs(messages') = 1..lastSeq'
    <3>1. \A n : n \in Seqs(messages') <=> n \in 1..lastSeq \/ n = lastSeq + 1
      BY <2>3 DEF SeqsIntact
    <3>2. \A n : n \in 1..lastSeq' <=> n \in 1..lastSeq \/ n = lastSeq + 1
      BY <2>1
    <3> QED BY <3>1, <3>2
  <2>5. \A m \in messages : m.seq \in 1..lastSeq
    BY SeqsMember DEF SeqsIntact
  <2>6. \A m, n \in messages' : m.seq = n.seq => m = n
    BY <2>1, <2>2, <2>5 DEF SeqsIntact
  <2>7. SeqsIntact' <=> /\ Seqs(messages') = 1..lastSeq'
                        /\ \A m, n \in messages' : m.seq = n.seq => m = n
    BY DEF SeqsIntact, Seqs
  <2> QED BY <2>4, <2>6, <2>7
<1> QED BY <1>1, <1>2, RowsStep

\* Sequence numbers have no gaps and no repeats, through rejected posts, failed
\* writes and restarts.
THEOREM ChannelSeqsIntact == Spec => []SeqsIntact
<1>1. Init => TypeOK /\ SeqsIntact
  <2>1. Init => TypeOK
    BY ChannelAssumption DEF Init, TypeOK, HandlersOK, HandlerStates, Phases
  <2>2. ASSUME Init PROVE SeqsIntact
    <3>1. Seqs({}) = {} /\ 1..0 = {}
      BY DEF Seqs
    <3> QED BY <2>2, <3>1 DEF Init, SeqsIntact
  <2> QED BY <2>1, <2>2
<1>2. TypeOK /\ SeqsIntact /\ [Next]_vars => TypeOK' /\ SeqsIntact'
  BY TypeStep, SeqsStep
<1> QED BY <1>1, <1>2, PTL DEF Spec

-----------------------------------------------------------------------------
(* Read-before-act, where it holds: no card is posted past the check, the  *)
(* server does not restart, writes reach the disk, and a prompt or a page  *)
(* is as long as the channel.  Each of the four is needed: see the runs    *)
(* that drop one.                                                          *)

Undisturbed ==
    /\ Cards = {}
    /\ ~MayRestart
    /\ ~DiskMayFail
    /\ PromptWindow >= MaxSeq
    /\ ReadLimit >= MaxSeq

views == <<runSeen, read, shown>>

\* The five things a step can do to the rows and the cursors.
Silent == UNCHANGED <<rows, views>>
Shows(a) ==
    /\ UNCHANGED rows
    /\ Advance(a, lastSeq)
    /\ \/ Serve(a, Prompt(a)) /\ runSeen' = [runSeen EXCEPT ![a] = lastSeq]
       \/ Serve(a, Newest(messages, ReadLimit)) /\ UNCHANGED runSeen
Notices == UNCHANGED views /\ \E author \in Authors : AppendMessage(author, "notice")
HumanPosts == UNCHANGED views /\ AppendMessage(User, "message")
AgentPosts(a) == ~Stale(a) /\ Accepted(a) /\ UNCHANGED <<runSeen, shown>>

LEMMA StepKinds ==
    ASSUME Undisturbed, [Next]_vars
    PROVE  \/ Silent \/ Notices \/ HumanPosts
           \/ \E a \in Agents : Shows(a) \/ AgentPosts(a)
<1> DEFINE Kind == \/ Silent \/ Notices \/ HumanPosts
                   \/ \E a \in Agents : Shows(a) \/ AgentPosts(a)
<1>1. ASSUME NEW a \in Agents, RunStep(a) PROVE Kind
  <2>1. CASE StartRun(a)
    BY <2>1 DEF StartRun, Shows
  <2>2. CASE FailRun(a)
    BY <2>2 DEF FailRun, Notices, Undisturbed, views, Authors
  <2> QED
    BY <1>1, <2>1, <2>2
       DEF RunStep, StartFault, StartElsewhere, EndRun, DropPending, Undisturbed, Silent, views
<1>2. ASSUME NEW h \in Handlers, ToolStep(h) PROVE Kind
  <2>a. PICK a \in Agents : a = h[1]
    BY HandlerOf
  <2>1. CASE ToolCommit(h)
    BY <2>a, <2>1 DEF ToolCommit, Rejected, AgentPosts, Notices, views, Authors
  <2>2. CASE ReadChannel(h)
    BY <2>a, <2>2 DEF ReadChannel, Shows
  <2>3. CASE Denied(h)
    BY <2>a, <2>3 DEF Denied, Notices, views, Authors
  <2> QED
    BY <1>2, <2>1, <2>2, <2>3
       DEF ToolStep, Call, PostCard, ToolAcquire, ToolTimeout, ToolFault, ToolRelease, Undisturbed, Silent, views
<1>3. ASSUME NEW a \in Agents, ReplyStep(a) PROVE Kind
  <2>1. CASE ReplyAccepted(a)
    BY <2>1 DEF ReplyAccepted, AgentPosts
  <2>2. CASE ReplyRejected(a)
    BY <2>2 DEF ReplyRejected, Rejected, Notices, views, Authors
  <2> QED
    BY <1>3, <2>1, <2>2
       DEF ReplyStep, ReplyAcquire, ReplyTimeout, ReplyFault, Settle, SettleFault,
           Undisturbed, Silent, views
<1>4. ASSUME HumanStep PROVE Kind
  BY <1>4 DEF HumanStep, HumanAcquire, HumanTimeout, HumanCommit, HumanRelease,
              HumanPosts, Silent, views
<1>5. ASSUME NEW x \in Callers, LeaseExpires(x) PROVE Kind
  BY <1>5 DEF LeaseExpires, Silent, views
<1>6. CASE UNCHANGED vars
  BY <1>6 DEF vars, Silent, rows, views
<1>7. ~Restart
  BY DEF Restart, Undisturbed
<1> QED BY <1>1, <1>2, <1>3, <1>4, <1>5, <1>6, <1>7 DEF Next

\* The inductive invariant.  CursorCovers alone is not inductive: a post moves
\* the cursor past everything, so the head must exist to be compared with, what
\* lies beyond every cursor must be empty, a's own posts must be covered, and
\* the prompt's window must not start past the cursor.
HeadExists == StateMessages = {} \/ \E m \in messages : IsHead(m)
Counted == IsFiniteSet(messages) /\ Cardinality(messages) = lastSeq
OwnCovered ==
    \A a \in Agents : \A m \in StateMessages : m.author = a => m.seq <= read[a]
WindowCovered == \A a \in Agents : runSeen[a] <= read[a]

ViewInv ==
    /\ TypeOK
    /\ SeqsIntact
    /\ Counted
    /\ HeadExists
    /\ CursorWithin
    /\ WindowCovered
    /\ OwnCovered
    /\ CursorCovers

LEMMA NewestIsAll ==
    ASSUME TypeOK, Counted, NEW S, S \subseteq messages, NEW n \in Nat, n >= MaxSeq
    PROVE  Newest(S, n) = S
<1>1. ASSUME NEW m \in S PROVE Cardinality({x \in S : x.seq >= m.seq}) <= n
  <2>1. {x \in S : x.seq >= m.seq} \subseteq messages
    OBVIOUS
  <2>2. /\ Cardinality({x \in S : x.seq >= m.seq}) <= Cardinality(messages)
        /\ Cardinality({x \in S : x.seq >= m.seq}) \in Nat
    BY <2>1, FS_Subset, FS_CardinalityType DEF Counted
  <2> QED BY <2>2, ChannelAssumption DEF Counted, TypeOK
<1> QED BY <1>1 DEF Newest

\* With no head beyond a's cursor, everything a's post would follow was shown.
LEMMA NotStale ==
    ASSUME ViewInv, NEW a \in Agents, ~Stale(a)
    PROVE  \A m \in StateMessages : m.seq <= read[a] /\ (m.author # a => m.seq \in shown[a])
<1> SUFFICES ASSUME NEW m \in StateMessages PROVE m.seq <= read[a]
  BY DEF ViewInv, CursorCovers
<1>1. PICK h \in messages : IsHead(h)
  BY DEF ViewInv, HeadExists
<1>2. h \in StateMessages /\ m.seq <= h.seq
  BY <1>1 DEF IsHead
<1>3. h.seq <= read[a]
  <2>1. /\ h.seq \in Nat /\ read[a] \in Nat
    BY DEF ViewInv, TypeOK, Message
  <2> QED BY <1>1, <1>2, <2>1 DEF Stale, ViewInv, OwnCovered
<1>4. m.seq \in Nat /\ h.seq \in Nat /\ read[a] \in Nat
  BY DEF ViewInv, TypeOK, Message, StateMessages
<1> QED BY <1>2, <1>3, <1>4

\* What appending one row does to the parts of the invariant about rows.
LEMMA AppendRow ==
    ASSUME ViewInv, NEW author \in Authors, NEW kind \in Kinds, AppendMessage(author, kind)
    PROVE  \E row :
              /\ row.seq = lastSeq + 1 /\ row.author = author /\ row.kind = kind
              /\ messages' = messages \cup {row} /\ row \notin messages
              /\ lastSeq' = lastSeq + 1 /\ lastSeq \in Nat
              /\ \A m \in messages : m.seq \in 1..lastSeq
              /\ StateMessages' = IF kind \in STATE_KINDS THEN StateMessages \cup {row}
                                                          ELSE StateMessages
              /\ HeadExists' /\ Counted'
<1>0. PICK row : row = [seq |-> lastSeq + 1, author |-> author, kind |-> kind]
  OBVIOUS
<1>1. /\ row.seq = lastSeq + 1 /\ row.author = author /\ row.kind = kind
      /\ messages' = messages \cup {row}
      /\ lastSeq' = lastSeq + 1 /\ lastSeq \in Nat
  BY <1>0 DEF AppendMessage, ViewInv, TypeOK
<1>2. \A m \in messages : m.seq \in 1..lastSeq
  BY SeqRange DEF ViewInv
<1>3. row \notin messages
  BY <1>1, <1>2
<1>4. StateMessages' = IF kind \in STATE_KINDS THEN StateMessages \cup {row} ELSE StateMessages
  BY <1>1 DEF StateMessages
<1>5. Counted'
  BY <1>1, <1>3, FS_AddElement DEF Counted, ViewInv
<1>6. HeadExists'
  <2>1. CASE kind \in STATE_KINDS
    <3>1. \A x \in StateMessages' : x.seq <= row.seq
      BY <1>1, <1>2, <1>4, <2>1 DEF StateMessages
    <3>2. row \in StateMessages' /\ row \in messages'
      BY <1>1, <1>4, <2>1
    <3>3. IsHead(row)'
      BY <3>1, <3>2 DEF IsHead
    <3> QED BY <3>2, <3>3 DEF HeadExists
  <2>2. CASE kind \notin STATE_KINDS
    <3>1. StateMessages' = StateMessages /\ messages \subseteq messages'
      BY <1>1, <1>4, <2>2
    <3>2. ASSUME NEW m \in messages, IsHead(m) PROVE IsHead(m)'
      BY <3>1, <3>2 DEF IsHead
    <3> QED BY <3>1, <3>2 DEF HeadExists, ViewInv
  <2> QED BY <2>1, <2>2
<1> QED BY <1>1, <1>2, <1>3, <1>4, <1>5, <1>6

\* A prompt, together with what the cursor covered before, is the whole channel;
\* so is a page.
LEMMA ShowsAll ==
    ASSUME Undisturbed, ViewInv, NEW a \in Agents, Shows(a)
    PROVE  \A m \in StateMessages : m.author # a => m.seq \in shown'[a]
<1> SUFFICES ASSUME NEW m \in StateMessages, m.author # a
             PROVE  m.seq \in shown'[a]
  OBVIOUS
<1>0. /\ m \in messages /\ m.kind \in STATE_KINDS /\ m.seq \in Nat
      /\ read[a] \in Nat /\ runSeen[a] \in Nat /\ runSeen[a] <= read[a]
  BY DEF StateMessages, ViewInv, TypeOK, Message, WindowCovered
<1>1. ASSUME NEW S, Serve(a, S) PROVE shown[a] \subseteq shown'[a] /\ (m \in S => m.seq \in shown'[a])
  <2>1. shown'[a] = shown[a] \cup Seqs({x \in S : x.kind \in STATE_KINDS /\ x.author # a})
    BY <1>1 DEF Serve, ViewInv, TypeOK
  <2> QED BY <1>0, <2>1, SeqsMember
<1>2. CASE Serve(a, Newest(messages, ReadLimit))
  <2>1. Newest(messages, ReadLimit) = messages
    BY NewestIsAll, ChannelAssumption DEF Undisturbed, ViewInv
  <2> QED BY <1>0, <1>1, <1>2, <2>1
<1>3. CASE Serve(a, Prompt(a))
  <2> DEFINE since == {x \in messages : x.seq > runSeen[a] /\ x.author # a
                                        /\ (x.kind = "notice" => x.author = System)}
  <2>1. Prompt(a) = since
    <3>1. Newest(since, PromptWindow) = since
      BY NewestIsAll, ChannelAssumption DEF Undisturbed, ViewInv
    <3> QED BY <3>1 DEF Prompt
  <2>2. CASE m.seq <= runSeen[a]
    BY <1>0, <1>1, <1>3, <2>2 DEF ViewInv, CursorCovers
  <2>3. CASE m.seq > runSeen[a]
    <3>1. m \in since
      BY <1>0, <2>3 DEF STATE_KINDS
    <3> QED BY <1>1, <1>3, <2>1, <3>1
  <2> QED BY <1>0, <2>2, <2>3
<1> QED BY <1>2, <1>3 DEF Shows

LEMMA ViewStep ==
    ASSUME Undisturbed, ViewInv, [Next]_vars
    PROVE  ViewInv'
<1>1. TypeOK' /\ SeqsIntact'
  BY TypeStep, SeqsStep DEF ViewInv
<1>2. CASE Silent
  <2>1. UNCHANGED <<messages, lastSeq, runSeen, read, shown>>
    BY <1>2 DEF Silent, rows, views
  <2>2. StateMessages' = StateMessages /\ \A m : IsHead(m)' <=> IsHead(m)
    BY <2>1 DEF StateMessages, IsHead
  <2>3. Counted' /\ HeadExists' /\ CursorWithin' /\ WindowCovered'
    BY <2>1, <2>2 DEF ViewInv, Counted, HeadExists, CursorWithin, WindowCovered
  <2>4. OwnCovered' /\ CursorCovers'
    BY <2>1, <2>2 DEF ViewInv, OwnCovered, CursorCovers
  <2> QED BY <1>1, <2>3, <2>4 DEF ViewInv
<1>3. CASE Notices
  <2>1. PICK author \in Authors : AppendMessage(author, "notice")
    BY <1>3 DEF Notices
  <2>2. /\ StateMessages' = StateMessages /\ HeadExists' /\ Counted'
        /\ lastSeq' = lastSeq + 1 /\ lastSeq \in Nat
    BY <2>1, AppendRow DEF Kinds, STATE_KINDS
  <2>3. UNCHANGED <<runSeen, read, shown>>
    BY <1>3 DEF Notices, views
  <2>4. CursorWithin' /\ WindowCovered' /\ OwnCovered' /\ CursorCovers'
    BY <2>2, <2>3 DEF ViewInv, TypeOK, CursorWithin, WindowCovered, OwnCovered, CursorCovers
  <2> QED BY <1>1, <2>2, <2>4 DEF ViewInv
<1>4. CASE HumanPosts
  <2>1. PICK row :
           /\ row.seq = lastSeq + 1 /\ row.author = User
           /\ StateMessages' = StateMessages \cup {row} /\ HeadExists' /\ Counted'
           /\ lastSeq' = lastSeq + 1 /\ lastSeq \in Nat
    BY <1>4, AppendRow DEF HumanPosts, Authors, Kinds, STATE_KINDS
  <2>2. UNCHANGED <<runSeen, read, shown>>
    BY <1>4 DEF HumanPosts, views
  <2>3. \A a \in Agents : read[a] \in Nat /\ row.seq > read[a] /\ row.author # a
    BY <2>1, ChannelAssumption DEF ViewInv, TypeOK, CursorWithin
  <2>4. CursorWithin' /\ WindowCovered'
    BY <2>1, <2>2 DEF ViewInv, TypeOK, CursorWithin, WindowCovered
  <2>5. OwnCovered' /\ CursorCovers'
    BY <2>1, <2>2, <2>3 DEF ViewInv, OwnCovered, CursorCovers
  <2> QED BY <1>1, <2>1, <2>4, <2>5 DEF ViewInv
<1>5. ASSUME NEW a \in Agents, AgentPosts(a) PROVE ViewInv'
  <2>1. PICK row :
           /\ row.seq = lastSeq + 1 /\ row.author = a
           /\ StateMessages' = StateMessages \cup {row} /\ HeadExists' /\ Counted'
           /\ lastSeq' = lastSeq + 1 /\ lastSeq \in Nat
    BY <1>5, AppendRow DEF AgentPosts, Accepted, Authors, Kinds, STATE_KINDS
  <2>2. UNCHANGED <<runSeen, shown>>
    BY <1>5 DEF AgentPosts
  <2>3. /\ read'[a] = lastSeq + 1
        /\ \A b \in Agents : b # a => read'[b] = read[b]
        /\ \A b \in Agents : read[b] \in Nat /\ runSeen[b] \in Nat /\ read[b] <= lastSeq
    BY <1>5, <2>1 DEF AgentPosts, Accepted, Advance, Larger, ViewInv, TypeOK, CursorWithin
  <2>4. CursorWithin' /\ WindowCovered'
    BY <2>1, <2>2, <2>3 DEF ViewInv, CursorWithin, WindowCovered
  <2>5. \A m \in StateMessages : m.seq <= read[a] /\ (m.author # a => m.seq \in shown[a])
    BY <1>5, NotStale DEF AgentPosts
  <2>6. \A m \in StateMessages : m.seq \in Nat /\ m.seq <= lastSeq
    BY SeqRange DEF ViewInv, StateMessages
  <2>7. OwnCovered'
    BY <2>1, <2>3, <2>5, <2>6 DEF ViewInv, OwnCovered
  <2>8. CursorCovers'
    <3>1. ASSUME NEW b \in Agents, NEW m \in StateMessages', m.author # b, m.seq <= read'[b]
          PROVE  m.seq \in shown[b]
      <4>1. CASE b = a
        BY <2>1, <2>5, <3>1, <4>1
      <4>2. CASE b # a
        BY <2>1, <2>3, <3>1, <4>2 DEF ViewInv, CursorCovers
      <4> QED BY <4>1, <4>2
    <3> QED BY <2>2, <3>1 DEF CursorCovers
  <2> QED BY <1>1, <2>1, <2>4, <2>7, <2>8 DEF ViewInv
<1>6. ASSUME NEW a \in Agents, Shows(a) PROVE ViewInv'
  <2>1. UNCHANGED <<messages, lastSeq>>
    BY <1>6 DEF Shows, rows
  <2>2. StateMessages' = StateMessages /\ \A m : IsHead(m)' <=> IsHead(m)
    BY <2>1 DEF StateMessages, IsHead
  <2>3. Counted' /\ HeadExists'
    BY <2>1, <2>2 DEF ViewInv, Counted, HeadExists
  <2>4. /\ read'[a] = lastSeq
        /\ \A b \in Agents : b # a => read'[b] = read[b]
        /\ \A b \in Agents : read[b] \in Nat /\ runSeen[b] \in Nat /\ read[b] <= lastSeq
        /\ lastSeq \in Nat
    BY <1>6 DEF Shows, Advance, Larger, ViewInv, TypeOK, CursorWithin
  <2>5. runSeen'[a] <= lastSeq /\ \A b \in Agents : b # a => runSeen'[b] = runSeen[b]
    BY <1>6, <2>4 DEF Shows, ViewInv, TypeOK, WindowCovered
  <2>6. CursorWithin' /\ WindowCovered'
    BY <2>1, <2>4, <2>5 DEF ViewInv, CursorWithin, WindowCovered
  <2>7. OwnCovered'
    <3>1. \A m \in StateMessages : m.seq \in Nat /\ m.seq <= lastSeq
      BY SeqRange DEF ViewInv, StateMessages
    <3> QED BY <2>2, <2>4, <3>1 DEF ViewInv, OwnCovered
  <2>8. \A m \in StateMessages : m.author # a => m.seq \in shown'[a]
    BY <1>6, ShowsAll
  <2>9. \A b \in Agents : b # a => shown'[b] = shown[b]
    BY <1>6 DEF Shows, Serve, ViewInv, TypeOK
  <2>10. CursorCovers'
    BY <2>2, <2>4, <2>8, <2>9 DEF ViewInv, CursorCovers
  <2> QED BY <1>1, <2>3, <2>6, <2>7, <2>10 DEF ViewInv
<1> QED BY <1>2, <1>3, <1>4, <1>5, <1>6, StepKinds

LEMMA ViewInit == Init => ViewInv
<1> SUFFICES ASSUME Init PROVE ViewInv
  OBVIOUS
<1>1. TypeOK
  BY ChannelAssumption DEF Init, TypeOK, HandlersOK, HandlerStates, Phases
<1>2. messages = {} /\ lastSeq = 0 /\ StateMessages = {}
  BY DEF Init, StateMessages
<1>3. SeqsIntact
  <2>1. Seqs({}) = {} /\ 1..0 = {}
    BY DEF Seqs
  <2> QED BY <1>2, <2>1 DEF SeqsIntact
<1>4. Counted /\ HeadExists
  BY <1>2, FS_EmptySet DEF Counted, HeadExists
<1>5. CursorWithin /\ WindowCovered /\ OwnCovered /\ CursorCovers
  BY <1>2 DEF Init, CursorWithin, WindowCovered, OwnCovered, CursorCovers
<1> QED BY <1>1, <1>3, <1>4, <1>5 DEF ViewInv

LEMMA ViewInvariant ==
    ASSUME Undisturbed
    PROVE  Spec => []ViewInv
<1>1. ViewInv /\ [Next]_vars => ViewInv'
  BY ViewStep
<1> QED BY <1>1, ViewInit, PTL DEF Spec

\* No cursor is ahead of its channel, so a new message is never numbered as one
\* an agent has read.
THEOREM ChannelCursorWithin ==
    ASSUME Undisturbed
    PROVE  Spec => []CursorWithin
<1>1. ViewInv => CursorWithin
  BY DEF ViewInv
<1> QED BY <1>1, ViewInvariant, PTL

\* What a cursor covers was served to its agent, and no cursor is ahead of the
\* channel.
THEOREM ChannelCursorCovers ==
    ASSUME Undisturbed
    PROVE  Spec => [](CursorWithin /\ CursorCovers)
<1>1. ViewInv => CursorWithin /\ CursorCovers
  BY DEF ViewInv
<1> QED BY <1>1, ViewInvariant, PTL

\* Read-before-act: no step of the system appends an agent's post unless the
\* agent was shown every state-bearing message of the others.
THEOREM ChannelReadBeforeAct ==
    ASSUME Undisturbed
    PROVE  Spec => ReadBeforeAct
<1> DEFINE Seen == \A a \in Agents : Posts(a) =>
                      Seqs({m \in StateMessages : m.author # a}) \subseteq shown[a]
<1>1. ASSUME ViewInv, [Next]_vars PROVE Seen
  <2> SUFFICES ASSUME NEW a \in Agents, Posts(a)
               PROVE  Seqs({m \in StateMessages : m.author # a}) \subseteq shown[a]
    OBVIOUS
  <2>1. PICK p \in messages' \ messages : p.author = a /\ p.kind = "message"
    BY DEF Posts
  <2>2. ~Silent /\ ~HumanPosts /\ ~Notices /\ \A b \in Agents : ~Shows(b)
    <3>1. ASSUME HumanPosts PROVE FALSE
      BY <3>1, <2>1, ChannelAssumption DEF HumanPosts, AppendMessage
    <3>2. ASSUME Notices PROVE FALSE
      BY <3>2, <2>1 DEF Notices, AppendMessage
    <3> QED BY <2>1, <3>1, <3>2 DEF Silent, Shows, rows
  <2>3. AgentPosts(a)
    <3>1. PICK b \in Agents : AgentPosts(b)
      BY <1>1, <2>2, StepKinds
    <3>2. b = a
      BY <2>1, <3>1 DEF AgentPosts, Accepted, AppendMessage
    <3> QED BY <3>1, <3>2
  <2>4. \A m \in StateMessages : m.author # a => m.seq \in shown[a]
    BY <1>1, <2>3, NotStale DEF AgentPosts
  <2> QED BY <2>4, SeqsMember
<1>2. ViewInv /\ [Next]_vars => [Seen]_vars
  BY <1>1
<1>3. ReadBeforeAct <=> [][Seen]_vars
  BY PTL DEF ReadBeforeAct
<1> QED BY <1>2, <1>3, ViewInvariant, PTL DEF Spec

-----------------------------------------------------------------------------
(* Refinement of SharedLog. *)

theLog == {[seq |-> m.seq, author |-> m.author] : m \in StateMessages}

LEMMA LogAppend ==
    ASSUME ViewInv, NEW author \in Agents \cup {User}, AppendMessage(author, "message")
    PROVE  \E e \in theLog' \ theLog :
              /\ e.author = author
              /\ \A x \in theLog : x.seq < e.seq
              /\ theLog' = theLog \cup {e}
<1>1. PICK row :
         /\ row.seq = lastSeq + 1 /\ row.author = author
         /\ StateMessages' = StateMessages \cup {row}
         /\ lastSeq \in Nat
  BY AppendRow DEF Authors, Kinds, STATE_KINDS
<1>2. PICK e : e = [seq |-> row.seq, author |-> row.author]
  OBVIOUS
<1>3. theLog' = theLog \cup {e}
  BY <1>1, <1>2 DEF theLog
<1>4. \A x \in theLog : x.seq < lastSeq + 1
  <2>1. \A m \in StateMessages : m.seq < lastSeq + 1
    BY <1>1, SeqRange DEF ViewInv, StateMessages
  <2> QED BY <2>1 DEF theLog
<1>5. e.seq = lastSeq + 1 /\ e.author = author
  BY <1>1, <1>2
<1>6. e \notin theLog
  BY <1>1, <1>4, <1>5
<1> QED BY <1>3, <1>4, <1>5, <1>6

LEMMA LogByOthers ==
    ASSUME NEW a
    PROVE  Log!ByOthers(a) = Seqs({m \in StateMessages : m.author # a})
<1>1. \A n : n \in Log!ByOthers(a) <=> \E m \in StateMessages : m.author # a /\ m.seq = n
  <2>1. \A n : n \in Log!ByOthers(a) <=> \E e \in theLog : e.author # a /\ e.seq = n
    BY DEF Log!ByOthers, theLog
  <2>2. \A e : e \in theLog <=> \E m \in StateMessages : e = [seq |-> m.seq, author |-> m.author]
    BY DEF theLog
  <2>3. \A m \in StateMessages : \E e \in theLog : e.seq = m.seq /\ e.author = m.author
    <3>1. ASSUME NEW m \in StateMessages
          PROVE  \E e \in theLog : e.seq = m.seq /\ e.author = m.author
      <4>1. [seq |-> m.seq, author |-> m.author] \in theLog
        BY <2>2
      <4> QED BY <4>1
    <3> QED BY <3>1
  <2>4. \A e \in theLog : \E m \in StateMessages : e.seq = m.seq /\ e.author = m.author
    BY <2>2
  <2> QED BY <2>1, <2>3, <2>4
<1>2. \A n : n \in Seqs({m \in StateMessages : m.author # a})
                <=> \E m \in StateMessages : m.author # a /\ m.seq = n
  BY SeqsMember
<1> QED BY <1>1, <1>2

LEMMA LogStep ==
    ASSUME Undisturbed, ViewInv, [Next]_vars
    PROVE  Log!Next \/ UNCHANGED Log!vars
<1>1. CASE Silent \/ Notices
  <2>1. StateMessages' = StateMessages
    <3>1. CASE Silent
      BY <3>1 DEF Silent, rows, StateMessages
    <3>2. ASSUME NEW author \in Authors, AppendMessage(author, "notice")
          PROVE  StateMessages' = StateMessages
      BY <3>2, AppendRow DEF Kinds, STATE_KINDS
    <3> QED BY <1>1, <3>1, <3>2 DEF Notices
  <2>2. shown' = shown
    BY <1>1 DEF Silent, Notices, views
  <2> QED BY <2>1, <2>2 DEF Log!vars
<1>2. ASSUME NEW author \in Agents \cup {User}, AppendMessage(author, "message"), shown' = shown
      PROVE  Log!Append(author)
  BY <1>2, LogAppend DEF Log!Append, theLog
<1>3. CASE HumanPosts
  BY <1>2, <1>3 DEF HumanPosts, views, Log!Next
<1>4. ASSUME NEW a \in Agents, AgentPosts(a) PROVE Log!Next
  <2>1. Log!Append(a)
    BY <1>2, <1>4 DEF AgentPosts, Accepted
  <2>2. \A m \in StateMessages : m.author # a => m.seq \in shown[a]
    BY <1>4, NotStale DEF AgentPosts
  <2>3. Log!ByOthers(a) \subseteq shown[a]
    <3>1. Seqs({m \in StateMessages : m.author # a}) \subseteq shown[a]
      BY <2>2, SeqsMember
    <3> QED BY <3>1, LogByOthers
  <2> QED BY <2>1, <2>3 DEF Log!Next, Log!Act
<1>5. ASSUME NEW a \in Agents, Shows(a) PROVE Log!Next
  <2>1. PICK S : S \subseteq messages /\ Serve(a, S)
    BY <1>5, PromptSubset DEF Shows
  <2> DEFINE T == Seqs({m \in S : m.kind \in STATE_KINDS /\ m.author # a})
  <2>2. T \in SUBSET Log!ByOthers(a)
    <3>1. T \subseteq Seqs({m \in StateMessages : m.author # a})
      BY <2>1, SeqsMember DEF StateMessages
    <3> HIDE DEF T
    <3> QED BY <3>1, LogByOthers
  <2>3. shown' = [shown EXCEPT ![a] = @ \cup T]
    BY <2>1 DEF Serve
  <2>4. StateMessages' = StateMessages
    BY <1>5 DEF Shows, rows, StateMessages
  <2> HIDE DEF T
  <2> QED BY <2>2, <2>3, <2>4 DEF Log!Next, Log!Show
<1> QED BY <1>1, <1>3, <1>4, <1>5, StepKinds

\* The channel, with its cursors, lock and store, implements read-before-act as
\* SharedLog states it.
THEOREM ChannelImplementsSharedLog ==
    ASSUME Undisturbed
    PROVE  Spec => SharedLogSpec
<1>1. Init => Log!Init
  BY DEF Init, Log!Init, StateMessages
<1>2. ViewInv /\ [Next]_vars => [Log!Next]_(Log!vars)
  BY LogStep
<1> QED BY <1>1, <1>2, ViewInvariant, PTL DEF Spec, SharedLogSpec, Log!Spec

-----------------------------------------------------------------------------
(* Stale views and notices: what an append does to the head, without any   *)
(* of the assumptions of Undisturbed but the one on cards, where named.    *)

CardPosts(a) == UNCHANGED views /\ \E kind \in Cards : AppendMessage(a, kind)

LEMMA Appends ==
    ASSUME [Next]_vars
    PROVE  \/ UNCHANGED rows \/ Notices \/ HumanPosts
           \/ \E a \in Agents : AgentPosts(a) \/ CardPosts(a)
<1> DEFINE Kind == \/ UNCHANGED rows \/ Notices \/ HumanPosts
                   \/ \E a \in Agents : AgentPosts(a) \/ CardPosts(a)
<1>1. ASSUME NEW a \in Agents, RunStep(a) PROVE Kind
  <2>1. CASE FailRun(a)
    BY <2>1 DEF FailRun, Notices, views, Authors
  <2> QED
    BY <1>1, <2>1 DEF RunStep, StartRun, StartFault, StartElsewhere, EndRun, DropPending
<1>2. ASSUME NEW h \in Handlers, ToolStep(h) PROVE Kind
  <2>a. PICK a \in Agents : a = h[1]
    BY HandlerOf
  <2>1. CASE ToolCommit(h)
    BY <2>a, <2>1 DEF ToolCommit, Rejected, AgentPosts, Notices, views, Authors
  <2>2. CASE Denied(h)
    BY <2>a, <2>2 DEF Denied, Notices, views, Authors
  <2>3. ASSUME NEW kind \in Cards, PostCard(h, kind) PROVE CardPosts(a)
    BY <2>a, <2>3 DEF PostCard, CardPosts, views
  <2> QED BY <1>2, <2>1, <2>2, <2>3 DEF ToolStep, Call, ReadChannel, ToolAcquire, ToolTimeout, ToolFault, ToolRelease
<1>3. ASSUME NEW a \in Agents, ReplyStep(a) PROVE Kind
  <2>1. CASE ReplyAccepted(a)
    BY <2>1 DEF ReplyAccepted, AgentPosts
  <2>2. CASE ReplyRejected(a)
    BY <2>2 DEF ReplyRejected, Rejected, Notices, views, Authors
  <2> QED
    BY <1>3, <2>1, <2>2 DEF ReplyStep, ReplyAcquire, ReplyTimeout, ReplyFault, Settle, SettleFault
<1>4. ASSUME HumanStep PROVE Kind
  BY <1>4 DEF HumanStep, HumanAcquire, HumanTimeout, HumanCommit, HumanRelease, HumanPosts, views
<1>5. CASE (\E x \in Callers : LeaseExpires(x)) \/ Restart \/ UNCHANGED vars
  BY <1>5 DEF LeaseExpires, Restart, vars, rows
<1> QED BY <1>1, <1>2, <1>3, <1>4, <1>5 DEF Next

LEMMA NoticeKeepsHead ==
    ASSUME NEW author \in Authors, AppendMessage(author, "notice")
    PROVE  StateMessages' = StateMessages /\ \A m : IsHead(m)' <=> IsHead(m)
<1>1. StateMessages' = StateMessages
  BY DEF AppendMessage, StateMessages, STATE_KINDS
<1> QED BY <1>1 DEF IsHead

LEMMA NewHead ==
    ASSUME TypeOK, SeqsIntact,
           NEW author \in Authors, NEW kind \in STATE_KINDS, AppendMessage(author, kind)
    PROVE  \E row \in messages' : /\ row.seq = lastSeq + 1 /\ row.author = author
                                  /\ IsHead(row)'
<1>1. PICK row : /\ row = [seq |-> lastSeq + 1, author |-> author, kind |-> kind]
                 /\ messages' = messages \cup {row}
  BY DEF AppendMessage
<1>2. row.seq = lastSeq + 1 /\ row.author = author /\ row.kind = kind
  BY <1>1
<1>3. \A m \in messages : m.seq \in Nat /\ m.seq <= lastSeq
  BY SeqRange
<1>4. lastSeq \in Nat
  BY DEF TypeOK
<1>5. row \in StateMessages' /\ \A x \in StateMessages' : x.seq <= row.seq
  BY <1>1, <1>2, <1>3, <1>4 DEF StateMessages
<1> QED BY <1>1, <1>2, <1>5 DEF IsHead

\* A stale view stays stale until its agent's cursor moves: retrying the same
\* post fails again.  It is the agent's own card, which is not checked, that the
\* assumption keeps out: it becomes the head, and hides what came before it.
THEOREM ChannelStaleUntilServed ==
    ASSUME Cards = {}
    PROVE  Spec => StaleUntilServed
<1> DEFINE Step == \A a \in Agents : (Stale(a) /\ ~Stale(a)') => read'[a] > read[a]
<1>1. ASSUME TypeOK, SeqsIntact, [Next]_vars PROVE Step
  <2> SUFFICES ASSUME NEW a \in Agents, Stale(a), ~(read'[a] > read[a])
               PROVE  Stale(a)'
    OBVIOUS
  <2>1. PICK m \in messages : IsHead(m) /\ m.seq > read[a] /\ m.author # a
    BY DEF Stale
  <2>2. /\ m.seq \in Nat /\ m.seq <= lastSeq /\ lastSeq \in Nat
        /\ read[a] \in Nat /\ read'[a] \in Nat
    <3>1. TypeOK'
      BY <1>1, TypeStep
    <3>2. m.seq \in Nat /\ m.seq <= lastSeq
      BY <1>1, SeqRange
    <3> QED BY <1>1, <3>1, <3>2 DEF TypeOK
  <2>3. m.seq > read'[a] /\ lastSeq + 1 > read'[a]
    BY <2>1, <2>2
  <2>4. CASE UNCHANGED rows
    <3>1. messages' = messages /\ IsHead(m)'
      BY <2>1, <2>4 DEF rows, IsHead, StateMessages
    <3> QED BY <2>1, <2>3, <3>1 DEF Stale
  <2>5. CASE Notices
    <3>1. IsHead(m)' /\ m \in messages'
      BY <2>1, <2>5, NoticeKeepsHead DEF Notices, AppendMessage
    <3> QED BY <2>1, <2>3, <3>1 DEF Stale
  <2>6. ASSUME NEW b \in Agents \cup {User}, b # a, AppendMessage(b, "message") PROVE Stale(a)'
    <3>1. PICK row \in messages' : row.seq = lastSeq + 1 /\ row.author = b /\ IsHead(row)'
      BY <1>1, <2>6, NewHead DEF Authors, STATE_KINDS
    <3> QED BY <2>3, <2>6, <3>1 DEF Stale
  <2>7. CASE HumanPosts
    BY <2>6, <2>7, ChannelAssumption DEF HumanPosts
  <2>8. ASSUME NEW b \in Agents, AgentPosts(b) PROVE Stale(a)'
    BY <2>6, <2>8 DEF AgentPosts, Accepted
  <2> QED BY <1>1, <2>4, <2>5, <2>7, <2>8, Appends DEF CardPosts
<1>2. TypeOK /\ SeqsIntact /\ [Next]_vars => [Step]_vars
  BY <1>1
<1>3. StaleUntilServed <=> [][Step]_vars
  BY PTL DEF StaleUntilServed
<1> QED BY <1>2, <1>3, ChannelTypeOK, ChannelSeqsIntact, PTL DEF Spec

\* A notice, of a lost race, a denial or a failed run, makes nobody's view stale.
THEOREM ChannelNoticesKeepViews == Spec => NoticesKeepViews
<1> DEFINE Step == (messages' # messages /\ \A m \in messages' \ messages : m.kind = "notice")
                      => \A a \in Agents : Stale(a)' => Stale(a)
<1>1. ASSUME TypeOK, SeqsIntact, [Next]_vars PROVE Step
  <2> SUFFICES ASSUME messages' # messages, \A m \in messages' \ messages : m.kind = "notice",
                      NEW a \in Agents, Stale(a)'
               PROVE  Stale(a)
    OBVIOUS
  <2>1. ASSUME NEW author, NEW kind, AppendMessage(author, kind) PROVE kind = "notice"
    <3>1. PICK row : /\ row = [seq |-> lastSeq + 1, author |-> author, kind |-> kind]
                     /\ messages' = messages \cup {row}
      BY <2>1 DEF AppendMessage
    <3>2. row \in messages' \ messages /\ row.kind = kind
      BY <3>1
    <3> QED BY <3>2
  <2>2. Notices
    <3>1. ~ UNCHANGED rows
      BY DEF rows
    <3>2. ~HumanPosts /\ \A b \in Agents : ~AgentPosts(b) /\ ~CardPosts(b)
      <4>1. \A kind \in Cards : kind # "notice"
        BY ChannelAssumption
      <4> QED BY <2>1, <4>1 DEF HumanPosts, AgentPosts, Accepted, CardPosts
    <3> QED BY <1>1, <3>1, <3>2, Appends
  <2>3. PICK m \in messages' : IsHead(m)' /\ m.seq > read'[a] /\ m.author # a
    BY DEF Stale
  <2>4. IsHead(m) /\ read' = read
    BY <2>2, <2>3, NoticeKeepsHead DEF Notices, views
  <2>5. m \in messages
    BY <2>4 DEF IsHead, StateMessages
  <2> QED BY <2>3, <2>4, <2>5 DEF Stale
<1>2. TypeOK /\ SeqsIntact /\ [Next]_vars => [Step]_vars
  BY <1>1
<1>3. NoticesKeepViews <=> [][Step]_vars
  BY PTL DEF NoticesKeepViews
<1> QED BY <1>2, <1>3, ChannelTypeOK, ChannelSeqsIntact, PTL DEF Spec

-----------------------------------------------------------------------------
(* Regenerate chains. *)

\* A run's conflicts start from those it inherits, and a lost reply is one more.
Counting ==
    \A a \in Agents : /\ base[a] <= conflicts[a]
                      /\ phase[a] = "replyLost" => base[a] < conflicts[a]

LEMMA CountingStep ==
    ASSUME TypeOK, Counting, [Next]_vars
    PROVE  Counting'
<1> DEFINE Counts(a) == base[a] <= conflicts[a] /\ (phase[a] = "replyLost" => base[a] < conflicts[a])
           Same(b) == base'[b] = base[b] /\ conflicts'[b] = conflicts[b] /\ phase'[b] = phase[b]
           Others(a) == \A b \in Agents : b # a => Same(b)
<1>0. \A a \in Agents : Counts(a) /\ base[a] \in Nat /\ conflicts[a] \in Nat /\ owed[a] \in Nat
  BY DEF Counting, TypeOK
<1>1. ASSUME NEW a \in Agents, Others(a), Counts(a)' PROVE Counting'
  BY <1>0, <1>1 DEF Counting
<1>2. ASSUME \A b \in Agents : Same(b) PROVE Counting'
  BY <1>0, <1>2 DEF Counting
<1>3. ASSUME NEW a \in Agents, RunStep(a) PROVE Others(a) /\ Counts(a)'
  <2>1. CASE StartRun(a)
    <3>1. \E attempt \in Nat : Begin(a, TRUE, attempt)
      BY <1>0, <2>1 DEF StartRun, Regenerate
    <3> QED BY <2>1, <3>1 DEF StartRun, Begin, Goto, TypeOK
  <2>2. CASE StartFault(a) \/ DropPending(a)
    BY <1>0, <2>2 DEF StartFault, DropPending
  <2>3. CASE StartElsewhere(a)
    BY <1>0, <2>3 DEF StartElsewhere, Goto, TypeOK
  <2>4. CASE EndRun(a) \/ FailRun(a)
    BY <2>4 DEF EndRun, FailRun, End, Begin, Goto, TypeOK
  <2> QED BY <1>3, <2>1, <2>2, <2>3, <2>4 DEF RunStep
<1>4. ASSUME NEW a \in Agents, Rejects(a) \/ Accepted(a), base' = base
      PROVE  /\ \A b \in Agents : b # a => conflicts'[b] = conflicts[b]
             /\ conflicts'[a] \in Nat /\ base'[a] <= conflicts'[a] /\ conflicts[a] <= conflicts'[a]
  BY <1>0, <1>4 DEF Rejects, Accepted, TypeOK
<1>5. ASSUME NEW a \in Agents, NEW h \in Handlers, a = h[1], ToolStep(h) PROVE Others(a) /\ Counts(a)'
  <2>1. CASE ToolCommit(h)
    <3>1. /\ Rejects(a) \/ Accepted(a)
          /\ base' = base /\ phase' = phase
      BY <1>5, <2>1 DEF ToolCommit, Rejected, Rejects
    <3> QED BY <1>0, <1>4, <3>1
  <2> QED
    BY <1>0, <1>5, <2>1
       DEF ToolStep, Call, ReadChannel, Denied, PostCard, ToolAcquire, ToolTimeout, ToolFault, ToolRelease
<1>6. ASSUME NEW a \in Agents, ReplyStep(a) PROVE Others(a) /\ Counts(a)'
  <2>1. CASE ReplyAccepted(a)
    <3>1. Accepted(a) /\ base' = base /\ phase' = [phase EXCEPT ![a] = "replyDone"]
      BY <2>1 DEF ReplyAccepted, Goto
    <3> QED BY <1>4, <3>1 DEF TypeOK
  <2>2. CASE ReplyRejected(a)
    <3>1. /\ conflicts' = [conflicts EXCEPT ![a] = @ + 1]
          /\ base' = base /\ phase' = [phase EXCEPT ![a] = "replyLost"]
      BY <2>2 DEF ReplyRejected, Rejected
    <3> QED BY <1>0, <3>1 DEF TypeOK
  <2>3. CASE Settle(a)
    BY <2>3 DEF Settle, End, Begin, Goto, TypeOK
  <2> QED
    BY <1>0, <1>6, <2>1, <2>2, <2>3
       DEF ReplyStep, ReplyAcquire, ReplyTimeout, ReplyFault, SettleFault, Goto, TypeOK
<1>7. CASE HumanStep \/ (\E x \in Callers : LeaseExpires(x)) \/ UNCHANGED vars
  BY <1>2, <1>7 DEF HumanStep, HumanAcquire, HumanTimeout, HumanCommit, HumanRelease, LeaseExpires, vars
<1>8. CASE Restart
  BY <1>8 DEF Restart, Counting
<1> QED BY <1>1, <1>3, <1>5, <1>6, <1>7, <1>8, HandlerOf DEF Next

\* A chain of regenerate turns ends: what a lost reply owes is more than its run
\* inherited, and within MAX_CONFLICTS_PER_TURN.
THEOREM ChannelRegenerateEnds == Spec => RegenerateEnds
<1> DEFINE Step == \A a \in Agents : (owed'[a] # owed[a] /\ owed'[a] # 0) =>
                      base[a] < owed'[a] /\ owed'[a] <= ConflictLimit
<1>1. ASSUME TypeOK, Counting, [Next]_vars PROVE Step
  <2>1. ASSUME NEW a \in Agents, RunStep(a) PROVE \A b \in Agents : owed'[b] \in {owed[b], 0}
    BY <1>1, <2>1 DEF RunStep, StartRun, Regenerate, StartFault, StartElsewhere, EndRun, FailRun,
                      DropPending, TypeOK
  <2>2. ASSUME NEW a \in Agents, ReplyStep(a) PROVE Step
    <3>1. CASE Settle(a) /\ phase[a] = "replyLost"
      <4>1. owed' = [owed EXCEPT ![a] = Owed(a)] /\ base[a] < conflicts[a]
        BY <1>1, <3>1 DEF Settle, Goto, Counting
      <4> QED BY <1>1, <4>1 DEF Owed, TypeOK
    <3>2. CASE ~(Settle(a) /\ phase[a] = "replyLost")
      BY <2>2, <3>2 DEF ReplyStep, ReplyAcquire, ReplyTimeout, ReplyAccepted, ReplyRejected,
                        ReplyFault, Settle, SettleFault, Goto
    <3> QED BY <3>1, <3>2
  <2>3. CASE (\E h \in Handlers : ToolStep(h)) \/ HumanStep
             \/ (\E x \in Callers : LeaseExpires(x)) \/ UNCHANGED vars
    BY <2>3 DEF ToolStep, Call, ReadChannel, Denied, PostCard,
                ToolAcquire, ToolTimeout, ToolCommit, ToolFault, ToolRelease,
                HumanStep, HumanAcquire, HumanTimeout, HumanCommit, HumanRelease, LeaseExpires, vars
  <2>4. CASE Restart
    BY <2>4 DEF Restart
  <2> QED BY <1>1, <2>1, <2>2, <2>3, <2>4 DEF Next
<1>2. TypeOK /\ Counting /\ [Next]_vars => [Step]_vars
  BY <1>1
<1>3. Init => TypeOK /\ Counting
  BY ChannelAssumption DEF Init, TypeOK, HandlersOK, HandlerStates, Phases, Counting
<1>4. TypeOK /\ Counting /\ [Next]_vars => TypeOK' /\ Counting'
  BY TypeStep, CountingStep
<1>5. RegenerateEnds <=> [][Step]_vars
  BY PTL DEF RegenerateEnds
<1> QED BY <1>2, <1>3, <1>4, <1>5, PTL DEF Spec

-----------------------------------------------------------------------------
(* The lock, as the channel uses it.  What it keeps by itself is proved in *)
(* LockBackendProofs, of which LB is an instance with one key.             *)

LB == INSTANCE LockBackendProofs WITH Keys <- {Channel}, Actors <- Callers

\* What a move of another caller may do to b's: grant it the lock it waits for.
Granted(b) == call'[b] = call[b] \/ (call[b] = "waiting" /\ call'[b] = "leased")

\* Where a handler is and what its caller sees of the lock fit each other.
HandlerFits(h) ==
    /\ call[h] # "idle" <=> tool[h] \in {"lock", "done"}
    /\ tool[h] = "done" => call[h] = "leased"

\* So do the end of a's run and the lock of its reply.
ReplyFits(a) ==
    /\ call[Reply(a)] # "idle" => phase[a] \in {"reply", "replyDone", "replyLost", "replyFault"}
    /\ phase[a] = "reply" => call[Reply(a)] # "idle"
    /\ phase[a] \in {"replyDone", "replyFault"} => call[Reply(a)] = "leased"
    /\ phase[a] = "replyLost" => call[Reply(a)] # "waiting"

HumanFits ==
    /\ human = "idle" <=> call[Post] = "idle"
    /\ human = "posted" => call[Post] = "leased"

LockFits ==
    /\ LB!Inv
    /\ \A h \in Handlers : HandlerFits(h)
    /\ \A a \in Agents : ReplyFits(a)
    /\ HumanFits

\* The callers of the lock are all different.
LEMMA CallersDiffer ==
    /\ Handlers \subseteq Callers /\ Post \in Callers
    /\ \A a \in Agents : Reply(a) \in Callers /\ Reply(a) # Post
    /\ \A h \in Handlers : h # Post /\ \A a \in Agents : h # Reply(a)
    /\ \A a, b \in Agents : Reply(a) = Reply(b) => a = b
<1>1. User \notin Agents /\ "reply" \notin Slots
  BY ChannelAssumption
<1>2. Handlers \subseteq Callers /\ Post \in Callers /\ \A a \in Agents : Reply(a) \in Callers
  BY DEF Callers
<1>3. \A a, b \in Agents : Reply(a) # Post /\ (Reply(a) = Reply(b) => a = b)
  BY <1>1 DEF Reply, Post
<1>4. ASSUME NEW h \in Handlers PROVE h # Post /\ \A a \in Agents : h # Reply(a)
  <2>1. h[1] \in Agents /\ h[2] \in Slots
    BY <1>4 DEF Handlers
  <2>2. Post[1] = User /\ \A a \in Agents : Reply(a)[2] = "reply"
    BY DEF Post, Reply
  <2> QED BY <1>1, <2>1, <2>2
<1> QED BY <1>2, <1>3, <1>4

\* Every step of the channel is a step of the lock, leaves it alone, or is a
\* restart, which makes a new one.
LEMMA LockMoves ==
    ASSUME [Next]_vars
    PROVE  LB!LockNext \/ UNCHANGED lockVars \/ Lock!Reset
<1> DEFINE Moves == LB!LockNext \/ UNCHANGED lockVars \/ Lock!Reset
<1> USE DEF lockVars
<1>1. ASSUME NEW x \in Callers, Lock!Acquire(x, Channel) PROVE LB!LockNext
  BY <1>1 DEF LB!LockNext, LB!Acquire, LB!AcquireFree, LB!AcquireHeld,
              Lock!Acquire, Lock!AcquireFree, Lock!AcquireHeld
<1>2. ASSUME NEW x \in Callers, Lock!WaitTimeout(x) PROVE LB!LockNext
  BY <1>2 DEF LB!LockNext, LB!WaitTimeout, Lock!WaitTimeout, LB!RemoveAt, Lock!RemoveAt
<1>3. ASSUME NEW x \in Callers, Lock!Release(x) PROVE LB!LockNext
  <2>1. LB!Release(x)
    BY <1>3 DEF LB!Release, LB!ReleaseHeld, LB!ReleaseLate, LB!Unlock, LB!Heir,
                Lock!Release, Lock!ReleaseHeld, Lock!ReleaseLate, Lock!Unlock, Lock!Heir
  <2> QED BY <2>1 DEF LB!LockNext
<1>4. ASSUME NEW x \in Callers, Lock!LeaseExpires(x) PROVE LB!LockNext
  <2>1. LB!LeaseExpires(x)
    BY <1>4 DEF LB!LeaseExpires, LB!Unlock, LB!Heir, Lock!LeaseExpires, Lock!Unlock, Lock!Heir
  <2> QED BY <2>1 DEF LB!LockNext
<1>5. ASSUME NEW a \in Agents, RunStep(a) PROVE Moves
  BY <1>5 DEF RunStep, StartRun, StartFault, StartElsewhere, EndRun, FailRun, DropPending
<1>6. ASSUME NEW h \in Handlers, ToolStep(h) PROVE Moves
  <2>1. h \in Callers
    BY CallersDiffer
  <2> QED
    BY <1>1, <1>2, <1>3, <1>6, <2>1
       DEF ToolStep, Call, ReadChannel, Denied, PostCard,
           ToolAcquire, ToolTimeout, ToolCommit, ToolFault, ToolRelease
<1>7. ASSUME NEW a \in Agents, ReplyStep(a) PROVE Moves
  <2>1. Reply(a) \in Callers
    BY CallersDiffer
  <2> QED
    BY <1>1, <1>2, <1>3, <1>7, <2>1
       DEF ReplyStep, ReplyAcquire, ReplyTimeout, ReplyAccepted, ReplyRejected, ReplyFault,
           Settle, SettleFault
<1>8. ASSUME HumanStep PROVE Moves
  <2>1. Post \in Callers
    BY CallersDiffer
  <2> QED
    BY <1>1, <1>2, <1>3, <1>8, <2>1 DEF HumanStep, HumanAcquire, HumanTimeout, HumanCommit, HumanRelease
<1>9. CASE Restart \/ UNCHANGED vars
  BY <1>9 DEF Restart, vars
<1> QED BY <1>4, <1>5, <1>6, <1>7, <1>8, <1>9 DEF Next, LeaseExpires

LEMMA ResetInv ==
    ASSUME Lock!Reset
    PROVE  LB!Inv'
<1>1. Nobody \notin Callers /\ NoKey \notin {Channel}
  BY ChannelAssumption
<1> QED
  BY <1>1 DEF Lock!Reset, LB!Inv, LB!TypeOK, LB!CallStates, LB!QueueAgrees, LB!GrantAgrees,
              LB!NoStrandedWaiter

LEMMA LockStep ==
    ASSUME LB!Inv, [Next]_vars
    PROVE  LB!Inv'
<1>1. Nobody \notin Callers /\ NoKey \notin {Channel}
  BY ChannelAssumption
<1>2. LB!Inv /\ [LB!LockNext]_(LB!lockVars) => LB!Inv'
  BY <1>1, LB!StepInv DEF LB!NullAssumption
<1> QED BY <1>2, LockMoves, ResetInv DEF lockVars, LB!lockVars

\* What the operations of the lock do to the calls.
LEMMA AcquireMoves ==
    ASSUME LB!Inv, NEW x \in Callers, Lock!Acquire(x, Channel)
    PROVE  /\ call[x] = "idle" /\ call'[x] \in {"waiting", "leased"}
           /\ \A b \in Callers : b # x => Granted(b)
  BY DEF LB!Inv, LB!TypeOK, Lock!Acquire, Lock!AcquireFree, Lock!AcquireHeld, Granted

LEMMA TimeoutMoves ==
    ASSUME LB!Inv, NEW x \in Callers, Lock!WaitTimeout(x)
    PROVE  /\ call[x] = "waiting" /\ call'[x] = "idle"
           /\ \A b \in Callers : b # x => Granted(b)
  BY DEF LB!Inv, LB!TypeOK, Lock!WaitTimeout, Granted

LEMMA UnlockMoves ==
    ASSUME LB!Inv, NEW x \in Callers, call[x] = "leased", ~released[x],
           NEW after, Lock!Unlock(x, after)
    PROVE  /\ call'[x] = after
           /\ \A b \in Callers : b # x => Granted(b)
<1> DEFINE k == key[x]
<1>0. LB!TypeOK /\ LB!QueueAgrees /\ LB!GrantAgrees /\ Nobody \notin Callers
  BY ChannelAssumption DEF LB!Inv
<1>1. k \in {Channel} /\ locks[k] = x
  BY <1>0 DEF LB!GrantAgrees
<1>2. call' = [b \in Callers |-> IF b = Lock!Heir(k) THEN "leased"
                                 ELSE IF b = x THEN after ELSE call[b]]
  BY <1>1 DEF Lock!Unlock
<1>3. Lock!Heir(k) \in Callers => call[Lock!Heir(k)] = "waiting"
  <2>1. waiters[k] \in Seq(Callers)
    BY <1>0, <1>1 DEF LB!TypeOK
  <2>2. CASE waiters[k] = <<>>
    BY <1>0, <2>2 DEF Lock!Heir
  <2>3. CASE waiters[k] # <<>>
    <3>1. Lock!Heir(k) = waiters[k][1] /\ 1 \in 1..Len(waiters[k])
      BY <2>1, <2>3 DEF Lock!Heir
    <3> QED BY <1>0, <1>1, <3>1 DEF LB!QueueAgrees
  <2> QED BY <2>2, <2>3
<1> HIDE DEF k
<1> QED BY <1>2, <1>3 DEF Granted

LEMMA ReleaseMoves ==
    ASSUME LB!Inv, NEW x \in Callers, Lock!Release(x)
    PROVE  /\ call[x] = "leased" /\ call'[x] = "idle"
           /\ \A b \in Callers : b # x => Granted(b)
<1>1. CASE Lock!ReleaseHeld(x)
  BY <1>1, UnlockMoves DEF Lock!ReleaseHeld
<1>2. CASE Lock!ReleaseLate(x)
  BY <1>2 DEF Lock!ReleaseLate, LB!Inv, LB!TypeOK, Granted
<1> QED BY <1>1, <1>2 DEF Lock!Release

LEMMA ExpiryMoves ==
    ASSUME LB!Inv, NEW x \in Callers, Lock!LeaseExpires(x)
    PROVE  \A b \in Callers : Granted(b)
  BY UnlockMoves DEF Lock!LeaseExpires, Granted

\* Whoever stays where it is and is at most granted its lock still fits.
LEMMA Unmoved ==
    ASSUME LockFits
    PROVE  /\ \A h \in Handlers : tool'[h] = tool[h] /\ Granted(h) => HandlerFits(h)'
           /\ \A a \in Agents : phase'[a] = phase[a] /\ Granted(Reply(a)) => ReplyFits(a)'
           /\ human' = human /\ Granted(Post) => HumanFits'
<1>1. ASSUME NEW h \in Handlers, tool'[h] = tool[h], Granted(h) PROVE HandlerFits(h)'
  <2>1. HandlerFits(h) /\ (call[h] = "waiting" => tool[h] # "done")
    BY DEF LockFits, HandlerFits
  <2> QED BY <1>1, <2>1 DEF HandlerFits, Granted
<1>2. ASSUME NEW a \in Agents, phase'[a] = phase[a], Granted(Reply(a)) PROVE ReplyFits(a)'
  <2>1. ReplyFits(a)
    BY DEF LockFits
  <2> QED BY <1>2, <2>1 DEF ReplyFits, Granted
<1>3. ASSUME human' = human, Granted(Post) PROVE HumanFits'
  BY <1>3 DEF LockFits, HumanFits, Granted
<1> QED BY <1>1, <1>2, <1>3

LEMMA ToolFits ==
    ASSUME TypeOK, LockFits, NEW h \in Handlers, ToolStep(h)
    PROVE  /\ phase' = phase /\ human' = human
           /\ \A g \in Handlers : g # h => tool'[g] = tool[g]
           /\ \A b \in Callers : b # h => Granted(b)
           /\ HandlerFits(h)'
<1> DEFINE Others == \A b \in Callers : b # h => Granted(b)
<1>0. LB!Inv /\ HandlerFits(h) /\ h \in Callers /\ tool \in [Handlers -> HandlerStates]
  BY CallersDiffer DEF LockFits, TypeOK, HandlersOK
<1> USE DEF Answered, Move
<1>1. /\ phase' = phase /\ human' = human
      /\ \A g \in Handlers : g # h => tool'[g] = tool[g]
  BY <1>0 DEF ToolStep, Call, ReadChannel, Denied, PostCard,
              ToolAcquire, ToolTimeout, ToolCommit, ToolFault, ToolRelease
<1>2. CASE Call(h) \/ ReadChannel(h) \/ Denied(h) \/ \E kind \in Cards : PostCard(h, kind)
  <2>1. call' = call /\ {tool[h], tool'[h]} \subseteq {"idle", "called", "calledHere"}
    BY <1>0, <1>2 DEF Call, ReadChannel, Denied, PostCard, lockVars
  <2> QED BY <1>0, <1>1, <2>1 DEF HandlerFits, Granted
<1>3. CASE ToolAcquire(h)
  <2>1. Others /\ call'[h] \in {"waiting", "leased"} /\ tool'[h] = "lock"
    BY <1>0, <1>3, AcquireMoves DEF ToolAcquire
  <2> QED BY <1>1, <2>1 DEF HandlerFits
<1>4. CASE ToolTimeout(h)
  <2>1. Others /\ call'[h] = "idle" /\ tool'[h] = "idle"
    BY <1>0, <1>4, TimeoutMoves DEF ToolTimeout
  <2> QED BY <1>1, <2>1 DEF HandlerFits
<1>5. CASE ToolCommit(h) \/ ToolFault(h)
  <2>1. call' = call /\ call[h] = "leased" /\ tool'[h] = "done"
    BY <1>0, <1>5 DEF ToolCommit, ToolFault, lockVars
  <2> QED BY <1>1, <2>1 DEF HandlerFits, Granted
<1>6. CASE ToolRelease(h)
  <2>1. Others /\ call'[h] = "idle" /\ tool'[h] = "idle"
    BY <1>0, <1>6, ReleaseMoves DEF ToolRelease
  <2> QED BY <1>1, <2>1 DEF HandlerFits
<1> QED BY <1>2, <1>3, <1>4, <1>5, <1>6 DEF ToolStep

LEMMA EndFits ==
    ASSUME TypeOK, LockFits, NEW a \in Agents, ReplyStep(a)
    PROVE  /\ tool' = tool /\ human' = human
           /\ \A b \in Agents : b # a => phase'[b] = phase[b]
           /\ \A b \in Callers : b # Reply(a) => Granted(b)
           /\ ReplyFits(a)'
<1> DEFINE Others == \A b \in Callers : b # Reply(a) => Granted(b)
<1>0. LB!Inv /\ ReplyFits(a) /\ Reply(a) \in Callers /\ phase \in [Agents -> Phases]
  BY CallersDiffer DEF LockFits, TypeOK
<1>1. /\ tool' = tool /\ human' = human
      /\ \A b \in Agents : b # a => phase'[b] = phase[b]
  BY <1>0 DEF ReplyStep, ReplyAcquire, ReplyTimeout, ReplyAccepted, ReplyRejected, ReplyFault,
              Settle, SettleFault, Goto, handlerVars
<1>2. CASE ReplyAcquire(a)
  <2>1. Others /\ call'[Reply(a)] \in {"waiting", "leased"} /\ phase'[a] = "reply"
    BY <1>0, <1>2, AcquireMoves DEF ReplyAcquire, Goto
  <2> QED BY <1>1, <2>1 DEF ReplyFits
<1>3. CASE ReplyTimeout(a)
  <2>1. Others /\ call'[Reply(a)] = "idle" /\ phase'[a] = "replyBusy"
    BY <1>0, <1>3, TimeoutMoves DEF ReplyTimeout, Goto
  <2> QED BY <1>1, <2>1 DEF ReplyFits
<1>4. CASE ReplyAccepted(a) \/ ReplyFault(a)
  <2>1. /\ call' = call /\ call[Reply(a)] = "leased"
        /\ phase'[a] \in {"replyDone", "replyFault"}
    BY <1>0, <1>4 DEF ReplyAccepted, ReplyFault, Goto, lockVars
  <2> QED BY <1>1, <2>1 DEF ReplyFits, Granted
<1>5. CASE ReplyRejected(a)
  <2>1. /\ call' = call /\ phase'[a] = "replyLost"
        /\ call[Reply(a)] = "leased" \/ phase[a] = "replyBusy"
    BY <1>0, <1>5 DEF ReplyRejected, lockVars
  <2> QED BY <1>0, <1>1, <2>1 DEF ReplyFits, Granted
<1>6. CASE Settle(a) \/ SettleFault(a)
  <2>1. phase'[a] \in {"off", "failed"} /\ phase[a] \in {"replyDone", "replyLost", "replyFault"}
    BY <1>0, <1>6 DEF Settle, SettleFault, Goto
  <2>2. Others /\ call'[Reply(a)] = "idle"
    <3>1. CASE call[Reply(a)] = "leased"
      BY <1>0, <1>6, <3>1, ReleaseMoves DEF Settle, SettleFault
    <3>2. CASE call[Reply(a)] # "leased"
      <4>1. call[Reply(a)] = "idle"
        BY <1>0, <2>1, <3>2 DEF ReplyFits, LB!Inv, LB!TypeOK, LB!CallStates
      <4> QED BY <1>6, <3>2, <4>1 DEF Settle, SettleFault, lockVars, Granted
    <3> QED BY <3>1, <3>2
  <2> QED BY <1>1, <2>1, <2>2 DEF ReplyFits
<1> QED BY <1>2, <1>3, <1>4, <1>5, <1>6 DEF ReplyStep

LEMMA FitsStep ==
    ASSUME TypeOK, LockFits, [Next]_vars
    PROVE  LockFits'
<1>0. LB!Inv'
  BY LockStep DEF LockFits
<1>1. ASSUME NEW a \in Agents, RunStep(a) PROVE LockFits'
  <2>1. call' = call /\ tool' = tool /\ human' = human
    BY <1>1 DEF RunStep, StartRun, StartFault, StartElsewhere, EndRun, FailRun, DropPending,
                lockVars, handlerVars
  <2>2. /\ \A b \in Agents : b # a => phase'[b] = phase[b]
        /\ phase'[a] = phase[a]
           \/ (phase[a] \in {"off", "run", "failed"} /\ phase'[a] \in {"off", "run"})
    BY <1>1 DEF RunStep, StartRun, StartFault, StartElsewhere, EndRun, FailRun, DropPending,
                Goto, TypeOK
  <2>3. ReplyFits(a)'
    BY <2>1, <2>2 DEF LockFits, ReplyFits
  <2> QED BY <1>0, <2>1, <2>2, <2>3, Unmoved DEF LockFits, Granted
<1>2. ASSUME NEW h \in Handlers, ToolStep(h) PROVE LockFits'
  BY <1>0, <1>2, ToolFits, Unmoved, CallersDiffer DEF LockFits
<1>3. ASSUME NEW a \in Agents, ReplyStep(a) PROVE LockFits'
  BY <1>0, <1>3, EndFits, Unmoved, CallersDiffer DEF LockFits
<1>4. ASSUME HumanStep PROVE LockFits'
  <2>0. Post \in Callers /\ LB!Inv /\ HumanFits
    BY CallersDiffer DEF LockFits
  <2>1. phase' = phase /\ tool' = tool
    BY <1>4 DEF HumanStep, HumanAcquire, HumanTimeout, HumanCommit, HumanRelease, handlerVars
  <2>2. (\A b \in Callers : b # Post => Granted(b)) /\ HumanFits'
    <3>1. CASE HumanAcquire
      BY <2>0, <3>1, AcquireMoves DEF HumanAcquire, HumanFits
    <3>2. CASE HumanTimeout
      BY <2>0, <3>2, TimeoutMoves DEF HumanTimeout, HumanFits
    <3>3. CASE HumanCommit
      BY <3>3 DEF HumanCommit, HumanFits, lockVars, Granted
    <3>4. CASE HumanRelease
      BY <2>0, <3>4, ReleaseMoves DEF HumanRelease, HumanFits
    <3> QED BY <1>4, <3>1, <3>2, <3>3, <3>4 DEF HumanStep
  <2> QED BY <1>0, <2>1, <2>2, Unmoved, CallersDiffer DEF LockFits
<1>5. ASSUME NEW x \in Callers, LeaseExpires(x) PROVE LockFits'
  <2>1. /\ phase' = phase /\ tool' = tool /\ human' = human
        /\ \A b \in Callers : Granted(b)
    BY <1>5, ExpiryMoves DEF LeaseExpires, LockFits, handlerVars
  <2> QED BY <1>0, <2>1, Unmoved, CallersDiffer DEF LockFits
<1>6. ASSUME Restart PROVE LockFits'
  <2>1. /\ \A a \in Agents : phase'[a] = "off" /\ call'[Reply(a)] = "idle"
        /\ \A h \in Handlers : tool'[h] = "idle" /\ call'[h] = "idle"
        /\ human' = "idle" /\ call'[Post] = "idle"
    BY <1>6, CallersDiffer DEF Restart, Lock!Reset
  <2> QED BY <1>0, <2>1 DEF LockFits, HandlerFits, ReplyFits, HumanFits
<1>7. CASE UNCHANGED vars
  BY <1>0, <1>7, Unmoved DEF vars, LockFits, Granted
<1> QED BY <1>1, <1>2, <1>3, <1>4, <1>5, <1>6, <1>7 DEF Next

LEMMA FitsInit ==
    ASSUME Init
    PROVE  LockFits
<1>1. LB!Inv
  <2>1. Nobody \notin Callers /\ NoKey \notin {Channel}
    BY ChannelAssumption
  <2> QED BY <2>1, LB!InitInv DEF LB!NullAssumption, LB!Init, Lock!Init, Init
<1>2. /\ \A a \in Agents : phase[a] = "off" /\ call[Reply(a)] = "idle"
      /\ \A h \in Handlers : tool[h] = "idle" /\ call[h] = "idle"
      /\ human = "idle" /\ call[Post] = "idle"
  BY CallersDiffer DEF Init, Lock!Init
<1> QED BY <1>1, <1>2 DEF LockFits, HandlerFits, ReplyFits, HumanFits

\* Whoever is in the lock backend is inside one post, and every post that holds
\* or awaits the lock is in the backend, through timeouts, expired leases,
\* failed writes, restarts, and the end of the run that made the call.
THEOREM ChannelPostsOwnLocks == Spec => []PostsOwnLocks
<1>1. Init => TypeOK /\ LockFits
  BY FitsInit, ChannelAssumption DEF Init, TypeOK, HandlersOK, HandlerStates, Phases
<1>2. TypeOK /\ LockFits /\ [Next]_vars => TypeOK' /\ LockFits'
  BY TypeStep, FitsStep
<1>3. LockFits => PostsOwnLocks
  BY DEF LockFits, HandlerFits, ReplyFits, HumanFits, PostsOwnLocks
<1> QED BY <1>1, <1>2, <1>3, PTL DEF Spec

\* What a fault may not leave behind: the three together, as the run states it.
THEOREM ChannelFaultsLeaveNoTrace == Spec => []FaultsLeaveNoTrace
<1>1. TypeOK /\ SeqsIntact /\ PostsOwnLocks => FaultsLeaveNoTrace
  BY DEF FaultsLeaveNoTrace
<1> QED BY <1>1, ChannelTypeOK, ChannelSeqsIntact, ChannelPostsOwnLocks, PTL
=============================================================================
