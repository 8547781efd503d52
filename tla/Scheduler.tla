----------------------------- MODULE Scheduler -----------------------------
(***************************************************************************)
(* The run scheduler of AgentService (apps/server/src/agent-service.ts):   *)
(* who is woken, how a wake becomes a run or waits behind one, how a run   *)
(* proceeds from its start to its end, and what the human's start, stop,   *)
(* close and delete do to it.                                              *)
(*                                                                         *)
(* Every change of the database is a mutation in JsonStore's FIFO queue.   *)
(* The code between two awaits runs without interruption, so a step here   *)
(* is one of: the head of the store's queue commits and its caller runs on *)
(* to its next await; a file operation or the child process ends; a human  *)
(* acts.  Status and runs are the database; executions, cancellation       *)
(* requests, deferred wakes and the runner are the process's memory.       *)
(***************************************************************************)
EXTENDS Runner, Sequences, FiniteSets, SequencesExt, Functions

CONSTANTS
    Channels,     \* the channels agents are woken in; every agent is a member
    Clicks,       \* the human's requests to start, stop, close or delete
    Ops,          \* which of those the human makes
    MaxRuns,      \* bound: runs ever started
    MaxPosts,     \* bound: human messages, each the root of a trace
    TraceBudget,  \* TRACE_BUDGET
    Faults,       \* the mutations whose write to disk may fail
    MayRestart    \* whether the server may restart

ASSUME SchedulerAssumption ==
    /\ Agents # {}
    /\ Channels # {}
    /\ IsFiniteSet(Clicks)
    /\ MaxRuns \in Nat \ {0}
    /\ MaxPosts \in Nat \ {0}
    /\ TraceBudget \in Nat \ {0}
    /\ MayRestart \in BOOLEAN
    /\ Ops \subseteq {"start", "stop", "close", "delete"}
    /\ Faults \subseteq {"start", "launch", "completed", "failed", "cancelled", "click"}

VARIABLES
    status,     \* status[a]: Agent.status, "gone" once deleted
    run,        \* run[r]: agent, channel, trace and status of the r-th run
    unread,     \* unread[a]: channels with messages no prompt of a has covered
    queue,      \* JsonStore.queue: the mutations that wait, oldest first
    phase,      \* phase[r]: where executeRun is
    todo,       \* todo[r]: the agents wakeMembers has yet to wake for r's reply
    exec,       \* activeExecutions: the run whose execution is a's entry, or 0
    pending,    \* pendingWakes: a's deferred wakes, in the order of the Map
    cancelReq,  \* cancellationRequests
    click,      \* click[k]: the human's requests
    posts       \* how many messages the human has posted

schedVars == <<status, run, unread, queue, phase, todo, exec, pending,
               cancelReq, click, posts>>
vars == <<runnerVars, schedVars>>

Runs == 1..MaxRuns
Traces == 1..MaxPosts
Active == {"queued", "running"}
Terminal == {"completed", "failed", "cancelled"}

Statuses == {"ready", "busy", "stopped", "error", "closed", "gone"}
Phases == {"none", "queued", "prepare", "codex", "replying", "losing", "failing",
           "waking", "waiting", "settling", "draining", "done"}

Wake(c, t, lost) == [chan |-> c, trace |-> t, conflict |-> lost]
Wakes == [chan : Channels, trace : Traces, conflict : BOOLEAN]

NoRun == [agent |-> CHOOSE a \in Agents : TRUE,
          chan |-> CHOOSE c \in Channels : TRUE, trace |-> 1, status |-> "none"]

\* The mutations: startRun's for wake w, executeRun's three, and the human's.
\* by is the run whose wakeMembers or drainPendingWakes asked, 0 for the human.
StartMutation(a, w, by) == [op |-> "start", agent |-> a, wake |-> w, by |-> by]
RunMutation(op, r) == [op |-> op, run |-> r]
ClickMutation(k) == [op |-> "click", click |-> k]

Mutations ==
    [op : {"start"}, agent : Agents, wake : Wakes, by : Runs \cup {0}]
        \cup [op : {"launch"} \cup Terminal, run : Runs]
        \cup [op : {"click"}, click : Clicks]

TypeOK ==
    /\ RunnerTypeOK(Runs)
    /\ status \in [Agents -> Statuses]
    /\ run \in [Runs -> [agent : Agents, chan : Channels, trace : Traces,
                         status : Active \cup Terminal \cup {"none", "removed"}]]
    /\ unread \in [Agents -> SUBSET Channels]
    /\ queue \in Seq(Mutations)
    /\ phase \in [Runs -> Phases]
    /\ todo \in [Runs -> SUBSET Agents]
    /\ exec \in [Agents -> Runs \cup {0}]
    /\ pending \in [Agents -> Seq(Wakes)]
    /\ cancelReq \subseteq Agents
    /\ click \in [Clicks -> [phase : {"idle", "killing", "awaiting", "archiving", "writing", "done"},
                             op : Ops \cup {"none"}, agent : Agents,
                             run : Runs \cup {0}, killed : Runs \cup {0}]]
    /\ posts \in 0..MaxPosts

NoClick == [phase |-> "idle", op |-> "none", agent |-> CHOOSE a \in Agents : TRUE,
            run |-> 0, killed |-> 0]

Init ==
    /\ RunnerInit
    /\ status = [a \in Agents |-> "ready"]
    /\ run = [r \in Runs |-> NoRun]
    /\ unread = [a \in Agents |-> {}]
    /\ queue = <<>>
    /\ phase = [r \in Runs |-> "none"]
    /\ todo = [r \in Runs |-> {}]
    /\ exec = [a \in Agents |-> 0]
    /\ pending = [a \in Agents |-> <<>>]
    /\ cancelReq = {}
    /\ click = [k \in Clicks |-> NoClick]
    /\ posts = 0

-----------------------------------------------------------------------------

(***************************************************************************)
(* Bounds: every wake on its way may become a run, so new ones are made    *)
(* only while a run is left for each.                                      *)
(***************************************************************************)

Started == {r \in Runs : run[r].status # "none"}
StartsQueued == Cardinality({i \in DOMAIN queue : queue[i].op = "start"})
Deferred == Cardinality(UNION {{a} \X DOMAIN pending[a] : a \in Agents})
Promised == Cardinality(UNION {{r} \X todo[r] : r \in Runs})
Losing == Cardinality({r \in Runs : phase[r] = "losing"})
Room == MaxRuns - (Cardinality(Started) + StartsQueued + Deferred + Promised + Losing)

(***************************************************************************)
(* Deferred wakes.                                                         *)
(***************************************************************************)

\* Mutant: the conflict of the pending wake is dropped.
DeferForgets(waiting, w) ==
    IF \E i \in DOMAIN waiting : waiting[i].chan = w.chan
    THEN [i \in DOMAIN waiting |-> IF waiting[i].chan = w.chan THEN w ELSE waiting[i]]
    ELSE Append(waiting, w)

\* deferWake: one entry per channel, whose trigger is the newest message and
\* whose conflict, if any, is kept.
Defer(waiting, w) ==
    IF \E i \in DOMAIN waiting : waiting[i].chan = w.chan
    THEN [i \in DOMAIN waiting |->
            IF waiting[i].chan = w.chan
            THEN [w EXCEPT !.conflict = @ \/ waiting[i].conflict]
            ELSE waiting[i]]
    ELSE Append(waiting, w)

\* traceExhausted, for messages of agents.
Exhausted(t) == Cardinality({r \in Runs : run[r].status \notin {"none", "removed"}
                                          /\ run[r].trace = t}) >= TraceBudget

\* queueTurn up to its await: the wake waits behind the running turn, or
\* startRun's mutation is queued.
QueueTurn(a, w, by) ==
    IF status[a] = "busy" \/ exec[a] # 0
    THEN /\ pending' = [pending EXCEPT ![a] = Defer(@, w)]
         /\ UNCHANGED queue
    ELSE /\ queue' = Append(queue, StartMutation(a, w, by))
         /\ UNCHANGED pending

\* A wake that merges with a deferred one takes no further run.
Merges(a, c) == exec[a] # 0 /\ \E i \in DOMAIN pending[a] : pending[a][i].chan = c

\* The human posts in channel c and addresses a, or answers a request of a
\* there.  (Only the former skips agents that are stopped or closed.)
Post(a, c) ==
    /\ Room > 0 \/ Merges(a, c)
    /\ posts < MaxPosts
    /\ status[a] # "gone"
    /\ posts' = posts + 1
    /\ unread' = [b \in Agents |-> unread[b] \cup {c}]
    /\ QueueTurn(a, Wake(c, posts + 1, FALSE), 0)
    /\ UNCHANGED <<runnerVars, status, run, phase, todo, exec, cancelReq, click>>

(***************************************************************************)
(* The store's queue, and what is resumed when a run's execution ends.     *)
(***************************************************************************)

HeadIs(op) == queue # <<>> /\ Head(queue).op = op

Orders(S) == {s \in [1..Cardinality(S) -> S] : IsInjective(s)}

\* cancelExecution returns to the requests K: the cancellation is over, and
\* stop and close queue their mutation behind q while delete archives first.
Resume(K, q) ==
    /\ cancelReq' = cancelReq \ {click[k].agent : k \in K}
    /\ click' = [k \in Clicks |->
          IF k \in K
          THEN [click[k] EXCEPT !.phase = IF click[k].op = "delete" THEN "archiving" ELSE "writing"]
          ELSE click[k]]
    /\ \E order \in Orders({k \in K : click[k].op # "delete"}) :
          queue' = q \o [i \in DOMAIN order |-> ClickMutation(order[i])]

\* Who awaits the execution of run r.
Awaiting(r) == {k \in Clicks : click[k].phase = "awaiting" /\ click[k].run = r}

\* cancelExecution throws to the requests K, which are answered with the error.
Reject(K, q) ==
    /\ cancelReq' = cancelReq \ {click[k].agent : k \in K}
    /\ click' = [k \in Clicks |-> IF k \in K THEN [click[k] EXCEPT !.phase = "done"] ELSE click[k]]
    /\ queue' = q

\* Mutant: only the executions that succeed are waited for.
OverIfRecorded(r, q) ==
    IF run[r].status \in Active
    THEN /\ queue' = q
         /\ UNCHANGED <<cancelReq, click>>
    ELSE Resume(Awaiting(r), q)

\* The execution of run r is over.  Its promise is rejected if the run's end
\* could not be written, and then the record is still that of an active run.
Over(r, q) ==
    IF run[r].status \in Active
    THEN Reject(Awaiting(r), q)
    ELSE Resume(Awaiting(r), q)

\* Where the run that asked for a start goes on once it has its answer.
After(by, next) == IF by = 0 THEN phase ELSE [phase EXCEPT ![by] = next]

Drainer(by) == by # 0 /\ phase[by] = "draining"

\* The entry of run r's agent, unless another execution has replaced it.
Forget(entries, r) ==
    [a \in Agents |-> IF entries[a] = r THEN 0 ELSE entries[a]]

(***************************************************************************)
(* startRun's mutation, and what its caller does with the outcome.         *)
(***************************************************************************)

\* What buildChannelPrompt finds new: messages that no run of the agent which
\* is over had in its prompt.
News(a, c) ==
    \/ c \in unread[a]
    \/ \E r \in Runs : run[r].agent = a /\ run[r].chan = c /\ run[r].status \in Active

\* A run is created; executeRun begins and queues its first mutation.  (Runs are
\* bounded; Room sees to it that one is left for every start that is queued.)
StartGranted ==
    /\ HeadIs("start")
    /\ LET m == Head(queue)
           a == m.agent
           w == m.wake
           r == Cardinality(Started) + 1
           q == Append(Tail(queue), RunMutation("launch", r))
       IN  /\ r \in Runs
           /\ status[a] \in {"ready", "error"}
           /\ w.conflict \/ News(a, w.chan)
           /\ run' = [run EXCEPT ![r] = [agent |-> a, chan |-> w.chan,
                                         trace |-> w.trace, status |-> "queued"]]
           /\ status' = [status EXCEPT ![a] = "busy"]
           /\ unread' = [unread EXCEPT ![a] = @ \ {w.chan}]
           /\ IF Drainer(m.by)
              THEN /\ phase' = [phase EXCEPT ![r] = "queued", ![m.by] = "done"]
                   /\ exec' = [Forget(exec, m.by) EXCEPT ![a] = r]
                   /\ Over(m.by, q)
              ELSE /\ phase' = [After(m.by, "waking") EXCEPT ![r] = "queued"]
                   /\ exec' = [exec EXCEPT ![a] = r]
                   /\ Resume({}, q)
    /\ UNCHANGED <<runnerVars, todo, pending, posts>>

\* NothingToDoError: an earlier prompt covered the message.  Draining goes on
\* with the next deferred wake.
StartPointless ==
    /\ HeadIs("start")
    /\ LET m == Head(queue) IN
           /\ status[m.agent] \in {"ready", "error"}
           /\ ~m.wake.conflict
           /\ ~News(m.agent, m.wake.chan)
           /\ phase' = After(m.by, IF Drainer(m.by) THEN "settling" ELSE "waking")
    /\ queue' = Tail(queue)
    /\ UNCHANGED <<runnerVars, status, run, unread, todo, exec, pending, cancelReq, click, posts>>

\* 409 Conflict: stopped, closed, or busy by now.  queueTurn defers the wake,
\* drainPendingWakes swallows the error and ends the execution.
StartRefused ==
    /\ HeadIs("start")
    /\ LET m == Head(queue) IN
           /\ status[m.agent] \in {"busy", "stopped", "closed"}
           /\ IF Drainer(m.by)
              THEN /\ phase' = After(m.by, "done")
                   /\ exec' = Forget(exec, m.by)
                   /\ Over(m.by, Tail(queue))
                   /\ UNCHANGED pending
              ELSE /\ phase' = After(m.by, "waking")
                   /\ pending' = [pending EXCEPT ![m.agent] = Defer(@, m.wake)]
                   /\ Resume({}, Tail(queue))
                   /\ UNCHANGED exec
    /\ UNCHANGED <<runnerVars, status, run, unread, todo, posts>>

\* 404: the agent was deleted; or the run cannot be written.  In wakeMembers the
\* error fails the run whose reply was being announced.
StartMissing ==
    /\ HeadIs("start")
    /\ LET m == Head(queue) IN
           /\ \/ status[m.agent] = "gone"
              \/ /\ "start" \in Faults
                 /\ status[m.agent] \in {"ready", "error"}
                 /\ m.wake.conflict \/ News(m.agent, m.wake.chan)
           /\ IF Drainer(m.by)
              THEN /\ phase' = After(m.by, "done")
                   /\ exec' = Forget(exec, m.by)
                   /\ Over(m.by, Tail(queue))
              ELSE /\ phase' = After(m.by, "failing")
                   /\ Resume({}, IF m.by = 0 THEN Tail(queue)
                                 ELSE Append(Tail(queue), RunMutation("failed", m.by)))
                   /\ UNCHANGED exec
    /\ UNCHANGED <<runnerVars, status, run, unread, todo, pending, posts>>

(***************************************************************************)
(* executeRun and finishRun.                                               *)
(***************************************************************************)

\* After "running" is on disk a request to cancel ends the run before it starts.
Launch(r) ==
    IF run[r].agent \in cancelReq
    THEN /\ phase' = [phase EXCEPT ![r] = "failing"]
         /\ queue' = Append(Tail(queue), RunMutation("cancelled", r))
    ELSE /\ phase' = [phase EXCEPT ![r] = "prepare"]
         /\ queue' = Tail(queue)

CommitLaunch ==
    /\ HeadIs("launch")
    /\ LET r == Head(queue).run IN
           /\ Launch(r)
           /\ run' = [run EXCEPT ![r].status = IF @ = "removed" THEN @ ELSE "running"]
    /\ UNCHANGED <<runnerVars, status, unread, todo, exec, pending, cancelReq, click, posts>>

\* The write fails before executeRun's try block: no catch records it, nothing
\* is drained, and the execution is over.
LaunchFails ==
    /\ HeadIs("launch")
    /\ "launch" \in Faults
    /\ LET r == Head(queue).run IN
           /\ phase' = [phase EXCEPT ![r] = "done"]
           /\ exec' = Forget(exec, r)
           /\ Over(r, Tail(queue))
    /\ UNCHANGED <<runnerVars, status, run, unread, todo, pending, posts>>

\* The Codex home and the instructions are written (or are not, or the agent
\* still has a process, or none can be spawned), then the process is started.
Prepared(r) ==
    /\ phase[r] = "prepare"
    /\ \/ /\ Spawn(run[r].agent, r)
          /\ phase' = [phase EXCEPT ![r] = "codex"]
          /\ UNCHANGED queue
       \/ /\ phase' = [phase EXCEPT ![r] = "failing"]
          /\ queue' = Append(queue, RunMutation("failed", r))
          /\ UNCHANGED runnerVars
    /\ UNCHANGED <<status, run, unread, todo, exec, pending, cancelReq, click, posts>>

\* The requests whose runner.cancel waits for run r's process.
Killing(r) == {k \in Clicks : click[k].phase = "killing" /\ click[k].run = r}

\* runner.run settles: the run goes on to its reply or to executeRun's catch,
\* and whoever cancelled it now awaits the execution.
Settle(r) ==
    LET a == run[r].agent
        result == Result(a)
    IN  /\ phase[r] = "codex"
        /\ active[a] = r
        /\ Reap(a)
        /\ phase' = [phase EXCEPT ![r] = IF result = "completed" THEN "replying" ELSE "failing"]
        /\ IF exec[a] = 0
           THEN Resume(Killing(r), Append(queue, RunMutation(result, r)))
           ELSE /\ queue' = Append(queue, RunMutation(result, r))
                /\ click' = [k \in Clicks |->
                      IF k \in Killing(r)
                      THEN [click[k] EXCEPT !.phase = "awaiting", !.run = exec[a]]
                      ELSE click[k]]
                /\ UNCHANGED cancelReq
        /\ UNCHANGED <<status, run, unread, todo, exec, pending, posts>>

\* Mutant: the end of a run makes its agent ready whatever its status.
EndedAlwaysReady(a, after) ==
    status' = [status EXCEPT ![a] = IF @ = "gone" THEN @ ELSE after]

\* Mutant: a failed run leaves its agent busy.
EndedUnlessFailed(a, after) ==
    status' = [status EXCEPT ![a] = IF @ = "busy" /\ after = "ready" THEN after ELSE @]

\* A run's end changes its agent's status only from "busy".
Ended(a, after) == status' = [status EXCEPT ![a] = IF @ = "busy" THEN after ELSE @]

\* The run's record survives only with its agent.
Stored(r) == run[r].status # "removed" /\ status[run[r].agent] # "gone"

Reachable(a) == {b \in Agents \ {a} : status[b] \notin {"stopped", "closed", "gone"}}

\* finishRun's mutation: the run is complete, and its reply is posted and
\* addresses some members, is withheld, or is rejected.
\* A withheld reply may pass the turn to one member.
CommitFinish ==
    /\ HeadIs("completed")
    /\ LET r == Head(queue).run
           a == run[r].agent
       IN  /\ run' = [run EXCEPT ![r].status = IF Stored(r) THEN "completed" ELSE @]
           /\ Ended(a, "ready")
           /\ \/ /\ Stored(r)
                 /\ \E called \in SUBSET Reachable(a) :
                       /\ Cardinality(called) <= Room
                       /\ todo' = [todo EXCEPT ![r] = called]
                 /\ unread' = [b \in Agents |-> IF b = a THEN unread[b]
                                                ELSE unread[b] \cup {run[r].chan}]
                 /\ phase' = [phase EXCEPT ![r] = "waking"]
              \/ /\ \E called \in SUBSET Reachable(a) :
                       /\ Cardinality(called) <= IF Stored(r) /\ Room > 0 THEN 1 ELSE 0
                       /\ todo' = [todo EXCEPT ![r] = called]
                 /\ phase' = [phase EXCEPT ![r] = "waking"]
                 /\ UNCHANGED unread
              \/ /\ Stored(r)
                 /\ Room > 0
                 /\ phase' = [phase EXCEPT ![r] = "losing"]
                 /\ UNCHANGED <<todo, unread>>
    /\ queue' = Tail(queue)
    /\ UNCHANGED <<runnerVars, exec, pending, cancelReq, click, posts>>

\* finishRun's write fails, and executeRun's catch is to record that.
FinishFails ==
    /\ HeadIs("completed")
    /\ "completed" \in Faults
    /\ LET r == Head(queue).run IN
           /\ phase' = [phase EXCEPT ![r] = "failing"]
           /\ queue' = Append(Tail(queue), RunMutation("failed", r))
    /\ UNCHANGED <<runnerVars, status, run, unread, todo, exec, pending, cancelReq, click, posts>>

\* regenerateAfterConflict, once the decision is recorded: the next turn hangs
\* off the message that won, or off the run's own trigger when it lost to a
\* channel lock held too long.
Lose(r) ==
    /\ phase[r] = "losing"
    /\ \E t \in {run[r].trace} \cup
              (IF run[r].chan \in unread[run[r].agent] THEN 1..posts ELSE {}) :
          pending' = [pending EXCEPT ![run[r].agent] = Defer(@, Wake(run[r].chan, t, TRUE))]
    /\ phase' = [phase EXCEPT ![r] = "settling"]
    /\ UNCHANGED <<runnerVars, status, run, unread, queue, todo, exec, cancelReq, click, posts>>

\* One turn of wakeMembers' loop.  A recipient may have been deleted since.
WakeNext(r) ==
    /\ phase[r] = "waking"
    /\ \E b \in todo[r] :
          /\ todo' = [todo EXCEPT ![r] = @ \ {b}]
          /\ IF Exhausted(run[r].trace)
             THEN UNCHANGED <<phase, queue, pending>>
             ELSE IF status[b] = "gone"
             THEN /\ phase' = [phase EXCEPT ![r] = "failing"]
                  /\ queue' = Append(queue, RunMutation("failed", r))
                  /\ UNCHANGED pending
             ELSE /\ QueueTurn(b, Wake(run[r].chan, run[r].trace, FALSE), r)
                  /\ phase' = [phase EXCEPT ![r] = IF queue' = queue THEN @ ELSE "waiting"]
    /\ UNCHANGED <<runnerVars, status, run, unread, exec, cancelReq, click, posts>>

\* executeRun's catch: "failed" or "cancelled" goes on record, and a failure
\* posts a notice where the run would have replied.
CommitFail ==
    /\ queue # <<>>
    /\ Head(queue).op \in {"failed", "cancelled"}
    /\ LET r == Head(queue).run
           a == run[r].agent
           how == Head(queue).op
       IN  /\ run' = [run EXCEPT ![r].status = IF @ = "removed" THEN @ ELSE how]
           /\ Ended(a, IF how = "cancelled" THEN "ready" ELSE "error")
           /\ unread' = [b \in Agents |->
                 IF how = "failed" /\ status[a] # "gone" THEN unread[b] \cup {run[r].chan}
                 ELSE unread[b]]
           /\ phase' = [phase EXCEPT ![r] = "settling"]
           /\ todo' = [todo EXCEPT ![r] = {}]
    /\ queue' = Tail(queue)
    /\ UNCHANGED <<runnerVars, exec, pending, cancelReq, click, posts>>

\* The catch's own write fails; its finally block still drains.
FailFails ==
    /\ queue # <<>>
    /\ Head(queue).op \in {"failed", "cancelled"} \cap Faults
    /\ LET r == Head(queue).run IN
           /\ phase' = [phase EXCEPT ![r] = "settling"]
           /\ todo' = [todo EXCEPT ![r] = {}]
    /\ queue' = Tail(queue)
    /\ UNCHANGED <<runnerVars, status, run, unread, exec, pending, cancelReq, click, posts>>

\* executeRun has reached its finally block.
Settling(r) == phase[r] = "settling" \/ (phase[r] = "waking" /\ todo[r] = {})

\* drainPendingWakes: the oldest deferred wake is taken out; it becomes a turn
\* if the agent is ready and is dropped if it is not.  With none left, or after
\* the drop, the execution ends.
Drain(r) ==
    LET a == run[r].agent IN
    /\ Settling(r)
    /\ pending' = [pending EXCEPT ![a] = IF @ = <<>> THEN @ ELSE Tail(@)]
    /\ IF pending[a] # <<>> /\ status[a] = "ready"
       THEN /\ phase' = [phase EXCEPT ![r] = "draining"]
            /\ queue' = Append(queue, StartMutation(a, Head(pending[a]), r))
            /\ UNCHANGED <<exec, cancelReq, click>>
       ELSE /\ phase' = [phase EXCEPT ![r] = "done"]
            /\ exec' = Forget(exec, r)
            /\ Over(r, queue)
    /\ UNCHANGED <<runnerVars, status, run, unread, todo, posts>>

(***************************************************************************)
(* The human's requests: stopAgent, closeSession, deleteAgent, startAgent. *)
(***************************************************************************)

\* Mutant: the execution is not awaited.
CancelWithoutWaiting(k, a, op) ==
    /\ pending' = [pending EXCEPT ![a] = <<>>]
    /\ click' = [click EXCEPT ![k] = [phase |-> "writing", op |-> op, agent |-> a,
                                      run |-> exec[a], killed |-> 0]]
    /\ queue' = Append(queue, ClickMutation(k))
    /\ UNCHANGED <<runnerVars, cancelReq>>

\* cancelExecution up to its await: a running process is terminated; then the
\* execution, if the Map has one, is awaited.  Deferred wakes are dropped.
Cancel(k, a, op) ==
    /\ pending' = [pending EXCEPT ![a] = <<>>]
    /\ IF active[a] # 0
       THEN /\ click' = [click EXCEPT ![k] = [phase |-> "killing", op |-> op, agent |-> a,
                                              run |-> active[a], killed |-> active[a]]]
            /\ cancelReq' = cancelReq \cup {a}
            /\ Terminate(a, "cancelled")
            /\ UNCHANGED queue
       ELSE IF exec[a] # 0
       THEN /\ click' = [click EXCEPT ![k] = [phase |-> "awaiting", op |-> op, agent |-> a,
                                              run |-> exec[a], killed |-> 0]]
            /\ cancelReq' = cancelReq \cup {a}
            /\ UNCHANGED <<runnerVars, queue>>
       ELSE /\ click' = [click EXCEPT ![k] =
                  [phase |-> IF op = "delete" THEN "archiving" ELSE "writing",
                   op |-> op, agent |-> a, run |-> 0, killed |-> 0]]
            /\ queue' = IF op = "delete" THEN queue ELSE Append(queue, ClickMutation(k))
            /\ cancelReq' = cancelReq \ {a}
            /\ UNCHANGED runnerVars

Click(k, a, op) ==
    /\ click[k].phase = "idle"
    /\ status[a] # "gone"
    /\ IF op = "start"
       THEN /\ click' = [click EXCEPT ![k] = [phase |-> "writing", op |-> op, agent |-> a,
                                              run |-> 0, killed |-> 0]]
            /\ queue' = Append(queue, ClickMutation(k))
            /\ UNCHANGED <<runnerVars, pending, cancelReq>>
       ELSE Cancel(k, a, op)
    /\ UNCHANGED <<status, run, unread, phase, todo, exec, posts>>

\* deleteAgent moves the workspace away before it removes the agent.
Archive(k) ==
    /\ click[k].phase = "archiving"
    /\ click' = [click EXCEPT ![k].phase = "writing"]
    /\ queue' = Append(queue, ClickMutation(k))
    /\ UNCHANGED <<runnerVars, status, run, unread, phase, todo, exec, pending, cancelReq, posts>>

\* setStatus, and the mutations of closeSession and deleteAgent.
NewStatus(old, op) ==
    CASE op = "delete" -> "gone"
      [] op = "close" -> IF old = "gone" THEN old ELSE "closed"
      [] op = "stop" -> IF old \in {"gone", "closed"} THEN old ELSE "stopped"
      [] op = "start" -> IF old \in {"gone", "closed", "busy"} THEN old ELSE "ready"

CommitClick ==
    /\ HeadIs("click")
    /\ LET k == Head(queue).click
           a == click[k].agent
       IN  /\ status' = [status EXCEPT ![a] = NewStatus(@, click[k].op)]
           /\ run' = [r \in Runs |->
                 IF click[k].op = "delete" /\ run[r].agent = a /\ run[r].status # "none"
                 THEN [run[r] EXCEPT !.status = "removed"]
                 ELSE run[r]]
           /\ click' = [click EXCEPT ![k].phase = "done"]
    /\ queue' = Tail(queue)
    /\ UNCHANGED <<runnerVars, unread, phase, todo, exec, pending, cancelReq, posts>>

\* The request's own write fails.
ClickFails ==
    /\ HeadIs("click")
    /\ "click" \in Faults
    /\ click' = [click EXCEPT ![Head(queue).click].phase = "done"]
    /\ queue' = Tail(queue)
    /\ UNCHANGED <<runnerVars, status, run, unread, phase, todo, exec, pending, cancelReq, posts>>

(***************************************************************************)
(* The server restarts: memory and the store's queue are lost, and         *)
(* initialize() cancels the runs that were active.                         *)
(***************************************************************************)

Restart ==
    /\ MayRestart
    /\ active' = [a \in Agents |-> 0]
    /\ flags' = [a \in Agents |-> {}]
    /\ process' = [a \in Agents |-> "none"]
    /\ run' = [r \in Runs |-> IF run[r].status \in Active
                              THEN [run[r] EXCEPT !.status = "cancelled"] ELSE run[r]]
    /\ status' = [a \in Agents |-> IF status[a] = "busy" THEN "ready" ELSE status[a]]
    /\ queue' = <<>>
    /\ phase' = [r \in Runs |-> IF phase[r] = "none" THEN "none" ELSE "done"]
    /\ todo' = [r \in Runs |-> {}]
    /\ exec' = [a \in Agents |-> 0]
    /\ pending' = [a \in Agents |-> <<>>]
    /\ cancelReq' = {}
    /\ click' = [k \in Clicks |-> IF click[k].phase = "idle" THEN click[k]
                                  ELSE [click[k] EXCEPT !.phase = "done"]]
    /\ UNCHANGED <<unread, posts>>

-----------------------------------------------------------------------------

Store ==
    \/ StartGranted \/ StartPointless \/ StartRefused \/ StartMissing
    \/ CommitLaunch \/ CommitFinish \/ CommitFail \/ CommitClick
    \/ LaunchFails \/ FinishFails \/ FailFails \/ ClickFails

RunStep(r) == Prepared(r) \/ Settle(r) \/ Lose(r) \/ WakeNext(r) \/ Drain(r)

Process == RunnerStep /\ UNCHANGED schedVars

Next ==
    \/ Store
    \/ \E r \in Runs : RunStep(r)
    \/ \E k \in Clicks : Archive(k)
    \/ Process
    \/ \E a \in Agents, c \in Channels : Post(a, c)
    \/ \E k \in Clicks, a \in Agents, op \in Ops : Click(k, a, op)
    \/ Restart

Spec == Init /\ [][Next]_vars

\* The store's queue runs, file operations end, code after an await is resumed,
\* and armed timers fire.  Nothing is assumed of the human or of Codex.
Fairness ==
    /\ WF_vars(Store)
    /\ \A r \in Runs : WF_vars(RunStep(r))
    /\ \A k \in Clicks : WF_vars(Archive(k))
    /\ \A a \in Agents : /\ WF_vars(Overrun(a) /\ UNCHANGED schedVars)
                         /\ WF_vars(ForceKill(a) /\ UNCHANGED schedVars)

FairSpec == Spec /\ Fairness
-----------------------------------------------------------------------------

(***************************************************************************)
(* Properties.                                                             *)
(***************************************************************************)

\* An agent is never left busy: while its status says so, the execution in the
\* Map is that of a run of its own which is not over, so that something will
\* set the status again.  (A stop, a start, a deletion, a failure and a new run
\* may cross each other in the store's queue.)
BusyHasRun ==
    \A a \in Agents : status[a] = "busy" =>
        /\ exec[a] # 0
        /\ run[exec[a]].agent = a
        /\ run[exec[a]].status \in Active
        /\ phase[exec[a]] \notin {"none", "done"}

\* The wakes of a channel coalesce: an agent owes a channel at most one turn.
Coalesced ==
    \A a \in Agents : \A i, j \in DOMAIN pending[a] :
        pending[a][i].chan = pending[a][j].chan => i = j

\* A deferred regenerate turn keeps its feedback however many plain wakes merge
\* into it, until the turn is started or the wakes are dropped.
FeedbackKept ==
    [][\A a \in Agents : \A i \in DOMAIN pending[a], j \in DOMAIN pending'[a] :
          (pending[a][i].chan = pending'[a][j].chan /\ pending[a][i].conflict)
              => pending'[a][j].conflict]_vars

\* A run whose process a human's request killed is recorded as cancelled, even
\* if the process had finished or had run into a limit at the same moment.
KilledIsCancelled ==
    \A k \in Clicks : click[k].killed # 0 =>
        run[click[k].killed].status \in Active \cup {"cancelled", "removed"}

\* stop, close and delete touch the agent only after the run they met is over.
\* (Not where a newer run of the agent had taken that run's place in the Map: the
\* older one's process is killed, but its execution is not awaited.)
StopWaitsForRun ==
    \A k \in Clicks :
        (click[k].run # 0 /\ click[k].phase \in {"archiving", "writing", "done"})
            => \/ run[click[k].run].status \notin Active
               \/ \E s \in Started : s > click[k].run /\ run[s].agent = run[click[k].run].agent

\* Only the human brings an agent back from stopped or closed: no run that ends
\* later, and no restart, revives it.
StoppedStays ==
    [][\A a \in Agents : (status[a] \in {"stopped", "closed"} /\ status'[a] # status[a])
          => \E k \in Clicks : /\ click[k].agent = a
                               /\ click[k].phase = "writing"
                               /\ click'[k].phase = "done"]_vars

\* Run r's child has exited, and something it left holds its output open, so that
\* the 'close' event run() and cancel() wait for does not come.
OutputHeld(r) ==
    /\ r # 0 /\ phase[r] = "codex"
    /\ active[run[r].agent] = r
    /\ process[run[r].agent] \in HeldStates

RunEnded(r) == run[r].status \notin Active \/ (Faults # {} /\ phase[r] = "done")

\* Every run ends, even when Codex neither ends nor obeys SIGTERM, unless a process
\* that outlived Codex holds its output open for ever.  Where the write that would
\* record the end fails, its execution ends all the same.
EveryRunEnds ==
    \A r \in Runs : (run[r].status \in Active) ~> (RunEnded(r) \/ []OutputHeld(r))

\* Every request of the human is answered: no await in it hangs, but that of a run
\* whose output is held open for ever.
EveryClickAnswered ==
    \A k \in Clicks :
        (click[k].phase # "idle") ~> (click[k].phase = "done" \/ []OutputHeld(click[k].run))

\* "Both providers use argv-only process execution, bound output and time, ... and
\* escalate termination after a grace period" (docs/ARCHITECTURE.md).
\* Does not hold: see "Known divergences" in the README.
TimeBoundsRuns ==
    \A r \in Runs : (run[r].status \in Active) ~> RunEnded(r)

\* "Stop/cancel terminates a host Codex process" (README): an agent that is
\* stopped, closed or deleted has none.
\* Does not hold: see "Known divergences" in the README.
StoppedIsQuiet ==
    \A a \in Agents : status[a] \in {"stopped", "closed", "gone"} => process[a] = "none"

\* "Asynchronous Runs with one active Run per Agent" (README).
\* Does not hold: see "Known divergences" in the README.
OneActiveRun ==
    \A r, s \in Runs : (/\ run[r].status \in Active /\ run[s].status \in Active
                        /\ run[r].agent = run[s].agent) => r = s

\* "Wakes that arrive while an agent is busy are queued and drained after the
\* run" (docs/MULTI_AGENT_IAM.md): what leaves the queue is started, unless a
\* human's request or a restart drops it.
DeferredIsStarted ==
    [][\A a \in Agents : \A i \in DOMAIN pending[a] :
          (\A j \in DOMAIN pending'[a] : pending'[a][j].chan # pending[a][i].chan)
              => \/ \E j \in DOMAIN queue' :
                       /\ queue'[j].op = "start"
                       /\ queue'[j].agent = a
                       /\ queue'[j].wake.chan = pending[a][i].chan
                 \/ click' # click
                 \/ queue' = <<>> /\ exec'[a] = 0 /\ posts' = posts /\ MayRestart]_vars

\* "Run errors persist" (README): no execution ends and leaves its run on record
\* as queued or running.
\* Does not hold: see "Known divergences" in the README.
RunErrorsPersist ==
    \A r \in Runs : phase[r] = "done" => run[r].status \notin Active

\* The records that say who works on what agree after every crossing of runs,
\* requests and restarts: a busy agent has an execution whose run is not over,
\* and it owes each channel at most one deferred turn.
BookkeepingAgrees == TypeOK /\ BusyHasRun /\ Coalesced
=============================================================================
