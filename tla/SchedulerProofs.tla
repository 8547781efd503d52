-------------------------- MODULE SchedulerProofs --------------------------
(***************************************************************************)
(* Theorems about Scheduler, for any agents, channels, requests and number *)
(* of runs.                                                                *)
(*                                                                         *)
(* The store's queue is what makes them hard: between the moment a caller  *)
(* queues a mutation and the moment it commits, anything may happen.  The  *)
(* invariant therefore says, for each mutation in the queue, what its      *)
(* caller is doing meanwhile (Queued), for each run what its record may    *)
(* say in each phase of its execution (RunsFit), and how the entries of    *)
(* the two Maps, the executions and the processes, belong to runs.         *)
(***************************************************************************)
EXTENDS Scheduler, TLAPS, SequenceTheorems, FiniteSetTheorems

\* The run whose execution waits for mutation m; 0 if it is a request of the human's.
Caller(m) == IF m.op = "start" THEN m.by ELSE IF m.op = "click" THEN 0 ELSE m.run

\* The phases in which an execution waits for the store.
Waiting == {"queued", "replying", "failing", "waiting", "draining"}

\* What the caller of mutation m is doing.
Fit(m, ph, cl) ==
    /\ (m.op = "start" /\ m.by # 0) => ph[m.by] \in {"waiting", "draining"}
    /\ m.op = "launch" => ph[m.run] = "queued"
    /\ m.op = "completed" => ph[m.run] = "replying"
    /\ m.op \in {"failed", "cancelled"} => ph[m.run] = "failing"
    /\ m.op = "click" => cl[m.click].phase = "writing"

\* Two mutations of one caller.
Same(m, n) ==
    \/ Caller(m) # 0 /\ Caller(m) = Caller(n)
    \/ m.op = "click" /\ n.op = "click" /\ m.click = n.click

\* Each mutation in the queue is the only one of its caller, who waits for it.
Queued(q, ph, cl) ==
    /\ \A i \in 1..Len(q) : Fit(q[i], ph, cl)
    /\ \A i, j \in 1..Len(q) : Same(q[i], q[j]) => i = j

\* What is on record of a run in the phases of its execution.
RunsFit ==
    \A r \in Runs :
        /\ phase[r] = "none" <=> run[r].status = "none"
        /\ phase[r] = "queued" => run[r].status \in {"queued", "removed"}
        /\ phase[r] \in {"prepare", "codex", "replying"} => run[r].status \in {"running", "removed"}

\* Runs are numbered in the order they are started.
Numbered == \E n \in 0..MaxRuns : Started = 1..n

\* An entry of activeExecutions is an execution of the agent's own that is not over.
EntriesFit ==
    \A a \in Agents : exec[a] # 0 =>
        run[exec[a]].agent = a /\ phase[exec[a]] \notin {"none", "done"}

\* An execution that is not over has its agent's entry unless a newer run took it.
Replaced ==
    \A r \in Runs : phase[r] \notin {"none", "done"} =>
        \/ exec[run[r].agent] = r
        \/ \E s \in Started : s > r /\ run[s].agent = run[r].agent

\* The runner's Map has an entry for exactly the runs that wait for their process.
RunnerFits ==
    /\ \A a \in Agents : active[a] # 0 => run[active[a]].agent = a /\ phase[active[a]] = "codex"
    /\ \A r \in Runs : phase[r] = "codex" => active[run[r].agent] = r

\* Nothing is on record of an agent that was deleted.
Deleted == \A r \in Runs : status[run[r].agent] = "gone" => run[r].status \in {"none", "removed"}

\* What run r has in queue q, if anything, records that it was cancelled.
Cancels(q, r) == \A i \in 1..Len(q) : Caller(q[i]) = r => q[i].op = "cancelled"

\* Where run r may be once a request has killed its process.
Killed(r) ==
    \/ phase[r] = "codex" /\ "cancelled" \in flags[run[r].agent]
    \/ /\ phase[r] = "failing"
       /\ run[r].status \in {"running", "removed"}
       /\ Cancels(queue, r)
    \/ /\ phase[r] \in {"settling", "draining", "done"}
       /\ run[r].status \in Active \cup {"cancelled", "removed"}

\* What the requests are about.
ClicksFit ==
    \A k \in Clicks :
        /\ click[k].phase # "idle" => click[k].op \in Ops
        /\ click[k].run # 0 => run[click[k].run].status # "none"
        /\ click[k].killed # 0 => Killed(click[k].killed)

\* The inductive invariant.
IInv ==
    /\ TypeOK
    /\ Coalesced
    /\ Queued(queue, phase, click)
    /\ RunsFit
    /\ Numbered
    /\ EntriesFit
    /\ Replaced
    /\ RunnerFits
    /\ Deleted
    /\ ClicksFit

\* The mutations that record the end of a run, and that of its start: when one of
\* them is not written, the run stays on record as active with nothing behind it.
EndsAreWritten == Faults \cap {"launch", "failed", "cancelled"} = {}

\* The phases of an execution after the end of its run.
Past == {"losing", "waking", "waiting", "settling", "draining", "done"}

\* The phases of a request after cancelExecution.
Late == {"archiving", "writing", "done"}

\* What has ended is on record as ended.
EndsRecorded == \A r \in Runs : phase[r] \in Past => run[r].status \notin Active

\* Run r is over, or another run of its agent has taken its place.
Finished(r) ==
    \/ run[r].status \notin Active
    \/ \E s \in Started : s > r /\ run[s].agent = run[r].agent

\* What holds besides as long as EndsAreWritten.
Ends == EndsRecorded /\ BusyHasRun /\ StopWaitsForRun

-----------------------------------------------------------------------------
(* Mutations and the store's queue. *)

\* The fields of a mutation by its operation.
LEMMA MutationFields ==
    ASSUME NEW m \in Mutations
    PROVE  /\ m.op \in {"start", "launch", "completed", "failed", "cancelled", "click"}
           /\ m.op = "start" => /\ m.agent \in Agents
                                /\ m.wake \in Wakes
                                /\ m.by \in Runs \cup {0}
           /\ m.op \in {"launch", "completed", "failed", "cancelled"} => m.run \in Runs
           /\ m.op = "click" => m.click \in Clicks
           /\ Caller(m) \in Runs \cup {0}
  BY DEF Mutations, Terminal, Caller

\* What startRun, executeRun and the requests queue are mutations.
LEMMA MutationTypes ==
    /\ \A a \in Agents, w \in Wakes, by \in Runs \cup {0} :
          /\ StartMutation(a, w, by) \in Mutations
          /\ StartMutation(a, w, by).op = "start"
          /\ StartMutation(a, w, by).by = by
          /\ Caller(StartMutation(a, w, by)) = by
    /\ \A op \in {"launch"} \cup Terminal, r \in Runs :
          /\ RunMutation(op, r) \in Mutations
          /\ RunMutation(op, r).op = op
          /\ RunMutation(op, r).run = r
          /\ Caller(RunMutation(op, r)) = r
    /\ \A k \in Clicks :
          /\ ClickMutation(k) \in Mutations
          /\ ClickMutation(k).op = "click"
          /\ ClickMutation(k).click = k
          /\ Caller(ClickMutation(k)) = 0
  BY DEF Mutations, Terminal, Caller, StartMutation, RunMutation, ClickMutation

\* 0 stands for no run.
LEMMA RunsArePositive == 0 \notin Runs /\ Runs \subseteq Nat
  BY SchedulerAssumption DEF Runs

\* The head of the queue commits: the others are those of other callers.
LEMMA Pop ==
    ASSUME NEW q \in Seq(Mutations), NEW ph, NEW cl, Queued(q, ph, cl), q # <<>>
    PROVE  /\ Head(q) \in Mutations
           /\ Fit(Head(q), ph, cl)
           /\ Tail(q) \in Seq(Mutations)
           /\ Queued(Tail(q), ph, cl)
           /\ \A i \in 1..Len(Tail(q)) : ~Same(Tail(q)[i], Head(q))
           /\ \A r : Cancels(q, r) => Cancels(Tail(q), r)
<1>1. /\ Len(q) \in Nat \ {0}
      /\ Head(q) = q[1]
      /\ Head(q) \in Mutations
      /\ Tail(q) \in Seq(Mutations)
      /\ Len(Tail(q)) = Len(q) - 1
      /\ \A i \in 1..Len(Tail(q)) : Tail(q)[i] = q[i + 1]
  BY EmptySeq, HeadTailProperties, LenProperties
<1>2. /\ 1 \in 1..Len(q)
      /\ \A i \in 1..Len(Tail(q)) : i + 1 \in 1..Len(q) /\ i + 1 # 1
  BY <1>1
<1>3. \A i, j \in 1..Len(Tail(q)) : i + 1 = j + 1 => i = j
  BY <1>1
<1> DEFINE t == Tail(q)
<1>4. /\ \A i \in 1..Len(t) : i + 1 \in 1..Len(q) /\ t[i] = q[i + 1]
  BY <1>1, <1>2
<1> HIDE DEF t
<1>5. Fit(Head(q), ph, cl)
  BY <1>1, <1>2 DEF Queued
<1>6. Queued(t, ph, cl)
  <2>1. \A i \in 1..Len(t) : Fit(t[i], ph, cl)
    BY <1>4 DEF Queued
  <2>2. \A i, j \in 1..Len(t) : Same(t[i], t[j]) => i = j
    BY <1>3, <1>4 DEF Queued, t
  <2> QED BY <2>1, <2>2 DEF Queued
<1>7. \A i \in 1..Len(t) : ~Same(t[i], Head(q))
  BY <1>1, <1>2, <1>4 DEF Queued, t
<1>8. \A r : Cancels(q, r) => Cancels(t, r)
  BY <1>4 DEF Cancels
<1> QED BY <1>1, <1>5, <1>6, <1>7, <1>8 DEF t

\* A caller that has nothing in the queue adds a mutation.
LEMMA Push ==
    ASSUME NEW q \in Seq(Mutations), NEW ph, NEW cl, Queued(q, ph, cl),
           NEW m \in Mutations, Fit(m, ph, cl),
           \A i \in 1..Len(q) : ~Same(q[i], m)
    PROVE  /\ Append(q, m) \in Seq(Mutations)
           /\ Queued(Append(q, m), ph, cl)
           /\ \A r : Cancels(q, r) /\ (Caller(m) # r \/ m.op = "cancelled")
                        => Cancels(Append(q, m), r)
<1> DEFINE n == Len(q)
           p == Append(q, m)
<1>1. /\ n \in Nat
      /\ p \in Seq(Mutations)
      /\ Len(p) = n + 1
      /\ \A i \in 1..n : p[i] = q[i]
      /\ p[n + 1] = m
  BY AppendProperties, LenProperties
<1>2. \A i \in 1..Len(p) : i \in 1..n \/ i = n + 1
  BY <1>1
<1> HIDE DEF n, p
<1>3. \A i, j : Same(q[i], m) <=> Same(m, q[i])
  BY DEF Same
<1>4. Queued(p, ph, cl)
  <2>1. \A i \in 1..Len(p) : Fit(p[i], ph, cl)
    BY <1>1, <1>2 DEF Queued, n
  <2>2. ASSUME NEW i \in 1..Len(p), NEW j \in 1..Len(p), Same(p[i], p[j])
        PROVE  i = j
    BY <1>1, <1>2, <1>3, <2>2 DEF Queued, n
  <2> QED BY <2>1, <2>2 DEF Queued
<1>5. ASSUME NEW r, Cancels(q, r), Caller(m) # r \/ m.op = "cancelled"
      PROVE  Cancels(p, r)
  BY <1>1, <1>2, <1>5 DEF Cancels, n
<1> QED BY <1>1, <1>4, <1>5 DEF p

\* Mutations are queued for as long as their callers wait for them.
LEMMA Keep ==
    ASSUME NEW q \in Seq(Mutations), NEW ph, NEW cl, Queued(q, ph, cl), NEW ph2, NEW cl2,
           \A i \in 1..Len(q) : Caller(q[i]) # 0 => ph2[Caller(q[i])] = ph[Caller(q[i])],
           \A i \in 1..Len(q) : q[i].op = "click" => cl2[q[i].click].phase = cl[q[i].click].phase
    PROVE  Queued(q, ph2, cl2)
<1>1. ASSUME NEW i \in 1..Len(q)
      PROVE  Fit(q[i], ph2, cl2)
  <2> DEFINE m == q[i]
  <2>1. /\ Fit(m, ph, cl)
        /\ Caller(m) # 0 => ph2[Caller(m)] = ph[Caller(m)]
        /\ m.op = "click" => cl2[m.click].phase = cl[m.click].phase
    BY DEF Queued
  <2>2. m \in Mutations
    BY ElementOfSeq
  <2> HIDE DEF m
  <2>3. Fit(m, ph2, cl2)
    BY <2>1, <2>2, MutationFields, RunsArePositive DEF Fit, Caller
  <2> QED BY <2>3 DEF m
<1> QED BY <1>1 DEF Queued

\* Who does not wait for the store has nothing in the queue.
LEMMA Absent ==
    ASSUME NEW q \in Seq(Mutations), NEW ph, NEW cl, Queued(q, ph, cl)
    PROVE  /\ \A i \in 1..Len(q), r \in Runs : ph[r] \notin Waiting => Caller(q[i]) # r
           /\ \A i \in 1..Len(q), k \in Clicks :
                 q[i].op = "click" /\ cl[k].phase # "writing" => q[i].click # k
<1>1. ASSUME NEW i \in 1..Len(q)
      PROVE  /\ \A r \in Runs : ph[r] \notin Waiting => Caller(q[i]) # r
             /\ \A k \in Clicks : q[i].op = "click" /\ cl[k].phase # "writing" => q[i].click # k
  <2> DEFINE m == q[i]
  <2>1. Fit(m, ph, cl) /\ m \in Mutations
    BY ElementOfSeq DEF Queued
  <2> HIDE DEF m
  <2>2. /\ \A r \in Runs : ph[r] \notin Waiting => Caller(m) # r
        /\ \A k \in Clicks : m.op = "click" /\ cl[k].phase # "writing" => m.click # k
    BY <2>1, MutationFields, RunsArePositive DEF Fit, Caller, Waiting
  <2> QED BY <2>2 DEF m
<1> QED BY <1>1

\* A run that has nothing in the queue goes on to another phase.
LEMMA Move ==
    ASSUME NEW q \in Seq(Mutations), NEW ph \in [Runs -> Phases], NEW cl, Queued(q, ph, cl),
           NEW r \in Runs, NEW p, \A i \in 1..Len(q) : Caller(q[i]) # r
    PROVE  Queued(q, [ph EXCEPT ![r] = p], cl)
<1>1. \A i \in 1..Len(q) : Caller(q[i]) \in Runs \cup {0}
  BY ElementOfSeq, MutationFields
<1>2. \A i \in 1..Len(q) : Caller(q[i]) # 0 =>
         [ph EXCEPT ![r] = p][Caller(q[i])] = ph[Caller(q[i])]
  BY <1>1
<1> QED BY <1>2, Keep

-----------------------------------------------------------------------------
(* The requests whose await is over. *)

\* The types of click.
ClickPhases == {"idle", "killing", "awaiting", "archiving", "writing", "done"}

Requests == [phase : ClickPhases, op : Ops \cup {"none"}, agent : Agents,
             run : Runs \cup {0}, killed : Runs \cup {0}]

ClickTypes == [Clicks -> Requests]

\* A request that goes on to another phase is the same otherwise.
LEMMA GoesOn ==
    ASSUME NEW c \in Requests, NEW p \in ClickPhases
    PROVE  /\ [c EXCEPT !.phase = p] \in Requests
           /\ [c EXCEPT !.phase = p].phase = p
           /\ [c EXCEPT !.phase = p].op = c.op
           /\ [c EXCEPT !.phase = p].agent = c.agent
           /\ [c EXCEPT !.phase = p].run = c.run
           /\ [c EXCEPT !.phase = p].killed = c.killed
  BY DEF Requests

\* What stays of the requests while their awaits end, K of them now.
Answered(K) ==
    \A k \in Clicks :
        /\ k \notin K => click'[k] = click[k]
        /\ click'[k].op = click[k].op
        /\ click'[k].agent = click[k].agent
        /\ click'[k].run = click[k].run
        /\ click'[k].killed = click[k].killed
        /\ (click[k].phase # "idle" => click'[k].phase # "idle")
        /\ (click'[k].phase # "idle" => click[k].phase # "idle")

\* Each element of a finite set is queued once, in some order.
LEMMA Ordered ==
    ASSUME NEW S \in SUBSET Clicks, NEW order \in Orders(S)
    PROVE  /\ Cardinality(S) \in Nat
           /\ order \in [1..Cardinality(S) -> S]
           /\ DOMAIN order = 1..Cardinality(S)
           /\ \A i, j \in 1..Cardinality(S) : order[i] = order[j] => i = j
<1>1. Cardinality(S) \in Nat
  BY SchedulerAssumption, FS_Subset, FS_CardinalityType
<1> DEFINE n == Cardinality(S)
<1> HIDE DEF n
<1>2. order \in [1..n -> S] /\ IsInjective(order)
  BY DEF Orders, n
<1> QED BY <1>1, <1>2 DEF IsInjective, n

\* The requests K return from cancelExecution, and queue their mutations.
LEMMA ResumeFacts ==
    ASSUME NEW K \in SUBSET Clicks, NEW q \in Seq(Mutations), NEW ph,
           cancelReq \subseteq Agents, click \in ClickTypes, Queued(q, ph, click),
           \A k \in K : click[k].phase \in {"killing", "awaiting"},
           Resume(K, q)
    PROVE  /\ cancelReq' \subseteq Agents
           /\ click' \in ClickTypes
           /\ queue' \in Seq(Mutations)
           /\ Queued(queue', ph, click')
           /\ \A r \in Runs : Cancels(q, r) => Cancels(queue', r)
           /\ Answered(K)
<1> DEFINE S == {k \in K : click[k].op # "delete"}
           next(k) == IF click[k].op = "delete" THEN "archiving" ELSE "writing"
<1>1. /\ cancelReq' = cancelReq \ {click[k].agent : k \in K}
      /\ click' = [k \in Clicks |-> IF k \in K THEN [click[k] EXCEPT !.phase = next(k)]
                                    ELSE click[k]]
  BY DEF Resume
<1>2. PICK order \in Orders(S) : queue' = q \o [i \in DOMAIN order |-> ClickMutation(order[i])]
  BY DEF Resume
<1> DEFINE n == Cardinality(S)
           t == [i \in 1..n |-> ClickMutation(order[i])]
<1>3. /\ n \in Nat
      /\ order \in [1..n -> S]
      /\ queue' = q \o t
      /\ \A i, j \in 1..n : order[i] = order[j] => i = j
  BY <1>2, Ordered
<1> HIDE DEF n
<1>4. \A k \in K : /\ click[k].phase \in {"killing", "awaiting"}
                   /\ k \in Clicks
  OBVIOUS
<1>5. click' \in ClickTypes /\ Answered(K)
  <2>1. ASSUME NEW k \in Clicks, k \in K
        PROVE  /\ click'[k] \in Requests
               /\ click'[k].op = click[k].op /\ click'[k].agent = click[k].agent
               /\ click'[k].run = click[k].run /\ click'[k].killed = click[k].killed
               /\ click'[k].phase # "idle" /\ click[k].phase # "idle"
    <3>1. /\ click'[k] = [click[k] EXCEPT !.phase = next(k)]
          /\ click[k] \in Requests
          /\ next(k) \in ClickPhases \ {"idle"}
      BY <1>1, <2>1 DEF ClickTypes, ClickPhases
    <3> HIDE DEF next
    <3> QED BY <1>4, <2>1, <3>1, GoesOn
  <2>2. \A k \in Clicks : k \notin K => click'[k] = click[k] /\ click[k] \in Requests
    BY <1>1 DEF ClickTypes
  <2>3. DOMAIN click' = Clicks /\ click' = [k \in Clicks |-> click'[k]]
    BY <1>1
  <2>4. click' \in ClickTypes
    BY <2>1, <2>2, <2>3 DEF ClickTypes
  <2>5. Answered(K)
    BY <2>1, <2>2 DEF Answered
  <2> QED BY <2>4, <2>5
<1>6. \A k \in S : click'[k].phase = "writing" /\ click[k].phase # "writing" /\ k \in Clicks
  BY <1>1, <1>4 DEF ClickTypes
<1>7. /\ t \in Seq(Mutations)
      /\ Len(t) = n
      /\ \A i \in 1..n : t[i] = ClickMutation(order[i]) /\ order[i] \in S
  <2>1. \A i \in 1..n : order[i] \in S /\ ClickMutation(order[i]) \in Mutations
    BY <1>3, MutationTypes
  <2>2. t \in [1..n -> Mutations]
    BY <2>1
  <2>3. t \in Seq(Mutations) /\ Len(t) = n
    BY <1>3, <2>2, SeqDef, LenProperties
  <2> QED BY <2>1, <2>3
<1> HIDE DEF t, S
<1> DEFINE p == q \o t
           m == Len(q)
<1>8. /\ m \in Nat
      /\ p \in Seq(Mutations)
      /\ Len(p) = m + n
      /\ \A i \in 1..(m + n) : p[i] = IF i <= m THEN q[i] ELSE t[i - m]
  <2>1. /\ p \in Seq(Mutations)
        /\ Len(p) = Len(q) + Len(t)
        /\ \A i \in 1..(Len(q) + Len(t)) : p[i] = IF i <= Len(q) THEN q[i] ELSE t[i - Len(q)]
    BY <1>7, ConcatProperties
  <2> QED BY <1>7, <2>1, LenProperties
<1> HIDE DEF p, m
<1>9. ASSUME NEW i \in 1..(m + n)
      PROVE  \/ i \in 1..m /\ p[i] = q[i]
             \/ i - m \in 1..n /\ p[i] = t[i - m]
  <2>1. CASE i <= m
    BY <1>3, <1>8, <2>1
  <2>2. CASE ~(i <= m)
    BY <1>3, <1>8, <2>2
  <2> QED BY <2>1, <2>2
<1>10. \A i \in 1..n : /\ t[i].op = "click" /\ t[i].click = order[i]
                       /\ Caller(t[i]) = 0
                       /\ Fit(t[i], ph, click')
  BY <1>6, <1>7, MutationTypes DEF Fit
<1>11. ASSUME NEW i \in 1..m
       PROVE  /\ Fit(q[i], ph, click')
              /\ \A j \in 1..n : ~Same(q[i], t[j]) /\ ~Same(t[j], q[i])
  <2>1. q[i].op = "click" => /\ q[i].click \in Clicks
                             /\ click[q[i].click].phase = "writing"
    BY ElementOfSeq, MutationFields DEF Queued, Fit, m
  <2>2. q[i].op = "click" => q[i].click \notin K
    BY <1>4, <2>1
  <2>3. Fit(q[i], ph, click')
    BY <1>5, <2>1, <2>2 DEF Queued, Fit, m, Answered
  <2>4. \A j \in 1..n : t[j].click \in K
    BY <1>7, <1>10 DEF S
  <2> QED BY <1>10, <2>2, <2>3, <2>4 DEF Same
<1>12. Queued(p, ph, click')
  <2>1. \A i \in 1..Len(p) : Fit(p[i], ph, click')
    BY <1>8, <1>9, <1>10, <1>11
  <2>2. ASSUME NEW i \in 1..(m + n), NEW j \in 1..(m + n), Same(p[i], p[j])
        PROVE  i = j
    <3>1. CASE i \in 1..m /\ p[i] = q[i] /\ j \in 1..m /\ p[j] = q[j]
      BY <2>2, <3>1 DEF Queued, m
    <3>2. CASE i - m \in 1..n /\ p[i] = t[i - m] /\ j - m \in 1..n /\ p[j] = t[j - m]
      <4>1. t[i - m].click = t[j - m].click
        BY <1>10, <2>2, <3>2 DEF Same
      <4>2. order[i - m] = order[j - m]
        BY <1>10, <3>2, <4>1
      <4>3. i - m = j - m
        BY <1>3, <3>2, <4>2
      <4> QED BY <1>3, <1>8, <4>3
    <3>3. CASE i \in 1..m /\ p[i] = q[i] /\ j - m \in 1..n /\ p[j] = t[j - m]
      BY <1>11, <2>2, <3>3
    <3>4. CASE i - m \in 1..n /\ p[i] = t[i - m] /\ j \in 1..m /\ p[j] = q[j]
      BY <1>11, <2>2, <3>4
    <3> QED BY <1>9, <3>1, <3>2, <3>3, <3>4
  <2> QED BY <1>8, <2>1, <2>2 DEF Queued
<1>13. ASSUME NEW r \in Runs, Cancels(q, r)
       PROVE  Cancels(p, r)
  <2>1. ASSUME NEW i \in 1..(m + n), Caller(p[i]) = r
        PROVE  p[i].op = "cancelled"
    BY <1>9, <1>10, <1>13, <2>1, RunsArePositive DEF Cancels, m
  <2> QED BY <1>8, <2>1 DEF Cancels
<1>14. cancelReq' \subseteq Agents
  BY <1>1
<1> QED BY <1>3, <1>5, <1>8, <1>12, <1>13, <1>14 DEF p

\* The requests K are answered with the error of the run they waited for.
LEMMA RejectFacts ==
    ASSUME NEW K \in SUBSET Clicks, NEW q \in Seq(Mutations), NEW ph,
           cancelReq \subseteq Agents, click \in ClickTypes, Queued(q, ph, click),
           \A k \in K : click[k].phase \in {"killing", "awaiting"},
           Reject(K, q)
    PROVE  /\ cancelReq' \subseteq Agents
           /\ click' \in ClickTypes
           /\ queue' \in Seq(Mutations)
           /\ Queued(queue', ph, click')
           /\ \A r \in Runs : Cancels(q, r) => Cancels(queue', r)
           /\ Answered(K)
<1>1. /\ cancelReq' = cancelReq \ {click[k].agent : k \in K}
      /\ click' = [k \in Clicks |-> IF k \in K THEN [click[k] EXCEPT !.phase = "done"] ELSE click[k]]
      /\ queue' = q
  BY DEF Reject
<1>2. ASSUME NEW k \in Clicks, k \in K
      PROVE  /\ click'[k] \in Requests
             /\ click'[k].op = click[k].op /\ click'[k].agent = click[k].agent
             /\ click'[k].run = click[k].run /\ click'[k].killed = click[k].killed
             /\ click'[k].phase = "done"
             /\ click[k].phase \in {"killing", "awaiting"}
  <2>1. /\ click'[k] = [click[k] EXCEPT !.phase = "done"]
        /\ click[k] \in Requests
        /\ "done" \in ClickPhases
    BY <1>1, <1>2 DEF ClickTypes, ClickPhases
  <2> QED BY <1>2, <2>1, GoesOn
<1>a. \A k \in Clicks : k \notin K => click'[k] = click[k] /\ click[k] \in Requests
  BY <1>1 DEF ClickTypes
<1>b. DOMAIN click' = Clicks /\ click' = [k \in Clicks |-> click'[k]]
  BY <1>1
<1>3. click' \in ClickTypes
  BY <1>2, <1>a, <1>b DEF ClickTypes
<1>4. Answered(K)
  BY <1>2, <1>a DEF Answered
<1>5. \A i \in 1..Len(q) : q[i].op = "click" => click'[q[i].click].phase = click[q[i].click].phase
  <2>1. \A i \in 1..Len(q) : q[i].op = "click" => /\ q[i].click \in Clicks
                                                  /\ click[q[i].click].phase = "writing"
    BY ElementOfSeq, MutationFields DEF Queued, Fit
  <2> QED BY <1>2, <1>a, <2>1
<1>6. Queued(q, ph, click')
  BY <1>5, Keep
<1>7. cancelReq' \subseteq Agents
  BY <1>1
<1> QED BY <1>1, <1>3, <1>4, <1>6, <1>7

\* An execution is over, and its requests go on.
LEMMA OverFacts ==
    ASSUME NEW r, NEW q \in Seq(Mutations), NEW ph,
           cancelReq \subseteq Agents, click \in ClickTypes, Queued(q, ph, click),
           Over(r, q)
    PROVE  /\ cancelReq' \subseteq Agents
           /\ click' \in ClickTypes
           /\ queue' \in Seq(Mutations)
           /\ Queued(queue', ph, click')
           /\ \A s \in Runs : Cancels(q, s) => Cancels(queue', s)
           /\ Answered(Awaiting(r))
<1>1. /\ Awaiting(r) \in SUBSET Clicks
      /\ \A k \in Awaiting(r) : click[k].phase \in {"killing", "awaiting"}
  BY DEF Awaiting
<1> QED BY <1>1, ResumeFacts, RejectFacts DEF Over

-----------------------------------------------------------------------------
(* What most steps have in common: no run is new, and an entry goes away     *)
(* with the execution it stands for.                                         *)

\* The type of a run's record.
RunRecords == [agent : Agents, chan : Channels, trace : Traces,
               status : Active \cup Terminal \cup {"none", "removed"}]

\* Run r goes on with its execution, or stays where it is.
Proceeds(r) ==
    /\ run'[r].agent = run[r].agent
    /\ run'[r].status = "none" <=> run[r].status = "none"
    /\ run[r].status = "removed" => run'[r].status = "removed"
    /\ phase'[r] = "none" <=> phase[r] = "none"
    /\ phase[r] = "done" => phase'[r] = "done"
    /\ phase'[r] = "queued" => run'[r].status \in {"queued", "removed"}
    /\ phase'[r] \in {"prepare", "codex", "replying"} => run'[r].status \in {"running", "removed"}

\* An entry of activeExecutions goes away when its execution ends.
EntriesFollow ==
    \A a \in Agents : exec'[a] = IF exec[a] # 0 /\ phase'[exec[a]] = "done" THEN 0 ELSE exec[a]

\* Steps in which every run proceeds keep what is said of runs and executions.
LEMMA ProceedFits ==
    ASSUME TypeOK, RunsFit, Numbered, EntriesFit, Replaced,
           \A r \in Runs : Proceeds(r), EntriesFollow
    PROVE  RunsFit' /\ Numbered' /\ EntriesFit' /\ Replaced' /\ Started' = Started
<1>1. Started' = Started
  BY DEF Started, Proceeds
<1>2. RunsFit'
  BY DEF RunsFit, Proceeds
<1>3. Numbered'
  BY <1>1 DEF Numbered
<1>4. EntriesFit'
  <2>1. ASSUME NEW a \in Agents, exec'[a] # 0
        PROVE  run'[exec'[a]].agent = a /\ phase'[exec'[a]] \notin {"none", "done"}
    <3>1. /\ exec'[a] = exec[a] /\ exec[a] # 0 /\ phase'[exec[a]] # "done"
          /\ exec[a] \in Runs
      BY <2>1 DEF EntriesFollow, TypeOK
    <3> QED BY <3>1 DEF EntriesFit, Proceeds
  <2> QED BY <2>1 DEF EntriesFit
<1>5. Replaced'
  <2>1. ASSUME NEW r \in Runs, phase'[r] \notin {"none", "done"}
        PROVE  \/ exec'[run'[r].agent] = r
               \/ \E s \in Started' : s > r /\ run'[s].agent = run'[r].agent
    <3>1. phase[r] \notin {"none", "done"} /\ run'[r].agent = run[r].agent
      BY <2>1 DEF Proceeds
    <3>2. CASE exec[run[r].agent] = r
      <4>1. run[r].agent \in Agents
        BY DEF TypeOK
      <4>2. exec'[run[r].agent] = r
        BY <2>1, <3>2, <4>1, RunsArePositive DEF EntriesFollow
      <4> QED BY <3>1, <4>2
    <3>3. CASE \E s \in Started : s > r /\ run[s].agent = run[r].agent
      <4>1. PICK s \in Started : s > r /\ run[s].agent = run[r].agent
        BY <3>3
      <4>2. s \in Runs /\ run'[s].agent = run[s].agent
        BY <4>1 DEF Started, Proceeds
      <4> QED BY <1>1, <3>1, <4>1, <4>2
    <3> QED BY <3>1, <3>2, <3>3 DEF Replaced
  <2> QED BY <2>1 DEF Replaced
<1> QED BY <1>1, <1>2, <1>3, <1>4, <1>5

\* No process is spawned or reaped.
LEMMA RunnerStays ==
    ASSUME TypeOK, RunnerFits, active' = active,
           \A r \in Runs : run'[r].agent = run[r].agent,
           \A r \in Runs : phase'[r] = "codex" <=> phase[r] = "codex"
    PROVE  RunnerFits'
<1>1. \A a \in Agents : active[a] # 0 => active[a] \in Runs
  BY DEF TypeOK, RunnerTypeOK
<1>2. ASSUME NEW a \in Agents, active'[a] # 0
      PROVE  run'[active'[a]].agent = a /\ phase'[active'[a]] = "codex"
  BY <1>1, <1>2 DEF RunnerFits
<1>3. ASSUME NEW r \in Runs, phase'[r] = "codex"
      PROVE  active'[run'[r].agent] = r
  BY <1>3 DEF RunnerFits
<1> QED BY <1>2, <1>3 DEF RunnerFits

\* No agent is deleted.
LEMMA DeletedStays ==
    ASSUME TypeOK, Deleted, \A r \in Runs : Proceeds(r),
           \A a \in Agents : status'[a] = "gone" => status[a] = "gone"
    PROVE  Deleted'
<1>1. ASSUME NEW r \in Runs, status'[run'[r].agent] = "gone"
      PROVE  run'[r].status \in {"none", "removed"}
  <2>1. run[r].agent \in Agents
    BY DEF TypeOK
  <2> QED BY <1>1, <2>1 DEF Deleted, Proceeds
<1> QED BY <1>1 DEF Deleted

\* A run that a request killed stays where it is.
LEMMA KilledStays ==
    ASSUME NEW r \in Runs, Killed(r),
           run'[r].agent = run[r].agent, phase'[r] = phase[r],
           run'[r].status \in {run[r].status, "removed"},
           "cancelled" \in flags[run[r].agent] => "cancelled" \in flags'[run[r].agent],
           Cancels(queue, r) => Cancels(queue', r)
    PROVE  Killed(r)'
<1>1. CASE phase[r] = "codex" /\ "cancelled" \in flags[run[r].agent]
  BY <1>1 DEF Killed
<1>2. CASE /\ phase[r] = "failing"
           /\ run[r].status \in {"running", "removed"}
           /\ Cancels(queue, r)
  <2>1. Cancels(queue', r) /\ phase'[r] = "failing" /\ run'[r].status \in {"running", "removed"}
    BY <1>2
  <2> QED BY <2>1 DEF Killed, Cancels
<1>3. CASE /\ phase[r] \in {"settling", "draining", "done"}
           /\ run[r].status \in Active \cup {"cancelled", "removed"}
  BY <1>3 DEF Killed
<1> QED BY <1>1, <1>2, <1>3 DEF Killed

\* Nothing new is asked for.
LEMMA ClicksStay ==
    ASSUME TypeOK, ClicksFit, NEW K \in SUBSET Clicks, Answered(K),
           \A r \in Runs : run'[r].status = "none" <=> run[r].status = "none",
           \A r \in Runs : Killed(r) => Killed(r)'
    PROVE  ClicksFit'
<1>1. ASSUME NEW k \in Clicks
      PROVE  /\ click'[k].phase # "idle" => click'[k].op \in Ops
             /\ click'[k].run # 0 => run'[click'[k].run].status # "none"
  <2>1. click[k].run \in Runs \cup {0}
    BY DEF TypeOK
  <2> QED BY <2>1 DEF ClicksFit, Answered
<1>2. ASSUME NEW k \in Clicks, NEW s \in Runs, click'[k].killed = s
      PROVE  Killed(s)'
  <2>1. click[k].killed = s /\ s # 0
    BY <1>2, RunsArePositive DEF Answered
  <2> QED BY <2>1 DEF ClicksFit
<1>3. \A k \in Clicks : click'[k].killed \in Runs \cup {0}
  BY DEF TypeOK, Answered
<1> QED BY <1>1, <1>2, <1>3 DEF ClicksFit, Killed, Cancels

\* No execution ends.
LEMMA EntriesStay ==
    ASSUME TypeOK, EntriesFit, exec' = exec,
           \A r \in Runs : phase'[r] = "done" => phase[r] = "done"
    PROVE  EntriesFollow
<1>1. \A a \in Agents : exec[a] # 0 => exec[a] \in Runs /\ phase[exec[a]] # "done"
  BY DEF TypeOK, EntriesFit
<1> QED BY <1>1 DEF EntriesFollow

\* The execution of run r ends.
LEMMA EntryForgotten ==
    ASSUME TypeOK, EntriesFit, NEW r \in Runs, exec' = Forget(exec, r), phase'[r] = "done",
           \A s \in Runs : s # r /\ phase'[s] = "done" => phase[s] = "done"
    PROVE  EntriesFollow
<1>1. \A a \in Agents : exec[a] # 0 => exec[a] \in Runs /\ phase[exec[a]] # "done"
  BY DEF TypeOK, EntriesFit
<1>2. \A a \in Agents : exec'[a] = IF exec[a] = r THEN 0 ELSE exec[a]
  BY DEF Forget
<1> QED BY <1>1, <1>2, RunsArePositive DEF EntriesFollow

\* A step in which no run is new, no process is spawned or reaped, no agent is
\* deleted and nothing is asked for.
LEMMA Step ==
    ASSUME IInv, TypeOK', Coalesced', Queued(queue', phase', click'),
           \A r \in Runs : Proceeds(r), EntriesFollow,
           active' = active, \A r \in Runs : phase'[r] = "codex" <=> phase[r] = "codex",
           \A a \in Agents : status'[a] = "gone" => status[a] = "gone",
           NEW K \in SUBSET Clicks, Answered(K),
           \A r \in Runs : Killed(r) => Killed(r)'
    PROVE  IInv'
<1>a. /\ TypeOK /\ RunsFit /\ Numbered /\ EntriesFit /\ Replaced
      /\ RunnerFits /\ Deleted /\ ClicksFit
  BY DEF IInv
<1>1. /\ \A r \in Runs : run'[r].agent = run[r].agent
      /\ \A r \in Runs : run'[r].status = "none" <=> run[r].status = "none"
  BY DEF Proceeds
<1>2. RunsFit' /\ Numbered' /\ EntriesFit' /\ Replaced'
  BY <1>a, ProceedFits
<1>3. RunnerFits'
  BY <1>a, <1>1, RunnerStays
<1>4. Deleted'
  BY <1>a, DeletedStays
<1>5. ClicksFit'
  BY <1>a, <1>1, ClicksStay
<1> QED BY <1>2, <1>3, <1>4, <1>5 DEF IInv

\* What may be on record of a run.
RunStatuses == Active \cup Terminal \cup {"none", "removed"}

\* One run's status changes on record.
LEMMA Recorded ==
    ASSUME NEW rn \in [Runs -> RunRecords], NEW r \in Runs, NEW x \in RunStatuses
    PROVE  /\ [rn EXCEPT ![r].status = x] \in [Runs -> RunRecords]
           /\ \A s \in Runs : /\ [rn EXCEPT ![r].status = x][s].agent = rn[s].agent
                              /\ [rn EXCEPT ![r].status = x][s].chan = rn[s].chan
                              /\ [rn EXCEPT ![r].status = x][s].trace = rn[s].trace
                              /\ [rn EXCEPT ![r].status = x][s].status =
                                    IF s = r THEN x ELSE rn[s].status
<1> DEFINE new == [rn EXCEPT ![r].status = x]
<1>1. /\ rn[r] \in RunRecords
      /\ new[r] = [rn[r] EXCEPT !.status = x]
      /\ \A s \in Runs : s # r => new[s] = rn[s]
      /\ DOMAIN new = Runs /\ new = [s \in Runs |-> new[s]]
  OBVIOUS
<1>2. /\ new[r] \in RunRecords
      /\ new[r].agent = rn[r].agent /\ new[r].chan = rn[r].chan /\ new[r].trace = rn[r].trace
      /\ new[r].status = x
  BY <1>1 DEF RunRecords, RunStatuses
<1> HIDE DEF new
<1>3. new \in [Runs -> RunRecords]
  BY <1>1, <1>2
<1> QED BY <1>1, <1>2, <1>3 DEF new

\* The parts of the type invariant, for the steps that change a few of them.
LEMMA Types ==
    TypeOK <=> /\ RunnerTypeOK(Runs)
               /\ status \in [Agents -> Statuses]
               /\ run \in [Runs -> RunRecords]
               /\ unread \in [Agents -> SUBSET Channels]
               /\ queue \in Seq(Mutations)
               /\ phase \in [Runs -> Phases]
               /\ todo \in [Runs -> SUBSET Agents]
               /\ exec \in [Agents -> Runs \cup {0}]
               /\ pending \in [Agents -> Seq(Wakes)]
               /\ cancelReq \subseteq Agents
               /\ click \in ClickTypes
               /\ posts \in 0..MaxPosts
  BY DEF TypeOK, RunRecords, ClickTypes, Requests, ClickPhases

\* The same parts after a step.
LEMMA TypesNext ==
    TypeOK' <=> /\ RunnerTypeOK(Runs)'
                /\ status' \in [Agents -> Statuses]
                /\ run' \in [Runs -> RunRecords]
                /\ unread' \in [Agents -> SUBSET Channels]
                /\ queue' \in Seq(Mutations)
                /\ phase' \in [Runs -> Phases]
                /\ todo' \in [Runs -> SUBSET Agents]
                /\ exec' \in [Agents -> Runs \cup {0}]
                /\ pending' \in [Agents -> Seq(Wakes)]
                /\ cancelReq' \subseteq Agents
                /\ click' \in ClickTypes
                /\ posts' \in 0..MaxPosts
  BY DEF TypeOK, RunRecords, ClickTypes, Requests, ClickPhases

\* The head of the queue commits, and the execution of its caller, r, goes on
\* to phase p.
LEMMA Commits ==
    ASSUME TypeOK, Queued(queue, phase, click), queue # <<>>,
           NEW r \in Runs, r = Caller(Head(queue)), NEW p
    PROVE  /\ Tail(queue) \in Seq(Mutations)
           /\ \A i \in 1..Len(Tail(queue)) : Caller(Tail(queue)[i]) # r
           /\ Queued(Tail(queue), [phase EXCEPT ![r] = p], click)
           /\ \A s : Cancels(queue, s) => Cancels(Tail(queue), s)
<1> DEFINE t == Tail(queue)
<1>1. queue \in Seq(Mutations) /\ phase \in [Runs -> Phases]
  BY DEF TypeOK
<1>2. /\ t \in Seq(Mutations)
      /\ Queued(t, phase, click)
      /\ \A i \in 1..Len(t) : ~Same(t[i], Head(queue))
      /\ \A s : Cancels(queue, s) => Cancels(t, s)
  BY <1>1, Pop
<1> HIDE DEF t
<1>3. \A i \in 1..Len(t) : Caller(t[i]) # r
  BY <1>2, RunsArePositive DEF Same
<1>4. Queued(t, [phase EXCEPT ![r] = p], click)
  BY <1>1, <1>2, <1>3, Move
<1> QED BY <1>2, <1>3, <1>4 DEF t

\* Run r, which has nothing in queue q, goes on to phase p and adds a mutation.
LEMMA Asks ==
    ASSUME NEW q \in Seq(Mutations), NEW ph \in [Runs -> Phases], NEW cl, Queued(q, ph, cl),
           NEW r \in Runs, NEW p, \A i \in 1..Len(q) : Caller(q[i]) # r,
           NEW m \in Mutations, Caller(m) = r, Fit(m, [ph EXCEPT ![r] = p], cl)
    PROVE  /\ Append(q, m) \in Seq(Mutations)
           /\ Queued(Append(q, m), [ph EXCEPT ![r] = p], cl)
           /\ \A s : Cancels(q, s) /\ (s # r \/ m.op = "cancelled") => Cancels(Append(q, m), s)
<1>1. Queued(q, [ph EXCEPT ![r] = p], cl)
  BY Move
<1>2. m.op # "click"
  BY RunsArePositive DEF Caller
<1>3. \A i \in 1..Len(q) : ~Same(q[i], m)
  BY <1>2 DEF Same
<1> QED BY <1>1, <1>3, Push

\* What waits for the end of run r is a mutation of its own.
LEMMA EndMutation ==
    ASSUME NEW r \in Runs, NEW ph \in [Runs -> Phases], NEW cl,
           NEW op \in {"launch", "completed", "failed", "cancelled"}, NEW p,
           op = "launch" => p = "queued",
           op = "completed" => p = "replying",
           op \in {"failed", "cancelled"} => p = "failing"
    PROVE  /\ RunMutation(op, r) \in Mutations
           /\ RunMutation(op, r).op = op
           /\ Caller(RunMutation(op, r)) = r
           /\ Fit(RunMutation(op, r), [ph EXCEPT ![r] = p], cl)
<1>1. op \in {"launch"} \cup Terminal
  BY DEF Terminal
<1>2. /\ RunMutation(op, r) \in Mutations
      /\ RunMutation(op, r).op = op
      /\ RunMutation(op, r).run = r
      /\ Caller(RunMutation(op, r)) = r
  BY <1>1, MutationTypes
<1>3. [ph EXCEPT ![r] = p][r] = p
  OBVIOUS
<1> QED BY <1>2, <1>3 DEF Fit

\* Run r goes on to phase p and asks for its start or its end to be recorded.
LEMMA AsksEnd ==
    ASSUME NEW q \in Seq(Mutations), NEW ph \in [Runs -> Phases], NEW cl, Queued(q, ph, cl),
           NEW r \in Runs, \A i \in 1..Len(q) : Caller(q[i]) # r,
           NEW op \in {"launch", "completed", "failed", "cancelled"}, NEW p,
           op = "launch" => p = "queued",
           op = "completed" => p = "replying",
           op \in {"failed", "cancelled"} => p = "failing"
    PROVE  /\ Append(q, RunMutation(op, r)) \in Seq(Mutations)
           /\ Queued(Append(q, RunMutation(op, r)), [ph EXCEPT ![r] = p], cl)
           /\ \A s : Cancels(q, s) /\ (s # r \/ op = "cancelled")
                        => Cancels(Append(q, RunMutation(op, r)), s)
<1> DEFINE m == RunMutation(op, r)
<1>1. m \in Mutations /\ m.op = op /\ Caller(m) = r /\ Fit(m, [ph EXCEPT ![r] = p], cl)
  BY EndMutation
<1> HIDE DEF m
<1>2. /\ Append(q, m) \in Seq(Mutations)
      /\ Queued(Append(q, m), [ph EXCEPT ![r] = p], cl)
      /\ \A s : Cancels(q, s) /\ (s # r \/ m.op = "cancelled") => Cancels(Append(q, m), s)
  BY <1>1, Asks
<1> QED BY <1>1, <1>2 DEF m

\* The execution of run r goes on to phase p and puts x on record.
LEMMA RunSteps ==
    ASSUME IInv, NEW r \in Runs, phase[r] \notin {"none", "done", "codex"},
           NEW p \in Phases \ {"none", "queued", "codex"}, phase' = [phase EXCEPT ![r] = p],
           NEW x \in RunStatuses \ {"none"},
           p \in {"prepare", "replying"} => x \in {"running", "removed"},
           run[r].status = "removed" => x = "removed",
           Killed(r) => /\ p \in {"settling", "draining", "done"}
                        /\ x \in Active \cup {"cancelled", "removed"},
           run' \in [Runs -> RunRecords],
           \A s \in Runs : /\ run'[s].agent = run[s].agent
                           /\ run'[s].status = IF s = r THEN x ELSE run[s].status,
           exec' = IF p = "done" THEN Forget(exec, r) ELSE exec,
           queue' \in Seq(Mutations), Queued(queue', [phase EXCEPT ![r] = p], click'),
           \A s \in Runs : s # r /\ Cancels(queue, s) => Cancels(queue', s),
           cancelReq' \subseteq Agents, click' \in ClickTypes,
           NEW K \in SUBSET Clicks, Answered(K),
           status' \in [Agents -> Statuses],
           \A a \in Agents : status'[a] = "gone" => status[a] = "gone",
           unread' \in [Agents -> SUBSET Channels],
           todo' \in [Runs -> SUBSET Agents],
           pending' \in [Agents -> Seq(Wakes)], Coalesced',
           UNCHANGED <<runnerVars, posts>>
    PROVE  IInv'
<1>a. TypeOK /\ RunsFit /\ EntriesFit
  BY DEF IInv
<1>1. /\ phase' \in [Runs -> Phases]
      /\ \A s \in Runs : phase'[s] = IF s = r THEN p ELSE phase[s]
  BY <1>a DEF TypeOK
<1>2. exec' \in [Agents -> Runs \cup {0}]
  BY <1>a DEF TypeOK, Forget
<1>3. TypeOK'
  BY <1>a, <1>1, <1>2, Types, TypesNext DEF RunnerTypeOK, runnerVars
<1>4. \A s \in Runs : Proceeds(s)
  <2>1. Proceeds(r)
    BY <1>a, <1>1 DEF Proceeds, RunsFit
  <2>2. ASSUME NEW s \in Runs, s # r
        PROVE  Proceeds(s)
    BY <1>a, <1>1, <2>2 DEF Proceeds, RunsFit
  <2> QED BY <2>1, <2>2
<1>5. EntriesFollow
  <2>1. CASE p = "done"
    BY <1>a, <1>1, <2>1, EntryForgotten
  <2>2. CASE p # "done"
    BY <1>a, <1>1, <2>2, EntriesStay
  <2> QED BY <2>1, <2>2
<1>6. ASSUME NEW s \in Runs, Killed(s)
      PROVE  Killed(s)'
  <2>1. CASE s = r
    <3>1. phase'[s] \in {"settling", "draining", "done"}
      BY <1>1, <1>6, <2>1
    <3>2. run'[s].status \in Active \cup {"cancelled", "removed"}
      BY <1>6, <2>1
    <3> QED BY <3>1, <3>2 DEF Killed
  <2>2. CASE s # r
    <3>1. phase'[s] = phase[s] /\ run'[s].status = run[s].status /\ run'[s].agent = run[s].agent
      BY <1>1, <2>2
    <3>2. flags' = flags /\ (Cancels(queue, s) => Cancels(queue', s))
      BY <2>2 DEF runnerVars
    <3> QED BY <1>6, <3>1, <3>2, KilledStays
  <2> QED BY <2>1, <2>2
<1>7. \A s \in Runs : phase'[s] = "codex" <=> phase[s] = "codex"
  BY <1>1
<1> QED BY <1>3, <1>4, <1>5, <1>6, <1>7, Step DEF runnerVars

-----------------------------------------------------------------------------
(* executeRun and finishRun. *)

\* Where a mutation of run r is at the head of the queue, with t behind it.
LEMMA HeadOfRun ==
    ASSUME IInv, queue # <<>>, Head(queue).op \in {"launch", "completed", "failed", "cancelled"},
           NEW r, r = Head(queue).run
    PROVE  /\ r \in Runs
           /\ r = Caller(Head(queue))
           /\ phase[r] = IF Head(queue).op = "launch" THEN "queued"
                         ELSE IF Head(queue).op = "completed" THEN "replying" ELSE "failing"
           /\ run[r] \in RunRecords
           /\ run[r].status # "none"
           /\ run[r].agent \in Agents
           /\ Killed(r) => Head(queue).op = "cancelled" /\ run[r].status \in {"running", "removed"}
<1>1. TypeOK /\ Queued(queue, phase, click) /\ RunsFit
  BY DEF IInv
<1>2. queue \in Seq(Mutations)
  BY <1>1 DEF TypeOK
<1>3. Head(queue) \in Mutations /\ Fit(Head(queue), phase, click)
  BY <1>1, <1>2, Pop
<1>4. /\ r \in Runs
      /\ r = Caller(Head(queue))
      /\ phase[r] = IF Head(queue).op = "launch" THEN "queued"
                    ELSE IF Head(queue).op = "completed" THEN "replying" ELSE "failing"
  BY <1>3, MutationFields DEF Fit, Caller
<1>5. run[r] \in RunRecords /\ run[r].agent \in Agents
  BY <1>1, <1>4, Types DEF RunRecords
<1>6. run[r].status # "none"
  BY <1>1, <1>4 DEF RunsFit
<1>7. ASSUME Killed(r)
      PROVE  Head(queue).op = "cancelled" /\ run[r].status \in {"running", "removed"}
  <2>1. Cancels(queue, r) /\ run[r].status \in {"running", "removed"}
    BY <1>4, <1>7 DEF Killed
  <2>2. 1 \in 1..Len(queue) /\ Head(queue) = queue[1]
    BY <1>2, EmptySeq, HeadTailProperties, LenProperties
  <2> QED BY <1>4, <2>1, <2>2 DEF Cancels
<1> QED BY <1>4, <1>5, <1>6, <1>7

\* "running" is on disk: the run is prepared, or cancelled before it starts.
LEMMA CommitLaunchInv ==
    ASSUME IInv, CommitLaunch
    PROVE  IInv'
<1> DEFINE r == Head(queue).run
           t == Tail(queue)
           p == IF run[r].agent \in cancelReq THEN "failing" ELSE "prepare"
           x == IF run[r].status = "removed" THEN "removed" ELSE "running"
<1>b. /\ queue # <<>> /\ Head(queue).op = "launch"
      /\ phase' = [phase EXCEPT ![r] = p]
      /\ queue' = IF p = "failing" THEN Append(t, RunMutation("cancelled", r)) ELSE t
      /\ run' = [run EXCEPT ![r].status = x]
      /\ UNCHANGED <<runnerVars, status, unread, todo, exec, pending, cancelReq, click, posts>>
  BY DEF CommitLaunch, HeadIs, Launch
<1>a. TypeOK /\ Coalesced /\ Queued(queue, phase, click)
  BY DEF IInv
<1>1. r \in Runs /\ r = Caller(Head(queue)) /\ phase[r] = "queued" /\ ~Killed(r)
  BY <1>b, HeadOfRun
<1> HIDE DEF r, t
<1>2. /\ t \in Seq(Mutations)
      /\ \A i \in 1..Len(t) : Caller(t[i]) # r
      /\ Queued(t, [phase EXCEPT ![r] = p], click)
      /\ \A s : Cancels(queue, s) => Cancels(t, s)
      /\ Queued(t, phase, click) /\ phase \in [Runs -> Phases]
  BY <1>a, <1>b, <1>1, Commits, Pop, Types DEF t
<1>3. /\ queue' \in Seq(Mutations)
      /\ Queued(queue', phase', click)
      /\ \A s \in Runs : Cancels(queue, s) => Cancels(queue', s)
  <2>1. CASE p = "failing"
    BY <1>b, <1>1, <1>2, <2>1, AsksEnd
  <2>2. CASE p # "failing"
    BY <1>b, <1>2, <2>2
  <2> QED BY <2>1, <2>2
<1>4. x \in RunStatuses /\ x # "none" /\ p \in Phases /\ p \in {"failing", "prepare"}
  BY DEF RunStatuses, Active, Phases
<1>5. /\ x \in {"running", "removed"}
      /\ run[r].status = "removed" => x = "removed"
  OBVIOUS
<1> HIDE DEF x, p
<1>6. /\ run' \in [Runs -> RunRecords]
      /\ \A s \in Runs : run'[s].agent = run[s].agent /\ run'[s].status = IF s = r THEN x ELSE run[s].status
  <2>1. run \in [Runs -> RunRecords]
    BY <1>a, Types
  <2> QED BY <1>b, <1>1, <1>4, <2>1, Recorded
<1>7. Answered({}) /\ Coalesced'
  BY <1>a, <1>b DEF Answered, Coalesced
<1>8. /\ cancelReq' \subseteq Agents /\ click' \in ClickTypes
      /\ status' \in [Agents -> Statuses] /\ unread' \in [Agents -> SUBSET Channels]
      /\ todo' \in [Runs -> SUBSET Agents] /\ pending' \in [Agents -> Seq(Wakes)]
      /\ exec' = exec /\ status' = status
      /\ UNCHANGED <<runnerVars, posts>>
  BY <1>a, <1>b, Types
<1>9. Queued(queue', [phase EXCEPT ![r] = p], click')
  BY <1>b, <1>3
<1>10. /\ p \in Phases \ {"none", "queued", "codex"} /\ x \in RunStatuses \ {"none"}
       /\ exec' = IF p = "done" THEN Forget(exec, r) ELSE exec
       /\ \A s \in Runs : s # r /\ Cancels(queue, s) => Cancels(queue', s)
       /\ \A a \in Agents : status'[a] = "gone" => status[a] = "gone"
       /\ phase[r] \notin {"none", "done", "codex"} /\ phase' = [phase EXCEPT ![r] = p]
  BY <1>b, <1>1, <1>3, <1>4, <1>8
<1>11. {} \in SUBSET Clicks
  OBVIOUS
<1> QED BY <1>1, <1>3, <1>5, <1>6, <1>7, <1>8, <1>9, <1>10, <1>11, RunSteps

-----------------------------------------------------------------------------
(* Deferred wakes. *)

\* At most one deferred wake of a channel.
OncePerChannel(waiting) ==
    \A i, j \in DOMAIN waiting : waiting[i].chan = waiting[j].chan => i = j

\* What was deferred with a conflict still has it.
Remembers(old, new) ==
    \A i \in DOMAIN old, j \in DOMAIN new :
        (old[i].chan = new[j].chan /\ old[i].conflict) => new[j].conflict

\* A wake that merges with the one deferred for its channel.
LEMMA Merged ==
    ASSUME NEW v \in Wakes, NEW w \in Wakes
    PROVE  /\ [v EXCEPT !.conflict = @ \/ w.conflict] \in Wakes
           /\ [v EXCEPT !.conflict = @ \/ w.conflict].chan = v.chan
           /\ w.conflict => [v EXCEPT !.conflict = @ \/ w.conflict].conflict
<1> DEFINE c == v.conflict \/ w.conflict
<1>1. c \in BOOLEAN /\ (w.conflict => c)
  OBVIOUS
<1> HIDE DEF c
<1>2. /\ [v EXCEPT !.conflict = c] \in Wakes
      /\ [v EXCEPT !.conflict = c].chan = v.chan
      /\ [v EXCEPT !.conflict = c].conflict = c
  BY <1>1 DEF Wakes
<1> QED BY <1>1, <1>2 DEF c

\* deferWake keeps one wake per channel, and every conflict.
LEMMA DeferFacts ==
    ASSUME NEW old \in Seq(Wakes), NEW v \in Wakes, OncePerChannel(old)
    PROVE  /\ Defer(old, v) \in Seq(Wakes)
           /\ OncePerChannel(Defer(old, v))
           /\ Remembers(old, Defer(old, v))
<1> DEFINE new == Defer(old, v)
           n == Len(old)
           both(i) == [v EXCEPT !.conflict = @ \/ old[i].conflict]
<1>1. /\ n \in Nat
      /\ DOMAIN old = 1..n
      /\ \A i \in 1..n : old[i] \in Wakes
  BY LenProperties, ElementOfSeq
<1>2. \A i \in 1..n : /\ both(i) \in Wakes
                      /\ both(i).chan = v.chan
                      /\ old[i].conflict => both(i).conflict
  BY <1>1, Merged
<1>3. CASE \E i \in DOMAIN old : old[i].chan = v.chan
  <2>1. new = [i \in DOMAIN old |-> IF old[i].chan = v.chan THEN both(i) ELSE old[i]]
    BY <1>3 DEF Defer
  <2> HIDE DEF new, both
  <2>2. new = [i \in 1..n |-> IF old[i].chan = v.chan THEN both(i) ELSE old[i]]
    BY <1>1, <2>1
  <2>3. \A i \in 1..n : /\ new[i] \in Wakes
                        /\ new[i].chan = old[i].chan
                        /\ old[i].conflict => new[i].conflict
    BY <1>1, <1>2, <2>2
  <2>4. new \in [1..n -> Wakes]
    BY <2>2, <2>3
  <2>5. new \in Seq(Wakes) /\ DOMAIN new = 1..n
    BY <1>1, <2>4, SeqDef
  <2>6. OncePerChannel(new) /\ Remembers(old, new)
    BY <1>1, <2>3, <2>5 DEF OncePerChannel, Remembers
  <2> QED BY <2>5, <2>6 DEF new
<1>4. CASE ~\E i \in DOMAIN old : old[i].chan = v.chan
  <2>1. new = Append(old, v)
    BY <1>4 DEF Defer
  <2> HIDE DEF new, both
  <2>2. /\ new \in Seq(Wakes)
        /\ DOMAIN new = 1..(n + 1)
        /\ \A i \in 1..n : new[i] = old[i]
        /\ new[n + 1] = v
    BY <1>1, <2>1, AppendProperties, LenProperties
  <2>3. \A i \in 1..(n + 1) : i \in 1..n \/ i = n + 1
    BY <1>1
  <2>4. \A i \in 1..n : old[i].chan # v.chan
    BY <1>1, <1>4
  <2>5. OncePerChannel(new)
    BY <1>1, <2>2, <2>3, <2>4 DEF OncePerChannel
  <2>6. Remembers(old, new)
    BY <1>1, <2>2, <2>3, <2>4 DEF OncePerChannel, Remembers
  <2> QED BY <2>2, <2>5, <2>6 DEF new
<1> QED BY <1>3, <1>4

\* The oldest deferred wake is taken out.
LEMMA TakenOut ==
    ASSUME NEW old \in Seq(Wakes), OncePerChannel(old), old # <<>>
    PROVE  /\ Tail(old) \in Seq(Wakes)
           /\ Head(old) \in Wakes
           /\ OncePerChannel(Tail(old))
           /\ Remembers(old, Tail(old))
<1> DEFINE t == Tail(old)
           n == Len(old)
<1>1. /\ n \in Nat
      /\ DOMAIN old = 1..n
      /\ t \in Seq(Wakes)
      /\ Head(old) \in Wakes
      /\ DOMAIN t = 1..(n - 1)
      /\ \A i \in 1..(n - 1) : t[i] = old[i + 1]
  BY EmptySeq, HeadTailProperties, LenProperties
<1>2. \A i \in 1..(n - 1) : i + 1 \in 1..n
  BY <1>1
<1> HIDE DEF t, n
<1>3. OncePerChannel(t)
  <2>1. ASSUME NEW i \in 1..(n - 1), NEW j \in 1..(n - 1), t[i].chan = t[j].chan
        PROVE  i = j
    <3>1. i + 1 \in DOMAIN old /\ j + 1 \in DOMAIN old /\ old[i + 1].chan = old[j + 1].chan
      BY <1>1, <1>2, <2>1
    <3>2. i + 1 = j + 1
      BY <3>1 DEF OncePerChannel
    <3> QED BY <1>1, <3>2
  <2> QED BY <1>1, <2>1 DEF OncePerChannel
<1>4. Remembers(old, t)
  BY <1>1, <1>2 DEF OncePerChannel, Remembers
<1> QED BY <1>1, <1>3, <1>4 DEF t

\* The deferred wakes of one agent change.
LEMMA PendingOf ==
    ASSUME pending \in [Agents -> Seq(Wakes)], Coalesced, NEW a \in Agents,
           NEW new \in Seq(Wakes), OncePerChannel(new),
           pending' = [pending EXCEPT ![a] = new]
    PROVE  /\ pending' \in [Agents -> Seq(Wakes)]
           /\ Coalesced'
<1>1. pending' \in [Agents -> Seq(Wakes)]
  OBVIOUS
<1>2. \A b \in Agents : pending'[b] = IF b = a THEN new ELSE pending[b]
  OBVIOUS
<1>3. \A b \in Agents : OncePerChannel(pending'[b])
  BY <1>2 DEF Coalesced, OncePerChannel
<1> QED BY <1>1, <1>3 DEF Coalesced, OncePerChannel

\* Coalesced, for one agent.
LEMMA PendingAgrees ==
    ASSUME TypeOK, Coalesced, NEW a \in Agents
    PROVE  pending[a] \in Seq(Wakes) /\ OncePerChannel(pending[a])
  BY DEF TypeOK, Coalesced, OncePerChannel

\* A wake's type.
LEMMA WakeTypes ==
    ASSUME NEW c \in Channels, NEW t \in Traces, NEW b \in BOOLEAN
    PROVE  Wake(c, t, b) \in Wakes
  BY DEF Wake, Wakes

\* A wake is deferred.
LEMMA DeferredOf ==
    ASSUME TypeOK, Coalesced, NEW a \in Agents, NEW w \in Wakes,
           pending' = [pending EXCEPT ![a] = Defer(@, w)]
    PROVE  pending' \in [Agents -> Seq(Wakes)] /\ Coalesced'
<1>1. pending' = [pending EXCEPT ![a] = Defer(pending[a], w)]
  BY DEF TypeOK
<1>2. pending \in [Agents -> Seq(Wakes)]
  BY DEF TypeOK
<1> QED BY <1>1, <1>2, PendingAgrees, DeferFacts, PendingOf

-----------------------------------------------------------------------------
(* The steps of executeRun, one by one. *)

\* The write before executeRun's try block fails.
LEMMA LaunchFailsInv ==
    ASSUME IInv, LaunchFails
    PROVE  IInv'
<1> DEFINE r == Head(queue).run
           t == Tail(queue)
           x == run[r].status
<1>b. /\ queue # <<>> /\ Head(queue).op = "launch"
      /\ phase' = [phase EXCEPT ![r] = "done"]
      /\ exec' = Forget(exec, r)
      /\ Over(r, t)
      /\ UNCHANGED <<runnerVars, status, run, unread, todo, pending, posts>>
  BY DEF LaunchFails, HeadIs
<1>a. TypeOK /\ Coalesced /\ Queued(queue, phase, click)
  BY DEF IInv
<1>1. /\ r \in Runs /\ r = Caller(Head(queue)) /\ phase[r] = "queued" /\ ~Killed(r)
      /\ run[r] \in RunRecords /\ x # "none"
  BY <1>b, HeadOfRun
<1> HIDE DEF r, t
<1>2. /\ t \in Seq(Mutations)
      /\ Queued(t, [phase EXCEPT ![r] = "done"], click)
      /\ \A s : Cancels(queue, s) => Cancels(t, s)
  BY <1>a, <1>b, <1>1, Commits DEF t
<1>3. /\ cancelReq' \subseteq Agents /\ click' \in ClickTypes
      /\ queue' \in Seq(Mutations)
      /\ Queued(queue', [phase EXCEPT ![r] = "done"], click')
      /\ \A s \in Runs : Cancels(t, s) => Cancels(queue', s)
      /\ Answered(Awaiting(r))
  <2>1. cancelReq \subseteq Agents /\ click \in ClickTypes
    BY <1>a, Types
  <2> QED BY <1>b, <1>2, <2>1, OverFacts
<1>4. x \in RunStatuses \ {"none"}
  BY <1>1 DEF RunRecords, RunStatuses
<1> HIDE DEF x
<1>5. /\ run' \in [Runs -> RunRecords]
      /\ \A s \in Runs : run'[s].agent = run[s].agent /\ run'[s].status = IF s = r THEN x ELSE run[s].status
      /\ run[r].status = "removed" => x = "removed"
  BY <1>a, <1>b, Types DEF x
<1>6. /\ status' \in [Agents -> Statuses] /\ unread' \in [Agents -> SUBSET Channels]
      /\ todo' \in [Runs -> SUBSET Agents] /\ pending' \in [Agents -> Seq(Wakes)]
      /\ Coalesced'
      /\ \A a \in Agents : status'[a] = "gone" => status[a] = "gone"
      /\ UNCHANGED <<runnerVars, posts>>
  BY <1>a, <1>b, Types DEF Coalesced
<1> DEFINE p == "done"
<1>7. /\ p \in Phases \ {"none", "queued", "codex"}
      /\ p \in {"prepare", "replying"} => x \in {"running", "removed"}
      /\ exec' = IF p = "done" THEN Forget(exec, r) ELSE exec
      /\ \A s \in Runs : s # r /\ Cancels(queue, s) => Cancels(queue', s)
      /\ phase[r] \notin {"none", "done", "codex"} /\ phase' = [phase EXCEPT ![r] = p]
      /\ Queued(queue', [phase EXCEPT ![r] = p], click')
      /\ Awaiting(r) \in SUBSET Clicks /\ Answered(Awaiting(r))
      /\ cancelReq' \subseteq Agents /\ click' \in ClickTypes /\ queue' \in Seq(Mutations)
  BY <1>b, <1>1, <1>2, <1>3 DEF Phases, Awaiting
<1>8. Killed(r) => /\ p \in {"settling", "draining", "done"}
                   /\ x \in Active \cup {"cancelled", "removed"}
  BY <1>1
<1> DEFINE K == Awaiting(r)
<1>9. K \in SUBSET Clicks /\ Answered(K)
  BY <1>7
<1> HIDE DEF p, K
<1>10. r \in Runs
  BY <1>1
<1>11. /\ \A s \in Runs : s # r /\ Cancels(queue, s) => Cancels(queue', s)
       /\ Queued(queue', [phase EXCEPT ![r] = p], click')
       /\ cancelReq' \subseteq Agents /\ click' \in ClickTypes /\ queue' \in Seq(Mutations)
  BY <1>7
<1> QED BY <1>4, <1>5, <1>6, <1>7, <1>8, <1>9, <1>10, <1>11, RunSteps

\* finishRun's mutation commits.
LEMMA CommitFinishInv ==
    ASSUME IInv, CommitFinish
    PROVE  IInv'
<1> DEFINE r == Head(queue).run
           t == Tail(queue)
           x == IF Stored(r) THEN "completed" ELSE run[r].status
<1>b. /\ queue # <<>> /\ Head(queue).op = "completed"
      /\ run' = [run EXCEPT ![r].status = x]
      /\ Ended(run[r].agent, "ready")
      /\ phase' = [phase EXCEPT ![r] = "waking"] \/ phase' = [phase EXCEPT ![r] = "losing"]
      /\ \/ \E called \in SUBSET Reachable(run[r].agent) : todo' = [todo EXCEPT ![r] = called]
         \/ todo' = todo
      /\ unread' = unread \/ unread' = [b \in Agents |-> IF b = run[r].agent THEN unread[b]
                                                         ELSE unread[b] \cup {run[r].chan}]
      /\ queue' = t
      /\ UNCHANGED <<runnerVars, exec, pending, cancelReq, click, posts>>
  BY DEF CommitFinish, HeadIs
<1>a. TypeOK /\ Coalesced /\ Queued(queue, phase, click)
  BY DEF IInv
<1>1. /\ r \in Runs /\ r = Caller(Head(queue)) /\ phase[r] = "replying" /\ ~Killed(r)
      /\ run[r] \in RunRecords /\ run[r].status # "none"
  BY <1>b, HeadOfRun
<1> HIDE DEF r, t
<1>2. PICK p \in {"waking", "losing"} : phase' = [phase EXCEPT ![r] = p]
  BY <1>b
<1>3. /\ queue' \in Seq(Mutations)
      /\ Queued(queue', [phase EXCEPT ![r] = p], click')
      /\ \A s \in Runs : s # r /\ Cancels(queue, s) => Cancels(queue', s)
  BY <1>a, <1>b, <1>1, Commits DEF t
<1>4. /\ x \in RunStatuses \ {"none"}
      /\ run[r].status = "removed" => x = "removed"
  BY <1>1 DEF RunRecords, RunStatuses, Terminal, Stored
<1> HIDE DEF x
<1>5. /\ run' \in [Runs -> RunRecords]
      /\ \A s \in Runs : run'[s].agent = run[s].agent /\ run'[s].status = IF s = r THEN x ELSE run[s].status
  <2>1. run \in [Runs -> RunRecords]
    BY <1>a, Types
  <2> QED BY <1>b, <1>1, <1>4, <2>1, Recorded
<1>6. /\ status' \in [Agents -> Statuses]
      /\ \A a \in Agents : status'[a] = "gone" => status[a] = "gone"
  BY <1>a, <1>b DEF TypeOK, Ended, Statuses
<1>7. /\ unread' \in [Agents -> SUBSET Channels]
      /\ todo' \in [Runs -> SUBSET Agents]
  <2>1. run[r].chan \in Channels
    BY <1>1 DEF RunRecords
  <2>2. unread' \in [Agents -> SUBSET Channels]
    <3>1. unread \in [Agents -> SUBSET Channels]
      BY <1>a DEF TypeOK
    <3> QED BY <1>b, <2>1, <3>1
  <2>3. Reachable(run[r].agent) \subseteq Agents
    BY DEF Reachable
  <2>4. todo' \in [Runs -> SUBSET Agents]
    <3>1. todo \in [Runs -> SUBSET Agents]
      BY <1>a DEF TypeOK
    <3>2. CASE \E called \in SUBSET Reachable(run[r].agent) : todo' = [todo EXCEPT ![r] = called]
      <4>1. PICK called \in SUBSET Reachable(run[r].agent) : todo' = [todo EXCEPT ![r] = called]
        BY <3>2
      <4>2. called \in SUBSET Agents
        BY <2>3
      <4> QED BY <3>1, <4>1, <4>2
    <3> QED BY <1>b, <3>1, <3>2
  <2> QED BY <2>2, <2>4
<1>8. /\ pending' \in [Agents -> Seq(Wakes)] /\ Coalesced' /\ Answered({})
      /\ cancelReq' \subseteq Agents /\ click' \in ClickTypes
      /\ UNCHANGED <<runnerVars, posts>>
  BY <1>a, <1>b, Types DEF Coalesced, Answered
<1>9. /\ p \in Phases \ {"none", "queued", "codex"} /\ p \notin {"prepare", "replying"}
      /\ exec' = IF p = "done" THEN Forget(exec, r) ELSE exec
      /\ phase[r] \notin {"none", "done", "codex"}
      /\ {} \in SUBSET Clicks
  BY <1>b, <1>1, <1>2 DEF Phases
<1> QED BY <1>1, <1>2, <1>3, <1>4, <1>5, <1>6, <1>7, <1>8, <1>9, RunSteps

\* finishRun's mutation fails.
LEMMA FinishFailsInv ==
    ASSUME IInv, FinishFails
    PROVE  IInv'
<1> DEFINE r == Head(queue).run
           t == Tail(queue)
           p == "failing"
           x == run[r].status
<1>b. /\ queue # <<>> /\ Head(queue).op = "completed"
      /\ phase' = [phase EXCEPT ![r] = p]
      /\ queue' = Append(t, RunMutation("failed", r))
      /\ UNCHANGED <<runnerVars, status, run, unread, todo, exec, pending, cancelReq, click, posts>>
  BY DEF FinishFails, HeadIs
<1>a. TypeOK /\ Coalesced /\ Queued(queue, phase, click)
  BY DEF IInv
<1>1. /\ r \in Runs /\ r = Caller(Head(queue)) /\ phase[r] = "replying" /\ ~Killed(r)
      /\ run[r] \in RunRecords /\ x # "none"
  BY <1>b, HeadOfRun
<1> HIDE DEF r, t
<1>2. /\ t \in Seq(Mutations)
      /\ \A i \in 1..Len(t) : Caller(t[i]) # r
      /\ Queued(t, phase, click) /\ phase \in [Runs -> Phases]
      /\ \A s : Cancels(queue, s) => Cancels(t, s)
  BY <1>a, <1>b, <1>1, Commits, Pop, Types DEF t
<1>3. /\ queue' \in Seq(Mutations)
      /\ Queued(queue', [phase EXCEPT ![r] = p], click')
      /\ \A s \in Runs : s # r /\ Cancels(queue, s) => Cancels(queue', s)
  BY <1>b, <1>1, <1>2, AsksEnd
<1>4. x \in RunStatuses \ {"none"}
  BY <1>1 DEF RunRecords, RunStatuses
<1> HIDE DEF x
<1>5. /\ run' \in [Runs -> RunRecords]
      /\ \A s \in Runs : run'[s].agent = run[s].agent /\ run'[s].status = IF s = r THEN x ELSE run[s].status
      /\ run[r].status = "removed" => x = "removed"
  BY <1>a, <1>b, Types DEF x
<1>6. /\ status' \in [Agents -> Statuses] /\ unread' \in [Agents -> SUBSET Channels]
      /\ todo' \in [Runs -> SUBSET Agents] /\ pending' \in [Agents -> Seq(Wakes)]
      /\ Coalesced' /\ Answered({})
      /\ cancelReq' \subseteq Agents /\ click' \in ClickTypes
      /\ \A a \in Agents : status'[a] = "gone" => status[a] = "gone"
      /\ UNCHANGED <<runnerVars, posts>>
  BY <1>a, <1>b, Types DEF Coalesced, Answered
<1>7. /\ p \in Phases \ {"none", "queued", "codex"}
      /\ p \in {"prepare", "replying"} => x \in {"running", "removed"}
      /\ exec' = IF p = "done" THEN Forget(exec, r) ELSE exec
      /\ phase[r] \notin {"none", "done", "codex"} /\ phase' = [phase EXCEPT ![r] = p]
      /\ {} \in SUBSET Clicks
  BY <1>b, <1>1 DEF Phases
<1> HIDE DEF p
<1> QED BY <1>1, <1>3, <1>4, <1>5, <1>6, <1>7, RunSteps

\* The catch's mutation commits.
LEMMA CommitFailInv ==
    ASSUME IInv, CommitFail
    PROVE  IInv'
<1> DEFINE r == Head(queue).run
           t == Tail(queue)
           p == "settling"
           how == Head(queue).op
           x == IF run[r].status = "removed" THEN "removed" ELSE how
<1>b. /\ queue # <<>> /\ how \in {"failed", "cancelled"}
      /\ run' = [run EXCEPT ![r].status = x]
      /\ Ended(run[r].agent, IF how = "cancelled" THEN "ready" ELSE "error")
      /\ unread' = [b \in Agents |->
            IF how = "failed" /\ status[run[r].agent] # "gone" THEN unread[b] \cup {run[r].chan}
            ELSE unread[b]]
      /\ phase' = [phase EXCEPT ![r] = p]
      /\ todo' = [todo EXCEPT ![r] = {}]
      /\ queue' = t
      /\ UNCHANGED <<runnerVars, exec, pending, cancelReq, click, posts>>
  BY DEF CommitFail
<1>a. TypeOK /\ Coalesced /\ Queued(queue, phase, click)
  BY DEF IInv
<1>1. /\ r \in Runs /\ r = Caller(Head(queue)) /\ phase[r] = "failing"
      /\ Killed(r) => how = "cancelled"
      /\ run[r] \in RunRecords /\ run[r].status # "none"
  BY <1>b, HeadOfRun
<1> HIDE DEF r, t
<1>3. /\ queue' \in Seq(Mutations)
      /\ Queued(queue', [phase EXCEPT ![r] = p], click')
      /\ \A s \in Runs : s # r /\ Cancels(queue, s) => Cancels(queue', s)
  BY <1>a, <1>b, <1>1, Commits DEF t
<1>4. /\ x \in RunStatuses \ {"none"}
      /\ run[r].status = "removed" => x = "removed"
      /\ Killed(r) => x \in {"cancelled", "removed"}
  BY <1>b, <1>1 DEF RunRecords, RunStatuses, Terminal
<1> HIDE DEF x
<1>5. /\ run' \in [Runs -> RunRecords]
      /\ \A s \in Runs : run'[s].agent = run[s].agent /\ run'[s].status = IF s = r THEN x ELSE run[s].status
  <2>1. run \in [Runs -> RunRecords]
    BY <1>a, Types
  <2> QED BY <1>b, <1>1, <1>4, <2>1, Recorded
<1>6. /\ status' \in [Agents -> Statuses]
      /\ \A a \in Agents : status'[a] = "gone" => status[a] = "gone"
  BY <1>a, <1>b DEF TypeOK, Ended, Statuses
<1>7. /\ unread' \in [Agents -> SUBSET Channels]
      /\ todo' \in [Runs -> SUBSET Agents]
  <2>1. run[r].chan \in Channels
    BY <1>1 DEF RunRecords
  <2>2. unread \in [Agents -> SUBSET Channels] /\ todo \in [Runs -> SUBSET Agents]
    BY <1>a DEF TypeOK
  <2> QED BY <1>b, <2>1, <2>2
<1>8. /\ pending' \in [Agents -> Seq(Wakes)] /\ Coalesced' /\ Answered({})
      /\ cancelReq' \subseteq Agents /\ click' \in ClickTypes
      /\ UNCHANGED <<runnerVars, posts>>
  BY <1>a, <1>b, Types DEF Coalesced, Answered
<1>9. /\ p \in Phases \ {"none", "queued", "codex"}
      /\ p \in {"prepare", "replying"} => x \in {"running", "removed"}
      /\ Killed(r) => /\ p \in {"settling", "draining", "done"}
                      /\ x \in Active \cup {"cancelled", "removed"}
      /\ exec' = IF p = "done" THEN Forget(exec, r) ELSE exec
      /\ phase[r] \notin {"none", "done", "codex"} /\ phase' = [phase EXCEPT ![r] = p]
      /\ {} \in SUBSET Clicks
  BY <1>b, <1>1, <1>4 DEF Phases
<1> HIDE DEF p
<1> QED BY <1>1, <1>3, <1>4, <1>5, <1>6, <1>7, <1>8, <1>9, RunSteps

\* The catch's mutation fails.
LEMMA FailFailsInv ==
    ASSUME IInv, FailFails
    PROVE  IInv'
<1> DEFINE r == Head(queue).run
           t == Tail(queue)
           p == "settling"
           x == run[r].status
<1>b. /\ queue # <<>> /\ Head(queue).op \in {"failed", "cancelled"}
      /\ phase' = [phase EXCEPT ![r] = p]
      /\ todo' = [todo EXCEPT ![r] = {}]
      /\ queue' = t
      /\ UNCHANGED <<runnerVars, status, run, unread, exec, pending, cancelReq, click, posts>>
  BY DEF FailFails
<1>a. TypeOK /\ Coalesced /\ Queued(queue, phase, click)
  BY DEF IInv
<1>1. /\ r \in Runs /\ r = Caller(Head(queue)) /\ phase[r] = "failing"
      /\ Killed(r) => x \in {"running", "removed"}
      /\ run[r] \in RunRecords /\ x # "none"
  BY <1>b, HeadOfRun
<1> HIDE DEF r, t
<1>3. /\ queue' \in Seq(Mutations)
      /\ Queued(queue', [phase EXCEPT ![r] = p], click')
      /\ \A s \in Runs : s # r /\ Cancels(queue, s) => Cancels(queue', s)
  BY <1>a, <1>b, <1>1, Commits DEF t
<1>4. x \in RunStatuses \ {"none"}
  BY <1>1 DEF RunRecords, RunStatuses
<1> HIDE DEF x
<1>5. /\ run' \in [Runs -> RunRecords]
      /\ \A s \in Runs : run'[s].agent = run[s].agent /\ run'[s].status = IF s = r THEN x ELSE run[s].status
      /\ run[r].status = "removed" => x = "removed"
  BY <1>a, <1>b, Types DEF x
<1>6. /\ status' \in [Agents -> Statuses] /\ unread' \in [Agents -> SUBSET Channels]
      /\ pending' \in [Agents -> Seq(Wakes)]
      /\ Coalesced' /\ Answered({})
      /\ cancelReq' \subseteq Agents /\ click' \in ClickTypes
      /\ \A a \in Agents : status'[a] = "gone" => status[a] = "gone"
      /\ UNCHANGED <<runnerVars, posts>>
  BY <1>a, <1>b, Types DEF Coalesced, Answered
<1>7. todo' \in [Runs -> SUBSET Agents]
  BY <1>a, <1>b DEF TypeOK
<1>8. /\ p \in Phases \ {"none", "queued", "codex"}
      /\ p \in {"prepare", "replying"} => x \in {"running", "removed"}
      /\ Killed(r) => /\ p \in {"settling", "draining", "done"}
                      /\ x \in Active \cup {"cancelled", "removed"}
      /\ exec' = IF p = "done" THEN Forget(exec, r) ELSE exec
      /\ phase[r] \notin {"none", "done", "codex"} /\ phase' = [phase EXCEPT ![r] = p]
      /\ {} \in SUBSET Clicks
  BY <1>b, <1>1 DEF Phases, Active
<1> HIDE DEF p
<1> QED BY <1>1, <1>3, <1>4, <1>5, <1>6, <1>7, <1>8, RunSteps

\* A run that does not wait for the store goes on.
LEMMA Leaves ==
    ASSUME IInv, NEW r \in Runs, phase[r] \notin Waiting, phase[r] # "none"
    PROVE  /\ \A i \in 1..Len(queue) : Caller(queue[i]) # r
           /\ \A p : Queued(queue, [phase EXCEPT ![r] = p], click)
           /\ queue \in Seq(Mutations) /\ phase \in [Runs -> Phases]
           /\ run[r] \in RunRecords
           /\ run[r].agent \in Agents
           /\ run[r].status \in RunStatuses \ {"none"}
<1>1. TypeOK /\ Queued(queue, phase, click) /\ RunsFit
  BY DEF IInv
<1>2. queue \in Seq(Mutations) /\ phase \in [Runs -> Phases] /\ run[r] \in RunRecords
  BY <1>1, Types
<1>3. \A i \in 1..Len(queue) : Caller(queue[i]) # r
  BY <1>1, <1>2, Absent
<1>4. \A p : Queued(queue, [phase EXCEPT ![r] = p], click)
  BY <1>1, <1>2, <1>3, Move
<1>5. run[r].agent \in Agents /\ run[r].status \in RunStatuses \ {"none"}
  BY <1>1, <1>2 DEF RunRecords, RunStatuses, RunsFit
<1> QED BY <1>2, <1>3, <1>4, <1>5

\* regenerateAfterConflict defers the next turn.
LEMMA LoseInv ==
    ASSUME IInv, NEW r \in Runs, Lose(r)
    PROVE  IInv'
<1> DEFINE a == run[r].agent
           p == "settling"
           x == run[r].status
<1>a. TypeOK /\ Coalesced
  BY DEF IInv
<1>1. phase[r] = "losing" /\ phase' = [phase EXCEPT ![r] = p]
  BY DEF Lose
<1>2. PICK t \in {run[r].trace} \cup (IF run[r].chan \in unread[a] THEN 1..posts ELSE {}) :
          pending' = [pending EXCEPT ![a] = Defer(@, Wake(run[r].chan, t, TRUE))]
  BY DEF Lose
<1>b. UNCHANGED <<runnerVars, status, run, unread, queue, todo, exec, cancelReq, click, posts>>
  BY DEF Lose
<1>3. /\ Queued(queue, [phase EXCEPT ![r] = p], click)
      /\ queue \in Seq(Mutations) /\ run[r] \in RunRecords /\ a \in Agents
      /\ x \in RunStatuses \ {"none"}
  BY <1>1, Leaves DEF Waiting
<1>4. pending' \in [Agents -> Seq(Wakes)] /\ Coalesced'
  <2>1. t \in Traces
    BY <1>a, <1>2, <1>3, SchedulerAssumption DEF RunRecords, TypeOK, Traces
  <2>2. Wake(run[r].chan, t, TRUE) \in Wakes
    BY <1>3, <2>1, WakeTypes DEF RunRecords
  <2> QED BY <1>a, <1>2, <1>3, <2>2, DeferredOf
<1> HIDE DEF x
<1>5. /\ run' \in [Runs -> RunRecords]
      /\ \A s \in Runs : run'[s].agent = run[s].agent /\ run'[s].status = IF s = r THEN x ELSE run[s].status
      /\ run[r].status = "removed" => x = "removed"
  BY <1>a, <1>b, Types DEF x
<1>6. /\ status' \in [Agents -> Statuses] /\ unread' \in [Agents -> SUBSET Channels]
      /\ todo' \in [Runs -> SUBSET Agents] /\ Answered({})
      /\ cancelReq' \subseteq Agents /\ click' \in ClickTypes
      /\ \A b \in Agents : status'[b] = "gone" => status[b] = "gone"
      /\ queue' \in Seq(Mutations)
      /\ Queued(queue', [phase EXCEPT ![r] = p], click')
      /\ \A s \in Runs : s # r /\ Cancels(queue, s) => Cancels(queue', s)
      /\ UNCHANGED <<runnerVars, posts>>
  BY <1>a, <1>b, <1>3, Types DEF Answered
<1>7. /\ p \in Phases \ {"none", "queued", "codex"}
      /\ p \in {"prepare", "replying"} => x \in {"running", "removed"}
      /\ ~Killed(r)
      /\ exec' = IF p = "done" THEN Forget(exec, r) ELSE exec
      /\ phase[r] \notin {"none", "done", "codex"} /\ phase' = [phase EXCEPT ![r] = p]
      /\ {} \in SUBSET Clicks
  BY <1>b, <1>1 DEF Phases, Killed
<1> HIDE DEF p
<1> QED BY <1>3, <1>4, <1>5, <1>6, <1>7, RunSteps

\* queueTurn: either the wake is deferred, or a start is queued.
LEMMA StartMutationFacts ==
    ASSUME NEW a \in Agents, NEW w \in Wakes, NEW by \in Runs \cup {0}
    PROVE  /\ StartMutation(a, w, by) \in Mutations
           /\ StartMutation(a, w, by).op = "start"
           /\ StartMutation(a, w, by).by = by
           /\ Caller(StartMutation(a, w, by)) = by
  BY MutationTypes

\* A run that has nothing in the queue asks for a start.
LEMMA AsksStart ==
    ASSUME NEW q \in Seq(Mutations), NEW ph \in [Runs -> Phases], NEW cl, Queued(q, ph, cl),
           NEW r \in Runs, \A i \in 1..Len(q) : Caller(q[i]) # r,
           NEW a \in Agents, NEW w \in Wakes, NEW p \in {"waiting", "draining"}
    PROVE  /\ Append(q, StartMutation(a, w, r)) \in Seq(Mutations)
           /\ Queued(Append(q, StartMutation(a, w, r)), [ph EXCEPT ![r] = p], cl)
           /\ \A s : Cancels(q, s) /\ s # r => Cancels(Append(q, StartMutation(a, w, r)), s)
<1> DEFINE m == StartMutation(a, w, r)
<1>1. m \in Mutations /\ m.op = "start" /\ m.by = r /\ Caller(m) = r
  BY StartMutationFacts
<1> HIDE DEF m
<1>2. [ph EXCEPT ![r] = p][r] = p
  OBVIOUS
<1>3. Fit(m, [ph EXCEPT ![r] = p], cl)
  BY <1>1, <1>2 DEF Fit
<1>4. /\ Append(q, m) \in Seq(Mutations)
      /\ Queued(Append(q, m), [ph EXCEPT ![r] = p], cl)
      /\ \A s : Cancels(q, s) /\ (s # r \/ m.op = "cancelled") => Cancels(Append(q, m), s)
  BY <1>1, <1>3, Asks
<1> QED BY <1>4 DEF m

\* A queue that was appended to is another queue.
LEMMA AppendGrows ==
    ASSUME NEW S, NEW q \in Seq(S), NEW m \in S
    PROVE  Append(q, m) # q
  BY AppendProperties, LenProperties

\* wakeMembers wakes one member.
LEMMA WakeNextInv ==
    ASSUME IInv, NEW r \in Runs, WakeNext(r)
    PROVE  IInv'
<1> DEFINE x == run[r].status
           wake == Wake(run[r].chan, run[r].trace, FALSE)
<1>a. TypeOK /\ Coalesced /\ Queued(queue, phase, click)
  BY DEF IInv
<1>1. phase[r] = "waking"
  BY DEF WakeNext
<1>2. PICK b \in todo[r] :
          /\ todo' = [todo EXCEPT ![r] = @ \ {b}]
          /\ IF Exhausted(run[r].trace)
             THEN UNCHANGED <<phase, queue, pending>>
             ELSE IF status[b] = "gone"
             THEN /\ phase' = [phase EXCEPT ![r] = "failing"]
                  /\ queue' = Append(queue, RunMutation("failed", r))
                  /\ UNCHANGED pending
             ELSE /\ QueueTurn(b, wake, r)
                  /\ phase' = [phase EXCEPT ![r] = IF queue' = queue THEN @ ELSE "waiting"]
  BY DEF WakeNext
<1>b. UNCHANGED <<runnerVars, status, run, unread, exec, cancelReq, click, posts>>
  BY DEF WakeNext
<1>3. /\ \A i \in 1..Len(queue) : Caller(queue[i]) # r
      /\ \A p : Queued(queue, [phase EXCEPT ![r] = p], click)
      /\ queue \in Seq(Mutations) /\ phase \in [Runs -> Phases]
      /\ run[r] \in RunRecords
      /\ x \in RunStatuses \ {"none"}
  BY <1>1, Leaves DEF Waiting
<1>4. b \in Agents /\ todo' \in [Runs -> SUBSET Agents]
  BY <1>a, <1>2 DEF TypeOK
<1>5. wake \in Wakes
  BY <1>3, WakeTypes DEF RunRecords
<1> HIDE DEF wake, x
<1>6. \E p \in {"waking", "failing", "waiting"} :
          /\ phase' = [phase EXCEPT ![r] = p]
          /\ queue' \in Seq(Mutations)
          /\ Queued(queue', [phase EXCEPT ![r] = p], click)
          /\ \A s \in Runs : s # r /\ Cancels(queue, s) => Cancels(queue', s)
          /\ pending' \in [Agents -> Seq(Wakes)] /\ Coalesced'
  <2>0. /\ pending' = pending => pending' \in [Agents -> Seq(Wakes)] /\ Coalesced'
        /\ phase = [phase EXCEPT ![r] = "waking"]
    BY <1>a, <1>1, <1>3, Types DEF Coalesced
  <2>1. CASE Exhausted(run[r].trace)
    BY <1>2, <1>3, <2>0, <2>1
  <2>2. CASE ~Exhausted(run[r].trace) /\ status[b] = "gone"
    <3>1. /\ queue' \in Seq(Mutations)
          /\ Queued(queue', [phase EXCEPT ![r] = "failing"], click)
          /\ \A s : Cancels(queue, s) /\ s # r => Cancels(queue', s)
      <4>1. queue' = Append(queue, RunMutation("failed", r))
        BY <1>2, <2>2
      <4>2. /\ Append(queue, RunMutation("failed", r)) \in Seq(Mutations)
            /\ Queued(Append(queue, RunMutation("failed", r)), [phase EXCEPT ![r] = "failing"], click)
            /\ \A s : Cancels(queue, s) /\ s # r => Cancels(Append(queue, RunMutation("failed", r)), s)
        BY <1>a, <1>3, AsksEnd
      <4> QED BY <4>1, <4>2
    <3> QED BY <1>2, <2>0, <2>2, <3>1
  <2>3. CASE /\ ~Exhausted(run[r].trace) /\ status[b] # "gone"
             /\ status[b] = "busy" \/ exec[b] # 0
    <3>1. queue' = queue /\ pending' = [pending EXCEPT ![b] = Defer(@, wake)]
      BY <1>2, <2>3 DEF QueueTurn
    <3>2. phase' = [phase EXCEPT ![r] = "waking"]
      BY <1>1, <1>2, <1>3, <2>0, <2>3, <3>1
    <3>3. pending' \in [Agents -> Seq(Wakes)] /\ Coalesced'
      BY <1>a, <1>4, <1>5, <3>1, DeferredOf
    <3> QED BY <1>3, <3>1, <3>2, <3>3
  <2>4. CASE /\ ~Exhausted(run[r].trace) /\ status[b] # "gone"
             /\ ~(status[b] = "busy" \/ exec[b] # 0)
    <3>1. queue' = Append(queue, StartMutation(b, wake, r)) /\ pending' = pending
      BY <1>2, <2>4 DEF QueueTurn
    <3>2. queue' # queue
      BY <1>3, <1>4, <1>5, <3>1, AppendGrows, StartMutationFacts
    <3>3. phase' = [phase EXCEPT ![r] = "waiting"]
      BY <1>2, <2>4, <3>2
    <3>4. /\ queue' \in Seq(Mutations)
          /\ Queued(queue', [phase EXCEPT ![r] = "waiting"], click)
          /\ \A s : Cancels(queue, s) /\ s # r => Cancels(queue', s)
      BY <1>a, <1>3, <1>4, <1>5, <3>1, AsksStart
    <3> QED BY <2>0, <3>1, <3>3, <3>4
  <2> QED BY <2>1, <2>2, <2>3, <2>4
<1>7. PICK p \in {"waking", "failing", "waiting"} :
          /\ phase' = [phase EXCEPT ![r] = p]
          /\ queue' \in Seq(Mutations)
          /\ Queued(queue', [phase EXCEPT ![r] = p], click)
          /\ \A s \in Runs : s # r /\ Cancels(queue, s) => Cancels(queue', s)
          /\ pending' \in [Agents -> Seq(Wakes)] /\ Coalesced'
  BY <1>6
<1>8. /\ run' \in [Runs -> RunRecords]
      /\ \A s \in Runs : run'[s].agent = run[s].agent /\ run'[s].status = IF s = r THEN x ELSE run[s].status
      /\ run[r].status = "removed" => x = "removed"
  BY <1>a, <1>b, Types DEF x
<1>9. /\ status' \in [Agents -> Statuses] /\ unread' \in [Agents -> SUBSET Channels]
      /\ Answered({})
      /\ cancelReq' \subseteq Agents /\ click' \in ClickTypes
      /\ \A a \in Agents : status'[a] = "gone" => status[a] = "gone"
      /\ Queued(queue', [phase EXCEPT ![r] = p], click')
      /\ UNCHANGED <<runnerVars, posts>>
  BY <1>a, <1>b, <1>7, Types DEF Answered
<1>10. /\ p \in Phases \ {"none", "queued", "codex"}
       /\ p \in {"prepare", "replying"} => x \in {"running", "removed"}
       /\ ~Killed(r)
       /\ exec' = IF p = "done" THEN Forget(exec, r) ELSE exec
       /\ phase[r] \notin {"none", "done", "codex"}
       /\ {} \in SUBSET Clicks
  BY <1>b, <1>1 DEF Phases, Killed
<1> QED BY <1>3, <1>4, <1>7, <1>8, <1>9, <1>10, RunSteps

\* drainPendingWakes starts the oldest deferred wake, or the execution ends.
LEMMA DrainInv ==
    ASSUME IInv, NEW r \in Runs, Drain(r)
    PROVE  IInv'
<1> DEFINE a == run[r].agent
           x == run[r].status
           turn == pending[a] # <<>> /\ status[a] = "ready"
           p == IF turn THEN "draining" ELSE "done"
<1>a. TypeOK /\ Coalesced /\ Queued(queue, phase, click)
  BY DEF IInv
<1>1. /\ phase[r] \in {"settling", "waking"}
      /\ pending' = [pending EXCEPT ![a] = IF @ = <<>> THEN @ ELSE Tail(@)]
      /\ phase' = [phase EXCEPT ![r] = p]
      /\ turn => /\ queue' = Append(queue, StartMutation(a, Head(pending[a]), r))
                 /\ UNCHANGED <<exec, cancelReq, click>>
      /\ ~turn => exec' = Forget(exec, r) /\ Over(r, queue)
      /\ UNCHANGED <<runnerVars, status, run, unread, todo, posts>>
  BY DEF Drain, Settling
<1>2. /\ \A i \in 1..Len(queue) : Caller(queue[i]) # r
      /\ Queued(queue, [phase EXCEPT ![r] = p], click)
      /\ queue \in Seq(Mutations) /\ phase \in [Runs -> Phases]
      /\ a \in Agents
      /\ x \in RunStatuses \ {"none"}
  BY <1>1, Leaves DEF Waiting
<1>3. /\ pending' \in [Agents -> Seq(Wakes)] /\ Coalesced'
      /\ turn => Head(pending[a]) \in Wakes
  <2> DEFINE new == IF pending[a] = <<>> THEN pending[a] ELSE Tail(pending[a])
  <2>1. pending \in [Agents -> Seq(Wakes)] /\ pending[a] \in Seq(Wakes) /\ OncePerChannel(pending[a])
    BY <1>a, <1>2, Types, PendingAgrees
  <2>2. /\ new \in Seq(Wakes) /\ OncePerChannel(new)
        /\ turn => Head(pending[a]) \in Wakes
    BY <2>1, TakenOut
  <2>3. pending' = [pending EXCEPT ![a] = new]
    BY <1>1, <1>2, <2>1
  <2> HIDE DEF new
  <2> QED BY <1>a, <1>2, <2>1, <2>2, <2>3, PendingOf
<1> HIDE DEF x
<1>4. \E K \in SUBSET Clicks :
          /\ cancelReq' \subseteq Agents /\ click' \in ClickTypes
          /\ queue' \in Seq(Mutations)
          /\ Queued(queue', [phase EXCEPT ![r] = p], click')
          /\ \A s \in Runs : s # r /\ Cancels(queue, s) => Cancels(queue', s)
          /\ Answered(K)
  <2>1. cancelReq \subseteq Agents /\ click \in ClickTypes
    BY <1>a, Types
  <2>2. CASE turn
    <3>1. /\ queue' \in Seq(Mutations)
          /\ Queued(queue', [phase EXCEPT ![r] = "draining"], click)
          /\ \A s : Cancels(queue, s) /\ s # r => Cancels(queue', s)
      <4> DEFINE w == Head(pending[a])
      <4>1. queue' = Append(queue, StartMutation(a, w, r)) /\ w \in Wakes
        BY <1>1, <1>3, <2>2
      <4> HIDE DEF w, a
      <4>2. /\ Append(queue, StartMutation(a, w, r)) \in Seq(Mutations)
            /\ Queued(Append(queue, StartMutation(a, w, r)), [phase EXCEPT ![r] = "draining"], click)
            /\ \A s : Cancels(queue, s) /\ s # r => Cancels(Append(queue, StartMutation(a, w, r)), s)
        BY <1>a, <1>2, <4>1, AsksStart
      <4> QED BY <4>1, <4>2
    <3>2. Answered({}) /\ {} \in SUBSET Clicks
      BY <1>1, <2>2 DEF Answered
    <3> QED BY <1>1, <2>1, <2>2, <3>1, <3>2
  <2>3. CASE ~turn
    <3>1. Awaiting(r) \in SUBSET Clicks
      BY DEF Awaiting
    <3>2. /\ cancelReq' \subseteq Agents /\ click' \in ClickTypes
          /\ queue' \in Seq(Mutations)
          /\ Queued(queue', [phase EXCEPT ![r] = p], click')
          /\ \A s \in Runs : Cancels(queue, s) => Cancels(queue', s)
          /\ Answered(Awaiting(r))
      BY <1>1, <1>2, <2>1, <2>3, OverFacts
    <3> QED BY <3>1, <3>2
  <2> QED BY <2>2, <2>3
<1>5. /\ run' \in [Runs -> RunRecords]
      /\ \A s \in Runs : run'[s].agent = run[s].agent /\ run'[s].status = IF s = r THEN x ELSE run[s].status
      /\ run[r].status = "removed" => x = "removed"
  BY <1>a, <1>1, Types DEF x
<1>6. /\ status' \in [Agents -> Statuses] /\ unread' \in [Agents -> SUBSET Channels]
      /\ todo' \in [Runs -> SUBSET Agents]
      /\ \A b \in Agents : status'[b] = "gone" => status[b] = "gone"
      /\ UNCHANGED <<runnerVars, posts>>
  BY <1>a, <1>1, Types
<1>7. /\ p \in Phases \ {"none", "queued", "codex"}
      /\ p \in {"prepare", "replying"} => x \in {"running", "removed"}
      /\ Killed(r) => /\ p \in {"settling", "draining", "done"}
                      /\ x \in Active \cup {"cancelled", "removed"}
      /\ exec' = IF p = "done" THEN Forget(exec, r) ELSE exec
      /\ phase[r] \notin {"none", "done", "codex"} /\ phase' = [phase EXCEPT ![r] = p]
  BY <1>1 DEF Phases, Killed, x
<1> HIDE DEF p, turn, a
<1> QED BY <1>2, <1>3, <1>4, <1>5, <1>6, <1>7, RunSteps

-----------------------------------------------------------------------------
(* startRun's mutation. *)

\* A step in which no execution moves.
LEMMA NothingMoves ==
    ASSUME IInv, UNCHANGED <<runnerVars, status, run, phase, todo, exec>>,
           queue' \in Seq(Mutations), Queued(queue', phase, click'),
           \A s \in Runs : Cancels(queue, s) => Cancels(queue', s),
           cancelReq' \subseteq Agents, click' \in ClickTypes,
           NEW K \in SUBSET Clicks, Answered(K),
           unread' \in [Agents -> SUBSET Channels], posts' \in 0..MaxPosts,
           pending' \in [Agents -> Seq(Wakes)], Coalesced'
    PROVE  IInv'
<1>a. TypeOK /\ RunsFit /\ EntriesFit
  BY DEF IInv
<1>1. TypeOK'
  BY <1>a, Types, TypesNext DEF RunnerTypeOK, runnerVars
<1>2. \A s \in Runs : Proceeds(s)
  BY <1>a DEF Proceeds, RunsFit
<1>3. EntriesFollow
  BY <1>a, EntriesStay
<1>4. ASSUME NEW s \in Runs, Killed(s)
      PROVE  Killed(s)'
  BY <1>4, KilledStays DEF runnerVars
<1>5. /\ active' = active
      /\ \A r \in Runs : phase'[r] = "codex" <=> phase[r] = "codex"
      /\ \A a \in Agents : status'[a] = "gone" => status[a] = "gone"
      /\ Queued(queue', phase', click')
  BY DEF runnerVars
<1> QED BY <1>1, <1>2, <1>3, <1>4, <1>5, Step

\* Where a start is at the head of the queue.
LEMMA HeadOfStart ==
    ASSUME IInv, HeadIs("start"), NEW m, m = Head(queue), NEW t, t = Tail(queue)
    PROVE  /\ m.agent \in Agents /\ m.wake \in Wakes /\ m.by \in Runs \cup {0}
           /\ Caller(m) = m.by
           /\ m.by # 0 => /\ phase[m.by] \in {"waiting", "draining"}
                          /\ Drainer(m.by) <=> phase[m.by] = "draining"
                          /\ run[m.by].status \in RunStatuses \ {"none"}
                          /\ Killed(m.by) => /\ phase[m.by] = "draining"
                                             /\ run[m.by].status \in Active \cup {"cancelled", "removed"}
                          /\ \A p : Queued(t, [phase EXCEPT ![m.by] = p], click)
                          /\ \A i \in 1..Len(t) : Caller(t[i]) # m.by
           /\ m.by = 0 => ~Drainer(m.by)
           /\ t \in Seq(Mutations) /\ phase \in [Runs -> Phases]
           /\ Queued(t, phase, click)
           /\ \A s : Cancels(queue, s) => Cancels(t, s)
           /\ cancelReq \subseteq Agents /\ click \in ClickTypes
<1>1. TypeOK /\ Queued(queue, phase, click) /\ RunsFit /\ queue # <<>> /\ m.op = "start"
  BY DEF IInv, HeadIs
<1>2. /\ queue \in Seq(Mutations) /\ phase \in [Runs -> Phases] /\ run \in [Runs -> RunRecords]
      /\ cancelReq \subseteq Agents /\ click \in ClickTypes
  BY <1>1, Types
<1>3. /\ m \in Mutations
      /\ Fit(m, phase, click)
      /\ t \in Seq(Mutations)
      /\ Queued(t, phase, click)
      /\ \A s : Cancels(queue, s) => Cancels(t, s)
  BY <1>1, <1>2, Pop
<1>4. /\ m.agent \in Agents /\ m.wake \in Wakes /\ m.by \in Runs \cup {0}
      /\ Caller(m) = m.by
      /\ m.by # 0 => phase[m.by] \in {"waiting", "draining"}
  BY <1>1, <1>3, MutationFields DEF Fit, Caller
<1>5. ASSUME m.by # 0
      PROVE  /\ run[m.by].status \in RunStatuses \ {"none"}
             /\ Killed(m.by) => /\ phase[m.by] = "draining"
                                /\ run[m.by].status \in Active \cup {"cancelled", "removed"}
             /\ \A p : Queued(t, [phase EXCEPT ![m.by] = p], click)
             /\ \A i \in 1..Len(t) : Caller(t[i]) # m.by
  <2>1. m.by \in Runs /\ run[m.by] \in RunRecords /\ phase[m.by] \in {"waiting", "draining"}
    BY <1>2, <1>4, <1>5
  <2>2. run[m.by].status \in RunStatuses \ {"none"}
    BY <1>1, <2>1 DEF RunsFit, RunRecords, RunStatuses
  <2>3. /\ \A p : Queued(t, [phase EXCEPT ![m.by] = p], click)
        /\ \A i \in 1..Len(t) : Caller(t[i]) # m.by
    BY <1>1, <1>4, <2>1, Commits
  <2> QED BY <2>1, <2>2, <2>3 DEF Killed
<1> QED BY <1>2, <1>3, <1>4, <1>5 DEF Drainer

\* The run that asked for the start goes on, and keeps its record.
LEMMA CallerGoesOn ==
    ASSUME IInv, NEW r \in Runs, phase[r] \in {"waiting", "draining"},
           NEW p \in {"settling", "waking", "failing", "done"}, phase' = [phase EXCEPT ![r] = p],
           Killed(r) => p \in {"settling", "done"},
           UNCHANGED <<runnerVars, status, run, unread, todo, posts>>,
           exec' = IF p = "done" THEN Forget(exec, r) ELSE exec,
           queue' \in Seq(Mutations), Queued(queue', [phase EXCEPT ![r] = p], click'),
           \A s \in Runs : s # r /\ Cancels(queue, s) => Cancels(queue', s),
           cancelReq' \subseteq Agents, click' \in ClickTypes,
           NEW K \in SUBSET Clicks, Answered(K),
           pending' \in [Agents -> Seq(Wakes)], Coalesced'
    PROVE  IInv'
<1> DEFINE x == run[r].status
<1>1. TypeOK /\ RunsFit
  BY DEF IInv
<1>2. run \in [Runs -> RunRecords] /\ run[r] \in RunRecords
  BY <1>1, Types
<1>3. x \in RunStatuses \ {"none"}
  BY <1>1, <1>2 DEF RunsFit, RunRecords, RunStatuses
<1>4. /\ Killed(r) => /\ p \in {"settling", "draining", "done"}
                      /\ x \in Active \cup {"cancelled", "removed"}
      /\ p \in Phases \ {"none", "queued", "codex"}
      /\ p \in {"prepare", "replying"} => x \in {"running", "removed"}
      /\ phase[r] \notin {"none", "done", "codex"}
  BY DEF Killed, Phases
<1>5. /\ run' \in [Runs -> RunRecords]
      /\ \A s \in Runs : /\ run'[s].agent = run[s].agent
                         /\ run'[s].status = IF s = r THEN x ELSE run[s].status
      /\ run[r].status = "removed" => x = "removed"
  BY <1>2
<1>6. /\ status' \in [Agents -> Statuses] /\ unread' \in [Agents -> SUBSET Channels]
      /\ todo' \in [Runs -> SUBSET Agents]
      /\ \A a \in Agents : status'[a] = "gone" => status[a] = "gone"
      /\ UNCHANGED <<runnerVars, posts>>
  BY <1>1, Types
<1> HIDE DEF x
<1> QED BY <1>3, <1>4, <1>5, <1>6, RunSteps

\* startRun finds nothing new.
LEMMA StartPointlessInv ==
    ASSUME IInv, StartPointless
    PROVE  IInv'
<1> DEFINE m == Head(queue)
           r == m.by
           t == Tail(queue)
           p == IF Drainer(r) THEN "settling" ELSE "waking"
<1>a. TypeOK /\ Coalesced
  BY DEF IInv
<1>b. /\ HeadIs("start")
      /\ phase' = IF r = 0 THEN phase ELSE [phase EXCEPT ![r] = p]
      /\ queue' = t
      /\ UNCHANGED <<runnerVars, status, run, unread, todo, exec, pending, cancelReq, click, posts>>
  BY DEF StartPointless, After
<1>1. /\ r \in Runs \cup {0}
      /\ r # 0 => /\ phase[r] \in {"waiting", "draining"}
                  /\ Drainer(r) <=> phase[r] = "draining"
                  /\ Killed(r) => phase[r] = "draining"
                  /\ \A s : Queued(t, [phase EXCEPT ![r] = s], click)
      /\ t \in Seq(Mutations)
      /\ Queued(t, phase, click)
      /\ \A s : Cancels(queue, s) => Cancels(t, s)
      /\ cancelReq \subseteq Agents /\ click \in ClickTypes
  BY <1>b, HeadOfStart
<1> HIDE DEF m, r, t
<1>2. /\ pending' \in [Agents -> Seq(Wakes)] /\ Coalesced' /\ Answered({})
      /\ unread' \in [Agents -> SUBSET Channels] /\ posts' \in 0..MaxPosts
      /\ cancelReq' \subseteq Agents /\ click' \in ClickTypes
      /\ {} \in SUBSET Clicks
  BY <1>a, <1>b, Types DEF Coalesced, Answered
<1>3. CASE r = 0
  BY <1>b, <1>1, <1>2, <1>3, NothingMoves
<1>4. CASE r # 0
  <2>1. /\ r \in Runs /\ p \in {"settling", "waking", "failing", "done"}
        /\ phase' = [phase EXCEPT ![r] = p]
        /\ Killed(r) => p \in {"settling", "done"}
        /\ exec' = IF p = "done" THEN Forget(exec, r) ELSE exec
        /\ queue' \in Seq(Mutations) /\ Queued(queue', [phase EXCEPT ![r] = p], click')
        /\ \A s \in Runs : s # r /\ Cancels(queue, s) => Cancels(queue', s)
    BY <1>b, <1>1, <1>4
  <2>2. UNCHANGED <<runnerVars, status, run, unread, todo, posts>>
    BY <1>b
  <2> HIDE DEF p
  <2> QED BY <1>1, <1>2, <1>4, <2>1, <2>2, CallerGoesOn
<1> QED BY <1>3, <1>4

\* startRun finds the agent busy, stopped or closed.
LEMMA StartRefusedInv ==
    ASSUME IInv, StartRefused
    PROVE  IInv'
<1> DEFINE m == Head(queue)
           r == m.by
           t == Tail(queue)
<1>a. TypeOK /\ Coalesced
  BY DEF IInv
<1>b. /\ HeadIs("start")
      /\ Drainer(r) => /\ phase' = After(r, "done")
                       /\ exec' = Forget(exec, r)
                       /\ Over(r, t)
                       /\ pending' = pending
      /\ ~Drainer(r) => /\ phase' = After(r, "waking")
                        /\ pending' = [pending EXCEPT ![m.agent] = Defer(@, m.wake)]
                        /\ Resume({}, t)
                        /\ exec' = exec
      /\ UNCHANGED <<runnerVars, status, run, unread, todo, posts>>
  BY DEF StartRefused
<1>1. /\ m.agent \in Agents /\ m.wake \in Wakes /\ r \in Runs \cup {0}
      /\ r # 0 => /\ phase[r] \in {"waiting", "draining"}
                  /\ Drainer(r) <=> phase[r] = "draining"
                  /\ Killed(r) => phase[r] = "draining"
                  /\ \A s : Queued(t, [phase EXCEPT ![r] = s], click)
      /\ r = 0 => ~Drainer(r)
      /\ t \in Seq(Mutations)
      /\ Queued(t, phase, click)
      /\ \A s : Cancels(queue, s) => Cancels(t, s)
      /\ cancelReq \subseteq Agents /\ click \in ClickTypes
  BY <1>b, HeadOfStart
<1> HIDE DEF m, r, t
<1>2. pending' \in [Agents -> Seq(Wakes)] /\ Coalesced'
  <2>1. CASE Drainer(r)
    BY <1>a, <1>b, <2>1, Types DEF Coalesced
  <2>2. CASE ~Drainer(r)
    BY <1>a, <1>b, <1>1, <2>2, DeferredOf
  <2> QED BY <2>1, <2>2
<1>3. CASE r = 0
  <2>1. /\ cancelReq' \subseteq Agents /\ click' \in ClickTypes
        /\ queue' \in Seq(Mutations)
        /\ Queued(queue', phase, click')
        /\ \A s \in Runs : Cancels(t, s) => Cancels(queue', s)
        /\ Answered({}) /\ {} \in SUBSET Clicks
    BY <1>b, <1>1, <1>3, ResumeFacts
  <2>2. /\ UNCHANGED <<runnerVars, status, run, phase, todo, exec>>
        /\ unread' \in [Agents -> SUBSET Channels] /\ posts' \in 0..MaxPosts
    BY <1>a, <1>b, <1>1, <1>3, Types DEF After
  <2> QED BY <1>1, <1>2, <2>1, <2>2, NothingMoves
<1>4. CASE r # 0
  <2> DEFINE p == IF Drainer(r) THEN "done" ELSE "waking"
             K == IF Drainer(r) THEN Awaiting(r) ELSE {}
  <2>1. /\ r \in Runs /\ p \in {"settling", "waking", "failing", "done"}
        /\ phase' = [phase EXCEPT ![r] = p]
        /\ Killed(r) => p \in {"settling", "done"}
        /\ exec' = IF p = "done" THEN Forget(exec, r) ELSE exec
        /\ K \in SUBSET Clicks
    BY <1>b, <1>1, <1>4 DEF After, Awaiting
  <2>2. UNCHANGED <<runnerVars, status, run, unread, todo, posts>>
    BY <1>b
  <2>3. /\ cancelReq' \subseteq Agents /\ click' \in ClickTypes
        /\ queue' \in Seq(Mutations)
        /\ Queued(queue', [phase EXCEPT ![r] = p], click')
        /\ \A s \in Runs : Cancels(t, s) => Cancels(queue', s)
        /\ Answered(K)
    <3>1. CASE Drainer(r)
      BY <1>b, <1>1, <1>4, <3>1, OverFacts
    <3>2. CASE ~Drainer(r)
      BY <1>b, <1>1, <1>4, <3>2, ResumeFacts
    <3> QED BY <3>1, <3>2
  <2>4. \A s \in Runs : s # r /\ Cancels(queue, s) => Cancels(queue', s)
    BY <1>1, <2>3
  <2> HIDE DEF p, K
  <2> QED BY <1>1, <1>2, <1>4, <2>1, <2>2, <2>3, <2>4, CallerGoesOn
<1> QED BY <1>3, <1>4

\* startRun finds no agent, or is not written.
LEMMA StartMissingInv ==
    ASSUME IInv, StartMissing
    PROVE  IInv'
<1> DEFINE m == Head(queue)
           r == m.by
           t == Tail(queue)
           q == IF r = 0 THEN t ELSE Append(t, RunMutation("failed", r))
<1>a. TypeOK /\ Coalesced
  BY DEF IInv
<1>b. /\ HeadIs("start")
      /\ Drainer(r) => /\ phase' = After(r, "done")
                       /\ exec' = Forget(exec, r)
                       /\ Over(r, t)
      /\ ~Drainer(r) => /\ phase' = After(r, "failing")
                        /\ Resume({}, q)
                        /\ exec' = exec
      /\ UNCHANGED <<runnerVars, status, run, unread, todo, pending, posts>>
  BY DEF StartMissing
<1>1. /\ r \in Runs \cup {0}
      /\ r # 0 => /\ phase[r] \in {"waiting", "draining"}
                  /\ Drainer(r) <=> phase[r] = "draining"
                  /\ Killed(r) => phase[r] = "draining"
                  /\ \A s : Queued(t, [phase EXCEPT ![r] = s], click)
                  /\ \A i \in 1..Len(t) : Caller(t[i]) # r
      /\ r = 0 => ~Drainer(r)
      /\ t \in Seq(Mutations) /\ phase \in [Runs -> Phases]
      /\ Queued(t, phase, click)
      /\ \A s : Cancels(queue, s) => Cancels(t, s)
      /\ cancelReq \subseteq Agents /\ click \in ClickTypes
  BY <1>b, HeadOfStart
<1> HIDE DEF m, r, t
<1>2. pending' \in [Agents -> Seq(Wakes)] /\ Coalesced'
  BY <1>a, <1>b, Types DEF Coalesced
<1>3. CASE r = 0
  <2>0. Resume({}, t)
    BY <1>b, <1>1, <1>3
  <2>1. /\ cancelReq' \subseteq Agents /\ click' \in ClickTypes
        /\ queue' \in Seq(Mutations)
        /\ Queued(queue', phase, click')
        /\ \A s \in Runs : Cancels(t, s) => Cancels(queue', s)
        /\ Answered({}) /\ {} \in SUBSET Clicks
    BY <1>1, <2>0, ResumeFacts
  <2>2. /\ UNCHANGED <<runnerVars, status, run, phase, todo, exec>>
        /\ unread' \in [Agents -> SUBSET Channels] /\ posts' \in 0..MaxPosts
    BY <1>a, <1>b, <1>1, <1>3, Types DEF After
  <2> QED BY <1>1, <1>2, <2>1, <2>2, NothingMoves
<1>4. CASE r # 0
  <2> DEFINE p == IF Drainer(r) THEN "done" ELSE "failing"
             K == IF Drainer(r) THEN Awaiting(r) ELSE {}
  <2>1. /\ r \in Runs /\ p \in {"settling", "waking", "failing", "done"}
        /\ phase' = [phase EXCEPT ![r] = p]
        /\ Killed(r) => p \in {"settling", "done"}
        /\ exec' = IF p = "done" THEN Forget(exec, r) ELSE exec
        /\ K \in SUBSET Clicks
    BY <1>b, <1>1, <1>4 DEF After, Awaiting
  <2>2. UNCHANGED <<runnerVars, status, run, unread, todo, posts>>
    BY <1>b
  <2>3. /\ cancelReq' \subseteq Agents /\ click' \in ClickTypes
        /\ queue' \in Seq(Mutations)
        /\ Queued(queue', [phase EXCEPT ![r] = p], click')
        /\ \A s \in Runs : s # r /\ Cancels(t, s) => Cancels(queue', s)
        /\ Answered(K)
    <3>1. CASE Drainer(r)
      BY <1>b, <1>1, <1>4, <3>1, OverFacts
    <3>2. CASE ~Drainer(r)
      <4> DEFINE f == "failing"
                 u == Append(t, RunMutation("failed", r))
      <4>1. /\ u \in Seq(Mutations)
            /\ Queued(u, [phase EXCEPT ![r] = f], click)
            /\ \A s : Cancels(t, s) /\ s # r => Cancels(u, s)
        BY <1>1, <1>4, <2>1, AsksEnd
      <4>2. Resume({}, u) /\ {} \in SUBSET Clicks /\ \A k \in {} : click[k].phase \in {"killing", "awaiting"}
        BY <1>b, <1>4, <3>2
      <4> HIDE DEF f, u
      <4>3. /\ cancelReq' \subseteq Agents /\ click' \in ClickTypes
            /\ queue' \in Seq(Mutations)
            /\ Queued(queue', [phase EXCEPT ![r] = f], click')
            /\ \A s \in Runs : Cancels(u, s) => Cancels(queue', s)
            /\ Answered({})
        BY <1>1, <4>1, <4>2, ResumeFacts
      <4> QED BY <3>2, <4>1, <4>3 DEF f
    <3> QED BY <3>1, <3>2
  <2>4. \A s \in Runs : s # r /\ Cancels(queue, s) => Cancels(queue', s)
    BY <1>1, <2>3
  <2> HIDE DEF p, K
  <2> QED BY <1>1, <1>2, <1>4, <2>1, <2>2, <2>3, <2>4, CallerGoesOn
<1> QED BY <1>3, <1>4

-----------------------------------------------------------------------------
(* The human's requests and the messages. *)

\* Request k goes on to phase p.
PutTo(cl, k, p) == [cl EXCEPT ![k].phase = p]

\* What that changes of the requests.
LEMMA Clickable ==
    ASSUME NEW cl \in ClickTypes, NEW k \in Clicks, NEW p \in ClickPhases,
           NEW new, new = PutTo(cl, k, p)
    PROVE  /\ new \in ClickTypes
           /\ new[k].phase = p
           /\ new[k].op = cl[k].op
           /\ new[k].agent = cl[k].agent
           /\ new[k].run = cl[k].run
           /\ new[k].killed = cl[k].killed
           /\ \A l \in Clicks : l # k => new[l] = cl[l]
<1>1. /\ new[k] = [cl[k] EXCEPT !.phase = p]
      /\ \A l \in Clicks : l # k => new[l] = cl[l]
      /\ DOMAIN new = Clicks /\ new = [l \in Clicks |-> new[l]]
      /\ \A l \in Clicks : cl[l] \in Requests
  BY DEF ClickTypes, PutTo
<1>2. /\ new[k] \in Requests
      /\ new[k].phase = p /\ new[k].op = cl[k].op /\ new[k].agent = cl[k].agent
      /\ new[k].run = cl[k].run /\ new[k].killed = cl[k].killed
  BY <1>1, GoesOn
<1>3. new \in ClickTypes
  BY <1>1, <1>2 DEF ClickTypes
<1> QED BY <1>1, <1>2, <1>3

\* Request k's own mutation commits or fails: it is done.
Answers(k) == click' = [click EXCEPT ![k].phase = "done"]

\* A request's mutation is at the head of the queue.
LEMMA HeadOfClick ==
    ASSUME IInv, HeadIs("click"), NEW k, k = Head(queue).click, NEW t, t = Tail(queue),
           Answers(k)
    PROVE  /\ k \in Clicks
           /\ click[k].phase = "writing" /\ click[k].op \in Ops /\ click[k].agent \in Agents
           /\ click' \in ClickTypes
           /\ Answered({k})
           /\ t \in Seq(Mutations)
           /\ Queued(t, phase, click')
           /\ \A s : Cancels(queue, s) => Cancels(t, s)
           /\ click'[k].phase = "done"
<1>1. /\ TypeOK /\ Queued(queue, phase, click) /\ ClicksFit
      /\ queue # <<>> /\ Head(queue).op = "click"
  BY DEF IInv, HeadIs
<1>2. queue \in Seq(Mutations) /\ click \in ClickTypes
  BY <1>1, Types
<1>3. /\ Head(queue) \in Mutations
      /\ Fit(Head(queue), phase, click)
      /\ t \in Seq(Mutations)
      /\ Queued(t, phase, click)
      /\ \A i \in 1..Len(t) : ~Same(t[i], Head(queue))
      /\ \A s : Cancels(queue, s) => Cancels(t, s)
  BY <1>1, <1>2, Pop
<1>4. k \in Clicks /\ click[k].phase = "writing"
  BY <1>1, <1>3, MutationFields DEF Fit
<1>5. click[k].op \in Ops /\ click[k].agent \in Agents
  BY <1>1, <1>2, <1>4 DEF ClicksFit, ClickTypes, Requests
<1>6. /\ click' \in ClickTypes
      /\ click'[k].phase = "done"
      /\ click'[k].op = click[k].op
      /\ click'[k].agent = click[k].agent
      /\ click'[k].run = click[k].run
      /\ click'[k].killed = click[k].killed
      /\ \A l \in Clicks : l # k => click'[l] = click[l]
  <2>1. "done" \in ClickPhases
    BY DEF ClickPhases
  <2>2. click' = PutTo(click, k, "done")
    BY DEF Answers, PutTo
  <2> QED BY <1>2, <1>4, <2>1, <2>2, Clickable
<1>7. Answered({k})
  BY <1>4, <1>6 DEF Answered
<1>8. Queued(t, phase, click')
  <2>1. \A i \in 1..Len(t) : t[i].op = "click" => t[i].click \in Clicks /\ t[i].click # k
    BY <1>1, <1>3, ElementOfSeq, MutationFields DEF Same
  <2>2. \A i \in 1..Len(t) : t[i].op = "click" => click'[t[i].click].phase = click[t[i].click].phase
    BY <1>6, <2>1
  <2>3. Queued(t, phase, click) /\ t \in Seq(Mutations)
    BY <1>3
  <2> QED BY <2>2, <2>3, Keep
<1> QED BY <1>3, <1>4, <1>5, <1>6, <1>7, <1>8

\* The request's mutation fails.
LEMMA ClickFailsInv ==
    ASSUME IInv, ClickFails
    PROVE  IInv'
<1> DEFINE k == Head(queue).click
           t == Tail(queue)
<1>b. /\ HeadIs("click")
      /\ click' = [click EXCEPT ![k].phase = "done"]
      /\ queue' = t
      /\ UNCHANGED <<runnerVars, status, run, unread, phase, todo, exec, pending, cancelReq, posts>>
  BY DEF ClickFails
<1>a. TypeOK /\ Coalesced
  BY DEF IInv
<1>1. /\ k \in Clicks
      /\ click' \in ClickTypes
      /\ Answered({k})
      /\ t \in Seq(Mutations)
      /\ Queued(t, phase, click')
      /\ \A s : Cancels(queue, s) => Cancels(t, s)
  BY <1>b, HeadOfClick DEF Answers
<1> HIDE DEF k, t
<1>2. /\ pending' \in [Agents -> Seq(Wakes)] /\ Coalesced'
      /\ unread' \in [Agents -> SUBSET Channels] /\ posts' \in 0..MaxPosts
      /\ cancelReq' \subseteq Agents
      /\ UNCHANGED <<runnerVars, status, run, phase, todo, exec>>
      /\ {k} \in SUBSET Clicks
  BY <1>a, <1>b, <1>1, Types DEF Coalesced
<1> QED BY <1>b, <1>1, <1>2, NothingMoves

\* "gone" is only ever set by a deletion.
LEMMA NewStatusFacts ==
    ASSUME NEW old \in Statuses, NEW op \in {"start", "stop", "close", "delete"}
    PROVE  /\ NewStatus(old, op) \in Statuses
           /\ NewStatus(old, op) = "gone" <=> op = "delete" \/ old = "gone"
           /\ NewStatus(old, op) = "busy" => old = "busy"
           /\ old = "gone" => NewStatus(old, op) = "gone"
<1>1. CASE op = "delete"
  BY <1>1 DEF NewStatus, Statuses
<1>2. CASE op = "close"
  BY <1>2 DEF NewStatus, Statuses
<1>3. CASE op = "stop"
  BY <1>3 DEF NewStatus, Statuses
<1>4. CASE op = "start"
  BY <1>4 DEF NewStatus, Statuses
<1> QED BY <1>1, <1>2, <1>3, <1>4

\* The request's mutation commits.
LEMMA CommitClickInv ==
    ASSUME IInv, CommitClick
    PROVE  IInv'
<1> DEFINE k == Head(queue).click
           t == Tail(queue)
           a == click[k].agent
           op == click[k].op
<1>b. /\ HeadIs("click")
      /\ status' = [status EXCEPT ![a] = NewStatus(status[a], op)]
      /\ run' = [r \in Runs |->
            IF op = "delete" /\ run[r].agent = a /\ run[r].status # "none"
            THEN [run[r] EXCEPT !.status = "removed"]
            ELSE run[r]]
      /\ click' = [click EXCEPT ![k].phase = "done"]
      /\ queue' = t
      /\ UNCHANGED <<runnerVars, unread, phase, todo, exec, pending, cancelReq, posts>>
  <2>1. HeadIs("click") /\ status \in [Agents -> Statuses]
    BY DEF CommitClick, IInv, TypeOK
  <2>2. status' = [status EXCEPT ![a] = NewStatus(@, op)]
    BY DEF CommitClick
  <2> QED BY <2>1, <2>2 DEF CommitClick
<1>a. /\ TypeOK /\ Coalesced /\ RunsFit /\ Numbered /\ EntriesFit /\ Replaced /\ RunnerFits
      /\ Deleted /\ ClicksFit
  BY DEF IInv
<1>1. /\ k \in Clicks
      /\ op \in Ops /\ a \in Agents
      /\ click' \in ClickTypes
      /\ Answered({k})
      /\ t \in Seq(Mutations)
      /\ Queued(t, phase, click')
      /\ \A s : Cancels(queue, s) => Cancels(t, s)
  BY <1>b, HeadOfClick DEF Answers
<1> HIDE DEF k, t, a, op
<1>2. /\ status' \in [Agents -> Statuses]
      /\ \A b \in Agents : status'[b] = "gone" <=> status[b] = "gone" \/ (b = a /\ op = "delete")
  <2>1. status \in [Agents -> Statuses] /\ op \in {"start", "stop", "close", "delete"}
    BY <1>a, <1>1, SchedulerAssumption DEF TypeOK
  <2>2. /\ NewStatus(status[a], op) \in Statuses
        /\ NewStatus(status[a], op) = "gone" <=> op = "delete" \/ status[a] = "gone"
    BY <1>1, <2>1, NewStatusFacts
  <2> QED BY <1>b, <1>1, <2>1, <2>2
<1>3. ASSUME NEW r \in Runs
      PROVE  /\ run'[r] \in RunRecords
             /\ run'[r].agent = run[r].agent
             /\ run'[r].status = IF op = "delete" /\ run[r].agent = a /\ run[r].status # "none"
                                 THEN "removed" ELSE run[r].status
  <2>1. run[r] \in RunRecords
    BY <1>a, Types
  <2>2. /\ [run[r] EXCEPT !.status = "removed"] \in RunRecords
        /\ [run[r] EXCEPT !.status = "removed"].agent = run[r].agent
        /\ [run[r] EXCEPT !.status = "removed"].status = "removed"
    BY <2>1 DEF RunRecords
  <2> QED BY <1>b, <2>1, <2>2
<1>4. run' \in [Runs -> RunRecords]
  <2>1. DOMAIN run' = Runs /\ run' = [r \in Runs |-> run'[r]]
    BY <1>b
  <2> QED BY <1>3, <2>1
<1>5. TypeOK'
  BY <1>a, <1>b, <1>1, <1>2, <1>4, Types, TypesNext DEF RunnerTypeOK, runnerVars
<1>6. \A r \in Runs : Proceeds(r)
  BY <1>a, <1>b, <1>3 DEF Proceeds, RunsFit
<1>7. EntriesFollow
  BY <1>a, <1>b, EntriesStay
<1>8. RunsFit' /\ Numbered' /\ EntriesFit' /\ Replaced'
  BY <1>a, <1>6, <1>7, ProceedFits
<1>9. RunnerFits'
  BY <1>a, <1>b, <1>3, RunnerStays DEF runnerVars
<1>10. Deleted'
  <2>1. \A r \in Runs : run[r].agent \in Agents
    BY <1>a DEF TypeOK
  <2> QED BY <1>a, <1>2, <1>3, <2>1 DEF Deleted
<1>11. ASSUME NEW s \in Runs, Killed(s)
       PROVE  Killed(s)'
  <2>1. /\ phase'[s] = phase[s] /\ flags' = flags /\ run'[s].agent = run[s].agent
        /\ run'[s].status \in {run[s].status, "removed"}
        /\ Cancels(queue, s) => Cancels(queue', s)
    BY <1>b, <1>1, <1>3 DEF runnerVars
  <2> QED BY <1>11, <2>1, KilledStays
<1>12. ClicksFit'
  <2>1. \A r \in Runs : run'[r].status = "none" <=> run[r].status = "none"
    BY <1>3
  <2>2. {k} \in SUBSET Clicks
    BY <1>1
  <2> QED BY <1>a, <1>1, <1>11, <2>1, <2>2, ClicksStay
<1>13. Coalesced' /\ Queued(queue, phase, click)'
  BY <1>a, <1>b, <1>1 DEF Coalesced
<1> QED BY <1>5, <1>8, <1>9, <1>10, <1>12, <1>13 DEF IInv

\* Request k queues its mutation.
LEMMA AsksClick ==
    ASSUME NEW q \in Seq(Mutations), NEW ph, NEW cl, Queued(q, ph, cl), NEW cl2,
           NEW k \in Clicks, cl[k].phase # "writing", cl2[k].phase = "writing",
           \A l \in Clicks : l # k => cl2[l] = cl[l]
    PROVE  /\ Append(q, ClickMutation(k)) \in Seq(Mutations)
           /\ Queued(Append(q, ClickMutation(k)), ph, cl2)
           /\ \A s \in Runs : Cancels(q, s) => Cancels(Append(q, ClickMutation(k)), s)
<1> DEFINE m == ClickMutation(k)
<1>1. m \in Mutations /\ m.op = "click" /\ m.click = k /\ Caller(m) = 0
  BY MutationTypes
<1> HIDE DEF m
<1>2. Fit(m, ph, cl2)
  BY <1>1 DEF Fit
<1>3. \A i \in 1..Len(q) : q[i].op = "click" => q[i].click \in Clicks /\ q[i].click # k
  BY Absent, ElementOfSeq, MutationFields
<1>4. Queued(q, ph, cl2)
  <2>1. \A i \in 1..Len(q) : q[i].op = "click" => cl2[q[i].click].phase = cl[q[i].click].phase
    BY <1>3
  <2> QED BY <2>1, Keep
<1>5. \A i \in 1..Len(q) : ~Same(q[i], m)
  BY <1>1, <1>3 DEF Same
<1>6. /\ Append(q, m) \in Seq(Mutations)
      /\ Queued(Append(q, m), ph, cl2)
      /\ \A r : Cancels(q, r) /\ (Caller(m) # r \/ m.op = "cancelled") => Cancels(Append(q, m), r)
  BY <1>1, <1>2, <1>4, <1>5, Push
<1> QED BY <1>1, <1>6, RunsArePositive DEF m

\* deleteAgent has moved the workspace.
LEMMA ArchiveInv ==
    ASSUME IInv, NEW k \in Clicks, Archive(k)
    PROVE  IInv'
<1>b. /\ click[k].phase = "archiving"
      /\ click' = [click EXCEPT ![k].phase = "writing"]
      /\ queue' = Append(queue, ClickMutation(k))
      /\ UNCHANGED <<runnerVars, status, run, unread, phase, todo, exec, pending, cancelReq, posts>>
  BY DEF Archive
<1>a. TypeOK /\ Coalesced /\ Queued(queue, phase, click) /\ queue \in Seq(Mutations) /\ click \in ClickTypes
  BY Types DEF IInv
<1>1. /\ click' \in ClickTypes
      /\ click'[k].phase = "writing"
      /\ click'[k].op = click[k].op
      /\ click'[k].agent = click[k].agent
      /\ click'[k].run = click[k].run
      /\ click'[k].killed = click[k].killed
      /\ \A l \in Clicks : l # k => click'[l] = click[l]
  <2>1. "writing" \in ClickPhases
    BY DEF ClickPhases
  <2>2. click' = PutTo(click, k, "writing")
    BY <1>b DEF PutTo
  <2> QED BY <1>a, <2>1, <2>2, Clickable
<1>2. /\ queue' \in Seq(Mutations)
      /\ Queued(queue', phase, click')
      /\ \A s \in Runs : Cancels(queue, s) => Cancels(queue', s)
  BY <1>a, <1>b, <1>1, AsksClick
<1>3. Answered({k}) /\ {k} \in SUBSET Clicks
  BY <1>b, <1>1 DEF Answered
<1>4. /\ pending' \in [Agents -> Seq(Wakes)] /\ Coalesced'
      /\ unread' \in [Agents -> SUBSET Channels] /\ posts' \in 0..MaxPosts
      /\ cancelReq' \subseteq Agents
      /\ UNCHANGED <<runnerVars, status, run, phase, todo, exec>>
  BY <1>a, <1>b, Types DEF Coalesced
<1> QED BY <1>1, <1>2, <1>3, <1>4, NothingMoves

\* The human posts a message.
LEMMA PostInv ==
    ASSUME IInv, NEW a \in Agents, NEW c \in Channels, Post(a, c)
    PROVE  IInv'
<1> DEFINE w == Wake(c, posts + 1, FALSE)
<1>b. /\ posts < MaxPosts
      /\ posts' = posts + 1
      /\ unread' = [b \in Agents |-> unread[b] \cup {c}]
      /\ QueueTurn(a, w, 0)
      /\ UNCHANGED <<runnerVars, status, run, phase, todo, exec, cancelReq, click>>
  BY DEF Post
<1>a. TypeOK /\ Coalesced /\ Queued(queue, phase, click) /\ queue \in Seq(Mutations)
  BY Types DEF IInv
<1>1. w \in Wakes /\ posts' \in 0..MaxPosts
  <2>1. posts \in Nat /\ MaxPosts \in Nat /\ posts + 1 \in Traces /\ posts' \in 0..MaxPosts
    BY <1>a, <1>b, SchedulerAssumption DEF TypeOK, Traces
  <2> QED BY <2>1, WakeTypes
<1> HIDE DEF w
<1>2. /\ queue' \in Seq(Mutations)
      /\ Queued(queue', phase, click)
      /\ \A s \in Runs : Cancels(queue, s) => Cancels(queue', s)
      /\ pending' \in [Agents -> Seq(Wakes)] /\ Coalesced'
  <2>1. CASE status[a] = "busy" \/ exec[a] # 0
    <3>1. queue' = queue /\ pending' = [pending EXCEPT ![a] = Defer(@, w)]
      BY <1>b, <2>1 DEF QueueTurn
    <3>2. pending' \in [Agents -> Seq(Wakes)] /\ Coalesced'
      BY <1>a, <1>1, <3>1, DeferredOf
    <3> QED BY <1>a, <3>1, <3>2
  <2>2. CASE ~(status[a] = "busy" \/ exec[a] # 0)
    <3> DEFINE m == StartMutation(a, w, 0)
    <3>1. queue' = Append(queue, m) /\ pending' = pending
      BY <1>b, <2>2 DEF QueueTurn
    <3>2. m \in Mutations /\ m.op = "start" /\ m.by = 0 /\ Caller(m) = 0
      BY <1>1, StartMutationFacts
    <3> HIDE DEF m
    <3>3. Fit(m, phase, click) /\ \A i \in 1..Len(queue) : ~Same(queue[i], m)
      BY <3>2 DEF Fit, Same
    <3>4. /\ Append(queue, m) \in Seq(Mutations)
          /\ Queued(Append(queue, m), phase, click)
          /\ \A r : Cancels(queue, r) /\ (Caller(m) # r \/ m.op = "cancelled") => Cancels(Append(queue, m), r)
      BY <1>a, <3>2, <3>3, Push
    <3>5. pending' \in [Agents -> Seq(Wakes)] /\ Coalesced'
      BY <1>a, <3>1, Types DEF Coalesced
    <3> QED BY <3>1, <3>2, <3>4, <3>5, RunsArePositive
  <2> QED BY <2>1, <2>2
<1>3. unread' \in [Agents -> SUBSET Channels]
  BY <1>a, <1>b DEF TypeOK
<1>4. /\ cancelReq' \subseteq Agents /\ click' \in ClickTypes /\ Answered({}) /\ {} \in SUBSET Clicks
      /\ UNCHANGED <<runnerVars, status, run, phase, todo, exec>>
      /\ Queued(queue', phase, click')
  BY <1>a, <1>b, <1>2, Types DEF Answered
<1> QED BY <1>1, <1>2, <1>3, <1>4, NothingMoves

\* Request k is made of the agent, and rec says how far it got.
Made(k, rec) == click' = [click EXCEPT ![k] = rec]

\* What a new request may change.
LEMMA Clicked ==
    ASSUME IInv, NEW k \in Clicks, click[k].phase = "idle",
           NEW rec \in Requests, Made(k, rec),
           rec.op \in Ops, rec.run # 0 => run[rec.run].status # "none",
           rec.killed # 0 => Killed(rec.killed)',
           RunnerTypeOK(Runs)', active' = active,
           \A a \in Agents : flags[a] \subseteq flags'[a],
           UNCHANGED <<status, run, unread, phase, todo, exec, posts>>,
           queue' \in Seq(Mutations), Queued(queue', phase, click'),
           \A s \in Runs : Cancels(queue, s) => Cancels(queue', s),
           cancelReq' \subseteq Agents,
           pending' \in [Agents -> Seq(Wakes)], Coalesced'
    PROVE  IInv'
<1>a. /\ TypeOK /\ RunsFit /\ Numbered /\ EntriesFit /\ Replaced /\ RunnerFits /\ Deleted /\ ClicksFit
      /\ click \in ClickTypes
  BY Types DEF IInv
<1>1. /\ click' \in ClickTypes
      /\ click'[k] = rec
      /\ \A l \in Clicks : l # k => click'[l] = click[l]
  BY <1>a DEF Made, ClickTypes
<1>2. TypeOK'
  BY <1>a, <1>1, Types, TypesNext
<1>3. \A s \in Runs : Proceeds(s)
  BY <1>a DEF Proceeds, RunsFit
<1>4. EntriesFollow
  BY <1>a, EntriesStay
<1>5. RunsFit' /\ Numbered' /\ EntriesFit' /\ Replaced'
  BY <1>a, <1>3, <1>4, ProceedFits
<1>6. RunnerFits'
  BY <1>a, RunnerStays
<1>7. Deleted'
  BY <1>a, <1>3, DeletedStays
<1>8. ASSUME NEW s \in Runs, Killed(s)
      PROVE  Killed(s)'
  <2>1. run[s].agent \in Agents
    BY <1>a DEF TypeOK
  <2> QED BY <1>8, <2>1, KilledStays
<1>9. ClicksFit'
  <2>1. ASSUME NEW l \in Clicks
        PROVE  /\ click'[l].phase # "idle" => click'[l].op \in Ops
               /\ click'[l].run # 0 => run'[click'[l].run].status # "none"
    BY <1>a, <1>1 DEF ClicksFit
  <2>2. ASSUME NEW l \in Clicks, NEW s \in Runs, click'[l].killed = s
        PROVE  Killed(s)'
    <3>1. s # 0
      BY RunsArePositive
    <3>2. CASE l = k
      <4>1. rec.killed = s
        BY <1>1, <2>2, <3>2
      <4> QED BY <3>1, <4>1 DEF Killed, Cancels
    <3>3. CASE l # k
      BY <1>a, <1>1, <1>8, <2>2, <3>1, <3>3 DEF ClicksFit
    <3> QED BY <3>2, <3>3
  <2>3. \A l \in Clicks : click'[l].killed \in Runs \cup {0}
    BY <1>1 DEF ClickTypes, Requests
  <2> QED BY <2>1, <2>2, <2>3 DEF ClicksFit, Killed, Cancels
<1>10. Queued(queue, phase, click)'
  OBVIOUS
<1> QED BY <1>2, <1>5, <1>6, <1>7, <1>9, <1>10 DEF IInv

\* What a request that does not reach its mutation leaves of the queue.
LEMMA QueueStays ==
    ASSUME NEW k \in Clicks, click \in ClickTypes, queue \in Seq(Mutations),
           Queued(queue, phase, click), click[k].phase = "idle", NEW rec, Made(k, rec)
    PROVE  Queued(queue, phase, click')
<1>1. \A i \in 1..Len(queue) : queue[i].op = "click" => queue[i].click \in Clicks /\ queue[i].click # k
  BY Absent, ElementOfSeq, MutationFields
<1>2. \A l \in Clicks : l # k => click'[l] = click[l]
  BY DEF Made, ClickTypes
<1>3. \A i \in 1..Len(queue) : queue[i].op = "click" =>
         click'[queue[i].click].phase = click[queue[i].click].phase
  BY <1>1, <1>2
<1> QED BY <1>3, Keep

\* A request arrives.
LEMMA ClickInv ==
    ASSUME IInv, NEW k \in Clicks, NEW a \in Agents, NEW op \in Ops, Click(k, a, op)
    PROVE  IInv'
<1> DEFINE Rec(p, r, kd) == [phase |-> p, op |-> op, agent |-> a, run |-> r, killed |-> kd]
<1>a. /\ TypeOK /\ Coalesced /\ Queued(queue, phase, click) /\ EntriesFit /\ RunsFit /\ RunnerFits
      /\ queue \in Seq(Mutations) /\ click \in ClickTypes /\ RunnerTypeOK(Runs)
      /\ pending \in [Agents -> Seq(Wakes)] /\ cancelReq \subseteq Agents
  BY Types DEF IInv
<1>b. /\ click[k].phase = "idle"
      /\ UNCHANGED <<status, run, unread, phase, todo, exec, posts>>
  BY DEF Click
<1>1. ASSUME NEW p \in ClickPhases, NEW r \in Runs \cup {0}, NEW kd \in Runs \cup {0}
      PROVE  /\ Rec(p, r, kd) \in Requests
             /\ Rec(p, r, kd).op \in Ops /\ Rec(p, r, kd).phase = p
             /\ Rec(p, r, kd).run = r /\ Rec(p, r, kd).killed = kd
  BY <1>1 DEF Requests
<1>2. /\ {"killing", "awaiting", "archiving", "writing"} \subseteq ClickPhases
      /\ 0 \in Runs \cup {0}
  BY DEF ClickPhases
<1>3. /\ RunnerTypeOK(Runs) /\ UNCHANGED runnerVars => RunnerTypeOK(Runs)'
      /\ UNCHANGED runnerVars => active' = active /\ \A b \in Agents : flags[b] \subseteq flags'[b]
  BY DEF RunnerTypeOK, runnerVars
<1> HIDE DEF Rec
\* The mutation is queued at once.
<1>4. ASSUME Made(k, Rec("writing", 0, 0)), queue' = Append(queue, ClickMutation(k)),
             UNCHANGED runnerVars, cancelReq' \subseteq Agents,
             pending' \in [Agents -> Seq(Wakes)], Coalesced'
      PROVE  IInv'
  <2> DEFINE rec == Rec("writing", 0, 0)
  <2>1. rec \in Requests /\ rec.op \in Ops /\ rec.phase = "writing" /\ rec.run = 0 /\ rec.killed = 0
    BY <1>1, <1>2
  <2> HIDE DEF rec
  <2>2. Made(k, rec)
    BY <1>4 DEF rec
  <2>3. click'[k] = rec /\ \A l \in Clicks : l # k => click'[l] = click[l]
    BY <1>a, <2>2 DEF Made, ClickTypes
  <2>4. /\ queue' \in Seq(Mutations)
        /\ Queued(queue', phase, click')
        /\ \A s \in Runs : Cancels(queue, s) => Cancels(queue', s)
    <3>1. click[k].phase # "writing" /\ click'[k].phase = "writing"
      BY <1>b, <2>1, <2>3
    <3>2. /\ Append(queue, ClickMutation(k)) \in Seq(Mutations)
          /\ Queued(Append(queue, ClickMutation(k)), phase, click')
          /\ \A s \in Runs : Cancels(queue, s) => Cancels(Append(queue, ClickMutation(k)), s)
      BY <1>a, <2>3, <3>1, AsksClick
    <3> QED BY <1>4, <3>2
  <2> QED BY <1>a, <1>b, <1>3, <1>4, <2>1, <2>2, <2>4, Clicked
\* The request waits for something else.
<1>5. ASSUME NEW p \in ClickPhases, NEW r \in Runs \cup {0}, NEW kd \in Runs \cup {0},
             Made(k, Rec(p, r, kd)), queue' = queue,
             r # 0 => run[r].status # "none", kd # 0 => Killed(kd)',
             RunnerTypeOK(Runs)', active' = active,
             \A b \in Agents : flags[b] \subseteq flags'[b],
             cancelReq' \subseteq Agents,
             pending' \in [Agents -> Seq(Wakes)], Coalesced'
      PROVE  IInv'
  <2> DEFINE rec == Rec(p, r, kd)
  <2>1. rec \in Requests /\ rec.op \in Ops /\ rec.run = r /\ rec.killed = kd
    BY <1>1
  <2> HIDE DEF rec
  <2>2. Made(k, rec)
    BY <1>5 DEF rec
  <2>3. Queued(queue', phase, click')
    BY <1>a, <1>b, <1>5, <2>2, QueueStays
  <2>4. rec.run # 0 => run[rec.run].status # "none"
    BY <1>5, <2>1
  <2>5. rec.killed # 0 => Killed(rec.killed)'
    BY <1>5, <2>1 DEF Killed, Cancels
  <2>6. queue' \in Seq(Mutations) /\ \A s \in Runs : Cancels(queue, s) => Cancels(queue', s)
    BY <1>a, <1>5
  <2> QED BY <1>b, <1>5, <2>1, <2>2, <2>3, <2>4, <2>5, <2>6, Clicked
<1>6. CASE op = "start"
  <2>1. /\ Made(k, Rec("writing", 0, 0))
        /\ queue' = Append(queue, ClickMutation(k))
        /\ UNCHANGED <<runnerVars, pending, cancelReq>>
    BY <1>6 DEF Click, Made, Rec
  <2>2. pending' \in [Agents -> Seq(Wakes)] /\ Coalesced' /\ cancelReq' \subseteq Agents
    BY <1>a, <2>1 DEF Coalesced
  <2> QED BY <1>4, <2>1, <2>2
<1>7. CASE op # "start"
  <2>0. /\ Cancel(k, a, op)
        /\ pending' = [pending EXCEPT ![a] = <<>>]
    BY <1>7 DEF Click, Cancel
  <2>1. pending' \in [Agents -> Seq(Wakes)] /\ Coalesced'
    <3>1. <<>> \in Seq(Wakes) /\ OncePerChannel(<<>>)
      BY EmptySeq DEF OncePerChannel
    <3> QED BY <1>a, <2>0, <3>1, PendingOf
  <2>2. CASE active[a] # 0
    <3>1. /\ Made(k, Rec("killing", active[a], active[a]))
          /\ cancelReq' = cancelReq \cup {a}
          /\ Terminate(a, "cancelled")
          /\ queue' = queue
      BY <2>0, <2>2 DEF Cancel, Made, Rec
    <3>2. /\ RunnerTypeOK(Runs)' /\ active' = active
          /\ flags'[a] = flags[a] \cup {"cancelled"}
          /\ \A b \in Agents : flags[b] \subseteq flags'[b]
      BY <1>a, <3>1 DEF Terminate, RunnerTypeOK, Flags, ProcessStates
    <3>3. active[a] \in Runs /\ run[active[a]].agent = a /\ phase[active[a]] = "codex"
      BY <1>a, <2>2 DEF RunnerFits, RunnerTypeOK
    <3>4. \E r \in Runs : /\ r = active[a]
                          /\ Killed(r)'
                          /\ run[r].status # "none"
      <4>1. PICK r \in Runs : r = active[a]
        BY <3>3
      <4>2. phase'[r] = "codex" /\ "cancelled" \in flags'[run'[r].agent]
        BY <1>b, <3>2, <3>3, <4>1
      <4>3. run[r].status # "none"
        BY <1>a, <3>3, <4>1 DEF RunsFit
      <4> QED BY <4>1, <4>2, <4>3 DEF Killed
    <3>5. PICK r \in Runs : r = active[a] /\ Killed(r)' /\ run[r].status # "none"
      BY <3>4
    <3>6. Made(k, Rec("killing", r, r)) /\ cancelReq' \subseteq Agents /\ "killing" \in ClickPhases
      BY <1>a, <1>2, <3>1, <3>5
    <3> QED BY <1>5, <2>1, <3>1, <3>2, <3>5, <3>6
  <2>3. CASE active[a] = 0 /\ exec[a] # 0
    <3>1. /\ Made(k, Rec("awaiting", exec[a], 0))
          /\ cancelReq' = cancelReq \cup {a}
          /\ UNCHANGED <<runnerVars, queue>>
      BY <2>0, <2>3 DEF Cancel, Made, Rec
    <3>2. exec[a] \in Runs /\ run[exec[a]].status # "none"
      BY <1>a, <2>3 DEF TypeOK, EntriesFit, RunsFit
    <3>3. cancelReq' \subseteq Agents /\ queue' = queue /\ UNCHANGED runnerVars
      BY <1>a, <3>1
    <3> QED BY <1>a, <1>2, <1>3, <1>5, <2>1, <3>1, <3>2, <3>3
  <2>4. CASE active[a] = 0 /\ exec[a] = 0 /\ op = "delete"
    <3>1. /\ Made(k, Rec("archiving", 0, 0))
          /\ queue' = queue /\ cancelReq' = cancelReq \ {a}
          /\ UNCHANGED runnerVars
      BY <2>0, <2>4 DEF Cancel, Made, Rec
    <3>2. cancelReq' \subseteq Agents
      BY <1>a, <3>1
    <3> QED BY <1>a, <1>2, <1>3, <1>5, <2>1, <3>1, <3>2
  <2>5. CASE active[a] = 0 /\ exec[a] = 0 /\ op # "delete"
    <3>1. /\ Made(k, Rec("writing", 0, 0))
          /\ queue' = Append(queue, ClickMutation(k)) /\ cancelReq' = cancelReq \ {a}
          /\ UNCHANGED runnerVars
      BY <2>0, <2>5 DEF Cancel, Made, Rec
    <3>2. cancelReq' \subseteq Agents
      BY <1>a, <3>1
    <3> QED BY <1>4, <2>1, <3>1, <3>2
  <2> QED BY <2>2, <2>3, <2>4, <2>5
<1> QED BY <1>6, <1>7

-----------------------------------------------------------------------------
(* The process of a run. *)

\* The process is started, or the run fails before that.
LEMMA PreparedInv ==
    ASSUME IInv, NEW r \in Runs, Prepared(r)
    PROVE  IInv'
<1> DEFINE a == run[r].agent
           x == run[r].status
<1>a. /\ TypeOK /\ Coalesced /\ RunsFit /\ Numbered /\ EntriesFit /\ Replaced /\ RunnerFits
      /\ Deleted /\ ClicksFit
  BY DEF IInv
<1>b. /\ phase[r] = "prepare"
      /\ UNCHANGED <<status, run, unread, todo, exec, pending, cancelReq, click, posts>>
  BY DEF Prepared
<1>1. /\ \A i \in 1..Len(queue) : Caller(queue[i]) # r
      /\ \A p : Queued(queue, [phase EXCEPT ![r] = p], click)
      /\ queue \in Seq(Mutations) /\ phase \in [Runs -> Phases]
      /\ a \in Agents
      /\ x \in RunStatuses \ {"none"}
      /\ Queued(queue, phase, click)
  BY <1>b, Leaves DEF Waiting, IInv
<1>2. /\ cancelReq' \subseteq Agents /\ click' \in ClickTypes /\ Answered({}) /\ {} \in SUBSET Clicks
      /\ unread' \in [Agents -> SUBSET Channels] /\ posts' \in 0..MaxPosts
      /\ pending' \in [Agents -> Seq(Wakes)] /\ Coalesced'
      /\ status' \in [Agents -> Statuses] /\ todo' \in [Runs -> SUBSET Agents]
      /\ exec' \in [Agents -> Runs \cup {0}] /\ run' \in [Runs -> RunRecords]
      /\ \A s \in Runs : /\ run'[s].agent = run[s].agent
                         /\ run'[s].status = IF s = r THEN x ELSE run[s].status
      /\ \A b \in Agents : status'[b] = "gone" => status[b] = "gone"
  BY <1>a, <1>b, Types DEF Coalesced, Answered
<1>3. CASE /\ Spawn(a, r)
           /\ phase' = [phase EXCEPT ![r] = "codex"]
           /\ queue' = queue
  <2>1. /\ phase' \in [Runs -> Phases]
        /\ \A s \in Runs : phase'[s] = IF s = r THEN "codex" ELSE phase[s]
    BY <1>1, <1>3 DEF Phases
  <2>2. /\ RunnerTypeOK(Runs)'
        /\ active[a] = 0
        /\ \A b \in Agents : active'[b] = IF b = a THEN r ELSE active[b]
        /\ \A b \in Agents : flags'[b] = IF b = a THEN {} ELSE flags[b]
    BY <1>a, <1>1, <1>3 DEF Spawn, TypeOK, RunnerTypeOK, ProcessStates
  <2>3. TypeOK'
    BY <1>1, <1>2, <1>3, <2>1, <2>2, TypesNext
  <2>4. \A s \in Runs : Proceeds(s)
    BY <1>a, <1>b, <2>1 DEF Proceeds, RunsFit
  <2>5. EntriesFollow
    BY <1>a, <1>b, <2>1, EntriesStay
  <2>6. RunsFit' /\ Numbered' /\ EntriesFit' /\ Replaced'
    BY <1>a, <2>4, <2>5, ProceedFits
  <2>7. RunnerFits'
    <3>1. ASSUME NEW b \in Agents, active'[b] # 0
          PROVE  run'[active'[b]].agent = b /\ phase'[active'[b]] = "codex"
      <4>1. CASE b = a
        BY <1>b, <2>1, <2>2, <4>1
      <4>2. CASE b # a
        <5>1. active'[b] = active[b] /\ active[b] \in Runs
          BY <1>a, <2>2, <3>1, <4>2 DEF TypeOK, RunnerTypeOK
        <5> QED BY <1>a, <1>b, <2>1, <3>1, <5>1 DEF RunnerFits
      <4> QED BY <4>1, <4>2
    <3>2. ASSUME NEW s \in Runs, phase'[s] = "codex"
          PROVE  active'[run'[s].agent] = s
      <4>1. CASE s = r
        BY <1>1, <1>b, <2>2, <4>1
      <4>2. CASE s # r
        <5>1. phase[s] = "codex" /\ active[run[s].agent] = s /\ run[s].agent \in Agents
          BY <1>a, <2>1, <3>2, <4>2 DEF RunnerFits, TypeOK
        <5>2. run[s].agent # a
          BY <2>2, <5>1, RunsArePositive
        <5> QED BY <1>b, <2>2, <5>1, <5>2
      <4> QED BY <4>1, <4>2
    <3> QED BY <3>1, <3>2 DEF RunnerFits
  <2>8. Deleted'
    BY <1>a, <1>2, <2>4, DeletedStays
  <2>9. ASSUME NEW s \in Runs, Killed(s)
        PROVE  Killed(s)'
    <3>1. s # r
      BY <1>b, <2>9 DEF Killed
    <3>2. "cancelled" \in flags[run[s].agent] /\ phase[s] = "codex" => run[s].agent # a
      BY <1>a, <2>2, RunsArePositive DEF RunnerFits
    <3>3. run[s].agent \in Agents
      BY <1>a DEF TypeOK
    <3>4. phase'[s] = phase[s] /\ run'[s] = run[s] /\ queue' = queue
      BY <1>b, <1>3, <2>1, <3>1
    <3>5. CASE phase[s] = "codex" /\ "cancelled" \in flags[run[s].agent]
      BY <2>2, <3>2, <3>3, <3>4, <3>5 DEF Killed
    <3>6. CASE ~(phase[s] = "codex" /\ "cancelled" \in flags[run[s].agent])
      BY <2>9, <3>4, <3>6 DEF Killed, Cancels
    <3> QED BY <3>5, <3>6
  <2>10. ClicksFit'
    <3>1. \A s \in Runs : run'[s].status = "none" <=> run[s].status = "none"
      BY <1>b
    <3> QED BY <1>a, <1>2, <2>9, <3>1, ClicksStay
  <2>11. Queued(queue, phase, click)'
    BY <1>b, <1>1, <1>3
  <2> QED BY <1>2, <2>3, <2>6, <2>7, <2>8, <2>10, <2>11 DEF IInv
<1>4. CASE /\ phase' = [phase EXCEPT ![r] = "failing"]
           /\ queue' = Append(queue, RunMutation("failed", r))
           /\ UNCHANGED runnerVars
  <2> DEFINE p == "failing"
             u == Append(queue, RunMutation("failed", r))
  <2>1. /\ u \in Seq(Mutations)
        /\ Queued(u, [phase EXCEPT ![r] = p], click)
        /\ \A s : Cancels(queue, s) /\ s # r => Cancels(u, s)
    BY <1>1, AsksEnd
  <2>2. queue' = u /\ phase' = [phase EXCEPT ![r] = p] /\ UNCHANGED runnerVars
    BY <1>4
  <2>3. /\ p \in Phases \ {"none", "queued", "codex"}
        /\ p \in {"prepare", "replying"} => x \in {"running", "removed"}
        /\ ~Killed(r)
        /\ exec' = IF p = "done" THEN Forget(exec, r) ELSE exec
        /\ phase[r] \notin {"none", "done", "codex"}
        /\ run[r].status = "removed" => x = "removed"
    BY <1>b DEF Phases, Killed
  <2> HIDE DEF p, u, x, a
  <2>4. /\ queue' \in Seq(Mutations) /\ Queued(queue', [phase EXCEPT ![r] = p], click')
        /\ \A s \in Runs : s # r /\ Cancels(queue, s) => Cancels(queue', s)
        /\ UNCHANGED <<runnerVars, posts>>
    BY <1>b, <2>1, <2>2
  <2> QED BY <1>1, <1>2, <2>2, <2>3, <2>4, RunSteps
<1> QED BY <1>3, <1>4 DEF Prepared

\* A process runs, exits or is killed.
LEMMA ProcessInv ==
    ASSUME IInv, Process
    PROVE  IInv'
<1>a. /\ TypeOK /\ Coalesced /\ RunsFit /\ Numbered /\ EntriesFit /\ Replaced /\ RunnerFits
      /\ Deleted /\ ClicksFit /\ Queued(queue, phase, click)
  BY DEF IInv
<1>b. UNCHANGED <<status, run, unread, queue, phase, todo, exec, pending, cancelReq, click, posts>>
  BY DEF Process, schedVars
<1>1. /\ RunnerTypeOK(Runs)' /\ active' = active
      /\ \A a \in Agents : flags[a] \subseteq flags'[a]
  <2>1. RunnerTypeOK(Runs)
    BY <1>a DEF TypeOK
  <2>2. PICK a \in Agents : Overrun(a) \/ Exit(a) \/ ForceKill(a) \/ OutputCloses(a)
    BY DEF Process, RunnerStep
  <2>3. CASE Overrun(a)
    BY <2>1, <2>3 DEF Overrun, Terminate, RunnerTypeOK, Flags, ProcessStates
  <2>4. CASE Exit(a)
    BY <2>1, <2>4 DEF Exit, RunnerTypeOK, ProcessStates, ExitStates, HeldStates
  <2>5. CASE ForceKill(a)
    BY <2>1, <2>5 DEF ForceKill, RunnerTypeOK, ProcessStates, ExitStates, HeldStates
  <2>6. CASE OutputCloses(a)
    BY <2>1, <2>6 DEF OutputCloses, RunnerTypeOK, ProcessStates, ExitStates, HeldStates
  <2> QED BY <2>2, <2>3, <2>4, <2>5, <2>6
<1>2. TypeOK'
  BY <1>a, <1>b, <1>1, Types, TypesNext
<1>3. \A s \in Runs : Proceeds(s)
  BY <1>a, <1>b DEF Proceeds, RunsFit
<1>4. EntriesFollow
  BY <1>a, <1>b, EntriesStay
<1>5. ASSUME NEW s \in Runs, Killed(s)
      PROVE  Killed(s)'
  <2>1. run[s].agent \in Agents
    BY <1>a DEF TypeOK
  <2> QED BY <1>b, <1>1, <1>5, <2>1, KilledStays
<1>6. /\ Coalesced' /\ Queued(queue', phase', click') /\ Answered({}) /\ {} \in SUBSET Clicks
      /\ \A s \in Runs : phase'[s] = "codex" <=> phase[s] = "codex"
      /\ \A a \in Agents : status'[a] = "gone" => status[a] = "gone"
  BY <1>a, <1>b DEF Coalesced, Answered
<1> QED BY <1>1, <1>2, <1>3, <1>4, <1>5, <1>6, Step

\* runner.run settles.
LEMMA SettleInv ==
    ASSUME IInv, NEW r \in Runs, Settle(r)
    PROVE  IInv'
<1> DEFINE a == run[r].agent
           result == Result(a)
           p == IF result = "completed" THEN "replying" ELSE "failing"
           u == Append(queue, RunMutation(result, r))
<1>a. /\ TypeOK /\ Coalesced /\ RunsFit /\ Numbered /\ EntriesFit /\ Replaced /\ RunnerFits
      /\ Deleted /\ ClicksFit /\ click \in ClickTypes /\ cancelReq \subseteq Agents
  BY Types DEF IInv
<1>b. /\ phase[r] = "codex" /\ active[a] = r
      /\ Reap(a)
      /\ phase' = [phase EXCEPT ![r] = p]
      /\ IF exec[a] = 0
         THEN Resume(Killing(r), u)
         ELSE /\ queue' = u
              /\ click' = [k \in Clicks |->
                    IF k \in Killing(r)
                    THEN [click[k] EXCEPT !.phase = "awaiting", !.run = exec[a]]
                    ELSE click[k]]
              /\ UNCHANGED cancelReq
      /\ UNCHANGED <<status, run, unread, todo, exec, pending, posts>>
  BY DEF Settle
<1>1. /\ \A i \in 1..Len(queue) : Caller(queue[i]) # r
      /\ queue \in Seq(Mutations) /\ phase \in [Runs -> Phases]
      /\ a \in Agents
      /\ Queued(queue, phase, click)
      /\ run[r].status \in {"running", "removed"}
  BY <1>a, <1>b, Leaves DEF Waiting, IInv, RunsFit
<1>2. /\ result \in {"completed", "failed", "cancelled"}
      /\ "cancelled" \in flags[a] => result = "cancelled"
  BY DEF Result
<1> HIDE DEF result
<1>3. /\ u \in Seq(Mutations)
      /\ Queued(u, [phase EXCEPT ![r] = p], click)
      /\ \A s : Cancels(queue, s) /\ (s # r \/ result = "cancelled") => Cancels(u, s)
  <2>1. CASE result = "completed"
    BY <1>1, <2>1, AsksEnd
  <2>2. CASE result # "completed"
    BY <1>1, <1>2, <2>2, AsksEnd
  <2> QED BY <2>1, <2>2
<1> HIDE DEF u
<1>4. /\ phase' \in [Runs -> Phases] /\ p \in {"replying", "failing"}
      /\ \A s \in Runs : phase'[s] = IF s = r THEN p ELSE phase[s]
  BY <1>1, <1>b DEF Phases
<1>5. \A k \in Killing(r) : k \in Clicks /\ click[k].phase = "killing"
  BY DEF Killing
<1> DEFINE KeptBut(k) ==
             /\ click'[k].op = click[k].op
             /\ click'[k].killed = click[k].killed
             /\ click'[k].phase # "idle" => click[k].phase # "idle"
             /\ click'[k].run = click[k].run \/ (click'[k].run = exec[a] /\ exec[a] # 0)
<1>6. /\ cancelReq' \subseteq Agents /\ click' \in ClickTypes
      /\ queue' \in Seq(Mutations)
      /\ Queued(queue', phase', click')
      /\ \A s \in Runs : Cancels(u, s) => Cancels(queue', s)
      /\ \A k \in Clicks : KeptBut(k)
  <2>1. CASE exec[a] = 0
    <3>1. Killing(r) \in SUBSET Clicks /\ \A k \in Killing(r) : click[k].phase \in {"killing", "awaiting"}
      BY <1>5
    <3>2. Resume(Killing(r), u)
      BY <1>b, <2>1
    <3>3. /\ cancelReq' \subseteq Agents
          /\ click' \in ClickTypes
          /\ queue' \in Seq(Mutations)
          /\ Queued(queue', [phase EXCEPT ![r] = p], click')
          /\ \A s \in Runs : Cancels(u, s) => Cancels(queue', s)
          /\ Answered(Killing(r))
      BY <1>a, <1>3, <3>1, <3>2, ResumeFacts
    <3> QED BY <1>b, <3>3 DEF Answered
  <2>2. CASE exec[a] # 0
    <3> DEFINE Awaits(c) == [c EXCEPT !.phase = "awaiting", !.run = exec[a]]
    <3>1. exec[a] \in Runs
      BY <1>a, <1>1, <2>2 DEF TypeOK
    <3>2. \A k \in Clicks : /\ click[k] \in Requests
                            /\ k \notin Killing(r) => click'[k] = click[k]
                            /\ k \in Killing(r) => click'[k] = Awaits(click[k])
      BY <1>a, <1>b, <2>2 DEF ClickTypes
    <3>3. ASSUME NEW c \in Requests
          PROVE  /\ Awaits(c) \in Requests /\ Awaits(c).op = c.op /\ Awaits(c).killed = c.killed
                 /\ Awaits(c).phase = "awaiting" /\ Awaits(c).run = exec[a]
      BY <3>1, <3>3 DEF Requests, ClickPhases
    <3>5. DOMAIN click' = Clicks /\ click' = [k \in Clicks |-> click'[k]]
      BY <1>b, <2>2
    <3> HIDE DEF Awaits
    <3>4. ASSUME NEW k \in Clicks, k \in Killing(r)
          PROVE  /\ click'[k] \in Requests /\ click'[k].op = click[k].op
                 /\ click'[k].killed = click[k].killed
                 /\ click'[k].phase = "awaiting" /\ click'[k].run = exec[a]
      BY <3>2, <3>3, <3>4
    <3>6. click' \in ClickTypes
      BY <3>2, <3>4, <3>5 DEF ClickTypes
    <3>7. \A k \in Clicks : KeptBut(k)
      BY <1>5, <2>2, <3>2, <3>4
    <3>8. \A k \in Clicks : click[k].phase = "writing" => click'[k] = click[k]
      BY <1>5, <3>2
    <3>9. Queued(u, [phase EXCEPT ![r] = p], click')
      <4>1. \A i \in 1..Len(u) : u[i].op = "click" => /\ u[i].click \in Clicks
                                                      /\ click[u[i].click].phase = "writing"
        BY <1>3, ElementOfSeq, MutationFields DEF Queued, Fit
      <4>2. \A i \in 1..Len(u) : u[i].op = "click" =>
               click'[u[i].click].phase = click[u[i].click].phase
        BY <3>8, <4>1
      <4> QED BY <1>3, <4>2, Keep
    <3>10. queue' = u /\ cancelReq' = cancelReq /\ phase' = [phase EXCEPT ![r] = p]
      BY <1>b, <2>2
    <3> QED BY <1>a, <1>3, <3>6, <3>7, <3>9, <3>10
  <2> QED BY <2>1, <2>2
<1>7. /\ RunnerTypeOK(Runs)'
      /\ \A b \in Agents : active'[b] = IF b = a THEN 0 ELSE active[b]
      /\ \A b \in Agents : flags'[b] = IF b = a THEN {} ELSE flags[b]
  BY <1>a, <1>b, <1>1 DEF Reap, TypeOK, RunnerTypeOK, ProcessStates
<1>8. TypeOK'
  BY <1>a, <1>b, <1>4, <1>6, <1>7, Types, TypesNext
<1>9. \A s \in Runs : Proceeds(s)
  BY <1>a, <1>b, <1>1, <1>4 DEF Proceeds, RunsFit
<1>10. EntriesFollow
  BY <1>a, <1>b, <1>4, EntriesStay
<1>11. RunsFit' /\ Numbered' /\ EntriesFit' /\ Replaced'
  BY <1>a, <1>9, <1>10, ProceedFits
\* Whoever else has a process is a run of another agent.
<1>12. \A s \in Runs : phase[s] = "codex" /\ s # r => /\ run[s].agent # a /\ run[s].agent \in Agents
                                                       /\ active[run[s].agent] = s
  BY <1>a, <1>b DEF RunnerFits, TypeOK
<1>13. RunnerFits'
  <2>1. ASSUME NEW b \in Agents, active'[b] # 0
        PROVE  run'[active'[b]].agent = b /\ phase'[active'[b]] = "codex"
    <3>1. b # a /\ active'[b] = active[b] /\ active[b] \in Runs
      BY <1>a, <1>7, <2>1 DEF TypeOK, RunnerTypeOK
    <3>2. run[active[b]].agent = b /\ phase[active[b]] = "codex"
      BY <1>a, <2>1, <3>1 DEF RunnerFits
    <3> QED BY <1>b, <1>4, <3>1, <3>2
  <2>2. ASSUME NEW s \in Runs, phase'[s] = "codex"
        PROVE  active'[run'[s].agent] = s
    BY <1>b, <1>4, <1>7, <1>12, <2>2
  <2> QED BY <2>1, <2>2 DEF RunnerFits
<1>14. Deleted'
  BY <1>a, <1>b, <1>9, DeletedStays
<1>15. ASSUME NEW s \in Runs, Killed(s)
       PROVE  Killed(s)'
  <2>1. CASE s = r
    <3>1. Cancels(queue, r)
      BY <1>1 DEF Cancels
    <3>2. result = "cancelled"
      BY <1>b, <1>2, <1>15, <2>1 DEF Killed
    <3>3. Cancels(queue', r)
      BY <1>3, <1>6, <3>1, <3>2
    <3>4. phase'[r] = "failing" /\ run'[r].status \in {"running", "removed"}
      BY <1>b, <1>1, <1>4, <3>2
    <3> QED BY <2>1, <3>3, <3>4 DEF Killed, Cancels
  <2>2. CASE s # r
    <3>1. phase'[s] = phase[s] /\ run'[s] = run[s] /\ (Cancels(queue, s) => Cancels(queue', s))
      BY <1>b, <1>3, <1>4, <1>6, <2>2
    <3>2. CASE phase[s] = "codex" /\ "cancelled" \in flags[run[s].agent]
      <4>1. flags'[run'[s].agent] = flags[run[s].agent]
        BY <1>7, <1>12, <2>2, <3>1, <3>2
      <4> QED BY <3>1, <3>2, <4>1 DEF Killed
    <3>3. CASE ~(phase[s] = "codex" /\ "cancelled" \in flags[run[s].agent])
      BY <1>15, <3>1, <3>3 DEF Killed, Cancels
    <3> QED BY <3>2, <3>3
  <2> QED BY <2>1, <2>2
<1>16. ClicksFit'
  <2>1. ASSUME NEW k \in Clicks
        PROVE  /\ click'[k].phase # "idle" => click'[k].op \in Ops
               /\ click'[k].run # 0 => run'[click'[k].run].status # "none"
    <3>1. exec[a] # 0 => run[exec[a]].status # "none"
      BY <1>a, <1>1 DEF EntriesFit, RunsFit, TypeOK
    <3> QED BY <1>a, <1>b, <1>6, <3>1 DEF ClicksFit
  <2>2. ASSUME NEW k \in Clicks, NEW s \in Runs, click'[k].killed = s
        PROVE  Killed(s)'
    <3>1. click[k].killed = s /\ s # 0
      BY <1>6, <2>2, RunsArePositive
    <3> QED BY <1>a, <1>15, <3>1 DEF ClicksFit
  <2>3. \A k \in Clicks : click'[k].killed \in Runs \cup {0}
    BY <1>6 DEF ClickTypes, Requests
  <2> QED BY <2>1, <2>2, <2>3 DEF ClicksFit, Killed, Cancels
<1>17. Coalesced' /\ Queued(queue, phase, click)'
  BY <1>a, <1>b, <1>6 DEF Coalesced
<1> QED BY <1>8, <1>11, <1>13, <1>14, <1>16, <1>17 DEF IInv

-----------------------------------------------------------------------------
(* A restart, a run that is granted, and the beginning. *)

\* The server restarts.
LEMMA RestartInv ==
    ASSUME IInv, Restart
    PROVE  IInv'
<1>a. /\ TypeOK /\ RunsFit /\ Numbered /\ EntriesFit /\ Replaced /\ RunnerFits
      /\ Deleted /\ ClicksFit
      /\ click \in ClickTypes /\ run \in [Runs -> RunRecords]
  BY Types DEF IInv
<1>b. /\ active' = [a \in Agents |-> 0]
      /\ flags' = [a \in Agents |-> {}]
      /\ process' = [a \in Agents |-> "none"]
      /\ run' = [r \in Runs |-> IF run[r].status \in Active
                                THEN [run[r] EXCEPT !.status = "cancelled"] ELSE run[r]]
      /\ status' = [a \in Agents |-> IF status[a] = "busy" THEN "ready" ELSE status[a]]
      /\ queue' = <<>>
      /\ phase' = [r \in Runs |-> IF phase[r] = "none" THEN "none" ELSE "done"]
      /\ todo' = [r \in Runs |-> {}]
      /\ exec' = [a \in Agents |-> 0]
      /\ pending' = [a \in Agents |-> <<>>]
      /\ cancelReq' = {}
      /\ click' = [k \in Clicks |-> IF click[k].phase = "idle" THEN click[k]
                                    ELSE [click[k] EXCEPT !.phase = "done"]]
      /\ UNCHANGED <<unread, posts>>
  BY DEF Restart
<1>1. ASSUME NEW r \in Runs
      PROVE  /\ run'[r] \in RunRecords
             /\ run'[r].agent = run[r].agent
             /\ run'[r].status = IF run[r].status \in Active THEN "cancelled" ELSE run[r].status
  <2>1. run[r] \in RunRecords
    BY <1>a
  <2>2. /\ [run[r] EXCEPT !.status = "cancelled"] \in RunRecords
        /\ [run[r] EXCEPT !.status = "cancelled"].agent = run[r].agent
        /\ [run[r] EXCEPT !.status = "cancelled"].status = "cancelled"
    BY <2>1 DEF RunRecords, Terminal
  <2> QED BY <1>b, <2>1, <2>2
<1>2. run' \in [Runs -> RunRecords]
  <2>1. DOMAIN run' = Runs /\ run' = [r \in Runs |-> run'[r]]
    BY <1>b
  <2> QED BY <1>1, <2>1
<1>3. click' \in ClickTypes /\ Answered(Clicks)
  <2> DEFINE Done(c) == [c EXCEPT !.phase = "done"]
  <2>1. DOMAIN click' = Clicks /\ click' = [k \in Clicks |-> click'[k]]
    BY <1>b
  <2>2. \A k \in Clicks : /\ click[k] \in Requests
                          /\ click'[k] = IF click[k].phase = "idle" THEN click[k] ELSE Done(click[k])
    BY <1>a, <1>b DEF ClickTypes
  <2>3. ASSUME NEW c \in Requests
        PROVE  /\ Done(c) \in Requests /\ Done(c).op = c.op /\ Done(c).agent = c.agent
               /\ Done(c).run = c.run /\ Done(c).killed = c.killed /\ Done(c).phase = "done"
    BY <2>3 DEF Requests, ClickPhases
  <2> HIDE DEF Done
  <2>4. ASSUME NEW k \in Clicks
        PROVE  /\ click'[k] \in Requests /\ click'[k].op = click[k].op /\ click'[k].agent = click[k].agent
               /\ click'[k].run = click[k].run /\ click'[k].killed = click[k].killed
               /\ click'[k].phase # "idle" <=> click[k].phase # "idle"
    BY <2>2, <2>3, <2>4
  <2>5. click' \in ClickTypes
    BY <2>1, <2>4 DEF ClickTypes
  <2> QED BY <2>4, <2>5 DEF Answered
<1>4. TypeOK'
  <2>1. RunnerTypeOK(Runs)'
    BY <1>b DEF RunnerTypeOK, ProcessStates
  <2>2. /\ status' \in [Agents -> Statuses] /\ phase' \in [Runs -> Phases]
        /\ todo' \in [Runs -> SUBSET Agents] /\ exec' \in [Agents -> Runs \cup {0}]
        /\ unread' \in [Agents -> SUBSET Channels] /\ posts' \in 0..MaxPosts
    BY <1>a, <1>b DEF TypeOK, Statuses, Phases
  <2>3. queue' \in Seq(Mutations) /\ pending' \in [Agents -> Seq(Wakes)] /\ cancelReq' \subseteq Agents
    BY <1>b, EmptySeq
  <2> QED BY <1>2, <1>3, <2>1, <2>2, <2>3, TypesNext
<1>5. \A r \in Runs : Proceeds(r)
  BY <1>a, <1>b, <1>1 DEF Proceeds, RunsFit, Active
<1>6. EntriesFollow
  <2>1. \A a \in Agents : exec[a] # 0 => exec[a] \in Runs /\ phase[exec[a]] # "none"
    BY <1>a DEF TypeOK, EntriesFit
  <2> QED BY <1>b, <2>1 DEF EntriesFollow
<1>7. RunsFit' /\ Numbered' /\ EntriesFit' /\ Replaced'
  BY <1>a, <1>5, <1>6, ProceedFits
<1>8. RunnerFits'
  BY <1>b DEF RunnerFits
<1>9. Deleted'
  <2>1. \A a \in Agents : status'[a] = "gone" => status[a] = "gone"
    BY <1>b
  <2> QED BY <1>a, <1>5, <2>1, DeletedStays
<1>10. ASSUME NEW s \in Runs, Killed(s)
       PROVE  Killed(s)'
  <2>1. phase[s] # "none"
    BY <1>10 DEF Killed
  <2>2. phase[s] = "codex" => run[s].status \in {"running", "removed"}
    BY <1>a DEF RunsFit
  <2>3. run[s].status \in Active \cup {"cancelled", "removed"}
    BY <1>10, <2>2 DEF Killed, Active
  <2> QED BY <1>b, <1>1, <2>1, <2>3 DEF Killed
<1>11. ClicksFit'
  <2>1. \A r \in Runs : run'[r].status = "none" <=> run[r].status = "none"
    BY <1>5 DEF Proceeds
  <2> QED BY <1>a, <1>3, <1>10, <2>1, ClicksStay
<1>12. Coalesced'
  <2>1. \A a \in Agents : pending'[a] = <<>>
    BY <1>b
  <2>2. DOMAIN <<>> = {}
    BY EmptySeq
  <2> QED BY <2>1, <2>2 DEF Coalesced
<1>13. Queued(queue, phase, click)'
  BY <1>b, EmptySeq DEF Queued
<1> QED BY <1>4, <1>7, <1>8, <1>9, <1>11, <1>12, <1>13 DEF IInv

\* The next run's number is one that no run has.
LEMMA Fresh ==
    ASSUME Numbered, TypeOK, NEW r, r = Cardinality(Started) + 1, r \in Runs
    PROVE  /\ run[r].status = "none"
           /\ \A s \in Started : s < r
           /\ \E n \in 0..MaxRuns : n = r - 1 /\ Started = 1..n /\ r \in 0..MaxRuns
           /\ Started \cup {r} = 1..r
<1>1. PICK n \in 0..MaxRuns : Started = 1..n
  BY DEF Numbered
<1>2. n \in Nat /\ MaxRuns \in Nat
  BY SchedulerAssumption
<1>3. Cardinality(Started) = n
  BY <1>1, <1>2, FS_Interval
<1>4. r = n + 1
  BY <1>3
<1>5. r \notin Started
  BY <1>1, <1>2, <1>4
<1>6. r \in 1..MaxRuns /\ r \in 0..MaxRuns
  BY <1>2 DEF Runs
<1>7. run[r].status = "none"
  BY <1>5 DEF Started
<1>8. \A s \in Started : s < r
  BY <1>1, <1>2, <1>4
<1>9. Started \cup {r} = 1..r
  BY <1>1, <1>2, <1>4
<1>10. n = r - 1
  BY <1>2, <1>4
<1> QED BY <1>1, <1>6, <1>7, <1>8, <1>9, <1>10

\* A run is created and its execution begins.
LEMMA StartGrantedInv ==
    ASSUME IInv, StartGranted
    PROVE  IInv'
<1> DEFINE m == Head(queue)
           a == m.agent
           w == m.wake
           by == m.by
           t == Tail(queue)
           r == Cardinality(Started) + 1
           q == Append(t, RunMutation("launch", r))
           rec == [agent |-> a, chan |-> w.chan, trace |-> w.trace, status |-> "queued"]
           K == IF Drainer(by) THEN Awaiting(by) ELSE {}
           p == IF Drainer(by) THEN "done" ELSE "waking"
           mid == After(by, p)
<1>a. /\ TypeOK /\ Coalesced /\ RunsFit /\ Numbered /\ EntriesFit /\ Replaced /\ RunnerFits
      /\ Deleted /\ ClicksFit
      /\ run \in [Runs -> RunRecords]
  BY Types DEF IInv
<1>b. /\ HeadIs("start")
      /\ r \in Runs
      /\ status[a] \in {"ready", "error"}
      /\ run' = [run EXCEPT ![r] = rec]
      /\ status' = [status EXCEPT ![a] = "busy"]
      /\ unread' = [unread EXCEPT ![a] = @ \ {w.chan}]
      /\ Drainer(by) => /\ phase' = [phase EXCEPT ![r] = "queued", ![by] = "done"]
                        /\ exec' = [Forget(exec, by) EXCEPT ![a] = r]
                        /\ Over(by, q)
      /\ ~Drainer(by) => /\ phase' = [After(by, "waking") EXCEPT ![r] = "queued"]
                         /\ exec' = [exec EXCEPT ![a] = r]
                         /\ Resume({}, q)
      /\ UNCHANGED <<runnerVars, todo, pending, posts>>
  BY DEF StartGranted
<1>1. /\ a \in Agents /\ w \in Wakes /\ by \in Runs \cup {0}
      /\ by # 0 => /\ phase[by] \in {"waiting", "draining"}
                   /\ Drainer(by) <=> phase[by] = "draining"
                   /\ Killed(by) => /\ phase[by] = "draining"
                                    /\ run[by].status \in Active \cup {"cancelled", "removed"}
                   /\ \A x : Queued(t, [phase EXCEPT ![by] = x], click)
      /\ by = 0 => ~Drainer(by)
      /\ t \in Seq(Mutations) /\ phase \in [Runs -> Phases]
      /\ Queued(t, phase, click)
      /\ \A s : Cancels(queue, s) => Cancels(t, s)
      /\ cancelReq \subseteq Agents /\ click \in ClickTypes
  BY <1>b, HeadOfStart
<1>2. /\ run[r].status = "none" /\ phase[r] = "none"
      /\ \A s \in Started : s < r
      /\ r \in 0..MaxRuns /\ Started \cup {r} = 1..r
  BY <1>a, <1>b, Fresh DEF RunsFit
<1>3. by # r /\ r # 0
  BY <1>b, <1>1, <1>2, RunsArePositive
<1>4. /\ rec \in RunRecords
      /\ rec.agent = a /\ rec.status = "queued"
  <2>1. w.chan \in Channels /\ w.trace \in Traces
    BY <1>1 DEF Wakes
  <2> QED BY <1>1, <2>1 DEF RunRecords, Active
<1> HIDE DEF a, w, by, t, r, rec, m
<1>5. /\ mid \in [Runs -> Phases]
      /\ \A s \in Runs : mid[s] = IF s = by THEN p ELSE phase[s]
      /\ Queued(t, mid, click)
      /\ phase' = [mid EXCEPT ![r] = "queued"]
  <2>1. CASE by = 0
    <3>1. mid = phase /\ phase' = [phase EXCEPT ![r] = "queued"]
      BY <1>b, <1>1, <2>1 DEF After
    <3> QED BY <1>1, <2>1, <3>1, RunsArePositive
  <2>2. CASE by # 0
    <3>1. mid = [phase EXCEPT ![by] = p] /\ by \in Runs
      BY <1>1, <2>2 DEF After
    <3>2. mid \in [Runs -> Phases] /\ \A s \in Runs : mid[s] = IF s = by THEN p ELSE phase[s]
      BY <1>1, <3>1 DEF Phases
    <3>3. Queued(t, mid, click)
      BY <1>1, <2>2, <3>1
    <3>4. phase' = [mid EXCEPT ![r] = "queued"]
      <4>1. CASE Drainer(by)
        <5>1. phase' = [phase EXCEPT ![r] = "queued", ![by] = "done"] /\ mid = [phase EXCEPT ![by] = "done"]
          BY <1>b, <3>1, <4>1
        <5> HIDE DEF mid
        <5> QED BY <1>1, <1>3, <3>1, <5>1
      <4>2. CASE ~Drainer(by)
        BY <1>b, <4>2
      <4> QED BY <4>1, <4>2
    <3> QED BY <3>2, <3>3, <3>4
  <2> QED BY <2>1, <2>2
<1> HIDE DEF mid
<1>6. /\ phase' \in [Runs -> Phases]
      /\ \A s \in Runs : phase'[s] = IF s = r THEN "queued" ELSE IF s = by THEN p ELSE phase[s]
  BY <1>b, <1>5 DEF Phases
<1>7. /\ q \in Seq(Mutations)
      /\ Queued(q, phase', click)
      /\ \A s : Cancels(t, s) /\ s # r => Cancels(q, s)
  <2>1. mid[r] \notin Waiting
    BY <1>b, <1>2, <1>3, <1>5 DEF Waiting
  <2>2. \A i \in 1..Len(t) : Caller(t[i]) # r
    BY <1>b, <1>1, <1>5, <2>1, Absent
  <2>3. /\ q \in Seq(Mutations)
        /\ Queued(q, [mid EXCEPT ![r] = "queued"], click)
        /\ \A s : Cancels(t, s) /\ s # r => Cancels(q, s)
    BY <1>b, <1>1, <1>5, <2>2, AsksEnd
  <2> QED BY <1>5, <2>3
<1> HIDE DEF q
<1>8. /\ cancelReq' \subseteq Agents /\ click' \in ClickTypes
      /\ queue' \in Seq(Mutations)
      /\ Queued(queue', phase', click')
      /\ \A s \in Runs : Cancels(q, s) => Cancels(queue', s)
      /\ Answered(K) /\ K \in SUBSET Clicks
  <2>1. CASE Drainer(by)
    <3>1. Over(by, q)
      BY <1>b, <2>1
    <3>2. Awaiting(by) \in SUBSET Clicks
      BY DEF Awaiting
    <3> QED BY <1>1, <1>7, <2>1, <3>1, <3>2, OverFacts
  <2>2. CASE ~Drainer(by)
    <3>1. Resume({}, q) /\ {} \in SUBSET Clicks
      BY <1>b, <2>2
    <3> QED BY <1>1, <1>7, <2>2, <3>1, ResumeFacts
  <2> QED BY <2>1, <2>2
<1>9. /\ run' \in [Runs -> RunRecords]
      /\ run'[r].agent = a /\ run'[r].status = "queued"
      /\ \A s \in Runs : s # r => run'[s] = run[s]
  BY <1>a, <1>b, <1>4
<1>10. /\ exec' \in [Agents -> Runs \cup {0}]
       /\ exec'[a] = r
       /\ \A b \in Agents : b # a => exec'[b] = IF Drainer(by) /\ exec[b] = by THEN 0 ELSE exec[b]
  <2>1. exec \in [Agents -> Runs \cup {0}]
    BY <1>a, Types
  <2> DEFINE left == IF Drainer(by) THEN Forget(exec, by) ELSE exec
  <2>2. \A b \in Agents : left[b] = IF Drainer(by) /\ exec[b] = by THEN 0 ELSE exec[b]
    BY DEF Forget
  <2>3. left \in [Agents -> Runs \cup {0}]
    BY <2>1 DEF Forget
  <2>4. exec' = [left EXCEPT ![a] = r]
    BY <1>b
  <2> HIDE DEF left
  <2> QED BY <1>b, <1>1, <2>2, <2>3, <2>4
<1>11. /\ status' \in [Agents -> Statuses] /\ unread' \in [Agents -> SUBSET Channels]
       /\ status'[a] = "busy"
       /\ \A b \in Agents : b # a => status'[b] = status[b]
  BY <1>a, <1>b, <1>1 DEF TypeOK, Statuses
<1>12. TypeOK'
  BY <1>a, <1>b, <1>6, <1>8, <1>9, <1>10, <1>11, Types, TypesNext DEF RunnerTypeOK, runnerVars
<1>13. Started' = Started \cup {r}
  BY <1>b, <1>9 DEF Started
<1>14. Numbered'
  BY <1>2, <1>13 DEF Numbered
<1>15. \A s \in Runs : s = by => phase[s] \in {"waiting", "draining"}
  BY <1>1, RunsArePositive
<1> HIDE DEF p
<1>p. p \in {"done", "waking"} /\ (p = "done" <=> Drainer(by))
  BY DEF p
<1>16. RunsFit'
  <2>1. ASSUME NEW s \in Runs
        PROVE  /\ phase'[s] = "none" <=> run'[s].status = "none"
               /\ phase'[s] = "queued" => run'[s].status \in {"queued", "removed"}
               /\ phase'[s] \in {"prepare", "codex", "replying"} => run'[s].status \in {"running", "removed"}
    <3>1. CASE s = r
      BY <1>6, <1>9, <3>1
    <3>2. CASE s # r
      BY <1>a, <1>p, <1>6, <1>9, <1>15, <3>2 DEF RunsFit
    <3> QED BY <3>1, <3>2
  <2> QED BY <2>1 DEF RunsFit
<1>17. EntriesFit'
  <2>1. ASSUME NEW b \in Agents, exec'[b] # 0
        PROVE  run'[exec'[b]].agent = b /\ phase'[exec'[b]] \notin {"none", "done"}
    <3>1. CASE b = a
      BY <1>b, <1>6, <1>9, <1>10, <3>1
    <3>2. CASE b # a
      <4>1. exec'[b] = exec[b] /\ exec[b] \in Runs /\ (Drainer(by) => exec[b] # by)
        BY <1>a, <1>10, <2>1, <3>2 DEF TypeOK
      <4>2. run[exec[b]].agent = b /\ phase[exec[b]] \notin {"none", "done"}
        BY <1>a, <2>1, <4>1 DEF EntriesFit
      <4>3. exec[b] # r
        BY <1>2, <4>2
      <4> QED BY <1>p, <1>6, <1>9, <4>1, <4>2, <4>3
    <3> QED BY <3>1, <3>2
  <2> QED BY <2>1 DEF EntriesFit
<1>18. Replaced'
  <2>1. ASSUME NEW s \in Runs, phase'[s] \notin {"none", "done"}
        PROVE  \/ exec'[run'[s].agent] = s
               \/ \E z \in Started' : z > s /\ run'[z].agent = run'[s].agent
    <3>1. CASE s = r
      BY <1>9, <1>10, <3>1
    <3>2. CASE s # r
      <4>1. phase[s] \notin {"none", "done"} /\ (s = by => ~Drainer(by)) /\ run'[s] = run[s]
            /\ run[s].agent \in Agents
        BY <1>a, <1>p, <1>6, <1>9, <1>15, <2>1, <3>2 DEF TypeOK
      <4>2. s \in Started
        BY <1>a, <4>1 DEF RunsFit, Started
      <4>3. CASE run[s].agent = a
        <5>1. r \in Started' /\ r > s
          BY <1>2, <1>13, <1>b, <4>2, RunsArePositive
        <5> QED BY <1>9, <4>1, <4>3, <5>1
      <4>4. CASE run[s].agent # a /\ exec[run[s].agent] = s
        BY <1>10, <4>1, <4>4
      <4>5. CASE \E z \in Started : z > s /\ run[z].agent = run[s].agent
        <5>1. PICK z \in Started : z > s /\ run[z].agent = run[s].agent
          BY <4>5
        <5>2. z \in Runs /\ z # r /\ z \in Started'
          BY <1>2, <1>13, <5>1 DEF Started
        <5> QED BY <1>9, <4>1, <5>1, <5>2
      <4> QED BY <1>a, <4>1, <4>3, <4>4, <4>5 DEF Replaced
    <3> QED BY <3>1, <3>2
  <2> QED BY <2>1 DEF Replaced
<1>19. RunnerFits'
  <2>1. active' = active
    BY <1>b DEF runnerVars
  <2>2. \A s \in Runs : phase'[s] = "codex" <=> phase[s] = "codex"
    BY <1>p, <1>2, <1>6, <1>15
  <2>3. ASSUME NEW b \in Agents, active'[b] # 0
        PROVE  run'[active'[b]].agent = b /\ phase'[active'[b]] = "codex"
    <3>1. active[b] \in Runs /\ run[active[b]].agent = b /\ phase[active[b]] = "codex"
      BY <1>a, <2>1, <2>3 DEF RunnerFits, TypeOK, RunnerTypeOK
    <3>2. active[b] # r
      BY <1>2, <3>1
    <3> QED BY <1>9, <2>1, <2>2, <3>1, <3>2
  <2>4. ASSUME NEW s \in Runs, phase'[s] = "codex"
        PROVE  active'[run'[s].agent] = s
    <3>1. phase[s] = "codex" /\ s # r
      BY <1>2, <2>2, <2>4
    <3> QED BY <1>a, <1>9, <2>1, <3>1 DEF RunnerFits
  <2> QED BY <2>3, <2>4 DEF RunnerFits
<1>20. Deleted'
  <2>1. ASSUME NEW s \in Runs, status'[run'[s].agent] = "gone"
        PROVE  run'[s].status \in {"none", "removed"}
    <3>1. s # r
      BY <1>9, <1>11, <2>1
    <3>2. run[s].agent \in Agents /\ run'[s] = run[s]
      BY <1>a, <1>9, <3>1 DEF TypeOK
    <3>3. status[run[s].agent] = "gone"
      BY <1>11, <2>1, <3>2
    <3> QED BY <1>a, <3>2, <3>3 DEF Deleted
  <2> QED BY <2>1 DEF Deleted
<1>21. ASSUME NEW s \in Runs, Killed(s)
       PROVE  Killed(s)'
  <2>1. s # r
    BY <1>2, <1>21 DEF Killed
  <2>2. CASE s = by
    <3>1. s # 0
      BY RunsArePositive
    <3>2. phase'[s] = "done" /\ run'[s].status \in Active \cup {"cancelled", "removed"}
      BY <1>p, <1>1, <1>6, <1>9, <1>21, <2>1, <2>2, <3>1
    <3> QED BY <3>2 DEF Killed
  <2>3. CASE s # by
    <3>1. phase'[s] = phase[s] /\ run'[s] = run[s] /\ flags' = flags
      BY <1>b, <1>6, <1>9, <2>1, <2>3 DEF runnerVars
    <3>2. Cancels(queue, s) => Cancels(queue', s)
      BY <1>1, <1>7, <1>8, <2>1
    <3> QED BY <1>21, <3>1, <3>2, KilledStays
  <2> QED BY <2>2, <2>3
<1>22. ClicksFit'
  <2>1. ASSUME NEW k \in Clicks
        PROVE  /\ click'[k].phase # "idle" => click'[k].op \in Ops
               /\ click'[k].run # 0 => run'[click'[k].run].status # "none"
    <3>1. click[k].run \in Runs \cup {0}
      BY <1>a DEF TypeOK
    <3>2. \A s \in Runs : run[s].status # "none" => run'[s].status # "none"
      BY <1>9
    <3> QED BY <1>a, <1>8, <3>1, <3>2 DEF ClicksFit, Answered
  <2>2. ASSUME NEW k \in Clicks, NEW s \in Runs, click'[k].killed = s
        PROVE  Killed(s)'
    <3>1. click[k].killed = s /\ s # 0
      BY <1>8, <2>2, RunsArePositive DEF Answered
    <3> QED BY <1>a, <1>21, <3>1 DEF ClicksFit
  <2>3. \A k \in Clicks : click'[k].killed \in Runs \cup {0}
    BY <1>8 DEF ClickTypes, Requests
  <2> QED BY <2>1, <2>2, <2>3 DEF ClicksFit, Killed, Cancels
<1>23. Coalesced'
  BY <1>a, <1>b DEF Coalesced
<1> QED BY <1>8, <1>12, <1>14, <1>16, <1>17, <1>18, <1>19, <1>20, <1>22, <1>23 DEF IInv

\* In the beginning nothing runs and nothing waits.
LEMMA InitInv == Init => IInv
<1> SUFFICES ASSUME Init
             PROVE  IInv
  OBVIOUS
<1>1. (CHOOSE a \in Agents : TRUE) \in Agents /\ (CHOOSE c \in Channels : TRUE) \in Channels
  BY SchedulerAssumption
<1>2. NoRun \in RunRecords /\ NoRun.status = "none"
  BY <1>1, SchedulerAssumption DEF NoRun, RunRecords, Traces
<1>3. NoClick \in Requests /\ NoClick.phase = "idle" /\ NoClick.run = 0 /\ NoClick.killed = 0
  BY <1>1 DEF NoClick, Requests, ClickPhases
<1>4. TypeOK
  <2>1. RunnerTypeOK(Runs)
    BY DEF Init, RunnerInit, RunnerTypeOK, ProcessStates
  <2>2. /\ status \in [Agents -> Statuses] /\ phase \in [Runs -> Phases]
        /\ todo \in [Runs -> SUBSET Agents] /\ exec \in [Agents -> Runs \cup {0}]
        /\ unread \in [Agents -> SUBSET Channels] /\ posts \in 0..MaxPosts /\ cancelReq \subseteq Agents
    BY SchedulerAssumption DEF Init, Statuses, Phases
  <2>3. run \in [Runs -> RunRecords] /\ click \in ClickTypes
    BY <1>2, <1>3 DEF Init, ClickTypes
  <2>4. queue \in Seq(Mutations) /\ pending \in [Agents -> Seq(Wakes)]
    BY EmptySeq DEF Init
  <2> QED BY <2>1, <2>2, <2>3, <2>4, Types
<1>5. Coalesced
  <2>1. \A a \in Agents : pending[a] = <<>>
    BY DEF Init
  <2>2. DOMAIN <<>> = {}
    BY EmptySeq
  <2> QED BY <2>1, <2>2 DEF Coalesced
<1>6. Queued(queue, phase, click)
  BY EmptySeq DEF Init, Queued
<1>7. /\ \A r \in Runs : run[r] = NoRun /\ phase[r] = "none"
      /\ \A a \in Agents : exec[a] = 0 /\ active[a] = 0
      /\ \A k \in Clicks : click[k] = NoClick
  BY DEF Init, RunnerInit
<1>8. RunsFit /\ EntriesFit /\ Replaced /\ RunnerFits /\ Deleted /\ ClicksFit
  BY <1>2, <1>3, <1>7 DEF RunsFit, EntriesFit, Replaced, RunnerFits, Deleted, ClicksFit
<1>9. Numbered
  <2>1. Started = {} /\ 1..0 = {} /\ 0 \in 0..MaxRuns
    BY <1>2, <1>7, SchedulerAssumption DEF Started
  <2> QED BY <2>1 DEF Numbered
<1> QED BY <1>4, <1>5, <1>6, <1>8, <1>9 DEF IInv

-----------------------------------------------------------------------------
(* Every step. *)

\* Nothing happens.
LEMMA StutterInv ==
    ASSUME IInv, UNCHANGED vars
    PROVE  IInv'
<1>1. UNCHANGED <<active, flags, process, status, run, unread, queue, phase, todo, exec,
                  pending, cancelReq, click, posts>>
  BY DEF vars, runnerVars, schedVars
<1>2. TypeOK' /\ Coalesced'
  BY <1>1 DEF IInv, TypeOK, RunnerTypeOK, Coalesced
<1>3. Queued(queue, phase, click)'
  BY <1>1 DEF IInv
<1>4. Started' = Started
  BY <1>1 DEF Started
<1>5. RunsFit' /\ Numbered' /\ EntriesFit' /\ RunnerFits' /\ Deleted'
  BY <1>1, <1>4 DEF IInv, RunsFit, Numbered, EntriesFit, RunnerFits, Deleted
<1>6. Replaced'
  BY <1>1, <1>4 DEF IInv, Replaced
<1>7. ClicksFit'
  BY <1>1 DEF IInv, ClicksFit, Killed, Cancels
<1> QED BY <1>2, <1>3, <1>5, <1>6, <1>7 DEF IInv

\* Every step keeps the invariant.
LEMMA NextInv ==
    ASSUME IInv, [Next]_vars
    PROVE  IInv'
<1>1. CASE Store
  BY <1>1, StartGrantedInv, StartPointlessInv, StartRefusedInv, StartMissingInv,
     CommitLaunchInv, CommitFinishInv, CommitFailInv, CommitClickInv,
     LaunchFailsInv, FinishFailsInv, FailFailsInv, ClickFailsInv DEF Store
<1>2. ASSUME NEW r \in Runs, RunStep(r)
      PROVE  IInv'
  BY <1>2, PreparedInv, SettleInv, LoseInv, WakeNextInv, DrainInv DEF RunStep
<1>3. ASSUME NEW k \in Clicks, Archive(k)
      PROVE  IInv'
  BY <1>3, ArchiveInv
<1>4. CASE Process
  BY <1>4, ProcessInv
<1>5. ASSUME NEW a \in Agents, NEW c \in Channels, Post(a, c)
      PROVE  IInv'
  BY <1>5, PostInv
<1>6. ASSUME NEW k \in Clicks, NEW a \in Agents, NEW op \in Ops, Click(k, a, op)
      PROVE  IInv'
  BY <1>6, ClickInv
<1>7. CASE Restart
  BY <1>7, RestartInv
<1>8. CASE UNCHANGED vars
  BY <1>8, StutterInv
<1> QED BY <1>1, <1>2, <1>3, <1>4, <1>5, <1>6, <1>7, <1>8 DEF Next

\* The invariant holds in every state of the scheduler, whatever writes fail.
THEOREM Invariance == Spec => []IInv
<1>1. Init => IInv
  BY InitInv
<1>2. IInv /\ [Next]_vars => IInv'
  BY NextInv
<1> QED BY <1>1, <1>2, PTL DEF Spec

\* The scheduler's variables hold values of their types: the numbers of runs in
\* the Maps, the wakes that are deferred and the mutations in the store's queue.
THEOREM TypeCorrect == Spec => []TypeOK
<1>1. IInv => TypeOK
  BY DEF IInv
<1> QED BY <1>1, Invariance, PTL

\* Deferred wakes coalesce: an agent owes each channel at most one turn (deferWake).
THEOREM WakesCoalesce == Spec => []Coalesced
<1>1. IInv => Coalesced
  BY DEF IInv
<1> QED BY <1>1, Invariance, PTL

\* A run whose process a request killed is never put on record as completed or as
\* failed, even if the process had finished when the request came (CodexRunner.run
\* tests the cancellation first, and nothing overtakes it in the store's queue).
THEOREM KillsAreRecorded == Spec => []KilledIsCancelled
<1>1. IInv => KilledIsCancelled
  <2> SUFFICES ASSUME IInv, NEW k \in Clicks, click[k].killed # 0
               PROVE  run[click[k].killed].status \in Active \cup {"cancelled", "removed"}
    BY DEF KilledIsCancelled
  <2>1. click[k].killed \in Runs /\ Killed(click[k].killed)
    BY DEF IInv, TypeOK, ClicksFit
  <2>2. phase[click[k].killed] = "codex" => run[click[k].killed].status \in {"running", "removed"}
    BY <2>1 DEF IInv, RunsFit
  <2> QED BY <2>1, <2>2 DEF Killed, Active
<1> QED BY <1>1, Invariance, PTL

-----------------------------------------------------------------------------
(* What is on record when an execution ends. *)

\* What a step leaves on record of run r.
Lasts(r) ==
    /\ run[r].status # "none" => run'[r].agent = run[r].agent
    /\ run[r].status # "none" => run'[r].status # "none"
    /\ run[r].status \notin Active \cup {"none"} => run'[r].status \notin Active
    /\ phase'[r] \in Past => phase[r] \in Past \/ run'[r].status \notin Active

\* An agent that a step leaves busy has a run.
Keeps(a) == status'[a] = "busy" => exec'[a] # 0 /\ run'[exec'[a]].status \in Active

\* A request that a step leaves past its await found its run over.
Waits(k) ==
    (click'[k].run # 0 /\ click'[k].phase \in Late)
        => \/ click'[k].run = click[k].run /\ click[k].phase \in Late
           \/ Finished(click'[k].run) /\ run[click'[k].run].status # "none"

\* What is to be shown of a step for Ends.
LEMMA EndsStep ==
    ASSUME IInv, IInv', Ends, \A r \in Runs : Lasts(r), \A a \in Agents : Keeps(a),
           \A k \in Clicks : Waits(k)
    PROVE  Ends'
<1>1. EndsRecorded'
  <2>1. \A r \in Runs : phase[r] \in Past => run[r].status \notin Active \cup {"none"}
    BY DEF Ends, EndsRecorded, IInv, RunsFit, Past
  <2> QED BY <2>1 DEF EndsRecorded, Lasts
<1>2. BusyHasRun'
  BY DEF IInv, EntriesFit, Keeps, BusyHasRun
<1>3. ASSUME NEW k \in Clicks, click'[k].run # 0, click'[k].phase \in Late
      PROVE  \/ run'[click'[k].run].status \notin Active
             \/ \E s \in Started' : s > click'[k].run /\ run'[s].agent = run'[click'[k].run].agent
  <2> DEFINE r == click'[k].run
  <2>1. r \in Runs
    BY <1>3 DEF IInv, TypeOK
  <2>2. Finished(r) /\ run[r].status # "none"
    <3>1. CASE click'[k].run = click[k].run /\ click[k].phase \in Late
      BY <1>3, <3>1 DEF Ends, StopWaitsForRun, Finished, Late, IInv, ClicksFit
    <3> QED BY <1>3, <3>1 DEF Waits
  <2> HIDE DEF r
  <2>3. CASE run[r].status \notin Active
    <3>1. run'[r].status \notin Active
      BY <2>1, <2>2, <2>3 DEF Lasts
    <3> QED BY <3>1 DEF r
  <2>4. CASE \E s \in Started : s > r /\ run[s].agent = run[r].agent
    <3>1. PICK s \in Started : s > r /\ run[s].agent = run[r].agent
      BY <2>4
    <3>2. s \in Started' /\ run'[s].agent = run'[r].agent
      BY <2>1, <2>2, <3>1 DEF Started, Lasts
    <3> QED BY <3>1, <3>2 DEF r
  <2> QED BY <2>2, <2>3, <2>4 DEF Finished
<1>4. StopWaitsForRun'
  BY <1>3 DEF StopWaitsForRun, Late
<1> QED BY <1>1, <1>2, <1>4 DEF Ends

\* An agent that was busy still is, with the run it had.
LEMMA BusyStays ==
    ASSUME IInv, Ends, NEW a \in Agents,
           status'[a] = "busy" =>
               /\ status[a] = "busy"
               /\ exec'[a] = exec[a]
               /\ \A r \in Runs : run[r].agent = a /\ run[r].status \in Active => run'[r].status \in Active
    PROVE  Keeps(a)
<1>1. status[a] = "busy" => /\ exec[a] # 0 /\ exec[a] \in Runs
                            /\ run[exec[a]].agent = a /\ run[exec[a]].status \in Active
  BY DEF IInv, TypeOK, Ends, BusyHasRun
<1> QED BY <1>1 DEF Keeps

\* The requests K go on after their await.
LEMMA ResumedWaits ==
    ASSUME IInv, NEW K \in SUBSET Clicks, NEW q, Resume(K, q),
           \A k \in K : Finished(click[k].run)
    PROVE  \A k \in Clicks : Waits(k)
<1>1. click' = [k \in Clicks |->
          IF k \in K
          THEN [click[k] EXCEPT !.phase = IF click[k].op = "delete" THEN "archiving" ELSE "writing"]
          ELSE click[k]]
  BY DEF Resume
<1>2. \A k \in Clicks : click[k] \in Requests /\ (click[k].run # 0 => run[click[k].run].status # "none")
  BY Types DEF IInv, ClicksFit, ClickTypes
<1>3. ASSUME NEW k \in Clicks
      PROVE  Waits(k)
  <2>1. CASE k \notin K
    <3>1. click'[k] = click[k]
      BY <1>1, <2>1
    <3> QED BY <3>1 DEF Waits
  <2>2. CASE k \in K
    <3>1. PICK p \in ClickPhases : click'[k] = [click[k] EXCEPT !.phase = p]
      BY <1>1, <2>2 DEF ClickPhases
    <3>2. click'[k].run = click[k].run
      BY <1>2, <3>1, GoesOn
    <3> QED BY <1>2, <2>2, <3>2 DEF Waits
  <2> QED BY <2>1, <2>2
<1> QED BY <1>3

\* Nobody is resumed by the end of an execution before its run is over.
LEMMA OverWaits ==
    ASSUME IInv, Ends, NEW r \in Runs, phase[r] \in Past, NEW q, Over(r, q)
    PROVE  \A k \in Clicks : Waits(k)
<1>1. run[r].status \notin Active
  BY DEF Ends, EndsRecorded
<1>2. Resume(Awaiting(r), q)
  BY <1>1 DEF Over
<1>3. Awaiting(r) \in SUBSET Clicks /\ \A k \in Awaiting(r) : Finished(click[k].run)
  BY <1>1 DEF Awaiting, Finished
<1> QED BY <1>2, <1>3, ResumedWaits

\* A request goes on with what it was about.
LEMMA SameRunWaits ==
    ASSUME \A k \in Clicks : /\ click'[k].run = click[k].run
                             /\ click'[k].phase \in Late => click[k].phase \in Late
    PROVE  \A k \in Clicks : Waits(k)
  BY DEF Waits

\* A step that records nothing.
LEMMA NothingRecorded ==
    ASSUME IInv, IInv', Ends, UNCHANGED <<status, run>>,
           \A r \in Runs : phase'[r] \in Past => phase[r] \in Past,
           \/ exec' = exec
           \/ \E r \in Runs : phase[r] \in Past /\ exec' = Forget(exec, r),
           \A k \in Clicks : Waits(k)
    PROVE  Ends'
<1>1. \A r \in Runs : Lasts(r)
  BY DEF Lasts
<1>2. ASSUME NEW a \in Agents
      PROVE  Keeps(a)
  <2>1. CASE exec' = exec
    BY <2>1, BusyStays
  <2>2. ASSUME NEW r \in Runs, phase[r] \in Past, exec' = Forget(exec, r)
        PROVE  Keeps(a)
    <3>1. run[r].status \notin Active
      BY <2>2 DEF Ends, EndsRecorded
    <3>2. status[a] = "busy" => exec[a] # r
      BY <3>1 DEF Ends, BusyHasRun
    <3>3. exec'[a] = IF exec[a] = r THEN 0 ELSE exec[a]
      BY <2>2 DEF Forget
    <3> QED BY <3>2, <3>3, BusyStays
  <2> QED BY <2>1, <2>2
<1> QED BY <1>1, <1>2, EndsStep

\* An asker's answer: what it did before it queued its mutation is past.
LEMMA AskerPast ==
    ASSUME IInv, HeadIs("start"), NEW by, by = Head(queue).by
    PROVE  /\ by \in Runs \cup {0}
           /\ by # 0 => phase[by] \in Past
           /\ phase \in [Runs -> Phases]
           /\ Drainer(by) => by \in Runs
<1>1. /\ by \in Runs \cup {0}
      /\ by # 0 => phase[by] \in {"waiting", "draining"}
      /\ phase \in [Runs -> Phases]
  BY HeadOfStart
<1> QED BY <1>1 DEF Past, Drainer

\* The asker goes on, whatever the answer.
LEMMA AfterPast ==
    ASSUME IInv, HeadIs("start"), NEW by, by = Head(queue).by, NEW p, phase' = After(by, p)
    PROVE  \A r \in Runs : phase'[r] \in Past => phase[r] \in Past
  BY AskerPast DEF After

\* A run is created.
LEMMA StartGrantedEnds ==
    ASSUME IInv, IInv', Ends, StartGranted
    PROVE  Ends'
<1> DEFINE a == Head(queue).agent
           w == Head(queue).wake
           by == Head(queue).by
           r == Cardinality(Started) + 1
           q == Append(Tail(queue), RunMutation("launch", r))
           rec == [agent |-> a, chan |-> w.chan, trace |-> w.trace, status |-> "queued"]
<1>b. /\ HeadIs("start")
      /\ r \in Runs
      /\ run' = [run EXCEPT ![r] = rec]
      /\ status' = [status EXCEPT ![a] = "busy"]
      /\ Drainer(by) => /\ phase' = [phase EXCEPT ![r] = "queued", ![by] = "done"]
                        /\ exec' = [Forget(exec, by) EXCEPT ![a] = r]
                        /\ Over(by, q)
      /\ ~Drainer(by) => /\ phase' = [After(by, "waking") EXCEPT ![r] = "queued"]
                         /\ exec' = [exec EXCEPT ![a] = r]
                         /\ Resume({}, q)
  BY DEF StartGranted
<1>1. /\ a \in Agents /\ rec.agent = a /\ rec.status = "queued"
      /\ by \in Runs \cup {0} /\ (by # 0 => phase[by] \in Past) /\ phase \in [Runs -> Phases]
      /\ Drainer(by) => by \in Runs /\ phase[by] \in Past
  <2>1. a \in Agents
    BY <1>b, HeadOfStart
  <2> QED BY <1>b, <2>1, AskerPast, RunsArePositive
<1>2. run[r].status = "none" /\ phase[r] = "none" /\ by # r
  <2>1. run[r].status = "none"
    BY <1>b, Fresh DEF IInv
  <2>2. phase[r] = "none"
    BY <1>b, <2>1 DEF IInv, RunsFit
  <2> QED BY <1>b, <1>1, <2>1, <2>2, RunsArePositive DEF Past
<1> HIDE DEF a, w, by, r, q, rec
<1>3. /\ run'[r].agent = a /\ run'[r].status = "queued"
      /\ \A s \in Runs : s # r => run'[s] = run[s]
  BY <1>b, <1>1 DEF IInv, TypeOK
<1>4. \A s \in Runs : phase'[s] \in Past => phase[s] \in Past /\ s # r
  <2>1. phase'[r] = "queued"
    BY <1>b, <1>1, <1>2 DEF After
  <2>2. \A s \in Runs : s # r /\ phase'[s] \in Past => phase[s] \in Past
    BY <1>b, <1>1, <1>2 DEF After
  <2> QED BY <2>1, <2>2 DEF Past
<1>5. \A s \in Runs : Lasts(s)
  BY <1>2, <1>3, <1>4 DEF Lasts
<1>6. ASSUME NEW b \in Agents
      PROVE  Keeps(b)
  <2>1. CASE b = a
    <3>1. exec'[a] = r
      BY <1>b, <1>1 DEF IInv, TypeOK, Forget
    <3> QED BY <1>3, <1>b, <2>1, <3>1, RunsArePositive DEF Keeps, Active
  <2>2. CASE b # a
    <3>1. status'[b] = status[b]
      BY <1>b, <2>2 DEF IInv, TypeOK
    <3>2. exec'[b] = IF Drainer(by) /\ exec[b] = by THEN 0 ELSE exec[b]
      BY <1>b, <1>1, <2>2 DEF IInv, TypeOK, Forget
    <3>3. Drainer(by) => run[by].status \notin Active
      BY <1>1 DEF Ends, EndsRecorded
    <3>4. status[b] = "busy" => exec[b] # 0 /\ exec[b] \in Runs /\ run[exec[b]].status \in Active
      BY DEF IInv, TypeOK, Ends, BusyHasRun
    <3>5. status[b] = "busy" => exec[b] # r
      BY <1>2, <3>4 DEF Active
    <3> QED BY <1>3, <3>1, <3>2, <3>3, <3>4, <3>5 DEF Keeps
  <2> QED BY <2>1, <2>2
<1>7. \A k \in Clicks : Waits(k)
  <2>1. CASE Drainer(by)
    BY <1>b, <1>1, <2>1, OverWaits
  <2>2. CASE ~Drainer(by)
    BY <1>b, <2>2, ResumedWaits
  <2> QED BY <2>1, <2>2
<1> QED BY <1>5, <1>6, <1>7, EndsStep

\* startRun finds nothing new.
LEMMA StartPointlessEnds ==
    ASSUME IInv, IInv', Ends, StartPointless
    PROVE  Ends'
<1> DEFINE by == Head(queue).by
           p == IF Drainer(by) THEN "settling" ELSE "waking"
<1>b. HeadIs("start") /\ phase' = After(by, p) /\ UNCHANGED <<status, run, exec, click>>
  BY DEF StartPointless
<1> HIDE DEF p
<1>1. \A r \in Runs : phase'[r] \in Past => phase[r] \in Past
  BY <1>b, AfterPast
<1>2. \A k \in Clicks : Waits(k)
  BY <1>b, SameRunWaits
<1> QED BY <1>b, <1>1, <1>2, NothingRecorded

\* startRun finds the agent busy, stopped or closed.
LEMMA StartRefusedEnds ==
    ASSUME IInv, IInv', Ends, StartRefused
    PROVE  Ends'
<1> DEFINE by == Head(queue).by
           t == Tail(queue)
<1>b. /\ HeadIs("start")
      /\ Drainer(by) => phase' = After(by, "done") /\ exec' = Forget(exec, by) /\ Over(by, t)
      /\ ~Drainer(by) => phase' = After(by, "waking") /\ exec' = exec /\ Resume({}, t)
      /\ UNCHANGED <<status, run>>
  BY DEF StartRefused
<1>1. \A r \in Runs : phase'[r] \in Past => phase[r] \in Past
  BY <1>b, AfterPast
<1>2. Drainer(by) => by \in Runs /\ phase[by] \in Past
  BY <1>b, AskerPast, RunsArePositive
<1> HIDE DEF by, t
<1>3. \A k \in Clicks : Waits(k)
  <2>1. CASE Drainer(by)
    BY <1>b, <1>2, <2>1, OverWaits
  <2>2. CASE ~Drainer(by)
    BY <1>b, <2>2, ResumedWaits
  <2> QED BY <2>1, <2>2
<1>4. exec' = exec \/ \E r \in Runs : phase[r] \in Past /\ exec' = Forget(exec, r)
  BY <1>b, <1>2
<1> QED BY <1>b, <1>1, <1>3, <1>4, NothingRecorded

\* startRun finds no agent, or is not written.
LEMMA StartMissingEnds ==
    ASSUME IInv, IInv', Ends, StartMissing
    PROVE  Ends'
<1> DEFINE by == Head(queue).by
           t == Tail(queue)
           q == IF by = 0 THEN t ELSE Append(t, RunMutation("failed", by))
<1>b. /\ HeadIs("start")
      /\ Drainer(by) => phase' = After(by, "done") /\ exec' = Forget(exec, by) /\ Over(by, t)
      /\ ~Drainer(by) => phase' = After(by, "failing") /\ exec' = exec /\ Resume({}, q)
      /\ UNCHANGED <<status, run>>
  BY DEF StartMissing
<1>1. \A r \in Runs : phase'[r] \in Past => phase[r] \in Past
  BY <1>b, AfterPast
<1>2. Drainer(by) => by \in Runs /\ phase[by] \in Past
  BY <1>b, AskerPast, RunsArePositive
<1> HIDE DEF by, t, q
<1>3. \A k \in Clicks : Waits(k)
  <2>1. CASE Drainer(by)
    BY <1>b, <1>2, <2>1, OverWaits
  <2>2. CASE ~Drainer(by)
    BY <1>b, <2>2, ResumedWaits
  <2> QED BY <2>1, <2>2
<1>4. exec' = exec \/ \E r \in Runs : phase[r] \in Past /\ exec' = Forget(exec, r)
  BY <1>b, <1>2
<1> QED BY <1>b, <1>1, <1>3, <1>4, NothingRecorded

\* A step in the course of run r's execution, which records x of it.
LEMMA CourseEnds ==
    ASSUME IInv, IInv', Ends, NEW r \in Runs, run[r].status # "none", NEW p, NEW x \in RunStatuses \ {"none"},
           phase' = [phase EXCEPT ![r] = p], run' = [run EXCEPT ![r].status = x],
           run[r].status \notin Active => x \notin Active,
           p \in Past => x \notin Active,
           run[r].status \in Active /\ x \notin Active => status'[run[r].agent] # "busy",
           \A a \in Agents : status'[a] = "busy" => status[a] = "busy",
           exec' = exec, click' = click
    PROVE  Ends'
<1>1. /\ \A s \in Runs : run'[s].agent = run[s].agent /\ run'[s].status = IF s = r THEN x ELSE run[s].status
  BY Types, Recorded DEF IInv
<1>2. \A s \in Runs : phase'[s] = IF s = r THEN p ELSE phase[s]
  BY DEF IInv, TypeOK
<1>3. \A s \in Runs : Lasts(s)
  BY <1>1, <1>2 DEF Lasts
<1>4. \A a \in Agents : Keeps(a)
  BY <1>1, BusyStays
<1>5. \A k \in Clicks : Waits(k)
  BY SameRunWaits
<1> QED BY <1>3, <1>4, <1>5, EndsStep

\* What a run's end makes of its agent.
LEMMA EndedFacts ==
    ASSUME IInv, NEW a \in Agents, NEW after \in {"ready", "error"}, Ended(a, after)
    PROVE  /\ status'[a] # "busy"
           /\ \A b \in Agents : status'[b] = "busy" => status[b] = "busy"
  BY DEF IInv, TypeOK, Ended

\* A run that was queued runs.
LEMMA CommitLaunchEnds ==
    ASSUME IInv, IInv', Ends, CommitLaunch
    PROVE  Ends'
<1> DEFINE r == Head(queue).run
           p == IF run[r].agent \in cancelReq THEN "failing" ELSE "prepare"
           x == IF run[r].status = "removed" THEN "removed" ELSE "running"
<1>b. /\ queue # <<>> /\ Head(queue).op = "launch"
      /\ phase' = [phase EXCEPT ![r] = p]
      /\ run' = [run EXCEPT ![r].status = x]
      /\ UNCHANGED <<status, exec, click>>
  BY DEF CommitLaunch, HeadIs, Launch
<1>1. r \in Runs /\ phase[r] = "queued" /\ run[r].status # "none" /\ run[r].agent \in Agents
  BY <1>b, HeadOfRun
<1>2. run[r].status \in {"queued", "removed"}
  BY <1>1 DEF IInv, RunsFit
<1>3. /\ x \in RunStatuses \ {"none"} /\ p \notin Past
      /\ run[r].status \notin Active => x \notin Active
  BY <1>2 DEF RunStatuses, Active, Past
<1>4. run[r].status \in Active => x \in Active
  BY <1>2 DEF Active
<1> HIDE DEF r, p, x
<1> QED BY <1>b, <1>1, <1>3, <1>4, CourseEnds

\* finishRun's mutation commits: a run whose agent is gone was removed with it.
LEMMA CommitFinishEnds ==
    ASSUME IInv, IInv', Ends, CommitFinish
    PROVE  Ends'
<1> DEFINE r == Head(queue).run
           a == run[r].agent
           x == IF Stored(r) THEN "completed" ELSE run[r].status
<1>b. /\ queue # <<>> /\ Head(queue).op = "completed"
      /\ run' = [run EXCEPT ![r].status = x]
      /\ Ended(a, "ready")
      /\ \E p \in {"waking", "losing"} : phase' = [phase EXCEPT ![r] = p]
      /\ UNCHANGED <<exec, click>>
  BY DEF CommitFinish, HeadIs
<1>1. /\ r \in Runs /\ phase[r] = "replying" /\ a \in Agents
      /\ run[r].status # "none" /\ run[r] \in RunRecords
  BY <1>b, HeadOfRun
<1>2. x \in RunStatuses \ {"none"} /\ x \notin Active
  BY <1>1 DEF IInv, Deleted, Stored, RunStatuses, RunRecords, Active, Terminal
<1>3. /\ status'[a] # "busy"
      /\ \A b \in Agents : status'[b] = "busy" => status[b] = "busy"
  BY <1>b, <1>1, EndedFacts
<1>4. PICK p \in {"waking", "losing"} : phase' = [phase EXCEPT ![r] = p]
  BY <1>b
<1> HIDE DEF r, x
<1>5. status'[run[r].agent] # "busy"
  BY <1>3
<1> QED BY <1>b, <1>1, <1>2, <1>3, <1>4, <1>5, CourseEnds

\* The catch's mutation commits.
LEMMA CommitFailEnds ==
    ASSUME IInv, IInv', Ends, CommitFail
    PROVE  Ends'
<1> DEFINE r == Head(queue).run
           a == run[r].agent
           how == Head(queue).op
           x == IF run[r].status = "removed" THEN run[r].status ELSE how
<1>b. /\ queue # <<>> /\ how \in {"failed", "cancelled"}
      /\ run' = [run EXCEPT ![r].status = x]
      /\ Ended(a, IF how = "cancelled" THEN "ready" ELSE "error")
      /\ phase' = [phase EXCEPT ![r] = "settling"]
      /\ UNCHANGED <<exec, click>>
  BY DEF CommitFail
<1>1. /\ r \in Runs /\ phase[r] = "failing" /\ a \in Agents
      /\ run[r].status # "none" /\ run[r] \in RunRecords
  BY <1>b, HeadOfRun
<1>2. x \in RunStatuses \ {"none"} /\ x \notin Active
  BY <1>b DEF RunStatuses, Active, Terminal
<1>3. /\ status'[a] # "busy"
      /\ \A b \in Agents : status'[b] = "busy" => status[b] = "busy"
  <2>1. (IF how = "cancelled" THEN "ready" ELSE "error") \in {"ready", "error"}
    OBVIOUS
  <2> QED BY <1>b, <1>1, <2>1, EndedFacts
<1> HIDE DEF r, x
<1>4. status'[run[r].agent] # "busy"
  BY <1>3
<1> QED BY <1>b, <1>1, <1>2, <1>3, <1>4, CourseEnds

\* finishRun's mutation fails.
LEMMA FinishFailsEnds ==
    ASSUME IInv, IInv', Ends, FinishFails
    PROVE  Ends'
<1> DEFINE r == Head(queue).run
<1>1. /\ HeadIs("completed") /\ phase' = [phase EXCEPT ![r] = "failing"]
      /\ UNCHANGED <<status, run, exec, click>>
  BY DEF FinishFails
<1>2. \A s \in Runs : phase'[s] \in Past => phase[s] \in Past
  BY <1>1 DEF IInv, TypeOK, Past
<1>3. \A k \in Clicks : Waits(k)
  BY <1>1, SameRunWaits
<1> QED BY <1>1, <1>2, <1>3, NothingRecorded

\* A request's mutation is answered.
LEMMA AnsweredWaits ==
    ASSUME IInv, HeadIs("click"), Answers(Head(queue).click)
    PROVE  \A k \in Clicks : Waits(k)
<1> DEFINE k == Head(queue).click
<1>1. k \in Clicks /\ click[k].phase = "writing" /\ Answered({k})
  BY HeadOfClick
<1> HIDE DEF k
<1>2. \A l \in Clicks : click'[l].run = click[l].run /\ (click'[l].phase \in Late => click[l].phase \in Late)
  BY <1>1 DEF Answered, Late
<1> QED BY <1>2, SameRunWaits

\* The request's mutation fails.
LEMMA ClickFailsEnds ==
    ASSUME IInv, IInv', Ends, ClickFails
    PROVE  Ends'
<1>1. HeadIs("click") /\ Answers(Head(queue).click) /\ UNCHANGED <<status, run, phase, exec>>
  BY DEF ClickFails, Answers
<1>2. \A k \in Clicks : Waits(k)
  BY <1>1, AnsweredWaits
<1> QED BY <1>1, <1>2, NothingRecorded

\* The request's mutation commits.
LEMMA CommitClickEnds ==
    ASSUME IInv, IInv', Ends, CommitClick
    PROVE  Ends'
<1> DEFINE k == Head(queue).click
           a == click[k].agent
           op == click[k].op
<1>b. /\ HeadIs("click") /\ Answers(k)
      /\ status' = [status EXCEPT ![a] = NewStatus(status[a], op)]
      /\ run' = [r \in Runs |->
            IF op = "delete" /\ run[r].agent = a /\ run[r].status # "none"
            THEN [run[r] EXCEPT !.status = "removed"]
            ELSE run[r]]
      /\ UNCHANGED <<phase, exec>>
  BY DEF CommitClick, Answers
<1>1. a \in Agents /\ op \in {"start", "stop", "close", "delete"}
  BY <1>b, HeadOfClick, SchedulerAssumption
<1>2. \A k_1 \in Clicks : Waits(k_1)
  BY <1>b, AnsweredWaits
<1> HIDE DEF a, op, k
<1>3. /\ \A b \in Agents : b # a => status'[b] = status[b]
      /\ status'[a] = "busy" => status[a] = "busy" /\ op # "delete"
  <2>1. /\ status'[a] = NewStatus(status[a], op) /\ status[a] \in Statuses
        /\ \A b \in Agents : b # a => status'[b] = status[b]
    BY <1>b, <1>1 DEF IInv, TypeOK
  <2>2. NewStatus(status[a], op) = "busy" => status[a] = "busy" /\ op # "delete"
    BY <1>1, <2>1, NewStatusFacts
  <2> QED BY <2>1, <2>2
<1>4. ASSUME NEW r \in Runs
      PROVE  /\ run'[r].agent = run[r].agent
             /\ run'[r].status = IF op = "delete" /\ run[r].agent = a /\ run[r].status # "none"
                                 THEN "removed" ELSE run[r].status
  <2>1. run[r] \in RunRecords
    BY Types DEF IInv
  <2>2. [run[r] EXCEPT !.status = "removed"].agent = run[r].agent
        /\ [run[r] EXCEPT !.status = "removed"].status = "removed"
    BY <2>1 DEF RunRecords
  <2> QED BY <1>b, <2>2
<1>5. \A r \in Runs : Lasts(r)
  BY <1>b, <1>4 DEF Lasts, Active
<1>6. \A b \in Agents : Keeps(b)
  <2>1. ASSUME NEW b \in Agents
        PROVE  status'[b] = "busy" =>
                  /\ status[b] = "busy" /\ exec'[b] = exec[b]
                  /\ \A r \in Runs : run[r].agent = b /\ run[r].status \in Active => run'[r].status \in Active
    BY <1>b, <1>3, <1>4
  <2> QED BY <2>1, BusyStays
<1> QED BY <1>2, <1>5, <1>6, EndsStep

\* An execution goes on, and nothing is recorded.
LEMMA RunGoesOn ==
    ASSUME IInv, IInv', Ends, NEW r \in Runs, NEW p, phase' = [phase EXCEPT ![r] = p],
           p \in Past => phase[r] \in Past,
           UNCHANGED <<status, run>>,
           exec' = exec \/ (phase[r] \in Past /\ exec' = Forget(exec, r)),
           \A k \in Clicks : Waits(k)
    PROVE  Ends'
<1>1. \A s \in Runs : phase'[s] \in Past => phase[s] \in Past
  BY DEF IInv, TypeOK
<1> QED BY <1>1, NothingRecorded

\* The process is started, or the run fails before that.
LEMMA PreparedEnds ==
    ASSUME IInv, IInv', Ends, NEW r \in Runs, Prepared(r)
    PROVE  Ends'
<1>1. PICK p \in {"codex", "failing"} : phase' = [phase EXCEPT ![r] = p]
  BY DEF Prepared
<1>2. UNCHANGED <<status, run, exec, click>>
  BY DEF Prepared
<1>3. \A k \in Clicks : Waits(k)
  BY <1>2, SameRunWaits
<1>4. p \notin Past
  BY DEF Past
<1> QED BY <1>1, <1>2, <1>3, <1>4, RunGoesOn

\* runner.run settles: who cancelled it awaits the execution, unless a newer one
\* has taken its entry.
LEMMA SettleEnds ==
    ASSUME IInv, IInv', Ends, NEW r \in Runs, Settle(r)
    PROVE  Ends'
<1> DEFINE a == run[r].agent
           u == Append(queue, RunMutation(Result(a), r))
<1>1. /\ phase[r] = "codex"
      /\ UNCHANGED <<status, run, exec>>
      /\ exec[a] = 0 => Resume(Killing(r), u)
      /\ exec[a] # 0 => click' = [k \in Clicks |->
                           IF k \in Killing(r)
                           THEN [click[k] EXCEPT !.phase = "awaiting", !.run = exec[a]]
                           ELSE click[k]]
  BY DEF Settle
<1>2. PICK p \in {"replying", "failing"} : phase' = [phase EXCEPT ![r] = p]
  BY DEF Settle
<1>3. p \notin Past
  BY DEF Past
<1> HIDE DEF u
<1>4. \A k \in Clicks : Waits(k)
  <2>1. CASE exec[a] = 0
    <3>1. Finished(r)
      BY <1>1, <2>1, RunsArePositive DEF IInv, Replaced, Finished
    <3>2. Killing(r) \in SUBSET Clicks /\ \A k \in Killing(r) : Finished(click[k].run)
      BY <3>1 DEF Killing
    <3> QED BY <1>1, <2>1, <3>2, ResumedWaits
  <2>2. CASE exec[a] # 0
    <3>1. ASSUME NEW k \in Clicks
          PROVE  Waits(k)
      <4>1. CASE k \in Killing(r)
        <5>1. click[k] \in Requests
          BY Types DEF IInv, ClickTypes
        <5>2. click'[k].phase = "awaiting"
          BY <1>1, <2>2, <4>1, <5>1 DEF Requests
        <5> QED BY <5>2 DEF Waits, Late
      <4>2. CASE k \notin Killing(r)
        <5>1. click'[k] = click[k]
          BY <1>1, <2>2, <4>2
        <5> QED BY <5>1 DEF Waits
      <4> QED BY <4>1, <4>2
    <3> QED BY <3>1
  <2> QED BY <2>1, <2>2
<1> QED BY <1>1, <1>2, <1>3, <1>4, RunGoesOn

\* regenerateAfterConflict defers the next turn.
LEMMA LoseEnds ==
    ASSUME IInv, IInv', Ends, NEW r \in Runs, Lose(r)
    PROVE  Ends'
<1>1. /\ phase[r] = "losing" /\ phase' = [phase EXCEPT ![r] = "settling"]
      /\ UNCHANGED <<status, run, exec, click>>
  BY DEF Lose
<1>2. \A k \in Clicks : Waits(k)
  BY <1>1, SameRunWaits
<1>3. phase[r] \in Past
  BY <1>1 DEF Past
<1> QED BY <1>1, <1>2, <1>3, RunGoesOn

\* wakeMembers wakes one member.
LEMMA WakeNextEnds ==
    ASSUME IInv, IInv', Ends, NEW r \in Runs, WakeNext(r)
    PROVE  Ends'
<1>1. phase[r] = "waking" /\ UNCHANGED <<status, run, exec, click>>
  BY DEF WakeNext
<1>2. phase' = phase \/ \E p : phase' = [phase EXCEPT ![r] = p]
  BY DEF WakeNext
<1>3. \A s \in Runs : phase'[s] \in Past => phase[s] \in Past
  BY <1>1, <1>2 DEF IInv, TypeOK, Past
<1>4. \A k \in Clicks : Waits(k)
  BY <1>1, SameRunWaits
<1> QED BY <1>1, <1>3, <1>4, NothingRecorded

\* drainPendingWakes starts the oldest deferred wake, or the execution ends.
LEMMA DrainEnds ==
    ASSUME IInv, IInv', Ends, NEW r \in Runs, Drain(r)
    PROVE  Ends'
<1>1. phase[r] \in Past /\ UNCHANGED <<status, run>>
  BY DEF Drain, Settling, Past
<1>2. \/ phase' = [phase EXCEPT ![r] = "draining"] /\ UNCHANGED <<exec, click>>
      \/ phase' = [phase EXCEPT ![r] = "done"] /\ exec' = Forget(exec, r) /\ Over(r, queue)
  BY DEF Drain
<1>3. \A k \in Clicks : Waits(k)
  BY <1>1, <1>2, SameRunWaits, OverWaits
<1> QED BY <1>1, <1>2, <1>3, RunGoesOn

\* deleteAgent has moved the workspace.
LEMMA ArchiveEnds ==
    ASSUME IInv, IInv', Ends, NEW k \in Clicks, Archive(k)
    PROVE  Ends'
<1>1. /\ click[k].phase = "archiving" /\ click' = PutTo(click, k, "writing")
      /\ UNCHANGED <<status, run, phase, exec>>
  BY DEF Archive, PutTo
<1>2. click \in ClickTypes /\ "writing" \in ClickPhases
  BY Types DEF IInv, ClickPhases
<1>3. /\ click'[k].run = click[k].run
      /\ \A l \in Clicks : l # k => click'[l] = click[l]
  BY <1>1, <1>2, Clickable
<1>4. \A l \in Clicks : Waits(l)
  BY <1>1, <1>3, SameRunWaits DEF Late
<1> QED BY <1>1, <1>4, NothingRecorded

\* A request arrives.
LEMMA ClickEnds ==
    ASSUME IInv, IInv', Ends, NEW k \in Clicks, NEW a \in Agents, NEW op \in Ops, Click(k, a, op)
    PROVE  Ends'
<1> DEFINE Rec(p, r, kd) == [phase |-> p, op |-> op, agent |-> a, run |-> r, killed |-> kd]
<1>1. UNCHANGED <<status, run, phase, exec>>
  BY DEF Click
<1>2. \E p, r, kd : /\ click' = [click EXCEPT ![k] = Rec(p, r, kd)]
                    /\ r = 0 \/ p \in {"killing", "awaiting"}
  BY DEF Click, Cancel
<1>3. \A l \in Clicks : Waits(l)
  <2>1. PICK p, r, kd : /\ click' = [click EXCEPT ![k] = Rec(p, r, kd)]
                        /\ r = 0 \/ p \in {"killing", "awaiting"}
    BY <1>2
  <2>2. /\ click'[k].phase = p /\ click'[k].run = r
        /\ \A l \in Clicks : l # k => click'[l] = click[l]
    BY <2>1 DEF IInv, TypeOK
  <2> QED BY <2>1, <2>2 DEF Waits, Late
<1> QED BY <1>1, <1>3, NothingRecorded

\* The server restarts, and initialize() cancels what was active.
LEMMA RestartEnds ==
    ASSUME IInv, IInv', Restart
    PROVE  Ends'
<1>1. /\ \A r \in Runs : run'[r].status \notin Active
      /\ \A a \in Agents : status'[a] # "busy"
  <2>1. /\ \A r \in Runs : run'[r] = IF run[r].status \in Active
                                     THEN [run[r] EXCEPT !.status = "cancelled"] ELSE run[r]
        /\ \A a \in Agents : status'[a] = IF status[a] = "busy" THEN "ready" ELSE status[a]
    BY DEF Restart
  <2>2. \A r \in Runs : [run[r] EXCEPT !.status = "cancelled"].status = "cancelled"
    BY Types DEF IInv, RunRecords
  <2> QED BY <2>1, <2>2 DEF Active
<1>2. \A k \in Clicks : click'[k].run \in Runs \cup {0}
  BY DEF IInv, TypeOK
<1> QED BY <1>1, <1>2 DEF Ends, EndsRecorded, BusyHasRun, StopWaitsForRun

\* The head of the store's queue commits.
LEMMA StoreEnds ==
    ASSUME IInv, IInv', Ends, EndsAreWritten, Store
    PROVE  Ends'
<1>1. ~LaunchFails /\ ~FailFails
  BY DEF EndsAreWritten, LaunchFails, FailFails
<1> QED BY <1>1, StartGrantedEnds, StartPointlessEnds, StartRefusedEnds, StartMissingEnds,
     CommitLaunchEnds, CommitFinishEnds, CommitFailEnds, CommitClickEnds,
     FinishFailsEnds, ClickFailsEnds DEF Store

\* Every step keeps what holds as long as EndsAreWritten.
LEMMA NextEnds ==
    ASSUME IInv, Ends, EndsAreWritten, [Next]_vars
    PROVE  Ends'
<1>i. IInv'
  BY NextInv
<1>1. CASE Store
  BY <1>i, <1>1, StoreEnds
<1>2. ASSUME NEW r \in Runs, RunStep(r)
      PROVE  Ends'
  BY <1>i, <1>2, PreparedEnds, SettleEnds, LoseEnds, WakeNextEnds, DrainEnds DEF RunStep
<1>3. ASSUME NEW k \in Clicks, Archive(k)
      PROVE  Ends'
  BY <1>i, <1>3, ArchiveEnds
<1>4. ASSUME UNCHANGED <<status, run, phase, exec, click>>
      PROVE  Ends'
  <2>1. \A k \in Clicks : Waits(k)
    BY <1>4, SameRunWaits
  <2> QED BY <1>i, <1>4, <2>1, NothingRecorded
<1>5. CASE Process
  BY <1>4, <1>5 DEF Process, schedVars
<1>6. ASSUME NEW a \in Agents, NEW c \in Channels, Post(a, c)
      PROVE  Ends'
  BY <1>4, <1>6 DEF Post
<1>7. ASSUME NEW k \in Clicks, NEW a \in Agents, NEW op \in Ops, Click(k, a, op)
      PROVE  Ends'
  BY <1>i, <1>7, ClickEnds
<1>8. CASE Restart
  BY <1>i, <1>8, RestartEnds
<1>9. CASE UNCHANGED vars
  BY <1>4, <1>9 DEF vars, schedVars
<1> QED BY <1>1, <1>2, <1>3, <1>5, <1>6, <1>7, <1>8, <1>9 DEF Next

\* In the beginning no agent is busy.
LEMMA InitEnds ==
    ASSUME Init
    PROVE  Ends
<1>1. /\ \A r \in Runs : run[r] = NoRun /\ phase[r] = "none"
      /\ \A a \in Agents : status[a] = "ready"
      /\ \A k \in Clicks : click[k].run = 0
  BY DEF Init, NoClick
<1> QED BY <1>1 DEF Ends, EndsRecorded, BusyHasRun, StopWaitsForRun, Past

\* As long as the start and the end of a run can be written, what has ended is on
\* record as ended, a busy agent has a run, and requests find their run over.
THEOREM EndsInvariance == EndsAreWritten => (Spec => [](IInv /\ Ends))
<1> SUFFICES ASSUME EndsAreWritten
             PROVE  Spec => [](IInv /\ Ends)
  OBVIOUS
<1>1. Init => IInv /\ Ends
  BY InitInv, InitEnds
<1>2. (IInv /\ Ends) /\ [Next]_vars => (IInv /\ Ends)'
  BY NextInv, NextEnds
<1> QED BY <1>1, <1>2, PTL DEF Spec

\* Status, executions and deferred wakes agree whatever runs, requests, failed
\* writes of replies and restarts cross each other.
THEOREM Bookkeeping == EndsAreWritten => (Spec => []BookkeepingAgrees)
<1> SUFFICES ASSUME EndsAreWritten
             PROVE  Spec => []BookkeepingAgrees
  OBVIOUS
<1>1. IInv /\ Ends => BookkeepingAgrees
  BY DEF IInv, Ends, BookkeepingAgrees
<1>2. Spec => [](IInv /\ Ends)
  BY EndsInvariance
<1> QED BY <1>1, <1>2, PTL

\* Stop, close and delete do not touch an agent before the run they met is over, or
\* has been replaced by a newer one (cancelExecution).
THEOREM StopWaits == EndsAreWritten => (Spec => []StopWaitsForRun)
<1> SUFFICES ASSUME EndsAreWritten
             PROVE  Spec => []StopWaitsForRun
  OBVIOUS
<1>1. IInv /\ Ends => StopWaitsForRun
  BY DEF Ends
<1>2. Spec => [](IInv /\ Ends)
  BY EndsInvariance
<1> QED BY <1>1, <1>2, PTL

\* No execution ends and leaves its run on record as queued or running, unless the
\* write that records it fails (executeRun's catch and finally blocks).
THEOREM RunsAreEnded == EndsAreWritten => (Spec => []RunErrorsPersist)
<1> SUFFICES ASSUME EndsAreWritten
             PROVE  Spec => []RunErrorsPersist
  OBVIOUS
<1>1. IInv /\ Ends => RunErrorsPersist
  BY DEF Ends, EndsRecorded, RunErrorsPersist, Past
<1>2. Spec => [](IInv /\ Ends)
  BY EndsInvariance
<1> QED BY <1>1, <1>2, PTL

-----------------------------------------------------------------------------
(* What a step may never do. *)

\* Only the wakes of agent a change, and what was deferred with a conflict keeps it.
LEMMA RememberOne ==
    ASSUME IInv, NEW a \in Agents, NEW new, pending' = [pending EXCEPT ![a] = new],
           Remembers(pending[a], new)
    PROVE  \A b \in Agents : Remembers(pending[b], pending'[b])
<1>1. \A b \in Agents : pending'[b] = IF b = a THEN new ELSE pending[b]
  BY DEF IInv, TypeOK
<1>2. \A b \in Agents : Remembers(pending[b], pending[b])
  BY DEF IInv, Coalesced, Remembers
<1> QED BY <1>1, <1>2

\* Nothing is deferred any more.
LEMMA DropRemembers ==
    ASSUME NEW old
    PROVE  Remembers(old, <<>>)
  BY EmptySeq DEF Remembers

\* A wake is deferred.
LEMMA DeferRemembers ==
    ASSUME IInv, NEW a \in Agents, NEW w \in Wakes, pending' = [pending EXCEPT ![a] = Defer(@, w)]
    PROVE  \A b \in Agents : Remembers(pending[b], pending'[b])
<1>1. pending' = [pending EXCEPT ![a] = Defer(pending[a], w)]
  BY DEF IInv, TypeOK
<1>2. Remembers(pending[a], Defer(pending[a], w))
  BY PendingAgrees, DeferFacts DEF IInv
<1> QED BY <1>1, <1>2, RememberOne

\* The deferred wakes stay.
LEMMA SameRemembers ==
    ASSUME IInv, pending' = pending
    PROVE  \A b \in Agents : Remembers(pending[b], pending'[b])
  BY DEF IInv, Coalesced, Remembers

\* Every step keeps the conflicts of what stays deferred.
LEMMA FeedbackStep ==
    ASSUME IInv, [Next]_vars
    PROVE  \A b \in Agents : Remembers(pending[b], pending'[b])
<1> DEFINE Kept == \A b \in Agents : Remembers(pending[b], pending'[b])
<1>s. ASSUME pending' = pending
      PROVE  Kept
  BY <1>s, SameRemembers
<1>1. CASE StartRefused
  <2> DEFINE m == Head(queue)
  <2>1. m.agent \in Agents /\ m.wake \in Wakes
    BY <1>1, HeadOfStart DEF StartRefused
  <2>2. pending' = pending \/ pending' = [pending EXCEPT ![m.agent] = Defer(@, m.wake)]
    BY <1>1 DEF StartRefused
  <2> HIDE DEF m
  <2> QED BY <1>s, <2>1, <2>2, DeferRemembers
<1>2. CASE Store
  <2>1. Store => pending' = pending \/ StartRefused
    BY DEF Store, StartGranted, StartPointless, StartMissing, CommitLaunch, CommitFinish,
       CommitFail, CommitClick, LaunchFails, FinishFails, FailFails, ClickFails
  <2> QED BY <1>s, <1>1, <1>2, <2>1
<1>3. ASSUME NEW r \in Runs, RunStep(r)
      PROVE  Kept
  <2> DEFINE a == run[r].agent
             c == run[r].chan
  <2>1. /\ a \in Agents /\ c \in Channels /\ run[r].trace \in Traces
        /\ pending \in [Agents -> Seq(Wakes)]
    BY DEF IInv, TypeOK
  <2>2. CASE Prepared(r) \/ Settle(r)
    BY <1>s, <2>2 DEF Prepared, Settle
  <2>3. CASE Lose(r)
    <3>1. PICK t \in {run[r].trace} \cup (IF c \in unread[a] THEN 1..posts ELSE {}) :
              pending' = [pending EXCEPT ![a] = Defer(@, Wake(c, t, TRUE))]
      BY <2>3 DEF Lose
    <3>2. t \in Traces
      BY <2>1, <3>1, SchedulerAssumption DEF IInv, TypeOK, Traces
    <3>3. Wake(c, t, TRUE) \in Wakes
      BY <2>1, <3>2, WakeTypes
    <3> QED BY <2>1, <3>1, <3>3, DeferRemembers
  <2>4. CASE WakeNext(r)
    <3> DEFINE w == Wake(c, run[r].trace, FALSE)
    <3>1. pending' = pending \/ \E b \in todo[r] : pending' = [pending EXCEPT ![b] = Defer(@, w)]
      BY <2>4 DEF WakeNext, QueueTurn
    <3>2. w \in Wakes /\ todo[r] \subseteq Agents
      BY <2>1, WakeTypes DEF IInv, TypeOK
    <3> HIDE DEF w
    <3> QED BY <1>s, <3>1, <3>2, DeferRemembers
  <2>5. CASE Drain(r)
    <3>1. pending' = [pending EXCEPT ![a] = IF pending[a] = <<>> THEN pending[a] ELSE Tail(pending[a])]
      BY <2>1, <2>5 DEF Drain
    <3>2. CASE pending[a] = <<>>
      BY <1>s, <2>1, <3>1, <3>2
    <3>3. CASE pending[a] # <<>>
      <4>1. Remembers(pending[a], Tail(pending[a]))
        BY <2>1, <3>3, PendingAgrees, TakenOut DEF IInv
      <4>2. pending' = [pending EXCEPT ![a] = Tail(pending[a])]
        BY <3>1, <3>3
      <4> QED BY <2>1, <4>1, <4>2, RememberOne
    <3> QED BY <3>2, <3>3
  <2> QED BY <1>3, <2>2, <2>3, <2>4, <2>5 DEF RunStep
<1>4. ASSUME NEW k \in Clicks, Archive(k)
      PROVE  Kept
  BY <1>s, <1>4 DEF Archive
<1>5. CASE Process
  BY <1>s, <1>5 DEF Process, schedVars
<1>6. ASSUME NEW a \in Agents, NEW c \in Channels, Post(a, c)
      PROVE  Kept
  <2> DEFINE w == Wake(c, posts + 1, FALSE)
  <2>1. pending' = pending \/ pending' = [pending EXCEPT ![a] = Defer(@, w)]
    BY <1>6 DEF Post, QueueTurn
  <2>2. posts + 1 \in Traces
    BY <1>6, SchedulerAssumption DEF Post, IInv, TypeOK, Traces
  <2>3. w \in Wakes
    BY <2>2, WakeTypes
  <2> HIDE DEF w
  <2> QED BY <1>s, <2>1, <2>3, DeferRemembers
<1>7. ASSUME NEW k \in Clicks, NEW a \in Agents, NEW op \in Ops, Click(k, a, op)
      PROVE  Kept
  <2>1. pending' = pending \/ pending' = [pending EXCEPT ![a] = <<>>]
    BY <1>7 DEF Click, Cancel
  <2> QED BY <1>s, <2>1, DropRemembers, RememberOne
<1>8. CASE Restart
  <2>1. \A b \in Agents : pending'[b] = <<>>
    BY <1>8 DEF Restart
  <2> QED BY <2>1, DropRemembers
<1>9. CASE UNCHANGED vars
  BY <1>s, <1>9 DEF vars, schedVars
<1> QED BY <1>2, <1>3, <1>4, <1>5, <1>6, <1>7, <1>8, <1>9 DEF Next

\* A deferred regenerate turn keeps its feedback in every step, however many plain
\* wakes merge into it (deferWake).
THEOREM FeedbackIsKept == Spec => FeedbackKept
<1>1. IInv /\ [Next]_vars =>
         [\A a \in Agents : \A i \in DOMAIN pending[a], j \in DOMAIN pending'[a] :
             (pending[a][i].chan = pending'[a][j].chan /\ pending[a][i].conflict)
                 => pending'[a][j].conflict]_vars
  BY FeedbackStep DEF Remembers
<1>2. Spec => []IInv
  BY Invariance
<1> QED BY <1>1, <1>2, PTL DEF Spec, FeedbackKept

\* Whatever changes a stopped agent is a request's mutation.
LEMMA StoppedStep ==
    ASSUME IInv, [Next]_vars, NEW a \in Agents, status[a] \in {"stopped", "closed"}, status'[a] # status[a]
    PROVE  \E k \in Clicks : /\ click[k].agent = a
                             /\ click[k].phase = "writing"
                             /\ click'[k].phase = "done"
<1>1. CASE CommitClick
  <2> DEFINE k == Head(queue).click
  <2>1. HeadIs("click") /\ Answers(k) /\ status' = [status EXCEPT ![click[k].agent] = NewStatus(@, click[k].op)]
    BY <1>1 DEF CommitClick, Answers
  <2>2. k \in Clicks /\ click[k].phase = "writing" /\ click'[k].phase = "done"
    BY <2>1, HeadOfClick
  <2>3. click[k].agent = a
    BY <2>1 DEF IInv, TypeOK
  <2> QED BY <2>2, <2>3
<1>2. ~StartGranted
  BY DEF StartGranted, IInv, TypeOK
<1>3. ~CommitFinish
  BY DEF CommitFinish, Ended, IInv, TypeOK
<1>4. ~CommitFail
  BY DEF CommitFail, Ended, IInv, TypeOK
<1>5. ~Restart
  BY DEF Restart
<1>6. CASE Store
  <2>1. Store => CommitClick \/ StartGranted \/ CommitFinish \/ CommitFail \/ status' = status
    BY DEF Store, StartPointless, StartRefused, StartMissing, CommitLaunch, LaunchFails,
       FinishFails, FailFails, ClickFails
  <2> QED BY <1>1, <1>2, <1>3, <1>4, <1>6, <2>1
<1>7. ~\E r \in Runs : RunStep(r)
  BY DEF RunStep, Prepared, Settle, Lose, WakeNext, Drain
<1>8. ~\E k \in Clicks : Archive(k)
  BY DEF Archive
<1>9. ~Process
  BY DEF Process, schedVars
<1>10. ~\E b \in Agents, c \in Channels : Post(b, c)
  BY DEF Post
<1>11. ~\E k \in Clicks, b \in Agents, op \in Ops : Click(k, b, op)
  BY DEF Click
<1>12. vars' # vars
  BY DEF vars, schedVars
<1> QED BY <1>5, <1>6, <1>7, <1>8, <1>9, <1>10, <1>11, <1>12 DEF Next

\* No run that ends and no restart revives an agent the human has stopped or closed:
\* only a request of the human's does (setStatus, closeSession, finishRun's guard).
THEOREM StoppedIsStopped == Spec => StoppedStays
<1>1. IInv /\ [Next]_vars =>
         [\A a \in Agents : (status[a] \in {"stopped", "closed"} /\ status'[a] # status[a])
             => \E k \in Clicks : /\ click[k].agent = a
                                  /\ click[k].phase = "writing"
                                  /\ click'[k].phase = "done"]_vars
  BY StoppedStep
<1>2. Spec => []IInv
  BY Invariance
<1> QED BY <1>1, <1>2, PTL DEF Spec, StoppedStays
=============================================================================
