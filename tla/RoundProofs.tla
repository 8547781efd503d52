----------------------------- MODULE RoundProofs -----------------------------
(***************************************************************************)
(* Proofs about the round of turns: that, when the agents of a channel     *)
(* have come to rest, everybody who takes part has been shown what was     *)
(* said last (Conversation, RoundCompletes); for every value of the        *)
(* constants that makes it a round, with one post of the human and no      *)
(* tools or failures.                                                      *)
(***************************************************************************)
EXTENDS TraceProofs

(***************************************************************************)
(* The round of turns: one post of the human, no tools or failures         *)
(***************************************************************************)
OneRound == MaxPosts = 1 /\ MaxTools = 0 /\ MayFail = FALSE /\ TurnTaking = TRUE

\* What is said is in the human's chain; an agent says it as a member, in a run of the
\* channel, and has read it.
SaidInRound(rs, rd, i, m) ==
    m.kind = "message" =>
        /\ m.trace = 1
        /\ m.author \in Agents =>
              /\ m.author \in Members[m.chan] /\ i <= rd[m.author][m.chan]
              /\ m.run \in DOMAIN rs /\ rs[m.run].chan = m.chan

\* A run is in that chain and of a member; it has been shown all that its channel had
\* when it began, and no more while it runs.
RunInRound(ms, rd, x) ==
    /\ x.trace = 1 /\ x.reply = x.chan /\ x.agent \in Members[x.chan] /\ x.at # "failed"
    /\ x.seen <= x.after /\ x.after <= Len(ms)
    /\ \A i \in In(ms, x.chan) : i <= x.after => i <= x.seen
    /\ x.seen <= rd[x.agent][x.chan]
    /\ x.at = "running" => ~x.silent /\ rd[x.agent][x.chan] = x.seen

\* Members are woken, each to answer in the channel it is woken in.
WokenInRound ==
    /\ \A k \in DOMAIN turns : turns[k].agent \in Members[turns[k].chan] /\ turns[k].reply \in {None, turns[k].chan}
    /\ \A a \in Agents : \A k \in DOMAIN pending[a] : a \in Members[pending[a][k].chan]

ReadsFit == \A a \in Agents, c \in Channels : reads[a][c] = 0 \/ reads[a][c] \in In(messages, c)

\* An agent has one run at a time, and defers wakes only meanwhile.
OneAtATime ==
    /\ \A q, r \in DOMAIN runs : runs[q].agent = runs[r].agent /\ runs[q].at \in Engaged /\ runs[r].at \in Engaged => q = r
    /\ \A a \in Agents : pending[a] # <<>> => BusyAgent(a)

\* The agent has not been shown the newest message, and is not about to answer it.
Behind(a, c) ==
    /\ messages[Newest(c)].author # a
    /\ \A r \in DOMAIN runs : runs[r].agent = a /\ runs[r].chan = c =>
          ~Running(r) /\ runs[r].seen < Newest(c)

\* A turn that is owed for a lost reply is of an agent that is behind.
LossesFit ==
    \A a \in Agents : \A k \in DOMAIN pending[a] : pending[a][k].lost > 0 => Behind(a, pending[a][k].chan)

\* The system speaks when a budget is spent.
Spent(c) == chatter[c] > ChatterBudget \/ Cardinality(RunsOf(1)) >= TraceBudget
NoticesFit == \A i \in DOMAIN messages : messages[i].kind = "system" => Spent(messages[i].chan)

RoundBase ==
    /\ chatter \in [Channels -> Nat]
    /\ messages # <<>> => messages[1].author = User
    /\ \A i \in DOMAIN messages : SaidInRound(runs, reads, i, messages[i])
    /\ \A r \in DOMAIN runs : RunInRound(messages, reads, runs[r])
    /\ WokenInRound /\ ReadsFit /\ OneAtATime /\ LossesFit /\ NoticesFit

-----------------------------------------------------------------------------
\* The round in c is on: an agent spoke last, and no budget is spent.
Open(c) == Newest(c) # 0 /\ messages[Newest(c)].author # User /\ ~Spent(c)

\* Who spoke last.
Speaker(c) == messages[Newest(c)].author

\* The runs that were shown the newest message,
Showing(c) == {r \in DOMAIN runs : runs[r].chan = c /\ runs[r].seen >= Newest(c)}
\* whose agents have been served, or have passed the turn on,
Served(c, a) == \E r \in Showing(c) : runs[r].agent = a
Passed(c, a) == \E r \in Showing(c) : runs[r].agent = a /\ runs[r].silent
\* and the agents that will yet be woken.
Owed(c, a) ==
    \/ \E k \in DOMAIN turns : turns[k].agent = a /\ turns[k].chan = c
    \/ \E k \in DOMAIN pending[a] : pending[a][k].chan = c

Order(c) == ParticipantOrder(runs, c, 1)
Follower(c, a) == NextAfter(runs, Order(c), a)

\* Somebody is served, or will be.
Seen(c, a) == Served(c, a) \/ Owed(c, a)

\* The speaker's run, which has been shown all that others had said.
SpeakersRun(c, r) ==
    /\ runs[r].agent = Speaker(c) /\ runs[r].chan = c /\ ~Running(r)
    /\ \A i \in In(messages, c) : StateBearing(i) /\ messages[i].author # Speaker(c) => i <= runs[r].seen

\* Each agent is shown the newest message once, and its speaker not again; who was shown
\* it passes the turn on; and whoever comes after one that has passed, or after the
\* speaker, is served or will be.
RoundFits(c) ==
    /\ \A q, r \in Showing(c) : runs[q].agent = runs[r].agent => q = r
    /\ \A r \in Showing(c) : runs[r].agent # Speaker(c) /\ (runs[r].silent \/ Running(r))
    /\ \E r \in DOMAIN runs : SpeakersRun(c, r)
    /\ \A a, b \in Agents : (a = Speaker(c) \/ Passed(c, a)) /\ b = Follower(c, a) /\ b # Speaker(c) => Seen(c, b)

RoundInv == ConversationInv /\ RoundBase /\ \A c \in Channels \ Dms : Open(c) => RoundFits(c)

-----------------------------------------------------------------------------
(* The order of participants. *)

\* First runs of agents, one of each.
Ordered(rs, n, order) ==
    /\ n \in Nat /\ order \subseteq 1 .. n /\ IsFiniteSet(order) /\ Cardinality(order) \in Nat
    /\ \A q, r \in order : rs[q].agent = rs[r].agent => q = r

\* r is the first run of its agent in the chain and channel.
First(rs, n, c, trace, r) ==
    /\ rs[r].chan = c /\ rs[r].trace = trace
    /\ \A q \in 1 .. n : rs[q].chan = c /\ rs[q].trace = trace /\ rs[q].agent = rs[r].agent => r <= q

\* Each participant is in the order with its first run, and only with this one.
LEMMA OrderFits ==
    ASSUME NEW rs, NEW n \in Nat, DOMAIN rs = 1 .. n, NEW c, NEW trace, NEW order, order = ParticipantOrder(rs, c, trace)
    PROVE  /\ Ordered(rs, n, order)
           /\ \A r \in 1 .. n : r \in order <=> First(rs, n, c, trace, r)
           /\ \A q \in order : rs[q].chan = c /\ rs[q].trace = trace
           /\ \A r \in 1 .. n : rs[r].chan = c /\ rs[r].trace = trace =>
                 \E q \in order : rs[q].agent = rs[r].agent /\ q <= r
<1> DEFINE mine == {r \in DOMAIN rs : rs[r].trace = trace /\ rs[r].chan = c}
<1>1. order = {r \in mine : \A q \in mine : rs[q].agent = rs[r].agent => r <= q}
  BY DEF ParticipantOrder
<1>2. mine \subseteq 1 .. n
  OBVIOUS
<1>3. order \subseteq 1 .. n
  BY <1>1, <1>2
<1>4. IsFiniteSet(order) /\ Cardinality(order) \in Nat
  <2>1. IsFiniteSet(1 .. n)
    BY FS_Interval
  <2> QED BY <1>3, <2>1, FS_Subset, FS_CardinalityType
<1>5. \A q, r \in order : rs[q].agent = rs[r].agent => q = r
  BY <1>1, <1>2
<1>6. ASSUME NEW r \in 1 .. n, rs[r].chan = c, rs[r].trace = trace
      PROVE  \E q \in order : rs[q].agent = rs[r].agent /\ q <= r
  <2> DEFINE S == {q \in mine : rs[q].agent = rs[r].agent}
  <2>1. r \in S /\ S \in SUBSET Nat
    BY <1>2, <1>6
  <2>2. PICK q \in S : \A p \in S : q <= p
    <3> HIDE DEF S
    <3> QED BY <2>1, Least
  <2>3. q \in order /\ q <= r
    BY <1>1, <2>1, <2>2
  <2> QED BY <2>2, <2>3
<1>7. \A q \in order : rs[q].chan = c /\ rs[q].trace = trace
  BY <1>1
<1>8. \A r \in 1 .. n : r \in order <=> First(rs, n, c, trace, r)
  BY <1>1 DEF First
<1> HIDE DEF mine
<1> QED BY <1>3, <1>4, <1>5, <1>6, <1>7, <1>8 DEF Ordered

\* A set of two has another one.
LEMMA AnotherOne ==
    ASSUME NEW S, IsFiniteSet(S), Cardinality(S) >= 2, NEW p
    PROVE  \E q \in S : q # p
<1> SUFFICES ASSUME S \subseteq {p} PROVE FALSE
  OBVIOUS
<1>1. IsFiniteSet({p}) /\ Cardinality({p}) = 1
  BY FS_Singleton
<1>2. Cardinality(S) <= Cardinality({p})
  BY <1>1, FS_Subset
<1>3. Cardinality(S) \in Nat
  BY FS_CardinalityType
<1> QED BY <1>1, <1>2, <1>3

\* The earliest of some runs.
LEMMA EarliestIs ==
    ASSUME NEW S \in SUBSET Nat, NEW u \in S, \A q \in S : u <= q
    PROVE  (CHOOSE r \in S : \A q \in S : r <= q) = u
<1>1. \A r \in S : (\A q \in S : r <= q) => r = u
  OBVIOUS
<1>2. \E r \in S : \A q \in S : r <= q
  OBVIOUS
<1> QED BY <1>1, <1>2

\* Whoever comes next has run after a, or is the first where nobody has.
Later(rs, order, a, q) == rs[q].agent # a /\ \E p \in order : rs[p].agent = a /\ p < q
Follows(rs, order, a, u) ==
    /\ u \in order /\ rs[u].agent # a
    /\ \/ Later(rs, order, a, u) /\ \A q \in order : Later(rs, order, a, q) => u <= q
       \/ \A q \in order : ~Later(rs, order, a, q) /\ (rs[q].agent # a => u <= q)

\* With two participants somebody follows everybody.
LEMMA FollowerIs ==
    ASSUME NEW rs, NEW n, NEW order, Ordered(rs, n, order), Cardinality(order) >= 2, NEW a
    PROVE  \E u \in order : Follows(rs, order, a, u) /\ NextAfter(rs, order, a) = rs[u].agent
<1> DEFINE others == {r \in order : rs[r].agent # a}
           later == {r \in others : \E q \in order : rs[q].agent = a /\ q < r}
           S == IF later # {} THEN later ELSE others
<1>0. /\ order \subseteq Nat /\ IsFiniteSet(order) /\ Cardinality(order) \in Nat
      /\ \A q, r \in order : rs[q].agent = rs[r].agent => q = r
  BY DEF Ordered
<1>1. others # {}
  <2>1. CASE \E p \in order : rs[p].agent = a
    <3>1. PICK p \in order : rs[p].agent = a
      BY <2>1
    <3>2. PICK q \in order : q # p
      BY <1>0, AnotherOne
    <3> QED BY <1>0, <3>1, <3>2
  <2>2. CASE \A p \in order : rs[p].agent # a
    <3>1. PICK q \in order : q # {}
      BY <1>0, AnotherOne
    <3> QED BY <2>2, <3>1
  <2> QED BY <2>1, <2>2
<1>2. S \subseteq Nat /\ S # {} /\ S \subseteq others
  BY <1>0, <1>1
<1>s. S = IF later # {} THEN later ELSE others
  OBVIOUS
<1> HIDE DEF S
<1>3. PICK u \in S : \A q \in S : u <= q
  BY <1>2, Least
<1>4. (CHOOSE r \in S : \A q \in S : r <= q) = u
  BY <1>2, <1>3, EarliestIs
<1>5. NextAfter(rs, order, a) = rs[u].agent
  <2>1. ~(Cardinality(order) < 2)
    BY <1>0
  <2> QED BY <1>4, <2>1 DEF NextAfter, S
<1>6. u \in order /\ rs[u].agent # a
  BY <1>2, <1>3
<1>7. CASE later # {}
  <2>1. u \in later /\ \A q \in later : u <= q
    BY <1>3, <1>7, <1>s
  <2> QED BY <1>5, <1>6, <2>1 DEF Follows, Later
<1>8. CASE later = {}
  <2>1. \A q \in others : u <= q
    BY <1>3, <1>8, <1>s
  <2> QED BY <1>5, <1>6, <1>8, <2>1 DEF Follows, Later
<1> QED BY <1>7, <1>8

\* Going on from one to the next comes to everybody.
LEMMA RoundIsClosed ==
    ASSUME NEW rs, NEW n, NEW order, Ordered(rs, n, order), Cardinality(order) >= 2,
           NEW C, NEW g \in order, rs[g].agent \in C,
           \A q \in order : rs[q].agent \in C => NextAfter(rs, order, rs[q].agent) \in C
    PROVE  \A q \in order : rs[q].agent \in C
<1> DEFINE out == {q \in order : rs[q].agent \notin C}
           in == {q \in order : rs[q].agent \in C}
<1> SUFFICES ASSUME out # {} PROVE FALSE
  OBVIOUS
<1>0. /\ n \in Nat /\ \A q \in order : q \in Nat /\ q \in 0 .. n
      /\ \A q, r \in order : rs[q].agent = rs[r].agent => q = r
  BY DEF Ordered
<1>1. PICK u \in out : \A q \in out : u <= q
  <2>1. out \subseteq Nat
    BY <1>0
  <2> HIDE DEF out
  <2> QED BY <2>1, Least
<1>2. u \in order /\ u \in Nat /\ rs[u].agent \notin C
  BY <1>0, <1>1
<1>3. \A q \in order : q < u => rs[q].agent \in C
  BY <1>0, <1>1, <1>2
<1>4. ASSUME NEW p \in in
      PROVE  \E v \in in : Follows(rs, order, rs[p].agent, v)
  BY <1>4, FollowerIs
<1>5. CASE \E q \in order : q < u
  <2> DEFINE before == {q \in order : q < u}
  <2>1. before \subseteq 0 .. n /\ before # {}
    BY <1>0, <1>5
  <2>2. PICK p \in before : \A q \in before : q <= p
    <3> HIDE DEF before
    <3> QED BY <1>0, <2>1, Largest
  <2>3. p \in order /\ p < u /\ p \in in
    BY <1>3, <2>2
  <2>4. PICK v \in in : Follows(rs, order, rs[p].agent, v)
    BY <1>4, <2>3
  <2>5. Later(rs, order, rs[p].agent, u)
    BY <1>2, <2>3 DEF Later
  <2>6. v <= u /\ p < v
    BY <1>0, <1>2, <2>3, <2>4, <2>5 DEF Follows, Later
  <2>7. v < u
    BY <1>0, <1>2, <2>6
  <2>8. v <= p
    BY <2>2, <2>7
  <2> QED BY <1>0, <2>3, <2>6, <2>8
<1>6. CASE \A q \in order : ~(q < u)
  <2>1. in \subseteq 0 .. n /\ in # {}
    BY <1>0
  <2>2. PICK p \in in : \A q \in in : q <= p
    <3> HIDE DEF in
    <3> QED BY <1>0, <2>1, Largest
  <2>3. PICK v \in in : Follows(rs, order, rs[p].agent, v)
    BY <1>4, <2>2
  <2>4. ~Later(rs, order, rs[p].agent, v)
    BY <1>0, <2>2, <2>3 DEF Later
  <2>5. v <= u
    BY <1>2, <2>3, <2>4 DEF Follows
  <2>6. v = u
    BY <1>0, <1>2, <1>6, <2>5
  <2> QED BY <1>2, <2>6
<1> QED BY <1>5, <1>6

\* Two different ones make a set of two.
LEMMA TwoAreTwo ==
    ASSUME NEW S, IsFiniteSet(S), NEW p \in S, NEW q \in S, p # q
    PROVE  Cardinality(S) >= 2
<1>1. IsFiniteSet({p}) /\ Cardinality({p}) = 1
  BY FS_Singleton
<1>2. Cardinality({p} \cup {q}) = 2
  <2>1. q \notin {p}
    OBVIOUS
  <2> QED BY <1>1, <2>1, FS_AddElement
<1>3. {p} \cup {q} \in SUBSET S
  OBVIOUS
<1>4. Cardinality({p} \cup {q}) <= Cardinality(S)
  BY <1>3, FS_Subset
<1>5. Cardinality(S) \in Nat
  BY FS_CardinalityType
<1> QED BY <1>2, <1>4, <1>5

\* There is one that comes next.
LEMMA NextIs ==
    ASSUME NEW rs, NEW n, NEW order, Ordered(rs, n, order), Cardinality(order) >= 2, NEW a, NEW u, Follows(rs, order, a, u)
    PROVE  NextAfter(rs, order, a) = rs[u].agent
<1>1. PICK v \in order : Follows(rs, order, a, v) /\ NextAfter(rs, order, a) = rs[v].agent
  BY FollowerIs
<1>2. u \in order /\ u \in Nat /\ v \in Nat
  BY DEF Follows, Ordered
<1>3. u <= v /\ v <= u
  BY <1>1, <1>2 DEF Follows
<1> QED BY <1>1, <1>2, <1>3

\* Runs that keep their agents keep who follows whom.
LEMMA SameFollower ==
    ASSUME NEW rs, NEW ss, NEW n, NEW order, Ordered(rs, n, order),
           \A r \in order : ss[r].agent = rs[r].agent, NEW a
    PROVE  NextAfter(ss, order, a) = NextAfter(rs, order, a)
<1>1. Cardinality(order) \in Nat
  BY DEF Ordered
<1>2. CASE Cardinality(order) < 2
  BY <1>2 DEF NextAfter
<1>3. CASE Cardinality(order) >= 2
  <2>1. PICK u \in order : Follows(rs, order, a, u) /\ NextAfter(rs, order, a) = rs[u].agent
    BY <1>3, FollowerIs
  <2>2. Follows(ss, order, a, u)
    BY <2>1 DEF Follows, Later
  <2>3. Ordered(ss, n, order)
    BY DEF Ordered
  <2>4. NextAfter(ss, order, a) = ss[u].agent
    BY <1>3, <2>2, <2>3, NextIs
  <2> QED BY <2>1, <2>4
<1> QED BY <1>1, <1>2, <1>3

\* A run that is added last comes last in the order, if its agent is new there: who
\* was followed by somebody still is, or by the new one.
LEMMA LaterFollower ==
    ASSUME NEW n \in Nat, NEW rs, DOMAIN rs = 1 .. n, NEW ss, DOMAIN ss = 1 .. n + 1,
           \A r \in 1 .. n : ss[r].agent = rs[r].agent /\ ss[r].chan = rs[r].chan /\ ss[r].trace = rs[r].trace,
           NEW c, NEW trace, NEW p \in 1 .. n, rs[p].chan = c, rs[p].trace = trace,
           rs[p].agent # ss[n + 1].agent
    PROVE  NextAfter(ss, ParticipantOrder(ss, c, trace), rs[p].agent)
             \in {NextAfter(rs, ParticipantOrder(rs, c, trace), rs[p].agent), ss[n + 1].agent}
<1>a. PICK old : old = ParticipantOrder(rs, c, trace)
  OBVIOUS
<1>b. PICK new : new = ParticipantOrder(ss, c, trace)
  OBVIOUS
<1>c. PICK a : a = rs[p].agent
  OBVIOUS
<1>1. /\ Ordered(rs, n, old)
      /\ \A r \in 1 .. n : r \in old <=> First(rs, n, c, trace, r)
      /\ \A r \in 1 .. n : rs[r].chan = c /\ rs[r].trace = trace =>
            \E q \in old : rs[q].agent = rs[r].agent /\ q <= r
  BY <1>a, OrderFits
<1>2. n + 1 \in Nat /\ n + 1 \in 1 .. n + 1
  OBVIOUS
<1>m. PICK m \in Nat : m = n + 1
  BY <1>2
<1>3. /\ Ordered(ss, m, new)
      /\ \A r \in 1 .. m : r \in new <=> First(ss, m, c, trace, r)
  <2>1. DOMAIN ss = 1 .. m
    BY <1>m
  <2> QED BY <2>1, <1>b, OrderFits
<1>d. /\ old \subseteq 1 .. n /\ IsFiniteSet(old)
      /\ new \subseteq 1 .. n + 1 /\ IsFiniteSet(new)
      /\ \A q, r \in new : ss[q].agent = ss[r].agent => q = r
  BY <1>1, <1>3, <1>m DEF Ordered
<1>4. new = old \/ (new = old \cup {n + 1} /\ \A q \in old : rs[q].agent # ss[n + 1].agent)
  <2>1. \A r \in 1 .. n : r \in new => r \in old
    <3> SUFFICES ASSUME NEW r \in 1 .. n, r \in new PROVE r \in old
      OBVIOUS
    <3>1. \A q \in 1 .. n : q \in 1 .. m
      BY <1>m
    <3>2. First(ss, m, c, trace, r)
      BY <1>3, <3>1
    <3>3. First(rs, n, c, trace, r)
      BY <3>1, <3>2 DEF First
    <3> QED BY <1>1, <3>3
  <2>2. ASSUME NEW r \in old PROVE r \in new
    <3>1. r \in 1 .. n /\ First(rs, n, c, trace, r)
      BY <1>1, <1>d
    <3>2. r \in 1 .. m /\ r <= m /\ \A q \in 1 .. m : q \in 1 .. n \/ q = m
      BY <1>m, <3>1
    <3>3. First(ss, m, c, trace, r)
      BY <3>1, <3>2 DEF First
    <3> QED BY <1>3, <3>2, <3>3
  <2>3. \A r \in new : r \in 1 .. n \/ r = n + 1
    BY <1>d
  <2>4. CASE n + 1 \in new
    <3>1. \A q \in old : q # n + 1 /\ q \in 1 .. n
      BY <1>d
    <3>2. \A q \in old : ss[q].agent # ss[n + 1].agent
      BY <1>d, <2>2, <2>4, <3>1
    <3> QED BY <2>1, <2>2, <2>3, <2>4, <3>1, <3>2
  <2>5. CASE n + 1 \notin new
    BY <2>1, <2>2, <2>3, <2>5
  <2> QED BY <2>4, <2>5
<1>5. PICK q \in old : rs[q].agent = a
  BY <1>1, <1>c
<1>6. CASE new = old
  <2>1. \A r \in old : ss[r].agent = rs[r].agent
    BY <1>d
  <2>2. NextAfter(ss, old, a) = NextAfter(rs, old, a)
    BY <1>1, <2>1, SameFollower
  <2> QED BY <1>6, <1>a, <1>b, <1>c, <2>2
<1>7. CASE new = old \cup {n + 1} /\ \A r \in old : rs[r].agent # ss[n + 1].agent
  <2>0. \A r \in old : r \in Nat /\ r <= n /\ ss[r].agent = rs[r].agent /\ r \in new /\ ~(n + 1 < r)
    BY <1>d, <1>7
  <2>1. q \in new /\ n + 1 \in new /\ q # n + 1 /\ q < n + 1
    BY <1>7, <2>0
  <2>2. Cardinality(new) >= 2
    BY <1>d, <2>1, TwoAreTwo
  <2>3. PICK u \in new : Follows(ss, new, a, u) /\ NextAfter(ss, new, a) = ss[u].agent
    BY <1>3, <1>m, <2>2, FollowerIs
  <2>4. CASE u = n + 1
    BY <1>b, <1>c, <2>3, <2>4
  <2>5. CASE u # n + 1
    <3>1. u \in old /\ u # q /\ ss[q].agent = a
      BY <1>5, <1>7, <2>0, <2>3, <2>5 DEF Follows
    <3>2. Cardinality(old) >= 2
      BY <1>d, <3>1, TwoAreTwo
    <3>3. Later(ss, new, a, n + 1)
      BY <1>5, <1>7, <1>c, <2>1, <3>1 DEF Later
    <3>4. Later(ss, new, a, u) /\ \A r \in new : Later(ss, new, a, r) => u <= r
      BY <2>1, <2>3, <3>3 DEF Follows
    <3>5. \A r \in old : Later(rs, old, a, r) <=> Later(ss, new, a, r)
      BY <1>7, <2>0 DEF Later
    <3>6. Follows(rs, old, a, u)
      BY <2>0, <2>3, <3>1, <3>4, <3>5 DEF Follows
    <3>7. NextAfter(rs, old, a) = rs[u].agent
      BY <1>1, <3>2, <3>6, NextIs
    <3> QED BY <1>a, <1>b, <1>c, <2>0, <2>3, <3>1, <3>7
  <2> QED BY <2>4, <2>5
<1> QED BY <1>4, <1>6, <1>7

(***************************************************************************)
(* What the invariant says of the state it holds in                        *)
(***************************************************************************)
\* What the records hold, in full.
LEMMA Fields ==
    ASSUME ConversationAssumption, ConversationInv
    PROVE  /\ \A i \in DOMAIN messages : /\ messages[i].chan \in Channels /\ messages[i].kind \in Kinds
                                         /\ messages[i].author \in Agents \cup {User, System}
                                         /\ i \in Nat /\ i # 0
           /\ \A r \in DOMAIN runs : /\ runs[r] \in RunRecords /\ runs[r].agent \in Agents /\ runs[r].chan \in Channels
                                     /\ runs[r].seen \in Nat /\ runs[r].after \in Nat /\ runs[r].lost \in Nat
                                     /\ runs[r].silent \in BOOLEAN /\ runs[r].at \in RunPlaces
           /\ \A a \in Agents : \A k \in DOMAIN pending[a] :
                 pending[a][k].chan \in Channels /\ pending[a][k].lost \in Nat /\ pending[a][k].msg \in Nat
           /\ \A k \in DOMAIN turns : turns[k].agent \in Agents /\ turns[k].chan \in Channels
           /\ DOMAIN runs = 1 .. Len(runs) /\ DOMAIN messages = 1 .. Len(messages)
           /\ User \notin Agents /\ System \notin Agents
<1>0. /\ messages \in Seq(MessageRecords) /\ runs \in Seq(RunRecords) /\ turns \in Seq(TurnRecords)
      /\ pending \in [Agents -> Seq(WakeRecords)]
  BY Known
<1>1. \A i \in DOMAIN messages : messages[i] \in MessageRecords /\ i \in Nat /\ i # 0
  BY <1>0
<1>2. \A r \in DOMAIN runs : runs[r] \in RunRecords
  BY <1>0
<1>3. \A a \in Agents : \A k \in DOMAIN pending[a] : pending[a][k] \in WakeRecords
  BY <1>0
<1>4. \A k \in DOMAIN turns : turns[k] \in TurnRecords
  BY <1>0
<1>5. User \notin Agents /\ System \notin Agents
  BY DEF ConversationAssumption
<1>6. \A i \in DOMAIN messages : /\ messages[i].chan \in Channels /\ messages[i].kind \in Kinds
                                 /\ messages[i].author \in Agents \cup {User, System}
  BY <1>1 DEF MessageRecords
<1>7. \A r \in DOMAIN runs : /\ runs[r].agent \in Agents /\ runs[r].chan \in Channels
                             /\ runs[r].seen \in Nat /\ runs[r].after \in Nat /\ runs[r].lost \in Nat
                             /\ runs[r].silent \in BOOLEAN /\ runs[r].at \in RunPlaces
  BY <1>2 DEF RunRecords
<1>8. \A a \in Agents : \A k \in DOMAIN pending[a] :
         pending[a][k].chan \in Channels /\ pending[a][k].lost \in Nat /\ pending[a][k].msg \in Nat
  BY <1>3 DEF WakeRecords
<1>9. \A k \in DOMAIN turns : turns[k].agent \in Agents /\ turns[k].chan \in Channels
  BY <1>4 DEF TurnRecords
<1> QED BY <1>0, <1>1, <1>2, <1>5, <1>6, <1>7, <1>8, <1>9

\* What was said in a channel.
Bearing(ms, c) == {i \in In(ms, c) : ms[i].kind = "message"}

\* The newest of it, if there is any.
LEMMA NewestIs ==
    ASSUME ConversationAssumption, ConversationInv, NEW c
    PROVE  /\ Newest(c) = Latest(Bearing(messages, c)) /\ Newest(c) \in Nat /\ Newest(c) <= Len(messages)
           /\ \A i \in Bearing(messages, c) : i <= Newest(c) /\ i \in DOMAIN messages /\ i > 0
           /\ Newest(c) # 0 => Newest(c) \in Bearing(messages, c)
           /\ Bearing(messages, c) # {} => Newest(c) # 0
<1> DEFINE S == Bearing(messages, c)
<1>1. Newest(c) = Latest(S)
  BY DEF Newest, Bearing, StateBearing
<1>2. S \in SUBSET DOMAIN messages /\ (\A i \in S : i \in DOMAIN messages /\ i > 0)
  BY Fields DEF Bearing, In
<1>3. Latest(S) \in Nat /\ Latest(S) <= Len(messages) /\ (S # {} => Latest(S) \in S)
  BY <1>2, LatestBound
<1>4. S = {} => Latest(S) = 0
  BY DEF Latest
<1>5. \A i \in S : i <= Latest(S)
  <2>1. Len(messages) \in Nat /\ S \in SUBSET (0 .. Len(messages))
    BY <1>2, Known
  <2> HIDE DEF S
  <2> QED BY <2>1, Largest
<1> HIDE DEF S
<1>6. S # {} => Latest(S) # 0
  BY <1>2, <1>3
<1> QED BY <1>1, <1>2, <1>3, <1>4, <1>5, <1>6 DEF S

\* The last of all that a channel has.
LEMMA LastIs ==
    ASSUME ConversationAssumption, ConversationInv, NEW c
    PROVE  /\ Latest(In(messages, c)) \in Nat /\ Latest(In(messages, c)) <= Len(messages)
           /\ \A i \in In(messages, c) : i <= Latest(In(messages, c))
           /\ In(messages, c) # {} => Latest(In(messages, c)) \in In(messages, c)
           /\ Newest(c) <= Latest(In(messages, c))
<1> DEFINE S == In(messages, c)
<1>1. S \in SUBSET DOMAIN messages
  BY DEF In
<1>2. Latest(S) \in Nat /\ Latest(S) <= Len(messages) /\ (S # {} => Latest(S) \in S)
  BY <1>1, LatestBound
<1>3. \A i \in S : i <= Latest(S)
  <2>1. Len(messages) \in Nat /\ S \in SUBSET (0 .. Len(messages))
    BY <1>1, Known
  <2> HIDE DEF S
  <2> QED BY <2>1, Largest
<1>4. Newest(c) <= Latest(S)
  <2>1. Newest(c) # 0 => Newest(c) \in S
    BY NewestIs DEF Bearing
  <2> HIDE DEF S
  <2> QED BY <1>2, <1>3, <2>1, NewestIs
<1> QED BY <1>2, <1>3, <1>4

\* Where nothing new is said in a channel, its newest message stays.
LEMMA NewestStays ==
    ASSUME ConversationAssumption, ConversationInv, ConversationInv', NEW c, Extends(messages, messages'),
           \A i \in DOMAIN messages' \ DOMAIN messages : messages'[i].chan # c \/ messages'[i].kind # "message"
    PROVE  /\ Bearing(messages', c) = Bearing(messages, c) /\ Newest(c)' = Newest(c)
           /\ Newest(c) # 0 => messages'[Newest(c)] = messages[Newest(c)]
<1>1. \A i \in DOMAIN messages : i \in DOMAIN messages' /\ messages'[i] = messages[i]
  BY Fields, Known DEF Extends, ConversationInv, ConversationTypes
<1>2. Bearing(messages', c) = Bearing(messages, c)
  BY <1>1 DEF Bearing, In
<1>3. Newest(c)' = Latest(Bearing(messages', c))
  BY DEF Newest, Bearing, StateBearing
<1>4. Newest(c) # 0 => Newest(c) \in DOMAIN messages
  BY NewestIs DEF Bearing, In
<1> QED BY <1>1, <1>2, <1>3, <1>4, NewestIs

\* What is said in a channel, with no more said after it, is its newest message.
LEMMA NewestMoves ==
    ASSUME ConversationAssumption, ConversationInv, ConversationInv', NEW c, Extends(messages, messages'),
           NEW n, n = Len(messages) + 1, n \in DOMAIN messages', messages'[n].chan = c, messages'[n].kind = "message",
           \A i \in DOMAIN messages' \ DOMAIN messages : i # n => messages'[i].kind # "message"
    PROVE  Newest(c)' = n
<1>1. /\ DOMAIN messages = 1 .. Len(messages) /\ DOMAIN messages' = 1 .. Len(messages')
      /\ Len(messages) \in Nat /\ Len(messages') \in Nat
  BY Known DEF ConversationInv, ConversationTypes
<1>2. n \in Bearing(messages', c)
  BY DEF Bearing, In
<1>3. \A i \in Bearing(messages', c) : i <= n
  BY <1>1 DEF Bearing, In
<1>4. Newest(c)' = Latest(Bearing(messages', c))
  BY DEF Newest, Bearing, StateBearing
<1> DEFINE S == Bearing(messages', c)
<1>5. S \in SUBSET (0 .. Len(messages')) /\ n \in S
  BY <1>1, <1>2 DEF Bearing, In
<1> HIDE DEF S
<1>6. Latest(S) \in S /\ n <= Latest(S)
  BY <1>1, <1>5, Largest
<1>7. Latest(S) <= n
  BY <1>3, <1>6 DEF S
<1>8. Latest(S) \in Nat
  BY <1>5, <1>6
<1> QED BY <1>1, <1>4, <1>6, <1>7, <1>8 DEF S

\* Runs are finitely many.
LEMMA RunsAreFinite ==
    ASSUME ConversationAssumption, ConversationInv, NEW S \in SUBSET DOMAIN runs
    PROVE  IsFiniteSet(S) /\ Cardinality(S) \in Nat
<1>1. DOMAIN runs = 1 .. Len(runs) /\ Len(runs) \in Nat
  BY Known
<1>2. IsFiniteSet(1 .. Len(runs))
  BY <1>1, FS_Interval
<1> QED BY <1>1, <1>2, FS_Subset, FS_CardinalityType

(***************************************************************************)
(* What a step has to show of the round                                    *)
(***************************************************************************)
\* A run stays where it is, and does not begin again.
Alike(x, y) ==
    /\ y.agent = x.agent /\ y.chan = x.chan /\ y.reply = x.reply /\ y.trace = x.trace
    /\ y.seen = x.seen /\ y.after = x.after
    /\ y.at = "running" => x.at = "running" /\ y.silent = x.silent
    /\ x.silent => y.silent

\* Where the runs stay alike and none is added in a channel, its order stays.
LEMMA OrderStays ==
    ASSUME ConversationAssumption, ConversationInv, ConversationInv', NEW c,
           \A r \in DOMAIN runs : r \in DOMAIN runs' /\ Alike(runs[r], runs'[r]),
           \A r \in DOMAIN runs' \ DOMAIN runs : runs'[r].chan # c
    PROVE  Order(c)' = Order(c) /\ \A a : Follower(c, a)' = Follower(c, a)
<1>a. PICK old : old = ParticipantOrder(runs, c, 1)
  OBVIOUS
<1>b. PICK new : new = ParticipantOrder(runs', c, 1)
  OBVIOUS
<1>1. {r \in DOMAIN runs' : runs'[r].trace = 1 /\ runs'[r].chan = c}
        = {r \in DOMAIN runs : runs[r].trace = 1 /\ runs[r].chan = c}
  BY DEF Alike
<1>2. new = old
  BY <1>1, <1>a, <1>b DEF Alike, ParticipantOrder
<1>3. DOMAIN runs = 1 .. Len(runs) /\ Len(runs) \in Nat
  BY Known
<1>4. Ordered(runs, Len(runs), old)
  BY <1>3, <1>a, OrderFits
<1>5. ASSUME NEW a PROVE NextAfter(runs', new, a) = NextAfter(runs, old, a)
  <2>1. \A r \in old : runs'[r].agent = runs[r].agent
    BY <1>3, <1>4 DEF Alike, Ordered
  <2> QED BY <1>2, <1>4, <2>1, SameFollower
<1> QED BY <1>2, <1>5, <1>a, <1>b DEF Order, Follower

\* A step that adds no run to a channel, and nothing that is said: nobody is owed less than
\* before, and who passes the turn on gives it to somebody.
LEMMA RoundCarries ==
    ASSUME ConversationAssumption, ConversationInv, ConversationInv', NEW c, RoundFits(c), Newest(c) # 0,
           Extends(messages, messages'),
           \A i \in DOMAIN messages' \ DOMAIN messages : messages'[i].chan # c \/ messages'[i].kind # "message",
           \A r \in DOMAIN runs : r \in DOMAIN runs' /\ Alike(runs[r], runs'[r]),
           \A r \in DOMAIN runs' \ DOMAIN runs : runs'[r].chan # c,
           \A r \in Showing(c) : Running(r) => Running(r)' \/ runs'[r].silent,
           \A a \in Agents : Owed(c, a) => Owed(c, a)' \/ Served(c, a) \/ a = Speaker(c),
           \A a, b \in Agents : Passed(c, a)' /\ ~Passed(c, a) /\ b = Follower(c, a) /\ b # Speaker(c) =>
               Served(c, b) \/ Owed(c, b)'
    PROVE  RoundFits(c)'
<1>1. /\ Newest(c)' = Newest(c) /\ messages'[Newest(c)] = messages[Newest(c)]
      /\ Bearing(messages', c) = Bearing(messages, c)
  BY NewestStays
<1>2. Speaker(c)' = Speaker(c)
  BY <1>1 DEF Speaker
<1>3. \A r \in DOMAIN runs : /\ r \in DOMAIN runs' /\ runs'[r].agent = runs[r].agent /\ runs'[r].chan = runs[r].chan
                             /\ runs'[r].seen = runs[r].seen
                             /\ Running(r)' => Running(r)
                             /\ runs[r].silent => runs'[r].silent
  BY DEF Alike, Running
<1>4. Showing(c)' = Showing(c)
  BY <1>1, <1>3 DEF Showing
<1>5. \A a : Follower(c, a)' = Follower(c, a)
  BY OrderStays
<1>6. \A r \in Showing(c) : r \in DOMAIN runs
  BY DEF Showing
<1>7. \A a : Served(c, a) => Served(c, a)'
  BY <1>3, <1>4, <1>6 DEF Served
<1>8. \A q, r \in Showing(c) : runs'[q].agent = runs'[r].agent => q = r
  BY <1>3, <1>6 DEF RoundFits
<1>9. \A r \in Showing(c) : runs'[r].agent # Speaker(c) /\ (runs'[r].silent \/ Running(r)')
  BY <1>3, <1>6 DEF RoundFits
<1>10. \E r \in DOMAIN runs' : SpeakersRun(c, r)'
  <2>1. PICK r \in DOMAIN runs : SpeakersRun(c, r)
    BY DEF RoundFits
  <2>2. \A i \in Bearing(messages, c) : messages[i].author # Speaker(c) => i <= runs[r].seen
    BY <2>1 DEF SpeakersRun, Bearing, StateBearing
  <2>3. \A i \in Bearing(messages, c) : messages'[i] = messages[i]
    BY DEF Bearing, In, Extends
  <2>4. \A i \in Bearing(messages', c) : messages'[i].author # Speaker(c) => i <= runs'[r].seen
    BY <1>1, <1>3, <2>2, <2>3
  <2>5. \A i \in In(messages', c) : StateBearing(i)' /\ messages'[i].author # Speaker(c) => i <= runs'[r].seen
    BY <2>4 DEF Bearing, StateBearing
  <2>6. SpeakersRun(c, r)'
    BY <1>2, <1>3, <2>1, <2>5 DEF SpeakersRun
  <2> QED BY <1>3, <2>6
<1>11. ASSUME NEW a \in Agents, NEW b \in Agents, a = Speaker(c) \/ Passed(c, a)', b = Follower(c, a), b # Speaker(c)
       PROVE  Served(c, b)' \/ Owed(c, b)'
  <2>1. CASE a = Speaker(c) \/ Passed(c, a)
    <3>1. Served(c, b) \/ Owed(c, b)
      BY <1>11, <2>1 DEF RoundFits, Seen
    <3> QED BY <1>7, <1>11, <3>1
  <2>2. CASE Passed(c, a)' /\ ~Passed(c, a)
    BY <1>7, <1>11, <2>2
  <2> QED BY <1>11, <2>1, <2>2
<1>12. (\A q, r \in Showing(c) : runs[q].agent = runs[r].agent => q = r)'
  BY <1>4, <1>8
<1>13. (\A r \in Showing(c) : runs[r].agent # Speaker(c) /\ (runs[r].silent \/ Running(r)))'
  BY <1>2, <1>4, <1>9
<1>14. (\A a, b \in Agents : (a = Speaker(c) \/ Passed(c, a)) /\ b = Follower(c, a) /\ b # Speaker(c) => Seen(c, b))'
  BY <1>2, <1>5, <1>11 DEF Seen
<1> QED BY <1>10, <1>12, <1>13, <1>14 DEF RoundFits

\* A step that adds a run to the channel: its agent had not been shown what was said last,
\* and nobody else is owed less than before.
LEMMA RoundBegins ==
    ASSUME ConversationAssumption, ConversationInv, ConversationInv', NEW c, RoundFits(c), Newest(c) # 0,
           \A r \in DOMAIN runs : runs[r].trace = 1, \A r \in DOMAIN runs' : runs'[r].trace = 1,
           UNCHANGED messages,
           NEW n, n = Len(runs) + 1, DOMAIN runs' = DOMAIN runs \cup {n},
           \A r \in DOMAIN runs : Alike(runs[r], runs'[r]) /\ runs'[r].silent = runs[r].silent,
           \A r \in Showing(c) : Running(r) => Running(r)',
           runs'[n].chan = c, runs'[n].seen >= Newest(c), Running(n)', ~runs'[n].silent,
           runs'[n].agent # Speaker(c), ~Served(c, runs'[n].agent),
           \A a \in Agents : Owed(c, a) => Owed(c, a)' \/ a = runs'[n].agent
    PROVE  RoundFits(c)'
<1>0. /\ Len(runs) \in Nat /\ DOMAIN runs = 1 .. Len(runs) /\ n \in Nat /\ n \notin DOMAIN runs
      /\ DOMAIN runs' = 1 .. n
  BY Known
<1>x. PICK x : x = runs'[n].agent
  OBVIOUS
<1>1. Newest(c)' = Newest(c)
  BY DEF Newest, StateBearing
<1>2. Speaker(c)' = Speaker(c)
  BY <1>1 DEF Speaker
<1>3. \A r \in DOMAIN runs : /\ r \in DOMAIN runs' /\ runs'[r].agent = runs[r].agent /\ runs'[r].chan = runs[r].chan
                             /\ runs'[r].seen = runs[r].seen
                             /\ Running(r)' => Running(r)
                             /\ runs'[r].silent = runs[r].silent
  BY <1>0 DEF Alike, Running
<1>4. Showing(c)' = Showing(c) \cup {n}
  BY <1>0, <1>1, <1>3 DEF Showing
<1>6. \A r \in Showing(c) : r \in DOMAIN runs
  BY DEF Showing
<1>7. \A a : Served(c, a) => Served(c, a)'
  BY <1>3, <1>4, <1>6 DEF Served
<1>8. \A q, r \in Showing(c)' : runs'[q].agent = runs'[r].agent => q = r
  BY <1>3, <1>4, <1>6 DEF RoundFits, Served
<1>9. \A r \in Showing(c)' : runs'[r].agent # Speaker(c) /\ (runs'[r].silent \/ Running(r)')
  BY <1>3, <1>4, <1>6 DEF RoundFits
<1>10. \E r \in DOMAIN runs' : SpeakersRun(c, r)'
  <2>1. PICK r \in DOMAIN runs : SpeakersRun(c, r)
    BY DEF RoundFits
  <2>2. SpeakersRun(c, r)'
    BY <1>2, <1>3, <2>1 DEF SpeakersRun, StateBearing
  <2> QED BY <1>3, <2>2
<1>p. \A a \in Agents : Passed(c, a)' => Passed(c, a)
  BY <1>3, <1>4, <1>6 DEF Passed
<1>11. ASSUME NEW a \in Agents, NEW b \in Agents, a = Speaker(c) \/ Passed(c, a), b = Follower(c, a)', b # Speaker(c)
       PROVE  Served(c, b)' \/ Owed(c, b)'
  <2>1. PICK p \in DOMAIN runs : runs[p].agent = a /\ runs[p].chan = c
    BY <1>11 DEF RoundFits, SpeakersRun, Passed, Showing
  <2>2. a # runs'[n].agent
    BY <1>11 DEF Passed, Served
  <2>3. b \in {Follower(c, a), runs'[n].agent}
    <3> DEFINE rs == runs
               ss == runs'
               m == Len(runs)
    <3>1. /\ m \in Nat /\ DOMAIN rs = 1 .. m /\ DOMAIN ss = 1 .. m + 1
          /\ \A r \in 1 .. m : ss[r].agent = rs[r].agent /\ ss[r].chan = rs[r].chan /\ ss[r].trace = rs[r].trace
          /\ p \in 1 .. m /\ rs[p].chan = c /\ rs[p].trace = 1 /\ rs[p].agent # ss[m + 1].agent /\ rs[p].agent = a
      BY <1>0, <1>3, <2>1, <2>2 DEF Alike
    <3> HIDE DEF rs, ss, m
    <3>2. NextAfter(ss, ParticipantOrder(ss, c, 1), rs[p].agent)
             \in {NextAfter(rs, ParticipantOrder(rs, c, 1), rs[p].agent), ss[m + 1].agent}
      BY <3>1, LaterFollower
    <3> QED BY <1>11, <3>1, <3>2 DEF Follower, Order, rs, ss, m
  <2>4. Served(c, x)'
    BY <1>4, <1>x DEF Served
  <2>5. CASE b = Follower(c, a)
    <3>1. Served(c, b) \/ Owed(c, b)
      BY <1>11, <2>5 DEF RoundFits, Seen
    <3> QED BY <1>7, <1>x, <2>4, <3>1
  <2>6. CASE b = runs'[n].agent
    BY <1>x, <2>4, <2>6
  <2> QED BY <2>3, <2>5, <2>6
<1>14. (\A a, b \in Agents : (a = Speaker(c) \/ Passed(c, a)) /\ b = Follower(c, a) /\ b # Speaker(c) => Seen(c, b))'
  BY <1>2, <1>p, <1>11 DEF Seen
<1>12. (\A q, r \in Showing(c) : runs[q].agent = runs[r].agent => q = r)'
  BY <1>8
<1>13. (\A r \in Showing(c) : runs[r].agent # Speaker(c) /\ (runs[r].silent \/ Running(r)))'
  BY <1>2, <1>9
<1> QED BY <1>10, <1>12, <1>13, <1>14 DEF RoundFits

\* The order of a channel, and that the speaker is in it.
LEMMA OrderOf ==
    ASSUME ConversationAssumption, ConversationInv, NEW c, \A r \in DOMAIN runs : runs[r].trace = 1
    PROVE  /\ Ordered(runs, Len(runs), Order(c)) /\ Order(c) \subseteq DOMAIN runs
           /\ \A q \in Order(c) : runs[q].chan = c
           /\ \A r \in DOMAIN runs : runs[r].chan = c => \E q \in Order(c) : runs[q].agent = runs[r].agent
<1>1. DOMAIN runs = 1 .. Len(runs) /\ Len(runs) \in Nat
  BY Known
<1>2. PICK order : order = ParticipantOrder(runs, c, 1)
  OBVIOUS
<1>3. /\ Ordered(runs, Len(runs), order)
      /\ \A q \in order : runs[q].chan = c
      /\ \A r \in 1 .. Len(runs) : runs[r].chan = c /\ runs[r].trace = 1 =>
            \E q \in order : runs[q].agent = runs[r].agent /\ q <= r
  BY <1>1, <1>2, OrderFits
<1>4. order \subseteq DOMAIN runs
  BY <1>1, <1>3 DEF Ordered
<1> QED BY <1>1, <1>2, <1>3, <1>4 DEF Order

\* Every run started in that chain.
LEMMA StartedInRound ==
    ASSUME ConversationInv, RoundBase, NEW r \in DOMAIN runs
    PROVE  StartedTrace(r) = 1
<1>1. Heard(messages, runs[r].chan, runs[r].trigger)
  BY DEF ConversationInv, RunFits
<1> QED BY <1>1 DEF Heard, RoundBase, SaidInRound, StartedTrace

\* When so many have passed that the turn ends, everybody but the speaker has.
LEMMA EverybodyPassed ==
    ASSUME ConversationAssumption, ConversationInv, RoundBase, NEW c, RoundFits(c), Newest(c) # 0,
           NEW r \in DOMAIN runs, runs[r].chan = c, ~MayPass(r),
           NEW e \in Order(c), runs[e].agent # Speaker(c)
    PROVE  Served(c, runs[e].agent)
<1> DEFINE passes == {q \in DOMAIN runs : /\ runs[q].chan = c /\ runs[q].trace = StartedTrace(r)
                                          /\ runs[q].silent \/ q = r
                                          /\ runs[q].after >= Newest(c)}
<1>0. \A q \in DOMAIN runs : runs[q].trace = 1 /\ RunInRound(messages, reads, runs[q])
  BY DEF RoundBase, RunInRound
<1>1. ~(Cardinality(passes) < Cardinality(Order(c)) - 1)
  BY StartedInRound DEF MayPass, Order
<1>2. passes \subseteq Showing(c)
  <2> SUFFICES ASSUME NEW q \in passes PROVE q \in Showing(c)
    OBVIOUS
  <2>1. Newest(c) \in In(messages, c) /\ Newest(c) <= runs[q].after
    BY NewestIs, Fields DEF Bearing
  <2>2. Newest(c) <= runs[q].seen
    BY <1>0, <2>1 DEF RunInRound
  <2> QED BY <2>2, NewestIs, Fields DEF Showing
<1>3. IsFiniteSet(passes) /\ Cardinality(passes) \in Nat
  BY RunsAreFinite
<1>4. PICK order : order = Order(c)
  OBVIOUS
<1>5. /\ order \subseteq DOMAIN runs /\ IsFiniteSet(order) /\ Cardinality(order) \in Nat
      /\ (\A p, q \in order : runs[p].agent = runs[q].agent => p = q)
      /\ \A q \in DOMAIN runs : runs[q].chan = c => \E p \in order : runs[p].agent = runs[q].agent
  BY <1>0, <1>4, OrderOf DEF Ordered
<1>6. PICK g \in order : runs[g].agent = Speaker(c)
  <2>1. PICK q \in DOMAIN runs : SpeakersRun(c, q)
    BY DEF RoundFits
  <2> QED BY <1>5, <2>1 DEF SpeakersRun
<1> DEFINE others == order \ {g}
           f == [q \in passes |-> CHOOSE p \in order : runs[p].agent = runs[q].agent]
<1>7. IsFiniteSet(others) /\ Cardinality(others) = Cardinality(order) - 1
  BY <1>5, <1>6, FS_RemoveElement
<1>8. \A q \in passes : f[q] \in order /\ runs[f[q]].agent = runs[q].agent
  <2> TAKE q \in passes
  <2>1. \E p \in order : runs[p].agent = runs[q].agent
    BY <1>5
  <2> QED BY <2>1
<1> HIDE DEF f
<1>9. \A q \in passes : f[q] \in others
  <2> TAKE q \in passes
  <2>1. runs[q].agent # Speaker(c)
    BY <1>2 DEF RoundFits
  <2> QED BY <1>6, <1>8, <2>1
<1>10. \A p, q \in passes : f[p] = f[q] => p = q
  <2> TAKE p, q \in passes
  <2> HAVE f[p] = f[q]
  <2>1. runs[p].agent = runs[q].agent /\ p \in Showing(c) /\ q \in Showing(c)
    BY <1>2, <1>8
  <2> QED BY <2>1 DEF RoundFits
<1> HIDE DEF passes
<1>11. f \in Injection(passes, others)
  <2>1. f \in [passes -> others]
    BY <1>9 DEF f
  <2> HIDE DEF others
  <2> QED BY <1>10, <2>1 DEF Injection, IsInjective
<1>12. f \in Surjection(passes, others)
  <2>1. Cardinality(passes) <= Cardinality(others)
        /\ (Cardinality(passes) = Cardinality(others) <=> f \in Surjection(passes, others))
    <3> HIDE DEF others
    <3> QED BY <1>7, <1>11, FS_Injection
  <2>2. Cardinality(passes) = Cardinality(others)
    <3> HIDE DEF others
    <3> QED BY <1>1, <1>3, <1>4, <1>5, <1>7, <2>1
  <2> QED BY <2>1, <2>2
<1>13. e \in others
  BY <1>4, <1>6
<1>14. PICK q \in passes : f[q] = e
  BY <1>12, <1>13 DEF Surjection
<1> QED BY <1>2, <1>8, <1>14 DEF Served

\* When nothing is under way, a round that is on has come to everybody.
LEMMA RoundEnds ==
    ASSUME ConversationAssumption, OneRound, RoundInv
    PROVE  RoundCompletes
<1>1. ConversationInv /\ RoundBase
  BY DEF RoundInv
<1>2. \A q \in DOMAIN runs : runs[q].trace = 1
  BY <1>1 DEF RoundBase, RunInRound
<1>3. SUFFICES ASSUME NEW c \in Channels \ Dms, Quiet, Newest(c) # 0, messages[Newest(c)].author # User,
                      chatter[c] <= ChatterBudget,
                      Cardinality(RunsOf(messages[Newest(c)].trace)) < TraceBudget,
                      Cardinality(ParticipantOrder(runs, c, messages[Newest(c)].trace)) > 1,
                      NEW e \in ParticipantOrder(runs, c, messages[Newest(c)].trace),
                      runs[e].agent \in Members[c] \ {messages[Newest(c)].author}
               PROVE  \E r \in DOMAIN runs : runs[r].agent = runs[e].agent /\ runs[r].chan = c /\ runs[r].seen >= Newest(c)
  BY DEF RoundCompletes
<1>4. messages[Newest(c)].trace = 1
  <2>1. Newest(c) \in DOMAIN messages /\ messages[Newest(c)].kind = "message"
    BY <1>1, <1>3, NewestIs DEF Bearing, In
  <2> QED BY <1>1, <2>1 DEF RoundBase, SaidInRound
<1>5. Open(c)
  <2>1. Cardinality(RunsOf(1)) \in Nat /\ chatter[c] \in Nat
    BY <1>1, RunsAreFinite DEF RunsOf, RoundBase
  <2>2. ChatterBudget \in Nat /\ TraceBudget \in Nat
    BY DEF ConversationAssumption
  <2> QED BY <1>3, <1>4, <2>1, <2>2 DEF Open, Spent
<1>6. RoundFits(c)
  BY <1>3, <1>5 DEF RoundInv
<1>7. PICK order : order = Order(c)
  OBVIOUS
<1>8. /\ Ordered(runs, Len(runs), order) /\ Cardinality(order) > 1 /\ e \in order /\ runs[e].agent # Speaker(c)
      /\ order \subseteq DOMAIN runs
      /\ \A r \in DOMAIN runs : runs[r].chan = c => \E q \in order : runs[q].agent = runs[r].agent
  BY <1>1, <1>2, <1>3, <1>4, <1>7, OrderOf DEF Order, Speaker
<1>9. Cardinality(order) >= 2
  BY <1>8 DEF Ordered
<1>10. PICK g \in order : runs[g].agent = Speaker(c)
  <2>1. PICK q \in DOMAIN runs : SpeakersRun(c, q)
    BY <1>6 DEF RoundFits
  <2> QED BY <1>8, <2>1 DEF SpeakersRun
<1> DEFINE C == {Speaker(c)} \cup {a \in Agents : Passed(c, a)}
<1>11. \A b : Served(c, b) => Passed(c, b) /\ b \in Agents
  <2>1. \A r \in DOMAIN runs : runs[r].at # "running" /\ runs[r].agent \in Agents
    BY <1>1, <1>3, Fields DEF Quiet, BusyAgent, Engaged
  <2>2. \A r \in Showing(c) : r \in DOMAIN runs /\ runs[r].silent
    BY <1>6, <2>1 DEF RoundFits, Running, Showing
  <2> QED BY <2>1, <2>2 DEF Served, Passed
<1>12. \A b \in Agents : ~Owed(c, b)
  <2>1. turns = <<>> /\ \A b \in Agents : pending[b] = <<>>
    BY <1>1, <1>3 DEF Quiet, RoundBase, OneAtATime
  <2> QED BY <2>1 DEF Owed
<1>13. \A q \in order : runs[q].agent \in C => NextAfter(runs, order, runs[q].agent) \in C
  <2> TAKE q \in order
  <2> HAVE runs[q].agent \in C
  <2>1. PICK u \in order : NextAfter(runs, order, runs[q].agent) = runs[u].agent
    BY <1>8, <1>9, FollowerIs
  <2>2. runs[u].agent = Follower(c, runs[q].agent) /\ runs[u].agent \in Agents /\ runs[q].agent \in Agents
    BY <1>1, <1>7, <1>8, <2>1, Fields DEF Follower
  <2>3. CASE runs[u].agent = Speaker(c)
    BY <2>1, <2>3
  <2>4. CASE runs[u].agent # Speaker(c)
    <3>1. Seen(c, runs[u].agent)
      BY <1>6, <2>2, <2>4 DEF RoundFits
    <3> QED BY <1>11, <1>12, <2>1, <2>2, <3>1 DEF Seen
  <2> QED BY <2>3, <2>4
<1>14. runs[e].agent \in C
  <2> HIDE DEF C
  <2>1. runs[g].agent \in C
    BY <1>10 DEF C
  <2> QED BY <1>8, <1>9, <1>13, <2>1, RoundIsClosed
<1>15. Passed(c, runs[e].agent)
  BY <1>8, <1>14
<1> QED BY <1>15 DEF Passed, Showing

(***************************************************************************)
(* What a step has to show of the state the round goes on in               *)
(***************************************************************************)
\* A run that stays where it is has been shown what it had been.
LEMMA RunStays ==
    ASSUME NEW ms \in Seq(MessageRecords), NEW ns \in Seq(MessageRecords), Extends(ms, ns),
           NEW rd, NEW sd, NEW x \in RunRecords, NEW y, RunInRound(ms, rd, x), Alike(x, y), y.at # "failed",
           rd[x.agent][x.chan] \in Nat, sd[x.agent][x.chan] \in Nat,
           rd[x.agent][x.chan] <= sd[x.agent][x.chan],
           y.at = "running" => sd[x.agent][x.chan] = rd[x.agent][x.chan]
    PROVE  RunInRound(ns, sd, y)
<1>1. x.seen \in Nat /\ x.after \in Nat /\ Len(ms) \in Nat /\ Len(ns) \in Nat
  BY DEF RunRecords
<1>2. x.after <= Len(ns) /\ x.seen <= sd[x.agent][x.chan]
  BY <1>1 DEF RunInRound, Extends
<1>3. ASSUME NEW i \in In(ns, x.chan), i <= x.after
      PROVE  i <= x.seen
  <2>1. i \in DOMAIN ms
    BY <1>1, <1>3 DEF In, RunInRound
  <2>2. i \in In(ms, x.chan)
    BY <1>3, <2>1 DEF In, Extends
  <2> QED BY <1>3, <2>2 DEF RunInRound
<1> QED BY <1>2, <1>3 DEF RunInRound, Alike

\* All of it, but for those who are woken and what is noticed.
LEMMA BaseGoesOn ==
    ASSUME ConversationAssumption, ConversationInv, ConversationInv', RoundBase,
           chatter' \in [Channels -> Nat], Extends(messages, messages'),
           messages = <<>> /\ messages' # <<>> => messages'[1].author = User,
           \A i \in DOMAIN messages' \ DOMAIN messages : SaidInRound(runs', reads', i, messages'[i]),
           \A a \in Agents, c \in Channels :
               reads'[a][c] = reads[a][c] \/ (reads[a][c] <= reads'[a][c] /\ reads'[a][c] \in In(messages', c)),
           \A r \in DOMAIN runs : /\ r \in DOMAIN runs' /\ Alike(runs[r], runs'[r]) /\ runs'[r].at # "failed"
                                  /\ Running(r)' => reads'[runs[r].agent][runs[r].chan] = reads[runs[r].agent][runs[r].chan],
           \A r \in DOMAIN runs' \ DOMAIN runs : RunInRound(messages', reads', runs'[r]),
           WokenInRound', OneAtATime', LossesFit', NoticesFit'
    PROVE  RoundBase'
<1>0. /\ messages \in Seq(MessageRecords) /\ messages' \in Seq(MessageRecords)
      /\ reads \in [Agents -> [Channels -> Nat]] /\ reads' \in [Agents -> [Channels -> Nat]]
  BY DEF ConversationInv, ConversationTypes
<1>1. \A i \in DOMAIN messages : i \in DOMAIN messages' /\ messages'[i] = messages[i]
  BY <1>0 DEF Extends
<1>2. \A a \in Agents, c \in Channels : /\ reads[a][c] \in Nat /\ reads'[a][c] \in Nat /\ reads[a][c] <= reads'[a][c]
  BY <1>0
<1>3. messages' # <<>> => messages'[1].author = User
  <2>1. CASE messages # <<>>
    <3>1. 1 \in DOMAIN messages
      BY <1>0, <2>1
    <3> QED BY <1>1, <2>1, <3>1 DEF RoundBase
  <2> QED BY <2>1
<1>4. ASSUME NEW i \in DOMAIN messages' PROVE SaidInRound(runs', reads', i, messages'[i])
  <2>1. CASE i \in DOMAIN messages
    <3>1. SaidInRound(runs, reads, i, messages[i]) /\ messages[i].chan \in Channels /\ i \in Nat
      BY <2>1, Fields DEF RoundBase
    <3>2. \A r \in DOMAIN runs : r \in DOMAIN runs' /\ runs'[r].chan = runs[r].chan
      BY DEF Alike
    <3>x. PICK m : m = messages[i]
      OBVIOUS
    <3>3. SaidInRound(runs', reads', i, m)
      BY <1>2, <3>1, <3>2, <3>x, Known DEF SaidInRound
    <3> QED BY <1>1, <2>1, <3>3, <3>x
  <2> QED BY <2>1
<1>5. ASSUME NEW r \in DOMAIN runs' PROVE RunInRound(messages', reads', runs'[r])
  <2>1. CASE r \in DOMAIN runs
    <3>1. /\ runs[r] \in RunRecords /\ runs[r].agent \in Agents /\ runs[r].chan \in Channels
          /\ RunInRound(messages, reads, runs[r])
      BY <2>1, Fields DEF RoundBase
    <3> DEFINE x == runs[r]
               y == runs'[r]
    <3>2. /\ x \in RunRecords /\ RunInRound(messages, reads, x) /\ Alike(x, y) /\ y.at # "failed"
          /\ reads[x.agent][x.chan] \in Nat /\ reads'[x.agent][x.chan] \in Nat
          /\ reads[x.agent][x.chan] <= reads'[x.agent][x.chan]
          /\ y.at = "running" => reads'[x.agent][x.chan] = reads[x.agent][x.chan]
      BY <1>2, <2>1, <3>1 DEF Running
    <3>3. PICK sd : sd = reads'
      OBVIOUS
    <3> HIDE DEF x, y
    <3>4. RunInRound(messages', sd, y)
      BY <1>0, <3>2, <3>3, RunStays
    <3> QED BY <3>3, <3>4 DEF y
  <2> QED BY <2>1
<1>6. ReadsFit'
  <2> SUFFICES ASSUME NEW a \in Agents, NEW c \in Channels
               PROVE  reads'[a][c] = 0 \/ reads'[a][c] \in In(messages', c)
    BY DEF ReadsFit
  <2>1. CASE reads'[a][c] = reads[a][c]
    <3>1. reads[a][c] = 0 \/ reads[a][c] \in In(messages, c)
      BY DEF RoundBase, ReadsFit
    <3> QED BY <1>1, <2>1, <3>1 DEF In
  <2> QED BY <2>1
<1> QED BY <1>3, <1>4, <1>5, <1>6 DEF RoundBase

\* An agent that is behind stays behind as long as nothing is said and it is not shown it.
LEMMA BehindStays ==
    ASSUME ConversationAssumption, ConversationInv, ConversationInv', NEW a, NEW c, Behind(a, c), Newest(c) # 0,
           Extends(messages, messages'),
           \A i \in DOMAIN messages' \ DOMAIN messages : messages'[i].chan # c \/ messages'[i].kind # "message",
           \A r \in DOMAIN runs : r \in DOMAIN runs' /\ Alike(runs[r], runs'[r]),
           \A r \in DOMAIN runs' \ DOMAIN runs : runs'[r].agent # a \/ runs'[r].chan # c
    PROVE  Behind(a, c)'
<1>1. Newest(c)' = Newest(c) /\ messages'[Newest(c)] = messages[Newest(c)]
  BY NewestStays
<1>2. ASSUME NEW r \in DOMAIN runs', runs'[r].agent = a, runs'[r].chan = c
      PROVE  ~Running(r)' /\ runs'[r].seen < Newest(c)
  <2>1. r \in DOMAIN runs /\ Alike(runs[r], runs'[r])
    BY <1>2
  <2>2. ~Running(r) /\ runs[r].seen < Newest(c)
    BY <1>2, <2>1 DEF Alike, Behind
  <2> QED BY <2>1, <2>2 DEF Alike, Running
<1>3. messages'[Newest(c)].author # a
  BY <1>1 DEF Behind
<1> QED BY <1>1, <1>2, <1>3 DEF Behind

\* What is spent stays spent.
LEMMA SpentStays ==
    ASSUME ConversationAssumption, ConversationInv, ConversationInv',
           chatter \in [Channels -> Nat], chatter' \in [Channels -> Nat],
           NEW c \in Channels, chatter'[c] >= chatter[c],
           \A r \in DOMAIN runs : r \in DOMAIN runs' /\ Alike(runs[r], runs'[r])
    PROVE  Spent(c) => Spent(c)'
<1> DEFINE S == {r \in DOMAIN runs : runs[r].trace = 1}
           T == {r \in DOMAIN runs' : runs'[r].trace = 1}
<1>1. S \in SUBSET T
  BY DEF Alike
<1>2. IsFiniteSet(T) /\ Cardinality(T) \in Nat
  <2>1. DOMAIN runs' = 1 .. Len(runs') /\ Len(runs') \in Nat
    BY DEF ConversationInv, ConversationTypes
  <2>2. IsFiniteSet(1 .. Len(runs'))
    BY <2>1, FS_Interval
  <2> QED BY <2>1, <2>2, FS_Subset, FS_CardinalityType
<1>3. Cardinality(S) \in Nat
  BY RunsAreFinite
<1>4. Cardinality(S) <= Cardinality(T)
  <2> HIDE DEF S, T
  <2> QED BY <1>1, <1>2, FS_Subset
<1>5. RunsOf(1) = S /\ RunsOf(1)' = T
  BY DEF RunsOf
<1>6. ChatterBudget \in Nat /\ TraceBudget \in Nat /\ chatter[c] \in Nat /\ chatter'[c] \in Nat
  BY DEF ConversationAssumption
<1> HIDE DEF S, T
<1>7. Spent(c) <=> chatter[c] > ChatterBudget \/ Cardinality(S) >= TraceBudget
  BY <1>5 DEF Spent
<1>8. Spent(c)' <=> chatter'[c] > ChatterBudget \/ Cardinality(T) >= TraceBudget
  BY <1>5 DEF Spent
<1> QED BY <1>2, <1>3, <1>4, <1>6, <1>7, <1>8

\* The notices stay true.
LEMMA NoticesStay ==
    ASSUME ConversationAssumption, ConversationInv, ConversationInv', RoundBase, chatter' \in [Channels -> Nat],
           Extends(messages, messages'),
           \A c \in Channels : chatter'[c] >= chatter[c],
           \A r \in DOMAIN runs : r \in DOMAIN runs' /\ Alike(runs[r], runs'[r]),
           NEW d \in Channels,
           \A i \in DOMAIN messages' \ DOMAIN messages : messages'[i].kind = "system" => messages'[i].chan = d /\ Spent(d)'
    PROVE  NoticesFit'
<1>0. \A e \in Channels : Spent(e) => Spent(e)'
  BY SpentStays DEF RoundBase
<1> SUFFICES ASSUME NEW i \in DOMAIN messages', messages'[i].kind = "system"
             PROVE  Spent(messages[i].chan)'
  BY DEF NoticesFit
<1>e. PICK e : e = messages'[i].chan
  OBVIOUS
<1>s. Spent(messages[i].chan)' <=> Spent(e)'
  BY <1>e DEF Spent
<1>1. CASE i \in DOMAIN messages
  <2>1. messages'[i] = messages[i]
    BY <1>1, Fields DEF Extends
  <2>2. Spent(e) /\ e \in Channels
    BY <1>1, <1>e, <2>1, Fields DEF RoundBase, NoticesFit
  <2> QED BY <1>0, <1>s, <2>2
<1>2. CASE i \notin DOMAIN messages
  BY <1>2, <1>e, <1>s
<1> QED BY <1>1, <1>2

\* An agent still has one run at a time if none is added.
LEMMA OneStays ==
    ASSUME OneAtATime, DOMAIN runs' = DOMAIN runs,
           \A r \in DOMAIN runs : runs'[r].agent = runs[r].agent /\ (runs'[r].at \in Engaged => runs[r].at \in Engaged),
           \A a \in Agents : pending'[a] # <<>> => BusyAgent(a)'
    PROVE  OneAtATime'
  BY DEF OneAtATime

\* A removal keeps all others.
LEMMA RemovedKeeps ==
    ASSUME NEW S, NEW s \in Seq(S), NEW i \in DOMAIN s, NEW j \in DOMAIN s, j # i
    PROVE  \E p \in DOMAIN RemoveAt(s, i) : RemoveAt(s, i)[p] = s[j]
<1> DEFINE u == SubSeq(s, 1, i - 1)
           v == SubSeq(s, i + 1, Len(s))
<1>1. i \in 1 .. Len(s) /\ j \in 1 .. Len(s) /\ Len(s) \in Nat
  OBVIOUS
<1>2. u \in Seq(S) /\ Len(u) = i - 1 /\ \A p \in 1 .. i - 1 : u[p] = s[p]
  BY <1>1, SubSeqProperties
<1>3. v \in Seq(S) /\ Len(v) = Len(s) - i /\ \A p \in 1 .. Len(s) - i : v[p] = s[i + p]
  <2>1. v \in Seq(S)
    BY <1>1, SubSeqProperties
  <2>2. Len(v) = Len(s) - i
    BY <1>1, SubSeqProperties
  <2>3. \A p \in 1 .. Len(s) - i : v[p] = s[i + p]
    BY <1>1, SubSeqProperties
  <2> QED BY <2>1, <2>2, <2>3
<1> HIDE DEF u, v
<1>4. /\ Len(u \o v) = Len(u) + Len(v) /\ u \o v \in Seq(S)
      /\ \A p \in 1 .. Len(u) + Len(v) : (u \o v)[p] = IF p <= Len(u) THEN u[p] ELSE v[p - Len(u)]
  BY <1>2, <1>3, ConcatProperties
<1>5. RemoveAt(s, i) = u \o v
  BY DEF RemoveAt, u, v
<1>6. DOMAIN (u \o v) = 1 .. Len(s) - 1
  BY <1>1, <1>2, <1>3, <1>4
<1>n. /\ i \in Nat /\ j \in Nat /\ Len(s) \in Nat /\ i >= 1 /\ i <= Len(s) /\ j >= 1 /\ j <= Len(s)
      /\ Len(u) = i - 1 /\ Len(v) = Len(s) - i
  BY <1>1, <1>2, <1>3
<1>7. CASE j < i
  <2>1. j \in 1 .. i - 1 /\ j \in 1 .. Len(s) - 1 /\ j <= Len(u)
    BY <1>1, <1>2, <1>7
  <2>2. (u \o v)[j] = s[j]
    BY <1>1, <1>2, <1>3, <1>4, <2>1
  <2> QED BY <1>5, <1>6, <2>1, <2>2
<1>8. CASE j > i
  <2>1. PICK p \in 1 .. Len(s) - 1 : p = j - 1
    BY <1>1, <1>8
  <2>2. PICK q \in 1 .. Len(s) - i : q = j - i
    BY <1>1, <1>8
  <2>3. ~(p <= Len(u)) /\ p - Len(u) = q /\ p \in 1 .. Len(u) + Len(v) /\ i + q = j
    <3>1. p \in Int /\ p = j - 1 /\ q \in Int /\ q = j - i /\ j > i
      BY <1>8, <2>1, <2>2
    <3>2. i + q = j
      BY <1>n, <3>1
    <3>3. ~(p <= Len(u))
      BY <1>n, <3>1
    <3>4. p - Len(u) = q
      BY <1>n, <3>1
    <3>5. Len(u) + Len(v) = Len(s) - 1
      BY <1>n
    <3> QED BY <2>1, <3>2, <3>3, <3>4, <3>5
  <2>4. (u \o v)[p] = v[q]
    BY <1>4, <2>3
  <2>5. v[q] = s[j]
    BY <1>3, <2>2, <2>3
  <2> QED BY <1>5, <1>6, <2>1, <2>4, <2>5
<1> QED BY <1>1, <1>7, <1>8

\* A wake that is deferred leaves the others as they are.
LEMMA DeferKeeps ==
    ASSUME ConversationAssumption, ConversationInv, NEW a \in Agents, NEW c \in Channels, NEW i \in Nat,
           NEW lost \in Nat, Defer(a, c, i, lost)
    PROVE  /\ \A b \in Agents : b # a => pending'[b] = pending[b]
           /\ pending'[a] # <<>> /\ \E j \in DOMAIN pending'[a] : pending'[a][j].chan = c
           /\ \A k \in DOMAIN pending[a] : \E j \in DOMAIN pending'[a] : pending'[a][j].chan = pending[a][k].chan
           /\ \A j \in DOMAIN pending'[a] :
                 \/ j \in DOMAIN pending[a] /\ pending'[a][j] = pending[a][j]
                 \/ /\ pending'[a][j].chan = c
                    /\ \/ pending'[a][j].lost = lost
                       \/ \E k \in DOMAIN pending[a] : pending[a][k].chan = c /\ pending'[a][j].lost = pending[a][k].lost
<1> DEFINE w == pending[a]
           places == {k \in DOMAIN w : w[k].chan = c}
<1>0. pending \in [Agents -> Seq(WakeRecords)] /\ w \in Seq(WakeRecords) /\ Len(w) \in Nat
  BY Known
<1>1. CASE places = {}
  <2> DEFINE x == [chan |-> c, msg |-> i, lost |-> lost]
  <2>1. pending' = [pending EXCEPT ![a] = Append(w, x)]
    BY <1>1 DEF Defer
  <2>2. x \in WakeRecords /\ x.chan = c /\ x.lost = lost
    BY DEF WakeRecords
  <2> HIDE DEF x
  <2>3. /\ pending'[a] = Append(w, x) /\ \A b \in Agents : b # a => pending'[b] = pending[b]
    BY <1>0, <2>1
  <2>0. w \in Seq(WakeRecords) /\ Len(w) \in Nat /\ x \in WakeRecords
    BY <1>0, <2>2
  <2> HIDE DEF w
  <2>a. DOMAIN w = 1 .. Len(w)
    BY <2>0
  <2>b. Append(w, x) \in Seq(WakeRecords) /\ Len(Append(w, x)) = Len(w) + 1
        /\ Append(w, x)[Len(w) + 1] = x
    BY <2>0, AppendProperties
  <2>c. \A k \in 1 .. Len(w) : Append(w, x)[k] = w[k]
    BY <2>0, AppendProperties
  <2>d. DOMAIN Append(w, x) = 1 .. Len(w) + 1
    BY <2>0, <2>b
  <2>4. /\ Append(w, x) # <<>> /\ DOMAIN Append(w, x) = 1 .. Len(w) + 1 /\ DOMAIN w = 1 .. Len(w)
        /\ (\A k \in DOMAIN w : Append(w, x)[k] = w[k]) /\ Append(w, x)[Len(w) + 1] = x
    BY <2>0, <2>a, <2>b, <2>c, <2>d
  <2>5. \A j \in DOMAIN Append(w, x) : j \in DOMAIN w \/ j = Len(w) + 1
    BY <1>0, <2>4
  <2>6. Len(w) + 1 \in DOMAIN Append(w, x) /\ \A k \in DOMAIN w : k \in DOMAIN Append(w, x)
    BY <1>0, <2>4
  <2> QED BY <2>2, <2>3, <2>4, <2>5, <2>6 DEF w
<1>2. CASE places # {}
  <2>1. PICK k \in places :
           pending' = [pending EXCEPT ![a][k].msg = i, ![a][k].lost = IF lost > 0 THEN lost ELSE @]
    BY <1>2 DEF Defer
  <2>2. k \in DOMAIN w /\ w[k].chan = c
    OBVIOUS
  <2> DEFINE v == [w EXCEPT ![k].msg = i, ![k].lost = IF lost > 0 THEN lost ELSE @]
  <2>3. pending' = [pending EXCEPT ![a] = v]
    BY <1>0, <2>1
  <2>4. pending'[a] = v /\ \A b \in Agents : b # a => pending'[b] = pending[b]
    BY <1>0, <2>3
  <2>5. DOMAIN v = DOMAIN w /\ \A j \in DOMAIN w : j # k => v[j] = w[j]
    OBVIOUS
  <2>6. v[k].chan = c /\ v[k].lost \in {lost, w[k].lost}
    <3>1. w[k] \in WakeRecords
      BY <1>0, <2>2
    <3> HIDE DEF w
    <3>2. w[k] = [chan |-> c, msg |-> w[k].msg, lost |-> w[k].lost]
      BY <2>2, <3>1 DEF WakeRecords
    <3>3. v[k] = [chan |-> c, msg |-> i, lost |-> IF lost > 0 THEN lost ELSE w[k].lost]
      BY <2>2, <3>2
    <3> HIDE DEF v
    <3> QED BY <3>3
  <2>7. pending'[a] # <<>>
    <3>1. k \in DOMAIN v
      BY <2>2, <2>5
    <3> HIDE DEF v
    <3> QED BY <2>4, <3>1
  <2> HIDE DEF v, w
  <2> QED BY <2>2, <2>4, <2>5, <2>6, <2>7 DEF w
<1> QED BY <1>1, <1>2

(***************************************************************************)
(* Lemmas for the steps                                                    *)
(***************************************************************************)
\* A run that neither begins nor falls silent.
Still(x, y) == Alike(x, y) /\ y.silent = x.silent

\* A run that has posted stays where it is.
LEMMA MovedIsStill ==
    ASSUME NEW x \in RunRecords, NEW at \in RunPlaces, at # "running"
    PROVE  Still(x, Moved(x, x.trace, at)) /\ Moved(x, x.trace, at).at = at
<1>1. PICK y : y = Moved(x, x.trace, at)
  OBVIOUS
<1>2. y = [agent |-> x.agent, chan |-> x.chan, reply |-> x.reply, trace |-> x.trace,
            trigger |-> x.trigger, at |-> at, silent |-> x.silent, seen |-> x.seen, after |-> x.after, lost |-> x.lost, tools |-> x.tools + 1]
  BY <1>1 DEF RunRecords, Moved
<1> QED BY <1>1, <1>2 DEF Still, Alike

\* The same of a run that is refused,
LEMMA RefusedIsStill ==
    ASSUME NEW x \in RunRecords, NEW at \in RunPlaces, at # "running"
    PROVE  Still(x, Refused(x, at)) /\ Refused(x, at).at = at
<1>1. PICK y : y = Refused(x, at)
  OBVIOUS
<1>2. y = [agent |-> x.agent, chan |-> x.chan, reply |-> x.reply, trace |-> x.trace,
            trigger |-> x.trigger, at |-> at, silent |-> x.silent, seen |-> x.seen, after |-> x.after, lost |-> x.lost + 1, tools |-> x.tools + 1]
  BY <1>1 DEF RunRecords, Refused
<1> QED BY <1>1, <1>2 DEF Still, Alike

\* one that ends,
LEMMA EndedIsStill ==
    ASSUME NEW x \in RunRecords, NEW at \in RunPlaces, at # "running"
    PROVE  Still(x, Ended(x, at)) /\ Ended(x, at).at = at
<1>1. PICK y : y = Ended(x, at)
  OBVIOUS
<1>2. y = [agent |-> x.agent, chan |-> x.chan, reply |-> x.reply, trace |-> x.trace,
            trigger |-> x.trigger, at |-> at, silent |-> x.silent, seen |-> x.seen, after |-> x.after, lost |-> x.lost, tools |-> x.tools]
  BY <1>1 DEF RunRecords, Ended
<1> QED BY <1>1, <1>2 DEF Still, Alike

\* and one that falls silent.
LEMMA SilencedIsAlike ==
    ASSUME NEW x \in RunRecords
    PROVE  Alike(x, Silenced(x)) /\ Silenced(x).at = "silent" /\ Silenced(x).silent
<1>1. PICK y : y = Silenced(x)
  OBVIOUS
<1>2. y = [agent |-> x.agent, chan |-> x.chan, reply |-> x.reply, trace |-> x.trace,
            trigger |-> x.trigger, at |-> "silent", silent |-> TRUE, seen |-> x.seen, after |-> x.after, lost |-> x.lost, tools |-> x.tools]
  BY <1>1 DEF RunRecords, Silenced
<1> QED BY <1>1, <1>2 DEF Alike

\* One run is changed.
LEMMA OneChanged ==
    ASSUME ConversationAssumption, ConversationInv, NEW r \in DOMAIN runs, NEW x,
           runs' = [runs EXCEPT ![r] = x], Alike(runs[r], x)
    PROVE  /\ DOMAIN runs' = DOMAIN runs /\ runs'[r] = x
           /\ \A q \in DOMAIN runs : q # r => runs'[q] = runs[q]
           /\ \A q \in DOMAIN runs : Alike(runs[q], runs'[q])
<1>1. DOMAIN runs' = DOMAIN runs /\ runs'[r] = x
  BY Known
<1>2. \A q \in DOMAIN runs : q # r => runs'[q] = runs[q]
  BY Known
<1>3. \A q \in DOMAIN runs : Alike(runs[q], runs[q])
  BY DEF Alike
<1> QED BY <1>1, <1>2, <1>3

\* Wakes of channels where something has been said.
LEMMA WakesAreHeard ==
    ASSUME ConversationAssumption, ConversationInv, NEW a \in Agents, NEW k \in DOMAIN pending[a]
    PROVE  Newest(pending[a][k].chan) # 0
<1>1. Heard(messages, pending[a][k].chan, pending[a][k].msg)
  BY DEF ConversationInv, WakesFit
<1>2. PICK c : c = pending[a][k].chan
  OBVIOUS
<1>3. pending[a][k].msg \in Bearing(messages, c)
  BY <1>1, <1>2 DEF Heard, Bearing, In
<1> QED BY <1>2, <1>3, NewestIs

\* Who is behind stays behind while nothing is said, and no other lost reply is deferred.
LEMMA LossesStay ==
    ASSUME ConversationAssumption, ConversationInv, ConversationInv', RoundBase, Extends(messages, messages'),
           \A i \in DOMAIN messages' \ DOMAIN messages : messages'[i].kind # "message",
           \A r \in DOMAIN runs : r \in DOMAIN runs' /\ Alike(runs[r], runs'[r]),
           \A r \in DOMAIN runs' \ DOMAIN runs : \A k \in DOMAIN pending'[runs'[r].agent] :
              pending'[runs'[r].agent][k].chan # runs'[r].chan,
           \A a \in Agents : \A j \in DOMAIN pending'[a] : pending'[a][j].lost > 0 =>
              \E k \in DOMAIN pending[a] : pending[a][k].chan = pending'[a][j].chan /\ pending[a][k].lost > 0
    PROVE  LossesFit'
<1> SUFFICES ASSUME NEW a \in Agents, NEW j \in DOMAIN pending'[a], pending'[a][j].lost > 0,
                    NEW c, c = pending'[a][j].chan
             PROVE  Behind(a, c)'
  BY DEF LossesFit, Behind
<1>1. PICK k \in DOMAIN pending[a] : pending[a][k].chan = c /\ pending[a][k].lost > 0
  OBVIOUS
<1>2. Behind(a, c) /\ Newest(c) # 0
  BY <1>1, WakesAreHeard DEF RoundBase, LossesFit
<1>3. \A r \in DOMAIN runs' \ DOMAIN runs : runs'[r].agent # a \/ runs'[r].chan # c
  OBVIOUS
<1> QED BY <1>2, <1>3, BehindStays

\* A round that is on was on before, unless something is said in the channel.
LEMMA OpenBefore ==
    ASSUME ConversationAssumption, ConversationInv, ConversationInv', RoundBase, chatter' \in [Channels -> Nat],
           NEW c \in Channels, Extends(messages, messages'), chatter'[c] >= chatter[c],
           \A i \in DOMAIN messages' \ DOMAIN messages : messages'[i].chan # c \/ messages'[i].kind # "message",
           \A r \in DOMAIN runs : r \in DOMAIN runs' /\ Alike(runs[r], runs'[r]),
           Open(c)'
    PROVE  Open(c)
<1>1. Newest(c)' = Newest(c) /\ (Newest(c) # 0 => messages'[Newest(c)] = messages[Newest(c)])
  BY NewestStays
<1>2. Spent(c) => Spent(c)'
  BY SpentStays DEF RoundBase
<1>3. ~Spent(c)' /\ Newest(c)' # 0 /\ messages'[Newest(c)'].author # User
  BY DEF Open
<1> QED BY <1>1, <1>2, <1>3 DEF Open

\* The round goes on when nobody falls silent, and no run begins in the channel.
LEMMA RoundRests ==
    ASSUME ConversationAssumption, ConversationInv, ConversationInv', NEW c, RoundFits(c), Newest(c) # 0,
           Extends(messages, messages'),
           \A i \in DOMAIN messages' \ DOMAIN messages : messages'[i].chan # c \/ messages'[i].kind # "message",
           \A r \in DOMAIN runs : r \in DOMAIN runs' /\ Still(runs[r], runs'[r]),
           \A r \in DOMAIN runs' \ DOMAIN runs : runs'[r].chan # c,
           \A r \in Showing(c) : Running(r) => Running(r)',
           \A a \in Agents : Owed(c, a) => Owed(c, a)' \/ Served(c, a) \/ a = Speaker(c)
    PROVE  RoundFits(c)'
<1>1. \A r \in DOMAIN runs : /\ r \in DOMAIN runs' /\ Alike(runs[r], runs'[r]) /\ runs'[r].silent = runs[r].silent
                             /\ runs'[r].agent = runs[r].agent /\ runs'[r].chan = runs[r].chan /\ runs'[r].seen = runs[r].seen
  BY DEF Still, Alike
<1>2. Newest(c)' = Newest(c)
  BY NewestStays
<1>3. \A a : Passed(c, a)' => Passed(c, a)
  BY <1>1, <1>2 DEF Passed, Showing
<1> QED BY <1>1, <1>3, RoundCarries

\* The last message that the ended runs of an agent were shown.
LEMMA LastSeenIs ==
    ASSUME ConversationAssumption, ConversationInv, RoundBase, NEW a, NEW c
    PROVE  /\ LastSeen(a, c) \in Nat
           /\ LastSeen(a, c) = 0 \/ \E r \in DOMAIN runs : runs[r].agent = a /\ runs[r].chan = c /\ runs[r].seen = LastSeen(a, c)
           /\ \A r \in DOMAIN runs : runs[r].agent = a /\ runs[r].chan = c /\ ~Running(r) => runs[r].seen <= LastSeen(a, c)
<1> DEFINE T == {q \in DOMAIN runs : runs[q].agent = a /\ runs[q].chan = c /\ runs[q].at # "running"}
           S == {0} \cup {runs[r].seen : r \in T}
<1>1. LastSeen(a, c) = Latest(S)
  BY DEF LastSeen
<1>2. \A r \in DOMAIN runs : runs[r].seen \in Nat /\ runs[r].seen <= Len(messages)
  <2> TAKE r \in DOMAIN runs
  <2>1. runs[r].seen \in Nat /\ runs[r].after \in Nat /\ Len(messages) \in Nat
    BY Fields, Known
  <2>2. runs[r].seen <= runs[r].after /\ runs[r].after <= Len(messages)
    BY DEF RoundBase, RunInRound
  <2> QED BY <2>1, <2>2
<1>3. Len(messages) \in Nat /\ S \in SUBSET (0 .. Len(messages)) /\ S # {}
  BY <1>2, Known
<1>4. Latest(S) \in S /\ \A i \in S : i <= Latest(S)
  <2> HIDE DEF S
  <2> QED BY <1>3, Largest
<1>5. Latest(S) = 0 \/ \E r \in T : runs[r].seen = Latest(S)
  BY <1>4
<1>6. \A r \in T : runs[r].seen <= Latest(S)
  BY <1>4
<1>7. Latest(S) \in Nat
  BY <1>3, <1>4
<1> QED BY <1>1, <1>5, <1>6, <1>7 DEF Running

\* Whoever has no prompt was shown the newest message, or said it.
LEMMA UnpromptedIsServed ==
    ASSUME ConversationAssumption, ConversationInv, RoundBase, NEW a \in Agents, NEW c, NEW lost,
           Newest(c) # 0, ~HasPrompt(a, c, lost)
    PROVE  a = Speaker(c) \/ Served(c, a)
<1>1. Newest(c) \in In(messages, c) /\ messages[Newest(c)].kind = "message" /\ Newest(c) \in Nat
  BY NewestIs DEF Bearing
<1>2. SUFFICES ASSUME a # Speaker(c) PROVE Served(c, a)
  OBVIOUS
<1>3. ~(Newest(c) > LastSeen(a, c))
  BY <1>1, <1>2 DEF HasPrompt, Speaker
<1>4. LastSeen(a, c) \in Nat /\ LastSeen(a, c) # 0 /\ Newest(c) <= LastSeen(a, c)
  BY <1>1, <1>3, LastSeenIs
<1>5. PICK r \in DOMAIN runs : runs[r].agent = a /\ runs[r].chan = c /\ runs[r].seen = LastSeen(a, c)
  BY <1>4, LastSeenIs
<1> QED BY <1>4, <1>5 DEF Served, Showing

\* Whoever has a prompt, and no run in the channel, was not shown the newest message and
\* did not say it: the system has said nothing while the round is on.
LEMMA PromptedIsBehind ==
    ASSUME ConversationAssumption, ConversationInv, RoundBase, NEW a \in Agents, NEW c \in Channels, RoundFits(c), Open(c),
           \A r \in DOMAIN runs : runs[r].agent = a /\ runs[r].chan = c => ~Running(r),
           HasPrompt(a, c, 0)
    PROVE  a # Speaker(c) /\ ~Served(c, a)
<1>1. PICK i \in In(messages, c) : i > LastSeen(a, c) /\ messages[i].author # a /\ messages[i].kind # "conflict"
  BY DEF HasPrompt
<1>2. i \in DOMAIN messages /\ i \in Nat /\ messages[i].chan = c
  BY <1>1, Fields DEF In
<1>3. messages[i].kind = "message"
  <2>1. messages[i].kind # "system"
    BY <1>2 DEF Open, RoundBase, NoticesFit
  <2> QED BY <1>1, <1>2, <2>1, Fields DEF Kinds
<1>4. i \in Bearing(messages, c) /\ i <= Newest(c) /\ Newest(c) \in Nat
  BY <1>2, <1>3, NewestIs DEF Bearing, In
<1>5. LastSeen(a, c) \in Nat
  BY LastSeenIs
<1>6. \A r \in DOMAIN runs : runs[r].agent = a /\ runs[r].chan = c => runs[r].seen < i /\ runs[r].seen \in Nat
  <2> TAKE r \in DOMAIN runs
  <2> HAVE runs[r].agent = a /\ runs[r].chan = c
  <2>1. runs[r].seen <= LastSeen(a, c) /\ runs[r].seen \in Nat
    BY LastSeenIs, Fields
  <2> QED BY <1>1, <1>2, <1>5, <2>1
<1>7. ~Served(c, a)
  <2> SUFFICES ASSUME NEW r \in Showing(c), runs[r].agent = a PROVE FALSE
    BY DEF Served
  <2>1. r \in DOMAIN runs /\ runs[r].chan = c /\ runs[r].seen >= Newest(c)
    BY DEF Showing
  <2> QED BY <1>2, <1>4, <1>6, <2>1
<1>8. ASSUME a = Speaker(c) PROVE FALSE
  <2>1. PICK r \in DOMAIN runs : SpeakersRun(c, r)
    BY DEF RoundFits
  <2>2. runs[r].agent = a /\ runs[r].chan = c /\ i <= runs[r].seen
    BY <1>1, <1>3, <1>8, <2>1 DEF SpeakersRun, StateBearing
  <2> QED BY <1>2, <1>6, <2>2
<1> QED BY <1>7, <1>8

\* A sequence of the elements of a set has them all.
LEMMA ListsAll ==
    ASSUME NEW S, IsFiniteSet(S), NEW x \in S
    PROVE  \E k \in DOMAIN SetToSeq(S) : SetToSeq(S)[k] = x
<1>1. Cardinality(S) \in Nat /\ ExistsBijection(1 .. Cardinality(S), S)
  BY FS_CardinalityType
<1>2. PICK f \in [1 .. Cardinality(S) -> S] : \A i, j \in DOMAIN f : f[i] = f[j] => i = j
  BY <1>1 DEF ExistsBijection, Bijection, Injection, IsInjective
<1>3. \E g \in [1 .. Cardinality(S) -> S] : IsInjective(g)
  BY <1>2 DEF IsInjective
<1>4. SetToSeq(S) \in [1 .. Cardinality(S) -> S] /\ IsInjective(SetToSeq(S))
  BY <1>3 DEF SetToSeq
<1> DEFINE g == SetToSeq(S)
           n == Cardinality(S)
<1>5. g \in [1 .. n -> S] /\ IsInjective(g) /\ n \in Nat
  BY <1>1, <1>4
<1> HIDE DEF g
<1>6. g \in Injection(1 .. n, S)
  BY <1>5 DEF Injection
<1>7. IsFiniteSet(1 .. n) /\ Cardinality(1 .. n) = n
  <2> HIDE DEF n
  <2>1. 1 \in Int /\ n \in Int
    BY <1>5
  <2> QED BY <1>5, <2>1, FS_Interval
<1>8. g \in Surjection(1 .. n, S)
  BY <1>6, <1>7, FS_Injection
<1>9. \E k \in 1 .. n : g[k] = x
  BY <1>8 DEF Surjection
<1> QED BY <1>5, <1>9 DEF g

\* Steps in which nothing is said.
LEMMA QuietStep ==
    ASSUME ConversationAssumption, ConversationInv, ConversationInv', RoundBase, UNCHANGED chatter, messages # <<>>,
           Extends(messages, messages'),
           NEW d \in Channels,
           \A i \in DOMAIN messages' \ DOMAIN messages :
               /\ messages'[i].kind # "message"
               /\ messages'[i].kind = "system" => messages'[i].chan = d /\ Spent(d)',
           \A a \in Agents, c \in Channels :
               reads'[a][c] = reads[a][c] \/ (reads[a][c] <= reads'[a][c] /\ reads'[a][c] \in In(messages', c)),
           \A r \in DOMAIN runs : /\ r \in DOMAIN runs' /\ Alike(runs[r], runs'[r]) /\ runs'[r].at # "failed"
                                  /\ Running(r)' => reads'[runs[r].agent][runs[r].chan] = reads[runs[r].agent][runs[r].chan],
           \A r \in DOMAIN runs' \ DOMAIN runs : RunInRound(messages', reads', runs'[r]),
           WokenInRound', OneAtATime', LossesFit'
    PROVE  RoundBase' /\ \A c \in Channels : Open(c)' => Open(c)
<1>1. chatter' \in [Channels -> Nat] /\ \A c \in Channels : chatter'[c] >= chatter[c]
  <2>1. chatter \in [Channels -> Nat]
    BY DEF RoundBase
  <2>2. \A c \in Channels : chatter[c] \in Nat
    BY <2>1
  <2> QED BY <2>1, <2>2
<1>2. \A r \in DOMAIN runs : r \in DOMAIN runs' /\ Alike(runs[r], runs'[r])
  OBVIOUS
<1>3. NoticesFit'
  BY <1>1, <1>2, NoticesStay
<1>4. \A i \in DOMAIN messages' \ DOMAIN messages : SaidInRound(runs', reads', i, messages'[i])
  BY DEF SaidInRound
<1>5. RoundBase'
  BY <1>1, <1>3, <1>4, BaseGoesOn
<1>6. \A c \in Channels : Open(c)' => Open(c)
  BY <1>1, <1>2, OpenBefore
<1> QED BY <1>5, <1>6

\* A step that changes none of the runs.
LEMMA SameRuns ==
    ASSUME ConversationAssumption, ConversationInv, RoundBase, UNCHANGED runs
    PROVE  \A r \in DOMAIN runs : /\ r \in DOMAIN runs' /\ Alike(runs[r], runs'[r]) /\ Still(runs[r], runs'[r])
                                  /\ runs'[r].at # "failed"
  BY DEF Still, Alike, RoundBase, RunInRound

\* A turn is taken off.
LEMMA TurnTaken ==
    ASSUME ConversationAssumption, ConversationInv, NEW k \in DOMAIN turns, turns' = RemoveAt(turns, k)
    PROVE  /\ \A j \in DOMAIN turns' : \E p \in DOMAIN turns : turns'[j] = turns[p]
           /\ \A c, a : (\E p \in DOMAIN turns : turns[p].agent = a /\ turns[p].chan = c)
                 /\ ~(a = turns[k].agent /\ c = turns[k].chan) =>
                        \E j \in DOMAIN turns' : turns'[j].agent = a /\ turns'[j].chan = c
<1>1. turns \in Seq(TurnRecords)
  BY Known
<1>2. \A j \in DOMAIN turns' : \E p \in DOMAIN turns : turns'[j] = turns[p]
  BY <1>1, Removed
<1>3. \A p \in DOMAIN turns : p # k => \E j \in DOMAIN turns' : turns'[j] = turns[p]
  BY <1>1, RemovedKeeps
<1> QED BY <1>2, <1>3

\* What a turn or a wake is about is of the human's chain.
LEMMA WokenInChain ==
    ASSUME ConversationAssumption, ConversationInv, RoundBase, NEW c, NEW i, Heard(messages, c, i)
    PROVE  /\ messages[i].trace = 1 /\ messages # <<>> /\ i \in In(messages, c) /\ Newest(c) # 0
           /\ Latest(In(messages, c)) \in In(messages, c)
<1>1. i \in DOMAIN messages /\ i \in In(messages, c) /\ i \in Bearing(messages, c)
  BY DEF Heard, In, Bearing
<1>2. messages[i].trace = 1
  BY <1>1 DEF RoundBase, SaidInRound, Heard
<1>3. messages # <<>>
  BY <1>1
<1> QED BY <1>1, <1>2, <1>3, NewestIs, LastIs

\* A turn of a chain that is exhausted is dropped, and no round is on any more.
LEMMA ExhaustedKeepsRound ==
    ASSUME ConversationAssumption, RoundInv, ConversationInv', NEW k \in DOMAIN turns, turns' = RemoveAt(turns, k),
           Exhausted(turns[k].msg),
           IF NoticesExhaustion(turns[k].msg)
           THEN messages' = Append(messages,
                      Said(turns[k].chan, System, "system", None,
                           [trace |-> messages[turns[k].msg].trace, parent |-> turns[k].msg], {}, FALSE))
           ELSE UNCHANGED messages,
           UNCHANGED <<runs, reads, pending, chatter>>
    PROVE  RoundInv'
<1>0. ConversationInv /\ RoundBase
  BY DEF RoundInv
<1>d. PICK d \in Channels : d = turns[k].chan
  BY <1>0, Fields
<1>i. PICK i : i = turns[k].msg
  OBVIOUS
<1>1. Heard(messages, d, i)
  BY <1>0, <1>d, <1>i DEF ConversationInv
<1>2. messages[i].trace = 1 /\ messages # <<>>
  BY <1>0, <1>1, WokenInChain
<1>3. Cardinality(RunsOf(1)) >= TraceBudget
  BY <1>2, <1>i DEF Exhausted
<1>4. \A c \in Channels : Spent(c)'
  BY <1>3 DEF Spent, RunsOf
<1> DEFINE m == Said(d, System, "system", None, [trace |-> messages[i].trace, parent |-> i], {}, FALSE)
<1>5. messages' = Append(messages, m) \/ messages' = messages
  BY <1>d, <1>i
<1>6. m.kind = "system" /\ m.chan = d
  BY DEF Said
<1> HIDE DEF m
<1>7. /\ Extends(messages, messages')
      /\ \A j \in DOMAIN messages' \ DOMAIN messages : messages'[j].kind = "system" /\ messages'[j].chan = d
  <2>1. CASE messages' = messages
    BY <1>0, <2>1, Known
  <2>2. CASE messages' = Append(messages, m)
    <3>1. messages \in Seq(MessageRecords) /\ Len(messages) \in Nat /\ messages' \in Seq(MessageRecords)
      BY <1>0, Known DEF ConversationInv, ConversationTypes
    <3>2. /\ Len(messages') = Len(messages) + 1 /\ messages'[Len(messages) + 1] = m
          /\ \A j \in 1 .. Len(messages) : messages'[j] = messages[j]
      BY <2>2, <3>1
    <3>3. DOMAIN messages' = 1 .. Len(messages) + 1 /\ DOMAIN messages = 1 .. Len(messages)
      BY <3>1, <3>2
    <3> QED BY <1>6, <3>1, <3>2, <3>3 DEF Extends
  <2> QED BY <1>5, <2>1, <2>2
<1>8. \A r \in DOMAIN runs : r \in DOMAIN runs' /\ Alike(runs[r], runs'[r]) /\ runs'[r].at # "failed"
  BY <1>0, SameRuns
<1>9. WokenInRound'
  BY <1>0, TurnTaken DEF RoundBase, WokenInRound
<1>10. OneAtATime'
  BY <1>0 DEF RoundBase, OneAtATime, BusyAgent
<1>11. LossesFit'
  BY <1>0, <1>7, <1>8, LossesStay
<1>12. RoundBase'
  BY <1>0, <1>2, <1>4, <1>7, <1>8, <1>9, <1>10, <1>11, QuietStep
<1>13. \A c \in Channels : ~Open(c)'
  BY <1>4 DEF Open
<1> QED BY <1>12, <1>13 DEF RoundInv

\* A run begins: its agent has no other one, and was not shown what was said last.
LEMMA BeginKeepsRound ==
    ASSUME ConversationAssumption, OneRound, RoundInv, ConversationInv',
           NEW c \in Channels, NEW a \in Members[c], NEW i, Heard(messages, c, i), NEW lost \in Nat,
           NEW rs \in Seq(RunRecords), DOMAIN rs = DOMAIN runs,
           \A q \in DOMAIN runs : Still(runs[q], rs[q]),
           \A q \in DOMAIN runs : IF runs[q].agent = a THEN ~Running(q) /\ rs[q].at \notin Engaged ELSE rs[q] = runs[q],
           UNCHANGED <<messages, chatter>>,
           runs' = Append(rs,
              [agent |-> a, chan |-> c, reply |-> c,
               trace |-> messages[i].trace, trigger |-> i, at |-> "running", silent |-> FALSE,
               seen |-> Latest(In(messages, c)), after |-> Len(messages), lost |-> lost, tools |-> 0]),
           reads' = [reads EXCEPT ![a][c] = Latest(In(messages, c))],
           c \notin Dms /\ Open(c) => a # Speaker(c) /\ ~Served(c, a),
           \A b \in Agents : b # a => pending'[b] = pending[b],
           \A k \in DOMAIN pending'[a] : pending'[a][k].chan # c /\ \E j \in DOMAIN pending[a] : pending'[a][k] = pending[a][j],
           \A j \in DOMAIN turns' : \E p \in DOMAIN turns : turns'[j] = turns[p],
           \A e, b : b \in Agents /\ Owed(e, b) => Owed(e, b)' \/ (e = c /\ b = a)
    PROVE  RoundInv'
<1>0. ConversationInv /\ RoundBase
  BY DEF RoundInv
<1>a. a \in Agents
  BY <1>0, Known
<1>n. PICK n \in Nat : n = Len(runs) + 1
  BY <1>0, Known
<1>s. PICK s : s = Latest(In(messages, c))
  OBVIOUS
<1>x. PICK x : x = [agent |-> a, chan |-> c, reply |-> c,
               trace |-> messages[i].trace, trigger |-> i, at |-> "running", silent |-> FALSE,
               seen |-> s, after |-> Len(messages), lost |-> lost, tools |-> 0]
  OBVIOUS
<1>1. /\ messages[i].trace = 1 /\ messages # <<>> /\ Newest(c) # 0
      /\ s \in In(messages, c) /\ s \in Nat /\ s <= Len(messages) /\ Len(messages) \in Nat
      /\ (\A j \in In(messages, c) : j <= s) /\ Newest(c) <= s
  <2>1. messages[i].trace = 1 /\ messages # <<>> /\ Newest(c) # 0 /\ s \in In(messages, c)
    BY <1>0, <1>s, WokenInChain
  <2>2. s \in Nat /\ s <= Len(messages) /\ (\A j \in In(messages, c) : j <= s) /\ Newest(c) <= s
    BY <1>0, <1>s, LastIs
  <2> QED BY <1>0, <2>1, <2>2, Known
<1>2. /\ x.agent = a /\ x.chan = c /\ x.reply = c /\ x.trace = 1 /\ x.at = "running" /\ x.silent = FALSE
      /\ x.seen = s /\ x.after = Len(messages)
  BY <1>1, <1>x
<1>3. runs' = Append(rs, x)
  BY <1>s, <1>x
<1>4. /\ DOMAIN runs = 1 .. Len(runs) /\ Len(runs) \in Nat /\ Len(rs) = Len(runs) /\ n \notin DOMAIN runs
      /\ DOMAIN runs' = DOMAIN runs \cup {n} /\ runs'[n] = x /\ \A q \in DOMAIN runs : runs'[q] = rs[q]
  <2>1. runs \in Seq(RunRecords) /\ Len(runs) \in Nat /\ Len(rs) = Len(runs) /\ DOMAIN runs = 1 .. Len(runs)
    BY <1>0, Known
  <2>2. DOMAIN runs' = 1 .. Len(rs) + 1 /\ runs'[Len(rs) + 1] = x /\ \A q \in 1 .. Len(rs) : runs'[q] = rs[q]
    BY <1>3
  <2> QED BY <1>n, <2>1, <2>2
<1>5. \A q \in DOMAIN runs : /\ q \in DOMAIN runs' /\ Alike(runs[q], runs'[q]) /\ Still(runs[q], runs'[q])
                             /\ runs'[q].silent = runs[q].silent /\ runs'[q].agent = runs[q].agent
                             /\ runs'[q].chan = runs[q].chan
  <2> TAKE q \in DOMAIN runs
  <2>1. q \in DOMAIN runs' /\ Still(runs[q], runs'[q])
    BY <1>4
  <2> QED BY <2>1 DEF Still, Alike
<1>6. \A q \in DOMAIN runs : IF runs[q].agent = a THEN ~Running(q) /\ runs'[q].at \notin Engaged ELSE runs'[q] = runs[q]
  BY <1>4
<1>7. reads' = [reads EXCEPT ![a][c] = s] /\ reads \in [Agents -> [Channels -> Nat]]
  BY <1>0, <1>s, Known
<1>8. reads'[a][c] = s /\ \A b \in Agents, e \in Channels : b # a \/ e # c => reads'[b][e] = reads[b][e]
  BY <1>7, <1>a
<1>9. \A b \in Agents, e \in Channels :
         reads'[b][e] = reads[b][e] \/ (reads[b][e] <= reads'[b][e] /\ reads'[b][e] \in In(messages', e))
  <2> TAKE b \in Agents, e \in Channels
  <2>1. CASE b = a /\ e = c
    <3>1. reads[a][c] = 0 \/ reads[a][c] \in In(messages, c)
      BY <1>0, <1>a DEF RoundBase, ReadsFit
    <3>2. reads[a][c] <= s
      BY <1>1, <3>1
    <3> QED BY <1>1, <1>8, <2>1, <3>2
  <2> QED BY <1>8, <2>1
<1>10. \A q \in DOMAIN runs : /\ runs'[q].at # "failed"
                              /\ Running(q)' => reads'[runs[q].agent][runs[q].chan] = reads[runs[q].agent][runs[q].chan]
  <2> TAKE q \in DOMAIN runs
  <2>1. runs[q].at # "failed" /\ runs[q].agent \in Agents /\ runs[q].chan \in Channels
    BY <1>0, Fields DEF RoundBase, RunInRound
  <2>2. CASE runs[q].agent = a
    BY <1>6, <2>2 DEF Running, Engaged
  <2>3. CASE runs[q].agent # a
    BY <1>6, <1>8, <2>1, <2>3
  <2> QED BY <2>2, <2>3
<1>11. \A r \in DOMAIN runs' \ DOMAIN runs : r = n
  BY <1>4
<1>12. RunInRound(messages', reads', x)
  BY <1>1, <1>2, <1>8 DEF RunInRound
<1>13. WokenInRound'
  <2>1. \A k \in DOMAIN turns' : turns'[k].agent \in Members[turns'[k].chan] /\ turns'[k].reply \in {None, turns'[k].chan}
    BY <1>0 DEF RoundBase, WokenInRound
  <2>2. \A b \in Agents : \A k \in DOMAIN pending'[b] : \E j \in DOMAIN pending[b] : pending'[b][k] = pending[b][j]
    OBVIOUS
  <2>3. \A b \in Agents : \A k \in DOMAIN pending'[b] : b \in Members[pending'[b][k].chan]
    BY <1>0, <2>2 DEF RoundBase, WokenInRound
  <2> QED BY <2>1, <2>3 DEF WokenInRound
<1>14. OneAtATime'
  <2>1. ASSUME NEW q \in DOMAIN runs', NEW r \in DOMAIN runs', runs'[q].agent = runs'[r].agent,
               runs'[q].at \in Engaged, runs'[r].at \in Engaged
        PROVE  q = r
    <3>1. CASE q = n \/ r = n
      BY <1>2, <1>4, <1>5, <1>6, <2>1, <3>1
    <3>2. CASE q # n /\ r # n
      <4>1. q \in DOMAIN runs /\ r \in DOMAIN runs
        BY <1>4, <3>2
      <4>2. runs'[q] = runs[q] /\ runs'[r] = runs[r]
        BY <1>5, <1>6, <2>1, <4>1
      <4> QED BY <1>0, <2>1, <4>1, <4>2 DEF RoundBase, OneAtATime
    <3> QED BY <3>1, <3>2
  <2>2. ASSUME NEW b \in Agents, pending'[b] # <<>>
        PROVE  \E r \in DOMAIN runs' : runs'[r].agent = b /\ runs'[r].at \in Engaged
    <3>1. CASE b = a
      BY <1>2, <1>4, <3>1 DEF Engaged
    <3>2. CASE b # a
      <4>1. PICK q \in DOMAIN runs : runs[q].agent = b /\ runs[q].at \in Engaged
        BY <1>0, <2>2, <3>2 DEF RoundBase, OneAtATime, BusyAgent
      <4> QED BY <1>5, <1>6, <3>2, <4>1
    <3> QED BY <3>1, <3>2
  <2> QED BY <2>1, <2>2 DEF OneAtATime, BusyAgent
<1>15. Extends(messages, messages')
  BY <1>0, Known
<1>16. LossesFit'
  <2>1. \A r \in DOMAIN runs' \ DOMAIN runs : \A k \in DOMAIN pending'[runs'[r].agent] :
              pending'[runs'[r].agent][k].chan # runs'[r].chan
    <3>1. runs'[n].agent = a /\ runs'[n].chan = c
      BY <1>2, <1>4
    <3> QED BY <1>11, <3>1
  <2>2. \A b \in Agents : \A j \in DOMAIN pending'[b] : pending'[b][j].lost > 0 =>
           \E k \in DOMAIN pending[b] : pending[b][k].chan = pending'[b][j].chan /\ pending[b][k].lost > 0
    <3>1. \A b \in Agents : \A j \in DOMAIN pending'[b] : \E k \in DOMAIN pending[b] : pending'[b][j] = pending[b][k]
      OBVIOUS
    <3> QED BY <3>1
  <2> QED BY <1>0, <1>5, <1>15, <2>1, <2>2, LossesStay
<1>17. RoundBase' /\ \A e \in Channels : Open(e)' => Open(e)
  <2>1. \A r \in DOMAIN runs' \ DOMAIN runs : RunInRound(messages', reads', runs'[r])
    BY <1>4, <1>11, <1>12
  <2> QED BY <1>0, <1>1, <1>5, <1>9, <1>10, <1>13, <1>14, <1>15, <1>16, <2>1, QuietStep
<1>18. ASSUME NEW e \in Channels \ Dms, Open(e)' PROVE RoundFits(e)'
  <2>1. Open(e) /\ RoundFits(e) /\ Newest(e) # 0
    BY <1>17, <1>18 DEF RoundInv, Open
  <2>2. \A r \in Showing(e) : Running(r) => Running(r)'
    <3> TAKE r \in Showing(e)
    <3>1. r \in DOMAIN runs
      BY DEF Showing
    <3> QED BY <1>6, <3>1 DEF Running
  <2>3. CASE e = c
    <3>1. \A r \in DOMAIN runs : runs[r].trace = 1
      BY <1>0 DEF RoundBase, RunInRound
    <3>2. \A r \in DOMAIN runs' : runs'[r].trace = 1
      BY <1>17 DEF RoundBase, RunInRound
    <3>3. /\ runs'[n].chan = c /\ runs'[n].seen >= Newest(c) /\ Running(n)' /\ ~runs'[n].silent
          /\ runs'[n].agent = a
      BY <1>1, <1>2, <1>4, <1>0, NewestIs DEF Running
    <3>4. a # Speaker(c) /\ ~Served(c, a)
      BY <2>1, <2>3
    <3>5. \A b \in Agents : Owed(c, b) => Owed(c, b)' \/ b = runs'[n].agent
      BY <3>3
    <3> QED BY <1>0, <1>n, <1>4, <1>5, <2>1, <2>2, <2>3, <3>1, <3>2, <3>3, <3>4, <3>5, RoundBegins
  <2>4. CASE e # c
    <3>1. \A r \in DOMAIN runs' \ DOMAIN runs : runs'[r].chan # e
      BY <1>2, <1>4, <1>11, <2>4
    <3>2. \A b \in Agents : Owed(e, b) => Owed(e, b)'
      BY <2>4
    <3> QED BY <1>0, <1>5, <1>15, <2>1, <2>2, <3>1, <3>2, RoundRests
  <2> QED BY <2>3, <2>4
<1> QED BY <1>17, <1>18 DEF RoundInv

\* Steps that say nothing, show nothing and begin no run: it is left to show that who is
\* owed something still is, or has been served.
LEMMA WaitKeepsRound ==
    ASSUME ConversationAssumption, RoundInv, ConversationInv', UNCHANGED <<messages, chatter, reads>>, messages # <<>>,
           DOMAIN runs' = DOMAIN runs,
           \A r \in DOMAIN runs : Still(runs[r], runs'[r]) /\ runs'[r].at # "failed" /\ (Running(r) => Running(r)'),
           WokenInRound', OneAtATime',
           \A a \in Agents : \A j \in DOMAIN pending'[a] : pending'[a][j].lost > 0 =>
              \E k \in DOMAIN pending[a] : pending[a][k].chan = pending'[a][j].chan /\ pending[a][k].lost > 0,
           \A c \in Channels, b \in Agents : Newest(c) # 0 /\ Owed(c, b) => Owed(c, b)' \/ Served(c, b) \/ b = Speaker(c)
    PROVE  RoundInv'
<1>0. ConversationInv /\ RoundBase
  BY DEF RoundInv
<1>1. \A r \in DOMAIN runs : /\ r \in DOMAIN runs' /\ Alike(runs[r], runs'[r]) /\ Still(runs[r], runs'[r])
                             /\ runs'[r].at # "failed"
  BY DEF Still
<1>2. Extends(messages, messages')
  BY <1>0, Known
<1>3. LossesFit'
  BY <1>0, <1>1, <1>2, LossesStay
<1>4. RoundBase' /\ \A c \in Channels : Open(c)' => Open(c)
  <2>1. PICK d \in Channels : TRUE
    <3>1. 1 \in DOMAIN messages
      BY <1>0, Known
    <3> QED BY <1>0, <3>1, Fields
  <2> QED BY <1>0, <1>1, <1>2, <1>3, QuietStep
<1>5. ASSUME NEW c \in Channels \ Dms, Open(c)' PROVE RoundFits(c)'
  <2>1. Open(c) /\ RoundFits(c) /\ Newest(c) # 0
    BY <1>4, <1>5 DEF RoundInv, Open
  <2>2. \A r \in Showing(c) : Running(r) => Running(r)'
    BY DEF Showing
  <2> QED BY <1>0, <1>1, <1>2, <2>1, <2>2, RoundRests
<1> QED BY <1>4, <1>5 DEF RoundInv

\* A turn is taken: the wake is deferred, or not needed, or a run begins.
LEMMA QueueTurnKeepsRound ==
    ASSUME ConversationAssumption, OneRound, RoundInv, ConversationInv', NEW k \in DOMAIN turns, QueueTurn(k)
    PROVE  RoundInv'
<1>0. ConversationInv /\ RoundBase
  BY DEF RoundInv
<1>c. PICK c \in Channels : c = turns[k].chan
  BY <1>0, Fields
<1>a. PICK a \in Members[c] : a = turns[k].agent
  BY <1>0, <1>c DEF RoundBase, WokenInRound
<1>i. PICK i : i = turns[k].msg
  OBVIOUS
<1>t. PICK t : t = turns[k].reply
  OBVIOUS
<1>1. Heard(messages, c, i) /\ a \in Agents /\ t \in {None, c}
  BY <1>0, <1>c, <1>a, <1>i, <1>t, Known DEF ConversationInv, RoundBase, WokenInRound
<1>2. turns' = RemoveAt(turns, k) /\ UNCHANGED chatter
  BY DEF QueueTurn
<1>3. messages # <<>>
  BY <1>0, <1>1, WokenInChain
<1>4. /\ \A j \in DOMAIN turns' : \E p \in DOMAIN turns : turns'[j] = turns[p]
      /\ \A e, b : (\E p \in DOMAIN turns : turns[p].agent = b /\ turns[p].chan = e) /\ ~(b = a /\ e = c) =>
                        \E j \in DOMAIN turns' : turns'[j].agent = b /\ turns'[j].chan = e
  BY <1>0, <1>2, <1>a, <1>c, TurnTaken
<1>5. \A j \in DOMAIN turns' : turns'[j].agent \in Members[turns'[j].chan] /\ turns'[j].reply \in {None, turns'[j].chan}
  BY <1>0, <1>4 DEF RoundBase, WokenInRound
<1>6. CASE /\ Exhausted(i)
           /\ IF NoticesExhaustion(i)
              THEN messages' = Append(messages,
                      Said(c, System, "system", None, [trace |-> messages[i].trace, parent |-> i], {}, FALSE))
              ELSE UNCHANGED messages
           /\ UNCHANGED <<runs, reads, pending>>
  BY <1>0, <1>2, <1>6, <1>c, <1>i, ExhaustedKeepsRound
<1>7. CASE BusyAgent(a) /\ Defer(a, c, i, 0) /\ UNCHANGED <<messages, runs, reads>>
  <2>1. i \in Nat /\ 0 \in Nat
    BY <1>0, <1>1, Known DEF Heard
  <2>2. /\ \A b \in Agents : b # a => pending'[b] = pending[b]
        /\ pending'[a] # <<>> /\ \E j \in DOMAIN pending'[a] : pending'[a][j].chan = c
        /\ \A p \in DOMAIN pending[a] : \E j \in DOMAIN pending'[a] : pending'[a][j].chan = pending[a][p].chan
        /\ \A j \in DOMAIN pending'[a] :
              \/ j \in DOMAIN pending[a] /\ pending'[a][j] = pending[a][j]
              \/ /\ pending'[a][j].chan = c
                 /\ \/ pending'[a][j].lost = 0
                    \/ \E p \in DOMAIN pending[a] : pending[a][p].chan = c /\ pending'[a][j].lost = pending[a][p].lost
    <3>1. a \in Agents /\ Heard(messages, c, i)
      BY <1>1
    <3>2. Defer(a, c, i, 0)
      BY <1>7
    <3> QED BY <1>0, <2>1, <3>1, <3>2, DeferKeeps
  <2>3. WokenInRound'
    <3>1. ASSUME NEW b \in Agents, NEW j \in DOMAIN pending'[b] PROVE b \in Members[pending'[b][j].chan]
      <4>1. \A p \in DOMAIN pending[b] : b \in Members[pending[b][p].chan]
        BY <1>0 DEF RoundBase, WokenInRound
      <4> QED BY <2>2, <4>1
    <3> QED BY <1>5, <3>1 DEF WokenInRound
  <2>4. OneAtATime'
    <3>1. \A b \in Agents : pending'[b] # <<>> => BusyAgent(b)
      BY <1>0, <1>7, <2>2 DEF RoundBase, OneAtATime
    <3>2. OneAtATime
      BY <1>0 DEF RoundBase
    <3> QED BY <1>7, <3>1, <3>2 DEF OneAtATime, BusyAgent
  <2>5. \A b \in Agents : \A j \in DOMAIN pending'[b] : pending'[b][j].lost > 0 =>
              \E p \in DOMAIN pending[b] : pending[b][p].chan = pending'[b][j].chan /\ pending[b][p].lost > 0
    BY <2>2
  <2>6. ASSUME NEW e \in Channels, NEW b \in Agents, Owed(e, b) PROVE Owed(e, b)'
    <3>1. CASE b = a /\ e = c
      BY <2>2, <3>1 DEF Owed
    <3>2. CASE ~(b = a /\ e = c)
      <4>1. (\E p \in DOMAIN pending[b] : pending[b][p].chan = e) => \E j \in DOMAIN pending'[b] : pending'[b][j].chan = e
        BY <2>2
      <4> QED BY <1>4, <2>6, <3>2, <4>1 DEF Owed
    <3> QED BY <3>1, <3>2
  <2>7. \A r \in DOMAIN runs : Still(runs[r], runs'[r]) /\ runs'[r].at # "failed" /\ (Running(r) => Running(r)')
    BY <1>0, <1>7, SameRuns DEF Running
  <2> QED BY <1>0, <1>2, <1>3, <1>7, <2>3, <2>4, <2>5, <2>6, <2>7, WaitKeepsRound
<1>8. CASE ~BusyAgent(a) /\ ~HasPrompt(a, c, 0) /\ UNCHANGED <<messages, runs, reads, pending>>
  <2>1. WokenInRound'
    BY <1>0, <1>5, <1>8 DEF RoundBase, WokenInRound
  <2>2. OneAtATime'
    BY <1>0, <1>8 DEF RoundBase, OneAtATime, BusyAgent
  <2>3. ASSUME NEW e \in Channels, NEW b \in Agents, Newest(e) # 0, Owed(e, b)
        PROVE  Owed(e, b)' \/ Served(e, b) \/ b = Speaker(e)
    <3>1. CASE b = a /\ e = c
      BY <1>0, <1>8, <2>3, <3>1, UnpromptedIsServed
    <3>2. CASE ~(b = a /\ e = c)
      BY <1>4, <1>8, <2>3, <3>2 DEF Owed
    <3> QED BY <3>1, <3>2
  <2>4. \A r \in DOMAIN runs : Still(runs[r], runs'[r]) /\ runs'[r].at # "failed" /\ (Running(r) => Running(r)')
    BY <1>0, <1>8, SameRuns DEF Running
  <2> QED BY <1>0, <1>2, <1>3, <1>8, <2>1, <2>2, <2>3, <2>4, WaitKeepsRound
<1>9. CASE ~BusyAgent(a) /\ HasPrompt(a, c, 0) /\ StartRun(a, c, t, i, 0) /\ UNCHANGED <<messages, pending>>
  <2>1. /\ runs' = Append(runs,
              [agent |-> a, chan |-> c, reply |-> c,
               trace |-> messages[i].trace, trigger |-> i, at |-> "running", silent |-> FALSE,
               seen |-> Latest(In(messages, c)), after |-> Len(messages), lost |-> 0, tools |-> 0])
        /\ reads' = [reads EXCEPT ![a][c] = Latest(In(messages, c))]
    <3>1. (IF t = None THEN c ELSE t) = c
      BY <1>1
    <3> QED BY <1>9, <3>1 DEF StartRun
  <2>2. runs \in Seq(RunRecords) /\ 0 \in Nat
    BY <1>0, Known
  <2>3. \A q \in DOMAIN runs : Still(runs[q], runs[q])
    BY DEF Still, Alike
  <2>4. \A q \in DOMAIN runs : IF runs[q].agent = a THEN ~Running(q) /\ runs[q].at \notin Engaged ELSE runs[q] = runs[q]
    BY <1>9 DEF BusyAgent, Running, Engaged
  <2>5. c \notin Dms /\ Open(c) => a # Speaker(c) /\ ~Served(c, a)
    <3> SUFFICES ASSUME c \notin Dms, Open(c) PROVE a # Speaker(c) /\ ~Served(c, a)
      OBVIOUS
    <3>1. RoundFits(c)
      BY DEF RoundInv
    <3> QED BY <1>0, <1>1, <1>9, <2>4, <3>1, PromptedIsBehind
  <2>6. pending[a] = <<>> /\ \A b \in Agents : b # a => pending'[b] = pending[b]
    BY <1>0, <1>1, <1>9 DEF RoundBase, OneAtATime
  <2>7. \A j \in DOMAIN pending'[a] : pending'[a][j].chan # c /\ \E p \in DOMAIN pending[a] : pending'[a][j] = pending[a][p]
    BY <1>9, <2>6
  <2>8. \A e, b : b \in Agents /\ Owed(e, b) => Owed(e, b)' \/ (e = c /\ b = a)
    BY <1>4, <1>9 DEF Owed
  <2> QED BY <1>0, <1>1, <1>2, <1>4, <1>9, <2>1, <2>2, <2>3, <2>4, <2>5, <2>6, <2>7, <2>8, BeginKeepsRound
<1> QED BY <1>1, <1>6, <1>7, <1>8, <1>9, <1>a, <1>c, <1>i, <1>t DEF QueueTurn

\* A run drains: it ends, and the wake that was deferred first becomes a run, if it has a
\* prompt, or is dropped.
LEMMA DrainKeepsRound ==
    ASSUME ConversationAssumption, OneRound, RoundInv, ConversationInv', NEW r \in DOMAIN runs, Drain(r)
    PROVE  RoundInv'
<1>0. ConversationInv /\ RoundBase
  BY DEF RoundInv
<1>a. PICK a \in Agents : a = runs[r].agent
  BY <1>0, Fields
<1>p. PICK p \in Seq(WakeRecords) : p = pending[a]
  BY <1>0, Known
<1>1. /\ runs[r].at \in Engaged \ {"running"} /\ runs[r].at # "failed"
      /\ UNCHANGED <<messages, chatter, turns>>
  BY <1>0 DEF Drain, RoundBase, RunInRound
<1>2. messages # <<>>
  BY <1>0 DEF ConversationInv, RunFits, Heard
<1>x. PICK x : x = Ended(runs[r], "done")
  OBVIOUS
<1>3. Still(runs[r], x) /\ x.at = "done" /\ x \in RunRecords
  BY <1>0, <1>x, Known, EndedIsStill, EndedIsRun DEF RunPlaces
<1>4. PICK rs : rs = [runs EXCEPT ![r] = x]
  OBVIOUS
<1>5. rs = [runs EXCEPT ![r].at = "done"]
  BY <1>4, <1>x DEF Ended
<1>6. /\ rs \in Seq(RunRecords) /\ DOMAIN rs = DOMAIN runs /\ rs[r] = x
      /\ \A q \in DOMAIN runs : q # r => rs[q] = runs[q]
  BY <1>0, <1>3, <1>4, Known
<1>7. \A q \in DOMAIN runs : Still(runs[q], rs[q])
  <2>1. \A q \in DOMAIN runs : Still(runs[q], runs[q])
    BY DEF Still, Alike
  <2> QED BY <1>3, <1>6, <2>1
\* Its agent has no other run that is engaged.
<1>8. \A q \in DOMAIN runs : runs[q].agent = a /\ q # r => runs[q].at \notin Engaged
  BY <1>0, <1>1, <1>a DEF RoundBase, OneAtATime
<1>9. "done" \notin Engaged /\ "running" \in Engaged
  BY DEF Engaged
<1>10. \A q \in DOMAIN runs : runs[q].agent = a => ~Running(q) /\ rs[q].at \notin Engaged
  BY <1>1, <1>3, <1>6, <1>8, <1>9 DEF Running
<1>11. \A q \in DOMAIN runs : runs[q].at # "failed" /\ rs[q].at # "failed" /\ (Running(q) => rs[q].at = "running")
  <2> TAKE q \in DOMAIN runs
  <2>1. runs[q].at # "failed"
    BY <1>0 DEF RoundBase, RunInRound
  <2> QED BY <1>1, <1>3, <1>6, <2>1 DEF Running
<1>12. CASE p = <<>>
  <2>1. runs' = rs /\ UNCHANGED <<reads, pending>>
    BY <1>5, <1>12, <1>a, <1>p DEF Drain
  <2>2. WokenInRound'
    BY <1>0, <1>1, <2>1 DEF RoundBase, WokenInRound
  <2>3. OneAtATime'
    <3>1. \A q \in DOMAIN runs : rs[q].agent = runs[q].agent /\ (rs[q].at \in Engaged => runs[q].at \in Engaged)
      BY <1>3, <1>6, <1>7, <1>9 DEF Still, Alike
    <3>2. ASSUME NEW b \in Agents, pending[b] # <<>>
          PROVE  \E q \in DOMAIN rs : rs[q].agent = b /\ rs[q].at \in Engaged
      <4>1. b # a
        BY <1>12, <1>p, <3>2
      <4>2. PICK q \in DOMAIN runs : runs[q].agent = b /\ runs[q].at \in Engaged
        BY <1>0, <3>2 DEF RoundBase, OneAtATime, BusyAgent
      <4> QED BY <1>6, <1>a, <4>1, <4>2
    <3>3. OneAtATime
      BY <1>0 DEF RoundBase
    <3> QED BY <1>6, <2>1, <3>1, <3>2, <3>3, OneStays DEF BusyAgent
  <2>4. \A b \in Agents : \A j \in DOMAIN pending'[b] : pending'[b][j].lost > 0 =>
           \E k \in DOMAIN pending[b] : pending[b][k].chan = pending'[b][j].chan /\ pending[b][k].lost > 0
    BY <2>1
  <2>5. \A c, b : Owed(c, b) => Owed(c, b)'
    BY <1>1, <2>1 DEF Owed
  <2>6. \A q \in DOMAIN runs : Still(runs[q], runs'[q]) /\ runs'[q].at # "failed" /\ (Running(q) => Running(q)')
    BY <1>7, <1>11, <2>1 DEF Running
  <2> QED BY <1>0, <1>1, <1>2, <1>6, <2>1, <2>2, <2>3, <2>4, <2>5, <2>6, WaitKeepsRound
<1>13. CASE p # <<>>
  <2>w. PICK w : w = p[1]
    OBVIOUS
  <2>1. /\ 1 \in DOMAIN p /\ w \in WakeRecords /\ WakesFit(messages, p)
        /\ \A k \in DOMAIN p : a \in Members[p[k].chan]
    BY <1>0, <1>13, <1>p, <2>w DEF ConversationInv, RoundBase, WokenInRound
  <2>c. PICK c \in Channels : c = w.chan
    BY <2>1 DEF WakeRecords
  <2>i. PICK i : i = w.msg
    OBVIOUS
  <2>l. PICK lost \in Nat : lost = w.lost
    BY <2>1 DEF WakeRecords
  <2>2. a \in Members[c] /\ Heard(messages, c, i)
    BY <2>1, <2>c, <2>i, <2>w DEF WakesFit
  <2>3. /\ pending'[a] = Tail(p) /\ \A b \in Agents : b # a => pending'[b] = pending[b]
    <3>1. pending' = [pending EXCEPT ![a] = Tail(@)]
      BY <1>13, <1>a, <1>p DEF Drain
    <3> QED BY <1>0, <1>p, <3>1, Known
  <2>4. /\ \A j \in DOMAIN Tail(p) : j + 1 \in DOMAIN p /\ j + 1 # 1 /\ Tail(p)[j] = p[j + 1]
        /\ \A k \in DOMAIN p : k # 1 => \E j \in DOMAIN Tail(p) : Tail(p)[j] = p[k]
    <3>1. Len(p) \in Nat /\ Len(p) > 0 /\ Tail(p) \in Seq(WakeRecords) /\ Len(Tail(p)) = Len(p) - 1
          /\ DOMAIN p = 1 .. Len(p) /\ DOMAIN Tail(p) = 1 .. Len(p) - 1
          /\ \A j \in 1 .. Len(p) - 1 : Tail(p)[j] = p[j + 1]
      BY <1>13
    <3>2. ASSUME NEW k \in DOMAIN p, k # 1 PROVE \E j \in DOMAIN Tail(p) : Tail(p)[j] = p[k]
      <4>1. PICK j \in 1 .. Len(p) - 1 : j = k - 1
        BY <3>1, <3>2
      <4>2. j + 1 = k
        BY <3>1, <4>1
      <4> QED BY <3>1, <4>1, <4>2
    <3> QED BY <3>1, <3>2
  <2>5. \A j \in DOMAIN pending'[a] : pending'[a][j].chan # c /\ \E k \in DOMAIN pending[a] : pending'[a][j] = pending[a][k]
    BY <1>p, <2>1, <2>3, <2>4, <2>c, <2>w DEF WakesFit
  <2>6. ASSUME NEW e, NEW b \in Agents, Owed(e, b) PROVE Owed(e, b)' \/ (e = c /\ b = a)
    <3>1. CASE \E k \in DOMAIN turns : turns[k].agent = b /\ turns[k].chan = e
      BY <1>1, <3>1 DEF Owed
    <3>2. CASE \E k \in DOMAIN pending[b] : pending[b][k].chan = e
      <4>1. CASE b # a
        BY <2>3, <3>2, <4>1 DEF Owed
      <4>2. CASE b = a /\ e # c
        <5>1. PICK k \in DOMAIN p : p[k].chan = e
          BY <1>p, <3>2, <4>2
        <5>2. k # 1
          BY <2>c, <2>w, <4>2, <5>1
        <5>3. PICK j \in DOMAIN Tail(p) : Tail(p)[j] = p[k]
          BY <2>4, <5>2
        <5>4. j \in DOMAIN pending'[b] /\ pending'[b][j].chan = e
          BY <2>3, <4>2, <5>1, <5>3
        <5> QED BY <5>4 DEF Owed
      <4> QED BY <4>1, <4>2
    <3> QED BY <2>6, <3>1, <3>2 DEF Owed
  <2>7. \A b \in Agents : \A j \in DOMAIN pending'[b] : \E k \in DOMAIN pending[b] : pending'[b][j] = pending[b][k]
    <3> TAKE b \in Agents
    <3>1. CASE b = a
      BY <2>5, <3>1
    <3>2. CASE b # a
      BY <2>3, <3>2
    <3> QED BY <3>1, <3>2
  <2>8. CASE ~HasPrompt(a, c, lost)
    <3>1. UNCHANGED <<runs, reads>>
      BY <1>1, <1>13, <1>a, <1>p, <2>8, <2>c, <2>l, <2>w DEF Drain
    <3>2. WokenInRound'
      BY <1>0, <1>1, <2>7 DEF RoundBase, WokenInRound
    <3>3. OneAtATime'
      <4>1. OneAtATime
        BY <1>0 DEF RoundBase
      <4>2. BusyAgent(a)
        BY <1>1, <1>a DEF BusyAgent
      <4>3. \A b \in Agents : pending'[b] # <<>> => BusyAgent(b)
        BY <2>3, <4>1, <4>2 DEF OneAtATime
      <4> QED BY <3>1, <4>1, <4>3 DEF OneAtATime, BusyAgent
    <3>4. \A b \in Agents : \A j \in DOMAIN pending'[b] : pending'[b][j].lost > 0 =>
             \E k \in DOMAIN pending[b] : pending[b][k].chan = pending'[b][j].chan /\ pending[b][k].lost > 0
      BY <2>7
    <3>5. Newest(c) # 0 => a = Speaker(c) \/ Served(c, a)
      BY <1>0, <2>8, UnpromptedIsServed
    <3>6. \A e \in Channels, b \in Agents : Newest(e) # 0 /\ Owed(e, b) => Owed(e, b)' \/ Served(e, b) \/ b = Speaker(e)
      BY <2>6, <3>5
    <3>7. \A q \in DOMAIN runs : Still(runs[q], runs'[q]) /\ runs'[q].at # "failed" /\ (Running(q) => Running(q)')
      BY <1>0, <3>1, SameRuns DEF Running
    <3> QED BY <1>0, <1>1, <1>2, <3>1, <3>2, <3>3, <3>4, <3>6, <3>7, WaitKeepsRound
  <2>9. CASE HasPrompt(a, c, lost)
    <3>1. /\ reads' = [reads EXCEPT ![a][c] = Latest(In(messages, c))]
          /\ runs' = Append(rs,
              [agent |-> a, chan |-> c, reply |-> c,
               trace |-> messages[i].trace, trigger |-> i, at |-> "running", silent |-> FALSE,
               seen |-> Latest(In(messages, c)), after |-> Len(messages), lost |-> lost, tools |-> 0])
      BY <1>1, <1>5, <1>13, <1>a, <1>p, <2>9, <2>c, <2>i, <2>l, <2>w DEF Drain
    <3>2. \A q \in DOMAIN runs : IF runs[q].agent = a THEN ~Running(q) /\ rs[q].at \notin Engaged ELSE rs[q] = runs[q]
      BY <1>6, <1>10, <1>a
    <3>3. c \notin Dms /\ Open(c) => a # Speaker(c) /\ ~Served(c, a)
      <4> SUFFICES ASSUME c \notin Dms, Open(c) PROVE a # Speaker(c) /\ ~Served(c, a)
        OBVIOUS
      <4>1. RoundFits(c)
        BY DEF RoundInv
      <4>2. CASE lost = 0
        BY <1>0, <1>10, <2>9, <4>1, <4>2, PromptedIsBehind
      <4>3. CASE lost > 0
        <5>a. 1 \in DOMAIN pending[a] /\ pending[a][1].chan = c /\ pending[a][1].lost > 0
          BY <1>p, <2>1, <2>c, <2>l, <2>w, <4>3
        <5>b. \A k \in DOMAIN pending[a] : pending[a][k].lost > 0 => Behind(a, pending[a][k].chan)
          BY <1>0 DEF RoundBase, LossesFit
        <5>1. Behind(a, c)
          BY <5>a, <5>b
        <5>2. \A q \in DOMAIN runs : runs[q].seen \in Nat
          BY <1>0, Fields
        <5>3. Newest(c) \in Nat
          BY <1>0, NewestIs
        <5>4. a # Speaker(c)
          BY <5>1 DEF Behind, Speaker
        <5>5. ASSUME NEW q \in Showing(c), runs[q].agent = a PROVE FALSE
          <6>1. q \in DOMAIN runs /\ runs[q].chan = c /\ runs[q].seen >= Newest(c)
            BY DEF Showing
          <6>2. runs[q].seen < Newest(c)
            BY <5>1, <5>5, <6>1 DEF Behind
          <6> QED BY <5>2, <5>3, <6>1, <6>2
        <5> QED BY <5>4, <5>5 DEF Served
      <4> QED BY <4>2, <4>3
    <3>4. \A j \in DOMAIN turns' : \E q \in DOMAIN turns : turns'[j] = turns[q]
      BY <1>1
    <3>5. \A e, b : b \in Agents /\ Owed(e, b) => Owed(e, b)' \/ (e = c /\ b = a)
      BY <2>6
    <3>6. /\ rs \in Seq(RunRecords) /\ DOMAIN rs = DOMAIN runs /\ UNCHANGED <<messages, chatter>>
          /\ \A b \in Agents : b # a => pending'[b] = pending[b]
      BY <1>1, <1>6, <2>3
    <3> QED BY <1>7, <2>2, <2>5, <3>1, <3>2, <3>3, <3>4, <3>5, <3>6, BeginKeepsRound
  <2> QED BY <2>8, <2>9
<1> QED BY <1>12, <1>13

\* A run stays silent: it passes the turn on, unless everybody has passed.
LEMMA StaySilentKeepsRound ==
    ASSUME ConversationAssumption, OneRound, RoundInv, ConversationInv', NEW r \in DOMAIN runs, StaySilent(r)
    PROVE  RoundInv'
<1>0. ConversationInv /\ RoundBase
  BY DEF RoundInv
<1>a. PICK a \in Agents : a = runs[r].agent
  BY <1>0, Fields
<1>c. PICK c \in Channels : c = runs[r].chan
  BY <1>0, Fields
<1>b. PICK next : next = Follower(c, a)
  OBVIOUS
<1>1. UNCHANGED <<messages, reads, chatter, pending>> /\ Running(r) /\ runs[r].trace = 1 /\ messages # <<>>
  BY <1>0 DEF StaySilent, ConversationInv, RunFits, Heard, RoundBase, RunInRound
<1>x. PICK x : x = Silenced(runs[r])
  OBVIOUS
<1>2. runs' = [runs EXCEPT ![r] = x] /\ Alike(runs[r], x) /\ x.at = "silent" /\ x.silent
  <2>1. runs[r] \in RunRecords
    BY <1>0, Known
  <2> QED BY <1>x, <2>1, SilencedIsAlike DEF StaySilent, Silenced
<1>3. /\ DOMAIN runs' = DOMAIN runs /\ runs'[r] = x
      /\ (\A q \in DOMAIN runs : q # r => runs'[q] = runs[q])
      /\ \A q \in DOMAIN runs : Alike(runs[q], runs'[q])
  BY <1>0, <1>2, OneChanged
<1> DEFINE t == Turn(next, c, Newest(c), None, r)
           passed == /\ c \notin Dms
                     /\ messages[Newest(c)].trace = 1
                     /\ MayPass(r)
                     /\ next \in Members[c] \ {messages[Newest(c)].author}
<1>4. turns' = IF passed THEN Append(turns, t) ELSE turns
  BY <1>0, <1>a, <1>b, <1>c, StartedInRound DEF StaySilent, Follower, Order, OneRound
<1>5. t.agent = next /\ t.chan = c /\ t.reply = None
  BY DEF Turn
<1> HIDE DEF t
<1>6. turns \in Seq(TurnRecords) /\ Len(turns) \in Nat /\ DOMAIN turns = 1 .. Len(turns)
  BY <1>0, Known
<1>7. /\ \A k \in DOMAIN turns : k \in DOMAIN turns' /\ turns'[k] = turns[k]
      /\ passed => \E k \in DOMAIN turns' : turns'[k] = t
      /\ \A k \in DOMAIN turns' : \/ k \in DOMAIN turns /\ turns'[k] = turns[k]
                                  \/ passed /\ turns'[k] = t
  <2> HIDE DEF passed
  <2>1. CASE passed
    <3>1. turns' = Append(turns, t)
      BY <1>4, <2>1
    <3>2. turns' = turns \o <<t>> /\ Len(turns') = Len(turns) + 1 /\ DOMAIN turns' = 1 .. Len(turns) + 1
          /\ turns'[Len(turns) + 1] = t /\ \A k \in 1 .. Len(turns) : turns'[k] = turns[k]
      BY <1>6, <3>1
    <3>3. \A k \in DOMAIN turns' : k \in DOMAIN turns \/ k = Len(turns) + 1
      BY <1>6, <3>2
    <3>4. Len(turns) + 1 \in DOMAIN turns' /\ \A k \in DOMAIN turns : k \in DOMAIN turns'
      BY <1>6, <3>2
    <3> QED BY <1>6, <2>1, <3>2, <3>3, <3>4
  <2>2. CASE ~passed
    BY <1>4, <2>2
  <2> QED BY <2>1, <2>2
<1>8. \A e, b : Owed(e, b) => Owed(e, b)'
  BY <1>1, <1>7 DEF Owed
<1>9. WokenInRound'
  <2>1. \A k \in DOMAIN turns' : turns'[k].agent \in Members[turns'[k].chan] /\ turns'[k].reply \in {None, turns'[k].chan}
    BY <1>0, <1>5, <1>7 DEF RoundBase, WokenInRound
  <2> QED BY <1>0, <1>1, <2>1 DEF RoundBase, WokenInRound
<1>10. OneAtATime'
  <2>1. \A q \in DOMAIN runs : runs'[q].agent = runs[q].agent /\ (runs'[q].at \in Engaged <=> runs[q].at \in Engaged)
    <3>1. "silent" \in Engaged /\ runs[r].at \in Engaged
      BY <1>1 DEF Engaged, Running
    <3> QED BY <1>2, <1>3, <3>1 DEF Alike
  <2>2. OneAtATime
    BY <1>0 DEF RoundBase
  <2>3. \A b \in Agents : pending'[b] # <<>> => \E q \in DOMAIN runs' : runs'[q].agent = b /\ runs'[q].at \in Engaged
    BY <1>1, <1>3, <2>1, <2>2 DEF OneAtATime, BusyAgent
  <2> QED BY <1>3, <2>1, <2>2, <2>3, OneStays DEF BusyAgent
<1>11. Extends(messages, messages')
  BY <1>0, <1>1, Known
<1>12. LossesFit'
  <2>1. \A b \in Agents : \A j \in DOMAIN pending'[b] : pending'[b][j].lost > 0 =>
              \E k \in DOMAIN pending[b] : pending[b][k].chan = pending'[b][j].chan /\ pending[b][k].lost > 0
    BY <1>1
  <2> QED BY <1>0, <1>1, <1>3, <1>11, <2>1, LossesStay
<1>13. RoundBase' /\ \A e \in Channels : Open(e)' => Open(e)
  <2>1. \A q \in DOMAIN runs : /\ q \in DOMAIN runs' /\ Alike(runs[q], runs'[q]) /\ runs'[q].at # "failed"
    <3>1. \A q \in DOMAIN runs : runs[q].at # "failed"
      BY <1>0 DEF RoundBase, RunInRound
    <3> QED BY <1>2, <1>3, <3>1
  <2> QED BY <1>0, <1>1, <1>3, <1>9, <1>10, <1>11, <1>12, <2>1, QuietStep
<1>14. ASSUME NEW e \in Channels \ Dms, Open(e)' PROVE RoundFits(e)'
  <2>1. Open(e) /\ RoundFits(e) /\ Newest(e) # 0
    BY <1>13, <1>14 DEF RoundInv, Open
  <2>2. \A q \in Showing(e) : Running(q) => Running(q)' \/ runs'[q].silent
    BY <1>2, <1>3 DEF Showing, Running
  <2>3. ASSUME NEW f \in Agents, NEW b \in Agents, Passed(e, f)', ~Passed(e, f), b = Follower(e, f), b # Speaker(e)
        PROVE  Served(e, b) \/ Owed(e, b)'
    <3>1. Newest(e)' = Newest(e)
      BY <1>1 DEF Newest, In, StateBearing
    <3>2. PICK q \in DOMAIN runs' : q \in Showing(e)' /\ runs'[q].agent = f /\ runs'[q].silent
      BY <2>3 DEF Passed, Showing
    <3>3. q \in DOMAIN runs /\ q \in Showing(e) /\ runs[q].agent = f
      <4>1. q \in DOMAIN runs /\ Alike(runs[q], runs'[q])
        BY <1>3
      <4> QED BY <3>1, <3>2, <4>1 DEF Showing, Alike
    <3>4. q = r
      BY <1>3, <2>3, <3>2, <3>3 DEF Passed
    <3>5. e = c /\ f = a /\ next = b
      BY <1>a, <1>b, <1>c, <2>3, <3>3, <3>4 DEF Showing
    <3>6. PICK order : order = Order(c)
      OBVIOUS
    <3>7. \A p \in DOMAIN runs : runs[p].trace = 1 /\ runs[p].agent \in Members[runs[p].chan]
      BY <1>0 DEF RoundBase, RunInRound
    <3>8. /\ Ordered(runs, Len(runs), order) /\ order \subseteq DOMAIN runs
          /\ \A p \in order : runs[p].chan = c
          /\ \A p \in DOMAIN runs : runs[p].chan = c => \E u \in order : runs[u].agent = runs[p].agent
      BY <1>0, <3>6, <3>7, OrderOf
    <3>9. Cardinality(order) >= 2
      <4>1. PICK p \in DOMAIN runs : SpeakersRun(c, p)
        BY <2>1, <3>5 DEF RoundFits
      <4>2. PICK u \in order : runs[u].agent = Speaker(c)
        BY <3>8, <4>1 DEF SpeakersRun
      <4>3. PICK v \in order : runs[v].agent = a
        BY <1>a, <1>c, <3>8
      <4>4. a # Speaker(c)
        BY <2>1, <3>3, <3>5 DEF RoundFits
      <4>5. IsFiniteSet(order) /\ u # v
        BY <3>8, <4>2, <4>3, <4>4 DEF Ordered
      <4> QED BY <4>5, TwoAreTwo
    <3>10. PICK u \in order : NextAfter(runs, order, a) = runs[u].agent
      BY <3>8, <3>9, FollowerIs
    <3>11. b = runs[u].agent /\ u \in DOMAIN runs /\ b \in Members[c] /\ u \in Order(c)
      <4>1. next = runs[u].agent
        BY <1>b, <3>6, <3>10 DEF Follower
      <4>2. u \in DOMAIN runs /\ runs[u].chan = c
        BY <3>8
      <4> QED BY <3>5, <3>6, <3>7, <4>1, <4>2
    <3>12. CASE MayPass(r)
      <4>1. Newest(c) \in DOMAIN messages /\ messages[Newest(c)].kind = "message"
        BY <1>0, <2>1, <3>5, NewestIs DEF Bearing
      <4>2. messages[Newest(c)].trace = 1
        BY <1>0, <4>1 DEF RoundBase, SaidInRound
      <4>3. passed
        BY <2>3, <3>5, <3>11, <3>12, <4>2 DEF Speaker
      <4> HIDE DEF passed
      <4> QED BY <1>5, <1>7, <3>5, <4>3 DEF Owed
    <3>13. CASE ~MayPass(r)
      <4>1. Served(c, runs[u].agent)
        BY <1>0, <1>c, <2>1, <2>3, <3>5, <3>11, <3>13, EverybodyPassed
      <4> QED BY <3>5, <3>11, <4>1
    <3> QED BY <3>12, <3>13
  <2> HIDE DEF passed
  <2> QED BY <1>0, <1>1, <1>3, <1>8, <1>11, <2>1, <2>2, <2>3, RoundCarries
<1> QED BY <1>13, <1>14 DEF RoundInv

\* A reply loses its race: the agent had not been shown the newest message, and is owed
\* another turn, if one is owed at all.
LEMMA LoseReplyKeepsRound ==
    ASSUME ConversationAssumption, OneRound, RoundInv, ConversationInv', NEW r \in DOMAIN runs, LoseReply(r)
    PROVE  RoundInv'
<1>0. ConversationInv /\ RoundBase
  BY DEF RoundInv
<1>a. PICK a \in Agents : a = runs[r].agent
  BY <1>0, Fields
<1>c. PICK c \in Channels : c = runs[r].chan
  BY <1>0, Fields
<1>1. /\ Running(r) /\ runs[r].reply = c /\ messages # <<>> /\ reads[a][c] = runs[r].seen /\ a \in Members[c]
      /\ runs[r].seen \in Nat
  BY <1>0, <1>a, <1>c, Fields DEF LoseReply, ConversationInv, RunFits, Heard, RoundBase, RunInRound, Running
<1>2. Stale(a, c) /\ UNCHANGED <<reads, chatter, turns>>
  BY <1>1, <1>a DEF LoseReply, Refuse
<1> DEFINE m == Said(c, a, "conflict", r, TraceOfRun(r), {}, FALSE)
           i == Latest({j \in In(messages, c) : StateBearing(j) /\ messages[j].author # a})
           lost == runs[r].lost + 1
<1>3. messages' = Append(messages, m) /\ m.kind = "conflict"
  BY <1>1, <1>a DEF LoseReply, Refuse, Said
<1>4. UNCHANGED pending \/ Defer(a, c, i, lost)
  BY <1>1, <1>a DEF LoseReply
<1>5. lost \in Nat /\ i \in Nat
  <2>1. runs[r].lost \in Nat
    BY <1>0, Fields
  <2>2. {j \in In(messages, c) : StateBearing(j) /\ messages[j].author # a} \in SUBSET DOMAIN messages
    BY DEF In
  <2> QED BY <1>0, <2>1, <2>2, LatestBound
<1> HIDE DEF m, i, lost
<1>x. PICK x : x = Refused(runs[r], "lost")
  OBVIOUS
<1>6. runs' = [runs EXCEPT ![r] = x] /\ Still(runs[r], x) /\ x.at = "lost"
  <2>1. runs[r] \in RunRecords /\ "lost" \in RunPlaces
    BY <1>0, Known DEF RunPlaces, Engaged
  <2> QED BY <1>x, <2>1, RefusedIsStill DEF LoseReply, Refuse, Refused
<1>7. /\ DOMAIN runs' = DOMAIN runs /\ runs'[r] = x
      /\ (\A q \in DOMAIN runs : q # r => runs'[q] = runs[q])
      /\ \A q \in DOMAIN runs : Alike(runs[q], runs'[q])
  BY <1>0, <1>6, OneChanged DEF Still
<1>8. \A q \in DOMAIN runs : Still(runs[q], runs'[q])
  BY <1>6, <1>7 DEF Still
<1>9. /\ Extends(messages, messages')
      /\ \A j \in DOMAIN messages' \ DOMAIN messages : messages'[j].kind = "conflict"
  <2>1. messages \in Seq(MessageRecords) /\ Len(messages) \in Nat /\ messages' \in Seq(MessageRecords)
    BY <1>0, Known DEF ConversationInv, ConversationTypes
  <2>2. /\ Len(messages') = Len(messages) + 1 /\ messages'[Len(messages) + 1] = m
        /\ \A j \in 1 .. Len(messages) : messages'[j] = messages[j]
    BY <1>3, <2>1
  <2>3. DOMAIN messages' = 1 .. Len(messages) + 1 /\ DOMAIN messages = 1 .. Len(messages)
    BY <2>1, <2>2
  <2> QED BY <1>3, <2>1, <2>2, <2>3 DEF Extends
<1>10. /\ \A b \in Agents : b # a => pending'[b] = pending[b]
       /\ \A k \in DOMAIN pending[a] : \E j \in DOMAIN pending'[a] : pending'[a][j].chan = pending[a][k].chan
       /\ \A j \in DOMAIN pending'[a] :
              \/ j \in DOMAIN pending[a] /\ pending'[a][j] = pending[a][j]
              \/ pending'[a][j].chan = c
  <2>1. CASE UNCHANGED pending
    BY <2>1
  <2>2. CASE Defer(a, c, i, lost)
    BY <1>0, <1>5, <2>2, DeferKeeps
  <2> QED BY <1>4, <2>1, <2>2
\* Every run of the agent was shown less than the newest message.
<1>11. /\ Newest(c) \in Nat /\ Newest(c) # 0 /\ messages[Newest(c)].author # a
       /\ \A q \in DOMAIN runs : runs[q].agent = a /\ runs[q].chan = c => runs[q].seen < Newest(c)
  <2>1. Newest(c) > reads[a][c] /\ messages[Newest(c)].author # a /\ Newest(c) \in Nat
    BY <1>0, <1>2, NewestIs DEF Stale
  <2>2. ASSUME NEW q \in DOMAIN runs, runs[q].agent = a, runs[q].chan = c PROVE runs[q].seen < Newest(c)
    <3>1. runs[q].seen <= reads[a][c] /\ runs[q].seen \in Nat
      BY <1>0, <2>2, Fields DEF RoundBase, RunInRound
    <3> QED BY <1>1, <2>1, <3>1
  <2> QED BY <1>1, <2>1, <2>2
<1>12. \A q \in DOMAIN runs : runs[q].agent = a /\ q # r => ~Running(q)
  BY <1>0, <1>1, <1>a DEF RoundBase, OneAtATime, Running, Engaged
<1>13. Newest(c)' = Newest(c) /\ messages'[Newest(c)] = messages[Newest(c)]
  BY <1>0, <1>9, <1>11, NewestStays
<1>14. Behind(a, c)'
  <2>1. ASSUME NEW q \in DOMAIN runs', runs'[q].agent = a, runs'[q].chan = c
        PROVE  ~Running(q)' /\ runs'[q].seen < Newest(c)
    <3>1. q \in DOMAIN runs /\ runs[q].agent = a /\ runs[q].chan = c /\ runs'[q].seen = runs[q].seen
      BY <1>7, <2>1 DEF Alike
    <3>2. ~Running(q)'
      BY <1>6, <1>7, <1>12, <3>1 DEF Running
    <3> QED BY <1>11, <3>1, <3>2
  <2> QED BY <1>11, <1>13, <2>1 DEF Behind
<1>15. LossesFit'
  <2> SUFFICES ASSUME NEW b \in Agents, NEW j \in DOMAIN pending'[b], pending'[b][j].lost > 0,
                      NEW e, e = pending'[b][j].chan
               PROVE  Behind(b, e)'
    BY DEF LossesFit, Behind
  <2>1. CASE b = a /\ e = c
    BY <1>14, <2>1
  <2>2. CASE ~(b = a /\ e = c)
    <3>1. j \in DOMAIN pending[b] /\ pending'[b][j] = pending[b][j]
      BY <1>10, <2>2
    <3>2. Behind(b, e) /\ Newest(e) # 0
      BY <1>0, <3>1, WakesAreHeard DEF RoundBase, LossesFit
    <3>3. \A i_ \in DOMAIN messages' \ DOMAIN messages : messages'[i_].kind # "message"
      BY <1>9
    <3> QED BY <1>0, <1>7, <1>9, <3>2, <3>3, BehindStays
  <2> QED BY <2>1, <2>2
<1>16. WokenInRound'
  <2>1. ASSUME NEW b \in Agents, NEW j \in DOMAIN pending'[b] PROVE b \in Members[pending'[b][j].chan]
    <3>1. \A k \in DOMAIN pending[b] : b \in Members[pending[b][k].chan]
      BY <1>0 DEF RoundBase, WokenInRound
    <3> QED BY <1>1, <1>10, <3>1
  <2> QED BY <1>0, <1>2, <2>1 DEF RoundBase, WokenInRound
<1>17. OneAtATime'
  <2>1. "lost" \in Engaged /\ runs[r].at \in Engaged
    BY <1>1 DEF Engaged, Running
  <2>2. \A q \in DOMAIN runs : runs'[q].agent = runs[q].agent /\ (runs'[q].at \in Engaged <=> runs[q].at \in Engaged)
    BY <1>6, <1>7, <2>1 DEF Alike
  <2>3. OneAtATime
    BY <1>0 DEF RoundBase
  <2>4. ASSUME NEW b \in Agents, pending'[b] # <<>>
        PROVE  \E q \in DOMAIN runs : runs[q].agent = b /\ runs[q].at \in Engaged
    <3>1. CASE b = a
      BY <1>a, <2>1, <3>1
    <3>2. CASE b # a
      BY <1>10, <2>3, <2>4, <3>2 DEF OneAtATime, BusyAgent
    <3> QED BY <3>1, <3>2
  <2>5. \A b \in Agents : pending'[b] # <<>> => \E q \in DOMAIN runs' : runs'[q].agent = b /\ runs'[q].at \in Engaged
    BY <1>7, <2>2, <2>4
  <2> QED BY <1>7, <2>2, <2>3, <2>5, OneStays DEF BusyAgent
<1>18. RoundBase' /\ \A e \in Channels : Open(e)' => Open(e)
  <2>1. \A q \in DOMAIN runs : q \in DOMAIN runs' /\ Alike(runs[q], runs'[q]) /\ runs'[q].at # "failed"
    <3>1. \A q \in DOMAIN runs : runs[q].at # "failed"
      BY <1>0 DEF RoundBase, RunInRound
    <3> QED BY <1>6, <1>7, <3>1
  <2>2. \A j \in DOMAIN messages' \ DOMAIN messages : messages'[j].kind # "message" /\ messages'[j].kind # "system"
    BY <1>9
  <2> QED BY <1>0, <1>1, <1>2, <1>7, <1>9, <1>15, <1>16, <1>17, <2>1, <2>2, QuietStep
<1>19. ASSUME NEW e \in Channels \ Dms, Open(e)' PROVE RoundFits(e)'
  <2>1. Open(e) /\ RoundFits(e) /\ Newest(e) # 0
    BY <1>18, <1>19 DEF RoundInv, Open
  <2>2. \A q \in Showing(e) : Running(q) => Running(q)'
    <3> TAKE q \in Showing(e)
    <3>1. q \in DOMAIN runs /\ runs[q].chan = e /\ runs[q].seen >= Newest(e) /\ runs[q].seen \in Nat
      BY <1>0, Fields DEF Showing
    <3>2. q # r
      BY <1>11, <1>a, <1>c, <3>1
    <3> QED BY <1>7, <3>1, <3>2 DEF Running
  <2>3. \A b \in Agents : Owed(e, b) => Owed(e, b)'
    BY <1>2, <1>10 DEF Owed
  <2>4. \A j \in DOMAIN messages' \ DOMAIN messages : messages'[j].kind # "message"
    BY <1>9
  <2> QED BY <1>0, <1>7, <1>8, <1>9, <2>1, <2>2, <2>3, <2>4, RoundRests
<1> QED BY <1>18, <1>19 DEF RoundInv

\* Two sequences, one after the other.
Joins(v, s, u) ==
    /\ \A k \in DOMAIN s : k \in DOMAIN v /\ v[k] = s[k]
    /\ \A k \in DOMAIN u : Len(s) + k \in DOMAIN v /\ v[Len(s) + k] = u[k]
    /\ \A j \in DOMAIN v : j \in DOMAIN s \/ \E k \in DOMAIN u : j = Len(s) + k

\* A concatenation is.
LEMMA Joined ==
    ASSUME NEW S, NEW s \in Seq(S), NEW u \in Seq(S)
    PROVE  Joins(s \o u, s, u)
<1>0. PICK v : v = s \o u
  OBVIOUS
<1>1. /\ v \in Seq(S) /\ Len(v) = Len(s) + Len(u)
      /\ \A i \in 1 .. Len(s) + Len(u) : v[i] = IF i <= Len(s) THEN s[i] ELSE u[i - Len(s)]
  BY <1>0, ConcatProperties
<1>2. /\ Len(s) \in Nat /\ Len(u) \in Nat /\ DOMAIN s = 1 .. Len(s) /\ DOMAIN u = 1 .. Len(u)
      /\ DOMAIN v = 1 .. Len(s) + Len(u)
  BY <1>1
<1>3. ASSUME NEW k \in DOMAIN s PROVE k \in DOMAIN v /\ v[k] = s[k]
  BY <1>1, <1>2
<1>4. ASSUME NEW k \in DOMAIN u PROVE Len(s) + k \in DOMAIN v /\ v[Len(s) + k] = u[k]
  <2>1. PICK i : i = Len(s) + k
    OBVIOUS
  <2>2. i \in 1 .. Len(s) + Len(u) /\ ~(i <= Len(s)) /\ i - Len(s) = k
    BY <1>2, <2>1
  <2> QED BY <1>1, <1>2, <2>1, <2>2
<1>5. ASSUME NEW j \in DOMAIN v PROVE j \in DOMAIN s \/ \E k \in DOMAIN u : j = Len(s) + k
  <2>1. CASE j <= Len(s)
    BY <1>2, <2>1
  <2>2. CASE j > Len(s)
    <3>1. PICK k : k = j - Len(s)
      OBVIOUS
    <3>2. k \in DOMAIN u /\ j = Len(s) + k
      BY <1>2, <2>2, <3>1
    <3> QED BY <3>2
  <2> QED BY <1>2, <2>1, <2>2
<1> QED BY <1>0, <1>3, <1>4, <1>5 DEF Joins

\* What is added when something is said: a notice follows it when the budget is spent.
LEMMA SaysThis ==
    ASSUME ConversationAssumption, ConversationInv, NEW c, NEW rs, NEW m, m.id = Len(messages) + 1, AppendAndWake(c, m, rs)
    PROVE  /\ \A i \in DOMAIN messages : i \in DOMAIN messages' /\ messages'[i] = messages[i]
           /\ m.id \in DOMAIN messages' /\ messages'[m.id] = m
           /\ \A i \in DOMAIN messages' \ DOMAIN messages : i # m.id =>
                 messages'[i].kind = "system" /\ messages'[i].chan = c /\ BudgetSpent(c, m)
<1>p. PICK p : p = PauseNotice(c, m)
  OBVIOUS
<1>1. p.kind = "system" /\ p.chan = c
  BY <1>p DEF PauseNotice
<1> DEFINE S == MessageRecords \cup {m, p}
<1>2. messages \in Seq(S) /\ Len(messages) \in Nat /\ DOMAIN messages = 1 .. Len(messages)
  <2>1. MessageRecords \subseteq S
    OBVIOUS
  <2> HIDE DEF S
  <2> QED BY <2>1, Known, SeqMonotonic
<1>3. m \in S /\ p \in S
  OBVIOUS
<1> HIDE DEF S
<1>4. \/ messages' = messages \o <<m, p>> /\ BudgetSpent(c, m)
      \/ messages' = messages \o <<m>>
  <2>1. \/ messages' = messages \o <<m, p>> /\ BudgetSpent(c, m)
        \/ messages' = messages \o <<m>>
        \/ messages' = Append(messages, m)
    BY <1>p DEF AppendAndWake
  <2>2. Append(messages, m) = messages \o <<m>>
    BY <1>2, <1>3, AppendIsConcat
  <2> QED BY <2>1, <2>2
<1>5. PICK u \in Seq(S) : /\ messages' = messages \o u /\ 1 \in DOMAIN u /\ u[1] = m
                          /\ \A k \in DOMAIN u : k # 1 => u[k] = p /\ BudgetSpent(c, m)
  <2>1. CASE messages' = messages \o <<m, p>> /\ BudgetSpent(c, m)
    <3>1. <<m, p>> \in Seq(S) /\ 1 \in DOMAIN <<m, p>> /\ <<m, p>>[1] = m /\ \A k \in DOMAIN <<m, p>> : k # 1 => <<m, p>>[k] = p
      BY <1>3
    <3> QED BY <2>1, <3>1
  <2>2. CASE messages' = messages \o <<m>>
    <3>1. <<m>> \in Seq(S) /\ 1 \in DOMAIN <<m>> /\ <<m>>[1] = m /\ \A k \in DOMAIN <<m>> : k = 1
      BY <1>3
    <3> QED BY <2>2, <3>1
  <2> QED BY <1>4, <2>1, <2>2
<1>6. /\ \A i \in DOMAIN messages : i \in DOMAIN messages' /\ messages'[i] = messages[i]
      /\ \A k \in DOMAIN u : Len(messages) + k \in DOMAIN messages' /\ messages'[Len(messages) + k] = u[k]
      /\ \A j \in DOMAIN messages' : j \in DOMAIN messages \/ \E k \in DOMAIN u : j = Len(messages) + k
  <2>1. Joins(messages \o u, messages, u)
    BY <1>2, Joined
  <2>2. Joins(messages', messages, u)
    BY <1>5, <2>1
  <2> QED BY <2>2 DEF Joins
<1> QED BY <1>1, <1>5, <1>6

\* v wakes members, each to answer in c; with turn taking the next one is among them.
Wakes(v, c, a, next) ==
    /\ v \in Seq(TurnRecords)
    /\ \A k \in DOMAIN v : v[k].agent \in Members[c] /\ v[k].reply \in {None, c} /\ v[k].chan = c
    /\ \A b \in Members[c] \ {a} :
          TurnTaking = TRUE /\ a # User /\ c \notin Dms /\ b = next => \E k \in DOMAIN v : v[k].agent = b /\ v[k].chan = c

\* A question that m answers was asked by a member, in the channel.
AnswersHere(c, m) ==
    Question(m) # None => messages[Question(m)].author \in Members[c] /\ AskedIn(Question(m)) \in {None, c}

\* Whom something wakes: members, each to answer there; with turn taking the one who
\* follows is among them.
LEMMA WakesMembers ==
    ASSUME ConversationAssumption, ConversationInv, NEW c \in Channels, NEW rs, NEW m, m.id \in Nat,
           m.run \in {None} \cup DOMAIN runs, m.parent \in {None} \cup DOMAIN messages, AnswersHere(c, m)
    PROVE  Wakes(Woken(c, m, rs), c, m.author, NextAfter(rs, ParticipantOrder(rs, c, m.trace), m.author))
<1> DEFINE q == Question(m)
           asker == IF q = None THEN None ELSE messages[q].author
           next == IF TurnTaking /\ m.author # User /\ c \notin Dms
                   THEN NextAfter(rs, ParticipantOrder(rs, c, m.trace), m.author) ELSE None
           addressed == {a \in Members[c] \cup (Agents \cap {asker}) :
                            a # m.author /\ (c \in Dms \/ a \in m.to \/ a \in {next, asker})}
           turn == [a \in addressed |-> Turn(a, c, m.id, IF a = asker THEN AskedIn(q) ELSE None, m.run)]
           S == {turn[a] : a \in DOMAIN turn}
<1>1. None \notin Agents /\ IsFiniteSet(Agents) /\ Members[c] \subseteq Agents
  BY DEF ConversationAssumption
<1>2. Woken(c, m, rs) = SetToSeq(S)
  BY DEF Woken
<1>w. Woken(c, m, rs) \in Seq(TurnRecords)
  BY WokenFit
<1> HIDE DEF next
<1>r. PICK reply : reply = AskedIn(q)
  OBVIOUS
<1>3. asker = None \/ (asker \in Members[c] /\ reply \in {None, c})
  BY <1>r DEF AnswersHere
<1> HIDE DEF asker, q
<1>4. addressed \in SUBSET Members[c]
  BY <1>1, <1>3
<1>5. IsFiniteSet(addressed)
  BY <1>1, <1>4, FS_Subset
<1>6. \A b \in Members[c] \ {m.author} : b = next => b \in addressed
  OBVIOUS
<1> HIDE DEF addressed
<1>7. \A a \in addressed : turn[a].agent = a /\ turn[a].chan = c /\ turn[a].reply \in {None, c}
  BY <1>1, <1>3, <1>4, <1>r DEF Turn
<1>8. DOMAIN turn = addressed
  OBVIOUS
<1> HIDE DEF turn
<1>9. IsFiniteSet(S)
  BY <1>5, <1>8, ImageIsFinite
<1>10. \A t \in S : t.agent \in Members[c] /\ t.reply \in {None, c} /\ t.chan = c
  BY <1>4, <1>7, <1>8
<1>11. \A b \in addressed : turn[b] \in S
  BY <1>8
<1> HIDE DEF S
<1>12. SetToSeq(S) \in Seq(S) /\ \A t \in S : \E k \in DOMAIN SetToSeq(S) : SetToSeq(S)[k] = t
  BY <1>9, Listed, ListsAll
<1>13. \A k \in DOMAIN SetToSeq(S) : SetToSeq(S)[k] \in S
  BY <1>12
<1>14. ASSUME NEW b \in Members[c] \ {m.author}, TurnTaking = TRUE, m.author # User, c \notin Dms,
              b = NextAfter(rs, ParticipantOrder(rs, c, m.trace), m.author)
       PROVE  \E k \in DOMAIN SetToSeq(S) : SetToSeq(S)[k].agent = b /\ SetToSeq(S)[k].chan = c
  <2>1. b = next
    BY <1>14 DEF next
  <2>2. b \in addressed /\ turn[b] \in S /\ turn[b].agent = b /\ turn[b].chan = c
    BY <1>6, <1>7, <1>11, <2>1
  <2> QED BY <1>12, <2>2
<1> QED BY <1>2, <1>w, <1>10, <1>13, <1>14 DEF Wakes

\* What is said after all that the agent's run was shown, in the human's chain.
SaysNext(m, a, c, r) ==
    /\ m.id = Len(messages) + 1 /\ m.kind = "message" /\ m.author = a /\ m.chan = c /\ m.trace = 1
    /\ m.run \in {None} \cup DOMAIN runs /\ m.parent \in {None} \cup DOMAIN messages /\ AnswersHere(c, m)

\* Run r, now x, replies with m.
Replies(r, a, c, m, x) ==
    /\ SaysNext(m, a, c, r) /\ m.run = r /\ AppendAndWake(c, m, runs')
    /\ Still(runs[r], x) /\ x.at = "replied" /\ runs' = [runs EXCEPT ![r] = x]
    /\ reads' = [reads EXCEPT ![a][c] = m.id]

\* What a reply is, and that its run has been shown all that was said in its channel.
LEMMA ReplySays ==
    ASSUME ConversationAssumption, OneRound, RoundInv, NEW r \in DOMAIN runs, NEW to \in SUBSET Agents,
           NEW asks \in BOOLEAN, Reply(r, to, asks), NEW a, a = runs[r].agent, NEW c, c = runs[r].chan
    PROVE  /\ Running(r) /\ a \in Members[c] /\ UNCHANGED pending
           /\ \A i \in Bearing(messages, c) : i <= runs[r].seen
           /\ \E m, x : Replies(r, a, c, m, x)
<1>0. ConversationInv /\ RoundBase
  BY DEF RoundInv
<1>1. /\ Running(r) /\ runs[r].reply = c /\ runs[r].trace = 1 /\ a \in Members[c] /\ reads[a][c] = runs[r].seen
      /\ Heard(messages, c, runs[r].trigger)
  BY <1>0 DEF Reply, ConversationInv, RunFits, RoundBase, RunInRound, Running
<1>2. /\ UNCHANGED pending /\ Accept(r, c, to, asks, "replied")
  BY <1>1 DEF Reply
<1>3. r # None /\ 0 = None
  BY <1>0, Known
<1>m. PICK m : m = Said(c, a, "message", r, ReplyLineage(a, c, r), to, asks)
  OBVIOUS
<1>4. LineageFits(ReplyLineage(a, c, r)) /\ ReplyLineage(a, c, r).trace = 1
  <2>1. LineageFits(ReplyLineage(a, c, r))
    BY <1>0, LineagesFit
  <2>t. PICK t : t = LineageTarget(a, c, r)
    OBVIOUS
  <2>2. t = 0 \/ (t \in DOMAIN messages /\ messages[t].kind = "message")
    <3> DEFINE S == {i \in In(messages, c) : /\ i <= reads[a][c] /\ messages[i].author # a /\ StateBearing(i)
                                             /\ messages[i].trace = runs[r].trace \/ Addresses(c, a, i)}
    <3>1. t = Latest(S) /\ S \in SUBSET DOMAIN messages /\ \A i \in S : messages[i].kind = "message"
      BY <2>t DEF LineageTarget, In, StateBearing
    <3> HIDE DEF S
    <3>2. S # {} => t \in S
      BY <1>0, <3>1, LatestBound
    <3>3. S = {} => t = 0
      BY <3>1 DEF Latest
    <3> QED BY <3>1, <3>2, <3>3
  <2>3. CASE t = 0
    BY <1>1, <2>1, <2>3, <2>t DEF ReplyLineage, TraceOfRun
  <2>4. CASE t # 0
    <3>1. messages[t].trace = 1
      BY <1>0, <2>2, <2>4 DEF RoundBase, SaidInRound
    <3> QED BY <2>1, <2>4, <2>t, <3>1 DEF ReplyLineage
  <2> QED BY <2>3, <2>4
<1>5. /\ m.id = Len(messages) + 1 /\ m.kind = "message" /\ m.author = a /\ m.chan = c
      /\ m.run = r /\ m.trace = 1 /\ m.parent \in DOMAIN messages
  BY <1>3, <1>4, <1>m DEF Said, LineageFits
<1>6. AnswersHere(c, m)
  <2> SUFFICES ASSUME NEW i, i = Question(m), i # None
               PROVE  messages[i].author \in Members[c] /\ AskedIn(i) \in {None, c}
    BY DEF AnswersHere
  <2>1. i = runs[r].trigger /\ messages[i].author \in Agents /\ i \in DOMAIN messages
    BY <1>1, <1>3, <1>5 DEF Question, Heard
  <2>2. messages[i].kind = "message" /\ messages[i].chan = c
    BY <1>1, <2>1 DEF Heard
  <2>3. messages[i].author \in Members[c] /\ messages[i].run \in DOMAIN runs /\ runs[messages[i].run].chan = c
    BY <1>0, <2>1, <2>2 DEF RoundBase, SaidInRound
  <2>4. runs[messages[i].run].reply = c
    BY <1>0, <2>3 DEF RoundBase, RunInRound
  <2> QED BY <2>3, <2>4 DEF AskedIn
<1>7. SaysNext(m, a, c, r)
  BY <1>5, <1>6 DEF SaysNext
<1>x. PICK x : x = Moved(runs[r], 1, "replied")
  OBVIOUS
<1>8. Still(runs[r], x) /\ x.at = "replied"
  <2>1. runs[r] \in RunRecords /\ "replied" \in RunPlaces
    BY <1>0, Known DEF RunPlaces, Engaged
  <2> QED BY <1>1, <1>x, <2>1, MovedIsStill
<1>9. runs' = [runs EXCEPT ![r] = x]
  BY <1>2, <1>5, <1>m, <1>x DEF Accept, Moved
<1>10. AppendAndWake(c, m, runs') /\ reads' = [reads EXCEPT ![a][c] = m.id]
  BY <1>2, <1>m DEF Accept
<1>11. \A i \in Bearing(messages, c) : i <= runs[r].seen
  <2>1. Newest(c) <= reads[a][c]
    <3>1. Newest(c) \in Nat /\ reads[a][c] \in Nat
      <4>1. a \in Agents /\ c \in Channels
        BY <1>0, Fields
      <4> QED BY <1>0, <4>1, Known, NewestIs
    <3>2. ~(Newest(c) > reads[a][c]) \/ messages[Newest(c)].author = a
      BY <1>2 DEF Accept, Stale
    <3>3. CASE Newest(c) # 0 /\ messages[Newest(c)].author = a
      <4>1. Newest(c) \in DOMAIN messages /\ messages[Newest(c)].chan = c /\ messages[Newest(c)].kind = "message"
        BY <1>0, <3>3, NewestIs DEF Bearing, In
      <4>2. a \in Agents
        BY <1>0, Fields
      <4> QED BY <1>0, <3>3, <4>1, <4>2 DEF RoundBase, SaidInRound
    <3> QED BY <3>1, <3>2, <3>3
  <2>2. \A i \in Bearing(messages, c) : i <= Newest(c) /\ i \in Nat
    BY <1>0, NewestIs, Fields
  <2>3. Newest(c) \in Nat /\ runs[r].seen \in Nat
    BY <1>0, NewestIs, Fields
  <2> QED BY <1>1, <2>1, <2>2, <2>3
<1>12. Replies(r, a, c, m, x)
  BY <1>5, <1>7, <1>8, <1>9, <1>10 DEF Replies
<1> QED BY <1>1, <1>2, <1>11, <1>12

\* Somebody has spoken, whose run had been shown all that was said before: nobody has been
\* shown this yet, and who follows the speaker is owed a turn.
LEMMA SpokenFits ==
    ASSUME ConversationAssumption, ConversationInv', RoundBase', NEW c \in Channels, NEW r \in DOMAIN runs',
           NEW a \in Agents, a = runs'[r].agent, runs'[r].chan = c, ~Running(r)',
           NEW n \in Nat, Newest(c)' = n, messages'[n].author = a,
           \A q \in DOMAIN runs' : runs'[q].seen < n,
           \A i \in Bearing(messages', c) : i = n \/ i <= runs'[r].seen,
           \A b \in Members[c] \ {a} : b = NextAfter(runs', ParticipantOrder(runs', c, 1), a) => Owed(c, b)'
    PROVE  RoundFits(c)'
<1>rs. PICK rs : rs = runs'
  OBVIOUS
<1>o. PICK order : order = ParticipantOrder(rs, c, 1)
  OBVIOUS
<1>1. rs \in Seq(RunRecords) /\ DOMAIN rs = 1 .. Len(rs) /\ Len(rs) \in Nat
  BY <1>rs DEF ConversationInv, ConversationTypes
<1>2. \A q \in DOMAIN rs : rs[q].agent \in Members[rs[q].chan] /\ rs[q].seen \in Nat
  <2>1. \A q \in DOMAIN runs' : runs'[q].agent \in Members[runs'[q].chan]
    BY DEF RoundBase, RunInRound
  <2>2. \A q \in DOMAIN rs : rs[q] \in RunRecords
    BY <1>1
  <2>3. \A q \in DOMAIN rs : rs[q].seen \in Nat
    BY <2>2 DEF RunRecords
  <2> QED BY <1>rs, <2>1, <2>3
<1>3. Speaker(c)' = a
  BY DEF Speaker
<1>4. Showing(c)' = {}
  BY <1>2, <1>rs DEF Showing
<1>5. SpeakersRun(c, r)'
  <2>1. \A i \in In(messages', c) : messages'[i].kind = "message" => i \in Bearing(messages', c)
    BY DEF Bearing
  <2> QED BY <1>3, <2>1 DEF SpeakersRun, StateBearing
<1>6. ASSUME NEW b \in Agents, b = NextAfter(rs, order, a), b # a PROVE Owed(c, b)'
  <2>1. /\ Ordered(rs, Len(rs), order)
        /\ \A q \in order : rs[q].chan = c
    BY <1>1, <1>o, OrderFits
  <2>2. order \subseteq DOMAIN rs /\ Cardinality(order) \in Nat
    BY <1>1, <2>1 DEF Ordered
  <2>3. b # None
    BY DEF ConversationAssumption
  <2>4. ~(Cardinality(order) < 2)
    BY <1>6, <2>3 DEF NextAfter
  <2>5. Cardinality(order) >= 2
    BY <2>2, <2>4
  <2>6. PICK u \in order : NextAfter(rs, order, a) = rs[u].agent
    BY <2>1, <2>5, FollowerIs
  <2>7. b \in Members[c] \ {a}
    BY <1>2, <1>6, <2>1, <2>2, <2>6
  <2> QED BY <1>6, <1>o, <1>rs, <2>7
<1>7. \A b : Follower(c, b)' = NextAfter(rs, order, b)
  BY <1>o, <1>rs DEF Follower, Order
<1>8. \A b : ~Passed(c, b)'
  BY <1>4 DEF Passed
<1>9. \A d, b \in Agents : (d = Speaker(c)' \/ Passed(c, d)') /\ b = Follower(c, d)' /\ b # Speaker(c)' => Seen(c, b)'
  BY <1>3, <1>6, <1>7, <1>8 DEF Seen
<1> QED BY <1>4, <1>5, <1>9 DEF RoundFits

\* The turns that are added are of members, each to answer in its channel; unless the
\* budget is spent there is one for whoever is next in c.
Wakening(c, m, a, next) ==
    /\ \A k \in DOMAIN turns : k \in DOMAIN turns' /\ turns'[k] = turns[k]
    /\ \A j \in DOMAIN turns' : \/ j \in DOMAIN turns /\ turns'[j] = turns[j]
                                \/ turns'[j].agent \in Members[turns'[j].chan] /\ turns'[j].reply \in {None, turns'[j].chan}
    /\ \A b \in Members[c] \ {a} :
          ~BudgetSpent(c, m) /\ TurnTaking = TRUE /\ a # User /\ c \notin Dms /\ b = next =>
             \E k \in DOMAIN turns' : turns'[k].agent = b /\ turns'[k].chan = c

\* So it is when an agent speaks.
LEMMA SaidWakes ==
    ASSUME ConversationAssumption, ConversationInv, NEW c \in Channels, NEW a, NEW r, NEW rs, NEW m,
           SaysNext(m, a, c, r), AppendAndWake(c, m, rs)
    PROVE  Wakening(c, m, a, NextAfter(rs, ParticipantOrder(rs, c, 1), a))
<1>1. CASE BudgetSpent(c, m)
  <2>1. turns' = turns
    BY <1>1 DEF AppendAndWake
  <2> QED BY <1>1, <2>1 DEF Wakening
<1>2. CASE ~BudgetSpent(c, m)
  <2>w. PICK w : w = Woken(c, m, rs)
    OBVIOUS
  <2>1. turns' = turns \o w
    BY <1>2, <2>w DEF AppendAndWake
  <2>2. turns \in Seq(TurnRecords) /\ Len(messages) \in Nat
    BY Known
  <2>3. /\ m.id \in Nat /\ m.run \in {None} \cup DOMAIN runs /\ m.parent \in {None} \cup DOMAIN messages
        /\ AnswersHere(c, m)
    BY <2>2 DEF SaysNext
  <2>f. m.author = a /\ m.trace = 1
    BY DEF SaysNext
  <2>4. /\ w \in Seq(TurnRecords)
        /\ \A k \in DOMAIN w : w[k].agent \in Members[c] /\ w[k].reply \in {None, c} /\ w[k].chan = c
        /\ \A b \in Members[c] \ {a} :
              TurnTaking = TRUE /\ a # User /\ c \notin Dms /\ b = NextAfter(rs, ParticipantOrder(rs, c, 1), a) =>
              \E k \in DOMAIN w : w[k].agent = b /\ w[k].chan = c
    <3>1. Wakes(Woken(c, m, rs), c, m.author, NextAfter(rs, ParticipantOrder(rs, c, m.trace), m.author))
      BY <2>3, WakesMembers
    <3>2. Wakes(w, c, a, NextAfter(rs, ParticipantOrder(rs, c, 1), a))
      BY <2>f, <2>w, <3>1
    <3> QED BY <3>2 DEF Wakes
  <2>5. Joins(turns', turns, w)
    <3>1. Joins(turns \o w, turns, w)
      BY <2>2, <2>4, Joined
    <3> QED BY <2>1, <3>1
  <2>6. /\ \A k \in DOMAIN turns : k \in DOMAIN turns' /\ turns'[k] = turns[k]
        /\ \A k \in DOMAIN w : Len(turns) + k \in DOMAIN turns' /\ turns'[Len(turns) + k] = w[k]
        /\ \A j \in DOMAIN turns' : j \in DOMAIN turns \/ \E k \in DOMAIN w : j = Len(turns) + k
    BY <2>5 DEF Joins
  <2>7. \A j \in DOMAIN turns' : j \in DOMAIN turns \/ \E k \in DOMAIN w : turns'[j] = w[k]
    BY <2>6
  <2>8. \A k \in DOMAIN w : \E j \in DOMAIN turns' : turns'[j] = w[k]
    BY <2>6
  <2>9. \A j \in DOMAIN turns' : \/ j \in DOMAIN turns /\ turns'[j] = turns[j]
                                 \/ turns'[j].agent \in Members[turns'[j].chan] /\ turns'[j].reply \in {None, turns'[j].chan}
    BY <2>4, <2>6, <2>7
  <2>10. ASSUME NEW b \in Members[c] \ {a}, TurnTaking = TRUE, a # User, c \notin Dms,
                b = NextAfter(rs, ParticipantOrder(rs, c, 1), a)
         PROVE  \E k \in DOMAIN turns' : turns'[k].agent = b /\ turns'[k].chan = c
    <3>1. PICK k \in DOMAIN w : w[k].agent = b /\ w[k].chan = c
      BY <2>4, <2>10
    <3> QED BY <2>8, <3>1
  <2> QED BY <2>6, <2>9, <2>10 DEF Wakening
<1> QED BY <1>1, <1>2

\* A reply is the newest message of its channel; nobody has been shown it yet, and who
\* follows is woken, unless the budget is spent.
LEMMA ReplyKeepsRound ==
    ASSUME ConversationAssumption, OneRound, RoundInv, ConversationInv', NEW r \in DOMAIN runs, NEW to \in SUBSET Agents,
           NEW asks \in BOOLEAN, Reply(r, to, asks)
    PROVE  RoundInv'
<1>0. ConversationInv /\ RoundBase
  BY DEF RoundInv
<1>a. PICK a \in Agents : a = runs[r].agent
  BY <1>0, Fields
<1>c. PICK c \in Channels : c = runs[r].chan
  BY <1>0, Fields
<1>1. /\ Running(r) /\ a \in Members[c] /\ UNCHANGED pending
      /\ \A i \in Bearing(messages, c) : i <= runs[r].seen
      /\ \E m, x : Replies(r, a, c, m, x)
  BY <1>a, <1>c, ReplySays
<1>p. PICK m, x : Replies(r, a, c, m, x)
  BY <1>1
<1>2. /\ SaysNext(m, a, c, r) /\ m.run = r /\ AppendAndWake(c, m, runs')
      /\ Still(runs[r], x) /\ x.at = "replied" /\ runs' = [runs EXCEPT ![r] = x]
      /\ reads' = [reads EXCEPT ![a][c] = m.id]
  BY <1>p DEF Replies
<1>s. SaysNext(m, a, c, r)
  BY <1>2
<1>rs. PICK rs : rs = runs'
  OBVIOUS
<1>n. PICK n : n = Len(messages) + 1
  OBVIOUS
<1>l. PICK l : l = Len(messages)
  OBVIOUS
<1>3. /\ l \in Nat /\ n = l + 1 /\ n \in Nat /\ DOMAIN messages = 1 .. l /\ messages # <<>>
      /\ DOMAIN messages' = 1 .. Len(messages') /\ Len(messages') \in Nat
  <2>1. Heard(messages, runs[r].chan, runs[r].trigger)
    BY <1>0 DEF ConversationInv, RunFits
  <2>2. messages # <<>>
    BY <1>0, <2>1, WokenInChain
  <2>3. messages' \in Seq(MessageRecords)
    BY DEF ConversationInv, ConversationTypes
  <2> QED BY <1>0, <1>n, <1>l, <2>2, <2>3, Known
<1>4. m.id = n /\ m.kind = "message" /\ m.author = a /\ m.chan = c /\ m.trace = 1
  BY <1>2, <1>n DEF SaysNext
<1>5. User \notin Agents /\ a # User
  BY <1>0, Fields
<1>6. AppendAndWake(c, m, rs)
  BY <1>2, <1>rs
\* What is said.
<1>7. /\ \A i \in DOMAIN messages : i \in DOMAIN messages' /\ messages'[i] = messages[i]
      /\ n \in DOMAIN messages' /\ messages'[n] = m
      /\ \A i \in DOMAIN messages' \ DOMAIN messages : i # n =>
            messages'[i].kind = "system" /\ messages'[i].chan = c /\ BudgetSpent(c, m)
  <2>1. m.id = Len(messages) + 1
    BY <1>4, <1>n
  <2>2. /\ \A i \in DOMAIN messages : i \in DOMAIN messages' /\ messages'[i] = messages[i]
        /\ m.id \in DOMAIN messages' /\ messages'[m.id] = m
        /\ \A i \in DOMAIN messages' \ DOMAIN messages : i # m.id =>
              messages'[i].kind = "system" /\ messages'[i].chan = c /\ BudgetSpent(c, m)
    BY <1>0, <1>6, <2>1, SaysThis
  <2> QED BY <1>4, <2>2
<1>8. Extends(messages, messages')
  BY <1>3, <1>7, <1>l DEF Extends
<1>9. Newest(c)' = n
  <2>1. /\ n = Len(messages) + 1 /\ n \in DOMAIN messages' /\ messages'[n].chan = c /\ messages'[n].kind = "message"
        /\ \A i \in DOMAIN messages' \ DOMAIN messages : i # n => messages'[i].kind # "message"
    BY <1>4, <1>7, <1>n
  <2> QED BY <1>0, <1>8, <2>1, NewestMoves
<1>10. \A d \in Channels : d # c =>
           \A i \in DOMAIN messages' \ DOMAIN messages : messages'[i].chan # d \/ messages'[i].kind # "message"
  BY <1>4, <1>7
\* What becomes of the runs.
<1>11. /\ DOMAIN runs' = DOMAIN runs /\ runs'[r] = x
       /\ (\A q \in DOMAIN runs : q # r => runs'[q] = runs[q])
       /\ \A q \in DOMAIN runs : Alike(runs[q], runs'[q])
  BY <1>0, <1>2, OneChanged DEF Still
<1>12. \A q \in DOMAIN runs : q \in DOMAIN runs' /\ Still(runs[q], runs'[q]) /\ runs'[q].at # "failed"
  <2>1. \A q \in DOMAIN runs : runs[q].at # "failed"
    BY <1>0 DEF RoundBase, RunInRound
  <2> QED BY <1>2, <1>11, <2>1 DEF Still
<1>13. \A q \in DOMAIN runs : runs'[q].agent = runs[q].agent /\ runs'[q].chan = runs[q].chan /\ runs'[q].seen = runs[q].seen
  BY <1>11 DEF Alike
<1>14. \A q \in DOMAIN runs : runs[q].seen \in Nat /\ runs[q].seen < n
  <2>1. \A q \in DOMAIN runs : runs[q].seen \in Nat /\ runs[q].after \in Nat
    BY <1>0, Fields
  <2>2. \A q \in DOMAIN runs : runs[q].seen <= runs[q].after /\ runs[q].after <= l
    BY <1>0, <1>l DEF RoundBase, RunInRound
  <2> QED BY <1>3, <2>1, <2>2
<1>15. \A q \in DOMAIN runs : Running(q)' => Running(q) /\ q # r /\ runs[q].agent # a
  <2>1. \A q \in DOMAIN runs : Running(q)' => Running(q) /\ q # r
    BY <1>2, <1>11 DEF Running
  <2>2. \A q \in DOMAIN runs : Running(q) /\ runs[q].agent = a => q = r
    BY <1>0, <1>1, <1>a DEF RoundBase, OneAtATime, Running, Engaged
  <2> QED BY <2>1, <2>2
\* What is spent.
<1>16. /\ chatter' \in [Channels -> Nat] /\ \A d \in Channels : chatter'[d] >= chatter[d]
       /\ BudgetSpent(c, m) => Spent(c)'
  <2>1. chatter' = [chatter EXCEPT ![c] = @ + 1]
    BY <1>4, <1>5, <1>6 DEF AppendAndWake
  <2>2. chatter \in [Channels -> Nat]
    BY <1>0 DEF RoundBase
  <2>3. /\ chatter' \in [Channels -> Nat] /\ chatter'[c] = chatter[c] + 1
        /\ \A d \in Channels : chatter[d] \in Nat /\ (d # c => chatter'[d] = chatter[d])
    BY <2>1, <2>2
  <2>4. \A d \in Channels : chatter'[d] >= chatter[d]
    BY <2>3
  <2>5. BudgetSpent(c, m) => chatter'[c] > ChatterBudget
    <3>1. ChatterBudget \in Nat
      BY DEF ConversationAssumption
    <3> QED BY <2>3, <3>1 DEF BudgetSpent
  <2> QED BY <2>3, <2>4, <2>5 DEF Spent
\* Whom it wakes.
<1>17. /\ \A k \in DOMAIN turns : k \in DOMAIN turns' /\ turns'[k] = turns[k]
       /\ \A j \in DOMAIN turns' : \/ j \in DOMAIN turns /\ turns'[j] = turns[j]
                                   \/ turns'[j].agent \in Members[turns'[j].chan] /\ turns'[j].reply \in {None, turns'[j].chan}
       /\ \A b \in Members[c] \ {a} :
             ~BudgetSpent(c, m) /\ TurnTaking = TRUE /\ a # User /\ c \notin Dms
               /\ b = NextAfter(rs, ParticipantOrder(rs, c, 1), a) =>
             \E k \in DOMAIN turns' : turns'[k].agent = b /\ turns'[k].chan = c
  <2>1. Wakening(c, m, a, NextAfter(rs, ParticipantOrder(rs, c, 1), a))
    BY <1>0, <1>s, <1>6, SaidWakes
  <2> QED BY <2>1 DEF Wakening
<1>18. WokenInRound'
  <2>1. \A k \in DOMAIN turns' : turns'[k].agent \in Members[turns'[k].chan] /\ turns'[k].reply \in {None, turns'[k].chan}
    BY <1>0, <1>17 DEF RoundBase, WokenInRound
  <2>2. \A b \in Agents : \A k \in DOMAIN pending'[b] : b \in Members[pending'[b][k].chan]
    BY <1>0, <1>1 DEF RoundBase, WokenInRound
  <2> QED BY <2>1, <2>2 DEF WokenInRound
<1>19. OneAtATime'
  <2>1. "replied" \in Engaged /\ runs[r].at \in Engaged
    BY <1>1 DEF Engaged, Running
  <2>2. \A q \in DOMAIN runs : runs'[q].agent = runs[q].agent /\ (runs'[q].at \in Engaged <=> runs[q].at \in Engaged)
    BY <1>2, <1>11, <1>13, <2>1
  <2>3. OneAtATime
    BY <1>0 DEF RoundBase
  <2>4. \A b \in Agents : pending'[b] # <<>> => \E q \in DOMAIN runs' : runs'[q].agent = b /\ runs'[q].at \in Engaged
    BY <1>1, <1>11, <2>2, <2>3 DEF OneAtATime, BusyAgent
  <2> QED BY <1>11, <2>2, <2>3, <2>4, OneStays DEF BusyAgent
<1>20. LossesFit'
  <2> SUFFICES ASSUME NEW b \in Agents, NEW j \in DOMAIN pending[b], pending[b][j].lost > 0,
                      NEW e, e = pending[b][j].chan
               PROVE  Behind(b, e)'
    BY <1>1 DEF LossesFit, Behind
  <2>1. Behind(b, e) /\ Newest(e) # 0 /\ e \in Channels
    BY <1>0, WakesAreHeard, Fields DEF RoundBase, LossesFit
  <2>2. CASE e = c
    <3>1. b # a
      BY <1>1, <1>a, <1>c, <2>1, <2>2 DEF Behind
    <3>2. messages'[Newest(e)'].author # b
      BY <1>4, <1>7, <1>9, <2>2, <3>1
    <3>3. ASSUME NEW q \in DOMAIN runs', runs'[q].agent = b, runs'[q].chan = e
          PROVE  ~Running(q)' /\ runs'[q].seen < Newest(e)'
      <4>1. q \in DOMAIN runs /\ runs[q].agent = b /\ runs[q].chan = e
        BY <1>11, <1>13, <3>3
      <4>2. ~Running(q)
        BY <2>1, <4>1 DEF Behind
      <4>3. ~Running(q)'
        BY <1>15, <4>1, <4>2
      <4>4. runs'[q].seen < n
        BY <1>13, <1>14, <4>1
      <4> QED BY <1>9, <2>2, <4>3, <4>4
    <3> QED BY <3>2, <3>3 DEF Behind
  <2>3. CASE e # c
    <3>1. \A i \in DOMAIN messages' \ DOMAIN messages : messages'[i].chan # e \/ messages'[i].kind # "message"
      BY <1>10, <2>1, <2>3
    <3> QED BY <1>0, <1>8, <1>11, <2>1, <3>1, BehindStays
  <2> QED BY <2>2, <2>3
<1>21. NoticesFit'
  <2>1. \A i \in DOMAIN messages' \ DOMAIN messages : messages'[i].kind = "system" => messages'[i].chan = c /\ Spent(c)'
    BY <1>4, <1>7, <1>16
  <2> QED BY <1>0, <1>8, <1>11, <1>16, <2>1, NoticesStay
<1>22. /\ \A b \in Agents, d \in Channels :
              IF b = a /\ d = c THEN reads'[b][d] = n ELSE reads'[b][d] = reads[b][d]
  BY <1>0, <1>2, <1>4, Known
<1>23. RoundBase'
  <2>1. \A i \in DOMAIN messages' \ DOMAIN messages : SaidInRound(runs', reads', i, messages'[i])
    <3> TAKE i \in DOMAIN messages' \ DOMAIN messages
    <3>1. CASE i = n
      <4>1. reads'[a][c] = n
        BY <1>22
      <4>2. m.run \in DOMAIN runs' /\ runs'[m.run].chan = c
        BY <1>2, <1>c, <1>11, <1>13
      <4>3. SaidInRound(runs', reads', n, m)
        BY <1>1, <1>3, <1>4, <4>1, <4>2 DEF SaidInRound
      <4> QED BY <1>7, <3>1, <4>3
    <3>2. CASE i # n
      BY <1>7, <3>2 DEF SaidInRound
    <3> QED BY <3>1, <3>2
  <2>2. \A b \in Agents, d \in Channels :
            reads'[b][d] = reads[b][d] \/ (reads[b][d] <= reads'[b][d] /\ reads'[b][d] \in In(messages', d))
    <3> TAKE b \in Agents, d \in Channels
    <3>1. reads[b][d] \in Nat /\ reads[b][d] <= l
      BY <1>0, <1>l, Known DEF ConversationInv
    <3>2. n \in In(messages', c)
      BY <1>4, <1>7 DEF In
    <3> QED BY <1>3, <1>22, <3>1, <3>2
  <2>3. \A q \in DOMAIN runs : /\ q \in DOMAIN runs' /\ Alike(runs[q], runs'[q]) /\ runs'[q].at # "failed"
                               /\ Running(q)' => reads'[runs[q].agent][runs[q].chan] = reads[runs[q].agent][runs[q].chan]
    <3> TAKE q \in DOMAIN runs
    <3>1. runs[q].agent \in Agents /\ runs[q].chan \in Channels
      BY <1>0, Fields
    <3> QED BY <1>11, <1>12, <1>15, <1>22, <3>1
  <2>4. messages = <<>> /\ messages' # <<>> => messages'[1].author = User
    BY <1>3
  <2>5. \A q \in DOMAIN runs' \ DOMAIN runs : RunInRound(messages', reads', runs'[q])
    BY <1>11
  <2> QED BY <1>0, <1>8, <1>16, <1>18, <1>19, <1>20, <1>21, <2>1, <2>2, <2>3, <2>4, <2>5, BaseGoesOn
<1>24. \A d, b : Owed(d, b) => Owed(d, b)'
  BY <1>1, <1>17 DEF Owed
\* The rounds of the other channels go on, and this one's is on unless the budget is spent.
<1>25. ASSUME NEW d \in Channels \ Dms, Open(d)' PROVE RoundFits(d)'
  <2>1. CASE d # c
    <3>1. \A i \in DOMAIN messages' \ DOMAIN messages : messages'[i].chan # d \/ messages'[i].kind # "message"
      BY <1>10, <2>1
    <3>2. Open(d)
      BY <1>0, <1>8, <1>11, <1>16, <1>25, <3>1, OpenBefore
    <3>3. RoundFits(d) /\ Newest(d) # 0
      BY <3>2 DEF RoundInv, Open
    <3>4. \A q \in Showing(d) : Running(q) => Running(q)'
      BY <1>11, <1>c, <2>1 DEF Showing, Running
    <3> QED BY <1>0, <1>8, <1>11, <1>12, <1>24, <3>1, <3>3, <3>4, RoundRests
  <2>2. CASE d = c
    <3>1. ~BudgetSpent(c, m)
      BY <1>16, <1>25, <2>2 DEF Open
    <3>2. \A b \in Members[c] \ {a} : b = NextAfter(runs', ParticipantOrder(runs', c, 1), a) => Owed(c, b)'
      <4>1. \A b \in Members[c] \ {a} : b = NextAfter(rs, ParticipantOrder(rs, c, 1), a) =>
                \E k \in DOMAIN turns' : turns'[k].agent = b /\ turns'[k].chan = c
        BY <1>5, <1>17, <2>2, <3>1 DEF OneRound
      <4> QED BY <1>rs, <4>1 DEF Owed
    <3>3. r \in DOMAIN runs' /\ a = runs'[r].agent /\ runs'[r].chan = c /\ ~Running(r)'
      BY <1>a, <1>c, <1>11, <1>13, <1>15
    <3>4. messages'[n].author = a
      BY <1>4, <1>7
    <3>5. \A q \in DOMAIN runs' : runs'[q].seen < n
      BY <1>11, <1>13, <1>14
    <3>6. \A i \in Bearing(messages', c) : i = n \/ i <= runs'[r].seen
      <4> TAKE i \in Bearing(messages', c)
      <4>1. CASE i \in DOMAIN messages
        <5>1. i \in Bearing(messages, c)
          BY <1>7, <4>1 DEF Bearing, In
        <5> QED BY <1>1, <1>13, <5>1
      <4>2. CASE i \notin DOMAIN messages
        <5>1. i \in DOMAIN messages' /\ messages'[i].kind = "message"
          BY DEF Bearing, In
        <5> QED BY <1>7, <4>2, <5>1
      <4> QED BY <4>1, <4>2
    <3> QED BY <1>3, <1>9, <1>23, <2>2, <3>2, <3>3, <3>4, <3>5, <3>6, SpokenFits
  <2> QED BY <2>1, <2>2
<1> QED BY <1>23, <1>25 DEF RoundInv

\* The human's post comes first, and is answered by nobody yet.
LEMMA PostUserMessageKeepsRound ==
    ASSUME ConversationAssumption, OneRound, RoundInv, ConversationInv', NEW c \in Channels, NEW to \in Mentions,
           PostUserMessage(c, to)
    PROVE  RoundInv'
<1>0. ConversationInv /\ RoundBase
  BY DEF RoundInv
<1>1. Posted < 1 /\ UNCHANGED <<runs, reads, pending>>
  BY DEF PostUserMessage, OneRound
<1>2. messages = <<>>
  <2> SUFFICES ASSUME messages # <<>> PROVE FALSE
    OBVIOUS
  <2>1. messages \in Seq(MessageRecords) /\ Len(messages) \in Nat /\ DOMAIN messages = 1 .. Len(messages)
    BY <1>0, Known
  <2>2. 1 \in DOMAIN messages /\ messages[1].author = User
    BY <1>0, <2>1 DEF RoundBase
  <2> DEFINE S == {i \in DOMAIN messages : messages[i].author = User}
  <2>3. 1 \in S /\ S \in SUBSET (1 .. Len(messages))
    BY <2>1, <2>2
  <2>s. Posted = Cardinality(S)
    BY DEF Posted
  <2> HIDE DEF S
  <2>4. IsFiniteSet(S)
    <3>1. IsFiniteSet(1 .. Len(messages))
      BY <2>1, FS_Interval
    <3> QED BY <2>3, <3>1, FS_Subset
  <2>5. IsFiniteSet({1}) /\ Cardinality({1}) = 1 /\ {1} \in SUBSET S
    BY <2>3, FS_Singleton
  <2>6. Cardinality({1}) <= Cardinality(S)
    BY <2>4, <2>5, FS_Subset
  <2>7. Cardinality(S) \in Nat
    BY <2>4, FS_CardinalityType
  <2> QED BY <1>1, <2>s, <2>5, <2>6, <2>7
<1>3. DOMAIN messages = {} /\ Len(messages) = 0
  BY <1>2
<1>4. /\ DOMAIN runs = {} /\ DOMAIN turns = {}
      /\ \A a \in Agents : DOMAIN pending[a] = {} /\ pending[a] = <<>>
  <2>1. /\ DOMAIN runs = {} /\ DOMAIN turns = {}
        /\ \A a \in Agents : DOMAIN pending[a] = {}
    BY <1>0, <1>3 DEF ConversationInv, RunFits, WakesFit, Heard
  <2>2. \A a \in Agents : pending[a] \in Seq(WakeRecords)
    BY <1>0, Known
  <2>3. \A a \in Agents : pending[a] = <<>>
    <3> TAKE a \in Agents
    <3>1. PICK s \in Seq(WakeRecords) : s = pending[a]
      BY <2>2
    <3>2. Len(s) \in Nat /\ DOMAIN s = 1 .. Len(s) /\ DOMAIN s = {}
      BY <2>1, <3>1
    <3>3. Len(s) = 0
      BY <3>2
    <3> QED BY <3>1, <3>3, EmptySeq
  <2> QED BY <2>1, <2>3
<1>m. PICK m : m = Said(c, User, "message", None, NoLineage, to, FALSE)
  OBVIOUS
<1>5. AppendAndWake(c, m, runs)
  BY <1>m DEF PostUserMessage
<1>6. SaysNext(m, User, c, None) /\ m.id = 1 /\ m.id = Len(messages) + 1
  <2>1. m.run = None /\ m.parent = None
    BY <1>m DEF Said, NoLineage
  <2>2. AnswersHere(c, m)
    BY <2>1 DEF AnswersHere, Question
  <2> QED BY <1>3, <1>m, <2>1, <2>2 DEF SaysNext, Said, NoLineage
<1>7. User \notin Agents /\ m.author = User /\ m.chan = c /\ m.kind = "message" /\ m.trace = 1
  BY <1>0, <1>6, Fields DEF SaysNext
<1>8. DOMAIN messages' = {1} /\ messages'[1] = m
  <2>1. /\ m.id \in DOMAIN messages' /\ messages'[m.id] = m
        /\ \A i \in DOMAIN messages' \ DOMAIN messages : i # m.id =>
              messages'[i].kind = "system" /\ messages'[i].chan = c /\ BudgetSpent(c, m)
    BY <1>0, <1>5, <1>6, SaysThis
  <2>2. ~BudgetSpent(c, m)
    BY <1>7 DEF BudgetSpent
  <2> QED BY <1>3, <1>6, <2>1, <2>2
<1>9. Wakening(c, m, User, NextAfter(runs, ParticipantOrder(runs, c, 1), User))
  BY <1>0, <1>5, <1>6, SaidWakes
<1>10. chatter' \in [Channels -> Nat]
  <2>1. chatter' = [chatter EXCEPT ![c] = 0]
    BY <1>5, <1>7 DEF AppendAndWake
  <2> QED BY <1>0, <2>1 DEF RoundBase
<1>11. WokenInRound'
  BY <1>1, <1>4, <1>9 DEF Wakening, WokenInRound
<1>12. ReadsFit'
  <2>1. \A a \in Agents, d \in Channels : reads[a][d] = 0
    BY <1>0, <1>3 DEF RoundBase, ReadsFit, In
  <2> QED BY <1>1, <2>1 DEF ReadsFit
<1>13. OneAtATime' /\ LossesFit' /\ NoticesFit'
  <2>1. OneAtATime'
    BY <1>1, <1>4 DEF OneAtATime
  <2>2. LossesFit'
    BY <1>1, <1>4 DEF LossesFit
  <2>3. NoticesFit'
    BY <1>7, <1>8 DEF NoticesFit
  <2> QED BY <2>1, <2>2, <2>3
<1>14. RoundBase'
  <2>1. \A i \in DOMAIN messages' : SaidInRound(runs', reads', i, messages'[i])
    BY <1>7, <1>8 DEF SaidInRound
  <2>2. \A r \in DOMAIN runs' : RunInRound(messages', reads', runs'[r])
    BY <1>1, <1>4
  <2> QED BY <1>7, <1>8, <1>10, <1>11, <1>12, <1>13, <2>1, <2>2 DEF RoundBase
<1>15. ASSUME NEW d \in Channels PROVE ~Open(d)'
  <2> DEFINE S == {i \in In(messages', d) : messages'[i].kind = "message"}
  <2>1. Newest(d)' = Latest(S)
    BY DEF Newest, StateBearing
  <2>2. S \subseteq {1}
    BY <1>8 DEF In
  <2> HIDE DEF S
  <2>3. CASE S = {}
    <3>1. Newest(d)' = 0
      BY <2>1, <2>3 DEF Latest
    <3> QED BY <3>1 DEF Open
  <2>4. CASE S # {}
    <3>1. S \in SUBSET (0 .. 1)
      BY <2>2
    <3>2. Latest(S) \in S
      BY <2>4, <3>1, Largest
    <3>3. Newest(d)' = 1
      BY <2>1, <2>2, <3>2
    <3> QED BY <1>7, <1>8, <3>3 DEF Open
  <2> QED BY <2>3, <2>4
<1> QED BY <1>14, <1>15 DEF RoundInv

\* At the start nothing has been said.
LEMMA RoundStarts ==
    ASSUME ConversationAssumption, OneRound, Init
    PROVE  RoundInv
<1>1. ConversationInv
  BY ConversationStarts
<1>2. /\ DOMAIN messages = {} /\ DOMAIN runs = {} /\ DOMAIN turns = {} /\ messages = <<>>
      /\ chatter \in [Channels -> Nat]
      /\ \A a \in Agents : pending[a] = <<>> /\ DOMAIN pending[a] = {}
      /\ \A a \in Agents, c \in Channels : reads[a][c] = 0
  BY DEF Init
<1>3. RoundBase
  BY <1>2 DEF RoundBase, WokenInRound, ReadsFit, OneAtATime, LossesFit, NoticesFit
<1>4. \A c : Newest(c) = 0
  <2>1. \A c : {i \in In(messages, c) : StateBearing(i)} = {}
    BY <1>2 DEF In
  <2> QED BY <2>1 DEF Newest, Latest
<1> QED BY <1>1, <1>3, <1>4 DEF RoundInv, Open

\* A step that changes nothing keeps it.
LEMMA StutterKeepsRound ==
    ASSUME RoundInv, ConversationInv', UNCHANGED vars
    PROVE  RoundInv'
<1>0. UNCHANGED <<messages, runs, reads, chatter, pending, turns>>
  BY DEF vars
<1>1. RoundBase'
  BY <1>0 DEF RoundInv, RoundBase, WokenInRound, ReadsFit, OneAtATime, BusyAgent, LossesFit, Behind, Newest, In,
       StateBearing, Running, NoticesFit, Spent, RunsOf
<1>2. \A c : (Open(c)' <=> Open(c)) /\ Newest(c)' = Newest(c)
  BY <1>0 DEF Open, Newest, In, StateBearing, Spent, RunsOf
<1>3. \A c : RoundFits(c) => RoundFits(c)'
  <2> SUFFICES ASSUME NEW c, RoundFits(c) PROVE RoundFits(c)'
    OBVIOUS
  <2>1. Showing(c)' = Showing(c) /\ Speaker(c)' = Speaker(c) /\ \A r : Running(r)' <=> Running(r)
    BY <1>0, <1>2 DEF Showing, Speaker, Running
  <2>2. \A r : SpeakersRun(c, r)' <=> SpeakersRun(c, r)
    BY <1>0, <2>1 DEF SpeakersRun, In, StateBearing
  <2>3. \A a : /\ Passed(c, a)' <=> Passed(c, a)
               /\ Seen(c, a)' <=> Seen(c, a)
               /\ Follower(c, a)' = Follower(c, a)
    BY <1>0, <2>1 DEF Passed, Seen, Served, Owed, Follower, Order
  <2> QED BY <1>0, <2>1, <2>2, <2>3 DEF RoundFits
<1> QED BY <1>1, <1>2, <1>3 DEF RoundInv

\* Every step keeps the round.
LEMMA RoundGoesOn ==
    ASSUME ConversationAssumption, OneRound, RoundInv, [Next]_vars
    PROVE  RoundInv'
<1>0. ConversationInv /\ ConversationInv'
  BY ConversationGoesOn DEF RoundInv
<1>1. ASSUME NEW c \in Channels, NEW to \in Mentions, PostUserMessage(c, to)
      PROVE  RoundInv'
  BY <1>0, <1>1, PostUserMessageKeepsRound
<1>2. ASSUME NEW k \in DOMAIN turns, QueueTurn(k)
      PROVE  RoundInv'
  BY <1>0, <1>2, QueueTurnKeepsRound
<1>3. ASSUME NEW r \in DOMAIN runs, Drain(r)
      PROVE  RoundInv'
  BY <1>0, <1>3, DrainKeepsRound
<1>4. ASSUME NEW r \in DOMAIN runs, RunStep(r)
      PROVE  RoundInv'
  <2>1. /\ ~(runs[r].tools < MaxTools)
        /\ MayFail = FALSE /\ Asking \subseteq BOOLEAN
        /\ \A to \in {m \ {runs[r].agent} : m \in Mentions} : to \in SUBSET Agents
    <3>1. runs[r].tools \in Nat
      BY <1>0, Fields DEF RunRecords
    <3>2. Mentions \subseteq SUBSET Agents
      BY <1>0, Known
    <3>3. ~(runs[r].tools < MaxTools)
      BY <3>1 DEF OneRound
    <3>4. MayFail = FALSE /\ Asking \subseteq BOOLEAN
      BY DEF OneRound, ConversationAssumption
    <3>5. \A to \in {m \ {runs[r].agent} : m \in Mentions} : to \in SUBSET Agents
      BY <3>2
    <3> QED BY <3>3, <3>4, <3>5
  <2>2. ASSUME NEW to \in {m \ {runs[r].agent} : m \in Mentions},
               NEW asks \in IF to = {} THEN {FALSE} ELSE Asking,
               Reply(r, to, asks)
        PROVE  RoundInv'
    <3>1. asks \in BOOLEAN /\ to \in SUBSET Agents
      BY <2>1
    <3> QED BY <1>0, <2>2, <3>1, ReplyKeepsRound
  <2>3. \A c, to, asks : ~PostMessage(r, c, to, asks)
    BY <2>1 DEF PostMessage
  <2>4. \A c : ~ReadChannel(r, c)
    BY <2>1 DEF ReadChannel
  <2>5. ~Fail(r)
    BY <2>1 DEF Fail
  <2>6. LoseReply(r) => RoundInv'
    BY <1>0, LoseReplyKeepsRound
  <2>7. StaySilent(r) => RoundInv'
    BY <1>0, StaySilentKeepsRound
  <2> QED BY <1>4, <2>2, <2>3, <2>4, <2>5, <2>6, <2>7 DEF RunStep
<1>5. UNCHANGED vars => RoundInv'
  BY <1>0, StutterKeepsRound
<1> QED BY <1>1, <1>2, <1>3, <1>4, <1>5 DEF Next

\* However turns overlap, replies are refused and repeated, and silent runs pass the turn
\* on: when a collaboration rests on something an agent has said, within the budgets, every
\* other participant has been shown it, whoever is mentioned or asked.  So it is for one post,
\* when nobody uses a tool or fails.
THEOREM RoundReachesEverybody ==
    ASSUME ConversationAssumption, MaxPosts = 1, MaxTools = 0, MayFail = FALSE
    PROVE  Spec => []RoundCompletes
<1>1. CASE TurnTaking = TRUE
  <2>1. OneRound
    BY <1>1 DEF OneRound
  <2>2. Spec => []RoundInv
    BY <2>1, RoundStarts, RoundGoesOn, PTL DEF Spec
  <2>3. RoundInv => RoundCompletes
    BY <2>1, RoundEnds
  <2> QED BY <2>2, <2>3, PTL
<1>2. CASE TurnTaking # TRUE
  <2>1. TurnTaking = FALSE
    BY <1>2 DEF ConversationAssumption
  <2>2. RoundCompletes
    BY <2>1 DEF RoundCompletes
  <2> QED BY <2>2, PTL
<1> QED BY <1>1, <1>2

=============================================================================
