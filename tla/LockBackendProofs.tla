------------------------- MODULE LockBackendProofs -------------------------
(***************************************************************************)
(* Proofs about LockBackend for any set of keys and callers.               *)
(***************************************************************************)
EXTENDS LockBackend, SequenceTheorems, TLAPS

-----------------------------------------------------------------------------
(* What the three queue operations do to a queue. *)

LEMMA AppendFacts ==
    ASSUME NEW S, NEW s \in Seq(S), NEW e \in S
    PROVE  /\ Append(s, e) \in Seq(S)
           /\ Len(Append(s, e)) = Len(s) + 1
           /\ \A i \in 1..Len(s) : Append(s, e)[i] = s[i]
           /\ Append(s, e)[Len(s) + 1] = e
  OBVIOUS

LEMMA RemoveAtFacts ==
    ASSUME NEW S, NEW s \in Seq(S), NEW i \in 1..Len(s)
    PROVE  /\ RemoveAt(s, i) \in Seq(S)
           /\ Len(RemoveAt(s, i)) = Len(s) - 1
           /\ \A j \in 1..(Len(s) - 1) :
                 RemoveAt(s, i)[j] = IF j < i THEN s[j] ELSE s[j + 1]
<1> DEFINE front == SubSeq(s, 1, i - 1)
           back == SubSeq(s, i + 1, Len(s))
<1>0. /\ Len(s) \in Nat
      /\ \A j \in 1..Len(s) : s[j] \in S
  BY LenProperties, ElementOfSeq
<1>1. /\ front \in Seq(S)
      /\ Len(front) = i - 1
      /\ \A j \in 1..(i - 1) : front[j] = s[j]
  <2>1. \A j \in 1..(i - 1) : s[j] \in S
    BY <1>0
  <2>2. /\ front \in Seq(S)
        /\ Len(front) = IF 1 <= i - 1 THEN (i - 1) - 1 + 1 ELSE 0
        /\ \A j \in 1..((i - 1) - 1 + 1) : front[j] = s[1 + j - 1]
    BY <1>0, <2>1, SubSeqProperties
  <2> QED BY <1>0, <2>2
<1>2. /\ back \in Seq(S)
      /\ Len(back) = Len(s) - i
      /\ \A j \in 1..(Len(s) - i) : back[j] = s[i + j]
  <2>1. \A j \in (i + 1)..Len(s) : s[j] \in S
    BY <1>0
  <2>2. /\ back \in Seq(S)
        /\ Len(back) = IF i + 1 <= Len(s) THEN Len(s) - (i + 1) + 1 ELSE 0
        /\ \A j \in 1..(Len(s) - (i + 1) + 1) : back[j] = s[(i + 1) + j - 1]
    BY <1>0, <2>1, SubSeqProperties
  <2> QED BY <1>0, <2>2
<1>3. /\ front \o back \in Seq(S)
      /\ Len(front \o back) = Len(front) + Len(back)
      /\ \A j \in 1..(Len(front) + Len(back)) :
            (front \o back)[j] = IF j <= Len(front) THEN front[j] ELSE back[j - Len(front)]
  BY <1>1, <1>2, ConcatProperties
<1>4. RemoveAt(s, i) = front \o back
  BY DEF RemoveAt
<1> HIDE DEF front, back
<1>5. Len(front) + Len(back) = Len(s) - 1
  BY <1>0, <1>1, <1>2
<1>6. ASSUME NEW j \in 1..(Len(s) - 1)
      PROVE  (front \o back)[j] = IF j < i THEN s[j] ELSE s[j + 1]
  <2>1. CASE j < i
    BY <1>0, <1>1, <1>3, <1>5, <1>6, <2>1
  <2>2. CASE ~(j < i)
    <3>1. j - (i - 1) \in 1..(Len(s) - i) /\ i + (j - (i - 1)) = j + 1
      BY <1>0, <1>6, <2>2
    <3>2. (front \o back)[j] = back[j - (i - 1)]
      BY <1>0, <1>1, <1>3, <1>5, <1>6, <2>2
    <3> QED BY <1>2, <2>2, <3>1, <3>2
  <2> QED BY <2>1, <2>2
<1> QED BY <1>3, <1>4, <1>5, <1>6

-----------------------------------------------------------------------------
(* The inductive invariant. *)

Inv == TypeOK /\ QueueAgrees /\ GrantAgrees /\ NoStrandedWaiter

LEMMA InitInv == Init => Inv
  BY NullAssumption
     DEF Init, Inv, TypeOK, CallStates, QueueAgrees, GrantAgrees, NoStrandedWaiter

LEMMA AcquireFreeInv ==
    ASSUME Inv, NEW a \in Actors, NEW k \in Keys, AcquireFree(a, k)
    PROVE  Inv'
<1> USE NullAssumption DEF Inv, AcquireFree
<1>1. TypeOK'
  BY DEF TypeOK, CallStates
<1>2. QueueAgrees'
  BY DEF TypeOK, QueueAgrees
<1>3. GrantAgrees'
  BY DEF TypeOK, GrantAgrees
<1>4. NoStrandedWaiter'
  BY DEF TypeOK, NoStrandedWaiter
<1> QED BY <1>1, <1>2, <1>3, <1>4

LEMMA AcquireHeldInv ==
    ASSUME Inv, NEW a \in Actors, NEW k \in Keys, AcquireHeld(a, k)
    PROVE  Inv'
<1> USE NullAssumption DEF Inv, AcquireHeld
<1>0. /\ waiters[k] \in Seq(Actors)
      /\ Append(waiters[k], a) \in Seq(Actors)
      /\ Len(waiters[k]) \in Nat
      /\ Len(Append(waiters[k], a)) = Len(waiters[k]) + 1
      /\ \A i \in 1..Len(waiters[k]) : Append(waiters[k], a)[i] = waiters[k][i]
      /\ Append(waiters[k], a)[Len(waiters[k]) + 1] = a
  BY AppendFacts DEF TypeOK
<1>1. TypeOK'
  BY <1>0 DEF TypeOK, CallStates
<1>2. /\ waiters'[k] = Append(waiters[k], a)
      /\ \A l \in Keys : l # k => waiters'[l] = waiters[l]
      /\ \A b \in Actors : b # a => call'[b] = call[b] /\ key'[b] = key[b]
      /\ call'[a] = "waiting" /\ key'[a] = k
  BY DEF TypeOK
<1>3. QueueAgrees'
  <2>1. ASSUME NEW l \in Keys, NEW i \in 1..Len(waiters'[l])
        PROVE  call'[waiters'[l][i]] = "waiting" /\ key'[waiters'[l][i]] = l
    BY <1>0, <1>2, <2>1 DEF TypeOK, QueueAgrees
  <2>2. ASSUME NEW l \in Keys, NEW i \in 1..Len(waiters'[l]), NEW j \in 1..Len(waiters'[l]),
               waiters'[l][i] = waiters'[l][j]
        PROVE  i = j
    BY <1>0, <1>2, <2>2 DEF TypeOK, QueueAgrees
  <2>3. ASSUME NEW b \in Actors, call'[b] = "waiting"
        PROVE  /\ key'[b] \in Keys
               /\ \E i \in 1..Len(waiters'[key'[b]]) : waiters'[key'[b]][i] = b
    <3>1. CASE b = a
      BY <1>0, <1>2, <3>1
    <3>2. CASE b # a
      <4>1. /\ key[b] \in Keys
            /\ \E i \in 1..Len(waiters[key[b]]) : waiters[key[b]][i] = b
        BY <1>2, <2>3, <3>2 DEF QueueAgrees
      <4> QED BY <1>0, <1>2, <3>2, <4>1
    <3> QED BY <3>1, <3>2
  <2> QED BY <2>1, <2>2, <2>3 DEF QueueAgrees
<1>4. GrantAgrees'
  BY <1>2 DEF TypeOK, GrantAgrees
<1>5. NoStrandedWaiter'
  BY <1>2 DEF TypeOK, NoStrandedWaiter
<1> QED BY <1>1, <1>3, <1>4, <1>5

LEMMA WaitTimeoutInv ==
    ASSUME Inv, NEW a \in Actors, WaitTimeout(a)
    PROVE  Inv'
<1> DEFINE k == key[a]
<1>a. TypeOK /\ QueueAgrees /\ GrantAgrees /\ NoStrandedWaiter
  BY DEF Inv
<1>b. /\ call[a] = "waiting"
      /\ call' = [call EXCEPT ![a] = "idle"]
      /\ key' = [key EXCEPT ![a] = NoKey]
      /\ locks' = locks /\ released' = released
  BY DEF WaitTimeout
<1>0. k \in Keys /\ waiters[k] \in Seq(Actors) /\ Len(waiters[k]) \in Nat
  BY <1>a, <1>b, LenProperties DEF TypeOK, QueueAgrees
<1>1. PICK i \in 1..Len(waiters[k]) :
          waiters[k][i] = a /\ waiters' = [waiters EXCEPT ![k] = RemoveAt(@, i)]
  BY DEF WaitTimeout
<1> HIDE DEF k
<1>2. /\ RemoveAt(waiters[k], i) \in Seq(Actors)
      /\ Len(RemoveAt(waiters[k], i)) = Len(waiters[k]) - 1
      /\ \A j \in 1..(Len(waiters[k]) - 1) :
            RemoveAt(waiters[k], i)[j] = IF j < i THEN waiters[k][j] ELSE waiters[k][j + 1]
  BY <1>0, RemoveAtFacts
<1>3. /\ waiters'[k] = RemoveAt(waiters[k], i)
      /\ \A l \in Keys : l # k => waiters'[l] = waiters[l]
      /\ \A b \in Actors : b # a => call'[b] = call[b] /\ key'[b] = key[b]
      /\ call'[a] = "idle" /\ key'[a] = NoKey
  BY <1>a, <1>b, <1>0, <1>1 DEF TypeOK, k
<1>4. TypeOK'
  BY <1>a, <1>b, <1>0, <1>1, <1>2, NullAssumption DEF TypeOK, CallStates
<1>5. \A j \in 1..Len(waiters[k]) : waiters[k][j] = a => j = i
  BY <1>a, <1>0, <1>1 DEF QueueAgrees
<1>6. QueueAgrees'
  <2>1. ASSUME NEW l \in Keys, NEW j \in 1..Len(waiters'[l])
        PROVE  call'[waiters'[l][j]] = "waiting" /\ key'[waiters'[l][j]] = l
    <3>1. CASE l = k
      <4>1. PICK m \in 1..Len(waiters[k]) : m # i /\ waiters'[l][j] = waiters[k][m]
        BY <1>0, <1>2, <1>3, <2>1, <3>1
      <4>2. waiters[k][m] # a /\ waiters[k][m] \in Actors
        BY <1>0, <1>5, <4>1, ElementOfSeq
      <4> QED BY <1>a, <1>0, <1>3, <3>1, <4>1, <4>2 DEF QueueAgrees
    <3>2. CASE l # k
      <4>1. /\ j \in 1..Len(waiters[l]) /\ waiters'[l][j] = waiters[l][j]
            /\ waiters[l][j] \in Actors
        BY <1>a, <1>3, <2>1, <3>2, ElementOfSeq DEF TypeOK
      <4>2. waiters[l][j] # a
        BY <1>a, <3>2, <4>1 DEF QueueAgrees, k
      <4> QED BY <1>a, <1>3, <4>1, <4>2 DEF QueueAgrees
    <3> QED BY <3>1, <3>2
  <2>2. ASSUME NEW l \in Keys, NEW j \in 1..Len(waiters'[l]), NEW m \in 1..Len(waiters'[l]),
               waiters'[l][j] = waiters'[l][m]
        PROVE  j = m
    <3>1. CASE l = k
      <4> DEFINE old(n) == IF n < i THEN n ELSE n + 1
      <4>0. j \in 1..(Len(waiters[k]) - 1) /\ m \in 1..(Len(waiters[k]) - 1)
        BY <1>2, <1>3, <2>2, <3>1
      <4>3. ASSUME NEW n \in 1..(Len(waiters[k]) - 1)
            PROVE  old(n) \in 1..Len(waiters[k]) /\ waiters'[k][n] = waiters[k][old(n)]
        BY <1>0, <1>2, <1>3, <4>3
      <4>1. /\ old(j) \in 1..Len(waiters[k]) /\ old(m) \in 1..Len(waiters[k])
            /\ waiters[k][old(j)] = waiters[k][old(m)]
        BY <2>2, <3>1, <4>0, <4>3
      <4>2. old(j) = old(m)
        BY <1>a, <1>0, <4>1 DEF QueueAgrees
      <4> QED BY <4>0, <4>2
    <3>2. CASE l # k
      BY <1>a, <1>3, <2>2, <3>2 DEF QueueAgrees
    <3> QED BY <3>1, <3>2
  <2>3. ASSUME NEW b \in Actors, call'[b] = "waiting"
        PROVE  /\ key'[b] \in Keys
               /\ \E j \in 1..Len(waiters'[key'[b]]) : waiters'[key'[b]][j] = b
    <3>1. b # a /\ call[b] = "waiting" /\ key'[b] = key[b]
      BY <1>3, <2>3
    <3>2. PICK m \in 1..Len(waiters[key[b]]) : waiters[key[b]][m] = b
      BY <1>a, <3>1 DEF QueueAgrees
    <3>3. key[b] \in Keys
      BY <1>a, <3>1 DEF QueueAgrees
    <3>4. CASE key[b] = k
      <4> DEFINE new == IF m < i THEN m ELSE m - 1
      <4>1. m # i
        BY <1>1, <3>1, <3>2, <3>4
      <4>2. new \in 1..Len(waiters'[k]) /\ waiters'[k][new] = b
        BY <1>0, <1>2, <1>3, <3>2, <3>4, <4>1
      <4> QED BY <3>1, <3>3, <3>4, <4>2
    <3>5. CASE key[b] # k
      BY <1>3, <3>1, <3>2, <3>3, <3>5
    <3> QED BY <3>4, <3>5
  <2> QED BY <2>1, <2>2, <2>3 DEF QueueAgrees
<1>7. GrantAgrees'
  BY <1>a, <1>b, <1>3 DEF TypeOK, GrantAgrees
<1>8. NoStrandedWaiter'
  BY <1>a, <1>b, <1>0, <1>1, <1>3 DEF TypeOK, NoStrandedWaiter
<1> QED BY <1>4, <1>6, <1>7, <1>8 DEF Inv

\* The effect of release(key, state) on the live grant a, from both its callers:
\* the lease timer (a's call stays "leased") and lease.release() ("idle").
LEMMA UnlockInv ==
    ASSUME Inv, NEW a \in Actors, call[a] = "leased", ~released[a],
           NEW after \in {"idle", "leased"}, Unlock(a, after),
           key' = IF after = "idle" THEN [key EXCEPT ![a] = NoKey] ELSE key
    PROVE  Inv'
<1> DEFINE k == key[a]
           next == Heir(k)
<1>a. TypeOK /\ QueueAgrees /\ GrantAgrees /\ NoStrandedWaiter
  BY DEF Inv
<1>0. k \in Keys /\ locks[k] = a /\ waiters[k] \in Seq(Actors) /\ Len(waiters[k]) \in Nat
  BY <1>a, LenProperties DEF TypeOK, GrantAgrees
<1>1. /\ locks' = [locks EXCEPT ![k] = next]
      /\ waiters' = [waiters EXCEPT ![k] = IF @ = <<>> THEN @ ELSE Tail(@)]
      /\ call' = [b \in Actors |-> IF b = next THEN "leased"
                                   ELSE IF b = a THEN after ELSE call[b]]
      /\ released' = [b \in Actors |-> IF b = next THEN FALSE
                                       ELSE IF b = a THEN TRUE ELSE released[b]]
  BY <1>0 DEF Unlock
<1>2. /\ \A l \in Keys : l # k => locks'[l] = locks[l] /\ waiters'[l] = waiters[l]
      /\ locks'[k] = next
      /\ \A b \in Actors : b # a => key'[b] = key[b]
      /\ after = "leased" => key'[a] = k
  BY <1>a, <1>0, <1>1 DEF TypeOK
<1>3. CASE waiters[k] = <<>>
  <2>1. next = Nobody /\ waiters' = waiters
    BY <1>a, <1>0, <1>1, <1>3 DEF Heir, TypeOK
  <2>2. /\ \A b \in Actors : b # a => call'[b] = call[b] /\ released'[b] = released[b]
        /\ call'[a] = after /\ released'[a] = TRUE
    BY <1>1, <2>1, NullAssumption
  <2> HIDE DEF next, k
  <2>3. TypeOK'
    BY <1>a, <1>0, <1>1, <2>1, NullAssumption DEF TypeOK, CallStates
  <2>4. QueueAgrees'
    <3>1. ASSUME NEW l \in Keys, NEW i \in 1..Len(waiters[l])
          PROVE  /\ waiters[l][i] \in Actors /\ waiters[l][i] # a
                 /\ call[waiters[l][i]] = "waiting" /\ key[waiters[l][i]] = l
      BY <1>a, <3>1, ElementOfSeq DEF TypeOK, QueueAgrees
    <3>2. ASSUME NEW b \in Actors, call'[b] = "waiting"
          PROVE  b # a /\ call[b] = "waiting" /\ key'[b] = key[b]
      BY <1>2, <2>2, <3>2
    <3> QED BY <1>a, <1>2, <2>1, <2>2, <3>1, <3>2 DEF QueueAgrees
  <2>5. GrantAgrees'
    <3>1. ASSUME NEW l \in Keys, NEW b \in Actors, locks'[l] = b
          PROVE  call'[b] = "leased" /\ key'[b] = l /\ ~released'[b]
      <4>1. l # k /\ locks[l] = b
        BY <1>2, <2>1, <3>1, NullAssumption
      <4>2. b # a
        BY <1>a, <4>1 DEF GrantAgrees, k
      <4> QED BY <1>a, <1>2, <2>2, <4>1, <4>2 DEF GrantAgrees
    <3>2. ASSUME NEW b \in Actors, call'[b] = "leased"
          PROVE  key'[b] \in Keys /\ (~released'[b] => locks'[key'[b]] = b)
      <4>1. CASE b = a
        BY <1>0, <1>2, <2>2, <3>2, <4>1
      <4>2. CASE b # a
        BY <1>a, <1>0, <1>2, <2>2, <3>2, <4>2 DEF GrantAgrees
      <4> QED BY <4>1, <4>2
    <3> QED BY <3>1, <3>2 DEF GrantAgrees
  <2>6. NoStrandedWaiter'
    BY <1>a, <1>0, <1>2, <1>3, <2>1 DEF NoStrandedWaiter
  <2> QED BY <2>3, <2>4, <2>5, <2>6 DEF Inv
<1>4. CASE waiters[k] # <<>>
  <2>1. /\ next = Head(waiters[k]) /\ next = waiters[k][1] /\ next \in Actors
        /\ 1 \in 1..Len(waiters[k])
        /\ Tail(waiters[k]) \in Seq(Actors)
        /\ Len(Tail(waiters[k])) = Len(waiters[k]) - 1
        /\ \A i \in 1..(Len(waiters[k]) - 1) : Tail(waiters[k])[i] = waiters[k][i + 1]
    BY <1>0, <1>4, EmptySeq, HeadTailProperties DEF Heir
  <2>2. call[next] = "waiting" /\ key[next] = k /\ next # a
    BY <1>a, <1>0, <2>1 DEF QueueAgrees
  <2>3. waiters' = [waiters EXCEPT ![k] = Tail(waiters[k])] /\ waiters'[k] = Tail(waiters[k])
    BY <1>a, <1>0, <1>1, <1>4 DEF TypeOK
  <2>4. /\ \A b \in Actors : b \notin {a, next} => call'[b] = call[b] /\ released'[b] = released[b]
        /\ call'[next] = "leased" /\ released'[next] = FALSE /\ key'[next] = k
        /\ call'[a] = after /\ released'[a] = TRUE
    BY <1>1, <1>2, <2>1, <2>2
  <2> HIDE DEF next, k
  <2>5. TypeOK'
    <3>1. locks' \in [Keys -> Actors \cup {Nobody}] /\ waiters' \in [Keys -> Seq(Actors)]
      BY <1>a, <1>0, <1>1, <2>1, <2>3 DEF TypeOK
    <3>2. call' \in [Actors -> CallStates] /\ released' \in [Actors -> BOOLEAN]
      BY <1>a, <1>1 DEF TypeOK, CallStates
    <3>3. key' \in [Actors -> Keys \cup {NoKey}]
      BY <1>a DEF TypeOK
    <3> QED BY <3>1, <3>2, <3>3 DEF TypeOK
  <2>6. QueueAgrees'
    <3>1. ASSUME NEW l \in Keys, NEW i \in 1..Len(waiters'[l])
          PROVE  \E j \in 1..Len(waiters[l]) :
                    /\ waiters'[l][i] = waiters[l][j]
                    /\ j = IF l = k THEN i + 1 ELSE i
      <4>1. CASE l = k
        <5>1. /\ i \in 1..(Len(waiters[k]) - 1)
              /\ waiters'[l][i] = waiters[k][i + 1]
          BY <2>1, <2>3, <3>1, <4>1
        <5>2. i + 1 \in 1..Len(waiters[k])
          BY <1>0, <5>1
        <5> QED BY <4>1, <5>1, <5>2
      <4>2. CASE l # k
        BY <1>2, <3>1, <4>2
      <4> QED BY <4>1, <4>2
    <3>2. ASSUME NEW l \in Keys, NEW i \in 1..Len(waiters'[l])
          PROVE  call'[waiters'[l][i]] = "waiting" /\ key'[waiters'[l][i]] = l
      <4>1. PICK j \in 1..Len(waiters[l]) :
                /\ waiters'[l][i] = waiters[l][j]
                /\ j = IF l = k THEN i + 1 ELSE i
        BY <3>1, <3>2
      <4>2. /\ waiters[l][j] \in Actors
            /\ call[waiters[l][j]] = "waiting" /\ key[waiters[l][j]] = l
        BY <1>a, <4>1, ElementOfSeq DEF TypeOK, QueueAgrees
      <4>3. waiters[l][j] # a
        BY <4>2
      <4>4. waiters[l][j] # next
        <5>1. CASE l = k
          <6>1. j # 1
            BY <3>2, <4>1, <5>1
          <6> QED BY <1>a, <1>0, <2>1, <4>1, <5>1, <6>1 DEF QueueAgrees
        <5>2. CASE l # k
          BY <2>2, <4>2, <5>2
        <5> QED BY <5>1, <5>2
      <4> QED BY <1>2, <2>4, <4>1, <4>2, <4>3, <4>4
    <3>3. ASSUME NEW l \in Keys, NEW i \in 1..Len(waiters'[l]), NEW j \in 1..Len(waiters'[l]),
                 waiters'[l][i] = waiters'[l][j]
          PROVE  i = j
      <4>1. PICK m \in 1..Len(waiters[l]) :
                /\ waiters'[l][i] = waiters[l][m]
                /\ m = IF l = k THEN i + 1 ELSE i
        BY <3>1
      <4>2. PICK n \in 1..Len(waiters[l]) :
                /\ waiters'[l][j] = waiters[l][n]
                /\ n = IF l = k THEN j + 1 ELSE j
        BY <3>1
      <4>3. waiters[l][m] = waiters[l][n]
        BY <3>3, <4>1, <4>2
      <4>5. m = n
        BY <1>a, <4>3 DEF QueueAgrees
      <4>4. i \in Nat /\ j \in Nat
        <5>1. Len(waiters'[l]) \in Nat
          BY <2>5, LenProperties DEF TypeOK
        <5> QED BY <3>3, <5>1
      <4> QED BY <4>1, <4>2, <4>4, <4>5
    <3>4. ASSUME NEW b \in Actors, call'[b] = "waiting"
          PROVE  /\ key'[b] \in Keys
                 /\ \E i \in 1..Len(waiters'[key'[b]]) : waiters'[key'[b]][i] = b
      <4>1. b # a /\ b # next /\ call[b] = "waiting" /\ key'[b] = key[b]
        BY <1>2, <2>4, <3>4
      <4>2. key[b] \in Keys
        BY <1>a, <4>1 DEF QueueAgrees
      <4>3. PICK i \in 1..Len(waiters[key[b]]) : waiters[key[b]][i] = b
        BY <1>a, <4>1 DEF QueueAgrees
      <4>4. CASE key[b] = k
        <5>1. i # 1
          BY <2>1, <4>1, <4>3, <4>4
        <5>2. i - 1 \in 1..(Len(waiters[k]) - 1) /\ (i - 1) + 1 = i
          BY <1>0, <4>3, <4>4, <5>1
        <5>3. waiters[k][(i - 1) + 1] = b
          BY <4>3, <4>4, <5>2
        <5>4. i - 1 \in 1..Len(waiters'[k]) /\ waiters'[k][i - 1] = b
          BY <2>1, <2>3, <5>2, <5>3
        <5> QED BY <4>1, <4>2, <4>4, <5>4
      <4>5. CASE key[b] # k
        BY <1>2, <4>1, <4>2, <4>3, <4>5
      <4> QED BY <4>4, <4>5
    <3> QED BY <3>2, <3>3, <3>4 DEF QueueAgrees
  <2>7. GrantAgrees'
    <3>1. ASSUME NEW l \in Keys, NEW b \in Actors, locks'[l] = b
          PROVE  call'[b] = "leased" /\ key'[b] = l /\ ~released'[b]
      <4>1. CASE l = k
        BY <1>2, <2>4, <3>1, <4>1
      <4>2. CASE l # k
        <5>1. /\ locks[l] = b /\ call[b] = "leased" /\ key[b] = l /\ ~released[b]
          BY <1>a, <1>2, <3>1, <4>2 DEF GrantAgrees
        <5>2. b # a /\ b # next
          BY <2>2, <4>2, <5>1 DEF k
        <5> QED BY <1>2, <2>4, <5>1, <5>2
      <4> QED BY <4>1, <4>2
    <3>2. ASSUME NEW b \in Actors, call'[b] = "leased"
          PROVE  key'[b] \in Keys /\ (~released'[b] => locks'[key'[b]] = b)
      <4>1. CASE b = next
        BY <1>0, <1>2, <2>4, <4>1
      <4>2. CASE b = a
        BY <1>0, <1>2, <2>4, <3>2, <4>2
      <4>3. CASE b \notin {a, next}
        <5>1. call[b] = "leased" /\ released'[b] = released[b] /\ key'[b] = key[b]
          BY <1>2, <2>4, <3>2, <4>3
        <5> QED BY <1>a, <1>0, <1>2, <4>3, <5>1 DEF GrantAgrees
      <4> QED BY <4>1, <4>2, <4>3
    <3> QED BY <3>1, <3>2 DEF GrantAgrees
  <2>8. NoStrandedWaiter'
    BY <1>a, <1>2, <2>1, NullAssumption DEF NoStrandedWaiter
  <2> QED BY <2>5, <2>6, <2>7, <2>8 DEF Inv
<1> QED BY <1>3, <1>4

LEMMA StepInv == Inv /\ [LockNext]_lockVars => Inv'
<1> SUFFICES ASSUME Inv, [LockNext]_lockVars
             PROVE  Inv'
  OBVIOUS
<1>1. ASSUME NEW a \in Actors, NEW k \in Keys, Acquire(a, k)
      PROVE  Inv'
  BY <1>1, AcquireFreeInv, AcquireHeldInv DEF Acquire
<1>2. ASSUME NEW a \in Actors, WaitTimeout(a)
      PROVE  Inv'
  BY <1>2, WaitTimeoutInv
<1>3. ASSUME NEW a \in Actors, LeaseExpires(a)
      PROVE  Inv'
  <2>1. /\ call[a] = "leased" /\ ~released[a] /\ Unlock(a, "leased")
        /\ key' = IF "leased" = "idle" THEN [key EXCEPT ![a] = NoKey] ELSE key
    BY <1>3 DEF LeaseExpires
  <2> QED BY <2>1, UnlockInv
<1>4. ASSUME NEW a \in Actors, ReleaseHeld(a)
      PROVE  Inv'
  <2>1. /\ call[a] = "leased" /\ ~released[a] /\ Unlock(a, "idle")
        /\ key' = IF "idle" = "idle" THEN [key EXCEPT ![a] = NoKey] ELSE key
    BY <1>4 DEF ReleaseHeld
  <2> QED BY <2>1, UnlockInv
<1>5. ASSUME NEW a \in Actors, ReleaseLate(a)
      PROVE  Inv'
  <2>1. TypeOK /\ QueueAgrees /\ GrantAgrees /\ NoStrandedWaiter
    BY DEF Inv
  <2>2. TypeOK'
    BY <1>5, <2>1 DEF ReleaseLate, TypeOK, CallStates
  <2>3. QueueAgrees'
    BY <1>5, <2>1, ElementOfSeq DEF ReleaseLate, TypeOK, QueueAgrees
  <2>4. GrantAgrees'
    BY <1>5, <2>1 DEF ReleaseLate, TypeOK, GrantAgrees
  <2>5. NoStrandedWaiter'
    BY <1>5, <2>1 DEF ReleaseLate, NoStrandedWaiter
  <2> QED BY <2>2, <2>3, <2>4, <2>5 DEF Inv
<1>6. CASE UNCHANGED lockVars
  BY <1>6 DEF lockVars, Inv, TypeOK, QueueAgrees, GrantAgrees, NoStrandedWaiter
<1> QED BY <1>1, <1>2, <1>3, <1>4, <1>5, <1>6 DEF LockNext, Release

-----------------------------------------------------------------------------
(* Theorems. *)

\* Every reachable state is well typed, the Map, the queues and the callers
\* agree in it, and no free lock has a waiter.
THEOREM LockInvariant == LockSpec => []Inv
<1> QED BY InitInv, StepInv, PTL DEF LockSpec

\* The Map, the queues and the callers keep their types.
THEOREM LockTypeOK == LockSpec => []TypeOK
<1>1. Inv => TypeOK
  BY DEF Inv
<1> QED BY <1>1, LockInvariant, PTL

\* An entry of the Map is the one unexpired grant on its key, so that a release
\* by the holder is told from a late one (sync.ts release).
THEOREM LockGrantAgrees == LockSpec => []GrantAgrees
<1>1. Inv => GrantAgrees
  BY DEF Inv
<1> QED BY <1>1, LockInvariant, PTL

\* The queues hold exactly the waiting callers, each once (sync.ts acquire,
\* the wait timer and release keep the two views of a wait in step).
THEOREM LockQueueAgrees == LockSpec => []QueueAgrees
<1>1. Inv => QueueAgrees
  BY DEF Inv
<1> QED BY <1>1, LockInvariant, PTL

\* No waiter is left behind on a free lock.
THEOREM LockNoStrandedWaiter == LockSpec => []NoStrandedWaiter
<1>1. Inv => NoStrandedWaiter
  BY DEF Inv
<1> QED BY <1>1, LockInvariant, PTL

\* Mutual exclusion up to lease expiry: of two callers inside the same key, the
\* lease of at least one has expired.
THEOREM LockExclusive == LockSpec => []ExclusiveUnlessExpired
<1>1. Inv => ExclusiveUnlessExpired
  BY DEF Inv, GrantAgrees, ExclusiveUnlessExpired
<1> QED BY <1>1, LockInvariant, PTL

\* The late release of an expired holder changes neither the lock nor the queue.
THEOREM LockLateRelease == LockSpec => LateReleaseIsHarmless
<1> DEFINE Step == \A a \in Actors : (call[a] = "leased" /\ released[a] /\ call'[a] = "idle")
                        => UNCHANGED <<locks, waiters>>
<1>1. Inv /\ [LockNext]_lockVars => [Step]_lockVars
  <2> SUFFICES ASSUME Inv, LockNext, NEW a \in Actors,
                      call[a] = "leased", released[a], call'[a] = "idle"
               PROVE  UNCHANGED <<locks, waiters>>
    BY DEF Step
  <2>0. TypeOK /\ QueueAgrees /\ GrantAgrees
    BY DEF Inv
  <2>1. ASSUME NEW b \in Actors, NEW k \in Keys, Acquire(b, k)
        PROVE  FALSE
    BY <2>0, <2>1 DEF Acquire, AcquireFree, AcquireHeld, TypeOK
  <2>2. ASSUME NEW b \in Actors, WaitTimeout(b)
        PROVE  FALSE
    BY <2>0, <2>2 DEF WaitTimeout, TypeOK
  <2>3. ASSUME NEW b \in Actors, LeaseExpires(b) \/ ReleaseHeld(b)
        PROVE  FALSE
    <3>1. ~released[b] /\ b # a
      BY <2>3 DEF LeaseExpires, ReleaseHeld
    <3>2. PICK after \in {"idle", "leased"} : Unlock(b, after)
      BY <2>3 DEF LeaseExpires, ReleaseHeld
    <3>3. call'[a] \in {"leased", call[a]}
      BY <3>1, <3>2 DEF Unlock
    <3> QED BY <3>3
  <2>4. ASSUME NEW b \in Actors, ReleaseLate(b)
        PROVE  UNCHANGED <<locks, waiters>>
    BY <2>4 DEF ReleaseLate
  <2> QED BY <2>1, <2>2, <2>3, <2>4 DEF LockNext, Release
<1> QED BY <1>1, LockInvariant, PTL DEF LockSpec, LateReleaseIsHarmless

\* First come, first served: release() grants only the oldest waiter (sync.ts
\* shifts the queue), so who is granted had nobody waiting ahead of it.
THEOREM LockFirstComeFirstServed == LockSpec => NoOvertaking
<1> DEFINE Step == \A k \in Keys : \A i, j \in 1..Len(waiters[k]) :
                      (i < j /\ call'[waiters[k][j]] = "leased")
                          => call'[waiters[k][i]] # "waiting"
<1>1. Inv /\ [LockNext]_lockVars => [Step]_lockVars
  <2> SUFFICES ASSUME Inv, LockNext,
                      NEW k \in Keys, NEW i \in 1..Len(waiters[k]), NEW j \in 1..Len(waiters[k]),
                      i < j, call'[waiters[k][j]] = "leased"
               PROVE  FALSE
    BY DEF Step
  <2>0. TypeOK /\ QueueAgrees /\ GrantAgrees
    BY DEF Inv
  <2> DEFINE w == waiters[k][j]
  <2>1. /\ w \in Actors /\ call[w] = "waiting" /\ key[w] = k
        /\ waiters[k] \in Seq(Actors) /\ Len(waiters[k]) \in Nat
    BY <2>0, ElementOfSeq, LenProperties DEF TypeOK, QueueAgrees
  <2>2. call'[w] = "leased" /\ j # 1
    BY <2>1
  <2>3. waiters[k][j] = w
    OBVIOUS
  <2> HIDE DEF w
  <2>4. ASSUME NEW b \in Actors, NEW l \in Keys, Acquire(b, l)
        PROVE  FALSE
    BY <2>0, <2>1, <2>2, <2>4 DEF Acquire, AcquireFree, AcquireHeld, TypeOK
  <2>5. ASSUME NEW b \in Actors, WaitTimeout(b) \/ ReleaseLate(b)
        PROVE  FALSE
    BY <2>0, <2>1, <2>2, <2>5 DEF WaitTimeout, ReleaseLate, TypeOK
  <2>6. ASSUME NEW b \in Actors, LeaseExpires(b) \/ ReleaseHeld(b)
        PROVE  FALSE
    <3>1. call[b] = "leased" /\ ~released[b]
      BY <2>6 DEF LeaseExpires, ReleaseHeld
    <3>2. PICK after \in {"idle", "leased"} : Unlock(b, after)
      BY <2>6 DEF LeaseExpires, ReleaseHeld
    <3>3. key[b] \in Keys /\ locks[key[b]] = b
      BY <2>0, <3>1 DEF GrantAgrees
    <3>4. w # b
      BY <2>1, <3>1
    <3>5. w = Heir(key[b])
      BY <2>1, <2>2, <3>2, <3>3, <3>4 DEF Unlock
    <3>6. w = waiters[key[b]][1] /\ 1 \in 1..Len(waiters[key[b]])
      <4>1. waiters[key[b]] # <<>>
        BY <2>1, <3>5, NullAssumption DEF Heir
      <4>2. waiters[key[b]] \in Seq(Actors)
        BY <2>0, <3>3 DEF TypeOK
      <4> QED BY <3>5, <4>1, <4>2, EmptySeq, HeadTailProperties, LenProperties DEF Heir
    <3>7. key[b] = k
      BY <2>0, <2>1, <3>3, <3>6 DEF QueueAgrees
    <3> QED BY <2>0, <2>2, <2>3, <3>6, <3>7 DEF QueueAgrees
  <2> QED BY <2>4, <2>5, <2>6 DEF LockNext, Release
<1> QED BY <1>1, LockInvariant, PTL DEF LockSpec, NoOvertaking

-----------------------------------------------------------------------------
(* The lock implements the abstract lock. *)

LEMMA ToSetMinus ==
    ASSUME NEW s \in Seq(Actors), NEW t \in Seq(Actors), NEW e \in Actors,
           \A i \in 1..Len(t) : t[i] \in ToSet(s) \ {e},
           \A j \in 1..Len(s) : s[j] # e => \E i \in 1..Len(t) : t[i] = s[j]
    PROVE  ToSet(t) = ToSet(s) \ {e}
<1>0. DOMAIN s = 1..Len(s) /\ DOMAIN t = 1..Len(t)
  BY LenProperties
<1>1. ASSUME NEW x \in ToSet(t) PROVE x \in ToSet(s) \ {e}
  BY <1>0, <1>1 DEF ToSet
<1>2. ASSUME NEW x \in ToSet(s) \ {e} PROVE x \in ToSet(t)
  <2>1. PICK j \in 1..Len(s) : x = s[j]
    BY <1>0, <1>2 DEF ToSet
  <2>2. PICK i \in 1..Len(t) : t[i] = s[j]
    BY <1>2, <2>1
  <2> QED BY <1>0, <2>1, <2>2 DEF ToSet
<1> QED BY <1>1, <1>2

pendingBar == [k \in Keys |-> ToSet(waiters[k])]

LEMMA StepImplementsLease == Inv /\ LockNext => [Abstract!Next]_<<locks, pendingBar>>
<1> SUFFICES ASSUME Inv, LockNext
             PROVE  [Abstract!Next]_<<locks, pendingBar>>
  OBVIOUS
<1>a. TypeOK /\ QueueAgrees /\ GrantAgrees /\ NoStrandedWaiter
  BY DEF Inv
<1>b. \A k \in Keys : /\ waiters[k] \in Seq(Actors)
                      /\ Len(waiters[k]) \in Nat
                      /\ DOMAIN waiters[k] = 1..Len(waiters[k])
  BY <1>a, LenProperties DEF TypeOK
<1>c. Inv'
  BY StepInv
<1>d. \A k \in Keys : DOMAIN waiters'[k] = 1..Len(waiters'[k]) /\ Len(waiters'[k]) \in Nat
  BY <1>c, LenProperties DEF Inv, TypeOK
<1>1. ASSUME NEW a \in Actors, NEW k \in Keys, AcquireFree(a, k)
      PROVE  Abstract!Enter(a, k)
  BY <1>1 DEF AcquireFree, Abstract!Enter
<1>2. ASSUME NEW a \in Actors, NEW k \in Keys, AcquireHeld(a, k)
      PROVE  Abstract!Wait(a, k)
  <2>1. ToSet(Append(waiters[k], a)) = ToSet(waiters[k]) \cup {a}
    <3>1. /\ Append(waiters[k], a) \in Seq(Actors)
          /\ Len(Append(waiters[k], a)) = Len(waiters[k]) + 1
          /\ \A i \in 1..Len(waiters[k]) : Append(waiters[k], a)[i] = waiters[k][i]
          /\ Append(waiters[k], a)[Len(waiters[k]) + 1] = a
      BY <1>b, AppendFacts
    <3>2. DOMAIN Append(waiters[k], a) = 1..(Len(waiters[k]) + 1)
      BY <3>1, LenProperties
    <3> QED BY <1>b, <3>1, <3>2 DEF ToSet
  <2>2. pendingBar' = [pendingBar EXCEPT ![k] = @ \cup {a}]
    BY <1>2, <1>a, <2>1 DEF AcquireHeld, pendingBar, TypeOK
  <2> QED BY <1>2, <2>2 DEF AcquireHeld, Abstract!Wait, pendingBar
<1>3. ASSUME NEW a \in Actors, WaitTimeout(a)
      PROVE  \E k \in Keys : Abstract!GiveUp(a, k)
  <2> DEFINE k == key[a]
  <2>1. k \in Keys
    BY <1>3, <1>a DEF WaitTimeout, QueueAgrees
  <2>2. PICK i \in 1..Len(waiters[k]) :
            waiters[k][i] = a /\ waiters' = [waiters EXCEPT ![k] = RemoveAt(@, i)]
    BY <1>3 DEF WaitTimeout
  <2>3. locks' = locks
    BY <1>3 DEF WaitTimeout
  <2> HIDE DEF k
  <2>4. /\ RemoveAt(waiters[k], i) \in Seq(Actors)
        /\ Len(RemoveAt(waiters[k], i)) = Len(waiters[k]) - 1
        /\ \A j \in 1..(Len(waiters[k]) - 1) :
              RemoveAt(waiters[k], i)[j] = IF j < i THEN waiters[k][j] ELSE waiters[k][j + 1]
    BY <1>b, <2>1, RemoveAtFacts
  <2>6. \A j \in 1..Len(waiters[k]) : waiters[k][j] = a => j = i
    BY <1>a, <2>1, <2>2 DEF QueueAgrees
  <2>7. ToSet(RemoveAt(waiters[k], i)) = ToSet(waiters[k]) \ {a}
    <3>1. ASSUME NEW j \in 1..(Len(waiters[k]) - 1)
          PROVE  RemoveAt(waiters[k], i)[j] \in ToSet(waiters[k]) \ {a}
      <4>1. PICK m \in 1..Len(waiters[k]) : m # i /\ RemoveAt(waiters[k], i)[j] = waiters[k][m]
        BY <1>b, <2>1, <2>2, <2>4, <3>1
      <4> QED BY <1>b, <2>1, <2>6, <4>1 DEF ToSet
    <3>2. ASSUME NEW m \in 1..Len(waiters[k]), waiters[k][m] # a
          PROVE  \E j \in 1..(Len(waiters[k]) - 1) : RemoveAt(waiters[k], i)[j] = waiters[k][m]
      <4> DEFINE j == IF m < i THEN m ELSE m - 1
      <4>1. m # i
        BY <2>2, <3>2
      <4>2. j \in 1..(Len(waiters[k]) - 1) /\ RemoveAt(waiters[k], i)[j] = waiters[k][m]
        BY <1>b, <2>1, <2>2, <2>4, <3>2, <4>1
      <4> QED BY <4>2
    <3> DEFINE t == RemoveAt(waiters[k], i)
    <3>3. /\ t \in Seq(Actors)
          /\ \A j \in 1..Len(t) : t[j] \in ToSet(waiters[k]) \ {a}
          /\ \A m \in 1..Len(waiters[k]) :
                waiters[k][m] # a => \E j \in 1..Len(t) : t[j] = waiters[k][m]
      BY <2>4, <3>1, <3>2
    <3> HIDE DEF t
    <3>4. ToSet(t) = ToSet(waiters[k]) \ {a}
      <4>1. waiters[k] \in Seq(Actors) /\ a \in Actors
        BY <1>b, <2>1
      <4> QED BY <3>3, <4>1, ToSetMinus
    <3> QED BY <3>4 DEF t
  <2>8. pendingBar' = [pendingBar EXCEPT ![k] = @ \ {a}]
    BY <1>a, <2>1, <2>2, <2>7 DEF pendingBar, TypeOK
  <2>9. a \in pendingBar[k]
    BY <1>b, <2>1, <2>2 DEF pendingBar, ToSet
  <2> QED BY <2>1, <2>3, <2>8, <2>9 DEF Abstract!GiveUp, pendingBar
<1>4. ASSUME NEW a \in Actors, LeaseExpires(a) \/ ReleaseHeld(a)
      PROVE  \E k \in Keys : Abstract!Leave(k)
  <2> DEFINE k == key[a]
  <2>1. call[a] = "leased" /\ ~released[a]
    BY <1>4 DEF LeaseExpires, ReleaseHeld
  <2>2. k \in Keys /\ locks[k] = a /\ locks[k] # Nobody
    BY <1>a, <2>1, NullAssumption DEF GrantAgrees
  <2>3. /\ locks' = [locks EXCEPT ![k] = Heir(k)]
        /\ waiters' = [waiters EXCEPT ![k] = IF @ = <<>> THEN @ ELSE Tail(@)]
    BY <1>4, <2>2 DEF LeaseExpires, ReleaseHeld, Unlock
  <2> HIDE DEF k
  <2>4. CASE waiters[k] = <<>>
    <3>1. Heir(k) = Nobody /\ waiters' = waiters /\ pendingBar[k] = {}
      BY <1>a, <1>b, <2>2, <2>3, <2>4, EmptySeq DEF Heir, pendingBar, ToSet, TypeOK
    <3>2. pendingBar' = pendingBar
      BY <3>1 DEF pendingBar
    <3> QED BY <2>2, <2>3, <3>1, <3>2 DEF Abstract!Leave, pendingBar
  <2>5. CASE waiters[k] # <<>>
    <3>1. /\ Heir(k) = waiters[k][1] /\ 1 \in 1..Len(waiters[k])
          /\ Tail(waiters[k]) \in Seq(Actors)
          /\ Len(Tail(waiters[k])) = Len(waiters[k]) - 1
          /\ \A i \in 1..(Len(waiters[k]) - 1) : Tail(waiters[k])[i] = waiters[k][i + 1]
      BY <1>b, <2>2, <2>5, EmptySeq, HeadTailProperties DEF Heir
    <3>3. \A j \in 1..Len(waiters[k]) : waiters[k][j] = waiters[k][1] => j = 1
      BY <1>a, <2>2, <3>1 DEF QueueAgrees
    <3>4. ToSet(Tail(waiters[k])) = ToSet(waiters[k]) \ {Heir(k)}
      <4>1. ASSUME NEW i \in 1..(Len(waiters[k]) - 1)
            PROVE  Tail(waiters[k])[i] \in ToSet(waiters[k]) \ {Heir(k)}
        <5>1. i + 1 \in 1..Len(waiters[k]) /\ i + 1 # 1
          BY <1>b, <2>2, <4>1
        <5>2. Tail(waiters[k])[i] = waiters[k][i + 1] /\ waiters[k][i + 1] # Heir(k)
          BY <3>1, <3>3, <4>1, <5>1
        <5> QED BY <1>b, <2>2, <5>1, <5>2 DEF ToSet
      <4>2. ASSUME NEW j \in 1..Len(waiters[k]), waiters[k][j] # Heir(k)
            PROVE  \E i \in 1..(Len(waiters[k]) - 1) : Tail(waiters[k])[i] = waiters[k][j]
        <5>1. j # 1
          BY <3>1, <4>2
        <5>2. j - 1 \in 1..(Len(waiters[k]) - 1) /\ (j - 1) + 1 = j
          BY <1>b, <2>2, <4>2, <5>1
        <5> QED BY <3>1, <5>2
      <4> DEFINE t == Tail(waiters[k])
      <4>3. /\ t \in Seq(Actors)
            /\ \A i \in 1..Len(t) : t[i] \in ToSet(waiters[k]) \ {Heir(k)}
            /\ \A j \in 1..Len(waiters[k]) :
                  waiters[k][j] # Heir(k) => \E i \in 1..Len(t) : t[i] = waiters[k][j]
        BY <3>1, <4>1, <4>2
      <4> HIDE DEF t
      <4>4. ToSet(t) = ToSet(waiters[k]) \ {Heir(k)}
        <5> DEFINE h == Heir(k)
        <5>1. waiters[k] \in Seq(Actors) /\ h \in Actors
          BY <1>b, <2>2, <3>1, ElementOfSeq
        <5>2. /\ \A i \in 1..Len(t) : t[i] \in ToSet(waiters[k]) \ {h}
              /\ \A j \in 1..Len(waiters[k]) :
                    waiters[k][j] # h => \E i \in 1..Len(t) : t[i] = waiters[k][j]
          BY <4>3
        <5> HIDE DEF h
        <5>3. ToSet(t) = ToSet(waiters[k]) \ {h}
          BY <4>3, <5>1, <5>2, ToSetMinus
        <5> QED BY <5>3 DEF h
      <4> QED BY <4>4 DEF t
    <3>5. waiters' = [waiters EXCEPT ![k] = Tail(waiters[k])]
      BY <1>a, <2>2, <2>3, <2>5 DEF TypeOK
    <3>6. pendingBar' = [pendingBar EXCEPT ![k] = @ \ {Heir(k)}]
      BY <1>a, <2>2, <3>4, <3>5 DEF pendingBar, TypeOK
    <3>7. Heir(k) \in pendingBar[k]
      BY <1>b, <2>2, <3>1 DEF pendingBar, ToSet
    <3> QED BY <2>2, <2>3, <3>6, <3>7 DEF Abstract!Leave, pendingBar
  <2> QED BY <2>2, <2>4, <2>5
<1>5. ASSUME NEW a \in Actors, ReleaseLate(a)
      PROVE  UNCHANGED <<locks, pendingBar>>
  BY <1>5 DEF ReleaseLate, pendingBar
<1> QED BY <1>1, <1>2, <1>3, <1>4, <1>5
        DEF LockNext, Acquire, Release, Abstract!Next, pendingBar

\* InMemoryLockBackend gives its callers the lock they rely on: every step of
\* it is a step of Lease, or invisible in it (a late release).
THEOREM LockImplementsLease == LockSpec => AbstractSpec
<1>1. Init => Abstract!Init
  <2>1. ToSet(<<>>) = {}
    BY EmptySeq DEF ToSet
  <2> QED BY <2>1 DEF Init, Abstract!Init
<1>2. Inv /\ [LockNext]_lockVars => [Abstract!Next]_(Abstract!vars)
  <2>1. CASE UNCHANGED lockVars
    BY <2>1 DEF lockVars, Abstract!vars
  <2> QED BY <2>1, StepImplementsLease DEF Abstract!vars, pendingBar
<1> QED BY <1>1, <1>2, LockInvariant, PTL DEF LockSpec, AbstractSpec, Abstract!Spec
=============================================================================
