---------------------------- MODULE TraceProofs ----------------------------
(***************************************************************************)
(* Proofs about traces: that the tree and the timeline of the web client   *)
(* show a trace whole (TraceTree), that its view watches what is live      *)
(* (TraceView), and that the conversations of the server only make traces  *)
(* the timeline can be trusted with (Conversation); for every value of the *)
(* constants.                                                              *)
(***************************************************************************)
EXTENDS Conversation, TraceView, Sequences, SequenceTheorems, FiniteSetTheorems, FunctionTheorems, TLAPS

(***************************************************************************)
(* Induction                                                               *)
(***************************************************************************)
\* A set of natural numbers that is not empty has a least element.
LEMMA Least ==
    ASSUME NEW S \in SUBSET Nat, S # {}
    PROVE  \E n \in S : \A m \in S : n <= m
<1>1. PICK n \in S : \A m \in S : <<m, n>> \notin OpToRel(<, Nat)
  BY NatLessThanWellFounded, WFMin, Zenon
<1>2. \A m \in S : ~(m < n)
  BY <1>1 DEF OpToRel
<1> QED BY <1>2

\* Induction: a set of natural numbers with 0 and every successor is Nat.
LEMMA AllNat ==
    ASSUME NEW S \in SUBSET Nat, 0 \in S, \A n \in S : n + 1 \in S
    PROVE  S = Nat
<1>1. SUFFICES ASSUME Nat \ S # {} PROVE FALSE
  OBVIOUS
<1>2. PICK n \in Nat \ S : \A m \in Nat \ S : n <= m
  BY <1>1, Least
<1>3. n # 0 /\ n - 1 \in Nat
  BY <1>2
<1>4. n - 1 \in S
  BY <1>2, <1>3
<1> QED BY <1>2, <1>3, <1>4

\* g is defined by recursion, from base by step.
Recurs(g, base, step) == g[0] = base /\ \A n \in Nat : g[n + 1] = step[g[n]]

\* A function may be defined by recursion on the natural numbers: the value at n + 1 from
\* that at n.
LEMMA Recursion ==
    ASSUME NEW V, NEW base \in V, NEW step \in [V -> V]
    PROVE  \E g \in [Nat -> V] : Recurs(g, base, step)
<1> DEFINE Upto(n, g) == g[0] = base /\ \A m \in 0 .. n - 1 : g[m + 1] = step[g[m]]
           Some == {n \in Nat : \E g \in [0 .. n -> V] : Upto(n, g)}
<1>1. Some = Nat
  <2>1. 0 \in Some
    <3> DEFINE g == [m \in 0 .. 0 |-> base]
    <3>1. g \in [0 .. 0 -> V] /\ Upto(0, g)
      OBVIOUS
    <3> HIDE DEF g
    <3> QED BY <3>1
  <2>2. ASSUME NEW n \in Some PROVE n + 1 \in Some
    <3>1. PICK g \in [0 .. n -> V] : Upto(n, g)
      BY <2>2
    <3> DEFINE h == [m \in 0 .. n + 1 |-> IF m = n + 1 THEN step[g[n]] ELSE g[m]]
    <3>2. n \in Nat
      OBVIOUS
    <3>3. h \in [0 .. n + 1 -> V]
      BY <3>1, <3>2
    <3>4. Upto(n + 1, h)
      BY <3>1, <3>2
    <3> HIDE DEF h
    <3> QED BY <3>2, <3>3, <3>4
  <2> HIDE DEF Some
  <2>3. Some \in SUBSET Nat
    BY DEF Some
  <2> QED BY <2>1, <2>2, <2>3, AllNat
<1> DEFINE G(n) == CHOOSE g \in [0 .. n -> V] : Upto(n, g)
           h == [n \in Nat |-> G(n)[n]]
<1>2. \A n \in Nat : G(n) \in [0 .. n -> V] /\ Upto(n, G(n))
  BY <1>1
<1>3. ASSUME NEW n \in Nat PROVE \A m \in 0 .. n : G(n)[m] = G(n + 1)[m]
  <2> DEFINE Same == {m \in Nat : m <= n => G(n)[m] = G(n + 1)[m]}
  <2> HIDE DEF G
  <2>1. 0 \in Same
    BY <1>2
  <2>2. ASSUME NEW m \in Same PROVE m + 1 \in Same
    <3>1. SUFFICES ASSUME m + 1 <= n PROVE G(n)[m + 1] = G(n + 1)[m + 1]
      OBVIOUS
    <3>2. m \in 0 .. n - 1 /\ m \in 0 .. (n + 1) - 1 /\ G(n)[m] = G(n + 1)[m]
      BY <3>1
    <3> QED BY <1>2, <3>2
  <2>3. Same = Nat
    <3> HIDE DEF Same
    <3>1. Same \in SUBSET Nat
      BY DEF Same
    <3> QED BY <2>1, <2>2, <3>1, AllNat
  <2> QED BY <2>3
<1> HIDE DEF G
<1>4. h \in [Nat -> V]
  BY <1>2
<1>5. h[0] = base
  BY <1>2
<1>6. ASSUME NEW n \in Nat PROVE h[n + 1] = step[h[n]]
  <2>1. G(n + 1)[n + 1] = step[G(n + 1)[n]]
    BY <1>2
  <2>2. G(n + 1)[n] = G(n)[n]
    BY <1>3
  <2> QED BY <2>1, <2>2
<1> HIDE DEF h
<1> QED BY <1>4, <1>5, <1>6 DEF Recurs

\* u is the function by which Climb is defined.
Ascends(u, next, x) ==
    u[0] = {x} /\ \A n \in Nat : u[n + 1] = u[n] \cup {next[y] : y \in u[n]}

\* Climb is the last of a chain of sets.
LEMMA ClimbUp ==
    ASSUME NEW X, NEW next \in [X -> X], NEW x \in X
    PROVE  \E u \in [Nat -> SUBSET X] :
             Ascends(u, next, x) /\ Climb(next, x) = u[Cardinality(X)]
<1> DEFINE step == [S \in SUBSET X |-> S \cup {next[y] : y \in S}]
           Rec(u) == u = [n \in Nat |-> IF n = 0 THEN {x} ELSE u[n - 1] \cup {next[y] : y \in u[n - 1]}]
           U == CHOOSE u : Rec(u)
<1>1. PICK u \in [Nat -> SUBSET X] : Recurs(u, {x}, step)
  <2>1. {x} \in SUBSET X
    OBVIOUS
  <2>2. \A S \in SUBSET X : S \cup {next[y] : y \in S} \in SUBSET X
    OBVIOUS
  <2>3. step \in [SUBSET X -> SUBSET X]
    BY <2>2
  <2> HIDE DEF step
  <2> QED BY <2>1, <2>3, Recursion, Zenon
<1>r. u[0] = {x} /\ \A n \in Nat : u[n + 1] = step[u[n]]
  BY <1>1 DEF Recurs
<1>2. Rec(u)
  <2>1. ASSUME NEW n \in Nat PROVE u[n] = IF n = 0 THEN {x} ELSE u[n - 1] \cup {next[y] : y \in u[n - 1]}
    <3>1. CASE n = 0
      BY <1>r, <3>1
    <3>2. CASE n # 0
      <4>1. n - 1 \in Nat /\ (n - 1) + 1 = n
        BY <3>2
      <4>2. u[n] = step[u[n - 1]]
        BY <1>r, <4>1
      <4> QED BY <1>r, <3>2, <4>1, <4>2
    <3> QED BY <3>1, <3>2
  <2> QED BY <1>r, <2>1
<1>3. Rec(U)
  BY <1>2
<1>4. Climb(next, x) = U[Cardinality(X)]
  BY DEF Climb
<1>5. /\ U = [n \in Nat |-> IF n = 0 THEN {x} ELSE U[n - 1] \cup {next[y] : y \in U[n - 1]}]
  BY <1>3
<1> HIDE DEF U
<1>6. U[0] = {x}
  BY <1>5
<1>7. ASSUME NEW n \in Nat PROVE U[n + 1] = U[n] \cup {next[y] : y \in U[n]}
  <2>1. n + 1 \in Nat /\ n + 1 # 0 /\ (n + 1) - 1 = n
    OBVIOUS
  <2> QED BY <1>5, <2>1
<1>8. {n \in Nat : U[n] \in SUBSET X} = Nat
  <2> DEFINE Typed == {n \in Nat : U[n] \in SUBSET X}
  <2>1. 0 \in Typed
    BY <1>6
  <2>2. ASSUME NEW n \in Typed PROVE n + 1 \in Typed
    BY <1>7
  <2>3. Typed \in SUBSET Nat
    OBVIOUS
  <2> HIDE DEF Typed
  <2>4. Typed = Nat
    BY <2>1, <2>2, <2>3, AllNat
  <2> QED BY <2>4 DEF Typed
<1>9. U \in [Nat -> SUBSET X]
  BY <1>5, <1>8
<1> QED BY <1>4, <1>6, <1>7, <1>9 DEF Ascends

\* What Climb gives is the least set with x in it that is closed under next.
LEMMA ClimbIsClosure ==
    ASSUME NEW X, IsFiniteSet(X), NEW next \in [X -> X], NEW x \in X
    PROVE  /\ Climb(next, x) \subseteq X
           /\ x \in Climb(next, x)
           /\ \A y \in Climb(next, x) : next[y] \in Climb(next, x)
           /\ \A S : x \in S /\ (\A y \in S \cap X : next[y] \in S) => Climb(next, x) \subseteq S
<1>0. PICK u \in [Nat -> SUBSET X] : Ascends(u, next, x) /\ Climb(next, x) = u[Cardinality(X)]
  BY ClimbUp
<1>1. /\ u[0] = {x}
      /\ \A n \in Nat : u[n + 1] = u[n] \cup {next[y] : y \in u[n]}
      /\ Climb(next, x) = u[Cardinality(X)]
  BY <1>0 DEF Ascends
<1>2. Cardinality(X) \in Nat
  BY FS_CardinalityType
<1> DEFINE Closed(S) == \A y \in S : next[y] \in S
           Grown == {n \in Nat : IsFiniteSet(u[n]) /\ (Closed(u[n]) \/ Cardinality(u[n]) >= n + 1)}
<1>3. Grown = Nat
  <2>1. 0 \in Grown
    <3>1. IsFiniteSet(u[0]) /\ Cardinality(u[0]) = 1
      BY <1>1, FS_Singleton
    <3> QED BY <3>1
  <2>2. ASSUME NEW n \in Grown PROVE n + 1 \in Grown
    <3>1. n \in Nat /\ u[n + 1] = u[n] \cup {next[y] : y \in u[n]} /\ u[n + 1] \in SUBSET X
      BY <1>1
    <3>2. IsFiniteSet(u[n + 1])
      BY <3>1, FS_Subset
    <3>3. CASE Closed(u[n])
      <4>1. u[n + 1] = u[n]
        BY <3>1, <3>3
      <4> QED BY <3>1, <3>2, <3>3, <4>1
    <3>4. CASE ~Closed(u[n])
      <4>1. Cardinality(u[n]) >= n + 1 /\ Cardinality(u[n]) \in Nat /\ Cardinality(u[n + 1]) \in Nat
        BY <3>2, <3>4, FS_CardinalityType
      <4>2. u[n] \in SUBSET u[n + 1] /\ u[n] # u[n + 1]
        BY <3>1, <3>4
      <4>3. Cardinality(u[n]) <= Cardinality(u[n + 1]) /\ Cardinality(u[n]) # Cardinality(u[n + 1])
        BY <3>2, <4>2, FS_Subset
      <4>4. Cardinality(u[n + 1]) >= (n + 1) + 1
        BY <3>1, <4>1, <4>3
      <4> QED BY <3>1, <3>2, <4>4
    <3> QED BY <3>3, <3>4
  <2>3. Grown \in SUBSET Nat
    OBVIOUS
  <2> HIDE DEF Grown
  <2> QED BY <2>1, <2>2, <2>3, AllNat
<1>4. Closed(u[Cardinality(X)])
  <2>1. u[Cardinality(X)] \in SUBSET X
    BY <1>1, <1>2
  <2>2. Cardinality(u[Cardinality(X)]) <= Cardinality(X) /\ Cardinality(u[Cardinality(X)]) \in Nat
    BY <2>1, FS_Subset, FS_CardinalityType
  <2>3. Closed(u[Cardinality(X)]) \/ Cardinality(u[Cardinality(X)]) >= Cardinality(X) + 1
    BY <1>2, <1>3
  <2> QED BY <1>2, <2>2, <2>3
<1> DEFINE Has == {n \in Nat : x \in u[n]}
<1>5. Has = Nat
  <2>1. 0 \in Has
    BY <1>1
  <2>2. ASSUME NEW n \in Has PROVE n + 1 \in Has
    BY <1>1
  <2>3. Has \in SUBSET Nat
    OBVIOUS
  <2> HIDE DEF Has
  <2> QED BY <2>1, <2>2, <2>3, AllNat
<1>6. ASSUME NEW S, x \in S, \A y \in S \cap X : next[y] \in S
      PROVE  \A n \in Nat : u[n] \subseteq S
  <2> DEFINE Below == {n \in Nat : u[n] \subseteq S}
  <2>1. 0 \in Below
    BY <1>1, <1>6
  <2>2. ASSUME NEW n \in Below PROVE n + 1 \in Below
    <3>1. n \in Nat /\ u[n] \subseteq S \cap X /\ u[n + 1] = u[n] \cup {next[y] : y \in u[n]}
      BY <1>1
    <3> QED BY <1>6, <3>1
  <2>3. Below \in SUBSET Nat
    OBVIOUS
  <2> HIDE DEF Below
  <2>4. Below = Nat
    BY <2>1, <2>2, <2>3, AllNat
  <2> QED BY <2>4 DEF Below
<1>7. /\ u[Cardinality(X)] \subseteq X
      /\ x \in u[Cardinality(X)]
      /\ \A y \in u[Cardinality(X)] : next[y] \in u[Cardinality(X)]
      /\ \A S : x \in S /\ (\A y \in S \cap X : next[y] \in S) => u[Cardinality(X)] \subseteq S
  BY <1>1, <1>2, <1>4, <1>5, <1>6
<1> QED BY <1>1, <1>7

\* One step up, and on from there.
LEMMA ClimbStep ==
    ASSUME NEW X, IsFiniteSet(X), NEW next \in [X -> X], NEW x \in X
    PROVE  /\ Climb(next, x) = {x} \cup Climb(next, next[x])
           /\ \A y \in Climb(next, x) : Climb(next, y) \subseteq Climb(next, x)
<1>1. \A z \in X : /\ Climb(next, z) \subseteq X
                   /\ z \in Climb(next, z)
                   /\ \A y \in Climb(next, z) : next[y] \in Climb(next, z)
                   /\ \A S : z \in S /\ (\A y \in S \cap X : next[y] \in S) => Climb(next, z) \subseteq S
  BY ClimbIsClosure
<1>2. ASSUME NEW y \in Climb(next, x) PROVE Climb(next, y) \subseteq Climb(next, x)
  BY <1>1
<1>3. Climb(next, next[x]) \subseteq Climb(next, x)
  BY <1>1, <1>2
<1>4. Climb(next, x) \subseteq {x} \cup Climb(next, next[x])
  <2> DEFINE S == {x} \cup Climb(next, next[x])
  <2>1. x \in S /\ \A y \in S \cap X : next[y] \in S
    BY <1>1
  <2> HIDE DEF S
  <2>2. Climb(next, x) \subseteq S
    BY <1>1, <2>1
  <2> QED BY <2>2 DEF S
<1> QED BY <1>1, <1>2, <1>3, <1>4

\* In a finite set that next does not leave, some element is reached again from its own
\* next.
LEMMA NextComesBack ==
    ASSUME NEW X, IsFiniteSet(X), NEW next \in [X -> X],
           NEW S \in SUBSET X, S # {}, \A y \in S : next[y] \in S
    PROVE  \E y \in S : y \in Climb(next, next[y])
<1> SUFFICES ASSUME \A y \in S : y \notin Climb(next, next[y])
             PROVE  FALSE
  OBVIOUS
<1> DEFINE Size(y) == Cardinality(Climb(next, y))
           Sizes == {Size(y) : y \in S}
<1>1. \A y \in X : IsFiniteSet(Climb(next, y)) /\ Size(y) \in Nat
  <2> TAKE y \in X
  <2>1. Climb(next, y) \in SUBSET X
    BY ClimbIsClosure
  <2> QED BY <2>1, FS_Subset, FS_CardinalityType
<1>2. ASSUME NEW y \in S PROVE Size(y) = Size(next[y]) + 1
  <2>1. y \in X /\ next[y] \in X
    OBVIOUS
  <2>2. Climb(next, y) = Climb(next, next[y]) \cup {y}
    BY <2>1, ClimbStep
  <2>3. IsFiniteSet(Climb(next, next[y])) /\ y \notin Climb(next, next[y])
    BY <1>1, <2>1
  <2> QED BY <2>2, <2>3, FS_AddElement
<1>3. Sizes \in SUBSET Nat /\ Sizes # {}
  BY <1>1
<1>4. PICK n \in Sizes : \A m \in Sizes : n <= m
  BY <1>3, Least
<1>5. PICK y \in S : n = Size(y)
  OBVIOUS
<1>6. Size(next[y]) \in Sizes /\ Size(next[y]) \in Nat
  BY <1>1
<1> QED BY <1>2, <1>4, <1>5, <1>6

\* What a function on a finite set takes has finitely many elements.
LEMMA ImageIsFinite ==
    ASSUME NEW f, IsFiniteSet(DOMAIN f)
    PROVE  IsFiniteSet({f[x] : x \in DOMAIN f})
<1> DEFINE S == DOMAIN f
           T == {f[x] : x \in S}
           g == [x \in S |-> f[x]]
<1>1. g \in Surjection(S, T)
  BY DEF Surjection
<1> HIDE DEF g, T
<1>2. IsFiniteSet(T)
  BY <1>1, FS_Surjection
<1> QED BY <1>2 DEF T

(***************************************************************************)
(* The tree of a trace                                                     *)
(***************************************************************************)

\* A tree has finitely many items.
LEMMA ItemsAreFinite ==
    ASSUME NEW t, IsTrace(t)
    PROVE  /\ IsFiniteSet(Items(t)) /\ IsFiniteSet(Items(t) \cup {NoItem})
           /\ IsFiniteSet(Ids(t)) /\ IsFiniteSet(Ids(t) \cup {None})
<1> DEFINE f == [m \in Elements(t.messages) |-> m.id]
           g == [id \in Ids(t) |-> <<"m", id>>]
           h == [r \in t.runs |-> <<"r", r.id>>]
<1>1. IsFiniteSet(Elements(t.messages))
  BY ImageIsFinite DEF Elements, IsTrace
<1>2. IsFiniteSet({f[m] : m \in DOMAIN f})
  BY <1>1, ImageIsFinite
<1>3. IsFiniteSet(Ids(t))
  BY <1>2 DEF Ids
<1>4. IsFiniteSet({g[id] : id \in DOMAIN g})
  BY <1>3, ImageIsFinite
<1>5. IsFiniteSet({h[r] : r \in DOMAIN h})
  BY ImageIsFinite DEF IsTrace
<1>6. Items(t) = {g[id] : id \in DOMAIN g} \cup {h[r] : r \in DOMAIN h}
  BY DEF Items
<1> DEFINE A == {g[id] : id \in DOMAIN g}
           B == {h[r] : r \in DOMAIN h}
<1>7. IsFiniteSet(Items(t))
  <2>1. IsFiniteSet(A) /\ IsFiniteSet(B) /\ Items(t) = A \cup B
    BY <1>4, <1>5, <1>6
  <2> HIDE DEF A, B
  <2> QED BY <2>1, FS_Union
<1> QED BY <1>3, <1>7, FS_AddElement

\* An item is a message or a run of the trace.
LEMMA ItemKinds ==
    ASSUME NEW t, IsTrace(t)
    PROVE  /\ Root(t) \in Items(t) /\ NoItem \notin Items(t)
           /\ \A item \in Items(t) :
                \/ item[1] = "m" /\ item[2] \in Ids(t) /\ item = <<"m", item[2]>>
                \/ /\ item[1] = "r" /\ item = <<"r", item[2]>>
                   /\ \E r \in t.runs : r.id = item[2]
  BY DEF IsTrace, Items, Root, NoItem

\* One goes up to an item of the tree; only from the root there is nowhere to go.
LEMMA ParentKeyKind ==
    ASSUME NEW t, IsTrace(t)
    PROVE  /\ ParentKey(t, NoItem) = NoItem /\ ParentKey(t, Root(t)) = NoItem
           /\ \A item \in Items(t) \ {Root(t)} : ParentKey(t, item) \in Items(t)
<1> DEFINE orRoot(id) == IF id \in Ids(t) THEN <<"m", id>> ELSE Root(t)
<1>1. \A id : orRoot(id) \in Items(t)
  BY ItemKinds DEF Items
<1>2. ASSUME NEW item \in Items(t) \ {Root(t)} PROVE ParentKey(t, item) \in Items(t)
  <2>1. item \notin {Root(t), NoItem}
    BY ItemKinds
  <2>2. CASE item[1] = "r"
    <3>1. ParentKey(t, item) = orRoot(Anchor(t, CHOOSE r \in t.runs : r.id = item[2]))
      BY <2>1, <2>2 DEF ParentKey
    <3> HIDE DEF orRoot
    <3> QED BY <1>1, <3>1
  <2>3. CASE item[1] = "m"
    <3> DEFINE m == MessageOf(t, item[2])
    <3>1. ParentKey(t, item) = IF \E r \in t.runs : r.id = m.run THEN <<"r", m.run>>
                               ELSE IF m.parent = m.id THEN Root(t) ELSE orRoot(m.parent)
      BY <2>1, <2>3 DEF ParentKey
    <3>2. (\E r \in t.runs : r.id = m.run) => <<"r", m.run>> \in Items(t)
      BY DEF Items
    <3> HIDE DEF orRoot, m
    <3> QED BY <1>1, <3>1, <3>2, ItemKinds
  <2> QED BY <2>2, <2>3, ItemKinds
<1> QED BY <1>2 DEF ParentKey

\* Both ways up are functions on the items.
LEMMA UpwardTypes ==
    ASSUME NEW t, IsTrace(t)
    PROVE  /\ ParentKeys(t) \in [Items(t) \cup {NoItem} -> Items(t) \cup {NoItem}]
           /\ Attached(t) \in [Items(t) \cup {NoItem} -> Items(t) \cup {NoItem}]
           /\ Attach(t, NoItem) = NoItem /\ Attach(t, Root(t)) = NoItem
           /\ \A item \in Items(t) \ {Root(t)} : Attach(t, item) \in Items(t)
<1>1. \A item \in Items(t) \cup {NoItem} : ParentKey(t, item) \in Items(t) \cup {NoItem}
  BY ParentKeyKind
<1>2. \A item \in Items(t) \ {Root(t)} : Attach(t, item) \in Items(t)
  BY ParentKeyKind, ItemKinds DEF Attach
<1>3. Attach(t, NoItem) = NoItem /\ Attach(t, Root(t)) = NoItem
  BY DEF Attach
<1> QED BY <1>1, <1>2, <1>3 DEF ParentKeys, Attached

\* buildTree's guard suffices: whatever parents, triggers and runs a trace names, from
\* every item the way up ends at the root.
THEOREM TreesAreWhole ==
    ASSUME NEW t, IsTrace(t)
    PROVE  Whole(t)
<1> DEFINE X == Items(t) \cup {NoItem}
<1> SUFFICES ASSUME NEW item \in Items(t), Root(t) \notin Climb(Attached(t), item)
             PROVE  FALSE
  BY DEF Whole
<1> DEFINE S == Climb(Attached(t), item)
<1>1. /\ IsFiniteSet(X) /\ ParentKeys(t) \in [X -> X] /\ Attached(t) \in [X -> X]
      /\ \A y \in X : Attached(t)[y] = Attach(t, y) /\ ParentKeys(t)[y] = ParentKey(t, y)
  BY ItemsAreFinite, UpwardTypes DEF Attached, ParentKeys
<1>2. /\ S \subseteq X /\ item \in S
      /\ \A y \in S : Attached(t)[y] \in S
      /\ \A U : item \in U /\ (\A y \in U \cap X : Attached(t)[y] \in U) => S \subseteq U
  <2> HIDE DEF X
  <2> QED BY <1>1, ClimbIsClosure, item \in X DEF X
<1> HIDE DEF S
<1>3. NoItem \notin S
  <2>1. ASSUME NEW y \in (S \ {NoItem}) \cap X PROVE Attached(t)[y] \in S \ {NoItem}
    <3>1. y \in Items(t) \ {Root(t)}
      BY DEF S
    <3>2. Attach(t, y) \in Items(t)
      BY <3>1, UpwardTypes
    <3>3. Attached(t)[y] = Attach(t, y) /\ Attached(t)[y] \in S
      BY <1>1, <1>2
    <3> QED BY <3>2, <3>3, ItemKinds
  <2>2. item \in S \ {NoItem}
    BY <1>2, ItemKinds
  <2> QED BY <1>2, <2>1, <2>2
<1>4. \A y \in S : ParentKeys(t)[y] \in S /\ y \notin Climb(ParentKeys(t), ParentKeys(t)[y])
  BY <1>1, <1>2, <1>3 DEF Attach, Ancestors, S
<1> HIDE DEF X
<1>5. \E y \in S : y \in Climb(ParentKeys(t), ParentKeys(t)[y])
  BY <1>1, <1>2, <1>4, NextComesBack
<1> QED BY <1>4, <1>5

\* If every item but the root comes after what it hangs off, there are no circles.
LEMMA RankedIsAcyclic ==
    ASSUME NEW t, IsTrace(t), NEW rank \in [Items(t) -> Nat],
           \A item \in Items(t) \ {Root(t)} : rank[ParentKey(t, item)] < rank[item]
    PROVE  Acyclic(t)
<1> DEFINE X == Items(t) \cup {NoItem}
<1> SUFFICES ASSUME NEW item \in Items(t) \ {Root(t)}
             PROVE  item \notin Climb(ParentKeys(t), ParentKey(t, item))
  BY DEF Acyclic, Ancestors
<1> DEFINE Below == {y \in X : y = NoItem \/ rank[y] < rank[item]}
<1>1. IsFiniteSet(X) /\ ParentKeys(t) \in [X -> X] /\ \A y \in X : ParentKeys(t)[y] = ParentKey(t, y)
  BY ItemsAreFinite, UpwardTypes DEF ParentKeys
<1>2. ParentKey(t, item) \in Below /\ item \notin Below
  BY ParentKeyKind, ItemKinds
<1>3. \A y \in Below \cap X : ParentKeys(t)[y] \in Below
  <2> TAKE y \in Below \cap X
  <2>1. CASE y \in {NoItem, Root(t)}
    BY <1>1, <2>1, ParentKeyKind
  <2>2. CASE y \notin {NoItem, Root(t)}
    <3>1. y \in Items(t) \ {Root(t)} /\ rank[y] < rank[item]
      BY <2>2
    <3>2. ParentKey(t, y) \in Items(t) /\ rank[ParentKey(t, y)] < rank[y]
      BY <3>1, ParentKeyKind
    <3>3. rank[ParentKey(t, y)] \in Nat /\ rank[y] \in Nat /\ rank[item] \in Nat
      BY <3>1, <3>2
    <3>4. rank[ParentKey(t, y)] < rank[item]
      BY <3>1, <3>2, <3>3
    <3> QED BY <1>1, <3>1, <3>2, <3>4
  <2> QED BY <2>1, <2>2
<1>4. ParentKey(t, item) \in X
  BY <1>2
<1> HIDE DEF X, Below
<1>5. Climb(ParentKeys(t), ParentKey(t, item)) \subseteq Below
  BY <1>1, <1>2, <1>3, <1>4, ClimbIsClosure
<1> QED BY <1>2, <1>5

\* If every message has its own id, and comes after what it answers, replies are indented.
LEMMA OrderedIsIndented ==
    ASSUME NEW t, IsTrace(t), Ids(t) \subseteq Nat,
           \A m, n \in Elements(t.messages) : m.id = n.id => m = n,
           \A r, s \in t.runs : r.id = s.id => r = s,
           \A m \in Elements(t.messages) : m.parent \in Ids(t) /\ m.id # t.root => m.parent < m.id
    PROVE  Indented(t)
<1> DEFINE X == Ids(t) \cup {None}
           Up(id) == Climb(Parents(t), id)
<1>1. IsFiniteSet(X) /\ Parents(t) \in [X -> X]
  BY ItemsAreFinite DEF Parents
<1>2. \A id \in X : IsFiniteSet(Up(id) \ {None, t.root}) /\ MessageDepth(t, id) \in Nat
  <2> TAKE id \in X
  <2>1. Up(id) \in SUBSET X
    BY <1>1, ClimbIsClosure
  <2>2. Up(id) \ {None, t.root} \in SUBSET X
    BY <2>1
  <2> QED BY <1>1, <2>2, FS_Subset, FS_CardinalityType DEF MessageDepth
<1>3. \A m \in Elements(t.messages) : m.id \in Ids(t) /\ MessageOf(t, m.id) = m
  BY DEF Ids, MessageOf
<1>4. ASSUME NEW m \in Elements(t.messages), m.id # t.root, m.parent \in Ids(t)
      PROVE  MessageDepth(t, m.id) > MessageDepth(t, m.parent)
  <2> DEFINE Below == {y \in X : y = None \/ y < m.id}
  <2>1. m.id \in X /\ m.id # None /\ m.parent \in X /\ m.parent \in Nat /\ m.id \in Nat
    BY <1>3, <1>4 DEF IsTrace
  <2>2. Parents(t)[m.id] = m.parent
    BY <1>3, <1>4, <2>1 DEF Parents
  <2>3. m.parent \in Below /\ m.id \notin Below
    BY <1>4, <2>1
  <2>4. ASSUME NEW y \in Below \cap X PROVE Parents(t)[y] \in Below
    <3>1. CASE y \in {None, t.root} \/ MessageOf(t, y).parent \notin Ids(t)
      BY <3>1 DEF Parents
    <3>2. CASE y \notin {None, t.root} /\ MessageOf(t, y).parent \in Ids(t)
      <4>1. PICK n \in Elements(t.messages) : y = n.id
        BY <3>2 DEF Ids
      <4>2. MessageOf(t, y) = n
        BY <1>3, <4>1
      <4>3. n.parent \in Ids(t) /\ n.parent < y /\ y < m.id
        BY <3>2, <4>1, <4>2
      <4>4. Parents(t)[y] = n.parent
        BY <3>2, <4>2 DEF Parents
      <4>5. n.parent < m.id
        BY <2>1, <3>2, <4>3
      <4> QED BY <4>3, <4>4, <4>5
    <3> QED BY <3>1, <3>2
  <2> HIDE DEF X, Below
  <2>5. Up(m.parent) \subseteq Below
    BY <1>1, <2>1, <2>3, <2>4, ClimbIsClosure
  <2>6. Up(m.id) = {m.id} \cup Up(m.parent)
    BY <1>1, <2>1, <2>2, ClimbStep
  <2> DEFINE D == Up(m.parent) \ {None, t.root}
  <2>7. Up(m.id) \ {None, t.root} = D \cup {m.id} /\ m.id \notin D
    BY <1>4, <2>1, <2>3, <2>5, <2>6
  <2>8. IsFiniteSet(D) /\ MessageDepth(t, m.parent) = Cardinality(D)
    BY <1>2, <2>1 DEF MessageDepth
  <2>9. MessageDepth(t, m.id) = Cardinality(D \cup {m.id})
    BY <2>7 DEF MessageDepth
  <2> HIDE DEF D
  <2>10. MessageDepth(t, m.id) = MessageDepth(t, m.parent) + 1
    BY <2>7, <2>8, <2>9, FS_AddElement
  <2>11. MessageDepth(t, m.parent) \in Nat
    BY <1>2, <2>1
  <2> QED BY <2>10, <2>11
<1>5. ASSUME NEW r \in t.runs, Anchor(t, r) \in Ids(t)
      PROVE  ItemDepth(t, <<"r", r.id>>) > MessageDepth(t, Anchor(t, r))
  <2>1. (CHOOSE s \in t.runs : s.id = r.id) = r
    OBVIOUS
  <2>2. ItemDepth(t, <<"r", r.id>>) = MessageDepth(t, Anchor(t, r)) + 1
    BY <1>5, <2>1 DEF ItemDepth
  <2>3. MessageDepth(t, Anchor(t, r)) \in Nat
    BY <1>2, <1>5
  <2> QED BY <2>2, <2>3
<1> QED BY <1>4, <1>5 DEF Indented

(***************************************************************************)
(* The trace view                                                          *)
(***************************************************************************)
Chains == [trace : Shapes, live : BOOLEAN]

ViewTypes ==
    /\ chain \in Chains /\ chain.trace \in Shapes
    /\ view = [trace |-> view.trace, live |-> view.live, error |-> view.error, loading |-> view.loading]
    /\ view.trace \in Shapes \cup {NotShown}
    /\ effect \in 0 .. MaxRetries + 1 /\ tick \in {"flying", "waiting", "ended"}
    /\ cancelled \in Nat

\* What is shown has been sent; it is live as the effect remembers it, and then its
\* polling goes on.  A retry is offered while nothing is shown, so that it starts from
\* nothing; the first fetch is out until loading ends.
ViewInv ==
    /\ ViewTypes
    /\ cancelled <= MaxRetries
    /\ effect > 1 => cancelled <= effect - 2
    /\ effect = 1 => cancelled = 0 /\ (view.trace = NotShown /\ ~view.loading => tick # "flying")
    /\ view.trace = NotShown => ~view.live /\ ~wasLive
    /\ wasLive => view.live
    /\ effect # 0 /\ view.live => wasLive
    /\ tick = "waiting" => wasLive
    /\ wasLive /\ effect # 0 /\ view.error # "unknown" => tick # "ended"
    /\ view.error = "unknown" /\ effect # 0 => tick = "ended"

\* A trace view draws whatever it is sent whole, and watches what it shows as live.
THEOREM ViewIsWatchedAndWhole ==
    ASSUME TraceViewAssumption
    PROVE  ViewSpec => []TraceIsWatchedAndWhole
<1> USE DEF viewVars
<1>0. MaxRetries \in Nat \ {0} /\ (\A t \in Shapes : t # NotShown /\ Whole(t))
  <2>1. ASSUME NEW t \in Shapes PROVE IsTrace(t)
    BY DEF TraceViewAssumption
  <2>2. ASSUME NEW t \in Shapes PROVE t # NotShown
    BY <2>1 DEF IsTrace, Ids, Elements, NotShown
  <2> QED BY <2>1, <2>2, TreesAreWhole DEF TraceViewAssumption
<1>m. MaxRetries \in Nat /\ MaxRetries > 0
  BY <1>0
<1>1. ViewInit => ViewInv
  BY <1>m DEF ViewInit, NoTrace, Chains, ViewTypes, ViewInv
<1>2. ViewInv /\ [ViewNext]_viewVars => ViewInv'
  <2> SUFFICES ASSUME ViewInv, [ViewNext]_viewVars PROVE ViewInv'
    OBVIOUS
  <2> USE <1>m DEF ViewInv, ViewTypes
  <2>1. CASE ChainGrows
    BY <2>1 DEF ChainGrows, Chains
  <2>2. CASE AnswerOk
    BY <1>0, <2>2 DEF AnswerOk, Flying
  <2>3. CASE AnswerFails
    BY <2>3 DEF AnswerFails, Flying
  <2>4. CASE AnswerNotFound
    BY <2>4 DEF AnswerNotFound, Flying
  <2>5. CASE AnswerUnauthorized
    BY <2>5 DEF AnswerUnauthorized, Flying
  <2>6. CASE Timer
    BY <2>6 DEF Timer
  <2>7. CASE Retry
    BY <2>7 DEF Retry
  <2>8. CASE Unmount
    BY <2>8 DEF Unmount
  <2>9. CASE AnswerIgnored
    BY <2>9 DEF AnswerIgnored
  <2>10. CASE UNCHANGED viewVars
    BY <2>10
  <2> QED BY <2>1, <2>2, <2>3, <2>4, <2>5, <2>6, <2>7, <2>8, <2>9, <2>10 DEF ViewNext
<1>3. ViewInv => TraceIsWatchedAndWhole
  <2> SUFFICES ASSUME ViewInv PROVE TraceIsWatchedAndWhole
    OBVIOUS
  <2>1. ViewTypeOK
    BY <1>0 DEF ViewInv, ViewTypes, ViewTypeOK, Chains
  <2>2. TreeIsWhole
    BY <1>0 DEF ViewInv, ViewTypes, TreeIsWhole
  <2>3. LiveIsWatched
    BY DEF ViewInv, ViewTypes, LiveIsWatched
  <2> QED BY <2>1, <2>2, <2>3 DEF TraceIsWatchedAndWhole
<1> QED BY <1>1, <1>2, <1>3, PTL DEF ViewSpec

(***************************************************************************)
(* The conversation: its invariant, and why it keeps every chain whole     *)
(***************************************************************************)
Kinds == {"message", "system", "conflict"}
RunPlaces == Engaged \cup {"done"}
MessageRecords ==
    [id : Nat, chan : Channels, author : Agents \cup {User, System}, kind : Kinds, run : Nat,
     trace : Nat, parent : Nat, to : SUBSET Agents, asks : BOOLEAN]
RunRecords ==
    [agent : Agents, chan : Channels, reply : Channels, trace : Nat, trigger : Nat, at : RunPlaces,
     silent : BOOLEAN, seen : Nat, after : Nat, lost : Nat, tools : Nat]
TurnRecords == [agent : Agents, chan : Channels, msg : Nat, reply : Channels \cup {None}, by : Nat]
WakeRecords == [chan : Channels, msg : Nat, lost : Nat]

ConversationTypes ==
    /\ messages \in Seq(MessageRecords) /\ runs \in Seq(RunRecords) /\ turns \in Seq(TurnRecords)
    /\ pending \in [Agents -> Seq(WakeRecords)]
    /\ reads \in [Agents -> [Channels -> Nat]]

\* A message belongs to a chain that began before it, or begins one; what it answers was
\* said before it, and one that a run has said comes after the message that woke the run.
MessageFits(ms, rs, i) ==
    /\ ms[i].id = i
    /\ ms[i].trace \in 1 .. i /\ ms[ms[i].trace].trace = ms[i].trace
    /\ ms[i].parent \in 0 .. i - 1 /\ (ms[i].parent = None <=> ms[i].trace = i)
    /\ ms[i].kind = "conflict" => ms[i].run # None
    /\ ms[i].run # None =>
          /\ ms[i].run \in DOMAIN rs /\ ms[i].parent # None
          /\ rs[ms[i].run].trigger < i

\* The failure of a run is the last that it says.
FailureIsLast(ms, rs, i) ==
    ms[i].run # None /\ ms[i].kind = "system" =>
        /\ rs[ms[i].run].at # "running"
        /\ \A j \in DOMAIN ms : ms[j].run = ms[i].run /\ ms[j].kind = "message" => j < i

\* i is something that was said in channel c.
Heard(ms, c, i) == i \in DOMAIN ms /\ ms[i].kind = "message" /\ ms[i].chan = c

\* A run was woken by something said in its channel.  It is in the chain of that, or
\* has moved to a chain that it has posted in.
RunFits(ms, rs, r) ==
    /\ Heard(ms, rs[r].chan, rs[r].trigger)
    /\ rs[r].trace \in DOMAIN ms /\ ms[rs[r].trace].trace = rs[r].trace
    /\ \/ rs[r].trace = ms[rs[r].trigger].trace
       \/ \E j \in DOMAIN ms : ms[j].run = r /\ ms[j].kind = "message" /\ ms[j].trace = rs[r].trace

WakesFit(ms, wakes) ==
    /\ \A k \in DOMAIN wakes : Heard(ms, wakes[k].chan, wakes[k].msg)
    /\ \A j, k \in DOMAIN wakes : wakes[j].chan = wakes[k].chan => j = k

ConversationInv ==
    /\ ConversationTypes
    /\ \A i \in DOMAIN messages : MessageFits(messages, runs, i) /\ FailureIsLast(messages, runs, i)
    /\ \A r \in DOMAIN runs : RunFits(messages, runs, r)
    /\ \A k \in DOMAIN turns : Heard(messages, turns[k].chan, turns[k].msg)
    /\ \A a \in Agents : WakesFit(messages, pending[a])
    /\ \A a \in Agents, c \in Channels : reads[a][c] <= Len(messages)

\* Latest is the largest of a set of numbers.
LEMMA Largest ==
    ASSUME NEW n \in Nat, NEW S \in SUBSET (0 .. n), S # {}
    PROVE  Latest(S) \in S /\ \A j \in S : j <= Latest(S)
<1> DEFINE Over == {n - i : i \in S}
<1>1. Over \in SUBSET Nat /\ Over # {}
  <2>1. \A i \in S : i \in Nat /\ i <= n
    OBVIOUS
  <2>2. \A i \in S : n - i \in Nat
    BY <2>1
  <2> QED BY <2>2
<1>2. PICK k \in Over : \A m \in Over : k <= m
  BY <1>1, Least
<1>3. PICK i \in S : k = n - i
  BY <1>2
<1>4. \A j \in S : j <= i
  <2> TAKE j \in S
  <2>1. n - j \in Over
    OBVIOUS
  <2>2. n - i <= n - j
    BY <1>2, <1>3, <2>1
  <2> QED BY <2>2
<1> QED BY <1>4 DEF Latest

\* What the records of each kind hold.
LEMMA FieldTypes ==
    ASSUME ConversationInv
    PROVE  /\ \A i \in DOMAIN messages : /\ messages[i].kind \in Kinds /\ messages[i].run \in Nat
                                         /\ messages[i].trace \in Nat /\ messages[i].chan \in Channels
           /\ \A r \in DOMAIN runs : /\ runs[r].agent \in Agents /\ runs[r].chan \in Channels
                                     /\ runs[r].reply \in Channels /\ runs[r].trigger \in Nat
                                     /\ runs[r].trace \in Nat /\ runs[r].at \in RunPlaces
                                     /\ runs[r].lost \in Nat
           /\ \A k \in DOMAIN turns : /\ turns[k].agent \in Agents /\ turns[k].chan \in Channels
                                      /\ turns[k].reply \in Channels \cup {None} /\ turns[k].msg \in Nat
<1>1. \A i \in DOMAIN messages : messages[i] \in MessageRecords
  BY DEF ConversationInv, ConversationTypes
<1>2. \A r \in DOMAIN runs : runs[r] \in RunRecords
  BY DEF ConversationInv, ConversationTypes
<1>3. \A k \in DOMAIN turns : turns[k] \in TurnRecords
  BY DEF ConversationInv, ConversationTypes
<1> QED BY <1>1, <1>2, <1>3 DEF MessageRecords, RunRecords, TurnRecords

-----------------------------------------------------------------------------
\* The trace of a chain that starts at message i.
LEMMA TraceOfChain ==
    ASSUME ConversationAssumption, ConversationInv, NEW i \in DOMAIN messages, messages[i].trace = i
    PROVE  LET t == GetTrace(i)
           IN  /\ t.root = i
               /\ DOMAIN t.messages = {j \in DOMAIN messages : messages[j].trace = i /\ messages[j].kind # "conflict"}
               /\ \A j \in DOMAIN t.messages : t.messages[j] = messages[j]
               /\ t.runs = {[id |-> r, trigger |-> runs[r].trigger] : r \in RunsOf(i)}
               /\ Ids(t) = DOMAIN t.messages /\ i \in Ids(t)
               /\ IsTrace(t)
<1> DEFINE D == {j \in DOMAIN messages : messages[j].trace = i /\ messages[j].kind # "conflict"}
           t == GetTrace(i)
<1>1. /\ messages \in Seq(MessageRecords) /\ runs \in Seq(RunRecords) /\ None = 0
      /\ \A j \in DOMAIN messages : MessageFits(messages, runs, j)
  BY DEF ConversationInv, ConversationTypes, ConversationAssumption
<1>2. /\ t.root = i /\ t.messages = [j \in D |-> messages[j]]
      /\ t.runs = {[id |-> r, trigger |-> runs[r].trigger] : r \in RunsOf(i)}
  BY DEF GetTrace, Restrict
<1>3. i \in D
  BY <1>1 DEF MessageFits
<1>4. DOMAIN t.messages = D /\ \A j \in D : t.messages[j] = messages[j] /\ t.messages[j].id = j
  <2>1. \A j \in D : messages[j].id = j
    BY <1>1 DEF MessageFits
  <2> HIDE DEF t, D
  <2> QED BY <1>2, <2>1
<1> HIDE DEF t, D
<1>5. Ids(t) = D
  BY <1>4 DEF Ids, Elements
<1>6. D \subseteq 1 .. Len(messages) /\ IsFiniteSet(D)
  <2>1. D \subseteq 1 .. Len(messages) /\ Len(messages) \in Nat
    BY <1>1 DEF D
  <2>2. IsFiniteSet(1 .. Len(messages))
    BY <2>1, FS_Interval
  <2> QED BY <2>1, <2>2, FS_Subset
<1>7. IsFiniteSet(t.runs)
  <2>1. IsFiniteSet(RunsOf(i))
    <3>1. RunsOf(i) \subseteq 1 .. Len(runs) /\ Len(runs) \in Nat
      BY <1>1 DEF RunsOf
    <3>2. IsFiniteSet(1 .. Len(runs))
      BY <3>1, FS_Interval
    <3> QED BY <3>1, <3>2, FS_Subset
  <2> DEFINE g == [r \in RunsOf(i) |-> [id |-> r, trigger |-> runs[r].trigger]]
  <2>2. IsFiniteSet(DOMAIN g)
    BY <2>1
  <2>3. t.runs = {g[r] : r \in DOMAIN g}
    <3>1. DOMAIN g = RunsOf(i) /\ \A r \in RunsOf(i) : g[r] = [id |-> r, trigger |-> runs[r].trigger]
      OBVIOUS
    <3> HIDE DEF g
    <3>2. t.runs \subseteq {g[r] : r \in DOMAIN g}
      BY <1>2, <3>1
    <3>3. {g[r] : r \in DOMAIN g} \subseteq t.runs
      BY <1>2, <3>1
    <3> QED BY <3>2, <3>3
  <2> HIDE DEF g
  <2> QED BY <2>2, <2>3, ImageIsFinite
<1>8. IsTrace(t)
  <2>1. t.root \in Ids(t) /\ None \notin Ids(t)
    BY <1>1, <1>2, <1>3, <1>5, <1>6
  <2> QED BY <1>4, <1>6, <1>7, <2>1 DEF IsTrace
<1> QED BY <1>2, <1>3, <1>4, <1>5, <1>8 DEF t, D

\* A run comes after the message it hangs off, and before what it says; so that no item
\* of the tree hangs off itself.
LEMMA ChainsAreAcyclic ==
    ASSUME ConversationAssumption, ConversationInv, NEW i \in DOMAIN messages, messages[i].trace = i
    PROVE  Acyclic(GetTrace(i))
<1> DEFINE t == GetTrace(i)
           D == DOMAIN t.messages
           P(r) == {j \in D : messages[j].run = r /\ messages[j].kind = "message"}
           first(r) == CHOOSE f \in P(r) : \A j \in P(r) : f <= j
           height(item) == IF item[1] = "m" THEN 2 * item[2]
                           ELSE IF P(item[2]) # {} THEN 2 * first(item[2]) - 1
                           ELSE 2 * runs[item[2]].trigger + 1
           rank == [item \in Items(t) |-> height(item)]
<1>1. /\ messages \in Seq(MessageRecords) /\ runs \in Seq(RunRecords) /\ None = 0
      /\ \A j \in DOMAIN messages : MessageFits(messages, runs, j) /\ FailureIsLast(messages, runs, j)
      /\ \A r \in DOMAIN runs : RunFits(messages, runs, r)
  BY DEF ConversationInv, ConversationTypes, ConversationAssumption
<1>2. /\ t.root = i
      /\ D = {j \in DOMAIN messages : messages[j].trace = i /\ messages[j].kind # "conflict"}
      /\ \A j \in D : t.messages[j] = messages[j]
      /\ t.runs = {[id |-> r, trigger |-> runs[r].trigger] : r \in RunsOf(i)}
      /\ Ids(t) = D /\ i \in D
      /\ IsTrace(t)
  <2> HIDE DEF t
  <2> QED BY TraceOfChain DEF t
<1> HIDE DEF t
<1>3. \A r \in t.runs : /\ r.id \in DOMAIN runs /\ runs[r.id].trace = i /\ r.trigger = runs[r.id].trigger
  BY <1>2 DEF RunsOf
<1>4. \A r, s \in t.runs : r.id = s.id => r = s
  BY <1>2
<1>5. \A j \in D : /\ j \in Nat /\ i \in Nat /\ messages[j].id = j /\ i <= j /\ MessageOf(t, j) = messages[j]
                   /\ messages[j].parent \in 0 .. j - 1 /\ (messages[j].parent = 0 <=> j = i)
  <2> TAKE j \in D
  <2>1. j \in Nat /\ i \in Nat /\ messages[j].id = j /\ i <= j
    BY <1>1, <1>2 DEF MessageFits
  <2>2. MessageOf(t, j) = messages[j]
    <3>1. Elements(t.messages) = {messages[k] : k \in D}
      BY <1>2 DEF Elements
    <3>2. \A k \in D : messages[k].id = k
      BY <1>1, <1>2 DEF MessageFits
    <3> QED BY <3>1, <3>2 DEF MessageOf
  <2>3. messages[j].parent \in 0 .. j - 1 /\ (messages[j].parent = 0 <=> j = i)
    BY <1>1, <1>2 DEF MessageFits
  <2> QED BY <2>1, <2>2, <2>3
<1>6. ASSUME NEW r \in t.runs, P(r.id) # {}
      PROVE  /\ first(r.id) \in P(r.id) /\ \A j \in P(r.id) : first(r.id) <= j
             /\ first(r.id) # i
             /\ Anchor(t, r) = messages[first(r.id)].parent
  <2>1. P(r.id) \in SUBSET Nat
    BY <1>5
  <2>2. first(r.id) \in P(r.id) /\ \A j \in P(r.id) : first(r.id) <= j
    <3> HIDE DEF P
    <3> QED BY <1>6, <2>1, Least
  <2>3. Posts(t, r) = P(r.id)
    BY <1>2 DEF Posts
  <2> HIDE DEF P
  <2>4. FirstPost(t, r) = t.messages[first(r.id)]
    BY <2>3 DEF FirstPost
  <2>5. t.messages[first(r.id)] = messages[first(r.id)] /\ messages[first(r.id)].run = r.id /\ first(r.id) \in D
    BY <1>2, <2>2 DEF P
  <2> HIDE DEF first
  <2>6. messages[first(r.id)].parent # 0
    BY <1>1, <1>2, <1>3, <2>5 DEF MessageFits
  <2>7. first(r.id) # i
    BY <1>5, <2>5, <2>6
  <2>8. Anchor(t, r) = messages[first(r.id)].parent
    BY <1>1, <1>6, <2>3, <2>4, <2>5, <2>6 DEF Anchor
  <2> QED BY <2>2, <2>7, <2>8 DEF first
<1>7. ASSUME NEW r \in t.runs, P(r.id) = {}
      PROVE  Anchor(t, r) = runs[r.id].trigger /\ Anchor(t, r) \in D
  <2>1. Posts(t, r) = {}
    BY <1>2, <1>7 DEF Posts
  <2>2. Anchor(t, r) = runs[r.id].trigger
    BY <1>3, <2>1 DEF Anchor
  <2>3. messages[runs[r.id].trigger].trace = i
    BY <1>1, <1>2, <1>3, <1>7 DEF RunFits
  <2>4. runs[r.id].trigger \in D
    BY <1>1, <1>2, <1>3, <2>3 DEF RunFits, Heard
  <2> QED BY <2>2, <2>4
<1> HIDE DEF P, first
<1>8. rank \in [Items(t) -> Nat]
  <2> SUFFICES ASSUME NEW item \in Items(t) PROVE height(item) \in Nat
    OBVIOUS
  <2>1. CASE item[1] = "m"
    BY <1>2, <1>5, <2>1, ItemKinds
  <2>2. CASE item[1] = "r"
    <3>1. PICK r \in t.runs : r.id = item[2]
      BY <1>2, <2>2, ItemKinds
    <3>2. CASE P(r.id) # {}
      <4>1. first(r.id) \in D /\ first(r.id) \in Nat /\ first(r.id) >= 1
        BY <1>2, <1>5, <1>6, <3>2 DEF P
      <4> QED BY <2>2, <3>1, <3>2, <4>1
    <3>3. CASE P(r.id) = {}
      BY <1>5, <1>7, <2>2, <3>1, <3>3
    <3> QED BY <3>2, <3>3
  <2> QED BY <1>2, <2>1, <2>2, ItemKinds
<1>9. ASSUME NEW item \in Items(t) \ {Root(t)} PROVE rank[ParentKey(t, item)] < rank[item]
  <2> DEFINE orRoot(id) == IF id \in Ids(t) THEN <<"m", id>> ELSE Root(t)
  <2>1. item \notin {Root(t), NoItem} /\ ParentKey(t, item) \in Items(t)
    BY <1>2, ItemKinds, ParentKeyKind
  <2>2. Root(t) \in Items(t) /\ height(Root(t)) = 2 * i /\ Root(t)[2] = i
    BY <1>2, ItemKinds DEF Root
  <2>3. SUFFICES height(ParentKey(t, item)) < height(item)
    BY <2>1
  <2> HIDE DEF rank
  <2>4. CASE item[1] = "r"
    <3>1. PICK r \in t.runs : r.id = item[2]
      BY <1>2, <2>4, ItemKinds
    <3>2. (CHOOSE s \in t.runs : s.id = item[2]) = r
      BY <1>4, <3>1
    <3>3. ParentKey(t, item) = orRoot(Anchor(t, r))
      <4>1. ParentKey(t, item) = orRoot(Anchor(t, CHOOSE s \in t.runs : s.id = item[2]))
        BY <2>1, <2>4 DEF ParentKey
      <4> HIDE DEF orRoot
      <4> QED BY <3>2, <4>1
    <3>4. CASE P(r.id) # {}
      <4>1. /\ first(r.id) \in D /\ first(r.id) # i
            /\ Anchor(t, r) = messages[first(r.id)].parent
        BY <1>6, <3>4 DEF P
      <4>2. height(item) = 2 * first(r.id) - 1
        BY <2>4, <3>1, <3>4
      <4>3. /\ i < first(r.id) /\ i \in Nat /\ first(r.id) \in Nat
            /\ Anchor(t, r) < first(r.id) /\ Anchor(t, r) \in Nat
        BY <1>5, <4>1
      <4>4. CASE Anchor(t, r) \in D
        <5>1. height(ParentKey(t, item)) = 2 * Anchor(t, r)
          BY <1>2, <3>3, <4>4
        <5> QED BY <4>2, <4>3, <5>1
      <4>5. CASE Anchor(t, r) \notin D
        <5>1. height(ParentKey(t, item)) = 2 * i
          BY <1>2, <2>2, <3>3, <4>5
        <5> QED BY <4>2, <4>3, <5>1
      <4> QED BY <4>4, <4>5
    <3>5. CASE P(r.id) = {}
      <4>1. Anchor(t, r) = runs[r.id].trigger /\ Anchor(t, r) \in D /\ Anchor(t, r) \in Nat
        BY <1>5, <1>7, <3>5
      <4>2. height(item) = 2 * Anchor(t, r) + 1
        BY <2>4, <3>1, <3>5, <4>1
      <4>3. height(ParentKey(t, item)) = 2 * Anchor(t, r)
        BY <1>2, <3>3, <4>1
      <4> QED BY <4>1, <4>2, <4>3
    <3> QED BY <3>4, <3>5
  <2>5. CASE item[1] = "m"
    <3> DEFINE j == item[2]
               m == messages[j]
    <3>1. j \in D /\ item = <<"m", j>> /\ j # i
      BY <1>2, <2>1, <2>5, ItemKinds DEF Root
    <3>2. /\ i \in Nat /\ j \in Nat /\ i < j /\ MessageOf(t, j) = m /\ m.id = j
          /\ m.parent \in Nat /\ m.parent < j
      BY <1>5, <3>1
    <3>3. height(item) = 2 * j
      BY <2>5
    <3>4. ParentKey(t, item) = IF \E r \in t.runs : r.id = m.run THEN <<"r", m.run>>
                               ELSE IF m.parent = m.id THEN Root(t) ELSE orRoot(m.parent)
      BY <2>1, <2>5, <3>2 DEF ParentKey
    <3> HIDE DEF j, m
    <3>5. CASE \E r \in t.runs : r.id = m.run
      <4>1. PICK r \in t.runs : r.id = m.run
        BY <3>5
      <4>2. ParentKey(t, item) = <<"r", m.run>>
        BY <3>4, <3>5
      <4>3. /\ m.run \in DOMAIN runs /\ m.run # 0 /\ m.run = r.id
            /\ runs[m.run].trigger < j
            /\ m.kind = "system" => \A k \in P(m.run) : k < j
        BY <1>1, <1>2, <1>3, <3>1, <4>1 DEF MessageFits, FailureIsLast, j, m, P
      <4>4. m.kind \in {"message", "system"}
        <5>1. m.kind \in Kinds
          BY <1>1, <1>2, <3>1, FieldTypes DEF m
        <5>2. m.kind # "conflict"
          BY <1>2, <3>1 DEF m
        <5> QED BY <5>1, <5>2 DEF Kinds
      <4>5. CASE P(m.run) # {}
        <5>1. first(m.run) \in P(m.run) /\ first(m.run) \in Nat
          BY <1>5, <1>6, <4>3, <4>5 DEF P
        <5>2. first(m.run) <= j
          <6>1. CASE m.kind = "message"
            <7>1. j \in P(m.run)
              BY <3>1, <6>1 DEF P, m
            <7> QED BY <1>6, <4>3, <4>5, <7>1
          <6>2. CASE m.kind = "system"
            <7>1. first(m.run) < j
              BY <4>3, <5>1, <6>2
            <7> QED BY <3>2, <5>1, <7>1
          <6> QED BY <4>4, <6>1, <6>2
        <5>3. height(ParentKey(t, item)) = 2 * first(m.run) - 1
          BY <4>2, <4>5
        <5> QED BY <3>2, <3>3, <5>1, <5>2, <5>3
      <4>6. CASE P(m.run) = {}
        <5>1. height(ParentKey(t, item)) = 2 * runs[m.run].trigger + 1
          BY <4>2, <4>6
        <5>2. runs[m.run].trigger \in Nat
          BY <1>1, <4>3, FieldTypes
        <5> QED BY <3>2, <3>3, <4>3, <5>1, <5>2
      <4> QED BY <4>5, <4>6
    <3>6. CASE ~ \E r \in t.runs : r.id = m.run
      <4>1. ParentKey(t, item) = Root(t) \/ ParentKey(t, item) = <<"m", m.parent>>
        BY <3>4, <3>6
      <4>2. height(ParentKey(t, item)) = 2 * i \/ height(ParentKey(t, item)) = 2 * m.parent
        BY <2>2, <4>1
      <4> QED BY <3>2, <3>3, <4>2
    <3> QED BY <3>5, <3>6
  <2> QED BY <1>2, <2>4, <2>5, ItemKinds
<1> HIDE DEF rank
<1> QED BY <1>2, <1>8, <1>9, RankedIsAcyclic DEF t

\* Every reply comes after what it answers.
LEMMA ChainsAreIndented ==
    ASSUME ConversationAssumption, ConversationInv, NEW i \in DOMAIN messages, messages[i].trace = i
    PROVE  Indented(GetTrace(i))
<1> DEFINE t == GetTrace(i)
           D == DOMAIN t.messages
<1>1. /\ messages \in Seq(MessageRecords) /\ None = 0
      /\ \A j \in DOMAIN messages : MessageFits(messages, runs, j)
  BY DEF ConversationInv, ConversationTypes, ConversationAssumption
<1>2. /\ D \subseteq DOMAIN messages
      /\ \A j \in D : t.messages[j] = messages[j]
      /\ t.runs = {[id |-> r, trigger |-> runs[r].trigger] : r \in RunsOf(i)}
      /\ Ids(t) = D
      /\ IsTrace(t)
  <2> HIDE DEF t
  <2> QED BY TraceOfChain DEF t
<1> HIDE DEF t
<1>3. Ids(t) \subseteq Nat
  BY <1>1, <1>2
<1>4. Elements(t.messages) = {messages[j] : j \in D}
  BY <1>2 DEF Elements
<1>5. \A j \in D : messages[j].id = j /\ messages[j].parent < j
  BY <1>1, <1>2 DEF MessageFits
<1>6. \A r, s \in t.runs : r.id = s.id => r = s
  BY <1>2
<1>7. \A m, n \in Elements(t.messages) : m.id = n.id => m = n
  BY <1>4, <1>5
<1>8. \A m \in Elements(t.messages) : m.parent \in Ids(t) /\ m.id # t.root => m.parent < m.id
  BY <1>4, <1>5
<1> QED BY <1>2, <1>3, <1>6, <1>7, <1>8, OrderedIsIndented DEF t

\* The invariant keeps every chain whole.
LEMMA InvariantIsWhole ==
    ASSUME ConversationAssumption, ConversationInv
    PROVE  ChainsWhole
<1>0. /\ messages \in Seq(MessageRecords) /\ runs \in Seq(RunRecords) /\ turns \in Seq(TurnRecords) /\ None = 0
      /\ \A j \in DOMAIN messages : MessageFits(messages, runs, j)
  BY DEF ConversationInv, ConversationTypes, ConversationAssumption
<1>1. TypeOK
  <2>1. \A r \in DOMAIN runs : runs[r].trigger \in DOMAIN messages /\ runs[r].agent \in Agents
    BY FieldTypes DEF ConversationInv, RunFits, Heard
  <2>2. ASSUME NEW a \in Agents, NEW c \in Channels
        PROVE  Cardinality({k \in DOMAIN pending[a] : pending[a][k].chan = c}) <= 1
    <3> DEFINE K == {k \in DOMAIN pending[a] : pending[a][k].chan = c}
    <3>1. \A j, k \in K : j = k
      BY DEF ConversationInv, WakesFit
    <3>2. K = {} \/ \E k \in K : K = {k}
      BY <3>1
    <3> HIDE DEF K
    <3>3. Cardinality(K) \in {0, 1}
      BY <3>2, FS_EmptySet, FS_Singleton
    <3> QED BY <3>3 DEF K
  <2>3. \A a \in Agents : DOMAIN reads[a] = Channels
    <3>1. reads \in [Agents -> [Channels -> Nat]]
      BY DEF ConversationInv, ConversationTypes
    <3> QED BY <3>1
  <2> QED BY <1>0, <2>1, <2>2, <2>3 DEF ConversationInv, TypeOK, Heard, MessageFits
<1>2. Rooted
  BY <1>0 DEF MessageFits, Rooted
<1>3. TreesWhole
  BY ChainsAreAcyclic DEF TreesWhole
<1>4. RepliesIndented
  BY ChainsAreIndented DEF RepliesIndented
<1> QED BY <1>1, <1>2, <1>3, <1>4 DEF ChainsWhole

(***************************************************************************)
(* What a step of the conversation has to show                             *)
(***************************************************************************)
\* Messages are only added, and runs keep what woke them; one that has ended does not
\* run again.
Extends(ms, ns) == Len(ms) <= Len(ns) /\ \A i \in DOMAIN ms : ns[i] = ms[i]
GoOn(rs, ss) ==
    /\ Len(rs) <= Len(ss)
    /\ \A r \in DOMAIN rs : /\ ss[r].trigger = rs[r].trigger /\ ss[r].chan = rs[r].chan
                            /\ ss[r].at = "running" => rs[r].at = "running"

\* What a message must be to be said next.
Fitting(ms, rs, m) ==
    /\ m \in MessageRecords /\ m.id = Len(ms) + 1
    /\ \/ m.parent = None /\ m.trace = m.id
       \/ m.parent \in DOMAIN ms /\ m.trace \in DOMAIN ms /\ ms[m.trace].trace = m.trace
    /\ m.kind = "conflict" => m.run # None
    /\ m.run # None => m.run \in DOMAIN rs /\ m.parent # None
    /\ m.kind = "message" /\ m.run # None => rs[m.run].at = "running"

\* What was said stays said.
LEMMA HeardStays ==
    ASSUME NEW ms \in Seq(MessageRecords), NEW ns \in Seq(MessageRecords), Extends(ms, ns),
           NEW c, NEW i, Heard(ms, c, i)
    PROVE  Heard(ns, c, i)
  BY DEF Heard, Extends

\* A run that moves to no other chain still fits.
LEMMA RunStaysFit ==
    ASSUME NEW ms \in Seq(MessageRecords), NEW ns \in Seq(MessageRecords), Extends(ms, ns),
           NEW rs, NEW ss, NEW r, RunFits(ms, rs, r),
           ss[r].trigger = rs[r].trigger, ss[r].chan = rs[r].chan, ss[r].trace = rs[r].trace
    PROVE  RunFits(ns, ss, r)
<1>1. \A i \in DOMAIN ms : i \in DOMAIN ns /\ ns[i] = ms[i]
  BY DEF Extends
<1>2. Heard(ns, rs[r].chan, rs[r].trigger)
  BY HeardStays DEF RunFits
<1> QED BY <1>1, <1>2 DEF RunFits, Heard

\* A message that has been said fits whatever comes after it.
LEMMA MessageStaysFit ==
    ASSUME NEW ms \in Seq(MessageRecords), NEW ns \in Seq(MessageRecords), Extends(ms, ns),
           NEW rs \in Seq(RunRecords), NEW ss \in Seq(RunRecords), GoOn(rs, ss),
           NEW i \in DOMAIN ms, MessageFits(ms, rs, i), FailureIsLast(ms, rs, i),
           \A j \in DOMAIN ns \ DOMAIN ms :
               ns[j].kind = "message" /\ ns[j].run # None => ns[j].run \notin DOMAIN rs \/ rs[ns[j].run].at = "running"
    PROVE  MessageFits(ns, ss, i) /\ FailureIsLast(ns, ss, i)
<1>1. \A j \in DOMAIN ms : j \in DOMAIN ns /\ ns[j] = ms[j]
  BY DEF Extends
<1>2. MessageFits(ns, ss, i)
  <2>1. ms[i].trace \in DOMAIN ms
    BY DEF MessageFits
  <2>2. ms[i].run # None => /\ ms[i].run \in DOMAIN rs /\ ms[i].run \in DOMAIN ss
                            /\ ss[ms[i].run].trigger = rs[ms[i].run].trigger
    BY DEF MessageFits, GoOn
  <2> QED BY <1>1, <2>1, <2>2 DEF MessageFits
<1>3. FailureIsLast(ns, ss, i)
  <2> SUFFICES ASSUME ms[i].run # None, ms[i].kind = "system"
               PROVE  /\ ss[ms[i].run].at # "running"
                      /\ \A j \in DOMAIN ns : ns[j].run = ms[i].run /\ ns[j].kind = "message" => j < i
    BY <1>1 DEF FailureIsLast
  <2>1. ms[i].run \in DOMAIN rs /\ rs[ms[i].run].at # "running"
    BY DEF MessageFits, FailureIsLast
  <2>2. \A j \in DOMAIN ms : ms[j].run = ms[i].run /\ ms[j].kind = "message" => j < i
    BY DEF FailureIsLast
  <2> QED BY <1>1, <2>1, <2>2 DEF GoOn
<1> QED BY <1>2, <1>3

\* Messages have been added, and those fit.
NewMessagesFit ==
    /\ Extends(messages, messages')
    /\ \A i \in DOMAIN messages' \ DOMAIN messages :
          /\ MessageFits(messages', runs', i) /\ FailureIsLast(messages', runs', i)
          /\ messages'[i].kind = "message" /\ messages'[i].run # None =>
                messages'[i].run \notin DOMAIN runs \/ runs[messages'[i].run].at = "running"

\* A turn was there before, or is about something heard.
NewTurnsFit ==
    \A k \in DOMAIN turns' : \/ \E j \in DOMAIN turns : turns'[k] = turns[j]
                             \/ Heard(messages', turns'[k].chan, turns'[k].msg)

\* Where nothing is said, nothing new has to fit.
LEMMA NothingSaid ==
    ASSUME UNCHANGED messages
    PROVE  NewMessagesFit
  BY DEF NewMessagesFit, Extends

\* What a step has to show.
LEMMA StepKeepsInvariant ==
    ASSUME ConversationAssumption, ConversationInv, ConversationTypes',
           NewMessagesFit, GoOn(runs, runs'),
           \A r \in DOMAIN runs' : \/ r \in DOMAIN runs /\ runs'[r].trace = runs[r].trace
                                   \/ RunFits(messages', runs', r),
           NewTurnsFit,
           \A a \in Agents : pending'[a] = pending[a] \/ WakesFit(messages', pending'[a]),
           \A a \in Agents, c \in Channels : reads'[a][c] = reads[a][c] \/ reads'[a][c] <= Len(messages')
    PROVE  ConversationInv'
<1>1. /\ messages \in Seq(MessageRecords) /\ messages' \in Seq(MessageRecords)
      /\ runs \in Seq(RunRecords) /\ runs' \in Seq(RunRecords)
      /\ reads \in [Agents -> [Channels -> Nat]] /\ reads' \in [Agents -> [Channels -> Nat]]
      /\ Extends(messages, messages')
  BY DEF ConversationInv, ConversationTypes, NewMessagesFit
<1>2. ASSUME NEW i \in DOMAIN messages' PROVE MessageFits(messages', runs', i) /\ FailureIsLast(messages', runs', i)
  <2>1. CASE i \in DOMAIN messages
    <3>1. MessageFits(messages, runs, i) /\ FailureIsLast(messages, runs, i)
      BY <2>1 DEF ConversationInv
    <3> QED BY <1>1, <2>1, <3>1, MessageStaysFit DEF NewMessagesFit
  <2> QED BY <2>1 DEF NewMessagesFit
<1>3. ASSUME NEW r \in DOMAIN runs' PROVE RunFits(messages', runs', r)
  <2>1. CASE r \in DOMAIN runs /\ runs'[r].trace = runs[r].trace
    <3>1. RunFits(messages, runs, r)
      BY <2>1 DEF ConversationInv
    <3>2. runs'[r].trigger = runs[r].trigger /\ runs'[r].chan = runs[r].chan
      BY <2>1 DEF GoOn
    <3> QED BY <1>1, <2>1, <3>1, <3>2, RunStaysFit
  <2> QED BY <2>1
<1>4. ASSUME NEW k \in DOMAIN turns' PROVE Heard(messages', turns'[k].chan, turns'[k].msg)
  <2>1. CASE \E j \in DOMAIN turns : turns'[k] = turns[j]
    <3>1. PICK j \in DOMAIN turns : turns'[k] = turns[j]
      BY <2>1
    <3>2. Heard(messages, turns[j].chan, turns[j].msg)
      BY DEF ConversationInv
    <3> QED BY <1>1, <3>1, <3>2, HeardStays
  <2> QED BY <2>1 DEF NewTurnsFit
<1>5. ASSUME NEW a \in Agents PROVE WakesFit(messages', pending'[a])
  <2>1. CASE pending'[a] = pending[a]
    <3>1. WakesFit(messages, pending[a])
      BY DEF ConversationInv
    <3> QED BY <1>1, <2>1, <3>1, HeardStays DEF WakesFit
  <2> QED BY <2>1
<1>6. ASSUME NEW a \in Agents, NEW c \in Channels PROVE reads'[a][c] <= Len(messages')
  <2>1. reads[a][c] <= Len(messages) /\ Len(messages) <= Len(messages')
    BY <1>1 DEF ConversationInv, Extends
  <2>2. reads[a][c] \in Nat /\ Len(messages) \in Nat /\ Len(messages') \in Nat
    BY <1>1
  <2> QED BY <2>1, <2>2
<1> QED BY <1>2, <1>3, <1>4, <1>5, <1>6 DEF ConversationInv

\* SetToSeq lists a finite set.
LEMMA Listed ==
    ASSUME NEW S, IsFiniteSet(S)
    PROVE  SetToSeq(S) \in Seq(S)
<1>1. Cardinality(S) \in Nat /\ ExistsBijection(1 .. Cardinality(S), S)
  BY FS_CardinalityType
<1>2. PICK f \in [1 .. Cardinality(S) -> S] : \A i, j \in DOMAIN f : f[i] = f[j] => i = j
  BY <1>1 DEF ExistsBijection, Bijection, Injection, IsInjective
<1>3. \E g \in [1 .. Cardinality(S) -> S] : IsInjective(g)
  BY <1>2 DEF IsInjective
<1>4. SetToSeq(S) \in [1 .. Cardinality(S) -> S]
  BY <1>3 DEF SetToSeq
<1> QED BY <1>1, <1>4

\* What is left after a removal was there before.
LEMMA Removed ==
    ASSUME NEW S, NEW s \in Seq(S), NEW i \in DOMAIN s
    PROVE  /\ RemoveAt(s, i) \in Seq(S)
           /\ \A j \in DOMAIN RemoveAt(s, i) : \E k \in DOMAIN s : RemoveAt(s, i)[j] = s[k]
<1> DEFINE T == {s[k] : k \in DOMAIN s}
<1>1. /\ s \in Seq(T) /\ T \subseteq S /\ i \in 1 .. Len(s) /\ Len(s) \in Nat
  BY DEF T
<1> HIDE DEF T
<1>2. SubSeq(s, 1, i - 1) \in Seq(T)
  BY <1>1, SubSeqProperties
<1>3. SubSeq(s, i + 1, Len(s)) \in Seq(T)
  BY <1>1, SubSeqProperties
<1>4. RemoveAt(s, i) \in Seq(T)
  BY <1>2, <1>3, ConcatProperties DEF RemoveAt
<1>5. \A j \in DOMAIN RemoveAt(s, i) : RemoveAt(s, i)[j] \in T
  BY <1>4
<1>6. RemoveAt(s, i) \in Seq(S)
  BY <1>1, <1>4, SeqMonotonic
<1> QED BY <1>5, <1>6 DEF T

\* A message that fits, and has been said, fits.
LEMMA SaidFits ==
    ASSUME NEW ms \in Seq(MessageRecords), NEW ns \in Seq(MessageRecords), Extends(ms, ns),
           NEW rs \in Seq(RunRecords), NEW ss \in Seq(RunRecords), GoOn(rs, ss),
           \A r \in DOMAIN rs : rs[r].trigger \in DOMAIN ms, None = 0,
           NEW m, Fitting(ms, rs, m), Len(ns) > Len(ms), ns[Len(ms) + 1] = m
    PROVE  MessageFits(ns, ss, Len(ms) + 1)
<1> DEFINE i == Len(ms) + 1
<1>1. i \in Nat /\ Len(ms) \in Nat /\ ns[i] = m /\ m.id = i /\ i \in DOMAIN ns
  BY DEF Fitting
<1>2. \A j \in DOMAIN ms : j \in 1 .. i - 1 /\ ns[j] = ms[j]
  BY <1>1 DEF Extends
<1>3. m.trace \in 1 .. i /\ ns[m.trace].trace = m.trace
  BY <1>1, <1>2 DEF Fitting
<1>4. m.parent \in 0 .. i - 1 /\ (m.parent = None <=> m.trace = i)
  BY <1>1, <1>2 DEF Fitting
<1>5. m.run # None => m.run \in DOMAIN ss /\ m.parent # None /\ ss[m.run].trigger < i
  <2>1. m.run # None => m.run \in DOMAIN rs /\ m.parent # None
    BY DEF Fitting
  <2>2. m.run # None => m.run \in DOMAIN ss /\ ss[m.run].trigger = rs[m.run].trigger
    BY <2>1 DEF GoOn
  <2> QED BY <1>2, <2>1, <2>2
<1>6. m.kind = "conflict" => m.run # None
  BY DEF Fitting
<1> QED BY <1>1, <1>3, <1>4, <1>5, <1>6 DEF MessageFits

\* The newest thing said in a channel.
LEMMA NewestIsHeard ==
    ASSUME ConversationInv, NEW c, NEW i, Heard(messages, c, i)
    PROVE  Heard(messages, c, Newest(c)) /\ i <= Newest(c)
<1> DEFINE S == {j \in In(messages, c) : StateBearing(j)}
<1>1. messages \in Seq(MessageRecords) /\ Len(messages) \in Nat
  BY DEF ConversationInv, ConversationTypes
<1>2. S \in SUBSET (0 .. Len(messages)) /\ i \in S
  BY <1>1 DEF In, StateBearing, Heard
<1> HIDE DEF S
<1>3. Latest(S) \in S /\ i <= Latest(S)
  BY <1>1, <1>2, Largest
<1> QED BY <1>3 DEF S, Newest, In, StateBearing, Heard

(***************************************************************************)
(* What is said, and whom it wakes                                         *)
(***************************************************************************)
\* Lineages: none, or that of something said before.
LineageFits(lineage) ==
    /\ lineage.parent \in DOMAIN messages /\ lineage.trace \in DOMAIN messages
    /\ messages[lineage.trace].trace = lineage.trace

\* The lineages that a run gives what it says are those of something said before.
LEMMA LineagesFit ==
    ASSUME ConversationAssumption, ConversationInv, NEW r \in DOMAIN runs
    PROVE  /\ LineageFits(TraceOfRun(r))
           /\ LineageFits(TraceAsStarted(r))
           /\ \A a, c : LineageFits(ReplyLineage(a, c, r))
<1>1. /\ messages \in Seq(MessageRecords) /\ Len(messages) \in Nat /\ None = 0
      /\ \A i \in DOMAIN messages : MessageFits(messages, runs, i)
      /\ RunFits(messages, runs, r)
  BY DEF ConversationAssumption, ConversationInv, ConversationTypes
<1>2. LineageFits(TraceOfRun(r))
  BY <1>1 DEF LineageFits, TraceOfRun, RunFits, Heard
<1>3. LineageFits(TraceAsStarted(r))
  <2>1. runs[r].trigger \in DOMAIN messages
    BY <1>1 DEF RunFits, Heard
  <2>2. MessageFits(messages, runs, runs[r].trigger)
    BY <1>1, <2>1
  <2>3. DOMAIN messages = 1 .. Len(messages)
    BY <1>1
  <2> DEFINE i == runs[r].trigger
  <2>4. messages[i].trace \in 1 .. i /\ messages[messages[i].trace].trace = messages[i].trace
    BY <2>2 DEF MessageFits
  <2>5. messages[i].trace \in DOMAIN messages
    BY <1>1, <2>1, <2>3, <2>4
  <2> QED BY <2>1, <2>4, <2>5 DEF LineageFits, TraceAsStarted, StartedTrace
<1>4. ASSUME NEW a, NEW c PROVE LineageFits(ReplyLineage(a, c, r))
  <2> DEFINE S == {i \in In(messages, c) :
                      /\ i <= reads[a][c]
                      /\ messages[i].author # a
                      /\ StateBearing(i)
                      /\ messages[i].trace = runs[r].trace \/ Addresses(c, a, i)}
  <2>1. S \in SUBSET (0 .. Len(messages)) /\ S \subseteq DOMAIN messages /\ 0 \notin S
    BY <1>1 DEF In
  <2> HIDE DEF S
  <2>2. CASE S = {}
    <3>1. LineageTarget(a, c, r) = 0
      BY <2>2 DEF LineageTarget, Latest, S
    <3> QED BY <1>2, <3>1 DEF ReplyLineage
  <2>3. CASE S # {}
    <3>1. Latest(S) \in S
      BY <1>1, <2>1, <2>3, Largest
    <3>2. LineageTarget(a, c, r) = Latest(S)
      BY DEF LineageTarget, S
    <3>3. LineageTarget(a, c, r) \in DOMAIN messages /\ LineageTarget(a, c, r) # 0
      BY <2>1, <3>1, <3>2
    <3>4. MessageFits(messages, runs, LineageTarget(a, c, r))
      BY <1>1, <3>3
    <3> DEFINE target == LineageTarget(a, c, r)
    <3> HIDE DEF target
    <3>5. /\ target \in DOMAIN messages /\ messages[target].trace \in DOMAIN messages
          /\ messages[messages[target].trace].trace = messages[target].trace
      BY <1>1, <3>3, <3>4 DEF MessageFits, target
    <3>6. ReplyLineage(a, c, r) = [trace |-> messages[target].trace, parent |-> target]
      BY <3>3 DEF ReplyLineage, target
    <3> QED BY <3>5, <3>6 DEF LineageFits
  <2> QED BY <2>2, <2>3
<1> QED BY <1>2, <1>3, <1>4

\* What is said with such a lineage fits.
LEMMA WhatIsSaidFits ==
    ASSUME ConversationAssumption, ConversationInv,
           NEW c \in Channels, NEW author \in Agents \cup {User, System}, NEW kind \in Kinds,
           NEW r, NEW lineage, NEW to \in SUBSET Agents, NEW asks \in BOOLEAN,
           \/ r = None /\ lineage = NoLineage
           \/ r \in {None} \cup DOMAIN runs /\ LineageFits(lineage),
           kind = "conflict" => r # None,
           kind = "message" /\ r # None => runs[r].at = "running"
    PROVE  Fitting(messages, runs, Said(c, author, kind, r, lineage, to, asks))
<1> DEFINE m == Said(c, author, kind, r, lineage, to, asks)
<1>1. /\ Len(messages) \in Nat /\ DOMAIN messages = 1 .. Len(messages) /\ None = 0
      /\ DOMAIN runs \subseteq Nat /\ 0 \notin DOMAIN runs
  BY DEF ConversationAssumption, ConversationInv, ConversationTypes
<1>2. /\ m.id = Len(messages) + 1 /\ m.kind = kind /\ m.run = r
      /\ m.parent = lineage.parent
      /\ m.trace = IF lineage.trace = None THEN Len(messages) + 1 ELSE lineage.trace
  BY DEF Said
<1>3. \/ m.parent = None /\ m.trace = m.id /\ m.run = None
      \/ /\ m.parent \in DOMAIN messages /\ m.trace \in DOMAIN messages /\ messages[m.trace].trace = m.trace
         /\ m.run \in {None} \cup DOMAIN runs
  <2>1. CASE r = None /\ lineage = NoLineage
    BY <1>2, <2>1 DEF NoLineage
  <2>2. CASE r \in {None} \cup DOMAIN runs /\ LineageFits(lineage)
    BY <1>1, <1>2, <2>2 DEF LineageFits
  <2> QED BY <2>1, <2>2
<1>4. m \in MessageRecords
  <2>1. m.run \in Nat /\ m.trace \in Nat /\ m.parent \in Nat /\ m.id \in Nat
    BY <1>1, <1>2, <1>3
  <2>2. m = [id |-> m.id, chan |-> c, author |-> author, kind |-> kind, run |-> m.run,
             trace |-> m.trace, parent |-> m.parent, to |-> to, asks |-> asks]
    BY DEF Said
  <2> HIDE DEF m
  <2> QED BY <2>1, <2>2 DEF MessageRecords
<1> HIDE DEF m
<1>5. m.parent # None \/ m.run = None
  BY <1>1, <1>3
<1> QED BY <1>1, <1>2, <1>3, <1>4, <1>5 DEF Fitting, m

\* Members and the asker are woken by the message, in its channel.
LEMMA WokenFit ==
    ASSUME ConversationAssumption, ConversationInv, NEW c \in Channels, NEW rs, NEW m, m.id \in Nat,
           m.run \in {None} \cup DOMAIN runs, m.parent \in {None} \cup DOMAIN messages
    PROVE  /\ Woken(c, m, rs) \in Seq(TurnRecords)
           /\ \A k \in DOMAIN Woken(c, m, rs) : Woken(c, m, rs)[k].chan = c /\ Woken(c, m, rs)[k].msg = m.id
<1> DEFINE q == Question(m)
           asker == IF q = None THEN None ELSE messages[q].author
           next == IF TurnTaking /\ m.author # User /\ c \notin Dms
                   THEN NextAfter(rs, ParticipantOrder(rs, c, m.trace), m.author) ELSE None
           addressed == {a \in Members[c] \cup (Agents \cap {asker}) :
                            a # m.author /\ (c \in Dms \/ a \in m.to \/ a \in {next, asker})}
           turn == [a \in addressed |-> Turn(a, c, m.id, IF a = asker THEN AskedIn(q) ELSE None, m.run)]
           S == {turn[a] : a \in DOMAIN turn}
<1>1. /\ None = 0 /\ None \notin Agents /\ IsFiniteSet(Agents) /\ Members \in [Channels -> SUBSET Agents]
      /\ DOMAIN messages \subseteq Nat /\ 0 \notin DOMAIN messages
      /\ DOMAIN runs \subseteq Nat
      /\ \A i \in DOMAIN messages : MessageFits(messages, runs, i)
      /\ \A r \in DOMAIN runs : RunFits(messages, runs, r)
  BY DEF ConversationAssumption, ConversationInv, ConversationTypes
<1>2. Woken(c, m, rs) = SetToSeq(S)
  BY DEF Woken
<1> HIDE DEF next
<1>3. addressed \in SUBSET Agents
  BY <1>1
<1>4. IsFiniteSet(addressed)
  BY <1>1, <1>3, FS_Subset
<1>5. q \in {None} \cup DOMAIN messages
  <2>1. m.run # None => runs[m.run].trigger \in DOMAIN messages
    BY <1>1 DEF RunFits, Heard
  <2> QED BY <2>1 DEF Question
<1>6. AskedIn(q) \in Channels \cup {None} \/ q = None
  <2>1. q # None => messages[q].run = None \/ messages[q].run \in DOMAIN runs
    BY <1>1, <1>5 DEF MessageFits
  <2>2. \A r \in DOMAIN runs : runs[r].reply \in Channels
    BY FieldTypes
  <2> HIDE DEF q
  <2> QED BY <2>1, <2>2 DEF AskedIn
<1> HIDE DEF q, addressed
<1>7. ASSUME NEW a \in addressed
      PROVE  turn[a] \in TurnRecords /\ turn[a].chan = c /\ turn[a].msg = m.id
  <2>1. a \in Agents /\ a # None
    BY <1>1, <1>3
  <2>2. (IF a = asker THEN AskedIn(q) ELSE None) \in Channels \cup {None}
    BY <1>6, <2>1
  <2> DEFINE reply == IF a = asker THEN AskedIn(q) ELSE None
  <2>3. turn[a] = [agent |-> a, chan |-> c, msg |-> m.id, reply |-> reply, by |-> m.run]
    BY DEF Turn
  <2>4. m.run \in Nat
    BY <1>1
  <2> HIDE DEF reply, turn
  <2> QED BY <2>1, <2>2, <2>3, <2>4 DEF TurnRecords, reply
<1>8. IsFiniteSet(S)
  <2>1. DOMAIN turn = addressed
    OBVIOUS
  <2> HIDE DEF turn
  <2> QED BY <1>4, <2>1, ImageIsFinite
<1>9. \A t \in S : t \in TurnRecords /\ t.chan = c /\ t.msg = m.id
  BY <1>7
<1> HIDE DEF S
<1>10. SetToSeq(S) \in Seq(S)
  BY <1>8, Listed
<1>11. SetToSeq(S) \in Seq(TurnRecords)
  <2>1. S \subseteq TurnRecords
    BY <1>9
  <2> QED BY <1>10, <2>1, SeqMonotonic
<1> QED BY <1>2, <1>9, <1>10, <1>11

\* A message that fits is appended: what is said then fits, too.
LEMMA AppendedFits ==
    ASSUME ConversationAssumption, ConversationInv, runs' \in Seq(RunRecords), GoOn(runs, runs'),
           NEW m, Fitting(messages, runs, m), messages' = Append(messages, m),
           m.run # None /\ m.kind = "system" =>
              /\ runs'[m.run].at # "running"
    PROVE  /\ messages' \in Seq(MessageRecords) /\ NewMessagesFit
<1>1. /\ messages \in Seq(MessageRecords) /\ Len(messages) \in Nat /\ None = 0 /\ runs \in Seq(RunRecords)
      /\ \A r \in DOMAIN runs : runs[r].trigger \in DOMAIN messages
  BY DEF ConversationAssumption, ConversationInv, ConversationTypes, RunFits, Heard
<1>2. /\ messages' \in Seq(MessageRecords) /\ Len(messages') = Len(messages) + 1
      /\ messages'[Len(messages) + 1] = m
      /\ \A i \in DOMAIN messages : messages'[i] = messages[i]
      /\ DOMAIN messages' \ DOMAIN messages = {Len(messages) + 1}
  BY <1>1 DEF Fitting
<1>3. Extends(messages, messages')
  BY <1>1, <1>2 DEF Extends
<1>4. MessageFits(messages', runs', Len(messages) + 1)
  <2>1. Len(messages') > Len(messages)
    BY <1>1, <1>2
  <2> DEFINE ms == messages
             ns == messages'
             rs == runs
             ss == runs'
  <2>2. /\ ms \in Seq(MessageRecords) /\ ns \in Seq(MessageRecords) /\ Extends(ms, ns)
        /\ rs \in Seq(RunRecords) /\ ss \in Seq(RunRecords) /\ GoOn(rs, ss)
        /\ (\A r \in DOMAIN rs : rs[r].trigger \in DOMAIN ms) /\ None = 0
        /\ Fitting(ms, rs, m) /\ Len(ns) > Len(ms) /\ ns[Len(ms) + 1] = m
    BY <1>1, <1>2, <1>3, <2>1
  <2>3. MessageFits(ns, ss, Len(ms) + 1)
    <3> HIDE DEF ms, ns, rs, ss
    <3> QED BY <2>2, SaidFits
  <2> QED BY <2>3
<1>5. FailureIsLast(messages', runs', Len(messages) + 1)
  <2>1. \A j \in DOMAIN messages : j < Len(messages) + 1
    BY <1>1
  <2>2. m.kind = "system" => m.kind # "message"
    OBVIOUS
  <2>3. \A j \in DOMAIN messages' : j \in DOMAIN messages \/ j = Len(messages) + 1
    BY <1>2
  <2> QED BY <1>2, <2>1, <2>2, <2>3 DEF FailureIsLast
<1>6. m.kind = "message" /\ m.run # None => runs[m.run].at = "running"
  BY DEF Fitting
<1> QED BY <1>2, <1>3, <1>4, <1>5, <1>6 DEF NewMessagesFit

\* The same of a message that wakes its channel, or pauses it.
LEMMA AppendAndWakeFits ==
    ASSUME ConversationAssumption, ConversationInv, runs' \in Seq(RunRecords), GoOn(runs, runs'),
           NEW c \in Channels, NEW rs, NEW m, Fitting(messages, runs, m), m.kind = "message", m.chan = c,
           AppendAndWake(c, m, rs)
    PROVE  /\ messages' \in Seq(MessageRecords) /\ NewMessagesFit
           /\ m.id = Len(messages) + 1 /\ m.id \in DOMAIN messages' /\ messages'[m.id] = m
           /\ turns' \in Seq(TurnRecords)
           /\ NewTurnsFit
<1> DEFINE n == Len(messages)
           p == PauseNotice(c, m)
<1>1. /\ messages \in Seq(MessageRecords) /\ n \in Nat /\ None = 0 /\ runs \in Seq(RunRecords)
      /\ turns \in Seq(TurnRecords)
      /\ \A r \in DOMAIN runs : runs[r].trigger \in DOMAIN messages
  BY DEF ConversationAssumption, ConversationInv, ConversationTypes, RunFits, Heard
<1>2. m \in MessageRecords /\ m.id = n + 1 /\ m.id \in Nat
  BY <1>1 DEF Fitting
<1>3. /\ p.id = n + 2 /\ p.trace = n + 2 /\ p.parent = None /\ p.run = None /\ p.kind = "system"
      /\ p \in MessageRecords
  <2>1. p = [id |-> n + 2, chan |-> c, author |-> System, kind |-> "system", run |-> 0,
             trace |-> n + 2, parent |-> 0, to |-> {}, asks |-> FALSE]
    BY <1>1, <1>2 DEF PauseNotice
  <2>2. n + 2 \in Nat
    BY <1>1
  <2> HIDE DEF p, n
  <2> QED BY <1>1, <2>1, <2>2 DEF MessageRecords, Kinds
<1> HIDE DEF p
<1>4. /\ messages' \in Seq(MessageRecords)
      /\ \A i \in DOMAIN messages : messages'[i] = messages[i]
      /\ messages'[n + 1] = m
      /\ Len(messages') = n + 1 \/ (Len(messages') = n + 2 /\ messages'[n + 2] = p)
  <2>1. \/ messages' = messages \o <<m, p>> \/ messages' = messages \o <<m>> \/ messages' = Append(messages, m)
    BY DEF AppendAndWake, p
  <2>2. CASE messages' = messages \o <<m, p>>
    <3>1. <<m, p>> \in Seq(MessageRecords) /\ Len(<<m, p>>) = 2 /\ <<m, p>>[1] = m /\ <<m, p>>[2] = p
      BY <1>2, <1>3
    <3> DEFINE s == <<m, p>>
    <3> HIDE DEF s
    <3>2. /\ messages \o s \in Seq(MessageRecords) /\ Len(messages \o s) = n + Len(s)
          /\ \A i \in 1 .. n + Len(s) : (messages \o s)[i] = IF i <= n THEN messages[i] ELSE s[i - n]
      BY <1>1, <3>1, ConcatProperties DEF s
    <3>3. messages' = messages \o s /\ Len(s) = 2 /\ s[1] = m /\ s[2] = p
      BY <2>2, <3>1 DEF s
    <3>4. DOMAIN messages = 1 .. n /\ (n + 1) - n = 1 /\ (n + 2) - n = 2
      BY <1>1
    <3> QED BY <1>1, <3>2, <3>3, <3>4
  <2>3. CASE messages' = messages \o <<m>>
    <3>1. messages' = Append(messages, m)
      BY <1>1, <1>2, <2>3, AppendIsConcat
    <3> QED BY <1>1, <1>2, <3>1
  <2>4. CASE messages' = Append(messages, m)
    BY <1>1, <1>2, <2>4
  <2> QED BY <2>1, <2>2, <2>3, <2>4
<1>5. /\ Len(messages') \in Nat /\ Len(messages') > n /\ DOMAIN messages' = 1 .. Len(messages')
      /\ DOMAIN messages = 1 .. n
      /\ n + 1 \in DOMAIN messages' /\ Extends(messages, messages')
      /\ \A i \in DOMAIN messages' \ DOMAIN messages : i = n + 1 \/ (i = n + 2 /\ messages'[i] = p)
  BY <1>1, <1>4 DEF Extends
<1>6. MessageFits(messages', runs', n + 1)
  <2> DEFINE ms == messages
             ns == messages'
             ss == runs'
             old == runs
  <2>1. /\ ms \in Seq(MessageRecords) /\ ns \in Seq(MessageRecords) /\ Extends(ms, ns)
        /\ old \in Seq(RunRecords) /\ ss \in Seq(RunRecords) /\ GoOn(old, ss)
        /\ (\A r \in DOMAIN old : old[r].trigger \in DOMAIN ms) /\ None = 0
        /\ Fitting(ms, old, m) /\ Len(ns) > Len(ms) /\ ns[Len(ms) + 1] = m
    BY <1>1, <1>4, <1>5
  <2>2. MessageFits(ns, ss, Len(ms) + 1)
    <3> HIDE DEF ms, ns, old, ss
    <3> QED BY <2>1, SaidFits
  <2> QED BY <2>2
<1>7. FailureIsLast(messages', runs', n + 1) /\ (m.run # None => runs[m.run].at = "running")
  BY <1>4 DEF FailureIsLast, Fitting
<1>8. ASSUME n + 2 \in DOMAIN messages', messages'[n + 2] = p
      PROVE  MessageFits(messages', runs', n + 2) /\ FailureIsLast(messages', runs', n + 2)
  <2>1. n + 2 \in 1 .. n + 2 /\ 0 \in 0 .. (n + 2) - 1
    BY <1>1
  <2> QED BY <1>1, <1>3, <1>8, <2>1 DEF MessageFits, FailureIsLast
<1>9. \A i \in DOMAIN messages' \ DOMAIN messages :
         /\ MessageFits(messages', runs', i) /\ FailureIsLast(messages', runs', i)
         /\ messages'[i].kind = "message" /\ messages'[i].run # None =>
               messages'[i].run \notin DOMAIN runs \/ runs[messages'[i].run].at = "running"
  BY <1>3, <1>4, <1>5, <1>6, <1>7, <1>8
<1>10. Heard(messages', c, m.id)
  BY <1>2, <1>4, <1>5 DEF Heard
<1>11. /\ turns' \in Seq(TurnRecords)
       /\ \A k \in DOMAIN turns' : \/ \E j \in DOMAIN turns : turns'[k] = turns[j]
                                   \/ turns'[k].chan = c /\ turns'[k].msg = m.id
  <2> DEFINE w == Woken(c, m, rs)
  <2>1. turns' = turns \/ turns' = turns \o w
    BY DEF AppendAndWake
  <2>2. m.run \in {None} \cup DOMAIN runs /\ m.parent \in {None} \cup DOMAIN messages
    BY DEF Fitting
  <2>3. w \in Seq(TurnRecords) /\ \A k \in DOMAIN w : w[k].chan = c /\ w[k].msg = m.id
    BY <1>2, <2>2, WokenFit
  <2> HIDE DEF w
  <2>4. /\ turns \o w \in Seq(TurnRecords)
        /\ Len(turns \o w) = Len(turns) + Len(w)
        /\ \A i \in 1 .. Len(turns) + Len(w) : (turns \o w)[i] = IF i <= Len(turns) THEN turns[i] ELSE w[i - Len(turns)]
    BY <1>1, <2>3, ConcatProperties
  <2>5. ASSUME NEW k \in DOMAIN (turns \o w)
        PROVE  \/ \E j \in DOMAIN turns : (turns \o w)[k] = turns[j]
               \/ \E j \in DOMAIN w : (turns \o w)[k] = w[j]
    <3>1. k \in 1 .. Len(turns) + Len(w) /\ Len(turns) \in Nat /\ Len(w) \in Nat
          /\ DOMAIN turns = 1 .. Len(turns) /\ DOMAIN w = 1 .. Len(w)
      BY <1>1, <2>3, <2>4
    <3>2. CASE k <= Len(turns)
      BY <2>4, <3>1, <3>2
    <3>3. CASE k > Len(turns)
      <4>1. k - Len(turns) \in DOMAIN w
        BY <3>1, <3>3
      <4> QED BY <2>4, <3>1, <3>3, <4>1
    <3> QED BY <3>1, <3>2, <3>3
  <2>6. CASE turns' = turns
    BY <1>1, <2>6
  <2>7. CASE turns' = turns \o w
    BY <2>3, <2>4, <2>5, <2>7
  <2> QED BY <2>1, <2>6, <2>7
<1> QED BY <1>2, <1>4, <1>5, <1>9, <1>10, <1>11 DEF NewMessagesFit, NewTurnsFit

(***************************************************************************)
(* Runs, reads and wakes                                                   *)
(***************************************************************************)
\* The latest of some messages is one of them, if there are any.
LEMMA LatestBound ==
    ASSUME ConversationInv, NEW S \in SUBSET DOMAIN messages
    PROVE  Latest(S) \in Nat /\ Latest(S) <= Len(messages) /\ (S # {} => Latest(S) \in S)
<1>1. Len(messages) \in Nat /\ S \in SUBSET (0 .. Len(messages))
  BY DEF ConversationInv, ConversationTypes
<1>2. CASE S = {}
  BY <1>1, <1>2 DEF Latest
<1>3. CASE S # {}
  <2>1. Latest(S) \in S
    BY <1>1, <1>3, Largest
  <2> QED BY <1>1, <2>1
<1> QED BY <1>2, <1>3

\* A run is changed.
LEMMA RunChanged ==
    ASSUME ConversationInv, NEW r \in DOMAIN runs, NEW x \in RunRecords, runs' = [runs EXCEPT ![r] = x],
           x.trigger = runs[r].trigger, x.chan = runs[r].chan, x.at = "running" => runs[r].at = "running"
    PROVE  /\ runs' \in Seq(RunRecords) /\ GoOn(runs, runs')
           /\ DOMAIN runs' = DOMAIN runs /\ runs'[r] = x
           /\ \A q \in DOMAIN runs : q # r => runs'[q] = runs[q]
<1>1. runs \in Seq(RunRecords) /\ Len(runs) \in Nat
  BY DEF ConversationInv, ConversationTypes
<1>2. runs' \in Seq(RunRecords) /\ Len(runs') = Len(runs) /\ DOMAIN runs' = DOMAIN runs
  BY <1>1, ExceptSeq
<1>3. runs'[r] = x /\ \A q \in DOMAIN runs : q # r => runs'[q] = runs[q]
  BY <1>1
<1> QED BY <1>1, <1>2, <1>3 DEF GoOn

\* A run is added.
LEMMA RunAdded ==
    ASSUME ConversationInv, NEW x \in RunRecords, NEW rs \in Seq(RunRecords), GoOn(runs, rs),
           DOMAIN rs = DOMAIN runs, runs' = Append(rs, x)
    PROVE  /\ runs' \in Seq(RunRecords) /\ GoOn(runs, runs')
           /\ \A q \in DOMAIN runs' : (q \in DOMAIN runs /\ runs'[q] = rs[q]) \/ runs'[q] = x
<1>1. runs \in Seq(RunRecords) /\ Len(runs) \in Nat /\ Len(rs) = Len(runs)
  BY DEF ConversationInv, ConversationTypes
<1>2. runs' \in Seq(RunRecords) /\ Len(runs') = Len(rs) + 1
      /\ (\A q \in DOMAIN rs : runs'[q] = rs[q]) /\ runs'[Len(rs) + 1] = x
  BY <1>1
<1>3. \A q \in DOMAIN runs' : (q \in DOMAIN runs /\ runs'[q] = rs[q]) \/ runs'[q] = x
  BY <1>1, <1>2
<1>4. GoOn(runs, runs')
  BY <1>1, <1>2 DEF GoOn
<1> QED BY <1>2, <1>3, <1>4

\* Wakes fit whatever is said after them.
LEMMA WakesStayFit ==
    ASSUME NEW ms \in Seq(MessageRecords), NEW ns \in Seq(MessageRecords), Extends(ms, ns),
           NEW wakes, WakesFit(ms, wakes)
    PROVE  WakesFit(ns, wakes)
  BY HeardStays DEF WakesFit

\* A wake that is deferred is one more, or takes the place of its channel's.
LEMMA Deferred ==
    ASSUME ConversationInv, NEW a \in Agents, NEW c \in Channels, NEW i, Heard(messages, c, i),
           NEW lost \in Nat, Defer(a, c, i, lost)
    PROVE  /\ pending' \in [Agents -> Seq(WakeRecords)]
           /\ \A b \in Agents : pending'[b] = pending[b] \/ WakesFit(messages, pending'[b])
<1> DEFINE w == pending[a]
           places == {k \in DOMAIN w : w[k].chan = c}
<1>1. /\ pending \in [Agents -> Seq(WakeRecords)] /\ w \in Seq(WakeRecords) /\ Len(w) \in Nat
      /\ WakesFit(messages, w) /\ i \in Nat
      /\ \A k \in DOMAIN w : w[k] \in WakeRecords
  BY DEF ConversationInv, ConversationTypes, Heard
<1>2. CASE places = {}
  <2> DEFINE x == [chan |-> c, msg |-> i, lost |-> lost]
             u == Append(w, x)
  <2>1. pending' = [pending EXCEPT ![a] = u]
    BY <1>2 DEF Defer
  <2>2. x \in WakeRecords /\ x.chan = c /\ x.msg = i
    BY <1>1 DEF WakeRecords
  <2> HIDE DEF x
  <2>3. u \in Seq(WakeRecords) /\ Len(u) = Len(w) + 1 /\ (\A k \in DOMAIN w : u[k] = w[k]) /\ u[Len(w) + 1] = x
    BY <1>1, <2>2
  <2>4. \A k \in DOMAIN u : k \in DOMAIN w \/ k = Len(w) + 1
    BY <1>1, <2>3
  <2> HIDE DEF u
  <2>5. WakesFit(messages, u)
    <3>1. \A k \in DOMAIN w : w[k].chan # c
      BY <1>2
    <3> HIDE DEF w
    <3> QED BY <1>1, <2>2, <2>3, <2>4, <3>1 DEF WakesFit
  <2> QED BY <1>1, <2>1, <2>3, <2>5
<1>3. CASE places # {}
  <2>1. PICK k \in places :
           pending' = [pending EXCEPT ![a][k].msg = i, ![a][k].lost = IF lost > 0 THEN lost ELSE @]
    BY <1>3 DEF Defer
  <2>2. k \in DOMAIN w /\ w[k].chan = c
    OBVIOUS
  <2> DEFINE x == [chan |-> c, msg |-> i, lost |-> IF lost > 0 THEN lost ELSE w[k].lost]
             u == [w EXCEPT ![k] = x]
  <2>3. pending' = [pending EXCEPT ![a] = u]
    <3> DEFINE v == [w EXCEPT ![k].msg = i, ![k].lost = IF lost > 0 THEN lost ELSE @]
    <3>5. pending' = [pending EXCEPT ![a] = v]
      BY <1>1, <2>1
    <3> HIDE DEF w
    <3>0. w[k] \in WakeRecords
      BY <1>1, <2>2
    <3>1. w[k] = [chan |-> c, msg |-> w[k].msg, lost |-> w[k].lost]
      BY <2>2, <3>0 DEF WakeRecords
    <3>3. v[k] = x
      BY <2>2, <3>1
    <3>4. v = u
      BY <2>2, <3>3
    <3> HIDE DEF u, v
    <3> QED BY <3>4, <3>5
  <2>4. x \in WakeRecords /\ x.chan = c /\ x.msg = i
    <3>1. (IF lost > 0 THEN lost ELSE w[k].lost) \in Nat
      BY <1>1, <2>2 DEF WakeRecords
    <3> QED BY <1>1, <3>1 DEF WakeRecords
  <2> HIDE DEF x
  <2>5. u \in Seq(WakeRecords) /\ DOMAIN u = DOMAIN w /\ u[k] = x /\ \A j \in DOMAIN w : j # k => u[j] = w[j]
    BY <1>1, <2>2, <2>4, ExceptSeq
  <2> HIDE DEF u
  <2>6. WakesFit(messages, u)
    <3> HIDE DEF w
    <3> QED BY <1>1, <2>2, <2>4, <2>5 DEF WakesFit
  <2> QED BY <1>1, <2>3, <2>5, <2>6
<1> QED BY <1>2, <1>3

Moved(run, trace, at) == [run EXCEPT !.trace = trace, !.at = at, !.tools = @ + 1]
Refused(run, at) == [run EXCEPT !.lost = @ + 1, !.at = at, !.tools = @ + 1]
Shown(run) == [run EXCEPT !.tools = @ + 1]
Silenced(run) == [run EXCEPT !.at = "silent", !.silent = TRUE]
Ended(run, at) == [run EXCEPT !.at = at]


\* A run that has posted is a run, woken by what woke it.
LEMMA MovedIsRun ==
    ASSUME NEW run \in RunRecords, NEW trace \in Nat, NEW at \in RunPlaces
    PROVE  LET x == Moved(run, trace, at)
           IN  /\ x \in RunRecords /\ x.trigger = run.trigger /\ x.chan = run.chan
               /\ x.trace = trace /\ x.at = at
<1>1. PICK x : x = Moved(run, trace, at)
  OBVIOUS
<1>2. run.tools + 1 \in Nat /\ run.lost + 1 \in Nat
  BY DEF RunRecords
<1>3. x = [agent |-> run.agent, chan |-> run.chan, reply |-> run.reply, trace |-> trace, trigger |-> run.trigger, at |-> at, silent |-> run.silent, seen |-> run.seen, after |-> run.after, lost |-> run.lost, tools |-> run.tools + 1]
  BY <1>1 DEF RunRecords, Moved
<1> QED BY <1>1, <1>2, <1>3 DEF RunRecords, RunPlaces, Engaged

\* So is one whose post was refused,
LEMMA RefusedIsRun ==
    ASSUME NEW run \in RunRecords, NEW at \in RunPlaces
    PROVE  LET x == Refused(run, at)
           IN  /\ x \in RunRecords /\ x.trigger = run.trigger /\ x.chan = run.chan
               /\ x.trace = run.trace /\ x.at = at
<1>1. PICK x : x = Refused(run, at)
  OBVIOUS
<1>2. run.tools + 1 \in Nat /\ run.lost + 1 \in Nat
  BY DEF RunRecords
<1>3. x = [agent |-> run.agent, chan |-> run.chan, reply |-> run.reply, trace |-> run.trace, trigger |-> run.trigger, at |-> at, silent |-> run.silent, seen |-> run.seen, after |-> run.after, lost |-> run.lost + 1, tools |-> run.tools + 1]
  BY <1>1 DEF RunRecords, Refused
<1> QED BY <1>1, <1>2, <1>3 DEF RunRecords, RunPlaces, Engaged

\* one that has been shown a channel,
LEMMA ShownIsRun ==
    ASSUME NEW run \in RunRecords
    PROVE  LET x == Shown(run)
           IN  /\ x \in RunRecords /\ x.trigger = run.trigger /\ x.chan = run.chan
               /\ x.trace = run.trace /\ x.at = run.at
<1>1. PICK x : x = Shown(run)
  OBVIOUS
<1>2. run.tools + 1 \in Nat /\ run.lost + 1 \in Nat
  BY DEF RunRecords
<1>3. x = [agent |-> run.agent, chan |-> run.chan, reply |-> run.reply, trace |-> run.trace, trigger |-> run.trigger, at |-> run.at, silent |-> run.silent, seen |-> run.seen, after |-> run.after, lost |-> run.lost, tools |-> run.tools + 1]
  BY <1>1 DEF RunRecords, Shown
<1> QED BY <1>1, <1>2, <1>3 DEF RunRecords, RunPlaces, Engaged

\* one that has stayed silent,
LEMMA SilencedIsRun ==
    ASSUME NEW run \in RunRecords
    PROVE  LET x == Silenced(run)
           IN  /\ x \in RunRecords /\ x.trigger = run.trigger /\ x.chan = run.chan
               /\ x.trace = run.trace /\ x.at = "silent"
<1>1. PICK x : x = Silenced(run)
  OBVIOUS
<1>2. run.tools + 1 \in Nat /\ run.lost + 1 \in Nat
  BY DEF RunRecords
<1>3. x = [agent |-> run.agent, chan |-> run.chan, reply |-> run.reply, trace |-> run.trace, trigger |-> run.trigger, at |-> "silent", silent |-> TRUE, seen |-> run.seen, after |-> run.after, lost |-> run.lost, tools |-> run.tools]
  BY <1>1 DEF RunRecords, Silenced
<1> QED BY <1>1, <1>2, <1>3 DEF RunRecords, RunPlaces, Engaged

\* and one that has ended.
LEMMA EndedIsRun ==
    ASSUME NEW run \in RunRecords, NEW at \in RunPlaces
    PROVE  LET x == Ended(run, at)
           IN  /\ x \in RunRecords /\ x.trigger = run.trigger /\ x.chan = run.chan
               /\ x.trace = run.trace /\ x.at = at
<1>1. PICK x : x = Ended(run, at)
  OBVIOUS
<1>2. run.tools + 1 \in Nat /\ run.lost + 1 \in Nat
  BY DEF RunRecords
<1>3. x = [agent |-> run.agent, chan |-> run.chan, reply |-> run.reply, trace |-> run.trace, trigger |-> run.trigger, at |-> at, silent |-> run.silent, seen |-> run.seen, after |-> run.after, lost |-> run.lost, tools |-> run.tools]
  BY <1>1 DEF RunRecords, Ended
<1> QED BY <1>1, <1>2, <1>3 DEF RunRecords, RunPlaces, Engaged

\* What ConversationInv says of the types, in short.
LEMMA Known ==
    ASSUME ConversationAssumption, ConversationInv
    PROVE  /\ messages \in Seq(MessageRecords) /\ runs \in Seq(RunRecords) /\ turns \in Seq(TurnRecords)
           /\ pending \in [Agents -> Seq(WakeRecords)] /\ reads \in [Agents -> [Channels -> Nat]]
           /\ Len(messages) \in Nat /\ Len(runs) \in Nat /\ None = 0 /\ None \notin Agents \cup Channels
           /\ Members \in [Channels -> SUBSET Agents] /\ Mentions \subseteq SUBSET Agents /\ Asking \subseteq BOOLEAN
           /\ Extends(messages, messages) /\ GoOn(runs, runs)
  BY DEF ConversationInv, ConversationTypes, ConversationAssumption, Extends, GoOn

\* A shown position moves to a message, or to 0.
ReadTo(rd, a, c, n) == [rd EXCEPT ![a][c] = n]

\* No other position does.
LEMMA ReadsMoved ==
    ASSUME ConversationInv, NEW a \in Agents, NEW c \in Channels, NEW n \in Nat,
           reads' = ReadTo(reads, a, c, n)
    PROVE  /\ reads' \in [Agents -> [Channels -> Nat]]
           /\ \A b \in Agents, d \in Channels : reads'[b][d] = reads[b][d] \/ reads'[b][d] = n
  BY DEF ConversationInv, ConversationTypes, ReadTo

(***************************************************************************)
(* The actions                                                             *)
(***************************************************************************)
\* What the human says fits.
LEMMA PostUserMessageFits ==
    ASSUME ConversationAssumption, ConversationInv, NEW c \in Channels, NEW to \in Mentions, PostUserMessage(c, to)
    PROVE  ConversationInv'
<1> DEFINE m == Said(c, User, "message", None, NoLineage, to, FALSE)
<1>1. AppendAndWake(c, m, runs) /\ UNCHANGED <<runs, reads, pending>>
  BY DEF PostUserMessage
<1>2. Fitting(messages, runs, m)
  BY Known, WhatIsSaidFits DEF Kinds
<1>3. m.kind = "message" /\ m.chan = c
  BY DEF Said
<1> HIDE DEF m
<1>4. runs' \in Seq(RunRecords) /\ GoOn(runs, runs')
  BY <1>1, Known
<1>5. /\ messages' \in Seq(MessageRecords) /\ NewMessagesFit
      /\ turns' \in Seq(TurnRecords)
      /\ NewTurnsFit
  BY <1>1, <1>2, <1>3, <1>4, AppendAndWakeFits
<1>6. ConversationTypes'
  BY <1>1, <1>5, Known DEF ConversationTypes
<1> QED BY <1>1, <1>4, <1>5, <1>6, StepKeepsInvariant DEF NewTurnsFit

\* What an agent says fits, and its run is in the chain that it was said in.
LEMMA AcceptFits ==
    ASSUME ConversationAssumption, ConversationInv, NEW r \in DOMAIN runs, runs[r].at = "running",
           NEW c \in Channels, NEW to \in SUBSET Agents, NEW asks \in BOOLEAN, NEW at \in RunPlaces,
           Accept(r, c, to, asks, at), UNCHANGED pending
    PROVE  ConversationInv'
<1> DEFINE a == runs[r].agent
           m == Said(c, a, "message", r, ReplyLineage(a, c, r), to, asks)
           x == Moved(runs[r], m.trace, at)
           moved == [runs EXCEPT ![r].trace = m.trace, ![r].at = at, ![r].tools = @ + 1]
<1>1. AppendAndWake(c, m, moved) /\ reads' = [reads EXCEPT ![a][c] = m.id] /\ runs' = moved
  BY DEF Accept
<1>2. a \in Agents
  BY FieldTypes
<1> HIDE DEF a
<1>3. Fitting(messages, runs, m)
  <2> DEFINE l == ReplyLineage(a, c, r)
  <2>1. LineageFits(l)
    BY LineagesFit
  <2> HIDE DEF l
  <2>2. Fitting(messages, runs, Said(c, a, "message", r, l, to, asks))
    BY <1>2, <2>1, WhatIsSaidFits DEF Kinds
  <2> QED BY <2>2 DEF l
<1>4. m.kind = "message" /\ m.chan = c /\ m.run = r
  BY DEF Said
<1> HIDE DEF m
<1>5. m.trace \in Nat /\ m.id \in Nat
  BY <1>3 DEF Fitting, MessageRecords
<1>6. runs[r] \in RunRecords
  BY Known
<1>7. x \in RunRecords /\ x.trigger = runs[r].trigger /\ x.chan = runs[r].chan /\ x.trace = m.trace
  BY <1>5, <1>6, MovedIsRun
<1>8. runs' = [runs EXCEPT ![r] = x]
  BY <1>1 DEF Moved
<1> HIDE DEF x, moved
<1>9. /\ runs' \in Seq(RunRecords) /\ GoOn(runs, runs')
      /\ DOMAIN runs' = DOMAIN runs /\ runs'[r] = x
      /\ \A q \in DOMAIN runs : q # r => runs'[q] = runs[q]
  BY <1>7, <1>8, RunChanged
<1>10. /\ messages' \in Seq(MessageRecords) /\ NewMessagesFit
       /\ m.id = Len(messages) + 1 /\ m.id \in DOMAIN messages' /\ messages'[m.id] = m
       /\ turns' \in Seq(TurnRecords)
       /\ NewTurnsFit
  BY <1>1, <1>3, <1>4, <1>9, AppendAndWakeFits
<1>11. /\ reads' \in [Agents -> [Channels -> Nat]]
       /\ \A b \in Agents, d \in Channels : reads'[b][d] = reads[b][d] \/ reads'[b][d] = m.id
  <2>1. reads' = ReadTo(reads, a, c, m.id)
    BY <1>1 DEF ReadTo
  <2> QED BY <1>2, <1>5, <2>1, ReadsMoved
<1>12. m.id <= Len(messages')
  BY <1>10
<1>13. RunFits(messages', runs', r)
  <2>1. Heard(messages', x.chan, x.trigger)
    <3>1. Heard(messages, runs[r].chan, runs[r].trigger)
      BY DEF ConversationInv, RunFits
    <3> QED BY <1>7, <1>10, <3>1, Known, HeardStays DEF NewMessagesFit
  <2>2. m.id \notin DOMAIN messages
    BY <1>10, Known
  <2>3. MessageFits(messages', runs', m.id)
    BY <1>10, <2>2 DEF NewMessagesFit
  <2>4. m.trace \in DOMAIN messages' /\ messages'[m.trace].trace = m.trace
    BY <1>10, <2>3 DEF MessageFits
  <2> QED BY <1>4, <1>7, <1>9, <1>10, <2>1, <2>4 DEF RunFits
<1>14. ConversationTypes'
  BY <1>9, <1>10, <1>11, Known DEF ConversationTypes
<1>15. \A q \in DOMAIN runs' : \/ q \in DOMAIN runs /\ runs'[q].trace = runs[q].trace
                               \/ RunFits(messages', runs', q)
  BY <1>9, <1>13
<1>16. \A b \in Agents, d \in Channels : reads'[b][d] = reads[b][d] \/ reads'[b][d] <= Len(messages')
  BY <1>11, <1>12
<1>17. \A b \in Agents : pending'[b] = pending[b]
  OBVIOUS
<1> QED BY <1>9, <1>10, <1>14, <1>15, <1>16, <1>17, StepKeepsInvariant DEF NewTurnsFit

\* What is refused leaves a notice; nobody moves to another chain.
LEMMA RefuseFits ==
    ASSUME ConversationAssumption, ConversationInv, NEW r \in DOMAIN runs, runs[r].at = "running",
           NEW c \in Channels, NEW at \in RunPlaces, Refuse(r, c, at)
    PROVE  /\ messages' \in Seq(MessageRecords) /\ NewMessagesFit
           /\ runs' \in Seq(RunRecords) /\ GoOn(runs, runs')
           /\ \A q \in DOMAIN runs' : q \in DOMAIN runs /\ runs'[q].trace = runs[q].trace
<1> DEFINE a == runs[r].agent
           m == Said(c, a, "conflict", r, TraceOfRun(r), {}, FALSE)
           x == Refused(runs[r], at)
<1>1. messages' = Append(messages, m)
  BY DEF Refuse
<1>2. a \in Agents /\ r # None
  BY FieldTypes, Known
<1>3. Fitting(messages, runs, m)
  <2> DEFINE l == TraceOfRun(r)
  <2>1. LineageFits(l)
    BY LineagesFit
  <2> HIDE DEF l, a
  <2>2. Fitting(messages, runs, Said(c, a, "conflict", r, l, {}, FALSE))
    BY <1>2, <2>1, WhatIsSaidFits DEF Kinds
  <2> QED BY <2>2 DEF l
<1>4. m.kind = "conflict"
  BY DEF Said
<1>5. runs[r] \in RunRecords
  BY Known
<1>6. x \in RunRecords /\ x.trigger = runs[r].trigger /\ x.chan = runs[r].chan /\ x.trace = runs[r].trace
  BY <1>5, RefusedIsRun
<1>7. runs' = [runs EXCEPT ![r] = x]
  BY DEF Refuse, Refused
<1> HIDE DEF x, m, a
<1>8. /\ runs' \in Seq(RunRecords) /\ GoOn(runs, runs')
      /\ DOMAIN runs' = DOMAIN runs /\ runs'[r] = x
      /\ \A q \in DOMAIN runs : q # r => runs'[q] = runs[q]
  BY <1>6, <1>7, RunChanged
<1>9. \A q \in DOMAIN runs' : q \in DOMAIN runs /\ runs'[q].trace = runs[q].trace
  BY <1>6, <1>8
<1>10. /\ messages' \in Seq(MessageRecords) /\ NewMessagesFit
  BY <1>1, <1>3, <1>4, <1>8, AppendedFits
<1> QED BY <1>8, <1>9, <1>10

\* post_message keeps the invariant.
LEMMA PostMessageFits ==
    ASSUME ConversationAssumption, ConversationInv, NEW r \in DOMAIN runs, NEW c \in Channels,
           NEW to \in SUBSET Agents, NEW asks \in BOOLEAN, PostMessage(r, c, to, asks)
    PROVE  ConversationInv'
<1>1. runs[r].at = "running" /\ UNCHANGED pending
  BY DEF PostMessage, Running
<1>2. "running" \in RunPlaces
  BY DEF RunPlaces, Engaged
<1>3. CASE Accept(r, c, to, asks, "running")
  BY <1>1, <1>2, <1>3, AcceptFits
<1>4. CASE Refuse(r, c, "running")
  <2>1. /\ messages' \in Seq(MessageRecords) /\ NewMessagesFit
        /\ runs' \in Seq(RunRecords) /\ GoOn(runs, runs')
        /\ \A q \in DOMAIN runs' : q \in DOMAIN runs /\ runs'[q].trace = runs[q].trace
    BY <1>1, <1>2, <1>4, RefuseFits
  <2>2. UNCHANGED <<reads, turns>>
    BY <1>4 DEF Refuse
  <2>3. ConversationTypes'
    BY <1>1, <2>1, <2>2, Known DEF ConversationTypes
  <2> QED BY <1>1, <2>1, <2>2, <2>3, StepKeepsInvariant DEF NewTurnsFit
<1> QED BY <1>3, <1>4 DEF PostMessage

\* So does the reply of a run.
LEMMA ReplyFits ==
    ASSUME ConversationAssumption, ConversationInv, NEW r \in DOMAIN runs,
           NEW to \in SUBSET Agents, NEW asks \in BOOLEAN, Reply(r, to, asks)
    PROVE  ConversationInv'
<1>1. runs[r].at = "running" /\ UNCHANGED pending /\ Accept(r, runs[r].reply, to, asks, "replied")
  BY DEF Reply, Running
<1>2. "replied" \in RunPlaces /\ runs[r].reply \in Channels
  BY FieldTypes DEF RunPlaces, Engaged
<1> QED BY <1>1, <1>2, AcceptFits

\* A reply that lost the race leaves a notice and a wake about something heard.
LEMMA LoseReplyFits ==
    ASSUME ConversationAssumption, ConversationInv, NEW r \in DOMAIN runs, LoseReply(r)
    PROVE  ConversationInv'
<1> DEFINE a == runs[r].agent
           c == runs[r].reply
           S == {i \in In(messages, c) : StateBearing(i) /\ messages[i].author # a}
           N == {i \in In(messages, c) : StateBearing(i)}
<1>1. runs[r].at = "running" /\ Refuse(r, c, "lost") /\ Stale(a, c)
  BY DEF LoseReply, Running, Refuse
<1>2. "lost" \in RunPlaces /\ c \in Channels /\ a \in Agents /\ runs[r].lost + 1 \in Nat
  BY FieldTypes DEF RunPlaces, Engaged
<1>3. /\ messages' \in Seq(MessageRecords) /\ NewMessagesFit
      /\ runs' \in Seq(RunRecords) /\ GoOn(runs, runs')
      /\ \A q \in DOMAIN runs' : q \in DOMAIN runs /\ runs'[q].trace = runs[q].trace
  <2> HIDE DEF c, a
  <2> QED BY <1>1, <1>2, RefuseFits
<1>4. UNCHANGED <<reads, turns>>
  BY <1>1 DEF Refuse
<1>5. S \in SUBSET DOMAIN messages /\ N \in SUBSET DOMAIN messages
  BY DEF In
<1>6. N # {}
  <2>1. reads[a][c] \in Nat
    BY <1>2, Known
  <2>2. Latest(N) > reads[a][c]
    BY <1>1 DEF Stale, Newest
  <2> QED BY <2>1, <2>2 DEF Latest
<1>7. Latest(N) \in S
  <2>1. Latest(N) \in N
    BY <1>5, <1>6, LatestBound
  <2> QED BY <1>1, <2>1 DEF Stale, Newest
<1>8. Heard(messages, c, Latest(S))
  <2>1. Latest(S) \in S
    BY <1>5, <1>7, LatestBound
  <2> QED BY <2>1 DEF Heard, In, StateBearing
<1>9. /\ pending' \in [Agents -> Seq(WakeRecords)]
      /\ \A b \in Agents : pending'[b] = pending[b] \/ WakesFit(messages, pending'[b])
  <2>1. CASE UNCHANGED pending
    BY <2>1, Known
  <2>2. CASE Defer(a, c, Latest(S), runs[r].lost + 1)
    <3> DEFINE i == Latest(S)
               lost == runs[r].lost + 1
    <3>1. Defer(a, c, i, lost) /\ Heard(messages, c, i) /\ lost \in Nat
      BY <1>2, <1>8, <2>2
    <3> HIDE DEF a, c, i, lost
    <3> QED BY <1>2, <3>1, Deferred
  <2> QED BY <2>1, <2>2 DEF LoseReply
<1>10. \A b \in Agents : pending'[b] = pending[b] \/ WakesFit(messages', pending'[b])
  BY <1>3, <1>9, Known, WakesStayFit DEF NewMessagesFit
<1>11. ConversationTypes'
  BY <1>3, <1>4, <1>9, Known DEF ConversationTypes
<1> QED BY <1>3, <1>4, <1>10, <1>11, StepKeepsInvariant DEF NewTurnsFit

\* Reading a channel moves nobody to another chain.
LEMMA ReadChannelFits ==
    ASSUME ConversationAssumption, ConversationInv, NEW r \in DOMAIN runs, NEW c \in Channels, ReadChannel(r, c)
    PROVE  ConversationInv'
<1> DEFINE a == runs[r].agent
           n == Latest(In(messages, c))
           x == Shown(runs[r])
<1>1. /\ reads' = [reads EXCEPT ![a][c] = n]
      /\ runs' = [runs EXCEPT ![r] = x]
      /\ UNCHANGED <<messages, pending, turns>>
  BY DEF ReadChannel, Shown
<1>2. a \in Agents /\ runs[r] \in RunRecords
  BY FieldTypes, Known
<1>3. n \in Nat /\ n <= Len(messages)
  BY LatestBound DEF In
<1>4. x \in RunRecords /\ x.trigger = runs[r].trigger /\ x.chan = runs[r].chan /\ x.trace = runs[r].trace /\ x.at = runs[r].at
  BY <1>2, ShownIsRun
<1> HIDE DEF a, n, x
<1>5. /\ reads' \in [Agents -> [Channels -> Nat]]
      /\ \A b \in Agents, d \in Channels : reads'[b][d] = reads[b][d] \/ reads'[b][d] = n
  <2>1. reads' = ReadTo(reads, a, c, n)
    BY <1>1 DEF ReadTo
  <2> QED BY <1>2, <1>3, <2>1, ReadsMoved
<1>6. /\ runs' \in Seq(RunRecords) /\ GoOn(runs, runs')
      /\ DOMAIN runs' = DOMAIN runs /\ runs'[r] = x
      /\ \A q \in DOMAIN runs : q # r => runs'[q] = runs[q]
  BY <1>1, <1>4, RunChanged
<1>7. ConversationTypes' /\ NewMessagesFit
  BY <1>1, <1>5, <1>6, Known, NothingSaid DEF ConversationTypes
<1>8. \A q \in DOMAIN runs' : q \in DOMAIN runs /\ runs'[q].trace = runs[q].trace
  BY <1>4, <1>6
<1>9. \A b \in Agents, d \in Channels : reads'[b][d] = reads[b][d] \/ reads'[b][d] <= Len(messages')
  BY <1>1, <1>3, <1>5
<1> QED BY <1>1, <1>6, <1>7, <1>8, <1>9, StepKeepsInvariant DEF NewTurnsFit

\* The turn that a silent run passes on is about the newest message of its channel.
LEMMA StaySilentFits ==
    ASSUME ConversationAssumption, ConversationInv, NEW r \in DOMAIN runs, StaySilent(r)
    PROVE  ConversationInv'
<1> DEFINE c == runs[r].chan
           next == NextAfter(runs, ParticipantOrder(runs, c, StartedTrace(r)), runs[r].agent)
           t == Turn(next, c, Newest(c), None, r)
           x == Silenced(runs[r])
<1>1. /\ turns' = turns \/ (turns' = Append(turns, t) /\ next \in Members[c])
      /\ runs' = [runs EXCEPT ![r] = x]
      /\ UNCHANGED <<messages, reads, pending>>
  BY DEF StaySilent, Silenced
<1>2. c \in Channels /\ runs[r] \in RunRecords /\ r \in Nat /\ runs[r].chan \in Channels
  BY FieldTypes, Known
<1>3. x \in RunRecords /\ x.trigger = runs[r].trigger /\ x.chan = runs[r].chan /\ x.trace = runs[r].trace /\ x.at = "silent"
  BY <1>2, SilencedIsRun
<1>4. Heard(messages, c, Newest(c))
  <2>1. Heard(messages, c, runs[r].trigger)
    BY DEF ConversationInv, RunFits
  <2> HIDE DEF c
  <2> QED BY <2>1, NewestIsHeard
<1> HIDE DEF x, next, c
<1>5. /\ runs' \in Seq(RunRecords) /\ GoOn(runs, runs')
      /\ DOMAIN runs' = DOMAIN runs /\ runs'[r] = x
      /\ \A q \in DOMAIN runs : q # r => runs'[q] = runs[q]
  BY <1>1, <1>3, RunChanged DEF c
<1>6. /\ turns' \in Seq(TurnRecords)
      /\ NewTurnsFit
  <2>1. CASE turns' = turns
    BY <2>1, Known DEF NewTurnsFit
  <2>2. CASE turns' = Append(turns, t) /\ next \in Members[c]
    <3>1. next \in Agents /\ Newest(c) \in Nat
      BY <1>2, <1>4, <2>2, Known DEF Heard
    <3>2. t \in TurnRecords /\ t.chan = c /\ t.msg = Newest(c)
      BY <1>2, <3>1, Known DEF Turn, TurnRecords
    <3> HIDE DEF t
    <3>3. /\ turns' \in Seq(TurnRecords) /\ Len(turns') = Len(turns) + 1 /\ Len(turns) \in Nat
          /\ (\A k \in DOMAIN turns : turns'[k] = turns[k]) /\ turns'[Len(turns) + 1] = t
      BY <2>2, <3>2, Known
    <3>4. \A k \in DOMAIN turns' : k \in DOMAIN turns \/ k = Len(turns) + 1
      BY <3>3, Known
    <3> QED BY <1>1, <1>4, <3>2, <3>3, <3>4 DEF NewTurnsFit
  <2> QED BY <1>1, <2>1, <2>2
<1>7. ConversationTypes' /\ NewMessagesFit
  BY <1>1, <1>5, <1>6, Known, NothingSaid DEF ConversationTypes
<1>8. \A q \in DOMAIN runs' : q \in DOMAIN runs /\ runs'[q].trace = runs[q].trace
  BY <1>3, <1>5
<1> QED BY <1>1, <1>5, <1>6, <1>7, <1>8, StepKeepsInvariant DEF NewTurnsFit

\* What a run says when it fails is the last that it says.
LEMMA FailFits ==
    ASSUME ConversationAssumption, ConversationInv, NEW r \in DOMAIN runs, Fail(r)
    PROVE  ConversationInv'
<1> DEFINE c == runs[r].reply
           m == Said(c, System, "system", r, TraceAsStarted(r), {}, FALSE)
           x == Ended(runs[r], "failed")
<1>1. messages' = Append(messages, m) /\ runs' = [runs EXCEPT ![r] = x] /\ UNCHANGED <<reads, pending, turns>>
  BY DEF Fail, Ended
<1>2. c \in Channels /\ runs[r] \in RunRecords /\ "failed" \in RunPlaces
  BY FieldTypes, Known DEF RunPlaces, Engaged
<1>3. x \in RunRecords /\ x.trigger = runs[r].trigger /\ x.chan = runs[r].chan /\ x.trace = runs[r].trace /\ x.at = "failed"
  BY <1>2, EndedIsRun
<1>4. Fitting(messages, runs, m)
  <2> DEFINE l == TraceAsStarted(r)
  <2>1. LineageFits(l)
    BY LineagesFit
  <2> HIDE DEF l, c
  <2>2. Fitting(messages, runs, Said(c, System, "system", r, l, {}, FALSE))
    BY <1>2, <2>1, WhatIsSaidFits DEF Kinds
  <2> QED BY <2>2 DEF l
<1>5. m.run = r
  BY DEF Said
<1> HIDE DEF x, m, c
<1>6. /\ runs' \in Seq(RunRecords) /\ GoOn(runs, runs')
      /\ DOMAIN runs' = DOMAIN runs /\ runs'[r] = x
      /\ \A q \in DOMAIN runs : q # r => runs'[q] = runs[q]
  BY <1>1, <1>3, RunChanged
<1>7. /\ messages' \in Seq(MessageRecords) /\ NewMessagesFit
  BY <1>1, <1>3, <1>4, <1>5, <1>6, AppendedFits
<1>8. ConversationTypes'
  BY <1>1, <1>6, <1>7, Known DEF ConversationTypes
<1>9. \A q \in DOMAIN runs' : q \in DOMAIN runs /\ runs'[q].trace = runs[q].trace
  BY <1>3, <1>6
<1> QED BY <1>1, <1>6, <1>7, <1>8, <1>9, StepKeepsInvariant DEF NewTurnsFit

\* A run that is started is in the chain of what woke it.
LEMMA StartedFits ==
    ASSUME ConversationAssumption, ConversationInv, NEW a \in Agents, NEW c \in Channels, NEW reply \in Channels,
           NEW i, Heard(messages, c, i), NEW lost \in Nat,
           NEW rs \in Seq(RunRecords), GoOn(runs, rs), DOMAIN rs = DOMAIN runs,
           \A q \in DOMAIN runs : rs[q].trace = runs[q].trace, UNCHANGED messages,
           runs' = Append(rs,
              [agent |-> a, chan |-> c, reply |-> reply,
               trace |-> messages[i].trace, trigger |-> i, at |-> "running", silent |-> FALSE,
               seen |-> Latest(In(messages, c)), after |-> Len(messages), lost |-> lost, tools |-> 0]),
           reads' = [reads EXCEPT ![a][c] = Latest(In(messages, c))]
    PROVE  /\ runs' \in Seq(RunRecords) /\ GoOn(runs, runs')
           /\ \A q \in DOMAIN runs' : \/ q \in DOMAIN runs /\ runs'[q].trace = runs[q].trace
                                      \/ RunFits(messages', runs', q)
           /\ reads' \in [Agents -> [Channels -> Nat]]
           /\ \A b \in Agents, d \in Channels : reads'[b][d] = reads[b][d] \/ reads'[b][d] <= Len(messages')
<1> DEFINE n == Latest(In(messages, c))
           x == [agent |-> a, chan |-> c, reply |-> reply,
                 trace |-> messages[i].trace, trigger |-> i, at |-> "running", silent |-> FALSE,
                 seen |-> n, after |-> Len(messages), lost |-> lost, tools |-> 0]
<1>1. n \in Nat /\ n <= Len(messages)
  BY LatestBound DEF In
<1>2. i \in DOMAIN messages /\ i \in Nat /\ messages[i].trace \in Nat /\ Len(messages) \in Nat
  BY FieldTypes, Known DEF Heard
<1>3. messages[i].trace \in DOMAIN messages /\ messages[messages[i].trace].trace = messages[i].trace
  <2>1. MessageFits(messages, runs, i)
    BY <1>2 DEF ConversationInv
  <2> QED BY <1>2, <2>1, Known DEF MessageFits
<1> HIDE DEF n
<1>4. "running" \in RunPlaces
  BY DEF RunPlaces, Engaged
<1>5. x \in RunRecords
  BY <1>1, <1>2, <1>4 DEF RunRecords
<1>6. x.trigger = i /\ x.chan = c /\ x.trace = messages[i].trace
  OBVIOUS
<1>7. runs' = Append(rs, x) /\ reads' = [reads EXCEPT ![a][c] = n]
  BY DEF n
<1> HIDE DEF x
<1>8. /\ runs' \in Seq(RunRecords) /\ GoOn(runs, runs')
      /\ \A q \in DOMAIN runs' : (q \in DOMAIN runs /\ runs'[q] = rs[q]) \/ runs'[q] = x
  BY <1>5, <1>7, RunAdded
<1>9. \A q \in DOMAIN runs' : runs'[q] = x => RunFits(messages', runs', q)
  <2>1. messages' = messages /\ Heard(messages', c, i)
    OBVIOUS
  <2>2. SUFFICES ASSUME NEW q \in DOMAIN runs', runs'[q] = x
                 PROVE  RunFits(messages', runs', q)
    OBVIOUS
  <2>3. runs'[q].chan = c /\ runs'[q].trigger = i /\ runs'[q].trace = messages[i].trace
    BY <1>6, <2>2
  <2> QED BY <1>3, <2>1, <2>3 DEF RunFits
<1>10. /\ reads' \in [Agents -> [Channels -> Nat]]
       /\ \A b \in Agents, d \in Channels : reads'[b][d] = reads[b][d] \/ reads'[b][d] = n
  <2>1. reads' = ReadTo(reads, a, c, n)
    BY <1>7 DEF ReadTo
  <2> QED BY <1>1, <2>1, ReadsMoved
<1>11. \A q \in DOMAIN runs' : \/ q \in DOMAIN runs /\ runs'[q].trace = runs[q].trace
                               \/ RunFits(messages', runs', q)
  BY <1>8, <1>9
<1>12. \A b \in Agents, d \in Channels : reads'[b][d] = reads[b][d] \/ reads'[b][d] <= Len(messages')
  BY <1>1, <1>10
<1> QED BY <1>8, <1>10, <1>11, <1>12

\* A turn is about something heard, and so is the wake or the run it becomes.
LEMMA QueueTurnFits ==
    ASSUME ConversationAssumption, ConversationInv, NEW k \in DOMAIN turns, QueueTurn(k)
    PROVE  ConversationInv'
<1> DEFINE t == turns[k]
           a == t.agent
           c == t.chan
           i == t.msg
<1>1. a \in Agents /\ c \in Channels /\ t.reply \in Channels \cup {None} /\ Heard(messages, c, i)
  BY FieldTypes DEF ConversationInv
<1>2. /\ turns' \in Seq(TurnRecords)
      /\ \A p \in DOMAIN turns' : \E j \in DOMAIN turns : turns'[p] = turns[j]
  <2>1. turns' = RemoveAt(turns, k) /\ turns \in Seq(TurnRecords)
    BY Known DEF QueueTurn
  <2> QED BY <2>1, Removed
<1>3. CASE /\ Exhausted(i)
           /\ IF NoticesExhaustion(i)
              THEN messages' = Append(messages,
                      Said(c, System, "system", None, [trace |-> messages[i].trace, parent |-> i], {}, FALSE))
              ELSE UNCHANGED messages
           /\ UNCHANGED <<runs, reads, pending>>
  <2>1. CASE UNCHANGED messages
    <3>1. ConversationTypes' /\ NewMessagesFit /\ GoOn(runs, runs')
      BY <1>2, <1>3, <2>1, Known, NothingSaid DEF ConversationTypes
    <3> QED BY <1>2, <1>3, <2>1, <3>1, StepKeepsInvariant DEF NewTurnsFit
  <2>2. CASE messages' = Append(messages,
                Said(c, System, "system", None, [trace |-> messages[i].trace, parent |-> i], {}, FALSE))
    <3> DEFINE l == [trace |-> messages[i].trace, parent |-> i]
               m == Said(c, System, "system", None, l, {}, FALSE)
    <3>1. LineageFits(l)
      <4>1. i \in DOMAIN messages /\ MessageFits(messages, runs, i)
        BY <1>1 DEF ConversationInv, Heard
      <4> QED BY <4>1, Known DEF MessageFits, LineageFits
    <3> HIDE DEF l
    <3>2. Fitting(messages, runs, m)
      BY <1>1, <3>1, Known, WhatIsSaidFits DEF Kinds
    <3>3. m.run = None /\ messages' = Append(messages, m)
      BY <2>2 DEF Said, l
    <3> HIDE DEF m
    <3>4. runs' \in Seq(RunRecords) /\ GoOn(runs, runs')
      BY <1>3, Known
    <3>5. /\ messages' \in Seq(MessageRecords) /\ NewMessagesFit
      BY <3>2, <3>3, <3>4, AppendedFits
    <3>6. ConversationTypes'
      BY <1>2, <1>3, <3>4, <3>5, Known DEF ConversationTypes
    <3> QED BY <1>2, <1>3, <3>4, <3>5, <3>6, StepKeepsInvariant DEF NewTurnsFit
  <2> QED BY <1>3, <2>1, <2>2
<1>4. CASE Defer(a, c, i, 0) /\ UNCHANGED <<messages, runs, reads>>
  <2>1. /\ pending' \in [Agents -> Seq(WakeRecords)]
        /\ \A b \in Agents : pending'[b] = pending[b] \/ WakesFit(messages, pending'[b])
    <3> HIDE DEF a, c, i
    <3> QED BY <1>1, <1>4, Deferred
  <2>2. ConversationTypes' /\ NewMessagesFit /\ GoOn(runs, runs')
    BY <1>2, <1>4, <2>1, Known, NothingSaid DEF ConversationTypes
  <2> QED BY <1>2, <1>4, <2>1, <2>2, StepKeepsInvariant DEF NewTurnsFit
<1>5. CASE StartRun(a, c, t.reply, i, 0) /\ UNCHANGED <<messages, pending>>
  <2> DEFINE reply == IF t.reply = None THEN c ELSE t.reply
  <2>1. reply \in Channels
    BY <1>1
  <2>2. /\ runs' = Append(runs,
              [agent |-> a, chan |-> c, reply |-> reply,
               trace |-> messages[i].trace, trigger |-> i, at |-> "running", silent |-> FALSE,
               seen |-> Latest(In(messages, c)), after |-> Len(messages), lost |-> 0, tools |-> 0])
        /\ reads' = [reads EXCEPT ![a][c] = Latest(In(messages, c))]
    BY <1>5 DEF StartRun
  <2> HIDE DEF a, c, i, reply
  <2>3. /\ runs' \in Seq(RunRecords) /\ GoOn(runs, runs')
        /\ \A q \in DOMAIN runs' : \/ q \in DOMAIN runs /\ runs'[q].trace = runs[q].trace
                                   \/ RunFits(messages', runs', q)
        /\ reads' \in [Agents -> [Channels -> Nat]]
        /\ \A b \in Agents, d \in Channels : reads'[b][d] = reads[b][d] \/ reads'[b][d] <= Len(messages')
    BY <1>1, <1>5, <2>1, <2>2, Known, StartedFits
  <2>4. ConversationTypes' /\ NewMessagesFit
    BY <1>2, <1>5, <2>3, Known, NothingSaid DEF ConversationTypes
  <2> QED BY <1>2, <1>5, <2>3, <2>4, StepKeepsInvariant DEF NewTurnsFit
<1>6. CASE UNCHANGED <<messages, runs, reads, pending>>
  <2>1. ConversationTypes' /\ NewMessagesFit /\ GoOn(runs, runs')
    BY <1>2, <1>6, Known, NothingSaid DEF ConversationTypes
  <2> QED BY <1>2, <1>6, <2>1, StepKeepsInvariant DEF NewTurnsFit
<1> QED BY <1>3, <1>4, <1>5, <1>6 DEF QueueTurn

\* A deferred wake becomes a run about something heard.
LEMMA DrainFits ==
    ASSUME ConversationAssumption, ConversationInv, NEW r \in DOMAIN runs, Drain(r)
    PROVE  ConversationInv'
<1> DEFINE a == runs[r].agent
           w == pending[a][1]
           x == Ended(runs[r], "done")
           rs == [runs EXCEPT ![r] = x]
<1>1. a \in Agents /\ runs[r] \in RunRecords /\ "done" \in RunPlaces
  BY FieldTypes, Known DEF RunPlaces
<1>2. x \in RunRecords /\ x.trigger = runs[r].trigger /\ x.chan = runs[r].chan /\ x.trace = runs[r].trace /\ x.at = "done"
  BY <1>1, EndedIsRun
<1>3. UNCHANGED <<messages, turns>> /\ [runs EXCEPT ![r].at = "done"] = rs
  BY DEF Drain, Ended
<1> HIDE DEF x
<1>4. /\ rs \in Seq(RunRecords) /\ GoOn(runs, rs) /\ DOMAIN rs = DOMAIN runs
      /\ \A q \in DOMAIN runs : rs[q].trace = runs[q].trace
  <2>1. runs \in Seq(RunRecords) /\ Len(runs) \in Nat
    BY Known
  <2>2. rs \in Seq(RunRecords) /\ Len(rs) = Len(runs) /\ DOMAIN rs = DOMAIN runs
    BY <1>2, <2>1
  <2>3. rs[r] = x /\ \A q \in DOMAIN runs : q # r => rs[q] = runs[q]
    BY <2>1
  <2> HIDE DEF rs
  <2> QED BY <1>2, <2>1, <2>2, <2>3 DEF GoOn
<1>5. /\ pending' \in [Agents -> Seq(WakeRecords)]
      /\ \A b \in Agents : pending'[b] = pending[b] \/ WakesFit(messages, pending'[b])
  <2>1. CASE UNCHANGED pending
    BY <2>1, Known
  <2>2. CASE pending[a] # <<>> /\ pending' = [pending EXCEPT ![a] = Tail(@)]
    <3> DEFINE u == pending[a]
               v == Tail(u)
    <3>1. u \in Seq(WakeRecords) /\ u # <<>> /\ WakesFit(messages, u)
      BY <1>1, <2>2, Known DEF ConversationInv
    <3>2. /\ v \in Seq(WakeRecords) /\ Len(u) \in Nat /\ Len(v) = Len(u) - 1
          /\ \A j \in DOMAIN v : j + 1 \in DOMAIN u /\ v[j] = u[j + 1] /\ j \in Nat
      <4> HIDE DEF u
      <4> QED BY <3>1
    <3>3. pending' = [pending EXCEPT ![a] = v]
      BY <2>2
    <3> HIDE DEF u, v
    <3>4. WakesFit(messages, v)
      BY <3>1, <3>2 DEF WakesFit
    <3> QED BY <1>1, <3>2, <3>3, <3>4, Known
  <2> QED BY <2>1, <2>2 DEF Drain
<1>6. CASE runs' = rs /\ UNCHANGED reads
  <2>1. ConversationTypes' /\ NewMessagesFit
    BY <1>3, <1>4, <1>5, <1>6, Known, NothingSaid DEF ConversationTypes
  <2>2. \A q \in DOMAIN runs' : q \in DOMAIN runs /\ runs'[q].trace = runs[q].trace
    BY <1>4, <1>6
  <2> QED BY <1>3, <1>4, <1>5, <1>6, <2>1, <2>2, StepKeepsInvariant DEF NewTurnsFit
<1>7. CASE UNCHANGED <<runs, reads>>
  <2>1. ConversationTypes' /\ NewMessagesFit /\ GoOn(runs, runs')
    BY <1>3, <1>5, <1>7, Known, NothingSaid DEF ConversationTypes
  <2> QED BY <1>3, <1>5, <1>7, <2>1, StepKeepsInvariant DEF NewTurnsFit
<1>8. CASE /\ pending[a] # <<>>
           /\ reads' = [reads EXCEPT ![a][w.chan] = Latest(In(messages, w.chan))]
           /\ runs' = Append(rs,
                 [agent |-> a, chan |-> w.chan, reply |-> w.chan,
                  trace |-> messages[w.msg].trace, trigger |-> w.msg,
                  at |-> "running", silent |-> FALSE,
                  seen |-> Latest(In(messages, w.chan)), after |-> Len(messages),
                  lost |-> w.lost, tools |-> 0])
  <2> DEFINE c == w.chan
             i == w.msg
             lost == w.lost
  <2>1. Heard(messages, c, i) /\ lost \in Nat /\ c \in Channels
    <3>1. pending[a] \in Seq(WakeRecords) /\ WakesFit(messages, pending[a])
      BY <1>1, Known DEF ConversationInv
    <3>2. 1 \in DOMAIN pending[a] /\ w \in WakeRecords
      BY <1>8, <3>1
    <3> QED BY <3>1, <3>2 DEF WakesFit, WakeRecords
  <2>2. /\ runs' = Append(rs,
              [agent |-> a, chan |-> c, reply |-> c,
               trace |-> messages[i].trace, trigger |-> i, at |-> "running", silent |-> FALSE,
               seen |-> Latest(In(messages, c)), after |-> Len(messages), lost |-> lost, tools |-> 0])
        /\ reads' = [reads EXCEPT ![a][c] = Latest(In(messages, c))]
    BY <1>8
  <2> HIDE DEF a, c, i, lost, rs
  <2>3. /\ runs' \in Seq(RunRecords) /\ GoOn(runs, runs')
        /\ \A q \in DOMAIN runs' : \/ q \in DOMAIN runs /\ runs'[q].trace = runs[q].trace
                                   \/ RunFits(messages', runs', q)
        /\ reads' \in [Agents -> [Channels -> Nat]]
        /\ \A b \in Agents, d \in Channels : reads'[b][d] = reads[b][d] \/ reads'[b][d] <= Len(messages')
    BY <1>1, <1>3, <1>4, <2>1, <2>2, StartedFits
  <2>4. ConversationTypes' /\ NewMessagesFit
    BY <1>3, <1>5, <2>3, Known, NothingSaid DEF ConversationTypes
  <2> QED BY <1>3, <1>5, <2>3, <2>4, StepKeepsInvariant DEF NewTurnsFit
<1> HIDE DEF rs
<1> QED BY <1>3, <1>6, <1>7, <1>8 DEF Drain

\* The invariant holds at the start,
LEMMA ConversationStarts ==
    ASSUME ConversationAssumption, Init
    PROVE  ConversationInv
<1>1. None = 0 /\ messages = <<>> /\ runs = <<>> /\ turns = <<>>
  BY DEF Init, ConversationAssumption
<1>2. ConversationTypes
  BY <1>1 DEF Init, ConversationTypes
<1>3. \A a \in Agents : pending[a] = <<>>
  BY DEF Init
<1>4. \A a \in Agents : WakesFit(messages, pending[a])
  BY <1>3 DEF WakesFit
<1>5. \A a \in Agents, c \in Channels : reads[a][c] <= Len(messages)
  BY <1>1 DEF Init
<1> QED BY <1>1, <1>2, <1>4, <1>5 DEF ConversationInv

\* is kept by every step of a run
LEMMA RunStepFits ==
    ASSUME ConversationAssumption, ConversationInv, NEW r \in DOMAIN runs, RunStep(r)
    PROVE  ConversationInv'
<1>1. ASSUME NEW to \in {m \ {runs[r].agent} : m \in Mentions}, NEW asks \in IF to = {} THEN {FALSE} ELSE Asking,
             Reply(r, to, asks) \/ \E c \in Channels : PostMessage(r, c, to, asks)
      PROVE  ConversationInv'
  <2>1. Mentions \subseteq SUBSET Agents /\ Asking \subseteq BOOLEAN
    BY Known
  <2>2. PICK m \in Mentions : to = m \ {runs[r].agent}
    OBVIOUS
  <2>3. to \in SUBSET Agents
    BY <2>1, <2>2
  <2>4. asks \in BOOLEAN
    BY <2>1
  <2> QED BY <1>1, <2>3, <2>4, ReplyFits, PostMessageFits
<1>2. ASSUME NEW c \in Channels, ReadChannel(r, c)
      PROVE  ConversationInv'
  BY <1>2, ReadChannelFits
<1> QED BY <1>1, <1>2, LoseReplyFits, StaySilentFits, FailFits DEF RunStep

\* and by every step of the conversation.
LEMMA ConversationGoesOn ==
    ASSUME ConversationAssumption, ConversationInv, [Next]_vars
    PROVE  ConversationInv'
<1>1. ASSUME NEW c \in Channels, NEW to \in Mentions, PostUserMessage(c, to)
      PROVE  ConversationInv'
  BY <1>1, PostUserMessageFits
<1>2. ASSUME NEW k \in DOMAIN turns, QueueTurn(k)
      PROVE  ConversationInv'
  BY <1>2, QueueTurnFits
<1>3. ASSUME NEW r \in DOMAIN runs, RunStep(r) \/ Drain(r)
      PROVE  ConversationInv'
  BY <1>3, RunStepFits, DrainFits
<1>4. CASE UNCHANGED vars
  <2>1. UNCHANGED <<messages, runs, reads, pending, turns>>
    BY <1>4 DEF vars
  <2>2. ConversationTypes' /\ NewMessagesFit /\ GoOn(runs, runs')
    BY <2>1, Known, NothingSaid DEF ConversationTypes
  <2> QED BY <2>1, <2>2, StepKeepsInvariant DEF NewTurnsFit
<1> QED BY <1>1, <1>2, <1>3, <1>4 DEF Next

\* However mentions, answers, turn taking, refusals and deferred wakes move runs from
\* chain to chain: every chain has a root, its tree needs no guard against circles and
\* shows everything, and its timeline indents every reply below what it answers.
THEOREM ChainsStayWhole ==
    ASSUME ConversationAssumption
    PROVE  Spec => []ChainsWhole
<1>1. Spec => []ConversationInv
  BY ConversationStarts, ConversationGoesOn, PTL DEF Spec
<1> QED BY <1>1, InvariantIsWhole, PTL
=============================================================================
