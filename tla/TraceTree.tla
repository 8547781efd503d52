----------------------------- MODULE TraceTree -----------------------------
(***************************************************************************)
(* How the web client turns a trace into a tree and into indentation       *)
(* (apps/web/src/components/TraceView.tsx).  A trace t is a record         *)
(*   root     the id of the root message                                   *)
(*   messages its messages, at places that grow with time; each has id,    *)
(*            parent, run and kind, the middle two None where there is none*)
(*   runs     its runs, each with id and trigger                           *)
(* An id may be of something that is not in the trace.                     *)
(***************************************************************************)
EXTENDS Naturals, Sequences, FiniteSets

CONSTANT None

Elements(s) == {s[i] : i \in DOMAIN s}

Ids(t) == {m.id : m \in Elements(t.messages)}

\* What a trace has in any case (getTrace): it is finite, its root is one of its messages,
\* and no message has the null id.
IsTrace(t) ==
    /\ IsFiniteSet(DOMAIN t.messages) /\ IsFiniteSet(t.runs)
    /\ t.root \in Ids(t) /\ None \notin Ids(t)

MessageOf(t, id) == CHOOSE m \in Elements(t.messages) : m.id = id

\* The items of the tree.  Decisions are left out: one that names a run of the
\* trace is drawn with it, the others are leaves below the root.
Items(t) == {<<"m", id>> : id \in Ids(t)} \cup {<<"r", r.id>> : r \in t.runs}
Root(t) == <<"m", t.root>>
NoItem == <<"m", None>>

\* runAnchors: what the run's first channel post replied to, else its trigger.
Posts(t, r) == {i \in DOMAIN t.messages : t.messages[i].run = r.id /\ t.messages[i].kind = "message"}
FirstPost(t, r) == t.messages[CHOOSE i \in Posts(t, r) : \A j \in Posts(t, r) : i <= j]
\* Mutant: the run hangs off its post instead of what the post replied to.
AnchorOwn(t, r) == IF Posts(t, r) # {} THEN FirstPost(t, r).id ELSE r.trigger

Anchor(t, r) ==
    IF Posts(t, r) # {} /\ FirstPost(t, r).parent # None THEN FirstPost(t, r).parent ELSE r.trigger

\* buildTree: parentKey.  A message is below the run that produced it, or else
\* below its parent; what is unattached is below the root.
ParentKey(t, item) ==
    LET orRoot(id) == IF id \in Ids(t) THEN <<"m", id>> ELSE Root(t)
        m == MessageOf(t, item[2])
    IN  CASE item \in {Root(t), NoItem} -> NoItem
          [] item \notin {Root(t), NoItem} /\ item[1] = "r" ->
                orRoot(Anchor(t, CHOOSE r \in t.runs : r.id = item[2]))
          [] item \notin {Root(t), NoItem} /\ item[1] = "m" /\ (\E r \in t.runs : r.id = m.run) -> <<"r", m.run>>
          [] OTHER -> IF m.parent = m.id THEN Root(t) ELSE orRoot(m.parent)

\* Where one gets from x by following next, x included.
Climb(next, x) ==
    LET upTo[n \in Nat] ==
            IF n = 0 THEN {x}
            ELSE LET below == upTo[n - 1] IN below \cup {next[y] : y \in below}
    IN  upTo[Cardinality(DOMAIN next)]

ParentKeys(t) == [item \in Items(t) \cup {NoItem} |-> ParentKey(t, item)]
Ancestors(t, item) == Climb(ParentKeys(t), item) \ {NoItem}

\* Mutant: no guard against cycles.
AttachAnyway(t, item) == ParentKey(t, item)

\* buildTree: the item below which an item is drawn.  One that would end up
\* below itself is drawn below the root.
Attach(t, item) ==
    IF item \in {Root(t), NoItem} THEN NoItem
    ELSE IF item \in Ancestors(t, ParentKey(t, item)) THEN Root(t)
    ELSE ParentKey(t, item)

\* messageDepths: how many messages there are from this one up to the root, along
\* parents; a parent outside the trace, or met before, ends the count.  (Where one is
\* met twice the code counts according to what it has cached; no conversation has one.)
Parents(t) ==
    [id \in Ids(t) \cup {None} |->
        IF id \notin {None, t.root} /\ MessageOf(t, id).parent \in Ids(t) THEN MessageOf(t, id).parent ELSE None]
MessageDepth(t, id) == Cardinality(Climb(Parents(t), id) \ {None, t.root})

\* buildTimeline: how deep an item is indented.
ItemDepth(t, item) ==
    LET anchor == Anchor(t, CHOOSE r \in t.runs : r.id = item[2])
    IN  IF item[1] = "m" THEN MessageDepth(t, item[2])
        ELSE IF anchor \in Ids(t) THEN MessageDepth(t, anchor) + 1
        ELSE 1
-----------------------------------------------------------------------------
\* The tree shows every item, and shows it once: from each one the way up ends
\* at the root.
Attached(t) == [item \in Items(t) \cup {NoItem} |-> Attach(t, item)]
Whole(t) == \A item \in Items(t) : Root(t) \in Climb(Attached(t), item)

\* No item is drawn below the root because it would be its own ancestor.
Acyclic(t) ==
    \A item \in Items(t) \ {Root(t)} : item \notin Ancestors(t, ParentKey(t, item))

\* Replies are indented below what they answer, runs below what they hang off.
Indented(t) ==
    /\ \A m \in Elements(t.messages) :
          m.id # t.root /\ m.parent \in Ids(t) => MessageDepth(t, m.id) > MessageDepth(t, m.parent)
    /\ \A r \in t.runs :
          Anchor(t, r) \in Ids(t) => ItemDepth(t, <<"r", r.id>>) > MessageDepth(t, Anchor(t, r))
=============================================================================
