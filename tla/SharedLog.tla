----------------------------- MODULE SharedLog -----------------------------
(***************************************************************************)
(* Read-before-act, stated on its own: a log that humans append to freely  *)
(* and that an agent may append to only once it has been shown every entry *)
(* somebody else wrote.  ChannelSync implements it with cursors, a lock    *)
(* and a serialised store.                                                 *)
(***************************************************************************)
EXTENDS Naturals

CONSTANTS
    Agents,    \* actors bound by read-before-act
    User       \* the human, who is not

VARIABLES
    log,       \* the set of entries, each with a seq and an author
    view       \* view[a]: sequence numbers of the entries a has been shown

vars == <<log, view>>

Init ==
    /\ log = {}
    /\ view = [a \in Agents |-> {}]

ByOthers(a) == {e.seq : e \in {x \in log : x.author # a}}

Show(a) ==
    /\ \E S \in SUBSET ByOthers(a) : view' = [view EXCEPT ![a] = @ \cup S]
    /\ UNCHANGED log

Append(author) ==
    /\ \E e \in log' \ log :
          /\ e.author = author
          /\ \A x \in log : x.seq < e.seq
          /\ log' = log \cup {e}
    /\ UNCHANGED view

Act(a) == ByOthers(a) \subseteq view[a] /\ Append(a)

Next == Append(User) \/ \E a \in Agents : Show(a) \/ Act(a)

Spec == Init /\ [][Next]_vars
=============================================================================
