--------------------------- MODULE ServicesProofs ---------------------------
(***************************************************************************)
(* Proofs about Services, for every value of the constants: what the runs  *)
(* check of the container runner, the review artefacts, the logins and the *)
(* registry.  A behaviour of Services is a behaviour of each of the four,  *)
(* so each has an inductive invariant of its own, about its variables.     *)
(***************************************************************************)
EXTENDS Services, Sequences, FiniteSetTheorems, FunctionTheorems, TLAPS

\* Every step of the four together is a step or a stutter of each of them.
LEMMA StepOfEach ==
    ASSUME [Next]_vars
    PROVE  /\ [R!Next]_(R!vars)
           /\ [L!Next]_(L!vars)
           /\ [C!Next]_(C!vars)
           /\ [A!Next]_(A!vars)
<1>1. CASE part = "registry" /\ R!Next /\ UNCHANGED <<part, loginVars, containerVars, reviewVars>>
    BY <1>1 DEF loginVars, containerVars, reviewVars, L!vars, C!vars, A!vars, A!workspace
<1>2. CASE part = "logins" /\ L!Next /\ UNCHANGED <<part, registryVars, containerVars, reviewVars>>
    BY <1>2 DEF registryVars, containerVars, reviewVars, R!vars, R!people, C!vars, A!vars, A!workspace
<1>3. CASE part = "container" /\ C!Next /\ UNCHANGED <<part, registryVars, loginVars, reviewVars>>
    BY <1>3 DEF registryVars, loginVars, reviewVars, R!vars, R!people, L!vars, A!vars, A!workspace
<1>4. CASE part = "review" /\ A!Next /\ UNCHANGED <<part, registryVars, loginVars, containerVars>>
    BY <1>4 DEF registryVars, loginVars, containerVars, R!vars, R!people, L!vars, C!vars
<1>5. CASE UNCHANGED vars
    BY <1>5 DEF vars, registryVars, loginVars, containerVars, reviewVars,
                R!vars, R!people, L!vars, C!vars, A!vars, A!workspace
<1> QED BY <1>1, <1>2, <1>3, <1>4, <1>5 DEF Next

(***************************************************************************)
(* The container runner                                                    *)
(***************************************************************************)
Entries == [flags : SUBSET (C!Limits \cup {"cancelled"}),
            termination : {"none", "removing", "removed", "failed"},
            result : {"none", "completed", "failed", "cancelled", "lost"}]
Callers == [at : {"idle", "waiting", "true", "lost"}, run : 0 .. MaxRuns]

ContainerTypes ==
    /\ active \in 0 .. MaxRuns /\ last \in 0 .. MaxRuns /\ container \in 0 .. MaxRuns
    /\ client \in {"none"} \cup C!Living \cup C!Exited
    /\ entry \in [C!Runs -> Entries]
    /\ caller \in [Cancels -> Callers]

\* Runs are started in order; what has not been started has no outcome.
StartedInOrder ==
    /\ active <= last /\ container <= last
    /\ \A r \in C!Runs : r > last => entry[r].result = "none"

\* The Map, the client and the container of the active run.
ClientFits ==
    /\ active # 0 => up
    /\ active # 0 <=> client # "none"
    /\ active # 0 => entry[active].result = "none"
    /\ client = "attached" => container = active
    /\ client = "creating" => container # active
    /\ client \in C!Exited /\ container = active => entry[active].termination = "failed"

\* Who waits in cancel() waits for a run that is flagged, and that is active or has
\* ended as cancelled.
CancelsFit ==
    \A k \in Cancels :
        LET r == caller[k].run
        IN  /\ caller[k].at = "waiting" =>
                  /\ r \in C!Runs /\ "cancelled" \in entry[r].flags
                  /\ r = active \/ entry[r].result = "cancelled"
            /\ caller[k].at = "true" => r \in C!Runs /\ entry[r].result = "cancelled"

ContainerInv ==
    ContainerTypes /\ StartedInOrder /\ ClientFits /\ CancelsFit /\ C!LeftOnlyByEngine

LEMMA ContainerInit == C!Init => ContainerInv
<1> SUFFICES ASSUME C!Init PROVE ContainerInv
    OBVIOUS
<1> USE ServicesAssumption DEF C!ContainerAssumption, C!Init, C!None
<1>1. ContainerTypes
    BY DEF ContainerTypes, Entries, Callers, C!Limits, C!Runs
<1>2. StartedInOrder /\ ClientFits /\ CancelsFit /\ C!LeftOnlyByEngine
    BY DEF StartedInOrder, ClientFits, CancelsFit, C!LeftOnlyByEngine, C!Exited, C!Runs
<1> QED BY <1>1, <1>2 DEF ContainerInv

\* A flag is set on the active run's entry; nothing else is disturbed.
LEMMA ContainerFlagged ==
    ASSUME ContainerInv, active # 0,
           NEW flag \in C!Limits \cup {"cancelled"}, C!RemoveContainer(active, flag)
    PROVE  /\ active \in C!Runs
           /\ entry' \in [C!Runs -> Entries]
           /\ flag \in entry'[active].flags
           /\ \A r \in C!Runs :
                 /\ entry'[r].result = entry[r].result
                 /\ entry[r].flags \subseteq entry'[r].flags
                 /\ entry[r].termination = "failed" => entry'[r].termination = "failed"
<1> USE ServicesAssumption DEF C!ContainerAssumption, C!Runs
<1>1. active \in C!Runs /\ entry \in [C!Runs -> Entries]
    BY DEF ContainerInv, ContainerTypes
<1> DEFINE e == [entry[active] EXCEPT !.flags = @ \cup {flag},
                                      !.termination = IF @ = "none" THEN "removing" ELSE @]
<1>2. e \in Entries /\ e.flags = entry[active].flags \cup {flag} /\ e.result = entry[active].result
      /\ (entry[active].termination = "failed" => e.termination = "failed")
    BY <1>1 DEF Entries
<1>3. entry' = [entry EXCEPT ![active] = e]
    BY DEF C!RemoveContainer
<1> QED BY <1>1, <1>2, <1>3

LEMMA ContainerStep == ContainerInv /\ [C!Next]_(C!vars) => ContainerInv'
<1> SUFFICES ASSUME ContainerInv, [C!Next]_(C!vars) PROVE ContainerInv'
    OBVIOUS
<1> USE ServicesAssumption DEF C!ContainerAssumption, C!None, C!Runs
<1>0. /\ ContainerTypes /\ StartedInOrder /\ ClientFits /\ CancelsFit /\ C!LeftOnlyByEngine
      /\ active # 0 => active \in C!Runs
      /\ container # 0 => container \in C!Runs
    BY DEF ContainerInv, ContainerTypes
<1> USE DEF ContainerInv
<1>1. CASE C!Run
  <2>1. ContainerTypes' BY <1>0, <1>1 DEF C!Run, ContainerTypes, C!Living
  <2>2. StartedInOrder' BY <1>0, <1>1 DEF C!Run, ContainerTypes, StartedInOrder
  <2>3. ClientFits' BY <1>0, <1>1 DEF C!Run, ContainerTypes, StartedInOrder, ClientFits, C!Exited
  <2>4. CancelsFit' BY <1>0, <1>1 DEF C!Run, ContainerTypes, CancelsFit
  <2>5. C!LeftOnlyByEngine' BY <1>0, <1>1 DEF C!Run, ContainerTypes, C!LeftOnlyByEngine
  <2> QED BY <2>1, <2>2, <2>3, <2>4, <2>5
<1>2. CASE C!Create
  <2>1. ContainerTypes' BY <1>0, <1>2 DEF C!Create, ContainerTypes, C!Living
  <2>2. StartedInOrder' BY <1>0, <1>2 DEF C!Create, StartedInOrder
  <2>3. ClientFits' BY <1>0, <1>2 DEF C!Create, ClientFits, C!Exited
  <2>4. CancelsFit' BY <1>0, <1>2 DEF C!Create, CancelsFit
  <2>5. C!LeftOnlyByEngine' BY <1>0, <1>2 DEF C!Create, C!LeftOnlyByEngine
  <2> QED BY <2>1, <2>2, <2>3, <2>4, <2>5
<1>3. CASE C!NameInUse
  <2>1. ContainerTypes' BY <1>0, <1>3 DEF C!NameInUse, ContainerTypes, C!Exited
  <2>2. StartedInOrder' BY <1>0, <1>3 DEF C!NameInUse, StartedInOrder
  <2>3. ClientFits' BY <1>0, <1>3 DEF C!NameInUse, ClientFits, C!Exited
  <2>4. CancelsFit' BY <1>0, <1>3 DEF C!NameInUse, CancelsFit
  <2>5. C!LeftOnlyByEngine' BY <1>0, <1>3 DEF C!NameInUse, C!LeftOnlyByEngine
  <2> QED BY <2>1, <2>2, <2>3, <2>4, <2>5
<1>4. CASE C!CodexEnds
  <2>1. ContainerTypes' BY <1>0, <1>4 DEF C!CodexEnds, ContainerTypes, C!Exited
  <2>2. StartedInOrder' BY <1>0, <1>4 DEF C!CodexEnds, ContainerTypes, StartedInOrder
  <2>3. ClientFits' BY <1>0, <1>4 DEF C!CodexEnds, ContainerTypes, ClientFits, C!Exited
  <2>4. CancelsFit' BY <1>0, <1>4 DEF C!CodexEnds, CancelsFit
  <2>5. C!LeftOnlyByEngine' BY <1>4 DEF C!CodexEnds, C!LeftOnlyByEngine
  <2> QED BY <2>1, <2>2, <2>3, <2>4, <2>5
<1>5. ASSUME NEW k \in Cancels, C!Cancel(k) PROVE ContainerInv'
  <2>0. /\ active # 0 /\ C!RemoveContainer(active, "cancelled")
        /\ caller' = [caller EXCEPT ![k] = [at |-> "waiting", run |-> active]]
        /\ UNCHANGED <<up, active, last, container, client>>
    BY <1>5 DEF C!Cancel, C!RemoveContainer
  <2>1. /\ active \in C!Runs /\ entry' \in [C!Runs -> Entries] /\ "cancelled" \in entry'[active].flags
        /\ \A r \in C!Runs :
              /\ entry'[r].result = entry[r].result
              /\ entry[r].flags \subseteq entry'[r].flags
              /\ entry[r].termination = "failed" => entry'[r].termination = "failed"
    BY <2>0, ContainerFlagged
  <2>2. ContainerTypes' BY <1>0, <2>0, <2>1 DEF ContainerTypes, Callers
  <2>3. StartedInOrder' BY <1>0, <2>0, <2>1 DEF StartedInOrder
  <2>4. ClientFits' BY <1>0, <2>0, <2>1 DEF ClientFits
  <2>5. CancelsFit' BY <1>0, <2>0, <2>1 DEF CancelsFit, ContainerTypes
  <2>6. C!LeftOnlyByEngine' BY <1>0, <2>0, <2>1 DEF C!LeftOnlyByEngine
  <2> QED BY <2>2, <2>3, <2>4, <2>5, <2>6
<1>6. ASSUME NEW limit \in C!Limits, C!LimitReached(limit) PROVE ContainerInv'
  <2>0. /\ active # 0 /\ C!RemoveContainer(active, limit)
        /\ UNCHANGED <<up, active, last, container, client, caller>>
    BY <1>6 DEF C!LimitReached, C!RemoveContainer
  <2>1. /\ active \in C!Runs /\ entry' \in [C!Runs -> Entries]
        /\ \A r \in C!Runs :
              /\ entry'[r].result = entry[r].result
              /\ entry[r].flags \subseteq entry'[r].flags
              /\ entry[r].termination = "failed" => entry'[r].termination = "failed"
    BY <2>0, ContainerFlagged
  <2>2. ContainerTypes' BY <1>0, <2>0, <2>1 DEF ContainerTypes
  <2>3. StartedInOrder' BY <1>0, <2>0, <2>1 DEF StartedInOrder
  <2>4. ClientFits' BY <1>0, <2>0, <2>1 DEF ClientFits
  <2>5. CancelsFit' BY <1>0, <2>0, <2>1 DEF CancelsFit
  <2>6. C!LeftOnlyByEngine' BY <1>0, <2>0, <2>1 DEF C!LeftOnlyByEngine
  <2> QED BY <2>2, <2>3, <2>4, <2>5, <2>6
<1>7. ASSUME NEW r \in C!Runs, C!RmSucceeds(r) PROVE ContainerInv'
  <2>0. entry' \in [C!Runs -> Entries]
        /\ \A q \in C!Runs : entry'[q].result = entry[q].result /\ entry'[q].flags = entry[q].flags
    BY <1>0, <1>7 DEF C!RmSucceeds, ContainerTypes, Entries
  <2>1. ContainerTypes' BY <1>0, <1>7, <2>0 DEF C!RmSucceeds, ContainerTypes, C!Exited
  <2>2. StartedInOrder' BY <1>0, <1>7, <2>0 DEF C!RmSucceeds, StartedInOrder, ContainerTypes
  <2>3. ClientFits' BY <1>0, <1>7, <2>0 DEF C!RmSucceeds, ClientFits, C!Exited
  <2>4. CancelsFit' BY <1>0, <1>7, <2>0 DEF C!RmSucceeds, CancelsFit
  <2>5. C!LeftOnlyByEngine' BY <1>7 DEF C!RmSucceeds, C!LeftOnlyByEngine
  <2> QED BY <2>1, <2>2, <2>3, <2>4, <2>5
<1>8. ASSUME NEW r \in C!Runs, C!RmFails(r) PROVE ContainerInv'
  <2>0. entry' \in [C!Runs -> Entries]
        /\ \A q \in C!Runs :
              /\ entry'[q].result = entry[q].result /\ entry'[q].flags = entry[q].flags
              /\ entry[q].termination = "failed" => entry'[q].termination = "failed"
    BY <1>0, <1>8 DEF C!RmFails, ContainerTypes, Entries
  <2>1. ContainerTypes' BY <1>0, <1>8, <2>0 DEF C!RmFails, ContainerTypes
  <2>2. StartedInOrder' BY <1>0, <1>8, <2>0 DEF C!RmFails, StartedInOrder
  <2>3. ClientFits' BY <1>0, <1>8, <2>0 DEF C!RmFails, ClientFits
  <2>4. CancelsFit' BY <1>0, <1>8, <2>0 DEF C!RmFails, CancelsFit
  <2>5. C!LeftOnlyByEngine' BY <1>0, <1>8, <2>0 DEF C!RmFails, C!LeftOnlyByEngine
  <2> QED BY <2>1, <2>2, <2>3, <2>4, <2>5
<1>9. CASE C!KillClient
  <2>1. ContainerTypes' BY <1>0, <1>9 DEF C!KillClient, ContainerTypes, C!Exited
  <2>2. StartedInOrder' BY <1>0, <1>9 DEF C!KillClient, StartedInOrder
  <2>3. ClientFits' BY <1>0, <1>9 DEF C!KillClient, ClientFits, C!Exited
  <2>4. CancelsFit' BY <1>0, <1>9 DEF C!KillClient, CancelsFit
  <2>5. C!LeftOnlyByEngine' BY <1>0, <1>9 DEF C!KillClient, C!LeftOnlyByEngine
  <2> QED BY <2>1, <2>2, <2>3, <2>4, <2>5
<1>10. CASE C!Settle
  <2>0. /\ active # 0 /\ client \in C!Exited /\ active' = 0 /\ client' = "none"
        /\ entry[active].result = "none"
        /\ UNCHANGED <<last, container, caller>>
    BY <1>0, <1>10 DEF C!Settle, ClientFits, C!Exited
  <2>1. /\ entry' = [entry EXCEPT ![active].result = C!Result(active)]
        /\ C!Result(active) \in {"completed", "failed", "cancelled"}
        /\ "cancelled" \in entry[active].flags => C!Result(active) = "cancelled"
    BY <1>10 DEF C!Settle, C!Result
  <2>2. /\ entry' \in [C!Runs -> Entries]
        /\ \A r \in C!Runs : entry'[r].flags = entry[r].flags /\ entry'[r].termination = entry[r].termination
        /\ \A r \in C!Runs : r # active => entry'[r].result = entry[r].result
        /\ entry'[active].result = C!Result(active)
    BY <1>0, <2>0, <2>1 DEF ContainerTypes, Entries
  <2>3. ContainerTypes' BY <1>0, <2>0, <2>2 DEF ContainerTypes
  <2>4. StartedInOrder' BY <1>0, <2>0, <2>2 DEF StartedInOrder, ContainerTypes
  <2>5. ClientFits' BY <1>0, <2>0 DEF ClientFits, C!Exited, ContainerTypes
  <2>6. CancelsFit' BY <1>0, <2>0, <2>1, <2>2 DEF CancelsFit
  <2>7. C!LeftOnlyByEngine' BY <1>0, <2>0, <2>2 DEF C!LeftOnlyByEngine, ClientFits
  <2> QED BY <2>3, <2>4, <2>5, <2>6, <2>7
<1>11. ASSUME NEW k \in Cancels, C!CancelReturns(k) PROVE ContainerInv'
  <2>1. ContainerTypes' BY <1>0, <1>11 DEF C!CancelReturns, ContainerTypes, Callers
  <2>2. StartedInOrder' BY <1>0, <1>11 DEF C!CancelReturns, StartedInOrder
  <2>3. ClientFits' BY <1>0, <1>11 DEF C!CancelReturns, ClientFits
  <2>4. CancelsFit' BY <1>0, <1>11 DEF C!CancelReturns, CancelsFit, ContainerTypes, Callers
  <2>5. C!LeftOnlyByEngine' BY <1>0, <1>11 DEF C!CancelReturns, C!LeftOnlyByEngine
  <2> QED BY <2>1, <2>2, <2>3, <2>4, <2>5
<1>12. CASE C!ServerStops
  <2>1. /\ entry' \in [C!Runs -> Entries]
        /\ \A r \in C!Runs : entry'[r].flags = entry[r].flags /\ entry'[r].termination = entry[r].termination
        /\ \A r \in C!Runs : entry'[r].result = IF r = active THEN "lost" ELSE entry[r].result
    BY <1>0, <1>12 DEF C!ServerStops, ContainerTypes, Entries
  <2>2. /\ caller' \in [Cancels -> Callers]
        /\ \A k \in Cancels : caller'[k].at # "waiting"
        /\ \A k \in Cancels : caller'[k].at = "true" => caller'[k] = caller[k]
    BY <1>0, <1>12 DEF C!ServerStops, ContainerTypes, Callers
  <2>3. /\ active' = 0 /\ client' = "none" /\ last' = last
        /\ container' \in {container, active} /\ (container' # container => client = "creating")
    BY <1>12 DEF C!ServerStops
  <2>4. ContainerTypes' BY <1>0, <2>1, <2>2, <2>3 DEF ContainerTypes
  <2>5. StartedInOrder' BY <1>0, <2>1, <2>3 DEF StartedInOrder, ContainerTypes
  <2>6. ClientFits' BY <1>0, <2>3 DEF ClientFits, C!Exited
  <2>7. CancelsFit' BY <1>0, <2>1, <2>2 DEF CancelsFit, ClientFits
  <2>8. C!LeftOnlyByEngine' BY <1>0, <2>1, <2>3 DEF C!LeftOnlyByEngine
  <2> QED BY <2>4, <2>5, <2>6, <2>7, <2>8
<1>13. CASE C!Boot
  <2>1. ContainerTypes' BY <1>0, <1>13 DEF C!Boot, ContainerTypes
  <2>2. StartedInOrder' BY <1>0, <1>13 DEF C!Boot, StartedInOrder, ContainerTypes
  <2>3. ClientFits' BY <1>0, <1>13 DEF C!Boot, ClientFits, C!Exited
  <2>4. CancelsFit' BY <1>0, <1>13 DEF C!Boot, CancelsFit
  <2>5. C!LeftOnlyByEngine' BY <1>0, <1>13 DEF C!Boot, C!LeftOnlyByEngine
  <2> QED BY <2>1, <2>2, <2>3, <2>4, <2>5
<1>14. CASE UNCHANGED C!vars
  BY <1>0, <1>14 DEF C!vars, ContainerTypes, StartedInOrder, ClientFits, CancelsFit, C!LeftOnlyByEngine
<1> QED
  BY <1>1, <1>2, <1>3, <1>4, <1>5, <1>6, <1>7, <1>8, <1>9, <1>10, <1>11, <1>12, <1>13, <1>14 DEF C!Next

\* A container outlives its run only where the engine failed to remove it or the server
\* stopped, and who called cancel() and was told true finds the run cancelled: for any
\* number of runs, calls and stops of the server.
THEOREM ContainersAreAccounted == Spec => []ContainersAccounted
<1>1. Init => ContainerInv
    BY ContainerInit DEF Init
<1>2. ContainerInv /\ [Next]_vars => ContainerInv'
    BY ContainerStep, StepOfEach
<1>3. ContainerInv => ContainersAccounted
  <2> SUFFICES ASSUME ContainerInv PROVE ContainersAccounted
      OBVIOUS
  <2>1. C!TypeOK
      BY ServicesAssumption
      DEF C!ContainerAssumption, ContainerInv, ContainerTypes, ClientFits, C!TypeOK, Entries, C!Runs, C!None
  <2>2. C!CancelReported
      BY DEF ContainerInv, CancelsFit, C!CancelReported
  <2> QED BY <2>1, <2>2 DEF ContainersAccounted, ContainerInv
<1> QED BY <1>1, <1>2, <1>3, PTL DEF Spec

(***************************************************************************)
(* The review artefacts                                                    *)
(***************************************************************************)
PubSteps == {"idle", "next", "opening", "reading", "checking",
             "staging", "staged", "saving", "done", "refused"}
Publications == [at : PubSteps, left : SUBSET Paths, path : Paths \cup {NoFile}, node : Nodes \cup {NoFile},
                 content : A!Contents \cup {NoFile}, got : SUBSET A!Files, total : Nat]
Reads == [at : {"idle", "reading", "done", "refused"}, id : Ids \cup {NoFile},
          path : Paths \cup {NoFile}, content : A!Contents \cup {NoFile}]

ReviewTypes ==
    /\ where \in [Paths -> Nodes \cup {NoFile}]
    /\ size \in [Nodes -> 0 .. MaxSize]
    /\ pub \in [Ids -> Publications]
    /\ dir \in [Ids -> {"none", "staging", "final"}]
    /\ disk \in [Ids -> SUBSET A!Files]
    /\ stored \subseteq Ids
    /\ reader \in [Readers -> Reads]

\* n is the size of the files.
AddedUp(files, n) == IsFiniteSet(A!Bytes(files)) /\ Cardinality(A!Bytes(files)) = n

\* ReviewArtifacts counts as everybody does.
LEMMA SameCardinality == \A S : A!Cardinality(S) = Cardinality(S)
    BY DEF A!Cardinality, Cardinality

\* No files have no bytes.
LEMMA NothingAddedUp == AddedUp({}, 0)
<1>1. A!Bytes({}) = {}
    BY DEF A!Bytes
<1> QED BY <1>1, FS_EmptySet DEF AddedUp

\* One more file adds its size.
LEMMA OneMoreAddedUp ==
    ASSUME NEW files, NEW n \in Nat, AddedUp(files, n), NEW f, f \notin files, f.content.size \in Nat
    PROVE  AddedUp(files \cup {f}, n + f.content.size)
<1> DEFINE s == f.content.size
           B == A!Bytes(files)
           F == {f} \X (1 .. s)
<1>1. A!Bytes(files \cup {f}) = B \cup F
    BY DEF A!Bytes
<1>2. B \cap F = {}
    BY DEF A!Bytes
<1>0. s \in Nat
    OBVIOUS
<1>3. IsFiniteSet(F) /\ Cardinality(F) = s
  <2> HIDE DEF s
  <2>1. IsFiniteSet(1 .. s) /\ Cardinality(1 .. s) = s
    <3>1. s \in Int /\ 1 \in Int
        BY <1>0
    <3>2. IsFiniteSet(1 .. s) /\ Cardinality(1 .. s) = IF 1 > s THEN 0 ELSE s - 1 + 1
        BY <3>1, FS_Interval, Zenon
    <3> QED BY <1>0, <3>2
  <2> DEFINE g == [k \in 1 .. s |-> <<f, k>>]
  <2>2. g \in [1 .. s -> F] /\ \A j, k \in 1 .. s : g[j] = g[k] => j = k
      OBVIOUS
  <2>3. \A x \in F : \E k \in 1 .. s : g[k] = x
      OBVIOUS
  <2> HIDE DEF g, F
  <2>4. g \in Bijection(1 .. s, F)
      BY <2>2, <2>3, Fun_IsBij
  <2>5. ExistsBijection(1 .. s, F)
      BY <2>4 DEF ExistsBijection
  <2> QED BY <2>1, <2>5, FS_Bijection
<1> HIDE DEF B, F, s
<1>4. IsFiniteSet(B \cup F) /\ Cardinality(B \cup F) = n + s
  <2>1. IsFiniteSet(B) /\ Cardinality(B) = n /\ s \in Nat
      BY DEF AddedUp, B, s
  <2>2. /\ IsFiniteSet(B \cup F)
        /\ Cardinality(B \cup F) = Cardinality(B) + Cardinality(F) - Cardinality(B \cap F)
      BY <1>3, <2>1, FS_Union
  <2>3. Cardinality(B \cap F) = 0
      BY <1>2, FS_EmptySet
  <2> QED BY <1>3, <2>1, <2>2, <2>3
<1> QED BY <1>1, <1>4 DEF AddedUp, s

\* Each file is taken once and leaves what is left; what is taken fits the limit.
TakenFits(p) ==
    /\ \A f, g \in p.got : f.path = g.path => f = g
    /\ \A f \in p.got : f.path \notin p.left
    /\ p.at \in {"opening", "reading", "checking"} => p.path \in p.left
    /\ p.at \in {"reading", "checking"} => p.node \in Nodes
    /\ p.at = "checking" => p.content \in A!Contents /\ p.total + p.content.size <= MaxTotal
    /\ p.total <= MaxTotal
    /\ AddedUp(p.got, p.total)

PathsOf(files) == {f.path : f \in files}

\* What is staged is what was taken; what is renamed, or in the database, has its
\* name and its files, whatever is in them.
DiskFits ==
    \A i \in Ids :
        /\ pub[i].at = "staged" => dir[i] = "staging" /\ disk[i] = pub[i].got
        /\ pub[i].at = "saving" \/ i \in stored =>
              dir[i] = "final" /\ PathsOf(disk[i]) = PathsOf(pub[i].got)
        /\ i \in stored => pub[i].at = "done"

ReadsFit ==
    \A k \in Readers :
        /\ reader[k].at \in {"reading", "done"} => reader[k].id \in stored
        /\ reader[k].at = "done" =>
              [path |-> reader[k].path, content |-> reader[k].content] \in pub[reader[k].id].got

ReviewInv == ReviewTypes /\ (\A i \in Ids : TakenFits(pub[i])) /\ DiskFits /\ ReadsFit

LEMMA ReviewInit == A!Init => ReviewInv
<1> SUFFICES ASSUME A!Init PROVE ReviewInv
    OBVIOUS
<1> USE ServicesAssumption DEF A!ArtifactAssumption, A!Init, A!NoPub
<1>1. ReviewTypes
    BY DEF ReviewTypes, Publications, PubSteps, Reads
<1>2. \A i \in Ids : TakenFits(pub[i])
  <2>1. AddedUp(A!NoPub.got, A!NoPub.total)
      BY NothingAddedUp
  <2>2. TakenFits(A!NoPub)
      BY <2>1 DEF TakenFits
  <2> QED BY <2>2
<1>3. DiskFits /\ ReadsFit
    BY DEF DiskFits, ReadsFit
<1> QED BY <1>1, <1>2, <1>3 DEF ReviewInv

\* A step of a publication that touches no disk and no database.
LEMMA PublicationStep ==
    ASSUME ReviewInv, NEW id \in Ids, NEW record \in Publications,
           A!Publication(id, record), TakenFits(record),
           pub[id].at # "done", record.at \notin {"staged", "saving"}
    PROVE  ReviewInv'
<1> USE DEF A!Publication, A!workspace
<1>0. ReviewTypes /\ DiskFits /\ ReadsFit /\ \A i \in Ids : TakenFits(pub[i])
    BY DEF ReviewInv
<1>1. pub' = [pub EXCEPT ![id] = record] /\ pub \in [Ids -> Publications]
    BY <1>0 DEF ReviewTypes
<1>2. id \notin stored
    BY <1>0 DEF DiskFits
<1>3. ReviewTypes'
    BY <1>0, <1>1 DEF ReviewTypes
<1>4. \A i \in Ids : TakenFits(pub'[i])
    BY <1>0, <1>1
<1>5. DiskFits'
    BY <1>0, <1>1, <1>2 DEF DiskFits
<1>6. ReadsFit'
    BY <1>0, <1>1, <1>2 DEF ReadsFit, ReviewTypes
<1> QED BY <1>3, <1>4, <1>5, <1>6 DEF ReviewInv

LEMMA FailStep ==
    ASSUME ReviewInv, NEW id \in Ids, A!Fail(id), pub[id].at # "done"
    PROVE  ReviewInv'
<1>1. pub[id] \in Publications /\ TakenFits(pub[id])
    BY DEF ReviewInv, ReviewTypes
<1> DEFINE record == [pub[id] EXCEPT !.at = "refused"]
<1>2. record \in Publications /\ record.at = "refused"
    BY <1>1 DEF Publications, PubSteps
<1>3. TakenFits(record)
    BY <1>1 DEF TakenFits, Publications
<1>4. A!Publication(id, record)
    BY DEF A!Fail
<1> HIDE DEF record
<1> QED BY <1>2, <1>3, <1>4, PublicationStep

\* A publication goes on to another step with what it has.
LEMMA PublicationMoves ==
    ASSUME ReviewTypes, NEW id \in Ids, NEW to \in PubSteps, pub' = [pub EXCEPT ![id].at = to]
    PROVE  /\ pub' \in [Ids -> Publications]
           /\ pub'[id].at = to
           /\ \A i \in Ids : /\ pub'[i].got = pub[i].got /\ pub'[i].left = pub[i].left
                             /\ pub'[i].total = pub[i].total
                             /\ i # id => pub'[i] = pub[i]
<1> DEFINE record == [pub[id] EXCEPT !.at = to]
<1>1. pub \in [Ids -> Publications] /\ pub[id] \in Publications
    BY DEF ReviewTypes
<1>2. /\ record \in Publications /\ record.at = to /\ record.got = pub[id].got
      /\ record.left = pub[id].left /\ record.total = pub[id].total
    BY <1>1 DEF Publications
<1>3. pub' = [pub EXCEPT ![id] = record]
    OBVIOUS
<1> HIDE DEF record
<1> QED BY <1>1, <1>2, <1>3

LEMMA ReviewStep == ReviewInv /\ [A!Next]_(A!vars) => ReviewInv'
<1> SUFFICES ASSUME ReviewInv, [A!Next]_(A!vars) PROVE ReviewInv'
    OBVIOUS
<1> USE ServicesAssumption DEF A!ArtifactAssumption, A!workspace
<1>0. /\ ReviewTypes /\ DiskFits /\ ReadsFit
      /\ \A i \in Ids : TakenFits(pub[i]) /\ pub[i] \in Publications
    BY DEF ReviewInv, ReviewTypes
<1>1. ASSUME NEW p \in Paths, NEW n \in Nodes \cup {NoFile}, A!Replace(p, n) PROVE ReviewInv'
  <2>1. ReviewTypes' BY <1>0, <1>1 DEF A!Replace, ReviewTypes
  <2>2. (\A i \in Ids : TakenFits(pub'[i])) /\ DiskFits' /\ ReadsFit'
      BY <1>0, <1>1 DEF A!Replace, DiskFits, ReadsFit
  <2> QED BY <2>1, <2>2 DEF ReviewInv
<1>2. ASSUME NEW n \in Nodes, A!Write(n) PROVE ReviewInv'
  <2>1. ReviewTypes' BY <1>0, <1>2 DEF A!Write, ReviewTypes
  <2>2. (\A i \in Ids : TakenFits(pub'[i])) /\ DiskFits' /\ ReadsFit'
      BY <1>0, <1>2 DEF A!Write, DiskFits, ReadsFit
  <2> QED BY <2>1, <2>2 DEF ReviewInv
<1>3. ASSUME NEW id \in Ids, NEW paths \in SUBSET Paths, A!Publish(id, paths) PROVE ReviewInv'
  <2> DEFINE record == [A!NoPub EXCEPT !.at = "next", !.left = paths]
  <2>1. record \in Publications /\ record.at = "next" BY DEF A!NoPub, Publications, PubSteps
  <2>2. TakenFits(record) BY NothingAddedUp DEF A!NoPub, TakenFits
  <2>3. A!Publication(id, record) /\ pub[id].at # "done" BY <1>3 DEF A!Publish
  <2> HIDE DEF record
  <2> QED BY <2>1, <2>2, <2>3, PublicationStep
<1>4. ASSUME NEW id \in Ids, NEW p \in Paths, A!Look(id, p) PROVE ReviewInv'
  <2> DEFINE record == [pub[id] EXCEPT !.at = "opening", !.path = p]
  <2>0. pub[id].at = "next" /\ p \in pub[id].left BY <1>4 DEF A!Look
  <2>1. CASE A!Fail(id) BY <2>0, <2>1, FailStep
  <2>2. CASE A!Publication(id, record)
    <3>1. record \in Publications /\ record.at = "opening" BY <1>0 DEF Publications, PubSteps
    <3>2. TakenFits(record) BY <1>0, <2>0 DEF TakenFits, Publications
    <3> HIDE DEF record
    <3> QED BY <2>0, <2>2, <3>1, <3>2, PublicationStep
  <2> QED BY <1>4, <2>1, <2>2 DEF A!Look
<1>5. ASSUME NEW id \in Ids, A!Open(id) PROVE ReviewInv'
  <2> DEFINE n == where[pub[id].path]
             record == [pub[id] EXCEPT !.at = "reading", !.node = n]
  <2>0. pub[id].at = "opening" /\ pub[id].path \in Paths
      BY <1>0, <1>5 DEF A!Open, TakenFits, Publications
  <2>1. CASE A!Fail(id) BY <2>0, <2>1, FailStep
  <2>2. CASE A!Publication(id, record) /\ n # NoFile
    <3>0. n \in Nodes BY <1>0, <2>0, <2>2 DEF ReviewTypes
    <3>1. record \in Publications /\ record.at = "reading" BY <1>0, <3>0 DEF Publications, PubSteps
    <3>2. TakenFits(record) BY <1>0, <2>0, <3>0 DEF TakenFits, Publications
    <3> HIDE DEF record
    <3> QED BY <2>0, <2>2, <3>1, <3>2, PublicationStep
  <2> QED BY <1>5, <2>1, <2>2 DEF A!Open
<1>6. ASSUME NEW id \in Ids, A!Read(id) PROVE ReviewInv'
  <2> DEFINE n == pub[id].node
             content == [node |-> n, size |-> size[n]]
             record == [pub[id] EXCEPT !.at = "checking", !.content = content]
  <2>0. pub[id].at = "reading" /\ n \in Nodes /\ size[n] \in 0 .. MaxSize
      BY <1>0, <1>6 DEF A!Read, TakenFits, ReviewTypes
  <2>1. CASE A!Fail(id) BY <2>0, <2>1, FailStep
  <2>2. CASE A!Publication(id, record) /\ ~ (size[n] > A!Room(id))
    <3>0. content \in A!Contents /\ pub[id].total + content.size <= MaxTotal
        BY <1>0, <2>0, <2>2 DEF A!Contents, A!Room, Publications
    <3> HIDE DEF content
    <3>1. record \in Publications /\ record.at = "checking" BY <1>0, <3>0 DEF Publications, PubSteps
    <3>2. TakenFits(record) BY <1>0, <2>0, <3>0 DEF TakenFits, Publications
    <3> HIDE DEF record
    <3> QED BY <2>0, <2>2, <3>1, <3>2, PublicationStep
  <2> QED BY <1>6, <2>1, <2>2 DEF A!Read
<1>7. ASSUME NEW id \in Ids, A!Recheck(id) PROVE ReviewInv'
  <2> DEFINE p == pub[id]
             f == [path |-> p.path, content |-> p.content]
             record == A!Taken(id)
  <2>0. /\ p.at = "checking" /\ p.path \in p.left /\ p.path \in Paths /\ p.content \in A!Contents
        /\ p.total + p.content.size <= MaxTotal
      BY <1>0, <1>7 DEF A!Recheck, TakenFits, Publications
  <2>1. CASE A!Fail(id) BY <2>0, <2>1, FailStep
  <2>2. CASE A!Publication(id, record)
    <3>0. f \in A!Files /\ f.path = p.path /\ p.content.size \in Nat BY <2>0 DEF A!Files, A!Contents
    <3>1. /\ record.at \in {"staging", "next"} /\ record.left = p.left \ {p.path}
          /\ record.got = p.got \cup {f} /\ record.total = p.total + p.content.size
        BY <1>0, <2>0 DEF A!Taken, Publications
    <3>3. p.total + p.content.size \in Nat /\ p.got \cup {f} \in SUBSET A!Files
        BY <1>0, <3>0 DEF Publications
    <3> DEFINE at == IF p.left \ {p.path} = {} THEN "staging" ELSE "next"
               left == p.left \ {p.path}
               got == p.got \cup {f}
               total == p.total + p.content.size
    <3>4. record \in Publications
      <4>1. record = [p EXCEPT !.at = at, !.left = left, !.got = got, !.total = total]
          BY DEF A!Taken
      <4>2. at \in PubSteps /\ left \in SUBSET Paths /\ got \in SUBSET A!Files /\ total \in Nat
          BY <1>0, <3>3 DEF Publications, PubSteps
      <4> HIDE DEF record, at, left, got, total
      <4> QED BY <1>0, <4>1, <4>2 DEF Publications
    <3> HIDE DEF f, record
    <3>5. AddedUp(p.got, p.total) /\ f \notin p.got /\ p.total \in Nat
        BY <1>0, <2>0, <3>0 DEF TakenFits, Publications
    <3>6. AddedUp(p.got \cup {f}, p.total + p.content.size)
        BY <3>0, <3>5, OneMoreAddedUp DEF f
    <3>2. TakenFits(record) BY <1>0, <2>0, <3>0, <3>1, <3>6 DEF TakenFits
    <3> QED BY <2>0, <2>2, <3>1, <3>2, <3>4, PublicationStep
  <2> QED BY <1>7, <2>1, <2>2 DEF A!Recheck
<1>8. ASSUME NEW id \in Ids, A!Stage(id) PROVE ReviewInv'
  <2>0. /\ pub[id].at = "staging" /\ id \notin stored
        /\ pub' = [pub EXCEPT ![id].at = "staged"]
        /\ dir' = [dir EXCEPT ![id] = "staging"] /\ disk' = [disk EXCEPT ![id] = pub[id].got]
        /\ UNCHANGED <<where, size, stored, reader>>
      BY <1>0, <1>8 DEF A!Stage, DiskFits
  <2>5. /\ pub' \in [Ids -> Publications]
        /\ \A i \in Ids : /\ pub'[i].got = pub[i].got /\ pub'[i].left = pub[i].left
                          /\ pub'[i].total = pub[i].total
                          /\ i # id => pub'[i] = pub[i]
        /\ pub'[id].at \in {"staged", "saving", "done", "refused"}
      BY <1>0, <2>0, PublicationMoves DEF PubSteps
  <2>1. ReviewTypes' BY <1>0, <2>0, <2>5 DEF ReviewTypes, Publications
  <2>6. \A i \in Ids : i # id => TakenFits(pub'[i]) BY <1>0, <2>5
  <2>2. \A i \in Ids : TakenFits(pub'[i]) BY <1>0, <2>5, <2>6 DEF TakenFits
  <2>3. DiskFits' BY <1>0, <2>0, <2>5 DEF ReviewTypes, DiskFits
  <2>4. ReadsFit' BY <1>0, <2>0, <2>5 DEF ReviewTypes, ReadsFit
  <2> QED BY <2>1, <2>2, <2>3, <2>4 DEF ReviewInv
<1>9. ASSUME NEW id \in Ids, A!StageFails(id) PROVE ReviewInv'
  <2>0. /\ pub[id].at \in {"staging", "staged"} /\ id \notin stored
        /\ pub' = [pub EXCEPT ![id].at = "refused"]
        /\ dir' = [dir EXCEPT ![id] = "none"] /\ disk' = [disk EXCEPT ![id] = {}]
        /\ UNCHANGED <<where, size, stored, reader>>
      BY <1>0, <1>9 DEF A!StageFails, DiskFits
  <2>5. /\ pub' \in [Ids -> Publications]
        /\ \A i \in Ids : /\ pub'[i].got = pub[i].got /\ pub'[i].left = pub[i].left
                          /\ pub'[i].total = pub[i].total
                          /\ i # id => pub'[i] = pub[i]
        /\ pub'[id].at \in {"staged", "saving", "done", "refused"}
      BY <1>0, <2>0, PublicationMoves DEF PubSteps
  <2>1. ReviewTypes' BY <1>0, <2>0, <2>5 DEF ReviewTypes, Publications
  <2>6. \A i \in Ids : i # id => TakenFits(pub'[i]) BY <1>0, <2>5
  <2>2. \A i \in Ids : TakenFits(pub'[i]) BY <1>0, <2>5, <2>6 DEF TakenFits
  <2>3. DiskFits' BY <1>0, <2>0, <2>5 DEF ReviewTypes, DiskFits
  <2>4. ReadsFit' BY <1>0, <2>0, <2>5 DEF ReviewTypes, ReadsFit
  <2> QED BY <2>1, <2>2, <2>3, <2>4 DEF ReviewInv
<1>10. ASSUME NEW id \in Ids, A!Rename(id) PROVE ReviewInv'
  <2>0. /\ pub[id].at = "staged" /\ id \notin stored /\ disk[id] = pub[id].got
        /\ pub' = [pub EXCEPT ![id].at = "saving"]
        /\ dir' = [dir EXCEPT ![id] = "final"]
        /\ UNCHANGED <<where, size, disk, stored, reader>>
      BY <1>0, <1>10 DEF A!Rename, DiskFits
  <2>5. /\ pub' \in [Ids -> Publications]
        /\ \A i \in Ids : /\ pub'[i].got = pub[i].got /\ pub'[i].left = pub[i].left
                          /\ pub'[i].total = pub[i].total
                          /\ i # id => pub'[i] = pub[i]
        /\ pub'[id].at \in {"staged", "saving", "done", "refused"}
      BY <1>0, <2>0, PublicationMoves DEF PubSteps
  <2>1. ReviewTypes' BY <1>0, <2>0, <2>5 DEF ReviewTypes, Publications
  <2>6. \A i \in Ids : i # id => TakenFits(pub'[i]) BY <1>0, <2>5
  <2>2. \A i \in Ids : TakenFits(pub'[i]) BY <1>0, <2>5, <2>6 DEF TakenFits
  <2>3. DiskFits' BY <1>0, <2>0, <2>5 DEF ReviewTypes, DiskFits
  <2>4. ReadsFit' BY <1>0, <2>0, <2>5 DEF ReviewTypes, ReadsFit
  <2> QED BY <2>1, <2>2, <2>3, <2>4 DEF ReviewInv
<1>11. ASSUME NEW id \in Ids, A!Save(id) PROVE ReviewInv'
  <2>0. PICK to \in {"done", "refused"} :
        /\ pub[id].at = "saving" /\ id \notin stored
        /\ pub' = [pub EXCEPT ![id].at = to]
        /\ stored' = IF to = "done" THEN stored \cup {id} ELSE stored
        /\ UNCHANGED <<where, size, dir, disk, reader>>
      BY <1>0, <1>11 DEF A!Save, DiskFits
  <2>5. /\ pub' \in [Ids -> Publications]
        /\ \A i \in Ids : /\ pub'[i].got = pub[i].got /\ pub'[i].left = pub[i].left
                          /\ pub'[i].total = pub[i].total
                          /\ i # id => pub'[i] = pub[i]
        /\ pub'[id].at \in {"staged", "saving", "done", "refused"}
      BY <1>0, <2>0, PublicationMoves DEF PubSteps
  <2>1. ReviewTypes' BY <1>0, <2>0, <2>5 DEF ReviewTypes, Publications
  <2>6. \A i \in Ids : i # id => TakenFits(pub'[i]) BY <1>0, <2>5
  <2>2. \A i \in Ids : TakenFits(pub'[i]) BY <1>0, <2>5, <2>6 DEF TakenFits
  <2>3. DiskFits' BY <1>0, <2>0, <2>5 DEF ReviewTypes, DiskFits
  <2>4. ReadsFit' BY <1>0, <2>0, <2>5 DEF ReviewTypes, ReadsFit
  <2> QED BY <2>1, <2>2, <2>3, <2>4 DEF ReviewInv
<1>12. CASE A!Crash
  <2>0. UNCHANGED <<where, size, dir, disk, stored>>
      BY <1>12 DEF A!Crash
  <2>1. \A i \in Ids :
            /\ pub'[i] \in Publications /\ pub'[i].at \in {"idle", "done", "refused"}
            /\ i \in stored => pub'[i].at = "done"
            /\ pub'[i].got = pub[i].got /\ pub'[i].left = pub[i].left /\ pub'[i].total = pub[i].total
      BY <1>0, <1>12 DEF A!Crash, DiskFits, Publications, PubSteps
  <2>2. \A k \in Readers :
            /\ reader'[k] \in Reads /\ reader'[k].at # "reading"
            /\ reader'[k].at = "done" => reader'[k] = reader[k]
      BY <1>0, <1>12 DEF A!Crash, ReviewTypes, Reads
  <2>3. ReviewTypes' BY <1>0, <1>12, <2>0, <2>1, <2>2 DEF A!Crash, ReviewTypes
  <2>4. \A i \in Ids : TakenFits(pub'[i]) BY <1>0, <2>1 DEF TakenFits
  <2>5. DiskFits'
    <3> SUFFICES ASSUME NEW i \in Ids, i \in stored
                 PROVE  dir[i] = "final" /\ PathsOf(disk[i]) = PathsOf(pub'[i].got)
        BY <2>0, <2>1 DEF DiskFits
    <3> QED BY <1>0, <2>1 DEF DiskFits
  <2>6. ReadsFit'
    <3> SUFFICES ASSUME NEW k \in Readers, reader'[k].at = "done"
                 PROVE  /\ reader[k].id \in stored
                        /\ [path |-> reader[k].path, content |-> reader[k].content] \in pub'[reader[k].id].got
        BY <2>0, <2>2 DEF ReadsFit, Reads
    <3>1. reader[k].at = "done" BY <2>2
    <3>2. reader[k].id \in stored /\ reader[k].id \in Ids BY <1>0, <3>1 DEF ReadsFit, ReviewTypes
    <3> QED BY <1>0, <2>1, <3>1, <3>2 DEF ReadsFit
  <2> QED BY <2>3, <2>4, <2>5, <2>6 DEF ReviewInv
<1>13. ASSUME NEW id \in Ids, NEW f \in A!Files, NEW content \in A!Contents, A!Tamper(id, f, content)
       PROVE ReviewInv'
  <2> DEFINE g == [f EXCEPT !.content = content]
  <2>0. /\ dir[id] = "final" /\ f \in disk[id]
        /\ disk' = [disk EXCEPT ![id] = (@ \ {f}) \cup {g}]
        /\ UNCHANGED <<where, size, pub, dir, stored, reader>>
      BY <1>13 DEF A!Tamper
  <2>1. g \in A!Files /\ g.path = f.path BY DEF A!Files
  <2> HIDE DEF g
  <2>2. PathsOf(disk'[id]) = PathsOf(disk[id])
      BY <1>0, <2>0, <2>1 DEF PathsOf, ReviewTypes
  <2>3. \A i \in Ids : i # id => disk'[i] = disk[i] BY <1>0, <2>0 DEF ReviewTypes
  <2>4. ReviewTypes' BY <1>0, <2>0, <2>1 DEF ReviewTypes
  <2>5. DiskFits' BY <1>0, <2>0, <2>2, <2>3 DEF DiskFits
  <2>6. (\A i \in Ids : TakenFits(pub'[i])) /\ ReadsFit' BY <1>0, <2>0 DEF ReadsFit
  <2> QED BY <2>4, <2>5, <2>6 DEF ReviewInv
<1>14. ASSUME NEW k \in Readers, NEW id \in Ids, NEW p \in Paths, A!AskRead(k, id, p) PROVE ReviewInv'
  <2>0. PICK at \in {"reading", "refused"} :
        /\ id \in stored
        /\ reader' = [reader EXCEPT ![k] = [at |-> at, id |-> id, path |-> p, content |-> NoFile]]
        /\ UNCHANGED <<where, size, pub, dir, disk, stored>>
      BY <1>14 DEF A!AskRead
  <2>1. ReviewTypes' BY <1>0, <2>0 DEF ReviewTypes, Reads
  <2>2. ReadsFit' BY <1>0, <2>0 DEF ReviewTypes, ReadsFit
  <2>3. (\A i \in Ids : TakenFits(pub'[i])) /\ DiskFits' BY <1>0, <2>0 DEF DiskFits
  <2> QED BY <2>1, <2>2, <2>3 DEF ReviewInv
<1>15. ASSUME NEW k \in Readers, NEW f \in A!Files, A!Answer(k, f) PROVE ReviewInv'
  <2>0. /\ reader[k].at = "reading" /\ reader[k].id \in stored /\ f.path = reader[k].path
        /\ UNCHANGED <<where, size, pub, dir, disk, stored>>
      BY <1>0, <1>15 DEF A!Answer, ReadsFit
  <2>1. f = [path |-> reader[k].path, content |-> f.content] /\ f.content \in A!Contents
      BY <2>0 DEF A!Files
  <2>2. CASE f \in pub[reader[k].id].got
    <3>1. reader' = [reader EXCEPT ![k].content = f.content, ![k].at = "done"]
        BY <1>15, <2>2 DEF A!Answer
    <3>2. ReviewTypes' BY <1>0, <2>0, <2>1, <3>1 DEF ReviewTypes, Reads
    <3>3. ReadsFit' BY <1>0, <2>0, <2>1, <2>2, <3>1 DEF ReviewTypes, ReadsFit, Reads
    <3> QED BY <1>0, <2>0, <3>2, <3>3 DEF ReviewInv, DiskFits
  <2>3. CASE f \notin pub[reader[k].id].got
    <3>1. reader' = [reader EXCEPT ![k].at = "refused"]
        BY <1>15, <2>3 DEF A!Answer
    <3>2. ReviewTypes' BY <1>0, <2>0, <3>1 DEF ReviewTypes, Reads
    <3>3. ReadsFit' BY <1>0, <2>0, <3>1 DEF ReviewTypes, ReadsFit, Reads
    <3> QED BY <1>0, <2>0, <3>2, <3>3 DEF ReviewInv, DiskFits
  <2> QED BY <2>2, <2>3
<1>16. CASE UNCHANGED A!vars
  BY <1>0, <1>16 DEF A!vars, ReviewInv, ReviewTypes, DiskFits, ReadsFit
<1> QED
  BY <1>1, <1>2, <1>3, <1>4, <1>5, <1>6, <1>7, <1>8, <1>9, <1>10, <1>11, <1>12, <1>13, <1>14, <1>15, <1>16
  DEF A!Next

\* What the database knows is on disk, under its name and with all its files, is no
\* larger than the limit, and what is answered is what was published, though files change
\* while they are read, writes fail, the server crashes and the copies are tampered with.
THEOREM ArtifactsAreConsistent == Spec => []ArtifactsConsistent
<1>1. Init => ReviewInv
    BY ReviewInit DEF Init
<1>2. ReviewInv /\ [Next]_vars => ReviewInv'
    BY ReviewStep, StepOfEach
<1>3. ReviewInv => ArtifactsConsistent
  <2> SUFFICES ASSUME ReviewInv
               PROVE  ArtifactsConsistent
      OBVIOUS
  <2>1. A!TypeOK
      BY DEF ReviewInv, ReviewTypes, TakenFits, A!TypeOK, Publications, PubSteps
  <2>2. A!StoredIsOnDisk
      BY DEF ReviewInv, ReviewTypes, DiskFits, PathsOf, A!StoredIsOnDisk
  <2>3. A!ReadsPublished
      BY DEF ReviewInv, ReadsFit, A!ReadsPublished
  <2>4. A!WithinLimit
    <3>1. stored \subseteq Ids
        BY DEF ReviewInv, ReviewTypes
    <3>2. \A i \in Ids : A!SizeOf(pub[i].got) = pub[i].total /\ pub[i].total <= MaxTotal
      <4>1. \A i \in Ids : TakenFits(pub[i])
          BY DEF ReviewInv
      <4>2. \A i \in Ids : AddedUp(pub[i].got, pub[i].total) /\ pub[i].total <= MaxTotal
          BY <4>1 DEF TakenFits
      <4>3. \A i \in Ids : A!SizeOf(pub[i].got) = pub[i].total
          BY <4>2, SameCardinality, Zenon DEF AddedUp, A!SizeOf
      <4> QED BY <4>2, <4>3
    <3> QED BY <3>1, <3>2 DEF A!WithinLimit
  <2> QED BY <2>1, <2>2, <2>3, <2>4 DEF ArtifactsConsistent
<1> QED BY <1>1, <1>2, <1>3, PTL DEF Spec

(***************************************************************************)
(* The logins                                                              *)
(***************************************************************************)
LoginRequests == [op : {"none", "login", "logout", "remove", "discover"}, i : Integrations \cup {NoLogin},
                  who : L!Who \cup {NoLogin}, at : L!Steps, seen : L!Statuses]
Changes == L!Statuses \cup {"kept", "own", "disown"}
Waiting == {"patch", "reject", "finish", "write"}

LoginTypes ==
    /\ server \in {"up", "down"}
    /\ status \in [Integrations -> L!Statuses]
    /\ own \in [LoginAgents -> SUBSET Integrations]
    /\ tokens \subseteq L!Keys
    /\ writes \in Seq([by : Requests, to : Changes])
    /\ logins \in [L!Keys -> Requests \cup {NoLogin}]
    /\ request \in [Requests -> LoginRequests]
    /\ child \in [Requests -> L!ChildStates]

\* What a request q is about, and its login process c, fit the step it is at.
RequestFits(q, c) ==
    /\ q.at # "idle" => q.i \in Integrations /\ q.who \in L!Who
    /\ q.at = "idle" => q.op = "none"
    /\ q.at \in {"idle", "pause", "mkdir"} => c = "none"
    /\ q.at \in {"pause", "mkdir", "patch", "url", "reject", "listening", "deaf", "finish"} => q.op = "login"
    /\ q.at \in {"patch", "reject"} => q.who = Shared
    /\ q.at = "call" => q.op = "discover" \/ (q.op = "login" /\ q.seen = "connected")

\* What is queued for a request fits the step it waits at.
WriteFits(q, to, c) ==
    /\ q.at \in Waiting
    /\ q.at = "patch" => to = "connecting"
    /\ q.at = "reject" => to = "error"
    /\ q.at = "finish" => to \in {"connected", "error", "own"} /\ (q.who = Shared => to # "own")
    /\ q.at = "write" => to # "own" /\ (to = "connecting" => q.op = "discover" /\ q.seen = "connecting")
    /\ to = "own" => c = "ok"

WritesFit ==
    /\ \A n \in 1 .. Len(writes) :
          WriteFits(request[writes[n].by], writes[n].to, child[writes[n].by])
    /\ \A m, n \in 1 .. Len(writes) : writes[m].by = writes[n].by => m = n

MapFits ==
    \A k \in L!Keys : logins[k] # NoLogin => L!Key(logins[k]) = k /\ child[logins[k]] # "none"

\* r can still settle what shows "connecting", or never will: it is at q.  A login that
\* has yet to write "connecting" is not needed for that, and its write may fail.
Settles(q) ==
    \/ q.op = "login" /\ q.who = Shared /\ q.at \in {"url", "reject", "listening", "finish"}
    \/ q.at \in {"deaf", "unsaved"}

ConnectingFits ==
    \A i \in Integrations : server = "up" /\ status[i] = "connecting" =>
        \E r \in Requests : request[r].i = i /\ (Settles(request[r]) \/ L!WritesBack(r))

LoginInv ==
    /\ LoginTypes
    /\ \A r \in Requests : RequestFits(request[r], child[r])
    /\ WritesFit
    /\ MapFits
    /\ ConnectingFits
    /\ L!OwnByLogin

LEMMA LoginInit == L!Init => LoginInv
<1> SUFFICES ASSUME L!Init PROVE LoginInv
    OBVIOUS
<1> USE ServicesAssumption DEF L!IntegrationsAssumption, L!Init
<1>1. LoginTypes
    BY DEF LoginTypes, LoginRequests, L!Idle, L!Statuses, L!Steps, L!ChildStates, L!Keys
<1>2. \A r \in Requests : RequestFits(request[r], child[r])
    BY DEF RequestFits, L!Idle
<1>3. WritesFit /\ MapFits /\ ConnectingFits /\ L!OwnByLogin
    BY DEF WritesFit, MapFits, ConnectingFits, L!OwnByLogin
<1> QED BY <1>1, <1>2, <1>3 DEF LoginInv

\* A step of one request r, which comes to be q: it queues one change at most, and only
\* if it waits for none; it is entered in the Map under its own key only.
LEMMA RequestMoves ==
    ASSUME LoginInv, server' = server, status' = status, own' = own, tokens' \subseteq L!Keys,
           NEW r \in Requests, NEW q \in LoginRequests, request' = [request EXCEPT ![r] = q],
           \/ request[r].at = "idle"
           \/ q.op = request[r].op /\ q.i = request[r].i /\ q.who = request[r].who /\ q.seen = request[r].seen,
           child' \in [Requests -> L!ChildStates],
           \A s \in Requests : /\ child[s] = "ok" => child'[s] = "ok"
                               /\ child[s] = "none" /\ s # r => child'[s] = "none"
                               /\ child[s] # "none" => child'[s] # "none",
           RequestFits(q, child'[r]),
           \/ q = request[r] /\ writes' = writes
           \/ request[r].at \notin Waiting /\ q.at \notin Waiting /\ writes' = writes
           \/ /\ request[r].at \notin Waiting
              /\ \E to \in Changes :
                    writes' = Append(writes, [by |-> r, to |-> to]) /\ WriteFits(q, to, child'[r]),
           logins' \in [L!Keys -> Requests \cup {NoLogin}],
           \A k \in L!Keys : \/ logins'[k] = NoLogin
                             \/ logins'[k] = logins[k]
                             \/ k = <<q.i, q.who>> /\ logins'[k] = r /\ child'[r] # "none",
           Settles(request[r]) => Settles(q)
    PROVE  LoginInv'
<1> USE ServicesAssumption DEF L!IntegrationsAssumption
<1>0. /\ LoginTypes /\ WritesFit /\ MapFits /\ ConnectingFits /\ L!OwnByLogin
      /\ \A s \in Requests : RequestFits(request[s], child[s])
    BY DEF LoginInv
<1>1. /\ request'[r] = q /\ \A s \in Requests : s # r => request'[s] = request[s]
      /\ request' \in [Requests -> LoginRequests]
    BY <1>0 DEF LoginTypes
<1>2. LoginTypes'
  <2> DEFINE Entry == [by : Requests, to : Changes]
  <2>1. writes' \in Seq(Entry)
    <3>1. writes \in Seq(Entry)
        BY <1>0 DEF LoginTypes
    <3>2. ASSUME NEW to \in Changes, writes' = Append(writes, [by |-> r, to |-> to])
          PROVE  writes' \in Seq(Entry)
      <4>1. [by |-> r, to |-> to] \in Entry
          OBVIOUS
      <4> HIDE DEF Entry
      <4> QED BY <3>1, <3>2, <4>1
    <3> QED BY <3>1, <3>2
  <2> QED BY <1>0, <1>1, <2>1 DEF LoginTypes
<1>3. \A s \in Requests : RequestFits(request'[s], child'[s])
    BY <1>0, <1>1 DEF RequestFits
<1>4. WritesFit'
  <2>0. writes \in Seq([by : Requests, to : Changes])
      BY <1>0 DEF LoginTypes
  <2> DEFINE Entry == [by : Requests, to : Changes]
  <2>5. \A n \in 1 .. Len(writes) : writes[n] \in Entry
    <3>1. writes \in Seq(Entry) BY <2>0
    <3> HIDE DEF Entry
    <3> QED BY <3>1
  <2>1. \A n \in 1 .. Len(writes) :
            /\ writes[n].by \in Requests
            /\ WriteFits(request[writes[n].by], writes[n].to, child[writes[n].by])
            /\ request[writes[n].by].at \in Waiting
      BY <1>0, <2>5 DEF WritesFit, WriteFits
  <2>2. \A n \in 1 .. Len(writes) :
            writes[n].by # r \/ q = request[r] =>
                WriteFits(request'[writes[n].by], writes[n].to, child'[writes[n].by])
      BY <1>1, <2>1 DEF WriteFits
  <2>3. CASE q = request[r] /\ writes' = writes
      BY <1>0, <2>2, <2>3 DEF WritesFit
  <2>4. CASE request[r].at \notin Waiting
    <3>1. \A n \in 1 .. Len(writes) : writes[n].by # r
        BY <2>1, <2>4
    <3>2. CASE writes' = writes
        BY <1>0, <2>2, <3>1, <3>2 DEF WritesFit
    <3>3. ASSUME NEW to \in Changes, writes' = Append(writes, [by |-> r, to |-> to]), WriteFits(q, to, child'[r])
          PROVE  WritesFit'
      <4>1. Len(writes') = Len(writes) + 1 /\ writes'[Len(writes) + 1] = [by |-> r, to |-> to]
            /\ \A n \in 1 .. Len(writes) : writes'[n] = writes[n]
          BY <2>0, <3>3
      <4>2. \A n \in 1 .. Len(writes') :
                WriteFits(request'[writes'[n].by], writes'[n].to, child'[writes'[n].by])
          BY <1>1, <2>0, <2>2, <3>1, <3>3, <4>1
      <4>3. \A m, n \in 1 .. Len(writes') : writes'[m].by = writes'[n].by => m = n
          BY <1>0, <2>0, <3>1, <4>1 DEF WritesFit
      <4> QED BY <4>2, <4>3 DEF WritesFit
    <3> QED BY <2>4, <3>2, <3>3
  <2> QED BY <2>3, <2>4
<1>5. MapFits'
  <2> SUFFICES ASSUME NEW k \in L!Keys, logins'[k] # NoLogin
               PROVE  <<request'[logins'[k]].i, request'[logins'[k]].who>> = k /\ child'[logins'[k]] # "none"
      BY DEF MapFits, L!Key
  <2>1. CASE logins'[k] = logins[k]
    <3>1. logins[k] \in Requests /\ L!Key(logins[k]) = k /\ child[logins[k]] # "none"
        BY <1>0, <2>1 DEF LoginTypes, MapFits
    <3>2. request[logins[k]].at # "idle"
        BY <1>0, <3>1 DEF RequestFits
    <3> QED BY <1>1, <2>1, <3>1, <3>2 DEF L!Key
  <2>2. CASE k = <<q.i, q.who>> /\ logins'[k] = r /\ child'[r] # "none"
      BY <1>1, <2>2 DEF L!Key
  <2> QED BY <2>1, <2>2
<1>6. ConnectingFits'
  <2> SUFFICES ASSUME NEW i \in Integrations, server = "up", status[i] = "connecting"
               PROVE  \E s \in Requests :
                         request'[s].i = i /\ (Settles(request'[s]) \/ L!WritesBack(s)')
      BY DEF ConnectingFits
  <2>1. PICK s \in Requests :
            request[s].i = i /\ (Settles(request[s]) \/ L!WritesBack(s))
      BY <1>0 DEF ConnectingFits
  <2>2. CASE s # r
      BY <1>1, <2>1, <2>2 DEF L!WritesBack
  <2>3. CASE s = r
    <3>2. CASE request[r].at # "idle"
        BY <1>1, <2>1, <2>3, <3>2 DEF L!WritesBack
    <3>3. CASE request[r].at = "idle"
        BY <1>0, <2>1, <2>3, <3>3 DEF Settles, L!WritesBack, RequestFits
    <3> QED BY <3>2, <3>3
  <2> QED BY <2>2, <2>3
<1>7. L!OwnByLogin'
  <2> SUFFICES ASSUME NEW a \in LoginAgents, NEW i \in own[a]
               PROVE  \E s \in Requests : request'[s].i = i /\ request'[s].who = a /\ child'[s] = "ok"
      BY DEF L!OwnByLogin
  <2>1. PICK s \in Requests : request[s].i = i /\ request[s].who = a /\ child[s] = "ok"
      BY <1>0 DEF L!OwnByLogin
  <2>2. request[s].at # "idle"
      BY <1>0, <2>1 DEF RequestFits
  <2> QED BY <1>1, <2>1, <2>2
<1> QED BY <1>2, <1>3, <1>4, <1>5, <1>6, <1>7 DEF LoginInv

LEMMA KillKeeps ==
    ASSUME LoginTypes, NEW S, L!Kill(S)
    PROVE  /\ child' \in [Requests -> L!ChildStates]
           /\ \A s \in Requests : /\ child[s] = "ok" => child'[s] = "ok"
                                  /\ child'[s] = "none" <=> child[s] = "none"
BY DEF LoginTypes, L!Kill, L!ChildStates

\* A request goes on to another step.
LEMMA RequestGoes ==
    ASSUME LoginInv, NEW r \in Requests, NEW at \in L!Steps
    PROVE  LET q == [request[r] EXCEPT !.at = at]
           IN  /\ q \in LoginRequests
               /\ L!Goto(r, at) => request' = [request EXCEPT ![r] = q]
               /\ q.op = request[r].op /\ q.i = request[r].i /\ q.who = request[r].who
               /\ q.seen = request[r].seen /\ q.at = at
<1>1. request[r] \in LoginRequests
    BY DEF LoginInv, LoginTypes
<1> QED BY <1>1 DEF LoginRequests, L!Goto

\* A request of the human: logins that stand in its way leave the Map, their processes
\* are signalled.
LEMMA AskKeeps ==
    ASSUME LoginInv, NEW r \in Requests, NEW op \in LoginOps, NEW i \in Integrations, NEW who \in L!Who,
           L!Ask(r, op, i, who)
    PROVE  LoginInv'
<1> DEFINE q(at) == [op |-> op, i |-> i, who |-> who, at |-> at, seen |-> status[i]]
           Freed == \A k \in L!Keys : logins'[k] \in {NoLogin, logins[k]}
<1> USE ServicesAssumption DEF L!IntegrationsAssumption
<1>0. /\ LoginTypes /\ request[r].at = "idle" /\ RequestFits(request[r], child[r])
      /\ UNCHANGED <<server, status, own, tokens>>
    BY DEF LoginInv, L!Ask
<1>1. /\ child[r] = "none" /\ ~ Settles(request[r]) /\ request[r].at \notin Waiting
      /\ tokens' \subseteq L!Keys
    BY <1>0 DEF RequestFits, Settles, Waiting, LoginTypes
<1>2. \E at \in {"refused", "pause", "mkdir", "logout", "write", "call"} :
          /\ request' = [request EXCEPT ![r] = q(at)]
          /\ at \in {"pause", "mkdir"} => op = "login"
          /\ at = "call" => op = "discover"
          /\ IF at = "write" THEN writes' = Append(writes, [by |-> r, to |-> "removed"])
             ELSE writes' = writes
    BY DEF L!Ask, L!Queue
<1>3. /\ child' \in [Requests -> L!ChildStates]
      /\ \A s \in Requests : /\ child[s] = "ok" => child'[s] = "ok"
                             /\ child'[s] = "none" <=> child[s] = "none"
  <2>1. CASE child' = child
      BY <1>0, <2>1 DEF LoginTypes
  <2>2. CASE \E S : L!Kill(S)
      BY <1>0, <2>2, KillKeeps
  <2> QED BY <2>1, <2>2 DEF L!Ask, L!Abort
<1>4. logins' \in [L!Keys -> Requests \cup {NoLogin}] /\ Freed
  <2>1. logins \in [L!Keys -> Requests \cup {NoLogin}]
      BY <1>0 DEF LoginTypes
  <2>2. CASE logins' = logins
      BY <2>1, <2>2
  <2>3. CASE logins' = [logins EXCEPT ![<<i, who>>] = NoLogin]
      BY <2>1, <2>3
  <2>4. CASE \E w \in L!Who : L!Abort(i, w)
      BY <2>1, <2>4 DEF L!Abort
  <2> QED BY <2>2, <2>3, <2>4 DEF L!Ask, L!Who
<1>5. PICK at \in {"refused", "pause", "mkdir", "logout", "write", "call"} :
          /\ request' = [request EXCEPT ![r] = q(at)]
          /\ at \in {"pause", "mkdir"} => op = "login"
          /\ at = "call" => op = "discover"
          /\ IF at = "write" THEN writes' = Append(writes, [by |-> r, to |-> "removed"])
             ELSE writes' = writes
    BY <1>2
<1>6. q(at) \in LoginRequests /\ RequestFits(q(at), child'[r])
    BY <1>0, <1>1, <1>3, <1>5 DEF LoginTypes, LoginRequests, L!Steps, L!LoginSteps, RequestFits
<1>7. CASE at = "write"
  <2>1. WriteFits(q(at), "removed", child'[r]) /\ "removed" \in Changes
      BY <1>7 DEF WriteFits, Waiting, Changes, L!Statuses
  <2> HIDE DEF q
  <2> QED BY <1>0, <1>1, <1>3, <1>4, <1>5, <1>6, <1>7, <2>1, RequestMoves
<1>8. CASE at # "write"
  <2>1. q(at).at \notin Waiting
      BY <1>8 DEF Waiting
  <2> HIDE DEF q
  <2> QED BY <1>0, <1>1, <1>3, <1>4, <1>5, <1>6, <1>8, <2>1, RequestMoves
<1> QED BY <1>7, <1>8

\* An attempt that fails before there is a URL leaves the Map and is refused, the
\* shared one once that is written.
LEMMA GiveUpKeeps ==
    ASSUME LoginInv, server' = server, status' = status, own' = own, tokens' \subseteq L!Keys,
           NEW r \in Requests, request[r].at = "url", L!GiveUp(r),
           child' \in [Requests -> L!ChildStates],
           \A s \in Requests : /\ child[s] = "ok" => child'[s] = "ok"
                               /\ child'[s] = "none" <=> child[s] = "none"
    PROVE  LoginInv'
<1> DEFINE q(at) == [request[r] EXCEPT !.at = at]
<1> USE ServicesAssumption DEF L!IntegrationsAssumption
<1>0. /\ RequestFits(request[r], child[r]) /\ logins \in [L!Keys -> Requests \cup {NoLogin}]
    BY DEF LoginInv, LoginTypes
<1>1. \A at \in L!Steps :
          /\ q(at) \in LoginRequests
          /\ L!Goto(r, at) => request' = [request EXCEPT ![r] = q(at)]
          /\ q(at).op = request[r].op /\ q(at).i = request[r].i /\ q(at).who = request[r].who
          /\ q(at).seen = request[r].seen /\ q(at).at = at
    BY RequestGoes
<1> HIDE DEF q
<1>2. /\ logins' \in [L!Keys -> Requests \cup {NoLogin}]
      /\ \A k \in L!Keys : logins'[k] \in {NoLogin, logins[k]}
    BY <1>0 DEF L!GiveUp
<1>3. CASE request[r].who = Shared
  <2>1. L!Goto(r, "reject") /\ writes' = Append(writes, [by |-> r, to |-> "error"])
      BY <1>3 DEF L!GiveUp, L!Queue
  <2>2. /\ RequestFits(q("reject"), child'[r]) /\ "error" \in Changes
        /\ WriteFits(q("reject"), "error", child'[r]) /\ request[r].at \notin Waiting
        /\ Settles(request[r]) => Settles(q("reject"))
      BY <1>0, <1>1, <1>3 DEF RequestFits, WriteFits, Changes, L!Statuses, Settles, Waiting, L!Steps, L!LoginSteps
  <2> DEFINE f == q("reject")
  <2>3. /\ f \in LoginRequests /\ request' = [request EXCEPT ![r] = f]
        /\ f.op = request[r].op /\ f.i = request[r].i /\ f.who = request[r].who /\ f.seen = request[r].seen
      BY <1>1, <2>1 DEF L!Steps, L!LoginSteps
  <2>4. /\ RequestFits(f, child'[r]) /\ (Settles(request[r]) => Settles(f))
        /\ \E t \in Changes : writes' = Append(writes, [by |-> r, to |-> t]) /\ WriteFits(f, t, child'[r])
      BY <2>1, <2>2
  <2> HIDE DEF f
  <2> QED BY <1>2, <2>2, <2>3, <2>4, RequestMoves
<1>4. CASE request[r].who # Shared
  <2>1. L!Goto(r, "refused") /\ writes' = writes
      BY <1>4 DEF L!GiveUp
  <2>2. /\ RequestFits(q("refused"), child'[r]) /\ ~ Settles(request[r])
        /\ request[r].at \notin Waiting /\ q("refused").at \notin Waiting
      BY <1>0, <1>1, <1>4 DEF RequestFits, Settles, Waiting, L!Steps, L!LoginSteps
  <2> QED BY <1>1, <1>2, <2>1, <2>2, RequestMoves DEF L!Steps, L!LoginSteps
<1> QED BY <1>3, <1>4

\* What the server does by itself for one request.
LEMMA ServerKeeps ==
    ASSUME LoginInv, NEW r \in Requests, L!ServerStep(r)
    PROVE  LoginInv'
<1> DEFINE q(at) == [request[r] EXCEPT !.at = at]
<1> USE ServicesAssumption DEF L!IntegrationsAssumption
<1>0. /\ LoginTypes /\ RequestFits(request[r], child[r]) /\ request[r] \in LoginRequests
      /\ child \in [Requests -> L!ChildStates] /\ tokens \subseteq L!Keys
      /\ logins \in [L!Keys -> Requests \cup {NoLogin}]
    BY DEF LoginInv, LoginTypes
<1>1. \A at \in L!Steps :
          /\ q(at) \in LoginRequests
          /\ L!Goto(r, at) => request' = [request EXCEPT ![r] = q(at)]
          /\ q(at).op = request[r].op /\ q(at).i = request[r].i /\ q(at).who = request[r].who
          /\ q(at).seen = request[r].seen /\ q(at).at = at
    BY RequestGoes
<1>2. request = [request EXCEPT ![r] = request[r]]
    BY <1>0 DEF LoginTypes
<1> HIDE DEF q
<1> USE DEF L!Steps, L!LoginSteps
<1>3. CASE L!PauseEnds(r)
  <2>1. PICK at \in {"refused", "mkdir"} :
            /\ request[r].at = "pause" /\ L!Goto(r, at)
            /\ UNCHANGED <<server, status, own, tokens, writes, logins, child>>
      BY <1>3 DEF L!PauseEnds
  <2>2. /\ RequestFits(q(at), child[r]) /\ ~ Settles(request[r])
        /\ request[r].at \notin Waiting /\ q(at).at \notin Waiting
      BY <1>0, <1>1, <2>1 DEF RequestFits, Settles, Waiting
  <2> QED BY <1>0, <1>1, <2>1, <2>2, RequestMoves
<1>4. CASE L!Spawn(r)
  <2>1. /\ request[r].at = "mkdir" /\ child' = [child EXCEPT ![r] = "running"]
        /\ logins' = [logins EXCEPT ![L!Key(r)] = r] /\ UNCHANGED <<server, status, own, tokens>>
      BY <1>4 DEF L!Spawn
  <2>2. /\ child[r] = "none" /\ request[r].op = "login" /\ child'[r] = "running"
        /\ request[r].i \in Integrations /\ request[r].who \in L!Who /\ L!Key(r) \in L!Keys
      BY <1>0, <2>1 DEF RequestFits, L!Key, L!Keys
  <2>3. /\ child' \in [Requests -> L!ChildStates]
        /\ \A s \in Requests : s # r => child'[s] = child[s]
        /\ logins' \in [L!Keys -> Requests \cup {NoLogin}]
        /\ \A k \in L!Keys : \/ logins'[k] = logins[k]
                             \/ k = <<request[r].i, request[r].who>> /\ logins'[k] = r
      BY <1>0, <2>1, <2>2 DEF L!ChildStates, L!Key
  <2>4. ~ Settles(request[r]) /\ request[r].at \notin Waiting
      BY <2>1 DEF Settles, Waiting
  <2>5. CASE request[r].who = Shared
    <3>1. L!Goto(r, "patch") /\ writes' = Append(writes, [by |-> r, to |-> "connecting"])
        BY <1>4, <2>5 DEF L!Spawn, L!Queue
    <3>2. /\ RequestFits(q("patch"), child'[r]) /\ "connecting" \in Changes
          /\ WriteFits(q("patch"), "connecting", child'[r])
        BY <1>1, <2>2, <2>5 DEF RequestFits, WriteFits, Waiting, Changes, L!Statuses
    <3> QED BY <1>0, <1>1, <2>1, <2>2, <2>3, <2>4, <3>1, <3>2, RequestMoves
  <2>6. CASE request[r].who # Shared
    <3>1. L!Goto(r, "url") /\ writes' = writes
        BY <1>4, <2>6 DEF L!Spawn
    <3>2. RequestFits(q("url"), child'[r]) /\ q("url").at \notin Waiting
        BY <1>1, <2>2 DEF RequestFits, Waiting
    <3> QED BY <1>0, <1>1, <2>1, <2>2, <2>3, <2>4, <3>1, <3>2, RequestMoves
  <2> QED BY <2>5, <2>6
<1>5. CASE L!UrlFound(r)
  <2>1. PICK at \in {"listening", "deaf"} :
            /\ request[r].at = "url" /\ L!Goto(r, at)
            /\ UNCHANGED <<server, status, own, tokens, writes, logins, child>>
      BY <1>5 DEF L!UrlFound
  <2>2. /\ RequestFits(q(at), child[r])
        /\ Settles(request[r]) => Settles(q(at))
        /\ request[r].at \notin Waiting /\ q(at).at \notin Waiting
      BY <1>0, <1>1, <2>1 DEF RequestFits, Settles, Waiting
  <2> QED BY <1>0, <1>1, <2>1, <2>2, RequestMoves
<1>6. CASE L!UrlTimeout(r)
  <2>1. /\ request[r].at = "url" /\ L!GiveUp(r) /\ L!Kill({r})
        /\ UNCHANGED <<server, status, own, tokens>>
      BY <1>6 DEF L!UrlTimeout
  <2>2. /\ child' \in [Requests -> L!ChildStates]
        /\ \A s \in Requests : /\ child[s] = "ok" => child'[s] = "ok"
                               /\ child'[s] = "none" <=> child[s] = "none"
      BY <1>0, <2>1, KillKeeps
  <2> QED BY <1>0, <2>1, <2>2, GiveUpKeeps
<1>7. CASE L!TenMinutes(r)
  <2>1. /\ UNCHANGED <<server, status, own, tokens, writes, logins, request>>
        /\ child' = child \/ L!Kill({r})
      BY <1>7 DEF L!TenMinutes
  <2>2. /\ child' \in [Requests -> L!ChildStates]
        /\ \A s \in Requests : /\ child[s] = "ok" => child'[s] = "ok"
                               /\ child'[s] = "none" <=> child[s] = "none"
      BY <1>0, <2>1, KillKeeps
  <2>3. RequestFits(request[r], child'[r])
      BY <1>0, <2>2 DEF RequestFits
  <2> QED BY <1>0, <1>2, <2>1, <2>2, <2>3, RequestMoves
<1>8. CASE L!LogoutEnds(r)
  <2>1. PICK to \in {"unconnected", "disown"} :
            /\ request[r].at = "logout" /\ L!Goto(r, "write")
            /\ writes' = Append(writes, [by |-> r, to |-> to])
            /\ tokens' \subseteq tokens
            /\ UNCHANGED <<server, status, own, logins, child>>
      BY <1>8 DEF L!LogoutEnds, L!Queue
  <2>2. /\ RequestFits(q("write"), child[r]) /\ to \in Changes /\ WriteFits(q("write"), to, child[r])
        /\ ~ Settles(request[r]) /\ request[r].at \notin Waiting
      BY <1>0, <1>1, <2>1 DEF RequestFits, WriteFits, Changes, L!Statuses, Settles, Waiting
  <2> DEFINE f == q("write")
  <2>3. /\ f \in LoginRequests /\ request' = [request EXCEPT ![r] = f]
        /\ f.op = request[r].op /\ f.i = request[r].i /\ f.who = request[r].who /\ f.seen = request[r].seen
      BY <1>1, <2>1
  <2>4. tokens' \subseteq L!Keys
      BY <1>0, <2>1
  <2>5. /\ RequestFits(f, child[r])
        /\ \E t \in Changes : writes' = Append(writes, [by |-> r, to |-> t]) /\ WriteFits(f, t, child[r])
      BY <2>1, <2>2
  <2> HIDE DEF f
  <2> QED BY <1>0, <2>1, <2>2, <2>3, <2>4, <2>5, RequestMoves
<1>9. CASE L!CallEnds(r)
  <2>1. PICK to \in {"kept", request[r].seen} :
            /\ request[r].at = "call" /\ L!Goto(r, "write")
            /\ writes' = Append(writes, [by |-> r, to |-> to])
            /\ UNCHANGED <<server, status, own, tokens, logins, child>>
      BY <1>9 DEF L!CallEnds, L!Queue
  <2>2. to \in Changes /\ to # "own" /\ (to = "connecting" => request[r].seen = "connecting")
      BY <1>0 DEF Changes, L!Statuses, LoginRequests
  <2>3. to = "connecting" => request[r].op = "discover"
      BY <1>0, <2>1, <2>2 DEF RequestFits
  <2>4. /\ RequestFits(q("write"), child[r]) /\ WriteFits(q("write"), to, child[r])
        /\ ~ Settles(request[r]) /\ request[r].at \notin Waiting
      BY <1>0, <1>1, <2>1, <2>2, <2>3 DEF RequestFits, WriteFits, Settles, Waiting
  <2> QED BY <1>0, <1>1, <2>1, <2>2, <2>4, RequestMoves
<1> QED BY <1>3, <1>4, <1>5, <1>6, <1>7, <1>8, <1>9 DEF L!ServerStep

\* The process exits.
LEMMA ExitKeeps ==
    ASSUME LoginInv, NEW r \in Requests, L!Exit(r)
    PROVE  LoginInv'
<1> DEFINE q(at) == [request[r] EXCEPT !.at = at]
<1> USE ServicesAssumption DEF L!IntegrationsAssumption
<1>0. /\ LoginTypes /\ RequestFits(request[r], child[r]) /\ request[r] \in LoginRequests
      /\ child \in [Requests -> L!ChildStates] /\ tokens \subseteq L!Keys
      /\ logins \in [L!Keys -> Requests \cup {NoLogin}]
      /\ UNCHANGED <<server, status, own>>
    BY DEF LoginInv, LoginTypes, L!Exit
<1>1. \A at \in L!Steps :
          /\ q(at) \in LoginRequests
          /\ L!Goto(r, at) => request' = [request EXCEPT ![r] = q(at)]
          /\ q(at).op = request[r].op /\ q(at).i = request[r].i /\ q(at).who = request[r].who
          /\ q(at).seen = request[r].seen /\ q(at).at = at
    BY RequestGoes
<1>2. request = [request EXCEPT ![r] = request[r]]
    BY <1>0 DEF LoginTypes
<1> HIDE DEF q
<1> USE DEF L!Steps, L!LoginSteps
<1>3. PICK how \in {"ok", "failed"} :
          /\ child[r] \in {"running", "signalled"}
          /\ child' = [child EXCEPT ![r] = how]
          /\ tokens' = IF how = "ok" THEN tokens \cup {L!Key(r)} ELSE tokens
          /\ CASE request[r].at = "url" /\ how = "ok" ->
                      L!Goto(r, "deaf") /\ UNCHANGED <<writes, logins>>
               [] request[r].at = "url" /\ how = "failed" -> L!GiveUp(r)
               [] request[r].at = "listening" ->
                      /\ logins' = [logins EXCEPT ![L!Key(r)] = NoLogin]
                      /\ L!FinishLogin(r, how)
               [] OTHER -> UNCHANGED <<request, writes, logins>>
    BY DEF L!Exit
<1>4. /\ request[r].at # "idle" /\ request[r].i \in Integrations /\ request[r].who \in L!Who
      /\ L!Key(r) \in L!Keys /\ tokens' \subseteq L!Keys
    BY <1>0, <1>3 DEF RequestFits, L!Key, L!Keys
<1>5. /\ child' \in [Requests -> L!ChildStates] /\ child'[r] = how
      /\ \A s \in Requests : s # r => child'[s] = child[s]
      /\ \A s \in Requests : /\ child[s] = "ok" => child'[s] = "ok"
                             /\ child'[s] = "none" <=> child[s] = "none"
    BY <1>0, <1>3 DEF L!ChildStates
<1>6. CASE request[r].at = "url" /\ how = "ok"
  <2>1. L!Goto(r, "deaf") /\ UNCHANGED <<writes, logins>>
      BY <1>3, <1>6
  <2>2. /\ RequestFits(q("deaf"), child'[r]) /\ Settles(q("deaf"))
        /\ request[r].at \notin Waiting /\ q("deaf").at \notin Waiting
      BY <1>0, <1>1, <1>4, <1>6 DEF RequestFits, Settles, Waiting
  <2> QED BY <1>0, <1>1, <1>4, <1>5, <2>1, <2>2, RequestMoves
<1>7. CASE request[r].at = "url" /\ how = "failed"
  <2>1. L!GiveUp(r)
      BY <1>3, <1>7
  <2> QED BY <1>0, <1>4, <1>5, <1>7, <2>1, GiveUpKeeps
<1>8. CASE request[r].at = "listening"
  <2>1. logins' = [logins EXCEPT ![L!Key(r)] = NoLogin] /\ L!FinishLogin(r, how)
      BY <1>3, <1>8
  <2>2. /\ logins' \in [L!Keys -> Requests \cup {NoLogin}]
        /\ \A k \in L!Keys : logins'[k] \in {NoLogin, logins[k]}
      BY <1>0, <2>1
  <2>3. request[r].at \notin Waiting
      BY <1>8 DEF Waiting
  <2>4. CASE request[r].who # Shared /\ how = "failed"
    <3>1. L!Goto(r, "done") /\ writes' = writes
        BY <2>1, <2>4 DEF L!FinishLogin
    <3>2. /\ RequestFits(q("done"), child'[r]) /\ ~ Settles(request[r])
          /\ q("done").at \notin Waiting
        BY <1>0, <1>1, <1>4, <1>8, <2>4 DEF RequestFits, Settles, Waiting
    <3> QED BY <1>0, <1>1, <1>4, <1>5, <2>2, <2>3, <3>1, <3>2, RequestMoves
  <2>5. CASE request[r].who = Shared \/ how = "ok"
    <3>1. PICK to \in {"connected", "error", "own"} :
              /\ L!Goto(r, "finish") /\ writes' = Append(writes, [by |-> r, to |-> to])
              /\ to = "own" => request[r].who # Shared /\ how = "ok"
        BY <2>1, <2>5 DEF L!FinishLogin, L!Queue
    <3>2. /\ RequestFits(q("finish"), child'[r]) /\ to \in Changes
          /\ WriteFits(q("finish"), to, child'[r])
        BY <1>0, <1>1, <1>4, <1>5, <1>8, <3>1
        DEF RequestFits, WriteFits, Waiting, Changes, L!Statuses
    <3>3. Settles(request[r]) => Settles(q("finish"))
        BY <1>1, <1>8 DEF Settles
    <3>4. /\ q("finish") \in LoginRequests /\ request' = [request EXCEPT ![r] = q("finish")]
          /\ q("finish").op = request[r].op /\ q("finish").i = request[r].i
          /\ q("finish").who = request[r].who /\ q("finish").seen = request[r].seen
        BY <1>1, <3>1
    <3> DEFINE f == q("finish")
    <3> HIDE DEF f
    <3>5. WriteFits(f, to, child'[r]) /\ \E t \in Changes :
              writes' = Append(writes, [by |-> r, to |-> t]) /\ WriteFits(f, t, child'[r])
        BY <3>1, <3>2 DEF f
    <3> QED BY <1>0, <1>4, <1>5, <2>2, <2>3, <3>2, <3>3, <3>4, <3>5, RequestMoves DEF f
  <2> QED BY <1>3, <2>4, <2>5
<1>9. CASE request[r].at \notin {"url", "listening"}
  <2>1. UNCHANGED <<request, writes, logins>>
      BY <1>3, <1>9
  <2>2. RequestFits(request[r], child'[r])
      BY <1>0, <1>3, <1>5 DEF RequestFits
  <2> QED BY <1>0, <1>2, <1>4, <1>5, <2>1, <2>2, RequestMoves
<1> QED BY <1>3, <1>6, <1>7, <1>8, <1>9

\* The oldest mutation, and the request that waits for it.
LEMMA OldestWrite ==
    ASSUME LoginInv, writes # <<>>
    PROVE  LET r == Head(writes).by
               to == Head(writes).to
               Entry == [by : Requests, to : Changes]
           IN  /\ r \in Requests /\ to \in Changes /\ WriteFits(request[r], to, child[r])
               /\ request[r] \in LoginRequests /\ RequestFits(request[r], child[r])
               /\ request[r].i \in Integrations /\ request[r].who \in L!Who /\ request[r].at \in Waiting
               /\ Tail(writes) \in Seq(Entry)
               /\ \A n \in 1 .. Len(Tail(writes)) :
                     /\ Tail(writes)[n] \in Entry /\ Tail(writes)[n].by # r
                     /\ WriteFits(request[Tail(writes)[n].by], Tail(writes)[n].to, child[Tail(writes)[n].by])
               /\ \A m, n \in 1 .. Len(Tail(writes)) : Tail(writes)[m].by = Tail(writes)[n].by => m = n
<1> DEFINE r == Head(writes).by
           to == Head(writes).to
           Entry == [by : Requests, to : Changes]
<1>0. /\ LoginTypes /\ WritesFit
      /\ \A s \in Requests : RequestFits(request[s], child[s]) /\ request[s] \in LoginRequests
    BY DEF LoginInv, LoginTypes
<1>1. writes \in Seq(Entry)
    BY <1>0 DEF LoginTypes
<1>2. /\ Head(writes) = writes[1] /\ Head(writes) \in Entry /\ Tail(writes) \in Seq(Entry)
      /\ Len(writes) \in Nat \ {0} /\ Len(Tail(writes)) = Len(writes) - 1
      /\ \A n \in 1 .. Len(writes) - 1 : Tail(writes)[n] = writes[n + 1]
      /\ \A n \in 1 .. Len(writes) : writes[n] \in Entry
  <2> HIDE DEF Entry
  <2> QED BY <1>1
<1>3. r \in Requests /\ to \in Changes /\ WriteFits(request[r], to, child[r])
    BY <1>0, <1>2 DEF WritesFit
<1>4. /\ request[r].i \in Integrations /\ request[r].who \in L!Who /\ request[r] \in LoginRequests
      /\ request[r].at \in Waiting /\ RequestFits(request[r], child[r])
    BY <1>0, <1>3 DEF WriteFits, Waiting, RequestFits
<1>5. \A n \in 1 .. Len(Tail(writes)) :
          /\ n + 1 \in 1 .. Len(writes) /\ Tail(writes)[n] = writes[n + 1]
          /\ writes[n + 1] \in Entry /\ writes[n + 1].by # r
    BY <1>0, <1>2 DEF WritesFit
<1>6. \A n \in 1 .. Len(Tail(writes)) :
          WriteFits(request[Tail(writes)[n].by], Tail(writes)[n].to, child[Tail(writes)[n].by])
    BY <1>0, <1>5 DEF WritesFit
<1>7. \A m, n \in 1 .. Len(Tail(writes)) : Tail(writes)[m].by = Tail(writes)[n].by => m = n
    BY <1>0, <1>2, <1>5 DEF WritesFit
<1> QED BY <1>2, <1>3, <1>4, <1>5, <1>6, <1>7

\* The oldest mutation is applied: its request goes on.
LEMMA ApplyKeeps ==
    ASSUME LoginInv, L!Apply
    PROVE  LoginInv'
<1> DEFINE r == Head(writes).by
           to == Head(writes).to
<1> USE ServicesAssumption DEF L!IntegrationsAssumption
<1>0. /\ LoginTypes /\ MapFits /\ ConnectingFits /\ L!OwnByLogin
      /\ \A s \in Requests : RequestFits(request[s], child[s])
    BY DEF LoginInv
<1>1. writes # <<>> /\ writes' = Tail(writes) /\ UNCHANGED <<server, tokens, logins, child>>
    BY DEF L!Apply
<1>2. /\ r \in Requests /\ to \in Changes /\ WriteFits(request[r], to, child[r])
      /\ request[r] \in LoginRequests /\ RequestFits(request[r], child[r])
      /\ request[r].i \in Integrations /\ request[r].who \in L!Who /\ request[r].at \in Waiting
    BY <1>1, OldestWrite
<1>3. /\ L!Resume(r, to)
      /\ status' = IF to \in L!Statuses THEN [status EXCEPT ![request[r].i] = to] ELSE status
      /\ own' = [a \in LoginAgents |->
             CASE to = "removed" \/ (to = "disown" /\ a = request[r].who) -> own[a] \ {request[r].i}
               [] to = "own" /\ a = request[r].who -> own[a] \cup {request[r].i}
               [] OTHER -> own[a]]
    BY DEF L!Apply
<1>4. /\ writes' \in Seq([by : Requests, to : Changes])
      /\ \A n \in 1 .. Len(writes') :
            /\ writes'[n] \in [by : Requests, to : Changes] /\ writes'[n].by # r
            /\ WriteFits(request[writes'[n].by], writes'[n].to, child[writes'[n].by])
      /\ \A m, n \in 1 .. Len(writes') : writes'[m].by = writes'[n].by => m = n
    BY <1>1, OldestWrite
<1> HIDE DEF r, to
<1>6. PICK q \in LoginRequests :
          /\ request' = [request EXCEPT ![r] = q]
          /\ q.op = request[r].op /\ q.i = request[r].i /\ q.who = request[r].who
          /\ RequestFits(q, child[r])
          /\ q.op = "discover" => q.seen = request[r].seen
          /\ request[r].at = "patch" => q.at = "url"
  <2> DEFINE p(at) == [request[r] EXCEPT !.at = at]
  <2>1. \A at \in L!Steps :
            /\ p(at) \in LoginRequests
            /\ p(at).op = request[r].op /\ p(at).i = request[r].i /\ p(at).who = request[r].who
            /\ p(at).seen = request[r].seen /\ p(at).at = at
      BY <1>2, RequestGoes
  <2>3. \A at \in {"url", "refused", "done"} :
            (at = "url" => request[r].at = "patch") => RequestFits(p(at), child[r])
      BY <1>2, <2>1 DEF RequestFits, L!Steps, L!LoginSteps
  <2>4. CASE request[r].at = "finish" /\ to = "connected"
    <3> DEFINE c == [request[r] EXCEPT !.at = "call", !.seen = "connected"]
    <3>1. request' = [request EXCEPT ![r] = c]
        BY <1>3, <2>4 DEF L!Resume
    <3>2. /\ c \in LoginRequests /\ c.op = request[r].op /\ c.i = request[r].i
          /\ c.who = request[r].who /\ c.at = "call" /\ c.seen = "connected"
        BY <1>2 DEF LoginRequests, L!Steps, L!LoginSteps, L!Statuses
    <3> HIDE DEF c
    <3>3. c.op = "login" /\ RequestFits(c, child[r])
        BY <1>2, <2>4, <3>2 DEF RequestFits
    <3> QED BY <2>4, <3>1, <3>2, <3>3
  <2>5. CASE request[r].at = "patch"
    <3>1. request' = [request EXCEPT ![r] = p("url")]
        BY <1>3, <2>5 DEF L!Resume
    <3> HIDE DEF p
    <3> QED BY <2>1, <2>3, <2>5, <3>1 DEF L!Steps, L!LoginSteps
  <2>6. CASE request[r].at # "patch" /\ ~ (request[r].at = "finish" /\ to = "connected")
    <3>1. \E at \in {"refused", "done"} : request' = [request EXCEPT ![r] = p(at)]
        BY <1>3, <2>6 DEF L!Resume
    <3> HIDE DEF p
    <3> QED BY <2>1, <2>3, <2>6, <3>1 DEF L!Steps, L!LoginSteps
  <2> QED BY <2>4, <2>5, <2>6
<1>7. /\ request'[r] = q /\ \A s \in Requests : s # r => request'[s] = request[s]
      /\ request' \in [Requests -> LoginRequests]
    BY <1>0, <1>2, <1>6 DEF LoginTypes
<1>8. /\ status' \in [Integrations -> L!Statuses] /\ own' \in [LoginAgents -> SUBSET Integrations]
      /\ \A a \in LoginAgents : \A i \in own'[a] :
             i \in own[a] \/ (to = "own" /\ a = request[r].who /\ i = request[r].i)
      /\ \A i \in Integrations :
             \/ status'[i] = status[i] /\ (i = request[r].i => to \notin L!Statuses)
             \/ i = request[r].i /\ status'[i] = to
    BY <1>0, <1>2, <1>3 DEF LoginTypes
<1>9. LoginTypes'
    BY <1>0, <1>1, <1>4, <1>7, <1>8 DEF LoginTypes
<1>10. \A s \in Requests : RequestFits(request'[s], child'[s])
    BY <1>0, <1>1, <1>6, <1>7
<1>11. WritesFit'
    BY <1>1, <1>4, <1>7 DEF WritesFit
<1>12. MapFits'
  <2> SUFFICES ASSUME NEW k \in L!Keys, logins[k] # NoLogin
               PROVE  <<request'[logins[k]].i, request'[logins[k]].who>> = k /\ child[logins[k]] # "none"
      BY <1>1 DEF MapFits, L!Key
  <2>1. logins[k] \in Requests /\ <<request[logins[k]].i, request[logins[k]].who>> = k /\ child[logins[k]] # "none"
      BY <1>0 DEF LoginTypes, MapFits, L!Key
  <2> QED BY <1>6, <1>7, <2>1
<1>13. ConnectingFits'
  <2> SUFFICES ASSUME NEW i \in Integrations, server = "up", status'[i] = "connecting"
               PROVE  \E s \in Requests :
                         request'[s].i = i /\ (Settles(request'[s]) \/ L!WritesBack(s)')
      BY <1>1 DEF ConnectingFits
  <2>1. CASE i = request[r].i /\ status'[i] = to
    <3>1. request[r].at \in {"patch", "write"}
        BY <1>2, <2>1 DEF WriteFits, Waiting
    <3>2. CASE request[r].at = "patch"
      <4>1. request[r].op = "login" /\ request[r].who = Shared
          BY <1>2, <3>2 DEF RequestFits
      <4> QED BY <1>2, <1>6, <1>7, <2>1, <3>2, <4>1 DEF Settles
    <3>3. CASE request[r].at = "write"
      <4>1. request[r].op = "discover" /\ request[r].seen = "connecting"
          BY <1>2, <2>1, <3>3 DEF WriteFits
      <4> QED BY <1>2, <1>6, <1>7, <2>1, <4>1 DEF L!WritesBack
    <3> QED BY <3>1, <3>2, <3>3
  <2>2. CASE status[i] = "connecting" /\ (i = request[r].i => to \notin L!Statuses)
    <3>1. PICK s \in Requests :
              request[s].i = i /\ (Settles(request[s]) \/ L!WritesBack(s))
        BY <2>2 , <1>0 DEF ConnectingFits
    <3>2. CASE s # r
        BY <1>7, <3>1, <3>2 DEF L!WritesBack
    <3>3. CASE s = r
      <4>1. to \notin L!Statuses
          BY <2>2, <3>1, <3>3
      <4>2. ~ Settles(request[r])
          BY <1>2, <4>1 DEF Settles, WriteFits, Waiting, L!Statuses
      <4> QED BY <1>6, <1>7, <3>1, <3>3, <4>2 DEF L!WritesBack
    <3> QED BY <3>2, <3>3
  <2> QED BY <1>8, <2>1, <2>2
<1>14. L!OwnByLogin'
  <2> SUFFICES ASSUME NEW a \in LoginAgents, NEW i \in own'[a]
               PROVE  \E s \in Requests : request'[s].i = i /\ request'[s].who = a /\ child'[s] = "ok"
      BY DEF L!OwnByLogin
  <2>1. CASE i \in own[a]
    <3>1. PICK s \in Requests : request[s].i = i /\ request[s].who = a /\ child[s] = "ok"
        BY <1>0, <2>1 DEF L!OwnByLogin
    <3> QED BY <1>1, <1>6, <1>7, <3>1
  <2>2. CASE to = "own" /\ a = request[r].who /\ i = request[r].i
    <3>1. child[r] = "ok"
        BY <1>2, <2>2 DEF WriteFits
    <3> QED BY <1>1, <1>2, <1>6, <1>7, <2>2, <3>1
  <2> QED BY <1>8, <2>1, <2>2
<1> QED BY <1>9, <1>10, <1>11, <1>12, <1>13, <1>14 DEF LoginInv

\* The oldest mutation is rejected: the file cannot be written, or the integration is
\* gone.  A login that was to settle what shows "connecting" takes the server down with
\* it, or is refused with its failure unsaved.
LEMMA ThrowKeeps ==
    ASSUME LoginInv, L!ApplyThrows
    PROVE  LoginInv'
<1> DEFINE r == Head(writes).by
           to == Head(writes).to
           Entry == [by : Requests, to : Changes]
           noted == request[r].at = "write" /\ request[r].op \in {"login", "discover"} /\ to # "kept"
<1> USE ServicesAssumption DEF L!IntegrationsAssumption
<1>0. /\ LoginTypes /\ MapFits /\ ConnectingFits /\ L!OwnByLogin
      /\ \A s \in Requests : RequestFits(request[s], child[s])
    BY DEF LoginInv
<1>1. writes # <<>> /\ UNCHANGED <<status, own, tokens, logins, child>> /\ L!Rejected(r, to)
    BY DEF L!ApplyThrows
<1>2. /\ r \in Requests /\ to \in Changes /\ WriteFits(request[r], to, child[r])
      /\ request[r] \in LoginRequests /\ RequestFits(request[r], child[r])
      /\ request[r].i \in Integrations /\ request[r].who \in L!Who /\ request[r].at \in Waiting
    BY <1>1, OldestWrite
<1> DEFINE rest == Tail(writes)
<1>3. /\ rest \in Seq(Entry)
      /\ \A n \in 1 .. Len(rest) : /\ rest[n] \in Entry /\ rest[n].by # r
                                   /\ WriteFits(request[rest[n].by], rest[n].to, child[rest[n].by])
      /\ \A m, n \in 1 .. Len(rest) : rest[m].by = rest[n].by => m = n
    BY <1>1, OldestWrite
<1>4. /\ server' = IF request[r].at = "finish" THEN "down" ELSE server
      /\ server' \in {"up", "down"}
      /\ writes' = IF noted THEN Append(rest, [by |-> r, to |-> "kept"]) ELSE rest
      /\ noted => request' = request
      /\ ~noted => L!Goto(r, IF request[r].at = "reject" THEN "unsaved" ELSE "refused")
    BY <1>0, <1>1 DEF L!Rejected, LoginTypes
<1>5. noted => request[r].at = "write"
    OBVIOUS
<1> HIDE DEF r, to, rest, noted
<1>6. PICK q \in LoginRequests :
          /\ request' = [request EXCEPT ![r] = q]
          /\ q.op = request[r].op /\ q.i = request[r].i /\ q.who = request[r].who
          /\ q.seen = request[r].seen /\ RequestFits(q, child[r])
          /\ noted => q = request[r]
          /\ request[r].at = "reject" => q.at = "unsaved"
  <2> DEFINE p(at) == [request[r] EXCEPT !.at = at]
  <2>1. \A at \in L!Steps :
            /\ p(at) \in LoginRequests
            /\ L!Goto(r, at) => request' = [request EXCEPT ![r] = p(at)]
            /\ p(at).op = request[r].op /\ p(at).i = request[r].i /\ p(at).who = request[r].who
            /\ p(at).seen = request[r].seen /\ p(at).at = at
      BY <1>2, RequestGoes
  <2>2. \A at \in {"refused", "unsaved"} : RequestFits(p(at), child[r])
      BY <1>2, <2>1 DEF RequestFits, L!Steps, L!LoginSteps
  <2>3. CASE noted
    <3>1. request' = [request EXCEPT ![r] = request[r]]
        BY <1>0, <1>4, <2>3 DEF LoginTypes
    <3> QED BY <1>2, <1>5, <2>3, <3>1
  <2>4. CASE ~noted
    <3>1. PICK at \in {"refused", "unsaved"} : L!Goto(r, at) /\ (request[r].at = "reject" => at = "unsaved")
        BY <1>4, <2>4
    <3> HIDE DEF p
    <3> QED BY <2>1, <2>2, <2>4, <3>1 DEF L!Steps
  <2> QED BY <2>3, <2>4
<1>7. /\ request'[r] = q /\ \A s \in Requests : s # r => request'[s] = request[s]
      /\ request' \in [Requests -> LoginRequests]
    BY <1>0, <1>2, <1>6 DEF LoginTypes
<1>8. writes' \in Seq(Entry) /\ WritesFit'
  <2>1. CASE ~noted
      BY <1>1, <1>3, <1>4, <1>7, <2>1 DEF WritesFit
  <2>2. CASE noted
    <3> DEFINE e == [by |-> r, to |-> "kept"]
    <3>1. e \in Entry /\ e.by = r /\ e.to = "kept"
        BY <1>2 DEF Changes
    <3>2. WriteFits(request[r], "kept", child[r])
        BY <1>2, <1>5, <2>2 DEF WriteFits, Waiting
    <3>3. request' = request /\ writes' = Append(rest, e)
        BY <1>4, <2>2
    <3> HIDE DEF e, Entry
    <3>4. /\ writes' \in Seq(Entry) /\ Len(writes') = Len(rest) + 1 /\ Len(rest) \in Nat
          /\ writes'[Len(rest) + 1] = e /\ \A n \in 1 .. Len(rest) : writes'[n] = rest[n]
        BY <1>3, <3>1, <3>3
    <3>5. \A n \in 1 .. Len(writes') :
              WriteFits(request'[writes'[n].by], writes'[n].to, child'[writes'[n].by])
        BY <1>1, <1>3, <3>1, <3>2, <3>3, <3>4
    <3>6. \A m, n \in 1 .. Len(writes') : writes'[m].by = writes'[n].by => m = n
        BY <1>3, <3>1, <3>4
    <3> QED BY <3>4, <3>5, <3>6 DEF WritesFit
  <2> QED BY <2>1, <2>2
<1>9. LoginTypes'
    BY <1>0, <1>1, <1>4, <1>7, <1>8 DEF LoginTypes
<1>10. \A s \in Requests : RequestFits(request'[s], child'[s])
    BY <1>0, <1>1, <1>6, <1>7
<1>11. MapFits'
  <2> SUFFICES ASSUME NEW k \in L!Keys, logins[k] # NoLogin
               PROVE  <<request'[logins[k]].i, request'[logins[k]].who>> = k /\ child[logins[k]] # "none"
      BY <1>1 DEF MapFits, L!Key
  <2>1. logins[k] \in Requests /\ <<request[logins[k]].i, request[logins[k]].who>> = k /\ child[logins[k]] # "none"
      BY <1>0 DEF LoginTypes, MapFits, L!Key
  <2> QED BY <1>6, <1>7, <2>1
<1>12. ConnectingFits'
  <2> SUFFICES ASSUME NEW i \in Integrations, server' = "up", status[i] = "connecting"
               PROVE  \E s \in Requests :
                         request'[s].i = i /\ (Settles(request'[s]) \/ L!WritesBack(s)')
      BY <1>1 DEF ConnectingFits
  <2>1. server = "up" /\ request[r].at # "finish"
      BY <1>4
  <2>2. PICK s \in Requests : request[s].i = i /\ (Settles(request[s]) \/ L!WritesBack(s))
      BY <1>0, <2>1 DEF ConnectingFits
  <2>3. CASE s # r
      BY <1>7, <2>2, <2>3 DEF L!WritesBack
  <2>4. CASE s = r /\ L!WritesBack(s)
      BY <1>6, <1>7, <2>2, <2>4 DEF L!WritesBack
  <2>5. CASE s = r /\ Settles(request[r])
    <3>1. request[r].at = "reject"
        BY <1>2, <2>1, <2>5 DEF Settles, Waiting
    <3> QED BY <1>6, <1>7, <2>2, <2>5, <3>1 DEF Settles
  <2> QED BY <2>2, <2>3, <2>4, <2>5
<1>13. L!OwnByLogin'
    BY <1>0, <1>1, <1>6, <1>7 DEF L!OwnByLogin
<1> QED BY <1>8, <1>9, <1>10, <1>11, <1>12, <1>13 DEF LoginInv

LEMMA LoginStep == LoginInv /\ [L!Next]_(L!vars) => LoginInv'
<1> SUFFICES ASSUME LoginInv, [L!Next]_(L!vars) PROVE LoginInv'
    OBVIOUS
<1> USE ServicesAssumption DEF L!IntegrationsAssumption
<1>0. /\ LoginTypes /\ WritesFit /\ MapFits /\ ConnectingFits /\ L!OwnByLogin
      /\ \A r \in Requests : RequestFits(request[r], child[r]) /\ request[r] \in LoginRequests
    BY DEF LoginInv, LoginTypes
<1>1. CASE L!StoreStep
    BY <1>1, ApplyKeeps, ThrowKeeps DEF L!StoreStep
<1>2. CASE L!Shutdown
  <2>1. LoginTypes' BY <1>0, <1>2 DEF L!Shutdown, LoginTypes
  <2>2. WritesFit' /\ MapFits' BY <1>0, <1>2 DEF L!Shutdown, WritesFit, MapFits, L!Key
  <2>3. ConnectingFits' BY <1>2 DEF L!Shutdown, ConnectingFits
  <2>4. L!OwnByLogin' BY <1>0, <1>2 DEF L!Shutdown, L!OwnByLogin
  <2> QED BY <1>0, <1>2, <2>1, <2>2, <2>3, <2>4 DEF LoginInv, L!Shutdown
<1>3. CASE L!Restart
  <2>1. /\ server' = "up" /\ writes' = <<>> /\ logins' = [k \in L!Keys |-> NoLogin]
        /\ UNCHANGED <<own, tokens, child>>
        /\ \A i \in Integrations : status'[i] # "connecting"
        /\ status' \in [Integrations -> L!Statuses]
      BY <1>0, <1>3 DEF L!Restart, L!Initialize, LoginTypes, L!Statuses
  <2>2. /\ request' \in [Requests -> LoginRequests]
        /\ \A r \in Requests :
              /\ request'[r].i = request[r].i /\ request'[r].who = request[r].who
              /\ RequestFits(request'[r], child[r])
    <3>1. ASSUME NEW r \in Requests
          PROVE  /\ request'[r] \in LoginRequests
                 /\ request'[r].i = request[r].i /\ request'[r].who = request[r].who
                 /\ RequestFits(request'[r], child[r])
      <4> DEFINE q == [request[r] EXCEPT !.at = "lost"]
      <4>1. request'[r] = request[r] \/ (request'[r] = q /\ request[r].at # "idle")
          BY <1>3 DEF L!Restart
      <4>2. /\ q \in LoginRequests /\ q.i = request[r].i /\ q.who = request[r].who /\ q.at = "lost"
          BY <1>0 DEF LoginRequests, L!Steps
      <4> HIDE DEF q
      <4>3. request[r].at # "idle" => RequestFits(q, child[r])
          BY <1>0, <4>2 DEF RequestFits
      <4> QED BY <1>0, <4>1, <4>2, <4>3
    <3>2. request' = [r \in Requests |-> request'[r]]
        BY <1>3 DEF L!Restart
    <3> QED BY <3>1, <3>2
  <2>3. LoginTypes' BY <1>0, <2>1, <2>2 DEF LoginTypes
  <2>4. WritesFit' /\ MapFits' BY <2>1 DEF WritesFit, MapFits
  <2>5. ConnectingFits' BY <2>1 DEF ConnectingFits
  <2>6. L!OwnByLogin' BY <1>0, <2>1, <2>2 DEF L!OwnByLogin
  <2> QED BY <2>1, <2>2, <2>3, <2>4, <2>5, <2>6 DEF LoginInv
<1>4. ASSUME NEW r \in Requests, L!ServerStep(r) PROVE LoginInv'
    BY <1>4, ServerKeeps
<1>5. ASSUME NEW r \in Requests, L!Exit(r) PROVE LoginInv'
    BY <1>5, ExitKeeps
<1>6. ASSUME NEW r \in Requests, L!PrintUrl(r) PROVE LoginInv'
  <2>1. UNCHANGED <<server, status, own, tokens, writes, logins, request, child>>
      BY <1>6 DEF L!PrintUrl
  <2> QED BY <1>0, <2>1
      DEF LoginInv, LoginTypes, WritesFit, MapFits, L!Key, ConnectingFits, L!WritesBack, L!OwnByLogin
<1>7. ASSUME NEW r \in Requests, NEW op \in LoginOps, NEW i \in Integrations, NEW who \in L!Who,
             L!Ask(r, op, i, who)
      PROVE  LoginInv'
    BY <1>7, AskKeeps
<1>8. CASE UNCHANGED L!vars
    BY <1>0, <1>8
    DEF L!vars, LoginInv, LoginTypes, WritesFit, MapFits, L!Key, ConnectingFits, L!WritesBack, L!OwnByLogin
<1> QED BY <1>1, <1>2, <1>3, <1>4, <1>5, <1>6, <1>7, <1>8 DEF L!Next

\* An integration shows "connecting" only while something is left that will settle it,
\* and an agent's own login is the work of its own login process: for any integrations,
\* agents and requests, aborted, replaced, retried or cut off by restarts.
THEOREM LoginsAreConsistent == Spec => []LoginsConsistent
<1>1. Init => LoginInv
    BY LoginInit DEF Init
<1>2. LoginInv /\ [Next]_vars => LoginInv'
    BY LoginStep, StepOfEach
<1>3. LoginInv => LoginsConsistent
  <2> SUFFICES ASSUME LoginInv PROVE L!TypeOK /\ L!ConnectingSettles
      BY DEF LoginInv, LoginsConsistent
  <2>1. L!TypeOK
      BY DEF LoginInv, LoginTypes, LoginRequests, MapFits, L!TypeOK
  <2>2. L!ConnectingSettles
      BY DEF LoginInv, ConnectingFits, Settles, L!Alive, L!ConnectingSettles
  <2> QED BY <2>1, <2>2
<1> QED BY <1>1, <1>2, <1>3, PTL DEF Spec

(***************************************************************************)
(* The registry                                                            *)
(***************************************************************************)
ChannelNames == Names \cup {GeneralName} \cup {DmName(a) : a \in Agents}
ChannelRecords == [state : {"none", "open", "archived"}, name : ChannelNames,
                   kind : {"none", "public", "dm"}, members : SUBSET Agents]
AgentRecords == [state : {"none", "ready", "busy", "gone"}, dm : 0 .. MaxChannels, may : SUBSET ChannelNames]
CallSteps == {"idle", "locking", "locked", "noticing", "refused", "writing", "clearing",
              "awaiting", "removing", "waking", "failed", "done"}
CallRecords == [at : CallSteps,
                op : {"none", "create_channel", "delete_channel", "create_agent", "update_agent",
                      "delete_agent", "post", "human_post"},
                by : Agents \cup {0}, chan : 0 .. MaxChannels, name : Names \cup {GeneralName},
                agent : Agents \cup {0}, chosen : SUBSET (Agents \cup R!Channels), left : SUBSET Agents]

RegistryTypes ==
    /\ chan \in [R!Channels -> ChannelRecords]
    /\ agent \in [Agents -> AgentRecords]
    /\ run \in [Agents -> 0 .. MaxChannels]
    /\ draining \subseteq Agents
    /\ pending \in [Agents -> SUBSET R!Channels]
    /\ asked \subseteq R!Channels
    /\ registry \in Calls \cup {0}
    /\ call \in [Calls -> CallRecords]
    /\ runs \in 0 .. MaxStarts

\* #general stays, a channel keeps its kind for good, and a DM belongs to one agent.
ChannelsFit ==
    /\ chan[1].state = "open" /\ chan[1].kind = "public" /\ chan[1].name = GeneralName
    /\ \A c \in R!Channels :
          /\ chan[c].state = "none" => chan[c] = R!NoChannel
          /\ chan[c].state # "none" => chan[c].kind \in {"public", "dm"}
          /\ chan[c].kind = "public" => chan[c].name \in Names \cup {GeneralName}
          /\ chan[c].kind = "dm" => \E a \in Agents : agent[a].state # "none" /\ agent[a].dm = c

DmsFit ==
    \A a \in Agents :
        agent[a].state # "none" =>
            /\ agent[a].dm \in R!Channels
            /\ chan[agent[a].dm].kind = "dm" /\ chan[agent[a].dm].name = DmName(a)
            /\ R!Alive(a) => chan[agent[a].dm].state = "open" /\ chan[agent[a].dm].members = {a}
            /\ \A b \in Agents : agent[b].state # "none" /\ agent[b].dm = agent[a].dm => b = a

RunsFit == \A a \in Agents : run[a] # 0 <=> agent[a].state = "busy"

MembersFit ==
    \A c \in R!Channels : \A a \in chan[c].members :
        R!Alive(a) /\ (c # 1 /\ chan[c].kind = "public" => chan[c].name \in agent[a].may)

PublicNamesDiffer ==
    \A c, d \in R!Channels :
        chan[c].state = "open" /\ chan[d].state = "open" /\ chan[c].kind = "public" /\ chan[d].kind = "public"
        /\ chan[c].name = chan[d].name => c = d

\* What a call q read before it waited still holds where it is used.
CallFits(q) ==
    /\ q.op = "create_channel" /\ q.at \in {"locking", "locked"} => q.name \in Names /\ q.chosen \subseteq Agents
    /\ q.op = "create_channel" /\ q.at \in {"locking", "locked", "noticing"} /\ q.by # 0 =>
          agent[q.by].state # "none"
    /\ q.at = "noticing" => q.op = "create_channel" /\ q.by # 0
    /\ q.op = "delete_channel" /\ q.at = "writing" =>
          q.chan \in R!Channels /\ q.chan # 1 /\ chan[q.chan].kind = "public"
    /\ q.op \in {"create_agent", "update_agent"} /\ q.at = "writing" =>
          /\ q.agent \in Agents
          /\ \A c \in q.chosen : c \in R!Channels /\ chan[c].kind = "public"
    /\ q.op = "delete_agent" /\ q.at \in {"writing", "awaiting", "removing"} =>
          q.agent \in Agents /\ agent[q.agent].state # "none"
    /\ q.op \in {"post", "human_post"} /\ q.at = "locking" => q.chan \in R!Channels
    /\ q.at \in {"waking", "clearing"} => q.chan \in R!Channels

RegistryInv ==
    /\ RegistryTypes /\ ChannelsFit /\ DmsFit /\ RunsFit /\ MembersFit /\ PublicNamesDiffer
    /\ \A r \in Calls : CallFits(call[r])

LEMMA RegistryFacts ==
    /\ MaxChannels \in Nat /\ 1 \in R!Channels /\ R!Channels = 1 .. MaxChannels
    /\ IsFiniteSet(Founders) /\ Founders \subseteq Agents /\ Cardinality(Founders) \in Nat
    /\ MaxChannels > Cardinality(Founders) /\ R!Cardinality(Founders) = Cardinality(Founders)
    /\ MaxStarts \in Nat
    /\ GeneralName \notin Names
    /\ Inherited \subseteq Policies /\ Policies \subseteq SUBSET ({GeneralName} \cup Names)
    /\ R!General = 1 /\ R!None = 0
<1>1. R!RegistryAssumption
    BY ServicesAssumption
<1>2. IsFiniteSet(Founders)
    BY <1>1 DEF R!RegistryAssumption, R!IsFiniteSet, IsFiniteSet
<1>3. R!Cardinality(Founders) = Cardinality(Founders)
    BY DEF R!Cardinality, Cardinality
<1>4. Cardinality(Founders) \in Nat
    BY <1>2, FS_CardinalityType
<1> QED BY <1>1, <1>2, <1>3, <1>4 DEF R!RegistryAssumption, R!Channels, R!General, R!None

LEMMA RegistryInit == R!Init => RegistryInv
<1> SUFFICES ASSUME R!Init PROVE RegistryInv
    OBVIOUS
<1> USE RegistryFacts
<1> DEFINE n == Cardinality(Founders)
<1>0. n \in Nat /\ R!Channels = 1 .. MaxChannels /\ MaxChannels > n
    OBVIOUS
<1>1. PICK dm \in [Founders -> 2 .. R!Cardinality(Founders) + 1], given \in [Founders -> Inherited] :
          /\ \A a, b \in Founders : a # b => dm[a] # dm[b]
          /\ chan = [c \in R!Channels |->
               IF c = R!General
               THEN [state |-> "open", name |-> GeneralName, kind |-> "public", members |-> Founders]
               ELSE IF \E a \in Founders : dm[a] = c
               THEN LET a == CHOOSE a \in Founders : dm[a] = c
                    IN  [state |-> "open", name |-> DmName(a), kind |-> "dm", members |-> {a}]
               ELSE R!NoChannel]
          /\ agent = [a \in Agents |->
               IF a \in Founders THEN [state |-> "ready", dm |-> dm[a], may |-> given[a]]
               ELSE [state |-> "none", dm |-> R!None, may |-> {}]]
    BY DEF R!Init
<1> HIDE DEF n
<1>3. chan[1] = [state |-> "open", name |-> GeneralName, kind |-> "public", members |-> Founders]
    BY <1>1
<1>4. \A a \in Founders :
          /\ dm[a] \in R!Channels /\ dm[a] # 1
          /\ chan[dm[a]] = [state |-> "open", name |-> DmName(a), kind |-> "dm", members |-> {a}]
  <2> SUFFICES ASSUME NEW a \in Founders
               PROVE  /\ dm[a] \in R!Channels /\ dm[a] # 1
                      /\ chan[dm[a]] = [state |-> "open", name |-> DmName(a), kind |-> "dm", members |-> {a}]
      OBVIOUS
  <2>1. dm[a] \in R!Channels /\ dm[a] # 1
      BY <1>0, <1>1
  <2>2. (CHOOSE b \in Founders : dm[b] = dm[a]) = a
      BY <1>1
  <2> QED BY <1>1, <2>1, <2>2
<1>5. \A c \in R!Channels : c # 1 /\ ~(\E a \in Founders : dm[a] = c) => chan[c] = R!NoChannel
    BY <1>1
<1>7. \A a \in Agents : /\ agent[a].state = IF a \in Founders THEN "ready" ELSE "none"
                        /\ a \in Founders => agent[a].dm = dm[a]
    BY <1>1
<1>8. ASSUME NEW c \in R!Channels
      PROVE  \/ /\ c = 1 /\ chan[c].state = "open" /\ chan[c].name = GeneralName
                /\ chan[c].kind = "public" /\ chan[c].members = Founders
             \/ \E a \in Founders :
                   /\ c = dm[a] /\ c # 1 /\ chan[c].state = "open" /\ chan[c].name = DmName(a)
                   /\ chan[c].kind = "dm" /\ chan[c].members = {a}
             \/ /\ c # 1 /\ chan[c] = R!NoChannel /\ chan[c].state = "none"
                /\ chan[c].kind = "none" /\ chan[c].members = {}
  <2>1. CASE c = 1
      BY <1>3, <2>1
  <2>2. ASSUME NEW a \in Founders, dm[a] = c
        PROVE  /\ c = dm[a] /\ c # 1 /\ chan[c].state = "open" /\ chan[c].name = DmName(a)
               /\ chan[c].kind = "dm" /\ chan[c].members = {a}
    <3>1. c # 1 /\ chan[c] = [state |-> "open", name |-> DmName(a), kind |-> "dm", members |-> {a}]
        BY <1>4, <2>2
    <3> QED BY <2>2, <3>1
  <2>3. CASE c # 1 /\ ~(\E a \in Founders : dm[a] = c)
    <3>1. chan[c] = R!NoChannel
        BY <1>5, <2>3
    <3> QED BY <2>3, <3>1 DEF R!NoChannel
  <2>4. CASE \E a \in Founders : dm[a] = c
      BY <2>2, <2>4
  <2> QED BY <2>1, <2>3, <2>4
<1>9. RegistryTypes
  <2>1. chan \in [R!Channels -> ChannelRecords]
    <3>1. ASSUME NEW c \in R!Channels PROVE chan[c] \in ChannelRecords
      <4>1. CASE c = 1
        <5>1. chan[c] = [state |-> "open", name |-> GeneralName, kind |-> "public", members |-> Founders]
            BY <1>3, <4>1
        <5> QED BY <5>1 DEF ChannelRecords, ChannelNames
      <4>2. ASSUME NEW a \in Founders, dm[a] = c PROVE chan[c] \in ChannelRecords
        <5>1. chan[c] = [state |-> "open", name |-> DmName(a), kind |-> "dm", members |-> {a}]
            BY <1>4, <4>2
        <5> QED BY <5>1 DEF ChannelRecords, ChannelNames
      <4>3. CASE c # 1 /\ ~(\E a \in Founders : dm[a] = c)
        <5>1. chan[c] = R!NoChannel
            BY <1>5, <4>3
        <5> QED BY <5>1 DEF R!NoChannel, ChannelRecords, ChannelNames
      <4> QED BY <4>1, <4>2, <4>3
    <3>2. chan = [c \in R!Channels |-> chan[c]]
        BY <1>1
    <3> QED BY <3>1, <3>2
  <2>2. agent \in [Agents -> AgentRecords]
      BY <1>0, <1>1 DEF AgentRecords, ChannelNames
  <2>3. call \in [Calls -> CallRecords]
      BY DEF R!Init, R!NoRequest, CallRecords, CallSteps
  <2>4. /\ run = [a \in Agents |-> 0] /\ pending = [a \in Agents |-> {}]
        /\ draining = {} /\ asked = {} /\ registry = 0 /\ runs = 0
      BY DEF R!Init
  <2>5. run \in [Agents -> 0 .. MaxChannels] /\ pending \in [Agents -> SUBSET R!Channels] /\ runs \in 0 .. MaxStarts
      BY <2>4
  <2> QED BY <2>1, <2>2, <2>3, <2>4, <2>5 DEF RegistryTypes
<1>10. ChannelsFit
  <2>1. \A c \in R!Channels :
            /\ chan[c].state = "none" => chan[c] = R!NoChannel
            /\ chan[c].state # "none" => chan[c].kind \in {"public", "dm"}
            /\ chan[c].kind = "public" => c = 1
      BY <1>8
  <2>2. \A c \in R!Channels :
            chan[c].kind = "dm" => \E a \in Agents : agent[a].state # "none" /\ agent[a].dm = c
      BY <1>7, <1>8
  <2> QED BY <1>3, <2>1, <2>2 DEF ChannelsFit
<1>11. DmsFit
  <2>1. \A a \in Agents : agent[a].state # "none" => a \in Founders
      BY <1>7
  <2>2. ASSUME NEW a \in Founders
        PROVE  /\ agent[a].dm \in R!Channels
               /\ chan[agent[a].dm].kind = "dm" /\ chan[agent[a].dm].name = DmName(a)
               /\ chan[agent[a].dm].state = "open" /\ chan[agent[a].dm].members = {a}
    <3>1. agent[a].dm = dm[a]
        BY <1>7
    <3>2. chan[dm[a]] = [state |-> "open", name |-> DmName(a), kind |-> "dm", members |-> {a}]
        BY <1>4
    <3> QED BY <1>4, <3>1, <3>2
  <2>3. \A a, b \in Founders : agent[b].dm = agent[a].dm => b = a
      BY <1>1, <1>7
  <2> QED BY <2>1, <2>2, <2>3 DEF DmsFit
<1>12. RunsFit
    BY <1>7 DEF RunsFit, R!Init
<1>13. MembersFit
  <2>1. \A c \in R!Channels : \A a \in chan[c].members :
            a \in Founders /\ (chan[c].kind = "public" => c = 1)
      BY <1>8
  <2> QED BY <1>7, <2>1 DEF MembersFit, R!Alive
<1>14. \A r \in Calls : CallFits(call[r])
    BY DEF R!Init, R!NoRequest, CallFits
<1>15. PublicNamesDiffer
    BY <1>10, <1>8 DEF PublicNamesDiffer
<1> QED BY <1>9, <1>10, <1>11, <1>12, <1>13, <1>14, <1>15 DEF RegistryInv

LEMMA NatIsWellFounded == IsWellFoundedOn({p \in Nat \X Nat : p[1] < p[2]}, Nat)
BY NatLessThanWellFounded DEF OpToRel

LEMMA NextIsFree ==
    ASSUME R!RoomForChannel
    PROVE  R!NextChannel \in R!Channels /\ chan[R!NextChannel] = R!NoChannel
<1> DEFINE free == {c \in R!Channels : chan[c] = R!NoChannel}
           less == {p \in Nat \X Nat : p[1] < p[2]}
<1>1. free \subseteq Nat /\ free # {}
    BY RegistryFacts DEF R!RoomForChannel
<1>2. PICK c \in free : \A d \in free : ~ (<<d, c>> \in less)
  <2>1. IsWellFoundedOn(less, Nat)
      BY NatIsWellFounded
  <2> HIDE DEF free, less
  <2> QED BY <1>1, <2>1, WFMin
<1>3. c \in R!Channels /\ chan[c] = R!NoChannel /\ \A d \in 1 .. c - 1 : chan[d] # R!NoChannel
  <2>1. \A d \in free : ~ (d < c)
    <3>1. ASSUME NEW d \in free, d < c PROVE <<d, c>> \in less
        BY <1>1, <3>1
    <3> QED BY <1>2, <3>1
  <2>2. \A d \in 1 .. c - 1 : d \in R!Channels /\ d < c
      BY RegistryFacts
  <2> QED BY <2>1, <2>2
<1> QED BY <1>3 DEF R!NextChannel

\* A step of one call, and what else it changes; the channels and people stay.
LEMMA CallMoves ==
    ASSUME RegistryInv, NEW r \in Calls, NEW q \in CallRecords, CallFits(q),
           call' = [call EXCEPT ![r] = q],
           UNCHANGED <<chan, agent, run>>,
           draining' \subseteq Agents, pending' \in [Agents -> SUBSET R!Channels],
           asked' \subseteq R!Channels, registry' \in Calls \cup {0}, runs' \in 0 .. MaxStarts
    PROVE  RegistryInv'
<1>1. RegistryTypes'
    BY DEF RegistryInv, RegistryTypes
<1>2. ChannelsFit' /\ DmsFit' /\ RunsFit' /\ MembersFit' /\ PublicNamesDiffer'
    BY DEF RegistryInv, ChannelsFit, DmsFit, RunsFit, MembersFit, PublicNamesDiffer, R!Alive
<1>3. \A s \in Calls : CallFits(call[s])'
  <2> SUFFICES ASSUME NEW s \in Calls PROVE CallFits(call[s])'
      OBVIOUS
  <2>1. call'[s] = IF s = r THEN q ELSE call[s]
      BY DEF RegistryInv, RegistryTypes
  <2>2. CASE s = r
    <3>1. call'[s] = q
        BY <2>1, <2>2
    <3> QED BY <3>1 DEF CallFits
  <2>3. CASE s # r
    <3>1. call'[s] = call[s] /\ CallFits(call[s])
        BY <2>1, <2>3 DEF RegistryInv
    <3> QED BY <3>1 DEF CallFits
  <2> QED BY <2>2, <2>3
<1> QED BY <1>1, <1>2, <1>3 DEF RegistryInv

LEMMA CallsStay ==
    ASSUME RegistryInv, UNCHANGED <<chan, agent, run, call>>,
           draining' \subseteq Agents, pending' \in [Agents -> SUBSET R!Channels],
           asked' \subseteq R!Channels, registry' \in Calls \cup {0}, runs' \in 0 .. MaxStarts
    PROVE  RegistryInv'
<1>1. RegistryTypes'
    BY DEF RegistryInv, RegistryTypes
<1>2. ChannelsFit' /\ DmsFit' /\ RunsFit' /\ MembersFit' /\ PublicNamesDiffer'
    BY DEF RegistryInv, ChannelsFit, DmsFit, RunsFit, MembersFit, PublicNamesDiffer, R!Alive
<1>3. \A s \in Calls : CallFits(call[s])'
    BY DEF RegistryInv, CallFits
<1> QED BY <1>1, <1>2, <1>3 DEF RegistryInv

\* What a step of Goto leaves of its call.
LEMMA Went ==
    ASSUME RegistryInv, NEW r \in Calls, NEW at \in CallSteps, R!Goto(r, at)
    PROVE  \E q \in CallRecords :
              /\ call' = [call EXCEPT ![r] = q]
              /\ q.at = at /\ q.op = call[r].op /\ q.by = call[r].by /\ q.chan = call[r].chan
              /\ q.name = call[r].name /\ q.agent = call[r].agent /\ q.chosen = call[r].chosen
              /\ q.left = call[r].left
<1> DEFINE q == [call[r] EXCEPT !.at = at]
<1>1. call[r] \in CallRecords
    BY DEF RegistryInv, RegistryTypes
<1>2. q \in CallRecords
    BY <1>1 DEF CallRecords
<1>3. call' = [call EXCEPT ![r] = q]
    BY DEF R!Goto
<1>4. /\ q.at = at /\ q.op = call[r].op /\ q.by = call[r].by /\ q.chan = call[r].chan
      /\ q.name = call[r].name /\ q.agent = call[r].agent /\ q.chosen = call[r].chosen
      /\ q.left = call[r].left
    BY <1>1 DEF CallRecords
<1> QED BY <1>2, <1>3, <1>4

\* A call that has asked what it asks, or waits no longer.
LEMMA AskMoves ==
    ASSUME RegistryInv, NEW r \in Calls, NEW q \in CallRecords, CallFits(q),
           R!Ask(r, q), UNCHANGED <<chan, R!people, asked, registry, runs>>
    PROVE  RegistryInv'
<1>1. call' = [call EXCEPT ![r] = q]
    BY DEF R!Ask
<1> QED BY <1>1, CallMoves DEF R!people, RegistryInv, RegistryTypes

LEMMA GotoMoves ==
    ASSUME RegistryInv, NEW r \in Calls, NEW at \in CallSteps, R!Goto(r, at),
           at = "locked" => call[r].op = "create_channel" /\ call[r].at = "locking",
           at = "noticing" => call[r].op = "create_channel" /\ call[r].at = "locked" /\ call[r].by # 0,
           at \in {"awaiting", "removing"} =>
               call[r].op = "delete_agent" /\ call[r].at \in {"writing", "awaiting"},
           at \notin {"writing", "locking", "waking", "clearing"},
           UNCHANGED <<chan, agent, run>>,
           draining' \subseteq Agents, pending' \in [Agents -> SUBSET R!Channels],
           asked' \subseteq R!Channels, registry' \in Calls \cup {0}, runs' \in 0 .. MaxStarts
    PROVE  RegistryInv'
<1>1. PICK q \in CallRecords :
          /\ call' = [call EXCEPT ![r] = q]
          /\ q.at = at /\ q.op = call[r].op /\ q.by = call[r].by /\ q.chan = call[r].chan
          /\ q.name = call[r].name /\ q.agent = call[r].agent /\ q.chosen = call[r].chosen
          /\ q.left = call[r].left
    BY Went
<1>2. CallFits(call[r])
    BY DEF RegistryInv
<1>3. CallFits(q)
    BY <1>1, <1>2 DEF CallFits
<1> QED BY <1>1, <1>3, CallMoves

\* A run begins or ends: the agent stays what it is, apart from that.
LEMMA RunMoves ==
    ASSUME RegistryInv, NEW a \in Agents, R!Alive(a), NEW st \in {"ready", "busy"},
           NEW c \in 0 .. MaxChannels, c # 0 <=> st = "busy",
           agent' = [agent EXCEPT ![a].state = st], run' = [run EXCEPT ![a] = c], chan' = chan,
           draining' \subseteq Agents, pending' \in [Agents -> SUBSET R!Channels],
           asked' \subseteq R!Channels, registry' \in Calls \cup {0}, runs' \in 0 .. MaxStarts,
           \/ call' = call
           \/ \E r \in Calls, q \in CallRecords : CallFits(q) /\ call' = [call EXCEPT ![r] = q]
    PROVE  RegistryInv'
<1>1. /\ agent \in [Agents -> AgentRecords] /\ call \in [Calls -> CallRecords]
      /\ run \in [Agents -> 0 .. MaxChannels] /\ \A s \in Calls : CallFits(call[s])
    BY DEF RegistryInv, RegistryTypes
<1>2. \A b \in Agents : /\ agent'[b].state = IF b = a THEN st ELSE agent[b].state
                        /\ agent'[b].dm = agent[b].dm /\ agent'[b].may = agent[b].may
    BY <1>1 DEF AgentRecords
<1>3. \A b \in Agents : /\ R!Alive(b)' <=> R!Alive(b)
                        /\ agent'[b].state # "none" <=> agent[b].state # "none"
    BY <1>2 DEF R!Alive
<1>4. agent' \in [Agents -> AgentRecords]
    BY <1>1 DEF AgentRecords
<1>5. call' \in [Calls -> CallRecords] /\ \A s \in Calls : CallFits(call'[s])
    BY <1>1
<1>6. RegistryTypes'
    BY <1>1, <1>4, <1>5 DEF RegistryInv, RegistryTypes
<1>7. ChannelsFit' /\ PublicNamesDiffer'
    BY <1>2, <1>3 DEF RegistryInv, ChannelsFit, PublicNamesDiffer
<1>8. DmsFit'
    BY <1>2, <1>3 DEF RegistryInv, DmsFit
<1>9. RunsFit'
    BY <1>1, <1>2 DEF RegistryInv, RunsFit
<1>10. MembersFit'
  <2>1. \A d \in R!Channels : chan[d].members \subseteq Agents
      BY DEF RegistryInv, RegistryTypes, ChannelRecords
  <2> QED BY <1>2, <1>3, <2>1 DEF RegistryInv, MembersFit
<1>11. \A s \in Calls : CallFits(call[s])'
    BY <1>3, <1>5 DEF CallFits
<1> QED BY <1>6, <1>7, <1>8, <1>9, <1>10, <1>11 DEF RegistryInv

LEMMA AskSteps ==
    ASSUME RegistryInv, NEW r \in Calls
    PROVE  /\ \A by \in Agents \cup {R!None}, name \in Names, members \in SUBSET Agents :
                 R!AskCreateChannel(r, by, name, members) => RegistryInv'
           /\ \A c \in R!Channels : R!AskDelete(r, c) => RegistryInv'
           /\ \A c \in R!Channels : R!AskHumanPost(r, c) => RegistryInv'
           /\ \A op \in {"create_agent", "update_agent", "delete_agent"}, a \in Agents, chosen \in SUBSET R!Choosable :
                 R!AskAgent(r, op, a, chosen) => RegistryInv'
           /\ \A a \in Agents, c \in R!Channels : R!AskPost(r, a, c) => RegistryInv'
<1> USE RegistryFacts
<1>0. /\ run \in [Agents -> 0 .. MaxChannels]
      /\ \A c \in R!Channels : chan[c].kind \in {"none", "public", "dm"}
    BY DEF RegistryInv, RegistryTypes, ChannelRecords
<1>b. /\ \A c \in R!Channels : c \in 0 .. MaxChannels
      /\ R!None = 0 /\ \A a \in Agents : run[a] \in 0 .. MaxChannels
    BY <1>0
<1>c. R!NoRequest \in CallRecords
    BY DEF CallRecords, CallSteps, R!NoRequest
<1>1. ASSUME NEW by \in Agents \cup {R!None}, NEW name \in Names, NEW members \in SUBSET Agents,
             R!AskCreateChannel(r, by, name, members)
      PROVE  RegistryInv'
  <2> DEFINE q == [R!NoRequest EXCEPT !.op = "create_channel", !.at = "locking", !.by = by,
                                      !.chan = IF by = R!None THEN R!None ELSE run[by],
                                      !.name = name, !.chosen = members]
  <2>1. /\ q.at = "locking" /\ q.op = "create_channel" /\ q.by = by
        /\ q.chan = (IF by = 0 THEN 0 ELSE run[by]) /\ q.name = name /\ q.agent = 0 /\ q.chosen = members /\ q.left = {}
      BY DEF R!NoRequest, R!None
  <2>2. R!Ask(r, q) /\ UNCHANGED <<chan, R!people, asked, registry, runs>>
      BY <1>1 DEF R!AskCreateChannel
  <2>3. q \in CallRecords
    <3> DEFINE ch == IF by = R!None THEN R!None ELSE run[by]
    <3>1. ch \in 0 .. MaxChannels /\ by \in Agents \cup {0}
        BY <1>0, <1>b
    <3> HIDE DEF ch
    <3>2. [R!NoRequest EXCEPT !.op = "create_channel", !.at = "locking", !.by = by, !.chan = ch,
                              !.name = name, !.chosen = members] \in CallRecords
        BY <1>c, <3>1 DEF CallRecords, CallSteps
    <3> QED BY <3>2 DEF ch
  <2> HIDE DEF q
  <2>4. by # 0 => agent[by].state # "none"
      BY <1>1 DEF R!AskCreateChannel, RegistryInv, RunsFit
  <2>5. CallFits(q)
      BY <2>1, <2>4 DEF CallFits
  <2> QED BY <2>2, <2>3, <2>5, AskMoves
<1>2. ASSUME NEW c \in R!Channels, R!AskDelete(r, c) PROVE RegistryInv'
  <2> DEFINE q == [R!NoRequest EXCEPT !.op = "delete_channel", !.at = "writing", !.chan = c]
  <2>1. /\ q.at = "writing" /\ q.op = "delete_channel" /\ q.by = 0
        /\ q.chan = c /\ q.name = GeneralName /\ q.agent = 0 /\ q.chosen = {} /\ q.left = {}
      BY DEF R!NoRequest, R!None
  <2>2. R!Ask(r, q) /\ UNCHANGED <<chan, R!people, asked, registry, runs>> /\ chan[c].kind = "public" /\ c # 1
      BY <1>2 DEF R!AskDelete
  <2>3. q \in CallRecords
      BY <1>0, <1>b, <1>c DEF CallRecords, CallSteps
  <2> HIDE DEF q
  <2>4. CallFits(q)
      BY <2>1, <2>2 DEF CallFits
  <2> QED BY <2>2, <2>3, <2>4, AskMoves
<1>3. ASSUME NEW c \in R!Channels, R!AskHumanPost(r, c) PROVE RegistryInv'
  <2> DEFINE q == [R!NoRequest EXCEPT !.op = "human_post", !.at = "locking", !.chan = c]
  <2>1. /\ q.at = "locking" /\ q.op = "human_post" /\ q.by = 0
        /\ q.chan = c /\ q.name = GeneralName /\ q.agent = 0 /\ q.chosen = {} /\ q.left = {}
      BY DEF R!NoRequest, R!None
  <2>2. R!Ask(r, q) /\ UNCHANGED <<chan, R!people, asked, registry, runs>>
      BY <1>3 DEF R!AskHumanPost
  <2>3. q \in CallRecords
      BY <1>0, <1>b, <1>c DEF CallRecords, CallSteps
  <2> HIDE DEF q
  <2>4. CallFits(q)
      BY <2>1 DEF CallFits
  <2> QED BY <2>2, <2>3, <2>4, AskMoves
<1>4. ASSUME NEW op \in {"create_agent", "update_agent", "delete_agent"}, NEW a \in Agents,
             NEW chosen \in SUBSET R!Choosable, R!AskAgent(r, op, a, chosen)
      PROVE  RegistryInv'
  <2> DEFINE q == [R!NoRequest EXCEPT !.op = op, !.at = "writing", !.agent = a, !.chosen = chosen]
  <2>1. /\ q.at = "writing" /\ q.op = op /\ q.by = 0
        /\ q.chan = 0 /\ q.name = GeneralName /\ q.agent = a /\ q.chosen = chosen /\ q.left = {}
      BY DEF R!NoRequest, R!None
  <2>2. R!Ask(r, q) /\ UNCHANGED <<chan, R!people, asked, registry, runs>>
      BY <1>4 DEF R!AskAgent
  <2>3. op = "delete_agent" => agent[a].state # "none"
      BY <1>4 DEF R!AskAgent, R!Alive
  <2>4. \A c \in chosen : c \in R!Channels /\ chan[c].kind = "public"
    <3>1. \A c \in R!Choosable : c \in R!Channels /\ chan[c].state = "open" /\ chan[c].kind # "dm"
        BY DEF R!Choosable, R!OpenChannels, R!Open
    <3> QED BY <3>1 DEF RegistryInv, ChannelsFit
  <2>5. q \in CallRecords
      BY <1>0, <1>b, <1>c, <2>4 DEF CallRecords, CallSteps
  <2> HIDE DEF q
  <2>6. CallFits(q)
      BY <2>1, <2>3, <2>4 DEF CallFits
  <2> QED BY <2>2, <2>5, <2>6, AskMoves
<1>5. ASSUME NEW a \in Agents, NEW c \in R!Channels, R!AskPost(r, a, c) PROVE RegistryInv'
  <2> DEFINE q == [R!NoRequest EXCEPT !.op = "post", !.at = "locking", !.by = a, !.chan = c]
  <2>1. /\ q.at = "locking" /\ q.op = "post" /\ q.by = a
        /\ q.chan = c /\ q.name = GeneralName /\ q.agent = 0 /\ q.chosen = {} /\ q.left = {}
      BY DEF R!NoRequest, R!None
  <2>2. R!Ask(r, q) /\ UNCHANGED <<chan, R!people, asked, registry, runs>>
      BY <1>5 DEF R!AskPost
  <2>3. q \in CallRecords
      BY <1>0, <1>b, <1>c DEF CallRecords, CallSteps
  <2> HIDE DEF q
  <2>4. CallFits(q)
      BY <2>1 DEF CallFits
  <2> QED BY <2>2, <2>3, <2>4, AskMoves
<1> QED BY <1>1, <1>2, <1>3, <1>4, <1>5

LEMMA GotoSteps ==
    ASSUME RegistryInv, NEW r \in Calls
    PROVE  /\ R!LockRegistry(r) => RegistryInv'
           /\ R!RegistryBusy(r) => RegistryInv'
           /\ R!CreateConflict(r) => RegistryInv'
           /\ R!AnnounceConflict(r) => RegistryInv'
           /\ R!ArchiveRefused(r) => RegistryInv'
           /\ R!NothingToClear(r) => RegistryInv'
           /\ R!UpdateRefused(r) => RegistryInv'
           /\ R!CancelAgent(r) => RegistryInv'
           /\ R!AgentIsQuiet(r) => RegistryInv'
           /\ R!PostRefused(r) => RegistryInv'
<1> USE RegistryFacts
<1>0. /\ draining \subseteq Agents /\ pending \in [Agents -> SUBSET R!Channels]
      /\ asked \subseteq R!Channels /\ registry \in Calls \cup {0} /\ runs \in 0 .. MaxStarts
    BY DEF RegistryInv, RegistryTypes
<1>a. {"locked", "refused", "noticing", "done", "awaiting", "removing"} \subseteq CallSteps
    BY DEF CallSteps
<1>1. ASSUME R!LockRegistry(r) PROVE RegistryInv'
  <2>1. R!Goto(r, "locked") /\ call[r].op = "create_channel" /\ call[r].at = "locking"
      BY <1>1 DEF R!LockRegistry, R!At
  <2> QED BY <1>0, <1>1, <1>a, <2>1, GotoMoves DEF R!LockRegistry, R!people
<1>2. ASSUME R!RegistryBusy(r) PROVE RegistryInv'
    BY <1>0, <1>2, <1>a, GotoMoves DEF R!RegistryBusy, R!people
<1>3. ASSUME R!CreateConflict(r) PROVE RegistryInv'
  <2>1. PICK at \in {"refused", "noticing"} :
            /\ R!Goto(r, at)
            /\ at = "noticing" => call[r].op = "create_channel" /\ call[r].at = "locked" /\ call[r].by # 0
      BY <1>3 DEF R!CreateConflict, R!At
  <2>2. registry' \in Calls \cup {0}
      BY <1>0, <1>3 DEF R!CreateConflict, R!Release
  <2> QED BY <1>0, <1>3, <1>a, <2>1, <2>2, GotoMoves DEF R!CreateConflict, R!people
<1>4. ASSUME R!AnnounceConflict(r) PROVE RegistryInv'
    BY <1>0, <1>4, <1>a, GotoMoves DEF R!AnnounceConflict, R!people
<1>5. ASSUME R!ArchiveRefused(r) PROVE RegistryInv'
    BY <1>0, <1>5, <1>a, GotoMoves DEF R!ArchiveRefused, R!people
<1>6. ASSUME R!NothingToClear(r) PROVE RegistryInv'
    BY <1>0, <1>6, <1>a, GotoMoves DEF R!NothingToClear, R!people
<1>7. ASSUME R!UpdateRefused(r) PROVE RegistryInv'
    BY <1>0, <1>7, <1>a, GotoMoves DEF R!UpdateRefused, R!people
<1>8. ASSUME R!CancelAgent(r) PROVE RegistryInv'
  <2>1. R!Goto(r, "awaiting") /\ call[r].op = "delete_agent" /\ call[r].at = "writing"
      BY <1>8 DEF R!CancelAgent, R!At
  <2>2. pending' \in [Agents -> SUBSET R!Channels]
      BY <1>0, <1>8 DEF R!CancelAgent
  <2> QED BY <1>0, <1>8, <1>a, <2>1, <2>2, GotoMoves DEF R!CancelAgent
<1>9. ASSUME R!AgentIsQuiet(r) PROVE RegistryInv'
  <2>1. R!Goto(r, "removing") /\ call[r].op = "delete_agent" /\ call[r].at = "awaiting"
      BY <1>9 DEF R!AgentIsQuiet, R!At
  <2> QED BY <1>0, <1>9, <1>a, <2>1, GotoMoves DEF R!AgentIsQuiet, R!people
<1>10. ASSUME R!PostRefused(r) PROVE RegistryInv'
    BY <1>0, <1>10, <1>a, GotoMoves DEF R!PostRefused, R!people
<1> QED BY <1>1, <1>2, <1>3, <1>4, <1>5, <1>6, <1>7, <1>8, <1>9, <1>10

LEMMA OwnSteps ==
    ASSUME RegistryInv
    PROVE  /\ R!LeaseExpires => RegistryInv'
           /\ \A a \in Agents : R!DrainEnds(a) => RegistryInv'
           /\ \A a \in Agents : R!RequestApproval(a) => RegistryInv'
           /\ \A c \in R!Channels : R!ResolveApproval(c) => RegistryInv'
<1> USE RegistryFacts
<1>0. /\ draining \subseteq Agents /\ pending \in [Agents -> SUBSET R!Channels]
      /\ asked \subseteq R!Channels /\ registry \in Calls \cup {0} /\ runs \in 0 .. MaxStarts
      /\ run \in [Agents -> 0 .. MaxChannels]
    BY DEF RegistryInv, RegistryTypes
<1>1. ASSUME R!LeaseExpires PROVE RegistryInv'
    BY <1>0, <1>1, CallsStay DEF R!LeaseExpires, R!people
<1>2. ASSUME NEW a \in Agents, R!DrainEnds(a) PROVE RegistryInv'
  <2>1. draining' \subseteq Agents /\ pending' \in [Agents -> SUBSET R!Channels]
      BY <1>0, <1>2 DEF R!DrainEnds
  <2> QED BY <1>0, <1>2, <2>1, CallsStay DEF R!DrainEnds
<1>3. ASSUME NEW a \in Agents, R!RequestApproval(a) PROVE RegistryInv'
  <2>1. run[a] \in R!Channels
      BY <1>0, <1>3 DEF R!RequestApproval
  <2>2. asked' \subseteq R!Channels
      BY <1>0, <1>3, <2>1 DEF R!RequestApproval
  <2> QED BY <1>0, <1>3, <2>2, CallsStay DEF R!RequestApproval, R!people
<1>4. ASSUME NEW c \in R!Channels, R!ResolveApproval(c) PROVE RegistryInv'
    BY <1>0, <1>4, CallsStay DEF R!ResolveApproval, R!people
<1> QED BY <1>1, <1>2, <1>3, <1>4

\* A call whose members still to be served become left.
LEMMA Served ==
    ASSUME RegistryInv, NEW r \in Calls, NEW left \in SUBSET Agents, NEW at \in {"waking", "clearing", "done"},
           at # "done" => call[r].chan \in R!Channels
    PROVE  LET q == [call[r] EXCEPT !.left = left, !.at = at]
           IN  q \in CallRecords /\ CallFits(q)
<1> DEFINE q == [call[r] EXCEPT !.left = left, !.at = at]
<1>1. call[r] \in CallRecords
    BY DEF RegistryInv, RegistryTypes
<1>2. q \in CallRecords
    BY <1>1 DEF CallRecords, CallSteps
<1>3. q.at = at /\ q.chan = call[r].chan
    BY <1>1 DEF CallRecords
<1> HIDE DEF q
<1>4. CallFits(q)
    BY <1>3 DEF CallFits
<1> QED BY <1>2, <1>4 DEF q

LEMMA WakeSteps ==
    ASSUME RegistryInv, NEW r \in Calls
    PROVE  /\ \A a \in Agents : R!ClearWake(r, a) => RegistryInv'
           /\ R!AppendPost(r) => RegistryInv'
           /\ \A a \in Agents : R!DeferTurn(r, a) => RegistryInv'
           /\ \A a \in Agents : R!StartTurn(r, a) => RegistryInv'
           /\ \A a \in Agents : R!NoTurn(r, a) => RegistryInv'
<1> USE RegistryFacts
<1>0. /\ draining \subseteq Agents /\ pending \in [Agents -> SUBSET R!Channels]
      /\ asked \subseteq R!Channels /\ registry \in Calls \cup {0} /\ runs \in 0 .. MaxStarts
      /\ call \in [Calls -> CallRecords]
      /\ call[r].left \subseteq Agents
      /\ CallFits(call[r])
    BY DEF RegistryInv, RegistryTypes, CallRecords
<1>a. ASSUME NEW a \in Agents, R!Woken(r, a), call[r].at = "waking"
      PROVE  /\ call[r].chan \in R!Channels
             /\ \E q \in CallRecords : CallFits(q) /\ call' = [call EXCEPT ![r] = q]
  <2> DEFINE at == IF call[r].left = {a} THEN "done" ELSE call[r].at
             q == [call[r] EXCEPT !.left = call[r].left \ {a}, !.at = at]
  <2>1. call[r].chan \in R!Channels
      BY <1>0, <1>a DEF CallFits
  <2>2. at \in {"waking", "clearing", "done"} /\ call[r].left \ {a} \in SUBSET Agents
      BY <1>0, <1>a
  <2>3. call' = [call EXCEPT ![r] = q]
      BY <1>0, <1>a DEF R!Woken
  <2>4. q \in CallRecords /\ CallFits(q)
    <3> HIDE DEF at
    <3> QED BY <2>1, <2>2, Served
  <2> QED BY <2>1, <2>3, <2>4
<1>1. ASSUME NEW a \in Agents, R!ClearWake(r, a) PROVE RegistryInv'
  <2> DEFINE at == IF call[r].left = {a} THEN "done" ELSE call[r].at
             q == [call[r] EXCEPT !.left = call[r].left \ {a}, !.at = at]
  <2>1. call[r].at = "clearing" /\ call[r].chan \in R!Channels
      BY <1>0, <1>1 DEF R!ClearWake, R!At, CallFits
  <2>2. at \in {"waking", "clearing", "done"} /\ call[r].left \ {a} \in SUBSET Agents
      BY <1>0, <2>1
  <2>3. call' = [call EXCEPT ![r] = q]
      BY <1>0, <1>1 DEF R!ClearWake
  <2>4. q \in CallRecords /\ CallFits(q)
    <3> HIDE DEF at
    <3> QED BY <2>1, <2>2, Served
  <2>5. pending' \in [Agents -> SUBSET R!Channels]
      BY <1>0, <1>1 DEF R!ClearWake
  <2> HIDE DEF q
  <2> QED BY <1>0, <1>1, <2>3, <2>4, <2>5, CallMoves DEF R!ClearWake
<1>2. ASSUME R!AppendPost(r) PROVE RegistryInv'
  <2>1. PICK addressed \in SUBSET R!Addressable(call[r].chan, call[r].by) :
            call' = [call EXCEPT ![r].left = addressed,
                                 ![r].at = IF addressed = {} THEN "done" ELSE "waking"]
      BY <1>2 DEF R!AppendPost
  <2> DEFINE at == IF addressed = {} THEN "done" ELSE "waking"
             q == [call[r] EXCEPT !.left = addressed, !.at = at]
  <2>2. call[r].chan \in R!Channels
      BY <1>0, <1>2 DEF R!AppendPost, R!At, CallFits
  <2>3. addressed \in SUBSET Agents
    <3>1. chan[call[r].chan].members \subseteq Agents
        BY <2>2 DEF RegistryInv, RegistryTypes, ChannelRecords
    <3> QED BY <3>1 DEF R!Addressable
  <2>4. at \in {"waking", "clearing", "done"}
      OBVIOUS
  <2>5. call' = [call EXCEPT ![r] = q]
      BY <1>0, <2>1
  <2>6. q \in CallRecords /\ CallFits(q)
    <3> HIDE DEF at
    <3> QED BY <2>2, <2>3, <2>4, Served
  <2> HIDE DEF q
  <2> QED BY <1>0, <1>2, <2>5, <2>6, CallMoves DEF R!AppendPost, R!people
<1>3. ASSUME NEW a \in Agents, R!DeferTurn(r, a) PROVE RegistryInv'
  <2>1. call[r].at = "waking" /\ R!Woken(r, a)
      BY <1>3 DEF R!DeferTurn
  <2>2. PICK q \in CallRecords : CallFits(q) /\ call' = [call EXCEPT ![r] = q]
      BY <1>a, <2>1
  <2>3. pending' \in [Agents -> SUBSET R!Channels]
      BY <1>0, <1>3, <1>a, <2>1 DEF R!DeferTurn
  <2> QED BY <1>0, <1>3, <2>2, <2>3, CallMoves DEF R!DeferTurn
<1>4. ASSUME NEW a \in Agents, R!StartTurn(r, a) PROVE RegistryInv'
  <2>1. call[r].at = "waking" /\ R!Woken(r, a) /\ R!Start(a, call[r].chan) /\ agent[a].state = "ready"
      BY <1>4 DEF R!StartTurn
  <2>2. \E q \in CallRecords : CallFits(q) /\ call' = [call EXCEPT ![r] = q]
      BY <1>a, <2>1
  <2>3. call[r].chan \in 0 .. MaxChannels /\ call[r].chan # 0
      BY <1>a, <2>1
  <2>4. runs' \in 0 .. MaxStarts
      BY <1>0, <2>1 DEF R!Start
  <2>5. /\ R!Alive(a) /\ run' = [run EXCEPT ![a] = call[r].chan]
        /\ agent' = [agent EXCEPT ![a].state = "busy"]
      BY <2>1 DEF R!Start, R!Alive
  <2> QED BY <1>0, <1>4, <2>2, <2>3, <2>4, <2>5, RunMoves DEF R!StartTurn
<1>5. ASSUME NEW a \in Agents, R!NoTurn(r, a) PROVE RegistryInv'
  <2>1. CASE call[r].at = "waking" /\ R!Woken(r, a)
    <3>1. PICK q \in CallRecords : CallFits(q) /\ call' = [call EXCEPT ![r] = q]
        BY <1>a, <2>1
    <3> QED BY <1>0, <1>5, <3>1, CallMoves DEF R!NoTurn, R!people
  <2>2. CASE R!Goto(r, "failed")
      BY <1>0, <1>5, <2>2, GotoMoves, "failed" \in CallSteps DEF R!NoTurn, R!people, CallSteps
  <2> QED BY <1>5, <2>1, <2>2 DEF R!NoTurn
<1> QED BY <1>1, <1>2, <1>3, <1>4, <1>5

LEMMA RunSteps ==
    ASSUME RegistryInv, NEW a \in Agents
    PROVE  /\ R!EndRun(a) => RegistryInv'
           /\ R!DrainStarts(a) => RegistryInv'
<1> USE RegistryFacts
<1>0. /\ draining \subseteq Agents /\ pending \in [Agents -> SUBSET R!Channels]
      /\ asked \subseteq R!Channels /\ registry \in Calls \cup {0} /\ runs \in 0 .. MaxStarts
    BY DEF RegistryInv, RegistryTypes
<1>1. ASSUME R!EndRun(a) PROVE RegistryInv'
  <2>1. R!Alive(a)
      BY <1>1 DEF R!EndRun, R!Alive, RegistryInv, RunsFit
  <2>2. 0 \in 0 .. MaxChannels /\ draining' \subseteq Agents
      BY <1>0, <1>1 DEF R!EndRun
  <2> QED BY <1>0, <1>1, <2>1, <2>2, RunMoves DEF R!EndRun
<1>2. ASSUME R!DrainStarts(a) PROVE RegistryInv'
  <2>1. PICK c \in pending[a] : pending' = [pending EXCEPT ![a] = @ \ {c}] /\ R!Start(a, c)
      BY <1>2 DEF R!DrainStarts
  <2>2. c \in 0 .. MaxChannels /\ c # 0
      BY <1>0
  <2>3. /\ draining' \subseteq Agents /\ pending' \in [Agents -> SUBSET R!Channels]
        /\ runs' \in 0 .. MaxStarts
      BY <1>0, <1>2, <2>1 DEF R!DrainStarts, R!Start
  <2>4. /\ R!Alive(a) /\ run' = [run EXCEPT ![a] = c]
        /\ agent' = [agent EXCEPT ![a].state = "busy"]
      BY <1>2, <2>1 DEF R!DrainStarts, R!Start, R!Alive
  <2> QED BY <1>0, <1>2, <2>2, <2>3, <2>4, RunMoves DEF R!DrainStarts
<1> QED BY <1>1, <1>2

\* The other calls keep what they need when channels keep their kinds and nobody is
\* unmade, whatever else is committed.
LEMMA CallsKeep ==
    ASSUME RegistryInv, NEW r \in Calls, NEW q \in CallRecords, CallFits(q),
           call' = [call EXCEPT ![r] = q],
           \A c \in R!Channels : chan[c].kind = "public" => chan'[c].kind = "public",
           \A a \in Agents : agent[a].state # "none" => agent'[a].state # "none"
    PROVE  call' \in [Calls -> CallRecords] /\ \A s \in Calls : CallFits(call[s])'
<1>1. call \in [Calls -> CallRecords] /\ \A s \in Calls : CallFits(call[s])
    BY DEF RegistryInv, RegistryTypes
<1>2. call' \in [Calls -> CallRecords] /\ \A s \in Calls : CallFits(call'[s])
    BY <1>1
<1>3. \A s \in Calls : CallFits(call[s])'
  <2>1. \A s \in Calls : call'[s].by \in Agents \cup {0}
      BY <1>2 DEF CallRecords
  <2> QED BY <1>2, <2>1 DEF CallFits
<1> QED BY <1>2, <1>3

LEMMA DoneKeeps ==
    ASSUME RegistryInv, NEW r \in Calls, R!Goto(r, "done"),
           \A c \in R!Channels : chan[c].kind = "public" => chan'[c].kind = "public",
           \A a \in Agents : agent[a].state # "none" => agent'[a].state # "none"
    PROVE  call' \in [Calls -> CallRecords] /\ \A s \in Calls : CallFits(call[s])'
<1>1. PICK q \in CallRecords :
          /\ call' = [call EXCEPT ![r] = q]
          /\ q.at = "done" /\ q.op = call[r].op /\ q.by = call[r].by /\ q.chan = call[r].chan
          /\ q.name = call[r].name /\ q.agent = call[r].agent /\ q.chosen = call[r].chosen
          /\ q.left = call[r].left
    BY Went, "done" \in CallSteps DEF CallSteps
<1>2. CallFits(q)
    BY <1>1 DEF CallFits
<1> QED BY <1>1, <1>2, CallsKeep

LEMMA CreateStep ==
    ASSUME RegistryInv, NEW r \in Calls, R!CommitCreate(r)
    PROVE  RegistryInv'
<1> USE RegistryFacts
<1> DEFINE members == {a \in call[r].chosen : R!Alive(a)}
           name == call[r].name
           n == R!NextChannel
<1>1. /\ chan \in [R!Channels -> ChannelRecords] /\ agent \in [Agents -> AgentRecords]
      /\ run \in [Agents -> 0 .. MaxChannels] /\ draining \subseteq Agents
      /\ pending \in [Agents -> SUBSET R!Channels]
      /\ asked \subseteq R!Channels /\ registry \in Calls \cup {0} /\ runs \in 0 .. MaxStarts
    BY DEF RegistryInv, RegistryTypes
<1>2. name \in Names /\ members \in SUBSET Agents /\ \A a \in members : R!Alive(a)
  <2>1. CallFits(call[r]) /\ call[r].op = "create_channel" /\ call[r].at = "locked"
      BY DEF RegistryInv, R!CommitCreate, R!At
  <2> QED BY <2>1 DEF CallFits
<1>3. n \in R!Channels /\ chan[n] = R!NoChannel /\ n # 1
  <2>1. n \in R!Channels /\ chan[n] = R!NoChannel
      BY NextIsFree DEF R!CommitCreate
  <2> QED BY <2>1 DEF RegistryInv, ChannelsFit, R!NoChannel
<1>4. /\ chan' = [chan EXCEPT ![n] = [state |-> "open", name |-> name, kind |-> "public", members |-> members]]
      /\ agent' = [a \in Agents |-> IF a \in members THEN [agent[a] EXCEPT !.may = @ \cup {name}] ELSE agent[a]]
      /\ \A c \in R!Channels : chan[c].state = "open" => chan[c].name # name
      /\ R!Goto(r, "done") /\ UNCHANGED <<run, draining, pending, asked, runs>>
    BY DEF R!CommitCreate, R!NewChannel, R!Join, R!Taken, R!OpenChannels, R!Open
<1>5. registry' \in Calls \cup {0}
    BY <1>1 DEF R!CommitCreate, R!Release
<1> HIDE DEF members, name, n
<1>6. /\ chan'[n].state = "open" /\ chan'[n].name = name /\ chan'[n].kind = "public" /\ chan'[n].members = members
      /\ \A c \in R!Channels : c # n => chan'[c] = chan[c]
      /\ chan[n].state = "none" /\ chan[n].kind = "none" /\ chan[n].members = {}
    BY <1>1, <1>3, <1>4 DEF R!NoChannel
<1>7. \A a \in Agents : /\ agent'[a].state = agent[a].state /\ agent'[a].dm = agent[a].dm
                        /\ agent[a].may \subseteq agent'[a].may
                        /\ a \in members => name \in agent'[a].may
    BY <1>1, <1>4 DEF AgentRecords
<1>8. chan' \in [R!Channels -> ChannelRecords] /\ agent' \in [Agents -> AgentRecords]
  <2>1. [state |-> "open", name |-> name, kind |-> "public", members |-> members] \in ChannelRecords
      BY <1>2 DEF ChannelRecords, ChannelNames
  <2>2. ASSUME NEW a \in Agents PROVE [agent[a] EXCEPT !.may = @ \cup {name}] \in AgentRecords
    <3>1. agent[a] \in AgentRecords
        BY <1>1
    <3>2. agent[a].may \cup {name} \in SUBSET ChannelNames
        BY <1>2, <3>1 DEF AgentRecords, ChannelNames
    <3> QED BY <3>1, <3>2 DEF AgentRecords
  <2> QED BY <1>1, <1>4, <2>1, <2>2
<1>9. call' \in [Calls -> CallRecords] /\ \A s \in Calls : CallFits(call[s])'
    BY <1>4, <1>6, <1>7, DoneKeeps
<1>10. RegistryTypes'
    BY <1>1, <1>4, <1>5, <1>8, <1>9 DEF RegistryTypes
<1>11. ChannelsFit'
  <2>1. ChannelsFit
      BY DEF RegistryInv
  <2>2. chan'[1] = chan[1]
      BY <1>3, <1>6
  <2> QED BY <1>2, <1>3, <1>6, <1>7, <2>1, <2>2 DEF ChannelsFit
<1>12. DmsFit'
  <2>1. DmsFit
      BY DEF RegistryInv
  <2>2. \A a \in Agents : agent[a].state # "none" => agent[a].dm # n
      BY <1>6, <2>1 DEF DmsFit
  <2> QED BY <1>6, <1>7, <2>1, <2>2 DEF DmsFit, R!Alive
<1>13. RunsFit'
    BY <1>4, <1>7 DEF RegistryInv, RunsFit
<1>14. MembersFit'
  <2>1. \A c \in R!Channels : chan[c].members \subseteq Agents
      BY <1>1 DEF ChannelRecords
  <2> QED BY <1>2, <1>6, <1>7, <2>1 DEF RegistryInv, MembersFit, R!Alive
<1>15. PublicNamesDiffer'
    BY <1>4, <1>6 DEF RegistryInv, PublicNamesDiffer
<1> QED BY <1>9, <1>10, <1>11, <1>12, <1>13, <1>14, <1>15 DEF RegistryInv

LEMMA ArchiveStep ==
    ASSUME RegistryInv, NEW r \in Calls, R!Archive(r)
    PROVE  RegistryInv'
<1> USE RegistryFacts
<1> DEFINE n == call[r].chan
           q == [call[r] EXCEPT !.left = chan[n].members, !.at = "clearing"]
<1>1. /\ chan \in [R!Channels -> ChannelRecords] /\ agent \in [Agents -> AgentRecords]
      /\ run \in [Agents -> 0 .. MaxChannels] /\ draining \subseteq Agents
      /\ pending \in [Agents -> SUBSET R!Channels] /\ call \in [Calls -> CallRecords]
      /\ asked \subseteq R!Channels /\ registry \in Calls \cup {0} /\ runs \in 0 .. MaxStarts
    BY DEF RegistryInv, RegistryTypes
<1>2. n \in R!Channels /\ n # 1 /\ chan[n].kind = "public"
  <2>1. CallFits(call[r]) /\ call[r].op = "delete_channel" /\ call[r].at = "writing"
      BY DEF RegistryInv, R!Archive, R!At
  <2> QED BY <2>1 DEF CallFits
<1>3. /\ chan' = [chan EXCEPT ![n].state = "archived"] /\ chan[n].state = "open"
      /\ call' = [call EXCEPT ![r] = q]
      /\ UNCHANGED <<agent, run, draining, pending, asked, registry, runs>>
    BY <1>1 DEF R!Archive, R!people, R!Open
<1>4. q \in CallRecords /\ CallFits(q)
  <2>1. chan[n].members \in SUBSET Agents
      BY <1>1, <1>2 DEF ChannelRecords
  <2> QED BY <1>2, <2>1, Served
<1> HIDE DEF q, n
<1>5. \A c \in R!Channels :
          /\ chan'[c].state = IF c = n THEN "archived" ELSE chan[c].state
          /\ chan'[c].name = chan[c].name /\ chan'[c].kind = chan[c].kind /\ chan'[c].members = chan[c].members
          /\ c # n => chan'[c] = chan[c]
  <2>1. chan[n] \in ChannelRecords
      BY <1>1, <1>2
  <2>2. chan'[n] = [chan[n] EXCEPT !.state = "archived"]
      BY <1>1, <1>2, <1>3
  <2>3. /\ chan'[n].state = "archived" /\ chan'[n].name = chan[n].name
        /\ chan'[n].kind = chan[n].kind /\ chan'[n].members = chan[n].members
      BY <2>1, <2>2 DEF ChannelRecords
  <2>4. \A c \in R!Channels : c # n => chan'[c] = chan[c]
      BY <1>1, <1>3
  <2> QED BY <2>3, <2>4
<1>6. chan' \in [R!Channels -> ChannelRecords]
  <2>1. chan[n] \in ChannelRecords
      BY <1>1, <1>2
  <2>2. [chan[n] EXCEPT !.state = "archived"] \in ChannelRecords
      BY <2>1 DEF ChannelRecords
  <2>3. chan' = [chan EXCEPT ![n] = [chan[n] EXCEPT !.state = "archived"]]
      BY <1>3
  <2> QED BY <1>1, <2>2, <2>3
<1>7. call' \in [Calls -> CallRecords] /\ \A s \in Calls : CallFits(call[s])'
    BY <1>3, <1>4, <1>5, CallsKeep
<1>8. RegistryTypes'
    BY <1>1, <1>3, <1>6, <1>7 DEF RegistryTypes
<1>9. ChannelsFit'
  <2>1. ChannelsFit
      BY DEF RegistryInv
  <2> QED BY <1>2, <1>3, <1>5, <2>1 DEF ChannelsFit
<1>10. DmsFit'
  <2>1. DmsFit
      BY DEF RegistryInv
  <2>2. \A a \in Agents : agent[a].state # "none" => agent[a].dm # n
      BY <1>2, <2>1 DEF DmsFit
  <2> QED BY <1>3, <1>5, <2>1, <2>2 DEF DmsFit, R!Alive
<1>11. RunsFit'
    BY <1>3 DEF RegistryInv, RunsFit
<1>12. MembersFit'
    BY <1>3, <1>5 DEF RegistryInv, MembersFit, R!Alive
<1>13. PublicNamesDiffer'
    BY <1>3, <1>5 DEF RegistryInv, PublicNamesDiffer
<1> QED BY <1>7, <1>8, <1>9, <1>10, <1>11, <1>12, <1>13 DEF RegistryInv

\* A record with the fields of NoChannel is NoChannel.
LEMMA IsNoChannel ==
    ASSUME NEW x \in ChannelRecords, x.state = "none", x.name = GeneralName, x.kind = "none", x.members = {}
    PROVE  x = R!NoChannel
BY DEF ChannelRecords, R!NoChannel

LEMMA AgentStep ==
    ASSUME RegistryInv, NEW r \in Calls, R!CommitAgent(r)
    PROVE  RegistryInv'
<1> USE RegistryFacts
<1> DEFINE a == call[r].agent
           chosen == call[r].chosen
           joined == {1} \cup chosen
           n == R!NextChannel
           dm == [state |-> "open", name |-> DmName(a), kind |-> "dm", members |-> {a}]
<1>1. /\ chan \in [R!Channels -> ChannelRecords] /\ agent \in [Agents -> AgentRecords]
      /\ run \in [Agents -> 0 .. MaxChannels] /\ draining \subseteq Agents
      /\ pending \in [Agents -> SUBSET R!Channels]
      /\ asked \subseteq R!Channels /\ registry \in Calls \cup {0} /\ runs \in 0 .. MaxStarts
    BY DEF RegistryInv, RegistryTypes
<1>2. a \in Agents /\ \A c \in chosen : c \in R!Channels /\ chan[c].kind = "public"
  <2>1. CallFits(call[r]) /\ call[r].op = "create_agent" /\ call[r].at = "writing"
      BY DEF RegistryInv, R!CommitAgent, R!At
  <2> QED BY <2>1 DEF CallFits
<1>3. n \in R!Channels /\ chan[n] = R!NoChannel
    BY NextIsFree DEF R!CommitAgent
<1>4. /\ chan[n].state = "none" /\ chan[n].kind = "none" /\ chan[n].members = {}
      /\ chan[1].kind = "public" /\ n # 1 /\ n \notin joined
      /\ \A c \in joined : c \in R!Channels /\ chan[c].kind = "public"
  <2>1. chan[1].kind = "public"
      BY DEF RegistryInv, ChannelsFit
  <2> QED BY <1>2, <1>3, <2>1 DEF R!NoChannel
<1>g. PICK given \in Policies :
          agent' = [agent EXCEPT ![a] = [state |-> "ready", dm |-> n,
                                         may |-> given \cup {chan[c].name : c \in chosen}]]
    BY DEF R!CommitAgent
<1> DEFINE may == given \cup {chan[c].name : c \in chosen}
           new == [state |-> "ready", dm |-> n, may |-> may]
<1>5. /\ chan' = [c \in R!Channels |->
                   IF c \in joined THEN [chan[c] EXCEPT !.members = @ \cup {a}]
                   ELSE [chan EXCEPT ![n] = dm][c]]
      /\ agent' = [agent EXCEPT ![a] = new]
      /\ agent[a].state = "none"
      /\ R!Goto(r, "done") /\ UNCHANGED <<run, draining, pending, asked, registry, runs>>
    BY <1>g DEF R!CommitAgent, R!NewChannel, R!General
<1>6. \A c \in R!Channels :
          /\ c \in joined => chan'[c] = [chan[c] EXCEPT !.members = chan[c].members \cup {a}]
          /\ c = n => chan'[c] = dm
          /\ c \notin joined /\ c # n => chan'[c] = chan[c]
    BY <1>1, <1>4, <1>5
<1>7. may \subseteq ChannelNames
  <2>1. \A c \in R!Channels : chan[c].name \in ChannelNames
      BY <1>1 DEF ChannelRecords
  <2>2. given \subseteq ChannelNames
      BY DEF ChannelNames
  <2> QED BY <1>2, <2>1, <2>2
<1>8. \A c \in joined : c # 1 => chan[c].name \in may
    OBVIOUS
<1>9. new \in AgentRecords /\ new.state = "ready" /\ new.dm = n /\ new.may = may
  <2> HIDE DEF may
  <2> QED BY <1>3, <1>7 DEF AgentRecords
<1>10. dm \in ChannelRecords /\ dm.state = "open" /\ dm.name = DmName(a) /\ dm.kind = "dm" /\ dm.members = {a}
    BY <1>2 DEF ChannelRecords, ChannelNames
<1> HIDE DEF dm, new, may, joined, n, a, chosen
<1>11. /\ \A c \in R!Channels : c \in joined =>
             /\ chan'[c] \in ChannelRecords
             /\ chan'[c].state = chan[c].state /\ chan'[c].name = chan[c].name /\ chan'[c].kind = chan[c].kind
             /\ chan'[c].members = chan[c].members \cup {a}
       /\ \A c \in R!Channels : c \notin joined /\ c # n => chan'[c] = chan[c]
       /\ chan'[n] = dm
  <2>1. ASSUME NEW c \in R!Channels, c \in joined
        PROVE  /\ chan'[c] \in ChannelRecords
               /\ chan'[c].state = chan[c].state /\ chan'[c].name = chan[c].name /\ chan'[c].kind = chan[c].kind
               /\ chan'[c].members = chan[c].members \cup {a}
    <3>1. chan[c] \in ChannelRecords /\ chan[c].members \cup {a} \in SUBSET Agents
        BY <1>1, <1>2 DEF ChannelRecords
    <3>2. chan'[c] = [chan[c] EXCEPT !.members = chan[c].members \cup {a}]
        BY <1>6, <2>1
    <3> QED BY <3>1, <3>2 DEF ChannelRecords
  <2> QED BY <1>3, <1>6, <2>1
<1>12. chan' \in [R!Channels -> ChannelRecords]
  <2>1. \A c \in R!Channels : chan'[c] \in ChannelRecords
      BY <1>1, <1>10, <1>11
  <2>2. chan' = [c \in R!Channels |-> chan'[c]]
      BY <1>5
  <2> QED BY <2>1, <2>2
<1>13. /\ agent' \in [Agents -> AgentRecords] /\ agent'[a] = new
       /\ \A b \in Agents : b # a => agent'[b] = agent[b]
    BY <1>1, <1>2, <1>5, <1>9
<1>14. /\ \A c \in R!Channels : c # n => /\ chan'[c].state = chan[c].state /\ chan'[c].name = chan[c].name
                                         /\ chan'[c].kind = chan[c].kind
                                         /\ chan'[c].members \subseteq chan[c].members \cup {a}
       /\ \A c \in R!Channels : chan[c].kind # "public" /\ c # n => chan'[c] = chan[c]
       /\ \A c \in R!Channels : chan[c].kind = "public" => chan'[c].kind = "public"
       /\ \A b \in Agents : agent[b].state # "none" => b # a /\ agent'[b] = agent[b]
    BY <1>4, <1>5, <1>11, <1>13
<1>15. call' \in [Calls -> CallRecords] /\ \A s \in Calls : CallFits(call[s])'
    BY <1>5, <1>14, DoneKeeps
<1>16. RegistryTypes'
    BY <1>1, <1>5, <1>12, <1>13, <1>15 DEF RegistryTypes
<1>17. ChannelsFit'
  <2>1. ChannelsFit
      BY DEF RegistryInv
  <2>2. \A c \in R!Channels : chan'[c].state = "none" => chan'[c] = R!NoChannel
    <3> SUFFICES ASSUME NEW c \in R!Channels, chan'[c].state = "none" PROVE chan'[c] = R!NoChannel
        OBVIOUS
    <3>1. c # n /\ chan[c].state = "none"
        BY <1>10, <1>11, <1>14
    <3>2. chan[c] = R!NoChannel
        BY <2>1, <3>1 DEF ChannelsFit
    <3>3. chan[c].kind = "none"
        BY <3>2 DEF R!NoChannel
    <3> QED BY <1>14, <3>1, <3>2, <3>3
  <2>3. \A c \in R!Channels : chan'[c].kind = "dm" => \E b \in Agents : agent'[b].state # "none" /\ agent'[b].dm = c
    <3>1. agent'[a].state # "none" /\ agent'[a].dm = n
        BY <1>9, <1>13
    <3> QED BY <1>2, <1>14, <2>1, <3>1 DEF ChannelsFit
  <2>4. \A c \in R!Channels :
            /\ chan'[c].state # "none" => chan'[c].kind \in {"public", "dm"}
            /\ chan'[c].kind = "public" => chan'[c].name \in Names \cup {GeneralName}
      BY <1>10, <1>11, <1>14, <2>1 DEF ChannelsFit
  <2> QED BY <1>4, <1>14, <2>1, <2>2, <2>3, <2>4 DEF ChannelsFit
<1>18. DmsFit'
  <2>1. DmsFit
      BY DEF RegistryInv
  <2>2. \A b \in Agents : agent[b].state # "none" =>
            agent[b].dm \in R!Channels /\ agent[b].dm # n /\ chan'[agent[b].dm] = chan[agent[b].dm]
      BY <1>4, <1>14, <2>1 DEF DmsFit
  <2>3. \A b \in Agents : agent'[b].state # "none" /\ b # a => agent[b].state # "none" /\ agent'[b] = agent[b]
      BY <1>13
  <2>4. agent'[a].dm = n /\ chan'[n] = dm
      BY <1>9, <1>11, <1>13
  <2>5. ASSUME NEW b \in Agents, agent'[b].state # "none"
        PROVE  /\ agent'[b].dm \in R!Channels
               /\ chan'[agent'[b].dm].kind = "dm" /\ chan'[agent'[b].dm].name = DmName(b)
               /\ R!Alive(b)' => chan'[agent'[b].dm].state = "open" /\ chan'[agent'[b].dm].members = {b}
    <3>1. CASE b = a
        BY <1>3, <1>10, <2>4, <3>1
    <3>2. CASE b # a
      <4>1. agent[b].state # "none" /\ agent'[b] = agent[b] /\ (R!Alive(b)' => R!Alive(b))
          BY <2>3, <2>5, <3>2 DEF R!Alive
      <4>2. /\ agent[b].dm \in R!Channels /\ chan'[agent[b].dm] = chan[agent[b].dm]
            /\ chan[agent[b].dm].kind = "dm" /\ chan[agent[b].dm].name = DmName(b)
            /\ R!Alive(b) => chan[agent[b].dm].state = "open" /\ chan[agent[b].dm].members = {b}
          BY <2>1, <2>2, <4>1 DEF DmsFit
      <4> QED BY <4>1, <4>2
    <3> QED BY <3>1, <3>2
  <2>6. \A b, d \in Agents : agent'[b].state # "none" /\ agent'[d].state # "none" /\ agent'[d].dm = agent'[b].dm => d = b
    <3> SUFFICES ASSUME NEW b \in Agents, NEW d \in Agents, agent'[b].state # "none", agent'[d].state # "none",
                        agent'[d].dm = agent'[b].dm
                 PROVE  d = b
        OBVIOUS
    <3>1. CASE b # a /\ d # a
      <4>1. agent[b].state # "none" /\ agent[d].state # "none" /\ agent[d].dm = agent[b].dm
          BY <2>3, <3>1
      <4> QED BY <2>1, <4>1 DEF DmsFit
    <3>2. CASE b = a /\ d # a
        BY <2>2, <2>3, <2>4, <3>2
    <3>3. CASE b # a /\ d = a
        BY <2>2, <2>3, <2>4, <3>3
    <3> QED BY <3>1, <3>2, <3>3
  <2> QED BY <2>5, <2>6 DEF DmsFit
<1>19. RunsFit'
  <2>1. RunsFit
      BY DEF RegistryInv
  <2> QED BY <1>5, <1>9, <1>13, <2>1 DEF RunsFit
<1>20. MembersFit'
  <2>1. MembersFit /\ \A c \in R!Channels : chan[c].members \subseteq Agents
      BY <1>1 DEF RegistryInv, ChannelRecords
  <2>2. ASSUME NEW c \in R!Channels, NEW b \in chan'[c].members
        PROVE  b \in Agents /\ R!Alive(b)' /\ (c # 1 /\ chan'[c].kind = "public" => chan'[c].name \in agent'[b].may)
    <3>1. CASE b = a
      <4>1. b \in Agents /\ R!Alive(b)'
          BY <1>2, <1>9, <1>13, <3>1 DEF R!Alive
      <4>2. CASE c \in joined
          BY <1>8, <1>9, <1>11, <1>13, <3>1, <4>1, <4>2
      <4>3. CASE c = n
          BY <1>10, <1>11, <4>1, <4>3
      <4>4. CASE c \notin joined /\ c # n
        <5>1. b \in chan[c].members
            BY <1>11, <4>4
        <5>2. R!Alive(a)
            BY <2>1, <3>1, <5>1 DEF MembersFit
        <5> QED BY <1>5, <5>2 DEF R!Alive
      <4> QED BY <4>2, <4>3, <4>4
    <3>2. CASE b # a
      <4>1. c # n
          BY <1>10, <1>11, <3>2
      <4>2. b \in chan[c].members
          BY <1>14, <3>2, <4>1
      <4>3. b \in Agents /\ R!Alive(b) /\ (c # 1 /\ chan[c].kind = "public" => chan[c].name \in agent[b].may)
          BY <2>1, <4>2 DEF MembersFit
      <4> QED BY <1>13, <1>14, <3>2, <4>1, <4>3 DEF R!Alive
    <3> QED BY <3>1, <3>2
  <2> QED BY <2>2 DEF MembersFit
<1>21. PublicNamesDiffer'
    BY <1>3, <1>10, <1>11, <1>14 DEF RegistryInv, PublicNamesDiffer
<1> QED BY <1>15, <1>16, <1>17, <1>18, <1>19, <1>20, <1>21 DEF RegistryInv

LEMMA UpdateStep ==
    ASSUME RegistryInv, NEW r \in Calls, R!CommitUpdate(r)
    PROVE  RegistryInv'
<1> USE RegistryFacts
<1> DEFINE a == call[r].agent
           chosen == call[r].chosen
           Wanted(c) == IF c = 1 \/ chan[c].kind # "public" THEN a \in chan[c].members
                        ELSE c \in chosen
           in == {c \in R!Channels : Wanted(c) /\ chan[c].kind = "public"}
<1>1. /\ chan \in [R!Channels -> ChannelRecords] /\ agent \in [Agents -> AgentRecords]
      /\ run \in [Agents -> 0 .. MaxChannels] /\ draining \subseteq Agents
      /\ pending \in [Agents -> SUBSET R!Channels]
      /\ asked \subseteq R!Channels /\ registry \in Calls \cup {0} /\ runs \in 0 .. MaxStarts
    BY DEF RegistryInv, RegistryTypes
<1>2. a \in Agents /\ \A c \in chosen : c \in R!Channels /\ chan[c].kind = "public"
  <2>1. CallFits(call[r]) /\ call[r].op = "update_agent" /\ call[r].at = "writing"
      BY DEF RegistryInv, R!CommitUpdate, R!At
  <2> QED BY <2>1 DEF CallFits
<1>3. /\ chan' = [c \in R!Channels |->
                   [chan[c] EXCEPT !.members = IF Wanted(c) THEN @ \cup {a} ELSE @ \ {a}]]
      /\ agent[a].state = "ready"
      /\ R!Goto(r, "done") /\ UNCHANGED <<run, draining, pending, asked, registry, runs>>
    BY DEF R!CommitUpdate, R!General
<1>4. PICK kept \in {agent[a].may} \cup Policies :
          agent' = [agent EXCEPT ![a].may = kept \cup {chan[c].name : c \in in}]
    BY DEF R!CommitUpdate, R!General
<1> DEFINE may == kept \cup {chan[c].name : c \in in}
<1>5. may \subseteq ChannelNames
  <2>1. \A c \in R!Channels : chan[c].name \in ChannelNames
      BY <1>1 DEF ChannelRecords
  <2>2. kept \subseteq ChannelNames
      BY <1>1, <1>2, <1>4 DEF AgentRecords, ChannelNames
  <2> QED BY <2>1, <2>2
<1>6. \A c \in R!Channels : Wanted(c) /\ chan[c].kind = "public" => chan[c].name \in may
    OBVIOUS
<1>7. /\ agent' \in [Agents -> AgentRecords] /\ agent'[a].may = may
      /\ \A b \in Agents : agent'[b].state = agent[b].state /\ agent'[b].dm = agent[b].dm
      /\ \A b \in Agents : b # a => agent'[b] = agent[b]
  <2>1. agent' = [agent EXCEPT ![a].may = may]
      BY <1>4
  <2> HIDE DEF may
  <2> QED BY <1>1, <1>2, <1>5, <2>1 DEF AgentRecords
<1> HIDE DEF may
<1>8. \A c \in R!Channels :
          /\ chan'[c] \in ChannelRecords
          /\ chan'[c].state = chan[c].state /\ chan'[c].name = chan[c].name /\ chan'[c].kind = chan[c].kind
          /\ chan'[c].members = IF Wanted(c) THEN chan[c].members \cup {a} ELSE chan[c].members \ {a}
  <2> SUFFICES ASSUME NEW c \in R!Channels
               PROVE  /\ chan'[c] \in ChannelRecords
                      /\ chan'[c].state = chan[c].state /\ chan'[c].name = chan[c].name /\ chan'[c].kind = chan[c].kind
                      /\ chan'[c].members = IF Wanted(c) THEN chan[c].members \cup {a} ELSE chan[c].members \ {a}
      OBVIOUS
  <2> DEFINE m == IF Wanted(c) THEN chan[c].members \cup {a} ELSE chan[c].members \ {a}
  <2>1. chan'[c] = [chan[c] EXCEPT !.members = m]
      BY <1>3
  <2>2. chan[c] \in ChannelRecords /\ m \in SUBSET Agents
      BY <1>1, <1>2 DEF ChannelRecords
  <2> HIDE DEF m, Wanted, a
  <2>3. /\ chan'[c] \in ChannelRecords /\ chan'[c].members = m
        /\ chan'[c].state = chan[c].state /\ chan'[c].name = chan[c].name /\ chan'[c].kind = chan[c].kind
      BY <2>1, <2>2 DEF ChannelRecords
  <2> QED BY Zenon, <2>3 DEF m
<1>9. \A c \in R!Channels : chan[c].kind # "public" => chan'[c].members = chan[c].members
  <2> SUFFICES ASSUME NEW c \in R!Channels, chan[c].kind # "public"
               PROVE  chan'[c].members = chan[c].members
      OBVIOUS
  <2>1. Wanted(c) <=> a \in chan[c].members
      BY DEF Wanted
  <2>2. chan'[c].members = IF Wanted(c) THEN chan[c].members \cup {a} ELSE chan[c].members \ {a}
      BY <1>8
  <2> HIDE DEF Wanted, a
  <2> QED BY <2>1, <2>2
<1>10. chan' \in [R!Channels -> ChannelRecords]
  <2>1. chan' = [c \in R!Channels |-> chan'[c]]
      BY <1>3
  <2> QED BY <1>8, <2>1
<1>8a. \A c \in R!Channels :
          /\ chan'[c] \in ChannelRecords
          /\ chan'[c].state = chan[c].state /\ chan'[c].name = chan[c].name /\ chan'[c].kind = chan[c].kind
    BY <1>8
<1> HIDE DEF Wanted, in, a, chosen
<1>11. call' \in [Calls -> CallRecords] /\ \A s \in Calls : CallFits(call[s])'
    BY <1>3, <1>7, <1>8a, DoneKeeps
<1>12. RegistryTypes'
    BY <1>1, <1>3, <1>7, <1>10, <1>11 DEF RegistryTypes
<1>13. ChannelsFit'
  <2>1. ChannelsFit
      BY DEF RegistryInv
  <2>2. \A c \in R!Channels : chan'[c].state = "none" => chan'[c] = R!NoChannel
    <3> SUFFICES ASSUME NEW c \in R!Channels, chan'[c].state = "none" PROVE chan'[c] = R!NoChannel
        OBVIOUS
    <3>1. chan[c] = R!NoChannel
        BY <1>8a, <2>1 DEF ChannelsFit
    <3>2. chan[c].name = GeneralName /\ chan[c].kind = "none" /\ chan[c].members = {}
        BY <3>1 DEF R!NoChannel
    <3>3. /\ chan'[c].name = GeneralName /\ chan'[c].kind = "none" /\ chan'[c].members = {}
          /\ chan'[c] \in ChannelRecords
        BY <1>9, <1>8a, <3>2
    <3> QED BY <3>3, IsNoChannel
  <2>3. chan'[1].state = "open" /\ chan'[1].kind = "public" /\ chan'[1].name = GeneralName
      BY <1>8a, <2>1 DEF ChannelsFit
  <2>4. \A c \in R!Channels :
            /\ chan'[c].state # "none" => chan'[c].kind \in {"public", "dm"}
            /\ chan'[c].kind = "public" => chan'[c].name \in Names \cup {GeneralName}
            /\ chan'[c].kind = "dm" => \E b \in Agents : agent'[b].state # "none" /\ agent'[b].dm = c
      BY <1>7, <1>8a, <2>1 DEF ChannelsFit
  <2> QED BY <2>2, <2>3, <2>4 DEF ChannelsFit
<1>14. DmsFit'
  <2>1. DmsFit
      BY DEF RegistryInv
  <2>2. \A b \in Agents : R!Alive(b)' <=> R!Alive(b)
      BY <1>7 DEF R!Alive
  <2>3. \A b \in Agents : agent[b].state # "none" =>
            agent[b].dm \in R!Channels /\ chan'[agent[b].dm].members = chan[agent[b].dm].members
      BY <1>9, <2>1 DEF DmsFit
  <2> QED BY <1>7, <1>8a, <2>1, <2>2, <2>3 DEF DmsFit
<1>15. RunsFit'
    BY <1>3, <1>7 DEF RegistryInv, RunsFit
<1>16. MembersFit'
  <2>1. MembersFit /\ \A c \in R!Channels : chan[c].members \subseteq Agents
      BY <1>1 DEF RegistryInv, ChannelRecords
  <2>2. ASSUME NEW c \in R!Channels, NEW b \in chan'[c].members
        PROVE  R!Alive(b)' /\ (c # 1 /\ chan'[c].kind = "public" => chan'[c].name \in agent'[b].may)
    <3>1. CASE b = a
      <4>1. R!Alive(b)'
          BY <1>2, <1>3, <1>7, <3>1 DEF R!Alive
      <4>2. Wanted(c)
          BY <1>8, <3>1
      <4> QED BY <1>6, <1>7, <1>8a, <3>1, <4>1, <4>2
    <3>2. CASE b # a
      <4>1. b \in chan[c].members
          BY <1>8, <3>2
      <4>2. b \in Agents /\ R!Alive(b) /\ (c # 1 /\ chan[c].kind = "public" => chan[c].name \in agent[b].may)
          BY <2>1, <4>1 DEF MembersFit
      <4> QED BY <1>7, <1>8a, <3>2, <4>2 DEF R!Alive
    <3> QED BY <3>1, <3>2
  <2> QED BY <2>2 DEF MembersFit
<1>17. PublicNamesDiffer'
    BY <1>8a DEF RegistryInv, PublicNamesDiffer
<1> QED BY <1>11, <1>12, <1>13, <1>14, <1>15, <1>16, <1>17 DEF RegistryInv

LEMMA RemoveStep ==
    ASSUME RegistryInv, NEW r \in Calls, R!RemoveAgent(r)
    PROVE  RegistryInv'
<1> USE RegistryFacts
<1> DEFINE a == call[r].agent
           n == agent[a].dm
<1>1. /\ chan \in [R!Channels -> ChannelRecords] /\ agent \in [Agents -> AgentRecords]
      /\ run \in [Agents -> 0 .. MaxChannels] /\ draining \subseteq Agents
      /\ pending \in [Agents -> SUBSET R!Channels]
      /\ asked \subseteq R!Channels /\ registry \in Calls \cup {0} /\ runs \in 0 .. MaxStarts
    BY DEF RegistryInv, RegistryTypes
<1>2. a \in Agents /\ agent[a].state # "none"
  <2>1. CallFits(call[r]) /\ call[r].op = "delete_agent" /\ call[r].at = "removing"
      BY DEF RegistryInv, R!RemoveAgent, R!At
  <2> QED BY <2>1 DEF CallFits
<1>3. n \in R!Channels /\ chan[n].kind = "dm"
    BY <1>2 DEF RegistryInv, DmsFit
<1>4. /\ agent' = [agent EXCEPT ![a].state = "gone"]
      /\ run' = [run EXCEPT ![a] = 0]
      /\ chan' = [c \in R!Channels |->
                   [chan[c] EXCEPT !.members = @ \ {a}, !.state = IF c = n THEN "archived" ELSE @]]
      /\ R!Goto(r, "done") /\ UNCHANGED <<draining, pending, asked, registry, runs>>
    BY DEF R!RemoveAgent, R!None
<1> HIDE DEF a, n
<1>5. \A c \in R!Channels :
          /\ chan'[c] \in ChannelRecords
          /\ chan'[c].state = (IF c = n THEN "archived" ELSE chan[c].state)
          /\ chan'[c].name = chan[c].name /\ chan'[c].kind = chan[c].kind
          /\ chan'[c].members = chan[c].members \ {a}
  <2> SUFFICES ASSUME NEW c \in R!Channels
               PROVE  /\ chan'[c] \in ChannelRecords
                      /\ chan'[c].state = (IF c = n THEN "archived" ELSE chan[c].state)
                      /\ chan'[c].name = chan[c].name /\ chan'[c].kind = chan[c].kind
                      /\ chan'[c].members = chan[c].members \ {a}
      OBVIOUS
  <2> DEFINE m == chan[c].members \ {a}
             st == IF c = n THEN "archived" ELSE chan[c].state
  <2>1. chan'[c] = [chan[c] EXCEPT !.members = m, !.state = st]
      BY <1>4
  <2>2. chan[c] \in ChannelRecords /\ m \in SUBSET Agents /\ st \in {"none", "open", "archived"}
      BY <1>1 DEF ChannelRecords
  <2> HIDE DEF m, st
  <2>3. /\ chan'[c] \in ChannelRecords /\ chan'[c].members = m
        /\ chan'[c].state = st /\ chan'[c].name = chan[c].name /\ chan'[c].kind = chan[c].kind
      BY <2>1, <2>2 DEF ChannelRecords
  <2> QED BY <2>3 DEF m, st
<1>6. chan' \in [R!Channels -> ChannelRecords]
  <2>1. chan' = [c \in R!Channels |-> chan'[c]]
      BY <1>4
  <2> QED BY <1>5, <2>1
<1>7. /\ agent' \in [Agents -> AgentRecords]
      /\ \A b \in Agents : agent'[b].dm = agent[b].dm /\ agent'[b].may = agent[b].may
      /\ agent'[a].state = "gone" /\ \A b \in Agents : b # a => agent'[b].state = agent[b].state
    BY <1>1, <1>2, <1>4 DEF AgentRecords
<1>8. \A b \in Agents : agent'[b].state # "none" <=> agent[b].state # "none"
    BY <1>2, <1>7
<1>9. call' \in [Calls -> CallRecords] /\ \A s \in Calls : CallFits(call[s])'
  <2>1. \A c \in R!Channels : chan[c].kind = "public" => chan'[c].kind = "public"
      BY <1>5
  <2>2. \A b \in Agents : agent[b].state # "none" => agent'[b].state # "none"
      BY <1>8
  <2>3. R!Goto(r, "done")
      BY <1>4
  <2> QED BY <2>1, <2>2, <2>3, DoneKeeps
<1>10. RegistryTypes'
  <2>1. run' \in [Agents -> 0 .. MaxChannels]
    <3>1. run' = [run EXCEPT ![a] = 0]
        BY <1>4
    <3>2. 0 \in 0 .. MaxChannels
        OBVIOUS
    <3>3. run \in [Agents -> 0 .. MaxChannels]
        BY <1>1
    <3> QED BY <3>1, <3>2, <3>3
  <2> QED BY <1>1, <1>4, <1>6, <1>7, <1>9, <2>1 DEF RegistryTypes
<1>11. ChannelsFit'
  <2>1. ChannelsFit
      BY DEF RegistryInv
  <2>2. \A c \in R!Channels : chan'[c].state = "none" => chan'[c] = R!NoChannel
    <3> SUFFICES ASSUME NEW c \in R!Channels, chan'[c].state = "none" PROVE chan'[c] = R!NoChannel
        OBVIOUS
    <3>1. chan[c] = R!NoChannel
        BY <1>5, <2>1 DEF ChannelsFit
    <3>2. chan[c].name = GeneralName /\ chan[c].kind = "none" /\ chan[c].members = {}
        BY <3>1 DEF R!NoChannel
    <3>3. /\ chan'[c].name = GeneralName /\ chan'[c].kind = "none" /\ chan'[c].members = {}
          /\ chan'[c] \in ChannelRecords
        BY <1>5, <3>2
    <3> QED BY <3>3, IsNoChannel
  <2>3. \A c \in R!Channels : chan[c].kind = "dm" => chan[c].state # "none"
      BY <2>1 DEF ChannelsFit, R!NoChannel
  <2>4. n # 1
      BY <1>3, <2>1 DEF ChannelsFit
  <2>5. chan'[1].state = "open" /\ chan'[1].kind = "public" /\ chan'[1].name = GeneralName
      BY <1>5, <2>1, <2>4 DEF ChannelsFit
  <2>6. \A c \in R!Channels :
            /\ chan'[c].state # "none" => chan'[c].kind \in {"public", "dm"}
            /\ chan'[c].kind = "public" => chan'[c].name \in Names \cup {GeneralName}
            /\ chan'[c].kind = "dm" => \E b \in Agents : agent'[b].state # "none" /\ agent'[b].dm = c
      BY <1>3, <1>5, <1>7, <1>8, <2>1 DEF ChannelsFit
  <2> QED BY <2>2, <2>5, <2>6 DEF ChannelsFit
<1>12. DmsFit'
  <2>1. DmsFit
      BY DEF RegistryInv
  <2>2. \A b \in Agents : agent[b].state # "none" /\ b # a => agent[b].dm # n
      BY <1>2, <2>1 DEF DmsFit, n
  <2>3. \A b \in Agents : R!Alive(b)' => b # a /\ R!Alive(b)
      BY <1>7 DEF R!Alive
  <2>4. ASSUME NEW b \in Agents, R!Alive(b)'
        PROVE  chan'[agent'[b].dm].state = "open" /\ chan'[agent'[b].dm].members = {b}
    <3>1. b # a /\ agent[b].state # "none" /\ agent'[b].dm = agent[b].dm /\ agent[b].dm # n
        BY <1>7, <2>2, <2>3, <2>4 DEF R!Alive
    <3>2. agent[b].dm \in R!Channels /\ chan[agent[b].dm].state = "open" /\ chan[agent[b].dm].members = {b}
        BY <2>1, <2>3, <2>4, <3>1 DEF DmsFit
    <3> QED BY <1>5, <3>1, <3>2
  <2> QED BY <1>5, <1>7, <1>8, <2>1, <2>4 DEF DmsFit
<1>13. RunsFit'
    BY <1>1, <1>2, <1>4, <1>7 DEF RegistryInv, RunsFit
<1>14. MembersFit'
  <2>1. MembersFit /\ \A c \in R!Channels : chan[c].members \subseteq Agents
      BY <1>1 DEF RegistryInv, ChannelRecords
  <2> QED BY <1>5, <1>7, <2>1 DEF MembersFit, R!Alive
<1>15. PublicNamesDiffer'
    BY <1>3, <1>5 DEF RegistryInv, PublicNamesDiffer
<1> QED BY <1>9, <1>10, <1>11, <1>12, <1>13, <1>14, <1>15 DEF RegistryInv

LEMMA RegistryStep == RegistryInv /\ [R!Next]_(R!vars) => RegistryInv'
<1> SUFFICES ASSUME RegistryInv, [R!Next]_(R!vars) PROVE RegistryInv'
    OBVIOUS
<1>1. CASE UNCHANGED R!vars
  <2>1. UNCHANGED <<chan, agent, run, draining, pending, asked, registry, call, runs>>
      BY <1>1 DEF R!vars, R!people
  <2>2. /\ draining' \subseteq Agents /\ pending' \in [Agents -> SUBSET R!Channels]
        /\ asked' \subseteq R!Channels /\ registry' \in Calls \cup {0} /\ runs' \in 0 .. MaxStarts
      BY <2>1 DEF RegistryInv, RegistryTypes
  <2> QED BY <2>1, <2>2, CallsStay
<1>2. CASE \/ \E r \in Calls, by \in Agents \cup {R!None}, name \in Names, members \in SUBSET Agents :
                 R!AskCreateChannel(r, by, name, members)
           \/ \E r \in Calls, c \in R!Channels : R!AskDelete(r, c)
           \/ \E r \in Calls, c \in R!Channels : R!AskHumanPost(r, c)
           \/ \E r \in Calls, a \in Agents, chosen \in SUBSET R!Choosable :
                 R!AskAgent(r, "create_agent", a, chosen)
           \/ \E r \in Calls, a \in Agents, chosen \in SUBSET R!Choosable :
                 R!AskAgent(r, "update_agent", a, chosen)
           \/ \E r \in Calls, a \in Agents : R!AskAgent(r, "delete_agent", a, {})
           \/ \E r \in Calls, a \in Agents, c \in R!Channels : R!AskPost(r, a, c)
  <2>1. {} \in SUBSET R!Choosable
      OBVIOUS
  <2> QED BY <1>2, <2>1, AskSteps
<1>3. CASE \E r \in Calls :
             \/ R!LockRegistry(r) \/ R!RegistryBusy(r) \/ R!CreateConflict(r) \/ R!AnnounceConflict(r)
             \/ R!ArchiveRefused(r) \/ R!NothingToClear(r) \/ R!UpdateRefused(r) \/ R!CancelAgent(r)
             \/ R!AgentIsQuiet(r) \/ R!PostRefused(r)
    BY <1>3, GotoSteps
<1>4. CASE \/ R!LeaseExpires
           \/ \E a \in Agents : R!DrainEnds(a) \/ R!RequestApproval(a)
           \/ \E c \in R!Channels : R!ResolveApproval(c)
    BY <1>4, OwnSteps
<1>5. CASE \E r \in Calls :
             \/ R!AppendPost(r)
             \/ \E a \in Agents : R!ClearWake(r, a) \/ R!DeferTurn(r, a) \/ R!StartTurn(r, a) \/ R!NoTurn(r, a)
    BY <1>5, WakeSteps
<1>6. CASE \E a \in Agents : R!EndRun(a) \/ R!DrainStarts(a)
    BY <1>6, RunSteps
<1>7. CASE \E r \in Calls : R!CommitCreate(r)
    BY <1>7, CreateStep
<1>8. CASE \E r \in Calls : R!Archive(r)
    BY <1>8, ArchiveStep
<1>9. CASE \E r \in Calls : R!CommitAgent(r)
    BY <1>9, AgentStep
<1>10. CASE \E r \in Calls : R!CommitUpdate(r)
    BY <1>10, UpdateStep
<1>11. CASE \E r \in Calls : R!RemoveAgent(r)
    BY <1>11, RemoveStep
<1>12. CASE R!Next
    BY <1>2, <1>3, <1>4, <1>5, <1>6, <1>7, <1>8, <1>9, <1>10, <1>11, <1>12, Zenon DEF R!Next
<1> QED BY <1>1, <1>12

LEMMA RegistryInvariant == Spec => []RegistryInv
<1>1. Init => RegistryInv
    BY RegistryInit DEF Init
<1>2. RegistryInv /\ [Next]_vars => RegistryInv'
    BY StepOfEach, RegistryStep
<1> QED BY <1>1, <1>2, PTL DEF Spec

LEMMA RegistryInvTypes == RegistryInv => R!TypeOK
<1> SUFFICES ASSUME RegistryInv PROVE R!TypeOK
    OBVIOUS
<1> USE RegistryFacts
<1>1. \A c \in R!Channels : chan[c].state \in {"none", "open", "archived"} /\ chan[c].members \subseteq Agents
    BY DEF RegistryInv, RegistryTypes, ChannelRecords
<1>2. ASSUME NEW a \in Agents
      PROVE  /\ agent[a].state \in {"none", "ready", "busy", "gone"}
             /\ R!Alive(a) => R!Open(agent[a].dm) /\ chan[agent[a].dm].members = {a}
             /\ run[a] \in R!Channels \cup {R!None} /\ (run[a] # R!None <=> agent[a].state = "busy")
             /\ pending[a] \subseteq R!Channels
  <2>1. agent[a].state \in {"none", "ready", "busy", "gone"}
      BY DEF RegistryInv, RegistryTypes, AgentRecords
  <2>2. R!Alive(a) => R!Open(agent[a].dm) /\ chan[agent[a].dm].members = {a}
      BY DEF RegistryInv, DmsFit, R!Alive, R!Open
  <2>3. run[a] \in R!Channels \cup {0} /\ pending[a] \subseteq R!Channels
      BY DEF RegistryInv, RegistryTypes
  <2>4. run[a] # 0 <=> agent[a].state = "busy"
      BY DEF RegistryInv, RunsFit
  <2> QED BY <2>1, <2>2, <2>3, <2>4
<1> QED BY <1>1, <1>2 DEF RegistryInv, RegistryTypes, R!TypeOK

\* Members of an open channel exist and, #general apart, are allowed there by their
\* policies, whatever policies they are given, and the registry's variables hold values of their types, whatever createAgent, updateAgent,
\* deleteAgent and the channels' own calls do between the choice of the members and
\* the mutation that adds them; and open public channels have different names, though
\* the lock of the registry may expire under createChannel: commit asks again.
THEOREM MembersAreReal == Spec => [](R!TypeOK /\ R!MembersExist /\ R!MembersMayPost /\ PublicNamesDiffer)
<1>1. RegistryInv => R!MembersExist /\ R!MembersMayPost
  <2> SUFFICES ASSUME RegistryInv PROVE R!MembersExist /\ R!MembersMayPost
      OBVIOUS
  <2>1. \A c \in R!Channels : \A a \in chan[c].members :
            a \in Agents /\ R!Alive(a) /\ (c # 1 /\ chan[c].kind = "public" => chan[c].name \in agent[a].may)
      BY DEF RegistryInv, RegistryTypes, ChannelRecords, MembersFit
  <2> QED BY <2>1 DEF R!MembersExist, R!MembersMayPost, R!OpenChannels, R!General
<1>2. RegistryInv => PublicNamesDiffer
    BY DEF RegistryInv
<1> QED BY <1>1, <1>2, RegistryInvariant, RegistryInvTypes, PTL

\* The names of DMs are no names of public channels, and differ from each other; the
\* code does not see to it (see "Known divergences" in the README).
DmNamesApart ==
    \A a, b \in Agents : DmName(a) \notin Names \cup {GeneralName} /\ (DmName(a) = DmName(b) => a = b)

\* As far as DMs have names of their own, no two open channels have one name, and the
\* rest of what the run checks of the registry holds as well.
THEOREM RegistryIsConsistent ==
    ASSUME DmNamesApart
    PROVE  Spec => []RegistryConsistent
<1>1. RegistryInv => R!NamesUnique
  <2> SUFFICES ASSUME RegistryInv, NEW c \in R!OpenChannels, NEW d \in R!OpenChannels, chan[c].name = chan[d].name
               PROVE  c = d
      BY DEF R!NamesUnique
  <2>1. /\ c \in R!Channels /\ d \in R!Channels /\ chan[c].state = "open" /\ chan[d].state = "open"
        /\ chan[c].kind \in {"public", "dm"} /\ chan[d].kind \in {"public", "dm"}
    <3>1. c \in R!Channels /\ d \in R!Channels /\ chan[c].state = "open" /\ chan[d].state = "open"
        BY DEF R!OpenChannels, R!Open
    <3> QED BY <3>1 DEF RegistryInv, ChannelsFit
  <2>2. \A e \in R!Channels : chan[e].kind = "public" => chan[e].name \in Names \cup {GeneralName}
      BY DEF RegistryInv, ChannelsFit
  <2>3. \A e \in R!Channels : chan[e].kind = "dm" => \E a \in Agents : agent[a].dm = e /\ chan[e].name = DmName(a)
      BY DEF RegistryInv, ChannelsFit, DmsFit
  <2>4. CASE chan[c].kind = "public" /\ chan[d].kind = "public"
      BY <2>1, <2>4 DEF RegistryInv, PublicNamesDiffer
  <2>5. CASE chan[c].kind = "dm" /\ chan[d].kind = "dm"
      BY <2>1, <2>3, <2>5, DmNamesApart DEF DmNamesApart
  <2>6. CASE chan[c].kind # chan[d].kind
      BY <2>1, <2>2, <2>3, <2>6, DmNamesApart DEF DmNamesApart
  <2> QED BY <2>1, <2>4, <2>5, <2>6
<1> QED BY <1>1, RegistryInvariant, MembersAreReal, PTL DEF RegistryConsistent

(***************************************************************************)
(* A channel that was deleted and has come to rest                         *)
(***************************************************************************)
Over == {"idle", "done", "refused", "failed"}

\* What a call that is not over is about is another channel.
LEMMA CallsElsewhere ==
    ASSUME NEW c \in R!Channels, R!AtRest(c), NEW r \in Calls, call[r].at \notin Over
    PROVE  call[r].chan # c /\ (call[r].op \in {"create_agent", "update_agent"} => c \notin call[r].chosen)
BY DEF R!AtRest, R!UnderWay, Over

\* A call that becomes q is about another channel, or over.
LEMMA CallStaysAway ==
    ASSUME RegistryInv, NEW c \in R!Channels, R!AtRest(c), NEW r \in Calls, NEW q,
           call' = [call EXCEPT ![r] = q],
           \/ q.at \in Over
           \/ q.chan # c /\ (q.op \in {"create_agent", "update_agent"} => c \notin q.chosen)
    PROVE  \A s \in Calls : ~R!UnderWay(s, c)'
<1>1. \A s \in Calls : call'[s] = IF s = r THEN q ELSE call[s]
    BY DEF RegistryInv, RegistryTypes
<1> QED BY <1>1 DEF R!AtRest, R!UnderWay, Over

\* A call that was not over goes on with what it is about.
LEMMA CallGoesOn ==
    ASSUME RegistryInv, NEW c \in R!Channels, R!AtRest(c), NEW r \in Calls, call[r].at \notin Over,
           \/ \E at : R!Goto(r, at)
           \/ \E at, left : call' = [call EXCEPT ![r].left = left, ![r].at = at]
    PROVE  \A s \in Calls : ~R!UnderWay(s, c)'
<1>1. call \in [Calls -> CallRecords] /\ call[r] \in CallRecords
    BY DEF RegistryInv, RegistryTypes
<1>2. call[r].chan # c /\ (call[r].op \in {"create_agent", "update_agent"} => c \notin call[r].chosen)
    BY CallsElsewhere
<1>3. ASSUME NEW at, R!Goto(r, at) PROVE \A s \in Calls : ~R!UnderWay(s, c)'
  <2> DEFINE q == [call[r] EXCEPT !.at = at]
  <2>1. call' = [call EXCEPT ![r] = q]
      BY <1>3 DEF R!Goto
  <2>2. q.chan = call[r].chan /\ q.op = call[r].op /\ q.chosen = call[r].chosen
      BY <1>1 DEF CallRecords
  <2> HIDE DEF q
  <2> QED BY <1>2, <2>1, <2>2, CallStaysAway
<1>4. ASSUME NEW at, NEW left, call' = [call EXCEPT ![r].left = left, ![r].at = at]
      PROVE  \A s \in Calls : ~R!UnderWay(s, c)'
  <2> DEFINE q == [call[r] EXCEPT !.left = left, !.at = at]
  <2>1. call' = [call EXCEPT ![r] = q]
      BY <1>1, <1>4
  <2>2. q.chan = call[r].chan /\ q.op = call[r].op /\ q.chosen = call[r].chosen
      BY <1>1 DEF CallRecords
  <2> HIDE DEF q
  <2> QED BY <1>2, <2>1, <2>2, CallStaysAway
<1> QED BY <1>3, <1>4

\* getChannelByName answers with an open channel, or none.
LEMMA ByNameIsOpen ==
    ASSUME NEW name, NEW c \in R!Channels, c = R!ByName(name)
    PROVE  chan[c].state = "open"
<1> DEFINE named == {d \in R!OpenChannels : chan[d].name = name}
           less == {p \in Nat \X Nat : p[1] < p[2]}
<1>0. R!Channels \subseteq Nat \ {0}
    BY RegistryFacts
<1>1. named # {} /\ c = CHOOSE d \in named : \A e \in named : d <= e
    BY <1>0 DEF R!ByName, R!None
<1>2. named \subseteq Nat /\ named # {}
    BY <1>0, <1>1 DEF R!OpenChannels
<1>3. PICK d \in named : \A e \in named : ~(<<e, d>> \in less)
  <2>1. IsWellFoundedOn(less, Nat)
      BY NatIsWellFounded
  <2> HIDE DEF named, less
  <2> QED BY <1>2, <2>1, WFMin
<1>4. \A e \in named : d <= e
  <2> SUFFICES ASSUME NEW e \in named, e < d PROVE FALSE
      BY <1>2
  <2>1. <<e, d>> \in less
      BY <1>2
  <2> QED BY <1>3, <2>1
<1>5. c \in named
  <2> HIDE DEF named
  <2> QED BY <1>1, <1>4
<1> QED BY <1>5 DEF R!OpenChannels, R!Open

\* What a step may do to a channel at rest, said once for all steps.
Resting(c) ==
    /\ chan'[c].state = "archived" /\ chan'[c].kind = "public" /\ c \notin asked'
    /\ \A a \in Agents : run'[a] # c /\ c \notin pending'[a]
    /\ \A r \in Calls : ~R!UnderWay(r, c)'
    /\ said'[c] = said[c]

\* Calls that are made, and calls that go on without touching a channel.
LEMMA RestThroughCalls ==
    ASSUME RegistryInv, NEW c \in R!Channels, R!AtRest(c), NEW r \in Calls
    PROVE  /\ \A by \in Agents \cup {R!None}, name \in Names, members \in SUBSET Agents :
                 R!AskCreateChannel(r, by, name, members) => Resting(c)
           /\ \A d \in R!Channels : R!AskDelete(r, d) \/ R!AskHumanPost(r, d) => Resting(c)
           /\ \A op \in {"create_agent", "update_agent", "delete_agent"}, a \in Agents,
                 chosen \in SUBSET R!Choosable : R!AskAgent(r, op, a, chosen) => Resting(c)
           /\ \A a \in Agents, d \in R!Channels : R!AskPost(r, a, d) => Resting(c)
           /\ (\/ R!LockRegistry(r) \/ R!RegistryBusy(r) \/ R!CreateConflict(r)
               \/ R!ArchiveRefused(r) \/ R!NothingToClear(r) \/ R!UpdateRefused(r) \/ R!CancelAgent(r)
               \/ R!AgentIsQuiet(r) \/ R!PostRefused(r)) => Resting(c)
           /\ R!AnnounceConflict(r) => Resting(c)
<1>0. /\ chan[c].state = "archived" /\ chan[c].kind = "public" /\ c \notin asked /\ c # 0
      /\ \A a \in Agents : run[a] # c /\ c \notin pending[a]
      /\ pending \in [Agents -> SUBSET R!Channels]
    BY RegistryFacts DEF R!AtRest, RegistryInv, RegistryTypes
<1>a. ASSUME NEW q, R!Ask(r, q), q.chan # c, q.op \in {"create_agent", "update_agent"} => c \notin q.chosen,
             UNCHANGED <<chan, R!people, asked, registry, said, runs>>
      PROVE  Resting(c)
  <2>1. call' = [call EXCEPT ![r] = q]
      BY <1>a DEF R!Ask
  <2>2. \A s \in Calls : ~R!UnderWay(s, c)'
      BY <1>a, <2>1, CallStaysAway
  <2> QED BY <1>0, <1>a, <2>2 DEF Resting, R!people
<1>1. ASSUME NEW by \in Agents \cup {R!None}, NEW name \in Names, NEW members \in SUBSET Agents,
             R!AskCreateChannel(r, by, name, members)
      PROVE  Resting(c)
  <2> DEFINE ch == IF by = R!None THEN R!None ELSE run[by]
             q == [R!NoRequest EXCEPT !.op = "create_channel", !.at = "locking", !.by = by,
                                      !.chan = ch, !.name = name, !.chosen = members]
  <2>1. ch # c
      BY <1>0 DEF R!None
  <2>2. q.chan = ch /\ q.op = "create_channel"
    <3> HIDE DEF ch
    <3> QED BY DEF R!NoRequest
  <2>3. R!Ask(r, q) /\ UNCHANGED <<chan, R!people, asked, registry, said, runs>>
      BY <1>1 DEF R!AskCreateChannel, R!people
  <2> HIDE DEF q, ch
  <2> QED BY <1>a, <2>1, <2>2, <2>3
<1>2. ASSUME NEW d \in R!Channels, R!AskDelete(r, d) \/ R!AskHumanPost(r, d) PROVE Resting(c)
  <2>1. d # c
      BY <1>0, <1>2 DEF R!AskDelete, R!AskHumanPost, R!Open
  <2>2. PICK op \in {"delete_channel", "human_post"}, at \in {"writing", "locking"} :
            /\ R!Ask(r, [R!NoRequest EXCEPT !.op = op, !.at = at, !.chan = d])
            /\ UNCHANGED <<chan, R!people, asked, registry, said, runs>>
      BY <1>2 DEF R!AskDelete, R!AskHumanPost, R!people
  <2> DEFINE q == [R!NoRequest EXCEPT !.op = op, !.at = at, !.chan = d]
  <2>3. q.chan = d /\ q.op = op
      BY DEF R!NoRequest
  <2> HIDE DEF q
  <2> QED BY <1>a, <2>1, <2>2, <2>3 DEF q
<1>3. ASSUME NEW op \in {"create_agent", "update_agent", "delete_agent"}, NEW a \in Agents,
             NEW chosen \in SUBSET R!Choosable, R!AskAgent(r, op, a, chosen)
      PROVE  Resting(c)
  <2> DEFINE q == [R!NoRequest EXCEPT !.op = op, !.at = "writing", !.agent = a, !.chosen = chosen]
  <2>1. c \notin chosen
      BY <1>0 DEF R!Choosable, R!OpenChannels, R!Open
  <2>2. q.chan = 0 /\ q.op = op /\ q.chosen = chosen
      BY DEF R!NoRequest, R!None
  <2>3. R!Ask(r, q) /\ UNCHANGED <<chan, R!people, asked, registry, said, runs>>
      BY <1>3 DEF R!AskAgent, R!people
  <2> HIDE DEF q
  <2> QED BY <1>0, <1>a, <2>1, <2>2, <2>3
<1>4. ASSUME NEW a \in Agents, NEW d \in R!Channels, R!AskPost(r, a, d) PROVE Resting(c)
  <2> DEFINE q == [R!NoRequest EXCEPT !.op = "post", !.at = "locking", !.by = a, !.chan = d]
  <2>1. d # c
    <3>1. CASE run[a] = d
        BY <1>0, <3>1
    <3>2. CASE R!MayUse(a, d)
        BY <1>0, <3>2, ByNameIsOpen DEF R!MayUse
    <3> QED BY <1>4, <3>1, <3>2 DEF R!AskPost
  <2>2. q.chan = d /\ q.op = "post"
      BY DEF R!NoRequest
  <2>3. R!Ask(r, q) /\ UNCHANGED <<chan, R!people, asked, registry, said, runs>>
      BY <1>4 DEF R!AskPost, R!people
  <2> HIDE DEF q
  <2> QED BY <1>a, <2>1, <2>2, <2>3
<1>5. ASSUME \/ R!LockRegistry(r) \/ R!RegistryBusy(r) \/ R!CreateConflict(r)
             \/ R!ArchiveRefused(r) \/ R!NothingToClear(r) \/ R!UpdateRefused(r) \/ R!CancelAgent(r)
             \/ R!AgentIsQuiet(r) \/ R!PostRefused(r)
      PROVE  Resting(c)
  <2>1. call[r].at \notin Over /\ \E at : R!Goto(r, at)
      BY <1>5 DEF R!LockRegistry, R!RegistryBusy, R!CreateConflict, R!ArchiveRefused, R!NothingToClear,
                  R!UpdateRefused, R!CancelAgent, R!AgentIsQuiet, R!PostRefused, R!At, Over
  <2>2. /\ UNCHANGED <<chan, agent, run, asked, said>>
        /\ \A a \in Agents : pending'[a] \subseteq pending[a]
      BY <1>0, <1>5 DEF R!LockRegistry, R!RegistryBusy, R!CreateConflict, R!ArchiveRefused, R!NothingToClear,
                  R!UpdateRefused, R!CancelAgent, R!AgentIsQuiet, R!PostRefused, R!people
  <2>3. \A s \in Calls : ~R!UnderWay(s, c)'
      BY <2>1, CallGoesOn
  <2> QED BY <1>0, <2>2, <2>3 DEF Resting
<1>6. ASSUME R!AnnounceConflict(r) PROVE Resting(c)
  <2> DEFINE a == call[r].by
             d == IF R!Alive(a) THEN call[r].chan ELSE agent[a].dm
  <2>1. /\ call[r].op = "create_channel" /\ call[r].at = "noticing" /\ R!Goto(r, "refused")
        /\ said' = [said EXCEPT ![d] = @ + 1] /\ UNCHANGED <<chan, agent, run, pending, asked>>
      BY <1>6 DEF R!AnnounceConflict, R!At, R!people
  <2>2. a \in Agents /\ agent[a].state # "none"
    <3>1. CallFits(call[r]) /\ call[r] \in CallRecords
        BY DEF RegistryInv, RegistryTypes
    <3> QED BY <2>1, <3>1 DEF CallFits, CallRecords
  <2>3. chan[agent[a].dm].kind = "dm"
      BY <2>2 DEF RegistryInv, DmsFit
  <2>4. call[r].at \notin Over
      BY <2>1 DEF Over
  <2>5. d # c
      BY <1>0, <2>3, <2>4, CallsElsewhere
  <2>6. said'[c] = said[c]
    <3> HIDE DEF d
    <3> QED BY <2>1, <2>5
  <2>7. \A s \in Calls : ~R!UnderWay(s, c)'
      BY <2>1, <2>4, CallGoesOn
  <2> QED BY <1>0, <2>1, <2>6, <2>7 DEF Resting
<1> QED BY <1>1, <1>2, <1>3, <1>4, <1>5, <1>6

\* Posts, wakes and runs.
LEMMA RestThroughRuns ==
    ASSUME RegistryInv, NEW c \in R!Channels, R!AtRest(c)
    PROVE  /\ R!LeaseExpires => Resting(c)
           /\ \A a \in Agents : R!EndRun(a) \/ R!DrainStarts(a) \/ R!DrainEnds(a) \/ R!RequestApproval(a) => Resting(c)
           /\ \A d \in R!Channels : R!ResolveApproval(d) => Resting(c)
           /\ \A r \in Calls : R!AppendPost(r) => Resting(c)
           /\ \A r \in Calls, a \in Agents :
                 R!ClearWake(r, a) \/ R!DeferTurn(r, a) \/ R!StartTurn(r, a) \/ R!NoTurn(r, a) => Resting(c)
<1>0. /\ chan[c].state = "archived" /\ chan[c].kind = "public" /\ c \notin asked /\ c # 0
      /\ \A a \in Agents : run[a] # c /\ c \notin pending[a]
      /\ pending \in [Agents -> SUBSET R!Channels] /\ run \in [Agents -> 0 .. MaxChannels]
      /\ \A r \in Calls : ~R!UnderWay(r, c)
    BY RegistryFacts DEF R!AtRest, RegistryInv, RegistryTypes
<1>1. ASSUME R!LeaseExpires PROVE Resting(c)
    BY <1>0, <1>1 DEF R!LeaseExpires, R!people, Resting, R!UnderWay
<1>2. ASSUME NEW a \in Agents, R!EndRun(a) \/ R!DrainStarts(a) \/ R!DrainEnds(a) \/ R!RequestApproval(a)
      PROVE  Resting(c)
  <2>1. UNCHANGED <<chan, call, said>>
      BY <1>2 DEF R!EndRun, R!DrainStarts, R!DrainEnds, R!RequestApproval
  <2>2. c \notin asked'
      BY <1>0, <1>2 DEF R!EndRun, R!DrainStarts, R!DrainEnds, R!RequestApproval
  <2>3. \A b \in Agents : run'[b] # c
      BY <1>0, <1>2 DEF R!EndRun, R!DrainStarts, R!DrainEnds, R!RequestApproval, R!people, R!Start, R!None
  <2>4. \A b \in Agents : c \notin pending'[b]
      BY <1>0, <1>2 DEF R!EndRun, R!DrainStarts, R!DrainEnds, R!RequestApproval, R!people
  <2> QED BY <1>0, <2>1, <2>2, <2>3, <2>4 DEF Resting, R!UnderWay
<1>3. ASSUME NEW d \in R!Channels, R!ResolveApproval(d) PROVE Resting(c)
    BY <1>0, <1>3 DEF R!ResolveApproval, R!people, Resting, R!UnderWay
<1>4. ASSUME NEW r \in Calls, R!AppendPost(r) PROVE Resting(c)
  <2>1. call[r].at \notin Over
      BY <1>4 DEF R!AppendPost, R!At, Over
  <2>2. call[r].chan # c
      BY <2>1, CallsElsewhere
  <2>3. said'[c] = said[c] /\ UNCHANGED <<chan, run, pending, asked>>
      BY <1>4, <2>2 DEF R!AppendPost, R!people
  <2>4. \A s \in Calls : ~R!UnderWay(s, c)'
      BY <1>4, <2>1, CallGoesOn DEF R!AppendPost
  <2> QED BY <1>0, <2>3, <2>4 DEF Resting
<1>5. ASSUME NEW r \in Calls, NEW a \in Agents,
             R!ClearWake(r, a) \/ R!DeferTurn(r, a) \/ R!StartTurn(r, a) \/ R!NoTurn(r, a)
      PROVE  Resting(c)
  <2>1. call[r].at \notin Over
      BY <1>5 DEF R!ClearWake, R!DeferTurn, R!StartTurn, R!NoTurn, R!At, Over
  <2>2. call[r].chan # c
      BY <2>1, CallsElsewhere
  <2>3. \/ \E at : R!Goto(r, at)
        \/ \E at, left : call' = [call EXCEPT ![r].left = left, ![r].at = at]
    <3>1. call \in [Calls -> CallRecords] /\ call[r] \in CallRecords
        BY DEF RegistryInv, RegistryTypes
    <3>2. CASE call' = [call EXCEPT ![r].left = @ \ {a}, ![r].at = IF call[r].left = {a} THEN "done" ELSE @]
      <4> DEFINE left == call[r].left \ {a}
                 at == IF call[r].left = {a} THEN "done" ELSE call[r].at
      <4>1. call' = [call EXCEPT ![r].left = left, ![r].at = at]
          BY <3>1, <3>2 DEF CallRecords
      <4> HIDE DEF left, at
      <4> QED BY <4>1
    <3> QED BY <1>5, <3>2 DEF R!ClearWake, R!DeferTurn, R!StartTurn, R!NoTurn, R!Woken
  <2>4. \A s \in Calls : ~R!UnderWay(s, c)'
      BY <2>1, <2>3, CallGoesOn
  <2>5. UNCHANGED <<chan, asked, said>>
      BY <1>5 DEF R!ClearWake, R!DeferTurn, R!StartTurn, R!NoTurn
  <2>6. \A b \in Agents : run'[b] # c
      BY <1>0, <1>5, <2>2 DEF R!ClearWake, R!DeferTurn, R!StartTurn, R!NoTurn, R!people, R!Start
  <2>7. \A b \in Agents : c \notin pending'[b]
      BY <1>0, <1>5, <2>2 DEF R!ClearWake, R!DeferTurn, R!StartTurn, R!NoTurn, R!people
  <2> QED BY <1>0, <2>4, <2>5, <2>6, <2>7 DEF Resting
<1> QED BY <1>1, <1>2, <1>3, <1>4, <1>5

\* The mutations that change channels and members.
LEMMA RestThroughCommits ==
    ASSUME RegistryInv, NEW c \in R!Channels, R!AtRest(c), NEW r \in Calls
    PROVE  \/ R!CommitCreate(r) \/ R!Archive(r) \/ R!CommitAgent(r) \/ R!CommitUpdate(r) \/ R!RemoveAgent(r)
           => Resting(c)
<1>0. /\ chan[c].state = "archived" /\ chan[c].kind = "public" /\ c \notin asked /\ c # 0
      /\ \A a \in Agents : run[a] # c /\ c \notin pending[a]
      /\ chan \in [R!Channels -> ChannelRecords] /\ chan[c] \in ChannelRecords
      /\ run \in [Agents -> 0 .. MaxChannels] /\ c # 1 /\ R!General = 1
    BY RegistryFacts DEF R!AtRest, RegistryInv, RegistryTypes, ChannelsFit
<1>a. R!RoomForChannel => R!NextChannel \in R!Channels /\ R!NextChannel # c
  <2>1. R!RoomForChannel => R!NextChannel \in R!Channels /\ chan[R!NextChannel].state = "none"
      BY NextIsFree DEF R!NoChannel
  <2> QED BY <1>0, <2>1
<1>1. ASSUME R!CommitCreate(r) PROVE Resting(c)
  <2>1. call[r].at \notin Over
      BY <1>1 DEF R!CommitCreate, R!At, Over
  <2>2. chan'[c] = chan[c]
      BY <1>0, <1>1, <1>a DEF R!CommitCreate, R!NewChannel
  <2>3. \A s \in Calls : ~R!UnderWay(s, c)'
      BY <1>1, <2>1, CallGoesOn DEF R!CommitCreate
  <2>4. UNCHANGED <<run, pending, asked, said>>
      BY <1>1 DEF R!CommitCreate
  <2> QED BY <1>0, <2>2, <2>3, <2>4 DEF Resting
<1>2. ASSUME R!Archive(r) PROVE Resting(c)
  <2>1. call[r].at \notin Over /\ call[r].chan # c
      BY <1>0, <1>2 DEF R!Archive, R!At, R!Open, Over
  <2>2. chan'[c] = chan[c]
      BY <1>0, <1>2, <2>1 DEF R!Archive
  <2>3. \A s \in Calls : ~R!UnderWay(s, c)'
    <3>1. \E at, left : call' = [call EXCEPT ![r].left = left, ![r].at = at]
      <4> DEFINE left == chan[call[r].chan].members
      <4>1. call' = [call EXCEPT ![r].left = left, ![r].at = "clearing"]
        <5>1. call' = [call EXCEPT ![r].at = "clearing", ![r].left = left]
            BY <1>2 DEF R!Archive
        <5>2. call \in [Calls -> CallRecords] /\ call[r] \in CallRecords
            BY DEF RegistryInv, RegistryTypes
        <5> HIDE DEF left
        <5> QED BY <5>1, <5>2 DEF CallRecords
      <4> HIDE DEF left
      <4> QED BY <4>1
    <3> QED BY <2>1, <3>1, CallGoesOn
  <2>4. UNCHANGED <<run, pending, asked, said>>
      BY <1>2 DEF R!Archive, R!people
  <2> QED BY <1>0, <2>2, <2>3, <2>4 DEF Resting
<1>3. ASSUME R!CommitAgent(r) PROVE Resting(c)
  <2>1. call[r].at \notin Over /\ call[r].op = "create_agent" /\ R!RoomForChannel
      BY <1>3 DEF R!CommitAgent, R!At, Over
  <2>2. c \notin {1} \cup call[r].chosen
      BY <1>0, <2>1, CallsElsewhere
  <2>3. chan'[c] = chan[c] /\ said'[c] = said[c]
      BY <1>0, <1>3, <1>a, <2>1, <2>2 DEF R!CommitAgent, R!NewChannel
  <2>4. \A s \in Calls : ~R!UnderWay(s, c)'
      BY <1>3, <2>1, CallGoesOn DEF R!CommitAgent
  <2>5. UNCHANGED <<run, pending, asked>>
      BY <1>3 DEF R!CommitAgent
  <2> QED BY <1>0, <2>3, <2>4, <2>5 DEF Resting
<1>4. ASSUME R!CommitUpdate(r) PROVE Resting(c)
  <2>1. call[r].at \notin Over /\ call[r].op = "update_agent"
      BY <1>4 DEF R!CommitUpdate, R!At, Over
  <2>2. c \notin call[r].chosen
      BY <2>1, CallsElsewhere
  <2>3. said'[c] = said[c]
      BY <1>0, <1>4, <2>2 DEF R!CommitUpdate
  <2>4. chan'[c].state = chan[c].state /\ chan'[c].kind = chan[c].kind
    <3>1. \E m : chan'[c] = [chan[c] EXCEPT !.members = m]
        BY <1>4 DEF R!CommitUpdate
    <3> QED BY <1>0, <3>1 DEF ChannelRecords
  <2>5. \A s \in Calls : ~R!UnderWay(s, c)'
      BY <1>4, <2>1, CallGoesOn DEF R!CommitUpdate
  <2>6. UNCHANGED <<run, pending, asked>>
      BY <1>4 DEF R!CommitUpdate
  <2> QED BY <1>0, <2>3, <2>4, <2>5, <2>6 DEF Resting
<1>5. ASSUME R!RemoveAgent(r) PROVE Resting(c)
  <2>1. call[r].at \notin Over
      BY <1>5 DEF R!RemoveAgent, R!At, Over
  <2>2. chan'[c].state = "archived" /\ chan'[c].kind = "public"
    <3> DEFINE m == chan[c].members \ {call[r].agent}
               st == IF c = agent[call[r].agent].dm THEN "archived" ELSE chan[c].state
    <3>1. chan'[c] = [chan[c] EXCEPT !.members = m, !.state = st]
        BY <1>5 DEF R!RemoveAgent
    <3>2. st = "archived"
        BY <1>0
    <3> HIDE DEF m, st
    <3> QED BY <1>0, <3>1, <3>2 DEF ChannelRecords
  <2>3. \A a \in Agents : run'[a] # c
      BY <1>0, <1>5 DEF R!RemoveAgent, R!None
  <2>4. \A s \in Calls : ~R!UnderWay(s, c)'
      BY <1>5, <2>1, CallGoesOn DEF R!RemoveAgent
  <2>5. UNCHANGED <<pending, asked, said>>
      BY <1>5 DEF R!RemoveAgent
  <2> QED BY <1>0, <2>2, <2>3, <2>4, <2>5 DEF Resting
<1> QED BY <1>1, <1>2, <1>3, <1>4, <1>5

LEMMA RestKeeps ==
    ASSUME RegistryInv, [R!Next]_(R!vars), NEW c \in R!Channels, R!AtRest(c)
    PROVE  R!AtRest(c)' /\ said'[c] = said[c]
<1>1. CASE UNCHANGED R!vars
    BY <1>1 DEF R!vars, R!people, R!AtRest, R!UnderWay
<1>2. CASE R!Next
  <2>1. Resting(c)
    <3>1. {} \in SUBSET R!Choosable
        OBVIOUS
    <3>2. CASE \/ \E r \in Calls, by \in Agents \cup {R!None}, name \in Names, members \in SUBSET Agents :
                     R!AskCreateChannel(r, by, name, members)
               \/ \E r \in Calls, d \in R!Channels : R!AskDelete(r, d)
               \/ \E r \in Calls, d \in R!Channels : R!AskHumanPost(r, d)
               \/ \E r \in Calls, a \in Agents, chosen \in SUBSET R!Choosable :
                     R!AskAgent(r, "create_agent", a, chosen)
               \/ \E r \in Calls, a \in Agents, chosen \in SUBSET R!Choosable :
                     R!AskAgent(r, "update_agent", a, chosen)
               \/ \E r \in Calls, a \in Agents : R!AskAgent(r, "delete_agent", a, {})
               \/ \E r \in Calls, a \in Agents, d \in R!Channels : R!AskPost(r, a, d)
        BY <3>1, <3>2, RestThroughCalls
    <3>3. CASE \E r \in Calls :
                 \/ R!LockRegistry(r) \/ R!RegistryBusy(r) \/ R!CreateConflict(r) \/ R!AnnounceConflict(r)
                 \/ R!ArchiveRefused(r) \/ R!NothingToClear(r) \/ R!UpdateRefused(r) \/ R!CancelAgent(r)
                 \/ R!AgentIsQuiet(r) \/ R!PostRefused(r)
        BY <3>3, RestThroughCalls
    <3>4. CASE \/ R!LeaseExpires
               \/ \E a \in Agents : R!EndRun(a) \/ R!DrainStarts(a) \/ R!DrainEnds(a) \/ R!RequestApproval(a)
               \/ \E d \in R!Channels : R!ResolveApproval(d)
        BY <3>4, RestThroughRuns
    <3>5. CASE \E r \in Calls :
                 \/ R!AppendPost(r)
                 \/ \E a \in Agents : R!ClearWake(r, a) \/ R!DeferTurn(r, a) \/ R!StartTurn(r, a) \/ R!NoTurn(r, a)
        BY <3>5, RestThroughRuns
    <3>6. CASE \E r \in Calls : \/ R!CommitCreate(r) \/ R!Archive(r) \/ R!CommitAgent(r)
                                 \/ R!CommitUpdate(r) \/ R!RemoveAgent(r)
        BY <3>6, RestThroughCommits
    <3> QED BY <1>2, <3>2, <3>3, <3>4, <3>5, <3>6, Zenon DEF R!Next
  <2> QED BY <2>1 DEF Resting, R!AtRest
<1> QED BY <1>1, <1>2

\* A public channel that was deleted rests for good once the calls, runs, wakes and
\* approvals about it are through: nobody posts, joins, is woken or asks there again,
\* for any channels, agents and calls, though its members and the policies that allow
\* its name remain, and its name may be given again.
THEOREM DeletionRests == Spec => DeletedRests
<1> DEFINE Kept == \A c \in R!Channels : R!AtRest(c) => R!AtRest(c)' /\ said'[c] = said[c]
<1>1. RegistryInv /\ [Next]_vars => [Kept]_(R!vars)
    BY StepOfEach, RestKeeps
<1> QED BY <1>1, RegistryInvariant, PTL DEF Spec, DeletedRests, R!DeletedRests
=============================================================================
