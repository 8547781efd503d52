-------------------------- MODULE ReviewArtifacts --------------------------
(***************************************************************************)
(* Review artefacts (apps/server/src/review-artifacts.ts): publish copies  *)
(* files of an agent's workspace into a directory of their own, while the  *)
(* agent goes on changing them; read answers from that directory, whatever *)
(* has become of it.                                                       *)
(*                                                                         *)
(* A file's content is the node it is in and how much was written to it.   *)
(* Left out: links, which are refused, and who may publish and read, which *)
(* is in Authority.                                                        *)
(***************************************************************************)
EXTENDS Naturals, FiniteSets

CONSTANTS
    Paths,         \* relative paths that safeRelativePath and isSensitiveReviewPath accept
    Nodes,         \* the files of the workspace
    Ids,           \* artifact ids, one for each publication
    Readers,       \* calls of read
    MaxFiles, MaxTotal, MaxResponse,   \* the limits of the configuration
    MaxSize,       \* bound: size of a file
    MaxChanges,    \* bound: changes of the workspace, of the artefacts on disk, and crashes
    None

ArtifactAssumption ==
    /\ None \notin Nodes \cup Paths
    /\ {MaxFiles, MaxTotal, MaxResponse, MaxSize, MaxChanges} \subseteq Nat
    /\ MaxSize > 0

VARIABLES
    where,      \* where[p]: the file a path of the workspace leads to, or None
    size,       \* size[n]: how much is in a file
    pub,        \* pub[id]: a publication, its files left and those it has read
    dir,        \* dir[id]: its directory: none, staging or final
    disk,       \* disk[id]: the files in that directory
    stored,     \* database.reviewArtifacts: the ids of the manifests in it
    reader,     \* reader[k]: a call of read, and what it was answered
    changes     \* how many changes there were

workspace == <<where, size>>
vars == <<workspace, pub, dir, disk, stored, reader, changes>>

Contents == [node : Nodes, size : 0 .. MaxSize]
Files == [path : Paths, content : Contents]
NoPub == [at |-> "idle", left |-> {}, path |-> None, node |-> None,
          content |-> None, got |-> {}, total |-> 0]

Init ==
    /\ where \in [Paths -> Nodes]
    /\ size = [n \in Nodes |-> 1]
    /\ pub = [i \in Ids |-> NoPub]
    /\ dir = [i \in Ids |-> "none"] /\ disk = [i \in Ids |-> {}] /\ stored = {}
    /\ reader = [k \in Readers |-> [at |-> "idle", id |-> None, path |-> None, content |-> None]]
    /\ changes = 0

Change == changes < MaxChanges /\ changes' = changes + 1

\* The agent puts another file in its place, or removes it.
Replace(p, n) ==
    /\ Change
    /\ where' = [where EXCEPT ![p] = n]
    /\ UNCHANGED <<size, pub, dir, disk, stored, reader>>

Write(n) ==
    /\ Change
    /\ size[n] < MaxSize
    /\ size' = [size EXCEPT ![n] = @ + 1]
    /\ UNCHANGED <<where, pub, dir, disk, stored, reader>>

Publication(id, record) ==
    /\ pub' = [pub EXCEPT ![id] = record]
    /\ UNCHANGED <<workspace, dir, disk, stored, reader, changes>>

Fail(id) == Publication(id, [pub[id] EXCEPT !.at = "refused"])

\* publish: the number of paths is checked.
Publish(id, paths) ==
    /\ pub[id].at = "idle"
    /\ paths # {} /\ Cardinality(paths) <= MaxFiles
    /\ Publication(id, [NoPub EXCEPT !.at = "next", !.left = paths])

\* readRegularFile: the file exists.
Look(id, p) ==
    /\ pub[id].at = "next" /\ p \in pub[id].left
    /\ IF where[p] = None THEN Fail(id)
       ELSE Publication(id, [pub[id] EXCEPT !.at = "opening", !.path = p])

Room(id) == MaxTotal - pub[id].total

\* The file is opened and its size looked at.
Open(id) ==
    LET n == where[pub[id].path]
    IN  /\ pub[id].at = "opening"
        /\ IF n # None /\ size[n] <= Room(id)
           THEN Publication(id, [pub[id] EXCEPT !.at = "reading", !.node = n])
           ELSE Fail(id)

\* What is read may be more than there was.
Read(id) ==
    LET n == pub[id].node
    IN  /\ pub[id].at = "reading"
        /\ IF size[n] > Room(id) THEN Fail(id)
           ELSE Publication(id, [pub[id] EXCEPT !.at = "checking", !.content = [node |-> n, size |-> size[n]]])

Taken(id) ==
    LET rest == pub[id].left \ {pub[id].path}
    IN  [pub[id] EXCEPT !.at = IF rest = {} THEN "staging" ELSE "next", !.left = rest,
                        !.got = @ \cup {[path |-> pub[id].path, content |-> pub[id].content]},
                        !.total = @ + pub[id].content.size]

\* The path still leads to the file that was opened.
Recheck(id) ==
    /\ pub[id].at = "checking"
    /\ IF where[pub[id].path] = pub[id].node THEN Publication(id, Taken(id)) ELSE Fail(id)

\* The files and the manifest are written in the staging directory.
Stage(id) ==
    /\ pub[id].at = "staging"
    /\ dir' = [dir EXCEPT ![id] = "staging"]
    /\ disk' = [disk EXCEPT ![id] = pub[id].got]
    /\ pub' = [pub EXCEPT ![id].at = "staged"]
    /\ UNCHANGED <<workspace, stored, reader, changes>>

\* A write or the rename fails: the staging directory is removed.
StageFails(id) ==
    /\ pub[id].at \in {"staging", "staged"}
    /\ dir' = [dir EXCEPT ![id] = "none"] /\ disk' = [disk EXCEPT ![id] = {}]
    /\ pub' = [pub EXCEPT ![id].at = "refused"]
    /\ UNCHANGED <<workspace, stored, reader, changes>>

Rename(id) ==
    /\ pub[id].at = "staged"
    /\ dir' = [dir EXCEPT ![id] = "final"]
    /\ pub' = [pub EXCEPT ![id].at = "saving"]
    /\ UNCHANGED <<workspace, disk, stored, reader, changes>>

\* Mutant: the metadata are stored before the directory has its name.
SaveFirst(id) ==
    /\ pub[id].at = "staged"
    /\ stored' = stored \cup {id}
    /\ UNCHANGED <<workspace, pub, dir, disk, reader, changes>>

\* agentPublishForReview stores the manifest, or fails to.
Save(id) ==
    /\ pub[id].at = "saving"
    /\ \/ stored' = stored \cup {id} /\ pub' = [pub EXCEPT ![id].at = "done"]
       \/ stored' = stored /\ pub' = [pub EXCEPT ![id].at = "refused"]
    /\ UNCHANGED <<workspace, dir, disk, reader, changes>>

\* The server stops: what is staged or renamed stays behind.
Crash ==
    /\ Change
    /\ pub' = [i \in Ids |-> IF pub[i].at = "idle" THEN pub[i]
                             ELSE [pub[i] EXCEPT !.at = IF i \in stored THEN "done" ELSE "refused"]]
    /\ reader' = [k \in Readers |-> IF reader[k].at = "reading" THEN [reader[k] EXCEPT !.at = "refused"] ELSE reader[k]]
    /\ UNCHANGED <<workspace, dir, disk, stored>>

\* Somebody with access to the disk overwrites a published file.
Tamper(id, f, content) ==
    /\ Change
    /\ dir[id] = "final" /\ f \in disk[id]
    /\ disk' = [disk EXCEPT ![id] = (@ \ {f}) \cup {[f EXCEPT !.content = content]}]
    /\ UNCHANGED <<workspace, pub, dir, stored, reader>>

\* read: the manifest is in the database and names the path.
AskRead(k, id, p) ==
    /\ reader[k].at = "idle" /\ id \in stored
    /\ reader' = [reader EXCEPT ![k] =
         [at |-> IF \E f \in pub[id].got : f.path = p /\ f.content.size <= MaxResponse THEN "reading" ELSE "refused",
          id |-> id, path |-> p, content |-> None]]
    /\ UNCHANGED <<workspace, pub, dir, disk, stored, changes>>

\* The file is read, its size and hash compared with the manifest's.
Answer(k, f) ==
    /\ reader[k].at = "reading"
    /\ f \in disk[reader[k].id] /\ f.path = reader[k].path
    /\ reader' = IF f \in pub[reader[k].id].got
                 THEN [reader EXCEPT ![k].content = f.content, ![k].at = "done"]
                 ELSE [reader EXCEPT ![k].at = "refused"]
    /\ UNCHANGED <<workspace, pub, dir, disk, stored, changes>>

Next ==
    \/ \E p \in Paths, n \in Nodes \cup {None} : Replace(p, n)
    \/ \E n \in Nodes : Write(n)
    \/ \E id \in Ids, paths \in SUBSET Paths : Publish(id, paths)
    \/ \E id \in Ids, p \in Paths : Look(id, p)
    \/ \E id \in Ids : Open(id)
    \/ \E id \in Ids : Read(id)
    \/ \E id \in Ids : Recheck(id)
    \/ \E id \in Ids : Stage(id)
    \/ \E id \in Ids : StageFails(id)
    \/ \E id \in Ids : Rename(id)
    \/ \E id \in Ids : Save(id)
    \/ Crash
    \/ \E id \in Ids, f \in Files, content \in Contents : Tamper(id, f, content)
    \/ \E k \in Readers, id \in Ids, p \in Paths : AskRead(k, id, p)
    \/ \E k \in Readers, f \in Files : Answer(k, f)

Spec == Init /\ [][Next]_vars
-----------------------------------------------------------------------------
\* The variables hold values of their types, and a published file has one content.
TypeOK ==
    /\ where \in [Paths -> Nodes \cup {None}]
    /\ size \in [Nodes -> 0 .. MaxSize]
    /\ dir \in [Ids -> {"none", "staging", "final"}] /\ stored \subseteq Ids
    /\ \A i \in Ids :
          /\ pub[i].at \in {"idle", "next", "opening", "reading", "checking",
                            "staging", "staged", "saving", "done", "refused"}
          /\ pub[i].got \subseteq Files /\ disk[i] \subseteq Files
          /\ \A f, g \in pub[i].got : f.path = g.path => f = g

\* An artefact is no larger than the limit, though files grow while they are read: all
\* its bytes are counted, each known by its file and its place there.
Bytes(files) == UNION {{f} \X (1 .. f.content.size) : f \in files}
SizeOf(files) == Cardinality(Bytes(files))
WithinLimit == \A i \in stored : SizeOf(pub[i].got) <= MaxTotal

\* An artefact that the database knows is on disk, under its name and with all its
\* files, wherever a publication failed or the server crashed.
StoredIsOnDisk ==
    \A i \in stored :
        /\ dir[i] = "final"
        /\ {f.path : f \in disk[i]} = {f.path : f \in pub[i].got}

\* A read is answered with what was published: not with what the agent has made of the
\* file since, nor with what somebody has made of the copy.
ReadsPublished ==
    \A k \in Readers : reader[k].at = "done" =>
        [path |-> reader[k].path, content |-> reader[k].content] \in pub[reader[k].id].got

\* "Artifact source changed while being read": a file that was written to since it was
\* read is not taken into an artefact.
\* Does not hold: see "Known divergences" in the README.
SourceUnchanged ==
    [][\A i \in Ids : \A f \in pub'[i].got \ pub[i].got : f.content.size = size[f.content.node]]_vars
=============================================================================
