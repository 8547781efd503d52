------------------------------- MODULE Store -------------------------------
(***************************************************************************)
(* JsonStore (apps/server/src/store.ts) and the part of the start-up that  *)
(* upgrades its file: mutations queue up, each works on a copy, writes the *)
(* copy to a temporary file, renames it over the database and only then    *)
(* publishes it in memory.  A write or a rename may fail, and the process  *)
(* may end between any two of these steps.                                 *)
(*                                                                         *)
(* The database is cut down to the messages of one agent's DM channel.     *)
(* Every caller's mutation appends a message, as appendMessage does, or    *)
(* throws.                                                                 *)
(***************************************************************************)
EXTENDS Naturals, Sequences, FiniteSets

CONSTANTS
    Callers,      \* requests; each makes one mutation
    Boot,         \* the caller that is AgentService.initialize
    OldAuthors,   \* who wrote the messages of an older file
    OldFiles,     \* the files a server may find when it is first started
    Times,        \* readings of the wall clock
    StepsBack     \* whether the wall clock may be set back

ASSUME StoreAssumption ==
    /\ Boot \notin Callers
    /\ Times \subseteq Nat
    /\ StepsBack \in BOOLEAN

VARIABLES
    disk,      \* the database file
    tmp,       \* the temporary file beside it
    memory,    \* this.data, what snapshot() and peek() show
    phase,     \* of the server process
    queue,     \* the mutations behind the one that runs
    job,       \* the mutation, or the first persist, that runs
    calls,     \* calls[c]: what c has been told
    clock

vars == <<disk, tmp, memory, phase, queue, job, calls, clock>>

(***************************************************************************)
(* The database                                                            *)
(***************************************************************************)
\* version 0 stands for a file that does not exist, 3 for one that is not a
\* database of this program.
Empty == [version |-> 2, dm |-> FALSE, messages |-> <<>>, lastSeq |-> 0]
Absent == [Empty EXCEPT !.version = 0]
Torn == [Empty EXCEPT !.version = 3]

Authors(db) == {db.messages[i].by : i \in DOMAIN db.messages}
SeqOf(db, a) == {db.messages[i].seq : i \in {j \in DOMAIN db.messages : db.messages[j].by = a}}

\* A file found at the first start holds messages of other authors than the
\* callers of the server that starts; where there is a DM channel, none of them waits
\* for it (initialize moves them all when it makes the channel).
ASSUME OldFilesAssumption ==
    /\ OldAuthors \cap Callers = {}
    /\ OldFiles \subseteq
           [version : 0 .. 3, dm : BOOLEAN, lastSeq : Nat,
            messages : Seq([by : OldAuthors, time : Nat, seq : Nat, channel : {"legacy", "dm"}])]
    /\ \A f \in OldFiles : f.version = 0 => f.messages = <<>>
    /\ \A f \in OldFiles : f.dm => \A i \in DOMAIN f.messages : f.messages[i].channel = "dm"

\* Version 1 kept an agent's messages with the agent: they go to a channel
\* that does not exist yet, without a number.
MigrateV1(file) ==
    [file EXCEPT !.version = 2, !.dm = FALSE, !.lastSeq = 0,
                 !.messages = [i \in DOMAIN file.messages |->
                     [file.messages[i] EXCEPT !.channel = "legacy", !.seq = 0]]]

\* The stable sort by createdAt of one channel's messages.
Before(ms, i, j) == ms[i].time < ms[j].time \/ (ms[i].time = ms[j].time /\ i < j)

InDm(ms) == {i \in DOMAIN ms : ms[i].channel = "dm"}
Rank(ms, i) == Cardinality({j \in InDm(ms) : Before(ms, j, i)}) + 1

\* Mutant: numbering goes on from the channel's last number.
NumberFromLast(seq, previous, lastSeq) ==
    IF seq > previous + lastSeq THEN seq ELSE previous + lastSeq + 1

\* A message keeps its number when that is larger than the one before it.
Number(seq, previous, lastSeq) == IF seq > previous THEN seq ELSE previous + 1

\* The message that comes k-th in that order, and the number each place in it is given.
At(ms, k) == CHOOSE i \in InDm(ms) : Rank(ms, i) = k

Numbering(db) ==
    LET ms == db.messages
        number[k \in 0 .. Cardinality(InDm(ms))] ==
            IF k = 0 THEN 0 ELSE Number(ms[At(ms, k)].seq, number[k - 1], db.lastSeq)
    IN  number

AssignSequenceNumbers(db) ==
    LET ms == db.messages
        number == Numbering(db)
        last == number[Cardinality(InDm(ms))]
    IN  [db EXCEPT
            !.messages = [i \in DOMAIN ms |->
                IF ms[i].channel = "dm" THEN [ms[i] EXCEPT !.seq = number[Rank(ms, i)]] ELSE ms[i]],
            !.lastSeq = IF last > @ THEN last ELSE @]

\* A database whose messages have no numbers yet, or were numbered in order of time.
InOrder(db) ==
    LET ms == db.messages
    IN  \/ \A i \in DOMAIN ms : ms[i].seq = 0
        \/ /\ \A i \in DOMAIN ms : ms[i].seq > 0
           /\ \A i, j \in DOMAIN ms : Before(ms, i, j) => ms[i].seq < ms[j].seq

\* What a server leaves whose clock was never set back: version 1 knew no numbers,
\* later ones follow the times of the messages, and these are past.
OldFilesInOrder ==
    \A f \in OldFiles :
        /\ InOrder(f)
        /\ f.version = 1 => \A i \in DOMAIN f.messages : f.messages[i].seq = 0
        /\ \A i \in DOMAIN f.messages, t \in Times : f.messages[i].time <= t

\* The agent's DM channel is made when it has none, and the messages that
\* waited for it are moved there.
AdoptLegacy(db) ==
    IF db.dm THEN db
    ELSE [db EXCEPT !.dm = TRUE,
                    !.messages = [i \in DOMAIN db.messages |->
                        [db.messages[i] EXCEPT !.channel = "dm"]]]

AppendMessage(db, c) ==
    [db EXCEPT !.lastSeq = @ + 1,
               !.messages = Append(@, [by |-> c, time |-> clock, seq |-> db.lastSeq + 1, channel |-> "dm"])]

Mutation(c, db) ==
    IF c = Boot THEN AssignSequenceNumbers(AdoptLegacy(db)) ELSE AppendMessage(db, c)

NoJob == [by |-> Boot, step |-> "none", next |-> Absent]
Steps == {"none", "write", "rename", "publish"}
Phases == {"down", "creating", "adopting", "up", "refused"}
Outcomes == {"idle", "waiting", "done", "failed", "lost"}

Told(c, what) == calls' = IF c = Boot THEN calls ELSE [calls EXCEPT ![c] = what]

Init ==
    /\ disk \in OldFiles
    /\ tmp = Absent
    /\ memory = Empty
    /\ phase = "down"
    /\ queue = <<>>
    /\ job = NoJob
    /\ calls = [c \in Callers |-> "idle"]
    /\ clock \in Times

(***************************************************************************)
(* Start-up                                                                *)
(***************************************************************************)
\* What initialize() takes from the file: a file that is not a database is an
\* error that ends the start-up.
ReadFile(file) ==
    IF file.version = 0 THEN Empty ELSE IF file.version = 1 THEN MigrateV1(file) ELSE file

BootRefused ==
    /\ phase = "down"
    /\ ReadFile(disk).version = 3
    /\ phase' = "refused"
    /\ UNCHANGED <<disk, tmp, memory, queue, job, calls, clock>>

\* A database of this version is taken as it is; a new or an upgraded one is
\* first persisted.
BootReads ==
    /\ phase = "down"
    /\ ReadFile(disk).version # 3
    /\ memory' = ReadFile(disk)
    /\ IF disk.version = 2
       THEN phase' = "adopting" /\ queue' = <<Boot>> /\ job' = NoJob
       ELSE /\ phase' = "creating"
            /\ queue' = <<>>
            /\ job' = [by |-> Boot, step |-> "write", next |-> memory']
    /\ tmp' = IF disk.version = 2 THEN tmp ELSE Torn
    /\ UNCHANGED <<disk, calls, clock>>

(***************************************************************************)
(* mutate                                                                  *)
(***************************************************************************)
Call(c) ==
    /\ phase = "up"
    /\ calls[c] = "idle"
    /\ calls' = [calls EXCEPT ![c] = "waiting"]
    /\ queue' = Append(queue, c)
    /\ UNCHANGED <<disk, tmp, memory, phase, job, clock>>

\* The mutation works on a structured clone.
TakeCopy(next) == memory' = memory

\* The next mutation of the queue runs; writeFile starts, which truncates the
\* temporary file.
Take ==
    /\ job.step = "none"
    /\ queue # <<>>
    /\ LET c == Head(queue)
           next == Mutation(c, memory)
       IN  /\ job' = [by |-> c, step |-> "write", next |-> next]
           /\ TakeCopy(next)
    /\ queue' = Tail(queue)
    /\ tmp' = Torn
    /\ UNCHANGED <<disk, phase, calls, clock>>

\* The mutation throws: its caller is told, and the next one may run.
TakeThrows ==
    /\ job.step = "none"
    /\ queue # <<>>
    /\ Head(queue) # Boot
    /\ Told(Head(queue), "failed")
    /\ queue' = Tail(queue)
    /\ UNCHANGED <<disk, tmp, memory, phase, job, clock>>

WriteFile ==
    /\ job.step = "write"
    /\ tmp' = job.next
    /\ job' = [job EXCEPT !.step = "rename"]
    /\ UNCHANGED <<disk, memory, phase, queue, calls, clock>>

RenameFile ==
    /\ job.step = "rename"
    /\ disk' = tmp
    /\ tmp' = Absent
    /\ job' = [job EXCEPT !.step = "publish"]
    /\ UNCHANGED <<memory, phase, queue, calls, clock>>

\* Mutant: the error is swallowed, and the caller never hears of it.
PersistFailsSilently ==
    /\ job.step \in {"write", "rename"}
    /\ job' = NoJob
    /\ IF job.by = Boot THEN phase' = "down" /\ queue' = <<>> ELSE UNCHANGED <<phase, queue>>
    /\ UNCHANGED <<disk, tmp, memory, calls, clock>>

\* Mutant: the change was already renamed when the failure is reported.
PersistFailsLate ==
    /\ job.step \in {"write", "rename"}
    /\ Told(job.by, "failed")
    /\ disk' = job.next
    /\ job' = NoJob
    /\ IF job.by = Boot THEN phase' = "down" /\ queue' = <<>> ELSE UNCHANGED <<phase, queue>>
    /\ UNCHANGED <<tmp, memory, clock>>

\* writeFile or rename fails: what was written stays in the temporary file,
\* the caller is told and the queue goes on.  During start-up nothing catches
\* the error and the process ends.
PersistFails ==
    /\ job.step \in {"write", "rename"}
    /\ Told(job.by, "failed")
    /\ job' = NoJob
    /\ IF job.by = Boot THEN phase' = "down" /\ queue' = <<>> ELSE UNCHANGED <<phase, queue>>
    /\ UNCHANGED <<disk, tmp, memory, clock>>

Publish ==
    /\ job.step = "publish"
    /\ memory' = job.next
    /\ Told(job.by, "done")
    /\ job' = NoJob
    /\ CASE phase = "creating" -> phase' = "adopting" /\ queue' = <<Boot>>
         [] phase = "adopting" -> phase' = "up" /\ UNCHANGED queue
         [] OTHER -> UNCHANGED <<phase, queue>>
    /\ UNCHANGED <<disk, tmp, clock>>

\* The process ends: the files stay as they are.
Crash ==
    /\ phase \notin {"down", "refused"}
    /\ phase' = "down"
    /\ queue' = <<>>
    /\ job' = NoJob
    /\ calls' = [c \in Callers |-> IF calls[c] = "waiting" THEN "lost" ELSE calls[c]]
    /\ UNCHANGED <<disk, tmp, memory, clock>>

Tick ==
    /\ \E t \in Times : (StepsBack \/ t > clock) /\ clock' = t
    /\ UNCHANGED <<disk, tmp, memory, phase, queue, job, calls>>

ServerStep == Take \/ WriteFile \/ RenameFile \/ Publish

Next ==
    \/ BootRefused \/ BootReads \/ ServerStep
    \/ TakeThrows \/ PersistFails \/ Crash \/ Tick
    \/ \E c \in Callers : Call(c)

Spec == Init /\ [][Next]_vars

\* The event loop goes on with a mutation once its file operation is answered.
FairSpec == Spec /\ WF_vars(ServerStep)
-----------------------------------------------------------------------------
(***************************************************************************)
(* Properties                                                              *)
(***************************************************************************)
\* The variables hold values of their types, and nothing of a process that has
\* ended is left in its queue.
TypeOK ==
    /\ phase \in Phases
    /\ calls \in [Callers -> Outcomes]
    /\ job.step \in Steps
    /\ job.by \in Callers \cup {Boot}
    /\ \A i \in DOMAIN queue : queue[i] \in Callers \cup {Boot}
    /\ phase \in {"down", "refused"} => queue = <<>> /\ job = NoJob

\* A mutation that was confirmed to its caller is in the database file, now
\* and after any crash (JsonStore.mutate, persist).
AckIsDurable == \A c \in Callers : calls[c] = "done" => c \in Authors(disk)

\* A mutation that was rejected is in no version of the database: not in the
\* file, not in memory, and not in what a later mutation starts from
\* (JsonStore.mutate: the copy is published only after it was persisted).
RejectedLeavesNoTrace ==
    \A c \in Callers : calls[c] = "failed" =>
        c \notin Authors(disk) \cup Authors(memory) \cup Authors(job.next)

\* What a request can see in memory is what a crash would leave behind: the
\* file is behind memory never, ahead of it only between rename and publish.
VisibleIsDurable ==
    phase = "up" => disk = memory \/ (job.step = "publish" /\ disk = job.next)

\* Once the server answers requests, the channel's messages are numbered
\* without a duplicate from 1 up to at most lastSeq, whatever file it found
\* (migrateV1, initialize, assignSequenceNumbers).
NumbersUnique ==
    phase = "up" =>
        LET ms == memory.messages
        IN  /\ \A i \in DOMAIN ms : ms[i].channel = "dm" /\ ms[i].seq \in 1 .. memory.lastSeq
            /\ \A i, j \in DOMAIN ms : i # j => ms[i].seq # ms[j].seq

\* No step takes a message off the disk: not an upgrade, not a crash between
\* two files, not a start-up that finds a file it does not understand.
HistoryKept == [][Authors(disk) \subseteq Authors(disk')]_vars

\* A message that has a number keeps it ("Messages that already carry a seq
\* keep it", store.ts): read cursors and seenSeq compare numbers.
SeqKept ==
    [][\A a \in Authors(disk) : SeqOf(disk, a) # {0} => SeqOf(disk', a) = SeqOf(disk, a)]_vars

\* Every mutation is answered unless the process ends first, though others
\* before it fail (the queue goes on after an error).
EveryMutationEnds == \A c \in Callers : calls[c] = "waiting" ~> calls[c] # "waiting"

\* The store implements the abstract one: a change happens when the temporary
\* file is renamed.
Atomic == INSTANCE AtomicStore WITH
    applied <- Authors(disk) \cap Callers,
    outcome <- [c \in Callers |-> IF calls[c] = "waiting" THEN "pending" ELSE calls[c]]
AtomicSpec == Atomic!Spec

\* Whatever file the server finds and whatever fails after that, the file keeps what it
\* had and every number that was given, and it agrees with what callers were told.
HistoryIsSound ==
    /\ [](NumbersUnique /\ AckIsDurable /\ RejectedLeavesNoTrace /\ VisibleIsDurable)
    /\ SeqKept
    /\ HistoryKept
=============================================================================
