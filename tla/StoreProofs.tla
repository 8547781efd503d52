---------------------------- MODULE StoreProofs ----------------------------
(***************************************************************************)
(* The store keeps what it confirmed, keeps nothing it rejected, and shows *)
(* only what is on disk, for any number of requests, failures and crashes. *)
(*                                                                         *)
(* The inductive invariant follows a message from the copy that a mutation *)
(* works on to the file and to memory: where it may be is bounded by what  *)
(* its author has been told.                                               *)
(*                                                                         *)
(* Its second part is the numbers: what a boot gives out is unique and     *)
(* what is on disk keeps its numbers as long as the clock goes on, for any *)
(* number of messages and any old file whose numbers follow its times.     *)
(* What assignSequenceNumbers computes is proved by induction on a set of  *)
(* places (AllNat), which the library's WFMin gives.                       *)
(***************************************************************************)
EXTENDS Store, WellFoundedInduction, FiniteSetTheorems, TLAPS

-----------------------------------------------------------------------------
(* Which messages the operations keep, add and drop. *)

Shape(db) ==
    /\ DOMAIN db = {"version", "dm", "messages", "lastSeq"}
    /\ \E S : db.messages \in Seq(S)
    /\ \A i \in DOMAIN db.messages : DOMAIN db.messages[i] = {"by", "time", "seq", "channel"}

LEMMA AppendAuthors ==
    ASSUME NEW db, Shape(db), NEW c
    PROVE  /\ Shape(AppendMessage(db, c))
           /\ Authors(AppendMessage(db, c)) = Authors(db) \cup {c}
<1> DEFINE ms == db.messages
           x == [by |-> c, time |-> clock, seq |-> db.lastSeq + 1, channel |-> "dm"]
           new == Append(ms, x)
           after == AppendMessage(db, c)
<1>1. PICK S : ms \in Seq(S)
  BY DEF Shape
<1>2. ms \in Seq(S \cup {x})
  BY <1>1
<1>3. /\ new \in Seq(S \cup {x})
      /\ DOMAIN new = DOMAIN ms \cup {Len(ms) + 1}
      /\ \A i \in DOMAIN ms : new[i] = ms[i] /\ i # Len(ms) + 1
      /\ new[Len(ms) + 1] = x
  BY <1>2
<1>4. after.messages = new /\ DOMAIN after = {"version", "dm", "messages", "lastSeq"}
  BY DEF AppendMessage, Shape
<1>5. x.by = c /\ DOMAIN x = {"by", "time", "seq", "channel"}
  OBVIOUS
<1> HIDE DEF new, x, after
<1>6. \A i \in DOMAIN new : DOMAIN new[i] = {"by", "time", "seq", "channel"}
  BY <1>3, <1>5 DEF Shape
<1>7. Shape(after)
  BY <1>3, <1>4, <1>6 DEF Shape
<1>8. {new[i].by : i \in DOMAIN new} = {ms[i].by : i \in DOMAIN ms} \cup {c}
  BY <1>3, <1>5
<1> QED BY <1>4, <1>7, <1>8 DEF Authors, after

\* A database whose messages are replaced one by one by ones of the same author.
LEMMA Rewritten ==
    ASSUME NEW db, NEW after, Shape(db),
           DOMAIN after = {"version", "dm", "messages", "lastSeq"},
           NEW T, after.messages \in [DOMAIN db.messages -> T],
           \A i \in DOMAIN db.messages :
               /\ DOMAIN after.messages[i] = {"by", "time", "seq", "channel"}
               /\ after.messages[i].by = db.messages[i].by
    PROVE  Shape(after) /\ Authors(after) = Authors(db)
<1>1. PICK S : db.messages \in Seq(S)
  BY DEF Shape
<1>2. after.messages \in Seq(T) /\ DOMAIN after.messages = DOMAIN db.messages
  BY <1>1
<1> QED BY <1>2 DEF Shape, Authors

LEMMA NumberedAuthors ==
    ASSUME NEW db, Shape(db)
    PROVE  Shape(AssignSequenceNumbers(db)) /\ Authors(AssignSequenceNumbers(db)) = Authors(db)
<1> DEFINE ms == db.messages
           number == Numbering(db)
           last == number[Cardinality(InDm(ms))]
           new(i) == IF ms[i].channel = "dm" THEN [ms[i] EXCEPT !.seq = number[Rank(ms, i)]] ELSE ms[i]
           after == AssignSequenceNumbers(db)
<1>1. after = [db EXCEPT !.messages = [i \in DOMAIN ms |-> new(i)],
                         !.lastSeq = IF last > @ THEN last ELSE @]
  BY DEF AssignSequenceNumbers
<1> HIDE DEF number, last
<1>2. DOMAIN after = {"version", "dm", "messages", "lastSeq"}
  BY <1>1 DEF Shape
<1>3. after.messages = [i \in DOMAIN ms |-> new(i)]
  BY <1>1 DEF Shape
<1>4. ASSUME NEW i \in DOMAIN ms
      PROVE  DOMAIN new(i) = {"by", "time", "seq", "channel"} /\ new(i).by = ms[i].by
  BY DEF Shape
<1> HIDE DEF new, after
<1>5. after.messages \in [DOMAIN ms -> {new(i) : i \in DOMAIN ms}]
  BY <1>3
<1>6. \A i \in DOMAIN ms :
          /\ DOMAIN after.messages[i] = {"by", "time", "seq", "channel"}
          /\ after.messages[i].by = ms[i].by
  BY <1>3, <1>4
<1>7. Shape(after) /\ Authors(after) = Authors(db)
  BY ONLY Shape(db), <1>2, <1>5, <1>6, Rewritten
<1> QED BY <1>7 DEF after

LEMMA AdoptedAuthors ==
    ASSUME NEW db, Shape(db)
    PROVE  Shape(AdoptLegacy(db)) /\ Authors(AdoptLegacy(db)) = Authors(db)
<1> DEFINE ms == db.messages
           new(i) == [ms[i] EXCEPT !.channel = "dm"]
           after == AdoptLegacy(db)
<1>1. CASE ~db.dm
  <2>1. DOMAIN after = {"version", "dm", "messages", "lastSeq"}
    BY <1>1 DEF Shape, AdoptLegacy
  <2>2. after.messages = [i \in DOMAIN ms |-> new(i)]
    BY <1>1 DEF Shape, AdoptLegacy
  <2>3. ASSUME NEW i \in DOMAIN ms
        PROVE  DOMAIN new(i) = {"by", "time", "seq", "channel"} /\ new(i).by = ms[i].by
    BY DEF Shape
  <2> HIDE DEF new, after
  <2>4. after.messages \in [DOMAIN ms -> {new(i) : i \in DOMAIN ms}]
    BY <2>2
  <2>5. \A i \in DOMAIN ms :
          /\ DOMAIN after.messages[i] = {"by", "time", "seq", "channel"}
          /\ after.messages[i].by = ms[i].by
    BY <2>2, <2>3
  <2>6. Shape(after) /\ Authors(after) = Authors(db)
    BY ONLY Shape(db), <2>1, <2>4, <2>5, Rewritten
  <2> QED BY <2>6 DEF after
<1> QED BY <1>1 DEF AdoptLegacy

LEMMA MigratedAuthors ==
    ASSUME NEW db, Shape(db)
    PROVE  Shape(MigrateV1(db)) /\ Authors(MigrateV1(db)) = Authors(db)
<1> DEFINE ms == db.messages
           new(i) == [ms[i] EXCEPT !.channel = "legacy", !.seq = 0]
           after == MigrateV1(db)
<1>1. DOMAIN after = {"version", "dm", "messages", "lastSeq"}
  BY DEF Shape, MigrateV1
<1>2. after.messages = [i \in DOMAIN ms |-> new(i)]
  BY DEF Shape, MigrateV1
<1>3. ASSUME NEW i \in DOMAIN ms
      PROVE  DOMAIN new(i) = {"by", "time", "seq", "channel"} /\ new(i).by = ms[i].by
  BY DEF Shape
<1> HIDE DEF new, after
<1>4. after.messages \in [DOMAIN ms -> {new(i) : i \in DOMAIN ms}]
  BY <1>2
<1>5. \A i \in DOMAIN ms :
          /\ DOMAIN after.messages[i] = {"by", "time", "seq", "channel"}
          /\ after.messages[i].by = ms[i].by
  BY <1>2, <1>3
<1>6. Shape(after) /\ Authors(after) = Authors(db)
  BY ONLY Shape(db), <1>1, <1>4, <1>5, Rewritten
<1> QED BY <1>6 DEF after

LEMMA MutationAuthors ==
    ASSUME NEW db, Shape(db), NEW c
    PROVE  /\ Shape(Mutation(c, db))
           /\ c = Boot => Authors(Mutation(c, db)) = Authors(db)
           /\ c # Boot => Authors(Mutation(c, db)) = Authors(db) \cup {c}
  BY AdoptedAuthors, NumberedAuthors, AppendAuthors DEF Mutation

LEMMA EmptyShape ==
    /\ Shape(Empty) /\ Shape(Absent)
    /\ Authors(Empty) = {} /\ Authors(Absent) = {}
<1>1. Empty.messages = <<>> /\ Absent.messages = <<>>
  BY DEF Empty, Absent
<1>2. <<>> \in Seq({})
  OBVIOUS
<1> QED BY <1>1, <1>2 DEF Shape, Authors, Empty, Absent

LEMMA Versions ==
    ASSUME NEW db, Shape(db)
    PROVE  /\ \A c : Mutation(c, db).version = db.version
           /\ MigrateV1(db).version = 2
<1>1. AdoptLegacy(db).version = db.version
  BY DEF Shape, AdoptLegacy
<1>2. ASSUME NEW x, Shape(x)
      PROVE  AssignSequenceNumbers(x).version = x.version
  BY <1>2 DEF Shape, AssignSequenceNumbers
<1>3. AssignSequenceNumbers(AdoptLegacy(db)).version = db.version
  BY <1>1, <1>2, AdoptedAuthors
<1>4. ASSUME NEW c
      PROVE  AppendMessage(db, c).version = db.version
  BY DEF Shape, AppendMessage
<1>5. MigrateV1(db).version = 2
  BY DEF Shape, MigrateV1
<1> QED BY <1>3, <1>4, <1>5 DEF Mutation

-----------------------------------------------------------------------------
(* The inductive invariant. *)

Typed ==
    /\ phase \in Phases
    /\ calls \in [Callers -> Outcomes]
    /\ queue \in Seq(Callers \cup {Boot})
    /\ DOMAIN job = {"by", "step", "next"}
    /\ job.step \in Steps
    /\ job.by \in Callers \cup {Boot}
    /\ Shape(disk) /\ Shape(memory) /\ Shape(job.next)
    /\ disk.version \in 0 .. 3
    /\ disk.version = 0 => Authors(disk) = {}

\* Who waits in the queue and whose mutation runs, phase by phase.
Turns ==
    /\ phase \in {"down", "refused"} => queue = <<>> /\ job = NoJob
    /\ phase = "creating" => queue = <<>> /\ job.step # "none" /\ job.by = Boot
    /\ phase = "adopting" =>
           /\ job.by = Boot
           /\ job.step = "none" => queue = <<Boot>>
           /\ job.step # "none" => queue = <<>>
    /\ phase = "up" =>
           /\ \A i \in DOMAIN queue : queue[i] \in Callers /\ calls[queue[i]] = "waiting"
           /\ \A i, j \in DOMAIN queue : queue[i] = queue[j] => i = j
           /\ job.step # "none" =>
                  /\ job.by \in Callers
                  /\ calls[job.by] = "waiting"
                  /\ \A i \in DOMAIN queue : queue[i] # job.by

\* How far the change that runs has come.
Progress ==
    /\ job.step = "rename" => tmp = job.next
    /\ job.step = "publish" => disk = job.next
    /\ job.step \in {"write", "rename"} =>
           /\ Authors(disk) \subseteq Authors(job.next)
           /\ Authors(job.next) \subseteq Authors(disk) \cup {job.by}
    /\ job.step # "none" => job.next.version = 2
    /\ job.step # "none" /\ job.by # Boot => job.by \in Authors(job.next)
    /\ phase \in {"creating", "adopting", "up"} => memory.version = 2
    /\ phase \in {"adopting", "up"} => disk = memory \/ job.step = "publish"

\* Where a message may be, by what its author was told.
Traces ==
    \A c \in Callers :
        /\ c \in Authors(disk) \cup Authors(memory) =>
               \/ calls[c] \in {"done", "lost"}
               \/ calls[c] = "waiting" /\ job.by = c /\ job.step = "publish"
        /\ c \in Authors(job.next) =>
               \/ calls[c] \in {"done", "lost"}
               \/ calls[c] = "waiting" /\ job.by = c /\ job.step # "none"
        /\ calls[c] = "done" => c \in Authors(disk)

IInv == Typed /\ Turns /\ Progress /\ Traces

LEMMA Elements ==
    \A S : \A s \in Seq(S) : \A i \in DOMAIN s : s[i] \in S
  OBVIOUS

LEMMA InitIInv == Init => IInv
<1> SUFFICES ASSUME Init PROVE IInv
  OBVIOUS
<1>1. disk \in [version : 0 .. 3, dm : BOOLEAN, lastSeq : Nat,
            messages : Seq([by : OldAuthors, time : Nat, seq : Nat, channel : {"legacy", "dm"}])]
      /\ (disk.version = 0 => disk.messages = <<>>)
  BY OldFilesAssumption DEF Init
<1>2. Shape(disk) /\ Authors(disk) \subseteq OldAuthors
  <2> DEFINE S == [by : OldAuthors, time : Nat, seq : Nat, channel : {"legacy", "dm"}]
  <2>1. DOMAIN disk = {"version", "dm", "messages", "lastSeq"} /\ disk.messages \in Seq(S)
    BY <1>1
  <2>2. \A i \in DOMAIN disk.messages : disk.messages[i] \in S
    <3> HIDE DEF S
    <3> QED BY <2>1, Elements
  <2>3. \A i \in DOMAIN disk.messages :
            DOMAIN disk.messages[i] = {"by", "time", "seq", "channel"} /\ disk.messages[i].by \in OldAuthors
    BY <2>2
  <2> QED BY <2>1, <2>3 DEF Shape, Authors
<1>3. disk.version = 0 => Authors(disk) = {}
  BY <1>1 DEF Authors
<1>4. job = NoJob /\ job.next = Absent /\ job.step = "none" /\ job.by = Boot /\ DOMAIN job = {"by", "step", "next"}
  BY DEF Init, NoJob
<1>5. Typed
  <2>1. memory = Empty /\ queue = <<>> /\ phase = "down" /\ calls = [c \in Callers |-> "idle"]
    BY DEF Init
  <2> QED BY <1>1, <1>2, <1>3, <1>4, <2>1, EmptyShape DEF Typed, Phases, Outcomes, Steps
<1>6. Turns /\ Progress
  BY <1>4 DEF Init, Turns, Progress
<1>7. Traces
  BY <1>2, <1>4, EmptyShape, OldFilesAssumption DEF Init, Traces
<1> QED BY <1>5, <1>6, <1>7 DEF IInv

LEMMA ReadFileKeeps ==
    ASSUME IInv, ReadFile(disk).version # 3
    PROVE  /\ disk.version \in {0, 1, 2}
           /\ Shape(ReadFile(disk)) /\ ReadFile(disk).version = 2
           /\ Authors(ReadFile(disk)) = Authors(disk)
<1>1. CASE disk.version = 0
  BY <1>1, EmptyShape DEF IInv, Typed, ReadFile, Empty
<1>2. CASE disk.version = 1
  BY <1>2, MigratedAuthors, Versions DEF IInv, Typed, ReadFile
<1>3. CASE disk.version \notin {0, 1}
  BY <1>3 DEF IInv, Typed, ReadFile
<1> QED BY <1>1, <1>2, <1>3

LEMMA BootStep == IInv /\ (BootRefused \/ BootReads) => IInv'
<1> SUFFICES ASSUME IInv, BootRefused \/ BootReads PROVE IInv'
  OBVIOUS
<1>0. job = NoJob /\ queue = <<>> /\ job.step = "none" /\ phase = "down" /\ Authors(job.next) = {}
  BY EmptyShape DEF IInv, Turns, BootRefused, BootReads, NoJob
<1>1. CASE BootRefused
  BY <1>0, <1>1 DEF BootRefused, IInv, Typed, Turns, Progress, Traces, Phases
<1>2. CASE BootReads
  <2>1. /\ disk.version \in {0, 1, 2} /\ Shape(memory') /\ memory'.version = 2
        /\ Authors(memory') = Authors(disk)
    BY <1>2, ReadFileKeeps DEF BootReads
  <2>2. CASE disk.version = 2
    <3>1. memory' = disk /\ phase' = "adopting" /\ queue' = <<Boot>> /\ job' = NoJob
      BY <1>2, <2>2 DEF BootReads, ReadFile
    <3>2. Typed' /\ Turns'
      BY <1>0, <1>2, <2>1, <3>1 DEF BootReads, IInv, Typed, Turns, Phases, NoJob
    <3>3. Progress' /\ Traces'
      BY <1>0, <1>2, <2>1, <3>1 DEF BootReads, IInv, Progress, Traces
    <3> QED BY <3>2, <3>3 DEF IInv
  <2>3. CASE disk.version # 2
    <3>1. /\ phase' = "creating" /\ queue' = <<>>
          /\ job'.by = Boot /\ job'.step = "write" /\ job'.next = memory'
          /\ DOMAIN job' = {"by", "step", "next"}
      BY <1>2, <2>3 DEF BootReads
    <3>2. Typed' /\ Turns'
      BY <1>0, <1>2, <2>1, <3>1 DEF BootReads, IInv, Typed, Turns, Phases, Steps
    <3>3. Progress' /\ Traces'
      BY <1>0, <1>2, <2>1, <3>1 DEF BootReads, IInv, Typed, Progress, Traces
    <3> QED BY <3>2, <3>3 DEF IInv
  <2> QED BY <2>2, <2>3
<1> QED BY <1>1, <1>2

LEMMA CallStep == ASSUME NEW c \in Callers PROVE IInv /\ Call(c) => IInv'
<1> SUFFICES ASSUME IInv, Call(c) PROVE IInv'
  OBVIOUS
<1>1. /\ phase = "up" /\ calls[c] = "idle" /\ calls' = [calls EXCEPT ![c] = "waiting"]
      /\ queue' = Append(queue, c) /\ queue \in Seq(Callers \cup {Boot})
      /\ UNCHANGED <<disk, tmp, memory, phase, job, clock>>
  BY DEF Call, IInv, Typed
<1>2. /\ queue' \in Seq(Callers \cup {Boot})
      /\ DOMAIN queue' = DOMAIN queue \cup {Len(queue) + 1}
      /\ \A i \in DOMAIN queue : queue'[i] = queue[i] /\ i # Len(queue) + 1
      /\ queue'[Len(queue) + 1] = c
  BY <1>1
<1>3. Typed'
  BY <1>1, <1>2 DEF IInv, Typed, Outcomes
<1>4. calls'[c] = "waiting" /\ \A d \in Callers : d # c => calls'[d] = calls[d]
  BY <1>1 DEF IInv, Typed
<1>5. Turns'
  BY <1>1, <1>2, <1>4 DEF IInv, Turns
<1>6. Progress'
  BY <1>1 DEF IInv, Progress
<1>7. Traces'
  BY <1>1, <1>4 DEF IInv, Traces
<1> QED BY <1>3, <1>5, <1>6, <1>7 DEF IInv

\* What the head of the queue is when a mutation may start.
LEMMA HeadOfQueue ==
    ASSUME IInv, job.step = "none", queue # <<>>
    PROVE  /\ queue \in Seq(Callers \cup {Boot}) /\ Tail(queue) \in Seq(Callers \cup {Boot})
           /\ Head(queue) \in Callers \cup {Boot} /\ Head(queue) = queue[1] /\ 1 \in DOMAIN queue
           /\ \A i \in DOMAIN Tail(queue) : Tail(queue)[i] = queue[i + 1] /\ i + 1 \in DOMAIN queue /\ i + 1 # 1
           /\ phase = "adopting" \/ phase = "up"
           /\ phase = "adopting" => Head(queue) = Boot /\ Tail(queue) = <<>>
           /\ phase = "up" => Head(queue) \in Callers /\ calls[Head(queue)] = "waiting"
           /\ disk = memory
<1>1. queue \in Seq(Callers \cup {Boot})
  BY DEF IInv, Typed
<1>2. phase \in {"adopting", "up"}
  BY DEF IInv, Typed, Turns, Phases
<1>3. Head(queue) = queue[1] /\ 1 \in DOMAIN queue
  BY <1>1
<1>4. ASSUME phase = "adopting"
      PROVE  Head(queue) = Boot /\ Tail(queue) = <<>>
  <2>1. queue = <<Boot>>
    BY <1>4 DEF IInv, Turns
  <2> QED BY <2>1
<1>5. disk = memory
  BY <1>2 DEF IInv, Progress
<1> QED BY <1>1, <1>2, <1>3, <1>4, <1>5 DEF IInv, Turns

LEMMA TakeStep == IInv /\ Take => IInv'
<1> SUFFICES ASSUME IInv, Take PROVE IInv'
  OBVIOUS
<1> DEFINE c == Head(queue)
           next == Mutation(c, memory)
<1>1. /\ job.step = "none" /\ queue # <<>> /\ queue' = Tail(queue)
      /\ job' = [by |-> c, step |-> "write", next |-> next]
      /\ UNCHANGED <<disk, memory, phase, calls>>
  BY DEF Take, TakeCopy
<1>2. /\ Shape(next) /\ next.version = 2
      /\ Authors(next) = Authors(disk) \cup (IF c = Boot THEN {} ELSE {c})
  BY <1>1, HeadOfQueue, MutationAuthors, Versions DEF IInv, Typed, Progress
<1> HIDE DEF c, next
<1>3. /\ job'.by = c /\ job'.step = "write" /\ job'.next = next
      /\ DOMAIN job' = {"by", "step", "next"}
  BY <1>1
<1>4. Typed'
  BY <1>1, <1>2, <1>3, HeadOfQueue DEF IInv, Typed, Steps, c
<1>5. Turns'
  BY <1>1, <1>3, HeadOfQueue, StoreAssumption DEF IInv, Typed, Turns, c
<1>6. Progress'
  BY <1>1, <1>2, <1>3, HeadOfQueue DEF IInv, Progress
<1>7. Traces'
  <2>1. c \in Callers => calls[c] = "waiting"
    BY <1>1, HeadOfQueue, StoreAssumption DEF IInv, Turns, c
  <2> QED BY <1>1, <1>2, <1>3, <2>1, HeadOfQueue DEF IInv, Traces
<1> QED BY <1>4, <1>5, <1>6, <1>7 DEF IInv

LEMMA TakeThrowsStep == IInv /\ TakeThrows => IInv'
<1> SUFFICES ASSUME IInv, TakeThrows PROVE IInv'
  OBVIOUS
<1> DEFINE c == Head(queue)
<1>1. /\ job.step = "none" /\ queue # <<>> /\ queue' = Tail(queue) /\ c # Boot
      /\ calls' = [calls EXCEPT ![c] = "failed"]
      /\ UNCHANGED <<disk, memory, phase, tmp, job>>
  BY DEF TakeThrows, Told
<1>2. phase = "up" /\ c \in Callers /\ calls[c] = "waiting" /\ c = queue[1]
  BY <1>1, HeadOfQueue
<1> HIDE DEF c
<1>3. calls'[c] = "failed" /\ \A d \in Callers : d # c => calls'[d] = calls[d]
  BY <1>1, <1>2 DEF IInv, Typed
<1>4. Typed'
  BY <1>1, <1>2, HeadOfQueue DEF IInv, Typed, Outcomes
<1>5. Turns'
  BY <1>1, <1>2, <1>3, HeadOfQueue DEF IInv, Turns
<1>6. Progress'
  BY <1>1 DEF IInv, Progress
<1>7. Traces'
  BY <1>1, <1>2, <1>3 DEF IInv, Traces
<1> QED BY <1>4, <1>5, <1>6, <1>7 DEF IInv

LEMMA PersistStep == IInv /\ (WriteFile \/ RenameFile) => IInv'
<1> SUFFICES ASSUME IInv, WriteFile \/ RenameFile PROVE IInv'
  OBVIOUS
<1>1. CASE WriteFile
  <2>1. /\ job'.by = job.by /\ job'.step = "rename" /\ job'.next = job.next
        /\ DOMAIN job' = {"by", "step", "next"} /\ tmp' = job.next /\ job.step = "write"
        /\ UNCHANGED <<disk, memory, phase, queue, calls>>
    BY <1>1 DEF WriteFile, IInv, Typed
  <2>2. job # NoJob
    BY <2>1 DEF NoJob
  <2> QED BY <2>1, <2>2 DEF IInv, Typed, Turns, Progress, Traces, Steps
<1>2. CASE RenameFile
  <2>1. /\ job'.by = job.by /\ job'.step = "publish" /\ job'.next = job.next
        /\ DOMAIN job' = {"by", "step", "next"} /\ job.step = "rename"
        /\ disk' = job.next
        /\ UNCHANGED <<memory, phase, queue, calls>>
    BY <1>2 DEF RenameFile, IInv, Typed, Progress
  <2>2. job # NoJob
    BY <2>1 DEF NoJob
  <2>3. Typed' /\ Turns' /\ Progress'
    BY <2>1, <2>2 DEF IInv, Typed, Turns, Progress, Steps
  <2>4. Traces'
    BY <2>1 DEF IInv, Progress, Traces
  <2> QED BY <2>3, <2>4 DEF IInv
<1> QED BY <1>1, <1>2

LEMMA NoJobFacts ==
    /\ NoJob.by = Boot /\ NoJob.step = "none" /\ NoJob.next = Absent
    /\ DOMAIN NoJob = {"by", "step", "next"}
  BY DEF NoJob

LEMMA PersistFailsStep == IInv /\ PersistFails => IInv'
<1> SUFFICES ASSUME IInv, PersistFails PROVE IInv'
  OBVIOUS
<1>1. job.step \in {"write", "rename"} /\ job' = NoJob /\ UNCHANGED <<disk, memory>>
  BY DEF PersistFails
<1>2. CASE job.by = Boot
  <2>1. phase' = "down" /\ queue' = <<>> /\ calls' = calls
    BY <1>2 DEF PersistFails, Told
  <2> QED BY <1>1, <1>2, <2>1, NoJobFacts, EmptyShape, StoreAssumption
       DEF IInv, Typed, Turns, Progress, Traces, Phases, Steps
<1>3. CASE job.by # Boot
  <2>1. phase' = phase /\ queue' = queue /\ calls' = [calls EXCEPT ![job.by] = "failed"]
    BY <1>3 DEF PersistFails, Told
  <2>2. phase = "up" /\ job.by \in Callers /\ calls[job.by] = "waiting"
    BY <1>1, <1>3, NoJobFacts DEF IInv, Typed, Turns, Phases
  <2>3. calls'[job.by] = "failed" /\ \A d \in Callers : d # job.by => calls'[d] = calls[d]
    BY <2>1, <2>2 DEF IInv, Typed
  <2>4. Typed'
    BY <1>1, <2>1, <2>2, NoJobFacts, EmptyShape DEF IInv, Typed, Outcomes, Steps
  <2>5. Turns'
    BY <1>1, <2>1, <2>2, <2>3, NoJobFacts DEF IInv, Turns
  <2>6. Progress'
    BY <1>1, <2>1, <2>2, NoJobFacts DEF IInv, Progress
  <2>7. Traces'
    BY <1>1, <2>1, <2>2, <2>3, NoJobFacts, EmptyShape DEF IInv, Traces
  <2> QED BY <2>4, <2>5, <2>6, <2>7 DEF IInv
<1> QED BY <1>2, <1>3

LEMMA PublishStep == IInv /\ Publish => IInv'
<1> SUFFICES ASSUME IInv, Publish PROVE IInv'
  OBVIOUS
<1>1. job.step = "publish" /\ job' = NoJob /\ memory' = job.next /\ disk' = disk /\ disk = job.next
  BY DEF Publish, IInv, Progress
<1>2. phase \in {"creating", "adopting", "up"}
  BY <1>1, NoJobFacts DEF IInv, Typed, Turns, Phases
<1>3. CASE phase = "creating"
  <2>1. phase' = "adopting" /\ queue' = <<Boot>> /\ calls' = calls /\ job.by = Boot
    BY <1>3 DEF Publish, Told, IInv, Turns
  <2> QED BY <1>1, <1>3, <2>1, NoJobFacts, EmptyShape, StoreAssumption
       DEF IInv, Typed, Turns, Progress, Traces, Phases, Steps
<1>4. CASE phase = "adopting"
  <2>1. phase' = "up" /\ queue' = <<>> /\ queue = <<>> /\ calls' = calls /\ job.by = Boot
    BY <1>1, <1>4 DEF Publish, Told, IInv, Turns
  <2> QED BY <1>1, <1>4, <2>1, NoJobFacts, EmptyShape, StoreAssumption
       DEF IInv, Typed, Turns, Progress, Traces, Phases, Steps
<1>5. CASE phase = "up"
  <2>1. job.by \in Callers /\ calls[job.by] = "waiting"
    BY <1>1, <1>5 DEF IInv, Turns
  <2>2. phase' = "up" /\ queue' = queue /\ calls' = [calls EXCEPT ![job.by] = "done"]
    BY <1>5, <2>1, StoreAssumption DEF Publish, Told
  <2>3. calls'[job.by] = "done" /\ \A d \in Callers : d # job.by => calls'[d] = calls[d]
    BY <2>1, <2>2 DEF IInv, Typed
  <2>4. Typed'
    BY <1>1, <2>1, <2>2, NoJobFacts, EmptyShape DEF IInv, Typed, Outcomes, Steps, Phases
  <2>5. Turns'
    BY <1>1, <1>5, <2>1, <2>2, <2>3, NoJobFacts DEF IInv, Turns
  <2>6. Progress'
    BY <1>1, <1>5, <2>2, NoJobFacts DEF IInv, Progress
  <2>7. job.by \in Authors(disk)
    BY <1>1, <2>1, StoreAssumption DEF IInv, Progress
  <2>8. Traces'
    BY <1>1, <2>1, <2>2, <2>3, <2>7, NoJobFacts, EmptyShape DEF IInv, Traces
  <2> QED BY <2>4, <2>5, <2>6, <2>8 DEF IInv
<1> QED BY <1>2, <1>3, <1>4, <1>5

LEMMA CrashStep == IInv /\ Crash => IInv'
<1> SUFFICES ASSUME IInv, Crash PROVE IInv'
  OBVIOUS
<1>1. /\ phase' = "down" /\ queue' = <<>> /\ job' = NoJob
      /\ calls' = [c \in Callers |-> IF calls[c] = "waiting" THEN "lost" ELSE calls[c]]
      /\ UNCHANGED <<disk, memory>>
  BY DEF Crash
<1>2. Typed'
  BY <1>1, NoJobFacts, EmptyShape DEF IInv, Typed, Outcomes, Phases, Steps
<1>3. Turns' /\ Progress'
  BY <1>1, NoJobFacts DEF IInv, Turns, Progress
<1>4. Traces'
  BY <1>1, NoJobFacts, EmptyShape DEF IInv, Typed, Traces
<1> QED BY <1>2, <1>3, <1>4 DEF IInv

LEMMA NextIInv == IInv /\ [Next]_vars => IInv'
<1> SUFFICES ASSUME IInv, [Next]_vars PROVE IInv'
  OBVIOUS
<1>1. CASE Tick
  BY <1>1 DEF Tick, IInv, Typed, Turns, Progress, Traces
<1>2. CASE UNCHANGED vars
  BY <1>2 DEF vars, IInv, Typed, Turns, Progress, Traces
<1> QED
  BY <1>1, <1>2, BootStep, CallStep, TakeStep, TakeThrowsStep, PersistStep, PersistFailsStep,
     PublishStep, CrashStep DEF Next, ServerStep

LEMMA StoreInvariant == Spec => []IInv
  BY InitIInv, NextIInv, PTL DEF Spec

-----------------------------------------------------------------------------
(* The theorems. *)

\* What the store confirmed to a caller is in the file, whatever failed or
\* crashed since.
THEOREM ConfirmedIsDurable == Spec => []AckIsDurable
<1>1. IInv => AckIsDurable
  BY DEF IInv, Traces, AckIsDurable
<1> QED BY <1>1, StoreInvariant, PTL

\* A mutation whose caller was told that it failed is nowhere, not even in the
\* copy that the next mutation changes.
THEOREM RejectedIsForgotten == Spec => []RejectedLeavesNoTrace
<1>1. IInv => RejectedLeavesNoTrace
  BY DEF IInv, Traces, RejectedLeavesNoTrace
<1> QED BY <1>1, StoreInvariant, PTL

\* Requests are answered from data that is on disk, except between the rename
\* and the assignment that follows it, when the file is ahead.
THEOREM ShownIsDurable == Spec => []VisibleIsDurable
<1>1. IInv => VisibleIsDurable
  BY DEF IInv, Progress, VisibleIsDurable
<1> QED BY <1>1, StoreInvariant, PTL

LEMMA DiskChanges ==
    ASSUME IInv, [Next]_vars, disk' # disk
    PROVE  RenameFile /\ disk' = job.next
  BY DEF IInv, Progress, Next, ServerStep, vars, BootRefused, BootReads, Take, WriteFile, RenameFile,
         Publish, TakeThrows, PersistFails, Crash, Tick, Call

\* No message ever leaves the file: through failed writes, crashes between the
\* two files, upgrades of an old file, and start-ups that refuse a file.
THEOREM NothingIsLost == Spec => HistoryKept
<1>1. IInv /\ [Next]_vars => [Authors(disk) \subseteq Authors(disk')]_vars
  <2> SUFFICES ASSUME IInv, [Next]_vars PROVE Authors(disk) \subseteq Authors(disk')
    OBVIOUS
  <2>1. CASE disk' = disk
    BY <2>1 DEF Authors
  <2>2. CASE disk' # disk
    BY <2>2, DiskChanges DEF IInv, Progress, RenameFile
  <2> QED BY <2>1, <2>2
<1> QED BY <1>1, StoreInvariant, PTL DEF Spec, HistoryKept

-----------------------------------------------------------------------------
(* The store implements the abstract one. *)

Pending(f) == [c \in Callers |-> IF f[c] = "waiting" THEN "pending" ELSE f[c]]

LEMMA PendingExcept ==
    ASSUME NEW f \in [Callers -> Outcomes], NEW c \in Callers, NEW to
    PROVE  Pending([f EXCEPT ![c] = to]) =
               [Pending(f) EXCEPT ![c] = IF to = "waiting" THEN "pending" ELSE to]
  BY DEF Pending

\* The abstract operations, over the state they map to.
LEMMA AbstractTell ==
    ASSUME NEW c \in Callers, NEW from, NEW to,
           calls \in [Callers -> Outcomes],
           calls[c] = from, calls' = [calls EXCEPT ![c] = to]
    PROVE  Atomic!Tell(c, IF from = "waiting" THEN "pending" ELSE from,
                          IF to = "waiting" THEN "pending" ELSE to)
<1>1. Pending(calls)[c] = IF from = "waiting" THEN "pending" ELSE from
  BY DEF Pending
<1>2. Pending(calls') = [Pending(calls) EXCEPT ![c] = IF to = "waiting" THEN "pending" ELSE to]
  BY PendingExcept
<1> QED BY <1>1, <1>2 DEF Pending, Atomic!Tell

LEMMA AtomicStep == IInv /\ [Next]_vars => [Atomic!Next]_(Atomic!vars)
<1> SUFFICES ASSUME IInv, [Next]_vars PROVE [Atomic!Next]_(Atomic!vars)
  OBVIOUS
<1>1. calls \in [Callers -> Outcomes]
  BY DEF IInv, Typed
<1>2. CASE disk' = disk /\ calls' = calls
  BY <1>2 DEF Atomic!vars, Authors
<1>3. CASE disk' # disk
  <2>1. RenameFile /\ disk' = job.next /\ calls' = calls /\ job.step = "rename"
    BY <1>3, DiskChanges DEF RenameFile
  <2>2. /\ Authors(disk) \subseteq Authors(disk')
        /\ Authors(disk') \subseteq Authors(disk) \cup {job.by}
    BY <2>1 DEF IInv, Progress
  <2>3. CASE job.by \notin Callers
    BY <2>1, <2>2, <2>3 DEF Atomic!vars
  <2>4. CASE job.by \in Callers
    <3>1. job.by \in Authors(disk')
      BY <2>1, <2>4, StoreAssumption DEF IInv, Progress
    <3>2. calls[job.by] = "waiting"
      BY <2>1, <2>4, NoJobFacts, StoreAssumption DEF IInv, Typed, Turns, Phases
    <3>3. job.by \notin Authors(disk)
      BY <2>1, <2>4, <3>2 DEF IInv, Traces
    <3>4. Atomic!Apply(job.by)
      BY <2>1, <2>2, <2>4, <3>1, <3>2, <3>3 DEF Atomic!Apply
    <3> QED BY <2>4, <3>4 DEF Atomic!Next
  <2> QED BY <2>3, <2>4
<1>4. ASSUME disk' = disk, NEW c \in Callers, Call(c)
      PROVE  Atomic!Next
  <2>1. Atomic!Tell(c, "idle", "pending")
    BY <1>1, <1>4, AbstractTell DEF Call
  <2> QED BY <1>4, <2>1 DEF Atomic!Next, Atomic!Ask, Authors
<1>5. ASSUME disk' = disk, NEW c \in Callers, calls[c] = "waiting", c \notin Authors(disk),
             calls' = [calls EXCEPT ![c] = "failed"]
      PROVE  Atomic!Next
  <2>1. Atomic!Tell(c, "pending", "failed")
    BY <1>1, <1>5, AbstractTell
  <2> QED BY <1>5, <2>1 DEF Atomic!Next, Atomic!Fail, Authors
<1>6. CASE TakeThrows
  <2>1. /\ job.step = "none" /\ Head(queue) \in Callers /\ calls[Head(queue)] = "waiting"
        /\ calls' = [calls EXCEPT ![Head(queue)] = "failed"] /\ disk' = disk
    BY <1>6, HeadOfQueue DEF TakeThrows, Told
  <2>2. Head(queue) \notin Authors(disk)
    BY <2>1 DEF IInv, Traces
  <2> QED BY <1>5, <2>1, <2>2
<1>7. CASE PersistFails /\ calls' # calls
  <2>1. /\ job.step \in {"write", "rename"} /\ job.by # Boot /\ job.by \in Callers
        /\ calls' = [calls EXCEPT ![job.by] = "failed"] /\ disk' = disk
    BY <1>7 DEF PersistFails, Told, IInv, Typed
  <2>2. calls[job.by] = "waiting"
    BY <2>1, NoJobFacts DEF IInv, Typed, Turns, Phases
  <2>3. job.by \notin Authors(disk)
    BY <2>1, <2>2 DEF IInv, Traces
  <2> QED BY <1>5, <2>1, <2>2, <2>3
<1>8. CASE Publish /\ calls' # calls
  <2>1. /\ job.step = "publish" /\ job.by # Boot /\ job.by \in Callers
        /\ calls' = [calls EXCEPT ![job.by] = "done"] /\ disk' = disk /\ disk = job.next
    BY <1>8 DEF Publish, Told, IInv, Typed, Progress
  <2>2. calls[job.by] = "waiting" /\ job.by \in Authors(disk)
    BY <2>1, NoJobFacts DEF IInv, Typed, Turns, Progress, Phases
  <2>3. Atomic!Tell(job.by, "pending", "done")
    BY <1>1, <2>1, <2>2, AbstractTell
  <2> QED BY <2>1, <2>2, <2>3 DEF Atomic!Next, Atomic!Confirm, Authors
<1>9. CASE Crash
  <2>1. calls' = [c \in Callers |-> IF calls[c] = "waiting" THEN "lost" ELSE calls[c]] /\ disk' = disk
    BY <1>9 DEF Crash
  <2>2. Pending(calls') = [c \in Callers |-> IF Pending(calls)[c] = "pending" THEN "lost" ELSE Pending(calls)[c]]
    BY <1>1, <2>1 DEF Pending, Outcomes
  <2> QED BY <2>1, <2>2 DEF Pending, Atomic!Next, Atomic!Lose, Authors
<1> QED
  BY <1>2, <1>3, <1>4, <1>6, <1>7, <1>8, <1>9
     DEF Next, ServerStep, vars, BootRefused, BootReads, Take, WriteFile, RenameFile, Tick

\* Every behaviour of the store, with its failures, crashes and upgrades, is one
\* of a store whose changes happen at once or not at all.
THEOREM StoreImplementsAtomicStore == Spec => AtomicSpec
<1>1. Init => Atomic!Init
  <2> SUFFICES ASSUME Init PROVE Atomic!Init
    OBVIOUS
  <2>1. Authors(disk) \cap Callers = {}
    BY InitIInv, StoreAssumption DEF IInv, Traces, Init
  <2>2. calls = [c \in Callers |-> "idle"]
    BY DEF Init
  <2> QED BY <2>1, <2>2 DEF Atomic!Init
<1> QED BY <1>1, AtomicStep, StoreInvariant, PTL DEF Spec, AtomicSpec, Atomic!Spec

-----------------------------------------------------------------------------
(* The numbers that messages are given. *)

\* A set of natural numbers that is not empty has a least element.
LEMMA Least ==
    ASSUME NEW S \in SUBSET Nat, S # {}
    PROVE  \E n \in S : \A m \in S : n <= m
<1>1. PICK n \in S : \A m \in S : <<m, n>> \notin OpToRel(<, Nat)
  BY NatLessThanWellFounded, WFMin, Zenon
<1>2. \A m \in S : ~(m < n)
  BY <1>1 DEF OpToRel
<1> QED BY <1>2

\* Induction: a set of natural numbers with 0 and every successor is Nat.
LEMMA AllNat ==
    ASSUME NEW S \in SUBSET Nat, 0 \in S, \A n \in S : n + 1 \in S
    PROVE  S = Nat
<1>1. SUFFICES ASSUME Nat \ S # {} PROVE FALSE
  OBVIOUS
<1>2. PICK n \in Nat \ S : \A m \in Nat \ S : n <= m
  BY <1>1, Least
<1>3. n # 0 /\ n - 1 \in Nat
  BY <1>2
<1>4. n - 1 \in S
  BY <1>2, <1>3
<1> QED BY <1>2, <1>3, <1>4

\* Messages whose places and times are numbers.
Timed(ms) ==
    /\ IsFiniteSet(DOMAIN ms) /\ DOMAIN ms \in SUBSET Nat
    /\ \A i \in DOMAIN ms : ms[i].time \in Nat /\ ms[i].seq \in Nat

\* The order of the sort is total.
LEMMA TotalOrder ==
    ASSUME NEW ms, Timed(ms), NEW i \in DOMAIN ms, NEW j \in DOMAIN ms
    PROVE  /\ i = j \/ Before(ms, i, j) \/ Before(ms, j, i)
           /\ ~Before(ms, i, i) /\ ~(Before(ms, i, j) /\ Before(ms, j, i))
           /\ \A k \in DOMAIN ms : Before(ms, i, j) /\ Before(ms, j, k) => Before(ms, i, k)
  BY DEF Timed, Before

\* So the messages of the channel have ranks from 1 up, one each.
LEMMA Ranks ==
    ASSUME NEW ms, Timed(ms), NEW n, n = Cardinality(InDm(ms))
    PROVE  /\ n \in Nat
           /\ \A i \in InDm(ms) : Rank(ms, i) \in 1 .. n
           /\ \A i, j \in InDm(ms) : Before(ms, i, j) => Rank(ms, i) < Rank(ms, j)
           /\ \A i, j \in InDm(ms) : Rank(ms, i) = Rank(ms, j) => i = j
           /\ \A k \in 1 .. n : At(ms, k) \in InDm(ms) /\ Rank(ms, At(ms, k)) = k
           /\ \A i \in InDm(ms) : At(ms, Rank(ms, i)) = i
<1> DEFINE X == InDm(ms)
           Earlier(i) == {j \in X : Before(ms, j, i)}
<1>1. X \in SUBSET DOMAIN ms /\ IsFiniteSet(X) /\ n \in Nat
  <2>1. X \in SUBSET DOMAIN ms
    BY DEF InDm
  <2>2. IsFiniteSet(X)
    BY <2>1, FS_Subset DEF Timed
  <2> QED BY <2>1, <2>2, FS_CardinalityType
<1>2. \A i \in X : Rank(ms, i) = Cardinality(Earlier(i)) + 1
  BY DEF Rank
<1>3. \A i \in X : IsFiniteSet(Earlier(i)) /\ Cardinality(Earlier(i)) \in Nat
  <2> SUFFICES ASSUME NEW i \in X PROVE IsFiniteSet(Earlier(i)) /\ Cardinality(Earlier(i)) \in Nat
    OBVIOUS
  <2>1. Earlier(i) \in SUBSET X
    OBVIOUS
  <2>2. IsFiniteSet(Earlier(i))
    BY <1>1, <2>1, FS_Subset
  <2> QED BY <2>2, FS_CardinalityType
<1>4. ASSUME NEW i \in X PROVE Rank(ms, i) \in 1 .. n
  <2>1. Earlier(i) \in SUBSET (X \ {i})
    BY <1>1, TotalOrder
  <2>2. IsFiniteSet(X \ {i}) /\ Cardinality(X \ {i}) = n - 1
    BY <1>1, FS_RemoveElement
  <2>3. Cardinality(Earlier(i)) <= n - 1
    BY <2>1, <2>2, FS_Subset
  <2>4. Rank(ms, i) = Cardinality(Earlier(i)) + 1 /\ Cardinality(Earlier(i)) \in Nat
    BY <1>2, <1>3
  <2> HIDE DEF Earlier, X
  <2> QED BY <1>1, <2>3, <2>4
<1>5. ASSUME NEW i \in X, NEW j \in X, Before(ms, i, j)
      PROVE  Rank(ms, i) < Rank(ms, j)
  <2>1. Earlier(i) \in SUBSET Earlier(j) /\ i \in Earlier(j) /\ i \notin Earlier(i)
    BY <1>1, <1>5, TotalOrder
  <2>2. Cardinality(Earlier(i)) <= Cardinality(Earlier(j)) /\ Cardinality(Earlier(i)) # Cardinality(Earlier(j))
    <3> HIDE DEF Earlier, X
    <3>1. Earlier(i) # Earlier(j)
      BY <2>1
    <3> QED BY <1>3, <2>1, <3>1, FS_Subset
  <2> QED BY <1>2, <1>3, <2>2
<1>6. ASSUME NEW i \in X, NEW j \in X, Rank(ms, i) = Rank(ms, j)
      PROVE  i = j
  <2>1. Rank(ms, i) \in Nat
    BY <1>1, <1>4
  <2> QED BY <1>1, <1>5, <1>6, <2>1, TotalOrder
<1>7. \A k \in 1 .. n : \E i \in X : Rank(ms, i) = k
  <2> DEFINE R == [i \in X |-> Rank(ms, i)]
  <2>1. R \in Injection(X, 1 .. n)
    BY <1>4, <1>6 DEF Injection, IsInjective
  <2>2. IsFiniteSet(1 .. n) /\ Cardinality(1 .. n) = n
    <3>1. 1 \in Int /\ n \in Int
      BY <1>1
    <3>2. /\ IsFiniteSet(1 .. n)
          /\ Cardinality(1 .. n) = IF 1 > n THEN 0 ELSE n - 1 + 1
      BY ONLY <3>1, FS_Interval
    <3> QED BY <1>1, <3>2
  <2>3. R \in Surjection(X, 1 .. n)
    <3> HIDE DEF R, X
    <3> QED BY <2>1, <2>2, FS_Injection DEF X
  <2> QED BY <2>3 DEF Surjection
<1>8. ASSUME NEW k \in 1 .. n PROVE At(ms, k) \in X /\ Rank(ms, At(ms, k)) = k
  BY <1>7 DEF At
<1>9. ASSUME NEW i \in X PROVE At(ms, Rank(ms, i)) = i
  BY <1>4, <1>6, <1>8
<1> QED BY <1>1, <1>4, <1>5, <1>6, <1>8, <1>9

\* g gives each place a number larger than the one before.
Counts(g, n, want) ==
    /\ g[0] = 0
    /\ \A k \in 1 .. n : g[k] = IF want[k] > g[k - 1] THEN want[k] ELSE g[k - 1] + 1

\* There are such numbers, whatever the messages carry.
LEMMA Counted ==
    ASSUME NEW n \in Nat, NEW want \in [1 .. n -> Nat]
    PROVE  \E g \in [0 .. n -> Nat] : Counts(g, n, want)
<1> DEFINE Some == {m \in Nat : m <= n => \E g \in [0 .. m -> Nat] : Counts(g, m, want)}
<1>1. 0 \in Some
  <2> DEFINE g == [k \in 0 .. 0 |-> 0]
  <2>1. g \in [0 .. 0 -> Nat] /\ Counts(g, 0, want)
    BY DEF Counts
  <2> HIDE DEF g
  <2> QED BY <2>1
<1>2. ASSUME NEW m \in Some PROVE m + 1 \in Some
  <2>1. SUFFICES ASSUME m + 1 <= n PROVE \E h \in [0 .. m + 1 -> Nat] : Counts(h, m + 1, want)
    <3>1. m + 1 \in Nat
      OBVIOUS
    <3> QED BY <3>1
  <2>2. PICK g \in [0 .. m -> Nat] : Counts(g, m, want)
    BY <2>1
  <2> DEFINE x == IF want[m + 1] > g[m] THEN want[m + 1] ELSE g[m] + 1
             h == [k \in 0 .. m + 1 |-> IF k = m + 1 THEN x ELSE g[k]]
  <2>3. m \in Nat /\ m + 1 \in 1 .. n /\ m \in 0 .. m
    BY <2>1
  <2>4. x \in Nat
    BY <2>3
  <2>5. h \in [0 .. m + 1 -> Nat]
    <3> HIDE DEF x
    <3> QED BY <2>3, <2>4
  <2>6. h[0] = g[0] /\ h[m + 1] = x /\ \A k \in 1 .. m : h[k] = g[k] /\ h[k - 1] = g[k - 1]
    <3> HIDE DEF x
    <3> QED BY <2>3
  <2>7. h[m] = g[m]
    <3> HIDE DEF x
    <3> QED BY <2>3
  <2> HIDE DEF h
  <2>8. ASSUME NEW k \in 1 .. m + 1
        PROVE  h[k] = IF want[k] > h[k - 1] THEN want[k] ELSE h[k - 1] + 1
    <3>1. CASE k = m + 1
      BY <2>3, <2>6, <2>7, <3>1
    <3>2. CASE k \in 1 .. m
      BY <2>2, <2>6, <3>2 DEF Counts
    <3> QED BY <2>3, <3>1, <3>2
  <2>9. h[0] = 0
    BY <2>2, <2>6 DEF Counts
  <2>10. Counts(h, m + 1, want)
    BY <2>8, <2>9 DEF Counts
  <2> QED BY <2>5, <2>10
<1> HIDE DEF Some
<1>3. Some \in SUBSET Nat
  BY DEF Some
<1>4. Some = Nat
  BY <1>1, <1>2, <1>3, AllNat
<1>5. n \in Some
  BY <1>4
<1>6. n <= n => \E g \in [0 .. n -> Nat] : Counts(g, n, want)
  BY <1>5, Zenon DEF Some
<1>7. n <= n
  OBVIOUS
<1> QED BY <1>6, <1>7, Zenon

\* They grow from place to place,
LEMMA CountsUp ==
    ASSUME NEW n \in Nat, NEW want \in [1 .. n -> Nat], NEW g \in [0 .. n -> Nat], Counts(g, n, want)
    PROVE  \A j, k \in 0 .. n : j < k => g[j] < g[k]
<1> DEFINE Ahead == {d \in Nat : \A j \in 0 .. n : j + d + 1 <= n => g[j] < g[j + d + 1]}
<1>1. ASSUME NEW k \in 1 .. n
      PROVE  g[k - 1] < g[k]
  <2>1. k \in 0 .. n /\ k - 1 \in 0 .. n
    OBVIOUS
  <2>2. g[k] \in Nat /\ g[k - 1] \in Nat
    BY <2>1
  <2>3. want[k] \in Nat /\ g[k] = IF want[k] > g[k - 1] THEN want[k] ELSE g[k - 1] + 1
    BY DEF Counts
  <2> QED BY <2>2, <2>3
<1>2. 0 \in Ahead
  <2>1. ASSUME NEW j \in 0 .. n, j + 0 + 1 <= n PROVE g[j] < g[j + 0 + 1]
    <3>1. j + 1 \in 1 .. n /\ (j + 1) - 1 = j /\ j + 0 + 1 = j + 1
      BY <2>1
    <3>2. g[(j + 1) - 1] < g[j + 1]
      BY <1>1, <3>1
    <3> QED BY <3>1, <3>2
  <2> QED BY <2>1
<1>3. ASSUME NEW d \in Ahead PROVE d + 1 \in Ahead
  <2>1. ASSUME NEW j \in 0 .. n, j + (d + 1) + 1 <= n PROVE g[j] < g[j + (d + 1) + 1]
    <3>1. /\ j + d + 1 <= n /\ j + (d + 1) + 1 \in 1 .. n
          /\ (j + (d + 1) + 1) - 1 = j + d + 1 /\ j + d + 1 \in 0 .. n
      BY <2>1
    <3>2. g[j] < g[j + d + 1]
      BY <3>1
    <3>3. g[(j + (d + 1) + 1) - 1] < g[j + (d + 1) + 1]
      BY <1>1, <3>1
    <3>4. g[j + d + 1] < g[j + (d + 1) + 1]
      BY <3>1, <3>3
    <3>5. g[j] \in Nat /\ g[j + d + 1] \in Nat /\ g[j + (d + 1) + 1] \in Nat
      BY <3>1
    <3> QED BY <3>2, <3>4, <3>5
  <2> QED BY <2>1
<1>4. Ahead = Nat
  <2>1. Ahead \in SUBSET Nat
    OBVIOUS
  <2> HIDE DEF Ahead
  <2> QED BY <1>2, <1>3, <2>1, AllNat
<1>5. ASSUME NEW j \in 0 .. n, NEW k \in 0 .. n, j < k PROVE g[j] < g[k]
  <2>1. k - j - 1 \in Nat /\ j + (k - j - 1) + 1 = k /\ k <= n
    BY <1>5
  <2>2. k - j - 1 \in Ahead
    BY <1>4, <2>1
  <2>3. j + (k - j - 1) + 1 <= n => g[j] < g[j + (k - j - 1) + 1]
    BY <2>2
  <2> QED BY <2>1, <2>3
<1> QED BY <1>5

\* and are those the messages carry, if these grow.
LEMMA CountsAsWanted ==
    ASSUME NEW n \in Nat, NEW want \in [1 .. n -> Nat], NEW g \in [0 .. n -> Nat], Counts(g, n, want),
           \A k \in 1 .. n : want[k] > 0,
           \A j, k \in 1 .. n : j < k => want[j] < want[k]
    PROVE  \A k \in 1 .. n : g[k] = want[k]
<1> DEFINE Kept == {m \in Nat : m \in 1 .. n => g[m] = want[m]}
<1>1. 0 \in Kept
  OBVIOUS
<1>2. ASSUME NEW m \in Kept, m + 1 \in 1 .. n PROVE g[m + 1] = want[m + 1]
  <2>1. m \in Nat /\ (m + 1) - 1 = m /\ (m = 0 \/ m \in 1 .. n)
    BY <1>2
  <2>2. g[m] < want[m + 1]
    <3>1. CASE m = 0
      BY <1>2, <3>1 DEF Counts
    <3>2. CASE m \in 1 .. n
      BY <1>2, <2>1, <3>2
    <3> QED BY <2>1, <3>1, <3>2
  <2>3. g[m + 1] = IF want[m + 1] > g[(m + 1) - 1] THEN want[m + 1] ELSE g[(m + 1) - 1] + 1
    BY <1>2 DEF Counts
  <2>4. g[m] \in Nat /\ want[m + 1] \in Nat
    BY <1>2, <2>1
  <2> QED BY <2>1, <2>2, <2>3, <2>4
<1>3. Kept = Nat
  <2>1. Kept \in SUBSET Nat /\ \A m \in Kept : m + 1 \in Kept
    BY <1>2
  <2> HIDE DEF Kept
  <2> QED BY <1>1, <2>1, AllNat
<1>4. ASSUME NEW k \in 1 .. n PROVE g[k] = want[k]
  <2>1. k \in Nat
    OBVIOUS
  <2>2. k \in Kept
    BY <1>3, <2>1, Zenon
  <2> QED BY <1>4, <2>2, Zenon
<1> QED BY <1>4

Carried(ms) == [k \in 1 .. Cardinality(InDm(ms)) |-> ms[At(ms, k)].seq]

\* Such numbers are what assignSequenceNumbers gives out.
LEMMA NumberingCounts ==
    ASSUME NEW db, Timed(db.messages)
    PROVE  LET n == Cardinality(InDm(db.messages))
           IN  /\ n \in Nat /\ Carried(db.messages) \in [1 .. n -> Nat]
               /\ Numbering(db) \in [0 .. n -> Nat]
               /\ Counts(Numbering(db), n, Carried(db.messages))
<1> DEFINE ms == db.messages
           n == Cardinality(InDm(ms))
           want == Carried(ms)
           Fits(g) == g = [k \in 0 .. n |-> IF k = 0 THEN 0 ELSE Number(ms[At(ms, k)].seq, g[k - 1], db.lastSeq)]
<1>1. n \in Nat /\ \A k \in 1 .. n : At(ms, k) \in InDm(ms)
  BY Ranks
<1>2. want \in [1 .. n -> Nat] /\ \A k \in 1 .. n : want[k] = ms[At(ms, k)].seq
  <2>1. \A k \in 1 .. n : ms[At(ms, k)].seq \in Nat
    BY <1>1 DEF Timed, InDm
  <2> QED BY <2>1 DEF Carried
<1>3. Numbering(db) = CHOOSE g : Fits(g)
  BY DEF Numbering
<1> HIDE DEF n, want
<1>4. PICK g \in [0 .. n -> Nat] : Counts(g, n, want)
  BY <1>1, <1>2, Counted
<1>5. Fits(g)
  <2> DEFINE h == [k \in 0 .. n |-> IF k = 0 THEN 0 ELSE Number(ms[At(ms, k)].seq, g[k - 1], db.lastSeq)]
  <2>1. \A k \in 0 .. n : g[k] = h[k]
    BY <1>1, <1>2, <1>4 DEF Counts, Number
  <2>2. DOMAIN g = 0 .. n /\ g = [k \in 0 .. n |-> g[k]]
    BY <1>4
  <2>3. h = [k \in 0 .. n |-> h[k]]
    OBVIOUS
  <2> HIDE DEF h
  <2>4. g = h
    BY <2>1, <2>2, <2>3
  <2> QED BY <2>4 DEF h
<1> DEFINE f == CHOOSE h : Fits(h)
<1>6. Fits(f)
  <2> HIDE DEF Fits
  <2> QED BY <1>5
<1> HIDE DEF f
<1>7. /\ DOMAIN f = 0 .. n /\ f[0] = 0
      /\ \A k \in 1 .. n : f[k] = IF want[k] > f[k - 1] THEN want[k] ELSE f[k - 1] + 1
  <2>1. 0 \in 0 .. n /\ \A k \in 1 .. n : k \in 0 .. n /\ k # 0
    BY <1>1
  <2> QED BY <1>2, <1>6, <2>1 DEF Number
<1> HIDE DEF Fits
<1>8. Counts(f, n, want)
  BY <1>7 DEF Counts
<1>9. \A k \in 0 .. n : f[k] \in Nat
  <2> DEFINE Natural == {m \in Nat : m \in 0 .. n => f[m] \in Nat}
  <2>1. 0 \in Natural
    BY <1>7
  <2>2. ASSUME NEW m \in Natural, m + 1 \in 0 .. n PROVE f[m + 1] \in Nat
    <3>1. m + 1 \in 1 .. n /\ (m + 1) - 1 = m /\ f[m] \in Nat
      BY <1>1, <2>2
    <3> QED BY <1>2, <1>7, <3>1
  <2>3. Natural \in SUBSET Nat /\ \A m \in Natural : m + 1 \in Natural
    BY <2>2
  <2> HIDE DEF Natural
  <2>4. Natural = Nat
    BY <2>1, <2>3, AllNat
  <2> QED BY <2>4 DEF Natural
<1>10. f \in [0 .. n -> Nat]
  <2>1. f = [k \in 0 .. n |-> f[k]]
    BY <1>6 DEF Fits
  <2> QED BY <1>9, <2>1
<1>11. Numbering(db) = f
  BY <1>3 DEF f
<1> QED BY <1>1, <1>2, <1>8, <1>10, <1>11 DEF n, want

-----------------------------------------------------------------------------
(* What the operations do to numbers, times and channels. *)

Plain(db) ==
    /\ Shape(db) /\ db.dm \in BOOLEAN /\ db.lastSeq \in Nat
    /\ \A i \in DOMAIN db.messages : db.messages[i].time \in Nat /\ db.messages[i].seq \in Nat

\* No message waits for a channel that exists.
Housed(db) == db.dm => \A i \in DOMAIN db.messages : db.messages[i].channel = "dm"

\* What NumbersUnique says of memory.
Numbered(db) ==
    LET ms == db.messages
    IN  /\ \A i \in DOMAIN ms : ms[i].channel = "dm" /\ ms[i].seq \in 1 .. db.lastSeq
        /\ \A i, j \in DOMAIN ms : i # j => ms[i].seq # ms[j].seq

Past(db) == \A i \in DOMAIN db.messages : db.messages[i].time <= clock

\* What SeqKept says of a step from one database to another.
SeqsKept(old, new) ==
    \A a \in Authors(old) : SeqOf(old, a) # {0} => SeqOf(new, a) = SeqOf(old, a)

LEMMA PlainTimed ==
    ASSUME NEW db, Plain(db)
    PROVE  /\ Len(db.messages) \in Nat /\ DOMAIN db.messages = 1 .. Len(db.messages)
           /\ Timed(db.messages)
<1>1. PICK S : db.messages \in Seq(S)
  BY DEF Plain, Shape
<1>2. Len(db.messages) \in Nat /\ DOMAIN db.messages = 1 .. Len(db.messages)
  BY <1>1
<1>3. IsFiniteSet(1 .. Len(db.messages))
  <2>1. 1 \in Int /\ Len(db.messages) \in Int
    BY <1>2
  <2> QED BY ONLY <2>1, FS_Interval
<1> QED BY <1>2, <1>3 DEF Plain, Timed

\* Two databases with the same messages but for their numbers and channels.
Alike(old, new) ==
    /\ DOMAIN new.messages = DOMAIN old.messages
    /\ \A i \in DOMAIN old.messages :
          /\ new.messages[i].by = old.messages[i].by
          /\ new.messages[i].time = old.messages[i].time

LEMMA AlikeOrder ==
    ASSUME NEW old, NEW new, Alike(old, new)
    PROVE  /\ \A i, j \in DOMAIN old.messages : Before(new.messages, i, j) <=> Before(old.messages, i, j)
           /\ Authors(new) = Authors(old)
           /\ Past(old) => Past(new)
  BY DEF Alike, Before, Authors, Past

LEMMA SameNumbersKept ==
    ASSUME NEW old, NEW new, Alike(old, new),
           \A i \in DOMAIN old.messages : new.messages[i].seq = old.messages[i].seq
    PROVE  SeqsKept(old, new) /\ (InOrder(old) => InOrder(new))
<1>1. \A a : SeqOf(new, a) = SeqOf(old, a)
  BY DEF SeqOf, Alike
<1>2. InOrder(old) => InOrder(new)
  BY AlikeOrder DEF InOrder, Alike
<1> QED BY <1>1, <1>2 DEF SeqsKept

LEMMA NoNumbersKept ==
    ASSUME NEW old, NEW new, \A i \in DOMAIN old.messages : old.messages[i].seq = 0
    PROVE  SeqsKept(old, new)
<1>1. ASSUME NEW a \in Authors(old) PROVE SeqOf(old, a) = {0}
  BY <1>1 DEF SeqOf, Authors
<1> QED BY <1>1 DEF SeqsKept

LEMMA MigrateFacts ==
    ASSUME NEW db, Plain(db), NEW after, after = MigrateV1(db)
    PROVE  /\ Plain(after) /\ Housed(after) /\ InOrder(after) /\ Alike(db, after)
           /\ (\A i \in DOMAIN db.messages : db.messages[i].seq = 0) => SeqsKept(db, after)
<1> DEFINE ms == db.messages
           new(i) == [ms[i] EXCEPT !.channel = "legacy", !.seq = 0]
<1>1. Shape(after)
  BY MigratedAuthors DEF Plain
<1>2. after.messages = [i \in DOMAIN ms |-> new(i)] /\ after.dm = FALSE /\ after.lastSeq = 0
  BY DEF MigrateV1, Plain, Shape
<1>3. ASSUME NEW i \in DOMAIN ms
      PROVE  /\ after.messages[i].seq = 0 /\ after.messages[i].time = ms[i].time
             /\ after.messages[i].by = ms[i].by
  <2>1. new(i).seq = 0 /\ new(i).time = ms[i].time /\ new(i).by = ms[i].by
    BY DEF Plain, Shape
  <2>2. after.messages[i] = new(i)
    BY <1>2
  <2> HIDE DEF new
  <2> QED BY <2>1, <2>2
<1>4. DOMAIN after.messages = DOMAIN ms
  BY <1>2
<1> HIDE DEF new
<1>5. Plain(after)
  <2>1. \A i \in DOMAIN ms : ms[i].time \in Nat
    BY DEF Plain
  <2>2. \A i \in DOMAIN after.messages : after.messages[i].time \in Nat /\ after.messages[i].seq \in Nat
    BY <1>3, <1>4, <2>1
  <2>3. after.dm \in BOOLEAN
    BY <1>2, Zenon
  <2>4. after.lastSeq \in Nat
    BY <1>2
  <2> QED BY <1>1, <2>2, <2>3, <2>4 DEF Plain
<1>6. Alike(db, after) /\ InOrder(after) /\ Housed(after)
  BY <1>2, <1>3, <1>4 DEF Alike, InOrder, Housed
<1> QED BY <1>5, <1>6, NoNumbersKept

LEMMA AdoptFacts ==
    ASSUME NEW db, Plain(db), Housed(db), NEW after, after = AdoptLegacy(db)
    PROVE  /\ Plain(after) /\ Alike(db, after) /\ after.dm = TRUE
           /\ \A i \in DOMAIN db.messages :
                 after.messages[i].seq = db.messages[i].seq /\ after.messages[i].channel = "dm"
<1> DEFINE ms == db.messages
           new(i) == [ms[i] EXCEPT !.channel = "dm"]
<1>1. Shape(after)
  BY AdoptedAuthors DEF Plain
<1>2. CASE db.dm
  <2>1. after = db
    BY <1>2 DEF AdoptLegacy
  <2>2. db.dm = TRUE
    BY <1>2 DEF Plain
  <2> QED BY <1>2, <2>1, <2>2 DEF Housed, Alike
<1>3. CASE ~db.dm
  <2>1. after.messages = [i \in DOMAIN ms |-> new(i)] /\ after.dm = TRUE /\ after.lastSeq = db.lastSeq
    BY <1>3 DEF AdoptLegacy, Plain, Shape
  <2>2. ASSUME NEW i \in DOMAIN ms
        PROVE  /\ after.messages[i].seq = ms[i].seq /\ after.messages[i].time = ms[i].time
               /\ after.messages[i].by = ms[i].by /\ after.messages[i].channel = "dm"
    <3>1. /\ new(i).seq = ms[i].seq /\ new(i).time = ms[i].time /\ new(i).by = ms[i].by
          /\ new(i).channel = "dm"
      BY DEF Plain, Shape
    <3>2. after.messages[i] = new(i)
      BY <2>1
    <3> HIDE DEF new
    <3> QED BY <3>1, <3>2
  <2>3. DOMAIN after.messages = DOMAIN ms
    BY <2>1
  <2>4. Plain(after)
    BY <1>1, <2>1, <2>2, <2>3 DEF Plain
  <2> QED BY <2>1, <2>2, <2>3, <2>4 DEF Alike
<1> QED BY <1>2, <1>3

LEMMA AssignFacts ==
    ASSUME NEW db, Plain(db), \A i \in DOMAIN db.messages : db.messages[i].channel = "dm",
           NEW after, after = AssignSequenceNumbers(db)
    PROVE  /\ Plain(after) /\ Alike(db, after) /\ after.dm = db.dm
           /\ Numbered(after) /\ InOrder(after)
           /\ InOrder(db) => SeqsKept(db, after)
<1> DEFINE ms == db.messages
           n == Cardinality(InDm(ms))
           g == Numbering(db)
           want == Carried(ms)
           new(i) == IF ms[i].channel = "dm" THEN [ms[i] EXCEPT !.seq = g[Rank(ms, i)]] ELSE ms[i]
<1>1. Shape(after)
  BY NumberedAuthors DEF Plain
<1>2. Timed(ms) /\ InDm(ms) = DOMAIN ms
  BY PlainTimed DEF InDm
<1>3. n \in Nat /\ want \in [1 .. n -> Nat] /\ g \in [0 .. n -> Nat] /\ Counts(g, n, want)
  BY <1>2, NumberingCounts
<1>4. /\ after.messages = [i \in DOMAIN ms |-> new(i)] /\ after.dm = db.dm
      /\ after.lastSeq = IF g[n] > db.lastSeq THEN g[n] ELSE db.lastSeq
  BY DEF AssignSequenceNumbers, Plain, Shape
<1> HIDE DEF n, g, want
<1>5. ASSUME NEW i \in DOMAIN ms
      PROVE  /\ after.messages[i].seq = g[Rank(ms, i)] /\ after.messages[i].time = ms[i].time
             /\ after.messages[i].by = ms[i].by /\ after.messages[i].channel = "dm"
  <2>1. /\ new(i).seq = g[Rank(ms, i)] /\ new(i).time = ms[i].time /\ new(i).by = ms[i].by
        /\ new(i).channel = "dm"
    BY DEF Plain, Shape
  <2>2. after.messages[i] = new(i)
    BY <1>4
  <2> HIDE DEF new
  <2> QED BY <2>1, <2>2
<1>6. DOMAIN after.messages = DOMAIN ms
  BY <1>4
<1> HIDE DEF new
<1>7. Alike(db, after)
  BY <1>5, <1>6 DEF Alike
<1>8. /\ \A i \in DOMAIN ms : Rank(ms, i) \in 1 .. n
      /\ \A i, j \in DOMAIN ms : Before(ms, i, j) => Rank(ms, i) < Rank(ms, j)
      /\ \A i, j \in DOMAIN ms : Rank(ms, i) = Rank(ms, j) => i = j
      /\ \A k \in 1 .. n : At(ms, k) \in DOMAIN ms /\ Rank(ms, At(ms, k)) = k
      /\ \A i \in DOMAIN ms : At(ms, Rank(ms, i)) = i
  BY <1>2, Ranks DEF n
<1>9. \A j, k \in 0 .. n : j < k => g[j] < g[k]
  BY <1>3, CountsUp
<1>10. \A k \in 1 .. n : g[k] \in Nat /\ g[k] >= 1 /\ g[k] <= g[n] /\ g[n] \in Nat
  <2> SUFFICES ASSUME NEW k \in 1 .. n
               PROVE  g[k] \in Nat /\ g[k] >= 1 /\ g[k] <= g[n] /\ g[n] \in Nat
    OBVIOUS
  <2>1. 0 \in 0 .. n /\ k \in 0 .. n /\ n \in 0 .. n /\ 0 < k /\ (k = n \/ k < n)
    BY <1>3
  <2>2. g[0] \in Nat /\ g[k] \in Nat /\ g[n] \in Nat
    BY <1>3, <2>1
  <2>3. g[0] < g[k] /\ (k = n \/ g[k] < g[n])
    BY <1>9, <2>1
  <2> QED BY <2>2, <2>3
<1>11. after.lastSeq \in Nat /\ (n > 0 => g[n] <= after.lastSeq)
  <2>1. n \in 0 .. n
    BY <1>3
  <2>2. g[n] \in Nat /\ db.lastSeq \in Nat
    BY <1>3, <2>1 DEF Plain
  <2> QED BY <1>4, <2>2
<1>12. Plain(after)
  <2>1. \A i \in DOMAIN ms : ms[i].time \in Nat
    BY DEF Plain
  <2>2. \A i \in DOMAIN after.messages : after.messages[i].time \in Nat /\ after.messages[i].seq \in Nat
    BY <1>5, <1>6, <1>8, <1>10, <2>1
  <2>3. after.dm \in BOOLEAN
    BY <1>4 DEF Plain
  <2> QED BY <1>1, <1>11, <2>2, <2>3 DEF Plain
<1>13. Numbered(after)
  <2>1. ASSUME NEW i \in DOMAIN ms
        PROVE  after.messages[i].channel = "dm" /\ after.messages[i].seq \in 1 .. after.lastSeq
    <3>1. Rank(ms, i) \in 1 .. n /\ n > 0
      BY <1>3, <1>8
    <3>2. g[Rank(ms, i)] \in Nat /\ g[Rank(ms, i)] >= 1 /\ g[Rank(ms, i)] <= g[n] /\ g[n] \in Nat
      BY <1>10, <3>1
    <3> QED BY <1>5, <1>11, <3>1, <3>2
  <2>2. ASSUME NEW i \in DOMAIN ms, NEW j \in DOMAIN ms, i # j
        PROVE  after.messages[i].seq # after.messages[j].seq
    <3>1. Rank(ms, i) \in 0 .. n /\ Rank(ms, j) \in 0 .. n /\ Rank(ms, i) # Rank(ms, j)
      BY <1>3, <1>8, <2>2
    <3>2. Rank(ms, i) < Rank(ms, j) \/ Rank(ms, j) < Rank(ms, i)
      BY <1>3, <3>1
    <3>3. g[Rank(ms, i)] \in Nat /\ g[Rank(ms, j)] \in Nat
      BY <1>3, <3>1
    <3>4. g[Rank(ms, i)] # g[Rank(ms, j)]
      BY <1>9, <3>1, <3>2, <3>3
    <3> QED BY <1>5, <3>4
  <2> QED BY <1>6, <2>1, <2>2 DEF Numbered
<1>14. InOrder(after)
  <2>1. ASSUME NEW i \in DOMAIN ms, NEW j \in DOMAIN ms, Before(after.messages, i, j)
        PROVE  after.messages[i].seq < after.messages[j].seq
    <3>1. Rank(ms, i) < Rank(ms, j) /\ Rank(ms, i) \in 0 .. n /\ Rank(ms, j) \in 0 .. n
      BY <1>3, <1>7, <1>8, <2>1, AlikeOrder
    <3> QED BY <1>5, <1>9, <3>1
  <2>2. \A i \in DOMAIN ms : after.messages[i].seq > 0
    BY <1>5, <1>8, <1>10
  <2> QED BY <1>6, <2>1, <2>2 DEF InOrder
<1>15. ASSUME InOrder(db) PROVE SeqsKept(db, after)
  <2>1. CASE \A i \in DOMAIN ms : ms[i].seq = 0
    BY <2>1, NoNumbersKept
  <2>2. CASE /\ \A i \in DOMAIN ms : ms[i].seq > 0
             /\ \A i, j \in DOMAIN ms : Before(ms, i, j) => ms[i].seq < ms[j].seq
    <3>1. \A k \in 1 .. n : want[k] = ms[At(ms, k)].seq
      BY DEF want, Carried, n
    <3>2. \A k \in 1 .. n : want[k] > 0
      BY <1>8, <2>2, <3>1
    <3>3. ASSUME NEW j \in 1 .. n, NEW k \in 1 .. n, j < k PROVE want[j] < want[k]
      <4>1. /\ At(ms, j) \in DOMAIN ms /\ At(ms, k) \in DOMAIN ms
            /\ Rank(ms, At(ms, j)) = j /\ Rank(ms, At(ms, k)) = k
        BY <1>8
      <4>2. At(ms, j) # At(ms, k) /\ ~Before(ms, At(ms, k), At(ms, j))
        BY <1>3, <1>8, <3>3, <4>1
      <4>3. Before(ms, At(ms, j), At(ms, k))
        BY <1>2, <4>1, <4>2, TotalOrder
      <4> QED BY <2>2, <3>1, <4>1, <4>3
    <3>4. \A k \in 1 .. n : g[k] = want[k]
      BY <1>3, <3>2, <3>3, CountsAsWanted
    <3>5. \A i \in DOMAIN ms : after.messages[i].seq = ms[i].seq
      BY <1>5, <1>8, <3>1, <3>4
    <3> QED BY <1>7, <3>5, SameNumbersKept
  <2> QED BY <1>15, <2>1, <2>2 DEF InOrder
<1> QED BY <1>4, <1>7, <1>12, <1>13, <1>14, <1>15

LEMMA AppendFacts ==
    ASSUME NEW db, Plain(db), clock \in Nat, NEW c, NEW after, after = AppendMessage(db, c)
    PROVE  /\ Plain(after) /\ after.dm = db.dm
           /\ c \notin Authors(db) => SeqsKept(db, after)
           /\ Housed(db) => Housed(after)
           /\ Past(db) => Past(after)
           /\ Numbered(db) => Numbered(after)
           /\ Numbered(db) /\ InOrder(db) /\ Past(db) => InOrder(after)
<1> DEFINE ms == db.messages
           x == [by |-> c, time |-> clock, seq |-> db.lastSeq + 1, channel |-> "dm"]
           new == Append(ms, x)
           last == Len(ms) + 1
<1>1. Shape(after)
  BY AppendAuthors DEF Plain
<1>2. PICK S : ms \in Seq(S)
  BY DEF Plain, Shape
<1>3. after.messages = new /\ after.dm = db.dm /\ after.lastSeq = db.lastSeq + 1
  BY DEF AppendMessage, Plain, Shape
<1>4. x.by = c /\ x.time = clock /\ x.seq = db.lastSeq + 1 /\ x.channel = "dm"
  OBVIOUS
<1>5. /\ DOMAIN after.messages = DOMAIN ms \cup {last} /\ last \notin DOMAIN ms
      /\ after.messages[last] = x
      /\ \A i \in DOMAIN ms : after.messages[i] = ms[i] /\ i < last /\ i \in Nat
      /\ last \in Nat
  <2> HIDE DEF x
  <2> QED BY <1>2, <1>3
<1>6. db.lastSeq \in Nat /\ after.lastSeq \in Nat
  BY <1>3 DEF Plain
<1>7. \A i \in DOMAIN ms : ms[i].time \in Nat /\ ms[i].seq \in Nat
  BY DEF Plain
<1> HIDE DEF x, new, last, ms
<1>8. Plain(after)
  BY <1>1, <1>3, <1>4, <1>5, <1>6, <1>7 DEF Plain
<1>9. ASSUME c \notin Authors(db) PROVE SeqsKept(db, after)
  <2>1. ASSUME NEW a \in Authors(db) PROVE SeqOf(after, a) = SeqOf(db, a)
    <3>1. a # c
      BY <1>9, <2>1
    <3>2. {j \in DOMAIN after.messages : after.messages[j].by = a} = {j \in DOMAIN ms : ms[j].by = a}
      BY <1>4, <1>5, <3>1
    <3> QED BY <1>5, <3>2 DEF SeqOf, ms
  <2> QED BY <2>1 DEF SeqsKept
<1>10. Housed(db) => Housed(after)
  BY <1>3, <1>4, <1>5 DEF Housed, ms
<1>11. Past(db) => Past(after)
  BY <1>4, <1>5 DEF Past, ms
<1>12. ASSUME Numbered(db) PROVE Numbered(after)
  <2>1. \A i \in DOMAIN ms : ms[i].channel = "dm" /\ ms[i].seq \in 1 .. db.lastSeq
    BY <1>12 DEF Numbered, ms
  <2>2. \A i, j \in DOMAIN ms : i # j => ms[i].seq # ms[j].seq
    BY <1>12 DEF Numbered, ms
  <2>3. \A i \in DOMAIN after.messages :
            after.messages[i].channel = "dm" /\ after.messages[i].seq \in 1 .. after.lastSeq
    BY <1>3, <1>4, <1>5, <1>6, <2>1
  <2>4. \A i \in DOMAIN ms : ms[i].seq # x.seq
    BY <1>4, <1>6, <2>1
  <2>5. \A i, j \in DOMAIN after.messages : i # j => after.messages[i].seq # after.messages[j].seq
    BY <1>5, <2>2, <2>4
  <2> QED BY <2>3, <2>5 DEF Numbered
<1>13. ASSUME Numbered(db), InOrder(db), Past(db) PROVE InOrder(after)
  <2>1. \A i \in DOMAIN ms : ms[i].seq \in 1 .. db.lastSeq /\ ms[i].time <= clock
    BY <1>13 DEF Numbered, Past, ms
  <2>2. ASSUME NEW i \in DOMAIN ms, NEW j \in DOMAIN ms, Before(ms, i, j)
        PROVE  ms[i].seq < ms[j].seq
    <3>1. ms[i].seq # 0
      BY <1>6, <2>1
    <3> QED BY <1>13, <2>2, <3>1 DEF InOrder, ms
  <2>3. \A i \in DOMAIN after.messages : after.messages[i].seq > 0
    BY <1>4, <1>5, <1>6, <2>1
  <2>4. ASSUME NEW i \in DOMAIN after.messages, NEW j \in DOMAIN after.messages,
               Before(after.messages, i, j)
        PROVE  after.messages[i].seq < after.messages[j].seq
    <3>1. CASE i \in DOMAIN ms /\ j \in DOMAIN ms
      <4>1. Before(ms, i, j)
        BY <1>5, <2>4, <3>1 DEF Before
      <4> QED BY <1>5, <2>2, <3>1, <4>1
    <3>2. CASE i \in DOMAIN ms /\ j = last
      BY <1>4, <1>5, <1>6, <2>1, <3>2
    <3>3. CASE i = last /\ j \in DOMAIN ms
      <4>1. ms[j].time <= clock /\ ms[j].time \in Nat /\ j < last /\ j \in Nat /\ last \in Nat
        BY <1>5, <1>7, <2>1, <3>3
      <4>2. clock < ms[j].time \/ (clock = ms[j].time /\ last < j)
        BY <1>4, <1>5, <2>4, <3>3 DEF Before
      <4> QED BY <4>1, <4>2
    <3>4. CASE i = last /\ j = last
      <4>1. clock < clock \/ last < last
        BY <1>4, <1>5, <2>4, <3>4 DEF Before
      <4> QED BY <1>5, <4>1
    <3> QED BY <1>5, <3>1, <3>2, <3>3, <3>4
  <2> QED BY <2>3, <2>4 DEF InOrder
<1> QED BY <1>3, <1>8, <1>9, <1>10, <1>11, <1>12, <1>13

-----------------------------------------------------------------------------
(* Every database of the store is in order, and a step of the file keeps   *)
(* the numbers.                                                            *)

Good(db) == Plain(db) /\ Housed(db)

\* Whatever the clock does: what requests see is numbered, and what they will see.
NumberInv ==
    /\ clock \in Nat
    /\ Good(disk) /\ Good(memory) /\ Good(job.next)
    /\ phase = "up" => Numbered(memory)
    /\ phase \in {"adopting", "up"} /\ job.step # "none" => Numbered(job.next)

\* While the clock goes on: numbers follow times, and what will be renamed keeps them.
OrderInv ==
    /\ InOrder(disk) /\ InOrder(memory) /\ InOrder(job.next)
    /\ Past(disk) /\ Past(memory) /\ Past(job.next)
    /\ disk.version = 1 => \A i \in DOMAIN disk.messages : disk.messages[i].seq = 0
    /\ job.step \in {"write", "rename"} => SeqsKept(disk, job.next)

LEMMA EmptyFacts ==
    /\ Good(Empty) /\ InOrder(Empty) /\ Past(Empty) /\ Good(Absent) /\ InOrder(Absent) /\ Past(Absent)
    /\ Past(Absent)'
<1>1. /\ Empty.messages = <<>> /\ Empty.lastSeq = 0 /\ Absent.messages = <<>> /\ Absent.lastSeq = 0
  BY DEF Empty, Absent
<1>2. Empty.dm \in BOOLEAN /\ Absent.dm \in BOOLEAN
  <2>1. Empty.dm = FALSE /\ Absent.dm = FALSE
    BY DEF Empty, Absent
  <2> QED BY <2>1, Zenon
<1>3. DOMAIN Empty.messages = {} /\ DOMAIN Absent.messages = {}
  BY <1>1
<1> QED BY <1>1, <1>2, <1>3, EmptyShape DEF Good, Plain, Housed, InOrder, Past

LEMMA OldFileGood ==
    ASSUME NEW f \in OldFiles, Shape(f)
    PROVE  Good(f)
<1> DEFINE S == [by : OldAuthors, time : Nat, seq : Nat, channel : {"legacy", "dm"}]
<1>1. f.dm \in BOOLEAN /\ f.lastSeq \in Nat /\ f.messages \in Seq(S) /\ Housed(f)
  BY OldFilesAssumption DEF Housed
<1>2. \A i \in DOMAIN f.messages : f.messages[i] \in S
  <2> HIDE DEF S
  <2> QED BY <1>1, Elements
<1>3. \A i \in DOMAIN f.messages : f.messages[i].time \in Nat /\ f.messages[i].seq \in Nat
  BY <1>2
<1> QED BY <1>1, <1>3 DEF Good, Plain

\* The file as a server that starts takes it.
LEMMA ReadFileFacts ==
    ASSUME Good(disk), NEW file, file = ReadFile(disk)
    PROVE  /\ Good(file)
           /\ InOrder(disk) => InOrder(file)
           /\ Past(disk) => Past(file)
           /\ (disk.version = 0 => Authors(disk) = {})
                 /\ (disk.version = 1 => \A i \in DOMAIN disk.messages : disk.messages[i].seq = 0)
                 /\ disk.version \in {0, 1} => SeqsKept(disk, file)
<1>1. CASE disk.version = 0
  <2>1. file = Empty
    BY <1>1 DEF ReadFile
  <2> QED BY <1>1, <2>1, EmptyFacts DEF SeqsKept
<1>2. CASE disk.version = 1
  <2>1. file = MigrateV1(disk)
    BY <1>2 DEF ReadFile
  <2>2. /\ Plain(file) /\ Housed(file) /\ InOrder(file) /\ Alike(disk, file)
        /\ (\A i \in DOMAIN disk.messages : disk.messages[i].seq = 0) => SeqsKept(disk, file)
    BY <2>1, MigrateFacts DEF Good
  <2> QED BY <1>2, <2>2, AlikeOrder DEF Good
<1>3. CASE disk.version \notin {0, 1}
  <2>1. file = disk
    BY <1>3 DEF ReadFile
  <2> QED BY <1>3, <2>1
<1> QED BY <1>1, <1>2, <1>3

\* The boot's mutation: adopt, then number.
LEMMA BootFacts ==
    ASSUME NEW db, Good(db), NEW after, after = Mutation(Boot, db)
    PROVE  /\ Good(after) /\ Numbered(after) /\ InOrder(after)
           /\ Past(db) => Past(after)
           /\ InOrder(db) => SeqsKept(db, after)
<1>1. PICK mid : mid = AdoptLegacy(db)
  OBVIOUS
<1>2. after = AssignSequenceNumbers(mid)
  BY <1>1 DEF Mutation
<1>3. /\ Plain(mid) /\ Alike(db, mid)
      /\ \A i \in DOMAIN db.messages :
            mid.messages[i].seq = db.messages[i].seq /\ mid.messages[i].channel = "dm"
  BY <1>1, AdoptFacts DEF Good
<1>4. \A i \in DOMAIN mid.messages : mid.messages[i].channel = "dm"
  BY <1>3 DEF Alike
<1>5. /\ Plain(after) /\ Alike(mid, after) /\ Numbered(after) /\ InOrder(after)
      /\ InOrder(mid) => SeqsKept(mid, after)
  BY <1>2, <1>3, <1>4, AssignFacts
<1>6. Housed(after)
  BY <1>5 DEF Numbered, Housed
<1>7. Past(db) => Past(after)
  BY <1>3, <1>5, AlikeOrder
<1>8. ASSUME InOrder(db) PROVE SeqsKept(db, after)
  <2>1. SeqsKept(mid, after)
    BY <1>3, <1>5, <1>8, SameNumbersKept
  <2>2. Authors(mid) = Authors(db) /\ \A a : SeqOf(mid, a) = SeqOf(db, a)
    BY <1>3, AlikeOrder DEF Alike, SeqOf
  <2> QED BY <2>1, <2>2 DEF SeqsKept
<1> QED BY <1>5, <1>6, <1>7, <1>8 DEF Good

LEMMA InitNumbers == Init /\ IInv => NumberInv
<1> SUFFICES ASSUME Init, IInv PROVE NumberInv
  OBVIOUS
<1>1. Good(disk)
  BY OldFileGood DEF Init, IInv, Typed
<1>2. memory = Empty /\ job.next = Absent /\ phase = "down" /\ clock \in Nat
  BY StoreAssumption DEF Init, NoJob
<1> QED BY <1>1, <1>2, EmptyFacts DEF NumberInv

\* What a mutation of a request appends to.
LEMMA TakeFacts ==
    ASSUME IInv, Take
    PROVE  /\ job'.step = "write" /\ job'.next = Mutation(Head(queue), memory) /\ job.step = "none"
           /\ UNCHANGED <<disk, memory, phase, clock>> /\ disk = memory
           /\ \/ phase = "adopting" /\ Head(queue) = Boot
              \/ phase = "up" /\ Head(queue) # Boot /\ Head(queue) \notin Authors(memory)
<1>1. /\ job.step = "none" /\ queue # <<>>
      /\ job'.step = "write" /\ job'.next = Mutation(Head(queue), memory)
      /\ UNCHANGED <<disk, memory, phase, clock>>
  BY DEF Take, TakeCopy
<1>2. /\ disk = memory /\ phase \in {"adopting", "up"}
      /\ phase = "adopting" => Head(queue) = Boot
      /\ phase = "up" => Head(queue) \in Callers /\ calls[Head(queue)] = "waiting"
  BY <1>1, HeadOfQueue
<1>3. ASSUME phase = "up"
      PROVE  Head(queue) # Boot /\ Head(queue) \notin Authors(memory)
  BY <1>1, <1>2, <1>3, StoreAssumption DEF IInv, Traces
<1> QED BY <1>1, <1>2, <1>3

LEMMA TakeNumbers == IInv /\ NumberInv /\ Take => NumberInv'
<1> SUFFICES ASSUME IInv, NumberInv, Take PROVE NumberInv'
  OBVIOUS
<1>1. PICK next : next = Mutation(Head(queue), memory)
  OBVIOUS
<1>2. CASE phase = "adopting" /\ Head(queue) = Boot
  <2>1. Good(next) /\ Numbered(next)
    BY <1>1, <1>2, BootFacts DEF NumberInv
  <2> QED BY <1>1, <1>2, <2>1, TakeFacts DEF NumberInv
<1>3. CASE phase = "up" /\ Head(queue) # Boot
  <2>1. next = AppendMessage(memory, Head(queue))
    BY <1>1, <1>3 DEF Mutation
  <2>2. Good(next) /\ Numbered(next)
    BY <1>3, <2>1, AppendFacts DEF NumberInv, Good
  <2> QED BY <1>1, <1>3, <2>2, TakeFacts DEF NumberInv
<1> QED BY <1>2, <1>3, TakeFacts

LEMMA NextNumbers == IInv /\ NumberInv /\ [Next]_vars => NumberInv'
<1> SUFFICES ASSUME IInv, NumberInv, [Next]_vars PROVE NumberInv'
  OBVIOUS
<1>1. CASE BootReads
  <2>1. Good(memory') /\ disk' = disk /\ clock' = clock
    BY <1>1, ReadFileFacts DEF BootReads, NumberInv
  <2>2. CASE disk.version = 2
    <3>1. phase' = "adopting" /\ job' = NoJob
      BY <1>1, <2>2 DEF BootReads
    <3> QED BY <2>1, <3>1, NoJobFacts, EmptyFacts DEF NumberInv
  <2>3. CASE disk.version # 2
    <3>1. phase' = "creating" /\ job'.next = memory'
      BY <1>1, <2>3 DEF BootReads
    <3> QED BY <2>1, <3>1 DEF NumberInv
  <2> QED BY <2>2, <2>3
<1>2. CASE BootRefused
  BY <1>2 DEF BootRefused, NumberInv
<1>3. CASE Take
  BY <1>3, TakeNumbers
<1>4. CASE WriteFile
  <2>1. /\ job'.next = job.next /\ job.step # "none"
        /\ UNCHANGED <<disk, memory, phase, clock>>
    BY <1>4 DEF WriteFile, IInv, Typed
  <2> QED BY <2>1 DEF NumberInv
<1>5. CASE RenameFile
  <2>1. /\ job'.next = job.next /\ job.step # "none" /\ disk' = job.next
        /\ UNCHANGED <<memory, phase, clock>>
    BY <1>5 DEF RenameFile, IInv, Typed, Progress
  <2> QED BY <2>1 DEF NumberInv
<1>6. CASE Publish
  <2>1. /\ job' = NoJob /\ memory' = job.next /\ job.step = "publish" /\ UNCHANGED <<disk, clock>>
        /\ phase' = "up" => phase \in {"adopting", "up"}
    BY <1>6 DEF Publish, IInv, Typed, Turns, Phases
  <2> QED BY <2>1, NoJobFacts, EmptyFacts DEF NumberInv
<1>7. CASE PersistFails
  <2>1. /\ job' = NoJob /\ UNCHANGED <<disk, memory, clock>> /\ (phase' = "up" => phase = "up")
    BY <1>7 DEF PersistFails
  <2> QED BY <2>1, NoJobFacts, EmptyFacts DEF NumberInv
<1>8. CASE Crash
  <2>1. job' = NoJob /\ phase' = "down" /\ UNCHANGED <<disk, memory, clock>>
    BY <1>8 DEF Crash
  <2> QED BY <2>1, NoJobFacts, EmptyFacts DEF NumberInv
<1>9. CASE TakeThrows \/ \E c \in Callers : Call(c)
  BY <1>9 DEF TakeThrows, Call, NumberInv
<1>10. CASE Tick
  BY <1>10, StoreAssumption DEF Tick, NumberInv
<1>11. CASE UNCHANGED vars
  BY <1>11 DEF vars, NumberInv
<1> QED BY <1>1, <1>2, <1>3, <1>4, <1>5, <1>6, <1>7, <1>8, <1>9, <1>10, <1>11 DEF Next, ServerStep

LEMMA InitOrder == OldFilesInOrder /\ Init /\ IInv => OrderInv
<1> SUFFICES ASSUME OldFilesInOrder, Init, IInv PROVE OrderInv
  OBVIOUS
<1>1. /\ InOrder(disk) /\ Past(disk)
      /\ disk.version = 1 => \A i \in DOMAIN disk.messages : disk.messages[i].seq = 0
  BY DEF Init, OldFilesInOrder, Past
<1>2. memory = Empty /\ job.next = Absent /\ job.step = "none"
  BY DEF Init, NoJob
<1> QED BY <1>1, <1>2, EmptyFacts DEF OrderInv

LEMMA TakeOrder == IInv /\ NumberInv /\ OrderInv /\ Take => OrderInv'
<1> SUFFICES ASSUME IInv, NumberInv, OrderInv, Take PROVE OrderInv'
  OBVIOUS
<1>1. PICK next : next = Mutation(Head(queue), memory)
  OBVIOUS
<1>2. CASE phase = "adopting" /\ Head(queue) = Boot
  <2>1. InOrder(next) /\ Past(next) /\ SeqsKept(memory, next)
    BY <1>1, <1>2, BootFacts DEF NumberInv, OrderInv
  <2> QED BY <1>1, <2>1, TakeFacts DEF OrderInv, Past
<1>3. CASE phase = "up" /\ Head(queue) # Boot /\ Head(queue) \notin Authors(memory)
  <2>1. next = AppendMessage(memory, Head(queue))
    BY <1>1, <1>3 DEF Mutation
  <2>2. InOrder(next) /\ Past(next) /\ SeqsKept(memory, next)
    BY <1>3, <2>1, AppendFacts DEF NumberInv, OrderInv, Good
  <2> QED BY <1>1, <2>2, TakeFacts DEF OrderInv, Past
<1> QED BY <1>2, <1>3, TakeFacts

LEMMA NextOrder ==
    ASSUME ~StepsBack
    PROVE  IInv /\ NumberInv /\ OrderInv /\ [Next]_vars => OrderInv'
<1> SUFFICES ASSUME IInv, NumberInv, OrderInv, [Next]_vars PROVE OrderInv'
  OBVIOUS
<1>1. CASE BootReads
  <2>1. /\ InOrder(memory') /\ Past(memory') /\ disk' = disk /\ clock' = clock
        /\ disk.version \in {0, 1} => SeqsKept(disk, memory')
    BY <1>1, ReadFileFacts DEF BootReads, NumberInv, OrderInv, IInv, Typed
  <2>2. CASE disk.version = 2
    <3>1. job' = NoJob
      BY <1>1, <2>2 DEF BootReads
    <3> QED BY <2>1, <3>1, NoJobFacts, EmptyFacts DEF OrderInv, Past
  <2>3. CASE disk.version # 2
    <3>1. job'.next = memory' /\ disk.version \in {0, 1}
      BY <1>1, <2>3, ReadFileKeeps DEF BootReads
    <3> QED BY <2>1, <3>1 DEF OrderInv, Past
  <2> QED BY <2>2, <2>3
<1>2. CASE BootRefused
  BY <1>2 DEF BootRefused, OrderInv, Past
<1>3. CASE Take
  BY <1>3, TakeOrder
<1>4. CASE WriteFile
  <2>1. /\ job'.next = job.next /\ job.step = "write"
        /\ UNCHANGED <<disk, memory, clock>>
    BY <1>4 DEF WriteFile, IInv, Typed
  <2> QED BY <2>1 DEF OrderInv, Past
<1>5. CASE RenameFile
  <2>1. /\ job'.next = job.next /\ job'.step = "publish" /\ disk' = job.next /\ job.next.version = 2
        /\ UNCHANGED <<memory, clock>>
    BY <1>5 DEF RenameFile, IInv, Typed, Progress
  <2> QED BY <2>1 DEF OrderInv, Past
<1>6. CASE Publish
  <2>1. job' = NoJob /\ memory' = job.next /\ UNCHANGED <<disk, clock>>
    BY <1>6 DEF Publish
  <2> QED BY <2>1, NoJobFacts, EmptyFacts DEF OrderInv, Past
<1>7. CASE PersistFails \/ Crash
  <2>1. job' = NoJob /\ UNCHANGED <<disk, memory, clock>>
    BY <1>7 DEF PersistFails, Crash
  <2> QED BY <2>1, NoJobFacts, EmptyFacts DEF OrderInv, Past
<1>8. CASE TakeThrows \/ \E c \in Callers : Call(c)
  BY <1>8 DEF TakeThrows, Call, OrderInv, Past
<1>9. CASE Tick
  <2>1. clock' \in Nat /\ clock < clock' /\ UNCHANGED <<disk, memory, job>>
    BY <1>9, StoreAssumption DEF Tick
  <2>2. ASSUME NEW db, Plain(db), Past(db) PROVE \A i \in DOMAIN db.messages : db.messages[i].time <= clock'
    BY <2>1, <2>2 DEF Plain, Past, NumberInv
  <2>3. Past(disk)' /\ Past(memory)' /\ Past(job.next)'
    BY <2>1, <2>2 DEF OrderInv, NumberInv, Good, Past
  <2> QED BY <2>1, <2>3 DEF OrderInv
<1>10. CASE UNCHANGED vars
  BY <1>10 DEF vars, OrderInv, Past
<1> QED BY <1>1, <1>2, <1>3, <1>4, <1>5, <1>6, <1>7, <1>8, <1>9, <1>10 DEF Next, ServerStep

LEMMA NumberInvariant == Spec => []NumberInv
<1>1. Init => NumberInv
  BY InitIInv, InitNumbers
<1> QED BY <1>1, NextNumbers, StoreInvariant, PTL DEF Spec

\* What requests see has the numbers 1 up to lastSeq at most, without a duplicate,
\* whatever file the server found, and however its clock jumps.
THEOREM NumbersAreUnique == Spec => []NumbersUnique
<1>1. NumberInv => NumbersUnique
  BY DEF NumberInv, Numbered, NumbersUnique
<1> QED BY <1>1, NumberInvariant, PTL

\* A message keeps its number through restarts, failed writes and further messages, while
\* the clock goes on: assignSequenceNumbers, which runs at each start, then finds
\* every number in the order of the times it sorts by.
THEOREM NumbersAreKept ==
    ASSUME ~StepsBack, OldFilesInOrder
    PROVE  Spec => SeqKept
<1>1. Init => OrderInv
  BY InitIInv, InitOrder
<1>2. IInv /\ NumberInv /\ OrderInv /\ [Next]_vars => OrderInv'
  BY NextOrder
<1>3. IInv /\ OrderInv /\ [Next]_vars
         => [\A a \in Authors(disk) : SeqOf(disk, a) # {0} => SeqOf(disk', a) = SeqOf(disk, a)]_vars
  <2> SUFFICES ASSUME IInv, OrderInv, [Next]_vars
               PROVE  \A a \in Authors(disk) : SeqOf(disk, a) # {0} => SeqOf(disk', a) = SeqOf(disk, a)
    OBVIOUS
  <2>1. CASE disk' = disk
    BY <2>1
  <2>2. CASE disk' # disk
    BY <2>2, DiskChanges DEF OrderInv, SeqsKept, RenameFile
  <2> QED BY <2>1, <2>2
<1> QED BY <1>1, <1>2, <1>3, NumberInvariant, StoreInvariant, PTL DEF Spec, SeqKept

\* So the file keeps what it had and every number, and agrees with what callers were told.
THEOREM HistoryStaysSound ==
    ASSUME ~StepsBack, OldFilesInOrder
    PROVE  Spec => HistoryIsSound
<1>1. Spec => SeqKept
  BY NumbersAreKept
<1> QED
  BY <1>1, NumbersAreUnique, ConfirmedIsDurable, RejectedIsForgotten, ShownIsDurable, NothingIsLost, PTL
     DEF HistoryIsSound

=============================================================================
