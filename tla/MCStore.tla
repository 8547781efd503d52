------------------------------ MODULE MCStore ------------------------------
EXTENDS Store

CONSTANTS c1, c2, l1, l2, boot

LegacyMessage(by, time, channel) == [by |-> by, time |-> time, seq |-> 0, channel |-> channel]

\* A file of this program that is not new: its numbers have a gap.
NumberedFile ==
    [version |-> 2, dm |-> TRUE, lastSeq |-> 4,
     messages |-> <<[LegacyMessage(l1, 1, "dm") EXCEPT !.seq = 4],
                    [LegacyMessage(l2, 0, "dm") EXCEPT !.seq = 2]>>]

\* No file; a file of version 1; one of version 2 from before messages were
\* numbered, the older message listed last, and one with numbers; and one that is no
\* database.
AllFiles ==
    {Absent, NumberedFile} \cup
    {[version |-> v, dm |-> v = 2, lastSeq |-> 0,
      messages |-> <<LegacyMessage(l1, 1, IF v = 1 THEN "legacy" ELSE "dm"),
                     LegacyMessage(l2, t, IF v = 1 THEN "legacy" ELSE "dm")>>] :
        v \in 1 .. 3, t \in {0, 1}}

NewFile == {Absent}

\* What the proofs about numbers ask of the files.
ASSUME FilesInOrder == OldFilesInOrder
=============================================================================
