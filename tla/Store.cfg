SPECIFICATION FairSpec
CONSTANTS
    c1 = c1
    c2 = c2
    l1 = l1
    l2 = l2
    boot = boot
    Callers = {c1, c2}
    Boot = boot
    OldAuthors = {l1, l2}
    OldFiles <- AllFiles
    Times = {1, 2}
    StepsBack = FALSE
PROPERTIES HistoryIsSound EveryMutationEnds AtomicSpec
CHECK_DEADLOCK FALSE
