SPECIFICATION Spec
CONSTANTS
    Threads = {t1, t2}
    Nodes = {n1, n2}
    MaxWord = 10
    MaxWrites = 2
INVARIANTS
    ValidatedReadIsCurrent
    OneHolder
    UpgradedReadIsCurrent
PROPERTIES
    ObsoleteIsFinal
CHECK_DEADLOCK FALSE
