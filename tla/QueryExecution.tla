--------------------------- MODULE QueryExecution ---------------------------
(***************************************************************************)
(* The execution of a compiled query: two scans, a selection, a hash join  *)
(* and a grouping, one nested loop of generated code in which every        *)
(* operator hands its tuples to its parent (produce and consume of         *)
(* src/algebra/physical).  A process executes one query after the other.   *)
(***************************************************************************)
EXTENDS GroupBy, Walks

execVars == <<joinVars, groupVars>>

ExecInit == JoinInit /\ GroupInit

Running == ended = "no"

startQuery == produce /\ createGroups

JoinOnly ==
    /\ \/ addRow \/ removeRow \/ assertFails
       \/ skipLeft \/ consumeLeft \/ createTable \/ build
       \/ startProbe \/ consumeRight \/ lookupStep \/ lookupDone \/ probeMiss
    /\ UNCHANGED groupVars

(* probeCandidate merges both sides and the group consumes the result *)
groupMatch ==
    \E l \in LeftRows, r \in RightRows :
        /\ probeMatch([build |-> l, probe |-> r])
        /\ consume(l @@ r)

finishQuery == cleanup /\ passGroups

(* a division by zero returns from the query, without the cleanup *)
nextQuery ==
    /\ phase = "done" \/ ended = "return"
    /\ phase' = "load" /\ ended' = "no"
    /\ header' = NoHeader /\ node' = <<>> /\ table' = <<>>
    /\ memoryPool' = MemoryPool /\ index' = 0 /\ current' = NULL
    /\ UNCHANGED <<left, right, rows, aggregations, hashTable, singleGroup, overflowed, results>>

ExecNext ==
    \/ Running /\ (startQuery \/ JoinOnly \/ groupMatch \/ finishQuery)
    \/ nextQuery

ExecSpec == ExecInit /\ [][ExecNext]_execVars

-----------------------------------------------------------------------------
(***************************************************************************)
(* A column holds the rows added to it and not removed, in order, whatever *)
(* the vector did to its memory (Vector::reserve_back, pop_back and        *)
(* remove_at).                                                             *)
(***************************************************************************)
Holds(v, s) ==
    /\ v.count = Len(s) /\ v.count <= v.capacity
    /\ \A i \in 1..v.count : v.array[i] = s[i]

ColumnsHoldTheRows == Holds(left, rows.left) /\ Holds(right, rows.right)

(* the pointers at which chains of nodes start, by the number of the bucket *)
ListHead == -1
Heads ==
    [h \in DOMAIN table \cup {ListHead} |->
        IF h # ListHead THEN table[h]
        ELSE IF phase = "build" THEN header.next
        ELSE IF phase = "insert" THEN current
        ELSE NULL]

(* the field that links the nodes, and the pointers met on the way along it *)
NextField == [a \in DOMAIN node \cup {NULL} |-> IF a = NULL THEN NULL ELSE node[a].next]
Chain(h) == Walk(NextField, Heads[h])

Scanned == IF phase = "build" THEN index - 1 ELSE left.count

(***************************************************************************)
(* While the list of build tuples grows and is torn into buckets, every    *)
(* selected row is in exactly one node, every node is reached exactly once *)
(* from the list or from the bucket of its hash code, and the header       *)
(* counts them (genAppendEntryToList, StaticHashtable::build).             *)
(***************************************************************************)
EveryBuildRowInOneList ==
    phase \in {"build", "insert", "probe", "lookup", "candidates"} =>
        LET steps == 0..Cardinality(DOMAIN node)
        IN  /\ \A h \in DOMAIN Heads, n \in steps : Chain(h)[n] \in DOMAIN node \cup {NULL}
            /\ \A a \in DOMAIN node : \E h \in DOMAIN Heads, n \in steps :
                   /\ h # ListHead => h = bucketOf(node[a].hash)
                   /\ \A g \in DOMAIN Heads, m \in steps :
                          Chain(g)[m] = a <=> g = h /\ m = n
            /\ header.len = Cardinality(DOMAIN node)
            /\ \A row \in LeftRows :
                   Cardinality({a \in DOMAIN node : node[a].tuple = row})
                   = Cardinality({i \in 1..Scanned : rows.left[i] = row /\ Selected(row)})

(***************************************************************************)
(* The memory pool gives the header and every node bytes of their own,     *)
(* inside one of its blocks (MemoryPool::malloc, createNewBlock).          *)
(***************************************************************************)
Pieces == {[from |-> a, to |-> a + NodeSize - 1] : a \in DOMAIN node}
          \cup {[from |-> header.addr, to |-> header.addr + HeaderSize - 1]}

NodesKeepTheirMemory ==
    header.addr # NULL =>
        /\ \A p, q \in Pieces : p = q \/ p.to < q.from \/ q.to < p.from
        /\ \A p \in Pieces : \E i \in DOMAIN memoryPool.blocks :
               LET b == memoryPool.blocks[i]
               IN  b.start <= p.from /\ p.to < b.start + b.size
=============================================================================
