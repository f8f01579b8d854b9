------------------------------ MODULE HashJoin ------------------------------
(***************************************************************************)
(* A hash join of two scanned tables                                       *)
(* (src/algebra/physical/HashJoin.cpp, src/foundations/StaticHashtable.cpp)*)
(* as the compiled query executes it.  The left rows are copied into a     *)
(* linked list in a memory pool (build); the list is torn into the buckets *)
(* of a table whose size follows from the length of the list; every right  *)
(* row looks up its bucket and meets the candidates in it (probe).  A      *)
(* Select stands between the scan of the left table and the join.          *)
(*                                                                         *)
(* A row is a record of SQL values, with the join attribute in `key`.      *)
(* Rows are removed in place, as in a build without data versioning (the   *)
(* visibility of rows in branches is the subject of Catalog and            *)
(* VersionManagement).                                                     *)
(***************************************************************************)
EXTENDS SqlOperators, Containers

CONSTANTS
    LeftRows, RightRows,    \* rows the tables may hold
    MaxLeft, MaxRight,      \* bounds on the number of rows of a table
    Predicate,              \* the expression of the Select
    Evaluate(_, _),         \* result of an expression for a row
    Hash(_),                \* hash code of a value; equal values share it
    HeaderSize, NodeSize    \* bytes of a list header and of a list node

ASSUME JoinAssumption ==
    /\ \A row \in LeftRows \cup RightRows : Hash(row.key) \in Nat
    /\ HeaderSize \in Nat \ {0} /\ NodeSize \in Nat \ {0}

NULL == 0                   \* addresses are positive

VARIABLES
    left, right,        \* the tables' columns, as vectors of rows
    rows,               \* the rows each table should hold, in order
    phase,              \* where the execution of the query is
    memoryPool,         \* the pool of the join
    header,             \* ListHeader: next, last, len, and its own address
    node,               \* list nodes by address: next, hash code, tuple
    table,              \* StaticHashtable: bucket -> first node
    index,              \* position of the scan that is running
    current             \* node the running loop has reached

joinVars == <<left, right, rows, phase, memoryPool, header, node, table, index, current>>

NoHeader == [addr |-> NULL, next |-> NULL, last |-> NULL, len |-> 0]

JoinInit ==
    /\ left = Vector /\ right = Vector
    /\ rows = [left |-> <<>>, right |-> <<>>]
    /\ phase = "load"
    /\ memoryPool = MemoryPool
    /\ header = NoHeader
    /\ node = <<>> /\ table = <<>>
    /\ index = 0 /\ current = NULL

-----------------------------------------------------------------------------
(* Rows are added to and removed from the tables before the query starts *)

addRow ==
    /\ phase = "load"
    /\ \/ \E row \in LeftRows :
              /\ Len(rows.left) < MaxLeft
              /\ left' = push_back(left, row)
              /\ rows' = [rows EXCEPT !.left = Append(@, row)]
              /\ UNCHANGED right
       \/ \E row \in RightRows :
              /\ Len(rows.right) < MaxRight
              /\ right' = push_back(right, row)
              /\ rows' = [rows EXCEPT !.right = Append(@, row)]
              /\ UNCHANGED left
    /\ UNCHANGED <<phase, memoryPool, header, node, table, index, current>>

removeRow ==
    /\ phase = "load"
    /\ \E tid \in 1..left.count :
           /\ left' = remove_at(left, tid)
           /\ rows' = [rows EXCEPT !.left = RemoveAt(@, tid)]
    /\ UNCHANGED <<right, phase, memoryPool, header, node, table, index, current>>

-----------------------------------------------------------------------------
(***************************************************************************)
(* A scan generates no code for a table that is empty when the query is    *)
(* compiled.  The join learns the type of its list nodes (listNodeTy) from *)
(* the code generated for its left side, and its right side asserts that   *)
(* it is known.                                                            *)
(***************************************************************************)
NodeTypeUnknown == left.count = 0 /\ right.count > 0

assertFails ==
    /\ phase = "load" /\ NodeTypeUnknown
    /\ phase' = "aborted"
    /\ UNCHANGED <<left, right, rows, memoryPool, header, node, table, index, current>>

(***************************************************************************)
(* produce: the list header is allocated; its own address is the last      *)
(* element of the empty list, so that appending needs no case distinction. *)
(***************************************************************************)
produce ==
    /\ phase = "load" /\ ~NodeTypeUnknown
    /\ memoryPool' = malloc(MemoryPool, HeaderSize)
    /\ LET addr == Allocated(memoryPool', HeaderSize)
       IN  header' = [addr |-> addr, next |-> NULL, last |-> addr, len |-> 0]
    /\ node' = <<>> /\ table' = <<>>
    /\ phase' = "build" /\ index' = 1
    /\ UNCHANGED <<left, right, rows, current>>

(* Select: the rows for which the predicate is true are passed on *)
Selected(row) == isTrue(Evaluate(Predicate, row).v)

skipLeft ==
    /\ phase = "build" /\ index <= left.count /\ ~Selected(at(left, index))
    /\ index' = index + 1
    /\ UNCHANGED <<left, right, rows, phase, memoryPool, header, node, table, current>>

(***************************************************************************)
(* consumeLeft: a node is allocated and linked behind the last one.  The   *)
(* store through `last` writes the first field of a node or of the header. *)
(***************************************************************************)
consumeLeft ==
    /\ phase = "build" /\ index <= left.count /\ Selected(at(left, index))
    /\ memoryPool' = malloc(memoryPool, NodeSize)
    /\ LET addr == Allocated(memoryPool', NodeSize)
           tuple == at(left, index)
           new == [next |-> NULL, hash |-> Hash(tuple.key), tuple |-> tuple]
       IN  /\ header' = [header EXCEPT !.next = IF header.last = header.addr THEN addr ELSE @,
                                       !.last = addr, !.len = @ + 1]
           /\ node' = [a \in DOMAIN node \cup {addr} |->
                          IF a = addr THEN new
                          ELSE IF a = header.last THEN [node[a] EXCEPT !.next = addr]
                          ELSE node[a]]
    /\ index' = index + 1
    /\ UNCHANGED <<left, right, rows, phase, table, current>>

(***************************************************************************)
(* StaticHashtable: 2^p buckets, with the least p for which the table is   *)
(* filled to three quarters at most.  For an empty list the code takes the *)
(* logarithm of zero and shifts by the converted infinity; the machines    *)
(* the build targets shift by zero then.                                   *)
(***************************************************************************)
tableSize(len) ==
    powerOfTwo[CHOOSE p \in 0..(len + 1) :
                   /\ 3 * powerOfTwo[p] >= 4 * len
                   /\ \A q \in 0..(p - 1) : 3 * powerOfTwo[q] < 4 * len]

createTable ==
    /\ phase = "build" /\ index > left.count
    /\ table' = [b \in 0..(tableSize(header.len) - 1) |-> NULL]
    /\ current' = header.next
    /\ phase' = "insert"
    /\ UNCHANGED <<left, right, rows, memoryPool, header, node, index>>

bucketOf(h) == h % Cardinality(DOMAIN table)

buildDropsBucket ==
    /\ phase = "insert" /\ current # NULL
    /\ node' = [node EXCEPT ![current].next = NULL]
    /\ table' = [table EXCEPT ![bucketOf(node[current].hash)] = current]
    /\ current' = node[current].next
    /\ UNCHANGED <<left, right, rows, phase, memoryPool, header, index>>

(* build: one node is moved from the list to the front of its bucket *)
build ==
    /\ phase = "insert" /\ current # NULL
    /\ LET b == bucketOf(node[current].hash)
       IN  /\ node' = [node EXCEPT ![current].next = table[b]]
           /\ table' = [table EXCEPT ![b] = current]
    /\ current' = node[current].next
    /\ UNCHANGED <<left, right, rows, phase, memoryPool, header, index>>

startProbe ==
    /\ phase = "insert" /\ current = NULL
    /\ phase' = "probe" /\ index' = 1
    /\ UNCHANGED <<left, right, rows, memoryPool, header, node, table, current>>

-----------------------------------------------------------------------------
probeRow == at(right, index)
probeHash == Hash(probeRow.key)

(* consumeRight: the lookup starts at the head of the bucket *)
consumeRight ==
    /\ phase = "probe" /\ index <= right.count
    /\ current' = table[bucketOf(probeHash)]
    /\ phase' = "lookup"
    /\ UNCHANGED <<left, right, rows, memoryPool, header, node, table, index>>

(* lookup: walk to the first node with the hash code *)
lookupStep ==
    /\ phase = "lookup" /\ current # NULL /\ node[current].hash # probeHash
    /\ current' = node[current].next
    /\ UNCHANGED <<left, right, rows, phase, memoryPool, header, node, table, index>>

lookupDone ==
    /\ phase = "lookup"
    /\ \/ current = NULL /\ phase' = "probe" /\ index' = index + 1
       \/ current # NULL /\ node[current].hash = probeHash /\ phase' = "candidates"
          /\ UNCHANGED index
    /\ UNCHANGED <<left, right, rows, memoryPool, header, node, table, current>>

probeByHashOnly == node[current].hash = probeHash

(* the candidate's hash code and join attribute are those of the probing row *)
probeCandidate ==
    /\ node[current].hash = probeHash
    /\ equals(node[current].tuple.key, probeRow.key, <<>>).v

(* the loop over the rest of the bucket goes on, or ends at its last node *)
loopDone ==
    /\ current' = node[current].next
    /\ IF node[current].next = NULL
       THEN phase' = "probe" /\ index' = index + 1
       ELSE UNCHANGED <<phase, index>>
    /\ UNCHANGED <<left, right, rows, memoryPool, header, node, table>>

(* a match hands the merged tuple to the parent operator *)
probeMatch(tuple) ==
    /\ phase = "candidates" /\ probeCandidate
    /\ tuple = [build |-> node[current].tuple, probe |-> probeRow]
    /\ loopDone

probeMiss ==
    /\ phase = "candidates" /\ ~probeCandidate
    /\ loopDone

(* the table and the pool, with all nodes, are freed *)
cleanup ==
    /\ phase = "probe" /\ index > right.count
    /\ phase' = "done"
    /\ memoryPool' = MemoryPool /\ header' = NoHeader
    /\ node' = <<>> /\ table' = <<>>
    /\ index' = 0 /\ current' = NULL
    /\ UNCHANGED <<left, right, rows>>
=============================================================================
