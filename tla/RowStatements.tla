---------------------------- MODULE RowStatements ----------------------------
(***************************************************************************)
(* From the values of an INSERT, UPDATE, DELETE or COPY FROM to the row of *)
(* the table: InsertAnalyser, UpdateAnalyser, DeleteAnalyser and           *)
(* CopyTableAnalyser, the physical Update operator, and the loops of       *)
(* insert_tuple and update_master that store a tuple value by value.       *)
(*                                                                         *)
(* The columns of the table are the numbers 1 to ColumnCount, in its own   *)
(* order.  Versions and branches are the subject of VersionManagement: a   *)
(* row is what its branch sees.                                            *)
(***************************************************************************)
EXTENDS Integers, SequencesExt

CONSTANTS
    ColumnCount,     \* Table::getColumnCount
    Values,          \* literals
    MaxRows,         \* bounds the rows
    MaxListed,       \* bounds the columns and the values of a statement
    MaxAssignments,  \* bounds the assignments of an UPDATE
    MaxUpdates       \* bounds the UPDATEs

ASSUME RowAssumption ==
    /\ {ColumnCount, MaxRows, MaxListed, MaxAssignments, MaxUpdates} \subseteq Nat
    /\ ColumnCount > 0
    /\ Values \subseteq Nat

VARIABLES
    rows,        \* the rows of the table, by tid
    deleted,     \* the tids that are gone
    updateCount, \* number of UPDATEs
    running,     \* no exception has left the generated code
    meant,       \* the rows as the statements name their columns
    inOrder      \* every INSERT so far had its columns in the order of the table

vars == <<rows, deleted, updateCount, running, meant, inOrder>>

Columns == 1 .. ColumnCount
Tid == 0               \* the column that every scan adds

\* Memory nobody has written: a row just reserved, or behind the end of a vector.
Undefined == -1

Lists(S, n) == UNION {[1 .. k -> S] : k \in 0 .. n}

\* The element of a vector, read without a check of the index.
valueAt(list, i) == IF i \in DOMAIN list THEN list[i] ELSE Undefined

Init ==
    /\ rows = <<>>
    /\ deleted = {}
    /\ updateCount = 0
    /\ running = TRUE
    /\ meant = <<>>
    /\ inOrder = TRUE

------------------------------------------------------------------------------
(* Storing a tuple                                                         *)

\* The loops over tuple.values: the i-th value goes to the i-th column.
Stored(row, tuple) ==
    [c \in Columns |-> IF c \in DOMAIN tuple THEN tuple[c] ELSE row[c]]

reserve_back == [c \in Columns |-> Undefined]

\* insert_tuple: a value for a column that does not exist throws in the loop.
insert_tuple(tuple) ==
    /\ rows' = Append(rows, Stored(reserve_back, tuple))
    /\ running' = (Len(tuple) <= ColumnCount)

------------------------------------------------------------------------------
(* INSERT and COPY FROM                                                    *)

\* InsertAnalyser::verify
insertRefused(columns, values) == columns = <<>> /\ Len(values) # ColumnCount

\* InsertAnalyser::constructTree: a value for every column that is listed.
insertedTuple(columns, values) ==
    LET listed == IF columns = <<>> THEN [c \in Columns |-> c] ELSE columns
    IN  [i \in DOMAIN listed |-> valueAt(values, i)]

\* The row an INSERT describes.
meantRow(columns, values) ==
    [c \in Columns |->
       IF columns = <<>> THEN values[c]
       ELSE IF c \in ToSet(columns)
            THEN valueAt(values, CHOOSE i \in DOMAIN columns : columns[i] = c)
            ELSE Undefined]

insert(columns, values) ==
    /\ running /\ Len(rows) < MaxRows
    /\ ~ insertRefused(columns, values)
    /\ insert_tuple(insertedTuple(columns, values))
    /\ meant' = Append(meant, meantRow(columns, values))
    /\ inOrder' = (inOrder /\ \A i \in DOMAIN columns : columns[i] = i)
    /\ UNCHANGED <<deleted, updateCount>>

\* CopyTableAnalyser::constructTree: items by position, whatever their number.
copyFrom(items) ==
    /\ running /\ Len(rows) < MaxRows
    /\ insert_tuple([c \in Columns |-> valueAt(items, c)])
    /\ meant' = Append(meant, [c \in Columns |-> valueAt(items, c)])
    /\ UNCHANGED <<deleted, updateCount, inOrder>>

------------------------------------------------------------------------------
(* UPDATE and DELETE                                                       *)

\* The tids a scan with the selection column = value yields: of undefined
\* memory any may match.
Selected(table, column, value, undefinedMatch) ==
    {tid \in DOMAIN table \ deleted :
        \/ table[tid][column] = value
        \/ table[tid][column] = Undefined /\ tid \in undefinedMatch}

NotUpdated == -2       \* the empty string

\* UpdateAnalyser::constructTree: every column of the scan with its new value,
\* the first that is given, in the order of the traversal.
updateIUs(order, updates) ==
    [k \in DOMAIN order |->
       LET given == {i \in DOMAIN updates : updates[i][1] = order[k]}
       IN  [column |-> order[k],
            value |-> IF given = {} THEN NotUpdated ELSE updates[Min(given)][2]]]

\* Physical::Update::Update: the columns of the table without tid.
collected(pairs) == {pairs[k] : k \in {k \in DOMAIN pairs : pairs[k].column # Tid}}

updatedColumns_unsorted(pairs) == SelectSeq(pairs, LAMBDA p : p.column # Tid)

\* Physical::Update::consume: the columns that were collected, sorted by
\* sortColumns.
updatedColumns(pairs) ==
    CHOOSE list \in Lists(collected(pairs), Len(pairs)) :
        /\ ToSet(list) = collected(pairs)
        /\ \A i, j \in DOMAIN list : i < j => list[i].column < list[j].column

\* Physical::Update::consume: the new value, or else the one that was scanned.
updatedTuple(pairs, row) ==
    LET columns == updatedColumns(pairs)
    IN  [k \in DOMAIN columns |->
           IF columns[k].value # NotUpdated THEN columns[k].value
           ELSE row[columns[k].column]]

meantUpdate(row, updates) ==
    [c \in Columns |->
       LET given == {i \in DOMAIN updates : updates[i][1] = c}
       IN  IF given = {} THEN row[c] ELSE updates[Min(given)][2]]

update(updates, column, value, undefinedMatch, order) ==
    /\ running /\ updateCount < MaxUpdates
    /\ LET matched == Selected(rows, column, value, undefinedMatch)
       IN  rows' = [tid \in DOMAIN rows |->
                      IF tid \in matched
                      THEN Stored(rows[tid], updatedTuple(updateIUs(order, updates), rows[tid]))
                      ELSE rows[tid]]
    /\ LET matched == Selected(meant, column, value, undefinedMatch)
       IN  meant' = [tid \in DOMAIN meant |->
                       IF tid \in matched THEN meantUpdate(meant[tid], updates)
                       ELSE meant[tid]]
    /\ updateCount' = updateCount + 1
    /\ UNCHANGED <<deleted, running, inOrder>>

\* The tid is the first column of that name, and the only one.
delete(column, value, undefinedMatch) ==
    /\ running
    /\ deleted' = deleted \cup Selected(rows, column, value, undefinedMatch)
    /\ UNCHANGED <<rows, updateCount, running, meant, inOrder>>

------------------------------------------------------------------------------
\* The ius map of the scan yields every column and tid once, in any order.
TraversalOrders == Bijection(1 .. ColumnCount + 1, Columns \cup {Tid})

Next ==
    \/ \E columns \in Lists(Columns, MaxListed),
          values \in Lists(Values, MaxListed) \ {<<>>} : insert(columns, values)
    \/ \E items \in Lists(Values, MaxListed) : copyFrom(items)
    \/ \E updates \in Lists(Columns \X Values, MaxAssignments) \ {<<>>},
          column \in Columns, value \in Values,
          undefinedMatch \in SUBSET DOMAIN rows, order \in TraversalOrders :
             update(updates, column, value, undefinedMatch, order)
    \/ \E column \in Columns, value \in Values,
          undefinedMatch \in SUBSET DOMAIN rows :
             delete(column, value, undefinedMatch)

Spec == Init /\ [][Next]_vars

------------------------------------------------------------------------------
(* Properties                                                              *)

\* As long as every INSERT lists its columns in the order of the table, the rows
\* are what the statements say: an UPDATE puts every value into the column it is
\* for and leaves the others as they were, whatever the order in which the
\* columns of the scan are traversed.
OrderedStatementsMeanWhatTheySay ==
    (inOrder /\ running) => rows = meant
==============================================================================
