------------------------------ MODULE Catalog -------------------------------
(***************************************************************************)
(* The catalog of a Database (foundations/Database.cpp): its branches, its *)
(* tables, and the branch bitmap of every table, as CREATE TABLE, CREATE   *)
(* BRANCH, INSERT and DELETE statements change them.                       *)
(*                                                                         *)
(* A bitmap row has room for _availableCount bits, eight in the code, and  *)
(* BitmapTable::resize is not implemented: it throws in the middle of the  *)
(* statement, and what the statement did so far stays.                     *)
(***************************************************************************)
EXTENDS Naturals, Sequences

CONSTANTS TableNames,
          availableCount,   \* BitmapTable::_availableCount
          MaxBranches,      \* bounds the branches ever created
          MaxInserts,       \* bounds the rows of a table
          MaxFailures       \* bounds the statements resize() makes fail

ASSUME LimitsAssumption == /\ availableCount \in Nat \ {0}
                           /\ MaxBranches \in Nat \ {0}
                           /\ MaxInserts \in Nat
                           /\ MaxFailures \in Nat

VARIABLES
    next_branch_id,   \* Database::_next_branch_id
    parent_id,        \* Branch::parent_id of every branch, master excepted
    tables,           \* Database::_tables: the bitmap of every table and
                      \* whether its columns were added
    failures          \* the number of statements that failed so far

catalogVars == <<next_branch_id, parent_id, tables, failures>>

------------------------------------------------------------------------------
master_branch_id == 0
Branches == 0 .. next_branch_id - 1

\* A table without rows.
Table(columnCount, hasColumns) ==
    [columnCount |-> columnCount, rows |-> <<>>, hasColumns |-> hasColumns]

CatalogInit ==
    /\ next_branch_id = 1
    /\ parent_id = <<>>
    /\ tables = <<>>
    /\ failures = 0

resizeRequired_one_late(table) == table.columnCount > availableCount

\* BitmapTable::addColumn and cloneColumn need a resize for one more column.
resizeRequired(table) == table.columnCount + 1 > availableCount

columnCounted(table) == [table EXCEPT !.columnCount = @ + 1]

clonedBits_shifted(bits, table, original) ==
    IF original \in bits THEN bits \cup {table.columnCount - 1} ELSE bits

\* The new column is the last one, and copies the original in every row.
clonedBits(bits, table, original) ==
    IF original \in bits THEN bits \cup {table.columnCount} ELSE bits

cloneColumn(table, original) ==
    [columnCounted(table) EXCEPT
        !.rows = [i \in DOMAIN table.rows |->
                     clonedBits(table.rows[i], table, original)]]

resizeThrows_after_copy(table, original) == cloneColumn(table, original)

\* They count the column before they resize, so it stays counted.
resizeThrows(table, original) == columnCounted(table)

emplace(name, table) ==
    tables' = [n \in DOMAIN tables \cup {name} |->
                  IF n = name THEN table ELSE tables[n]]

\* The rounds of the loop in Database::createTable.
missingColumns == next_branch_id - 1

\* Database::createTable registers the table, whose constructor adds the bitmap
\* column of master, then adds those of the other branches, and
\* CreateTableAnalyser adds the SQL columns.
createTable(name) ==
    /\ name \notin DOMAIN tables
    /\ 1 + missingColumns <= availableCount
    /\ emplace(name, Table(1 + missingColumns, TRUE))
    /\ UNCHANGED <<next_branch_id, parent_id, failures>>

\* If a bitmap column does not fit, the table stays, without SQL columns.
createTable_fails(name) ==
    /\ failures < MaxFailures
    /\ name \notin DOMAIN tables
    /\ 1 + missingColumns > availableCount
    /\ emplace(name, Table(availableCount + 1, FALSE))
    /\ failures' = failures + 1
    /\ UNCHANGED <<next_branch_id, parent_id>>

createBranch(parent) ==
    /\ next_branch_id < MaxBranches
    /\ \A name \in DOMAIN tables : ~ resizeRequired(tables[name])
    /\ tables' = [name \in DOMAIN tables |-> cloneColumn(tables[name], parent)]
    /\ next_branch_id' = next_branch_id + 1
    /\ parent_id' = Append(parent_id, parent)
    /\ UNCHANGED failures

\* The tables are visited in the order of an unordered map: some have cloned
\* their column when a table throws.
createBranch_fails(parent, throwing, before) ==
    /\ failures < MaxFailures
    /\ resizeRequired(tables[throwing])
    /\ throwing \notin before
    /\ \A name \in before : ~ resizeRequired(tables[name])
    /\ tables' = [name \in DOMAIN tables |->
                     CASE name = throwing -> resizeThrows(tables[name], parent)
                       [] name \in before -> cloneColumn(tables[name], parent)
                       [] OTHER -> tables[name]]
    /\ failures' = failures + 1
    /\ UNCHANGED <<next_branch_id, parent_id>>

\* Table::addRow, for an INSERT into a table that has SQL columns.
addRow(name, branch) ==
    /\ tables[name].hasColumns
    /\ Len(tables[name].rows) < MaxInserts
    /\ tables' = [tables EXCEPT ![name].rows = Append(@, {branch})]
    /\ UNCHANGED <<next_branch_id, parent_id, failures>>

removeRowForBranch(name, tid, branch) ==
    /\ tables' = [tables EXCEPT ![name].rows[tid] = @ \ {branch}]
    /\ UNCHANGED <<next_branch_id, parent_id, failures>>

CatalogNext ==
    \/ \E name \in TableNames : createTable(name) \/ createTable_fails(name)
    \/ \E parent \in Branches :
          \/ createBranch(parent)
          \/ \E throwing \in DOMAIN tables :
                \E before \in SUBSET DOMAIN tables :
                    createBranch_fails(parent, throwing, before)
    \/ \E name \in DOMAIN tables, branch \in Branches :
          \/ addRow(name, branch)
          \/ \E tid \in DOMAIN tables[name].rows :
                removeRowForBranch(name, tid, branch)

CatalogSpec == CatalogInit /\ [][CatalogNext]_catalogVars

------------------------------------------------------------------------------
(* Properties                                                              *)

\* The branches form a tree below master, and a bitmap has bits only in the
\* columns it counts.
CatalogTypeOK ==
    /\ next_branch_id \in 1 .. MaxBranches
    /\ parent_id \in Seq(Branches) /\ Len(parent_id) = next_branch_id - 1
    /\ \A b \in DOMAIN parent_id : parent_id[b] < b
    /\ DOMAIN tables \subseteq TableNames
    /\ tables \in [DOMAIN tables -> [columnCount : Nat, hasColumns : BOOLEAN,
                                     rows : Seq(SUBSET Nat)]]
    /\ \A name \in DOMAIN tables : \A tid \in DOMAIN tables[name].rows :
          tables[name].rows[tid] \subseteq 0 .. tables[name].columnCount - 1
    /\ failures \in 0 .. MaxFailures

\* Every branch has a bit of its own in the rows of every table that can hold
\* rows: BitmapTable::set and isSet, and the code isSet_gen generates, compute
\* the byte of a branch without a bounds check, and stay inside the row.
BranchBitInsideRow ==
    \A name \in DOMAIN tables :
        tables[name].hasColumns =>
            /\ next_branch_id <= availableCount
            /\ next_branch_id <= tables[name].columnCount

\* All tables reach the limit together: either a table has no room for a
\* further branch, and then no table has, or the column it would clone for the
\* branch is the one whose number is the id the branch would get.
NextColumnIsNextBranch ==
    \A name \in DOMAIN tables :
        IF resizeRequired(tables[name])
        THEN next_branch_id >= availableCount
        ELSE tables[name].columnCount = next_branch_id

CatalogInv == CatalogTypeOK /\ BranchBitInsideRow /\ NextColumnIsNextBranch

\* A statement that fails leaves every row of every table as it was, whichever
\* table the failing createBranch visits first: no table has cloned a column
\* for a branch that does not exist.
FailureKeepsRows ==
    [][failures' # failures =>
          /\ next_branch_id' = next_branch_id
          /\ \A name \in DOMAIN tables :
                /\ tables'[name].rows = tables[name].rows
                /\ tables'[name].columnCount # tables[name].columnCount =>
                       tables[name].columnCount >= availableCount
      ]_catalogVars

\* A new branch starts with the rows of its parent, in every table.
BranchStartsAsParent ==
    [][\A parent \in Branches :
          parent_id' = Append(parent_id, parent) =>
              \A name \in DOMAIN tables : \A tid \in DOMAIN tables[name].rows :
                  (next_branch_id \in tables'[name].rows[tid])
                      <=> (parent \in tables[name].rows[tid])
      ]_catalogVars
==============================================================================
