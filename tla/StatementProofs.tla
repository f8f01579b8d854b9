-------------------------- MODULE StatementProofs ---------------------------
(***************************************************************************)
(* Proofs about what statements leave behind.                              *)
(*                                                                         *)
(* Catalog: every branch stays inside the bitmap rows, for any number of   *)
(* tables and branches and any width of a row.                             *)
(*                                                                         *)
(* RowStatements: for any number of columns, rows, values and assignments, *)
(* and every order in which the columns of a scan may be traversed, a      *)
(* table is what the statements say as long as INSERTs list their columns  *)
(* in order.                                                               *)
(*                                                                         *)
(* ColumnValues: for any width of the numbers and any generated operands,  *)
(* what an expression computes is exact, or an overflow is flagged, and it *)
(* is a null where an operand is one.                                      *)
(***************************************************************************)
EXTENDS Catalog, RowStatements, ColumnValues, Lemmas, TLAPS

------------------------------------------------------------------------------
(* Catalog                                                                 *)


Tables == [columnCount : Nat, hasColumns : BOOLEAN, rows : Seq(SUBSET Nat)]

BitsCounted(table) ==
    \A tid \in DOMAIN table.rows :
        table.rows[tid] \subseteq 0 .. table.columnCount - 1

\* Cloning a column yields a table again, with one more column and the bits
\* inside the columns it counts.
LEMMA CloneTypes ==
    ASSUME NEW table \in Tables, NEW original, BitsCounted(table)
    PROVE  /\ cloneColumn(table, original) \in Tables
           /\ BitsCounted(cloneColumn(table, original))
           /\ cloneColumn(table, original).columnCount = table.columnCount + 1
           /\ cloneColumn(table, original).hasColumns = table.hasColumns
<1> DEFINE bitmap == [i \in DOMAIN table.rows |->
                       clonedBits(table.rows[i], table, original)]
<1>1. table.rows \in Seq(SUBSET Nat) /\ table.columnCount \in Nat
           /\ table.hasColumns \in BOOLEAN
    BY DEF Tables
<1>2. \A i \in DOMAIN table.rows :
          clonedBits(table.rows[i], table, original) \in SUBSET Nat
    BY <1>1 DEF clonedBits
<1>3. bitmap \in Seq(SUBSET Nat)
  <2>1. Len(table.rows) \in Nat /\ DOMAIN table.rows = 1 .. Len(table.rows)
      BY <1>1
  <2> QED  BY <2>1, <1>2
<1>4. cloneColumn(table, original)
         = [columnCount |-> table.columnCount + 1,
            hasColumns |-> table.hasColumns, rows |-> bitmap]
  <2>1. columnCounted(table)
           = [columnCount |-> table.columnCount + 1,
              hasColumns |-> table.hasColumns, rows |-> table.rows]
      BY DEF columnCounted, Tables
  <2>2. cloneColumn(table, original) = [columnCounted(table) EXCEPT !.rows = bitmap]
      BY DEF cloneColumn
  <2> HIDE DEF bitmap
  <2> QED  BY <2>1, <2>2
<1> HIDE DEF bitmap
<1>5. cloneColumn(table, original) \in Tables
    BY <1>1, <1>3, <1>4 DEF Tables
<1>6. BitsCounted(cloneColumn(table, original))
  <2> SUFFICES ASSUME NEW tid \in DOMAIN table.rows
               PROVE  bitmap[tid] \subseteq 0 .. table.columnCount
    <3>1. (table.columnCount + 1) - 1 = table.columnCount
        BY <1>1
    <3>2. DOMAIN bitmap = DOMAIN table.rows
        BY DEF bitmap
    <3> QED  BY <1>4, <3>1, <3>2 DEF BitsCounted
  <2>1. table.rows[tid] \subseteq 0 .. table.columnCount - 1
      BY DEF BitsCounted
  <2>2. bitmap[tid] = clonedBits(table.rows[tid], table, original)
      BY DEF bitmap
  <2> QED  BY <1>1, <2>1, <2>2 DEF clonedBits
<1> QED  BY <1>4, <1>5, <1>6

\* The bits of a row after a column has been cloned.
LEMMA CloneRows ==
    ASSUME NEW table \in Tables, NEW original, NEW tid \in DOMAIN table.rows
    PROVE  cloneColumn(table, original).rows[tid]
              = clonedBits(table.rows[tid], table, original)
<1> DEFINE bitmap == [i \in DOMAIN table.rows |->
                       clonedBits(table.rows[i], table, original)]
<1>1. columnCounted(table)
         = [columnCount |-> table.columnCount + 1,
            hasColumns |-> table.hasColumns, rows |-> table.rows]
    BY DEF columnCounted, Tables
<1>2. cloneColumn(table, original) = [columnCounted(table) EXCEPT !.rows = bitmap]
    BY DEF cloneColumn
<1> HIDE DEF bitmap
<1>3. cloneColumn(table, original).rows = bitmap
    BY <1>1, <1>2
<1> QED  BY <1>3 DEF bitmap

\* A column that is counted although resize() throws changes nothing else.
LEMMA ThrowTypes ==
    ASSUME NEW table \in Tables, NEW original, BitsCounted(table)
    PROVE  /\ resizeThrows(table, original) \in Tables
           /\ BitsCounted(resizeThrows(table, original))
           /\ resizeThrows(table, original).columnCount = table.columnCount + 1
           /\ resizeThrows(table, original).hasColumns = table.hasColumns
           /\ resizeThrows(table, original).rows = table.rows
<1>1. resizeThrows(table, original)
         = [columnCount |-> table.columnCount + 1,
            hasColumns |-> table.hasColumns, rows |-> table.rows]
    BY DEF resizeThrows, columnCounted, Tables
<1>2. table.rows \in Seq(SUBSET Nat) /\ table.columnCount \in Nat
           /\ table.hasColumns \in BOOLEAN
    BY DEF Tables
<1>3. \A tid \in DOMAIN table.rows :
          table.rows[tid] \subseteq 0 .. (table.columnCount + 1) - 1
    BY <1>2 DEF BitsCounted
<1> QED  BY <1>1, <1>2, <1>3 DEF Tables, BitsCounted

\* What the tables contribute to CatalogInv, table by table.
TableInv(table, next) ==
    /\ table \in Tables
    /\ BitsCounted(table)
    /\ table.hasColumns => next <= availableCount /\ next <= table.columnCount
    /\ IF resizeRequired(table) THEN next >= availableCount
                                ELSE table.columnCount = next

BranchInv ==
    /\ next_branch_id \in 1 .. MaxBranches
    /\ parent_id \in Seq(Branches) /\ Len(parent_id) = next_branch_id - 1
    /\ \A b \in DOMAIN parent_id : parent_id[b] < b
    /\ failures \in 0 .. MaxFailures

TablesInv ==
    /\ DOMAIN tables \subseteq TableNames
    /\ tables = [name \in DOMAIN tables |-> tables[name]]
    /\ \A name \in DOMAIN tables : TableInv(tables[name], next_branch_id)

\* CatalogInv is the invariant of the branches and that of every table.
LEMMA CatalogInvByTable ==
    CatalogInv <=> BranchInv /\ TablesInv
BY DEF CatalogInv, CatalogTypeOK, BranchBitInsideRow, NextColumnIsNextBranch,
       BranchInv, TablesInv, TableInv, BitsCounted, Tables

\* The initial state has one branch and no table.
LEMMA InitCatalog == CatalogInit => CatalogInv
<1> SUFFICES ASSUME CatalogInit  PROVE  BranchInv /\ TablesInv
    BY CatalogInvByTable
<1>1. BranchInv
    BY LimitsAssumption DEF CatalogInit, BranchInv, Branches
<1>2. DOMAIN tables = {}
    BY DEF CatalogInit
<1>3. tables = [name \in DOMAIN tables |-> tables[name]]
    BY DEF CatalogInit
<1> QED  BY <1>1, <1>2, <1>3 DEF TablesInv

\* A table that createTable registers satisfies the invariant, whether its
\* bitmap columns fit or not.
LEMMA NewTable ==
    ASSUME NEW next \in Nat \ {0}
    PROVE  /\ next <= availableCount => TableInv(Table(next, TRUE), next)
           /\ next > availableCount =>
                TableInv(Table(availableCount + 1, FALSE), next)
<1>1. <<>> \in Seq(SUBSET Nat) /\ DOMAIN <<>> = {}
    OBVIOUS
<1>2. ASSUME NEW count \in Nat, NEW flag \in BOOLEAN
      PROVE  /\ Table(count, flag) \in Tables
             /\ BitsCounted(Table(count, flag))
             /\ Table(count, flag).columnCount = count
             /\ Table(count, flag).hasColumns = flag
    BY <1>1 DEF Table, Tables, BitsCounted
<1>3. ASSUME next <= availableCount  PROVE  TableInv(Table(next, TRUE), next)
  <2> DEFINE table == Table(next, TRUE)
  <2>1. table \in Tables /\ BitsCounted(table) /\ table.columnCount = next
      BY <1>2
  <2> HIDE DEF table
  <2>2. next <= table.columnCount
        /\ (table.columnCount + 1 > availableCount => next >= availableCount)
      BY <1>3, <2>1, LimitsAssumption
  <2>3. TableInv(table, next)
      BY <1>3, <2>1, <2>2 DEF TableInv, resizeRequired
  <2> QED  BY <2>3 DEF table
<1>4. ASSUME next > availableCount
      PROVE  TableInv(Table(availableCount + 1, FALSE), next)
  <2> DEFINE table == Table(availableCount + 1, FALSE)
  <2>1. /\ table \in Tables /\ BitsCounted(table) /\ ~ table.hasColumns
        /\ table.columnCount = availableCount + 1
    <3>1. availableCount + 1 \in Nat
        BY LimitsAssumption
    <3>2. table.hasColumns = FALSE
        BY <1>2, <3>1, Zenon
    <3> QED  BY <1>2, <3>1, <3>2, Zenon
  <2> HIDE DEF table
  <2>2. table.columnCount + 1 > availableCount /\ next >= availableCount
      BY <1>4, <2>1, LimitsAssumption
  <2>3. TableInv(table, next)
      BY <2>1, <2>2 DEF TableInv, resizeRequired
  <2> QED  BY <2>3 DEF table
<1> QED  BY <1>3, <1>4

\* Every statement preserves the invariant.
LEMMA NextCatalog == CatalogInv /\ [CatalogNext]_catalogVars => CatalogInv'
<1> SUFFICES ASSUME BranchInv, TablesInv, [CatalogNext]_catalogVars
             PROVE  BranchInv' /\ TablesInv'
    BY CatalogInvByTable, PTL
<1> USE LimitsAssumption
<1>0. next_branch_id \in Nat \ {0} /\ failures \in Nat
    BY DEF BranchInv
<1>1. ASSUME NEW name \in TableNames, createTable(name)
      PROVE  BranchInv' /\ TablesInv'
  <2>1. BranchInv'
      BY <1>1 DEF createTable, BranchInv, Branches
  <2>2. 1 + missingColumns = next_branch_id
      BY <1>0 DEF missingColumns
  <2>3. TableInv(Table(next_branch_id, TRUE), next_branch_id)
      BY <1>0, <1>1, <2>2, NewTable DEF createTable
  <2> QED  BY <1>1, <2>1, <2>2, <2>3 DEF createTable, emplace, TablesInv
<1>2. ASSUME NEW name \in TableNames, createTable_fails(name)
      PROVE  BranchInv' /\ TablesInv'
  <2>1. BranchInv'
      BY <1>0, <1>2 DEF createTable_fails, BranchInv, Branches
  <2>2. 1 + missingColumns = next_branch_id
      BY <1>0 DEF missingColumns
  <2>3. TableInv(Table(availableCount + 1, FALSE), next_branch_id)
      BY <1>0, <1>2, <2>2, NewTable DEF createTable_fails
  <2> QED  BY <1>2, <2>1, <2>2, <2>3 DEF createTable_fails, emplace, TablesInv
<1>3. ASSUME NEW parent \in Branches, createBranch(parent)
      PROVE  BranchInv' /\ TablesInv'
  <2>1. BranchInv'
    <3>1. next_branch_id' = next_branch_id + 1 /\ next_branch_id' \in 1 .. MaxBranches
        BY <1>0, <1>3 DEF createBranch
    <3>2. Branches \subseteq Branches' /\ parent \in Branches'
        BY <1>0, <3>1 DEF Branches
    <3>3. parent_id \in Seq(Branches') /\ parent_id' = Append(parent_id, parent)
        BY <1>0, <1>3, <3>2 DEF createBranch, BranchInv
    <3>4. /\ parent_id' \in Seq(Branches')
          /\ Len(parent_id') = next_branch_id' - 1
        BY <1>0, <3>1, <3>2, <3>3 DEF BranchInv
    <3>5. \A b \in DOMAIN parent_id' : parent_id'[b] < b
      <4> TAKE b \in DOMAIN parent_id'
      <4>1. CASE b = next_branch_id
          BY <1>0, <3>3, <4>1 DEF BranchInv, Branches
      <4>2. CASE b # next_branch_id
        <5>1. b \in DOMAIN parent_id
            BY <1>0, <3>1, <3>3, <3>4, <4>2 DEF BranchInv
        <5>2. parent_id'[b] = parent_id[b]
            BY <3>3, <5>1
        <5> QED  BY <5>1, <5>2 DEF BranchInv
      <4> QED  BY <4>1, <4>2
    <3>6. failures' = failures
        BY <1>3 DEF createBranch
    <3> QED  BY <3>1, <3>4, <3>5, <3>6 DEF BranchInv
  <2>2. ASSUME NEW name \in DOMAIN tables
        PROVE  TableInv(cloneColumn(tables[name], parent), next_branch_id + 1)
    <3>1. TableInv(tables[name], next_branch_id) /\ ~ resizeRequired(tables[name])
        BY <1>3 DEF createBranch, TablesInv
    <3>2. /\ cloneColumn(tables[name], parent) \in Tables
          /\ BitsCounted(cloneColumn(tables[name], parent))
          /\ cloneColumn(tables[name], parent).columnCount
                = tables[name].columnCount + 1
        BY <3>1, CloneTypes DEF TableInv
    <3> QED  BY <1>0, <3>1, <3>2 DEF TableInv, resizeRequired
  <2> QED  BY <1>3, <2>1, <2>2 DEF createBranch, TablesInv
<1>4. ASSUME NEW parent \in Branches, NEW throwing \in DOMAIN tables,
             NEW before \in SUBSET DOMAIN tables,
             createBranch_fails(parent, throwing, before)
      PROVE  BranchInv' /\ TablesInv'
  <2>1. BranchInv'
      BY <1>0, <1>4 DEF createBranch_fails, BranchInv, Branches
  <2>2. TableInv(tables[throwing], next_branch_id)
        /\ next_branch_id >= availableCount
      BY <1>4 DEF createBranch_fails, TablesInv, TableInv
  <2>3. before = {}
    <3> SUFFICES ASSUME NEW name \in before  PROVE FALSE
        OBVIOUS
    <3>1. tables[name].columnCount = next_branch_id /\ ~ resizeRequired(tables[name])
        BY <1>4 DEF createBranch_fails, TablesInv, TableInv
    <3> QED  BY <1>0, <2>2, <3>1 DEF resizeRequired
  <2>4. TableInv(resizeThrows(tables[throwing], parent), next_branch_id)
    <3>1. /\ resizeThrows(tables[throwing], parent) \in Tables
          /\ BitsCounted(resizeThrows(tables[throwing], parent))
          /\ resizeThrows(tables[throwing], parent).columnCount
                = tables[throwing].columnCount + 1
          /\ resizeThrows(tables[throwing], parent).hasColumns
                = tables[throwing].hasColumns
        BY <2>2, ThrowTypes DEF TableInv
    <3>2. tables[throwing].columnCount \in Nat /\ resizeRequired(tables[throwing])
        BY <1>4, <2>2 DEF TableInv, Tables, createBranch_fails
    <3> QED  BY <1>0, <2>2, <3>1, <3>2 DEF TableInv, resizeRequired
  <2>5. tables' = [name \in DOMAIN tables |->
                      IF name = throwing THEN resizeThrows(tables[name], parent)
                                         ELSE tables[name]]
      BY <1>4, <2>3 DEF createBranch_fails
  <2> QED  BY <1>4, <2>1, <2>4, <2>5 DEF createBranch_fails, TablesInv
<1>5. ASSUME NEW name \in DOMAIN tables, NEW bitmap,
             tables' = [tables EXCEPT ![name].rows = bitmap],
             bitmap \in Seq(SUBSET Nat),
             \A tid \in DOMAIN bitmap : bitmap[tid] \subseteq 0 .. tables[name].columnCount - 1,
             UNCHANGED <<next_branch_id, parent_id, failures>>
      PROVE  BranchInv' /\ TablesInv'
  <2>1. BranchInv'
      BY <1>5 DEF BranchInv, Branches
  <2>2. TableInv(tables[name], next_branch_id)
      BY DEF TablesInv
  <2>3. [tables[name] EXCEPT !.rows = bitmap]
           = [columnCount |-> tables[name].columnCount,
              hasColumns |-> tables[name].hasColumns, rows |-> bitmap]
      BY <2>2 DEF TableInv, Tables
  <2>4. TableInv([tables[name] EXCEPT !.rows = bitmap], next_branch_id)
      BY <1>5, <2>2, <2>3 DEF TableInv, Tables, BitsCounted, resizeRequired
  <2>5. tables' = [n \in DOMAIN tables |->
                      IF n = name THEN [tables[name] EXCEPT !.rows = bitmap]
                                  ELSE tables[n]]
      BY <1>5 DEF TablesInv
  <2> QED  BY <1>5, <2>1, <2>4, <2>5 DEF TablesInv
<1>6. ASSUME NEW name \in DOMAIN tables, NEW branch \in Branches, addRow(name, branch)
      PROVE  BranchInv' /\ TablesInv'
  <2>1. TableInv(tables[name], next_branch_id) /\ tables[name].hasColumns
      BY <1>6 DEF TablesInv, addRow
  <2>2. tables[name].rows \in Seq(SUBSET Nat) /\ tables[name].columnCount \in Nat
      BY <2>1 DEF TableInv, Tables
  <2>3. branch \in Nat /\ branch \in 0 .. tables[name].columnCount - 1
      BY <1>0, <2>1, <2>2 DEF TableInv, Branches
  <2> DEFINE bitmap == Append(tables[name].rows, {branch})
  <2>4. bitmap \in Seq(SUBSET Nat)
      BY <2>2, <2>3
  <2>5. \A tid \in DOMAIN bitmap : bitmap[tid] \subseteq 0 .. tables[name].columnCount - 1
    <3> TAKE tid \in DOMAIN bitmap
    <3>1. CASE tid = Len(tables[name].rows) + 1
        BY <2>2, <2>3, <3>1
    <3>2. CASE tid # Len(tables[name].rows) + 1
      <4>1. tid \in DOMAIN tables[name].rows /\ bitmap[tid] = tables[name].rows[tid]
          BY <2>2, <3>2
      <4> QED  BY <2>1, <4>1 DEF TableInv, BitsCounted
    <3> QED  BY <3>1, <3>2
  <2> QED  BY <1>5, <1>6, <2>4, <2>5 DEF addRow
<1>7. ASSUME NEW name \in DOMAIN tables, NEW branch \in Branches,
             NEW tid \in DOMAIN tables[name].rows,
             removeRowForBranch(name, tid, branch)
      PROVE  BranchInv' /\ TablesInv'
  <2>1. TableInv(tables[name], next_branch_id)
      BY DEF TablesInv
  <2>2. tables[name].rows \in Seq(SUBSET Nat)
      BY <2>1 DEF TableInv, Tables
  <2> DEFINE bitmap == [tables[name].rows EXCEPT ![tid] = @ \ {branch}]
  <2>3. bitmap \in Seq(SUBSET Nat)
      BY <2>2
  <2>4. \A i \in DOMAIN bitmap : bitmap[i] \subseteq tables[name].rows[i]
      BY <2>2
  <2>5. \A i \in DOMAIN bitmap : bitmap[i] \subseteq 0 .. tables[name].columnCount - 1
      BY <2>1, <2>2, <2>4 DEF TableInv, BitsCounted
  <2>6. tables' = [tables EXCEPT ![name].rows = bitmap]
      BY <1>7 DEF removeRowForBranch
  <2> HIDE DEF bitmap
  <2> QED  BY <1>5, <1>7, <2>3, <2>5, <2>6 DEF removeRowForBranch
<1>8. CASE UNCHANGED catalogVars
    BY <1>8 DEF catalogVars, BranchInv, TablesInv, Branches
<1> QED  BY <1>1, <1>2, <1>3, <1>4, <1>6, <1>7, <1>8 DEF CatalogNext

\* Whatever statements run and fail, CatalogInv holds: the branches form a tree,
\* bits lie in counted columns, and the limit of the bitmaps is respected.
THEOREM CatalogInvariant == CatalogSpec => []CatalogInv
BY InitCatalog, NextCatalog, PTL DEF CatalogSpec

\* CatalogTypeOK holds throughout.
THEOREM CatalogTypeCorrect == CatalogSpec => []CatalogTypeOK
<1>1. CatalogInv => CatalogTypeOK
    BY DEF CatalogInv
<1> QED  BY <1>1, CatalogInvariant, PTL

\* Every branch has its bit inside the rows of every table that can hold rows,
\* however many statements fail at the limit, for any width of the rows.
THEOREM BitsInsideRows == CatalogSpec => []BranchBitInsideRow
<1>1. CatalogInv => BranchBitInsideRow
    BY DEF CatalogInv
<1> QED  BY <1>1, CatalogInvariant, PTL

\* A statement that fails leaves every row as it was: createBranch fails, if it
\* does, at the first table it visits.
THEOREM FailuresKeepRows == CatalogSpec => FailureKeepsRows
<1> DEFINE Kept == /\ next_branch_id' = next_branch_id
                  /\ \A name \in DOMAIN tables :
                        /\ tables'[name].rows = tables[name].rows
                        /\ tables'[name].columnCount # tables[name].columnCount =>
                               tables[name].columnCount >= availableCount
<1>1. ASSUME CatalogInv, CatalogNext, failures' # failures  PROVE  Kept
  <2> USE LimitsAssumption
  <2>0. BranchInv /\ TablesInv /\ failures \in Nat /\ next_branch_id \in Nat
      BY <1>1, CatalogInvByTable DEF BranchInv
  <2>1. ASSUME NEW name \in TableNames, createTable_fails(name)  PROVE  Kept
      BY <2>1 DEF createTable_fails, emplace
  <2>2. ASSUME NEW parent \in Branches, NEW throwing \in DOMAIN tables,
               NEW before \in SUBSET DOMAIN tables,
               createBranch_fails(parent, throwing, before)
        PROVE  Kept
    <3>1. TableInv(tables[throwing], next_branch_id) /\ resizeRequired(tables[throwing])
        BY <2>0, <2>2 DEF createBranch_fails, TablesInv
    <3>2. before = {}
      <4> SUFFICES ASSUME NEW name \in before  PROVE FALSE
          OBVIOUS
      <4>1. tables[name].columnCount = next_branch_id /\ ~ resizeRequired(tables[name])
          BY <2>0, <2>2 DEF createBranch_fails, TablesInv, TableInv
      <4> QED  BY <2>0, <3>1, <4>1 DEF TableInv, resizeRequired
    <3>3. tables' = [name \in DOMAIN tables |->
                        IF name = throwing THEN resizeThrows(tables[name], parent)
                                           ELSE tables[name]]
        BY <2>2, <3>2 DEF createBranch_fails
    <3>4. resizeThrows(tables[throwing], parent).rows = tables[throwing].rows
        BY <3>1, ThrowTypes DEF TableInv
    <3>5. tables[throwing].columnCount >= availableCount
        BY <3>1 DEF TableInv, Tables, resizeRequired
    <3> QED  BY <2>2, <3>3, <3>4, <3>5 DEF createBranch_fails
  <2> QED
      BY <1>1, <2>1, <2>2
      DEF CatalogNext, createTable, createBranch, addRow, removeRowForBranch
<1>2. CatalogInv /\ [CatalogNext]_catalogVars => [failures' # failures => Kept]_catalogVars
    BY <1>1 DEF catalogVars
<1> QED  BY <1>2, CatalogInvariant, PTL DEF CatalogSpec, FailureKeepsRows

\* A new branch starts with the rows of its parent in every table: the column
\* that is cloned is the parent's, and the one it is cloned to is the one the
\* new branch will look at.
THEOREM BranchesStartAsParents == CatalogSpec => BranchStartsAsParent
<1> DEFINE TakenOver(parent) ==
              \A name \in DOMAIN tables : \A tid \in DOMAIN tables[name].rows :
                  (next_branch_id \in tables'[name].rows[tid])
                      <=> (parent \in tables[name].rows[tid])
<1>1. ASSUME CatalogInv, CatalogNext, NEW parent \in Branches,
             parent_id' = Append(parent_id, parent)
      PROVE  TakenOver(parent)
  <2>0. BranchInv /\ TablesInv
      BY <1>1, CatalogInvByTable
  <2>1. parent_id' # parent_id /\ parent_id'[next_branch_id] = parent
      BY <1>1, <2>0 DEF BranchInv
  <2>2. PICK original \in Branches : createBranch(original)
      BY <1>1, <2>1
      DEF CatalogNext, createTable, createTable_fails, createBranch_fails, addRow,
          removeRowForBranch
  <2>3. original = parent
      BY <2>0, <2>1, <2>2 DEF createBranch, BranchInv
  <2>4. ASSUME NEW name \in DOMAIN tables, NEW tid \in DOMAIN tables[name].rows
        PROVE  (next_branch_id \in tables'[name].rows[tid])
                   <=> (parent \in tables[name].rows[tid])
    <3> DEFINE table == tables[name]
    <3>1. /\ TableInv(table, next_branch_id) /\ ~ resizeRequired(table)
          /\ tables'[name] = cloneColumn(table, parent)
        BY <2>0, <2>2, <2>3 DEF createBranch, TablesInv
    <3>2. table.columnCount = next_branch_id /\ next_branch_id \in Nat
        BY <2>0, <3>1 DEF TableInv, BranchInv
    <3>3. next_branch_id \notin table.rows[tid]
        BY <3>1, <3>2 DEF TableInv, BitsCounted
    <3>4. cloneColumn(table, parent).rows[tid] = clonedBits(table.rows[tid], table, parent)
        BY <3>1, CloneRows DEF TableInv
    <3> QED  BY <3>1, <3>2, <3>3, <3>4 DEF clonedBits, Branches
  <2> QED  BY <2>4
<1>2. CatalogInv /\ [CatalogNext]_catalogVars =>
         [\A parent \in Branches :
             parent_id' = Append(parent_id, parent) => TakenOver(parent)]_catalogVars
    BY <1>1 DEF catalogVars
<1> QED  BY <1>2, CatalogInvariant, PTL DEF CatalogSpec, BranchStartsAsParent

------------------------------------------------------------------------------
(* UPDATE: the tuple that is stored                                        *)

\* std::sort puts the columns of a table in their order: an ascending list of
\* elements that have the indexes 1 to n has index i at place i.
LEMMA AscendingIsTheOrder ==
    ASSUME NEW n, NEW k, NEW index, n \in Nat, k \in Nat, index \in [1 .. k -> 1 .. n],
           \A i, j \in 1 .. k : i < j => index[i] < index[j],
           \A c \in 1 .. n : \E i \in 1 .. k : index[i] = c
    PROVE  k = n /\ \A i \in 1 .. n : index[i] = i
<1> DEFINE Wrong == {i \in 1 .. n : ~ (i \in 1 .. k /\ index[i] = i)}
<1>1. Wrong = {}
  <2> SUFFICES ASSUME Wrong # {} PROVE FALSE
    OBVIOUS
  <2>1. PICK i \in Wrong : \A j \in Wrong : i <= j
    <3>1. Wrong \in SUBSET Nat
      OBVIOUS
    <3> HIDE DEF Wrong
    <3> QED
      BY <3>1, LeastNumber
  <2>2. ASSUME NEW j \in 1 .. n, j < i PROVE j \in 1 .. k /\ index[j] = j
    BY <2>1, <2>2
  <2>3. PICK p \in 1 .. k : index[p] = i
    OBVIOUS
  <2>4. i < p
    BY <2>1, <2>2, <2>3
  <2>5. i \in 1 .. k /\ index[i] < i
    BY <2>3, <2>4
  <2>6. index[i] \in 1 .. n /\ index[index[i]] = index[i] /\ index[i] \in 1 .. k
    BY <2>2, <2>5
  <2>7. index[index[i]] < index[i]
    BY <2>5, <2>6
  <2> QED
    BY <2>6, <2>7
<1>2. ASSUME NEW i \in 1 .. n PROVE i \in 1 .. k /\ index[i] = i
  BY <1>1
<1>3. ~ (k > n)
  <2> SUFFICES ASSUME k > n PROVE FALSE
    OBVIOUS
  <2>1. n + 1 \in 1 .. k /\ index[n + 1] \in 1 .. n
    OBVIOUS
  <2>2. index[index[n + 1]] = index[n + 1] /\ index[n + 1] \in 1 .. k /\ index[n + 1] < n + 1
    BY <1>2, <2>1
  <2>3. index[index[n + 1]] < index[n + 1]
    BY <2>1, <2>2
  <2> QED
    BY <2>1, <2>2, <2>3
<1>4. ~ (k < n)
  <2>1. n > 0 => n \in 1 .. k
    BY <1>2
  <2> QED
    BY <2>1
<1> QED
  BY <1>2, <1>3, <1>4

\* What an UPDATE does to column c of a row.
NewValue(updates, c) ==
    LET given == {i \in DOMAIN updates : updates[i][1] = c}
    IN  IF given = {} THEN NotUpdated ELSE updates[Min(given)][2]

Pair(updates, c) == [column |-> c, value |-> NewValue(updates, c)]

\* The columns Physical::Update collects are those of the table, whatever the
\* order in which the analyser has traversed the scan.
LEMMA AllColumnsCollected ==
    ASSUME NEW updates, NEW order \in TraversalOrders
    PROVE  /\ Len(updateIUs(order, updates)) = ColumnCount + 1
           /\ collected(updateIUs(order, updates)) = {Pair(updates, c) : c \in Columns}
<1> DEFINE pairs == updateIUs(order, updates)
<1>1. ColumnCount \in Nat
  BY RowAssumption
<1>2. order \in [1 .. ColumnCount + 1 -> Columns \cup {Tid}]
  BY DEF TraversalOrders, Bijection, Surjection
<1>3. \A c \in Columns : \E k \in 1 .. ColumnCount + 1 : order[k] = c
  BY DEF TraversalOrders, Bijection, Surjection
<1>4. pairs = [k \in 1 .. ColumnCount + 1 |-> Pair(updates, order[k])]
  BY <1>2 DEF updateIUs, Pair, NewValue
<1>5. Len(pairs) = ColumnCount + 1
  BY <1>1, <1>4
<1>6. \A k \in 1 .. ColumnCount + 1 : pairs[k] = Pair(updates, order[k]) /\ pairs[k].column = order[k]
  BY <1>4 DEF Pair
<1>7. \A c \in Columns : c # Tid
  BY <1>1 DEF Columns, Tid
<1>8. DOMAIN pairs = 1 .. ColumnCount + 1
  BY <1>4
<1> HIDE DEF pairs
<1>9. ASSUME NEW p \in collected(pairs) PROVE \E c \in Columns : p = Pair(updates, c)
  <2>1. PICK k \in 1 .. ColumnCount + 1 : p = pairs[k] /\ pairs[k].column # Tid
    BY <1>8 DEF collected
  <2> QED
    BY <1>2, <1>6, <2>1
<1>10. ASSUME NEW c \in Columns PROVE Pair(updates, c) \in collected(pairs)
  <2>1. PICK k \in 1 .. ColumnCount + 1 : order[k] = c
    BY <1>3
  <2>2. pairs[k] = Pair(updates, c) /\ pairs[k].column # Tid /\ k \in DOMAIN pairs
    BY <1>6, <1>7, <1>8, <2>1
  <2> QED
    BY <2>2 DEF collected
<1>11. collected(pairs) = {Pair(updates, c) : c \in Columns}
  BY <1>9, <1>10, Zenon
<1> QED
  BY <1>5, <1>11 DEF pairs

\* Sorted by their index, the columns that were collected are the columns of the
\* table, each at its own place and with its own new value.
LEMMA SortedColumns ==
    ASSUME NEW updates, NEW order \in TraversalOrders
    PROVE  LET columns == updatedColumns(updateIUs(order, updates))
           IN  /\ DOMAIN columns = Columns
               /\ \A c \in Columns : columns[c] = Pair(updates, c)
<1> DEFINE pairs == updateIUs(order, updates)
<1> DEFINE Sorted(list) ==
             /\ list \in Lists(collected(pairs), Len(pairs))
             /\ ToSet(list) = collected(pairs)
             /\ \A i, j \in DOMAIN list : i < j => list[i].column < list[j].column
<1> DEFINE inOrderList == [c \in Columns |-> Pair(updates, c)]
<1> DEFINE columns == updatedColumns(pairs)
<1>1. ColumnCount \in Nat /\ Columns = 1 .. ColumnCount
  BY RowAssumption DEF Columns
<1>2. Len(pairs) = ColumnCount + 1 /\ collected(pairs) = {Pair(updates, c) : c \in Columns}
  BY AllColumnsCollected
<1> HIDE DEF pairs
<1>3. Sorted(inOrderList)
  <2>1. inOrderList \in [1 .. ColumnCount -> collected(pairs)]
    BY <1>1, <1>2
  <2>2. ColumnCount \in 0 .. Len(pairs)
    BY <1>1, <1>2
  <2>3. inOrderList \in Lists(collected(pairs), Len(pairs))
    BY <2>1, <2>2 DEF Lists
  <2>4. ToSet(inOrderList) = collected(pairs)
    BY <1>2 DEF ToSet
  <2>5. \A i \in Columns : inOrderList[i].column = i
    BY DEF Pair
  <2> QED
    BY <1>1, <2>3, <2>4, <2>5
<1>4. Sorted(columns)
  <2>1. columns = CHOOSE list \in Lists(collected(pairs), Len(pairs)) :
                     /\ ToSet(list) = collected(pairs)
                     /\ \A i, j \in DOMAIN list : i < j => list[i].column < list[j].column
    BY DEF updatedColumns
  <2> HIDE DEF columns, inOrderList
  <2> QED
    BY <1>3, <2>1
<1> HIDE DEF columns
<1>5. PICK k \in Nat : columns \in [1 .. k -> collected(pairs)]
  BY <1>4 DEF Lists
<1> DEFINE index == [i \in 1 .. k |-> columns[i].column]
<1>6. ASSUME NEW i \in 1 .. k
      PROVE  columns[i].column \in Columns /\ columns[i] = Pair(updates, columns[i].column)
  <2>1. PICK c \in Columns : columns[i] = Pair(updates, c)
    BY <1>2, <1>5
  <2>2. columns[i].column = c
    BY <2>1 DEF Pair
  <2> QED
    BY <2>1, <2>2
<1>7. index \in [1 .. k -> 1 .. ColumnCount]
  BY <1>1, <1>6
<1>8. \A i, j \in 1 .. k : i < j => index[i] < index[j]
  BY <1>4, <1>5
<1>9. \A c \in 1 .. ColumnCount : \E i \in 1 .. k : index[i] = c
  <2> TAKE c \in 1 .. ColumnCount
  <2>1. Pair(updates, c) \in ToSet(columns)
    BY <1>1, <1>2, <1>4
  <2>2. PICK i \in 1 .. k : columns[i] = Pair(updates, c)
    BY <1>5, <2>1 DEF ToSet
  <2> QED
    BY <2>2 DEF Pair
<1>10. k = ColumnCount /\ \A i \in 1 .. ColumnCount : index[i] = i
  <2>1. ColumnCount \in Nat
    BY <1>1
  <2> HIDE DEF index
  <2> QED
    BY <2>1, <1>7, <1>8, <1>9, AscendingIsTheOrder, Zenon
<1>11. DOMAIN columns = Columns
  BY <1>1, <1>5, <1>10
<1>12. ASSUME NEW c \in Columns PROVE columns[c] = Pair(updates, c)
  <2>1. c \in 1 .. k /\ columns[c].column = c
    BY <1>1, <1>10
  <2> QED
    BY <1>6, <2>1
<1> QED
  BY <1>11, <1>12 DEF columns, pairs

\* The row an UPDATE stores is the one it describes.
LEMMA UpdateStoresWhatIsMeant ==
    ASSUME NEW updates \in Lists(Columns \X Values, MaxAssignments),
           NEW order \in TraversalOrders, NEW row
    PROVE  Stored(row, updatedTuple(updateIUs(order, updates), row)) = meantUpdate(row, updates)
<1> DEFINE columns == updatedColumns(updateIUs(order, updates))
<1> DEFINE tuple == updatedTuple(updateIUs(order, updates), row)
<1>1. DOMAIN columns = Columns /\ \A c \in Columns : columns[c] = Pair(updates, c)
  BY SortedColumns
<1>2. tuple = [k \in DOMAIN columns |->
                 IF columns[k].value # NotUpdated THEN columns[k].value
                 ELSE row[columns[k].column]]
  BY DEF updatedTuple
<1> HIDE DEF columns
<1>3. DOMAIN tuple = Columns
  BY <1>1, <1>2
<1>4. ASSUME NEW c \in Columns
      PROVE  tuple[c] = LET given == {i \in DOMAIN updates : updates[i][1] = c}
                        IN  IF given = {} THEN row[c] ELSE updates[Min(given)][2]
  <2> DEFINE given == {i \in DOMAIN updates : updates[i][1] = c}
  <2>1. columns[c].column = c /\ columns[c].value = NewValue(updates, c)
    BY <1>1 DEF Pair
  <2>2. tuple[c] = IF NewValue(updates, c) # NotUpdated THEN NewValue(updates, c) ELSE row[c]
    BY <1>1, <1>2, <2>1
  <2>3. CASE given = {}
    <3>1. NewValue(updates, c) = NotUpdated
      BY <2>3 DEF NewValue
    <3> QED
      BY <2>2, <2>3, <3>1
  <2>4. CASE given # {}
    <3>1. PICK n \in 0 .. MaxAssignments : updates \in [1 .. n -> Columns \X Values]
      BY DEF Lists
    <3>2. given \in SUBSET (1 .. n) /\ n \in Nat /\ given \in SUBSET Nat
      BY <3>1, RowAssumption
    <3>3. Min(given) \in given
      <4> HIDE DEF given
      <4>1. PICK m \in given : \A l \in given : m <= l
        BY <2>4, <3>2, LeastNumber
      <4> QED
        BY <4>1 DEF Min
    <3>4. updates[Min(given)] \in Columns \X Values
      <4>1. Min(given) \in 1 .. n
        BY <3>2, <3>3
      <4> QED
        BY <3>1, <4>1
    <3>5. NewValue(updates, c) = updates[Min(given)][2]
      BY <2>4 DEF NewValue
    <3>6. NewValue(updates, c) \in Values
      BY <3>4, <3>5
    <3>7. NewValue(updates, c) # NotUpdated
      BY <3>6, RowAssumption DEF NotUpdated
    <3> QED
      BY <2>2, <2>4, <3>5, <3>7
  <2> QED
    BY <2>3, <2>4
<1> HIDE DEF tuple
<1>5. Stored(row, tuple) = [c \in Columns |-> tuple[c]]
  BY <1>3 DEF Stored
<1> QED
  BY <1>4, <1>5 DEF meantUpdate, tuple

------------------------------------------------------------------------------
(* INSERT: the row that is stored                                          *)

\* The row of an INSERT that lists its columns in the order of the table, or
\* none of them, is the one it describes, unless it lists more than there are.
LEMMA InsertStoresWhatIsMeant ==
    ASSUME NEW columns \in Lists(Columns, MaxListed), NEW values \in Lists(Values, MaxListed),
           ~ insertRefused(columns, values),
           \A i \in DOMAIN columns : columns[i] = i,
           Len(insertedTuple(columns, values)) <= ColumnCount
    PROVE  Stored(reserve_back, insertedTuple(columns, values)) = meantRow(columns, values)
<1> DEFINE tuple == insertedTuple(columns, values)
<1>1. ColumnCount \in Nat /\ ColumnCount > 0 /\ Columns = 1 .. ColumnCount
  BY RowAssumption DEF Columns
<1>2. PICK n \in 0 .. MaxListed : values \in [1 .. n -> Values]
  BY DEF Lists
<1>3. n \in Nat /\ Len(values) = n /\ DOMAIN values = 1 .. n
  BY <1>2, RowAssumption
<1>4. PICK k \in 0 .. MaxListed : columns \in [1 .. k -> Columns]
  BY DEF Lists
<1>5. k \in Nat /\ Len(columns) = k /\ DOMAIN columns = 1 .. k
  BY <1>4, RowAssumption
<1>6. CASE columns = <<>>
  <2>1. n = ColumnCount
    BY <1>3, <1>6 DEF insertRefused
  <2>2. tuple = [c \in Columns |-> valueAt(values, c)]
    BY <1>6 DEF insertedTuple
  <2>3. ASSUME NEW c \in Columns PROVE valueAt(values, c) = values[c]
    BY <1>1, <1>3, <2>1 DEF valueAt
  <2>4. Stored(reserve_back, tuple) = [c \in Columns |-> values[c]]
    <3> HIDE DEF tuple
    <3> QED
      BY <2>2, <2>3 DEF Stored
  <2> QED
    BY <1>6, <2>4 DEF meantRow
<1>7. CASE columns # <<>>
  <2>1. tuple = [i \in 1 .. k |-> valueAt(values, i)]
    BY <1>5, <1>7 DEF insertedTuple
  <2>2. ToSet(columns) = 1 .. k
    BY <1>5 DEF ToSet
  <2>3. ASSUME NEW c \in 1 .. k PROVE (CHOOSE i \in DOMAIN columns : columns[i] = c) = c
    BY <1>5
  <2>4. ASSUME NEW c \in Columns
        PROVE  (IF c \in DOMAIN tuple THEN tuple[c] ELSE reserve_back[c]) =
               IF columns = <<>> THEN values[c]
               ELSE IF c \in ToSet(columns)
                    THEN valueAt(values, CHOOSE i \in DOMAIN columns : columns[i] = c)
                    ELSE Undefined
    <3>1. CASE c \in 1 .. k
      <4>1. tuple[c] = valueAt(values, c) /\ c \in DOMAIN tuple
        BY <2>1, <3>1
      <4> HIDE DEF tuple
      <4> QED
        BY <1>7, <2>2, <2>3, <3>1, <4>1
    <3>2. CASE c \notin 1 .. k
      <4>1. c \notin DOMAIN tuple
        BY <2>1, <3>2
      <4> HIDE DEF tuple
      <4> QED
        BY <1>7, <2>2, <3>2, <4>1 DEF reserve_back
    <3> QED
      BY <3>1, <3>2
  <2> HIDE DEF tuple
  <2> QED
    BY <2>4 DEF Stored, meantRow, tuple
<1> QED
  BY <1>6, <1>7

------------------------------------------------------------------------------
(* The statements                                                          *)

\* Every INSERT, COPY FROM, UPDATE and DELETE keeps the table as it is meant.
LEMMA NextRows ==
    OrderedStatementsMeanWhatTheySay /\ [Next]_vars => OrderedStatementsMeanWhatTheySay'
<1> SUFFICES ASSUME OrderedStatementsMeanWhatTheySay, [Next]_vars, inOrder', running'
             PROVE  rows' = meant'
  BY DEF OrderedStatementsMeanWhatTheySay
<1>1. ASSUME NEW columns \in Lists(Columns, MaxListed),
             NEW values \in Lists(Values, MaxListed) \ {<<>>}, insert(columns, values)
      PROVE  rows' = meant'
  <2>1. rows = meant
    BY <1>1 DEF insert, OrderedStatementsMeanWhatTheySay
  <2>2. /\ ~ insertRefused(columns, values)
        /\ \A i \in DOMAIN columns : columns[i] = i
        /\ Len(insertedTuple(columns, values)) <= ColumnCount
    BY <1>1 DEF insert, insert_tuple
  <2>3. Stored(reserve_back, insertedTuple(columns, values)) = meantRow(columns, values)
    BY <2>2, InsertStoresWhatIsMeant
  <2> QED
    BY <1>1, <2>1, <2>3 DEF insert, insert_tuple
<1>2. ASSUME NEW items \in Lists(Values, MaxListed), copyFrom(items) PROVE rows' = meant'
  <2> DEFINE tuple == [c \in Columns |-> valueAt(items, c)]
  <2>1. rows = meant
    BY <1>2 DEF copyFrom, OrderedStatementsMeanWhatTheySay
  <2>2. Stored(reserve_back, tuple) = tuple
    BY DEF Stored
  <2> QED
    BY <1>2, <2>1, <2>2 DEF copyFrom, insert_tuple
<1>3. ASSUME NEW updates \in Lists(Columns \X Values, MaxAssignments) \ {<<>>},
             NEW column \in Columns, NEW value \in Values,
             NEW undefinedMatch \in SUBSET DOMAIN rows, NEW order \in TraversalOrders,
             update(updates, column, value, undefinedMatch, order)
      PROVE  rows' = meant'
  <2>1. rows = meant
    BY <1>3 DEF update, OrderedStatementsMeanWhatTheySay
  <2>2. \A row : Stored(row, updatedTuple(updateIUs(order, updates), row))
                   = meantUpdate(row, updates)
    BY UpdateStoresWhatIsMeant
  <2> QED
    BY <1>3, <2>1, <2>2 DEF update
<1>4. ASSUME NEW column \in Columns, NEW value \in Values,
             NEW undefinedMatch \in SUBSET DOMAIN rows, delete(column, value, undefinedMatch)
      PROVE  rows' = meant'
  BY <1>4 DEF delete, OrderedStatementsMeanWhatTheySay
<1>5. CASE UNCHANGED vars
  BY <1>5 DEF vars, OrderedStatementsMeanWhatTheySay
<1> QED
  BY <1>1, <1>2, <1>3, <1>4, <1>5 DEF Next

\* As long as every INSERT lists its columns in the order of the table, the rows
\* are what the statements say: InsertAnalyser and CopyTableAnalyser put every
\* value into the column it is for, and so does Physical::Update, which finds
\* the columns in the order of a hash map and sorts them by their index.
THEOREM StatementsMeanWhatTheySay == Spec => []OrderedStatementsMeanWhatTheySay
<1>1. Init => OrderedStatementsMeanWhatTheySay
  BY DEF Init, OrderedStatementsMeanWhatTheySay
<1> QED
  BY <1>1, NextRows, PTL DEF Spec

------------------------------------------------------------------------------
(* ColumnValues: operators on generated values                             *)

\* The powers the widths and the scales are made of.
LEMMA PowersOfTwo ==
    /\ powerOfTwo[0] = 1
    /\ \A n \in Nat : powerOfTwo[n] \in Nat \ {0} /\ powerOfTwo[n + 1] = 2 * powerOfTwo[n]
<1>1. Raises(powerOfTwo, 2)
  BY Zenon DEF Raises, powerOfTwo
<1>2. Powers(powerOfTwo, 2)
  BY <1>1, PowersOf
<1> QED
  BY <1>2 DEF Powers

LEMMA PowersOfTen ==
    /\ powerOfTen[0] = 1
    /\ \A n \in Nat : powerOfTen[n] \in Nat \ {0}
    /\ \A m, n \in Nat : powerOfTen[m + n] = powerOfTen[m] * powerOfTen[n]
<1>1. Raises(powerOfTen, 10)
  BY Zenon DEF Raises, powerOfTen
<1>2. Powers(powerOfTen, 10)
  BY <1>1, PowersOf
<1>3. ASSUME NEW m \in Nat, NEW n \in Nat
      PROVE  powerOfTen[m + n] = powerOfTen[m] * powerOfTen[n]
  <2>1. 10 \in Nat \ {0}
    OBVIOUS
  <2> QED
    BY <1>2, <2>1, PowersMultiply
<1> QED
  BY <1>2, <1>3 DEF Powers

\* The table of the shifts has the powers up to its end.
LEMMA ShiftsArePowers ==
    ASSUME NEW n, n \in Nat, n <= MaxDigits
    PROVE  numericShifts[n] = powerOfTen[n] /\ numericShifts[n] \in Nat \ {0}
<1>1. MaxDigits \in Nat
  BY WidthsAssumption
<1>2. n \in 0 .. MaxDigits
  BY <1>1
<1>3. numericShifts[n] = powerOfTen[n]
  BY <1>2 DEF numericShifts
<1> QED
  BY <1>3, PowersOfTen

\* A number that fits its width is not changed by it.
LEMMA FittingIsKept ==
    ASSUME NEW n, n \in Int, NEW bits, bits \in Nat \ {0}, Fits(n, bits)
    PROVE  Wrap(n, bits) = n
<1> DEFINE half == powerOfTwo[bits - 1]
<1>1. half \in Nat \ {0}
  BY PowersOfTwo
<1>2. - half <= n /\ n < half
  BY DEF Fits
<1>3. Wrap(n, bits) = ((n + half) % (2 * half)) - half
  BY DEF Wrap
<1> HIDE DEF half
<1>4. (n + half) % (2 * half) = n + half
  BY <1>1, <1>2
<1> QED
  BY <1>1, <1>3, <1>4

\* A checked machine operation is exact or reports an overflow.
LEMMA CheckedIsExact ==
    ASSUME NEW exact, exact \in Int, NEW bits, bits \in Nat \ {0},
           ~ CreateOverflowBinOp(exact, bits).obit
    PROVE  CreateOverflowBinOp(exact, bits).raw = exact
<1>1. Fits(exact, bits)
  BY DEF CreateOverflowBinOp
<1>2. Wrap(exact, bits) = exact
  BY <1>1, FittingIsKept
<1> QED
  BY <1>2 DEF CreateOverflowBinOp

------------------------------------------------------------------------------
\* Quotients.
LEMMA QuotientIsUnique ==
    ASSUME NEW m, m \in Nat, NEW k, k \in Nat \ {0}, NEW q, q \in Nat,
           k * q <= m, m < k * (q + 1)
    PROVE  m \div k = q
<1> DEFINE d == m \div k
<1>1. d \in Nat /\ k * d <= m /\ m < k * (d + 1)
  OBVIOUS
<1> HIDE DEF d
<1>2. ~ (d < q)
  <2> SUFFICES ASSUME d < q PROVE FALSE
    OBVIOUS
  <2>1. k * (d + 1) <= k * q
    BY <1>1
  <2> QED
    BY <1>1, <2>1
<1>3. ~ (q < d)
  <2> SUFFICES ASSUME q < d PROVE FALSE
    OBVIOUS
  <2>1. k * (q + 1) <= k * d
    BY <1>1
  <2> QED
    BY <1>1, <2>1
<1>4. d = q
  BY <1>1, <1>2, <1>3
<1> QED
  BY <1>4 DEF d

LEMMA QuotientCancels ==
    ASSUME NEW m, m \in Nat, NEW k, k \in Nat \ {0}, NEW c, c \in Nat \ {0}
    PROVE  (m * c) \div (k * c) = m \div k
<1> DEFINE q == m \div k
<1>1. q \in Nat /\ k * q <= m /\ m < k * (q + 1)
  OBVIOUS
<1> HIDE DEF q
<1>2. m * c \in Nat /\ k * c \in Nat \ {0}
  OBVIOUS
<1>3. (k * q) * c <= m * c
  BY <1>1
<1>4. m * c < (k * (q + 1)) * c
  BY <1>1
<1>5. (k * q) * c = (k * c) * q /\ (k * (q + 1)) * c = (k * c) * (q + 1)
  BY <1>1
<1>6. (m * c) \div (k * c) = q
  BY <1>1, <1>2, <1>3, <1>4, <1>5, QuotientIsUnique
<1> QED
  BY <1>6 DEF q

\* A common factor of dividend and divisor does not change the quotient.
LEMMA TruncatedCancels ==
    ASSUME NEW x, x \in Int, NEW y, y \in Int \ {0}, NEW c, c \in Nat \ {0}
    PROVE  SDiv(x * c, y * c) = SDiv(x, y)
<1> DEFINE m == IF x < 0 THEN - x ELSE x
<1> DEFINE k == IF y < 0 THEN - y ELSE y
<1>1. m \in Nat /\ k \in Nat \ {0}
  OBVIOUS
<1>2. (x * c < 0) = (x < 0) /\ (y * c < 0) = (y < 0)
  OBVIOUS
<1>3. (IF x * c < 0 THEN - (x * c) ELSE x * c) = m * c
  BY <1>2
<1>4. (IF y * c < 0 THEN - (y * c) ELSE y * c) = k * c
  BY <1>2
<1>5. SDiv(x, y) = IF (x < 0) = (y < 0) THEN m \div k ELSE - (m \div k)
  BY DEF SDiv
<1>6. SDiv(x * c, y * c)
        = IF (x < 0) = (y < 0) THEN (m * c) \div (k * c) ELSE - ((m * c) \div (k * c))
  BY <1>2, <1>3, <1>4 DEF SDiv
<1> HIDE DEF m, k
<1>7. (m * c) \div (k * c) = m \div k
  BY <1>1, QuotientCancels
<1> QED
  BY <1>5, <1>6, <1>7

------------------------------------------------------------------------------
\* TypedValues and types.
Types == [id : TypeIDs, length : Nat, precision : Nat, nullable : BOOLEAN]
Raws == Int \cup Seq(Nat) \cup [bytes : Seq(Nat), len : Nat]
TypedValues == [type : Types, raw : Raws, null : BOOLEAN]

\* w is a value that is there, with what v has for its value: v itself if
\* its type is not nullable, the value behind it otherwise.
Carries(w, v) ==
    /\ w \in TypedValues
    /\ ~ w.null /\ ~ w.type.nullable
    /\ w.raw = v.raw
    /\ w.type.id = v.type.id /\ w.type.precision = v.type.precision
    /\ w.type.length = v.type.length

LEMMA ValueFacts ==
    ASSUME NEW v, GeneratedValue(v)
    PROVE  /\ v \in TypedValues /\ v.type \in Types /\ v.type.id \in TypeIDs
           /\ v.type.length \in Nat /\ v.type.precision \in Nat
           /\ v.type.nullable \in BOOLEAN /\ v.null \in BOOLEAN
<1>1. v \in TypedValues
  BY DEF GeneratedValue, TypedValues, Types, Raws
<1>2. v.type \in Types /\ v.null \in BOOLEAN
  BY <1>1 DEF TypedValues
<1> QED
  BY <1>1, <1>2 DEF Types

LEMMA WithoutNull ==
    ASSUME NEW t, t \in Types
    PROVE  /\ toNotNullableTy(t) \in Types /\ ~ toNotNullableTy(t).nullable
           /\ toNotNullableTy(t).id = t.id /\ toNotNullableTy(t).length = t.length
           /\ toNotNullableTy(t).precision = t.precision
           /\ toNullableTy(t) \in Types /\ toNullableTy(t).id = t.id
           /\ toNullableTy(t).precision = t.precision
BY DEF toNotNullableTy, toNullableTy, Types

LEMMA ItselfCarries ==
    ASSUME NEW v, GeneratedValue(v), ~ isNullable(v), ~ isUnknown(v)
    PROVE  ~ v.null /\ Carries(v, v)
<1>1. v.type.id # "Unknown" /\ ~ v.type.nullable
  BY DEF isNullable, isUnknown
<1>2. ~ v.null
  BY <1>1 DEF GeneratedValue
<1> QED
  BY <1>1, <1>2, ValueFacts DEF Carries

LEMMA AssociatedCarries ==
    ASSUME NEW v, GeneratedValue(v)
    PROVE  Carries(getAssociatedValue(v), v)
<1>1. v \in TypedValues /\ v.type \in Types
  BY ValueFacts
<1> DEFINE t == toNotNullableTy(v.type)
<1>2. t \in Types /\ ~ t.nullable /\ t.id = v.type.id /\ t.length = v.type.length
      /\ t.precision = v.type.precision
  BY <1>1, WithoutNull
<1> HIDE DEF t
<1>3. getAssociatedValue(v) = [v EXCEPT !.type = t, !.null = FALSE]
  BY DEF getAssociatedValue, t
<1>4. getAssociatedValue(v) \in TypedValues
  BY <1>1, <1>2, <1>3 DEF TypedValues
<1>5. getAssociatedValue(v).type = t /\ ~ getAssociatedValue(v).null
      /\ getAssociatedValue(v).raw = v.raw
  BY <1>1, <1>3 DEF TypedValues
<1> QED
  BY <1>2, <1>4, <1>5 DEF Carries

------------------------------------------------------------------------------
\* Nulls.  The null that is made for a result, if one is made, is a null.
LEMMA NullResultIsNull ==
    ASSUME NEW t, t.id \in TypeIDs, NullResult(t).tag = "value"
    PROVE  NullResult(t).v.null
<1>1. ASSUME NEW v, NEW n, n = IF v = Throw THEN Throw
                          ELSE Value([type |-> toNullableTy(t), raw |-> v.v, null |-> TRUE]),
                    WithoutOverflow(n).tag = "value"
      PROVE  WithoutOverflow(n).v.null
  BY <1>1 DEF WithoutOverflow, Throw, Value, Result
<1>2. CASE t.id \in {"Integer", "Bool"}
  <2> DEFINE v == castStringToIntegerValue(Class(t).null)
  <2> DEFINE n == IF v = Throw THEN Throw
                  ELSE Value([type |-> toNullableTy(t), raw |-> v.v, null |-> TRUE])
  <2>1. getNull(t) = n
    BY <1>2 DEF getNull, BasicString
  <2> HIDE DEF v
  <2> QED
    BY <1>1, <2>1 DEF NullResult
<1>3. CASE t.id = "Numeric"
  <2> DEFINE v == castStringToNumericValue(Numeric.null, t.precision)
  <2> DEFINE n == IF v = Throw THEN Throw
                  ELSE Value([type |-> toNullableTy(t), raw |-> v.v, null |-> TRUE])
  <2>1. getNull(t) = n
    BY <1>3 DEF getNull, BasicString
  <2> HIDE DEF v
  <2> QED
    BY <1>1, <2>1 DEF NullResult
<1>4. CASE t.id \in BasicString
  <2> DEFINE v == Value([bytes |-> [i \in 1..t.length |-> Blank], len |-> t.length])
  <2> DEFINE n == IF v = Throw THEN Throw
                  ELSE Value([type |-> toNullableTy(t), raw |-> v.v, null |-> TRUE])
  <2>1. getNull(t) = n
    BY <1>4 DEF getNull, BasicString
  <2> HIDE DEF v
  <2> QED
    BY <1>1, <2>1 DEF NullResult
<1>5. CASE t.id \in {"Date", "Timestamp"}
  <2>1. getNull(t) = Throw
    BY <1>5 DEF getNull, BasicString
  <2> QED
    BY <2>1 DEF NullResult, WithoutOverflow, Throw
<1>6. CASE t.id \in {"Unknown", "LongInteger", "Text"}
  <2>1. getNull(t) = Unreachable
    BY <1>6 DEF getNull, BasicString
  <2> QED
    BY <2>1 DEF NullResult, WithoutOverflow, Unreachable
<1> QED
  BY <1>2, <1>3, <1>4, <1>5, <1>6 DEF TypeIDs, BasicString

\* r is the result s, or s as a value of a nullable type.
SafeOf(s, r) == r = s \/ r = [s EXCEPT !.v = createNullValue(@)]

\* r is what the handling of nulls around an operation of two operands gives:
\* the operation on the values themselves, or on those behind nullable types.
Handled(a, b, unknown, default, direct, behind, r) ==
    /\ unknown.tag = "value" => unknown.v.null
    /\ ~ isUnknown(a) /\ ~ isUnknown(b) /\ default.tag = "value" => default.v.null
    /\ r.tag = "value"
    /\ r = IF isUnknown(a) \/ isUnknown(b) THEN unknown
           ELSE IF ~isNullable(a) /\ ~isNullable(b) THEN direct
           ELSE NullSafe(default, a.null \/ b.null, behind)

LEMMA TwoOperandsHandled ==
    ASSUME NEW a, NEW b, GeneratedValue(a), GeneratedValue(b),
           NEW unknown, NEW default, NEW direct, NEW behind, NEW r,
           Handled(a, b, unknown, default, direct, behind, r)
    PROVE  \/ (a.null \/ b.null) /\ r.v.null
           \/ /\ ~ a.null /\ ~ b.null
              /\ \/ Carries(a, a) /\ Carries(b, b) /\ direct.tag = "value" /\ SafeOf(direct, r)
                 \/ behind.tag = "value" /\ SafeOf(behind, r)
<1> USE DEF Handled
<1>1. CASE isUnknown(a) \/ isUnknown(b)
  BY <1>1 DEF isUnknown, GeneratedValue
<1>2. CASE ~ isUnknown(a) /\ ~ isUnknown(b) /\ ~isNullable(a) /\ ~isNullable(b)
  BY <1>2, ItselfCarries DEF SafeOf
<1>3. CASE ~ isUnknown(a) /\ ~ isUnknown(b) /\ ~ (~isNullable(a) /\ ~isNullable(b))
  <2>1. r = NullSafe(default, a.null \/ b.null, behind)
    BY <1>3
  <2>2. CASE default.tag # "value" \/ (a.null \/ b.null)
    BY <2>1, <2>2 DEF NullSafe
  <2>3. CASE ~ (default.tag # "value" \/ (a.null \/ b.null))
    <3>1. CASE behind.tag # "value"
      BY <2>1, <2>3, <3>1 DEF NullSafe
    <3>2. CASE behind.tag = "value"
      BY <2>1, <2>3, <3>2 DEF NullSafe, SafeOf
    <3> QED
      BY <3>1, <3>2
  <2> QED
    BY <2>2, <2>3
<1> QED
  BY <1>1, <1>2, <1>3

\* s is a result for a and b, exact or with an overflow, whatever the type
\* it has becomes nullable to.
Meets(op, a, b, s) ==
    \E t \in Types : \E x \in Raws, o \in BOOLEAN :
        /\ s = Result(Known(t, x), o)
        /\ \/ o
           \/ \A v : v.raw = x /\ v.type.id = t.id /\ v.type.precision = t.precision
                       => ExactResult(op, a, b, v)

\* What ExactOrFlagged says of a result.
Sound(op, a, b, r) ==
    IF NullOperand(op, a, b) THEN r.v.null
    ELSE r.overflow \/ (~ r.v.null /\ ExactResult(op, a, b, r.v))

LEMMA MetIsSound ==
    ASSUME NEW op, NEW a, NEW b, NEW s, NEW r, Meets(op, a, b, s), SafeOf(s, r)
    PROVE  r.overflow \/ (~ r.v.null /\ ExactResult(op, a, b, r.v))
<1>1. PICK t \in Types, x \in Raws, o \in BOOLEAN :
          /\ s = Result(Known(t, x), o)
          /\ \/ o
             \/ \A v : v.raw = x /\ v.type.id = t.id /\ v.type.precision = t.precision
                         => ExactResult(op, a, b, v)
  BY DEF Meets
<1>2. /\ r.overflow = o /\ ~ r.v.null /\ r.v.raw = x
      /\ r.v.type.id = t.id /\ r.v.type.precision = t.precision
  <2>1. CASE r = s
    BY <1>1, <2>1 DEF Result, Known
  <2>2. CASE r = [s EXCEPT !.v = createNullValue(@)]
    <3> DEFINE v == [type |-> t, raw |-> x, null |-> FALSE]
    <3>1. v \in [type : Types, raw : Raws, null : BOOLEAN]
      OBVIOUS
    <3>2. v.type = t /\ v.raw = x
      OBVIOUS
    <3>3. Known(t, x) = v
      BY DEF Known
    <3> HIDE DEF v
    <3>4. r = [tag |-> "value", v |-> createNullValue(v), overflow |-> o]
      BY <1>1, <2>2, <3>3 DEF Result
    <3>6. createNullValue(v) = [v EXCEPT !.type = toNullableTy(t), !.null = FALSE]
      BY <3>2 DEF createNullValue
    <3>7. createNullValue(v).type = toNullableTy(t) /\ createNullValue(v).raw = x
          /\ ~ createNullValue(v).null
      BY <3>1, <3>2, <3>6
    <3>5. toNullableTy(t).id = t.id /\ toNullableTy(t).precision = t.precision
      BY WithoutNull
    <3> QED
      BY <3>4, <3>5, <3>7
  <2> QED
    BY <2>1, <2>2 DEF SafeOf
<1> QED
  BY <1>1, <1>2

------------------------------------------------------------------------------
\* Sums and differences.
IntegerType(t) == t \in Types /\ t.id = "Integer" /\ t.precision = 0

LEMMA IntegerTypes ==
    getIntegerTy \in Types /\ IntegerType(getIntegerTy)
BY DEF getIntegerTy, SqlType, Types, TypeIDs, IntegerType

LEMMA BoolTypes ==
    getBoolTy \in Types /\ getBoolTy.id = "Bool" /\ getBoolTy.precision = 0
BY DEF getBoolTy, SqlType, Types, TypeIDs

\* A value of a numeric type has a number for its raw value, at a scale the
\* table of shifts has.
LEMMA NumericFacts ==
    ASSUME NEW v, GeneratedValue(v)
    PROVE  /\ v.type.id \in {"Integer", "Numeric"} => v.raw \in Int
           /\ v.type.id = "Integer" => v.type.precision = 0
           /\ v.type.precision \in Nat /\ v.type.precision <= MaxDigits
           /\ Scale(v) \in Nat \ {0} /\ Scale(v) = powerOfTen[v.type.precision]
<1>1. v.type.precision \in Nat /\ v.type.length \in Nat
  BY ValueFacts
<1>2. v.type.precision <= MaxDigits
  BY <1>1, WidthsAssumption DEF GeneratedValue
<1>3. Scale(v) \in Nat \ {0}
  BY <1>1, PowersOfTen DEF Scale
<1> QED
  BY <1>1, <1>2, <1>3 DEF GeneratedValue, Integral, Scale

\* The sum of two amounts, of which the one at the smaller scale was shifted.
LEMMA ScaledSum ==
    ASSUME NEW x, x \in Int, NEW y, y \in Int, NEW p, p \in Nat, NEW d, d \in Nat
    PROVE  /\ (x * powerOfTen[d] + y) * powerOfTen[p] * powerOfTen[p + d]
                = powerOfTen[p + d] * (x * powerOfTen[p + d] + y * powerOfTen[p])
           /\ (x * powerOfTen[d] - y) * powerOfTen[p] * powerOfTen[p + d]
                = powerOfTen[p + d] * (x * powerOfTen[p + d] - y * powerOfTen[p])
           /\ (y + x * powerOfTen[d]) * powerOfTen[p + d] * powerOfTen[p]
                = powerOfTen[p + d] * (y * powerOfTen[p] + x * powerOfTen[p + d])
           /\ (y - x * powerOfTen[d]) * powerOfTen[p + d] * powerOfTen[p]
                = powerOfTen[p + d] * (y * powerOfTen[p] - x * powerOfTen[p + d])
<1> DEFINE s == powerOfTen[p]
<1> DEFINE c == powerOfTen[d]
<1>1. s \in Nat /\ c \in Nat /\ powerOfTen[p + d] = s * c
  BY PowersOfTen
<1> HIDE DEF s, c
<1>2. (x * c + y) * s * (s * c) = (s * c) * (x * (s * c) + y * s)
  BY <1>1
<1>3. (x * c - y) * s * (s * c) = (s * c) * (x * (s * c) - y * s)
  BY <1>1
<1>4. (y + x * c) * (s * c) * s = (s * c) * (y * s + x * (s * c))
  BY <1>1
<1>5. (y - x * c) * (s * c) * s = (s * c) * (y * s - x * (s * c))
  BY <1>1
<1> QED
  BY <1>1, <1>2, <1>3, <1>4, <1>5 DEF s, c

LEMMA CheckedIsNumber ==
    ASSUME NEW exact, exact \in Int, NEW bits, bits \in Nat \ {0}
    PROVE  /\ CreateOverflowBinOp(exact, bits).raw \in Int
           /\ CreateOverflowBinOp(exact, bits).obit \in BOOLEAN
<1> DEFINE half == powerOfTwo[bits - 1]
<1>1. half \in Nat \ {0}
  BY PowersOfTwo
<1>2. Wrap(exact, bits) = ((exact + half) % (2 * half)) - half
  BY DEF Wrap
<1> HIDE DEF half
<1>3. Wrap(exact, bits) \in Int
  BY <1>1, <1>2
<1> QED
  BY <1>3 DEF CreateOverflowBinOp

LEMMA WidthsAreNumbers ==
    IntBits \in Nat \ {0} /\ LongBits \in Nat \ {0}
BY WidthsAssumption

\* One side of a sum, brought to the larger scale.
LEMMA AdjustedAmount ==
    ASSUME NEW a, NEW b, GeneratedValue(a), GeneratedValue(b), a.raw \in Int,
           NEW v, NEW w, Carries(v, a), Carries(w, b),
           NEW d, d = IF a.type.precision < b.type.precision
                      THEN b.type.precision - a.type.precision ELSE 0
    PROVE  /\ Adjusted(v, w).raw \in Int /\ Adjusted(v, w).obit \in BOOLEAN
           /\ ~ Adjusted(v, w).obit => Adjusted(v, w).raw = a.raw * powerOfTen[d]
<1>1. /\ a.type.precision \in Nat /\ b.type.precision \in Nat
      /\ b.type.precision <= MaxDigits /\ MaxDigits \in Nat
  BY NumericFacts, WidthsAssumption
<1>2. v.raw = a.raw /\ v.type.precision = a.type.precision
      /\ w.type.precision = b.type.precision
  BY DEF Carries
<1>3. CASE a.type.precision < b.type.precision
  <2>1. d \in Nat /\ d <= MaxDigits /\ d = w.type.precision - v.type.precision /\ d > 0
    BY <1>1, <1>2, <1>3
  <2>2. numericShifts[d] = powerOfTen[d] /\ numericShifts[d] \in Nat
    BY <2>1, ShiftsArePowers
  <2> DEFINE op == CreateOverflowBinOp(a.raw * numericShifts[d], LongBits)
  <2>3. Adjusted(v, w) = op
    BY <1>2, <2>1 DEF Adjusted
  <2>4. a.raw * numericShifts[d] \in Int
    BY <2>2
  <2>5. op.raw \in Int /\ op.obit \in BOOLEAN
    BY <2>4, CheckedIsNumber, WidthsAreNumbers
  <2>6. ~ op.obit => op.raw = a.raw * numericShifts[d]
    BY <2>4, CheckedIsExact, WidthsAreNumbers
  <2> QED
    BY <2>2, <2>3, <2>5, <2>6
<1>4. CASE ~ (a.type.precision < b.type.precision)
  <2>1. d = 0 /\ ~ (w.type.precision - v.type.precision > 0)
    BY <1>1, <1>2, <1>4
  <2>2. Adjusted(v, w) = [raw |-> a.raw, obit |-> FALSE]
    BY <1>2, <2>1 DEF Adjusted
  <2>3. powerOfTen[d] = 1
    BY <2>1, PowersOfTen
  <2>5. a.raw * 1 = a.raw
    OBVIOUS
  <2>4. Adjusted(v, w).raw = a.raw /\ Adjusted(v, w).obit = FALSE
    BY <2>2
  <2> QED
    BY <2>3, <2>4, <2>5
<1> QED
  BY <1>3, <1>4

\* The type of a sum or quotient is the one with the larger precision.
LEMMA TypeOfSum ==
    ASSUME NEW t \in Types, NEW u \in Types, t.id # "Unknown", u.id # "Unknown",
           NEW Infer, Infer \in {inferAddTy(t, u), inferDivTy(t, u)}, Infer # Throw
    PROVE  /\ t.id \in {"Integer", "Numeric"} /\ u.id \in {"Integer", "Numeric"}
           /\ Infer.v \in Types
           /\ t.id = "Numeric" /\ u.id = "Numeric" =>
                  Infer.v.precision = IF t.precision > u.precision THEN t.precision
                                                                   ELSE u.precision
<1>1. Widened(t, u) = t /\ Widened(u, t) = u
  BY DEF Widened
<1>2. t.id \in {"Integer", "Numeric"} /\ u.id \in {"Integer", "Numeric"}
  BY <1>1 DEF inferAddTy, inferDivTy
<1> DEFINE larger == IF t.id = "Integer" THEN u
                     ELSE IF u.id = "Integer" THEN t
                     ELSE IF t.precision > u.precision THEN t ELSE u
<1>3. Infer = Value([larger EXCEPT !.nullable = t.nullable \/ u.nullable])
  BY <1>1, <1>2 DEF inferAddTy, inferDivTy
<1>4. larger \in Types
      /\ (t.id = "Numeric" /\ u.id = "Numeric" =>
              larger.precision = IF t.precision > u.precision THEN t.precision ELSE u.precision)
  OBVIOUS
<1>5. (t.nullable \/ u.nullable) \in BOOLEAN
  BY DEF Types
<1> HIDE DEF larger
<1>6. Infer.v = [larger EXCEPT !.nullable = t.nullable \/ u.nullable]
  BY <1>3 DEF Value
<1>7. Infer.v \in Types /\ Infer.v.precision = larger.precision
  BY <1>4, <1>5, <1>6 DEF Types
<1> QED
  BY <1>2, <1>4, <1>7

\* The two sides of a sum, and how they relate to its scale.
LEMMA SumMeets ==
    ASSUME NEW a, NEW b, GeneratedValue(a), GeneratedValue(b), a.raw \in Int, b.raw \in Int,
           NEW v, NEW w, Carries(v, a), Carries(w, b),
           NEW t \in Types,
           t.precision = IF a.type.precision > b.type.precision THEN a.type.precision
                                                               ELSE b.type.precision
    PROVE  /\ Meets("add", a, b, sqlAddImpl(v, w, t))
           /\ Meets("sub", a, b, sqlSubImpl(v, w, t))
<1> DEFINE p == a.type.precision
<1> DEFINE q == b.type.precision
<1> DEFINE d == IF p < q THEN q - p ELSE 0
<1> DEFINE e == IF q < p THEN p - q ELSE 0
<1> DEFINE l == Adjusted(v, w)
<1> DEFINE r == Adjusted(w, v)
<1>1. p \in Nat /\ q \in Nat /\ d \in Nat /\ e \in Nat
      /\ Scale(a) = powerOfTen[p] /\ Scale(b) = powerOfTen[q]
  BY NumericFacts
<1>2. l.raw \in Int /\ l.obit \in BOOLEAN /\ (~ l.obit => l.raw = a.raw * powerOfTen[d])
  BY AdjustedAmount
<1>3. r.raw \in Int /\ r.obit \in BOOLEAN /\ (~ r.obit => r.raw = b.raw * powerOfTen[e])
  BY AdjustedAmount
<1>4. \/ q = p + d /\ e = 0 /\ t.precision = p + d
      \/ p = q + e /\ d = 0 /\ t.precision = q + e
  BY <1>1
<1>5. powerOfTen[0] = 1 /\ \A n \in Nat : powerOfTen[n] \in Nat
  BY PowersOfTen
<1> DEFINE sum == CreateOverflowBinOp(l.raw + r.raw, LongBits)
<1> DEFINE difference == CreateOverflowBinOp(l.raw - r.raw, LongBits)
<1>6. sqlAddImpl(v, w, t) = Result(Known(t, sum.raw), l.obit \/ r.obit \/ sum.obit)
  BY DEF sqlAddImpl
<1>7. sqlSubImpl(v, w, t)
        = Result(Known(t, difference.raw), l.obit \/ r.obit \/ difference.obit)
  BY DEF sqlSubImpl
<1> HIDE DEF p, q, d, e, l, r
<1>8. sum.raw \in Int /\ sum.obit \in BOOLEAN /\ (~ sum.obit => sum.raw = l.raw + r.raw)
  <2>1. l.raw + r.raw \in Int
    BY <1>2, <1>3
  <2> QED
    BY <2>1, CheckedIsNumber, CheckedIsExact, WidthsAreNumbers
<1>9. /\ difference.raw \in Int /\ difference.obit \in BOOLEAN
      /\ ~ difference.obit => difference.raw = l.raw - r.raw
  <2>1. l.raw - r.raw \in Int
    BY <1>2, <1>3
  <2> QED
    BY <2>1, CheckedIsNumber, CheckedIsExact, WidthsAreNumbers
<1> HIDE DEF sum, difference
<1>10. ASSUME ~ l.obit, ~ r.obit
       PROVE  /\ (l.raw + r.raw) * powerOfTen[p] * powerOfTen[q]
                   = powerOfTen[t.precision] * (a.raw * powerOfTen[q] + b.raw * powerOfTen[p])
              /\ (l.raw - r.raw) * powerOfTen[p] * powerOfTen[q]
                   = powerOfTen[t.precision] * (a.raw * powerOfTen[q] - b.raw * powerOfTen[p])
  <2>1. CASE q = p + d /\ e = 0 /\ t.precision = p + d
    <3>1. l.raw = a.raw * powerOfTen[d] /\ r.raw = b.raw
      BY <1>2, <1>3, <1>5, <1>10, <2>1
    <3> QED
      BY <1>1, <2>1, <3>1, ScaledSum
  <2>2. CASE p = q + e /\ d = 0 /\ t.precision = q + e
    <3>1. l.raw = a.raw /\ r.raw = b.raw * powerOfTen[e]
      BY <1>2, <1>3, <1>5, <1>10, <2>2
    <3> QED
      BY <1>1, <2>2, <3>1, ScaledSum
  <2> QED
    BY <1>4, <2>1, <2>2
<1>11. Meets("add", a, b, sqlAddImpl(v, w, t))
  <2> DEFINE o == l.obit \/ r.obit \/ sum.obit
  <2>1. sum.raw \in Raws /\ o \in BOOLEAN
    BY <1>2, <1>3, <1>8 DEF Raws
  <2>2. ASSUME ~ o, NEW z, z.raw = sum.raw, z.type.precision = t.precision
        PROVE  ExactResult("add", a, b, z)
    <3>1. Scale(z) = powerOfTen[t.precision]
      BY <2>2 DEF Scale
    <3>2. z.raw = l.raw + r.raw /\ ~ l.obit /\ ~ r.obit
      BY <1>8, <2>2
    <3> QED
      BY <1>1, <1>10, <3>1, <3>2 DEF ExactResult
  <2> HIDE DEF o
  <2>3. o \/ \A z : z.raw = sum.raw /\ z.type.id = t.id /\ z.type.precision = t.precision
                    => ExactResult("add", a, b, z)
    BY <2>2
  <2>4. sqlAddImpl(v, w, t) = Result(Known(t, sum.raw), o)
    BY <1>6 DEF o
  <2> QED
    BY <2>1, <2>3, <2>4 DEF Meets
<1>12. Meets("sub", a, b, sqlSubImpl(v, w, t))
  <2> DEFINE o == l.obit \/ r.obit \/ difference.obit
  <2>1. difference.raw \in Raws /\ o \in BOOLEAN
    BY <1>2, <1>3, <1>9 DEF Raws
  <2>2. ASSUME ~ o, NEW z, z.raw = difference.raw, z.type.precision = t.precision
        PROVE  ExactResult("sub", a, b, z)
    <3>1. Scale(z) = powerOfTen[t.precision]
      BY <2>2 DEF Scale
    <3>2. z.raw = l.raw - r.raw /\ ~ l.obit /\ ~ r.obit
      BY <1>9, <2>2
    <3> QED
      BY <1>1, <1>10, <3>1, <3>2 DEF ExactResult
  <2> HIDE DEF o
  <2>3. o \/ \A z : z.raw = difference.raw /\ z.type.id = t.id
                    /\ z.type.precision = t.precision => ExactResult("sub", a, b, z)
    BY <2>2
  <2>4. sqlSubImpl(v, w, t) = Result(Known(t, difference.raw), o)
    BY <1>7 DEF o
  <2> QED
    BY <2>1, <2>3, <2>4 DEF Meets
<1> QED
  BY <1>11, <1>12

------------------------------------------------------------------------------
\* Operations on Integers.
LEMMA IntegersMeet ==
    ASSUME NEW a, NEW b, GeneratedValue(a), GeneratedValue(b),
           a.type.id = "Integer", b.type.id = "Integer"
    PROVE  /\ Meets("add", a, b, IntegerOp(a.raw + b.raw))
           /\ Meets("sub", a, b, IntegerOp(a.raw - b.raw))
           /\ Meets("mul", a, b, IntegerOp(a.raw * b.raw))
           /\ b.raw # 0 => Meets("div", a, b, Result(Known(getIntegerTy, SDiv(a.raw, b.raw)), FALSE))
<1>1. a.raw \in Int /\ b.raw \in Int /\ a.type.precision = 0 /\ b.type.precision = 0
  BY NumericFacts
<1>2. Scale(a) = 1 /\ Scale(b) = 1
  BY <1>1, PowersOfTen DEF Scale
<1>3. getIntegerTy \in Types /\ getIntegerTy.precision = 0
  BY IntegerTypes DEF IntegerType
<1>4. ASSUME NEW op, NEW n \in Int,
             \A z : z.raw = n /\ Scale(z) = 1 => ExactResult(op, a, b, z)
      PROVE  Meets(op, a, b, IntegerOp(n))
  <2> DEFINE c == CreateOverflowBinOp(n, IntBits)
  <2>1. c.raw \in Int /\ c.obit \in BOOLEAN /\ (~ c.obit => c.raw = n)
    BY CheckedIsNumber, CheckedIsExact, WidthsAreNumbers
  <2>2. IntegerOp(n) = Result(Known(getIntegerTy, c.raw), c.obit)
    BY DEF IntegerOp
  <2> HIDE DEF c
  <2>3. c.obit \/ \A z : z.raw = c.raw /\ z.type.id = getIntegerTy.id
                         /\ z.type.precision = getIntegerTy.precision => ExactResult(op, a, b, z)
    BY <1>3, <1>4, <2>1, PowersOfTen DEF Scale
  <2> QED
    BY <1>3, <2>1, <2>2, <2>3 DEF Meets, Raws
<1>5. Meets("add", a, b, IntegerOp(a.raw + b.raw))
  <2>1. ASSUME NEW z, z.raw = a.raw + b.raw, Scale(z) = 1
        PROVE  ExactResult("add", a, b, z)
    BY <1>1, <1>2, <2>1 DEF ExactResult
  <2> QED
    BY <1>1, <1>4, <2>1
<1>6. Meets("sub", a, b, IntegerOp(a.raw - b.raw))
  <2>1. ASSUME NEW z, z.raw = a.raw - b.raw, Scale(z) = 1
        PROVE  ExactResult("sub", a, b, z)
    BY <1>1, <1>2, <2>1 DEF ExactResult
  <2> QED
    BY <1>1, <1>4, <2>1
<1>7. Meets("mul", a, b, IntegerOp(a.raw * b.raw))
  <2>1. ASSUME NEW z, z.raw = a.raw * b.raw, Scale(z) = 1
        PROVE  ExactResult("mul", a, b, z)
    BY <1>1, <1>2, <2>1 DEF ExactResult
  <2>2. a.raw * b.raw \in Int
    BY <1>1
  <2> QED
    BY <1>4, <2>1, <2>2
<1>8. ASSUME b.raw # 0
      PROVE  Meets("div", a, b, Result(Known(getIntegerTy, SDiv(a.raw, b.raw)), FALSE))
  <2> DEFINE q == SDiv(a.raw, b.raw)
  <2>1. q \in Int
    BY <1>1, <1>8 DEF SDiv
  <2>2. ASSUME NEW z, z.raw = q, z.type.precision = getIntegerTy.precision
        PROVE  ExactResult("div", a, b, z)
    <3>1. Scale(z) = 1
      BY <1>3, <2>2, PowersOfTen DEF Scale
    <3>2. a.raw * 1 * 1 = a.raw /\ b.raw * 1 = b.raw
      BY <1>1
    <3> QED
      BY <1>2, <2>2, <3>1, <3>2 DEF ExactResult
  <2> HIDE DEF q
  <2>3. Meets("div", a, b, Result(Known(getIntegerTy, q), FALSE))
    BY <1>3, <2>1, <2>2 DEF Meets, Raws
  <2> QED
    BY <2>3 DEF q
<1> QED
  BY <1>5, <1>6, <1>7, <1>8

\* The parts of the result of an operation that was not kept from its operands.
LEMMA PresentOperands ==
    ASSUME NEW a, NEW b, GeneratedValue(a), GeneratedValue(b), ~ a.null, ~ b.null
    PROVE  /\ a.type \in Types /\ b.type \in Types
           /\ a.type.id # "Unknown" /\ b.type.id # "Unknown"
           /\ Carries(getAssociatedValue(a), a) /\ Carries(getAssociatedValue(b), b)
BY ValueFacts, AssociatedCarries DEF GeneratedValue

LEMMA AddActionMeets ==
    ASSUME NEW a, NEW b, GeneratedValue(a), GeneratedValue(b), ~ a.null, ~ b.null,
           NEW v, NEW w, Carries(v, a), Carries(w, b),
           NEW ty, ty = inferAddTy(a.type, b.type), ty # Throw
    PROVE  /\ sqlAddAction(v, w, ty.v).tag = "value" => Meets("add", a, b, sqlAddAction(v, w, ty.v))
           /\ sqlSubAction(v, w, ty.v).tag = "value" => Meets("sub", a, b, sqlSubAction(v, w, ty.v))
<1>1. /\ a.type \in Types /\ b.type \in Types
      /\ a.type.id # "Unknown" /\ b.type.id # "Unknown"
  BY PresentOperands
<1>2. a.type.id \in {"Integer", "Numeric"} /\ b.type.id \in {"Integer", "Numeric"}
  BY <1>1, TypeOfSum
<1>3. /\ v.raw = a.raw /\ w.raw = b.raw
      /\ v.type.id = a.type.id /\ w.type.id = b.type.id
  BY DEF Carries
<1>4. CASE a.type.id = "Integer" /\ b.type.id = "Integer"
  <2>1. /\ sqlAddAction(v, w, ty.v) = IntegerOp(a.raw + b.raw)
        /\ sqlSubAction(v, w, ty.v) = IntegerOp(a.raw - b.raw)
    BY <1>3, <1>4 DEF sqlAddAction, sqlSubAction, BothAre
  <2> QED
    BY <1>4, <2>1, IntegersMeet
<1>5. CASE a.type.id = "Numeric" /\ b.type.id = "Numeric"
  <2> DEFINE t == toNotNullableTy(ty.v)
  <2>1. /\ sqlAddAction(v, w, ty.v) = sqlAddImpl(v, w, t)
        /\ sqlSubAction(v, w, ty.v) = sqlSubImpl(v, w, t)
    BY <1>3, <1>5 DEF sqlAddAction, sqlSubAction, BothAre
  <2>2. ty.v \in Types
        /\ ty.v.precision = IF a.type.precision > b.type.precision THEN a.type.precision
                                                                  ELSE b.type.precision
    BY <1>1, <1>5, TypeOfSum
  <2>3. t \in Types /\ t.precision = ty.v.precision
    BY <2>2, WithoutNull
  <2> HIDE DEF t
  <2>4. a.raw \in Int /\ b.raw \in Int
    BY <1>5, NumericFacts
  <2>5. Meets("add", a, b, sqlAddImpl(v, w, t)) /\ Meets("sub", a, b, sqlSubImpl(v, w, t))
    BY <2>2, <2>3, <2>4, SumMeets
  <2> QED
    BY <2>1, <2>5
<1>6. CASE a.type.id # b.type.id
  <2>1. sqlAddAction(v, w, ty.v) = Throw /\ sqlSubAction(v, w, ty.v) = Throw
    BY <1>3, <1>6 DEF sqlAddAction, sqlSubAction, BothAre
  <2> QED
    BY <2>1 DEF Throw
<1> QED
  BY <1>2, <1>4, <1>5, <1>6

\* An operation that meets its exact result wherever there are no nulls is
\* sound.
LEMMA HandledIsSound ==
    ASSUME NEW op, op \notin {"cast", "not"},
           NEW a, NEW b, GeneratedValue(a), GeneratedValue(b),
           NEW unknown, NEW default, NEW direct, NEW behind, NEW r,
           Handled(a, b, unknown, default, direct, behind, r),
           ~ a.null /\ ~ b.null => /\ Carries(a, a) /\ Carries(b, b) /\ direct.tag = "value"
                                         => Meets(op, a, b, direct)
                                   /\ behind.tag = "value" => Meets(op, a, b, behind)
    PROVE  Sound(op, a, b, r)
<1>1. \/ (a.null \/ b.null) /\ r.v.null
      \/ /\ ~ a.null /\ ~ b.null
         /\ \/ Carries(a, a) /\ Carries(b, b) /\ direct.tag = "value" /\ SafeOf(direct, r)
            \/ behind.tag = "value" /\ SafeOf(behind, r)
  BY TwoOperandsHandled
<1> QED
  BY <1>1, MetIsSound DEF Sound, NullOperand

\* What nullHandler2 makes of an operation, given its result type, what it
\* gives for the operands and what it gives for the values behind them.
Handling(a, b, ty, direct, behind) ==
    IF ty = Throw THEN Unreachable
    ELSE IF isUnknown(a) \/ isUnknown(b) THEN NullResult(a.type)
    ELSE IF ~isNullable(a) /\ ~isNullable(b) THEN direct
    ELSE NullSafe(NullResult(ty.v), a.null \/ b.null, behind)

LEMMA HandlingIsSound ==
    ASSUME NEW op, op \notin {"cast", "not"},
           NEW a, NEW b, GeneratedValue(a), GeneratedValue(b),
           NEW ty, ty # Throw /\ a.type.id # "Unknown" /\ b.type.id # "Unknown" => ty.v \in Types,
           NEW direct, NEW behind, NEW r,
           r = Handling(a, b, ty, direct, behind), r.tag = "value",
           ty # Throw /\ ~ a.null /\ ~ b.null
               => /\ Carries(a, a) /\ Carries(b, b) /\ direct.tag = "value"
                        => Meets(op, a, b, direct)
                  /\ behind.tag = "value" => Meets(op, a, b, behind)
    PROVE  Sound(op, a, b, r)
<1>1. ty # Throw
  BY DEF Handling, Unreachable
<1>2. NullResult(a.type).tag = "value" => NullResult(a.type).v.null
  BY ValueFacts, NullResultIsNull
<1>3. ASSUME ~ isUnknown(a), ~ isUnknown(b), NullResult(ty.v).tag = "value"
      PROVE  NullResult(ty.v).v.null
  <2>1. ty.v.id \in TypeIDs
    BY <1>1, <1>3 DEF isUnknown, Types
  <2> QED
    BY <1>3, <2>1, NullResultIsNull
<1>4. Handled(a, b, NullResult(a.type), NullResult(ty.v), direct, behind, r)
  BY <1>1, <1>2, <1>3 DEF Handled, Handling
<1> QED
  BY <1>1, <1>4, HandledIsSound

LEMMA AddIsSound ==
    ASSUME NEW a, NEW b, GeneratedValue(a), GeneratedValue(b)
    PROVE  /\ sqlAdd(a, b).tag = "value" => Sound("add", a, b, sqlAdd(a, b))
           /\ sqlSub(a, b).tag = "value" => Sound("sub", a, b, sqlSub(a, b))
<1> DEFINE ty == inferAddTy(a.type, b.type)
<1> DEFINE v == getAssociatedValue(a)
<1> DEFINE w == getAssociatedValue(b)
<1>1. ty # Throw /\ a.type.id # "Unknown" /\ b.type.id # "Unknown" => ty.v \in Types
  BY ValueFacts, TypeOfSum
<1>2. ty # Throw /\ ~ a.null /\ ~ b.null
        => /\ Carries(a, a) /\ Carries(b, b)
                => /\ sqlAddAction(a, b, ty.v).tag = "value"
                          => Meets("add", a, b, sqlAddAction(a, b, ty.v))
                   /\ sqlSubAction(a, b, ty.v).tag = "value"
                          => Meets("sub", a, b, sqlSubAction(a, b, ty.v))
           /\ sqlAddAction(v, w, ty.v).tag = "value"
                  => Meets("add", a, b, sqlAddAction(v, w, ty.v))
           /\ sqlSubAction(v, w, ty.v).tag = "value"
                  => Meets("sub", a, b, sqlSubAction(v, w, ty.v))
  BY AddActionMeets, PresentOperands
<1>3. /\ sqlAdd(a, b) = Handling(a, b, ty, sqlAddAction(a, b, ty.v), sqlAddAction(v, w, ty.v))
      /\ sqlSub(a, b) = Handling(a, b, ty, sqlSubAction(a, b, ty.v), sqlSubAction(v, w, ty.v))
  BY DEF sqlAdd, sqlSub, inferSubTy, nullHandler2, Handling
<1> HIDE DEF ty, v, w
<1>4. sqlAdd(a, b).tag = "value" => Sound("add", a, b, sqlAdd(a, b))
  BY <1>1, <1>2, <1>3, HandlingIsSound
<1>5. sqlSub(a, b).tag = "value" => Sound("sub", a, b, sqlSub(a, b))
  BY <1>1, <1>2, <1>3, HandlingIsSound
<1> QED
  BY <1>4, <1>5

------------------------------------------------------------------------------
\* Products.  The type of a product of Numerics has all their digits behind
\* the point, if the table of shifts has that many.
LEMMA TypeOfProduct ==
    ASSUME NEW a, NEW b, GeneratedValue(a), GeneratedValue(b),
           inferMulTy(a.type, b.type) # Throw
    PROVE  /\ a.type.id \in {"Integer", "Numeric"} /\ b.type.id \in {"Integer", "Numeric"}
           /\ inferMulTy(a.type, b.type).v \in Types
           /\ a.type.id = "Numeric" /\ b.type.id = "Numeric"
              /\ a.type.precision + b.type.precision <= MaxDigits =>
                  inferMulTy(a.type, b.type).v.precision = a.type.precision + b.type.precision
<1> DEFINE t == a.type
<1> DEFINE u == b.type
<1> DEFINE precision == t.precision + u.precision
<1> DEFINE digits == IF t.length > u.length THEN t.length + u.precision
                     ELSE IF t.length < u.length THEN u.length + t.precision
                     ELSE t.length + u.length
<1>1. /\ t \in Types /\ u \in Types
      /\ t.length \in Nat /\ u.length \in Nat /\ t.precision \in Nat /\ u.precision \in Nat
      /\ t.nullable \in BOOLEAN /\ u.nullable \in BOOLEAN
  BY ValueFacts
<1>2. t.id \in {"Integer", "Numeric"} /\ u.id \in {"Integer", "Numeric"}
  BY DEF inferMulTy
<1>3. precision \in Nat /\ digits \in Nat /\ MaxDigits \in Nat
  BY <1>1, WidthsAssumption
<1>4. t.id = "Numeric" /\ u.id = "Numeric" => precision <= digits
  BY <1>1 DEF GeneratedValue
<1>5. precision = t.precision + u.precision
  OBVIOUS
<1> DEFINE n == getNumericTy(digits, precision)
<1>6. /\ n \in Types
      /\ n.precision = Least(precision, Least(digits, MaxDigits))
  <2>1. SqlType("Numeric", FALSE) \in Types
    BY DEF SqlType, Types, TypeIDs
  <2>2. Least(digits, MaxDigits) \in Nat /\ Least(precision, Least(digits, MaxDigits)) \in Nat
    BY <1>3 DEF Least
  <2>3. n = [SqlType("Numeric", FALSE) EXCEPT
                !.length = Least(digits, MaxDigits),
                !.precision = Least(precision, Least(digits, MaxDigits))]
    BY DEF getNumericTy
  <2> HIDE DEF n, precision, digits
  <2> QED
    BY <2>1, <2>2, <2>3 DEF Types
<1>7. t.id = "Numeric" /\ u.id = "Numeric" /\ precision <= MaxDigits
        => n.precision = precision
  BY <1>3, <1>4, <1>6 DEF Least
<1> DEFINE product == IF t.id = "Integer" THEN u ELSE IF u.id = "Integer" THEN t ELSE n
<1>8. inferMulTy(t, u) = Value([product EXCEPT !.nullable = t.nullable \/ u.nullable])
  <2>1. digits = CASE t.length > u.length -> t.length + (precision - t.precision)
                   [] t.length < u.length -> u.length + (precision - u.precision)
                   [] t.length = u.length -> t.length + u.length
    BY <1>1
  <2>2. inferMulTy(t, u) =
          LET product0 == CASE t.id = "Integer" -> u
                            [] t.id = "Numeric" /\ u.id = "Integer" -> t
                            [] t.id = "Numeric" /\ u.id = "Numeric" -> n
          IN  Value([product0 EXCEPT !.nullable = t.nullable \/ u.nullable])
    BY <1>2, <2>1 DEF inferMulTy
  <2> HIDE DEF n
  <2>3. CASE t.id = "Integer"
    BY <2>2, <2>3
  <2>4. CASE t.id = "Numeric" /\ u.id = "Integer"
    BY <2>2, <2>4
  <2>5. CASE t.id = "Numeric" /\ u.id = "Numeric"
    BY <2>2, <2>5
  <2> QED
    BY <1>2, <2>3, <2>4, <2>5
<1>9. product \in Types /\ (t.id = "Numeric" /\ u.id = "Numeric" => product = n)
  BY <1>1, <1>6
<1> HIDE DEF product, n
<1>10. (t.nullable \/ u.nullable) \in BOOLEAN
  BY <1>1
<1>11. inferMulTy(t, u).v = [product EXCEPT !.nullable = t.nullable \/ u.nullable]
  BY <1>8 DEF Value
<1>12. inferMulTy(t, u).v \in Types /\ inferMulTy(t, u).v.precision = product.precision
  BY <1>9, <1>10, <1>11 DEF Types
<1> QED
  BY <1>2, <1>7, <1>9, <1>12

LEMMA MulActionMeets ==
    ASSUME NEW a, NEW b, GeneratedValue(a), GeneratedValue(b),
           NEW v, NEW w, Carries(v, a), Carries(w, b),
           NEW ty, ty = inferMulTy(a.type, b.type), ty # Throw,
           sqlMulAction(v, w, ty.v).tag = "value"
    PROVE  Meets("mul", a, b, sqlMulAction(v, w, ty.v))
<1>1. a.type.id \in {"Integer", "Numeric"} /\ b.type.id \in {"Integer", "Numeric"}
  BY TypeOfProduct
<1>2. /\ v.raw = a.raw /\ w.raw = b.raw
      /\ v.type.id = a.type.id /\ w.type.id = b.type.id
  BY DEF Carries
<1>3. CASE a.type.id = "Integer" /\ b.type.id = "Integer"
  <2>1. sqlMulAction(v, w, ty.v) = IntegerOp(a.raw * b.raw)
    BY <1>2, <1>3 DEF sqlMulAction, BothAre
  <2> QED
    BY <1>3, <2>1, IntegersMeet
<1>4. CASE a.type.id = "Numeric" /\ b.type.id = "Numeric"
  <2> DEFINE t == toNotNullableTy(ty.v)
  <2> DEFINE c == CreateOverflowBinOp(a.raw * b.raw, LongBits)
  <2>1. sqlMulAction(v, w, ty.v) = Result(Known(t, c.raw), c.obit)
    BY <1>2, <1>4 DEF sqlMulAction, sqlMulImpl, BothAre
  <2>2. t \in Types /\ t.precision = ty.v.precision
    BY TypeOfProduct, WithoutNull
  <2>3. /\ a.raw \in Int /\ b.raw \in Int
        /\ Scale(a) \in Nat /\ Scale(b) \in Nat
        /\ a.type.precision \in Nat /\ b.type.precision \in Nat
        /\ Scale(a) = powerOfTen[a.type.precision] /\ Scale(b) = powerOfTen[b.type.precision]
    BY <1>4, NumericFacts
  <2>4. a.raw * b.raw \in Int
    BY <2>3
  <2>5. c.raw \in Int /\ c.obit \in BOOLEAN /\ (~ c.obit => c.raw = a.raw * b.raw)
    BY <2>4, CheckedIsNumber, CheckedIsExact, WidthsAreNumbers
  <2>6. a.type.precision + b.type.precision <= MaxDigits
          => t.precision = a.type.precision + b.type.precision
    BY <1>4, <2>2, TypeOfProduct
  <2> HIDE DEF t, c
  <2>7. ASSUME ~ c.obit, NEW z, z.raw = c.raw, z.type.precision = t.precision
        PROVE  ExactResult("mul", a, b, z)
    <3>1. CASE a.type.precision + b.type.precision <= MaxDigits
      <4>1. z.type.precision = a.type.precision + b.type.precision
        BY <2>6, <2>7, <3>1
      <4>4. powerOfTen[a.type.precision + b.type.precision]
              = powerOfTen[a.type.precision] * powerOfTen[b.type.precision]
        BY <2>3, PowersOfTen
      <4>5. Scale(z) = Scale(a) * Scale(b)
        BY <4>1, <4>4 DEF Scale
      <4>2. z.raw = a.raw * b.raw
        BY <2>5, <2>7
      <4>3. (a.raw * b.raw) * Scale(a) * Scale(b) = (Scale(a) * Scale(b)) * a.raw * b.raw
        BY <2>3
      <4> QED
        BY <4>2, <4>3, <4>5 DEF ExactResult
    <3>2. CASE ~ (a.type.precision + b.type.precision <= MaxDigits)
      BY <3>2 DEF ExactResult
    <3> QED
      BY <3>1, <3>2
  <2>8. c.obit \/ \A z : z.raw = c.raw /\ z.type.id = t.id /\ z.type.precision = t.precision
                         => ExactResult("mul", a, b, z)
    BY <2>7
  <2> QED
    BY <2>1, <2>2, <2>5, <2>8 DEF Meets, Raws
<1>5. CASE a.type.id # b.type.id
  BY <1>2, <1>5 DEF sqlMulAction, BothAre, Throw
<1> QED
  BY <1>1, <1>3, <1>4, <1>5

LEMMA MulIsSound ==
    ASSUME NEW a, NEW b, GeneratedValue(a), GeneratedValue(b), sqlMul(a, b).tag = "value"
    PROVE  Sound("mul", a, b, sqlMul(a, b))
<1> DEFINE ty == inferMulTy(a.type, b.type)
<1> DEFINE v == getAssociatedValue(a)
<1> DEFINE w == getAssociatedValue(b)
<1>1. ty # Throw => ty.v \in Types
  BY TypeOfProduct
<1>2. ty # Throw /\ ~ a.null /\ ~ b.null
        => /\ Carries(a, a) /\ Carries(b, b) /\ sqlMulAction(a, b, ty.v).tag = "value"
                => Meets("mul", a, b, sqlMulAction(a, b, ty.v))
           /\ sqlMulAction(v, w, ty.v).tag = "value"
                => Meets("mul", a, b, sqlMulAction(v, w, ty.v))
  BY MulActionMeets, PresentOperands
<1>3. sqlMul(a, b) = Handling(a, b, ty, sqlMulAction(a, b, ty.v), sqlMulAction(v, w, ty.v))
  BY DEF sqlMul, nullHandler2, Handling
<1> HIDE DEF ty, v, w
<1> QED
  BY <1>1, <1>2, <1>3, HandlingIsSound

------------------------------------------------------------------------------
\* Quotients of Numerics.  With the smaller scale in front, the dividend is
\* shifted by as much as is missing for the digits of the fraction.
LEMMA QuotientIsNumber ==
    ASSUME NEW x, x \in Int, NEW y, y \in Int \ {0}
    PROVE  SDiv(x, y) \in Int
<1> DEFINE m == IF x < 0 THEN - x ELSE x
<1> DEFINE k == IF y < 0 THEN - y ELSE y
<1>1. m \in Nat /\ k \in Nat \ {0}
  OBVIOUS
<1>2. SDiv(x, y) = IF (x < 0) = (y < 0) THEN m \div k ELSE - (m \div k)
  BY DEF SDiv
<1> HIDE DEF m, k
<1>3. m \div k \in Int
  BY <1>1
<1> QED
  BY <1>2, <1>3

LEMMA ShiftedQuotient ==
    ASSUME NEW x, x \in Int, NEW y, y \in Int \ {0},
           NEW p, p \in Nat, NEW q, q \in Nat, p <= q
    PROVE  SDiv(x * powerOfTen[2 * q - p], y)
             = SDiv(x * powerOfTen[q] * powerOfTen[q], y * powerOfTen[p])
<1> DEFINE d == 2 * q - p
<1>1. d \in Nat /\ d + p = q + q
  OBVIOUS
<1> HIDE DEF d
<1>2. /\ powerOfTen[d] \in Nat /\ powerOfTen[p] \in Nat \ {0} /\ powerOfTen[q] \in Nat
      /\ powerOfTen[d + p] = powerOfTen[d] * powerOfTen[p]
      /\ powerOfTen[q + q] = powerOfTen[q] * powerOfTen[q]
  BY <1>1, PowersOfTen
<1>3. powerOfTen[d] * powerOfTen[p] = powerOfTen[q] * powerOfTen[q]
  BY <1>1, <1>2
<1>4. /\ x * powerOfTen[q] * powerOfTen[q] = x * (powerOfTen[q] * powerOfTen[q])
      /\ x * (powerOfTen[d] * powerOfTen[p]) = (x * powerOfTen[d]) * powerOfTen[p]
      /\ x * powerOfTen[d] \in Int
  BY <1>2
<1>5. SDiv((x * powerOfTen[d]) * powerOfTen[p], y * powerOfTen[p]) = SDiv(x * powerOfTen[d], y)
  BY <1>2, <1>4, TruncatedCancels
<1>6. x * powerOfTen[q] * powerOfTen[q] = (x * powerOfTen[d]) * powerOfTen[p]
  BY <1>3, <1>4
<1> QED
  BY <1>5, <1>6 DEF d

\* The dividend and the divisor the machine is given.
LEMMA QuotientMeets ==
    ASSUME NEW a, NEW b, GeneratedValue(a), GeneratedValue(b), a.raw \in Int, b.raw \in Int,
           NEW v, NEW w, Carries(v, a), Carries(w, b),
           NEW t \in Types,
           t.precision = IF a.type.precision > b.type.precision THEN a.type.precision
                                                               ELSE b.type.precision,
           sqlDivImpl(v, w, t).tag = "value"
    PROVE  Meets("div", a, b, sqlDivImpl(v, w, t))
<1> DEFINE p == a.type.precision
<1> DEFINE q == b.type.precision
<1> DEFINE diff == p - q
<1> DEFINE l == IF diff <= 0 \/ diff < q
                THEN CreateOverflowBinOp(a.raw * numericShifts[q - diff], LongBits)
                ELSE [raw |-> a.raw, obit |-> FALSE]
<1> DEFINE r == IF diff > q
                THEN CreateOverflowBinOp(b.raw * numericShifts[diff - q], LongBits)
                ELSE [raw |-> b.raw, obit |-> FALSE]
<1> DEFINE x == SDiv(l.raw, r.raw)
<1> DEFINE o == l.obit \/ r.obit
<1>1. /\ p \in Nat /\ q \in Nat /\ p <= MaxDigits /\ q <= MaxDigits /\ MaxDigits \in Nat
      /\ Scale(a) = powerOfTen[p] /\ Scale(b) = powerOfTen[q]
  BY NumericFacts, WidthsAssumption
<1>2. v.raw = a.raw /\ w.raw = b.raw /\ v.type.precision = p /\ w.type.precision = q
  BY DEF Carries
<1>3. sqlDivImpl(v, w, t) = IF diff <= 0 /\ q - diff > MaxDigits THEN Wild
                            ELSE IF r.raw = 0 \/ ~Fits(x, LongBits) THEN Trap
                            ELSE Result(Known(t, x), o)
  BY <1>2 DEF sqlDivImpl
<1> HIDE DEF l, r, x, o
<1>4. /\ ~ (diff <= 0 /\ q - diff > MaxDigits) /\ r.raw # 0
      /\ sqlDivImpl(v, w, t) = Result(Known(t, x), o)
  BY <1>3 DEF Wild, Trap
<1>5. ASSUME diff <= 0 \/ diff < q
      PROVE  /\ l.raw \in Int /\ l.obit \in BOOLEAN
             /\ ~ l.obit => l.raw = a.raw * powerOfTen[q - diff]
  <2> DEFINE n == q - diff
  <2>1. n \in Nat /\ n <= MaxDigits
    BY <1>1, <1>4, <1>5
  <2>2. l = CreateOverflowBinOp(a.raw * numericShifts[n], LongBits)
    BY <1>5 DEF l
  <2> HIDE DEF n
  <2>3. numericShifts[n] = powerOfTen[n] /\ a.raw * numericShifts[n] \in Int
    BY <2>1, ShiftsArePowers
  <2>4. l.raw \in Int /\ l.obit \in BOOLEAN /\ (~ l.obit => l.raw = a.raw * powerOfTen[n])
    BY <2>2, <2>3, CheckedIsNumber, CheckedIsExact, WidthsAreNumbers
  <2> QED
    BY <2>4 DEF n
<1>6. l.raw \in Int /\ l.obit \in BOOLEAN
  <2>1. CASE ~ (diff <= 0 \/ diff < q)
    BY <2>1 DEF l
  <2> QED
    BY <1>5, <2>1
<1>7. r.raw \in Int /\ r.obit \in BOOLEAN
  <2>1. CASE diff > q
    <3> DEFINE n == diff - q
    <3>1. n \in Nat /\ n <= MaxDigits
      BY <1>1, <2>1
    <3>2. r = CreateOverflowBinOp(b.raw * numericShifts[n], LongBits)
      BY <2>1 DEF r
    <3> HIDE DEF n
    <3>3. b.raw * numericShifts[n] \in Int
      BY <3>1, ShiftsArePowers
    <3> QED
      BY <3>2, <3>3, CheckedIsNumber, WidthsAreNumbers
  <2>2. CASE ~ (diff > q)
    BY <2>2 DEF r
  <2> QED
    BY <2>1, <2>2
<1>8. x \in Int /\ o \in BOOLEAN
  BY <1>4, <1>6, <1>7, QuotientIsNumber DEF x, o
<1>9. ASSUME ~ o, NEW z, z.raw = x, z.type.precision = t.precision
      PROVE  ExactResult("div", a, b, z)
  <2>1. CASE p <= q
    <3>1. diff <= 0 /\ ~ (diff > q) /\ q - diff = 2 * q - p
      BY <1>1, <2>1
    <3>2. l.raw = a.raw * powerOfTen[2 * q - p]
      BY <1>5, <1>9, <3>1 DEF o
    <3>3. r.raw = b.raw
      BY <3>1 DEF r
    <3>4. x = SDiv(a.raw * powerOfTen[2 * q - p], b.raw) /\ b.raw # 0
      BY <1>4, <3>2, <3>3 DEF x
    <3>5. z.type.precision = q
      BY <1>1, <1>9, <2>1
    <3>6. SDiv(a.raw * powerOfTen[2 * q - p], b.raw)
            = SDiv(a.raw * powerOfTen[q] * powerOfTen[q], b.raw * powerOfTen[p])
      BY <1>1, <2>1, <3>4, ShiftedQuotient
    <3> QED
      BY <1>1, <1>9, <3>4, <3>5, <3>6 DEF ExactResult, Scale
  <2>2. CASE ~ (p <= q)
    BY <2>2 DEF ExactResult
  <2> QED
    BY <2>1, <2>2
<1>10. o \/ \A z : z.raw = x /\ z.type.id = t.id /\ z.type.precision = t.precision
                     => ExactResult("div", a, b, z)
  BY <1>9
<1> QED
  BY <1>4, <1>8, <1>10 DEF Meets, Raws

LEMMA DivActionMeets ==
    ASSUME NEW a, NEW b, GeneratedValue(a), GeneratedValue(b), ~ a.null, ~ b.null,
           NEW v, NEW w, Carries(v, a), Carries(w, b),
           NEW ty, ty = inferDivTy(a.type, b.type), ty # Throw,
           sqlDivAction(v, w, ty.v).tag = "value"
    PROVE  Meets("div", a, b, sqlDivAction(v, w, ty.v))
<1>1. /\ a.type \in Types /\ b.type \in Types
      /\ a.type.id # "Unknown" /\ b.type.id # "Unknown"
  BY PresentOperands
<1>2. a.type.id \in {"Integer", "Numeric"} /\ b.type.id \in {"Integer", "Numeric"}
  BY <1>1, TypeOfSum
<1>3. /\ v.raw = a.raw /\ w.raw = b.raw
      /\ v.type.id = a.type.id /\ w.type.id = b.type.id
  BY DEF Carries
<1>4. a.type.id = b.type.id /\ b.raw # 0
  <2>1. CASE a.type.id # b.type.id
    <3>1. sqlDivAction(v, w, ty.v) = Throw
      BY <1>3, <2>1 DEF sqlDivAction, BothAre
    <3> QED
      BY <3>1 DEF Throw
  <2>2. CASE a.type.id = b.type.id /\ b.raw = 0
    <3>1. sqlDivAction(v, w, ty.v) = Return
      BY <1>3, <2>2 DEF sqlDivAction, BothAre
    <3> QED
      BY <3>1 DEF Return
  <2> QED
    BY <2>1, <2>2
<1>5. CASE a.type.id = "Integer"
  <2>1. sqlDivAction(v, w, ty.v)
          = IF Fits(SDiv(a.raw, b.raw), IntBits)
            THEN Result(Known(getIntegerTy, SDiv(a.raw, b.raw)), FALSE) ELSE Trap
    BY <1>3, <1>4, <1>5 DEF sqlDivAction, BothAre
  <2>2. CASE ~ Fits(SDiv(a.raw, b.raw), IntBits)
    <3>1. sqlDivAction(v, w, ty.v) = Trap
      BY <2>1, <2>2
    <3> QED
      BY <3>1 DEF Trap
  <2>3. CASE Fits(SDiv(a.raw, b.raw), IntBits)
    <3>1. sqlDivAction(v, w, ty.v) = Result(Known(getIntegerTy, SDiv(a.raw, b.raw)), FALSE)
      BY <2>1, <2>3
    <3>2. Meets("div", a, b, Result(Known(getIntegerTy, SDiv(a.raw, b.raw)), FALSE))
      BY <1>4, <1>5, IntegersMeet
    <3> QED
      BY <3>1, <3>2
  <2> QED
    BY <2>2, <2>3
<1>6. CASE a.type.id = "Numeric"
  <2> DEFINE t == toNotNullableTy(ty.v)
  <2>1. sqlDivAction(v, w, ty.v) = sqlDivImpl(v, w, t)
    BY <1>3, <1>4, <1>6 DEF sqlDivAction, BothAre
  <2>2. ty.v \in Types
        /\ ty.v.precision = IF a.type.precision > b.type.precision THEN a.type.precision
                                                                  ELSE b.type.precision
    BY <1>1, <1>4, <1>6, TypeOfSum
  <2>3. t \in Types /\ t.precision = ty.v.precision
    BY <2>2, WithoutNull
  <2> HIDE DEF t
  <2>4. a.raw \in Int /\ b.raw \in Int
    BY <1>4, <1>6, NumericFacts
  <2>5. Meets("div", a, b, sqlDivImpl(v, w, t))
    BY <2>1, <2>2, <2>3, <2>4, QuotientMeets
  <2> QED
    BY <2>1, <2>5
<1> QED
  BY <1>2, <1>5, <1>6

LEMMA DivIsSound ==
    ASSUME NEW a, NEW b, GeneratedValue(a), GeneratedValue(b), sqlDiv(a, b).tag = "value"
    PROVE  Sound("div", a, b, sqlDiv(a, b))
<1> DEFINE ty == inferDivTy(a.type, b.type)
<1> DEFINE v == getAssociatedValue(a)
<1> DEFINE w == getAssociatedValue(b)
<1>1. ty # Throw /\ a.type.id # "Unknown" /\ b.type.id # "Unknown" => ty.v \in Types
  BY ValueFacts, TypeOfSum
<1>2. ty # Throw /\ ~ a.null /\ ~ b.null
        => /\ Carries(a, a) /\ Carries(b, b) /\ sqlDivAction(a, b, ty.v).tag = "value"
                => Meets("div", a, b, sqlDivAction(a, b, ty.v))
           /\ sqlDivAction(v, w, ty.v).tag = "value"
                => Meets("div", a, b, sqlDivAction(v, w, ty.v))
  BY DivActionMeets, PresentOperands
<1>3. sqlDiv(a, b) = Handling(a, b, ty, sqlDivAction(a, b, ty.v), sqlDivAction(v, w, ty.v))
  BY DEF sqlDiv, nullHandler2, Handling
<1> HIDE DEF ty, v, w
<1> QED
  BY <1>1, <1>2, <1>3, HandlingIsSound

------------------------------------------------------------------------------
\* Comparison.  A number within the width of its class is its own signed
\* representation.
LEMMA ClassFacts ==
    ASSUME NEW t, t.id \in Integral
    PROVE  Class(t).bits \in Nat \ {0}
<1>1. CASE t.id = "Integer"
  BY <1>1, WidthsAssumption DEF Class, Integer
<1>2. CASE t.id = "LongInteger"
  BY <1>2, WidthsAssumption DEF Class, LongInteger
<1>3. CASE t.id = "Numeric"
  BY <1>3, WidthsAssumption DEF Class, Numeric
<1>4. CASE t.id = "Bool"
  BY <1>4 DEF Class, Bool
<1>5. CASE t.id = "Date"
  BY <1>5, WidthsAssumption DEF Class, Date
<1>6. CASE t.id = "Timestamp"
  BY <1>6, WidthsAssumption DEF Class, Timestamp
<1> QED
  BY <1>1, <1>2, <1>3, <1>4, <1>5, <1>6 DEF Integral

LEMMA ClassOfId ==
    ASSUME NEW t, NEW u, t.id = u.id, t.id \in Integral
    PROVE  Class(t) = Class(u)
BY DEF Class, Integral

LEMMA CompareMeets ==
    ASSUME NEW a, NEW b, GeneratedValue(a), GeneratedValue(b), ~ a.null, ~ b.null,
           NEW v, NEW w, Carries(v, a), Carries(w, b),
           inferCompareTy(a.type, b.type) # Throw,
           BoolResult(compare(v, w, "less")).tag = "value"
    PROVE  Meets("less", a, b, BoolResult(compare(v, w, "less")))
<1>1. /\ v.raw = a.raw /\ w.raw = b.raw /\ ~ v.type.nullable
      /\ v.type.id = a.type.id /\ w.type.id = b.type.id
  BY DEF Carries
<1>2. a.type.id # "Unknown" /\ a.type \in Types /\ b.type \in Types
  BY PresentOperands
<1> DEFINE x == Signed(v.raw, v.type) < Signed(w.raw, v.type)
<1>3. compare(v, w, "less") = IF v.type.id \notin Integral THEN Throw ELSE Value(x)
  BY <1>1, <1>2 DEF compare
<1> HIDE DEF x
<1>4. a.type.id \in Integral
  <2>1. CASE a.type.id \notin Integral
    <3>1. compare(v, w, "less") = Throw
      BY <1>1, <1>3, <2>1
    <3>2. Throw.tag # "value"
      BY DEF Throw
    <3>3. BoolResult(compare(v, w, "less")) = Throw
      BY <3>1, <3>2 DEF BoolResult
    <3> QED
      BY <3>2, <3>3
  <2> QED
    BY <2>1
<1> DEFINE n == IF x THEN 1 ELSE 0
<1>5. BoolResult(compare(v, w, "less")) = Result(Known(getBoolTy, n), FALSE)
  <2>1. compare(v, w, "less") = Value(x)
    BY <1>1, <1>3, <1>4
  <2>2. Value(x).tag = "value" /\ Value(x).v = x
    BY DEF Value
  <2> QED
    BY <2>1, <2>2 DEF BoolResult
<1>6. a.type.id = b.type.id
  <2>1. a.type.id # "Text"
    BY <1>4 DEF Integral
  <2>2. toNotNullableTy(a.type) = toNotNullableTy(b.type)
    BY <2>1 DEF inferCompareTy, EqualTypes
  <2> QED
    BY <1>2, <2>2, WithoutNull
<1>7. ASSUME a.type.id # "Bool"
      PROVE  x <=> a.raw < b.raw
  <2> DEFINE bits == Class(a.type).bits
  <2>1. bits \in Nat \ {0} /\ Class(v.type).bits = bits /\ Class(b.type).bits = bits
    BY <1>1, <1>4, <1>6, ClassFacts, ClassOfId
  <2>2. a.raw \in Int /\ Fits(a.raw, bits) /\ b.raw \in Int /\ Fits(b.raw, bits)
    BY <1>4, <1>6, <1>7, <2>1 DEF GeneratedValue
  <2> HIDE DEF bits
  <2>3. Wrap(a.raw, bits) = a.raw /\ Wrap(b.raw, bits) = b.raw
    BY <2>1, <2>2, FittingIsKept
  <2> QED
    BY <1>1, <2>1, <2>3 DEF x, Signed
<1>8. ASSUME NEW z, z.raw = n
      PROVE  ExactResult("less", a, b, z)
  BY <1>7, <1>8 DEF ExactResult
<1>9. n \in Raws
  BY DEF Raws
<1> HIDE DEF n
<1> QED
  BY <1>5, <1>8, <1>9, BoolTypes DEF Meets

LEMMA LessIsSound ==
    ASSUME NEW a, NEW b, GeneratedValue(a), GeneratedValue(b),
           sqlCompare(a, b, "less").tag = "value"
    PROVE  Sound("less", a, b, sqlCompare(a, b, "less"))
<1> DEFINE ty == inferCompareTy(a.type, b.type)
<1> DEFINE v == getAssociatedValue(a)
<1> DEFINE w == getAssociatedValue(b)
<1>1. ty # Throw => ty.v \in Types
  <2>1. a.type.nullable \in BOOLEAN /\ b.type.nullable \in BOOLEAN
    BY ValueFacts
  <2>2. (a.type.nullable \/ b.type.nullable) \in BOOLEAN
    BY <2>1
  <2>3. [getBoolTy EXCEPT !.nullable = a.type.nullable \/ b.type.nullable] \in Types
    BY <2>2, BoolTypes DEF Types
  <2> QED
    BY <2>3 DEF inferCompareTy, Value
<1>2. ty # Throw /\ ~ a.null /\ ~ b.null
        => /\ Carries(a, a) /\ Carries(b, b) /\ BoolResult(compare(a, b, "less")).tag = "value"
                => Meets("less", a, b, BoolResult(compare(a, b, "less")))
           /\ BoolResult(compare(v, w, "less")).tag = "value"
                => Meets("less", a, b, BoolResult(compare(v, w, "less")))
  BY CompareMeets, PresentOperands
<1>3. sqlCompare(a, b, "less")
        = Handling(a, b, ty, BoolResult(compare(a, b, "less")), BoolResult(compare(v, w, "less")))
  BY DEF sqlCompare, nullHandler2, Handling
<1> HIDE DEF ty, v, w
<1> QED
  BY <1>1, <1>2, <1>3, HandlingIsSound

------------------------------------------------------------------------------
\* Operations of one operand.
LEMMA OneOperandIsSound ==
    ASSUME NEW op, op \in {"cast", "not"},
           NEW a, NEW b, GeneratedValue(a), ~ isUnknown(a),
           NEW ty, ty.id \in TypeIDs, NEW direct, NEW behind,
           NEW r, r.tag = "value",
           r = IF ~isNullable(a) THEN direct
               ELSE NullSafe(NullResult(ty), a.null, behind),
           ~ a.null => /\ Carries(a, a) /\ direct.tag = "value" => Meets(op, a, b, direct)
                       /\ behind.tag = "value" => Meets(op, a, b, behind)
    PROVE  Sound(op, a, b, r)
<1>1. NullResult(ty).tag = "value" => NullResult(ty).v.null
  BY NullResultIsNull
<1>2. Handled(a, a, NullResult(ty), NullResult(ty), direct, behind, r)
  <2>1. (a.null \/ a.null) = a.null
    BY ValueFacts
  <2> QED
    BY <1>1, <2>1 DEF Handled
<1>3. \/ a.null /\ r.v.null
      \/ /\ ~ a.null
         /\ \/ Carries(a, a) /\ direct.tag = "value" /\ SafeOf(direct, r)
            \/ behind.tag = "value" /\ SafeOf(behind, r)
  BY <1>2, TwoOperandsHandled
<1> QED
  BY <1>3, MetIsSound DEF Sound, NullOperand

\* A value that is kept as it is.
LEMMA KeptValue ==
    ASSUME NEW a, NEW v, Carries(v, a)
    PROVE  v = Known(v.type, v.raw) /\ v.type \in Types /\ v.raw \in Raws
<1>1. v \in [type : Types, raw : Raws, null : BOOLEAN] /\ v.null = FALSE
  BY DEF Carries, TypedValues
<1>2. v = [type |-> v.type, raw |-> v.raw, null |-> FALSE]
  BY <1>1
<1> QED
  BY <1>1, <1>2 DEF Known

LEMMA WrappedIsNumber ==
    ASSUME NEW n, n \in Int, NEW bits, bits \in Nat \ {0}
    PROVE  Wrap(n, bits) \in Int
BY CheckedIsNumber DEF CreateOverflowBinOp

LEMMA CastMeets ==
    ASSUME NEW a, NEW b, GeneratedValue(a), GeneratedValue(b), ~ a.null,
           NEW v, Carries(v, a),
           NEW ty, ty = toNotNullableTy(b.type), sqlCastAction(v, ty).tag = "value"
    PROVE  Meets("cast", a, b, sqlCastAction(v, ty))
<1> DEFINE p == a.type.precision
<1> DEFINE q == ty.precision
<1>1. /\ v.raw = a.raw /\ v.type.id = a.type.id /\ v.type.precision = p
      /\ v = Known(v.type, v.raw) /\ v.type \in Types /\ v.raw \in Raws
  BY KeptValue DEF Carries
<1>2. ty \in Types /\ q = b.type.precision
  BY ValueFacts, WithoutNull
<1>3. /\ p \in Nat /\ q \in Nat /\ p <= MaxDigits /\ q <= MaxDigits /\ MaxDigits \in Nat
      /\ Scale(a) = powerOfTen[p] /\ powerOfTen[p] \in Nat
  BY <1>2, NumericFacts, WidthsAssumption
<1>4. Throw.tag # "value"
  BY DEF Throw
<1>5. a.type.id \in {"Integer", "Numeric"}
  <2>1. CASE a.type.id \notin {"Integer", "Numeric"}
    <3>1. sqlCastAction(v, ty) = Throw
      BY <1>1, <2>1 DEF sqlCastAction
    <3> QED
      BY <1>4, <3>1
  <2> QED
    BY <2>1
<1>6. a.raw \in Int /\ (a.type.id = "Integer" => p = 0)
  BY <1>5, NumericFacts
<1>7. sqlCastAction(v, ty) = IF a.type.id = "Integer" THEN castInteger(v, ty)
                                                     ELSE castNumeric(v, ty)
  BY <1>1, <1>5 DEF sqlCastAction
<1>8. ty.id \in {"Integer", "Numeric"}
  <2>1. CASE ty.id \notin {"Integer", "Numeric"}
    <3>1. castInteger(v, ty) = Throw /\ castNumeric(v, ty) = Throw
      BY <2>1 DEF castInteger, castNumeric
    <3> QED
      BY <1>4, <1>7, <3>1
  <2> QED
    BY <2>1
<1> HIDE DEF p, q
<1>9. CASE ty.id = "Integer"
  <2>1. ASSUME NEW z, z.type.id = "Integer"
        PROVE  ExactResult("cast", a, b, z)
    BY <2>1 DEF ExactResult
  <2>2. CASE a.type.id = "Integer"
    <3>1. sqlCastAction(v, ty) = Result(Known(v.type, v.raw), FALSE)
      BY <1>1, <1>7, <1>9, <2>2 DEF castInteger
    <3>2. \A z : z.raw = v.raw /\ z.type.id = v.type.id
                 /\ z.type.precision = v.type.precision => ExactResult("cast", a, b, z)
      BY <1>1, <2>1, <2>2
    <3> QED
      BY <1>1, <3>1, <3>2 DEF Meets
  <2>3. CASE a.type.id = "Numeric"
    <3> DEFINE n == Wrap(SDiv(v.raw, numericShifts[ty.precision]), IntBits)
    <3>1. sqlCastAction(v, ty) = Result(Known(getIntegerTy, n), FALSE)
      BY <1>7, <1>9, <2>3 DEF castNumeric
    <3>2. n \in Int
      <4>1. numericShifts[ty.precision] \in Nat \ {0}
        BY <1>3, ShiftsArePowers DEF q
      <4>2. SDiv(v.raw, numericShifts[ty.precision]) \in Int
        BY <1>1, <1>6, <4>1, QuotientIsNumber
      <4> QED
        BY <4>2, WrappedIsNumber, WidthsAreNumbers
    <3> HIDE DEF n
    <3>3. getIntegerTy \in Types /\ getIntegerTy.id = "Integer"
      BY IntegerTypes DEF IntegerType
    <3>4. \A z : z.raw = n /\ z.type.id = getIntegerTy.id
                 /\ z.type.precision = getIntegerTy.precision => ExactResult("cast", a, b, z)
      BY <2>1, <3>3
    <3> QED
      BY <3>1, <3>2, <3>3, <3>4 DEF Meets, Raws
  <2> QED
    BY <1>5, <2>2, <2>3
<1>10. CASE ty.id = "Numeric"
  <2> DEFINE Exact(n) == q >= p /\ Fits(a.raw * powerOfTen[q - p], LongBits)
                            => n * powerOfTen[p] = powerOfTen[q] * a.raw
  <2>1. ASSUME NEW n, Exact(n), NEW z, z.raw = n, z.type.precision = q
        PROVE  ExactResult("cast", a, b, z)
    BY <1>3, <2>1 DEF ExactResult, Scale, p
  <2>2. ASSUME NEW d \in Nat, q = p + d
        PROVE  (a.raw * powerOfTen[d]) * powerOfTen[p] = powerOfTen[q] * a.raw
    <3>1. /\ powerOfTen[d] \in Nat
          /\ powerOfTen[p + d] = powerOfTen[p] * powerOfTen[d]
      BY <1>3, PowersOfTen
    <3>2. (a.raw * powerOfTen[d]) * powerOfTen[p] = (powerOfTen[p] * powerOfTen[d]) * a.raw
      BY <1>3, <1>6, <3>1
    <3> QED
      BY <2>2, <3>1, <3>2
  <2>3. ASSUME NEW n \in Int, NEW o \in BOOLEAN, o \/ Exact(n),
               sqlCastAction(v, ty) = Result(Known(ty, n), o)
        PROVE  Meets("cast", a, b, sqlCastAction(v, ty))
    <3> HIDE DEF Exact
    <3>1. o \/ \A z : z.raw = n /\ z.type.id = ty.id /\ z.type.precision = ty.precision
                        => ExactResult("cast", a, b, z)
      BY <2>1, <2>3 DEF q
    <3> QED
      BY <1>2, <2>3, <3>1 DEF Meets, Raws
  <2>4. CASE a.type.id = "Integer"
    <3> DEFINE n == Wrap(a.raw * numericShifts[q], LongBits)
    <3>1. sqlCastAction(v, ty) = Result(Known(ty, n), FALSE)
      BY <1>1, <1>7, <1>10, <2>4 DEF castInteger, q
    <3>2. numericShifts[q] = powerOfTen[q] /\ numericShifts[q] \in Nat
      BY <1>3, ShiftsArePowers
    <3>3. a.raw * numericShifts[q] \in Int
      BY <1>6, <3>2
    <3>4. n \in Int
      BY <3>3, WrappedIsNumber, WidthsAreNumbers
    <3>5. p = 0 /\ q = p + q /\ q - p = q
      BY <1>3, <1>6, <2>4
    <3>6. ASSUME Fits(a.raw * powerOfTen[q - p], LongBits)
          PROVE  n = a.raw * powerOfTen[q]
      BY <3>2, <3>3, <3>5, <3>6, FittingIsKept, WidthsAreNumbers
    <3> HIDE DEF n
    <3>7. Exact(n)
      BY <1>3, <2>2, <3>5, <3>6
    <3> QED
      BY <2>3, <3>1, <3>4, <3>7
  <2>5. CASE a.type.id = "Numeric" /\ q < p
    <3> DEFINE n == SDiv(a.raw, numericShifts[p - q])
    <3>1. ty.precision - v.type.precision < 0
          /\ - (ty.precision - v.type.precision) = p - q
      BY <1>1, <1>3, <2>5 DEF q
    <3>2. sqlCastAction(v, ty) = Result(Known(ty, n), FALSE)
      BY <1>1, <1>7, <1>10, <2>5, <3>1 DEF castNumeric
    <3>3. p - q \in Nat /\ p - q <= MaxDigits
      BY <1>3, <2>5
    <3>4. n \in Int
      BY <1>6, <3>3, ShiftsArePowers, QuotientIsNumber
    <3> HIDE DEF n
    <3>5. Exact(n)
      BY <1>3, <2>5
    <3> QED
      BY <2>3, <3>2, <3>4, <3>5
  <2>6. CASE a.type.id = "Numeric" /\ q = p
    <3>1. ~ (ty.precision - v.type.precision < 0) /\ ~ (ty.precision - v.type.precision > 0)
      BY <1>1, <1>3, <2>6 DEF q
    <3>2. sqlCastAction(v, ty) = Result(Known(v.type, a.raw), FALSE)
      BY <1>1, <1>7, <1>10, <2>6, <3>1 DEF castNumeric
    <3>3. a.raw * powerOfTen[p] = powerOfTen[q] * a.raw
      BY <1>3, <1>6, <2>6
    <3>4. \A z : z.raw = a.raw /\ z.type.precision = v.type.precision
                    => ExactResult("cast", a, b, z)
      BY <1>1, <2>1, <2>6, <3>3
    <3> HIDE DEF Exact
    <3> QED
      BY <1>1, <3>2, <3>4 DEF Meets
  <2>7. CASE a.type.id = "Numeric" /\ p < q
    <3> DEFINE d == q - p
    <3> DEFINE c == CreateOverflowBinOp(a.raw * numericShifts[d], LongBits)
    <3>1. ~ (ty.precision - v.type.precision < 0) /\ ty.precision - v.type.precision > 0
          /\ ty.precision - v.type.precision = d
      BY <1>1, <1>3, <2>7 DEF q
    <3>2. sqlCastAction(v, ty) = Result(Known(ty, c.raw), c.obit)
      BY <1>1, <1>7, <1>10, <2>7, <3>1 DEF castNumeric
    <3>3. d \in Nat /\ d <= MaxDigits /\ q = p + d
      BY <1>3, <2>7
    <3> HIDE DEF d
    <3>4. numericShifts[d] = powerOfTen[d] /\ a.raw * numericShifts[d] \in Int
      BY <1>6, <3>3, ShiftsArePowers
    <3>5. /\ c.raw \in Int /\ c.obit \in BOOLEAN
          /\ ~ c.obit => c.raw = a.raw * powerOfTen[d]
      BY <3>4, CheckedIsNumber, CheckedIsExact, WidthsAreNumbers
    <3> HIDE DEF c
    <3>6. c.obit \/ Exact(c.raw)
      BY <2>2, <3>3, <3>5
    <3> QED
      BY <2>3, <3>2, <3>5, <3>6
  <2> QED
    BY <1>3, <1>5, <2>4, <2>5, <2>6, <2>7
<1> QED
  BY <1>8, <1>9, <1>10

LEMMA CastIsSound ==
    ASSUME NEW a, NEW b, GeneratedValue(a), GeneratedValue(b),
           sqlCast(a, b.type).tag = "value"
    PROVE  Sound("cast", a, b, sqlCast(a, b.type))
<1> DEFINE ty == toNotNullableTy(b.type)
<1> DEFINE v == getAssociatedValue(a)
<1>1. ty.id \in TypeIDs
  BY ValueFacts, WithoutNull
<1>2. ~ isUnknown(a)
  BY DEF sqlCast, Throw
<1>3. sqlCast(a, b.type) = IF ~isNullable(a) THEN sqlCastAction(a, ty)
                           ELSE NullSafe(NullResult(ty), a.null, sqlCastAction(v, ty))
  BY <1>2 DEF sqlCast, nullHandler1
<1>4. ~ a.null => /\ Carries(a, a) /\ sqlCastAction(a, ty).tag = "value"
                         => Meets("cast", a, b, sqlCastAction(a, ty))
                  /\ sqlCastAction(v, ty).tag = "value"
                         => Meets("cast", a, b, sqlCastAction(v, ty))
  BY CastMeets, AssociatedCarries
<1> HIDE DEF ty, v
<1> QED
  BY <1>1, <1>2, <1>3, <1>4, OneOperandIsSound

------------------------------------------------------------------------------
\* Logic.  No null of type Bool is made: the text it is read from is not a
\* number.  So an operation on nullable operands has no result.
LEMMA TextFalse ==
    castStringToIntegerValue(<<"false">>) = Throw
<1> DEFINE s == <<"false">>
<1>1. DOMAIN s = {1} /\ s[1] = "false" /\ Len(s) = 1 /\ s \in Seq({"false"})
  OBVIOUS
<1>2. Max({1}) = 1
  <2>1. 1 \in {1} /\ \A y \in {1} : 1 >= y
    OBVIOUS
  <2>2. Max({1}) \in {1}
    BY <2>1, Zenon DEF Max
  <2> QED
    BY <2>2
<1>3. SubSeq(s, 1, 1) = s
  <2> DEFINE t == SubSeq(s, 1, 1)
  <2>1. t \in Seq({"false"}) /\ Len(t) = 1 /\ t[1] = "false"
    BY <1>1
  <2> HIDE DEF t
  <2>2. t = [i \in 1 .. 1 |-> "false"] /\ s = [i \in 1 .. 1 |-> "false"]
    BY <1>1, <2>1
  <2> QED
    BY <2>2 DEF t
<1>4. TrimmedRight(s, " ") = s
  <2>1. {i \in DOMAIN s : s[i] # " "} = {1}
    BY <1>1
  <2> QED
    BY <1>2, <1>3, <2>1 DEF TrimmedRight
<1>5. Reverse(s) = s
  BY DEF Reverse
<1>6. Trimmed(s) = s
  BY <1>4, <1>5 DEF Trimmed, TrimmedLeft
<1>7. Unsigned(s) = s
  BY <1>1 DEF Unsigned
<1>8. BeforePoint(s) = s
  <2>1. {i \in DOMAIN s : s[i] = "."} = {}
    BY <1>1
  <2> QED
    BY <2>1 DEF BeforePoint
<1>9. ~ AllDigits(s)
  <2>1. ~ IsDigit("false")
    <3>1. \A i \in 1 .. 10 : DigitChars[i] # "false"
      BY DEF DigitChars
    <3> QED
      BY <3>1 DEF IsDigit
  <2> QED
    BY <1>1, <2>1 DEF AllDigits
<1> QED
  BY <1>6, <1>7, <1>8, <1>9 DEF castStringToIntegerValue

LEMMA NoNullBool ==
    ASSUME NEW t, t.id = "Bool"
    PROVE  NullResult(t) = Throw
<1>1. Class(t).null = <<"false">>
  BY DEF Class, Bool
<1>2. getNull(t) = Throw
  BY <1>1, TextFalse DEF getNull, BasicString
<1> QED
  BY <1>2 DEF NullResult, WithoutOverflow, Throw

LEMMA LogicIsSound ==
    ASSUME NEW a, NEW b, GeneratedValue(a), GeneratedValue(b), BothAre("Bool", a, b)
    PROVE  /\ sqlAnd(a, b).tag = "value" => Sound("and", a, b, sqlAnd(a, b))
           /\ sqlOr(a, b).tag = "value" => Sound("or", a, b, sqlOr(a, b))
           /\ sqlNot(a).tag = "value" => Sound("not", a, b, sqlNot(a))
<1>1. /\ a.type.id = "Bool" /\ b.type.id = "Bool" /\ ~ isUnknown(a) /\ ~ isUnknown(b)
      /\ a.raw \in {0, 1} /\ b.raw \in {0, 1}
  BY DEF BothAre, isUnknown, GeneratedValue
<1>2. nullBool.tag # "value" /\ NullResult(a.type).tag # "value"
  <2>1. toNullableTy(getBoolTy).id = "Bool"
    BY BoolTypes, WithoutNull
  <2> QED
    BY <1>1, <2>1, NoNullBool DEF nullBool, Throw
<1>3. ASSUME NEW op, NEW n \in {0, 1}, ~ NullOperand(op, a, b),
             \A z : z.raw = n => ExactResult(op, a, b, z)
      PROVE  Sound(op, a, b, Result(Known(getBoolTy, n), FALSE))
  <2> DEFINE s == Result(Known(getBoolTy, n), FALSE)
  <2>1. Meets(op, a, b, s)
    <3>1. n \in Raws
      BY DEF Raws
    <3>2. \A z : z.raw = n /\ z.type.id = getBoolTy.id /\ z.type.precision = getBoolTy.precision
                   => ExactResult(op, a, b, z)
      BY <1>3
    <3> QED
      BY <3>1, <3>2, BoolTypes DEF Meets
  <2>2. SafeOf(s, s)
    BY DEF SafeOf
  <2> HIDE DEF s
  <2>3. Sound(op, a, b, s)
    BY <1>3, <2>1, <2>2, MetIsSound DEF Sound
  <2> QED
    BY <2>3 DEF s
<1>4. ASSUME sqlAnd(a, b).tag = "value"
      PROVE  Sound("and", a, b, sqlAnd(a, b))
  <2> DEFINE n == IF a.raw = 1 /\ b.raw = 1 THEN 1 ELSE 0
  <2>1. ~ isNullable(a) /\ ~ isNullable(b)
    BY <1>2, <1>4 DEF sqlAnd, Chosen
  <2>2. sqlAnd(a, b) = Result(Known(getBoolTy, n), FALSE)
    BY <2>1 DEF sqlAnd
  <2>3. ~ NullOperand("and", a, b)
    BY <1>1, <2>1, ItselfCarries DEF NullOperand
  <2>4. \A z : z.raw = n => ExactResult("and", a, b, z)
    BY DEF ExactResult
  <2> QED
    BY <1>3, <2>2, <2>3, <2>4
<1>5. ASSUME sqlOr(a, b).tag = "value"
      PROVE  Sound("or", a, b, sqlOr(a, b))
  <2> DEFINE n == IF a.raw = 1 \/ b.raw = 1 THEN 1 ELSE 0
  <2>1. ~ isNullable(a) /\ ~ isNullable(b)
    BY <1>2, <1>5 DEF sqlOr, Chosen
  <2>2. sqlOr(a, b) = Result(Known(getBoolTy, n), FALSE)
    BY <2>1 DEF sqlOr
  <2>3. ~ NullOperand("or", a, b)
    BY <1>1, <2>1, ItselfCarries DEF NullOperand
  <2>4. \A z : z.raw = n => ExactResult("or", a, b, z)
    BY DEF ExactResult
  <2> QED
    BY <1>3, <2>2, <2>3, <2>4
<1>6. ASSUME sqlNot(a).tag = "value"
      PROVE  Sound("not", a, b, sqlNot(a))
  <2> DEFINE n == 1 - a.raw
  <2>1. ~ isNullable(a)
    BY <1>1, <1>2, <1>6 DEF sqlNot, nullHandler1, NullSafe
  <2>2. sqlNot(a) = Result(Known(getBoolTy, n), FALSE)
    BY <1>1, <2>1 DEF sqlNot, nullHandler1
  <2>3. ~ NullOperand("not", a, b)
    BY <1>1, <2>1, ItselfCarries DEF NullOperand
  <2>4. n \in {0, 1} /\ \A z : z.raw = n => ExactResult("not", a, b, z)
    BY <1>1 DEF ExactResult
  <2> QED
    BY <1>3, <2>2, <2>3, <2>4
<1> QED
  BY <1>4, <1>5, <1>6

------------------------------------------------------------------------------
\* Every operation an expression computes with, on operands as they are generated.
LEMMA OperationIsSound ==
    ASSUME NEW op \in Operations, NEW a, NEW b, GeneratedValue(a), GeneratedValue(b),
           op \in {"and", "or", "not"} => BothAre("Bool", a, b),
           Operation(op, a, b).tag = "value"
    PROVE  Sound(op, a, b, Operation(op, a, b))
<1>1. CASE op = "add"
  BY <1>1, AddIsSound DEF Operation
<1>2. CASE op = "sub"
  BY <1>2, AddIsSound DEF Operation
<1>3. CASE op = "mul"
  BY <1>3, MulIsSound DEF Operation
<1>4. CASE op = "div"
  BY <1>4, DivIsSound DEF Operation
<1>5. CASE op = "cast"
  BY <1>5, CastIsSound DEF Operation
<1>6. CASE op = "less"
  BY <1>6, LessIsSound DEF Operation
<1>7. CASE op = "and"
  BY <1>7, LogicIsSound DEF Operation
<1>8. CASE op = "or"
  BY <1>8, LogicIsSound DEF Operation
<1>9. CASE op = "not"
  BY <1>9, LogicIsSound DEF Operation
<1> QED
  BY <1>1, <1>2, <1>3, <1>4, <1>5, <1>6, <1>7, <1>8, <1>9 DEF Operations

\* What an expression computes from values as they are generated is exact, or
\* the flag of an overflow is set, and it is a null where an operand is one:
\* for every width of the numbers and every set of operands
\* (src/sql/SqlOperators.cpp, src/sql/SqlUtils.tcc).
THEOREM ComputedIsExactOrFlagged == ColumnSpec => []ExactOrFlagged
<1>1. ColumnInit => ExactOrFlagged
  BY DEF ColumnInit, ExactOrFlagged, None
<1>2. ExactOrFlagged /\ [ColumnNext]_columnVars => ExactOrFlagged'
  <2> SUFFICES ASSUME ExactOrFlagged, [ColumnNext]_columnVars
               PROVE  ExactOrFlagged'
    OBVIOUS
  <2> USE DEF None
  <2>1. ASSUME NEW text, NEW address, Insert(text, address)
        PROVE  ExactOrFlagged'
    BY <2>1 DEF Insert, ExactOrFlagged
  <2>2. ASSUME NEW text, NEW address, NEW byte, Update(text, address, byte)
        PROVE  ExactOrFlagged'
    BY <2>2 DEF Update, ExactOrFlagged
  <2>3. ASSUME NEW text, NEW address, NEW byte, Where(text, address, byte)
        PROVE  ExactOrFlagged'
    <3>1. outcome'.tag = "found"
      BY <2>3 DEF Where
    <3> QED
      BY <3>1 DEF ExactOrFlagged
  <2>4. ASSUME NEW byte, Materialize(byte)
        PROVE  ExactOrFlagged'
    <3>1. outcome'.tag = "materialized"
      BY <2>4 DEF Materialize
    <3> QED
      BY <3>1 DEF ExactOrFlagged
  <2>5. ASSUME UpdateOther
        PROVE  ExactOrFlagged'
    BY <2>5 DEF UpdateOther, ExactOrFlagged
  <2>6. ASSUME Select
        PROVE  ExactOrFlagged'
    <3>1. outcome'.tag = "received"
      BY <2>6 DEF Select
    <3> QED
      BY <3>1 DEF ExactOrFlagged
  <2>7. ASSUME NEW op \in Operations, NEW a \in Operands, NEW b \in Operands, Compute(op, a, b)
        PROVE  ExactOrFlagged'
    <3> DEFINE r == Operation(op, a, b)
    <3>1. /\ op \in {"and", "or", "not"} => BothAre("Bool", a, b)
          /\ outcome' = [tag |-> "computed", op |-> op, a |-> a, b |-> b, r |-> r]
          /\ overflowFlag' = (overflowFlag \/ (r.tag = "value" /\ r.overflow))
      BY <2>7 DEF Compute
    <3>2. GeneratedValue(a) /\ GeneratedValue(b)
      BY OperandsAssumption
    <3>3. r.tag = "value" => Sound(op, a, b, r)
      BY <3>1, <3>2, OperationIsSound
    <3> HIDE DEF r
    <3>4. /\ outcome'.tag = "computed" /\ outcome'.op = op /\ outcome'.a = a
          /\ outcome'.b = b /\ outcome'.r = r
      BY <3>1
    <3> QED
      BY <3>1, <3>3, <3>4 DEF ExactOrFlagged, Sound
  <2>8. CASE UNCHANGED columnVars
    BY <2>8 DEF columnVars, ExactOrFlagged
  <2> QED
    BY <2>1, <2>2, <2>3, <2>4, <2>5, <2>6, <2>7, <2>8 DEF ColumnNext
<1> QED
  BY <1>1, <1>2, PTL DEF ColumnSpec
=============================================================================
