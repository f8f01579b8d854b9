-------------------------- MODULE VersionManagement --------------------------
(***************************************************************************)
(* The branch-versioned storage of one table: the branch tree of           *)
(* foundations/Database.cpp, the branch bitmap of the table, and the       *)
(* version chain of every tuple (foundations/version_management.cpp).      *)
(*                                                                         *)
(* A tuple is a VersionEntry in _version_mgmt_column, whose content lives  *)
(* in the columns of the table, and any number of VersionedTupleStorage    *)
(* elements on the heap, which hold their content themselves.  The entry   *)
(* and its storages form one list (first, next) that all branches share.   *)
(*                                                                         *)
(* Contents are abstracted to the number of the write that stored them, so *)
(* any two writes can be told apart.  tids are the positions of            *)
(* _version_mgmt_column, counted from 1; a heap address is the number of   *)
(* the allocation that returned it.                                        *)
(***************************************************************************)
EXTENDS Walks, Sequences

CONSTANTS MaxBranches,   \* bounds the branches, master included
          MaxTuples,     \* bounds the tuples ever inserted
          MaxWrites      \* bounds the inserts and updates

ASSUME BoundsAssumption == /\ MaxBranches \in Nat \ {0}
                           /\ MaxTuples \in Nat
                           /\ MaxWrites \in Nat

VARIABLES
    next_branch_id,        \* Database::_next_branch_id
    parent_id,             \* Branch::parent_id of every branch
    branchBitmap,          \* Table::_branchBitmap: the branches set, by tid
    version_mgmt_column,   \* Table::_version_mgmt_column, by tid
    column,                \* the columns of the table, by tid
    storage,               \* the heap of VersionedTupleStorage
    writes                 \* the number of writes so far

vars == <<next_branch_id, parent_id, branchBitmap, version_mgmt_column,
          column, storage, writes>>

------------------------------------------------------------------------------
master_branch_id == 0
invalid_branch_id == -1    \* the largest branch_id_t in the code

Null == 0                  \* nullptr
Self == -1                 \* the address of the version entry itself

Branches == 0 .. next_branch_id - 1
Tids     == 1 .. Len(version_mgmt_column)
Pointers == {Self, Null} \cup (1 .. Len(storage))

getLargestBranchId_off_by_one == next_branch_id
getLargestBranchId == next_branch_id - 1

\* The element of tuple t a pointer that is not null points to.
Element(t, p) == IF p = Self THEN version_mgmt_column[t] ELSE storage[p]

\* Its content: the columns hold the content of the entry.
Data(t, p) == IF p = Self THEN column[t] ELSE storage[p].data

\* The fields the chain loops follow.
NextField(t) ==
    [p \in Pointers |-> IF p = Null THEN Null ELSE Element(t, p).next]
NextInBranchField(t) ==
    [p \in Pointers |-> IF p = Null THEN Null ELSE Element(t, p).next_in_branch]

------------------------------------------------------------------------------
(* Branches and visibility                                                 *)

ParentField ==
    [b \in Branches \cup {invalid_branch_id} |->
        IF b = invalid_branch_id THEN b ELSE parent_id[b]]

\* The pairs (ancestor, its child on the way to b), as constructBranchLineage
\* stores them in the execution context of a query on branch b.
branch_lineage(b) ==
    LET path == Walk(ParentField, b)
    IN  {<<path[n + 1], path[n]>> :
            n \in {i \in 0 .. b : path[i + 1] # invalid_branch_id}}

branch_lineage_bitset_own_branch_only(b) == {b}
branch_lineage_bitset(b) == {b} \cup {edge[1] : edge \in branch_lineage(b)}

is_visible_boundary_included(elem, b) ==
    \/ elem.branch_id = b
    \/ \E edge \in branch_lineage(b) :
          edge[1] = elem.branch_id /\ elem.creation_ts <= edge[2]

\* A version is visible in its own branch, and in a branch that descends from
\* it through a child that was created after the version.
is_visible(elem, b) ==
    \/ elem.branch_id = b
    \/ \E edge \in branch_lineage(b) :
          edge[1] = elem.branch_id /\ elem.creation_ts < edge[2]

------------------------------------------------------------------------------
(* Reading a chain                                                         *)

\* The first visible element on the list, or null.  A chain has at most as
\* many elements as there were writes.
get_latest_chain_element(t, b) ==
    LET place == Walk(NextField(t), version_mgmt_column[t].first)
        Stops(n) == place[n] # Null => is_visible(Element(t, place[n]), b)
    IN  IF b = master_branch_id
        THEN Self
        ELSE place[CHOOSE n \in 0 .. writes :
                       Stops(n) /\ \A m \in 0 .. n - 1 : ~ Stops(m)]

get_earliest_chain_element_stops_at_entry(t, b) ==
    LET latest == get_latest_chain_element(t, b)
        place == Walk(NextInBranchField(t), latest)
        Ends(n) == place[n] # Null /\ (place[n] = Self \/ place[n + 1] = Null)
    IN  IF latest = Null
        THEN Null
        ELSE place[CHOOSE n \in 0 .. 2 * writes :
                       Ends(n) /\ \A m \in 0 .. n - 1 : ~ Ends(m)]

\* The end of the next_in_branch list that starts at the latest element.  It
\* may lead through storages of a branch to the entry, and from there through
\* the storages master has left behind.
get_earliest_chain_element(t, b) ==
    LET latest == get_latest_chain_element(t, b)
        place == Walk(NextInBranchField(t), latest)
    IN  IF latest = Null
        THEN Null
        ELSE place[CHOOSE n \in 0 .. 2 * writes :
                       place[n] # Null /\ place[n + 1] = Null]

has_lineage_intersection(b, entry) ==
    branch_lineage_bitset(b) \cap entry.branch_visibility # {}

destroy_chain_stops_at_entry(t) ==
    LET place == Walk(NextField(t), version_mgmt_column[t].first)
        length == CHOOSE n \in 0 .. writes :
                     /\ place[n] \in {Null, Self}
                     /\ \A m \in 0 .. n - 1 : place[m] \notin {Null, Self}
    IN  [n \in 0 .. length - 1 |-> place[n]]

\* The storage destroy_chain frees in each turn of its loop: every element up
\* to the end of the list, except for the entry.
destroy_chain(t) ==
    LET place == Walk(NextField(t), version_mgmt_column[t].first)
        length == CHOOSE n \in 0 .. writes :
                     place[n] = Null /\ \A m \in 0 .. n - 1 : place[m] # Null
    IN  [n \in {m \in 0 .. length - 1 : place[m] # Self} |-> place[n]]

\* The rows a scan of branch b yields: the tids whose bit is set, each with
\* the content of the element get_latest_entry picks.
TableScan(b) ==
    [t \in {u \in Tids : b \in branchBitmap[u]} |->
        Data(t, get_latest_chain_element(t, b))]

------------------------------------------------------------------------------
(* Operations                                                              *)

Init ==
    /\ next_branch_id = 1
    /\ parent_id = [b \in {master_branch_id} |-> invalid_branch_id]
    /\ branchBitmap = <<>>
    /\ version_mgmt_column = <<>>
    /\ column = <<>>
    /\ storage = <<>>
    /\ writes = 0

cloneColumn_all_clear(original) == branchBitmap

\* BitmapTable::cloneColumn: a new column with the bits of an existing one.
cloneColumn(original) ==
    [t \in Tids |-> IF original \in branchBitmap[t]
                    THEN branchBitmap[t] \cup {next_branch_id}
                    ELSE branchBitmap[t]]

\* Database::createBranch: the table clones the bitmap column of the parent.
createBranch(parent) ==
    /\ next_branch_id < MaxBranches
    /\ branchBitmap' = cloneColumn(parent)
    /\ parent_id' = [b \in Branches \cup {next_branch_id} |->
                        IF b = next_branch_id THEN parent ELSE parent_id[b]]
    /\ next_branch_id' = next_branch_id + 1
    /\ UNCHANGED <<version_mgmt_column, column, storage, writes>>

insert_tuple(branch) ==
    /\ writes < MaxWrites
    /\ Len(version_mgmt_column) < MaxTuples
    /\ version_mgmt_column' =
          Append(version_mgmt_column,
                 [first |-> Self, prev |-> Null, next |-> Null,
                  next_in_branch |-> Null, branch_id |-> branch,
                  creation_ts |-> getLargestBranchId,
                  branch_visibility |-> {branch}])
    /\ branchBitmap' = Append(branchBitmap, {branch})
    /\ column' = Append(column, writes + 1)
    /\ writes' = writes + 1
    /\ UNCHANGED <<next_branch_id, parent_id, storage>>

redirect_prev_missing(entry, address) == storage

\* The heap after the storage before the entry, if the entry is not the head,
\* has been made to point to the new storage.
redirect_prev(entry, address) ==
    [p \in 1 .. Len(storage) |->
        IF entry.first # Self /\ p = entry.prev
        THEN [storage[p] EXCEPT !.next = address]
        ELSE storage[p]]

\* update_tuple in master: the content of the entry moves to a new storage
\* that takes the entry's place on the list, and the entry, with the new
\* content, becomes the head.
update_tuple_in_master(t) ==
    LET entry == version_mgmt_column[t]
        address == Len(storage) + 1
        old == [tid |-> t, next |-> entry.next,
                next_in_branch |-> entry.next_in_branch,
                branch_id |-> entry.branch_id,
                creation_ts |-> entry.creation_ts, data |-> column[t]]
    IN  /\ writes < MaxWrites
        /\ storage' = Append(redirect_prev(entry, address), old)
        /\ version_mgmt_column' =
              [version_mgmt_column EXCEPT
                  ![t] = [entry EXCEPT
                             !.next = IF entry.first # Self THEN entry.first
                                                            ELSE address,
                             !.next_in_branch = address,
                             !.first = Self,
                             !.branch_id = master_branch_id,
                             !.creation_ts = getLargestBranchId]]
        /\ column' = [column EXCEPT ![t] = writes + 1]
        /\ writes' = writes + 1
        /\ UNCHANGED <<next_branch_id, parent_id, branchBitmap>>

\* update_tuple in any other branch: the new content goes to a new storage at
\* the head of the list.  Without a visible version the call throws.
update_tuple_in_branch(t, branch) ==
    LET entry == version_mgmt_column[t]
        address == Len(storage) + 1
        predecessor == get_latest_chain_element(t, branch)
    IN  /\ writes < MaxWrites
        /\ branch # master_branch_id
        /\ predecessor # Null
        /\ storage' =
              Append(storage,
                     [tid |-> t, next |-> entry.first,
                      next_in_branch |-> predecessor, branch_id |-> branch,
                      creation_ts |-> getLargestBranchId,
                      data |-> writes + 1])
        /\ version_mgmt_column' =
              [version_mgmt_column EXCEPT
                  ![t] = [entry EXCEPT
                             !.branch_visibility = entry.branch_visibility \cup {branch},
                             !.prev = IF entry.first = Self THEN address
                                                            ELSE entry.prev,
                             !.first = address]]
        /\ writes' = writes + 1
        /\ UNCHANGED <<next_branch_id, parent_id, branchBitmap, column>>

\* A delete only clears the bit of the tuple in the branch.
delete_tuple(t, branch) ==
    /\ branchBitmap' = [branchBitmap EXCEPT ![t] = @ \ {branch}]
    /\ UNCHANGED <<next_branch_id, parent_id, version_mgmt_column, column,
                   storage, writes>>

Next ==
    \/ \E branch \in Branches : createBranch(branch)
    \/ \E branch \in Branches : insert_tuple(branch)
    \/ \E t \in Tids : update_tuple_in_master(t)
    \/ \E t \in Tids, branch \in Branches : update_tuple_in_branch(t, branch)
    \/ \E t \in Tids, branch \in Branches : delete_tuple(t, branch)

Spec == Init /\ [][Next]_vars
------------------------------------------------------------------------------
(* Properties                                                              *)

\* The storages create_chain_element allocated for tuple t, and its entry.
Storages(t) == {p \in 1 .. Len(storage) : storage[p].tid = t}
Elements(t) == {Self} \cup Storages(t)

Entry == [first : Pointers \ {Null}, prev : Pointers \ {Self},
          next : Pointers \ {Self}, next_in_branch : Pointers \ {Self},
          branch_id : Branches, creation_ts : Branches,
          branch_visibility : SUBSET Branches]

Storage == [tid : Tids, next : Pointers, next_in_branch : Pointers,
            branch_id : Branches, creation_ts : Branches, data : 1 .. writes]

\* Every field of the branch tree, the bitmap, the entries and the storages
\* holds a value of its C++ type that names something that exists: no pointer
\* dangles, no branch id is ahead of Database::_next_branch_id, and a branch
\* is younger than its parent.
TypeOK ==
    /\ next_branch_id \in 1 .. MaxBranches
    /\ parent_id \in [Branches -> {invalid_branch_id} \cup Branches]
    /\ parent_id[master_branch_id] = invalid_branch_id
    /\ \A b \in Branches \ {master_branch_id} : parent_id[b] \in 0 .. b - 1
    /\ writes \in 0 .. MaxWrites
    /\ version_mgmt_column \in Seq(Entry)
    /\ Len(version_mgmt_column) <= MaxTuples
    /\ branchBitmap \in [Tids -> SUBSET Branches]
    /\ column \in [Tids -> 1 .. writes]
    /\ storage \in Seq(Storage)

\* p is the element of S with the newest content.
Newest(t, p, S) == p \in S /\ \A q \in S : Data(t, q) <= Data(t, p)

\* The elements of tuple t with an older content than p.
Older(t, p) == {q \in Elements(t) : Data(t, q) < Data(t, p)}

\* The list first, next of a tuple visits the tuple's entry and storages from
\* the newest content to the oldest: first is the newest element, and next is
\* the newest one older than the element, or null at the oldest.  What
\* get_latest_chain_element finds first is then the latest visible version,
\* although update_tuple_in_master moves the entry from the middle of the list to its
\* head through the entry's prev pointer.
ChainNewestFirst ==
    \A t \in Tids :
        /\ \A p, q \in Elements(t) : p # q => Data(t, p) # Data(t, q)
        /\ Newest(t, version_mgmt_column[t].first, Elements(t))
        /\ \A p \in Elements(t) :
              IF Element(t, p).next = Null
              THEN Older(t, p) = {}
              ELSE Newest(t, Element(t, p).next, Older(t, p))

\* While the entry is not the head of its list, prev is the storage before it.
PrevPrecedesEntry ==
    \A t \in Tids :
        LET entry == version_mgmt_column[t]
        IN  entry.first # Self => /\ entry.prev \in Storages(t)
                                  /\ storage[entry.prev].next = Self

\* What every operation preserves, and what makes the chain loops correct.
IInv == TypeOK /\ ChainNewestFirst /\ PrevPrecedesEntry

\* ~Table runs destroy_chain on every tuple: that frees each storage allocated
\* for the tuple exactly once, so nothing leaks and nothing is freed twice.
DestroyFreesEachStorageOnce ==
    \A t \in Tids :
        LET freed == destroy_chain(t)
        IN  /\ {freed[n] : n \in DOMAIN freed} = Storages(t)
            /\ \A m, n \in DOMAIN freed : freed[m] = freed[n] => m = n

\* Whichever branch asks, get_earliest_chain_element ends at the content the
\* tuple was inserted with, even when next_in_branch leads through an entry
\* that master has overwritten since.
EarliestIsInsertedVersion ==
    \A t \in Tids, b \in Branches :
        get_latest_chain_element(t, b) # Null =>
            \A p \in Elements(t) :
                Data(t, get_earliest_chain_element(t, b)) <= Data(t, p)

\* The test has_lineage_intersection that the produce_* functions use to skip
\* a tuple early never skips one the branch has.
LineageFilterKeepsTuples ==
    \A t \in Tids : \A b \in branchBitmap[t] :
        has_lineage_intersection(b, version_mgmt_column[t])

\* A step changes the rows of at most one existing branch: an insert, update
\* or delete in one branch is invisible in its parent, its children and its
\* siblings, and a new branch disturbs nobody.
BranchIsolation ==
    [][\A b, c \in Branches :
          b # c /\ TableScan(b)' # TableScan(b) => TableScan(c)' = TableScan(c)
      ]_vars

\* The copies of the abstract store, as the scans show them.
NoRow == 0
ViewOf(b) ==
    [t \in Tids |-> IF b \in branchBitmap[t] THEN TableScan(b)[t] ELSE NoRow]

Store == INSTANCE BranchStore WITH
            Values <- 1 .. MaxWrites,
            Absent <- NoRow,
            view   <- [i \in 1 .. next_branch_id |-> ViewOf(i - 1)]

\* Scans of the shared version chains return what scans of separate copies,
\* each taken when its branch was created, would return.
ImplementsBranchStore == Store!Spec
==============================================================================
