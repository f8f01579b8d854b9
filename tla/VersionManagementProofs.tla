----------------------- MODULE VersionManagementProofs -----------------------
(***************************************************************************)
(* The version chains stay sorted and complete, and scans of them show     *)
(* every branch a table of its own (BranchStore), for any number of        *)
(* branches, tuples and writes.                                            *)
(***************************************************************************)
EXTENDS VersionManagement, Lemmas, TLAPS

------------------------------------------------------------------------------
(* The type of what the reads return                                       *)

\* The fields of entries and storages, one by one.
LEMMA FieldTypes ==
    ASSUME TypeOK
    PROVE  /\ writes \in Nat
           /\ Len(storage) \in Nat
           /\ \A t \in Tids :
                 LET e == version_mgmt_column[t]
                 IN  /\ e \in Entry
                     /\ e.first \in Pointers \ {Null}
                     /\ e.next \in Pointers \ {Self}
                     /\ e.next_in_branch \in Pointers \ {Self}
                     /\ e.branch_id \in Branches
                     /\ e.creation_ts \in Branches
                     /\ e.branch_visibility \in SUBSET Branches
                     /\ column[t] \in 1 .. writes
           /\ \A p \in 1 .. Len(storage) :
                     /\ storage[p] \in Storage
                     /\ storage[p].tid \in Tids
                     /\ storage[p].next \in Pointers
                     /\ storage[p].next_in_branch \in Pointers
                     /\ storage[p].branch_id \in Branches
                     /\ storage[p].creation_ts \in Branches
                     /\ storage[p].data \in 1 .. writes
<1>1. \A t \in Tids : version_mgmt_column[t] \in Entry
  BY DEF TypeOK, Tids
<1>2. \A p \in 1 .. Len(storage) : storage[p] \in Storage
  BY DEF TypeOK
<1>3. writes \in Nat /\ Len(storage) \in Nat /\ \A t \in Tids : column[t] \in 1 .. writes
  BY DEF TypeOK
<1> QED
  BY <1>1, <1>2, <1>3 DEF Entry, Storage

\* An element is not null and its content is the number of a write.
LEMMA ElementTypes ==
    ASSUME TypeOK, NEW t \in Tids, NEW p \in Elements(t)
    PROVE  /\ p # Null
           /\ p \in Pointers
           /\ Data(t, p) \in 1 .. writes
           /\ Data(t, p) \in Nat
           /\ Element(t, p).next \in Pointers
BY FieldTypes DEF Elements, Storages, Data, Element, Pointers, Self, Null

\* The fields the chain loops follow map pointers to pointers.
LEMMA PointerFieldTypes ==
    ASSUME TypeOK, NEW t \in Tids
    PROVE  NextField(t) \in [Pointers -> Pointers]
BY FieldTypes DEF NextField, Element, Pointers, Self, Null

\* Every place of the loop of get_latest_chain_element is null or an element
\* of the tuple, and the contents it meets get older at every turn; so the
\* loop ends within as many turns as there were writes.
LEMMA ChainWalk ==
    ASSUME IInv, NEW t \in Tids
    PROVE  LET place == Walk(NextField(t), version_mgmt_column[t].first)
           IN  /\ place \in [Nat -> Pointers]
               /\ place[0] = version_mgmt_column[t].first
               /\ \A n \in Nat : place[n + 1] = NextField(t)[place[n]]
               /\ \A n \in Nat :
                     \/ place[n] = Null
                     \/ /\ place[n] \in Elements(t)
                        /\ Data(t, place[n]) + n <= writes
               /\ place[writes] = Null
<1> DEFINE place == Walk(NextField(t), version_mgmt_column[t].first)
<1> USE DEF IInv
<1>1. /\ place \in [Nat -> Pointers]
      /\ place[0] = version_mgmt_column[t].first
      /\ \A n \in Nat : place[n + 1] = NextField(t)[place[n]]
  <2>1. version_mgmt_column[t].first \in Pointers
    BY FieldTypes
  <2> QED
    BY <2>1, PointerFieldTypes, WalkStep
<1> HIDE DEF place
<1>2. writes \in Nat
  BY DEF TypeOK
<1>3. \A p \in Elements(t) : Data(t, p) \in 1 .. writes /\ p # Null
  BY ElementTypes
<1> DEFINE Good == {n \in Nat : \/ place[n] = Null
                               \/ /\ place[n] \in Elements(t)
                                  /\ Data(t, place[n]) + n <= writes}
<1>4. 0 \in Good
  <2>1. place[0] \in Elements(t)
    BY <1>1 DEF ChainNewestFirst, Newest
  <2> QED
    BY <2>1, <1>2, <1>3
<1>5. ASSUME NEW n \in Nat, n \in Good PROVE n + 1 \in Good
  <2>1. CASE place[n] = Null
    <3>1. NextField(t)[Null] = Null
      BY DEF NextField, Pointers
    <3> QED
      BY <1>1, <2>1, <3>1
  <2>2. CASE place[n] # Null
    <3>1. place[n] \in Elements(t) /\ Data(t, place[n]) + n <= writes
      BY <1>5, <2>2
    <3>2. place[n + 1] = Element(t, place[n]).next
      BY <1>1, <2>2 DEF NextField
    <3>3. place[n + 1] # Null => place[n + 1] \in Older(t, place[n])
      BY <3>1, <3>2 DEF ChainNewestFirst, Newest
    <3>4. place[n + 1] # Null => /\ place[n + 1] \in Elements(t)
                                 /\ Data(t, place[n + 1]) < Data(t, place[n])
      BY <3>3 DEF Older
    <3> QED
      BY <1>2, <1>3, <3>1, <3>4
  <2> QED
    BY <2>1, <2>2
<1>6. \A n \in Nat : n \in Good
  <2> HIDE DEF Good
  <2> QED
    BY <1>4, <1>5, NatSetInduction
<1>7. place[writes] = Null
  BY <1>2, <1>3, <1>6
<1> QED
  BY <1>1, <1>6, <1>7 DEF place

\* p is what a reader of branch b must find in tuple t: the newest of the
\* visible elements, or null when there is none.
LatestVisible(t, b, p) ==
    LET visible == {q \in Elements(t) : is_visible(Element(t, q), b)}
    IN  IF p = Null THEN visible = {} ELSE Newest(t, p, visible)

\* get_latest_chain_element stops at the newest visible element, wherever the
\* entry is on the list.
THEOREM LatestIsNewestVisible ==
    ASSUME IInv, NEW t \in Tids, NEW b \in Branches, b # master_branch_id
    PROVE  /\ get_latest_chain_element(t, b) \in Elements(t) \cup {Null}
           /\ LatestVisible(t, b, get_latest_chain_element(t, b))
<1> DEFINE place == Walk(NextField(t), version_mgmt_column[t].first)
<1> DEFINE Stops(n) == place[n] # Null => is_visible(Element(t, place[n]), b)
<1> DEFINE visible == {q \in Elements(t) : is_visible(Element(t, q), b)}
<1>1. /\ place[0] = version_mgmt_column[t].first
      /\ \A n \in Nat : place[n + 1] = NextField(t)[place[n]]
      /\ \A n \in Nat : place[n] \in Elements(t) \cup {Null}
      /\ place \in [Nat -> Pointers]
      /\ place[writes] = Null
  BY ChainWalk
<1>2. writes \in Nat
  BY DEF IInv, TypeOK
<1>3. \A p \in Elements(t) : Data(t, p) \in Nat /\ p # Null
  BY ElementTypes DEF IInv
<1>4. PICK k \in 0 .. writes : Stops(k) /\ \A m \in 0 .. k - 1 : ~ Stops(m)
  <2> DEFINE S == {n \in 0 .. writes : Stops(n)}
  <2>1. S \in SUBSET Nat /\ writes \in S
    BY <1>1, <1>2
  <2> HIDE DEF S
  <2>2. PICK m \in S : \A n \in 0 .. m - 1 : n \notin S
    BY <2>1, NatSetMin
  <2>3. m \in 0 .. writes /\ Stops(m)
    BY <2>2 DEF S
  <2>4. \A n \in 0 .. m - 1 : ~ Stops(n)
    BY <1>2, <2>2, <2>3 DEF S
  <2> QED
    BY <2>3, <2>4
<1> DEFINE stop == CHOOSE n \in 0 .. writes :
                       Stops(n) /\ \A m \in 0 .. n - 1 : ~ Stops(m)
<1>5. /\ stop \in 0 .. writes
      /\ Stops(stop)
      /\ \A m \in 0 .. stop - 1 : ~ Stops(m)
  <2> HIDE DEF Stops
  <2> QED
    BY <1>4
<1>6. get_latest_chain_element(t, b) = place[stop]
  BY DEF get_latest_chain_element
<1> HIDE DEF place, stop
<1> DEFINE Good == {n \in Nat : (\A m \in 0 .. n - 1 : ~ Stops(m)) =>
                         \A e \in visible : /\ place[n] # Null
                                            /\ Data(t, e) <= Data(t, place[n])}
<1>7. 0 \in Good
  BY <1>1, <1>3 DEF IInv, ChainNewestFirst, Newest
<1>8. ASSUME NEW n \in Nat, n \in Good PROVE n + 1 \in Good
  <2>1. SUFFICES ASSUME \A m \in 0 .. (n + 1) - 1 : ~ Stops(m),
                        NEW e \in visible
                 PROVE  /\ place[n + 1] # Null
                        /\ Data(t, e) <= Data(t, place[n + 1])
    OBVIOUS
  <2>2. place[n] # Null /\ ~ is_visible(Element(t, place[n]), b)
    BY <2>1
  <2>3. Data(t, e) <= Data(t, place[n])
    BY <1>8, <2>1
  <2>4. e # place[n] /\ e \in Elements(t) /\ place[n] \in Elements(t)
    BY <1>1, <2>1, <2>2
  <2>5. e \in Older(t, place[n])
    BY <1>3, <2>3, <2>4 DEF IInv, ChainNewestFirst, Older
  <2>6. place[n + 1] = Element(t, place[n]).next
    BY <1>1, <2>2 DEF NextField
  <2> QED
    BY <2>4, <2>5, <2>6 DEF IInv, ChainNewestFirst, Newest
<1>9. \A n \in Nat : n \in Good
  <2> HIDE DEF Good
  <2> QED
    BY <1>7, <1>8, NatSetInduction
<1>10. stop \in Nat
  BY <1>2, <1>5
<1>11. \A e \in visible : place[stop] # Null /\ Data(t, e) <= Data(t, place[stop])
  BY <1>5, <1>9, <1>10
<1>12. place[stop] # Null => place[stop] \in visible
  BY <1>1, <1>5, <1>10
<1> QED
  BY <1>1, <1>6, <1>10, <1>11, <1>12 DEF LatestVisible, Newest

------------------------------------------------------------------------------
(* The effect of each operation, element by element                        *)

\* createBranch adds a branch and leaves entries and storages alone.
LEMMA CreateBranchTypes ==
    ASSUME TypeOK, NEW parent \in Branches, createBranch(parent)
    PROVE  TypeOK' /\ Branches \subseteq Branches'
<1>1. /\ next_branch_id \in Nat /\ next_branch_id' = next_branch_id + 1
      /\ next_branch_id' \in 1 .. MaxBranches
  BY BoundsAssumption DEF TypeOK, createBranch
<1>2. /\ Branches' = Branches \cup {next_branch_id}
      /\ next_branch_id \notin Branches
  BY <1>1 DEF Branches
<1>3. Tids' = Tids /\ Pointers' = Pointers
  BY DEF createBranch, Tids, Pointers
<1>4. /\ parent_id' \in [Branches' -> {invalid_branch_id} \cup Branches']
      /\ parent_id'[master_branch_id] = invalid_branch_id
      /\ \A b \in Branches' \ {master_branch_id} : parent_id'[b] \in 0 .. b - 1
  <2>1. parent_id' = [b \in Branches' |->
                         IF b = next_branch_id THEN parent ELSE parent_id[b]]
    BY <1>2 DEF createBranch
  <2>2. master_branch_id \in Branches /\ master_branch_id # next_branch_id
    BY <1>1 DEF Branches, master_branch_id, TypeOK
  <2>3. parent \in 0 .. next_branch_id - 1
    BY DEF Branches
  <2> QED
    BY <1>2, <2>1, <2>2, <2>3 DEF TypeOK
<1>5. branchBitmap' \in [Tids' -> SUBSET Branches']
  BY <1>2, <1>3 DEF createBranch, cloneColumn, TypeOK
<1>6. Entry \subseteq Entry' /\ Storage \subseteq Storage'
  <2>1. writes' = writes
    BY DEF createBranch
  <2> QED
    BY <1>2, <1>3, <2>1 DEF Entry, Storage
<1>7. version_mgmt_column' \in Seq(Entry') /\ storage' \in Seq(Storage')
  BY <1>6, SeqWiden DEF createBranch, TypeOK
<1> QED
  BY <1>1, <1>2, <1>3, <1>4, <1>5, <1>7 DEF createBranch, TypeOK

\* insert_tuple adds a tuple whose entry is its only element.
LEMMA InsertTypes ==
    ASSUME TypeOK, NEW branch \in Branches, insert_tuple(branch)
    PROVE  /\ TypeOK'
           /\ Tids' = Tids \cup {Len(version_mgmt_column) + 1}
           /\ Len(version_mgmt_column) + 1 \notin Tids
           /\ \A t \in Tids : /\ version_mgmt_column'[t] = version_mgmt_column[t]
                              /\ column'[t] = column[t]
           /\ LET e == version_mgmt_column'[Len(version_mgmt_column) + 1]
              IN  /\ e.first = Self /\ e.next = Null /\ e.next_in_branch = Null
                  /\ e.branch_id = branch /\ e.branch_visibility = {branch}
                  /\ e.creation_ts = getLargestBranchId
<1> DEFINE new == Len(version_mgmt_column) + 1
<1> DEFINE e == [first |-> Self, prev |-> Null, next |-> Null,
                 next_in_branch |-> Null, branch_id |-> branch,
                 creation_ts |-> getLargestBranchId,
                 branch_visibility |-> {branch}]
<1>1. /\ writes \in Nat /\ writes' = writes + 1 /\ writes' \in 0 .. MaxWrites
      /\ Len(version_mgmt_column) \in Nat
  BY BoundsAssumption DEF TypeOK, insert_tuple
<1>2. Branches' = Branches /\ Pointers' = Pointers /\ storage' = storage
  BY DEF insert_tuple, Branches, Pointers
<1>3. Entry' = Entry
  BY <1>2 DEF Entry
<1>4. e \in Entry
  <2>1. getLargestBranchId \in Branches
    BY DEF getLargestBranchId, Branches, TypeOK
  <2>2. Self \in Pointers \ {Null} /\ Null \in Pointers \ {Self}
    BY DEF Self, Null, Pointers
  <2> QED
    BY <2>1, <2>2 DEF Entry
<1> HIDE DEF e
<1>5. version_mgmt_column' = Append(version_mgmt_column, e)
  BY DEF insert_tuple, e
<1>6. /\ version_mgmt_column' \in Seq(Entry')
      /\ Len(version_mgmt_column') = new
      /\ \A t \in 1 .. Len(version_mgmt_column) :
            version_mgmt_column'[t] = version_mgmt_column[t]
      /\ version_mgmt_column'[new] = e
  BY <1>3, <1>4, <1>5, SeqAppend DEF TypeOK
<1>7. Tids' = Tids \cup {new} /\ new \notin Tids
  BY <1>1, <1>6 DEF Tids
<1>8. Len(version_mgmt_column') <= MaxTuples
  BY <1>1, <1>6, BoundsAssumption DEF insert_tuple
<1>9. branchBitmap' \in [Tids' -> SUBSET Branches']
  <2>1. branchBitmap \in Seq(SUBSET Branches) /\ Len(branchBitmap) = Len(version_mgmt_column)
    BY <1>1 DEF TypeOK, Tids
  <2>2. branchBitmap' = Append(branchBitmap, {branch}) /\ {branch} \in SUBSET Branches
    BY DEF insert_tuple
  <2>3. branchBitmap' \in Seq(SUBSET Branches) /\ Len(branchBitmap') = new
    BY <2>1, <2>2, SeqAppend
  <2> QED
    BY <1>2, <1>6, <2>3 DEF Tids
<1>10. /\ column' \in [Tids' -> 1 .. writes']
       /\ \A t \in Tids : column'[t] = column[t]
  <2> DEFINE T == 1 .. writes'
  <2>1. column \in Seq(1 .. writes) /\ Len(column) = Len(version_mgmt_column)
    BY <1>1 DEF TypeOK, Tids
  <2>2. 1 .. writes \subseteq T /\ writes + 1 \in T
    BY <1>1
  <2> HIDE DEF T
  <2>3. column \in Seq(T)
    BY <2>1, <2>2, SeqWiden
  <2>4. column' = Append(column, writes + 1)
    BY DEF insert_tuple
  <2>5. /\ column' \in Seq(T) /\ Len(column') = new
        /\ \A t \in 1 .. Len(column) : column'[t] = column[t]
    BY <2>1, <2>2, <2>3, <2>4, SeqAppend
  <2>6. column' \in [1 .. new -> T]
    BY <2>5
  <2>7. Tids' = 1 .. new /\ Tids = 1 .. Len(column)
    BY <1>6, <2>1 DEF Tids
  <2> QED
    BY <2>5, <2>6, <2>7 DEF T
<1>11. storage' \in Seq(Storage')
  <2>1. 1 .. writes \subseteq 1 .. writes'
    BY <1>1
  <2>2. Storage \subseteq Storage'
    BY <1>2, <1>7, <2>1 DEF Storage
  <2> QED
    BY <1>2, <2>2, SeqWiden DEF TypeOK
<1>12. TypeOK'
  BY <1>1, <1>2, <1>6, <1>8, <1>9, <1>10, <1>11 DEF TypeOK, insert_tuple, Branches
<1> QED
  BY <1>6, <1>7, <1>10, <1>12 DEF Tids, e

\* update_tuple_in_master: the new storage takes over the fields and the content of the
\* entry, the storage before the entry now points to it, and the entry becomes
\* the head of the list.
LEMMA UpdateMasterEffect ==
    ASSUME IInv, NEW t \in Tids, update_tuple_in_master(t)
    PROVE  LET entry == version_mgmt_column[t]
               address == Len(storage) + 1
           IN  /\ TypeOK'
               /\ writes' = writes + 1
               /\ Tids' = Tids
               /\ Len(storage') = address
               /\ \A p \in 1 .. Len(storage) :
                     /\ storage'[p].tid = storage[p].tid
                     /\ storage'[p].data = storage[p].data
                     /\ storage'[p].branch_id = storage[p].branch_id
                     /\ storage'[p].creation_ts = storage[p].creation_ts
                     /\ storage'[p].next_in_branch = storage[p].next_in_branch
                     /\ storage'[p].next = IF entry.first # Self /\ p = entry.prev
                                           THEN address ELSE storage[p].next
               /\ storage'[address].tid = t
               /\ storage'[address].data = column[t]
               /\ storage'[address].branch_id = entry.branch_id
               /\ storage'[address].creation_ts = entry.creation_ts
               /\ storage'[address].next_in_branch = entry.next_in_branch
               /\ storage'[address].next = entry.next
               /\ \A u \in Tids \ {t} :
                     /\ version_mgmt_column'[u] = version_mgmt_column[u]
                     /\ column'[u] = column[u]
               /\ column'[t] = writes + 1
               /\ version_mgmt_column'[t].first = Self
               /\ version_mgmt_column'[t].next = IF entry.first # Self
                                                 THEN entry.first ELSE address
               /\ version_mgmt_column'[t].next_in_branch = address
               /\ version_mgmt_column'[t].branch_id = master_branch_id
               /\ version_mgmt_column'[t].creation_ts = getLargestBranchId
               /\ version_mgmt_column'[t].branch_visibility = entry.branch_visibility
<1> DEFINE entry == version_mgmt_column[t]
<1> DEFINE address == Len(storage) + 1
<1> DEFINE old == [tid |-> t, next |-> entry.next,
                   next_in_branch |-> entry.next_in_branch,
                   branch_id |-> entry.branch_id,
                   creation_ts |-> entry.creation_ts, data |-> column[t]]
<1> DEFINE relinked == [p \in 1 .. Len(storage) |->
                           IF entry.first # Self /\ p = entry.prev
                           THEN [storage[p] EXCEPT !.next = address]
                           ELSE storage[p]]
<1> DEFINE new == [entry EXCEPT
                     !.next = IF entry.first # Self THEN entry.first ELSE address,
                     !.next_in_branch = address,
                     !.first = Self,
                     !.branch_id = master_branch_id,
                     !.creation_ts = getLargestBranchId]
<1>1. /\ writes \in Nat /\ writes' = writes + 1 /\ writes' \in 0 .. MaxWrites
      /\ Len(storage) \in Nat
      /\ Branches' = Branches
  BY BoundsAssumption DEF IInv, TypeOK, update_tuple_in_master, Branches
<1>2. /\ storage' = Append(relinked, old)
      /\ version_mgmt_column' = [version_mgmt_column EXCEPT ![t] = new]
      /\ column' = [column EXCEPT ![t] = writes + 1]
  BY DEF update_tuple_in_master, redirect_prev
<1>3. /\ entry \in Entry /\ column[t] \in 1 .. writes
      /\ entry.first \in Pointers \ {Null} /\ entry.next \in Pointers
      /\ entry.next_in_branch \in Pointers
      /\ entry.branch_id \in Branches /\ entry.creation_ts \in Branches
  BY FieldTypes DEF IInv
<1>4. \A p \in 1 .. Len(storage) : storage[p] \in Storage
  BY FieldTypes DEF IInv
<1> DEFINE NewPointers == Pointers \cup {address}
<1> DEFINE NewStorage == [tid : Tids, next : NewPointers,
                          next_in_branch : NewPointers,
                          branch_id : Branches, creation_ts : Branches,
                          data : 1 .. writes + 1]
<1> DEFINE NewEntry == [first : NewPointers \ {Null}, prev : NewPointers \ {Self},
                        next : NewPointers \ {Self},
                        next_in_branch : NewPointers \ {Self},
                        branch_id : Branches, creation_ts : Branches,
                        branch_visibility : SUBSET Branches]
<1>5. /\ old \in NewStorage
      /\ \A p \in 1 .. Len(storage) : relinked[p] \in NewStorage
  <2>1. 1 .. writes \subseteq 1 .. writes + 1
    BY <1>1
  <2>2. old \in NewStorage
    BY <1>3, <2>1
  <2>3. ASSUME NEW p \in 1 .. Len(storage) PROVE relinked[p] \in NewStorage
    BY <1>4, <2>1 DEF Storage
  <2> QED
    BY <2>2, <2>3
<1>6. new \in NewEntry
  <2>1. getLargestBranchId \in Branches /\ master_branch_id \in Branches
    BY DEF getLargestBranchId, Branches, master_branch_id, IInv, TypeOK
  <2>2. Self \in NewPointers \ {Null} /\ address \in NewPointers \ {Self}
    BY <1>1 DEF Pointers, Self, Null
  <2>3. (IF entry.first # Self THEN entry.first ELSE address) \in NewPointers \ {Self}
    BY <1>3, <2>2
  <2>4. /\ entry.prev \in NewPointers \ {Self}
        /\ entry.branch_visibility \in SUBSET Branches
    BY <1>3 DEF Entry
  <2> HIDE DEF NewPointers
  <2>5. entry \in [first : NewPointers \ {Null}, prev : NewPointers \ {Self},
                   next : NewPointers \ {Self},
                   next_in_branch : NewPointers \ {Self},
                   branch_id : Branches, creation_ts : Branches,
                   branch_visibility : SUBSET Branches]
    BY <1>3 DEF Entry, NewPointers
  <2> QED
    BY <2>1, <2>2, <2>3, <2>5
<1>7. /\ storage' \in Seq(NewStorage)
      /\ Len(storage') = address
      /\ \A p \in 1 .. Len(storage) : storage'[p] = relinked[p]
      /\ storage'[address] = old
  <2>1. relinked \in Seq(NewStorage) /\ Len(relinked) = Len(storage)
    BY <1>1, <1>5
  <2> HIDE DEF relinked, old, NewStorage
  <2> QED
    BY <1>2, <1>5, <2>1, SeqAppend
<1>8. /\ version_mgmt_column' \in Seq(NewEntry)
      /\ Len(version_mgmt_column') = Len(version_mgmt_column)
      /\ \A u \in Tids : version_mgmt_column'[u] =
                           IF u = t THEN new ELSE version_mgmt_column[u]
  <2>1. Entry \subseteq NewEntry
    BY DEF Entry
  <2> HIDE DEF new, NewEntry
  <2>2. version_mgmt_column \in Seq(NewEntry)
    BY <2>1, SeqWiden DEF IInv, TypeOK
  <2> QED
    BY <1>2, <1>6, <2>2, SeqExcept DEF Tids
<1>9. Tids' = Tids /\ Pointers' = NewPointers
  BY <1>1, <1>7, <1>8 DEF Tids, Pointers
<1>10. Entry' = NewEntry /\ Storage' = NewStorage
  BY <1>1, <1>9 DEF Entry, Storage
<1>11. /\ column' \in [Tids' -> 1 .. writes']
       /\ column'[t] = writes + 1
       /\ \A u \in Tids \ {t} : column'[u] = column[u]
  BY <1>1, <1>2, <1>9 DEF IInv, TypeOK
<1>12. TypeOK'
  <2> HIDE DEF NewEntry, NewStorage
  <2> QED
    BY <1>1, <1>7, <1>8, <1>9, <1>10, <1>11 DEF IInv, TypeOK, update_tuple_in_master
<1>13. \A p \in 1 .. Len(storage) :
           /\ storage'[p].tid = storage[p].tid
           /\ storage'[p].data = storage[p].data
           /\ storage'[p].branch_id = storage[p].branch_id
           /\ storage'[p].creation_ts = storage[p].creation_ts
           /\ storage'[p].next_in_branch = storage[p].next_in_branch
           /\ storage'[p].next = IF entry.first # Self /\ p = entry.prev
                                 THEN address ELSE storage[p].next
  BY <1>4, <1>7 DEF Storage
<1>14. /\ new.first = Self
       /\ new.next = IF entry.first # Self THEN entry.first ELSE address
       /\ new.next_in_branch = address
       /\ new.branch_id = master_branch_id
       /\ new.creation_ts = getLargestBranchId
       /\ new.branch_visibility = entry.branch_visibility
  BY <1>3 DEF Entry
<1>15. /\ storage'[address].tid = t
       /\ storage'[address].data = column[t]
       /\ storage'[address].branch_id = entry.branch_id
       /\ storage'[address].creation_ts = entry.creation_ts
       /\ storage'[address].next_in_branch = entry.next_in_branch
       /\ storage'[address].next = entry.next
  BY <1>7
<1> QED
  <2> HIDE DEF new, relinked, old, NewEntry, NewStorage
  <2> QED
    BY <1>1, <1>7, <1>8, <1>9, <1>11, <1>12, <1>13, <1>14, <1>15

\* update_tuple_in_branch: the new storage becomes the head of the list, before the old
\* head, and the entry only learns about it.
LEMMA UpdateBranchEffect ==
    ASSUME IInv, NEW t \in Tids, NEW branch \in Branches, update_tuple_in_branch(t, branch)
    PROVE  LET entry == version_mgmt_column[t]
               address == Len(storage) + 1
           IN  /\ TypeOK'
               /\ writes' = writes + 1
               /\ Tids' = Tids
               /\ Len(storage') = address
               /\ \A p \in 1 .. Len(storage) : storage'[p] = storage[p]
               /\ storage'[address].tid = t
               /\ storage'[address].data = writes + 1
               /\ storage'[address].branch_id = branch
               /\ storage'[address].creation_ts = getLargestBranchId
               /\ storage'[address].next = entry.first
               /\ storage'[address].next_in_branch = get_latest_chain_element(t, branch)
               /\ \A u \in Tids \ {t} : version_mgmt_column'[u] = version_mgmt_column[u]
               /\ column' = column
               /\ version_mgmt_column'[t].first = address
               /\ version_mgmt_column'[t].prev = IF entry.first = Self
                                                 THEN address ELSE entry.prev
               /\ version_mgmt_column'[t].next = entry.next
               /\ version_mgmt_column'[t].next_in_branch = entry.next_in_branch
               /\ version_mgmt_column'[t].branch_id = entry.branch_id
               /\ version_mgmt_column'[t].creation_ts = entry.creation_ts
               /\ version_mgmt_column'[t].branch_visibility =
                     entry.branch_visibility \cup {branch}
<1> DEFINE entry == version_mgmt_column[t]
<1> DEFINE address == Len(storage) + 1
<1> DEFINE added == [tid |-> t, next |-> entry.first,
                     next_in_branch |-> get_latest_chain_element(t, branch),
                     branch_id |-> branch,
                     creation_ts |-> getLargestBranchId, data |-> writes + 1]
<1> DEFINE new == [entry EXCEPT
                     !.branch_visibility = entry.branch_visibility \cup {branch},
                     !.prev = IF entry.first = Self THEN address ELSE entry.prev,
                     !.first = address]
<1>1. /\ writes \in Nat /\ writes' = writes + 1 /\ writes' \in 0 .. MaxWrites
      /\ Len(storage) \in Nat
      /\ Branches' = Branches
      /\ branch # master_branch_id
  BY BoundsAssumption DEF IInv, TypeOK, update_tuple_in_branch, Branches
<1>2. /\ storage' = Append(storage, added)
      /\ version_mgmt_column' = [version_mgmt_column EXCEPT ![t] = new]
      /\ column' = column
  BY DEF update_tuple_in_branch
<1>3. /\ entry \in Entry
      /\ entry.first \in Pointers \ {Null} /\ entry.next \in Pointers
  BY FieldTypes DEF IInv
<1>4. storage \in Seq(Storage)
  BY DEF IInv, TypeOK
<1>5. get_latest_chain_element(t, branch) \in Pointers
  <2>1. get_latest_chain_element(t, branch) \in Elements(t) \cup {Null}
    BY <1>1, LatestIsNewestVisible
  <2> QED
    BY <2>1 DEF Elements, Storages, Pointers
<1> DEFINE NewPointers == Pointers \cup {address}
<1> DEFINE NewStorage == [tid : Tids, next : NewPointers,
                          next_in_branch : NewPointers,
                          branch_id : Branches, creation_ts : Branches,
                          data : 1 .. writes + 1]
<1> DEFINE NewEntry == [first : NewPointers \ {Null}, prev : NewPointers \ {Self},
                        next : NewPointers \ {Self},
                        next_in_branch : NewPointers \ {Self},
                        branch_id : Branches, creation_ts : Branches,
                        branch_visibility : SUBSET Branches]
<1>6. added \in NewStorage /\ storage \in Seq(NewStorage)
  <2>1. 1 .. writes \subseteq 1 .. writes + 1 /\ writes + 1 \in 1 .. writes + 1
    BY <1>1
  <2>2. getLargestBranchId \in Branches
    BY DEF getLargestBranchId, Branches, IInv, TypeOK
  <2>3. added \in NewStorage
    <3> HIDE DEF NewPointers
    <3>1. Pointers \subseteq NewPointers
      BY DEF NewPointers
    <3> QED
      BY <1>3, <1>5, <2>1, <2>2, <3>1
  <2>4. Storage \subseteq NewStorage
    BY <2>1 DEF Storage
  <2> QED
    BY <1>4, <2>3, <2>4, SeqWiden
<1>7. new \in NewEntry
  <2>1. address \in NewPointers \ {Self} /\ address \in NewPointers \ {Null}
    BY <1>1 DEF Pointers, Self, Null
  <2> HIDE DEF NewPointers
  <2>2. entry \in NewEntry
    BY <1>3 DEF Entry, NewPointers
  <2>3. /\ (IF entry.first = Self THEN address ELSE entry.prev) \in NewPointers \ {Self}
        /\ entry.branch_visibility \cup {branch} \in SUBSET Branches
    BY <2>1, <2>2
  <2> QED
    BY <2>1, <2>2, <2>3
<1>8. /\ storage' \in Seq(NewStorage)
      /\ Len(storage') = address
      /\ \A p \in 1 .. Len(storage) : storage'[p] = storage[p]
      /\ storage'[address] = added
  <2> HIDE DEF added, NewStorage
  <2> QED
    BY <1>2, <1>6, SeqAppend
<1>9. /\ version_mgmt_column' \in Seq(NewEntry)
      /\ Len(version_mgmt_column') = Len(version_mgmt_column)
      /\ \A u \in Tids : version_mgmt_column'[u] =
                           IF u = t THEN new ELSE version_mgmt_column[u]
  <2>1. Entry \subseteq NewEntry
    BY DEF Entry
  <2> HIDE DEF new, NewEntry
  <2>2. version_mgmt_column \in Seq(NewEntry)
    BY <2>1, SeqWiden DEF IInv, TypeOK
  <2> QED
    BY <1>2, <1>7, <2>2, SeqExcept DEF Tids
<1>10. Tids' = Tids /\ Pointers' = NewPointers
  BY <1>1, <1>8, <1>9 DEF Tids, Pointers
<1>11. Entry' = NewEntry /\ Storage' = NewStorage
  BY <1>1, <1>10 DEF Entry, Storage
<1>12. column' \in [Tids' -> 1 .. writes']
  BY <1>1, <1>2, <1>10 DEF IInv, TypeOK
<1>13. TypeOK'
  <2> HIDE DEF NewEntry, NewStorage
  <2> QED
    BY <1>1, <1>8, <1>9, <1>10, <1>11, <1>12 DEF IInv, TypeOK, update_tuple_in_branch
<1>14. /\ new.first = address
       /\ new.prev = IF entry.first = Self THEN address ELSE entry.prev
       /\ new.next = entry.next
       /\ new.next_in_branch = entry.next_in_branch
       /\ new.branch_id = entry.branch_id
       /\ new.creation_ts = entry.creation_ts
       /\ new.branch_visibility = entry.branch_visibility \cup {branch}
  BY <1>3 DEF Entry
<1>15. /\ storage'[address].tid = t
       /\ storage'[address].data = writes + 1
       /\ storage'[address].branch_id = branch
       /\ storage'[address].creation_ts = getLargestBranchId
       /\ storage'[address].next = entry.first
       /\ storage'[address].next_in_branch = get_latest_chain_element(t, branch)
  BY <1>8
<1> QED
  <2> HIDE DEF new, added, NewEntry, NewStorage
  <2> QED
    BY <1>1, <1>2, <1>8, <1>9, <1>10, <1>13, <1>14, <1>15

\* delete_tuple only clears a bit.
LEMMA DeleteTypes ==
    ASSUME TypeOK, NEW t \in Tids, NEW branch \in Branches, delete_tuple(t, branch)
    PROVE  TypeOK'
<1>1. branchBitmap' \in [Tids -> SUBSET Branches]
  BY DEF TypeOK, delete_tuple
<1> QED
  BY <1>1 DEF TypeOK, delete_tuple, Tids, Branches, Entry, Storage, Pointers

------------------------------------------------------------------------------
(* The chain invariants, operation by operation                            *)

\* The chain of a tuple: what ChainNewestFirst and PrevPrecedesEntry say of t.
ChainOf(t) ==
    /\ \A p, q \in Elements(t) : p # q => Data(t, p) # Data(t, q)
    /\ Newest(t, version_mgmt_column[t].first, Elements(t))
    /\ \A p \in Elements(t) :
          IF Element(t, p).next = Null
          THEN Older(t, p) = {}
          ELSE Newest(t, Element(t, p).next, Older(t, p))
    /\ version_mgmt_column[t].first # Self =>
          /\ version_mgmt_column[t].prev \in Storages(t)
          /\ storage[version_mgmt_column[t].prev].next = Self

\* The invariant is the type invariant and the order of every chain.
LEMMA IInvByTuple == IInv <=> TypeOK /\ \A t \in Tids : ChainOf(t)
BY DEF IInv, ChainNewestFirst, PrevPrecedesEntry, ChainOf

\* The chain of a tuple depends on nothing but its own elements.
LEMMA ChainFrame ==
    ASSUME TypeOK, NEW t \in Tids, ChainOf(t),
           version_mgmt_column'[t] = version_mgmt_column[t],
           column'[t] = column[t],
           Storages(t)' = Storages(t),
           \A p \in Storages(t) : /\ storage'[p].next = storage[p].next
                                  /\ storage'[p].data = storage[p].data
    PROVE  ChainOf(t)'
<1>1. Elements(t)' = Elements(t) /\ Self' = Self /\ Null' = Null
  BY DEF Elements, Self, Null
<1>2. \A p \in Elements(t) : /\ Data(t, p)' = Data(t, p)
                             /\ Element(t, p)'.next = Element(t, p).next
  BY DEF Elements, Data, Element
<1>3. \A p \in Elements(t) : Older(t, p)' = Older(t, p) /\ Older(t, p) \subseteq Elements(t)
  BY <1>1, <1>2 DEF Older
<1>4. \A p, q \in Elements(t)' : p # q => Data(t, p)' # Data(t, q)'
  BY <1>1, <1>2 DEF ChainOf
<1>5. Newest(t, version_mgmt_column[t].first, Elements(t))'
  BY <1>1, <1>2 DEF ChainOf, Newest
<1>6. ASSUME NEW p \in Elements(t)
      PROVE  IF Element(t, p)'.next = Null
             THEN Older(t, p)' = {}
             ELSE Newest(t, Element(t, p).next, Older(t, p))'
  BY <1>2, <1>3 DEF ChainOf, Newest
<1>7. (version_mgmt_column[t].first # Self =>
          /\ version_mgmt_column[t].prev \in Storages(t)
          /\ storage[version_mgmt_column[t].prev].next = Self)'
  BY <1>1 DEF ChainOf
<1> QED
  BY <1>1, <1>4, <1>5, <1>6, <1>7 DEF ChainOf

\* A new branch leaves every chain alone.
LEMMA CreateBranchChains ==
    ASSUME IInv, NEW parent \in Branches, createBranch(parent)
    PROVE  IInv'
<1>1. TypeOK'
  BY CreateBranchTypes DEF IInv
<1>2. /\ version_mgmt_column' = version_mgmt_column
      /\ column' = column /\ storage' = storage /\ Tids' = Tids
  BY DEF createBranch, Tids
<1>3. ASSUME NEW t \in Tids PROVE ChainOf(t)'
  <2>1. Storages(t)' = Storages(t)
    BY <1>2 DEF Storages
  <2> QED
    BY <1>2, <2>1, ChainFrame, IInvByTuple
<1>4. (TypeOK /\ \A t \in Tids : ChainOf(t))'
  BY <1>1, <1>2, <1>3
<1> QED
  BY <1>4 DEF IInv, ChainNewestFirst, PrevPrecedesEntry, ChainOf

\* An insert adds a chain of one element, and leaves the others alone.
LEMMA InsertChains ==
    ASSUME IInv, NEW branch \in Branches, insert_tuple(branch)
    PROVE  IInv'
<1>0. PICK new : new = Len(version_mgmt_column) + 1
  OBVIOUS
<1>1. /\ TypeOK'
      /\ Tids' = Tids \cup {new}
      /\ new \notin Tids
      /\ \A t \in Tids : /\ version_mgmt_column'[t] = version_mgmt_column[t]
                         /\ column'[t] = column[t]
      /\ version_mgmt_column'[new].first = Self
      /\ version_mgmt_column'[new].next = Null
  BY <1>0, InsertTypes DEF IInv
<1>2. storage' = storage
  BY DEF insert_tuple
<1>3. ASSUME NEW t \in Tids PROVE ChainOf(t)'
  <2>1. Storages(t)' = Storages(t)
    BY <1>2 DEF Storages
  <2> QED
    BY <1>1, <1>2, <2>1, ChainFrame, IInvByTuple
<1>4. ChainOf(new)'
  <2>1. Elements(new)' = {Self}
    <3>1. \A p \in 1 .. Len(storage) : storage[p].tid # new
      BY <1>1, FieldTypes DEF IInv
    <3> QED
      BY <1>2, <3>1 DEF Elements, Storages
  <2>2. Data(new, Self)' \in Nat
    <3>1. new \in Tids' /\ column' \in [Tids' -> 1 .. writes']
      BY <1>1 DEF TypeOK
    <3> QED
      BY <3>1 DEF Data
  <2>3. Element(new, Self)'.next = Null
    BY <1>1 DEF Element
  <2>4. Older(new, Self)' = {}
    BY <2>1, <2>2 DEF Older
  <2>5. Newest(new, version_mgmt_column[new].first, Elements(new))'
    BY <1>1, <2>1, <2>2 DEF Newest
  <2> QED
    BY <1>1, <2>1, <2>3, <2>4, <2>5 DEF ChainOf
<1>5. (TypeOK /\ \A t \in Tids : ChainOf(t))'
  BY <1>1, <1>3, <1>4
<1> QED
  BY <1>5 DEF IInv, ChainNewestFirst, PrevPrecedesEntry, ChainOf

\* A delete leaves every chain alone.
LEMMA DeleteChains ==
    ASSUME IInv, NEW t \in Tids, NEW branch \in Branches, delete_tuple(t, branch)
    PROVE  IInv'
<1>1. TypeOK'
  BY DeleteTypes DEF IInv
<1>2. /\ version_mgmt_column' = version_mgmt_column
      /\ column' = column /\ storage' = storage /\ Tids' = Tids
  BY DEF delete_tuple, Tids
<1>3. ASSUME NEW u \in Tids PROVE ChainOf(u)'
  <2>1. Storages(u)' = Storages(u)
    BY <1>2 DEF Storages
  <2> QED
    BY <1>2, <2>1, ChainFrame, IInvByTuple
<1>4. (TypeOK /\ \A u \in Tids : ChainOf(u))'
  BY <1>1, <1>2, <1>3
<1> QED
  BY <1>4 DEF IInv, ChainNewestFirst, PrevPrecedesEntry, ChainOf

\* An update in a branch puts a storage with the newest content in front.
LEMMA UpdateBranchChains ==
    ASSUME IInv, NEW t \in Tids, NEW branch \in Branches,
           update_tuple_in_branch(t, branch)
    PROVE  IInv'
<1> DEFINE entry == version_mgmt_column[t]
<1>0. PICK a : a = Len(storage) + 1
  OBVIOUS
<1>1. /\ TypeOK'
      /\ Tids' = Tids
      /\ Len(storage') = a
      /\ \A p \in 1 .. Len(storage) : storage'[p] = storage[p]
      /\ storage'[a].tid = t
      /\ storage'[a].data = writes + 1
      /\ storage'[a].next = entry.first
      /\ \A u \in Tids \ {t} : version_mgmt_column'[u] = version_mgmt_column[u]
      /\ column' = column
      /\ version_mgmt_column'[t].first = a
      /\ version_mgmt_column'[t].prev = IF entry.first = Self THEN a ELSE entry.prev
      /\ version_mgmt_column'[t].next = entry.next
  BY <1>0, UpdateBranchEffect
<1>2. writes \in Nat /\ Len(storage) \in Nat
  BY FieldTypes DEF IInv
<1>3. \A u \in Tids : Storages(u)' = IF u = t THEN Storages(t) \cup {a} ELSE Storages(u)
  BY <1>0, <1>1, <1>2 DEF Storages
<1>4. ASSUME NEW u \in Tids, u # t PROVE ChainOf(u)'
  <2>1. Storages(u)' = Storages(u)
    BY <1>3, <1>4
  <2>2. \A p \in Storages(u) : storage'[p] = storage[p]
    BY <1>1 DEF Storages
  <2> QED
    BY <1>1, <1>4, <2>1, <2>2, ChainFrame, IInvByTuple
<1>5. ChainOf(t)'
  <2>1. /\ a \notin Elements(t) /\ a # Self /\ a # Null
        /\ Elements(t)' = Elements(t) \cup {a}
    BY <1>0, <1>2, <1>3 DEF Elements, Storages, Self, Null
  <2>2. \A p \in Elements(t) : /\ Data(t, p)' = Data(t, p)
                               /\ Data(t, p) \in 1 .. writes
                               /\ Element(t, p)'.next = Element(t, p).next
    BY <1>1, ElementTypes DEF IInv, Elements, Storages, Data, Element
  <2>3. Data(t, a)' = writes + 1 /\ Element(t, a)'.next = entry.first
    BY <1>1, <2>1 DEF Data, Element
  <2>4. ChainOf(t)
    BY IInvByTuple
  <2>5. \A p \in Elements(t) : Older(t, p)' = Older(t, p) /\ Older(t, p) \subseteq Elements(t)
    BY <1>2, <2>1, <2>2, <2>3 DEF Older
  <2>6. Older(t, a)' = Elements(t)
    BY <1>2, <2>1, <2>2, <2>3 DEF Older
  <2>7. \A p, q \in Elements(t)' : p # q => Data(t, p)' # Data(t, q)'
    BY <1>2, <2>1, <2>2, <2>3, <2>4 DEF ChainOf
  <2>8. Newest(t, version_mgmt_column[t].first, Elements(t))'
    BY <1>1, <1>2, <2>1, <2>2, <2>3 DEF Newest
  <2>9. ASSUME NEW p \in Elements(t)
        PROVE  IF Element(t, p)'.next = Null
               THEN Older(t, p)' = {}
               ELSE Newest(t, Element(t, p).next, Older(t, p))'
    BY <2>2, <2>4, <2>5 DEF ChainOf, Newest
  <2>10. /\ Element(t, a)'.next # Null
         /\ Newest(t, Element(t, a).next, Older(t, a))'
    <3>1. entry.first # Null
      BY FieldTypes DEF IInv
    <3> QED
      BY <2>2, <2>3, <2>4, <2>6, <3>1 DEF ChainOf, Newest
  <2>11. /\ version_mgmt_column'[t].prev \in Storages(t)'
         /\ storage'[version_mgmt_column'[t].prev].next = Self
    <3>1. CASE entry.first = Self
      BY <1>1, <1>3, <3>1
    <3>2. CASE entry.first # Self
      BY <1>1, <1>3, <2>4, <3>2 DEF ChainOf, Storages
    <3> QED
      BY <3>1, <3>2
  <2> QED
    BY <2>1, <2>7, <2>8, <2>9, <2>10, <2>11 DEF ChainOf
<1>6. (TypeOK /\ \A u \in Tids : ChainOf(u))'
  BY <1>1, <1>4, <1>5
<1> QED
  BY <1>6 DEF IInv, ChainNewestFirst, PrevPrecedesEntry, ChainOf

\* Only one storage can come before the entry, so redirecting prev moves the
\* whole rest of the list behind the storage that replaces the entry.
LEMMA OnlyPrevPrecedesEntry ==
    ASSUME IInv, NEW t \in Tids, NEW p \in Elements(t), Element(t, p).next = Self
    PROVE  /\ version_mgmt_column[t].first # Self
           /\ p = version_mgmt_column[t].prev
<1> DEFINE prev == version_mgmt_column[t].prev
<1>1. \A q \in Elements(t) : Data(t, q) \in Nat
  BY ElementTypes DEF IInv
<1>2. ChainOf(t)
  BY IInvByTuple
<1>3. Self # Null /\ Self \in Elements(t)
  BY DEF Self, Null, Elements
<1>4. Newest(t, Self, Older(t, p))
  BY <1>2, <1>3 DEF ChainOf
<1>5. Data(t, Self) < Data(t, p)
  BY <1>4 DEF Newest, Older
<1>6. version_mgmt_column[t].first # Self
  BY <1>1, <1>2, <1>3, <1>5 DEF ChainOf, Newest
<1>7. prev \in Elements(t) /\ prev # Self /\ storage[prev].next = Self
  BY <1>2, <1>6, FieldTypes DEF ChainOf, Elements, Storages, IInv, Self
<1>8. Newest(t, Self, Older(t, prev))
  <2>1. Element(t, prev).next = Self
    BY <1>7 DEF Element
  <2> QED
    BY <1>2, <1>3, <1>7, <2>1 DEF ChainOf
<1>9. ~ (Data(t, p) < Data(t, prev)) /\ ~ (Data(t, prev) < Data(t, p))
  <2>1. Data(t, Self) < Data(t, prev)
    BY <1>8 DEF Newest, Older
  <2>2. Data(t, p) < Data(t, prev) => Data(t, p) <= Data(t, Self)
    BY <1>8 DEF Newest, Older
  <2>3. Data(t, prev) < Data(t, p) => Data(t, prev) <= Data(t, Self)
    BY <1>4, <1>7 DEF Newest, Older
  <2> QED
    BY <1>1, <1>3, <1>5, <1>7, <2>1, <2>2, <2>3
<1>10. p = prev
  BY <1>1, <1>2, <1>7, <1>9 DEF ChainOf
<1> QED
  BY <1>6, <1>10

\* An update in master puts a storage in the place of the entry, with the
\* entry's old content, and the entry in front, with the newest content.
LEMMA UpdateMasterChains ==
    ASSUME IInv, NEW t \in Tids, update_tuple_in_master(t)
    PROVE  IInv'
<1> DEFINE entry == version_mgmt_column[t]
<1>0. PICK a : a = Len(storage) + 1
  OBVIOUS
<1>1. /\ TypeOK'
      /\ Tids' = Tids
      /\ Len(storage') = a
      /\ \A p \in 1 .. Len(storage) :
            /\ storage'[p].tid = storage[p].tid
            /\ storage'[p].data = storage[p].data
            /\ storage'[p].next = IF entry.first # Self /\ p = entry.prev
                                  THEN a ELSE storage[p].next
      /\ storage'[a].tid = t
      /\ storage'[a].data = column[t]
      /\ storage'[a].next = entry.next
      /\ \A u \in Tids \ {t} : /\ version_mgmt_column'[u] = version_mgmt_column[u]
                               /\ column'[u] = column[u]
      /\ column'[t] = writes + 1
      /\ version_mgmt_column'[t].first = Self
      /\ version_mgmt_column'[t].next = IF entry.first # Self THEN entry.first ELSE a
  BY <1>0, UpdateMasterEffect
<1>2. writes \in Nat /\ Len(storage) \in Nat
  BY FieldTypes DEF IInv
<1>3. \A u \in Tids : Storages(u)' = IF u = t THEN Storages(t) \cup {a} ELSE Storages(u)
  BY <1>0, <1>1, <1>2 DEF Storages
<1>4. \A u \in Tids : ChainOf(u)
  BY IInvByTuple
<1>5. ASSUME NEW u \in Tids, u # t PROVE ChainOf(u)'
  <2>1. Storages(u)' = Storages(u)
    BY <1>3, <1>5
  <2>2. ASSUME NEW p \in Storages(u)
        PROVE  storage'[p].next = storage[p].next /\ storage'[p].data = storage[p].data
    <3>1. p \in 1 .. Len(storage) /\ storage[p].tid = u
      BY DEF Storages
    <3>2. entry.first # Self => storage[entry.prev].tid = t
      BY <1>4 DEF ChainOf, Storages
    <3> QED
      BY <1>1, <1>5, <3>1, <3>2
  <2> QED
    BY <1>1, <1>4, <1>5, <2>1, <2>2, ChainFrame DEF IInv
<1>6. ChainOf(t)'
  <2>1. /\ a \notin Elements(t) /\ a # Self /\ a # Null /\ Self # Null
        /\ Self \in Elements(t)
        /\ Elements(t)' = Elements(t) \cup {a}
    BY <1>0, <1>2, <1>3 DEF Elements, Storages, Self, Null
  <2>2. \A p \in Elements(t) : Data(t, p) \in 1 .. writes /\ p # Null
    BY ElementTypes DEF IInv
  <2>3. \A p \in Elements(t) : p # Self =>
           /\ Data(t, p)' = Data(t, p)
           /\ Element(t, p)'.next = IF entry.first # Self /\ p = entry.prev
                                    THEN a ELSE Element(t, p).next
    BY <1>1 DEF Elements, Storages, Data, Element
  <2>4. /\ Data(t, Self)' = writes + 1
        /\ Element(t, Self)'.next = IF entry.first # Self THEN entry.first ELSE a
    BY <1>1 DEF Data, Element
  <2>5. /\ Data(t, a)' = Data(t, Self)
        /\ Element(t, a)'.next = Element(t, Self).next
    BY <1>1, <2>1 DEF Data, Element
  <2>6. ChainOf(t)
    BY <1>4
  <2>7. \A p, q \in Elements(t)' : p # q => Data(t, p)' # Data(t, q)'
    BY <1>2, <2>1, <2>2, <2>3, <2>4, <2>5, <2>6 DEF ChainOf
  <2>8. Newest(t, version_mgmt_column[t].first, Elements(t))'
    BY <1>1, <1>2, <2>1, <2>2, <2>3, <2>4, <2>5 DEF Newest
  <2>9. /\ Element(t, Self)'.next # Null
        /\ Newest(t, Element(t, Self).next, Older(t, Self))'
    <3>1. Older(t, Self)' = (Elements(t) \ {Self}) \cup {a}
      BY <1>2, <2>1, <2>2, <2>3, <2>4, <2>5 DEF Older
    <3>2. entry.first \in Elements(t) /\ \A q \in Elements(t) : Data(t, q) <= Data(t, entry.first)
      BY <2>6 DEF ChainOf, Newest
    <3>3. CASE entry.first # Self
      BY <2>1, <2>2, <2>3, <2>4, <2>5, <3>1, <3>2, <3>3 DEF Newest
    <3>4. CASE entry.first = Self
      BY <2>1, <2>2, <2>3, <2>4, <2>5, <3>1, <3>2, <3>4 DEF Newest
    <3> QED
      BY <3>3, <3>4
  <2>10. IF Element(t, a)'.next = Null
         THEN Older(t, a)' = {}
         ELSE Newest(t, Element(t, a).next, Older(t, a))'
    <3>1. Older(t, a)' = Older(t, Self)
      BY <1>2, <2>1, <2>2, <2>3, <2>4, <2>5 DEF Older
    <3>2. \A q \in Older(t, Self) : q # Self /\ q \in Elements(t)
      BY <2>1, <2>2 DEF Older
    <3>3. IF Element(t, Self).next = Null
          THEN Older(t, Self) = {}
          ELSE Newest(t, Element(t, Self).next, Older(t, Self))
      BY <2>1, <2>6 DEF ChainOf
    <3> QED
      BY <2>3, <2>5, <3>1, <3>2, <3>3 DEF Newest
  <2>11. ASSUME NEW p \in Elements(t), p # Self
         PROVE  IF Element(t, p)'.next = Null
                THEN Older(t, p)' = {}
                ELSE Newest(t, Element(t, p).next, Older(t, p))'
    <3>1. Older(t, p)' = (Older(t, p) \ {Self})
                            \cup (IF Self \in Older(t, p) THEN {a} ELSE {})
      BY <1>2, <2>1, <2>2, <2>3, <2>4, <2>5, <2>11 DEF Older
    <3>2. Older(t, p) \subseteq Elements(t)
      BY DEF Older
    <3>3. IF Element(t, p).next = Null
          THEN Older(t, p) = {}
          ELSE Newest(t, Element(t, p).next, Older(t, p))
      BY <2>6 DEF ChainOf
    <3>4. CASE Element(t, p).next = Self
      <4>1. Element(t, p)'.next = a
        BY <2>3, <2>11, <3>4, OnlyPrevPrecedesEntry
      <4>2. Newest(t, Self, Older(t, p))
        BY <2>1, <3>3, <3>4
      <4> QED
        BY <2>1, <2>3, <2>5, <3>1, <3>2, <4>1, <4>2 DEF Newest
    <3>5. CASE Element(t, p).next # Self
      <4>1. Element(t, p)'.next = Element(t, p).next
        <5>1. ~ (entry.first # Self /\ p = entry.prev)
          BY <2>6, <2>11, <3>5 DEF ChainOf, Element
        <5> QED
          BY <2>3, <2>11, <5>1
      <4>2. CASE Element(t, p).next = Null
        BY <3>1, <3>3, <4>1, <4>2
      <4>3. CASE Element(t, p).next # Null
        <5>1. Newest(t, Element(t, p).next, Older(t, p))
          BY <3>3, <4>3
        <5> QED
          BY <2>1, <2>3, <2>5, <3>1, <3>2, <3>5, <4>1, <4>3, <5>1 DEF Newest
      <4> QED
        BY <4>2, <4>3
    <3> QED
      BY <3>4, <3>5
  <2> QED
    BY <1>1, <2>1, <2>7, <2>8, <2>9, <2>10, <2>11 DEF ChainOf
<1>7. (TypeOK /\ \A u \in Tids : ChainOf(u))'
  BY <1>1, <1>5, <1>6
<1> QED
  BY <1>7 DEF IInv, ChainNewestFirst, PrevPrecedesEntry, ChainOf

------------------------------------------------------------------------------
(* The theorems                                                            *)

\* The invariant holds of the empty table.
LEMMA InitIInv == Init => IInv
<1> SUFFICES ASSUME Init PROVE IInv
  OBVIOUS
<1>1. Tids = {} /\ Branches = {0}
  BY DEF Init, Tids, Branches
<1>2. version_mgmt_column \in Seq(Entry) /\ storage \in Seq(Storage)
  BY DEF Init
<1>3. TypeOK
  BY <1>1, <1>2, BoundsAssumption
     DEF Init, TypeOK, master_branch_id, invalid_branch_id
<1> QED
  BY <1>1, <1>3 DEF IInv, ChainNewestFirst, PrevPrecedesEntry

\* Every operation preserves the invariant.
LEMMA NextIInv == IInv /\ [Next]_vars => IInv'
<1> SUFFICES ASSUME IInv, [Next]_vars PROVE IInv'
  OBVIOUS
<1>1. ASSUME NEW branch \in Branches, createBranch(branch) PROVE IInv'
  BY <1>1, CreateBranchChains
<1>2. ASSUME NEW branch \in Branches, insert_tuple(branch) PROVE IInv'
  BY <1>2, InsertChains
<1>3. ASSUME NEW t \in Tids, update_tuple_in_master(t) PROVE IInv'
  BY <1>3, UpdateMasterChains
<1>4. ASSUME NEW t \in Tids, NEW branch \in Branches,
             update_tuple_in_branch(t, branch)
      PROVE  IInv'
  BY <1>4, UpdateBranchChains
<1>5. ASSUME NEW t \in Tids, NEW branch \in Branches, delete_tuple(t, branch)
      PROVE  IInv'
  BY <1>5, DeleteChains
<1>6. ASSUME UNCHANGED vars PROVE IInv'
  <2>1. TypeOK' /\ Tids' = Tids
    BY <1>6 DEF vars, IInv, TypeOK, Branches, Tids, Pointers, Entry, Storage
  <2>2. ASSUME NEW t \in Tids PROVE ChainOf(t)'
    <3>1. Storages(t)' = Storages(t)
      BY <1>6 DEF vars, Storages
    <3> QED
      BY <1>6, <3>1, ChainFrame, IInvByTuple DEF vars
  <2>3. (TypeOK /\ \A t \in Tids : ChainOf(t))'
    BY <2>1, <2>2
  <2> QED
    BY <2>3 DEF IInv, ChainNewestFirst, PrevPrecedesEntry, ChainOf
<1> QED
  BY <1>1, <1>2, <1>3, <1>4, <1>5, <1>6 DEF Next

\* The inductive invariant holds in every reachable state.
THEOREM ChainInvariant == Spec => []IInv
BY InitIInv, NextIInv, PTL DEF Spec

\* No pointer of the table dangles and no version is ahead of the branches,
\* whatever the sequence of operations.
THEOREM TypeCorrect == Spec => []TypeOK
<1>1. IInv => TypeOK
  BY DEF IInv
<1> QED
  BY <1>1, ChainInvariant, PTL

\* The list of every tuple stays sorted from the newest to the oldest version
\* and complete, however updates of master and of the branches alternate.
THEOREM ChainsSorted == Spec => []ChainNewestFirst
<1>1. IInv => ChainNewestFirst
  BY DEF IInv
<1> QED
  BY <1>1, ChainInvariant, PTL

\* The loop of destroy_chain meets every element of the tuple before it meets
\* null, and no element twice: the contents it meets fall at every turn.
LEMMA ChainMeetsEachOnce ==
    ASSUME IInv, NEW t \in Tids, NEW place,
           place = Walk(NextField(t), version_mgmt_column[t].first)
    PROVE  /\ \A k \in Nat : \A m \in 0 .. k - 1 :
                 place[k] # Null => place[m] # place[k]
           /\ \A k \in Nat : place[k] = Null =>
                 \A q \in Elements(t) : \E m \in 0 .. k - 1 : place[m] = q
<1>1. /\ place[0] = version_mgmt_column[t].first
      /\ \A n \in Nat : place[n + 1] = NextField(t)[place[n]]
      /\ \A n \in Nat : place[n] = Null \/ place[n] \in Elements(t)
      /\ place \in [Nat -> Pointers]
  BY ChainWalk
<1>2. \A p \in Elements(t) : Data(t, p) \in Nat /\ p # Null
  BY ElementTypes DEF IInv
<1>3. ChainOf(t)
  BY IInvByTuple
<1>4. \A n \in Nat : place[n + 1] # Null => place[n] # Null
  <2>1. NextField(t)[Null] = Null
    BY DEF NextField, Pointers
  <2> QED
    BY <1>1, <2>1
<1>5. ASSUME NEW n \in Nat, place[n] # Null
      PROVE  IF place[n + 1] = Null THEN Older(t, place[n]) = {}
                                    ELSE Newest(t, place[n + 1], Older(t, place[n]))
  <2>1. place[n + 1] = Element(t, place[n]).next
    BY <1>1, <1>5 DEF NextField
  <2> QED
    BY <1>1, <1>3, <1>5, <2>1 DEF ChainOf
<1> DEFINE Falling == {k \in Nat : place[k] # Null =>
                          \A m \in 0 .. k - 1 : /\ place[m] # Null
                                                /\ Data(t, place[k]) < Data(t, place[m])}
<1>6. 0 \in Falling
  OBVIOUS
<1>7. ASSUME NEW k \in Nat, k \in Falling PROVE k + 1 \in Falling
  <2>1. SUFFICES ASSUME place[k + 1] # Null, NEW m \in 0 .. (k + 1) - 1
                 PROVE  place[m] # Null /\ Data(t, place[k + 1]) < Data(t, place[m])
    OBVIOUS
  <2>2. place[k] # Null
    BY <1>4, <2>1
  <2>3. place[k + 1] \in Older(t, place[k])
    BY <1>5, <2>1, <2>2 DEF Newest
  <2>4. Data(t, place[k + 1]) < Data(t, place[k]) /\ place[k + 1] \in Elements(t)
    BY <2>3 DEF Older
  <2>5. CASE m = k
    BY <2>2, <2>4, <2>5
  <2>6. CASE m # k
    <3>1. m \in 0 .. k - 1 /\ m \in Nat
      BY <2>6
    <3>2. place[m] # Null /\ Data(t, place[k]) < Data(t, place[m])
      BY <1>7, <2>2, <3>1
    <3>3. place[m] \in Elements(t) /\ place[k] \in Elements(t)
      BY <1>1, <2>2, <3>1, <3>2
    <3> QED
      BY <1>2, <2>4, <3>2, <3>3
  <2> QED
    BY <2>5, <2>6
<1>8. \A k \in Nat : k \in Falling
  <2> HIDE DEF Falling
  <2> QED
    BY <1>6, <1>7, NatSetInduction
<1>9. ASSUME NEW k \in Nat, NEW m \in 0 .. k - 1, place[k] # Null PROVE place[m] # place[k]
  <2>1. Data(t, place[k]) < Data(t, place[m]) /\ Data(t, place[k]) \in Nat
    BY <1>1, <1>2, <1>8, <1>9
  <2> QED
    BY <2>1
<1>10. ASSUME NEW q \in Elements(t), NEW k \in Nat, place[k] = Null
       PROVE  \E m \in 0 .. k - 1 : place[m] = q
  <2> DEFINE Ahead == {n \in Nat : \/ \E m \in 0 .. n - 1 : place[m] = q
                                   \/ place[n] # Null /\ Data(t, q) <= Data(t, place[n])}
  <2>1. 0 \in Ahead
    BY <1>1, <1>2, <1>3 DEF ChainOf, Newest
  <2>2. ASSUME NEW n \in Nat, n \in Ahead PROVE n + 1 \in Ahead
    <3>1. CASE \E m \in 0 .. n - 1 : place[m] = q
      <4>1. \A m \in 0 .. n - 1 : m \in 0 .. (n + 1) - 1
        OBVIOUS
      <4> QED
        BY <3>1, <4>1
    <3>2. CASE place[n] # Null /\ Data(t, q) <= Data(t, place[n])
      <4>1. CASE place[n] = q
        <5>1. n \in 0 .. (n + 1) - 1
          OBVIOUS
        <5> QED
          BY <4>1, <5>1
      <4>2. CASE place[n] # q
        <5>1. place[n] \in Elements(t)
          BY <1>1, <3>2
        <5>2. q \in Older(t, place[n])
          BY <1>2, <1>3, <3>2, <4>2, <5>1 DEF ChainOf, Older
        <5>3. place[n + 1] # Null /\ Data(t, q) <= Data(t, place[n + 1])
          BY <1>5, <3>2, <5>2 DEF Newest
        <5> QED
          BY <5>3
      <4> QED
        BY <4>1, <4>2
    <3> QED
      BY <2>2, <3>1, <3>2
  <2>3. \A n \in Nat : n \in Ahead
    <3> HIDE DEF Ahead
    <3> QED
      BY <2>1, <2>2, NatSetInduction
  <2> QED
    BY <1>10, <2>3
<1> QED
  BY <1>9, <1>10

\* ~Table frees every storage of every tuple once: nothing leaks and nothing is
\* freed twice, however the chains were rearranged.
THEOREM DestroyIsExact == Spec => []DestroyFreesEachStorageOnce
<1>1. ASSUME IInv, NEW t \in Tids
      PROVE  LET freed == destroy_chain(t)
             IN  /\ {freed[n] : n \in DOMAIN freed} = Storages(t)
                 /\ \A m, n \in DOMAIN freed : freed[m] = freed[n] => m = n
  <2>1. PICK place : place = Walk(NextField(t), version_mgmt_column[t].first)
    OBVIOUS
  <2>2. /\ \A n \in Nat : place[n] = Null \/ place[n] \in Elements(t)
        /\ place[writes] = Null
        /\ writes \in Nat
    <3>1. writes \in Nat
      BY <1>1 DEF IInv, TypeOK
    <3> QED
      BY <1>1, <2>1, <3>1, ChainWalk
  <2>3. /\ \A k \in Nat : \A m \in 0 .. k - 1 : place[k] # Null => place[m] # place[k]
        /\ \A k \in Nat : place[k] = Null =>
              \A q \in Elements(t) : \E m \in 0 .. k - 1 : place[m] = q
    BY <1>1, <2>1, ChainMeetsEachOnce
  <2> DEFINE Ends(n) == place[n] = Null /\ \A m \in 0 .. n - 1 : place[m] # Null
  <2>4. \E n \in 0 .. writes : Ends(n)
    <3> DEFINE S == {n \in 0 .. writes : place[n] = Null}
    <3>1. S \in SUBSET Nat /\ writes \in S
      BY <2>2
    <3> HIDE DEF S
    <3>2. PICK m \in S : \A n \in 0 .. m - 1 : n \notin S
      BY <3>1, NatSetMin
    <3>3. m \in 0 .. writes /\ place[m] = Null
      BY <3>2 DEF S
    <3>4. \A n \in 0 .. m - 1 : place[n] # Null
      BY <2>2, <3>2, <3>3 DEF S
    <3> QED
      BY <3>3, <3>4
  <2> DEFINE length == CHOOSE n \in 0 .. writes : Ends(n)
  <2>5. length \in 0 .. writes /\ Ends(length)
    <3> HIDE DEF Ends
    <3> QED
      BY <2>4
  <2>6. destroy_chain(t) = [n \in {m \in 0 .. length - 1 : place[m] # Self} |-> place[n]]
    BY <2>1 DEF destroy_chain
  <2> HIDE DEF length
  <2>7. PICK freed, D : /\ freed = destroy_chain(t)
                        /\ D = {m \in 0 .. length - 1 : place[m] # Self}
    OBVIOUS
  <2>8. DOMAIN freed = D /\ \A n \in D : freed[n] = place[n]
    BY <2>6, <2>7
  <2>9. \A n \in D : n \in Nat /\ n < length /\ place[n] # Null /\ place[n] # Self
    BY <2>2, <2>5, <2>7
  <2>10. \A n \in D : place[n] \in Storages(t)
    BY <2>2, <2>9 DEF Elements
  <2>11. ASSUME NEW q \in Storages(t) PROVE \E n \in D : place[n] = q
    <3>1. q \in Elements(t) /\ q # Self
      BY DEF Elements, Storages, Self
    <3>2. length \in Nat /\ place[length] = Null
      BY <2>2, <2>5
    <3>3. PICK m \in 0 .. length - 1 : place[m] = q
      BY <2>3, <3>1, <3>2
    <3> QED
      BY <2>7, <3>1, <3>3
  <2>12. ASSUME NEW m \in D, NEW n \in D, place[m] = place[n] PROVE m = n
    <3>1. m \in Nat /\ n \in Nat /\ place[m] # Null /\ place[n] # Null
      BY <2>9
    <3>2. ~ (m < n) /\ ~ (n < m)
      BY <2>3, <2>12, <3>1
    <3> QED
      BY <3>1, <3>2
  <2> QED
    BY <2>7, <2>8, <2>10, <2>11, <2>12
<1>2. IInv => DestroyFreesEachStorageOnce
  BY <1>1 DEF DestroyFreesEachStorageOnce
<1> QED
  BY <1>2, ChainInvariant, PTL

------------------------------------------------------------------------------
(* The list of get_earliest_chain_element                                  *)

\* The element next_in_branch of p points to.
Previous(t, p) == Element(t, p).next_in_branch

\* M are the storages master has left behind in tuple t.  The entry and these
\* storages form a list of their own, from newer to older contents.  Any other
\* storage points to an older storage or to the entry, whose content may be
\* newer; and only the oldest element points nowhere.
MasterListOf(t, M) ==
    /\ M \in SUBSET Storages(t)
    /\ \A p \in {Self} \cup M :
          Previous(t, p) # Null =>
              Previous(t, p) \in M /\ Data(t, Previous(t, p)) < Data(t, p)
    /\ \A p \in Storages(t) \ M :
          Previous(t, p) # Null =>
              \/ Previous(t, p) = Self
              \/ /\ Previous(t, p) \in Storages(t)
                 /\ Data(t, Previous(t, p)) < Data(t, p)
    /\ \A p \in Elements(t) :
          Previous(t, p) = Null => \A q \in Elements(t) : Data(t, p) <= Data(t, q)

MasterLists == \A t \in Tids : \E M : MasterListOf(t, M)

\* The lists of a tuple depend on nothing but its own elements.
LEMMA MasterListFrame ==
    ASSUME NEW t, NEW M, MasterListOf(t, M),
           version_mgmt_column'[t].next_in_branch = version_mgmt_column[t].next_in_branch,
           column'[t] = column[t],
           Storages(t)' = Storages(t),
           \A p \in Storages(t) : /\ storage'[p].next_in_branch = storage[p].next_in_branch
                                  /\ storage'[p].data = storage[p].data
    PROVE  MasterListOf(t, M)'
<1>1. Elements(t)' = Elements(t) /\ Self' = Self /\ Null' = Null
  BY DEF Elements, Self, Null
<1>2. \A p \in Elements(t) : Data(t, p)' = Data(t, p) /\ Previous(t, p)' = Previous(t, p)
  BY DEF Elements, Data, Previous, Element
<1>3. Self \in Elements(t) /\ Storages(t) \subseteq Elements(t)
  BY DEF Elements
<1> QED
  BY <1>1, <1>2, <1>3 DEF MasterListOf

\* An update in master adds the storage it allocates to master's list.
LEMMA UpdateMasterLists ==
    ASSUME IInv, MasterLists, NEW t \in Tids, update_tuple_in_master(t)
    PROVE  MasterLists'
<1>0. PICK a : a = Len(storage) + 1
  OBVIOUS
<1>1. /\ Tids' = Tids
      /\ Len(storage') = a
      /\ \A p \in 1 .. Len(storage) :
            /\ storage'[p].tid = storage[p].tid
            /\ storage'[p].data = storage[p].data
            /\ storage'[p].next_in_branch = storage[p].next_in_branch
      /\ storage'[a].tid = t
      /\ storage'[a].data = column[t]
      /\ storage'[a].next_in_branch = version_mgmt_column[t].next_in_branch
      /\ \A u \in Tids \ {t} : /\ version_mgmt_column'[u] = version_mgmt_column[u]
                               /\ column'[u] = column[u]
      /\ column'[t] = writes + 1
      /\ version_mgmt_column'[t].next_in_branch = a
  BY <1>0, UpdateMasterEffect
<1>2. Len(storage) \in Nat /\ writes \in Nat
  BY FieldTypes DEF IInv
<1>3. \A u \in Tids : Storages(u)' = IF u = t THEN Storages(t) \cup {a} ELSE Storages(u)
  BY <1>0, <1>1, <1>2 DEF Storages
<1>4. ASSUME NEW u \in Tids, u # t PROVE (\E M : MasterListOf(u, M))'
  <2>1. PICK M : MasterListOf(u, M)
    BY DEF MasterLists
  <2>2. Storages(u)' = Storages(u)
    BY <1>3, <1>4
  <2>3. \A p \in Storages(u) : /\ storage'[p].next_in_branch = storage[p].next_in_branch
                               /\ storage'[p].data = storage[p].data
    BY <1>1 DEF Storages
  <2> QED
    BY <1>1, <1>4, <2>1, <2>2, <2>3, MasterListFrame
<1>5. (\E M : MasterListOf(t, M))'
  <2>1. PICK M : MasterListOf(t, M)
    BY DEF MasterLists
  <2>2. /\ a \notin Elements(t) /\ a # Self /\ a # Null /\ Self # Null
        /\ Elements(t) = {Self} \cup Storages(t)
        /\ Storages(t)' = Storages(t) \cup {a}
        /\ Elements(t)' = Elements(t) \cup {a}
        /\ Self \notin Storages(t)
    BY <1>0, <1>2, <1>3 DEF Elements, Storages, Self, Null
  <2>3. \A p \in Elements(t) : Data(t, p) \in 1 .. writes /\ p # Null
    BY ElementTypes DEF IInv
  <2>4. \A p \in Storages(t) : Data(t, p)' = Data(t, p) /\ Previous(t, p)' = Previous(t, p)
    BY <1>1, <2>2 DEF Storages, Data, Previous, Element, Self
  <2>5. Data(t, Self)' = writes + 1 /\ Previous(t, Self)' = a
    BY <1>1 DEF Data, Previous, Element, Self
  <2>6. Data(t, a)' = Data(t, Self) /\ Previous(t, a)' = Previous(t, Self)
    BY <1>1, <2>2 DEF Data, Previous, Element, Self
  <2>7. PICK N : N = M \cup {a}
    OBVIOUS
  <2>8. M \in SUBSET Storages(t)
    BY <2>1 DEF MasterListOf
  <2>9. ASSUME NEW p \in {Self} \cup N, Previous(t, p)' # Null
        PROVE  \E q \in N : q = Previous(t, p)' /\ Data(t, q)' < Data(t, p)'
    <3>1. CASE p = Self
      BY <1>2, <2>2, <2>3, <2>5, <2>6, <2>7, <3>1
    <3>2. CASE p = a
      <4>1. Previous(t, Self) \in M /\ Data(t, Previous(t, Self)) < Data(t, Self)
        BY <2>1, <2>6, <2>9, <3>2 DEF MasterListOf
      <4> QED
        BY <2>4, <2>6, <2>7, <2>8, <3>2, <4>1
    <3>3. CASE p \in M
      <4>1. Previous(t, p) \in M /\ Data(t, Previous(t, p)) < Data(t, p)
        BY <2>1, <2>4, <2>8, <2>9, <3>3 DEF MasterListOf
      <4> QED
        BY <2>4, <2>7, <2>8, <3>3, <4>1
    <3> QED
      BY <2>7, <3>1, <3>2, <3>3
  <2>10. ASSUME NEW p \in (Storages(t) \cup {a}) \ N, Previous(t, p)' # Null
         PROVE  \/ Previous(t, p)' = Self
                \/ \E q \in Storages(t) : q = Previous(t, p)' /\ Data(t, q)' < Data(t, p)'
    <3>1. p \in Storages(t) \ M
      BY <2>7
    <3>2. Previous(t, p) = Self \/ (/\ Previous(t, p) \in Storages(t)
                                    /\ Data(t, Previous(t, p)) < Data(t, p))
      BY <2>1, <2>4, <2>10, <3>1 DEF MasterListOf
    <3> QED
      BY <2>4, <3>1, <3>2
  <2>11. ASSUME NEW p \in Elements(t) \cup {a}, Previous(t, p)' = Null,
                NEW q \in Elements(t) \cup {a}
         PROVE  Data(t, p)' <= Data(t, q)'
    <3>1. PICK r \in Elements(t) : Previous(t, r) = Null /\ Data(t, p)' = Data(t, r)
      BY <2>2, <2>4, <2>5, <2>6, <2>11
    <3>2. Data(t, r) \in 1 .. writes /\ \A x \in Elements(t) : Data(t, r) <= Data(t, x)
      BY <2>1, <2>3, <3>1 DEF MasterListOf
    <3>3. Data(t, q)' = writes + 1 \/ \E x \in Elements(t) : Data(t, q)' = Data(t, x)
      BY <2>2, <2>4, <2>5, <2>6, <2>11
    <3> QED
      BY <1>2, <3>1, <3>2, <3>3
  <2>12. MasterListOf(t, N)'
    <3>1. Self' = Self /\ Null' = Null
      BY DEF Self, Null
    <3>2. N \in SUBSET (Storages(t)')
      BY <2>2, <2>7, <2>8
    <3>3. \A p \in {Self} \cup N :
              Previous(t, p)' # Null =>
                  /\ Previous(t, p)' \in N
                  /\ Data(t, Previous(t, p))' < Data(t, p)'
      <4>1. ASSUME NEW p \in {Self} \cup N, Previous(t, p)' # Null
            PROVE  /\ Previous(t, p)' \in N
                   /\ Data(t, Previous(t, p))' < Data(t, p)'
        <5>1. PICK q \in N : q = Previous(t, p)' /\ Data(t, q)' < Data(t, p)'
          BY <2>9, <4>1
        <5>2. Data(t, Previous(t, p))' = Data(t, q)'
          BY <5>1 DEF Data
        <5> QED
          BY <5>1, <5>2
      <4> QED
        BY <4>1
    <3>4. \A p \in Storages(t)' \ N :
              Previous(t, p)' # Null =>
                  \/ Previous(t, p)' = Self
                  \/ /\ Previous(t, p)' \in Storages(t)'
                     /\ Data(t, Previous(t, p))' < Data(t, p)'
      <4>1. ASSUME NEW p \in Storages(t)' \ N, Previous(t, p)' # Null, Previous(t, p)' # Self
            PROVE  /\ Previous(t, p)' \in Storages(t)'
                   /\ Data(t, Previous(t, p))' < Data(t, p)'
        <5>1. PICK q \in Storages(t) : q = Previous(t, p)' /\ Data(t, q)' < Data(t, p)'
          BY <2>2, <2>10, <4>1
        <5>2. Data(t, Previous(t, p))' = Data(t, q)'
          BY <5>1 DEF Data
        <5> QED
          BY <2>2, <5>1, <5>2
      <4> QED
        BY <4>1
    <3> QED
      BY <2>2, <2>11, <3>1, <3>2, <3>3, <3>4 DEF MasterListOf
  <2> QED
    BY <2>12
<1> QED
  BY <1>1, <1>4, <1>5 DEF MasterLists

\* An update in another branch adds a storage that points to an element the
\* tuple already has.
LEMMA UpdateBranchLists ==
    ASSUME IInv, MasterLists, NEW t \in Tids, NEW branch \in Branches,
           update_tuple_in_branch(t, branch)
    PROVE  MasterLists'
<1>0. PICK a, latest : a = Len(storage) + 1 /\ latest = get_latest_chain_element(t, branch)
  OBVIOUS
<1>1. /\ Tids' = Tids
      /\ Len(storage') = a
      /\ \A p \in 1 .. Len(storage) : storage'[p] = storage[p]
      /\ storage'[a].tid = t
      /\ storage'[a].data = writes + 1
      /\ storage'[a].next_in_branch = latest
      /\ \A u \in Tids \ {t} : version_mgmt_column'[u] = version_mgmt_column[u]
      /\ column' = column
      /\ version_mgmt_column'[t].next_in_branch = version_mgmt_column[t].next_in_branch
  BY <1>0, UpdateBranchEffect
<1>2. Len(storage) \in Nat /\ writes \in Nat
  BY FieldTypes DEF IInv
<1>3. \A u \in Tids : Storages(u)' = IF u = t THEN Storages(t) \cup {a} ELSE Storages(u)
  BY <1>0, <1>1, <1>2 DEF Storages
<1>4. latest \in Elements(t)
  <2>1. branch # master_branch_id /\ latest # Null
    BY <1>0 DEF update_tuple_in_branch
  <2> QED
    BY <1>0, <2>1, LatestIsNewestVisible
<1>5. ASSUME NEW u \in Tids, u # t PROVE (\E M : MasterListOf(u, M))'
  <2>1. PICK M : MasterListOf(u, M)
    BY DEF MasterLists
  <2>2. Storages(u)' = Storages(u)
    BY <1>3, <1>5
  <2>3. \A p \in Storages(u) : storage'[p] = storage[p]
    BY <1>1 DEF Storages
  <2> QED
    BY <1>1, <1>5, <2>1, <2>2, <2>3, MasterListFrame
<1>6. (\E M : MasterListOf(t, M))'
  <2>1. PICK M : MasterListOf(t, M)
    BY DEF MasterLists
  <2>2. /\ a \notin Elements(t) /\ a # Self /\ a # Null /\ Self # Null
        /\ Elements(t) = {Self} \cup Storages(t)
        /\ Storages(t)' = Storages(t) \cup {a}
        /\ Elements(t)' = Elements(t) \cup {a}
    BY <1>0, <1>2, <1>3 DEF Elements, Storages, Self, Null
  <2>3. \A p \in Elements(t) : Data(t, p) \in 1 .. writes /\ p # Null
    BY ElementTypes DEF IInv
  <2>4. \A p \in Elements(t) : Data(t, p)' = Data(t, p) /\ Previous(t, p)' = Previous(t, p)
    BY <1>1, <2>2 DEF Storages, Data, Previous, Element, Self
  <2>5. Data(t, a)' = writes + 1 /\ Previous(t, a)' = latest
    BY <1>1, <2>2 DEF Data, Previous, Element, Self
  <2>6. M \in SUBSET Storages(t) /\ a \notin M
    BY <2>1, <2>2 DEF MasterListOf
  <2>7. \A p \in Elements(t) \cup {a} : \A q : q = Previous(t, p)' =>
            Data(t, Previous(t, p))' = Data(t, q)'
    BY DEF Data
  <2>8. \A p \in {Self} \cup M :
            Previous(t, p)' # Null =>
                /\ Previous(t, p)' \in M
                /\ Data(t, Previous(t, p))' < Data(t, p)'
    <3>1. ASSUME NEW p \in {Self} \cup M, Previous(t, p)' # Null
          PROVE  /\ Previous(t, p)' \in M
                 /\ Data(t, Previous(t, p))' < Data(t, p)'
      <4>1. p \in Elements(t) /\ Previous(t, p)' = Previous(t, p)
        BY <2>2, <2>4, <2>6
      <4>2. Previous(t, p) \in M /\ Data(t, Previous(t, p)) < Data(t, p)
        BY <2>1, <3>1, <4>1 DEF MasterListOf
      <4>3. Previous(t, p) \in Elements(t)
        BY <2>2, <2>6, <4>2
      <4>4. PICK q : q = Previous(t, p)
        OBVIOUS
      <4>5. Data(t, Previous(t, p))' = Data(t, q)'
        BY <2>7, <4>1, <4>4
      <4> QED
        BY <2>4, <4>1, <4>2, <4>3, <4>4, <4>5
    <3> QED
      BY <3>1
  <2>9. \A p \in Storages(t)' \ M :
            Previous(t, p)' # Null =>
                \/ Previous(t, p)' = Self
                \/ /\ Previous(t, p)' \in Storages(t)'
                   /\ Data(t, Previous(t, p))' < Data(t, p)'
    <3>1. ASSUME NEW p \in Storages(t)' \ M, Previous(t, p)' # Null, Previous(t, p)' # Self
          PROVE  /\ Previous(t, p)' \in Storages(t)'
                 /\ Data(t, Previous(t, p))' < Data(t, p)'
      <4>1. PICK q : q = Previous(t, p)'
        OBVIOUS
      <4>2. Data(t, Previous(t, p))' = Data(t, q)' /\ p \in Elements(t) \cup {a}
        BY <2>2, <2>7, <4>1
      <4>3. CASE p = a
        <5>1. q \in Elements(t) /\ q # Self
          BY <1>4, <2>5, <3>1, <4>1, <4>3
        <5>2. Data(t, q)' < writes + 1
          BY <1>2, <2>3, <2>4, <5>1
        <5> QED
          BY <2>2, <2>5, <4>1, <4>2, <4>3, <5>1, <5>2
      <4>4. CASE p # a
        <5>1. p \in Storages(t) \ M /\ p \in Elements(t) /\ q = Previous(t, p)
          BY <2>2, <2>4, <4>1, <4>4
        <5>2. q \in Storages(t) /\ Data(t, q) < Data(t, p)
          BY <2>1, <3>1, <4>1, <5>1 DEF MasterListOf
        <5>3. Data(t, q)' < Data(t, p)'
          BY <2>2, <2>4, <5>1, <5>2
        <5> QED
          BY <2>2, <4>1, <4>2, <5>2, <5>3
      <4> QED
        BY <4>3, <4>4
    <3> QED
      BY <3>1
  <2>10. ASSUME NEW p \in Elements(t) \cup {a}, Previous(t, p)' = Null,
                NEW q \in Elements(t) \cup {a}
         PROVE  Data(t, p)' <= Data(t, q)'
    <3>1. p # a
      BY <1>4, <2>3, <2>5, <2>10
    <3>2. \A x \in Elements(t) : Data(t, p) <= Data(t, x)
      BY <2>1, <2>4, <2>10, <3>1 DEF MasterListOf
    <3> QED
      BY <1>2, <2>3, <2>4, <2>5, <3>1, <3>2
  <2>11. MasterListOf(t, M)'
    <3>1. Self' = Self /\ Null' = Null
      BY DEF Self, Null
    <3>2. M \in SUBSET (Storages(t)')
      BY <2>2, <2>6
    <3> QED
      BY <2>2, <2>8, <2>9, <2>10, <3>1, <3>2 DEF MasterListOf
  <2> QED
    BY <2>11
<1> QED
  BY <1>1, <1>5, <1>6 DEF MasterLists

\* An inserted tuple has one element, which points nowhere.
LEMMA InsertLists ==
    ASSUME IInv, MasterLists, NEW branch \in Branches, insert_tuple(branch)
    PROVE  MasterLists'
<1>0. PICK new : new = Len(version_mgmt_column) + 1
  OBVIOUS
<1>1. /\ TypeOK'
      /\ Tids' = Tids \cup {new}
      /\ new \notin Tids
      /\ \A t \in Tids : /\ version_mgmt_column'[t] = version_mgmt_column[t]
                         /\ column'[t] = column[t]
      /\ version_mgmt_column'[new].next_in_branch = Null
  BY <1>0, InsertTypes DEF IInv
<1>2. storage' = storage
  BY DEF insert_tuple
<1>3. ASSUME NEW t \in Tids PROVE (\E M : MasterListOf(t, M))'
  <2>1. PICK M : MasterListOf(t, M)
    BY DEF MasterLists
  <2>2. Storages(t)' = Storages(t)
    BY <1>2 DEF Storages
  <2> QED
    BY <1>1, <1>2, <2>1, <2>2, MasterListFrame
<1>4. MasterListOf(new, {})'
  <2>1. \A p \in 1 .. Len(storage) : storage[p].tid # new
    BY <1>1, FieldTypes DEF IInv
  <2>2. Storages(new)' = {} /\ Elements(new)' = {Self}
    BY <1>2, <2>1 DEF Storages, Elements, Self
  <2>3. Previous(new, Self)' = Null
    BY <1>1 DEF Previous, Element, Self, Null
  <2>4. Data(new, Self)' \in Nat
    <3>1. new \in Tids' /\ column' \in [Tids' -> 1 .. writes']
      BY <1>1 DEF TypeOK
    <3> QED
      BY <3>1 DEF Data, Self
  <2>5. Self' = Self /\ Null' = Null
    BY DEF Self, Null
  <2>6. Data(new, Self)' <= Data(new, Self)'
    BY <2>4
  <2> QED
    BY <2>2, <2>3, <2>5, <2>6 DEF MasterListOf
<1> QED
  BY <1>1, <1>3, <1>4 DEF MasterLists

\* Every operation keeps the lists.
LEMMA NextLists == IInv /\ MasterLists /\ [Next]_vars => MasterLists'
<1> SUFFICES ASSUME IInv, MasterLists, [Next]_vars PROVE MasterLists'
  OBVIOUS
<1>1. ASSUME UNCHANGED <<version_mgmt_column, column, storage>> PROVE MasterLists'
  <2>1. Tids' = Tids
    BY <1>1 DEF Tids
  <2>2. ASSUME NEW t \in Tids PROVE (\E M : MasterListOf(t, M))'
    <3>1. PICK M : MasterListOf(t, M)
      BY DEF MasterLists
    <3>2. Storages(t)' = Storages(t)
      BY <1>1 DEF Storages
    <3> QED
      BY <1>1, <3>1, <3>2, MasterListFrame
  <2> QED
    BY <2>1, <2>2 DEF MasterLists
<1>2. ASSUME NEW branch \in Branches, createBranch(branch) PROVE MasterLists'
  BY <1>1, <1>2 DEF createBranch
<1>3. ASSUME NEW t \in Tids, NEW branch \in Branches, delete_tuple(t, branch) PROVE MasterLists'
  BY <1>1, <1>3 DEF delete_tuple
<1>4. ASSUME UNCHANGED vars PROVE MasterLists'
  BY <1>1, <1>4 DEF vars
<1> QED
  BY <1>2, <1>3, <1>4, InsertLists, UpdateMasterLists, UpdateBranchLists DEF Next

\* The loop of get_earliest_chain_element ends, after at most twice as many
\* turns as there were writes, at the oldest element.
LEMMA EarliestFound ==
    ASSUME IInv, MasterLists, NEW t \in Tids, NEW b \in Branches,
           get_latest_chain_element(t, b) # Null
    PROVE  \A p \in Elements(t) : Data(t, get_earliest_chain_element(t, b)) <= Data(t, p)
<1> DEFINE latest == get_latest_chain_element(t, b)
<1>1. latest \in Elements(t)
  <2>1. CASE b = master_branch_id
    BY <2>1 DEF get_latest_chain_element, Elements
  <2>2. CASE b # master_branch_id
    BY <2>2, LatestIsNewestVisible
  <2> QED
    BY <2>1, <2>2
<1>2. PICK M : MasterListOf(t, M)
  BY DEF MasterLists
<1>3. writes \in Nat /\ \A p \in Elements(t) : Data(t, p) \in 1 .. writes /\ p # Null /\ p \in Pointers
  <2>1. \A p \in Elements(t) : Data(t, p) \in 1 .. writes /\ p # Null /\ p \in Pointers
    BY ElementTypes DEF IInv
  <2> QED
    BY <2>1, FieldTypes DEF IInv
<1>4. PICK f, place : f = NextInBranchField(t) /\ place = Walk(f, latest)
  OBVIOUS
<1>5. Visits(place, Pointers, f, latest)
  <2>1. f \in [Pointers -> Pointers]
    BY <1>4, FieldTypes DEF NextInBranchField, Element, Pointers, Self, Null, IInv
  <2>2. latest \in Pointers
    BY <1>1, <1>3
  <2> HIDE DEF latest
  <2> QED
    BY <1>4, <2>1, <2>2, WalkVisits, Zenon
<1>6. f[Null] = Null /\ \A p \in Elements(t) : f[p] = Previous(t, p)
  BY <1>3, <1>4 DEF NextInBranchField, Previous, Pointers
\* Falls at every turn, also on the way from a storage to the entry.
<1> DEFINE rank(p) == IF p = Self THEN writes
                      ELSE IF p \in M THEN Data(t, p) ELSE writes + Data(t, p)
<1>7. \A p \in Elements(t) : rank(p) \in 1 .. 2 * writes
  BY <1>3
<1>8. ASSUME NEW p \in Elements(t), f[p] # Null
      PROVE  f[p] \in Elements(t) /\ rank(f[p]) < rank(p)
  <2>1. /\ Elements(t) = {Self} \cup Storages(t) /\ M \subseteq Storages(t)
        /\ Self \notin Storages(t)
    BY <1>2 DEF Elements, MasterListOf, Storages, Self
  <2>2. PICK q : q = f[p]
    OBVIOUS
  <2>3. q = Previous(t, p) /\ q # Null
    BY <1>6, <1>8, <2>2
  <2>4. CASE p = Self \/ p \in M
    <3>1. q \in M /\ Data(t, q) < Data(t, p)
      BY <1>2, <2>3, <2>4 DEF MasterListOf
    <3>2. q \in Elements(t) /\ q # Self
      BY <2>1, <3>1
    <3>3. Data(t, p) \in 1 .. writes /\ Data(t, q) \in 1 .. writes
      BY <1>3, <3>2
    <3>4. rank(q) = Data(t, q)
      BY <3>1, <3>2
    <3>5. rank(p) >= Data(t, p)
      BY <1>3, <2>4, <3>3
    <3>6. rank(p) \in Nat /\ rank(q) \in Nat
      BY <1>3, <3>3
    <3> HIDE DEF rank
    <3> QED
      BY <2>2, <3>1, <3>2, <3>3, <3>4, <3>5, <3>6
  <2>5. CASE p # Self /\ p \notin M
    <3>1. q = Self \/ (q \in Storages(t) /\ Data(t, q) < Data(t, p))
      BY <1>2, <2>1, <2>3, <2>5 DEF MasterListOf
    <3>2. q \in Elements(t)
      BY <2>1, <3>1
    <3>3. Data(t, p) \in 1 .. writes /\ Data(t, q) \in 1 .. writes
      BY <1>3, <3>2
    <3> QED
      BY <1>3, <2>1, <2>2, <2>5, <3>1, <3>2, <3>3
  <2> QED
    BY <2>4, <2>5
<1> HIDE DEF rank, latest
<1> DEFINE Good == {n \in Nat : \/ place[n] = Null
                                \/ place[n] \in Elements(t) /\ rank(place[n]) + n <= 2 * writes}
<1>9. 0 \in Good
  BY <1>1, <1>3, <1>5, <1>7 DEF Visits
<1>10. ASSUME NEW n \in Nat, n \in Good PROVE n + 1 \in Good
  <2>1. place[n + 1] = f[place[n]]
    BY <1>5 DEF Visits
  <2>2. CASE place[n] = Null
    BY <1>6, <2>1, <2>2
  <2>3. CASE place[n] # Null /\ place[n + 1] # Null
    <3>1. place[n] \in Elements(t) /\ rank(place[n]) + n <= 2 * writes
      BY <1>10, <2>3
    <3>2. place[n + 1] \in Elements(t) /\ rank(place[n + 1]) < rank(place[n])
      BY <1>8, <2>1, <2>3, <3>1
    <3>3. rank(place[n]) \in Nat /\ rank(place[n + 1]) \in Nat
      BY <1>3, <1>7, <3>1, <3>2
    <3>4. rank(place[n + 1]) + (n + 1) <= 2 * writes
      BY <1>3, <3>1, <3>2, <3>3
    <3> QED
      BY <3>2, <3>4
  <2>4. CASE place[n + 1] = Null
    BY <2>4
  <2> QED
    BY <2>2, <2>3, <2>4
<1>11. \A n \in Nat : n \in Good
  <2> HIDE DEF Good
  <2> QED
    BY <1>9, <1>10, NatSetInduction
<1>12. place[0] # Null /\ place[2 * writes] = Null
  <2>1. place[0] # Null
    BY <1>1, <1>3, <1>5 DEF Visits
  <2>2. 2 * writes \in Nat
    BY <1>3
  <2>3. ASSUME place[2 * writes] # Null PROVE FALSE
    <3>1. /\ place[2 * writes] \in Elements(t)
          /\ rank(place[2 * writes]) + 2 * writes <= 2 * writes
      BY <1>11, <2>2, <2>3
    <3>2. rank(place[2 * writes]) \in 1 .. 2 * writes
      BY <1>7, <3>1
    <3> QED
      BY <1>3, <3>1, <3>2
  <2> QED
    BY <2>1, <2>3
<1> DEFINE Ends(n) == place[n] # Null /\ place[n + 1] = Null
<1>13. \E n \in 0 .. 2 * writes : Ends(n)
  <2> DEFINE S == {n \in 0 .. 2 * writes : place[n] = Null}
  <2>1. S \in SUBSET Nat /\ 2 * writes \in S
    BY <1>3, <1>12
  <2> HIDE DEF S
  <2>2. PICK m \in S : \A n \in 0 .. m - 1 : n \notin S
    BY <2>1, NatSetMin
  <2>3. m \in 0 .. 2 * writes /\ place[m] = Null /\ m # 0
    BY <1>12, <2>2 DEF S
  <2>4. m - 1 \in 0 .. 2 * writes /\ m - 1 \in 0 .. m - 1 /\ (m - 1) + 1 = m
    BY <1>3, <2>3
  <2>5. place[m - 1] # Null
    BY <2>2, <2>4 DEF S
  <2> QED
    BY <2>3, <2>4, <2>5
<1> DEFINE end == CHOOSE n \in 0 .. 2 * writes : Ends(n)
<1>14. end \in 0 .. 2 * writes /\ Ends(end)
  <2> HIDE DEF Ends
  <2> QED
    BY <1>13
<1>15. get_earliest_chain_element(t, b) = place[end]
  BY <1>4 DEF get_earliest_chain_element, latest
<1> HIDE DEF end
<1>16. end \in Nat
  BY <1>3, <1>14
<1>17. place[end] \in Elements(t) /\ Previous(t, place[end]) = Null
  BY <1>5, <1>6, <1>11, <1>14, <1>16 DEF Visits
<1> QED
  BY <1>2, <1>15, <1>17 DEF MasterListOf

\* Whichever branch asks, the list leads back to the content the tuple was
\* inserted with, through an entry that master may have overwritten since.
THEOREM EarliestIsFirst == Spec => []EarliestIsInsertedVersion
<1>1. Init => MasterLists
  BY DEF Init, MasterLists, Tids
<1>2. IInv /\ MasterLists => EarliestIsInsertedVersion
  BY EarliestFound DEF EarliestIsInsertedVersion
<1> QED
  BY <1>1, <1>2, NextLists, ChainInvariant, PTL DEF Spec

------------------------------------------------------------------------------
(* The lineage of a branch                                                 *)

\* The way from b to the root of the branch tree.
Path(b) == Walk(ParentField, b)

\* The places of a lineage: the branches, and what the root points to.
LineagePlaces == Branches \cup {invalid_branch_id}

\* On the way from b to the root the branch ids fall, so that the loop of
\* constructBranchLineage ends within b + 1 turns.
LEMMA PathFalls ==
    TypeOK => \A b \in Branches :
        /\ Visits(Path(b), LineagePlaces, ParentField, b)
        /\ \A n \in Nat : \/ Path(b)[n] = invalid_branch_id
                          \/ Path(b)[n] \in Branches /\ Path(b)[n] + n <= b
<1> SUFFICES ASSUME TypeOK, NEW b \in Branches
             PROVE  /\ Visits(Path(b), LineagePlaces, ParentField, b)
                    /\ \A n \in Nat : \/ Path(b)[n] = invalid_branch_id
                                      \/ Path(b)[n] \in Branches /\ Path(b)[n] + n <= b
  OBVIOUS
<1>1. ParentField \in [LineagePlaces -> LineagePlaces]
  BY DEF ParentField, LineagePlaces, TypeOK
<1>2. b \in LineagePlaces
  BY DEF LineagePlaces
<1>3. Visits(Path(b), LineagePlaces, ParentField, b)
  BY <1>1, <1>2, WalkVisits, Zenon DEF Path
<1>4. /\ ParentField[invalid_branch_id] = invalid_branch_id
      /\ \A c \in Branches : /\ c \in Nat /\ c # invalid_branch_id
                             /\ \/ ParentField[c] = invalid_branch_id
                                \/ ParentField[c] \in Branches /\ ParentField[c] < c
  <2>1. next_branch_id \in Nat
    BY BoundsAssumption DEF TypeOK
  <2>2. \A c \in Branches : c \in Nat /\ c # invalid_branch_id /\ c < next_branch_id
    BY <2>1 DEF Branches, invalid_branch_id
  <2>3. \A c \in Branches : ParentField[c] = parent_id[c]
    BY <2>2 DEF ParentField
  <2>4. \A c \in Branches \ {master_branch_id} : parent_id[c] \in 0 .. c - 1
    BY DEF TypeOK
  <2>5. \A c \in Branches \ {master_branch_id} : parent_id[c] \in Branches /\ parent_id[c] < c
    BY <2>1, <2>2, <2>4 DEF Branches
  <2>6. parent_id[master_branch_id] = invalid_branch_id
    BY DEF TypeOK
  <2> QED
    BY <2>2, <2>3, <2>5, <2>6 DEF ParentField
<1> DEFINE path == Path(b)
<1> HIDE DEF path
<1> DEFINE Good == {n \in Nat : \/ path[n] = invalid_branch_id
                                \/ path[n] \in Branches /\ path[n] + n <= b}
<1>5. path[0] = b /\ \A n \in Nat : path[n + 1] = ParentField[path[n]]
  BY <1>3 DEF Visits, path
<1>6. 0 \in Good
  BY <1>4, <1>5
<1>7. ASSUME NEW n \in Nat, n \in Good PROVE n + 1 \in Good
  <2>1. CASE path[n] = invalid_branch_id
    BY <1>4, <1>5, <2>1
  <2>2. CASE path[n] \in Branches /\ path[n] + n <= b
    <3>1. \/ path[n + 1] = invalid_branch_id
          \/ path[n + 1] \in Branches /\ path[n + 1] < path[n]
      BY <1>4, <1>5, <2>2
    <3>2. b \in Nat /\ path[n] \in Nat
      BY <1>4, <2>2
    <3>3. path[n + 1] \in Branches => path[n + 1] \in Nat
      BY <1>4
    <3> QED
      BY <2>2, <3>1, <3>2, <3>3
  <2> QED
    BY <1>7, <2>1, <2>2
<1>8. \A n \in Nat : n \in Good
  <2> HIDE DEF Good
  <2> QED
    BY <1>6, <1>7, NatSetInduction
<1> QED
  BY <1>3, <1>8 DEF path

\* The way from b starts at b.
LEMMA PathStarts == TypeOK => \A b \in Branches : Path(b)[0] = b
BY PathFalls DEF Visits

\* The edges of a lineage, whatever the number of turns the loop is given.
LEMMA LineageMember ==
    TypeOK => \A b \in Branches : \A e :
        e \in branch_lineage(b) <=>
            \E i \in Nat : /\ Path(b)[i + 1] # invalid_branch_id
                           /\ e = <<Path(b)[i + 1], Path(b)[i]>>
<1> SUFFICES ASSUME TypeOK, NEW b \in Branches, NEW e
             PROVE  e \in branch_lineage(b) <=>
                        \E i \in Nat : /\ Path(b)[i + 1] # invalid_branch_id
                                       /\ e = <<Path(b)[i + 1], Path(b)[i]>>
  OBVIOUS
<1> DEFINE path == Path(b)
<1>1. b \in Nat /\ \A c \in Branches : c \in Nat
  BY BoundsAssumption DEF TypeOK, Branches
<1>2. branch_lineage(b) = {<<path[n + 1], path[n]>> :
                              n \in {i \in 0 .. b : path[i + 1] # invalid_branch_id}}
  BY DEF branch_lineage, Path
<1>3. \A i \in Nat : path[i + 1] # invalid_branch_id => i \in 0 .. b
  <2>1. \A n \in Nat : path[n] # invalid_branch_id => path[n] \in Branches /\ path[n] + n <= b
    BY PathFalls
  <2> HIDE DEF path
  <2>2. ASSUME NEW i \in Nat, path[i + 1] # invalid_branch_id PROVE i \in 0 .. b
    <3>1. i + 1 \in Nat
      OBVIOUS
    <3>2. path[i + 1] \in Nat /\ path[i + 1] + (i + 1) <= b
      BY <1>1, <2>1, <2>2, <3>1
    <3> QED
      BY <1>1, <3>2
  <2> QED
    BY <2>2
<1>4. \A i \in 0 .. b : i \in Nat
  BY <1>1
<1> HIDE DEF path
<1> QED
  BY <1>2, <1>3, <1>4 DEF path

\* Both ends of an edge are branches, the child not younger than b.
LEMMA LineageEdges ==
    TypeOK => \A b \in Branches : \A e \in branch_lineage(b) :
        e[1] \in Branches /\ e[2] \in Branches /\ e[2] <= b /\ e[1] < e[2]
<1> SUFFICES ASSUME TypeOK, NEW b \in Branches, NEW e \in branch_lineage(b)
             PROVE  e[1] \in Branches /\ e[2] \in Branches /\ e[2] <= b /\ e[1] < e[2]
  OBVIOUS
<1> DEFINE path == Path(b)
<1>1. PICK i \in Nat : /\ path[i + 1] # invalid_branch_id
                       /\ e = <<path[i + 1], path[i]>>
  BY LineageMember
<1>2. /\ path[i + 1] = ParentField[path[i]]
      /\ path[i] \in LineagePlaces
  BY PathFalls DEF Visits
<1>3. path[i + 1] \in Branches
  BY <1>1, PathFalls
<1>4. path[i] # invalid_branch_id
  <2>1. ParentField[invalid_branch_id] = invalid_branch_id
    BY DEF ParentField
  <2> QED
    BY <1>1, <1>2, <2>1
<1>5. path[i] \in Branches /\ path[i] + i <= b
  BY <1>4, PathFalls
<1>6. path[i + 1] = parent_id[path[i]]
  BY <1>2, <1>4, <1>5 DEF ParentField
<1> HIDE DEF path
<1>7. path[i] # master_branch_id
  BY <1>1, <1>6 DEF TypeOK
<1>8. parent_id[path[i]] \in 0 .. path[i] - 1
  BY <1>5, <1>7 DEF TypeOK
<1>9. b \in Nat /\ path[i] \in Nat
  BY <1>5, BoundsAssumption DEF TypeOK, Branches
<1> QED
  BY <1>1, <1>3, <1>5, <1>6, <1>8, <1>9

\* The lineage of an existing branch never changes, and that of a new branch
\* is its parent's with one edge more.
LEMMA CreateBranchLineage ==
    ASSUME TypeOK, NEW parent \in Branches, createBranch(parent),
           NEW n, n = next_branch_id
    PROVE  /\ \A b \in Branches : branch_lineage(b)' = branch_lineage(b)
           /\ branch_lineage(n)' = {<<parent, n>>} \cup branch_lineage(parent)
<1>1. TypeOK' /\ n \in Nat /\ Branches' = Branches \cup {n} /\ n \notin Branches
  <2>1. n \in Nat /\ n # 0
    BY BoundsAssumption DEF TypeOK
  <2> QED
    BY <2>1, CreateBranchTypes DEF Branches, createBranch
<1>2. invalid_branch_id \notin Branches /\ invalid_branch_id # n
  BY <1>1 DEF Branches, invalid_branch_id
<1>a. PICK f, g, S, T : /\ f = ParentField /\ S = LineagePlaces
                        /\ g = ParentField' /\ T = LineagePlaces'
  OBVIOUS
<1>3. /\ f \in [S -> S]
      /\ g \in [T -> T]
      /\ g[n] = parent
      /\ \A b \in S : b \in T /\ g[b] = f[b]
      /\ n \in T /\ \A b \in Branches : b \in S
  <2>1. parent_id' = [b \in Branches \cup {n} |-> IF b = n THEN parent ELSE parent_id[b]]
    BY DEF createBranch
  <2>2. invalid_branch_id' = invalid_branch_id
    BY DEF invalid_branch_id
  <2>3. parent_id \in [Branches -> {invalid_branch_id} \cup Branches]
    BY DEF TypeOK
  <2>4. /\ S = Branches \cup {invalid_branch_id}
        /\ f = [b \in S |-> IF b = invalid_branch_id THEN b ELSE parent_id[b]]
    BY <1>a DEF ParentField, LineagePlaces
  <2>5. /\ T = Branches \cup {n, invalid_branch_id}
        /\ g = [b \in T |-> IF b = invalid_branch_id THEN b ELSE parent_id'[b]]
    BY <1>1, <1>a, <2>2 DEF ParentField, LineagePlaces
  <2>6. f \in [S -> S]
    BY <2>3, <2>4
  <2>7. \A b \in T : g[b] = IF b = n THEN parent ELSE IF b = invalid_branch_id THEN b ELSE parent_id[b]
    BY <1>2, <2>1, <2>5
  <2>8. \A b \in S : f[b] \in S /\ b # n /\ b \in T /\ g[b] = f[b]
    BY <1>1, <1>2, <2>3, <2>4, <2>5, <2>7
  <2>9. \A b \in T : g[b] \in T
    BY <2>4, <2>5, <2>7, <2>8
  <2>10. g \in [T -> T]
    BY <2>5, <2>9
  <2> QED
    BY <2>4, <2>5, <2>6, <2>7, <2>8, <2>10
<1>4. \A b \in Branches : \A i \in Nat : Path(b)'[i] = Path(b)[i]
  <2>1. ASSUME NEW b \in Branches
        PROVE  \A i \in Nat : Walk(g, b)[i] = Walk(f, b)[i]
    <3>1. f \in [S -> S] /\ g \in [T -> T] /\ b \in S
      BY <1>3
    <3>2. \A p \in S : p \in T /\ g[p] = f[p]
      BY <1>3
    <3> QED
      BY <3>1, <3>2, WalkAgree
  <2>2. \A b \in Branches : Path(b) = Walk(f, b) /\ Path(b)' = Walk(g, b)
    BY <1>a DEF Path
  <2> QED
    BY <2>1, <2>2
<1>5. \A i \in Nat : Path(n)'[i + 1] = Path(parent)[i]
  <2>1. \A i \in Nat : Walk(g, n)[i + 1] = Walk(g, g[n])[i]
    <3>1. g \in [T -> T] /\ n \in T
      BY <1>3
    <3> QED
      BY <3>1, WalkShift
  <2>2. Path(n)' = Walk(g, n) /\ Path(parent)' = Walk(g, parent)
    BY <1>a DEF Path
  <2> QED
    BY <1>3, <1>4, <2>1, <2>2
<1>6. \A b \in Branches' : \A e :
          e \in branch_lineage(b)' <=>
              \E i \in Nat : /\ Path(b)'[i + 1] # invalid_branch_id
                             /\ e = <<Path(b)'[i + 1], Path(b)'[i]>>
  <2>1. (TypeOK => \A b \in Branches : \A e :
            e \in branch_lineage(b) <=>
                \E i \in Nat : /\ Path(b)[i + 1] # invalid_branch_id
                               /\ e = <<Path(b)[i + 1], Path(b)[i]>>)'
    BY LineageMember, PTL
  <2>2. invalid_branch_id' = invalid_branch_id
    BY DEF invalid_branch_id
  <2> QED
    BY <1>1, <2>1, <2>2
<1>7. ASSUME NEW b \in Branches PROVE branch_lineage(b)' = branch_lineage(b)
  <2>1. b \in Branches' /\ \A i \in Nat : i + 1 \in Nat
    BY <1>1
  <2>2. \A e : e \in branch_lineage(b)' <=> e \in branch_lineage(b)
    BY <1>4, <1>6, <2>1, LineageMember
  <2> QED
    BY <2>2
<1>8. ASSUME NEW e
      PROVE  e \in branch_lineage(n)' <=> e = <<parent, n>> \/ e \in branch_lineage(parent)
  <2>1. n \in Branches' /\ parent \in Branches'
    BY <1>1
  <2>2. Path(n)'[0] = n /\ Path(parent)[0] = parent
    <3>1. (TypeOK => \A b \in Branches : Path(b)[0] = b)'
      BY PathStarts, PTL
    <3>2. Path(parent)[0] = parent
      BY PathStarts
    <3> QED
      BY <1>1, <2>1, <3>1, <3>2
  <2>3. Path(n)'[1] = parent /\ parent # invalid_branch_id
    <3>1. Path(n)'[0 + 1] = Path(parent)[0]
      BY <1>5
    <3> QED
      BY <1>2, <2>2, <3>1
  <2>4. ASSUME e \in branch_lineage(n)'
        PROVE  e = <<parent, n>> \/ e \in branch_lineage(parent)
    <3>1. PICK i \in Nat : /\ Path(n)'[i + 1] # invalid_branch_id
                           /\ e = <<Path(n)'[i + 1], Path(n)'[i]>>
      BY <1>6, <2>1, <2>4
    <3>2. CASE i = 0
      BY <2>2, <2>3, <3>1, <3>2
    <3>3. CASE i # 0
      <4>1. PICK j \in Nat : i = j + 1
        <5>1. i - 1 \in Nat /\ i = (i - 1) + 1
          BY <3>3
        <5> QED
          BY <5>1
      <4>2. Path(n)'[i] = Path(parent)[j] /\ Path(n)'[i + 1] = Path(parent)[j + 1]
        BY <1>5, <4>1
      <4> QED
        BY <3>1, <4>2, LineageMember
    <3> QED
      BY <3>2, <3>3
  <2>5. e = <<parent, n>> => e \in branch_lineage(n)'
    <3>1. 0 \in Nat /\ Path(n)'[0 + 1] = parent
      BY <2>3
    <3> QED
      BY <1>6, <2>1, <2>2, <2>3, <3>1
  <2>6. ASSUME e \in branch_lineage(parent) PROVE e \in branch_lineage(n)'
    <3>1. PICK j \in Nat : /\ Path(parent)[j + 1] # invalid_branch_id
                           /\ e = <<Path(parent)[j + 1], Path(parent)[j]>>
      BY <2>6, LineageMember
    <3>2. /\ j + 1 \in Nat
          /\ Path(n)'[j + 1] = Path(parent)[j]
          /\ Path(n)'[(j + 1) + 1] = Path(parent)[j + 1]
      BY <1>5
    <3> QED
      BY <1>6, <2>1, <3>1, <3>2
  <2> QED
    BY <2>4, <2>5, <2>6
<1> QED
  BY <1>7, <1>8

------------------------------------------------------------------------------
(* What a scan shows, in terms of the versions of a tuple                  *)

\* A version of a tuple as the scans see it: its content, the branch that
\* wrote it, and the largest branch id at that time.
Version(t, p) == <<Data(t, p), Element(t, p).branch_id, Element(t, p).creation_ts>>
Versions(t) == {Version(t, p) : p \in Elements(t)}

\* is_visible, for a version.
Sees(b, v) ==
    \/ v[2] = b
    \/ \E edge \in branch_lineage(b) : edge[1] = v[2] /\ v[3] < edge[2]

\* d is the newest content of tuple t that branch b sees.
Shows(t, b, d) ==
    /\ \E v \in Versions(t) : v[1] = d /\ Sees(b, v)
    /\ \A v \in Versions(t) : Sees(b, v) => v[1] <= d

\* A branch sees a version of every tuple whose bit it has set.
BitsVisible ==
    \A t \in Tids : \A b \in branchBitmap[t] : \E v \in Versions(t) : Sees(b, v)

\* The entry holds the newest version master has written, if there is one: a
\* reader in master takes the entry without looking.
MasterNewest ==
    \A t \in Tids : \A v \in Versions(t) :
        v[2] = master_branch_id =>
            /\ version_mgmt_column[t].branch_id = master_branch_id
            /\ v[1] <= column[t]

\* What makes the scans right.
ScanInv == IInv /\ BitsVisible /\ MasterNewest

\* A version holds the number of a write and two branch ids.
LEMMA VersionTypes ==
    TypeOK => \A t \in Tids : \A v \in Versions(t) :
        v[1] \in 1 .. writes /\ v[2] \in Branches /\ v[3] \in Branches
BY FieldTypes DEF Versions, Version, Elements, Storages, Data, Element, Self

\* Two contents cannot both be what a branch sees.
LEMMA ShowsOne ==
    ASSUME TypeOK, NEW t \in Tids, NEW b, NEW c, NEW d, Shows(t, b, c), Shows(t, b, d)
    PROVE  c = d
<1>1. PICK v \in Versions(t) : v[1] = c /\ Sees(b, v)
  BY DEF Shows
<1>2. PICK w \in Versions(t) : w[1] = d /\ Sees(b, w)
  BY DEF Shows
<1>3. c \in Nat /\ d \in Nat
  <2>1. c \in 1 .. writes /\ d \in 1 .. writes /\ writes \in Nat
    BY <1>1, <1>2, VersionTypes, FieldTypes
  <2> QED
    BY <2>1
<1>4. c <= d /\ d <= c
  BY <1>1, <1>2 DEF Shows
<1> QED
  BY <1>3, <1>4

\* A branch sees the version exactly if the element that holds it is visible.
LEMMA SeesElement ==
    ASSUME NEW t, NEW b, NEW p
    PROVE  /\ Sees(b, Version(t, p)) <=> is_visible(Element(t, p), b)
           /\ Version(t, p)[1] = Data(t, p)
           /\ Version(t, p)[2] = Element(t, p).branch_id
           /\ Version(t, p)[3] = Element(t, p).creation_ts
BY DEF Sees, Version, is_visible

\* Master has no lineage.
LEMMA MasterLineage == TypeOK => branch_lineage(master_branch_id) = {}
<1> SUFFICES ASSUME TypeOK, NEW e \in branch_lineage(master_branch_id) PROVE FALSE
  OBVIOUS
<1>1. master_branch_id \in Branches /\ \A b \in Branches : b \in Nat
  BY BoundsAssumption DEF TypeOK, Branches, master_branch_id
<1>2. e[1] \in Nat /\ e[2] \in Nat /\ e[2] <= master_branch_id /\ e[1] < e[2]
  BY <1>1, LineageEdges
<1> QED
  BY <1>2 DEF master_branch_id

\* The element a scan picks holds the newest content the branch sees.
LEMMA ScanShows ==
    ScanInv => \A t \in Tids : \A b \in branchBitmap[t] :
        Shows(t, b, Data(t, get_latest_chain_element(t, b)))
<1> SUFFICES ASSUME ScanInv, NEW t \in Tids, NEW b \in branchBitmap[t]
             PROVE  Shows(t, b, Data(t, get_latest_chain_element(t, b)))
  OBVIOUS
<1>1. IInv /\ TypeOK /\ b \in Branches
  BY DEF ScanInv, IInv, TypeOK
<1>2. PICK v \in Versions(t) : Sees(b, v)
  BY DEF ScanInv, BitsVisible
<1>3. CASE b = master_branch_id
  <2>1. get_latest_chain_element(t, b) = Self
    BY <1>3 DEF get_latest_chain_element
  <2>2. \A w \in Versions(t) : Sees(b, w) <=> w[2] = master_branch_id
    BY <1>1, <1>3, MasterLineage DEF Sees
  <2>3. /\ version_mgmt_column[t].branch_id = master_branch_id
        /\ \A w \in Versions(t) : Sees(b, w) => w[1] <= column[t]
    BY <1>2, <2>2 DEF ScanInv, MasterNewest
  <2>4. /\ Version(t, Self) \in Versions(t)
        /\ Version(t, Self)[1] = Data(t, Self)
        /\ Version(t, Self)[2] = master_branch_id
        /\ Data(t, Self) = column[t]
    BY <2>3, SeesElement DEF Versions, Elements, Element, Data
  <2> QED
    BY <2>1, <2>2, <2>3, <2>4 DEF Shows
<1>4. CASE b # master_branch_id
  <2> DEFINE p == get_latest_chain_element(t, b)
  <2> DEFINE visible == {q \in Elements(t) : is_visible(Element(t, q), b)}
  <2>1. p \in Elements(t) \cup {Null} /\ LatestVisible(t, b, p)
    BY <1>1, <1>4, LatestIsNewestVisible
  <2> HIDE DEF p
  <2>2. PICK q \in Elements(t) : v = Version(t, q)
    BY DEF Versions
  <2>3. q \in visible
    BY <1>2, <2>2, SeesElement
  <2>4. Newest(t, p, visible)
    BY <2>1, <2>3 DEF LatestVisible
  <2>5. /\ p \in Elements(t) /\ is_visible(Element(t, p), b)
        /\ \A r \in Elements(t) : is_visible(Element(t, r), b) => Data(t, r) <= Data(t, p)
    BY <2>4 DEF Newest
  <2>6. Version(t, p) \in Versions(t) /\ Sees(b, Version(t, p)) /\ Version(t, p)[1] = Data(t, p)
    BY <2>5, SeesElement DEF Versions
  <2>7. ASSUME NEW w \in Versions(t), Sees(b, w) PROVE w[1] <= Data(t, p)
    <3>1. PICK r \in Elements(t) : w = Version(t, r)
      BY DEF Versions
    <3> QED
      BY <2>5, <2>7, <3>1, SeesElement
  <2>8. Shows(t, b, Data(t, p))
    BY <2>6, <2>7 DEF Shows
  <2> QED
    BY <2>8 DEF p
<1> QED
  BY <1>3, <1>4

------------------------------------------------------------------------------
(* The effect of each operation on the versions and on who sees them       *)

\* The branch tree stays, so every branch sees what it saw.
SameTree == UNCHANGED <<next_branch_id, parent_id>>

\* With the same branch tree the lineages and what is seen along them stay.
LEMMA SameTreeSees ==
    ASSUME SameTree
    PROVE  /\ Branches' = Branches
           /\ \A b : branch_lineage(b)' = branch_lineage(b)
           /\ \A b, v : Sees(b, v)' <=> Sees(b, v)
<1>1. Branches' = Branches
  BY DEF SameTree, Branches
<1>2. ParentField' = ParentField
  BY <1>1 DEF SameTree, ParentField, invalid_branch_id
<1>3. \A b : branch_lineage(b)' = branch_lineage(b)
  BY <1>2 DEF branch_lineage, invalid_branch_id
<1> QED
  BY <1>1, <1>3 DEF Sees

\* A tuple whose elements keep their contents and their stamps keeps its
\* versions.
LEMMA VersionsFrame ==
    ASSUME NEW t, Storages(t)' = Storages(t), column'[t] = column[t],
           version_mgmt_column'[t].branch_id = version_mgmt_column[t].branch_id,
           version_mgmt_column'[t].creation_ts = version_mgmt_column[t].creation_ts,
           \A p \in Storages(t) : /\ storage'[p].data = storage[p].data
                                  /\ storage'[p].branch_id = storage[p].branch_id
                                  /\ storage'[p].creation_ts = storage[p].creation_ts
    PROVE  Versions(t)' = Versions(t)
<1>1. Elements(t)' = Elements(t)
  BY DEF Elements, Self
<1>2. \A p \in Elements(t) : Version(t, p)' = Version(t, p)
  BY DEF Elements, Version, Data, Element, Self
<1> QED
  BY <1>1, <1>2 DEF Versions

\* A new branch sees what its parent sees: every version so far is older than
\* the new branch.
LEMMA CreateBranchSees ==
    ASSUME IInv, NEW parent \in Branches, createBranch(parent),
           NEW n, n = next_branch_id
    PROVE  /\ Tids' = Tids /\ Branches' = Branches \cup {n} /\ n \notin Branches
           /\ \A t \in Tids : Versions(t)' = Versions(t)
           /\ \A b \in Branches : \A v : Sees(b, v)' <=> Sees(b, v)
           /\ \A t \in Tids : \A v \in Versions(t) : Sees(n, v)' <=> Sees(parent, v)
<1>1. /\ version_mgmt_column' = version_mgmt_column /\ column' = column
      /\ storage' = storage /\ next_branch_id' = n + 1
  BY DEF createBranch
<1>2. n \in Nat /\ Branches = 0 .. n - 1
  BY BoundsAssumption DEF IInv, TypeOK, Branches
<1>3. Tids' = Tids /\ Branches' = Branches \cup {n} /\ n \notin Branches
  BY <1>1, <1>2 DEF Tids, Branches
<1>4. ASSUME NEW t \in Tids PROVE Versions(t)' = Versions(t)
  <2>1. Storages(t)' = Storages(t)
    BY <1>1 DEF Storages
  <2> QED
    BY <1>1, <2>1, VersionsFrame
<1>5. /\ \A b \in Branches : branch_lineage(b)' = branch_lineage(b)
      /\ branch_lineage(n)' = {<<parent, n>>} \cup branch_lineage(parent)
  BY CreateBranchLineage DEF IInv
<1>6. \A b \in Branches : \A v : Sees(b, v)' <=> Sees(b, v)
  BY <1>5 DEF Sees
<1>7. ASSUME NEW t \in Tids, NEW v \in Versions(t) PROVE Sees(n, v)' <=> Sees(parent, v)
  <2>1. v[2] \in Branches /\ v[3] \in Branches
    BY VersionTypes DEF IInv
  <2>2. v[2] # n /\ v[3] < n
    BY <1>2, <1>3, <2>1
  <2>3. Sees(n, v)' <=> \E edge \in branch_lineage(n)' : edge[1] = v[2] /\ v[3] < edge[2]
    BY <2>2 DEF Sees
  <2>4. <<parent, n>>[1] = parent /\ <<parent, n>>[2] = n
    OBVIOUS
  <2> QED
    BY <1>5, <2>2, <2>3, <2>4 DEF Sees
<1> QED
  BY <1>3, <1>4, <1>6, <1>7

\* The version a write to a branch adds.
Written(branch) == <<writes + 1, branch, getLargestBranchId>>

\* An insert adds a tuple with one version.
LEMMA InsertVersions ==
    ASSUME IInv, NEW branch \in Branches, insert_tuple(branch),
           NEW new, new = Len(version_mgmt_column) + 1
    PROVE  /\ SameTree /\ Tids' = Tids \cup {new} /\ new \notin Tids
           /\ \A t \in Tids : Versions(t)' = Versions(t)
           /\ Versions(new)' = {Written(branch)}
           /\ Elements(new)' = {Self}
           /\ column'[new] = writes + 1
           /\ version_mgmt_column'[new].branch_id = branch
           /\ \A t \in Tids : /\ branchBitmap'[t] = branchBitmap[t]
                              /\ column'[t] = column[t]
                              /\ version_mgmt_column'[t] = version_mgmt_column[t]
           /\ branchBitmap'[new] = {branch}
<1>1. /\ Tids' = Tids \cup {new}
      /\ new \notin Tids
      /\ \A t \in Tids : /\ version_mgmt_column'[t] = version_mgmt_column[t]
                         /\ column'[t] = column[t]
      /\ version_mgmt_column'[new].branch_id = branch
      /\ version_mgmt_column'[new].creation_ts = getLargestBranchId
  BY InsertTypes DEF IInv
<1>2. storage' = storage /\ SameTree
  BY DEF insert_tuple, SameTree
<1>3. ASSUME NEW t \in Tids PROVE Versions(t)' = Versions(t)
  <2>1. Storages(t)' = Storages(t)
    BY <1>2 DEF Storages
  <2> QED
    BY <1>1, <1>2, <2>1, VersionsFrame
<1>4. /\ Tids = 1 .. Len(version_mgmt_column) /\ Len(version_mgmt_column) \in Nat
      /\ branchBitmap \in Seq(SUBSET Branches) /\ Len(branchBitmap) = Len(version_mgmt_column)
      /\ column \in Seq(1 .. writes) /\ Len(column) = Len(version_mgmt_column)
  <2>1. Tids = 1 .. Len(version_mgmt_column) /\ Len(version_mgmt_column) \in Nat
    BY DEF IInv, TypeOK, Tids
  <2>2. branchBitmap \in [Tids -> SUBSET Branches] /\ column \in [Tids -> 1 .. writes]
    BY DEF IInv, TypeOK
  <2>3. branchBitmap \in Seq(SUBSET Branches) /\ Len(branchBitmap) = Len(version_mgmt_column)
    BY <2>1, <2>2
  <2>4. column \in Seq(1 .. writes) /\ Len(column) = Len(version_mgmt_column)
    <3>1. column \in [1 .. Len(version_mgmt_column) -> 1 .. writes]
      BY <2>1, <2>2
    <3> QED
      BY <2>1, <3>1, FunctionIsSequence, Zenon
  <2> QED
    BY <2>1, <2>3, <2>4
<1>5. /\ \A t \in Tids : branchBitmap'[t] = branchBitmap[t]
      /\ branchBitmap'[new] = {branch}
  <2>1. branchBitmap' = Append(branchBitmap, {branch}) /\ {branch} \in SUBSET Branches
    BY DEF insert_tuple
  <2> QED
    BY <1>4, <2>1
<1>6. column'[new] = writes + 1
  <2>1. column' = Append(column, writes + 1)
    BY DEF insert_tuple
  <2> QED
    BY <1>4, <2>1
<1>7. Elements(new)' = {Self}
  <2>1. \A p \in 1 .. Len(storage) : storage[p].tid # new
    BY <1>1, FieldTypes DEF IInv
  <2> QED
    BY <1>2, <2>1 DEF Elements, Storages, Self
<1>8. Versions(new)' = {Written(branch)}
  <2>1. Version(new, Self)' = Written(branch)
    BY <1>1, <1>6 DEF Version, Data, Element, Written, Self
  <2> QED
    BY <1>7, <2>1 DEF Versions
<1> QED
  BY <1>1, <1>2, <1>3, <1>5, <1>6, <1>7, <1>8

\* An update adds one version to its tuple, in master as in any other branch.
LEMMA UpdateMasterVersions ==
    ASSUME IInv, NEW t \in Tids, update_tuple_in_master(t)
    PROVE  /\ Tids' = Tids
           /\ \A u \in Tids \ {t} : Versions(u)' = Versions(u)
           /\ Versions(t)' = Versions(t) \cup {Written(master_branch_id)}
<1>0. PICK a : a = Len(storage) + 1
  OBVIOUS
<1>1. /\ Tids' = Tids
      /\ Len(storage') = a
      /\ \A p \in 1 .. Len(storage) :
            /\ storage'[p].tid = storage[p].tid
            /\ storage'[p].data = storage[p].data
            /\ storage'[p].branch_id = storage[p].branch_id
            /\ storage'[p].creation_ts = storage[p].creation_ts
      /\ storage'[a].tid = t
      /\ storage'[a].data = column[t]
      /\ storage'[a].branch_id = version_mgmt_column[t].branch_id
      /\ storage'[a].creation_ts = version_mgmt_column[t].creation_ts
      /\ \A u \in Tids \ {t} : /\ version_mgmt_column'[u] = version_mgmt_column[u]
                               /\ column'[u] = column[u]
      /\ column'[t] = writes + 1
      /\ version_mgmt_column'[t].branch_id = master_branch_id
      /\ version_mgmt_column'[t].creation_ts = getLargestBranchId
  BY <1>0, UpdateMasterEffect
<1>2. Len(storage) \in Nat
  BY FieldTypes DEF IInv
<1>3. \A u \in Tids : Storages(u)' = IF u = t THEN Storages(t) \cup {a} ELSE Storages(u)
  BY <1>0, <1>1, <1>2 DEF Storages
<1>4. ASSUME NEW u \in Tids \ {t} PROVE Versions(u)' = Versions(u)
  <2>1. Storages(u)' = Storages(u)
    BY <1>3
  <2>2. \A p \in Storages(u) : /\ storage'[p].data = storage[p].data
                               /\ storage'[p].branch_id = storage[p].branch_id
                               /\ storage'[p].creation_ts = storage[p].creation_ts
    BY <1>1 DEF Storages
  <2> QED
    BY <1>1, <2>1, <2>2, VersionsFrame
<1>5. /\ a # Self /\ a \notin Storages(t)
      /\ Elements(t)' = {Self, a} \cup Storages(t)
      /\ Self \notin Storages(t)
  BY <1>0, <1>2, <1>3 DEF Elements, Storages, Self
<1>6. Version(t, Self)' = Written(master_branch_id)
  BY <1>1 DEF Version, Data, Element, Written, Self
<1>7. Version(t, a)' = Version(t, Self)
  BY <1>1, <1>5 DEF Version, Data, Element, Self
<1>8. \A p \in Storages(t) : Version(t, p)' = Version(t, p)
  BY <1>1, <1>5 DEF Version, Data, Element, Self, Storages
<1>9. Versions(t)' = Versions(t) \cup {Written(master_branch_id)}
  <2>1. Versions(t)' = {Version(t, p)' : p \in Elements(t)'}
    BY DEF Versions
  <2>2. Versions(t) = {Version(t, p) : p \in {Self} \cup Storages(t)}
    BY DEF Versions, Elements
  <2> QED
    BY <1>5, <1>6, <1>7, <1>8, <2>1, <2>2
<1> QED
  BY <1>1, <1>4, <1>9

\* An update in any branch adds its one version to the tuple and no other.
LEMMA UpdateBranchVersions ==
    ASSUME IInv, NEW t \in Tids, NEW branch \in Branches, update_tuple_in_branch(t, branch)
    PROVE  /\ Tids' = Tids
           /\ \A u \in Tids \ {t} : Versions(u)' = Versions(u)
           /\ Versions(t)' = Versions(t) \cup {Written(branch)}
<1>0. PICK a : a = Len(storage) + 1
  OBVIOUS
<1>1. /\ Tids' = Tids
      /\ Len(storage') = a
      /\ \A p \in 1 .. Len(storage) : storage'[p] = storage[p]
      /\ storage'[a].tid = t
      /\ storage'[a].data = writes + 1
      /\ storage'[a].branch_id = branch
      /\ storage'[a].creation_ts = getLargestBranchId
      /\ \A u \in Tids \ {t} : version_mgmt_column'[u] = version_mgmt_column[u]
      /\ column' = column
      /\ version_mgmt_column'[t].branch_id = version_mgmt_column[t].branch_id
      /\ version_mgmt_column'[t].creation_ts = version_mgmt_column[t].creation_ts
  BY <1>0, UpdateBranchEffect
<1>2. Len(storage) \in Nat
  BY FieldTypes DEF IInv
<1>3. \A u \in Tids : Storages(u)' = IF u = t THEN Storages(t) \cup {a} ELSE Storages(u)
  BY <1>0, <1>1, <1>2 DEF Storages
<1>4. ASSUME NEW u \in Tids \ {t} PROVE Versions(u)' = Versions(u)
  <2>1. Storages(u)' = Storages(u)
    BY <1>3
  <2>2. \A p \in Storages(u) : storage'[p] = storage[p]
    BY <1>1 DEF Storages
  <2> QED
    BY <1>1, <2>1, <2>2, VersionsFrame
<1>5. /\ a # Self /\ a \notin Elements(t)
      /\ Elements(t)' = Elements(t) \cup {a}
  BY <1>0, <1>2, <1>3 DEF Elements, Storages, Self
<1>6. Version(t, a)' = Written(branch)
  BY <1>1, <1>5 DEF Version, Data, Element, Written, Self
<1>7. \A p \in Elements(t) : Version(t, p)' = Version(t, p)
  BY <1>1, <1>5 DEF Version, Data, Element, Self, Elements, Storages
<1>8. Versions(t)' = Versions(t) \cup {Written(branch)}
  <2>1. Versions(t)' = {Version(t, p)' : p \in Elements(t)'}
    BY DEF Versions
  <2>2. Versions(t) = {Version(t, p) : p \in Elements(t)}
    BY DEF Versions
  <2> QED
    BY <1>5, <1>6, <1>7, <2>1, <2>2
<1> QED
  BY <1>1, <1>4, <1>8

------------------------------------------------------------------------------
(* The scans stay right, operation by operation                            *)

\* A new branch has the bits of its parent and sees what the parent sees.
LEMMA CreateBranchScans ==
    ASSUME ScanInv, NEW parent \in Branches, createBranch(parent)
    PROVE  ScanInv'
<1>0. PICK n : n = next_branch_id
  OBVIOUS
<1>1. IInv /\ IInv'
  BY CreateBranchChains DEF ScanInv
<1>2. /\ Tids' = Tids /\ n \notin Branches
      /\ \A t \in Tids : Versions(t)' = Versions(t)
      /\ \A b \in Branches : \A v : Sees(b, v)' <=> Sees(b, v)
      /\ \A t \in Tids : \A v \in Versions(t) : Sees(n, v)' <=> Sees(parent, v)
  BY <1>0, <1>1, CreateBranchSees
<1>3. \A t \in Tids : branchBitmap'[t] = IF parent \in branchBitmap[t]
                                         THEN branchBitmap[t] \cup {n} ELSE branchBitmap[t]
  BY <1>0 DEF createBranch, cloneColumn
<1>4. \A t \in Tids : branchBitmap[t] \subseteq Branches
  BY <1>1 DEF IInv, TypeOK
<1>5. BitsVisible'
  <2>1. ASSUME NEW t \in Tids, NEW b \in branchBitmap'[t]
        PROVE  \E v \in Versions(t) : Sees(b, v)'
    <3>1. CASE b \in branchBitmap[t]
      BY <1>2, <1>4, <3>1 DEF ScanInv, BitsVisible
    <3>2. CASE b = n /\ parent \in branchBitmap[t]
      BY <1>2, <3>2 DEF ScanInv, BitsVisible
    <3> QED
      BY <1>3, <3>1, <3>2
  <2> QED
    BY <1>2, <2>1 DEF BitsVisible
<1>6. MasterNewest'
  BY <1>2 DEF createBranch, ScanInv, MasterNewest, master_branch_id
<1> QED
  BY <1>1, <1>5, <1>6 DEF ScanInv

\* The branch that inserts a tuple sees it.
LEMMA InsertScans ==
    ASSUME ScanInv, NEW branch \in Branches, insert_tuple(branch)
    PROVE  ScanInv'
<1>0. PICK new : new = Len(version_mgmt_column) + 1
  OBVIOUS
<1>1. IInv /\ IInv'
  BY InsertChains DEF ScanInv
<1>2. /\ SameTree /\ Tids' = Tids \cup {new}
      /\ \A t \in Tids : Versions(t)' = Versions(t)
      /\ Versions(new)' = {Written(branch)}
      /\ column'[new] = writes + 1
      /\ version_mgmt_column'[new].branch_id = branch
      /\ \A t \in Tids : /\ branchBitmap'[t] = branchBitmap[t]
                         /\ column'[t] = column[t]
                         /\ version_mgmt_column'[t] = version_mgmt_column[t]
      /\ branchBitmap'[new] = {branch}
  BY <1>0, <1>1, InsertVersions
<1>3. \A b, v : Sees(b, v)' <=> Sees(b, v)
  BY <1>2, SameTreeSees
<1>4. Sees(branch, Written(branch)) /\ Written(branch)[1] = writes + 1 /\ Written(branch)[2] = branch
  BY DEF Sees, Written
<1>5. BitsVisible'
  BY <1>2, <1>3, <1>4 DEF ScanInv, BitsVisible
<1>6. MasterNewest'
  <2>1. writes + 1 <= writes + 1
    BY <1>1 DEF IInv, TypeOK
  <2>2. ASSUME NEW t \in Tids', NEW v \in Versions(t)', v[2] = master_branch_id
        PROVE  version_mgmt_column'[t].branch_id = master_branch_id /\ v[1] <= column'[t]
    <3>1. CASE t \in Tids
      BY <1>2, <2>2, <3>1 DEF ScanInv, MasterNewest
    <3>2. CASE t = new
      BY <1>2, <1>4, <2>1, <2>2, <3>2
    <3> QED
      BY <1>2, <3>1, <3>2
  <2> QED
    BY <2>2 DEF MasterNewest, master_branch_id
<1> QED
  BY <1>1, <1>5, <1>6 DEF ScanInv

\* An update takes no version away, so that no bit loses its version.
LEMMA AddedVersionScans ==
    ASSUME BitsVisible, SameTree, UNCHANGED branchBitmap, Tids' = Tids,
           \A t \in Tids : Versions(t) \subseteq Versions(t)'
    PROVE  BitsVisible'
BY SameTreeSees DEF BitsVisible

\* An update in master leaves the newest version in the entry.
LEMMA UpdateMasterScans ==
    ASSUME ScanInv, NEW t \in Tids, update_tuple_in_master(t)
    PROVE  ScanInv'
<1>1. IInv /\ IInv' /\ writes \in Nat
  BY UpdateMasterChains DEF ScanInv, IInv, TypeOK
<1>2. /\ Tids' = Tids
      /\ \A u \in Tids \ {t} : Versions(u)' = Versions(u)
      /\ Versions(t)' = Versions(t) \cup {Written(master_branch_id)}
  BY <1>1, UpdateMasterVersions
<1>3. /\ \A u \in Tids \ {t} : /\ version_mgmt_column'[u] = version_mgmt_column[u]
                               /\ column'[u] = column[u]
      /\ column'[t] = writes + 1
      /\ version_mgmt_column'[t].branch_id = master_branch_id
  BY <1>1, UpdateMasterEffect
<1>4. BitsVisible'
  <2>1. SameTree /\ UNCHANGED branchBitmap
    BY DEF update_tuple_in_master, SameTree
  <2> QED
    BY <1>2, <2>1, AddedVersionScans DEF ScanInv
<1>5. ASSUME NEW u \in Tids, NEW v \in Versions(u)', v[2] = master_branch_id
      PROVE  version_mgmt_column'[u].branch_id = master_branch_id /\ v[1] <= column'[u]
  <2>1. CASE u # t
    BY <1>2, <1>3, <1>5, <2>1 DEF ScanInv, MasterNewest
  <2>2. CASE u = t
    <3>1. v \in Versions(t) => v[1] \in 1 .. writes
      BY <1>1, VersionTypes DEF IInv
    <3>2. Written(master_branch_id)[1] = writes + 1
      BY DEF Written
    <3>3. v[1] <= writes + 1
      BY <1>1, <1>2, <2>2, <3>1, <3>2
    <3> QED
      BY <1>3, <2>2, <3>3
  <2> QED
    BY <2>1, <2>2
<1>6. MasterNewest'
  BY <1>2, <1>5 DEF MasterNewest, master_branch_id
<1> QED
  BY <1>1, <1>4, <1>6 DEF ScanInv

\* An update in another branch is none of master's versions.
LEMMA UpdateBranchScans ==
    ASSUME ScanInv, NEW t \in Tids, NEW branch \in Branches, update_tuple_in_branch(t, branch)
    PROVE  ScanInv'
<1>1. IInv /\ IInv' /\ branch # master_branch_id
  BY UpdateBranchChains DEF ScanInv, update_tuple_in_branch
<1>2. /\ Tids' = Tids
      /\ \A u \in Tids \ {t} : Versions(u)' = Versions(u)
      /\ Versions(t)' = Versions(t) \cup {Written(branch)}
  BY <1>1, UpdateBranchVersions
<1>3. /\ \A u \in Tids \ {t} : version_mgmt_column'[u] = version_mgmt_column[u]
      /\ column' = column
      /\ version_mgmt_column'[t].branch_id = version_mgmt_column[t].branch_id
  BY <1>1, UpdateBranchEffect
<1>4. BitsVisible'
  <2>1. SameTree /\ UNCHANGED branchBitmap
    BY DEF update_tuple_in_branch, SameTree
  <2> QED
    BY <1>2, <2>1, AddedVersionScans DEF ScanInv
<1>5. ASSUME NEW u \in Tids, NEW v \in Versions(u)', v[2] = master_branch_id
      PROVE  version_mgmt_column'[u].branch_id = master_branch_id /\ v[1] <= column'[u]
  <2>1. v \in Versions(u)
    BY <1>1, <1>2, <1>5 DEF Written
  <2>2. version_mgmt_column[u].branch_id = master_branch_id /\ v[1] <= column[u]
    BY <1>5, <2>1 DEF ScanInv, MasterNewest
  <2> QED
    BY <1>3, <2>2
<1>6. MasterNewest'
  BY <1>2, <1>5 DEF MasterNewest, master_branch_id
<1> QED
  BY <1>1, <1>4, <1>6 DEF ScanInv

\* Nothing but bits changed: every tuple has the versions it had.
LEMMA SameChainsVersions ==
    ASSUME UNCHANGED <<version_mgmt_column, column, storage>>
    PROVE  Tids' = Tids /\ \A t : Versions(t)' = Versions(t)
<1>1. \A t : Storages(t)' = Storages(t)
  BY DEF Storages
<1>2. \A t : Elements(t)' = Elements(t)
  BY <1>1 DEF Elements, Self
<1>3. \A t, p : Version(t, p)' = Version(t, p)
  BY DEF Version, Data, Element, Self
<1> QED
  BY <1>2, <1>3 DEF Tids, Versions

\* delete_tuple takes a bit away, and the versions stay.
LEMMA DeleteScans ==
    ASSUME ScanInv, NEW t \in Tids, NEW branch \in Branches, delete_tuple(t, branch)
    PROVE  ScanInv'
<1>1. IInv /\ IInv' /\ SameTree
  BY DeleteChains DEF ScanInv, delete_tuple, SameTree
<1>2. Tids' = Tids /\ \A u : Versions(u)' = Versions(u)
  BY SameChainsVersions DEF delete_tuple
<1>3. \A u \in Tids : branchBitmap'[u] \subseteq branchBitmap[u]
  BY <1>1 DEF delete_tuple, IInv, TypeOK
<1>4. BitsVisible'
  BY <1>1, <1>2, <1>3, SameTreeSees DEF ScanInv, BitsVisible
<1>5. MasterNewest'
  BY <1>2 DEF delete_tuple, ScanInv, MasterNewest, master_branch_id
<1> QED
  BY <1>1, <1>4, <1>5 DEF ScanInv

\* Every operation preserves what makes the scans right.
LEMMA NextScans == ScanInv /\ [Next]_vars => ScanInv'
<1> SUFFICES ASSUME ScanInv, [Next]_vars PROVE ScanInv'
  OBVIOUS
<1>1. ASSUME UNCHANGED vars PROVE ScanInv'
  <2>1. IInv' /\ SameTree /\ branchBitmap' = branchBitmap
    BY <1>1, NextIInv DEF vars, ScanInv, SameTree
  <2>2. Tids' = Tids /\ \A u : Versions(u)' = Versions(u)
    BY <1>1, SameChainsVersions DEF vars
  <2>3. BitsVisible' /\ MasterNewest'
    BY <1>1, <2>1, <2>2, SameTreeSees DEF vars, ScanInv, BitsVisible, MasterNewest, master_branch_id
  <2> QED
    BY <2>1, <2>3 DEF ScanInv
<1> QED
  BY <1>1, CreateBranchScans, InsertScans, UpdateMasterScans, UpdateBranchScans, DeleteScans
     DEF Next

\* An empty table shows nothing.
LEMMA InitScans == Init => ScanInv
<1> SUFFICES ASSUME Init PROVE ScanInv
  OBVIOUS
<1>1. Tids = {}
  BY DEF Init, Tids
<1> QED
  BY <1>1, InitIInv DEF ScanInv, BitsVisible, MasterNewest

\* Branches see a version wherever their bit is set, and master's newest
\* version is in the entry, whatever the sequence of operations.
THEOREM ScanInvariant == Spec => []ScanInv
BY InitScans, NextScans, PTL DEF Spec

------------------------------------------------------------------------------
(* The rows of each branch, before and after an operation                  *)

\* The tids of the rows a scan of branch b yields, and the content it shows.
Rows(b) == {t \in Tids : b \in branchBitmap[t]}
Shown(b, t) == Data(t, get_latest_chain_element(t, b))

\* A scan in terms of its rows.
LEMMA ScanByRows ==
    ASSUME NEW b
    PROVE  /\ TableScan(b) = [t \in Rows(b) |-> Shown(b, t)]
           /\ TableScan(b)' = [t \in Rows(b)' |-> Shown(b, t)']
BY DEF TableScan, Rows, Shown

\* ScanShows, for the rows of a branch, before and after a step.
LEMMA RowsShown == ScanInv => \A b : \A t \in Rows(b) : Shows(t, b, Shown(b, t))
BY ScanShows DEF Rows, Shown

\* The same after a step.
LEMMA RowsShownAfter == (ScanInv => \A b : \A t \in Rows(b) : Shows(t, b, Shown(b, t)))'
BY RowsShown, PTL

\* What branch c sees of a tuple now is what branch b saw of it, so the scans
\* show the same.
LEMMA ShownBySight ==
    ASSUME ScanInv, ScanInv', NEW b, NEW c, NEW t, t \in Rows(b), t \in Rows(c)',
           \A d : Shows(t, c, d)' => Shows(t, b, d)
    PROVE  Shown(c, t)' = Shown(b, t)
<1>1. t \in Tids /\ b \in branchBitmap[t] /\ t \in Tids' /\ c \in branchBitmap'[t]
  BY DEF Rows
<1>2. Shows(t, b, Shown(b, t))
  BY RowsShown
<1>3. Shows(t, c, Shown(c, t))'
  BY RowsShownAfter
<1>4. PICK d : d = Shown(c, t)'
  OBVIOUS
<1>5. Shows(t, c, d)'
  BY <1>3, <1>4 DEF Shows
<1> QED
  BY <1>1, <1>2, <1>4, <1>5, ShowsOne DEF ScanInv, IInv

\* A branch that sees the same versions of a tuple is shown the same content.
LEMMA ShownFrame ==
    ASSUME ScanInv, ScanInv', NEW b, NEW c, NEW t, t \in Rows(b), t \in Rows(c)',
           Versions(t)' = Versions(t),
           \A v \in Versions(t) : Sees(c, v)' <=> Sees(b, v)
    PROVE  Shown(c, t)' = Shown(b, t)
<1>1. \A d : Shows(t, c, d)' => Shows(t, b, d)
  BY DEF Shows
<1> QED
  BY <1>1, ShownBySight

\* A new branch leaves the rows of all others alone and has its parent's.
LEMMA CreateBranchRows ==
    ASSUME ScanInv, NEW parent \in Branches, createBranch(parent),
           NEW n, n = next_branch_id
    PROVE  /\ \A b \in Branches : /\ Rows(b)' = Rows(b)
                                  /\ \A t \in Rows(b) : Shown(b, t)' = Shown(b, t)
           /\ Rows(n)' = Rows(parent)
           /\ \A t \in Rows(parent) : Shown(n, t)' = Shown(parent, t)
<1>1. IInv /\ ScanInv'
  BY CreateBranchScans DEF ScanInv
<1>2. /\ Tids' = Tids /\ n \notin Branches
      /\ \A t \in Tids : Versions(t)' = Versions(t)
      /\ \A b \in Branches : \A v : Sees(b, v)' <=> Sees(b, v)
      /\ \A t \in Tids : \A v \in Versions(t) : Sees(n, v)' <=> Sees(parent, v)
  BY <1>1, CreateBranchSees
<1>3. \A t \in Tids : branchBitmap'[t] = IF parent \in branchBitmap[t]
                                         THEN branchBitmap[t] \cup {n} ELSE branchBitmap[t]
  BY DEF createBranch, cloneColumn
<1>4. \A t \in Tids : branchBitmap[t] \subseteq Branches
  BY <1>1 DEF IInv, TypeOK
<1>5. Rows(n)' = Rows(parent) /\ \A b \in Branches : Rows(b)' = Rows(b)
  BY <1>2, <1>3, <1>4 DEF Rows
<1>6. ASSUME NEW b \in Branches, NEW t \in Rows(b) PROVE Shown(b, t)' = Shown(b, t)
  <2>1. t \in Tids
    BY DEF Rows
  <2> QED
    BY <1>1, <1>2, <1>5, <2>1, ShownFrame
<1>7. ASSUME NEW t \in Rows(parent) PROVE Shown(n, t)' = Shown(parent, t)
  <2>1. t \in Tids
    BY DEF Rows
  <2> QED
    BY <1>1, <1>2, <1>5, <2>1, ShownFrame
<1> QED
  BY <1>5, <1>6, <1>7

\* The inserted row appears in its branch only.
LEMMA InsertRows ==
    ASSUME ScanInv, NEW branch \in Branches, insert_tuple(branch),
           NEW new, new = Len(version_mgmt_column) + 1
    PROVE  /\ \A b \in Branches :
                 /\ Rows(b)' = Rows(b) \cup (IF b = branch THEN {new} ELSE {})
                 /\ \A t \in Rows(b) : Shown(b, t)' = Shown(b, t)
           /\ Shown(branch, new)' = writes + 1
<1>1. IInv /\ ScanInv'
  BY InsertScans DEF ScanInv
<1>2. /\ SameTree /\ Tids' = Tids \cup {new} /\ new \notin Tids
      /\ \A t \in Tids : Versions(t)' = Versions(t)
      /\ Versions(new)' = {Written(branch)}
      /\ \A t \in Tids : branchBitmap'[t] = branchBitmap[t]
      /\ branchBitmap'[new] = {branch}
  BY <1>1, InsertVersions
<1>3. \A b, v : Sees(b, v)' <=> Sees(b, v)
  BY <1>2, SameTreeSees
<1>4. \A b \in Branches : Rows(b)' = Rows(b) \cup (IF b = branch THEN {new} ELSE {})
  BY <1>2 DEF Rows
<1>5. ASSUME NEW b \in Branches, NEW t \in Rows(b) PROVE Shown(b, t)' = Shown(b, t)
  <2>1. t \in Tids /\ t \in Rows(b)'
    BY <1>4 DEF Rows
  <2> QED
    BY <1>1, <1>2, <1>3, <2>1, ShownFrame
<1>6. Shown(branch, new)' = writes + 1
  <2>1. Shows(new, branch, Shown(branch, new))'
    BY <1>1, <1>4, RowsShownAfter
  <2>2. \E v \in Versions(new)' : v[1] = Shown(branch, new)'
    BY <2>1 DEF Shows
  <2> QED
    BY <1>2, <2>2 DEF Written
<1> QED
  BY <1>4, <1>5, <1>6

\* A version written to one branch is not visible in any other that exists:
\* no branch is younger than its stamp.
LEMMA WrittenIsPrivate ==
    ASSUME TypeOK, NEW branch \in Branches, NEW b \in Branches
    PROVE  /\ Sees(b, Written(branch)) <=> b = branch
           /\ Written(branch)[1] = writes + 1
<1>1. /\ Written(branch)[1] = writes + 1
      /\ Written(branch)[2] = branch
      /\ Written(branch)[3] = next_branch_id - 1
  BY DEF Written, getLargestBranchId
<1>2. \A e \in branch_lineage(b) : e[2] \in Branches
  BY LineageEdges
<1>3. \A e \in branch_lineage(b) : ~ (next_branch_id - 1 < e[2])
  BY <1>2, BoundsAssumption DEF Branches, TypeOK
<1> QED
  BY <1>1, <1>3 DEF Sees

\* An update changes what its branch is shown of its tuple, and nothing else.
LEMMA UpdateRows ==
    ASSUME ScanInv, ScanInv', NEW t \in Tids, NEW branch \in Branches,
           SameTree, UNCHANGED branchBitmap, Tids' = Tids,
           \A u \in Tids \ {t} : Versions(u)' = Versions(u),
           Versions(t)' = Versions(t) \cup {Written(branch)}
    PROVE  /\ \A b \in Branches : Rows(b)' = Rows(b)
           /\ \A b \in Branches : \A u \in Rows(b) :
                 Shown(b, u)' = IF b = branch /\ u = t THEN writes + 1 ELSE Shown(b, u)
<1>1. TypeOK /\ writes \in Nat /\ \A b, v : Sees(b, v)' <=> Sees(b, v)
  BY SameTreeSees DEF ScanInv, IInv, TypeOK
<1>2. \A b \in Branches : Rows(b)' = Rows(b)
  BY DEF Rows
<1>3. ASSUME NEW b \in Branches, NEW u \in Rows(b), u # t PROVE Shown(b, u)' = Shown(b, u)
  <2>1. u \in Tids /\ u \in Rows(b)'
    BY <1>2 DEF Rows
  <2> QED
    BY <1>1, <1>3, <2>1, ShownFrame
<1>4. ASSUME NEW b \in Branches, t \in Rows(b), b # branch PROVE Shown(b, t)' = Shown(b, t)
  <2>1. ~ Sees(b, Written(branch))
    BY <1>1, <1>4, WrittenIsPrivate
  <2>2. \A d : Shows(t, b, d)' => Shows(t, b, d)
    BY <1>1, <2>1 DEF Shows
  <2>3. t \in Rows(b)'
    BY <1>2, <1>4
  <2> QED
    BY <1>4, <2>2, <2>3, ShownBySight
<1>5. ASSUME t \in Rows(branch) PROVE Shown(branch, t)' = writes + 1
  <2>1. Shows(t, branch, Shown(branch, t))'
    BY <1>2, <1>5, RowsShownAfter
  <2>2. PICK v \in Versions(t)' : v[1] = Shown(branch, t)'
    BY <2>1 DEF Shows
  <2>3. PICK w : w = Written(branch)
    OBVIOUS
  <2>4. w[1] = writes + 1 /\ Sees(branch, w)
    BY <1>1, <2>3, WrittenIsPrivate
  <2>5. w[1] <= Shown(branch, t)'
    <3>1. Sees(branch, w)'
      BY <1>1, <2>4
    <3> QED
      BY <2>1, <2>3, <3>1 DEF Shows
  <2>6. v \in Versions(t) => v[1] \in 1 .. writes
    BY <1>1, VersionTypes
  <2> QED
    BY <1>1, <2>2, <2>3, <2>4, <2>5, <2>6
<1> QED
  BY <1>2, <1>3, <1>4, <1>5

\* An update of tuple t in any branch.
UpdateStep(t, branch) ==
    \/ branch = master_branch_id /\ update_tuple_in_master(t)
    \/ update_tuple_in_branch(t, branch)

\* The constructor of Database has created the master branch.
LEMMA MasterIsABranch == ScanInv => master_branch_id \in Branches
BY BoundsAssumption DEF ScanInv, IInv, TypeOK, Branches, master_branch_id

\* An update changes no row but the updated one, and that in its branch only.
LEMMA UpdateStepRows ==
    ASSUME ScanInv, NEW t \in Tids, NEW branch \in Branches, UpdateStep(t, branch)
    PROVE  /\ SameTree /\ Tids' = Tids
           /\ \A b \in Branches : Rows(b)' = Rows(b)
           /\ \A b \in Branches : \A u \in Rows(b) :
                 Shown(b, u)' = IF b = branch /\ u = t THEN writes + 1 ELSE Shown(b, u)
<1>1. SameTree /\ UNCHANGED branchBitmap
  BY DEF UpdateStep, update_tuple_in_master, update_tuple_in_branch, SameTree
<1>2. ScanInv'
  BY UpdateMasterScans, UpdateBranchScans DEF UpdateStep
<1>3. /\ Tids' = Tids
      /\ \A u \in Tids \ {t} : Versions(u)' = Versions(u)
      /\ Versions(t)' = Versions(t) \cup {Written(branch)}
  BY UpdateMasterVersions, UpdateBranchVersions DEF UpdateStep, ScanInv
<1> QED
  BY <1>1, <1>2, <1>3, UpdateRows

\* A delete takes one row from one branch.
LEMMA DeleteRows ==
    ASSUME ScanInv, NEW t \in Tids, NEW branch \in Branches, delete_tuple(t, branch)
    PROVE  \A b \in Branches :
              /\ Rows(b)' = Rows(b) \ (IF b = branch THEN {t} ELSE {})
              /\ \A u \in Rows(b)' : Shown(b, u)' = Shown(b, u)
<1>1. ScanInv' /\ SameTree
  BY DeleteScans DEF delete_tuple, SameTree
<1>2. Tids' = Tids /\ \A u : Versions(u)' = Versions(u)
  BY SameChainsVersions DEF delete_tuple
<1>3. \A b, v : Sees(b, v)' <=> Sees(b, v)
  BY <1>1, SameTreeSees
<1>4. \A u \in Tids : branchBitmap'[u] = IF u = t THEN branchBitmap[t] \ {branch}
                                                  ELSE branchBitmap[u]
  BY DEF delete_tuple, ScanInv, IInv, TypeOK
<1>5. \A b \in Branches : Rows(b)' = Rows(b) \ (IF b = branch THEN {t} ELSE {})
  BY <1>2, <1>4 DEF Rows
<1>6. ASSUME NEW b \in Branches, NEW u \in Rows(b)' PROVE Shown(b, u)' = Shown(b, u)
  <2>1. u \in Rows(b)
    BY <1>5
  <2> QED
    BY <1>1, <1>2, <1>3, <2>1, ShownFrame
<1> QED
  BY <1>5, <1>6

------------------------------------------------------------------------------
(* The theorems about scans                                                *)

\* A scan that has the same rows with the same contents is the same.
LEMMA SameScan ==
    ASSUME NEW b, Rows(b)' = Rows(b), \A t \in Rows(b) : Shown(b, t)' = Shown(b, t)
    PROVE  TableScan(b)' = TableScan(b)
BY ScanByRows

\* Each operation works on one branch, and no other existing one can tell.
LEMMA OneBranchPerStep ==
    ASSUME ScanInv, [Next]_vars
    PROVE  \E branch : \A b \in Branches : b # branch => TableScan(b)' = TableScan(b)
<1>1. ASSUME NEW parent \in Branches, createBranch(parent)
      PROVE  \A b \in Branches : TableScan(b)' = TableScan(b)
  BY <1>1, CreateBranchRows, SameScan
<1>2. ASSUME NEW branch \in Branches, insert_tuple(branch)
      PROVE  \A b \in Branches : b # branch => TableScan(b)' = TableScan(b)
  <2>1. PICK new : new = Len(version_mgmt_column) + 1
    OBVIOUS
  <2>2. \A b \in Branches : b # branch => /\ Rows(b)' = Rows(b)
                                          /\ \A t \in Rows(b) : Shown(b, t)' = Shown(b, t)
    <3>1. \A b \in Branches :
              /\ Rows(b)' = Rows(b) \cup (IF b = branch THEN {new} ELSE {})
              /\ \A t \in Rows(b) : Shown(b, t)' = Shown(b, t)
      BY <1>2, <2>1, InsertRows
    <3> QED
      BY <3>1
  <2> QED
    BY <2>2, SameScan
<1>3. ASSUME NEW t \in Tids, NEW branch \in Branches, UpdateStep(t, branch)
      PROVE  \A b \in Branches : b # branch => TableScan(b)' = TableScan(b)
  BY <1>3, UpdateStepRows, SameScan
<1>4. ASSUME NEW t \in Tids, update_tuple_in_master(t)
      PROVE  \E branch : \A b \in Branches : b # branch => TableScan(b)' = TableScan(b)
  BY <1>3, <1>4, MasterIsABranch DEF UpdateStep
<1>5. ASSUME NEW t \in Tids, NEW branch \in Branches, delete_tuple(t, branch)
      PROVE  \A b \in Branches : b # branch => TableScan(b)' = TableScan(b)
  BY <1>5, DeleteRows, SameScan
<1>6. ASSUME UNCHANGED vars PROVE \A b \in Branches : TableScan(b)' = TableScan(b)
  <2>1. ScanInv' /\ SameTree /\ branchBitmap' = branchBitmap
    BY <1>6, NextScans DEF vars, SameTree
  <2>2. Tids' = Tids /\ \A u : Versions(u)' = Versions(u)
    BY <1>6, SameChainsVersions DEF vars
  <2>3. ASSUME NEW b \in Branches PROVE TableScan(b)' = TableScan(b)
    <3>1. Rows(b)' = Rows(b)
      BY <2>1, <2>2 DEF Rows
    <3>2. \A v : Sees(b, v)' <=> Sees(b, v)
      BY <2>1, SameTreeSees
    <3>3. ASSUME NEW t \in Rows(b) PROVE Shown(b, t)' = Shown(b, t)
      BY <2>1, <2>2, <3>1, <3>2, ShownFrame
    <3> QED
      BY <3>1, <3>3, SameScan
  <2> QED
    BY <2>3
<1> QED
  BY <1>1, <1>2, <1>3, <1>4, <1>5, <1>6 DEF Next, UpdateStep

\* No insert, update, delete or new branch ever changes what two existing
\* branches see: the branches are isolated, although they share every chain.
THEOREM BranchesAreIsolated == Spec => BranchIsolation
<1>1. ASSUME ScanInv, [Next]_vars
      PROVE  [\A b, c \in Branches :
                 b # c /\ TableScan(b)' # TableScan(b) => TableScan(c)' = TableScan(c)]_vars
  BY <1>1, OneBranchPerStep
<1> QED
  BY <1>1, ScanInvariant, PTL DEF Spec, BranchIsolation

------------------------------------------------------------------------------
(* The refinement                                                          *)

\* The abstract tables, as Store maps them.
Views == [i \in 1 .. next_branch_id |-> ViewOf(i - 1)]

\* The table of a branch in terms of its rows.
LEMMA ViewByRows ==
    ASSUME NEW b
    PROVE  /\ ViewOf(b) = [t \in Tids |-> IF t \in Rows(b) THEN Shown(b, t) ELSE NoRow]
           /\ ViewOf(b)' = [t \in Tids' |-> IF t \in Rows(b)' THEN Shown(b, t)' ELSE NoRow]
<1>1. \A t \in Tids : t \in Rows(b) => TableScan(b)[t] = Shown(b, t)
  BY ScanByRows
<1>2. \A t \in Tids' : t \in Rows(b)' => TableScan(b)'[t] = Shown(b, t)'
  BY ScanByRows
<1> QED
  BY <1>1, <1>2 DEF ViewOf, Rows, NoRow

\* Every branch has its table.
LEMMA ViewsByBranch ==
    ASSUME TypeOK
    PROVE  /\ next_branch_id \in Nat \ {0}
           /\ \A b : b \in Branches <=> b \in Nat /\ b + 1 \in 1 .. next_branch_id
           /\ \A b \in Branches : Views[b + 1] = ViewOf(b)
           /\ \A i \in 1 .. next_branch_id : i - 1 \in Branches /\ Views[i] = ViewOf(i - 1)
<1>1. next_branch_id \in Nat \ {0}
  BY BoundsAssumption DEF TypeOK
<1>2. \A b : b \in Branches <=> b \in Nat /\ b + 1 \in 1 .. next_branch_id
  BY <1>1 DEF Branches
<1>3. \A i \in 1 .. next_branch_id : i - 1 \in Branches /\ Views[i] = ViewOf(i - 1)
  BY <1>1 DEF Branches, Views
<1>4. ASSUME NEW b \in Branches PROVE Views[b + 1] = ViewOf(b)
  <2>1. b \in Nat /\ b + 1 \in 1 .. next_branch_id /\ (b + 1) - 1 = b
    BY <1>2
  <2> QED
    BY <1>3, <2>1
<1> QED
  BY <1>1, <1>2, <1>3, <1>4

\* Append, as a function.
LEMMA AppendFunction ==
    ASSUME NEW S, NEW n \in Nat, NEW f \in [1 .. n -> S], NEW e \in S
    PROVE  Append(f, e) = [i \in 1 .. n + 1 |-> IF i = n + 1 THEN e ELSE f[i]]
<1>1. f \in Seq(S) /\ Len(f) = n
  OBVIOUS
<1>2. /\ Append(f, e) \in Seq(S) /\ Len(Append(f, e)) = n + 1
      /\ \A i \in 1 .. n : Append(f, e)[i] = f[i]
      /\ Append(f, e)[n + 1] = e
  BY <1>1, SeqAppend
<1>3. PICK a : a = Append(f, e)
  OBVIOUS
<1>4. a = [i \in 1 .. n + 1 |-> a[i]]
  <2>1. a \in Seq(S) /\ Len(a) = n + 1
    BY <1>2, <1>3
  <2> QED
    BY <2>1
<1>5. \A i \in 1 .. n + 1 : a[i] = IF i = n + 1 THEN e ELSE f[i]
  BY <1>2, <1>3
<1> QED
  BY <1>3, <1>4, <1>5

\* createBranch is a Fork of the parent.
LEMMA CreateBranchForks ==
    ASSUME ScanInv, NEW parent \in Branches, createBranch(parent)
    PROVE  Views' = Append(Views, Views[parent + 1])
<1>0. PICK n : n = next_branch_id
  OBVIOUS
<1>1. TypeOK /\ next_branch_id' = n + 1 /\ Tids' = Tids /\ n \in Nat
  BY <1>0, ViewsByBranch DEF ScanInv, IInv, createBranch, Tids
<1>2. \A b \in Branches : ViewOf(b)' = ViewOf(b)
  BY <1>0, <1>1, CreateBranchRows, ViewByRows
<1>3. ViewOf(n)' = ViewOf(parent)
  BY <1>0, <1>1, CreateBranchRows, ViewByRows
<1>4. Views' = [i \in 1 .. n + 1 |-> ViewOf(i - 1)']
  BY <1>1 DEF Views
<1>5. \A i \in 1 .. n + 1 : ViewOf(i - 1)' = IF i = n + 1 THEN ViewOf(parent) ELSE Views[i]
  <2>1. \A i \in 1 .. n : ViewOf(i - 1)' = Views[i]
    BY <1>0, <1>1, <1>2, ViewsByBranch
  <2>2. (n + 1) - 1 = n /\ \A i \in 1 .. n + 1 : i # n + 1 => i \in 1 .. n
    BY <1>1
  <2> QED
    BY <1>3, <2>1, <2>2
<1>6. Append(Views, ViewOf(parent)) = [i \in 1 .. n + 1 |-> IF i = n + 1 THEN ViewOf(parent) ELSE Views[i]]
  <2> DEFINE S == {ViewOf(b) : b \in Branches}
  <2>1. Views \in [1 .. n -> S] /\ ViewOf(parent) \in S
    BY <1>0, <1>1, ViewsByBranch DEF Views
  <2> HIDE DEF S
  <2> QED
    BY <1>1, <2>1, AppendFunction
<1>7. Views[parent + 1] = ViewOf(parent)
  BY <1>1, ViewsByBranch
<1> QED
  BY <1>4, <1>5, <1>6, <1>7

\* insert_tuple is an Insert into its branch.
LEMMA InsertInserts ==
    ASSUME ScanInv, NEW branch \in Branches, insert_tuple(branch)
    PROVE  Views' = [c \in DOMAIN Views |->
                        Append(Views[c], IF c = branch + 1 THEN writes + 1 ELSE NoRow)]
<1>0. PICK new : new = Len(version_mgmt_column) + 1
  OBVIOUS
<1>1. /\ TypeOK /\ SameTree /\ Tids' = Tids \cup {new}
      /\ new \notin Tids
  BY <1>0, InsertVersions DEF ScanInv, IInv
<1>2. /\ Len(version_mgmt_column) \in Nat /\ Tids = 1 .. Len(version_mgmt_column)
      /\ Tids' = 1 .. Len(version_mgmt_column) + 1
  <2>1. Len(version_mgmt_column) \in Nat /\ Tids = 1 .. Len(version_mgmt_column)
    BY <1>1 DEF TypeOK, Tids
  <2>2. Tids' = 1 .. Len(version_mgmt_column) + 1
    BY <1>0, <1>1, <2>1
  <2> QED
    BY <2>1, <2>2
<1>3. ASSUME NEW b \in Branches
      PROVE  ViewOf(b)' = Append(ViewOf(b), IF b = branch THEN writes + 1 ELSE NoRow)
  <2> DEFINE e == IF b = branch THEN writes + 1 ELSE NoRow
  <2> DEFINE m == Len(version_mgmt_column)
  <2> DEFINE S == {ViewOf(b)[t] : t \in Tids} \cup {e}
  <2>1. ViewOf(b) = [t \in Tids |-> IF t \in Rows(b) THEN Shown(b, t) ELSE NoRow]
    BY ViewByRows
  <2>2. ViewOf(b) \in [1 .. m -> S] /\ e \in S /\ m \in Nat
    BY <1>2, <2>1
  <2>3. Append(ViewOf(b), e) = [t \in 1 .. m + 1 |-> IF t = m + 1 THEN e ELSE ViewOf(b)[t]]
    <3>1. PICK f, k, x, T : f = ViewOf(b) /\ k = m /\ x = e /\ T = S
      OBVIOUS
    <3>2. k \in Nat /\ f \in [1 .. k -> T] /\ x \in T
      BY <2>2, <3>1
    <3>3. Append(f, x) = [t \in 1 .. k + 1 |-> IF t = k + 1 THEN x ELSE f[t]]
      BY <3>2, AppendFunction
    <3> QED
      BY <3>1, <3>3
  <2>4. ViewOf(b)' = [t \in Tids' |-> IF t \in Rows(b)' THEN Shown(b, t)' ELSE NoRow]
    BY ViewByRows
  <2>5. /\ Rows(b)' = Rows(b) \cup (IF b = branch THEN {new} ELSE {})
        /\ \A t \in Rows(b) : Shown(b, t)' = Shown(b, t)
        /\ Shown(branch, new)' = writes + 1
    BY <1>0, InsertRows
  <2>6. Rows(b) \subseteq Tids
    BY DEF Rows
  <2>7. ASSUME NEW t \in Tids'
        PROVE  (IF t \in Rows(b)' THEN Shown(b, t)' ELSE NoRow) =
                   IF t = new THEN e ELSE ViewOf(b)[t]
    <3>1. CASE t = new
      BY <1>1, <2>5, <2>6, <3>1
    <3>2. CASE t # new
      <4>1. t \in Tids
        BY <1>1, <3>2
      <4>2. t \in Rows(b)' <=> t \in Rows(b)
        BY <2>5, <3>2
      <4> QED
        BY <2>1, <2>5, <3>2, <4>1, <4>2
    <3> QED
      BY <3>1, <3>2
  <2> QED
    BY <1>0, <1>2, <2>3, <2>4, <2>7
<1>4. Views' = [i \in 1 .. next_branch_id |-> ViewOf(i - 1)']
  BY <1>1 DEF Views, SameTree
<1>5. \A i \in 1 .. next_branch_id :
          ViewOf(i - 1)' = Append(Views[i], IF i = branch + 1 THEN writes + 1 ELSE NoRow)
  <2>1. ASSUME NEW i \in 1 .. next_branch_id
        PROVE  ViewOf(i - 1)' = Append(Views[i], IF i = branch + 1 THEN writes + 1 ELSE NoRow)
    <3>1. i - 1 \in Branches /\ Views[i] = ViewOf(i - 1)
      BY <1>1, ViewsByBranch
    <3>2. (i - 1 = branch) <=> (i = branch + 1)
      <4>1. branch \in Nat /\ i \in Nat
        BY <1>1, ViewsByBranch
      <4> QED
        BY <4>1
    <3> QED
      BY <1>3, <3>1, <3>2
  <2> QED
    BY <2>1
<1>6. DOMAIN Views = 1 .. next_branch_id
  BY DEF Views
<1> QED
  BY <1>4, <1>5, <1>6

\* A change of one row of one branch, as a change of the tables.
LEMMA OneRowChanges ==
    ASSUME TypeOK, SameTree, Tids' = Tids, NEW t \in Tids, NEW branch \in Branches, NEW d,
           \A b \in Branches : \A u \in Tids :
              (IF u \in Rows(b)' THEN Shown(b, u)' ELSE NoRow) =
                  IF b = branch /\ u = t THEN d
                  ELSE IF u \in Rows(b) THEN Shown(b, u) ELSE NoRow
    PROVE  Views' = [Views EXCEPT ![branch + 1][t] = d]
<1>1. \A b \in Branches : b # branch => ViewOf(b)' = ViewOf(b)
  BY ViewByRows
<1>2. ViewOf(branch)' = [ViewOf(branch) EXCEPT ![t] = d]
  <2>1. ViewOf(branch) = [u \in Tids |-> IF u \in Rows(branch) THEN Shown(branch, u) ELSE NoRow]
    BY ViewByRows
  <2>2. ViewOf(branch)' = [u \in Tids |-> IF u \in Rows(branch)' THEN Shown(branch, u)' ELSE NoRow]
    BY ViewByRows
  <2> QED
    BY <2>1, <2>2
<1>3. Views' = [i \in 1 .. next_branch_id |-> ViewOf(i - 1)']
  BY DEF Views, SameTree
<1>4. /\ branch \in Nat /\ branch + 1 \in 1 .. next_branch_id
      /\ Views[branch + 1] = ViewOf(branch)
      /\ Views = [i \in 1 .. next_branch_id |-> Views[i]]
  BY ViewsByBranch DEF Views
<1>5. ASSUME NEW i \in 1 .. next_branch_id
      PROVE  ViewOf(i - 1)' = IF i = branch + 1 THEN [Views[branch + 1] EXCEPT ![t] = d] ELSE Views[i]
  <2>1. i - 1 \in Branches /\ Views[i] = ViewOf(i - 1)
    BY ViewsByBranch
  <2>2. CASE i = branch + 1
    <3>1. i - 1 = branch
      BY <1>4, <2>2
    <3> QED
      BY <1>2, <1>4, <2>2, <3>1
  <2>3. CASE i # branch + 1
    <3>1. i - 1 # branch
      BY <1>4, <2>3
    <3> QED
      BY <1>1, <2>1, <2>3, <3>1
  <2> QED
    BY <2>2, <2>3
<1> QED
  BY <1>3, <1>4, <1>5

\* An update is a Write if its branch has the row, and nothing otherwise.
LEMMA UpdateWrites ==
    ASSUME ScanInv, NEW t \in Tids, NEW branch \in Branches, UpdateStep(t, branch)
    PROVE  IF t \in Rows(branch)
           THEN /\ Views[branch + 1][t] # NoRow
                /\ Views' = [Views EXCEPT ![branch + 1][t] = writes + 1]
           ELSE Views' = Views
<1>1. /\ SameTree /\ Tids' = Tids
      /\ \A b \in Branches : Rows(b)' = Rows(b)
      /\ \A b \in Branches : \A u \in Rows(b) :
            Shown(b, u)' = IF b = branch /\ u = t THEN writes + 1 ELSE Shown(b, u)
  BY UpdateStepRows
<1>2. TypeOK
  BY DEF ScanInv, IInv
<1>3. CASE t \in Rows(branch)
  <2>1. Views' = [Views EXCEPT ![branch + 1][t] = writes + 1]
    <3>1. ASSUME NEW b \in Branches, NEW u \in Tids
          PROVE  (IF u \in Rows(b)' THEN Shown(b, u)' ELSE NoRow) =
                     IF b = branch /\ u = t THEN writes + 1
                     ELSE IF u \in Rows(b) THEN Shown(b, u) ELSE NoRow
      BY <1>1, <1>3
    <3> QED
      BY <1>1, <1>2, <3>1, OneRowChanges
  <2>2. Shows(t, branch, Shown(branch, t))
    BY <1>3, RowsShown
  <2>3. Shown(branch, t) \in 1 .. writes
    BY <1>2, <2>2, VersionTypes DEF Shows
  <2>4. Views[branch + 1][t] = Shown(branch, t)
    <3>1. Views[branch + 1] = ViewOf(branch)
      BY <1>2, ViewsByBranch
    <3>2. ViewOf(branch)[t] = Shown(branch, t)
      BY <1>3, ViewByRows
    <3> QED
      BY <3>1, <3>2
  <2> QED
    BY <1>3, <2>1, <2>3, <2>4 DEF NoRow
<1>4. CASE t \notin Rows(branch)
  <2>1. ASSUME NEW b \in Branches PROVE ViewOf(b)' = ViewOf(b)
    <3>1. \A u \in Rows(b) : Shown(b, u)' = Shown(b, u)
      BY <1>1, <1>4
    <3> QED
      BY <1>1, <3>1, ViewByRows
  <2>2. Views' = [i \in 1 .. next_branch_id |-> ViewOf(i - 1)']
    BY <1>1 DEF Views, SameTree
  <2>3. \A i \in 1 .. next_branch_id : ViewOf(i - 1)' = ViewOf(i - 1)
    BY <1>2, <2>1, ViewsByBranch
  <2>4. Views' = Views
    BY <2>2, <2>3 DEF Views
  <2> QED
    BY <1>4, <2>4
<1> QED
  BY <1>3, <1>4

\* delete_tuple is a Delete from its branch.
LEMMA DeleteDeletes ==
    ASSUME ScanInv, NEW t \in Tids, NEW branch \in Branches, delete_tuple(t, branch)
    PROVE  Views' = [Views EXCEPT ![branch + 1][t] = NoRow]
<1>1. TypeOK /\ SameTree /\ Tids' = Tids
  BY DEF ScanInv, IInv, delete_tuple, SameTree, Tids
<1>2. \A b \in Branches :
          /\ Rows(b)' = Rows(b) \ (IF b = branch THEN {t} ELSE {})
          /\ \A u \in Rows(b)' : Shown(b, u)' = Shown(b, u)
  BY DeleteRows
<1>3. ASSUME NEW b \in Branches, NEW u \in Tids
      PROVE  (IF u \in Rows(b)' THEN Shown(b, u)' ELSE NoRow) =
                 IF b = branch /\ u = t THEN NoRow
                 ELSE IF u \in Rows(b) THEN Shown(b, u) ELSE NoRow
  <2>1. u \in Rows(b)' <=> u \in Rows(b) /\ ~ (b = branch /\ u = t)
    BY <1>2
  <2> QED
    BY <1>2, <2>1
<1> QED
  BY <1>1, <1>3, OneRowChanges

\* An empty table with its master branch is the abstract initial state.
LEMMA InitStore == Init => Store!Init
<1> SUFFICES ASSUME Init PROVE Views = << <<>> >>
  BY DEF Store!Init, Views
<1>1. Tids = {} /\ next_branch_id = 1
  BY DEF Init, Tids
<1>2. ViewOf(0) = <<>>
  BY <1>1 DEF ViewOf
<1>3. Views = [i \in 1 .. 1 |-> ViewOf(i - 1)]
  BY <1>1 DEF Views
<1>4. \A i \in 1 .. 1 : ViewOf(i - 1) = <<>>
  <2>1. \A i \in 1 .. 1 : i - 1 = 0
    OBVIOUS
  <2> QED
    BY <1>2, <2>1
<1> QED
  BY <1>3, <1>4

\* Every operation is a step of the abstract store, or changes no table.
LEMMA NextStore == ScanInv /\ [Next]_vars => [Store!Next]_Views
<1> SUFFICES ASSUME ScanInv, [Next]_vars PROVE Store!Next \/ Views' = Views
  BY DEF Views
<1>1. /\ TypeOK
      /\ \A b \in Branches : b + 1 \in Store!Branches
      /\ Store!Tids = Tids
  <2>1. TypeOK
    BY DEF ScanInv, IInv
  <2>2. Store!Branches = 1 .. next_branch_id
    BY DEF Store!Branches
  <2>3. Store!Tids = DOMAIN Views[1]
    BY DEF Store!Tids, Views
  <2>4. master_branch_id \in Branches /\ master_branch_id + 1 = 1
    BY MasterIsABranch DEF master_branch_id
  <2>5. Views[1] = ViewOf(master_branch_id)
    <3>1. Views[master_branch_id + 1] = ViewOf(master_branch_id)
      BY <2>1, <2>4, ViewsByBranch
    <3> QED
      BY <2>4, <3>1
  <2>6. DOMAIN Views[1] = Tids
    BY <2>5 DEF ViewOf
  <2> QED
    BY <2>1, <2>2, <2>3, <2>6, ViewsByBranch
<1>2. ASSUME NEW parent \in Branches, createBranch(parent) PROVE Store!Next
  <2>1. Store!Fork(parent + 1)
    BY <1>2, CreateBranchForks DEF Store!Fork, Views
  <2> QED
    BY <1>1, <2>1 DEF Store!Next
<1>3. writes < MaxWrites => writes + 1 \in 1 .. MaxWrites
  BY <1>1, BoundsAssumption DEF TypeOK
<1>4. ASSUME NEW branch \in Branches, insert_tuple(branch) PROVE Store!Next
  <2>1. Store!Insert(branch + 1, writes + 1)
    BY <1>4, InsertInserts DEF Store!Insert, Store!Branches, Views
  <2>2. writes + 1 \in 1 .. MaxWrites
    BY <1>3, <1>4 DEF insert_tuple
  <2> QED
    BY <1>1, <2>1, <2>2 DEF Store!Next
<1>5. ASSUME NEW t \in Tids, NEW branch \in Branches, UpdateStep(t, branch)
      PROVE  Store!Next \/ Views' = Views
  <2>1. CASE t \in Rows(branch)
    <3>1. Store!Write(branch + 1, t, writes + 1)
      BY <1>5, <2>1, UpdateWrites DEF Store!Write, Views
    <3>2. writes + 1 \in 1 .. MaxWrites
      BY <1>3, <1>5 DEF UpdateStep, update_tuple_in_master, update_tuple_in_branch
    <3> QED
      BY <1>1, <3>1, <3>2 DEF Store!Next
  <2>2. CASE t \notin Rows(branch)
    BY <1>5, <2>2, UpdateWrites
  <2> QED
    BY <2>1, <2>2
<1>6. ASSUME NEW t \in Tids, NEW branch \in Branches, delete_tuple(t, branch) PROVE Store!Next
  <2>1. Store!Delete(branch + 1, t)
    BY <1>6, DeleteDeletes DEF Store!Delete, Views
  <2> QED
    BY <1>1, <2>1 DEF Store!Next
<1>7. ASSUME UNCHANGED vars PROVE Views' = Views
  <2>1. SameTree /\ Tids' = Tids /\ branchBitmap' = branchBitmap
    BY <1>7 DEF vars, SameTree, Tids
  <2>2. Views' = [i \in 1 .. next_branch_id |-> ViewOf(i - 1)']
    BY <2>1 DEF Views, SameTree
  <2>3. ASSUME NEW b \in Branches PROVE ViewOf(b)' = ViewOf(b)
    <3>1. Rows(b)' = Rows(b)
      BY <2>1 DEF Rows
    <3>2. ScanInv' /\ \A v : Sees(b, v)' <=> Sees(b, v)
      BY <2>1, NextScans, SameTreeSees
    <3>3. \A t \in Rows(b) : Versions(t)' = Versions(t)
      BY <1>7, SameChainsVersions DEF vars
    <3>4. ASSUME NEW t \in Rows(b) PROVE Shown(b, t)' = Shown(b, t)
      BY <3>1, <3>2, <3>3, ShownFrame
    <3> QED
      BY <2>1, <3>1, <3>4, ViewByRows
  <2>4. \A i \in 1 .. next_branch_id : ViewOf(i - 1)' = ViewOf(i - 1)
    BY <1>1, <2>3, ViewsByBranch
  <2> QED
    BY <2>2, <2>4 DEF Views
<1> QED
  BY <1>2, <1>4, <1>5, <1>6, <1>7, MasterIsABranch DEF Next, UpdateStep

\* Scans of the shared version chains return what scans of separate copies,
\* each taken when its branch was created, would return.
THEOREM ChainsImplementStore == Spec => ImplementsBranchStore
<1>1. ScanInv /\ [Next]_vars => [Store!Next]_([i \in 1 .. next_branch_id |-> ViewOf(i - 1)])
  BY NextStore DEF Views
<1> QED
  BY <1>1, InitStore, ScanInvariant, PTL DEF Spec, ImplementsBranchStore, Store!Spec

------------------------------------------------------------------------------
(* The early filter of the scans                                           *)

\* Every branch that has a tuple descends from one branch that the entry
\* lists, the one that inserted it.
InsertingBranch ==
    \A t \in Tids : \E i \in version_mgmt_column[t].branch_visibility :
        \A b \in branchBitmap[t] : i \in branch_lineage_bitset(b)

\* The invariant of the filter carries over when no bitmap and no lineage
\* changes and the entries list no less.
LEMMA InsertingBranchFrame ==
    ASSUME InsertingBranch, SameTree, Tids' = Tids,
           \A t \in Tids : branchBitmap'[t] \subseteq branchBitmap[t],
           \A t \in Tids : version_mgmt_column[t].branch_visibility
                              \subseteq version_mgmt_column'[t].branch_visibility
    PROVE  InsertingBranch'
<1>1. \A b : branch_lineage_bitset(b)' = branch_lineage_bitset(b)
  BY SameTreeSees DEF branch_lineage_bitset
<1> QED
  BY <1>1 DEF InsertingBranch

\* Every operation keeps the inserting branch on the entry and in the lineage
\* of every branch that has the tuple.
LEMMA NextInsertingBranch == IInv /\ InsertingBranch /\ [Next]_vars => InsertingBranch'
<1> SUFFICES ASSUME IInv, InsertingBranch, [Next]_vars PROVE InsertingBranch'
  OBVIOUS
<1>1. ASSUME NEW parent \in Branches, createBranch(parent) PROVE InsertingBranch'
  <2>0. PICK n : n = next_branch_id
    OBVIOUS
  <2>1. /\ \A b \in Branches : branch_lineage(b)' = branch_lineage(b)
        /\ branch_lineage(n)' = {<<parent, n>>} \cup branch_lineage(parent)
    BY <1>1, <2>0, CreateBranchLineage DEF IInv
  <2>2. \A b \in Branches : branch_lineage_bitset(b)' = branch_lineage_bitset(b)
    BY <2>1 DEF branch_lineage_bitset
  <2>3. \A i \in branch_lineage_bitset(parent) : i \in branch_lineage_bitset(n)'
    <3>1. <<parent, n>>[1] = parent
      OBVIOUS
    <3> QED
      BY <2>1, <3>1 DEF branch_lineage_bitset
  <2>4. /\ Tids' = Tids /\ version_mgmt_column' = version_mgmt_column
        /\ \A t \in Tids : branchBitmap'[t] = IF parent \in branchBitmap[t]
                                              THEN branchBitmap[t] \cup {n}
                                              ELSE branchBitmap[t]
    BY <1>1, <2>0 DEF createBranch, cloneColumn, Tids
  <2>5. \A t \in Tids : branchBitmap[t] \subseteq Branches
    BY DEF IInv, TypeOK
  <2>6. ASSUME NEW t \in Tids
        PROVE  \E i \in version_mgmt_column[t].branch_visibility :
                  \A b \in branchBitmap'[t] : i \in branch_lineage_bitset(b)'
    <3>1. PICK i \in version_mgmt_column[t].branch_visibility :
              \A b \in branchBitmap[t] : i \in branch_lineage_bitset(b)
      BY DEF InsertingBranch
    <3>2. ASSUME NEW b \in branchBitmap'[t] PROVE i \in branch_lineage_bitset(b)'
      <4>1. CASE b \in branchBitmap[t]
        BY <2>2, <2>5, <3>1, <4>1
      <4>2. CASE b = n /\ parent \in branchBitmap[t]
        BY <2>3, <3>1, <4>2
      <4> QED
        BY <2>4, <4>1, <4>2
    <3> QED
      BY <3>2
  <2> QED
    BY <2>4, <2>6 DEF InsertingBranch
<1>2. ASSUME NEW branch \in Branches, insert_tuple(branch) PROVE InsertingBranch'
  <2>0. PICK new : new = Len(version_mgmt_column) + 1
    OBVIOUS
  <2>1. /\ SameTree /\ Tids' = Tids \cup {new}
        /\ \A t \in Tids : /\ branchBitmap'[t] = branchBitmap[t]
                           /\ version_mgmt_column'[t] = version_mgmt_column[t]
        /\ branchBitmap'[new] = {branch}
    BY <1>2, <2>0, InsertVersions
  <2>2. version_mgmt_column'[new].branch_visibility = {branch}
    BY <1>2, <2>0, InsertTypes DEF IInv
  <2>3. \A b : branch_lineage_bitset(b)' = branch_lineage_bitset(b)
    BY <2>1, SameTreeSees DEF branch_lineage_bitset
  <2>4. branch \in branch_lineage_bitset(branch)'
    BY <2>3 DEF branch_lineage_bitset
  <2>5. ASSUME NEW t \in Tids'
        PROVE  \E i \in version_mgmt_column'[t].branch_visibility :
                  \A b \in branchBitmap'[t] : i \in branch_lineage_bitset(b)'
    <3>1. CASE t \in Tids
      BY <2>1, <2>3, <3>1 DEF InsertingBranch
    <3>2. CASE t = new
      BY <2>1, <2>2, <2>4, <3>2
    <3> QED
      BY <2>1, <3>1, <3>2
  <2> QED
    BY <2>5 DEF InsertingBranch
<1>3. ASSUME NEW t \in Tids, update_tuple_in_master(t) PROVE InsertingBranch'
  <2>1. /\ Tids' = Tids
        /\ \A u \in Tids \ {t} : version_mgmt_column'[u] = version_mgmt_column[u]
        /\ version_mgmt_column'[t].branch_visibility = version_mgmt_column[t].branch_visibility
    BY <1>3, UpdateMasterEffect
  <2>2. SameTree /\ branchBitmap' = branchBitmap
    BY <1>3 DEF update_tuple_in_master, SameTree
  <2> QED
    BY <2>1, <2>2, InsertingBranchFrame
<1>4. ASSUME NEW t \in Tids, NEW branch \in Branches, update_tuple_in_branch(t, branch)
      PROVE  InsertingBranch'
  <2>1. /\ Tids' = Tids
        /\ \A u \in Tids \ {t} : version_mgmt_column'[u] = version_mgmt_column[u]
        /\ version_mgmt_column'[t].branch_visibility =
              version_mgmt_column[t].branch_visibility \cup {branch}
    BY <1>4, UpdateBranchEffect
  <2>2. SameTree /\ branchBitmap' = branchBitmap
    BY <1>4 DEF update_tuple_in_branch, SameTree
  <2> QED
    BY <2>1, <2>2, InsertingBranchFrame
<1>5. ASSUME NEW t \in Tids, NEW branch \in Branches, delete_tuple(t, branch)
      PROVE  InsertingBranch'
  <2>1. SameTree /\ Tids' = Tids /\ version_mgmt_column' = version_mgmt_column
    BY <1>5 DEF delete_tuple, SameTree, Tids
  <2>2. \A u \in Tids : branchBitmap'[u] \subseteq branchBitmap[u]
    BY <1>5 DEF delete_tuple, IInv, TypeOK
  <2> QED
    BY <2>1, <2>2, InsertingBranchFrame
<1>6. ASSUME UNCHANGED vars PROVE InsertingBranch'
  <2>1. /\ SameTree /\ Tids' = Tids /\ version_mgmt_column' = version_mgmt_column
        /\ branchBitmap' = branchBitmap
    BY <1>6 DEF vars, SameTree, Tids
  <2> QED
    BY <2>1, InsertingBranchFrame
<1> QED
  BY <1>1, <1>2, <1>3, <1>4, <1>5, <1>6 DEF Next

\* has_lineage_intersection, which the produce_* functions use to skip tuples,
\* never skips one the branch has.
THEOREM FilterKeepsTuples == Spec => []LineageFilterKeepsTuples
<1>1. Init => InsertingBranch
  BY DEF Init, InsertingBranch, Tids
<1>2. InsertingBranch => LineageFilterKeepsTuples
  BY DEF InsertingBranch, LineageFilterKeepsTuples, has_lineage_intersection
<1> QED
  BY <1>1, <1>2, NextInsertingBranch, ChainInvariant, PTL DEF Spec
==============================================================================
