----------------------------- MODULE Containers -----------------------------
(***************************************************************************)
(* The containers of the query runtime (src/foundations): Vector, which    *)
(* holds a column of a table; MemoryPool, the block allocator behind the   *)
(* hash operators; Hashtable, the growing table of GROUP BY.  Each one is  *)
(* a record and each member function an operator on it.                    *)
(*                                                                         *)
(* In the code defaultCount = 2, initialBlockSize = 4092, defaultSize = 16.*)
(***************************************************************************)
EXTENDS Integers, SequencesExt

CONSTANTS
    defaultCount,       \* elements a vector starts with room for
    initialBlockSize,   \* first block a pool allocates on demand (bytes)
    defaultSize         \* buckets a hash table starts with

ASSUME SizesAssumption ==
    /\ defaultCount \in Nat \ {0}
    /\ initialBlockSize \in Nat \ {0}
    /\ \E p \in 1..defaultSize : defaultSize = 2^p

Undefined == "undefined"    \* the content of memory nobody wrote

-----------------------------------------------------------------------------
(* Vector: an array of `capacity` elements, the first `count` in use *)

Vector == [count |-> 0, capacity |-> defaultCount,
           array |-> [i \in 1..defaultCount |-> Undefined]]

Realloc(v, capacity) ==
    [v EXCEPT !.capacity = capacity,
              !.array = [i \in 1..capacity |-> IF i <= v.capacity THEN v.array[i]
                                               ELSE Undefined]]

(* room for one more element; the capacity doubles when it is used up *)
reserve_back(v) ==
    LET grown == IF v.count = v.capacity THEN Realloc(v, 2 * v.capacity) ELSE v
    IN  [grown EXCEPT !.count = @ + 1]

push_back(v, element) ==
    LET reserved == reserve_back(v)
    IN  [reserved EXCEPT !.array[reserved.count] = element]

(* the capacity is halved when half of it is enough *)
pop_back(v) ==
    LET popped == [v EXCEPT !.count = @ - 1]
    IN  IF popped.count > defaultCount /\ popped.count <= popped.capacity \div 2
        THEN Realloc(popped, popped.capacity \div 2)
        ELSE popped

remove_atOneShort(v, index) ==
    pop_back([v EXCEPT !.array =
        [i \in 1..v.capacity |-> IF i \in index..(v.count - 2) THEN v.array[i + 1]
                                 ELSE v.array[i]]])

(***************************************************************************)
(* The elements behind the removed one are copied down by one.  (memcpy is *)
(* called on overlapping ranges, which the standard leaves undefined; it   *)
(* is taken to copy upwards, as the C library of the build does.)          *)
(***************************************************************************)
remove_at(v, index) ==
    pop_back([v EXCEPT !.array =
        [i \in 1..v.capacity |-> IF i \in index..(v.count - 1) THEN v.array[i + 1]
                                 ELSE v.array[i]]])

at(v, index) == v.array[index]

-----------------------------------------------------------------------------
(* MemoryPool: blocks of zeroed memory, used from the front.  Addresses    *)
(* start at 1; the blocks calloc returns follow one another.               *)

createNewBlock(pool, minimum) ==
    LET size == Max({pool.nextBlockSize, minimum})
    IN  [blocks |-> Append(pool.blocks, [start |-> pool.top, used |-> 0, size |-> size]),
         nextBlockSize |-> 2 * pool.nextBlockSize,
         top |-> pool.top + size]

(* one empty block is allocated right away *)
MemoryPool ==
    [createNewBlock([blocks |-> <<>>, nextBlockSize |-> 0, top |-> 1], 0)
        EXCEPT !.nextBlockSize = initialBlockSize]

mallocPastBlock(pool, size) ==
    LET block == Last(pool.blocks)
        room == IF block.size - block.used < size - 1 THEN createNewBlock(pool, size) ELSE pool
    IN  [room EXCEPT !.blocks[Len(room.blocks)].used = @ + size]

(* the pool after an allocation; the address is that of its newest piece *)
malloc(pool, size) ==
    LET block == Last(pool.blocks)
        room == IF block.size - block.used < size THEN createNewBlock(pool, size) ELSE pool
    IN  [room EXCEPT !.blocks[Len(room.blocks)].used = @ + size]

Allocated(pool, size) == Last(pool.blocks).start + Last(pool.blocks).used - size

-----------------------------------------------------------------------------
(* Hashtable: per bucket the chain of its nodes *)

threshold(size) == (3 * size) \div 4
bucket(table, h) == h % table.size

Hashtable(size) ==
    [size |-> size, uniqueCount |-> 0, buckets |-> [b \in 0..(size - 1) |-> <<>>]]

(* positions in the chain of h that hold its hash code *)
Matches(table, h) ==
    {i \in DOMAIN table.buckets[bucket(table, h)] :
        table.buckets[bucket(table, h)][i].hashCode = h}

(* the node with the hash code h, or no node *)
lookup(table, h) ==
    IF Matches(table, h) = {} THEN <<>>
    ELSE <<table.buckets[bucket(table, h)][Min(Matches(table, h))]>>

(***************************************************************************)
(* A node is put in front of the first one with its hash code, or at the   *)
(* end of the chain.                                                       *)
(***************************************************************************)
insertNode(table, node) ==
    LET chain == table.buckets[bucket(table, node.hashCode)]
        same == Matches(table, node.hashCode)
    IN  [table EXCEPT
            !.uniqueCount = IF same = {} THEN @ + 1 ELSE @,
            !.buckets[bucket(table, node.hashCode)] =
                InsertAt(chain, IF same = {} THEN Len(chain) + 1 ELSE Min(same), node)]

(***************************************************************************)
(* The table doubles and every node is inserted again, bucket by bucket.   *)
(* (These insertions stay below the new threshold: it has at least doubled.)*)
(***************************************************************************)
rehash(table) ==
    FoldLeft(insertNode, Hashtable(2 * table.size),
             FlattenSeq([i \in 1..table.size |-> table.buckets[i - 1]]))

insert(table, node) ==
    LET inserted == insertNode(table, node)
    IN  IF inserted.uniqueCount >= threshold(inserted.size) THEN rehash(inserted)
        ELSE inserted

(* the nodes in the order of the generated iteration *)
Nodes(table) == FlattenSeq([i \in 1..table.size |-> table.buckets[i - 1]])
=============================================================================
