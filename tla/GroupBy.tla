------------------------------- MODULE GroupBy ------------------------------
(***************************************************************************)
(* GROUP BY (src/algebra/physical/GroupBy.cpp): every tuple the child      *)
(* passes up is aggregated into the entries of its group.  With a Keep     *)
(* aggregator the groups are the nodes of a hash table, found by the hash  *)
(* of the kept values alone; without one there is a single group.          *)
(*                                                                         *)
(* An aggregator is a record [kind, exp]; an entry is the memory of its    *)
(* accumulator (of accumulator and counter for Avg).                       *)
(***************************************************************************)
EXTENDS HashJoin, Expressions

CONSTANTS
    AggregationLists,       \* lists of logical aggregators of a query
    Translate(_)            \* the physical expression of a logical one

VARIABLES
    aggregations,   \* the physical aggregators of this query
    hashTable,      \* groups, in keep mode
    singleGroup,    \* the group, or <<>> while it is empty, otherwise
    overflowed,     \* an overflow has set the flag
    ended,          \* "no", or how the evaluation of an expression ended the query
    results         \* the tuples passed to the parent

groupVars == <<aggregations, hashTable, singleGroup, overflowed, ended, results>>

-----------------------------------------------------------------------------
(* Logical aggregators.  Avg casts what is not Numeric. *)

Keep(iu, type) == [kind |-> "keep", exp |-> Identifier(iu, type)]
Sum(exp)       == [kind |-> "sum", exp |-> exp]
CountAll       == [kind |-> "count", exp |-> NullConstant]
Minimum(exp)   == [kind |-> "min", exp |-> exp]
Avg(exp) ==
    [kind |-> "avg",
     exp |-> IF exp.type.id = "Numeric" THEN exp
             ELSE Cast(exp, getNumericTy(MaxDigits, 4))]

(* AggregatorTranslator *)
translateAggregator(aggregator) ==
    IF aggregator.kind \in {"keep", "count"} THEN aggregator
    ELSE [aggregator EXCEPT !.exp = Translate(@)]

one(type) == Known(type, numericShifts[type.precision])

(***************************************************************************)
(* consumeFirst, consumeNext and getResult of an aggregator.  The first    *)
(* two yield the entry as a Result, or what the evaluation ended with.     *)
(***************************************************************************)
stored(result) ==
    IF result.tag = "value" THEN [result EXCEPT !.v = <<store(@, 0)>>] ELSE result

consumeFirst(agg, values) ==
    CASE agg.kind \in {"keep", "sum", "min"} -> stored(Evaluate(agg.exp, values))
      [] agg.kind = "avg" ->
             LET first == stored(Evaluate(agg.exp, values))
             IN  IF first.tag # "value" THEN first
                 ELSE [first EXCEPT !.v = Append(@, store(one(agg.exp.type), 0))]
      [] agg.kind = "count" -> Result(<<store(Known(getIntegerTy, 1), 0)>>, FALSE)

accumulated(acc, v) ==
    IF v.tag # "value" THEN v
    ELSE [stored(sqlAdd(acc, v.v)) EXCEPT !.overflow = @ \/ v.overflow]

smaller(acc, v) ==
    IF v.tag # "value" THEN v
    ELSE stored([v EXCEPT !.v = IF compare(acc, v.v, "less").v THEN acc ELSE v.v])

consumeNext(agg, entry, values) ==
    CASE agg.kind = "keep"  -> Result(entry, FALSE)
      [] agg.kind = "sum"   ->
             accumulated(load(entry[1], agg.exp.type).v, Evaluate(agg.exp, values))
      [] agg.kind = "avg"   ->
             LET acc == accumulated(load(entry[1], agg.exp.type).v, Evaluate(agg.exp, values))
                 count == accumulated(one(agg.exp.type),
                                      Result(load(entry[2], agg.exp.type).v, FALSE))
             IN  IF acc.tag # "value" THEN acc
                 ELSE Result(acc.v \o count.v, acc.overflow \/ count.overflow)
      [] agg.kind = "count" ->
             accumulated(Known(getIntegerTy, 1), Result(load(entry[1], getIntegerTy).v, FALSE))
      [] agg.kind = "min"   ->
             smaller(load(entry[1], agg.exp.type).v, Evaluate(agg.exp, values))

getResult(agg, entry) ==
    CASE agg.kind \in {"keep", "sum", "min"} ->
             Result(load(entry[1], agg.exp.type).v, FALSE)
      [] agg.kind = "avg"   -> sqlDiv(load(entry[1], agg.exp.type).v,
                                      load(entry[2], agg.exp.type).v)
      [] agg.kind = "count" -> Result(load(entry[1], getIntegerTy).v, FALSE)

-----------------------------------------------------------------------------
keepSet == {i \in DOMAIN aggregations : aggregations[i].kind = "keep"}
keepMode == keepSet # {}

(* the hash code of the kept value (of a single one: no codes are combined) *)
currentHash(values) == Hash(values[aggregations[Min(keepSet)].exp.args[1]])

initializeGroup(values) ==
    [i \in DOMAIN aggregations |-> consumeFirst(aggregations[i], values)]

aggregateInto(group, values) ==
    [i \in DOMAIN aggregations |-> consumeNext(aggregations[i], group[i], values)]

Entries(updates) == [i \in DOMAIN updates |-> updates[i].v]
Completed(updates) == \A i \in DOMAIN updates : updates[i].tag = "value"
Overflows(updates) == \E i \in DOMAIN updates : updates[i].overflow

(* the table with the entries of the first node of hash code h replaced *)
SetEntries(t, h, entries) ==
    [t EXCEPT !.buckets[bucket(t, h)][Min(Matches(t, h))].data = entries]

GroupInit ==
    /\ aggregations = <<>>
    /\ hashTable = Hashtable(defaultSize)
    /\ singleGroup = <<>>
    /\ overflowed = FALSE /\ ended = "no"
    /\ results = <<>>

(* produce, in front of the child: an empty table or group *)
createGroups ==
    /\ \E list \in AggregationLists :
           aggregations' = [i \in DOMAIN list |-> translateAggregator(list[i])]
    /\ hashTable' = Hashtable(defaultSize)
    /\ singleGroup' = <<>>
    /\ overflowed' = FALSE /\ ended' = "no"
    /\ results' = <<>>

(***************************************************************************)
(* consume: the group of the tuple is initialised by its first tuple and   *)
(* updated by the others.                                                  *)
(***************************************************************************)
consumeInto(values, found) ==
    \E updates \in {IF found = <<>> THEN initializeGroup(values)
                    ELSE aggregateInto(found[1], values)} :
        IF ~Completed(updates)
        THEN /\ ended' = (CHOOSE u \in Range(updates) : u.tag # "value").tag
             /\ UNCHANGED <<hashTable, singleGroup, overflowed>>
        ELSE /\ overflowed' = (overflowed \/ Overflows(updates))
             /\ IF keepMode
                THEN /\ LET h == currentHash(values)
                        IN  hashTable' =
                              IF found = <<>>
                              THEN insert(hashTable, [hashCode |-> h, data |-> Entries(updates)])
                              ELSE SetEntries(hashTable, h, Entries(updates))
                     /\ UNCHANGED singleGroup
                ELSE singleGroup' = <<Entries(updates)>> /\ UNCHANGED hashTable
             /\ UNCHANGED ended

consume(values) ==
    /\ consumeInto(values,
                   IF keepMode
                   THEN LET n == lookup(hashTable, currentHash(values))
                        IN  [i \in DOMAIN n |-> n[i].data]
                   ELSE singleGroup)
    /\ UNCHANGED <<aggregations, results>>

(* produce, behind the child: every group is finalised and passed on *)
Finalized(group) == [i \in DOMAIN aggregations |-> getResult(aggregations[i], group[i])]

passGroups ==
    LET groups == IF keepMode THEN [i \in DOMAIN Nodes(hashTable) |-> Nodes(hashTable)[i].data]
                  ELSE singleGroup
    IN  /\ results' = [i \in DOMAIN groups |-> Finalized(groups[i])]
        /\ overflowed' = (overflowed \/ \E i \in DOMAIN groups : Overflows(results'[i]))
        /\ UNCHANGED <<aggregations, hashTable, singleGroup, ended>>
=============================================================================
