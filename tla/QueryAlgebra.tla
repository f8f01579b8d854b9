---------------------------- MODULE QueryAlgebra ----------------------------
(***************************************************************************)
(* The logical algebra (src/algebra/logical/operators.cpp), its            *)
(* translation (src/algebra/translation.cpp) and the values the physical   *)
(* operators hand to each other.                                           *)
(*                                                                         *)
(* An operator caches the information units (IUs) it produces and the ones *)
(* it and the operators above it require.  The caches are filled for the   *)
(* whole tree when one of them is first asked for: the produced IUs of a   *)
(* scan when the analyser names its columns, the required IUs when the     *)
(* translation constructs the first physical scan.                         *)
(*                                                                         *)
(* An operator is a record of the sequence ops and known by its index,     *)
(* which is smaller than the one of its parent; an IU is an index of       *)
(* iu_vec; an expression is the set of IUs it refers to.                   *)
(***************************************************************************)
EXTENDS Walks, Sequences, FiniteSets, SequencesExt

CONSTANTS Tables,           \* the tables
          columnNames(_),   \* the names of the columns of a table
          MaxColumnIUs,     \* bounds the columns of the tables scanned by a query
          MaxSelects,       \* bounds the selections of a query
          MaxPairs,         \* bounds the conditions of a join
          MaxSelection      \* bounds the columns of a result that does not have them all

ASSUME AlgebraAssumption ==
    /\ {MaxColumnIUs, MaxSelects, MaxPairs, MaxSelection} \subseteq Nat
    /\ \A table \in Tables : columnNames(table) \in Seq(STRING)

VARIABLES
    query,      \* the operators with their caches, and the IUs of IUFactory
    root,       \* joinedTree, or 0 until the statement's operator is added
    _type,      \* Result::_type, chosen by the build
    physical,   \* the physical tree, or NotTranslated, or AssertFailed
    ran,        \* produce was called on the physical tree
    notFound,   \* IUs that were looked up in a mapping without them
    verified    \* the results verifyDependencies has returned

algebraVars == <<query, root, _type, physical, ran, notFound, verified>>

\* The nodes of a physical tree are known by the index of their logical operator.
NotTranslated == [root |-> 0, nodes |-> <<>>]
AssertFailed  == [root |-> 0, nodes |-> <<>>, assert |-> "ColumnRef"]

Ops == DOMAIN query.ops
arity(op) == Len(op.children)

-----------------------------------------------------------------------------
(* The tree of an operator *)

getRoot(ops, i) ==
    Walk([j \in DOMAIN ops |-> IF ops[j].parent = 0 THEN j ELSE ops[j].parent], i)[Len(ops)]

\* The calls updateProducedSetsTraverser and TreeTranslator::traverse make.
postOrder(ops, i) ==
    LET order[j \in DOMAIN ops] ==
            IF arity(ops[j]) = 0 THEN <<j>>
            ELSE IF arity(ops[j]) = 1 THEN order[ops[j].children[1]] \o <<j>>
            ELSE order[ops[j].children[1]] \o order[ops[j].children[2]] \o <<j>>
    IN  order[i]

\* The calls updateRequiredSetsTraverser makes: an operator comes before its
\* children, and a binary one splits its set after them.
requiredTraversal(ops, i) ==
    LET compute(j) == [call |-> "computeRequired", op |-> j]
        split(j) == [call |-> "splitRequiredSet", op |-> j]
        calls[j \in DOMAIN ops] ==
            IF arity(ops[j]) = 0 THEN <<compute(j)>>
            ELSE IF arity(ops[j]) = 1 THEN <<compute(j)>> \o calls[ops[j].children[1]]
            ELSE <<compute(j)>> \o calls[ops[j].children[1]] \o calls[ops[j].children[2]] \o <<split(j)>>
    IN  calls[i]

-----------------------------------------------------------------------------
(* Produced IUs *)

createColumnIUs(q, i) ==
    LET names == columnNames(q.ops[i].table) \o <<"tid">>
    IN  [q EXCEPT !.iu_vec = @ \o [k \in DOMAIN names |->
                                     [iuType |-> "ColumnRef", scanUID |-> i, column |-> names[k]]],
                  !.produced[i] = {Len(q.iu_vec) + k : k \in DOMAIN names}]

TableScanComputeProduced(q, i) ==
    IF q.produced[i] # {} THEN q ELSE createColumnIUs(q, i)

Aggregated(op) == {op.aggregations[k].produced : k \in DOMAIN op.aggregations}

computeProduced(q, i) ==
    LET op == q.ops[i]
    IN  CASE op.kind = "TableScan" -> TableScanComputeProduced(q, i)
          [] op.kind \in {"Select", "Join"} ->
                 [q EXCEPT !.produced[i] = UNION {q.produced[op.children[k]] : k \in DOMAIN op.children}]
          [] op.kind = "GroupBy" -> [q EXCEPT !.produced[i] = Aggregated(op)]
          [] op.kind \in {"Result", "Update", "Delete", "Insert"} -> [q EXCEPT !.produced[i] = {}]

visitProduced(q, i) ==
    LET s == computeProduced(q, i)
    IN  [s EXCEPT !.producedUpToDate = @ \cup {i}]

updateProducedSets(q, i) ==
    LET order == postOrder(q.ops, getRoot(q.ops, i))
        after[n \in 0 .. Len(order)] == IF n = 0 THEN q ELSE visitProduced(after[n - 1], order[n])
    IN  after[Len(order)]

getProduced(q, i) ==
    IF i \in q.producedUpToDate THEN q ELSE updateProducedSets(q, i)

-----------------------------------------------------------------------------
(* Required IUs.  The parent of the operator the traversal is at is up to date. *)

hasSibling(q, i) == q.ops[i].parent # 0 /\ arity(q.ops[q.ops[i].parent]) > 1

expectedFromAllBranches(q, i) ==
    IF q.ops[i].parent = 0 THEN {} ELSE q.required[q.ops[i].parent]

computeExpected(q, i) ==
    IF q.ops[i].parent = 0 THEN {}
    ELSE IF hasSibling(q, i) THEN q.required[q.ops[i].parent] \cap q.produced[i]
         ELSE q.required[q.ops[i].parent]

required(q, i) ==
    LET kind == q.ops[i].kind
    IN  CASE kind \in {"TableScan", "Select", "Join"} -> computeExpected(q, i) \cup q.ius[i]
          [] kind = "GroupBy" -> q.ius[i]
          [] kind \in {"Result", "Update", "Delete"} -> q.required[i] \cup q.ius[i]
          [] kind = "Insert" -> q.required[i]

\* computeExpected asks a child of a join for its produced IUs.
computeRequired(q, i) ==
    LET s == IF q.ops[i].kind \in {"TableScan", "Select", "Join"} /\ hasSibling(q, i)
             THEN getProduced(q, i) ELSE q
    IN  [s EXCEPT !.required[i] = required(s, i), !.requiredUpToDate = @ \cup {i}]

splitRequiredToOneSide(q, i) ==
    LET left == q.required[q.ops[i].children[1]]
    IN  [q EXCEPT !.leftRequired[i] = @ \cup (q.required[i] \cap left),
                  !.rightRequired[i] = @ \cup (q.required[i] \cap left)]

splitRequiredSet(q, i) ==
    LET left == q.required[q.ops[i].children[1]]
        right == q.required[q.ops[i].children[2]]
    IN  [q EXCEPT !.leftRequired[i] = @ \cup (q.required[i] \cap left),
                  !.rightRequired[i] = @ \cup (q.required[i] \cap right)]

visitRequired(q, c) ==
    IF c.call = "computeRequired" THEN computeRequired(q, c.op) ELSE splitRequiredSet(q, c.op)

updateRequiredSets(q, i) ==
    LET calls == requiredTraversal(q.ops, getRoot(q.ops, i))
        after[n \in 0 .. Len(calls)] == IF n = 0 THEN q ELSE visitRequired(after[n - 1], calls[n])
    IN  after[Len(calls)]

getRequired(q, i) ==
    IF i \in q.requiredUpToDate THEN q ELSE updateRequiredSets(q, i)

-----------------------------------------------------------------------------
(* Constructing a tree *)

Operator(kind, children, table, pairs, aggregations) ==
    [kind |-> kind, children |-> children, parent |-> 0, table |-> table,
     pairs |-> pairs, aggregations |-> aggregations]

\* The constructors of NullaryOperator, UnaryOperator and BinaryOperator; ius
\* are the IUs the expressions of the operator refer to.
construct(q, op, ius) ==
    LET id == Len(q.ops) + 1
        adopt(i) == IF i \in ToSet(op.children) THEN [q.ops[i] EXCEPT !.parent = id] ELSE q.ops[i]
    IN  [q EXCEPT !.ops = Append([i \in DOMAIN q.ops |-> adopt(i)], op),
                  !.ius = Append(@, ius),
                  !.produced = Append(@, {}),
                  !.required = Append(@, {}),
                  !.leftRequired = Append(@, {}),
                  !.rightRequired = Append(@, {})]

AlgebraInit ==
    /\ query = [ops |-> <<>>, iu_vec |-> <<>>, ius |-> <<>>,
                produced |-> <<>>, producedUpToDate |-> {},
                required |-> <<>>, requiredUpToDate |-> {},
                leftRequired |-> <<>>, rightRequired |-> <<>>]
    /\ root = 0
    /\ _type \in {"PrintToStdOut", "TupleStreamHandler"}
    /\ physical = NotTranslated
    /\ ran = FALSE /\ notFound = {}
    /\ verified = {}

Kinds == {query.ops[i].kind : i \in Ops}
Count(kind) == Cardinality({i \in Ops : query.ops[i].kind = kind})
Dangling == {i \in Ops : query.ops[i].parent = 0}
IsColumn(iu) == query.iu_vec[iu].iuType = "ColumnRef"
Tid(iu) == IsColumn(iu) /\ query.iu_vec[iu].column = "tid"

\* The IUs an analyser can name above operator i.
Scope(i) ==
    IF query.ops[i].kind = "GroupBy" THEN Aggregated(query.ops[i])
    ELSE UNION {query.produced[j] : j \in ToSet(postOrder(query.ops, i))}

Building == root = 0 /\ UNCHANGED <<_type, physical, ran, notFound, verified>>

\* construct_scans, which asks a new scan for the IUs of its columns.
newTableScan(table) ==
    /\ Building
    /\ Kinds \subseteq {"TableScan"}
    /\ Len(query.iu_vec) + Len(columnNames(table)) < MaxColumnIUs
    /\ query' = getProduced(construct(query, Operator("TableScan", <<>>, table, <<>>, <<>>), {}), Len(query.ops) + 1)
    /\ UNCHANGED root

\* construct_selects
newSelect(child, iu) ==
    /\ Building
    /\ Kinds \subseteq {"TableScan", "Select"} /\ Count("Select") < MaxSelects
    /\ query' = construct(query, Operator("Select", <<child>>, "", <<>>, <<>>), {iu})
    /\ UNCHANGED root

\* construct_join, with the conditions of an edge: the first one decides which
\* production is the left one, further ones may name the tables in any order.
newJoin(left, right, pairs) ==
    /\ Building
    /\ "GroupBy" \notin Kinds
    /\ query' = construct(query, Operator("Join", <<left, right>>, "", pairs, <<>>),
                          UNION {{p[1], p[2]} : p \in ToSet(pairs)})
    /\ UNCHANGED root

\* A GroupBy over aggregators that were asked for the IU they produce.
newGroupBy(child, functions) ==
    LET produced(k) == Len(query.iu_vec) + k
        factory == [query EXCEPT !.iu_vec = @ \o [k \in DOMAIN functions |-> [iuType |-> "ValueRef"]]]
    IN  /\ Building
        /\ query.ops[child].kind # "GroupBy"
        /\ query' = construct(factory,
                        Operator("GroupBy", <<child>>, "", <<>>,
                                 [k \in DOMAIN functions |-> [required |-> functions[k].required,
                                                              produced |-> produced(k)]]),
                        UNION {f.required : f \in ToSet(functions)})
        /\ UNCHANGED root

newRoot(kind, children, table, ius, updates) ==
    /\ Building
    /\ query' = construct(query, Operator(kind, children, table, updates, <<>>), ius)
    /\ root' = Len(query.ops) + 1

newResult(child, selection) == newRoot("Result", <<child>>, "", selection, <<>>)

SingleTable(child) == query.ops[child].kind \in {"TableScan", "Select"}

\* Update gets every IU of its table, some with a new value.
newUpdate(child, updated) ==
    /\ SingleTable(child)
    /\ newRoot("Update", <<child>>, "", Scope(child), <<updated>>)

newDelete(child, tid) ==
    /\ SingleTable(child)
    /\ newRoot("Delete", <<child>>, "", {tid}, <<>>)

newInsert(table) ==
    /\ query.ops = <<>>
    /\ newRoot("Insert", <<>>, table, {}, <<>>)

-----------------------------------------------------------------------------
(* Verifier: every operator may only require what each of its children produces. *)

testReversed(q, parent, child) == q.produced[child] \subseteq q.required[parent]

test(q, parent, child) == q.required[parent] \subseteq q.produced[child]

verifyDependencies ==
    /\ root # 0 /\ query.ops[root].kind = "Result"
    /\ physical = NotTranslated /\ verified = {}
    /\ \E q \in {getProduced(getRequired(query, root), query.ops[root].children[1])} :
           /\ query' = q
           /\ verified' = {\A i \in ToSet(postOrder(q.ops, root)) :
                              \A k \in DOMAIN q.ops[i].children : test(q, i, q.ops[i].children[k])}
    /\ UNCHANGED <<root, _type, physical, ran, notFound>>

-----------------------------------------------------------------------------
(***************************************************************************)
(* TreeTranslator visits the tree in post order and keeps the translated   *)
(* operators on a stack.  A physical operator knows its logical one, its   *)
(* children and the IUs its expressions refer to.  Physical scans and the  *)
(* TupleStream ask for the required IUs when they are constructed; the     *)
(* Update takes the update list out of the logical operator.               *)
(***************************************************************************)
Physical(children, ius) == [children |-> children, ius |-> ius]

popLeftAndRight(stack) == <<stack[Len(stack) - 1], stack[Len(stack)]>>

popChildren(stack, op) ==
    CASE arity(op) = 0 -> <<>>
      [] arity(op) = 1 -> <<Last(stack)>>
      [] arity(op) = 2 -> popLeftAndRight(stack)

visitTableScan(q, i) == getRequired(q, i)

visitLogical(q, i) ==
    LET kind == q.ops[i].kind
    IN  CASE kind = "TableScan" -> visitTableScan(q, i)
          [] kind = "Update" -> [q EXCEPT !.ius[i] = {}]
          [] kind = "Result" /\ _type = "TupleStreamHandler" -> getRequired(q, i)
          [] OTHER -> q

visit(t, i) ==
    LET op == t.q.ops[i]
        node == Physical(popChildren(t.stack, op), t.q.ius[i])
    IN  [q |-> visitLogical(t.q, i),
         stack |-> Append(SubSeq(t.stack, 1, Len(t.stack) - arity(op)), i),
         nodes |-> [j \in DOMAIN t.nodes \cup {i} |-> IF j = i THEN node ELSE t.nodes[j]]]

traverse(q, i) ==
    LET order == postOrder(q.ops, i)
        after[n \in 0 .. Len(order)] ==
            IF n = 0 THEN [q |-> q, stack |-> <<>>, nodes |-> <<>>] ELSE visit(after[n - 1], order[n])
    IN  after[Len(order)]

\* TupleStream asserts that the IUs of the result are columns.
Streams(q) == _type = "TupleStreamHandler" /\ q.ops[root].kind = "Result"

translateToPhysicalTree ==
    /\ root # 0 /\ physical = NotTranslated
    /\ \E t \in {traverse(query, root)} :
           /\ query' = t.q
           /\ physical' = IF Streams(t.q) /\ \E iu \in t.q.required[root] : ~IsColumn(iu)
                          THEN AssertFailed ELSE [root |-> Last(t.stack), nodes |-> t.nodes]
    /\ UNCHANGED <<root, _type, ran, notFound, verified>>

-----------------------------------------------------------------------------
(* produce and consume: what a physical operator passes up, and the IUs it *)
(* looks up in what it is passed.                                          *)

Nodes == DOMAIN physical.nodes
input(i, k) == physical.nodes[i].children[k]

\* The IUs in the mapping operator i passes up, which a selection hands on.
mapping(up, i) ==
    LET kind == query.ops[i].kind
    IN  CASE kind = "TableScan" -> query.required[i]
          [] kind = "Select" -> up[input(i, 1)]
          [] kind = "Join" -> query.leftRequired[i] \cup query.rightRequired[i]
          [] kind = "GroupBy" -> Aggregated(query.ops[i])
          [] OTHER -> {}

passed ==
    LET up[i \in Nodes] == mapping(up, i)
    IN  up

\* consumeLeft stores leftRequired, probeCandidate compares the stored values
\* with the incoming ones of the right side and adds rightRequired to them.
joinMisses(i, left, right) ==
    LET pairs == ToSet(query.ops[i].pairs)
    IN  (query.leftRequired[i] \ left) \cup (query.rightRequired[i] \ right)
        \cup {p[1] : p \in {pair \in pairs : pair[1] \notin left \cap query.leftRequired[i]}}
        \cup {p[2] : p \in {pair \in pairs : pair[2] \notin right}}

misses(i) ==
    LET op == query.ops[i]
        ius == physical.nodes[i].ius
        incoming == passed[input(i, 1)]
    IN  CASE op.kind \in {"TableScan", "Insert"} -> {}
          [] op.kind \in {"Select", "GroupBy"} -> ius \ incoming
          [] op.kind = "Join" -> joinMisses(i, incoming, passed[input(i, 2)])
          [] op.kind = "Result" -> {iu \in query.required[i] : Streams(query) => ~Tid(iu)} \ incoming
          [] op.kind = "Delete" -> {iu \in query.required[i] : Tid(iu)} \ incoming
          [] op.kind = "Update" -> {iu \in ius : Tid(iu) \/ iu \notin op.pairs[1]} \ incoming

Translated == physical \notin {NotTranslated, AssertFailed}

produce ==
    /\ Translated /\ ~ran
    /\ notFound' = UNION {misses(i) : i \in Nodes}
    /\ ran' = TRUE
    /\ UNCHANGED <<query, root, _type, physical, verified>>

-----------------------------------------------------------------------------
Function(iuSet) == [required |-> iuSet]

\* Lists of aggregators: Keep and CountAll, or Sum, Avg or Min of an expression
\* over all columns.
FunctionLists(scope) ==
    {<<Function({iu}), Function({})>> : iu \in scope}
    \cup {<<Function(scope)>>}

Columns(i) == {iu \in Scope(i) : ~Tid(iu)}

\* The conditions of an edge between the productions left and right.
PairLists(left, right) ==
    LET forward == Columns(left) \X Columns(right)
    IN  {pairs \in SeqOf(forward \cup (Columns(right) \X Columns(left)), MaxPairs) :
            pairs # <<>> /\ pairs[1] \in forward}

\* Every column, or some.
Selections(i) == {Columns(i)} \cup {s \in SUBSET Scope(i) : Cardinality(s) \in 1..MaxSelection}

Construction ==
    \/ \E table \in Tables : newTableScan(table) \/ newInsert(table)
    \/ \E child \in Dangling :
          \/ \E iu \in Columns(child) : newSelect(child, iu)
          \/ \E functions \in FunctionLists(Columns(child)) : newGroupBy(child, functions)
          \/ \E selection \in Selections(child) : newResult(child, selection)
          \/ \E updated \in SUBSET Columns(child) : newUpdate(child, updated)
          \/ \E tid \in Scope(child) \ Columns(child) : newDelete(child, tid)
          \/ \E right \in Dangling \ {child} :
                \E pairs \in PairLists(child, right) : newJoin(child, right, pairs)

AlgebraNext ==
    \/ root = 0 /\ Construction
    \/ verifyDependencies
    \/ translateToPhysicalTree
    \/ produce

AlgebraSpec == AlgebraInit /\ [][AlgebraNext]_algebraVars

-----------------------------------------------------------------------------
(* Properties *)

ReversedPair ==
    \E i \in Nodes : \E p \in ToSet(query.ops[i].pairs) :
        /\ query.ops[i].kind = "Join"
        /\ p[1] \notin query.produced[input(i, 1)]

(***************************************************************************)
(* Physical/Operator.hpp promises that the mapping passed to consume       *)
(* "contains at least all required ius".  Every operator of a plan finds   *)
(* the IUs it looks up, whatever the shape of the tree and whenever the    *)
(* caches were filled; the one exception is a join with a condition whose  *)
(* sides are reversed with respect to the first condition of its edge,     *)
(* where a lookup always fails.                                            *)
(***************************************************************************)
EveryLookupSucceeds ==
    ran => (notFound # {} <=> ReversedPair)

(***************************************************************************)
(* A scan loads exactly the columns some operator of the plan uses: the    *)
(* required sets lose no column on the way down through joins, selections  *)
(* and groups, and the splitting at the joins adds none.                   *)
(***************************************************************************)
ScansLoadWhatIsUsed ==
    Translated =>
        \A i \in Nodes :
            query.ops[i].kind = "TableScan" =>
                query.required[i] = query.produced[i] \cap UNION {physical.nodes[j].ius : j \in Nodes}

(***************************************************************************)
(* verifyDependencies accepts every plan without a join.  It compares what *)
(* a join requires with each of its children alone, and so rejects plans   *)
(* that run without a failed lookup.                                       *)
(***************************************************************************)
VerifierAcceptsUnaryPlans ==
    FALSE \in verified => \E i \in ToSet(postOrder(query.ops, root)) : query.ops[i].kind = "Join"
=============================================================================
