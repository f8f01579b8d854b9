---------------------------- MODULE SelectBinding ----------------------------
(***************************************************************************)
(* What the names of a SELECT mean: SelectAnalyser::verify, construct_scans*)
(* and construct_selects of the SemanticAnalyser, the vertices and column  *)
(* look-ups of construct_join_graph, and the projection.  How the vertices *)
(* are joined is the subject of JoinGraph.                                 *)
(*                                                                         *)
(* The statement is chosen while verify reads it.  Column names are        *)
(* numbers, in the order of the strings they stand for.  An information    *)
(* unit is the scan that produces it, given by the position of its table   *)
(* in the FROM clause, and its column.                                     *)
(***************************************************************************)
EXTENDS Integers, SequencesExt

CONSTANTS
    Tables,          \* the tables of the database
    Bindings,        \* the aliases a statement may use
    Columns,         \* column names
    Versions,        \* branch names a statement may use
    Branches,        \* branch names that exist
    MaxColumns,      \* bounds the columns of a table
    MaxRelations,    \* bounds the FROM clause
    MaxReferences    \* bounds the columns the statement mentions

ASSUME BindingAssumption ==
    /\ Columns \subseteq Int
    /\ "" \notin Tables \cup Bindings
    /\ {MaxColumns, MaxRelations, MaxReferences} \subseteq Nat

VARIABLES
    columnNames,      \* Table::getColumnNames of every table
    phase,            \* how far the analysis is
    relations,        \* SelectStatement::relations
    references,       \* the columns of selections, projections, joinConditions
    unbindedColumns,  \* verify: the columns of the tables without alias
    bindedColumns,    \* verify: the columns of the aliases
    ius,              \* AnalyzingContext::ius
    iuOrder,          \* the order in which that unordered_map is traversed
    productions,      \* AnalyzingContext::dangling_productions
    vertices,         \* the vertices of the join graph
    projectedIUs,     \* constructTree: the IUs of the Result operator
    fromClause        \* the relations as they were written

bindingVars == <<columnNames, phase, relations, references, unbindedColumns,
                 bindedColumns, ius, iuOrder, productions, vertices,
                 projectedIUs, fromClause>>

verified == <<columnNames, unbindedColumns, bindedColumns>>

NoIU == <<0, 0>>            \* a null pointer
Unresolved == <<-1, -1>>    \* not looked up yet
NoFunction == <<>>

Orders(S) == {order \in [1 .. Cardinality(S) -> S] : IsInjective(order)}

ColumnLists ==
    UNION {{list \in [1 .. n -> Columns] : IsInjective(list)} : n \in 1 .. MaxColumns}

BindingInit ==
    /\ columnNames \in [Tables -> ColumnLists]
    /\ phase = "relations"
    /\ relations = <<>>
    /\ references = <<>>
    /\ unbindedColumns = {}
    /\ bindedColumns = NoFunction
    /\ ius = NoFunction
    /\ iuOrder = <<>>
    /\ productions = NoFunction
    /\ vertices = NoFunction
    /\ projectedIUs = {}
    /\ fromClause = <<>>

------------------------------------------------------------------------------
(* verify                                                                  *)

set_intersection_first(sorted, list) == sorted \cap {list[1]}

\* std::set_intersection of a sorted range with one in the order of the table:
\* it never goes back in the sorted range, so it finds an element of the list
\* only if all elements before it are smaller.
set_intersection(sorted, list) ==
    {list[i] : i \in {j \in DOMAIN list : /\ list[j] \in sorted
                                          /\ \A k \in 1 .. j - 1 : list[k] < list[j]}}

relationRefused(relation) ==
    \/ relation.name \notin Tables
    \/ relation.version \notin Branches
    \/ /\ relation.alias = ""
       /\ \E i \in DOMAIN relations : relations[i].name = relation.name
    \/ set_intersection(unbindedColumns, columnNames[relation.name]) # {}
    \/ relation.alias # "" /\ relation.alias \in DOMAIN bindedColumns

isUnbinded_always(relation) == TRUE

isUnbinded(relation) == relation.alias = ""

\* The loop over the relations, one of them at a time.
verify_relation(relation) ==
    /\ phase = "relations"
    /\ Len(relations) < MaxRelations
    /\ relations' = Append(relations, relation)
    /\ fromClause' = Append(fromClause, relation)
    /\ IF relationRefused(relation)
       THEN phase' = "refused" /\ UNCHANGED <<unbindedColumns, bindedColumns>>
       ELSE LET names == ToSet(columnNames[relation.name])
            IN  /\ phase' = "relations"
                /\ IF isUnbinded(relation)
                   THEN /\ unbindedColumns' = unbindedColumns \cup names
                        /\ UNCHANGED bindedColumns
                   ELSE /\ bindedColumns' =
                              [name \in DOMAIN bindedColumns \cup {relation.alias} |->
                                 IF name = relation.alias THEN names ELSE bindedColumns[name]]
                        /\ UNCHANGED unbindedColumns
    /\ UNCHANGED <<columnNames, references, ius, iuOrder, productions, vertices,
                   projectedIUs>>

columnRefused_any_table(column) ==
    ~ \E t \in Tables : column.name \in ToSet(columnNames[t])

\* The checks every column of the statement goes through.
columnRefused(column) ==
    IF column.table = ""
    THEN column.name \notin unbindedColumns
    ELSE \/ column.table \notin DOMAIN bindedColumns
         \/ column.name \notin bindedColumns[column.table]

Kinds == <<"selection", "projection", "join">>
KindRank(kind) == CHOOSE i \in DOMAIN Kinds : Kinds[i] = kind

\* The loops over the selections, the projections and the join conditions.
verify_column(kind, column) ==
    /\ phase \in {"relations", "columns"}
    /\ relations # <<>>
    /\ Len(references) < MaxReferences
    /\ \A i \in DOMAIN references : KindRank(references[i].kind) <= KindRank(kind)
    /\ references' = Append(references, [kind |-> kind, table |-> column.table,
                                         name |-> column.name, iu |-> Unresolved,
                                         written |-> column.table])
    /\ phase' = IF columnRefused(column) THEN "refused" ELSE "columns"
    /\ UNCHANGED <<verified, relations, ius, iuOrder, productions, vertices,
                   projectedIUs, fromClause>>

------------------------------------------------------------------------------
(* constructTree                                                           *)

productionName_of_table(relation) == relation.name

productionName(relation) ==
    IF relation.alias = "" THEN relation.name ELSE relation.alias

\* The relations that are scanned under a name.
ScannedAs(name, names) == {i \in DOMAIN names : names[i] = name}

\* Of two scans under one name, the first is the production (insert does not
\* replace it), the second supplies the columns.
construct_scans ==
    /\ phase \in {"relations", "columns"}
    /\ relations # <<>>
    /\ phase' = "selects"
    /\ LET names == [i \in DOMAIN relations |-> productionName(relations[i])]
           columnsOf(i) == ToSet(columnNames[relations[i].name])
       IN  /\ relations' = [i \in DOMAIN relations |->
                              [relations[i] EXCEPT !.alias = names[i]]]
           /\ ius' = [name \in ToSet(names) |->
                        LET scans == ScannedAs(name, names)
                        IN  [c \in UNION {columnsOf(i) : i \in scans} |->
                               <<Max({i \in scans : c \in columnsOf(i)}), c>>]]
           /\ productions' = [name \in ToSet(names) |->
                                LET i == Min(ScannedAs(name, names))
                                IN  [scan |-> i, branch |-> relations[i].version,
                                     selects |-> <<>>]]
           /\ iuOrder' \in Orders(ToSet(names))
    /\ UNCHANGED <<verified, references, vertices, projectedIUs, fromClause>>

\* The places in the order of the traversal whose names have a column.
PlacesWith(column) == {k \in DOMAIN iuOrder : column \in DOMAIN ius[iuOrder[k]]}

lookUp(table, column) ==
    IF table \in DOMAIN ius /\ column \in DOMAIN ius[table]
    THEN ius[table][column] ELSE NoIU

\* The loops that go on after a match end with the last one.
lastTable(column) ==
    IF PlacesWith(column) = {} THEN "" ELSE iuOrder[Max(PlacesWith(column))]

\* The table of a column of a selection or a join condition.
TableOf(reference) ==
    IF reference.table = "" THEN lastTable(reference.name) ELSE reference.table

Waiting(kind) ==
    {i \in DOMAIN references : references[i].kind = kind /\ references[i].iu = Unresolved}

\* The next column of a kind, with its table and its information unit.
Resolve(i, table) ==
    references' = [references EXCEPT ![i].table = table,
                                     ![i].iu = lookUp(table, references[i].name)]

\* The production a Select operator is put on.
selectedProduction(reference) == TableOf(reference)

construct_select(i) ==
    /\ phase = "selects"
    /\ Waiting("selection") # {} /\ i = Min(Waiting("selection"))
    /\ Resolve(i, TableOf(references[i]))
    /\ productions' =
          [productions EXCEPT ![selectedProduction(references[i])].selects =
              Append(@, lookUp(TableOf(references[i]), references[i].name))]
    /\ UNCHANGED <<verified, phase, relations, ius, iuOrder, vertices,
                   projectedIUs, fromClause>>

\* addVertex moves the production into the graph, and the alias with it.
construct_join_graph ==
    /\ phase = "selects"
    /\ Waiting("selection") = {}
    /\ phase' = "joins"
    /\ vertices' = [name \in {relations[i].alias : i \in DOMAIN relations} |->
                      productions[name]]
    /\ productions' = NoFunction
    /\ relations' = [i \in DOMAIN relations |-> [relations[i] EXCEPT !.alias = ""]]
    /\ UNCHANGED <<verified, references, ius, iuOrder, projectedIUs, fromClause>>

joinedColumn(i) ==
    /\ phase = "joins"
    /\ Waiting("join") # {} /\ i = Min(Waiting("join"))
    /\ Resolve(i, TableOf(references[i]))
    /\ UNCHANGED <<verified, phase, relations, ius, iuOrder, productions, vertices,
                   projectedIUs, fromClause>>

\* AnalyzingContext::getUniqueColumnIU
getUniqueColumnIU(column) ==
    IF PlacesWith(column) = {} THEN NoIU ELSE ius[iuOrder[Min(PlacesWith(column))]][column]

\* The projection of a column.
project(i) ==
    /\ phase = "joins"
    /\ Waiting("join") = {}
    /\ Waiting("projection") # {} /\ i = Min(Waiting("projection"))
    /\ LET iu == IF references[i].table = ""
                 THEN getUniqueColumnIU(references[i].name)
                 ELSE lookUp(references[i].table, references[i].name)
       IN  /\ references' = [references EXCEPT ![i].iu = iu]
           /\ projectedIUs' = projectedIUs \cup {iu}
    /\ UNCHANGED <<verified, phase, relations, ius, iuOrder, productions, vertices,
                   fromClause>>

\* SELECT *: all columns of the production of every relation.
starProjections ==
    LET names == {productionName(relations[i]) : i \in DOMAIN relations}
    IN  UNION {{ius[name][c] : c \in DOMAIN ius[name]} : name \in names \cap DOMAIN ius}

Projections == {i \in DOMAIN references : references[i].kind = "projection"}

constructResult ==
    /\ phase = "joins"
    /\ Waiting("join") = {} /\ Waiting("projection") = {}
    /\ phase' = "done"
    /\ projectedIUs' = IF Projections = {} THEN starProjections ELSE projectedIUs
    /\ UNCHANGED <<verified, relations, references, ius, iuOrder, productions,
                   vertices, fromClause>>

------------------------------------------------------------------------------
FromTable == [name : Tables \cup Bindings, alias : Bindings \cup {""},
             version : Versions]
Column == [table : Bindings \cup {""}, name : Columns]

BindingNext ==
    \/ \E relation \in FromTable : verify_relation(relation)
    \/ \E kind \in ToSet(Kinds), column \in Column : verify_column(kind, column)
    \/ construct_scans
    \/ \E i \in DOMAIN references : construct_select(i)
    \/ construct_join_graph
    \/ \E i \in DOMAIN references : joinedColumn(i)
    \/ \E i \in DOMAIN references : project(i)
    \/ constructResult

BindingSpec == BindingInit /\ [][BindingNext]_bindingVars

------------------------------------------------------------------------------
(* Properties                                                              *)

Constructed == phase \in {"selects", "joins", "done"}
Done == phase = "done"

Unaliased(i) == fromClause[i].alias = ""
goesBy(i) == IF Unaliased(i) THEN fromClause[i].name ELSE fromClause[i].alias
HasColumn(i, c) == c \in ToSet(columnNames[relations[i].name])

\* No alias is the name of another table of the query.
NamesDistinct ==
    \A i, j \in DOMAIN fromClause : goesBy(i) = goesBy(j) => i = j

\* Every column of a statement that has passed verify is found when the tree
\* is built: no null information unit gets into an expression.  SELECT * has
\* the columns of all relations that have no alias.
AcceptedColumnsFound ==
    Done =>
        /\ \A i \in DOMAIN references :
              /\ references[i].iu # NoIU
              /\ references[i].iu[2] = references[i].name
        /\ NamesDistinct /\ Projections = {} =>
              \A i \in DOMAIN relations : Unaliased(i) =>
                  \A c \in ToSet(columnNames[relations[i].name]) : <<i, c>> \in projectedIUs

Unambiguous(c) == Cardinality({i \in DOMAIN relations : HasColumn(i, c)}) = 1

\* A column with a binding comes from the relation with that alias, one without
\* from a relation without alias unless several relations have such a column;
\* and a Select operator stands on the scan that produces its column, however
\* the look-up of the column and of the production traverse the maps.
ResolvedInItsRelation ==
    /\ Done => \A i \in DOMAIN references :
          LET column == references[i]
              scan == column.iu[1]
          IN  IF column.written # ""
              THEN goesBy(scan) = column.written
              ELSE Unambiguous(column.name) => Unaliased(scan)
    /\ NamesDistinct =>
          \A name \in DOMAIN vertices : \A k \in DOMAIN vertices[name].selects :
              vertices[name].selects[k][1] = vertices[name].scan

UnqualifiedNames ==
    {references[i].name : i \in {j \in DOMAIN references : references[j].written = ""}}

\* If the columns of every table were declared in alphabetical order and the
\* relations with aliases come last, a column without a binding that has passed
\* verify belongs to one relation only.
SortedColumnsAreUnambiguous ==
    /\ Constructed
    /\ \A t \in Tables : \A k \in 1 .. Len(columnNames[t]) - 1 :
          columnNames[t][k] < columnNames[t][k + 1]
    /\ \A i \in 1 .. Len(relations) - 1 : Unaliased(i + 1) => Unaliased(i)
    => \A c \in UnqualifiedNames : Unambiguous(c)

\* Every relation of the query is a vertex of the join graph and is read in its
\* own branch, a table that occurs twice under two aliases included.
DistinctRelationsAreScanned ==
    (phase \in {"joins", "done"} /\ NamesDistinct) =>
        {<<vertices[name].scan, vertices[name].branch>> : name \in DOMAIN vertices} =
            {<<i, fromClause[i].version>> : i \in DOMAIN fromClause}
==============================================================================
