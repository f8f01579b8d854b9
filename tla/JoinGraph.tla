----------------------------- MODULE JoinGraph ------------------------------
(***************************************************************************)
(* How SelectAnalyser.cpp turns the join conditions of a query into a tree *)
(* of joins: construct_join_graph collects one edge per pair of tables,    *)
(* and construct_join walks the graph depth first, joining every table it  *)
(* reaches to the tree built so far.                                       *)
(*                                                                         *)
(* construct_join hands strings on by reference, and the model keeps these *)
(* references: the name of the neighbouring vertex is a reference to the   *)
(* uID of the edge, so choosing the other end of the edge overwrites uID,  *)
(* and so does it, for a vertex entered through that very edge, overwrite  *)
(* the name the vertex is known by.                                        *)
(***************************************************************************)
EXTENDS Naturals, Sequences, FiniteSetsExt

CONSTANTS Tables,          \* the relations of the query, by alias
          MaxConditions    \* bounds the conditions of the query

ASSUME ConditionsAssumption == MaxConditions \in Nat

NoTable == "none"

ASSUME TablesAssumption == NoTable \notin Tables

VARIABLES
    conditions,   \* stmt->joinConditions, as pairs of tables
    edges,        \* JoinGraph::edges; expressions are numbers of conditions
    visited,      \* the vertices marked as visited
    joinedTree,   \* the joins from the innermost to the root
    frames,       \* the activations of construct_join, the caller first
    first         \* firstVertexName, or NoTable before construct_joins

vars == <<conditions, edges, visited, joinedTree, frames, first>>

------------------------------------------------------------------------------
Connects(edge, v, u) ==
    \/ edge.vID = v /\ edge.uID = u
    \/ edge.vID = u /\ edge.uID = v

hasEdge(v, u) == \E e \in DOMAIN edges : Connects(edges[e], v, u)

\* The first edge between v and u.
getEdge(v, u) == Min({e \in DOMAIN edges : Connects(edges[e], v, u)})

getConnectedEdges_all(graph, name) == DOMAIN graph

\* The edges at a vertex.  construct_join takes them in the order they were
\* added, which is the order of their numbers.
getConnectedEdges(graph, name) ==
    {e \in DOMAIN graph : graph[e].vID = name \/ graph[e].uID = name}

\* What a reference to a name refers to: the uID of edge ref, or, for
\* FirstVertexName, the local variable of construct_joins.
FirstVertexName == 0
Deref(ref, graph) ==
    IF ref = FirstVertexName THEN first ELSE graph[ref].uID

Init ==
    /\ conditions = <<>>
    /\ edges = <<>>
    /\ visited = {}
    /\ joinedTree = <<>>
    /\ frames = <<>>
    /\ first = NoTable

\* construct_join_graph, one round of its loop: a further condition between
\* two tables that have an edge goes to that edge, whatever its direction.
construct_join_graph(v, u) ==
    LET condition == Len(conditions) + 1
    IN  /\ first = NoTable
        /\ Len(conditions) < MaxConditions
        /\ conditions' = Append(conditions, <<v, u>>)
        /\ edges' = IF hasEdge(v, u)
                    THEN [edges EXCEPT ![getEdge(v, u)].expressions =
                                           @ \cup {condition}]
                    ELSE Append(edges, [vID |-> v, uID |-> u,
                                        expressions |-> {condition}])
        /\ UNCHANGED <<visited, joinedTree, frames, first>>

\* construct_joins starts at the first vertex of an unordered map, and the
\* production of that vertex is the first tree.
construct_joins(vertex) ==
    /\ first = NoTable
    /\ first' = vertex
    /\ visited' = {vertex}
    /\ joinedTree' = <<[table |-> vertex, expressions |-> {}, onLeft |-> FALSE]>>
    /\ frames' = <<[vertexName |-> FirstVertexName,
                    edges |-> getConnectedEdges(edges, vertex)]>>
    /\ UNCHANGED <<conditions, edges>>

------------------------------------------------------------------------------
(* construct_join, one round of its loop over the connected edges          *)

frame == frames[Len(frames)]
edge == Min(frame.edges)

neighboringVertexName_is_uID(name) == edges[edge].uID
neighboringVertexName(name) ==
    IF name # edges[edge].vID THEN edges[edge].vID ELSE edges[edge].uID

\* The edges once neighboringVertexName, a reference to uID, is assigned.
EdgesAssigned ==
    [edges EXCEPT ![edge].uID =
        neighboringVertexName(Deref(frame.vertexName, edges))]

markVisited(name) == visited' = visited \cup {name}

alreadyVisited(name) == name \in visited

LoopRemaining_same_edge == frames

\* The activations when the loop of the last one has moved to the next edge.
LoopRemaining ==
    [frames EXCEPT ![Len(frames)].edges = @ \ {edge}]

discard_edge ==
    /\ frames # <<>> /\ frame.edges # {}
    /\ alreadyVisited(EdgesAssigned[edge].uID)
    /\ edges' = EdgesAssigned
    /\ frames' = LoopRemaining
    /\ UNCHANGED <<conditions, visited, joinedTree, first>>

\* Join the neighbour and call construct_join for it: mark it as visited and
\* look up its edges.
join_neighbor ==
    LET neighbor == EdgesAssigned[edge].uID
        reversed == Deref(frame.vertexName, EdgesAssigned) # EdgesAssigned[edge].vID
    IN  /\ frames # <<>> /\ frame.edges # {}
        /\ ~ alreadyVisited(neighbor)
        /\ joinedTree' = Append(joinedTree,
                                [table |-> neighbor,
                                 expressions |-> edges[edge].expressions,
                                 onLeft |-> reversed])
        /\ edges' = [EdgesAssigned EXCEPT ![edge].expressions = {}]
        /\ markVisited(neighbor)
        /\ frames' = Append(LoopRemaining,
                            [vertexName |-> edge,
                             edges |-> getConnectedEdges(EdgesAssigned, neighbor)])
        /\ UNCHANGED <<conditions, first>>

return ==
    /\ frames # <<>> /\ frame.edges = {}
    /\ frames' = SubSeq(frames, 1, Len(frames) - 1)
    /\ UNCHANGED <<conditions, edges, visited, joinedTree, first>>

Next ==
    \/ \E v, u \in Tables : construct_join_graph(v, u)
    \/ \E vertex \in Tables : construct_joins(vertex)
    \/ discard_edge
    \/ join_neighbor
    \/ return

\* Once it has been called, construct_join runs on.
Fairness == WF_vars(discard_edge \/ join_neighbor \/ return)

Spec == Init /\ [][Next]_vars /\ Fairness

------------------------------------------------------------------------------
(* Properties                                                              *)

Done == first # NoTable /\ frames = <<>>

\* The tables below the join at position i of the tree.
TablesBelow(i) == {joinedTree[j].table : j \in 1 .. i - 1}

\* Although uID and vertexName are overwritten on the way, every join adds a
\* table whose production has not been moved into the tree before, it has a
\* condition, and each of its conditions is between the table it adds and a
\* table below it: no join degenerates into a cross product, and none
\* compares a column that its children do not produce.
JoinsHaveConditions ==
    \A i \in 2 .. Len(joinedTree) :
        /\ joinedTree[i].table \notin TablesBelow(i)
        /\ joinedTree[i].expressions # {}
        /\ \A c \in joinedTree[i].expressions :
              \E below \in TablesBelow(i) :
                  \/ conditions[c] = <<joinedTree[i].table, below>>
                  \/ conditions[c] = <<below, joinedTree[i].table>>

\* At the end every table with a condition to the table construct_joins
\* started with is in the tree.
FirstVertexJoinsNeighbors ==
    Done =>
        \A c \in DOMAIN conditions :
            /\ conditions[c][1] = first => conditions[c][2] \in visited
            /\ conditions[c][2] = first => conditions[c][1] \in visited

\* construct_join returns: the overwritten names never send it round a cycle
\* of the graph.
JoiningTerminates == (first # NoTable) ~> Done

\* The conditions connect all tables: none can be split off.
Connected ==
    \A S \in SUBSET Tables \ {{}, Tables} :
        \E c \in DOMAIN conditions :
            (conditions[c][1] \in S) # (conditions[c][2] \in S)

\* The error "no or more than one root found" is the only way not to join: a
\* query whose conditions connect its tables gets a tree with all of them.
OneRootJoinsAllTables == Done /\ Connected => visited = Tables
==============================================================================
