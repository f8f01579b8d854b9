--------------------------- MODULE JoinProofs ---------------------------
(***************************************************************************)
(* Proofs about joins: the order of the joins, then the hash join.         *)
(*                                                                         *)
(* For construct_join, for every set of tables and any number of           *)
(* conditions: each join has a condition of its own, and the neighbours of *)
(* the vertex it starts with are joined.                                   *)
(*                                                                         *)
(* Both rest on what survives of an edge whose uID is overwritten.  Until  *)
(* then the edge holds conditions between its ends; afterwards both of the *)
(* names that are left have been visited, and the edge is never joined.    *)
(***************************************************************************)
EXTENDS JoinGraph, QueryExecution, Lemmas, FiniteSetTheorems, TLAPS

Edges == [vID : Tables, uID : Tables, expressions : SUBSET Nat]
Joins == [table : Tables, expressions : SUBSET Nat, onLeft : BOOLEAN]
Frames == [vertexName : Nat, edges : SUBSET Nat]

Types ==
    /\ conditions \in Seq(Tables \X Tables)
    /\ edges \in Seq(Edges)
    /\ visited \in SUBSET Tables
    /\ joinedTree \in Seq(Joins)
    /\ frames \in Seq(Frames)
    /\ first \in Tables \cup {NoTable}

\* The activations refer to edges there are.
References ==
    \A k \in DOMAIN frames :
        /\ frames[k].edges \subseteq DOMAIN edges
        /\ frames[k].vertexName \in {FirstVertexName} \cup DOMAIN edges

\* Nothing is joined before construct_joins.
NotStarted == first = NoTable => visited = {} /\ joinedTree = <<>> /\ frames = <<>>

\* The vertices that were visited are the tables of the tree.
VisitedAreJoined == visited = {joinedTree[j].table : j \in DOMAIN joinedTree}

\* The conditions of an edge are between its ends, and there is one.
Intact(e) ==
    /\ edges[e].expressions # {}
    /\ \A c \in edges[e].expressions :
          \/ conditions[c] = <<edges[e].vID, edges[e].uID>>
          \/ conditions[c] = <<edges[e].uID, edges[e].vID>>

\* An edge that was overwritten or joined leads nowhere new.
EdgesIntactOrUsed ==
    \A e \in DOMAIN edges :
        /\ edges[e].expressions \subseteq DOMAIN conditions
        /\ Intact(e) \/ {edges[e].vID, edges[e].uID} \subseteq visited

\* The edges an activation has left to take start at a table of the tree.
EdgesReached ==
    \A k \in DOMAIN frames : \A e \in frames[k].edges :
        edges[e].vID \in visited \/ edges[e].uID \in visited

JoinInv ==
    /\ Types /\ References /\ NotStarted /\ VisitedAreJoined
    /\ EdgesIntactOrUsed /\ EdgesReached /\ JoinsHaveConditions

------------------------------------------------------------------------------
(* The operators                                                           *)

\* A set of numbers that is not empty has the minimum Min chooses.
LEMMA MinIsMember ==
    ASSUME NEW S \in SUBSET Nat, S # {}
    PROVE  Min(S) \in S
<1>1. PICK m \in S : \A n \in S : m <= n
  BY LeastNumber
<1> QED
  BY <1>1 DEF Min

\* getEdge finds the edge hasEdge has seen.
LEMMA EdgeFound ==
    ASSUME Types, NEW v, NEW u, hasEdge(v, u)
    PROVE  getEdge(v, u) \in DOMAIN edges /\ Connects(edges[getEdge(v, u)], v, u)
<1> DEFINE S == {e \in DOMAIN edges : Connects(edges[e], v, u)}
<1>1. S \in SUBSET Nat /\ S # {}
  BY DEF Types, hasEdge
<1>2. Min(S) \in S
  <2> HIDE DEF S
  <2> QED
    BY <1>1, MinIsMember
<1> QED
  BY <1>2 DEF getEdge

\* An assignment to uID.
LEMMA RenamedEdge ==
    ASSUME NEW r \in Edges, NEW n \in Tables
    PROVE  /\ [r EXCEPT !.uID = n] \in Edges
           /\ [r EXCEPT !.uID = n].vID = r.vID
           /\ [r EXCEPT !.uID = n].uID = n
           /\ [r EXCEPT !.uID = n].expressions = r.expressions
           /\ n = r.uID => [r EXCEPT !.uID = n] = r
BY DEF Edges

\* One turn of the loop of construct_join: it takes an edge that the last
\* activation has left, and what it assigns to uID is vID or was uID before.
LEMMA EdgeTaken ==
    ASSUME Types, References, frames # <<>>, frame.edges # {}
    PROVE  /\ Len(frames) \in DOMAIN frames /\ frame \in Frames
           /\ edge \in frame.edges /\ edge \in DOMAIN edges
           /\ EdgesAssigned \in Seq(Edges) /\ DOMAIN EdgesAssigned = DOMAIN edges
           /\ \A e \in DOMAIN edges :
                 /\ EdgesAssigned[e].vID = edges[e].vID
                 /\ EdgesAssigned[e].expressions = edges[e].expressions
                 /\ e # edge => EdgesAssigned[e] = edges[e]
           /\ EdgesAssigned[edge].uID \in Tables
           /\ \/ EdgesAssigned[edge].uID = edges[edge].vID
              \/ EdgesAssigned[edge] = edges[edge]
           /\ Deref(frame.vertexName, edges) = edges[edge].vID =>
                 EdgesAssigned[edge] = edges[edge]
           /\ Deref(frame.vertexName, edges) # edges[edge].vID =>
                 EdgesAssigned[edge].uID = edges[edge].vID
<1>1. Len(frames) \in DOMAIN frames /\ frame \in Frames
  BY DEF Types, frame
<1>2. edge \in frame.edges
  BY <1>1, MinIsMember DEF edge, Frames
<1>3. edge \in DOMAIN edges
  BY <1>1, <1>2 DEF References, frame
<1>4. PICK n : n = neighboringVertexName(Deref(frame.vertexName, edges))
  OBVIOUS
<1>5. edges[edge] \in Edges
  BY <1>3 DEF Types
<1>6. /\ n \in Tables
      /\ Deref(frame.vertexName, edges) = edges[edge].vID => n = edges[edge].uID
      /\ Deref(frame.vertexName, edges) # edges[edge].vID => n = edges[edge].vID
  BY <1>4, <1>5 DEF neighboringVertexName, Edges
<1>7. EdgesAssigned = [edges EXCEPT ![edge].uID = n]
  BY <1>4 DEF EdgesAssigned
<1>8. edges \in [1 .. Len(edges) -> Edges] /\ Len(edges) \in Nat
  BY DEF Types
<1>9. PICK r : r = [edges[edge] EXCEPT !.uID = n]
  OBVIOUS
<1>10. /\ r \in Edges
       /\ r.vID = edges[edge].vID /\ r.uID = n
       /\ r.expressions = edges[edge].expressions
       /\ n = edges[edge].uID => r = edges[edge]
  BY <1>5, <1>6, <1>9, RenamedEdge
<1>11. EdgesAssigned = [edges EXCEPT ![edge] = r]
  BY <1>3, <1>7, <1>8, <1>9
<1>12. /\ EdgesAssigned \in Seq(Edges) /\ DOMAIN EdgesAssigned = DOMAIN edges
       /\ EdgesAssigned[edge] = r
       /\ \A e \in DOMAIN edges : e # edge => EdgesAssigned[e] = edges[e]
  BY <1>3, <1>8, <1>10, <1>11 DEF Types
<1> QED
  BY <1>1, <1>2, <1>3, <1>6, <1>10, <1>12

------------------------------------------------------------------------------
(* Every join has a condition                                              *)

\* The other changes to an edge: a further condition, and moving all of them
\* into the join.
LEMMA EdgeWithExpressions ==
    ASSUME NEW r \in Edges, NEW x \in SUBSET Nat
    PROVE  /\ [r EXCEPT !.expressions = x] \in Edges
           /\ [r EXCEPT !.expressions = x].vID = r.vID
           /\ [r EXCEPT !.expressions = x].uID = r.uID
           /\ [r EXCEPT !.expressions = x].expressions = x
BY DEF Edges

\* construct_join_graph gives the condition to the edge between its tables,
\* and no other edge changes.
LEMMA ConditionAdded ==
    ASSUME Types, NEW v \in Tables, NEW u \in Tables, construct_join_graph(v, u)
    PROVE  /\ conditions' \in Seq(Tables \X Tables)
           /\ DOMAIN conditions' = 1 .. Len(conditions) + 1
           /\ conditions'[Len(conditions) + 1] = <<v, u>>
           /\ \A c \in DOMAIN conditions : conditions'[c] = conditions[c]
           /\ edges' \in Seq(Edges) /\ DOMAIN edges \subseteq DOMAIN edges'
           /\ \E g \in DOMAIN edges' :
                 /\ Connects(edges'[g], v, u)
                 /\ edges'[g].expressions =
                       {Len(conditions) + 1}
                          \cup (IF g \in DOMAIN edges THEN edges[g].expressions ELSE {})
                 /\ g \in DOMAIN edges => /\ edges'[g].vID = edges[g].vID
                                          /\ edges'[g].uID = edges[g].uID
                 /\ \A e \in DOMAIN edges' \ {g} :
                       e \in DOMAIN edges /\ edges'[e] = edges[e]
<1> DEFINE c == Len(conditions) + 1
<1>1. c \in Nat /\ conditions' = Append(conditions, <<v, u>>)
  BY DEF Types, construct_join_graph
<1>2. /\ conditions' \in Seq(Tables \X Tables)
      /\ DOMAIN conditions' = 1 .. c
      /\ conditions'[c] = <<v, u>>
      /\ \A d \in DOMAIN conditions : conditions'[d] = conditions[d]
  BY <1>1 DEF Types
<1> HIDE DEF c
<1>3. Len(edges) \in Nat /\ edges \in [1 .. Len(edges) -> Edges]
  BY DEF Types
<1>4. CASE hasEdge(v, u)
  <2>1. PICK g : g = getEdge(v, u)
    OBVIOUS
  <2>2. g \in DOMAIN edges /\ Connects(edges[g], v, u) /\ edges[g] \in Edges
    BY <1>3, <1>4, <2>1, EdgeFound
  <2>3. PICK x : x = edges[g].expressions \cup {c}
    OBVIOUS
  <2>4. PICK r : r = [edges[g] EXCEPT !.expressions = x]
    OBVIOUS
  <2>5. edges' = [edges EXCEPT ![g] = r]
    BY <1>4, <2>1, <2>3, <2>4 DEF construct_join_graph, c
  <2>6. x \in SUBSET Nat
    BY <1>1, <2>2, <2>3 DEF Edges
  <2>7. r \in Edges /\ r.vID = edges[g].vID /\ r.uID = edges[g].uID /\ r.expressions = x
    BY <2>2, <2>4, <2>6, EdgeWithExpressions
  <2>8. /\ edges' \in Seq(Edges) /\ DOMAIN edges' = DOMAIN edges
        /\ edges'[g] = r /\ \A e \in DOMAIN edges \ {g} : edges'[e] = edges[e]
    BY <1>3, <2>2, <2>5, <2>7 DEF Types
  <2> QED
    BY <1>2, <2>2, <2>3, <2>7, <2>8 DEF Connects, c
<1>5. CASE ~ hasEdge(v, u)
  <2>1. PICK r : r = [vID |-> v, uID |-> u, expressions |-> {c}]
    OBVIOUS
  <2>2. r \in Edges /\ r.vID = v /\ r.uID = u /\ r.expressions = {c}
    BY <1>1, <2>1 DEF Edges
  <2>3. edges' = Append(edges, r)
    BY <1>5, <2>1 DEF construct_join_graph, c
  <2>4. PICK g : g = Len(edges) + 1
    OBVIOUS
  <2>5. /\ edges' \in Seq(Edges) /\ DOMAIN edges' = 1 .. g /\ g \in Nat
        /\ DOMAIN edges = 1 .. g - 1
        /\ edges'[g] = r /\ \A e \in DOMAIN edges : edges'[e] = edges[e]
    BY <1>3, <2>2, <2>3, <2>4 DEF Types
  <2>6. g \in DOMAIN edges' /\ g \notin DOMAIN edges /\ DOMAIN edges \subseteq DOMAIN edges'
        /\ DOMAIN edges' \ {g} = DOMAIN edges
    BY <1>3, <2>4, <2>5
  <2> QED
    BY <1>2, <2>2, <2>5, <2>6 DEF Connects, c
<1> QED
  BY <1>4, <1>5

\* construct_join_graph leaves every edge with conditions between its ends.
LEMMA GraphStep ==
    ASSUME JoinInv, NEW v \in Tables, NEW u \in Tables, construct_join_graph(v, u)
    PROVE  JoinInv'
<1>1. Types /\ visited = {} /\ joinedTree = <<>> /\ frames = <<>>
  BY DEF JoinInv, NotStarted, construct_join_graph
<1>2. UNCHANGED <<visited, joinedTree, frames, first>>
  BY DEF construct_join_graph
<1>3. Types'
  BY <1>1, <1>2, ConditionAdded DEF Types
<1>4. References' /\ NotStarted' /\ VisitedAreJoined' /\ EdgesReached'
  BY <1>1, <1>2 DEF References, NotStarted, VisitedAreJoined, EdgesReached
<1>5. JoinsHaveConditions'
  BY <1>1, <1>2 DEF JoinsHaveConditions
<1>6. \A e \in DOMAIN edges : edges[e].expressions \subseteq DOMAIN conditions /\ Intact(e)
  BY <1>1 DEF JoinInv, EdgesIntactOrUsed
<1>7. PICK g \in DOMAIN edges' :
        /\ Connects(edges'[g], v, u)
        /\ edges'[g].expressions =
              {Len(conditions) + 1} \cup (IF g \in DOMAIN edges THEN edges[g].expressions ELSE {})
        /\ g \in DOMAIN edges => edges'[g].vID = edges[g].vID /\ edges'[g].uID = edges[g].uID
        /\ \A e \in DOMAIN edges' \ {g} : e \in DOMAIN edges /\ edges'[e] = edges[e]
  BY <1>1, ConditionAdded
<1>8. /\ DOMAIN conditions \subseteq DOMAIN conditions'
      /\ Len(conditions) + 1 \in DOMAIN conditions'
      /\ conditions'[Len(conditions) + 1] = <<v, u>>
      /\ \A c \in DOMAIN conditions : conditions'[c] = conditions[c]
  <2>1. Len(conditions) \in Nat /\ DOMAIN conditions = 1 .. Len(conditions)
    BY <1>1 DEF Types
  <2> QED
    BY <1>1, <2>1, ConditionAdded
<1>9. ASSUME NEW e \in DOMAIN edges'
      PROVE  edges'[e].expressions \subseteq DOMAIN conditions' /\ Intact(e)'
  <2>1. CASE e = g
    <3>1. edges'[g].expressions \subseteq DOMAIN conditions' /\ edges'[g].expressions # {}
      BY <1>6, <1>7, <1>8
    <3>2. ASSUME NEW c \in edges'[g].expressions
          PROVE  \/ conditions'[c] = <<edges'[g].vID, edges'[g].uID>>
                 \/ conditions'[c] = <<edges'[g].uID, edges'[g].vID>>
      <4>1. CASE c = Len(conditions) + 1
        BY <1>7, <1>8, <4>1 DEF Connects
      <4>2. CASE g \in DOMAIN edges /\ c \in edges[g].expressions
        BY <1>6, <1>7, <1>8, <4>2 DEF Intact
      <4> QED
        BY <1>7, <4>1, <4>2
    <3> QED
      BY <2>1, <3>1, <3>2 DEF Intact
  <2>2. CASE e # g
    <3>1. e \in DOMAIN edges /\ edges'[e] = edges[e]
      BY <1>7, <2>2
    <3> QED
      BY <1>6, <1>8, <3>1 DEF Intact
  <2> QED
    BY <2>1, <2>2
<1>10. EdgesIntactOrUsed'
  BY <1>9 DEF EdgesIntactOrUsed
<1> QED
  BY <1>3, <1>4, <1>5, <1>10 DEF JoinInv

\* The loop of the last activation moves on, and the callers stay.
LEMMA LoopAdvanced ==
    ASSUME Types, References, frames # <<>>, frame.edges # {}
    PROVE  /\ LoopRemaining \in Seq(Frames) /\ DOMAIN LoopRemaining = DOMAIN frames
           /\ Len(LoopRemaining) = Len(frames)
           /\ \A k \in DOMAIN frames :
                 /\ LoopRemaining[k].vertexName = frames[k].vertexName
                 /\ LoopRemaining[k].edges \subseteq frames[k].edges
                 /\ \/ LoopRemaining[k] = frames[k]
                    \/ k = Len(frames) /\ LoopRemaining[k].edges = frames[k].edges \ {edge}
<1>1. PICK n : n = Len(frames)
  OBVIOUS
<1>2. n \in DOMAIN frames /\ frames[n] \in Frames
  BY <1>1, EdgeTaken DEF frame
<1>3. PICK f : f = [frames[n] EXCEPT !.edges = @ \ {edge}]
  OBVIOUS
<1>4. f \in Frames /\ f.vertexName = frames[n].vertexName /\ f.edges = frames[n].edges \ {edge}
  BY <1>2, <1>3 DEF Frames
<1>5. LoopRemaining = [frames EXCEPT ![n] = f]
  BY <1>1, <1>3 DEF LoopRemaining
<1>6. /\ LoopRemaining \in Seq(Frames) /\ DOMAIN LoopRemaining = DOMAIN frames
      /\ Len(LoopRemaining) = Len(frames)
      /\ LoopRemaining[n] = f /\ \A k \in DOMAIN frames \ {n} : LoopRemaining[k] = frames[k]
  BY <1>2, <1>4, <1>5 DEF Types
<1> QED
  BY <1>1, <1>2, <1>4, <1>6

\* construct_joins enters the first vertex.
LEMMA StartStep ==
    ASSUME JoinInv, NEW vertex \in Tables, construct_joins(vertex)
    PROVE  JoinInv'
<1>1. Types /\ visited = {} /\ joinedTree = <<>> /\ frames = <<>> /\ Len(edges) \in Nat
  BY DEF JoinInv, NotStarted, construct_joins, Types
<1>2. PICK root, f : /\ root = [table |-> vertex, expressions |-> {}, onLeft |-> FALSE]
                     /\ f = [vertexName |-> FirstVertexName,
                             edges |-> getConnectedEdges(edges, vertex)]
  OBVIOUS
<1>3. root \in Joins /\ root.table = vertex
  BY <1>2 DEF Joins
<1>4. /\ f \in Frames /\ f.vertexName = FirstVertexName
      /\ f.edges = {e \in DOMAIN edges : edges[e].vID = vertex \/ edges[e].uID = vertex}
  BY <1>1, <1>2 DEF Frames, FirstVertexName, getConnectedEdges, Types
<1>5. /\ first' = vertex /\ visited' = {vertex} /\ joinedTree' = <<root>> /\ frames' = <<f>>
      /\ UNCHANGED <<conditions, edges>>
  BY <1>2 DEF construct_joins
<1>6. Types'
  BY <1>1, <1>3, <1>4, <1>5 DEF Types
<1>7. DOMAIN frames' = {1} /\ frames'[1] = f /\ DOMAIN joinedTree' = {1} /\ joinedTree'[1] = root
      /\ Len(joinedTree') = 1
  BY <1>5
<1>8. References' /\ NotStarted' /\ VisitedAreJoined' /\ EdgesReached'
  <2>1. References'
    BY <1>4, <1>5, <1>7 DEF References
  <2>2. NotStarted'
    BY <1>5, TablesAssumption DEF NotStarted
  <2>3. VisitedAreJoined'
    BY <1>3, <1>5, <1>7 DEF VisitedAreJoined
  <2>4. EdgesReached'
    BY <1>4, <1>5, <1>7 DEF EdgesReached
  <2> QED
    BY <2>1, <2>2, <2>3, <2>4
<1>9. JoinsHaveConditions'
  BY <1>7 DEF JoinsHaveConditions
<1>10. EdgesIntactOrUsed'
  BY <1>1, <1>5 DEF JoinInv, EdgesIntactOrUsed, Intact
<1> QED
  BY <1>6, <1>8, <1>9, <1>10 DEF JoinInv

\* The joins keep their conditions while the tree stays.
LEMMA SameTreeConditions ==
    ASSUME JoinsHaveConditions, UNCHANGED <<joinedTree, conditions>>
    PROVE  JoinsHaveConditions'
<1>1. \A i : TablesBelow(i)' = TablesBelow(i)
  BY DEF TablesBelow
<1> QED
  BY <1>1 DEF JoinsHaveConditions

\* A vertex that is visited already: its edge may lose a name, and then both
\* of the names that are left have been visited.
LEMMA DiscardStep ==
    ASSUME JoinInv, discard_edge
    PROVE  JoinInv'
<1>1. Types /\ References /\ frames # <<>> /\ frame.edges # {}
  BY DEF JoinInv, discard_edge
<1>2. /\ UNCHANGED <<conditions, visited, joinedTree, first>>
      /\ EdgesAssigned[edge].uID \in visited
      /\ edges' = EdgesAssigned /\ frames' = LoopRemaining
  BY DEF discard_edge, alreadyVisited
<1>3. /\ edges' \in Seq(Edges) /\ DOMAIN edges' = DOMAIN edges
      /\ \A e \in DOMAIN edges : /\ edges'[e].vID = edges[e].vID
                                 /\ edges'[e].expressions = edges[e].expressions
                                 /\ e # edge => edges'[e] = edges[e]
      /\ edges'[edge].uID \in visited
      /\ edges'[edge].uID = edges[edge].vID \/ edges'[edge] = edges[edge]
  BY <1>1, <1>2, EdgeTaken
<1>4. /\ frames' \in Seq(Frames) /\ DOMAIN frames' = DOMAIN frames
      /\ \A k \in DOMAIN frames : /\ frames'[k].vertexName = frames[k].vertexName
                                  /\ frames'[k].edges \subseteq frames[k].edges
  BY <1>1, <1>2, LoopAdvanced
<1>5. Types'
  BY <1>1, <1>2, <1>3, <1>4 DEF Types
<1>6. References'
  BY <1>1, <1>3, <1>4 DEF References
<1>7. NotStarted'
  BY <1>1, <1>2 DEF JoinInv, NotStarted
<1>8. VisitedAreJoined'
  BY <1>2 DEF JoinInv, VisitedAreJoined
<1>9. EdgesIntactOrUsed'
  <2>1. ASSUME NEW e \in DOMAIN edges
        PROVE  Intact(e)' \/ {edges'[e].vID, edges'[e].uID} \subseteq visited
    <3>1. CASE edges'[e] = edges[e]
      BY <1>2, <3>1 DEF JoinInv, EdgesIntactOrUsed, Intact
    <3>2. CASE e = edge /\ edges'[edge].uID = edges[edge].vID
      BY <1>3, <3>2
    <3> QED
      BY <1>3, <3>1, <3>2
  <2> QED
    BY <1>2, <1>3, <2>1 DEF JoinInv, EdgesIntactOrUsed
<1>10. EdgesReached'
  <2>1. ASSUME NEW k \in DOMAIN frames', NEW e \in frames'[k].edges
        PROVE  edges'[e].vID \in visited' \/ edges'[e].uID \in visited'
    <3>1. k \in DOMAIN frames /\ e \in frames[k].edges /\ e \in DOMAIN edges
      BY <1>1, <1>4 DEF References
    <3> QED
      BY <1>2, <1>3, <3>1 DEF JoinInv, EdgesReached
  <2> QED
    BY <2>1 DEF EdgesReached
<1>11. JoinsHaveConditions'
  BY <1>2, SameTreeConditions DEF JoinInv
<1> QED
  BY <1>5, <1>6, <1>7, <1>8, <1>9, <1>10, <1>11 DEF JoinInv

\* The end of an activation.
LEMMA ReturnStep ==
    ASSUME JoinInv, return
    PROVE  JoinInv'
<1>1. /\ UNCHANGED <<conditions, edges, visited, joinedTree, first>>
      /\ frames # <<>> /\ frames' = SubSeq(frames, 1, Len(frames) - 1)
      /\ frames \in Seq(Frames)
  BY DEF JoinInv, Types, return
<1>2. /\ frames' \in Seq(Frames)
      /\ DOMAIN frames' \subseteq DOMAIN frames
      /\ \A k \in DOMAIN frames' : frames'[k] = frames[k]
  BY <1>1
<1>3. Types'
  BY <1>1, <1>2 DEF JoinInv, Types
<1>4. References' /\ EdgesReached'
  BY <1>1, <1>2 DEF JoinInv, References, EdgesReached
<1>5. NotStarted' /\ VisitedAreJoined'
  BY <1>1 DEF JoinInv, NotStarted, VisitedAreJoined
<1>6. EdgesIntactOrUsed'
  BY <1>1 DEF JoinInv, EdgesIntactOrUsed, Intact
<1>7. JoinsHaveConditions'
  BY <1>1, SameTreeConditions DEF JoinInv
<1> QED
  BY <1>3, <1>4, <1>5, <1>6, <1>7 DEF JoinInv

\* A vertex that is new: the edge it is reached by is still as it was, so its
\* conditions are between that vertex and the visited one at its other end.
LEMMA JoinStep ==
    ASSUME JoinInv, join_neighbor
    PROVE  JoinInv'
<1>1. Types /\ References /\ frames # <<>> /\ frame.edges # {}
  BY DEF JoinInv, join_neighbor
<1>2. PICK n, join, used, callee :
        /\ n = EdgesAssigned[edge].uID
        /\ join = [table |-> n, expressions |-> edges[edge].expressions,
                   onLeft |-> Deref(frame.vertexName, EdgesAssigned) # EdgesAssigned[edge].vID]
        /\ used = [EdgesAssigned[edge] EXCEPT !.expressions = {}]
        /\ callee = [vertexName |-> edge, edges |-> getConnectedEdges(EdgesAssigned, n)]
  OBVIOUS
<1>3. /\ UNCHANGED <<conditions, first>> /\ n \notin visited
      /\ visited' = visited \cup {n}
      /\ joinedTree' = Append(joinedTree, join)
      /\ edges' = [EdgesAssigned EXCEPT ![edge] = used]
      /\ frames' = Append(LoopRemaining, callee)
  BY <1>2 DEF join_neighbor, markVisited, alreadyVisited
<1>4. /\ edge \in DOMAIN edges /\ edge \in Nat /\ edges[edge] \in Edges
      /\ Len(frames) \in DOMAIN frames /\ edge \in frames[Len(frames)].edges
  BY <1>1, EdgeTaken DEF Types, frame
<1>5. n \in Tables /\ (n = edges[edge].vID \/ n = edges[edge].uID)
  BY <1>1, <1>2, EdgeTaken
<1>6. /\ used \in Edges /\ used.vID = edges[edge].vID
      /\ used.uID = n /\ used.expressions = {}
  <2>1. EdgesAssigned[edge] \in Edges /\ EdgesAssigned[edge].vID = edges[edge].vID
    BY <1>1, EdgeTaken
  <2> QED
    BY <1>2, <2>1, EdgeWithExpressions
<1>7. /\ edges' \in Seq(Edges) /\ DOMAIN edges' = DOMAIN edges
      /\ edges'[edge] = used /\ \A e \in DOMAIN edges \ {edge} : edges'[e] = edges[e]
  BY <1>1, <1>3, <1>4, <1>6, EdgeTaken
<1>8. join \in Joins /\ join.table = n /\ join.expressions = edges[edge].expressions
  <2>1. (Deref(frame.vertexName, EdgesAssigned) # EdgesAssigned[edge].vID) \in BOOLEAN
    OBVIOUS
  <2> QED
    BY <1>2, <1>4, <1>5, <2>1 DEF Joins, Edges
<1>9. /\ callee \in Frames /\ callee.vertexName = edge
      /\ callee.edges = {e \in DOMAIN edges : edges'[e].vID = n \/ edges'[e].uID = n}
  <2>1. callee.edges = {e \in DOMAIN edges : EdgesAssigned[e].vID = n \/ EdgesAssigned[e].uID = n}
    BY <1>1, <1>2, EdgeTaken DEF getConnectedEdges
  <2>2. \A e \in DOMAIN edges : /\ EdgesAssigned[e].vID = edges'[e].vID
                                /\ EdgesAssigned[e].uID = edges'[e].uID
    BY <1>1, <1>2, <1>6, <1>7, EdgeTaken
  <2>3. DOMAIN edges \subseteq Nat
    BY <1>1 DEF Types
  <2> QED
    BY <1>2, <1>4, <2>1, <2>2, <2>3 DEF Frames
<1>10. /\ frames' \in Seq(Frames) /\ DOMAIN frames' = 1 .. Len(frames) + 1
       /\ DOMAIN frames = 1 .. Len(frames) /\ Len(frames) \in Nat
       /\ frames'[Len(frames) + 1] = callee
       /\ \A k \in DOMAIN frames : /\ frames'[k].vertexName = frames[k].vertexName
                                   /\ frames'[k].edges \subseteq frames[k].edges
  <2>1. Len(frames) \in Nat /\ DOMAIN frames = 1 .. Len(frames)
    BY <1>1 DEF Types
  <2> QED
    BY <1>1, <1>3, <1>9, <2>1, LoopAdvanced
<1>11. /\ joinedTree' \in Seq(Joins) /\ Len(joinedTree) \in Nat
       /\ DOMAIN joinedTree = 1 .. Len(joinedTree)
       /\ DOMAIN joinedTree' = 1 .. Len(joinedTree) + 1 /\ Len(joinedTree') = Len(joinedTree) + 1
       /\ joinedTree'[Len(joinedTree) + 1] = join
       /\ \A j \in DOMAIN joinedTree : joinedTree'[j] = joinedTree[j]
  BY <1>1, <1>3, <1>8 DEF Types
<1>12. Types'
  BY <1>1, <1>3, <1>5, <1>7, <1>10, <1>11 DEF Types
<1>13. References'
  <2>1. ASSUME NEW k \in DOMAIN frames'
        PROVE  /\ frames'[k].edges \subseteq DOMAIN edges'
               /\ frames'[k].vertexName \in {FirstVertexName} \cup DOMAIN edges'
    <3>1. CASE k = Len(frames) + 1
      BY <1>4, <1>7, <1>9, <1>10, <3>1
    <3>2. CASE k \in DOMAIN frames
      BY <1>1, <1>7, <1>10, <3>2 DEF References
    <3> QED
      BY <1>10, <3>1, <3>2
  <2> QED
    BY <2>1 DEF References
<1>14. NotStarted'
  BY <1>1, <1>3 DEF JoinInv, NotStarted
<1>15. VisitedAreJoined'
  BY <1>3, <1>8, <1>11 DEF JoinInv, VisitedAreJoined
<1>16. edges[edge].vID \in visited \/ edges[edge].uID \in visited
  BY <1>4 DEF JoinInv, EdgesReached
<1>17. EdgesIntactOrUsed'
  <2>1. {edges'[edge].vID, edges'[edge].uID} \subseteq visited'
    BY <1>3, <1>5, <1>6, <1>7, <1>16
  <2>2. \A e \in DOMAIN edges : edges'[e].expressions \subseteq DOMAIN conditions
    BY <1>6, <1>7 DEF JoinInv, EdgesIntactOrUsed
  <2>3. \A e \in DOMAIN edges \ {edge} :
           Intact(e)' \/ {edges'[e].vID, edges'[e].uID} \subseteq visited'
    BY <1>3, <1>7 DEF JoinInv, EdgesIntactOrUsed, Intact
  <2> QED
    BY <1>3, <1>7, <2>1, <2>2, <2>3 DEF EdgesIntactOrUsed
<1>18. EdgesReached'
  <2>1. ASSUME NEW k \in DOMAIN frames', NEW e \in frames'[k].edges
        PROVE  edges'[e].vID \in visited' \/ edges'[e].uID \in visited'
    <3>1. CASE k = Len(frames) + 1
      BY <1>3, <1>9, <1>10, <3>1
    <3>2. CASE k \in DOMAIN frames /\ e = edge
      BY <1>3, <1>6, <1>7, <3>2
    <3>3. CASE k \in DOMAIN frames /\ e # edge
      <4>1. e \in frames[k].edges /\ e \in DOMAIN edges
        BY <1>1, <1>10, <3>3 DEF References
      <4> QED
        BY <1>3, <1>7, <3>3, <4>1 DEF JoinInv, EdgesReached
    <3> QED
      BY <1>10, <3>1, <3>2, <3>3
  <2> QED
    BY <2>1 DEF EdgesReached
<1>19. Intact(edge)
  BY <1>3, <1>4, <1>5, <1>16 DEF JoinInv, EdgesIntactOrUsed
<1>20. JoinsHaveConditions'
  <2>1. ASSUME NEW i \in 2 .. Len(joinedTree')
        PROVE  /\ joinedTree'[i].table \notin TablesBelow(i)'
               /\ joinedTree'[i].expressions # {}
               /\ \A c \in joinedTree'[i].expressions : \E below \in TablesBelow(i)' :
                     \/ conditions'[c] = <<joinedTree'[i].table, below>>
                     \/ conditions'[c] = <<below, joinedTree'[i].table>>
    <3>1. TablesBelow(i)' = TablesBelow(i)
      <4>1. \A j \in 1 .. i - 1 : joinedTree'[j] = joinedTree[j]
        BY <1>11
      <4> QED
        BY <4>1 DEF TablesBelow
    <3>2. CASE i \in 2 .. Len(joinedTree)
      <4>1. joinedTree'[i] = joinedTree[i]
        BY <1>11, <3>2
      <4> QED
        BY <1>3, <3>1, <3>2, <4>1 DEF JoinInv, JoinsHaveConditions
    <3>3. CASE i = Len(joinedTree) + 1
      <4>1. TablesBelow(i) = visited
        <5>1. 1 .. i - 1 = DOMAIN joinedTree
          BY <1>11, <3>3
        <5> QED
          BY <5>1 DEF TablesBelow, JoinInv, VisitedAreJoined
      <4>2. joinedTree'[i].table = n /\ joinedTree'[i].expressions = edges[edge].expressions
        BY <1>8, <1>11, <3>3
      <4>3. \E below \in visited : \A c \in edges[edge].expressions :
               conditions[c] = <<n, below>> \/ conditions[c] = <<below, n>>
        <5>1. CASE n = edges[edge].vID
          BY <1>3, <1>16, <1>19, <5>1 DEF Intact
        <5>2. CASE n = edges[edge].uID
          BY <1>3, <1>16, <1>19, <5>2 DEF Intact
        <5> QED
          BY <1>5, <5>1, <5>2
      <4> QED
        BY <1>3, <1>19, <3>1, <4>1, <4>2, <4>3 DEF Intact
    <3> QED
      BY <1>11, <3>2, <3>3
  <2> QED
    BY <2>1 DEF JoinsHaveConditions
<1> QED
  BY <1>12, <1>13, <1>14, <1>15, <1>17, <1>18, <1>20 DEF JoinInv

\* Every step of the analyser preserves the invariant.
LEMMA NextJoins == JoinInv /\ [Next]_vars => JoinInv'
<1> SUFFICES ASSUME JoinInv, [Next]_vars PROVE JoinInv'
  OBVIOUS
<1>1. CASE UNCHANGED vars
  BY <1>1, SameTreeConditions
     DEF vars, JoinInv, Types, References, NotStarted, VisitedAreJoined, EdgesIntactOrUsed,
         EdgesReached, Intact
<1> QED
  BY <1>1, GraphStep, StartStep, DiscardStep, JoinStep, ReturnStep DEF Next

\* Before the first condition there is nothing.
LEMMA InitJoins == Init => JoinInv
BY DEF Init, JoinInv, Types, References, NotStarted, VisitedAreJoined, EdgesIntactOrUsed,
       EdgesReached, JoinsHaveConditions

\* The inductive invariant of the join graph and of the activations of
\* construct_join (SelectAnalyser.cpp).
THEOREM JoinInvariant == Spec => []JoinInv
BY InitJoins, NextJoins, PTL DEF Spec

\* No join of the tree construct_join builds is a cross product or compares
\* columns that its children do not produce, although the names of edges and
\* of vertices are overwritten while the graph is walked.
THEOREM EveryJoinHasItsConditions == Spec => []JoinsHaveConditions
<1>1. JoinInv => JoinsHaveConditions
  BY DEF JoinInv
<1> QED
  BY <1>1, JoinInvariant, PTL

------------------------------------------------------------------------------
(* The neighbours of the first vertex are joined                           *)

\* Condition c is between the first vertex and table x.
AtFirst(c, x) == conditions[c] = <<first, x>> \/ conditions[c] = <<x, first>>

\* Only the first activation is known by a name that is never overwritten.
FirstActivation == frames # <<>> => frames[1].vertexName = FirstVertexName

\* The others were entered at a vertex that is not the first one.
LaterActivations ==
    \A k \in DOMAIN frames \ {1} : \A e \in frames[k].edges :
        \E end \in {edges[e].vID, edges[e].uID} :
            /\ end \in visited
            /\ end # first \/ {edges[e].vID, edges[e].uID} = {first}

\* A neighbour of the first vertex has been visited, or the first activation
\* has yet to take an edge to it.
NeighborsLeft ==
    first # NoTable =>
        /\ first \in visited
        /\ \A c \in DOMAIN conditions : \A x \in Tables : AtFirst(c, x) =>
              \/ x \in visited
              \/ frames # <<>> /\ \E e \in frames[1].edges : Connects(edges[e], first, x)

\* Until the walk starts every condition has its edge.
ConditionsHaveEdges ==
    first = NoTable =>
        \A c \in DOMAIN conditions : hasEdge(conditions[c][1], conditions[c][2])

NeighborInv ==
    /\ JoinInv /\ FirstActivation /\ LaterActivations
    /\ NeighborsLeft /\ ConditionsHaveEdges

\* construct_join_graph keeps an edge for every condition.
LEMMA GraphNeighbors ==
    ASSUME NeighborInv, NEW v \in Tables, NEW u \in Tables, construct_join_graph(v, u)
    PROVE  NeighborInv'
<1>1. JoinInv /\ JoinInv' /\ Types /\ frames = <<>> /\ first = NoTable
  BY GraphStep DEF NeighborInv, JoinInv, NotStarted, construct_join_graph
<1>2. UNCHANGED <<visited, joinedTree, frames, first>>
  BY DEF construct_join_graph
<1>3. FirstActivation' /\ LaterActivations' /\ NeighborsLeft'
  BY <1>1, <1>2 DEF FirstActivation, LaterActivations, NeighborsLeft
<1>4. PICK g \in DOMAIN edges' :
        /\ Connects(edges'[g], v, u)
        /\ g \in DOMAIN edges => edges'[g].vID = edges[g].vID /\ edges'[g].uID = edges[g].uID
        /\ \A e \in DOMAIN edges' \ {g} : e \in DOMAIN edges /\ edges'[e] = edges[e]
  BY <1>1, ConditionAdded
<1>5. ASSUME NEW c \in DOMAIN conditions'
      PROVE  \E e \in DOMAIN edges' : Connects(edges'[e], conditions'[c][1], conditions'[c][2])
  <2>0. Len(conditions) \in Nat /\ DOMAIN conditions = 1 .. Len(conditions)
    BY <1>1 DEF Types
  <2>1. CASE c = Len(conditions) + 1
    <3>1. conditions'[c] = <<v, u>>
      BY <1>1, <2>1, ConditionAdded
    <3> QED
      BY <1>4, <3>1
  <2>2. CASE c \in DOMAIN conditions
    <3>1. conditions'[c] = conditions[c]
      BY <1>1, <2>2, ConditionAdded
    <3>2. PICK e \in DOMAIN edges : Connects(edges[e], conditions[c][1], conditions[c][2])
      BY <1>1, <2>2 DEF NeighborInv, ConditionsHaveEdges, hasEdge
    <3>3. e \in DOMAIN edges' /\ edges'[e].vID = edges[e].vID /\ edges'[e].uID = edges[e].uID
      BY <1>1, <1>4, ConditionAdded
    <3> QED
      BY <3>1, <3>2, <3>3 DEF Connects
  <2> QED
    BY <1>1, <2>0, <2>1, <2>2, ConditionAdded
<1>6. ConditionsHaveEdges'
  BY <1>5 DEF ConditionsHaveEdges, hasEdge
<1> QED
  BY <1>1, <1>3, <1>6 DEF NeighborInv

\* construct_joins gives the first activation all edges at its vertex.
LEMMA StartNeighbors ==
    ASSUME NeighborInv, NEW vertex \in Tables, construct_joins(vertex)
    PROVE  NeighborInv'
<1>1. JoinInv' /\ first = NoTable /\ Types /\ frames = <<>>
  BY StartStep DEF NeighborInv, JoinInv, NotStarted, construct_joins
<1>2. PICK f : f = [vertexName |-> FirstVertexName, edges |-> getConnectedEdges(edges, vertex)]
  OBVIOUS
<1>3. /\ frames' = <<f>> /\ first' = vertex /\ visited' = {vertex}
      /\ UNCHANGED <<conditions, edges>>
  BY <1>2 DEF construct_joins
<1>4. /\ f.vertexName = FirstVertexName
      /\ f.edges = {e \in DOMAIN edges : edges[e].vID = vertex \/ edges[e].uID = vertex}
  BY <1>2 DEF getConnectedEdges
<1>5. FirstActivation' /\ LaterActivations'
  BY <1>3, <1>4 DEF FirstActivation, LaterActivations
<1>6. ASSUME NEW c \in DOMAIN conditions', NEW x \in Tables, AtFirst(c, x)'
      PROVE  \E e \in f.edges : Connects(edges'[e], vertex, x)
  <2>1. conditions[c] = <<vertex, x>> \/ conditions[c] = <<x, vertex>>
    BY <1>3, <1>6 DEF AtFirst
  <2>2. PICK e \in DOMAIN edges : Connects(edges[e], conditions[c][1], conditions[c][2])
    BY <1>1, <1>3 DEF NeighborInv, ConditionsHaveEdges, hasEdge
  <2>3. Connects(edges[e], vertex, x)
    BY <2>1, <2>2 DEF Connects
  <2> QED
    BY <1>3, <1>4, <2>3 DEF Connects
<1>7. NeighborsLeft'
  BY <1>3, <1>6 DEF NeighborsLeft
<1>8. ConditionsHaveEdges'
  BY <1>3, TablesAssumption DEF ConditionsHaveEdges
<1> QED
  BY <1>1, <1>5, <1>7, <1>8 DEF NeighborInv

\* A turn of construct_join for edge g: its uID becomes n, a name that has
\* been visited by the end of the turn, and the first activation has taken g
\* when it is its turn.
Turn(g, n) ==
    /\ UNCHANGED <<conditions, first>>
    /\ g = edge /\ g \in DOMAIN edges /\ n \in Tables
    /\ DOMAIN edges' = DOMAIN edges
    /\ edges'[g].vID = edges[g].vID /\ edges'[g].uID = n
    /\ n = edges[g].vID \/ n = edges[g].uID
    /\ \A e \in DOMAIN edges \ {g} : edges'[e] = edges[e]
    /\ Deref(frame.vertexName, edges) = edges[g].vID => n = edges[g].uID
    /\ Deref(frame.vertexName, edges) # edges[g].vID => n = edges[g].vID
    /\ visited' = visited \cup {n}
    /\ DOMAIN frames \subseteq DOMAIN frames'
    /\ \A k \in DOMAIN frames :
          /\ frames'[k].vertexName = frames[k].vertexName
          /\ frames'[k].edges \subseteq frames[k].edges
          /\ \/ frames'[k] = frames[k]
             \/ k = Len(frames) /\ frames'[k].edges = frames[k].edges \ {g}
    /\ \A k \in DOMAIN frames' \ DOMAIN frames :
          /\ n \notin visited
          /\ \A e \in frames'[k].edges :
                e \in DOMAIN edges /\ n \in {edges'[e].vID, edges'[e].uID}

\* Either outcome of a turn is one.
LEMMA TurnTaken ==
    ASSUME JoinInv, discard_edge \/ join_neighbor
    PROVE  \E g, n : Turn(g, n)
<1>1. Types /\ References /\ frames # <<>> /\ frame.edges # {}
  BY DEF JoinInv, discard_edge, join_neighbor
<1>2. PICK g, n : g = edge /\ n = EdgesAssigned[edge].uID
  OBVIOUS
<1>3. /\ UNCHANGED <<conditions, first>>
      /\ visited' = visited \cup {n}
  BY <1>2 DEF discard_edge, join_neighbor, markVisited, alreadyVisited
<1>4. /\ g = edge /\ g \in DOMAIN edges /\ n \in Tables
      /\ n = edges[g].vID \/ n = edges[g].uID
      /\ Deref(frame.vertexName, edges) = edges[g].vID => n = edges[g].uID
      /\ Deref(frame.vertexName, edges) # edges[g].vID => n = edges[g].vID
  BY <1>1, <1>2, EdgeTaken
<1>5. /\ DOMAIN edges' = DOMAIN edges
      /\ edges'[g].vID = edges[g].vID /\ edges'[g].uID = n
      /\ \A e \in DOMAIN edges \ {g} : edges'[e] = edges[e]
  <2>1. CASE discard_edge
    BY <1>1, <1>2, <1>4, <2>1, EdgeTaken DEF discard_edge
  <2>2. CASE join_neighbor
    <3>1. PICK used : used = [EdgesAssigned[edge] EXCEPT !.expressions = {}]
      OBVIOUS
    <3>2. used.vID = edges[edge].vID /\ used.uID = n
      BY <1>1, <1>2, <3>1, EdgeTaken, EdgeWithExpressions
    <3>3. edges' = [EdgesAssigned EXCEPT ![edge] = used]
      BY <2>2, <3>1 DEF join_neighbor
    <3> QED
      BY <1>1, <1>2, <3>2, <3>3, EdgeTaken
  <2> QED
    BY <2>1, <2>2
<1>6. /\ DOMAIN frames \subseteq DOMAIN frames'
      /\ \A k \in DOMAIN frames : frames'[k] = LoopRemaining[k]
  <2>1. CASE discard_edge
    BY <1>1, <2>1, LoopAdvanced DEF discard_edge
  <2>2. CASE join_neighbor
    <3>1. PICK callee : frames' = Append(LoopRemaining, callee)
      BY <2>2 DEF join_neighbor
    <3>2. Len(frames) \in Nat /\ DOMAIN frames = 1 .. Len(frames)
      BY <1>1 DEF Types
    <3> QED
      BY <1>1, <3>1, <3>2, LoopAdvanced
  <2> QED
    BY <2>1, <2>2
<1>7. ASSUME NEW k \in DOMAIN frames' \ DOMAIN frames
      PROVE  /\ n \notin visited
             /\ \A e \in frames'[k].edges :
                   e \in DOMAIN edges /\ n \in {edges'[e].vID, edges'[e].uID}
  <2>1. join_neighbor
    BY <1>1, <1>7, LoopAdvanced DEF discard_edge
  <2>2. n \notin visited
    BY <1>2, <2>1 DEF join_neighbor, alreadyVisited
  <2>3. PICK callee : callee = [vertexName |-> edge,
                                edges |-> getConnectedEdges(EdgesAssigned, n)]
    OBVIOUS
  <2>4. frames' = Append(LoopRemaining, callee)
    BY <1>2, <2>1, <2>3 DEF join_neighbor
  <2>5. frames'[k] = callee
    <3>1. Len(frames) \in Nat /\ DOMAIN frames = 1 .. Len(frames)
      BY <1>1 DEF Types
    <3> QED
      BY <1>1, <1>7, <2>4, <3>1, LoopAdvanced
  <2>6. \A e \in callee.edges : /\ e \in DOMAIN edges
                                /\ n \in {EdgesAssigned[e].vID, EdgesAssigned[e].uID}
    BY <1>1, <2>3, EdgeTaken DEF getConnectedEdges
  <2>7. \A e \in DOMAIN edges : /\ EdgesAssigned[e].vID = edges'[e].vID
                                /\ EdgesAssigned[e].uID = edges'[e].uID
    BY <1>1, <1>2, <1>5, EdgeTaken
  <2> QED
    BY <2>2, <2>5, <2>6, <2>7
<1>8. Turn(g, n)
  BY <1>1, <1>2, <1>3, <1>4, <1>5, <1>6, <1>7, LoopAdvanced DEF Turn
<1> QED
  BY <1>8

\* No turn loses a neighbour of the first vertex: an edge to it is overwritten
\* by the first activation, which then visits it, or by a later one, which was
\* entered at it.
LEMMA TurnNeighbors ==
    ASSUME NeighborInv, discard_edge \/ join_neighbor
    PROVE  NeighborInv'
<1>1. /\ JoinInv /\ JoinInv' /\ Types /\ References /\ NotStarted
      /\ frames # <<>> /\ frame.edges # {}
  BY DiscardStep, JoinStep DEF NeighborInv, JoinInv, discard_edge, join_neighbor
<1>2. PICK g, n : Turn(g, n)
  BY <1>1, TurnTaken
<1>3. /\ Len(frames) \in Nat /\ DOMAIN frames = 1 .. Len(frames) /\ 1 \in DOMAIN frames
      /\ first # NoTable /\ first \in visited
  <2>1. Len(frames) \in Nat /\ DOMAIN frames = 1 .. Len(frames) /\ 1 \in DOMAIN frames
    BY <1>1 DEF Types
  <2> QED
    BY <1>1, <2>1 DEF NeighborInv, NeighborsLeft, NotStarted
<1>4. g \in frames[Len(frames)].edges /\ Len(frames) \in DOMAIN frames
  BY <1>1, <1>2, EdgeTaken DEF Turn, frame
<1>5. FirstActivation' /\ ConditionsHaveEdges'
  BY <1>1, <1>2, <1>3 DEF NeighborInv, FirstActivation, ConditionsHaveEdges, Turn
<1>6. LaterActivations'
  <2>1. ASSUME NEW k \in DOMAIN frames' \ {1}, NEW e \in frames'[k].edges
        PROVE  \E end \in {edges'[e].vID, edges'[e].uID} :
                  /\ end \in visited'
                  /\ end # first' \/ {edges'[e].vID, edges'[e].uID} = {first'}
    <3>1. CASE k \notin DOMAIN frames
      BY <1>2, <1>3, <3>1 DEF Turn
    <3>2. CASE k \in DOMAIN frames
      <4>1. e \in frames[k].edges /\ e \in DOMAIN edges
        BY <1>1, <1>2, <3>2 DEF Turn, References
      <4>2. PICK end \in {edges[e].vID, edges[e].uID} :
              end \in visited /\ (end # first \/ {edges[e].vID, edges[e].uID} = {first})
        BY <3>2, <4>1 DEF NeighborInv, LaterActivations
      <4>3. CASE e # g
        BY <1>2, <4>1, <4>2, <4>3 DEF Turn
      <4>4. CASE e = g
        <5>1. edges'[e].vID = edges[e].vID /\ edges'[e].uID = n /\ n \in visited' /\ first' = first
          BY <1>2, <4>4 DEF Turn
        <5>2. CASE n # first
          BY <5>1, <5>2
        <5>3. CASE n = first /\ edges[e].vID = first
          BY <5>1, <5>3
        <5>4. CASE n = first /\ edges[e].vID # first
          BY <1>2, <4>2, <4>4, <5>1, <5>4 DEF Turn
        <5> QED
          BY <5>2, <5>3, <5>4
      <4> QED
        BY <4>3, <4>4
    <3> QED
      BY <3>1, <3>2
  <2> QED
    BY <2>1 DEF LaterActivations
<1>7. ASSUME NEW c \in DOMAIN conditions', NEW x \in Tables, AtFirst(c, x)', x \notin visited'
      PROVE  \E e \in frames'[1].edges : Connects(edges'[e], first, x)
  <2>1. c \in DOMAIN conditions /\ AtFirst(c, x) /\ x \notin visited /\ x # n /\ x # first
    BY <1>2, <1>3, <1>7 DEF Turn, AtFirst
  <2>2. PICK e \in frames[1].edges : Connects(edges[e], first, x)
    BY <1>3, <2>1 DEF NeighborInv, NeighborsLeft
  <2>3. e # g
    <3> SUFFICES ASSUME e = g PROVE FALSE
      OBVIOUS
    <3>1. CASE Len(frames) = 1
      <4>1. Deref(frame.vertexName, edges) = first
        BY <1>1, <3>1 DEF NeighborInv, FirstActivation, frame, Deref
      <4> QED
        BY <1>2, <2>1, <2>2, <4>1 DEF Turn, Connects
    <3>2. CASE Len(frames) # 1
      <4>1. \E end \in {edges[g].vID, edges[g].uID} :
               end \in visited /\ (end # first \/ {edges[g].vID, edges[g].uID} = {first})
        BY <1>4, <3>2 DEF NeighborInv, LaterActivations
      <4> QED
        BY <2>1, <2>2, <4>1 DEF Connects
    <3> QED
      BY <3>1, <3>2
  <2>4. e \in DOMAIN edges
    BY <1>1, <1>3 DEF References
  <2>5. e \in frames'[1].edges /\ edges'[e] = edges[e]
    BY <1>2, <1>3, <2>3, <2>4 DEF Turn
  <2> QED
    BY <2>2, <2>5
<1>8. NeighborsLeft'
  <2>1. frames' # <<>> /\ first' = first /\ first \in visited'
    BY <1>2, <1>3 DEF Turn
  <2> QED
    BY <1>7, <2>1 DEF NeighborsLeft
<1> QED
  BY <1>1, <1>5, <1>6, <1>8 DEF NeighborInv

\* The activation that returns has no edge left.
LEMMA ReturnNeighbors ==
    ASSUME NeighborInv, return
    PROVE  NeighborInv'
<1>1. /\ JoinInv' /\ NotStarted /\ UNCHANGED <<conditions, edges, visited, joinedTree, first>>
      /\ frames # <<>> /\ frames' = SubSeq(frames, 1, Len(frames) - 1)
      /\ frames \in Seq(Frames) /\ frames[Len(frames)].edges = {}
  BY ReturnStep DEF NeighborInv, JoinInv, Types, return, frame
<1>2. /\ DOMAIN frames' \subseteq DOMAIN frames
      /\ \A k \in DOMAIN frames' : frames'[k] = frames[k]
      /\ frames' # <<>> => 1 \in DOMAIN frames'
      /\ frames' = <<>> => Len(frames) = 1
  <2>1. PICK n \in Nat : n = Len(frames)
    BY <1>1
  <2>2. n # 0 /\ DOMAIN frames = 1 .. n
    BY <1>1, <2>1
  <2>3. Len(frames') = n - 1 /\ DOMAIN frames' = 1 .. n - 1
    BY <1>1, <2>1, <2>2
  <2>4. \A k \in 1 .. n - 1 : frames'[k] = frames[k]
    BY <1>1, <2>1, <2>2
  <2>5. frames' = <<>> => n - 1 = 0
    BY <2>3
  <2>6. frames' # <<>> => n - 1 # 0
    BY <1>1, <2>1, <2>2, <2>3
  <2> QED
    BY <2>1, <2>2, <2>3, <2>4, <2>5, <2>6
<1>3. FirstActivation' /\ LaterActivations' /\ ConditionsHaveEdges'
  <2>1. FirstActivation'
    BY <1>1, <1>2 DEF NeighborInv, FirstActivation
  <2>2. LaterActivations'
    <3>1. \A k \in DOMAIN frames' \ {1} : k \in DOMAIN frames \ {1} /\ frames'[k] = frames[k]
      BY <1>2
    <3>2. edges' = edges /\ visited' = visited /\ first' = first
      BY <1>1
    <3>3. ASSUME NEW k \in DOMAIN frames' \ {1}, NEW e \in frames'[k].edges
          PROVE  \E end \in {edges'[e].vID, edges'[e].uID} :
                    /\ end \in visited'
                    /\ end # first' \/ {edges'[e].vID, edges'[e].uID} = {first'}
      <4>1. \E end \in {edges[e].vID, edges[e].uID} :
               end \in visited /\ (end # first \/ {edges[e].vID, edges[e].uID} = {first})
        BY <3>1 DEF NeighborInv, LaterActivations
      <4> QED
        BY <3>2, <4>1
    <3> QED
      BY <3>3 DEF LaterActivations
  <2>3. ConditionsHaveEdges'
    BY <1>1 DEF NeighborInv, NotStarted, ConditionsHaveEdges, hasEdge
  <2> QED
    BY <2>1, <2>2, <2>3
<1>4. NeighborsLeft'
  <2>1. ASSUME NEW c \in DOMAIN conditions, NEW x \in Tables, AtFirst(c, x), x \notin visited,
               first # NoTable
        PROVE  frames' # <<>> /\ \E e \in frames'[1].edges : Connects(edges[e], first, x)
    <3>1. PICK e \in frames[1].edges : Connects(edges[e], first, x)
      BY <2>1 DEF NeighborInv, NeighborsLeft
    <3>2. Len(frames) # 1
      BY <1>1, <3>1
    <3> QED
      BY <1>2, <3>1, <3>2
  <2> QED
    BY <1>1, <2>1 DEF NeighborInv, NeighborsLeft, AtFirst
<1> QED
  BY <1>1, <1>3, <1>4 DEF NeighborInv

\* Every step preserves what is known of the first vertex.
LEMMA NextNeighbors == NeighborInv /\ [Next]_vars => NeighborInv'
<1> SUFFICES ASSUME NeighborInv, [Next]_vars PROVE NeighborInv'
  OBVIOUS
<1>1. CASE UNCHANGED vars
  <2>1. JoinInv'
    BY <1>1, NextJoins DEF NeighborInv
  <2>2. FirstActivation'
    BY <1>1 DEF vars, NeighborInv, FirstActivation
  <2>3. LaterActivations'
    BY <1>1 DEF vars, NeighborInv, LaterActivations
  <2>4. NeighborsLeft'
    BY <1>1 DEF vars, NeighborInv, NeighborsLeft, AtFirst
  <2>5. ConditionsHaveEdges'
    BY <1>1 DEF vars, NeighborInv, ConditionsHaveEdges, hasEdge
  <2> QED
    BY <2>1, <2>2, <2>3, <2>4, <2>5 DEF NeighborInv
<1> QED
  BY <1>1, GraphNeighbors, StartNeighbors, TurnNeighbors, ReturnNeighbors DEF Next

\* Whatever its walk overwrites, construct_join has joined all tables that a
\* condition connects to the vertex construct_joins started with.
THEOREM NeighborsOfTheFirstAreJoined == Spec => []FirstVertexJoinsNeighbors
<1>1. Init => NeighborInv
  BY InitJoins DEF Init, NeighborInv, FirstActivation, LaterActivations, NeighborsLeft,
                   ConditionsHaveEdges
<1>2. NeighborInv => FirstVertexJoinsNeighbors
  <2> SUFFICES ASSUME NeighborInv, Done, NEW c \in DOMAIN conditions
               PROVE  /\ conditions[c][1] = first => conditions[c][2] \in visited
                      /\ conditions[c][2] = first => conditions[c][1] \in visited
    BY DEF FirstVertexJoinsNeighbors
  <2>1. conditions[c] \in Tables \X Tables
    BY DEF NeighborInv, JoinInv, Types
  <2>2. \A x \in Tables : AtFirst(c, x) => x \in visited
    BY DEF NeighborInv, NeighborsLeft, Done
  <2>3. PICK v \in Tables, u \in Tables : conditions[c] = <<v, u>>
    BY <2>1
  <2> QED
    BY <2>2, <2>3 DEF AtFirst
<1> QED
  BY <1>1, <1>2, NextNeighbors, PTL DEF Spec

------------------------------------------------------------------------------
(***************************************************************************)
(* The hash join: for every set of rows, every predicate and all sizes of  *)
(* vectors, blocks and nodes the columns hold the rows, the pieces of the  *)
(* pool stay apart, and every selected row is met once on a chain.         *)
(*                                                                         *)
(* The last one rests on the order of the addresses: a node lies above all *)
(* earlier ones, hence the list runs upwards and the buckets, filled from  *)
(* its front, run downwards.  The place of a node on its chain is the      *)
(* number of nodes before it in that order.                                *)
(***************************************************************************)

\* What the memory of the tables' columns may hold.
Elements == LeftRows \cup RightRows \cup {Undefined}

\* A vector: an array of its capacity, of which the first count are in use.
Arrays == UNION {[1 .. n -> Elements] : n \in Nat}
IsVector(v) ==
    /\ v \in [count : Nat, capacity : Nat \ {0}, array : Arrays]
    /\ v.array \in [1 .. v.capacity -> Elements]
    /\ v.count <= v.capacity

\* What a vector that replaces v must still hold: its first n elements.
Keeps(w, v, n) == \A i \in 1 .. n : w.array[i] = v.array[i]

LEMMA IsVectorIntro ==
    ASSUME NEW n, NEW c, NEW a, n \in Nat, c \in Nat \ {0}, n <= c,
           a \in [1 .. c -> Elements]
    PROVE  IsVector([count |-> n, capacity |-> c, array |-> a])
<1>1. a \in Arrays
  BY DEF Arrays
<1> QED
  BY <1>1 DEF IsVector

\* A new array has the elements of the old one that fit.
LEMMA ReallocKeeps ==
    ASSUME NEW v, IsVector(v), NEW c, c \in Nat \ {0}, v.count <= c
    PROVE  /\ IsVector(Realloc(v, c)) /\ Realloc(v, c).count = v.count
           /\ Realloc(v, c).capacity = c
           /\ Keeps(Realloc(v, c), v, v.count)
<1> DEFINE a == [i \in 1 .. c |-> IF i <= v.capacity THEN v.array[i] ELSE Undefined]
<1>1. Realloc(v, c) = [v EXCEPT !.capacity = c, !.array = a]
  BY DEF Realloc
<1>2. \A i \in 1 .. v.count : a[i] = v.array[i]
  BY DEF IsVector
<1>3. a \in [1 .. c -> Elements]
  BY DEF IsVector, Elements
<1> HIDE DEF a
<1>4. Realloc(v, c) = [count |-> v.count, capacity |-> c, array |-> a]
  BY <1>1 DEF IsVector
<1>5. IsVector(Realloc(v, c))
  <2>1. v.count \in Nat
    BY DEF IsVector
  <2> QED
    BY <1>3, <1>4, <2>1, IsVectorIntro
<1> QED
  BY <1>2, <1>4, <1>5 DEF Keeps

LEMMA ReserveBack ==
    ASSUME NEW v, IsVector(v)
    PROVE  /\ IsVector(reserve_back(v)) /\ reserve_back(v).count = v.count + 1
           /\ Keeps(reserve_back(v), v, v.count)
<1> DEFINE g == IF v.count = v.capacity THEN Realloc(v, 2 * v.capacity) ELSE v
<1>1. /\ IsVector(g) /\ g.count = v.count /\ g.count < g.capacity
      /\ Keeps(g, v, v.count)
  <2>1. CASE v.count = v.capacity
    <3>1. 2 * v.capacity \in Nat \ {0} /\ v.count <= 2 * v.capacity
          /\ v.count < 2 * v.capacity
      BY <2>1 DEF IsVector
    <3>2. g = Realloc(v, 2 * v.capacity)
      BY <2>1
    <3> QED
      BY <3>1, <3>2, ReallocKeeps
  <2>2. CASE v.count # v.capacity
    BY <2>2 DEF IsVector, Keeps
  <2> QED
    BY <2>1, <2>2
<1>2. reserve_back(v) = [g EXCEPT !.count = @ + 1]
  BY DEF reserve_back
<1> HIDE DEF g
<1>3. reserve_back(v) = [count |-> g.count + 1, capacity |-> g.capacity, array |-> g.array]
  BY <1>1, <1>2 DEF IsVector
<1>4. IsVector(reserve_back(v))
  <2>1. /\ g.count + 1 \in Nat /\ g.capacity \in Nat \ {0} /\ g.count + 1 <= g.capacity
        /\ g.array \in [1 .. g.capacity -> Elements]
    BY <1>1 DEF IsVector
  <2> QED
    BY <1>3, <2>1, IsVectorIntro
<1> QED
  BY <1>1, <1>3, <1>4 DEF Keeps

\* push_back adds an element behind the others.
LEMMA PushBack ==
    ASSUME NEW T, NEW v, NEW s, NEW e, IsVector(v), T \subseteq Elements,
           s \in Seq(T), Holds(v, s), e \in T
    PROVE  IsVector(push_back(v, e)) /\ Holds(push_back(v, e), Append(s, e))
<1> DEFINE r == reserve_back(v)
<1> DEFINE a == [r.array EXCEPT ![r.count] = e]
<1>1. /\ IsVector(r) /\ r.count = v.count + 1 /\ Keeps(r, v, v.count)
  BY ReserveBack
<1>2. push_back(v, e) = [r EXCEPT !.array[r.count] = e]
  BY DEF push_back
<1> HIDE DEF r
<1>3. push_back(v, e) = [count |-> r.count, capacity |-> r.capacity, array |-> a]
  BY <1>1, <1>2 DEF IsVector
<1>4. v.count \in Nat /\ r.capacity \in Nat \ {0} /\ r.count <= r.capacity
      /\ r.array \in [1 .. r.capacity -> Elements] /\ r.count \in 1 .. r.capacity
  BY <1>1 DEF IsVector
<1>5. /\ a \in [1 .. r.capacity -> Elements]
      /\ a[r.count] = e /\ \A i \in 1 .. v.count : a[i] = r.array[i]
  BY <1>1, <1>4
<1> HIDE DEF a
<1>6. IsVector(push_back(v, e))
  BY <1>1, <1>3, <1>4, <1>5, IsVectorIntro
<1>7. Holds(push_back(v, e), Append(s, e))
  <2>1. /\ Len(Append(s, e)) = Len(s) + 1 /\ Append(s, e)[Len(s) + 1] = e
        /\ \A i \in 1 .. Len(s) : Append(s, e)[i] = s[i]
    BY SeqAppend
  <2>2. v.count = Len(s) /\ \A i \in 1 .. v.count : v.array[i] = s[i]
    BY DEF Holds
  <2>3. \A i \in 1 .. v.count : a[i] = s[i]
    BY <1>1, <1>5, <2>2 DEF Keeps
  <2>4. \A i \in 1 .. r.count : a[i] = Append(s, e)[i]
    BY <1>1, <1>4, <1>5, <2>1, <2>2, <2>3
  <2>5. r.count = Len(Append(s, e))
    BY <1>1, <2>1, <2>2
  <2> QED
    BY <1>3, <1>4, <2>4, <2>5 DEF Holds
<1> QED
  BY <1>6, <1>7

\* pop_back drops the last element.
LEMMA PopBack ==
    ASSUME NEW v, IsVector(v), v.count # 0
    PROVE  /\ IsVector(pop_back(v)) /\ pop_back(v).count = v.count - 1
           /\ Keeps(pop_back(v), v, v.count - 1)
<1> DEFINE p == [v EXCEPT !.count = @ - 1]
<1>1. p = [count |-> v.count - 1, capacity |-> v.capacity, array |-> v.array]
  BY DEF IsVector
<1>2. IsVector(p) /\ p.count = v.count - 1 /\ Keeps(p, v, v.count - 1)
  <2>1. /\ v.count - 1 \in Nat /\ v.capacity \in Nat \ {0} /\ v.count - 1 <= v.capacity
        /\ v.array \in [1 .. v.capacity -> Elements]
    BY DEF IsVector
  <2>2. IsVector(p)
    BY <1>1, <2>1, IsVectorIntro
  <2> QED
    BY <1>1, <2>2 DEF Keeps
<1>3. pop_back(v) = IF p.count > defaultCount /\ p.count <= p.capacity \div 2
                    THEN Realloc(p, p.capacity \div 2) ELSE p
  BY DEF pop_back
<1> HIDE DEF p
<1>4. CASE p.count > defaultCount /\ p.count <= p.capacity \div 2
  <2>1. p.capacity \div 2 \in Nat \ {0} /\ p.count <= p.capacity \div 2
    BY <1>2, <1>4, SizesAssumption DEF IsVector
  <2>2. /\ IsVector(Realloc(p, p.capacity \div 2))
        /\ Realloc(p, p.capacity \div 2).count = p.count
        /\ Keeps(Realloc(p, p.capacity \div 2), p, p.count)
    BY <1>2, <2>1, ReallocKeeps
  <2> QED
    BY <1>2, <1>3, <1>4, <2>2 DEF Keeps
<1>5. CASE ~ (p.count > defaultCount /\ p.count <= p.capacity \div 2)
  BY <1>2, <1>3, <1>5
<1> QED
  BY <1>4, <1>5

\* Two sequences, one behind the other.
LEMMA SeqConcat ==
    ASSUME NEW T, NEW s, NEW t, s \in Seq(T), t \in Seq(T)
    PROVE  /\ s \o t \in Seq(T) /\ Len(s \o t) = Len(s) + Len(t)
           /\ \A i \in 1 .. Len(s) + Len(t) :
                  (s \o t)[i] = IF i <= Len(s) THEN s[i] ELSE t[i - Len(s)]
<1>1. s \o t \in Seq(T)
  OBVIOUS
<1>2. Len(s \o t) = Len(s) + Len(t)
  OBVIOUS
<1>3. \A i \in 1 .. Len(s) + Len(t) :
          (s \o t)[i] = IF i <= Len(s) THEN s[i] ELSE t[i - Len(s)]
  OBVIOUS
<1> QED
  BY <1>1, <1>2, <1>3

\* A sequence without its tid-th element.
LEMMA SeqRemoved ==
    ASSUME NEW T, NEW s, NEW tid, s \in Seq(T), tid \in 1 .. Len(s)
    PROVE  /\ RemoveAt(s, tid) \in Seq(T) /\ Len(RemoveAt(s, tid)) = Len(s) - 1
           /\ \A i \in 1 .. Len(s) - 1 :
                  RemoveAt(s, tid)[i] = IF i < tid THEN s[i] ELSE s[i + 1]
<1> DEFINE front == SubSeq(s, 1, tid - 1)
<1> DEFINE back == SubSeq(s, tid + 1, Len(s))
<1> DEFINE w == front \o back
<1>1. Len(s) \in Nat /\ tid \in Nat
  OBVIOUS
<1>2. /\ front \in Seq(T) /\ Len(front) = tid - 1
      /\ \A i \in 1 .. tid - 1 : front[i] = s[i]
  OBVIOUS
<1>3. /\ back \in Seq(T) /\ Len(back) = Len(s) - tid
      /\ \A i \in 1 .. Len(s) - tid : back[i] = s[tid + i]
  OBVIOUS
<1>4. RemoveAt(s, tid) = w
  BY DEF RemoveAt
<1> HIDE DEF front, back
<1>5. /\ w \in Seq(T) /\ Len(w) = Len(front) + Len(back)
      /\ \A i \in 1 .. Len(front) + Len(back) :
             w[i] = IF i <= Len(front) THEN front[i] ELSE back[i - Len(front)]
  <2>1. front \in Seq(T) /\ back \in Seq(T)
    BY <1>2, <1>3
  <2> HIDE DEF w
  <2>2. w = front \o back
    BY DEF w
  <2> QED
    BY <2>1, <2>2, SeqConcat
<1>6. Len(front) + Len(back) = Len(s) - 1
  BY <1>1, <1>2, <1>3
<1> HIDE DEF w
<1>7. ASSUME NEW i \in 1 .. Len(s) - 1
      PROVE  w[i] = IF i < tid THEN s[i] ELSE s[i + 1]
  <2>1. CASE i < tid
    BY <1>1, <1>2, <1>5, <1>6, <2>1
  <2>2. CASE ~ (i < tid)
    <3> DEFINE j == i - Len(front)
    <3>1. j \in 1 .. Len(s) - tid /\ tid + j = i + 1 /\ ~ (i <= Len(front))
      BY <1>1, <1>2, <2>2
    <3>2. w[i] = back[j]
      BY <1>5, <1>6, <3>1
    <3> HIDE DEF j
    <3>3. back[j] = s[i + 1]
      BY <1>3, <3>1
    <3> QED
      BY <2>2, <3>2, <3>3
  <2> QED
    BY <2>1, <2>2
<1> QED
  BY <1>4, <1>5, <1>6, <1>7

\* remove_at drops the element at an index and keeps the order of the others.
LEMMA RemoveFromVector ==
    ASSUME NEW T, NEW v, NEW s, NEW tid, IsVector(v), s \in Seq(T), Holds(v, s),
           tid \in 1 .. v.count
    PROVE  IsVector(remove_at(v, tid)) /\ Holds(remove_at(v, tid), RemoveAt(s, tid))
<1> DEFINE a == [i \in 1 .. v.capacity |-> IF i \in tid .. (v.count - 1) THEN v.array[i + 1]
                                           ELSE v.array[i]]
<1> DEFINE m == [v EXCEPT !.array = a]
<1>1. remove_at(v, tid) = pop_back(m)
  BY DEF remove_at
<1>2. /\ v.count = Len(s) /\ v.count \in Nat /\ v.count <= v.capacity
      /\ v.capacity \in Nat \ {0} /\ v.array \in [1 .. v.capacity -> Elements]
  BY DEF Holds, IsVector
<1>3. a \in [1 .. v.capacity -> Elements]
  BY <1>2
<1>4. \A i \in 1 .. v.count - 1 : a[i] = IF i < tid THEN s[i] ELSE s[i + 1]
  <2> SUFFICES ASSUME NEW i \in 1 .. v.count - 1
               PROVE  a[i] = IF i < tid THEN s[i] ELSE s[i + 1]
    OBVIOUS
  <2>1. i \in 1 .. v.capacity /\ i \in 1 .. v.count /\ i + 1 \in 1 .. v.count
    BY <1>2
  <2>2. v.array[i] = s[i] /\ v.array[i + 1] = s[i + 1]
    BY <2>1 DEF Holds
  <2> QED
    BY <1>2, <2>1, <2>2
<1> HIDE DEF a
<1>5. m = [count |-> v.count, capacity |-> v.capacity, array |-> a]
  BY DEF IsVector
<1>6. IsVector(m) /\ m.count = v.count /\ m.array = a
  BY <1>2, <1>3, <1>5, IsVectorIntro
<1> HIDE DEF m
<1>7. /\ IsVector(pop_back(m)) /\ pop_back(m).count = v.count - 1
      /\ Keeps(pop_back(m), m, v.count - 1)
  <2>1. m.count # 0
    BY <1>2, <1>6
  <2> QED
    BY <1>6, <2>1, PopBack
<1>8. Holds(pop_back(m), RemoveAt(s, tid))
  <2>1. /\ Len(RemoveAt(s, tid)) = Len(s) - 1
        /\ \A i \in 1 .. Len(s) - 1 :
               RemoveAt(s, tid)[i] = IF i < tid THEN s[i] ELSE s[i + 1]
    BY <1>2, SeqRemoved
  <2>2. \A i \in 1 .. v.count - 1 : pop_back(m).array[i] = RemoveAt(s, tid)[i]
    BY <1>2, <1>4, <1>6, <1>7, <2>1 DEF Keeps
  <2>3. pop_back(m).count <= pop_back(m).capacity
    BY <1>7 DEF IsVector
  <2> QED
    BY <1>2, <1>7, <2>1, <2>2, <2>3 DEF Holds
<1> QED
  BY <1>1, <1>7, <1>8

\* A vector is created empty.
LEMMA NewVector == IsVector(Vector) /\ Holds(Vector, <<>>)
<1> DEFINE a == [i \in 1 .. defaultCount |-> Undefined]
<1>1. a \in [1 .. defaultCount -> Elements]
  BY DEF Elements
<1>2. Vector = [count |-> 0, capacity |-> defaultCount, array |-> a]
  BY DEF Vector
<1> HIDE DEF a
<1>3. IsVector(Vector)
  BY <1>1, <1>2, SizesAssumption, IsVectorIntro
<1> QED
  BY <1>2, <1>3, SizesAssumption DEF Holds

------------------------------------------------------------------------------
(* The columns of the tables hold the rows, whatever is added and removed. *)

ColumnsInv ==
    /\ rows.left \in Seq(LeftRows) /\ rows.right \in Seq(RightRows)
    /\ DOMAIN rows = {"left", "right"}
    /\ IsVector(left) /\ IsVector(right)
    /\ Holds(left, rows.left) /\ Holds(right, rows.right)

LEMMA ColumnsInitially ==
    ExecInit => ColumnsInv
<1> SUFFICES ASSUME ExecInit PROVE ColumnsInv
  OBVIOUS
<1>1. left = Vector /\ right = Vector /\ rows = [left |-> <<>>, right |-> <<>>]
  BY DEF ExecInit, JoinInit
<1> QED
  BY <1>1, NewVector DEF ColumnsInv

\* Only addRow and removeRow change a table.
LEMMA TablesChange ==
    ASSUME [ExecNext]_execVars
    PROVE  addRow \/ removeRow \/ UNCHANGED <<left, right, rows>>
BY DEF ExecNext, execVars, joinVars, startQuery, produce, JoinOnly, groupMatch, probeMatch,
       loopDone, finishQuery, cleanup, nextQuery, assertFails, skipLeft, consumeLeft,
       createTable, build, startProbe, consumeRight, lookupStep, lookupDone, probeMiss

LEMMA ColumnsStep ==
    ASSUME ColumnsInv, [ExecNext]_execVars
    PROVE  ColumnsInv'
<1> USE DEF ColumnsInv
<1>1. CASE addRow
  <2>1. CASE \E row \in LeftRows :
              /\ left' = push_back(left, row)
              /\ rows' = [rows EXCEPT !.left = Append(@, row)]
              /\ UNCHANGED right
    <3>1. PICK row \in LeftRows :
              /\ left' = push_back(left, row)
              /\ rows' = [rows EXCEPT !.left = Append(@, row)]
              /\ UNCHANGED right
      BY <2>1
    <3>2. IsVector(left') /\ Holds(left', Append(rows.left, row))
      <4>1. LeftRows \subseteq Elements
        BY DEF Elements
      <4> QED
        BY <3>1, <4>1, PushBack
    <3>3. /\ rows'.left = Append(rows.left, row) /\ rows'.right = rows.right
          /\ DOMAIN rows' = {"left", "right"}
      BY <3>1
    <3>4. Append(rows.left, row) \in Seq(LeftRows)
      OBVIOUS
    <3> QED
      BY <3>1, <3>2, <3>3, <3>4
  <2>2. CASE \E row \in RightRows :
              /\ right' = push_back(right, row)
              /\ rows' = [rows EXCEPT !.right = Append(@, row)]
              /\ UNCHANGED left
    <3>1. PICK row \in RightRows :
              /\ right' = push_back(right, row)
              /\ rows' = [rows EXCEPT !.right = Append(@, row)]
              /\ UNCHANGED left
      BY <2>2
    <3>2. IsVector(right') /\ Holds(right', Append(rows.right, row))
      <4>1. RightRows \subseteq Elements
        BY DEF Elements
      <4> QED
        BY <3>1, <4>1, PushBack
    <3>3. /\ rows'.right = Append(rows.right, row) /\ rows'.left = rows.left
          /\ DOMAIN rows' = {"left", "right"}
      BY <3>1
    <3>4. Append(rows.right, row) \in Seq(RightRows)
      OBVIOUS
    <3> QED
      BY <3>1, <3>2, <3>3, <3>4
  <2> QED
    BY <1>1, <2>1, <2>2 DEF addRow
<1>2. CASE removeRow
  <2>1. PICK tid \in 1 .. left.count :
            /\ left' = remove_at(left, tid)
            /\ rows' = [rows EXCEPT !.left = RemoveAt(@, tid)]
            /\ UNCHANGED right
    BY <1>2 DEF removeRow
  <2>2. IsVector(left') /\ Holds(left', RemoveAt(rows.left, tid))
    BY <2>1, RemoveFromVector
  <2>3. RemoveAt(rows.left, tid) \in Seq(LeftRows)
    <3>1. tid \in 1 .. Len(rows.left)
      BY DEF Holds
    <3> QED
      BY <3>1, SeqRemoved
  <2>4. /\ rows'.left = RemoveAt(rows.left, tid) /\ rows'.right = rows.right
        /\ DOMAIN rows' = {"left", "right"}
    BY <2>1
  <2> QED
    BY <2>1, <2>2, <2>3, <2>4
<1>3. CASE UNCHANGED <<left, right, rows>>
  BY <1>3 DEF Holds, IsVector
<1> QED
  BY <1>1, <1>2, <1>3, TablesChange

LEMMA ColumnsAlways == ExecSpec => []ColumnsInv
BY ColumnsInitially, ColumnsStep, PTL DEF ExecSpec

\* A column holds the rows added to it and not removed, in order, whatever
\* the vector did to its memory (Vector::reserve_back, pop_back, remove_at).
THEOREM ExecColumnsHoldTheRows == ExecSpec => []ColumnsHoldTheRows
<1>1. ColumnsInv => ColumnsHoldTheRows
  BY DEF ColumnsInv, ColumnsHoldTheRows
<1> QED
  BY <1>1, ColumnsAlways, PTL

------------------------------------------------------------------------------
(* The memory of the join: an allocation takes its bytes behind all earlier *)
(* ones and inside the newest block.                                        *)

Blocks == [start : Nat \ {0}, used : Nat, size : Nat]

\* The first byte no piece of the pool has got yet.
End(pool) == pool.blocks[Len(pool.blocks)].start + pool.blocks[Len(pool.blocks)].used

IsPool(pool) ==
    /\ pool \in [blocks : Seq(Blocks), nextBlockSize : Nat, top : Nat]
    /\ Len(pool.blocks) # 0
    /\ End(pool) <= pool.top
    /\ pool.blocks[Len(pool.blocks)].start + pool.blocks[Len(pool.blocks)].size = pool.top

\* The bytes from .. from + size - 1 lie in one block of the pool.
InBlock(pool, from, size) ==
    \E i \in DOMAIN pool.blocks :
        /\ pool.blocks[i].start <= from
        /\ from + size <= pool.blocks[i].start + pool.blocks[i].size

\* Every block of p is one of q.
BlocksStay(p, q) ==
    \A i \in DOMAIN p.blocks :
        /\ i \in DOMAIN q.blocks
        /\ q.blocks[i].start = p.blocks[i].start /\ q.blocks[i].size = p.blocks[i].size

LEMMA MaxOfTwo ==
    ASSUME NEW a, NEW b, a \in Nat, b \in Nat
    PROVE  Max({a, b}) \in Nat /\ a <= Max({a, b}) /\ b <= Max({a, b})
<1> DEFINE Greatest(x) == x \in {a, b} /\ \A y \in {a, b} : x >= y
<1>1. \E x : Greatest(x)
  <2>1. CASE a >= b
    BY <2>1
  <2>2. CASE ~ (a >= b)
    BY <2>2
  <2> QED
    BY <2>1, <2>2
<1>2. Max({a, b}) = CHOOSE x : Greatest(x)
  BY DEF Max
<1>3. Greatest(Max({a, b}))
  <2> HIDE DEF Greatest
  <2> QED
    BY <1>1, <1>2
<1> QED
  BY <1>3

\* A new block lies behind the earlier ones and has the room asked for.
LEMMA NewBlock ==
    ASSUME NEW p, NEW minimum, IsPool(p), minimum \in Nat
    PROVE  LET q == createNewBlock(p, minimum)
               n == Len(p.blocks) + 1
           IN  /\ q \in [blocks : Seq(Blocks), nextBlockSize : Nat, top : Nat]
               /\ Len(q.blocks) = n /\ BlocksStay(p, q)
               /\ q.blocks[n].start = p.top /\ q.blocks[n].used = 0
               /\ q.blocks[n].size >= minimum
               /\ p.top + q.blocks[n].size = q.top
<1> DEFINE size == Max({p.nextBlockSize, minimum})
<1> DEFINE b == [start |-> p.top, used |-> 0, size |-> size]
<1> DEFINE q == createNewBlock(p, minimum)
<1> DEFINE n == Len(p.blocks) + 1
<1>1. /\ p.blocks \in Seq(Blocks) /\ p.nextBlockSize \in Nat /\ p.top \in Nat
      /\ Len(p.blocks) \in Nat \ {0}
  BY DEF IsPool
<1>2. size \in Nat /\ minimum <= size
  BY <1>1, MaxOfTwo
<1>3. p.top # 0
  <2>1. p.blocks[Len(p.blocks)] \in Blocks
    BY <1>1
  <2> QED
    BY <1>1, <2>1 DEF IsPool, Blocks
<1>4. b \in Blocks
  BY <1>1, <1>2, <1>3 DEF Blocks
<1>5. q = [blocks |-> Append(p.blocks, b), nextBlockSize |-> 2 * p.nextBlockSize,
           top |-> p.top + size]
  BY DEF createNewBlock
<1> HIDE DEF size, q
<1>6. b.start = p.top /\ b.used = 0 /\ b.size = size
  OBVIOUS
<1> HIDE DEF b
<1>7. /\ Append(p.blocks, b) \in Seq(Blocks) /\ Len(Append(p.blocks, b)) = n
      /\ \A i \in 1 .. Len(p.blocks) : Append(p.blocks, b)[i] = p.blocks[i]
      /\ Append(p.blocks, b)[n] = b
  BY <1>1, <1>4, SeqAppend
<1>8. BlocksStay(p, q)
  <2>1. DOMAIN p.blocks = 1 .. Len(p.blocks)
    BY <1>1
  <2>2. DOMAIN q.blocks = 1 .. Len(p.blocks) + 1
    BY <1>1, <1>5, <1>7
  <2> QED
    BY <1>1, <1>5, <1>7, <2>1, <2>2 DEF BlocksStay
<1>9. q \in [blocks : Seq(Blocks), nextBlockSize : Nat, top : Nat]
  BY <1>1, <1>2, <1>5, <1>7
<1>10. /\ q.blocks[n].start = p.top /\ q.blocks[n].used = 0
       /\ q.blocks[n].size >= minimum /\ p.top + q.blocks[n].size = q.top
       /\ Len(q.blocks) = n
  BY <1>2, <1>5, <1>6, <1>7
<1> QED
  BY <1>8, <1>9, <1>10 DEF q, n

\* malloc: the bytes of a new piece follow those of all earlier ones, and
\* they lie in a block.
LEMMA MallocGivesNewMemory ==
    ASSUME NEW p, NEW size, IsPool(p), size \in Nat \ {0}
    PROVE  LET q == malloc(p, size)
               a == Allocated(q, size)
           IN  /\ IsPool(q) /\ BlocksStay(p, q)
               /\ a \in Nat \ {0} /\ End(p) <= a /\ End(q) = a + size
               /\ InBlock(q, a, size)
<1> DEFINE last == p.blocks[Len(p.blocks)]
<1> DEFINE room == IF last.size - last.used < size THEN createNewBlock(p, size) ELSE p
<1> DEFINE n == Len(room.blocks)
<1> DEFINE old == room.blocks[n]
<1> DEFINE b == [old EXCEPT !.used = @ + size]
<1> DEFINE blocks == [room.blocks EXCEPT ![n] = b]
<1> DEFINE q == malloc(p, size)
<1> DEFINE a == Allocated(q, size)
<1>1. last \in Blocks /\ Len(p.blocks) \in Nat \ {0} /\ p.top \in Nat
      /\ End(p) = last.start + last.used /\ last.start + last.size = p.top
      /\ End(p) <= p.top
  BY DEF IsPool, End
<1> HIDE DEF last
<1>2. /\ room \in [blocks : Seq(Blocks), nextBlockSize : Nat, top : Nat]
      /\ n \in Nat \ {0} /\ BlocksStay(p, room)
      /\ old.used + size <= old.size /\ old.start + old.size = room.top
      /\ End(p) <= old.start + old.used
  <2>1. CASE last.size - last.used < size
    <3> DEFINE c == createNewBlock(p, size)
    <3>1. /\ c \in [blocks : Seq(Blocks), nextBlockSize : Nat, top : Nat]
          /\ Len(c.blocks) = Len(p.blocks) + 1 /\ BlocksStay(p, c)
          /\ c.blocks[Len(c.blocks)].start = p.top /\ c.blocks[Len(c.blocks)].used = 0
          /\ c.blocks[Len(c.blocks)].size >= size
          /\ p.top + c.blocks[Len(c.blocks)].size = c.top
      BY NewBlock
    <3>2. room = c
      BY <2>1
    <3> HIDE DEF c, room
    <3> DEFINE k == c.blocks[Len(c.blocks)]
    <3>3. k \in Blocks /\ Len(c.blocks) \in Nat \ {0}
      BY <1>1, <3>1
    <3>4. k.start = p.top /\ k.used = 0 /\ k.size >= size /\ p.top + k.size = c.top
      BY <3>1
    <3>5. old = k /\ n = Len(c.blocks)
      BY <3>2
    <3> HIDE DEF k, old, n
    <3>6. /\ old.used + size <= old.size /\ old.start + old.size = room.top
          /\ End(p) <= old.start + old.used
      BY <1>1, <3>2, <3>3, <3>4, <3>5 DEF Blocks
    <3> QED
      BY <3>1, <3>2, <3>3, <3>5, <3>6
  <2>2. CASE ~ (last.size - last.used < size)
    <3>1. room = p
      BY <2>2
    <3> HIDE DEF room
    <3> QED
      BY <1>1, <2>2, <3>1 DEF IsPool, BlocksStay, last, Blocks
  <2> QED
    BY <2>1, <2>2
<1>3. q = [room EXCEPT !.blocks[n].used = @ + size]
  BY DEF malloc, Last, last
<1> HIDE DEF room, q
<1>4. old \in Blocks /\ n \in 1 .. Len(room.blocks)
  BY <1>2
<1>5. q.blocks = blocks /\ q.top = room.top
      /\ q \in [blocks : Seq(Blocks), nextBlockSize : Nat, top : Nat]
  <2>1. b \in Blocks
    BY <1>4 DEF Blocks
  <2>2. blocks \in Seq(Blocks)
    BY <1>2, <1>4, <2>1, SeqExcept
  <2>3. q = [room EXCEPT !.blocks = blocks]
    BY <1>2, <1>3, <1>4
  <2> HIDE DEF blocks
  <2> QED
    BY <1>2, <2>2, <2>3
<1>6. b.start = old.start /\ b.size = old.size /\ b.used = old.used + size
  BY <1>4 DEF Blocks
<1> HIDE DEF b
<1>7. /\ Len(blocks) = n /\ blocks[n] = b
      /\ \A i \in 1 .. n : i # n => blocks[i] = room.blocks[i]
      /\ DOMAIN blocks = 1 .. n
  BY <1>2, <1>4
<1> HIDE DEF blocks
<1>8. End(q) = old.start + old.used + size
  BY <1>4, <1>5, <1>6, <1>7 DEF End, Blocks
<1>9. a = old.start + old.used
  <2>1. a = b.start + b.used - size
    BY <1>5, <1>7 DEF Allocated, Last
  <2>2. old.start \in Nat /\ old.used \in Nat
    BY <1>4 DEF Blocks
  <2> HIDE DEF a, old
  <2> QED
    BY <1>6, <2>1, <2>2
<1>10. IsPool(q)
  <2>1. Len(q.blocks) = n /\ q.blocks[n] = b
    BY <1>5, <1>7
  <2>2. End(q) <= q.top /\ b.start + b.size = q.top
    BY <1>2, <1>4, <1>5, <1>6, <1>8 DEF Blocks
  <2> HIDE DEF a, old, n
  <2> QED
    BY <1>2, <1>5, <2>1, <2>2 DEF IsPool
<1>11. BlocksStay(p, q)
  <2> SUFFICES ASSUME NEW i \in DOMAIN p.blocks
               PROVE  /\ i \in DOMAIN q.blocks
                      /\ q.blocks[i].start = p.blocks[i].start
                      /\ q.blocks[i].size = p.blocks[i].size
    BY DEF BlocksStay
  <2>1. /\ i \in DOMAIN room.blocks /\ room.blocks[i].start = p.blocks[i].start
        /\ room.blocks[i].size = p.blocks[i].size
    BY <1>2 DEF BlocksStay
  <2>2. i \in 1 .. n
    BY <1>2, <2>1
  <2> QED
    BY <1>5, <1>6, <1>7, <2>1, <2>2
<1>12. InBlock(q, a, size)
  <2>1. n \in DOMAIN q.blocks
    BY <1>2, <1>5, <1>7
  <2>2. q.blocks[n].start <= a /\ a + size <= q.blocks[n].start + q.blocks[n].size
    <3>1. q.blocks[n] = b
      BY <1>5, <1>7
    <3>2. old.start \in Nat /\ old.used \in Nat /\ old.size \in Nat
      BY <1>4 DEF Blocks
    <3>3. old.used + size <= old.size
      BY <1>2
    <3> HIDE DEF a, old, n
    <3> QED
      BY <1>6, <1>9, <3>1, <3>2, <3>3
  <2> QED
    BY <2>1, <2>2 DEF InBlock
<1>13. a \in Nat \ {0} /\ End(p) <= a /\ End(q) = a + size
  <2>1. old.start \in Nat \ {0} /\ old.used \in Nat
    BY <1>4 DEF Blocks
  <2>2. End(p) <= old.start + old.used
    BY <1>2
  <2> HIDE DEF a, old
  <2> QED
    BY <1>8, <1>9, <2>1, <2>2
<1> HIDE DEF a
<1> QED
  BY <1>10, <1>11, <1>12, <1>13 DEF a, q

\* A pool is created with an empty block.
LEMMA NewPool == IsPool(MemoryPool)
<1> DEFINE b == [start |-> 1, used |-> 0, size |-> Max({0, 0})]
<1>1. Max({0, 0}) \in Nat
  BY MaxOfTwo
<1>2. MemoryPool = [blocks |-> <<b>>, nextBlockSize |-> initialBlockSize,
                    top |-> 1 + Max({0, 0})]
  BY DEF MemoryPool, createNewBlock
<1>3. b \in Blocks /\ b.start = 1 /\ b.used = 0 /\ b.size = Max({0, 0})
  BY <1>1 DEF Blocks
<1> HIDE DEF b
<1>4. <<b>> \in Seq(Blocks) /\ Len(<<b>>) = 1 /\ <<b>>[1] = b
  BY <1>3
<1> QED
  BY <1>1, <1>2, <1>3, <1>4, SizesAssumption DEF IsPool, End

------------------------------------------------------------------------------
(* The header is the first piece of the pool; every node lies behind the    *)
(* nodes that were allocated before it.                                     *)

MemoryInv ==
    /\ IsPool(memoryPool)
    /\ phase = "build" => header.addr # NULL
    /\ header.addr # NULL =>
           /\ header.addr \in Nat \ {0} /\ DOMAIN node \subseteq Nat
           /\ header.addr + HeaderSize <= End(memoryPool)
           /\ InBlock(memoryPool, header.addr, HeaderSize)
           /\ \A a \in DOMAIN node :
                  /\ header.addr + HeaderSize <= a /\ a + NodeSize <= End(memoryPool)
                  /\ InBlock(memoryPool, a, NodeSize)
           /\ \A a, b \in DOMAIN node : a < b => a + NodeSize <= b

LEMMA MemoryInitially ==
    ExecInit => MemoryInv
BY NewPool DEF ExecInit, JoinInit, MemoryInv, NoHeader, NULL

\* The steps that change the pool, the header or the nodes.
LEMMA MemoryChanges ==
    ASSUME [ExecNext]_execVars
    PROVE  \/ produce \/ consumeLeft \/ build
           \/ cleanup \/ nextQuery
           \/ UNCHANGED <<memoryPool, header, node>> /\ (phase' = "build" => phase = "build")
BY DEF ExecNext, execVars, joinVars, startQuery, JoinOnly, groupMatch, probeMatch,
       loopDone, finishQuery, assertFails, skipLeft, addRow, removeRow,
       createTable, startProbe, consumeRight, lookupStep, lookupDone, probeMiss

\* Blocks that stay keep what lies in them.
LEMMA StaysInBlock ==
    ASSUME NEW p, NEW q, NEW from, NEW size, BlocksStay(p, q), InBlock(p, from, size)
    PROVE  InBlock(q, from, size)
<1>1. PICK i \in DOMAIN p.blocks :
          /\ p.blocks[i].start <= from
          /\ from + size <= p.blocks[i].start + p.blocks[i].size
  BY DEF InBlock
<1>2. /\ i \in DOMAIN q.blocks
      /\ q.blocks[i].start = p.blocks[i].start /\ q.blocks[i].size = p.blocks[i].size
  BY <1>1 DEF BlocksStay
<1>3. q.blocks[i].start <= from /\ from + size <= q.blocks[i].start + q.blocks[i].size
  BY <1>1, <1>2
<1> QED
  BY <1>2, <1>3 DEF InBlock

LEMMA MemoryStep ==
    ASSUME MemoryInv, [ExecNext]_execVars
    PROVE  MemoryInv'
<1>1. CASE produce
  <2> DEFINE q == malloc(MemoryPool, HeaderSize)
  <2> DEFINE a == Allocated(q, HeaderSize)
  <2>1. /\ memoryPool' = q /\ node' = <<>>
        /\ header' = [addr |-> a, next |-> NULL, last |-> a, len |-> 0]
    BY <1>1 DEF produce
  <2>2. /\ IsPool(q) /\ a \in Nat \ {0} /\ End(q) = a + HeaderSize
        /\ InBlock(q, a, HeaderSize)
    BY NewPool, MallocGivesNewMemory, JoinAssumption
  <2> HIDE DEF q, a
  <2>3. header'.addr = a /\ DOMAIN node' = {}
    BY <2>1
  <2> QED
    BY <2>1, <2>2, <2>3, JoinAssumption DEF MemoryInv, NULL
<1>2. CASE consumeLeft
  <2> DEFINE q == malloc(memoryPool, NodeSize)
  <2> DEFINE a == Allocated(q, NodeSize)
  <2>1. /\ memoryPool' = q /\ DOMAIN node' = DOMAIN node \cup {a}
        /\ phase = "build" /\ header'.addr = header.addr
    BY <1>2 DEF consumeLeft
  <2>2. /\ IsPool(q) /\ BlocksStay(memoryPool, q)
        /\ a \in Nat \ {0} /\ End(memoryPool) <= a /\ End(q) = a + NodeSize
        /\ InBlock(q, a, NodeSize)
    BY MallocGivesNewMemory, JoinAssumption DEF MemoryInv
  <2>3. End(memoryPool) \in Nat
    <3>1. memoryPool.blocks[Len(memoryPool.blocks)] \in Blocks
      BY DEF MemoryInv, IsPool
    <3> QED
      BY <3>1 DEF End, Blocks
  <2> HIDE DEF q, a
  <2>4. /\ header.addr \in Nat \ {0} /\ DOMAIN node \subseteq Nat
        /\ header.addr + HeaderSize <= End(memoryPool)
        /\ InBlock(memoryPool, header.addr, HeaderSize)
        /\ \A b \in DOMAIN node :
               /\ header.addr + HeaderSize <= b /\ b + NodeSize <= End(memoryPool)
               /\ InBlock(memoryPool, b, NodeSize)
        /\ \A b, c \in DOMAIN node : b < c => b + NodeSize <= c
    BY <2>1 DEF MemoryInv, NULL
  <2>5. HeaderSize \in Nat \ {0} /\ NodeSize \in Nat \ {0}
    BY JoinAssumption
  <2>6. InBlock(q, header.addr, HeaderSize)
    BY <2>2, <2>4, StaysInBlock
  <2>7. ASSUME NEW b \in DOMAIN node'
        PROVE  /\ header.addr + HeaderSize <= b /\ b + NodeSize <= End(q)
               /\ InBlock(q, b, NodeSize)
    <3>1. CASE b = a
      BY <2>2, <2>3, <2>4, <2>5, <3>1
    <3>2. CASE b \in DOMAIN node
      <4>1. InBlock(q, b, NodeSize)
        BY <2>2, <2>4, <3>2, StaysInBlock
      <4>2. header.addr + HeaderSize <= b /\ b + NodeSize <= End(q)
        BY <2>2, <2>3, <2>4, <2>5, <3>2
      <4> QED
        BY <4>1, <4>2
    <3> QED
      BY <2>1, <3>1, <3>2
  <2>8. ASSUME NEW b \in DOMAIN node', NEW c \in DOMAIN node', b < c
        PROVE  b + NodeSize <= c
    <3>1. CASE b \in DOMAIN node /\ c \in DOMAIN node
      BY <2>4, <2>8, <3>1
    <3>2. CASE b \in DOMAIN node /\ c = a
      BY <2>2, <2>3, <2>4, <2>5, <3>2
    <3>3. CASE b = a
      <4>1. ~ (c \in DOMAIN node)
        BY <2>2, <2>3, <2>4, <2>5, <2>8, <3>3
      <4> QED
        BY <2>1, <2>2, <2>8, <3>3, <4>1
    <3> QED
      BY <2>1, <3>1, <3>2, <3>3
  <2>9. DOMAIN node' \subseteq Nat /\ header.addr + HeaderSize <= End(q)
    BY <2>1, <2>2, <2>3, <2>4, <2>5
  <2> QED
    BY <2>1, <2>2, <2>4, <2>6, <2>7, <2>8, <2>9 DEF MemoryInv
<1>3. CASE build
  <2>1. /\ DOMAIN node' = DOMAIN node /\ UNCHANGED <<memoryPool, header, phase>>
    BY <1>3 DEF build
  <2> QED
    BY <2>1 DEF MemoryInv
<1>4. CASE cleanup \/ nextQuery
  <2>1. memoryPool' = MemoryPool /\ header'.addr = NULL /\ phase' # "build"
    BY <1>4 DEF cleanup, nextQuery, NoHeader
  <2> QED
    BY <2>1, NewPool DEF MemoryInv
<1>5. CASE UNCHANGED <<memoryPool, header, node>> /\ (phase' = "build" => phase = "build")
  BY <1>5 DEF MemoryInv
<1> QED
  BY <1>1, <1>2, <1>3, <1>4, <1>5, MemoryChanges

LEMMA MemoryAlways == ExecSpec => []MemoryInv
BY MemoryInitially, MemoryStep, PTL DEF ExecSpec

LEMMA PiecesApart ==
    ASSUME MemoryInv PROVE NodesKeepTheirMemory
<1> SUFFICES ASSUME header.addr # NULL
             PROVE  /\ \A p, q \in Pieces : p = q \/ p.to < q.from \/ q.to < p.from
                    /\ \A p \in Pieces : \E i \in DOMAIN memoryPool.blocks :
                           LET b == memoryPool.blocks[i]
                           IN  b.start <= p.from /\ p.to < b.start + b.size
  BY DEF NodesKeepTheirMemory
<1> DEFINE Piece(a, size) == [from |-> a, to |-> a + size - 1]
<1>1. /\ header.addr \in Nat \ {0} /\ DOMAIN node \subseteq Nat
      /\ InBlock(memoryPool, header.addr, HeaderSize)
      /\ \A a \in DOMAIN node :
             header.addr + HeaderSize <= a /\ InBlock(memoryPool, a, NodeSize)
      /\ \A a, b \in DOMAIN node : a < b => a + NodeSize <= b
      /\ HeaderSize \in Nat \ {0} /\ NodeSize \in Nat \ {0}
  BY JoinAssumption DEF MemoryInv
<1>2. memoryPool.blocks \in Seq(Blocks)
  BY DEF MemoryInv, IsPool
<1>3. \A p \in Pieces : \/ \E a \in DOMAIN node : p = Piece(a, NodeSize)
                        \/ p = Piece(header.addr, HeaderSize)
  BY DEF Pieces
<1>4. ASSUME NEW p \in Pieces, NEW q \in Pieces, p # q
      PROVE  p.to < q.from \/ q.to < p.from
  <2>1. CASE \E a, b \in DOMAIN node : p = Piece(a, NodeSize) /\ q = Piece(b, NodeSize)
    <3>1. PICK a \in DOMAIN node, b \in DOMAIN node :
              p = Piece(a, NodeSize) /\ q = Piece(b, NodeSize)
      BY <2>1
    <3>2. a # b /\ a \in Nat /\ b \in Nat
      BY <1>1, <1>4, <3>1
    <3>3. p.from = a /\ p.to = a + NodeSize - 1 /\ q.from = b /\ q.to = b + NodeSize - 1
      BY <3>1
    <3> QED
      BY <1>1, <3>2, <3>3
  <2>2. CASE \E a \in DOMAIN node : p = Piece(a, NodeSize) /\ q = Piece(header.addr, HeaderSize)
    BY <1>1, <2>2
  <2>3. CASE \E a \in DOMAIN node : q = Piece(a, NodeSize) /\ p = Piece(header.addr, HeaderSize)
    BY <1>1, <2>3
  <2> QED
    BY <1>3, <1>4, <2>1, <2>2, <2>3
<1>5. ASSUME NEW a \in Nat, NEW size \in Nat, InBlock(memoryPool, a, size)
      PROVE  \E i \in DOMAIN memoryPool.blocks :
                 LET b == memoryPool.blocks[i]
                 IN  b.start <= Piece(a, size).from /\ Piece(a, size).to < b.start + b.size
  <2>1. PICK i \in DOMAIN memoryPool.blocks :
            /\ memoryPool.blocks[i].start <= a
            /\ a + size <= memoryPool.blocks[i].start + memoryPool.blocks[i].size
    BY <1>5 DEF InBlock
  <2>2. memoryPool.blocks[i].start \in Nat /\ memoryPool.blocks[i].size \in Nat
    <3>1. memoryPool.blocks[i] \in Blocks
      BY <1>2
    <3> QED
      BY <3>1 DEF Blocks
  <2>3. Piece(a, size).from = a /\ Piece(a, size).to = a + size - 1
    OBVIOUS
  <2> QED
    BY <2>1, <2>2, <2>3
<1>6. ASSUME NEW p \in Pieces
      PROVE  \E i \in DOMAIN memoryPool.blocks :
                 LET b == memoryPool.blocks[i]
                 IN  b.start <= p.from /\ p.to < b.start + b.size
  <2>1. CASE \E a \in DOMAIN node : p = Piece(a, NodeSize)
    <3>1. PICK a \in DOMAIN node : p = Piece(a, NodeSize)
      BY <2>1
    <3>2. a \in Nat /\ InBlock(memoryPool, a, NodeSize) /\ NodeSize \in Nat
      BY <1>1
    <3> HIDE DEF Piece
    <3> QED
      BY <1>5, <3>1, <3>2
  <2>2. CASE p = Piece(header.addr, HeaderSize)
    <3>1. /\ header.addr \in Nat /\ HeaderSize \in Nat
          /\ InBlock(memoryPool, header.addr, HeaderSize)
      BY <1>1
    <3> HIDE DEF Piece
    <3> QED
      BY <1>5, <2>2, <3>1
  <2> QED
    BY <1>3, <2>1, <2>2
<1> QED
  BY <1>4, <1>6

\* The memory pool gives the header and every node bytes of their own, inside
\* one of its blocks (MemoryPool::malloc, createNewBlock).
THEOREM ExecNodesKeepTheirMemory == ExecSpec => []NodesKeepTheirMemory
BY MemoryAlways, PiecesApart, PTL

------------------------------------------------------------------------------
(* The chains of the join.  Later nodes have higher addresses, so that the  *)
(* list runs upwards through the nodes and every bucket runs downwards.     *)

Joining == {"build", "insert", "probe", "lookup", "candidates"}

ListNodes == [next : Nat, hash : Nat, tuple : LeftRows]
Headers == [addr : Nat, next : Nat, last : Nat, len : Nat]

\* x is the lowest, or the highest, address in S: the null pointer if there is none.
IsFirst(x, S) == \/ x = NULL /\ S = {}
                 \/ x \in S /\ \A s \in S : x <= s
IsLast(x, S) == \/ x = NULL /\ S = {}
                \/ x \in S /\ \A s \in S : s <= x
Above(S, a) == {b \in S : a < b}
Below(S, a) == {b \in S : b < a}

\* The nodes of the list, which build has not moved yet, and where it starts.
Listed == IF phase = "build" THEN DOMAIN node
          ELSE IF phase = "insert" /\ current # NULL THEN {a \in DOMAIN node : current <= a}
          ELSE {}
FirstListed == IF phase = "build" THEN header.next
               ELSE IF phase = "insert" THEN current ELSE NULL

\* The nodes of a bucket.
InBucket(h) == {a \in DOMAIN node \ Listed : bucketOf(node[a].hash) = h}

NodesInv ==
    /\ DOMAIN node \subseteq Nat \ {0} /\ IsFiniteSet(DOMAIN node)
    /\ node \in [DOMAIN node -> ListNodes]
    /\ header \in Headers
    /\ header.addr \notin DOMAIN node /\ header.len = Cardinality(DOMAIN node)

ListInv ==
    /\ IsFirst(FirstListed, Listed)
    /\ \A a \in Listed : IsFirst(node[a].next, Above(Listed, a))
    /\ phase = "build" =>
           /\ table = <<>>
           /\ \/ header.last = header.addr /\ DOMAIN node = {}
              \/ header.last \in DOMAIN node /\ \A a \in DOMAIN node : a <= header.last

BucketsInv ==
    phase # "build" =>
        /\ Cardinality(DOMAIN table) \in Nat \ {0}
        /\ DOMAIN table = 0 .. Cardinality(DOMAIN table) - 1
        /\ \A h \in DOMAIN table : IsLast(table[h], InBucket(h))
        /\ \A a \in DOMAIN node \ Listed :
               IsLast(node[a].next, Below(InBucket(bucketOf(node[a].hash)), a))

\* The nodes that hold a row, and the places of the row among the first n ones.
Copies(row) == {a \in DOMAIN node : node[a].tuple = row}
Places(row, n) == {i \in 1 .. n : rows.left[i] = row /\ Selected(row)}

CountInv ==
    /\ phase = "build" => index \in Nat \ {0} /\ index <= left.count + 1
    /\ \A row \in LeftRows : Cardinality(Copies(row)) = Cardinality(Places(row, Scanned))

ChainInv == phase \in Joining => NodesInv /\ ListInv /\ BucketsInv /\ CountInv

------------------------------------------------------------------------------
(* The size of the table.                                                   *)

\* The numbers powerOfTwo stands for.
LEMMA PowerOfTwo ==
    /\ powerOfTwo[0] = 1
    /\ \A n \in Nat : powerOfTwo[n] \in Nat \ {0} /\ powerOfTwo[n + 1] = 2 * powerOfTwo[n]
<1>1. Raises(powerOfTwo, 2)
  BY Zenon DEF Raises, powerOfTwo
<1>2. Powers(powerOfTwo, 2)
  BY <1>1, PowersOf
<1> QED
  BY <1>2 DEF Powers

LEMMA PowersGrow ==
    \A n \in Nat : 2 * n <= powerOfTwo[n]
<1> DEFINE Good == {n \in Nat : 2 * n <= powerOfTwo[n]}
<1>1. 0 \in Good
  BY PowerOfTwo
<1>2. ASSUME NEW n \in Nat, n \in Good PROVE n + 1 \in Good
  <2>1. powerOfTwo[n] \in Nat \ {0} /\ powerOfTwo[n + 1] = 2 * powerOfTwo[n]
    BY PowerOfTwo
  <2>2. 2 * n <= powerOfTwo[n]
    BY <1>2
  <2>3. 2 * (n + 1) <= 2 * powerOfTwo[n]
    BY <2>1, <2>2
  <2> QED
    BY <2>1, <2>3
<1>3. \A n \in Nat : n \in Good
  <2> HIDE DEF Good
  <2> QED
    BY <1>1, <1>2, NatSetInduction
<1> QED
  BY <1>3

\* There is a size for every length of the list.
LEMMA TableSize ==
    ASSUME NEW len, len \in Nat
    PROVE  tableSize(len) \in Nat \ {0} /\ 4 * len <= 3 * tableSize(len)
<1> DEFINE Enough(p) == 3 * powerOfTwo[p] >= 4 * len
<1> DEFINE S == {p \in 0 .. (len + 1) : Enough(p)}
<1> DEFINE Smallest(p) == Enough(p) /\ \A q \in 0 .. (p - 1) : 3 * powerOfTwo[q] < 4 * len
<1>1. len + 1 \in S
  <2>1. powerOfTwo[len + 1] \in Nat /\ 2 * (len + 1) <= powerOfTwo[len + 1]
    BY PowerOfTwo, PowersGrow
  <2> QED
    BY <2>1
<1>2. PICK m \in S : \A n \in 0 .. m - 1 : n \notin S
  <2>1. S \in SUBSET Nat
    OBVIOUS
  <2> HIDE DEF S
  <2> QED
    BY <1>1, <2>1, NatSetMin
<1>3. m \in 0 .. (len + 1) /\ Smallest(m)
  <2>1. ASSUME NEW q \in 0 .. (m - 1) PROVE 3 * powerOfTwo[q] < 4 * len
    <3>1. q \in 0 .. (len + 1) /\ q \in Nat
      BY <1>2
    <3>2. powerOfTwo[q] \in Nat
      BY <3>1, PowerOfTwo
    <3>3. ~ Enough(q)
      BY <1>2, <3>1
    <3> QED
      BY <3>2, <3>3
  <2> QED
    BY <1>2, <2>1
<1> DEFINE c == CHOOSE p \in 0 .. (len + 1) : Smallest(p)
<1>4. c \in 0 .. (len + 1) /\ Smallest(c)
  <2> HIDE DEF Smallest
  <2> QED
    BY <1>3
<1>5. tableSize(len) = powerOfTwo[c]
  BY DEF tableSize
<1> HIDE DEF c
<1>6. powerOfTwo[c] \in Nat \ {0}
  BY <1>4, PowerOfTwo
<1> QED
  BY <1>4, <1>5, <1>6

------------------------------------------------------------------------------
(* A chain meets the elements of a set in the order of their keys.          *)

\* Along F from start, the elements of M follow one another by their keys.
Follows(F, start, M, K) ==
    /\ K \in [M -> Int] /\ \A a, b \in M : K[a] = K[b] => a = b
    /\ \/ start = NULL /\ M = {}
       \/ start \in M /\ \A b \in M : K[start] <= K[b]
    /\ \A a \in M : \/ F[a] = NULL /\ \A b \in M : K[b] <= K[a]
                   \/ /\ F[a] \in M /\ K[a] < K[F[a]]
                      /\ \A b \in M : K[a] < K[b] => K[F[a]] <= K[b]

\* The walk w meets every element of M at one of its first places, and no other element.
MeetsOnce(w, M) ==
    /\ \A n \in Nat : w[n] \in M \cup {NULL}
    /\ \A a \in M : \E n \in Nat :
           /\ n < Cardinality(M)
           /\ \A m \in Nat : w[m] = a <=> m = n

LEMMA ChainMeetsEachOnce ==
    ASSUME NEW A, NEW M, NEW K, NEW F, NEW start,
           IsFiniteSet(M), M \subseteq A, NULL \notin A,
           F \in [A \cup {NULL} -> A \cup {NULL}], F[NULL] = NULL,
           Follows(F, start, M, K)
    PROVE  MeetsOnce(Walk(F, start), M)
<1>1. /\ K \in [M -> Int] /\ \A a, b \in M : K[a] = K[b] => a = b
      /\ \/ start = NULL /\ M = {}
         \/ start \in M /\ \A b \in M : K[start] <= K[b]
      /\ \A a \in M : \/ F[a] = NULL /\ \A b \in M : K[b] <= K[a]
                     \/ /\ F[a] \in M /\ K[a] < K[F[a]]
                        /\ \A b \in M : K[a] < K[b] => K[F[a]] <= K[b]
  BY DEF Follows
<1> DEFINE before(a) == {b \in M : K[b] < K[a]}
<1> DEFINE rank == [a \in M |-> Cardinality(before(a))]
<1> DEFINE w == Walk(F, start)
<1>2. Cardinality(M) \in Nat
  BY FS_CardinalityType
<1>3. ASSUME NEW a \in M
      PROVE  /\ IsFiniteSet(before(a)) /\ rank[a] \in Nat /\ rank[a] < Cardinality(M)
  <2>1. before(a) \in SUBSET M /\ before(a) # M
    <3>1. a \notin before(a)
      BY <1>1
    <3> QED
      BY <3>1
  <2> HIDE DEF before
  <2>2. IsFiniteSet(before(a)) /\ Cardinality(before(a)) <= Cardinality(M)
        /\ Cardinality(M) # Cardinality(before(a))
    BY <2>1, FS_Subset
  <2>3. Cardinality(before(a)) \in Nat
    BY <2>2, FS_CardinalityType
  <2> QED
    BY <1>2, <2>2, <2>3
<1>4. ASSUME NEW a \in M, NEW b \in M, K[a] < K[b] PROVE rank[a] < rank[b]
  <2>1. before(a) \in SUBSET before(b) /\ before(a) # before(b)
    <3>1. \A c \in before(a) : c \in before(b)
      BY <1>1, <1>4
    <3>2. a \in before(b) /\ a \notin before(a)
      BY <1>1, <1>4
    <3> QED
      BY <3>1, <3>2
  <2>2. rank[a] = Cardinality(before(a)) /\ rank[b] = Cardinality(before(b))
    OBVIOUS
  <2> HIDE DEF before, rank
  <2>3. /\ Cardinality(before(a)) <= Cardinality(before(b))
        /\ Cardinality(before(a)) # Cardinality(before(b))
    BY <1>3, <2>1, FS_Subset
  <2> QED
    BY <1>3, <2>2, <2>3
<1>5. ASSUME NEW a \in M, NEW b \in M, K[a] < K[b], \A c \in M : K[a] < K[c] => K[b] <= K[c]
      PROVE  rank[b] = rank[a] + 1
  <2>1. before(b) = before(a) \cup {a}
    <3>1. \A c \in M : K[c] < K[b] <=> (K[c] < K[a] \/ c = a)
      <4> SUFFICES ASSUME NEW c \in M PROVE K[c] < K[b] <=> (K[c] < K[a] \/ c = a)
        OBVIOUS
      <4>1. K[a] \in Int /\ K[b] \in Int /\ K[c] \in Int
        BY <1>1
      <4>2. K[c] = K[a] => c = a
        BY <1>1
      <4>3. K[a] < K[c] => K[b] <= K[c]
        BY <1>5
      <4> QED
        BY <1>5, <4>1, <4>2, <4>3
    <3> QED
      BY <3>1
  <2>2. a \notin before(a)
    BY <1>1
  <2>3. rank[a] = Cardinality(before(a)) /\ rank[b] = Cardinality(before(b))
    OBVIOUS
  <2> HIDE DEF before, rank
  <2>4. Cardinality(before(a) \cup {a}) = Cardinality(before(a)) + 1
    BY <1>3, <2>2, FS_AddElement
  <2> QED
    BY <2>1, <2>3, <2>4
<1>6. Visits(w, A \cup {NULL}, F, start)
  <2>1. start \in A \cup {NULL}
    BY <1>1
  <2> QED
    BY <2>1, WalkVisits, Zenon
<1>7. \A a \in M : rank[a] \in Nat
  BY <1>3
<1> HIDE DEF w
<1> DEFINE At(n) == \/ w[n] \in M /\ rank[w[n]] = n
                    \/ w[n] = NULL /\ \A b \in M : rank[b] < n
<1> DEFINE Good == {n \in Nat : At(n)}
<1>8. 0 \in Good
  <2>1. w[0] = start
    BY <1>6 DEF Visits
  <2>2. CASE start = NULL /\ M = {}
    BY <2>1, <2>2
  <2>3. CASE start \in M /\ \A b \in M : K[start] <= K[b]
    <3>1. before(start) = {}
      BY <1>1, <2>3
    <3>2. rank[start] = 0
      BY <2>3, <3>1, FS_EmptySet
    <3> HIDE DEF rank
    <3> QED
      BY <2>1, <2>3, <3>2
  <2> QED
    BY <1>1, <2>2, <2>3
<1>9. ASSUME NEW n \in Nat, n \in Good PROVE n + 1 \in Good
  <2>1. w[n + 1] = F[w[n]]
    BY <1>6 DEF Visits
  <2>2. CASE w[n] = NULL /\ \A b \in M : rank[b] < n
    <3> HIDE DEF rank
    <3>1. \A b \in M : rank[b] < n + 1
      BY <1>7, <2>2
    <3> QED
      BY <2>1, <2>2, <3>1
  <2>3. CASE w[n] \in M /\ rank[w[n]] = n
    <3> DEFINE a == w[n]
    <3>1. CASE F[a] = NULL /\ \A b \in M : K[b] <= K[a]
      <4>1. ASSUME NEW b \in M PROVE rank[b] < n + 1
        <5> HIDE DEF rank
        <5>1. CASE b = a
          BY <2>3, <5>1
        <5>2. CASE b # a
          <6>1. K[b] < K[a]
            BY <1>1, <2>3, <3>1, <5>2
          <6>2. rank[b] < rank[a]
            BY <1>4, <2>3, <6>1
          <6> QED
            BY <1>7, <2>3, <6>2
        <5> QED
          BY <5>1, <5>2
      <4> HIDE DEF rank
      <4> QED
        BY <2>1, <3>1, <4>1
    <3>2. CASE /\ F[a] \in M /\ K[a] < K[F[a]]
               /\ \A b \in M : K[a] < K[b] => K[F[a]] <= K[b]
      <4> HIDE DEF rank
      <4>1. rank[F[a]] = rank[a] + 1
        BY <1>5, <2>3, <3>2
      <4> QED
        BY <2>1, <2>3, <3>2, <4>1
    <3> QED
      BY <1>1, <2>3, <3>1, <3>2
  <2> QED
    BY <1>9, <2>2, <2>3
<1>10. \A n \in Nat : At(n)
  <2>1. \A n \in Nat : n \in Good
    <3> HIDE DEF Good
    <3> QED
      BY <1>8, <1>9, NatSetInduction
  <2> QED
    BY <2>1
<1> HIDE DEF rank
<1>11. \A n \in Nat : w[n] \in M \cup {NULL}
  BY <1>10
<1>12. ASSUME NEW a \in M
       PROVE  \A m \in Nat : w[m] = a <=> m = rank[a]
  <2> SUFFICES ASSUME NEW m \in Nat PROVE w[m] = a <=> m = rank[a]
    OBVIOUS
  <2>1. At(m)
    BY <1>10
  <2>2. ASSUME w[m] = a PROVE m = rank[a]
    BY <2>1, <2>2
  <2>3. ASSUME m = rank[a] PROVE w[m] = a
    <3>1. w[m] \in M /\ rank[w[m]] = m
      BY <1>3, <2>1, <2>3
    <3>2. ~ (K[w[m]] < K[a]) /\ ~ (K[a] < K[w[m]])
      BY <1>3, <1>4, <2>3, <3>1
    <3>3. K[w[m]] = K[a]
      BY <1>1, <3>1, <3>2
    <3> QED
      BY <1>1, <3>1, <3>3
  <2> QED
    BY <2>2, <2>3
<1>13. ASSUME NEW a \in M
       PROVE  \E n \in Nat : /\ n < Cardinality(M)
                            /\ \A m \in Nat : w[m] = a <=> m = n
  <2>1. rank[a] \in Nat /\ rank[a] < Cardinality(M)
    BY <1>3
  <2> HIDE DEF before
  <2> QED
    BY <1>12, <2>1, Zenon
<1> QED
  BY <1>11, <1>13 DEF w, MeetsOnce

------------------------------------------------------------------------------
(* The steps of the join keep the chains.                                   *)

Probing == {"probe", "lookup", "candidates"}

LEMMA JoinChanges ==
    ASSUME [ExecNext]_execVars
    PROVE  \/ produce \/ skipLeft \/ consumeLeft \/ createTable \/ build \/ startProbe
           \/ /\ phase \in Probing /\ phase' \in Probing
              /\ UNCHANGED <<left, rows, header, node, table>>
           \/ phase' \notin Joining
           \/ UNCHANGED joinVars
BY DEF ExecNext, execVars, joinVars, startQuery, JoinOnly, groupMatch, probeMatch, nextQuery,
       loopDone, finishQuery, cleanup, assertFails, addRow, removeRow, consumeRight, lookupStep,
       lookupDone, probeMiss, Probing, Joining

LEMMA ProduceStep ==
    ASSUME ColumnsInv, MemoryInv', produce
    PROVE  ChainInv'
<1>1. /\ node' = <<>> /\ table' = <<>> /\ phase' = "build" /\ index' = 1
      /\ header'.next = NULL /\ header'.last = header'.addr /\ header'.len = 0
      /\ header' \in [addr : {header'.addr}, next : {NULL}, last : {header'.addr}, len : {0}]
      /\ left' = left /\ rows' = rows
  BY DEF produce
<1>2. header'.addr \in Nat
  BY <1>1 DEF MemoryInv
<1>3. DOMAIN node' = {} /\ Listed' = {}
  BY <1>1 DEF Listed
<1>4. IsFiniteSet({}) /\ Cardinality({}) = 0
  BY FS_EmptySet
<1>5. NodesInv'
  <2>1. header' \in Headers
    BY <1>1, <1>2 DEF Headers, NULL
  <2>2. node' \in [DOMAIN node' -> ListNodes]
    BY <1>1
  <2> QED
    BY <1>1, <1>3, <1>4, <2>1, <2>2 DEF NodesInv
<1>6. ListInv'
  BY <1>1, <1>3 DEF ListInv, IsFirst, FirstListed
<1>7. BucketsInv'
  BY <1>1 DEF BucketsInv
<1>8. CountInv'
  <2>1. left.count \in Nat
    BY DEF ColumnsInv, IsVector
  <2>2. ASSUME NEW row \in LeftRows
        PROVE  Copies(row)' = {} /\ Places(row, Scanned)' = {}
    BY <1>1, <1>3 DEF Copies, Places, Scanned
  <2>3. (phase = "build" => index \in Nat \ {0} /\ index <= left.count + 1)'
    BY <1>1, <2>1
  <2>4. (\A row \in LeftRows : Cardinality(Copies(row)) = Cardinality(Places(row, Scanned)))'
    BY <2>2
  <2> QED
    BY <2>3, <2>4 DEF CountInv
<1> QED
  BY <1>5, <1>6, <1>7, <1>8 DEF ChainInv

\* The row under the scan.
LEMMA ScannedRow ==
    ASSUME ColumnsInv, index \in Nat \ {0}, index <= left.count
    PROVE  /\ at(left, index) = rows.left[index] /\ at(left, index) \in LeftRows
           /\ left.count \in Nat
<1>1. left.count = Len(rows.left) /\ left.count \in Nat
  BY DEF ColumnsInv, IsVector, Holds
<1>2. index \in 1 .. left.count
  BY <1>1
<1>3. left.array[index] = rows.left[index]
  BY <1>2 DEF ColumnsInv, Holds
<1>4. rows.left[index] \in LeftRows
  BY <1>1, <1>2 DEF ColumnsInv
<1> QED
  BY <1>1, <1>3, <1>4 DEF at

LEMMA PlacesGrow ==
    ASSUME NEW row, NEW n, n \in Nat \ {0}
    PROVE  /\ IsFiniteSet(Places(row, n - 1)) /\ n \notin Places(row, n - 1)
           /\ Places(row, n) = IF rows.left[n] = row /\ Selected(row)
                               THEN Places(row, n - 1) \cup {n} ELSE Places(row, n - 1)
<1>1. IsFiniteSet(1 .. n - 1)
  BY FS_Interval
<1>2. Places(row, n - 1) \in SUBSET (1 .. n - 1)
  BY DEF Places
<1>3. IsFiniteSet(Places(row, n - 1))
  BY <1>1, <1>2, FS_Subset
<1> QED
  BY <1>3 DEF Places

LEMMA SkipStep ==
    ASSUME ColumnsInv, ChainInv, skipLeft
    PROVE  ChainInv'
<1>1. /\ phase = "build" /\ phase' = "build" /\ index <= left.count
      /\ ~ Selected(at(left, index)) /\ index' = index + 1
      /\ UNCHANGED <<left, rows, header, node, table, current>>
  BY DEF skipLeft
<1>2. NodesInv /\ ListInv /\ BucketsInv /\ CountInv
  BY <1>1 DEF ChainInv, Joining
<1>3. Listed' = Listed /\ FirstListed' = FirstListed
  BY <1>1 DEF Listed, FirstListed
<1>4. NodesInv'
  BY <1>1, <1>2 DEF NodesInv
<1>5. ListInv'
  BY <1>1, <1>2, <1>3 DEF ListInv
<1>6. BucketsInv'
  BY <1>1 DEF BucketsInv
<1>7. CountInv'
  <2>1. index \in Nat \ {0} /\ left.count \in Nat /\ at(left, index) = rows.left[index]
    BY <1>1, <1>2, ScannedRow DEF CountInv
  <2>2. ASSUME NEW row \in LeftRows
        PROVE  Cardinality(Copies(row)') = Cardinality(Places(row, Scanned)')
    <3>1. Places(row, index) = Places(row, index - 1)
      BY <1>1, <2>1, PlacesGrow
    <3>2. Places(row, Scanned)' = Places(row, index) /\ Scanned = index - 1
      BY <1>1, <2>1 DEF Places, Scanned
    <3>3. Copies(row)' = Copies(row)
      BY <1>1 DEF Copies
    <3> QED
      BY <1>2, <3>1, <3>2, <3>3 DEF CountInv
  <2> QED
    BY <1>1, <2>1, <2>2 DEF CountInv
<1> QED
  BY <1>4, <1>5, <1>6, <1>7 DEF ChainInv

\* A node is appended: it lies above all others, and the last one points to it.
LEMMA ConsumeStep ==
    ASSUME ColumnsInv, MemoryInv, ChainInv, consumeLeft
    PROVE  ChainInv'
<1> DEFINE q == malloc(memoryPool, NodeSize)
<1> DEFINE addr == Allocated(q, NodeSize)
<1> DEFINE tuple == at(left, index)
<1> DEFINE new == [next |-> NULL, hash |-> Hash(tuple.key), tuple |-> tuple]
<1> DEFINE A == DOMAIN node
<1>1. /\ phase = "build" /\ phase' = "build" /\ index <= left.count /\ Selected(tuple)
      /\ header' = [header EXCEPT !.next = IF header.last = header.addr THEN addr ELSE @,
                                  !.last = addr, !.len = @ + 1]
      /\ node' = [a \in A \cup {addr} |->
                     IF a = addr THEN new
                     ELSE IF a = header.last THEN [node[a] EXCEPT !.next = addr]
                     ELSE node[a]]
      /\ index' = index + 1 /\ UNCHANGED <<left, rows, table>>
  BY DEF consumeLeft
<1>2. NodesInv /\ ListInv /\ CountInv
  BY <1>1 DEF ChainInv, Joining
<1>3. /\ tuple = rows.left[index] /\ tuple \in LeftRows
      /\ index \in Nat \ {0} /\ left.count \in Nat
  BY <1>1, <1>2, ScannedRow DEF CountInv
<1>4. addr \in Nat \ {0} /\ addr # header.addr /\ \A a \in A : a < addr
  <2>1. addr \in Nat \ {0} /\ End(memoryPool) <= addr
    BY MallocGivesNewMemory, JoinAssumption DEF MemoryInv
  <2>2. End(memoryPool) \in Nat
    <3>1. memoryPool.blocks[Len(memoryPool.blocks)] \in Blocks
      BY DEF MemoryInv, IsPool
    <3> QED
      BY <3>1 DEF End, Blocks
  <2>3. /\ header.addr \in Nat /\ A \subseteq Nat
        /\ header.addr + HeaderSize <= End(memoryPool)
        /\ \A a \in A : a + NodeSize <= End(memoryPool)
    BY <1>1 DEF MemoryInv
  <2> HIDE DEF addr
  <2> QED
    BY <2>1, <2>2, <2>3, JoinAssumption
<1>5. new \in ListNodes /\ new.next = NULL /\ new.tuple = tuple
  <2>1. Hash(tuple.key) \in Nat
    BY <1>3, JoinAssumption
  <2> HIDE DEF tuple
  <2> QED
    BY <1>3, <2>1 DEF ListNodes, NULL
<1> HIDE DEF q, addr, tuple, new
<1>6. /\ A \subseteq Nat \ {0} /\ IsFiniteSet(A) /\ node \in [A -> ListNodes]
      /\ header \in Headers /\ header.addr \notin A /\ header.len = Cardinality(A)
  BY <1>2 DEF NodesInv
<1>7. /\ header'.addr = header.addr /\ header'.last = addr /\ header'.len = header.len + 1
      /\ header'.next = IF header.last = header.addr THEN addr ELSE header.next
      /\ header' \in Headers
  <2> DEFINE start == IF header.last = header.addr THEN addr ELSE header.next
  <2>1. header' = [header EXCEPT !.next = start, !.last = addr, !.len = header.len + 1]
    BY <1>1
  <2>2. header.addr \in Nat /\ header.next \in Nat /\ header.len \in Nat
    BY <1>6 DEF Headers
  <2>3. start \in Nat /\ addr \in Nat /\ header.len + 1 \in Nat
    BY <1>4, <2>2
  <2> HIDE DEF start
  <2>4. header' = [addr |-> header.addr, next |-> start, last |-> addr, len |-> header.len + 1]
    BY <1>6, <2>1 DEF Headers
  <2>5. header' \in Headers
    BY <2>2, <2>3, <2>4 DEF Headers
  <2> QED
    BY <2>4, <2>5 DEF start
<1>8. DOMAIN node' = A \cup {addr} /\ addr \notin A
  BY <1>1, <1>4, <1>6
<1>9. /\ node'[addr] = new
      /\ \A a \in A : /\ node'[a] \in ListNodes
                      /\ node'[a].hash = node[a].hash /\ node'[a].tuple = node[a].tuple
                      /\ node'[a].next = IF a = header.last THEN addr ELSE node[a].next
  <2> SUFFICES ASSUME NEW a \in A
               PROVE  /\ node'[a] \in ListNodes
                      /\ node'[a].hash = node[a].hash /\ node'[a].tuple = node[a].tuple
                      /\ node'[a].next = IF a = header.last THEN addr ELSE node[a].next
    BY <1>1
  <2>1. node[a] \in ListNodes /\ a # addr
    BY <1>6, <1>8
  <2>2. node'[a] = IF a = header.last THEN [node[a] EXCEPT !.next = addr] ELSE node[a]
    BY <1>1, <2>1
  <2> QED
    BY <1>4, <2>1, <2>2 DEF ListNodes
<1>10. NodesInv'
  <2>1. IsFiniteSet(A \cup {addr}) /\ Cardinality(A \cup {addr}) = Cardinality(A) + 1
    BY <1>6, <1>8, FS_AddElement
  <2>2. node' \in [A \cup {addr} -> ListNodes]
    <3>1. node' = [a \in A \cup {addr} |-> node'[a]]
      BY <1>1
    <3>2. \A a \in A \cup {addr} : node'[a] \in ListNodes
      BY <1>5, <1>9
    <3> QED
      BY <3>1, <3>2
  <2>3. A \cup {addr} \subseteq Nat \ {0} /\ header'.addr \notin A \cup {addr}
        /\ header'.len = Cardinality(A \cup {addr})
    BY <1>4, <1>6, <1>7, <2>1
  <2> QED
    BY <1>7, <1>8, <2>1, <2>2, <2>3 DEF NodesInv
<1>11. /\ Listed = A /\ Listed' = A \cup {addr}
       /\ FirstListed = header.next /\ FirstListed' = header'.next
  BY <1>1, <1>8 DEF Listed, FirstListed
<1>12. /\ IsFirst(header.next, A) /\ table = <<>>
       /\ \A a \in A : IsFirst(node[a].next, Above(A, a))
       /\ \/ header.last = header.addr /\ A = {}
          \/ header.last \in A /\ \A a \in A : a <= header.last
  BY <1>1, <1>2, <1>11 DEF ListInv
<1>13. ListInv'
  <2>1. IsFirst(header'.next, A \cup {addr})
    BY <1>4, <1>6, <1>7, <1>12 DEF IsFirst
  <2>2. ASSUME NEW a \in A \cup {addr}
        PROVE  IsFirst(node'[a].next, Above(A \cup {addr}, a))
    <3>1. CASE a = addr
      <4>1. Above(A \cup {addr}, a) = {}
        BY <1>4, <1>6, <3>1 DEF Above
      <4> QED
        BY <1>5, <1>9, <3>1, <4>1 DEF IsFirst
    <3>2. CASE a \in A /\ a = header.last
      <4>1. Above(A \cup {addr}, a) = {addr}
        BY <1>4, <1>6, <1>12, <3>2 DEF Above
      <4> QED
        BY <1>4, <1>9, <3>2, <4>1 DEF IsFirst
    <3>3. CASE a \in A /\ a # header.last
      <4>1. IsFirst(node[a].next, Above(A, a)) /\ node'[a].next = node[a].next
        BY <1>9, <1>12, <3>3
      <4>2. Above(A \cup {addr}, a) = Above(A, a) \cup {addr}
        BY <1>4, <3>3 DEF Above
      <4>3. header.last \in Above(A, a)
        BY <1>6, <1>12, <3>3 DEF Above
      <4>4. node[a].next \in Above(A, a) /\ \A s \in Above(A, a) : node[a].next <= s
        BY <4>1, <4>3 DEF IsFirst
      <4>5. node[a].next <= addr
        BY <1>4, <1>6, <4>4 DEF Above
      <4> QED
        BY <4>1, <4>2, <4>4, <4>5 DEF IsFirst
    <3> QED
      BY <3>1, <3>2, <3>3
  <2>3. header'.last \in DOMAIN node' /\ \A a \in DOMAIN node' : a <= header'.last
    BY <1>4, <1>6, <1>7, <1>8
  <2> QED
    BY <1>1, <1>11, <1>12, <2>1, <2>2, <2>3 DEF ListInv
<1>14. BucketsInv'
  BY <1>1 DEF BucketsInv
<1>15. CountInv'
  <2>1. ASSUME NEW row \in LeftRows
        PROVE  Cardinality(Copies(row)') = Cardinality(Places(row, Scanned)')
    <3>1. Cardinality(Copies(row)) = Cardinality(Places(row, index - 1))
      BY <1>1, <1>2, <1>3 DEF CountInv, Scanned
    <3>2. Places(row, Scanned)' = Places(row, index)
      BY <1>1, <1>3 DEF Places, Scanned
    <3>3. /\ IsFiniteSet(Places(row, index - 1)) /\ index \notin Places(row, index - 1)
          /\ Places(row, index) = IF tuple = row THEN Places(row, index - 1) \cup {index}
                                  ELSE Places(row, index - 1)
      BY <1>1, <1>3, PlacesGrow
    <3>4. IsFiniteSet(Copies(row)) /\ addr \notin Copies(row)
      <4>1. Copies(row) \in SUBSET A
        BY DEF Copies
      <4> QED
        BY <1>6, <1>8, <4>1, FS_Subset
    <3>5. Copies(row)' = IF tuple = row THEN Copies(row) \cup {addr} ELSE Copies(row)
      BY <1>5, <1>8, <1>9 DEF Copies
    <3>6. CASE tuple = row
      <4>1. Cardinality(Copies(row) \cup {addr}) = Cardinality(Copies(row)) + 1
        BY <3>4, FS_AddElement
      <4>2. /\ Cardinality(Places(row, index - 1) \cup {index})
               = Cardinality(Places(row, index - 1)) + 1
        BY <3>3, FS_AddElement
      <4> QED
        BY <3>1, <3>2, <3>3, <3>5, <3>6, <4>1, <4>2
    <3>7. CASE tuple # row
      BY <3>1, <3>2, <3>3, <3>5, <3>7
    <3> QED
      BY <3>6, <3>7
  <2>2. (phase = "build" => index \in Nat \ {0} /\ index <= left.count + 1)'
    BY <1>1, <1>3
  <2>3. (\A row \in LeftRows : Cardinality(Copies(row)) = Cardinality(Places(row, Scanned)))'
    BY <2>1
  <2> QED
    BY <2>2, <2>3 DEF CountInv
<1> QED
  BY <1>10, <1>13, <1>14, <1>15 DEF ChainInv

\* The table is created empty, and the list is about to be moved into it.
LEMMA CreateStep ==
    ASSUME ColumnsInv, ChainInv, createTable
    PROVE  ChainInv'
<1> DEFINE A == DOMAIN node
<1> DEFINE size == tableSize(header.len)
<1>1. /\ phase = "build" /\ phase' = "insert" /\ index > left.count
      /\ table' = [b \in 0 .. (size - 1) |-> NULL] /\ current' = header.next
      /\ UNCHANGED <<left, rows, header, node, index>>
  BY DEF createTable
<1>2. NodesInv /\ ListInv /\ CountInv
  BY <1>1 DEF ChainInv, Joining
<1>3. size \in Nat \ {0}
  <2>1. header.len \in Nat
    BY <1>2 DEF NodesInv, Headers
  <2> QED
    BY <2>1, TableSize
<1> HIDE DEF size
<1>4. Cardinality(DOMAIN table') = size /\ DOMAIN table' = 0 .. size - 1
  <2>1. Cardinality(0 .. size - 1) = size
    BY <1>3, FS_Interval
  <2> QED
    BY <1>1, <2>1
<1>5. NodesInv'
  BY <1>1, <1>2 DEF NodesInv
<1>6. /\ IsFirst(header.next, A) /\ A \subseteq Nat \ {0}
      /\ Listed = A /\ \A a \in A : IsFirst(node[a].next, Above(A, a))
  BY <1>1, <1>2 DEF ListInv, NodesInv, Listed, FirstListed
<1>7. Listed' = A /\ FirstListed' = header.next
  BY <1>1, <1>6 DEF Listed, FirstListed, IsFirst, NULL
<1>8. ListInv'
  BY <1>1, <1>6, <1>7 DEF ListInv
<1>9. BucketsInv'
  <2>1. ASSUME NEW h \in DOMAIN table' PROVE IsLast(table'[h], InBucket(h)')
    <3>1. InBucket(h)' = {}
      BY <1>1, <1>7 DEF InBucket
    <3>2. table'[h] = NULL
      BY <1>1
    <3> QED
      BY <3>1, <3>2 DEF IsLast
  <2>2. (\A h \in DOMAIN table : IsLast(table[h], InBucket(h)))'
    BY <2>1
  <2>3. (\A a \in DOMAIN node \ Listed :
            IsLast(node[a].next, Below(InBucket(bucketOf(node[a].hash)), a)))'
    BY <1>1, <1>7
  <2> QED
    BY <1>3, <1>4, <2>2, <2>3 DEF BucketsInv
<1>10. CountInv'
  <2>1. left.count \in Nat /\ index \in Nat /\ index <= left.count + 1
    BY <1>1, <1>2 DEF CountInv, ColumnsInv, IsVector
  <2>2. ASSUME NEW row \in LeftRows
        PROVE  Cardinality(Copies(row)') = Cardinality(Places(row, Scanned)')
    <3>1. Scanned = left.count
      BY <1>1, <2>1 DEF Scanned
    <3>2. Places(row, Scanned)' = Places(row, Scanned)
      BY <1>1, <3>1 DEF Places, Scanned
    <3>3. Copies(row)' = Copies(row)
      BY <1>1 DEF Copies
    <3> QED
      BY <1>2, <3>2, <3>3 DEF CountInv
  <2>3. (\A row \in LeftRows : Cardinality(Copies(row)) = Cardinality(Places(row, Scanned)))'
    BY <2>2
  <2> QED
    BY <1>1, <2>3 DEF CountInv
<1> QED
  BY <1>5, <1>8, <1>9, <1>10 DEF ChainInv

\* The probing of the table and what leads to it leave all chains alone.
LEMMA ProbeStep ==
    ASSUME ChainInv, UNCHANGED <<left, rows, header, node, table>>,
           phase \in Joining, phase # "build", phase' \in Joining, phase' # "build",
           Listed = {}, Listed' = {}, FirstListed' = NULL
    PROVE  ChainInv'
<1>1. NodesInv /\ ListInv /\ BucketsInv /\ CountInv
  BY DEF ChainInv
<1>2. NodesInv'
  BY <1>1 DEF NodesInv
<1>3. ListInv'
  BY <1>1 DEF ListInv, IsFirst
<1>4. BucketsInv'
  BY <1>1 DEF BucketsInv, InBucket, bucketOf
<1>5. CountInv'
  BY <1>1 DEF CountInv, Copies, Places, Scanned
<1> QED
  BY <1>2, <1>3, <1>4, <1>5 DEF ChainInv

\* A node moves from the list to its bucket: all nodes in there lie below it.
LEMMA BuildStep ==
    ASSUME ChainInv, build
    PROVE  ChainInv'
<1> DEFINE A == DOMAIN node
<1> DEFINE c == current
<1> DEFINE b == bucketOf(node[c].hash)
<1>1. /\ phase = "insert" /\ phase' = "insert" /\ c # NULL
      /\ node' = [node EXCEPT ![c].next = table[b]]
      /\ table' = [table EXCEPT ![b] = c] /\ current' = node[c].next
      /\ UNCHANGED <<left, rows, header, index>>
  BY DEF build
<1>2. NodesInv /\ ListInv /\ BucketsInv /\ CountInv
  BY <1>1 DEF ChainInv, Joining
<1>3. /\ A \subseteq Nat \ {0} /\ node \in [A -> ListNodes]
  BY <1>2 DEF NodesInv
<1>4. Listed = {a \in A : c <= a} /\ FirstListed = c
  BY <1>1 DEF Listed, FirstListed
<1>5. c \in A /\ c \in Listed /\ IsFirst(node[c].next, Above(Listed, c))
  BY <1>1, <1>2, <1>4 DEF ListInv, IsFirst
<1>6. /\ Cardinality(DOMAIN table) \in Nat \ {0}
      /\ DOMAIN table = 0 .. Cardinality(DOMAIN table) - 1
      /\ \A h \in DOMAIN table : IsLast(table[h], InBucket(h))
      /\ \A a \in A \ Listed : IsLast(node[a].next, Below(InBucket(bucketOf(node[a].hash)), a))
  BY <1>1, <1>2 DEF BucketsInv
<1>7. b \in DOMAIN table
  <2>1. node[c].hash \in Nat
    BY <1>3, <1>5 DEF ListNodes
  <2> QED
    BY <1>6, <2>1 DEF bucketOf
<1>8. /\ DOMAIN node' = A /\ DOMAIN table' = DOMAIN table
      /\ table'[b] = c /\ \A h \in DOMAIN table : h # b => table'[h] = table[h]
      /\ \A x : bucketOf(x)' = bucketOf(x)
  BY <1>1, <1>7 DEF bucketOf
<1>9. table[b] \in A \cup {NULL}
  BY <1>6, <1>7 DEF IsLast, InBucket
<1>10. /\ \A a \in A : /\ node'[a] \in ListNodes
                       /\ node'[a].hash = node[a].hash /\ node'[a].tuple = node[a].tuple
                       /\ node'[a].next = IF a = c THEN table[b] ELSE node[a].next
       /\ node' \in [A -> ListNodes]
  <2> DEFINE moved == [node[c] EXCEPT !.next = table[b]]
  <2>1. table[b] \in Nat
    BY <1>3, <1>9 DEF NULL
  <2>2. node[c] \in ListNodes
    BY <1>3, <1>5
  <2>3. moved \in ListNodes
    BY <2>1, <2>2 DEF ListNodes
  <2>4. /\ moved.hash = node[c].hash /\ moved.tuple = node[c].tuple /\ moved.next = table[b]
    BY <2>2 DEF ListNodes
  <2>5. node' = [node EXCEPT ![c] = moved]
    BY <1>1
  <2> HIDE DEF moved
  <2> QED
    BY <1>3, <1>5, <2>3, <2>4, <2>5
<1> HIDE DEF b
<1>11. Listed' = Above(Listed, c) /\ FirstListed' = node[c].next
  <2>1. CASE node[c].next = NULL /\ Above(Listed, c) = {}
    BY <1>1, <2>1 DEF Listed, FirstListed
  <2>2. CASE /\ node[c].next \in Above(Listed, c)
             /\ \A s \in Above(Listed, c) : node[c].next <= s
    <3>1. node[c].next \in Nat \ {0} /\ c < node[c].next
      BY <1>3, <1>4, <2>2 DEF Above
    <3>2. Listed' = {a \in A : node[c].next <= a}
      BY <1>1, <1>8, <3>1 DEF Listed, NULL
    <3>3. \A a \in A : node[c].next <= a <=> a \in Above(Listed, c)
      BY <1>3, <1>4, <1>5, <2>2, <3>1 DEF Above
    <3> QED
      BY <1>1, <1>4, <3>2, <3>3 DEF FirstListed, Above
  <2> QED
    BY <1>5, <2>1, <2>2 DEF IsFirst
<1>12. NodesInv'
  BY <1>1, <1>2, <1>8, <1>10 DEF NodesInv
<1>13. ListInv'
  <2>1. ASSUME NEW a \in Above(Listed, c)
        PROVE  IsFirst(node'[a].next, Above(Above(Listed, c), a))
    <3>1. a \in Listed /\ c < a /\ a \in A
      BY <1>4 DEF Above
    <3>2. Above(Above(Listed, c), a) = Above(Listed, a)
      BY <1>3, <1>4, <1>5, <3>1 DEF Above
    <3>3. node'[a].next = node[a].next
      BY <1>3, <1>5, <1>10, <3>1
    <3> QED
      BY <1>2, <3>1, <3>2, <3>3 DEF ListInv
  <2>2. (\A a \in Listed : IsFirst(node[a].next, Above(Listed, a)))'
    BY <1>11, <2>1
  <2>3. IsFirst(FirstListed, Listed)'
    BY <1>5, <1>11
  <2> QED
    BY <1>1, <2>2, <2>3 DEF ListInv
<1>14. \A a \in A : a \notin Listed <=> a < c
  BY <1>3, <1>4, <1>5
<1>15. \A a \in A : a \notin Listed' <=> a < c \/ a = c
  BY <1>3, <1>4, <1>5, <1>11 DEF Above
<1>16. BucketsInv'
  <2>1. ASSUME NEW h \in DOMAIN table PROVE IsLast(table'[h], InBucket(h)')
    <3>1. CASE h = b
      <4>1. c \in InBucket(h)'
        BY <1>5, <1>8, <1>10, <1>15, <3>1 DEF InBucket, b
      <4>2. \A s \in InBucket(h)' : s <= c
        BY <1>3, <1>5, <1>8, <1>15 DEF InBucket
      <4> QED
        BY <1>8, <3>1, <4>1, <4>2 DEF IsLast
    <3>2. CASE h # b
      <4>1. InBucket(h)' = InBucket(h)
        BY <1>5, <1>8, <1>10, <1>14, <1>15, <3>2 DEF InBucket, b
      <4> QED
        BY <1>6, <1>8, <3>2, <4>1
    <3> QED
      BY <3>1, <3>2
  <2>2. ASSUME NEW a \in A, a \notin Listed'
        PROVE  IsLast(node'[a].next, Below(InBucket(bucketOf(node[a].hash))', a))
    <3> DEFINE h == bucketOf(node[a].hash)
    <3>1. CASE a = c
      <4>1. Below(InBucket(h)', c) = InBucket(h)
        BY <1>3, <1>5, <1>8, <1>10, <1>14, <1>15 DEF InBucket, Below
      <4>2. IsLast(table[b], InBucket(b)) /\ h = b
        BY <1>6, <1>7, <3>1 DEF b
      <4>3. node'[a].next = table[b]
        BY <1>10, <3>1
      <4> QED
        BY <3>1, <4>1, <4>2, <4>3
    <3>2. CASE a # c
      <4>1. a < c /\ a \notin Listed
        BY <1>14, <1>15, <2>2, <3>2
      <4>2. Below(InBucket(h)', a) = Below(InBucket(h), a)
        BY <1>3, <1>5, <1>8, <1>10, <1>14, <1>15, <4>1 DEF InBucket, Below
      <4>3. node'[a].next = node[a].next
        BY <1>10, <3>2
      <4> QED
        BY <1>6, <4>1, <4>2, <4>3
    <3> QED
      BY <3>1, <3>2
  <2>3. (\A h \in DOMAIN table : IsLast(table[h], InBucket(h)))'
    BY <1>8, <2>1
  <2>4. (\A a \in DOMAIN node \ Listed :
            IsLast(node[a].next, Below(InBucket(bucketOf(node[a].hash)), a)))'
    BY <1>8, <1>10, <2>2
  <2>5. (/\ Cardinality(DOMAIN table) \in Nat \ {0}
         /\ DOMAIN table = 0 .. Cardinality(DOMAIN table) - 1)'
    BY <1>6, <1>8
  <2> QED
    BY <2>3, <2>4, <2>5 DEF BucketsInv
<1>17. CountInv'
  <2>1. ASSUME NEW row \in LeftRows
        PROVE  Cardinality(Copies(row)') = Cardinality(Places(row, Scanned)')
    <3>1. Copies(row)' = Copies(row)
      BY <1>8, <1>10 DEF Copies
    <3>2. Places(row, Scanned)' = Places(row, Scanned)
      BY <1>1 DEF Places, Scanned
    <3> QED
      BY <1>2, <3>1, <3>2 DEF CountInv
  <2>2. (\A row \in LeftRows : Cardinality(Copies(row)) = Cardinality(Places(row, Scanned)))'
    BY <2>1
  <2> QED
    BY <1>1, <2>2 DEF CountInv
<1> QED
  BY <1>12, <1>13, <1>16, <1>17 DEF ChainInv

LEMMA ChainStep ==
    ASSUME ColumnsInv, MemoryInv, MemoryInv', ChainInv, [ExecNext]_execVars
    PROVE  ChainInv'
<1>1. CASE startProbe
  BY <1>1, ProbeStep DEF startProbe, Joining, Listed, FirstListed
<1>2. CASE /\ phase \in Probing /\ phase' \in Probing
           /\ UNCHANGED <<left, rows, header, node, table>>
  BY <1>2, ProbeStep DEF Probing, Joining, Listed, FirstListed
<1>3. CASE phase' \notin Joining
  BY <1>3 DEF ChainInv
<1>4. CASE UNCHANGED joinVars
  <2>1. UNCHANGED <<left, rows, header, node, table, phase, index, current>>
    BY <1>4 DEF joinVars
  <2>2. Listed' = Listed /\ FirstListed' = FirstListed
    BY <2>1 DEF Listed, FirstListed
  <2>3. NodesInv' = NodesInv
    BY <2>1 DEF NodesInv
  <2>4. ListInv' = ListInv
    BY <2>1, <2>2 DEF ListInv
  <2>5. BucketsInv' = BucketsInv
    BY <2>1, <2>2 DEF BucketsInv, InBucket, bucketOf
  <2>6. CountInv' = CountInv
    BY <2>1 DEF CountInv, Copies, Places, Scanned
  <2> QED
    BY <2>1, <2>3, <2>4, <2>5, <2>6 DEF ChainInv
<1> QED
  BY <1>1, <1>2, <1>3, <1>4, JoinChanges, ProduceStep, SkipStep, ConsumeStep, CreateStep,
     BuildStep

LEMMA ChainInitially ==
    ExecInit => ChainInv
BY DEF ExecInit, JoinInit, ChainInv, Joining

LEMMA ChainAlways == ExecSpec => []ChainInv
<1>1. ColumnsInv /\ MemoryInv /\ ChainInv /\ [ExecNext]_execVars
      => ColumnsInv' /\ MemoryInv' /\ ChainInv'
  <2> SUFFICES ASSUME ColumnsInv, MemoryInv, ChainInv, [ExecNext]_execVars
               PROVE  ColumnsInv' /\ MemoryInv' /\ ChainInv'
    OBVIOUS
  <2>1. MemoryInv'
    BY MemoryStep
  <2> QED
    BY <2>1, ColumnsStep, ChainStep
<1> QED
  BY <1>1, ColumnsInitially, MemoryInitially, ChainInitially, PTL DEF ExecSpec

------------------------------------------------------------------------------
(* What the chains mean: each node is met once, from the list or a bucket.  *)

\* The nodes on the chain that starts at h.
Members(h) == IF h = ListHead THEN Listed ELSE InBucket(h)

\* The fields that link the nodes form a pointer field of the nodes.
LEMMA NextIsField ==
    ASSUME ChainInv, phase \in Joining
    PROVE  /\ NextField \in [DOMAIN node \cup {NULL} -> DOMAIN node \cup {NULL}]
           /\ NextField[NULL] = NULL /\ NULL \notin DOMAIN node
           /\ \A a \in DOMAIN node : NextField[a] = node[a].next
<1>1. NodesInv /\ ListInv /\ BucketsInv
  BY DEF ChainInv
<1>2. ASSUME NEW a \in DOMAIN node PROVE node[a].next \in DOMAIN node \cup {NULL}
  <2>1. CASE a \in Listed
    <3>1. IsFirst(node[a].next, Above(Listed, a))
      BY <1>1, <2>1 DEF ListInv
    <3> QED
      BY <3>1 DEF IsFirst, Above, Listed
  <2>2. CASE a \notin Listed
    <3>1. phase # "build"
      BY <2>2 DEF Listed
    <3>2. IsLast(node[a].next, Below(InBucket(bucketOf(node[a].hash)), a))
      BY <1>1, <2>2, <3>1 DEF BucketsInv
    <3> QED
      BY <3>2 DEF IsLast, Below, InBucket
  <2> QED
    BY <2>1, <2>2
<1>3. NULL \notin DOMAIN node
  BY <1>1 DEF NodesInv, NULL
<1>4. \A a \in DOMAIN node : NextField[a] = node[a].next
  BY <1>3 DEF NextField
<1>5. NextField[NULL] = NULL
  BY DEF NextField
<1>6. NextField = [a \in DOMAIN node \cup {NULL} |-> NextField[a]]
  BY DEF NextField
<1> HIDE DEF NULL
<1>7. \A a \in DOMAIN node \cup {NULL} : NextField[a] \in DOMAIN node \cup {NULL}
  BY <1>2, <1>4, <1>5
<1> QED
  BY <1>3, <1>4, <1>5, <1>6, <1>7

\* The walk from every head meets exactly the members of its chain, each once.
LEMMA ChainOfMembers ==
    ASSUME ChainInv, phase \in Joining, NEW h, h \in DOMAIN Heads
    PROVE  Members(h) \subseteq DOMAIN node /\ MeetsOnce(Chain(h), Members(h))
<1> DEFINE A == DOMAIN node
<1> DEFINE M == Members(h)
<1> DEFINE start == Heads[h]
<1>1. NodesInv /\ ListInv /\ BucketsInv
  BY DEF ChainInv
<1>2. A \subseteq Nat \ {0} /\ IsFiniteSet(A) /\ NULL = 0
  BY <1>1 DEF NodesInv, NULL
<1>3. M \subseteq A
  BY DEF Members, Listed, InBucket
<1>4. IsFiniteSet(M)
  <2>1. M \in SUBSET A
    BY <1>3
  <2> QED
    BY <1>2, <2>1, FS_Subset
<1>5. /\ NextField \in [A \cup {NULL} -> A \cup {NULL}] /\ NextField[NULL] = NULL
      /\ NULL \notin A
  BY NextIsField
<1>6. \A a \in A : NextField[a] = node[a].next
  BY NextIsField
<1>7. \E K : Follows(NextField, start, M, K)
  <2>1. CASE h = ListHead
    <3> DEFINE K == [a \in M |-> a]
    <3>1. M = Listed /\ start = FirstListed
      BY <2>1 DEF Members, Heads, FirstListed
    <3>2. IsFirst(start, M) /\ \A a \in M : IsFirst(NextField[a], Above(M, a))
      BY <1>1, <1>3, <1>6, <3>1 DEF ListInv
    <3>3. /\ K \in [M -> Int] /\ (\A a, b \in M : K[a] = K[b] => a = b)
          /\ \A a, b \in M : (K[a] <= K[b] <=> a <= b) /\ (K[a] < K[b] <=> a < b)
      BY <1>2, <1>3
    <3> HIDE DEF K, M, start
    <3>4. \/ start = NULL /\ M = {}
          \/ start \in M /\ \A b \in M : K[start] <= K[b]
      BY <3>2, <3>3 DEF IsFirst
    <3>5. ASSUME NEW a \in M
          PROVE  \/ NextField[a] = NULL /\ \A b \in M : K[b] <= K[a]
                 \/ /\ NextField[a] \in M /\ K[a] < K[NextField[a]]
                    /\ \A b \in M : K[a] < K[b] => K[NextField[a]] <= K[b]
      <4>1. IsFirst(NextField[a], Above(M, a))
        BY <3>2
      <4>2. CASE NextField[a] = NULL /\ Above(M, a) = {}
        <5>1. \A b \in M : b <= a
          BY <1>2, <1>3, <4>2 DEF Above
        <5> QED
          BY <3>3, <4>2, <5>1
      <4>3. CASE NextField[a] \in Above(M, a) /\ \A s \in Above(M, a) : NextField[a] <= s
        <5>1. /\ NextField[a] \in M /\ a < NextField[a]
              /\ \A b \in M : a < b => NextField[a] <= b
          BY <4>3 DEF Above
        <5> QED
          BY <3>3, <5>1
      <4> QED
        BY <4>1, <4>2, <4>3 DEF IsFirst
    <3>6. Follows(NextField, start, M, K)
      BY <3>3, <3>4, <3>5 DEF Follows
    <3> QED
      BY <3>6
  <2>2. CASE h # ListHead
    <3> DEFINE K == [a \in M |-> -a]
    <3>1. h \in DOMAIN table /\ M = InBucket(h) /\ start = table[h]
      BY <2>2 DEF Members, Heads
    <3>2. phase # "build"
      <4>1. phase = "build" => DOMAIN table = {}
        BY <1>1 DEF ListInv
      <4> QED
        BY <3>1, <4>1
    <3>3. /\ K \in [M -> Int] /\ (\A a, b \in M : K[a] = K[b] => a = b)
          /\ \A a, b \in M : (K[a] <= K[b] <=> b <= a) /\ (K[a] < K[b] <=> b < a)
      BY <1>2, <1>3
    <3>4. IsLast(start, M) /\ \A a \in M : IsLast(NextField[a], Below(M, a))
      BY <1>1, <1>6, <3>1, <3>2 DEF BucketsInv, InBucket
    <3> HIDE DEF K, M, start
    <3>5. \/ start = NULL /\ M = {}
          \/ start \in M /\ \A b \in M : K[start] <= K[b]
      BY <3>3, <3>4 DEF IsLast
    <3>6. ASSUME NEW a \in M
          PROVE  \/ NextField[a] = NULL /\ \A b \in M : K[b] <= K[a]
                 \/ /\ NextField[a] \in M /\ K[a] < K[NextField[a]]
                    /\ \A b \in M : K[a] < K[b] => K[NextField[a]] <= K[b]
      <4>1. IsLast(NextField[a], Below(M, a))
        BY <3>4
      <4>2. CASE NextField[a] = NULL /\ Below(M, a) = {}
        <5>1. \A b \in M : a <= b
          BY <1>2, <1>3, <4>2 DEF Below
        <5> QED
          BY <3>3, <4>2, <5>1
      <4>3. CASE NextField[a] \in Below(M, a) /\ \A s \in Below(M, a) : s <= NextField[a]
        <5>1. /\ NextField[a] \in M /\ NextField[a] < a
              /\ \A b \in M : b < a => b <= NextField[a]
          BY <4>3 DEF Below
        <5> QED
          BY <3>3, <5>1
      <4> QED
        BY <4>1, <4>2, <4>3 DEF IsLast
    <3>7. Follows(NextField, start, M, K)
      BY <3>3, <3>5, <3>6 DEF Follows
    <3> QED
      BY <3>7
  <2> QED
    BY <2>1, <2>2
<1>8. Chain(h) = Walk(NextField, start)
  BY DEF Chain
<1> HIDE DEF A, M, start
<1>9. MeetsOnce(Chain(h), M)
  BY <1>3, <1>4, <1>5, <1>7, <1>8, ChainMeetsEachOnce
<1> QED
  BY <1>3, <1>9 DEF A, M

LEMMA ChainsHoldTheRows ==
    ASSUME ColumnsInv, ChainInv PROVE EveryBuildRowInOneList
<1> SUFFICES ASSUME phase \in Joining
             PROVE  LET steps == 0..Cardinality(DOMAIN node)
                    IN  /\ \A h \in DOMAIN Heads, n \in steps :
                               Chain(h)[n] \in DOMAIN node \cup {NULL}
                        /\ \A a \in DOMAIN node : \E h \in DOMAIN Heads, n \in steps :
                               /\ h # ListHead => h = bucketOf(node[a].hash)
                               /\ \A g \in DOMAIN Heads, m \in steps :
                                      Chain(g)[m] = a <=> g = h /\ m = n
                        /\ header.len = Cardinality(DOMAIN node)
                        /\ \A row \in LeftRows :
                               Cardinality({a \in DOMAIN node : node[a].tuple = row})
                               = Cardinality({i \in 1..Scanned :
                                                  rows.left[i] = row /\ Selected(row)})
  BY DEF EveryBuildRowInOneList, Joining
<1> DEFINE A == DOMAIN node
<1> DEFINE steps == 0 .. Cardinality(A)
<1>1. NodesInv /\ ListInv /\ BucketsInv /\ CountInv
  BY DEF ChainInv
<1>2. IsFiniteSet(A) /\ NULL \notin A /\ Cardinality(A) \in Nat /\ header.len = Cardinality(A)
  <2>1. IsFiniteSet(A) /\ NULL \notin A /\ header.len = Cardinality(A)
    BY <1>1 DEF NodesInv, NULL
  <2> QED
    BY <2>1, FS_CardinalityType
<1>3. ASSUME NEW h \in DOMAIN Heads, NEW n \in steps
      PROVE  Chain(h)[n] \in A \cup {NULL}
  <2>1. n \in Nat
    BY <1>2
  <2>2. Members(h) \subseteq A /\ Chain(h)[n] \in Members(h) \cup {NULL}
    BY <2>1, ChainOfMembers DEF MeetsOnce
  <2> QED
    BY <2>2
<1>4. ListHead \notin DOMAIN table
  <2>1. CASE phase = "build"
    BY <1>1, <2>1 DEF ListInv
  <2>2. CASE phase # "build"
    BY <1>1, <2>2 DEF BucketsInv, ListHead
  <2> QED
    BY <2>1, <2>2
<1>5. ASSUME NEW a \in A
      PROVE  \E h \in DOMAIN Heads :
                 /\ a \in Members(h) /\ (h # ListHead => h = bucketOf(node[a].hash))
                 /\ \A g \in DOMAIN Heads : a \in Members(g) => g = h
  <2>1. CASE a \in Listed
    <3>1. ListHead \in DOMAIN Heads /\ a \in Members(ListHead)
      BY <2>1 DEF Heads, Members
    <3>2. \A g : a \in Members(g) => g = ListHead
      BY <2>1 DEF Members, InBucket
    <3> QED
      BY <3>1, <3>2
  <2>2. CASE a \notin Listed
    <3> DEFINE h == bucketOf(node[a].hash)
    <3>1. phase # "build"
      BY <2>2 DEF Listed
    <3>2. node[a].hash \in Nat
      BY <1>1 DEF NodesInv, ListNodes
    <3>3. h \in DOMAIN table
      BY <1>1, <3>1, <3>2 DEF BucketsInv, bucketOf
    <3> HIDE DEF h
    <3>4. h \in DOMAIN Heads /\ h # ListHead
      BY <1>4, <3>3 DEF Heads
    <3>5. a \in Members(h) /\ \A g : a \in Members(g) => g = h
      BY <2>2, <3>4 DEF Members, InBucket, h
    <3> QED
      BY <3>4, <3>5 DEF h
  <2> QED
    BY <2>1, <2>2
<1>6. ASSUME NEW a \in A
      PROVE  \E h \in DOMAIN Heads, n \in steps :
                 /\ h # ListHead => h = bucketOf(node[a].hash)
                 /\ \A g \in DOMAIN Heads, m \in steps :
                        Chain(g)[m] = a <=> g = h /\ m = n
  <2>1. PICK h \in DOMAIN Heads :
            /\ a \in Members(h) /\ (h # ListHead => h = bucketOf(node[a].hash))
            /\ \A g \in DOMAIN Heads : a \in Members(g) => g = h
    BY <1>5
  <2>2. PICK n \in Nat : /\ n < Cardinality(Members(h))
                        /\ \A m \in Nat : Chain(h)[m] = a <=> m = n
    BY <2>1, ChainOfMembers DEF MeetsOnce
  <2>3. n \in steps
    <3>1. Members(h) \in SUBSET A
      BY ChainOfMembers
    <3>2. Cardinality(Members(h)) <= Cardinality(A) /\ Cardinality(Members(h)) \in Nat
      BY <1>2, <3>1, FS_Subset, FS_CardinalityType
    <3> QED
      BY <1>2, <2>2, <3>2
  <2>4. ASSUME NEW g \in DOMAIN Heads, NEW m \in steps
        PROVE  Chain(g)[m] = a <=> g = h /\ m = n
    <3>1. m \in Nat
      BY <1>2
    <3>2. CASE g = h
      BY <2>2, <3>1, <3>2
    <3>3. CASE g # h
      <4>1. a \notin Members(g)
        BY <2>1, <3>3
      <4>2. Chain(g)[m] \in Members(g) \cup {NULL}
        BY <3>1, ChainOfMembers DEF MeetsOnce
      <4> QED
        BY <1>2, <3>3, <4>1, <4>2
    <3> QED
      BY <3>2, <3>3
  <2> QED
    BY <2>1, <2>3, <2>4
<1>7. \A row \in LeftRows :
          Cardinality({a \in DOMAIN node : node[a].tuple = row})
          = Cardinality({i \in 1..Scanned : rows.left[i] = row /\ Selected(row)})
  BY <1>1 DEF CountInv, Copies, Places
<1> QED
  BY <1>2, <1>3, <1>6, <1>7

\* While the list of build tuples grows and is torn into buckets, every
\* selected row is in exactly one node, and every node is reached exactly once,
\* from the list or from the bucket of its hash code
\* (genAppendEntryToList, StaticHashtable::build).
THEOREM ExecEveryBuildRowInOneList == ExecSpec => []EveryBuildRowInOneList
BY ColumnsAlways, ChainAlways, ChainsHoldTheRows, PTL
==============================================================================
