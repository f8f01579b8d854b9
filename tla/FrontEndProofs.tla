--------------------------- MODULE FrontEndProofs ---------------------------
(***************************************************************************)
(* Proofs about what a statement goes through before it is a plan.  The    *)
(* parser, for statements of any length: what is accepted is what was      *)
(* written, and it is deleted once.  Then the names of a SELECT: for any   *)
(* tables, aliases, columns and branches, for FROM clauses and lists of    *)
(* columns of any length, and for every order in which the maps of the     *)
(* AnalyzingContext may be traversed.                                      *)
(***************************************************************************)
EXTENDS SqlParser, SelectBinding, Lemmas, FiniteSetTheorems, TLAPS

------------------------------------------------------------------------------
(* The table of transitions                                                *)

\* A fact about all transitions is shown for each part of the table.
LEMMA TransitionParts ==
    ASSUME NEW s, NEW t, NEW u, <<s, t, u>> \in Transitions
    PROVE  \/ <<s, t, u>> \in InitTransitions \/ <<s, t, u>> \in CopyTransitions
           \/ <<s, t, u>> \in CreateTransitions \/ <<s, t, u>> \in DeleteTransitions
           \/ <<s, t, u>> \in UpdateTransitions \/ <<s, t, u>> \in InsertTransitions
           \/ <<s, t, u>> \in SelectTransitions
BY DEF Transitions

\* No transition leads out of the parser; a literal leads to a state that does
\* not take another one.
LEMMA TransitionTargets ==
    ASSUME NEW s, NEW t, NEW u, <<s, t, u>> \in Transitions
    PROVE  /\ u \notin {"Init", "Done", "Thrown", "Converted", "Destroyed"}
           /\ t = "string" =>
                 \/ u \in {"CopyPath", "DeleteWhereExprRhs", "UpdateWhereExprRhs",
                          "UpdateSetExprRhs", "InsertValue", "SelectWhereExprRhs"}
                 \/ s = "CreateTableRelationName"
           /\ t = "string" =>
                 s \notin {"CopyPath", "DeleteWhereExprRhs", "UpdateWhereExprRhs",
                          "UpdateSetExprRhs", "InsertValue", "SelectWhereExprRhs"}
<1>1. CASE <<s, t, u>> \in InitTransitions
  BY <1>1 DEF InitTransitions
<1>2. CASE <<s, t, u>> \in CopyTransitions
  BY <1>2 DEF CopyTransitions, Literals
<1>3. CASE <<s, t, u>> \in CreateTransitions
  BY <1>3 DEF CreateTransitions
<1>4. CASE <<s, t, u>> \in DeleteTransitions
  BY <1>4 DEF DeleteTransitions, WhereTransitions, Literals
<1>5. CASE <<s, t, u>> \in UpdateTransitions
  BY <1>5 DEF UpdateTransitions, WhereTransitions, Literals
<1>6. CASE <<s, t, u>> \in InsertTransitions
  BY <1>6 DEF InsertTransitions, Literals
<1>7. CASE <<s, t, u>> \in SelectTransitions
  BY <1>7 DEF SelectTransitions, WhereTransitions, Literals
<1> QED
  BY <1>1, <1>2, <1>3, <1>4, <1>5, <1>6, <1>7, TransitionParts

------------------------------------------------------------------------------
(* The end of the input                                                    *)

\* When the characters have run out, parsing ends after at most one more token
\* unless the parser is skipping tokens in front of a column list (parseToken,
\* Tokenizer::next).
THEOREM EndOfInputIsTheEnd == Spec => []EndOfInputEndsParsing
<1>1. EndOfInputEndsParsing
  BY TransitionTargets DEF EndOfInputEndsParsing
<1> QED
  BY <1>1, PTL

------------------------------------------------------------------------------
(* Who owns the statement                                                  *)

\* While the context is there, the statement was not deleted; it was allocated
\* if the type of one of the two owners says so, and only one of them does.
OwnerInv ==
    /\ freed \in Nat /\ allocated \in BOOLEAN
    /\ state # "Destroyed" => freed = 0
    /\ state = "Converted" => opType = "Unknown" /\ allocated = (Deletes(resultType) = 1)
    /\ state \notin {"Converted", "Destroyed"} =>
          resultType = "Unknown" /\ allocated = (Deletes(opType) = 1)
    /\ StatementFreedOnce

\* Every step keeps it that way.
LEMMA OwnersKept ==
    ASSUME OwnerInv, [Next]_vars
    PROVE  OwnerInv'
<1>1. CASE UNCHANGED vars
  BY <1>1 DEF OwnerInv, vars, StatementFreedOnce
<1>2. ASSUME NEW token, acceptToken(token) PROVE OwnerInv'
  <2>1. state' \notin {"Converted", "Destroyed"} /\ state \notin {"Converted", "Destroyed"}
    BY <1>2, TransitionTargets DEF acceptToken, Parsing
  <2>2. allocated' = (Deletes(opType') = 1)
    BY <1>2 DEF acceptToken, Deletes
  <2> QED
    BY <1>2, <2>1, <2>2 DEF OwnerInv, acceptToken, StatementFreedOnce
<1>3. ASSUME NEW token, rejectToken(token) PROVE OwnerInv'
  BY <1>3 DEF OwnerInv, rejectToken, StatementFreedOnce, Parsing
<1>4. CASE acceptDelimiter
  BY <1>4 DEF OwnerInv, acceptDelimiter, StatementFreedOnce, Parsing
<1>5. CASE endOfInput
  BY <1>5 DEF OwnerInv, endOfInput, StatementFreedOnce, Parsing
<1>6. CASE convertToParserResult
  BY <1>6 DEF OwnerInv, convertToParserResult, StatementFreedOnce, releasedType
<1>7. CASE destroyQueryContext
  BY <1>7 DEF OwnerInv, destroyQueryContext, StatementFreedOnce, Deletes
<1> QED
  BY <1>1, <1>2, <1>3, <1>4, <1>5, <1>6, <1>7 DEF Next, parseToken

\* Whatever is parsed and wherever parsing fails, the statement is deleted by
\* exactly one of ~ParsingContext and ~SQLParserResult.
THEOREM StatementIsFreedOnce == Spec => []StatementFreedOnce
<1>1. ASSUME Init PROVE OwnerInv
  <2>1. Deletes(opType) = 0 /\ 0 # 1
    BY <1>1 DEF Init, Deletes
  <2> QED
    BY <1>1, <2>1 DEF Init, OwnerInv, StatementFreedOnce
<1>2. OwnerInv => StatementFreedOnce
  BY DEF OwnerInv
<1> QED
  BY <1>1, <1>2, OwnersKept, PTL DEF Spec
------------------------------------------------------------------------------
(* The text and the statement                                              *)

Relation == [name : Int, alias : Int, version : Int]
ColumnSpec == [name : Int, type : Int, length : Int, precision : Int, nullable : BOOLEAN]
Statement ==
    [relations : Seq(Relation), columns : Seq(Int), values : Seq(Int),
     updates : Seq(Int \X Int), selections : Seq(Int \X Int),
     joinConditions : Seq(Int \X Int), columnSpecs : Seq(ColumnSpec),
     tableName : Int, branchName : Int, parentBranchName : Int, filePath : Int,
     format : Tokens \cup {""}, directionFrom : BOOLEAN]

Text == Tokens \cup {";"}

TextInv == tokens \in Seq(Text) /\ stmt \in Statement

\* The token being read has a position behind the others.
LEMMA HereIsNext == TextInv => here \in Nat \ {0} /\ Len(tokens) \in Nat /\ here = Len(tokens) + 1
BY DEF TextInv, here

\* S is the list R, except that its last element, if there is one, is r.
LastChanges(R, S, r) ==
    /\ Len(S) = Len(R)
    /\ \A i \in 1 .. Len(R) : i # Len(R) => S[i] = R[i]
    /\ R # <<>> => S[Len(R)] = r

\* Assigning the last element of a list changes nothing else.
LEMMA LastChanged ==
    ASSUME NEW T, NEW R \in Seq(T), NEW r, R # <<>> => r \in T
    PROVE  [R EXCEPT ![Len(R)] = r] \in Seq(T) /\ LastChanges(R, [R EXCEPT ![Len(R)] = r], r)
<1>1. CASE R = <<>>
  <2>1. [R EXCEPT ![Len(R)] = r] = <<>>
    BY <1>1
  <2> QED
    BY <1>1, <2>1 DEF LastChanges
<1>2. CASE R # <<>>
  BY <1>2 DEF LastChanges
<1> QED
  BY <1>1, <1>2

\* The last element changes twice.
LEMMA LastChangesTwice ==
    ASSUME NEW T, NEW R \in Seq(T), NEW V \in Seq(T), NEW S \in Seq(T), NEW q, NEW r,
           LastChanges(R, V, q), LastChanges(V, S, r)
    PROVE  LastChanges(R, S, r) /\ (R # <<>> <=> V # <<>>)
BY DEF LastChanges

\* A relation is added to the statement, or the last one changes.
LEMMA RelationsChange ==
    ASSUME TextInv, NEW token, NEW R, R = stmt.relations
    PROVE  /\ state \in {"Copy", "Update", "InsertInto"} =>
                 relationsNamed = Append(R, [name |-> here, alias |-> Unset, version |-> Unset])
           /\ state \in {"DeleteFrom", "SelectFrom", "SelectFromSeparator"} =>
                 relationsNamed = Append(R, [name |-> here, alias |-> Unset, version |-> Master])
           /\ state \notin {"Copy", "Update", "InsertInto", "DeleteFrom", "SelectFrom",
                           "SelectFromSeparator"} => relationsNamed = R
BY DEF relationsNamed

TableStates == {"Copy", "Update", "InsertInto", "DeleteFrom", "SelectFrom", "SelectFromSeparator"}

\* The last relation after a token that names no table: its version and its
\* alias may have been read.
RelationAfter(token, last, r) ==
    /\ r \in Relation
    /\ r.name = last.name
    /\ r.version = IF masterImplied(token) THEN Master
                   ELSE IF versionNamed THEN here ELSE last.version
    /\ r.alias = IF aliasNamed(token) THEN here ELSE last.alias

\* A token that names no table changes at most the last relation.
LEMMA RelationsAfter ==
    ASSUME TextInv, NEW token, state \notin TableStates
    PROVE  \E r : /\ relationsAfter(token) \in Seq(Relation)
                  /\ LastChanges(stmt.relations, relationsAfter(token), r)
                  /\ stmt.relations # <<>> =>
                        RelationAfter(token, stmt.relations[Len(stmt.relations)], r)
<1>1. PICK R \in Seq(Relation) : R = stmt.relations
  BY DEF TextInv, Statement
<1>2. relationsNamed = R
  BY <1>1, RelationsChange DEF TableStates
<1>3. here \in Int /\ Master \in Int
  BY HereIsNext DEF Master
<1>4. R # <<>> => R[Len(R)] \in Relation
  BY <1>1
<1>5. PICK v : v = IF masterImplied(token) THEN Master
                   ELSE IF versionNamed THEN here ELSE R[Len(R)].version
  OBVIOUS
<1>6. PICK q : q = IF masterImplied(token) \/ versionNamed
                   THEN [R[Len(R)] EXCEPT !.version = v] ELSE R[Len(R)]
  OBVIOUS
<1>7. R # <<>> => /\ q \in Relation /\ q.name = R[Len(R)].name /\ q.version = v
                  /\ q.alias = R[Len(R)].alias
  BY <1>3, <1>4, <1>5, <1>6 DEF Relation
<1>8. PICK V : V = IF masterImplied(token) \/ versionNamed
                   THEN [R EXCEPT ![Len(R)] = q] ELSE R
  OBVIOUS
<1>9. V \in Seq(Relation) /\ LastChanges(R, V, q)
  <2>1. CASE masterImplied(token) \/ versionNamed
    BY <1>1, <1>7, <1>8, <2>1, LastChanged
  <2>2. CASE ~ (masterImplied(token) \/ versionNamed)
    <3>1. V = R /\ q = R[Len(R)]
      BY <1>6, <1>8, <2>2
    <3> QED
      BY <1>1, <3>1 DEF LastChanges
  <2> QED
    BY <2>1, <2>2
<1>10. R # <<>> => V # <<>> /\ V[Len(V)] = q
  BY <1>1, <1>9 DEF LastChanges
<1>11. relationsAfter(token) = IF aliasNamed(token) THEN [V EXCEPT ![Len(V)].alias = here] ELSE V
  BY <1>1, <1>2, <1>5, <1>6, <1>8 DEF relationsAfter
<1>12. CASE aliasNamed(token)
  <2>1. PICK r : r = [V[Len(V)] EXCEPT !.alias = here]
    OBVIOUS
  <2>2. V # <<>> => r \in Relation
    <3>1. V # <<>> => V[Len(V)] \in Relation
      BY <1>9
    <3> QED
      BY <1>3, <2>1, <3>1 DEF Relation
  <2>3. relationsAfter(token) = [V EXCEPT ![Len(V)] = r]
    BY <1>11, <1>12, <2>1
  <2>4. relationsAfter(token) \in Seq(Relation) /\ LastChanges(V, relationsAfter(token), r)
    <3>1. [V EXCEPT ![Len(V)] = r] \in Seq(Relation) /\ LastChanges(V, [V EXCEPT ![Len(V)] = r], r)
      BY <1>9, <2>2, LastChanged
    <3> QED
      BY <2>3, <3>1
  <2>5. LastChanges(R, relationsAfter(token), r)
    BY <1>1, <1>9, <2>4, LastChangesTwice
  <2>6. R # <<>> => r.name = q.name /\ r.version = q.version /\ r.alias = here
    BY <1>7, <1>10, <2>1 DEF Relation
  <2> QED
    BY <1>1, <1>5, <1>7, <1>10, <1>12, <2>2, <2>4, <2>5, <2>6 DEF RelationAfter
<1>13. CASE ~ aliasNamed(token)
  BY <1>1, <1>5, <1>7, <1>9, <1>11, <1>13 DEF RelationAfter
<1> QED
  BY <1>12, <1>13

\* The last column of a CREATE TABLE after a token that names no column.
ColumnSpecAfter(token, last, r) ==
    /\ r \in ColumnSpec
    /\ r.name = last.name
    /\ r.type = IF state = "CreateTableColumnName" THEN here ELSE last.type
    /\ r.length = IF state = "CreateTableTypeDetailBegin" THEN here
                  ELSE IF state = "CreateTableColumnType" /\ nullableImplied(token) THEN 0
                  ELSE last.length
    /\ r.precision = IF state = "CreateTableTypeDetailSeperator" THEN here
                     ELSE IF state = "CreateTableColumnType" /\ nullableImplied(token) THEN 0
                     ELSE last.precision
    /\ nullableImplied(token) => r.nullable = TRUE
    /\ state = "CreateTableTypeNot" => r.nullable = FALSE

\* A token that names no column changes at most the last column.
LEMMA ColumnSpecsAfter ==
    ASSUME TextInv, NEW token,
           state \notin {"CreateTableColumnsBegin", "CreateTableColumnSeperator"}
    PROVE  \E r : /\ columnSpecsAfter(token) \in Seq(ColumnSpec)
                  /\ LastChanges(stmt.columnSpecs, columnSpecsAfter(token), r)
                  /\ stmt.columnSpecs # <<>> =>
                        ColumnSpecAfter(token, stmt.columnSpecs[Len(stmt.columnSpecs)], r)
<1>1. PICK R \in Seq(ColumnSpec) : R = stmt.columnSpecs
  BY DEF TextInv, Statement
<1>2. here \in Int
  BY HereIsNext
<1>3. PICK last : last = R[Len(R)]
  OBVIOUS
<1>4. R # <<>> => last \in ColumnSpec
  BY <1>1, <1>3
<1>5. nullableImplied(token) => state \in {"CreateTableColumnType", "CreateTableTypeDetailEnd"}
  BY DEF nullableImplied
<1>6. ASSUME NEW r, columnSpecsAfter(token) = [R EXCEPT ![Len(R)] = r],
             R # <<>> => ColumnSpecAfter(token, last, r)
      PROVE  /\ columnSpecsAfter(token) \in Seq(ColumnSpec)
             /\ LastChanges(R, columnSpecsAfter(token), r)
  BY <1>1, <1>6, LastChanged DEF ColumnSpecAfter
<1>7. \E r : /\ columnSpecsAfter(token) = [R EXCEPT ![Len(R)] = r]
             /\ R # <<>> => ColumnSpecAfter(token, last, r)
  <2>1. CASE state = "CreateTableColumnName"
    <3>1. PICK r : r = [last EXCEPT !.type = here]
      OBVIOUS
    <3>2. columnSpecsAfter(token) = [R EXCEPT ![Len(R)] = r]
      BY <1>1, <1>3, <1>5, <2>1, <3>1 DEF columnSpecsAfter
    <3>3. R # <<>> => ColumnSpecAfter(token, last, r)
      BY <1>2, <1>4, <1>5, <2>1, <3>1 DEF ColumnSpecAfter, ColumnSpec
    <3> QED
      BY <3>2, <3>3
  <2>2. CASE nullableImplied(token) /\ state = "CreateTableColumnType"
    <3>1. PICK r : r = [name |-> last.name, type |-> last.type, length |-> 0,
                     precision |-> 0, nullable |-> TRUE]
      OBVIOUS
    <3>2. columnSpecsAfter(token) = [R EXCEPT ![Len(R)] = r]
      BY <1>1, <1>3, <2>2, <3>1 DEF columnSpecsAfter
    <3>3. R # <<>> => ColumnSpecAfter(token, last, r)
      <4>1. R # <<>> => /\ r \in ColumnSpec /\ r.name = last.name /\ r.type = last.type
                        /\ r.length = 0 /\ r.precision = 0 /\ r.nullable = TRUE
        BY <1>4, <3>1 DEF ColumnSpec
      <4> QED
        BY <2>2, <4>1 DEF ColumnSpecAfter
    <3> QED
      BY <3>2, <3>3
  <2>3. CASE nullableImplied(token) /\ state = "CreateTableTypeDetailEnd"
    <3>1. PICK r : r = [last EXCEPT !.nullable = TRUE]
      OBVIOUS
    <3>2. columnSpecsAfter(token) = [R EXCEPT ![Len(R)] = r]
      BY <1>1, <1>3, <2>3, <3>1 DEF columnSpecsAfter
    <3>3. R # <<>> => ColumnSpecAfter(token, last, r)
      BY <1>2, <1>4, <2>3, <3>1 DEF ColumnSpecAfter, ColumnSpec
    <3> QED
      BY <3>2, <3>3
  <2>4. CASE state = "CreateTableTypeDetailBegin"
    <3>1. PICK r : r = [last EXCEPT !.length = here]
      OBVIOUS
    <3>2. columnSpecsAfter(token) = [R EXCEPT ![Len(R)] = r]
      BY <1>1, <1>3, <1>5, <2>4, <3>1 DEF columnSpecsAfter
    <3>3. R # <<>> => ColumnSpecAfter(token, last, r)
      BY <1>2, <1>4, <1>5, <2>4, <3>1 DEF ColumnSpecAfter, ColumnSpec
    <3> QED
      BY <3>2, <3>3
  <2>5. CASE state = "CreateTableTypeDetailSeperator"
    <3>1. PICK r : r = [last EXCEPT !.precision = here]
      OBVIOUS
    <3>2. columnSpecsAfter(token) = [R EXCEPT ![Len(R)] = r]
      BY <1>1, <1>3, <1>5, <2>5, <3>1 DEF columnSpecsAfter
    <3>3. R # <<>> => ColumnSpecAfter(token, last, r)
      BY <1>2, <1>4, <1>5, <2>5, <3>1 DEF ColumnSpecAfter, ColumnSpec
    <3> QED
      BY <3>2, <3>3
  <2>6. CASE state = "CreateTableTypeNot"
    <3>1. PICK r : r = [last EXCEPT !.nullable = FALSE]
      OBVIOUS
    <3>2. columnSpecsAfter(token) = [R EXCEPT ![Len(R)] = r]
      BY <1>1, <1>3, <1>5, <2>6, <3>1 DEF columnSpecsAfter
    <3>3. R # <<>> => ColumnSpecAfter(token, last, r)
      BY <1>2, <1>4, <1>5, <2>6, <3>1 DEF ColumnSpecAfter, ColumnSpec
    <3> QED
      BY <3>2, <3>3
  <2>7. CASE /\ ~ nullableImplied(token)
             /\ state \notin {"CreateTableColumnName", "CreateTableTypeDetailBegin",
                              "CreateTableTypeDetailSeperator", "CreateTableTypeNot"}
    <3>1. columnSpecsAfter(token) = R
      BY <1>1, <2>7 DEF columnSpecsAfter
    <3>2. R = [R EXCEPT ![Len(R)] = last]
      BY <1>1, <1>3
    <3>3. R # <<>> => ColumnSpecAfter(token, last, last)
      BY <1>4, <2>7 DEF ColumnSpecAfter
    <3> QED
      BY <3>1, <3>2, <3>3
  <2> QED
    BY <1>5, <2>1, <2>2, <2>3, <2>4, <2>5, <2>6, <2>7
<1> QED
  BY <1>1, <1>3, <1>6, <1>7

\* The parts of a statement keep their types.
LEMMA CollectedTypes ==
    ASSUME TextInv, NEW token \in Tokens
    PROVE  Collected(token) \in Statement
<1>1. here \in Int /\ prev(2) \in Int /\ Unset \in Int /\ Master \in Int
  BY HereIsNext DEF prev, Unset, Master
<1>2. relationsAfter(token) \in Seq(Relation)
  <2>1. CASE state \in TableStates
    <3>1. ~ masterImplied(token) /\ ~ versionNamed /\ ~ aliasNamed(token)
      BY <2>1 DEF TableStates, masterImplied, versionNamed, aliasNamed
    <3>2. relationsAfter(token) = relationsNamed
      BY <3>1 DEF relationsAfter
    <3>3. stmt.relations \in Seq(Relation)
      BY DEF TextInv, Statement
    <3>4. \A v \in {Unset, Master} : [name |-> here, alias |-> Unset, version |-> v] \in Relation
      BY <1>1 DEF Relation
    <3>5. \E v \in {Unset, Master} :
             relationsNamed = Append(stmt.relations, [name |-> here, alias |-> Unset, version |-> v])
      BY <2>1, RelationsChange DEF TableStates
    <3> QED
      BY <3>2, <3>3, <3>4, <3>5
  <2>2. CASE state \notin TableStates
    BY <2>2, RelationsAfter
  <2> QED
    BY <2>1, <2>2
<1>3. columnSpecsAfter(token) \in Seq(ColumnSpec)
  <2>1. CASE state \in {"CreateTableColumnsBegin", "CreateTableColumnSeperator"}
    <3>1. PICK r : r = [name |-> here, type |-> Unset, length |-> 0, precision |-> 0,
                       nullable |-> FALSE]
      OBVIOUS
    <3>2. r \in ColumnSpec
      BY <1>1, <3>1 DEF ColumnSpec
    <3>3. ~ nullableImplied(token)
      BY <2>1 DEF nullableImplied
    <3>4. columnSpecsAfter(token) = Append(stmt.columnSpecs, r)
      BY <2>1, <3>1, <3>3 DEF columnSpecsAfter
    <3>5. stmt.columnSpecs \in Seq(ColumnSpec)
      BY DEF TextInv, Statement
    <3> QED
      BY <3>2, <3>4, <3>5
  <2>2. CASE state \notin {"CreateTableColumnsBegin", "CreateTableColumnSeperator"}
    BY <2>2, ColumnSpecsAfter
  <2> QED
    BY <2>1, <2>2
<1>4. ASSUME NEW list \in Seq(Int), NEW states PROVE Listed(list, states) \in Seq(Int)
  BY <1>1 DEF Listed
<1>5. ASSUME NEW list \in Seq(Int \X Int), NEW states PROVE Compared(list, states) \in Seq(Int \X Int)
  BY <1>1 DEF Compared
<1>6. ASSUME NEW name \in Int, NEW s PROVE Named(name, s) \in Int
  BY <1>1 DEF Named
<1>7. /\ stmt.columns \in Seq(Int) /\ stmt.values \in Seq(Int)
      /\ stmt.updates \in Seq(Int \X Int) /\ stmt.selections \in Seq(Int \X Int)
      /\ stmt.joinConditions \in Seq(Int \X Int)
      /\ stmt.tableName \in Int /\ stmt.branchName \in Int /\ stmt.parentBranchName \in Int
      /\ stmt.filePath \in Int /\ stmt.format \in Tokens \cup {""}
      /\ stmt.directionFrom \in BOOLEAN
  BY DEF TextInv, Statement
<1>8. PICK s : s = Collected(token)
  OBVIOUS
<1>9. /\ s.relations \in Seq(Relation) /\ s.columnSpecs \in Seq(ColumnSpec)
      /\ s.columns \in Seq(Int) /\ s.values \in Seq(Int)
      /\ s.updates \in Seq(Int \X Int) /\ s.selections \in Seq(Int \X Int)
      /\ s.joinConditions \in Seq(Int \X Int)
      /\ s.tableName \in Int /\ s.branchName \in Int /\ s.parentBranchName \in Int
      /\ s.filePath \in Int /\ s.format \in Tokens \cup {""}
  BY <1>2, <1>3, <1>4, <1>5, <1>6, <1>7, <1>8 DEF Collected
<1>10. s.directionFrom \in BOOLEAN
  BY <1>7, <1>8, Zenon DEF Collected
<1>11. s = [relations |-> s.relations, columnSpecs |-> s.columnSpecs, columns |-> s.columns,
            values |-> s.values, updates |-> s.updates, selections |-> s.selections,
            joinConditions |-> s.joinConditions, tableName |-> s.tableName,
            branchName |-> s.branchName, parentBranchName |-> s.parentBranchName,
            filePath |-> s.filePath, format |-> s.format, directionFrom |-> s.directionFrom]
  BY <1>8 DEF Collected
<1> QED
  BY <1>8, <1>9, <1>10, <1>11 DEF Statement

\* The parser reads a token of the input and goes on.
Reads(token) ==
    /\ token \in Tokens
    /\ <<state, token, state'>> \in Transitions
    /\ stmt' = Collected(token)
    /\ tokens' = Append(tokens, token)

\* The text keeps what has been read.
LEMMA TextGrows ==
    ASSUME TextInv, NEW token \in Text, tokens' = Append(tokens, token)
    PROVE  /\ Len(tokens') = here /\ tokens'[here] = token
           /\ \A p \in 1 .. Len(tokens) : tokens'[p] = tokens[p]
           /\ tokens' \in Seq(Text)
BY HereIsNext DEF TextInv

------------------------------------------------------------------------------
(* Versions                                                                *)

RelationStates == {"CopyTable", "UpdateRelationName", "InsertRelationName",
                   "DeleteRelationName", "SelectFromRelationName"}
VersionStates == {"CopyVersion", "DeleteVersion", "UpdateVersion", "InsertVersion",
                  "SelectFromVersion"}

\* A table has been named when the parser expects its version, and only then.
LEMMA RelationTransitions ==
    ASSUME NEW s, NEW t, NEW u, <<s, t, u>> \in Transitions
    PROVE  /\ s \in TableStates => t = "identifier" /\ u \in RelationStates
           /\ u \in RelationStates => s \in TableStates
           /\ s \in {"DeleteFrom", "SelectFrom", "SelectFromSeparator"} <=>
                 u \in {"DeleteRelationName", "SelectFromRelationName"}
           /\ u \in VersionStates <=> s \in RelationStates /\ t = "version"
           /\ s \in RelationStates /\ t # "version" =>
                 \/ s \in {"DeleteRelationName", "SelectFromRelationName"}
                 \/ s = "CopyTable" /\ t \in {"from", "to"}
                 \/ s = "UpdateRelationName" /\ t = "set"
                 \/ s = "InsertRelationName" /\ t \in {"(", "values"}
           /\ s \in VersionStates => t = "identifier"
<1> USE DEF TableStates, RelationStates, VersionStates
<1>1. CASE <<s, t, u>> \in InitTransitions
  BY <1>1 DEF InitTransitions
<1>2. CASE <<s, t, u>> \in CopyTransitions
  BY <1>2 DEF CopyTransitions
<1>3. CASE <<s, t, u>> \in CreateTransitions
  BY <1>3 DEF CreateTransitions
<1>4. CASE <<s, t, u>> \in DeleteTransitions
  BY <1>4 DEF DeleteTransitions, WhereTransitions
<1>5. CASE <<s, t, u>> \in UpdateTransitions
  BY <1>5 DEF UpdateTransitions, WhereTransitions
<1>6. CASE <<s, t, u>> \in InsertTransitions
  BY <1>6 DEF InsertTransitions
<1>7. CASE <<s, t, u>> \in SelectTransitions
  BY <1>7 DEF SelectTransitions, WhereTransitions
<1> QED
  BY <1>1, <1>2, <1>3, <1>4, <1>5, <1>6, <1>7, TransitionParts

\* The version of a relation is the one that is written, and has been read.
VersionRead(r) ==
    /\ r.name \in 1 .. Len(tokens) - 1
    /\ r.version = IF tokens[r.name + 1] = "version" THEN r.name + 2 ELSE Master

\* The last relation, whose version may not have been read.
LastVersion(r) ==
    /\ r.name \in 1 .. Len(tokens)
    /\ state \in RelationStates =>
          /\ r.name = Len(tokens)
          /\ state \in {"DeleteRelationName", "SelectFromRelationName"} => r.version = Master
    /\ state \in VersionStates =>
          r.name + 1 = Len(tokens) /\ tokens[Len(tokens)] = "version"
    /\ state \notin RelationStates \cup VersionStates => VersionRead(r)
    /\ state \in RelationStates \cup VersionStates => r.version \in {Unset, Master}

VersionsInv ==
    /\ state \in RelationStates \cup VersionStates => stmt.relations # <<>>
    /\ \A i \in 1 .. Len(stmt.relations) :
          IF i = Len(stmt.relations) THEN LastVersion(stmt.relations[i])
          ELSE VersionRead(stmt.relations[i])

\* A version that has been read stays as it is written.
LEMMA VersionsStayRead ==
    ASSUME TextInv, NEW token \in Text, tokens' = Append(tokens, token), NEW r, VersionRead(r)
    PROVE  VersionRead(r)'
<1>1. /\ Len(tokens') = Len(tokens) + 1 /\ Len(tokens) \in Nat
      /\ \A p \in 1 .. Len(tokens) : tokens'[p] = tokens[p]
  BY HereIsNext, TextGrows
<1>2. r.name \in 1 .. Len(tokens) - 1 /\ r.name + 1 \in 1 .. Len(tokens)
  BY <1>1 DEF VersionRead
<1>3. tokens'[r.name + 1] = tokens[r.name + 1] /\ r.name \in 1 .. Len(tokens') - 1
  BY <1>1, <1>2
<1> QED
  BY <1>3 DEF VersionRead

\* Every token keeps the versions as they are written.
LEMMA VersionsKept ==
    ASSUME TextInv, VersionsInv, NEW token, Reads(token)
    PROVE  VersionsInv'
<1>1. PICK R \in Seq(Relation) : R = stmt.relations
  BY DEF TextInv, Statement
<1>2. PICK S : S = stmt'.relations /\ S = relationsAfter(token)
  BY DEF Reads, Collected
<1>3. PICK n \in Nat : /\ n = Len(tokens) /\ here = n + 1 /\ Len(tokens') = n + 1
                       /\ tokens'[n + 1] = token
                       /\ \A p \in 1 .. n : tokens'[p] = tokens[p]
  BY HereIsNext, TextGrows DEF Reads, Text
<1>4. ASSUME NEW r, VersionRead(r) PROVE VersionRead(r)'
  BY <1>4, VersionsStayRead DEF Reads, Text
<1>5. <<state, token, state'>> \in Transitions
  BY DEF Reads
<1>6. CASE state \in TableStates
  <2>1. state \notin RelationStates \cup VersionStates
    BY <1>6 DEF TableStates, RelationStates, VersionStates
  <2>2. \A i \in 1 .. Len(R) : VersionRead(R[i])'
    BY <1>1, <1>4, <2>1 DEF VersionsInv, LastVersion
  <2>3. ~ masterImplied(token) /\ ~ versionNamed /\ ~ aliasNamed(token)
    BY <1>6 DEF TableStates, masterImplied, versionNamed, aliasNamed
  <2>4. S = relationsNamed
    BY <1>2, <2>3 DEF relationsAfter
  <2>5. PICK r : /\ S = Append(R, r) /\ r.name = n + 1 /\ r.version \in {Unset, Master}
                 /\ state \in {"DeleteFrom", "SelectFrom", "SelectFromSeparator"} =>
                       r.version = Master
    BY <1>1, <1>3, <1>6, <2>4, RelationsChange DEF TableStates
  <2>6. LastVersion(r)'
    BY <1>3, <1>5, <1>6, <2>5, RelationTransitions DEF LastVersion, TableStates, RelationStates, VersionStates
  <2>7. /\ Len(S) = Len(R) + 1 /\ S[Len(R) + 1] = r /\ S # <<>> /\ Len(R) \in Nat
        /\ \A i \in 1 .. Len(R) : S[i] = R[i]
    BY <1>1, <2>5
  <2> QED
    BY <1>2, <2>2, <2>6, <2>7 DEF VersionsInv
<1>7. CASE state \notin TableStates
  <2>1. PICK r : /\ S \in Seq(Relation) /\ LastChanges(R, S, r)
                 /\ R # <<>> => RelationAfter(token, R[Len(R)], r)
    BY <1>1, <1>2, <1>7, RelationsAfter
  <2>2. /\ Len(S) = Len(R) /\ Len(R) \in Nat /\ (R = <<>> <=> S = <<>>)
        /\ \A i \in 1 .. Len(R) : i # Len(R) => S[i] = R[i]
        /\ R # <<>> => S[Len(R)] = r
    BY <1>1, <2>1 DEF LastChanges
  <2>3. state' \notin RelationStates
    BY <1>5, <1>7, RelationTransitions
  <2>4. state' \in VersionStates => S # <<>>
    BY <1>1, <1>5, <2>2, RelationTransitions DEF VersionsInv
  <2>5. ASSUME R # <<>> PROVE LastVersion(r)'
    <3>1. PICK last : last = R[Len(R)]
      OBVIOUS
    <3>2. LastVersion(last) /\ RelationAfter(token, last, r)
      BY <1>1, <2>1, <2>5, <3>1 DEF VersionsInv
    <3>3. r.name = last.name
      BY <3>2 DEF RelationAfter
    <3>4. CASE state \in RelationStates /\ token = "version"
      <4>1. ~ masterImplied(token) /\ ~ versionNamed
        BY <3>4 DEF masterImplied, versionNamed, RelationStates
      <4>2. r.version = last.version
        BY <3>2, <4>1 DEF RelationAfter
      <4>3. state' \in VersionStates
        BY <1>5, <3>4, RelationTransitions
      <4>4. last.name = n /\ last.name \in 1 .. n /\ last.version \in {Unset, Master}
        BY <1>3, <3>2, <3>4 DEF LastVersion
      <4> QED
        BY <1>3, <2>3, <3>3, <3>4, <4>2, <4>3, <4>4 DEF LastVersion
    <3>5. CASE state \in RelationStates /\ token # "version"
      <4>1. state' \notin VersionStates
        BY <1>5, <3>5, RelationTransitions
      <4>2. r.version = Master
        BY <1>5, <3>2, <3>5, RelationTransitions
        DEF RelationAfter, LastVersion, masterImplied, versionNamed, RelationStates
      <4>3. last.name = n /\ last.name \in 1 .. n
        BY <1>3, <3>2, <3>5 DEF LastVersion
      <4>4. tokens'[last.name + 1] # "version" /\ last.name \in 1 .. Len(tokens') - 1
        BY <1>3, <3>5, <4>3
      <4> QED
        BY <1>3, <2>3, <3>3, <4>1, <4>2, <4>3, <4>4 DEF LastVersion, VersionRead
    <3>6. CASE state \in VersionStates
      <4>1. state' \notin VersionStates
        BY <1>5, <3>6, RelationTransitions DEF RelationStates, VersionStates
      <4>2. ~ masterImplied(token) /\ versionNamed
        BY <3>6 DEF masterImplied, versionNamed, VersionStates
      <4>3. r.version = n + 1 /\ last.name \in 1 .. n /\ last.name + 1 = n /\ tokens[n] = "version"
        BY <1>3, <3>2, <3>6, <4>2 DEF RelationAfter, LastVersion
      <4>4. tokens'[last.name + 1] = "version" /\ last.name \in 1 .. Len(tokens') - 1
        BY <1>3, <4>3
      <4> QED
        BY <2>3, <3>3, <4>1, <4>3, <4>4 DEF LastVersion, VersionRead
    <3>7. CASE state \notin RelationStates \cup VersionStates
      <4>1. state' \notin VersionStates
        BY <1>5, <3>7, RelationTransitions
      <4>2. ~ masterImplied(token) /\ ~ versionNamed
        BY <3>7 DEF masterImplied, versionNamed, RelationStates, VersionStates
      <4>3. r.version = last.version
        BY <3>2, <4>2 DEF RelationAfter
      <4>4. VersionRead(last)'
        BY <1>4, <3>2, <3>7 DEF LastVersion
      <4> QED
        BY <2>3, <3>3, <4>1, <4>3, <4>4 DEF LastVersion, VersionRead
    <3> QED
      BY <3>4, <3>5, <3>6, <3>7
  <2>6. \A i \in 1 .. Len(R) : i # Len(R) => VersionRead(R[i])'
    BY <1>1, <1>4 DEF VersionsInv
  <2> QED
    BY <1>2, <2>2, <2>3, <2>4, <2>5, <2>6 DEF VersionsInv
<1> QED
  BY <1>6, <1>7

------------------------------------------------------------------------------
(* Conditions                                                              *)

LhsStates == {"UpdateSetExprLhs", "UpdateWhereExprLhs", "DeleteWhereExprLhs", "SelectWhereExprLhs"}
OpStates == {"UpdateSetExprOp", "UpdateWhereExprOp", "DeleteWhereExprOp", "SelectWhereExprOp"}

\* The states of an UPDATE in front of its WHERE, and the states behind a WHERE.
BeforeWhere == {"Init", "Update", "UpdateRelationName", "UpdateVersion", "UpdateTag", "UpdateSet",
                "UpdateSetSeperator", "UpdateSetExprLhs", "UpdateSetExprOp", "UpdateSetExprRhs"}
AfterWhere == {"UpdateWhere", "UpdateWhereAnd", "UpdateWhereExprLhs", "UpdateWhereExprOp",
               "UpdateWhereExprRhs", "DeleteWhere", "DeleteWhereAnd", "DeleteWhereExprLhs",
               "DeleteWhereExprOp", "DeleteWhereExprRhs", "SelectWhere", "SelectWhereAnd",
               "SelectWhereExprLhs", "SelectWhereExprOp", "SelectWhereExprRhs"}

\* A condition is a column, an operator and an operand, in this order.
LEMMA ConditionTransitions ==
    ASSUME NEW s, NEW t, NEW u, <<s, t, u>> \in Transitions
    PROVE  /\ u \in LhsStates => t = "identifier"
           /\ u \in OpStates => s \in LhsStates /\ t = "op"
           /\ s \in OpStates => \/ t \in Literals
                                \/ s = "SelectWhereExprOp" /\ t = "identifier"
           /\ u \in BeforeWhere => s \in BeforeWhere /\ t # "where"
           /\ u \in AfterWhere => s \in AfterWhere \/ t = "where"
<1> USE DEF LhsStates, OpStates, BeforeWhere, AfterWhere
<1>1. CASE <<s, t, u>> \in InitTransitions
  BY <1>1 DEF InitTransitions
<1>2. CASE <<s, t, u>> \in CopyTransitions
  BY <1>2 DEF CopyTransitions
<1>3. CASE <<s, t, u>> \in CreateTransitions
  BY <1>3 DEF CreateTransitions
<1>4. CASE <<s, t, u>> \in DeleteTransitions
  BY <1>4 DEF DeleteTransitions, WhereTransitions
<1>5. CASE <<s, t, u>> \in UpdateTransitions
  BY <1>5 DEF UpdateTransitions, WhereTransitions, Literals
<1>6. CASE <<s, t, u>> \in InsertTransitions
  BY <1>6 DEF InsertTransitions
<1>7. CASE <<s, t, u>> \in SelectTransitions
  BY <1>7 DEF SelectTransitions, WhereTransitions, Literals
<1> QED
  BY <1>1, <1>2, <1>3, <1>4, <1>5, <1>6, <1>7, TransitionParts

WhereBefore(k) == \E p \in 1 .. k : tokens[p] = "where"

\* The condition c has been read, and its operand is one of operands.
ConditionRead(c, operands) ==
    /\ c[1] \in 1 .. Len(tokens) - 2 /\ c[2] = c[1] + 2
    /\ tokens[c[1]] = "identifier" /\ tokens[c[1] + 1] = "op" /\ tokens[c[2]] \in operands

\* An assignment stands in front of the WHERE, a selection or a join condition
\* behind it.
Assignment(c) == ConditionRead(c, Literals) /\ ~ WhereBefore(c[1])
Condition(c, operands) == ConditionRead(c, operands) /\ WhereBefore(c[1])

ConditionsInv ==
    /\ state \in LhsStates => Len(tokens) # 0 /\ tokens[Len(tokens)] = "identifier"
    /\ state \in OpStates => /\ Len(tokens) - 1 \in 1 .. Len(tokens)
                             /\ tokens[Len(tokens) - 1] = "identifier"
                             /\ tokens[Len(tokens)] = "op"
    /\ state \in BeforeWhere => ~ WhereBefore(Len(tokens))
    /\ state \in AfterWhere => WhereBefore(Len(tokens))
    /\ \A i \in 1 .. Len(stmt.updates) : Assignment(stmt.updates[i])
    /\ \A i \in 1 .. Len(stmt.selections) : Condition(stmt.selections[i], Literals)
    /\ \A i \in 1 .. Len(stmt.joinConditions) : Condition(stmt.joinConditions[i], {"identifier"})

\* What has been read stays as it is written.
LEMMA ConditionsStayRead ==
    ASSUME TextInv, NEW token \in Text, tokens' = Append(tokens, token), NEW c
    PROVE  /\ \A k \in 1 .. Len(tokens) : WhereBefore(k)' <=> WhereBefore(k)
           /\ \A operands : ConditionRead(c, operands) => ConditionRead(c, operands)'
           /\ Assignment(c) => Assignment(c)'
           /\ \A operands : Condition(c, operands) => Condition(c, operands)'
<1>1. PICK n \in Nat : /\ n = Len(tokens) /\ Len(tokens') = n + 1
                       /\ \A p \in 1 .. n : tokens'[p] = tokens[p]
  BY HereIsNext, TextGrows
<1>2. \A k \in 1 .. Len(tokens) : WhereBefore(k)' <=> WhereBefore(k)
  <2>1. \A k \in 1 .. n : \A p \in 1 .. k : tokens'[p] = tokens[p]
    BY <1>1
  <2> QED
    BY <1>1, <2>1 DEF WhereBefore
<1>3. ASSUME NEW operands, ConditionRead(c, operands)
      PROVE  ConditionRead(c, operands)' /\ c[1] \in 1 .. Len(tokens)
  <2>1. /\ c[1] \in 1 .. n - 2 /\ c[2] = c[1] + 2 /\ c[1] + 1 \in 1 .. n /\ c[2] \in 1 .. n
    BY <1>1, <1>3 DEF ConditionRead
  <2>2. /\ tokens'[c[1]] = tokens[c[1]] /\ tokens'[c[1] + 1] = tokens[c[1] + 1]
        /\ tokens'[c[2]] = tokens[c[2]] /\ c[1] \in 1 .. Len(tokens') - 2 /\ c[1] \in 1 .. n
    BY <1>1, <2>1
  <2> QED
    BY <1>1, <1>3, <2>1, <2>2 DEF ConditionRead
<1>4. Assignment(c) => Assignment(c)'
  BY <1>2, <1>3 DEF Assignment
<1>5. \A operands : Condition(c, operands) => Condition(c, operands)'
  BY <1>2, <1>3 DEF Condition
<1> QED
  BY <1>2, <1>3, <1>4, <1>5

\* Every token keeps the conditions as they are written.
LEMMA ConditionsKept ==
    ASSUME TextInv, ConditionsInv, NEW token, Reads(token)
    PROVE  ConditionsInv'
<1>1. PICK n \in Nat : /\ n = Len(tokens) /\ here = n + 1 /\ Len(tokens') = n + 1
                       /\ tokens'[n + 1] = token
                       /\ \A p \in 1 .. n : tokens'[p] = tokens[p]
  BY HereIsNext, TextGrows DEF Reads, Text
<1>2. <<state, token, state'>> \in Transitions
  BY DEF Reads
<1>3. ASSUME NEW c
      PROVE  /\ Assignment(c) => Assignment(c)'
             /\ \A operands : Condition(c, operands) => Condition(c, operands)'
  BY ConditionsStayRead DEF Reads, Text
<1>4. \A k \in 1 .. n : WhereBefore(k)' <=> WhereBefore(k)
  BY <1>1, ConditionsStayRead DEF Reads, Text
<1>5. state' \in LhsStates => Len(tokens') # 0 /\ tokens'[Len(tokens')] = "identifier"
  BY <1>1, <1>2, ConditionTransitions
<1>6. state' \in OpStates => /\ Len(tokens') - 1 \in 1 .. Len(tokens')
                             /\ tokens'[Len(tokens') - 1] = "identifier"
                             /\ tokens'[Len(tokens')] = "op"
  <2> SUFFICES ASSUME state' \in OpStates PROVE /\ Len(tokens') - 1 \in 1 .. Len(tokens')
                                                /\ tokens'[Len(tokens') - 1] = "identifier"
                                                /\ tokens'[Len(tokens')] = "op"
    OBVIOUS
  <2>1. n # 0 /\ tokens[n] = "identifier" /\ token = "op"
    BY <1>1, <1>2, ConditionTransitions DEF ConditionsInv
  <2>2. n \in 1 .. n /\ (n + 1) - 1 = n /\ n \in 1 .. n + 1
    BY <2>1
  <2> QED
    BY <1>1, <2>1, <2>2
<1>7. WhereBefore(n + 1)' <=> WhereBefore(n) \/ token = "where"
  BY <1>1 DEF WhereBefore
<1>8. state' \in BeforeWhere => ~ WhereBefore(Len(tokens))'
  BY <1>1, <1>2, <1>7, ConditionTransitions DEF ConditionsInv
<1>9. state' \in AfterWhere => WhereBefore(Len(tokens))'
  BY <1>1, <1>2, <1>7, ConditionTransitions DEF ConditionsInv
<1>14. PICK c : c = <<prev(2), here>>
  OBVIOUS
<1>15. c \in Int \X Int /\ c[1] = n - 1 /\ c[2] = n + 1
  BY <1>1, <1>14 DEF prev
<1>10. ASSUME state \in OpStates
       PROVE  /\ \A operands : token \in operands => ConditionRead(c, operands)'
              /\ WhereBefore(c[1])' <=> WhereBefore(n)
  <2>1. /\ n - 1 \in 1 .. n /\ tokens[n - 1] = "identifier" /\ tokens[n] = "op"
    BY <1>1, <1>10 DEF ConditionsInv
  <2>4. /\ n \in 1 .. n /\ (n - 1) + 1 = n /\ (n - 1) + 2 = n + 1 /\ (n + 1) - 2 = n - 1
        /\ n - 1 \in 1 .. n - 1
    BY <2>1
  <2>5. tokens'[n - 1] = "identifier" /\ tokens'[n] = "op" /\ tokens'[n + 1] = token
    BY <1>1, <2>1, <2>4
  <2>6. \A operands : token \in operands => ConditionRead(c, operands)'
    BY <1>1, <1>15, <2>4, <2>5 DEF ConditionRead
  <2>7. WhereBefore(n - 1) <=> WhereBefore(n)
    <3>1. \A p \in 1 .. n : p \in 1 .. n - 1 \/ p = n
      BY <1>1
    <3>2. 1 .. n - 1 \subseteq 1 .. n
      BY <1>1
    <3> QED
      BY <2>1, <3>1, <3>2 DEF WhereBefore
  <2> QED
    BY <1>4, <1>15, <2>1, <2>6, <2>7
<1>11. ASSUME NEW list \in Seq(Int \X Int), NEW states, NEW longer, longer = Compared(list, states)
       PROVE  \A i \in 1 .. Len(longer) :
                  \/ i \in 1 .. Len(list) /\ longer[i] = list[i]
                  \/ state \in states /\ longer[i] = c
  <2>1. CASE state \in states
    <3>1. longer = Append(list, c)
      BY <1>11, <1>14, <2>1 DEF Compared
    <3> QED
      BY <1>15, <2>1, <3>1
  <2>2. CASE state \notin states
    BY <1>11, <2>2 DEF Compared
  <2> QED
    BY <2>1, <2>2
<1>12. /\ stmt.updates \in Seq(Int \X Int) /\ stmt.selections \in Seq(Int \X Int)
       /\ stmt.joinConditions \in Seq(Int \X Int)
  BY DEF TextInv, Statement
<1>13. \A i \in 1 .. Len(stmt'.updates) : Assignment(stmt.updates[i])'
  <2>1. PICK longer : longer = stmt'.updates /\ longer = Compared(stmt.updates, {"UpdateSetExprOp"})
    BY DEF Reads, Collected
  <2>2. state = "UpdateSetExprOp" => Assignment(c)'
    <3> SUFFICES ASSUME state = "UpdateSetExprOp" PROVE Assignment(c)'
      OBVIOUS
    <3>1. state \in OpStates /\ token \in Literals /\ state \in BeforeWhere
      BY <1>2, ConditionTransitions DEF OpStates, BeforeWhere
    <3>2. ~ WhereBefore(n)
      BY <1>1, <3>1 DEF ConditionsInv
    <3> QED
      BY <1>10, <3>1, <3>2 DEF Assignment
  <2>3. \A i \in 1 .. Len(longer) :
            \/ i \in 1 .. Len(stmt.updates) /\ longer[i] = stmt.updates[i]
            \/ state = "UpdateSetExprOp" /\ longer[i] = c
    BY <1>11, <1>12, <2>1
  <2>4. \A i \in 1 .. Len(longer) : Assignment(longer[i])'
    <3>1. \A i \in 1 .. Len(longer) : Assignment(longer[i]) \/ (state = "UpdateSetExprOp" /\ longer[i] = c)
      BY <2>3 DEF ConditionsInv
    <3> QED
      BY <1>3, <2>2, <3>1
  <2> QED
    BY <2>1, <2>4
<1>16. state \in OpStates /\ state # "UpdateSetExprOp" =>
          \A operands : token \in operands => Condition(c, operands)'
  <2>1. state \in OpStates /\ state # "UpdateSetExprOp" => state \in AfterWhere
    BY DEF OpStates, AfterWhere
  <2> QED
    BY <1>1, <1>10, <2>1 DEF ConditionsInv, Condition
<1>17. \A i \in 1 .. Len(stmt'.selections) : Condition(stmt.selections[i], Literals)'
  <2> DEFINE states == {"DeleteWhereExprOp", "UpdateWhereExprOp", "SelectWhereExprOp"}
  <2>1. PICK longer : /\ longer = stmt'.selections
                      /\ longer = IF token \in Literals THEN Compared(stmt.selections, states)
                                  ELSE stmt.selections
    BY DEF Reads, Collected
  <2>2. state \in states => state \in OpStates /\ state # "UpdateSetExprOp"
    BY DEF OpStates
  <2> HIDE DEF states
  <2>3. \A i \in 1 .. Len(longer) :
            \/ i \in 1 .. Len(stmt.selections) /\ longer[i] = stmt.selections[i]
            \/ token \in Literals /\ state \in states /\ longer[i] = c
    BY <1>11, <1>12, <2>1
  <2>4. \A i \in 1 .. Len(longer) : Condition(longer[i], Literals)'
    <3>1. \A i \in 1 .. Len(longer) :
              \/ Condition(longer[i], Literals)
              \/ token \in Literals /\ state \in states /\ longer[i] = c
      BY <2>3 DEF ConditionsInv
    <3> QED
      BY <1>3, <1>16, <2>2, <3>1
  <2> QED
    BY <2>1, <2>4
<1>18. \A i \in 1 .. Len(stmt'.joinConditions) : Condition(stmt.joinConditions[i], {"identifier"})'
  <2>1. PICK longer : /\ longer = stmt'.joinConditions
                      /\ longer = IF token = "identifier"
                                  THEN Compared(stmt.joinConditions, {"SelectWhereExprOp"})
                                  ELSE stmt.joinConditions
    BY DEF Reads, Collected
  <2>2. state = "SelectWhereExprOp" => state \in OpStates /\ state # "UpdateSetExprOp"
    BY DEF OpStates
  <2>3. \A i \in 1 .. Len(longer) :
            \/ i \in 1 .. Len(stmt.joinConditions) /\ longer[i] = stmt.joinConditions[i]
            \/ token = "identifier" /\ state = "SelectWhereExprOp" /\ longer[i] = c
    BY <1>11, <1>12, <2>1
  <2>4. \A i \in 1 .. Len(longer) : Condition(longer[i], {"identifier"})'
    <3>1. \A i \in 1 .. Len(longer) :
              \/ Condition(longer[i], {"identifier"})
              \/ token = "identifier" /\ state = "SelectWhereExprOp" /\ longer[i] = c
      BY <2>3 DEF ConditionsInv
    <3> QED
      BY <1>3, <1>16, <2>2, <3>1
  <2> QED
    BY <2>1, <2>4
<1> QED
  BY <1>5, <1>6, <1>8, <1>9, <1>13, <1>17, <1>18 DEF ConditionsInv

------------------------------------------------------------------------------
(* Columns of a CREATE TABLE                                               *)

\* The states in which a column is being read.
ColumnStates == {"CreateTableColumnName", "CreateTableColumnType", "CreateTableTypeDetailBegin",
                 "CreateTableTypeDetailLength", "CreateTableTypeDetailSeperator",
                 "CreateTableTypeDetailPrecision", "CreateTableTypeDetailEnd",
                 "CreateTableTypeNot"}
NameExpected == {"CreateTableColumnsBegin", "CreateTableColumnSeperator"}

\* A column is its name, its type, and what is said about the type.
ColumnStep(s, t, u) ==
    /\ s \in NameExpected <=> u = "CreateTableColumnName"
    /\ s = "CreateTableColumnName" <=> u = "CreateTableColumnType"
    /\ (s = "CreateTableColumnType" /\ t = "(") <=> u = "CreateTableTypeDetailBegin"
    /\ s = "CreateTableTypeDetailBegin" <=> u = "CreateTableTypeDetailLength"
    /\ (s = "CreateTableTypeDetailLength" /\ t = ",") <=> u = "CreateTableTypeDetailSeperator"
    /\ s = "CreateTableTypeDetailSeperator" <=> u = "CreateTableTypeDetailPrecision"
    /\ ((s = "CreateTableTypeDetailLength" /\ t # ",") \/ s = "CreateTableTypeDetailPrecision")
          <=> u = "CreateTableTypeDetailEnd"
    /\ (s \in {"CreateTableColumnType", "CreateTableTypeDetailEnd"} /\ t = "not")
          <=> u = "CreateTableTypeNot"

\* Every transition follows that order (parseToken, the CREATE TABLE states).
LEMMA ColumnTransitions ==
    ASSUME NEW s, NEW t, NEW u, <<s, t, u>> \in Transitions
    PROVE  ColumnStep(s, t, u)
<1> USE DEF NameExpected, ColumnStep
<1>1. CASE <<s, t, u>> \in InitTransitions
  BY <1>1 DEF InitTransitions
<1>2. CASE <<s, t, u>> \in CopyTransitions
  BY <1>2 DEF CopyTransitions
<1>3. CASE <<s, t, u>> \in CreateTransitions
  BY <1>3 DEF CreateTransitions
<1>4. CASE <<s, t, u>> \in DeleteTransitions
  BY <1>4 DEF DeleteTransitions, WhereTransitions
<1>5. CASE <<s, t, u>> \in UpdateTransitions
  BY <1>5 DEF UpdateTransitions, WhereTransitions
<1>6. CASE <<s, t, u>> \in InsertTransitions
  BY <1>6 DEF InsertTransitions
<1>7. CASE <<s, t, u>> \in SelectTransitions
  BY <1>7 DEF SelectTransitions, WhereTransitions
<1> QED
  BY <1>1, <1>2, <1>3, <1>4, <1>5, <1>6, <1>7, TransitionParts

\* A type without length, with a length, and with length and precision.
Plain(r) == tokens[r.type + 1] # "(" /\ r.length = 0 /\ r.precision = 0
Sized(r) == /\ tokens[r.type + 1] = "(" /\ tokens[r.type + 3] # ","
            /\ r.length = r.type + 2 /\ r.precision = 0
Precise(r) == /\ tokens[r.type + 1] = "(" /\ tokens[r.type + 3] = ","
              /\ r.length = r.type + 2 /\ r.precision = r.type + 4

\* k is the position behind the type of column r.
Behind(r, k) ==
    /\ r.name \in Nat \ {0} /\ r.type = r.name + 1
    /\ \/ k = r.type + 1 /\ Plain(r)
       \/ k = r.type + 4 /\ Sized(r)
       \/ k = r.type + 6 /\ Precise(r)

\* A column that has been read.
ColumnRead(r) ==
    \E k \in 1 .. Len(tokens) :
        Behind(r, k) /\ (r.nullable = TRUE \/ r.nullable = FALSE)
                     /\ (r.nullable = TRUE <=> tokens[k] # "not")

\* The last column, as far as it has been read.
LastColumn(r) ==
    LET n == Len(tokens)
        typed(k) == r.name \in Nat \ {0} /\ r.type = r.name + 1 /\ r.type = k
    IN  /\ state = "CreateTableColumnName" =>
              r.name = n /\ n # 0 /\ r.type = Unset /\ r.length = 0 /\ r.precision = 0
        /\ state = "CreateTableColumnType" => typed(n) /\ r.length = 0 /\ r.precision = 0
        /\ state = "CreateTableTypeDetailBegin" =>
              typed(n - 1) /\ tokens[n] = "(" /\ r.length = 0 /\ r.precision = 0
        /\ state = "CreateTableTypeDetailLength" =>
              typed(n - 2) /\ tokens[n - 1] = "(" /\ r.length = n /\ r.precision = 0
        /\ state = "CreateTableTypeDetailSeperator" =>
              /\ typed(n - 3) /\ tokens[n - 2] = "(" /\ tokens[n] = ","
              /\ r.length = n - 1 /\ r.precision = 0
        /\ state = "CreateTableTypeDetailPrecision" =>
              /\ typed(n - 4) /\ tokens[n - 3] = "(" /\ tokens[n - 1] = ","
              /\ r.length = n - 2 /\ r.precision = n
        /\ state = "CreateTableTypeDetailEnd" =>
              \/ typed(n - 3) /\ Sized(r)
              \/ typed(n - 5) /\ Precise(r)
        /\ state = "CreateTableTypeNot" => Behind(r, n) /\ tokens[n] = "not"
        /\ state \notin ColumnStates => ColumnRead(r)

ColumnsInv ==
    /\ state \in ColumnStates => stmt.columnSpecs # <<>>
    /\ \A i \in 1 .. Len(stmt.columnSpecs) :
          IF i = Len(stmt.columnSpecs) THEN LastColumn(stmt.columnSpecs[i])
          ELSE ColumnRead(stmt.columnSpecs[i])

\* What has been read stays as it is written.
LEMMA ColumnsStayRead ==
    ASSUME TextInv, NEW token \in Text, tokens' = Append(tokens, token), NEW r, NEW k \in 1 .. Len(tokens)
    PROVE  Behind(r, k) => Behind(r, k)'
<1> SUFFICES ASSUME Behind(r, k) PROVE Behind(r, k)'
  OBVIOUS
<1>1. PICK n \in Nat : /\ n = Len(tokens) /\ Len(tokens') = n + 1
                       /\ \A p \in 1 .. n : tokens'[p] = tokens[p]
  BY HereIsNext, TextGrows
<1>2. PICK m \in Nat : m = r.type /\ m # 0 /\ r.name \in Nat \ {0} /\ m = r.name + 1
  BY DEF Behind
<1>6. k \in Nat /\ k <= n
  BY <1>1
<1>3. CASE k = r.type + 1 /\ Plain(r)
  <2>1. m + 1 \in 1 .. n
    BY <1>1, <1>2, <1>6, <1>3
  <2> QED
    BY <1>1, <1>2, <1>3, <2>1 DEF Behind, Plain
<1>4. CASE k = r.type + 4 /\ Sized(r)
  <2>0. k = m + 4
    BY <1>2, <1>4
  <2>1. m + 1 \in 1 .. n /\ m + 3 \in 1 .. n
    BY <1>1, <1>2, <1>6, <2>0
  <2> QED
    BY <1>1, <1>2, <1>4, <2>1 DEF Behind, Sized
<1>5. CASE k = r.type + 6 /\ Precise(r)
  <2>0. k = m + 6
    BY <1>2, <1>5
  <2>1. m + 1 \in 1 .. n /\ m + 3 \in 1 .. n
    BY <1>1, <1>2, <1>6, <2>0
  <2> QED
    BY <1>1, <1>2, <1>5, <2>1 DEF Behind, Precise
<1> QED
  BY <1>3, <1>4, <1>5 DEF Behind

\* Every token keeps the columns as they are declared.
LEMMA ColumnsKept ==
    ASSUME TextInv, ColumnsInv, NEW token, Reads(token)
    PROVE  ColumnsInv'
<1>1. PICK R \in Seq(ColumnSpec) : R = stmt.columnSpecs
  BY DEF TextInv, Statement
<1>2. PICK S : S = stmt'.columnSpecs /\ S = columnSpecsAfter(token)
  BY DEF Reads, Collected
<1>3. PICK n \in Nat : /\ n = Len(tokens) /\ here = n + 1 /\ Len(tokens') = n + 1
                       /\ tokens'[n + 1] = token
                       /\ \A p \in 1 .. n : tokens'[p] = tokens[p]
  BY HereIsNext, TextGrows DEF Reads, Text
<1>4. ASSUME NEW r, NEW k \in 1 .. n, Behind(r, k) PROVE Behind(r, k)' /\ tokens'[k] = tokens[k]
  BY <1>3, <1>4, ColumnsStayRead DEF Reads, Text
<1>5. ASSUME NEW r, ColumnRead(r) PROVE ColumnRead(r)'
  <2>1. 1 .. n \subseteq 1 .. n + 1
    BY <1>3
  <2> QED
    BY <1>3, <1>4, <1>5, <2>1 DEF ColumnRead
<1>6. ColumnStep(state, token, state')
  BY ColumnTransitions DEF Reads
<1>7. CASE state \in NameExpected
  <2>1. state' = "CreateTableColumnName"
    BY <1>6, <1>7 DEF ColumnStep
  <2>2. \A i \in 1 .. Len(R) : ColumnRead(R[i])'
    BY <1>1, <1>5, <1>7 DEF ColumnsInv, LastColumn, NameExpected, ColumnStates
  <2>3. PICK r : r = [name |-> here, type |-> Unset, length |-> 0, precision |-> 0,
                      nullable |-> FALSE]
    OBVIOUS
  <2>4. ~ nullableImplied(token)
    BY <1>7 DEF nullableImplied, NameExpected
  <2>5. S = Append(R, r)
    BY <1>1, <1>2, <1>7, <2>3, <2>4 DEF columnSpecsAfter, NameExpected
  <2>6. r \in ColumnSpec
    BY <1>3, <2>3 DEF ColumnSpec, Unset
  <2>7. LastColumn(r)'
    BY <1>3, <2>1, <2>3 DEF LastColumn, ColumnStates
  <2>8. /\ Len(S) = Len(R) + 1 /\ S[Len(R) + 1] = r /\ S # <<>> /\ Len(R) \in Nat
        /\ \A i \in 1 .. Len(R) : S[i] = R[i]
    BY <1>1, <2>5, <2>6
  <2> QED
    BY <1>2, <2>2, <2>7, <2>8 DEF ColumnsInv
<1>8. CASE state \notin NameExpected
  <2>1. PICK r : /\ S \in Seq(ColumnSpec) /\ LastChanges(R, S, r)
                 /\ R # <<>> => ColumnSpecAfter(token, R[Len(R)], r)
    BY <1>1, <1>2, <1>8, ColumnSpecsAfter DEF NameExpected
  <2>2. /\ Len(S) = Len(R) /\ Len(R) \in Nat /\ (R = <<>> <=> S = <<>>)
        /\ \A i \in 1 .. Len(R) : i # Len(R) => S[i] = R[i]
        /\ R # <<>> => S[Len(R)] = r
    BY <1>1, <2>1 DEF LastChanges
  <2>3. state' \in ColumnStates => S # <<>>
    <3>1. state' \in ColumnStates => state \in ColumnStates
      BY <1>6, <1>8 DEF ColumnStep, ColumnStates
    <3> QED
      BY <1>1, <2>2, <3>1 DEF ColumnsInv
  <2>4. ASSUME R # <<>> PROVE LastColumn(r)'
    <3>1. PICK last : last = R[Len(R)]
      OBVIOUS
    <3>2. LastColumn(last) /\ ColumnSpecAfter(token, last, r)
      BY <1>1, <2>1, <2>4, <3>1 DEF ColumnsInv
    <3>3. r.name = last.name
      BY <3>2 DEF ColumnSpecAfter
    <3>4. CASE state = "CreateTableColumnName"
      <4>1. state' = "CreateTableColumnType"
        BY <1>6, <3>4 DEF ColumnStep
      <4>2. ~ nullableImplied(token)
        BY <3>4 DEF nullableImplied
      <4>3. r.type = n + 1 /\ r.name = n /\ n # 0 /\ r.length = 0 /\ r.precision = 0
        BY <1>3, <3>2, <3>4, <4>2 DEF ColumnSpecAfter, LastColumn
      <4> QED
        BY <1>3, <4>1, <4>3 DEF LastColumn, ColumnStates
    <3>5. CASE state = "CreateTableColumnType"
      <4>1. last.name \in Nat \ {0} /\ last.type = last.name + 1 /\ last.type = n
            /\ last.length = 0 /\ last.precision = 0
        BY <1>3, <3>2, <3>5 DEF LastColumn
      <4>2. r.name = last.name /\ r.type = n /\ r.length = 0 /\ r.precision = 0
        BY <3>2, <3>5, <4>1 DEF ColumnSpecAfter
      <4>3. CASE token = "("
        <5>1. state' = "CreateTableTypeDetailBegin"
          BY <1>6, <3>5, <4>3 DEF ColumnStep
        <5> QED
          BY <1>3, <4>1, <4>2, <4>3, <5>1 DEF LastColumn, ColumnStates
      <4>4. CASE token = "not"
        <5>1. Behind(r, n + 1)'
          BY <1>3, <4>1, <4>2, <4>4 DEF Behind, Plain
        <5>2. state' = "CreateTableTypeNot"
          BY <1>6, <3>5, <4>4 DEF ColumnStep
        <5> QED
          BY <1>3, <4>4, <5>1, <5>2 DEF LastColumn, ColumnStates
      <4>5. CASE token \notin {"(", "not"}
        <5>1. Behind(r, n + 1)'
          BY <1>3, <4>1, <4>2, <4>5 DEF Behind, Plain
        <5>2. r.nullable = TRUE
          BY <3>2, <3>5, <4>5 DEF ColumnSpecAfter, nullableImplied
        <5>3. ColumnRead(r)'
          BY <1>3, <4>5, <5>1, <5>2 DEF ColumnRead
        <5>4. state' \notin ColumnStates
          BY <1>6, <3>5, <4>5 DEF ColumnStep, ColumnStates, NameExpected
        <5> QED
          BY <5>3, <5>4 DEF LastColumn, ColumnStates
      <4> QED
        BY <4>3, <4>4, <4>5
    <3>6. CASE state = "CreateTableTypeDetailBegin"
      <4>1. state' = "CreateTableTypeDetailLength"
        BY <1>6, <3>6 DEF ColumnStep
      <4>2. /\ last.name \in Nat \ {0} /\ last.type = last.name + 1 /\ last.type = n - 1
            /\ tokens[n] = "(" /\ last.precision = 0
        BY <1>3, <3>2, <3>6 DEF LastColumn
      <4>3. r.name = last.name /\ r.type = last.type /\ r.length = n + 1 /\ r.precision = 0
        BY <1>3, <3>2, <3>6, <4>2 DEF ColumnSpecAfter
      <4>4. tokens'[n] = "(" /\ (n + 1) - 1 = n /\ (n + 1) - 2 = n - 1
        BY <1>3, <4>2
      <4> QED
        BY <1>3, <4>1, <4>2, <4>3, <4>4 DEF LastColumn, ColumnStates
    <3>7. CASE state = "CreateTableTypeDetailLength"
      <4>1. /\ last.name \in Nat \ {0} /\ last.type = last.name + 1 /\ last.type = n - 2
            /\ tokens[n - 1] = "(" /\ last.length = n /\ last.precision = 0
        BY <1>3, <3>2, <3>7 DEF LastColumn
      <4>2. r.name = last.name /\ r.type = last.type /\ r.length = n /\ r.precision = 0
        BY <3>2, <3>7, <4>1 DEF ColumnSpecAfter
      <4>3. /\ tokens'[n - 1] = "(" /\ (n + 1) - 1 = n /\ (n + 1) - 2 = n - 1
            /\ (n + 1) - 3 = n - 2 /\ (n - 2) + 1 = n - 1 /\ (n - 2) + 2 = n
            /\ (n - 2) + 3 = n + 1
        BY <1>3, <4>1
      <4>4. CASE token = ","
        <5>1. state' = "CreateTableTypeDetailSeperator"
          BY <1>6, <3>7, <4>4 DEF ColumnStep
        <5> QED
          BY <1>3, <4>1, <4>2, <4>3, <4>4, <5>1 DEF LastColumn, ColumnStates
      <4>5. CASE token # ","
        <5>1. state' = "CreateTableTypeDetailEnd"
          BY <1>6, <3>7, <4>5 DEF ColumnStep
        <5>2. Sized(r)'
          BY <1>3, <4>1, <4>2, <4>3, <4>5 DEF Sized
        <5>3. r.name \in Nat \ {0} /\ r.type = r.name + 1 /\ r.type = Len(tokens') - 3
          <6>1. r.type = Len(tokens') - 3
            BY <1>3, <4>1, <4>2, <4>3
          <6> QED
            BY <4>1, <4>2, <6>1
        <5> QED
          BY <5>1, <5>2, <5>3 DEF LastColumn, ColumnStates
      <4> QED
        BY <4>4, <4>5
    <3>8. CASE state = "CreateTableTypeDetailSeperator"
      <4>1. state' = "CreateTableTypeDetailPrecision"
        BY <1>6, <3>8 DEF ColumnStep
      <4>2. /\ last.name \in Nat \ {0} /\ last.type = last.name + 1 /\ last.type = n - 3
            /\ tokens[n - 2] = "(" /\ tokens[n] = "," /\ last.length = n - 1 /\ last.precision = 0
        BY <1>3, <3>2, <3>8 DEF LastColumn
      <4>3. r.name = last.name /\ r.type = last.type /\ r.length = n - 1 /\ r.precision = n + 1
        BY <1>3, <3>2, <3>8, <4>2 DEF ColumnSpecAfter
      <4>4. /\ tokens'[n - 2] = "(" /\ tokens'[n] = "," /\ (n + 1) - 4 = n - 3
            /\ (n + 1) - 3 = n - 2 /\ (n + 1) - 1 = n /\ (n + 1) - 2 = n - 1
        <5>1. PICK m \in Nat : m = last.name /\ m # 0 /\ m + 1 = n - 3
          BY <4>2
        <5>2. n - 2 \in 1 .. n /\ n \in 1 .. n
          BY <1>3, <5>1
        <5>3. tokens'[n - 2] = "(" /\ tokens'[n] = ","
          BY <1>3, <4>2, <5>2
        <5>4. /\ (n + 1) - 4 = n - 3 /\ (n + 1) - 3 = n - 2
              /\ (n + 1) - 1 = n /\ (n + 1) - 2 = n - 1
          OBVIOUS
        <5> QED
          BY <5>3, <5>4, Zenon
      <4> QED
        BY <1>3, <4>1, <4>2, <4>3, <4>4 DEF LastColumn, ColumnStates
    <3>9. CASE state = "CreateTableTypeDetailPrecision"
      <4>1. state' = "CreateTableTypeDetailEnd"
        BY <1>6, <3>9 DEF ColumnStep
      <4>2. /\ last.name \in Nat \ {0} /\ last.type = last.name + 1 /\ last.type = n - 4
            /\ tokens[n - 3] = "(" /\ tokens[n - 1] = "," /\ last.length = n - 2
            /\ last.precision = n
        BY <1>3, <3>2, <3>9 DEF LastColumn
      <4>3. r.name = last.name /\ r.type = last.type /\ r.length = n - 2 /\ r.precision = n
        BY <3>2, <3>9, <4>2 DEF ColumnSpecAfter
      <4>4. /\ tokens'[n - 3] = "(" /\ tokens'[n - 1] = "," /\ (n + 1) - 5 = n - 4
            /\ (n - 4) + 1 = n - 3 /\ (n - 4) + 3 = n - 1 /\ (n - 4) + 2 = n - 2
            /\ (n - 4) + 4 = n
        <5>1. PICK m \in Nat : m = last.name /\ m # 0 /\ m + 1 = n - 4
          BY <4>2
        <5>2. n - 3 \in 1 .. n /\ n - 1 \in 1 .. n
          BY <1>3, <5>1
        <5>3. tokens'[n - 3] = "(" /\ tokens'[n - 1] = ","
          BY <1>3, <4>2, <5>2
        <5>4. /\ (n + 1) - 5 = n - 4 /\ (n - 4) + 1 = n - 3 /\ (n - 4) + 3 = n - 1
              /\ (n - 4) + 2 = n - 2 /\ (n - 4) + 4 = n
          OBVIOUS
        <5> QED
          BY <5>3, <5>4, Zenon
      <4>5. Precise(r)'
        BY <4>2, <4>3, <4>4 DEF Precise
      <4> QED
        BY <1>3, <4>1, <4>2, <4>3, <4>4, <4>5 DEF LastColumn, ColumnStates
    <3>10. CASE state = "CreateTableTypeDetailEnd"
      <4>1. PICK m \in Nat : /\ m = last.type /\ last.name \in Nat \ {0} /\ last.type = last.name + 1
                             /\ \/ m = n - 3 /\ Sized(last)
                                \/ m = n - 5 /\ Precise(last)
        BY <1>3, <3>2, <3>10 DEF LastColumn
      <4>2. /\ r.name = last.name /\ r.type = m /\ r.length = last.length
            /\ r.precision = last.precision
        BY <3>2, <3>10, <4>1 DEF ColumnSpecAfter
      <4>3. /\ m + 1 \in 1 .. n /\ m + 3 \in 1 .. n
            /\ tokens'[m + 1] = tokens[m + 1] /\ tokens'[m + 3] = tokens[m + 3]
        <5>1. m = n - 3 \/ m = n - 5
          BY <4>1
        <5>2. m + 1 \in 1 .. n /\ m + 3 \in 1 .. n
          BY <5>1
        <5> QED
          BY <1>3, <5>2
      <4>4. Behind(r, n + 1)'
        <5>1. CASE m = n - 3 /\ Sized(last)
          <6>1. Sized(r)'
            BY <4>1, <4>2, <4>3, <5>1 DEF Sized
          <6>2. n + 1 = m + 4
            BY <1>3, <4>1, <5>1
          <6> QED
            BY <4>1, <4>2, <6>1, <6>2 DEF Behind
        <5>2. CASE m = n - 5 /\ Precise(last)
          <6>1. Precise(r)'
            BY <4>1, <4>2, <4>3, <5>2 DEF Precise
          <6>2. n + 1 = m + 6
            BY <1>3, <4>1, <5>2
          <6> QED
            BY <4>1, <4>2, <6>1, <6>2 DEF Behind
        <5> QED
          BY <4>1, <5>1, <5>2
      <4>5. CASE token = "not"
        <5>1. state' = "CreateTableTypeNot"
          BY <1>6, <3>10, <4>5 DEF ColumnStep
        <5> QED
          BY <1>3, <4>4, <4>5, <5>1 DEF LastColumn, ColumnStates
      <4>6. CASE token # "not"
        <5>1. r.nullable = TRUE
          BY <3>2, <3>10, <4>6 DEF ColumnSpecAfter, nullableImplied
        <5>2. ColumnRead(r)'
          BY <1>3, <4>4, <4>6, <5>1 DEF ColumnRead
        <5>3. state' \notin ColumnStates
          BY <1>6, <3>10, <4>6 DEF ColumnStep, ColumnStates, NameExpected
        <5> QED
          BY <5>2, <5>3 DEF LastColumn, ColumnStates
      <4> QED
        BY <4>5, <4>6
    <3>11. CASE state = "CreateTableTypeNot"
      <4>1. state' \notin ColumnStates
        BY <1>6, <3>11 DEF ColumnStep, ColumnStates, NameExpected
      <4>2. Behind(last, n) /\ tokens[n] = "not"
        BY <1>3, <3>2, <3>11 DEF LastColumn
      <4>3. ~ nullableImplied(token)
        BY <3>11 DEF nullableImplied
      <4>4. /\ r.name = last.name /\ r.type = last.type /\ r.length = last.length
            /\ r.precision = last.precision /\ r.nullable = FALSE
        BY <3>2, <3>11, <4>3 DEF ColumnSpecAfter
      <4>5. Behind(r, n)
        BY <4>2, <4>4 DEF Behind, Plain, Sized, Precise
      <4>6. n \in 1 .. n /\ n \in 1 .. n + 1
        BY <4>2 DEF Behind
      <4>7. Behind(r, n)' /\ tokens'[n] = "not"
        BY <1>4, <4>2, <4>5, <4>6
      <4>8. ColumnRead(r)'
        BY <1>3, <4>4, <4>6, <4>7 DEF ColumnRead
      <4> QED
        BY <4>1, <4>8 DEF LastColumn, ColumnStates
    <3>12. CASE state \notin ColumnStates
      <4>1. state' \notin ColumnStates
        BY <1>6, <1>8, <3>12 DEF ColumnStep, ColumnStates
      <4>2. /\ ~ nullableImplied(token)
            /\ columnSpecsAfter(token) = R
        BY <1>1, <1>8, <3>12 DEF nullableImplied, ColumnStates, columnSpecsAfter, NameExpected
      <4>3. r = last
        BY <1>2, <2>2, <2>4, <3>1, <4>2
      <4>4. ColumnRead(last)'
        BY <1>5, <3>2, <3>12 DEF LastColumn
      <4> QED
        BY <4>1, <4>3, <4>4 DEF LastColumn, ColumnStates
    <3> QED
      BY <3>4, <3>5, <3>6, <3>7, <3>8, <3>9, <3>10, <3>11, <3>12 DEF ColumnStates
  <2>5. \A i \in 1 .. Len(R) : i # Len(R) => ColumnRead(R[i])'
    BY <1>1, <1>5 DEF ColumnsInv
  <2> QED
    BY <1>2, <2>2, <2>3, <2>4, <2>5 DEF ColumnsInv
<1> QED
  BY <1>7, <1>8

------------------------------------------------------------------------------
(* Complete statements                                                     *)

\* The states of each statement type once it is known.
SelectStates == {"Select", "SelectProjectionStar", "SelectProjectionAttrName",
                 "SelectProjectionAttrSeparator", "SelectFrom", "SelectFromRelationName",
                 "SelectFromVersion", "SelectFromTag", "SelectFromBindingName",
                 "SelectFromSeparator", "SelectWhere", "SelectWhereAnd", "SelectWhereExprLhs",
                 "SelectWhereExprOp", "SelectWhereExprRhs"}
InsertStates == {"Insert", "InsertInto", "InsertRelationName", "InsertVersion", "InsertTag",
                 "InsertColumnsBegin", "InsertColumnName", "InsertColumnSeperator",
                 "InsertColumnsEnd", "InsertValues", "InsertValuesBegin", "InsertValue",
                 "InsertValueSeperator", "InsertValuesEnd"}
UpdateStates == {"Update", "UpdateRelationName", "UpdateVersion", "UpdateTag", "UpdateSet",
                 "UpdateSetSeperator", "UpdateSetExprLhs", "UpdateSetExprOp", "UpdateSetExprRhs",
                 "UpdateWhere", "UpdateWhereAnd", "UpdateWhereExprLhs", "UpdateWhereExprOp",
                 "UpdateWhereExprRhs"}
DeleteStates == {"Delete", "DeleteFrom", "DeleteRelationName", "DeleteVersion", "DeleteTag",
                 "DeleteWhere", "DeleteWhereAnd", "DeleteWhereExprLhs", "DeleteWhereExprOp",
                 "DeleteWhereExprRhs"}
CopyStates == {"Copy", "CopyTable", "CopyVersion", "CopyTag", "CopyDirection", "CopyPath",
               "CopyWith", "CopyFormat", "CopyType"}
BranchStates == {"CreateBranch", "CreateBranchTag", "CreateBranchFrom", "CreateBranchParent"}
TableColumnStates == {"CreateTableColumnsBegin", "CreateTableColumnName", "CreateTableColumnType",
                      "CreateTableTypeDetailBegin", "CreateTableTypeDetailLength",
                      "CreateTableTypeDetailSeperator", "CreateTableTypeDetailPrecision",
                      "CreateTableTypeDetailEnd", "CreateTableTypeNot", "CreateTableTypeNotNull",
                      "CreateTableColumnSeperator", "CreateTableColumnsEnd"}
CreateTableStates == {"CreateTable", "CreateTableRelationName"} \cup TableColumnStates

\* A statement keeps the type it starts with.
TypeStep(s, t, u) ==
    /\ u \in SelectStates => s \in SelectStates \/ (s = "Init" /\ u = "Select")
    /\ u \in InsertStates => s \in InsertStates \/ (s = "Init" /\ u = "Insert")
    /\ u \in UpdateStates => s \in UpdateStates \/ (s = "Init" /\ u = "Update")
    /\ u \in DeleteStates => s \in DeleteStates \/ (s = "Init" /\ u = "Delete")
    /\ u \in CopyStates => s \in CopyStates \/ (s = "Init" /\ u = "Copy")
    /\ u \in BranchStates => s \in BranchStates \/ (s = "Create" /\ u = "CreateBranch")
    /\ u \in CreateTableStates => s \in CreateTableStates \/ (s = "Create" /\ u = "CreateTable")
    /\ u = "Branch" => s = "Init"

\* No transition leads from one statement type to another (parseToken).
LEMMA TypeTransitions ==
    ASSUME NEW s, NEW t, NEW u, <<s, t, u>> \in Transitions
    PROVE  TypeStep(s, t, u)
<1> USE DEF TypeStep, SelectStates, InsertStates, UpdateStates, DeleteStates, CopyStates,
            BranchStates, TableColumnStates, CreateTableStates
<1>1. CASE <<s, t, u>> \in InitTransitions
  BY <1>1 DEF InitTransitions
<1>2. CASE <<s, t, u>> \in CopyTransitions
  BY <1>2 DEF CopyTransitions
<1>3. CASE <<s, t, u>> \in CreateTransitions
  BY <1>3 DEF CreateTransitions
<1>4. CASE <<s, t, u>> \in DeleteTransitions
  BY <1>4 DEF DeleteTransitions, WhereTransitions
<1>5. CASE <<s, t, u>> \in UpdateTransitions
  BY <1>5 DEF UpdateTransitions, WhereTransitions
<1>6. CASE <<s, t, u>> \in InsertTransitions
  BY <1>6 DEF InsertTransitions
<1>7. CASE <<s, t, u>> \in SelectTransitions
  BY <1>7 DEF SelectTransitions, WhereTransitions
<1> QED
  BY <1>1, <1>2, <1>3, <1>4, <1>5, <1>6, <1>7, TransitionParts

TypeInv ==
    /\ state \in SelectStates => opType = "Select"
    /\ state \in InsertStates => opType = "Insert"
    /\ state \in UpdateStates => opType = "Update"
    /\ state \in DeleteStates => opType = "Delete"
    /\ state \in CopyStates => opType = "Copy"
    /\ state \in BranchStates => opType = "CreateBranch"
    /\ state \in CreateTableStates => opType = "CreateTable"
    /\ state = "Branch" => opType = "Branch"

\* The states in which the table, the assignments, the values, the path and the
\* names are there.
TableRead == (SelectStates \ {"Select", "SelectProjectionStar", "SelectProjectionAttrName",
                              "SelectProjectionAttrSeparator", "SelectFrom"})
             \cup (InsertStates \ {"Insert", "InsertInto"}) \cup (UpdateStates \ {"Update"})
             \cup (DeleteStates \ {"Delete", "DeleteFrom"}) \cup (CopyStates \ {"Copy"})
UpdatesRead == {"UpdateSetExprRhs", "UpdateSetSeperator", "UpdateWhere", "UpdateWhereAnd",
                "UpdateWhereExprLhs", "UpdateWhereExprOp", "UpdateWhereExprRhs"}
ValuesRead == {"InsertValue", "InsertValueSeperator", "InsertValuesEnd"}
PathRead == {"CopyPath", "CopyWith", "CopyFormat", "CopyType"}

\* The parts of a statement are there when they have been read.
PartStep(s, t, u) ==
    /\ u \in TableRead => s \in TableRead \/ s \in TableStates
    /\ u \in UpdatesRead => s \in UpdatesRead \/ s = "UpdateSetExprOp"
    /\ u \in ValuesRead => s \in ValuesRead \/ s = "InsertValuesBegin"
    /\ u \in PathRead => s \in PathRead \/ s = "CopyDirection"
    /\ u = "CopyType" => s = "CopyFormat" /\ t \in {"csv", "tbl"}
    /\ s = "CopyFormat" => t \in {"csv", "tbl"}
    /\ u \in {"CreateBranchTag", "CreateBranchFrom", "CreateBranchParent"} =>
          s \in {"CreateBranch", "CreateBranchTag", "CreateBranchFrom"}
    /\ u = "CreateBranchParent" => s = "CreateBranchFrom"
    /\ u \in CreateTableStates \ {"CreateTable"} => s \in CreateTableStates

\* No transition leads past a part that must be there (parseToken).
LEMMA PartTransitions ==
    ASSUME NEW s, NEW t, NEW u, <<s, t, u>> \in Transitions
    PROVE  PartStep(s, t, u)
<1> USE DEF PartStep, SelectStates, InsertStates, UpdateStates, DeleteStates, CopyStates,
            TableColumnStates, CreateTableStates, TableRead, UpdatesRead, ValuesRead, PathRead,
            TableStates
<1>1. CASE <<s, t, u>> \in InitTransitions
  BY <1>1 DEF InitTransitions
<1>2. CASE <<s, t, u>> \in CopyTransitions
  BY <1>2 DEF CopyTransitions
<1>3. CASE <<s, t, u>> \in CreateTransitions
  BY <1>3, ZenonT(30) DEF CreateTransitions
<1>4. CASE <<s, t, u>> \in DeleteTransitions
  BY <1>4 DEF DeleteTransitions, WhereTransitions
<1>5. CASE <<s, t, u>> \in UpdateTransitions
  BY <1>5 DEF UpdateTransitions, WhereTransitions
<1>6. CASE <<s, t, u>> \in InsertTransitions
  BY <1>6 DEF InsertTransitions
<1>7. CASE <<s, t, u>> \in SelectTransitions
  BY <1>7, ZenonT(30) DEF SelectTransitions, WhereTransitions
<1> QED
  BY <1>1, <1>2, <1>3, <1>4, <1>5, <1>6, <1>7, TransitionParts

PartsInv ==
    /\ state \in TableRead => stmt.relations # <<>>
    /\ state \in UpdatesRead => stmt.updates # <<>>
    /\ state \in ValuesRead => stmt.values # <<>>
    /\ state \in PathRead => stmt.filePath # Unset
    /\ state = "CopyType" => stmt.format # ""
    /\ state \in {"CreateBranchTag", "CreateBranchFrom", "CreateBranchParent"} =>
          stmt.branchName # Unset
    /\ state = "CreateBranchParent" => stmt.parentBranchName # Unset
    /\ state \in CreateTableStates \ {"CreateTable"} => stmt.tableName # Unset

\* Every token keeps the type of the statement.
LEMMA TypeKept ==
    ASSUME TypeInv, NEW token, acceptToken(token)
    PROVE  TypeInv'
<1>1. TypeStep(state, token, state')
  BY TypeTransitions DEF acceptToken
<1>2. opType' = IF state \in {"Init", "Create"} /\ state' \in OpTypes THEN state' ELSE opType
  BY DEF acceptToken
<1>3. <<state, token, state'>> \in Transitions
  BY DEF acceptToken
<1>4. /\ state' \in SelectStates => opType' = "Select"
      /\ state' \in InsertStates => opType' = "Insert"
  BY <1>1, <1>2 DEF TypeStep, TypeInv, OpTypes, SelectStates, InsertStates
<1>5. /\ state' \in UpdateStates => opType' = "Update"
      /\ state' \in DeleteStates => opType' = "Delete"
  BY <1>1, <1>2 DEF TypeStep, TypeInv, OpTypes, UpdateStates, DeleteStates
<1>6. /\ state' \in CopyStates => opType' = "Copy"
      /\ state' \in BranchStates => opType' = "CreateBranch"
      /\ state' = "Branch" => opType' = "Branch"
  BY <1>1, <1>2 DEF TypeStep, TypeInv, OpTypes, CopyStates, BranchStates
<1>7. state' \in CreateTableStates => opType' = "CreateTable"
  BY <1>1, <1>2 DEF TypeStep, TypeInv, OpTypes, CreateTableStates, TableColumnStates
<1> QED
  BY <1>4, <1>5, <1>6, <1>7 DEF TypeInv

\* Every token keeps the parts that have been read.
LEMMA PartsKept ==
    ASSUME TextInv, PartsInv, NEW token, Reads(token)
    PROVE  PartsInv'
<1>1. PartStep(state, token, state')
  BY PartTransitions DEF Reads
<1>2. here \in Nat /\ here # Unset
  BY HereIsNext DEF Unset
<1>3. stmt.relations # <<>> \/ state \in TableStates => stmt'.relations # <<>>
  <2>1. stmt'.relations = relationsAfter(token)
    BY DEF Reads, Collected
  <2>2. PICK R \in Seq(Relation) : R = stmt.relations
    BY DEF TextInv, Statement
  <2>3. CASE state \in TableStates
    <3>1. ~ masterImplied(token) /\ ~ versionNamed /\ ~ aliasNamed(token)
      BY <2>3 DEF TableStates, masterImplied, versionNamed, aliasNamed
    <3>2. stmt'.relations = relationsNamed
      BY <2>1, <3>1 DEF relationsAfter
    <3>3. \E r : relationsNamed = Append(R, r)
      BY <2>2, <2>3, RelationsChange DEF TableStates
    <3> QED
      BY <2>2, <3>2, <3>3
  <2>4. CASE state \notin TableStates
    <3>1. PICK r : /\ relationsAfter(token) \in Seq(Relation)
                   /\ LastChanges(R, relationsAfter(token), r)
      BY <2>2, <2>4, RelationsAfter
    <3> QED
      BY <2>1, <2>2, <2>4, <3>1 DEF LastChanges
  <2> QED
    BY <2>3, <2>4
<1>4. stmt.updates # <<>> \/ state = "UpdateSetExprOp" => stmt'.updates # <<>>
  <2>1. stmt.updates \in Seq(Int \X Int)
    BY DEF TextInv, Statement
  <2>2. stmt'.updates = Compared(stmt.updates, {"UpdateSetExprOp"})
    BY DEF Reads, Collected
  <2>3. PICK c : c = <<prev(2), here>>
    OBVIOUS
  <2>4. c \in Int \X Int
    BY <1>2, <2>3 DEF prev
  <2>5. stmt'.updates = IF state = "UpdateSetExprOp" THEN Append(stmt.updates, c) ELSE stmt.updates
    BY <2>2, <2>3 DEF Compared
  <2>6. Append(stmt.updates, c) # <<>>
    BY <2>1, <2>4
  <2> QED
    BY <2>5, <2>6
<1>5. stmt.values # <<>> \/ state = "InsertValuesBegin" => stmt'.values # <<>>
  <2>1. stmt.values \in Seq(Int)
    BY DEF TextInv, Statement
  <2>2. stmt'.values = Listed(stmt.values, {"InsertValuesBegin", "InsertValueSeperator"})
    BY DEF Reads, Collected
  <2>3. Append(stmt.values, here) # <<>>
    BY <1>2, <2>1
  <2> QED
    BY <2>2, <2>3 DEF Listed
<1>6. /\ stmt'.tableName = IF state = "CreateTable" THEN here ELSE stmt.tableName
      /\ stmt'.branchName = IF state = "CreateBranch" THEN here ELSE stmt.branchName
      /\ stmt'.parentBranchName = IF state = "CreateBranchFrom" THEN here ELSE stmt.parentBranchName
      /\ stmt'.filePath = IF state = "CopyDirection" THEN here ELSE stmt.filePath
      /\ stmt'.format = IF state = "CopyFormat" THEN token ELSE stmt.format
  BY DEF Reads, Collected, Named
<1>7. /\ state' \in TableRead => stmt'.relations # <<>>
      /\ state' \in UpdatesRead => stmt'.updates # <<>>
      /\ state' \in ValuesRead => stmt'.values # <<>>
  BY <1>1, <1>3, <1>4, <1>5 DEF PartStep, PartsInv
<1>8. /\ state' \in PathRead => stmt'.filePath # Unset
      /\ state' = "CopyType" => stmt'.format # ""
  BY <1>1, <1>2, <1>6 DEF PartStep, PartsInv
<1>9. /\ state' \in {"CreateBranchTag", "CreateBranchFrom", "CreateBranchParent"} =>
            stmt'.branchName # Unset
      /\ state' = "CreateBranchParent" => stmt'.parentBranchName # Unset
  BY <1>1, <1>2, <1>6 DEF PartStep, PartsInv
<1>10. state' \in CreateTableStates \ {"CreateTable"} => stmt'.tableName # Unset
  BY <1>1, <1>2, <1>6 DEF PartStep, PartsInv
<1> QED
  BY <1>7, <1>8, <1>9, <1>10 DEF PartsInv

------------------------------------------------------------------------------
(* Names and literals                                                      *)

NameTokens == Literals \cup {"identifier"}
AliasStates == {"SelectFromRelationName", "SelectFromTag"}
ListStates == {"Select", "SelectProjectionAttrSeparator", "InsertColumnsBegin",
               "InsertColumnSeperator"}
ValueStates == {"InsertValuesBegin", "InsertValueSeperator"}
ColumnPartStates == NameExpected \cup {"CreateTableColumnName", "CreateTableTypeDetailBegin",
                                       "CreateTableTypeDetailSeperator"}
NameStates == {"CreateTable", "CreateBranch", "CreateBranchFrom", "CopyDirection"}

\* A transition that takes a name or a literal over into the statement.
Takes(s, t, u) ==
    \/ s \in TableStates \/ s \in VersionStates \/ (s \in AliasStates /\ t = "identifier")
    \/ s \in ColumnPartStates \/ s \in OpStates \/ s \in ValueStates \/ s \in NameStates
    \/ s \in ListStates /\ t = "identifier"

\* Names and literals are taken over, or are the left side of a condition, and
\* no other token is; CREATE TABLE takes none in front of its column list.
NameStep(s, t, u) ==
    /\ (t \in NameTokens /\ s # "CreateTableRelationName") <=> (Takes(s, t, u) \/ u \in LhsStates)
    /\ u \in LhsStates => ~ Takes(s, t, u)
    /\ s \in LhsStates <=> u \in OpStates
    /\ s = "SelectFromTag" => t # "version"
    /\ u = "SelectFromVersion" => s = "SelectFromRelationName" /\ t = "version"
    /\ u = "SelectFromTag" => s = "SelectFromVersion"
    /\ (s \in OpStates /\ t \notin Literals) => s = "SelectWhereExprOp" /\ t = "identifier"
    /\ s = "CreateTable" => u = "CreateTableRelationName"
    /\ u = "CreateTable" => s = "Create"
    /\ u = "CreateTableRelationName" => s = "CreateTable" \/ (s = "CreateTableRelationName" /\ t # "(")
    /\ u \in TableColumnStates => s \in TableColumnStates \/ (s = "CreateTableRelationName" /\ t = "(")
    /\ s \in TableColumnStates => u \in TableColumnStates
    /\ s = "CreateTableRelationName" => u = "CreateTableRelationName" \/ u \in TableColumnStates

\* Every transition is of that kind (parseToken).
LEMMA NameTransitions ==
    ASSUME NEW s, NEW t, NEW u, <<s, t, u>> \in Transitions
    PROVE  NameStep(s, t, u)
<1> USE DEF NameStep, Takes, NameTokens, AliasStates, ListStates, ValueStates, ColumnPartStates,
            NameStates, NameExpected, TableStates, VersionStates, OpStates, LhsStates,
            TableColumnStates, Literals
<1>1. CASE <<s, t, u>> \in InitTransitions
  BY <1>1 DEF InitTransitions
<1>2. CASE <<s, t, u>> \in CopyTransitions
  BY <1>2 DEF CopyTransitions
<1>3. CASE <<s, t, u>> \in CreateTransitions
  BY <1>3 DEF CreateTransitions
<1>4. CASE <<s, t, u>> \in DeleteTransitions
  BY <1>4 DEF DeleteTransitions, WhereTransitions
<1>5. CASE <<s, t, u>> \in UpdateTransitions
  BY <1>5 DEF UpdateTransitions, WhereTransitions
<1>6. CASE <<s, t, u>> \in InsertTransitions
  BY <1>6 DEF InsertTransitions
<1>7. CASE <<s, t, u>> \in SelectTransitions
  BY <1>7 DEF SelectTransitions, WhereTransitions
<1> QED
  BY <1>1, <1>2, <1>3, <1>4, <1>5, <1>6, <1>7, TransitionParts

\* What each part of the statement mentions.
InRelations(list, p) ==
    \E i \in 1 .. Len(list) : p = list[i].name \/ p = list[i].alias \/ p = list[i].version
InColumnSpecs(list, p) ==
    \E i \in 1 .. Len(list) :
        \/ p = list[i].name \/ p = list[i].type \/ p = list[i].length \/ p = list[i].precision
InConditions(list, p) == \E i \in 1 .. Len(list) : p = list[i][1] \/ p = list[i][2]
InList(list, p) == \E i \in 1 .. Len(list) : p = list[i]
InNames(p) == p \in {stmt.tableName, stmt.branchName, stmt.parentBranchName, stmt.filePath}

InParts(p) ==
    \/ InRelations(stmt.relations, p) \/ InColumnSpecs(stmt.columnSpecs, p)
    \/ (\/ InConditions(stmt.updates, p) \/ InConditions(stmt.selections, p)
        \/ InConditions(stmt.joinConditions, p))
    \/ InList(stmt.columns, p) \/ InList(stmt.values, p) \/ InNames(p)

PartsAreMentioned == \A p : p \in Mentioned <=> InParts(p)

\* What a statement mentions is in one of its parts.
LEMMA MentionedParts == TextInv => PartsAreMentioned
<1> SUFFICES ASSUME TextInv, NEW p PROVE p \in Mentioned <=> InParts(p)
  BY DEF PartsAreMentioned
<1>1. /\ DOMAIN stmt.relations = 1 .. Len(stmt.relations)
      /\ DOMAIN stmt.columnSpecs = 1 .. Len(stmt.columnSpecs)
      /\ DOMAIN stmt.updates = 1 .. Len(stmt.updates)
      /\ DOMAIN stmt.selections = 1 .. Len(stmt.selections)
      /\ DOMAIN stmt.joinConditions = 1 .. Len(stmt.joinConditions)
      /\ DOMAIN stmt.columns = 1 .. Len(stmt.columns)
      /\ DOMAIN stmt.values = 1 .. Len(stmt.values)
  <2>1. /\ stmt.relations \in Seq(Relation) /\ stmt.columnSpecs \in Seq(ColumnSpec)
        /\ stmt.columns \in Seq(Int) /\ stmt.values \in Seq(Int)
        /\ stmt.updates \in Seq(Int \X Int) /\ stmt.selections \in Seq(Int \X Int)
        /\ stmt.joinConditions \in Seq(Int \X Int)
    BY DEF TextInv, Statement
  <2>2. \A T : \A list \in Seq(T) : DOMAIN list = 1 .. Len(list)
    OBVIOUS
  <2> QED
    BY <2>1, <2>2
<1>2. PICK A : A = UNION {{stmt.relations[i].name, stmt.relations[i].alias,
                           stmt.relations[i].version} : i \in DOMAIN stmt.relations}
  OBVIOUS
<1>3. p \in A <=> InRelations(stmt.relations, p)
  <2>1. p \in A <=> \E i \in DOMAIN stmt.relations :
                       p \in {stmt.relations[i].name, stmt.relations[i].alias,
                              stmt.relations[i].version}
    BY <1>2
  <2> QED
    BY <1>1, <2>1 DEF InRelations
<1>4. PICK B : B = UNION {{stmt.columnSpecs[i].name, stmt.columnSpecs[i].type,
                           stmt.columnSpecs[i].length, stmt.columnSpecs[i].precision} :
                             i \in DOMAIN stmt.columnSpecs}
  OBVIOUS
<1>5. p \in B <=> InColumnSpecs(stmt.columnSpecs, p)
  <2>1. p \in B <=> \E i \in DOMAIN stmt.columnSpecs :
                       p \in {stmt.columnSpecs[i].name, stmt.columnSpecs[i].type,
                              stmt.columnSpecs[i].length, stmt.columnSpecs[i].precision}
    BY <1>4
  <2> QED
    BY <1>1, <2>1 DEF InColumnSpecs
<1>6. ASSUME NEW list, DOMAIN list = 1 .. Len(list)
      PROVE  /\ InList(list, p) <=> p \in ToSet(list)
             /\ InConditions(list, p) <=> \E c \in ToSet(list) : p \in {c[1], c[2]}
  BY <1>6 DEF InList, InConditions, ToSet
<1>7. PICK C : C = UNION {{c[1], c[2]} : c \in ToSet(stmt.updates) \cup ToSet(stmt.selections)
                                               \cup ToSet(stmt.joinConditions)}
  OBVIOUS
<1>8. p \in C <=> \/ InConditions(stmt.updates, p) \/ InConditions(stmt.selections, p)
                  \/ InConditions(stmt.joinConditions, p)
  BY <1>1, <1>6, <1>7
<1>9. /\ InList(stmt.columns, p) <=> p \in ToSet(stmt.columns)
      /\ InList(stmt.values, p) <=> p \in ToSet(stmt.values)
  BY <1>1, <1>6
<1>10. Mentioned = A \cup B \cup C \cup ToSet(stmt.columns) \cup ToSet(stmt.values)
                     \cup {stmt.tableName, stmt.branchName, stmt.parentBranchName, stmt.filePath}
  BY <1>2, <1>4, <1>7, Zenon DEF Mentioned
<1> QED
  BY <1>3, <1>5, <1>8, <1>9, <1>10, Zenon DEF InNames, InParts

\* The statement alone says what is mentioned.
LEMMA MentionedStays ==
    ASSUME TextInv, TextInv', stmt' = stmt
    PROVE  Mentioned' = Mentioned
<1>1. PartsAreMentioned'
  BY MentionedParts, PTL
<1>2. PartsAreMentioned
  BY MentionedParts
<1>3. \A p : InParts(p)' <=> InParts(p)
  BY DEF InParts, InNames
<1> QED
  BY <1>1, <1>2, <1>3 DEF PartsAreMentioned

\* No alias has been read when one may follow.
AliasInv ==
    state \in AliasStates \cup {"SelectFromVersion"} =>
        /\ stmt.relations # <<>>
        /\ stmt.relations[Len(stmt.relations)].alias = Unset

\* The relations take over what names a table, a version or an alias.
LEMMA RelationNamesGrow ==
    ASSUME TextInv, VersionsInv, AliasInv, NEW token, Reads(token)
    PROVE  /\ AliasInv'
           /\ \A p : p \notin {Unset, Master} =>
                 (InRelations(stmt'.relations, p) <=>
                    \/ InRelations(stmt.relations, p)
                    \/ /\ p = here
                       /\ \/ state \in TableStates \/ state \in VersionStates
                          \/ state \in AliasStates /\ token = "identifier")
<1>1. PICK R \in Seq(Relation) : R = stmt.relations
  BY DEF TextInv, Statement
<1>2. PICK S : S = stmt'.relations /\ S = relationsAfter(token)
  BY DEF Reads, Collected
<1>3. PICK h \in Nat : h = here
  BY HereIsNext
<1>4. NameStep(state, token, state') /\ <<state, token, state'>> \in Transitions
  BY NameTransitions DEF Reads
<1>5. CASE state \in TableStates
  <2>1. ~ masterImplied(token) /\ ~ versionNamed /\ ~ aliasNamed(token)
    BY <1>5 DEF TableStates, masterImplied, versionNamed, aliasNamed
  <2>2. S = relationsNamed
    BY <1>2, <2>1 DEF relationsAfter
  <2>3. PICK r : /\ S = Append(R, r) /\ r.name = h /\ r.alias = Unset
                 /\ r.version \in {Unset, Master}
    BY <1>1, <1>3, <1>5, <2>2, RelationsChange DEF TableStates
  <2>4. /\ Len(S) = Len(R) + 1 /\ S[Len(R) + 1] = r /\ S # <<>> /\ Len(R) \in Nat
        /\ \A i \in 1 .. Len(R) : S[i] = R[i]
    BY <1>1, <2>3
  <2>5. AliasInv'
    BY <1>2, <2>3, <2>4 DEF AliasInv
  <2>6. ASSUME NEW p, p \notin {Unset, Master}
        PROVE  InRelations(S, p) <=> InRelations(R, p) \/ p = h
    BY <2>3, <2>4, <2>6 DEF InRelations
  <2> QED
    BY <1>1, <1>2, <1>3, <1>5, <2>5, <2>6
<1>6. CASE state \notin TableStates
  <2>1. PICK r : /\ S \in Seq(Relation) /\ LastChanges(R, S, r)
                 /\ R # <<>> => RelationAfter(token, R[Len(R)], r)
    BY <1>1, <1>2, <1>6, RelationsAfter
  <2>2. /\ Len(S) = Len(R) /\ Len(R) \in Nat /\ (R = <<>> <=> S = <<>>)
        /\ \A i \in 1 .. Len(R) : i # Len(R) => S[i] = R[i]
        /\ R # <<>> => S[Len(R)] = r
    BY <1>1, <2>1 DEF LastChanges
  <2>3. /\ versionNamed <=> state \in VersionStates
        /\ aliasNamed(token) <=> state \in AliasStates /\ token = "identifier"
        /\ masterImplied(token) => state \in RelationStates
        /\ RelationStates \cap VersionStates = {}
    BY DEF versionNamed, VersionStates, aliasNamed, AliasStates, masterImplied, RelationStates
  <2>4. PICK last : last = R[Len(R)]
    OBVIOUS
  <2>5. state \in RelationStates \cup VersionStates => R # <<>> /\ last.version \in {Unset, Master}
    BY <1>1, <2>2, <2>4 DEF VersionsInv, LastVersion
  <2>6. state \in AliasStates => R # <<>> /\ last.alias = Unset
    BY <1>1, <2>4 DEF AliasInv
  <2>7. R # <<>> => /\ r.name = last.name
                    /\ IF versionNamed THEN r.version = h
                       ELSE \/ r.version = last.version
                            \/ r.version = Master /\ last.version \in {Unset, Master}
                    /\ IF aliasNamed(token) THEN r.alias = h ELSE r.alias = last.alias
    BY <1>3, <2>1, <2>3, <2>4, <2>5 DEF RelationAfter
  <2>8. AliasInv'
    <3>1. state' \in AliasStates \cup {"SelectFromVersion"} =>
             state \in {"SelectFromRelationName", "SelectFromVersion"} /\ ~ aliasNamed(token)
      BY <1>4, <1>6, RelationTransitions
      DEF NameStep, AliasStates, RelationStates, VersionStates, TableStates, aliasNamed
    <3> QED
      BY <1>1, <1>2, <2>2, <2>4, <2>7, <3>1 DEF AliasInv, AliasStates
  <2>9. ASSUME NEW p, p \notin {Unset, Master}
        PROVE  InRelations(S, p) <=>
                  InRelations(R, p) \/ (p = h /\ (versionNamed \/ aliasNamed(token)))
    <3>1. CASE R = <<>>
      BY <2>2, <2>3, <2>5, <2>6, <3>1 DEF InRelations
    <3>2. CASE R # <<>>
      <4>1. (p = r.name \/ p = r.alias \/ p = r.version) <=>
               \/ p = last.name \/ p = last.alias \/ p = last.version
               \/ p = h /\ (versionNamed \/ aliasNamed(token))
        BY <2>3, <2>5, <2>6, <2>7, <2>9, <3>2
      <4>2. Len(R) \in 1 .. Len(R) /\ S[Len(R)] = r /\ R[Len(R)] = last
        BY <1>1, <2>2, <2>4, <3>2
      <4> QED
        BY <2>2, <4>1, <4>2 DEF InRelations
    <3> QED
      BY <3>1, <3>2
  <2> QED
    BY <1>1, <1>2, <1>3, <1>6, <2>3, <2>8, <2>9
<1> QED
  BY <1>5, <1>6

\* The columns of a CREATE TABLE take over their parts.
LEMMA ColumnSpecNamesGrow ==
    ASSUME TextInv, ColumnsInv, NEW token, Reads(token), NEW p, p \notin {Unset, Master}
    PROVE  InColumnSpecs(stmt'.columnSpecs, p) <=>
              InColumnSpecs(stmt.columnSpecs, p) \/ (p = here /\ state \in ColumnPartStates)
<1>1. PICK R \in Seq(ColumnSpec) : R = stmt.columnSpecs
  BY DEF TextInv, Statement
<1>2. PICK S : S = stmt'.columnSpecs /\ S = columnSpecsAfter(token)
  BY DEF Reads, Collected
<1>3. PICK h \in Nat : h = here
  BY HereIsNext
<1>4. Master = 0
  BY DEF Master
<1>5. CASE state \in NameExpected
  <2>1. PICK r : r = [name |-> h, type |-> Unset, length |-> 0, precision |-> 0,
                      nullable |-> FALSE]
    OBVIOUS
  <2>2. ~ nullableImplied(token)
    BY <1>5 DEF nullableImplied, NameExpected
  <2>3. S = Append(R, r)
    BY <1>1, <1>2, <1>3, <1>5, <2>1, <2>2 DEF columnSpecsAfter, NameExpected
  <2>4. r \in ColumnSpec
    BY <2>1 DEF ColumnSpec, Unset
  <2>5. /\ Len(S) = Len(R) + 1 /\ S[Len(R) + 1] = r /\ Len(R) \in Nat
        /\ \A i \in 1 .. Len(R) : S[i] = R[i]
    BY <1>1, <2>3, <2>4
  <2>6. (p = r.name \/ p = r.type \/ p = r.length \/ p = r.precision) <=> p = h
    BY <1>4, <2>1
  <2>7. InColumnSpecs(S, p) <=> InColumnSpecs(R, p) \/ p = h
    BY <2>5, <2>6 DEF InColumnSpecs
  <2> QED
    BY <1>1, <1>2, <1>3, <1>5, <2>7 DEF ColumnPartStates
<1>6. CASE state \notin NameExpected
  <2>1. PICK r : /\ S \in Seq(ColumnSpec) /\ LastChanges(R, S, r)
                 /\ R # <<>> => ColumnSpecAfter(token, R[Len(R)], r)
    BY <1>1, <1>2, <1>6, ColumnSpecsAfter DEF NameExpected
  <2>2. /\ Len(S) = Len(R) /\ Len(R) \in Nat /\ (R = <<>> <=> S = <<>>)
        /\ \A i \in 1 .. Len(R) : i # Len(R) => S[i] = R[i]
        /\ R # <<>> => S[Len(R)] = r
    BY <1>1, <2>1 DEF LastChanges
  <2>3. PICK last : last = R[Len(R)]
    OBVIOUS
  <2>4. CASE R = <<>>
    <3>1. state \notin ColumnPartStates
      BY <1>1, <1>6, <2>4 DEF ColumnsInv, ColumnStates, ColumnPartStates
    <3> QED
      BY <1>1, <1>2, <2>2, <2>4, <3>1 DEF InColumnSpecs
  <2>5. CASE R # <<>>
    <3>1. LastColumn(last) /\ ColumnSpecAfter(token, last, r)
      BY <1>1, <2>1, <2>3, <2>5 DEF ColumnsInv
    <3>2. (p = r.name \/ p = r.type \/ p = r.length \/ p = r.precision) <=>
             \/ p = last.name \/ p = last.type \/ p = last.length \/ p = last.precision
             \/ p = h /\ state \in ColumnPartStates
      <4>1. CASE state = "CreateTableColumnName"
        <5>1. /\ last.type = Unset /\ r.name = last.name /\ r.type = h
              /\ r.length = last.length /\ r.precision = last.precision
          BY <1>3, <3>1, <4>1 DEF LastColumn, ColumnSpecAfter
        <5> QED
          BY <4>1, <5>1 DEF ColumnPartStates
      <4>2. CASE state = "CreateTableTypeDetailBegin"
        <5>1. /\ last.length = Master /\ r.name = last.name /\ r.type = last.type
              /\ r.length = h /\ r.precision = last.precision
          BY <1>3, <1>4, <3>1, <4>2 DEF LastColumn, ColumnSpecAfter
        <5> QED
          BY <4>2, <5>1 DEF ColumnPartStates
      <4>3. CASE state = "CreateTableTypeDetailSeperator"
        <5>1. /\ last.precision = Master /\ r.name = last.name /\ r.type = last.type
              /\ r.length = last.length /\ r.precision = h
          BY <1>3, <1>4, <3>1, <4>3 DEF LastColumn, ColumnSpecAfter
        <5> QED
          BY <4>3, <5>1 DEF ColumnPartStates
      <4>4. CASE state \notin ColumnPartStates
        <5>1. state = "CreateTableColumnType" => last.length = 0 /\ last.precision = 0
          BY <3>1 DEF LastColumn
        <5>2. /\ r.name = last.name /\ r.type = last.type
              /\ r.length = last.length /\ r.precision = last.precision
          BY <3>1, <4>4, <5>1 DEF ColumnSpecAfter, ColumnPartStates
        <5> QED
          BY <4>4, <5>2
      <4> QED
        BY <1>6, <4>1, <4>2, <4>3, <4>4 DEF ColumnPartStates
    <3>3. Len(R) \in 1 .. Len(R) /\ S[Len(R)] = r /\ R[Len(R)] = last
      BY <1>1, <2>2, <2>3, <2>5
    <3>4. InColumnSpecs(S, p) <=>
             InColumnSpecs(R, p) \/ (p = h /\ state \in ColumnPartStates)
      BY <2>2, <3>2, <3>3 DEF InColumnSpecs
    <3> QED
      BY <1>1, <1>2, <1>3, <3>4
  <2> QED
    BY <2>4, <2>5
<1> QED
  BY <1>5, <1>6

\* Appending to a list adds what is appended.
LEMMA ListsGrow ==
    ASSUME NEW T, NEW list \in Seq(T), NEW x \in T, NEW p
    PROVE  /\ InList(Append(list, x), p) <=> InList(list, p) \/ p = x
           /\ InConditions(Append(list, x), p) <=> InConditions(list, p) \/ p = x[1] \/ p = x[2]
<1>1. PICK S : S = Append(list, x)
  OBVIOUS
<1>2. /\ Len(S) = Len(list) + 1 /\ S[Len(list) + 1] = x /\ Len(list) \in Nat
      /\ \A i \in 1 .. Len(list) : S[i] = list[i]
  BY <1>1
<1>3. InList(S, p) <=> InList(list, p) \/ p = x
  BY <1>2 DEF InList
<1>4. InConditions(S, p) <=> InConditions(list, p) \/ p = x[1] \/ p = x[2]
  BY <1>2 DEF InConditions
<1> QED
  BY <1>1, <1>3, <1>4

\* The lists of columns and values take over columns and values, and the
\* conditions both of their sides.
LEMMA ListNamesGrow ==
    ASSUME TextInv, NEW token, Reads(token), NEW p
    PROVE  /\ InList(stmt'.columns, p) <=>
                 InList(stmt.columns, p) \/ (p = here /\ state \in ListStates /\ token = "identifier")
           /\ InList(stmt'.values, p) <=>
                 InList(stmt.values, p) \/ (p = here /\ state \in ValueStates)
           /\ (\/ InConditions(stmt'.updates, p) \/ InConditions(stmt'.selections, p)
               \/ InConditions(stmt'.joinConditions, p)) <=>
                 (\/ InConditions(stmt.updates, p) \/ InConditions(stmt.selections, p)
                  \/ InConditions(stmt.joinConditions, p)
                  \/ state \in OpStates /\ (p = here \/ p = prev(2)))
<1>1. PICK c : c = <<prev(2), here>>
  OBVIOUS
<1>2. here \in Int /\ prev(2) \in Int
  BY HereIsNext DEF prev
<1>3. c \in Int \X Int /\ c[1] = prev(2) /\ c[2] = here
  BY <1>1, <1>2
<1>4. /\ stmt.columns \in Seq(Int) /\ stmt.values \in Seq(Int)
      /\ stmt.updates \in Seq(Int \X Int) /\ stmt.selections \in Seq(Int \X Int)
      /\ stmt.joinConditions \in Seq(Int \X Int)
  BY DEF TextInv, Statement
<1>5. /\ stmt'.columns = IF token = "identifier" /\ state \in ListStates
                         THEN Append(stmt.columns, here) ELSE stmt.columns
      /\ stmt'.values = IF state \in ValueStates THEN Append(stmt.values, here) ELSE stmt.values
      /\ stmt'.updates = IF state = "UpdateSetExprOp" THEN Append(stmt.updates, c) ELSE stmt.updates
      /\ stmt'.selections = IF token \in Literals /\ state \in OpStates \ {"UpdateSetExprOp"}
                            THEN Append(stmt.selections, c) ELSE stmt.selections
      /\ stmt'.joinConditions = IF token = "identifier" /\ state = "SelectWhereExprOp"
                                THEN Append(stmt.joinConditions, c) ELSE stmt.joinConditions
  BY <1>1 DEF Reads, Collected, Listed, Compared, ListStates, ValueStates, OpStates
<1>6. /\ InList(stmt'.columns, p) <=>
            InList(stmt.columns, p) \/ (p = here /\ state \in ListStates /\ token = "identifier")
      /\ InList(stmt'.values, p) <=> InList(stmt.values, p) \/ (p = here /\ state \in ValueStates)
  BY <1>2, <1>4, <1>5, ListsGrow
<1>7. /\ InConditions(stmt'.updates, p) <=>
            \/ InConditions(stmt.updates, p)
            \/ state = "UpdateSetExprOp" /\ (p = here \/ p = prev(2))
      /\ InConditions(stmt'.selections, p) <=>
            \/ InConditions(stmt.selections, p)
            \/ /\ token \in Literals /\ state \in OpStates \ {"UpdateSetExprOp"}
               /\ p = here \/ p = prev(2)
      /\ InConditions(stmt'.joinConditions, p) <=>
            \/ InConditions(stmt.joinConditions, p)
            \/ token = "identifier" /\ state = "SelectWhereExprOp" /\ (p = here \/ p = prev(2))
  <2>1. \A list \in Seq(Int \X Int) :
           InConditions(Append(list, c), p) <=> InConditions(list, p) \/ p = here \/ p = prev(2)
    BY <1>3, ListsGrow
  <2>2. /\ InConditions(Append(stmt.updates, c), p) <=>
              InConditions(stmt.updates, p) \/ p = here \/ p = prev(2)
        /\ InConditions(Append(stmt.selections, c), p) <=>
              InConditions(stmt.selections, p) \/ p = here \/ p = prev(2)
        /\ InConditions(Append(stmt.joinConditions, c), p) <=>
              InConditions(stmt.joinConditions, p) \/ p = here \/ p = prev(2)
    BY <1>4, <2>1
  <2> QED
    BY <1>5, <2>2, Zenon
<1>8. state \in OpStates =>
         \/ state = "UpdateSetExprOp"
         \/ token \in Literals /\ state \in OpStates \ {"UpdateSetExprOp"}
         \/ token = "identifier" /\ state = "SelectWhereExprOp"
  BY ConditionTransitions DEF Reads
<1>9. {"UpdateSetExprOp", "SelectWhereExprOp"} \subseteq OpStates
  BY DEF OpStates
<1> QED
  BY <1>6, <1>7, <1>8, <1>9

NoBranchName == {"Init", "Create", "CreateBranch"}
NoParentName == {"Init", "Create", "CreateBranch", "CreateBranchTag", "CreateBranchFrom"}
NoPath == {"Init", "Copy", "CopyTable", "CopyVersion", "CopyTag", "CopyDirection"}

FreshStep(s, t, u) ==
    /\ u \in NoBranchName => s \in NoBranchName \ {"CreateBranch"}
    /\ u \in NoParentName => s \in NoParentName \ {"CreateBranchFrom"}
    /\ u \in NoPath => s \in NoPath \ {"CopyDirection"}

\* A name is read only once: no transition leads back in front of it.
LEMMA FreshTransitions ==
    ASSUME NEW s, NEW t, NEW u, <<s, t, u>> \in Transitions
    PROVE  FreshStep(s, t, u)
<1> USE DEF FreshStep, NoBranchName, NoParentName, NoPath
<1>1. CASE <<s, t, u>> \in InitTransitions
  BY <1>1 DEF InitTransitions
<1>2. CASE <<s, t, u>> \in CopyTransitions
  BY <1>2 DEF CopyTransitions
<1>3. CASE <<s, t, u>> \in CreateTransitions
  BY <1>3 DEF CreateTransitions
<1>4. CASE <<s, t, u>> \in DeleteTransitions
  BY <1>4 DEF DeleteTransitions, WhereTransitions
<1>5. CASE <<s, t, u>> \in UpdateTransitions
  BY <1>5 DEF UpdateTransitions, WhereTransitions
<1>6. CASE <<s, t, u>> \in InsertTransitions
  BY <1>6 DEF InsertTransitions
<1>7. CASE <<s, t, u>> \in SelectTransitions
  BY <1>7 DEF SelectTransitions, WhereTransitions
<1> QED
  BY <1>1, <1>2, <1>3, <1>4, <1>5, <1>6, <1>7, TransitionParts

\* A name that is still to be read is not there yet, and CREATE TABLE has seen
\* a bracket behind its name when it reads columns.
NamesInv ==
    /\ state \in NoBranchName => stmt.branchName = Unset
    /\ state \in NoParentName => stmt.parentBranchName = Unset
    /\ state \in NoPath => stmt.filePath = Unset
    /\ state \notin CreateTableStates \ {"CreateTable"} => stmt.tableName = Unset
    /\ state \in CreateTableStates \ {"CreateTable"} => stmt.tableName \in 1 .. Len(tokens)
    /\ state = "CreateTableRelationName" =>
          \A q \in stmt.tableName .. Len(tokens) : tokens[q] # "("
    /\ state \in TableColumnStates =>
          \E q \in stmt.tableName .. Len(tokens) : tokens[q] = "("

\* The names are taken over, and nothing but the tokens between the name of a
\* table and its columns is skipped.
LEMMA NamesKept ==
    ASSUME TextInv, NamesInv, NEW token, Reads(token)
    PROVE  NamesInv'
<1>1. PICK n \in Nat : /\ n = Len(tokens) /\ here = n + 1 /\ Len(tokens') = n + 1
                       /\ tokens'[n + 1] = token
                       /\ \A p \in 1 .. n : tokens'[p] = tokens[p]
  BY HereIsNext, TextGrows DEF Reads, Text
<1>2. NameStep(state, token, state') /\ FreshStep(state, token, state')
  BY NameTransitions, FreshTransitions DEF Reads
<1>3. /\ stmt'.tableName = IF state = "CreateTable" THEN n + 1 ELSE stmt.tableName
      /\ stmt'.branchName = IF state = "CreateBranch" THEN here ELSE stmt.branchName
      /\ stmt'.parentBranchName = IF state = "CreateBranchFrom" THEN here ELSE stmt.parentBranchName
      /\ stmt'.filePath = IF state = "CopyDirection" THEN here ELSE stmt.filePath
  BY <1>1 DEF Reads, Collected, Named
<1>4. /\ state' \in NoBranchName => stmt'.branchName = Unset
      /\ state' \in NoParentName => stmt'.parentBranchName = Unset
      /\ state' \in NoPath => stmt'.filePath = Unset
  BY <1>2, <1>3 DEF FreshStep, NamesInv
<1>5. CASE state = "CreateTable"
  <2>1. state' = "CreateTableRelationName" /\ stmt'.tableName = n + 1
    BY <1>2, <1>3, <1>5 DEF NameStep
  <2>2. token # "("
    BY <1>2, <1>5 DEF NameStep, Takes, NameStates, NameTokens, Literals
  <2> QED
    BY <1>1, <1>4, <2>1, <2>2 DEF NamesInv, CreateTableStates, TableColumnStates
<1>6. CASE state \notin CreateTableStates
  <2>1. state' \notin CreateTableStates \ {"CreateTable"} /\ stmt'.tableName = Unset
    BY <1>2, <1>3, <1>6 DEF NameStep, NamesInv, CreateTableStates
  <2>2. state' \notin TableColumnStates /\ state' # "CreateTableRelationName"
    BY <2>1 DEF CreateTableStates, TableColumnStates
  <2> QED
    BY <1>4, <2>1, <2>2 DEF NamesInv
<1>7. CASE state \in CreateTableStates \ {"CreateTable"}
  <2>1. PICK m \in 1 .. n : m = stmt.tableName /\ m = stmt'.tableName
    BY <1>1, <1>3, <1>7 DEF NamesInv
  <2>2. state' \in CreateTableStates \ {"CreateTable"}
    BY <1>2, <1>7 DEF NameStep, CreateTableStates, TableColumnStates
  <2>3. /\ m .. n \subseteq 1 .. n /\ m \in 1 .. n + 1 /\ m .. n \subseteq m .. (n + 1)
        /\ m .. (n + 1) = (m .. n) \cup {n + 1}
    BY <2>1
  <2>4. state' = "CreateTableRelationName" => \A q \in m .. (n + 1) : tokens'[q] # "("
    <3> SUFFICES ASSUME state' = "CreateTableRelationName"
                 PROVE  \A q \in m .. (n + 1) : tokens'[q] # "("
      OBVIOUS
    <3>1. state = "CreateTableRelationName" /\ token # "("
      BY <1>2, <1>7 DEF NameStep
    <3>2. \A q \in m .. n : tokens[q] # "("
      BY <1>1, <2>1, <3>1 DEF NamesInv
    <3> QED
      BY <1>1, <2>3, <3>1, <3>2
  <2>5. state' \in TableColumnStates => \E q \in m .. (n + 1) : tokens'[q] = "("
    <3>1. CASE state = "CreateTableRelationName" /\ token = "("
      BY <1>1, <2>3, <3>1
    <3>2. CASE state \in TableColumnStates
      <4>1. \E q \in m .. n : tokens[q] = "("
        BY <1>1, <2>1, <3>2 DEF NamesInv
      <4> QED
        BY <1>1, <2>3, <4>1
    <3> QED
      BY <1>2, <3>1, <3>2 DEF NameStep
  <2> QED
    BY <1>1, <1>4, <2>1, <2>2, <2>3, <2>4, <2>5 DEF NamesInv
<1> QED
  BY <1>5, <1>6, <1>7

\* The names take over the name of a table, a branch or a file.
LEMMA NameNamesGrow ==
    ASSUME TextInv, NamesInv, NEW token, Reads(token), NEW p, p # Unset
    PROVE  InNames(p)' <=> InNames(p) \/ (p = here /\ state \in NameStates)
<1>1. /\ stmt'.tableName = IF state = "CreateTable" THEN here ELSE stmt.tableName
      /\ stmt'.branchName = IF state = "CreateBranch" THEN here ELSE stmt.branchName
      /\ stmt'.parentBranchName = IF state = "CreateBranchFrom" THEN here ELSE stmt.parentBranchName
      /\ stmt'.filePath = IF state = "CopyDirection" THEN here ELSE stmt.filePath
  BY DEF Reads, Collected, Named
<1>2. /\ state = "CreateTable" => stmt.tableName = Unset
      /\ state = "CreateBranch" => stmt.branchName = Unset
      /\ state = "CreateBranchFrom" => stmt.parentBranchName = Unset
      /\ state = "CopyDirection" => stmt.filePath = Unset
  BY DEF NamesInv, NoBranchName, NoParentName, NoPath
<1>3. InNames(p)' <=> \/ p = stmt'.tableName \/ p = stmt'.branchName
                      \/ p = stmt'.parentBranchName \/ p = stmt'.filePath
  BY DEF InNames
<1>4. InNames(p) <=> \/ p = stmt.tableName \/ p = stmt.branchName
                     \/ p = stmt.parentBranchName \/ p = stmt.filePath
  BY DEF InNames
<1> QED
  BY <1>1, <1>2, <1>3, <1>4 DEF NameStates

\* What has been skipped stays skipped, and only CREATE TABLE skips a token.
LEMMA SkippedStays ==
    ASSUME TextInv, NamesInv, NEW token, Reads(token), NEW h, h = here
    PROVE  /\ \A p \in 1 .. Len(tokens) : Skipped(p)' <=> Skipped(p)
           /\ token # "(" => (Skipped(h)' <=> state = "CreateTableRelationName")
<1>1. PICK n \in Nat : /\ n = Len(tokens) /\ h = n + 1 /\ Len(tokens') = n + 1
                       /\ tokens'[n + 1] = token
                       /\ \A p \in 1 .. n : tokens'[p] = tokens[p]
  BY HereIsNext, TextGrows DEF Reads, Text
<1>2. stmt'.tableName = IF state = "CreateTable" THEN n + 1 ELSE stmt.tableName
  BY <1>1 DEF Reads, Collected, Named
<1>3. Unset = -1
  BY DEF Unset
<1>4. CASE state = "CreateTable"
  <2>1. stmt.tableName = Unset /\ stmt'.tableName = n + 1
    BY <1>2, <1>4 DEF NamesInv, CreateTableStates
  <2>2. \A p \in 1 .. n + 1 : ~ Skipped(p)'
    BY <1>1, <2>1 DEF Skipped
  <2>3. \A p \in 1 .. n : ~ Skipped(p)
    BY <2>1 DEF Skipped
  <2>4. n + 1 \in 1 .. n + 1 /\ 1 .. n \subseteq 1 .. n + 1
    OBVIOUS
  <2> QED
    BY <1>1, <1>4, <2>2, <2>3, <2>4
<1>5. CASE state \notin CreateTableStates
  <2>1. stmt.tableName = Unset /\ stmt'.tableName = Unset
    BY <1>2, <1>5 DEF NamesInv, CreateTableStates
  <2> QED
    BY <1>5, <2>1 DEF Skipped, CreateTableStates
<1>6. CASE state \in CreateTableStates \ {"CreateTable"}
  <2>1. PICK m \in 1 .. n : m = stmt.tableName /\ m = stmt'.tableName
    BY <1>1, <1>2, <1>6 DEF NamesInv
  <2>2. \A p \in 1 .. n : m .. p \subseteq 1 .. n
    BY <2>1
  <2>3. \A p \in 1 .. n : (\A q \in m .. p : tokens'[q] # "(") <=> (\A q \in m .. p : tokens[q] # "(")
    BY <1>1, <2>2
  <2>4. \A p \in 1 .. n : Skipped(p)' <=> Skipped(p)
    BY <2>1, <2>3 DEF Skipped
  <2>5. Skipped(n + 1)' <=> \A q \in m .. (n + 1) : tokens'[q] # "("
    BY <1>3, <2>1 DEF Skipped
  <2>6. m .. (n + 1) = (m .. n) \cup {n + 1} /\ m .. n \subseteq 1 .. n
    BY <2>1
  <2>7. state = "CreateTableRelationName" => \A q \in m .. n : tokens[q] # "("
    BY <1>1, <2>1 DEF NamesInv
  <2>8. state # "CreateTableRelationName" => \E q \in m .. n : tokens[q] = "("
    BY <1>1, <1>6, <2>1 DEF NamesInv, CreateTableStates
  <2>9. token # "(" => (Skipped(n + 1)' <=> state = "CreateTableRelationName")
    BY <1>1, <2>5, <2>6, <2>7, <2>8
  <2> QED
    BY <1>1, <2>4, <2>9
<1> QED
  BY <1>4, <1>5, <1>6

\* The left side of a condition that has no operand yet.
Pending == IF state \in LhsStates THEN {Len(tokens)}
           ELSE IF state \in OpStates THEN {Len(tokens) - 1} ELSE {}

Written(p) == p \in 1 .. Len(tokens) /\ tokens[p] \in NameTokens /\ ~ Skipped(p)

\* What has been read is in the statement, or is about to be.
MentionInv ==
    \A p : p \notin {Unset, Master} => ((p \in Mentioned \/ p \in Pending) <=> Written(p))

\* Every token keeps the statement and the text in agreement.
LEMMA MentionedKept ==
    ASSUME TextInv, TextInv', VersionsInv, ColumnsInv, AliasInv, NamesInv, MentionInv,
           NEW token, Reads(token)
    PROVE  MentionInv'
<1> SUFFICES ASSUME NEW p, p \notin {Unset, Master}
             PROVE  ((p \in Mentioned \/ p \in Pending) <=> Written(p))'
  BY DEF MentionInv
<1>1. PICK n \in Nat : /\ n = Len(tokens) /\ here = n + 1 /\ Len(tokens') = n + 1
                       /\ tokens'[n + 1] = token
                       /\ \A q \in 1 .. n : tokens'[q] = tokens[q]
  BY HereIsNext, TextGrows DEF Reads, Text
<1>2. NameStep(state, token, state')
  BY NameTransitions DEF Reads
<1>3. (p \in Mentioned)' <=>
         \/ p \in Mentioned
         \/ p = here /\ Takes(state, token, state')
         \/ p = prev(2) /\ state \in OpStates
  <2>1. PartsAreMentioned'
    BY MentionedParts, PTL
  <2>2. (p \in Mentioned)' <=> InParts(p)'
    BY <2>1 DEF PartsAreMentioned
  <2>3. p \in Mentioned <=> InParts(p)
    BY MentionedParts DEF PartsAreMentioned
  <2>4. InRelations(stmt'.relations, p) <=>
           \/ InRelations(stmt.relations, p)
           \/ /\ p = here
              /\ \/ state \in TableStates \/ state \in VersionStates
                 \/ state \in AliasStates /\ token = "identifier"
    BY RelationNamesGrow
  <2>5. InColumnSpecs(stmt'.columnSpecs, p) <=>
           InColumnSpecs(stmt.columnSpecs, p) \/ (p = here /\ state \in ColumnPartStates)
    BY ColumnSpecNamesGrow
  <2>6. InNames(p)' <=> InNames(p) \/ (p = here /\ state \in NameStates)
    BY NameNamesGrow
  <2> QED
    BY <2>2, <2>3, <2>4, <2>5, <2>6, ListNamesGrow, Zenon DEF Takes, InParts
<1>4. p \in Pending' <=> (state' \in LhsStates /\ p = n + 1) \/ (state \in LhsStates /\ p = n)
  <2>1. Pending' = IF state' \in LhsStates THEN {n + 1}
                   ELSE IF state' \in OpStates THEN {n} ELSE {}
    <3>1. (n + 1) - 1 = n
      OBVIOUS
    <3> QED
      BY <1>1, <3>1, Zenon DEF Pending
  <2>2. state' \in OpStates => state' \notin LhsStates
    BY DEF OpStates, LhsStates
  <2> QED
    BY <1>2, <2>1, <2>2 DEF NameStep
<1>5. p \in Pending <=> (state \in LhsStates /\ p = n) \/ (state \in OpStates /\ p = prev(2))
  <2>1. prev(2) = n - 1
    BY <1>1 DEF prev
  <2>2. state \in OpStates => state \notin LhsStates
    BY DEF OpStates, LhsStates
  <2> QED
    BY <1>1, <2>1, <2>2 DEF Pending
<1>6. Written(p)' <=>
         \/ Written(p)
         \/ p = n + 1 /\ token \in NameTokens /\ state # "CreateTableRelationName"
  <2>1. token \in NameTokens => token # "("
    BY DEF NameTokens, Literals
  <2>2. /\ \A q \in 1 .. n : Skipped(q)' <=> Skipped(q)
        /\ token # "(" => (Skipped(n + 1)' <=> state = "CreateTableRelationName")
    BY <1>1, SkippedStays
  <2>3. Written(p)' <=> p \in 1 .. (n + 1) /\ tokens'[p] \in NameTokens /\ ~ Skipped(p)'
    BY <1>1 DEF Written
  <2>4. Written(p) <=> p \in 1 .. n /\ tokens[p] \in NameTokens /\ ~ Skipped(p)
    BY <1>1 DEF Written
  <2>5. 1 .. (n + 1) = (1 .. n) \cup {n + 1} /\ n + 1 \notin 1 .. n
    OBVIOUS
  <2>6. CASE p \in 1 .. n
    BY <1>1, <2>2, <2>3, <2>4, <2>5, <2>6
  <2>7. CASE p = n + 1
    BY <1>1, <2>1, <2>2, <2>3, <2>4, <2>5, <2>7
  <2>8. CASE p \notin 1 .. n /\ p # n + 1
    BY <2>3, <2>4, <2>5, <2>8
  <2> QED
    BY <2>6, <2>7, <2>8
<1>7. (p \in Mentioned \/ p \in Pending) <=> Written(p)
  BY DEF MentionInv
<1>8. p = here <=> p = n + 1
  BY <1>1
<1>9. (token \in NameTokens /\ state # "CreateTableRelationName") <=>
         (Takes(state, token, state') \/ state' \in LhsStates)
  BY <1>2 DEF NameStep
<1> QED
  BY <1>3, <1>4, <1>5, <1>6, <1>7, <1>8, <1>9, Zenon

------------------------------------------------------------------------------
(* What is accepted is what was written                                    *)

\* A statement ends where none of its parts is half read.
LEMMA FinalStates ==
    ASSUME stateIsFinal(state)
    PROVE  /\ state \notin ColumnStates /\ state \notin LhsStates /\ state \notin OpStates
           /\ state \notin VersionStates
           /\ state \in RelationStates =>
                 state \in {"DeleteRelationName", "SelectFromRelationName"}
BY DEF stateIsFinal, ColumnStates, LhsStates, OpStates, VersionStates, RelationStates

\* A delimiter ends the statement.
Delimits ==
    /\ stateIsFinal(state) /\ tokens' = Append(tokens, ";") /\ stmt' = stmt /\ opType' = opType
    /\ state' = "Done"

\* The tables of a statement that is accepted have the versions that are written.
LEMMA DelimitedVersions ==
    ASSUME TextInv, VersionsInv, Delimits, NEW i \in DOMAIN stmt.relations, NEW r,
           r = stmt.relations[i]
    PROVE  /\ r.version = IF tokens'[r.name + 1] = "version" THEN r.name + 2 ELSE Master
           /\ r.version # Unset
<1>1. PICK n \in Nat : /\ n = Len(tokens) /\ Len(tokens') = n + 1
                       /\ tokens'[n + 1] = ";"
                       /\ \A p \in 1 .. n : tokens'[p] = tokens[p]
  BY HereIsNext, TextGrows DEF Delimits, Text
<1>2. PICK R \in Seq(Relation) : R = stmt.relations
  BY DEF TextInv, Statement
<1>3. i \in 1 .. Len(R) /\ r = R[i]
  BY <1>2
<1>5. /\ r.name \in Nat
      /\ r.version = IF tokens'[r.name + 1] = "version" THEN r.name + 2 ELSE Master
  <2>1. CASE VersionRead(r)
    <3>1. VersionRead(r)'
      BY <2>1, VersionsStayRead DEF Delimits, Text
    <3>2. r.name \in 1 .. n - 1
      BY <1>1, <2>1 DEF VersionRead
    <3>3. r.name \in Nat
      BY <3>2
    <3> QED
      BY <3>1, <3>3 DEF VersionRead
  <2>2. CASE ~ VersionRead(r)
    <3>1. LastVersion(r) /\ state \in RelationStates
      BY <1>2, <1>3, <2>2, FinalStates DEF VersionsInv, LastVersion, Delimits
    <3>2. r.version = Master /\ r.name = n
      BY <1>1, <3>1, FinalStates DEF LastVersion, Delimits
    <3> QED
      BY <1>1, <3>2
  <2> QED
    BY <2>1, <2>2
<1>4. \A m \in Nat : m + 2 # Unset /\ Master # Unset
  BY DEF Unset, Master
<1> QED
  BY <1>4, <1>5

\* A column as ColumnSpecsAsWritten describes it.
ColumnWritten(r) ==
    LET hasLength == tokens[r.type + 1] = "("
        hasPrecision == hasLength /\ tokens[r.type + 3] = ","
        behind == r.type + (IF hasPrecision THEN 6 ELSE IF hasLength THEN 4 ELSE 1)
    IN  /\ r.type = r.name + 1
        /\ r.length = IF hasLength THEN r.type + 2 ELSE 0
        /\ r.precision = IF hasPrecision THEN r.type + 4 ELSE 0
        /\ r.nullable = (tokens[behind] # "not")

ColumnsWritten == \A i \in DOMAIN stmt.columnSpecs : ColumnWritten(stmt.columnSpecs[i])

\* ColumnSpecsAsWritten, column by column.
LEMMA ColumnsAreWritten == ColumnSpecsAsWritten <=> (Accepted => ColumnsWritten)
BY Zenon DEF ColumnSpecsAsWritten, ColumnsWritten, ColumnWritten

\* The columns of a CREATE TABLE that is accepted are what is declared.
LEMMA DelimitedColumns ==
    ASSUME TextInv, ColumnsInv, Delimits, NEW i \in DOMAIN stmt.columnSpecs, NEW r,
           r = stmt.columnSpecs[i]
    PROVE  ColumnWritten(r)'
<1> USE DEF ColumnWritten
<1>1. PICK R \in Seq(ColumnSpec) : R = stmt.columnSpecs
  BY DEF TextInv, Statement
<1>10. i \in 1 .. Len(R) /\ r = R[i]
  BY <1>1
<1>2. ColumnRead(r)
  BY <1>1, <1>10, FinalStates DEF ColumnsInv, LastColumn, Delimits
<1>3. PICK k \in 1 .. Len(tokens) : /\ Behind(r, k)
                                    /\ r.nullable = TRUE \/ r.nullable = FALSE
                                    /\ r.nullable = TRUE <=> tokens[k] # "not"
  BY <1>2 DEF ColumnRead
<1>4. Behind(r, k)'
  BY <1>3, ColumnsStayRead DEF Delimits, Text
<1>5. tokens'[k] = tokens[k]
  BY TextGrows DEF Delimits, Text
<1>6. r.nullable = (tokens'[k] # "not")
  BY <1>3, <1>5, Zenon
<1>7. CASE k = r.type + 1 /\ Plain(r)'
  BY <1>4, <1>6, <1>7 DEF Behind, Plain
<1>8. CASE k = r.type + 4 /\ Sized(r)'
  BY <1>4, <1>6, <1>8 DEF Behind, Sized
<1>9. CASE k = r.type + 6 /\ Precise(r)'
  BY <1>4, <1>6, <1>9 DEF Behind, Precise
<1> QED
  BY <1>4, <1>7, <1>8, <1>9 DEF Behind

\* A condition as ConditionsAsWritten describes it.
WrittenSo(c, operands, afterWhere) ==
    /\ tokens[c[1]] = "identifier" /\ tokens[c[1] + 1] = "op"
    /\ c[2] = c[1] + 2 /\ tokens[c[2]] \in operands
    /\ (\E p \in 1 .. c[1] : tokens[p] = "where") = afterWhere

\* The conditions of a statement that is accepted are what is written.
LEMMA DelimitedConditions ==
    ASSUME TextInv, ConditionsInv, Delimits
    PROVE  ConditionsAsWritten'
<1>1. /\ DOMAIN stmt.updates = 1 .. Len(stmt.updates)
      /\ DOMAIN stmt.selections = 1 .. Len(stmt.selections)
      /\ DOMAIN stmt.joinConditions = 1 .. Len(stmt.joinConditions)
  <2>1. /\ stmt.updates \in Seq(Int \X Int) /\ stmt.selections \in Seq(Int \X Int)
        /\ stmt.joinConditions \in Seq(Int \X Int)
    BY DEF TextInv, Statement
  <2>2. \A T : \A list \in Seq(T) : DOMAIN list = 1 .. Len(list)
    OBVIOUS
  <2> QED
    BY <2>1, <2>2
<1>2. ASSUME NEW c, Assignment(c) PROVE WrittenSo(c, Literals, FALSE)'
  <2>1. Assignment(c)'
    BY <1>2, ConditionsStayRead DEF Delimits, Text
  <2> QED
    BY <2>1, Zenon DEF Assignment, ConditionRead, WhereBefore, WrittenSo
<1>3. ASSUME NEW c, NEW operands, Condition(c, operands) PROVE WrittenSo(c, operands, TRUE)'
  <2>1. Condition(c, operands)'
    BY <1>3, ConditionsStayRead DEF Delimits, Text
  <2> QED
    BY <2>1, Zenon DEF Condition, ConditionRead, WhereBefore, WrittenSo
<1>4. PICK updates, selections, joins :
         /\ updates = stmt.updates /\ selections = stmt.selections /\ joins = stmt.joinConditions
         /\ updates = stmt'.updates /\ selections = stmt'.selections
         /\ joins = stmt'.joinConditions
  BY DEF Delimits
<1>5. /\ \A i \in DOMAIN updates : WrittenSo(updates[i], Literals, FALSE)'
      /\ \A i \in DOMAIN selections : WrittenSo(selections[i], Literals, TRUE)'
      /\ \A i \in DOMAIN joins : WrittenSo(joins[i], {"identifier"}, TRUE)'
  BY <1>1, <1>2, <1>3, <1>4, Zenon DEF ConditionsInv
<1> DEFINE AllWritten(list, operands, afterWhere) ==
             \A i \in DOMAIN list :
                /\ tokens'[list[i][1]] = "identifier"
                /\ tokens'[list[i][1] + 1] = "op"
                /\ list[i][2] = list[i][1] + 2
                /\ tokens'[list[i][2]] \in operands
                /\ (\E p \in 1 .. list[i][1] : tokens'[p] = "where") = afterWhere
<1>6. ASSUME NEW list, NEW operands, NEW afterWhere,
             \A i \in DOMAIN list : WrittenSo(list[i], operands, afterWhere)'
      PROVE  AllWritten(list, operands, afterWhere)
  BY <1>6, Zenon DEF WrittenSo
<1>7. /\ AllWritten(stmt'.updates, Literals, FALSE) /\ AllWritten(stmt'.selections, Literals, TRUE)
      /\ AllWritten(stmt'.joinConditions, {"identifier"}, TRUE)
  <2> HIDE DEF AllWritten
  <2>1. /\ AllWritten(updates, Literals, FALSE) /\ AllWritten(selections, Literals, TRUE)
        /\ AllWritten(joins, {"identifier"}, TRUE)
    BY <1>5, <1>6, Zenon
  <2> QED
    BY <1>4, <2>1, Zenon
<1> QED
  BY <1>7, Zenon DEF ConditionsAsWritten

\* The last token mentions nothing and skips nothing.
LEMMA DelimitedNames ==
    ASSUME TextInv, NamesInv, MentionInv, Delimits
    PROVE  NothingReadIsLost'
<1>1. PICK n \in Nat : /\ n = Len(tokens) /\ Len(tokens') = n + 1
                       /\ tokens'[n + 1] = ";"
                       /\ \A p \in 1 .. n : tokens'[p] = tokens[p]
                       /\ DOMAIN tokens' = 1 .. (n + 1)
  <2>1. tokens' \in Seq(Text)
    BY TextGrows DEF Delimits, Text
  <2>2. DOMAIN tokens' = 1 .. Len(tokens')
    BY <2>1
  <2>3. /\ Len(tokens) \in Nat /\ Len(tokens') = Len(tokens) + 1
        /\ tokens'[Len(tokens) + 1] = ";"
        /\ \A p \in 1 .. Len(tokens) : tokens'[p] = tokens[p]
    BY HereIsNext, TextGrows DEF Delimits, Text
  <2> QED
    BY <2>2, <2>3
<1>2. Mentioned' = Mentioned
  <2>1. stmt' = stmt /\ TextInv'
    BY TextGrows DEF Delimits, Text, TextInv
  <2> QED
    BY <2>1, MentionedStays
<1>3. Pending = {}
  BY FinalStates DEF Pending, Delimits
<1>4. \A p \in 1 .. n : Skipped(p)' <=> Skipped(p)
  <2>1. CASE stmt.tableName = Unset
    BY <2>1 DEF Skipped, Delimits
  <2>2. CASE stmt.tableName # Unset
    <3>1. PICK m \in 1 .. n : m = stmt.tableName /\ m = stmt'.tableName
      BY <1>1, <2>2 DEF NamesInv, Delimits
    <3>2. \A p \in 1 .. n : m .. p \subseteq 1 .. n
      BY <3>1
    <3>3. \A p \in 1 .. n :
             (\A q \in m .. p : tokens'[q] # "(") <=> (\A q \in m .. p : tokens[q] # "(")
      BY <1>1, <3>2
    <3> QED
      BY <3>1, <3>3 DEF Skipped
  <2> QED
    BY <2>1, <2>2
<1>5. ASSUME NEW p
      PROVE  p \in Mentioned \ {Unset, Master} <=>
                p \in 1 .. (n + 1) /\ tokens'[p] \in NameTokens /\ ~ Skipped(p)'
  <2>1. 1 .. (n + 1) = (1 .. n) \cup {n + 1} /\ tokens'[n + 1] \notin NameTokens
    <3>1. 1 .. (n + 1) = (1 .. n) \cup {n + 1}
      OBVIOUS
    <3>2. tokens'[n + 1] \notin NameTokens
      BY <1>1 DEF NameTokens, Literals
    <3> QED
      BY <3>1, <3>2
  <2>2. p \in {Unset, Master} => p \notin 1 .. (n + 1)
    BY DEF Unset, Master
  <2>3. Written(p) <=> p \in 1 .. n /\ tokens[p] \in NameTokens /\ ~ Skipped(p)
    BY <1>1 DEF Written
  <2>4. Written(p) <=> p \in 1 .. (n + 1) /\ tokens'[p] \in NameTokens /\ ~ Skipped(p)'
    BY <1>1, <1>4, <2>1, <2>3
  <2>5. p \notin {Unset, Master} => (p \in Mentioned <=> Written(p))
    BY <1>3 DEF MentionInv
  <2> QED
    BY <2>2, <2>4, <2>5
<1>6. PICK M : M = Mentioned \ {Unset, Master}
  OBVIOUS
<1>7. M = {p \in 1 .. (n + 1) : tokens'[p] \in Literals \cup {"identifier"} /\ ~ Skipped(p)'}
  BY <1>5, <1>6, Zenon DEF NameTokens
<1>8. (Mentioned \ {Unset, Master})' = M
  BY <1>2, <1>6
<1> QED
  BY <1>1, <1>7, <1>8, Zenon DEF NothingReadIsLost

\* The statement has its type and its parts.
LEMMA DelimitedParts ==
    ASSUME TextInv, VersionsInv, TypeInv, PartsInv, Delimits
    PROVE  AcceptedIsComplete'
<1>1. \A i \in DOMAIN stmt'.relations : stmt'.relations[i].version # Unset
  BY DelimitedVersions DEF Delimits
<1>2. stmt' = stmt /\ opType' = opType /\ state' = "Done"
  BY DEF Delimits
<1> USE DEF stateIsFinal
<1>3. CASE state \in {"SelectFromRelationName", "SelectFromTag", "SelectFromBindingName",
                      "SelectWhereExprRhs"}
  <2>1. opType = "Select" /\ stmt.relations # <<>>
    BY <1>3 DEF TypeInv, PartsInv, SelectStates, TableRead
  <2> QED
    BY <1>1, <1>2, <2>1 DEF AcceptedIsComplete
<1>4. CASE state = "InsertValuesEnd"
  <2>1. opType = "Insert" /\ stmt.relations # <<>> /\ stmt.values # <<>>
    BY <1>4 DEF TypeInv, PartsInv, InsertStates, TableRead, ValuesRead
  <2> QED
    BY <1>1, <1>2, <2>1 DEF AcceptedIsComplete
<1>5. CASE state \in {"UpdateSetExprRhs", "UpdateWhereExprRhs"}
  <2>1. opType = "Update" /\ stmt.relations # <<>> /\ stmt.updates # <<>>
    BY <1>5 DEF TypeInv, PartsInv, UpdateStates, TableRead, UpdatesRead
  <2> QED
    BY <1>1, <1>2, <2>1 DEF AcceptedIsComplete
<1>6. CASE state \in {"DeleteRelationName", "DeleteTag", "DeleteWhereExprRhs"}
  <2>1. opType = "Delete" /\ stmt.relations # <<>>
    BY <1>6 DEF TypeInv, PartsInv, DeleteStates, TableRead
  <2> QED
    BY <1>1, <1>2, <2>1 DEF AcceptedIsComplete
<1>7. CASE state \in {"CreateTableRelationName", "CreateTableColumnsEnd"}
  <2>1. opType = "CreateTable" /\ stmt.tableName # Unset
    BY <1>7 DEF TypeInv, PartsInv, CreateTableStates, TableColumnStates
  <2> QED
    BY <1>2, <2>1 DEF AcceptedIsComplete
<1>8. CASE state = "CreateBranchParent"
  <2>1. opType = "CreateBranch" /\ stmt.branchName # Unset /\ stmt.parentBranchName # Unset
    BY <1>8 DEF TypeInv, PartsInv, BranchStates
  <2> QED
    BY <1>2, <2>1 DEF AcceptedIsComplete
<1>9. CASE state = "Branch"
  <2>1. opType = "Branch"
    BY <1>9 DEF TypeInv
  <2> QED
    BY <1>2, <2>1 DEF AcceptedIsComplete
<1>10. CASE state = "CopyType"
  <2>1. opType = "Copy" /\ stmt.relations # <<>> /\ stmt.filePath # Unset /\ stmt.format # ""
    BY <1>10 DEF TypeInv, PartsInv, CopyStates, TableRead, PathRead
  <2> QED
    BY <1>1, <1>2, <2>1 DEF AcceptedIsComplete
<1> QED
  BY <1>3, <1>4, <1>5, <1>6, <1>7, <1>8, <1>9, <1>10 DEF Delimits

\* A delimiter in a final state accepts what was written (parseToken, stateIsFinal).
LEMMA DelimitedAsWritten ==
    ASSUME TextInv, VersionsInv, ConditionsInv, ColumnsInv, TypeInv, PartsInv, NamesInv,
           MentionInv, Delimits
    PROVE  ParsedAsWritten'
<1>1. VersionAsWritten'
  <2>1. PICK R : R = stmt.relations /\ R = stmt'.relations
    BY DEF Delimits
  <2>2. \A i \in DOMAIN R : R[i].version = IF tokens'[R[i].name + 1] = "version"
                                           THEN R[i].name + 2 ELSE Master
    BY <2>1, DelimitedVersions
  <2> QED
    BY <2>1, <2>2 DEF VersionAsWritten
<1>2. ColumnSpecsAsWritten'
  <2>1. PICK R : R = stmt.columnSpecs /\ R = stmt'.columnSpecs
    BY DEF Delimits
  <2>2. ColumnsWritten'
    BY <2>1, DelimitedColumns DEF ColumnsWritten
  <2> QED
    BY <2>2, ColumnsAreWritten, PTL
<1> QED
  BY <1>1, <1>2, DelimitedConditions, DelimitedNames, DelimitedParts DEF ParsedAsWritten

\* The invariant: while the input lasts, every part of the statement is what
\* has been read of it.
ParseInv ==
    /\ TextInv
    /\ (Parsing /\ ~ ended) =>
          /\ VersionsInv /\ ConditionsInv /\ ColumnsInv /\ TypeInv /\ PartsInv
          /\ AliasInv /\ NamesInv /\ MentionInv
    /\ ParsedAsWritten

\* It holds in the beginning, when nothing has been read.
LEMMA ParseInit == Init => ParseInv
<1> SUFFICES ASSUME Init PROVE ParseInv
  OBVIOUS
<1>1. TextInv
  <2>1. stmt \in Statement
    <3>1. Unset \in Int /\ "" \in Tokens \cup {""} /\ FALSE \in BOOLEAN
      BY DEF Unset
    <3>2. <<>> \in Seq(Relation) /\ <<>> \in Seq(ColumnSpec) /\ <<>> \in Seq(Int)
          /\ <<>> \in Seq(Int \X Int)
      OBVIOUS
    <3> QED
      BY <3>1, <3>2 DEF Init, EmptyStatement, Statement
  <2> QED
    BY <2>1 DEF Init, TextInv
<1>2. /\ stmt.relations = <<>> /\ stmt.columns = <<>> /\ stmt.values = <<>>
      /\ stmt.updates = <<>> /\ stmt.selections = <<>> /\ stmt.joinConditions = <<>>
      /\ stmt.columnSpecs = <<>>
      /\ stmt.tableName = Unset /\ stmt.branchName = Unset /\ stmt.parentBranchName = Unset
      /\ stmt.filePath = Unset /\ tokens = <<>> /\ Len(tokens) = 0 /\ state = "Init"
  BY DEF Init, EmptyStatement
<1>3. VersionsInv
  BY <1>2 DEF VersionsInv, RelationStates, VersionStates
<1>4. ConditionsInv
  BY <1>2 DEF ConditionsInv, LhsStates, OpStates, AfterWhere, WhereBefore
<1>5. ColumnsInv
  BY <1>2 DEF ColumnsInv, ColumnStates
<1>6. TypeInv
  BY <1>2 DEF TypeInv, SelectStates, InsertStates, UpdateStates, DeleteStates, CopyStates,
              BranchStates, CreateTableStates, TableColumnStates
<1>7. PartsInv
  BY <1>2 DEF PartsInv, TableRead, SelectStates, InsertStates, UpdateStates, DeleteStates,
              CopyStates, UpdatesRead, ValuesRead, PathRead, CreateTableStates, TableColumnStates
<1>8. AliasInv
  BY <1>2 DEF AliasInv, AliasStates
<1>9. NamesInv
  BY <1>2 DEF NamesInv, CreateTableStates, TableColumnStates
<1>10. MentionInv
  <2>1. \A p : p \in Mentioned => p = Unset
    BY <1>1, <1>2, MentionedParts
    DEF PartsAreMentioned, InParts, InRelations, InColumnSpecs, InConditions, InList, InNames
  <2>2. Pending = {}
    BY <1>2 DEF Pending, LhsStates, OpStates
  <2>3. \A p : ~ Written(p)
    BY <1>2 DEF Written
  <2> QED
    BY <2>1, <2>2, <2>3 DEF MentionInv
<1>11. ParsedAsWritten
  BY <1>2 DEF ParsedAsWritten, Accepted, AcceptedIsComplete, VersionAsWritten,
              ConditionsAsWritten, NothingReadIsLost, ColumnSpecsAsWritten
<1> QED
  BY <1>1, <1>3, <1>4, <1>5, <1>6, <1>7, <1>8, <1>9, <1>10, <1>11 DEF ParseInv

\* A complete statement of a type, as AcceptedIsComplete describes it.
Complete(type) ==
    LET Missing ==
            CASE type = "Unknown" -> TRUE
              [] type = "Branch" -> FALSE
              [] type = "CreateTable" -> stmt.tableName = Unset
              [] type = "CreateBranch" -> Unset \in {stmt.branchName, stmt.parentBranchName}
              [] type = "Copy" -> stmt.filePath = Unset \/ stmt.format = ""
              [] type = "Insert" -> stmt.values = <<>>
              [] type = "Update" -> stmt.updates = <<>>
              [] OTHER -> FALSE
    IN  /\ ~ Missing
        /\ type \in {"Select", "Insert", "Update", "Delete", "Copy"} =>
              /\ stmt.relations # <<>>
              /\ \A i \in DOMAIN stmt.relations : stmt.relations[i].version # Unset

ConditionsWritten ==
    /\ \A i \in DOMAIN stmt.updates : WrittenSo(stmt.updates[i], Literals, FALSE)
    /\ \A i \in DOMAIN stmt.selections : WrittenSo(stmt.selections[i], Literals, TRUE)
    /\ \A i \in DOMAIN stmt.joinConditions :
          WrittenSo(stmt.joinConditions[i], {"identifier"}, TRUE)

\* ConditionsAsWritten, condition by condition.
LEMMA ConditionsAreWritten == ConditionsAsWritten <=> (Accepted => ConditionsWritten)
BY Zenon DEF ConditionsAsWritten, ConditionsWritten, WrittenSo

\* What was written stays written.
LEMMA StaysWritten ==
    ASSUME TextInv, stmt' = stmt, tokens' = tokens
    PROVE  /\ ColumnsWritten => ColumnsWritten'
           /\ ConditionsWritten => ConditionsWritten'
           /\ \A p : Skipped(p)' <=> Skipped(p)
           /\ \A type : Complete(type) => Complete(type)'
           /\ TextInv' /\ Mentioned' = Mentioned
<1>1. TextInv' /\ Mentioned' = Mentioned
  BY MentionedStays DEF TextInv
<1>2. ASSUME NEW c, NEW operands, NEW after
      PROVE  WrittenSo(c, operands, after)' <=> WrittenSo(c, operands, after)
  BY DEF WrittenSo
<1>3. ConditionsWritten => ConditionsWritten'
  BY <1>2 DEF ConditionsWritten
<1>4. ASSUME NEW r PROVE ColumnWritten(r)' <=> ColumnWritten(r)
  BY DEF ColumnWritten
<1>5. ColumnsWritten => ColumnsWritten'
  BY <1>4 DEF ColumnsWritten
<1>6. \A p : Skipped(p)' <=> Skipped(p)
  BY DEF Skipped
<1>7. \A type : Complete(type) => Complete(type)'
  BY DEF Complete
<1> QED
  BY <1>1, <1>3, <1>5, <1>6, <1>7

\* What is not accepted claims nothing.
LEMMA NotAccepted ==
    ASSUME state' \notin {"Done", "Converted"}
    PROVE  ParsedAsWritten'
BY DEF ParsedAsWritten, Accepted, AcceptedIsComplete, VersionAsWritten,
       ConditionsAsWritten, NothingReadIsLost, ColumnSpecsAsWritten

\* What was accepted as written stays so when its owner changes.
LEMMA AcceptedStays ==
    ASSUME TextInv, ParsedAsWritten, stmt' = stmt, tokens' = tokens, Accepted, Accepted',
           (IF state' = "Done" THEN opType' ELSE resultType') =
              (IF state = "Done" THEN opType ELSE resultType)
    PROVE  ParsedAsWritten'
<1>1. AcceptedIsComplete'
  <2>1. PICK t : /\ t = IF state = "Done" THEN opType ELSE resultType
                 /\ t = IF state' = "Done" THEN opType' ELSE resultType'
    OBVIOUS
  <2>2. Complete(t)
    BY <2>1 DEF ParsedAsWritten, AcceptedIsComplete, Complete
  <2>3. Complete(t)'
    BY <2>2, StaysWritten
  <2> QED
    BY <2>1, <2>3 DEF AcceptedIsComplete, Complete
<1>2. VersionAsWritten'
  BY DEF ParsedAsWritten, VersionAsWritten
<1>3. ColumnSpecsAsWritten'
  <2>1. ColumnsWritten
    BY ColumnsAreWritten DEF ParsedAsWritten
  <2>2. ColumnsWritten'
    BY <2>1, StaysWritten
  <2> QED
    BY <2>2, ColumnsAreWritten, PTL
<1>4. ConditionsAsWritten'
  <2>1. ConditionsWritten
    BY ConditionsAreWritten DEF ParsedAsWritten
  <2>2. ConditionsWritten'
    BY <2>1, StaysWritten
  <2> QED
    BY <2>2, ConditionsAreWritten, PTL
<1>5. NothingReadIsLost'
  <2>1. (\A p : Skipped(p)' <=> Skipped(p)) /\ Mentioned' = Mentioned
    BY StaysWritten
  <2>2. Mentioned \ {Unset, Master} =
           {p \in DOMAIN tokens : tokens[p] \in Literals \cup {"identifier"} /\ ~ Skipped(p)}
    BY DEF ParsedAsWritten, NothingReadIsLost
  <2>3. Mentioned' \ {Unset, Master} =
           {p \in DOMAIN tokens' : tokens'[p] \in Literals \cup {"identifier"} /\ ~ Skipped(p)'}
    BY <2>1, <2>2
  <2> QED
    BY <2>3 DEF NothingReadIsLost
<1> QED
  BY <1>1, <1>2, <1>3, <1>4, <1>5 DEF ParsedAsWritten

\* Every step keeps it.
LEMMA ParseKept ==
    ASSUME ParseInv, [Next]_vars
    PROVE  ParseInv'
<1>1. CASE UNCHANGED vars
  <2>1. /\ state' = state /\ stmt' = stmt /\ tokens' = tokens /\ opType' = opType
        /\ resultType' = resultType /\ ended' = ended
    BY <1>1 DEF vars
  <2>2. VersionsInv => VersionsInv'
    BY <2>1 DEF VersionsInv, LastVersion, VersionRead
  <2>3. ConditionsInv => ConditionsInv'
    BY <2>1 DEF ConditionsInv, Assignment, Condition, ConditionRead, WhereBefore
  <2>4. ColumnsInv => ColumnsInv'
    <3>1. ASSUME NEW r PROVE /\ Sized(r)' <=> Sized(r)
                             /\ Precise(r)' <=> Precise(r)
                             /\ Plain(r)' <=> Plain(r)
      BY <2>1 DEF Sized, Precise, Plain
    <3>2. ASSUME NEW r, NEW k PROVE Behind(r, k)' <=> Behind(r, k)
      BY <3>1 DEF Behind
    <3>3. ASSUME NEW r PROVE ColumnRead(r)' <=> ColumnRead(r)
      BY <2>1, <3>2 DEF ColumnRead
    <3>4. ASSUME NEW r PROVE LastColumn(r)' <=> LastColumn(r)
      BY <2>1, <3>1, <3>2, <3>3 DEF LastColumn
    <3> QED
      BY <2>1, <3>3, <3>4 DEF ColumnsInv
  <2>5. (TypeInv => TypeInv') /\ (PartsInv => PartsInv') /\ (AliasInv => AliasInv')
    BY <2>1 DEF TypeInv, PartsInv, AliasInv
  <2>6. NamesInv => NamesInv'
    BY <2>1 DEF NamesInv
  <2>7. MentionInv => MentionInv'
    <3>1. (\A p : Skipped(p)' <=> Skipped(p)) /\ Mentioned' = Mentioned
      BY <2>1, StaysWritten DEF ParseInv
    <3>2. Pending' = Pending
      BY <2>1 DEF Pending
    <3>3. \A p : Written(p)' <=> Written(p)
      BY <2>1, <3>1 DEF Written
    <3> QED
      BY <3>1, <3>2, <3>3 DEF MentionInv
  <2>8. ParsedAsWritten'
    BY <2>1, AcceptedStays, NotAccepted DEF Accepted, ParseInv
  <2>9. TextInv' /\ (Parsing' <=> Parsing)
    BY <2>1 DEF ParseInv, TextInv, Parsing
  <2> QED
    BY <2>1, <2>2, <2>3, <2>4, <2>5, <2>6, <2>7, <2>8, <2>9 DEF ParseInv
<1>2. ASSUME NEW token \in Tokens, acceptToken(token) PROVE ParseInv'
  <2>1. PICK s : <<state, token, s>> \in Transitions /\ state' = s
    BY <1>2 DEF acceptToken
  <2>2. ParsedAsWritten'
    BY <2>1, NotAccepted, TransitionTargets
  <2>3. stmt' = Collected(token) /\ Parsing /\ ended' = ended
        /\ tokens' = IF ended THEN tokens ELSE Append(tokens, token)
    BY <1>2 DEF acceptToken, Recorded
  <2>4. TextInv'
    <3>1. stmt' \in Statement
      BY <2>3, CollectedTypes DEF ParseInv
    <3>2. tokens' \in Seq(Text)
      BY <2>3, TextGrows DEF ParseInv, Text, TextInv
    <3> QED
      BY <3>1, <3>2 DEF TextInv
  <2>5. ASSUME ~ ended
        PROVE  /\ VersionsInv' /\ ConditionsInv' /\ ColumnsInv' /\ TypeInv' /\ PartsInv'
               /\ AliasInv' /\ NamesInv' /\ MentionInv'
    <3>1. Reads(token)
      BY <2>1, <2>3, <2>5 DEF Reads
    <3>2. /\ TextInv /\ VersionsInv /\ ConditionsInv /\ ColumnsInv /\ TypeInv /\ PartsInv
          /\ AliasInv /\ NamesInv /\ MentionInv
      BY <2>3, <2>5 DEF ParseInv
    <3>3. VersionsInv' /\ ConditionsInv' /\ ColumnsInv'
      BY <3>1, <3>2, VersionsKept, ConditionsKept, ColumnsKept
    <3>4. TypeInv' /\ PartsInv' /\ NamesInv'
      BY <1>2, <3>1, <3>2, TypeKept, PartsKept, NamesKept
    <3>5. AliasInv'
      BY <3>1, <3>2, RelationNamesGrow
    <3>6. MentionInv'
      BY <2>4, <3>1, <3>2, MentionedKept
    <3> QED
      BY <3>3, <3>4, <3>5, <3>6
  <2> QED
    BY <2>2, <2>3, <2>4, <2>5 DEF ParseInv
<1>3. ASSUME NEW token \in Text, state' = "Thrown", Recorded(token), stmt' = stmt PROVE ParseInv'
  <2>1. ParsedAsWritten'
    BY <1>3, NotAccepted
  <2>2. tokens' \in Seq(Text)
    BY <1>3, TextGrows DEF ParseInv, TextInv, Recorded
  <2>3. ~ Parsing'
    BY <1>3 DEF Parsing
  <2> QED
    BY <1>3, <2>1, <2>2, <2>3 DEF ParseInv, TextInv
<1>4. CASE acceptDelimiter
  <2>1. CASE stateIsFinal(state)
    <3>1. Delimits
      BY <1>4, <2>1 DEF acceptDelimiter, Recorded, Delimits
    <3>2. ParsedAsWritten'
      BY <1>4, <3>1, DelimitedAsWritten DEF ParseInv, acceptDelimiter
    <3>3. TextInv'
      BY <3>1, TextGrows DEF ParseInv, TextInv, Delimits, Text
    <3>4. ~ Parsing'
      BY <3>1 DEF Parsing, Delimits
    <3> QED
      BY <3>2, <3>3, <3>4 DEF ParseInv
  <2>2. CASE ~ stateIsFinal(state)
    BY <1>3, <1>4, <2>2 DEF acceptDelimiter, Text
  <2> QED
    BY <2>1, <2>2
<1>5. CASE endOfInput
  <2>1. ParsedAsWritten'
    BY <1>5, NotAccepted DEF endOfInput, Parsing
  <2> QED
    BY <1>5, <2>1 DEF ParseInv, endOfInput, TextInv
<1>6. CASE convertToParserResult
  <2>1. /\ state = "Done" /\ state' = "Converted" /\ resultType' = opType /\ stmt' = stmt
        /\ tokens' = tokens /\ ParsedAsWritten
    BY <1>6 DEF convertToParserResult, ParseInv
  <2>2. ParsedAsWritten'
    BY <2>1, AcceptedStays DEF Accepted, ParseInv
  <2>5. ~ Parsing'
    BY <2>1 DEF Parsing
  <2> QED
    BY <2>1, <2>2, <2>5 DEF ParseInv, TextInv
<1>7. CASE destroyQueryContext
  <2>1. ParsedAsWritten' /\ ~ Parsing'
    BY <1>7, NotAccepted DEF destroyQueryContext, Parsing
  <2> QED
    BY <1>7, <2>1 DEF ParseInv, destroyQueryContext, TextInv
<1>8. ASSUME NEW token \in Tokens, rejectToken(token) PROVE ParseInv'
  BY <1>3, <1>8 DEF rejectToken, Text
<1>9. "string" \in Tokens
  BY DEF Tokens, Literals
<1> QED
  BY <1>1, <1>2, <1>4, <1>5, <1>6, <1>7, <1>8, <1>9 DEF Next, parseToken

\* Whatever is accepted and handed to the analysers is complete and is what was
\* written: versions, conditions, columns, every name and every literal
\* (parseToken, convertToParserResult), for statements of any length.
THEOREM ParsedStatementIsAsWritten == Spec => []ParsedAsWritten
<1>1. ParseInv => ParsedAsWritten
  BY DEF ParseInv
<1> QED
  BY <1>1, ParseInit, ParseKept, PTL DEF Spec

------------------------------------------------------------------------------
(* Relations *)

Cols(i) == columnNames[fromClause[i].name]
ColumnsOf(i) == ToSet(Cols(i))
Names == {goesBy(i) : i \in DOMAIN fromClause}

\* construct_scans gives every relation an alias, and addVertex takes it away.
Alias(i) == IF phase = "selects" THEN goesBy(i)
            ELSE IF phase \in {"joins", "done"} THEN "" ELSE fromClause[i].alias

AnyRelation == [name : Tables \cup Bindings, alias : Tables \cup Bindings \cup {""},
                version : Versions]

RelationsInv ==
    /\ phase \in {"relations", "columns", "refused", "selects", "joins", "done"}
    /\ columnNames \in [Tables -> ColumnLists]
    /\ fromClause \in Seq(FromTable)
    /\ relations \in Seq(AnyRelation)
    /\ Len(relations) = Len(fromClause)
    /\ \A i \in 1 .. Len(fromClause) :
          /\ relations[i].name = fromClause[i].name
          /\ relations[i].alias = Alias(i)
          /\ relations[i].version = fromClause[i].version
    /\ phase # "refused" => \A i \in 1 .. Len(fromClause) : fromClause[i].name \in Tables

\* No column of a later relation that set_intersection finds in the sorted
\* columns belongs to an earlier one without alias.
Apart ==
    \A i, j \in 1 .. Len(fromClause) : j < i /\ Unaliased(j) =>
        \A k \in DOMAIN Cols(i) : Cols(i)[k] \in ColumnsOf(j) =>
            \E l \in 1 .. k - 1 : ~ (Cols(i)[l] < Cols(i)[k])

\* What verify has collected is of the relations it has accepted.
VerifyInv ==
    phase # "refused" =>
        /\ \A c : c \in unbindedColumns <=>
              \E j \in 1 .. Len(fromClause) : Unaliased(j) /\ c \in ColumnsOf(j)
        /\ \A b \in DOMAIN bindedColumns : \E j \in 1 .. Len(fromClause) :
              ~ Unaliased(j) /\ b = fromClause[j].alias /\ bindedColumns[b] = ColumnsOf(j)
        /\ Apart

\* A relation is added to the end of the FROM clause.
LEMMA RelationAdded ==
    ASSUME RelationsInv, NEW relation \in FromTable, verify_relation(relation)
    PROVE  /\ fromClause' \in Seq(FromTable) /\ Len(fromClause') = Len(fromClause) + 1
           /\ \A i \in 1 .. Len(fromClause) : fromClause'[i] = fromClause[i]
           /\ fromClause'[Len(fromClause) + 1] = relation
           /\ relations' \in Seq(AnyRelation) /\ Len(relations') = Len(fromClause) + 1
           /\ \A i \in 1 .. Len(fromClause) : relations'[i] = relations[i]
           /\ relations'[Len(fromClause) + 1] = relation
           /\ UNCHANGED columnNames
<1>1. relation \in AnyRelation
  BY DEF FromTable, AnyRelation
<1>2. /\ relations' = Append(relations, relation) /\ fromClause' = Append(fromClause, relation)
      /\ UNCHANGED columnNames
  BY DEF verify_relation
<1>3. /\ fromClause' \in Seq(FromTable) /\ Len(fromClause') = Len(fromClause) + 1
      /\ \A i \in 1 .. Len(fromClause) : fromClause'[i] = fromClause[i]
      /\ fromClause'[Len(fromClause) + 1] = relation
  BY <1>2 DEF RelationsInv
<1>4. /\ relations' \in Seq(AnyRelation) /\ Len(relations') = Len(relations) + 1
      /\ \A i \in 1 .. Len(relations) : relations'[i] = relations[i]
      /\ relations'[Len(relations) + 1] = relation
  BY <1>1, <1>2 DEF RelationsInv
<1> QED
  BY <1>2, <1>3, <1>4 DEF RelationsInv

\* verify reads one more relation.
LEMMA VerifyRelation ==
    ASSUME RelationsInv, VerifyInv, NEW relation \in FromTable, verify_relation(relation)
    PROVE  RelationsInv' /\ VerifyInv'
<1>1. PICK n \in Nat : n = Len(fromClause)
  BY DEF RelationsInv
<1>2. /\ fromClause' \in Seq(FromTable) /\ Len(fromClause') = n + 1
      /\ \A i \in 1 .. n : fromClause'[i] = fromClause[i]
      /\ fromClause'[n + 1] = relation
      /\ relations' \in Seq(AnyRelation) /\ Len(relations') = n + 1
      /\ \A i \in 1 .. n : relations'[i] = relations[i]
      /\ relations'[n + 1] = relation
      /\ UNCHANGED columnNames
  BY <1>1, RelationAdded
<1>3. phase = "relations" /\ phase' \in {"relations", "refused"}
      /\ (phase' # "refused" => ~ relationRefused(relation))
  BY DEF verify_relation
<1>4. RelationsInv'
  <2>1. ASSUME NEW i \in 1 .. n + 1
        PROVE  /\ relations'[i].name = fromClause'[i].name
               /\ relations'[i].alias = Alias(i)'
               /\ relations'[i].version = fromClause'[i].version
    <3>1. Alias(i)' = fromClause'[i].alias
      BY <1>3 DEF Alias
    <3>2. CASE i \in 1 .. n
      BY <1>1, <1>2, <1>3, <3>1, <3>2 DEF RelationsInv, Alias
    <3>3. CASE i = n + 1
      BY <1>2, <3>1, <3>3
    <3> QED
      BY <3>2, <3>3
  <2>2. ASSUME phase' # "refused", NEW i \in 1 .. n + 1 PROVE fromClause'[i].name \in Tables
    <3>1. relation.name \in Tables
      BY <1>3, <2>2 DEF relationRefused
    <3> QED
      BY <1>1, <1>2, <1>3, <3>1 DEF RelationsInv
  <2> QED
    BY <1>2, <1>3, <2>1, <2>2 DEF RelationsInv
<1>5. VerifyInv'
  <2> SUFFICES ASSUME phase' # "refused" PROVE VerifyInv'
    BY DEF VerifyInv
  <2>1. /\ relation.name \in Tables
        /\ set_intersection(unbindedColumns, columnNames[relation.name]) = {}
        /\ ~ (relation.alias # "" /\ relation.alias \in DOMAIN bindedColumns)
    BY <1>3 DEF relationRefused
  <2>2. PICK names : names = ToSet(columnNames[relation.name])
    OBVIOUS
  <2>3. ASSUME NEW i \in 1 .. n
        PROVE  /\ Unaliased(i)' <=> Unaliased(i)
               /\ fromClause'[i] = fromClause[i]
               /\ ColumnsOf(i)' = ColumnsOf(i) /\ Cols(i)' = Cols(i)
    BY <1>2 DEF Unaliased, ColumnsOf, Cols
  <2>4. /\ Unaliased(n + 1)' <=> relation.alias = ""
        /\ ColumnsOf(n + 1)' = names /\ Cols(n + 1)' = columnNames[relation.name]
    BY <1>2, <2>2 DEF Unaliased, ColumnsOf, Cols
  <2>5. \A j \in 1 .. n + 1 : j \in 1 .. n \/ j = n + 1
    OBVIOUS
  <2>6. 1 .. n \subseteq 1 .. n + 1 /\ n + 1 \in 1 .. n + 1
    OBVIOUS
  <2>7. IF relation.alias = ""
        THEN unbindedColumns' = unbindedColumns \cup names /\ UNCHANGED bindedColumns
        ELSE /\ bindedColumns' = [name \in DOMAIN bindedColumns \cup {relation.alias} |->
                                    IF name = relation.alias THEN names ELSE bindedColumns[name]]
             /\ UNCHANGED unbindedColumns
    BY <1>3, <2>2 DEF verify_relation, isUnbinded
  <2>8. ASSUME NEW c
        PROVE  c \in unbindedColumns' <=>
                  \E j \in 1 .. n + 1 : Unaliased(j)' /\ c \in ColumnsOf(j)'
    <3>1. c \in unbindedColumns <=> \E j \in 1 .. n : Unaliased(j) /\ c \in ColumnsOf(j)
      BY <1>1, <1>3 DEF VerifyInv
    <3>2. c \in unbindedColumns' <=> c \in unbindedColumns \/ (relation.alias = "" /\ c \in names)
      BY <2>7
    <3> QED
      BY <2>3, <2>4, <2>5, <2>6, <3>1, <3>2
  <2>9. ASSUME NEW b \in DOMAIN bindedColumns'
        PROVE  \E j \in 1 .. n + 1 :
                  ~ Unaliased(j)' /\ b = fromClause'[j].alias /\ bindedColumns'[b] = ColumnsOf(j)'
    <3>1. CASE relation.alias # "" /\ b = relation.alias
      BY <1>2, <2>4, <2>6, <2>7, <3>1
    <3>2. CASE b \in DOMAIN bindedColumns /\ bindedColumns'[b] = bindedColumns[b]
      <4>1. PICK j \in 1 .. n : ~ Unaliased(j) /\ b = fromClause[j].alias
                                /\ bindedColumns[b] = ColumnsOf(j)
        BY <1>1, <1>3, <3>2 DEF VerifyInv
      <4> QED
        BY <2>3, <2>6, <3>2, <4>1
    <3>3. CASE relation.alias = ""
      BY <2>7, <3>2, <3>3
    <3>4. CASE relation.alias # "" /\ b # relation.alias
      <4>1. b \in DOMAIN bindedColumns \cup {relation.alias}
        BY <2>7, <3>4
      <4>2. b \in DOMAIN bindedColumns /\ bindedColumns'[b] = bindedColumns[b]
        BY <2>7, <3>4, <4>1
      <4> QED
        BY <3>2, <4>2
    <3> QED
      BY <3>1, <3>3, <3>4
  <2>10. ASSUME NEW i \in 1 .. n + 1, NEW j \in 1 .. n + 1, j < i, Unaliased(j)',
                NEW k \in DOMAIN Cols(i)', Cols(i)'[k] \in ColumnsOf(j)'
         PROVE  \E l \in 1 .. k - 1 : ~ (Cols(i)'[l] < Cols(i)'[k])
    <3>1. j \in 1 .. n /\ Unaliased(j) /\ ColumnsOf(j)' = ColumnsOf(j)
      BY <2>3, <2>10
    <3>2. CASE i \in 1 .. n
      BY <1>1, <1>3, <2>3, <2>10, <3>1, <3>2 DEF VerifyInv, Apart
    <3>3. CASE i = n + 1
      <4>1. PICK list : list = columnNames[relation.name]
        OBVIOUS
      <4>2. Cols(i)' = list
        BY <2>4, <3>3, <4>1
      <4>3. k \in DOMAIN list /\ list[k] \in unbindedColumns
        BY <1>1, <1>3, <2>10, <3>1, <4>2 DEF VerifyInv
      <4>4. ~ \A l \in 1 .. k - 1 : list[l] < list[k]
        BY <2>1, <4>1, <4>3 DEF set_intersection
      <4> QED
        BY <4>2, <4>4
    <3> QED
      BY <2>5, <3>2, <3>3
  <2>11. Apart'
    BY <1>2, <2>10 DEF Apart
  <2> QED
    BY <1>2, <2>8, <2>9, <2>11 DEF VerifyInv
<1> QED
  BY <1>4, <1>5

------------------------------------------------------------------------------
(* Information units *)

\* A set of positions has a greatest and a least element.
LEMMA MaxMin ==
    ASSUME NEW n \in Nat, NEW S \in SUBSET (1 .. n), S # {}
    PROVE  Max(S) \in S /\ Min(S) \in S
<1>1. PICK k : k \in S
  OBVIOUS
<1>2. \E m \in S : \A y \in S : m >= y
  <2> DEFINE D == {d \in 0 .. n : n - d \in S}
  <2>1. D \in SUBSET Nat /\ n - k \in D
    BY <1>1
  <2>2. PICK d \in D : \A e \in D : d <= e
    <3> HIDE DEF D
    <3> QED
      BY <2>1, LeastNumber
  <2>3. ASSUME NEW y \in S PROVE n - d >= y
    <3>1. n - y \in D
      OBVIOUS
    <3> QED
      BY <2>2, <3>1
  <2> QED
    BY <2>3
<1>3. \E m \in S : \A y \in S : m =< y
  <2>1. S \in SUBSET Nat
    OBVIOUS
  <2> QED
    BY <1>1, <2>1, LeastNumber
<1> QED
  BY <1>2, <1>3 DEF Max, Min

\* A traversal of a finite set comes to all of its elements.
LEMMA OrdersCover ==
    ASSUME NEW S, IsFiniteSet(S), NEW order \in Orders(S)
    PROVE  order \in Seq(S) /\ \A x \in S : \E k \in DOMAIN order : order[k] = x
<1>1. PICK n \in Nat : n = Cardinality(S)
  BY FS_CardinalityType
<1>2. order \in [1 .. n -> S] /\ IsInjective(order)
  BY <1>1 DEF Orders
<1>3. order \in Injection(1 .. n, S)
  BY <1>2 DEF Injection
<1>4. Cardinality(1 .. n) = n
  BY FS_Interval
<1>5. order \in Surjection(1 .. n, S)
  BY <1>1, <1>3, <1>4, FS_Injection
<1> QED
  BY <1>2, <1>5 DEF Surjection

\* The relations a name stands for.
Scanned(name) == {i \in 1 .. Len(fromClause) : goesBy(i) = name}
ScannedWith(name, c) == {i \in Scanned(name) : c \in ColumnsOf(i)}
Units(name, c) == {<<i, c>> : i \in ScannedWith(name, c)}

\* Every name has the columns of its relations, each produced by one of them
\* that has it, and the traversal comes to every name.
IusInv ==
    Constructed =>
        /\ DOMAIN ius = Names
        /\ \A name \in Names :
              /\ DOMAIN ius[name] = UNION {ColumnsOf(i) : i \in Scanned(name)}
              /\ \A c \in DOMAIN ius[name] : ius[name][c] \in Units(name, c)
        /\ iuOrder \in Seq(Names)
        /\ \A name \in Names : \E k \in DOMAIN iuOrder : iuOrder[k] = name

\* The production of a name is the scan of one of its relations, in the
\* branch of that relation; what is selected on it is produced by one of them.
ProductionsOf(p) ==
    /\ DOMAIN p = Names
    /\ \A name \in Names :
          /\ p[name] = [scan |-> p[name].scan, branch |-> p[name].branch,
                        selects |-> p[name].selects]
          /\ p[name].scan \in Scanned(name)
          /\ p[name].branch = fromClause[p[name].scan].version
          /\ p[name].selects \in Seq(Scanned(name) \X Columns)

ProductionsInv ==
    /\ phase = "selects" => ProductionsOf(productions)
    /\ phase \in {"joins", "done"} => ProductionsOf(vertices)
    /\ phase \notin {"joins", "done"} => vertices = NoFunction

\* The tables that were accepted have columns.
LEMMA ColumnsAreColumns ==
    ASSUME RelationsInv, phase # "refused", NEW i \in 1 .. Len(fromClause)
    PROVE  ColumnsOf(i) \subseteq Columns /\ Cols(i) \in ColumnLists
<1>1. fromClause[i].name \in Tables
  BY DEF RelationsInv
<1>2. Cols(i) \in ColumnLists
  BY <1>1 DEF RelationsInv, Cols
<1>3. PICK m \in 1 .. MaxColumns : Cols(i) \in [1 .. m -> Columns]
  BY <1>2 DEF ColumnLists
<1> QED
  BY <1>2, <1>3 DEF ColumnsOf, ToSet

\* construct_scans makes the scans of the relations.
LEMMA ConstructScans ==
    ASSUME RelationsInv, ProductionsInv, construct_scans
    PROVE  RelationsInv' /\ IusInv' /\ ProductionsInv'
<1>1. PICK n \in Nat : /\ n = Len(fromClause) /\ DOMAIN fromClause = 1 .. n
                       /\ DOMAIN relations = 1 .. n
  BY DEF RelationsInv
<1>2. /\ phase \in {"relations", "columns"} /\ phase' = "selects"
      /\ UNCHANGED <<columnNames, fromClause, vertices>>
  BY DEF construct_scans, verified
<1>3. PICK names : names = [i \in 1 .. n |-> goesBy(i)]
  OBVIOUS
<1>4. names = [i \in DOMAIN relations |-> productionName(relations[i])]
  <2>1. ASSUME NEW i \in 1 .. n PROVE productionName(relations[i]) = goesBy(i)
    BY <1>1, <1>2 DEF RelationsInv, Alias, productionName, goesBy, Unaliased
  <2> QED
    BY <1>1, <1>3, <2>1
<1>5. ToSet(names) = Names /\ \A name : ScannedAs(name, names) = Scanned(name)
  BY <1>1, <1>3 DEF ToSet, Names, ScannedAs, Scanned
<1>6. \A i \in 1 .. n : ToSet(columnNames[relations[i].name]) = ColumnsOf(i)
  BY <1>1 DEF RelationsInv, ColumnsOf, Cols
<1>7. /\ relations' = [i \in 1 .. n |-> [relations[i] EXCEPT !.alias = names[i]]]
      /\ ius' = [name \in Names |->
                   [c \in UNION {ToSet(columnNames[relations[i].name]) : i \in Scanned(name)} |->
                       <<Max({i \in Scanned(name) : c \in ToSet(columnNames[relations[i].name])}), c>>]]
      /\ productions' = [name \in Names |->
                           [scan |-> Min(Scanned(name)),
                            branch |-> relations[Min(Scanned(name))].version,
                            selects |-> <<>>]]
      /\ iuOrder' \in Orders(Names)
  BY <1>1, <1>4, <1>5 DEF construct_scans
<1>8. /\ Names' = Names /\ \A i : goesBy(i)' = goesBy(i) /\ ColumnsOf(i)' = ColumnsOf(i)
      /\ \A name : Scanned(name)' = Scanned(name)
      /\ \A name, c : Units(name, c)' = Units(name, c)
  BY <1>2 DEF Names, Scanned, ScannedWith, Units, ColumnsOf, Cols, goesBy, Unaliased
<1>9. \A name \in Names : Scanned(name) # {} /\ Scanned(name) \subseteq 1 .. n
  BY <1>1 DEF Names, Scanned
<1>10. RelationsInv'
  <2>1. ASSUME NEW i \in 1 .. n
        PROVE  /\ relations'[i] \in AnyRelation
               /\ relations'[i].name = fromClause[i].name
               /\ relations'[i].alias = goesBy(i)
               /\ relations'[i].version = fromClause[i].version
    <3>1. relations[i] \in AnyRelation /\ fromClause[i] \in FromTable
      BY <1>1 DEF RelationsInv
    <3>2. goesBy(i) \in Tables \cup Bindings \cup {""}
      BY <3>1 DEF goesBy, Unaliased, FromTable
    <3>3. relations'[i] = [relations[i] EXCEPT !.alias = goesBy(i)]
      BY <1>3, <1>7
    <3> QED
      BY <1>1, <3>1, <3>2, <3>3 DEF RelationsInv, AnyRelation
  <2>2. relations' \in Seq(AnyRelation) /\ Len(relations') = n
    <3>1. relations' \in [1 .. n -> AnyRelation]
      BY <1>7, <2>1
    <3> QED
      BY <3>1
  <2>3. \A i \in 1 .. n : Alias(i)' = goesBy(i)
    BY <1>2, <1>8 DEF Alias
  <2> QED
    BY <1>1, <1>2, <2>1, <2>2, <2>3 DEF RelationsInv
<1>11. IusInv'
  <2>1. IsFiniteSet(Names)
    <3>1. names \in Surjection(1 .. n, Names)
      BY <1>3, <1>5 DEF Surjection, ToSet
    <3> QED
      BY <3>1, FS_Interval, FS_Surjection
  <2>2. iuOrder' \in Seq(Names) /\ \A name \in Names : \E k \in DOMAIN iuOrder' : iuOrder'[k] = name
    BY <1>7, <2>1, OrdersCover
  <2>3. ASSUME NEW name \in Names
        PROVE  /\ DOMAIN ius'[name] = UNION {ColumnsOf(i) : i \in Scanned(name)}
               /\ \A c \in DOMAIN ius'[name] : ius'[name][c] \in Units(name, c)
    <3>1. {ToSet(columnNames[relations[i].name]) : i \in Scanned(name)}
             = {ColumnsOf(i) : i \in Scanned(name)}
      BY <1>6, <1>9
    <3>2. DOMAIN ius'[name] = UNION {ColumnsOf(i) : i \in Scanned(name)}
      BY <1>7, <3>1
    <3>3. ASSUME NEW c \in DOMAIN ius'[name] PROVE ius'[name][c] \in Units(name, c)
      <4>1. ScannedWith(name, c) = {i \in Scanned(name) : c \in ToSet(columnNames[relations[i].name])}
        BY <1>6, <1>9 DEF ScannedWith
      <4>2. ius'[name][c] = <<Max(ScannedWith(name, c)), c>>
        BY <1>7, <3>1, <3>2, <4>1
      <4>3. ScannedWith(name, c) \in SUBSET (1 .. n) /\ ScannedWith(name, c) # {}
        BY <1>9, <3>2 DEF ScannedWith
      <4>4. Max(ScannedWith(name, c)) \in ScannedWith(name, c)
        BY <4>3, MaxMin
      <4> QED
        BY <4>2, <4>4 DEF Units
    <3> QED
      BY <3>2, <3>3
  <2>4. DOMAIN ius' = Names
    BY <1>7
  <2>5. \A name : {ColumnsOf(i)' : i \in Scanned(name)'} = {ColumnsOf(i) : i \in Scanned(name)}
    BY <1>8
  <2> QED
    BY <1>8, <2>2, <2>3, <2>4, <2>5 DEF IusInv
<1>12. ProductionsInv'
  <2>1. ASSUME NEW name \in Names, NEW p, p = productions'[name]
        PROVE  /\ p = [scan |-> p.scan, branch |-> p.branch, selects |-> p.selects]
               /\ p.scan \in Scanned(name)
               /\ p.branch = fromClause[p.scan].version
               /\ p.selects \in Seq(Scanned(name) \X Columns)
    <3>1. Min(Scanned(name)) \in Scanned(name)
      BY <1>9, MaxMin
    <3>2. p = [scan |-> Min(Scanned(name)), branch |-> relations[Min(Scanned(name))].version,
               selects |-> <<>>]
      BY <1>7, <2>1
    <3>3. relations[Min(Scanned(name))].version = fromClause[Min(Scanned(name))].version
      BY <1>1, <1>9, <3>1 DEF RelationsInv
    <3> QED
      BY <3>1, <3>2, <3>3
  <2>2. vertices' = NoFunction
    BY <1>2 DEF ProductionsInv
  <2>3. DOMAIN productions' = Names
    BY <1>7
  <2>4. ProductionsOf(productions)'
    BY <1>2, <1>8, <2>1, <2>3 DEF ProductionsOf
  <2> QED
    BY <1>2, <2>2, <2>4 DEF ProductionsInv
<1> QED
  BY <1>10, <1>11, <1>12

------------------------------------------------------------------------------
(* References *)

AnyReference == [kind : {"selection", "projection", "join"},
                 table : Tables \cup Bindings \cup {""}, name : Columns,
                 iu : Int \X Int, written : Bindings \cup {""}]

\* verify has found a relation for a column.
Known(r) ==
    IF r.written = ""
    THEN \E j \in 1 .. Len(fromClause) : Unaliased(j) /\ r.name \in ColumnsOf(j)
    ELSE \E j \in 1 .. Len(fromClause) :
            /\ ~ Unaliased(j) /\ fromClause[j].alias = r.written
            /\ r.name \in ColumnsOf(j)

\* Its information unit is of a relation that has it and that goes by the
\* name it was written with.
Found(r) ==
    \E j \in 1 .. Len(fromClause) :
        /\ r.iu = <<j, r.name>> /\ r.name \in ColumnsOf(j)
        /\ r.written # "" => goesBy(j) = r.written

ReferencesInv ==
    /\ references \in Seq(AnyReference)
    /\ phase = "relations" => references = <<>>
    /\ phase # "refused" => \A i \in 1 .. Len(references) : Known(references[i])
    /\ \A i \in 1 .. Len(references) :
          /\ references[i].iu = Unresolved => references[i].table = references[i].written
          /\ references[i].iu # Unresolved => Constructed /\ Found(references[i])
    /\ phase \in {"joins", "done"} => Waiting("selection") = {}
    /\ phase = "done" => Waiting("join") = {} /\ Waiting("projection") = {}

\* A column that a name has is looked up in a relation of that name.
LEMMA LookUp ==
    ASSUME IusInv, Constructed, NEW name \in Names, NEW c \in DOMAIN ius[name]
    PROVE  /\ lookUp(name, c) = ius[name][c]
           /\ ius[name][c] \in Units(name, c)
BY DEF IusInv, lookUp

\* Some name in the traversal has every column that verify has accepted.
LEMMA KnownHasPlace ==
    ASSUME RelationsInv, IusInv, Constructed, NEW r \in AnyReference, Known(r)
    PROVE  /\ r.written = "" =>
                 /\ PlacesWith(r.name) # {}
                 /\ \E n \in Nat : PlacesWith(r.name) \in SUBSET (1 .. n)
                 /\ \A k \in PlacesWith(r.name) :
                       iuOrder[k] \in Names /\ r.name \in DOMAIN ius[iuOrder[k]]
           /\ r.written # "" => r.written \in Names /\ r.name \in DOMAIN ius[r.written]
<1>1. \A j \in 1 .. Len(fromClause) : goesBy(j) \in Names /\ j \in Scanned(goesBy(j))
  BY DEF RelationsInv, Names, Scanned
<1>2. ASSUME NEW j \in 1 .. Len(fromClause), r.name \in ColumnsOf(j)
      PROVE  r.name \in DOMAIN ius[goesBy(j)]
  BY <1>1, <1>2 DEF IusInv
<1>3. CASE r.written = ""
  <2>1. PICK j \in 1 .. Len(fromClause) : r.name \in ColumnsOf(j)
    BY <1>3 DEF Known
  <2>2. PICK n \in Nat : DOMAIN iuOrder = 1 .. n /\ \A k \in 1 .. n : iuOrder[k] \in Names
    BY DEF IusInv
  <2>3. PICK k \in DOMAIN iuOrder : iuOrder[k] = goesBy(j)
    BY <1>1 DEF IusInv
  <2> QED
    BY <1>2, <1>3, <2>1, <2>2, <2>3 DEF PlacesWith
<1>4. CASE r.written # ""
  <2>1. PICK j \in 1 .. Len(fromClause) : goesBy(j) = r.written /\ r.name \in ColumnsOf(j)
    BY <1>4 DEF Known, goesBy
  <2> QED
    BY <1>1, <1>2, <1>4, <2>1
<1> QED
  BY <1>3, <1>4

\* The table of a column that is still looked for has it.
LEMMA TableHasColumn ==
    ASSUME RelationsInv, IusInv, Constructed,
           NEW r \in AnyReference, Known(r), r.table = r.written
    PROVE  /\ TableOf(r) \in Names /\ r.name \in DOMAIN ius[TableOf(r)]
           /\ r.written # "" => TableOf(r) = r.written
<1>1. CASE r.written = ""
  <2>1. Max(PlacesWith(r.name)) \in PlacesWith(r.name) /\ PlacesWith(r.name) # {}
    BY <1>1, KnownHasPlace, MaxMin
  <2>2. TableOf(r) = iuOrder[Max(PlacesWith(r.name))]
    BY <1>1, <2>1 DEF TableOf, lastTable
  <2> QED
    BY <1>1, <2>1, <2>2, KnownHasPlace
<1>2. CASE r.written # ""
  BY <1>2, KnownHasPlace DEF TableOf
<1> QED
  BY <1>1, <1>2

\* A column of the projection is found as well.
LEMMA ProjectionFound ==
    ASSUME RelationsInv, IusInv, Constructed,
           NEW r \in AnyReference, Known(r), r.table = r.written,
           NEW iu, iu = IF r.table = "" THEN getUniqueColumnIU(r.name) ELSE lookUp(r.table, r.name)
    PROVE  \E name \in Names : /\ iu \in Units(name, r.name)
                               /\ r.written # "" => name = r.written
<1>1. CASE r.written = ""
  <2>1. Min(PlacesWith(r.name)) \in PlacesWith(r.name) /\ PlacesWith(r.name) # {}
    BY <1>1, KnownHasPlace, MaxMin
  <2>2. PICK name : name = iuOrder[Min(PlacesWith(r.name))]
    OBVIOUS
  <2>3. name \in Names /\ r.name \in DOMAIN ius[name]
    BY <1>1, <2>1, <2>2, KnownHasPlace
  <2>4. iu = ius[name][r.name]
    BY <1>1, <2>1, <2>2 DEF getUniqueColumnIU
  <2> QED
    BY <1>1, <2>3, <2>4, LookUp
<1>2. CASE r.written # ""
  <2>1. PICK name : name = r.written
    OBVIOUS
  <2>2. name \in Names /\ r.name \in DOMAIN ius[name]
    BY <1>2, <2>1, KnownHasPlace
  <2>3. iu = lookUp(name, r.name)
    BY <1>2, <2>1
  <2>4. iu \in Units(name, r.name)
    <3>1. lookUp(name, r.name) = ius[name][r.name] /\ ius[name][r.name] \in Units(name, r.name)
      BY <2>2, LookUp, Zenon
    <3> QED
      BY <2>3, <3>1, Zenon
  <2> QED
    BY <2>1, <2>2, <2>4
<1> QED
  BY <1>1, <1>2

\* An information unit of a relation with the right name is what is meant.
LEMMA ScannedIsFound ==
    ASSUME RelationsInv, NEW name \in Names, NEW r,
           r.iu \in Units(name, r.name), r.written # "" => name = r.written
    PROVE  Found(r)
<1>1. PICK j \in ScannedWith(name, r.name) : r.iu = <<j, r.name>>
  BY DEF Units
<1> QED
  BY <1>1 DEF ScannedWith, Scanned, Found

------------------------------------------------------------------------------
(* Steps *)

\* SELECT * has the columns of the relations without alias.
StarInv ==
    Done /\ Projections = {} =>
        \A i \in 1 .. Len(fromClause) : Unaliased(i) =>
            \A c \in ColumnsOf(i) : ius[goesBy(i)][c] \in projectedIUs

SelectInv ==
    /\ RelationsInv /\ VerifyInv /\ IusInv
    /\ ProductionsInv /\ ReferencesInv /\ StarInv

\* What depends on the FROM clause and on the columns of the tables only.
LEMMA ClauseKept ==
    ASSUME UNCHANGED <<columnNames, fromClause>>
    PROVE  /\ Names' = Names
           /\ \A i : /\ goesBy(i)' = goesBy(i) /\ Cols(i)' = Cols(i)
                     /\ ColumnsOf(i)' = ColumnsOf(i) /\ (Unaliased(i)' <=> Unaliased(i))
           /\ \A name : Scanned(name)' = Scanned(name)
           /\ \A name, c : Units(name, c)' = Units(name, c)
<1>1. \A i : /\ goesBy(i)' = goesBy(i) /\ Cols(i)' = Cols(i)
             /\ ColumnsOf(i)' = ColumnsOf(i) /\ (Unaliased(i)' <=> Unaliased(i))
  BY DEF goesBy, Unaliased, Cols, ColumnsOf
<1> QED
  BY <1>1 DEF Names, Scanned, ScannedWith, Units

\* So does what verify and the look-ups have found.
LEMMA FoundKept ==
    ASSUME UNCHANGED <<columnNames, fromClause>>, NEW r
    PROVE  (Known(r)' <=> Known(r)) /\ (Found(r)' <=> Found(r))
BY ClauseKept DEF Known, Found

SamePart(phase1, phase2) ==
    /\ phase2 \in {"relations", "columns", "refused", "selects", "joins", "done"}
    /\ phase1 = "selects" <=> phase2 = "selects"
    /\ phase1 \in {"joins", "done"} <=> phase2 \in {"joins", "done"}
    /\ phase1 = "refused" => phase2 = "refused"

\* What verify has collected stays true of the same relations.
LEMMA VerifyKept ==
    ASSUME VerifyInv, phase' # "refused" => phase # "refused",
           UNCHANGED <<columnNames, unbindedColumns, bindedColumns, fromClause>>
    PROVE  VerifyInv'
<1>1. Apart' <=> Apart
  BY ClauseKept DEF Apart
<1> QED
  BY <1>1, ClauseKept DEF VerifyInv

\* So do the information units.
LEMMA IusKept ==
    ASSUME IusInv, Constructed' => Constructed,
           UNCHANGED <<columnNames, fromClause, ius, iuOrder>>
    PROVE  IusInv'
<1>1. \A name : {ColumnsOf(i)' : i \in Scanned(name)'} = {ColumnsOf(i) : i \in Scanned(name)}
  BY ClauseKept
<1> QED
  BY <1>1, ClauseKept DEF IusInv

\* The relations, the information units and the productions are left alone
\* by a step that changes none of them.
LEMMA RelationsKept ==
    ASSUME RelationsInv, VerifyInv, IusInv, SamePart(phase, phase'),
           UNCHANGED <<verified, fromClause, relations, ius, iuOrder>>
    PROVE  RelationsInv' /\ VerifyInv' /\ IusInv'
<1>1. UNCHANGED <<columnNames, unbindedColumns, bindedColumns>>
  BY DEF verified
<1>2. RelationsInv'
  <2>1. \A i : Alias(i)' = Alias(i)
    BY <1>1, ClauseKept DEF Alias, SamePart
  <2> QED
    BY <1>1, <2>1 DEF RelationsInv, SamePart
<1>3. VerifyInv'
  BY <1>1, VerifyKept DEF SamePart
<1>4. IusInv'
  BY <1>1, IusKept DEF Constructed, SamePart
<1> QED
  BY <1>2, <1>3, <1>4

\* The same for the productions and the vertices.
LEMMA ProductionsKept ==
    ASSUME ProductionsInv, SamePart(phase, phase'),
           UNCHANGED <<columnNames, fromClause, productions, vertices>>
    PROVE  ProductionsInv'
<1>1. /\ ProductionsOf(productions)' <=> ProductionsOf(productions)
      /\ ProductionsOf(vertices)' <=> ProductionsOf(vertices)
  BY ClauseKept DEF ProductionsOf
<1> QED
  BY <1>1 DEF ProductionsInv, SamePart

\* A column is looked up, one after the other.
LEMMA ReferenceResolved ==
    ASSUME RelationsInv, ReferencesInv, phase \in {"selects", "joins"},
           UNCHANGED <<columnNames, fromClause, phase>>,
           NEW i \in 1 .. Len(references), NEW r \in AnyReference, Found(r),
           r.kind = references[i].kind, r.name = references[i].name,
           r.written = references[i].written,
           references' = [references EXCEPT ![i] = r]
    PROVE  ReferencesInv'
<1>1. PICK n \in Nat : n = Len(references) /\ DOMAIN references = 1 .. n
  BY DEF ReferencesInv
<1>2. /\ references' \in Seq(AnyReference) /\ Len(references') = n
      /\ references'[i] = r /\ \A k \in 1 .. n : k # i => references'[k] = references[k]
  BY <1>1 DEF ReferencesInv
<1>3. r.iu # Unresolved
  <2>1. PICK j \in 1 .. Len(fromClause) : r.iu = <<j, r.name>>
    BY DEF Found
  <2>2. r.iu[1] = j /\ Unresolved[1] = -1 /\ j # -1
    BY <2>1 DEF Unresolved, RelationsInv
  <2> QED
    BY <2>2
<1>4. ASSUME NEW k \in 1 .. n
      PROVE  /\ Known(references[k])'
             /\ references'[k].iu = Unresolved => references'[k].table = references'[k].written
             /\ references'[k].iu # Unresolved => Constructed' /\ Found(references[k])'
  <2>1. CASE k = i
    <3>1. Known(references[i])
      BY DEF ReferencesInv
    <3>2. Known(r)
      BY <3>1 DEF Known
    <3>3. Known(r)' /\ Found(r)'
      BY <3>2, FoundKept
    <3>4. Constructed'
      BY DEF Constructed
    <3> QED
      BY <1>2, <1>3, <2>1, <3>3, <3>4 DEF Known, Found
  <2>2. CASE k # i
    <3>1. references'[k] = references[k]
      BY <1>2, <2>2
    <3>2. PICK q : q = references[k]
      OBVIOUS
    <3>3. Known(q) /\ (q.iu = Unresolved => q.table = q.written)
          /\ (q.iu # Unresolved => Constructed /\ Found(q))
      BY <1>1, <3>2 DEF ReferencesInv
    <3>4. Known(q)' /\ (q.iu # Unresolved => Constructed' /\ Found(q)')
      BY <3>3, FoundKept DEF Constructed
    <3> QED
      BY <3>1, <3>2, <3>3, <3>4 DEF Known, Found
  <2> QED
    BY <2>1, <2>2
<1>5. \A kind : Waiting(kind)' \subseteq Waiting(kind)
  BY <1>1, <1>2, <1>3 DEF Waiting
<1> QED
  BY <1>2, <1>4, <1>5 DEF ReferencesInv

\* Steps that look up no column.
LEMMA ReferencesKept ==
    ASSUME ReferencesInv, UNCHANGED <<columnNames, fromClause, references>>,
           phase' # "relations", phase' # "refused" => phase # "refused",
           Constructed => Constructed',
           phase' \in {"joins", "done"} => Waiting("selection") = {},
           phase' = "done" => Waiting("join") = {} /\ Waiting("projection") = {}
    PROVE  ReferencesInv'
<1>1. \A kind : Waiting(kind)' = Waiting(kind)
  BY DEF Waiting
<1>2. ASSUME NEW i \in 1 .. Len(references)
      PROVE  /\ Known(references[i])' <=> Known(references[i])
             /\ Found(references[i])' <=> Found(references[i])
  BY FoundKept DEF Known, Found
<1> QED
  BY <1>1, <1>2 DEF ReferencesInv

\* verify reads one more column.
LEMMA VerifyColumn ==
    ASSUME RelationsInv, VerifyInv, ReferencesInv,
           NEW kind \in ToSet(Kinds), NEW column \in Column, verify_column(kind, column)
    PROVE  ReferencesInv'
<1>1. PICK r : r = [kind |-> kind, table |-> column.table, name |-> column.name,
                    iu |-> Unresolved, written |-> column.table]
  OBVIOUS
<1>2. /\ phase \in {"relations", "columns"} /\ phase' \in {"columns", "refused"}
      /\ references' = Append(references, r)
      /\ phase' # "refused" => ~ columnRefused(column)
      /\ UNCHANGED <<columnNames, unbindedColumns, bindedColumns, fromClause>>
  BY <1>1 DEF verify_column, verified
<1>3. r \in AnyReference
  <2>1. kind \in {"selection", "projection", "join"}
    BY DEF ToSet, Kinds
  <2>2. column.table \in Bindings \cup {""} /\ column.name \in Columns
    BY DEF Column
  <2>3. PICK u : u = Unresolved
    OBVIOUS
  <2>4. u \in Int \X Int
    BY <2>3 DEF Unresolved
  <2> QED
    BY <1>1, <2>1, <2>2, <2>3, <2>4 DEF AnyReference
<1>4. PICK n \in Nat : n = Len(references)
  BY DEF ReferencesInv
<1>5. /\ references' \in Seq(AnyReference) /\ Len(references') = n + 1
      /\ references'[n + 1] = r /\ \A k \in 1 .. n : references'[k] = references[k]
  BY <1>2, <1>3, <1>4 DEF ReferencesInv
<1>6. phase' # "refused" => Known(r)
  <2> SUFFICES ASSUME phase' # "refused" PROVE Known(r)
    OBVIOUS
  <2>1. r.written = column.table /\ r.name = column.name /\ ~ columnRefused(column)
    BY <1>1, <1>2
  <2>2. CASE column.table = ""
    BY <1>2, <2>1, <2>2 DEF columnRefused, VerifyInv, Known
  <2>3. CASE column.table # ""
    <3>1. column.table \in DOMAIN bindedColumns /\ column.name \in bindedColumns[column.table]
      BY <2>1, <2>3 DEF columnRefused
    <3>2. PICK j \in 1 .. Len(fromClause) :
             /\ ~ Unaliased(j) /\ column.table = fromClause[j].alias
             /\ bindedColumns[column.table] = ColumnsOf(j)
      BY <1>2, <3>1 DEF VerifyInv
    <3> QED
      BY <2>1, <2>3, <3>1, <3>2 DEF Known
  <2> QED
    BY <2>2, <2>3
<1>7. ASSUME NEW k \in 1 .. n + 1
      PROVE  /\ phase' # "refused" => Known(references[k])'
             /\ references'[k].iu = Unresolved => references'[k].table = references'[k].written
             /\ references'[k].iu # Unresolved => Constructed' /\ Found(references[k])'
  <2>1. PICK q : q = references'[k]
    OBVIOUS
  <2>2. /\ phase' # "refused" => Known(q)
        /\ q.iu = Unresolved /\ q.table = q.written
    <3>1. CASE k = n + 1
      BY <1>1, <1>5, <1>6, <2>1, <3>1
    <3>2. CASE k \in 1 .. n
      BY <1>2, <1>4, <1>5, <2>1, <3>2 DEF ReferencesInv, Constructed
    <3> QED
      BY <3>1, <3>2
  <2>3. phase' # "refused" => Known(q)'
    BY <1>2, <2>2, FoundKept
  <2> QED
    BY <2>1, <2>2, <2>3 DEF Known
<1> QED
  BY <1>2, <1>5, <1>7 DEF ReferencesInv

\* The next column of a kind has not been looked up.
LEMMA NextPending ==
    ASSUME ReferencesInv, NEW kind, Waiting(kind) # {}, NEW i, i = Min(Waiting(kind))
    PROVE  /\ i \in 1 .. Len(references) /\ references[i] \in AnyReference
           /\ references[i].iu = Unresolved /\ references[i].table = references[i].written
           /\ phase # "refused" => Known(references[i])
<1>1. PICK n \in Nat : n = Len(references) /\ DOMAIN references = 1 .. n
  BY DEF ReferencesInv
<1>2. Waiting(kind) \in SUBSET (1 .. n)
  BY <1>1 DEF Waiting
<1>3. i \in Waiting(kind)
  BY <1>2, MaxMin
<1> QED
  BY <1>1, <1>3 DEF Waiting, ReferencesInv

\* A look-up that finds the column keeps the list of columns as it is.
LEMMA ResolveFinds ==
    ASSUME RelationsInv, IusInv, ReferencesInv, phase \in {"selects", "joins"},
           UNCHANGED <<columnNames, fromClause, phase>>,
           NEW kind, Waiting(kind) # {}, NEW i, i = Min(Waiting(kind)),
           Resolve(i, TableOf(references[i]))
    PROVE  /\ ReferencesInv' /\ TableOf(references[i]) \in Names
           /\ lookUp(TableOf(references[i]), references[i].name)
                 \in Units(TableOf(references[i]), references[i].name)
           /\ references[i].name \in Columns
<1>1. PICK q : q = references[i]
  OBVIOUS
<1>2. PICK table, iu : table = TableOf(q) /\ iu = lookUp(table, q.name)
  OBVIOUS
<1>3. /\ i \in 1 .. Len(references) /\ q \in AnyReference
      /\ q.table = q.written /\ Known(q) /\ Constructed
  BY <1>1, NextPending DEF Constructed
<1>4. table \in Names /\ q.name \in DOMAIN ius[table] /\ (q.written # "" => table = q.written)
  BY <1>2, <1>3, TableHasColumn
<1>5. iu \in Units(table, q.name)
  BY <1>2, <1>3, <1>4, LookUp
<1>6. PICK r : r = [kind |-> q.kind, table |-> table, name |-> q.name, iu |-> iu,
                    written |-> q.written]
  OBVIOUS
<1>7. r \in AnyReference
  <2>1. table \in Tables \cup Bindings \cup {""}
    <3>1. PICK j \in DOMAIN fromClause : table = goesBy(j)
      BY <1>4 DEF Names
    <3>2. fromClause[j] \in FromTable
      BY DEF RelationsInv
    <3> QED
      BY <3>1, <3>2 DEF goesBy, Unaliased, FromTable
  <2>2. PICK j \in 1 .. Len(fromClause) : iu = <<j, q.name>>
    BY <1>5 DEF Units, ScannedWith, Scanned
  <2>3. q.name \in Int /\ j \in Int
    <3>1. q.name \in Columns
      BY <1>3 DEF AnyReference
    <3>2. Columns \subseteq Int
      BY BindingAssumption
    <3>3. Len(fromClause) \in Nat
      BY DEF RelationsInv
    <3>4. j \in Int
      BY <3>3
    <3> QED
      BY <3>1, <3>2, <3>4, Zenon
  <2>4. iu \in Int \X Int
    BY <2>2, <2>3
  <2> QED
    BY <1>3, <1>6, <2>1, <2>4 DEF AnyReference
<1>8. Found(r)
  BY <1>4, <1>5, <1>6, ScannedIsFound
<1>9. references' = [references EXCEPT ![i] = r]
  <2>1. references' = [references EXCEPT ![i].table = table, ![i].iu = iu]
    BY <1>1, <1>2 DEF Resolve
  <2>2. references' = [references EXCEPT ![i] = [[q EXCEPT !.table = table] EXCEPT !.iu = iu]]
    BY <1>1, <1>3, <2>1 DEF ReferencesInv
  <2>3. q = [kind |-> q.kind, table |-> q.table, name |-> q.name, iu |-> q.iu,
             written |-> q.written]
    BY <1>3 DEF AnyReference
  <2>4. PICK p : p = [q EXCEPT !.table = table]
    OBVIOUS
  <2>5. p = [kind |-> q.kind, table |-> table, name |-> q.name, iu |-> q.iu,
             written |-> q.written]
    BY <2>3, <2>4
  <2>6. [p EXCEPT !.iu = iu] = r
    BY <1>6, <2>5
  <2> QED
    BY <2>2, <2>4, <2>6
<1>10. ReferencesInv'
  BY <1>1, <1>3, <1>6, <1>7, <1>8, <1>9, ReferenceResolved
<1> QED
  BY <1>1, <1>2, <1>3, <1>4, <1>5, <1>10 DEF AnyReference

\* A Select operator is put on the production of the table of its column.
LEMMA ConstructSelect ==
    ASSUME SelectInv, NEW i, construct_select(i)
    PROVE  SelectInv'
<1>1. /\ phase = "selects" /\ Waiting("selection") # {} /\ i = Min(Waiting("selection"))
      /\ Resolve(i, TableOf(references[i]))
      /\ UNCHANGED <<verified, phase, relations, ius, iuOrder, vertices, fromClause>>
      /\ UNCHANGED columnNames
  BY DEF construct_select, verified
<1>2. PICK table, iu : table = TableOf(references[i]) /\ iu = lookUp(table, references[i].name)
  OBVIOUS
<1>3. /\ ReferencesInv' /\ table \in Names
      /\ iu \in Units(table, references[i].name) /\ references[i].name \in Columns
  BY <1>1, <1>2, ResolveFinds DEF SelectInv
<1>4. RelationsInv' /\ VerifyInv' /\ IusInv'
  <2>1. SamePart(phase, phase')
    BY <1>1 DEF SamePart
  <2> QED
    BY <1>1, <2>1, RelationsKept DEF SelectInv
<1>5. ProductionsInv'
  <2>1. productions' = [productions EXCEPT ![table].selects = Append(@, iu)]
    BY <1>2 DEF construct_select, selectedProduction
  <2>2. PICK p : p = productions[table]
    OBVIOUS
  <2>3. /\ p = [scan |-> p.scan, branch |-> p.branch, selects |-> p.selects]
        /\ p.selects \in Seq(Scanned(table) \X Columns) /\ DOMAIN productions = Names
    BY <1>1, <1>3, <2>2 DEF SelectInv, ProductionsInv, ProductionsOf
  <2>4. PICK q, list : /\ q = [scan |-> p.scan, branch |-> p.branch, selects |-> list]
                       /\ list = Append(p.selects, iu)
    OBVIOUS
  <2>5. productions' = [productions EXCEPT ![table] = q]
    <3>1. [p EXCEPT !.selects = list] = q
      <4>1. p = [scan |-> p.scan, branch |-> p.branch, selects |-> p.selects]
        BY <2>3
      <4>2. q = [scan |-> p.scan, branch |-> p.branch, selects |-> list]
        BY <2>4
      <4> QED
        BY <4>1, <4>2
    <3>2. productions' = [productions EXCEPT ![table] = [p EXCEPT !.selects = list]]
      BY <2>1, <2>2, <2>4
    <3> QED
      BY <3>1, <3>2
  <2>6. iu \in Scanned(table) \X Columns
    <3>1. PICK j \in Scanned(table) : iu = <<j, references[i].name>>
      BY <1>3 DEF Units, ScannedWith
    <3> QED
      BY <1>3, <3>1
  <2>7. q.selects \in Seq(Scanned(table) \X Columns)
    BY <2>3, <2>4, <2>6
  <2>8. ASSUME NEW name \in Names, NEW r, r = productions'[name]
        PROVE  /\ r = [scan |-> r.scan, branch |-> r.branch, selects |-> r.selects]
               /\ r.scan \in Scanned(name) /\ r.branch = fromClause[r.scan].version
               /\ r.selects \in Seq(Scanned(name) \X Columns)
    <3>1. CASE name = table
      <4>1. r = q
        BY <2>3, <2>5, <2>8, <3>1
      <4>2. p.scan \in Scanned(name) /\ p.branch = fromClause[p.scan].version
        BY <1>1, <2>2, <3>1 DEF SelectInv, ProductionsInv, ProductionsOf
      <4> QED
        BY <2>4, <2>7, <3>1, <4>1, <4>2
    <3>2. CASE name # table
      <4>1. r = productions[name]
        BY <2>3, <2>5, <2>8, <3>2
      <4> QED
        BY <1>1, <4>1 DEF SelectInv, ProductionsInv, ProductionsOf
    <3> QED
      BY <3>1, <3>2
  <2>9. DOMAIN productions' = Names
    BY <2>3, <2>5
  <2>10. ProductionsOf(productions)'
    BY <1>1, <2>8, <2>9, ClauseKept DEF ProductionsOf
  <2> QED
    BY <1>1, <2>10 DEF SelectInv, ProductionsInv
<1> QED
  BY <1>1, <1>3, <1>4, <1>5 DEF SelectInv, StarInv, Done

\* The productions become the vertices of the join graph.
LEMMA ConstructJoinGraph ==
    ASSUME SelectInv, construct_join_graph
    PROVE  SelectInv'
<1>1. /\ phase = "selects" /\ phase' = "joins" /\ Waiting("selection") = {}
      /\ vertices' = [name \in {relations[i].alias : i \in DOMAIN relations} |-> productions[name]]
      /\ relations' = [i \in DOMAIN relations |-> [relations[i] EXCEPT !.alias = ""]]
      /\ UNCHANGED <<columnNames, unbindedColumns, bindedColumns, references, ius, iuOrder, fromClause>>
  BY DEF construct_join_graph, verified
<1>2. PICK n \in Nat : /\ n = Len(fromClause) /\ DOMAIN fromClause = 1 .. n
                       /\ DOMAIN relations = 1 .. n
  BY DEF SelectInv, RelationsInv
<1>3. RelationsInv'
  <2>1. ASSUME NEW i \in 1 .. n
        PROVE  /\ relations'[i] \in AnyRelation
               /\ relations'[i].name = fromClause[i].name
               /\ relations'[i].alias = ""
               /\ relations'[i].version = fromClause[i].version
    <3>1. relations[i] \in AnyRelation
      BY <1>2 DEF SelectInv, RelationsInv
    <3>2. relations'[i] = [relations[i] EXCEPT !.alias = ""]
      BY <1>1, <1>2
    <3> QED
      BY <1>2, <3>1, <3>2 DEF SelectInv, RelationsInv, AnyRelation
  <2>2. relations' \in [1 .. n -> AnyRelation]
    BY <1>1, <1>2, <2>1
  <2>3. relations' \in Seq(AnyRelation) /\ Len(relations') = n
    BY <2>2
  <2>4. \A i \in 1 .. n : Alias(i)' = ""
    BY <1>1 DEF Alias
  <2> QED
    BY <1>1, <1>2, <2>1, <2>3, <2>4 DEF SelectInv, RelationsInv
<1>4. VerifyInv' /\ IusInv'
  BY <1>1, VerifyKept, IusKept DEF SelectInv, Constructed
<1>5. ProductionsInv'
  <2>1. {relations[i].alias : i \in DOMAIN relations} = Names
    BY <1>1, <1>2 DEF SelectInv, RelationsInv, Alias, Names
  <2>2. vertices' = [name \in Names |-> productions[name]]
    BY <1>1, <2>1
  <2>3. DOMAIN vertices' = Names /\ \A name \in Names : vertices'[name] = productions[name]
    BY <2>2
  <2>4. ProductionsOf(productions)
    BY <1>1 DEF SelectInv, ProductionsInv
  <2>5. ProductionsOf(vertices)'
    BY <1>1, <2>3, <2>4, ClauseKept DEF ProductionsOf
  <2> QED
    BY <1>1, <2>5 DEF ProductionsInv
<1>6. ReferencesInv'
  BY <1>1, ReferencesKept DEF SelectInv, Constructed
<1> QED
  BY <1>1, <1>3, <1>4, <1>5, <1>6 DEF SelectInv, StarInv, Done

\* The columns of a join condition are looked up like those of a selection.
LEMMA JoinedColumn ==
    ASSUME SelectInv, NEW i, joinedColumn(i)
    PROVE  SelectInv'
<1>1. /\ phase = "joins" /\ Waiting("join") # {} /\ i = Min(Waiting("join"))
      /\ Resolve(i, TableOf(references[i]))
      /\ UNCHANGED <<verified, phase, relations, ius, iuOrder, productions, vertices, fromClause>>
      /\ UNCHANGED columnNames
  BY DEF joinedColumn, verified
<1>2. SamePart(phase, phase')
  BY <1>1 DEF SamePart
<1>3. ReferencesInv'
  BY <1>1, ResolveFinds DEF SelectInv
<1>4. RelationsInv' /\ VerifyInv' /\ IusInv' /\ ProductionsInv'
  BY <1>1, <1>2, RelationsKept, ProductionsKept DEF SelectInv
<1> QED
  BY <1>1, <1>3, <1>4 DEF SelectInv, StarInv, Done

\* A column of the projection keeps the name it was written with.
LEMMA Project ==
    ASSUME SelectInv, NEW i, project(i)
    PROVE  SelectInv'
<1>1. PICK q : q = references[i]
  OBVIOUS
<1>2. PICK iu : iu = IF q.table = "" THEN getUniqueColumnIU(q.name) ELSE lookUp(q.table, q.name)
  OBVIOUS
<1>3. /\ phase = "joins" /\ Waiting("projection") # {} /\ i = Min(Waiting("projection"))
      /\ references' = [references EXCEPT ![i].iu = iu]
      /\ UNCHANGED <<verified, phase, relations, ius, iuOrder, productions, vertices, fromClause>>
      /\ UNCHANGED columnNames
  BY <1>1, <1>2 DEF project, verified
<1>4. /\ i \in 1 .. Len(references) /\ q \in AnyReference
      /\ q.table = q.written /\ Known(q) /\ Constructed
  BY <1>1, <1>3, NextPending DEF SelectInv, Constructed
<1>5. PICK name \in Names : iu \in Units(name, q.name) /\ (q.written # "" => name = q.written)
  <2>1. RelationsInv /\ IusInv
    BY DEF SelectInv
  <2> QED
    BY <1>2, <1>4, <2>1, ProjectionFound
<1>6. PICK r : r = [kind |-> q.kind, table |-> q.table, name |-> q.name, iu |-> iu,
                    written |-> q.written]
  OBVIOUS
<1>7. r \in AnyReference
  <2>1. PICK j \in 1 .. Len(fromClause) : iu = <<j, q.name>>
    BY <1>5 DEF Units, ScannedWith, Scanned
  <2>2. q.name \in Int /\ j \in Int
    <3>1. q.name \in Columns
      BY <1>4 DEF AnyReference
    <3>2. Columns \subseteq Int
      BY BindingAssumption
    <3>3. Len(fromClause) \in Nat
      BY DEF SelectInv, RelationsInv
    <3>4. j \in Int
      BY <3>3
    <3> QED
      BY <3>1, <3>2, <3>4, Zenon
  <2>3. iu \in Int \X Int
    BY <2>1, <2>2
  <2> QED
    BY <1>4, <1>6, <2>3 DEF AnyReference
<1>8. Found(r)
  BY <1>5, <1>6, ScannedIsFound DEF SelectInv
<1>9. references' = [references EXCEPT ![i] = r]
  <2>1. references' = [references EXCEPT ![i] = [q EXCEPT !.iu = iu]]
    BY <1>1, <1>3
  <2>2. q = [kind |-> q.kind, table |-> q.table, name |-> q.name, iu |-> q.iu,
             written |-> q.written]
    BY <1>4 DEF AnyReference
  <2>3. [q EXCEPT !.iu = iu] = r
    BY <1>6, <2>2
  <2> QED
    BY <2>1, <2>3
<1>10. ReferencesInv'
  <2>1. r.kind = references[i].kind /\ r.name = references[i].name /\ r.written = references[i].written
    BY <1>1, <1>6
  <2> QED
    BY <1>3, <1>4, <1>7, <1>8, <1>9, <2>1, ReferenceResolved DEF SelectInv
<1>11. SamePart(phase, phase')
  BY <1>3 DEF SamePart
<1>12. RelationsInv' /\ VerifyInv' /\ IusInv' /\ ProductionsInv'
  BY <1>3, <1>11, RelationsKept, ProductionsKept DEF SelectInv
<1> QED
  BY <1>3, <1>10, <1>12 DEF SelectInv, StarInv, Done

\* The Result operator gets its columns.
LEMMA ConstructResult ==
    ASSUME SelectInv, constructResult
    PROVE  SelectInv'
<1>1. /\ phase = "joins" /\ phase' = "done" /\ Waiting("join") = {} /\ Waiting("projection") = {}
      /\ projectedIUs' = IF Projections = {} THEN starProjections ELSE projectedIUs
      /\ UNCHANGED <<verified, relations, references, ius, iuOrder, productions, vertices, fromClause>>
      /\ UNCHANGED columnNames
  BY DEF constructResult, verified
<1>2. SamePart(phase, phase')
  BY <1>1 DEF SamePart
<1>3. RelationsInv' /\ VerifyInv' /\ IusInv' /\ ProductionsInv'
  BY <1>1, <1>2, RelationsKept, ProductionsKept DEF SelectInv
<1>4. ReferencesInv'
  <2>1. Waiting("selection") = {}
    BY <1>1 DEF SelectInv, ReferencesInv
  <2> QED
    BY <1>1, <2>1, ReferencesKept DEF SelectInv, Constructed
<1>5. StarInv'
  <2> SUFFICES ASSUME Projections' = {}, NEW i \in 1 .. Len(fromClause), Unaliased(i),
                      NEW c \in ColumnsOf(i)
               PROVE  ius[goesBy(i)][c] \in projectedIUs'
    BY <1>1, ClauseKept DEF StarInv
  <2>1. Projections = {}
    BY <1>1 DEF Projections
  <2>2. i \in DOMAIN relations /\ productionName(relations[i]) = goesBy(i)
    <3>1. i \in DOMAIN relations /\ relations[i].name = fromClause[i].name /\ relations[i].alias = Alias(i)
      BY DEF SelectInv, RelationsInv
    <3>2. Alias(i) = "" /\ goesBy(i) = fromClause[i].name
      BY <1>1 DEF Alias, goesBy
    <3> QED
      BY <3>1, <3>2 DEF productionName
  <2>3. goesBy(i) \in DOMAIN ius /\ c \in DOMAIN ius[goesBy(i)]
    <3>1. goesBy(i) \in Names /\ i \in Scanned(goesBy(i))
      BY DEF SelectInv, RelationsInv, Names, Scanned
    <3> QED
      BY <1>1, <3>1 DEF SelectInv, IusInv, Constructed
  <2>4. ius[goesBy(i)][c] \in starProjections
    BY <2>2, <2>3 DEF starProjections
  <2> QED
    BY <1>1, <2>1, <2>4
<1> QED
  BY <1>3, <1>4, <1>5 DEF SelectInv

\* Every step keeps the meaning of the names.
LEMMA NextSelect == SelectInv /\ [BindingNext]_bindingVars => SelectInv'
<1> SUFFICES ASSUME SelectInv, [BindingNext]_bindingVars PROVE SelectInv'
  OBVIOUS
<1>1. ASSUME NEW relation \in FromTable, verify_relation(relation) PROVE SelectInv'
  <2>1. RelationsInv' /\ VerifyInv'
    BY <1>1, VerifyRelation DEF SelectInv
  <2>2. /\ phase = "relations" /\ phase' \in {"relations", "refused"}
        /\ UNCHANGED <<references, vertices>>
    BY <1>1 DEF verify_relation
  <2>3. ReferencesInv'
    BY <2>2 DEF SelectInv, ReferencesInv
  <2> QED
    BY <2>1, <2>2, <2>3 DEF SelectInv, IusInv, ProductionsInv, StarInv, Constructed, Done
<1>2. ASSUME NEW kind \in ToSet(Kinds), NEW column \in Column, verify_column(kind, column)
      PROVE  SelectInv'
  <2>1. /\ phase \in {"relations", "columns"} /\ phase' \in {"columns", "refused"}
        /\ UNCHANGED <<verified, relations, ius, iuOrder, productions, vertices, fromClause>>
        /\ UNCHANGED columnNames
    BY <1>2 DEF verify_column, verified
  <2>2. SamePart(phase, phase')
    BY <2>1 DEF SamePart
  <2>3. RelationsInv' /\ VerifyInv' /\ IusInv' /\ ProductionsInv'
    BY <2>1, <2>2, RelationsKept, ProductionsKept DEF SelectInv
  <2>4. ReferencesInv'
    BY <1>2, VerifyColumn DEF SelectInv
  <2> QED
    BY <2>1, <2>3, <2>4 DEF SelectInv, StarInv, Done
<1>3. ASSUME construct_scans PROVE SelectInv'
  <2>1. /\ phase \in {"relations", "columns"} /\ phase' = "selects"
        /\ UNCHANGED <<columnNames, unbindedColumns, bindedColumns, references, fromClause>>
    BY <1>3 DEF construct_scans, verified
  <2>2. RelationsInv' /\ IusInv' /\ ProductionsInv'
    BY <1>3, ConstructScans DEF SelectInv
  <2>3. VerifyInv'
    BY <2>1, VerifyKept DEF SelectInv
  <2>4. ReferencesInv'
    BY <2>1, ReferencesKept DEF SelectInv, Constructed
  <2> QED
    BY <2>1, <2>2, <2>3, <2>4 DEF SelectInv, StarInv, Done
<1>4. ASSUME UNCHANGED bindingVars PROVE SelectInv'
  <2>1. /\ UNCHANGED <<verified, phase, relations, references, ius, iuOrder, productions, vertices,
                       fromClause, projectedIUs>>
        /\ UNCHANGED columnNames
    BY <1>4 DEF bindingVars, verified
  <2>2. SamePart(phase, phase')
    BY <2>1 DEF SamePart, SelectInv, RelationsInv
  <2>3. RelationsInv' /\ VerifyInv' /\ IusInv' /\ ProductionsInv'
    BY <2>1, <2>2, RelationsKept, ProductionsKept DEF SelectInv
  <2>4. ReferencesInv'
    <3>1. CASE phase = "relations"
      BY <2>1, <3>1 DEF SelectInv, ReferencesInv
    <3>2. CASE phase # "relations"
      BY <2>1, <3>2, ReferencesKept DEF SelectInv, ReferencesInv, Constructed
    <3> QED
      BY <3>1, <3>2
  <2>5. StarInv'
    BY <2>1, ClauseKept DEF SelectInv, StarInv, Done, Projections
  <2> QED
    BY <2>3, <2>4, <2>5 DEF SelectInv
<1> QED
  BY <1>1, <1>2, <1>3, <1>4, ConstructSelect, ConstructJoinGraph, JoinedColumn, Project,
     ConstructResult DEF BindingNext

\* Nothing has been read at the start.
LEMMA InitSelect == BindingInit => SelectInv
<1> SUFFICES ASSUME BindingInit PROVE SelectInv
  OBVIOUS
<1>1. /\ phase = "relations" /\ relations = <<>> /\ fromClause = <<>> /\ references = <<>>
      /\ unbindedColumns = {} /\ bindedColumns = <<>> /\ vertices = NoFunction
      /\ columnNames \in [Tables -> ColumnLists]
  BY DEF BindingInit, NoFunction
<1>2. RelationsInv
  BY <1>1 DEF RelationsInv
<1>3. VerifyInv
  BY <1>1 DEF VerifyInv, Apart
<1>4. ReferencesInv
  BY <1>1 DEF ReferencesInv
<1> QED
  BY <1>1, <1>2, <1>3, <1>4 DEF SelectInv, IusInv, ProductionsInv, StarInv, Constructed, Done

------------------------------------------------------------------------------
(* Theorems *)

\* What the invariant says about the relations and names of the properties.
LEMMA ClauseFacts ==
    ASSUME SelectInv
    PROVE  /\ DOMAIN fromClause = 1 .. Len(fromClause) /\ Len(fromClause) \in Nat
           /\ DOMAIN relations = 1 .. Len(fromClause)
           /\ \A i \in 1 .. Len(fromClause) :
                 /\ ToSet(columnNames[relations[i].name]) = ColumnsOf(i)
                 /\ goesBy(i) \in Names /\ i \in Scanned(goesBy(i))
           /\ \A i \in 1 .. Len(fromClause) : \A c : HasColumn(i, c) <=> c \in ColumnsOf(i)
<1>1. /\ DOMAIN fromClause = 1 .. Len(fromClause) /\ Len(fromClause) \in Nat
      /\ DOMAIN relations = 1 .. Len(fromClause)
      /\ \A i \in 1 .. Len(fromClause) : relations[i].name = fromClause[i].name
  BY DEF SelectInv, RelationsInv
<1> QED
  BY <1>1 DEF ColumnsOf, Cols, Names, Scanned, HasColumn

\* Without two relations of one name, a name has one scan.
LEMMA OneScan ==
    ASSUME SelectInv, NamesDistinct, NEW name, NEW i \in Scanned(name), NEW j \in Scanned(name)
    PROVE  i = j
BY ClauseFacts DEF NamesDistinct, Scanned

(***************************************************************************)
(* Every column that verify accepts is found when the tree is built,       *)
(* whichever way the maps of the AnalyzingContext are traversed, and       *)
(* SELECT * has the columns of every relation without alias, for any FROM  *)
(* clause and any number of columns (SelectAnalyser.cpp).                  *)
(***************************************************************************)
THEOREM AcceptedColumnsAreFound == BindingSpec => []AcceptedColumnsFound
<1>1. SelectInv => AcceptedColumnsFound
  <2> SUFFICES ASSUME SelectInv, phase = "done" PROVE AcceptedColumnsFound
    BY DEF AcceptedColumnsFound, Done
  <2>1. ASSUME NEW i \in DOMAIN references
        PROVE  references[i].iu # NoIU /\ references[i].iu[2] = references[i].name
    <3>1. i \in 1 .. Len(references) /\ references[i] \in AnyReference
      BY DEF SelectInv, ReferencesInv
    <3>2. references[i].iu # Unresolved
      <4>1. Waiting("join") = {} /\ Waiting("projection") = {} /\ Waiting("selection") = {}
        BY DEF SelectInv, ReferencesInv
      <4>2. references[i].kind \in {"selection", "projection", "join"}
        BY <3>1 DEF AnyReference
      <4> QED
        BY <4>1, <4>2 DEF Waiting
    <3>3. PICK j \in 1 .. Len(fromClause) : references[i].iu = <<j, references[i].name>>
      BY <3>1, <3>2 DEF SelectInv, ReferencesInv, Found
    <3>4. j # 0 /\ NoIU[1] = 0 /\ references[i].iu[1] = j
      BY <3>3, ClauseFacts DEF NoIU
    <3> QED
      BY <3>3, <3>4
  <2>2. ASSUME NamesDistinct, Projections = {}, NEW i \in DOMAIN relations, Unaliased(i),
               NEW c \in ToSet(columnNames[relations[i].name])
        PROVE  <<i, c>> \in projectedIUs
    <3>1. /\ i \in 1 .. Len(fromClause) /\ c \in ColumnsOf(i)
          /\ goesBy(i) \in Names /\ i \in Scanned(goesBy(i))
      BY ClauseFacts
    <3>2. ius[goesBy(i)][c] \in projectedIUs
      BY <2>2, <3>1 DEF SelectInv, StarInv, Done
    <3>3. c \in DOMAIN ius[goesBy(i)] /\ ius[goesBy(i)][c] \in Units(goesBy(i), c)
      BY <3>1 DEF SelectInv, IusInv, Constructed
    <3>4. PICK j \in Scanned(goesBy(i)) : ius[goesBy(i)][c] = <<j, c>>
      BY <3>3 DEF Units, ScannedWith
    <3>5. j = i
      BY <2>2, <3>1, OneScan
    <3> QED
      BY <3>2, <3>4, <3>5
  <2> QED
    BY <2>1, <2>2 DEF AcceptedColumnsFound
<1> QED
  BY <1>1, InitSelect, NextSelect, PTL DEF BindingSpec

(***************************************************************************)
(* A column with a binding comes from a relation that goes by it, one      *)
(* without from a relation without alias unless several relations have     *)
(* such a column, and a Select operator stands on the scan that produces   *)
(* its column (construct_selects, construct_join_graph).                   *)
(***************************************************************************)
THEOREM ColumnsResolveInTheirRelations == BindingSpec => []ResolvedInItsRelation
<1>1. SelectInv => ResolvedInItsRelation
  <2> SUFFICES ASSUME SelectInv PROVE ResolvedInItsRelation
    OBVIOUS
  <2>1. ASSUME phase = "done", NEW i \in DOMAIN references
        PROVE  IF references[i].written # ""
               THEN goesBy(references[i].iu[1]) = references[i].written
               ELSE Unambiguous(references[i].name) => Unaliased(references[i].iu[1])
    <3>1. i \in 1 .. Len(references) /\ references[i] \in AnyReference
      BY DEF SelectInv, ReferencesInv
    <3>2. references[i].iu # Unresolved
      <4>1. Waiting("join") = {} /\ Waiting("projection") = {} /\ Waiting("selection") = {}
        BY <2>1 DEF SelectInv, ReferencesInv
      <4>2. references[i].kind \in {"selection", "projection", "join"}
        BY <3>1 DEF AnyReference
      <4> QED
        BY <4>1, <4>2 DEF Waiting
    <3>3. PICK j \in 1 .. Len(fromClause) :
             /\ references[i].iu = <<j, references[i].name>>
             /\ references[i].name \in ColumnsOf(j)
             /\ references[i].written # "" => goesBy(j) = references[i].written
      BY <3>1, <3>2 DEF SelectInv, ReferencesInv, Found
    <3>4. references[i].iu[1] = j
      <4>1. PICK c : c = references[i].name
        OBVIOUS
      <4>2. references[i].iu = <<j, c>>
        BY <3>3, <4>1
      <4> QED
        BY <4>2
    <3>5. ASSUME references[i].written = "", Unambiguous(references[i].name) PROVE Unaliased(j)
      <4>1. PICK l \in 1 .. Len(fromClause) : Unaliased(l) /\ references[i].name \in ColumnsOf(l)
        <5>1. Known(references[i])
          BY <2>1, <3>1 DEF SelectInv, ReferencesInv
        <5> QED
          BY <3>5, <5>1 DEF Known
      <4> DEFINE S == {k \in DOMAIN relations : HasColumn(k, references[i].name)}
      <4>2. j \in S /\ l \in S /\ S \subseteq 1 .. Len(fromClause)
        BY <3>3, <4>1, ClauseFacts
      <4>3. Cardinality(S) = 1
        BY <3>5 DEF Unambiguous
      <4>4. IsFiniteSet(S)
        <5>1. IsFiniteSet(1 .. Len(fromClause))
          BY ClauseFacts, FS_Interval
        <5> QED
          BY <4>2, <5>1, FS_Subset
      <4> HIDE DEF S
      <4>5. PICK x : S = {x}
        BY <4>3, <4>4, FS_Singleton
      <4> QED
        BY <4>1, <4>2, <4>5
    <3> QED
      BY <3>3, <3>4, <3>5
  <2>2. ASSUME NamesDistinct, NEW name \in DOMAIN vertices,
               NEW k \in DOMAIN vertices[name].selects
        PROVE  vertices[name].selects[k][1] = vertices[name].scan
    <3>1. phase \in {"joins", "done"}
      BY DEF SelectInv, ProductionsInv, NoFunction
    <3>2. /\ name \in Names /\ vertices[name].scan \in Scanned(name)
          /\ vertices[name].selects \in Seq(Scanned(name) \X Columns)
      BY <3>1 DEF SelectInv, ProductionsInv, ProductionsOf
    <3>3. vertices[name].selects[k] \in Scanned(name) \X Columns
      BY <3>2
    <3>4. vertices[name].selects[k][1] \in Scanned(name)
      BY <3>3
    <3> QED
      BY <2>2, <3>2, <3>4, OneScan
  <2> QED
    BY <2>1, <2>2 DEF ResolvedInItsRelation, Done
<1> QED
  BY <1>1, InitSelect, NextSelect, PTL DEF BindingSpec

(***************************************************************************)
(* Every relation of a query whose names are distinct is a vertex of the   *)
(* join graph, scanned in its own branch, and nothing else is              *)
(* (construct_scans, construct_join_graph).                                *)
(***************************************************************************)
THEOREM RelationsAreScanned == BindingSpec => []DistinctRelationsAreScanned
<1>1. SelectInv => DistinctRelationsAreScanned
  <2> SUFFICES ASSUME SelectInv, phase \in {"joins", "done"}, NamesDistinct
               PROVE  {<<vertices[name].scan, vertices[name].branch>> : name \in DOMAIN vertices}
                         = {<<i, fromClause[i].version>> : i \in DOMAIN fromClause}
    BY DEF DistinctRelationsAreScanned
  <2>1. /\ DOMAIN vertices = Names
        /\ \A name \in Names : /\ vertices[name].scan \in Scanned(name)
                               /\ vertices[name].branch = fromClause[vertices[name].scan].version
    BY DEF SelectInv, ProductionsInv, ProductionsOf
  <2>2. ASSUME NEW name \in Names
        PROVE  \E i \in DOMAIN fromClause :
                  <<vertices[name].scan, vertices[name].branch>> = <<i, fromClause[i].version>>
    <3>1. vertices[name].scan \in DOMAIN fromClause
      BY <2>1, ClauseFacts DEF Scanned
    <3> QED
      BY <2>1, <3>1
  <2>3. ASSUME NEW i \in DOMAIN fromClause
        PROVE  \E name \in Names :
                  <<vertices[name].scan, vertices[name].branch>> = <<i, fromClause[i].version>>
    <3>1. goesBy(i) \in Names /\ i \in Scanned(goesBy(i))
      BY ClauseFacts
    <3>2. vertices[goesBy(i)].scan = i
      BY <2>1, <3>1, OneScan
    <3> QED
      BY <2>1, <3>1, <3>2
  <2> QED
    BY <2>1, <2>2, <2>3
<1> QED
  BY <1>1, InitSelect, NextSelect, PTL DEF BindingSpec

\* A list whose neighbours ascend is sorted.
LEMMA Ascending ==
    ASSUME NEW list \in ColumnLists, \A k \in 1 .. Len(list) - 1 : list[k] < list[k + 1]
    PROVE  \A k \in DOMAIN list : \A l \in 1 .. k - 1 : list[l] < list[k]
<1>1. PICK n \in 1 .. MaxColumns : list \in [1 .. n -> Columns]
  BY DEF ColumnLists
<1>2. MaxColumns \in Nat /\ Columns \subseteq Int
  BY BindingAssumption
<1>3. n \in Nat /\ Len(list) = n /\ DOMAIN list = 1 .. n /\ \A k \in 1 .. n : list[k] \in Int
  <2>1. n \in Nat
    BY <1>2
  <2>2. DOMAIN list = 1 .. n /\ Len(list) = n
    BY <1>1, <2>1
  <2>3. \A k \in 1 .. n : list[k] \in Columns
    BY <1>1
  <2> QED
    BY <1>2, <2>1, <2>2, <2>3, Zenon
<1> DEFINE S == {k \in Nat : k \in 1 .. n => \A l \in 1 .. k - 1 : list[l] < list[k]}
<1>4. 0 \in S
  OBVIOUS
<1>5. ASSUME NEW k \in Nat, k \in S PROVE k + 1 \in S
  <2> SUFFICES ASSUME k + 1 \in 1 .. n, NEW l \in 1 .. (k + 1) - 1 PROVE list[l] < list[k + 1]
    OBVIOUS
  <2>1. k \in 1 .. n - 1 /\ k \in 1 .. n /\ l \in 1 .. n /\ (l = k \/ l \in 1 .. k - 1)
    BY <1>3
  <2>2. list[k] < list[k + 1]
    BY <1>3, <2>1
  <2>3. l # k => list[l] < list[k]
    BY <1>5, <2>1
  <2>4. list[l] \in Int /\ list[k] \in Int /\ list[k + 1] \in Int
    BY <1>3, <2>1
  <2> QED
    BY <2>2, <2>3, <2>4
<1>6. \A k \in Nat : k \in S
  <2> HIDE DEF S
  <2> QED
    BY <1>4, <1>5, NatSetInduction
<1> QED
  BY <1>3, <1>6

(***************************************************************************)
(* When the columns of every table were declared in alphabetical order and *)
(* the relations with aliases come last, set_intersection misses nothing:  *)
(* a column without a binding that has passed verify belongs to one        *)
(* relation only, however many there are (SelectAnalyser::verify).         *)
(***************************************************************************)
THEOREM SortedColumnsBelongToOne == BindingSpec => []SortedColumnsAreUnambiguous
<1>1. SelectInv => SortedColumnsAreUnambiguous
  <2> SUFFICES ASSUME SelectInv, Constructed,
                      \A t \in Tables : \A k \in 1 .. Len(columnNames[t]) - 1 :
                         columnNames[t][k] < columnNames[t][k + 1],
                      \A i \in 1 .. Len(relations) - 1 : Unaliased(i + 1) => Unaliased(i),
                      NEW c \in UnqualifiedNames
               PROVE  Unambiguous(c)
    BY DEF SortedColumnsAreUnambiguous
  <2>1. PICK n \in Nat : n = Len(fromClause) /\ n = Len(relations)
    BY DEF SelectInv, RelationsInv
  <2>2. phase # "refused"
    BY DEF Constructed
  <2>3. PICK j \in 1 .. n : Unaliased(j) /\ c \in ColumnsOf(j)
    <3>1. PICK i \in DOMAIN references : references[i].written = "" /\ c = references[i].name
      BY DEF UnqualifiedNames
    <3>2. Known(references[i])
      BY <2>2 DEF SelectInv, ReferencesInv
    <3> QED
      BY <2>1, <3>1, <3>2 DEF Known
  <2>4. ASSUME NEW i \in 1 .. n, NEW l \in 1 .. n, l < i, Unaliased(l), c \in ColumnsOf(l),
               c \in ColumnsOf(i)
        PROVE  FALSE
    <3>1. PICK list : list = Cols(i)
      OBVIOUS
    <3>2. PICK k \in DOMAIN list : c = list[k]
      BY <2>4, <3>1 DEF ColumnsOf, ToSet
    <3>3. \E m \in 1 .. k - 1 : ~ (list[m] < list[k])
      BY <2>1, <2>2, <2>4, <3>1, <3>2 DEF SelectInv, VerifyInv, Apart
    <3>4. list \in ColumnLists /\ fromClause[i].name \in Tables
      BY <2>1, <2>2, <3>1, ColumnsAreColumns DEF SelectInv, RelationsInv
    <3>5. \A m \in 1 .. Len(list) - 1 : list[m] < list[m + 1]
      BY <3>1, <3>4 DEF Cols
    <3> QED
      BY <3>3, <3>4, <3>5, Ascending
  <2>5. \A i \in 1 .. j : Unaliased(i)
    <3> DEFINE S == {d \in Nat : j - d >= 1 => Unaliased(j - d)}
    <3>1. 0 \in S
      BY <2>3
    <3>2. ASSUME NEW d \in Nat, d \in S PROVE d + 1 \in S
      <4> SUFFICES ASSUME j - (d + 1) >= 1 PROVE Unaliased(j - (d + 1))
        OBVIOUS
      <4>1. PICK i \in Int : i = j - (d + 1)
        OBVIOUS
      <4>2. i \in 1 .. n - 1 /\ i + 1 = j - d /\ j - d >= 1
        BY <4>1
      <4>3. Unaliased(i + 1)
        BY <3>2, <4>2
      <4>4. Unaliased(i)
        BY <2>1, <4>2, <4>3
      <4> QED
        BY <4>1, <4>4
    <3>3. \A d \in Nat : d \in S
      <4> HIDE DEF S
      <4> QED
        BY <3>1, <3>2, NatSetInduction
    <3>4. ASSUME NEW i \in 1 .. j PROVE Unaliased(i)
      <4>1. PICK d \in Nat : d = j - i /\ j - d = i
        OBVIOUS
      <4>2. d \in S
        BY <3>3
      <4>3. j - d >= 1
        BY <4>1
      <4>4. Unaliased(j - d)
        BY <4>2, <4>3
      <4> QED
        BY <4>1, <4>4
    <3> QED
      BY <3>4
  <2> DEFINE S == {i \in DOMAIN relations : HasColumn(i, c)}
  <2>6. S = {j}
    <3>1. \A i : i \in S <=> i \in 1 .. n /\ c \in ColumnsOf(i)
      BY <2>1, ClauseFacts
    <3>2. ASSUME NEW i \in 1 .. n, c \in ColumnsOf(i) PROVE i = j
      <4>1. ~ (j < i)
        BY <2>3, <2>4, <3>2
      <4>2. ~ (i < j)
        BY <2>3, <2>4, <2>5, <3>2
      <4> QED
        BY <4>1, <4>2
    <3> HIDE DEF S
    <3> QED
      BY <2>3, <3>1, <3>2
  <2> QED
    BY <2>6, FS_Singleton DEF Unambiguous
<1> QED
  BY <1>1, InitSelect, NextSelect, PTL DEF BindingSpec
==============================================================================
