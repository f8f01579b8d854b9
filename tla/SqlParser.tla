------------------------------ MODULE SqlParser ------------------------------
(***************************************************************************)
(* SQLParser::parseStatement: a state machine that reads one token per     *)
(* step and fills in the statement it is about (sqlParser/ParserResult.hpp)*)
(*                                                                         *)
(* A token is its kind: a keyword, a control symbol, "op", "identifier",   *)
(* "number" or "string" (the literals), or the delimiter ";".  The text of *)
(* an identifier or a literal is the position of its token in the input,   *)
(* so any two of them are told apart; "master", which the parser supplies  *)
(* itself, is position 0.                                                  *)
(*                                                                         *)
(* The statement belongs to the ParsingContext until convertToParserResult *)
(* hands it to the AnalyzingContext; both delete what they own.            *)
(***************************************************************************)
EXTENDS Integers, SequencesExt

CONSTANT MaxItems    \* bounds every list of a statement

ASSUME MaxItemsAssumption == MaxItems \in Nat

VARIABLES
    state,        \* ParsingContext::state; "Thrown" after a syntactical_error,
                  \* "Converted" and "Destroyed" when parsing is over
    opType,       \* ParsingContext::opType
    resultType,   \* SQLParserResult::opType
    stmt,         \* the statement under construction
    tokens,       \* the tokens read so far
    ended,        \* the input has ended without a delimiter
    allocated,    \* a statement was allocated
    freed         \* how often it was deleted

vars == <<state, opType, resultType, stmt, tokens, ended, allocated, freed>>

------------------------------------------------------------------------------
(* Tokens and transitions                                                  *)

Keywords == {"version", "select", "from", "where", "and", "insert", "into",
             "values", "update", "set", "delete", "create", "table", "not",
             "null", "branch", "copy", "with", "format", "csv", "tbl", "to"}
ControlSymbols == {",", "(", ")", "*"}
Literals == {"number", "string"}
Tokens == Keywords \cup ControlSymbols \cup Literals \cup {"op", "identifier"}

\* The next state for every state and token the switch accepts.
InitTransitions ==
    {<<"Init", "select", "Select">>, <<"Init", "insert", "Insert">>,
     <<"Init", "update", "Update">>, <<"Init", "delete", "Delete">>,
     <<"Init", "create", "Create">>, <<"Init", "branch", "Branch">>,
     <<"Init", "copy", "Copy">>}

CopyTransitions ==
    {<<"Copy", "identifier", "CopyTable">>,
     <<"CopyTable", "from", "CopyDirection">>,
     <<"CopyTable", "to", "CopyDirection">>,
     <<"CopyTable", "version", "CopyVersion">>,
     <<"CopyVersion", "identifier", "CopyTag">>,
     <<"CopyTag", "to", "CopyDirection">>,
     <<"CopyPath", "with", "CopyWith">>,
     <<"CopyWith", "format", "CopyFormat">>,
     <<"CopyFormat", "csv", "CopyType">>, <<"CopyFormat", "tbl", "CopyType">>}
    \cup {<<"CopyDirection", literal, "CopyPath">> : literal \in Literals}

CreateTransitions ==
    {<<"Create", "table", "CreateTable">>, <<"Create", "branch", "CreateBranch">>,
     <<"CreateBranch", "identifier", "CreateBranchTag">>,
     <<"CreateBranchTag", "from", "CreateBranchFrom">>,
     <<"CreateBranchFrom", "identifier", "CreateBranchParent">>,
     <<"CreateTable", "identifier", "CreateTableRelationName">>,
     <<"CreateTableRelationName", "(", "CreateTableColumnsBegin">>,
     <<"CreateTableColumnsBegin", "identifier", "CreateTableColumnName">>,
     <<"CreateTableColumnSeperator", "identifier", "CreateTableColumnName">>,
     <<"CreateTableColumnName", "identifier", "CreateTableColumnType">>,
     <<"CreateTableColumnType", "(", "CreateTableTypeDetailBegin">>,
     <<"CreateTableTypeDetailBegin", "number", "CreateTableTypeDetailLength">>,
     <<"CreateTableTypeDetailLength", ")", "CreateTableTypeDetailEnd">>,
     <<"CreateTableTypeDetailLength", ",", "CreateTableTypeDetailSeperator">>,
     <<"CreateTableTypeDetailSeperator", "number", "CreateTableTypeDetailPrecision">>,
     <<"CreateTableTypeDetailPrecision", ")", "CreateTableTypeDetailEnd">>,
     <<"CreateTableTypeNot", "null", "CreateTableTypeNotNull">>}
    \cup {<<"CreateTableRelationName", token, "CreateTableRelationName">> :
             token \in Tokens \ {"("}}
    \cup {<<s, "not", "CreateTableTypeNot">> :
             s \in {"CreateTableColumnType", "CreateTableTypeDetailEnd"}}
    \cup {<<s, ")", "CreateTableColumnsEnd">> :
             s \in {"CreateTableColumnType", "CreateTableTypeDetailEnd",
                    "CreateTableTypeNotNull"}}
    \cup {<<s, ",", "CreateTableColumnSeperator">> :
             s \in {"CreateTableColumnType", "CreateTableTypeDetailEnd",
                    "CreateTableTypeNotNull"}}

WhereTransitionsSkipLiterals(Where, WhereAnd, Lhs, Op, Rhs) ==
    {<<Where, "identifier", Lhs>>, <<WhereAnd, "identifier", Lhs>>,
     <<Lhs, "op", Op>>, <<Rhs, "and", WhereAnd>>}
    \cup {<<s, literal, Rhs>> : s \in {Op, Rhs}, literal \in Literals}

\* WHERE column = literal AND column = literal ..., for DELETE and UPDATE.
WhereTransitions(Where, WhereAnd, Lhs, Op, Rhs) ==
    {<<Where, "identifier", Lhs>>, <<WhereAnd, "identifier", Lhs>>,
     <<Lhs, "op", Op>>, <<Rhs, "and", WhereAnd>>}
    \cup {<<Op, literal, Rhs>> : literal \in Literals}

DeleteTransitions ==
    {<<"Delete", "from", "DeleteFrom">>,
     <<"DeleteFrom", "identifier", "DeleteRelationName">>,
     <<"DeleteRelationName", "version", "DeleteVersion">>,
     <<"DeleteRelationName", "where", "DeleteWhere">>,
     <<"DeleteVersion", "identifier", "DeleteTag">>,
     <<"DeleteTag", "where", "DeleteWhere">>}
    \cup WhereTransitions("DeleteWhere", "DeleteWhereAnd", "DeleteWhereExprLhs",
                          "DeleteWhereExprOp", "DeleteWhereExprRhs")

UpdateTransitions ==
    {<<"Update", "identifier", "UpdateRelationName">>,
     <<"UpdateRelationName", "version", "UpdateVersion">>,
     <<"UpdateRelationName", "set", "UpdateSet">>,
     <<"UpdateVersion", "identifier", "UpdateTag">>,
     <<"UpdateTag", "set", "UpdateSet">>,
     <<"UpdateSet", "identifier", "UpdateSetExprLhs">>,
     <<"UpdateSetSeperator", "identifier", "UpdateSetExprLhs">>,
     <<"UpdateSetExprLhs", "op", "UpdateSetExprOp">>,
     <<"UpdateSetExprRhs", ",", "UpdateSetSeperator">>,
     <<"UpdateSetExprRhs", "where", "UpdateWhere">>}
    \cup {<<"UpdateSetExprOp", literal, "UpdateSetExprRhs">> : literal \in Literals}
    \cup WhereTransitions("UpdateWhere", "UpdateWhereAnd", "UpdateWhereExprLhs",
                          "UpdateWhereExprOp", "UpdateWhereExprRhs")

InsertTransitions ==
    {<<"Insert", "into", "InsertInto">>,
     <<"InsertInto", "identifier", "InsertRelationName">>,
     <<"InsertRelationName", "version", "InsertVersion">>,
     <<"InsertVersion", "identifier", "InsertTag">>,
     <<"InsertColumnsBegin", "identifier", "InsertColumnName">>,
     <<"InsertColumnSeperator", "identifier", "InsertColumnName">>,
     <<"InsertColumnName", ")", "InsertColumnsEnd">>,
     <<"InsertColumnName", ",", "InsertColumnSeperator">>,
     <<"InsertColumnsEnd", "values", "InsertValues">>,
     <<"InsertValues", "(", "InsertValuesBegin">>,
     <<"InsertValue", ")", "InsertValuesEnd">>,
     <<"InsertValue", ",", "InsertValueSeperator">>}
    \cup {<<s, "(", "InsertColumnsBegin">> : s \in {"InsertRelationName", "InsertTag"}}
    \cup {<<s, "values", "InsertValues">> : s \in {"InsertRelationName", "InsertTag"}}
    \cup {<<"InsertValuesBegin", literal, "InsertValue">> : literal \in Literals}
    \cup {<<"InsertValueSeperator", literal, "InsertValue">> : literal \in Literals}

SelectTransitions ==
    {<<"SelectProjectionStar", "from", "SelectFrom">>,
     <<"SelectProjectionAttrName", "from", "SelectFrom">>,
     <<"SelectProjectionAttrName", ",", "SelectProjectionAttrSeparator">>,
     <<"SelectFrom", "identifier", "SelectFromRelationName">>,
     <<"SelectFromSeparator", "identifier", "SelectFromRelationName">>,
     <<"SelectFromRelationName", "version", "SelectFromVersion">>,
     <<"SelectFromRelationName", "identifier", "SelectFromBindingName">>,
     <<"SelectFromVersion", "identifier", "SelectFromTag">>,
     <<"SelectFromTag", "identifier", "SelectFromBindingName">>,
     <<"SelectWhereExprOp", "identifier", "SelectWhereExprRhs">>}
    \cup {<<s, "*", "SelectProjectionStar">> :
             s \in {"Select", "SelectProjectionAttrSeparator"}}
    \cup {<<s, "identifier", "SelectProjectionAttrName">> :
             s \in {"Select", "SelectProjectionAttrSeparator"}}
    \cup {<<s, "where", "SelectWhere">> :
             s \in {"SelectFromRelationName", "SelectFromTag", "SelectFromBindingName"}}
    \cup {<<s, ",", "SelectFromSeparator">> :
             s \in {"SelectFromRelationName", "SelectFromTag", "SelectFromBindingName"}}
    \cup WhereTransitions("SelectWhere", "SelectWhereAnd", "SelectWhereExprLhs",
                          "SelectWhereExprOp", "SelectWhereExprRhs")

Transitions == InitTransitions \cup CopyTransitions \cup CreateTransitions
                  \cup DeleteTransitions \cup UpdateTransitions
                  \cup InsertTransitions \cup SelectTransitions

\* The states a transition leads to.
States == {tr[3] : tr \in Transitions}

\* The states in which a delimiter ends the statement.
stateIsFinal(s) ==
    s \in {"SelectFromRelationName", "SelectFromTag", "SelectFromBindingName",
           "SelectWhereExprRhs", "InsertValuesEnd", "UpdateSetExprRhs",
           "UpdateWhereExprRhs", "DeleteRelationName", "DeleteTag",
           "DeleteWhereExprRhs", "CreateTableRelationName",
           "CreateTableColumnsEnd", "CreateBranchParent", "Branch", "CopyType"}
------------------------------------------------------------------------------
(* The statement                                                           *)

Master == 0      \* the name "master"
Unset  == -1     \* a name that is still the empty string

EmptyStatement ==
    [relations |-> <<>>, columns |-> <<>>, values |-> <<>>, updates |-> <<>>,
     selections |-> <<>>, joinConditions |-> <<>>, columnSpecs |-> <<>>,
     tableName |-> Unset, branchName |-> Unset, parentBranchName |-> Unset,
     filePath |-> Unset, format |-> "", directionFrom |-> FALSE]

\* The position of the token being read.
here == Len(tokens) + 1

prev_one_less(i) == here - i + 1
\* Tokenizer::prev: the i-th token before the one being read.
prev(i) == here - i

\* The tables a token adds, with the version they have at first.
relationsNamed ==
    LET relation(version) == [name |-> here, alias |-> Unset, version |-> version]
    IN  CASE state \in {"Copy", "Update", "InsertInto"} ->
                Append(stmt.relations, relation(Unset))
          [] state \in {"DeleteFrom", "SelectFrom", "SelectFromSeparator"} ->
                Append(stmt.relations, relation(Master))
          [] OTHER -> stmt.relations

\* The tokens that say that no VERSION follows the table name.
masterImplied(token) ==
    \/ state = "CopyTable" /\ token \in {"from", "to"}
    \/ state = "UpdateRelationName" /\ token = "set"
    \/ state = "InsertRelationName" /\ token \in {"(", "values"}
    \/ state = "SelectFromRelationName" /\ token = "identifier"

versionNamed ==
    state \in {"CopyVersion", "DeleteVersion", "UpdateVersion", "InsertVersion",
               "SelectFromVersion"}

aliasNamed(token) ==
    token = "identifier" /\ state \in {"SelectFromRelationName", "SelectFromTag"}

\* What a token says about the tables of the statement.
relationsAfter(token) ==
    LET withVersion(name) ==
            [stmt.relations EXCEPT ![Len(stmt.relations)].version = name]
        version == IF masterImplied(token) THEN withVersion(Master)
                   ELSE IF versionNamed THEN withVersion(here)
                   ELSE relationsNamed
    IN  IF aliasNamed(token)
        THEN [version EXCEPT ![Len(version)].alias = here]
        ELSE version

\* The tokens that say that no NOT NULL follows the type.
nullableImplied(token) ==
    \/ state = "CreateTableColumnType" /\ token \notin {"(", "not"}
    \/ state = "CreateTableTypeDetailEnd" /\ token # "not"

\* What a token says about the columns of a CREATE TABLE.
columnSpecsAfter(token) ==
    LET specs == stmt.columnSpecs
        last == Len(specs)
    IN  CASE state \in {"CreateTableColumnsBegin", "CreateTableColumnSeperator"} ->
                Append(specs, [name |-> here, type |-> Unset, length |-> 0,
                               precision |-> 0, nullable |-> FALSE])
          [] state = "CreateTableColumnName" -> [specs EXCEPT ![last].type = here]
          [] nullableImplied(token) /\ state = "CreateTableColumnType" ->
                [specs EXCEPT ![last] = [name |-> @.name, type |-> @.type, length |-> 0,
                                         precision |-> 0, nullable |-> TRUE]]
          [] nullableImplied(token) /\ state = "CreateTableTypeDetailEnd" ->
                [specs EXCEPT ![last].nullable = TRUE]
          [] state = "CreateTableTypeDetailBegin" -> [specs EXCEPT ![last].length = here]
          [] state = "CreateTableTypeDetailSeperator" ->
                [specs EXCEPT ![last].precision = here]
          [] state = "CreateTableTypeNot" -> [specs EXCEPT ![last].nullable = FALSE]
          [] OTHER -> specs

Listed(list, states) == IF state \in states THEN Append(list, here) ELSE list
Compared(list, states) ==
    IF state \in states THEN Append(list, <<prev(2), here>>) ELSE list
Named(name, s) == IF state = s THEN here ELSE name

\* The statement after a token the state accepts.
Collected(token) ==
    [relations |-> relationsAfter(token),
     columnSpecs |-> columnSpecsAfter(token),
     columns |->
        IF token = "identifier"
        THEN Listed(stmt.columns, {"Select", "SelectProjectionAttrSeparator",
                                   "InsertColumnsBegin", "InsertColumnSeperator"})
        ELSE stmt.columns,
     values |-> Listed(stmt.values, {"InsertValuesBegin", "InsertValueSeperator"}),
     updates |-> Compared(stmt.updates, {"UpdateSetExprOp"}),
     selections |->
        IF token \in Literals
        THEN Compared(stmt.selections, {"DeleteWhereExprOp", "UpdateWhereExprOp",
                                        "SelectWhereExprOp"})
        ELSE stmt.selections,
     joinConditions |->
        IF token = "identifier"
        THEN Compared(stmt.joinConditions, {"SelectWhereExprOp"})
        ELSE stmt.joinConditions,
     tableName |-> Named(stmt.tableName, "CreateTable"),
     branchName |-> Named(stmt.branchName, "CreateBranch"),
     parentBranchName |-> Named(stmt.parentBranchName, "CreateBranchFrom"),
     filePath |-> Named(stmt.filePath, "CopyDirection"),
     format |-> IF state = "CopyFormat" THEN token ELSE stmt.format,
     directionFrom |-> stmt.directionFrom \/ (state = "CopyTable" /\ token = "from")]

------------------------------------------------------------------------------
(* Reading tokens                                                          *)

\* The statement types, by the states their parsing starts in.
OpTypes == {"Select", "Insert", "Update", "Delete", "Copy", "CreateTable",
            "CreateBranch", "Branch"}

Init ==
    /\ state = "Init"
    /\ opType = "Unknown"
    /\ resultType = "Unknown"
    /\ stmt = EmptyStatement
    /\ tokens = <<>>
    /\ ended = FALSE
    /\ allocated = FALSE
    /\ freed = 0

Parsing == state \notin {"Done", "Thrown", "Converted", "Destroyed"}

Accepts(token) == \E s \in States : <<state, token, s>> \in Transitions

WithinBounds(s) ==
    /\ \A field \in {"relations", "columns", "values", "updates", "selections",
                      "joinConditions", "columnSpecs"} : Len(s[field]) <= MaxItems
    /\ state = "CreateTableRelationName" => Len(tokens) < 3 + MaxItems

\* A token that is not part of the input, read after its end, is not recorded.
Recorded(token) == tokens' = IF ended THEN tokens ELSE Append(tokens, token)

\* parseToken for a token the state has a transition for.
acceptToken(token) ==
    /\ Parsing
    /\ ended \/ WithinBounds(Collected(token))
    /\ \E s \in States : <<state, token, s>> \in Transitions /\ state' = s
    /\ stmt' = Collected(token)
    /\ opType' = IF state \in {"Init", "Create"} /\ state' \in OpTypes
                 THEN state' ELSE opType
    /\ allocated' = (opType' \notin {"Unknown", "Branch"})
    /\ Recorded(token)
    /\ UNCHANGED <<resultType, ended, freed>>

\* parseToken for any other token throws.
rejectToken(token) ==
    /\ Parsing
    /\ ~ Accepts(token)
    /\ state' = "Thrown"
    /\ Recorded(token)
    /\ UNCHANGED <<opType, resultType, stmt, ended, allocated, freed>>

\* parseToken for a delimiter.
acceptDelimiter ==
    /\ Parsing /\ ~ ended
    /\ state' = IF stateIsFinal(state) THEN "Done" ELSE "Thrown"
    /\ Recorded(";")
    /\ UNCHANGED <<opType, resultType, stmt, ended, allocated, freed>>

\* The characters have run out.  Tokenizer::next cannot put a delimiter back,
\* because its stream has failed, and from now on returns the literal that
\* consists of the character EOF converts to.
endOfInput ==
    /\ Parsing /\ ~ ended
    /\ ended' = TRUE
    /\ UNCHANGED <<state, opType, resultType, stmt, tokens, allocated, freed>>

parseToken ==
    \/ \E token \in IF ended THEN {"string"} ELSE Tokens :
          acceptToken(token) \/ rejectToken(token)
    \/ acceptDelimiter

------------------------------------------------------------------------------
(* Handing the statement on                                                *)

releasedType_kept == opType

\* convertToParserResult overwrites the ParsingContext with a new one.
releasedType == "Unknown"

convertToParserResult ==
    /\ state = "Done"
    /\ state' = "Converted"
    /\ resultType' = opType
    /\ opType' = releasedType
    /\ UNCHANGED <<stmt, tokens, ended, allocated, freed>>

\* ~ParsingContext and ~SQLParserResult: both delete by their opType.
Deletes(type) == IF type \in {"Unknown", "Branch"} THEN 0 ELSE 1

destroyQueryContext ==
    /\ state \in {"Thrown", "Converted"}
    /\ state' = "Destroyed"
    /\ freed' = freed + Deletes(opType) + Deletes(resultType)
    /\ UNCHANGED <<opType, resultType, stmt, tokens, ended, allocated>>

Next == parseToken \/ endOfInput \/ convertToParserResult \/ destroyQueryContext

Spec == Init /\ [][Next]_vars

------------------------------------------------------------------------------
(* Properties                                                              *)

Accepted == state \in {"Done", "Converted"}

\* A statement that is accepted has all the parts the analysers rely on: the
\* statement type, a table or a name, and no list that the grammar fills.
AcceptedIsComplete ==
    Accepted =>
        LET type == IF state = "Done" THEN opType ELSE resultType
            \* the parts of each statement type that may not be missing
            Missing ==
                CASE type = "Unknown" -> TRUE
                  [] type = "Branch" -> FALSE
                  [] type = "CreateTable" -> stmt.tableName = Unset
                  [] type = "CreateBranch" -> Unset \in {stmt.branchName,
                                                         stmt.parentBranchName}
                  [] type = "Copy" -> stmt.filePath = Unset \/ stmt.format = ""
                  [] type = "Insert" -> stmt.values = <<>>
                  [] type = "Update" -> stmt.updates = <<>>
                  [] OTHER -> FALSE
        IN  /\ ~ Missing
            /\ type \in {"Select", "Insert", "Update", "Delete", "Copy"} =>
                  /\ stmt.relations # <<>>
                  /\ \A i \in DOMAIN stmt.relations :
                        stmt.relations[i].version # Unset

\* A table is read in the version that is written after it, and in master if
\* none is, whether or not an alias, a column list or a WHERE follows.
VersionAsWritten ==
    Accepted =>
        \A i \in DOMAIN stmt.relations :
            LET relation == stmt.relations[i]
            IN  relation.version = IF tokens[relation.name + 1] = "version"
                                   THEN relation.name + 2
                                   ELSE Master

\* A condition holds the column in front of its operator and the operand behind
\* it: literals in assignments and selections, columns in join conditions, the
\* assignments in front of the WHERE and the others behind it.
ConditionsAsWritten ==
    LET AsWritten(list, operands, afterWhere) ==
            \A i \in DOMAIN list :
                /\ tokens[list[i][1]] = "identifier"
                /\ tokens[list[i][1] + 1] = "op"
                /\ list[i][2] = list[i][1] + 2
                /\ tokens[list[i][2]] \in operands
                /\ (\E p \in 1 .. list[i][1] : tokens[p] = "where") = afterWhere
    IN  Accepted => /\ AsWritten(stmt.updates, Literals, FALSE)
                    /\ AsWritten(stmt.selections, Literals, TRUE)
                    /\ AsWritten(stmt.joinConditions, {"identifier"}, TRUE)

\* The names and literals a statement mentions.
Mentioned ==
    (UNION {{stmt.relations[i].name, stmt.relations[i].alias,
             stmt.relations[i].version} : i \in DOMAIN stmt.relations})
    \cup (UNION {{stmt.columnSpecs[i].name, stmt.columnSpecs[i].type,
                  stmt.columnSpecs[i].length, stmt.columnSpecs[i].precision} :
                    i \in DOMAIN stmt.columnSpecs})
    \cup (UNION {{c[1], c[2]} : c \in ToSet(stmt.updates) \cup ToSet(stmt.selections)
                                         \cup ToSet(stmt.joinConditions)})
    \cup ToSet(stmt.columns) \cup ToSet(stmt.values)
    \cup {stmt.tableName, stmt.branchName, stmt.parentBranchName, stmt.filePath}

\* CREATE TABLE skips whatever stands between the name and the column list.
Skipped(p) ==
    /\ stmt.tableName # Unset
    /\ p > stmt.tableName
    /\ \A q \in stmt.tableName .. p : tokens[q] # "("

\* Every identifier and every literal of an accepted statement is part of the
\* statement that goes to the analysers: none is read and dropped, and nothing
\* else is taken for a name.
NothingReadIsLost ==
    Accepted =>
        Mentioned \ {Unset, Master} =
            {p \in DOMAIN tokens : /\ tokens[p] \in Literals \cup {"identifier"}
                                   /\ ~ Skipped(p)}

\* A column has the length, the precision and the nullability it is declared
\* with, although each of them is set in up to four different states.
ColumnSpecsAsWritten ==
    Accepted =>
        \A i \in DOMAIN stmt.columnSpecs :
            LET spec == stmt.columnSpecs[i]
                hasLength == tokens[spec.type + 1] = "("
                hasPrecision == hasLength /\ tokens[spec.type + 3] = ","
                behind == spec.type + (IF hasPrecision THEN 6
                                       ELSE IF hasLength THEN 4 ELSE 1)
            IN  /\ spec.type = spec.name + 1
                /\ spec.length = IF hasLength THEN spec.type + 2 ELSE 0
                /\ spec.precision = IF hasPrecision THEN spec.type + 4 ELSE 0
                /\ spec.nullable = (tokens[behind] # "not")

\* What is accepted is complete, and it is what was written: versions,
\* conditions, column types, every name and every literal (parseToken).
ParsedAsWritten ==
    /\ AcceptedIsComplete /\ VersionAsWritten /\ ConditionsAsWritten
    /\ NothingReadIsLost /\ ColumnSpecsAsWritten

\* When the query context is gone the statement has been deleted, and not by
\* both of its owners: a syntax error in any state included.
StatementFreedOnce ==
    state = "Destroyed" => freed = IF allocated THEN 1 ELSE 0

\* "If stream reaches end without terminating with a delimiter put a delimiter
\* back": when the characters have run out, parseStatement accepts at most one
\* more of the literals Tokenizer::next goes on returning before it throws, in
\* every state but the one that skips all tokens up to a bracket (CREATE TABLE
\* with a name), which never ends.
EndOfInputEndsParsing ==
    (ended /\ Parsing /\ state # "CreateTableRelationName") =>
        \A s, next \in States :
            <<state, "string", s>> \in Transitions => <<s, "string", next>> \notin Transitions
==============================================================================
