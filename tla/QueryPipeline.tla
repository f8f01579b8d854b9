---------------------------- MODULE QueryPipeline ---------------------------
(***************************************************************************)
(* The server (src/server.cpp) and the way of a statement through it:      *)
(* compileAndBenchmark (src/tools/queryCompiler/queryCompiler.cpp) parses, *)
(* analyses, translates and runs one statement after the other, and any of *)
(* these stages may throw.  The endpoint has one thread: requests do not   *)
(* overlap.                                                                *)
(*                                                                         *)
(* A statement is [kind, throws, rows]: whether it has a tree that is      *)
(* translated ("select", "insert") or not ("create"), the stage that       *)
(* throws or "none", and the tuples it streams.  Code generation may also  *)
(* throw after any of its calls, such as for the failed lookups of         *)
(* QueryAlgebra.  A database is the sequence of the changes made to it.    *)
(***************************************************************************)
EXTENDS CodeGen, Functions

CONSTANTS Statements,       \* the statements clients send; NoInput is ""
          NoInput,
          MaxInputs,        \* bounds the statements of a request
          MaxRequests,      \* bounds the requests
          MaxCalls,         \* bounds the calls that generate the first query
          MaxCallsLater     \* bounds the calls that generate a later one

ASSUME PipelineAssumption ==
    /\ {MaxInputs, MaxRequests, MaxCalls, MaxCallsLater} \subseteq Nat
    /\ NoInput \notin Statements
    \* what is done without a tree streams no tuples
    /\ \A s \in Statements : s.kind = "create" => s.rows = 0

VARIABLES
    dbs,            \* the databases, by index
    dbcounter,      \* the last index given to a new database
    handedOut,      \* the indexes PUT requests were answered with
    requests,       \* requests so far
    sentTo,         \* the index the request in progress names
    dbindex,        \* the index of the database it uses
    inputs,         \* its statements
    at,             \* the statement in progress, or 0 without a request
    stage,          \* "next" statement, "generate", "run" or "respond"
    ss, first,      \* the tuples printed so far, and that there is none
    columns,        \* columnsstring: the statement whose columns it lists
    error,          \* the statements that were reported as failed
    generated       \* a query has been generated before

serverVars == <<dbs, dbcounter, handedOut, requests, sentTo, dbindex, inputs, at, stage,
                ss, first, columns, error, generated>>

Init ==
    /\ CodeGenInit
    /\ dbs = [i \in {0} |-> <<>>]
    /\ dbcounter = 0 /\ handedOut = <<>>
    /\ requests = 0 /\ sentTo = 0 /\ dbindex = 0
    /\ inputs = <<>> /\ at = 0 /\ stage = "next"
    /\ ss = <<>> /\ first = FALSE
    /\ columns = 0 /\ error = {}
    /\ generated = FALSE

-----------------------------------------------------------------------------
(* Requests *)

Idle == at = 0 /\ requests < MaxRequests

\* An index without a database falls back to the standard one.
resolve(index) == IF index \in DOMAIN dbs THEN index ELSE 0

Answered ==
    /\ requests' = requests + 1
    /\ UNCHANGED <<sentTo, dbindex, inputs, at, stage, ss, first, columns, error, generated>>
    /\ UNCHANGED codeGenVars

nextIndexBySize == Cardinality(DOMAIN dbs)
nextIndex == dbcounter + 1

put ==
    /\ Idle
    /\ dbcounter' = nextIndex
    \* emplace
    /\ dbs' = [i \in DOMAIN dbs \cup {nextIndex} |-> IF i \in DOMAIN dbs THEN dbs[i] ELSE <<>>]
    /\ handedOut' = Append(handedOut, nextIndex)
    /\ Answered

delete(index) ==
    /\ Idle
    /\ dbs' = IF resolve(index) > 0 THEN Restrict(dbs, DOMAIN dbs \ {resolve(index)}) ELSE dbs
    /\ UNCHANGED <<dbcounter, handedOut>>
    /\ Answered

\* A POST request: its statements, split at ";", are handled one after the
\* other; there is no input after the last ";".
post(index, statements) ==
    /\ Idle
    /\ requests' = requests + 1
    /\ sentTo' = index /\ dbindex' = resolve(index)
    /\ inputs' = statements /\ at' = 1 /\ stage' = "next"
    /\ columns' = 0 /\ error' = {}
    /\ UNCHANGED <<dbs, dbcounter, handedOut, ss, first, generated>>
    /\ UNCHANGED codeGenVars

-----------------------------------------------------------------------------
(* Statements *)

Statement == inputs[at]
Finished == at > Len(inputs)
Requested == UNCHANGED <<dbcounter, handedOut, requests, sentTo, dbindex, inputs>>

skipEmpty ==
    /\ at > 0 /\ ~Finished /\ stage = "next" /\ Statement = NoInput
    /\ at' = at + 1
    /\ Requested
    /\ UNCHANGED <<dbs, stage, ss, first, columns, error, generated>>
    /\ UNCHANGED codeGenVars

resetPrintersOnly == UNCHANGED ss /\ first' = TRUE

\* The JSON printers are reset for every statement.
resetPrinters == ss' = <<>> /\ first' = TRUE

\* The exception is reported, and the loop goes on with the next statement.
Report ==
    /\ error' = error \cup {at}
    /\ at' = at + 1 /\ stage' = "next"
    /\ UNCHANGED columns

\* The columns are named after the query context that owns them is gone:
\* reading them is undefined, and Unspecified is what may be found.
Unspecified == 99
nameColumns == columns' \in {at, Unspecified}

\* compileAndBenchmark up to compileQuery, including the analyser: a
\* statement without a tree has done its work in constructTree.
analyse ==
    /\ at > 0 /\ ~Finished /\ stage = "next" /\ Statement # NoInput
    /\ resetPrinters
    /\ \/ /\ Statement.throws \in {"parse", "verify"}
          /\ Report
          /\ UNCHANGED <<dbs, generated>> /\ UNCHANGED codeGenVars
       \/ /\ Statement.throws = "none" /\ Statement.kind = "create"
          /\ dbs' = [dbs EXCEPT ![dbindex] = Append(@, sentTo)]
          /\ columns' = at
          /\ at' = at + 1 /\ stage' = "next"
          /\ UNCHANGED <<error, generated>> /\ UNCHANGED codeGenVars
       \/ /\ Statement.throws = "none" /\ Statement.kind # "create"
          /\ stage' = "generate"
          /\ ModuleGenConstructor
          /\ UNCHANGED <<dbs, at, columns, error, generated>>
          /\ UNCHANGED <<functionGens, nextBBVec, blocks, insertBlock, gens, calls, maxCalls>>
    /\ Requested

Unchanged == UNCHANGED <<dbs, at, ss, first, columns, error>> /\ Requested

\* compileQuery
beginFunction ==
    /\ stage = "generate" /\ functionGens = 0
    /\ FunctionGenConstructor(IF generated THEN MaxCallsLater ELSE MaxCalls)
    /\ generated' = TRUE
    /\ UNCHANGED stage /\ Unchanged

generate ==
    /\ stage = "generate" /\ functionGens = 1
    /\ GenerateCall
    /\ UNCHANGED <<stage, generated>> /\ Unchanged

endFunction ==
    /\ stage = "generate" /\ functionGens = 1 /\ gens = <<>> /\ calls # <<>>
    /\ FunctionGenDestructor
    /\ stage' = "run"
    /\ UNCHANGED generated /\ Unchanged

throwInGeneration ==
    /\ stage = "generate" /\ functionGens = 1
    /\ Unwind
    /\ Report
    /\ Requested
    /\ UNCHANGED <<dbs, ss, first, generated>>

\* jsonStreamingCallback
Tuple == <<requests, at>>
Comma == <<>>
printed(tuples) == (IF first THEN tuples ELSE Append(tuples, Comma)) \o <<Tuple>>

Streamed == Cardinality({k \in DOMAIN ss : ss[k] = Tuple})

stream ==
    /\ stage = "run" /\ Streamed < Statement.rows
    /\ ss' = printed(ss) /\ first' = FALSE
    /\ UNCHANGED <<dbs, at, stage, columns, error, generated>> /\ Requested
    /\ UNCHANGED codeGenVars

\* executeBenchmarkFunction returns, and so does compileAndBenchmark.
finishStatement ==
    /\ stage = "run" /\ Streamed = Statement.rows
    /\ dbs' = IF Statement.kind = "insert" THEN [dbs EXCEPT ![dbindex] = Append(@, sentTo)] ELSE dbs
    /\ nameColumns
    /\ at' = at + 1 /\ stage' = "next"
    /\ ModuleGenDestructor
    /\ UNCHANGED <<functionGens, nextBBVec>>
    /\ UNCHANGED <<ss, first, error, generated>> /\ Requested

respond ==
    /\ at > 0 /\ Finished
    /\ at' = 0 /\ stage' = "next"
    /\ inputs' = <<>> /\ sentTo' = 0 /\ dbindex' = 0
    /\ columns' = 0 /\ error' = {}
    /\ UNCHANGED <<dbs, dbcounter, handedOut, requests, ss, first, generated>>
    /\ UNCHANGED codeGenVars

Next ==
    \/ put
    \/ \E index \in {0} \cup ToSet(handedOut) :
          \/ delete(index)
          \/ \E statements \in SeqOf(Statements, MaxInputs) : post(index, Append(statements, NoInput))
    \/ skipEmpty \/ analyse
    \/ beginFunction \/ generate \/ endFunction \/ throwInGeneration
    \/ stream \/ finishStatement
    \/ respond

Spec == Init /\ [][Next]_<<serverVars, codeGenVars>>

-----------------------------------------------------------------------------
(* Properties *)

(***************************************************************************)
(* A statement finds the thread-local code generator as the first one did: *)
(* whichever call of whichever query threw, the destructors have removed   *)
(* its module, its function and its pending jumps (the assertions in the   *)
(* constructors of ModuleGen and FunctionGen and in the destructor of      *)
(* CodeGen).                                                               *)
(***************************************************************************)
GeneratorsAreGone ==
    /\ stage = "next" => moduleGens = 0 /\ functionGens = 0 /\ nextBBVec = <<>>
    /\ moduleGens <= 1 /\ functionGens <= 1

HasStatement == \E k \in DOMAIN inputs : inputs[k] # NoInput
LastStatement == CHOOSE k \in DOMAIN inputs : inputs[k] # NoInput /\ \A j \in DOMAIN inputs : inputs[j] # NoInput => j <= k

(***************************************************************************)
(* The response to a request with a statement has the tuples of its last   *)
(* statement only, as a list, even when statements before it have streamed *)
(* tuples or thrown; all of them, unless it was reported as failed; and    *)
(* its columns are of that statement too when none was (server.cpp,        *)
(* onRequest).                                                             *)
(***************************************************************************)
ResponseIsOfTheLastStatement ==
    at > 0 /\ Finished /\ HasStatement =>
        /\ \A k \in DOMAIN ss : ss[k] = IF k % 2 = 1 THEN <<requests, LastStatement>> ELSE Comma
        /\ LastStatement \notin error => Len(ss) = 2 * inputs[LastStatement].rows - (IF inputs[LastStatement].rows = 0 THEN 0 ELSE 1)
        /\ error = {} => columns \in {LastStatement, Unspecified}

(***************************************************************************)
(* The index a PUT request is answered with is never given to another      *)
(* client, also after databases were deleted, and a database other than    *)
(* the standard one is changed by requests that name it only.              *)
(***************************************************************************)
DatabasesAreSeparate ==
    /\ IsInjective(handedOut)
    /\ \A i \in DOMAIN dbs \ {0} : \A k \in DOMAIN dbs[i] : dbs[i][k] = i
=============================================================================
