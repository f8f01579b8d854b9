# A verification project for TardisDB

TardisDB is a column store whose tables can be branched like a repository:
`CREATE BRANCH` makes a copy of every table, in no time and without copying a
row, and `INSERT`, `UPDATE`, `DELETE` and `SELECT` name the branch they are
about. SQL is parsed, analysed into a tree of logical operators, translated
into physical operators that generate LLVM code, and run. This directory models
the parts whose correctness is a matter of state and order, checks them with
TLC on small instances, and proves what matters most with TLAPS.

## The system

| Component | State | Operations | Calls |
| --- | --- | --- | --- |
| Version management (`foundations/version_management.*`) | per tuple a `VersionEntry` and a list of `VersionedTupleStorage`, shared by all branches | `insert_tuple`, `update_tuple`, `delete_tuple`, the `get_*_chain_element` walks, `destroy_chain` | `Table`, `Database` |
| Tables and branches (`foundations/Database.*`) | branch tree, `_next_branch_id`, tables, the branch bitmap and null bitmap of a table | `createTable`, `createBranch`, `addRow`, `removeRowForBranch`, `constructBranchLineage` | `BitmapTable` |
| Optimistic lock (`utils/optimistic_lock.hpp`) | one word in every `VersionEntry` | read, upgrade, write lock and unlock | nobody yet |
| SQL parser (`tools/sqlParser`) | tokens, a state, a `SQLParserResult` | one transition per token | tokenizer |
| Semantic analysis (`tools/semanticalAnalyser`) | `AnalyzingContext`: bound relations, information units, join graph, tree | verify and construct, per statement | `Database` |
| Logical algebra, translation (`algebra/logical`, `algebra/translation.cpp`) | operator tree with required and produced information units | the IU passes, translation | physical operators |
| Physical operators (`algebra/physical`) | code being generated; hash tables at run time | produce and consume | runtime containers, version management |
| Runtime containers (`foundations/Vector`, `MemoryPool`, `Hashtable`, `StaticHashtable`) | buffers, chains | append, insert, lookup | generated code |
| SQL values (`sql`, `native/sql`) | none | arithmetic, comparison, casts, hashing | physical expressions |
| Query pipeline and server (`tools/queryCompiler`, `tools/queryExecutor`, `server.cpp`, `sql.cpp`, `main.cpp`) | databases of the server, timings, response buffers | compile and run a statement, HTTP handlers | everything |

What is hard here is not concurrency: the server runs one thread, and the only
code written for several threads is the optimistic lock. It is

- *order and aliasing in shared structures*: all branches share one list per
  tuple; an update in master moves the entry from the middle of that list to its
  head; names are handed on by reference in the join construction and
  overwritten on the way;
- *agreement of two pieces of state kept by different code*: the bitmap says
  whether a branch has a tuple, the chain says which version it is;
- *limits*: eight branches per table and a resize that throws, in the middle of
  a loop over the tables;
- *boundaries*: a version is inherited iff its timestamp is smaller than the id
  of the branch that inherits it; numbers, strings and tables that reach the
  width of their type or the capacity of their buffer;
- *two implementations of one thing*: every SQL value exists as native code and
  as generated code, and both read and write the same memory;
- *lazily computed sets*: an operator caches the information units it produces
  and requires, filled for the whole tree by whoever asks first;
- *exceptions*: a statement may throw while it is parsed, analysed or, in the
  middle of a function, generated, and the thread-local generator and the
  response buffers live on;
- *interleavings*, for the lock.

The properties that make the components correct are those of the runs below.
`PROJECT.json` lists every hazard at its line with the properties that would
catch it.

## The modules

### `Walks`, `VersionManagement`, `BranchStore`

`VersionManagement` is the storage of one table. Its variables are the fields of
the code (`next_branch_id`, `parent_id`, `branchBitmap`, `version_mgmt_column`,
`storage` for the heap, `column` for the columns), and its actions the
operations that change them: `createBranch`, `insert_tuple`,
`update_tuple_in_master` and `update_tuple_in_branch` (the two halves of
`update_tuple`), `delete_tuple`. The content of a row is the number of the write
that stored it, so any two writes are told apart. `is_visible`, the walks over
the chain, `branch_lineage`, `destroy_chain` and `TableScan` are operators.
`Walks` turns a loop that follows a pointer into the sequence of places it
visits, by a recursive function.

`BranchStore` is what the users of a branch see: a table per branch, a branch
starting as a copy of its parent's, no write visible anywhere else. It has a
page of text and no chain, timestamp, lineage or bitmap; `VersionManagement`
maps its scans to it (`ViewOf`) and implements it.

### `Catalog`

The branches and tables of a `Database` as statements change them, with the
limit of the bitmaps (`availableCount`, eight in the code). `BitmapTable::resize`
throws; `createTable_fails` and `createBranch_fails` are the statements it cuts
short, and they keep whatever the statement had done: a column that is counted
but does not exist, a table registered without SQL columns, tables visited
before the one that throws (`before`; the map is unordered, so any set).

### `OptimisticLock`

Every function of `utils/optimistic_lock.hpp` as one action, or as one per
atomic access (`writeLockOrRestart` loads and exchanges in separate steps, and
the spinning reader waits for an unlocked word). The repository has no client
of the lock, so the module takes any client that keeps to the contract of the
calls: it writes under the lock only, checks what it read, lets go of
everything on "restart required", and does not wait for a lock while it holds
one. `content` is a counter that is `Torn` between the first and the last store
of a write. The lock word is an unbounded number here; the 64 bit word of the
code wraps after 2^62 acquisitions of one node, which is left out.

### `JoinGraph`

`construct_join_graph` and `construct_join` of `SelectAnalyser.cpp`. The code
passes names as `std::string &`, and the model keeps the references: the name of
an activation of `construct_join` is the `uID` of the edge through which the
vertex was entered, and changes when that edge is assigned. A query is any
sequence of conditions; the vertex the walk starts at is any, as it is the first
of an unordered map.

### `SqlParser`

The state machine of `SQLParser::parseToken`: `InitTransitions` to
`SelectTransitions` are the cases of its switch as a table, `Collected` is what
a token adds to the statement in each of them, and `acceptToken`, `rejectToken`
and `acceptDelimiter` the ways a step ends. A token is its kind, and the text of
a name or a literal is the position it was read at, so a name that ends up in
the wrong place is noticed; that also stands for `Tokenizer::prev`, which
fetches a column by its distance. `endOfInput` is what `Tokenizer::next` does
when the characters run out. `convertToParserResult` and `destroyQueryContext`
follow the statement from the `ParsingContext` to the `SQLParserResult`, whose
destructors both delete it.

### `SelectBinding`, `RowStatements`

`SelectBinding` is what the names of a `SELECT` mean, phase by phase as the
analyser works: `verify_relation` and `verify_column` (the loops of `verify`),
`construct_scans`, `construct_select`, `construct_join_graph` with
`joinedColumn`, `project` and `constructResult`. The statement is chosen while
it is read, and the traversal order of the `ius` map when it is filled. Column
names are numbers, so that `set_intersection` can be what the library does with
a range that is not sorted. `JoinGraph` continues with the joins.

`RowStatements` follows the values of `INSERT`, `COPY FROM`, `UPDATE` and
`DELETE` into the rows: three lists (columns named, values given, columns of the
table) that the code indexes with each other, and the hash map through which an
`UPDATE` sees the columns. `meant` is what the statements say.

### `SqlTypes`, `LegacyTypes`, `SqlValues`, `NativeValues`, `SqlOperators`, `ColumnValues`

The first five are the pure part of the SQL values: types and their sizes, the
conversions from and to text, the values as generated code handles them, the
values as native code does, and the operators with their overflow bits, casts
and three-valued logic. The classes of integral values differ in a few respects
only, so a class is a record of what its member functions do. A string is a
sequence of bytes; a Varchar is its length and its characters, a Text is two
words with a tag bit. Memory nobody wrote is any of `Garbage`.

`ColumnValues` is the life of one column of one row: native code writes it
(`INSERT`), generated code scans, compares, materialises and rewrites it, the
translator hands it to a callback, and expressions compute with operands.

The widths are constants, so that TLC meets the cases at their limits: 8 bit
Integers, 16 bit Numerics, bytes of 8 values. Days are counted from 4714 BC, so
a Date keeps 24 bits and real years.

### `Containers`, `Expressions`, `Evaluation`, `HashJoin`, `GroupBy`, `QueryExecution`, `QueryMeaning`

`Containers` has `Vector`, `MemoryPool` and `Hashtable` as records with an
operator per member function; `Expressions` says what expressions are, and
`Evaluation` types, translates and evaluates them. `HashJoin` is the join as the
compiled query executes it, one action per node appended, torn into a bucket,
looked up and compared; `GroupBy` aggregates what the join hands up, with every
aggregator the code has; and `QueryExecution` composes the two with a selection,
one query after the other over tables whose rows come and go. `QueryMeaning` is
the reference the result is compared with: the relational definition over sets
of pairs of rows and exact fractions.

Evaluation is recursive, and the execution needs it only as a function from an
expression and the values of its columns. So `QueryExecution` has it as a
constant, `Evaluate`, and the run gives it the definition of `Evaluation`
(`MCEvaluate`; likewise `Translate`). What is proved of the execution is proved
for whatever expressions compute.

### `QueryAlgebra`

The logical operators a statement's analysis builds (`newTableScan`,
`newSelect`, `newJoin`, `groupBy`, the statement's root), the caches of produced
and required information units with the traversals that fill them, the
verifier, the translation into physical operators, and what each of these looks
up in the values it is handed. What the constructors set is in `ops`; the
caches are next to it, a list or a set for each field, and a node of the
physical tree goes by the index of its logical operator. The traversals follow
the tree by recursive functions, and a traversal that changes the operators is
the sequence of the states between its calls.

### `CodeGen`, `QueryPipeline`, `GeneratedCode`

`CodeGen` is the generation of control flow: `IfGen`, `LoopGen`, `FunctionGen`
and `ModuleGen` over basic blocks, with the pending jumps of `nextBBVec`. A
branch that ends with a jump is not followed by `ElseIf`: no caller does that,
and the code would leave the jump pending. `QueryPipeline` composes it with the
server: requests of several statements, the stages of a statement, exceptions
in all of them but the run of the generated code (in the middle of the
generation too), the response buffers, and the databases clients create and
drop. `GeneratedCode` executes the function that was generated with a small
interpreter (`Execute`) and compares it with what the calls mean (`Meaning`, a
recursive definition on the sequence of calls); it extends `QueryPipeline` and
is a module of its own because the prover does not take recursive operators.

## What the runs check

| Run | Bounds | Shows |
| --- | --- | --- |
| `branch_versions` | 3 branches, 2 tuples, 4 writes | `TypeOK`; `ChainNewestFirst`: the list has all versions from the newest to the oldest; `DestroyFreesEachStorageOnce`; `EarliestIsInsertedVersion`; `LineageFilterKeepsTuples`: bitmap, visibility and chains agree; `BranchIsolation`; `ImplementsBranchStore` |
| `catalog` | 2 tables, rows of 3 bits, 5 branches, 2 rows, 2 failures | `BranchBitInsideRow`, `FailureKeepsRows`, `BranchStartsAsParent` |
| `lock_coupling` | 2 threads, 2 nodes, words up to 10, 2 writes per node | `ValidatedReadIsCurrent`, `OneHolder`, `UpgradedReadIsCurrent`, `ObsoleteIsFinal` |
| `join_tree` | 3 tables, 4 conditions | `JoinsHaveConditions`, `FirstVertexJoinsNeighbors`, `JoiningTerminates` |
| `join_all_tables` | 3 tables, 3 conditions | violated: `OneRootJoinsAllTables` |
| `sql_statements` | lists of 2 | `ParsedAsWritten`: versions, conditions, column types, names and literals of an accepted statement are the ones written; `StatementFreedOnce`; `EndOfInputEndsParsing`: a text that ends early is refused after one more token, `CREATE TABLE` apart |
| `select_binding` | 2 tables of 2 columns, 2 relations, 2 columns mentioned | `AcceptedColumnsFound`, `ResolvedInItsRelation`, `SortedColumnsAreUnambiguous`, `DistinctRelationsAreScanned` |
| `row_statements` | 2 columns, 2 rows, lists of 3, 2 updates | `OrderedStatementsMeanWhatTheySay` |
| `column_values` | 8 column types, texts and operands at the limits of scaled-down widths | `WrittenIsRead`, `LiteralFindsItsValue` (with equal hash values), `ReceivedIsWritten`: the native and the generated implementation agree about memory; `ExactOrFlagged`: arithmetic is exact or reports an overflow |
| `query_execution` | 3 build rows, 2 probe rows, 4 lists of aggregators | `ColumnsHoldTheRows`, `EveryBuildRowInOneList`, `NodesKeepTheirMemory`: the containers while they grow; `QueryAnswersItsMeaning` |
| `query_algebra` | 2 tables, 6 columns scanned, 1 selection, joins of 2 conditions | `EveryLookupSucceeds`, `ScansLoadWhatIsUsed`, `VerifierAcceptsUnaryPlans` |
| `query_pipeline` | 3 requests of 2 statements; 7 calls generate the first query, 2 a later one | `GeneratedCodeDoesWhatTheCallsSay`, `GeneratorsAreGone`, `ResponseIsOfTheLastStatement`, `DatabasesAreSeparate` |

Why the bounds are enough:

- *Chains.* A master update in the middle of a list needs an insert, a branch
  update on top of it, the master update, and one more update of either kind on
  the result: four writes.
- *Views.* With three branches a version can reach a grandchild through a child
  that was created before or after it, and a sibling that must not see it; the
  second tuple tells apart what is kept by tid.
- *Catalog.* Three bits are reached by three branches; five branches would
  overrun them. Two tables let one clone before the other throws, and two
  failures let a second statement run after a first that failed.
- *Lock.* A word of 10 allows two turns of lock and unlock and one of obsolete
  between a reader's first look and its check. Two nodes are what lock coupling
  takes. More threads and nodes are left to the proofs.
- *Joins.* Three tables allow paths, stars, cycles, and self edges; four
  conditions allow every edge and a second condition on one of them. The
  flaw of `join_all_tables` needs two edges.
- *Statements.* Every list of the grammar is a loop that returns to one state
  with nothing but its last element in reach, so two elements are what it takes
  to damage one while the other is read. Every token is tried in every state.
- *Binding.* Names collide in pairs: two relations, of one or two tables, with
  aliases that are new or the name of the other table; two columns can be in
  either order and shared or not. Two columns mentioned can be of one relation or
  of both.
- *Rows.* Lists of three are longer than the table has columns; a second update
  works on what the first has left.

- *Values.* The code has no width but in its types and in the masks and
  boundaries the constants stand for, so a limit is the same case at 8 bits as
  at 32. The texts lie on both sides of every limit: the largest and the
  smallest Integer and the ones behind them, more digits than a Numeric has,
  leap days, strings of every length from empty to longer than a word, a
  Varchar whose length does not fit the byte it is kept in. Every type is
  written, rewritten with a shorter text, and read back.
- *Execution.* A vector that starts with room for one element grows twice; the
  list header leaves no room for a node in the first pool block of 6 bytes, so
  the first node asks for a second block; a hash table of 2 buckets grows with
  its first group and again with its third. Two keys share a hash code
  and two codes share a bucket. There are no rows, one, and as many as make the
  table grow; sums overflow, and divisions by zero leave the query.
- *Algebra.* Two scans (of one table or of two), with and without a
  selection on either side, joined and grouped: every shape of tree has each
  operator below each other once. Six columns are three scans of the smaller
  table, so that a join of joins is among the plans.
- *Pipeline.* Seven calls nest two generators with a jump out of both and code
  behind them; a later query only has to find the generator as the first one
  did, for which an exception after two calls is enough. Three requests allow
  one that fails between two that do not.

`CHECK_DEADLOCK FALSE` is given where the system may stop: `Catalog` (all tables
exist and the bounds are reached), `OptimisticLock` (the bound on the words
stops the acquisitions), `JoinGraph` and `SelectBinding` (the analysis is over),
`SqlParser` (the statement is parsed), `RowStatements` and `QueryExecution` (an
access beyond a list, or an assertion, ends the process), `ColumnValues` (the
process ends with a trap), `QueryAlgebra` (the plan has run) and `QueryPipeline`
(the last request is answered). `VersionManagement` never deadlocks, because a
delete is always possible.

*Fairness.* `construct_join` is an ordinary function that runs on once it has
been called, so its steps are weakly fair as one action (`JoiningTerminates`).
Adding conditions and starting the walk need not happen. No other property
needs fairness.

## Findings

- `construct_join` (`tools/semanticalAnalyser/SelectAnalyser.cpp:197`) assigns
  through a reference to the edge. For the conditions `c = a`, `a = b` and a
  walk that starts at `c`, `a` is entered with the name of the edge, which the
  next assignment changes, and `b` is never joined; the check in
  `construct_joins` does not notice (run `join_all_tables`). What does hold is
  that joins that are built are sound (`JoinsHaveConditions`), and that the
  first table's own neighbours are joined (`FirstVertexJoinsNeighbors`).

The models also show behaviour that the properties exclude by a condition, or
that a definition has as it is; it has no run of its own.

Statements and names:

- `get_chain_element` (`foundations/version_management.cpp:241`) never
  decrements its offset: every `revision_offset` but 0 finds nothing.
- The tokenizer cannot put a delimiter back when its stream is at the end
  (`tools/sqlParser/Tokenizer.cpp:112`): a statement without `;` is refused, and
  `CREATE TABLE name` without `;` is parsed forever.
- `SelectAnalyser::verify` (`SelectAnalyser.cpp:27`) lets ambiguous columns pass
  if the relation with the alias comes first or the columns of a table are not
  declared in alphabetical order (`SortedColumnsAreUnambiguous` is what it
  guarantees). An alias may be the name of another table of the query, which is
  then not read (`NamesDistinct`), and `SELECT *` has no columns of a table with
  an alias.
- `INSERT` with its columns in another order than the table's stores the values
  in the wrong columns (`InsertAnalyser.cpp:49`), and with too few values leaves
  columns undefined. `UPDATE ... SET c = ''` leaves `c` as it is
  (`Update.cpp:40`).
- The example statements at the end of `SQLParser.cpp` use aliases in `UPDATE`
  and `DELETE`, which the parser refuses.
- Columns declared nullable are refused (`CreateTableAnalyser.cpp:18`), so no
  value of a table is null. A column named `tid` hides the one of the scan.

Plans and execution:

- Two conditions between the same tables in opposite directions end up in one
  hash join with one pair the wrong way round, where the lookup of a value
  always fails (`ReversedPair`); the check for it in the constructor of
  `HashJoin` is commented out (`HashJoin.cpp:215-221`).
- `verifyDependencies` rejects every plan whose join uses columns of both
  sides; its callers ignore the result.
- A hash join whose left table is empty when the query is compiled, and whose
  right table is not, fails an assertion (`HashJoin.cpp:251`): the scan of an
  empty table generates nothing, so the join never learns the type of its nodes
  (`assertFails`). When the selection drops every build row instead, the size of
  the hash table comes from the logarithm of zero, which makes one bucket on the
  machines the build targets.
- A division by zero returns from the middle of the query without freeing the
  hash tables and pools.
- An `IfGen` with `ElseIf` and without `Else` leaves its last test's block
  outside the function, and a variable that is not set in every branch gets a
  PHI node without the missing edges (`Misused`).
- A vector constructed for more than two elements keeps the capacity of two
  (`Vector.cpp:24`, tests only).

Values:

- `getNull(Bool)` throws when the code is generated, so a comparison or a
  connective on a nullable operand never compiles. Bools are ordered as signed
  bits: true is less than false.
- The text of an Integer wraps at the width of the type, and the shift of a
  Numeric overflows silently. A quotient whose dividend has the larger precision
  has the wrong scale, a Numeric is cast to Integer unscaled, and a product has
  at most 18 digits behind the point whatever its factors have. The shift of a
  dividend is read from a table of the powers of ten up to 18
  (`LegacyTypes.hpp:19`) at up to twice the digits of the divisor
  (`SqlOperators.cpp:321`), and so from behind its end (`Wild`). The smallest
  Integer divided by -1 traps.
- A native Varchar is stored without a check of its length, which is kept in one
  byte. A long Text is read wrongly by generated code. The hash of an empty
  string reads a character that is not its own.
- A day of up to 31 is taken for every month.
- `genCastStringToUnsignedLongIntegerValueCall` calls the 32 bit parser
  (`LegacyTypes.cpp:107`).

Server:

- A request without a statement is answered with the tuples of the request
  before it; when a statement throws, the response has the columns of an earlier
  one. The columns of a response are read through pointers to information units
  of a query context that is gone (`server.cpp:147`; `Unspecified` in the
  model).

## What is proved

All proofs are for any value of the constants. They assume of them that

- bounds are natural numbers, `MaxBranches` and `availableCount` not zero
  (bounds appear in guards only, so no proof depends on how large they are);
- the value that stands for "none" is not one of the real ones: `NoTable` is no
  table, `NoInput` no statement, `""` no table and no binding;
- column names are integers (`SelectBinding`, where only their order matters);
- the machine's widths are positive and an Integer is not wider than a Long; two
  words hold the length of what they hold (`WidthsAssumption`, `WordAssumption`);
- hash codes are natural numbers, and a node and the header in front of the
  nodes take memory (`JoinAssumption`);
- operands of expressions are values that the code generates
  (`OperandsAssumption`);
- the columns of a table are a list of names (`AlgebraAssumption`);
- literals are natural numbers and a table has a column (`RowStatements`; the
  marks for undefined memory and for a column that is not updated are negative);
- a statement that is done without a tree has no rows (`QueryPipeline`):
  `CREATE` leaves `joinedTree` null, and nothing is run.

Each module of proofs names its inductive invariant first, proves per action
that it is kept, conjunct by conjunct, and draws the theorems from it.

**`VersionManagementProofs`**, in five layers.

1. *Walks.* The library's theorem on recursive functions has an operator
   parameter, which the provers cannot instantiate, so `WalkStep` builds the
   function from its finite approximations, by an induction over `Nat` stated
   with sets. (It is in `Lemmas`, with what else several proofs use: induction,
   walks, powers, sequences.) A walk depends only on the fields of the places it can reach
   (`WalkAgree`).
2. *Chains.* `TypeOK` is not inductive: whether a pointer that an update stores
   is one of the tuple's depends on the order of the chain, and that order
   survives an update in master only if `prev` is what precedes the entry. The
   invariant is `IInv == TypeOK /\ ChainNewestFirst /\ PrevPrecedesEntry`
   (`ChainInvariant`; `TypeCorrect` and `ChainsSorted` are parts of it).
   `LatestIsNewestVisible`: the first visible element
   `get_latest_chain_element` meets is the newest visible one. `DestroyIsExact`:
   a walk over such a chain meets every storage of the tuple once, so
   `destroy_chain` frees each of them and none twice.
3. *First versions.* `EarliestIsFirst` needs more than the order: from the entry,
   `next_in_branch` stays in a set of storages with falling timestamps; from a
   storage outside that set it goes down or leads to the entry; and only the
   oldest version ends it (`MasterLists`).
4. *Scans.* `ScanInv == IInv /\ BitsVisible /\ MasterNewest` (`ScanInvariant`)
   ties the two structures that different code keeps: a branch whose bit is set
   sees a version of the tuple, and the entry of a tuple master has written is
   master's newest version. From it, `Shows` says what a scan of a branch
   returns for a tuple without mentioning the walk. `BranchesAreIsolated` then is
   a matter of timestamps: a version written in a branch is seen by that branch
   and by nobody that existed before (`WrittenIsPrivate`). `FilterKeepsTuples` is
   the same for the filter on `branch_visibility`, with `InsertingBranch`.
5. *Refinement.* `ChainsImplementStore`: the initial scans are the store's
   initial tables, and each operation maps to the store's of the same name
   (`CreateBranchForks`, `InsertInserts`, `UpdateWrites`, `DeleteDeletes`). A new
   branch sees what its parent sees because every version is older than it
   (`CreateBranchSees`). `BranchStore` has no fairness, so this is the whole of
   `ImplementsBranchStore`.

**`StatementProofs`**, of what statements leave behind.

*Catalog.* `CatalogInv == CatalogTypeOK /\ BranchBitInsideRow /\
NextColumnIsNextBranch` is inductive, shown table by table (`TableInv`).
`CatalogTypeCorrect`, `BitsInsideRows`, `FailuresKeepRows` and
`BranchesStartAsParents` follow. `FailuresKeepRows` is why a failing
`createBranch` does no harm although it may throw after other tables have been
visited: all tables are full at the same time, so the first one visited throws.

*Rows.* `OrderedStatementsMeanWhatTheySay` is inductive as it
stands; what takes the work is that an `UPDATE`, which meets the columns in the
order of a hash map, stores the row that is meant: an ascending list of the
indexes 1 to n has index i at place i (`AscendingIsTheOrder`), so after
`sortColumns` each value is at the place of its column, and a value that is
given is never taken for one that is not (`UpdateStoresWhatIsMeant`).

*Values.* `ComputedIsExactOrFlagged`: whatever the widths of the numbers and the
operands, as long as these are values the code generates (`GeneratedValue`: the
layouts `getNumericTy` makes, a raw value within its width). The powers come
first: `powerOfTwo` and `powerOfTen` are recursive functions, and that a sum of
exponents is a product of powers (`PowersMultiply` in `Lemmas`) is what the
scales are about. A number that fits is not changed by the cut to its width
(`FittingIsKept`), so a checked operation is exact or flagged
(`CheckedIsExact`); an amount brought to the larger scale is the same amount
(`ScaledSum`); a quotient does not change when dividend and divisor have a
common factor (`TruncatedCancels`), which is what the shift of the dividend
relies on. Nulls are handled apart from the operations: `Handling` is what
`nullHandler` makes of any operation, so each operation is shown to meet its
result on values that are there (`Meets`), once, for nullable types and others.
That no result of type Bool is nullable is a fact about the text `"false"`
(`NoNullBool`), which is no number.

**`OptimisticLockProofs`**. `LockInv` joins `OneHolder` with what a thread may
remember: noted words were unlocked and are not ahead of the lock
(`NotedWords`), what has been read is noted or held, and a torn node is locked
by a writer that knows what it builds on (`Remembered`). It is proved pointwise,
node by node and thread by thread: the lemma `OtherView` is the heart of it,
saying that a thread does not notice what others do because lock words only
grow. `MutualExclusion`, `ValidatedReads` and `UpgradedReads` are its parts;
`ObsoleteForever` lists the changes a step can make to a node and shows that
none leads from an obsolete word to another one.

**`JoinProofs`**, of the join while it is planned and while it runs.

*Join graph.* References make an edge change under the feet of the
activations that hold it. `JoinInvariant`: an edge still is as the conditions
made it, or both its names are tables that are joined (`EdgesIntactOrUsed`), and
every edge an activation has left touches a joined table (`EdgesReached`).
`EveryJoinHasItsConditions` follows: the conditions of a join are between its
table and those joined before. For `NeighborsOfTheFirstAreJoined`, an activation
other than the first never changes an edge at the first vertex (`FirstActivation`,
`LaterActivations`), so a neighbour is joined or its edge is still in the first
loop (`NeighborsLeft`).

*Hash join.* `ExecColumnsHoldTheRows` is `ColumnsInv`: a column is a vector with
room for what it holds, and growing keeps it. `ExecNodesKeepTheirMemory` and
`ExecEveryBuildRowInOneList` are of the memory the nodes of a hash table are
taken from. `MemoryInv`: the pool hands out pieces of one block after the other,
so the address of a node grows with the order of allocation, and no two pieces
overlap however the sizes of the blocks grow. `ChainInv` adds where the nodes
are: while the build side is read they are one list that runs to higher
addresses (`NodesInv`, `ListInv`); torn into the table, each bucket is a list
that runs to lower ones, in the bucket of its hash code (`BucketsInv`); and the
nodes still in the list and those in the buckets are together all of them
(`CountInv`). So a chain cannot have a cycle, a walk over it ends, and the place
of a node in its chain is the number of nodes of the chain in front of it. The
number of buckets is a power of two with room for the rows (`powerOfTwo`).

**`FrontEndProofs`**, of what a statement goes through before it is a plan.

*Parser.* `EndOfInputIsTheEnd` is a fact about the transition table;
`StatementIsFreedOnce` follows the owner of the statement (`OwnerInv`).
`ParsedStatementIsAsWritten` is for texts of any length: `ParseInv` says, state
by state, which of the tokens behind the machine are the ones in the statement
(`VersionsInv`, `ConditionsInv`, `ColumnsInv`, `PartsInv`, `NamesInv`) and that
every name and literal read is in the statement or is the left side of a
condition that has no operand yet (`MentionInv`). What the proof uses of the
table is shown for each part of it first (`RelationTransitions`,
`ConditionTransitions`, ...), so a step of the machine is one case for each
idea and not one for each of its states.

*Names.* `SelectInv` has one part for each phase of the
analysis: what `verify` has collected (`VerifyInv`, with `Apart`: what
`set_intersection` does find), what `ius` holds for every name (`IusInv`), the
productions and vertices, and the references resolved so far. Its consequences
are `AcceptedColumnsAreFound` (a column that `verify` accepts is found in every
later phase, so no lookup by an absent name happens),
`ColumnsResolveInTheirRelations`, `RelationsAreScanned` and
`SortedColumnsBelongToOne`. The proofs showed that two of the properties need
not ask for distinct names, and they are stated without it now.

**`QueryAlgebraProofs`**. None of the three properties of `QueryAlgebra` is
inductive, because what an operator finds when the plan runs was decided when
somebody first asked for a cache: a scan is asked when it is constructed, and
then the verifier, a sibling in the middle of a traversal, or the constructor of
the stream that prints the result may be the first. `AlgebraInv`
(`AlgebraInvHolds`) follows the caches through the life of a plan. Before the
translation they are untouched but for the columns of the scans (`Untouched`), or
the verifier has filled them all (`Ready`); behind it they are filled, and the
nodes of the physical tree are those of the logical one (`NodesOf`).

1. *Trees.* While operators are added, those without a parent are the roots of
   disjoint trees, and an operator is newer than its children (`Forest`).
   `getRoot` finds the root of every operator of a tree (`RootOfTree`), and the
   traversals visit children first (`ChildrenFirst`), or parents first and the
   split of a join behind both its sides.
2. *Produced IUs.* `Offered` is what an operator has to offer, whatever its
   cache holds; a cache that is up to date is that set (`CachesRight`), and
   `updateProducedSets` makes it so for a whole tree (`UpdateProduced`). Two scans
   never produce the same IU (`Apart`), and an operator refers to IUs that are
   offered below it (`Scoped`).
3. *Required IUs.* `computeRequired` asks for produced sets, and the first to ask
   fills them all in the middle of the traversal. `Progress` is what holds after
   any prefix of it: the operators reached have what their parents' sets say, and
   the joins split have both sides. At its end the tree is `Filled`.
4. *Running.* What an operator passes up is what is required of it and offered,
   by induction over the tree (`UpwardInduction`). The sides of a join offer
   nothing in common, so a pair is found if its sides are in the order of the
   first pair, and is not if they are reversed: the two directions of
   `EveryLookupSucceedsHolds`. `ScansLoadWhatIsUsedHolds` needs that what a scan
   is asked for was added by an operator above it, and
   `VerifierAcceptsUnaryPlansHolds` that without a join nobody has a sibling, so
   that a required set is handed down uncut.

**`QueryPipelineProofs`**. `GeneratorsLeaveNothing`: an exception may leave the
generation with a jump pending in `nextBBVec`, and what rescues the next query
is that a jump is pending only right after `break` or `continue` inside a loop
or a branch whose destructor takes it (`Pending`, part of `CallsInv`; call by
call in `GenerateCallInv`, for the unwinding in `UnwindInv`).
`DatabasesStaySeparate`: identifiers are handed out once (`DatabaseInv`).
`ResponseFollowsTheLastStatement`: the buffers hold the columns of the last
statement that began to generate and as many of its rows as have been streamed
(`ResponseInv`).

The type predicates and the parts of the inductive invariants that are no
properties of a run are proved rather than run.

Only model-checked:

- `QueryAnswersItsMeaning`, and `GeneratedCodeDoesWhatTheCallsSay` of
  `GeneratedCode`: what they compare is defined by recursion over groups and
  generated functions, and would be an induction over data;
- `WrittenIsRead`, `LiteralFindsItsValue` and `ReceivedIsWritten` of
  `ColumnValues`: what a conversion from or to text computes for every text is
  an induction over its characters;
- `JoiningTerminates`: liveness.

## What is not modelled

- Dangling tids: `_dangling_version_mgmt_column` is never filled, and
  `merge_tuple` is declared but not defined.
- A statement over two branches: `ExecutionContext::branch_lineage` is the one
  constructed last, and the models take the lineage of the branch asked for.
- The yielding scans of `version_management.hpp`, used by a benchmark only.
- The typed wrappers around LLVM values and the emitted loads and address
  computations; LLVM, JIT compilation, timings and file access.
- The internal null indicators of the values, which are not in the build.
- The PHI nodes of loop variables: a loop of `CodeGen` decides by its condition
  alone, and the PHI nodes checked are those of `IfGen`.
- Exceptions thrown by functions that the generated code calls while it runs.
- The splitting of characters into tokens, the schema parser (tests and
  benchmarks use it), the loader and the wiki importer, which copy files into
  tables by the operations modelled here; the command-line front ends, which
  call what the server calls.
- Third-party code (`third_party/ART`), the queries and benchmarks.

## Plan

What is left, in this order:

1. The memory layout of `ColumnValues` for the types that need no text.
2. A module for statements over two branches, which composes
   `VersionManagement` with an execution context and its one `branch_lineage`.
