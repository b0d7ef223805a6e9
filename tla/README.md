# LinkletDB in TLA+

LinkletDB is an embedded property-graph database in C: a GQL front end, a planner, an executor and
a storage engine of four files (`nodes.ll`, `edges.ll`, `connectivity.ll`, `wal.ll`) and a catalog
(`metadata.ll`). One process with one thread uses a database at a time. What is hard about it is
not concurrency but *when the process stops* and *which call fails*: a statement changes several
files one write after the other, nothing is locked, and the next open has to make sense of what it
finds.

This directory holds TLA+ modules that model the code, TLC configurations that check them on small
instances, and theorems that TLAPS proves for every size.

    tlc -workers 2 -config GraphStore.cfg MCGraphStore    # one run, see PROJECT.json "runs"
    tlapm GraphStoreProofs.tla                                   # one proof module

`PROJECT.json` lists the components, the runs with their properties, the source lines every
definition stands for (`map`), a plausible bug for every property (`mutants`), the hazards of the
code, what the runs found (`findings`) and the theorems.

## 1. The system

| component | state | operations | who calls it |
|---|---|---|---|
| file access (`storage/mmap_file.c`) | a file, a mapping | read_at, write_at, resize, map, sync | storage, log, catalog |
| paged object file (`storage/paged_object_file.c`) | file header, pages of slots and payloads; in memory the header and an index from ID to slot | initialize, open, insert, read, update, delete | graph store (twice) |
| graph store (`storage/graph_store.c`) | two object files, the mapped COO array of edge endpoints with its counters | create, open, close, insert/update/delete of nodes and edges, DETACH | executor, log |
| executor (`execution/executor.c`, `kernel.c`) | none between calls | match, insert, update, delete | database, transaction |
| reachability (`execution/operators.c`, `advisor.c`) | two frontier buffers | bounded search | executor |
| log (`database/wal.c`) | `wal.ll`: a header and at most one frame | write_frame, apply, clear, replay | transaction, database open |
| transactions (`database/transaction.c`) | the buffered calls | begin, execute, commit, abort | shell |
| database (`database/database.c`) | the store, the catalog | create, open, close, execute | shell |
| catalog (`database/catalog.c`) | graph name, node labels, edge labels; `metadata.ll` | DDL, to and from BSON | database |
| planner (`planner/binder.c`, `bson_ast.c`) | none | AST to kernel call | database, transaction |
| BSON (`bson/*.c`) | byte buffers | validate, iterate, append, nest, merge | everything that stores or filters |
| lexer (`parser/lexer.c`) | position in the text, a window of 8 tokens | peek, advance | parser |
| parser (`parser/parser.c`) | error state; the tree being built | text to AST, by recursive descent | database, transaction |
| shell (`shell/linklet_shell.c`) | the open transaction | a line at a time | user |

How they interact: the shell hands a line to `linklet_transaction_execute` (buffered as a bound
kernel call) or to `linklet_database_execute` (run at once). A commit resolves the buffered calls
to operations on IDs, writes them as one frame to `wal.ll`, applies them to the graph store and
clears the frame. `linklet_database_open` opens and validates the store, reads the catalog, and
replays a frame if there is one. All calls are synchronous; there are no callbacks and no threads.

What makes each part correct:

* object file: an operation takes effect completely or not at all, whatever write it dies at; an
  operation that fails harms no other object; payloads never overlap; open rebuilds memory exactly;
* graph store: no edge dangles, at no step; no COO record lies outside the mapping; between
  operations the three files pass the validation of open; DETACH DELETE ends;
* log and transactions: a frame leaves the log only when the graph is what the commit stood for;
  predicted IDs are assigned; what was closed or committed opens again;
* reachability: the answer is that of the graph, within the hop bound, and the search ends.
* catalog: no label twice; what a DDL statement acknowledged is what opens; a crash leaves the old
  catalog or the new one;
* BSON: what was appended is what is read; what is written validates, what validates is readable;
* planner: the call selects what the statement says, an inserted edge points as its arrow does;
* parser: the window is the text; a lookahead has a slot for every token; what was written is in
  the tree; precedence, side and brackets give one tree; every text is read to an end.

## 2. The modules

Constants are the sizes and inputs of the system, an action is an operation or one of its writes,
and names are those of the source where TLA+ allows it. Definitions called `X_Something` next to an
`X` are seeded bugs: no action uses them; they are the mutated forms that `PROJECT.json` "mutants"
names. Variables `aux_...` are history that only properties read.

| module | models | state and actions |
|---|---|---|
| `PagedObjectFile` | `paged_object_file.c` | `disk_header`, `pages` are the file; `header`, the index and `op` are memory. Insert, Update and Delete decide what is to be written; `Write` performs one write or resize of the operation in progress; `WriteFails` is its error path; `Crash`, `Close`, `Open` |
| `ObjectFile` | what an object file promises | a map from ID to document; an operation interrupted by a crash has happened or not, or the file is lost |
| `GraphStore` | `graph_store.c` | documents and counters of the two object files, the COO records, the header of `connectivity.ll`, its size and mapping. An operation of an object file is one step, every store to the mapping and every resize another; `Continue` is the next step of the operation in progress; `OperationFails`, `GrowFails`, `Crash`, `linklet_graph_store_close`, `linklet_graph_store_open` |
| `PropertyGraph` | what the store promises | nodes, edges with endpoints, issued IDs; every change of a node or an edge atomic |
| `Match` | pattern matching of `executor.c` | pure: `linklet_resolve_match` over documents and records |
| `Database` | `database.c`, `transaction.c`, `wal.c`, mutations of `executor.c` | composes `GraphStore` (instance `Store`) and `Match`; adds the frame in `wal.ll`, the open transaction and the call in progress (`work`); a commit, an apply, a clear and a replay are sequences of steps between which the process may die |
| `Catalog` | `catalog.c`, `metadata.ll` | the catalog in memory, the file, the next step of `write_metadata` (resize, write, flush); `Execute` runs a DDL program on the catalog and begins the write |
| `Bson` | `bson_writer.c`, `bson_reader.c`, the value sizes of `bson.c` | a stack of documents under construction and one stored document; appending, nesting, clearing, copying, viewing, merging; the iterator as an operator over the cells |
| `BsonValidator` | `linklet_bson_validate` | pure: the validator over the documents of `Bson` and over damaged ones. By recursion, so in a module of its own |
| `Binder` | `binder.c`, `bson_ast.c` | a statement as its clauses; `Bind` applies `linklet_bind` to it |
| `Reachability` | `operators.c`, `advisor.c`, `execute_reachability` | one turn of the loop over the COO records is a step |
| `Lexer` | `lexer.c`, the token lists of `gql_lexer.h` | pure: `LexOne` from a place in a text, what a token decodes to, the value of a number |
| `Grammar` | the `parse_` functions of `parser.c` | pure: every function as the instructions it runs (take a token, expect one, open a node, choose by lookahead, repeat, call) |
| `Parser` | the parser at run time: window of tokens, error state, tree | `todo` is what is left of the functions that run; one action runs its first instruction, `Lex` is `ensure_token`, `Overrun` its write past the window |
| `ParserValues` | what the parser keeps of the values in a text | the tokens of a text and the values of a tree, by recursion; only the property `NamesKept` reads them |
| `GrammarShape` | the functions of `Grammar` | how many nodes each instruction opens, over all instructions there are; states what the proofs about `Parser` need of the grammar (`GrammarAssumption`) |
| `MC...` | | values for the constants |
| `PagedObjectFileProofs`, `GraphStoreProofs`, `DatabaseProofs`, `CatalogProofs`, `BsonProofs`, `ParserProofs` | | theorems about the module of that name |
| `QueryProofs` | | theorems about `Binder` and about `Reachability`, which it extends both |
| `CommonProofs` | | lemmas that these share: least elements and induction without an operator parameter, enumerations of a set in order, folds over a sequence |

What is abstracted, and why it is safe for what is claimed:

* In the storage modules a document is a model value or a small function with a length. Its bytes
  are the subject of `Bson`.
* The writer of `Bson` takes any key in an array, as the code does. A client that lost a nested
  document (`nested_end` failed) clears what it was building; it does not go on appending to it.
  The number of an array element takes one cell.
* A cell of `Bson` is what takes a fixed number of bytes; sizes are counted in cells, so that
  `MAX_SIZE` of 14 puts the size limit within reach of a small document.
* `Catalog` measures `metadata.ll` in characters, enough to tell a longer document from a shorter.
* In `Binder` an element is what its filler holds; texts are names, numbers have the two
  thresholds `INT32_MAX` and `INT64_MAX`. A path the binder cannot use (with a variable, a prefix,
  an alternation) is the empty path. Label expressions other than conjunctions are outside of the
  inputs; several labels in a MATCH are inside. `MatchMeansPattern` leaves out a MATCH on the
  property `_labels` (`InFull`): a label is the value of that key here, an array in the code.
* In `Lexer` and `Parser` a text is a sequence of ASCII characters, a keyword is what the table
  spells, lines and columns are left out, a node has its kind, marks, texts and children. The C
  stack, the wording of errors and memory exhaustion are not modelled.
* `Grammar` says which instructions a function runs, not which characters: the 3700 lines of
  recursive descent become a table of instruction lists, and `Parser` their only interpreter, so
  that every lookahead is a look into the real window and not into the text.
* A step of `GraphStore` that calls an object file is atomic. `PagedObjectFile` is the reason:
  a call takes effect completely or not at all, or leaves a file that does not open; `torn` is that
  third case after a crash.
* A crash is the death of the process. What it wrote survives it, as the page cache does; the
  failure of the machine is not modelled (neither does the code order its flushes for one).
* In `GraphStore` a crash or a close follows only behaviours without a failed I/O call: after one,
  memory and files differ in ways one set of variables does not describe.
  `PagedObjectFile`, where memory and file are separate variables, has both together.
* `Database` has no failing I/O (the component below has), and one session, as the shell runs it.

## 3. The runs

| run | question | size |
|---|---|---|
| `paged_object_file` | crash or failing write at every write: what does open find, do payloads overlap, is it an object map? | 1.4 million states |
| `graph_store` | three files, crashes, up to two failing calls: dangling edges, records outside the file, refused reopen, endless DETACH? | 127 thousand |
| `database_recovery` | statements, transactions, crashes, replays: is a cleared frame what was committed? | 394 thousand |
| `database_failed_commit`, `database_replay_detached`, `database_set` | what the tests and the README require and the code does not do (section 6) | counterexamples |
| `catalog` | DDL with crashes and failures between the writes of `metadata.ll` | 99 thousand |
| `bson` | every small document; every damage of one cell | 136 thousand |
| `binder` | every combination of clauses and elements: does the call mean what the statement says? | 32 thousand statements |
| `parser` | four hundred texts: is the window the text, does every lookahead fit, is all of it kept, are printed trees read back, does it end? | 44 thousand |
| `parser_endless` | does every parse end? (section 6) | counterexample |
| `reachability` | all graphs of up to 3 vertices and 3 records, every call: is the answer that of the graph, does it end? | 658 thousand |

What each property says is in the comment above it. Bounds, and why they suffice:

* `paged_object_file`: three IDs, pages of six units with one-unit slots and three documents of one
  or two units: a page fills up with two or three objects, so that updates fit in place, shrink,
  relocate within the page and to the second page, and the page limit (`UINT32_MAX` = 1) is reached
  with its off-by-one. `MAX_FAULTS` = 1 failing write combines with any number of crashes and
  reopens.
* `graph_store`: two node and two edge IDs give self-loops, parallel and opposite edges, an ID
  domain that runs full, deletes of the highest ID; the array has to double. Two failures meet:
  one that leaves an object nobody records, and a later one during its consequences.
* `database_*`: the same store, transactions of up to two statements out of seven that insert,
  update with and without duplicates, delete, detach. Two operations on the same element are what
  replay and prediction can get wrong; `SIZE_MAX` = 2 includes inserts that fail for lack of IDs.
* `catalog`: two graph names and labels of different lengths, one not encodable; two failures.
* `bson`: two keys and the count of the elements, so that arrays have their keys in turn and out of
  it; a value of every shape, one level of nesting allowed and a second refused.
* `binder`: patterns of one node and of three elements with all filters; the graph has a self-loop,
  parallel edges and deleted elements. A plan depends on one statement only.
* `parser`: the window has its real size (8 slots, compaction at 4). The texts are sentences of every
  rule of the grammar, three of them broken off behind each token, operators side by side without
  blanks, quotes with escapes, numbers with every suffix, and trees printed with the parentheses
  they need: every two binary operators of different and of the same precedence in both nestings,
  every edge direction, nested patterns. What a lookahead finds depends on where in the window it
  begins; a statement in front of CREATE OR REPLACE puts it behind three consumed tokens, the place
  where it does not fit.
* `reachability`: cycles, self-loops and parallel edges exist with three vertices; bounds of 0 to 3.
  What it answers is proved for every size (section 5).

`CHECK_DEADLOCK FALSE` is set where the system may stop: a file that open refuses ends the session,
and a search, a binding or a full store has nothing left to do.

## 4. Fairness

`GraphStore` and `Database` assume `WF_vars(Continue)`: a process that is not killed runs the call
it has begun, for the code is one thread that never waits. Nothing makes a caller begin a call, a
failing call fail or a crash happen or not happen. `Reachability` and `Parser` assume `WF_vars(Next)`: one call,
in one thread that nothing blocks, runs on as long as it can. `DetachCompletes`, `CallsReturn`,
`SearchEnds` and `ParsingEnds` rest on these.

## 5. What is proved

TLAPS proves, for every value of the constants that the assumptions named in the modules allow:

* **Paged object file** (`PagedObjectFileProofs`): `TypeOK`, `PayloadsDisjoint`,
  `RecoveredIsPromised`, `FailuresAreContained` and `ReopenRestores`, for every page and slot size,
  set of documents and number of failing writes (`SizesAssumption`, `LengthAssumption`: a page has
  room for more than its header and a slot, documents are not empty). They follow from one
  invariant, `IInv`, because none stands alone: that two payloads do not overlap
  needs that the counted slots lie behind the free space and that the page of the operation has
  room (`PagesWellFormed`, `OperationProgress`); what open recovers needs to know, between any two
  writes, which document is under each ID: the old one, the new one, both slots of a relocating
  update, or the new payload with the old length (`Contents`), and that the index in memory
  speaks of the slots on disk (`MemoryMatches`). `HeaderWritten` says how far the file header lags
  behind. The lemma on crashes (`InterruptedOperation`) shows that whatever of these a crash leaves,
  a file that opens has the operation applied or not.
* **Refinement of the object file** (also in `PagedObjectFileProofs`): `ImplementsObjectFile`. As long as
  no write has failed every step is a step of `ObjectFile` or leaves it as it is. A second invariant,
  `IdsInStep`, says which ID is issued in memory and not yet on disk; from it follows that no file
  that opens after a crash holds an interrupted insert.
* **Graph store** (`GraphStoreProofs`): `TypeOK`, `ReferentialIntegrity`, `RecordsInsideFile` and
  `ReopenAccepted`. None is inductive: between the steps of an insert the counters of three files
  differ. `IInv` adds `OperationProgress`, what the steps already taken of each kind of operation
  have established (the endpoints exist, the record fits, the tombstone is due), and `FilesAgree`,
  which part of open's validation the operation in progress has broken and which it cannot. One
  lemma per action shows that it preserves each conjunct. The assumptions are `SizesAssumption` (positive sizes,
  capacities below the limit) and `AbsentAssumption`.
* **Refinement of the graph store** (also in `GraphStoreProofs`): every step of the store is a step of `PropertyGraph` or
  leaves the graph as it is. An edge exists from the store of its `edge_count` on and until its
  object is deleted; the mapping and the argument need `IInv`.
* **Database** (`DatabaseProofs`): `TypeOK`, `PredictedIds`, `ClearedMeansApplied`, for every set of
  statements, every length of a transaction and every size of the ID space. A frame is replayed
  after a crash from its beginning, on a store that has seen any part of it, so the invariant
  `DInv` has to say what doing it again comes to. Two facts carry it. An operation works on every
  node and every edge on its own, and doing it early, half or twice changes nothing that it does
  not change itself; so the rest of the frame still leads to the promised graph (`Nudged`,
  `Leads`). And the inserts of a frame have the IDs the store issues next, in order (`Frame`,
  `Anchored`); so an insert whose turn comes either gets its ID (`Ahead`), or had it
  before the crash (`Behind`), or the replay is stuck and the frame never leaves the log (`Stuck`).
  Each step of the store in between moves the graph towards what the operation does (`Moves`) and at
  its end nothing of it is left to do (`Settles`). The parts of `DInv` say this for each point of a
  call: before the commit point (`PlanInv`), behind it (`ApplyInv`, `CommitInv`, `MissedInv`,
  `RunningInv`), between calls (`QuietInv`) and between a crash and the next open (`DownInv`).
  `ClearedMeansApplied` is about frames that stand for a graph. It leaves aside the frame of a
  commit that failed and the empty or cut one of a commit that died before it wrote its operations,
  and it says nothing more of a database that does not open.
  The assumptions: `StoreAssumption` (sizes), `CallsAssumption` (the fields a call has),
  `DocumentsAssumption` (a merge of two documents is a document).
* **Composition** (same module): every step of the database is a step of the store or leaves it
  alone (`DatabaseUsesStore`), so that the theorems on `GraphStore` hold below the log, and the graph
  in a database is the property graph (`DatabaseImplementsPropertyGraph`).
* **Catalog** (`CatalogProofs`): `TypeOK`, `AcknowledgedReads`, `CrashKeepsCatalog`, for every set of
  labels, every program and every number of failing calls (`NamesAssumption`, `ProgramsAssumption`:
  lengths are numbers, programs are sequences of statements). A program and the
  reader are folds of `AddLabel` over lists of any length; what they return holds no label twice,
  and such a catalog is read back as it was written (`ReloadedValid`). `CInv` then follows the
  three writes of `write_metadata`: what the file holds at each (`Progress`), and, while no call has
  failed, that it is the saved catalog, a cut of it by a shorter one, or the next one (`Undisturbed`).
* **BSON** (`BsonProofs`): `TypeOK`, `ReadsBack`, `MergePrefersPatch`, for all keys without a NUL, all
  values that are as long as their type says, every nesting and every capacity (`KeysAssumption`,
  `ValuesAssumption`, `SizesAssumption`). The invariant `BInv` says where every field of a document
  lies (`DocumentOf`: a position for each, one behind the other, each cell in its place) and that
  only the last field of a document may lack its value, namely when its child is under
  construction or did not fit (`Readable`, `OpenOf`). `ReadsBack` alone is not inductive: that a
  document is read back does not say that it still is with something behind it. The arguments:
  a size computed from the cells of a value does not change with what stands before or after it
  (`SizeMoves`, a case for each family of types); so the iterator, by induction over the fields,
  stops at each of their positions and at the terminator (`ElementsRead`); appending and attaching
  a child put the new cells in the place of the old terminator and move nothing (`StaysLaid`,
  `AppendKeeps`, `AttachKeeps`); doubling reaches any size (`DoubledSuffices`). A merge is a fold of
  appends: `BuiltMerge` follows it field by field, and `MergeFinds` says what a search in it finds.
* **Reachability** (`QueryProofs`): `SearchTypeOK`, and the answer is true exactly if a walk of 1 to `max_hops`
  edges exists, and the frontier after `hop` turns is the set of ends of walks of that length. The
  loop invariant says which edges of the current hop have been scanned; the lemma on walks cuts off
  their last edge.
* **Binder** (`QueryProofs`): `TypeOK`, `MatchMeansPattern`, `InsertMeansPattern`, for every set of
  statements the parser can hand over (`StatementsAssumption`: each clause has its fields, a path is
  a sequence of elements) and every graph (`GraphAssumption`: finitely many objects, an edge has
  endpoints). The invariant `BInv` says that the plan is `linklet_bind` of the statement. Then: a
  filter of `read_filter` selects what its element describes (`FilterMeans`); the positions of a
  match that hold an object and the assignments of the path that give it the named binding are as
  many, by a bijection (`NodeCounts`, `EdgeCounts`, for both directions of an edge); a call was made
  from the first clause of its kind (`CallForms`); and the name of an endpoint resolves to the one
  MATCH path that binds it (`BindingResolved`).
* **Parser** (`ParserProofs`): `TypeOK`, `WindowIsText`, `LongestOperator`, `LookaheadFits`, for every
  text, every size of the window and every threshold that leaves room for five tokens
  (`InputsAssumption`, `WindowAssumption`). Two invariants carry them.
  `WindowInv` says that the unread tokens are a chain in the text from the token taken last to the
  position of the lexer, and that all tokens of the window are tokens `lex_one` gives (`Chain`,
  `TextTokens`). That holds because `lex_one` never goes back and never leaves the text, whatever
  stands there: a lemma for each kind of token, with the scans of comments and quotes brought to
  rest by induction over the positions (`ScanRests`). The longest operator is taken because the
  table tries the longer ones first.
  `MachineInv` says that what is left to do closes the nodes that are open down to the root
  and never the root (`Held`: there is a count of open nodes for each point of `todo`, at least 1
  everywhere and 1 at its end). Every instruction puts a body before the rest, so it needs that
  each body of the grammar opens and closes its nodes in turn, or gives up (`Flows`). For the bodies
  that are written out this is `GrammarAssumption` in `GrammarShape`; the calls for the nested
  parentheses of a simplified path, one for each depth, are proved (`Simplified`).
  `LookaheadFits` needs both: how many tokens there may be before a lookahead, and which
  instructions there are.
  `GrammarAssumption` and `OperatorAssumption` have no constants: they say something about the
  table of instructions and the table of operators as they stand in `Grammar` and `Lexer`. TLC
  evaluates them completely at the start of the run `parser`, so they are computed rather than assumed.
* **Operators** (`CommonProofs`): a list of the members of a set of numbers in ascending order has
  each once; `FoldLeft` and `FlattenSeq` of the community modules run through their sequence from
  left to right, one element at a time.
  The induction theorems of the library cannot be instantiated here; an induction over the
  positions of a sequence is done with sets instead (`UpTo`: the set of positions for which a
  fact fails has no least element), and the recursive function a fold chooses is shown to exist.

Three proofs corrected the model. `ReadableCatalogs` was a CASE with overlapping arms, so that
what a damaged file may be read as depended on TLC's order of evaluation: it is an IF now. The
enumeration of a match is defined by counting (`Ascending`), not by a choice among sorted sequences. `EdgePattern`
had no alternative for a token that starts no edge, and would have left its node open there: it takes
the token for an opening bracket now and then gives up, as the code does.

Only model-checked:

* the liveness properties `DetachCompletes`, `CallsReturn`, `SearchEnds`, `ParsingEnds`: fairness
  and ENABLED are beyond the prover;
* `Parser.NamesKept` and `Parser.ReadsBack`: they compare a tree with all the tokens of a text, by
  recursion over the text and the tree (`ParserValues`, `MCParser`), which is an induction over data;
* `BsonValidator.WrittenValidates` and `ValidatedIsReadable`: the validator descends into nested
  documents by recursion, and what it computes for every document is an induction over data.

## 6. What the runs found

* **A failed commit bricks the database** (`database_failed_commit`). A commit that fails while its
  frame is applied leaves the frame in `wal.ll`; every later open replays it, fails in the same way
  and returns NULL. An insert of an edge to a node that is not there is enough, or a DELETE without
  DETACH of a node that has an edge.
* **An applied frame may not replay** (`database_replay_detached`). When the process dies between
  the last operation and the clear, a frame that inserts an edge and detaches its endpoint cannot
  be applied a second time.
* **SET replaces inside a transaction** (`database_set`). Outside it merges, as the README shows.
* **An open parenthesis is read for ever** (`parser_endless`). `parse_parenthesized_path` and the
  parameters of a type in `parse_value_type` advance up to a closing parenthesis and do not look for
  the end of the text, where advancing changes nothing: `MATCH ((a)` does not return.

Facts met while modelling that no document contradicts, so no run claims the opposite; the models
behave like the code:

* a crash inside a graph operation (a node stored, its domain not yet stamped; an edge stored, not
  yet counted) leaves files that the validation of open refuses, before the log that could repair
  them is read: a commit that died there cannot be replayed;
* a DDL statement whose write failed stays in force in memory, and the next one that succeeds saves
  it (`AcknowledgedReads` compares the file with the catalog in memory and does not exclude it);
* `append_page` lets one page more through than open accepts;
* `metadata.ll` is truncated before it is written: a crash loses the end of a catalog that shrinks;
  a label that is not UTF-8 stays in the catalog after its statement failed, and makes every later
  DDL statement fail;
* an edge type written with endpoints takes its labels from the source endpoint;
* the writer takes any key for an array element, any text for code, symbols and dbpointers, and any
  depth; the validator refuses such a document (`WrittenValidates` names these three);
* `nested_end` of a document that does not fit leaves an element without value in the parent;
  `linklet_bson_utf8_validate` refuses the characters U+20000 to U+3FFFF;
* the binder leaves aside clauses it does not know (FILTER, LIMIT, REMOVE, a second MATCH), a WHERE
  inside an element, DISTINCT, a quantifier on a node or under SET and DELETE; a name used twice in
  a pattern is no constraint; the third element of a quantified path may be an edge; a key may be
  given twice in INSERT. `MatchMeansPattern` and `InsertMeansPattern` are about statements without
  these (`InFull`);
* `create_is_graph_type` looks at six tokens; behind three consumed ones the window has five slots,
  and the sixth token is written past the array (`LookaheadFits` names that one exception);
* a number loses the letters D and F wherever they stand, also as hexadecimal digits;
* a simplified path skips whatever stands before its closing operator, or the end of the text when
  there is none; type
  parameters and the words of a path prefix are skipped (`NamesKept` lists the three places);
* names of functions are reserved words, so that only quoted names reach `lookup_function`;
  `A|B&C` is no label; the direction of an edge type is not kept; `{,n}` and `{n,}` are quantifiers
  with one bound; an OPTIONAL block may open with a parenthesis and close with a brace;
  `parse_parameter` takes any token, the end of the text included; `(a)--(b)` is a node and a
  comment.

## 7. Not modelled

Texts beyond ASCII, keywords in other cases than the table's, lines and columns and the wording of
errors, the depth of recursion in the parser, memory of trees and plans, printing, the shell's reading of lines, object IDs and the text
of decimal128 values, the retry loops for short writes and EINTR, out-of-memory paths that change
nothing, the order in which the machine would lose unflushed pages.

## 8. Plan

Done, in this order: the object file and its abstract map; the graph store and the property graph;
database, transactions and log; reachability; catalog; BSON; binder; theorems on the graph store and
on reachability; lexer and parser; theorems on the object file and its refinement, on the database
and its use of the store, on the catalog, on the binder, on the parser's window and its tree, on the
documents of BSON and their merge. Next: the file layer, mapping, growth and short writes of
`mmap_file.c` under the log and the catalog.
