-------------------------------- MODULE Database --------------------------------
(* database/database.c, transaction.c and wal.c over the graph store: statements  *)
(* executed one by one, transactions that buffer their statements until COMMIT,   *)
(* the write-ahead log wal.ll, and its replay when a database is opened.          *)
(*                                                                                *)
(* One session, as shell/linklet_shell.c runs it: a statement between BEGIN and   *)
(* COMMIT goes to the open transaction, any other to linklet_database_execute.    *)
(* The process may die between any two stores to the files; I/O calls do not fail *)
(* here (GraphStore has those).  Statements that only read change no state.       *)
EXTENDS Integers, FiniteSets, Match

CONSTANTS
  Documents,                                   \* closed under linklet_bson_merge
  SIZE_MAX, InitialCapacity, DefaultCapacity, CapacityLimit,   \* see GraphStore
  Calls,                                       \* the statements of a session, bound
  MAX_CALLS,                                   \* bound: statements of a transaction
  NoFrame                                      \* wal.ll holds its header only

VARIABLES
  nodes, nodes_next_id, edges, edges_next_id, edge_count, edge_capacity,
  vertex_id_capacity, coo, coo_size, mapped, up, op, torn,     \* see GraphStore
  wal,              \* the operations of the frame in wal.ll, or NoFrame
  transaction,      \* the open transaction: [active, calls]
  work,             \* the call in progress: its operations and how far it has come
  aux_promised,     \* the graph the frame in wal.ll stands for, or NoFrame
  aux_frame         \* what became of the commit of that frame: see FrameStates

Store == INSTANCE GraphStore WITH MAX_FAULTS <- 0, faults <- 0

storeVars == <<nodes, nodes_next_id, edges, edges_next_id, edge_count, edge_capacity,
               vertex_id_capacity, coo, coo_size, mapped, up, op, torn>>
auxVars == <<aux_promised, aux_frame>>
vars == <<storeVars, wal, transaction, work, auxVars>>

Ids == Store!Ids
ASSUME StoreAssumption ==
  /\ SIZE_MAX \in Nat \ {0}
  /\ InitialCapacity \in Nat /\ DefaultCapacity \in Nat \ {0} /\ CapacityLimit \in Nat
  /\ InitialCapacity <= CapacityLimit /\ DefaultCapacity <= CapacityLimit
  /\ Absent \notin Documents
  /\ Absent \notin [source : Ids, destination : Ids, doc : Documents]
ASSUME CallsAssumption ==
  \A call \in Calls :
    /\ call.code \in {"insert", "update", "delete"}
    /\ call.code = "insert" => /\ call.element \in {"node", "edge"}
                               /\ call.source \in Ids /\ call.destination \in Ids
    /\ call.code \in {"insert", "update"} => call.payload \in Documents
    /\ call.code = "delete" => call.detach \in BOOLEAN
    /\ call.code # "insert" =>
         /\ call.match.is_edge_pattern \in BOOLEAN
         /\ call.match.is_edge_pattern =>
              call.match.binding \in {"source", "edge", "destination"}

NoTransaction == [active |-> FALSE, calls |-> <<>>]
NoWork == [pc |-> "idle"]

\* Not applied to the end, applied to the end, or applied until an error.
FrameStates == {"pending", "applied", "failed"}

Idle == up /\ work = NoWork

-----------------------------------------------------------------------------
(* Operations: LinkletResolvedOperation *)

Operation(kind, id, source, destination, detach, doc) ==
  [kind |-> kind, id |-> id, source |-> source, destination |-> destination,
   detach |-> detach, doc |-> doc]

\* What replay decodes where a frame was cut short: never an operation.
Garbage == Operation("garbage", 0, 0, 0, FALSE, Absent)

IsInsert(o) == o.kind \in {"insert_node", "insert_edge"}

\* node_exists or edge_exists of the operation's ID.
Exists(o) == IF o.kind \in {"insert_node", "update_node", "delete_node"}
               THEN Store!NodeExists(o.id) ELSE Store!EdgeExists(o.id)

\* The ID the store is going to assign.
NextId(o) == IF o.kind = "insert_node" THEN nodes_next_id ELSE edges_next_id

Matches(call) == linklet_resolve_match(nodes, edges, coo, call.match)

\* The operations of a buffered UPDATE or DELETE, or of a direct one: an operation
\* for each ID the pattern matches now.
Mutations(call) ==
  LET ids == Matches(call)
      kind == IF ResultKind(call.match) = "node"
                THEN IF call.code = "update" THEN "update_node" ELSE "delete_node"
                ELSE IF call.code = "update" THEN "update_edge" ELSE "delete_edge"
  IN [i \in DOMAIN ids |->
        Operation(kind, ids[i], 0, 0, call.code = "delete" /\ call.detach,
                  IF call.code = "update" THEN call.payload ELSE Absent)]

InsertKind(call) == IF call.element = "node" THEN "insert_node" ELSE "insert_edge"
Insertion(call, id) ==
  Operation(InsertKind(call), id, call.source, call.destination, FALSE, call.payload)

\* How many of the first i calls insert an element of the kind of call i.
\* Seeded bug: the counter of the call itself is already taken.
InsertsBefore_Own(calls, i) ==
  Cardinality({j \in 1 .. i : calls[j].code = "insert" /\ calls[j].element = calls[i].element})
InsertsBefore(calls, i) ==
  Cardinality({j \in 1 .. i - 1 : calls[j].code = "insert" /\ calls[j].element = calls[i].element})

\* Every pattern is matched against the store before the transaction; inserts take
\* IDs from node_base and edge_base upwards.
ResolvedOperations(calls) ==
  FlattenSeq([i \in DOMAIN calls |->
    IF calls[i].code = "insert"
      THEN LET base == IF calls[i].element = "node" THEN nodes_next_id ELSE edges_next_id
           IN <<Insertion(calls[i], base + InsertsBefore(calls, i))>>
      ELSE Mutations(calls[i])])

\* The graph after one operation of a frame, when it succeeds.
Graph == [nodes |-> nodes, edges |-> Store!Edges]
AppliedOp(graph, o) ==
  CASE o.kind = "insert_node" -> [graph EXCEPT !.nodes[o.id] = o.doc]
    [] o.kind = "insert_edge" ->
         [graph EXCEPT !.edges[o.id] =
            [source |-> o.source, destination |-> o.destination, doc |-> o.doc]]
    [] o.kind = "update_node" ->
         IF graph.nodes[o.id] = Absent THEN graph ELSE [graph EXCEPT !.nodes[o.id] = o.doc]
    [] o.kind = "update_edge" ->
         IF graph.edges[o.id] = Absent THEN graph ELSE [graph EXCEPT !.edges[o.id].doc = o.doc]
    [] o.kind = "delete_edge" -> [graph EXCEPT !.edges[o.id] = Absent]
    [] o.kind = "delete_node" ->
         [nodes |-> [graph.nodes EXCEPT ![o.id] = Absent],
          edges |-> [e \in Ids |->
            IF o.detach /\ graph.edges[e] # Absent
               /\ o.id \in {graph.edges[e].source, graph.edges[e].destination}
              THEN Absent ELSE graph.edges[e]]]

-----------------------------------------------------------------------------
(* Statements and transactions *)

Begin(mode, operations, pc) == [mode |-> mode, ops |-> operations, at |-> 1, pc |-> pc]

\* clear_transaction.  Seeded bug: the buffered calls stay.
ClearedTransaction_KeepsCalls == [transaction EXCEPT !.active = FALSE]
ClearedTransaction == NoTransaction

\* A statement outside a transaction: its own operations, applied directly.
linklet_database_execute(call) ==
  /\ Idle /\ ~transaction.active
  /\ work' = Begin("execute",
                   IF call.code = "insert" THEN <<Insertion(call, 0)>> ELSE Mutations(call),
                   "apply")
  /\ UNCHANGED <<storeVars, wal, transaction, auxVars>>

linklet_database_begin ==
  /\ Idle /\ ~transaction.active
  /\ transaction' = [active |-> TRUE, calls |-> <<>>]
  /\ UNCHANGED <<storeVars, wal, work, auxVars>>

linklet_transaction_execute(call) ==
  /\ Idle /\ transaction.active
  /\ Len(transaction.calls) < MAX_CALLS
  /\ transaction' = [transaction EXCEPT !.calls = Append(@, call)]
  /\ UNCHANGED <<storeVars, wal, work, auxVars>>

linklet_transaction_abort ==
  /\ Idle /\ transaction.active
  /\ transaction' = ClearedTransaction
  /\ UNCHANGED <<storeVars, wal, work, auxVars>>

linklet_transaction_commit ==
  /\ Idle /\ transaction.active
  /\ work' = Begin("commit", ResolvedOperations(transaction.calls), "resize")
  /\ UNCHANGED <<storeVars, wal, transaction, auxVars>>

-----------------------------------------------------------------------------
(* wal.ll *)

\* A fresh file region reads as zeros, which is a frame of no operations.  The
\* frame of a failed commit is cut to the new size, or extended by zeros that its
\* own operation count does not reach.
Resized ==
  IF wal = NoFrame THEN <<>>
  ELSE [i \in DOMAIN wal |-> IF i <= Len(work.ops) THEN wal[i] ELSE Garbage]
WalResize ==
  /\ up /\ work.pc = "resize"
  /\ wal' = Resized
  /\ work' = [work EXCEPT !.pc = "write"]
  /\ UNCHANGED <<storeVars, transaction, auxVars>>

\* The commit point.
WalWrite ==
  /\ up /\ work.pc = "write"
  /\ wal' = work.ops
  /\ work' = [work EXCEPT !.pc = "apply"]
  /\ aux_promised' = FoldLeft(AppliedOp, Graph, work.ops)
  /\ aux_frame' = "pending"
  /\ UNCHANGED <<storeVars, transaction>>

\* linklet_wal_clear: the commit or the open returns true.
WalClear ==
  /\ up /\ work.pc = "clear"
  /\ wal' = NoFrame
  /\ work' = NoWork
  /\ transaction' = ClearedTransaction
  /\ aux_promised' = NoFrame
  /\ aux_frame' = "pending"
  /\ UNCHANGED storeVars

-----------------------------------------------------------------------------
(* linklet_wal_apply, and the loop of execute_mutation *)

Current == work.ops[work.at]

\* Seeded bug: the loop stays at an operation it skips.
Advance_Stays == work
Advance == [work EXCEPT !.at = @ + 1]

\* linklet_wal_apply skips what has been applied before; execute_mutation skips an
\* ID it has processed.
\* Seeded bug: updates and deletes, too, are skipped where the element is present.
Skipped_WherePresent(o) ==
  IF work.mode = "execute"
    THEN \E j \in 1 .. work.at - 1 : work.ops[j].id = o.id
    ELSE Exists(o)
Skipped(o) ==
  IF work.mode = "execute"
    THEN \E j \in 1 .. work.at - 1 : work.ops[j].id = o.id
    ELSE o.kind # "garbage" /\ (IsInsert(o) <=> Exists(o))

\* A direct SET merges into the stored document; a transaction stores its payload.
linklet_bson_merge(original, patch) ==
  [key \in DOMAIN original \cup DOMAIN patch |->
     IF key \in DOMAIN patch THEN patch[key] ELSE original[key]]
ASSUME DocumentsAssumption ==
  \A original, patch \in Documents : linklet_bson_merge(original, patch) \in Documents
NewDocument(o, stored) ==
  IF work.mode = "execute" THEN linklet_bson_merge(stored, o.doc) ELSE o.doc

\* The graph store call that carries out o, as far as its first step.
StoreCall(o) ==
  \/ o.kind = "insert_node" /\ Store!InsertNode(o.doc)
  \/ o.kind = "insert_edge" /\ Store!InsertEdge(o.source, o.destination, o.doc)
  \/ o.kind = "update_node" /\ Store!UpdateNode(o.id, NewDocument(o, nodes[o.id]))
  \/ o.kind = "update_edge" /\ Store!UpdateEdge(o.id, NewDocument(o, edges[o.id]))
  \/ o.kind = "delete_node" /\ ~o.detach /\ Store!DeleteNode(o.id)
  \/ o.kind = "delete_node" /\ o.detach /\ Store!DetachDeleteNode(o.id)
  \/ o.kind = "delete_edge" /\ Store!DeleteEdge(o.id)

\* The call returns an error before it changes anything.
Refused(o) ==
  \/ o.kind = "garbage"
  \/ o.kind = "insert_node" /\ ~Store!IdAvailable(nodes_next_id)
  \/ o.kind = "insert_edge" /\ \/ ~Store!EndpointsExist(o.source, o.destination)
                               \/ Store!ArrayFull /\ Store!GrownCapacity > CapacityLimit
  \/ ~IsInsert(o) /\ ~Exists(o)
  \/ o.kind = "delete_node" /\ ~o.detach /\ Store!IncidentRecords(o.id) # {}

\* The call has returned true.  An insert of a frame must get the ID of the frame;
\* otherwise it is an error, and the element stays.
Succeeded(o) ==
  /\ IsInsert(o) => NextId(o) = work.before + 1
  /\ IsInsert(o) /\ work.mode # "execute" => work.before = o.id

ApplySkip ==
  /\ up /\ work.pc = "apply" /\ work.at <= Len(work.ops)
  /\ Skipped(Current)
  /\ work' = Advance
  /\ UNCHANGED <<storeVars, wal, transaction, auxVars>>

ApplyCall ==
  /\ up /\ work.pc = "apply" /\ work.at <= Len(work.ops)
  /\ ~Skipped(Current)
  /\ StoreCall(Current)
  /\ work' = [mode |-> work.mode, ops |-> work.ops, at |-> work.at, pc |-> "running",
              before |-> NextId(Current)]
  /\ UNCHANGED <<wal, transaction, auxVars>>

\* The graph store goes on with the call.
StoreStep ==
  /\ work.pc = "running"
  /\ Store!Continue
  /\ UNCHANGED <<wal, transaction, work, auxVars>>

Returned == [mode |-> work.mode, ops |-> work.ops, at |-> work.at + 1, pc |-> "apply"]
ApplyReturns ==
  /\ up /\ work.pc = "running" /\ op = Store!Idle
  /\ Succeeded(Current)
  /\ work' = Returned
  /\ UNCHANGED <<storeVars, wal, transaction, auxVars>>

\* The call fails: the statement or the commit returns false with what it has done
\* so far, and the frame stays; an open closes the store and returns NULL.
Fails ==
  /\ work' = NoWork
  /\ transaction' = ClearedTransaction
  /\ IF work.mode = "replay" THEN Store!linklet_graph_store_close ELSE UNCHANGED storeVars
  /\ aux_frame' = IF work.mode = "commit" THEN "failed" ELSE aux_frame
  /\ aux_promised' = IF work.mode = "commit" THEN NoFrame ELSE aux_promised
  /\ UNCHANGED wal

CallFails ==
  \/ /\ work.pc = "apply" /\ work.at <= Len(work.ops)
     /\ ~Skipped(Current) /\ Refused(Current)
  \/ work.pc = "running" /\ op = Store!Idle /\ ~Succeeded(Current)
ApplyFails == up /\ CallFails /\ Fails

ApplyDone ==
  /\ up /\ work.pc = "apply" /\ work.at > Len(work.ops)
  /\ work' = IF work.mode = "execute" THEN NoWork ELSE [work EXCEPT !.pc = "clear"]
  /\ aux_frame' = IF work.mode = "commit" THEN "applied" ELSE aux_frame
  /\ UNCHANGED <<storeVars, wal, transaction, aux_promised>>

-----------------------------------------------------------------------------
(* Opening, closing, dying *)

\* The store validates its files first, then the frame, if there is one, is
\* replayed.
linklet_database_open ==
  /\ Store!linklet_graph_store_open
  /\ work' = IF wal = NoFrame THEN NoWork ELSE Begin("replay", wal, "apply")
  /\ UNCHANGED <<wal, transaction, auxVars>>

\* The shell aborts an open transaction before it closes the database.
linklet_database_close ==
  /\ Idle /\ ~transaction.active
  /\ Store!linklet_graph_store_close
  /\ UNCHANGED <<wal, transaction, work, auxVars>>

Crash ==
  /\ Store!Crash
  /\ work' = NoWork
  /\ transaction' = NoTransaction
  /\ UNCHANGED <<wal, auxVars>>

\* linklet_database_create
Init ==
  /\ Store!Init
  /\ wal = NoFrame
  /\ transaction = NoTransaction
  /\ work = NoWork
  /\ aux_promised = NoFrame
  /\ aux_frame = "pending"

Continue ==
  \/ WalResize \/ WalWrite \/ WalClear
  \/ ApplySkip \/ ApplyCall \/ StoreStep \/ ApplyReturns \/ ApplyFails \/ ApplyDone

Next ==
  \/ \E call \in Calls : linklet_database_execute(call) \/ linklet_transaction_execute(call)
  \/ linklet_database_begin \/ linklet_transaction_abort \/ linklet_transaction_commit
  \/ Continue
  \/ linklet_database_open \/ linklet_database_close \/ Crash

Spec == Init /\ [][Next]_vars

\* A process that is not killed runs the call it has begun.
FairSpec == Spec /\ WF_vars(Continue)

-----------------------------------------------------------------------------
(* Properties *)

Operations ==
  [kind : {"insert_node", "insert_edge", "update_node", "update_edge", "delete_node",
           "delete_edge"},
   id : Nat, source : Ids, destination : Ids, detach : BOOLEAN, doc : Documents \cup {Absent}]

\* The types of the variables that the store does not have.
TypeOK ==
  /\ Store!TypeOK
  /\ wal = NoFrame \/ wal \in Seq(Operations \cup {Garbage})
  /\ transaction.active \in BOOLEAN /\ transaction.calls \in Seq(Calls)
  /\ ~transaction.active => transaction.calls = <<>>
  /\ aux_frame \in FrameStates
  /\ work.pc \in {"idle", "resize", "write", "apply", "running", "clear"}
  /\ work.pc # "idle" => /\ work.mode \in {"execute", "commit", "replay"}
                         /\ work.ops \in Seq(Operations \cup {Garbage})
                         /\ work.at \in 1 .. Len(work.ops) + 1
  /\ work.pc = "running" => work.before \in 0 .. SIZE_MAX

\* A frame leaves the log only when the graph is exactly what the commit stood for:
\* whatever died in between, and however often it was replayed.  A frame of a commit that
\* failed stands for no graph, nor does the empty one of a commit that died before it
\* wrote its operations; and the frame stays where the database does not open.
ClearedMeansApplied ==
  [][wal # NoFrame /\ wal' = NoFrame /\ aux_frame # "failed" => wal = <<>> \/ Graph = aux_promised]_vars

\* The IDs a commit predicts are the IDs the store assigns.
PredictedIds ==
  work.pc = "apply" /\ work.mode = "commit" /\ work.at <= Len(work.ops) =>
    (IsInsert(Current) => Current.id = NextId(Current))

\* A call ends, unless the process dies; so does the replay of any frame.
CallsReturn == (up /\ work # NoWork) ~> (~up \/ work = NoWork)

\* README.md: SET changes the properties it names and keeps the others.
SetMerges ==
  [][\A n \in Ids : nodes[n] # Absent /\ nodes'[n] # Absent =>
       DOMAIN nodes[n] \subseteq DOMAIN nodes'[n]]_vars

\* test_transaction_commit_and_abort: a database that is closed after a commit that
\* returned, whether true or false, opens again.
ClosedOpensAgain == work # NoWork /\ work.mode = "replay" /\ aux_frame = "failed" => ~CallFails

\* test_wal_replay_recovers: opening replays the frame of wal.ll.  A frame whose
\* operations have all been applied once can be applied again.
FrameReplays == work # NoWork /\ work.mode = "replay" /\ aux_frame = "applied" => ~CallFails
=================================================================================
