------------------------------- MODULE GraphStore -------------------------------
(* storage/graph_store.c: two object files, nodes.ll and edges.ll, and the       *)
(* memory-mapped connectivity.ll, a header and an array of COO records.          *)
(*                                                                               *)
(* An operation of an object file is one step (PagedObjectFile shows that it is  *)
(* all or nothing, or leaves a file that cannot be opened); every store to the   *)
(* mapping and every resize is a step of its own, so that a crash can fall       *)
(* between the files of one graph operation.  Stores to the shared mapping       *)
(* survive a crash of the process, so the variables are both memory and disk.    *)
(*                                                                               *)
(* A call that returns an error before it changes anything is not a step.        *)
EXTENDS Integers, FiniteSets

CONSTANTS
  Documents,         \* the BSON documents callers store
  Absent,            \* the content of an ID that holds no object
  SIZE_MAX,          \* object IDs range over 0 .. SIZE_MAX - 1
  InitialCapacity,   \* initial_edge_capacity of linklet_graph_store_create
  DefaultCapacity,   \* LINKLET_DEFAULT_EDGE_CAPACITY
  CapacityLimit,     \* the largest capacity whose file size fits size_t
  MAX_FAULTS         \* bound: how many I/O calls of a behaviour may fail

ASSUME SizesAssumption ==
  /\ SIZE_MAX \in Nat \ {0}
  /\ InitialCapacity \in Nat
  /\ DefaultCapacity \in Nat \ {0}
  /\ CapacityLimit \in Nat
  /\ InitialCapacity <= CapacityLimit /\ DefaultCapacity <= CapacityLimit
  /\ MAX_FAULTS \in Nat
ASSUME AbsentAssumption ==
  /\ Absent \notin Documents
  /\ Absent \notin [source : 0 .. SIZE_MAX - 1, destination : 0 .. SIZE_MAX - 1, doc : Documents]

VARIABLES
  nodes, nodes_next_id,    \* nodes.ll: document per node ID, header.next_id
  edges, edges_next_id,    \* edges.ll
  edge_count,              \* connectivity_header->edge_count
  edge_capacity,           \* connectivity_header->edge_capacity
  vertex_id_capacity,      \* connectivity_header->vertex_id_capacity
  coo,                     \* coo_edges
  coo_size,                \* COO records that fit the size of connectivity.ll
  mapped,                  \* connectivity.ll is mapped (connectivity_header # NULL)
  up,                      \* the store is open
  op,                      \* the operation in progress and its next step
  torn,                    \* a crash left an object file that open refuses
  faults                   \* I/O calls that have failed

objectVars == <<nodes, nodes_next_id, edges, edges_next_id>>
mappingVars == <<edge_count, edge_capacity, vertex_id_capacity, coo, coo_size, mapped>>
vars == <<nodes, nodes_next_id, edges, edges_next_id, edge_count, edge_capacity,
          vertex_id_capacity, coo, coo_size, mapped, up, op, torn, faults>>

Ids == 0 .. SIZE_MAX - 1
CooEdge == [source : 0 .. SIZE_MAX, destination : 0 .. SIZE_MAX]
ZeroEdge == [source |-> 0, destination |-> 0]
Tombstone == [source |-> SIZE_MAX, destination |-> SIZE_MAX]

linklet_coo_edge_is_deleted(edge) == edge = Tombstone

NodeExists(n) == n \in Ids /\ nodes[n] # Absent
EdgeExists(e) == e \in Ids /\ edges[e] # Absent

\* The edges the loops of linklet_graph_store_delete_node stop at.
\* Seeded bug: only outgoing edges are looked at.
IncidentRecords_Outgoing(n) ==
  {e \in Ids : /\ e < edge_count
               /\ ~linklet_coo_edge_is_deleted(coo[e])
               /\ coo[e].source = n}
IncidentRecords(n) ==
  {e \in Ids : /\ e < edge_count
               /\ ~linklet_coo_edge_is_deleted(coo[e])
               /\ coo[e].source = n \/ coo[e].destination = n}

Idle == [pc |-> "idle"]
Ready == up /\ op = Idle

\* linklet_object_file_insert refuses an ID past the end of the index.
\* Seeded bug: one ID too many.
IdAvailable_OffByOne(next_id) == next_id <= SIZE_MAX
IdAvailable(next_id) == next_id < SIZE_MAX

-----------------------------------------------------------------------------
(* Nodes *)

InsertNode(d) ==
  /\ Ready
  /\ IdAvailable(nodes_next_id)
  /\ nodes' = [nodes EXCEPT ![nodes_next_id] = d]
  /\ nodes_next_id' = nodes_next_id + 1
  /\ op' = [pc |-> "stamp_vertices"]
  /\ UNCHANGED <<edges, edges_next_id, up, torn, faults>> /\ UNCHANGED mappingVars

\* Seeded bug: the number of live nodes instead of the number of issued IDs.
StampedVertices_Live == Cardinality({n \in Ids : NodeExists(n)})
StampedVertices == nodes_next_id
StampVertices ==
  /\ up /\ op.pc = "stamp_vertices" /\ mapped
  /\ vertex_id_capacity' = StampedVertices
  /\ op' = Idle
  /\ UNCHANGED objectVars
  /\ UNCHANGED <<edge_count, edge_capacity, coo, coo_size, mapped, up, torn, faults>>

UpdateNode(n, d) ==
  /\ Ready
  /\ NodeExists(n)
  /\ nodes' = [nodes EXCEPT ![n] = d]
  /\ UNCHANGED <<nodes_next_id, edges, edges_next_id, up, op, torn, faults>>
  /\ UNCHANGED mappingVars

\* linklet_graph_store_delete_node without DETACH.
DeleteNode(n) ==
  /\ Ready /\ mapped
  /\ NodeExists(n)
  /\ IncidentRecords(n) = {}
  /\ nodes' = [nodes EXCEPT ![n] = Absent]
  /\ UNCHANGED <<nodes_next_id, edges, edges_next_id, up, op, torn, faults>>
  /\ UNCHANGED mappingVars

-----------------------------------------------------------------------------
(* Edges *)

GrownCapacity == IF edge_capacity = 0 THEN DefaultCapacity ELSE 2 * edge_capacity

\* Seeded bugs: the destination is not looked up; the array grows one edge late.
EndpointsExist_Source(s, t) == NodeExists(s)
EndpointsExist(s, t) == NodeExists(s) /\ NodeExists(t)
ArrayFull_Late == edge_count > edge_capacity
ArrayFull == edge_count = edge_capacity

\* The endpoints must exist; a full array grows before anything is stored.
InsertEdge(s, t, d) ==
  /\ Ready /\ mapped
  /\ EndpointsExist(s, t)
  /\ IF ArrayFull
       THEN /\ GrownCapacity <= CapacityLimit
            /\ op' = [pc |-> "grow", source |-> s, destination |-> t, doc |-> d]
       ELSE op' = [pc |-> "edge_object", source |-> s, destination |-> t, doc |-> d]
  /\ UNCHANGED objectVars /\ UNCHANGED mappingVars /\ UNCHANGED <<up, torn, faults>>

\* The insert in progress, at its step pc.
InsertStep(pc) ==
  [pc |-> pc, source |-> op.source, destination |-> op.destination, doc |-> op.doc]

\* grow_connectivity: sync, unmap, resize and map again, then the new capacity.
GrowResize ==
  /\ up /\ op.pc = "grow"
  /\ coo_size' = GrownCapacity
  /\ op' = InsertStep("stamp_capacity")
  /\ UNCHANGED objectVars
  /\ UNCHANGED <<edge_count, edge_capacity, vertex_id_capacity, coo, mapped, up, torn, faults>>

StampCapacity ==
  /\ up /\ op.pc = "stamp_capacity"
  /\ edge_capacity' = GrownCapacity
  /\ op' = InsertStep("edge_object")
  /\ UNCHANGED objectVars
  /\ UNCHANGED <<edge_count, vertex_id_capacity, coo, coo_size, mapped, up, torn, faults>>

\* The object insert; an ID other than edge_count is reported as an error, and the
\* object stays.
InsertEdgeObject ==
  /\ up /\ op.pc = "edge_object"
  /\ IF IdAvailable(edges_next_id)
       THEN /\ edges' = [edges EXCEPT ![edges_next_id] = op.doc]
            /\ edges_next_id' = edges_next_id + 1
            /\ op' = IF edges_next_id = edge_count
                       THEN InsertStep("edge_record") ELSE Idle
       ELSE op' = Idle /\ UNCHANGED <<edges, edges_next_id>>
  /\ UNCHANGED <<nodes, nodes_next_id, up, torn, faults>> /\ UNCHANGED mappingVars

StoreEdgeRecord ==
  /\ up /\ op.pc = "edge_record"
  /\ coo' = [coo EXCEPT ![edge_count] =
               [source |-> op.source, destination |-> op.destination]]
  /\ op' = InsertStep("stamp_edges")
  /\ UNCHANGED objectVars
  /\ UNCHANGED <<edge_count, edge_capacity, vertex_id_capacity, coo_size, mapped, up, torn, faults>>

StampEdges ==
  /\ up /\ op.pc = "stamp_edges"
  /\ edge_count' = edge_count + 1
  /\ op' = Idle
  /\ UNCHANGED objectVars
  /\ UNCHANGED <<edge_capacity, vertex_id_capacity, coo, coo_size, mapped, up, torn, faults>>

UpdateEdge(e, d) ==
  /\ Ready
  /\ EdgeExists(e)
  /\ edges' = [edges EXCEPT ![e] = d]
  /\ UNCHANGED <<nodes, nodes_next_id, edges_next_id, up, op, torn, faults>>
  /\ UNCHANGED mappingVars

\* The object of edge e goes first; op.node is the node DETACH DELETE is removing,
\* or SIZE_MAX.
DeleteEdgeObject(e, n) ==
  /\ edges' = [edges EXCEPT ![e] = Absent]
  /\ op' = [pc |-> "tombstone", edge |-> e, node |-> n]
  /\ UNCHANGED <<nodes, nodes_next_id, edges_next_id, up, torn, faults>>
  /\ UNCHANGED mappingVars

DeleteEdge(e) ==
  /\ Ready /\ mapped
  /\ e < edge_count
  /\ EdgeExists(e)
  /\ DeleteEdgeObject(e, SIZE_MAX)

\* Seeded bug: the record of the deleted edge stays.
Tombstoned_Kept == coo
Tombstoned == [coo EXCEPT ![op.edge] = Tombstone]
StoreTombstone ==
  /\ up /\ op.pc = "tombstone"
  /\ coo' = Tombstoned
  /\ op' = IF op.node = SIZE_MAX THEN Idle ELSE [pc |-> "detach", node |-> op.node]
  /\ UNCHANGED objectVars
  /\ UNCHANGED <<edge_count, edge_capacity, vertex_id_capacity, coo_size, mapped, up, torn, faults>>

-----------------------------------------------------------------------------
(* linklet_graph_store_delete_node with DETACH *)

DetachDeleteNode(n) ==
  /\ Ready /\ mapped
  /\ NodeExists(n)
  /\ op' = [pc |-> "detach", node |-> n]
  /\ UNCHANGED objectVars /\ UNCHANGED mappingVars /\ UNCHANGED <<up, torn, faults>>

\* One turn of the loop: the first incident edge, or the node when there is none.
\* delete_edge fails on an edge whose object is gone, and the call gives up.
Detach ==
  /\ up /\ op.pc = "detach"
  /\ \/ \E e \in IncidentRecords(op.node) :
          /\ \A f \in IncidentRecords(op.node) : e <= f
          /\ IF EdgeExists(e)
               THEN DeleteEdgeObject(e, op.node)
               ELSE /\ op' = Idle
                    /\ UNCHANGED objectVars /\ UNCHANGED mappingVars
                    /\ UNCHANGED <<up, torn, faults>>
     \/ /\ IncidentRecords(op.node) = {}
        /\ nodes' = [nodes EXCEPT ![op.node] = Absent]
        /\ op' = Idle
        /\ UNCHANGED <<nodes_next_id, edges, edges_next_id, up, torn, faults>>
        /\ UNCHANGED mappingVars

-----------------------------------------------------------------------------
(* Failing I/O, crashes, closing and opening *)

\* An I/O call of the operation in progress fails and the operation returns false:
\* the object file call that precedes stamp_vertices, edge_record or tombstone
\* failed after it had changed the index in memory, the one that edge_object or
\* detach is about to make fails before it, or the sync of grow_connectivity fails.
OperationFails ==
  /\ up /\ op.pc \in {"stamp_vertices", "edge_record", "tombstone",
                      "edge_object", "detach", "grow"}
  /\ faults < MAX_FAULTS
  /\ faults' = faults + 1
  /\ op' = Idle
  /\ UNCHANGED objectVars /\ UNCHANGED mappingVars /\ UNCHANGED <<up, torn>>

\* The resize or the new mapping of grow_connectivity fails: connectivity_header
\* stays NULL.  Whatever uses it afterwards ends the process (Crash).
GrowFails ==
  /\ up /\ op.pc \in {"grow", "stamp_capacity"}
  /\ faults < MAX_FAULTS
  /\ faults' = faults + 1
  /\ mapped' = FALSE
  /\ op' = Idle
  /\ UNCHANGED objectVars
  /\ UNCHANGED <<edge_count, edge_capacity, vertex_id_capacity, coo, coo_size, up, torn>>

\* The process dies.  In a step that is an object file operation it may leave that
\* file torn.  After a failed write memory and disk differ, which this module does
\* not model: behaviours with faults end before a restart.
ObjectStepNext == op.pc \in {"idle", "edge_object", "detach"}
Crash ==
  /\ up /\ faults = 0
  /\ up' = FALSE
  /\ op' = Idle
  /\ mapped' = FALSE
  /\ torn' \in IF ObjectStepNext THEN {FALSE, TRUE} ELSE {FALSE}
  /\ UNCHANGED objectVars
  /\ UNCHANGED <<edge_count, edge_capacity, vertex_id_capacity, coo, coo_size, faults>>

linklet_graph_store_close ==
  /\ Ready /\ faults = 0
  /\ up' = FALSE
  /\ mapped' = FALSE
  /\ UNCHANGED objectVars
  /\ UNCHANGED <<edge_count, edge_capacity, vertex_id_capacity, coo, coo_size, op, torn, faults>>

validate_graph_files ==
  /\ edge_count = edges_next_id
  /\ vertex_id_capacity = nodes_next_id
  /\ \A e \in Ids : e < edge_count =>
       /\ (EdgeExists(e) <=> ~linklet_coo_edge_is_deleted(coo[e]))
       /\ EdgeExists(e) => NodeExists(coo[e].source) /\ NodeExists(coo[e].destination)

\* The checks of linklet_graph_store_open, in a file that is not torn.
OpenSucceeds ==
  /\ edge_count <= edge_capacity
  /\ coo_size = edge_capacity
  /\ validate_graph_files

linklet_graph_store_open ==
  /\ ~up /\ ~torn
  /\ OpenSucceeds
  /\ up' = TRUE
  /\ mapped' = TRUE
  /\ UNCHANGED objectVars
  /\ UNCHANGED <<edge_count, edge_capacity, vertex_id_capacity, coo, coo_size, op, torn, faults>>

\* linklet_graph_store_create
CreatedCapacity == IF InitialCapacity = 0 THEN DefaultCapacity ELSE InitialCapacity
Init ==
  /\ nodes = [n \in Ids |-> Absent] /\ nodes_next_id = 0
  /\ edges = [e \in Ids |-> Absent] /\ edges_next_id = 0
  /\ edge_count = 0
  /\ edge_capacity = CreatedCapacity
  /\ vertex_id_capacity = 0
  /\ coo = [e \in Ids |-> ZeroEdge]
  /\ coo_size = CreatedCapacity
  /\ mapped = TRUE
  /\ up = TRUE
  /\ op = Idle
  /\ torn = FALSE
  /\ faults = 0

Continue ==
  \/ StampVertices
  \/ GrowResize \/ StampCapacity
  \/ InsertEdgeObject \/ StoreEdgeRecord \/ StampEdges
  \/ StoreTombstone
  \/ Detach

Next ==
  \/ \E d \in Documents : InsertNode(d)
  \/ \E n \in Ids, d \in Documents : UpdateNode(n, d)
  \/ \E n \in Ids : DeleteNode(n) \/ DetachDeleteNode(n)
  \/ \E s, t \in Ids, d \in Documents : InsertEdge(s, t, d)
  \/ \E e \in Ids, d \in Documents : UpdateEdge(e, d)
  \/ \E e \in Ids : DeleteEdge(e)
  \/ Continue
  \/ OperationFails \/ GrowFails
  \/ Crash \/ linklet_graph_store_close \/ linklet_graph_store_open

Spec == Init /\ [][Next]_vars

\* A process that is not killed runs the operation it has begun.
FairSpec == Spec /\ WF_vars(Continue)

-----------------------------------------------------------------------------
(* Properties *)

Operations ==
  {Idle, [pc |-> "stamp_vertices"]}
  \cup [pc : {"grow", "stamp_capacity", "edge_object", "edge_record", "stamp_edges"},
        source : Ids, destination : Ids, doc : Documents]
  \cup [pc : {"tombstone"}, edge : Ids, node : 0 .. SIZE_MAX]
  \cup [pc : {"detach"}, node : Ids]

\* The types of the variables; the counters stay within the ID space.
TypeOK ==
  /\ nodes \in [Ids -> Documents \cup {Absent}] /\ nodes_next_id \in 0 .. SIZE_MAX
  /\ edges \in [Ids -> Documents \cup {Absent}] /\ edges_next_id \in 0 .. SIZE_MAX
  /\ edge_count \in 0 .. SIZE_MAX
  /\ edge_capacity \in 0 .. CapacityLimit
  /\ vertex_id_capacity \in 0 .. SIZE_MAX
  /\ coo \in [Ids -> CooEdge]
  /\ coo_size \in 0 .. CapacityLimit
  /\ mapped \in BOOLEAN /\ up \in BOOLEAN /\ torn \in BOOLEAN
  /\ op \in Operations
  /\ faults \in 0 .. MAX_FAULTS

\* Both endpoints of every recorded live edge are live nodes: at every step of
\* every operation, after a crash and after failed I/O.
ReferentialIntegrity ==
  \A e \in Ids :
    e < edge_count /\ EdgeExists(e) /\ ~linklet_coo_edge_is_deleted(coo[e]) =>
      NodeExists(coo[e].source) /\ NodeExists(coo[e].destination)

\* Every COO record the code writes or scans lies inside connectivity.ll.
RecordsInsideFile ==
  /\ edge_count <= edge_capacity
  /\ edge_capacity <= coo_size
  /\ op.pc \in {"edge_object", "edge_record", "stamp_edges"} => edge_count < edge_capacity

\* Between operations the three files agree: if nothing failed, the validation of
\* linklet_graph_store_open accepts them.
ReopenAccepted == Ready /\ faults = 0 => OpenSucceeds

\* What holds between the steps of an operation: the strengthening that makes the
\* three invariants above inductive.

\* How far each kind of operation has come.
OperationProgress ==
  /\ op # Idle => up
  /\ up /\ faults = 0 => mapped
  /\ edge_count <= edges_next_id
  /\ op.pc \in {"grow", "stamp_capacity", "edge_object", "edge_record", "stamp_edges"} =>
       NodeExists(op.source) /\ NodeExists(op.destination)
  /\ op.pc \in {"grow", "stamp_capacity"} => edge_count = edge_capacity /\ GrownCapacity <= CapacityLimit
  /\ op.pc = "stamp_capacity" => coo_size = GrownCapacity
  /\ op.pc \in {"edge_record", "stamp_edges"} =>
       edges_next_id = edge_count + 1 /\ EdgeExists(edge_count)
  /\ op.pc = "stamp_edges" =>
       coo[edge_count] = [source |-> op.source, destination |-> op.destination]
  /\ op.pc = "tombstone" =>
       /\ op.edge < edge_count /\ ~EdgeExists(op.edge)
       /\ op.node # SIZE_MAX => NodeExists(op.node)
  /\ op.pc = "detach" => NodeExists(op.node)

\* Which parts of what open validates the operation in progress has broken.
FilesAgree ==
  up /\ faults = 0 =>
    /\ op.pc # "stamp_vertices" => vertex_id_capacity = nodes_next_id
    /\ op.pc # "stamp_capacity" => coo_size = edge_capacity
    /\ op.pc \notin {"edge_record", "stamp_edges"} => edge_count = edges_next_id
    /\ \A e \in Ids :
         e < edge_count /\ ~(op.pc = "tombstone" /\ op.edge = e) =>
           (EdgeExists(e) <=> ~linklet_coo_edge_is_deleted(coo[e]))

IInv == TypeOK /\ ReferentialIntegrity /\ RecordsInsideFile /\ OperationProgress /\ FilesAgree

\* DETACH DELETE does not stop half way: unless the process dies or an I/O call
\* fails, the node and all its edges are gone in the end.
DetachCompletes ==
  \A n \in Ids : (up /\ op = [pc |-> "detach", node |-> n]) ~> (~up \/ faults > 0 \/ nodes[n] = Absent)

\* The graph store implements the property graph.
Edges ==
  [e \in Ids |->
     IF e < edge_count /\ EdgeExists(e) /\ ~linklet_coo_edge_is_deleted(coo[e])
       THEN [source |-> coo[e].source, destination |-> coo[e].destination, doc |-> edges[e]]
       ELSE Absent]
Abstract == INSTANCE PropertyGraph
              WITH graph_nodes <- nodes, graph_edges <- Edges,
                   issued_nodes <- nodes_next_id, issued_edges <- edge_count
ImplementsPropertyGraph == Abstract!Spec
=================================================================================
