----------------------------- MODULE GraphStoreProofs -----------------------------
(* Proofs about GraphStore for every size of the ID space, every capacity and any *)
(* number of failing I/O calls.  The inductive invariant IInv adds to the         *)
(* invariants of interest how far the operation in progress has come              *)
(* (OperationProgress) and which agreement of the three files it has broken       *)
(* (FilesAgree).  One lemma per action shows that the action preserves IInv, with *)
(* one step per conjunct.  The refinement of PropertyGraph rests on it.           *)
EXTENDS GraphStore, TLAPS

USE SizesAssumption, AbsentAssumption
USE DEF Ids, IInv, TypeOK, Idle, Ready, CooEdge, NodeExists, EdgeExists,
        linklet_coo_edge_is_deleted, Tombstone, objectVars, mappingVars

\* A store that linklet_graph_store_create has made satisfies the invariant.
LEMMA InitEstablishes == Init => IInv
<1> SUFFICES ASSUME Init PROVE IInv
  OBVIOUS
<1> USE DEF Init, ZeroEdge
<1>0. CreatedCapacity \in Nat /\ CreatedCapacity <= CapacityLimit
  BY DEF CreatedCapacity
<1>1. TypeOK
  <2>1. op \in Operations
    BY DEF Operations
  <2>2. coo \in [Ids -> CooEdge]
    OBVIOUS
  <2>3. /\ nodes \in [Ids -> Documents \cup {Absent}]
        /\ edges \in [Ids -> Documents \cup {Absent}]
    OBVIOUS
  <2>4. /\ nodes_next_id \in 0 .. SIZE_MAX /\ edges_next_id \in 0 .. SIZE_MAX
        /\ edge_count \in 0 .. SIZE_MAX /\ vertex_id_capacity \in 0 .. SIZE_MAX
        /\ edge_capacity \in 0 .. CapacityLimit /\ coo_size \in 0 .. CapacityLimit
        /\ faults \in 0 .. MAX_FAULTS
    BY <1>0
  <2>5. mapped \in BOOLEAN /\ up \in BOOLEAN /\ torn \in BOOLEAN
    OBVIOUS
  <2> HIDE DEF Init, Ids, CooEdge, Idle
  <2> QED BY <2>1, <2>2, <2>3, <2>4, <2>5
<1>2. ReferentialIntegrity BY DEF ReferentialIntegrity
<1>3. RecordsInsideFile BY <1>0 DEF RecordsInsideFile
<1>4. OperationProgress BY DEF OperationProgress
<1>5. FilesAgree BY DEF FilesAgree
<1> QED BY <1>1, <1>2, <1>3, <1>4, <1>5

-----------------------------------------------------------------------------
(* The arguments of the operation in progress *)

InsertSteps == {"grow", "stamp_capacity", "edge_object", "edge_record", "stamp_edges"}

\* The arguments of an operation have their types, by the step it is at.
LEMMA OperationFields ==
  ASSUME TypeOK
  PROVE  /\ op.pc = "idle" => op = Idle
         /\ op.pc \in InsertSteps =>
              op.source \in Ids /\ op.destination \in Ids /\ op.doc \in Documents
         /\ op.pc = "tombstone" => op.edge \in Ids /\ op.node \in 0 .. SIZE_MAX
         /\ op.pc = "detach" => op.node \in Ids
BY SMTT(30) DEF Operations, InsertSteps

\* The next step of an edge insert keeps its arguments.
LEMMA InsertStepType ==
  ASSUME TypeOK, op.pc \in InsertSteps, NEW pc \in InsertSteps
  PROVE  /\ InsertStep(pc) \in Operations
         /\ InsertStep(pc).pc = pc
         /\ InsertStep(pc).source = op.source
         /\ InsertStep(pc).destination = op.destination
BY OperationFields DEF Operations, InsertSteps, InsertStep

-----------------------------------------------------------------------------
(* Actions that change little *)

\* The object of a node is stored before vertex_id_capacity is stamped.
LEMMA InsertNodePreserves ==
  ASSUME IInv, NEW d \in Documents, InsertNode(d)
  PROVE  IInv'
<1> USE DEF InsertNode, IdAvailable
<1>1. TypeOK' BY DEF Operations, OperationProgress, RecordsInsideFile
<1>2. ReferentialIntegrity' BY DEF ReferentialIntegrity, OperationProgress
<1>3. RecordsInsideFile' BY DEF RecordsInsideFile, OperationProgress
<1>4. OperationProgress' BY DEF OperationProgress, RecordsInsideFile, FilesAgree, Operations, GrownCapacity
<1>5. FilesAgree' BY DEF FilesAgree, OperationProgress, Operations
<1> QED BY <1>1, <1>2, <1>3, <1>4, <1>5

\* The stamp brings vertex_id_capacity up to date.
LEMMA StampVerticesPreserves ==
  ASSUME IInv, StampVertices
  PROVE  IInv'
<1> USE DEF StampVertices, StampedVertices
<1>1. TypeOK' BY DEF Operations, OperationProgress, RecordsInsideFile
<1>2. ReferentialIntegrity' BY DEF ReferentialIntegrity, OperationProgress
<1>3. RecordsInsideFile' BY DEF RecordsInsideFile, OperationProgress
<1>4. OperationProgress' BY DEF OperationProgress, RecordsInsideFile, FilesAgree, Operations, GrownCapacity
<1>5. FilesAgree' BY DEF FilesAgree, OperationProgress, Operations
<1> QED BY <1>1, <1>2, <1>3, <1>4, <1>5

\* A replaced node document changes no ID and no edge.
LEMMA UpdateNodePreserves ==
  ASSUME IInv, NEW n \in Ids, NEW d \in Documents, UpdateNode(n, d)
  PROVE  IInv'
<1> USE DEF UpdateNode
<1>1. TypeOK' BY DEF Operations, OperationProgress, RecordsInsideFile
<1>2. ReferentialIntegrity' BY DEF ReferentialIntegrity, OperationProgress
<1>3. RecordsInsideFile' BY DEF RecordsInsideFile, OperationProgress
<1>4. OperationProgress' BY DEF OperationProgress, RecordsInsideFile, FilesAgree, Operations, GrownCapacity
<1>5. FilesAgree' BY DEF FilesAgree, OperationProgress, Operations
<1> QED BY <1>1, <1>2, <1>3, <1>4, <1>5

\* A node goes only when the scan found no incident record.
LEMMA DeleteNodePreserves ==
  ASSUME IInv, NEW n \in Ids, DeleteNode(n)
  PROVE  IInv'
<1> USE DEF DeleteNode, IncidentRecords
<1>1. TypeOK' BY DEF Operations, OperationProgress, RecordsInsideFile
<1>2. ReferentialIntegrity' BY DEF ReferentialIntegrity, OperationProgress
<1>3. RecordsInsideFile' BY DEF RecordsInsideFile, OperationProgress
<1>4. OperationProgress' BY DEF OperationProgress, RecordsInsideFile, FilesAgree, Operations, GrownCapacity
<1>5. FilesAgree' BY DEF FilesAgree, OperationProgress, Operations
<1> QED BY <1>1, <1>2, <1>3, <1>4, <1>5

\* Both endpoints exist when the insert of an edge begins.
LEMMA InsertEdgePreserves ==
  ASSUME IInv, NEW s \in Ids, NEW t \in Ids, NEW d \in Documents, InsertEdge(s, t, d)
  PROVE  IInv'
<1> USE DEF InsertEdge, EndpointsExist, ArrayFull, GrownCapacity
<1>1. TypeOK' BY SMTT(30) DEF Operations, OperationProgress, RecordsInsideFile
<1>2. ReferentialIntegrity' BY DEF ReferentialIntegrity, OperationProgress
<1>3. RecordsInsideFile' BY DEF RecordsInsideFile, OperationProgress
<1>4. OperationProgress' BY DEF OperationProgress, RecordsInsideFile, FilesAgree, Operations, GrownCapacity
<1>5. FilesAgree' BY DEF FilesAgree, OperationProgress, Operations
<1> QED BY <1>1, <1>2, <1>3, <1>4, <1>5

\* The file grows before the capacity that counts its records.
LEMMA GrowResizePreserves ==
  ASSUME IInv, GrowResize
  PROVE  IInv'
<1> USE DEF GrowResize, InsertStep, GrownCapacity
<1>1. TypeOK' BY SMTT(30) DEF Operations, OperationProgress, RecordsInsideFile
<1>2. ReferentialIntegrity' BY DEF ReferentialIntegrity, OperationProgress
<1>3. RecordsInsideFile' BY DEF RecordsInsideFile, OperationProgress
<1>4. OperationProgress' BY DEF OperationProgress, RecordsInsideFile, FilesAgree, Operations, GrownCapacity
<1>5. FilesAgree' BY DEF FilesAgree, OperationProgress, Operations
<1> QED BY <1>1, <1>2, <1>3, <1>4, <1>5

\* The new capacity matches the size of the file.
LEMMA StampCapacityPreserves ==
  ASSUME IInv, StampCapacity
  PROVE  IInv'
<1> USE DEF StampCapacity, InsertStep, GrownCapacity
<1>1. TypeOK' BY SMTT(30) DEF Operations, OperationProgress, RecordsInsideFile
<1>2. ReferentialIntegrity' BY DEF ReferentialIntegrity, OperationProgress
<1>3. RecordsInsideFile' BY DEF RecordsInsideFile, OperationProgress
<1>4. OperationProgress' BY DEF OperationProgress, RecordsInsideFile, FilesAgree, Operations, GrownCapacity
<1>5. FilesAgree' BY DEF FilesAgree, OperationProgress, Operations
<1> QED BY <1>1, <1>2, <1>3, <1>4, <1>5

\* A replaced edge document changes no record.
LEMMA UpdateEdgePreserves ==
  ASSUME IInv, NEW e \in Ids, NEW d \in Documents, UpdateEdge(e, d)
  PROVE  IInv'
<1> USE DEF UpdateEdge
<1>1. TypeOK' BY DEF Operations, OperationProgress, RecordsInsideFile
<1>2. ReferentialIntegrity' BY DEF ReferentialIntegrity, OperationProgress
<1>3. RecordsInsideFile' BY DEF RecordsInsideFile, OperationProgress
<1>4. OperationProgress' BY DEF OperationProgress, RecordsInsideFile, FilesAgree, Operations, GrownCapacity
<1>5. FilesAgree' BY DEF FilesAgree, OperationProgress, Operations
<1> QED BY <1>1, <1>2, <1>3, <1>4, <1>5

\* The tombstone goes over the record of an edge whose object is gone.
LEMMA StoreTombstonePreserves ==
  ASSUME IInv, StoreTombstone
  PROVE  IInv'
<1> USE DEF StoreTombstone, Tombstoned
<1>1. TypeOK' BY SMTT(30) DEF Operations, OperationProgress, RecordsInsideFile
<1>2. ReferentialIntegrity' BY DEF ReferentialIntegrity, OperationProgress
<1>3. RecordsInsideFile' BY DEF RecordsInsideFile, OperationProgress
<1>4. OperationProgress' BY DEF OperationProgress, RecordsInsideFile, FilesAgree, Operations, GrownCapacity
<1>5. FilesAgree' BY DEF FilesAgree, OperationProgress, Operations
<1> QED BY <1>1, <1>2, <1>3, <1>4, <1>5

\* DETACH DELETE begins on a live node.
LEMMA DetachDeleteNodePreserves ==
  ASSUME IInv, NEW n \in Ids, DetachDeleteNode(n)
  PROVE  IInv'
<1> USE DEF DetachDeleteNode
<1>1. TypeOK' BY DEF Operations, OperationProgress, RecordsInsideFile
<1>2. ReferentialIntegrity' BY DEF ReferentialIntegrity, OperationProgress
<1>3. RecordsInsideFile' BY DEF RecordsInsideFile, OperationProgress
<1>4. OperationProgress' BY DEF OperationProgress, RecordsInsideFile, FilesAgree, Operations, GrownCapacity
<1>5. FilesAgree' BY DEF FilesAgree, OperationProgress, Operations
<1> QED BY <1>1, <1>2, <1>3, <1>4, <1>5

\* An operation given up half way leaves no dangling edge.
LEMMA OperationFailsPreserves ==
  ASSUME IInv, OperationFails
  PROVE  IInv'
<1> USE DEF OperationFails
<1>1. TypeOK' BY DEF Operations, OperationProgress, RecordsInsideFile
<1>2. ReferentialIntegrity' BY DEF ReferentialIntegrity, OperationProgress
<1>3. RecordsInsideFile' BY DEF RecordsInsideFile, OperationProgress
<1>4. OperationProgress' BY DEF OperationProgress, RecordsInsideFile, FilesAgree, Operations, GrownCapacity
<1>5. FilesAgree' BY DEF FilesAgree, OperationProgress, Operations
<1> QED BY <1>1, <1>2, <1>3, <1>4, <1>5

\* A crash leaves objects and records as they are.
LEMMA CrashPreserves ==
  ASSUME IInv, Crash
  PROVE  IInv'
<1> USE DEF Crash, ObjectStepNext
<1>1. TypeOK' BY DEF Operations, OperationProgress, RecordsInsideFile
<1>2. ReferentialIntegrity' BY DEF ReferentialIntegrity, OperationProgress
<1>3. RecordsInsideFile' BY DEF RecordsInsideFile, OperationProgress
<1>4. OperationProgress' BY DEF OperationProgress, RecordsInsideFile, FilesAgree, Operations, GrownCapacity
<1>5. FilesAgree' BY DEF FilesAgree, OperationProgress, Operations
<1> QED BY <1>1, <1>2, <1>3, <1>4, <1>5

\* Closing leaves objects and records as they are.
LEMMA linklet_graph_store_closePreserves ==
  ASSUME IInv, linklet_graph_store_close
  PROVE  IInv'
<1> USE DEF linklet_graph_store_close
<1>1. TypeOK' BY DEF Operations, OperationProgress, RecordsInsideFile
<1>2. ReferentialIntegrity' BY DEF ReferentialIntegrity, OperationProgress
<1>3. RecordsInsideFile' BY DEF RecordsInsideFile, OperationProgress
<1>4. OperationProgress' BY DEF OperationProgress, RecordsInsideFile, FilesAgree, Operations, GrownCapacity
<1>5. FilesAgree' BY DEF FilesAgree, OperationProgress, Operations
<1> QED BY <1>1, <1>2, <1>3, <1>4, <1>5

\* The validation of open establishes the agreement of the files.
LEMMA linklet_graph_store_openPreserves ==
  ASSUME IInv, linklet_graph_store_open
  PROVE  IInv'
<1> USE DEF linklet_graph_store_open, OpenSucceeds, validate_graph_files
<1>1. TypeOK' BY DEF Operations, OperationProgress, RecordsInsideFile
<1>2. ReferentialIntegrity' BY DEF ReferentialIntegrity, OperationProgress
<1>3. RecordsInsideFile' BY DEF RecordsInsideFile, OperationProgress
<1>4. OperationProgress' BY DEF OperationProgress, RecordsInsideFile, FilesAgree, Operations, GrownCapacity
<1>5. FilesAgree' BY DEF FilesAgree, OperationProgress, Operations
<1> QED BY <1>1, <1>2, <1>3, <1>4, <1>5

-----------------------------------------------------------------------------
(* Inserting an edge, deleting an edge, DETACH DELETE, failures *)

\* The object of an edge is stored above edge_count, out of sight of the records.
LEMMA InsertEdgeObjectPreserves == ASSUME IInv, InsertEdgeObject PROVE IInv'
<1> USE DEF InsertEdgeObject, IdAvailable
<1>a. op.pc \in InsertSteps /\ op.source \in Ids /\ op.destination \in Ids /\ op.doc \in Documents
  BY OperationFields DEF InsertSteps
<1>b. edge_count <= edges_next_id
  BY DEF OperationProgress
<1>1. CASE ~IdAvailable(edges_next_id)
  <2>1. op' = Idle /\ UNCHANGED <<edges, edges_next_id>> 
    BY <1>1
  <2>2. TypeOK' BY <2>1 DEF Operations
  <2>3. ReferentialIntegrity' BY <2>1 DEF ReferentialIntegrity
  <2>4. RecordsInsideFile' BY <2>1 DEF RecordsInsideFile
  <2>5. OperationProgress' BY <2>1 DEF OperationProgress
  <2>6. FilesAgree' BY <2>1 DEF FilesAgree
  <2> QED BY <2>2, <2>3, <2>4, <2>5, <2>6
<1>2. CASE IdAvailable(edges_next_id)
  <2>1. edges_next_id \in Ids /\ edges_next_id' = edges_next_id + 1
    BY <1>2
  <2>2. /\ edges' \in [Ids -> Documents \cup {Absent}]
        /\ edges'[edges_next_id] = op.doc
        /\ \A e \in Ids : e # edges_next_id => edges'[e] = edges[e]
    BY <1>2, <1>a, <2>1
  <2>3. /\ op' = IF edges_next_id = edge_count THEN InsertStep("edge_record") ELSE Idle
        /\ op.pc = "edge_object" /\ up
        /\ UNCHANGED <<nodes, nodes_next_id, edge_count, edge_capacity, vertex_id_capacity,
                       coo, coo_size, mapped, up, torn, faults>>
    BY <1>2
  <2>4. \/ /\ edges_next_id = edge_count
           /\ op' \in Operations /\ op'.pc = "edge_record"
           /\ op'.source = op.source /\ op'.destination = op.destination
        \/ /\ edges_next_id # edge_count
           /\ op' = Idle /\ op' \in Operations
    <3>1. Idle \in Operations BY DEF Operations
    <3> QED BY <2>3, <3>1, <1>a, InsertStepType DEF InsertSteps
  <2> HIDE DEF InsertEdgeObject, CooEdge
  <2>5. TypeOK' BY <2>1, <2>2, <2>3, <2>4
  <2>6. ReferentialIntegrity' BY <2>2, <2>3, <1>b DEF ReferentialIntegrity
  <2>7. RecordsInsideFile' BY <2>3, <2>4 DEF RecordsInsideFile
  <2>8. OperationProgress' BY <2>1, <2>2, <2>3, <2>4, <1>a, <1>b DEF OperationProgress
  <2>9. FilesAgree' BY <2>1, <2>2, <2>3, <2>4, <1>a, <1>b DEF FilesAgree
  <2> QED BY <2>5, <2>6, <2>7, <2>8, <2>9
<1> QED BY <1>1, <1>2

\* The record is written above edge_count, inside the file.
LEMMA StoreEdgeRecordPreserves == ASSUME IInv, StoreEdgeRecord PROVE IInv'
<1> USE DEF StoreEdgeRecord
<1>a. op.pc = "edge_record" /\ op.source \in Ids /\ op.destination \in Ids /\ op.doc \in Documents
  BY OperationFields DEF InsertSteps
<1>b. edge_count \in Ids /\ edges_next_id = edge_count + 1
  BY <1>a DEF OperationProgress
<1>c. /\ coo' \in [Ids -> CooEdge]
      /\ coo'[edge_count] = [source |-> op.source, destination |-> op.destination]
      /\ \A e \in Ids : e # edge_count => coo'[e] = coo[e]
  <2> PICK record : record = [source |-> op.source, destination |-> op.destination]
    OBVIOUS
  <2>1. coo' = [coo EXCEPT ![edge_count] = record] /\ coo \in [Ids -> CooEdge]
    OBVIOUS
  <2>2. record \in CooEdge
    BY <1>a
  <2>3. edge_count \in Ids
    BY <1>b
  <2> HIDE DEF IInv, TypeOK, CooEdge, StoreEdgeRecord, Ids
  <2> QED BY <2>1, <2>2, <2>3
<1>d. op' = InsertStep("stamp_edges") /\ op' \in Operations /\ op'.pc = "stamp_edges"
      /\ op'.source = op.source /\ op'.destination = op.destination
  BY <1>a, InsertStepType DEF InsertSteps
<1>1. TypeOK' BY <1>c, <1>d
<1>e. \A e \in Ids : e < edge_count => coo'[e] = coo[e]
  BY <1>b, <1>c
<1>f. UNCHANGED <<edges, nodes, edge_count, edge_capacity, coo_size, vertex_id_capacity,
                  nodes_next_id, edges_next_id, up, faults>>
  OBVIOUS
<1> HIDE DEF CooEdge
<1>2. ReferentialIntegrity' BY <1>e, <1>f DEF ReferentialIntegrity
<1>3. RecordsInsideFile' BY <1>a, <1>d DEF RecordsInsideFile
<1>4. OperationProgress' BY <1>a, <1>b, <1>c, <1>d DEF OperationProgress
<1>5. FilesAgree'
  <2> HIDE DEF StoreEdgeRecord
  <2> QED BY <1>a, <1>d, <1>e, <1>f DEF FilesAgree
<1> QED BY <1>1, <1>2, <1>3, <1>4, <1>5

\* The stamp makes the new edge visible; its endpoints still exist.
LEMMA StampEdgesPreserves == ASSUME IInv, StampEdges PROVE IInv'
<1> USE DEF StampEdges
<1>a. op.pc = "stamp_edges" /\ op.source \in Ids /\ op.destination \in Ids
  BY OperationFields DEF InsertSteps
<1>b. /\ edge_count \in Ids /\ edges_next_id = edge_count + 1
      /\ EdgeExists(edge_count)
      /\ coo[edge_count] = [source |-> op.source, destination |-> op.destination]
      /\ NodeExists(op.source) /\ NodeExists(op.destination)
  BY <1>a DEF OperationProgress
<1>c. edge_count' = edge_count + 1 /\ op' = Idle
  OBVIOUS
<1>1. TypeOK' BY <1>b, <1>c DEF Operations
<1>2. ReferentialIntegrity'
  <2> SUFFICES ASSUME NEW e \in Ids, e < edge_count', EdgeExists(e),
                      ~linklet_coo_edge_is_deleted(coo[e])
               PROVE  NodeExists(coo[e].source) /\ NodeExists(coo[e].destination)
    BY DEF ReferentialIntegrity
  <2>1. CASE e = edge_count BY <2>1, <1>b
  <2>2. CASE e # edge_count BY <2>2, <1>c DEF ReferentialIntegrity
  <2> QED BY <2>1, <2>2
<1>3. RecordsInsideFile' BY <1>a, <1>c DEF RecordsInsideFile
<1>4. OperationProgress' BY <1>b, <1>c DEF OperationProgress
<1>5. FilesAgree' BY <1>a, <1>b, <1>c DEF FilesAgree
<1> QED BY <1>1, <1>2, <1>3, <1>4, <1>5

\* The object of an edge goes before its record.
LEMMA DeleteEdgeObjectPreserves ==
  ASSUME IInv, NEW e \in Ids, NEW n \in 0 .. SIZE_MAX,
         op.pc \in {"idle", "detach"}, up, e < edge_count, EdgeExists(e),
         n # SIZE_MAX => NodeExists(n),
         DeleteEdgeObject(e, n)
  PROVE  IInv'
<1> USE DEF DeleteEdgeObject
<1>a. op' = [pc |-> "tombstone", edge |-> e, node |-> n]
  OBVIOUS
<1>1. TypeOK' BY <1>a DEF Operations
<1>2. ReferentialIntegrity' BY DEF ReferentialIntegrity
<1>3. RecordsInsideFile' BY <1>a DEF RecordsInsideFile
<1>4. OperationProgress' BY <1>a DEF OperationProgress
<1>5. FilesAgree' BY <1>a DEF FilesAgree
<1> QED BY <1>1, <1>2, <1>3, <1>4, <1>5

\* One turn of the DETACH loop: an edge, or the node once no record is incident.
LEMMA DetachPreserves == ASSUME IInv, Detach PROVE IInv'
<1>a. op.pc = "detach" /\ op.node \in Ids /\ up /\ NodeExists(op.node)
  BY OperationFields DEF Detach, OperationProgress
<1>1. ASSUME NEW e \in IncidentRecords(op.node), EdgeExists(e), DeleteEdgeObject(e, op.node)
      PROVE  IInv'
  BY <1>1, <1>a, DeleteEdgeObjectPreserves DEF IncidentRecords
<1>2. ASSUME op' = Idle, UNCHANGED objectVars, UNCHANGED mappingVars, UNCHANGED <<up, torn, faults>>
      PROVE  IInv'
  <2>1. TypeOK' BY <1>2 DEF Operations
  <2>2. ReferentialIntegrity' BY <1>2 DEF ReferentialIntegrity
  <2>3. RecordsInsideFile' BY <1>2 DEF RecordsInsideFile
  <2>4. OperationProgress' BY <1>2, <1>a DEF OperationProgress
  <2>5. FilesAgree' BY <1>2, <1>a DEF FilesAgree
  <2> QED BY <2>1, <2>2, <2>3, <2>4, <2>5
<1>3. ASSUME IncidentRecords(op.node) = {}, nodes' = [nodes EXCEPT ![op.node] = Absent], op' = Idle,
             UNCHANGED <<nodes_next_id, edges, edges_next_id, up, torn, faults>>, UNCHANGED mappingVars
      PROVE  IInv'
  <2>1. TypeOK' BY <1>3 DEF Operations
  <2>2. ReferentialIntegrity' BY <1>3, <1>a DEF ReferentialIntegrity, IncidentRecords
  <2>3. RecordsInsideFile' BY <1>3 DEF RecordsInsideFile
  <2>4. OperationProgress' BY <1>3, <1>a DEF OperationProgress
  <2>5. FilesAgree' BY <1>3, <1>a DEF FilesAgree
  <2> QED BY <2>1, <2>2, <2>3, <2>4, <2>5
<1> QED BY <1>1, <1>2, <1>3 DEF Detach

\* A failed growth leaves the array as it was, unmapped.
LEMMA GrowFailsPreserves == ASSUME IInv, GrowFails PROVE IInv'
<1> USE DEF GrowFails
<1>1. TypeOK' 
  <2>1. faults' \in 0 .. MAX_FAULTS OBVIOUS
  <2>2. op' \in Operations BY DEF Operations
  <2>3. mapped' \in BOOLEAN OBVIOUS
  <2> QED BY <2>1, <2>2, <2>3
<1>2. faults' # 0 OBVIOUS
<1> QED BY <1>1, <1>2 DEF ReferentialIntegrity, RecordsInsideFile, OperationProgress, FilesAgree

\* DELETE of an edge is the edge delete of the DETACH loop with no node to follow.
LEMMA DeleteEdgePreserves ==
  ASSUME IInv, NEW e \in Ids, DeleteEdge(e)
  PROVE  IInv'
<1>1. op.pc \in {"idle", "detach"} /\ up /\ e < edge_count /\ EdgeExists(e)
      /\ DeleteEdgeObject(e, SIZE_MAX)
  BY DEF DeleteEdge
<1>2. SIZE_MAX \in 0 .. SIZE_MAX
  OBVIOUS
<1> HIDE DEF IInv
<1> QED BY <1>1, <1>2, DeleteEdgeObjectPreserves

\* Stuttering steps.
LEMMA StutterPreserves ==
  ASSUME IInv, UNCHANGED vars
  PROVE  IInv'
<1> USE DEF vars
<1>1. TypeOK' BY DEF Operations
<1>2. ReferentialIntegrity' BY DEF ReferentialIntegrity
<1>3. RecordsInsideFile' BY DEF RecordsInsideFile
<1>4. OperationProgress' BY DEF OperationProgress, GrownCapacity
<1>5. FilesAgree' BY DEF FilesAgree
<1> QED BY <1>1, <1>2, <1>3, <1>4, <1>5

-----------------------------------------------------------------------------
(* The invariance theorem and its consequences *)

\* Every step of the graph store preserves IInv.
LEMMA NextPreserves ==
  ASSUME IInv, [Next]_vars
  PROVE  IInv'
<1> HIDE DEF IInv
<1>1. ASSUME NEW d \in Documents, InsertNode(d) PROVE IInv'
  BY <1>1, InsertNodePreserves
<1>2. ASSUME NEW n \in Ids, NEW d \in Documents, UpdateNode(n, d) PROVE IInv'
  BY <1>2, UpdateNodePreserves
<1>3. ASSUME NEW n \in Ids, DeleteNode(n) \/ DetachDeleteNode(n) PROVE IInv'
  BY <1>3, DeleteNodePreserves, DetachDeleteNodePreserves
<1>4. ASSUME NEW s \in Ids, NEW t \in Ids, NEW d \in Documents, InsertEdge(s, t, d) PROVE IInv'
  BY <1>4, InsertEdgePreserves
<1>5. ASSUME NEW e \in Ids, NEW d \in Documents, UpdateEdge(e, d) PROVE IInv'
  BY <1>5, UpdateEdgePreserves
<1>6. ASSUME NEW e \in Ids, DeleteEdge(e) PROVE IInv'
  BY <1>6, DeleteEdgePreserves
<1>7. CASE Continue
  BY <1>7, StampVerticesPreserves, GrowResizePreserves, StampCapacityPreserves,
     InsertEdgeObjectPreserves, StoreEdgeRecordPreserves, StampEdgesPreserves,
     StoreTombstonePreserves, DetachPreserves
  DEF Continue
<1>8. CASE OperationFails \/ GrowFails
  BY <1>8, OperationFailsPreserves, GrowFailsPreserves
<1>9. CASE Crash \/ linklet_graph_store_close \/ linklet_graph_store_open
  BY <1>9, CrashPreserves, linklet_graph_store_closePreserves, linklet_graph_store_openPreserves
<1>10. CASE UNCHANGED vars
  BY <1>10, StutterPreserves
<1> QED BY <1>1, <1>2, <1>3, <1>4, <1>5, <1>6, <1>7, <1>8, <1>9, <1>10 DEF Next

\* IInv is an invariant of the graph store.
THEOREM Invariance == Spec => []IInv
<1>1. Init => IInv
  BY InitEstablishes
<1>2. IInv /\ [Next]_vars => IInv'
  <2> HIDE DEF IInv
  <2> QED BY NextPreserves
<1> QED BY <1>1, <1>2, PTL DEF Spec

\* Type correctness: every counter, index and step argument stays in its range.
THEOREM TypeCorrectness == Spec => []TypeOK
<1>1. IInv => TypeOK
  OBVIOUS
<1> QED BY <1>1, Invariance, PTL

\* No recorded live edge ever dangles: not between two steps of an operation, not
\* after a crash and not after failed I/O.
THEOREM NoDanglingEdges == Spec => []ReferentialIntegrity
<1>1. IInv => ReferentialIntegrity
  OBVIOUS
<1> QED BY <1>1, Invariance, PTL

\* The code never writes or scans a COO record outside connectivity.ll.
THEOREM RecordsStayInside == Spec => []RecordsInsideFile
<1>1. IInv => RecordsInsideFile
  OBVIOUS
<1> QED BY <1>1, Invariance, PTL

\* Between operations that succeeded the three files pass the validation of open.
THEOREM ReopenIsAccepted == Spec => []ReopenAccepted
<1>1. IInv => ReopenAccepted
  BY DEF ReopenAccepted, OpenSucceeds, validate_graph_files, ReferentialIntegrity,
         RecordsInsideFile, FilesAgree
<1> QED BY <1>1, Invariance, PTL

-----------------------------------------------------------------------------
(* The graph store implements the property graph.  Under the mapping of GraphStore *)
(* an insert takes effect when edge_count is stamped, a delete when the edge       *)
(* object goes; every other step leaves the graph as it is.                        *)

\* The edges of the graph are those with an object and a live record below edge_count.
Recorded(e) ==
  /\ e \in Ids /\ e < edge_count
  /\ EdgeExists(e)
  /\ ~linklet_coo_edge_is_deleted(coo[e])

EdgeRecord(e) ==
  [source |-> coo[e].source, destination |-> coo[e].destination, doc |-> edges[e]]

\* An edge of the graph is a recorded edge, with the endpoints of its record.
LEMMA EdgesValue ==
  ASSUME IInv, NEW e \in Ids
  PROVE  /\ Recorded(e) => Edges[e] = EdgeRecord(e) /\ Edges[e] # Absent
         /\ ~Recorded(e) => Edges[e] = Absent
<1>1. Recorded(e) => Edges[e] = EdgeRecord(e)
  BY DEF Recorded, Edges, EdgeRecord
<1>2. ~Recorded(e) => Edges[e] = Absent
  BY DEF Recorded, Edges
<1>3. ASSUME Recorded(e) PROVE EdgeRecord(e) # Absent
  <2>1. coo[e].source \in Ids /\ coo[e].destination \in Ids
    BY <1>3 DEF ReferentialIntegrity, Recorded
  <2>2. edges[e] \in Documents
    BY <1>3 DEF Recorded
  <2>3. EdgeRecord(e) \in [source : Ids, destination : Ids, doc : Documents]
    BY <2>1, <2>2 DEF EdgeRecord
  <2> QED BY <2>3
<1> QED BY <1>1, <1>2, <1>3

\* A step that leaves the objects, the recorded edges and their records alone
\* leaves the edges of the graph alone.
LEMMA EdgesUnchanged ==
  ASSUME \A e \in Ids : Recorded(e)' <=> Recorded(e),
         \A e \in Ids : Recorded(e) => coo'[e] = coo[e] /\ edges'[e] = edges[e]
  PROVE  Edges' = Edges
<1>1. Edges = [e \in Ids |-> IF Recorded(e) THEN EdgeRecord(e) ELSE Absent]
  BY DEF Edges, Recorded, EdgeRecord
<1>2. Edges' = [e \in Ids |-> IF Recorded(e)' THEN EdgeRecord(e)' ELSE Absent]
  BY DEF Edges, Recorded, EdgeRecord
<1>3. \A e \in Ids : Recorded(e) => EdgeRecord(e)' = EdgeRecord(e)
  BY DEF EdgeRecord
<1> QED BY <1>1, <1>2, <1>3

\* A created store is the empty graph.
LEMMA RefineInit == Init => Abstract!Init
<1> SUFFICES ASSUME Init PROVE Abstract!Init
  OBVIOUS
<1>1. Edges = [e \in Ids |-> Absent]
  BY DEF Init, Edges
<1> QED BY <1>1 DEF Init, Abstract!Init, Abstract!Ids

\* The node exists as soon as its object does.
LEMMA RefineInsertNode ==
  ASSUME IInv, NEW d \in Documents, InsertNode(d)
  PROVE  Abstract!InsertNode(d)
<1>1. Edges' = Edges
  BY DEF InsertNode, Edges
<1> QED BY <1>1 DEF InsertNode, IdAvailable, Abstract!InsertNode

\* Replacing the document of a node.
LEMMA RefineUpdateNode ==
  ASSUME IInv, NEW n \in Ids, NEW d \in Documents, UpdateNode(n, d)
  PROVE  Abstract!UpdateNode(n, d)
<1>1. Edges' = Edges
  BY DEF UpdateNode, Edges
<1> QED BY <1>1 DEF UpdateNode, Abstract!UpdateNode

\* When no live record mentions the node, no edge of the graph does.
LEMMA RefineNodeDelete ==
  ASSUME IInv, NEW n \in Ids, NodeExists(n), IncidentRecords(n) = {},
         nodes' = [nodes EXCEPT ![n] = Absent],
         UNCHANGED <<edges, nodes_next_id, edge_count, coo>>
  PROVE  Abstract!DeleteNode(n)
<1>1. Edges' = Edges
  BY DEF Edges
<1>2. Abstract!Incident(n) = {}
  <2> SUFFICES ASSUME NEW e \in Ids, Edges[e] # Absent, n \in {Edges[e].source, Edges[e].destination}
               PROVE  FALSE
    BY DEF Abstract!Incident, Abstract!Ids
  <2>1. Recorded(e) /\ Edges[e] = EdgeRecord(e)
    BY EdgesValue
  <2>2. e \in IncidentRecords(n)
    BY <2>1 DEF Recorded, EdgeRecord, IncidentRecords
  <2> QED BY <2>2
<1> QED BY <1>1, <1>2 DEF Abstract!DeleteNode

\* Replacing the document of an edge; an object without a record is no edge.
LEMMA RefineUpdateEdge ==
  ASSUME IInv, NEW e \in Ids, NEW d \in Documents, UpdateEdge(e, d)
  PROVE  Abstract!UpdateEdge(e, d) \/ UNCHANGED Abstract!graphVars
<1> USE DEF UpdateEdge
<1>a. /\ edges' = [edges EXCEPT ![e] = d] /\ EdgeExists(e)
      /\ UNCHANGED <<nodes, nodes_next_id, edge_count, coo>>
  OBVIOUS
<1>b. \A f \in Ids : Recorded(f)' <=> Recorded(f)
  BY <1>a DEF Recorded
<1>1. CASE Recorded(e)
  <2>1. Edges' = [Edges EXCEPT ![e].doc = d]
    <3>1. Edges[e] = EdgeRecord(e) /\ Edges[e] # Absent
      BY <1>1, EdgesValue
    <3>2. Edges = [f \in Ids |-> IF Recorded(f) THEN EdgeRecord(f) ELSE Absent]
      BY DEF Edges, Recorded, EdgeRecord
    <3>3. Edges' = [f \in Ids |-> IF Recorded(f)' THEN EdgeRecord(f)' ELSE Absent]
      BY DEF Edges, Recorded, EdgeRecord
    <3>4. EdgeRecord(e)' = [EdgeRecord(e) EXCEPT !.doc = d]
      BY <1>a, SMTT(30) DEF EdgeRecord
    <3>5. \A f \in Ids : f # e => EdgeRecord(f)' = EdgeRecord(f)
      BY <1>a DEF EdgeRecord
    <3> QED BY <3>1, <3>2, <3>3, <3>4, <3>5, <1>b, <1>1
  <2>2. Edges[e] # Absent
    BY <1>1, EdgesValue
  <2> QED BY <2>1, <2>2, <1>a DEF Abstract!UpdateEdge
<1>2. CASE ~Recorded(e)
  <2>1. Edges' = Edges
    BY <1>2, <1>a, <1>b, EdgesUnchanged
  <2> QED BY <2>1, <1>a DEF Abstract!graphVars
<1> QED BY <1>1, <1>2

\* The edge is gone with its object, before the tombstone.
LEMMA RefineEdgeDelete ==
  ASSUME IInv, NEW e \in Ids, NEW n \in 0 .. SIZE_MAX, DeleteEdgeObject(e, n)
  PROVE  Abstract!DeleteEdge(e) \/ UNCHANGED Abstract!graphVars
<1>a. /\ edges' = [edges EXCEPT ![e] = Absent]
      /\ UNCHANGED <<nodes, nodes_next_id, edge_count, coo>>
  BY DEF DeleteEdgeObject
<1>b. ~Recorded(e)' /\ \A f \in Ids : f # e => (Recorded(f)' <=> Recorded(f))
  BY <1>a DEF Recorded
<1>1. CASE Recorded(e)
  <2>1. Edges = [f \in Ids |-> IF Recorded(f) THEN EdgeRecord(f) ELSE Absent]
    BY DEF Edges, Recorded, EdgeRecord
  <2>2. Edges' = [f \in Ids |-> IF Recorded(f)' THEN EdgeRecord(f)' ELSE Absent]
    BY DEF Edges, Recorded, EdgeRecord
  <2>3. \A f \in Ids : f # e => EdgeRecord(f)' = EdgeRecord(f)
    BY <1>a DEF EdgeRecord
  <2>4. Edges' = [Edges EXCEPT ![e] = Absent]
    BY <2>1, <2>2, <2>3, <1>b
  <2>5. Edges[e] # Absent
    BY <1>1, EdgesValue
  <2> QED BY <2>4, <2>5, <1>a DEF Abstract!DeleteEdge
<1>2. CASE ~Recorded(e)
  <2>1. Edges' = Edges
    BY <1>2, <1>a, <1>b, EdgesUnchanged
  <2> QED BY <2>1, <1>a DEF Abstract!graphVars
<1> QED BY <1>1, <1>2

\* The edge exists from the stamp of edge_count on, with endpoints that exist.
LEMMA RefineStampEdges ==
  ASSUME IInv, StampEdges
  PROVE  Abstract!InsertEdge(op.source, op.destination, edges[edge_count])
<1>a. /\ edge_count' = edge_count + 1
      /\ op.pc = "stamp_edges"
      /\ UNCHANGED <<nodes, nodes_next_id, edges, coo>>
  BY DEF StampEdges
<1>b. /\ edge_count \in Ids /\ EdgeExists(edge_count)
      /\ coo[edge_count] = [source |-> op.source, destination |-> op.destination]
      /\ NodeExists(op.source) /\ NodeExists(op.destination)
  BY <1>a DEF OperationProgress
<1>1. Edges = [f \in Ids |-> IF Recorded(f) THEN EdgeRecord(f) ELSE Absent]
  BY DEF Edges, Recorded, EdgeRecord
<1>2. Edges' = [f \in Ids |-> IF Recorded(f)' THEN EdgeRecord(f)' ELSE Absent]
  BY DEF Edges, Recorded, EdgeRecord
<1>3. \A f \in Ids : EdgeRecord(f)' = EdgeRecord(f)
  BY <1>a DEF EdgeRecord
<1> PICK k \in Ids : k = edge_count
  BY <1>b
<1>4. Recorded(k)' /\ \A f \in Ids : f # k => (Recorded(f)' <=> Recorded(f))
  <2>1. op.source \in Ids /\ SIZE_MAX \notin Ids
    BY <1>b
  <2>2. coo[k].source # SIZE_MAX
    BY <1>b, <2>1
  <2>3. coo[k] # Tombstone
    BY <2>2
  <2>4. \A f \in Ids : f < edge_count' <=> f < edge_count \/ f = k
    BY <1>a, <1>b
  <2> QED BY <1>a, <1>b, <2>3, <2>4 DEF Recorded
<1>5. EdgeRecord(k) = [source |-> op.source, destination |-> op.destination, doc |-> edges[k]]
  BY <1>b DEF EdgeRecord
<1>6. Edges' = [Edges EXCEPT ![k] = EdgeRecord(k)]
  BY <1>1, <1>2, <1>3, <1>4
<1> QED BY <1>5, <1>6, <1>a, <1>b DEF Abstract!InsertEdge

\* Every turn of the DETACH loop deletes an edge, or the node without edges.
LEMMA RefineDetach ==
  ASSUME IInv, Detach
  PROVE  \/ \E e \in Ids : Abstract!DeleteEdge(e)
         \/ \E n \in Ids : Abstract!DeleteNode(n)
         \/ UNCHANGED Abstract!graphVars
<1>a. op.node \in Ids /\ NodeExists(op.node)
  BY OperationFields DEF Detach, OperationProgress
<1>1. ASSUME NEW e \in IncidentRecords(op.node), DeleteEdgeObject(e, op.node)
      PROVE  Abstract!DeleteEdge(e) \/ UNCHANGED Abstract!graphVars
  BY <1>1, <1>a, RefineEdgeDelete DEF IncidentRecords
<1>2. ASSUME UNCHANGED objectVars, UNCHANGED mappingVars
      PROVE  UNCHANGED Abstract!graphVars
  BY <1>2 DEF Abstract!graphVars, Edges
<1>3. ASSUME IncidentRecords(op.node) = {}, nodes' = [nodes EXCEPT ![op.node] = Absent],
             UNCHANGED <<nodes_next_id, edges>>, UNCHANGED mappingVars
      PROVE  Abstract!DeleteNode(op.node)
  BY <1>3, <1>a, RefineNodeDelete
<1> QED BY <1>1, <1>2, <1>3, <1>a DEF Detach, IncidentRecords

\* All other steps leave the graph as it is.
LEMMA RefineQuietSteps ==
  ASSUME IInv,
         \/ StampVertices \/ GrowResize \/ StampCapacity
         \/ InsertEdgeObject \/ StoreEdgeRecord \/ StoreTombstone
         \/ OperationFails \/ GrowFails \/ Crash
         \/ linklet_graph_store_close \/ linklet_graph_store_open
         \/ (\E s, t \in Ids, d \in Documents : InsertEdge(s, t, d))
         \/ (\E n \in Ids : DetachDeleteNode(n))
         \/ UNCHANGED vars
  PROVE  UNCHANGED Abstract!graphVars
<1>1. CASE InsertEdgeObject
  <2>1. UNCHANGED <<nodes, nodes_next_id, edge_count, coo>>
    BY <1>1 DEF InsertEdgeObject
  <2>2. edges_next_id >= edge_count
    BY DEF OperationProgress
  <2>3. \A e \in Ids : e < edge_count => edges'[e] = edges[e]
    <3> HIDE DEF IInv, TypeOK
    <3>1. edge_count \in Nat /\ edges_next_id \in Nat
      BY SizesAssumption DEF IInv, TypeOK
    <3>2. edges' = edges \/ edges' = [edges EXCEPT ![edges_next_id] = op.doc]
      BY <1>1 DEF InsertEdgeObject
    <3>3. \A e \in Ids : e # edges_next_id => edges'[e] = edges[e]
      <4>1. edges \in [Ids -> Documents \cup {Absent}]
        BY DEF IInv, TypeOK
      <4> QED BY <3>2, <4>1
    <3>4. \A e \in Ids : e < edge_count => e # edges_next_id
      BY <3>1, <2>2
    <3> QED BY <3>3, <3>4
  <2>4. Edges' = Edges
    BY <2>1, <2>3, EdgesUnchanged DEF Recorded
  <2> QED BY <2>1, <2>4 DEF Abstract!graphVars
<1>2. CASE StoreEdgeRecord
  <2>1. UNCHANGED <<nodes, nodes_next_id, edge_count, edges>>
    BY <1>2 DEF StoreEdgeRecord
  <2>2. \A e \in Ids : e < edge_count => coo'[e] = coo[e]
    BY <1>2 DEF StoreEdgeRecord
  <2>3. Edges' = Edges
    BY <2>1, <2>2, EdgesUnchanged DEF Recorded
  <2> QED BY <2>1, <2>3 DEF Abstract!graphVars
<1>3. CASE StoreTombstone
  <2>1. UNCHANGED <<nodes, nodes_next_id, edge_count, edges>>
    BY <1>3 DEF StoreTombstone
  <2>2. op.edge \in Ids /\ ~EdgeExists(op.edge)
    BY <1>3, OperationFields DEF StoreTombstone, OperationProgress
  <2>3. \A e \in Ids : e # op.edge => coo'[e] = coo[e]
    BY <1>3, <2>2 DEF StoreTombstone, Tombstoned
  <2>4. Edges' = Edges
    BY <2>1, <2>2, <2>3, EdgesUnchanged DEF Recorded
  <2> QED BY <2>1, <2>4 DEF Abstract!graphVars
<1>4. ASSUME UNCHANGED <<nodes, nodes_next_id, edge_count, edges, coo>>
      PROVE  UNCHANGED Abstract!graphVars
  <2>1. Edges' = Edges
    BY <1>4 DEF Edges
  <2> QED BY <2>1, <1>4 DEF Abstract!graphVars
<1> QED
  BY <1>1, <1>2, <1>3, <1>4
  DEF StampVertices, GrowResize, StampCapacity, OperationFails, GrowFails, Crash,
      linklet_graph_store_close, linklet_graph_store_open, InsertEdge, DetachDeleteNode, vars

\* The graph store implements the property graph: every step of every operation,
\* every crash, restart and failure is a step of the graph or leaves it as it is.
THEOREM Refinement == Spec => ImplementsPropertyGraph
<1>1. Init => Abstract!Init
  BY RefineInit
<1>2. IInv /\ [Next]_vars => [Abstract!Next]_(Abstract!graphVars)
  <2> SUFFICES ASSUME IInv, [Next]_vars
               PROVE  Abstract!Next \/ UNCHANGED Abstract!graphVars
    OBVIOUS
  <2> HIDE DEF IInv
  <2> USE DEF Abstract!Next, Abstract!Ids
  <2>1. ASSUME NEW d \in Documents, InsertNode(d) PROVE Abstract!Next
    BY <2>1, RefineInsertNode
  <2>2. ASSUME NEW n \in Ids, NEW d \in Documents, UpdateNode(n, d) PROVE Abstract!Next
    BY <2>2, RefineUpdateNode
  <2>3. ASSUME NEW n \in Ids, DeleteNode(n) PROVE Abstract!Next
    <3>1. Abstract!DeleteNode(n)
      BY <2>3, RefineNodeDelete DEF DeleteNode
    <3> QED BY <3>1
  <2>4. ASSUME NEW e \in Ids, NEW d \in Documents, UpdateEdge(e, d)
        PROVE  Abstract!Next \/ UNCHANGED Abstract!graphVars
    BY <2>4, RefineUpdateEdge
  <2>5. ASSUME NEW e \in Ids, DeleteEdge(e)
        PROVE  Abstract!Next \/ UNCHANGED Abstract!graphVars
    <3>1. DeleteEdgeObject(e, SIZE_MAX) /\ SIZE_MAX \in 0 .. SIZE_MAX
      BY <2>5 DEF DeleteEdge
    <3> QED BY <3>1, RefineEdgeDelete
  <2>6. CASE StampEdges
    <3>1. op.source \in Ids /\ op.destination \in Ids /\ edges[edge_count] \in Documents
      BY <2>6 DEF StampEdges, IInv, OperationProgress
    <3> QED BY <3>1, <2>6, RefineStampEdges
  <2>7. CASE Detach
    BY <2>7, RefineDetach
  <2>8. CASE Continue /\ ~StampEdges /\ ~Detach
    BY <2>8, RefineQuietSteps DEF Continue
  <2>9. ASSUME NEW s \in Ids, NEW t \in Ids, NEW d \in Documents, InsertEdge(s, t, d)
        PROVE  UNCHANGED Abstract!graphVars
    BY <2>9, RefineQuietSteps
  <2>10. ASSUME NEW n \in Ids, DetachDeleteNode(n)
         PROVE  UNCHANGED Abstract!graphVars
    BY <2>10, RefineQuietSteps
  <2>11. CASE \/ OperationFails \/ GrowFails \/ Crash
              \/ linklet_graph_store_close \/ linklet_graph_store_open
              \/ UNCHANGED vars
    BY <2>11, RefineQuietSteps
  <2> QED
    BY <2>1, <2>2, <2>3, <2>4, <2>5, <2>6, <2>7, <2>8, <2>9, <2>10, <2>11 DEF Next
<1> QED
  BY <1>1, <1>2, Invariance, PTL DEF Spec, ImplementsPropertyGraph, Abstract!Spec
===================================================================================
