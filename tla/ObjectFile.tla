------------------------------- MODULE ObjectFile -------------------------------
(* What a paged object file promises its caller, the graph store: a map from    *)
(* object IDs to BSON documents.  IDs are issued in ascending order and never   *)
(* issued twice, an operation takes effect completely or not at all, and a      *)
(* crash in the middle of one may in addition leave a file that                 *)
(* linklet_object_file_open refuses (usable = FALSE).                           *)
(* PagedObjectFile implements this specification.                               *)
EXTENDS Naturals

CONSTANTS Documents,  \* the documents a caller may store
          Absent,     \* the content of an ID that holds no object
          SIZE_MAX    \* IDs range over 0 .. SIZE_MAX - 1

VARIABLES objects,    \* objects[id]: the document stored under id, or Absent
          next_id,    \* the ID the next insert returns
          usable      \* FALSE once the file can no longer be opened

abstractVars == <<objects, next_id, usable>>

ObjectIds == 0 .. SIZE_MAX - 1

Init ==
  /\ objects = [id \in ObjectIds |-> Absent]
  /\ next_id = 0
  /\ usable = TRUE

Insert(d) ==
  /\ usable
  /\ next_id < SIZE_MAX
  /\ objects' = [objects EXCEPT ![next_id] = d]
  /\ next_id' = next_id + 1
  /\ UNCHANGED usable

Update(id, d) ==
  /\ usable
  /\ objects[id] # Absent
  /\ objects' = [objects EXCEPT ![id] = d]
  /\ UNCHANGED <<next_id, usable>>

Delete(id) ==
  /\ usable
  /\ objects[id] # Absent
  /\ objects' = [objects EXCEPT ![id] = Absent]
  /\ UNCHANGED <<next_id, usable>>

\* A crash left a file that open refuses.
Lose ==
  /\ usable
  /\ usable' = FALSE
  /\ UNCHANGED <<objects, next_id>>

Next ==
  \/ \E d \in Documents : Insert(d)
  \/ \E id \in ObjectIds, d \in Documents : Update(id, d)
  \/ \E id \in ObjectIds : Delete(id)
  \/ Lose

Spec == Init /\ [][Next]_abstractVars
=================================================================================
