------------------------------- MODULE MCGraphStore -------------------------------
(* Small instances of GraphStore: two node and two edge IDs and two documents; the *)
(* array of records is created with the default capacity and has to double.       *)
EXTENDS GraphStore
=================================================================================
