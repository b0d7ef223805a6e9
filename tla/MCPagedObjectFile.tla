---------------------------- MODULE MCPagedObjectFile ----------------------------
(* Small instance of PagedObjectFile: pages of six units, a one-unit page header *)
(* and one-unit slots.  "a" and "b" are two documents of the same size, "c" is   *)
(* one unit longer, so that updates fit, shrink or relocate.                     *)
EXTENDS PagedObjectFile

MCDocuments == {"a", "b", "c"}
MCLength == [d \in MCDocuments |-> IF d = "c" THEN 2 ELSE 1]
=================================================================================
