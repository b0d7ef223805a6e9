--------------------------------- MODULE Catalog ---------------------------------
(* database/catalog.c and the metadata file of database/database.c: the catalog in *)
(* memory (graph name, node labels, edge labels), the DDL statements that change   *)
(* it, and metadata.ll, which linklet_database_execute rewrites after each of them *)
(* and linklet_database_open reads.                                                *)
(*                                                                                 *)
(* write_metadata is three steps, ftruncate, pwrite and fsync, between which the   *)
(* process may die and each of which may fail.  A document is the catalog it       *)
(* encodes and a size; a program is the sequence of its DDL statements, joined by  *)
(* NEXT, as the AST has them in preorder.                                          *)
EXTENDS Integers, Sequences, SequencesExt

CONSTANTS
  Programs,       \* the DDL programs a session may execute
  GraphNames,     \* the names linklet_database_create may be given
  Length,         \* the names and labels there are, each with its length
  Unencodable,    \* names that linklet_bson_utf8_validate rejects
  NoName, NoCatalog, Missing,
  Damaged,        \* a label of which metadata.ll has lost the end
  MAX_FAULTS      \* bound: failing I/O calls of a behaviour

\* The names and labels, what a catalog may be, and an element of a graph type.
Labels == DOMAIN Length
Catalogs == [name : Labels, node_labels : Seq(Labels), edge_labels : Seq(Labels)]
Elements ==
  [is_node : BOOLEAN, text : Labels \cup {NoName}, alias : Labels \cup {NoName},
   source : Seq(Labels), labels : Seq(Labels), destination : Seq(Labels)]

ASSUME NamesAssumption ==
  /\ Length \in [Labels -> Nat] /\ MAX_FAULTS \in Nat
  /\ GraphNames \subseteq Labels /\ Damaged \in Labels
  /\ NoCatalog \notin Catalogs
  /\ Missing \notin [doc : Catalogs \cup {NoCatalog}, size : Nat,
                    end : {"whole", "lost", "damaged", "unreadable"}]
ASSUME ProgramsAssumption ==
  \A program \in Programs :
    program \in Seq([kind : STRING, name : Labels, nested : Seq(Seq(Elements))])

VARIABLES
  up,             \* a process has the database open
  catalog,        \* LinkletCatalog
  file,           \* metadata.ll, or Missing
  pending,        \* the next step of write_metadata, or "none"
  faults,
  aux_saved,      \* the catalog of the last write_metadata that returned true
  aux_attempted   \* the catalogs handed to write_metadata since then

auxVars == <<aux_saved, aux_attempted>>
vars == <<up, catalog, file, pending, faults, auxVars>>

NewCatalog(name) == [name |-> name, node_labels |-> <<>>, edge_labels |-> <<>>]

-----------------------------------------------------------------------------
(* Labels and DDL *)

\* add_label: contains, then append.  Seeded bug: no look-up.
AddLabel_Always(labels, label) == Append(labels, label)
AddLabel(labels, label) == IF Contains(labels, label) THEN labels ELSE Append(labels, label)

AddLabels(labels, new) == FoldLeft(AddLabel, labels, new)

\* find_first(element, GQL_LABEL_EXPRESSION): the subtrees of an element type that
\* can hold one, in the order of the AST; an edge type has its source endpoint first.
FirstLabelExpression(element) ==
  IF element.source # <<>> THEN element.source
  ELSE IF element.labels # <<>> THEN element.labels ELSE element.destination

\* The labels add_element_labels registers: those of the label expression, or else
\* the name of the type or its alias.
ElementLabels(element) ==
  LET expression == FirstLabelExpression(element)
      fallback == IF element.text # NoName THEN element.text ELSE element.alias
  IN  IF expression # <<>> THEN expression
      ELSE IF fallback # NoName THEN <<fallback>> ELSE <<>>

add_element_labels(c, element) ==
  IF element.is_node
    THEN [c EXCEPT !.node_labels = AddLabels(@, ElementLabels(element))]
    ELSE [c EXCEPT !.edge_labels = AddLabels(@, ElementLabels(element))]

apply_nested_graph_type(c, elements) == FoldLeft(add_element_labels, c, elements)

\* find_first in a program.
OfKind(program, kind) == {i \in DOMAIN program : program[i].kind = kind}
FirstOfKind(program, kind) == program[Min(OfKind(program, kind))]

\* A program the switch of linklet_catalog_apply_ddl refuses: DROP, or a graph type
\* without its elements.  nested is a sequence of one element list, or empty.
Refused(program) ==
  IF OfKind(program, "create_graph_type") # {}
    THEN FirstOfKind(program, "create_graph_type").nested = <<>>
    ELSE OfKind(program, "create_graph") = {}

\* linklet_catalog_apply_ddl: the first CREATE GRAPH TYPE of the program, or else its
\* first CREATE GRAPH.
ApplyNested(c, statement) ==
  IF statement.nested = <<>> THEN c ELSE apply_nested_graph_type(c, Head(statement.nested))

linklet_catalog_apply_ddl(c, program) ==
  IF OfKind(program, "create_graph_type") # {}
    THEN ApplyNested(c, FirstOfKind(program, "create_graph_type"))
    ELSE LET graph == FirstOfKind(program, "create_graph")
         IN  ApplyNested([c EXCEPT !.name = graph.name], graph)

-----------------------------------------------------------------------------
(* metadata.ll *)

Names(c) == {c.name} \cup Range(c.node_labels) \cup Range(c.edge_labels)

Encodable(c) == Names(c) \cap Unencodable = {}

\* The size of a document grows with each name in it.
SizeOf(labels) == FoldLeft(LAMBDA size, label : size + Length[label] + 1, 0, labels)
DocumentSize(c) == 1 + SizeOf(<<c.name>>) + SizeOf(c.node_labels) + SizeOf(c.edge_labels)

\* end tells what became of the end of the document: "whole", "lost" (the file is
\* shorter), or what zeros made of a lost end: a "damaged" last label, "unreadable".
EmptyFile == [doc |-> NoCatalog, size |-> 0, end |-> "whole"]

\* ftruncate: a document longer than the new size loses its end, and a lost end comes
\* back as zeros.  Seeded bug: the file is opened with O_TRUNC.
Resized_Truncates(size) == {[EmptyFile EXCEPT !.size = size]}
Resized(size) ==
  LET end ==
        IF file.doc = NoCatalog THEN {"whole"}
        ELSE IF size < DocumentSize(file.doc) THEN {"lost"}
        ELSE IF file.end # "lost" THEN {file.end}
        ELSE {"whole", "unreadable"}
             \cup {"damaged" : last \in DOMAIN file.doc.edge_labels}
  IN  [doc : {file.doc}, size : {size}, end : end]

\* pwrite of the document at offset 0.
Written(c) ==
  [doc |-> c, size |-> IF file.size < DocumentSize(c) THEN DocumentSize(c) ELSE file.size,
   end |-> "whole"]

\* linklet_catalog_from_bson(linklet_catalog_to_bson(c)): collect_array registers the
\* labels again.  Seeded bug: into the node labels, both arrays.
Reloaded_NodeLabelsOnly(c) ==
  [c EXCEPT !.node_labels = AddLabels(AddLabels(<<>>, c.node_labels), c.edge_labels),
            !.edge_labels = <<>>]
Reloaded(c) ==
  [c EXCEPT !.node_labels = AddLabels(<<>>, @), !.edge_labels = AddLabels(<<>>, @)]

\* The catalog read_metadata returns; none when it refuses the file, as it does one
\* that ends before its document.
ReadableCatalogs ==
  IF file = Missing \/ file.doc = NoCatalog \/ file.end \in {"lost", "unreadable"} THEN {}
  ELSE IF file.end = "whole" THEN {Reloaded(file.doc)}
  ELSE {Reloaded([file.doc EXCEPT !.edge_labels[Len(file.doc.edge_labels)] = Damaged])}

-----------------------------------------------------------------------------
(* Steps *)

\* write_metadata encodes the catalog before it opens the file.
BeginWrite(c, first) ==
  IF Encodable(c)
    THEN /\ pending' = first
         /\ aux_attempted' = aux_attempted \cup {c}
    ELSE UNCHANGED <<pending, aux_attempted>>

\* linklet_database_create up to write_metadata, which creates the file.  The files
\* of a creation that began and failed stay: graph_store_create refuses them.
Create(name) ==
  /\ ~up /\ file = Missing /\ aux_attempted = {}
  /\ Encodable(NewCatalog(name))
  /\ up' = TRUE
  /\ catalog' = NewCatalog(name)
  /\ BeginWrite(NewCatalog(name), "create_file")
  /\ UNCHANGED <<file, faults, aux_saved>>

CreateFile ==
  /\ pending = "create_file"
  /\ file' = EmptyFile
  /\ pending' = "resize"
  /\ UNCHANGED <<up, catalog, faults, auxVars>>

\* linklet_database_execute of a program with DDL: the catalog in memory changes
\* before anything is written.
Execute(program) ==
  /\ up /\ pending = "none" /\ aux_saved # NoCatalog
  /\ ~Refused(program)
  /\ LET c == linklet_catalog_apply_ddl(catalog, program)
     IN  /\ catalog' = c
         /\ BeginWrite(c, "resize")
  /\ UNCHANGED <<up, file, faults, aux_saved>>

Resize ==
  /\ pending = "resize"
  /\ file' \in Resized(DocumentSize(catalog))
  /\ pending' = "write"
  /\ UNCHANGED <<up, catalog, faults, auxVars>>

Write ==
  /\ pending = "write"
  /\ file' = Written(catalog)
  /\ pending' = "flush"
  /\ UNCHANGED <<up, catalog, faults, auxVars>>

Flush ==
  /\ pending = "flush"
  /\ pending' = "none"
  /\ aux_saved' = catalog
  /\ aux_attempted' = {}
  /\ UNCHANGED <<up, catalog, file, faults>>

Forget ==
  /\ up' = FALSE
  /\ catalog' = NoCatalog
  /\ pending' = "none"

\* A step of write_metadata fails: the statement returns false, and the catalog in
\* memory stays changed.  linklet_database_create gives up.
Fails ==
  /\ pending # "none" /\ faults < MAX_FAULTS
  /\ faults' = faults + 1
  /\ IF aux_saved = NoCatalog THEN Forget
     ELSE pending' = "none" /\ UNCHANGED <<up, catalog>>
  /\ UNCHANGED <<file, auxVars>>

Crash ==
  /\ up
  /\ Forget
  /\ UNCHANGED <<file, faults, auxVars>>

\* linklet_database_close writes nothing.
Close ==
  /\ up /\ pending = "none"
  /\ Forget
  /\ UNCHANGED <<file, faults, auxVars>>

Open ==
  /\ ~up
  /\ up' = TRUE
  /\ catalog' \in ReadableCatalogs
  /\ aux_saved' = catalog'
  /\ aux_attempted' = {}
  /\ UNCHANGED <<file, pending, faults>>

-----------------------------------------------------------------------------
Init ==
  /\ up = FALSE
  /\ catalog = NoCatalog
  /\ file = Missing
  /\ pending = "none"
  /\ faults = 0
  /\ aux_saved = NoCatalog
  /\ aux_attempted = {}

Next ==
  \/ \E name \in GraphNames : Create(name)
  \/ \E program \in Programs : Execute(program)
  \/ CreateFile \/ Resize \/ Write \/ Flush
  \/ Fails \/ Crash \/ Close \/ Open

Spec == Init /\ [][Next]_vars

-----------------------------------------------------------------------------
(* Properties *)

NoDuplicates(labels) == IsInjective(labels)

\* Shapes, and: neither array of a catalog ever holds a label twice, whichever
\* programs, restarts and damaged files it went through.
TypeOK ==
  /\ up \in BOOLEAN
  /\ up <=> catalog # NoCatalog
  /\ pending \in {"none", "create_file", "resize", "write", "flush"}
  /\ pending # "none" => up
  /\ faults \in 0 .. MAX_FAULTS
  /\ up => NoDuplicates(catalog.node_labels) /\ NoDuplicates(catalog.edge_labels)

\* What a DDL statement that returned true put into the catalog, with everything
\* that earlier statements left there in memory, is what any later open reads, until
\* another statement starts to write: write_metadata and read_metadata agree.  A change
\* that a failed statement left in memory is part of what the next one acknowledges.
AcknowledgedReads ==
  aux_saved # NoCatalog /\ aux_attempted = {} => ReadableCatalogs = {aux_saved}

\* A crash between the steps of write_metadata: what opens afterwards is the catalog
\* last saved or one that a statement tried to save, never a mixture; and it opens
\* unless the interrupted statement was shortening the document (a graph renamed to a
\* shorter name), which ftruncate cuts before pwrite replaces it.
CrashKeepsCatalog ==
  aux_saved # NoCatalog /\ faults = 0 =>
    /\ ReadableCatalogs \subseteq {aux_saved} \cup aux_attempted
    /\ \/ ReadableCatalogs # {}
       \/ \E c \in aux_attempted : DocumentSize(c) < DocumentSize(aux_saved)
===================================================================================
