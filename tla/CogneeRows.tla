----------------------------- MODULE CogneeRows -----------------------------
(***************************************************************************)
(* Cognee's Data rows with what hangs off them in the graph and vector     *)
(* stores, and what one call of the runtime does to one row.               *)
(***************************************************************************)
EXTENDS Reconcile

CONSTANT NoRow  \* Cognee holds no row under this data_id

(* A derivative of a document, by the inputs it was built from. *)
Fragments == [content: Contents, annotations: Annotations,
              processing: Profiles]

(* A Data row and what hangs off it in the graph and vector stores. *)
Rows == [content: Contents, label: Labels, annotations: Annotations,
         weight: Weights, complete: BOOLEAN, derived: SUBSET Fragments]

(* A record lives in NoRow's place only if NoRow is not a row itself. *)
ASSUME NoRowAssumption == NoRow \notin Rows

-----------------------------------------------------------------------------
(* What one call does to one row. *)

PurgedRow(row) == [row EXCEPT !.derived = {}, !.complete = FALSE]

(* Derivatives go first; the row that carries the status goes last. *)
TornRow(row) == [row EXCEPT !.derived = {}]

NewRow(r) ==
    [content |-> r.content, label |-> r.label, annotations |-> r.annotations,
     weight |-> r.weight, complete |-> FALSE, derived |-> {}]

(* An existing row keeps its weight and its derivatives; its status is reset
   only when its content changes. *)
UpdatedRow(row, r) ==
    [row EXCEPT !.content = r.content,
                !.label = r.label,
                !.annotations = r.annotations,
                !.complete = @ /\ row.content = r.content]

AddedRow(row, r) == IF row = NoRow THEN NewRow(r) ELSE UpdatedRow(row, r)

Fragment(r, processing) ==
    [content |-> r.content, annotations |-> r.annotations,
     processing |-> processing]

(* The row a record describes, fully processed. *)
ConvergedRow(r) ==
    [content |-> r.content, label |-> r.label, annotations |-> r.annotations,
     weight |-> r.weight, complete |-> TRUE,
     derived |-> {Fragment(r, r.processing)}]

=============================================================================
