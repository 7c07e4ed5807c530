---------------------------- MODULE UnitOfWork ----------------------------
(* The object-relational layer every service goes through: one session and  *)
(* one database transaction per request (app/db/session.py).  A row is read *)
(* into an object, the object is changed, and the flush sends an UPDATE of  *)
(* the attributes whose value differs from the one that was read.  No model *)
(* has a version column, so an UPDATE lands whatever happened to the row in *)
(* between, and attributes the request did not change keep the value other  *)
(* transactions gave them.                                                  *)

\* The row after a flush: `seen` is the row as it was read, `new` the object
\* as the request left it, `row` the row that the UPDATE finds.
Flush(row, seen, new) ==
    [f \in DOMAIN row |-> IF new[f] = seen[f] THEN row[f] ELSE new[f]]

=============================================================================
