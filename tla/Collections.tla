------------------------------- MODULE Collections -------------------------------
(***************************************************************************)
(* The two implementations of the storage port's Collection: a sequence of *)
(* rows with an id, in the order in which list gives them.  In memory that *)
(* is the order of creation; in PostgreSQL that of the last write, where   *)
(* writes in one millisecond are not told apart.                           *)
(***************************************************************************)
EXTENDS Integers, Sequences, SequencesExt

RowIds(rows)       == {rows[i].id : i \in DOMAIN rows}
Place(rows, id)    == CHOOSE i \in DOMAIN rows : rows[i].id = id
Get(rows, id)      == rows[Place(rows, id)]
\* The id is part of the primary key: at most one row goes.
Without(rows, id)  == IF id \in RowIds(rows) THEN RemoveAt(rows, Place(rows, id)) ELSE rows

MemoryPut(rows, row) ==
    IF row.id \in RowIds(rows)
    THEN [i \in DOMAIN rows |-> IF rows[i].id = row.id THEN row ELSE rows[i]]
    ELSE Append(rows, row)

\* put is an upsert that renews updated_at.
PostgresPut(rows, row) == Append(Without(rows, row.id), row)

\* putMany, in one transaction and so with one updated_at: a row that is there
\* already stays as it is.
PostgresPutMany(rows, more) ==
    rows \o SetToSeq({more[i] : i \in {k \in DOMAIN more : more[k].id \notin RowIds(rows)}})
===============================================================================
