---------------------------------- MODULE Store ----------------------------------
(***************************************************************************)
(* The record storage of the API behind its port (ports.ts): in memory,    *)
(* for development, or in PostgreSQL, where instances of the API that      *)
(* start seed an empty database and user-owned records are sealed under    *)
(* the name of the row they are in (record-cipher.ts).                     *)
(*                                                                         *)
(* The collections are the reference data, of which the first is counted   *)
(* to see whether the database was seeded, and one of user-owned records.  *)
(* The ledger's snapshot is in Payments.                                   *)
(***************************************************************************)
EXTENDS Requests, Collections

CONSTANTS
    Reference,  \* the reference collections in the order they are seeded
    SeedIds,    \* the ids of the rows the seed has in each
    RecordIds   \* ids of user-owned records

ASSUME StoreAssumption ==
    /\ Reference \in Seq(STRING) /\ Reference # <<>>
    /\ \A i \in DOMAIN Reference : Reference[i] # "document"
    /\ IsFiniteSet(SeedIds)

VARIABLES
    storageDriver, \* "memory" or "postgres" (createStorage)
    stored,        \* the rows of each collection
    promised,      \* what the port promises: the value of each id that was put
    serving        \* whether an instance has started

storeVars == <<storageDriver, stored, promised, serving>>

Collection == {Reference[i] : i \in DOMAIN Reference} \cup {"document"}
NoRecord   == "no record"
RowsOf(ns) == IF ns = "document" THEN RecordIds ELSE SeedIds

StoreInit ==
    /\ storageDriver \in {"memory", "postgres"}
    /\ stored = [ns \in Collection |-> <<>>]
    /\ promised = [ns \in Collection |-> [id \in RowsOf(ns) |-> NoRecord]]
    /\ serving = FALSE

\* encode: a sensitive record is sealed, and opens only under the name of its row.
Encode(ns, id, value) ==
    [id |-> id, value |-> value,
     sealed |-> IF ns = "document" /\ storageDriver = "postgres" THEN <<ns, id>> ELSE <<>>]
Decode(ns, row) == IF row.sealed \in {<<>>, <<ns, row.id>>} THEN row.value ELSE "not authentic"

SeedRows(ns) == LET ids == SetToSeq(SeedIds) IN [i \in DOMAIN ids |-> Encode(ns, ids[i], "seed")]
Seeded(ns)   == [id \in SeedIds |-> "seed"]

\* The process starts with nothing but the seed (new MemoryStorage).
StartInMemory(r) ==
    /\ storageDriver = "memory"
    /\ Single(r, "seed")
    /\ stored' = [ns \in Collection |-> IF ns = "document" THEN <<>> ELSE SeedRows(ns)]
    /\ promised' = [ns \in Collection |->
                        IF ns = "document" THEN [id \in RecordIds |-> NoRecord] ELSE Seeded(ns)]
    /\ serving' = TRUE
    /\ UNCHANGED storageDriver

\* connect, up to the count of the first collection (ensureSeed).
Connect(r) ==
    /\ storageDriver = "postgres"
    /\ Begin(r, "seed", [at |-> "count"])
    /\ UNCHANGED storeVars

CountSeed(r) ==
    /\ At(r, "count")
    /\ IF stored[Reference[1]] # <<>>
       THEN Answer(r) /\ serving' = TRUE
       ELSE Goto(r, [at |-> "put_seed", todo |-> 1]) /\ UNCHANGED serving
    /\ UNCHANGED <<storageDriver, stored, promised>>

\* One collection of the seed, in a transaction of its own.
PutSeed(r) ==
    /\ At(r, "put_seed")
    /\ LET ns == Reference[req[r].todo]
       IN  /\ stored' = [stored EXCEPT ![ns] = PostgresPutMany(@, SeedRows(ns))]
           /\ promised' = [promised EXCEPT ![ns] =
                              [id \in SeedIds |-> IF @[id] = NoRecord THEN "seed" ELSE @[id]]]
    /\ IF req[r].todo = Len(Reference) THEN Answer(r) /\ serving' = TRUE
       ELSE Goto(r, [todo |-> req[r].todo + 1]) /\ UNCHANGED serving
    /\ UNCHANGED storageDriver

\* put and remove of either driver.
PutRecord(r, ns, id, value) ==
    /\ serving
    /\ Single(r, id)
    /\ LET row == Encode(ns, id, value)
       IN  stored' = [stored EXCEPT ![ns] = IF storageDriver = "memory" THEN MemoryPut(@, row)
                                            ELSE PostgresPut(@, row)]
    /\ promised' = [promised EXCEPT ![ns][id] = value]
    /\ UNCHANGED <<storageDriver, serving>>

RemoveRecord(r, ns, id) ==
    /\ serving
    /\ Single(r, id)
    /\ stored' = [stored EXCEPT ![ns] = Without(@, id)]
    /\ promised' = [promised EXCEPT ![ns][id] = NoRecord]
    /\ UNCHANGED <<storageDriver, serving>>

\* reset, of the memory driver only: the reference data stays.
Reset(r) ==
    /\ serving /\ storageDriver = "memory"
    /\ Single(r, "document")
    /\ stored' = [stored EXCEPT !["document"] = <<>>]
    /\ promised' = [promised EXCEPT !["document"] = [id \in RecordIds |-> NoRecord]]
    /\ UNCHANGED <<storageDriver, serving>>

StoreCall(r) ==
    \/ StartInMemory(r) \/ Connect(r) \/ Reset(r)
    \/ \E ns \in Collection : \E id \in RowsOf(ns) :
           \/ \E value \in {"first", "second"} : PutRecord(r, ns, id, value)
           \/ ns = "document" /\ RemoveRecord(r, ns, id)
StoreStep(r) == CountSeed(r) \/ PutSeed(r)
StoreNext    == \E r \in Request : StoreStep(r) \/ StoreCall(r)

-------------------------------------------------------------------------------
(* Properties.                                                             *)

StoreTypeOK ==
    /\ storageDriver \in {"memory", "postgres"} /\ serving \in BOOLEAN
    /\ \A ns \in Collection : RowIds(stored[ns]) \subseteq RowsOf(ns)

\* What get answers.
Read(ns, id) == IF id \in RowIds(stored[ns]) THEN Decode(ns, Get(stored[ns], id)) ELSE NoRecord

\* Both drivers keep what the port promises (Collection): list names each record once,
\* and what was put last is read back, whatever instances were starting meanwhile; in
\* particular no start puts the seed over what was written since.  Once all instances
\* that were starting have done so, each has the whole seed, unless one died half-way.
StoreHolds ==
    /\ \A ns \in Collection :
           /\ \A i, j \in DOMAIN stored[ns] : stored[ns][i].id = stored[ns][j].id => i = j
           /\ \A id \in RowsOf(ns) : Read(ns, id) = promised[ns][id]
    /\ serving /\ "seed" \notin faulted /\ (\A r \in Request : req[r] = Idle) =>
           \A ns \in Collection \ {"document"} : RowIds(stored[ns]) = SeedIds
===============================================================================
