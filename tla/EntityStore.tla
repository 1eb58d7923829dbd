----------------------------- MODULE EntityStore -----------------------------
(***************************************************************************)
(* The Store of crates/gems-engine/src/lib.rs: one writer over four files  *)
(* (the primary index, the two ordinal indexes and the extent file) and    *)
(* the secondary indexes it keeps in memory.                               *)
(*                                                                         *)
(* insert and delete write those files one after the other, with no log    *)
(* around them, so each write is a step of its own and the process may die *)
(* between any two.  The files are shared mappings: what was written       *)
(* before the process died is there when the store is opened again.  One   *)
(* BTree operation is one step (it becomes visible by publish_root).       *)
(***************************************************************************)
EXTENDS Integers, FiniteSets

CONSTANTS
    Id,             \* entity ids (Tuid)
    KeySet,         \* what a header can be indexed under: sets of keys
    Slot,           \* slots of the extent file
    Nil,
    MaxOrdinal,     \* ordinals are below this bound
    MaxCrashes      \* how often the process may die inside an operation

ASSUME StoreAssumption ==
    /\ IsFiniteSet(Id) /\ IsFiniteSet(Slot)
    /\ Nil \notin Id /\ Nil \notin Slot
    /\ MaxOrdinal \in Nat /\ MaxCrashes \in Nat

Ordinal == 0..(MaxOrdinal - 1)
Key == UNION KeySet

\* An entity header, as far as the store looks at it: its id and the keys it
\* is filed under in by_kind, by_schema_ref and entity_type_by_name.
Header == [id : Id, keys : KeySet]

ASSUME HeaderAssumption == Nil \notin Header /\ Nil \notin Ordinal

VARIABLES
    \* On disk:
    primary,        \* BTree Tuid -> SlotPointer
    ordinal_by_id,  \* BTree Tuid -> Ordinal
    id_by_ordinal,  \* BTree Ordinal -> Tuid
    used,           \* the extents' bitmaps: the slots in use
    data,           \* the entity written in each slot
    \* In memory, of the one process that holds the lock:
    next_ordinal,
    index,          \* <<key, ordinal>> of the three SecondaryIndexes
    op,             \* the operation under way and its next step
    \* History, read by no action:
    crashes,
    may,            \* what each entity may read as, by the calls made so far
    torn            \* crashes that fell between two writes that belong together

files == <<primary, ordinal_by_id, id_by_ordinal, used, data>>
memory == <<next_ordinal, index>>
vars == <<files, memory, op, crashes, may, torn>>

\* An operation: its next step, the entity it is about, the header it writes
\* or found, the slot it fills or empties, the ordinal it retires.
Op(step, id, header, ptr, ord) ==
    [step |-> step, id |-> id, header |-> header, ptr |-> ptr, ord |-> ord]

Idle == Op("idle", Nil, Nil, Nil, Nil)
Closed == Op("closed", Nil, Nil, Nil, Nil)

Stored == {id \in Id : primary[id] # Nil}

\* Store::create.
Init ==
    /\ primary = [id \in Id |-> Nil]
    /\ ordinal_by_id = [id \in Id |-> Nil]
    /\ id_by_ordinal = [o \in Ordinal |-> Nil]
    /\ used = {}
    /\ data = [s \in Slot |-> Nil]
    /\ next_ordinal = 0
    /\ index = {}
    /\ op = Idle
    /\ crashes = 0 /\ torn = {}
    /\ may = [id \in Id |-> {Nil}]
-----------------------------------------------------------------------------
index_header(idx, h, ord) == idx \cup {<<k, ord>> : k \in h.keys}

deindex_header(idx, h, ord) == idx \ {<<k, ord>> : k \in h.keys}

\* insert, step 1: data.allocate.  The size of the blob picks the block class
\* and so the extents searched; a full class grows by an extent.  An insert is
\* only started while an ordinal is left (the bound).
Insert_IgnoresBitmap(h) ==
    /\ op = Idle
    /\ next_ordinal < MaxOrdinal
    /\ \E s \in Slot :
          /\ used' = used \cup {s}
          /\ op' = Op("write", h.id, h, s, Nil)
    /\ may' = [may EXCEPT ![h.id] = @ \cup {h}]
    /\ UNCHANGED <<primary, ordinal_by_id, id_by_ordinal, data, memory,
                   crashes, torn>>

Insert(h) ==
    /\ op = Idle
    /\ next_ordinal < MaxOrdinal
    /\ \E s \in Slot \ used :
          /\ used' = used \cup {s}
          /\ op' = Op("write", h.id, h, s, Nil)
    /\ may' = [may EXCEPT ![h.id] = @ \cup {h}]
    /\ UNCHANGED <<primary, ordinal_by_id, id_by_ordinal, data, memory,
                   crashes, torn>>

\* 2: data.write.
WriteBlob_PublishesEarly ==
    /\ op.step = "write"
    /\ data' = [data EXCEPT ![op.ptr] = op.header]
    /\ primary' = [primary EXCEPT ![op.id] = op.ptr]
    /\ op' = [op EXCEPT !.step = "ordinal"]
    /\ UNCHANGED <<ordinal_by_id, id_by_ordinal, used, memory, crashes, may,
                   torn>>

WriteBlob ==
    /\ op.step = "write"
    /\ data' = [data EXCEPT ![op.ptr] = op.header]
    /\ op' = [op EXCEPT !.step = "ordinal"]
    /\ UNCHANGED <<primary, ordinal_by_id, id_by_ordinal, used, memory,
                   crashes, may, torn>>

\* 3 and 4: ordinal_for.  An id that has an ordinal keeps it.
ordinal_for ==
    /\ op.step = "ordinal"
    /\ IF ordinal_by_id[op.id] # Nil
       THEN /\ op' = [op EXCEPT !.step = "replace"]
            /\ UNCHANGED <<ordinal_by_id, next_ordinal>>
       ELSE /\ ordinal_by_id' =
                  [ordinal_by_id EXCEPT ![op.id] = next_ordinal]
            /\ next_ordinal' = next_ordinal + 1
            /\ op' = [op EXCEPT !.step = "reverse"]
    /\ UNCHANGED <<primary, id_by_ordinal, used, data, index, crashes, may,
                   torn>>

ReverseOrdinal ==
    /\ op.step = "reverse"
    /\ id_by_ordinal' =
          [id_by_ordinal EXCEPT ![ordinal_by_id[op.id]] = op.id]
    /\ op' = [op EXCEPT !.step = "replace"]
    /\ UNCHANGED <<primary, ordinal_by_id, used, data, memory, crashes, may,
                   torn>>

\* 5: the version being overwritten leaves the indexes and its slot is freed,
\* before the primary index points anywhere else.
ReplaceOld_StaysIndexed ==
    /\ op.step = "replace"
    /\ used' = used \ {primary[op.id]}
    /\ op' = [op EXCEPT !.step = "publish"]
    /\ UNCHANGED <<primary, ordinal_by_id, id_by_ordinal, data, memory,
                   crashes, may, torn>>

ReplaceOld ==
    /\ op.step = "replace"
    /\ LET old == primary[op.id]
       IN  IF old = Nil
           THEN UNCHANGED <<used, index>>
           ELSE /\ used' = used \ {old}
                /\ index' = deindex_header(index, data[old],
                                           ordinal_by_id[op.id])
    /\ op' = [op EXCEPT !.step = "publish"]
    /\ UNCHANGED <<primary, ordinal_by_id, id_by_ordinal, data, next_ordinal,
                   crashes, may, torn>>

\* 6: index_header and primary.insert.
Publish ==
    /\ op.step = "publish"
    /\ index' = index_header(index, op.header, ordinal_by_id[op.id])
    /\ primary' = [primary EXCEPT ![op.id] = op.ptr]
    /\ may' = [may EXCEPT ![op.id] = {op.header}]
    /\ op' = Idle
    /\ UNCHANGED <<ordinal_by_id, id_by_ordinal, used, data, next_ordinal,
                   crashes, torn>>
-----------------------------------------------------------------------------
\* delete, step 1: primary.delete; nothing else if the entity is not there.
Delete(id) ==
    /\ op = Idle
    /\ primary[id] # Nil
    /\ primary' = [primary EXCEPT ![id] = Nil]
    /\ op' = Op("unmap", id, data[primary[id]], primary[id], Nil)
    /\ may' = [may EXCEPT ![id] = @ \cup {Nil}]
    /\ UNCHANGED <<ordinal_by_id, id_by_ordinal, used, data, memory, crashes,
                   torn>>

\* 2: ordinal_by_id.delete.
RetireOrdinal ==
    /\ op.step = "unmap"
    /\ op' = IF ordinal_by_id[op.id] = Nil
             THEN [op EXCEPT !.step = "free"]
             ELSE [op EXCEPT !.step = "unreverse", !.ord = ordinal_by_id[op.id]]
    /\ ordinal_by_id' = [ordinal_by_id EXCEPT ![op.id] = Nil]
    /\ UNCHANGED <<primary, id_by_ordinal, used, data, memory, crashes, may,
                   torn>>

\* 3: id_by_ordinal.delete and deindex_header.
Unreverse ==
    /\ op.step = "unreverse"
    /\ id_by_ordinal' = [id_by_ordinal EXCEPT ![op.ord] = Nil]
    /\ index' = deindex_header(index, op.header, op.ord)
    /\ op' = [op EXCEPT !.step = "free"]
    /\ UNCHANGED <<primary, ordinal_by_id, used, data, next_ordinal, crashes,
                   may, torn>>

\* 4: data.free.
FreeSlot ==
    /\ op.step = "free"
    /\ used' = used \ {op.ptr}
    /\ may' = [may EXCEPT ![op.id] = {Nil}]
    /\ op' = Idle
    /\ UNCHANGED <<primary, ordinal_by_id, id_by_ordinal, data, memory,
                   crashes, torn>>
-----------------------------------------------------------------------------
\* A clean end: the Store is dropped between two calls.
Close ==
    /\ op = Idle
    /\ op' = Closed
    /\ UNCHANGED <<files, memory, crashes, may, torn>>

\* The process dies inside an operation.  Two windows matter later: an entity
\* whose slot is free while the primary index still points at it, and an
\* ordinal that belongs to an id with no entity.
Crash ==
    /\ op \notin {Idle, Closed}
    /\ crashes < MaxCrashes
    /\ crashes' = crashes + 1
    /\ op' = Closed
    /\ torn' = torn
         \cup (IF op.step = "publish" /\ primary[op.id] # Nil
               THEN {"slot"} ELSE {})
         \cup (IF \E id \in Id \ Stored : ordinal_by_id[id] # Nil
               THEN {"ordinal"} ELSE {})
    /\ UNCHANGED <<files, memory, may>>

\* open: the lock, the files, and rebuild_in_memory_indexes, which refuses a
\* store with an entity that has no ordinal.
can_open == \A id \in Stored : ordinal_by_id[id] # Nil

rebuilt_next_ordinal_SkipsOne ==
    IF Stored = {} THEN 0
    ELSE CHOOSE n \in 2..(MaxOrdinal + 1) :
            /\ \E id \in Stored : n = ordinal_by_id[id] + 2
            /\ \A id \in Stored : n - 1 > ordinal_by_id[id]

rebuilt_next_ordinal ==
    IF Stored = {} THEN 0
    ELSE CHOOSE n \in 1..MaxOrdinal :
            /\ \E id \in Stored : n = ordinal_by_id[id] + 1
            /\ \A id \in Stored : n > ordinal_by_id[id]

rebuild_in_memory_indexes ==
    /\ index' = UNION {index_header({}, data[primary[id]], ordinal_by_id[id])
                         : id \in Stored}
    /\ next_ordinal' = rebuilt_next_ordinal

Open ==
    /\ op = Closed
    /\ can_open
    /\ rebuild_in_memory_indexes
    /\ op' = Idle
    /\ UNCHANGED <<files, crashes, may, torn>>

Next ==
    \/ \E h \in Header : Insert(h)
    \/ WriteBlob \/ ordinal_for \/ ReverseOrdinal \/ ReplaceOld \/ Publish
    \/ \E id \in Id : Delete(id)
    \/ RetireOrdinal \/ Unreverse \/ FreeSlot
    \/ Close \/ Crash \/ Open

Spec == Init /\ [][Next]_vars
-----------------------------------------------------------------------------
Inserting == {"write", "ordinal", "reverse", "replace", "publish"}
Deleting == {"unmap", "unreverse", "free"}

Operation ==
    [step : {"idle", "closed"} \cup Inserting \cup Deleting,
     id : Id \cup {Nil}, header : Header \cup {Nil}, ptr : Slot \cup {Nil},
     ord : Ordinal \cup {Nil}]

\* The type invariant: the trees, the bitmap and the operation under way are
\* well formed, and next_ordinal stays within its bound over every reopen.
TypeOK ==
    /\ primary \in [Id -> Slot \cup {Nil}]
    /\ ordinal_by_id \in [Id -> Ordinal \cup {Nil}]
    /\ id_by_ordinal \in [Ordinal -> Id \cup {Nil}]
    /\ used \subseteq Slot
    /\ data \in [Slot -> Header \cup {Nil}]
    /\ next_ordinal \in 0..MaxOrdinal
    /\ index \subseteq Key \X Ordinal
    /\ op \in Operation
    /\ crashes \in 0..MaxCrashes
    /\ may \in [Id -> SUBSET (Header \cup {Nil})]
    /\ torn \subseteq {"slot", "ordinal"}

\* Store::get and Store::query_by_kind / query_by_schema_ref.
get(id) == IF primary[id] = Nil THEN Nil ELSE data[primary[id]]

query(k) == {id_by_ordinal[o] : o \in {p \in Ordinal : <<k, p>> \in index}}

Resting == op \in {Idle, Closed}

\* However an operation was cut short, rebuild_in_memory_indexes accepts the
\* files: insert gives an entity its ordinal before the primary index names
\* it, delete takes it out of the primary index before its ordinal goes.
Reopenable == op = Closed => can_open

\* Between operations an entity reads as the last insert or delete of it that
\* returned, or as one that a crash cut short: never as another entity, as a
\* version overwritten earlier, or as nothing while it is there.  A crash
\* between the free of the old slot and primary.insert voids it.
Durable == Resting => \A id \in Id : get(id) \in may[id]

\* get returns what the callers of insert and delete may expect, unless a crash
\* fell in that window.
DurableUnlessTorn == "slot" \in torn \/ Durable

\* An open store answers a query on an indexed key with exactly the entities
\* that have the key, and every ordinal it meets has a reverse mapping.
QueryExact ==
    op = Idle => \A k \in Key : query(k) = {id \in Stored : k \in get(id).keys}

\* query_by_kind and query_by_schema_ref are exact, unless a crash left an entity
\* in a free slot or an ordinal without an entity.
QueryExactUnlessTorn == torn # {} \/ QueryExact

\* ARCHITECTURE.md 1.4: the worst a crash leaves behind is a slot marked used
\* that never gets its payload; so what the primary index names is in use.
ReferencedSlotsInUse == Resting => \A id \in Stored : primary[id] \in used
=============================================================================
