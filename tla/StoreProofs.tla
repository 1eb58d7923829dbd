---------------------------- MODULE StoreProofs ----------------------------
(***************************************************************************)
(* Proofs about EntityStore, for any entities, slots and bounds: whatever  *)
(* write a crash falls after, the store opens again; and every entity      *)
(* reads as one of the versions its callers may expect, and a query finds  *)
(* exactly what the files hold, unless a crash fell between the free of a  *)
(* slot and the update of the primary index.                               *)
(***************************************************************************)
EXTENDS EntityStore, TLAPS, FiniteSetTheorems, DataInduction

-----------------------------------------------------------------------------
(* The inductive invariant.                                                *)

\* The fields an operation under way has set.
OpFields ==
    /\ op.step \in Inserting =>
          op.id \in Id /\ op.header \in Header /\ op.ptr \in Slot
    /\ op.step \in Deleting => op.id \in Id /\ op.ptr \in Slot
    /\ op.step = "unreverse" => op.ord \in Ordinal
    /\ op.step = "ordinal" => next_ordinal < MaxOrdinal
    /\ op.step = "write" => next_ordinal < MaxOrdinal

\* A slot the primary index names, or is about to name, has been written.
Written ==
    /\ \A id \in Stored : data[primary[id]] \in Header
    /\ op.step \in Inserting \ {"write"} => data[op.ptr] \in Header

\* Ordinals: an entity in the primary index has one, and so has the entity an
\* insert is about to put there; an entity being deleted has left the index.
OrdinalsHeld ==
    /\ \A id \in Stored : ordinal_by_id[id] # Nil
    /\ op.step \in {"reverse", "replace", "publish"} =>
          ordinal_by_id[op.id] # Nil
    /\ op.step \in Deleting => primary[op.id] = Nil

\* Slots: no two entities share one, and the one an operation fills or is
\* about to free belongs to nobody.
SlotsOwned ==
    /\ \A a, b \in Stored : primary[a] = primary[b] => a = b
    /\ \A id \in Stored :
          primary[id] \in used \/ (op.step = "publish" /\ op.id = id)
    /\ op.step \in Inserting \cup Deleting =>
          \A id \in Stored : primary[id] # op.ptr
    /\ op.step \in Inserting => op.ptr \in used
    /\ op.step \in Inserting \ {"write"} => data[op.ptr] = op.header

ReadsExpected == \A id \in Id : get(id) \in may[id]

IInv ==
    /\ TypeOK /\ OpFields /\ Written /\ OrdinalsHeld
    /\ "slot" \in torn \/ (SlotsOwned /\ ReadsExpected)
-----------------------------------------------------------------------------
\* What rebuild_in_memory_indexes sets next_ordinal to is a number up to the
\* bound: the CHOOSE of rebuilt_next_ordinal has a witness.
LEMMA NextOrdinalType ==
    ASSUME TypeOK, can_open
    PROVE  rebuilt_next_ordinal \in 0..MaxOrdinal
  <1>0. MaxOrdinal \in Nat
    BY StoreAssumption
  <1>1. CASE Stored = {}
    BY <1>0, <1>1 DEF rebuilt_next_ordinal
  <1>2. CASE Stored # {}
    <2> DEFINE T == {n \in Nat : \A id \in Stored : n > ordinal_by_id[id]}
    <2>1. \A id \in Stored : ordinal_by_id[id] \in 0..(MaxOrdinal - 1)
      BY DEF TypeOK, can_open, Stored, Ordinal
    <2>2. MaxOrdinal \in T
      BY <1>0, <2>1
    <2>3. PICK n \in T : \A m \in T : n <= m
      BY <2>2, LeastNat
    <2>4. PICK id0 \in Stored : TRUE
      BY <1>2
    <2>5. n \in 1..MaxOrdinal
      BY <1>0, <2>1, <2>2, <2>3, <2>4
    <2>6. \E id \in Stored : n = ordinal_by_id[id] + 1
      <3>1. n - 1 \in Nat /\ ~(n - 1 >= n)
        BY <2>5
      <3>2. n - 1 \notin T
        BY <2>3, <2>5, <3>1
      <3>3. PICK id \in Stored : ~(n - 1 > ordinal_by_id[id])
        BY <3>1, <3>2
      <3>4. n > ordinal_by_id[id]
        BY <2>3
      <3>5. n = ordinal_by_id[id] + 1
        BY <1>0, <2>1, <2>5, <3>3, <3>4
      <3> QED BY <3>5
    <2>7. \E k \in 1..MaxOrdinal :
             /\ \E id \in Stored : k = ordinal_by_id[id] + 1
             /\ \A id \in Stored : k > ordinal_by_id[id]
      BY <2>3, <2>5, <2>6
    <2>8. rebuilt_next_ordinal \in 1..MaxOrdinal
      BY <1>2, <2>7 DEF rebuilt_next_ordinal
    <2> QED BY <1>0, <2>8
  <1> QED BY <1>1, <1>2

\* A store that Store::create has just made satisfies the invariant.
LEMMA InitInv == Init => IInv
  <1> SUFFICES ASSUME Init PROVE IInv
    OBVIOUS
  <1>1. TypeOK
    BY StoreAssumption DEF Init, TypeOK, Idle, Op, Operation
  <1>2. Stored = {}
    BY DEF Init, Stored
  <1>3. op.step = "idle"
    BY DEF Init, Idle, Op
  <1>4. OpFields /\ Written /\ OrdinalsHeld /\ SlotsOwned
    BY <1>2, <1>3 DEF OpFields, Written, OrdinalsHeld, SlotsOwned, Inserting,
                      Deleting
  <1>5. ReadsExpected
    BY DEF Init, ReadsExpected, get
  <1> QED BY <1>1, <1>4, <1>5 DEF IInv

\* data.allocate: the slot it returns was free, so nobody owns it.
LEMMA InsertStep ==
    ASSUME IInv, NEW h \in Header, Insert(h)
    PROVE  IInv'
  <1>0. TypeOK /\ OpFields /\ Written /\ OrdinalsHeld
    BY DEF IInv
  <1>1. TypeOK'
    BY <1>0 DEF Insert, TypeOK, OpFields, Op, Idle, Operation, Inserting,
       Deleting, memory, Written, Header, Stored
  <1>2. OpFields'
    BY <1>0 DEF Insert, TypeOK, OpFields, Op, Idle, Operation, Inserting,
       Deleting, memory, Header
  <1>3. Written'
    BY <1>0 DEF Insert, TypeOK, OpFields, Op, Idle, Operation, Inserting,
       Deleting, memory, Written, Stored
  <1>4. OrdinalsHeld'
    BY <1>0 DEF Insert, TypeOK, OpFields, Op, Idle, Operation, Inserting,
       Deleting, memory, OrdinalsHeld, Stored
  <1>5. ASSUME "slot" \notin torn' PROVE SlotsOwned'
    BY <1>0, <1>5 DEF Insert, IInv, TypeOK, OpFields, Op, Idle, Operation,
       Inserting, Deleting, memory, SlotsOwned, OrdinalsHeld, Stored
  <1>6. ASSUME "slot" \notin torn' PROVE ReadsExpected'
    BY <1>0, <1>6 DEF Insert, IInv, TypeOK, OpFields, Op, Idle, Operation,
       Inserting, Deleting, memory, SlotsOwned, ReadsExpected, get,
       OrdinalsHeld, Stored
  <1> QED BY <1>1, <1>2, <1>3, <1>4, <1>5, <1>6 DEF IInv

\* data.write: it changes a slot that no entity owns.
LEMMA WriteBlobStep ==
    ASSUME IInv, WriteBlob
    PROVE  IInv'
  <1>0. TypeOK /\ OpFields /\ Written /\ OrdinalsHeld
    BY DEF IInv
  <1>1. TypeOK'
    BY <1>0 DEF WriteBlob, TypeOK, OpFields, Operation, Inserting, Deleting,
       memory, Written, Stored
  <1>2. OpFields'
    BY <1>0 DEF WriteBlob, TypeOK, OpFields, Operation, Inserting, Deleting,
       memory
  <1>3. Written'
    BY <1>0 DEF WriteBlob, TypeOK, OpFields, Operation, Inserting, Deleting,
       memory, Written, Stored
  <1>4. OrdinalsHeld'
    BY <1>0 DEF WriteBlob, TypeOK, OpFields, Operation, Inserting, Deleting,
       memory, OrdinalsHeld, Stored
  <1>5. ASSUME "slot" \notin torn' PROVE SlotsOwned'
    BY <1>0, <1>5 DEF WriteBlob, IInv, TypeOK, OpFields, Operation,
       Inserting, Deleting, memory, SlotsOwned, OrdinalsHeld, Stored
  <1>6. ASSUME "slot" \notin torn' PROVE ReadsExpected'
    BY <1>0, <1>6 DEF WriteBlob, IInv, TypeOK, OpFields, Operation,
       Inserting, Deleting, memory, SlotsOwned, ReadsExpected, get,
       OrdinalsHeld, Stored
  <1> QED BY <1>1, <1>2, <1>3, <1>4, <1>5, <1>6 DEF IInv

\* ordinal_for: the entity has an ordinal before the primary index names it.
LEMMA OrdinalForStep ==
    ASSUME IInv, ordinal_for
    PROVE  IInv'
  <1>0. TypeOK /\ OpFields /\ Written /\ OrdinalsHeld
    BY DEF IInv
  <1>1. TypeOK'
    <2>1. CASE ordinal_by_id[op.id] # Nil
      BY <1>0, <2>1 DEF ordinal_for, TypeOK, OpFields, Operation, Inserting
    <2>2. CASE ordinal_by_id[op.id] = Nil
      <3>1. next_ordinal \in Ordinal /\ next_ordinal + 1 \in 0..MaxOrdinal
        BY <1>0, StoreAssumption DEF ordinal_for, TypeOK, OpFields, Ordinal
      <3>2. ordinal_by_id' \in [Id -> Ordinal \cup {Nil}]
            /\ next_ordinal' \in 0..MaxOrdinal
        BY <1>0, <2>2, <3>1 DEF ordinal_for, TypeOK, OpFields, Inserting
      <3>3. op' \in Operation
        BY <1>0, <2>2 DEF ordinal_for, TypeOK, Operation, Inserting
      <3> QED BY <1>0, <3>2, <3>3 DEF ordinal_for, TypeOK
    <2> QED BY <2>1, <2>2
  <1>2. OpFields'
    BY <1>0 DEF ordinal_for, TypeOK, OpFields, Operation, Inserting, Deleting
  <1>3. Written'
    BY <1>0 DEF ordinal_for, TypeOK, OpFields, Operation, Inserting,
       Deleting, Written, Stored
  <1>4. OrdinalsHeld'
    BY <1>0, StoreAssumption, HeaderAssumption DEF ordinal_for, TypeOK,
       OpFields, Operation, Inserting, Deleting, OrdinalsHeld, Ordinal,
       Stored
  <1>5. ASSUME "slot" \notin torn' PROVE SlotsOwned'
    BY <1>0, <1>5 DEF ordinal_for, IInv, TypeOK, OpFields, Operation,
       Inserting, Deleting, SlotsOwned, OrdinalsHeld, Stored
  <1>6. ASSUME "slot" \notin torn' PROVE ReadsExpected'
    BY <1>0, <1>6 DEF ordinal_for, IInv, TypeOK, OpFields, Operation,
       Inserting, Deleting, SlotsOwned, ReadsExpected, get, OrdinalsHeld,
       Stored
  <1> QED BY <1>1, <1>2, <1>3, <1>4, <1>5, <1>6 DEF IInv

\* The reverse mapping of ordinal_for: no read goes through it.
LEMMA ReverseOrdinalStep ==
    ASSUME IInv, ReverseOrdinal
    PROVE  IInv'
  <1>0. TypeOK /\ OpFields /\ Written /\ OrdinalsHeld
    BY DEF IInv
  <1>1. TypeOK'
    BY <1>0 DEF ReverseOrdinal, TypeOK, OpFields, Operation, Inserting,
       Deleting, memory, Written, Stored
  <1>2. OpFields'
    BY <1>0 DEF ReverseOrdinal, TypeOK, OpFields, Operation, Inserting,
       Deleting, memory
  <1>3. Written'
    BY <1>0 DEF ReverseOrdinal, TypeOK, OpFields, Operation, Inserting,
       Deleting, memory, Written, Stored
  <1>4. OrdinalsHeld'
    BY <1>0 DEF ReverseOrdinal, TypeOK, OpFields, Operation, Inserting,
       Deleting, memory, OrdinalsHeld, Stored
  <1>5. ASSUME "slot" \notin torn' PROVE SlotsOwned'
    BY <1>0, <1>5 DEF ReverseOrdinal, IInv, TypeOK, OpFields, Operation,
       Inserting, Deleting, memory, SlotsOwned, OrdinalsHeld, Stored
  <1>6. ASSUME "slot" \notin torn' PROVE ReadsExpected'
    BY <1>0, <1>6 DEF ReverseOrdinal, IInv, TypeOK, OpFields, Operation,
       Inserting, Deleting, memory, SlotsOwned, ReadsExpected, get,
       OrdinalsHeld, Stored
  <1> QED BY <1>1, <1>2, <1>3, <1>4, <1>5, <1>6 DEF IInv

\* The free of the old slot: until the next step the entity is the one whose
\* slot may be free.
LEMMA ReplaceOldStep ==
    ASSUME IInv, ReplaceOld
    PROVE  IInv'
  <1>0. TypeOK /\ OpFields /\ Written /\ OrdinalsHeld
    BY DEF IInv
  <1>1. TypeOK'
    <2>1. index' \subseteq index /\ used' \subseteq used
      BY DEF ReplaceOld, deindex_header
    <2> QED
      BY <1>0, <2>1 DEF ReplaceOld, TypeOK, Operation, Inserting
  <1>2. OpFields'
    BY <1>0 DEF ReplaceOld, TypeOK, OpFields, Operation, Inserting, Deleting
  <1>3. Written'
    BY <1>0 DEF ReplaceOld, TypeOK, OpFields, Operation, Inserting, Deleting,
       Written, Stored
  <1>4. OrdinalsHeld'
    BY <1>0 DEF ReplaceOld, TypeOK, OpFields, Operation, Inserting, Deleting,
       OrdinalsHeld, Stored
  <1>5. ASSUME "slot" \notin torn' PROVE SlotsOwned'
    BY <1>0, <1>5 DEF ReplaceOld, IInv, TypeOK, OpFields, Operation,
       Inserting, Deleting, SlotsOwned, OrdinalsHeld, Stored
  <1>6. ASSUME "slot" \notin torn' PROVE ReadsExpected'
    BY <1>0, <1>6 DEF ReplaceOld, IInv, TypeOK, OpFields, Operation,
       Inserting, Deleting, SlotsOwned, ReadsExpected, get, OrdinalsHeld,
       Stored
  <1> QED BY <1>1, <1>2, <1>3, <1>4, <1>5, <1>6 DEF IInv

\* primary.insert: the new slot, written and owned by nobody else, becomes the
\* entity's; the version that reads from now on is the one just inserted.
LEMMA PublishStep ==
    ASSUME IInv, Publish
    PROVE  IInv'
  <1>0. TypeOK /\ OpFields /\ Written /\ OrdinalsHeld
    BY DEF IInv
  <1>1. TypeOK'
    <2>1. index' \subseteq Key \X Ordinal
      <3>1. op.header.keys \in KeySet /\ ordinal_by_id[op.id] \in Ordinal
        BY <1>0 DEF Publish, TypeOK, OpFields, OrdinalsHeld, Inserting, Header
      <3>2. op.header.keys \subseteq Key
        BY <3>1 DEF Key
      <3> QED BY <1>0, <3>1, <3>2 DEF Publish, TypeOK, index_header
    <2> QED
      BY <1>0, <2>1
         DEF Publish, TypeOK, OpFields, Inserting, Idle, Op, Operation
  <1>2. OpFields'
    BY <1>0 DEF Publish, TypeOK, OpFields, Op, Idle, Operation, Inserting,
       Deleting
  <1>3. Written'
    BY <1>0 DEF Publish, TypeOK, OpFields, Op, Idle, Operation, Inserting,
       Deleting, Written, Stored
  <1>4. OrdinalsHeld'
    BY <1>0 DEF Publish, TypeOK, OpFields, Op, Idle, Operation, Inserting,
       Deleting, OrdinalsHeld, Stored
  <1>5. ASSUME "slot" \notin torn' PROVE SlotsOwned'
    BY <1>0, <1>5 DEF Publish, IInv, TypeOK, OpFields, Op, Idle, Operation,
       Inserting, Deleting, SlotsOwned, OrdinalsHeld, Stored
  <1>6. ASSUME "slot" \notin torn' PROVE ReadsExpected'
    <2>1. SlotsOwned /\ ReadsExpected
      BY <1>6 DEF IInv, Publish
    <2>2. /\ op.id \in Id /\ op.ptr # Nil /\ data[op.ptr] = op.header
          /\ primary' = [primary EXCEPT ![op.id] = op.ptr]
          /\ may' = [may EXCEPT ![op.id] = {op.header}] /\ data' = data
      BY <1>0, <2>1, StoreAssumption
         DEF Publish, OpFields, SlotsOwned, Inserting
    <2>3. ASSUME NEW id \in Id PROVE get(id)' \in may'[id]
      <3>1. CASE id = op.id
        BY <1>0, <2>2, <3>1 DEF TypeOK, get
      <3>2. CASE id # op.id
        BY <1>0, <2>1, <2>2, <3>2 DEF TypeOK, get, ReadsExpected
      <3> QED BY <3>1, <3>2
    <2> QED BY <2>3 DEF ReadsExpected
  <1> QED BY <1>1, <1>2, <1>3, <1>4, <1>5, <1>6 DEF IInv

\* primary.delete: the entity reads as absent, which its callers may now see.
LEMMA DeleteStep ==
    ASSUME IInv, NEW id \in Id, Delete(id)
    PROVE  IInv'
  <1>0. TypeOK /\ OpFields /\ Written /\ OrdinalsHeld
    BY DEF IInv
  <1>1. TypeOK'
    BY <1>0 DEF Delete, TypeOK, OpFields, Op, Idle, Operation, Inserting,
       Deleting, memory, Written, Stored
  <1>2. OpFields'
    BY <1>0 DEF Delete, TypeOK, OpFields, Op, Idle, Operation, Inserting,
       Deleting, memory
  <1>3. Written'
    BY <1>0 DEF Delete, TypeOK, OpFields, Op, Idle, Operation, Inserting,
       Deleting, memory, Written, Stored
  <1>4. OrdinalsHeld'
    BY <1>0 DEF Delete, TypeOK, OpFields, Op, Idle, Operation, Inserting,
       Deleting, memory, OrdinalsHeld, Stored
  <1>5. ASSUME "slot" \notin torn' PROVE SlotsOwned'
    BY <1>0, <1>5 DEF Delete, IInv, TypeOK, OpFields, Op, Idle, Operation,
       Inserting, Deleting, memory, SlotsOwned, OrdinalsHeld, Stored
  <1>6. ASSUME "slot" \notin torn' PROVE ReadsExpected'
    BY <1>0, <1>6 DEF Delete, IInv, TypeOK, OpFields, Op, Idle, Operation,
       Inserting, Deleting, memory, SlotsOwned, ReadsExpected, get,
       OrdinalsHeld, Stored
  <1> QED BY <1>1, <1>2, <1>3, <1>4, <1>5, <1>6 DEF IInv

\* ordinal_by_id.delete: the entity it belonged to is no longer stored.
LEMMA RetireOrdinalStep ==
    ASSUME IInv, RetireOrdinal
    PROVE  IInv'
  <1>0. TypeOK /\ OpFields /\ Written /\ OrdinalsHeld
    BY DEF IInv
  <1>1. TypeOK'
    BY <1>0 DEF RetireOrdinal, TypeOK, OpFields, Operation, Inserting,
       Deleting, memory, Written, Stored
  <1>2. OpFields'
    BY <1>0 DEF RetireOrdinal, TypeOK, OpFields, Operation, Inserting,
       Deleting, memory
  <1>3. Written'
    BY <1>0 DEF RetireOrdinal, TypeOK, OpFields, Operation, Inserting,
       Deleting, memory, Written, Stored
  <1>4. OrdinalsHeld'
    BY <1>0 DEF RetireOrdinal, TypeOK, OpFields, Operation, Inserting,
       Deleting, memory, OrdinalsHeld, Stored
  <1>5. ASSUME "slot" \notin torn' PROVE SlotsOwned'
    BY <1>0, <1>5 DEF RetireOrdinal, IInv, TypeOK, OpFields, Operation,
       Inserting, Deleting, memory, SlotsOwned, OrdinalsHeld, Stored
  <1>6. ASSUME "slot" \notin torn' PROVE ReadsExpected'
    BY <1>0, <1>6 DEF RetireOrdinal, IInv, TypeOK, OpFields, Operation,
       Inserting, Deleting, memory, SlotsOwned, ReadsExpected, get,
       OrdinalsHeld, Stored
  <1> QED BY <1>1, <1>2, <1>3, <1>4, <1>5, <1>6 DEF IInv

\* id_by_ordinal.delete and deindex_header: no read goes through them.
LEMMA UnreverseStep ==
    ASSUME IInv, Unreverse
    PROVE  IInv'
  <1>0. TypeOK /\ OpFields /\ Written /\ OrdinalsHeld
    BY DEF IInv
  <1>1. TypeOK'
    <2>1. index' \subseteq index
      BY DEF Unreverse, deindex_header
    <2> QED
      BY <1>0, <2>1 DEF Unreverse, TypeOK, OpFields, Operation, Deleting
  <1>2. OpFields'
    BY <1>0 DEF Unreverse, TypeOK, OpFields, Operation, Inserting, Deleting
  <1>3. Written'
    BY <1>0 DEF Unreverse, TypeOK, OpFields, Operation, Inserting, Deleting,
       Written, Stored
  <1>4. OrdinalsHeld'
    BY <1>0 DEF Unreverse, TypeOK, OpFields, Operation, Inserting, Deleting,
       OrdinalsHeld, Stored
  <1>5. ASSUME "slot" \notin torn' PROVE SlotsOwned'
    BY <1>0, <1>5 DEF Unreverse, IInv, TypeOK, OpFields, Operation,
       Inserting, Deleting, SlotsOwned, OrdinalsHeld, Stored
  <1>6. ASSUME "slot" \notin torn' PROVE ReadsExpected'
    BY <1>0, <1>6 DEF Unreverse, IInv, TypeOK, OpFields, Operation,
       Inserting, Deleting, SlotsOwned, ReadsExpected, get, OrdinalsHeld,
       Stored
  <1> QED BY <1>1, <1>2, <1>3, <1>4, <1>5, <1>6 DEF IInv

\* data.free in delete: the slot belongs to no entity.
LEMMA FreeSlotStep ==
    ASSUME IInv, FreeSlot
    PROVE  IInv'
  <1>0. TypeOK /\ OpFields /\ Written /\ OrdinalsHeld
    BY DEF IInv
  <1>1. TypeOK'
    BY <1>0 DEF FreeSlot, TypeOK, OpFields, Op, Idle, Operation, Inserting,
       Deleting, memory, Written, Stored
  <1>2. OpFields'
    BY <1>0 DEF FreeSlot, TypeOK, OpFields, Op, Idle, Operation, Inserting,
       Deleting, memory
  <1>3. Written'
    BY <1>0 DEF FreeSlot, TypeOK, OpFields, Op, Idle, Operation, Inserting,
       Deleting, memory, Written, Stored
  <1>4. OrdinalsHeld'
    BY <1>0 DEF FreeSlot, TypeOK, OpFields, Op, Idle, Operation, Inserting,
       Deleting, memory, OrdinalsHeld, Stored
  <1>5. ASSUME "slot" \notin torn' PROVE SlotsOwned'
    BY <1>0, <1>5 DEF FreeSlot, IInv, TypeOK, OpFields, Op, Idle, Operation,
       Inserting, Deleting, memory, SlotsOwned, OrdinalsHeld, Stored
  <1>6. ASSUME "slot" \notin torn' PROVE ReadsExpected'
    BY <1>0, <1>6 DEF FreeSlot, IInv, TypeOK, OpFields, Op, Idle, Operation,
       Inserting, Deleting, memory, SlotsOwned, ReadsExpected, get,
       OrdinalsHeld, Stored
  <1> QED BY <1>1, <1>2, <1>3, <1>4, <1>5, <1>6 DEF IInv

\* A clean end changes nothing on disk.
LEMMA CloseStep ==
    ASSUME IInv, Close
    PROVE  IInv'
  <1>0. TypeOK /\ OpFields /\ Written /\ OrdinalsHeld
    BY DEF IInv
  <1>1. TypeOK'
    BY <1>0 DEF Close, TypeOK, OpFields, Op, Idle, Closed, Operation,
       Inserting, Deleting, memory, files, Written, Stored
  <1>2. OpFields'
    BY <1>0 DEF Close, TypeOK, OpFields, Op, Idle, Closed, Operation,
       Inserting, Deleting, memory, files
  <1>3. Written'
    BY <1>0 DEF Close, TypeOK, OpFields, Op, Idle, Closed, Operation,
       Inserting, Deleting, memory, files, Written, Stored
  <1>4. OrdinalsHeld'
    BY <1>0 DEF Close, TypeOK, OpFields, Op, Idle, Closed, Operation,
       Inserting, Deleting, memory, files, OrdinalsHeld, Stored
  <1>5. ASSUME "slot" \notin torn' PROVE SlotsOwned'
    BY <1>0, <1>5 DEF Close, IInv, TypeOK, OpFields, Op, Idle, Closed,
       Operation, Inserting, Deleting, memory, files, SlotsOwned,
       OrdinalsHeld, Stored
  <1>6. ASSUME "slot" \notin torn' PROVE ReadsExpected'
    BY <1>0, <1>6 DEF Close, IInv, TypeOK, OpFields, Op, Idle, Closed,
       Operation, Inserting, Deleting, memory, files, SlotsOwned,
       ReadsExpected, get, OrdinalsHeld, Stored
  <1> QED BY <1>1, <1>2, <1>3, <1>4, <1>5, <1>6 DEF IInv

\* A crash changes nothing on disk; the one that leaves an entity in a free
\* slot is the one that sets "slot" in torn.
LEMMA CrashStep ==
    ASSUME IInv, Crash
    PROVE  IInv'
  <1>0. TypeOK /\ OpFields /\ Written /\ OrdinalsHeld
    BY DEF IInv
  <1>1. TypeOK'
    BY <1>0, StoreAssumption DEF Crash, TypeOK, OpFields, Op, Idle, Closed,
       Operation, Inserting, Deleting, memory, files, Written, Stored
  <1>2. OpFields'
    BY <1>0 DEF Crash, TypeOK, OpFields, Op, Idle, Closed, Operation,
       Inserting, Deleting, memory, files
  <1>3. Written'
    BY <1>0 DEF Crash, TypeOK, OpFields, Op, Idle, Closed, Operation,
       Inserting, Deleting, memory, files, Written, Stored
  <1>4. OrdinalsHeld'
    BY <1>0 DEF Crash, TypeOK, OpFields, Op, Idle, Closed, Operation,
       Inserting, Deleting, memory, files, OrdinalsHeld, Stored
  <1>5. ASSUME "slot" \notin torn' PROVE SlotsOwned'
    BY <1>0, <1>5 DEF Crash, IInv, TypeOK, OpFields, Op, Idle, Closed,
       Operation, Inserting, Deleting, memory, files, SlotsOwned,
       OrdinalsHeld, Stored
  <1>6. ASSUME "slot" \notin torn' PROVE ReadsExpected'
    BY <1>0, <1>6 DEF Crash, IInv, TypeOK, OpFields, Op, Idle, Closed,
       Operation, Inserting, Deleting, memory, files, SlotsOwned,
       ReadsExpected, get, OrdinalsHeld, Stored
  <1> QED BY <1>1, <1>2, <1>3, <1>4, <1>5, <1>6 DEF IInv

\* open reads the files and rebuilds what is in memory.
LEMMA OpenStep ==
    ASSUME IInv, Open
    PROVE  IInv'
  <1>0. TypeOK /\ OpFields /\ Written /\ OrdinalsHeld
    BY DEF IInv
  <1>1. TypeOK'
    <2>1. next_ordinal' \in 0..MaxOrdinal
      BY <1>0, NextOrdinalType DEF Open, rebuild_in_memory_indexes
    <2>2. ASSUME NEW id \in Stored
          PROVE  index_header({}, data[primary[id]], ordinal_by_id[id])
                   \subseteq Key \X Ordinal
      <3>1. /\ data[primary[id]].keys \in KeySet
            /\ ordinal_by_id[id] \in Ordinal
        BY <1>0 DEF Written, OrdinalsHeld, TypeOK, Stored, Header
      <3>2. data[primary[id]].keys \subseteq Key
        BY <3>1 DEF Key
      <3> QED BY <3>1, <3>2 DEF index_header
    <2>3. index' \subseteq Key \X Ordinal
      BY <2>2 DEF Open, rebuild_in_memory_indexes
    <2> QED
      BY <1>0, <2>1, <2>3 DEF Open, files, TypeOK, Idle, Op, Operation
  <1>2. OpFields'
    BY <1>0 DEF Open, TypeOK, OpFields, Op, Idle, Closed, Operation,
       Inserting, Deleting, files
  <1>3. Written'
    BY <1>0 DEF Open, TypeOK, OpFields, Op, Idle, Closed, Operation,
       Inserting, Deleting, files, Written, Stored
  <1>4. OrdinalsHeld'
    BY <1>0 DEF Open, TypeOK, OpFields, Op, Idle, Closed, Operation,
       Inserting, Deleting, files, OrdinalsHeld, Stored
  <1>5. ASSUME "slot" \notin torn' PROVE SlotsOwned'
    BY <1>0, <1>5 DEF Open, IInv, TypeOK, OpFields, Op, Idle, Closed,
       Operation, Inserting, Deleting, files, SlotsOwned, OrdinalsHeld,
       Stored
  <1>6. ASSUME "slot" \notin torn' PROVE ReadsExpected'
    BY <1>0, <1>6 DEF Open, IInv, TypeOK, OpFields, Op, Idle, Closed,
       Operation, Inserting, Deleting, files, SlotsOwned, ReadsExpected, get,
       OrdinalsHeld, Stored
  <1> QED BY <1>1, <1>2, <1>3, <1>4, <1>5, <1>6 DEF IInv
-----------------------------------------------------------------------------
\* Every step of insert, delete, open and the ends of the process preserves
\* the invariant.
LEMMA NextInv == IInv /\ [Next]_vars => IInv'
  <1> SUFFICES ASSUME IInv, [Next]_vars PROVE IInv'
    OBVIOUS
  <1>1. CASE UNCHANGED vars
    BY <1>1 DEF vars, files, memory, IInv, TypeOK, OpFields, Written,
       OrdinalsHeld, SlotsOwned, ReadsExpected, get, Stored
  <1>2. CASE \E h \in Header : Insert(h)
    BY <1>2, InsertStep
  <1>3. CASE WriteBlob \/ ordinal_for \/ ReverseOrdinal \/ ReplaceOld \/ Publish
    BY <1>3, WriteBlobStep, OrdinalForStep, ReverseOrdinalStep,
       ReplaceOldStep, PublishStep
  <1>4. CASE \E id \in Id : Delete(id)
    BY <1>4, DeleteStep
  <1>5. CASE RetireOrdinal \/ Unreverse \/ FreeSlot
    BY <1>5, RetireOrdinalStep, UnreverseStep, FreeSlotStep
  <1>6. CASE Close \/ Crash \/ Open
    BY <1>6, CloseStep, CrashStep, OpenStep
  <1> QED
    BY <1>1, <1>2, <1>3, <1>4, <1>5, <1>6 DEF Next

\* The invariant holds whatever calls are made and wherever the process dies.
THEOREM StoreInvariance == Spec => []IInv
  BY InitInv, NextInv, PTL DEF Spec

\* Every variable keeps its type; next_ordinal stays within the bound even
\* when it is rebuilt by open.
THEOREM StoreTypeCorrect == Spec => []TypeOK
  <1>1. IInv => TypeOK
    BY DEF IInv
  <1> QED
    BY <1>1, StoreInvariance, PTL

\* However insert or delete was cut short, rebuild_in_memory_indexes finds an
\* ordinal for every entity of the primary index and open succeeds.
THEOREM AlwaysReopenable == Spec => []Reopenable
  <1>1. IInv => Reopenable
    BY DEF IInv, OrdinalsHeld, Reopenable, can_open
  <1> QED
    BY <1>1, StoreInvariance, PTL

\* Between operations, an entity reads as the last completed insert or delete
\* of it or as one a crash cut short, unless a crash fell between the free of
\* an old slot and primary.insert.
THEOREM ReadsAsExpected == Spec => []DurableUnlessTorn
  <1>1. IInv => DurableUnlessTorn
    BY DEF IInv, ReadsExpected, DurableUnlessTorn, Durable
  <1> QED
    BY <1>1, StoreInvariance, PTL
-----------------------------------------------------------------------------
(* Queries.  While no crash fell between two writes that belong together,  *)
(* the two ordinal indexes are inverse to each other on the entities       *)
(* stored, and the index in memory says exactly what the files say.        *)

\* Only a stored entity has an ordinal, or the one an operation is about.
OrdinalsBelong ==
    \A id \in Id : ordinal_by_id[id] # Nil =>
        \/ id \in Stored
        \/ id = op.id /\ op.step \in {"reverse", "replace", "publish", "unmap"}

\* No two entities share an ordinal, and the next one is above them all.
OrdinalsApart ==
    /\ \A a, b \in Id : ordinal_by_id[a] # Nil /\ ordinal_by_id[a] = ordinal_by_id[b] => a = b
    /\ op.step # "closed" =>
          \A id \in Id : ordinal_by_id[id] # Nil => ordinal_by_id[id] < next_ordinal
    /\ op.step = "unreverse" => \A id \in Id : ordinal_by_id[id] # op.ord

\* The reverse mapping of an ordinal, except while it is being written.
Reversed ==
    \A id \in Id : ordinal_by_id[id] # Nil =>
        \/ id_by_ordinal[ordinal_by_id[id]] = id
        \/ op.step = "reverse" /\ op.id = id

\* What the operation under way found when it began.
OpFound ==
    /\ op.step = "reverse" => primary[op.id] = Nil
    /\ op.step = "unmap" => ordinal_by_id[op.id] # Nil
    /\ op.step \in {"unmap", "unreverse"} => op.header \in Header

\* Key k is filed under ordinal p: by a stored entity (not the version that
\* an insert has already taken out), or by the entity being deleted.
Filed(k, p) ==
    \/ \E id \in Stored :
          /\ ~(op.step = "publish" /\ id = op.id)
          /\ ordinal_by_id[id] = p /\ k \in data[primary[id]].keys
    \/ op.step = "unmap" /\ p = ordinal_by_id[op.id] /\ k \in op.header.keys
    \/ op.step = "unreverse" /\ p = op.ord /\ k \in op.header.keys

Indexed ==
    op.step # "closed" =>
        \A k \in Key, p \in Ordinal : <<k, p>> \in index <=> Filed(k, p)

QInv ==
    /\ OrdinalsBelong /\ OrdinalsApart /\ Reversed /\ OpFound /\ Indexed

QInvUnlessTorn == torn # {} \/ QInv

\* data.allocate touches no ordinal and no index.
LEMMA QueryInsertStep ==
    ASSUME IInv, torn = {}, torn' = {}, QInv, NEW h \in Header, Insert(h)
    PROVE  QInv'
  <1>0. TypeOK /\ OpFields /\ Written /\ OrdinalsHeld /\ SlotsOwned /\ Nil \notin Ordinal
    BY HeaderAssumption DEF IInv
  <1>1. OrdinalsBelong /\ OrdinalsApart /\ Reversed /\ OpFound /\ Indexed
    BY DEF QInv
  <1>2. OrdinalsBelong'
    BY <1>0, <1>1 DEF OrdinalsBelong, OrdinalsHeld, Insert, Op, Idle, Closed, Inserting,
                      Deleting, memory, files, TypeOK, OpFields, Stored
  <1>3. OrdinalsApart'
    BY <1>0, <1>1 DEF OrdinalsApart, OrdinalsHeld, Ordinal, Insert, Op, Idle, Closed,
                      Inserting, Deleting, memory, files, TypeOK, OpFields, Stored
  <1>4. Reversed'
    BY <1>0, <1>1 DEF Reversed, OpFound, OrdinalsHeld, OrdinalsApart, Insert, Op, Idle, Closed,
                      Inserting, Deleting, memory, files, TypeOK, OpFields, Stored
  <1>5. OpFound'
    BY <1>0, <1>1 DEF OpFound, OrdinalsHeld, Written, Insert, Op, Idle, Closed, Inserting,
                      Deleting, memory, files, TypeOK, OpFields, Stored
  <1>6. Indexed'
    <2> SUFFICES ASSUME NEW k \in Key, NEW p \in Ordinal
                 PROVE  <<k, p>> \in index' <=> Filed(k, p)'
      BY DEF Indexed
    <2>1. op.step = "idle" /\ op'.step = "write"
      BY <1>0 DEF Insert, Op, Idle, TypeOK, Operation
    <2>2. /\ Stored' = Stored /\ ordinal_by_id' = ordinal_by_id /\ index' = index
          /\ primary' = primary /\ \A id \in Stored : data'[primary[id]] = data[primary[id]]
      BY <1>0, <2>1 DEF Insert, memory, Stored, SlotsOwned, TypeOK, Inserting, OpFields
    <2>3. <<k, p>> \in index <=> Filed(k, p)
      BY <1>1, <2>1 DEF Indexed
    <2> QED BY <2>1, <2>2, <2>3 DEF Filed
  <1> QED BY <1>2, <1>3, <1>4, <1>5, <1>6 DEF QInv

\* data.write fills a slot that no entity owns.
LEMMA QueryWriteBlobStep ==
    ASSUME IInv, torn = {}, torn' = {}, QInv, WriteBlob
    PROVE  QInv'
  <1>0. TypeOK /\ OpFields /\ Written /\ OrdinalsHeld /\ SlotsOwned /\ Nil \notin Ordinal
    BY HeaderAssumption DEF IInv
  <1>1. OrdinalsBelong /\ OrdinalsApart /\ Reversed /\ OpFound /\ Indexed
    BY DEF QInv
  <1>2. OrdinalsBelong'
    BY <1>0, <1>1 DEF OrdinalsBelong, OrdinalsHeld, WriteBlob, Op, Idle, Closed, Inserting,
                      Deleting, memory, files, TypeOK, OpFields, Stored
  <1>3. OrdinalsApart'
    BY <1>0, <1>1 DEF OrdinalsApart, OrdinalsHeld, Ordinal, WriteBlob, Op, Idle, Closed,
                      Inserting, Deleting, memory, files, TypeOK, OpFields, Stored
  <1>4. Reversed'
    BY <1>0, <1>1 DEF Reversed, OpFound, OrdinalsHeld, OrdinalsApart, WriteBlob, Op, Idle,
                      Closed, Inserting, Deleting, memory, files, TypeOK, OpFields, Stored
  <1>5. OpFound'
    BY <1>0, <1>1 DEF OpFound, OrdinalsHeld, Written, WriteBlob, Op, Idle, Closed, Inserting,
                      Deleting, memory, files, TypeOK, OpFields, Stored
  <1>6. Indexed'
    <2> SUFFICES ASSUME NEW k \in Key, NEW p \in Ordinal
                 PROVE  <<k, p>> \in index' <=> Filed(k, p)'
      BY DEF Indexed
    <2>1. op.step = "write" /\ op'.step = "ordinal"
      BY <1>0 DEF WriteBlob, Op, Idle, TypeOK, Operation
    <2>2. /\ Stored' = Stored /\ ordinal_by_id' = ordinal_by_id /\ index' = index
          /\ primary' = primary /\ \A id \in Stored : data'[primary[id]] = data[primary[id]]
      BY <1>0, <2>1 DEF WriteBlob, memory, Stored, SlotsOwned, TypeOK, Inserting, OpFields
    <2>3. <<k, p>> \in index <=> Filed(k, p)
      BY <1>1, <2>1 DEF Indexed
    <2> QED BY <2>1, <2>2, <2>3 DEF Filed
  <1> QED BY <1>2, <1>3, <1>4, <1>5, <1>6 DEF QInv

\* ordinal_for gives an id without one the next ordinal, above all others.
LEMMA QueryOrdinalForStep ==
    ASSUME IInv, torn = {}, torn' = {}, QInv, ordinal_for
    PROVE  QInv'
  <1>0. TypeOK /\ OpFields /\ Written /\ OrdinalsHeld /\ SlotsOwned /\ Nil \notin Ordinal
    BY HeaderAssumption DEF IInv
  <1>1. OrdinalsBelong /\ OrdinalsApart /\ Reversed /\ OpFound /\ Indexed
    BY DEF QInv
  <1>2. /\ op.step = "ordinal" /\ op.id \in Id /\ next_ordinal \in Ordinal
        /\ UNCHANGED <<primary, id_by_ordinal, data, index>> /\ Stored' = Stored
    BY <1>0, StoreAssumption DEF ordinal_for, OpFields, Inserting, Ordinal, TypeOK, Stored
  <1>3. CASE ordinal_by_id[op.id] # Nil
    <2>1. /\ op'.step = "replace" /\ op'.id = op.id
          /\ UNCHANGED <<ordinal_by_id, next_ordinal>>
      BY <1>0, <1>3 DEF ordinal_for, TypeOK, Operation
    <2>2. OrdinalsBelong' /\ Reversed' /\ OpFound'
      BY <1>1, <1>2, <2>1 DEF OrdinalsBelong, Reversed, OpFound
    <2>3. OrdinalsApart'
      BY <1>1, <1>2, <2>1 DEF OrdinalsApart
    <2>4. Indexed'
      <3> SUFFICES ASSUME NEW k \in Key, NEW p \in Ordinal
                   PROVE  <<k, p>> \in index' <=> Filed(k, p)'
        BY DEF Indexed
      <3>1. <<k, p>> \in index <=> Filed(k, p)
        BY <1>1, <1>2 DEF Indexed
      <3> QED BY <1>2, <2>1, <3>1 DEF Filed
    <2> QED BY <2>2, <2>3, <2>4 DEF QInv
  <1>4. CASE ordinal_by_id[op.id] = Nil
    <2>1. /\ op'.step = "reverse" /\ op'.id = op.id /\ next_ordinal' = next_ordinal + 1
          /\ ordinal_by_id' = [ordinal_by_id EXCEPT ![op.id] = next_ordinal]
      BY <1>0, <1>4 DEF ordinal_for, TypeOK, Operation
    <2>2. op.id \notin Stored
      BY <1>0, <1>4 DEF OrdinalsHeld
    <2>3. \A id \in Id : ordinal_by_id'[id] = IF id = op.id THEN next_ordinal
                                              ELSE ordinal_by_id[id]
      BY <1>0, <2>1 DEF TypeOK
    <2>4. OrdinalsBelong' /\ Reversed' /\ OpFound'
      BY <1>1, <1>2, <2>1, <2>2, <2>3 DEF OrdinalsBelong, Reversed, OpFound, Stored
    <2>5. \A id \in Id : ordinal_by_id[id] # Nil => ordinal_by_id[id] \in Ordinal
                            /\ ordinal_by_id[id] < next_ordinal
      BY <1>0, <1>1, <1>2 DEF OrdinalsApart, TypeOK
    <2>6. OrdinalsApart'
      <3>1. ASSUME NEW a \in Id, NEW b \in Id, ordinal_by_id'[a] # Nil,
                   ordinal_by_id'[a] = ordinal_by_id'[b]
            PROVE  a = b
        BY <1>1, <1>2, <2>3, <2>5, <3>1 DEF OrdinalsApart, Ordinal
      <3>2. ASSUME NEW a \in Id, ordinal_by_id'[a] # Nil
            PROVE  ordinal_by_id'[a] < next_ordinal'
        BY <1>2, <2>1, <2>3, <2>5, <3>2 DEF Ordinal
      <3> QED BY <2>1, <3>1, <3>2 DEF OrdinalsApart
    <2>7. Indexed'
      <3> SUFFICES ASSUME NEW k \in Key, NEW p \in Ordinal
                   PROVE  <<k, p>> \in index' <=> Filed(k, p)'
        BY DEF Indexed
      <3>1. <<k, p>> \in index <=> Filed(k, p)
        BY <1>1, <1>2 DEF Indexed
      <3>2. \A id \in Stored : ordinal_by_id'[id] = ordinal_by_id[id]
        BY <2>2, <2>3 DEF Stored
      <3> QED BY <1>2, <2>1, <3>1, <3>2 DEF Filed
    <2> QED BY <2>4, <2>6, <2>7 DEF QInv
  <1> QED BY <1>3, <1>4

\* The reverse mapping of the new ordinal is written.
LEMMA QueryReverseOrdinalStep ==
    ASSUME IInv, torn = {}, torn' = {}, QInv, ReverseOrdinal
    PROVE  QInv'
  <1>0. TypeOK /\ OpFields /\ Written /\ OrdinalsHeld /\ SlotsOwned /\ Nil \notin Ordinal
    BY HeaderAssumption DEF IInv
  <1>1. OrdinalsBelong /\ OrdinalsApart /\ Reversed /\ OpFound /\ Indexed
    BY DEF QInv
  <1>2. OrdinalsBelong'
    BY <1>0, <1>1 DEF OrdinalsBelong, OrdinalsHeld, ReverseOrdinal, Op, Idle, Closed,
                      Inserting, Deleting, memory, files, TypeOK, OpFields, Stored
  <1>3. OrdinalsApart'
    BY <1>0, <1>1 DEF OrdinalsApart, OrdinalsHeld, Ordinal, ReverseOrdinal, Op, Idle, Closed,
                      Inserting, Deleting, memory, files, TypeOK, OpFields, Stored
  <1>4. Reversed'
    BY <1>0, <1>1 DEF Reversed, OpFound, OrdinalsHeld, OrdinalsApart, ReverseOrdinal, Op, Idle,
                      Closed, Inserting, Deleting, memory, files, TypeOK, OpFields, Stored
  <1>5. OpFound'
    BY <1>0, <1>1 DEF OpFound, OrdinalsHeld, Written, ReverseOrdinal, Op, Idle, Closed,
                      Inserting, Deleting, memory, files, TypeOK, OpFields, Stored
  <1>6. Indexed'
    <2> SUFFICES ASSUME NEW k \in Key, NEW p \in Ordinal
                 PROVE  <<k, p>> \in index' <=> Filed(k, p)'
      BY DEF Indexed
    <2>1. op.step = "reverse" /\ op'.step = "replace"
      BY <1>0 DEF ReverseOrdinal, Op, Idle, TypeOK, Operation
    <2>2. /\ Stored' = Stored /\ ordinal_by_id' = ordinal_by_id /\ index' = index
          /\ primary' = primary /\ \A id \in Stored : data'[primary[id]] = data[primary[id]]
      BY <1>0, <2>1 DEF ReverseOrdinal, memory, Stored, SlotsOwned, TypeOK, Inserting, OpFields
    <2>3. <<k, p>> \in index <=> Filed(k, p)
      BY <1>1, <2>1 DEF Indexed
    <2> QED BY <2>1, <2>2, <2>3 DEF Filed
  <1> QED BY <1>2, <1>3, <1>4, <1>5, <1>6 DEF QInv

\* The version being overwritten leaves the index, and no other does.
LEMMA QueryReplaceOldStep ==
    ASSUME IInv, torn = {}, torn' = {}, QInv, ReplaceOld
    PROVE  QInv'
  <1>0. TypeOK /\ OpFields /\ Written /\ OrdinalsHeld /\ SlotsOwned /\ Nil \notin Ordinal
    BY HeaderAssumption DEF IInv
  <1>1. OrdinalsBelong /\ OrdinalsApart /\ Reversed /\ OpFound /\ Indexed
    BY DEF QInv
  <1>2. OrdinalsBelong'
    BY <1>0, <1>1 DEF OrdinalsBelong, OrdinalsHeld, ReplaceOld, Op, Idle, Closed, Inserting,
                      Deleting, memory, files, TypeOK, OpFields, Stored
  <1>3. OrdinalsApart'
    BY <1>0, <1>1 DEF OrdinalsApart, OrdinalsHeld, Ordinal, ReplaceOld, Op, Idle, Closed,
                      Inserting, Deleting, memory, files, TypeOK, OpFields, Stored
  <1>4. Reversed'
    BY <1>0, <1>1 DEF Reversed, OpFound, OrdinalsHeld, OrdinalsApart, ReplaceOld, Op, Idle,
                      Closed, Inserting, Deleting, memory, files, TypeOK, OpFields, Stored
  <1>5. OpFound'
    BY <1>0, <1>1 DEF OpFound, OrdinalsHeld, Written, ReplaceOld, Op, Idle, Closed, Inserting,
                      Deleting, memory, files, TypeOK, OpFields, Stored
  <1>6. Indexed'
    <2> SUFFICES ASSUME NEW k \in Key, NEW p \in Ordinal
                 PROVE  <<k, p>> \in index' <=> Filed(k, p)'
      BY DEF Indexed
    <2>1. op.step = "replace" /\ op'.step = "publish" /\ op'.id = op.id
      BY <1>0 DEF ReplaceOld, TypeOK, Operation
    <2>2. /\ Stored' = Stored /\ ordinal_by_id' = ordinal_by_id
          /\ primary' = primary /\ data' = data
      BY DEF ReplaceOld, Stored
    <2>3. <<k, p>> \in index <=> Filed(k, p)
      BY <1>1, <2>1 DEF Indexed
    <2>4. op.id \in Id /\ ordinal_by_id[op.id] # Nil
      BY <1>0, <2>1 DEF OpFields, OrdinalsHeld, Inserting
    <2>5. CASE op.id \notin Stored
      <3>1. index' = index
        BY <2>4, <2>5 DEF ReplaceOld, Stored
      <3> QED BY <2>1, <2>2, <2>3, <2>5, <3>1 DEF Filed
    <2>6. CASE op.id \in Stored
      <3>1. index' = index \ {<<x, ordinal_by_id[op.id]>> : x \in data[primary[op.id]].keys}
        BY <2>6 DEF ReplaceOld, Stored, deindex_header
      <3>2. \A id \in Stored : id # op.id => ordinal_by_id[id] # ordinal_by_id[op.id]
        BY <1>1, <2>4 DEF OrdinalsApart, Stored
      <3>3. <<k, p>> \in index'
              <=> /\ <<k, p>> \in index
                  /\ ~(p = ordinal_by_id[op.id] /\ k \in data[primary[op.id]].keys)
        BY <3>1
      <3> QED BY <2>1, <2>2, <2>3, <2>6, <3>2, <3>3 DEF Filed
    <2> QED BY <2>5, <2>6
  <1> QED BY <1>2, <1>3, <1>4, <1>5, <1>6 DEF QInv

\* The new version enters the index and the primary index.
LEMMA QueryPublishStep ==
    ASSUME IInv, torn = {}, torn' = {}, QInv, Publish
    PROVE  QInv'
  <1>0. TypeOK /\ OpFields /\ Written /\ OrdinalsHeld /\ SlotsOwned /\ Nil \notin Ordinal
    BY HeaderAssumption DEF IInv
  <1>1. OrdinalsBelong /\ OrdinalsApart /\ Reversed /\ OpFound /\ Indexed
    BY DEF QInv
  <1>2. OrdinalsBelong'
    BY <1>0, <1>1, StoreAssumption DEF OrdinalsBelong, OrdinalsHeld, Publish, Op, Idle, Closed,
                                       Inserting, Deleting, memory, files, TypeOK, OpFields,
                                       Stored
  <1>3. OrdinalsApart'
    BY <1>0, <1>1 DEF OrdinalsApart, OrdinalsHeld, Ordinal, Publish, Op, Idle, Closed,
                      Inserting, Deleting, memory, files, TypeOK, OpFields, Stored
  <1>4. Reversed'
    BY <1>0, <1>1 DEF Reversed, OpFound, OrdinalsHeld, OrdinalsApart, Publish, Op, Idle,
                      Closed, Inserting, Deleting, memory, files, TypeOK, OpFields, Stored
  <1>5. OpFound'
    BY <1>0, <1>1 DEF OpFound, OrdinalsHeld, Written, Publish, Op, Idle, Closed, Inserting,
                      Deleting, memory, files, TypeOK, OpFields, Stored
  <1>6. Indexed'
    <2> SUFFICES ASSUME NEW k \in Key, NEW p \in Ordinal
                 PROVE  <<k, p>> \in index' <=> Filed(k, p)'
      BY DEF Indexed
    <2>1. op.step = "publish" /\ op'.step = "idle"
      BY <1>0 DEF Publish, Idle, Op
    <2>2. /\ op.id \in Id /\ op.ptr \in Slot /\ ordinal_by_id[op.id] # Nil
          /\ data[op.ptr] = op.header
      BY <1>0, <2>1 DEF OpFields, OrdinalsHeld, SlotsOwned, Inserting
    <2>3. /\ Stored' = Stored \cup {op.id} /\ ordinal_by_id' = ordinal_by_id
          /\ data' = data /\ primary'[op.id] = op.ptr
          /\ \A id \in Stored : id # op.id => primary'[id] = primary[id]
      BY <1>0, <2>2, StoreAssumption DEF Publish, Stored, TypeOK
    <2>4. <<k, p>> \in index <=> Filed(k, p)
      BY <1>1, <2>1 DEF Indexed
    <2>5. <<k, p>> \in index'
            <=> <<k, p>> \in index \/ (p = ordinal_by_id[op.id] /\ k \in op.header.keys)
      BY DEF Publish, index_header
    <2> QED BY <2>1, <2>2, <2>3, <2>4, <2>5 DEF Filed
  <1> QED BY <1>2, <1>3, <1>4, <1>5, <1>6 DEF QInv

\* primary.delete: the entity is indexed still, and was stored.
LEMMA QueryDeleteStep ==
    ASSUME IInv, torn = {}, torn' = {}, QInv, NEW id0 \in Id, Delete(id0)
    PROVE  QInv'
  <1>0. TypeOK /\ OpFields /\ Written /\ OrdinalsHeld /\ SlotsOwned /\ Nil \notin Ordinal
    BY HeaderAssumption DEF IInv
  <1>1. OrdinalsBelong /\ OrdinalsApart /\ Reversed /\ OpFound /\ Indexed
    BY DEF QInv
  <1>2. OrdinalsBelong'
    BY <1>0, <1>1 DEF OrdinalsBelong, OrdinalsHeld, Delete, Op, Idle, Closed, Inserting,
                      Deleting, memory, files, TypeOK, OpFields, Stored
  <1>3. OrdinalsApart'
    BY <1>0, <1>1 DEF OrdinalsApart, OrdinalsHeld, Ordinal, Delete, Op, Idle, Closed,
                      Inserting, Deleting, memory, files, TypeOK, OpFields, Stored
  <1>4. Reversed'
    BY <1>0, <1>1 DEF Reversed, OpFound, OrdinalsHeld, OrdinalsApart, Delete, Op, Idle, Closed,
                      Inserting, Deleting, memory, files, TypeOK, OpFields, Stored
  <1>5. OpFound'
    BY <1>0, <1>1 DEF OpFound, OrdinalsHeld, Written, Delete, Op, Idle, Closed, Inserting,
                      Deleting, memory, files, TypeOK, OpFields, Stored
  <1>6. Indexed'
    <2> SUFFICES ASSUME NEW k \in Key, NEW p \in Ordinal
                 PROVE  <<k, p>> \in index' <=> Filed(k, p)'
      BY DEF Indexed
    <2>1. /\ op.step = "idle" /\ op'.step = "unmap" /\ op'.id = id0
          /\ op'.header = data[primary[id0]]
      BY <1>0 DEF Delete, Idle, Op
    <2>2. /\ id0 \in Stored /\ Stored' = Stored \ {id0} /\ ordinal_by_id' = ordinal_by_id
          /\ data' = data /\ index' = index
          /\ \A id \in Stored : id # id0 => primary'[id] = primary[id]
      BY <1>0 DEF Delete, Stored, TypeOK, memory
    <2>3. <<k, p>> \in index <=> Filed(k, p)
      BY <1>1, <2>1 DEF Indexed
    <2> QED BY <2>1, <2>2, <2>3 DEF Filed
  <1> QED BY <1>2, <1>3, <1>4, <1>5, <1>6 DEF QInv

\* ordinal_by_id.delete.
LEMMA QueryRetireOrdinalStep ==
    ASSUME IInv, torn = {}, torn' = {}, QInv, RetireOrdinal
    PROVE  QInv'
  <1>0. TypeOK /\ OpFields /\ Written /\ OrdinalsHeld /\ SlotsOwned /\ Nil \notin Ordinal
    BY HeaderAssumption DEF IInv
  <1>1. OrdinalsBelong /\ OrdinalsApart /\ Reversed /\ OpFound /\ Indexed
    BY DEF QInv
  <1>2. OrdinalsBelong'
    BY <1>0, <1>1 DEF OrdinalsBelong, OrdinalsHeld, RetireOrdinal, Op, Idle, Closed, Inserting,
                      Deleting, memory, files, TypeOK, OpFields, Stored
  <1>3. OrdinalsApart'
    BY <1>0, <1>1 DEF OrdinalsApart, OrdinalsHeld, Ordinal, RetireOrdinal, Op, Idle, Closed,
                      Inserting, Deleting, memory, files, TypeOK, OpFields, Stored
  <1>4. Reversed'
    BY <1>0, <1>1 DEF Reversed, OpFound, OrdinalsHeld, OrdinalsApart, RetireOrdinal, Op, Idle,
                      Closed, Inserting, Deleting, memory, files, TypeOK, OpFields, Stored
  <1>5. OpFound'
    BY <1>0, <1>1 DEF OpFound, OrdinalsHeld, Written, RetireOrdinal, Op, Idle, Closed,
                      Inserting, Deleting, memory, files, TypeOK, OpFields, Stored
  <1>6. Indexed'
    <2> SUFFICES ASSUME NEW k \in Key, NEW p \in Ordinal
                 PROVE  <<k, p>> \in index' <=> Filed(k, p)'
      BY DEF Indexed
    <2>1. op.step = "unmap" /\ op.id \in Id /\ ordinal_by_id[op.id] # Nil
          /\ op.id \notin Stored
      BY <1>0, <1>1 DEF RetireOrdinal, OpFields, OpFound, OrdinalsHeld, Stored, Deleting
    <2>2. /\ op'.step = "unreverse" /\ op'.ord = ordinal_by_id[op.id]
          /\ op'.header = op.header
      BY <1>0, <2>1 DEF RetireOrdinal, TypeOK, Operation
    <2>3. /\ Stored' = Stored /\ data' = data /\ index' = index /\ primary' = primary
          /\ \A id \in Stored : ordinal_by_id'[id] = ordinal_by_id[id]
      BY <1>0, <2>1 DEF RetireOrdinal, Stored, TypeOK, memory
    <2>4. <<k, p>> \in index <=> Filed(k, p)
      BY <1>1, <2>1 DEF Indexed
    <2> QED BY <2>1, <2>2, <2>3, <2>4 DEF Filed
  <1> QED BY <1>2, <1>3, <1>4, <1>5, <1>6 DEF QInv

\* id_by_ordinal.delete and deindex_header.
LEMMA QueryUnreverseStep ==
    ASSUME IInv, torn = {}, torn' = {}, QInv, Unreverse
    PROVE  QInv'
  <1>0. TypeOK /\ OpFields /\ Written /\ OrdinalsHeld /\ SlotsOwned /\ Nil \notin Ordinal
    BY HeaderAssumption DEF IInv
  <1>1. OrdinalsBelong /\ OrdinalsApart /\ Reversed /\ OpFound /\ Indexed
    BY DEF QInv
  <1>2. OrdinalsBelong'
    BY <1>0, <1>1 DEF OrdinalsBelong, OrdinalsHeld, Unreverse, Op, Idle, Closed, Inserting,
                      Deleting, memory, files, TypeOK, OpFields, Stored
  <1>3. OrdinalsApart'
    BY <1>0, <1>1 DEF OrdinalsApart, OrdinalsHeld, Ordinal, Unreverse, Op, Idle, Closed,
                      Inserting, Deleting, memory, files, TypeOK, OpFields, Stored
  <1>4. Reversed'
    BY <1>0, <1>1 DEF Reversed, OpFound, OrdinalsHeld, OrdinalsApart, Unreverse, Op, Idle,
                      Closed, Inserting, Deleting, memory, files, TypeOK, OpFields, Stored
  <1>5. OpFound'
    BY <1>0, <1>1 DEF OpFound, OrdinalsHeld, Written, Unreverse, Op, Idle, Closed, Inserting,
                      Deleting, memory, files, TypeOK, OpFields, Stored
  <1>6. Indexed'
    <2> SUFFICES ASSUME NEW k \in Key, NEW p \in Ordinal
                 PROVE  <<k, p>> \in index' <=> Filed(k, p)'
      BY DEF Indexed
    <2>1. op.step = "unreverse" /\ op'.step = "free"
      BY <1>0 DEF Unreverse, TypeOK, Operation
    <2>2. Stored' = Stored /\ data' = data /\ primary' = primary
          /\ ordinal_by_id' = ordinal_by_id
      BY DEF Unreverse, Stored
    <2>3. <<k, p>> \in index <=> Filed(k, p)
      BY <1>1, <2>1 DEF Indexed
    <2>4. <<k, p>> \in index'
            <=> <<k, p>> \in index /\ ~(p = op.ord /\ k \in op.header.keys)
      BY DEF Unreverse, deindex_header
    <2>5. \A id \in Stored : ordinal_by_id[id] # op.ord
      BY <1>1, <2>1 DEF OrdinalsApart, Stored
    <2> QED BY <2>1, <2>2, <2>3, <2>4, <2>5 DEF Filed
  <1> QED BY <1>2, <1>3, <1>4, <1>5, <1>6 DEF QInv

\* data.free touches no ordinal and no index.
LEMMA QueryFreeSlotStep ==
    ASSUME IInv, torn = {}, torn' = {}, QInv, FreeSlot
    PROVE  QInv'
  <1>0. TypeOK /\ OpFields /\ Written /\ OrdinalsHeld /\ SlotsOwned /\ Nil \notin Ordinal
    BY HeaderAssumption DEF IInv
  <1>1. OrdinalsBelong /\ OrdinalsApart /\ Reversed /\ OpFound /\ Indexed
    BY DEF QInv
  <1>2. OrdinalsBelong'
    BY <1>0, <1>1 DEF OrdinalsBelong, OrdinalsHeld, FreeSlot, Op, Idle, Closed, Inserting,
                      Deleting, memory, files, TypeOK, OpFields, Stored
  <1>3. OrdinalsApart'
    BY <1>0, <1>1 DEF OrdinalsApart, OrdinalsHeld, Ordinal, FreeSlot, Op, Idle, Closed,
                      Inserting, Deleting, memory, files, TypeOK, OpFields, Stored
  <1>4. Reversed'
    BY <1>0, <1>1 DEF Reversed, OpFound, OrdinalsHeld, OrdinalsApart, FreeSlot, Op, Idle,
                      Closed, Inserting, Deleting, memory, files, TypeOK, OpFields, Stored
  <1>5. OpFound'
    BY <1>0, <1>1 DEF OpFound, OrdinalsHeld, Written, FreeSlot, Op, Idle, Closed, Inserting,
                      Deleting, memory, files, TypeOK, OpFields, Stored
  <1>6. Indexed'
    <2> SUFFICES ASSUME NEW k \in Key, NEW p \in Ordinal
                 PROVE  <<k, p>> \in index' <=> Filed(k, p)'
      BY DEF Indexed
    <2>1. op.step = "free" /\ op'.step = "idle"
      BY <1>0 DEF FreeSlot, Op, Idle, TypeOK, Operation
    <2>2. /\ Stored' = Stored /\ ordinal_by_id' = ordinal_by_id /\ index' = index
          /\ primary' = primary /\ \A id \in Stored : data'[primary[id]] = data[primary[id]]
      BY <1>0, <2>1 DEF FreeSlot, memory, Stored, SlotsOwned, TypeOK, Inserting, OpFields
    <2>3. <<k, p>> \in index <=> Filed(k, p)
      BY <1>1, <2>1 DEF Indexed
    <2> QED BY <2>1, <2>2, <2>3 DEF Filed
  <1> QED BY <1>2, <1>3, <1>4, <1>5, <1>6 DEF QInv

\* A closed store has no index.
LEMMA QueryCloseStep ==
    ASSUME IInv, torn = {}, torn' = {}, QInv, Close
    PROVE  QInv'
  <1>0. TypeOK /\ OpFields /\ Written /\ OrdinalsHeld /\ SlotsOwned /\ Nil \notin Ordinal
    BY HeaderAssumption DEF IInv
  <1>1. OrdinalsBelong /\ OrdinalsApart /\ Reversed /\ OpFound /\ Indexed
    BY DEF QInv
  <1>2. OrdinalsBelong'
    BY <1>0, <1>1 DEF OrdinalsBelong, OrdinalsHeld, Close, Op, Idle, Closed, Inserting,
                      Deleting, memory, files, TypeOK, OpFields, Stored
  <1>3. OrdinalsApart'
    BY <1>0, <1>1 DEF OrdinalsApart, OrdinalsHeld, Ordinal, Close, Op, Idle, Closed, Inserting,
                      Deleting, memory, files, TypeOK, OpFields, Stored
  <1>4. Reversed'
    BY <1>0, <1>1 DEF Reversed, OpFound, OrdinalsHeld, OrdinalsApart, Close, Op, Idle, Closed,
                      Inserting, Deleting, memory, files, TypeOK, OpFields, Stored
  <1>5. OpFound'
    BY <1>0, <1>1 DEF OpFound, OrdinalsHeld, Written, Close, Op, Idle, Closed, Inserting,
                      Deleting, memory, files, TypeOK, OpFields, Stored
  <1>6. Indexed'
    BY <1>0, <1>1 DEF Indexed, Filed, OrdinalsApart, SlotsOwned, OpFound, index_header,
                      deindex_header, Close, Op, Idle, Closed, Inserting, Deleting, memory,
                      files, TypeOK, OpFields, Stored
  <1> QED BY <1>2, <1>3, <1>4, <1>5, <1>6 DEF QInv

\* A crash that tears nothing leaves ordinals with stored entities only.
LEMMA QueryCrashStep ==
    ASSUME IInv, torn = {}, torn' = {}, QInv, Crash
    PROVE  QInv'
  <1>0. TypeOK /\ OpFields /\ Written /\ OrdinalsHeld /\ SlotsOwned /\ Nil \notin Ordinal
    BY HeaderAssumption DEF IInv
  <1>1. OrdinalsBelong /\ OrdinalsApart /\ Reversed /\ OpFound /\ Indexed
    BY DEF QInv
  <1>2. OrdinalsBelong'
    BY <1>0, <1>1 DEF OrdinalsBelong, OrdinalsHeld, Crash, Op, Idle, Closed, Inserting,
                      Deleting, memory, files, TypeOK, OpFields, Stored
  <1>3. OrdinalsApart'
    BY <1>0, <1>1 DEF OrdinalsApart, OrdinalsHeld, Ordinal, Crash, Op, Idle, Closed, Inserting,
                      Deleting, memory, files, TypeOK, OpFields, Stored
  <1>4. Reversed'
    BY <1>0, <1>1 DEF Reversed, OpFound, OrdinalsHeld, OrdinalsApart, Crash, Op, Idle, Closed,
                      Inserting, Deleting, memory, files, TypeOK, OpFields, Stored
  <1>5. OpFound'
    BY <1>0, <1>1 DEF OpFound, OrdinalsHeld, Written, Crash, Op, Idle, Closed, Inserting,
                      Deleting, memory, files, TypeOK, OpFields, Stored
  <1>6. Indexed'
    BY <1>0, <1>1 DEF Indexed, Filed, OrdinalsApart, SlotsOwned, OpFound, index_header,
                      deindex_header, Crash, Op, Idle, Closed, Inserting, Deleting, memory,
                      files, TypeOK, OpFields, Stored
  <1> QED BY <1>2, <1>3, <1>4, <1>5, <1>6 DEF QInv

\* rebuild_in_memory_indexes gives a next_ordinal above every ordinal of a
\* stored entity.
LEMMA RebuiltIsAbove ==
    ASSUME TypeOK, can_open, NEW id \in Stored
    PROVE  ordinal_by_id[id] < rebuilt_next_ordinal
  <1>0. MaxOrdinal \in Nat
    BY StoreAssumption
  <1>1. \A x \in Stored : ordinal_by_id[x] \in 0..(MaxOrdinal - 1)
    BY DEF TypeOK, can_open, Stored, Ordinal
  <1> DEFINE U == {ordinal_by_id[x] + 1 : x \in Stored}
  <1>2. U \subseteq 0..MaxOrdinal /\ U # {}
    BY <1>0, <1>1
  <1>3. Max(U) \in U /\ \A y \in U : Max(U) >= y
    BY <1>0, <1>2, MaxIsGreatest
  <1>4. Max(U) \in 1..MaxOrdinal
    BY <1>0, <1>1, <1>3
  <1>5. \A x \in Stored : Max(U) > ordinal_by_id[x]
    <2> DEFINE m == Max(U)
    <2>1. m \in Int /\ \A x \in Stored : m >= ordinal_by_id[x] + 1
      BY <1>3, <1>4
    <2> HIDE DEF m
    <2>2. \A x \in Stored : m > ordinal_by_id[x]
      BY <1>1, <2>1
    <2> QED BY <2>2 DEF m
  <1>6. \E n \in 1..MaxOrdinal :
           /\ \E x \in Stored : n = ordinal_by_id[x] + 1
           /\ \A x \in Stored : n > ordinal_by_id[x]
    BY <1>3, <1>4, <1>5
  <1>7. /\ rebuilt_next_ordinal \in 1..MaxOrdinal
        /\ \A x \in Stored : rebuilt_next_ordinal > ordinal_by_id[x]
    BY <1>6 DEF rebuilt_next_ordinal
  <1> QED BY <1>0, <1>1, <1>7

\* open builds the index from the files, so it says what they say.
LEMMA QueryOpenStep ==
    ASSUME IInv, torn = {}, torn' = {}, QInv, Open
    PROVE  QInv'
  <1>0. TypeOK /\ Written /\ OrdinalsHeld /\ Nil \notin Ordinal
    BY HeaderAssumption DEF IInv
  <1>1. OrdinalsBelong /\ OrdinalsApart /\ Reversed /\ OpFound
    BY DEF QInv
  <1>2. /\ op.step = "closed" /\ op'.step = "idle" /\ Stored' = Stored
        /\ UNCHANGED <<primary, ordinal_by_id, id_by_ordinal, data>>
        /\ next_ordinal' = rebuilt_next_ordinal
        /\ index' = UNION {index_header({}, data[primary[id]], ordinal_by_id[id])
                             : id \in Stored}
    BY DEF Open, Closed, Idle, Op, files, Stored, rebuild_in_memory_indexes
  <1>3. OrdinalsBelong' /\ Reversed' /\ OpFound'
    BY <1>1, <1>2 DEF OrdinalsBelong, Reversed, OpFound
  <1>4. OrdinalsApart'
    <2>1. \A id \in Id : ordinal_by_id[id] # Nil => ordinal_by_id[id] < rebuilt_next_ordinal
      BY <1>0, <1>1, <1>2, RebuiltIsAbove DEF Open, OrdinalsBelong
    <2> QED BY <1>1, <1>2, <2>1 DEF OrdinalsApart
  <1>5. Indexed'
    <2> SUFFICES ASSUME NEW k \in Key, NEW p \in Ordinal
                 PROVE  <<k, p>> \in index' <=> Filed(k, p)'
      BY DEF Indexed
    <2>1. <<k, p>> \in index'
            <=> \E id \in Stored : p = ordinal_by_id[id] /\ k \in data[primary[id]].keys
      BY <1>2 DEF index_header
    <2> QED BY <1>2, <2>1 DEF Filed
  <1> QED BY <1>3, <1>4, <1>5 DEF QInv

LEMMA QueryInit == Init => QInv
  <1> SUFFICES ASSUME Init PROVE QInv
    OBVIOUS
  <1>1. Stored = {} /\ op.step = "idle" /\ \A id \in Id : ordinal_by_id[id] = Nil
    BY DEF Init, Stored, Idle, Op
  <1>2. OrdinalsBelong /\ OrdinalsApart /\ Reversed /\ OpFound
    BY <1>1 DEF OrdinalsBelong, OrdinalsApart, Reversed, OpFound
  <1>3. Indexed
    BY <1>1 DEF Init, Indexed, Filed
  <1> QED BY <1>2, <1>3 DEF QInv

LEMMA QueryNext == IInv /\ QInvUnlessTorn /\ [Next]_vars => QInvUnlessTorn'
  <1> SUFFICES ASSUME IInv, QInvUnlessTorn, [Next]_vars, torn' = {} PROVE QInv'
    BY DEF QInvUnlessTorn
  <1>0. torn = {}
    BY DEF Next, vars, Insert, WriteBlob, ordinal_for, ReverseOrdinal, ReplaceOld, Publish,
           Delete, RetireOrdinal, Unreverse, FreeSlot, Close, Crash, Open
  <1>1. QInv
    BY <1>0 DEF QInvUnlessTorn
  <1>2. CASE UNCHANGED vars
    <2>1. OrdinalsBelong' /\ OrdinalsApart' /\ Reversed' /\ OpFound'
      BY <1>1, <1>2 DEF QInv, OrdinalsBelong, OrdinalsApart, Reversed, OpFound, Stored,
                        vars, files, memory
    <2>2. UNCHANGED <<op, primary, ordinal_by_id, data, index>> /\ Stored' = Stored
      BY <1>2 DEF vars, files, memory, Stored
    <2>3. Indexed'
      <3> SUFFICES ASSUME NEW k \in Key, NEW p \in Ordinal, op.step # "closed"
                   PROVE  <<k, p>> \in index' <=> Filed(k, p)'
        BY <2>2 DEF Indexed
      <3>1. <<k, p>> \in index <=> Filed(k, p)
        BY <1>1 DEF QInv, Indexed
      <3> QED BY <2>2, <3>1 DEF Filed
    <2> QED BY <2>1, <2>3 DEF QInv
  <1>3. CASE \E h \in Header : Insert(h)
    BY <1>0, <1>1, <1>3, QueryInsertStep
  <1>4. CASE WriteBlob \/ ordinal_for \/ ReverseOrdinal \/ ReplaceOld \/ Publish
    BY <1>0, <1>1, <1>4, QueryWriteBlobStep, QueryOrdinalForStep, QueryReverseOrdinalStep,
       QueryReplaceOldStep, QueryPublishStep
  <1>5. CASE \E id \in Id : Delete(id)
    BY <1>0, <1>1, <1>5, QueryDeleteStep
  <1>6. CASE RetireOrdinal \/ Unreverse \/ FreeSlot
    BY <1>0, <1>1, <1>6, QueryRetireOrdinalStep, QueryUnreverseStep, QueryFreeSlotStep
  <1>7. CASE Close \/ Crash \/ Open
    BY <1>0, <1>1, <1>7, QueryCloseStep, QueryCrashStep, QueryOpenStep
  <1> QED BY <1>2, <1>3, <1>4, <1>5, <1>6, <1>7 DEF Next

\* query_by_kind and query_by_schema_ref return exactly the stored entities
\* that have the key, after any sequence of inserts, overwrites, deletes,
\* reopens and crashes, unless a crash left an entity in a free slot or an
\* ordinal without an entity.
THEOREM QueriesAreExact == Spec => []QueryExactUnlessTorn
  <1>1. Spec => []QInvUnlessTorn
    <2>1. Init => QInvUnlessTorn
      BY QueryInit DEF QInvUnlessTorn
    <2> QED BY <2>1, QueryNext, StoreInvariance, PTL DEF Spec
  <1>2. ASSUME IInv, QInvUnlessTorn PROVE QueryExactUnlessTorn
    <2> SUFFICES ASSUME torn = {}, op = Idle, NEW k \in Key
                 PROVE  query(k) = {id \in Stored : k \in get(id).keys}
      BY DEF QueryExactUnlessTorn, QueryExact
    <2>1. op.step = "idle"
      BY DEF Idle, Op
    <2>2. OrdinalsBelong /\ Reversed /\ Indexed
      BY <1>2 DEF QInvUnlessTorn, QInv
    <2>3. \A p \in Ordinal : <<k, p>> \in index
            <=> \E id \in Stored : ordinal_by_id[id] = p /\ k \in data[primary[id]].keys
      BY <2>1, <2>2 DEF Indexed, Filed
    <2>4. \A id \in Stored : /\ ordinal_by_id[id] \in Ordinal
                             /\ id_by_ordinal[ordinal_by_id[id]] = id
                             /\ get(id) = data[primary[id]]
      BY <1>2, <2>1, <2>2 DEF IInv, TypeOK, OrdinalsHeld, Reversed, Stored, get
    <2>5. ASSUME NEW x \in query(k) PROVE x \in Stored /\ k \in get(x).keys
      <3>1. PICK o \in Ordinal : <<k, o>> \in index /\ x = id_by_ordinal[o]
        BY <2>5 DEF query
      <3>2. PICK id \in Stored : ordinal_by_id[id] = o /\ k \in data[primary[id]].keys
        BY <2>3, <3>1
      <3> QED BY <2>4, <3>1, <3>2
    <2>6. ASSUME NEW x \in Stored, k \in get(x).keys PROVE x \in query(k)
      <3>1. ordinal_by_id[x] \in Ordinal /\ <<k, ordinal_by_id[x]>> \in index
            /\ id_by_ordinal[ordinal_by_id[x]] = x
        BY <2>3, <2>4, <2>6
      <3> QED BY <3>1 DEF query
    <2> QED BY <2>5, <2>6
  <1> QED BY <1>1, <1>2, StoreInvariance, PTL

=============================================================================
