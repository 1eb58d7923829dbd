------------------------------ MODULE Extents ------------------------------
(***************************************************************************)
(* gems-storage: ExtentManager over one memory-mapped ExtentFile, used the *)
(* way Store uses it: allocate, write, remember the pointer, read, free.   *)
(*                                                                         *)
(* Sizes are in units of MIN_BLOCK_SIZE.  The file is cut into extents of  *)
(* a prefix (header and bitmap) and a data region; the prefix is kept as   *)
(* the class byte and the set of taken slots.  The file is mapped to whole *)
(* OS pages, of which an extent is not a multiple.                         *)
(***************************************************************************)
EXTENDS Integers, Sequences, FiniteSets, FiniteSetsExt

CONSTANTS
    Region,      \* DATA_REGION_SIZE, a power of two
    Prefix,      \* EXTENT_HEADER_LEN + BITMAP_BYTES
    Page,        \* os_page_size
    Sizes,       \* bound: the sizes asked for
    MaxExtents,  \* bound: growths of the file
    MaxOps,      \* bound: allocations
    MaxCrashes   \* bound: crashes and clean reopenings

VARIABLES
    disk,     \* extent index -> [class, taken, data]
    mapped,   \* ExtentFile.mapped_len
    extents,  \* ExtentManager.extents, in memory
    pc,       \* where allocate stands
    live,     \* the pointers the index holds -> [size, value]
    ops,
    crashes

vars == <<disk, mapped, extents, pc, live, ops, crashes>>

EXTENT_SIZE == Prefix + Region

round_up_to_os_page(n) == ((n + Page - 1) \div Page) * Page

\* BlockClass: 0 for one unit, and so on in powers of two
Class == {c \in 0..Region : 2^c <= Region}
block_size(c) == 2^c
slots_per_extent(c) == Region \div block_size(c)

for_size(n) == Min({c \in Class : block_size(c) >= n})

\* An extent that ftruncate has just added reads as zero: its class is 0.
Blank == [class |-> 0, taken |-> {}, data |-> [b \in 0..Region - 1 |-> 0]]

\* The extents that lie within a file of n bytes
InFile(n) == 0..(n \div EXTENT_SIZE) - 1

\* The units of the data region that a slot of a class covers
SlotUnits(slot, c) == slot * block_size(c) .. (slot + 1) * block_size(c) - 1

Pointer(extent, slot, c) == [extent_index |-> extent, slot_index |-> slot, block_class |-> c]

Init ==
    /\ disk = <<>> /\ mapped = 0 /\ extents = <<>>
    /\ pc = [at |-> "idle"] /\ live = <<>> /\ ops = 0 /\ crashes = 0

-----------------------------------------------------------------------------

\* Bitmap::allocate: the first free slot of an extent read as class c
FreeSlots(extent, c) == (0..slots_per_extent(c) - 1) \ disk[extent].taken

Claim(extent, slot) == disk' = [disk EXCEPT ![extent].taken = @ \cup {slot}]

Candidates(c) == {i \in DOMAIN extents : extents[i] = c /\ FreeSlots(i - 1, c) # {}}

\* allocate, when an extent of the class has room: the first in order
AllocateExisting(n) ==
    /\ pc.at = "idle" /\ ops < MaxOps
    /\ LET c == for_size(n)
           extent == Min(Candidates(c)) - 1
           slot == Min(FreeSlots(extent, c))
       IN  /\ Candidates(c) # {}
           /\ Claim(extent, slot)
           /\ pc' = [at |-> "write", ptr |-> Pointer(extent, slot, c), size |-> n]
    /\ ops' = ops + 1
    /\ UNCHANGED <<mapped, extents, live, crashes>>

\* grow_by_one_extent: the file grows by an extent from the end of the
\* mapping, and the mapping to whole pages
Grow(n) ==
    /\ pc.at = "idle" /\ ops < MaxOps
    /\ Candidates(for_size(n)) = {} /\ Len(extents) < MaxExtents
    /\ mapped' = round_up_to_os_page(mapped + EXTENT_SIZE)
    /\ disk' = [i \in InFile(mapped') |-> IF i \in DOMAIN disk THEN disk[i] ELSE Blank]
    /\ pc' = [at |-> "init", extent |-> mapped \div EXTENT_SIZE, size |-> n]
    /\ ops' = ops + 1
    /\ UNCHANGED <<extents, live, crashes>>

\* init_extent_header and extents.push
\* Mutant: the header is left to the next reopening.
InitExtent_NoHeader ==
    /\ pc.at = "init" /\ extents' = Append(extents, for_size(pc.size))
    /\ pc' = [pc EXCEPT !.at = "claim"]
    /\ UNCHANGED <<disk, mapped, live, ops, crashes>>

InitExtent ==
    /\ pc.at = "init"
    /\ disk' = [disk EXCEPT ![pc.extent].class = for_size(pc.size)]
    /\ extents' = Append(extents, for_size(pc.size))
    /\ pc' = [pc EXCEPT !.at = "claim"]
    /\ UNCHANGED <<mapped, live, ops, crashes>>

\* try_allocate_in_extent on the new extent; without a free slot, the expect
\* of allocate panics.
ClaimNew ==
    /\ pc.at = "claim"
    /\ LET c == for_size(pc.size)
           slot == Min(FreeSlots(pc.extent, c))
       IN  IF FreeSlots(pc.extent, c) = {} THEN pc' = [at |-> "panicked"] /\ disk' = disk
           ELSE /\ Claim(pc.extent, slot)
                /\ pc' = [at |-> "write", ptr |-> Pointer(pc.extent, slot, c), size |-> pc.size]
    /\ UNCHANGED <<mapped, extents, live, ops, crashes>>

\* write, after which the caller stores the pointer: values are numbered
Write ==
    /\ pc.at = "write"
    /\ LET p == pc.ptr  first == Min(SlotUnits(p.slot_index, p.block_class)) IN
           disk' = [disk EXCEPT ![p.extent_index].data =
                       [b \in DOMAIN @ |-> IF b \in first..first + pc.size - 1 THEN ops ELSE @[b]]]
    /\ live' = [q \in DOMAIN live \cup {pc.ptr} |->
                   IF q = pc.ptr THEN [size |-> pc.size, value |-> ops] ELSE live[q]]
    /\ pc' = [at |-> "idle"]
    /\ UNCHANGED <<mapped, extents, ops, crashes>>

\* The caller forgets a pointer and frees its slot.
Free(p) ==
    /\ pc.at = "idle"
    /\ disk' = [disk EXCEPT ![p.extent_index].taken = @ \ {p.slot_index}]
    /\ live' = [q \in DOMAIN live \ {p} |-> live[q]]
    /\ UNCHANGED <<mapped, extents, pc, ops, crashes>>

\* The process ends, in an allocation or between operations, and opens the
\* file again: a pointer not yet stored is lost, the classes are read from
\* the class byte of every extent that fits in the mapping.
open_classes == [i \in 1..Cardinality(InFile(mapped)) |-> disk[i - 1].class]

Reopen ==
    /\ crashes < MaxCrashes
    /\ extents' = open_classes
    /\ pc' = [at |-> "idle"] /\ crashes' = crashes + 1
    /\ UNCHANGED <<disk, mapped, live, ops>>

Next ==
    \/ \E n \in Sizes : AllocateExisting(n) \/ Grow(n)
    \/ InitExtent \/ ClaimNew \/ Write
    \/ \E p \in DOMAIN live : Free(p)
    \/ Reopen

Spec == Init /\ [][Next]_vars

-----------------------------------------------------------------------------

\* read: what a pointer's slot holds
read(p, n) ==
    LET first == Min(SlotUnits(p.slot_index, p.block_class))
    IN  [b \in 0..n - 1 |-> disk[p.extent_index].data[first + b]]

\* A stored pointer reads back what was written to it, until it is freed:
\* no two live slots share a byte, whatever their classes, after any growth,
\* crash and reopening (ExtentManager::read and write).
ReadsBack ==
    \A p \in DOMAIN live : read(p, live[p].size) = [b \in 0..live[p].size - 1 |-> live[p].value]
=============================================================================
