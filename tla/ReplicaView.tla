----------------------------- MODULE ReplicaView -----------------------------
(***************************************************************************)
(* What log shipping promises, without log files, connections or offsets:  *)
(* records are published in one order, and a view applies them in that     *)
(* order, each in one step.  A view may fall back and start again at the   *)
(* first record, keeping what it has.                                      *)
(***************************************************************************)
EXTENDS Naturals, Sequences

CONSTANTS Id, Value, None

Record == [id : Id, val : Value \cup {None}]   \* None: a delete

VARIABLES
    hist,      \* the records published so far
    applied,   \* how many of them the view has behind it
    view       \* what the view reads for each id

vars == <<hist, applied, view>>

\* One record applied to a store: an insert or a delete, both by id.
Do(s, r) == [s EXCEPT ![r.id] = r.val]

Empty == [i \in Id |-> None]

Init == hist = <<>> /\ applied = 0 /\ view = Empty

Publish ==
    /\ \E r \in Record : hist' = Append(hist, r)
    /\ UNCHANGED <<applied, view>>

Apply ==
    /\ applied < Len(hist)
    /\ applied' = applied + 1
    /\ view' = Do(view, hist[applied + 1])
    /\ UNCHANGED hist

Rewind == applied' = 0 /\ UNCHANGED <<hist, view>>

Next == Publish \/ Apply \/ Rewind

Spec == Init /\ [][Next]_vars
=============================================================================
