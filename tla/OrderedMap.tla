----------------------------- MODULE OrderedMap -----------------------------
(* What a B-tree promises: a map whose insert and delete are atomic.        *)
CONSTANTS Key, Value, None

VARIABLE map

Init == map = [k \in Key |-> None]

Insert(k, v) == map' = [map EXCEPT ![k] = v]

Delete(k) == map' = [map EXCEPT ![k] = None]

Next == \E k \in Key : Delete(k) \/ \E v \in Value : Insert(k, v)

Spec == Init /\ [][Next]_map
=============================================================================
