-------------------------------- MODULE Gbv --------------------------------
(***************************************************************************)
(* gems-codec: a GBV buffer is a field count, a directory sorted by key,   *)
(* and the values.  A buffer is a sequence of cells, one per scalar and    *)
(* one per byte of a value; the type tag of a field travels with its key.  *)
(* The fields of an entity are pushed one by one, then the buffer may lose *)
(* its end, as when a slot is read back short.                             *)
(***************************************************************************)
EXTENDS Integers, Sequences, FiniteSets, SequencesExt

CONSTANTS
    Keys,       \* bound: key ids
    Values,     \* bound: sequences of cells
    CountMod,   \* 2^16, where the field count wraps
    MaxFields   \* bound: fields of one body

VARIABLES
    fields,   \* what was pushed, of [key_id, value]
    lost      \* cells the buffer lost at its end

vars == <<fields, lost>>

DIRECTORY_ENTRY_LEN == 3    \* key and tag, offset, length

\* The directory entries in push order, and the values behind them
RECURSIVE push(_, _, _)
push(todo, entries, values) ==
    IF todo = <<>> THEN [entries |-> entries, values |-> values]
    ELSE push(Tail(todo),
              Append(entries, [key_id |-> Head(todo).key_id, offset |-> Len(values),
                               len |-> Len(Head(todo).value)]),
              values \o Head(todo).value)

\* Stable: fields of one key keep their order.
RECURSIVE sort_by_key(_)
sort_by_key(es) ==
    IF es = <<>> THEN <<>>
    ELSE LET rest == sort_by_key(Tail(es))
             before == SelectSeq(rest, LAMBDA e : e.key_id < Head(es).key_id)
         IN  before \o <<Head(es)>> \o SubSeq(rest, Len(before) + 1, Len(rest))

RECURSIVE Directory(_)
Directory(es) ==
    IF es = <<>> THEN <<>>
    ELSE <<Head(es).key_id, Head(es).offset, Head(es).len>> \o Directory(Tail(es))

finish(pushed) ==
    LET b == push(pushed, <<>>, <<>>)
    IN  <<Len(b.entries) % CountMod>> \o Directory(sort_by_key(b.entries)) \o b.values

-----------------------------------------------------------------------------
(* Reading                                                                 *)

values_start(buf) == 1 + buf[1] * DIRECTORY_ENTRY_LEN
readable(buf) == Len(buf) >= 1 /\ Len(buf) >= values_start(buf)

entry_at(buf, i) ==
    LET base == 1 + i * DIRECTORY_ENTRY_LEN
    IN  [key_id |-> buf[base + 1], offset |-> buf[base + 2], len |-> buf[base + 3]]

\* None, the empty sequence, when the range runs past the buffer
field_bytes(buf, e) ==
    LET start == values_start(buf) + e.offset
    IN  IF start + e.len > Len(buf) THEN <<>>
        ELSE <<SubSeq(buf, start + 1, start + e.len)>>

RECURSIVE Search(_, _, _, _)
Search(buf, key, lo, hi) ==
    IF lo >= hi THEN <<>>
    ELSE LET mid == lo + (hi - lo) \div 2
             e == entry_at(buf, mid)
         IN  IF e.key_id = key THEN field_bytes(buf, e)
             ELSE IF e.key_id < key THEN Search(buf, key, mid + 1, hi)
             ELSE Search(buf, key, lo, mid)

get(buf, key) == Search(buf, key, 0, buf[1])

RECURSIVE Kept(_, _, _)
Kept(buf, exclude, i) ==
    IF i = buf[1] THEN <<>>
    ELSE LET e == entry_at(buf, i)
             v == field_bytes(buf, e)
         IN  (IF e.key_id \in exclude \/ v = <<>> THEN <<>>
              ELSE <<[key_id |-> e.key_id, value |-> v[1]]>>) \o Kept(buf, exclude, i + 1)

redact(buf, exclude) == finish(Kept(buf, exclude, 0))

-----------------------------------------------------------------------------

Init == fields = <<>> /\ lost = 0

Push(k, v) ==
    /\ lost = 0 /\ Len(fields) < MaxFields
    /\ fields' = Append(fields, [key_id |-> k, value |-> v])
    /\ UNCHANGED lost

Lose == lost < Len(finish(fields)) /\ lost' = lost + 1 /\ UNCHANGED fields

Next == (\E k \in Keys, v \in Values : Push(k, v)) \/ Lose

Spec == Init /\ [][Next]_vars

buffer == SubSeq(finish(fields), 1, Len(finish(fields)) - lost)

Pushed(k) == {fields[i].value : i \in {j \in 1..Len(fields) : fields[j].key_id = k}}

\* A field is read back as it was pushed, whatever the order of the pushes and
\* however often the binary search halves; a buffer that lost its end gives an
\* error, nothing, or still the pushed value, never another one; and redact
\* leaves exactly the fields of the keys that are not excluded (gbv.rs finish,
\* get, field_bytes and redact).  Two fields of one key, as two names with one
\* field_id make, are one or the other to get and both gone when redacted.
\* Unless the field count wrapped.
FieldsReadBack ==
    LET buf == buffer IN
    Len(fields) < CountMod /\ readable(buf) =>
        \A k \in Keys :
            LET found == get(buf, k)
            IN  /\ found # <<>> => found[1] \in Pushed(k)
                /\ lost = 0 => (found = <<>>) = (Pushed(k) = {})
                /\ \A x \in SUBSET Keys :
                     LET left == get(redact(buf, x), k)
                     IN  IF k \in x THEN left = <<>>
                         ELSE IF lost = 0 /\ Cardinality(Pushed(k)) <= 1 THEN left = found
                         ELSE left # <<>> => left[1] \in Pushed(k)
=============================================================================
