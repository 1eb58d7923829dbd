------------------------------- MODULE Codec -------------------------------
(***************************************************************************)
(* The binary formats: entity headers and bodies, log records, the Raft    *)
(* state file and the two authenticated wire formats.                      *)
(*                                                                         *)
(* A buffer is a sequence of cells, one for every scalar of whatever width *)
(* and one for every byte of a blob or string.  A format is a sequence of  *)
(* fields, read and written by the shared primitives; optional values are  *)
(* <<>> or <<v>>.  A value is written, and what is read may be a prefix of *)
(* it, a stream of several, or have one cell changed.                      *)
(***************************************************************************)
EXTENDS Integers, Sequences, FiniteSets, SequencesExt

CONSTANTS
    CountMod,   \* 2^16, where the count of a list or blob wraps
    MaxFrame,   \* MAX_FRAME_LEN
    StringMax,  \* NAME_MAX, DESCRIPTION_MAX, FORMAT_TEMPLATE_MAX
    Within,     \* the cells that continue a UTF-8 character
    Strings     \* bound: the strings written

VARIABLES
    type,   \* which format
    value,  \* what was written: values of the format
    buf,    \* what the reader has
    how     \* "whole", "cut" or "changed"

vars == <<type, value, buf, how>>

-----------------------------------------------------------------------------
(* Fields                                                                  *)

Num == [k |-> "num"]
Bool == [k |-> "bool"]
Enum(max) == [k |-> "enum", max |-> max]
Const(c) == [k |-> "const", is |-> c]
Blob == [k |-> "blob"]              \* u16 length, then the bytes
Body == [k |-> "body"]              \* u32 length, then the bytes
OptBlob == [k |-> "optblob"]        \* a blob, empty for None
Short == [k |-> "short"]            \* u8 length, a string cut to its maximum
Padded == [k |-> "padded"]          \* the same, filled up to the maximum
List(of) == [k |-> "list", of |-> of]      \* u16 count
Long(of, min) == [k |-> "long", of |-> of, min |-> min]  \* u32 count, held against the space left
Opt(of) == [k |-> "opt", of |-> of]        \* a flag, then the value if any
PadOpt(max) == [k |-> "padopt", max |-> max]  \* a flag, then a scalar in any case
Variant(of) == [k |-> "variant", of |-> of]   \* a tag and the fields it selects
Summed(of) == [k |-> "summed", of |-> of]     \* fields, then their checksum
Sized(of) == [k |-> "sized", of |-> of]       \* u32 length, then the fields
Frame(of, mac) == [k |-> "frame", of |-> of, mac |-> mac]  \* the same, up to MaxFrame, with a tag

Scalar == 99
Kinds == 10      \* EntityKind
Tags == 22       \* TypeTag

\* crc32c and hmac_sha256: what matters is that no single change of the
\* content goes unnoticed.
Digest(cells) == FoldLeft(+, 1000, [i \in DOMAIN cells |-> i * cells[i]])

truncate_utf8(s) ==
    IF Len(s) <= StringMax THEN s
    ELSE LET ends == {e \in 0..StringMax : e = 0 \/ s[e + 1] \notin Within} IN SubSeq(s, 1, Max(ends))

RECURSIVE Encode(_, _), EncodeField(_, _), EncodeAll(_, _)

Encode(layout, v) ==
    IF layout = <<>> THEN <<>>
    ELSE EncodeField(Head(layout), Head(v)) \o Encode(Tail(layout), Tail(v))

EncodeAll(layout, items) ==
    IF items = <<>> THEN <<>> ELSE Encode(layout, Head(items)) \o EncodeAll(layout, Tail(items))

Filled(s, n) == s \o [i \in 1..n - Len(s) |-> 0]

EncodeField(f, x) ==
    CASE f.k \in {"num", "bool", "enum"} -> <<x>>
      [] f.k = "const" -> <<f.is>>
      [] f.k = "blob" -> <<Len(x) % CountMod>> \o x
      [] f.k = "body" -> <<Len(x)>> \o x
      [] f.k = "optblob" -> IF x = <<>> THEN <<0>> ELSE <<Len(x[1]) % CountMod>> \o x[1]
      [] f.k = "short" -> <<Len(truncate_utf8(x))>> \o truncate_utf8(x)
      [] f.k = "padded" -> <<Len(truncate_utf8(x))>> \o Filled(truncate_utf8(x), StringMax)
      [] f.k = "list" -> <<Len(x) % CountMod>> \o EncodeAll(f.of, x)
      [] f.k = "long" -> <<Len(x)>> \o EncodeAll(f.of, x)
      [] f.k = "opt" -> IF x = <<>> THEN <<0>> ELSE <<1>> \o Encode(f.of, x[1])
      [] f.k = "padopt" -> IF x = <<>> THEN <<0, 0>> ELSE <<1, x[1]>>
      [] f.k = "variant" -> <<x[1]>> \o Encode(f.of[x[1]], x[2])
      [] f.k = "summed" -> LET c == Encode(f.of, x) IN c \o <<Digest(c)>>
      [] f.k = "sized" -> LET c == Encode(f.of, x) IN <<Len(c)>> \o c
      [] f.k = "frame" -> LET c == Encode(f.of, x) IN
            <<Len(c)>> \o c \o (IF f.mac THEN <<Digest(c)>> ELSE <<>>)

-----------------------------------------------------------------------------
(* Reading: [ok, pos, val], or why not: "short" for a frame that has not   *)
(* all arrived, "bad" for an error                                         *)

Got(pos, val) == [ok |-> TRUE, pos |-> pos, val |-> val, why |-> ""]
Fails(why) == [ok |-> FALSE, why |-> why]

\* read_bytes: n cells from p on
read_bytes(b, p, n) ==
    IF p + n - 1 > Len(b) THEN Fails("bad") ELSE Got(p + n, SubSeq(b, p, p + n - 1))

\* A count cell, then that many cells
read_prefixed(b, p) == IF p > Len(b) THEN Fails("bad") ELSE read_bytes(b, p + 1, b[p])

RECURSIVE DecodeOn(_, _, _, _), DecodeField(_, _, _), DecodeMany(_, _, _, _, _)

\* The fields of a layout one after the other, after those in acc
DecodeOn(layout, b, p, acc) ==
    IF layout = <<>> THEN Got(p, acc)
    ELSE LET r == DecodeField(Head(layout), b, p) IN
        IF r.ok THEN DecodeOn(Tail(layout), b, r.pos, Append(acc, r.val)) ELSE r

Decode(layout, b, p) == DecodeOn(layout, b, p, <<>>)

\* n times the same fields
DecodeMany(layout, b, p, n, acc) ==
    IF n = 0 THEN Got(p, acc)
    ELSE LET r == Decode(layout, b, p) IN
        IF r.ok THEN DecodeMany(layout, b, r.pos, n - 1, Append(acc, r.val)) ELSE Fails("bad")

DecodeOpt(f, b, p) ==
    IF b[p] = 0 THEN Got(p + 1, <<>>)
    ELSE LET r == Decode(f.of, b, p + 1) IN IF r.ok THEN Got(r.pos, <<r.val>>) ELSE r

DecodePadOpt(f, b, p) ==
    IF p + 1 > Len(b) \/ (b[p] # 0 /\ b[p + 1] > f.max) THEN Fails("bad")
    ELSE Got(p + 2, IF b[p] = 0 THEN <<>> ELSE <<b[p + 1]>>)

DecodeVariant(f, b, p) ==
    IF b[p] \notin DOMAIN f.of THEN Fails("bad")
    ELSE LET r == Decode(f.of[b[p]], b, p + 1) IN IF r.ok THEN Got(r.pos, <<b[p], r.val>>) ELSE r

\* EntityHeader::decode: length, magic and checksum before any field
DecodeSummed(f, b, p) ==
    LET n == Len(b) - p  r == Decode(f.of, SubSeq(b, p, p + n - 1), 1) IN
        IF n < 1 \/ Digest(SubSeq(b, p, p + n - 1)) # b[p + n] \/ ~r.ok THEN Fails("bad")
        ELSE Got(p + n + 1, r.val)

DecodeSized(f, b, p) ==
    LET s == read_prefixed(b, p)  r == Decode(f.of, s.val, 1) IN
        IF ~s.ok THEN s ELSE IF r.ok THEN Got(s.pos, r.val) ELSE Fails("bad")

\* Mutant: a length that has not all arrived is an error.
DecodeFrame_PartialIsError(f, b, p) ==
    LET n == IF p > Len(b) THEN 0 ELSE b[p]
        end == p + n + (IF f.mac THEN 1 ELSE 0)
        r == Decode(f.of, SubSeq(b, p + 1, p + n), 1)
    IN  IF p > Len(b) \/ n > MaxFrame \/ end > Len(b) THEN Fails("bad")
        ELSE IF f.mac /\ b[end] # Digest(SubSeq(b, p + 1, p + n)) THEN Fails("bad")
        ELSE IF r.ok THEN Got(end + 1, r.val) ELSE Fails("bad")

\* Mutant: the tag of a frame is left in the buffer.
DecodeFrame_LeavesTag(f, b, p) ==
    LET n == IF p > Len(b) THEN 0 ELSE b[p]
        end == p + n + (IF f.mac THEN 1 ELSE 0)
        r == Decode(f.of, SubSeq(b, p + 1, p + n), 1)
    IN  IF n > MaxFrame THEN Fails("bad")
        ELSE IF p > Len(b) \/ end > Len(b) THEN Fails("short")
        ELSE IF f.mac /\ b[end] # Digest(SubSeq(b, p + 1, p + n)) THEN Fails("bad")
        ELSE IF r.ok THEN Got(p + n + 1, r.val) ELSE Fails("bad")

\* The length is checked as soon as it is there, the tag before the content.
DecodeFrame(f, b, p) ==
    LET n == IF p > Len(b) THEN 0 ELSE b[p]
        end == p + n + (IF f.mac THEN 1 ELSE 0)
        r == Decode(f.of, SubSeq(b, p + 1, p + n), 1)
    IN  IF n > MaxFrame THEN Fails("bad")
        ELSE IF p > Len(b) \/ end > Len(b) THEN Fails("short")
        ELSE IF f.mac /\ b[end] # Digest(SubSeq(b, p + 1, p + n)) THEN Fails("bad")
        ELSE IF r.ok THEN Got(end + 1, r.val) ELSE Fails("bad")

DecodeField(f, b, p) ==
    IF f.k = "frame" THEN DecodeFrame(f, b, p)
    ELSE IF p > Len(b) THEN Fails("bad")
    ELSE CASE f.k = "num" -> Got(p + 1, b[p])
      [] f.k = "bool" -> Got(p + 1, IF b[p] # 0 THEN 1 ELSE 0)
      [] f.k = "enum" -> IF b[p] > f.max THEN Fails("bad") ELSE Got(p + 1, b[p])
      [] f.k = "const" -> IF b[p] # f.is THEN Fails("bad") ELSE Got(p + 1, b[p])
      [] f.k \in {"blob", "body", "short"} -> read_prefixed(b, p)
      [] f.k = "optblob" -> LET r == read_prefixed(b, p) IN
            IF r.ok THEN Got(r.pos, IF r.val = <<>> THEN <<>> ELSE <<r.val>>) ELSE r
      [] f.k = "padded" -> LET r == read_bytes(b, p + 1, StringMax) IN
            IF ~r.ok \/ b[p] > StringMax THEN Fails("bad") ELSE Got(r.pos, SubSeq(r.val, 1, b[p]))
      [] f.k = "list" -> DecodeMany(f.of, b, p + 1, b[p], <<>>)
      [] f.k = "long" -> IF b[p] > (Len(b) - p) \div f.min THEN Fails("bad")
                         ELSE DecodeMany(f.of, b, p + 1, b[p], <<>>)
      [] f.k = "opt" -> DecodeOpt(f, b, p)
      [] f.k = "padopt" -> DecodePadOpt(f, b, p)
      [] f.k = "variant" -> DecodeVariant(f, b, p)
      [] f.k = "summed" -> DecodeSummed(f, b, p)
      [] f.k = "sized" -> DecodeSized(f, b, p)

-----------------------------------------------------------------------------
(* Formats                                                                 *)

EntityType == <<Enum(1), List(<<Num, Bool, OptBlob>>), List(<<Num>>), List(<<Num>>)>>
EntityAttribute == <<Enum(Tags), Enum(1), Bool, Enum(2), PadOpt(Scalar), PadOpt(Scalar), Num, Num, Num, Short>>
Subject == <<Enum(8), Opt(<<OptBlob, OptBlob>>), List(<<Num>>)>>
Layer == <<Num, Opt(<<Blob>>)>>
VariantList == <<List(<<Blob>>)>>
LinkType == <<Bool, Bool>>
Link == <<List(<<Num>>), List(<<Num>>), Num, Enum(1), PadOpt(Scalar), PadOpt(Scalar)>>
Policy == <<PadOpt(Kinds), Num, Num, Num, Enum(1), List(<<Num>>)>>

\* magic and version; id, authors and time; name and description; flags,
\* kind, schema and the place of the body
EntityHeader == <<Summed(<<Const(7), Num, Padded, Padded, Num, Enum(Kinds), Num>>)>>

LogRecord == Frame(<<Variant(<< <<Sized(EntityHeader), Body>>, <<Num>> >>)>>, FALSE)

RaftState == <<Num, PadOpt(Scalar), Long(<<Num, LogRecord>>, 1)>>

RequestVoteRequest == <<Num, Num, Num, Num>>
RequestVoteResponse == <<Num, Bool, Num>>
AppendEntriesRequest == <<Num, Num, Num, Num, Long(<<Num, LogRecord>>, 2), Num>>
AppendEntriesResponse == <<Num, Bool, Num, Num>>

RaftEnvelope ==
    Frame(<<Num, Num, Variant(<<RequestVoteRequest, RequestVoteResponse,
                                AppendEntriesRequest, AppendEntriesResponse>>)>>, TRUE)

PingOrAck == <<Num, Num, Long(<<Num, Enum(2), Num>>, 3)>>
SwimEnvelope == Frame(<<Num, Num, Variant(<<PingOrAck, PingOrAck>>)>>, TRUE)

Formats == [
    entity_type |-> EntityType, entity_attribute |-> EntityAttribute, subject |-> Subject,
    layer |-> Layer, variant_list |-> VariantList, link_type |-> LinkType, link |-> Link,
    policy |-> Policy, header |-> EntityHeader, raft_state |-> RaftState,
    record |-> <<LogRecord>>, raft |-> <<RaftEnvelope>>, swim |-> <<SwimEnvelope>>]

Streams == {"record", "raft", "swim"}

-----------------------------------------------------------------------------
(* Sample values of a format                                               *)

RECURSIVE Samples(_), FieldSamples(_)

Samples(layout) ==
    IF layout = <<>> THEN {<<>>}
    ELSE {<<x>> \o v : x \in FieldSamples(Head(layout)), v \in Samples(Tail(layout))}

\* CountMod of anything wrap a count or a length of 16 bits.
FieldSamples(f) ==
    CASE f.k = "num" -> {1}
      [] f.k = "bool" -> {0, 1}
      [] f.k = "enum" -> {0, f.max}
      [] f.k = "const" -> {f.is}
      [] f.k = "blob" -> {<<>>, <<2>>, [i \in 1..CountMod |-> 2]}
      [] f.k = "body" -> {<<>>, <<2>>}
      [] f.k = "optblob" -> {<<>>, <<<<>>>>, <<<<2, 2>>>>, <<[i \in 1..CountMod |-> 2]>>}
      [] f.k \in {"short", "padded"} -> Strings
      [] f.k = "list" -> LET S == Samples(f.of) IN
            {<<>>} \cup {<<x>> : x \in S} \cup {[i \in 1..CountMod |-> CHOOSE x \in S : TRUE]}
      [] f.k = "long" -> LET S == Samples(f.of) IN
            {<<>>} \cup {<<x>> : x \in S} \cup {[i \in 1..2 |-> CHOOSE x \in S : TRUE]}
      [] f.k = "opt" -> {<<>>} \cup {<<x>> : x \in Samples(f.of)}
      [] f.k = "padopt" -> {<<>>, <<1>>}
      [] f.k = "variant" -> UNION {{<<t, x>> : x \in Samples(f.of[t])} : t \in DOMAIN f.of}
      [] f.k \in {"summed", "sized", "frame"} -> Samples(f.of)

\* What a value is after a round trip: a string cut to its maximum, an
\* empty optional blob gone
RECURSIVE Normal(_, _), NormalField(_, _)
Normal(layout, v) == [i \in DOMAIN layout |-> NormalField(layout[i], v[i])]
NormalField(f, x) ==
    CASE f.k \in {"short", "padded"} -> truncate_utf8(x)
      [] f.k = "optblob" -> IF x = <<<<>>>> THEN <<>> ELSE x
      [] f.k \in {"list", "long", "opt"} -> [i \in DOMAIN x |-> Normal(f.of, x[i])]
      [] f.k = "variant" -> <<x[1], Normal(f.of[x[1]], x[2])>>
      [] f.k \in {"summed", "sized", "frame"} -> Normal(f.of, x)
      [] OTHER -> x

\* No list is so long that its count wraps, and no blob that its length does.
RECURSIVE Fits(_, _), FieldFits(_, _)
Fits(layout, v) == \A i \in DOMAIN layout : FieldFits(layout[i], v[i])
FieldFits(f, x) ==
    CASE f.k = "blob" -> Len(x) < CountMod
      [] f.k = "optblob" -> \A i \in DOMAIN x : Len(x[i]) < CountMod
      [] f.k = "list" -> Len(x) < CountMod /\ \A i \in DOMAIN x : Fits(f.of, x[i])
      [] f.k \in {"long", "opt"} -> \A i \in DOMAIN x : Fits(f.of, x[i])
      [] f.k = "variant" -> Fits(f.of[x[1]], x[2])
      [] f.k \in {"summed", "sized", "frame"} -> Fits(f.of, x)
      [] OTHER -> TRUE

\* No frame is over the limit.
Sendable(v) == \A i \in DOMAIN v : Encode(Formats[type], v[i])[1] <= MaxFrame

-----------------------------------------------------------------------------

Init ==
    /\ type \in DOMAIN Formats
    /\ \E v \in Samples(Formats[type]) : value = <<v>>
    /\ buf = Encode(Formats[type], value[1]) /\ how = "whole"

\* A second value of a stream follows the first.
Follow ==
    /\ type \in Streams /\ how = "whole" /\ Len(value) = 1
    /\ LET v == CHOOSE x \in Samples(Formats[type]) : TRUE IN
           value' = Append(value, v) /\ buf' = buf \o Encode(Formats[type], v)
    /\ UNCHANGED <<type, how>>

\* A torn write or a chunk boundary: one cell less has arrived.
Cut ==
    /\ how \in {"whole", "cut"} /\ Len(buf) > 0
    /\ buf' = Front(buf) /\ how' = "cut"
    /\ UNCHANGED <<type, value>>

\* A cell changes on the way, other than a length.
Change ==
    /\ how = "whole" /\ type \in {"header", "raft", "swim"} /\ Len(value) = 1
    /\ \E i \in (IF type = "header" THEN 1 ELSE 2)..Len(buf) : buf' = [buf EXCEPT ![i] = @ + 1]
    /\ how' = "changed"
    /\ UNCHANGED <<type, value>>

Next == Follow \/ Cut \/ Change

Spec == Init /\ [][Next]_vars

-----------------------------------------------------------------------------
(* Properties                                                              *)

\* What is written is read back, up to the documented losses, exactly when no
\* count of a list and no length of a blob or text wrapped, at any depth:
\* nothing refuses to write one that does (write_u16_prefixed, write_tuid_list),
\* and it is refused or read as something else.  A buffer that lost its end, or whose
\* content changed under a checksum or a tag, is refused and never read as some
\* other value (the encode and decode of the catalog's types, of LogRecord, of
\* raft_state and of both wire modules).
RoundTrips ==
    LET r == Decode(Formats[type], buf, 1)
        fits == Fits(Formats[type], value[1])
    IN
    Len(value) = 1 /\ (type \in Streams => Sendable(value)) =>
        CASE how = "whole" ->
                fits <=> r.ok /\ r.pos = Len(buf) + 1 /\ r.val = Normal(Formats[type], value[1])
          [] how = "cut" -> fits => ~r.ok /\ (type \in Streams => r.why = "short")
          [] how = "changed" -> ~r.ok

\* The loop of handle_connection: decode, hand over, drain
RECURSIVE Delivered(_, _)
Delivered(b, acc) ==
    LET r == Decode(Formats[type], b, 1) IN
        IF r.ok THEN Delivered(SubSeq(b, r.pos, Len(b)), Append(acc, r.val)) ELSE acc

\* The length of the first n values on the stream
RECURSIVE LengthOf(_)
LengthOf(n) == IF n = 0 THEN 0 ELSE LengthOf(n - 1) + Len(Encode(Formats[type], value[n]))

\* Of what has been sent on a connection, a receiver hands over exactly the
\* values that have wholly arrived, in order, wherever the chunks end; unless
\* a frame was over the limit (handle_connection of raft_net, swim_net and
\* the replica, read_from of the log).
StreamsInOrder ==
    type \in Streams /\ how # "changed" /\ Sendable(value) =>
        LET arrived == Cardinality({n \in DOMAIN value : LengthOf(n) <= Len(buf)}) IN
            Delivered(buf, <<>>) = [n \in 1..arrived |-> Normal(Formats[type], value[n])]
=============================================================================
