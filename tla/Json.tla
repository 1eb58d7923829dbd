-------------------------------- MODULE Json --------------------------------
(***************************************************************************)
(* gems-json: the compact writer and the recursive-descent parser, which   *)
(* carry requests, responses, tool calls, token claims and the shard map.  *)
(*                                                                         *)
(* A text is a sequence of cells.  A cell is a character, except that the  *)
(* words true, false and null and the four digits of a \u escape are one   *)
(* cell each.  A number is the cells it is written with (f64's own parsing *)
(* and printing are external); Control is any character below 0x20 that    *)
(* has no short escape.                                                    *)
(***************************************************************************)
EXTENDS Integers, Sequences, FiniteSets, SequencesExt

CONSTANTS
    MAX_NESTING_DEPTH,
    Scalars,     \* bound: values that are neither array nor object
    Names,       \* bound: the keys of objects
    MaxDepth     \* bound: depth of the values written

VARIABLES
    value,   \* the Value that was written
    text,    \* what the parser is given
    how      \* "written", "spaced" or "cut"

vars == <<value, text, how>>

Null == [is |-> "null"]
Bool(b) == [is |-> "bool", b |-> b]
Number(n) == [is |-> "number", n |-> n]
String(s) == [is |-> "string", s |-> s]
Array(vs) == [is |-> "array", items |-> vs]
Object(es) == [is |-> "object", entries |-> es]   \* in insertion order

Digit == {"0", "1"}
Space == {" "}
Control == "U+0001"
Hex == "0001"

\* The escapes that the writer uses and the parser knows; b, f and / only the
\* parser does.
Escape == ("\"" :> "\"") @@ ("\\" :> "\\") @@ ("LF" :> "n") @@ ("CR" :> "r") @@ ("TAB" :> "t")
Unescape == ("\"" :> "\"") @@ ("\\" :> "\\") @@ ("n" :> "LF") @@ ("r" :> "CR")
            @@ ("t" :> "TAB") @@ ("/" :> "/") @@ ("b" :> "BS") @@ ("f" :> "FF")

-----------------------------------------------------------------------------
(* Writing                                                                 *)

RECURSIVE WriteCells(_)
WriteCells(s) ==
    IF s = <<>> THEN <<>>
    ELSE LET c == Head(s)
         IN  (IF c \in DOMAIN Escape THEN <<"\\", Escape[c]>>
              ELSE IF c = Control THEN <<"\\", "u", Hex>>
              ELSE <<c>>) \o WriteCells(Tail(s))

write_json_string(s) == <<"\"">> \o WriteCells(s) \o <<"\"">>

\* sp is what stands around the tokens: nothing here, a space in the requests
\* of other writers.
RECURSIVE write(_, _), WriteItems(_, _), WriteEntries(_, _)

WriteItems(vs, sp) ==
    IF vs = <<>> THEN <<>>
    ELSE write(Head(vs), sp) \o (IF Len(vs) > 1 THEN <<",">> ELSE <<>>) \o WriteItems(Tail(vs), sp)

WriteEntries(es, sp) ==
    IF es = <<>> THEN <<>>
    ELSE sp \o write_json_string(Head(es)[1]) \o sp \o <<":">> \o write(Head(es)[2], sp)
         \o (IF Len(es) > 1 THEN <<",">> ELSE <<>>) \o WriteEntries(Tail(es), sp)

write(v, sp) ==
    sp \o (CASE v.is = "null" -> <<"null">>
             [] v.is = "bool" -> <<v.b>>
             [] v.is = "number" -> v.n
             [] v.is = "string" -> write_json_string(v.s)
             [] v.is = "array" -> <<"[">> \o WriteItems(v.items, sp) \o sp \o <<"]">>
             [] v.is = "object" -> <<"{">> \o WriteEntries(v.entries, sp) \o sp \o <<"}">>)
       \o sp

-----------------------------------------------------------------------------
(* Parsing: [ok, pos, val], pos the first cell not read                    *)

Got(pos, val) == [ok |-> TRUE, pos |-> pos, val |-> val]
Err == [ok |-> FALSE]
At(t, p) == IF p <= Len(t) THEN t[p] ELSE "end"

RECURSIVE skip_whitespace(_, _)
skip_whitespace(t, p) == IF At(t, p) \in Space THEN skip_whitespace(t, p + 1) ELSE p

\* One escape, p the cell after the backslash
ParseEscape(t, p) ==
    IF At(t, p) \in DOMAIN Unescape THEN Got(p + 1, Unescape[t[p]])
    ELSE IF At(t, p) = "u" /\ At(t, p + 1) = Hex THEN Got(p + 2, Control)
    ELSE Err

RECURSIVE StringFrom(_, _, _)
StringFrom(t, p, acc) ==
    IF p > Len(t) THEN Err
    ELSE IF t[p] = "\"" THEN Got(p + 1, acc)
    ELSE IF t[p] = "\\"
    THEN LET e == ParseEscape(t, p + 1)
         IN  IF e.ok THEN StringFrom(t, e.pos, Append(acc, e.val)) ELSE Err
    ELSE StringFrom(t, p + 1, Append(acc, t[p]))

parse_string(t, p) == IF At(t, p) = "\"" THEN StringFrom(t, p + 1, <<>>) ELSE Err

RECURSIVE Digits(_, _)
Digits(t, p) == IF At(t, p) \in Digit THEN Digits(t, p + 1) ELSE p

\* sign, digits, fraction, exponent; f64's parse wants a digit before and, with
\* an exponent, after
parse_number(t, p) ==
    LET int == IF At(t, p) = "-" THEN p + 1 ELSE p
        dot == Digits(t, int)
        frac == IF At(t, dot) = "." THEN Digits(t, dot + 1) ELSE dot
        sign == IF At(t, frac) = "e" /\ At(t, frac + 1) \in {"+", "-"} THEN frac + 2 ELSE frac + 1
        exp == IF At(t, frac) = "e" THEN Digits(t, sign) ELSE frac
        mantissa == SelectSeq(SubSeq(t, p, frac - 1), LAMBDA c : c \in Digit)
    IN  IF mantissa = <<>> \/ (exp # frac /\ exp = sign) THEN Err
        ELSE Got(exp, Number(SubSeq(t, p, exp - 1)))

RECURSIVE parse_value(_, _, _), parse_items(_, _, _, _), parse_entries(_, _, _, _)

parse_items(t, p, depth, acc) ==
    LET v == parse_value(t, p, depth)
        q == skip_whitespace(t, v.pos)
    IN  IF ~v.ok THEN Err
        ELSE IF At(t, q) = "," THEN parse_items(t, q + 1, depth, Append(acc, v.val))
        ELSE IF At(t, q) = "]" THEN Got(q + 1, Array(Append(acc, v.val)))
        ELSE Err

parse_array(t, p, depth) ==
    LET q == skip_whitespace(t, p + 1)
    IN  IF At(t, q) = "]" THEN Got(q + 1, Array(<<>>)) ELSE parse_items(t, q, depth, <<>>)

parse_entries(t, p, depth, acc) ==
    LET k == parse_string(t, skip_whitespace(t, p))
        colon == skip_whitespace(t, k.pos)
        v == parse_value(t, colon + 1, depth)
        q == skip_whitespace(t, v.pos)
    IN  IF ~k.ok THEN Err
        ELSE IF At(t, colon) # ":" THEN Err
        ELSE IF ~v.ok THEN Err
        ELSE IF At(t, q) = "," THEN parse_entries(t, q + 1, depth, Append(acc, <<k.val, v.val>>))
        ELSE IF At(t, q) = "}" THEN Got(q + 1, Object(Append(acc, <<k.val, v.val>>)))
        ELSE Err

parse_object(t, p, depth) ==
    LET q == skip_whitespace(t, p + 1)
    IN  IF At(t, q) = "}" THEN Got(q + 1, Object(<<>>)) ELSE parse_entries(t, q, depth, <<>>)

\* depth is the nesting around the value; with_nesting refuses one level more.
parse_value(t, p0, depth) ==
    LET p == skip_whitespace(t, p0)
        c == At(t, p)
        nested == depth + 1 <= MAX_NESTING_DEPTH
    IN  IF c = "{" THEN IF nested THEN parse_object(t, p, depth + 1) ELSE Err
        ELSE IF c = "[" THEN IF nested THEN parse_array(t, p, depth + 1) ELSE Err
        ELSE IF c = "\"" THEN LET s == parse_string(t, p)
                              IN  IF s.ok THEN Got(s.pos, String(s.val)) ELSE Err
        ELSE IF c \in {"true", "false"} THEN Got(p + 1, Bool(c))
        ELSE IF c = "null" THEN Got(p + 1, Null)
        ELSE IF c = "-" \/ c \in Digit THEN parse_number(t, p)
        ELSE Err

\* The empty sequence for an error
parse(t) ==
    LET v == parse_value(t, 1, 0)
    IN  IF ~v.ok THEN <<>>
        ELSE IF skip_whitespace(t, v.pos) <= Len(t) THEN <<>>
        ELSE <<v.val>>

-----------------------------------------------------------------------------
(* Value's accessors: get answers the first entry of a key, set replaces   *)
(* it in place                                                             *)

Entry(v, k) == SelectSeq(v.entries, LAMBDA e : e[1] = k)
get(v, k) == IF v.is # "object" \/ Entry(v, k) = <<>> THEN <<>> ELSE <<Entry(v, k)[1][2]>>

set(v, k, x) ==
    IF get(v, k) = <<>> THEN Object(Append(v.entries, <<k, x>>))
    ELSE LET i == CHOOSE j \in 1..Len(v.entries) :
                     v.entries[j][1] = k /\ \A m \in 1..j - 1 : v.entries[m][1] # k
         IN  Object([v.entries EXCEPT ![i] = <<k, x>>])

-----------------------------------------------------------------------------

RECURSIVE Depth(_)
Depth(v) ==
    CASE v.is = "array" -> 1 + (IF v.items = <<>> THEN 0
            ELSE Max({Depth(v.items[i]) : i \in 1..Len(v.items)}))
      [] v.is = "object" -> 1 + (IF v.entries = <<>> THEN 0
            ELSE Max({Depth(v.entries[i][2]) : i \in 1..Len(v.entries)}))
      [] OTHER -> 0

Init ==
    /\ value \in Scalars \cup {Array(<<>>), Object(<<>>)}
    /\ text = write(value, <<>>) /\ how = "written"

Built(v) == how = "written" /\ value' = v /\ text' = write(v, <<>>) /\ UNCHANGED how

\* The calls that build a Value
Push(x) == value.is = "array" /\ Len(value.items) < 2 /\ Built(Array(Append(value.items, x)))
Set(k, x) == value.is = "object" /\ Len(value.entries) < 2 /\ Built(set(value, k, x))
Wrap == Depth(value) < MaxDepth /\ Built(Array(<<value>>))
Field(k) == Depth(value) < MaxDepth /\ Built(set(Object(<<>>), k, value))

Pad == how = "written" /\ text' = write(value, <<" ">>) /\ how' = "spaced" /\ UNCHANGED value

Cut ==
    /\ how \in {"written", "cut"} /\ text # <<>>
    /\ text' = Front(text) /\ how' = "cut" /\ UNCHANGED value

Next ==
    \/ \E x \in Scalars : Push(x) \/ \E k \in Names : Set(k, x)
    \/ Wrap \/ (\E k \in Names : Field(k))
    \/ Pad \/ Cut

Spec == Init /\ [][Next]_vars

\* What one side writes the other reads: parse of a written Value is that
\* Value, also with space between its tokens, as long as it is not nested
\* deeper than MAX_NESTING_DEPTH, which is refused; and a text that lost its
\* end is refused too, never read as another Value, unless it is a number,
\* whose every prefix with a digit is one (write.rs, parse.rs, value.rs set).
ValuesReadBack ==
    IF how = "cut" THEN value.is # "number" => parse(text) = <<>>
    ELSE parse(text) = IF Depth(value) > MAX_NESTING_DEPTH THEN <<>> ELSE <<value>>
=============================================================================
