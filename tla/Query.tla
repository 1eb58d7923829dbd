------------------------------- MODULE Query -------------------------------
(***************************************************************************)
(* gems-query and the planner of gems-engine: a query text goes through    *)
(* the lexer, the recursive-descent parser and Store::query.               *)
(*                                                                         *)
(* A text is a sequence of words, digits and single characters; two words, *)
(* or a word and a digit, that touch are one identifier.  The state is a   *)
(* text under construction beside what its author means by it.             *)
(***************************************************************************)
EXTENDS Integers, Sequences, FiniteSets, SequencesExt

CONSTANTS
    Digit,         \* a digit character -> its value
    Words,         \* the words, keywords in both cases included
    Upper,         \* word -> its upper case
    Stored,        \* the entities of the store, in ordinal order
    MAX_EXPR_DEPTH,
    Heads,         \* bound: [chars, select, from, tight, room], a text up to its WHERE,
                   \* whether it has spaces only where needed, the pieces it may get
    Pieces,        \* bound: [chars, is, ast], what an expression is written from
    Tails,         \* bound: [chars, order_by, limit, ok], what may follow it
    MaxTailed      \* bound: pieces of an expression before a tail

VARIABLES
    head,
    pieces,  \* the WHERE expression; without a piece there is no WHERE
    tail     \* None while the text goes on

vars == <<head, pieces, tail>>

None == <<>>
Some(x) == <<x>>

-----------------------------------------------------------------------------
(* Lexer                                                                   *)

Token(is, of) == [is |-> is, of |-> of]
Mark(is) == Token(is, <<>>)
Eof == Mark("eof")

Digits == DOMAIN Digit
IdentChar(c) == c \in Words \cup Digits

\* The first position from i on whose character fails Test
Run(s, i, Test(_)) ==
    LET stops == {j \in i..Len(s) : ~Test(s[j])} IN
        IF stops = {} THEN Len(s) + 1 ELSE Min(stops)

\* lex_string: two quotes stand for one; the closing one is not followed by another
RECURSIVE StringEnd(_, _)
StringEnd(s, i) ==
    IF i > Len(s) THEN 0
    ELSE IF s[i] # "'" THEN StringEnd(s, i + 1)
    ELSE IF i < Len(s) /\ s[i + 1] = "'" THEN StringEnd(s, i + 2) ELSE i

lex_string(s, i) ==
    LET end == StringEnd(s, i + 1)
        raw == SubSeq(s, i + 1, end - 1)
        Kept(j) == raw[j] # "'" \/ Cardinality({k \in 1..j : raw[k] = "'"}) % 2 = 1
    IN  IF end = 0 THEN [ok |-> FALSE]
        ELSE [ok |-> TRUE, next |-> end + 1, tok |-> Token("str",
                FoldLeft(LAMBDA acc, j : IF Kept(j) THEN Append(acc, raw[j]) ELSE acc,
                         <<>>, [j \in DOMAIN raw |-> j]))]

\* lex_number: digits and dots, read as f64: no more than one dot
lex_number(s, i) ==
    LET end == Run(s, i, LAMBDA c : c \in Digits \cup {"."})
        raw == SubSeq(s, i, end - 1)
    IN  IF Cardinality({j \in DOMAIN raw : raw[j] = "."}) > 1 THEN [ok |-> FALSE]
        ELSE [ok |-> TRUE, tok |-> Token("num", raw), next |-> end]

lex_ident(s, i) ==
    LET end == Run(s, i, IdentChar)
    IN  [ok |-> TRUE, tok |-> Token("ident", SubSeq(s, i, end - 1)), next |-> end]

WithEq == [c \in {"<", ">", "!"} |-> IF c = "<" THEN "<=" ELSE IF c = ">" THEN ">=" ELSE "!="]

\* , ( ) . * = and <, > and ! with the = that may or must follow
lex_mark(s, i) ==
    LET eq == i < Len(s) /\ s[i + 1] = "=" IN
        CASE s[i] \in {",", "(", ")", ".", "*", "="} -> [ok |-> TRUE, tok |-> Mark(s[i]), next |-> i + 1]
          [] s[i] \in {"<", ">"} /\ ~eq -> [ok |-> TRUE, tok |-> Mark(s[i]), next |-> i + 1]
          [] s[i] \in {"<", ">", "!"} /\ eq -> [ok |-> TRUE, tok |-> Mark(WithEq[s[i]]), next |-> i + 2]
          [] OTHER -> [ok |-> FALSE]

next_token(s, i) ==
    CASE s[i] = "'" -> lex_string(s, i)
      [] s[i] \in Digits -> lex_number(s, i)
      [] s[i] \in Words -> lex_ident(s, i)
      [] OTHER -> lex_mark(s, i)

RECURSIVE Lex(_, _, _)
Lex(s, i, acc) ==
    LET at == Run(s, i, LAMBDA c : c = " ") IN
        IF at > Len(s) THEN [ok |-> TRUE, toks |-> Append(acc, Eof)]
        ELSE LET t == next_token(s, at) IN
            IF t.ok THEN Lex(s, t.next, Append(acc, t.tok)) ELSE [ok |-> FALSE]

tokenize(s) == Lex(s, 1, <<>>)

-----------------------------------------------------------------------------
(* Parser: every rule returns [ok, pos, ast], where pos is the token after *)

Fail == [ok |-> FALSE]
Done(pos, ast) == [ok |-> TRUE, pos |-> pos, ast |-> ast]

advance(t, p) == IF p < Len(t) THEN p + 1 ELSE p
Keyword(t, p, kw) == t[p].is = "ident" /\ Len(t[p].of) = 1 /\ t[p].of[1] \in Words /\ Upper[t[p].of[1]] = kw

parse_ident(t, p) == IF t[p].is = "ident" THEN Done(advance(t, p), t[p].of) ELSE Fail

\* One rule and then as many more as separators follow: Item (Sep Item)*
RECURSIVE SepBy(_, _, _, _, _)
SepBy(t, p, sep, Item(_, _), acc) ==
    LET r == Item(t, p) IN
        IF ~r.ok THEN Fail
        ELSE IF t[r.pos] = sep THEN SepBy(t, advance(t, r.pos), sep, Item, Append(acc, r.ast))
        ELSE Done(r.pos, Append(acc, r.ast))

parse_field(t, p) == SepBy(t, p, Mark("."), parse_ident, <<>>)

parse_literal(t, p) ==
    LET kind == CASE t[p].is \in {"str", "num"} -> t[p].is
                  [] Keyword(t, p, "TRUE") \/ Keyword(t, p, "FALSE") -> "bool"
                  [] t[p].is = "ident" -> "ident"
                  [] OTHER -> "bad"
    IN  IF kind = "bad" THEN Fail ELSE Done(advance(t, p), [lit |-> kind, of |-> t[p].of])

\* A list of literals in brackets
literal_list(t, p) ==
    IF t[p] # Mark("(") THEN Fail
    ELSE LET r == SepBy(t, advance(t, p), Mark(","), parse_literal, <<>>) IN
        IF r.ok /\ t[r.pos] = Mark(")") THEN Done(advance(t, r.pos), r.ast) ELSE Fail

CompareOps == {Mark(op) : op \in {"=", "!=", "<", "<=", ">", ">="}}

parse_predicate(t, p) ==
    LET f == parse_field(t, p) IN
        IF ~f.ok THEN Fail
        ELSE IF Keyword(t, f.pos, "IN")
        THEN LET v == literal_list(t, advance(t, f.pos)) IN
             IF v.ok THEN Done(v.pos, [in |-> f.ast, values |-> v.ast]) ELSE Fail
        ELSE IF t[f.pos] \notin CompareOps THEN Fail
        ELSE LET v == parse_literal(t, advance(t, f.pos)) IN
             IF v.ok THEN Done(v.pos, [cmp |-> f.ast, op |-> t[f.pos].is, value |-> v.ast]) ELSE Fail

RECURSIVE parse_or_expr(_, _, _), parse_and_expr(_, _, _), parse_unary_expr(_, _, _)
RECURSIVE MoreOr(_, _, _), MoreAnd(_, _, _)

\* The loops of the two binary rules; operators group to the left.
MoreOr(t, l, d) ==
    IF ~l.ok \/ ~Keyword(t, l.pos, "OR") THEN l
    ELSE LET r == parse_and_expr(t, advance(t, l.pos), d) IN
        IF r.ok THEN MoreOr(t, Done(r.pos, [or |-> <<l.ast, r.ast>>]), d) ELSE Fail

MoreAnd(t, l, d) ==
    IF ~l.ok \/ ~Keyword(t, l.pos, "AND") THEN l
    ELSE LET r == parse_unary_expr(t, advance(t, l.pos), d) IN
        IF r.ok THEN MoreAnd(t, Done(r.pos, [and |-> <<l.ast, r.ast>>]), d) ELSE Fail

parse_or_expr(t, p, d) == MoreOr(t, parse_and_expr(t, p, d), d)

parse_and_expr(t, p, d) == MoreAnd(t, parse_unary_expr(t, p, d), d)

\* d is expr_depth, which every NOT and every bracket around p has raised.
\* Mutant: NOT takes all that follows.
parse_unary_expr_NotTakesAll(t, p, d) ==
    IF ~Keyword(t, p, "NOT") /\ t[p] # Mark("(") THEN parse_predicate(t, p)
    ELSE IF d + 1 > MAX_EXPR_DEPTH THEN Fail
    ELSE LET e == parse_or_expr(t, advance(t, p), d + 1) IN
        IF ~e.ok THEN Fail
        ELSE IF Keyword(t, p, "NOT") THEN Done(e.pos, [not |-> e.ast])
        ELSE IF t[e.pos] = Mark(")") THEN Done(advance(t, e.pos), e.ast) ELSE Fail

parse_unary_expr(t, p, d) ==
    IF ~Keyword(t, p, "NOT") /\ t[p] # Mark("(") THEN parse_predicate(t, p)
    ELSE IF d + 1 > MAX_EXPR_DEPTH THEN Fail
    ELSE IF Keyword(t, p, "NOT")
    THEN LET e == parse_unary_expr(t, advance(t, p), d + 1) IN
         IF e.ok THEN Done(e.pos, [not |-> e.ast]) ELSE Fail
    ELSE LET e == parse_or_expr(t, advance(t, p), d + 1) IN
         IF e.ok /\ t[e.pos] = Mark(")") THEN Done(advance(t, e.pos), e.ast) ELSE Fail

parse_order_item(t, p) ==
    LET f == parse_field(t, p) IN
        IF ~f.ok THEN Fail
        ELSE Done(IF Keyword(t, f.pos, "DESC") \/ Keyword(t, f.pos, "ASC") THEN advance(t, f.pos) ELSE f.pos,
                  [field |-> f.ast, descending |-> Keyword(t, f.pos, "DESC")])

parse_select_list(t, p) ==
    IF t[p] = Mark("*") THEN Done(advance(t, p), None)
    ELSE LET r == SepBy(t, p, Mark(","), parse_field, <<>>) IN
        IF r.ok THEN Done(r.pos, Some(r.ast)) ELSE Fail

\* An optional clause: what follows its keyword, None without the keyword
Clause(t, p, kw, Rule(_, _)) ==
    IF ~Keyword(t, p, kw) THEN Done(p, None)
    ELSE LET r == Rule(t, advance(t, p)) IN IF r.ok THEN Done(r.pos, Some(r.ast)) ELSE Fail

Filter(t, p) == parse_or_expr(t, p, 0)
OrderBy(t, p) ==
    IF Keyword(t, p, "BY") THEN SepBy(t, advance(t, p), Mark(","), parse_order_item, <<>>) ELSE Fail

\* A whole number: no digit but 0 after the dot
Whole(n) == \A i, j \in DOMAIN n : n[i] = "." /\ j > i => n[j] = "0"
Number(n) ==
    LET dots == {i \in DOMAIN n : n[i] = "."}
        end == IF dots = {} THEN Len(n) ELSE Min(dots) - 1
    IN  FoldLeft(LAMBDA acc, c : 10 * acc + Digit[c], 0, SubSeq(n, 1, end))
Limit(t, p) ==
    IF t[p].is = "num" /\ Whole(t[p].of) THEN Done(advance(t, p), Number(t[p].of)) ELSE Fail

\* The clauses so far, q, and the next one's rule applied where they end
Taken(q, field, r) ==
    IF q.ok /\ r.ok THEN [q EXCEPT !.pos = r.pos] @@ (field :> r.ast) ELSE Fail

From(t, q) ==
    Taken(q, "from", IF q.ok /\ Keyword(t, q.pos, "FROM") THEN parse_ident(t, advance(t, q.pos)) ELSE Fail)

Optional(t, q, field, kw, Rule(_, _)) ==
    Taken(q, field, IF q.ok THEN Clause(t, q.pos, kw, Rule) ELSE Fail)

Complete(t, q) == IF q.ok /\ t[q.pos] = Eof THEN q ELSE Fail

parse_query(t) ==
    Complete(t, Optional(t, Optional(t, Optional(t, From(t,
        Taken([ok |-> TRUE, pos |-> 1], "select",
              IF Keyword(t, 1, "SELECT") THEN parse_select_list(t, advance(t, 1)) ELSE Fail)),
        "filter", "WHERE", Filter), "order_by", "ORDER", OrderBy), "limit", "LIMIT", Limit))

parse(s) == LET t == tokenize(s) IN IF t.ok THEN parse_query(t.toks) ELSE Fail

-----------------------------------------------------------------------------
(* Store::query                                                            *)

\* The entity type of that name with the lowest ordinal, None without one
find_entity_type_by_name(name) ==
    LET found == {i \in DOMAIN Stored : Stored[i].is = "type" /\ Stored[i].name = name} IN
        IF found = {} THEN None ELSE Some(Stored[Min(found)].id)

Instances(name) ==
    LET type == find_entity_type_by_name(name) IN
        {e.id : e \in {x \in ToSet(Stored) : type # None /\ x.schema = type[1]}}

Unsupported(expr) ==
    \/ "in" \notin DOMAIN expr
    \/ Len(expr.in) # 1 \/ Len(expr.in[1]) # 1 \/ Upper[expr.in[1][1]] # "TYPE"
    \/ \E i \in DOMAIN expr.values : expr.values[i].lit \notin {"ident", "str"}

eval_type_in_filter(expr) ==
    IF Unsupported(expr) THEN Fail
    ELSE [ok |-> TRUE, ids |-> UNION {Instances(expr.values[i].of) : i \in DOMAIN expr.values}]

\* Sorted by id, then cut at the limit
query(q) ==
    IF Len(q.from) # 1 \/ Upper[q.from[1]] # "ENTITIES" \/ q.order_by # None THEN Fail
    ELSE LET got == IF q.filter = None THEN [ok |-> TRUE, ids |-> {e.id : e \in ToSet(Stored)}]
                    ELSE eval_type_in_filter(q.filter[1])
         IN  IF ~got.ok THEN Fail
             ELSE LET sorted == SetToSortSeq(got.ids, <) IN
                 [ok |-> TRUE, ids |-> SubSeq(sorted, 1,
                    IF q.limit = None \/ q.limit[1] > Len(sorted) THEN Len(sorted) ELSE q.limit[1])]

-----------------------------------------------------------------------------
(* A text under construction                                               *)

\* The characters that would be read as one token when they touch
Touch(c, d) ==
    \/ IdentChar(c) /\ IdentChar(d)
    \/ c = "'" /\ d = "'"
    \/ c \in Digits \cup {"."} /\ d \in Digits \cup {"."}
    \/ c \in {"<", ">", "!"} /\ d = "="

Join(s, c) ==
    IF s = <<>> THEN c
    ELSE s \o (IF head.tight /\ ~Touch(s[Len(s)], c[1]) THEN <<>> ELSE <<" ">>) \o c

text ==
    FoldLeft(Join, <<>>,
        <<head.chars>> \o (IF pieces = <<>> THEN <<>> ELSE <<<<"WHERE">>>>)
        \o [i \in DOMAIN pieces |-> pieces[i].chars]
        \o (IF tail = None THEN <<>> ELSE <<tail[1].chars>>))

Init == head \in Heads /\ pieces = <<>> /\ tail = None

Write(p) ==
    /\ tail = None /\ Len(pieces) < head.room
    /\ pieces' = Append(pieces, p)
    /\ UNCHANGED <<head, tail>>

End(e) ==
    /\ tail = None /\ Len(pieces) <= MaxTailed
    /\ tail' = Some(e)
    /\ UNCHANGED <<head, pieces>>

Next == (\E p \in Pieces : Write(p)) \/ (\E e \in Tails : End(e))

Spec == Init /\ [][Next]_vars

-----------------------------------------------------------------------------
(* What the author means: the expression is divided at its weakest, last   *)
(* operator outside brackets.                                              *)

Opened(s, i) ==
    Cardinality({j \in 1..i - 1 : s[j].is = "("}) - Cardinality({j \in 1..i - 1 : s[j].is = ")"})
Operators(s, op) == {i \in DOMAIN s : s[i].is = op /\ Opened(s, i) = 0}

Bad == [ok |-> FALSE]
Meant(ast, depth) == [ok |-> TRUE, ast |-> ast, depth |-> depth]

RECURSIVE Meaning(_)
Meaning(s) ==
    LET cut == IF Operators(s, "OR") # {} THEN Operators(s, "OR") ELSE Operators(s, "AND")
        l == Meaning(SubSeq(s, 1, Max(cut) - 1))
        r == Meaning(SubSeq(s, Max(cut) + 1, Len(s)))
        sub == IF s[1].is = "NOT" THEN Meaning(Tail(s)) ELSE Meaning(SubSeq(s, 2, Len(s) - 1))
    IN  CASE s = <<>> -> Bad
          [] cut # {} ->
                IF ~l.ok \/ ~r.ok THEN Bad
                ELSE Meant(IF s[Max(cut)].is = "OR" THEN [or |-> <<l.ast, r.ast>>]
                           ELSE [and |-> <<l.ast, r.ast>>],
                           IF l.depth > r.depth THEN l.depth ELSE r.depth)
          [] cut = {} /\ s # <<>> /\ s[1].is = "NOT" ->
                IF sub.ok THEN Meant([not |-> sub.ast], sub.depth + 1) ELSE Bad
          [] cut = {} /\ Len(s) > 2 /\ s[1].is = "(" /\ s[Len(s)].is = ")" ->
                IF sub.ok THEN Meant(sub.ast, sub.depth + 1) ELSE Bad
          [] cut = {} /\ Len(s) = 1 /\ s[1].is = "predicate" -> Meant(s[1].ast[1], 0)
          [] OTHER -> Bad

\* A finished or unfinished text is accepted exactly when it means something
\* and nests no deeper than the limit, with NOT binding tighter than AND and
\* AND tighter than OR, whatever the spacing; and an answer of the store lists
\* in order the entities whose type has one of the names, the first so many
\* under a LIMIT (Lexer, Parser, Store::query).
QueriesMeanWhatTheySay ==
    \E q \in {parse(text)}, m \in {IF pieces = <<>> THEN Meant(None, 0) ELSE Meaning(pieces)} :
        /\ q.ok <=> m.ok /\ m.depth <= MAX_EXPR_DEPTH /\ (tail # None => tail[1].ok)
        /\ q.ok =>
            /\ q.select = head.select /\ q.from = head.from
            /\ q.filter = (IF pieces = <<>> THEN None ELSE Some(m.ast))
            /\ tail # None => q.order_by = tail[1].order_by /\ q.limit = tail[1].limit
            /\ query(q).ok =>
                LET names == IF pieces = <<>> THEN {} ELSE {m.ast.values[i].of : i \in DOMAIN m.ast.values}
                    all == {e \in ToSet(Stored) : pieces = <<>> \/
                              \E t \in ToSet(Stored) : t.is = "type" /\ t.name \in names /\ e.schema = t.id}
                    ids == query(q).ids
                IN  /\ ToSet(ids) \subseteq {e.id : e \in all}
                    /\ \A i, j \in DOMAIN ids : i < j => ids[i] < ids[j]
                    /\ \A e \in {x \in all : x.id \notin ToSet(ids)} :
                        q.limit = Some(Len(ids)) /\ \A i \in DOMAIN ids : ids[i] < e.id
=============================================================================
