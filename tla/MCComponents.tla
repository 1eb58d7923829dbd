---------------------------- MODULE MCComponents ----------------------------
(* One run for the components that are checked by themselves.  A behaviour *)
(* is one of the component named by which.  Gateway has its own variables  *)
(* and stays at its first start in the behaviours of the others; these are *)
(* instances that share the variables s1..s7, in the order in which each   *)
(* component declares its own.                                             *)
EXTENDS Gateway

VARIABLES which, s1, s2, s3, s4, s5, s6, s7

rest5 == <<s5, s6, s7>>
rest4 == <<s4, rest5>>
rest3 == <<s3, rest4>>
rest1 == <<s1, s2, rest3>>

From5 == s5 = 0 /\ s6 = 0 /\ s7 = 0
From4 == s4 = 0 /\ From5
From3 == s3 = 0 /\ From4
From1 == s1 = 0 /\ s2 = 0 /\ From3

-----------------------------------------------------------------------------
(* Frontends, access control and sharding: two shards, the first of two    *)
(* members; a bootstrap lands on one shard or is divided between them      *)

MCShardMap == <<[shard |-> 0, members |-> <<1, 2>>], [shard |-> 1, members |-> <<3>>]>>
MCPlacements == {[i \in 1..7 |-> 0], [i \in 1..7 |-> IF i = 1 THEN 200 ELSE 0]}
MCTemplates ==
    {[effect |-> "permit", kind |-> "Data", role_name |-> "analyst", redact |-> {1}],
     [effect |-> "deny", kind |-> "EntityType", role_name |-> "none", redact |-> {}]}
MCNameSets == {{"analyst"}}

-----------------------------------------------------------------------------
(* gems-bitmap: chunks of three values, arrays of at most one              *)

Bitmap == INSTANCE RoaringBitmap WITH
    Span <- 3, Threshold <- 1, Values <- 0..4, bm <- s1, set <- s2, ret <- s3

-----------------------------------------------------------------------------
(* gems-query and Store::query                                             *)

Upper == [w \in {"SELECT", "FROM", "WHERE", "AND", "OR", "or", "NOT", "IN", "type", "a", "b",
                 "w", "entities", "Entities", "x", "ORDER", "BY", "DESC", "LIMIT"} |->
            CASE w = "or" -> "OR"
              [] w = "type" -> "TYPE"
              [] w \in {"entities", "Entities"} -> "ENTITIES"
              [] OTHER -> w]

Connective(c, is) == [chars |-> <<c>>, is |-> is, ast |-> <<>>]
Predicate(c, ast) == [chars |-> c, is |-> "predicate", ast |-> <<ast>>]

Pieces ==
    {Connective("(", "("), Connective(")", ")"), Connective("NOT", "NOT"),
     Connective("AND", "AND"), Connective("or", "OR"),
     Predicate(<<"type", " ", "IN", "(", "w", "1", ",", "'", "a", "'", "'", "'", ")">>,
        [in |-> << <<"type">> >>,
         values |-> <<[lit |-> "ident", of |-> <<"w", "1">>],
                      [lit |-> "str", of |-> <<"a", "'">>]>>]),
     Predicate(<<"a", ".", "b", "<", "=", "1", ".", "0">>,
        [cmp |-> << <<"a">>, <<"b">> >>, op |-> "<=",
         value |-> [lit |-> "num", of |-> <<"1", ".", "0">>]])}

Heads ==
    {[chars |-> <<"SELECT", "*", "FROM", " ", "Entities">>, select |-> <<>>,
      from |-> <<"Entities">>, tight |-> TRUE, room |-> 5],
     [chars |-> <<"SELECT", "*", "FROM", " ", "Entities">>, select |-> <<>>,
      from |-> <<"Entities">>, tight |-> FALSE, room |-> 2],
     [chars |-> <<"SELECT", " ", "a", ",", "a", ".", "b", " ", "FROM", " ", "x">>,
      select |-> << << << <<"a">> >>, << <<"a">>, <<"b">> >> >> >>,
      from |-> <<"x">>, tight |-> TRUE, room |-> 1]}

Ending(c, order_by, limit, ok) ==
    [chars |-> c, order_by |-> order_by, limit |-> limit, ok |-> ok]

Tails ==
    {Ending(<<"LIMIT", " ", "1">>, <<>>, <<1>>, TRUE),
     Ending(<<"LIMIT", " ", "1", ".", "2">>, <<>>, <<>>, FALSE),
     Ending(<<"ORDER", " ", "BY", " ", "a", " ", "DESC", ",", "b">>,
            << <<[field |-> << <<"a">> >>, descending |-> TRUE],
                 [field |-> << <<"b">> >>, descending |-> FALSE]>> >>, <<>>, TRUE),
     Ending(<<"LIMIT", " ", "1", " ", "ORDER", " ", "BY", " ", "a">>, <<>>, <<>>, FALSE)}

Stored ==
    <<[id |-> 3, is |-> "type", name |-> <<"w", "1">>, schema |-> 0],
      [id |-> 9, is |-> "data", name |-> <<"x">>, schema |-> 3],
      [id |-> 5, is |-> "type", name |-> <<"a", "'">>, schema |-> 0],
      [id |-> 1, is |-> "data", name |-> <<"x">>, schema |-> 5],
      [id |-> 7, is |-> "data", name |-> <<"w", "1">>, schema |-> 0]>>

Qry == INSTANCE Query WITH
    Digit <- [c \in {"0", "1", "2"} |->
                CASE c = "0" -> 0 [] c = "1" -> 1 [] c = "2" -> 2],
    Words <- DOMAIN Upper, MAX_EXPR_DEPTH <- 2, MaxTailed <- 1,
    head <- s1, pieces <- s2, tail <- s3

-----------------------------------------------------------------------------
(* Wire and disk formats, GBV bodies and JSON                              *)

Wire == INSTANCE Codec WITH
    CountMod <- 3, MaxFrame <- 30, StringMax <- 2, Within <- {9},
    Strings <- {<<>>, <<1>>, <<1, 2, 9>>},
    type <- s1, value <- s2, buf <- s3, how <- s4

Body == INSTANCE Gbv WITH
    Keys <- 1..3, Values <- {<<>>, <<8, 9>>}, CountMod <- 4, MaxFields <- 4,
    fields <- s1, lost <- s2

Js == INSTANCE Json WITH
    MAX_NESTING_DEPTH <- 2, MaxDepth <- 3,
    Scalars <- {[is |-> "number", n |-> <<"-", "1", ".", "0", "e", "-", "1">>],
                [is |-> "string", s |-> <<"\\", "\"", "LF", "U+0001", "]">>]},
    Names <- {<<"n">>, <<"\"">>},
    value <- s1, text <- s2, how <- s3

-----------------------------------------------------------------------------
(* gems-storage: extents of five units on pages of two, never more of them *)
(* than still lie where extent_index looks for them                        *)

Ext == INSTANCE Extents WITH
    Region <- 4, Prefix <- 1, Page <- 2, Sizes <- {1, 3, 4},
    MaxExtents <- 3, MaxOps <- 5, MaxCrashes <- 1,
    disk <- s1, mapped <- s2, extents <- s3, pc <- s4, live <- s5, ops <- s6, crashes <- s7

-----------------------------------------------------------------------------

ComponentsInit ==
    \/ which = "gateway" /\ Init /\ From1
    \/ /\ Init /\ made = 0
       /\ \/ which = "bitmap" /\ Bitmap!Init /\ From4
          \/ which = "query" /\ Qry!Init /\ From4
          \/ which = "codec" /\ Wire!Init /\ From5
          \/ which = "gbv" /\ Body!Init /\ From3
          \/ which = "json" /\ Js!Init /\ From4
          \/ which = "extents" /\ Ext!Init

ComponentsNext ==
    /\ UNCHANGED which
    /\ \/ which = "gateway" /\ Next /\ UNCHANGED rest1
       \/ which = "bitmap" /\ Bitmap!Next /\ UNCHANGED <<rest4, vars>>
       \/ which = "query" /\ Qry!Next /\ UNCHANGED <<rest4, vars>>
       \/ which = "codec" /\ Wire!Next /\ UNCHANGED <<rest5, vars>>
       \/ which = "gbv" /\ Body!Next /\ UNCHANGED <<rest3, vars>>
       \/ which = "json" /\ Js!Next /\ UNCHANGED <<rest4, vars>>
       \/ which = "extents" /\ Ext!Next /\ UNCHANGED vars

ComponentsSpec == ComponentsInit /\ [][ComponentsNext]_<<which, rest1, vars>>

-----------------------------------------------------------------------------
(* Properties, each stated and explained in its component's module;        *)
(* EnforcedReads and SomeoneAdministers are Gateway's own                  *)

\* RoaringBitmap is the set it stands for, through promotion and shrinking.
BitmapsAreSets == which = "bitmap" => Bitmap!BitmapsAreSets

\* parse and query give a text the meaning its author's precedence gives it.
QueriesMeanWhatTheySay == which = "query" => Qry!QueriesMeanWhatTheySay

\* What is encoded is decoded, and what was cut is refused: the catalog, log
\* and wire formats, GBV bodies (GbvReader, redact), JSON (write, parse).
RoundTrips ==
    /\ which = "codec" => Wire!RoundTrips
    /\ which = "gbv" => Body!FieldsReadBack
    /\ which = "json" => Js!ValuesReadBack

\* Frames of a connection are delivered one by one, in order
\* (FrameDecoder::decode_one, handle_connection).
StreamsInOrder == which = "codec" => Wire!StreamsInOrder

\* A live pointer reads back the bytes written through it and no two overlap
\* (ExtentManager), as long as the file has few extents.
ReadsBack == which = "extents" => Ext!ReadsBack
=============================================================================
