--------------------------- MODULE GatewayProofs ---------------------------
(***************************************************************************)
(* Proofs about Gateway: what enforced reads show, and that somebody can   *)
(* administer after a bootstrap, for any shard map, threads and bounds.    *)
(*                                                                         *)
(* Names are resolved to ids by one request and compared by another.  The  *)
(* invariant follows both sides of a resolution: every role that any store,*)
(* log or request holds was proposed under the name it has; a policy about *)
(* a named role has the id of a role proposed under that name; a token has *)
(* such an id for each name it was asked for, and none besides.  As ids    *)
(* are drawn once, two ids can only meet where the names do, and while a   *)
(* name stands for one role they also meet there.                          *)
(***************************************************************************)
EXTENDS Gateway, DataInduction, SequenceTheorems

-----------------------------------------------------------------------------
(* The inductive invariant                                                 *)

Ids == [byte : {0} \cup Bytes \cup {bytes[k] : bytes \in Placements, k \in 1..7}, n : Nat]

Names == {NoName, "admin", "analyst", "consumer", "policy", "type", "user", "e"}
Kinds == {"Role", "Policy", "Subject", "Data", "EntityType"}

Policies ==
    [effect : {"permit", "deny"},
     entity_kind : {AnyKind, "Data", "EntityType"} \cup {p.kind : p \in Templates},
     schema_ref : Ids, subject_id : Ids, role_id : Ids, role_name : Names,
     redact_attributes : {{}} \cup {p.redact : p \in Templates}]

Role(id, name) == [id |-> id, name |-> name]

\* A policy names no role, or one of R by its id and name.
PolicyMeans(p, R) ==
    \/ p.role_name = NoName /\ p.role_id = NIL
    \/ p.role_name # NoName /\ p.role_id # NIL /\ Role(p.role_id, p.role_name) \in R

EntityMeans(e, R) ==
    /\ e.kind = "Role" => Role(e.id, e.name) \in R
    /\ e.kind = "Policy" => PolicyMeans(e.policy, R)

Entities(R) ==
    {e \in [id : Ids, name : Names, kind : Kinds, schema_ref : Ids,
            fields : {{}, Fields}, policy : Policies] : EntityMeans(e, R)}

Commands(R) ==
    {c \in [op : {"insert", "delete"}, id : Ids, entity : Entities(R)] : c.entity.id = c.id}

\* A token has, for each name it was asked for, a role of R of that name, and
\* no role besides.
TokenMeans(token, R) ==
    /\ \A id \in token.subject.roles : \E name \in token.names : Role(id, name) \in R
    /\ \A name \in token.names : \E id \in token.subject.roles : Role(id, name) \in R

Tokens(R) ==
    {token \in [signed : {Secret}, subject : [subject_id : Ids, roles : SUBSET Ids],
                exp : {<<>>}, names : SUBSET Names] : TokenMeans(token, R)}

Requests(R) ==
    [todo : Seq(Commands(R)), tried : Nat, grant : SUBSET Tokens(R), seeds : BOOLEAN]

GateTyped ==
    /\ store \in [Shards -> Seq(Entities(roles))]
    /\ log \in [Shards -> Seq(Commands(roles))]
    /\ thread \in [Threads -> Requests(roles)]
    /\ issued \in SUBSET Tokens(roles)
    /\ made \in Nat /\ torn \in BOOLEAN

\* Roles have ids that were generated, each id one name.
RolesDrawn ==
    /\ roles \in SUBSET [id : Ids, name : Names]
    /\ \A r \in roles : r.id.n \in 1..made /\ r.name # NoName
    /\ \A q, r \in roles : q.id = r.id => q = r

Distinct(st) == \A i, j \in 1..Len(st) : st[i].id = st[j].id => i = j

IdsOnce == \A s \in Shards : Distinct(store[s])

\* The token of the only bootstrap, handed out or about to be.
Granted1(token) ==
    \/ token \in issued
    \/ \E t \in Threads : Serving(t) /\ thread[t].seeds /\ token \in thread[t].grant

AdminAwaited ==
    ~torn /\ roles # {} =>
        \E token \in Tokens(roles), id \in Ids :
            /\ Granted1(token)
            /\ id \in token.subject.roles
            /\ \A r \in roles : r.name = "admin" => r.id = id

GateInv == GateTyped /\ RolesDrawn /\ IdsOnce /\ AdminAwaited

-----------------------------------------------------------------------------
(* What the filter keeps                                                   *)

\* The filter, one element after the other.
Runs(kept, s, I) ==
    /\ kept[0] = <<>>
    /\ \A k \in 1..Len(s) : kept[k] = IF k \in I THEN Append(kept[k - 1], s[k]) ELSE kept[k - 1]

Places(s, I) == {s[i] : i \in {j \in 1..Len(s) : j \in I}}

LEMMA KeptRuns ==
    ASSUME NEW s, Len(s) \in Nat, NEW I
    PROVE  \E kept : /\ Runs(kept, s, I) /\ Kept(s, I) = kept[Len(s)]
                     /\ \A k \in 0..Len(s) : kept[k] \in Seq(Places(s, I))
  <1> DEFINE n == Len(s)
             S == Seq(Places(s, I))
             Step(x, k) == IF k \in I THEN Append(x, s[k]) ELSE x
             Body(f) == [k \in 0..n |-> IF k = 0 THEN <<>>
                                        ELSE IF k \in I THEN Append(f[k - 1], s[k])
                                        ELSE f[k - 1]]
             F == [x \in S \X (1..n) |-> Step(x[1], x[2])]
             kept == CHOOSE f : f = Body(f)
  <1>1. \A x \in S : \A k \in 1..n : Step(x, k) \in S
    <2>1. \A k \in 1..n : k \in I => s[k] \in Places(s, I)
      BY DEF Places
    <2> QED BY <2>1
  <1>2. <<>> \in S /\ n \in Nat
    OBVIOUS
  <1> HIDE DEF S
  <1>3. F \in [S \X (1..n) -> S]
    BY <1>1
  <1>4. PICK g : /\ g = [k \in 0..n |-> IF k = 0 THEN <<>> ELSE F[<<g[k - 1], k>>]]
                 /\ \A k \in 0..n : g[k] \in S
    <2> HIDE DEF F, n
    <2>1. \E g : Iteration(g, S, <<>>, n, F)
      BY <1>2, <1>3, Fixpoint
    <2> QED BY <2>1 DEF Iteration
  <1>5. g = Body(g)
    <2>1. ASSUME NEW k \in 0..n, k # 0
          PROVE  F[<<g[k - 1], k>>] = Step(g[k - 1], k)
      <3>1. k \in 1..n /\ k - 1 \in 0..n
        BY <1>2, <2>1
      <3>2. g[k - 1] \in S
        BY <1>4, <3>1
      <3> QED BY <3>1, <3>2
    <2> HIDE DEF F
    <2> QED BY <1>4, <2>1
  <1>6. kept = Body(kept)
    <2> HIDE DEF Body
    <2> QED BY <1>5
  <1>7. kept[0] = <<>> /\ \A k \in 1..n : kept[k] = Step(kept[k - 1], k)
    <2> HIDE DEF kept
    <2>1. \A k \in 0..n : kept[k] = IF k = 0 THEN <<>>
                                    ELSE IF k \in I THEN Append(kept[k - 1], s[k])
                                    ELSE kept[k - 1]
      BY <1>6
    <2> QED BY <1>2, <2>1
  <1>8. \A k \in 0..n : kept[k] \in S
    <2>1. kept[0] \in S /\ \A k \in 1..n : kept[k - 1] \in S => kept[k] \in S
      <3> HIDE DEF kept, Step, n
      <3> QED BY <1>1, <1>2, <1>7
    <2> HIDE DEF kept, n
    <2> QED BY <1>2, <2>1, StaysIn
  <1>9. Kept(s, I) = kept[n]
    BY DEF Kept
  <1>10. Runs(kept, s, I)
    <2> HIDE DEF kept
    <2> QED BY <1>7 DEF Runs
  <1> HIDE DEF kept
  <1> QED BY <1>8, <1>9, <1>10 DEF S

\* It keeps elements of s at the positions I, and every one of them.
LEMMA KeptIs ==
    ASSUME NEW s, Len(s) \in Nat, NEW I
    PROVE  /\ Kept(s, I) \in Seq(Places(s, I))
           /\ \A i \in 1..Len(s) : i \in I =>
                 \E j \in 1..Len(Kept(s, I)) : Kept(s, I)[j] = s[i]
  <1>1. PICK kept : /\ Runs(kept, s, I) /\ Kept(s, I) = kept[Len(s)]
                    /\ \A k \in 0..Len(s) : kept[k] \in Seq(Places(s, I))
    BY KeptRuns
  <1> DEFINE Has(k) == \A i \in 1..k : i \in I =>
                           \E j \in 1..Len(kept[k]) : kept[k][j] = s[i]
             n == Len(s)
             U == {k \in 0..n : Has(k)}
  <1>2. 0 \in U
    OBVIOUS
  <1>3. ASSUME NEW k \in 1..n, k - 1 \in U PROVE k \in U
    <2>1. k - 1 \in 0..n /\ kept[k - 1] \in Seq(Places(s, I)) /\ Has(k - 1)
      BY <1>1, <1>3
    <2>2. CASE k \notin I
      <3>1. kept[k] = kept[k - 1]
        BY <1>1, <2>2 DEF Runs
      <3> QED BY <2>1, <2>2, <3>1
    <2>3. CASE k \in I
      <3>1. kept[k] = Append(kept[k - 1], s[k])
        BY <1>1, <2>3 DEF Runs
      <3>2. /\ Len(kept[k]) = Len(kept[k - 1]) + 1 /\ Len(kept[k - 1]) \in Nat
            /\ kept[k][Len(kept[k])] = s[k]
            /\ \A j \in 1..Len(kept[k - 1]) : kept[k][j] = kept[k - 1][j]
        BY <2>1, <3>1
      <3>3. ASSUME NEW i \in 1..k, i \in I
            PROVE  \E j \in 1..Len(kept[k]) : kept[k][j] = s[i]
        <4>1. CASE i = k
          BY <4>1, <3>2
        <4>2. CASE i # k
          <5>1. i \in 1..(k - 1)
            BY <4>2
          <5>2. PICK j \in 1..Len(kept[k - 1]) : kept[k - 1][j] = s[i]
            BY <5>1, <3>3, <2>1
          <5>3. j \in 1..Len(kept[k]) /\ kept[k][j] = s[i]
            BY <5>2, <3>2
          <5> QED BY <5>3
        <4> QED BY <4>1, <4>2
      <3> QED BY <3>3
    <2> QED BY <2>2, <2>3
  <1>4. n \in U
    <2> HIDE DEF U
    <2>1. 0..n \subseteq U
      BY <1>2, <1>3, UpTo
    <2> QED BY <2>1
  <1> QED BY <1>1, <1>4

\* A single position leaves a single element, and none the empty sequence.
LEMMA KeptOne ==
    ASSUME NEW s, Len(s) \in Nat, NEW i \in 1..Len(s)
    PROVE  Kept(s, {i}) = <<s[i]>>
  <1>1. PICK kept : /\ Runs(kept, s, {i}) /\ Kept(s, {i}) = kept[Len(s)]
    BY KeptRuns
  <1> DEFINE n == Len(s)
             U == {k \in 0..n : kept[k] = IF i <= k THEN <<s[i]>> ELSE <<>>}
  <1>2. 0 \in U
    BY <1>1 DEF Runs
  <1>3. ASSUME NEW k \in 1..n, k - 1 \in U PROVE k \in U
    <2>1. kept[k - 1] = IF i <= k - 1 THEN <<s[i]>> ELSE <<>>
      BY <1>3
    <2>2. kept[k] = IF k = i THEN Append(kept[k - 1], s[k]) ELSE kept[k - 1]
      BY <1>1 DEF Runs
    <2>3. CASE k = i
      <3>1. ~(i <= k - 1) /\ i <= k
        BY <2>3
      <3>2. kept[k - 1] = <<>>
        BY <2>1, <3>1
      <3>3. kept[k] = Append(<<>>, s[i])
        BY <2>2, <2>3, <3>2
      <3>4. kept[k] = <<s[i]>>
        BY <3>3
      <3> QED BY <3>1, <3>4
    <2>4. CASE k # i
      BY <2>1, <2>2, <2>4
    <2> QED BY <2>3, <2>4
  <1>4. n \in U
    <2> HIDE DEF U
    <2>1. 0..n \subseteq U
      BY <1>2, <1>3, UpTo
    <2> QED BY <2>1
  <1>5. i <= n /\ kept[n] = <<s[i]>>
    BY <1>4
  <1> QED BY <1>1, <1>5

\* What was there once is there at most once afterwards.
LEMMA KeptDistinct ==
    ASSUME NEW s, Len(s) \in Nat, NEW I, Distinct(s)
    PROVE  Distinct(Kept(s, I))
  <1>1. PICK kept : /\ Runs(kept, s, I) /\ Kept(s, I) = kept[Len(s)]
                    /\ \A k \in 0..Len(s) : kept[k] \in Seq(Places(s, I))
    BY KeptRuns
  <1> DEFINE n == Len(s)
             From(k) == \A j \in 1..Len(kept[k]) : \E i \in 1..k : kept[k][j] = s[i]
             U == {k \in 0..n : From(k) /\ Distinct(kept[k])}
  <1>2. 0 \in U
    <2>1. Len(kept[0]) = 0
      BY <1>1 DEF Runs
    <2> QED BY <2>1 DEF Distinct
  <1>3. ASSUME NEW k \in 1..n, k - 1 \in U PROVE k \in U
    <2>1. /\ k - 1 \in 0..n /\ kept[k - 1] \in Seq(Places(s, I))
          /\ From(k - 1) /\ Distinct(kept[k - 1])
      BY <1>1, <1>3
    <2>2. CASE k \notin I
      <3>1. kept[k] = kept[k - 1]
        BY <1>1, <2>2 DEF Runs
      <3> QED BY <2>1, <3>1
    <2>3. CASE k \in I
      <3>1. kept[k] = Append(kept[k - 1], s[k])
        BY <1>1, <2>3 DEF Runs
      <3>2. /\ Len(kept[k]) = Len(kept[k - 1]) + 1 /\ Len(kept[k - 1]) \in Nat
            /\ kept[k][Len(kept[k])] = s[k]
            /\ \A j \in 1..Len(kept[k - 1]) : kept[k][j] = kept[k - 1][j]
        BY <2>1, <3>1
      <3>3. From(k)
        <4> SUFFICES ASSUME NEW j \in 1..Len(kept[k])
                     PROVE  \E i \in 1..k : kept[k][j] = s[i]
          OBVIOUS
        <4>1. CASE j = Len(kept[k])
          BY <4>1, <3>2
        <4>2. CASE j # Len(kept[k])
          <5>1. j \in 1..Len(kept[k - 1])
            BY <4>2, <3>2
          <5>2. PICK i \in 1..(k - 1) : kept[k - 1][j] = s[i]
            BY <5>1, <2>1
          <5> QED BY <5>1, <5>2, <3>2
        <4> QED BY <4>1, <4>2
      <3>4. ASSUME NEW j \in 1..Len(kept[k - 1]) PROVE kept[k][j].id # s[k].id
        <4>1. PICK i \in 1..(k - 1) : kept[k - 1][j] = s[i]
          BY <2>1
        <4>2. i \in 1..n /\ k \in 1..n /\ i # k
          OBVIOUS
        <4>3. s[i].id # s[k].id
          BY <4>2 DEF Distinct
        <4> QED BY <4>1, <4>3, <3>2
      <3>5. Distinct(kept[k])
        <4> SUFFICES ASSUME NEW a \in 1..Len(kept[k]), NEW b \in 1..Len(kept[k]),
                            kept[k][a].id = kept[k][b].id
                     PROVE  a = b
          BY DEF Distinct
        <4> DEFINE m == Len(kept[k - 1])
        <4>1. (a \in 1..m \/ a = m + 1) /\ (b \in 1..m \/ b = m + 1)
          BY <3>2
        <4>2. CASE a \in 1..m /\ b \in 1..m
          BY <4>2, <3>2, <2>1 DEF Distinct
        <4>3. CASE a = m + 1 /\ b \in 1..m
          BY <4>3, <3>2, <3>4
        <4>4. CASE a \in 1..m /\ b = m + 1
          BY <4>4, <3>2, <3>4
        <4> QED BY <4>1, <4>2, <4>3, <4>4
      <3> QED BY <3>3, <3>5
    <2> QED BY <2>2, <2>3
  <1>4. n \in U
    <2> HIDE DEF U
    <2>1. 0..n \subseteq U
      BY <1>2, <1>3, UpTo
    <2> QED BY <2>1
  <1> QED BY <1>1, <1>4

-----------------------------------------------------------------------------
(* What requests put together                                              *)

LEMMA IdFacts ==
    /\ NIL \in Ids /\ NoPolicy \in Policies
    /\ \A bytes \in Placements, k \in 1..7, n \in Nat : Tuid(bytes[k], n, k) \in Ids
    /\ \A b \in Bytes \cup {0}, n \in Nat, k \in 1..7 : Tuid(b, n, k) \in Ids
    /\ \A id \in Ids : id.n \in Nat
  <1>1. NIL \in Ids
    BY DEF NIL, Ids
  <1>2. NoPolicy \in Policies
    BY <1>1 DEF NoPolicy, Policy, Policies, AnyKind, NoName, Names
  <1>3. \A bytes \in Placements, k \in 1..7, n \in Nat : Tuid(bytes[k], n, k) \in Ids
    BY DEF Tuid, Ids
  <1>4. \A b \in Bytes \cup {0}, n \in Nat, k \in 1..7 : Tuid(b, n, k) \in Ids
    BY DEF Tuid, Ids
  <1>5. \A id \in Ids : id.n \in Nat
    BY DEF Ids
  <1> QED BY <1>1, <1>2, <1>3, <1>4, <1>5

\* What is known of roles stays known when there are more.
LEMMA MoreRoles ==
    ASSUME NEW R, NEW Q, R \subseteq Q
    PROVE  /\ Entities(R) \subseteq Entities(Q) /\ Commands(R) \subseteq Commands(Q)
           /\ Tokens(R) \subseteq Tokens(Q) /\ Requests(R) \subseteq Requests(Q)
           /\ Seq(Entities(R)) \subseteq Seq(Entities(Q))
           /\ Seq(Commands(R)) \subseteq Seq(Commands(Q))
  <1>1. Entities(R) \subseteq Entities(Q)
    BY DEF Entities, EntityMeans, PolicyMeans
  <1>2. Commands(R) \subseteq Commands(Q)
    BY <1>1 DEF Commands
  <1>3. Tokens(R) \subseteq Tokens(Q)
    BY DEF Tokens, TokenMeans
  <1>4. /\ Seq(Entities(R)) \subseteq Seq(Entities(Q))
        /\ Seq(Commands(R)) \subseteq Seq(Commands(Q))
    BY <1>1, <1>2
  <1>5. Requests(R) \subseteq Requests(Q)
    BY <1>3, <1>4 DEF Requests
  <1> QED BY <1>1, <1>2, <1>3, <1>4, <1>5

\* Entities that are neither role nor policy.
LEMMA PlainEntity ==
    ASSUME NEW R, NEW id \in Ids, NEW name \in Names, NEW schema_ref \in Ids,
           NEW kind \in {"Data", "EntityType", "Subject"}, NEW fields \in {{}, Fields}
    PROVE  /\ Entity(id, name, kind, schema_ref, fields, NoPolicy) \in Entities(R)
           /\ Entity(id, name, kind, schema_ref, fields, NoPolicy).id = id
  <1> DEFINE e == Entity(id, name, kind, schema_ref, fields, NoPolicy)
  <1>1. e \in [id : Ids, name : Names, kind : Kinds, schema_ref : Ids,
               fields : {{}, Fields}, policy : Policies]
    BY IdFacts DEF Entity, Names, Kinds
  <1>2. e.kind # "Role" /\ e.kind # "Policy" /\ e.id = id
    BY DEF Entity
  <1> HIDE DEF e
  <1>3. e \in Entities(R)
    BY <1>1, <1>2 DEF Entities, EntityMeans
  <1> QED BY <1>2, <1>3 DEF e

LEMMA RoleEntity ==
    ASSUME NEW R, NEW id \in Ids, NEW name \in Names, Role(id, name) \in R
    PROVE  Entity(id, name, "Role", NIL, {}, NoPolicy) \in Entities(R)
  <1> DEFINE e == Entity(id, name, "Role", NIL, {}, NoPolicy)
  <1>1. e \in [id : Ids, name : Names, kind : Kinds, schema_ref : Ids,
               fields : {{}, Fields}, policy : Policies]
    BY IdFacts DEF Entity, Names, Kinds
  <1>2. e.kind = "Role" /\ e.id = id /\ e.name = name
    BY DEF Entity
  <1> HIDE DEF e
  <1>3. e \in Entities(R)
    BY <1>1, <1>2 DEF Entities, EntityMeans
  <1> QED BY <1>3 DEF e

LEMMA PolicyEntity ==
    ASSUME NEW R, NEW id \in Ids, NEW p \in Policies, PolicyMeans(p, R)
    PROVE  Entity(id, "policy", "Policy", NIL, {}, p) \in Entities(R)
  <1> DEFINE e == Entity(id, "policy", "Policy", NIL, {}, p)
  <1>1. e \in [id : Ids, name : Names, kind : Kinds, schema_ref : Ids,
               fields : {{}, Fields}, policy : Policies]
    BY IdFacts DEF Entity, Names, Kinds
  <1>2. e.kind = "Policy" /\ e.policy = p
    BY DEF Entity
  <1> HIDE DEF e
  <1>3. e \in Entities(R)
    BY <1>1, <1>2 DEF Entities, EntityMeans
  <1> QED BY <1>3 DEF e

LEMMA CommandsMade ==
    ASSUME NEW R
    PROVE  /\ \A e \in Entities(R) : Insert(e) \in Commands(R)
           /\ \A id \in Ids : Delete(id) \in Commands(R)
  <1>1. \A e \in Entities(R) : e.id \in Ids
    BY DEF Entities
  <1>2. \A e \in Entities(R) : Insert(e) \in Commands(R)
    BY <1>1 DEF Insert, Commands
  <1>3. ASSUME NEW id \in Ids PROVE Delete(id) \in Commands(R)
    <2> DEFINE e == Entity(id, NoName, "Data", NIL, {}, NoPolicy)
    <2>1. NoName \in Names
      BY DEF NoName, Names
    <2>2. e \in Entities(R) /\ e.id = id
      BY <2>1, IdFacts, PlainEntity
    <2> HIDE DEF e
    <2>3. [op |-> "delete", id |-> id, entity |-> e] \in Commands(R)
      BY <2>2 DEF Commands
    <2> QED BY <2>3 DEF Delete, e
  <1> QED BY <1>2, <1>3

-----------------------------------------------------------------------------
(* The seed                                                                *)

\* A bootstrap's entities by themselves.
LEMMA SeedFacts ==
    ASSUME NEW bytes \in Placements, NEW n \in Nat
    PROVE  LET seed == bootstrap(bytes, n)
               id(k) == Tuid(bytes[k], n, k)
           IN  /\ Len(seed) = 7 /\ seed \in Seq({seed[i] : i \in 1..7})
               /\ \A k \in 1..7 : seed[k].id = id(k) /\ seed[k].id.n = n + k
               /\ SeedRoles(seed) = {Role(id(1), "admin"), Role(id(2), "analyst"),
                                     Role(id(3), "consumer")}
  <1> DEFINE seed == bootstrap(bytes, n)
             id(k) == Tuid(bytes[k], n, k)
  <1>1. Len(seed) = 7 /\ seed \in Seq({seed[i] : i \in 1..7})
    BY DEF bootstrap
  <1>2. /\ seed[1].id = id(1) /\ seed[2].id = id(2) /\ seed[3].id = id(3)
        /\ seed[4].id = id(4) /\ seed[5].id = id(5) /\ seed[6].id = id(6)
        /\ seed[7].id = id(7)
    BY DEF bootstrap, Entity
  <1>3. seed[1].name = "admin" /\ seed[2].name = "analyst" /\ seed[3].name = "consumer"
    BY DEF bootstrap, Entity
  <1>4. \A k : id(k).n = n + k
    BY DEF Tuid
  <1> HIDE DEF id, seed
  <1>5. \A k \in 1..7 : seed[k].id = id(k)
    <2> TAKE k \in 1..7
    <2>1. k = 1 \/ k = 2 \/ k = 3 \/ k = 4 \/ k = 5 \/ k = 6 \/ k = 7
      OBVIOUS
    <2> QED BY <1>2, <2>1
  <1>6. SeedRoles(seed) = {Role(id(1), "admin"), Role(id(2), "analyst"),
                           Role(id(3), "consumer")}
    <2>1. \A k : k \in 1..3 <=> k = 1 \/ k = 2 \/ k = 3
      OBVIOUS
    <2> QED BY <1>2, <1>3, <2>1 DEF SeedRoles, Role
  <1> QED BY <1>1, <1>4, <1>5, <1>6 DEF id, seed

\* They mean what they say once their roles are among those proposed.
LEMMA SeedMeans ==
    ASSUME NEW bytes \in Placements, NEW n \in Nat, NEW R,
           SeedRoles(bootstrap(bytes, n)) \subseteq R
    PROVE  /\ \A k \in 1..7 : bootstrap(bytes, n)[k] \in Entities(R)
           /\ AdminToken(bootstrap(bytes, n)) \in Tokens(R)
           /\ bootstrap(bytes, n)[1].id \in AdminToken(bootstrap(bytes, n)).subject.roles
  <1> DEFINE seed == bootstrap(bytes, n)
             id(k) == Tuid(bytes[k], n, k)
  <1>1. \A k \in 1..7 : id(k) \in Ids /\ id(k) # NIL
    <2>1. \A k \in 1..7 : id(k).n = n + k /\ n + k # 0 /\ NIL.n = 0
      BY DEF Tuid, NIL
    <2>2. \A k \in 1..7 : id(k) \in Ids
      BY IdFacts
    <2> HIDE DEF id
    <2> QED BY <2>1, <2>2
  <1>2. /\ Role(id(1), "admin") \in R /\ Role(id(2), "analyst") \in R
        /\ Role(id(3), "consumer") \in R
    BY SeedFacts
  <1> HIDE DEF id
  <1>3. /\ Entity(id(1), "admin", "Role", NIL, {}, NoPolicy) \in Entities(R)
        /\ Entity(id(2), "analyst", "Role", NIL, {}, NoPolicy) \in Entities(R)
        /\ Entity(id(3), "consumer", "Role", NIL, {}, NoPolicy) \in Entities(R)
    BY <1>1, <1>2, RoleEntity DEF Names
  <1> DEFINE p4 == Policy("permit", AnyKind, NIL, NIL, id(1), "admin", {})
             p5 == Policy("permit", "Data", NIL, NIL, NIL, NoName, {})
             p6 == Policy("permit", "EntityType", NIL, NIL, NIL, NoName, {})
  <1>4. p4 \in Policies /\ p5 \in Policies /\ p6 \in Policies
    BY <1>1, IdFacts DEF Policy, Policies, NoName, Names
  <1>5. PolicyMeans(p4, R) /\ PolicyMeans(p5, R) /\ PolicyMeans(p6, R)
    BY <1>1, <1>2 DEF Policy, PolicyMeans, NoName
  <1> HIDE DEF p4, p5, p6
  <1>6. /\ Entity(id(4), "policy", "Policy", NIL, {}, p4) \in Entities(R)
        /\ Entity(id(5), "policy", "Policy", NIL, {}, p5) \in Entities(R)
        /\ Entity(id(6), "policy", "Policy", NIL, {}, p6) \in Entities(R)
    BY <1>1, <1>4, <1>5, PolicyEntity
  <1>7. Entity(id(7), "admin", "Subject", NIL, {}, NoPolicy) \in Entities(R)
    BY <1>1, IdFacts, PlainEntity DEF Names
  <1>8. /\ seed[1] = Entity(id(1), "admin", "Role", NIL, {}, NoPolicy)
        /\ seed[2] = Entity(id(2), "analyst", "Role", NIL, {}, NoPolicy)
        /\ seed[3] = Entity(id(3), "consumer", "Role", NIL, {}, NoPolicy)
        /\ seed[4] = Entity(id(4), "policy", "Policy", NIL, {}, p4)
        /\ seed[5] = Entity(id(5), "policy", "Policy", NIL, {}, p5)
        /\ seed[6] = Entity(id(6), "policy", "Policy", NIL, {}, p6)
        /\ seed[7] = Entity(id(7), "admin", "Subject", NIL, {}, NoPolicy)
    BY DEF bootstrap, id, p4, p5, p6
  <1> HIDE DEF seed
  <1>9. \A k \in 1..7 : seed[k] \in Entities(R)
    <2> TAKE k \in 1..7
    <2>1. k = 1 \/ k = 2 \/ k = 3 \/ k = 4 \/ k = 5 \/ k = 6 \/ k = 7
      OBVIOUS
    <2> QED BY <1>3, <1>6, <1>7, <1>8, <2>1
  <1>10. seed[1].id = id(1) /\ seed[7].id = id(7)
    BY <1>8 DEF Entity
  <1> DEFINE token == [signed |-> Secret,
                       subject |-> [subject_id |-> id(7), roles |-> {id(1)}],
                       exp |-> <<>>, names |-> {"admin"}]
  <1>11. AdminToken(seed) = token
    BY <1>10 DEF AdminToken, issue, SubjectContext
  <1>12. token \in [signed : {Secret}, subject : [subject_id : Ids, roles : SUBSET Ids],
                    exp : {<<>>}, names : SUBSET Names]
    BY <1>1 DEF Names
  <1>13. TokenMeans(token, R)
    BY <1>2 DEF TokenMeans
  <1>14. id(1) \in token.subject.roles
    OBVIOUS
  <1>15. AdminToken(seed) \in Tokens(R)
    <2> HIDE DEF token
    <2> QED BY <1>11, <1>12, <1>13 DEF Tokens
  <1> QED BY <1>9, <1>10, <1>11, <1>14, <1>15 DEF seed

\* The seed's roles are new: three ids that were drawn for it, one of them
\* the administrators'.
LEMMA SeedDraws ==
    ASSUME NEW bytes \in Placements, NEW n \in Nat
    PROVE  LET seed == bootstrap(bytes, n)
           IN  /\ \A x \in SeedRoles(seed) : /\ x \in [id : Ids, name : Names]
                                            /\ x.name # NoName /\ x.id.n \in n + 1..n + 7
               /\ \A x \in SeedRoles(seed) : x.name = "admin" => x.id = seed[1].id
               /\ \A x, y \in SeedRoles(seed) : x.id = y.id => x = y
  <1> DEFINE seed == bootstrap(bytes, n)
             id(k) == Tuid(bytes[k], n, k)
  <1>1. \A k \in 1..7 : id(k) \in Ids /\ id(k).n = n + k
    BY IdFacts DEF Tuid
  <1>2. seed[1].id = id(1)
    BY DEF bootstrap, Entity
  <1>3. SeedRoles(seed) = {Role(id(1), "admin"), Role(id(2), "analyst"),
                           Role(id(3), "consumer")}
    BY SeedFacts
  <1> HIDE DEF seed, id
  <1>4. /\ id(1) \in Ids /\ id(2) \in Ids /\ id(3) \in Ids
        /\ id(1).n = n + 1 /\ id(2).n = n + 2 /\ id(3).n = n + 3
    BY <1>1
  <1>5. id(1) # id(2) /\ id(1) # id(3) /\ id(2) # id(3)
    BY <1>4
  <1>6. \A x \in SeedRoles(seed) : /\ x \in [id : Ids, name : Names]
                                  /\ x.name # NoName /\ x.id.n \in n + 1..n + 7
    BY <1>3, <1>4 DEF Role, Names, NoName
  <1>8. \A x \in SeedRoles(seed) : x.name = "admin" => x.id = seed[1].id
    BY <1>2, <1>3 DEF Role
  <1>7. \A x, y \in SeedRoles(seed) : x.id = y.id => x = y
    BY <1>3, <1>5 DEF Role
  <1> QED BY <1>6, <1>7, <1>8 DEF seed

-----------------------------------------------------------------------------
(* What a store answers                                                    *)

LEMMA EntityFacts ==
    ASSUME NEW R, NEW e \in Entities(R)
    PROVE  /\ e.id \in Ids /\ e.name \in Names /\ e.policy \in Policies
           /\ e.kind = "Role" => Role(e.id, e.name) \in R
           /\ e.kind = "Policy" => PolicyMeans(e.policy, R)
  BY DEF Entities, EntityMeans

LEMMA KeptIn ==
    ASSUME NEW S, NEW s \in Seq(S), NEW I
    PROVE  /\ Kept(s, I) \in Seq(S) /\ Len(Kept(s, I)) \in Nat
           /\ \A j \in 1..Len(Kept(s, I)) :
                 \E i \in 1..Len(s) : i \in I /\ Kept(s, I)[j] = s[i]
  <1>1. Len(s) \in Nat /\ \A i \in 1..Len(s) : s[i] \in S
    OBVIOUS
  <1>2. Kept(s, I) \in Seq(Places(s, I))
    BY <1>1, KeptIs
  <1>3. Places(s, I) \subseteq S
    BY <1>1 DEF Places
  <1> DEFINE k == Kept(s, I)
  <1> HIDE DEF k
  <1>4. k \in Seq(Places(s, I))
    BY <1>2 DEF k
  <1>5. k \in Seq(S) /\ Len(k) \in Nat /\ \A j \in 1..Len(k) : k[j] \in Places(s, I)
    BY <1>3, <1>4
  <1>6. \A j \in 1..Len(k) : \E i \in 1..Len(s) : i \in I /\ k[j] = s[i]
    BY <1>5 DEF Places
  <1> QED BY <1>5, <1>6 DEF k

LEMMA ByKind ==
    ASSUME NEW S, NEW st \in Seq(S), NEW kind
    PROVE  /\ query_by_kind(st, kind) \in Seq(S) /\ Len(query_by_kind(st, kind)) \in Nat
           /\ \A j \in 1..Len(query_by_kind(st, kind)) :
                 \E i \in 1..Len(st) : st[i].kind = kind /\ query_by_kind(st, kind)[j] = st[i]
           /\ \A i \in 1..Len(st) : st[i].kind = kind =>
                 \E j \in 1..Len(query_by_kind(st, kind)) : query_by_kind(st, kind)[j] = st[i]
  <1> DEFINE I == {i \in 1..Len(st) : st[i].kind = kind}
  <1>1. query_by_kind(st, kind) = Kept(st, I)
    BY DEF query_by_kind
  <1>2. Len(st) \in Nat
    OBVIOUS
  <1>3. \A i \in 1..Len(st) : i \in I <=> st[i].kind = kind
    OBVIOUS
  <1> HIDE DEF I
  <1>4. /\ Kept(st, I) \in Seq(S) /\ Len(Kept(st, I)) \in Nat
        /\ \A j \in 1..Len(Kept(st, I)) :
              \E i \in 1..Len(st) : i \in I /\ Kept(st, I)[j] = st[i]
    BY KeptIn
  <1>5. \A i \in 1..Len(st) : i \in I =>
           \E j \in 1..Len(Kept(st, I)) : Kept(st, I)[j] = st[i]
    BY <1>2, KeptIs
  <1> QED BY <1>1, <1>3, <1>4, <1>5

\* A name resolves to the id of a role that was proposed under it.
LEMMA RoleResolved ==
    ASSUME NEW R, NEW st \in Seq(Entities(R)), NEW name, role_id_by_name(st, name) # <<>>
    PROVE  /\ Len(role_id_by_name(st, name)) = 1
           /\ role_id_by_name(st, name)[1] \in Ids /\ name \in Names
           /\ Role(role_id_by_name(st, name)[1], name) \in R
  <1> DEFINE held == query_by_kind(st, "Role")
             I == {i \in 1..Len(held) : held[i].name = name}
             named == Kept(held, I)
  <1>1. role_id_by_name(st, name) = IF named = <<>> THEN <<>> ELSE <<named[1].id>>
    BY DEF role_id_by_name
  <1>2. \A i \in 1..Len(held) : i \in I <=> held[i].name = name
    OBVIOUS
  <1>3. /\ held \in Seq(Entities(R)) /\ Len(held) \in Nat
        /\ \A j \in 1..Len(held) : \E i \in 1..Len(st) : st[i].kind = "Role" /\ held[j] = st[i]
    BY SMTT(30), ByKind
  <1> HIDE DEF held, I
  <1>4. /\ named \in Seq(Entities(R)) /\ Len(named) \in Nat
        /\ \A j \in 1..Len(named) : \E i \in 1..Len(held) : i \in I /\ named[j] = held[i]
    BY <1>3, KeptIn
  <1> HIDE DEF named
  <1>5. named # <<>>
    BY <1>1
  <1>6. 1 \in 1..Len(named) /\ named[1] \in Entities(R)
    BY <1>4, <1>5
  <1>7. PICK i \in 1..Len(held) : i \in I /\ named[1] = held[i]
    BY <1>4, <1>6
  <1>8. named[1].name = name /\ named[1].kind = "Role"
    BY <1>2, <1>3, <1>7
  <1>9. named[1].id \in Ids /\ name \in Names /\ Role(named[1].id, name) \in R
    BY <1>6, <1>8, EntityFacts
  <1>10. role_id_by_name(st, name) = <<named[1].id>>
    BY <1>1, <1>5
  <1> QED BY <1>9, <1>10

LEMMA WrittenSound ==
    ASSUME NEW S, NEW st \in Seq(S), NEW e \in S
    PROVE  /\ Written(st, e) \in Seq(S)
           /\ Distinct(st) => Distinct(Written(st, e))
  <1>1. CASE \E i \in 1..Len(st) : st[i].id = e.id
    <2> DEFINE w == [i \in 1..Len(st) |-> IF st[i].id = e.id THEN e ELSE st[i]]
    <2>1. Written(st, e) = w
      BY <1>1 DEF Written
    <2>2. w \in Seq(S) /\ Len(w) = Len(st)
      OBVIOUS
    <2>3. \A i \in 1..Len(st) : w[i].id = st[i].id
      OBVIOUS
    <2> HIDE DEF w
    <2>4. Distinct(st) => Distinct(w)
      BY <2>2, <2>3 DEF Distinct
    <2> QED BY <2>1, <2>2, <2>4
  <1>2. CASE ~(\E i \in 1..Len(st) : st[i].id = e.id)
    <2>1. Written(st, e) = Append(st, e)
      BY <1>2 DEF Written
    <2> DEFINE w == Append(st, e)
               m == Len(st)
    <2>2. /\ w \in Seq(S) /\ Len(w) = m + 1 /\ m \in Nat /\ w[m + 1] = e
          /\ \A i \in 1..m : w[i] = st[i]
      OBVIOUS
    <2> HIDE DEF w
    <2>3. ASSUME Distinct(st) PROVE Distinct(w)
      <3> SUFFICES ASSUME NEW a \in 1..Len(w), NEW b \in 1..Len(w), w[a].id = w[b].id
                   PROVE  a = b
        BY DEF Distinct
      <3>1. (a \in 1..m \/ a = m + 1) /\ (b \in 1..m \/ b = m + 1)
        BY <2>2
      <3>2. CASE a \in 1..m /\ b \in 1..m
        BY <2>2, <2>3, <3>2 DEF Distinct
      <3>3. CASE a = m + 1 /\ b \in 1..m
        BY <1>2, <2>2, <3>3
      <3>4. CASE a \in 1..m /\ b = m + 1
        BY <1>2, <2>2, <3>4
      <3> QED BY <3>1, <3>2, <3>3, <3>4
    <2> QED BY <2>1, <2>2, <2>3 DEF w
  <1> QED BY <1>1, <1>2

LEMMA WithoutSound ==
    ASSUME NEW S, NEW st \in Seq(S), NEW id
    PROVE  /\ Without(st, id) \in Seq(S)
           /\ Distinct(st) => Distinct(Without(st, id))
  <1>1. Len(st) \in Nat
    OBVIOUS
  <1> QED BY <1>1, KeptIn, KeptDistinct DEF Without

-----------------------------------------------------------------------------
(* Steps that leave the roles alone                                        *)

LEMMA RolesStay ==
    ASSUME RolesDrawn, roles' = roles, made \in Nat, made' \in Nat, made <= made'
    PROVE  RolesDrawn'
  BY IdFacts DEF RolesDrawn

\* The admin's token is not lost from sight.
LEMMA AwaitedStays ==
    ASSUME AdminAwaited, roles' = roles, torn => torn',
           ~torn' => \A token : Granted1(token) => Granted1(token)'
    PROVE  AdminAwaited'
  <1> SUFFICES ASSUME ~torn', roles' # {}
               PROVE  \E token \in Tokens(roles'), id \in Ids :
                         /\ Granted1(token)'
                         /\ id \in token.subject.roles
                         /\ \A r \in roles' : r.name = "admin" => r.id = id
    BY DEF AdminAwaited
  <1>1. PICK token \in Tokens(roles), id \in Ids :
           /\ Granted1(token)
           /\ id \in token.subject.roles
           /\ \A r \in roles : r.name = "admin" => r.id = id
    BY DEF AdminAwaited
  <1>2. Granted1(token)'
    BY <1>1
  <1> QED BY <1>1, <1>2

LEMMA RequestFacts ==
    ASSUME GateTyped, NEW t \in Threads
    PROVE  /\ thread[t] \in Requests(roles) /\ Idle \in Requests(roles)
           /\ thread[t].todo \in Seq(Commands(roles)) /\ thread[t].tried \in Nat
           /\ thread[t].grant \in SUBSET Tokens(roles) /\ thread[t].seeds \in BOOLEAN
           /\ Serving(t) => /\ Command(t) \in Commands(roles)
                            /\ Tail(thread[t].todo) \in Seq(Commands(roles))
  <1>1. thread[t] \in Requests(roles)
    BY DEF GateTyped
  <1>2. /\ thread[t].todo \in Seq(Commands(roles)) /\ thread[t].tried \in Nat
        /\ thread[t].grant \in SUBSET Tokens(roles) /\ thread[t].seeds \in BOOLEAN
    BY <1>1 DEF Requests
  <1>3. Idle \in Requests(roles)
    BY DEF Idle, Requests
  <1> DEFINE q == thread[t].todo
  <1>4. ASSUME q # <<>> PROVE Head(q) \in Commands(roles) /\ Tail(q) \in Seq(Commands(roles))
    <2>1. q \in Seq(Commands(roles))
      BY <1>2
    <2> HIDE DEF q
    <2> QED BY <1>4, <2>1
  <1> QED BY <1>1, <1>2, <1>3, <1>4 DEF Serving, Command

LEMMA Appended ==
    ASSUME GateTyped, NEW t \in Threads, Asking(t), Append1(t)
    PROVE  log' \in [Shards -> Seq(Commands(roles))]
  <1>1. Command(t) \in Commands(roles) /\ Shard(t) \in Shards
    BY RequestFacts DEF Asking
  <1>2. log \in [Shards -> Seq(Commands(roles))]
    BY DEF GateTyped
  <1>3. Append(log[Shard(t)], Command(t)) \in Seq(Commands(roles))
    BY <1>1, <1>2
  <1>4. log' = [log EXCEPT ![Shard(t)] = Append(log[Shard(t)], Command(t))]
    BY DEF Append1
  <1> QED BY <1>1, <1>2, <1>3, <1>4

LEMMA AcceptedStep ==
    ASSUME GateInv, NEW t \in Threads, Accepted(t)
    PROVE  GateInv'
  <1> DEFINE C == Commands(roles)
             rest == Tail(thread[t].todo)
  <1>1. /\ Asking(t) /\ Serving(t) /\ Append1(t)
        /\ UNCHANGED <<store, made, roles, torn>>
    BY DEF Accepted, Asking
  <1>2. GateTyped
    BY DEF GateInv
  <1>3. log' \in [Shards -> Seq(C)]
    BY <1>1, <1>2, Appended
  <1>4. /\ thread[t] \in Requests(roles) /\ Idle \in Requests(roles)
        /\ thread[t].grant \in SUBSET Tokens(roles) /\ rest \in Seq(C)
    BY <1>1, <1>2, RequestFacts
  <1>5. CASE rest = <<>>
    <2>1. /\ thread' = [thread EXCEPT ![t] = Idle] /\ issued' = issued \cup thread[t].grant
      BY <1>5 DEF Accepted
    <2>2. GateTyped'
      BY <1>1, <1>2, <1>3, <1>4, <2>1 DEF GateTyped
    <2>3. \A token : Granted1(token) => Granted1(token)'
      <3> SUFFICES ASSUME NEW token, Granted1(token) PROVE Granted1(token)'
        OBVIOUS
      <3>1. CASE token \in issued \/ token \in thread[t].grant
        BY <2>1, <3>1 DEF Granted1
      <3>2. CASE ~(token \in issued \/ token \in thread[t].grant)
        <4>1. PICK u \in Threads : Serving(u) /\ thread[u].seeds /\ token \in thread[u].grant
          BY <3>2 DEF Granted1
        <4>2. u # t
          BY <4>1, <3>2
        <4>3. thread'[u] = thread[u]
          BY <1>2, <2>1, <4>2 DEF GateTyped
        <4> QED BY <4>1, <4>3 DEF Granted1, Serving
      <3> QED BY <3>1, <3>2
    <2> QED BY <1>1, <1>2, <2>2, <2>3, RolesStay, AwaitedStays
          DEF GateInv, IdsOnce, GateTyped
  <1>6. CASE rest # <<>>
    <2>1. /\ thread' = [thread EXCEPT ![t].todo = rest, ![t].tried = 0] /\ issued' = issued
      BY <1>6 DEF Accepted
    <2>2. /\ thread' \in [Threads -> Requests(roles)]
          /\ thread'[t].todo = rest /\ thread'[t].grant = thread[t].grant
          /\ thread'[t].seeds = thread[t].seeds
          /\ \A u \in Threads : u # t => thread'[u] = thread[u]
      <3>1. thread \in [Threads -> Requests(roles)]
        BY <1>2 DEF GateTyped
      <3> HIDE DEF rest
      <3> QED BY <1>4, <2>1, <3>1 DEF Requests
    <2>3. GateTyped'
      BY <1>1, <1>2, <1>3, <2>1, <2>2 DEF GateTyped
    <2>4. \A token : Granted1(token) => Granted1(token)'
      <3> HIDE DEF rest
      <3>1. \A u \in Threads : Serving(u) => Serving(u)'
        BY <1>6, <2>2 DEF Serving
      <3>2. \A u \in Threads : thread'[u].grant = thread[u].grant /\ thread'[u].seeds = thread[u].seeds
        BY <2>2
      <3> QED BY <2>1, <3>1, <3>2 DEF Granted1
    <2> QED BY <1>1, <1>2, <2>3, <2>4, RolesStay, AwaitedStays
          DEF GateInv, IdsOnce, GateTyped
  <1> QED BY <1>5, <1>6

\* NotLeader and TimedOut: on to the next member, appended or not.
LEMMA NextMemberStep ==
    ASSUME GateInv, NEW t \in Threads, NextMember(t), log' \in [Shards -> Seq(Commands(roles))]
    PROVE  GateInv'
  <1>1. /\ thread' = [thread EXCEPT ![t].tried = @ + 1]
        /\ UNCHANGED <<store, issued, made, roles, torn>>
    BY DEF NextMember
  <1>2. GateTyped
    BY DEF GateInv
  <1>3. thread[t] \in Requests(roles) /\ thread[t].tried \in Nat
    BY <1>2, RequestFacts
  <1>4. thread \in [Threads -> Requests(roles)]
    BY <1>2 DEF GateTyped
  <1>5. thread' \in [Threads -> Requests(roles)]
    <2> DEFINE r == [thread[t] EXCEPT !.tried = @ + 1]
    <2>1. r \in Requests(roles)
      BY <1>3 DEF Requests
    <2>2. thread' = [thread EXCEPT ![t] = r]
      BY <1>1
    <2> HIDE DEF r
    <2> QED BY <1>4, <2>1, <2>2
  <1>6. \A u \in Threads : /\ thread'[u].todo = thread[u].todo /\ thread'[u].grant = thread[u].grant
                           /\ thread'[u].seeds = thread[u].seeds
    BY <1>1, <1>3, <1>4 DEF Requests
  <1>7. GateTyped'
    BY <1>1, <1>2, <1>5 DEF GateTyped
  <1>8. \A token : Granted1(token) => Granted1(token)'
    BY <1>1, <1>6 DEF Granted1, Serving
  <1> QED BY <1>1, <1>2, <1>7, <1>8, RolesStay, AwaitedStays
        DEF GateInv, IdsOnce, GateTyped

LEMMA RefusedStep ==
    ASSUME GateInv, NEW t \in Threads, Refused(t)
    PROVE  GateInv'
  <1>1. /\ thread' = [thread EXCEPT ![t] = Idle] /\ torn' = (torn \/ thread[t].seeds)
        /\ UNCHANGED <<store, log, issued, made, roles>>
    BY DEF Refused
  <1>2. GateTyped
    BY DEF GateInv
  <1>3. Idle \in Requests(roles) /\ thread[t].seeds \in BOOLEAN
    BY <1>2, RequestFacts
  <1>4. GateTyped'
    BY <1>1, <1>2, <1>3 DEF GateTyped
  <1>5. ASSUME ~torn', NEW token, Granted1(token) PROVE Granted1(token)'
    <2>1. CASE token \in issued
      BY <1>1, <2>1 DEF Granted1
    <2>2. CASE token \notin issued
      <3>1. PICK u \in Threads : Serving(u) /\ thread[u].seeds /\ token \in thread[u].grant
        BY <1>5, <2>2 DEF Granted1
      <3>2. u # t
        BY <1>1, <1>5, <3>1
      <3>3. thread'[u] = thread[u]
        BY <1>1, <1>2, <3>2 DEF GateTyped
      <3> QED BY <3>1, <3>3 DEF Granted1, Serving
    <2> QED BY <2>1, <2>2
  <1> QED BY <1>1, <1>2, <1>4, <1>5, RolesStay, AwaitedStays
        DEF GateInv, IdsOnce, GateTyped

\* A request that begins with commands to propose.
LEMMA ProposeStep ==
    ASSUME GateInv, NEW t \in Threads, ~Serving(t), NEW commands,
           commands \in Seq(Commands(roles)), Propose(t, commands),
           made' \in Nat, made <= made'
    PROVE  GateInv'
  <1> DEFINE r == [Idle EXCEPT !.todo = commands]
  <1>1. /\ thread' = [thread EXCEPT ![t] = r]
        /\ UNCHANGED <<store, log, issued, roles, torn>>
    BY DEF Propose
  <1>2. r \in Requests(roles)
    BY DEF Idle, Requests
  <1> HIDE DEF r
  <1>3. GateTyped
    BY DEF GateInv
  <1>4. GateTyped'
    BY <1>1, <1>2, <1>3 DEF GateTyped
  <1>5. ASSUME NEW token, Granted1(token) PROVE Granted1(token)'
    <2>1. CASE token \in issued
      BY <1>1, <2>1 DEF Granted1
    <2>2. CASE token \notin issued
      <3>1. PICK u \in Threads : Serving(u) /\ thread[u].seeds /\ token \in thread[u].grant
        BY <1>5, <2>2 DEF Granted1
      <3>2. thread'[u] = thread[u]
        BY <1>1, <1>3, <3>1 DEF GateTyped
      <3> QED BY <3>1, <3>2 DEF Granted1, Serving
    <2> QED BY <2>1, <2>2
  <1> QED BY <1>1, <1>3, <1>4, <1>5, RolesStay, AwaitedStays
        DEF GateInv, IdsOnce, GateTyped

\* One store is written.
LEMMA StoreStep ==
    ASSUME GateInv, NEW s \in Shards, NEW x \in Seq(Entities(roles)), Distinct(x),
           store' = [store EXCEPT ![s] = x],
           log' \in [Shards -> Seq(Commands(roles))],
           UNCHANGED <<thread, issued, roles, torn>>, made' \in Nat, made <= made'
    PROVE  GateInv'
  <1>1. GateTyped /\ IdsOnce
    BY DEF GateInv
  <1>2. GateTyped'
    BY <1>1 DEF GateTyped
  <1>3. IdsOnce'
    <2> SUFFICES ASSUME NEW q \in Shards PROVE Distinct(store'[q])
      BY DEF IdsOnce
    <2>1. store'[q] = IF q = s THEN x ELSE store[q]
      BY <1>1 DEF GateTyped
    <2> QED BY <1>1, <2>1 DEF IdsOnce
  <1>4. \A token : Granted1(token) => Granted1(token)'
    BY DEF Granted1, Serving
  <1> QED BY <1>1, <1>2, <1>3, <1>4, RolesStay, AwaitedStays
        DEF GateInv, GateTyped

LEMMA ApplyStep ==
    ASSUME GateInv, NEW s \in Shards, Apply(s)
    PROVE  GateInv'
  <1> DEFINE c == Head(log[s])
             x == IF c.op = "insert" THEN Written(store[s], c.entity) ELSE Without(store[s], c.id)
  <1>1. /\ log[s] # <<>> /\ log' = [log EXCEPT ![s] = Tail(log[s])]
        /\ store' = [store EXCEPT ![s] = x]
        /\ UNCHANGED <<made, thread, issued, roles, torn>>
    BY DEF Apply
  <1>2. GateTyped /\ IdsOnce
    BY DEF GateInv
  <1>3. /\ log[s] \in Seq(Commands(roles)) /\ store[s] \in Seq(Entities(roles))
        /\ Distinct(store[s]) /\ log \in [Shards -> Seq(Commands(roles))] /\ made \in Nat
    BY <1>2 DEF GateTyped, IdsOnce
  <1> DEFINE q == log[s]
  <1>4. Head(q) \in Commands(roles) /\ Tail(q) \in Seq(Commands(roles))
    <2>1. q \in Seq(Commands(roles)) /\ q # <<>>
      BY <1>1, <1>3
    <2> HIDE DEF q
    <2> QED BY <2>1
  <1>5. c \in Commands(roles)
    BY <1>4
  <1> HIDE DEF c
  <1>6. c.entity \in Entities(roles)
    BY <1>5 DEF Commands
  <1>7. x \in Seq(Entities(roles)) /\ Distinct(x)
    BY <1>3, <1>6, WrittenSound, WithoutSound
  <1>8. log' \in [Shards -> Seq(Commands(roles))]
    BY <1>1, <1>3, <1>4
  <1>9. made' \in Nat /\ made <= made'
    BY <1>1, <1>3
  <1> HIDE DEF x
  <1> QED BY <1>1, <1>7, <1>8, <1>9, StoreStep

LEMMA CliStep ==
    ASSUME GateInv, NEW d \in Shards, NEW e \in Entities(roles), CliWrite(d, e)
    PROVE  GateInv'
  <1> DEFINE x == Written(store[d], e)
  <1>1. /\ store' = [store EXCEPT ![d] = x] /\ made' = made + 1
        /\ UNCHANGED <<log, thread, issued, roles, torn>>
    BY DEF CliWrite
  <1>2. /\ store[d] \in Seq(Entities(roles)) /\ Distinct(store[d]) /\ made \in Nat
        /\ log \in [Shards -> Seq(Commands(roles))]
    BY DEF GateInv, GateTyped, IdsOnce
  <1>3. x \in Seq(Entities(roles)) /\ Distinct(x)
    BY <1>2, WrittenSound
  <1>4. made' \in Nat /\ made <= made' /\ log' \in [Shards -> Seq(Commands(roles))]
    BY <1>1, <1>2
  <1> HIDE DEF x
  <1> QED BY <1>1, <1>3, <1>4, StoreStep

LEMMA ElectStep ==
    ASSUME GateInv, NEW s \in Shards, NEW m, NEW n \in 0..Len(log[s]), Elect(s, m, n)
    PROVE  GateInv'
  <1>1. /\ log' = [log EXCEPT ![s] = SubSeq(log[s], 1, n)]
        /\ torn' = (torn \/ Dropped(s, n) # {})
        /\ UNCHANGED <<store, thread, issued, made, roles>>
    BY DEF Elect
  <1>2. GateTyped
    BY DEF GateInv
  <1>3. log[s] \in Seq(Commands(roles)) /\ log \in [Shards -> Seq(Commands(roles))]
    BY <1>2 DEF GateTyped
  <1> DEFINE q == log[s]
  <1>4. SubSeq(q, 1, n) \in Seq(Commands(roles))
    <2>1. q \in Seq(Commands(roles)) /\ n \in 0..Len(q)
      BY <1>3
    <2> HIDE DEF q
    <2>2. \A i \in 1..n : q[i] \in Commands(roles)
      BY <2>1
    <2> QED BY <2>1, <2>2
  <1>5. log' \in [Shards -> Seq(Commands(roles))]
    BY <1>1, <1>3, <1>4
  <1>6. GateTyped'
    BY <1>1, <1>2, <1>5 DEF GateTyped
  <1>7. (torn => torn') /\ \A token : Granted1(token) => Granted1(token)'
    BY <1>1 DEF Granted1, Serving
  <1> QED BY <1>1, <1>2, <1>6, <1>7, RolesStay, AwaitedStays
        DEF GateInv, IdsOnce, GateTyped

\* The seed is proposed: new roles under new ids.
LEMMA SeedStep ==
    ASSUME GateInv, NEW t \in Threads, NEW bytes \in Placements, ~Serving(t), Seed(t, bytes)
    PROVE  GateInv'
  <1> DEFINE seed == bootstrap(bytes, made)
             q == [i \in 1..7 |-> Insert(seed[i])]
             token == AdminToken(seed)
             r == [todo |-> q, tried |-> 0, grant |-> {token}, seeds |-> TRUE]
  <1>1. /\ thread' = [thread EXCEPT ![t] = r] /\ made' = made + 7
        /\ roles' = roles \cup SeedRoles(seed) /\ torn' = (torn \/ roles # {})
        /\ UNCHANGED <<store, log, issued>>
    BY DEF Seed
  <1>2. GateTyped /\ RolesDrawn /\ made \in Nat
    BY DEF GateInv, GateTyped
  <1>3. /\ \A k \in 1..7 : seed[k] \in Entities(roles')
        /\ token \in Tokens(roles') /\ seed[1].id \in token.subject.roles
    <2>1. SeedRoles(seed) \subseteq roles'
      BY <1>1
    <2> QED BY <1>2, <2>1, SeedMeans
  <1>4. \A k \in 1..7 : seed[k].id = Tuid(bytes[k], made, k) /\ seed[k].id.n = made + k
                        /\ seed[k].id \in Ids
    BY <1>2, SeedFacts, IdFacts
  <1>5. /\ \A x \in SeedRoles(seed) : /\ x \in [id : Ids, name : Names] /\ x.name # NoName
                                     /\ x.id.n \in made + 1..made + 7
        /\ \A x \in SeedRoles(seed) : x.name = "admin" => x.id = seed[1].id
        /\ \A x, y \in SeedRoles(seed) : x.id = y.id => x = y
    BY <1>2, SeedDraws
  <1> HIDE DEF seed, token
  <1>6. q \in Seq(Commands(roles')) /\ q # <<>>
    <2>1. \A i \in 1..7 : Insert(seed[i]) \in Commands(roles')
      BY <1>3, CommandsMade
    <2>2. q \in Seq(Commands(roles')) /\ Len(q) = 7
      BY <2>1
    <2> HIDE DEF q
    <2> QED BY <2>2
  <1> HIDE DEF q
  <1>7. r \in Requests(roles') /\ r.todo = q /\ r.grant = {token} /\ r.seeds = TRUE
    BY <1>3, <1>6 DEF Requests
  <1> HIDE DEF r
  <1>8. GateTyped'
    <2>1. /\ Seq(Entities(roles)) \subseteq Seq(Entities(roles'))
          /\ Seq(Commands(roles)) \subseteq Seq(Commands(roles'))
          /\ Requests(roles) \subseteq Requests(roles') /\ Tokens(roles) \subseteq Tokens(roles')
      BY <1>1, MoreRoles
    <2>2. thread' \in [Threads -> Requests(roles')]
      BY <1>1, <1>2, <1>7, <2>1 DEF GateTyped
    <2>3. store' \in [Shards -> Seq(Entities(roles'))]
      BY <1>1, <1>2, <2>1 DEF GateTyped
    <2>4. log' \in [Shards -> Seq(Commands(roles'))]
      BY <1>1, <1>2, <2>1 DEF GateTyped
    <2>5. issued' \in SUBSET Tokens(roles')
      BY <1>1, <1>2, <2>1 DEF GateTyped
    <2>6. torn' \in BOOLEAN /\ made' \in Nat
      <3>1. made' = made + 7
        BY <1>1
      <3>2. torn' \in BOOLEAN
        BY <1>1
      <3> QED BY <1>2, <3>1, <3>2
    <2> QED BY <2>2, <2>3, <2>4, <2>5, <2>6 DEF GateTyped
  <1>9. RolesDrawn'
    <2> DEFINE new == SeedRoles(seed)
    <2>1. \A x \in new : /\ x \in [id : Ids, name : Names] /\ x.name # NoName
                         /\ x.id.n \in made + 1..made + 7
      BY <1>5
    <2>2. \A x, y \in new : x.id = y.id => x = y
      BY <1>5
    <2> HIDE DEF new
    <2>3. roles' = roles \cup new
      BY <1>1 DEF new
    <2>4. \A x \in roles : /\ x \in [id : Ids, name : Names] /\ x.name # NoName
                           /\ x.id.n \in 1..made
      BY <1>2 DEF RolesDrawn
    <2>5. \A x \in roles, y \in new : x.id # y.id
      <3> TAKE x \in roles, y \in new
      <3>1. x.id.n <= made /\ y.id.n > made
        BY <1>2, <2>1, <2>4
      <3> QED BY <1>2, <2>1, <2>4, <3>1
    <2>6. \A x, y \in roles' : x.id = y.id => x = y
      BY <1>2, <2>2, <2>3, <2>5 DEF RolesDrawn
    <2>7. \A x \in roles' : x \in [id : Ids, name : Names] /\ x.name # NoName /\ x.id.n \in 1..made'
      <3> SUFFICES ASSUME NEW x \in roles'
                   PROVE  x \in [id : Ids, name : Names] /\ x.name # NoName /\ x.id.n \in 1..made'
        OBVIOUS
      <3>1. CASE x \in roles
        BY <1>1, <1>2, <2>4, <3>1
      <3>2. CASE x \in new
        BY <1>1, <1>2, <2>1, <3>2
      <3> QED BY <2>3, <3>1, <3>2
    <2> QED BY <2>6, <2>7 DEF RolesDrawn
  <1>10. AdminAwaited'
    <2> SUFFICES ASSUME ~torn'
                 PROVE  \E tk \in Tokens(roles'), id \in Ids :
                           /\ Granted1(tk)'
                           /\ id \in tk.subject.roles
                           /\ \A x \in roles' : x.name = "admin" => x.id = id
      BY DEF AdminAwaited
    <2>1. roles' = SeedRoles(seed)
      BY <1>1
    <2>2. PICK a, g : a = seed[1].id /\ g = token
      OBVIOUS
    <2>3. \A x \in roles' : x.name = "admin" => x.id = a
      <3>1. \A x \in SeedRoles(seed) : x.name = "admin" => x.id = seed[1].id
        BY <1>5
      <3> QED BY <2>1, <2>2, <3>1
    <2>4. thread'[t] = r
      BY <1>1, <1>2 DEF GateTyped
    <2>5. thread'[t].todo # <<>> /\ thread'[t].seeds /\ g \in thread'[t].grant
      BY <1>6, <1>7, <2>2, <2>4
    <2>6. Granted1(g)'
      BY <2>5 DEF Granted1, Serving
    <2>7. g \in Tokens(roles') /\ a \in Ids /\ a \in g.subject.roles
      BY <1>3, <1>4, <2>2
    <2> QED BY <2>3, <2>6, <2>7
  <1> QED BY <1>1, <1>8, <1>9, <1>10 DEF GateInv, IdsOnce

-----------------------------------------------------------------------------
(* The routes                                                              *)

LEMMA KnownIds ==
    ASSUME GateTyped
    PROVE  Known \subseteq Ids /\ Types \subseteq Ids /\ Subjects \subseteq Ids
  <1>1. \A e \in InStores : e.id \in Ids
    <2> SUFFICES ASSUME NEW s \in Shards, NEW i \in 1..Len(store[s])
                 PROVE  store[s][i].id \in Ids
      BY DEF InStores
    <2>1. store[s] \in Seq(Entities(roles))
      BY DEF GateTyped
    <2>2. store[s][i] \in Entities(roles)
      BY <2>1
    <2> QED BY <2>2, EntityFacts
  <1>2. \A token \in issued : token.subject.subject_id \in Ids
    BY DEF GateTyped, Tokens
  <1> QED BY <1>1, <1>2 DEF Known, Types, Subjects

\* Roles have ids of their own, none of them NIL.
LEMMA RoleIds ==
    ASSUME RolesDrawn, made \in Nat, NEW id, NEW name, Role(id, name) \in roles
    PROVE  id \in Ids /\ id # NIL
  <1>1. /\ Role(id, name) \in [id : Ids, name : Names]
        /\ Role(id, name).id.n \in 1..made
    BY DEF RolesDrawn
  <1>2. id \in Ids /\ id.n \in 1..made
    BY <1>1 DEF Role
  <1> QED BY <1>2 DEF NIL

\* A request of one insertion or deletion.
LEMMA OneCommandStep ==
    ASSUME GateInv, NEW t \in Threads, ~Serving(t), NEW c \in Commands(roles),
           Propose(t, <<c>>), made' \in Nat, made <= made'
    PROVE  GateInv'
  <1>1. <<c>> \in Seq(Commands(roles))
    OBVIOUS
  <1> QED BY <1>1, ProposeStep

LEMMA SaveEntityStep ==
    ASSUME GateInv, NEW t \in Threads, NEW d, NEW token, save_entity(t, d, token)
    PROVE  GateInv'
  <1>1. GateTyped /\ made \in Nat
    BY DEF GateInv, GateTyped
  <1>2. PICK id \in {Tuid(b, made, 1) : b \in Bytes} \cup Known, type_id \in {NIL} \cup Types :
           /\ made' = made + IF id \in Known THEN 0 ELSE 1
           /\ Propose(t, <<Insert(Entity(id, "e", "Data", type_id, Fields, NoPolicy))>>)
    BY DEF save_entity
  <1>3. id \in Ids /\ type_id \in Ids
    BY <1>1, <1>2, KnownIds, IdFacts
  <1> DEFINE e == Entity(id, "e", "Data", type_id, Fields, NoPolicy)
  <1>4. e \in Entities(roles)
    BY <1>3, IdFacts, PlainEntity DEF Names
  <1> HIDE DEF e
  <1>5. Insert(e) \in Commands(roles)
    BY <1>4, CommandsMade
  <1>6. ~Serving(t) /\ made' \in Nat /\ made <= made' /\ Propose(t, <<Insert(e)>>)
    BY <1>1, <1>2 DEF save_entity, Begin, Begins, e
  <1> QED BY <1>5, <1>6, OneCommandStep

LEMMA DeletionStep ==
    ASSUME GateInv, NEW t \in Threads, ~Serving(t), UNCHANGED made,
           \E id \in Known : Propose(t, <<Delete(id)>>)
    PROVE  GateInv'
  <1>1. GateTyped /\ made \in Nat
    BY DEF GateInv, GateTyped
  <1>2. PICK id \in Known : Propose(t, <<Delete(id)>>)
    OBVIOUS
  <1>3. Delete(id) \in Commands(roles)
    BY <1>1, KnownIds, CommandsMade
  <1>4. made' \in Nat /\ made <= made'
    BY <1>1
  <1> QED BY <1>2, <1>3, <1>4, OneCommandStep

\* A fresh entity that is neither role nor policy: types, subjects and data.
LEMMA FreshStep ==
    ASSUME GateInv, NEW t \in Threads, ~Serving(t), made' = made + 1, NEW b \in Bytes,
           NEW name \in Names, NEW kind \in {"Data", "EntityType", "Subject"},
           NEW fields \in {{}, Fields},
           Propose(t, <<Insert(Entity(Tuid(b, made, 1), name, kind, NIL, fields, NoPolicy))>>)
    PROVE  GateInv'
  <1> DEFINE e == Entity(Tuid(b, made, 1), name, kind, NIL, fields, NoPolicy)
  <1>1. made \in Nat /\ made' \in Nat /\ made <= made'
    BY DEF GateInv, GateTyped
  <1>2. e \in Entities(roles)
    <2>1. Tuid(b, made, 1) \in Ids /\ NIL \in Ids
      BY <1>1, IdFacts
    <2> QED BY <2>1, PlainEntity
  <1> HIDE DEF e
  <1>3. Insert(e) \in Commands(roles) /\ Propose(t, <<Insert(e)>>)
    BY <1>2, CommandsMade DEF e
  <1> QED BY <1>1, <1>3, OneCommandStep

\* Policies that the requests put together.
LEMMA PolicyMade ==
    ASSUME RolesDrawn, made \in Nat, NEW p \in Templates, NEW schema_ref \in Ids,
           NEW subject_id \in Ids, NEW role_id \in Ids, NEW role_name \in Names,
           \/ role_name = NoName /\ role_id = NIL
           \/ role_name # NoName /\ Role(role_id, role_name) \in roles
    PROVE  LET x == Policy(p.effect, p.kind, schema_ref, subject_id, role_id, role_name, p.redact)
           IN  x \in Policies /\ PolicyMeans(x, roles)
  <1> DEFINE x == Policy(p.effect, p.kind, schema_ref, subject_id, role_id, role_name, p.redact)
  <1>1. x \in Policies
    <2>1. p.effect \in {"permit", "deny"}
      BY GatewayAssumption
    <2> QED BY <2>1 DEF Policy, Policies
  <1>2. role_name # NoName => role_id # NIL
    BY RoleIds
  <1>3. PolicyMeans(x, roles)
    BY <1>2 DEF Policy, PolicyMeans
  <1> QED BY <1>1, <1>3

LEMMA SavePolicyStep ==
    ASSUME GateInv, NEW t \in Threads, NEW d \in Shards, NEW token,
           save_policy(t, d, token)
    PROVE  GateInv'
  <1>1. GateTyped /\ RolesDrawn /\ made \in Nat /\ store[d] \in Seq(Entities(roles))
    BY DEF GateInv, GateTyped
  <1> DEFINE resolved(p) == IF p.role_name = NoName THEN NIL
                            ELSE role_id_by_name(store[d], p.role_name)[1]
  <1>2. PICK p \in Templates, b \in Bytes,
             target_type \in {NIL} \cup Types, subject_id \in {NIL} \cup Subjects :
           /\ p.role_name # NoName => role_id_by_name(store[d], p.role_name) # <<>>
           /\ Propose(t, <<Insert(Entity(Tuid(b, made, 1), "policy", "Policy", NIL, {},
                  Policy(p.effect, p.kind, target_type, subject_id, resolved(p), p.role_name,
                         p.redact)))>>)
    BY DEF save_policy
  <1>3. /\ resolved(p) \in Ids /\ p.role_name \in Names
        /\ \/ p.role_name = NoName /\ resolved(p) = NIL
           \/ /\ p.role_name # NoName /\ Role(resolved(p), p.role_name) \in roles
    <2>1. CASE p.role_name = NoName
      BY <2>1, IdFacts DEF Names
    <2>2. CASE p.role_name # NoName
      <3>1. /\ role_id_by_name(store[d], p.role_name)[1] \in Ids /\ p.role_name \in Names
            /\ Role(role_id_by_name(store[d], p.role_name)[1], p.role_name) \in roles
        BY <1>1, <1>2, <2>2, RoleResolved
      <3> QED BY <2>2, <3>1
    <2> QED BY <2>1, <2>2
  <1> DEFINE x == Policy(p.effect, p.kind, target_type, subject_id, resolved(p), p.role_name,
                         p.redact)
  <1>4. target_type \in Ids /\ subject_id \in Ids
    BY <1>1, KnownIds, IdFacts
  <1>5. x \in Policies /\ PolicyMeans(x, roles)
    BY <1>1, <1>3, <1>4, PolicyMade
  <1> DEFINE e == Entity(Tuid(b, made, 1), "policy", "Policy", NIL, {}, x)
  <1> HIDE DEF resolved
  <1>7. Tuid(b, made, 1) \in Ids
    BY <1>1, IdFacts
  <1> HIDE DEF x
  <1>8. e \in Entities(roles)
    BY <1>5, <1>7, PolicyEntity DEF x
  <1> HIDE DEF e
  <1>9. Insert(e) \in Commands(roles) /\ Propose(t, <<Insert(e)>>)
    BY <1>2, <1>8, CommandsMade DEF e, x
  <1>10. ~Serving(t) /\ made' \in Nat /\ made <= made'
    BY <1>1 DEF save_policy, Begin, Begins
  <1> QED BY <1>9, <1>10, OneCommandStep

LEMMA IssueStep ==
    ASSUME GateInv, NEW t \in Threads, NEW d \in Shards, NEW token, issue_token(t, d, token)
    PROVE  GateInv'
  <1>1. GateTyped /\ made \in Nat /\ store[d] \in Seq(Entities(roles))
    BY DEF GateInv, GateTyped
  <1> DEFINE resolved(name) == role_id_by_name(store[d], name)[1]
  <1>2. PICK names \in NameSets, subject_id \in {Tuid(b, made, 1) : b \in Bytes} \cup Subjects :
           /\ made' = made + IF subject_id \in Subjects THEN 0 ELSE 1
           /\ \A name \in names : role_id_by_name(store[d], name) # <<>>
           /\ issued' = issued \cup
                 {issue(Secret, SubjectContext(subject_id, {resolved(name) : name \in names}),
                        <<>>, names)}
    BY DEF issue_token
  <1>3. subject_id \in Ids
    BY <1>1, <1>2, KnownIds, IdFacts
  <1>4. \A name \in names : /\ resolved(name) \in Ids /\ name \in Names
                            /\ Role(resolved(name), name) \in roles
    BY <1>1, <1>2, RoleResolved
  <1> HIDE DEF resolved
  <1> DEFINE held == {resolved(name) : name \in names}
             new == [signed |-> Secret, subject |-> [subject_id |-> subject_id, roles |-> held],
                     exp |-> <<>>, names |-> names]
  <1>5. issued' = issued \cup {new}
    BY <1>2 DEF issue, SubjectContext
  <1>6. new \in [signed : {Secret}, subject : [subject_id : Ids, roles : SUBSET Ids],
                 exp : {<<>>}, names : SUBSET Names]
    <2>1. held \in SUBSET Ids /\ names \in SUBSET Names
      BY <1>4
    <2> HIDE DEF held
    <2> QED BY <1>3, <2>1
  <1>7. TokenMeans(new, roles)
    <2>1. new.subject.roles = held /\ new.names = names
      OBVIOUS
    <2>2. \A id \in held : \E name \in names : Role(id, name) \in roles
      BY <1>4
    <2>3. \A name \in names : \E id \in held : Role(id, name) \in roles
      BY <1>4
    <2> HIDE DEF new, held
    <2> QED BY <2>1, <2>2, <2>3 DEF TokenMeans
  <1> HIDE DEF new
  <1>8. new \in Tokens(roles)
    BY <1>6, <1>7 DEF Tokens
  <1>9. UNCHANGED <<store, log, thread, roles, torn>> /\ made' \in Nat /\ made <= made'
    BY <1>1, <1>2 DEF issue_token
  <1>10. GateTyped'
    BY <1>1, <1>5, <1>8, <1>9 DEF GateTyped
  <1>11. \A tk : Granted1(tk) => Granted1(tk)'
    BY <1>5, <1>9 DEF Granted1, Serving
  <1>12. made' \in Nat /\ made <= made'
    BY <1>1, <1>9
  <1> QED BY <1>9, <1>10, <1>11, <1>12, <1>1, RolesStay, AwaitedStays DEF GateInv, IdsOnce

LEMMA RouteStep ==
    ASSUME GateInv, NEW t \in Threads, NEW d \in Shards, NEW token,
           write_route(t, d, token)
    PROVE  GateInv'
  <1>1. CASE save_entity(t, d, token)
    BY <1>1, SaveEntityStep
  <1>2. CASE delete_entity(t, d, token)
    <2>1. ~Serving(t) /\ UNCHANGED made /\ \E id \in Known : Propose(t, <<Delete(id)>>)
      BY <1>2 DEF delete_entity, Begin, Begins
    <2> QED BY <2>1, DeletionStep
  <1>3. CASE save_type(t, d, token)
    <2>1. PICK b \in Bytes :
             Propose(t, <<Insert(Entity(Tuid(b, made, 1), "type", "EntityType", NIL, {}, NoPolicy))>>)
      BY <1>3 DEF save_type
    <2>2. ~Serving(t) /\ made' = made + 1
      BY <1>3 DEF save_type, Begin, Begins
    <2>3. "type" \in Names
      BY DEF Names
    <2> QED BY <2>1, <2>2, <2>3, FreshStep
  <1>4. CASE delete_type(t, d, token)
    <2>1. ~Serving(t) /\ UNCHANGED made /\ \E id \in Known : Propose(t, <<Delete(id)>>)
      BY <1>4 DEF delete_type, Begin, Begins
    <2> QED BY <2>1, DeletionStep
  <1>5. CASE save_subject(t, d, token)
    <2>1. PICK b \in Bytes :
             Propose(t, <<Insert(Entity(Tuid(b, made, 1), "user", "Subject", NIL, {}, NoPolicy))>>)
      BY <1>5 DEF save_subject
    <2>2. ~Serving(t) /\ made' = made + 1
      BY <1>5 DEF save_subject, Begin, Begins
    <2>3. "user" \in Names
      BY DEF Names
    <2> QED BY <2>1, <2>2, <2>3, FreshStep
  <1>6. CASE issue_token(t, d, token)
    BY <1>6, IssueStep
  <1>7. CASE save_policy(t, d, token)
    BY <1>7, SavePolicyStep
  <1>8. CASE delete_policy(t, d, token)
    <2>1. ~Serving(t) /\ UNCHANGED made /\ \E id \in Known : Propose(t, <<Delete(id)>>)
      BY <1>8 DEF delete_policy, Begin, Begins
    <2> QED BY <2>1, DeletionStep
  <1> QED BY <1>1, <1>2, <1>3, <1>4, <1>5, <1>6, <1>7, <1>8 DEF write_route

LEMMA ThreadStep ==
    ASSUME GateInv, NEW t \in Threads,
           \/ Accepted(t) \/ NotLeader(t) \/ TimedOut(t) \/ Refused(t)
           \/ \E bytes \in Placements : run_install(t, bytes)
           \/ \E d \in Shards, bytes \in Placements : setup(t, d, bytes)
           \/ run_propose(t)
    PROVE  GateInv'
  <1>1. log \in [Shards -> Seq(Commands(roles))] /\ GateTyped
    BY DEF GateInv, GateTyped
  <1>2. CASE Accepted(t)
    BY <1>2, AcceptedStep
  <1>3. CASE NotLeader(t)
    <2>1. NextMember(t) /\ log' = log
      BY <1>3 DEF NotLeader
    <2> QED BY <1>1, <2>1, NextMemberStep
  <1>4. CASE TimedOut(t)
    <2>1. NextMember(t) /\ Asking(t) /\ (Append1(t) \/ UNCHANGED log)
      BY <1>4 DEF TimedOut
    <2>2. log' \in [Shards -> Seq(Commands(roles))]
      BY <1>1, <2>1, Appended
    <2> QED BY <2>1, <2>2, NextMemberStep
  <1>5. CASE Refused(t)
    BY <1>5, RefusedStep
  <1>6. CASE \E bytes \in Placements : run_install(t, bytes)
    <2>1. PICK bytes \in Placements : ~Serving(t) /\ Seed(t, bytes)
      BY <1>6 DEF run_install, BeginSeed, Begins
    <2> QED BY <2>1, SeedStep
  <1>7. CASE \E d \in Shards, bytes \in Placements : setup(t, d, bytes)
    <2>1. PICK bytes \in Placements : ~Serving(t) /\ Seed(t, bytes)
      BY <1>7 DEF setup, BeginSeed, Begins
    <2> QED BY <2>1, SeedStep
  <1>8. CASE run_propose(t)
    <2>1. PICK b \in Bytes :
             Propose(t, <<Insert(Entity(Tuid(b, made, 1), "e", "Data", NIL, Fields, NoPolicy))>>)
      BY <1>8 DEF run_propose
    <2>2. ~Serving(t) /\ made' = made + 1
      BY <1>8 DEF run_propose, Begin, Begins
    <2>3. "e" \in Names
      BY DEF Names
    <2> QED BY <2>1, <2>2, <2>3, FreshStep
  <1> QED BY <1>2, <1>3, <1>4, <1>5, <1>6, <1>7, <1>8

\* A type found by its name is one the store holds.
LEMMA TypeFound ==
    ASSUME NEW R, NEW st \in Seq(Entities(R))
    PROVE  /\ Range(find_entity_type_by_name(st, "type")) \subseteq Ids
           /\ find_entity_type_by_name(st, "type") # <<>> =>
                 find_entity_type_by_name(st, "type")[1] \in Ids
  <1> DEFINE held == query_by_kind(st, "EntityType")
             I == {i \in 1..Len(held) : held[i].name = "type"}
             named == Kept(held, I)
             found == find_entity_type_by_name(st, "type")
  <1>1. found = IF named = <<>> THEN <<>> ELSE <<named[1].id>>
    BY DEF find_entity_type_by_name
  <1>2. held \in Seq(Entities(R))
    BY ByKind
  <1> HIDE DEF held, I
  <1>3. named \in Seq(Entities(R))
    BY <1>2, KeptIn
  <1> HIDE DEF named, found
  <1>4. CASE named = <<>>
    BY <1>1, <1>4 DEF found, Range
  <1>5. CASE named # <<>>
    <2>1. named[1] \in Entities(R)
      BY <1>3, <1>5
    <2>2. found = <<named[1].id>> /\ named[1].id \in Ids
      BY <1>1, <1>5, <2>1, EntityFacts
    <2> QED BY <2>2 DEF found, Range
  <1> QED BY <1>4, <1>5

\* What the command line writes.
LEMMA CommandLineStep ==
    ASSUME GateInv, NEW d \in Shards,
           cmd_type_create(d) \/ cmd_entity_create(d) \/ cmd_policy_create(d)
    PROVE  GateInv'
  <1>1. /\ GateTyped /\ RolesDrawn /\ made \in Nat
        /\ store[d] \in Seq(Entities(roles)) /\ Len(store[d]) \in Nat
    BY DEF GateInv, GateTyped
  <1>2. CASE cmd_type_create(d)
    <2>1. PICK b \in Bytes :
             CliWrite(d, Entity(Tuid(b, made, 1), "type", "EntityType", NIL, {}, NoPolicy))
      BY <1>2 DEF cmd_type_create
    <2>2. Tuid(b, made, 1) \in Ids /\ NIL \in Ids /\ "type" \in Names
      BY <1>1, IdFacts DEF Names
    <2>3. Entity(Tuid(b, made, 1), "type", "EntityType", NIL, {}, NoPolicy) \in Entities(roles)
      BY <2>2, PlainEntity
    <2> QED BY <2>1, <2>3, CliStep
  <1>3. CASE cmd_entity_create(d)
    <2> DEFINE schema == find_entity_type_by_name(store[d], "type")[1]
    <2>1. PICK b \in Bytes :
             CliWrite(d, Entity(Tuid(b, made, 1), "e", "Data", schema, Fields, NoPolicy))
      BY <1>3 DEF cmd_entity_create
    <2>2. schema \in Ids
      BY <1>1, <1>3, TypeFound DEF cmd_entity_create
    <2> HIDE DEF schema
    <2>3. Tuid(b, made, 1) \in Ids /\ "e" \in Names
      BY <1>1, IdFacts DEF Names
    <2>4. Entity(Tuid(b, made, 1), "e", "Data", schema, Fields, NoPolicy) \in Entities(roles)
      BY <2>2, <2>3, PlainEntity
    <2> QED BY <2>1, <2>4, CliStep
  <1>4. CASE cmd_policy_create(d)
    <2>1. PICK b \in Bytes, p \in Templates, subject_id \in {NIL} \cup Subjects,
               role_id \in {NIL} \cup {r.id : r \in roles},
               target_type \in {NIL} \cup Range(find_entity_type_by_name(store[d], "type")) :
             /\ IF p.role_name = NoName THEN role_id = NIL
                ELSE [id |-> role_id, name |-> p.role_name] \in roles
             /\ CliWrite(d, Entity(Tuid(b, made, 1), "policy", "Policy", NIL, {},
                    Policy(p.effect, p.kind, target_type, subject_id, role_id, p.role_name,
                           p.redact)))
      BY <1>4 DEF cmd_policy_create
    <2> DEFINE x == Policy(p.effect, p.kind, target_type, subject_id, role_id, p.role_name,
                           p.redact)
    <2>2. subject_id \in Ids /\ target_type \in Ids
      BY <1>1, KnownIds, TypeFound, IdFacts
    <2>3. /\ role_id \in Ids /\ p.role_name \in Names
          /\ \/ p.role_name = NoName /\ role_id = NIL
             \/ p.role_name # NoName /\ Role(role_id, p.role_name) \in roles
      <3>1. CASE p.role_name = NoName
        BY <2>1, <3>1, IdFacts DEF Names
      <3>2. CASE p.role_name # NoName
        <4>1. Role(role_id, p.role_name) \in roles
          BY <2>1, <3>2 DEF Role
        <4>2. Role(role_id, p.role_name) \in [id : Ids, name : Names]
          BY <1>1, <4>1 DEF RolesDrawn
        <4> QED BY <3>2, <4>1, <4>2 DEF Role
      <3> QED BY <3>1, <3>2
    <2>4. x \in Policies /\ PolicyMeans(x, roles)
      BY <1>1, <2>2, <2>3, PolicyMade
    <2>5. Tuid(b, made, 1) \in Ids
      BY <1>1, IdFacts
    <2> HIDE DEF x
    <2>6. Entity(Tuid(b, made, 1), "policy", "Policy", NIL, {}, x) \in Entities(roles)
      BY <2>4, <2>5, PolicyEntity
    <2> QED BY <2>1, <2>6, CliStep DEF x
  <1> QED BY <1>2, <1>3, <1>4

LEMMA Untouched ==
    ASSUME GateInv, UNCHANGED <<store, log, thread, issued, made, roles, torn>>
    PROVE  GateInv'
  <1>1. GateTyped'
    BY DEF GateInv, GateTyped
  <1>2. RolesDrawn' /\ IdsOnce'
    BY DEF GateInv, RolesDrawn, IdsOnce
  <1>3. \A token : Granted1(token)' <=> Granted1(token)
    BY DEF Granted1, Serving
  <1>4. AdminAwaited'
    BY <1>3 DEF GateInv, AdminAwaited
  <1> QED BY <1>1, <1>2, <1>4 DEF GateInv

LEMMA GateStep ==
    ASSUME GateInv, [Next]_vars
    PROVE  GateInv'
  <1>1. CASE \E t \in Threads, d \in Shards : \E token \in issued : write_route(t, d, token)
    BY <1>1, RouteStep
  <1>2. CASE \E t \in Threads :
                \/ Accepted(t) \/ NotLeader(t) \/ TimedOut(t) \/ Refused(t)
                \/ \E bytes \in Placements : run_install(t, bytes)
                \/ \E d \in Shards, bytes \in Placements : setup(t, d, bytes)
                \/ run_propose(t)
    BY <1>2, ThreadStep
  <1>3. CASE \E s \in Shards : Apply(s)
    BY <1>3, ApplyStep
  <1>4. CASE \E s \in Shards : Stop(s) \/ Serve(s)
    <2>1. UNCHANGED <<store, log, thread, issued, made, roles, torn>>
      BY <1>4 DEF Stop, Serve
    <2> QED BY <2>1, Untouched
  <1>5. CASE \E s \in Shards : \E i \in 1..Len(members(s)), n \in 0..Len(log[s]) :
                Elect(s, members(s)[i], n)
    BY <1>5, ElectStep
  <1>6. CASE \E s \in Shards : cmd_type_create(s) \/ cmd_entity_create(s) \/ cmd_policy_create(s)
    BY <1>6, CommandLineStep
  <1>7. CASE UNCHANGED vars
    <2>1. UNCHANGED <<store, log, thread, issued, made, roles, torn>>
      BY <1>7 DEF vars
    <2> QED BY <2>1, Untouched
  <1> QED BY <1>1, <1>2, <1>3, <1>4, <1>5, <1>6, <1>7 DEF Next

\* At the start nothing is under way.
LEMMA QuietStart ==
    ASSUME Init
    PROVE  /\ log \in [Shards -> Seq(Commands(roles))]
           /\ thread \in [Threads -> Requests(roles)] /\ torn \in BOOLEAN
  <1>1. /\ log = [s \in Shards |-> <<>>] /\ thread = [t \in Threads |-> Idle]
        /\ torn = FALSE
    BY DEF Init
  <1>2. Idle \in Requests(roles)
    BY DEF Idle, Requests
  <1>3. <<>> \in Seq(Commands(roles))
    OBVIOUS
  <1>4. log \in [Shards -> Seq(Commands(roles))]
    BY <1>1, <1>3
  <1>5. thread \in [Threads -> Requests(roles)]
    BY <1>1, <1>2
  <1> QED BY <1>1, <1>4, <1>5

\* A cluster at its first start.
LEMMA EmptyStart ==
    ASSUME Init, store = [s \in Shards |-> <<>>], issued = {}, made = 0, roles = {}
    PROVE  GateInv
  <1>1. store \in [Shards -> Seq(Entities(roles))]
    OBVIOUS
  <1>2. GateTyped
    BY <1>1, QuietStart DEF GateTyped
  <1>3. RolesDrawn /\ AdminAwaited
    BY DEF RolesDrawn, AdminAwaited
  <1>4. IdsOnce
    BY DEF IdsOnce, Distinct
  <1> QED BY <1>2, <1>3, <1>4 DEF GateInv

\* One element more.
LEMMA OneMore ==
    ASSUME NEW S, NEW q \in Seq(S), NEW x \in S
    PROVE  /\ Append(q, x) \in Seq(S) /\ Len(Append(q, x)) = Len(q) + 1
           /\ Append(q, x)[Len(q) + 1] = x /\ \A i \in 1..Len(q) : Append(q, x)[i] = q[i]
  OBVIOUS

\* What a cluster that was set up holds: the seed, a type and a
\* datum of that type.
Holdings(bytes) ==
    LET type == Entity(Tuid(0, 7, 1), "type", "EntityType", NIL, {}, NoPolicy)
        datum == Entity(Tuid(0, 8, 1), "e", "Data", type.id, Fields, NoPolicy)
    IN  Append(Append(bootstrap(bytes, 0), type), datum)

LEMMA HoldingsSound ==
    ASSUME NEW bytes \in Placements, NEW R, SeedRoles(bootstrap(bytes, 0)) \subseteq R
    PROVE  Holdings(bytes) \in Seq(Entities(R)) /\ Distinct(Holdings(bytes))
  <1> DEFINE seed == bootstrap(bytes, 0)
             type == Entity(Tuid(0, 7, 1), "type", "EntityType", NIL, {}, NoPolicy)
             datum == Entity(Tuid(0, 8, 1), "e", "Data", type.id, Fields, NoPolicy)
             first == Append(seed, type)
             all == Append(first, datum)
  <1>1. \A k \in 1..7 : seed[k] \in Entities(R)
    BY SeedMeans
  <1>2. Len(seed) = 7 /\ seed \in Seq({seed[i] : i \in 1..7}) /\ \A k \in 1..7 : seed[k].id.n = k
    <2>1. PICK n \in Nat : n = 0
      OBVIOUS
    <2>2. LET held == bootstrap(bytes, n)
          IN  /\ Len(held) = 7 /\ held \in Seq({held[i] : i \in 1..7})
              /\ \A k \in 1..7 : held[k].id.n = n + k
      BY SeedFacts
    <2> HIDE DEF seed
    <2>3. seed = bootstrap(bytes, n)
      BY <2>1 DEF seed
    <2>4. /\ Len(seed) = 7 /\ seed \in Seq({seed[i] : i \in 1..7})
          /\ \A k \in 1..7 : seed[k].id.n = n + k
      BY <2>2, <2>3
    <2>5. \A k \in 1..7 : n + k = k
      BY <2>1
    <2> QED BY <2>4, <2>5
  <1>3. type \in Entities(R) /\ type.id = Tuid(0, 7, 1)
    <2>1. Tuid(0, 7, 1) \in Ids /\ NIL \in Ids /\ "type" \in Names
      <3>1. 0 \in Bytes \cup {0} /\ 7 \in Nat /\ 1 \in 1..7
        OBVIOUS
      <3> QED BY <3>1, IdFacts DEF Names
    <2> QED BY <2>1, PlainEntity
  <1> HIDE DEF type
  <1>4. datum \in Entities(R) /\ datum.id = Tuid(0, 8, 1)
    <2>1. Tuid(0, 8, 1) \in Ids /\ "e" \in Names
      <3>1. 0 \in Bytes \cup {0} /\ 8 \in Nat /\ 1 \in 1..7
        OBVIOUS
      <3> QED BY <3>1, IdFacts DEF Names
    <2>2. type.id \in Ids
      BY <1>3, EntityFacts
    <2> QED BY <2>1, <2>2, PlainEntity
  <1>5. type.id.n = 8 /\ datum.id.n = 9
    BY <1>3, <1>4 DEF Tuid
  <1> HIDE DEF datum, seed
  <1>6. seed \in Seq(Entities(R))
    <2>1. {seed[i] : i \in 1..7} \subseteq Entities(R)
      BY <1>1
    <2> QED BY <1>2, <2>1
  <1>7. /\ first \in Seq(Entities(R)) /\ Len(first) = 8 /\ first[8] = type
        /\ \A i \in 1..7 : first[i] = seed[i]
    <2>1. /\ first \in Seq(Entities(R)) /\ Len(first) = Len(seed) + 1
          /\ first[Len(seed) + 1] = type /\ \A i \in 1..Len(seed) : first[i] = seed[i]
      BY <1>3, <1>6, OneMore
    <2> HIDE DEF first
    <2>2. Len(seed) = 7 /\ 7 + 1 = 8
      BY <1>2
    <2> QED BY <2>1, <2>2
  <1> HIDE DEF first
  <1>8. /\ all \in Seq(Entities(R)) /\ Len(all) = 9 /\ all[9] = datum
        /\ \A i \in 1..8 : all[i] = first[i]
    <2>1. first \in Seq(Entities(R)) /\ datum \in Entities(R)
      BY <1>4, <1>7
    <2>2. /\ all \in Seq(Entities(R)) /\ Len(all) = Len(first) + 1
          /\ all[Len(first) + 1] = datum /\ \A i \in 1..Len(first) : all[i] = first[i]
      BY <2>1, OneMore
    <2> HIDE DEF all
    <2>3. Len(first) = 8 /\ 8 + 1 = 9
      BY <1>7
    <2> QED BY <2>2, <2>3
  <1> HIDE DEF all
  <1>9. \A i \in 1..9 : all[i].id.n = i
    <2> TAKE i \in 1..9
    <2>1. i = 9 \/ i = 8 \/ i \in 1..7
      OBVIOUS
    <2>2. CASE i = 9
      BY <1>5, <1>8, <2>2
    <2>3. CASE i = 8
      BY <1>5, <1>7, <1>8, <2>3
    <2>4. CASE i \in 1..7
      <3>1. all[i] = seed[i]
        BY <1>7, <1>8, <2>4
      <3> QED BY <1>2, <2>4, <3>1
    <2> QED BY <2>1, <2>2, <2>3, <2>4
  <1>10. Distinct(all)
    BY <1>8, <1>9 DEF Distinct
  <1> QED BY <1>8, <1>10 DEF Holdings, all, first, type, datum, seed

\* A cluster that was set up before, each entity on its shard.
Placed(bytes) ==
    LET all == Holdings(bytes)
    IN  [s \in Shards |-> Kept(all, {i \in 1..Len(all) : shard_of(all[i].id) = s})]

LEMMA PlacedSound ==
    ASSUME NEW bytes \in Placements, NEW R, SeedRoles(bootstrap(bytes, 0)) \subseteq R
    PROVE  /\ Placed(bytes) \in [Shards -> Seq(Entities(R))]
           /\ \A s \in Shards : Distinct(Placed(bytes)[s])
  <1> DEFINE all == Holdings(bytes)
             at(s) == {i \in 1..Len(all) : shard_of(all[i].id) = s}
             held(s) == Kept(all, at(s))
  <1>1. all \in Seq(Entities(R)) /\ Distinct(all)
    BY HoldingsSound
  <1>2. Placed(bytes) = [s \in Shards |-> held(s)]
    BY DEF Placed
  <1> HIDE DEF all, at
  <1>3. Len(all) \in Nat
    BY <1>1
  <1>4. \A s : held(s) \in Seq(Entities(R)) /\ Distinct(held(s))
    BY <1>1, <1>3, KeptIn, KeptDistinct
  <1> HIDE DEF held
  <1> QED BY <1>2, <1>4

LEMMA SeededStart ==
    ASSUME NEW bytes \in Placements, Init, issued = {AdminToken(bootstrap(bytes, 0))}, made = 9,
           roles = SeedRoles(bootstrap(bytes, 0)), store = Placed(bytes)
    PROVE  GateInv
  <1> DEFINE seed == bootstrap(bytes, 0)
  <1>1. /\ \A k \in 1..7 : seed[k] \in Entities(roles)
        /\ AdminToken(seed) \in Tokens(roles)
        /\ seed[1].id \in AdminToken(seed).subject.roles
    BY SeedMeans
  <1>2. /\ \A x \in SeedRoles(seed) : /\ x \in [id : Ids, name : Names] /\ x.name # NoName
                                     /\ x.id.n \in 0 + 1..0 + 7
        /\ \A x \in SeedRoles(seed) : x.name = "admin" => x.id = seed[1].id
        /\ \A x, y \in SeedRoles(seed) : x.id = y.id => x = y
    BY SeedDraws
  <1>3. seed[1].id \in Ids
    BY <1>1, EntityFacts
  <1>4. /\ store \in [Shards -> Seq(Entities(roles))]
        /\ \A s \in Shards : Distinct(store[s])
    BY PlacedSound
  <1>5. issued = {AdminToken(seed)} /\ roles = SeedRoles(seed)
    OBVIOUS
  <1> HIDE DEF seed
  <1>6. GateTyped
    BY <1>1, <1>4, <1>5, QuietStart DEF GateTyped
  <1>7. RolesDrawn
    <2>1. \A x \in roles : x.id.n \in 1..made
      BY <1>2, <1>5
    <2> QED BY <1>2, <1>5, <2>1 DEF RolesDrawn
  <1>8. AdminAwaited
    <2>1. Granted1(AdminToken(seed))
      BY <1>5 DEF Granted1
    <2> QED BY <1>1, <1>2, <1>3, <1>5, <2>1 DEF AdminAwaited
  <1> QED BY <1>4, <1>6, <1>7, <1>8 DEF GateInv, IdsOnce

\* The invariant: what stores, logs, requests and tokens hold means what the
\* requests said, over lost and repeated proposals, elections that drop
\* accepted ones, stops and restarts, for any shard map, threads and bounds.
THEOREM NamesResolved == Spec => []GateInv
  <1>1. Init => GateInv
    <2> SUFFICES ASSUME Init PROVE GateInv
      OBVIOUS
    <2>1. CASE store = [s \in Shards |-> <<>>] /\ issued = {} /\ made = 0 /\ roles = {}
      BY <2>1, EmptyStart
    <2>2. CASE ~(store = [s \in Shards |-> <<>>] /\ issued = {} /\ made = 0 /\ roles = {})
      <3>1. PICK bytes \in Placements :
               /\ issued = {AdminToken(bootstrap(bytes, 0))} /\ made = 9
               /\ roles = SeedRoles(bootstrap(bytes, 0)) /\ store = Placed(bytes)
        BY <2>2 DEF Init, Placed, Holdings
      <3> QED BY <3>1, SeededStart
    <2> QED BY <2>1, <2>2
  <1>2. GateInv /\ [Next]_vars => GateInv'
    BY GateStep
  <1> QED BY <1>1, <1>2, PTL DEF Spec

\* After a bootstrap somebody can administer the system (ShardedClient::
\* propose, setup, run_install, require_role): once all is applied, a shard
\* with a role named admin has an issued token that passes there, unless the
\* bootstrap was torn.
THEOREM Administrable == Spec => []SomeoneAdministers
  <1>1. GateInv => SomeoneAdministers
    <2> SUFFICES ASSUME GateInv, Quiet, ~torn, NEW s \in Shards,
                        role_id_by_name(store[s], "admin") # <<>>
                 PROVE  \E token \in issued : require_role(token.subject, store[s], {"admin"})
      BY DEF SomeoneAdministers
    <2> DEFINE found == role_id_by_name(store[s], "admin")
    <2>1. store[s] \in Seq(Entities(roles))
      BY DEF GateInv, GateTyped
    <2>2. Len(found) = 1 /\ Role(found[1], "admin") \in roles
      BY <2>1, RoleResolved
    <2> HIDE DEF found
    <2>3. PICK token \in Tokens(roles), id \in Ids :
             /\ Granted1(token)
             /\ id \in token.subject.roles
             /\ \A r \in roles : r.name = "admin" => r.id = id
      BY <2>2 DEF GateInv, AdminAwaited
    <2>4. token \in issued
      BY <2>3 DEF Granted1, Quiet
    <2>5. found[1] = id
      <3>1. Role(found[1], "admin").name = "admin" /\ Role(found[1], "admin").id = found[1]
        BY DEF Role
      <3> QED BY <2>2, <2>3, <3>1
    <2>6. 1 \in 1..Len(found) /\ found[1] \in token.subject.roles
      BY <2>2, <2>3, <2>5
    <2>7. require_role(token.subject, store[s], {"admin"})
      BY <2>6 DEF require_role, found
    <2> QED BY <2>4, <2>7
  <1> QED BY <1>1, NamesResolved, PTL

-----------------------------------------------------------------------------
(* What enforced reads show                                                *)

Held(st) == {st[i].policy : i \in {j \in 1..Len(st) : st[j].kind = "Policy"}}

\* load_policies reads the bodies of the entities of that kind.
LEMMA PoliciesLoaded ==
    ASSUME NEW S, NEW st \in Seq(S)
    PROVE  /\ Len(load_policies(st)) \in Nat
           /\ {load_policies(st)[i] : i \in 1..Len(load_policies(st))} = Held(st)
  <1> DEFINE found == query_by_kind(st, "Policy")
             loaded == [i \in 1..Len(found) |-> found[i].policy]
  <1>1. /\ Len(found) \in Nat
        /\ \A j \in 1..Len(found) : \E i \in 1..Len(st) : st[i].kind = "Policy" /\ found[j] = st[i]
        /\ \A i \in 1..Len(st) : st[i].kind = "Policy" => \E j \in 1..Len(found) : found[j] = st[i]
    BY ByKind
  <1>2. load_policies(st) = loaded
    BY DEF load_policies
  <1> HIDE DEF found
  <1>3. Len(loaded) = Len(found) /\ \A i \in 1..Len(found) : loaded[i] = found[i].policy
    BY <1>1
  <1> HIDE DEF loaded
  <1>4. \A p : (\E i \in 1..Len(loaded) : p = loaded[i]) <=> p \in Held(st)
    <2> TAKE p
    <2>1. ASSUME NEW i \in 1..Len(loaded), p = loaded[i] PROVE p \in Held(st)
      <3>1. i \in 1..Len(found) /\ p = found[i].policy
        BY <1>3, <2>1
      <3>2. PICK k \in 1..Len(st) : st[k].kind = "Policy" /\ found[i] = st[k]
        BY <1>1, <3>1
      <3> QED BY <3>1, <3>2 DEF Held
    <2>2. ASSUME p \in Held(st) PROVE \E i \in 1..Len(loaded) : p = loaded[i]
      <3>1. PICK k \in 1..Len(st) : st[k].kind = "Policy" /\ p = st[k].policy
        BY <2>2 DEF Held
      <3>2. PICK i \in 1..Len(found) : found[i] = st[k]
        BY <1>1, <3>1
      <3> QED BY <1>3, <3>1, <3>2
    <2> QED BY <2>1, <2>2
  <1>5. {loaded[i] : i \in 1..Len(loaded)} = Held(st)
    BY <1>4
  <1> QED BY <1>1, <1>2, <1>3, <1>5

\* While names are unambiguous, a policy's role id is among a token's ids
\* exactly when its name is among the token's names; subjects and types are
\* compared by id on both sides.
LEMMA IdsMeanNames ==
    ASSUME RolesDrawn, Unambiguous, NEW token \in Tokens(roles), NEW p \in Policies,
           PolicyMeans(p, roles), NEW e
    PROVE  applies(p, token.subject, e.kind, e.schema_ref) <=> Covers(p, token, e)
  <1>1. TargetMatches(p, e.kind, e.schema_ref) <=>
           /\ p.entity_kind \in {AnyKind, e.kind} /\ p.schema_ref \in {NIL, e.schema_ref}
    BY DEF TargetMatches
  <1>2. TokenMeans(token, roles)
    BY DEF Tokens
  <1> DEFINE Named == p.subject_id # NIL /\ p.subject_id = token.subject.subject_id
  <1>3. p.role_name = NoName <=> p.role_id = NIL
    BY DEF PolicyMeans
  <1>4. ASSUME p.role_name # NoName
        PROVE  p.role_id \in token.subject.roles <=> p.role_name \in token.names
    <2>1. Role(p.role_id, p.role_name) \in roles
      BY <1>4 DEF PolicyMeans
    <2>2. ASSUME p.role_id \in token.subject.roles PROVE p.role_name \in token.names
      <3>1. PICK name \in token.names : Role(p.role_id, name) \in roles
        BY <1>2, <2>2 DEF TokenMeans
      <3>2. Role(p.role_id, name) = Role(p.role_id, p.role_name)
        BY <2>1, <3>1 DEF RolesDrawn, Role
      <3>3. name = p.role_name
        BY <3>2 DEF Role
      <3> QED BY <3>1, <3>3
    <2>3. ASSUME p.role_name \in token.names PROVE p.role_id \in token.subject.roles
      <3>1. PICK id \in token.subject.roles : Role(id, p.role_name) \in roles
        BY <1>2, <2>3 DEF TokenMeans
      <3>2. Role(id, p.role_name) = Role(p.role_id, p.role_name)
        BY <2>1, <3>1 DEF Unambiguous, Role
      <3>3. id = p.role_id
        BY <3>2 DEF Role
      <3> QED BY <3>1, <3>3
    <2> QED BY <2>2, <2>3
  <1>5. SubjectMatches(p, token.subject) <=>
           \/ p.subject_id = NIL /\ p.role_name = NoName
           \/ Named
           \/ p.role_name # NoName /\ p.role_name \in token.names
    BY <1>3, <1>4 DEF SubjectMatches
  <1> QED BY <1>1, <1>5 DEF applies, Covers

\* The decision over ids is the meaning over names.
LEMMA Decides ==
    ASSUME GateInv, Unambiguous, NEW s \in Shards, NEW token \in issued, NEW e
    PROVE  evaluate(load_policies(store[s]), token.subject, e.kind, e.schema_ref)
             = IF Visible(store[s], token, e) THEN <<Redacted(store[s], token, e)>> ELSE <<>>
  <1> DEFINE st == store[s]
             loaded == load_policies(st)
             About == {p \in Held(st) : Covers(p, token, e)}
             Applicable == {loaded[i] : i \in {j \in 1..Len(loaded) :
                               applies(loaded[j], token.subject, e.kind, e.schema_ref)}}
  <1>1. st \in Seq(Entities(roles)) /\ token \in Tokens(roles) /\ RolesDrawn
    BY DEF GateInv, GateTyped
  <1>2. \A p \in Held(st) : p \in Policies /\ PolicyMeans(p, roles)
    <2> SUFFICES ASSUME NEW i \in 1..Len(st), st[i].kind = "Policy"
                 PROVE  st[i].policy \in Policies /\ PolicyMeans(st[i].policy, roles)
      BY DEF Held
    <2>1. st[i] \in Entities(roles)
      BY <1>1
    <2> QED BY <2>1, EntityFacts
  <1>3. \A p \in Held(st) :
           applies(p, token.subject, e.kind, e.schema_ref) <=> Covers(p, token, e)
    BY <1>1, <1>2, IdsMeanNames
  <1>4. {loaded[i] : i \in 1..Len(loaded)} = Held(st)
    BY <1>1, PoliciesLoaded
  <1>5. \A p \in About : p.effect \in {"permit", "deny"}
    BY <1>2 DEF Policies
  <1>6. /\ Visible(st, token, e) <=> /\ \E p \in About : p.effect = "permit"
                                    /\ \A p \in About : p.effect # "deny"
        /\ Redacted(st, token, e) = UNION {p.redact_attributes : p \in About}
    BY DEF Visible, Redacted, Held
  <1>7. evaluate(loaded, token.subject, e.kind, e.schema_ref)
          = IF Applicable = {} \/ \E p \in Applicable : p.effect = "deny" THEN <<>>
            ELSE <<UNION {p.redact_attributes : p \in Applicable}>>
    BY DEF evaluate
  <1>8. Applicable = About
    <2> HIDE DEF loaded, st
    <2> QED BY <1>3, <1>4
  <1> HIDE DEF About, Applicable, loaded, st
  <1>9. (About = {} \/ \E p \in About : p.effect = "deny") <=> ~Visible(st, token, e)
    BY <1>5, <1>6
  <1>10. evaluate(loaded, token.subject, e.kind, e.schema_ref)
           = IF Visible(st, token, e) THEN <<Redacted(st, token, e)>> ELSE <<>>
    BY <1>6, <1>7, <1>8, <1>9
  <1> QED BY <1>10 DEF loaded, st

\* An answer is as long as the limit and the store allow.
LEMMA QueryLen ==
    ASSUME NEW st, Len(st) \in Nat, NEW limit \in Int
    PROVE  Len(query(st, limit)) \in Nat
  <1> DEFINE before(i) == Cardinality({j \in 1..Len(st) : TuidBefore(st[j].id, st[i].id)})
             at(k) == st[CHOOSE i \in 1..Len(st) : before(i) = k - 1]
             n == Len(st)
             S == {at(k) : k \in 1..n}
             sorted == [k \in 1..n |-> at(k)]
             m == IF limit < n THEN limit ELSE n
  <1>1. query(st, limit) = SubSeq(sorted, 1, m)
    BY DEF query
  <1> HIDE DEF at
  <1>2. m \in Int /\ n \in Nat /\ m <= n
    OBVIOUS
  <1>3. \A k \in 1..n : sorted[k] \in S
    OBVIOUS
  <1> HIDE DEF sorted, S, m, n
  <1>4. \A k \in 1..m : sorted[k] \in S
    BY <1>2, <1>3
  <1>5. Len(SubSeq(sorted, 1, m)) = IF 1 <= m THEN m - 1 + 1 ELSE 0
    BY <1>2, <1>4, SubSeqProperties
  <1> QED BY <1>1, <1>2, <1>5

LEMMA KeptNone ==
    ASSUME NEW s, Len(s) \in Nat
    PROVE  Kept(s, {}) = <<>>
  <1>1. Kept(s, {}) \in Seq(Places(s, {}))
    BY KeptIs
  <1>2. Places(s, {}) = {}
    BY DEF Places
  <1> DEFINE k == Kept(s, {})
  <1> HIDE DEF k
  <1>3. k \in Seq({})
    BY <1>1, <1>2 DEF k
  <1>4. Len(k) = 0
    <2>1. Len(k) # 0 => k[1] \in {}
      BY <1>3
    <2> QED BY <2>1, <1>3
  <1>5. k = <<>>
    BY <1>3, <1>4
  <1> QED BY <1>5 DEF k

\* enforce shows what the requests' names say.
LEMMA EnforceShows ==
    ASSUME GateInv, Unambiguous, NEW s \in Shards, NEW token \in issued,
           NEW entities, Len(entities) \in Nat
    PROVE  enforce(load_policies(store[s]), token.subject, entities)
             = AllShown(store[s], token, entities)
  <1> DEFINE st == store[s]
             loaded == load_policies(st)
             subject == token.subject
             decision(e) == evaluate(loaded, subject, e.kind, e.schema_ref)
             I == {i \in 1..Len(entities) : decision(entities[i]) # <<>>}
             J == {i \in 1..Len(entities) : Visible(st, token, entities[i])}
             shown == Kept(entities, I)
             seen == Kept(entities, J)
  <1>1. enforce(loaded, subject, entities)
          = [i \in 1..Len(shown) |-> [shown[i] EXCEPT !.fields = @ \ decision(shown[i])[1]]]
    BY DEF enforce
  <1>2. AllShown(st, token, entities) = [i \in 1..Len(seen) |-> Trimmed(st, token, seen[i])]
    BY DEF AllShown
  <1>3. \A e : decision(e) = IF Visible(st, token, e) THEN <<Redacted(st, token, e)>> ELSE <<>>
    BY Decides
  <1> HIDE DEF decision, st
  <1>4. I = J
    BY <1>3
  <1>5. seen \in Seq(Places(entities, J))
    BY KeptIs
  <1>6. \A e \in Places(entities, J) : Visible(st, token, e)
    BY DEF Places
  <1> HIDE DEF I, J
  <1>7. shown = seen
    BY <1>4
  <1> HIDE DEF shown, seen
  <1>8. \A i \in 1..Len(seen) :
           [seen[i] EXCEPT !.fields = @ \ decision(seen[i])[1]] = Trimmed(st, token, seen[i])
    <2> TAKE i \in 1..Len(seen)
    <2>1. Visible(st, token, seen[i])
      BY <1>5, <1>6
    <2>2. decision(seen[i])[1] = Redacted(st, token, seen[i])
      BY <1>3, <2>1
    <2> QED BY <2>2 DEF Trimmed
  <1>9. enforce(loaded, subject, entities) = AllShown(st, token, entities)
    BY <1>1, <1>2, <1>7, <1>8
  <1> QED BY <1>9 DEF st

LEMMA AllOfOne ==
    ASSUME NEW st, NEW token, NEW e
    PROVE  AllShown(st, token, <<e>>) = OneShown(st, token, e)
  <1> DEFINE one == <<e>>
             J == {i \in 1..Len(one) : Visible(st, token, one[i])}
             seen == Kept(one, J)
  <1>1. AllShown(st, token, one) = [i \in 1..Len(seen) |-> Trimmed(st, token, seen[i])]
    BY DEF AllShown
  <1>2. Len(one) = 1 /\ one[1] = e /\ 1 \in 1..Len(one)
    OBVIOUS
  <1>3. CASE Visible(st, token, e)
    <2>1. J = {1}
      BY <1>2, <1>3
    <2>2. seen = <<e>>
      <3> HIDE DEF one
      <3>1. Kept(one, {1}) = <<one[1]>>
        BY <1>2, KeptOne
      <3> QED BY <1>2, <2>1, <3>1
    <2> HIDE DEF seen, one
    <2>3. [i \in 1..Len(seen) |-> Trimmed(st, token, seen[i])] = <<Trimmed(st, token, e)>>
      BY <2>2
    <2> QED BY <1>1, <1>3, <2>3 DEF OneShown, one
  <1>4. CASE ~Visible(st, token, e)
    <2>1. J = {}
      BY <1>2, <1>4
    <2>2. seen = <<>>
      <3> HIDE DEF one
      <3>1. Kept(one, {}) = <<>>
        BY <1>2, KeptNone
      <3> QED BY <2>1, <3>1
    <2> HIDE DEF seen, one
    <2>3. [i \in 1..Len(seen) |-> Trimmed(st, token, seen[i])] = <<>>
      BY <2>2
    <2> QED BY <1>1, <1>4, <2>3 DEF OneShown, one
  <1> QED BY <1>3, <1>4

\* A get finds the one entity of that id.
LEMMA GetFinds ==
    ASSUME NEW st, Len(st) \in Nat, Distinct(st), NEW i \in 1..Len(st)
    PROVE  get(st, st[i].id) = <<st[i]>>
  <1>1. {j \in 1..Len(st) : st[j].id = st[i].id} = {i}
    BY DEF Distinct
  <1>2. Kept(st, {i}) = <<st[i]>>
    BY KeptOne
  <1> QED BY <1>1, <1>2 DEF get

\* An issued token authorizes its subject and nobody else.
LEMMA Authorized ==
    ASSUME NEW R, NEW token \in Tokens(R)
    PROVE  authorize(Secret, {token}, Now) = [ok |-> TRUE, caller |-> {token.subject}]
  <1>1. token.signed = Secret /\ token.exp = <<>>
    BY DEF Tokens
  <1>2. verify(Secret, token, Now) = "ok"
    BY <1>1 DEF verify
  <1>3. (CHOOSE t \in {token} : TRUE) = token
    OBVIOUS
  <1>4. {token} # {} /\ Secret # Insecure
    BY GatewayAssumption
  <1>5. authorize(Secret, {token}, Now)
          = [ok |-> verify(Secret, token, Now) = "ok", caller |-> {token.subject}]
    BY <1>3, <1>4 DEF authorize
  <1> QED BY <1>2, <1>5

\* What the routes, the tools and the commands do for that caller.
LEMMA FrontendsRead ==
    ASSUME NEW R, NEW token \in Tokens(R), NEW st, NEW id, NEW limit
    PROVE  LET as == {token.subject}
               looked == One(get_enforced(st, id, token.subject))
               found == Answer(Summaries(query_enforced(st, limit, token.subject)))
               listed(kind) == Answer(Summaries(enforce(load_policies(st), token.subject,
                                                        query_by_kind(st, kind))))
           IN  /\ cmd_entity_get(st, as, id) = looked
               /\ route(Secret, st, Get("/api/entity", token, id, 0)) = looked
               /\ dispatch(Secret, st, Call("get_entity", token, id, 0))[1].result = looked
               /\ cmd_query(st, as, limit) = found
               /\ route(Secret, st, Get("/api/query", token, NIL, limit)) = found
               /\ dispatch(Secret, st, Call("query", token, NIL, limit))[1].result = found
               /\ route(Secret, st, Get("/api/subjects", token, NIL, 0)) = listed("Subject")
               /\ route(Secret, st, Get("/api/roles", token, NIL, 0)) = listed("Role")
               /\ route(Secret, st, Get("/api/policies", token, NIL, 0)) = listed("Policy")
  <1> DEFINE who == authorize(Secret, {token}, Now)
             as == {token.subject}
  <1>1. who.ok /\ who.caller = as
    <2>1. who = [ok |-> TRUE, caller |-> as]
      BY Authorized
    <2> HIDE DEF who, as
    <2> QED BY <2>1
  <1>2. as # {} /\ (CHOOSE c \in as : TRUE) = token.subject
    OBVIOUS
  <1> HIDE DEF who, as
  <1>3. Looked(st, as, id) = get_enforced(st, id, token.subject)
    BY <1>2 DEF Looked
  <1>4. Found(st, as, limit) = query_enforced(st, limit, token.subject)
    BY <1>2 DEF Found
  <1>5. \A kind : list_by_kind_enforced(st, as, kind)
                   = enforce(load_policies(st), token.subject, query_by_kind(st, kind))
    BY <1>2 DEF list_by_kind_enforced
  <1>6. /\ route(Secret, st, Get("/api/entity", token, id, 0)) = web_get_entity(st, as, id)
        /\ route(Secret, st, Get("/api/query", token, NIL, limit)) = web_query(st, as, limit)
        /\ route(Secret, st, Get("/api/subjects", token, NIL, 0)) = list_subjects(st, as)
        /\ route(Secret, st, Get("/api/roles", token, NIL, 0)) = list_roles(st, as)
        /\ route(Secret, st, Get("/api/policies", token, NIL, 0)) = list_policies(st, as)
    <2>1. ASSUME NEW req, authorize(Secret, req.bearer, req.now) = who
          PROVE  /\ req.path = "/api/entity" =>
                        route(Secret, st, req) = web_get_entity(st, as, req.id)
                 /\ req.path = "/api/query" =>
                        route(Secret, st, req) = web_query(st, as, req.limit)
                 /\ req.path = "/api/subjects" => route(Secret, st, req) = list_subjects(st, as)
                 /\ req.path = "/api/roles" => route(Secret, st, req) = list_roles(st, as)
                 /\ req.path = "/api/policies" => route(Secret, st, req) = list_policies(st, as)
      <3>1. route(Secret, st, req)
              = CASE req.path = "/api/types" -> web_list_types(st, who.caller)
                  [] req.path = "/api/query" -> web_query(st, who.caller, req.limit)
                  [] req.path = "/api/entity" -> web_get_entity(st, who.caller, req.id)
                  [] req.path = "/api/subjects" -> list_subjects(st, who.caller)
                  [] req.path = "/api/roles" -> list_roles(st, who.caller)
                  [] req.path = "/api/policies" -> list_policies(st, who.caller)
                  [] OTHER -> Refusal
        BY <1>1, <2>1 DEF route
      <3> QED BY <1>1, <3>1
    <2>2. route(Secret, st, Get("/api/entity", token, id, 0)) = web_get_entity(st, as, id)
      <3>1. PICK req : req = Get("/api/entity", token, id, 0)
        OBVIOUS
      <3>2. /\ req.path = "/api/entity" /\ req.id = id /\ req.limit = 0
            /\ authorize(Secret, req.bearer, req.now) = who
        BY <3>1 DEF Get, who
      <3> QED BY <2>1, <3>1, <3>2
    <2>3. route(Secret, st, Get("/api/query", token, NIL, limit)) = web_query(st, as, limit)
      <3>1. PICK req : req = Get("/api/query", token, NIL, limit)
        OBVIOUS
      <3>2. /\ req.path = "/api/query" /\ req.id = NIL /\ req.limit = limit
            /\ authorize(Secret, req.bearer, req.now) = who
        BY <3>1 DEF Get, who
      <3> QED BY <2>1, <3>1, <3>2
    <2>4. route(Secret, st, Get("/api/subjects", token, NIL, 0)) = list_subjects(st, as)
      <3>1. PICK req : req = Get("/api/subjects", token, NIL, 0)
        OBVIOUS
      <3>2. /\ req.path = "/api/subjects" /\ req.id = NIL /\ req.limit = 0
            /\ authorize(Secret, req.bearer, req.now) = who
        BY <3>1 DEF Get, who
      <3> QED BY <2>1, <3>1, <3>2
    <2>5. route(Secret, st, Get("/api/roles", token, NIL, 0)) = list_roles(st, as)
      <3>1. PICK req : req = Get("/api/roles", token, NIL, 0)
        OBVIOUS
      <3>2. /\ req.path = "/api/roles" /\ req.id = NIL /\ req.limit = 0
            /\ authorize(Secret, req.bearer, req.now) = who
        BY <3>1 DEF Get, who
      <3> QED BY <2>1, <3>1, <3>2
    <2>6. route(Secret, st, Get("/api/policies", token, NIL, 0)) = list_policies(st, as)
      <3>1. PICK req : req = Get("/api/policies", token, NIL, 0)
        OBVIOUS
      <3>2. /\ req.path = "/api/policies" /\ req.id = NIL /\ req.limit = 0
            /\ authorize(Secret, req.bearer, req.now) = who
        BY <3>1 DEF Get, who
      <3> QED BY <2>1, <3>1, <3>2
    <2> QED BY <2>2, <2>3, <2>4, <2>5, <2>6
  <1>7. /\ dispatch(Secret, st, Call("get_entity", token, id, 0))[1].result
             = One(Looked(st, as, id))
        /\ dispatch(Secret, st, Call("query", token, NIL, limit))[1].result
             = Answer(Summaries(Found(st, as, limit)))
    <2>1. ASSUME NEW line, line.id # {}, line.method = "tools/call"
          PROVE  dispatch(Secret, st, line)[1].result
                   = handle_tools_call(Secret, st, line.name, line.args)
      BY <2>1 DEF dispatch
    <2>2. ASSUME NEW args, authorize(Secret, args.bearer, args.now) = who
          PROVE  /\ handle_tools_call(Secret, st, "get_entity", args)
                      = One(Looked(st, as, args.id))
                 /\ handle_tools_call(Secret, st, "query", args)
                      = Answer(Summaries(Found(st, as, args.limit)))
      <3>1. mcp_get_entity(Secret, st, args) = One(Looked(st, as, args.id))
        BY <1>1, <2>2 DEF mcp_get_entity
      <3>2. mcp_query(Secret, st, args) = Answer(Summaries(Found(st, as, args.limit)))
        BY <1>1, <2>2 DEF mcp_query
      <3> QED BY <3>1, <3>2 DEF handle_tools_call
    <2>3. dispatch(Secret, st, Call("get_entity", token, id, 0))[1].result
            = One(Looked(st, as, id))
      <3>1. PICK line : line = Call("get_entity", token, id, 0)
        OBVIOUS
      <3>2. /\ line.id # {} /\ line.method = "tools/call" /\ line.name = "get_entity"
            /\ line.args.id = id /\ line.args.limit = 0
            /\ authorize(Secret, line.args.bearer, line.args.now) = who
        BY <3>1 DEF Call, who
      <3> QED BY <2>1, <2>2, <3>1, <3>2
    <2>4. dispatch(Secret, st, Call("query", token, NIL, limit))[1].result
            = Answer(Summaries(Found(st, as, limit)))
      <3>1. PICK line : line = Call("query", token, NIL, limit)
        OBVIOUS
      <3>2. /\ line.id # {} /\ line.method = "tools/call" /\ line.name = "query"
            /\ line.args.id = NIL /\ line.args.limit = limit
            /\ authorize(Secret, line.args.bearer, line.args.now) = who
        BY <3>1 DEF Call, who
      <3> QED BY <2>1, <2>2, <3>1, <3>2
    <2> QED BY <2>3, <2>4
  <1>8. cmd_entity_get(st, as, id) = One(Looked(st, as, id))
        /\ cmd_query(st, as, limit) = Answer(Summaries(Found(st, as, limit)))
    BY DEF cmd_entity_get, cmd_query
  <1> QED BY <1>3, <1>4, <1>5, <1>6, <1>7, <1>8
          DEF web_get_entity, web_query, list_subjects, list_roles, list_policies, as

\* Enforced reads mean what the administrators' requests said (get_enforced,
\* query_enforced, list_by_kind_enforced behind the web routes, the MCP tools
\* and the commands under --as): each shows of an entity exactly the fields no
\* covering policy redacts, and shows it exactly when a covering policy permits
\* it and none denies, for any shard map, threads, requests and faults.
THEOREM ReadsEnforced == Spec => []EnforcedReads
  <1>1. GateInv => EnforcedReads
    <2> SUFFICES ASSUME GateInv, Unambiguous, NEW s \in Shards, NEW token \in issued
        PROVE  LET st == store[s]
                   limit == Len(st) - 1
                   as == {token.subject}
               IN  /\ \A i \in {j \in 1..Len(st) : st[j].kind = "Data" \/ st[j].id \in Known} :
                        LET id == st[i].id
                        IN  /\ cmd_entity_get(st, as, id) = One(OneShown(st, token, st[i]))
                            /\ route(Secret, st, Get("/api/entity", token, id, 0))
                                 = One(OneShown(st, token, st[i]))
                            /\ dispatch(Secret, st, Call("get_entity", token, id, 0))[1].result
                                 = One(OneShown(st, token, st[i]))
                   /\ LET found == Answer(Summaries(AllShown(st, token, query(st, limit))))
                      IN  /\ cmd_query(st, as, limit) = found
                          /\ route(Secret, st, Get("/api/query", token, NIL, limit)) = found
                          /\ dispatch(Secret, st, Call("query", token, NIL, limit))[1].result
                               = found
                   /\ \A r \in {<<"/api/subjects", "Subject">>, <<"/api/roles", "Role">>,
                                 <<"/api/policies", "Policy">>} :
                        route(Secret, st, Get(r[1], token, NIL, 0))
                          = Answer(Summaries(AllShown(st, token, query_by_kind(st, r[2]))))
      BY DEF EnforcedReads
    <2> DEFINE st == store[s]
               as == {token.subject}
               limit == Len(st) - 1
               subject == token.subject
    <2>1. st \in Seq(Entities(roles)) /\ token \in Tokens(roles) /\ Distinct(st)
      BY DEF GateInv, GateTyped, IdsOnce
    <2>2. \A entities : Len(entities) \in Nat =>
             enforce(load_policies(st), subject, entities) = AllShown(st, token, entities)
      BY EnforceShows
    <2> HIDE DEF st
    <2>3. Len(st) \in Nat /\ limit \in Int
      BY <2>1
    <2>4. \A i \in 1..Len(st) :
             get_enforced(st, st[i].id, subject) = OneShown(st, token, st[i])
      <3> TAKE i \in 1..Len(st)
      <3>1. get(st, st[i].id) = <<st[i]>>
        BY <2>1, <2>3, GetFinds
      <3>2. enforce(load_policies(st), subject, <<st[i]>>) = AllShown(st, token, <<st[i]>>)
        BY <2>2
      <3> QED BY <3>1, <3>2, AllOfOne DEF get_enforced
    <2>5. query_enforced(st, limit, subject) = AllShown(st, token, query(st, limit))
      BY <2>2, <2>3, QueryLen DEF query_enforced
    <2>6. \A kind : enforce(load_policies(st), subject, query_by_kind(st, kind))
                       = AllShown(st, token, query_by_kind(st, kind))
      BY <2>1, <2>2, ByKind
    <2> HIDE DEF limit
    <2>7. ASSUME NEW i \in 1..Len(st)
          PROVE  /\ cmd_entity_get(st, as, st[i].id) = One(OneShown(st, token, st[i]))
                 /\ route(Secret, st, Get("/api/entity", token, st[i].id, 0))
                      = One(OneShown(st, token, st[i]))
                 /\ dispatch(Secret, st, Call("get_entity", token, st[i].id, 0))[1].result
                      = One(OneShown(st, token, st[i]))
      <3>1. PICK id : id = st[i].id
        OBVIOUS
      <3>2. /\ cmd_entity_get(st, as, id) = One(get_enforced(st, id, token.subject))
            /\ route(Secret, st, Get("/api/entity", token, id, 0))
                 = One(get_enforced(st, id, token.subject))
            /\ dispatch(Secret, st, Call("get_entity", token, id, 0))[1].result
                 = One(get_enforced(st, id, token.subject))
        BY <2>1, FrontendsRead
      <3> QED BY <2>4, <3>1, <3>2
    <2>8. LET found == Answer(Summaries(AllShown(st, token, query(st, limit))))
          IN  /\ cmd_query(st, as, limit) = found
              /\ route(Secret, st, Get("/api/query", token, NIL, limit)) = found
              /\ dispatch(Secret, st, Call("query", token, NIL, limit))[1].result = found
      <3>1. LET found == Answer(Summaries(query_enforced(st, limit, token.subject)))
            IN  /\ cmd_query(st, as, limit) = found
                /\ route(Secret, st, Get("/api/query", token, NIL, limit)) = found
                /\ dispatch(Secret, st, Call("query", token, NIL, limit))[1].result = found
        BY <2>1, FrontendsRead
      <3> QED BY <2>5, <3>1
    <2>9. ASSUME NEW r \in {<<"/api/subjects", "Subject">>, <<"/api/roles", "Role">>,
                            <<"/api/policies", "Policy">>}
          PROVE  route(Secret, st, Get(r[1], token, NIL, 0))
                   = Answer(Summaries(AllShown(st, token, query_by_kind(st, r[2]))))
      <3> DEFINE listed(kind) == Answer(Summaries(enforce(load_policies(st), token.subject,
                                                          query_by_kind(st, kind))))
      <3>1. /\ route(Secret, st, Get("/api/subjects", token, NIL, 0)) = listed("Subject")
            /\ route(Secret, st, Get("/api/roles", token, NIL, 0)) = listed("Role")
            /\ route(Secret, st, Get("/api/policies", token, NIL, 0)) = listed("Policy")
        BY <2>1, FrontendsRead
      <3>2. \A kind : listed(kind)
                       = Answer(Summaries(AllShown(st, token, query_by_kind(st, kind))))
        BY <2>6
      <3> HIDE DEF listed
      <3>3. CASE r = <<"/api/subjects", "Subject">>
        BY <3>1, <3>2, <3>3
      <3>4. CASE r = <<"/api/roles", "Role">>
        BY <3>1, <3>2, <3>4
      <3>5. CASE r = <<"/api/policies", "Policy">>
        BY <3>1, <3>2, <3>5
      <3> QED BY <3>3, <3>4, <3>5
    <2> QED BY <2>7, <2>8, <2>9 DEF st, limit
  <1> QED BY <1>1, NamesResolved, PTL

=============================================================================
