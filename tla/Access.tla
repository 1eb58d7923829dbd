------------------------------- MODULE Access -------------------------------
(***************************************************************************)
(* Who may see what: gems-abac's decision and enforcement, its bearer      *)
(* tokens, the policy predicates of gems-catalog, and Store's enforced     *)
(* reads over one shard's store.                                           *)
(*                                                                         *)
(* A store is the sequence of its entities in ordinal order, the order in  *)
(* which query_by_kind and the scans behind find-by-name list them.  A     *)
(* Tuid is the leading byte of its uuid and a number that stands for the   *)
(* rest.  A Data body is the set of its field ids; a Policy body is the    *)
(* policy.  A signature is the secret that made it: HMAC-SHA256, base64url *)
(* and the JSON of the claims are left out.                                *)
(***************************************************************************)
EXTENDS Integers, Sequences, FiniteSets

NIL == [byte |-> 0, n |-> 0]

AnyKind == "any"     \* TargetPredicate.entity_kind = None
NoName == "none"

\* role_name is history: the name the request resolved to role_id
Policy(effect, kind, schema_ref, subject_id, role_id, role_name, redact) ==
    [effect |-> effect, entity_kind |-> kind, schema_ref |-> schema_ref,
     subject_id |-> subject_id, role_id |-> role_id, role_name |-> role_name,
     redact_attributes |-> redact]

NoPolicy == Policy("permit", AnyKind, NIL, NIL, NIL, NoName, {})

Entity(id, name, kind, schema_ref, fields, policy) ==
    [id |-> id, name |-> name, kind |-> kind, schema_ref |-> schema_ref,
     fields |-> fields, policy |-> policy]

\* The elements of s at the positions I, in their order: a loop that filters.
\* (A recursive function, for no prover here expands SelectSeq.)
Kept(s, I) ==
    LET kept[i \in 0..Len(s)] ==
            IF i = 0 THEN <<>>
            ELSE IF i \in I THEN Append(kept[i - 1], s[i]) ELSE kept[i - 1]
    IN  kept[Len(s)]

-----------------------------------------------------------------------------
(* Tokens.  names is history: the role names the issuer resolved.          *)

SubjectContext(subject_id, roles) == [subject_id |-> subject_id, roles |-> roles]

issue(secret, subject, exp, names) ==
    [signed |-> secret, subject |-> subject, exp |-> exp, names |-> names]

\* exp is the empty sequence when the claim is absent
verify(secret, token, now) ==
    IF token.signed # secret THEN "bad signature"
    ELSE IF token.exp # <<>> /\ now >= token.exp[1] THEN "expired"
    ELSE "ok"

\* AuthMode: Insecure, or Enforced with a secret.  A caller is a set of at most
\* one SubjectContext, empty only in Insecure mode; a bearer likewise.
Insecure == "insecure mode"

authorize(auth, bearer, now) ==
    IF auth = Insecure THEN [ok |-> TRUE, caller |-> {}]
    ELSE IF bearer = {} THEN [ok |-> FALSE, caller |-> {}]
    ELSE LET token == CHOOSE t \in bearer : TRUE
         IN  [ok |-> verify(auth, token, now) = "ok", caller |-> {token.subject}]

-----------------------------------------------------------------------------
(* Policies                                                                *)

TargetMatches(p, kind, schema_ref) ==
    /\ p.entity_kind \in {AnyKind, kind}
    /\ p.schema_ref \in {NIL, schema_ref}

SubjectMatches(p, subject) ==
    \/ p.subject_id = NIL /\ p.role_id = NIL
    \/ p.subject_id # NIL /\ p.subject_id = subject.subject_id
    \/ p.role_id # NIL /\ p.role_id \in subject.roles

applies(p, subject, kind, schema_ref) ==
    TargetMatches(p, kind, schema_ref) /\ SubjectMatches(p, subject)

\* For the mutant of evaluate: the first policy that applies decides.
evaluate_FirstMatch(policies, subject, kind, schema_ref) ==
    LET applicable == SelectSeq(policies,
                         LAMBDA p : applies(p, subject, kind, schema_ref))
    IN  IF applicable = <<>> \/ applicable[1].effect = "deny" THEN <<>>
        ELSE <<applicable[1].redact_attributes>>

\* A Decision: the empty sequence for Deny, else the attributes to redact.
evaluate(policies, subject, kind, schema_ref) ==
    LET applicable == {policies[i] : i \in {j \in 1..Len(policies) :
                         applies(policies[j], subject, kind, schema_ref)}}
    IN  IF applicable = {} \/ \E p \in applicable : p.effect = "deny" THEN <<>>
        ELSE <<UNION {p.redact_attributes : p \in applicable}>>

\* The entities of a sequence that subject may see, each without its redacted
\* fields; a body that is not GBV has none to lose.
enforce(policies, subject, entities) ==
    LET decision(e) == evaluate(policies, subject, e.kind, e.schema_ref)
        shown == Kept(entities, {i \in 1..Len(entities) : decision(entities[i]) # <<>>})
    IN  [i \in 1..Len(shown) |->
            [shown[i] EXCEPT !.fields = @ \ decision(shown[i])[1]]]

-----------------------------------------------------------------------------
(* Store's reads                                                           *)

query_by_kind(st, kind) == Kept(st, {i \in 1..Len(st) : st[i].kind = kind})

get(st, id) == Kept(st, {i \in 1..Len(st) : st[i].id = id})

load_policies(st) ==
    LET found == query_by_kind(st, "Policy")
    IN  [i \in 1..Len(found) |-> found[i].policy]

get_enforced(st, id, subject) == enforce(load_policies(st), subject, get(st, id))

\* query's answer: every id in Tuid order, cut to the limit
TuidBefore(a, b) == a.byte < b.byte \/ (a.byte = b.byte /\ a.n < b.n)

query(st, limit) ==
    LET before(i) == Cardinality({j \in 1..Len(st) : TuidBefore(st[j].id, st[i].id)})
        sorted == [k \in 1..Len(st) |-> st[CHOOSE i \in 1..Len(st) : before(i) = k - 1]]
    IN  SubSeq(sorted, 1, IF limit < Len(st) THEN limit ELSE Len(st))

\* The limit is taken before the decision: a hidden entity uses it up.
query_enforced(st, limit, subject) ==
    enforce(load_policies(st), subject, query(st, limit))

\* The first role of the name, by ordinal; the empty sequence when none has it.
role_id_by_name(st, name) ==
    LET held == query_by_kind(st, "Role")
        named == Kept(held, {i \in 1..Len(held) : held[i].name = name})
    IN  IF named = <<>> THEN <<>> ELSE <<named[1].id>>

\* query_by_kind's ids, each read as the caller may see it
list_by_kind_enforced(st, caller, kind) ==
    LET found == query_by_kind(st, kind)
    IN  IF caller = {} THEN found
        ELSE enforce(load_policies(st), CHOOSE c \in caller : TRUE, found)

find_entity_type_by_name(st, name) ==
    LET held == query_by_kind(st, "EntityType")
        named == Kept(held, {i \in 1..Len(held) : held[i].name = name})
    IN  IF named = <<>> THEN <<>> ELSE <<named[1].id>>

require_role(subject, st, allowed) ==
    \E name \in allowed : \E i \in 1..Len(role_id_by_name(st, name)) :
        role_id_by_name(st, name)[i] \in subject.roles

=============================================================================
