------------------------------ MODULE Gateway ------------------------------
(***************************************************************************)
(* gems-webui's write routes, gems-cluster-node's install and propose and  *)
(* the gems command line, over the shards of a cluster.                    *)
(*                                                                         *)
(* A request is served by a thread of its own: it authorizes the caller,   *)
(* opens a store directory read-only, checks the caller's role by name and *)
(* then proposes its records one by one through a ShardedClient.  A        *)
(* proposal is answered when the leader has appended it, not when it is    *)
(* committed, so what a shard's member applies to its store comes later or *)
(* never.  The store of a shard is the one of its first member, which is   *)
(* the directory requests name; a shard's log is what its leader accepted  *)
(* and that member has not applied yet.  Requests that are refused change  *)
(* nothing and are not drawn.                                              *)
(***************************************************************************)
EXTENDS Frontends, SequencesExt

CONSTANTS
    ShardMap,     \* $GEMS_SHARD_MAP: a sequence of [shard, members], each shard once
    Bytes,        \* bound: leading bytes of generated ids
    Placements,   \* bound: leading bytes of the ids of one bootstrap
    Templates,    \* bound: of [effect, kind, role_name, redact], policies asked for
    NameSets,     \* bound: sets of role names tokens are asked for
    Picked,       \* bound: numbers of the ids that requests name
    Fields,       \* bound: the fields of a saved entity
    Threads,
    Secret,       \* $GEMS_WEBUI_SECRET
    MaxRequests,  \* bound: requests
    MaxFaults     \* bound: lost calls, lost answers, elections and stops

\* The secret is not the mode without one (an enum in AuthMode), and the
\* policies that callers ask for permit or deny.
ASSUME GatewayAssumption ==
    /\ Secret # Insecure
    /\ \A p \in Templates : p.effect \in {"permit", "deny"}

VARIABLES
    store,     \* shard -> the first member's Store
    log,       \* shard -> commands accepted and not yet applied there
    leader,    \* shard -> the member that is its leader
    up,        \* shard -> whether the first member's process runs
    thread,    \* the requests being served
    issued,    \* the tokens handed out
    made,      \* ids generated
    roles,     \* history: the roles proposed, of [id, name]
    torn,      \* history: a bootstrap stopped half way, lost an entity or was not the first
    requests,
    faults

vars == <<store, log, leader, up, thread, issued, made, roles, torn, requests, faults>>

Now == 0
Insert(e) == [op |-> "insert", id |-> e.id, entity |-> e]
Delete(id) == [op |-> "delete", id |-> id,
               entity |-> Entity(id, NoName, "Data", NIL, {}, NoPolicy)]

-----------------------------------------------------------------------------
(* The sharded client                                                      *)

num_shards == Len(ShardMap)

\* Each entry of the map adds its members to its shard.
members(s) ==
    FlattenSeq([i \in 1..Len(ShardMap) |->
                   IF ShardMap[i].shard = s THEN ShardMap[i].members ELSE <<>>])

shard_of(id) == (id.byte * num_shards) \div 256

Shards == {ShardMap[i].shard : i \in 1..Len(ShardMap)}
Local(s) == members(s)[1]
NoLeader == 0

Idle == [todo |-> <<>>, tried |-> 0, grant |-> {}, seeds |-> FALSE]

\* The next record of thread t, to the next member of its shard.
Command(t) == Head(thread[t].todo)
Shard(t) == shard_of(Command(t).id)
Asked(t) == members(Shard(t))[thread[t].tried + 1]
Serving(t) == thread[t].todo # <<>>
Asking(t) ==
    Serving(t) /\ Shard(t) \in Shards /\ thread[t].tried < Len(members(Shard(t)))

\* A member that leads appends the command; the others answer that they do not.
Append1(t) ==
    /\ leader[Shard(t)] = Asked(t)
    /\ log' = [log EXCEPT ![Shard(t)] = Append(@, Command(t))]

\* propose_remote returned an index: on to the next record, and after the last
\* one the answer, with the token a bootstrap earns.
Accepted(t) ==
    /\ Asking(t)
    /\ Append1(t)
    /\ LET rest == Tail(thread[t].todo)
       IN  IF rest = <<>>
           THEN /\ thread' = [thread EXCEPT ![t] = Idle]
                /\ issued' = issued \cup thread[t].grant
           ELSE /\ thread' = [thread EXCEPT ![t].todo = rest, ![t].tried = 0]
                /\ UNCHANGED issued
    /\ UNCHANGED <<store, leader, up, made, roles, torn, requests, faults>>

NextMember(t) ==
    /\ thread' = [thread EXCEPT ![t].tried = @ + 1]
    /\ UNCHANGED <<store, leader, up, issued, made, roles, torn, requests>>

NotLeader(t) ==
    /\ Asking(t)
    /\ leader[Shard(t)] # Asked(t)
    /\ NextMember(t)
    /\ UNCHANGED <<log, faults>>

\* The call times out, with or without the leader having appended the command.
TimedOut(t) ==
    /\ Asking(t) /\ faults < MaxFaults
    /\ faults' = faults + 1
    /\ Append1(t) \/ UNCHANGED log
    /\ NextMember(t)

\* Every member was tried: 502, and the records before this one stay proposed.
Refused(t) ==
    /\ Serving(t) /\ ~Asking(t)
    /\ thread' = [thread EXCEPT ![t] = Idle]
    /\ torn' = (torn \/ thread[t].seeds)
    /\ UNCHANGED <<store, log, leader, up, issued, made, roles, requests, faults>>

-----------------------------------------------------------------------------
(* The shard's Raft group, from outside                                    *)

Dropped(s, n) == {log[s][i] : i \in (n + 1)..Len(log[s])}

\* A new leader: any suffix of what was not committed is gone.
Elect(s, m, n) ==
    /\ IF leader[s] = NoLeader THEN UNCHANGED faults
       ELSE faults < MaxFaults /\ faults' = faults + 1
    /\ m # leader[s] /\ (m = Local(s) => up[s])
    /\ leader' = [leader EXCEPT ![s] = m]
    /\ log' = [log EXCEPT ![s] = SubSeq(@, 1, n)]
    /\ torn' = (torn \/ Dropped(s, n) # {})
    /\ UNCHANGED <<store, up, thread, issued, made, roles, requests>>

\* Store::insert keeps the ordinal of an id it has.
Written(st, e) ==
    IF \E i \in 1..Len(st) : st[i].id = e.id
    THEN [i \in 1..Len(st) |-> IF st[i].id = e.id THEN e ELSE st[i]]
    ELSE Append(st, e)

Without(st, id) == Kept(st, {i \in 1..Len(st) : st[i].id # id})

Apply(s) ==
    /\ up[s] /\ log[s] # <<>>
    /\ LET c == Head(log[s])
       IN  store' = [store EXCEPT ![s] =
                        IF c.op = "insert" THEN Written(@, c.entity) ELSE Without(@, c.id)]
    /\ log' = [log EXCEPT ![s] = Tail(@)]
    /\ UNCHANGED <<leader, up, thread, issued, made, roles, torn, requests, faults>>

\* run_serve of the first member: stopped by a signal, started again.
Stop(s) ==
    /\ up[s] /\ faults < MaxFaults /\ faults' = faults + 1
    /\ up' = [up EXCEPT ![s] = FALSE]
    /\ leader' = [leader EXCEPT ![s] = IF @ = Local(s) THEN NoLeader ELSE @]
    /\ UNCHANGED <<store, log, thread, issued, made, roles, torn, requests>>

Serve(s) ==
    /\ ~up[s] /\ up' = [up EXCEPT ![s] = TRUE]
    /\ UNCHANGED <<store, log, leader, thread, issued, made, roles, torn, requests, faults>>

-----------------------------------------------------------------------------
(* Bootstrap                                                               *)

\* Tuid::generate: the k-th id after the n so far
Tuid(byte, n, k) == [byte |-> byte, n |-> n + k]

\* The seven entities in the order they are proposed: admin, analyst and
\* consumer roles, three policies, the admin subject.
bootstrap(bytes, n) ==
    LET id(k) == Tuid(bytes[k], n, k)
        role(k, name) == Entity(id(k), name, "Role", NIL, {}, NoPolicy)
        policy(k, p) == Entity(id(k), "policy", "Policy", NIL, {}, p)
    IN  << role(1, "admin"), role(2, "analyst"), role(3, "consumer"),
           policy(4, Policy("permit", AnyKind, NIL, NIL, id(1), "admin", {})),
           policy(5, Policy("permit", "Data", NIL, NIL, NIL, NoName, {})),
           policy(6, Policy("permit", "EntityType", NIL, NIL, NIL, NoName, {})),
           Entity(id(7), "admin", "Subject", NIL, {}, NoPolicy) >>

SeedRoles(seed) == {[id |-> seed[i].id, name |-> seed[i].name] : i \in 1..3}

AdminToken(seed) ==
    issue(Secret, SubjectContext(seed[7].id, {seed[1].id}), <<>>, {"admin"})

\* A cluster at its first start, or one that was set up before.
Init ==
    /\ log = [s \in Shards |-> <<>>]
    /\ leader = [s \in Shards |-> Local(s)]
    /\ up = [s \in Shards |-> TRUE]
    /\ thread = [t \in Threads |-> Idle]
    /\ torn = FALSE /\ faults = 0 /\ requests = 0
    /\ \/ /\ store = [s \in Shards |-> <<>>]
          /\ issued = {} /\ made = 0 /\ roles = {}
       \/ \E bytes \in Placements :
            LET seed == bootstrap(bytes, 0)
                type == Entity(Tuid(0, 7, 1), "type", "EntityType", NIL, {}, NoPolicy)
                datum == Entity(Tuid(0, 8, 1), "e", "Data", type.id, Fields, NoPolicy)
                all == Append(Append(seed, type), datum)
            IN  /\ store = [s \in Shards |->
                               Kept(all, {i \in 1..Len(all) : shard_of(all[i].id) = s})]
                /\ issued = {AdminToken(seed)} /\ made = 9 /\ roles = SeedRoles(seed)

\* For the mutant of Seed: the roles claim carries the subject's id.
Seed_SubjectAsRole(t, bytes) ==
    LET seed == bootstrap(bytes, made)
        grant == issue(Secret, SubjectContext(seed[7].id, {seed[7].id}), <<>>, {"admin"})
    IN  /\ thread' = [thread EXCEPT ![t] =
                [todo |-> [i \in 1..7 |-> Insert(seed[i])], tried |-> 0,
                 grant |-> {grant}, seeds |-> TRUE]]
        /\ made' = made + 7
        /\ roles' = roles \cup SeedRoles(seed)
        /\ torn' = (torn \/ roles # {})
        /\ UNCHANGED <<store, log, leader, up, issued, faults>>

\* Proposes the seed and grants the admin's token once all of it is accepted.
Seed(t, bytes) ==
    LET seed == bootstrap(bytes, made)
    IN  /\ thread' = [thread EXCEPT ![t] =
                [todo |-> [i \in 1..7 |-> Insert(seed[i])], tried |-> 0,
                 grant |-> {AdminToken(seed)}, seeds |-> TRUE]]
        /\ made' = made + 7
        /\ roles' = roles \cup SeedRoles(seed)
        /\ torn' = (torn \/ roles # {})
        /\ UNCHANGED <<store, log, leader, up, issued, faults>>

\* A connection gets a thread of its own; they are interchangeable, so the
\* first one free.
Begins(t, n) ==
    /\ ~Serving(t) /\ \A u \in Threads : u < t => Serving(u)
    /\ requests + n <= MaxRequests /\ requests' = requests + n

Begin(t) == Begins(t, 1)
BeginSeed(t) == Begins(t, 2)   \* bound: a bootstrap counts as two requests

\* POST /api/setup on the store of shard d
setup(t, d, bytes) ==
    /\ BeginSeed(t)
    /\ role_id_by_name(store[d], "admin") = <<>>
    /\ Seed(t, bytes)

\* gems-cluster-node install: the same seed, and no look at any store
run_install(t, bytes) == BeginSeed(t) /\ Seed(t, bytes)

-----------------------------------------------------------------------------
(* The other routes.  Each authorizes, opens the store of shard d and      *)
(* requires a role there before it proposes.                               *)

Granted(d, token, allowed) ==
    /\ authorize(Secret, {token}, Now).ok
    /\ require_role(token.subject, store[d], allowed)

Propose(t, commands) ==
    /\ thread' = [thread EXCEPT ![t] = [Idle EXCEPT !.todo = commands]]
    /\ UNCHANGED <<store, log, leader, up, issued, roles, torn, faults>>

InStores == UNION {{store[s][i] : i \in 1..Len(store[s])} : s \in Shards}

Known == {id \in {e.id : e \in InStores} : id.n \in Picked}

\* Bound: the types and the subjects that requests name are those a store
\* holds, and the subjects of tokens.  No route looks whether they exist.
Types == {e.id : e \in {f \in InStores : f.kind = "EntityType"}}

Subjects == {e.id : e \in {f \in InStores : f.kind = "Subject"}}
                \cup {token.subject.subject_id : token \in issued}

Writer == {"admin", "analyst"}

\* With an id of the caller's it overwrites whatever has that id.
save_entity(t, d, token) ==
    /\ Begin(t) /\ Granted(d, token, Writer)
    /\ \E id \in {Tuid(b, made, 1) : b \in Bytes} \cup Known, type_id \in {NIL} \cup Types :
         /\ made' = made + IF id \in Known THEN 0 ELSE 1
         /\ Propose(t, <<Insert(Entity(id, "e", "Data", type_id, Fields, NoPolicy))>>)

\* Whatever the id names is deleted.
delete_entity(t, d, token) ==
    /\ Begin(t) /\ Granted(d, token, Writer)
    /\ \E id \in Known : Propose(t, <<Delete(id)>>)
    /\ UNCHANGED made

save_type(t, d, token) ==
    /\ Begin(t) /\ Granted(d, token, {"admin"})
    /\ \E b \in Bytes :
         Propose(t, <<Insert(Entity(Tuid(b, made, 1), "type", "EntityType", NIL, {}, NoPolicy))>>)
    /\ made' = made + 1

delete_type(t, d, token) ==
    /\ Begin(t) /\ Granted(d, token, {"admin"})
    /\ \E id \in Known : Propose(t, <<Delete(id)>>)
    /\ UNCHANGED made

save_subject(t, d, token) ==
    /\ Begin(t) /\ Granted(d, token, {"admin"})
    /\ \E b \in Bytes :
         Propose(t, <<Insert(Entity(Tuid(b, made, 1), "user", "Subject", NIL, {}, NoPolicy))>>)
    /\ made' = made + 1

\* Signs a token for any subject id, with the roles the names resolve to here.
issue_token(t, d, token) ==
    /\ Begin(t) /\ Granted(d, token, {"admin"})
    /\ \E names \in NameSets, subject_id \in {Tuid(b, made, 1) : b \in Bytes} \cup Subjects :
         /\ made' = made + IF subject_id \in Subjects THEN 0 ELSE 1
         /\ \A name \in names : role_id_by_name(store[d], name) # <<>>
         /\ issued' = issued \cup
                {issue(Secret,
                       SubjectContext(subject_id,
                           {role_id_by_name(store[d], name)[1] : name \in names}),
                       <<>>, names)}
    /\ UNCHANGED <<store, log, leader, up, thread, roles, torn, faults>>

\* About everybody, one subject, whoever has a role, or both; about entities
\* of any type or of one.
save_policy(t, d, token) ==
    /\ Begin(t) /\ Granted(d, token, {"admin"})
    /\ \E p \in Templates, b \in Bytes,
          target_type \in {NIL} \cup Types, subject_id \in {NIL} \cup Subjects :
         /\ p.role_name # NoName => role_id_by_name(store[d], p.role_name) # <<>>
         /\ LET role == IF p.role_name = NoName THEN NIL
                        ELSE role_id_by_name(store[d], p.role_name)[1]
            IN  Propose(t, <<Insert(Entity(Tuid(b, made, 1), "policy", "Policy", NIL, {},
                    Policy(p.effect, p.kind, target_type, subject_id, role, p.role_name,
                           p.redact)))>>)
    /\ made' = made + 1

delete_policy(t, d, token) ==
    /\ Begin(t) /\ Granted(d, token, {"admin"})
    /\ \E id \in Known : Propose(t, <<Delete(id)>>)
    /\ UNCHANGED made

\* gems-cluster-node propose: one Data entity, no caller to check
run_propose(t) ==
    /\ Begin(t)
    /\ \E b \in Bytes :
         Propose(t, <<Insert(Entity(Tuid(b, made, 1), "e", "Data", NIL, Fields, NoPolicy))>>)
    /\ made' = made + 1

-----------------------------------------------------------------------------
(* The gems command line writes to the store itself, which needs the       *)
(* writer's lock: the member that serves the directory must be down.       *)

CliWrite(d, e) ==
    /\ requests < MaxRequests /\ requests' = requests + 1
    /\ ~up[d]
    /\ store' = [store EXCEPT ![d] = Written(@, e)]
    /\ made' = made + 1
    /\ UNCHANGED <<log, leader, up, thread, issued, roles, torn, faults>>

cmd_type_create(d) ==
    \E b \in Bytes : CliWrite(d, Entity(Tuid(b, made, 1), "type", "EntityType", NIL, {}, NoPolicy))

cmd_entity_create(d) ==
    /\ find_entity_type_by_name(store[d], "type") # <<>>
    /\ \E b \in Bytes :
         CliWrite(d, Entity(Tuid(b, made, 1), "e", "Data",
                            find_entity_type_by_name(store[d], "type")[1], Fields, NoPolicy))

\* The type is resolved by name; the role is an id, that of a role proposed.
cmd_policy_create(d) ==
    \E b \in Bytes, p \in Templates, subject_id \in {NIL} \cup Subjects,
      role_id \in {NIL} \cup {r.id : r \in roles},
      target_type \in {NIL} \cup Range(find_entity_type_by_name(store[d], "type")) :
        /\ IF p.role_name = NoName THEN role_id = NIL
           ELSE [id |-> role_id, name |-> p.role_name] \in roles
        /\ CliWrite(d, Entity(Tuid(b, made, 1), "policy", "Policy", NIL, {},
                Policy(p.effect, p.kind, target_type, subject_id, role_id, p.role_name,
                       p.redact)))

-----------------------------------------------------------------------------
write_route(t, d, token) ==
    \/ save_entity(t, d, token) \/ delete_entity(t, d, token)
    \/ save_type(t, d, token) \/ delete_type(t, d, token)
    \/ save_subject(t, d, token) \/ issue_token(t, d, token)
    \/ save_policy(t, d, token) \/ delete_policy(t, d, token)

Next ==
    \/ \E t \in Threads :
         \/ Accepted(t) \/ NotLeader(t) \/ TimedOut(t) \/ Refused(t)
         \/ \E bytes \in Placements : run_install(t, bytes)
         \/ \E d \in Shards :
              \/ \E bytes \in Placements : setup(t, d, bytes)
              \/ \E token \in issued : write_route(t, d, token)
         \/ run_propose(t)
    \/ \E s \in Shards :
         \/ Apply(s) \/ Stop(s) \/ Serve(s)
         \/ \E i \in 1..Len(members(s)), n \in 0..Len(log[s]) : Elect(s, members(s)[i], n)
         \/ cmd_type_create(s) \/ cmd_entity_create(s) \/ cmd_policy_create(s)

Spec == Init /\ [][Next]_vars

-----------------------------------------------------------------------------
(* Properties                                                              *)

\* Names that stand for one role only: two bootstraps make two of each.
Unambiguous == \A q, r \in roles : q.name = r.name => q = r

\* What a policy says of a token in the words of the requests that made them,
\* a role by its name and not by the id it resolved to: it is about the subject
\* it names, about whoever has the role it names, or, when it names neither,
\* about everybody.
Covers(p, token, e) ==
    /\ p.entity_kind \in {AnyKind, e.kind} /\ p.schema_ref \in {NIL, e.schema_ref}
    /\ \/ p.subject_id = NIL /\ p.role_name = NoName
       \/ p.subject_id # NIL /\ p.subject_id = token.subject.subject_id
       \/ p.role_name # NoName /\ p.role_name \in token.names

Visible(st, token, e) ==
    LET about == {p \in {st[i].policy : i \in {j \in 1..Len(st) : st[j].kind = "Policy"}} :
                     Covers(p, token, e)}
    IN  /\ \E p \in about : p.effect = "permit"
        /\ \A p \in about : p.effect # "deny"

Redacted(st, token, e) ==
    UNION {p.redact_attributes :
        p \in {q \in {st[i].policy : i \in {j \in 1..Len(st) : st[j].kind = "Policy"}} :
                  Covers(q, token, e)}}

Trimmed(st, token, e) == [e EXCEPT !.fields = @ \ Redacted(st, token, e)]

\* What a token's holder should see of one entity, and of many in their order.
OneShown(st, token, e) == IF Visible(st, token, e) THEN <<Trimmed(st, token, e)>> ELSE <<>>

AllShown(st, token, entities) ==
    LET seen == Kept(entities, {i \in 1..Len(entities) : Visible(st, token, entities[i])})
    IN  [i \in 1..Len(seen) |-> Trimmed(st, token, seen[i])]

Get(path, token, id, limit) ==
    [path |-> path, bearer |-> {token}, now |-> Now, id |-> id, limit |-> limit]

Call(name, token, id, limit) ==
    [id |-> {1}, method |-> "tools/call", name |-> name,
     args |-> [bearer |-> {token}, now |-> Now, id |-> id, limit |-> limit]]

\* Enforced reads mean what the administrators' requests said.  A token asked
\* for by role names and a policy asked for by role name were resolved to ids
\* by different requests, possibly with proposals retried, lost and applied in
\* between; as long as a name never stood for two roles, the web routes, the
\* MCP tools and the commands under --as all show of an entity exactly the
\* fields no covering policy redacts, and show it exactly when some covering
\* policy permits it and none denies (get_enforced, query_enforced,
\* list_by_kind_enforced).  Looking when no request is half way loses nothing:
\* every request can end without a change to the stores or to the tokens so far.
EnforcedReads ==
    Unambiguous /\ (\A t \in Threads : ~Serving(t)) =>
        \A s \in Shards : \A token \in issued :
            LET st == store[s]
                limit == Len(st) - 1
                as == {token.subject}
            IN  /\ \A i \in {j \in 1..Len(st) : st[j].kind = "Data" \/ st[j].id \in Known} :
                     LET id == st[i].id
                     IN  /\ cmd_entity_get(st, as, id) = One(OneShown(st, token, st[i]))
                         /\ route(Secret, st, Get("/api/entity", token, id, 0))
                              = One(OneShown(st, token, st[i]))
                         /\ dispatch(Secret, st, Call("get_entity", token, id, 0))[1].result
                              = One(OneShown(st, token, st[i]))
                /\ LET found == Answer(Summaries(AllShown(st, token, query(st, limit))))
                   IN  /\ cmd_query(st, as, limit) = found
                       /\ route(Secret, st, Get("/api/query", token, NIL, limit)) = found
                       /\ dispatch(Secret, st, Call("query", token, NIL, limit))[1].result = found
                /\ \A r \in {<<"/api/subjects", "Subject">>, <<"/api/roles", "Role">>,
                              <<"/api/policies", "Policy">>} :
                     route(Secret, st, Get(r[1], token, NIL, 0))
                       = Answer(Summaries(AllShown(st, token, query_by_kind(st, r[2]))))

Quiet ==
    /\ \A t \in Threads : ~Serving(t)
    /\ \A s \in Shards : log[s] = <<>>

\* After a bootstrap somebody can administer the system: once all is applied,
\* a shard with a role named admin has an issued token that require_role
\* accepts there, whatever calls were retried, answered twice or reordered
\* between shards and whatever the other routes wrote.  Not so when the
\* bootstrap stopped half way, lost an entity in an election or was not the
\* first (torn): the role then exists and setup refuses to run again.
SomeoneAdministers ==
    Quiet /\ ~torn =>
        \A s \in Shards :
            role_id_by_name(store[s], "admin") # <<>> =>
                \E token \in issued : require_role(token.subject, store[s], {"admin"})

=============================================================================
