----------------------------- MODULE Frontends -----------------------------
(***************************************************************************)
(* The reads of the three front ends: the GET routes of gems-webui, the    *)
(* tools of gems-mcp behind its JSON-RPC dispatch, and the commands of the *)
(* gems command line.  Each opens the store read-only per request, so a    *)
(* read is one look at a store st.  Opening and parsing failures, and the  *)
(* wording of an answer, are left out.                                     *)
(***************************************************************************)
EXTENDS Access

Answer(entities) == [ok |-> TRUE, of |-> entities]
Refusal == [ok |-> FALSE, of |-> <<>>]

\* entity_summary: the header only
Summaries(entities) ==
    [i \in 1..Len(entities) |-> [entities[i] EXCEPT !.fields = {}, !.policy = NoPolicy]]

\* The same, with the fields of a Data body
Details(entities) ==
    [i \in 1..Len(entities) |-> [entities[i] EXCEPT !.policy = NoPolicy,
        !.fields = IF entities[i].kind = "Data" THEN @ ELSE {}]]

\* What a caller finds; without one the plain reads of Store
Found(st, caller, limit) ==
    IF caller = {} THEN query(st, limit)
    ELSE query_enforced(st, limit, CHOOSE c \in caller : TRUE)

Looked(st, caller, id) ==
    IF caller = {} THEN get(st, id) ELSE get_enforced(st, id, CHOOSE c \in caller : TRUE)

One(entities) == IF entities = <<>> THEN Refusal ELSE Answer(Details(entities))

-----------------------------------------------------------------------------
(* gems-webui                                                              *)

web_list_types(st, caller) == Answer(Summaries(query_by_kind(st, "EntityType")))
web_query(st, caller, limit) == Answer(Summaries(Found(st, caller, limit)))
web_get_entity(st, caller, id) == One(Looked(st, caller, id))
list_subjects(st, caller) == Answer(Summaries(list_by_kind_enforced(st, caller, "Subject")))
list_roles(st, caller) == Answer(Summaries(list_by_kind_enforced(st, caller, "Role")))
list_policies(st, caller) == Answer(Summaries(list_by_kind_enforced(st, caller, "Policy")))

\* Every GET route authorizes before it opens the store.
route(auth, st, req) ==
    LET who == authorize(auth, req.bearer, req.now) IN
        IF ~who.ok THEN Refusal
        ELSE CASE req.path = "/api/types" -> web_list_types(st, who.caller)
               [] req.path = "/api/query" -> web_query(st, who.caller, req.limit)
               [] req.path = "/api/entity" -> web_get_entity(st, who.caller, req.id)
               [] req.path = "/api/subjects" -> list_subjects(st, who.caller)
               [] req.path = "/api/roles" -> list_roles(st, who.caller)
               [] req.path = "/api/policies" -> list_policies(st, who.caller)
               [] OTHER -> Refusal

-----------------------------------------------------------------------------
(* gems-mcp                                                                *)

mcp_query(auth, st, args) ==
    LET who == authorize(auth, args.bearer, args.now) IN
        IF who.ok THEN Answer(Summaries(Found(st, who.caller, args.limit))) ELSE Refusal

mcp_get_entity(auth, st, args) ==
    LET who == authorize(auth, args.bearer, args.now) IN
        IF who.ok THEN One(Looked(st, who.caller, args.id)) ELSE Refusal

list_entity_types(auth, st, args) ==
    IF authorize(auth, args.bearer, args.now).ok
    THEN Answer(Summaries(query_by_kind(st, "EntityType"))) ELSE Refusal

handle_tools_call(auth, st, name, args) ==
    CASE name = "query" -> mcp_query(auth, st, args)
      [] name = "get_entity" -> mcp_get_entity(auth, st, args)
      [] name = "list_entity_types" -> list_entity_types(auth, st, args)
      [] OTHER -> Refusal

\* A line of JSON-RPC: a notification, without an id, gets no answer and does
\* nothing; an unknown method is refused.  id is a set of at most one.
dispatch(auth, st, line) ==
    IF line.id = {} THEN <<>>
    ELSE <<[id |-> line.id,
            result |-> CASE line.method = "tools/call" ->
                              handle_tools_call(auth, st, line.name, line.args)
                         [] line.method \in {"initialize", "tools/list"} -> Answer(<<>>)
                         [] OTHER -> Refusal]>>

-----------------------------------------------------------------------------
(* gems: the caller is the --as flag, taken at its word                    *)

cmd_type_list(st) == Answer(Summaries(query_by_kind(st, "EntityType")))
cmd_query(st, as, limit) == Answer(Summaries(Found(st, as, limit)))
cmd_entity_get(st, as, id) == One(Looked(st, as, id))
=============================================================================
