------------------------------ MODULE RaftCore ------------------------------
(***************************************************************************)
(* The pure Raft state machine of crates/gems-cluster/src/raft.rs.  As in  *)
(* the source, nothing here sends, waits or writes: an input (a tick, a    *)
(* client command, an envelope) takes a node's state to an outcome, the    *)
(* new state together with the envelopes the shell must send.  RaftNode    *)
(* is that shell.                                                          *)
(*                                                                         *)
(* An operator has the name of the method it translates; `i' is self.id    *)
(* and `s' is self.  The ids an RPC repeats in its body (candidate_id,     *)
(* voter_id, leader_id, follower_id) are the envelope's `from'.  The tick  *)
(* counters are abstracted: a tick below the threshold changes only them,  *)
(* and the election timeout is drawn at random by the shell, so `tick' is  *)
(* the tick that fires.                                                    *)
(***************************************************************************)
EXTENDS Integers, Sequences, FiniteSets

CONSTANTS
    Server,     \* the ids of one Raft group; peers(i) is Server \ {i}
    Command,    \* the LogRecords clients propose
    Nil         \* voted_for = None

ASSUME ServerAssumption == IsFiniteSet(Server) /\ Nil \notin Server

Role == {"Follower", "Candidate", "Leader"}

Entry == [term : Nat, command : Command]

CoreState ==
    [current_term   : Nat,
     voted_for      : Server \cup {Nil},
     log            : Seq(Entry),
     commit_index   : Nat,
     last_applied   : Nat,
     role           : Role,
     votes_received : SUBSET Server,
     next_index     : [Server -> Nat],
     match_index    : [Server -> Nat]]

RequestVoteRequest ==
    [type : {"RequestVoteRequest"}, from : Server, to : Server, term : Nat,
     last_log_index : Nat, last_log_term : Nat]

RequestVoteResponse ==
    [type : {"RequestVoteResponse"}, from : Server, to : Server, term : Nat,
     vote_granted : BOOLEAN]

AppendEntriesRequest ==
    [type : {"AppendEntriesRequest"}, from : Server, to : Server, term : Nat,
     prev_log_index : Nat, prev_log_term : Nat, entries : Seq(Entry),
     leader_commit : Nat]

AppendEntriesResponse ==
    [type : {"AppendEntriesResponse"}, from : Server, to : Server, term : Nat,
     success : BOOLEAN, match_index : Nat]

Envelope == RequestVoteRequest \cup RequestVoteResponse
              \cup AppendEntriesRequest \cup AppendEntriesResponse

peers(i) == Server \ {i}

\* What a call returns: the new state, the envelopes to send, and whether the
\* call panicked on the way (the slice in append_entries_for).
Outcome(s, out, panics) == [core |-> s, out |-> out, panics |-> panics]

Quiet(s) == Outcome(s, {}, FALSE)
-----------------------------------------------------------------------------
\* The empty maps next_index and match_index of a node that never led are all
\* zero here; become_leader fills them before anything reads them.
new ==
    [current_term   |-> 0,
     voted_for      |-> Nil,
     log            |-> << >>,
     commit_index   |-> 0,
     last_applied   |-> 0,
     role           |-> "Follower",
     votes_received |-> {},
     next_index     |-> [p \in Server |-> 0],
     match_index    |-> [p \in Server |-> 0]]

persistent_state(s) ==
    [current_term |-> s.current_term, voted_for |-> s.voted_for, log |-> s.log]

restore_ForgetsVote(d) ==
    [new EXCEPT !.current_term = d.current_term, !.log = d.log]

restore(d) ==
    [new EXCEPT !.current_term = d.current_term,
                !.voted_for    = d.voted_for,
                !.log          = d.log]

last_log_index(s) == Len(s.log)

log_term_at(s, index) ==
    IF index \in 1..Len(s.log) THEN s.log[index].term ELSE 0

last_log_term(s) == log_term_at(s, Len(s.log))

majority == Cardinality(Server) \div 2 + 1
-----------------------------------------------------------------------------
become_follower_DropsVote(s, term) ==
    [s EXCEPT !.current_term = IF term > @ THEN term ELSE @,
              !.voted_for    = Nil,
              !.role         = "Follower"]

become_follower(s, term) ==
    [s EXCEPT !.current_term = IF term > @ THEN term ELSE @,
              !.voted_for    = IF term > s.current_term THEN Nil ELSE @,
              !.role         = "Follower"]

first_next_index_TooFar(s) == last_log_index(s) + 2

first_next_index(s) == last_log_index(s) + 1

become_leader(s) ==
    [s EXCEPT !.role        = "Leader",
              !.next_index  = [p \in Server |-> first_next_index(s)],
              !.match_index = [p \in Server |-> 0]]

append_entries_for(i, s, p) ==
    LET next == s.next_index[p]
        prev == IF next > 0 THEN next - 1 ELSE 0
    IN  [type           |-> "AppendEntriesRequest",
         from           |-> i,
         to             |-> p,
         term           |-> s.current_term,
         prev_log_index |-> prev,
         prev_log_term  |-> log_term_at(s, prev),
         entries        |-> SubSeq(s.log, prev + 1, Len(s.log)),
         leader_commit  |-> s.commit_index]

\* `self.log[prev_log_index..]' panics when prev_log_index is past the end.
append_panics(s, p) == s.next_index[p] > last_log_index(s) + 1

replicate_to_all_peers(i, s) ==
    Outcome(s, {append_entries_for(i, s, p) : p \in peers(i)},
            \E p \in peers(i) : append_panics(s, p))

check_election_win(i, s) ==
    IF s.role = "Candidate" /\ Cardinality(s.votes_received) >= majority
    THEN replicate_to_all_peers(i, become_leader(s))
    ELSE Quiet(s)

start_election(i, s) ==
    LET c == [s EXCEPT !.role           = "Candidate",
                       !.current_term   = @ + 1,
                       !.voted_for      = i,
                       !.votes_received = {i}]
        ballots == {[type           |-> "RequestVoteRequest",
                     from           |-> i,
                     to             |-> p,
                     term           |-> c.current_term,
                     last_log_index |-> last_log_index(c),
                     last_log_term  |-> last_log_term(c)] : p \in peers(i)}
        won == check_election_win(i, c)
    IN  Outcome(won.core, ballots \cup won.out, won.panics)

tick(i, s) ==
    IF s.role = "Leader" THEN replicate_to_all_peers(i, s)
                         ELSE start_election(i, s)
-----------------------------------------------------------------------------
\* The code sorts the peers' match_index and its own last index in descending
\* order and takes the element at `majority': the one held by a majority with
\* no larger one held by a majority.
held_by_majority_OneShort(have, n) ==
    Cardinality({p \in Server : have[p] >= n}) >= majority - 1

held_by_majority(have, n) ==
    Cardinality({p \in Server : have[p] >= n}) >= majority

is_candidate(have, n) ==
    /\ held_by_majority(have, n)
    /\ \A p \in Server : have[p] > n => ~held_by_majority(have, have[p])

advance_commit_index(i, s) ==
    LET have == [p \in Server |-> IF p = i THEN last_log_index(s)
                                           ELSE s.match_index[p]]
        committable == {n \in {have[p] : p \in Server} :
                          /\ is_candidate(have, n)
                          /\ n > s.commit_index
                          /\ log_term_at(s, n) = s.current_term}
    IN  IF committable = {}
        THEN s
        ELSE [s EXCEPT !.commit_index = CHOOSE n \in committable : TRUE]

\* Only the leader's branch; RaftNode's Propose has the NotLeader guard.
propose(i, s, command) ==
    LET t == [s EXCEPT !.log = Append(@, [term    |-> s.current_term,
                                          command |-> command])]
    IN  IF peers(i) = {} THEN Quiet(advance_commit_index(i, t))
                         ELSE replicate_to_all_peers(i, t)
-----------------------------------------------------------------------------
candidate_log_is_up_to_date_Unchecked(s, m) == TRUE

candidate_log_is_up_to_date(s, m) ==
    \/ m.last_log_term > last_log_term(s)
    \/ /\ m.last_log_term = last_log_term(s)
       /\ m.last_log_index >= last_log_index(s)

handle_request_vote(i, s, m) ==
    LET t == IF m.term > s.current_term THEN become_follower(s, m.term) ELSE s
        grant == /\ m.term = t.current_term
                 /\ t.voted_for \in {Nil, m.from}
                 /\ candidate_log_is_up_to_date(t, m)
        u == IF grant THEN [t EXCEPT !.voted_for = m.from] ELSE t
    IN  Outcome(u, {[type         |-> "RequestVoteResponse",
                     from         |-> i,
                     to           |-> m.from,
                     term         |-> u.current_term,
                     vote_granted |-> grant]}, FALSE)

handle_vote_response(i, s, m) ==
    IF m.term > s.current_term THEN Quiet(become_follower(s, m.term))
    ELSE IF s.role # "Candidate" \/ m.term # s.current_term THEN Quiet(s)
    ELSE check_election_win(i,
            IF m.vote_granted
            THEN [s EXCEPT !.votes_received = @ \cup {m.from}]
            ELSE s)

\* The loop over `entries': entries the log already holds with the same term
\* are left alone; at the first one that is missing or has another term the
\* log is cut and the rest is appended.
merge_entries(log, prev, entries) ==
    LET differs(k) == \/ prev + k > Len(log)
                      \/ log[prev + k].term # entries[k].term
        first == CHOOSE k \in 1..Len(entries) :
                    differs(k) /\ \A j \in 1..(k - 1) : ~differs(j)
    IN  IF \A k \in 1..Len(entries) : ~differs(k)
        THEN log
        ELSE SubSeq(log, 1, prev + first - 1)
               \o SubSeq(entries, first, Len(entries))

prev_entry_matches_LengthOnly(s, m) ==
    m.prev_log_index <= last_log_index(s)

prev_entry_matches(s, m) ==
    \/ m.prev_log_index = 0
    \/ /\ m.prev_log_index <= last_log_index(s)
       /\ log_term_at(s, m.prev_log_index) = m.prev_log_term

append_reply(i, s, m, ok) ==
    [type        |-> "AppendEntriesResponse",
     from        |-> i,
     to          |-> m.from,
     term        |-> s.current_term,
     success     |-> ok,
     match_index |-> IF ok THEN last_log_index(s) ELSE 0]

handle_append_entries(i, s, m) ==
    LET t == become_follower(s, m.term)
        u == [t EXCEPT !.log = merge_entries(@, m.prev_log_index, m.entries)]
        limit == IF m.leader_commit < last_log_index(u)
                 THEN m.leader_commit ELSE last_log_index(u)
        v == IF m.leader_commit > u.commit_index
             THEN [u EXCEPT !.commit_index = limit] ELSE u
    IN  IF m.term < s.current_term
        THEN Outcome(s, {append_reply(i, s, m, FALSE)}, FALSE)
        ELSE IF ~prev_entry_matches(t, m)
        THEN Outcome(t, {append_reply(i, t, m, FALSE)}, FALSE)
        ELSE Outcome(v, {append_reply(i, v, m, TRUE)}, FALSE)

step_back_Unguarded(next) == next - 1

step_back(next) == IF next > 1 THEN next - 1 ELSE next

handle_append_response(i, s, m) ==
    LET p == m.from
        acked == advance_commit_index(i,
                    [s EXCEPT !.match_index[p] = m.match_index,
                              !.next_index[p]  = m.match_index + 1])
        back == [s EXCEPT !.next_index[p] = step_back(@)]
    IN  IF m.term > s.current_term THEN Quiet(become_follower(s, m.term))
        ELSE IF s.role # "Leader" \/ m.term # s.current_term THEN Quiet(s)
        ELSE IF m.success
        THEN IF acked.commit_index > s.commit_index
             THEN replicate_to_all_peers(i, acked)
             ELSE Quiet(acked)
        ELSE Outcome(back, {append_entries_for(i, back, p)},
                     append_panics(back, p))

receive(i, s, m) ==
    CASE m.type = "RequestVoteRequest"    -> handle_request_vote(i, s, m)
      [] m.type = "RequestVoteResponse"   -> handle_vote_response(i, s, m)
      [] m.type = "AppendEntriesRequest"  -> handle_append_entries(i, s, m)
      [] m.type = "AppendEntriesResponse" -> handle_append_response(i, s, m)

\* The entries between last_applied and commit_index, in log order, and the
\* state after the shell has drained them.
newly_committed(s) == SubSeq(s.log, s.last_applied + 1, s.commit_index)

take_newly_committed(s) ==
    [s EXCEPT !.last_applied = IF s.commit_index > @ THEN s.commit_index ELSE @]
=============================================================================
