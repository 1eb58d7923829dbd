------------------------------ MODULE RaftNode ------------------------------
(***************************************************************************)
(* A Raft group of running nodes: the engine loop of                       *)
(* crates/gems-cluster/src/raft_net.rs around RaftCore, the durable state  *)
(* of raft_state.rs, the network between the nodes and the Store each one  *)
(* applies committed entries to.                                           *)
(*                                                                         *)
(* One pass of run_engine is one action: take an input, run the core,      *)
(* persist, send, apply what became committed.  It may also be cut short   *)
(* by a crash after the state reached the disk (CrashAfterPersist), with   *)
(* any part of the envelopes sent and of the entries applied.  A crash     *)
(* before that point loses only memory and is Restart.                     *)
(***************************************************************************)
EXTENDS RaftCore

CONSTANTS
    Delete,         \* the LogRecord::Delete among the commands
    MaxTerm,        \* no election is started in a term past this one
    MaxLog,         \* no command is proposed past this index
    MaxInFlight,    \* envelopes in flight; what exceeds it is lost
    MaxRestarts     \* crashes and restarts, over all nodes

ASSUME BoundsAssumption ==
    /\ MaxTerm \in Nat /\ MaxLog \in Nat
    /\ MaxInFlight \in Nat /\ MaxRestarts \in Nat

ASSUME CommandAssumption == Nil \notin Command

VARIABLES
    core,       \* RaftCore of each node, in memory
    disk,       \* raft_state.bin of each node
    net,        \* envelopes in flight
    store,      \* the one entity the commands write: its body, or Nil
    panicked,   \* nodes whose engine thread has died of a panic
    restarts,   \* how many restarts have happened (bound)
    \* History, read by no action:
    votes,      \* <<voter, term, candidate>> for every vote that was stored
    elected,    \* <<term, node>> for every leader there has been
    applied,    \* <<node, index, entry, term>> for every entry given to a
                \* Store, with the node's term at that time
    overclaimed \* a follower has acknowledged entries its leader lacks

history == <<votes, elected, applied, overclaimed>>
vars == <<core, disk, net, store, panicked, restarts, history>>

DiskState ==
    [current_term : Nat, voted_for : Server \cup {Nil}, log : Seq(Entry)]

Init ==
    /\ core = [i \in Server |-> new]
    /\ disk = [i \in Server |-> persistent_state(new)]
    /\ net = {}
    /\ store = [i \in Server |-> Nil]
    /\ panicked = {}
    /\ restarts = 0
    /\ votes = {} /\ elected = {} /\ applied = {} /\ overclaimed = FALSE
-----------------------------------------------------------------------------
\* send_envelope is best effort and every envelope has its own connection:
\* each may be lost and they arrive in any order.  A leader re-sends the same
\* AppendEntries at every heartbeat, so a copy of it, and of the answer to it,
\* can still be under way when one has been received.
Repeated(m) == m.type \in {"AppendEntriesRequest", "AppendEntriesResponse"}

send_envelopes(rest, out) ==
    \E sent \in SUBSET out :
        /\ net' = rest \cup sent
        /\ Cardinality(net') <= MaxInFlight

persist_state_OnNewTerm(i, s, changed) ==
    disk' = IF s.current_term # disk[i].current_term
            THEN [disk EXCEPT ![i] = persistent_state(s)] ELSE disk

persist_state(i, s, changed) ==
    disk' = IF changed THEN [disk EXCEPT ![i] = persistent_state(s)] ELSE disk

\* Insert overwrites the entity, Delete removes it (and does nothing when it
\* is gone already); the last command applied decides.
apply_to_store(i, entries) ==
    store' = IF entries = << >> THEN store
             ELSE LET c == entries[Len(entries)].command
                  IN  [store EXCEPT ![i] = IF c = Delete THEN Nil ELSE c]

\* What the history records of node i having stored s and applied the entries
\* up to index upto.
Record(i, s, upto) ==
    /\ votes' = votes \cup
          (IF s.voted_for = Nil THEN {}
           ELSE {<<i, s.current_term, s.voted_for>>})
    /\ elected' = elected \cup
          (IF s.role = "Leader" THEN {<<s.current_term, i>>} ELSE {})
    /\ applied' = applied \cup
          {<<i, k, s.log[k], s.current_term>> : k \in (s.last_applied + 1)..upto}

\* The rest of one pass of run_engine once the core has produced r, to the end.
Complete(i, r, changed, rest) ==
    /\ ~r.panics
    /\ core' = [core EXCEPT ![i] = take_newly_committed(r.core)]
    /\ persist_state(i, r.core, changed)
    /\ send_envelopes(rest, r.out)
    /\ apply_to_store(i, newly_committed(r.core))
    /\ Record(i, r.core, r.core.commit_index)
    /\ UNCHANGED <<panicked, restarts>>

\* The same pass, the process dying after persist_state and starting again.
CrashAfterPersist(i, r, changed, rest) ==
    /\ ~r.panics
    /\ restarts < MaxRestarts
    /\ persist_state(i, r.core, changed)
    /\ core' = [core EXCEPT ![i] = restore(disk'[i])]
    /\ send_envelopes(rest, r.out)
    /\ \E n \in 0..Len(newly_committed(r.core)) :
          /\ apply_to_store(i, SubSeq(newly_committed(r.core), 1, n))
          /\ Record(i, r.core, r.core.last_applied + n)
    /\ restarts' = restarts + 1
    /\ UNCHANGED panicked

\* A panic in the core ends the engine thread before anything is stored; the
\* process stays up and answers nothing.
Panic(i, r, rest) ==
    /\ r.panics
    /\ panicked' = panicked \cup {i}
    /\ net' = rest
    /\ UNCHANGED <<core, disk, store, restarts, votes, elected, applied>>

run_engine(i, r, changed, rest) ==
    /\ i \notin panicked
    /\ \/ Complete(i, r, changed, rest)
       \/ CrashAfterPersist(i, r, changed, rest)
       \/ Panic(i, r, rest)
-----------------------------------------------------------------------------
\* handle_append_entries answers a success with its whole log's length.  When
\* entries of an older term stay behind the ones the request covers, that
\* length counts entries the leader does not have.
Overclaims(m, r) ==
    /\ m.type = "AppendEntriesRequest"
    /\ \E a \in r.out : a.success
    /\ last_log_index(r.core) > m.prev_log_index + Len(m.entries)
    /\ last_log_term(r.core) # m.term

Receive(m) ==
    LET i == m.to
        r == receive(i, core[i], m)
    IN  /\ \E rest \in {net \ {m}} \cup (IF Repeated(m) THEN {net} ELSE {}) :
              run_engine(i, r, TRUE, rest)
        /\ overclaimed' = (overclaimed \/ Overclaims(m, r))

Propose(i, c) ==
    /\ core[i].role = "Leader"
    /\ last_log_index(core[i]) < MaxLog
    /\ run_engine(i, propose(i, core[i], c), TRUE, net)
    /\ UNCHANGED overclaimed

\* run_engine writes the state of a tick only if the tick changed it.
tick_changed(s, t) ==
    \/ s.current_term # t.current_term
    \/ s.role # t.role
    \/ s.voted_for # t.voted_for

Tick(i) ==
    LET r == tick(i, core[i])
    IN  /\ core[i].role # "Leader" => core[i].current_term < MaxTerm
        /\ run_engine(i, r, tick_changed(core[i], r.core), net)
        /\ UNCHANGED overclaimed

\* The process ends, by a crash or a shutdown, and `spawn' starts it again:
\* raft_state::load and RaftCore::restore.
Restart(i) ==
    /\ restarts < MaxRestarts
    /\ core' = [core EXCEPT ![i] = restore(disk[i])]
    /\ panicked' = panicked \ {i}
    /\ restarts' = restarts + 1
    /\ UNCHANGED <<disk, net, store, history>>

Next ==
    \/ \E m \in net : Receive(m)
    \/ \E i \in Server, c \in Command : Propose(i, c)
    \/ \E i \in Server : Tick(i)
    \/ \E i \in Server : Restart(i)

Spec == Init /\ [][Next]_vars
-----------------------------------------------------------------------------
\* The type invariant: cores, stored states, envelopes and history are what
\* the structs of raft.rs allow; next_index never falls below zero.
TypeOK ==
    /\ core \in [Server -> CoreState]
    /\ disk \in [Server -> DiskState]
    /\ net \subseteq Envelope
    /\ store \in [Server -> Command \cup {Nil}]
    /\ panicked \subseteq Server
    /\ restarts \in Nat
    /\ votes \subseteq Server \X Nat \X Server
    /\ elected \subseteq Nat \X Server
    /\ applied \subseteq Server \X Nat \X Entry \X Nat
    /\ overclaimed \in BOOLEAN

\* Over the whole life of the group, restarts included, no term has had two
\* leaders (raft_state.rs: what forgetting a vote on restart would break).
ElectionSafety ==
    \A a, b \in elected : a[1] = b[1] => a[2] = b[2]

\* The bookkeeping of votes that ElectionSafety rests on.  What is on disk is
\* what is in memory, and the votes ever stored are consistent with both: at
\* most one per node and term, the one in voted_for if the term is current.
Synced == \A i \in Server : disk[i] = persistent_state(core[i])

VotesCurrent ==
    \A v \in votes :
        /\ v[2] <= core[v[1]].current_term
        /\ v[2] = core[v[1]].current_term => v[3] = core[v[1]].voted_for

VotesStored ==
    \A i \in Server :
        core[i].voted_for # Nil =>
            <<i, core[i].current_term, core[i].voted_for>> \in votes

OneVotePerTerm ==
    \A v, w \in votes : v[1] = w[1] /\ v[2] = w[2] => v[3] = w[3]

\* Every vote counted, on its way or in a candidate's hands, was stored.
GrantsStored ==
    \A m \in net :
        m.type = "RequestVoteResponse" /\ m.vote_granted =>
            <<m.from, m.term, m.to>> \in votes

CountedStored ==
    \A i \in Server :
        core[i].role # "Follower" =>
            \A p \in core[i].votes_received :
                <<p, core[i].current_term, i>> \in votes

\* A leader is on record, and on record only with a majority behind it.
Backers(e) == {p \in Server : <<p, e[1], e[2]>> \in votes}

LeadersBacked ==
    /\ \A i \in Server :
          core[i].role = "Leader" => <<core[i].current_term, i>> \in elected
    /\ \A e \in elected : Cardinality(Backers(e)) >= majority

\* All of the bookkeeping together: what persist_state, handle_request_vote and
\* handle_vote_response must keep for ElectionSafety to hold.
VoteLedger ==
    /\ Synced
    /\ VotesCurrent /\ VotesStored /\ OneVotePerTerm
    /\ GrantsStored /\ CountedStored
    /\ LeadersBacked

\* A granted vote that is still under way is on the voter's disk, or the voter
\* has moved to a later term: persist_state comes before send_envelope.
VotesAreDurable ==
    \A m \in net :
        m.type = "RequestVoteResponse" /\ m.vote_granted =>
            LET d == disk[m.from]
            IN  \/ d.current_term > m.term
                \/ d.current_term = m.term /\ d.voted_for = m.to

\* What is on disk never goes back: the term never falls, and within a term
\* the vote, once given, is neither withdrawn nor changed.
KeepsVote(i) ==
    /\ disk'[i].current_term >= disk[i].current_term
    /\ (/\ disk'[i].current_term = disk[i].current_term
        /\ disk[i].voted_for # Nil)
       => disk'[i].voted_for = disk[i].voted_for

\* So it is at every step of every node (become_follower, restore).
VoteIsFinal == [][\A i \in Server : KeepsVote(i)]_vars

\* Two stored logs that agree on the term at an index agree on everything up
\* to it: the consistency check and the merge of handle_append_entries.
LogMatching ==
    \A i, j \in Server :
        \A k \in 1..Len(disk[i].log) :
            /\ k <= Len(disk[j].log)
            /\ disk[i].log[k].term = disk[j].log[k].term
            => SubSeq(disk[i].log, 1, k) = SubSeq(disk[j].log, 1, k)

\* The index a leader has committed is held, with that leader's entry, by the
\* stored logs of a majority (advance_commit_index: "find the highest index
\* replicated on a majority").
CommittedOnMajority ==
    \A i \in Server :
        LET s == core[i]
            n == s.commit_index
        IN  s.role = "Leader" /\ n > 0 =>
              Cardinality({p \in Server :
                  /\ n <= Len(disk[p].log)
                  /\ disk[p].log[n] = s.log[n]}) >= majority

\* No two Stores are ever given different entries for the same index.
StateMachineSafety ==
    \A a, b \in applied : a[2] = b[2] => a[3] = b[3]

\* A leader's log has every entry that a Store was given in its term or an
\* earlier one: candidate_log_is_up_to_date kept everybody else from winning.
\* (The term in which the entry was applied counts, not the entry's own: a
\* leader that has been succeeded may lack an older entry that its successor
\* brought back and committed.)
LeaderCompleteness ==
    \A i \in Server, a \in applied :
        core[i].role = "Leader" /\ a[4] <= core[i].current_term =>
            a[2] <= Len(core[i].log) /\ core[i].log[a[2]] = a[3]

\* The rest is what the code guarantees as long as no follower has overclaimed.
\* What a leader has committed is on a majority (advance_commit_index).
MajorityUnlessOverclaimed == overclaimed \/ CommittedOnMajority

\* The Stores are given the same entry at the same index (apply_to_store).
StateMachineSafetyUnlessOverclaimed == overclaimed \/ StateMachineSafety

\* No node without an applied entry wins a later term (handle_request_vote).
LeaderCompletenessUnlessOverclaimed == overclaimed \/ LeaderCompleteness

\* No engine thread dies of the slice panic of append_entries_for.
NoPanicUnlessOverclaimed == overclaimed \/ panicked = {}

\* A Store always shows the entry with the highest index it was ever given:
\* applying the log again after a restart does not take it back in time.
StoreNeverRegresses ==
    \A i \in Server, a \in applied :
        /\ a[1] = i
        /\ \A b \in applied : b[1] = i => b[2] <= a[2]
        => store[i] = IF a[3].command = Delete THEN Nil ELSE a[3].command
=============================================================================
