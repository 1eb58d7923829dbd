----------------------------- MODULE RaftProofs -----------------------------
(***************************************************************************)
(* Proofs about RaftNode, for any group of servers, any commands and any   *)
(* bounds.  The first half is about elections: type correctness, one       *)
(* leader per term, votes that are durable before they are sent and never  *)
(* withdrawn.  The second is about logs: stored logs match; and, as long   *)
(* as no follower has acknowledged entries its leader lacks, what is       *)
(* committed is on a majority and in the log of every later leader, the    *)
(* Stores are given the same entries, and no engine thread panics.         *)
(***************************************************************************)
EXTENDS RaftNode, TLAPS, FiniteSetTheorems, SequenceTheorems,
        DataInduction

-----------------------------------------------------------------------------
(* The operators of RaftCore.                                              *)

\* What a call of the core needs of the state: only a follower is in term 0.
Fit(s) == s.role # "Follower" => s.current_term > 0

\* What one call of the core guarantees of its outcome r: `ack' are the votes
\* that the call's input carried for node i in its present term.
Sound(i, s, r, ack) ==
    /\ r.core \in CoreState
    /\ r.out \subseteq Envelope
    /\ r.core.current_term >= s.current_term
    /\ r.core.current_term = s.current_term /\ s.voted_for # Nil
          => r.core.voted_for = s.voted_for
    /\ r.core.role # "Follower" =>
          /\ r.core.current_term > 0
          /\ \/ /\ s.role # "Follower"
                /\ r.core.current_term = s.current_term
                /\ r.core.votes_received \subseteq s.votes_received \cup ack
             \/ /\ r.core.votes_received = {i}
                /\ r.core.voted_for = i
    /\ r.core.role = "Leader" =>
          \/ s.role = "Leader" /\ r.core.current_term = s.current_term
          \/ Cardinality(r.core.votes_received) >= majority
    /\ \A a \in r.out :
          a.type = "RequestVoteResponse" /\ a.vote_granted =>
             /\ a.from = i
             /\ a.term = r.core.current_term
             /\ a.to = r.core.voted_for
    /\ r.core.last_applied = s.last_applied
    /\ r.core.commit_index # s.commit_index =>
          r.core.commit_index <= Len(r.core.log)

\* The term at an index is a term, whatever the index.
LEMMA LogTermType ==
    ASSUME NEW s \in CoreState, NEW n
    PROVE  log_term_at(s, n) \in Nat
  <1>1. s.log \in Seq(Entry)
    BY DEF CoreState
  <1>2. ASSUME n \in 1..Len(s.log)
        PROVE  s.log[n].term \in Nat
    <2>1. s.log[n] \in Entry
      BY <1>1, <1>2, ElementOfSeq
    <2> QED BY <2>1 DEF Entry
  <1> QED
    BY <1>2 DEF log_term_at

\* The tail of a log that append_entries_for ships is a log.
LEMMA TailType ==
    ASSUME NEW S, NEW q \in Seq(S), NEW m \in Nat \ {0}, NEW n \in Nat,
           n <= Len(q)
    PROVE  SubSeq(q, m, n) \in Seq(S)
  <1>1. \A k \in m..n : q[k] \in S
    BY ElementOfSeq, LenProperties
  <1> QED
    BY <1>1, SubSeqProperties

\* Every AppendEntries a node addresses to a peer is a well-formed envelope.
LEMMA AppendEntriesType ==
    ASSUME NEW i \in Server, NEW s \in CoreState, NEW p \in Server
    PROVE  append_entries_for(i, s, p) \in AppendEntriesRequest
  <1> DEFINE prev == IF s.next_index[p] > 0 THEN s.next_index[p] - 1 ELSE 0
  <1>1. s.next_index[p] \in Nat /\ s.current_term \in Nat
        /\ s.commit_index \in Nat /\ s.log \in Seq(Entry)
    BY DEF CoreState
  <1>2. prev \in Nat
    BY <1>1
  <1>3. SubSeq(s.log, prev + 1, Len(s.log)) \in Seq(Entry)
    <2>1. Len(s.log) \in Nat /\ prev + 1 \in Nat \ {0}
      BY <1>1, <1>2, LenProperties
    <2> HIDE DEF prev
    <2> QED BY <1>1, <2>1, TailType
  <1>4. log_term_at(s, prev) \in Nat
    BY LogTermType
  <1> QED
    BY <1>1, <1>2, <1>3, <1>4 DEF append_entries_for, AppendEntriesRequest

\* Replicating changes nothing in the core and sends only AppendEntries.
LEMMA ReplicateOut ==
    ASSUME NEW i \in Server, NEW s \in CoreState
    PROVE  LET r == replicate_to_all_peers(i, s)
           IN  r.core = s /\ r.out \subseteq AppendEntriesRequest
  BY AppendEntriesType DEF replicate_to_all_peers, Outcome, peers

\* A call that leaves the core as it is and grants no vote is sound.
LEMMA IdleSound ==
    ASSUME NEW i \in Server, NEW s \in CoreState, Fit(s), NEW ack,
           NEW r, r.core = s, r.out \subseteq Envelope,
           \A a \in r.out : a.type # "RequestVoteResponse"
    PROVE  Sound(i, s, r, ack)
  <1>1. s.current_term \in Nat
    BY DEF CoreState
  <1>2. s.current_term >= s.current_term
    BY <1>1
  <1>3. s.votes_received \subseteq s.votes_received \cup ack
    OBVIOUS
  <1>4. s.role # "Follower" => s.current_term > 0
    BY DEF Fit
  <1>5. s.role = "Leader" => s.role # "Follower"
    OBVIOUS
  <1> QED
    BY <1>2, <1>3, <1>4, <1>5, Zenon DEF Sound

\* Winning, or not, an election with the votes that are in.
LEMMA WinSound ==
    ASSUME NEW i \in Server, NEW s \in CoreState
    PROVE  LET r == check_election_win(i, s)
           IN  /\ r.core \in CoreState
               /\ r.out \subseteq AppendEntriesRequest
               /\ r.core.current_term = s.current_term
               /\ r.core.voted_for = s.voted_for
               /\ r.core.log = s.log
               /\ r.core.votes_received = s.votes_received
               /\ r.core.last_applied = s.last_applied
               /\ r.core.commit_index = s.commit_index
               /\ r.core.role # s.role =>
                     /\ s.role = "Candidate" /\ r.core.role = "Leader"
                     /\ Cardinality(s.votes_received) >= majority
  <1> DEFINE t == become_leader(s)
  <1>1. last_log_index(s) + 1 \in Nat
    BY LenProperties DEF last_log_index, CoreState
  <1>2. t \in CoreState
    BY <1>1 DEF become_leader, first_next_index, CoreState, Role
  <1>3. /\ t.current_term = s.current_term /\ t.voted_for = s.voted_for
        /\ t.log = s.log /\ t.votes_received = s.votes_received
        /\ t.last_applied = s.last_applied
        /\ t.commit_index = s.commit_index /\ t.role = "Leader"
    BY DEF become_leader, CoreState
  <1>4. LET r == replicate_to_all_peers(i, t)
        IN  r.core = t /\ r.out \subseteq AppendEntriesRequest
    <2> HIDE DEF t
    <2> QED BY <1>2, ReplicateOut
  <1>5. CASE s.role = "Candidate" /\ Cardinality(s.votes_received) >= majority
    <2>1. check_election_win(i, s) = replicate_to_all_peers(i, t)
      BY <1>5 DEF check_election_win
    <2> HIDE DEF t
    <2> QED BY <1>2, <1>3, <1>4, <1>5, <2>1
  <1>6. CASE ~(s.role = "Candidate"
               /\ Cardinality(s.votes_received) >= majority)
    <2>1. /\ check_election_win(i, s).core = s
          /\ check_election_win(i, s).out = {}
      BY <1>6 DEF check_election_win, Quiet, Outcome
    <2> QED BY <2>1
  <1> QED BY <1>5, <1>6

\* An election timeout: a new term, a vote for itself, perhaps a win.
LEMMA ElectionSound ==
    ASSUME NEW i \in Server, NEW s \in CoreState
    PROVE  /\ Sound(i, s, start_election(i, s), {})
           /\ start_election(i, s).core.log = s.log
  <1> DEFINE c == [s EXCEPT !.role           = "Candidate",
                            !.current_term   = @ + 1,
                            !.voted_for      = i,
                            !.votes_received = {i}]
             ballots == {[type           |-> "RequestVoteRequest",
                          from           |-> i,
                          to             |-> p,
                          term           |-> c.current_term,
                          last_log_index |-> last_log_index(c),
                          last_log_term  |-> last_log_term(c)] : p \in peers(i)}
             w == check_election_win(i, c)
             r == start_election(i, s)
  <1>1. c \in CoreState
    <2>1. s.current_term + 1 \in Nat /\ {i} \in SUBSET Server
      BY DEF CoreState
    <2> QED BY <2>1 DEF CoreState, Role
  <1>2. /\ c.current_term = s.current_term + 1 /\ c.voted_for = i
        /\ c.votes_received = {i} /\ c.log = s.log /\ c.role = "Candidate"
        /\ c.last_applied = s.last_applied /\ c.commit_index = s.commit_index
        /\ s.current_term \in Nat
    BY DEF CoreState
  <1>3. r.core = w.core /\ r.out = ballots \cup w.out
    BY DEF start_election, Outcome
  <1>4. ballots \subseteq RequestVoteRequest
    <2>1. last_log_index(c) \in Nat /\ last_log_term(c) \in Nat
      BY <1>1, LogTermType, LenProperties
         DEF last_log_index, last_log_term, CoreState
    <2>2. c.current_term \in Nat
      BY <1>2
    <2> HIDE DEF c
    <2> QED BY <2>1, <2>2 DEF RequestVoteRequest, peers
  <1> HIDE DEF c, ballots, r
  <1>5. /\ w.core \in CoreState /\ w.out \subseteq AppendEntriesRequest
        /\ w.core.current_term = c.current_term
        /\ w.core.voted_for = c.voted_for /\ w.core.log = c.log
        /\ w.core.votes_received = c.votes_received
        /\ w.core.last_applied = c.last_applied
        /\ w.core.commit_index = c.commit_index
        /\ w.core.role # c.role => Cardinality(c.votes_received) >= majority
    BY <1>1, WinSound
  <1> HIDE DEF w
  <1>6. r.out \subseteq Envelope
        /\ \A a \in r.out : a.type # "RequestVoteResponse"
    BY <1>3, <1>4, <1>5
       DEF Envelope, AppendEntriesRequest, RequestVoteRequest
  <1> QED
    BY <1>2, <1>3, <1>5, <1>6 DEF Sound, r


\* Advancing the commit index changes that field only, and moves it to an
\* entry the log holds: an index past the log has term 0, no leader's term.
LEMMA AdvanceSound ==
    ASSUME NEW i \in Server, NEW s \in CoreState, s.current_term > 0
    PROVE  LET t == advance_commit_index(i, s)
           IN  /\ t \in CoreState
               /\ t.current_term = s.current_term /\ t.voted_for = s.voted_for
               /\ t.role = s.role /\ t.log = s.log
               /\ t.votes_received = s.votes_received
               /\ t.last_applied = s.last_applied
               /\ t.commit_index # s.commit_index =>
                     t.commit_index <= Len(t.log)
  <1> DEFINE have == [p \in Server |-> IF p = i THEN last_log_index(s)
                                                ELSE s.match_index[p]]
             committable == {n \in {have[p] : p \in Server} :
                               /\ is_candidate(have, n)
                               /\ n > s.commit_index
                               /\ log_term_at(s, n) = s.current_term}
             n == CHOOSE k \in committable : TRUE
  <1>1. CASE committable = {}
    <2>1. advance_commit_index(i, s) = s
      BY <1>1 DEF advance_commit_index
    <2> QED BY <2>1
  <1>2. CASE committable # {}
    <2>1. advance_commit_index(i, s) = [s EXCEPT !.commit_index = n]
      BY <1>2 DEF advance_commit_index
    <2>2. n \in committable
      BY <1>2
    <2> HIDE DEF n
    <2>3. n > s.commit_index /\ log_term_at(s, n) = s.current_term
      BY <2>2
    <2>4. n \in 1..Len(s.log)
      BY <2>3 DEF log_term_at, CoreState
    <2>5. n \in Nat /\ n <= Len(s.log)
      BY <2>4, LenProperties DEF CoreState
    <2> QED BY <2>1, <2>3, <2>5 DEF CoreState
  <1> QED BY <1>1, <1>2

\* A leader's proposal adds an entry; alone in its group it commits at once.
LEMMA ProposeSound ==
    ASSUME NEW i \in Server, NEW s \in CoreState, Fit(s), s.role = "Leader",
           NEW c \in Command
    PROVE  Sound(i, s, propose(i, s, c), {})
  <1> DEFINE e == [term |-> s.current_term, command |-> c]
             t == [s EXCEPT !.log = Append(@, e)]
             r == propose(i, s, c)
  <1>1. e \in Entry /\ s.log \in Seq(Entry) /\ s.current_term \in Nat
    BY DEF Entry, CoreState
  <1>2. Append(s.log, e) \in Seq(Entry)
    <2> HIDE DEF e
    <2> QED BY <1>1, AppendProperties
  <1> HIDE DEF e
  <1>3. t \in CoreState
    BY <1>2 DEF CoreState
  <1>4. /\ t.current_term = s.current_term /\ t.voted_for = s.voted_for
        /\ t.role = s.role /\ t.votes_received = s.votes_received
        /\ t.last_applied = s.last_applied /\ t.commit_index = s.commit_index
        /\ s.current_term > 0
    BY DEF CoreState, Fit
  <1>5. /\ r.core \in CoreState /\ r.out \subseteq AppendEntriesRequest
        /\ r.core.current_term = t.current_term
        /\ r.core.voted_for = t.voted_for /\ r.core.role = t.role
        /\ r.core.votes_received = t.votes_received
        /\ r.core.last_applied = t.last_applied
        /\ r.core.commit_index # t.commit_index =>
              r.core.commit_index <= Len(r.core.log)
    <2>1. CASE peers(i) = {}
      <3>1. r.core = advance_commit_index(i, t) /\ r.out = {}
        BY <2>1 DEF propose, Quiet, Outcome, e
      <3> HIDE DEF t, r
      <3> QED BY <1>3, <1>4, <3>1, AdvanceSound
    <2>2. CASE peers(i) # {}
      <3>1. r = replicate_to_all_peers(i, t)
        BY <2>2 DEF propose, e
      <3> HIDE DEF t, r
      <3>2. r.core = t /\ r.out \subseteq AppendEntriesRequest
        BY <1>3, <3>1, ReplicateOut
      <3> QED BY <1>3, <3>2
    <2> QED BY <2>1, <2>2
  <1> HIDE DEF t, r
  <1> QED
    BY <1>1, <1>4, <1>5 DEF Sound, Envelope, AppendEntriesRequest, r

\* Stepping down: the term only grows, and the vote survives unless it does.
LEMMA FollowerSound ==
    ASSUME NEW s \in CoreState, NEW term \in Nat
    PROVE  LET t == become_follower(s, term)
           IN  /\ t \in CoreState
               /\ t.role = "Follower" /\ t.log = s.log
               /\ t.last_applied = s.last_applied
               /\ t.commit_index = s.commit_index
               /\ t.current_term >= s.current_term
               /\ t.current_term >= term
               /\ t.current_term \in {s.current_term, term}
               /\ t.current_term = s.current_term => t.voted_for = s.voted_for
  <1> DEFINE ct == IF term > s.current_term THEN term ELSE s.current_term
             vf == IF term > s.current_term THEN Nil ELSE s.voted_for
  <1>1. ct \in Nat /\ vf \in Server \cup {Nil} /\ s.current_term \in Nat
    BY DEF CoreState
  <1>2. /\ ct >= s.current_term /\ ct >= term /\ ct \in {s.current_term, term}
        /\ ct = s.current_term => vf = s.voted_for
    BY <1>1
  <1>3. become_follower(s, term) =
          [s EXCEPT !.current_term = ct, !.voted_for = vf, !.role = "Follower"]
    BY DEF become_follower
  <1> HIDE DEF ct, vf
  <1> QED
    BY <1>1, <1>2, <1>3 DEF CoreState, Role

\* A call that only steps down to a later term is sound.
LEMMA StepDownSound ==
    ASSUME NEW i \in Server, NEW s \in CoreState, NEW term \in Nat, NEW ack,
           NEW r, r.core = become_follower(s, term), r.out = {}
    PROVE  Sound(i, s, r, ack)
  <1> DEFINE t == become_follower(s, term)
  <1>1. /\ t \in CoreState /\ t.role = "Follower"
        /\ t.last_applied = s.last_applied /\ t.commit_index = s.commit_index
        /\ t.current_term >= s.current_term
        /\ t.current_term = s.current_term => t.voted_for = s.voted_for
    BY FollowerSound
  <1> HIDE DEF t
  <1>2. r.core = t /\ r.out = {}
    BY DEF t
  <1>3. t.role # "Leader"
    BY <1>1
  <1> QED
    BY <1>1, <1>2, <1>3, Zenon DEF Sound

\* A RequestVote: the answer grants exactly the vote that is recorded.
LEMMA RequestVoteSound ==
    ASSUME NEW i \in Server, NEW s \in CoreState, Fit(s),
           NEW m \in RequestVoteRequest
    PROVE  Sound(i, s, handle_request_vote(i, s, m), {})
  <1> DEFINE t == IF m.term > s.current_term
                  THEN become_follower(s, m.term) ELSE s
             grant == /\ m.term = t.current_term
                      /\ t.voted_for \in {Nil, m.from}
                      /\ candidate_log_is_up_to_date(t, m)
             u == IF grant THEN [t EXCEPT !.voted_for = m.from] ELSE t
             a == [type |-> "RequestVoteResponse", from |-> i, to |-> m.from,
                   term |-> u.current_term, vote_granted |-> grant]
             r == handle_request_vote(i, s, m)
  <1>1. m.term \in Nat /\ m.from \in Server /\ s.current_term \in Nat
    BY DEF RequestVoteRequest, CoreState
  <1>2. /\ t \in CoreState /\ t.last_applied = s.last_applied
        /\ t.commit_index = s.commit_index
        /\ t.current_term >= s.current_term
        /\ t.current_term = s.current_term => t.voted_for = s.voted_for
        /\ t.role # "Follower" => t = s
    BY <1>1, FollowerSound
  <1>3. r.core = u /\ r.out = {a}
    BY DEF handle_request_vote, Outcome
  <1> HIDE DEF t
  <1>4. grant \in BOOLEAN
    BY DEF candidate_log_is_up_to_date
  <1>5. /\ u \in CoreState /\ u.last_applied = t.last_applied
        /\ u.commit_index = t.commit_index /\ u.role = t.role
        /\ u.current_term = t.current_term
        /\ u.votes_received = t.votes_received
        /\ grant => u.voted_for = m.from
        /\ t.voted_for # Nil => u.voted_for = t.voted_for
    BY <1>1, <1>2, ServerAssumption DEF CoreState
  <1> HIDE DEF grant, u
  <1>6. a \in RequestVoteResponse
    BY <1>1, <1>4, <1>5 DEF RequestVoteResponse, CoreState
  <1>7. \A b \in r.out : b = a
    BY <1>3
  <1>8. /\ a.from = i /\ a.to = m.from /\ a.term = u.current_term
        /\ a.vote_granted = grant
    OBVIOUS
  <1>9. r.out \subseteq Envelope
    BY <1>3, <1>6 DEF Envelope
  <1> HIDE DEF a, r
  <1>10. u.role # "Follower" => t = s /\ s.current_term > 0
    BY <1>2, <1>5 DEF Fit
  <1> QED
    BY <1>1, <1>2, <1>3, <1>5, <1>7, <1>8, <1>9, <1>10 DEF Sound, r

\* The votes for node i that a vote response brings in.
Ack(s, m) ==
    IF m.type = "RequestVoteResponse" /\ m.vote_granted
       /\ m.term = s.current_term
    THEN {m.from} ELSE {}

\* A vote response: only a candidate, in its own term, counts it.
LEMMA VoteResponseSound ==
    ASSUME NEW i \in Server, NEW s \in CoreState, Fit(s),
           NEW m \in RequestVoteResponse
    PROVE  Sound(i, s, handle_vote_response(i, s, m), Ack(s, m))
  <1> DEFINE r == handle_vote_response(i, s, m)
  <1>1. /\ m.term \in Nat /\ m.from \in Server /\ s.current_term \in Nat
        /\ m.type = "RequestVoteResponse"
    BY DEF RequestVoteResponse, CoreState
  <1>2. CASE m.term > s.current_term
    <2>1. r.core = become_follower(s, m.term) /\ r.out = {}
      BY <1>2 DEF handle_vote_response, Quiet, Outcome
    <2> HIDE DEF r
    <2>2. Sound(i, s, r, Ack(s, m))
      BY <1>1, <2>1, StepDownSound
    <2> QED BY <2>2 DEF r
  <1>3. CASE ~(m.term > s.current_term)
             /\ (s.role # "Candidate" \/ m.term # s.current_term)
    <2>1. r.core = s /\ r.out = {}
      BY <1>3 DEF handle_vote_response, Quiet, Outcome
    <2> HIDE DEF r
    <2>2. Sound(i, s, r, Ack(s, m))
      BY <2>1, IdleSound
    <2> QED BY <2>2 DEF r
  <1>4. CASE m.term = s.current_term /\ s.role = "Candidate"
    <2> DEFINE v == IF m.vote_granted THEN s.votes_received \cup {m.from}
                                      ELSE s.votes_received
               c == [s EXCEPT !.votes_received = v]
    <2>1. r = check_election_win(i, c)
      <3>1. CASE m.vote_granted
        BY <1>1, <1>4, <3>1 DEF handle_vote_response
      <3>2. CASE ~m.vote_granted
        <4>1. c = s
          BY <3>2 DEF CoreState
        <4>2. r = check_election_win(i, s)
          BY <1>1, <1>4, <3>2 DEF handle_vote_response
        <4> QED BY <4>1, <4>2
      <3> QED BY <3>1, <3>2
    <2>2. v \in SUBSET Server /\ v \subseteq s.votes_received \cup Ack(s, m)
      BY <1>1, <1>4 DEF CoreState, Ack
    <2> HIDE DEF v
    <2>3. /\ c \in CoreState /\ c.votes_received = v
          /\ c.current_term = s.current_term /\ c.voted_for = s.voted_for
          /\ c.role = s.role /\ c.last_applied = s.last_applied
          /\ c.commit_index = s.commit_index
      BY <2>2 DEF CoreState
    <2> HIDE DEF c, r
    <2>4. /\ r.core \in CoreState /\ r.out \subseteq AppendEntriesRequest
          /\ r.core.current_term = c.current_term
          /\ r.core.voted_for = c.voted_for
          /\ r.core.votes_received = c.votes_received
          /\ r.core.last_applied = c.last_applied
          /\ r.core.commit_index = c.commit_index
          /\ r.core.role # c.role => Cardinality(c.votes_received) >= majority
      BY <2>1, <2>3, WinSound
    <2>5. r.out \subseteq Envelope
          /\ \A a \in r.out : a.type # "RequestVoteResponse"
      BY <2>4 DEF Envelope, AppendEntriesRequest
    <2> QED
      BY <1>1, <1>4, <2>2, <2>3, <2>4, <2>5 DEF Sound, Fit, r
  <1> QED BY <1>1, <1>2, <1>3, <1>4

\* Merging a request's entries behind a position the log reaches gives a log.
LEMMA MergeType ==
    ASSUME NEW log \in Seq(Entry), NEW entries \in Seq(Entry),
           NEW prev \in Nat, prev <= Len(log)
    PROVE  merge_entries(log, prev, entries) \in Seq(Entry)
  <1> DEFINE differs(k) == \/ prev + k > Len(log)
                           \/ log[prev + k].term # entries[k].term
             first == CHOOSE k \in 1..Len(entries) :
                         differs(k) /\ \A j \in 1..(k - 1) : ~differs(j)
  <1>1. Len(log) \in Nat /\ Len(entries) \in Nat
    BY LenProperties
  <1>2. CASE \A k \in 1..Len(entries) : ~differs(k)
    BY <1>2 DEF merge_entries
  <1>3. CASE ~\A k \in 1..Len(entries) : ~differs(k)
    <2> DEFINE D == {k \in 1..Len(entries) : differs(k)}
    <2>1. D \subseteq Nat /\ D # {}
      BY <1>1, <1>3
    <2>2. PICK x \in D : \A y \in D : x <= y
      <3> HIDE DEF D
      <3> QED BY <2>1, LeastNat
    <2>3. x \in 1..Len(entries) /\ differs(x)
          /\ \A j \in 1..(x - 1) : ~differs(j)
      <3>1. x \in 1..Len(entries) /\ differs(x)
        BY <2>2
      <3>2. ASSUME NEW j \in 1..(x - 1)
            PROVE  ~differs(j)
        <4>1. j \in 1..Len(entries) /\ ~(x <= j)
          BY <3>1, <1>1
        <4>2. j \notin D
          BY <4>1, <2>2
        <4> QED BY <4>1, <4>2
      <3> QED BY <3>1, <3>2
    <2>4. first \in 1..Len(entries) /\ \A j \in 1..(first - 1) : ~differs(j)
      <3> HIDE DEF differs
      <3> QED BY <2>3
    <2>5. merge_entries(log, prev, entries) =
            SubSeq(log, 1, prev + first - 1)
              \o SubSeq(entries, first, Len(entries))
      BY <1>3 DEF merge_entries
    <2> HIDE DEF first
    <2>6. prev + first - 1 \in Nat /\ prev + first - 1 <= Len(log)
      <3>1. CASE first = 1
        BY <1>1, <3>1
      <3>2. CASE first # 1
        <4>1. first - 1 \in 1..(first - 1)
          BY <1>1, <2>4, <3>2
        <4>2. ~(prev + (first - 1) > Len(log))
          BY <2>4, <4>1
        <4> QED BY <1>1, <2>4, <4>2
      <3> QED BY <3>1, <3>2
    <2>7. SubSeq(log, 1, prev + first - 1) \in Seq(Entry)
      BY <2>6, TailType
    <2>8. SubSeq(entries, first, Len(entries)) \in Seq(Entry)
      BY <1>1, <2>4, TailType
    <2> QED BY <2>5, <2>7, <2>8, ConcatProperties
  <1> QED BY <1>2, <1>3

\* An AppendEntries: the follower's vote and term are as become_follower left
\* them, and it commits no further than its log reaches.
LEMMA AppendEntriesSound ==
    ASSUME NEW i \in Server, NEW s \in CoreState, Fit(s),
           NEW m \in AppendEntriesRequest
    PROVE  Sound(i, s, handle_append_entries(i, s, m), {})
  <1> DEFINE t == become_follower(s, m.term)
             u == [t EXCEPT !.log = merge_entries(@, m.prev_log_index,
                                                  m.entries)]
             limit == IF m.leader_commit < last_log_index(u)
                      THEN m.leader_commit ELSE last_log_index(u)
             v == IF m.leader_commit > u.commit_index
                  THEN [u EXCEPT !.commit_index = limit] ELSE u
             r == handle_append_entries(i, s, m)
  <1>1. /\ m.term \in Nat /\ m.from \in Server /\ m.leader_commit \in Nat
        /\ m.prev_log_index \in Nat /\ m.entries \in Seq(Entry)
    BY DEF AppendEntriesRequest
  <1>2. /\ t \in CoreState /\ t.role = "Follower"
        /\ t.last_applied = s.last_applied /\ t.commit_index = s.commit_index
        /\ t.current_term >= s.current_term
        /\ t.current_term = s.current_term => t.voted_for = s.voted_for
    BY <1>1, FollowerSound
  <1>3. ASSUME NEW x \in CoreState, NEW ok \in BOOLEAN
        PROVE  /\ append_reply(i, x, m, ok) \in AppendEntriesResponse
               /\ append_reply(i, x, m, ok).type # "RequestVoteResponse"
    <2>1. last_log_index(x) \in Nat /\ x.current_term \in Nat
      BY LenProperties DEF CoreState, last_log_index
    <2> QED BY <1>1, <2>1 DEF append_reply, AppendEntriesResponse
  <1>4. s.current_term \in Nat
    BY DEF CoreState
  <1>5. CASE m.term < s.current_term
    <2>1. r.core = s /\ r.out = {append_reply(i, s, m, FALSE)}
      BY <1>5 DEF handle_append_entries, Outcome
    <2> HIDE DEF r
    <2>2. r.out \subseteq Envelope
          /\ \A a \in r.out : a.type # "RequestVoteResponse"
      BY <1>3, <2>1 DEF Envelope
    <2>3. Sound(i, s, r, {})
      BY <2>1, <2>2, IdleSound
    <2> QED BY <2>3 DEF r
  <1>6. CASE ~(m.term < s.current_term) /\ ~prev_entry_matches(t, m)
    <2>1. r.core = t /\ r.out = {append_reply(i, t, m, FALSE)}
      BY <1>6 DEF handle_append_entries, Outcome
    <2> HIDE DEF r, t
    <2>2. r.out \subseteq Envelope
          /\ \A a \in r.out : a.type # "RequestVoteResponse"
      BY <1>2, <1>3, <2>1 DEF Envelope
    <2> QED BY <1>2, <2>1, <2>2 DEF Sound, r
  <1>7. CASE ~(m.term < s.current_term) /\ prev_entry_matches(t, m)
    <2>1. r.core = v /\ r.out = {append_reply(i, v, m, TRUE)}
      BY <1>7 DEF handle_append_entries, Outcome
    <2> HIDE DEF r, t
    <2>2. t.log \in Seq(Entry) /\ Len(t.log) \in Nat
      BY <1>2, LenProperties DEF CoreState
    <2>3. m.prev_log_index <= Len(t.log)
      BY <1>1, <1>7, <2>2 DEF prev_entry_matches, last_log_index
    <2>4. merge_entries(t.log, m.prev_log_index, m.entries) \in Seq(Entry)
      BY <1>1, <2>2, <2>3, MergeType
    <2>5. /\ u \in CoreState /\ u.role = t.role
          /\ u.last_applied = t.last_applied
          /\ u.commit_index = t.commit_index
          /\ u.current_term = t.current_term /\ u.voted_for = t.voted_for
      BY <1>2, <2>4 DEF CoreState
    <2> HIDE DEF u
    <2>6. last_log_index(u) \in Nat /\ last_log_index(u) = Len(u.log)
          /\ u.commit_index \in Nat
      BY <2>5, LenProperties DEF CoreState, last_log_index
    <2>7. limit \in Nat /\ limit <= Len(u.log)
      BY <1>1, <2>6
    <2> HIDE DEF limit
    <2>8. /\ v \in CoreState /\ v.role = u.role /\ v.log = u.log
          /\ v.last_applied = u.last_applied
          /\ v.current_term = u.current_term /\ v.voted_for = u.voted_for
      BY <2>5, <2>7 DEF CoreState
    <2>9. v.commit_index # u.commit_index => v.commit_index <= Len(v.log)
      BY <2>5, <2>7, <2>8 DEF CoreState
    <2> HIDE DEF v
    <2>10. r.out \subseteq Envelope
           /\ \A a \in r.out : a.type # "RequestVoteResponse"
      BY <1>3, <2>1, <2>8 DEF Envelope
    <2> QED
      BY <1>2, <2>1, <2>5, <2>8, <2>9, <2>10 DEF Sound, r
  <1> QED BY <1>5, <1>6, <1>7

\* An AppendEntries response: a leader, in its own term, keeps its role, term
\* and votes.
LEMMA AppendResponseSound ==
    ASSUME NEW i \in Server, NEW s \in CoreState, Fit(s),
           NEW m \in AppendEntriesResponse
    PROVE  Sound(i, s, handle_append_response(i, s, m), {})
  <1> DEFINE p == m.from
             k == [s EXCEPT !.match_index[p] = m.match_index,
                            !.next_index[p]  = m.match_index + 1]
             acked == advance_commit_index(i, k)
             back == [s EXCEPT !.next_index[p] = step_back(@)]
             r == handle_append_response(i, s, m)
  <1>1. /\ m.term \in Nat /\ p \in Server /\ m.match_index \in Nat
        /\ m.match_index + 1 \in Nat /\ s.current_term \in Nat
        /\ s.next_index \in [Server -> Nat] /\ s.match_index \in [Server -> Nat]
    BY DEF AppendEntriesResponse, CoreState
  <1>2. CASE m.term > s.current_term
    <2>1. r.core = become_follower(s, m.term) /\ r.out = {}
      BY <1>2 DEF handle_append_response, Quiet, Outcome
    <2> HIDE DEF r
    <2>2. Sound(i, s, r, {})
      BY <1>1, <2>1, StepDownSound
    <2> QED BY <2>2 DEF r
  <1>3. CASE ~(m.term > s.current_term)
             /\ (s.role # "Leader" \/ m.term # s.current_term)
    <2>1. r.core = s /\ r.out = {}
      BY <1>3 DEF handle_append_response, Quiet, Outcome
    <2> HIDE DEF r
    <2>2. Sound(i, s, r, {})
      BY <2>1, IdleSound
    <2> QED BY <2>2 DEF r
  <1>4. CASE m.term = s.current_term /\ s.role = "Leader"
    <2>1. s.current_term > 0
      BY <1>4 DEF Fit
    <2>2. CASE m.success
      <3>1. /\ k \in CoreState /\ k.current_term = s.current_term
            /\ k.voted_for = s.voted_for /\ k.role = s.role
            /\ k.votes_received = s.votes_received
            /\ k.last_applied = s.last_applied
            /\ k.commit_index = s.commit_index
        BY <1>1 DEF CoreState
      <3> HIDE DEF k
      <3>2. /\ acked \in CoreState
            /\ acked.current_term = k.current_term
            /\ acked.voted_for = k.voted_for /\ acked.role = k.role
            /\ acked.votes_received = k.votes_received
            /\ acked.last_applied = k.last_applied
            /\ acked.commit_index # k.commit_index =>
                  acked.commit_index <= Len(acked.log)
        BY <2>1, <3>1, AdvanceSound
      <3>3. \/ r = replicate_to_all_peers(i, acked)
            \/ r.core = acked /\ r.out = {}
        BY <1>1, <1>4, <2>2 DEF handle_append_response, Quiet, Outcome, k
      <3> HIDE DEF acked, r
      <3>4. r.core = acked /\ r.out \subseteq AppendEntriesRequest
        BY <3>2, <3>3, ReplicateOut
      <3>5. r.out \subseteq Envelope
            /\ \A a \in r.out : a.type # "RequestVoteResponse"
        BY <3>4 DEF Envelope, AppendEntriesRequest
      <3>6. Sound(i, s, r, {})
        BY <1>1, <1>4, <2>1, <3>1, <3>2, <3>4, <3>5 DEF Sound
      <3> QED BY <3>6 DEF r
    <2>3. CASE ~m.success
      <3>1. step_back(s.next_index[p]) \in Nat
        BY <1>1 DEF step_back
      <3>2. /\ back \in CoreState /\ back.current_term = s.current_term
            /\ back.voted_for = s.voted_for /\ back.role = s.role
            /\ back.votes_received = s.votes_received
            /\ back.last_applied = s.last_applied
            /\ back.commit_index = s.commit_index
        BY <1>1, <3>1 DEF CoreState
      <3>3. r.core = back /\ r.out = {append_entries_for(i, back, p)}
        BY <1>1, <1>4, <2>3 DEF handle_append_response, Outcome
      <3> HIDE DEF back, r
      <3>4. append_entries_for(i, back, p) \in AppendEntriesRequest
        BY <1>1, <3>2, AppendEntriesType
      <3>5. r.out \subseteq Envelope
            /\ \A a \in r.out : a.type # "RequestVoteResponse"
        BY <3>3, <3>4 DEF Envelope, AppendEntriesRequest
      <3>6. Sound(i, s, r, {})
        BY <1>1, <1>4, <2>1, <3>2, <3>3, <3>5 DEF Sound
      <3> QED BY <3>6 DEF r
    <2> QED BY <2>2, <2>3
  <1> QED BY <1>1, <1>2, <1>3, <1>4

\* Any envelope that node i receives.
LEMMA ReceiveSound ==
    ASSUME NEW i \in Server, NEW s \in CoreState, Fit(s), NEW m \in Envelope
    PROVE  Sound(i, s, receive(i, s, m), Ack(s, m))
  <1>1. CASE m \in RequestVoteRequest
    <2>1. receive(i, s, m) = handle_request_vote(i, s, m) /\ Ack(s, m) = {}
      BY <1>1 DEF receive, Ack, RequestVoteRequest
    <2> QED BY <1>1, <2>1, RequestVoteSound
  <1>2. CASE m \in RequestVoteResponse
    <2>1. receive(i, s, m) = handle_vote_response(i, s, m)
      BY <1>2 DEF receive, RequestVoteResponse
    <2> QED BY <1>2, <2>1, VoteResponseSound
  <1>3. CASE m \in AppendEntriesRequest
    <2>1. receive(i, s, m) = handle_append_entries(i, s, m) /\ Ack(s, m) = {}
      BY <1>3 DEF receive, Ack, AppendEntriesRequest
    <2> QED BY <1>3, <2>1, AppendEntriesSound
  <1>4. CASE m \in AppendEntriesResponse
    <2>1. receive(i, s, m) = handle_append_response(i, s, m) /\ Ack(s, m) = {}
      BY <1>4 DEF receive, Ack, AppendEntriesResponse
    <2> QED BY <1>4, <2>1, AppendResponseSound
  <1> QED
    BY <1>1, <1>2, <1>3, <1>4 DEF Envelope

\* A tick of a leader changes nothing; any other starts an election.  Neither
\* touches the log, so what run_engine leaves unsaved is saved already.
LEMMA TickSound ==
    ASSUME NEW i \in Server, NEW s \in CoreState, Fit(s)
    PROVE  /\ Sound(i, s, tick(i, s), {})
           /\ tick(i, s).core.log = s.log
  <1>1. CASE s.role = "Leader"
    <2> DEFINE r == replicate_to_all_peers(i, s)
    <2>1. tick(i, s) = r
      BY <1>1 DEF tick
    <2>2. r.core = s /\ r.out \subseteq AppendEntriesRequest
      BY ReplicateOut
    <2> HIDE DEF r
    <2>3. r.out \subseteq Envelope
          /\ \A a \in r.out : a.type # "RequestVoteResponse"
      BY <2>2 DEF Envelope, AppendEntriesRequest
    <2>4. Sound(i, s, r, {})
      BY <2>2, <2>3, IdleSound
    <2> QED BY <2>1, <2>2, <2>4
  <1>2. CASE s.role # "Leader"
    BY <1>2, ElectionSound DEF tick
  <1> QED BY <1>1, <1>2

-----------------------------------------------------------------------------
(* The inductive invariant.  Beside the types and the ledger of votes it   *)
(* says that nothing is left to apply between two inputs, which keeps      *)
(* take_newly_committed inside the log.                                    *)

Drained == \A i \in Server : core[i].commit_index <= core[i].last_applied

AllFit == \A i \in Server : Fit(core[i])

IInv == TypeOK /\ Drained /\ AllFit /\ VoteLedger

\* What persist_state writes has the type of the file.
LEMMA PersistentType ==
    ASSUME NEW s \in CoreState
    PROVE  persistent_state(s) \in DiskState
  BY DEF persistent_state, CoreState, DiskState

\* A restarted node is a follower with the stored term, vote and log.
LEMMA RestoreSound ==
    ASSUME NEW s \in CoreState
    PROVE  LET t == restore(persistent_state(s))
           IN  /\ t \in CoreState
               /\ t.current_term = s.current_term
               /\ t.voted_for = s.voted_for /\ t.log = s.log
               /\ t.role = "Follower"
               /\ t.commit_index = 0 /\ t.last_applied = 0
               /\ persistent_state(t) = persistent_state(s)
  <1>1. << >> \in Seq(Entry)
    OBVIOUS
  <1>2. new \in CoreState
    BY <1>1 DEF new, CoreState, Role
  <1>3. /\ s.current_term \in Nat /\ s.voted_for \in Server \cup {Nil}
        /\ s.log \in Seq(Entry)
    BY DEF CoreState
  <1>4. restore(persistent_state(s)) =
          [new EXCEPT !.current_term = s.current_term,
                      !.voted_for = s.voted_for, !.log = s.log]
    BY DEF restore, persistent_state
  <1>5. /\ new.role = "Follower" /\ new.commit_index = 0
        /\ new.last_applied = 0
    BY DEF new
  <1> DEFINE t == restore(persistent_state(s))
  <1>6. /\ t \in CoreState /\ t.current_term = s.current_term
        /\ t.voted_for = s.voted_for /\ t.log = s.log /\ t.role = "Follower"
        /\ t.commit_index = 0 /\ t.last_applied = 0
    BY <1>2, <1>3, <1>4, <1>5 DEF CoreState
  <1>7. persistent_state(t) = persistent_state(s)
    <2> HIDE DEF t
    <2> QED BY <1>6 DEF persistent_state
  <1> QED BY <1>6, <1>7

\* Draining the committed entries touches last_applied only.
LEMMA TakeSound ==
    ASSUME NEW s \in CoreState
    PROVE  LET t == take_newly_committed(s)
           IN  /\ t \in CoreState
               /\ t.current_term = s.current_term
               /\ t.voted_for = s.voted_for /\ t.role = s.role
               /\ t.votes_received = s.votes_received
               /\ t.commit_index <= t.last_applied
               /\ persistent_state(t) = persistent_state(s)
  <1> DEFINE n == IF s.commit_index > s.last_applied
                  THEN s.commit_index ELSE s.last_applied
  <1>1. s.commit_index \in Nat /\ s.last_applied \in Nat
    BY DEF CoreState
  <1>2. n \in Nat /\ s.commit_index <= n
    BY <1>1
  <1>3. take_newly_committed(s) = [s EXCEPT !.last_applied = n]
    BY DEF take_newly_committed
  <1> HIDE DEF n
  <1> QED
    BY <1>2, <1>3 DEF CoreState, persistent_state

\* The entries a pass applies are entries of the log: between two inputs
\* nothing waits, and what this call committed it committed within the log.
LEMMA CommittedInLog ==
    ASSUME NEW i \in Server, NEW s \in CoreState, NEW r, NEW ack,
           s.commit_index <= s.last_applied, Sound(i, s, r, ack)
    PROVE  /\ newly_committed(r.core) \in Seq(Entry)
           /\ \A k \in (r.core.last_applied + 1)..r.core.commit_index :
                 k \in Nat /\ r.core.log[k] \in Entry
           /\ \A n \in 0..Len(newly_committed(r.core)) :
                 n > 0 => r.core.last_applied + n <= r.core.commit_index
  <1> DEFINE t == r.core
  <1>1. /\ t \in CoreState /\ t.last_applied = s.last_applied
        /\ t.commit_index # s.commit_index => t.commit_index <= Len(t.log)
    BY DEF Sound
  <1> HIDE DEF t
  <1>2. /\ t.last_applied \in Nat /\ t.commit_index \in Nat
        /\ t.log \in Seq(Entry) /\ Len(t.log) \in Nat
        /\ s.commit_index \in Nat /\ s.last_applied \in Nat
    BY <1>1, LenProperties DEF CoreState
  <1>3. ASSUME NEW k \in (t.last_applied + 1)..t.commit_index
        PROVE  k \in Nat /\ t.log[k] \in Entry
    <2>1. k \in 1..Len(t.log)
      BY <1>1, <1>2, <1>3
    <2> QED BY <1>2, <2>1, ElementOfSeq
  <1>4. /\ SubSeq(t.log, t.last_applied + 1, t.commit_index) \in Seq(Entry)
        /\ Len(SubSeq(t.log, t.last_applied + 1, t.commit_index)) =
              IF t.last_applied + 1 <= t.commit_index
              THEN t.commit_index - (t.last_applied + 1) + 1 ELSE 0
    <2>1. t.last_applied + 1 \in Int /\ t.commit_index \in Int
      BY <1>2
    <2> QED BY <1>3, <2>1, SubSeqProperties
  <1>5. newly_committed(t) =
          SubSeq(t.log, t.last_applied + 1, t.commit_index)
    BY DEF newly_committed
  <1>6. ASSUME NEW n \in 0..Len(newly_committed(t)), n > 0
        PROVE  t.last_applied + n <= t.commit_index
    BY <1>2, <1>4, <1>5, <1>6
  <1> QED
    BY <1>3, <1>4, <1>5, <1>6 DEF t

\* What a pass of run_engine does to the state the ledger speaks of, whether
\* it completes or dies after persist_state.
Ran(i, r) ==
    /\ disk' = [disk EXCEPT ![i] = persistent_state(r.core)]
    /\ \E c \in {take_newly_committed(r.core),
                 restore(persistent_state(r.core))} :
          core' = [core EXCEPT ![i] = c]
    /\ net' \subseteq net \cup r.out
    /\ votes' = votes \cup
          (IF r.core.voted_for = Nil THEN {}
           ELSE {<<i, r.core.current_term, r.core.voted_for>>})
    /\ elected' = elected \cup
          (IF r.core.role = "Leader" THEN {<<r.core.current_term, i>>} ELSE {})

\* The ledger survives a pass: a node stores a second vote only in a later
\* term, answers with the vote it stored, and wins with votes that are stored.
LEMMA LedgerStep ==
    ASSUME NEW i \in Server, NEW r, NEW ack, IInv,
           Sound(i, core[i], r, ack), Ran(i, r),
           \A p \in ack : <<p, core[i].current_term, i>> \in votes
    PROVE  VoteLedger'
  <1> DEFINE s == core[i]
             u == r.core
  <1>0. /\ core \in [Server -> CoreState] /\ disk \in [Server -> DiskState]
        /\ votes \subseteq Server \X Nat \X Server
        /\ elected \subseteq Nat \X Server /\ net \subseteq Envelope
    BY DEF IInv, TypeOK
  <1>1. s \in CoreState /\ u \in CoreState /\ u.current_term >= s.current_term
        /\ u.current_term \in Nat /\ s.current_term \in Nat
        /\ u.voted_for \in Server \cup {Nil} /\ u.votes_received \subseteq Server
    BY <1>0 DEF Sound, CoreState
  <1>2. u.current_term = s.current_term /\ s.voted_for # Nil
          => u.voted_for = s.voted_for
    BY DEF Sound
  <1>3. PICK c : /\ core' = [core EXCEPT ![i] = c]
                 /\ c \in {take_newly_committed(u),
                           restore(persistent_state(u))}
    BY DEF Ran
  <1>4. /\ c.current_term = u.current_term /\ c.voted_for = u.voted_for
        /\ persistent_state(c) = persistent_state(u)
        /\ c.role # "Follower" =>
              c.role = u.role /\ c.votes_received = u.votes_received
    <2>1. CASE c = take_newly_committed(u)
      BY <1>1, <2>1, TakeSound
    <2>2. CASE c = restore(persistent_state(u))
      BY <1>1, <2>2, RestoreSound
    <2> QED BY <1>3, <2>1, <2>2
  <1>5. core'[i] = c /\ \A j \in Server : j # i => core'[j] = core[j]
    BY <1>0, <1>3
  <1>6. \A v : v \in votes' <=>
           \/ v \in votes
           \/ u.voted_for # Nil /\ v = <<i, u.current_term, u.voted_for>>
    BY DEF Ran
  <1>7. votes \subseteq votes'
    BY <1>6
  <1>8. /\ Synced /\ VotesCurrent /\ VotesStored /\ OneVotePerTerm
        /\ GrantsStored /\ CountedStored /\ LeadersBacked
    BY DEF IInv, VoteLedger
  <1> HIDE DEF u
  <1>9. Synced'
    <2>1. disk' = [disk EXCEPT ![i] = persistent_state(u)]
      BY DEF Ran, u
    <2>2. \A j \in Server : j # i => disk'[j] = disk[j]
      BY <1>0, <2>1
    <2>3. disk'[i] = persistent_state(u)
      BY <1>0, <2>1
    <2> QED BY <1>4, <1>5, <1>8, <2>2, <2>3 DEF Synced, persistent_state
  <1>10. ASSUME NEW v \in votes
         PROVE  /\ v[2] <= core'[v[1]].current_term
                /\ v[2] = core'[v[1]].current_term
                     => v[3] = core'[v[1]].voted_for
    <2>1. v[1] \in Server /\ v[2] \in Nat /\ v[3] \in Server
      BY <1>0
    <2>2. /\ v[2] <= core[v[1]].current_term
          /\ v[2] = core[v[1]].current_term => v[3] = core[v[1]].voted_for
      BY <1>8 DEF VotesCurrent
    <2>3. CASE v[1] # i
      BY <1>5, <2>1, <2>2, <2>3
    <2>4. CASE v[1] = i
      <3>1. v[2] <= u.current_term
        BY <1>1, <2>1, <2>2, <2>4
      <3>2. ASSUME v[2] = u.current_term
            PROVE  v[3] = u.voted_for
        <4>1. v[2] = s.current_term
          BY <1>1, <2>1, <2>2, <2>4, <3>2
        <4>2. v[3] = s.voted_for
          BY <2>2, <2>4, <4>1
        <4>3. s.voted_for # Nil
          BY <2>1, <4>2, ServerAssumption
        <4> QED BY <1>2, <3>2, <4>1, <4>2, <4>3
      <3> QED BY <1>4, <1>5, <2>4, <3>1, <3>2
    <2> QED BY <2>3, <2>4
  <1>11. VotesCurrent'
    <2>1. ASSUME NEW v \in votes'
          PROVE  /\ v[2] <= core'[v[1]].current_term
                 /\ v[2] = core'[v[1]].current_term
                      => v[3] = core'[v[1]].voted_for
      <3>1. CASE v \in votes
        BY <1>10, <3>1
      <3>2. CASE v = <<i, u.current_term, u.voted_for>>
        BY <1>1, <1>4, <1>5, <3>2
      <3> QED BY <1>6, <3>1, <3>2
    <2> QED BY <2>1 DEF VotesCurrent
  <1>12. VotesStored'
    BY <1>4, <1>5, <1>6, <1>8 DEF VotesStored
  <1>13. OneVotePerTerm'
    <2>1. ASSUME NEW v \in votes, u.voted_for # Nil, v[1] = i,
                 v[2] = u.current_term
          PROVE  v[3] = u.voted_for
      BY <1>4, <1>5, <1>10, <2>1
    <2>2. ASSUME NEW v \in votes', NEW w \in votes', v[1] = w[1], v[2] = w[2]
          PROVE  v[3] = w[3]
      <3>1. CASE v \in votes /\ w \in votes
        BY <1>8, <2>2, <3>1 DEF OneVotePerTerm
      <3>2. CASE v \in votes /\ u.voted_for # Nil
                 /\ w = <<i, u.current_term, u.voted_for>>
        BY <2>1, <2>2, <3>2
      <3>3. CASE w \in votes /\ u.voted_for # Nil
                 /\ v = <<i, u.current_term, u.voted_for>>
        BY <2>1, <2>2, <3>3
      <3>4. CASE v = <<i, u.current_term, u.voted_for>>
                 /\ w = <<i, u.current_term, u.voted_for>>
        BY <3>4
      <3> QED BY <1>6, <3>1, <3>2, <3>3, <3>4
    <2> QED BY <2>2 DEF OneVotePerTerm
  <1>14. GrantsStored'
    <2>1. ASSUME NEW m \in net', m.type = "RequestVoteResponse", m.vote_granted
          PROVE  <<m.from, m.term, m.to>> \in votes'
      <3>1. CASE m \in net
        BY <1>7, <1>8, <2>1, <3>1 DEF GrantsStored
      <3>2. CASE m \in r.out
        <4>1. m.from = i /\ m.term = u.current_term /\ m.to = u.voted_for
              /\ m \in Envelope
          BY <2>1, <3>2 DEF Sound, u
        <4>2. m.to \in Server
          BY <4>1 DEF Envelope, RequestVoteRequest, RequestVoteResponse,
                      AppendEntriesRequest, AppendEntriesResponse
        <4>3. u.voted_for # Nil
          BY <4>1, <4>2, ServerAssumption
        <4> QED BY <1>6, <4>1, <4>3
      <3> QED BY <3>1, <3>2 DEF Ran
    <2> QED BY <2>1 DEF GrantsStored
  <1>15. ASSUME u.role # "Follower", NEW p \in u.votes_received
         PROVE  <<p, u.current_term, i>> \in votes'
    <2>1. \/ /\ s.role # "Follower" /\ u.current_term = s.current_term
             /\ u.votes_received \subseteq s.votes_received \cup ack
          \/ u.votes_received = {i} /\ u.voted_for = i
      BY <1>15 DEF Sound, u
    <2>2. CASE /\ s.role # "Follower" /\ u.current_term = s.current_term
               /\ u.votes_received \subseteq s.votes_received \cup ack
      BY <1>7, <1>8, <1>15, <2>2 DEF CountedStored
    <2>3. CASE u.votes_received = {i} /\ u.voted_for = i
      BY <1>6, <1>15, <2>3, ServerAssumption
    <2> QED BY <2>1, <2>2, <2>3
  <1>16. CountedStored'
    <2>1. ASSUME NEW j \in Server, core'[j].role # "Follower",
                 NEW p \in core'[j].votes_received
          PROVE  <<p, core'[j].current_term, j>> \in votes'
      <3>1. CASE j = i
        BY <1>4, <1>5, <1>15, <2>1, <3>1
      <3>2. CASE j # i
        BY <1>5, <1>7, <1>8, <2>1, <3>2 DEF CountedStored
      <3> QED BY <3>1, <3>2
    <2> QED BY <2>1 DEF CountedStored
  <1>17. LeadersBacked'
    <2>1. \A e : e \in elected' <=>
             e \in elected \/ (u.role = "Leader" /\ e = <<u.current_term, i>>)
      BY DEF Ran, u
    <2>2. ASSUME NEW e \in elected
          PROVE  Cardinality(Backers(e)') >= majority
      <3>1. Backers(e) \subseteq Backers(e)' /\ Backers(e)' \subseteq Server
        BY <1>7 DEF Backers
      <3>2. IsFiniteSet(Backers(e)')
        BY <3>1, FS_Subset, ServerAssumption
      <3>3. /\ Cardinality(Backers(e)) <= Cardinality(Backers(e)')
            /\ Cardinality(Backers(e)) \in Nat
            /\ Cardinality(Backers(e)') \in Nat
        BY <3>1, <3>2, FS_Subset, FS_CardinalityType
      <3>4. majority \in Nat
        BY FS_CardinalityType, ServerAssumption DEF majority
      <3>5. Cardinality(Backers(e)) >= majority
        BY <1>8 DEF LeadersBacked
      <3> QED BY <3>3, <3>4, <3>5
    <2>3. ASSUME u.role = "Leader"
          PROVE  \/ <<u.current_term, i>> \in elected
                 \/ Cardinality(Backers(<<u.current_term, i>>)') >= majority
      <3>1. \/ s.role = "Leader" /\ u.current_term = s.current_term
            \/ Cardinality(u.votes_received) >= majority
        BY <2>3 DEF Sound, u
      <3>2. CASE s.role = "Leader" /\ u.current_term = s.current_term
        BY <1>8, <3>2 DEF LeadersBacked
      <3>3. CASE Cardinality(u.votes_received) >= majority
        <4> DEFINE B == Backers(<<u.current_term, i>>)'
        <4>1. B = {p \in Server : <<p, u.current_term, i>> \in votes'}
          BY DEF Backers
        <4>2. u.votes_received \subseteq B /\ B \subseteq Server
          BY <1>1, <1>15, <2>3, <4>1
        <4> HIDE DEF B
        <4>3. IsFiniteSet(B)
          BY <4>2, FS_Subset, ServerAssumption
        <4>4. /\ Cardinality(u.votes_received) <= Cardinality(B)
              /\ IsFiniteSet(u.votes_received)
          BY <4>2, <4>3, FS_Subset
        <4>5. Cardinality(u.votes_received) \in Nat /\ Cardinality(B) \in Nat
              /\ majority \in Nat
          BY <4>3, <4>4, FS_CardinalityType, ServerAssumption DEF majority
        <4>6. Cardinality(B) >= majority
          BY <3>3, <4>4, <4>5
        <4> QED BY <4>6 DEF B
      <3> QED BY <3>1, <3>2, <3>3
    <2>4. ASSUME NEW e \in elected'
          PROVE  Cardinality(Backers(e)') >= majority
      BY <2>1, <2>2, <2>3
    <2>5. ASSUME NEW j \in Server, core'[j].role = "Leader"
          PROVE  <<core'[j].current_term, j>> \in elected'
      <3>1. CASE j = i
        BY <1>4, <1>5, <2>1, <2>5, <3>1
      <3>2. CASE j # i
        BY <1>5, <1>8, <2>1, <2>5, <3>2 DEF LeadersBacked
      <3> QED BY <3>1, <3>2
    <2>6. majority' = majority
      BY DEF majority
    <2> QED BY <2>4, <2>5, <2>6 DEF LeadersBacked
  <1> QED
    BY <1>9, <1>11, <1>12, <1>13, <1>14, <1>16, <1>17 DEF VoteLedger

-----------------------------------------------------------------------------
(* One pass of run_engine preserves the invariant.                         *)

\* What a pass that does not panic leaves behind, up to the file it wrote: a
\* skipped write is one that would have changed nothing.
LEMMA PassRan ==
    ASSUME NEW i \in Server, NEW r, NEW changed, NEW rest, TypeOK,
           rest \subseteq net,
           changed \/ persistent_state(r.core) = disk[i],
           Complete(i, r, changed, rest) \/ CrashAfterPersist(i, r, changed, rest)
    PROVE  Ran(i, r)
  <1>1. disk \in [Server -> DiskState] /\ core \in [Server -> CoreState]
    BY DEF TypeOK
  <1>2. disk' = [disk EXCEPT ![i] = persistent_state(r.core)]
    <2>1. disk' = IF changed THEN [disk EXCEPT ![i] = persistent_state(r.core)]
                  ELSE disk
      BY DEF Complete, CrashAfterPersist, persist_state
    <2>2. CASE changed
      BY <2>1, <2>2
    <2>3. CASE ~changed
      BY <1>1, <2>1, <2>3
    <2> QED BY <2>2, <2>3
  <1>3. disk'[i] = persistent_state(r.core)
    BY <1>1, <1>2
  <1>4. core' = [core EXCEPT ![i] = take_newly_committed(r.core)]
        \/ core' = [core EXCEPT ![i] = restore(persistent_state(r.core))]
    BY <1>3 DEF Complete, CrashAfterPersist
  <1>5. net' \subseteq net \cup r.out
    BY DEF Complete, CrashAfterPersist, send_envelopes
  <1>6. /\ votes' = votes \cup
              (IF r.core.voted_for = Nil THEN {}
               ELSE {<<i, r.core.current_term, r.core.voted_for>>})
        /\ elected' = elected \cup
              (IF r.core.role = "Leader" THEN {<<r.core.current_term, i>>}
               ELSE {})
    BY DEF Complete, CrashAfterPersist, Record
  <1> QED
    BY <1>2, <1>4, <1>5, <1>6 DEF Ran

\* The last of some entries decides what the Store shows.
LEMMA ApplyType ==
    ASSUME NEW i \in Server, NEW q \in Seq(Entry), TypeOK,
           apply_to_store(i, q)
    PROVE  store' \in [Server -> Command \cup {Nil}]
  <1>1. store \in [Server -> Command \cup {Nil}]
    BY DEF TypeOK
  <1>2. CASE q = << >>
    BY <1>1, <1>2 DEF apply_to_store
  <1>3. CASE q # << >>
    <2>1. Len(q) \in 1..Len(q)
      BY <1>3, LenProperties, EmptySeq
    <2>2. q[Len(q)] \in Entry
      BY <2>1, ElementOfSeq
    <2>3. q[Len(q)].command \in Command
      BY <2>2 DEF Entry
    <2> QED BY <1>1, <1>3, <2>3 DEF apply_to_store
  <1> QED BY <1>2, <1>3

\* A pass leaves every variable in its type, nothing to apply and no leader
\* or candidate in term 0.
LEMMA PassTypes ==
    ASSUME NEW i \in Server, NEW r, NEW ack, NEW changed, NEW rest, IInv,
           Sound(i, core[i], r, ack), Ran(i, r),
           overclaimed' \in BOOLEAN,
           Complete(i, r, changed, rest) \/ CrashAfterPersist(i, r, changed, rest)
    PROVE  TypeOK' /\ Drained' /\ AllFit'
  <1> DEFINE s == core[i]
             u == r.core
  <1>0. TypeOK /\ Drained /\ AllFit
    BY DEF IInv
  <1>1. core \in [Server -> CoreState] /\ disk \in [Server -> DiskState]
    BY <1>0 DEF TypeOK
  <1>2. u \in CoreState /\ s \in CoreState
    BY <1>1 DEF Sound
  <1>3. u.role # "Follower" => u.current_term > 0
    BY DEF Sound
  <1>4. /\ newly_committed(u) \in Seq(Entry)
        /\ \A k \in (u.last_applied + 1)..u.commit_index :
              k \in Nat /\ u.log[k] \in Entry
        /\ \A n \in 0..Len(newly_committed(u)) :
              n > 0 => u.last_applied + n <= u.commit_index
    BY <1>0, <1>2, CommittedInLog DEF Drained
  <1>5. /\ u.current_term \in Nat /\ u.voted_for \in Server \cup {Nil}
        /\ u.last_applied \in Nat /\ u.commit_index \in Nat
    BY <1>2 DEF CoreState
  <1> HIDE DEF u
  <1>6. PICK c : /\ core' = [core EXCEPT ![i] = c]
                 /\ c \in {take_newly_committed(u),
                           restore(persistent_state(u))}
    BY DEF Ran, u
  <1>7. /\ c \in CoreState /\ c.commit_index <= c.last_applied
        /\ c.role # "Follower" => c.current_term > 0
    <2>1. CASE c = take_newly_committed(u)
      BY <1>2, <1>3, <2>1, TakeSound
    <2>2. CASE c = restore(persistent_state(u))
      BY <1>2, <2>2, RestoreSound
    <2> QED BY <1>6, <2>1, <2>2
  <1>8. core' \in [Server -> CoreState] /\ Drained' /\ AllFit'
    <2>1. core'[i] = c /\ \A j \in Server : j # i => core'[j] = core[j]
      BY <1>1, <1>6
    <2>2. core' \in [Server -> CoreState]
      BY <1>1, <1>6, <1>7
    <2>3. Drained'
      BY <1>0, <1>7, <2>1 DEF Drained
    <2>4. AllFit'
      BY <1>0, <1>7, <2>1 DEF AllFit, Fit
    <2> QED BY <2>2, <2>3, <2>4
  <1>9. disk' \in [Server -> DiskState]
    BY <1>1, <1>2, PersistentType DEF Ran, u
  <1>10. net' \subseteq Envelope
    BY <1>0 DEF TypeOK, Ran, Sound
  <1>11. /\ votes' \subseteq Server \X Nat \X Server
         /\ elected' \subseteq Nat \X Server
    BY <1>0, <1>5 DEF TypeOK, Ran, u
  <1>12. restarts' \in Nat /\ panicked' \subseteq Server
    BY <1>0 DEF TypeOK, Complete, CrashAfterPersist
  <1>13. ASSUME NEW upto \in Int, Record(i, u, upto),
                \A k \in (u.last_applied + 1)..upto : k <= u.commit_index
         PROVE  applied' \subseteq Server \X Nat \X Entry \X Nat
    <2>1. applied' = applied \cup
             {<<i, k, u.log[k], u.current_term>> : k \in (u.last_applied + 1)..upto}
      BY <1>13 DEF Record
    <2>2. ASSUME NEW k \in (u.last_applied + 1)..upto
          PROVE  <<i, k, u.log[k], u.current_term>> \in Server \X Nat \X Entry \X Nat
      <3>1. k \in (u.last_applied + 1)..u.commit_index
        BY <1>5, <1>13, <2>2
      <3> QED BY <1>4, <1>5, <3>1
    <2> QED BY <1>0, <2>1, <2>2 DEF TypeOK
  <1>14. CASE Complete(i, r, changed, rest)
    <2>1. store' \in [Server -> Command \cup {Nil}]
      BY <1>0, <1>4, <1>14, ApplyType DEF Complete, u
    <2>2. applied' \subseteq Server \X Nat \X Entry \X Nat
      <3>1. Record(i, u, u.commit_index)
        BY <1>14 DEF Complete, u
      <3> QED BY <1>5, <1>13, <3>1
    <2> QED
      BY <1>8, <1>9, <1>10, <1>11, <1>12, <2>1, <2>2 DEF TypeOK
  <1>15. CASE CrashAfterPersist(i, r, changed, rest)
    <2>1. PICK n \in 0..Len(newly_committed(u)) :
             /\ apply_to_store(i, SubSeq(newly_committed(u), 1, n))
             /\ Record(i, u, u.last_applied + n)
      BY <1>15 DEF CrashAfterPersist, u
    <2>2. n \in Nat /\ n <= Len(newly_committed(u))
      BY <1>4, <2>1, LenProperties
    <2>3. SubSeq(newly_committed(u), 1, n) \in Seq(Entry)
      BY <1>4, <2>2, TailType
    <2>4. store' \in [Server -> Command \cup {Nil}]
      BY <1>0, <2>1, <2>3, ApplyType
    <2>5. \A k \in (u.last_applied + 1)..(u.last_applied + n) :
             k <= u.commit_index
      BY <1>4, <1>5, <2>1, <2>2
    <2>6. applied' \subseteq Server \X Nat \X Entry \X Nat
      BY <1>5, <1>13, <2>1, <2>2, <2>5
    <2> QED
      BY <1>8, <1>9, <1>10, <1>11, <1>12, <2>4, <2>6 DEF TypeOK
  <1> QED BY <1>14, <1>15

\* A panic only consumes an input.
LEMMA PanicStep ==
    ASSUME NEW i \in Server, NEW r, NEW rest, IInv, rest \subseteq net,
           overclaimed' \in BOOLEAN, Panic(i, r, rest)
    PROVE  IInv'
  <1>1. /\ UNCHANGED <<core, disk, store, restarts, votes, elected, applied>>
        /\ net' \subseteq net /\ panicked' = panicked \cup {i}
    BY DEF Panic
  <1>2. TypeOK' /\ Drained' /\ AllFit'
    BY <1>1 DEF IInv, TypeOK, Drained, AllFit
  <1>3. /\ Synced' /\ VotesCurrent' /\ VotesStored' /\ OneVotePerTerm'
        /\ CountedStored'
    BY <1>1 DEF IInv, VoteLedger, Synced, VotesCurrent, VotesStored,
                OneVotePerTerm, CountedStored
  <1>4. GrantsStored'
    BY <1>1 DEF IInv, VoteLedger, GrantsStored
  <1>5. LeadersBacked'
    BY <1>1 DEF IInv, VoteLedger, LeadersBacked, Backers, majority
  <1> QED
    BY <1>2, <1>3, <1>4, <1>5 DEF IInv, VoteLedger

\* A pass, whichever way it ends.
LEMMA EngineStep ==
    ASSUME NEW i \in Server, NEW r, NEW ack, NEW changed, NEW rest, IInv,
           Sound(i, core[i], r, ack), rest \subseteq net,
           changed \/ persistent_state(r.core) = disk[i],
           \A p \in ack : <<p, core[i].current_term, i>> \in votes,
           overclaimed' \in BOOLEAN, run_engine(i, r, changed, rest)
    PROVE  IInv' /\ (Ran(i, r) \/ disk' = disk)
  <1>1. CASE Complete(i, r, changed, rest) \/ CrashAfterPersist(i, r, changed, rest)
    <2>1. TypeOK
      BY DEF IInv
    <2>2. Ran(i, r)
      BY <1>1, <2>1, PassRan
    <2>3. TypeOK' /\ Drained' /\ AllFit'
      BY <1>1, <2>2, PassTypes
    <2>4. VoteLedger'
      BY <2>2, LedgerStep
    <2> QED BY <2>2, <2>3, <2>4 DEF IInv
  <1>2. CASE Panic(i, r, rest)
    BY <1>2, PanicStep DEF Panic
  <1> QED BY <1>1, <1>2 DEF run_engine

\* What each action asks of the core, and the votes it brings: the premises
\* of EngineStep.
LEMMA ReceiveStep ==
    ASSUME IInv, NEW m \in net, Receive(m)
    PROVE  /\ IInv'
           /\ \/ disk' = disk
              \/ Ran(m.to, receive(m.to, core[m.to], m))
  <1> DEFINE i == m.to
             r == receive(i, core[i], m)
  <1>1. /\ m \in Envelope /\ core \in [Server -> CoreState]
        /\ overclaimed \in BOOLEAN
    BY DEF IInv, TypeOK
  <1>2. i \in Server
    BY <1>1 DEF Envelope, RequestVoteRequest, RequestVoteResponse,
                AppendEntriesRequest, AppendEntriesResponse
  <1>3. Sound(i, core[i], r, Ack(core[i], m))
    BY <1>1, <1>2, ReceiveSound DEF IInv, AllFit
  <1>4. \A p \in Ack(core[i], m) : <<p, core[i].current_term, i>> \in votes
    BY DEF Ack, IInv, VoteLedger, GrantsStored
  <1>5. PICK rest : rest \subseteq net /\ run_engine(i, r, TRUE, rest)
    BY DEF Receive
  <1>6. overclaimed' \in BOOLEAN
    BY <1>1 DEF Receive
  <1> HIDE DEF r
  <1>7. IInv' /\ (Ran(i, r) \/ disk' = disk)
    BY <1>2, <1>3, <1>4, <1>5, <1>6, EngineStep
  <1> QED BY <1>7 DEF r

LEMMA ProposeStep ==
    ASSUME IInv, NEW i \in Server, NEW c \in Command, Propose(i, c)
    PROVE  /\ IInv'
           /\ disk' = disk \/ Ran(i, propose(i, core[i], c))
  <1> DEFINE r == propose(i, core[i], c)
             none == {}
  <1>1. core[i] \in CoreState /\ Fit(core[i]) /\ overclaimed \in BOOLEAN
    BY DEF IInv, TypeOK, AllFit
  <1>2. Sound(i, core[i], r, none)
    BY <1>1, ProposeSound DEF Propose
  <1>3. run_engine(i, r, TRUE, net) /\ overclaimed' \in BOOLEAN
    BY <1>1 DEF Propose
  <1>4. net \subseteq net
        /\ \A p \in none : <<p, core[i].current_term, i>> \in votes
    OBVIOUS
  <1> HIDE DEF r, none
  <1>5. IInv' /\ (Ran(i, r) \/ disk' = disk)
    BY <1>2, <1>3, <1>4, EngineStep
  <1> QED BY <1>5 DEF r

LEMMA TickStep ==
    ASSUME IInv, NEW i \in Server, Tick(i)
    PROVE  /\ IInv'
           /\ disk' = disk \/ Ran(i, tick(i, core[i]))
  <1> DEFINE r == tick(i, core[i])
             changed == tick_changed(core[i], r.core)
             none == {}
  <1>1. core[i] \in CoreState /\ Fit(core[i]) /\ overclaimed \in BOOLEAN
    BY DEF IInv, TypeOK, AllFit
  <1>2. Sound(i, core[i], r, none) /\ r.core.log = core[i].log
    BY <1>1, TickSound
  <1>3. run_engine(i, r, changed, net) /\ overclaimed' \in BOOLEAN
    BY <1>1 DEF Tick
  <1> HIDE DEF r
  <1>4. changed \/ persistent_state(r.core) = disk[i]
    <2>1. disk[i] = persistent_state(core[i])
      BY DEF IInv, VoteLedger, Synced
    <2> QED BY <1>2, <2>1 DEF tick_changed, persistent_state
  <1>5. net \subseteq net
        /\ \A p \in none : <<p, core[i].current_term, i>> \in votes
    OBVIOUS
  <1> HIDE DEF changed, none
  <1>6. IInv' /\ (Ran(i, r) \/ disk' = disk)
    BY <1>2, <1>3, <1>4, <1>5, EngineStep
  <1> QED BY <1>6 DEF r

\* A restart brings back what the disk holds, which is what memory held.
LEMMA RestartStep ==
    ASSUME IInv, NEW i \in Server, Restart(i)
    PROVE  IInv' /\ disk' = disk
  <1> DEFINE s == core[i]
             t == restore(persistent_state(s))
  <1>1. core \in [Server -> CoreState] /\ s \in CoreState
    BY DEF IInv, TypeOK
  <1>2. /\ t \in CoreState /\ t.current_term = s.current_term
        /\ t.voted_for = s.voted_for /\ t.role = "Follower"
        /\ t.commit_index <= t.last_applied
        /\ persistent_state(t) = persistent_state(s)
    BY <1>1, RestoreSound
  <1>3. core' = [core EXCEPT ![i] = t]
    BY DEF Restart, IInv, VoteLedger, Synced
  <1>4. core'[i] = t /\ \A j \in Server : j # i => core'[j] = core[j]
    BY <1>1, <1>3
  <1>5. /\ UNCHANGED <<disk, net, store, votes, elected, applied, overclaimed>>
        /\ restarts' = restarts + 1 /\ panicked' \subseteq panicked
    BY DEF Restart, history
  <1> HIDE DEF t
  <1>6. TypeOK'
    BY <1>1, <1>2, <1>3, <1>5 DEF IInv, TypeOK
  <1>7. Drained' /\ AllFit'
    BY <1>2, <1>4 DEF IInv, Drained, AllFit, Fit
  <1>8. Synced'
    BY <1>2, <1>4, <1>5 DEF IInv, VoteLedger, Synced, persistent_state
  <1>9. VotesCurrent' /\ VotesStored'
    <2>1. \A j \in Server : /\ core'[j].current_term = core[j].current_term
                            /\ core'[j].voted_for = core[j].voted_for
      BY <1>2, <1>4
    <2>2. \A v \in votes : v[1] \in Server
      BY DEF IInv, TypeOK
    <2> QED BY <1>5, <2>1, <2>2 DEF IInv, VoteLedger, VotesCurrent, VotesStored
  <1>10. OneVotePerTerm' /\ GrantsStored'
    BY <1>5 DEF IInv, VoteLedger, OneVotePerTerm, GrantsStored
  <1>11. CountedStored'
    BY <1>2, <1>4, <1>5 DEF IInv, VoteLedger, CountedStored
  <1>12. LeadersBacked'
    BY <1>2, <1>4, <1>5 DEF IInv, VoteLedger, LeadersBacked, Backers, majority
  <1> QED
    BY <1>5, <1>6, <1>7, <1>8, <1>9, <1>10, <1>11, <1>12 DEF IInv, VoteLedger

-----------------------------------------------------------------------------
(* The theorems.                                                           *)

\* A fresh group satisfies the invariant.
LEMMA InitInv == Init => IInv
  <1> SUFFICES ASSUME Init PROVE IInv
    OBVIOUS
  <1>1. << >> \in Seq(Entry)
    OBVIOUS
  <1>2. new \in CoreState
    BY <1>1 DEF new, CoreState, Role
  <1>3. /\ new.role = "Follower" /\ new.commit_index = 0
        /\ new.last_applied = 0 /\ new.voted_for = Nil
    BY DEF new
  <1>4. core = [i \in Server |-> new]
        /\ disk = [i \in Server |-> persistent_state(new)]
    BY DEF Init
  <1>5. persistent_state(new) \in DiskState
    BY <1>2, PersistentType
  <1>6. TypeOK
    BY <1>2, <1>4, <1>5 DEF Init, TypeOK
  <1>7. Drained /\ AllFit
    BY <1>3, <1>4 DEF Drained, AllFit, Fit
  <1>8. VoteLedger
    BY <1>3, <1>4 DEF Init, VoteLedger, Synced, VotesCurrent, VotesStored,
       OneVotePerTerm, GrantsStored, CountedStored, LeadersBacked
  <1> QED BY <1>6, <1>7, <1>8 DEF IInv

\* Every step preserves it.
LEMMA NextInv == IInv /\ [Next]_vars => IInv'
  <1> SUFFICES ASSUME IInv, [Next]_vars PROVE IInv'
    OBVIOUS
  <1>1. ASSUME NEW m \in net, Receive(m) PROVE IInv'
    BY <1>1, ReceiveStep
  <1>2. ASSUME NEW i \in Server, NEW c \in Command, Propose(i, c) PROVE IInv'
    BY <1>2, ProposeStep
  <1>3. ASSUME NEW i \in Server, Tick(i) PROVE IInv'
    BY <1>3, TickStep
  <1>4. ASSUME NEW i \in Server, Restart(i) PROVE IInv'
    BY <1>4, RestartStep
  <1>5. CASE UNCHANGED vars
    <2>1. UNCHANGED <<core, disk, net, store, panicked, restarts, votes,
                      elected, applied, overclaimed>>
      BY <1>5 DEF vars, history
    <2> QED
      BY <2>1 DEF IInv, TypeOK, Drained, AllFit, VoteLedger, Synced,
         VotesCurrent, VotesStored, OneVotePerTerm, GrantsStored,
         CountedStored, LeadersBacked, Backers, majority
  <1> QED
    BY <1>1, <1>2, <1>3, <1>4, <1>5 DEF Next

\* The invariant holds in every state of every run of a group.
THEOREM Invariance == Spec => []IInv
  <1> QED BY InitInv, NextInv, PTL DEF Spec

\* Every variable keeps its type: in particular next_index stays a natural
\* number (handle_append_response never steps below one) and whatever a pass
\* applies is inside the log (take_newly_committed never indexes past it).
THEOREM TypeCorrect == Spec => []TypeOK
  <1>1. IInv => TypeOK
    BY DEF IInv
  <1> QED BY <1>1, Invariance, PTL

\* The ledger of votes: memory and disk agree after every pass, no node gives
\* two votes in a term, and every leader has a majority of stored votes.
THEOREM VotesAccounted == Spec => []VoteLedger
  <1>1. IInv => VoteLedger
    BY DEF IInv
  <1> QED BY <1>1, Invariance, PTL

\* Two majorities of a group share a node.
LEMMA MajoritiesMeet ==
    ASSUME NEW A \in SUBSET Server, NEW B \in SUBSET Server,
           Cardinality(A) >= majority, Cardinality(B) >= majority
    PROVE  \E p \in Server : p \in A /\ p \in B
  <1>1. IsFiniteSet(A) /\ IsFiniteSet(B) /\ IsFiniteSet(Server)
    BY ServerAssumption, FS_Subset
  <1>2. /\ Cardinality(A) \in Nat /\ Cardinality(B) \in Nat
        /\ Cardinality(Server) \in Nat
    BY <1>1, FS_CardinalityType
  <1>3. Cardinality(A) + Cardinality(B) > Cardinality(Server)
    BY <1>2 DEF majority
  <1>4. A \cap B # {}
    BY <1>1, <1>3, FS_MajoritiesIntersect
  <1> QED BY <1>4

\* Two leaders of one term would share a voter, who has one vote in it.
LEMMA LedgerElects == IInv => ElectionSafety
  <1> SUFFICES ASSUME IInv, NEW a \in elected, NEW b \in elected, a[1] = b[1]
               PROVE  a[2] = b[2]
    BY DEF ElectionSafety
  <1>1. /\ Cardinality(Backers(a)) >= majority
        /\ Cardinality(Backers(b)) >= majority
    BY DEF IInv, VoteLedger, LeadersBacked
  <1>2. Backers(a) \in SUBSET Server /\ Backers(b) \in SUBSET Server
    BY DEF Backers
  <1>3. PICK p \in Server : p \in Backers(a) /\ p \in Backers(b)
    BY <1>1, <1>2, MajoritiesMeet
  <1>4. <<p, a[1], a[2]>> \in votes /\ <<p, b[1], b[2]>> \in votes
    BY <1>3 DEF Backers
  <1> QED
    BY <1>4 DEF IInv, VoteLedger, OneVotePerTerm

\* No term ever has two leaders, across crashes and restarts, in a group of
\* any size: check_election_win counts votes that are on disk.
THEOREM OneLeaderPerTerm == Spec => []ElectionSafety
  BY Invariance, LedgerElects, PTL

\* A vote on the wire is on the voter's disk or superseded there.
THEOREM VotesDurable == Spec => []VotesAreDurable
  <1>1. IInv => VotesAreDurable
    <2> SUFFICES ASSUME IInv, NEW m \in net, m.type = "RequestVoteResponse",
                        m.vote_granted
                 PROVE  LET d == disk[m.from]
                        IN  \/ d.current_term > m.term
                            \/ d.current_term = m.term /\ d.voted_for = m.to
      BY DEF VotesAreDurable
    <2>1. <<m.from, m.term, m.to>> \in votes
      BY DEF IInv, VoteLedger, GrantsStored
    <2>2. m.from \in Server /\ m.term \in Nat /\ m.to \in Server
      BY <2>1 DEF IInv, TypeOK
    <2>3. /\ m.term <= core[m.from].current_term
          /\ m.term = core[m.from].current_term
                => m.to = core[m.from].voted_for
      BY <2>1 DEF IInv, VoteLedger, VotesCurrent
    <2>4. disk[m.from] = persistent_state(core[m.from])
      BY <2>2 DEF IInv, VoteLedger, Synced
    <2>5. core[m.from].current_term \in Nat
      BY <2>2 DEF IInv, TypeOK, CoreState
    <2>6. /\ disk[m.from].current_term = core[m.from].current_term
          /\ disk[m.from].voted_for = core[m.from].voted_for
      BY <2>4 DEF persistent_state
    <2> QED BY <2>2, <2>3, <2>5, <2>6
  <1> QED BY <1>1, Invariance, PTL

\* A pass never takes a stored term back, nor a vote within its term.
LEMMA RanFinal ==
    ASSUME NEW i \in Server, NEW r, NEW ack, IInv, Sound(i, core[i], r, ack),
           Ran(i, r), NEW j \in Server
    PROVE  KeepsVote(j)
  <1>1. disk \in [Server -> DiskState] /\ core \in [Server -> CoreState]
    BY DEF IInv, TypeOK
  <1>2. disk[i] = persistent_state(core[i])
    BY DEF IInv, VoteLedger, Synced
  <1>3. disk' = [disk EXCEPT ![i] = persistent_state(r.core)]
    BY DEF Ran
  <1>4. CASE j # i
    <2>1. disk'[j] = disk[j] /\ disk[j].current_term \in Nat
      BY <1>1, <1>3, <1>4 DEF DiskState
    <2> QED BY <2>1 DEF KeepsVote
  <1>5. CASE j = i
    <2>1. disk'[i] = persistent_state(r.core)
      BY <1>1, <1>3
    <2>2. /\ disk[i].current_term = core[i].current_term
          /\ disk[i].voted_for = core[i].voted_for
      BY <1>2 DEF persistent_state
    <2>3. /\ disk'[i].current_term = r.core.current_term
          /\ disk'[i].voted_for = r.core.voted_for
      BY <2>1 DEF persistent_state
    <2> QED BY <1>5, <2>2, <2>3 DEF Sound, KeepsVote
  <1> QED BY <1>4, <1>5

\* What a node has stored of its votes is never withdrawn or changed: the
\* guards of handle_request_vote and become_follower, with every restart.
THEOREM VotesFinal == Spec => VoteIsFinal
  <1> DEFINE Final == \A i \in Server : KeepsVote(i)
  <1>1. ASSUME IInv, disk' = disk PROVE Final
    <2>1. \A j \in Server : disk[j].current_term \in Nat
      BY <1>1 DEF IInv, TypeOK, DiskState
    <2> QED BY <1>1, <2>1 DEF KeepsVote
  <1>2. ASSUME IInv, NEW i \in Server, NEW r, NEW ack,
               Sound(i, core[i], r, ack), Ran(i, r)
        PROVE  Final
    BY <1>2, RanFinal
  <1> HIDE DEF Final
  <1>3. ASSUME IInv, Next PROVE Final
    <2>1. /\ core \in [Server -> CoreState] /\ AllFit /\ net \subseteq Envelope
      BY <1>3 DEF IInv, TypeOK
    <2>2. ASSUME NEW m \in net, Receive(m) PROVE Final
      <3>1. m \in Envelope /\ m.to \in Server
        BY <2>1 DEF Envelope, RequestVoteRequest, RequestVoteResponse,
                    AppendEntriesRequest, AppendEntriesResponse
      <3>2. Sound(m.to, core[m.to], receive(m.to, core[m.to], m),
                  Ack(core[m.to], m))
        BY <2>1, <3>1, ReceiveSound DEF AllFit
      <3> QED BY <1>1, <1>2, <1>3, <2>2, <3>1, <3>2, ReceiveStep
    <2>3. ASSUME NEW i \in Server, NEW c \in Command, Propose(i, c)
          PROVE  Final
      <3>1. Sound(i, core[i], propose(i, core[i], c), {})
        BY <2>1, <2>3, ProposeSound DEF AllFit, Propose
      <3> QED BY <1>1, <1>2, <1>3, <2>3, <3>1, ProposeStep
    <2>4. ASSUME NEW i \in Server, Tick(i) PROVE Final
      <3>1. Sound(i, core[i], tick(i, core[i]), {})
        BY <2>1, TickSound DEF AllFit
      <3> QED BY <1>1, <1>2, <1>3, <2>4, <3>1, TickStep
    <2>5. ASSUME NEW i \in Server, Restart(i) PROVE Final
      BY <1>1, <1>3, <2>5, RestartStep
    <2> QED BY <1>3, <2>2, <2>3, <2>4, <2>5 DEF Next
  <1>4. IInv /\ [Next]_vars => [Final]_vars
    BY <1>3
  <1>5. Spec => [][Final]_vars
    BY <1>4, Invariance, PTL DEF Spec
  <1> QED BY <1>5, PTL DEF VoteIsFinal, Final

-----------------------------------------------------------------------------
(* Logs                                                                    *)
(*                                                                         *)
(* The invariant speaks of the past: of the log each term's leader had and *)
(* of what each node acknowledged in each term.  No variable records that, *)
(* so the invariant says that some record L of the leaders' logs and some  *)
(* record A of the acknowledgements fit the present state, and every step  *)
(* is shown to take fitting records to fitting records.                    *)

-----------------------------------------------------------------------------
(* The records.  L[t] is the log of the leader of term t, the longest it   *)
(* had in that term.  A[p][t] is the highest index that node p, while in   *)
(* term t, knew its log to share with that leader's.                       *)

\* Two logs are the same up to n.
Agree(l, m, n) == n <= Len(l) /\ n <= Len(m) /\ \A k \in 1..n : l[k] = m[k]

\* Up to every entry, a log is the log of the leader of that entry's term.
OnRecord(l, L) == \A k \in 1..Len(l) : Agree(l, L[l[k].term], k)

TermsUpTo(l, t) == \A k \in 1..Len(l) : l[k].term <= t

TermsRise(l) == \A j, k \in 1..Len(l) : j <= k => l[j].term <= l[k].term

TermAt(l, k) == IF k \in 1..Len(l) THEN l[k].term ELSE 0

\* A leader ships a part of its log up to an end it had when it sent it.
Shipped(m, l) ==
    /\ m.prev_log_index + Len(m.entries) <= Len(l)
    /\ m.prev_log_term = TermAt(l, m.prev_log_index)
    /\ \A k \in 1..Len(m.entries) : m.entries[k] = l[m.prev_log_index + k]

\* The logs on record: only of terms that had a leader, and in order.
LeaderLogs(L) ==
    /\ L \in [Nat -> Seq(Entry)]
    /\ \A t \in Nat :
          /\ OnRecord(L[t], L) /\ TermsUpTo(L[t], t) /\ TermsRise(L[t])
          /\ L[t] # << >> => \E i \in Server : <<t, i>> \in elected

\* The logs of the nodes.
NodeLogs(L) ==
    \A i \in Server :
       LET s == core[i]
       IN  /\ OnRecord(s.log, L) /\ TermsUpTo(s.log, s.current_term)
           /\ s.role = "Candidate" =>
                 /\ TermsUpTo(s.log, s.current_term - 1)
                 /\ <<s.current_term, i>> \notin elected
           /\ s.role = "Leader" => s.log = L[s.current_term]

\* Nobody is ahead of the terms it led, or ran in.
TermsPast ==
    /\ \A e \in elected : e[1] <= core[e[2]].current_term
    /\ \A v \in votes : v[2] <= core[v[3]].current_term

\* The logs in the envelopes.
MailLogs(L) ==
    \A m \in net :
       /\ m.type = "AppendEntriesRequest" =>
             <<m.term, m.from>> \in elected /\ Shipped(m, L[m.term])
       /\ m.type = "RequestVoteRequest" =>
             LET c == core[m.from]
             IN  /\ m.term <= c.current_term
                 /\ c.role = "Candidate" /\ c.current_term = m.term =>
                       /\ m.last_log_index = last_log_index(c)
                       /\ m.last_log_term = last_log_term(c)

LogInv(L) == LeaderLogs(L) /\ NodeLogs(L) /\ TermsPast /\ MailLogs(L)

\* An entry of term t's leader's own: what committing by counting is about.
Point(L, t, n) == n \in 1..Len(L[t]) /\ L[t][n].term = t

\* A majority has left term t without acknowledging index n in it.
Missed(A, p, t, n) == core[p].current_term > t /\ A[p][t] < n

Blocked(A, t, n) ==
    \E Q \in SUBSET Server :
       Cardinality(Q) >= majority /\ \A p \in Q : Missed(A, p, t, n)

\* Everything up to a point is in log l, or the point can never be committed.
Has(l, L, A, t, n) == Agree(l, L[t], n) \/ Blocked(A, t, n)

Acks(L, A) ==
    /\ A \in [Server -> [Nat -> Nat]]
    /\ \A p \in Server, t \in Nat :
          /\ A[p][t] <= Len(L[t])
          /\ t > core[p].current_term => A[p][t] = 0
          /\ t = core[p].current_term => Agree(core[p].log, L[t], A[p][t])
    /\ \A i \in Server :
          core[i].role = "Leader" =>
             LET t == core[i].current_term
             IN  /\ A[i][t] = Len(core[i].log)
                 /\ \A p \in Server : /\ core[i].match_index[p] <= A[p][t]
                                      /\ core[i].next_index[p] <= Len(core[i].log) + 1
    /\ \A m \in net :
          m.type = "AppendEntriesResponse" /\ m.success =>
             m.match_index <= A[m.from][m.term]

\* An acknowledged point is still there, unless it can never be committed.
AcksHeld(L, A) ==
    \A p \in Server, t \in Nat, n \in Nat :
       Point(L, t, n) /\ A[p][t] >= n => Has(core[p].log, L, A, t, n)

\* The leaders of later terms have it,
LeadersHave(L, A) ==
    \A e \in elected, t \in Nat, n \in Nat :
       t < e[1] /\ Point(L, t, n) => Has(L[e[1]], L, A, t, n)

\* and so have the candidates that those who acknowledged it voted for.
VotersAsked(L, A) ==
    \A v \in votes, t \in Nat, n \in Nat :
       LET c == core[v[3]]
       IN  /\ c.role = "Candidate" /\ c.current_term = v[2]
           /\ t < v[2] /\ Point(L, t, n) /\ A[v[1]][t] >= n
           => Has(c.log, L, A, t, n)

AckInv(L, A) == Acks(L, A) /\ AcksHeld(L, A) /\ LeadersHave(L, A) /\ VotersAsked(L, A)

\* A point that a majority has acknowledged in its own term.
Chosen(L, A, t, n) ==
    /\ Point(L, t, n)
    /\ \E Q \in SUBSET Server :
          Cardinality(Q) >= majority /\ \A p \in Q : A[p][t] >= n

\* The first k entries of log l lie below a point chosen in term u or before.
Settled(l, k, u, L, A) ==
    k = 0 \/ \E t \in Nat, n \in Nat :
                t <= u /\ k <= n /\ Chosen(L, A, t, n) /\ Agree(l, L[t], k)

CommitInv(L, A) ==
    /\ \A i \in Server :
          Settled(core[i].log, core[i].commit_index, core[i].current_term, L, A)
    /\ \A m \in net :
          m.type = "AppendEntriesRequest" =>
             Settled(L[m.term], m.leader_commit, m.term, L, A)
    /\ \A a \in applied :
          \E t \in Nat, n \in Nat :
             t <= a[4] /\ Chosen(L, A, t, n) /\ a[2] \in 1..n /\ L[t][a[2]] = a[3]

SafeInv(L, A) == AckInv(L, A) /\ CommitInv(L, A) /\ panicked = {}

Recorded(L, A) == LogInv(L) /\ (overclaimed \/ SafeInv(L, A))

-----------------------------------------------------------------------------
(* Logs that agree.                                                        *)

LEMMA LogType ==
    ASSUME NEW s \in CoreState
    PROVE  /\ s.log \in Seq(Entry) /\ Len(s.log) \in Nat
           /\ \A k \in 1..Len(s.log) : s.log[k] \in Entry /\ s.log[k].term \in Nat
  <1>1. s.log \in Seq(Entry)
    BY DEF CoreState
  <1>2. Len(s.log) \in Nat /\ \A k \in 1..Len(s.log) : s.log[k] \in Entry
    BY <1>1, ElementOfSeq, LenProperties
  <1>3. \A e \in Entry : e.term \in Nat
    BY DEF Entry
  <1> QED BY <1>1, <1>2, <1>3

LEMMA SeqTerms ==
    ASSUME NEW l \in Seq(Entry)
    PROVE  /\ Len(l) \in Nat
           /\ \A k \in 1..Len(l) : l[k] \in Entry /\ l[k].term \in Nat
  <1>2. Len(l) \in Nat /\ \A k \in 1..Len(l) : l[k] \in Entry
    BY ElementOfSeq, LenProperties
  <1>3. \A e \in Entry : e.term \in Nat
    BY DEF Entry
  <1> QED BY <1>2, <1>3

LEMMA AgreeLess ==
    ASSUME NEW l \in Seq(Entry), NEW m \in Seq(Entry), NEW n \in Nat, NEW k \in Nat,
           Agree(l, m, n), k <= n
    PROVE  Agree(l, m, k)
  <1>1. Len(l) \in Nat /\ Len(m) \in Nat
    BY LenProperties
  <1> QED BY <1>1 DEF Agree

LEMMA AgreeSelf ==
    ASSUME NEW l \in Seq(Entry)
    PROVE  Agree(l, l, Len(l))
  <1>1. Len(l) \in Nat
    BY LenProperties
  <1> QED BY <1>1 DEF Agree

LEMMA AgreeOn ==
    ASSUME NEW l, NEW m, NEW o, NEW n, Agree(l, m, n), Agree(m, o, n)
    PROVE  Agree(l, o, n)
  BY DEF Agree

LEMMA AgreeBack ==
    ASSUME NEW l, NEW m, NEW n, Agree(l, m, n)
    PROVE  Agree(m, l, n)
  BY DEF Agree

\* Two logs on one record that share a term at an index are the same up to it.
LEMMA SameTermAgree ==
    ASSUME NEW l, NEW m, NEW L, OnRecord(l, L), OnRecord(m, L), NEW k,
           k \in 1..Len(l), k \in 1..Len(m), l[k].term = m[k].term
    PROVE  Agree(l, m, k)
  <1>1. Agree(l, L[l[k].term], k) /\ Agree(m, L[l[k].term], k)
    BY DEF OnRecord
  <1> QED BY <1>1, AgreeBack, AgreeOn

\* The terms in a log on a record rise, as they do in the record.
LEMMA RecordRises ==
    ASSUME NEW L \in [Nat -> Seq(Entry)], \A t \in Nat : TermsRise(L[t]),
           NEW l \in Seq(Entry), OnRecord(l, L)
    PROVE  TermsRise(l)
  <1> SUFFICES ASSUME NEW j \in 1..Len(l), NEW k \in 1..Len(l), j <= k
               PROVE  l[j].term <= l[k].term
    BY DEF TermsRise
  <1> DEFINE t == l[k].term
             b == L[t]
  <1>1. t \in Nat /\ Len(l) \in Nat
    BY SeqTerms
  <1>2. b \in Seq(Entry) /\ TermsRise(b)
    BY <1>1
  <1>3. Agree(l, b, k)
    BY DEF OnRecord
  <1>4. Len(b) \in Nat
    BY <1>2, LenProperties
  <1> HIDE DEF b, t
  <1>5. l[j] = b[j] /\ l[k] = b[k] /\ j \in 1..Len(b) /\ k \in 1..Len(b)
    BY <1>1, <1>3, <1>4 DEF Agree
  <1> QED BY <1>2, <1>5 DEF TermsRise

\* A record that grew: each leader's log is an extension of what it was.
Grew(L, M) == \A t \in Nat : Agree(L[t], M[t], Len(L[t]))

LEMMA AgreeGrown ==
    ASSUME NEW L \in [Nat -> Seq(Entry)], NEW M \in [Nat -> Seq(Entry)], Grew(L, M),
           NEW l \in Seq(Entry), NEW t \in Nat, NEW n \in Nat, Agree(l, L[t], n)
    PROVE  Agree(l, M[t], n)
  <1>1. L[t] \in Seq(Entry) /\ M[t] \in Seq(Entry)
    OBVIOUS
  <1>2. n <= Len(L[t]) /\ Len(L[t]) \in Nat
    BY <1>1, LenProperties DEF Agree
  <1>3. Agree(L[t], M[t], n)
    BY <1>1, <1>2, AgreeLess DEF Grew
  <1> QED BY <1>3, AgreeOn

LEMMA OnRecordGrown ==
    ASSUME NEW L \in [Nat -> Seq(Entry)], NEW M \in [Nat -> Seq(Entry)], Grew(L, M),
           NEW l \in Seq(Entry), OnRecord(l, L)
    PROVE  OnRecord(l, M)
  <1>1. ASSUME NEW k \in 1..Len(l) PROVE Agree(l, M[l[k].term], k)
    <2>1. l[k].term \in Nat
      BY SeqTerms
    <2>0. k \in Nat
      BY LenProperties
    <2>2. Agree(l, L[l[k].term], k)
      BY DEF OnRecord
    <2> QED BY <2>0, <2>1, <2>2, AgreeGrown
  <1> QED BY <1>1 DEF OnRecord

LEMMA ShippedGrown ==
    ASSUME NEW a \in Seq(Entry), NEW b \in Seq(Entry), Agree(a, b, Len(a)),
           NEW m \in AppendEntriesRequest, Shipped(m, a)
    PROVE  Shipped(m, b)
  <1>1. m.prev_log_index \in Nat /\ m.entries \in Seq(Entry)
    BY DEF AppendEntriesRequest
  <1>2. Len(m.entries) \in Nat /\ Len(a) \in Nat /\ Len(b) \in Nat
    BY <1>1, LenProperties
  <1>3. Len(a) <= Len(b) /\ \A k \in 1..Len(a) : a[k] = b[k]
    BY DEF Agree
  <1>4. m.prev_log_index <= Len(a)
    BY <1>1, <1>2 DEF Shipped
  <1>5. TermAt(a, m.prev_log_index) = TermAt(b, m.prev_log_index)
    BY <1>1, <1>2, <1>3, <1>4 DEF TermAt
  <1>6. ASSUME NEW k \in 1..Len(m.entries) PROVE m.entries[k] = b[m.prev_log_index + k]
    <2>1. m.prev_log_index + k \in 1..Len(a)
      BY <1>1, <1>2 DEF Shipped
    <2> QED BY <1>3, <2>1 DEF Shipped
  <1>7. m.prev_log_index + Len(m.entries) <= Len(b)
    BY <1>1, <1>2, <1>3 DEF Shipped
  <1> QED BY <1>5, <1>6, <1>7 DEF Shipped

-----------------------------------------------------------------------------
(* What a pass does to the logs, and that it keeps them on record.         *)

\* How the outcome r of a call changes the logs: M is the record after it.
\* A node's log is longer than the record only when it leads; a node that runs
\* keeps its log; what it sends is from its log.
LogEffect(i, r, L, M) ==
    LET s == core[i]
        u == r.core
        T == r.core.current_term
    IN  /\ M \in [Nat -> Seq(Entry)] /\ Grew(L, M)
        /\ \A t \in Nat : t # T => M[t] = L[t]
        /\ M[T] = L[T] \/ (M[T] = u.log /\ u.role = "Leader")
        /\ OnRecord(u.log, M) /\ TermsUpTo(u.log, T)
        /\ u.role = "Leader" => u.log = M[T]
        /\ u.role = "Candidate" =>
              TermsUpTo(u.log, T - 1) /\ <<T, i>> \notin elected
        /\ u.role # "Follower" =>
              \/ u.role = "Leader" /\ s.role = "Leader" /\ T = s.current_term
              \/ /\ u.log = s.log
                 /\ T > s.current_term \/ (T = s.current_term /\ s.role = "Candidate")
        /\ u.voted_for # Nil =>
              \/ <<i, T, u.voted_for>> \in votes
              \/ u.voted_for = i
              \/ T <= core[u.voted_for].current_term
        /\ \A a \in r.out :
              /\ a.type = "AppendEntriesRequest" =>
                    /\ a.from = i /\ a.term = T /\ u.role = "Leader"
                    /\ Shipped(a, u.log) /\ a.leader_commit = u.commit_index
              /\ a.type = "RequestVoteRequest" =>
                    /\ a.from = i /\ a.term = T
                    /\ a.last_log_index = last_log_index(u)
                    /\ a.last_log_term = last_log_term(u)

\* What a pass leaves of node i, restarted or not.
LEMMA RanCore ==
    ASSUME NEW i \in Server, NEW r, r.core \in CoreState, TypeOK, Ran(i, r)
    PROVE  /\ \A j \in Server : j # i => core'[j] = core[j]
           /\ core'[i].current_term = r.core.current_term
           /\ core'[i].log = r.core.log
           /\ \/ core'[i].role = "Follower" /\ core'[i].commit_index = 0
              \/ /\ core'[i].role = r.core.role
                 /\ core'[i].commit_index = r.core.commit_index
                 /\ core'[i].next_index = r.core.next_index
                 /\ core'[i].match_index = r.core.match_index
  <1>1. PICK c : /\ core' = [core EXCEPT ![i] = c]
                 /\ c \in {take_newly_committed(r.core),
                           restore(persistent_state(r.core))}
    BY DEF Ran
  <1>2. core \in [Server -> CoreState]
    BY DEF TypeOK
  <1>3. core'[i] = c /\ \A j \in Server : j # i => core'[j] = core[j]
    BY <1>1, <1>2
  <1>4. CASE c = restore(persistent_state(r.core))
    BY <1>3, <1>4, RestoreSound
  <1>5. CASE c = take_newly_committed(r.core)
    <2>1. /\ c.current_term = r.core.current_term /\ c.log = r.core.log
          /\ c.role = r.core.role /\ c.commit_index = r.core.commit_index
          /\ c.next_index = r.core.next_index
          /\ c.match_index = r.core.match_index
      BY <1>5 DEF take_newly_committed, CoreState
    <2> QED BY <1>3, <2>1
  <1> QED BY <1>1, <1>4, <1>5

\* The terms in a log that a leader puts on record rise.
LEMMA NewRises ==
    ASSUME NEW M \in [Nat -> Seq(Entry)], NEW T \in Nat,
           \A t \in Nat : t # T => TermsRise(M[t]),
           NEW l \in Seq(Entry), OnRecord(l, M), TermsUpTo(l, T)
    PROVE  TermsRise(l)
  <1> SUFFICES ASSUME NEW j \in 1..Len(l), NEW k \in 1..Len(l), j <= k
               PROVE  l[j].term <= l[k].term
    BY DEF TermsRise
  <1> DEFINE t == l[k].term
             b == M[t]
  <1>1. t \in Nat /\ Len(l) \in Nat
    BY SeqTerms
  <1>2. CASE t = T
    BY <1>2 DEF TermsUpTo
  <1>3. CASE t # T
    <2>1. b \in Seq(Entry) /\ TermsRise(b)
      BY <1>1, <1>3
    <2>2. Agree(l, b, k)
      BY DEF OnRecord
    <2>3. Len(b) \in Nat
      BY <2>1, LenProperties
    <2> HIDE DEF b, t
    <2>4. l[j] = b[j] /\ l[k] = b[k] /\ j \in 1..Len(b) /\ k \in 1..Len(b)
      BY <1>1, <2>2, <2>3 DEF Agree
    <2> QED BY <2>1, <2>4 DEF TermsRise
  <1> QED BY <1>2, <1>3

\* A pass with that effect takes a record that fits to one that fits.
LEMMA LogStep ==
    ASSUME NEW i \in Server, NEW r, NEW ack, NEW L, NEW M, IInv, LogInv(L),
           Sound(i, core[i], r, ack), Ran(i, r), LogEffect(i, r, L, M),
           ElectionSafety'
    PROVE  LogInv(M)'
  <1> DEFINE s == core[i]
             u == r.core
             T == r.core.current_term
  <1>0. /\ TypeOK /\ core \in [Server -> CoreState]
        /\ votes \subseteq Server \X Nat \X Server
        /\ elected \subseteq Nat \X Server /\ net \subseteq Envelope
    BY DEF IInv, TypeOK
  <1>1. /\ s \in CoreState /\ u \in CoreState /\ T >= s.current_term
        /\ T \in Nat /\ s.current_term \in Nat /\ u.log \in Seq(Entry)
        /\ u.voted_for \in Server \cup {Nil} /\ r.out \subseteq Envelope
    BY <1>0 DEF Sound, CoreState
  <1>2. /\ \A j \in Server : j # i => core'[j] = core[j]
        /\ core'[i].current_term = T /\ core'[i].log = u.log
        /\ core'[i].role \in {"Follower", u.role}
    BY <1>0, <1>1, RanCore
  <1>3. /\ \A e : e \in elected' <=>
              e \in elected \/ (u.role = "Leader" /\ e = <<T, i>>)
        /\ \A v : v \in votes' <=>
              v \in votes \/ (u.voted_for # Nil /\ v = <<i, T, u.voted_for>>)
        /\ net' \subseteq net \cup r.out
    BY DEF Ran
  <1>4. /\ LeaderLogs(L) /\ NodeLogs(L) /\ TermsPast /\ MailLogs(L)
    BY DEF LogInv
  <1>5. L \in [Nat -> Seq(Entry)]
    BY <1>4 DEF LeaderLogs
  <1>6. /\ M \in [Nat -> Seq(Entry)] /\ Grew(L, M)
        /\ \A t \in Nat : t # T => M[t] = L[t]
        /\ M[T] = L[T] \/ (M[T] = u.log /\ u.role = "Leader")
        /\ OnRecord(u.log, M) /\ TermsUpTo(u.log, T)
    BY DEF LogEffect
  <1>7. /\ u.role = "Leader" => u.log = M[T]
        /\ u.role = "Candidate" =>
              TermsUpTo(u.log, T - 1) /\ <<T, i>> \notin elected
        /\ u.role # "Follower" =>
              \/ u.role = "Leader" /\ s.role = "Leader" /\ T = s.current_term
              \/ /\ u.log = s.log
                 /\ T > s.current_term \/ (T = s.current_term /\ s.role = "Candidate")
        /\ u.voted_for # Nil =>
              \/ <<i, T, u.voted_for>> \in votes
              \/ u.voted_for = i
              \/ T <= core[u.voted_for].current_term
    BY DEF LogEffect
  <1>8. \A a \in r.out :
           /\ a.type = "AppendEntriesRequest" =>
                 /\ a.from = i /\ a.term = T /\ u.role = "Leader"
                 /\ Shipped(a, u.log)
           /\ a.type = "RequestVoteRequest" =>
                 /\ a.from = i /\ a.term = T
                 /\ a.last_log_index = last_log_index(u)
                 /\ a.last_log_term = last_log_term(u)
    BY DEF LogEffect
  <1> HIDE DEF s, u, T
  <1>9. \A j \in Server : core'[j].current_term >= core[j].current_term
    <2>1. \A j \in Server : core[j].current_term \in Nat
      BY <1>0 DEF CoreState
    <2> QED BY <1>1, <1>2, <2>1 DEF s
  <1>10. \A t \in Nat : L[t] \in Seq(Entry) /\ M[t] \in Seq(Entry)
    BY <1>5, <1>6
  <1>11. LeaderLogs(M)'
    <2>1. ASSUME NEW t \in Nat
          PROVE  OnRecord(M[t], M) /\ TermsUpTo(M[t], t) /\ TermsRise(M[t])
      <3>1. OnRecord(L[t], L) /\ TermsUpTo(L[t], t) /\ TermsRise(L[t])
        BY <1>4 DEF LeaderLogs
      <3>2. OnRecord(L[t], M)
        BY <1>5, <1>6, <1>10, <3>1, OnRecordGrown
      <3>3. CASE M[t] = L[t]
        BY <3>1, <3>2, <3>3
      <3>4. CASE t = T /\ M[T] = u.log
        <4>1. \A q \in Nat : q # T => TermsRise(M[q])
          BY <1>4, <1>6 DEF LeaderLogs
        <4>2. TermsRise(u.log)
          BY <1>1, <1>6, <4>1, NewRises
        <4> QED BY <1>6, <3>4, <4>2
      <3> QED BY <1>1, <1>6, <3>3, <3>4
    <2>2. ASSUME NEW t \in Nat, M[t] # << >>
          PROVE  \E j \in Server : <<t, j>> \in elected'
      <3>1. CASE M[t] = L[t]
        BY <1>3, <1>4, <2>2, <3>1 DEF LeaderLogs
      <3>2. CASE t = T /\ u.role = "Leader"
        BY <1>3, <3>2
      <3> QED BY <1>6, <3>1, <3>2
    <2> QED BY <1>6, <2>1, <2>2 DEF LeaderLogs
  <1>12. NodeLogs(M)'
    <2>1. ASSUME NEW j \in Server
          PROVE  /\ OnRecord(core'[j].log, M)
                 /\ TermsUpTo(core'[j].log, core'[j].current_term)
                 /\ core'[j].role = "Candidate" =>
                       /\ TermsUpTo(core'[j].log, core'[j].current_term - 1)
                       /\ <<core'[j].current_term, j>> \notin elected'
                 /\ core'[j].role = "Leader" =>
                       core'[j].log = M[core'[j].current_term]
      <3>1. CASE j = i
        <4>1. u.role = "Candidate" => <<T, i>> \notin elected'
          BY <1>3, <1>7
        <4> QED BY <1>2, <1>6, <1>7, <3>1, <4>1
      <3>2. CASE j # i
        <4>1. core'[j] = core[j]
          BY <1>2, <3>2
        <4>2. /\ OnRecord(core[j].log, L)
              /\ TermsUpTo(core[j].log, core[j].current_term)
              /\ core[j].role = "Candidate" =>
                    /\ TermsUpTo(core[j].log, core[j].current_term - 1)
                    /\ <<core[j].current_term, j>> \notin elected
              /\ core[j].role = "Leader" => core[j].log = L[core[j].current_term]
          BY <1>4 DEF NodeLogs
        <4>3. core[j].log \in Seq(Entry) /\ core[j].current_term \in Nat
          BY <1>0 DEF CoreState
        <4>4. OnRecord(core[j].log, M)
          BY <1>5, <1>6, <4>2, <4>3, OnRecordGrown
        <4>5. <<core[j].current_term, j>> \notin elected
                => <<core[j].current_term, j>> \notin elected'
          BY <1>3, <3>2
        <4>6. ASSUME core[j].role = "Leader"
              PROVE  L[core[j].current_term] = M[core[j].current_term]
          <5>1. CASE core[j].current_term # T
            BY <1>6, <4>3, <5>1
          <5>2. CASE core[j].current_term = T /\ u.role = "Leader"
            <6>1. <<T, j>> \in elected
              BY <4>6, <5>2 DEF IInv, VoteLedger, LeadersBacked
            <6>2. <<T, j>> \in elected' /\ <<T, i>> \in elected'
              BY <1>3, <5>2, <6>1
            <6>3. j = i
              BY <6>2 DEF ElectionSafety
            <6> QED BY <3>2, <6>3
          <5> QED BY <1>6, <5>1, <5>2
        <4> QED BY <4>1, <4>2, <4>4, <4>5, <4>6
      <3> QED BY <3>1, <3>2
    <2> QED BY <2>1 DEF NodeLogs
  <1>13. TermsPast'
    <2>1. ASSUME NEW e \in elected' PROVE e[1] <= core'[e[2]].current_term
      <3>1. CASE e \in elected
        <4>1. /\ e[1] \in Nat /\ e[2] \in Server
              /\ e[1] <= core[e[2]].current_term
          BY <1>0, <1>4, <3>1 DEF TermsPast
        <4>2. core[e[2]].current_term \in Nat /\ core'[e[2]].current_term \in Nat
          BY <1>0, <1>1, <1>2, <4>1 DEF CoreState
        <4> QED BY <1>9, <4>1, <4>2
      <3>2. CASE e = <<T, i>>
        BY <1>1, <1>2, <3>2
      <3> QED BY <1>3, <3>1, <3>2
    <2>2. ASSUME NEW v \in votes' PROVE v[2] <= core'[v[3]].current_term
      <3>1. \A j \in Server : core[j].current_term \in Nat
                              /\ core'[j].current_term \in Nat
        BY <1>0, <1>1, <1>2 DEF CoreState
      <3>2. CASE v \in votes
        <4>1. /\ v[2] \in Nat /\ v[3] \in Server
              /\ v[2] <= core[v[3]].current_term
          BY <1>0, <1>4, <3>2 DEF TermsPast
        <4> QED BY <1>9, <3>1, <4>1
      <3>3. CASE u.voted_for = i /\ v = <<i, T, u.voted_for>>
        BY <1>1, <1>2, <3>3
      <3>4. CASE /\ u.voted_for # Nil /\ T <= core[u.voted_for].current_term
                 /\ v = <<i, T, u.voted_for>>
        <4>1. u.voted_for \in Server
          BY <1>1, <3>4
        <4> QED BY <1>1, <1>9, <3>1, <3>4, <4>1
      <3> QED BY <1>3, <1>7, <3>2, <3>3, <3>4
    <2> QED BY <2>1, <2>2 DEF TermsPast
  <1>14. MailLogs(M)'
    <2>1. ASSUME NEW m \in net', m.type = "AppendEntriesRequest"
          PROVE  /\ <<m.term, m.from>> \in elected'
                 /\ Shipped(m, M[m.term])
      <3>1. CASE m \in net
        <4>1. m \in AppendEntriesRequest /\ m.term \in Nat
          BY <1>0, <2>1, <3>1 DEF Envelope, RequestVoteRequest,
             RequestVoteResponse, AppendEntriesRequest, AppendEntriesResponse
        <4>2. /\ <<m.term, m.from>> \in elected
              /\ Shipped(m, L[m.term])
          BY <1>4, <2>1, <3>1 DEF MailLogs
        <4>3. Agree(L[m.term], M[m.term], Len(L[m.term]))
          BY <1>6, <4>1 DEF Grew
        <4>4. Shipped(m, M[m.term])
          BY <1>10, <4>1, <4>2, <4>3, ShippedGrown
        <4> QED BY <1>3, <4>2, <4>4
      <3>2. CASE m \in r.out
        BY <1>3, <1>7, <1>8, <2>1, <3>2
      <3> QED BY <1>3, <3>1, <3>2
    <2>2. ASSUME NEW m \in net', m.type = "RequestVoteRequest"
          PROVE  /\ m.term <= core'[m.from].current_term
                 /\ (/\ core'[m.from].role = "Candidate"
                     /\ core'[m.from].current_term = m.term) =>
                       /\ m.last_log_index = Len(core'[m.from].log)
                       /\ m.last_log_term =
                             TermAt(core'[m.from].log, Len(core'[m.from].log))
      <3>0. \A c : /\ last_log_index(c) = Len(c.log)
                   /\ last_log_term(c) = TermAt(c.log, Len(c.log))
        BY DEF last_log_index, last_log_term, log_term_at, TermAt
      <3>1. CASE m \in net
        <4>1. m.from \in Server /\ m.term \in Nat
          BY <1>0, <2>2, <3>1 DEF Envelope, RequestVoteRequest,
             RequestVoteResponse, AppendEntriesRequest, AppendEntriesResponse
        <4>2. /\ m.term <= core[m.from].current_term
              /\ (/\ core[m.from].role = "Candidate"
                  /\ core[m.from].current_term = m.term) =>
                    /\ m.last_log_index = Len(core[m.from].log)
                    /\ m.last_log_term =
                          TermAt(core[m.from].log, Len(core[m.from].log))
          BY <1>4, <2>2, <3>0, <3>1 DEF MailLogs
        <4>3. CASE m.from # i
          BY <1>2, <4>1, <4>2, <4>3
        <4>4. CASE m.from = i
          <5>1. m.term <= s.current_term /\ m.term <= T
            BY <1>1, <4>1, <4>2, <4>4 DEF s
          <5>2. ASSUME u.role = "Candidate", T = m.term
                PROVE  u.log = s.log /\ s.role = "Candidate" /\ s.current_term = m.term
            <6>1. T = s.current_term
              BY <1>1, <4>1, <5>1, <5>2
            <6>2. \/ u.role = "Leader" /\ s.role = "Leader" /\ T = s.current_term
                  \/ /\ u.log = s.log
                     /\ T > s.current_term \/ (T = s.current_term /\ s.role = "Candidate")
              BY <1>7, <5>2
            <6>3. ~(T > s.current_term) /\ u.role # "Leader"
              BY <1>1, <5>2, <6>1
            <6> QED BY <5>2, <6>1, <6>2, <6>3
          <5> QED BY <1>2, <4>2, <4>4, <5>1, <5>2 DEF s
        <4> QED BY <4>3, <4>4
      <3>2. CASE m \in r.out
        <4>1. /\ m.from = i /\ m.term = T /\ m.last_log_index = Len(u.log)
              /\ m.last_log_term = TermAt(u.log, Len(u.log))
          BY <1>8, <2>2, <3>0, <3>2
        <4> QED BY <1>1, <1>2, <4>1
      <3> QED BY <1>3, <3>1, <3>2
    <2>3. \A c : /\ last_log_index(c) = Len(c.log)
                 /\ last_log_term(c) = TermAt(c.log, Len(c.log))
      BY DEF last_log_index, last_log_term, log_term_at, TermAt
    <2> QED BY <2>1, <2>2, <2>3 DEF MailLogs
  <1> QED BY <1>11, <1>12, <1>13, <1>14 DEF LogInv

-----------------------------------------------------------------------------
(* The operators of RaftCore that touch logs.                              *)

\* A slice of a log.
LEMMA Slice ==
    ASSUME NEW q \in Seq(Entry), NEW a \in Nat \ {0}, NEW b \in Nat,
           b <= Len(q), a <= b + 1
    PROVE  /\ SubSeq(q, a, b) \in Seq(Entry)
           /\ Len(SubSeq(q, a, b)) = b + 1 - a
           /\ \A k \in 1..(b + 1 - a) : SubSeq(q, a, b)[k] = q[a + k - 1]
  <1>1. \A k \in a..b : q[k] \in Entry
    BY ElementOfSeq, LenProperties
  <1>2. a \in Int /\ b \in Int
    OBVIOUS
  <1>3. /\ SubSeq(q, a, b) \in Seq(Entry)
        /\ Len(SubSeq(q, a, b)) = IF a <= b THEN b - a + 1 ELSE 0
        /\ \A k \in 1..(b - a + 1) : SubSeq(q, a, b)[k] = q[a + k - 1]
    BY <1>1, <1>2, SubSeqProperties
  <1>4. b - a + 1 = b + 1 - a
    BY <1>2
  <1>5. (IF a <= b THEN b - a + 1 ELSE 0) = b + 1 - a
    BY <1>2
  <1> QED BY <1>3, <1>4, <1>5, Zenon

\* merge_entries keeps the log, or cuts it at the first difference and goes
\* on with the request's entries.
LEMMA MergeShape ==
    ASSUME NEW log \in Seq(Entry), NEW entries \in Seq(Entry),
           NEW prev \in Nat, prev <= Len(log)
    PROVE  LET res == merge_entries(log, prev, entries)
               same(k) == prev + k <= Len(log)
                          /\ log[prev + k].term = entries[k].term
           IN  \/ res = log /\ \A k \in 1..Len(entries) : same(k)
               \/ \E f \in 1..Len(entries) :
                     /\ ~same(f) /\ \A k \in 1..(f - 1) : same(k)
                     /\ Len(res) = prev + Len(entries)
                     /\ \A k \in 1..(prev + f - 1) : k <= Len(log) /\ res[k] = log[k]
                     /\ \A k \in f..Len(entries) : res[prev + k] = entries[k]
  <1> DEFINE differs(k) == \/ prev + k > Len(log)
                           \/ log[prev + k].term # entries[k].term
             same(k) == prev + k <= Len(log)
                        /\ log[prev + k].term = entries[k].term
             first == CHOOSE k \in 1..Len(entries) :
                         differs(k) /\ \A j \in 1..(k - 1) : ~differs(j)
             res == merge_entries(log, prev, entries)
  <1>1. Len(log) \in Nat /\ Len(entries) \in Nat
    BY LenProperties
  <1>0. \A k \in Nat : differs(k) <=> ~same(k)
    BY <1>1
  <1>2. CASE \A k \in 1..Len(entries) : ~differs(k)
    <2>1. res = log
      BY <1>2 DEF merge_entries
    <2> HIDE DEF res
    <2> QED BY <1>0, <1>1, <1>2, <2>1 DEF res
  <1>3. CASE ~\A k \in 1..Len(entries) : ~differs(k)
    <2> DEFINE D == {k \in 1..Len(entries) : differs(k)}
    <2>1. D \subseteq Nat /\ D # {}
      BY <1>1, <1>3
    <2>2. PICK x \in D : \A y \in D : x <= y
      <3> HIDE DEF D
      <3> QED BY <2>1, LeastNat
    <2>3. x \in 1..Len(entries) /\ differs(x)
          /\ \A j \in 1..(x - 1) : ~differs(j)
      <3>1. x \in 1..Len(entries) /\ differs(x)
        BY <2>2
      <3>2. ASSUME NEW j \in 1..(x - 1)
            PROVE  ~differs(j)
        <4>1. j \in 1..Len(entries) /\ ~(x <= j)
          BY <3>1, <1>1
        <4>2. j \notin D
          BY <4>1, <2>2
        <4> QED BY <4>1, <4>2
      <3> QED BY <3>1, <3>2
    <2>4. /\ first \in 1..Len(entries) /\ differs(first)
          /\ \A j \in 1..(first - 1) : ~differs(j)
      <3> HIDE DEF differs
      <3> QED BY <2>3
    <2>5. res = SubSeq(log, 1, prev + first - 1)
                  \o SubSeq(entries, first, Len(entries))
      BY <1>3 DEF merge_entries
    <2>6. ~same(first) /\ \A j \in 1..(first - 1) : same(j)
      <3>1. first \in Nat /\ \A j \in 1..(first - 1) : j \in Nat
        BY <1>1, <2>4
      <3> HIDE DEF first, same, differs
      <3> QED BY <1>0, <2>4, <3>1
    <2> HIDE DEF first, res
    <2>7. prev + first - 1 \in Nat /\ prev + first - 1 <= Len(log)
      <3>1. CASE first = 1
        BY <1>1, <3>1
      <3>2. CASE first # 1
        <4>1. first - 1 \in 1..(first - 1)
          BY <1>1, <2>4, <3>2
        <4>2. prev + (first - 1) <= Len(log)
          BY <2>6, <4>1
        <4> QED BY <1>1, <2>4, <4>2
      <3> QED BY <3>1, <3>2
    <2> DEFINE a == SubSeq(log, 1, prev + first - 1)
               b == SubSeq(entries, first, Len(entries))
    <2>8. /\ a \in Seq(Entry) /\ Len(a) = prev + first - 1
          /\ \A k \in 1..(prev + first - 1) : a[k] = log[k]
      <3> DEFINE z == prev + first - 1
      <3>1. z \in Nat /\ z <= Len(log) /\ 1 \in Nat \ {0} /\ 1 <= z + 1
        BY <2>7
      <3> HIDE DEF z
      <3>2. /\ SubSeq(log, 1, z) \in Seq(Entry) /\ Len(SubSeq(log, 1, z)) = z + 1 - 1
            /\ \A k \in 1..(z + 1 - 1) : SubSeq(log, 1, z)[k] = log[1 + k - 1]
        BY <3>1, Slice
      <3>3. z + 1 - 1 = z /\ \A k \in 1..z : 1 + k - 1 = k
        BY <3>1
      <3> QED BY <3>2, <3>3 DEF z
    <2>9. /\ b \in Seq(Entry) /\ Len(b) = Len(entries) + 1 - first
          /\ \A k \in 1..Len(b) : b[k] = entries[first + k - 1]
      <3>1. /\ first \in Nat \ {0} /\ Len(entries) \in Nat
            /\ Len(entries) <= Len(entries) /\ first <= Len(entries) + 1
        BY <1>1, <2>4
      <3> QED BY <3>1, Slice
    <2> HIDE DEF a, b
    <2>10. /\ Len(a \o b) = Len(a) + Len(b)
           /\ \A k \in 1..(Len(a) + Len(b)) :
                 (a \o b)[k] = IF k <= Len(a) THEN a[k] ELSE b[k - Len(a)]
      BY <2>8, <2>9, ConcatProperties
    <2>14. res = a \o b /\ first \in Nat /\ Len(a) \in Nat /\ Len(b) \in Nat
      BY <1>1, <2>4, <2>5, <2>8, <2>9, LenProperties DEF a, b
    <2>15. /\ Len(res) = Len(a) + Len(b)
           /\ \A k \in 1..(Len(a) + Len(b)) :
                 res[k] = IF k <= Len(a) THEN a[k] ELSE b[k - Len(a)]
      BY <2>10, <2>14
    <2>11. Len(res) = prev + Len(entries)
      BY <1>1, <2>4, <2>8, <2>9, <2>14, <2>15
    <2>12. ASSUME NEW k \in 1..(prev + first - 1)
           PROVE  k <= Len(log) /\ res[k] = log[k]
      <3>1. k \in 1..(Len(a) + Len(b)) /\ k <= Len(a) /\ k <= Len(log)
        BY <1>1, <2>7, <2>8, <2>14
      <3> QED BY <2>8, <2>15, <3>1
    <2>13. ASSUME NEW k \in first..Len(entries)
           PROVE  res[prev + k] = entries[k]
      <3>1. /\ prev + k \in 1..(Len(a) + Len(b)) /\ ~(prev + k <= Len(a))
            /\ prev + k - Len(a) \in 1..Len(b)
            /\ first + (prev + k - Len(a)) - 1 = k
        BY <1>1, <2>4, <2>7, <2>8, <2>9
      <3>3. res[prev + k] = b[prev + k - Len(a)]
        BY <2>15, <3>1
      <3>4. b[prev + k - Len(a)] = entries[first + (prev + k - Len(a)) - 1]
        BY <2>9, <3>1
      <3> QED BY <3>1, <3>3, <3>4
    <2> QED BY <2>4, <2>6, <2>11, <2>12, <2>13 DEF res
  <1> QED BY <1>2, <1>3

\* A follower that merges what its leader shipped shares the leader's log up to
\* the end of the request, keeps what they shared already, and stays on record.
LEMMA MergeKeeps ==
    ASSUME NEW log \in Seq(Entry), NEW big \in Seq(Entry),
           NEW L \in [Nat -> Seq(Entry)], OnRecord(log, L), OnRecord(big, L),
           NEW m \in AppendEntriesRequest, Shipped(m, big),
           \/ m.prev_log_index = 0
           \/ /\ m.prev_log_index <= Len(log)
              /\ TermAt(log, m.prev_log_index) = m.prev_log_term
    PROVE  LET res == merge_entries(log, m.prev_log_index, m.entries)
               end == m.prev_log_index + Len(m.entries)
           IN  /\ res \in Seq(Entry) /\ OnRecord(res, L) /\ Agree(res, big, end)
               /\ res = log \/ Len(res) = end
               /\ \A n \in Nat : Agree(log, big, n) => Agree(res, big, n)
  <1> DEFINE prev == m.prev_log_index
             es == m.entries
             res == merge_entries(log, prev, es)
             end == prev + Len(es)
             same(k) == prev + k <= Len(log) /\ log[prev + k].term = es[k].term
  <1>1. prev \in Nat /\ es \in Seq(Entry)
    BY DEF AppendEntriesRequest
  <1>0. Len(es) \in Nat /\ Len(log) \in Nat /\ Len(big) \in Nat
    BY <1>1, LenProperties
  <1>2. /\ Len(es) \in Nat /\ Len(log) \in Nat /\ Len(big) \in Nat
        /\ prev <= Len(log)
    <2>1. prev = 0 \/ prev <= Len(log)
      OBVIOUS
    <2>2. CASE prev = 0
      <3> HIDE DEF prev
      <3> QED BY <1>0, <2>2
    <2> QED BY <1>0, <2>1, <2>2
  <1>3. /\ end <= Len(big) /\ m.prev_log_term = TermAt(big, prev)
        /\ \A k \in 1..Len(es) : es[k] = big[prev + k]
    BY DEF Shipped
  <1> HIDE DEF prev, es
  <1>4. res \in Seq(Entry)
    BY <1>1, <1>2, MergeType
  <1>5. Agree(log, big, prev)
    <2>1. CASE prev = 0
      BY <1>1, <1>2, <2>1 DEF Agree
    <2>2. CASE prev # 0
      <3>1. prev \in 1..Len(log) /\ prev \in 1..Len(big)
        BY <1>1, <1>2, <1>3, <2>2
      <3>2. log[prev].term = big[prev].term
        BY <1>3, <2>2, <3>1 DEF TermAt, prev
      <3> QED BY <3>1, <3>2, SameTermAgree
    <2> QED BY <2>1, <2>2
  <1>6. ASSUME NEW k \in 1..Len(es), same(k)
        PROVE  Agree(log, big, prev + k)
    <2>1. prev + k \in 1..Len(log) /\ prev + k \in 1..Len(big)
      BY <1>1, <1>2, <1>3, <1>6
    <2>2. log[prev + k].term = big[prev + k].term
      BY <1>3, <1>6
    <2> QED BY <2>1, <2>2, SameTermAgree
  <1>7. \/ res = log /\ \A k \in 1..Len(es) : same(k)
        \/ \E f \in 1..Len(es) :
              /\ ~same(f) /\ \A k \in 1..(f - 1) : same(k)
              /\ Len(res) = prev + Len(es)
              /\ \A k \in 1..(prev + f - 1) : k <= Len(log) /\ res[k] = log[k]
              /\ \A k \in f..Len(es) : res[prev + k] = es[k]
    BY <1>1, <1>2, MergeShape
  <1> HIDE DEF res
  <1>8. CASE res = log /\ \A k \in 1..Len(es) : same(k)
    <2>1. CASE Len(es) = 0
      BY <1>1, <1>5, <1>8, <2>1 DEF res, prev, es
    <2>2. CASE Len(es) # 0
      <3>1. Len(es) \in 1..Len(es)
        BY <1>2, <2>2
      <3>2. Agree(log, big, end)
        BY <1>6, <1>8, <3>1
      <3> QED BY <1>8, <3>2 DEF res, prev, es
    <2> QED BY <2>1, <2>2
  <1>9. CASE \E f \in 1..Len(es) :
              /\ ~same(f) /\ \A k \in 1..(f - 1) : same(k)
              /\ Len(res) = prev + Len(es)
              /\ \A k \in 1..(prev + f - 1) : k <= Len(log) /\ res[k] = log[k]
              /\ \A k \in f..Len(es) : res[prev + k] = es[k]
    <2>1. PICK f \in 1..Len(es) :
              /\ ~same(f) /\ \A k \in 1..(f - 1) : same(k)
              /\ Len(res) = prev + Len(es)
              /\ \A k \in 1..(prev + f - 1) : k <= Len(log) /\ res[k] = log[k]
              /\ \A k \in f..Len(es) : res[prev + k] = es[k]
      BY <1>9
    <2>2. Agree(log, big, prev + f - 1)
      <3>1. CASE f = 1
        <4>1. prev + f - 1 = prev
          BY <1>1, <3>1
        <4> QED BY <1>5, <4>1
      <3>2. CASE f # 1
        <4>1. f - 1 \in 1..(f - 1) /\ f - 1 \in 1..Len(es)
              /\ prev + (f - 1) = prev + f - 1
          BY <1>1, <1>2, <3>2
        <4>2. Agree(log, big, prev + (f - 1))
          BY <1>6, <2>1, <4>1
        <4> QED BY <4>1, <4>2
      <3> QED BY <3>1, <3>2
    <2>3. ASSUME NEW k \in 1..end PROVE res[k] = big[k]
      <3>1. CASE k <= prev + f - 1
        <4>1. k \in 1..(prev + f - 1)
          BY <1>1, <1>2, <3>1
        <4> QED BY <2>1, <2>2, <4>1 DEF Agree
      <3>2. CASE ~(k <= prev + f - 1)
        <4>1. k - prev \in f..Len(es) /\ k - prev \in 1..Len(es)
              /\ prev + (k - prev) = k
          BY <1>1, <1>2, <3>2
        <4>2. res[prev + (k - prev)] = es[k - prev]
          BY <2>1, <4>1
        <4>3. es[k - prev] = big[prev + (k - prev)]
          BY <1>3, <4>1
        <4> QED BY <4>1, <4>2, <4>3
      <3> QED BY <3>1, <3>2
    <2>4. Agree(res, big, end)
      BY <1>1, <1>2, <1>3, <2>1, <2>3 DEF Agree
    <2>5. OnRecord(res, L)
      <3>1. ASSUME NEW k \in 1..Len(res) PROVE Agree(res, L[res[k].term], k)
        <4>1. k \in 1..end /\ k \in 1..Len(big) /\ k \in Nat /\ end \in Nat /\ k <= end
          BY <1>1, <1>2, <1>3, <2>1
        <4>2. Agree(res, big, k)
          BY <1>4, <2>4, <4>1, AgreeLess
        <4>3. Agree(big, L[big[k].term], k)
          BY <4>1 DEF OnRecord
        <4>4. res[k] = big[k]
          BY <2>3, <4>1
        <4> QED BY <4>2, <4>3, <4>4, AgreeOn
      <3> QED BY <3>1 DEF OnRecord
    <2>6. ASSUME NEW n \in Nat, Agree(log, big, n) PROVE Agree(res, big, n)
      <3>1. n < prev + f
        <4>1. SUFFICES ASSUME n >= prev + f PROVE FALSE
          BY <1>1, <1>2
        <4>2. prev + f \in 1..n /\ n <= Len(log)
          BY <1>1, <1>2, <2>6, <4>1 DEF Agree
        <4>3. log[prev + f] = big[prev + f] /\ es[f] = big[prev + f]
          BY <1>3, <2>6, <4>2 DEF Agree
        <4>4. prev + f <= Len(log)
          BY <1>1, <1>2, <4>1, <4>2
        <4> QED BY <2>1, <4>3, <4>4
      <3>2. \A x, y, z \in Nat : n < x + y /\ y <= z => n <= x + z
        OBVIOUS
      <3>3. f \in Nat /\ f <= Len(es)
        BY <1>2
      <3>4. n <= end
        BY <1>1, <1>2, <3>1, <3>2, <3>3, Zenon
      <3>5. end \in Nat
        BY <1>1, <1>2
      <3> QED BY <1>4, <2>4, <3>4, <3>5, AgreeLess
    <2> QED BY <1>4, <2>1, <2>4, <2>5, <2>6 DEF res, prev, es
  <1> QED BY <1>7, <1>8, <1>9

\* What a leader sends is from its log, when next_index is not past its end;
\* that is also when the slice does not panic.
LEMMA ShippedFrom ==
    ASSUME NEW i \in Server, NEW t \in CoreState, NEW p \in Server,
           t.next_index[p] <= Len(t.log) + 1
    PROVE  LET a == append_entries_for(i, t, p)
           IN  /\ a.type = "AppendEntriesRequest" /\ a.from = i /\ a.to = p
               /\ a.term = t.current_term /\ a.leader_commit = t.commit_index
               /\ Shipped(a, t.log) /\ ~append_panics(t, p)
  <1> DEFINE a == append_entries_for(i, t, p)
             prev == IF t.next_index[p] > 0 THEN t.next_index[p] - 1 ELSE 0
             es == SubSeq(t.log, prev + 1, Len(t.log))
  <1>1. t.next_index[p] \in Nat /\ t.log \in Seq(Entry)
    BY DEF CoreState
  <1>2. Len(t.log) \in Nat
    BY <1>1, LenProperties
  <1>3. prev \in Nat /\ prev <= Len(t.log)
    BY <1>1, <1>2
  <1>4. /\ a.type = "AppendEntriesRequest" /\ a.from = i /\ a.to = p
        /\ a.term = t.current_term /\ a.leader_commit = t.commit_index
        /\ a.prev_log_index = prev /\ a.prev_log_term = log_term_at(t, prev)
        /\ a.entries = es
    BY DEF append_entries_for
  <1> HIDE DEF a, prev
  <1>5. /\ Len(es) = Len(t.log) + 1 - (prev + 1)
        /\ \A k \in 1..(Len(t.log) + 1 - (prev + 1)) : es[k] = t.log[prev + 1 + k - 1]
    <2>1. prev + 1 \in Nat \ {0} /\ prev + 1 <= Len(t.log) + 1
          /\ Len(t.log) <= Len(t.log)
      BY <1>2, <1>3
    <2> QED BY <1>1, <1>2, <2>1, Slice
  <1> HIDE DEF es
  <1>6. /\ Len(es) = Len(t.log) - prev
        /\ \A k \in 1..Len(es) : es[k] = t.log[prev + k]
    <2>1. \A x, y \in Nat : x + 1 - (y + 1) = x - y
      OBVIOUS
    <2>2. \A x \in Nat, k \in Int : x + 1 + k - 1 = x + k
      OBVIOUS
    <2>3. Len(t.log) + 1 - (prev + 1) = Len(t.log) - prev
      BY <1>2, <1>3, <2>1
    <2>4. ASSUME NEW k \in 1..(Len(t.log) - prev) PROVE es[k] = t.log[prev + k]
      <3>1. k \in 1..(Len(t.log) + 1 - (prev + 1)) /\ k \in Int
        BY <2>3
      <3>2. es[k] = t.log[prev + 1 + k - 1]
        BY <1>5, <3>1
      <3>3. prev + 1 + k - 1 = prev + k
        BY <1>3, <2>2, <3>1
      <3> QED BY <3>2, <3>3
    <2> QED BY <1>5, <2>3, <2>4
  <1>7. prev + Len(es) <= Len(t.log)
    BY <1>2, <1>3, <1>6
  <1>8. log_term_at(t, prev) = TermAt(t.log, prev)
    BY DEF log_term_at, TermAt
  <1>9. Shipped(a, t.log)
    BY <1>4, <1>6, <1>7, <1>8 DEF Shipped
  <1>10. ~append_panics(t, p)
    BY <1>1, <1>2 DEF append_panics, last_log_index
  <1> QED BY <1>4, <1>9, <1>10 DEF a

-----------------------------------------------------------------------------
(* Points, and how the records of them move forward.                       *)

\* A pass of node i in term T: the logs and acknowledgements on record only
\* grow, those of other nodes and terms not at all, and no term falls.
Forward(i, T, L, A, M, B) ==
    /\ L \in [Nat -> Seq(Entry)] /\ M \in [Nat -> Seq(Entry)] /\ Grew(L, M)
    /\ \A t \in Nat : t # T => M[t] = L[t]
    /\ A \in [Server -> [Nat -> Nat]] /\ B \in [Server -> [Nat -> Nat]]
    /\ \A p \in Server, t \in Nat : p # i \/ t # T => B[p][t] = A[p][t]
    /\ B[i][T] >= A[i][T]
    /\ i \in Server /\ T \in Nat
    /\ \A p \in Server :
          /\ core[p].current_term \in Nat /\ core'[p].current_term \in Nat
          /\ core'[p].current_term >= core[p].current_term
    /\ core'[i].current_term = T

LEMMA AcksGrow ==
    ASSUME NEW i, NEW T, NEW L, NEW A, NEW M, NEW B, Forward(i, T, L, A, M, B),
           NEW p \in Server, NEW t \in Nat
    PROVE  B[p][t] >= A[p][t] /\ A[p][t] \in Nat /\ B[p][t] \in Nat
  <1>1. A[p][t] \in Nat /\ B[p][t] \in Nat
    BY DEF Forward
  <1>2. CASE p = i /\ t = T
    BY <1>1, <1>2 DEF Forward
  <1>3. CASE ~(p = i /\ t = T)
    <2>1. B[p][t] = A[p][t]
      BY <1>3 DEF Forward
    <2> QED BY <1>1, <2>1
  <1> QED BY <1>1, <1>2, <1>3

LEMMA PointStays ==
    ASSUME NEW i, NEW T, NEW L, NEW A, NEW M, NEW B, Forward(i, T, L, A, M, B),
           NEW t \in Nat, NEW n, Point(L, t, n)
    PROVE  Point(M, t, n)
  <1>1. Agree(L[t], M[t], Len(L[t]))
    BY DEF Forward, Grew
  <1>2. L[t] \in Seq(Entry) /\ M[t] \in Seq(Entry)
    BY DEF Forward
  <1>3. Len(L[t]) \in Nat /\ Len(M[t]) \in Nat
    BY <1>2, LenProperties
  <1> QED BY <1>1, <1>3 DEF Point, Agree

\* A point that is new lies past the end of what was on record.
LEMMA PointBack ==
    ASSUME NEW i, NEW T, NEW L, NEW A, NEW M, NEW B, Forward(i, T, L, A, M, B),
           NEW t \in Nat, NEW n, Point(M, t, n)
    PROVE  Point(L, t, n) \/ (t = T /\ n > Len(L[T]))
  <1>1. CASE t # T
    <2>1. M[t] = L[t]
      BY <1>1 DEF Forward
    <2> QED BY <2>1 DEF Point
  <1>2. CASE t = T
    <2>1. Agree(L[t], M[t], Len(L[t]))
      BY DEF Forward, Grew
    <2>2. L[t] \in Seq(Entry) /\ M[t] \in Seq(Entry)
      BY DEF Forward
    <2>3. Len(L[t]) \in Nat /\ Len(M[t]) \in Nat
      BY <2>2, LenProperties
    <2>4. n \in 1..Len(M[t]) /\ M[t][n].term = t
      BY DEF Point
    <2>5. CASE n <= Len(L[t])
      <3>1. n \in 1..Len(L[t])
        BY <2>3, <2>4, <2>5
      <3>2. L[t][n] = M[t][n]
        BY <2>1, <3>1 DEF Agree
      <3> QED BY <2>4, <3>1, <3>2 DEF Point
    <2>6. CASE ~(n <= Len(L[t]))
      BY <1>2, <2>3, <2>4, <2>6
    <2> QED BY <2>5, <2>6
  <1> QED BY <1>1, <1>2

\* Who has left a term acknowledges nothing more in it.
LEMMA BlockedStays ==
    ASSUME NEW i, NEW T, NEW L, NEW A, NEW M, NEW B, Forward(i, T, L, A, M, B),
           NEW t \in Nat, NEW n, Blocked(A, t, n)
    PROVE  Blocked(B, t, n)'
  <1>1. PICK Q \in SUBSET Server :
           Cardinality(Q) >= majority /\ \A p \in Q : Missed(A, p, t, n)
    BY DEF Blocked
  <1>2. ASSUME NEW p \in Q PROVE core'[p].current_term > t /\ B[p][t] < n
    <2>1. core[p].current_term > t /\ A[p][t] < n
      BY <1>1 DEF Missed
    <2>2. /\ core[p].current_term \in Nat /\ core'[p].current_term \in Nat
          /\ core'[p].current_term >= core[p].current_term
          /\ core'[i].current_term = T /\ T \in Nat
      BY DEF Forward
    <2>3. core'[p].current_term > t
      BY <2>1, <2>2
    <2>4. p # i \/ t # T
      BY <2>2, <2>3
    <2>5. B[p][t] = A[p][t]
      BY <2>4 DEF Forward
    <2> QED BY <2>1, <2>3, <2>5
  <1>3. majority' = majority
    BY DEF majority
  <1> QED BY <1>1, <1>2, <1>3 DEF Blocked, Missed

LEMMA ChosenStays ==
    ASSUME NEW i, NEW T, NEW L, NEW A, NEW M, NEW B, Forward(i, T, L, A, M, B),
           NEW t \in Nat, NEW n \in Nat, Chosen(L, A, t, n)
    PROVE  Chosen(M, B, t, n)
  <1>1. PICK Q \in SUBSET Server :
           Cardinality(Q) >= majority /\ \A p \in Q : A[p][t] >= n
    BY DEF Chosen
  <1>2. ASSUME NEW p \in Q PROVE B[p][t] >= n
    <2>1. B[p][t] >= A[p][t] /\ A[p][t] \in Nat /\ B[p][t] \in Nat
      BY AcksGrow
    <2> QED BY <1>1, <2>1
  <1>3. Point(M, t, n)
    BY PointStays DEF Chosen
  <1> QED BY <1>1, <1>2, <1>3 DEF Chosen

\* What a majority acknowledged, no majority missed.
LEMMA ChosenUnblocked ==
    ASSUME NEW L, NEW A \in [Server -> [Nat -> Nat]], NEW t \in Nat, NEW n \in Nat,
           Chosen(L, A, t, n)
    PROVE  ~Blocked(A, t, n)
  <1>1. SUFFICES ASSUME Blocked(A, t, n) PROVE FALSE
    OBVIOUS
  <1>2. PICK Q \in SUBSET Server :
           Cardinality(Q) >= majority /\ \A p \in Q : A[p][t] >= n
    BY DEF Chosen
  <1>3. PICK P \in SUBSET Server :
           Cardinality(P) >= majority /\ \A p \in P : Missed(A, p, t, n)
    BY <1>1 DEF Blocked
  <1>4. PICK p \in Server : p \in P /\ p \in Q
    BY <1>2, <1>3, MajoritiesMeet
  <1>5. A[p][t] >= n /\ A[p][t] < n /\ A[p][t] \in Nat
    BY <1>2, <1>3, <1>4 DEF Missed
  <1> QED BY <1>5

LEMMA SettledStays ==
    ASSUME NEW i, NEW T, NEW L, NEW A, NEW M, NEW B, Forward(i, T, L, A, M, B),
           NEW l \in Seq(Entry), NEW k \in Nat, NEW u, Settled(l, k, u, L, A)
    PROVE  Settled(l, k, u, M, B)
  <1>1. CASE k = 0
    BY <1>1 DEF Settled
  <1>2. CASE k # 0
    <2>1. PICK t \in Nat, n \in Nat :
             t <= u /\ k <= n /\ Chosen(L, A, t, n) /\ Agree(l, L[t], k)
      BY <1>2 DEF Settled
    <2>2. Chosen(M, B, t, n)
      BY <2>1, ChosenStays
    <2>3. L \in [Nat -> Seq(Entry)] /\ M \in [Nat -> Seq(Entry)] /\ Grew(L, M)
      BY DEF Forward
    <2>4. Agree(l, M[t], k)
      BY <2>1, <2>3, AgreeGrown
    <2> QED BY <2>1, <2>2, <2>4 DEF Settled
  <1> QED BY <1>1, <1>2

-----------------------------------------------------------------------------
(* What a pass does to the acknowledgements, and that it keeps them safe.  *)

\* How the outcome r of a call changes what is acknowledged and committed: B
\* is the record of acknowledgements after it.
SafeEffect(i, r, L, A, M, B) ==
    LET u == r.core
        T == r.core.current_term
    IN  /\ B \in [Server -> [Nat -> Nat]]
        /\ \A p \in Server, t \in Nat : p # i \/ t # T => B[p][t] = A[p][t]
        /\ B[i][T] >= A[i][T] /\ Agree(u.log, M[T], B[i][T])
        /\ \A t \in Nat, n \in Nat :
              t < T /\ Point(L, t, n) /\ A[i][t] >= n => Has(u.log, L, A, t, n)
        /\ \A j \in Server \ {i} :
              /\ u.voted_for = j /\ <<i, T, j>> \notin votes
              /\ core[j].role = "Candidate" /\ core[j].current_term = T
              => \A t \in Nat, n \in Nat :
                    t < T /\ Point(L, t, n) /\ A[i][t] >= n
                       => Has(core[j].log, L, A, t, n)
        /\ u.role = "Leader" =>
              /\ B[i][T] = Len(u.log)
              /\ \A p \in Server : /\ u.match_index[p] <= B[p][T]
                                   /\ u.next_index[p] <= Len(u.log) + 1
        /\ \A a \in r.out :
              a.type = "AppendEntriesResponse" /\ a.success =>
                 a.from = i /\ a.term = T /\ a.match_index <= B[i][T]
        /\ \/ Settled(u.log, u.commit_index, T, L, A)
           \/ Settled(u.log, u.commit_index, T, M, B)

\* What a pass that does not panic gives to the Store, and whom it kills.
Applies(i, r) ==
    /\ ~r.panics /\ panicked' \subseteq panicked
    /\ \A a \in applied' :
          \/ a \in applied
          \/ \E k \in Nat : /\ k \in 1..r.core.commit_index
                            /\ a = <<i, k, r.core.log[k], r.core.current_term>>

\* The steps of a safe pass share these premises.
Passes(i, r, L, A, M, B) ==
    /\ IInv /\ IInv' /\ Ran(i, r) /\ Applies(i, r)
    /\ LogInv(L) /\ SafeInv(L, A)
    /\ LogEffect(i, r, L, M) /\ SafeEffect(i, r, L, A, M, B)

LEMMA PassForward ==
    ASSUME NEW i \in Server, NEW r, NEW ack, NEW L, NEW A, NEW M, NEW B,
           Passes(i, r, L, A, M, B), Sound(i, core[i], r, ack)
    PROVE  /\ Forward(i, r.core.current_term, L, A, M, B)
           /\ r.core \in CoreState /\ r.core.log \in Seq(Entry)
           /\ r.core.current_term \in Nat /\ r.core.commit_index \in Nat
           /\ core[i].current_term <= r.core.current_term
           /\ core'[i].current_term = r.core.current_term
           /\ core'[i].log = r.core.log
           /\ \A j \in Server : j # i => core'[j] = core[j]
           /\ \/ core'[i].role = "Follower" /\ core'[i].commit_index = 0
              \/ /\ core'[i].role = r.core.role
                 /\ core'[i].commit_index = r.core.commit_index
                 /\ core'[i].next_index = r.core.next_index
                 /\ core'[i].match_index = r.core.match_index
  <1>1. TypeOK /\ core \in [Server -> CoreState] /\ Ran(i, r)
    BY DEF Passes, IInv, TypeOK
  <1>2. /\ r.core \in CoreState /\ r.core.current_term >= core[i].current_term
        /\ r.core.log \in Seq(Entry) /\ r.core.current_term \in Nat
        /\ r.core.commit_index \in Nat
    BY DEF Sound, CoreState
  <1>3. \A p \in Server : core[p].current_term \in Nat
    BY <1>1 DEF CoreState
  <1>4. /\ \A j \in Server : j # i => core'[j] = core[j]
        /\ core'[i].current_term = r.core.current_term
        /\ core'[i].log = r.core.log
        /\ \/ core'[i].role = "Follower" /\ core'[i].commit_index = 0
           \/ /\ core'[i].role = r.core.role
              /\ core'[i].commit_index = r.core.commit_index
              /\ core'[i].next_index = r.core.next_index
              /\ core'[i].match_index = r.core.match_index
    BY <1>1, <1>2, RanCore
  <1>5. \A p \in Server :
           /\ core'[p].current_term \in Nat
           /\ core'[p].current_term >= core[p].current_term
    BY <1>2, <1>3, <1>4
  <1>6. L \in [Nat -> Seq(Entry)] /\ A \in [Server -> [Nat -> Nat]]
    BY DEF Passes, LogInv, LeaderLogs, SafeInv, AckInv, Acks
  <1>7. /\ M \in [Nat -> Seq(Entry)] /\ Grew(L, M)
        /\ \A t \in Nat : t # r.core.current_term => M[t] = L[t]
    BY DEF Passes, LogEffect
  <1>8. /\ B \in [Server -> [Nat -> Nat]]
        /\ \A p \in Server, t \in Nat :
              p # i \/ t # r.core.current_term => B[p][t] = A[p][t]
        /\ B[i][r.core.current_term] >= A[i][r.core.current_term]
    BY DEF Passes, SafeEffect
  <1>9. Forward(i, r.core.current_term, L, A, M, B)
    BY <1>2, <1>3, <1>4, <1>5, <1>6, <1>7, <1>8 DEF Forward
  <1> QED BY <1>2, <1>3, <1>4, <1>9

LEMMA AcksStep ==
    ASSUME NEW i \in Server, NEW r, NEW ack, NEW L, NEW A, NEW M, NEW B,
           Passes(i, r, L, A, M, B), Sound(i, core[i], r, ack)
    PROVE  Acks(M, B)'
  <1> DEFINE u == r.core
             T == r.core.current_term
  <1>1. /\ Forward(i, T, L, A, M, B) /\ u \in CoreState /\ u.log \in Seq(Entry)
        /\ T \in Nat /\ core[i].current_term <= T
        /\ core'[i].current_term = T /\ core'[i].log = u.log
        /\ \A j \in Server : j # i => core'[j] = core[j]
        /\ \/ core'[i].role = "Follower"
           \/ /\ core'[i].role = u.role
              /\ core'[i].next_index = u.next_index
              /\ core'[i].match_index = u.match_index
    BY PassForward
  <1>2. /\ L \in [Nat -> Seq(Entry)] /\ M \in [Nat -> Seq(Entry)] /\ Grew(L, M)
        /\ B \in [Server -> [Nat -> Nat]]
        /\ \A p \in Server, t \in Nat : p # i \/ t # T => B[p][t] = A[p][t]
    BY <1>1 DEF Forward
  <1>3. /\ \A p \in Server, t \in Nat :
              /\ A[p][t] <= Len(L[t])
              /\ t > core[p].current_term => A[p][t] = 0
              /\ t = core[p].current_term => Agree(core[p].log, L[t], A[p][t])
        /\ \A j \in Server :
              core[j].role = "Leader" =>
                 LET t == core[j].current_term
                 IN  /\ A[j][t] = Len(core[j].log)
                     /\ \A p \in Server :
                           /\ core[j].match_index[p] <= A[p][t]
                           /\ core[j].next_index[p] <= Len(core[j].log) + 1
        /\ \A m \in net :
              m.type = "AppendEntriesResponse" /\ m.success =>
                 m.match_index <= A[m.from][m.term]
    BY DEF Passes, SafeInv, AckInv, Acks
  <1>4. /\ Agree(u.log, M[T], B[i][T])
        /\ u.role = "Leader" =>
              /\ B[i][T] = Len(u.log)
              /\ \A p \in Server : /\ u.match_index[p] <= B[p][T]
                                   /\ u.next_index[p] <= Len(u.log) + 1
        /\ \A a \in r.out :
              a.type = "AppendEntriesResponse" /\ a.success =>
                 a.from = i /\ a.term = T /\ a.match_index <= B[i][T]
    BY DEF Passes, SafeEffect
  <1>5. /\ core \in [Server -> CoreState] /\ net \subseteq Envelope
        /\ net' \subseteq net \cup r.out
    BY DEF Passes, IInv, TypeOK, Ran
  <1>6. \A p \in Server : core[p].current_term \in Nat /\ core[p].log \in Seq(Entry)
    BY <1>5 DEF CoreState
  <1> HIDE DEF u, T
  <1>7. \A p \in Server, t \in Nat :
           B[p][t] >= A[p][t] /\ A[p][t] \in Nat /\ B[p][t] \in Nat
    BY <1>1, AcksGrow
  <1>8. ASSUME NEW p \in Server, NEW t \in Nat
        PROVE  /\ B[p][t] <= Len(M[t])
               /\ t > core'[p].current_term => B[p][t] = 0
               /\ t = core'[p].current_term => Agree(core'[p].log, M[t], B[p][t])
    <2>1. CASE p = i /\ t = T
      BY <1>1, <1>4, <2>1 DEF Agree
    <2>2. CASE ~(p = i /\ t = T)
      <3>1. B[p][t] = A[p][t]
        BY <1>2, <2>2
      <3>2. L[t] \in Seq(Entry) /\ M[t] \in Seq(Entry) /\ Agree(L[t], M[t], Len(L[t]))
        BY <1>2 DEF Grew
      <3>3. Len(L[t]) \in Nat /\ Len(M[t]) \in Nat /\ Len(L[t]) <= Len(M[t])
        BY <3>2, LenProperties DEF Agree
      <3>4. B[p][t] <= Len(M[t])
        BY <1>3, <1>7, <3>1, <3>3
      <3>5. ASSUME t > core'[p].current_term PROVE B[p][t] = 0
        <4>1. t > core[p].current_term
          BY <1>1, <1>6, <3>5
        <4> QED BY <1>3, <3>1, <4>1
      <3>6. ASSUME t = core'[p].current_term PROVE Agree(core'[p].log, M[t], B[p][t])
        <4>1. p # i
          BY <1>1, <2>2, <3>6
        <4>2. core'[p] = core[p] /\ core[p].log \in Seq(Entry)
          BY <1>1, <1>6, <4>1
        <4>3. Agree(core[p].log, L[t], A[p][t])
          BY <1>3, <3>6, <4>2
        <4>4. Agree(core[p].log, M[t], A[p][t])
          BY <1>2, <1>7, <4>2, <4>3, AgreeGrown
        <4> QED BY <3>1, <4>2, <4>4
      <3> QED BY <3>4, <3>5, <3>6
    <2> QED BY <2>1, <2>2
  <1>9. ASSUME NEW j \in Server, core'[j].role = "Leader"
        PROVE  LET t == core'[j].current_term
               IN  /\ B[j][t] = Len(core'[j].log)
                   /\ \A p \in Server :
                         /\ core'[j].match_index[p] <= B[p][t]
                         /\ core'[j].next_index[p] <= Len(core'[j].log) + 1
    <2>1. CASE j = i
      BY <1>1, <1>4, <1>9, <2>1
    <2>2. CASE j # i
      <3>1. core'[j] = core[j] /\ core[j].role = "Leader"
            /\ core[j].current_term \in Nat
        BY <1>1, <1>6, <1>9, <2>2
      <3>2. B[j][core[j].current_term] = A[j][core[j].current_term]
        BY <1>2, <2>2, <3>1
      <3>3. \A p \in Server : core[j].match_index[p] \in Nat
        BY <1>5 DEF CoreState
      <3>4. \A p \in Server : core[j].match_index[p] <= B[p][core[j].current_term]
        <4> SUFFICES ASSUME NEW p \in Server
                     PROVE  core[j].match_index[p] <= B[p][core[j].current_term]
          OBVIOUS
        <4>1. core[j].match_index[p] <= A[p][core[j].current_term]
          BY <1>3, <3>1
        <4> QED BY <1>7, <3>1, <3>3, <4>1
      <3> QED BY <1>3, <3>1, <3>2, <3>4
    <2> QED BY <2>1, <2>2
  <1>10. ASSUME NEW m \in net', m.type = "AppendEntriesResponse", m.success
         PROVE  m.match_index <= B[m.from][m.term]
    <2>1. CASE m \in net
      <3>1. m.from \in Server /\ m.term \in Nat /\ m.match_index \in Nat
        BY <1>5, <1>10, <2>1 DEF Envelope, RequestVoteRequest,
           RequestVoteResponse, AppendEntriesRequest, AppendEntriesResponse
      <3>2. m.match_index <= A[m.from][m.term]
        BY <1>3, <1>10, <2>1
      <3> QED BY <1>7, <3>1, <3>2
    <2>2. CASE m \in r.out
      BY <1>4, <1>10, <2>2
    <2> QED BY <1>5, <2>1, <2>2
  <1> QED BY <1>2, <1>8, <1>9, <1>10 DEF Acks

LEMMA HasStays ==
    ASSUME NEW i, NEW T, NEW L, NEW A, NEW M, NEW B, Forward(i, T, L, A, M, B),
           NEW l \in Seq(Entry), NEW t \in Nat, NEW n \in Nat, Has(l, L, A, t, n)
    PROVE  Agree(l, M[t], n) \/ Blocked(B, t, n)'
  <1>1. CASE Agree(l, L[t], n)
    <2>1. L \in [Nat -> Seq(Entry)] /\ M \in [Nat -> Seq(Entry)] /\ Grew(L, M)
      BY DEF Forward
    <2> QED BY <1>1, <2>1, AgreeGrown
  <1>2. CASE Blocked(A, t, n)
    BY <1>2, BlockedStays
  <1> QED BY <1>1, <1>2 DEF Has

LEMMA AgreeBoth ==
    ASSUME NEW i, NEW T, NEW L, NEW A, NEW M, NEW B, Forward(i, T, L, A, M, B),
           NEW e \in Nat, NEW t \in Nat, NEW n \in Nat, Agree(L[e], L[t], n)
    PROVE  Agree(M[e], M[t], n)
  <1>1. L \in [Nat -> Seq(Entry)] /\ M \in [Nat -> Seq(Entry)] /\ Grew(L, M)
    BY DEF Forward
  <1>2. L[e] \in Seq(Entry) /\ M[e] \in Seq(Entry)
    BY <1>1
  <1>3. Agree(L[e], M[t], n)
    BY <1>1, <1>2, AgreeGrown
  <1>4. Agree(L[e], M[e], Len(L[e]))
    BY <1>1 DEF Grew
  <1>5. Len(L[e]) \in Nat /\ n <= Len(L[e])
    BY <1>2, LenProperties DEF Agree
  <1>6. Agree(L[e], M[e], n)
    BY <1>2, <1>4, <1>5, AgreeLess
  <1> QED BY <1>3, <1>6, AgreeBack, AgreeOn

LEMMA HeldStep ==
    ASSUME NEW i \in Server, NEW r, NEW ack, NEW L, NEW A, NEW M, NEW B,
           Passes(i, r, L, A, M, B), Sound(i, core[i], r, ack)
    PROVE  AcksHeld(M, B)'
  <1> DEFINE u == r.core
             T == r.core.current_term
  <1>1. /\ Forward(i, T, L, A, M, B) /\ u.log \in Seq(Entry)
        /\ T \in Nat /\ core[i].current_term <= T
        /\ core'[i].log = u.log
        /\ \A j \in Server : j # i => core'[j] = core[j]
    BY PassForward
  <1>2. /\ M \in [Nat -> Seq(Entry)]
        /\ \A p \in Server, t \in Nat : p # i \/ t # T => B[p][t] = A[p][t]
    BY <1>1 DEF Forward
  <1>3. /\ \A p \in Server, t \in Nat :
              /\ A[p][t] <= Len(L[t])
              /\ t > core[p].current_term => A[p][t] = 0
        /\ \A p \in Server, t \in Nat, n \in Nat :
              Point(L, t, n) /\ A[p][t] >= n => Has(core[p].log, L, A, t, n)
    BY DEF Passes, SafeInv, AckInv, Acks, AcksHeld
  <1>4. /\ Agree(u.log, M[T], B[i][T])
        /\ \A t \in Nat, n \in Nat :
              t < T /\ Point(L, t, n) /\ A[i][t] >= n => Has(u.log, L, A, t, n)
    BY DEF Passes, SafeEffect
  <1>5. \A p \in Server : core[p].current_term \in Nat /\ core[p].log \in Seq(Entry)
    BY DEF Passes, IInv, TypeOK, CoreState
  <1> HIDE DEF u, T
  <1>6. \A p \in Server, t \in Nat : A[p][t] \in Nat /\ B[p][t] \in Nat
    BY <1>1, AcksGrow
  <1>7. \A t \in Nat : L[t] \in Seq(Entry) /\ Len(L[t]) \in Nat
    BY <1>1, LenProperties DEF Forward
  <1> SUFFICES ASSUME NEW p \in Server, NEW t \in Nat, NEW n \in Nat,
                      Point(M, t, n), B[p][t] >= n
               PROVE  Agree(core'[p].log, M[t], n) \/ Blocked(B, t, n)'
    BY DEF AcksHeld, Has
  <1>8. CASE p = i /\ t = T
    <2>1. n <= B[i][T] /\ M[T] \in Seq(Entry)
      BY <1>1, <1>2, <1>6, <1>8
    <2>2. Agree(u.log, M[T], n)
      BY <1>1, <1>4, <1>6, <2>1, AgreeLess
    <2> QED BY <1>1, <1>8, <2>2
  <1>9. CASE ~(p = i /\ t = T)
    <2>1. B[p][t] = A[p][t] /\ A[p][t] >= n
      BY <1>2, <1>9
    <2>2. n \in 1..Len(M[t])
      BY DEF Point
    <2>3. ~(n > Len(L[t]))
      BY <1>3, <1>6, <1>7, <2>1
    <2>4. Point(L, t, n)
      BY <1>1, <2>3, PointBack
    <2>5. CASE p # i
      BY <1>1, <1>3, <1>5, <2>1, <2>4, <2>5, HasStays
    <2>6. CASE p = i
      <3>1. ~(t > T)
        <4>1. SUFFICES ASSUME t > T PROVE FALSE
          OBVIOUS
        <4>2. t > core[i].current_term
          BY <1>1, <1>5, <4>1
        <4>3. A[i][t] = 0
          BY <1>3, <4>2
        <4> QED BY <2>1, <2>2, <2>6, <4>3
      <3>2. t < T
        BY <1>1, <1>9, <2>6, <3>1
      <3>3. Has(u.log, L, A, t, n)
        BY <1>4, <2>1, <2>4, <2>6, <3>2
      <3> QED BY <1>1, <2>6, <3>3, HasStays
    <2> QED BY <2>5, <2>6
  <1> QED BY <1>8, <1>9

\* A node that runs, or has just won, has what its voters acknowledged.
LEMMA VotersHave ==
    ASSUME NEW i \in Server, NEW r, NEW ack, NEW L, NEW A, NEW M, NEW B,
           Passes(i, r, L, A, M, B), Sound(i, core[i], r, ack),
           r.core.log = core[i].log,
           \/ r.core.current_term > core[i].current_term
           \/ core[i].role = "Candidate",
           NEW p \in Server, <<p, r.core.current_term, i>> \in votes',
           NEW t \in Nat, NEW n \in Nat, t < r.core.current_term,
           Point(L, t, n), A[p][t] >= n
    PROVE  Has(r.core.log, L, A, t, n)
  <1> DEFINE u == r.core
             T == r.core.current_term
  <1>1. CASE p = i
    BY <1>1 DEF Passes, SafeEffect
  <1>2. CASE p # i
    <2>1. <<p, T, i>> \in votes
      BY <1>2 DEF Passes, Ran
    <2>2. T <= core[i].current_term
      BY <2>1 DEF Passes, LogInv, TermsPast
    <2>3. T \in Nat /\ core[i].current_term \in Nat /\ core[i].current_term <= T
      BY PassForward DEF Passes, IInv, TypeOK, CoreState
    <2>4. T = core[i].current_term /\ core[i].role = "Candidate"
      BY <2>2, <2>3
    <2>5. VotersAsked(L, A)
      BY DEF Passes, SafeInv, AckInv
    <2>6. Has(core[i].log, L, A, t, n)
      <3> DEFINE v == <<p, T, i>>
      <3>1. v[1] = p /\ v[2] = T /\ v[3] = i
        OBVIOUS
      <3> HIDE DEF v
      <3>2. v \in votes
        BY <2>1 DEF v
      <3> QED BY <2>4, <2>5, <3>1, <3>2 DEF VotersAsked
    <2> QED BY <2>6
  <1> QED BY <1>1, <1>2

LEMMA LeadersStep ==
    ASSUME NEW i \in Server, NEW r, NEW ack, NEW L, NEW A, NEW M, NEW B,
           Passes(i, r, L, A, M, B), Sound(i, core[i], r, ack)
    PROVE  LeadersHave(M, B)'
  <1> DEFINE u == r.core
             T == r.core.current_term
  <1>1. /\ Forward(i, T, L, A, M, B) /\ u.log \in Seq(Entry)
        /\ T \in Nat /\ core[i].current_term <= T /\ core'[i].current_term = T
    BY PassForward
  <1>2. /\ \A p \in Server, t \in Nat : p # i \/ t # T => B[p][t] = A[p][t]
        /\ \A t \in Nat : t # T => M[t] = L[t]
    BY <1>1 DEF Forward
  <1>3. /\ \A p \in Server, t \in Nat : A[p][t] <= Len(L[t])
        /\ \A e \in elected, t \in Nat, n \in Nat :
              t < e[1] /\ Point(L, t, n) => Has(L[e[1]], L, A, t, n)
    BY DEF Passes, SafeInv, AckInv, Acks, LeadersHave
  <1>4. /\ \A e : e \in elected' <=>
              e \in elected \/ (u.role = "Leader" /\ e = <<T, i>>)
        /\ elected \subseteq Nat \X Server /\ core \in [Server -> CoreState]
        /\ IInv /\ IInv'
    BY DEF Passes, Ran, IInv, TypeOK
  <1>5. /\ u.role = "Leader" => u.log = M[T]
        /\ u.role # "Follower" =>
              \/ u.role = "Leader" /\ core[i].role = "Leader"
                 /\ T = core[i].current_term
              \/ /\ u.log = core[i].log
                 /\ \/ T > core[i].current_term
                    \/ T = core[i].current_term /\ core[i].role = "Candidate"
    BY DEF Passes, LogEffect
  <1> HIDE DEF u, T
  <1>6. \A p \in Server, t \in Nat : A[p][t] \in Nat /\ B[p][t] \in Nat
    BY <1>1, AcksGrow
  <1>7. \A t \in Nat : L[t] \in Seq(Entry) /\ Len(L[t]) \in Nat
    BY <1>1, LenProperties DEF Forward
  <1> SUFFICES ASSUME NEW e \in elected', NEW t \in Nat, NEW n \in Nat,
                      t < e[1], Point(M, t, n)
               PROVE  Agree(M[e[1]], M[t], n) \/ Blocked(B, t, n)'
    BY DEF LeadersHave, Has
  <1>8. CASE e \in elected
    <2>0. e[1] \in Nat /\ e[2] \in Server
      BY <1>4, <1>8
    <2>1. CASE Point(L, t, n)
      <3>1. Has(L[e[1]], L, A, t, n)
        BY <1>3, <1>8, <2>1
      <3>2. CASE Agree(L[e[1]], L[t], n)
        BY <1>1, <2>0, <3>2, AgreeBoth
      <3>3. CASE Blocked(A, t, n)
        BY <1>1, <3>3, BlockedStays
      <3> QED BY <3>1, <3>2, <3>3 DEF Has
    <2>2. CASE t = T /\ n > Len(L[T])
      <3> DEFINE Q == Backers(e)
      <3>1. Q \in SUBSET Server /\ \A p \in Q : <<p, e[1], e[2]>> \in votes
        BY DEF Backers
      <3>2. Cardinality(Q) >= majority
        BY <1>4, <1>8 DEF IInv, VoteLedger, LeadersBacked
      <3> HIDE DEF Q
      <3>3. ASSUME NEW p \in Q PROVE Missed(A, p, t, n)
        <4>1. e[1] <= core[p].current_term
          BY <1>4, <3>1 DEF IInv, VoteLedger, VotesCurrent
        <4>2. core[p].current_term \in Nat
          BY <1>4, <3>1 DEF CoreState
        <4>3. core[p].current_term > t
          BY <2>0, <4>1, <4>2
        <4>4. p \in Server /\ A[p][t] \in Nat /\ A[p][t] <= Len(L[t])
          BY <1>3, <1>6, <3>1
        <4>5. A[p][t] < n
          BY <1>7, <2>2, <4>4
        <4> QED BY <4>3, <4>5 DEF Missed
      <3>4. Blocked(A, t, n)
        BY <3>1, <3>2, <3>3 DEF Blocked
      <3> QED BY <1>1, <3>4, BlockedStays
    <2> QED BY <1>1, <2>1, <2>2, PointBack
  <1>9. CASE e \notin elected /\ u.role = "Leader" /\ e = <<T, i>>
    <2>1. e[1] = T /\ e[2] = i /\ t # T /\ M[t] = L[t] /\ M[T] = u.log
      BY <1>1, <1>2, <1>5, <1>9
    <2>2. Point(L, t, n)
      BY <2>1 DEF Point
    <2>3. ~(core[i].role = "Leader" /\ T = core[i].current_term)
      BY <1>4, <1>9 DEF IInv, VoteLedger, LeadersBacked
    <2>4. /\ u.log = core[i].log
          /\ T > core[i].current_term \/ core[i].role = "Candidate"
      BY <1>5, <1>9, <2>3
    <2> DEFINE Q == {p \in Server : <<p, T, i>> \in votes'}
    <2>5. CASE \E p \in Q : A[p][t] >= n
      <3>1. PICK p \in Server : <<p, T, i>> \in votes' /\ A[p][t] >= n
        BY <2>5
      <3>2. Has(u.log, L, A, t, n)
        BY <2>1, <2>2, <2>4, <3>1, VotersHave DEF u, T
      <3> QED BY <1>1, <2>1, <3>2, HasStays
    <2>6. CASE ~\E p \in Q : A[p][t] >= n
      <3>1. Q \in SUBSET Server
        OBVIOUS
      <3>2. Cardinality(Q) >= majority
        <4>1. Cardinality(Backers(e)') >= majority'
          BY <1>4 DEF IInv, VoteLedger, LeadersBacked
        <4>2. Backers(e)' = Q
          BY <2>1 DEF Backers
        <4>3. majority' = majority
          BY DEF majority
        <4> QED BY <4>1, <4>2, <4>3
      <3>3. ASSUME NEW p \in Q PROVE core'[p].current_term > t /\ B[p][t] < n
        <4>1. <<p, T, i>> \in votes' /\ p \in Server
          BY <3>3
        <4>2. T <= core'[p].current_term
          BY <1>4, <4>1 DEF IInv, VoteLedger, VotesCurrent
        <4>3. core'[p].current_term \in Nat
          BY <1>1, <4>1 DEF Forward
        <4>4. core'[p].current_term > t
          BY <1>1, <2>1, <4>2, <4>3
        <4>5. B[p][t] = A[p][t]
          BY <1>2, <2>1, <4>1
        <4>6. A[p][t] \in Nat /\ ~(A[p][t] >= n)
          BY <1>6, <2>6, <4>1
        <4> QED BY <4>4, <4>5, <4>6
      <3> HIDE DEF Q
      <3>4. majority' = majority
        BY DEF majority
      <3> QED BY <3>1, <3>2, <3>3, <3>4 DEF Blocked, Missed
    <2> QED BY <2>5, <2>6
  <1> QED BY <1>4, <1>8, <1>9

LEMMA VotersStep ==
    ASSUME NEW i \in Server, NEW r, NEW ack, NEW L, NEW A, NEW M, NEW B,
           Passes(i, r, L, A, M, B), Sound(i, core[i], r, ack)
    PROVE  VotersAsked(M, B)'
  <1> DEFINE u == r.core
             T == r.core.current_term
  <1>1. /\ Forward(i, T, L, A, M, B) /\ u.log \in Seq(Entry)
        /\ T \in Nat /\ core[i].current_term <= T
        /\ core'[i].current_term = T /\ core'[i].log = u.log
        /\ core'[i].role \in {"Follower", u.role}
        /\ \A j \in Server : j # i => core'[j] = core[j]
    BY PassForward
  <1>2. \A p \in Server, t \in Nat : p # i \/ t # T => B[p][t] = A[p][t]
    BY <1>1 DEF Forward
  <1>3. /\ \A p \in Server, t \in Nat : A[p][t] <= Len(L[t])
        /\ VotersAsked(L, A)
    BY DEF Passes, SafeInv, AckInv, Acks
  <1>4. /\ \A v : v \in votes' <=>
              v \in votes \/ (u.voted_for # Nil /\ v = <<i, T, u.voted_for>>)
        /\ votes \subseteq Server \X Nat \X Server
        /\ votes' \subseteq Server \X Nat \X Server
        /\ core \in [Server -> CoreState] /\ IInv /\ IInv'
    BY DEF Passes, Ran, IInv, TypeOK
  <1>5. u.role = "Candidate" =>
              /\ u.log = core[i].log
              /\ T > core[i].current_term \/ core[i].role = "Candidate"
    BY DEF Passes, LogEffect
  <1>6. \A j \in Server \ {i} :
           /\ u.voted_for = j /\ <<i, T, j>> \notin votes
           /\ core[j].role = "Candidate" /\ core[j].current_term = T
           => \A t \in Nat, n \in Nat :
                 t < T /\ Point(L, t, n) /\ A[i][t] >= n
                    => Has(core[j].log, L, A, t, n)
    BY DEF Passes, SafeEffect
  <1>7. \A p \in Server, t \in Nat : A[p][t] \in Nat /\ B[p][t] \in Nat
    BY <1>1, AcksGrow
  <1>8. \A t \in Nat : L[t] \in Seq(Entry) /\ Len(L[t]) \in Nat
    BY <1>1, LenProperties DEF Forward
  <1> HIDE DEF u, T
  <1> SUFFICES ASSUME NEW v \in votes', NEW t \in Nat, NEW n \in Nat,
                      core'[v[3]].role = "Candidate",
                      core'[v[3]].current_term = v[2],
                      t < v[2], Point(M, t, n), B[v[1]][t] >= n
               PROVE  Agree(core'[v[3]].log, M[t], n) \/ Blocked(B, t, n)'
    BY DEF VotersAsked, Has
  <1>9. v[1] \in Server /\ v[2] \in Nat /\ v[3] \in Server
    BY <1>4
  <1>10. v[1] # i \/ t # T
    <2>1. v[2] <= core'[v[1]].current_term
      BY <1>4 DEF IInv, VoteLedger, VotesCurrent
    <2>2. ASSUME v[1] = i, t = T PROVE FALSE
      BY <1>1, <1>9, <2>1, <2>2
    <2> QED BY <2>2
  <1>11. B[v[1]][t] = A[v[1]][t] /\ A[v[1]][t] >= n
    BY <1>2, <1>9, <1>10
  <1>12. ~(n > Len(L[t]))
    BY <1>3, <1>7, <1>8, <1>9, <1>11
  <1>13. Point(L, t, n)
    BY <1>1, <1>12, PointBack
  <1>14. CASE v[3] = i
    <2>1. u.role = "Candidate" /\ v[2] = T /\ core'[v[3]].log = u.log
      BY <1>1, <1>14
    <2>2. v = <<v[1], T, i>>
      BY <1>4, <1>14, <2>1
    <2>3. <<v[1], T, i>> \in votes'
      BY <2>2
    <2>4. Has(u.log, L, A, t, n)
      BY <1>5, <1>9, <1>11, <1>13, <2>1, <2>3, VotersHave DEF u, T
    <2> QED BY <1>1, <2>1, <2>4, HasStays
  <1>15. CASE v[3] # i
    <2>1. core'[v[3]] = core[v[3]] /\ core[v[3]].log \in Seq(Entry)
      BY <1>1, <1>4, <1>9, <1>15 DEF CoreState
    <2>2. Has(core[v[3]].log, L, A, t, n)
      <3>1. CASE v \in votes
        BY <1>3, <1>11, <1>13, <2>1, <3>1 DEF VotersAsked
      <3>2. CASE v \notin votes
        <4>1. u.voted_for # Nil /\ v = <<i, T, u.voted_for>>
          BY <1>4, <3>2
        <4>2. v[1] = i /\ v[2] = T /\ v[3] = u.voted_for
          BY <4>1
        <4>3. v[3] \in Server \ {i} /\ <<i, T, v[3]>> \notin votes
          BY <1>9, <1>15, <3>2, <4>1, <4>2
        <4>4. /\ core[v[3]].role = "Candidate" /\ core[v[3]].current_term = T
              /\ t < T /\ A[i][t] >= n
          BY <1>11, <2>1, <4>2
        <4> QED BY <1>6, <1>13, <4>2, <4>3, <4>4
      <3> QED BY <3>1, <3>2
    <2> QED BY <1>1, <2>1, <2>2, HasStays
  <1> QED BY <1>14, <1>15

LEMMA CommitStep ==
    ASSUME NEW i \in Server, NEW r, NEW ack, NEW L, NEW A, NEW M, NEW B,
           Passes(i, r, L, A, M, B), Sound(i, core[i], r, ack)
    PROVE  CommitInv(M, B)'
  <1> DEFINE u == r.core
             T == r.core.current_term
  <1>1. /\ Forward(i, T, L, A, M, B) /\ u.log \in Seq(Entry)
        /\ T \in Nat /\ u.commit_index \in Nat
        /\ core'[i].current_term = T /\ core'[i].log = u.log
        /\ core'[i].commit_index \in {0, u.commit_index}
        /\ \A j \in Server : j # i => core'[j] = core[j]
    BY PassForward
  <1>0. /\ \/ Settled(u.log, u.commit_index, T, L, A)
           \/ Settled(u.log, u.commit_index, T, M, B)
        /\ \A a \in r.out :
              a.type = "AppendEntriesRequest" =>
                 /\ a.term = T /\ u.role = "Leader"
                 /\ a.leader_commit = u.commit_index
        /\ u.role = "Leader" => u.log = M[T]
    BY DEF Passes, SafeEffect, LogEffect
  <1>2. /\ Settled(u.log, u.commit_index, T, M, B)
        /\ \A a \in r.out :
              a.type = "AppendEntriesRequest" =>
                 /\ a.term = T /\ u.role = "Leader"
                 /\ a.leader_commit = u.commit_index
        /\ u.role = "Leader" => u.log = M[T]
    <2> HIDE DEF u, T
    <2> QED BY <1>0, <1>1, SettledStays
  <1>3. CommitInv(L, A)
    BY DEF Passes, SafeInv
  <1>4. /\ core \in [Server -> CoreState] /\ net \subseteq Envelope
        /\ net' \subseteq net \cup r.out
        /\ applied \subseteq Server \X Nat \X Entry \X Nat
        /\ \A a \in applied' :
              \/ a \in applied
              \/ \E k \in Nat : k \in 1..u.commit_index /\ a = <<i, k, u.log[k], T>>
    BY DEF Passes, IInv, TypeOK, Ran, Applies
  <1>5. /\ L \in [Nat -> Seq(Entry)] /\ M \in [Nat -> Seq(Entry)]
    BY <1>1 DEF Forward
  <1> HIDE DEF u, T
  <1>6. ASSUME NEW j \in Server
        PROVE  Settled(core'[j].log, core'[j].commit_index, core'[j].current_term, M, B)
    <2>1. CASE j = i
      <3>1. CASE core'[i].commit_index = 0
        BY <2>1, <3>1 DEF Settled
      <3>2. CASE core'[i].commit_index = u.commit_index
        BY <1>1, <1>2, <2>1, <3>2
      <3> QED BY <1>1, <3>1, <3>2
    <2>2. CASE j # i
      <3>1. /\ core'[j] = core[j] /\ core[j].log \in Seq(Entry)
            /\ core[j].commit_index \in Nat
        BY <1>1, <1>4, <2>2 DEF CoreState
      <3>2. Settled(core[j].log, core[j].commit_index, core[j].current_term, L, A)
        BY <1>3 DEF CommitInv
      <3> QED BY <1>1, <3>1, <3>2, SettledStays
    <2> QED BY <2>1, <2>2
  <1>7. ASSUME NEW m \in net', m.type = "AppendEntriesRequest"
        PROVE  Settled(M[m.term], m.leader_commit, m.term, M, B)
    <2>1. CASE m \in net
      <3>1. m.term \in Nat /\ m.leader_commit \in Nat
        BY <1>4, <1>7, <2>1 DEF Envelope, RequestVoteRequest,
           RequestVoteResponse, AppendEntriesRequest, AppendEntriesResponse
      <3>2. Settled(L[m.term], m.leader_commit, m.term, L, A)
        BY <1>3, <1>7, <2>1 DEF CommitInv
      <3>3. CASE m.leader_commit = 0
        BY <3>3 DEF Settled
      <3>4. CASE m.leader_commit # 0
        <4>1. PICK t \in Nat, n \in Nat :
                 /\ t <= m.term /\ m.leader_commit <= n /\ Chosen(L, A, t, n)
                 /\ Agree(L[m.term], L[t], m.leader_commit)
          BY <3>2, <3>4 DEF Settled
        <4>2. Chosen(M, B, t, n)
          BY <1>1, <4>1, ChosenStays
        <4>3. Agree(M[m.term], M[t], m.leader_commit)
          BY <1>1, <3>1, <4>1, AgreeBoth
        <4> QED BY <4>1, <4>2, <4>3 DEF Settled
      <3> QED BY <3>3, <3>4
    <2>2. CASE m \in r.out
      BY <1>2, <1>7, <2>2
    <2> QED BY <1>4, <2>1, <2>2
  <1>8. ASSUME NEW a \in applied'
        PROVE  \E t \in Nat, n \in Nat :
                  t <= a[4] /\ Chosen(M, B, t, n) /\ a[2] \in 1..n /\ M[t][a[2]] = a[3]
    <2>1. CASE a \in applied
      <3>1. PICK t \in Nat, n \in Nat :
               t <= a[4] /\ Chosen(L, A, t, n) /\ a[2] \in 1..n /\ L[t][a[2]] = a[3]
        BY <1>3, <2>1 DEF CommitInv
      <3>2. Chosen(M, B, t, n)
        BY <1>1, <3>1, ChosenStays
      <3>3. L[t][a[2]] = M[t][a[2]]
        <4>1. Agree(L[t], M[t], Len(L[t]))
          BY <1>1 DEF Forward, Grew
        <4>2. n \in 1..Len(L[t]) /\ Len(L[t]) \in Nat
          BY <1>5, <3>1, LenProperties DEF Chosen, Point
        <4>3. a[2] \in 1..Len(L[t])
          BY <3>1, <4>2
        <4> QED BY <4>1, <4>3 DEF Agree
      <3> QED BY <3>1, <3>2, <3>3
    <2>2. CASE a \notin applied
      <3>1. PICK k \in Nat : k \in 1..u.commit_index /\ a = <<i, k, u.log[k], T>>
        BY <1>4, <2>2
      <3>2. a[2] = k /\ a[3] = u.log[k] /\ a[4] = T
        BY <3>1
      <3>3. PICK t \in Nat, n \in Nat :
               /\ t <= T /\ u.commit_index <= n /\ Chosen(M, B, t, n)
               /\ Agree(u.log, M[t], u.commit_index)
        BY <1>1, <1>2, <3>1 DEF Settled
      <3>4. u.log[k] = M[t][k]
        BY <3>1, <3>3 DEF Agree
      <3>5. k \in 1..n
        BY <1>1, <3>1, <3>3
      <3> QED BY <3>2, <3>3, <3>4, <3>5
    <2> QED BY <2>1, <2>2
  <1> QED BY <1>6, <1>7, <1>8 DEF CommitInv

\* A safe pass takes records that fit to records that fit.
LEMMA SafeStep ==
    ASSUME NEW i \in Server, NEW r, NEW ack, NEW L, NEW A, NEW M, NEW B,
           Passes(i, r, L, A, M, B), Sound(i, core[i], r, ack)
    PROVE  SafeInv(M, B)'
  <1>1. AckInv(M, B)'
    BY AcksStep, HeldStep, LeadersStep, VotersStep DEF AckInv
  <1>2. CommitInv(M, B)'
    BY CommitStep
  <1>3. panicked' = {}
    BY DEF Passes, SafeInv, Applies
  <1> QED BY <1>1, <1>2, <1>3 DEF SafeInv

-----------------------------------------------------------------------------
(* The effect of each call of the core: a node that keeps its log.         *)

\* What a node sends: only a leader ships its log, only one that runs asks for
\* votes.
Sends(i, r) ==
    LET u == r.core
    IN  \A a \in r.out :
           /\ a.type = "AppendEntriesRequest" =>
                 /\ a.from = i /\ a.term = u.current_term
                 /\ u.role = "Leader" /\ Shipped(a, u.log)
                 /\ a.leader_commit = u.commit_index
           /\ a.type = "RequestVoteRequest" =>
                 /\ a.from = i /\ a.term = u.current_term
                 /\ a.last_log_index = last_log_index(u)
                 /\ a.last_log_term = last_log_term(u)

\* It votes for itself, for who is in its term, or as before.
Votes(i, u) ==
    u.voted_for # Nil =>
       \/ <<i, u.current_term, u.voted_for>> \in votes
       \/ u.voted_for = i
       \/ u.current_term <= core[u.voted_for].current_term

LEMMA KeptLog ==
    ASSUME NEW i \in Server, NEW r, NEW L, IInv, LogInv(L), r.core \in CoreState,
           r.core.current_term >= core[i].current_term, r.core.log = core[i].log,
           \/ r.core.role = "Follower"
           \/ /\ r.core.role = core[i].role
              /\ r.core.current_term = core[i].current_term
           \/ /\ r.core.role = "Candidate"
              /\ r.core.current_term > core[i].current_term,
           Votes(i, r.core), Sends(i, r)
    PROVE  LogEffect(i, r, L, L)
  <1> DEFINE s == core[i]
             u == r.core
             T == r.core.current_term
  <1>1. /\ core \in [Server -> CoreState] /\ s \in CoreState
        /\ elected \subseteq Nat \X Server
    BY DEF IInv, TypeOK
  <1>2. /\ T \in Nat /\ s.current_term \in Nat /\ T >= s.current_term
        /\ s.log \in Seq(Entry)
    BY <1>1 DEF CoreState
  <1>3. L \in [Nat -> Seq(Entry)]
    BY DEF LogInv, LeaderLogs
  <1>4. Grew(L, L)
    <2>1. \A t \in Nat : Len(L[t]) \in Nat
      BY <1>3, LenProperties
    <2> QED BY <2>1 DEF Grew, Agree
  <1>5. /\ OnRecord(s.log, L) /\ TermsUpTo(s.log, s.current_term)
        /\ s.role = "Candidate" =>
              /\ TermsUpTo(s.log, s.current_term - 1)
              /\ <<s.current_term, i>> \notin elected
        /\ s.role = "Leader" => s.log = L[s.current_term]
    BY DEF LogInv, NodeLogs
  <1>6. \A k \in 1..Len(s.log) : s.log[k].term \in Nat
    BY <1>2, SeqTerms
  <1>7. TermsUpTo(u.log, T)
    BY <1>2, <1>5, <1>6 DEF TermsUpTo
  <1>8. ASSUME u.role = "Candidate"
        PROVE  TermsUpTo(u.log, T - 1) /\ <<T, i>> \notin elected
    <2>1. CASE T = s.current_term /\ s.role = "Candidate"
      BY <1>5, <2>1
    <2>2. CASE T > s.current_term
      <3>1. TermsUpTo(u.log, T - 1)
        BY <1>2, <1>5, <1>6, <2>2 DEF TermsUpTo
      <3>2. <<T, i>> \notin elected
        <4>1. \A e \in elected : e[1] <= core[e[2]].current_term
          BY DEF LogInv, TermsPast
        <4> QED BY <1>2, <2>2, <4>1
      <3> QED BY <3>1, <3>2
    <2> QED BY <1>8, <2>1, <2>2
  <1>9. u.role = "Leader" => s.role = "Leader" /\ T = s.current_term
    OBVIOUS
  <1>10. u.role # "Follower" =>
              \/ u.role = "Leader" /\ s.role = "Leader" /\ T = s.current_term
              \/ /\ u.log = s.log
                 /\ T > s.current_term \/ (T = s.current_term /\ s.role = "Candidate")
    <2>1. u.role \in {"Follower", "Candidate", "Leader"}
      BY DEF CoreState, Role
    <2> QED BY <1>9, <2>1
  <1>11. u.role = "Leader" => u.log = L[T]
    BY <1>5, <1>9
  <1>12. /\ u.voted_for # Nil =>
              \/ <<i, T, u.voted_for>> \in votes
              \/ u.voted_for = i
              \/ T <= core[u.voted_for].current_term
         /\ \A a \in r.out :
              /\ a.type = "AppendEntriesRequest" =>
                    /\ a.from = i /\ a.term = T /\ u.role = "Leader"
                    /\ Shipped(a, u.log) /\ a.leader_commit = u.commit_index
              /\ a.type = "RequestVoteRequest" =>
                    /\ a.from = i /\ a.term = T
                    /\ a.last_log_index = last_log_index(u)
                    /\ a.last_log_term = last_log_term(u)
    BY DEF Votes, Sends
  <1>13. OnRecord(u.log, L)
    BY <1>5
  <1> QED BY <1>3, <1>4, <1>7, <1>8, <1>10, <1>11, <1>12, <1>13 DEF LogEffect

\* It has voted for itself, or for nobody that it had not voted for before.
StoredVote(i, u) ==
    \/ u.voted_for \in {Nil, i}
    \/ <<i, u.current_term, u.voted_for>> \in votes

\* A new vote for another goes to who has what the voter acknowledged.
VotesSafely(i, u, L, A) ==
    \A j \in Server \ {i} :
       /\ u.voted_for = j /\ <<i, u.current_term, j>> \notin votes
       /\ core[j].role = "Candidate" /\ core[j].current_term = u.current_term
       => \A t \in Nat, n \in Nat :
             t < u.current_term /\ Point(L, t, n) /\ A[i][t] >= n
                => Has(core[j].log, L, A, t, n)

NoAcks(r) == \A a \in r.out : ~(a.type = "AppendEntriesResponse" /\ a.success)

\* A node's log is settled as far as it has committed, whatever its term.
LEMMA SettledLater ==
    ASSUME NEW l, NEW k, NEW x \in Nat, NEW y \in Nat, x <= y, NEW L, NEW A,
           Settled(l, k, x, L, A)
    PROVE  Settled(l, k, y, L, A)
  <1>1. \A t \in Nat : t <= x => t <= y
    OBVIOUS
  <1> QED BY <1>1 DEF Settled

LEMMA KeptAcks ==
    ASSUME NEW i \in Server, NEW r, NEW L, NEW A, IInv, LogInv(L), SafeInv(L, A),
           r.core \in CoreState, r.core.log = core[i].log,
           r.core.current_term >= core[i].current_term,
           NoAcks(r), VotesSafely(i, r.core, L, A),
           r.core.role = "Leader" =>
              /\ core[i].role = "Leader"
              /\ r.core.current_term = core[i].current_term
              /\ \A p \in Server :
                    /\ r.core.match_index[p] <= A[p][r.core.current_term]
                    /\ r.core.next_index[p] <= Len(r.core.log) + 1,
           Settled(r.core.log, r.core.commit_index, r.core.current_term, L, A)
    PROVE  SafeEffect(i, r, L, A, L, A)
  <1> DEFINE s == core[i]
             u == r.core
             T == r.core.current_term
  <1>1. T \in Nat /\ s.current_term \in Nat /\ T >= s.current_term /\ s.log \in Seq(Entry)
    BY DEF IInv, TypeOK, CoreState
  <1>2. Acks(L, A) /\ AcksHeld(L, A)
    BY DEF SafeInv, AckInv
  <1>3. A \in [Server -> [Nat -> Nat]] /\ L \in [Nat -> Seq(Entry)]
    BY <1>2 DEF Acks, LogInv, LeaderLogs
  <1>4. A[i][T] \in Nat /\ A[i][T] >= A[i][T] /\ Len(L[T]) \in Nat /\ Len(s.log) \in Nat
    <2>1. A[i][T] \in Nat /\ L[T] \in Seq(Entry)
      BY <1>1, <1>3
    <2>2. A[i][T] >= A[i][T]
      BY <2>1
    <2> QED BY <1>1, <2>1, <2>2, LenProperties
  <1>5. Agree(u.log, L[T], A[i][T])
    <2>1. CASE T = s.current_term
      BY <1>1, <1>2, <2>1 DEF Acks
    <2>2. CASE T > s.current_term
      <3>1. A[i][T] = 0
        BY <1>1, <1>2, <2>2 DEF Acks
      <3> QED BY <1>4, <3>1 DEF Agree
    <2> QED BY <1>1, <2>1, <2>2
  <1>6. \A t \in Nat, n \in Nat :
           t < T /\ Point(L, t, n) /\ A[i][t] >= n => Has(u.log, L, A, t, n)
    BY <1>2 DEF AcksHeld
  <1>7. \A j \in Server \ {i} :
              /\ u.voted_for = j /\ <<i, T, j>> \notin votes
              /\ core[j].role = "Candidate" /\ core[j].current_term = T
              => \A t \in Nat, n \in Nat :
                    t < T /\ Point(L, t, n) /\ A[i][t] >= n
                       => Has(core[j].log, L, A, t, n)
    BY DEF VotesSafely
  <1>8. u.role = "Leader" => A[i][T] = Len(u.log)
    BY <1>2 DEF Acks
  <1>9. \A a \in r.out : ~(a.type = "AppendEntriesResponse" /\ a.success)
    BY DEF NoAcks
  <1>10. /\ u.role = "Leader" =>
              \A p \in Server : /\ u.match_index[p] <= A[p][T]
                                /\ u.next_index[p] <= Len(u.log) + 1
         /\ Settled(u.log, u.commit_index, T, L, A)
    OBVIOUS
  <1> QED
    BY <1>3, <1>4, <1>5, <1>6, <1>7, <1>8, <1>9, <1>10, Zenon DEF SafeEffect

-----------------------------------------------------------------------------
(* A node that wins, and a leader that appends: the record grows.          *)

\* Nothing is on record of a term whose leader is new.
LEMMA NewTerm ==
    ASSUME NEW i \in Server, NEW r, NEW L, IInv, LogInv(L), r.core \in CoreState,
           Ran(i, r), ElectionSafety', r.core.role = "Leader",
           \/ r.core.current_term > core[i].current_term
           \/ /\ r.core.current_term = core[i].current_term
              /\ core[i].role = "Candidate"
    PROVE  L[r.core.current_term] = << >> /\ <<r.core.current_term, i>> \notin elected
  <1> DEFINE T == r.core.current_term
  <1>1. T \in Nat /\ core[i].current_term \in Nat
    BY DEF IInv, TypeOK, CoreState
  <1>2. <<T, i>> \notin elected
    <2>1. CASE T > core[i].current_term
      <3>1. \A e \in elected : e[1] <= core[e[2]].current_term
        BY DEF LogInv, TermsPast
      <3> QED BY <1>1, <2>1, <3>1
    <2>2. CASE T = core[i].current_term /\ core[i].role = "Candidate"
      BY <2>2 DEF LogInv, NodeLogs
    <2> QED BY <2>1, <2>2
  <1>3. ASSUME L[T] # << >> PROVE FALSE
    <2>1. PICK j \in Server : <<T, j>> \in elected
      BY <1>1, <1>3 DEF LogInv, LeaderLogs
    <2>2. <<T, j>> \in elected' /\ <<T, i>> \in elected'
      BY <2>1 DEF Ran
    <2>3. j = i
      BY <2>2 DEF ElectionSafety
    <2> QED BY <1>2, <2>1, <2>3
  <1> QED BY <1>2, <1>3

\* M is the record after the log of term T's leader became l; B the record
\* after node i acknowledged n in term T.
Puts(L, T, l, M) ==
    /\ M \in [Nat -> Seq(Entry)] /\ M[T] = l
    /\ \A t \in Nat : t # T => M[t] = L[t]

Acked(A, i, T, n, B) ==
    /\ B \in [Server -> [Nat -> Nat]] /\ B[i][T] = n
    /\ \A p \in Server, t \in Nat : p # i \/ t # T => B[p][t] = A[p][t]

LEMMA PutsOne ==
    ASSUME NEW L \in [Nat -> Seq(Entry)], NEW T \in Nat, NEW l \in Seq(Entry)
    PROVE  \E M : Puts(L, T, l, M)
  <1> DEFINE M == [L EXCEPT ![T] = l]
  <1>1. Puts(L, T, l, M)
    BY DEF Puts
  <1> QED BY <1>1

LEMMA Rewritten ==
    ASSUME NEW L \in [Nat -> Seq(Entry)], NEW T \in Nat, NEW l \in Seq(Entry),
           Agree(L[T], l, Len(L[T])), NEW M, Puts(L, T, l, M)
    PROVE  Grew(L, M)
  <1>1. /\ M[T] = l
        /\ \A t \in Nat : t # T => M[t] = L[t]
    BY DEF Puts
  <1>2. ASSUME NEW t \in Nat PROVE Agree(L[t], M[t], Len(L[t]))
    <2>1. CASE t = T
      BY <1>1, <2>1
    <2>2. CASE t # T
      <3>1. M[t] = L[t] /\ L[t] \in Seq(Entry)
        BY <1>1, <2>2
      <3> QED BY <3>1, AgreeSelf
    <2> QED BY <2>1, <2>2
  <1> QED BY <1>1, <1>2 DEF Grew

LEMMA AckedOne ==
    ASSUME NEW A \in [Server -> [Nat -> Nat]], NEW i \in Server, NEW T \in Nat,
           NEW n \in Nat
    PROVE  \E B : Acked(A, i, T, n, B)
  <1> DEFINE f == [A[i] EXCEPT ![T] = n]
             B == [A EXCEPT ![i] = f]
  <1>1. f \in [Nat -> Nat] /\ f[T] = n /\ \A t \in Nat : t # T => f[t] = A[i][t]
    OBVIOUS
  <1> HIDE DEF f
  <1>3. B \in [Server -> [Nat -> Nat]] /\ B[i] = f /\ \A p \in Server : p # i => B[p] = A[p]
    BY <1>1
  <1> HIDE DEF B
  <1>4. Acked(A, i, T, n, B)
    BY <1>1, <1>3 DEF Acked
  <1> QED BY <1>4

LEMMA WinLog ==
    ASSUME NEW i \in Server, NEW r, NEW L, IInv, LogInv(L), r.core \in CoreState,
           Ran(i, r), ElectionSafety', r.core.role = "Leader",
           r.core.log = core[i].log,
           \/ r.core.current_term > core[i].current_term
           \/ /\ r.core.current_term = core[i].current_term
              /\ core[i].role = "Candidate",
           Votes(i, r.core), Sends(i, r), NEW M,
           Puts(L, r.core.current_term, r.core.log, M)
    PROVE  LogEffect(i, r, L, M)
  <1> DEFINE s == core[i]
             u == r.core
             T == r.core.current_term
  <1>1. T \in Nat /\ s.current_term \in Nat /\ T >= s.current_term /\ u.log \in Seq(Entry)
    BY DEF IInv, TypeOK, CoreState
  <1>2. L \in [Nat -> Seq(Entry)]
    BY DEF LogInv, LeaderLogs
  <1>3. Agree(L[T], u.log, Len(L[T]))
    <2>1. L[T] = << >>
      BY NewTerm
    <2>2. Len(L[T]) = 0 /\ Len(u.log) \in Nat
      BY <1>1, <2>1, LenProperties
    <2> QED BY <2>2 DEF Agree
  <1> HIDE DEF u, T
  <1>4. /\ M \in [Nat -> Seq(Entry)] /\ M[T] = u.log /\ Grew(L, M)
        /\ \A t \in Nat : t # T => M[t] = L[t]
    <2>1. Puts(L, T, u.log, M)
      BY DEF u, T
    <2>2. Grew(L, M)
      BY <1>1, <1>2, <1>3, <2>1, Rewritten
    <2> QED BY <2>1, <2>2 DEF Puts
  <1>5. /\ OnRecord(u.log, L) /\ TermsUpTo(u.log, s.current_term)
    BY DEF LogInv, NodeLogs, u
  <1>6. OnRecord(u.log, M)
    BY <1>1, <1>2, <1>4, <1>5, OnRecordGrown
  <1>7. TermsUpTo(u.log, T)
    <2>1. \A k \in 1..Len(u.log) : u.log[k].term \in Nat
      BY <1>1, SeqTerms
    <2> QED BY <1>1, <1>5, <2>1 DEF TermsUpTo
  <1>8. /\ u.role = "Leader" /\ u.log = s.log
        /\ T > s.current_term \/ (T = s.current_term /\ s.role = "Candidate")
    BY DEF u, T
  <1>9. /\ u.voted_for # Nil =>
              \/ <<i, T, u.voted_for>> \in votes
              \/ u.voted_for = i
              \/ T <= core[u.voted_for].current_term
        /\ \A a \in r.out :
              /\ a.type = "AppendEntriesRequest" =>
                    /\ a.from = i /\ a.term = T /\ u.role = "Leader"
                    /\ Shipped(a, u.log) /\ a.leader_commit = u.commit_index
              /\ a.type = "RequestVoteRequest" =>
                    /\ a.from = i /\ a.term = T
                    /\ a.last_log_index = last_log_index(u)
                    /\ a.last_log_term = last_log_term(u)
    BY DEF Votes, Sends, u, T
  <1> QED BY <1>4, <1>6, <1>7, <1>8, <1>9, Zenon DEF LogEffect, u, T

LEMMA WinAcks ==
    ASSUME NEW i \in Server, NEW r, NEW L, NEW A, IInv, LogInv(L), SafeInv(L, A),
           r.core \in CoreState,
           Ran(i, r), ElectionSafety', r.core.role = "Leader",
           r.core.log = core[i].log, r.core.commit_index = core[i].commit_index,
           \/ r.core.current_term > core[i].current_term
           \/ /\ r.core.current_term = core[i].current_term
              /\ core[i].role = "Candidate",
           StoredVote(i, r.core),
           \A p \in Server : /\ r.core.match_index[p] = 0
                             /\ r.core.next_index[p] <= Len(r.core.log) + 1,
           NoAcks(r), NEW M, NEW B,
           Puts(L, r.core.current_term, r.core.log, M),
           Acked(A, i, r.core.current_term, Len(r.core.log), B)
    PROVE  SafeEffect(i, r, L, A, M, B)
  <1> DEFINE s == core[i]
             u == r.core
             T == r.core.current_term
  <1>1. T \in Nat /\ s.current_term \in Nat /\ T >= s.current_term /\ u.log \in Seq(Entry)
    BY DEF IInv, TypeOK, CoreState
  <1>2. /\ L \in [Nat -> Seq(Entry)] /\ A \in [Server -> [Nat -> Nat]]
        /\ A[i][T] <= Len(L[T])
    BY <1>1 DEF LogInv, LeaderLogs, SafeInv, AckInv, Acks
  <1>3. L[T] = << >>
    BY NewTerm
  <1>4. Len(u.log) \in Nat /\ Len(L[T]) = 0
    BY <1>1, <1>3, LenProperties
  <1>5. Settled(u.log, u.commit_index, T, L, A)
    <2>1. Settled(s.log, s.commit_index, s.current_term, L, A)
      BY DEF SafeInv, CommitInv
    <2> QED BY <1>1, <2>1, SettledLater
  <1>6. \A p \in Server : u.match_index[p] = 0 /\ u.next_index[p] <= Len(u.log) + 1
    OBVIOUS
  <1>7. \A j \in Server \ {i} : u.voted_for = j => <<i, T, j>> \in votes
    BY ServerAssumption DEF StoredVote
  <1>8. \A t \in Nat, n \in Nat :
           t < T /\ Point(L, t, n) /\ A[i][t] >= n => Has(u.log, L, A, t, n)
    BY DEF SafeInv, AckInv, AcksHeld
  <1> HIDE DEF u, T
  <1>9. /\ B \in [Server -> [Nat -> Nat]] /\ B[i][T] = Len(u.log)
        /\ \A p \in Server, t \in Nat : p # i \/ t # T => B[p][t] = A[p][t]
    BY DEF Acked, u, T
  <1>10. M[T] = u.log
    BY DEF Puts, u, T
  <1>11. B[i][T] >= A[i][T] /\ Agree(u.log, M[T], B[i][T])
    <2>1. A[i][T] \in Nat
      BY <1>1, <1>2
    <2>0. \A x \in Nat : x <= 0 => x = 0
      OBVIOUS
    <2>2. A[i][T] = 0
      BY <1>2, <1>4, <2>0, <2>1, Zenon
    <2>3. B[i][T] >= A[i][T]
      BY <1>4, <1>9, <2>2
    <2> QED BY <1>1, <1>9, <1>10, <2>3, AgreeSelf
  <1>12. \A p \in Server : u.match_index[p] <= B[p][T] /\ u.next_index[p] <= Len(u.log) + 1
    <2>1. \A p \in Server : B[p][T] \in Nat
      BY <1>1, <1>9
    <2> QED BY <1>6, <2>1
  <1>13. \A a \in r.out : ~(a.type = "AppendEntriesResponse" /\ a.success)
    BY DEF NoAcks
  <1> QED
    BY <1>5, <1>7, <1>8, <1>9, <1>11, <1>12, <1>13, Zenon DEF SafeEffect, u, T

-----------------------------------------------------------------------------
(* The effect of each call of the core: what leaders do.                   *)

\* A leader's log is on record, and so is what it counts as acknowledged.
Counts(i, t, M, B) ==
    /\ t.current_term > 0
    /\ M \in [Nat -> Seq(Entry)] /\ B \in [Server -> [Nat -> Nat]]
    /\ M[t.current_term] = t.log /\ B[i][t.current_term] = Len(t.log)
    /\ \A p \in Server : t.match_index[p] <= B[p][t.current_term]

\* advance_commit_index moves to a point that a majority has acknowledged.
LEMMA AdvanceSettles ==
    ASSUME NEW i \in Server, NEW t \in CoreState, NEW M, NEW B, Counts(i, t, M, B)
    PROVE  LET v == advance_commit_index(i, t)
           IN  /\ v.match_index = t.match_index /\ v.next_index = t.next_index
               /\ \/ v.commit_index = t.commit_index
                  \/ Settled(t.log, v.commit_index, t.current_term, M, B)
  <1> DEFINE have == [p \in Server |-> IF p = i THEN last_log_index(t)
                                                ELSE t.match_index[p]]
             committable == {n \in {have[p] : p \in Server} :
                               /\ is_candidate(have, n)
                               /\ n > t.commit_index
                               /\ log_term_at(t, n) = t.current_term}
             n == CHOOSE k \in committable : TRUE
             T == t.current_term
             h(p) == have[p]
             b(p) == B[p][T]
  <1>1. CASE committable = {}
    <2>1. advance_commit_index(i, t) = t
      BY <1>1 DEF advance_commit_index
    <2> QED BY <2>1
  <1>2. CASE committable # {}
    <2>1. advance_commit_index(i, t) = [t EXCEPT !.commit_index = n]
      BY <1>2 DEF advance_commit_index
    <2>2. n \in committable
      BY <1>2
    <2> HIDE DEF n
    <2>3. is_candidate(have, n) /\ log_term_at(t, n) = T
      BY <2>2
    <2>4. T \in Nat /\ T > 0 /\ t.log \in Seq(Entry)
      BY DEF CoreState, Counts
    <2>5. ASSUME NEW p \in Server
          PROVE  h(p) \in Nat /\ b(p) \in Nat /\ h(p) <= b(p)
      <3>1. b(p) \in Nat /\ t.match_index[p] \in Nat /\ t.match_index[p] <= b(p)
        BY <2>4 DEF Counts, CoreState
      <3>2. Len(t.log) \in Nat /\ (p = i => b(p) = Len(t.log))
        BY <2>4, LenProperties DEF Counts
      <3>3. h(p) = IF p = i THEN Len(t.log) ELSE t.match_index[p]
        BY DEF last_log_index
      <3> HIDE DEF h, b
      <3> QED BY <3>1, <3>2, <3>3
    <2> DEFINE Q == {p \in Server : h(p) >= n}
    <2>6. Cardinality(Q) >= majority
      BY <2>3 DEF is_candidate, held_by_majority
    <2> HIDE DEF have, committable, T, h, b
    <2>7. n \in 1..Len(t.log) /\ t.log[n].term = T
      BY <2>3, <2>4 DEF log_term_at
    <2>8. n \in Nat /\ Len(t.log) \in Nat /\ n <= Len(t.log)
      BY <2>4, <2>7, LenProperties
    <2>9. ASSUME NEW p \in Q PROVE p \in Server /\ b(p) >= n
      BY <2>5, <2>8, <2>9
    <2>10. \A p \in Q : B[p][T] >= n
      BY <2>9 DEF b
    <2>11. Q \in SUBSET Server
      OBVIOUS
    <2>12. M[T] = t.log
      BY DEF Counts, T
    <2> HIDE DEF Q
    <2>13. Chosen(M, B, T, n)
      BY <2>6, <2>7, <2>10, <2>11, <2>12 DEF Chosen, Point
    <2>14. Agree(t.log, M[T], n)
      BY <2>4, <2>8, <2>12, AgreeSelf, AgreeLess
    <2>15. T <= T /\ n <= n
      BY <2>4, <2>8
    <2>16. Settled(t.log, n, T, M, B)
      BY <2>4, <2>8, <2>13, <2>14, <2>15 DEF Settled
    <2>17. LET v == advance_commit_index(i, t)
           IN  /\ v.commit_index = n
               /\ v.match_index = t.match_index /\ v.next_index = t.next_index
      BY <2>1 DEF CoreState
    <2> QED BY <2>16, <2>17 DEF T
  <1> QED BY <1>1, <1>2

\* A leader that replicates without a panic ships from its log.
LEMMA ReplicateSends ==
    ASSUME NEW i \in Server, NEW t \in CoreState, t.role = "Leader",
           NEW r, r = replicate_to_all_peers(i, t)
    PROVE  /\ r.core = t /\ NoAcks(r)
           /\ ~r.panics => Sends(i, r)
           /\ (\A p \in Server : t.next_index[p] <= Len(t.log) + 1) => ~r.panics
  <1>1. /\ r.core = t /\ r.out = {append_entries_for(i, t, p) : p \in peers(i)}
        /\ r.panics = \E p \in peers(i) : append_panics(t, p)
    BY DEF replicate_to_all_peers, Outcome
  <1>2. Len(t.log) \in Nat /\ \A p \in Server : t.next_index[p] \in Nat
    BY LenProperties DEF CoreState
  <1>3. \A p : p \in peers(i) => p \in Server
    BY DEF peers
  <1>4. \A p \in Server : append_panics(t, p) <=> ~(t.next_index[p] <= Len(t.log) + 1)
    BY <1>2 DEF append_panics, last_log_index
  <1>5. NoAcks(r)
    BY <1>1 DEF NoAcks, append_entries_for
  <1>6. ASSUME ~r.panics, NEW a \in r.out
        PROVE  /\ a.type = "AppendEntriesRequest" /\ a.from = i
               /\ a.term = t.current_term /\ a.leader_commit = t.commit_index
               /\ Shipped(a, t.log)
    <2>1. PICK p \in Server : p \in peers(i) /\ a = append_entries_for(i, t, p)
      BY <1>1, <1>3, <1>6
    <2>2. t.next_index[p] <= Len(t.log) + 1
      BY <1>1, <1>4, <1>6, <2>1
    <2> QED BY <2>1, <2>2, ShippedFrom
  <1>7. ASSUME ~r.panics PROVE Sends(i, r)
    BY <1>1, <1>6, <1>7 DEF Sends
  <1>8. (\A p \in Server : t.next_index[p] <= Len(t.log) + 1) => ~r.panics
    BY <1>1, <1>3, <1>4
  <1> QED BY <1>1, <1>5, <1>7, <1>8

\* A log with one entry more.
LEMMA Appended ==
    ASSUME NEW l \in Seq(Entry), NEW e \in Entry
    PROVE  LET g == Append(l, e)
           IN  /\ g \in Seq(Entry) /\ Len(g) = Len(l) + 1 /\ g[Len(l) + 1] = e
               /\ Agree(g, l, Len(l)) /\ Agree(l, g, Len(l))
  <1> DEFINE g == Append(l, e)
  <1>1. /\ g \in Seq(Entry) /\ Len(g) = Len(l) + 1 /\ g[Len(l) + 1] = e
        /\ \A k \in 1..Len(l) : g[k] = l[k]
    BY AppendProperties
  <1>2. Len(l) \in Nat
    BY LenProperties
  <1> HIDE DEF g
  <1>3. Agree(g, l, Len(l)) /\ Agree(l, g, Len(l))
    BY <1>1, <1>2 DEF Agree
  <1> QED BY <1>1, <1>3 DEF g

\* A leader that appends e to its log.
Adds(i, r, e) ==
    LET s == core[i]
        u == r.core
    IN  /\ u \in CoreState /\ e \in Entry /\ e.term = s.current_term
        /\ s.role = "Leader" /\ u.role = "Leader"
        /\ u.current_term = s.current_term /\ u.log = Append(s.log, e)
        /\ u.voted_for = s.voted_for

LEMMA ProposeLog ==
    ASSUME NEW i \in Server, NEW r, NEW e, NEW L, IInv, LogInv(L), Adds(i, r, e),
           Sends(i, r), NEW M, Puts(L, r.core.current_term, r.core.log, M)
    PROVE  LogEffect(i, r, L, M)
  <1> DEFINE s == core[i]
             u == r.core
             T == r.core.current_term
  <1>1. /\ T \in Nat /\ T = s.current_term /\ u.log \in Seq(Entry)
        /\ s.log \in Seq(Entry) /\ s.role = "Leader" /\ u.role = "Leader"
        /\ e \in Entry /\ e.term = T /\ u.log = Append(s.log, e)
        /\ u.voted_for = s.voted_for
    BY DEF IInv, TypeOK, CoreState, Adds
  <1>2. L \in [Nat -> Seq(Entry)]
    BY DEF LogInv, LeaderLogs
  <1>3. /\ OnRecord(s.log, L) /\ TermsUpTo(s.log, T) /\ s.log = L[T]
    BY <1>1 DEF LogInv, NodeLogs
  <1>4. /\ Len(u.log) = Len(s.log) + 1 /\ u.log[Len(s.log) + 1] = e
        /\ Agree(u.log, s.log, Len(s.log)) /\ Agree(s.log, u.log, Len(s.log))
    BY <1>1, Appended
  <1> HIDE DEF u, T, s
  <1>5. /\ M \in [Nat -> Seq(Entry)] /\ M[T] = u.log /\ Grew(L, M)
        /\ \A t \in Nat : t # T => M[t] = L[t]
    <2>1. Agree(L[T], u.log, Len(L[T])) /\ Puts(L, T, u.log, M)
      BY <1>3, <1>4 DEF u, T
    <2>2. Grew(L, M)
      BY <1>1, <1>2, <2>1, Rewritten
    <2> QED BY <2>1, <2>2 DEF Puts
  <1>6. OnRecord(s.log, M)
    BY <1>1, <1>2, <1>3, <1>5, OnRecordGrown
  <1>7. Len(s.log) \in Nat /\ Len(u.log) \in Nat
    BY <1>1, LenProperties
  <1>8. ASSUME NEW k \in 1..Len(u.log)
        PROVE  Agree(u.log, M[u.log[k].term], k) /\ u.log[k].term <= T
    <2>1. CASE k = Len(s.log) + 1
      <3>1. u.log[k].term = T
        BY <1>1, <1>4, <2>1
      <3>2. Agree(u.log, M[T], k)
        BY <1>1, <1>4, <1>5, <2>1, AgreeSelf
      <3> QED BY <1>1, <3>1, <3>2
    <2>2. CASE k # Len(s.log) + 1
      <3>1. k \in 1..Len(s.log) /\ k \in Nat /\ k <= Len(s.log)
        BY <1>4, <1>7, <2>2
      <3>2. u.log[k] = s.log[k]
        BY <1>4, <3>1 DEF Agree
      <3>3. Agree(u.log, s.log, k)
        BY <1>1, <1>4, <1>7, <3>1, AgreeLess
      <3>4. Agree(s.log, M[s.log[k].term], k)
        BY <1>6, <3>1 DEF OnRecord
      <3>5. s.log[k].term <= T
        BY <1>3, <3>1 DEF TermsUpTo
      <3> QED BY <3>2, <3>3, <3>4, <3>5, AgreeOn
    <2> QED BY <2>1, <2>2
  <1>9. OnRecord(u.log, M) /\ TermsUpTo(u.log, T)
    BY <1>8 DEF OnRecord, TermsUpTo
  <1>10. u.voted_for # Nil => <<i, T, u.voted_for>> \in votes
    BY <1>1 DEF IInv, VoteLedger, VotesStored, s
  <1>11. \A a \in r.out :
              /\ a.type = "AppendEntriesRequest" =>
                    /\ a.from = i /\ a.term = T /\ u.role = "Leader"
                    /\ Shipped(a, u.log) /\ a.leader_commit = u.commit_index
              /\ a.type = "RequestVoteRequest" =>
                    /\ a.from = i /\ a.term = T
                    /\ a.last_log_index = last_log_index(u)
                    /\ a.last_log_term = last_log_term(u)
    BY DEF Sends, u, T
  <1> QED BY <1>1, <1>5, <1>9, <1>10, <1>11, Zenon DEF LogEffect, u, T, s

LEMMA ProposeAcks ==
    ASSUME NEW i \in Server, NEW r, NEW e, NEW L, NEW A, IInv, LogInv(L),
           SafeInv(L, A), Adds(i, r, e), NoAcks(r),
           r.core.match_index = core[i].match_index,
           r.core.next_index = core[i].next_index, NEW M, NEW B,
           Acked(A, i, r.core.current_term, Len(r.core.log), B),
           Puts(L, r.core.current_term, r.core.log, M),
           \/ r.core.commit_index = core[i].commit_index
           \/ Settled(r.core.log, r.core.commit_index, r.core.current_term, M, B)
    PROVE  SafeEffect(i, r, L, A, M, B)
  <1> DEFINE s == core[i]
             u == r.core
             T == r.core.current_term
  <1>1. /\ T \in Nat /\ T = s.current_term /\ u.log \in Seq(Entry)
        /\ s.log \in Seq(Entry) /\ s.role = "Leader" /\ u.role = "Leader"
        /\ e \in Entry /\ u.log = Append(s.log, e)
        /\ u.voted_for = s.voted_for /\ s.commit_index \in Nat
        /\ s.match_index \in [Server -> Nat] /\ s.next_index \in [Server -> Nat]
    BY DEF IInv, TypeOK, CoreState, Adds
  <1>2. /\ L \in [Nat -> Seq(Entry)] /\ A \in [Server -> [Nat -> Nat]]
        /\ A[i][T] = Len(s.log)
        /\ \A p \in Server : /\ s.match_index[p] <= A[p][T]
                             /\ s.next_index[p] <= Len(s.log) + 1
    BY <1>1 DEF LogInv, LeaderLogs, SafeInv, AckInv, Acks
  <1>3. /\ Len(u.log) = Len(s.log) + 1 /\ Agree(u.log, s.log, Len(s.log))
    BY <1>1, Appended
  <1>4. \A t \in Nat, n \in Nat :
           t < T /\ Point(L, t, n) /\ A[i][t] >= n => Has(s.log, L, A, t, n)
    BY DEF SafeInv, AckInv, AcksHeld
  <1>5. Settled(s.log, s.commit_index, T, L, A)
    BY <1>1 DEF SafeInv, CommitInv
  <1>6. /\ u.match_index = s.match_index /\ u.next_index = s.next_index
        /\ u.commit_index = s.commit_index \/ Settled(u.log, u.commit_index, T, M, B)
    OBVIOUS
  <1> HIDE DEF u, T, s
  <1>7. Len(s.log) \in Nat /\ Len(u.log) \in Nat
    BY <1>1, LenProperties
  <1>8. /\ B \in [Server -> [Nat -> Nat]] /\ B[i][T] = Len(u.log)
        /\ \A p \in Server, t \in Nat : p # i \/ t # T => B[p][t] = A[p][t]
    BY DEF Acked, u, T
  <1>9. M[T] = u.log
    BY DEF Puts, u, T
  <1>10. ASSUME NEW t \in Nat, NEW k \in Nat, Agree(s.log, L[t], k)
         PROVE  Agree(u.log, L[t], k)
    <2>1. k <= Len(s.log)
      BY <1>10 DEF Agree
    <2>2. Agree(u.log, s.log, k)
      BY <1>1, <1>3, <1>7, <2>1, AgreeLess
    <2> QED BY <1>10, <2>2, AgreeOn
  <1>11. \A t \in Nat, n \in Nat :
           t < T /\ Point(L, t, n) /\ A[i][t] >= n => Has(u.log, L, A, t, n)
    BY <1>4, <1>10 DEF Has
  <1>12. Settled(s.log, s.commit_index, T, L, A) => Settled(u.log, s.commit_index, T, L, A)
    BY <1>1, <1>10 DEF Settled
  <1>13. B[i][T] >= A[i][T] /\ Agree(u.log, M[T], B[i][T])
    <2>1. B[i][T] >= A[i][T]
      <3>1. \A x \in Nat : x + 1 >= x
        OBVIOUS
      <3>2. A[i][T] = Len(s.log) /\ B[i][T] = Len(s.log) + 1
        BY <1>2, <1>3, <1>8
      <3> QED BY <1>7, <3>1, <3>2
    <2> QED BY <1>1, <1>8, <1>9, <2>1, AgreeSelf
  <1>14. ASSUME NEW p \in Server
         PROVE  u.match_index[p] <= B[p][T] /\ u.next_index[p] <= Len(u.log) + 1
    <2>1. /\ s.match_index[p] \in Nat /\ s.next_index[p] \in Nat
          /\ A[p][T] \in Nat /\ B[p][T] \in Nat
      <3>1. A[p] \in [Nat -> Nat] /\ B[p] \in [Nat -> Nat]
        BY <1>2, <1>8
      <3> QED BY <1>1, <3>1
    <2>2. B[p][T] >= A[p][T]
      <3>1. CASE p = i
        BY <1>13, <3>1
      <3>2. CASE p # i
        <4>1. B[p][T] = A[p][T]
          BY <1>1, <1>8, <3>2
        <4> QED BY <2>1, <4>1
      <3> QED BY <3>1, <3>2
    <2>3. s.match_index[p] <= A[p][T] /\ s.next_index[p] <= Len(s.log) + 1
      BY <1>2
    <2>4. \A x, y, z \in Nat : x <= y /\ z >= y => x <= z
      OBVIOUS
    <2>5. \A x, y \in Nat : x <= y + 1 => x <= y + 1 + 1
      OBVIOUS
    <2>6. s.match_index[p] <= B[p][T]
      BY <2>1, <2>2, <2>3, <2>4
    <2>7. s.next_index[p] <= Len(u.log) + 1
      BY <1>3, <1>7, <2>1, <2>3, <2>5
    <2> QED BY <1>6, <2>6, <2>7
  <1>15. u.voted_for # Nil => <<i, T, u.voted_for>> \in votes
    BY <1>1 DEF IInv, VoteLedger, VotesStored, s
  <1>16. \A j \in Server \ {i} : u.voted_for = j => <<i, T, j>> \in votes
    BY <1>15, ServerAssumption
  <1>17. \A a \in r.out : ~(a.type = "AppendEntriesResponse" /\ a.success)
    BY DEF NoAcks
  <1>18. \/ Settled(u.log, u.commit_index, T, L, A)
         \/ Settled(u.log, u.commit_index, T, M, B)
    BY <1>5, <1>6, <1>12
  <1> QED
    BY <1>8, <1>11, <1>13, <1>14, <1>16, <1>17, <1>18, Zenon DEF SafeEffect, u, T

-----------------------------------------------------------------------------
(* The effect of each call of the core: a follower that accepts a request. *)

\* How a follower is left by a request m whose previous entry it has.
Accepts(i, r, m) ==
    LET s == core[i]
        u == r.core
    IN  /\ m \in net /\ m \in AppendEntriesRequest
        /\ u \in CoreState /\ u.role = "Follower"
        /\ u.current_term = m.term /\ m.term >= s.current_term
        /\ \/ m.prev_log_index = 0
           \/ /\ m.prev_log_index <= Len(s.log)
              /\ TermAt(s.log, m.prev_log_index) = m.prev_log_term
        /\ u.log = merge_entries(s.log, m.prev_log_index, m.entries)
        /\ \/ u.voted_for = Nil
           \/ u.voted_for = s.voted_for /\ m.term = s.current_term
        /\ \/ u.commit_index = s.commit_index
           \/ u.commit_index <= m.leader_commit /\ u.commit_index <= Len(u.log)
        /\ \A a \in r.out :
              /\ a.type = "AppendEntriesResponse" /\ a.from = i
              /\ a.term = m.term /\ a.match_index = Len(u.log)

\* Its log after that, beside the one of its leader.
LEMMA AcceptMerges ==
    ASSUME NEW i \in Server, NEW r, NEW m, NEW L, IInv, LogInv(L), Accepts(i, r, m)
    PROVE  LET T == m.term
               l == r.core.log
               end == m.prev_log_index + Len(m.entries)
           IN  /\ T \in Nat /\ end \in Nat /\ l \in Seq(Entry) /\ L[T] \in Seq(Entry)
               /\ <<T, m.from>> \in elected
               /\ OnRecord(l, L) /\ Agree(l, L[T], end)
               /\ l = core[i].log \/ Len(l) = end
               /\ \A n \in Nat : Agree(core[i].log, L[T], n) => Agree(l, L[T], n)
  <1>1. /\ m \in net /\ m \in AppendEntriesRequest /\ m.type = "AppendEntriesRequest"
        /\ m.term \in Nat /\ m.prev_log_index \in Nat /\ m.entries \in Seq(Entry)
    BY DEF Accepts, AppendEntriesRequest
  <1>2. <<m.term, m.from>> \in elected /\ Shipped(m, L[m.term])
    BY <1>1 DEF LogInv, MailLogs
  <1>3. /\ L \in [Nat -> Seq(Entry)] /\ L[m.term] \in Seq(Entry)
        /\ OnRecord(L[m.term], L)
    BY <1>1 DEF LogInv, LeaderLogs
  <1>4. core[i].log \in Seq(Entry) /\ OnRecord(core[i].log, L)
    BY DEF IInv, TypeOK, CoreState, LogInv, NodeLogs
  <1>5. /\ \/ m.prev_log_index = 0
           \/ /\ m.prev_log_index <= Len(core[i].log)
              /\ TermAt(core[i].log, m.prev_log_index) = m.prev_log_term
        /\ r.core.log = merge_entries(core[i].log, m.prev_log_index, m.entries)
    BY DEF Accepts
  <1>6. m.prev_log_index + Len(m.entries) \in Nat
    BY <1>1, LenProperties
  <1> DEFINE log == core[i].log
             big == L[m.term]
             res == merge_entries(log, m.prev_log_index, m.entries)
  <1> HIDE DEF log, big
  <1>7. /\ res \in Seq(Entry) /\ OnRecord(res, L)
        /\ Agree(res, big, m.prev_log_index + Len(m.entries))
        /\ res = log \/ Len(res) = m.prev_log_index + Len(m.entries)
        /\ \A n \in Nat : Agree(log, big, n) => Agree(res, big, n)
    <2>1. log \in Seq(Entry) /\ big \in Seq(Entry) /\ OnRecord(log, L) /\ OnRecord(big, L)
      BY <1>3, <1>4 DEF log, big
    <2>2. Shipped(m, big)
      BY <1>2 DEF big
    <2>3. \/ m.prev_log_index = 0
          \/ /\ m.prev_log_index <= Len(log)
             /\ TermAt(log, m.prev_log_index) = m.prev_log_term
      BY <1>5 DEF log
    <2> QED BY <1>1, <1>3, <2>1, <2>2, <2>3, MergeKeeps
  <1>8. r.core.log = res
    BY <1>5 DEF log
  <1> HIDE DEF res
  <1> QED BY <1>1, <1>2, <1>3, <1>6, <1>7, <1>8 DEF log, big

\* The terms in a log, later or in a part of another.
LEMMA TermsLater ==
    ASSUME NEW l \in Seq(Entry), NEW x \in Nat, NEW y \in Nat, x <= y, TermsUpTo(l, x)
    PROVE  TermsUpTo(l, y)
  <1>1. \A k \in 1..Len(l) : l[k].term \in Nat
    BY SeqTerms
  <1> QED BY <1>1 DEF TermsUpTo

LEMMA TermsWithin ==
    ASSUME NEW l \in Seq(Entry), NEW b \in Seq(Entry), NEW x, Agree(l, b, Len(l)),
           TermsUpTo(b, x)
    PROVE  TermsUpTo(l, x)
  <1>1. Len(l) \in Nat /\ Len(b) \in Nat
    BY LenProperties
  <1>2. ASSUME NEW k \in 1..Len(l) PROVE l[k].term <= x
    <2>1. k \in 1..Len(b) /\ l[k] = b[k]
      BY <1>1 DEF Agree
    <2> QED BY <2>1 DEF TermsUpTo
  <1> QED BY <1>2 DEF TermsUpTo

LEMMA AcceptLog ==
    ASSUME NEW i \in Server, NEW r, NEW m, NEW L, IInv, LogInv(L), Accepts(i, r, m)
    PROVE  LogEffect(i, r, L, L)
  <1> DEFINE s == core[i]
             u == r.core
             T == r.core.current_term
             end == m.prev_log_index + Len(m.entries)
  <1>1. /\ T = m.term /\ T >= s.current_term /\ s.current_term \in Nat
        /\ u.role = "Follower" /\ s.log \in Seq(Entry)
    BY DEF Accepts, IInv, TypeOK, CoreState
  <1>2. /\ T \in Nat /\ end \in Nat /\ u.log \in Seq(Entry) /\ L[T] \in Seq(Entry)
        /\ OnRecord(u.log, L) /\ Agree(u.log, L[T], end)
        /\ u.log = s.log \/ Len(u.log) = end
    BY <1>1, AcceptMerges
  <1>3. /\ L \in [Nat -> Seq(Entry)] /\ TermsUpTo(L[T], T)
        /\ TermsUpTo(s.log, s.current_term)
    BY <1>2 DEF LogInv, LeaderLogs, NodeLogs
  <1>4. Grew(L, L)
    <2>1. \A t \in Nat : Len(L[t]) \in Nat
      BY <1>3, LenProperties
    <2> QED BY <2>1 DEF Grew, Agree
  <1>5. u.voted_for # Nil => <<i, T, u.voted_for>> \in votes
    BY <1>1 DEF Accepts, IInv, VoteLedger, VotesStored
  <1>6. \A a \in r.out : a.type = "AppendEntriesResponse"
    BY DEF Accepts
  <1> HIDE DEF s, u, T, end
  <1>7. TermsUpTo(u.log, T)
    <2>1. CASE u.log = s.log
      BY <1>1, <1>2, <1>3, <2>1, TermsLater
    <2>2. CASE Len(u.log) = end
      BY <1>2, <1>3, <2>2, TermsWithin
    <2> QED BY <1>2, <2>1, <2>2
  <1>8. u.role # "Leader" /\ u.role # "Candidate"
    BY <1>1
  <1>9. \A a \in r.out : /\ a.type # "AppendEntriesRequest"
                         /\ a.type # "RequestVoteRequest"
    BY <1>6
  <1> QED
    BY <1>1, <1>2, <1>3, <1>4, <1>5, <1>7, <1>8, <1>9, Zenon DEF LogEffect, s, u, T

\* An answer with the log's length counts nothing that the leader lacks.
Counted(u, m) ==
    \/ Len(u.log) <= m.prev_log_index + Len(m.entries)
    \/ TermAt(u.log, Len(u.log)) = m.term

LEMMA AcceptAcks ==
    ASSUME NEW i \in Server, NEW r, NEW m, NEW L, NEW A, NEW B, IInv, LogInv(L),
           SafeInv(L, A), Accepts(i, r, m), Counted(r.core, m),
           Acked(A, i, r.core.current_term, Len(r.core.log), B)
    PROVE  SafeEffect(i, r, L, A, L, B)
  <1> DEFINE s == core[i]
             u == r.core
             T == r.core.current_term
             end == m.prev_log_index + Len(m.entries)
             b == L[T]
  <1>1. /\ T = m.term /\ T >= s.current_term /\ s.current_term \in Nat
        /\ u.role = "Follower" /\ s.log \in Seq(Entry)
        /\ s.commit_index \in Nat /\ u.commit_index \in Nat
        /\ m \in net /\ m.type = "AppendEntriesRequest" /\ m.leader_commit \in Nat
    BY DEF Accepts, IInv, TypeOK, CoreState, AppendEntriesRequest
  <1>2. /\ T \in Nat /\ end \in Nat /\ u.log \in Seq(Entry) /\ b \in Seq(Entry)
        /\ <<T, m.from>> \in elected
        /\ OnRecord(u.log, L) /\ Agree(u.log, b, end)
        /\ \A n \in Nat : Agree(s.log, b, n) => Agree(u.log, b, n)
    BY <1>1, AcceptMerges
  <1>3. L \in [Nat -> Seq(Entry)] /\ A \in [Server -> [Nat -> Nat]]
    BY DEF LogInv, LeaderLogs, SafeInv, AckInv, Acks
  <1>4. /\ T > s.current_term => A[i][T] = 0
        /\ T = s.current_term => Agree(s.log, b, A[i][T])
    BY <1>2 DEF SafeInv, AckInv, Acks
  <1>5. \A t \in Nat, n \in Nat : t < T /\ Point(L, t, n) => Has(b, L, A, t, n)
    <2>1. \A e \in elected, t \in Nat, n \in Nat :
             t < e[1] /\ Point(L, t, n) => Has(L[e[1]], L, A, t, n)
      BY DEF SafeInv, AckInv, LeadersHave
    <2>2. <<T, m.from>>[1] = T
      OBVIOUS
    <2> QED BY <1>2, <2>1, <2>2
  <1>6. \A t \in Nat, n \in Nat :
           Point(L, t, n) /\ A[i][t] >= n => Has(s.log, L, A, t, n)
    BY DEF SafeInv, AckInv, AcksHeld
  <1>7. /\ Settled(s.log, s.commit_index, s.current_term, L, A)
        /\ Settled(b, m.leader_commit, T, L, A)
    BY <1>1 DEF SafeInv, CommitInv
  <1>8. /\ B \in [Server -> [Nat -> Nat]] /\ B[i][T] = Len(u.log)
        /\ \A p \in Server, t \in Nat : p # i \/ t # T => B[p][t] = A[p][t]
    BY DEF Acked
  <1>9. /\ \A a \in r.out : /\ a.from = i /\ a.term = T /\ a.match_index = Len(u.log)
        /\ \/ u.commit_index = s.commit_index
           \/ u.commit_index <= m.leader_commit /\ u.commit_index <= Len(u.log)
    BY <1>1 DEF Accepts
  <1>10. Len(u.log) <= end \/ TermAt(u.log, Len(u.log)) = T
    BY <1>1 DEF Counted
  <1>11. u.voted_for # Nil => <<i, T, u.voted_for>> \in votes
    BY <1>1 DEF Accepts, IInv, VoteLedger, VotesStored
  <1>12. \A j \in Server \ {i} : u.voted_for = j => <<i, T, j>> \in votes
    BY <1>11, ServerAssumption
  <1> HIDE DEF s, u, T, end
  <1>13. Len(u.log) \in Nat /\ Len(b) \in Nat
    BY <1>2, LenProperties
  <1>14. Agree(u.log, b, Len(u.log))
    <2>1. CASE Len(u.log) <= end
      BY <1>2, <1>13, <2>1, AgreeLess
    <2>2. CASE ~(Len(u.log) <= end)
      <3>1. Len(u.log) \in 1..Len(u.log)
        BY <1>2, <1>13, <2>2
      <3>2. u.log[Len(u.log)].term = T
        BY <1>10, <2>2, <3>1 DEF TermAt
      <3> QED BY <1>2, <3>1, <3>2 DEF OnRecord
    <2> QED BY <2>1, <2>2
  <1> HIDE DEF b
  <1>15. B[i][T] >= A[i][T]
    <2>1. A[i] \in [Nat -> Nat]
      BY <1>3
    <2>2. A[i][T] \in Nat
      BY <1>2, <2>1
    <2>3. CASE T > s.current_term
      BY <1>4, <1>8, <1>13, <2>3
    <2>4. CASE T = s.current_term
      <3>1. Agree(u.log, b, A[i][T])
        BY <1>2, <1>4, <2>2, <2>4
      <3>2. A[i][T] <= Len(u.log)
        BY <3>1 DEF Agree
      <3> QED BY <1>8, <1>13, <2>2, <3>2
    <2> QED BY <1>1, <1>2, <2>3, <2>4
  <1>16. ASSUME NEW t \in Nat, NEW k \in Nat, Agree(s.log, L[t], k), Agree(b, L[t], k)
         PROVE  Agree(u.log, L[t], k)
    <2>1. Agree(s.log, b, k)
      BY <1>16, AgreeBack, AgreeOn
    <2>2. Agree(u.log, b, k)
      BY <1>2, <2>1
    <2> QED BY <1>16, <2>2, AgreeOn
  <1>17. ASSUME NEW t \in Nat, NEW n \in Nat, t < T, Point(L, t, n), A[i][t] >= n
         PROVE  Has(u.log, L, A, t, n)
    <2>1. Has(s.log, L, A, t, n) /\ Has(b, L, A, t, n)
      BY <1>5, <1>6, <1>17
    <2> QED BY <1>16, <2>1 DEF Has
  <1>18. Settled(u.log, u.commit_index, T, L, A)
    <2>1. CASE u.commit_index = 0
      BY <2>1 DEF Settled
    <2>2. CASE u.commit_index = s.commit_index /\ u.commit_index # 0
      <3> DEFINE k == s.commit_index
      <3>1. PICK t \in Nat, n \in Nat :
               /\ t <= s.current_term /\ k <= n
               /\ Chosen(L, A, t, n) /\ Agree(s.log, L[t], k)
        BY <1>7, <2>2 DEF Settled
      <3>2. t <= T
        BY <1>1, <1>2, <3>1
      <3>3. CASE t = T
        <4>1. Agree(s.log, b, k)
          BY <3>1, <3>3 DEF b
        <4>2. Agree(u.log, L[t], k)
          BY <1>1, <1>2, <3>3, <4>1 DEF b
        <4> QED BY <2>2, <3>1, <3>2, <4>2 DEF Settled
      <3>4. CASE t < T
        <4>1. ~Blocked(A, t, n) /\ Point(L, t, n)
          BY <1>3, <3>1, ChosenUnblocked DEF Chosen
        <4>2. Agree(b, L[t], n)
          BY <1>5, <3>4, <4>1 DEF Has
        <4>3. L[t] \in Seq(Entry)
          BY <1>3
        <4>4. Agree(b, L[t], k)
          BY <1>1, <1>2, <3>1, <4>2, <4>3, AgreeLess
        <4>5. Agree(u.log, L[t], k)
          BY <1>1, <1>16, <3>1, <4>4
        <4> QED BY <2>2, <3>1, <3>2, <4>5 DEF Settled
      <3> QED BY <1>2, <3>2, <3>3, <3>4
    <2>3. CASE /\ u.commit_index <= m.leader_commit /\ u.commit_index <= Len(u.log)
               /\ u.commit_index # 0
      <3> DEFINE k == u.commit_index
      <3>0. m.leader_commit # 0 /\ k \in Nat
        BY <1>1, <2>3
      <3>1. PICK t \in Nat, n \in Nat :
               /\ t <= T /\ m.leader_commit <= n
               /\ Chosen(L, A, t, n) /\ Agree(b, L[t], m.leader_commit)
        BY <1>7, <3>0 DEF Settled
      <3>2. L[t] \in Seq(Entry)
        BY <1>3
      <3>3. Agree(b, L[t], k)
        BY <1>1, <1>2, <2>3, <3>1, <3>2, AgreeLess
      <3>4. Agree(u.log, b, k)
        BY <1>1, <1>2, <1>13, <1>14, <2>3, AgreeLess
      <3>5. Agree(u.log, L[t], k)
        BY <3>3, <3>4, AgreeOn
      <3>6. k <= n
        BY <1>1, <2>3, <3>1
      <3> QED BY <3>1, <3>5, <3>6 DEF Settled
    <2> QED BY <1>9, <2>1, <2>2, <2>3
  <1>19. u.role # "Leader" /\ Len(u.log) <= Len(u.log)
    BY <1>1, <1>13
  <1>20. \A a \in r.out : a.from = i /\ a.term = T /\ a.match_index <= B[i][T]
    BY <1>8, <1>9, <1>19
  <1>21. Agree(u.log, L[T], B[i][T])
    BY <1>8, <1>14 DEF b
  <1> QED
    BY <1>8, <1>12, <1>15, <1>17, <1>18, <1>19, <1>20, <1>21, Zenon
    DEF SafeEffect, u, T

-----------------------------------------------------------------------------
(* The calls of the core, by what they do to the logs.                     *)

\* What is to be shown of the outcome r of each call: it has an effect on the
\* logs that keeps the record, and, from a safe state, does not panic and
\* keeps the acknowledgements too.
LogMoves(i, r, L) ==
    ~r.panics /\ Ran(i, r) /\ ElectionSafety' => \E M : LogEffect(i, r, L, M)

SafeMoves(i, r, L, A) ==
    /\ ~r.panics
    /\ Ran(i, r) /\ ElectionSafety' =>
          \E M, B : LogEffect(i, r, L, M) /\ SafeEffect(i, r, L, A, M, B)

\* A call that leaves the log, the commit index and a leader's maps alone.
Keeps(i, r) ==
    LET s == core[i]
        u == r.core
    IN  /\ u \in CoreState /\ u.log = s.log /\ u.commit_index = s.commit_index
        /\ u.current_term >= s.current_term
        /\ \/ u.role = "Follower"
           \/ u.role = s.role /\ u.current_term = s.current_term
           \/ u.role = "Candidate" /\ u.current_term > s.current_term
        /\ u.role = "Leader" =>
              u.match_index = s.match_index /\ u.next_index = s.next_index
        /\ NoAcks(r) /\ Sends(i, r)

LEMMA StoredVotes ==
    ASSUME NEW i \in Server, NEW u, StoredVote(i, u), NEW L, NEW A
    PROVE  Votes(i, u) /\ VotesSafely(i, u, L, A)
  <1>1. Votes(i, u)
    BY DEF StoredVote, Votes
  <1>2. \A j \in Server \ {i} : u.voted_for = j => <<i, u.current_term, j>> \in votes
    BY ServerAssumption DEF StoredVote
  <1> QED BY <1>1, <1>2 DEF VotesSafely

LEMMA KeepsLog ==
    ASSUME NEW i \in Server, NEW r, NEW L, IInv, LogInv(L), Keeps(i, r),
           Votes(i, r.core)
    PROVE  LogEffect(i, r, L, L)
  BY KeptLog DEF Keeps

LEMMA KeepsAcks ==
    ASSUME NEW i \in Server, NEW r, NEW L, NEW A, IInv, LogInv(L), SafeInv(L, A),
           Keeps(i, r), VotesSafely(i, r.core, L, A)
    PROVE  SafeEffect(i, r, L, A, L, A)
  <1>1. /\ r.core \in CoreState /\ r.core.log = core[i].log
        /\ r.core.current_term >= core[i].current_term /\ NoAcks(r)
        /\ r.core.commit_index = core[i].commit_index
    BY DEF Keeps
  <1>2. r.core.current_term \in Nat /\ core[i].current_term \in Nat
    BY <1>1 DEF IInv, TypeOK, CoreState
  <1>3. Settled(r.core.log, r.core.commit_index, r.core.current_term, L, A)
    <2>1. Settled(core[i].log, core[i].commit_index, core[i].current_term, L, A)
      BY DEF SafeInv, CommitInv
    <2> QED BY <1>1, <1>2, <2>1, SettledLater
  <1>4. ASSUME r.core.role = "Leader"
        PROVE  /\ core[i].role = "Leader"
               /\ r.core.current_term = core[i].current_term
               /\ r.core.match_index = core[i].match_index
               /\ r.core.next_index = core[i].next_index
    BY <1>4 DEF Keeps
  <1>5. core[i].role = "Leader" =>
           \A p \in Server : /\ core[i].match_index[p] <= A[p][core[i].current_term]
                             /\ core[i].next_index[p] <= Len(core[i].log) + 1
    BY DEF SafeInv, AckInv, Acks
  <1>6. r.core.role = "Leader" =>
              /\ core[i].role = "Leader"
              /\ r.core.current_term = core[i].current_term
              /\ \A p \in Server :
                    /\ r.core.match_index[p] <= A[p][r.core.current_term]
                    /\ r.core.next_index[p] <= Len(r.core.log) + 1
    BY <1>1, <1>4, <1>5
  <1> QED BY <1>1, <1>3, <1>6, KeptAcks

\* Such a call, when the vote is an old one or its own and nothing panics.
LEMMA KeepsMoves ==
    ASSUME NEW i \in Server, NEW r, NEW L, NEW A, IInv, LogInv(L), ~r.panics,
           Keeps(i, r), StoredVote(i, r.core)
    PROVE  LogMoves(i, r, L) /\ (SafeInv(L, A) => SafeMoves(i, r, L, A))
  <1>1. LogEffect(i, r, L, L)
    BY StoredVotes, KeepsLog
  <1>2. SafeInv(L, A) => SafeEffect(i, r, L, A, L, A)
    BY StoredVotes, KeepsAcks
  <1> QED BY <1>1, <1>2, Zenon DEF LogMoves, SafeMoves

\* A call that makes the node leader.
Wins(i, r) ==
    LET s == core[i]
        u == r.core
    IN  /\ u \in CoreState /\ u.role = "Leader"
        /\ u.log = s.log /\ u.commit_index = s.commit_index
        /\ \/ u.current_term > s.current_term
           \/ u.current_term = s.current_term /\ s.role = "Candidate"
        /\ StoredVote(i, u)
        /\ \A p \in Server : /\ u.match_index[p] = 0
                             /\ u.next_index[p] <= Len(u.log) + 1
        /\ NoAcks(r) /\ Sends(i, r)

LEMMA WinsMoves ==
    ASSUME NEW i \in Server, NEW r, NEW L, NEW A, IInv, LogInv(L), ~r.panics, Wins(i, r)
    PROVE  LogMoves(i, r, L) /\ (SafeInv(L, A) => SafeMoves(i, r, L, A))
  <1> DEFINE T == r.core.current_term
             l == r.core.log
  <1>1. T \in Nat /\ l \in Seq(Entry) /\ L \in [Nat -> Seq(Entry)]
    BY DEF Wins, CoreState, LogInv, LeaderLogs
  <1>2. Len(l) \in Nat
    BY <1>1, LenProperties
  <1> HIDE DEF T, l
  <1>3. PICK M : Puts(L, T, l, M)
    BY <1>1, PutsOne
  <1>4. Puts(L, r.core.current_term, r.core.log, M)
    BY <1>3 DEF T, l
  <1>5. /\ r.core \in CoreState /\ r.core.role = "Leader"
        /\ r.core.log = core[i].log /\ r.core.commit_index = core[i].commit_index
        /\ \/ r.core.current_term > core[i].current_term
           \/ /\ r.core.current_term = core[i].current_term
              /\ core[i].role = "Candidate"
        /\ StoredVote(i, r.core) /\ NoAcks(r) /\ Sends(i, r)
        /\ \A p \in Server : /\ r.core.match_index[p] = 0
                             /\ r.core.next_index[p] <= Len(r.core.log) + 1
    BY DEF Wins
  <1>6. Votes(i, r.core)
    BY <1>5, StoredVotes
  <1>7. ASSUME Ran(i, r), ElectionSafety' PROVE LogEffect(i, r, L, M)
    BY <1>4, <1>5, <1>6, <1>7, WinLog
  <1>8. ASSUME SafeInv(L, A), Ran(i, r), ElectionSafety'
        PROVE  \E B : SafeEffect(i, r, L, A, M, B)
    <2>1. A \in [Server -> [Nat -> Nat]]
      BY <1>8 DEF SafeInv, AckInv, Acks
    <2>2. PICK B : Acked(A, i, T, Len(l), B)
      BY <1>1, <1>2, <2>1, AckedOne
    <2>3. Acked(A, i, r.core.current_term, Len(r.core.log), B)
      BY <2>2 DEF T, l
    <2>4. SafeEffect(i, r, L, A, M, B)
      BY <1>4, <1>5, <1>8, <2>3, WinAcks
    <2> QED BY <2>4
  <1> QED BY <1>7, <1>8, Zenon DEF LogMoves, SafeMoves

\* Who grants a vote knows the candidate's log to be up to date: every point
\* the voter acknowledged is in it, or blocked.
LEMMA UpToDate ==
    ASSUME NEW i \in Server, NEW j \in Server, NEW L, NEW A, IInv, LogInv(L),
           SafeInv(L, A), NEW t \in Nat, NEW n \in Nat, Point(L, t, n), A[i][t] >= n,
           LET l == core[i].log
               c == core[j].log
           IN  \/ TermAt(c, Len(c)) > TermAt(l, Len(l))
               \/ TermAt(c, Len(c)) = TermAt(l, Len(l)) /\ Len(c) >= Len(l)
    PROVE  Has(core[j].log, L, A, t, n)
  <1> DEFINE l == core[i].log
             c == core[j].log
             x == TermAt(l, Len(l))
             y == TermAt(c, Len(c))
  <1>1. l \in Seq(Entry) /\ c \in Seq(Entry) /\ OnRecord(l, L) /\ OnRecord(c, L)
    BY DEF IInv, TypeOK, CoreState, LogInv, NodeLogs
  <1>2. /\ L \in [Nat -> Seq(Entry)] /\ \A k \in Nat : TermsRise(L[k])
        /\ \A k \in Nat : L[k] # << >> => \E q \in Server : <<k, q>> \in elected
    BY DEF LogInv, LeaderLogs
  <1>3. Has(l, L, A, t, n)
    BY DEF SafeInv, AckInv, AcksHeld
  <1>4. \A e \in elected : t < e[1] => Has(L[e[1]], L, A, t, n)
    BY DEF SafeInv, AckInv, LeadersHave
  <1>5. y > x \/ (y = x /\ Len(c) >= Len(l))
    OBVIOUS
  <1> HIDE DEF l, c
  <1>6. CASE Blocked(A, t, n)
    BY <1>6 DEF Has, c
  <1>7. CASE ~Blocked(A, t, n)
    <2>1. Agree(l, L[t], n)
      BY <1>3, <1>7 DEF Has
    <2>2. L[t] \in Seq(Entry) /\ n \in 1..Len(L[t]) /\ L[t][n].term = t
      BY <1>2 DEF Point
    <2>3. /\ Len(l) \in Nat /\ Len(c) \in Nat /\ Len(L[t]) \in Nat
          /\ \A k \in 1..Len(l) : l[k].term \in Nat
          /\ \A k \in 1..Len(c) : c[k].term \in Nat
      BY <1>1, <2>2, SeqTerms
    <2>4. /\ n \in 1..Len(l) /\ l[n].term = t /\ Len(l) \in 1..Len(l) /\ n <= Len(l)
      BY <2>1, <2>2, <2>3 DEF Agree
    <2>5. x = l[Len(l)].term /\ x \in Nat
      BY <2>3, <2>4 DEF TermAt
    <2>6. t <= x
      <3>1. TermsRise(l)
        BY <1>1, <1>2, RecordRises
      <3> QED BY <2>4, <2>5, <3>1 DEF TermsRise
    <2>7. y = IF Len(c) \in 1..Len(c) THEN c[Len(c)].term ELSE 0
      BY DEF TermAt
    <2> HIDE DEF x, y
    <2>8. CASE y = x /\ Len(c) >= Len(l)
      <3>1. Len(c) \in 1..Len(c)
        BY <2>3, <2>4, <2>8
      <3>2. c[Len(c)].term = x
        BY <2>7, <2>8, <3>1
      <3>3. Agree(c, L[x], Len(c)) /\ Agree(l, L[x], Len(l)) /\ L[x] \in Seq(Entry)
        BY <1>1, <1>2, <2>4, <2>5, <3>1, <3>2 DEF OnRecord
      <3>4. n <= Len(c)
        BY <2>3, <2>4, <2>8
      <3>5. Agree(c, L[x], n) /\ Agree(l, L[x], n)
        BY <1>1, <2>3, <2>4, <3>3, <3>4, AgreeLess
      <3>6. Agree(c, L[t], n)
        BY <2>1, <3>5, AgreeBack, AgreeOn
      <3> QED BY <3>6 DEF Has, c
    <2>9. CASE y > x
      <3>1. Len(c) \in 1..Len(c) /\ c[Len(c)].term = y /\ y \in Nat /\ t < y
        BY <2>3, <2>5, <2>6, <2>7, <2>9
      <3>2. Agree(c, L[y], Len(c)) /\ L[y] \in Seq(Entry) /\ TermsRise(L[y])
        BY <1>1, <1>2, <3>1 DEF OnRecord
      <3>3. Len(L[y]) \in Nat /\ Len(c) \in 1..Len(L[y]) /\ L[y][Len(c)].term = y
        BY <2>3, <3>1, <3>2, LenProperties DEF Agree
      <3>4. L[y] # << >>
        BY <3>3
      <3>5. PICK q \in Server : <<y, q>> \in elected
        BY <1>2, <3>1, <3>4
      <3>6. Has(L[y], L, A, t, n)
        <4>1. <<y, q>>[1] = y
          OBVIOUS
        <4> QED BY <1>4, <3>1, <3>5, <4>1
      <3>7. Agree(L[y], L[t], n)
        BY <1>7, <3>6 DEF Has
      <3>8. n \in 1..Len(L[y]) /\ L[y][n].term = t
        BY <2>2, <3>3, <3>7 DEF Agree
      <3>9. n <= Len(c)
        <4>1. ASSUME Len(c) < n PROVE FALSE
          <5>1. L[y][Len(c)].term <= L[y][n].term
            BY <2>3, <3>2, <3>3, <3>8, <4>1 DEF TermsRise
          <5> QED BY <3>1, <3>3, <3>8, <5>1
        <4> QED BY <2>3, <4>1
      <3>10. Agree(c, L[y], n)
        BY <1>1, <2>3, <3>2, <3>9, AgreeLess
      <3>11. Agree(c, L[t], n)
        BY <3>7, <3>10, AgreeOn
      <3> QED BY <3>11 DEF Has, c
    <2> QED BY <1>5, <2>8, <2>9 DEF x, y
  <1> QED BY <1>6, <1>7

\* handle_request_vote.
LEMMA RequestVoteMoves ==
    ASSUME NEW i \in Server, NEW m \in net, m \in RequestVoteRequest, NEW L, NEW A,
           IInv, LogInv(L), NEW r, r = handle_request_vote(i, core[i], m)
    PROVE  LogMoves(i, r, L) /\ (SafeInv(L, A) => SafeMoves(i, r, L, A))
  <1> DEFINE s == core[i]
             t == IF m.term > s.current_term
                  THEN become_follower(s, m.term) ELSE s
             grant == /\ m.term = t.current_term
                      /\ t.voted_for \in {Nil, m.from}
                      /\ candidate_log_is_up_to_date(t, m)
             u == IF grant THEN [t EXCEPT !.voted_for = m.from] ELSE t
  <1>1. /\ m.term \in Nat /\ m.from \in Server /\ s.current_term \in Nat
        /\ s \in CoreState /\ m.type = "RequestVoteRequest"
    BY DEF RequestVoteRequest, CoreState, IInv, TypeOK
  <1>2. /\ t \in CoreState /\ t.log = s.log
        /\ t.commit_index = s.commit_index
        /\ t.current_term >= s.current_term
        /\ t.current_term = s.current_term => t.voted_for = s.voted_for
        /\ t.role # "Follower" => t = s
        /\ t.voted_for = Nil \/ t.current_term = s.current_term
    <2>1. CASE m.term > s.current_term
      <3>1. t = become_follower(s, m.term)
        BY <2>1
      <3>2. t.voted_for = Nil
        BY <1>1, <2>1, <3>1 DEF become_follower, CoreState
      <3> QED BY <1>1, <3>1, <3>2, FollowerSound
    <2>2. CASE ~(m.term > s.current_term)
      <3>1. t = s
        BY <2>2
      <3> QED BY <1>1, <3>1
    <2> QED BY <2>1, <2>2
  <1>3. /\ r.core = u /\ ~r.panics
        /\ r.out = {[type |-> "RequestVoteResponse", from |-> i, to |-> m.from,
                     term |-> u.current_term, vote_granted |-> grant]}
    BY DEF handle_request_vote, Outcome
  <1>4. \A a \in r.out : a.type = "RequestVoteResponse"
    BY <1>3
  <1>5. NoAcks(r) /\ Sends(i, r)
    BY <1>4 DEF NoAcks, Sends
  <1> HIDE DEF s, t
  <1>6. /\ u \in CoreState /\ u.log = t.log /\ u.commit_index = t.commit_index
        /\ u.role = t.role /\ u.current_term = t.current_term
        /\ u.match_index = t.match_index /\ u.next_index = t.next_index
        /\ u.voted_for = IF grant THEN m.from ELSE t.voted_for
    BY <1>1, <1>2 DEF CoreState
  <1> HIDE DEF u
  <1>7. u.role = "Follower" \/ (u.role = s.role /\ u.current_term = s.current_term)
    BY <1>2, <1>6
  <1>8. u.role = "Leader" => u.match_index = s.match_index /\ u.next_index = s.next_index
    BY <1>2, <1>6
  <1>9. Keeps(i, r)
    BY <1>2, <1>3, <1>5, <1>6, <1>7, <1>8 DEF Keeps, s
  <1>10. t.voted_for # Nil => <<i, u.current_term, t.voted_for>> \in votes
    BY <1>2, <1>6 DEF IInv, VoteLedger, VotesStored, s
  <1>11. CASE ~grant
    <2>1. StoredVote(i, r.core)
      BY <1>3, <1>6, <1>10, <1>11 DEF StoredVote
    <2> QED BY <1>3, <1>9, <2>1, KeepsMoves
  <1>12. CASE grant
    <2>1. /\ u.voted_for = m.from /\ u.current_term = m.term
          /\ candidate_log_is_up_to_date(t, m)
      BY <1>6, <1>12
    <2>2. /\ m.term <= core[m.from].current_term
          /\ core[m.from].role = "Candidate" /\ core[m.from].current_term = m.term =>
                 /\ m.last_log_index = last_log_index(core[m.from])
                 /\ m.last_log_term = last_log_term(core[m.from])
      BY <1>1 DEF LogInv, MailLogs
    <2>3. LogEffect(i, r, L, L)
      <3>1. Votes(i, r.core)
        BY <1>3, <2>1, <2>2 DEF Votes
      <3> QED BY <1>9, <3>1, KeepsLog
    <2>4. ASSUME SafeInv(L, A) PROVE SafeEffect(i, r, L, A, L, A)
      <3>1. ASSUME NEW j \in Server \ {i}, u.voted_for = j,
                   core[j].role = "Candidate", core[j].current_term = u.current_term,
                   NEW k \in Nat, NEW n \in Nat, Point(L, k, n), A[i][k] >= n
            PROVE  Has(core[j].log, L, A, k, n)
        <4>1. j = m.from /\ core[j].current_term = m.term
          BY <2>1, <3>1
        <4>2. /\ m.last_log_index = Len(core[j].log)
              /\ m.last_log_term = TermAt(core[j].log, Len(core[j].log))
          BY <2>2, <3>1, <4>1 DEF last_log_index, last_log_term, log_term_at, TermAt
        <4>3. \/ m.last_log_term > TermAt(core[i].log, Len(core[i].log))
              \/ /\ m.last_log_term = TermAt(core[i].log, Len(core[i].log))
                 /\ m.last_log_index >= Len(core[i].log)
          BY <1>2, <2>1 DEF candidate_log_is_up_to_date, last_log_index, last_log_term,
                            log_term_at, TermAt, s
        <4> QED BY <2>4, <3>1, <4>2, <4>3, UpToDate
      <3>2. VotesSafely(i, u, L, A)
        BY <3>1 DEF VotesSafely
      <3> QED BY <1>3, <1>9, <2>4, <3>2, KeepsAcks
    <2> QED BY <1>3, <2>3, <2>4, Zenon DEF LogMoves, SafeMoves
  <1> QED BY <1>11, <1>12

\* A call that does nothing, or only steps down.
LEMMA IdleMoves ==
    ASSUME NEW i \in Server, NEW L, NEW A, IInv, LogInv(L), NEW r, ~r.panics,
           r.core = core[i], NoAcks(r), Sends(i, r)
    PROVE  LogMoves(i, r, L) /\ (SafeInv(L, A) => SafeMoves(i, r, L, A))
  <1>1. core[i] \in CoreState /\ core[i].current_term \in Nat
    BY DEF IInv, TypeOK, CoreState
  <1>2. core[i].current_term >= core[i].current_term
    BY <1>1
  <1>3. Keeps(i, r)
    BY <1>1, <1>2 DEF Keeps
  <1>4. StoredVote(i, r.core)
    BY DEF StoredVote, IInv, VoteLedger, VotesStored
  <1> QED BY <1>3, <1>4, KeepsMoves

LEMMA StepDownMoves ==
    ASSUME NEW i \in Server, NEW L, NEW A, IInv, LogInv(L), NEW r, ~r.panics,
           NEW term \in Nat, r.core = become_follower(core[i], term),
           NoAcks(r), Sends(i, r)
    PROVE  LogMoves(i, r, L) /\ (SafeInv(L, A) => SafeMoves(i, r, L, A))
  <1>1. core[i] \in CoreState /\ core[i].current_term \in Nat
    BY DEF IInv, TypeOK, CoreState
  <1>2. /\ r.core \in CoreState /\ r.core.role = "Follower"
        /\ r.core.log = core[i].log /\ r.core.commit_index = core[i].commit_index
        /\ r.core.current_term >= core[i].current_term
    <2> DEFINE s == core[i]
               t == become_follower(s, term)
    <2> HIDE DEF s
    <2>1. s \in CoreState
      BY <1>1 DEF s
    <2>2. /\ t \in CoreState /\ t.role = "Follower" /\ t.log = s.log
          /\ t.commit_index = s.commit_index /\ t.current_term >= s.current_term
      BY <2>1, FollowerSound
    <2>3. r.core = t
      BY DEF s
    <2> HIDE DEF t
    <2> QED BY <2>2, <2>3 DEF s
  <1>3. Keeps(i, r)
    BY <1>2 DEF Keeps
  <1>4. \/ r.core.voted_for = Nil
        \/ /\ r.core.voted_for = core[i].voted_for
           /\ r.core.current_term = core[i].current_term
    BY <1>1 DEF become_follower, CoreState
  <1>5. StoredVote(i, r.core)
    BY <1>4 DEF StoredVote, IInv, VoteLedger, VotesStored
  <1> QED BY <1>3, <1>5, KeepsMoves

\* What a candidate sends to ask for votes.
Ballot(i, c, a) ==
    /\ a.type = "RequestVoteRequest" /\ a.from = i /\ a.term = c.current_term
    /\ a.last_log_index = last_log_index(c) /\ a.last_log_term = last_log_term(c)

\* check_election_win, for a candidate c that the call made of node i.
LEMMA ElectionMoves ==
    ASSUME NEW i \in Server, NEW L, NEW A, IInv, LogInv(L), NEW c \in CoreState,
           c.role = "Candidate", c.log = core[i].log,
           c.commit_index = core[i].commit_index, StoredVote(i, c),
           \/ c.current_term > core[i].current_term
           \/ c.current_term = core[i].current_term /\ core[i].role = "Candidate",
           NEW w, w = check_election_win(i, c),
           NEW r, r.core = w.core, r.panics = w.panics,
           \A a \in r.out : a \in w.out \/ Ballot(i, c, a)
    PROVE  LogMoves(i, r, L) /\ (SafeInv(L, A) => SafeMoves(i, r, L, A))
  <1>0. /\ core[i].current_term \in Nat /\ c.current_term \in Nat
        /\ c.current_term >= core[i].current_term
    BY DEF IInv, TypeOK, CoreState
  <1>1. CASE ~(Cardinality(c.votes_received) >= majority)
    <2>1. w.core = c /\ w.out = {} /\ ~w.panics
      BY <1>1 DEF check_election_win, Quiet, Outcome
    <2>2. NoAcks(r)
      BY <2>1 DEF NoAcks, Ballot
    <2>3. Sends(i, r)
      BY <2>1 DEF Sends, Ballot
    <2>4. Keeps(i, r)
      BY <1>0, <2>1, <2>2, <2>3 DEF Keeps
    <2> QED BY <2>1, <2>4, KeepsMoves
  <1>2. CASE Cardinality(c.votes_received) >= majority
    <2> DEFINE u == become_leader(c)
    <2>1. w = replicate_to_all_peers(i, u)
      BY <1>2 DEF check_election_win
    <2>2. c.log \in Seq(Entry) /\ Len(c.log) \in Nat
      BY LenProperties DEF CoreState
    <2>3. Len(c.log) + 1 \in Nat /\ first_next_index(c) = Len(c.log) + 1
      BY <2>2 DEF first_next_index, last_log_index
    <2>4. u \in CoreState
      BY <2>3 DEF become_leader, CoreState, Role
    <2>5. /\ u.role = "Leader" /\ u.log = c.log /\ u.commit_index = c.commit_index
          /\ u.current_term = c.current_term /\ u.voted_for = c.voted_for
          /\ \A p \in Server : /\ u.match_index[p] = 0
                               /\ u.next_index[p] = Len(c.log) + 1
      BY <2>3 DEF become_leader, CoreState
    <2> HIDE DEF u
    <2>6. \A p \in Server : u.next_index[p] <= Len(u.log) + 1
      BY <2>2, <2>3, <2>5
    <2>7. w.core = u /\ NoAcks(w) /\ Sends(i, w) /\ ~w.panics
      BY <2>1, <2>4, <2>5, <2>6, ReplicateSends
    <2>8. NoAcks(r)
      BY <2>7 DEF NoAcks, Ballot
    <2>9. last_log_index(u) = last_log_index(c) /\ last_log_term(u) = last_log_term(c)
      BY <2>5 DEF last_log_index, last_log_term, log_term_at
    <2>10. ASSUME NEW a \in r.out, Ballot(i, c, a)
           PROVE  /\ a.type # "AppendEntriesRequest"
                  /\ a.from = i /\ a.term = u.current_term
                  /\ a.last_log_index = last_log_index(u)
                  /\ a.last_log_term = last_log_term(u)
      BY <2>5, <2>9, <2>10 DEF Ballot
    <2>11. Sends(i, r)
      BY <2>7, <2>10 DEF Sends
    <2>12. StoredVote(i, u)
      BY <2>5 DEF StoredVote
    <2>13. Wins(i, r)
      BY <2>4, <2>5, <2>6, <2>7, <2>8, <2>11, <2>12 DEF Wins
    <2> QED BY <2>7, <2>13, WinsMoves
  <1> QED BY <1>1, <1>2

\* handle_vote_response.
LEMMA VoteResponseMoves ==
    ASSUME NEW i \in Server, NEW m \in RequestVoteResponse, NEW L, NEW A,
           IInv, LogInv(L), NEW r, r = handle_vote_response(i, core[i], m)
    PROVE  LogMoves(i, r, L) /\ (SafeInv(L, A) => SafeMoves(i, r, L, A))
  <1> DEFINE s == core[i]
  <1>1. /\ m.term \in Nat /\ m.from \in Server /\ s.current_term \in Nat
        /\ s \in CoreState
    BY DEF RequestVoteResponse, CoreState, IInv, TypeOK
  <1>2. CASE m.term > s.current_term
    <2>1. r.core = become_follower(s, m.term) /\ r.out = {} /\ ~r.panics
      BY <1>2 DEF handle_vote_response, Quiet, Outcome
    <2>2. NoAcks(r) /\ Sends(i, r)
      BY <2>1 DEF NoAcks, Sends
    <2> QED BY <1>1, <2>1, <2>2, StepDownMoves
  <1>3. CASE ~(m.term > s.current_term)
             /\ (s.role # "Candidate" \/ m.term # s.current_term)
    <2>1. r.core = s /\ r.out = {} /\ ~r.panics
      BY <1>3 DEF handle_vote_response, Quiet, Outcome
    <2>2. NoAcks(r) /\ Sends(i, r)
      BY <2>1 DEF NoAcks, Sends
    <2> QED BY <2>1, <2>2, IdleMoves
  <1>4. CASE m.term = s.current_term /\ s.role = "Candidate"
    <2> DEFINE v == IF m.vote_granted THEN s.votes_received \cup {m.from}
                                      ELSE s.votes_received
               c == [s EXCEPT !.votes_received = v]
    <2>1. r = check_election_win(i, c)
      <3>1. CASE m.vote_granted
        BY <1>1, <1>4, <3>1 DEF handle_vote_response
      <3>2. CASE ~m.vote_granted
        <4>1. c = s
          BY <1>1, <3>2 DEF CoreState
        <4>2. r = check_election_win(i, s)
          BY <1>1, <1>4, <3>2 DEF handle_vote_response
        <4> QED BY <4>1, <4>2
      <3> QED BY <3>1, <3>2
    <2>2. v \in SUBSET Server
      BY <1>1 DEF CoreState
    <2> HIDE DEF v
    <2>3. /\ c \in CoreState /\ c.role = "Candidate" /\ c.log = s.log
          /\ c.commit_index = s.commit_index
          /\ c.current_term = s.current_term /\ c.voted_for = s.voted_for
      BY <1>1, <1>4, <2>2 DEF CoreState
    <2> HIDE DEF c
    <2>4. StoredVote(i, c)
      BY <2>3 DEF StoredVote, IInv, VoteLedger, VotesStored
    <2>5. \A a \in r.out : a \in r.out \/ Ballot(i, c, a)
      OBVIOUS
    <2> QED BY <1>4, <2>1, <2>3, <2>4, <2>5, ElectionMoves
  <1> QED BY <1>1, <1>2, <1>3, <1>4

\* tick: a leader replicates, anyone else starts an election.
LEMMA TickMoves ==
    ASSUME NEW i \in Server, NEW L, NEW A, IInv, LogInv(L),
           NEW r, r = tick(i, core[i])
    PROVE  LogMoves(i, r, L) /\ (SafeInv(L, A) => SafeMoves(i, r, L, A))
  <1> DEFINE s == core[i]
  <1>1. s \in CoreState /\ s.current_term \in Nat
    BY DEF CoreState, IInv, TypeOK
  <1>2. CASE s.role = "Leader"
    <2>1. r = replicate_to_all_peers(i, s)
      BY <1>2 DEF tick
    <2>2. /\ r.core = s /\ NoAcks(r)
          /\ ~r.panics => Sends(i, r)
          /\ (\A p \in Server : s.next_index[p] <= Len(s.log) + 1) => ~r.panics
      BY <1>1, <1>2, <2>1, ReplicateSends
    <2>3. CASE ~r.panics
      BY <2>2, <2>3, IdleMoves
    <2>4. CASE r.panics
      <3>1. LogMoves(i, r, L)
        BY <2>4 DEF LogMoves
      <3>2. ~SafeInv(L, A)
        BY <1>2, <2>2, <2>4 DEF SafeInv, AckInv, Acks
      <3> QED BY <3>1, <3>2
    <2> QED BY <2>3, <2>4
  <1>3. CASE s.role # "Leader"
    <2> DEFINE c == [s EXCEPT !.role           = "Candidate",
                              !.current_term   = @ + 1,
                              !.voted_for      = i,
                              !.votes_received = {i}]
               ballots == {[type           |-> "RequestVoteRequest",
                            from           |-> i,
                            to             |-> p,
                            term           |-> c.current_term,
                            last_log_index |-> last_log_index(c),
                            last_log_term  |-> last_log_term(c)] : p \in peers(i)}
               w == check_election_win(i, c)
    <2>1. c \in CoreState
      <3>1. s.current_term + 1 \in Nat /\ {i} \in SUBSET Server
        BY <1>1 DEF CoreState
      <3> QED BY <1>1, <3>1 DEF CoreState, Role
    <2>2. /\ c.current_term = s.current_term + 1 /\ c.voted_for = i
          /\ c.log = s.log /\ c.role = "Candidate" /\ c.commit_index = s.commit_index
      BY <1>1 DEF CoreState
    <2>3. r.core = w.core /\ r.out = ballots \cup w.out /\ r.panics = w.panics
      BY <1>3 DEF tick, start_election, Outcome
    <2> HIDE DEF c, w
    <2>4. \A a \in ballots : Ballot(i, c, a)
      BY DEF Ballot
    <2> HIDE DEF ballots
    <2>5. \A a \in r.out : a \in w.out \/ Ballot(i, c, a)
      BY <2>3, <2>4
    <2>6. StoredVote(i, c)
      BY <2>2 DEF StoredVote
    <2>7. c.current_term > s.current_term
      BY <1>1, <2>2
    <2> QED BY <2>1, <2>2, <2>3, <2>5, <2>6, <2>7, ElectionMoves DEF w
  <1> QED BY <1>2, <1>3

\* handle_append_entries.
LEMMA AppendEntriesMoves ==
    ASSUME NEW i \in Server, NEW m \in net, m \in AppendEntriesRequest, NEW L, NEW A,
           IInv, LogInv(L), NEW r, r = handle_append_entries(i, core[i], m)
    PROVE  /\ LogMoves(i, r, L)
           /\ SafeInv(L, A) /\ ~Overclaims(m, r) => SafeMoves(i, r, L, A)
  <1> DEFINE s == core[i]
             t == become_follower(s, m.term)
             u == [t EXCEPT !.log = merge_entries(@, m.prev_log_index,
                                                  m.entries)]
             limit == IF m.leader_commit < last_log_index(u)
                      THEN m.leader_commit ELSE last_log_index(u)
             v == IF m.leader_commit > u.commit_index
                  THEN [u EXCEPT !.commit_index = limit] ELSE u
  <1>1. /\ m.term \in Nat /\ m.from \in Server /\ m.leader_commit \in Nat
        /\ m.prev_log_index \in Nat /\ m.entries \in Seq(Entry)
        /\ s \in CoreState /\ s.current_term \in Nat
        /\ m.type = "AppendEntriesRequest"
    BY DEF AppendEntriesRequest, CoreState, IInv, TypeOK
  <1>2. ASSUME NEW x PROVE ~append_reply(i, x, m, FALSE).success
                           /\ append_reply(i, x, m, FALSE).type = "AppendEntriesResponse"
    BY DEF append_reply
  <1>3. CASE m.term < s.current_term
    <2>1. r.core = s /\ r.out = {append_reply(i, s, m, FALSE)} /\ ~r.panics
      BY <1>3 DEF handle_append_entries, Outcome
    <2>2. NoAcks(r) /\ Sends(i, r)
      BY <1>2, <2>1 DEF NoAcks, Sends
    <2> QED BY <2>1, <2>2, IdleMoves
  <1>4. CASE ~(m.term < s.current_term) /\ ~prev_entry_matches(t, m)
    <2>1. r.core = t /\ r.out = {append_reply(i, t, m, FALSE)} /\ ~r.panics
      BY <1>4 DEF handle_append_entries, Outcome
    <2>2. NoAcks(r) /\ Sends(i, r)
      BY <1>2, <2>1 DEF NoAcks, Sends
    <2> QED BY <1>1, <2>1, <2>2, StepDownMoves
  <1>5. CASE ~(m.term < s.current_term) /\ prev_entry_matches(t, m)
    <2>1. r.core = v /\ r.out = {append_reply(i, v, m, TRUE)} /\ ~r.panics
      BY <1>5 DEF handle_append_entries, Outcome
    <2>2. /\ t \in CoreState /\ t.role = "Follower" /\ t.log = s.log
          /\ t.commit_index = s.commit_index
          /\ t.current_term >= m.term /\ t.current_term \in {s.current_term, m.term}
      <3> HIDE DEF s
      <3> QED BY <1>1, FollowerSound
    <2>3. \/ t.voted_for = Nil
          \/ t.voted_for = s.voted_for /\ m.term = s.current_term
      BY <1>1, <1>5 DEF become_follower, CoreState
    <2> HIDE DEF s, t
    <2>4. t.current_term = m.term /\ m.term >= s.current_term
      BY <1>1, <1>5, <2>2
    <2>5. s.log \in Seq(Entry) /\ Len(s.log) \in Nat
      BY <1>1, LenProperties DEF CoreState
    <2>6. \/ m.prev_log_index = 0
          \/ /\ m.prev_log_index <= Len(s.log)
             /\ TermAt(s.log, m.prev_log_index) = m.prev_log_term
      BY <1>5, <2>2 DEF prev_entry_matches, last_log_index, log_term_at, TermAt
    <2>7. m.prev_log_index <= Len(s.log)
      BY <1>1, <2>5, <2>6
    <2> DEFINE l == merge_entries(s.log, m.prev_log_index, m.entries)
    <2>8. l \in Seq(Entry)
      BY <1>1, <2>5, <2>7, MergeType
    <2> HIDE DEF l
    <2>9. /\ u \in CoreState /\ u.role = t.role /\ u.log = l
          /\ u.commit_index = t.commit_index
          /\ u.current_term = t.current_term /\ u.voted_for = t.voted_for
      BY <2>2, <2>8 DEF CoreState, l
    <2> HIDE DEF u
    <2>10. /\ last_log_index(u) \in Nat /\ last_log_index(u) = Len(u.log)
           /\ u.commit_index \in Nat
      BY <2>9, LenProperties DEF CoreState, last_log_index
    <2>11. limit \in Nat /\ limit <= Len(u.log) /\ limit <= m.leader_commit
      BY <1>1, <2>10
    <2> HIDE DEF limit
    <2>12. /\ v \in CoreState /\ v.role = u.role /\ v.log = u.log
           /\ v.current_term = u.current_term /\ v.voted_for = u.voted_for
           /\ v.commit_index \in {u.commit_index, limit}
      BY <2>9, <2>11 DEF CoreState
    <2> HIDE DEF v
    <2>13. \A a \in r.out :
              /\ a.type = "AppendEntriesResponse" /\ a.from = i /\ a.success
              /\ a.term = m.term /\ a.match_index = Len(v.log)
      BY <2>1, <2>4, <2>9, <2>12 DEF append_reply, last_log_index
    <2>14. \/ v.commit_index = s.commit_index
           \/ v.commit_index <= m.leader_commit /\ v.commit_index <= Len(v.log)
      BY <2>2, <2>9, <2>11, <2>12
    <2>15. Accepts(i, r, m)
      <3>1. /\ r.core = v /\ v \in CoreState /\ v.role = "Follower"
            /\ v.current_term = m.term /\ m.term >= s.current_term
            /\ v.log = merge_entries(s.log, m.prev_log_index, m.entries)
            /\ \/ v.voted_for = Nil
               \/ v.voted_for = s.voted_for /\ m.term = s.current_term
        BY <2>1, <2>2, <2>3, <2>4, <2>9, <2>12 DEF l
      <3> QED BY <2>6, <2>13, <2>14, <3>1, Zenon DEF Accepts, s
    <2>16. LogEffect(i, r, L, L)
      BY <2>15, AcceptLog
    <2>17. ASSUME SafeInv(L, A), ~Overclaims(m, r)
           PROVE  \E B : SafeEffect(i, r, L, A, L, B)
      <3>1. A \in [Server -> [Nat -> Nat]]
        BY <2>17 DEF SafeInv, AckInv, Acks
      <3>2. r.core.current_term \in Nat /\ Len(r.core.log) \in Nat
        BY <2>1, <2>12, LenProperties DEF CoreState
      <3>3. PICK B : Acked(A, i, r.core.current_term, Len(r.core.log), B)
        BY <3>1, <3>2, AckedOne
      <3>4. Counted(r.core, m)
        <4>1. \E a \in r.out : a.success
          BY <2>1, <2>13
        <4>2. ~(/\ Len(r.core.log) > m.prev_log_index + Len(m.entries)
                /\ TermAt(r.core.log, Len(r.core.log)) # m.term)
          BY <1>1, <2>17, <4>1
             DEF Overclaims, last_log_index, last_log_term, log_term_at, TermAt
        <4>3. Len(m.entries) \in Nat
          BY <1>1, LenProperties
        <4> QED BY <1>1, <3>2, <4>2, <4>3 DEF Counted
      <3>5. SafeEffect(i, r, L, A, L, B)
        BY <2>15, <2>17, <3>3, <3>4, AcceptAcks
      <3> QED BY <3>5
    <2> QED BY <2>1, <2>16, <2>17, Zenon DEF LogMoves, SafeMoves
  <1> QED BY <1>3, <1>4, <1>5

\* A leader that keeps its log and term, and counts only what was acknowledged.
LeadsOn(i, r) ==
    LET s == core[i]
        u == r.core
    IN  /\ u \in CoreState /\ u.role = "Leader" /\ s.role = "Leader"
        /\ u.log = s.log /\ u.current_term = s.current_term
        /\ u.voted_for = s.voted_for
        /\ NoAcks(r) /\ (~r.panics => Sends(i, r))

LEMMA LeadsOnMoves ==
    ASSUME NEW i \in Server, NEW r, NEW L, NEW A, IInv, LogInv(L), LeadsOn(i, r),
           SafeInv(L, A) =>
              /\ ~r.panics
              /\ \A p \in Server :
                    /\ r.core.match_index[p] <= A[p][r.core.current_term]
                    /\ r.core.next_index[p] <= Len(r.core.log) + 1
              /\ Settled(r.core.log, r.core.commit_index, r.core.current_term, L, A)
    PROVE  LogMoves(i, r, L) /\ (SafeInv(L, A) => SafeMoves(i, r, L, A))
  <1>1. /\ r.core \in CoreState /\ r.core.role = "Leader" /\ core[i].role = "Leader"
        /\ r.core.log = core[i].log /\ r.core.current_term = core[i].current_term
        /\ r.core.voted_for = core[i].voted_for
        /\ NoAcks(r) /\ (~r.panics => Sends(i, r))
    BY DEF LeadsOn
  <1>2. r.core.current_term >= core[i].current_term
    <2>1. r.core.current_term \in Nat
      BY <1>1 DEF CoreState
    <2> QED BY <1>1, <2>1
  <1>3. StoredVote(i, r.core)
    BY <1>1 DEF StoredVote, IInv, VoteLedger, VotesStored
  <1>4. Votes(i, r.core) /\ VotesSafely(i, r.core, L, A)
    BY <1>3, StoredVotes
  <1>5. ~r.panics => LogEffect(i, r, L, L)
    BY <1>1, <1>2, <1>4, KeptLog
  <1>6. ASSUME SafeInv(L, A) PROVE ~r.panics /\ SafeEffect(i, r, L, A, L, A)
    BY <1>1, <1>2, <1>4, <1>6, KeptAcks
  <1> QED BY <1>5, <1>6, Zenon DEF LogMoves, SafeMoves

\* The two ways an answer changes a leader's maps.
Counting(s, p, x, k) ==
    /\ k \in CoreState /\ k.current_term = s.current_term /\ k.log = s.log
    /\ k.voted_for = s.voted_for /\ k.role = s.role
    /\ k.commit_index = s.commit_index
    /\ k.match_index[p] = x /\ k.next_index[p] = x + 1
    /\ \A q \in Server : q # p => /\ k.match_index[q] = s.match_index[q]
                                  /\ k.next_index[q] = s.next_index[q]

Backing(s, p) == [s EXCEPT !.next_index[p] = step_back(@)]

LEMMA CountingMaps ==
    ASSUME NEW s \in CoreState, NEW p \in Server, NEW x \in Nat
    PROVE  Counting(s, p, x, [s EXCEPT !.match_index[p] = x,
                                       !.next_index[p] = x + 1])
  <1>1. /\ s.next_index \in [Server -> Nat] /\ s.match_index \in [Server -> Nat]
        /\ x + 1 \in Nat
    BY DEF CoreState
  <1> DEFINE mm == [s.match_index EXCEPT ![p] = x]
             nn == [s.next_index EXCEPT ![p] = x + 1]
             k == [s EXCEPT !.match_index[p] = x, !.next_index[p] = x + 1]
  <1>2. /\ mm \in [Server -> Nat] /\ nn \in [Server -> Nat]
        /\ mm[p] = x /\ nn[p] = x + 1
        /\ \A q \in Server : q # p => mm[q] = s.match_index[q] /\ nn[q] = s.next_index[q]
    BY <1>1
  <1>3. k = [s EXCEPT !.match_index = mm, !.next_index = nn]
    BY DEF CoreState
  <1> HIDE DEF mm, nn
  <1>4. /\ k \in CoreState /\ k.current_term = s.current_term /\ k.log = s.log
        /\ k.voted_for = s.voted_for /\ k.role = s.role
        /\ k.commit_index = s.commit_index /\ k.match_index = mm /\ k.next_index = nn
    BY <1>2, <1>3 DEF CoreState
  <1> HIDE DEF k
  <1>5. Counting(s, p, x, k)
    BY <1>2, <1>4 DEF Counting
  <1> QED BY <1>5 DEF k

LEMMA BackingMaps ==
    ASSUME NEW s \in CoreState, NEW p \in Server
    PROVE  LET k == Backing(s, p)
           IN  /\ k \in CoreState /\ k.current_term = s.current_term /\ k.log = s.log
               /\ k.voted_for = s.voted_for /\ k.role = s.role
               /\ k.commit_index = s.commit_index /\ k.match_index = s.match_index
               /\ \A q \in Server :
                     /\ k.next_index[q] \in Nat /\ s.next_index[q] \in Nat
                     /\ k.next_index[q] <= s.next_index[q]
  <1>1. s.next_index \in [Server -> Nat] /\ s.next_index[p] \in Nat
    BY DEF CoreState
  <1> DEFINE b == step_back(s.next_index[p])
             nn == [s.next_index EXCEPT ![p] = b]
  <1>2. b \in Nat /\ b <= s.next_index[p]
    <2>1. \A y \in Nat : step_back(y) \in Nat /\ step_back(y) <= y
      BY DEF step_back
    <2> QED BY <1>1, <2>1
  <1>3. Backing(s, p) = [s EXCEPT !.next_index = nn]
    BY DEF Backing, CoreState
  <1> HIDE DEF b
  <1>4. nn \in [Server -> Nat] /\ \A q \in Server : nn[q] = IF q = p THEN b ELSE s.next_index[q]
    BY <1>1, <1>2
  <1> HIDE DEF nn
  <1>5. \A q \in Server : nn[q] \in Nat /\ s.next_index[q] \in Nat /\ nn[q] <= s.next_index[q]
    BY <1>1, <1>2, <1>4
  <1> QED BY <1>3, <1>4, <1>5 DEF CoreState

\* What a leader may rely on in a safe state.
LEMMA LeaderKnows ==
    ASSUME NEW i \in Server, NEW L, NEW A, IInv, LogInv(L), SafeInv(L, A),
           core[i].role = "Leader"
    PROVE  LET s == core[i]
               T == s.current_term
           IN  /\ A \in [Server -> [Nat -> Nat]] /\ A[i][T] = Len(s.log)
               /\ \A q \in Server : /\ s.match_index[q] <= A[q][T]
                                    /\ s.next_index[q] <= Len(s.log) + 1
                                    /\ A[q][T] <= Len(s.log) /\ A[q][T] \in Nat
               /\ \A m \in net :
                     /\ m.type = "AppendEntriesResponse" /\ m.success
                     /\ m.term = T
                     => m.match_index <= A[m.from][T]
               /\ Settled(s.log, s.commit_index, T, L, A)
               /\ s.log = L[T] /\ T > 0
  <1> DEFINE s == core[i]
             T == s.current_term
  <1>1. Acks(L, A) /\ Settled(s.log, s.commit_index, T, L, A)
    BY DEF SafeInv, AckInv, CommitInv
  <1>2. A \in [Server -> [Nat -> Nat]] /\ \A q \in Server : A[q] \in [Nat -> Nat]
    BY <1>1 DEF Acks
  <1>3. T \in Nat /\ T > 0 /\ s.log = L[T]
    BY DEF IInv, TypeOK, CoreState, AllFit, Fit, LogInv, NodeLogs
  <1>4. \A q \in Server : A[q][T] <= Len(s.log) /\ A[q][T] \in Nat
    BY <1>1, <1>2, <1>3 DEF Acks
  <1>5. \A m \in net : m.type = "AppendEntriesResponse" /\ m.success /\ m.term = T
                       => m.match_index <= A[m.from][T]
    BY <1>1 DEF Acks
  <1>6. /\ A[i][T] = Len(s.log)
        /\ \A q \in Server : /\ s.match_index[q] <= A[q][T]
                             /\ s.next_index[q] <= Len(s.log) + 1
    BY <1>1 DEF Acks
  <1> QED BY <1>1, <1>2, <1>3, <1>4, <1>5, <1>6

\* An acknowledgement is counted, and what a majority holds is committed.
LEMMA CountMoves ==
    ASSUME NEW i \in Server, NEW m \in net, m \in AppendEntriesResponse, NEW L, NEW A,
           IInv, LogInv(L), core[i].role = "Leader", m.term = core[i].current_term,
           m.success, NEW k, Counting(core[i], m.from, m.match_index, k),
           NEW c, c = advance_commit_index(i, k),
           NEW r, \/ r = replicate_to_all_peers(i, c)
                  \/ r.core = c /\ r.out = {} /\ ~r.panics
    PROVE  LogMoves(i, r, L) /\ (SafeInv(L, A) => SafeMoves(i, r, L, A))
  <1> DEFINE s == core[i]
             T == s.current_term
             p == m.from
             x == m.match_index
  <1>1. /\ p \in Server /\ x \in Nat /\ m.type = "AppendEntriesResponse"
    BY DEF AppendEntriesResponse
  <1>2. s \in CoreState /\ T \in Nat /\ T > 0 /\ s.log \in Seq(Entry)
        /\ L \in [Nat -> Seq(Entry)]
    BY DEF IInv, TypeOK, CoreState, AllFit, Fit, LogInv, LeaderLogs
  <1>3. Counting(s, p, x, k) /\ s.role = "Leader"
    OBVIOUS
  <1>4. SafeInv(L, A) =>
               /\ A \in [Server -> [Nat -> Nat]] /\ A[i][T] = Len(s.log)
               /\ \A q \in Server : /\ s.match_index[q] <= A[q][T]
                                    /\ s.next_index[q] <= Len(s.log) + 1
                                    /\ A[q][T] <= Len(s.log) /\ A[q][T] \in Nat
               /\ x <= A[p][T]
               /\ Settled(s.log, s.commit_index, T, L, A)
               /\ s.log = L[T]
    BY <1>1, LeaderKnows
  <1> HIDE DEF s, T, p, x
  <1>5. /\ k \in CoreState /\ k.current_term = T /\ k.log = s.log
        /\ k.voted_for = s.voted_for /\ k.role = "Leader"
        /\ k.commit_index = s.commit_index
        /\ k.match_index[p] = x /\ k.next_index[p] = x + 1
        /\ \A q \in Server : q # p => /\ k.match_index[q] = s.match_index[q]
                                     /\ k.next_index[q] = s.next_index[q]
    BY <1>3 DEF Counting, T
  <1>6. /\ c \in CoreState /\ c.current_term = T /\ c.log = s.log
        /\ c.voted_for = s.voted_for /\ c.role = "Leader"
    BY <1>2, <1>5, AdvanceSound
  <1>7. Len(s.log) \in Nat
    BY <1>2, LenProperties
  <1>8. ASSUME SafeInv(L, A)
        PROVE  /\ \A q \in Server : /\ c.match_index[q] <= A[q][T]
                                    /\ c.next_index[q] <= Len(s.log) + 1
               /\ Settled(s.log, c.commit_index, T, L, A)
    <2>1. ASSUME NEW q \in Server
          PROVE  k.match_index[q] <= A[q][T] /\ k.next_index[q] <= Len(s.log) + 1
      <3>1. CASE q = p
        <4>1. k.match_index[q] = x /\ k.next_index[q] = x + 1
          BY <1>5, <3>1
        <4>2. x <= A[q][T] /\ A[q][T] <= Len(s.log) /\ A[q][T] \in Nat
          BY <1>4, <1>8, <3>1
        <4>3. x + 1 <= Len(s.log) + 1
          BY <1>1, <1>7, <4>2
        <4> QED BY <4>1, <4>2, <4>3
      <3>2. CASE q # p
        <4>1. k.match_index[q] = s.match_index[q] /\ k.next_index[q] = s.next_index[q]
          BY <1>5, <3>2
        <4> QED BY <1>4, <1>8, <4>1
      <3> QED BY <3>1, <3>2
    <2>2. Counts(i, k, L, A)
      <3>1. /\ A \in [Server -> [Nat -> Nat]] /\ A[i][T] = Len(s.log) /\ s.log = L[T]
        BY <1>4, <1>8
      <3>2. \A q \in Server : k.match_index[q] <= A[q][T]
        BY <2>1
      <3> QED BY <1>2, <1>5, <3>1, <3>2, Zenon DEF Counts
    <2>3. /\ c.match_index = k.match_index /\ c.next_index = k.next_index
          /\ \/ c.commit_index = k.commit_index
             \/ Settled(k.log, c.commit_index, k.current_term, L, A)
      BY <1>5, <2>2, AdvanceSettles
    <2>4. Settled(s.log, c.commit_index, T, L, A)
      BY <1>4, <1>5, <1>8, <2>3
    <2> QED BY <2>1, <2>3, <2>4
  <1>9. /\ r.core = c /\ NoAcks(r) /\ (~r.panics => Sends(i, r))
        /\ (\A q \in Server : c.next_index[q] <= Len(c.log) + 1) => ~r.panics
    <2>1. CASE r = replicate_to_all_peers(i, c)
      BY <1>6, <2>1, ReplicateSends
    <2>2. CASE r.core = c /\ r.out = {} /\ ~r.panics
      BY <2>2 DEF NoAcks, Sends
    <2> QED BY <2>1, <2>2
  <1>10. LeadsOn(i, r)
    BY <1>3, <1>6, <1>9 DEF LeadsOn, s, T
  <1>11. SafeInv(L, A) =>
           /\ ~r.panics
           /\ \A q \in Server :
                 /\ r.core.match_index[q] <= A[q][r.core.current_term]
                 /\ r.core.next_index[q] <= Len(r.core.log) + 1
           /\ Settled(r.core.log, r.core.commit_index, r.core.current_term, L, A)
    BY <1>6, <1>8, <1>9
  <1> QED BY <1>10, <1>11, LeadsOnMoves

\* After a refusal the leader tries again from further back.
LEMMA BackMoves ==
    ASSUME NEW i \in Server, NEW p \in Server, NEW L, NEW A,
           IInv, LogInv(L), core[i].role = "Leader",
           NEW k, k = Backing(core[i], p),
           NEW r, r = Outcome(k, {append_entries_for(i, k, p)}, append_panics(k, p))
    PROVE  LogMoves(i, r, L) /\ (SafeInv(L, A) => SafeMoves(i, r, L, A))
  <1> DEFINE s == core[i]
             T == s.current_term
             a == append_entries_for(i, k, p)
  <1>1. s \in CoreState /\ s.log \in Seq(Entry) /\ s.role = "Leader" /\ k = Backing(s, p)
    BY DEF IInv, TypeOK, CoreState
  <1>2. SafeInv(L, A) =>
               /\ \A q \in Server : /\ s.match_index[q] <= A[q][T]
                                    /\ s.next_index[q] <= Len(s.log) + 1
               /\ Settled(s.log, s.commit_index, T, L, A)
    BY LeaderKnows
  <1> HIDE DEF s, T
  <1>3. /\ k \in CoreState /\ k.current_term = T /\ k.log = s.log
        /\ k.voted_for = s.voted_for /\ k.role = "Leader"
        /\ k.commit_index = s.commit_index /\ k.match_index = s.match_index
        /\ \A q \in Server : /\ k.next_index[q] \in Nat /\ s.next_index[q] \in Nat
                             /\ k.next_index[q] <= s.next_index[q]
    BY <1>1, BackingMaps DEF T
  <1>4. Len(s.log) \in Nat
    BY <1>1, LenProperties
  <1>5. r.core = k /\ r.out = {a} /\ r.panics = append_panics(k, p)
    BY DEF Outcome
  <1>6. append_panics(k, p) <=> ~(k.next_index[p] <= Len(k.log) + 1)
    <2>1. k.next_index[p] \in Nat /\ Len(k.log) \in Nat
      BY <1>3, <1>4
    <2> QED BY <2>1 DEF append_panics, last_log_index
  <1>7. NoAcks(r)
    <2>1. a.type = "AppendEntriesRequest"
      BY DEF append_entries_for
    <2> HIDE DEF a
    <2> QED BY <1>5, <2>1 DEF NoAcks
  <1>8. ASSUME ~r.panics PROVE Sends(i, r)
    <2>1. k.next_index[p] <= Len(k.log) + 1
      BY <1>5, <1>6, <1>8
    <2>2. /\ a.type = "AppendEntriesRequest" /\ a.from = i
          /\ a.term = k.current_term /\ a.leader_commit = k.commit_index
          /\ Shipped(a, k.log)
      BY <1>3, <2>1, ShippedFrom
    <2> HIDE DEF a
    <2> QED BY <1>3, <1>5, <2>2 DEF Sends
  <1>9. LeadsOn(i, r)
    BY <1>1, <1>3, <1>5, <1>7, <1>8 DEF LeadsOn, s, T
  <1>10. ASSUME SafeInv(L, A), NEW q \in Server PROVE k.next_index[q] <= Len(k.log) + 1
    <2>1. s.next_index[q] <= Len(s.log) + 1
      BY <1>2, <1>10
    <2>2. \A u, v, w \in Nat : u <= v /\ v <= w => u <= w
      OBVIOUS
    <2>3. Len(s.log) + 1 \in Nat
      BY <1>4
    <2> QED BY <1>3, <2>1, <2>2, <2>3
  <1>11. SafeInv(L, A) =>
           /\ ~r.panics
           /\ \A q \in Server :
                 /\ r.core.match_index[q] <= A[q][r.core.current_term]
                 /\ r.core.next_index[q] <= Len(r.core.log) + 1
           /\ Settled(r.core.log, r.core.commit_index, r.core.current_term, L, A)
    BY <1>2, <1>3, <1>5, <1>6, <1>10
  <1> QED BY <1>9, <1>11, LeadsOnMoves

\* handle_append_response.
LEMMA AppendResponseMoves ==
    ASSUME NEW i \in Server, NEW m \in net, m \in AppendEntriesResponse, NEW L, NEW A,
           IInv, LogInv(L), NEW r, r = handle_append_response(i, core[i], m)
    PROVE  LogMoves(i, r, L) /\ (SafeInv(L, A) => SafeMoves(i, r, L, A))
  <1> DEFINE s == core[i]
             T == s.current_term
  <1>1. m.term \in Nat /\ m.from \in Server /\ T \in Nat
    BY DEF AppendEntriesResponse, CoreState, IInv, TypeOK
  <1>2. CASE m.term > T
    <2>1. r.core = become_follower(s, m.term) /\ r.out = {} /\ ~r.panics
      BY <1>2 DEF handle_append_response, Quiet, Outcome
    <2>2. NoAcks(r) /\ Sends(i, r)
      BY <2>1 DEF NoAcks, Sends
    <2> QED BY <1>1, <2>1, <2>2, StepDownMoves
  <1>3. CASE ~(m.term > T) /\ (s.role # "Leader" \/ m.term # T)
    <2>1. r.core = s /\ r.out = {} /\ ~r.panics
      BY <1>3 DEF handle_append_response, Quiet, Outcome
    <2>2. NoAcks(r) /\ Sends(i, r)
      BY <2>1 DEF NoAcks, Sends
    <2> QED BY <2>1, <2>2, IdleMoves
  <1>4. CASE m.term = T /\ s.role = "Leader"
    <2>1. CASE m.success
      <3> DEFINE k == [s EXCEPT !.match_index[m.from] = m.match_index,
                                !.next_index[m.from] = m.match_index + 1]
                 c == advance_commit_index(i, k)
      <3>1. \/ r = replicate_to_all_peers(i, c)
            \/ r.core = c /\ r.out = {} /\ ~r.panics
        BY <1>1, <1>4, <2>1 DEF handle_append_response, Quiet, Outcome
      <3>2. Counting(s, m.from, m.match_index, k)
        <4>1. s \in CoreState /\ m.match_index \in Nat
          BY DEF AppendEntriesResponse, IInv, TypeOK
        <4> QED BY <1>1, <4>1, CountingMaps
      <3> HIDE DEF k
      <3> QED BY <1>4, <2>1, <3>1, <3>2, CountMoves
    <2>2. CASE ~m.success
      <3> DEFINE k == Backing(s, m.from)
      <3>1. r = Outcome(k, {append_entries_for(i, k, m.from)}, append_panics(k, m.from))
        BY <1>1, <1>4, <2>2 DEF handle_append_response, Backing
      <3> HIDE DEF k
      <3> QED BY <1>1, <1>4, <3>1, BackMoves DEF k
    <2> QED BY <2>1, <2>2
  <1> QED BY <1>1, <1>2, <1>3, <1>4

\* propose, by a leader.
LEMMA ProposeMoves ==
    ASSUME NEW i \in Server, NEW c \in Command, NEW L, NEW A, IInv, LogInv(L),
           core[i].role = "Leader", NEW r, r = propose(i, core[i], c)
    PROVE  LogMoves(i, r, L) /\ (SafeInv(L, A) => SafeMoves(i, r, L, A))
  <1> DEFINE s == core[i]
             e == [term |-> s.current_term, command |-> c]
             t == [s EXCEPT !.log = Append(@, e)]
             v == advance_commit_index(i, t)
             T == s.current_term
  <1>1. s \in CoreState /\ T \in Nat /\ T > 0 /\ s.log \in Seq(Entry) /\ s.role = "Leader"
    BY DEF IInv, TypeOK, CoreState, AllFit, Fit
  <1>2. e \in Entry /\ e.term = T
    BY <1>1 DEF Entry
  <1>3. \/ r.core = v /\ r.out = {} /\ ~r.panics
        \/ r = replicate_to_all_peers(i, t)
    BY DEF propose, Quiet, Outcome
  <1>4. SafeInv(L, A) =>
               /\ A \in [Server -> [Nat -> Nat]] /\ A[i][T] = Len(s.log)
               /\ \A q \in Server : /\ s.match_index[q] <= A[q][T]
                                    /\ s.next_index[q] <= Len(s.log) + 1
                                    /\ A[q][T] <= Len(s.log) /\ A[q][T] \in Nat
    BY LeaderKnows
  <1> HIDE DEF e
  <1>5. Append(s.log, e) \in Seq(Entry) /\ Len(Append(s.log, e)) = Len(s.log) + 1
    BY <1>1, <1>2, Appended
  <1>6. /\ t \in CoreState /\ t.current_term = T /\ t.log = Append(s.log, e)
        /\ t.role = "Leader" /\ t.voted_for = s.voted_for
        /\ t.commit_index = s.commit_index
        /\ t.match_index = s.match_index /\ t.next_index = s.next_index
    BY <1>1, <1>5 DEF CoreState
  <1> HIDE DEF t, s, T
  <1>7. /\ v \in CoreState /\ v.current_term = T /\ v.log = t.log
        /\ v.role = "Leader" /\ v.voted_for = s.voted_for
    BY <1>1, <1>6, AdvanceSound
  <1> HIDE DEF v
  <1>8. r.core \in {t, v} /\ NoAcks(r) /\ (~r.panics => Sends(i, r))
        /\ ((\A q \in Server : t.next_index[q] <= Len(t.log) + 1) => ~r.panics)
    <2>1. CASE r.core = v /\ r.out = {} /\ ~r.panics
      BY <2>1 DEF NoAcks, Sends
    <2>2. CASE r = replicate_to_all_peers(i, t)
      BY <1>6, <2>2, ReplicateSends
    <2> QED BY <1>3, <2>1, <2>2
  <1>9. /\ r.core \in CoreState /\ r.core.current_term = T
        /\ r.core.log = t.log /\ r.core.role = "Leader" /\ r.core.voted_for = s.voted_for
    BY <1>6, <1>7, <1>8
  <1>10. Adds(i, r, e)
    BY <1>1, <1>2, <1>6, <1>9 DEF Adds, s, T
  <1>11. t.log \in Seq(Entry) /\ Len(t.log) = Len(s.log) + 1 /\ Len(t.log) \in Nat
         /\ Len(s.log) \in Nat /\ L \in [Nat -> Seq(Entry)]
    BY <1>1, <1>5, <1>6, LenProperties DEF LogInv, LeaderLogs
  <1>12. PICK M : Puts(L, T, t.log, M)
    BY <1>1, <1>11, PutsOne
  <1>13. Puts(L, r.core.current_term, r.core.log, M)
    BY <1>9, <1>12
  <1>14. ~r.panics => LogEffect(i, r, L, M)
    BY <1>8, <1>10, <1>13, ProposeLog
  <1>15. ASSUME SafeInv(L, A) PROVE ~r.panics
    <2>1. \A x, y \in Nat : x <= y + 1 => x <= y + 1 + 1
      OBVIOUS
    <2>2. \A q \in Server : t.next_index[q] \in Nat
      BY <1>6 DEF CoreState
    <2>3. \A q \in Server : t.next_index[q] <= Len(s.log) + 1
      BY <1>4, <1>6, <1>15
    <2>4. \A q \in Server : t.next_index[q] <= Len(s.log) + 1 + 1
      BY <1>11, <2>1, <2>2, <2>3
    <2> QED BY <1>8, <1>11, <2>4
  <1>16. ASSUME SafeInv(L, A) PROVE \E B : SafeEffect(i, r, L, A, M, B)
    <2>1. A \in [Server -> [Nat -> Nat]] /\ A[i][T] = Len(s.log)
      BY <1>4, <1>16
    <2>2. PICK B : Acked(A, i, T, Len(t.log), B)
      BY <1>1, <1>11, <2>1, AckedOne
    <2>3. /\ B \in [Server -> [Nat -> Nat]] /\ B[i][T] = Len(t.log)
          /\ \A p \in Server, k \in Nat : p # i \/ k # T => B[p][k] = A[p][k]
      BY <2>2 DEF Acked
    <2>4. ASSUME NEW q \in Server PROVE t.match_index[q] <= B[q][T]
      <3>1. /\ t.match_index[q] \in Nat /\ t.match_index[q] <= A[q][T]
            /\ A[q][T] <= Len(s.log) /\ A[q][T] \in Nat
        BY <1>4, <1>6, <1>16 DEF CoreState
      <3>2. CASE q = i
        <4>1. B[q][T] = Len(s.log) + 1
          BY <1>11, <2>3, <3>2
        <4>2. \A x, y, z \in Nat : x <= y /\ y <= z => x <= z + 1
          OBVIOUS
        <4>3. t.match_index[q] <= Len(s.log) + 1
          BY <1>11, <3>1, <4>2
        <4> QED BY <4>1, <4>3
      <3>3. CASE q # i
        <4>1. B[q][T] = A[q][T]
          BY <1>1, <2>3, <3>3
        <4> QED BY <3>1, <4>1
      <3> QED BY <3>2, <3>3
    <2>5. Counts(i, t, M, B)
      <3>1. M \in [Nat -> Seq(Entry)] /\ M[T] = t.log
        BY <1>12 DEF Puts
      <3> QED BY <1>1, <1>6, <2>3, <2>4, <3>1, Zenon DEF Counts
    <2>6. /\ v.match_index = t.match_index /\ v.next_index = t.next_index
          /\ \/ v.commit_index = t.commit_index
             \/ Settled(t.log, v.commit_index, t.current_term, M, B)
      BY <1>6, <2>5, AdvanceSettles DEF v
    <2>7. /\ r.core.match_index = s.match_index /\ r.core.next_index = s.next_index
          /\ \/ r.core.commit_index = s.commit_index
             \/ Settled(r.core.log, r.core.commit_index, r.core.current_term, M, B)
      BY <1>6, <1>8, <1>9, <2>6
    <2>8. Acked(A, i, r.core.current_term, Len(r.core.log), B)
      BY <1>9, <2>2
    <2>9. SafeEffect(i, r, L, A, M, B)
      BY <1>8, <1>10, <1>13, <1>16, <2>7, <2>8, ProposeAcks DEF s
    <2> QED BY <2>9
  <1> QED BY <1>14, <1>15, <1>16, Zenon DEF LogMoves, SafeMoves

\* Whatever node i receives.
LEMMA ReceiveMoves ==
    ASSUME NEW m \in net, NEW L, NEW A, IInv, LogInv(L),
           NEW r, r = receive(m.to, core[m.to], m)
    PROVE  /\ LogMoves(m.to, r, L)
           /\ SafeInv(L, A) /\ ~Overclaims(m, r) => SafeMoves(m.to, r, L, A)
  <1>1. m \in Envelope
    BY DEF IInv, TypeOK
  <1>2. CASE m \in RequestVoteRequest
    <2>1. r = handle_request_vote(m.to, core[m.to], m) /\ m.to \in Server
      BY <1>2 DEF receive, RequestVoteRequest
    <2> QED BY <1>2, <2>1, RequestVoteMoves
  <1>3. CASE m \in RequestVoteResponse
    <2>1. r = handle_vote_response(m.to, core[m.to], m) /\ m.to \in Server
      BY <1>3 DEF receive, RequestVoteResponse
    <2> QED BY <1>3, <2>1, VoteResponseMoves
  <1>4. CASE m \in AppendEntriesRequest
    <2>1. r = handle_append_entries(m.to, core[m.to], m) /\ m.to \in Server
      BY <1>4 DEF receive, AppendEntriesRequest
    <2> QED BY <1>4, <2>1, AppendEntriesMoves
  <1>5. CASE m \in AppendEntriesResponse
    <2>1. r = handle_append_response(m.to, core[m.to], m) /\ m.to \in Server
      BY <1>5 DEF receive, AppendEntriesResponse
    <2> QED BY <1>5, <2>1, AppendResponseMoves
  <1> QED BY <1>1, <1>2, <1>3, <1>4, <1>5 DEF Envelope

-----------------------------------------------------------------------------
(* The records go on fitting, whatever step is taken.                      *)

\* A pass applies entries of its log, up to what it has committed.
LEMMA PassApplies ==
    ASSUME NEW i \in Server, NEW r, NEW ack, NEW changed, NEW rest, IInv,
           Sound(i, core[i], r, ack),
           Complete(i, r, changed, rest) \/ CrashAfterPersist(i, r, changed, rest)
    PROVE  Applies(i, r)
  <1> DEFINE u == r.core
  <1>1. core[i] \in CoreState /\ core[i].commit_index <= core[i].last_applied
    BY DEF IInv, TypeOK, Drained
  <1>2. /\ \A n \in 0..Len(newly_committed(u)) :
              n > 0 => u.last_applied + n <= u.commit_index
    BY <1>1, CommittedInLog
  <1>3. u.last_applied \in Nat /\ u.commit_index \in Nat
    BY DEF Sound, CoreState
  <1>4. ~r.panics /\ panicked' = panicked
    BY DEF Complete, CrashAfterPersist
  <1>5. PICK upto \in Nat :
           /\ upto <= u.last_applied \/ upto <= u.commit_index
           /\ applied' = applied \cup
                {<<i, k, u.log[k], u.current_term>> : k \in (u.last_applied + 1)..upto}
    <2>1. CASE Complete(i, r, changed, rest)
      <3>1. u.commit_index <= u.commit_index
        BY <1>3
      <3> QED BY <1>3, <2>1, <3>1 DEF Complete, Record
    <2>2. CASE CrashAfterPersist(i, r, changed, rest)
      <3>1. PICK n \in 0..Len(newly_committed(u)) : Record(i, u, u.last_applied + n)
        BY <2>2 DEF CrashAfterPersist
      <3>2. n \in Int /\ n >= 0
        OBVIOUS
      <3>3. u.last_applied + n \in Nat
        BY <1>3, <3>2
      <3>4. u.last_applied + n <= u.last_applied \/ u.last_applied + n <= u.commit_index
        <4>1. CASE n = 0
          BY <1>3, <4>1
        <4>2. CASE n # 0
          BY <1>2, <3>2, <4>2
        <4> QED BY <4>1, <4>2
      <3> QED BY <3>1, <3>3, <3>4 DEF Record
    <2> QED BY <2>1, <2>2
  <1> HIDE DEF u
  <1>6. ASSUME NEW k \in (u.last_applied + 1)..upto
        PROVE  k \in Nat /\ k \in 1..u.commit_index
    BY <1>3, <1>5
  <1>7. ASSUME NEW a \in applied', a \notin applied
        PROVE  \E k \in Nat : /\ k \in 1..u.commit_index
                              /\ a = <<i, k, u.log[k], u.current_term>>
    <2>1. PICK k \in (u.last_applied + 1)..upto : a = <<i, k, u.log[k], u.current_term>>
      BY <1>5, <1>7
    <2> QED BY <1>6, <2>1
  <1> QED BY <1>4, <1>7 DEF Applies, u

\* There are records that fit.
RecInv == \E L : \E A : Recorded(L, A)

LEMMA PassRec ==
    ASSUME NEW i \in Server, NEW r, NEW ack, NEW L, NEW A, IInv, IInv',
           ElectionSafety', Recorded(L, A), Sound(i, core[i], r, ack),
           Ran(i, r), Applies(i, r), LogMoves(i, r, L),
           ~overclaimed' => ~overclaimed /\ (SafeInv(L, A) => SafeMoves(i, r, L, A))
    PROVE  RecInv'
  <1>1. LogInv(L) /\ (overclaimed \/ SafeInv(L, A)) /\ ~r.panics
    BY DEF Recorded, Applies
  <1>2. CASE overclaimed'
    <2>1. PICK M : LogEffect(i, r, L, M)
      BY <1>1 DEF LogMoves
    <2>2. LogInv(M)'
      BY <1>1, <2>1, LogStep
    <2>3. Recorded(M, A)'
      BY <1>2, <2>2 DEF Recorded
    <2> QED BY <2>3 DEF RecInv
  <1>3. CASE ~overclaimed'
    <2>1. SafeInv(L, A) /\ SafeMoves(i, r, L, A)
      BY <1>1, <1>3
    <2>2. PICK M, B : LogEffect(i, r, L, M) /\ SafeEffect(i, r, L, A, M, B)
      BY <2>1 DEF SafeMoves
    <2>3. LogInv(M)'
      BY <1>1, <2>2, LogStep
    <2>4. Passes(i, r, L, A, M, B)
      BY <1>1, <2>1, <2>2 DEF Passes
    <2>5. SafeInv(M, B)'
      BY <2>4, SafeStep
    <2>6. Recorded(M, B)'
      BY <2>3, <2>5 DEF Recorded
    <2> QED BY <2>6 DEF RecInv
  <1> QED BY <1>2, <1>3

\* The logs on record are not disturbed by a panic, which changes no log.
LEMMA LogInvStays ==
    ASSUME NEW L, LogInv(L), UNCHANGED <<core, votes, elected>>, net' \subseteq net
    PROVE  LogInv(L)'
  <1>1. LeaderLogs(L)'
    BY DEF LogInv, LeaderLogs
  <1>2. NodeLogs(L)'
    BY DEF LogInv, NodeLogs
  <1>3. TermsPast'
    BY DEF LogInv, TermsPast
  <1>4. MailLogs(L)'
    BY DEF LogInv, MailLogs
  <1> QED BY <1>1, <1>2, <1>3, <1>4 DEF LogInv

LEMMA EngineRec ==
    ASSUME NEW i \in Server, NEW r, NEW ack, NEW changed, NEW rest, NEW L, NEW A,
           IInv, IInv', ElectionSafety', Recorded(L, A), Sound(i, core[i], r, ack),
           rest \subseteq net, changed \/ persistent_state(r.core) = disk[i],
           run_engine(i, r, changed, rest), LogMoves(i, r, L),
           ~overclaimed' => ~overclaimed /\ (SafeInv(L, A) => SafeMoves(i, r, L, A))
    PROVE  RecInv'
  <1>1. CASE Complete(i, r, changed, rest) \/ CrashAfterPersist(i, r, changed, rest)
    <2>1. TypeOK
      BY DEF IInv
    <2>2. Ran(i, r)
      BY <1>1, <2>1, PassRan
    <2>3. Applies(i, r)
      BY <1>1, PassApplies
    <2> QED BY <2>2, <2>3, PassRec
  <1>2. CASE Panic(i, r, rest)
    <2>1. /\ r.panics /\ UNCHANGED <<core, votes, elected>> /\ net' \subseteq net
      BY <1>2 DEF Panic
    <2>2. LogInv(L) /\ (overclaimed \/ SafeInv(L, A))
      BY DEF Recorded
    <2>3. overclaimed'
      BY <2>1, <2>2 DEF SafeMoves
    <2>4. LogInv(L)'
      BY <2>1, <2>2, LogInvStays
    <2>5. Recorded(L, A)'
      BY <2>3, <2>4 DEF Recorded
    <2> QED BY <2>5 DEF RecInv
  <1> QED BY <1>1, <1>2 DEF run_engine

\* A restart is a pass of a call that does nothing, cut short after its write.
LEMMA RestartRec ==
    ASSUME NEW i \in Server, NEW L, NEW A, IInv, IInv', ElectionSafety',
           Recorded(L, A), Restart(i)
    PROVE  RecInv'
  <1> DEFINE r == Quiet(core[i])
             none == {}
  <1>1. r.core = core[i] /\ r.out = {} /\ ~r.panics
    BY DEF Quiet, Outcome
  <1> HIDE DEF r, none
  <1>2. /\ core[i] \in CoreState /\ Fit(core[i]) /\ disk \in [Server -> DiskState]
        /\ disk[i] = persistent_state(core[i])
    BY DEF IInv, TypeOK, AllFit, VoteLedger, Synced
  <1>3. r.out \subseteq Envelope /\ \A a \in r.out : a.type # "RequestVoteResponse"
    BY <1>1
  <1>4. Sound(i, core[i], r, none)
    BY <1>1, <1>2, <1>3, IdleSound
  <1>5. Ran(i, r)
    <2>1. disk' = [disk EXCEPT ![i] = persistent_state(r.core)]
      BY <1>1, <1>2 DEF Restart
    <2>2. core' = [core EXCEPT ![i] = restore(persistent_state(r.core))]
      BY <1>1, <1>2 DEF Restart
    <2>3. net' \subseteq net \cup r.out
      BY DEF Restart
    <2>4. votes' = votes \cup
            (IF r.core.voted_for = Nil THEN {}
             ELSE {<<i, r.core.current_term, r.core.voted_for>>})
      BY <1>1 DEF Restart, history, IInv, VoteLedger, VotesStored
    <2>5. elected' = elected \cup
            (IF r.core.role = "Leader" THEN {<<r.core.current_term, i>>} ELSE {})
      BY <1>1 DEF Restart, history, IInv, VoteLedger, LeadersBacked
    <2> QED BY <2>1, <2>2, <2>3, <2>4, <2>5 DEF Ran
  <1>6. Applies(i, r)
    BY <1>1 DEF Restart, history, Applies
  <1>7. NoAcks(r) /\ Sends(i, r)
    BY <1>1 DEF NoAcks, Sends
  <1>8. LogInv(L) /\ (~overclaimed' => ~overclaimed)
    BY DEF Recorded, Restart, history
  <1>9. LogMoves(i, r, L) /\ (SafeInv(L, A) => SafeMoves(i, r, L, A))
    BY <1>1, <1>7, <1>8, IdleMoves
  <1> QED BY <1>4, <1>5, <1>6, <1>8, <1>9, PassRec

\* Nothing happens.
LEMMA StutterRec ==
    ASSUME NEW L, NEW A, Recorded(L, A), UNCHANGED vars
    PROVE  RecInv'
  <1>1. UNCHANGED <<core, net, panicked, votes, elected, applied, overclaimed>>
    BY DEF vars, history
  <1>2. LogInv(L)'
    BY <1>1, LogInvStays DEF Recorded
  <1>3. ASSUME SafeInv(L, A) PROVE SafeInv(L, A)'
    <2>1. Acks(L, A)'
      BY <1>1, <1>3 DEF SafeInv, AckInv, Acks
    <2>2. \A t, n : Blocked(A, t, n)' <=> Blocked(A, t, n)
      BY <1>1 DEF Blocked, Missed, majority
    <2>3. \A l, t, n : Has(l, L, A, t, n)' <=> Has(l, L, A, t, n)
      BY <2>2 DEF Has
    <2>4. AcksHeld(L, A)' /\ LeadersHave(L, A)' /\ VotersAsked(L, A)'
      BY <1>1, <1>3, <2>3 DEF SafeInv, AckInv, AcksHeld, LeadersHave, VotersAsked
    <2>5. CommitInv(L, A)'
      BY <1>1, <1>3 DEF SafeInv, CommitInv
    <2> QED BY <1>1, <1>3, <2>1, <2>4, <2>5 DEF SafeInv, AckInv
  <1>4. Recorded(L, A)'
    BY <1>1, <1>2, <1>3 DEF Recorded
  <1> QED BY <1>4 DEF RecInv

-----------------------------------------------------------------------------
(* Every action keeps the records fitting.                                 *)

LEMMA ReceiveRec ==
    ASSUME NEW L, NEW A, IInv, IInv', ElectionSafety', Recorded(L, A),
           NEW m \in net, Receive(m)
    PROVE  RecInv'
  <1> DEFINE i == m.to
             r == receive(i, core[i], m)
  <1>1. /\ m \in Envelope /\ core \in [Server -> CoreState]
        /\ overclaimed \in BOOLEAN
    BY DEF IInv, TypeOK
  <1>2. i \in Server
    BY <1>1 DEF Envelope, RequestVoteRequest, RequestVoteResponse,
                AppendEntriesRequest, AppendEntriesResponse
  <1>3. Sound(i, core[i], r, Ack(core[i], m))
    BY <1>1, <1>2, ReceiveSound DEF IInv, AllFit
  <1>4. PICK rest : rest \subseteq net /\ run_engine(i, r, TRUE, rest)
    BY DEF Receive
  <1>5. overclaimed' = (overclaimed \/ Overclaims(m, r))
    BY DEF Receive
  <1>6. LogInv(L)
    BY DEF Recorded
  <1>7. r = receive(m.to, core[m.to], m)
    OBVIOUS
  <1> HIDE DEF r
  <1>8. /\ LogMoves(m.to, r, L)
        /\ SafeInv(L, A) /\ ~Overclaims(m, r) => SafeMoves(m.to, r, L, A)
    BY <1>6, <1>7, ReceiveMoves
  <1>9. ~overclaimed' => ~overclaimed /\ (SafeInv(L, A) => SafeMoves(i, r, L, A))
    BY <1>5, <1>8
  <1> HIDE DEF i
  <1>10. LogMoves(i, r, L)
    BY <1>8 DEF i
  <1> DEFINE ack == Ack(core[i], m)
             changed == TRUE
  <1>11. /\ Sound(i, core[i], r, ack) /\ run_engine(i, r, changed, rest)
         /\ changed \/ persistent_state(r.core) = disk[i]
    BY <1>3, <1>4
  <1> HIDE DEF ack, changed
  <1> QED BY <1>2, <1>4, <1>9, <1>10, <1>11, EngineRec

LEMMA ProposeRec ==
    ASSUME NEW L, NEW A, IInv, IInv', ElectionSafety', Recorded(L, A),
           NEW i \in Server, NEW c \in Command, Propose(i, c)
    PROVE  RecInv'
  <1> DEFINE r == propose(i, core[i], c)
             none == {}
             changed == TRUE
  <1>1. core[i] \in CoreState /\ Fit(core[i]) /\ core[i].role = "Leader"
    BY DEF IInv, TypeOK, AllFit, Propose
  <1>2. Sound(i, core[i], r, none)
    BY <1>1, ProposeSound DEF Propose
  <1>3. run_engine(i, r, changed, net) /\ overclaimed' = overclaimed
    BY DEF Propose
  <1>4. LogInv(L) /\ r = propose(i, core[i], c)
    BY DEF Recorded
  <1>5. net \subseteq net /\ (changed \/ persistent_state(r.core) = disk[i])
    OBVIOUS
  <1> HIDE DEF r, none, changed
  <1>6. LogMoves(i, r, L) /\ (SafeInv(L, A) => SafeMoves(i, r, L, A))
    BY <1>1, <1>4, ProposeMoves
  <1>7. ~overclaimed' => ~overclaimed /\ (SafeInv(L, A) => SafeMoves(i, r, L, A))
    BY <1>3, <1>6
  <1> QED BY <1>2, <1>3, <1>5, <1>6, <1>7, EngineRec

LEMMA TickRec ==
    ASSUME NEW L, NEW A, IInv, IInv', ElectionSafety', Recorded(L, A),
           NEW i \in Server, Tick(i)
    PROVE  RecInv'
  <1> DEFINE r == tick(i, core[i])
             changed == tick_changed(core[i], r.core)
             none == {}
             rest == net
  <1>1. core[i] \in CoreState /\ Fit(core[i])
    BY DEF IInv, TypeOK, AllFit
  <1>2. Sound(i, core[i], r, none) /\ r.core.log = core[i].log
    BY <1>1, TickSound
  <1>3. run_engine(i, r, changed, rest) /\ overclaimed' = overclaimed
    BY DEF Tick
  <1>4. LogInv(L) /\ r = tick(i, core[i]) /\ rest \subseteq net
    BY DEF Recorded
  <1> HIDE DEF r
  <1>5. changed \/ persistent_state(r.core) = disk[i]
    <2>1. disk[i] = persistent_state(core[i])
      BY DEF IInv, VoteLedger, Synced
    <2> QED BY <1>2, <2>1 DEF tick_changed, persistent_state
  <1>6. LogMoves(i, r, L) /\ (SafeInv(L, A) => SafeMoves(i, r, L, A))
    BY <1>4, TickMoves
  <1>7. ~overclaimed' => ~overclaimed /\ (SafeInv(L, A) => SafeMoves(i, r, L, A))
    BY <1>3, <1>6
  <1> HIDE DEF changed, none, rest
  <1> QED BY <1>2, <1>3, <1>4, <1>5, <1>6, <1>7, EngineRec

\* At the start nothing has been led and nothing acknowledged.
LEMMA RecInit == Init => RecInv
  <1> SUFFICES ASSUME Init PROVE RecInv
    OBVIOUS
  <1> DEFINE L == [t \in Nat |-> << >>]
             A == [p \in Server |-> [t \in Nat |-> 0]]
  <1>1. \A i \in Server : core[i] = new
    BY DEF Init
  <1>2. /\ new.log = << >> /\ new.role = "Follower" /\ new.commit_index = 0
        /\ new.current_term = 0
    BY DEF new
  <1>3. /\ net = {} /\ panicked = {} /\ votes = {} /\ elected = {}
        /\ applied = {} /\ overclaimed = FALSE
    BY DEF Init
  <1>4. \A l : l = << >> => Len(l) = 0
    OBVIOUS
  <1>5. L \in [Nat -> Seq(Entry)] /\ \A t \in Nat : L[t] = << >>
    OBVIOUS
  <1>6. A \in [Server -> [Nat -> Nat]] /\ \A p \in Server, t \in Nat : A[p][t] = 0
    OBVIOUS
  <1> HIDE DEF L, A
  <1>7. \A l : l = << >> => OnRecord(l, L) /\ TermsRise(l) /\ \A t : TermsUpTo(l, t)
    BY <1>4 DEF OnRecord, TermsRise, TermsUpTo
  <1>8. LogInv(L)
    <2>1. LeaderLogs(L)
      BY <1>5, <1>7 DEF LeaderLogs
    <2>2. NodeLogs(L)
      BY <1>1, <1>2, <1>7 DEF NodeLogs
    <2>3. TermsPast /\ MailLogs(L)
      BY <1>3 DEF TermsPast, MailLogs
    <2> QED BY <2>1, <2>2, <2>3 DEF LogInv
  <1>9. \A t \in Nat : \A n : ~Point(L, t, n)
    BY <1>4, <1>5 DEF Point
  <1>10. Acks(L, A)
    <2>1. ASSUME NEW p \in Server, NEW t \in Nat
          PROVE  /\ A[p][t] <= Len(L[t])
                 /\ t > core[p].current_term => A[p][t] = 0
                 /\ t = core[p].current_term => Agree(core[p].log, L[t], A[p][t])
      <3>1. L[t] = << >> /\ core[p].log = << >> /\ A[p][t] = 0
        BY <1>1, <1>2, <1>5, <1>6
      <3>2. Agree(core[p].log, L[t], A[p][t])
        BY <3>1 DEF Agree
      <3> QED BY <3>1, <3>2
    <2> QED BY <1>1, <1>2, <1>3, <1>6, <2>1 DEF Acks
  <1>11. AckInv(L, A)
    BY <1>3, <1>9, <1>10 DEF AckInv, AcksHeld, LeadersHave, VotersAsked
  <1>12. CommitInv(L, A)
    BY <1>1, <1>2, <1>3 DEF CommitInv, Settled
  <1>13. Recorded(L, A)
    BY <1>3, <1>8, <1>11, <1>12 DEF Recorded, SafeInv
  <1> QED BY <1>13 DEF RecInv

LEMMA RecNext == IInv /\ IInv' /\ RecInv /\ [Next]_vars => RecInv'
  <1> SUFFICES ASSUME IInv, IInv', RecInv, [Next]_vars PROVE RecInv'
    OBVIOUS
  <1>1. ElectionSafety'
    BY LedgerElects, PTL
  <1>2. PICK L : \E A : Recorded(L, A)
    BY DEF RecInv
  <1>3. PICK A : Recorded(L, A)
    BY <1>2
  <1>4. ASSUME NEW m \in net, Receive(m) PROVE RecInv'
    BY <1>1, <1>3, <1>4, ReceiveRec
  <1>5. ASSUME NEW i \in Server, NEW c \in Command, Propose(i, c) PROVE RecInv'
    BY <1>1, <1>3, <1>5, ProposeRec
  <1>6. ASSUME NEW i \in Server, Tick(i) PROVE RecInv'
    BY <1>1, <1>3, <1>6, TickRec
  <1>7. ASSUME NEW i \in Server, Restart(i) PROVE RecInv'
    BY <1>1, <1>3, <1>7, RestartRec
  <1>8. CASE UNCHANGED vars
    BY <1>3, <1>8, StutterRec
  <1> QED BY <1>4, <1>5, <1>6, <1>7, <1>8 DEF Next

\* In every state of every run there are records of the leaders' logs and of
\* the acknowledgements that fit it: the invariant that propose, tick,
\* receive, restart and a crash in the middle of a pass all keep.
THEOREM OnTheRecord == Spec => []RecInv
  <1>1. IInv /\ RecInv /\ [Next]_vars => RecInv'
    BY NextInv, RecNext
  <1> QED BY <1>1, RecInit, Invariance, PTL DEF Spec

-----------------------------------------------------------------------------
(* The theorems.                                                           *)

\* The log on disk is the one in memory.
LEMMA StoredLog ==
    ASSUME IInv, NEW i \in Server
    PROVE  disk[i].log = core[i].log
  <1>1. disk[i] = persistent_state(core[i])
    BY DEF IInv, VoteLedger, Synced
  <1> QED BY <1>1 DEF persistent_state

\* Two stored logs that agree on the term at an index agree up to it, at all
\* times and also after an overclaim: the consistency check and the merge of
\* handle_append_entries.
THEOREM LogsMatch == Spec => []LogMatching
  <1>1. IInv /\ RecInv => LogMatching
    <2> SUFFICES ASSUME IInv, RecInv, NEW i \in Server, NEW j \in Server,
                        NEW k \in 1..Len(disk[i].log), k <= Len(disk[j].log),
                        disk[i].log[k].term = disk[j].log[k].term
                 PROVE  SubSeq(disk[i].log, 1, k) = SubSeq(disk[j].log, 1, k)
      BY DEF LogMatching
    <2>1. PICK L : \E A : Recorded(L, A)
      BY DEF RecInv
    <2>2. disk[i].log = core[i].log /\ disk[j].log = core[j].log
      BY StoredLog, Zenon
    <2> DEFINE l == core[i].log
               m == core[j].log
    <2>3. OnRecord(l, L) /\ OnRecord(m, L)
      BY <2>1 DEF Recorded, LogInv, NodeLogs
    <2>4. core[i] \in CoreState /\ core[j] \in CoreState
      BY DEF IInv, TypeOK
    <2>5. l \in Seq(Entry) /\ m \in Seq(Entry) /\ Len(l) \in Nat /\ Len(m) \in Nat
      BY <2>4, LogType
    <2> HIDE DEF l, m
    <2>6. k \in 1..Len(l) /\ k \in 1..Len(m) /\ l[k].term = m[k].term
      BY <2>2, <2>5 DEF l, m
    <2>7. Agree(l, m, k)
      BY <2>3, <2>6, SameTermAgree
    <2>8. k \in Nat /\ k <= Len(l) /\ k <= Len(m) /\ \A x \in 1..k : l[x] = m[x]
      BY <2>5, <2>6, <2>7 DEF Agree
    <2>9. SubSeq(l, 1, k) = SubSeq(m, 1, k)
      BY <2>5, <2>8
    <2> QED BY <2>2, <2>9 DEF l, m
  <1> QED BY <1>1, OnTheRecord, Invariance, PTL

\* Unless a follower has acknowledged entries its leader lacks, no engine
\* thread dies of the slice panic of append_entries_for: next_index never
\* passes the end of the leader's log.
THEOREM EnginesSurvive == Spec => []NoPanicUnlessOverclaimed
  <1>1. RecInv => NoPanicUnlessOverclaimed
    BY DEF RecInv, Recorded, SafeInv, NoPanicUnlessOverclaimed
  <1> QED BY <1>1, OnTheRecord, PTL

\* A chosen point is in the log of every leader of a later term.
LEMMA ChosenKept ==
    ASSUME NEW L, NEW A, IInv, LogInv(L), SafeInv(L, A), NEW t \in Nat, NEW n \in Nat,
           Chosen(L, A, t, n), NEW e \in elected, t < e[1]
    PROVE  Agree(L[e[1]], L[t], n)
  <1>1. A \in [Server -> [Nat -> Nat]]
    BY DEF SafeInv, AckInv, Acks
  <1>2. ~Blocked(A, t, n)
    BY <1>1, ChosenUnblocked
  <1>3. Has(L[e[1]], L, A, t, n)
    BY DEF SafeInv, AckInv, LeadersHave, Chosen
  <1> QED BY <1>2, <1>3 DEF Has

\* What two chosen points have in common is the same.
LEMMA ChosenAgree ==
    ASSUME NEW L, NEW A, IInv, LogInv(L), SafeInv(L, A),
           NEW t \in Nat, NEW n \in Nat, Chosen(L, A, t, n),
           NEW u \in Nat, NEW o \in Nat, Chosen(L, A, u, o),
           NEW k, k \in 1..n, k \in 1..o, t <= u
    PROVE  L[t][k] = L[u][k]
  <1>1. CASE t = u
    BY <1>1
  <1>2. CASE t # u
    <2>1. L[u] \in Seq(Entry) /\ Point(L, u, o)
      BY DEF LogInv, LeaderLogs, Chosen
    <2>2. L[u] # << >>
      BY <2>1 DEF Point
    <2>3. PICK i \in Server : <<u, i>> \in elected
      BY <2>2 DEF LogInv, LeaderLogs
    <2> DEFINE e == <<u, i>>
    <2>4. e \in elected /\ e[1] = u /\ t < u
      BY <1>2, <2>3
    <2> HIDE DEF e
    <2>5. Agree(L[e[1]], L[t], n)
      BY <2>4, ChosenKept
    <2> QED BY <2>4, <2>5 DEF Agree
  <1> QED BY <1>1, <1>2

\* Unless a follower has acknowledged entries its leader lacks, no two Stores
\* are given different entries for an index, across crashes, restarts and the
\* reapplication they bring (advance_commit_index, apply_to_store).
THEOREM StoresAgree == Spec => []StateMachineSafetyUnlessOverclaimed
  <1>1. IInv /\ RecInv => StateMachineSafetyUnlessOverclaimed
    <2> SUFFICES ASSUME IInv, RecInv, ~overclaimed, NEW a \in applied, NEW b \in applied,
                        a[2] = b[2]
                 PROVE  a[3] = b[3]
      BY DEF StateMachineSafetyUnlessOverclaimed, StateMachineSafety
    <2>1. PICK L : \E A : Recorded(L, A)
      BY DEF RecInv
    <2>2. PICK A : Recorded(L, A)
      BY <2>1
    <2>3. LogInv(L) /\ SafeInv(L, A)
      BY <2>2 DEF Recorded
    <2>4. PICK t \in Nat, n \in Nat :
             Chosen(L, A, t, n) /\ a[2] \in 1..n /\ L[t][a[2]] = a[3]
      BY <2>3 DEF SafeInv, CommitInv
    <2>5. PICK u \in Nat, o \in Nat :
             Chosen(L, A, u, o) /\ b[2] \in 1..o /\ L[u][b[2]] = b[3]
      BY <2>3 DEF SafeInv, CommitInv
    <2>6. a[2] \in 1..n /\ a[2] \in 1..o
      BY <2>4, <2>5
    <2>7. t <= u \/ u <= t
      OBVIOUS
    <2>8. L[t][a[2]] = L[u][a[2]]
      <3>1. CASE t <= u
        BY <2>3, <2>4, <2>5, <2>6, <3>1, ChosenAgree
      <3>2. CASE u <= t
        BY <2>3, <2>4, <2>5, <2>6, <3>2, ChosenAgree
      <3> QED BY <2>7, <3>1, <3>2
    <2> QED BY <2>4, <2>5, <2>8
  <1> QED BY <1>1, OnTheRecord, Invariance, PTL

\* Unless a follower has acknowledged entries its leader lacks, a leader's log
\* has every entry a Store was given in its term or an earlier one: who lacks
\* one cannot win (candidate_log_is_up_to_date, handle_request_vote).
THEOREM LeadersComplete == Spec => []LeaderCompletenessUnlessOverclaimed
  <1>1. IInv /\ RecInv => LeaderCompletenessUnlessOverclaimed
    <2> SUFFICES ASSUME IInv, RecInv, ~overclaimed, NEW i \in Server, NEW a \in applied,
                        core[i].role = "Leader", a[4] <= core[i].current_term
                 PROVE  a[2] <= Len(core[i].log) /\ core[i].log[a[2]] = a[3]
      BY DEF LeaderCompletenessUnlessOverclaimed, LeaderCompleteness
    <2>1. PICK L : \E A : Recorded(L, A)
      BY DEF RecInv
    <2>2. PICK A : Recorded(L, A)
      BY <2>1
    <2>3. LogInv(L) /\ SafeInv(L, A)
      BY <2>2 DEF Recorded
    <2>4. PICK t \in Nat, n \in Nat :
             t <= a[4] /\ Chosen(L, A, t, n) /\ a[2] \in 1..n /\ L[t][a[2]] = a[3]
      BY <2>3 DEF SafeInv, CommitInv
    <2> DEFINE T == core[i].current_term
               k == a[2]
    <2>5. core[i] \in CoreState /\ a \in Server \X Nat \X Entry \X Nat
      BY DEF IInv, TypeOK
    <2>6. T \in Nat /\ a[4] \in Nat /\ k \in Nat
      BY <2>5 DEF CoreState
    <2>7. core[i].log = L[T] /\ <<T, i>> \in elected
      BY <2>3 DEF LogInv, NodeLogs, IInv, VoteLedger, LeadersBacked
    <2>8. L \in [Nat -> Seq(Entry)]
      BY <2>3 DEF LogInv, LeaderLogs
    <2>9. L[T] \in Seq(Entry) /\ Len(L[T]) \in Nat
      BY <2>6, <2>8, LenProperties
    <2>10. T = core[i].current_term
      OBVIOUS
    <2> HIDE DEF T
    <2>11. t = T \/ t < T
      BY <2>4, <2>6, <2>10
    <2>12. k <= Len(L[T]) /\ L[T][k] = L[t][k]
      <3>1. CASE t = T
        <4>1. n <= Len(L[T])
          BY <2>4, <2>9, <3>1 DEF Chosen, Point
        <4> QED BY <2>4, <2>6, <2>9, <3>1, <4>1
      <3>2. CASE t < T
        <4> DEFINE e == <<T, i>>
        <4>1. e \in elected /\ e[1] = T
          BY <2>7
        <4> HIDE DEF e
        <4>2. Agree(L[e[1]], L[t], n)
          BY <2>3, <2>4, <3>2, <4>1, ChosenKept
        <4>3. n <= Len(L[T]) /\ \A x \in 1..n : L[T][x] = L[t][x]
          BY <4>1, <4>2 DEF Agree
        <4> QED BY <2>4, <2>6, <2>9, <4>3
      <3> QED BY <2>11, <3>1, <3>2
    <2> QED BY <2>4, <2>7, <2>12
  <1> QED BY <1>1, OnTheRecord, Invariance, PTL

\* Unless a follower has acknowledged entries its leader lacks, the index a
\* leader has committed is held, with that leader's entry, by the stored logs
\* of a majority (advance_commit_index, the answer of handle_append_entries).
THEOREM MajorityHolds == Spec => []MajorityUnlessOverclaimed
  <1>1. IInv /\ RecInv => MajorityUnlessOverclaimed
    <2> SUFFICES ASSUME IInv, RecInv, ~overclaimed, NEW i \in Server,
                        core[i].commit_index > 0
                 PROVE  Cardinality({p \in Server :
                           /\ core[i].commit_index <= Len(disk[p].log)
                           /\ disk[p].log[core[i].commit_index]
                                 = core[i].log[core[i].commit_index]}) >= majority
      BY DEF MajorityUnlessOverclaimed, CommittedOnMajority
    <2>1. PICK L : \E A : Recorded(L, A)
      BY DEF RecInv
    <2>2. PICK A : Recorded(L, A)
      BY <2>1
    <2>3. LogInv(L) /\ SafeInv(L, A)
      BY <2>2 DEF Recorded
    <2> DEFINE k == core[i].commit_index
               l == core[i].log
               Holding == {p \in Server : k <= Len(disk[p].log) /\ disk[p].log[k] = l[k]}
    <2>4. core[i] \in CoreState
      BY DEF IInv, TypeOK
    <2>5. k \in Nat /\ k > 0
      BY <2>4 DEF CoreState
    <2>6. PICK t \in Nat, n \in Nat :
             k <= n /\ Chosen(L, A, t, n) /\ Agree(l, L[t], k)
      BY <2>3, <2>5 DEF SafeInv, CommitInv, Settled
    <2>7. A \in [Server -> [Nat -> Nat]]
      BY <2>3 DEF SafeInv, AckInv, Acks
    <2>8. ~Blocked(A, t, n)
      BY <2>6, <2>7, ChosenUnblocked
    <2>9. PICK Q \in SUBSET Server :
             Cardinality(Q) >= majority /\ \A p \in Q : A[p][t] >= n
      BY <2>6 DEF Chosen
    <2> HIDE DEF k, l
    <2>10. ASSUME NEW p \in Q PROVE p \in Holding
      <3>1. Has(core[p].log, L, A, t, n)
        BY <2>3, <2>6, <2>9 DEF SafeInv, AckInv, AcksHeld, Chosen
      <3>2. Agree(core[p].log, L[t], n)
        BY <2>8, <3>1 DEF Has
      <3>3. disk[p].log = core[p].log /\ core[p] \in CoreState
        BY DEF IInv, TypeOK, VoteLedger, Synced, persistent_state
      <3>4. Len(core[p].log) \in Nat
        BY <3>3, LogType
      <3>5. k \in 1..n /\ k \in 1..k /\ k <= Len(core[p].log)
        BY <2>5, <2>6, <3>2, <3>4 DEF Agree
      <3>6. core[p].log[k] = L[t][k] /\ l[k] = L[t][k]
        BY <2>6, <3>2, <3>5 DEF Agree
      <3> QED BY <3>3, <3>5, <3>6
    <2>11. IsFiniteSet(Server) /\ Q \subseteq Holding /\ Holding \subseteq Server
      BY <2>10, ServerAssumption
    <2> HIDE DEF Holding
    <2>12. IsFiniteSet(Holding) /\ IsFiniteSet(Q)
      BY <2>11, FS_Subset
    <2>13. /\ Cardinality(Q) <= Cardinality(Holding)
           /\ Cardinality(Q) \in Nat /\ Cardinality(Holding) \in Nat
      BY <2>11, <2>12, FS_Subset, FS_CardinalityType
    <2>14. Cardinality(Server) \in Nat /\ majority \in Int
      BY ServerAssumption, FS_CardinalityType DEF majority
    <2>15. Cardinality(Holding) >= majority
      BY <2>9, <2>13, <2>14
    <2> QED BY <2>15 DEF Holding, k, l
  <1> QED BY <1>1, OnTheRecord, Invariance, PTL

=============================================================================
