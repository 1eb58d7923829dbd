-------------------------------- MODULE Swim --------------------------------
(***************************************************************************)
(* SWIM membership: SwimCore of gems-cluster/src/gossip.rs, driven by      *)
(* run_engine of swim_net.rs on every node.  One pass of the engine loop   *)
(* is one action: a message is taken from the channel, or recv_timeout     *)
(* gave up and the core ticks.                                             *)
(*                                                                         *)
(* Envelopes travel over connections of their own, so they arrive in any   *)
(* order or not at all; the length and the HMAC of the frame make a        *)
(* decoded envelope one that was sent.  The groups are static, every node  *)
(* knows every other from the start.                                       *)
(*                                                                         *)
(* Time.  A tick takes a whole period of silence, an answer normally much  *)
(* less.  A tick while a message of that node is still under way, and a    *)
(* lost message, are faults and bounded by MaxFaults; after the last one   *)
(* the network is timely.                                                  *)
(***************************************************************************)
EXTENDS Integers, Sequences, FiniteSets, SequencesExt

CONSTANTS
    Node,              \* the members, as numbers
    PingOrder,         \* each node's ping_order: its peers, as HashMap::keys gave them
    ProtocolPeriod,    \* ticks between pings
    PingTimeout,       \* ticks until a ping counts as lost
    SuspicionTimeout,  \* ticks from Suspect to Dead
    RetransmitCount,   \* GOSSIP_RETRANSMIT_COUNT
    MaxGossip,         \* MAX_GOSSIP_PER_MESSAGE
    SeqModulus,        \* next_seq is a u32 and wraps
    MaxFaults,         \* bound: late ticks and lost messages
    MaxCrashes,        \* bound: processes that die
    MaxRestarts,       \* bound: processes started again, as new
    Polled             \* nodes whose client asks for status_of again and again

ASSUME SwimAssumption ==
    /\ IsFiniteSet(Node)
    /\ PingOrder \in [Node -> Seq(Node)]
    /\ \A n \in Node : ToSet(PingOrder[n]) = Node \ {n}
    /\ {ProtocolPeriod, PingTimeout, SuspicionTimeout, RetransmitCount,
        MaxGossip, SeqModulus} \subseteq Nat \ {0}
    /\ {MaxFaults, MaxCrashes, MaxRestarts} \subseteq Nat
    /\ Polled \subseteq Node

VARIABLES
    core,      \* each node's SwimCore
    net,       \* envelopes under way
    asked,     \* nodes with a StatusOf in their channel
    up,        \* nodes whose process runs
    faults, crashes, restarts,
    peak       \* history: the highest incarnation each node ever took

vars == <<core, net, asked, up, faults, crashes, restarts, peak>>

Alive == 0
Suspect == 1
Dead == 2
Status == {Alive, Suspect, Dead}

NoTimer == -1
NoPing == [target |-> 0, seq |-> 0, ticks |-> NoTimer]

\* GossipItem
Item(m, s, i) == [member |-> m, status |-> s, incarnation |-> i]

-----------------------------------------------------------------------------
(* SwimCore: operators from a core, c, to a core or to a core and output.  *)

\* SwimCore::new
New(n) ==
    [id |-> n, incarnation |-> 0,
     members |-> [m \in Node |-> [status |-> Alive, incarnation |-> 0]],
     idx |-> 1, seq |-> 0, period |-> 0, awaiting |-> NoPing,
     elapsed |-> [m \in Node |-> NoTimer], queue |-> <<>>]

\* What Vec::retain leaves of q: the places in P, in their order.
Retained(q, P) ==
    LET kept[k \in 0..Len(q)] ==
            IF k = 0 THEN <<>>
            ELSE IF k \in P THEN Append(kept[k - 1], q[k])
            ELSE kept[k - 1]
    IN  kept[Len(q)]

queue_gossip(c, item) ==
    LET others == {k \in 1..Len(c.queue) : c.queue[k].item.member # item.member}
    IN  [c EXCEPT !.queue = Append(Retained(@, others),
                                   [item |-> item, sends |-> RetransmitCount])]

\* Mutant: an item is kept until it has been sent once too often.
take_gossip_KeepsSpent(c) ==
    LET k == IF Len(c.queue) < MaxGossip THEN Len(c.queue) ELSE MaxGossip
        sent == [i \in 1..k |-> [c.queue[i] EXCEPT !.sends = @ - 1]]
        unspent == {i \in 1..k : sent[i].sends >= 0}
    IN  [items |-> [i \in 1..k |-> c.queue[i].item],
         core |-> [c EXCEPT !.queue = Retained(sent, unspent) \o SubSeq(@, k + 1, Len(@))]]

\* The items of the next message, and the core without the sends they used.
take_gossip(c) ==
    LET k == IF Len(c.queue) < MaxGossip THEN Len(c.queue) ELSE MaxGossip
        sent == [i \in 1..k |-> [c.queue[i] EXCEPT !.sends = @ - 1]]
        unspent == {i \in 1..k : sent[i].sends > 0}
    IN  [items |-> [i \in 1..k |-> c.queue[i].item],
         core |-> [c EXCEPT !.queue = Retained(sent, unspent) \o SubSeq(@, k + 1, Len(@))]]

\* Mutant: any word of the same incarnation counts.
Supersedes_AnyStatus(item, b) == b.status # Dead /\ item.incarnation >= b.incarnation

Supersedes(item, b) ==
    /\ b.status # Dead
    /\ \/ item.incarnation > b.incarnation
       \/ item.incarnation = b.incarnation /\ item.status > b.status

\* Mutant: a suspicion of the current incarnation is taken for an old one.
maybe_refute_self_OnlyNewer(c, item) ==
    IF item.status = Alive \/ item.incarnation <= c.incarnation THEN c
    ELSE LET i == item.incarnation + 1 IN
         queue_gossip([c EXCEPT !.incarnation = i,
                                !.members[c.id] = [status |-> Alive, incarnation |-> i]],
                      Item(c.id, Alive, i))

maybe_refute_self(c, item) ==
    IF item.status = Alive \/ item.incarnation < c.incarnation THEN c
    ELSE LET i == item.incarnation + 1 IN
         queue_gossip([c EXCEPT !.incarnation = i,
                                !.members[c.id] = [status |-> Alive, incarnation |-> i]],
                      Item(c.id, Alive, i))

\* Mutant: the timer of a refuted suspicion runs on.
merge_KeepsTimer(c, item) ==
    IF item.member = c.id THEN maybe_refute_self(c, item)
    ELSE IF ~Supersedes(item, c.members[item.member]) THEN c
    ELSE queue_gossip(
            [c EXCEPT !.members[item.member] =
                            [status |-> item.status, incarnation |-> item.incarnation],
                      !.elapsed[item.member] = IF item.status = Suspect THEN 0 ELSE @],
            item)

merge(c, item) ==
    IF item.member = c.id THEN maybe_refute_self(c, item)
    ELSE IF ~Supersedes(item, c.members[item.member]) THEN c
    ELSE queue_gossip(
            [c EXCEPT !.members[item.member] =
                            [status |-> item.status, incarnation |-> item.incarnation],
                      !.elapsed[item.member] = IF item.status = Suspect THEN 0 ELSE NoTimer],
            item)

\* The first half of tick: suspicions age and, at the timeout, become deaths.
\* The map of suspicions is walked in any order, so the deaths are queued in
\* any order.
Expired(c) ==
    {m \in Node : c.elapsed[m] # NoTimer /\ c.elapsed[m] + 1 >= SuspicionTimeout}

Aged(c) ==
    [c EXCEPT !.elapsed = [m \in Node |->
        IF @[m] = NoTimer \/ m \in Expired(c) THEN NoTimer ELSE @[m] + 1]]

Declare(d, m) ==
    IF d.members[m].status # Suspect THEN d
    ELSE queue_gossip([d EXCEPT !.members[m].status = Dead],
                      Item(m, Dead, d.members[m].incarnation))

\* Mutant: nobody is declared dead while a ping is out.
age_suspicions_WhenIdle(c, order) ==
    LET declared[k \in 0..Len(order)] ==
            IF k = 0 THEN Aged(c)
            ELSE IF c.awaiting # NoPing THEN declared[k - 1]
            ELSE Declare(declared[k - 1], order[k])
    IN  declared[Len(order)]

age_suspicions(c, order) ==
    LET declared[k \in 0..Len(order)] ==
            IF k = 0 THEN Aged(c) ELSE Declare(declared[k - 1], order[k])
    IN  declared[Len(order)]

\* Mutant: the suspicion is raised at the next incarnation.
age_ping_NextIncarnation(c) ==
    IF c.awaiting = NoPing THEN c
    ELSE IF c.awaiting.ticks + 1 < PingTimeout
         THEN [c EXCEPT !.awaiting.ticks = @ + 1]
    ELSE LET b == c.members[c.awaiting.target]
             d == [c EXCEPT !.awaiting = NoPing]
         IN  IF b.status = Alive
             THEN merge(d, Item(c.awaiting.target, Suspect, b.incarnation + 1))
             ELSE d

age_ping(c) ==
    IF c.awaiting = NoPing THEN c
    ELSE IF c.awaiting.ticks + 1 < PingTimeout
         THEN [c EXCEPT !.awaiting.ticks = @ + 1]
    ELSE LET b == c.members[c.awaiting.target]
             d == [c EXCEPT !.awaiting = NoPing]
         IN  IF b.status = Alive
             THEN merge(d, Item(c.awaiting.target, Suspect, b.incarnation))
             ELSE d

\* next_ping_target: how many places of ping_order are passed, the dead ones
\* and the target; 0 when nobody is left.
Pinged(c, k) == PingOrder[c.id][((c.idx - 1 + k - 1) % Len(PingOrder[c.id])) + 1]

next_ping_target(c) ==
    LET live == {k \in 1..Len(PingOrder[c.id]) : c.members[Pinged(c, k)].status # Dead}
    IN  IF live = {} THEN 0 ELSE Min(live)

ping_if_due(c) ==
    LET d == [c EXCEPT !.period = @ + 1]
        k == next_ping_target(c)
        e == [d EXCEPT !.period = 0]
        len == Len(PingOrder[c.id])
    IN  IF d.period < ProtocolPeriod \/ c.awaiting # NoPing
        THEN [core |-> d, out |-> {}]
        ELSE IF k = 0 THEN [core |-> e, out |-> {}]
        ELSE LET target == Pinged(c, k)
                 seq == (c.seq + 1) % SeqModulus
                 g == take_gossip([e EXCEPT
                        !.idx = ((@ - 1 + k) % len) + 1, !.seq = seq,
                        !.awaiting = [target |-> target, seq |-> seq, ticks |-> 0]])
             IN  [core |-> g.core,
                  out |-> {[type |-> "Ping", from |-> c.id, to |-> target, seq |-> seq,
                            incarnation |-> c.incarnation, gossip |-> g.items]}]

\* receive: first the sender, known to be alive, and then its gossip ...
hear(c, env) ==
    LET heard[k \in 0..Len(env.gossip)] ==
            IF k = 0 THEN merge(c, Item(env.from, Alive, env.incarnation))
            ELSE merge(heard[k - 1], env.gossip[k])
    IN  heard[Len(env.gossip)]

\* ... and then the answer to a ping, or the end of the wait for an ack.
reply(heard, env) ==
    LET g == take_gossip(heard)
    IN  IF env.type = "Ping"
        THEN [core |-> g.core,
              out |-> {[type |-> "Ack", from |-> heard.id, to |-> env.from, seq |-> env.seq,
                        incarnation |-> g.core.incarnation, gossip |-> g.items]}]
        ELSE [core |-> IF /\ heard.awaiting # NoPing
                          /\ heard.awaiting.target = env.from /\ heard.awaiting.seq = env.seq
                       THEN [heard EXCEPT !.awaiting = NoPing] ELSE heard,
              out |-> {}]

-----------------------------------------------------------------------------
(* run_engine on every node, the network, crashes                          *)

\* A message to or from n is under way.
Pending(n) == \E e \in net : n \in {e.to, e.from}

Init ==
    /\ core = [n \in Node |-> New(n)]
    /\ net = {}
    /\ asked = {}
    /\ up = Node
    /\ faults = 0 /\ crashes = 0 /\ restarts = 0
    /\ peak = [n \in Node |-> 0]

\* send_envelope: a process that is down refuses the connection.
Sent(r) == {e \in r.out : e.to \in up}

Run(n, r) ==
    /\ core' = [core EXCEPT ![n] = r.core]
    /\ peak' = [peak EXCEPT ![n] = Max({@, r.core.incarnation})]

\* EngineMsg::Inbound, decoded by handle_connection
Receive(n) ==
    \E e \in net :
        /\ e.to = n /\ n \in up
        /\ \E h \in {hear(core[n], e)} : \E r \in {reply(h, e)} :
            Run(n, r) /\ net' = (net \ {e}) \cup Sent(r)
        /\ UNCHANGED <<asked, up, faults, crashes, restarts>>

\* RecvTimeoutError::Timeout: nothing was in the channel for a whole period
Tick(n) ==
    /\ n \in up /\ n \notin asked
    /\ \/ ~Pending(n) /\ UNCHANGED faults
       \/ Pending(n) /\ faults < MaxFaults /\ faults' = faults + 1
    /\ \E order \in SetToSeqs(Expired(core[n])) :
        \E c \in {age_suspicions(core[n], order)} : \E d \in {age_ping(c)} :
            \E r \in {ping_if_due(d)} : Run(n, r) /\ net' = net \cup Sent(r)
    /\ UNCHANGED <<asked, up, crashes, restarts>>

\* EngineMsg::StatusOf: answered from the core, and the wait starts again.
AskStatus(n) ==
    /\ n \in Polled \cap up /\ n \notin asked
    /\ asked' = asked \cup {n}
    /\ UNCHANGED <<core, net, up, faults, crashes, restarts, peak>>

StatusOf(n) ==
    /\ n \in asked /\ n \in up
    /\ asked' = asked \ {n}
    /\ UNCHANGED <<core, net, up, faults, crashes, restarts, peak>>

\* send_envelope between running processes failed.
Lose ==
    \E e \in net :
        /\ faults < MaxFaults
        /\ faults' = faults + 1
        /\ net' = net \ {e}
        /\ UNCHANGED <<core, asked, up, crashes, restarts, peak>>

Crash(n) ==
    /\ n \in up /\ crashes < MaxCrashes
    /\ up' = up \ {n} /\ asked' = asked \ {n}
    /\ net' = {e \in net : e.to # n}
    /\ crashes' = crashes + 1
    /\ UNCHANGED <<core, faults, restarts, peak>>

\* spawn: nothing of the old process is kept, the incarnation is 0 again.
Restart(n) ==
    /\ n \notin up /\ restarts < MaxRestarts
    /\ up' = up \cup {n} /\ core' = [core EXCEPT ![n] = New(n)]
    /\ restarts' = restarts + 1
    /\ UNCHANGED <<net, asked, faults, crashes, peak>>

Next ==
    \/ \E n \in Node : \/ Receive(n) \/ Tick(n) \/ AskStatus(n) \/ StatusOf(n)
                       \/ Crash(n) \/ Restart(n)
    \/ Lose

Spec == Init /\ [][Next]_vars

\* A running engine thread goes on: it takes what is in its channel, and it
\* ticks when nothing arrives.
Fairness ==
    \A n \in Node : WF_vars(Receive(n)) /\ WF_vars(StatusOf(n)) /\ WF_vars(Tick(n))

FairSpec == Spec /\ Fairness

-----------------------------------------------------------------------------
(* Properties                                                              *)

GossipItem == [member : Node, status : Status, incarnation : Nat]

Envelope ==
    [type : {"Ping", "Ack"}, from : Node, to : Node, seq : 0..SeqModulus - 1,
     incarnation : Nat, gossip : Seq(GossipItem)]

Core ==
    [id : Node, incarnation : Nat,
     members : [Node -> [status : Status, incarnation : Nat]],
     idx : Nat \ {0}, seq : 0..SeqModulus - 1, period : 0..ProtocolPeriod + PingTimeout,
     awaiting : [target : Node \cup {0}, seq : 0..SeqModulus - 1, ticks : Int],
     elapsed : [Node -> NoTimer..SuspicionTimeout - 1],
     queue : Seq([item : GossipItem, sends : 1..RetransmitCount])]

\* The types of SwimCore's fields; a queued item always has a send left, so
\* the subtraction in take_gossip never wraps.
TypeOK ==
    /\ core \in [Node -> Core]
    /\ net \subseteq Envelope
    /\ asked \subseteq Node /\ up \subseteq Node
    /\ faults \in 0..MaxFaults /\ crashes \in 0..MaxCrashes /\ restarts \in 0..MaxRestarts
    /\ peak \in [Node -> Nat]

Belief(n, m) == core[n].members[m]

\* suspect_elapsed and members are kept apart and must agree: a suspicion
\* whose timer is gone would never end, and a timer without one would run
\* against the next suspicion (gossip.rs, merge and tick).
SuspicionsAreTimed ==
    \A n, m \in Node : Belief(n, m).status = Suspect <=> core[n].elapsed[m] # NoTimer

Facts ==
    {Item(m, Belief(n, m).status, Belief(n, m).incarnation) : n \in up, m \in Node}
    \cup (UNION {{g.item : g \in ToSet(core[n].queue)} : n \in up})
    \cup (UNION {ToSet(e.gossip) : e \in net})

\* Only a member raises its own incarnation: whatever is believed, queued or
\* under way about it, no incarnation is one it never took (merge,
\* maybe_refute_self).  Otherwise a stray fact could not be refuted.
IncarnationsAreOwned == \A f \in Facts : f.incarnation <= peak[f.member]

\* What a running node believes of another only moves up: to a higher
\* incarnation, or to a worse status of the same one, and death is final.
\* So nothing but the suspect's own refutation clears a suspicion (module
\* doc of gossip.rs).
BeliefsOnlyGrow ==
    [][\A n \in up, m \in Node :
        (n \in up' /\ Belief(n, m) # Belief(n, m)') =>
            /\ Belief(n, m).status # Dead
            /\ \/ Belief(n, m)'.incarnation > Belief(n, m).incarnation
               \/ /\ Belief(n, m)'.incarnation = Belief(n, m).incarnation
                  /\ Belief(n, m)'.status > Belief(n, m).status]_vars

\* The suspicion window is long enough: with as many faults as the instance
\* allows, a process that never stopped is not declared dead by anyone that
\* runs.  It has to hear of the suspicion, refute it and be heard in time.
NoFalseDeath ==
    restarts = 0 => \A n, m \in up : Belief(n, m).status # Dead

\* Real failures are caught (module doc of gossip.rs): every process that
\* stays up comes to hold one that stays down for dead.
Detection ==
    \A n, m \in Node :
        <>[](n \in up /\ m \notin up) => <>(n \in up /\ Belief(n, m).status = Dead)
=============================================================================
