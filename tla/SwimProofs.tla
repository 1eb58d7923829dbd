----------------------------- MODULE SwimProofs -----------------------------
(***************************************************************************)
(* Proofs about Swim, for any group, any ping order and any parameters:    *)
(* the types of SwimCore's fields, suspicions and their timers agree, no   *)
(* incarnation is one its owner never took, and beliefs only grow.         *)
(***************************************************************************)
EXTENDS Swim, DataInduction, SequenceTheorems, FiniteSetTheorems

-----------------------------------------------------------------------------
(* The inductive invariant: what holds of every core and envelope.  The    *)
(* parameter p is the highest incarnation each node ever took.             *)

\* A core holds itself for alive, at its own incarnation.
SelfAlive(c) == c.members[c.id] = [status |-> Alive, incarnation |-> c.incarnation]

Timed(c) == \A m \in Node : c.members[m].status = Suspect <=> c.elapsed[m] # NoTimer

\* What is known of others was once true; what is queued about oneself may be
\* of the incarnation just taken.
OwnedItem(item, c, p) ==
    IF item.member = c.id
    THEN item.incarnation <= p[c.id] \/ item.incarnation <= c.incarnation
    ELSE item.incarnation <= p[item.member]

Owned(c, p) ==
    /\ \A m \in Node : m # c.id => c.members[m].incarnation <= p[m]
    /\ \A k \in 1..Len(c.queue) : OwnedItem(c.queue[k].item, c, p)

Sound(c, p) == SelfAlive(c) /\ Timed(c) /\ Owned(c, p)

\* A ping is out for as many ticks as the period has run, at the least.
Waiting(c) ==
    \/ c.awaiting = NoPing
    \/ /\ c.awaiting.target \in Node /\ c.awaiting.ticks \in 0..PingTimeout - 1
       /\ c.period <= c.awaiting.ticks

CoresSound ==
    \A n \in Node :
       /\ core[n].id = n /\ Sound(core[n], peak) /\ Waiting(core[n])
       /\ core[n].incarnation <= peak[n]

MailSound ==
    \A e \in net :
       /\ e.incarnation <= peak[e.from]
       /\ \A k \in 1..Len(e.gossip) : e.gossip[k].incarnation <= peak[e.gossip[k].member]

IInv == TypeOK /\ CoresSound /\ MailSound

-----------------------------------------------------------------------------
(* SwimCore's operators.                                                   *)

Queued == [item : GossipItem, sends : 1..RetransmitCount]

\* Whatever all the places kept are in, the rest of the queue is a sequence
\* of.
LEMMA RetainedIn ==
    ASSUME NEW T, NEW q, Len(q) \in Nat, NEW P,
           \A k \in 1..Len(q) : k \in P => q[k] \in T
    PROVE  Retained(q, P) \in Seq(T)
  <1> DEFINE n == Len(q)
             S == Seq(T)
             Step(s, k) == IF k \in P THEN Append(s, q[k]) ELSE s
             Body(f) == [k \in 0..n |-> IF k = 0 THEN <<>>
                                        ELSE IF k \in P THEN Append(f[k - 1], q[k])
                                        ELSE f[k - 1]]
             F == [x \in S \X (1..n) |-> Step(x[1], x[2])]
             kept == CHOOSE f : f = Body(f)
  <1>1. \A s \in S : \A k \in 1..n : Step(s, k) \in S
    OBVIOUS
  <1>2. <<>> \in S /\ n \in Nat
    OBVIOUS
  <1> HIDE DEF S
  <1>3. F \in [S \X (1..n) -> S]
    BY <1>1
  <1>4. PICK g : /\ g = [k \in 0..n |-> IF k = 0 THEN <<>> ELSE F[<<g[k - 1], k>>]]
                 /\ \A k \in 0..n : g[k] \in S
    <2> HIDE DEF F, n
    <2>1. \E g : Iteration(g, S, <<>>, n, F)
      BY <1>2, <1>3, Fixpoint
    <2> QED BY <2>1 DEF Iteration
  <1>5. g = Body(g)
    <2>1. ASSUME NEW k \in 0..n, k # 0
          PROVE  F[<<g[k - 1], k>>] = Step(g[k - 1], k)
      <3>1. k \in 1..n /\ k - 1 \in 0..n
        BY <1>2, <2>1
      <3>2. g[k - 1] \in S
        BY <1>4, <3>1
      <3> QED BY <3>1, <3>2
    <2> HIDE DEF F
    <2> QED BY <1>4, <2>1
  <1>6. kept = Body(kept)
    <2> HIDE DEF Body
    <2> QED BY <1>5
  <1>7. kept[0] = <<>> /\ \A k \in 1..n : kept[k] = Step(kept[k - 1], k)
    <2> HIDE DEF kept
    <2>1. \A k \in 0..n : kept[k] = IF k = 0 THEN <<>>
                                    ELSE IF k \in P THEN Append(kept[k - 1], q[k])
                                    ELSE kept[k - 1]
      BY <1>6
    <2> QED BY <1>2, <2>1
  <1>8. \A k \in 0..n : kept[k] \in S
    <2>1. kept[0] \in S /\ \A k \in 1..n : kept[k - 1] \in S => kept[k] \in S
      <3> HIDE DEF kept, Step, n
      <3> QED BY <1>1, <1>2, <1>7
    <2> HIDE DEF kept, n
    <2> QED BY <1>2, <2>1, StaysIn
  <1>9. Retained(q, P) = kept[n]
    BY DEF Retained
  <1> QED BY <1>2, <1>8, <1>9 DEF S

\* The constants, one by one.
LEMMA Parameters ==
    /\ ProtocolPeriod \in Nat \ {0} /\ PingTimeout \in Nat \ {0}
    /\ SuspicionTimeout \in Nat \ {0} /\ RetransmitCount \in Nat \ {0}
    /\ MaxGossip \in Nat \ {0} /\ SeqModulus \in Nat \ {0}
    /\ MaxFaults \in Nat /\ MaxCrashes \in Nat /\ MaxRestarts \in Nat
    /\ NoTimer = -1 /\ NoTimer..SuspicionTimeout - 1 = {-1} \cup 0..SuspicionTimeout - 1
  BY SwimAssumption DEF NoTimer

\* Two cores that differ at most in what they have to tell.
SameView(c, d) ==
    /\ d.id = c.id /\ d.incarnation = c.incarnation /\ d.members = c.members
    /\ d.elapsed = c.elapsed /\ d.awaiting = c.awaiting /\ d.period = c.period

LEMMA QueueItems ==
    ASSUME NEW c \in Core
    PROVE  /\ c.queue \in Seq(Queued) /\ Len(c.queue) \in Nat
           /\ \A k \in 1..Len(c.queue) :
                 /\ c.queue[k] \in Queued /\ c.queue[k].item \in GossipItem
                 /\ c.queue[k].item.member \in Node /\ c.queue[k].item.incarnation \in Nat
  <1>1. c.queue \in Seq(Queued)
    BY DEF Core, Queued
  <1>2. Len(c.queue) \in Nat /\ \A k \in 1..Len(c.queue) : c.queue[k] \in Queued
    BY <1>1
  <1>3. \A g \in Queued : g.item \in GossipItem
    BY DEF Queued
  <1>4. \A g \in GossipItem : g.member \in Node /\ g.incarnation \in Nat
    BY DEF GossipItem
  <1> QED BY <1>1, <1>2, <1>3, <1>4

LEMMA NewQueue ==
    ASSUME NEW c \in Core, NEW q \in Seq(Queued)
    PROVE  /\ [c EXCEPT !.queue = q] \in Core
           /\ SameView(c, [c EXCEPT !.queue = q])
           /\ [c EXCEPT !.queue = q].queue = q
  BY DEF Core, Queued, SameView

\* A fact queued is one more fact to send.
LEMMA PushKeeps ==
    ASSUME NEW c \in Core, NEW item \in GossipItem, NEW p,
           OwnedItem(item, c, p), Owned(c, p)
    PROVE  /\ queue_gossip(c, item) \in Core
           /\ SameView(c, queue_gossip(c, item))
           /\ Owned(queue_gossip(c, item), p)
  <1> DEFINE others == {k \in 1..Len(c.queue) : c.queue[k].item.member # item.member}
             last == [item |-> item, sends |-> RetransmitCount]
             T == {g \in Queued : OwnedItem(g.item, c, p)}
             q == Append(Retained(c.queue, others), last)
             d == queue_gossip(c, item)
  <1>1. c.queue \in Seq(Queued) /\ Len(c.queue) \in Nat
    BY DEF Core, Queued
  <1>2. \A k \in 1..Len(c.queue) : k \in others => c.queue[k] \in T
    BY <1>1 DEF Owned
  <1>3. last \in Queued /\ last.item = item
    BY Parameters DEF Queued
  <1>4. last \in T
    BY <1>3
  <1>5. Retained(c.queue, others) \in Seq(T)
    <2> HIDE DEF T, others
    <2> QED BY <1>1, <1>2, RetainedIn
  <1>6. q \in Seq(T) /\ Len(q) \in Nat /\ \A k \in 1..Len(q) : q[k] \in T
    <2> HIDE DEF T, last, others
    <2> QED BY <1>4, <1>5
  <1>7. q \in Seq(Queued)
    <2>1. T \subseteq Queued
      OBVIOUS
    <2> HIDE DEF T, q
    <2> QED BY <1>6, <2>1
  <1>8. d = [c EXCEPT !.queue = q]
    BY DEF queue_gossip
  <1> HIDE DEF q, others, last, d
  <1>9. d \in Core /\ SameView(c, d) /\ d.queue = q
    BY <1>7, <1>8, NewQueue
  <1>10. \A k \in 1..Len(q) : OwnedItem(q[k].item, c, p)
    BY <1>6
  <1>11. Owned(d, p)
    BY <1>9, <1>10 DEF Owned, OwnedItem, SameView
  <1> QED BY <1>9, <1>11 DEF d

-----------------------------------------------------------------------------
(* Merging a fact.                                                         *)

\* A belief that moves, moves up: a higher incarnation or a worse status.
Rises(a, b) ==
    \/ a = b
    \/ /\ a.status # Dead
       /\ \/ b.incarnation > a.incarnation
          \/ b.incarnation = a.incarnation /\ b.status > a.status

Belief_ == [status : Status, incarnation : Nat]

LEMMA RisesOn ==
    ASSUME NEW a \in Belief_, NEW b \in Belief_, NEW c \in Belief_, Rises(a, b), Rises(b, c)
    PROVE  Rises(a, c)
  BY DEF Rises, Belief_, Status, Alive, Suspect, Dead

\* What a step may do to a core: beliefs rise, and the incarnation.
Advanced(c, d) ==
    /\ d \in Core /\ d.id = c.id
    /\ d.incarnation >= c.incarnation
    /\ \A m \in Node : Rises(c.members[m], d.members[m])

LEMMA AdvancedOn ==
    ASSUME NEW a \in Core, NEW b \in Core, NEW c \in Core, Advanced(a, b), Advanced(b, c)
    PROVE  Advanced(a, c)
  <1>1. ASSUME NEW m \in Node PROVE Rises(a.members[m], c.members[m])
    <2>1. a.members[m] \in Belief_ /\ b.members[m] \in Belief_ /\ c.members[m] \in Belief_
      BY DEF Core, Belief_
    <2>2. Rises(a.members[m], b.members[m]) /\ Rises(b.members[m], c.members[m])
      BY DEF Advanced
    <2> QED BY <2>1, <2>2, RisesOn
  <1>2. a.incarnation \in Nat /\ b.incarnation \in Nat /\ c.incarnation \in Nat
    BY DEF Core
  <1> QED BY <1>1, <1>2 DEF Advanced

\* ... without touching the ping that is out.
Grown(c, d) ==
    Advanced(c, d) /\ d.awaiting = c.awaiting /\ d.period = c.period

LEMMA GrownOn ==
    ASSUME NEW a \in Core, NEW b \in Core, NEW c \in Core, Grown(a, b), Grown(b, c)
    PROVE  Grown(a, c)
  BY AdvancedOn DEF Grown

LEMMA GrownSelf ==
    ASSUME NEW c \in Core
    PROVE  Grown(c, c)
  <1>1. c.incarnation \in Nat
    BY DEF Core
  <1> QED BY <1>1 DEF Grown, Advanced, Rises

LEMMA RefuteKeeps ==
    ASSUME NEW c \in Core, NEW p \in [Node -> Nat], Sound(c, p),
           NEW item \in GossipItem, item.member = c.id
    PROVE  Sound(maybe_refute_self(c, item), p) /\ Grown(c, maybe_refute_self(c, item))
  <1> DEFINE i == item.incarnation + 1
             b == [status |-> Alive, incarnation |-> i]
             e == [c EXCEPT !.incarnation = i, !.members[c.id] = b]
             new == Item(c.id, Alive, i)
             d == queue_gossip(e, new)
  <1>1. CASE item.status = Alive \/ item.incarnation < c.incarnation
    BY <1>1, GrownSelf DEF maybe_refute_self
  <1>2. CASE ~(item.status = Alive \/ item.incarnation < c.incarnation)
    <2>1. /\ i \in Nat /\ c.id \in Node /\ c.incarnation \in Nat /\ i > c.incarnation
          /\ c.members \in [Node -> Belief_] /\ b \in Belief_
      BY <1>2 DEF Core, GossipItem, Belief_, Status, Alive
    <2>2. /\ e \in Core /\ e.id = c.id /\ e.incarnation = i
          /\ e.members = [c.members EXCEPT ![c.id] = b]
          /\ e.elapsed = c.elapsed /\ e.awaiting = c.awaiting /\ e.period = c.period
          /\ e.queue = c.queue
      <3> HIDE DEF i, b
      <3> QED BY <2>1 DEF Core, Belief_
    <2>3. new \in GossipItem /\ new.member = c.id /\ new.incarnation = i
      BY <2>1 DEF GossipItem, Item, Status, Alive
    <2>4. /\ e.members[c.id] = b /\ c.members[c.id].status = Alive
          /\ \A m \in Node : m # c.id => e.members[m] = c.members[m]
      <3> HIDE DEF e, b
      <3> QED BY <2>1, <2>2 DEF Sound, SelfAlive
    <2> HIDE DEF e, new
    <2>5. SelfAlive(e)
      BY <2>2, <2>4 DEF SelfAlive
    <2>6. Timed(e)
      <3> SUFFICES ASSUME NEW m \in Node
                   PROVE  e.members[m].status = Suspect <=> c.elapsed[m] # NoTimer
        BY <2>2 DEF Timed
      <3>1. c.members[m].status = Suspect <=> c.elapsed[m] # NoTimer
        BY DEF Sound, Timed
      <3>2. e.members[m].status = c.members[m].status
        BY <2>4
      <3> QED BY <3>1, <3>2
    <2>7. Owned(e, p)
      <3>1. \A k \in 1..Len(c.queue) : OwnedItem(c.queue[k].item, e, p)
        <4> TAKE k \in 1..Len(c.queue)
        <4>2. c.queue[k].item.incarnation \in Nat /\ p[c.id] \in Nat
          BY <2>1, QueueItems
        <4> QED BY <2>1, <2>2, <4>2 DEF Sound, Owned, OwnedItem
      <3> QED BY <2>2, <2>4, <3>1 DEF Sound, Owned
    <2>8. OwnedItem(new, e, p)
      BY <2>1, <2>2, <2>3 DEF OwnedItem
    <2>9. d \in Core /\ SameView(e, d) /\ Owned(d, p)
      BY <2>2, <2>3, <2>7, <2>8, PushKeeps
    <2>10. maybe_refute_self(c, item) = d
      BY <1>2 DEF maybe_refute_self, e, new
    <2> HIDE DEF d
    <2>11. Sound(d, p)
      BY <2>5, <2>6, <2>9 DEF Sound, SelfAlive, Timed, SameView
    <2>12. \A m \in Node : Rises(c.members[m], e.members[m])
      <3> TAKE m \in Node
      <3>1. CASE m = c.id
        <4>1. c.members[c.id].incarnation = c.incarnation
          BY DEF Sound, SelfAlive
        <4> QED BY <2>1, <2>4, <3>1, <4>1 DEF Rises, Alive, Dead
      <3>2. CASE m # c.id
        BY <2>4, <3>2 DEF Rises
      <3> QED BY <3>1, <3>2
    <2>13. Grown(c, d)
      BY <2>1, <2>2, <2>9, <2>12 DEF Grown, Advanced, SameView
    <2> QED BY <2>10, <2>11, <2>13
  <1> QED BY <1>1, <1>2

\* A fact about another node, once true, does no harm; one about oneself
\* whatever it says.
LEMMA MergeKeeps ==
    ASSUME NEW c \in Core, NEW p \in [Node -> Nat], Sound(c, p),
           NEW item \in GossipItem,
           item.member # c.id => item.incarnation <= p[item.member]
    PROVE  Sound(merge(c, item), p) /\ Grown(c, merge(c, item))
  <1> DEFINE m == item.member
             b == [status |-> item.status, incarnation |-> item.incarnation]
             t == IF item.status = Suspect THEN 0 ELSE NoTimer
             e == [c EXCEPT !.members[m] = b, !.elapsed[m] = t]
             d == queue_gossip(e, item)
  <1>1. CASE item.member = c.id
    BY <1>1, RefuteKeeps DEF merge
  <1>2. CASE item.member # c.id /\ ~Supersedes(item, c.members[item.member])
    BY <1>2, GrownSelf DEF merge
  <1>3. CASE item.member # c.id /\ Supersedes(item, c.members[item.member])
    <2>1. /\ m \in Node /\ b \in Belief_ /\ item.incarnation \in Nat /\ item.status \in Status
          /\ c.members \in [Node -> Belief_] /\ c.id \in Node /\ c.incarnation \in Nat
          /\ c.elapsed \in [Node -> NoTimer..SuspicionTimeout - 1]
      BY DEF Core, GossipItem, Belief_
    <2>2. t \in NoTimer..SuspicionTimeout - 1 /\ (t # NoTimer <=> item.status = Suspect)
      BY Parameters
    <2>3. /\ e \in Core /\ e.id = c.id /\ e.incarnation = c.incarnation
          /\ e.members = [c.members EXCEPT ![m] = b]
          /\ e.elapsed = [c.elapsed EXCEPT ![m] = t]
          /\ e.awaiting = c.awaiting /\ e.period = c.period /\ e.queue = c.queue
      <3> HIDE DEF b, t, m
      <3> QED BY <2>1, <2>2 DEF Core, Belief_
    <2>4. /\ e.members[m] = b /\ e.elapsed[m] = t
          /\ \A x \in Node : x # m => e.members[x] = c.members[x] /\ e.elapsed[x] = c.elapsed[x]
      <3> HIDE DEF e, b, t, m
      <3> QED BY <2>1, <2>3
    <2>5. b.status = item.status /\ b.incarnation = item.incarnation
      OBVIOUS
    <2> HIDE DEF e, b, t
    <2>6. SelfAlive(e)
      BY <1>3, <2>1, <2>3, <2>4 DEF Sound, SelfAlive
    <2>7. Timed(e)
      <3> SUFFICES ASSUME NEW x \in Node
                   PROVE  e.members[x].status = Suspect <=> e.elapsed[x] # NoTimer
        BY DEF Timed
      <3>1. CASE x = m
        BY <2>2, <2>4, <2>5, <3>1
      <3>2. CASE x # m
        BY <2>4, <3>2 DEF Sound, Timed
      <3> QED BY <3>1, <3>2
    <2>8. Owned(e, p)
      <3>1. \A k \in 1..Len(c.queue) : OwnedItem(c.queue[k].item, e, p)
        BY <2>3 DEF Sound, Owned, OwnedItem
      <3>2. \A x \in Node : x # c.id => e.members[x].incarnation <= p[x]
        <4> TAKE x \in Node
        <4>1. CASE x = m BY <1>3, <2>4, <2>5, <4>1
        <4>2. CASE x # m BY <2>4, <4>2 DEF Sound, Owned
        <4> QED BY <4>1, <4>2
      <3> QED BY <2>3, <3>1, <3>2 DEF Owned
    <2>9. OwnedItem(item, e, p)
      BY <1>3, <2>3 DEF OwnedItem
    <2>10. d \in Core /\ SameView(e, d) /\ Owned(d, p)
      BY <2>3, <2>8, <2>9, PushKeeps
    <2>11. merge(c, item) = d
      BY <1>3 DEF merge, e, b, t
    <2> HIDE DEF d
    <2>12. Sound(d, p)
      BY <2>6, <2>7, <2>10 DEF Sound, SelfAlive, Timed, SameView
    <2>13. \A x \in Node : Rises(c.members[x], e.members[x])
      <3> TAKE x \in Node
      <3>1. CASE x = m
        BY <1>3, <2>4, <2>5, <3>1 DEF Rises, Supersedes
      <3>2. CASE x # m
        BY <2>4, <3>2 DEF Rises
      <3> QED BY <3>1, <3>2
    <2>14. Grown(c, d)
      BY <2>1, <2>3, <2>10, <2>13 DEF Grown, Advanced, SameView
    <2> QED BY <2>11, <2>12, <2>14
  <1> QED BY <1>1, <1>2, <1>3

\* The whole of a message's gossip: hear.
LEMMA HearKeeps ==
    ASSUME NEW c \in Core, NEW p \in [Node -> Nat], Sound(c, p),
           NEW env \in Envelope, env.incarnation <= p[env.from],
           \A k \in 1..Len(env.gossip) : env.gossip[k].incarnation <= p[env.gossip[k].member]
    PROVE  Sound(hear(c, env), p) /\ Grown(c, hear(c, env))
  <1> DEFINE n == Len(env.gossip)
             S == {d \in Core : Sound(d, p) /\ Grown(c, d)}
             first == merge(c, Item(env.from, Alive, env.incarnation))
             Body(f) == [k \in 0..n |-> IF k = 0 THEN merge(c, Item(env.from, Alive, env.incarnation))
                                        ELSE merge(f[k - 1], env.gossip[k])]
             F == [x \in S \X (1..n) |-> merge(x[1], env.gossip[x[2]])]
             heard == CHOOSE f : f = Body(f)
  <1>1. /\ env.gossip \in Seq(GossipItem) /\ n \in Nat
        /\ env.from \in Node /\ env.incarnation \in Nat
    BY DEF Envelope
  <1>2. \A k \in 1..n : env.gossip[k] \in GossipItem
    BY <1>1
  <1>3. first \in S
    <2> DEFINE item == Item(env.from, Alive, env.incarnation)
    <2>1. item \in GossipItem /\ item.incarnation <= p[item.member]
      BY <1>1 DEF Item, GossipItem, Status, Alive
    <2> HIDE DEF item
    <2>2. Sound(merge(c, item), p) /\ Grown(c, merge(c, item))
      BY <2>1, MergeKeeps
    <2> QED BY <2>2 DEF item, Grown, Advanced
  <1>4. \A d \in S : \A k \in 1..n : merge(d, env.gossip[k]) \in S
    <2> TAKE d \in S
    <2> TAKE k \in 1..n
    <2>1. d \in Core /\ Sound(d, p) /\ Grown(c, d)
      OBVIOUS
    <2>2. Sound(merge(d, env.gossip[k]), p) /\ Grown(d, merge(d, env.gossip[k]))
      BY <1>2, <2>1, MergeKeeps
    <2>3. merge(d, env.gossip[k]) \in Core
      BY <2>2 DEF Grown, Advanced
    <2>4. Grown(c, merge(d, env.gossip[k]))
      BY <2>1, <2>2, <2>3, GrownOn
    <2> QED BY <2>2, <2>3, <2>4
  <1> HIDE DEF S
  <1>5. F \in [S \X (1..n) -> S]
    BY <1>4
  <1>6. PICK g : /\ g = [k \in 0..n |-> IF k = 0 THEN first ELSE F[<<g[k - 1], k>>]]
                 /\ \A k \in 0..n : g[k] \in S
    <2> HIDE DEF F, n, first
    <2>1. \E g : Iteration(g, S, first, n, F)
      BY <1>1, <1>3, <1>5, Fixpoint
    <2> QED BY <2>1 DEF Iteration
  <1>7. g = Body(g)
    <2>1. ASSUME NEW k \in 0..n, k # 0
          PROVE  F[<<g[k - 1], k>>] = merge(g[k - 1], env.gossip[k])
      <3>1. k \in 1..n /\ k - 1 \in 0..n
        BY <1>1, <2>1
      <3>2. g[k - 1] \in S
        BY <1>6, <3>1
      <3> QED BY <3>1, <3>2
    <2> HIDE DEF F
    <2> QED BY <1>6, <2>1
  <1>8. heard = Body(heard)
    <2> HIDE DEF Body
    <2> QED BY <1>7
  <1>9. heard[0] = first /\ \A k \in 1..n : heard[k] = merge(heard[k - 1], env.gossip[k])
    <2> HIDE DEF heard
    <2>1. \A k \in 0..n : heard[k] = IF k = 0 THEN first ELSE merge(heard[k - 1], env.gossip[k])
      BY <1>8
    <2> HIDE DEF first
    <2> QED BY <1>1, <2>1
  <1>10. \A k \in 0..n : heard[k] \in S
    <2>1. heard[0] \in S /\ \A k \in 1..n : heard[k - 1] \in S => heard[k] \in S
      <3> HIDE DEF heard, first, n
      <3> QED BY <1>3, <1>4, <1>9
    <2> HIDE DEF heard, n
    <2> QED BY <1>1, <2>1, StaysIn
  <1>11. hear(c, env) = heard[n]
    BY DEF hear
  <1>12. hear(c, env) \in S
    <2> HIDE DEF heard, n
    <2> QED BY <1>1, <1>10, <1>11
  <1> QED BY <1>12 DEF S

-----------------------------------------------------------------------------
(* Ageing suspicions.                                                      *)

\* The order in which a map is walked names each key once.
LEMMA OrderCovers ==
    ASSUME NEW E, E \subseteq Node, NEW order \in SetToSeqs(E)
    PROVE  /\ order \in Seq(E) /\ Len(order) \in Nat
           /\ \A k \in 1..Len(order) : order[k] \in E
           /\ \A j, k \in 1..Len(order) : j # k => order[j] # order[k]
           /\ \A m \in E : \E k \in 1..Len(order) : order[k] = m
  <1> DEFINE n == Cardinality(E)
  <1>1. IsFiniteSet(E)
    BY SwimAssumption, FS_Subset
  <1>2. n \in Nat
    BY <1>1, FS_CardinalityType
  <1>3. order \in [1..n -> E] /\ \A j, k \in 1..n : j # k => order[j] # order[k]
    BY DEF SetToSeqs
  <1>4. Cardinality(1..n) = n
    BY <1>2, FS_Interval
  <1> HIDE DEF n
  <1>5. order \in Injection(1..n, E)
    BY <1>3 DEF Injection, IsInjective
  <1>6. order \in Surjection(1..n, E)
    BY <1>1, <1>4, <1>5, FS_Injection DEF n
  <1>7. \A m \in E : \E k \in 1..n : order[k] = m
    BY <1>6 DEF Surjection
  <1>8. order \in Seq(E) /\ Len(order) = n
    BY <1>2, <1>3
  <1> QED BY <1>2, <1>3, <1>7, <1>8

\* Declaring one node dead, whose timer has already been taken away.
LEMMA DeclareKeeps ==
    ASSUME NEW c \in Core, NEW p \in [Node -> Nat], SelfAlive(c), Owned(c, p), NEW m \in Node
    PROVE  /\ Grown(c, Declare(c, m))
           /\ SelfAlive(Declare(c, m)) /\ Owned(Declare(c, m), p)
           /\ Declare(c, m).elapsed = c.elapsed
           /\ Declare(c, m).members[m].status # Suspect
           /\ \A x \in Node : x # m => Declare(c, m).members[x] = c.members[x]
  <1> DEFINE i == c.members[m].incarnation
             b == [status |-> Dead, incarnation |-> i]
             e == [c EXCEPT !.members[m].status = Dead]
             item == Item(m, Dead, i)
             d == queue_gossip(e, item)
  <1>1. CASE c.members[m].status # Suspect
    BY <1>1, GrownSelf DEF Declare
  <1>2. CASE c.members[m].status = Suspect
    <2>1. /\ c.members \in [Node -> Belief_] /\ c.members[m] \in Belief_ /\ i \in Nat
          /\ c.id \in Node /\ c.incarnation \in Nat /\ b \in Belief_
      BY DEF Core, Belief_, Status, Dead
    <2>2. m # c.id
      BY <1>2 DEF SelfAlive, Alive, Suspect
    <2>3. e = [c EXCEPT !.members[m] = b]
      <3>1. b = [c.members[m] EXCEPT !.status = Dead]
        BY <2>1 DEF Belief_
      <3>2. e = [c EXCEPT !.members[m] = [c.members[m] EXCEPT !.status = Dead]]
        OBVIOUS
      <3> HIDE DEF b, e
      <3> QED BY <3>1, <3>2
    <2>4. /\ e \in Core /\ e.id = c.id /\ e.incarnation = c.incarnation
          /\ e.members = [c.members EXCEPT ![m] = b]
          /\ e.elapsed = c.elapsed /\ e.awaiting = c.awaiting /\ e.period = c.period
          /\ e.queue = c.queue
      <3> HIDE DEF b, e, i
      <3> QED BY <2>1, <2>3 DEF Core, Belief_
    <2>5. e.members[m] = b /\ \A x \in Node : x # m => e.members[x] = c.members[x]
      <3> HIDE DEF b, e, i
      <3> QED BY <2>1, <2>4
    <2>6. item \in GossipItem /\ item.member = m /\ item.incarnation = i
      BY <2>1 DEF GossipItem, Item, Status, Dead
    <2>7. b.status = Dead /\ b.incarnation = i
      OBVIOUS
    <2> HIDE DEF b, e, item
    <2>8. i <= p[m]
      BY <2>2 DEF Owned
    <2>9. OwnedItem(item, e, p)
      BY <2>2, <2>4, <2>6, <2>8 DEF OwnedItem
    <2>10. Owned(e, p)
      <3>1. \A k \in 1..Len(c.queue) : OwnedItem(c.queue[k].item, e, p)
        BY <2>4 DEF Owned, OwnedItem
      <3>2. \A x \in Node : x # c.id => e.members[x].incarnation <= p[x]
        BY <2>5, <2>7, <2>8 DEF Owned
      <3> QED BY <2>4, <3>1, <3>2 DEF Owned
    <2>11. d \in Core /\ SameView(e, d) /\ Owned(d, p)
      BY <2>4, <2>6, <2>9, <2>10, PushKeeps
    <2>12. Declare(c, m) = d
      BY <1>2 DEF Declare, e, item
    <2> HIDE DEF d
    <2>13. SelfAlive(d)
      BY <2>1, <2>2, <2>4, <2>5, <2>11 DEF SelfAlive, SameView
    <2>14. \A x \in Node : Rises(c.members[x], d.members[x])
      <3> TAKE x \in Node
      <3>1. CASE x = m
        BY <1>2, <2>1, <2>5, <2>7, <2>11, <3>1 DEF Rises, SameView, Suspect, Dead
      <3>2. CASE x # m
        BY <2>5, <2>11, <3>2 DEF Rises, SameView
      <3> QED BY <3>1, <3>2
    <2>15. Grown(c, d)
      BY <2>1, <2>4, <2>11, <2>14 DEF Grown, Advanced, SameView
    <2>16. d.members[m].status # Suspect
      BY <2>5, <2>7, <2>11 DEF SameView, Suspect, Dead
    <2>17. \A x \in Node : x # m => d.members[x] = c.members[x]
      BY <2>5, <2>11 DEF SameView
    <2>18. d.elapsed = c.elapsed
      BY <2>4, <2>11 DEF SameView
    <2> QED BY <2>11, <2>12, <2>13, <2>15, <2>16, <2>17, <2>18
  <1> QED BY <1>1, <1>2

\* The timers after a tick.
LEMMA AgedTimers ==
    ASSUME NEW c \in Core, NEW p, SelfAlive(c), Owned(c, p)
    PROVE  /\ Aged(c) \in Core /\ Grown(c, Aged(c))
           /\ SelfAlive(Aged(c)) /\ Owned(Aged(c), p)
           /\ Aged(c).members = c.members
           /\ \A m \in Node : Aged(c).elapsed[m] # NoTimer
                               <=> c.elapsed[m] # NoTimer /\ m \notin Expired(c)
  <1> DEFINE t == [m \in Node |-> IF c.elapsed[m] = NoTimer \/ m \in Expired(c)
                                   THEN NoTimer ELSE c.elapsed[m] + 1]
             a == Aged(c)
  <1>1. \A m \in Node : c.elapsed[m] \in NoTimer..SuspicionTimeout - 1
    BY DEF Core
  <1>2. \A m \in Node : t[m] \in NoTimer..SuspicionTimeout - 1
    <2> TAKE m \in Node
    <2>1. c.elapsed[m] \in NoTimer..SuspicionTimeout - 1
      BY <1>1
    <2> QED BY <2>1, Parameters DEF Expired
  <1>3. \A m \in Node : t[m] # NoTimer <=> c.elapsed[m] # NoTimer /\ m \notin Expired(c)
    <2> TAKE m \in Node
    <2>1. c.elapsed[m] \in NoTimer..SuspicionTimeout - 1
      BY <1>1
    <2> QED BY <2>1, Parameters
  <1>4. t \in [Node -> NoTimer..SuspicionTimeout - 1]
    BY <1>2
  <1>5. a = [c EXCEPT !.elapsed = t]
    BY DEF Aged
  <1> HIDE DEF t, a
  <1>6. /\ a \in Core /\ a.elapsed = t /\ a.id = c.id /\ a.incarnation = c.incarnation
        /\ a.members = c.members /\ a.awaiting = c.awaiting /\ a.period = c.period
        /\ a.queue = c.queue
    BY <1>4, <1>5 DEF Core
  <1>7. c.incarnation \in Nat
    BY DEF Core
  <1>8. Grown(c, a) /\ SelfAlive(a) /\ Owned(a, p)
    BY <1>6, <1>7 DEF Grown, Advanced, Rises, SelfAlive, Owned, OwnedItem
  <1> QED BY <1>3, <1>6, <1>8 DEF a

\* The first half of tick: whoever had the timer run out is dead.
LEMMA AgeSuspicionsKeeps ==
    ASSUME NEW c \in Core, NEW p \in [Node -> Nat], Sound(c, p),
           NEW order \in SetToSeqs(Expired(c))
    PROVE  Sound(age_suspicions(c, order), p) /\ Grown(c, age_suspicions(c, order))
  <1> DEFINE n == Len(order)
             E == Expired(c)
             a == Aged(c)
             S == {d \in Core : SelfAlive(d) /\ Owned(d, p) /\ Grown(c, d) /\ d.elapsed = a.elapsed}
             Body(f) == [k \in 0..n |-> IF k = 0 THEN a ELSE Declare(f[k - 1], order[k])]
             F == [x \in S \X (1..n) |-> Declare(x[1], order[x[2]])]
             declared == CHOOSE f : f = Body(f)
  <1>1. E \subseteq Node
    BY DEF Expired
  <1>2. /\ n \in Nat
        /\ \A k \in 1..n : order[k] \in E
        /\ \A j, k \in 1..n : j # k => order[j] # order[k]
        /\ \A m \in E : \E k \in 1..n : order[k] = m
    BY <1>1, OrderCovers
  <1>3. SelfAlive(c) /\ Timed(c) /\ Owned(c, p)
    BY DEF Sound
  <1>4. /\ a \in Core /\ Grown(c, a) /\ SelfAlive(a) /\ Owned(a, p) /\ a.members = c.members
        /\ \A m \in Node : a.elapsed[m] # NoTimer <=> c.elapsed[m] # NoTimer /\ m \notin E
    BY <1>3, AgedTimers
  <1>5. \A m \in E : c.elapsed[m] # NoTimer
    BY DEF Expired
  <1> HIDE DEF E, a
  <1>6. a \in S
    BY <1>4
  <1>7. \A d \in S : \A k \in 1..n : Declare(d, order[k]) \in S
    <2> TAKE d \in S
    <2> TAKE k \in 1..n
    <2>1. d \in Core /\ SelfAlive(d) /\ Owned(d, p) /\ Grown(c, d) /\ d.elapsed = a.elapsed
      OBVIOUS
    <2>2. order[k] \in Node
      BY <1>1, <1>2
    <2>3. /\ Grown(d, Declare(d, order[k]))
          /\ SelfAlive(Declare(d, order[k])) /\ Owned(Declare(d, order[k]), p)
          /\ Declare(d, order[k]).elapsed = d.elapsed
      BY <2>1, <2>2, DeclareKeeps
    <2>4. Declare(d, order[k]) \in Core
      BY <2>3 DEF Grown, Advanced
    <2>5. Grown(c, Declare(d, order[k]))
      BY <2>1, <2>3, <2>4, GrownOn
    <2> QED BY <2>1, <2>3, <2>4, <2>5
  <1> HIDE DEF S
  <1>8. F \in [S \X (1..n) -> S]
    BY <1>7
  <1>9. PICK g : /\ g = [k \in 0..n |-> IF k = 0 THEN a ELSE F[<<g[k - 1], k>>]]
                 /\ \A k \in 0..n : g[k] \in S
    <2> HIDE DEF F, n
    <2>1. \E g : Iteration(g, S, a, n, F)
      BY <1>2, <1>6, <1>8, Fixpoint
    <2> QED BY <2>1 DEF Iteration
  <1>10. g = Body(g)
    <2>1. ASSUME NEW k \in 0..n, k # 0
          PROVE  F[<<g[k - 1], k>>] = Declare(g[k - 1], order[k])
      <3>1. k \in 1..n /\ k - 1 \in 0..n
        BY <1>2, <2>1
      <3>2. g[k - 1] \in S
        BY <1>9, <3>1
      <3> QED BY <3>1, <3>2
    <2> HIDE DEF F
    <2> QED BY <1>9, <2>1
  <1>11. declared = Body(declared)
    <2> HIDE DEF Body
    <2> QED BY <1>10
  <1>12. age_suspicions(c, order) = declared[n]
    BY DEF age_suspicions, a
  <1>13. declared[0] = a /\ \A k \in 1..n : declared[k] = Declare(declared[k - 1], order[k])
    <2> HIDE DEF declared
    <2>1. \A k \in 0..n : declared[k] = IF k = 0 THEN a ELSE Declare(declared[k - 1], order[k])
      BY <1>11
    <2> QED BY <1>2, <2>1
  <1> HIDE DEF declared, n
  <1>14. \A k \in 0..n : declared[k] \in S
    <2>1. declared[0] \in S /\ \A k \in 1..n : declared[k - 1] \in S => declared[k] \in S
      BY <1>6, <1>7, <1>13
    <2> QED BY <1>2, <2>1, StaysIn
  <1> DEFINE Left(k, m) == \E j \in (k + 1)..n : order[j] = m
             U == {k \in 0..n : \A m \in Node :
                      declared[k].members[m].status = Suspect
                         <=> a.elapsed[m] # NoTimer \/ Left(k, m)}
  <1>15. 0 \in U
    <2> SUFFICES ASSUME NEW m \in Node
                 PROVE  c.members[m].status = Suspect <=> a.elapsed[m] # NoTimer \/ Left(0, m)
      BY <1>2, <1>4, <1>13
    <2>1. Left(0, m) <=> m \in E
      BY <1>2
    <2>2. c.members[m].status = Suspect <=> c.elapsed[m] # NoTimer
      BY <1>3 DEF Timed
    <2> HIDE DEF Left
    <2> QED BY <1>4, <1>5, <2>1, <2>2
  <1>16. ASSUME NEW k \in 1..n, k - 1 \in U PROVE k \in U
    <2> DEFINE d == declared[k - 1]
               o == order[k]
    <2>1. d \in S /\ o \in E /\ o \in Node /\ declared[k] = Declare(d, o)
      BY <1>1, <1>2, <1>13, <1>14
    <2>2. /\ Declare(d, o).members[o].status # Suspect
          /\ \A x \in Node : x # o => Declare(d, o).members[x] = d.members[x]
      <3>1. d \in Core /\ SelfAlive(d) /\ Owned(d, p)
        BY <2>1 DEF S
      <3> HIDE DEF d, o
      <3> QED BY <2>1, <3>1, DeclareKeeps
    <2>3. ASSUME NEW m \in Node
          PROVE  declared[k].members[m].status = Suspect
                    <=> a.elapsed[m] # NoTimer \/ Left(k, m)
      <3>1. d.members[m].status = Suspect <=> a.elapsed[m] # NoTimer \/ Left(k - 1, m)
        BY <1>16
      <3>2. Left(k - 1, m) <=> o = m \/ Left(k, m)
        <4>1. (k - 1) + 1 = k /\ \A j \in k..n : j = k \/ j \in (k + 1)..n
          BY <1>2
        <4>2. k \in k..n /\ \A j \in (k + 1)..n : j \in k..n
          BY <1>2
        <4> QED BY <4>1, <4>2
      <3>3. CASE m = o
        <4>1. ~Left(k, m)
          <5>1. \A j \in (k + 1)..n : j \in 1..n /\ j # k
            BY <1>2
          <5> QED BY <1>2, <3>3, <5>1
        <4>2. a.elapsed[m] = NoTimer
          BY <1>4, <2>1, <3>3
        <4> HIDE DEF Left, d, o
        <4> QED BY <2>1, <2>2, <3>3, <4>1, <4>2
      <3>4. CASE m # o
        <4> HIDE DEF Left, d, o
        <4> QED BY <2>1, <2>2, <3>1, <3>2, <3>4
      <3> QED BY <3>3, <3>4
    <2> QED BY <2>3, <1>2
  <1>17. n \in U
    <2>1. 0..n \subseteq U
      <3> HIDE DEF U
      <3> QED BY <1>2, <1>15, <1>16, UpTo
    <2> QED BY <1>2, <2>1
  <1>18. /\ declared[n] \in Core /\ SelfAlive(declared[n]) /\ Owned(declared[n], p)
         /\ Grown(c, declared[n]) /\ declared[n].elapsed = a.elapsed
    BY <1>2, <1>14 DEF S
  <1>19. Timed(declared[n])
    <2>1. \A m \in Node : ~Left(n, m)
      BY <1>2
    <2>2. \A m \in Node : declared[n].members[m].status = Suspect
                             <=> a.elapsed[m] # NoTimer \/ Left(n, m)
      BY <1>17
    <2> HIDE DEF Left
    <2> QED BY <1>18, <2>1, <2>2 DEF Timed
  <1> QED BY <1>12, <1>18, <1>19 DEF Sound

-----------------------------------------------------------------------------
(* Sending.                                                                *)

\* What a message takes along is in the queue, and what stays has sends left.
LEMMA TakeKeeps ==
    ASSUME NEW c \in Core, NEW p, Owned(c, p)
    PROVE  /\ take_gossip(c).core \in Core /\ SameView(c, take_gossip(c).core)
           /\ Owned(take_gossip(c).core, p)
           /\ take_gossip(c).items \in Seq(GossipItem)
           /\ \A k \in 1..Len(take_gossip(c).items) : OwnedItem(take_gossip(c).items[k], c, p)
  <1> DEFINE k == IF Len(c.queue) < MaxGossip THEN Len(c.queue) ELSE MaxGossip
             sent == [i \in 1..k |-> [c.queue[i] EXCEPT !.sends = @ - 1]]
             unspent == {i \in 1..k : sent[i].sends > 0}
             items == [i \in 1..k |-> c.queue[i].item]
             rest == SubSeq(c.queue, k + 1, Len(c.queue))
             T == {g \in Queued : OwnedItem(g.item, c, p)}
             q == Retained(sent, unspent) \o rest
             d == take_gossip(c).core
  <1>1. c.queue \in Seq(Queued) /\ Len(c.queue) \in Nat
        /\ \A i \in 1..Len(c.queue) : c.queue[i] \in Queued /\ c.queue[i].item \in GossipItem
    BY QueueItems
  <1>2. k \in Nat /\ k <= Len(c.queue)
    BY <1>1, Parameters
  <1>3. \A i \in 1..Len(c.queue) : OwnedItem(c.queue[i].item, c, p)
    BY DEF Owned
  <1>4. \A i \in 1..Len(c.queue) : c.queue[i] \in T
    BY <1>1, <1>3
  <1>5. d = [c EXCEPT !.queue = q] /\ take_gossip(c).items = items
    BY DEF take_gossip
  <1> HIDE DEF k
  <1>6. \A i \in 1..k : i \in 1..Len(c.queue)
    BY <1>1, <1>2
  <1>7. items \in Seq(GossipItem) /\ Len(items) = k
        /\ \A i \in 1..k : OwnedItem(items[i], c, p)
    BY <1>1, <1>2, <1>3, <1>6
  <1>8. \A i \in 1..k : i \in unspent => sent[i] \in T
    <2> TAKE i \in 1..k
    <2>1. c.queue[i] \in Queued /\ OwnedItem(c.queue[i].item, c, p)
      BY <1>1, <1>3, <1>6
    <2>2. sent[i] = [c.queue[i] EXCEPT !.sends = @ - 1]
      OBVIOUS
    <2>3. sent[i].item = c.queue[i].item /\ sent[i].sends = c.queue[i].sends - 1
          /\ sent[i] = [item |-> c.queue[i].item, sends |-> c.queue[i].sends - 1]
      BY <2>1, <2>2 DEF Queued
    <2>4. c.queue[i].sends \in 1..RetransmitCount /\ c.queue[i].item \in GossipItem
      BY <2>1 DEF Queued
    <2>5. sent[i].sends > 0 => sent[i] \in Queued
      BY <2>3, <2>4, Parameters DEF Queued
    <2> QED BY <2>1, <2>3, <2>5
  <1>9. Len(sent) = k
    BY <1>2
  <1>10. Retained(sent, unspent) \in Seq(T)
    <2> HIDE DEF T, sent, unspent
    <2> QED BY <1>2, <1>8, <1>9, RetainedIn
  <1>11. rest \in Seq(T)
    <2> HIDE DEF T
    <2>2. k + 1 \in Int /\ Len(c.queue) \in Int
          /\ \A i \in (k + 1)..Len(c.queue) : c.queue[i] \in T
      BY <1>1, <1>2, <1>4
    <2> QED BY <2>2, SubSeqProperties
  <1>12. q \in Seq(T) /\ Len(q) \in Nat /\ \A i \in 1..Len(q) : q[i] \in T
    <2> DEFINE r == Retained(sent, unspent)
    <2> HIDE DEF T, r, rest
    <2>1. r \in Seq(T)
      BY <1>10 DEF r
    <2>2. r \o rest \in Seq(T)
      BY <1>11, <2>1, ConcatProperties
    <2>3. q = r \o rest
      BY DEF r
    <2> HIDE DEF q
    <2> QED BY <2>2, <2>3
  <1>13. q \in Seq(Queued) /\ \A i \in 1..Len(q) : OwnedItem(q[i].item, c, p)
    <2>1. T \subseteq Queued /\ \A g \in T : OwnedItem(g.item, c, p)
      OBVIOUS
    <2> HIDE DEF T, q
    <2>2. q \in Seq(Queued)
      BY <1>12, <2>1
    <2> QED BY <1>12, <2>1, <2>2
  <1> HIDE DEF q, d, items
  <1>14. d \in Core /\ SameView(c, d) /\ d.queue = q
    BY <1>5, <1>13, NewQueue
  <1>15. Owned(d, p)
    BY <1>13, <1>14 DEF Owned, OwnedItem, SameView
  <1> QED BY <1>5, <1>7, <1>14, <1>15 DEF d

\* A core and its messages, as one pass of the engine leaves them.
Mail(r, p) ==
    \A e \in r.out :
       /\ e \in Envelope /\ e.from = r.core.id /\ e.incarnation = r.core.incarnation
       /\ \A k \in 1..Len(e.gossip) : OwnedItem(e.gossip[k], r.core, p)

Handled(c, r, p) ==
    Advanced(c, r.core) /\ Sound(r.core, p) /\ Waiting(r.core) /\ Mail(r, p)

LEMMA SameViewSound ==
    ASSUME NEW c \in Core, NEW d \in Core, NEW p, Sound(c, p), Owned(d, p), SameView(c, d)
    PROVE  Sound(d, p) /\ Grown(c, d)
  <1>1. SelfAlive(d) /\ Timed(d)
    BY DEF Sound, SelfAlive, Timed, SameView
  <1>2. c.incarnation \in Nat
    BY DEF Core
  <1> QED BY <1>1, <1>2 DEF Sound, Grown, Advanced, Rises, SameView

\* Setting the ping that is out, and the counters around it.
SameNews(c, d) ==
    /\ d \in Core /\ d.id = c.id /\ d.incarnation = c.incarnation /\ d.members = c.members
    /\ d.elapsed = c.elapsed /\ d.queue = c.queue

LEMMA SameNewsSound ==
    ASSUME NEW c \in Core, NEW d, NEW p, Sound(c, p), SameNews(c, d)
    PROVE  Sound(d, p) /\ Advanced(c, d)
  <1>1. c.incarnation \in Nat
    BY DEF Core
  <1>2. Sound(d, p)
    BY DEF Sound, SelfAlive, Timed, Owned, OwnedItem, SameNews
  <1> QED BY <1>1, <1>2 DEF Advanced, Rises, SameNews

LEMMA NoPingTyped ==
    NoPing \in [target : Node \cup {0}, seq : 0..SeqModulus - 1, ticks : Int]
  BY Parameters DEF NoPing

LEMMA PingEnds ==
    ASSUME NEW c \in Core
    PROVE  /\ SameNews(c, [c EXCEPT !.awaiting = NoPing])
           /\ [c EXCEPT !.awaiting = NoPing].awaiting = NoPing
           /\ [c EXCEPT !.awaiting = NoPing].period = c.period
  <1> DEFINE W == [target : Node \cup {0}, seq : 0..SeqModulus - 1, ticks : Int]
  <1>1. NoPing \in W
    BY NoPingTyped
  <1> HIDE DEF W
  <1>2. \A w \in W : [c EXCEPT !.awaiting = w] \in Core
    BY DEF Core, W
  <1>3. [c EXCEPT !.awaiting = NoPing] \in Core
    BY <1>1, <1>2
  <1> QED BY <1>3 DEF SameNews, Core

\* The end of a message: the answer to a ping, or the end of the wait.
LEMMA ReplyKeeps ==
    ASSUME NEW c \in Core, NEW p, Sound(c, p), Waiting(c), NEW env \in Envelope
    PROVE  Handled(c, reply(c, env), p)
  <1> DEFINE g == take_gossip(c)
             r == reply(c, env)
  <1>1. CASE env.type = "Ping"
    <2> DEFINE ack == [type |-> "Ack", from |-> c.id, to |-> env.from, seq |-> env.seq,
                       incarnation |-> g.core.incarnation, gossip |-> g.items]
    <2>1. /\ g.core \in Core /\ SameView(c, g.core) /\ Owned(g.core, p)
          /\ g.items \in Seq(GossipItem)
          /\ \A k \in 1..Len(g.items) : OwnedItem(g.items[k], c, p)
      BY TakeKeeps DEF Sound
    <2>2. r.core = g.core /\ r.out = {ack}
      BY <1>1 DEF reply
    <2> HIDE DEF g, r
    <2>3. Sound(g.core, p) /\ Advanced(c, g.core)
      BY <2>1, SameViewSound DEF Grown
    <2>4. Waiting(g.core)
      BY <2>1 DEF Waiting, SameView
    <2>5. ack \in Envelope /\ ack.from = c.id /\ ack.incarnation = g.core.incarnation
          /\ ack.gossip = g.items
      <3>1. c.id \in Node /\ env.from \in Node /\ env.seq \in 0..SeqModulus - 1
            /\ g.core.incarnation \in Nat
        BY <2>1 DEF Core, Envelope
      <3> QED BY <2>1, <3>1 DEF Envelope
    <2> HIDE DEF ack
    <2>6. Mail(r, p)
      <3>1. \A k \in 1..Len(ack.gossip) : OwnedItem(ack.gossip[k], g.core, p)
        BY <2>1, <2>5 DEF OwnedItem, SameView
      <3> QED BY <2>1, <2>2, <2>5, <3>1 DEF Mail, SameView
    <2> QED BY <2>2, <2>3, <2>4, <2>6 DEF Handled, r
  <1>2. CASE env.type # "Ping" /\ r.core = c
    <2>1. r.out = {}
      BY <1>2 DEF reply
    <2> HIDE DEF r
    <2> QED BY <1>2, <2>1, GrownSelf DEF Handled, Mail, Grown, r
  <1>3. CASE env.type # "Ping" /\ r.core = [c EXCEPT !.awaiting = NoPing]
    <2>1. r.out = {}
      BY <1>3 DEF reply
    <2>2. SameNews(c, r.core) /\ r.core.awaiting = NoPing
      <3> HIDE DEF r
      <3> QED BY <1>3, PingEnds
    <2>3. Sound(r.core, p) /\ Advanced(c, r.core)
      BY <2>2, SameNewsSound
    <2> HIDE DEF r
    <2> QED BY <2>1, <2>2, <2>3 DEF Handled, Mail, Waiting, r
  <1>4. env.type = "Ping" \/ (env.type # "Ping" /\ (r.core = c \/ r.core = [c EXCEPT !.awaiting = NoPing]))
    BY DEF reply
  <1> QED BY <1>1, <1>2, <1>3, <1>4

-----------------------------------------------------------------------------
(* The second half of tick.                                                *)

\* Between the two counters of a tick.
HalfTicked(c) ==
    \/ c.awaiting = NoPing
    \/ /\ c.awaiting.target \in Node /\ c.awaiting.ticks \in 0..PingTimeout - 1
       /\ c.period < c.awaiting.ticks

LEMMA AgePingKeeps ==
    ASSUME NEW c \in Core, NEW p \in [Node -> Nat], Sound(c, p), Waiting(c)
    PROVE  /\ Advanced(c, age_ping(c)) /\ Sound(age_ping(c), p)
           /\ HalfTicked(age_ping(c))
  <1> DEFINE w == c.awaiting
             t == w.target
             b == c.members[t]
             d == [c EXCEPT !.awaiting = NoPing]
  <1>0. Advanced(c, c) /\ c.period \in Nat
    <2>1. Advanced(c, c)
      BY GrownSelf DEF Grown
    <2>2. c.period \in 0..ProtocolPeriod + PingTimeout
      BY DEF Core
    <2>3. c.period \in Nat
      BY <2>2, Parameters
    <2> QED BY <2>1, <2>3
  <1>1. CASE w = NoPing
    BY <1>0, <1>1 DEF age_ping, HalfTicked
  <1>2. CASE w # NoPing /\ w.ticks + 1 < PingTimeout
    <2> DEFINE v == [w EXCEPT !.ticks = w.ticks + 1]
               e == [c EXCEPT !.awaiting = v]
               W == [target : Node \cup {0}, seq : 0..SeqModulus - 1, ticks : Int]
    <2>1. w \in W
      BY DEF Core
    <2>2. t \in Node /\ w.ticks \in 0..PingTimeout - 1 /\ c.period <= w.ticks
      BY <1>2 DEF Waiting
    <2>3. v \in W /\ v.target = t /\ v.ticks = w.ticks + 1
      BY <2>1, <2>2
    <2>4. age_ping(c) = e
      <3>1. age_ping(c) = [c EXCEPT !.awaiting.ticks = @ + 1]
        BY <1>2 DEF age_ping
      <3> QED BY <3>1
    <2> HIDE DEF v, w
    <2>5. SameNews(c, e) /\ e.awaiting = v /\ e.period = c.period
      BY <2>3 DEF SameNews, Core
    <2> HIDE DEF e
    <2>6. Sound(e, p) /\ Advanced(c, e)
      BY <2>5, SameNewsSound
    <2>7. HalfTicked(e)
      BY <1>0, <1>2, <2>2, <2>3, <2>5, Parameters DEF HalfTicked
    <2> QED BY <2>4, <2>6, <2>7
  <1>3. CASE w # NoPing /\ ~(w.ticks + 1 < PingTimeout)
    <2>1. t \in Node
      BY <1>3 DEF Waiting
    <2>2. SameNews(c, d) /\ d.awaiting = NoPing
      BY PingEnds
    <2>3. Sound(d, p) /\ Advanced(c, d) /\ d \in Core
      BY <2>2, SameNewsSound DEF SameNews
    <2>4. CASE b.status # Alive
      <3>1. age_ping(c) = d
        BY <1>3, <2>4 DEF age_ping
      <3> HIDE DEF d
      <3> QED BY <2>2, <2>3, <3>1 DEF HalfTicked
    <2>5. CASE b.status = Alive
      <3> DEFINE item == Item(t, Suspect, b.incarnation)
                 e == merge(d, item)
      <3>1. age_ping(c) = e
        BY <1>3, <2>5 DEF age_ping
      <3>2. item \in GossipItem /\ item.member = t /\ item.incarnation = b.incarnation
        <4>1. b \in Belief_
          BY <2>1 DEF Core, Belief_
        <4> HIDE DEF b, t
        <4> QED BY <2>1, <4>1 DEF Item, GossipItem, Status, Suspect, Belief_
      <3>3. t # c.id => b.incarnation <= p[t]
        BY <2>1 DEF Sound, Owned
      <3> HIDE DEF d, item, b, t
      <3>4. item.member # d.id => item.incarnation <= p[item.member]
        BY <2>2, <3>2, <3>3 DEF SameNews
      <3>5. Sound(e, p) /\ Grown(d, e)
        BY <2>3, <3>2, <3>4, MergeKeeps
      <3> HIDE DEF e
      <3>6. Advanced(d, e) /\ e \in Core /\ e.awaiting = NoPing
        BY <2>2, <3>5 DEF Grown, Advanced
      <3>7. Advanced(c, e)
        BY <2>3, <3>6, AdvancedOn
      <3> QED BY <3>1, <3>5, <3>6, <3>7 DEF HalfTicked
    <2> QED BY <2>4, <2>5
  <1> QED BY <1>1, <1>2, <1>3

\* A target is somebody in the ping order.
LEMMA TargetTyped ==
    ASSUME NEW c \in Core, next_ping_target(c) # 0
    PROVE  /\ next_ping_target(c) \in 1..Len(PingOrder[c.id])
           /\ Pinged(c, next_ping_target(c)) \in Node
  <1> DEFINE len == Len(PingOrder[c.id])
             live == {k \in 1..len : c.members[Pinged(c, k)].status # Dead}
             k == next_ping_target(c)
  <1>1. c.id \in Node /\ c.idx \in Nat \ {0}
    BY DEF Core
  <1>2. PingOrder[c.id] \in Seq(Node)
    BY <1>1, SwimAssumption
  <1>3. len \in Nat
    BY <1>2
  <1>4. live # {} /\ k = Min(live)
    BY DEF next_ping_target
  <1>5. k \in live
    <2>1. live \subseteq Nat
      BY <1>3
    <2> HIDE DEF live, k
    <2> QED BY <1>4, <2>1, MinIsLeast
  <1>6. k \in 1..len
    BY <1>5
  <1> HIDE DEF k, live
  <1>7. c.idx - 1 + k - 1 \in Nat /\ len \in Nat \ {0}
    BY <1>1, <1>3, <1>6
  <1>8. (c.idx - 1 + k - 1) % len \in 0..(len - 1)
    <2> DEFINE x == c.idx - 1 + k - 1
    <2> HIDE DEF x, len
    <2>1. x \in Nat /\ len \in Nat \ {0}
      BY <1>7 DEF x
    <2>2. x % len \in 0..(len - 1)
      BY <2>1
    <2> QED BY <2>2 DEF x
  <1>9. ((c.idx - 1 + k - 1) % len) + 1 \in 1..len
    <2> HIDE DEF len
    <2> QED BY <1>7, <1>8
  <1>10. Pinged(c, k) \in Node
    BY <1>2, <1>9 DEF Pinged
  <1> QED BY <1>6, <1>10 DEF k

LEMMA PingKeeps ==
    ASSUME NEW c \in Core, NEW p, Sound(c, p), HalfTicked(c)
    PROVE  Handled(c, ping_if_due(c), p)
  <1> DEFINE r == ping_if_due(c)
             d == [c EXCEPT !.period = @ + 1]
             e == [d EXCEPT !.period = 0]
             k == next_ping_target(c)
             len == Len(PingOrder[c.id])
             target == Pinged(c, k)
             seq == (c.seq + 1) % SeqModulus
             idx == ((c.idx - 1 + k) % len) + 1
             w == [target |-> target, seq |-> seq, ticks |-> 0]
             f == [e EXCEPT !.idx = idx, !.seq = seq, !.awaiting = w]
             g == take_gossip(f)
             ping == [type |-> "Ping", from |-> c.id, to |-> target, seq |-> seq,
                      incarnation |-> c.incarnation, gossip |-> g.items]
  <1>1. c.period \in 0..ProtocolPeriod + PingTimeout /\ c.id \in Node
        /\ c.idx \in Nat \ {0} /\ c.seq \in 0..SeqModulus - 1 /\ c.incarnation \in Nat
    BY DEF Core
  <1>2. d.period = c.period + 1
    BY DEF Core
  <1>3. CASE d.period < ProtocolPeriod \/ c.awaiting # NoPing
    <2>1. r.core = d /\ r.out = {}
      BY <1>3 DEF ping_if_due
    <2>2. c.period + 1 \in 0..ProtocolPeriod + PingTimeout
      BY <1>1, <1>2, <1>3, Parameters DEF HalfTicked
    <2>3. SameNews(c, d) /\ d.awaiting = c.awaiting
      BY <2>2 DEF SameNews, Core
    <2> HIDE DEF d, r
    <2>4. Sound(d, p) /\ Advanced(c, d)
      BY <2>3, SameNewsSound
    <2>5. Waiting(d)
      BY <1>1, <1>2, <2>3, Parameters DEF HalfTicked, Waiting
    <2> QED BY <2>1, <2>4, <2>5 DEF Handled, Mail, r
  <1>4. SameNews(c, e) /\ e.period = 0 /\ e.awaiting = c.awaiting
    <2>1. e = [c EXCEPT !.period = 0]
      BY DEF Core
    <2>2. 0 \in 0..ProtocolPeriod + PingTimeout
      BY Parameters
    <2> HIDE DEF e
    <2> QED BY <2>1, <2>2 DEF SameNews, Core
  <1>5. CASE ~(d.period < ProtocolPeriod \/ c.awaiting # NoPing) /\ k = 0
    <2>1. r.core = e /\ r.out = {}
      BY <1>5 DEF ping_if_due
    <2> HIDE DEF e, r
    <2>2. Sound(e, p) /\ Advanced(c, e)
      BY <1>4, SameNewsSound
    <2>3. Waiting(e)
      BY <1>4, <1>5 DEF Waiting
    <2> QED BY <2>1, <2>2, <2>3 DEF Handled, Mail, r
  <1>6. CASE ~(d.period < ProtocolPeriod \/ c.awaiting # NoPing) /\ k # 0
    <2>1. r.core = g.core /\ r.out = {ping}
      BY <1>6 DEF ping_if_due
    <2>2. k \in 1..len /\ target \in Node
      BY <1>6, TargetTyped
    <2>3. len \in Nat
      BY <1>1, SwimAssumption
    <2>4. seq \in 0..SeqModulus - 1
      <3>1. c.seq + 1 \in Nat /\ SeqModulus \in Nat \ {0}
        BY <1>1, Parameters
      <3> QED BY <3>1
    <2>5. idx \in Nat \ {0}
      <3> DEFINE x == c.idx - 1 + k
      <3> HIDE DEF k, len, x
      <3>1. x \in Nat /\ len \in Nat \ {0}
        BY <1>1, <2>2, <2>3 DEF x
      <3>2. x % len \in 0..(len - 1)
        BY <3>1
      <3>3. (x % len) + 1 \in Nat \ {0}
        BY <3>1, <3>2
      <3> QED BY <3>3 DEF x
    <2> HIDE DEF k, len, target, seq, idx, r, e
    <2>6. w \in [target : Node \cup {0}, seq : 0..SeqModulus - 1, ticks : Int]
          /\ w.target = target /\ w.ticks = 0
      BY <2>2, <2>4
    <2> HIDE DEF w
    <2>7. SameNews(c, f) /\ f.period = 0 /\ f.awaiting = w
      BY <1>4, <2>4, <2>5, <2>6 DEF SameNews, Core
    <2> HIDE DEF f
    <2>8. Sound(f, p) /\ Advanced(c, f) /\ f \in Core
      BY <2>7, SameNewsSound DEF SameNews
    <2>9. Waiting(f)
      BY <2>2, <2>6, <2>7, Parameters DEF Waiting
    <2>10. /\ g.core \in Core /\ SameView(f, g.core) /\ Owned(g.core, p)
           /\ g.items \in Seq(GossipItem)
           /\ \A j \in 1..Len(g.items) : OwnedItem(g.items[j], f, p)
      BY <2>8, TakeKeeps DEF Sound
    <2> HIDE DEF g
    <2>11. Sound(g.core, p) /\ Advanced(f, g.core)
      BY <2>8, <2>10, SameViewSound DEF Grown
    <2>12. Advanced(c, g.core)
      BY <2>8, <2>10, <2>11, AdvancedOn
    <2>13. Waiting(g.core)
      BY <2>9, <2>10 DEF Waiting, SameView
    <2>14. /\ ping \in Envelope /\ ping.from = c.id /\ ping.incarnation = c.incarnation
           /\ ping.gossip = g.items
      BY <1>1, <2>2, <2>4, <2>10 DEF Envelope
    <2> HIDE DEF ping
    <2>15. g.core.id = c.id /\ g.core.incarnation = c.incarnation /\ f.id = c.id
           /\ f.incarnation = c.incarnation
      BY <2>7, <2>10 DEF SameNews, SameView
    <2>16. \A j \in 1..Len(ping.gossip) : OwnedItem(ping.gossip[j], g.core, p)
      BY <2>10, <2>14, <2>15 DEF OwnedItem
    <2>17. Mail(r, p)
      BY <2>1, <2>14, <2>15, <2>16 DEF Mail
    <2> QED BY <2>1, <2>11, <2>12, <2>13, <2>17 DEF Handled, r
  <1> QED BY <1>3, <1>5, <1>6

-----------------------------------------------------------------------------
(* The engine and the network.                                             *)

LEMMA HigherOfTwo ==
    ASSUME NEW a \in Nat, NEW b \in Nat
    PROVE  Max({a, b}) \in Nat /\ Max({a, b}) >= a /\ Max({a, b}) >= b
  <1>1. a + b \in Nat /\ {a, b} \subseteq 0..a + b /\ {a, b} # {}
    OBVIOUS
  <1>2. Max({a, b}) \in {a, b} /\ \A y \in {a, b} : Max({a, b}) >= y
    BY <1>1, MaxIsGreatest
  <1> QED BY <1>2

\* A core stays sound when some node has risen higher than before.
LEMMA SoundOn ==
    ASSUME NEW c \in Core, NEW p \in [Node -> Nat], NEW q \in [Node -> Nat],
           \A m \in Node : q[m] >= p[m], Sound(c, p)
    PROVE  Sound(c, q)
  <1>1. c.id \in Node /\ c.incarnation \in Nat
    BY DEF Core
  <1>2. ASSUME NEW m \in Node, m # c.id PROVE c.members[m].incarnation <= q[m]
    <2>1. c.members[m].incarnation \in Nat
      BY DEF Core
    <2> QED BY <1>2, <2>1 DEF Sound, Owned
  <1>3. ASSUME NEW k \in 1..Len(c.queue) PROVE OwnedItem(c.queue[k].item, c, q)
    <2>1. c.queue[k].item.member \in Node /\ c.queue[k].item.incarnation \in Nat
      BY QueueItems
    <2> QED BY <1>1, <2>1 DEF Sound, Owned, OwnedItem
  <1> QED BY <1>2, <1>3 DEF Sound, Owned

\* Where a running core stood and where it stands.
Rising == \A n, m \in Node : Rises(core[n].members[m], core'[n].members[m])

CoreState == core \in [Node -> Core] /\ net \subseteq Envelope /\ peak \in [Node -> Nat]

LEMMA RunKeeps ==
    ASSUME IInv, NEW n \in Node, NEW r, Handled(core[n], r, peak), Run(n, r),
           net' \subseteq net \cup r.out
    PROVE  CoreState' /\ CoresSound' /\ MailSound' /\ Rising
  <1> DEFINE i == r.core.incarnation
             top == Max({peak[n], i})
  <1>1. core \in [Node -> Core] /\ net \subseteq Envelope /\ peak \in [Node -> Nat]
    BY DEF IInv, TypeOK
  <1>2. /\ r.core \in Core /\ r.core.id = n /\ Sound(r.core, peak) /\ Waiting(r.core)
        /\ Mail(r, peak) /\ \A m \in Node : Rises(core[n].members[m], r.core.members[m])
    BY DEF Handled, Advanced, IInv, CoresSound
  <1>3. i \in Nat /\ peak[n] \in Nat
    BY <1>1, <1>2 DEF Core
  <1>4. top \in Nat /\ top >= peak[n] /\ top >= i
    BY <1>3, HigherOfTwo
  <1>5. core' = [core EXCEPT ![n] = r.core] /\ peak' = [peak EXCEPT ![n] = top]
    BY DEF Run
  <1> HIDE DEF top
  <1>6. core' \in [Node -> Core] /\ peak' \in [Node -> Nat] /\ net' \subseteq Envelope
    BY <1>1, <1>2, <1>4, <1>5 DEF Mail
  <1>7. \A m \in Node : peak'[m] >= peak[m]
    BY <1>1, <1>4, <1>5
  <1>8. CoresSound'
    <2>1. ASSUME NEW x \in Node
          PROVE  /\ core'[x].id = x /\ Sound(core'[x], peak') /\ Waiting(core'[x])
                 /\ core'[x].incarnation <= peak'[x]
      <3>1. CASE x = n
        <4>1. core'[x] = r.core /\ peak'[x] = top
          BY <1>1, <1>5, <3>1
        <4>2. Sound(r.core, peak')
          BY <1>1, <1>2, <1>6, <1>7, SoundOn
        <4> QED BY <1>2, <1>3, <1>4, <3>1, <4>1, <4>2
      <3>2. CASE x # n
        <4>1. core'[x] = core[x] /\ peak'[x] = peak[x] /\ core[x] \in Core
          BY <1>1, <1>5, <3>2
        <4>2. /\ core[x].id = x /\ Sound(core[x], peak) /\ Waiting(core[x])
              /\ core[x].incarnation <= peak[x]
          BY DEF IInv, CoresSound
        <4>3. Sound(core[x], peak')
          BY <1>1, <1>6, <1>7, <4>1, <4>2, SoundOn
        <4> QED BY <4>1, <4>2, <4>3
      <3> QED BY <3>1, <3>2
    <2> QED BY <2>1 DEF CoresSound
  <1>9. MailSound'
    <2>1. ASSUME NEW e \in net'
          PROVE  /\ e.incarnation <= peak'[e.from]
                 /\ \A k \in 1..Len(e.gossip) :
                       e.gossip[k].incarnation <= peak'[e.gossip[k].member]
      <3>1. /\ e.from \in Node /\ e.incarnation \in Nat
            /\ \A k \in 1..Len(e.gossip) :
                  e.gossip[k].member \in Node /\ e.gossip[k].incarnation \in Nat
        <4>1. e \in Envelope
          BY <1>6, <2>1
        <4>2. e.from \in Node /\ e.incarnation \in Nat /\ e.gossip \in Seq(GossipItem)
          BY <4>1 DEF Envelope
        <4>3. \A k \in 1..Len(e.gossip) : e.gossip[k] \in GossipItem
          BY <4>2
        <4>4. \A g \in GossipItem : g.member \in Node /\ g.incarnation \in Nat
          BY DEF GossipItem
        <4> QED BY <4>2, <4>3, <4>4
      <3>2. CASE e \in net
        <4>1. /\ e.incarnation <= peak[e.from]
              /\ \A k \in 1..Len(e.gossip) :
                    e.gossip[k].incarnation <= peak[e.gossip[k].member]
          BY <3>2 DEF IInv, MailSound
        <4>2. \A m \in Node : peak[m] \in Nat /\ peak'[m] \in Nat
          BY <1>1, <1>6
        <4> QED BY <1>7, <3>1, <4>1, <4>2
      <3>3. CASE e \in r.out
        <4>1. e.from = n /\ e.incarnation = i
              /\ \A k \in 1..Len(e.gossip) : OwnedItem(e.gossip[k], r.core, peak)
          BY <1>2, <3>3 DEF Mail
        <4>2. peak'[n] = top /\ \A m \in Node : m # n => peak'[m] = peak[m]
          BY <1>1, <1>5
        <4>3. ASSUME NEW k \in 1..Len(e.gossip)
              PROVE  e.gossip[k].incarnation <= peak'[e.gossip[k].member]
          <5>1. OwnedItem(e.gossip[k], r.core, peak)
            BY <4>1
          <5>2. e.gossip[k].member \in Node /\ e.gossip[k].incarnation \in Nat
            BY <3>1
          <5> QED BY <1>2, <1>3, <1>4, <4>2, <5>1, <5>2 DEF OwnedItem
        <4> QED BY <1>4, <4>1, <4>2, <4>3
      <3> QED BY <2>1, <3>2, <3>3
    <2> QED BY <2>1 DEF MailSound
  <1>10. Rising
    <2>1. ASSUME NEW x \in Node, NEW m \in Node
          PROVE  Rises(core[x].members[m], core'[x].members[m])
      <3>1. core'[x] = IF x = n THEN r.core ELSE core[x]
        BY <1>1, <1>5
      <3> QED BY <1>2, <3>1 DEF Rises
    <2> QED BY <2>1 DEF Rising
  <1> QED BY <1>6, <1>8, <1>9, <1>10 DEF CoreState

\* A message taken from the channel.
LEMMA ReceiveKeeps ==
    ASSUME IInv, NEW n \in Node, Receive(n)
    PROVE  CoreState' /\ CoresSound' /\ MailSound' /\ Rising
  <1>1. PICK e \in net : /\ Run(n, reply(hear(core[n], e), e))
                         /\ net' = (net \ {e}) \cup Sent(reply(hear(core[n], e), e))
    BY DEF Receive
  <1> DEFINE c == core[n]
             h == hear(c, e)
             r == reply(h, e)
  <1>2. c \in Core /\ e \in Envelope /\ peak \in [Node -> Nat]
    BY <1>1 DEF IInv, TypeOK
  <1>3. Sound(c, peak) /\ Waiting(c)
    BY DEF IInv, CoresSound
  <1>4. /\ e.incarnation <= peak[e.from]
        /\ \A k \in 1..Len(e.gossip) : e.gossip[k].incarnation <= peak[e.gossip[k].member]
    BY <1>1 DEF IInv, MailSound
  <1> HIDE DEF c
  <1>5. Sound(h, peak) /\ Grown(c, h)
    BY <1>2, <1>3, <1>4, HearKeeps
  <1> HIDE DEF h
  <1>6. h \in Core /\ Advanced(c, h) /\ Waiting(h)
    BY <1>3, <1>5 DEF Grown, Advanced, Waiting
  <1>7. Handled(h, r, peak)
    BY <1>2, <1>5, <1>6, ReplyKeeps
  <1> HIDE DEF r
  <1>8. Handled(c, r, peak)
    <2>1. r.core \in Core /\ Advanced(h, r.core)
      BY <1>7 DEF Handled, Advanced
    <2>2. Advanced(c, r.core)
      BY <1>2, <1>6, <2>1, AdvancedOn
    <2> QED BY <1>7, <2>2 DEF Handled
  <1>9. Run(n, r) /\ net' \subseteq net \cup r.out
    BY <1>1 DEF Sent, r, h, c
  <1>10. Handled(core[n], r, peak)
    BY <1>8 DEF c
  <1> QED BY <1>9, <1>10, RunKeeps

\* Nothing arrived for a whole period.
LEMMA TickKeeps ==
    ASSUME IInv, NEW n \in Node, Tick(n)
    PROVE  CoreState' /\ CoresSound' /\ MailSound' /\ Rising
  <1> DEFINE a == core[n]
  <1>1. PICK order \in SetToSeqs(Expired(a)) :
            /\ Run(n, ping_if_due(age_ping(age_suspicions(a, order))))
            /\ net' = net \cup Sent(ping_if_due(age_ping(age_suspicions(a, order))))
    BY DEF Tick
  <1> DEFINE c == age_suspicions(a, order)
             d == age_ping(c)
             r == ping_if_due(d)
  <1>2. a \in Core /\ peak \in [Node -> Nat]
    BY DEF IInv, TypeOK
  <1>3. Sound(a, peak) /\ Waiting(a)
    BY DEF IInv, CoresSound
  <1> HIDE DEF a
  <1>4. Sound(c, peak) /\ Grown(a, c)
    BY <1>2, <1>3, AgeSuspicionsKeeps
  <1> HIDE DEF c
  <1>5. c \in Core /\ Advanced(a, c) /\ Waiting(c)
    BY <1>3, <1>4 DEF Grown, Advanced, Waiting
  <1>6. Advanced(c, d) /\ Sound(d, peak) /\ HalfTicked(d)
    BY <1>2, <1>4, <1>5, AgePingKeeps
  <1> HIDE DEF d
  <1>7. d \in Core
    BY <1>6 DEF Advanced
  <1>8. Handled(d, r, peak)
    BY <1>6, <1>7, PingKeeps
  <1> HIDE DEF r
  <1>9. Handled(a, r, peak)
    <2>1. r.core \in Core /\ Advanced(d, r.core)
      BY <1>8 DEF Handled, Advanced
    <2>2. Advanced(a, d)
      BY <1>2, <1>5, <1>6, <1>7, AdvancedOn
    <2>3. Advanced(a, r.core)
      BY <1>2, <1>7, <2>1, <2>2, AdvancedOn
    <2> QED BY <1>8, <2>3 DEF Handled
  <1>10. Run(n, r) /\ net' \subseteq net \cup r.out
    BY <1>1 DEF Sent, r, d, c
  <1>11. Handled(core[n], r, peak)
    BY <1>9 DEF a
  <1> QED BY <1>10, <1>11, RunKeeps

\* A process started again knows nothing that is wrong.
LEMMA NewIsSound ==
    ASSUME NEW n \in Node, NEW p \in [Node -> Nat]
    PROVE  /\ New(n) \in Core /\ New(n).id = n /\ New(n).incarnation = 0
           /\ Sound(New(n), p) /\ Waiting(New(n))
  <1> DEFINE b == [status |-> Alive, incarnation |-> 0]
             W == [target : Node \cup {0}, seq : 0..SeqModulus - 1, ticks : Int]
             Q == Seq([item : GossipItem, sends : 1..RetransmitCount])
             B == [status : Status, incarnation : Nat]
             c == New(n)
  <1>1. b \in B /\ NoPing \in W /\ <<>> \in Q
    BY NoPingTyped DEF Status
  <1>2. 0 \in 0..SeqModulus - 1 /\ 0 \in 0..ProtocolPeriod + PingTimeout
        /\ NoTimer \in NoTimer..SuspicionTimeout - 1 /\ 1 \in Nat \ {0}
    BY Parameters
  <1>3. c \in Core
    <2>1. [m \in Node |-> b] \in [Node -> B]
      BY <1>1
    <2>2. [m \in Node |-> NoTimer] \in [Node -> NoTimer..SuspicionTimeout - 1]
      BY <1>2
    <2>3. 0 \in Nat
      OBVIOUS
    <2> HIDE DEF B, W, Q, b
    <2> QED BY <1>1, <1>2, <2>1, <2>2, <2>3 DEF New, Core, B, W, Q, b
  <1>4. /\ c.id = n /\ c.incarnation = 0 /\ c.awaiting = NoPing /\ c.queue = <<>>
        /\ c.members = [m \in Node |-> b] /\ c.elapsed = [m \in Node |-> NoTimer]
    BY DEF New
  <1> HIDE DEF c
  <1>5. SelfAlive(c) /\ Timed(c)
    BY <1>4 DEF SelfAlive, Timed, Alive, Suspect
  <1>6. Owned(c, p)
    <2>1. \A m \in Node : c.members[m].incarnation <= p[m]
      BY <1>4
    <2>2. Len(c.queue) = 0
      BY <1>4
    <2> QED BY <2>1, <2>2 DEF Owned
  <1> QED BY <1>3, <1>4, <1>5, <1>6 DEF Sound, Waiting, c

LEMMA InitInv == Init => IInv
  <1> SUFFICES ASSUME Init PROVE IInv
    OBVIOUS
  <1>1. peak \in [Node -> Nat] /\ \A n \in Node : peak[n] = 0
    BY DEF Init
  <1>2. \A n \in Node : core[n] = New(n)
    BY DEF Init
  <1>3. \A n \in Node : New(n) \in Core
    BY <1>1, NewIsSound
  <1>4. core \in [Node -> Core]
    BY <1>3 DEF Init
  <1>5. TypeOK
    BY <1>1, <1>4, Parameters DEF Init, TypeOK
  <1>6. CoresSound
    BY <1>1, <1>2, NewIsSound DEF CoresSound
  <1>7. MailSound
    BY DEF Init, MailSound
  <1> QED BY <1>5, <1>6, <1>7 DEF IInv

\* What a step may do to the beliefs of a node that runs before and after it.
RunningRise ==
    \A n \in up, m \in Node : n \in up' => Rises(core[n].members[m], core'[n].members[m])

LEMMA SameCores ==
    ASSUME IInv, UNCHANGED <<core, peak>>, net' \subseteq net
    PROVE  CoreState' /\ CoresSound' /\ MailSound' /\ Rising
  <1>1. CoreState'
    BY DEF IInv, TypeOK, CoreState
  <1>2. CoresSound'
    BY DEF IInv, CoresSound
  <1>3. MailSound'
    BY DEF IInv, MailSound
  <1> QED BY <1>1, <1>2, <1>3 DEF Rising, Rises

LEMMA RestartKeeps ==
    ASSUME IInv, NEW n \in Node, Restart(n)
    PROVE  CoreState' /\ CoresSound' /\ MailSound' /\ RunningRise
  <1>1. core \in [Node -> Core] /\ peak \in [Node -> Nat]
    BY DEF IInv, TypeOK
  <1>2. core' = [core EXCEPT ![n] = New(n)] /\ peak' = peak /\ net' = net /\ n \notin up
    BY DEF Restart
  <1>3. /\ New(n) \in Core /\ New(n).id = n /\ New(n).incarnation = 0
        /\ Sound(New(n), peak) /\ Waiting(New(n))
    BY <1>1, NewIsSound
  <1>4. CoreState'
    BY <1>1, <1>2, <1>3 DEF IInv, TypeOK, CoreState
  <1>5. \A x \in Node : core'[x] = IF x = n THEN New(n) ELSE core[x]
    BY <1>1, <1>2
  <1>6. CoresSound'
    BY <1>1, <1>2, <1>3, <1>5 DEF IInv, CoresSound
  <1>7. MailSound'
    BY <1>2 DEF IInv, MailSound
  <1>8. RunningRise
    BY <1>2, <1>5 DEF RunningRise, Rises, IInv, TypeOK
  <1> QED BY <1>4, <1>6, <1>7, <1>8

LEMMA NextKeeps ==
    ASSUME IInv, [Next]_vars
    PROVE  IInv' /\ RunningRise
  <1> DEFINE Counts == /\ asked' \subseteq Node /\ up' \subseteq Node
                       /\ faults' \in 0..MaxFaults /\ crashes' \in 0..MaxCrashes
                       /\ restarts' \in 0..MaxRestarts
             Kept == CoreState' /\ CoresSound' /\ MailSound'
  <1>a. /\ asked \subseteq Node /\ up \subseteq Node /\ Polled \subseteq Node
        /\ faults \in 0..MaxFaults /\ crashes \in 0..MaxCrashes
        /\ restarts \in 0..MaxRestarts
    BY SwimAssumption DEF IInv, TypeOK
  <1>b. ASSUME Rising PROVE RunningRise
    BY <1>a, <1>b DEF Rising, RunningRise
  <1>1. ASSUME NEW n \in Node, Receive(n) PROVE Counts /\ Kept /\ RunningRise
    <2>1. Counts
      BY <1>a, <1>1 DEF Receive
    <2> QED BY <1>1, <1>b, <2>1, ReceiveKeeps
  <1>2. ASSUME NEW n \in Node, Tick(n) PROVE Counts /\ Kept /\ RunningRise
    <2>1. UNCHANGED <<asked, up, crashes, restarts>>
          /\ (faults' = faults \/ (faults < MaxFaults /\ faults' = faults + 1))
      BY <1>2 DEF Tick
    <2>2. Counts
      BY <1>a, <2>1, Parameters
    <2> QED BY <1>2, <1>b, <2>2, TickKeeps
  <1>3. ASSUME NEW n \in Node, AskStatus(n) \/ StatusOf(n) \/ Crash(n)
        PROVE  Counts /\ Kept /\ RunningRise
    <2>1. UNCHANGED <<core, peak>> /\ net' \subseteq net
      BY <1>3 DEF AskStatus, StatusOf, Crash
    <2>2. Counts
      BY <1>a, <1>3, Parameters DEF AskStatus, StatusOf, Crash
    <2> QED BY <1>b, <2>1, <2>2, SameCores
  <1>4. ASSUME NEW n \in Node, Restart(n) PROVE Counts /\ Kept /\ RunningRise
    <2>1. Counts
      BY <1>a, <1>4, Parameters DEF Restart
    <2> QED BY <1>4, <2>1, RestartKeeps
  <1>5. ASSUME Lose PROVE Counts /\ Kept /\ RunningRise
    <2>1. UNCHANGED <<core, peak>> /\ net' \subseteq net
      BY <1>5 DEF Lose
    <2>2. Counts
      BY <1>a, <1>5, Parameters DEF Lose
    <2> QED BY <1>b, <2>1, <2>2, SameCores
  <1>6. ASSUME UNCHANGED vars PROVE Counts /\ Kept /\ RunningRise
    <2>1. UNCHANGED <<core, peak>> /\ net' \subseteq net /\ Counts
      BY <1>a, <1>6 DEF vars
    <2> QED BY <1>b, <2>1, SameCores
  <1>7. Counts /\ Kept /\ RunningRise
    BY <1>1, <1>2, <1>3, <1>4, <1>5, <1>6 DEF Next
  <1> QED BY <1>7 DEF IInv, TypeOK, CoreState

LEMMA Inductive == Spec => []IInv
  <1>1. IInv /\ [Next]_vars => IInv'
    BY NextKeeps
  <1> QED BY InitInv, <1>1, PTL DEF Spec

-----------------------------------------------------------------------------
(* What holds of every group.                                              *)

\* Types of SwimCore's fields and of every envelope under way: no queued item
\* is without a send left, and the period counter is bounded although it runs
\* on while a ping is out (gossip.rs, tick and take_gossip).
THEOREM FieldsTyped == Spec => []TypeOK
  <1>1. IInv => TypeOK
    BY DEF IInv
  <1> QED BY Inductive, <1>1, PTL

\* A member is suspect exactly while its timer runs, through every order of
\* gossip, refutations and timeouts (gossip.rs, merge and tick).
THEOREM SuspicionsTimed == Spec => []SuspicionsAreTimed
  <1>1. IInv => SuspicionsAreTimed
    BY DEF IInv, CoresSound, Sound, Timed, SuspicionsAreTimed, Belief
  <1> QED BY Inductive, <1>1, PTL

\* Nobody believes, queues or sends an incarnation its owner never took,
\* whatever is lost, reordered or restarted (gossip.rs, merge and
\* maybe_refute_self).
THEOREM IncarnationsOwned == Spec => []IncarnationsAreOwned
  <1>1. ASSUME IInv, NEW f \in Facts PROVE f.incarnation <= peak[f.member]
    <2>0. up \subseteq Node /\ core \in [Node -> Core] /\ peak \in [Node -> Nat]
      BY <1>1 DEF IInv, TypeOK
    <2>1. ASSUME NEW n \in up, NEW m \in Node,
                 f = Item(m, Belief(n, m).status, Belief(n, m).incarnation)
          PROVE  f.incarnation <= peak[f.member]
      <3>1. /\ core[n].id = n /\ SelfAlive(core[n]) /\ Owned(core[n], peak)
            /\ core[n].incarnation <= peak[n]
        BY <1>1, <2>0 DEF IInv, CoresSound, Sound
      <3>2. f.incarnation = core[n].members[m].incarnation /\ f.member = m
        BY <2>1 DEF Item, Belief
      <3> QED BY <3>1, <3>2 DEF SelfAlive, Owned
    <2>2. ASSUME NEW n \in up, NEW g \in ToSet(core[n].queue), f = g.item
          PROVE  f.incarnation <= peak[f.member]
      <3>1. /\ core[n].id = n /\ Owned(core[n], peak) /\ core[n] \in Core
            /\ core[n].incarnation <= peak[n] /\ peak[n] \in Nat
        BY <1>1, <2>0 DEF IInv, CoresSound, Sound
      <3>2. core[n].queue \in Seq(Queued)
        BY <3>1, QueueItems
      <3>3. PICK k \in 1..Len(core[n].queue) : g = core[n].queue[k]
        BY <2>2, <3>2 DEF ToSet
      <3>4. OwnedItem(f, core[n], peak) /\ f.incarnation \in Nat
        BY <2>2, <3>1, <3>3, QueueItems DEF Owned
      <3>5. core[n].incarnation \in Nat
        BY <3>1 DEF Core
      <3> QED BY <3>1, <3>4, <3>5 DEF OwnedItem
    <2>3. ASSUME NEW e \in net, f \in ToSet(e.gossip)
          PROVE  f.incarnation <= peak[f.member]
      <3>1. e.gossip \in Seq(GossipItem)
        BY <1>1 DEF IInv, TypeOK, Envelope
      <3>2. PICK k \in 1..Len(e.gossip) : f = e.gossip[k]
        BY <2>3, <3>1 DEF ToSet
      <3> QED BY <1>1, <3>2 DEF IInv, MailSound
    <2> QED BY <1>1, <2>1, <2>2, <2>3 DEF Facts
  <1>2. IInv => IncarnationsAreOwned
    BY <1>1 DEF IncarnationsAreOwned
  <1> QED BY Inductive, <1>2, PTL

\* What a running node holds of a member only moves to a higher incarnation
\* or to a worse status, and never back from death, in every step of every
\* group (gossip.rs, merge).
THEOREM BeliefsGrow == Spec => BeliefsOnlyGrow
  <1>1. ASSUME IInv, [Next]_vars
        PROVE  \A n \in up, m \in Node :
                 (n \in up' /\ Belief(n, m) # Belief(n, m)') =>
                    /\ Belief(n, m).status # Dead
                    /\ \/ Belief(n, m)'.incarnation > Belief(n, m).incarnation
                       \/ /\ Belief(n, m)'.incarnation = Belief(n, m).incarnation
                          /\ Belief(n, m)'.status > Belief(n, m).status
    <2>1. RunningRise
      BY <1>1, NextKeeps
    <2> QED BY <2>1 DEF RunningRise, Rises, Belief
  <1> QED BY Inductive, <1>1, PTL DEF Spec, BeliefsOnlyGrow

=============================================================================
