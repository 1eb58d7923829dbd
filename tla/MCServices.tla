----------------------------- MODULE MCServices -----------------------------
(* One run for two services of a node beside its Raft group: notification, *)
(* which is Subscriptions with its own variables, and failure detection    *)
(* between a pair of nodes, an instance of Swim.  A behaviour is one of    *)
(* the service named by which; the other is at rest in it, the hub as new  *)
(* and the pair with no process running.                                   *)
EXTENDS Subscriptions

VARIABLES which, core, net, asked, up, late, crashes, restarts, peak

pair == <<core, net, asked, up, late, crashes, restarts, peak>>

-----------------------------------------------------------------------------
(* gems-subscribe: two entities, one attribute of two values, one view     *)

Inserts(e, as) == {[op |-> "insert", id |-> e, kind |-> "k", attr |-> a] : a \in as}

MCRecords ==
    {[op |-> "delete", id |-> 1]} \cup Inserts(1, {"x", "y", "absent"}) \cup Inserts(2, {"x"})
MCWatches ==
    {[on |-> o, id |-> 1] : o \in {"attr", "any", "deleted", "view"}}
MCPredicates == {[field |-> "kind", is |-> "k"], [field |-> "attr", is |-> "x"]}

-----------------------------------------------------------------------------
(* SWIM: two nodes, one fault, one crash, one restart, nobody polled       *)

Pair == INSTANCE Swim WITH
    Node <- {1, 2}, PingOrder <- << <<2>>, <<1>> >>,
    ProtocolPeriod <- 1, PingTimeout <- 1, SuspicionTimeout <- 3,
    RetransmitCount <- 4, MaxGossip <- 8, SeqModulus <- 2,
    MaxFaults <- 1, MaxCrashes <- 1, MaxRestarts <- 1, Polled <- {}, faults <- late

NobodyRuns ==
    /\ core = <<>> /\ net = {} /\ asked = {} /\ up = {} /\ peak = <<>>
    /\ late = 0 /\ crashes = 0 /\ restarts = 1

-----------------------------------------------------------------------------

ServicesInit ==
    /\ Init
    /\ \/ which = "hub" /\ NobodyRuns
       \/ which = "swim" /\ Pair!Init

ServicesNext ==
    /\ UNCHANGED which
    /\ \/ which = "hub" /\ Next /\ UNCHANGED pair
       \/ which = "swim" /\ Pair!Next /\ UNCHANGED vars

\* Engine threads go on; where no process runs, this asks for nothing.
ServicesSpec ==
    ServicesInit /\ [][ServicesNext]_<<which, vars, pair>> /\ Pair!Fairness

-----------------------------------------------------------------------------
(* ViewsExact and SubscribersKnow are Subscriptions' own                   *)

\* Every process that stays up comes to hold one that stays down for dead
\* (SwimCore::tick).
Detection == Pair!Detection
=============================================================================
