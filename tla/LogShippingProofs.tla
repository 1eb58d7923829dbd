------------------------- MODULE LogShippingProofs -------------------------
(***************************************************************************)
(* Proofs about LogShipping, for any ids, values and bounds: the readable  *)
(* log always says what the primary holds, a replica that kept its offset  *)
(* shows a prefix of it, one that lost it is right again when it has       *)
(* caught up, and the whole of it implements ReplicaView.                  *)
(***************************************************************************)
EXTENDS LogShipping, DataInduction, SequenceTheorems

-----------------------------------------------------------------------------
(* The inductive invariant.                                                *)

\* The record an append is in the middle of is the last one, torn.
Appending ==
    /\ pend.step = "append" => Len(log) < MaxRecords
    /\ pend.step = "rest" =>
          /\ log # <<>> /\ ~log[Len(log)].whole
          /\ log[Len(log)].rec = pend.rec

\* While every mutation has its record, only that one record can be torn,
\* and the store is one mutation ahead of the log while a call is under way.
Told ==
    ~unlogged =>
       /\ Len(Published) = IF pend.step = "rest" THEN Len(log) - 1 ELSE Len(log)
       /\ store = IF pend = NoOp THEN StateAfter(Len(Published))
                  ELSE Do(StateAfter(Len(Published)), pend.rec)

\* What the socket holds is what lies between the replica and the server.
InFlight ==
    /\ rep = Stopped => conn.stream = <<>> /\ ~conn.open
    /\ rep # Stopped =>
          /\ rep.offset + Len(conn.stream) = conn.pos
          /\ \A k \in 1..Len(conn.stream) : conn.stream[k] = Published[rep.offset + k]

\* The offset in the file and the one in memory against what is applied: a
\* record is applied before its offset is saved, so both may be one behind.
Offsets ==
    /\ saved # <<>> => applied \in {saved[1], saved[1] + 1}
    /\ rep.step = "read" =>
          /\ applied \in {rep.offset, rep.offset + 1}
          /\ saved # <<>> => saved[1] = rep.offset
    /\ rep.step \in {"save", "write"} => applied = rep.offset

\* An id reads as the records applied say, or none of them is about it and
\* one still to be applied is.
Settled ==
    \A i \in Id :
       \/ rstore[i] = StateAfter(applied)[i]
       \/ /\ \A k \in 1..applied : Published[k].id # i
          /\ \E k \in 1..Len(Published) : Published[k].id = i

IInv ==
    /\ TypeOK /\ Appending /\ Told /\ InFlight /\ Offsets /\ Settled
    /\ PrefixUnlessRewound

-----------------------------------------------------------------------------
(* The readable part of a log.                                             *)

LogEntry == [rec : Record, whole : BOOLEAN]

\* Readable counts whole records, and stops at a torn one or at the end.
LEMMA ReadableStops ==
    ASSUME NEW l \in Seq(LogEntry)
    PROVE  /\ Readable(l) \in 0..Len(l)
           /\ \A k \in 1..Readable(l) : l[k].whole
           /\ Readable(l) < Len(l) => ~l[Readable(l) + 1].whole
  <1> DEFINE torn == {k \in 1..Len(l) : ~l[k].whole}
  <1>0. Len(l) \in Nat
    OBVIOUS
  <1>1. CASE torn = {}
    <2>1. Readable(l) = Len(l)
      BY <1>1 DEF Readable
    <2>2. \A k \in 1..Len(l) : l[k].whole
      BY <1>1
    <2> QED BY <2>1, <2>2, <1>0
  <1>2. CASE torn # {}
    <2>1. Readable(l) = Min(torn) - 1
      BY <1>2 DEF Readable
    <2>2. Min(torn) \in torn /\ \A y \in torn : Min(torn) <= y
      <3>1. torn \subseteq Nat
        BY <1>0
      <3> HIDE DEF torn
      <3> QED BY <1>2, <3>1, MinIsLeast
    <2>3. Min(torn) \in 1..Len(l) /\ ~l[Min(torn)].whole
      BY <2>2
    <2>4. \A k \in 1..Len(l) : k < Min(torn) => l[k].whole
      BY <2>2, <2>3, <1>0
    <2> HIDE DEF torn
    <2> QED BY <2>1, <2>3, <2>4, <1>0
  <1> QED BY <1>1, <1>2

\* These facts determine it.
LEMMA ReadableIs ==
    ASSUME NEW l \in Seq(LogEntry), NEW n \in 0..Len(l),
           \A k \in 1..n : l[k].whole,
           n < Len(l) => ~l[n + 1].whole
    PROVE  Readable(l) = n
  <1>0. Len(l) \in Nat /\ n \in Nat
    OBVIOUS
  <1>1. /\ Readable(l) \in 0..Len(l)
        /\ \A k \in 1..Readable(l) : l[k].whole
        /\ Readable(l) < Len(l) => ~l[Readable(l) + 1].whole
    BY ReadableStops
  <1>2. ~(Readable(l) < n)
    <2> SUFFICES ASSUME Readable(l) < n PROVE FALSE
      OBVIOUS
    <2>1. Readable(l) + 1 \in 1..n /\ Readable(l) < Len(l)
      BY <1>0, <1>1
    <2> QED BY <2>1, <1>1
  <1>3. ~(n < Readable(l))
    <2> SUFFICES ASSUME n < Readable(l) PROVE FALSE
      OBVIOUS
    <2>1. n + 1 \in 1..Readable(l) /\ n < Len(l)
      BY <1>0, <1>1
    <2> QED BY <2>1, <1>1
  <1> QED BY <1>0, <1>1, <1>2, <1>3

\* The published records are the readable ones.
Recs(l) == [k \in 1..Readable(l) |-> l[k].rec]

LEMMA RecsAre ==
    ASSUME NEW l \in Seq(LogEntry)
    PROVE  /\ Recs(l) \in Seq(Record)
           /\ Len(Recs(l)) = Readable(l)
           /\ \A k \in 1..Len(Recs(l)) : Recs(l)[k] = l[k].rec /\ l[k].rec \in Record
           /\ Len(Recs(l)) \in 0..Len(l)
  <1>1. Readable(l) \in 0..Len(l) /\ Len(l) \in Nat
    BY ReadableStops
  <1>2. \A k \in 1..Readable(l) : l[k].rec \in Record
    <2>1. \A k \in 1..Len(l) : l[k] \in LogEntry
      OBVIOUS
    <2>2. \A e \in LogEntry : e.rec \in Record
      BY DEF LogEntry
    <2>3. \A k \in 1..Readable(l) : k \in 1..Len(l)
      BY <1>1
    <2> QED BY <2>1, <2>2, <2>3
  <1>3. Recs(l) \in Seq(Record)
    BY <1>1, <1>2 DEF Recs
  <1>4. Len(Recs(l)) = Readable(l)
    BY <1>1 DEF Recs
  <1>5. \A k \in 1..Readable(l) : Recs(l)[k] = l[k].rec
    BY DEF Recs
  <1> QED BY <1>1, <1>2, <1>3, <1>4, <1>5

LEMMA PublishedRecs == Published = Recs(log) /\ Published' = Recs(log')
  BY DEF Published, Recs

LEMMA PublishedIs ==
    ASSUME log \in Seq(LogEntry)
    PROVE  /\ Published \in Seq(Record)
           /\ Len(Published) = Readable(log)
           /\ \A k \in 1..Len(Published) : Published[k] = log[k].rec /\ log[k].rec \in Record
           /\ Len(Published) \in 0..Len(log)
  BY RecsAre, PublishedRecs

-----------------------------------------------------------------------------
(* Replaying records.                                                      *)

\* Among the first n records none is about i, or m is the last one that is.
NoneAbout(recs, n, i) == \A k \in 1..n : recs[k].id # i
LastIs(recs, n, i, m) ==
    m \in 1..n /\ recs[m].id = i /\ \A k \in 1..n : k > m => recs[k].id # i

LEMMA LastExists ==
    ASSUME NEW recs, NEW n \in Nat, NEW i
    PROVE  NoneAbout(recs, n, i) \/ \E m : LastIs(recs, n, i, m)
  <1> DEFINE about == {k \in 1..n : recs[k].id = i}
  <1>1. CASE about = {}
    BY <1>1 DEF NoneAbout
  <1>2. CASE about # {}
    <2>1. about \subseteq 0..n
      OBVIOUS
    <2>2. PICK m \in about : \A y \in about : m >= y
      <3> HIDE DEF about
      <3> QED BY <1>2, <2>1, MaxIsGreatest
    <2>3. LastIs(recs, n, i, m)
      BY <2>2 DEF LastIs
    <2> QED BY <2>3
  <1> QED BY <1>1, <1>2

\* What Replayed says of one id.
LEMMA ReplayedAt ==
    ASSUME NEW recs, NEW n \in Nat, NEW i \in Id
    PROVE  /\ NoneAbout(recs, n, i) => Replayed(recs, n)[i] = None
           /\ \A m : LastIs(recs, n, i, m) => Replayed(recs, n)[i] = recs[m].val
  <1> DEFINE about == {k \in 1..n : recs[k].id = i}
  <1>0. Replayed(recs, n)[i] = IF about = {} THEN None ELSE recs[Max(about)].val
    BY DEF Replayed
  <1>1. ASSUME NoneAbout(recs, n, i) PROVE Replayed(recs, n)[i] = None
    BY <1>0, <1>1 DEF NoneAbout
  <1>2. ASSUME NEW m, LastIs(recs, n, i, m)
        PROVE  Replayed(recs, n)[i] = recs[m].val
    <2>1. about \subseteq 0..n /\ m \in about
      BY <1>2 DEF LastIs
    <2>2. Max(about) \in about /\ \A y \in about : Max(about) >= y
      <3> HIDE DEF about
      <3> QED BY <2>1, MaxIsGreatest
    <2>3. Max(about) >= m /\ Max(about) \in 1..n /\ recs[Max(about)].id = i
      BY <2>1, <2>2
    <2>4. Max(about) = m
      <3> HIDE DEF about
      <3> QED BY <2>3, <1>2 DEF LastIs
    <2> HIDE DEF about
    <2> QED BY <1>0, <2>1, <2>4
  <1> QED BY <1>1, <1>2

LEMMA ReplayedType ==
    ASSUME NEW recs \in Seq(Record), NEW n \in 0..Len(recs)
    PROVE  /\ Replayed(recs, n) \in [Id -> Value \cup {None}]
           /\ DOMAIN Replayed(recs, n) = Id
  <1>1. n \in Nat /\ \A k \in 1..n : recs[k] \in Record
    OBVIOUS
  <1>2. ASSUME NEW i \in Id PROVE Replayed(recs, n)[i] \in Value \cup {None}
    <2>1. CASE NoneAbout(recs, n, i)
      BY <1>1, <2>1, ReplayedAt
    <2>2. ASSUME NEW m, LastIs(recs, n, i, m)
          PROVE  Replayed(recs, n)[i] \in Value \cup {None}
      <3>2. Replayed(recs, n)[i] = recs[m].val
        BY <1>1, <2>2, ReplayedAt
      <3>3. recs[m] \in Record
        BY <1>1, <2>2 DEF LastIs
      <3>4. recs[m].val \in Value \cup {None}
        BY <3>3 DEF Record
      <3> QED BY <3>2, <3>4
    <2> QED BY <1>1, <2>1, <2>2, LastExists
  <1>3. Replayed(recs, n) = [i \in Id |-> Replayed(recs, n)[i]]
    BY DEF Replayed
  <1> QED BY <1>2, <1>3

\* Nothing replayed is the empty store.
LEMMA ReplayedNone ==
    ASSUME NEW recs
    PROVE  Replayed(recs, 0) = Empty
  <1>1. ASSUME NEW i \in Id PROVE Replayed(recs, 0)[i] = None
    BY ReplayedAt DEF NoneAbout
  <1> QED BY <1>1 DEF Replayed, Empty

\* Only the first n records matter.
LEMMA ReplayedPrefix ==
    ASSUME NEW r1, NEW r2, NEW n \in Nat, \A k \in 1..n : r1[k] = r2[k]
    PROVE  Replayed(r1, n) = Replayed(r2, n)
  <1>1. ASSUME NEW i \in Id PROVE Replayed(r1, n)[i] = Replayed(r2, n)[i]
    <2>1. CASE NoneAbout(r1, n, i)
      <3>1. NoneAbout(r2, n, i)
        BY <2>1 DEF NoneAbout
      <3> QED BY <2>1, <3>1, ReplayedAt
    <2>2. ASSUME NEW m, LastIs(r1, n, i, m)
          PROVE  Replayed(r1, n)[i] = Replayed(r2, n)[i]
      <3>1. LastIs(r2, n, i, m) /\ r1[m] = r2[m]
        BY <2>2 DEF LastIs
      <3> QED BY <2>2, <3>1, ReplayedAt
    <2> QED BY <2>1, <2>2, LastExists
  <1> QED BY <1>1 DEF Replayed

\* The value a record leaves for its own id is its own ...
LEMMA ReplayedLast ==
    ASSUME NEW recs \in Seq(Record), NEW n \in 1..Len(recs)
    PROVE  Replayed(recs, n)[recs[n].id] = recs[n].val
  <1>1. recs[n] \in Record /\ n \in Nat
    OBVIOUS
  <1>2. recs[n].id \in Id
    BY <1>1 DEF Record
  <1>3. LastIs(recs, n, recs[n].id, n)
    BY DEF LastIs
  <1> QED BY <1>1, <1>2, <1>3, ReplayedAt

\* ... and the others keep theirs.
LEMMA ReplayedOthers ==
    ASSUME NEW recs \in Seq(Record), NEW n \in 1..Len(recs),
           NEW i \in Id, recs[n].id # i
    PROVE  Replayed(recs, n)[i] = Replayed(recs, n - 1)[i]
  <1>0. n \in Nat /\ n - 1 \in Nat
    OBVIOUS
  <1>1. CASE NoneAbout(recs, n - 1, i)
    <2>1. NoneAbout(recs, n, i)
      BY <1>1, <1>0 DEF NoneAbout
    <2> QED BY <1>0, <1>1, <2>1, ReplayedAt
  <1>2. ASSUME NEW m, LastIs(recs, n - 1, i, m)
        PROVE  Replayed(recs, n)[i] = Replayed(recs, n - 1)[i]
    <2>1. LastIs(recs, n, i, m)
      BY <1>2, <1>0 DEF LastIs
    <2> QED BY <1>0, <1>2, <2>1, ReplayedAt
  <1> QED BY <1>0, <1>1, <1>2, LastExists

\* Replaying one more record is doing what it says.
LEMMA ReplayedStep ==
    ASSUME NEW recs \in Seq(Record), NEW n \in 0..(Len(recs) - 1)
    PROVE  Replayed(recs, n + 1) = Do(Replayed(recs, n), recs[n + 1])
  <1>1. n + 1 \in 1..Len(recs) /\ n \in 0..Len(recs) /\ (n + 1) - 1 = n
        /\ n + 1 \in 0..Len(recs)
    OBVIOUS
  <1>2. ASSUME NEW i \in Id
        PROVE  Replayed(recs, n + 1)[i] = Do(Replayed(recs, n), recs[n + 1])[i]
    <2>1. DOMAIN Replayed(recs, n) = Id
      BY <1>1, ReplayedType
    <2>2. CASE recs[n + 1].id = i
      <3>1. Replayed(recs, n + 1)[i] = recs[n + 1].val
        BY <1>1, <2>2, ReplayedLast
      <3> QED BY <2>1, <2>2, <3>1 DEF Do
    <2>3. CASE recs[n + 1].id # i
      <3>1. Replayed(recs, n + 1)[i] = Replayed(recs, n)[i]
        BY <1>1, <2>3, ReplayedOthers
      <3> QED BY <2>1, <2>3, <3>1 DEF Do
    <2> QED BY <2>2, <2>3
  <1>3. DOMAIN Replayed(recs, n) = Id /\ DOMAIN Replayed(recs, n + 1) = Id
    BY <1>1, ReplayedType
  <1>4. DOMAIN Do(Replayed(recs, n), recs[n + 1]) = Id
    BY <1>3 DEF Do
  <1>5. /\ Replayed(recs, n + 1) = [i \in Id |-> Replayed(recs, n + 1)[i]]
        /\ Do(Replayed(recs, n), recs[n + 1])
              = [i \in Id |-> Do(Replayed(recs, n), recs[n + 1])[i]]
    BY <1>3, <1>4 DEF Do, Replayed
  <1> QED BY <1>2, <1>5

-----------------------------------------------------------------------------
(* What a step does to the published records.                              *)

\* They only grow: what could be read can be read, unchanged.
Grows ==
    /\ Len(Published) <= Len(Published')
    /\ \A k \in 1..Len(Published) : Published'[k] = Published[k]

LEMMA LogTyped == TypeOK => log \in Seq(LogEntry)
  BY DEF TypeOK, LogEntry

\* A record of which only the length is there is not one.
LEMMA PrefixUnread ==
    ASSUME TypeOK, Appending, AppendPrefix
    PROVE  /\ Published' = Published
           /\ log' \in Seq(LogEntry) /\ Len(log') <= MaxRecords
           /\ Len(log') = Len(log) + 1
           /\ log'[Len(log')] = [rec |-> pend.rec, whole |-> FALSE]
  <1> DEFINE e == [rec |-> pend.rec, whole |-> FALSE]
             n == Readable(log)
  <1>1. log \in Seq(LogEntry) /\ Len(log) < MaxRecords /\ MaxRecords \in Nat
    BY LogTyped, LogAssumption DEF Appending, AppendPrefix
  <1>2. e \in LogEntry
    BY DEF TypeOK, AppendPrefix, NoOp, LogEntry
  <1>3. log' = Append(log, e)
    BY DEF AppendPrefix
  <1> HIDE DEF e
  <1>4. /\ log' \in Seq(LogEntry) /\ Len(log') = Len(log) + 1
        /\ log'[Len(log) + 1] = e
        /\ \A k \in 1..Len(log) : log'[k] = log[k]
    BY <1>1, <1>2, <1>3
  <1>5. /\ n \in 0..Len(log)
        /\ \A k \in 1..n : log[k].whole
        /\ n < Len(log) => ~log[n + 1].whole
    BY <1>1, ReadableStops
  <1> HIDE DEF n
  <1>6. \A k \in 1..n : log'[k].whole
    BY <1>1, <1>4, <1>5
  <1>7. ~log'[n + 1].whole
    <2>1. CASE n < Len(log)
      BY <1>1, <1>4, <1>5, <2>1
    <2>2. CASE n = Len(log)
      BY <1>4, <2>2 DEF e
    <2> QED BY <1>1, <1>5, <2>1, <2>2
  <1>8. Readable(log') = n
    BY <1>1, <1>4, <1>5, <1>6, <1>7, ReadableIs
  <1>9. Published' = Published
    <2>1. Published' = [k \in 1..n |-> log'[k].rec]
      BY <1>8 DEF Published
    <2>2. Published = [k \in 1..n |-> log[k].rec]
      BY DEF Published, n
    <2>3. \A k \in 1..n : log'[k].rec = log[k].rec
      BY <1>1, <1>4, <1>5
    <2> QED BY <2>1, <2>2, <2>3
  <1> QED
    BY <1>1, <1>4, <1>9 DEF e

\* The rest of a record publishes it, unless a torn one lies before it.
LEMMA RestRead ==
    ASSUME TypeOK, Appending, AppendRest
    PROVE  /\ log' \in Seq(LogEntry) /\ Len(log') = Len(log)
           /\ Garbled => Published' = Published
           /\ ~Garbled => /\ Len(Published) = Len(log) - 1
                          /\ Published' = Append(Published, pend.rec)
  <1> DEFINE n == Readable(log)
             last == Len(log)
  <1>1. /\ log \in Seq(LogEntry) /\ last \in Nat \ {0}
        /\ ~log[last].whole /\ log[last].rec = pend.rec /\ pend.rec \in Record
    BY LogTyped DEF Appending, AppendRest, TypeOK, NoOp
  <1>2. log' = [log EXCEPT ![last].whole = TRUE]
    BY DEF AppendRest
  <1>3. log[last] \in LogEntry /\ DOMAIN log = 1..last
    BY <1>1
  <1>4. /\ DOMAIN log' = 1..last
        /\ log'[last] = [log[last] EXCEPT !.whole = TRUE]
        /\ \A k \in 1..last : k # last => log'[k] = log[k]
    <2> DEFINE e == [log[last] EXCEPT !.whole = TRUE]
    <2>1. log' = [log EXCEPT ![last] = e]
      BY <1>2
    <2> HIDE DEF e, last
    <2>2. last \in DOMAIN log
      BY <1>1, <1>3
    <2>3. DOMAIN log' = 1..last /\ log'[last] = e
          /\ \A k \in 1..last : k # last => log'[k] = log[k]
      BY <1>3, <2>1, <2>2
    <2> QED BY <2>3 DEF e
  <1>5. log'[last] \in LogEntry /\ log'[last].whole /\ log'[last].rec = pend.rec
    BY <1>1, <1>3, <1>4 DEF LogEntry
  <1>6. log' \in Seq(LogEntry) /\ Len(log') = last
    <2>1. \A k \in 1..last : log'[k] \in LogEntry
      BY <1>1, <1>4, <1>5
    <2>2. log' = [k \in 1..last |-> log'[k]]
      BY <1>2, <1>4
    <2> QED BY <1>1, <2>1, <2>2
  <1>7. /\ n \in 0..last
        /\ \A k \in 1..n : log[k].whole
        /\ n < last => ~log[n + 1].whole
    BY <1>1, ReadableStops
  <1>7a. Len(Published) = n
    BY <1>1, PublishedIs
  <1>8. n < last
    BY <1>1, <1>7
  <1>9. Garbled <=> n + 1 < last
    BY <1>1, <1>7, <1>7a DEF Garbled
  <1>10. Published = [k \in 1..n |-> log[k].rec]
    BY DEF Published
  <1> HIDE DEF n, last
  <1>11. ASSUME Garbled PROVE Published' = Published
    <2>1. n + 1 \in 1..last /\ n + 1 # last /\ \A k \in 1..n : k \in 1..last /\ k # last
      BY <1>1, <1>7, <1>9, <1>11
    <2>2. Readable(log') = n
      <3>1. \A k \in 1..n : log'[k].whole
        BY <2>1, <1>4, <1>7
      <3>2. ~log'[n + 1].whole
        BY <2>1, <1>4, <1>7, <1>8
      <3> QED BY <1>6, <1>7, <3>1, <3>2, ReadableIs
    <2>3. Published' = [k \in 1..n |-> log'[k].rec]
      BY <2>2 DEF Published
    <2> QED BY <2>1, <2>3, <1>4, <1>10
  <1>12. ASSUME ~Garbled
         PROVE  Len(Published) = last - 1 /\ Published' = Append(Published, pend.rec)
    <2>1. n = last - 1
      BY <1>1, <1>7, <1>8, <1>9, <1>12
    <2>2. Readable(log') = last
      <3>1. \A k \in 1..last : log'[k].whole
        <4> TAKE k \in 1..last
        <4>1. CASE k = last BY <4>1, <1>5
        <4>2. CASE k # last
          <5>1. k \in 1..n
            BY <4>2, <2>1, <1>1
          <5> QED BY <5>1, <4>2, <1>4, <1>7
        <4> QED BY <4>1, <4>2
      <3>2. last \in 0..Len(log')
        BY <1>1, <1>6
      <3> QED BY <1>6, <3>1, <3>2, ReadableIs
    <2>3. Published' = [k \in 1..last |-> log'[k].rec]
      BY <2>2 DEF Published
    <2>4. Published \in Seq(Record)
      BY <1>1, PublishedIs
    <2>5. \A k \in 1..last : log'[k].rec = IF k = last THEN pend.rec ELSE Published[k]
      <3> TAKE k \in 1..last
      <3>1. CASE k = last BY <3>1, <1>5
      <3>2. CASE k # last
        <4>1. k \in 1..n
          BY <3>2, <2>1, <1>1
        <4> QED BY <4>1, <3>2, <1>4, <1>10
      <3> QED BY <3>1, <3>2
    <2>6. Append(Published, pend.rec) \in Seq(Record) /\ Len(Append(Published, pend.rec)) = last
      BY <2>1, <2>4, <1>1, <1>7a
    <2>7. \A k \in 1..last : Append(Published, pend.rec)[k] = log'[k].rec
      BY <2>1, <2>4, <2>5, <1>1, <1>7a
    <2>8. Append(Published, pend.rec) = [k \in 1..last |-> Append(Published, pend.rec)[k]]
      BY <2>6
    <2>9. Append(Published, pend.rec) = [k \in 1..last |-> log'[k].rec]
      BY <2>7, <2>8
    <2> QED BY <1>7a, <2>1, <2>3, <2>9
  <1> QED
    BY <1>6, <1>11, <1>12 DEF last

-----------------------------------------------------------------------------
(* The steps.  Those of the primary leave the replica's side as it is, and *)
(* the other way round.                                                    *)

PrimaryTyped ==
    /\ store \in [Id -> Value \cup {None}]
    /\ pend = NoOp \/ pend \in [step : {"append", "rest"}, rec : Record]
    /\ log \in Seq(LogEntry) /\ Len(log) <= MaxRecords
    /\ mishaps \in 0..MaxMishaps /\ unlogged \in BOOLEAN

ReplicaTyped ==
    /\ rstore \in [Id -> Value \cup {None}]
    /\ conn \in [open : BOOLEAN, pos : 0..Len(Published), stream : Seq(Record)]
    /\ rep = Stopped \/ rep \in [step : {"read", "save", "write"}, offset : 0..Len(Published)]
    /\ saved = <<>> \/ saved \in [1..1 -> 0..Len(Published)]
    /\ applied \in 0..Len(Published) /\ rewound \in BOOLEAN

PrimaryInv == PrimaryTyped /\ Appending /\ Told
ReplicaInv == ReplicaTyped /\ InFlight /\ Offsets /\ Settled /\ PrefixUnlessRewound

LEMMA TwoSides ==
    /\ IInv <=> PrimaryInv /\ ReplicaInv
    /\ IInv' <=> (PrimaryInv /\ ReplicaInv)'
  BY DEF IInv, TypeOK, PrimaryInv, ReplicaInv, PrimaryTyped, ReplicaTyped, LogEntry

\* The replica's side survives whatever only adds to the published records.
LEMMA ReplicaKeeps ==
    ASSUME log \in Seq(LogEntry), log' \in Seq(LogEntry), ReplicaInv, Grows,
           UNCHANGED <<rep, saved, rstore, rewound, applied>>,
           conn' = conn \/ conn' = [conn EXCEPT !.open = FALSE]
    PROVE  ReplicaInv'
  <1> DEFINE n == Len(Published)
             m == Len(Published')
  <1>1. n \in Nat /\ m \in Nat /\ n <= m
    <2>1. n \in 0..Len(log) /\ Len(log) \in Nat
      BY PublishedIs
    <2>2. Len(Published') \in 0..Len(log') /\ Len(log') \in Nat
      BY RecsAre, PublishedRecs
    <2> QED BY <2>1, <2>2 DEF Grows
  <1>2. \A k \in 1..n : k \in 1..m /\ Published'[k] = Published[k]
    BY <1>1 DEF Grows
  <1>3. applied \in 0..n /\ applied' = applied
    BY DEF ReplicaInv, ReplicaTyped
  <1>4. StateAfter(applied)' = StateAfter(applied)
    <2>1. \A k \in 1..applied : Published'[k] = Published[k]
      BY <1>1, <1>2, <1>3
    <2>2. Replayed(Published', applied) = Replayed(Published, applied)
      BY <1>1, <1>3, <2>1, ReplayedPrefix
    <2> QED BY <1>3, <2>2 DEF StateAfter
  <1>5. 0..n \subseteq 0..m
    BY <1>1
  <1>6. conn' \in [open : BOOLEAN, pos : 0..n, stream : Seq(Record)]
        /\ conn'.pos = conn.pos /\ conn'.stream = conn.stream /\ (conn'.open => conn.open)
    BY DEF ReplicaInv, ReplicaTyped
  <1> HIDE DEF n, m
  <1>7. ReplicaTyped'
    <2>1. conn' \in [open : BOOLEAN, pos : 0..m, stream : Seq(Record)]
      BY <1>5, <1>6
    <2>2. rep' = Stopped \/ rep' \in [step : {"read", "save", "write"}, offset : 0..m]
      BY <1>5 DEF ReplicaInv, ReplicaTyped, n
    <2>3. saved' = <<>> \/ saved' \in [1..1 -> 0..m]
      BY <1>5 DEF ReplicaInv, ReplicaTyped, n
    <2> QED BY <1>3, <1>5, <2>1, <2>2, <2>3 DEF ReplicaInv, ReplicaTyped, m, Stopped
  <1>8. InFlight'
    <2>1. CASE rep = Stopped
      BY <1>6, <2>1 DEF ReplicaInv, InFlight, Stopped
    <2>2. CASE rep # Stopped
      <3>1. rep.offset \in 0..n /\ conn.pos \in 0..n /\ Len(conn.stream) \in Nat
        BY <1>6, <2>2 DEF ReplicaInv, ReplicaTyped, n
      <3>2. rep.offset + Len(conn.stream) = conn.pos
            /\ \A k \in 1..Len(conn.stream) : conn.stream[k] = Published[rep.offset + k]
        BY <2>2 DEF ReplicaInv, InFlight
      <3>3. \A k \in 1..Len(conn.stream) : rep.offset + k \in 1..n
        BY <1>1, <3>1, <3>2
      <3>4. \A k \in 1..Len(conn.stream) : conn.stream[k] = Published'[rep.offset + k]
        BY <1>2, <3>2, <3>3
      <3> QED BY <1>6, <2>2, <3>2, <3>4 DEF InFlight, Stopped
    <2> QED BY <2>1, <2>2
  <1>9. Offsets'
    BY DEF ReplicaInv, Offsets
  <1>10. Settled'
    <2> SUFFICES ASSUME NEW i \in Id
                 PROVE  \/ rstore[i] = StateAfter(applied)[i]
                        \/ /\ \A k \in 1..applied : Published'[k].id # i
                           /\ \E k \in 1..m : Published'[k].id = i
      BY <1>3, <1>4 DEF Settled, m
    <2>1. CASE rstore[i] = StateAfter(applied)[i]
      BY <2>1
    <2>2. CASE /\ \A k \in 1..applied : Published[k].id # i
               /\ \E k \in 1..n : Published[k].id = i
      <3>1. \A k \in 1..applied : k \in 1..n
        BY <1>1, <1>3
      <3> QED BY <1>2, <2>2, <3>1
    <2> QED BY <2>1, <2>2 DEF ReplicaInv, Settled, n
  <1>11. PrefixUnlessRewound'
    BY <1>3, <1>4 DEF ReplicaInv, PrefixUnlessRewound
  <1> QED
    BY <1>7, <1>8, <1>9, <1>10, <1>11 DEF ReplicaInv

LEMMA GrowsIfSame == (log \in Seq(LogEntry) /\ Published' = Published) => Grows
  <1> SUFFICES ASSUME log \in Seq(LogEntry), Published' = Published PROVE Grows
    OBVIOUS
  <1>1. Len(Published) \in 0..Len(log)
    BY PublishedIs
  <1> QED BY <1>1 DEF Grows

\* The primary's side, action by action; each adds to the published records
\* or leaves them.
LEMMA MutateKeeps ==
    ASSUME PrimaryInv, NEW i \in Id, NEW v \in Value \cup {None},
           pend = NoOp, Len(log) < MaxRecords,
           store' = [store EXCEPT ![i] = v],
           pend' = [step |-> "append", rec |-> [id |-> i, val |-> v]],
           UNCHANGED <<log, unlogged, mishaps>>
    PROVE  PrimaryInv' /\ Published' = Published
  <1> DEFINE r == [id |-> i, val |-> v]
  <1>1. r \in Record /\ pend'.step = "append" /\ pend'.rec = r
    BY DEF Record
  <1>2. Published' = Published
    BY DEF Published
  <1>3. PrimaryTyped'
    BY <1>1 DEF PrimaryInv, PrimaryTyped
  <1>4. Appending'
    BY <1>1 DEF Appending
  <1>5. Told'
    <2> SUFFICES ASSUME ~unlogged
                 PROVE  /\ Len(Published) = Len(log)
                        /\ store' = Do(StateAfter(Len(Published)), r)
      BY <1>1, <1>2 DEF Told, StateAfter, NoOp
    <2>1. Len(Published) = Len(log) /\ store = StateAfter(Len(Published))
      BY DEF PrimaryInv, Told, NoOp
    <2> QED BY <2>1 DEF Do
  <1> QED BY <1>2, <1>3, <1>4, <1>5 DEF PrimaryInv

LEMMA PrefixKeeps ==
    ASSUME TypeOK, PrimaryInv, AppendPrefix
    PROVE  PrimaryInv' /\ Published' = Published
  <1>0. Appending
    BY DEF PrimaryInv
  <1>1. /\ Published' = Published
        /\ log' \in Seq(LogEntry) /\ Len(log') <= MaxRecords
        /\ Len(log') = Len(log) + 1
        /\ log'[Len(log')] = [rec |-> pend.rec, whole |-> FALSE]
    BY <1>0, PrefixUnread
  <1>2. pend \in [step : {"append", "rest"}, rec : Record]
    BY DEF PrimaryInv, PrimaryTyped, AppendPrefix, NoOp
  <1>3. pend' \in [step : {"append", "rest"}, rec : Record]
        /\ pend'.step = "rest" /\ pend'.rec = pend.rec
    BY <1>2 DEF AppendPrefix
  <1>4. PrimaryTyped'
    BY <1>1, <1>3 DEF PrimaryInv, PrimaryTyped, AppendPrefix
  <1>5. log \in Seq(LogEntry) /\ Len(log) \in Nat
    BY LogTyped
  <1>6. Appending'
    BY <1>1, <1>3, <1>5 DEF Appending
  <1>7. Told'
    <2> SUFFICES ASSUME ~unlogged
                 PROVE  /\ Len(Published) = Len(log') - 1
                        /\ store = Do(StateAfter(Len(Published)), pend.rec)
      BY <1>1, <1>3 DEF Told, StateAfter, NoOp, AppendPrefix
    <2>1. /\ Len(Published) = Len(log)
          /\ store = Do(StateAfter(Len(Published)), pend.rec)
      BY DEF PrimaryInv, Told, NoOp, AppendPrefix
    <2> QED BY <2>1, <1>1, <1>5
  <1> QED BY <1>1, <1>4, <1>6, <1>7 DEF PrimaryInv

LEMMA RestKeeps ==
    ASSUME TypeOK, PrimaryInv, AppendRest
    PROVE  PrimaryInv' /\ Grows /\ (Published' = Published \/ Published' = Append(Published, pend.rec))
  <1>0. Appending /\ pend.rec \in Record /\ log \in Seq(LogEntry) /\ Len(log) \in Nat \ {0}
    BY LogTyped DEF PrimaryInv, PrimaryTyped, AppendRest, NoOp, Appending
  <1>1. /\ log' \in Seq(LogEntry) /\ Len(log') = Len(log)
        /\ Garbled => Published' = Published
        /\ ~Garbled => /\ Len(Published) = Len(log) - 1
                       /\ Published' = Append(Published, pend.rec)
    BY <1>0, RestRead
  <1>2. Published \in Seq(Record)
    BY <1>0, PublishedIs
  <1>3. Grows
    <2>1. CASE Garbled
      BY <1>0, <1>1, <2>1, GrowsIfSame
    <2>2. CASE ~Garbled
      BY <1>0, <1>1, <1>2, <2>2 DEF Grows
    <2> QED BY <2>1, <2>2
  <1>4. PrimaryTyped'
    BY <1>1 DEF PrimaryInv, PrimaryTyped, AppendRest
  <1>5. Appending'
    BY DEF Appending, AppendRest, NoOp
  <1>6. Told'
    <2> SUFFICES ASSUME ~unlogged, ~Garbled
                 PROVE  /\ Len(Published') = Len(log)
                        /\ store = Replayed(Published', Len(Published'))
      BY <1>1 DEF Told, StateAfter, NoOp, AppendRest
    <2> DEFINE n == Len(Published)
    <2>1. /\ n = Len(log) - 1 /\ n \in Nat
          /\ Published' = Append(Published, pend.rec)
      BY <1>0, <1>1
    <2>2. /\ Published' \in Seq(Record) /\ Len(Published') = n + 1
          /\ Published'[n + 1] = pend.rec
          /\ \A k \in 1..n : Published'[k] = Published[k]
      BY <1>0, <1>2, <2>1
    <2>3. store = Do(Replayed(Published, n), pend.rec)
      BY DEF PrimaryInv, Told, StateAfter, NoOp, AppendRest
    <2>4. Replayed(Published', n) = Replayed(Published, n)
      BY <2>1, <2>2, ReplayedPrefix
    <2>5. Replayed(Published', n + 1) = Do(Replayed(Published', n), pend.rec)
      <3>1. n \in 0..(Len(Published') - 1)
        BY <2>1, <2>2
      <3> HIDE DEF n
      <3>2. Replayed(Published', n + 1) = Do(Replayed(Published', n), Published'[n + 1])
        BY <2>2, <3>1, ReplayedStep
      <3> QED BY <2>2, <3>2
    <2> QED BY <1>0, <2>1, <2>2, <2>3, <2>4, <2>5
  <1> QED BY <1>1, <1>3, <1>4, <1>5, <1>6 DEF PrimaryInv

LEMMA CutKeeps ==
    ASSUME PrimaryInv, Mishap, pend' = NoOp,
           unlogged' = TRUE \/ (unlogged' = unlogged /\ pend = NoOp),
           UNCHANGED <<store, log>>
    PROVE  PrimaryInv' /\ Published' = Published
  <1>1. Published' = Published
    BY DEF Published
  <1>2. mishaps' \in 0..MaxMishaps
    BY LogAssumption DEF PrimaryInv, PrimaryTyped, Mishap
  <1>3. PrimaryTyped'
    BY <1>2 DEF PrimaryInv, PrimaryTyped
  <1>4. Appending'
    BY DEF Appending, NoOp
  <1>5. Told'
    BY <1>1 DEF PrimaryInv, Told, StateAfter, NoOp
  <1> QED BY <1>1, <1>3, <1>4, <1>5 DEF PrimaryInv

\* A step of the server or of the replica leaves the primary's side.
LEMMA PrimaryKept ==
    ASSUME PrimaryInv, UNCHANGED primaryVars, mishaps' = mishaps \/ Mishap
    PROVE  PrimaryInv' /\ Published' = Published
  <1>1. Published' = Published
    BY DEF Published, primaryVars
  <1>2. mishaps' \in 0..MaxMishaps
    BY LogAssumption DEF PrimaryInv, PrimaryTyped, Mishap
  <1>3. PrimaryTyped'
    BY <1>2 DEF PrimaryInv, PrimaryTyped, primaryVars
  <1>4. Appending'
    BY DEF PrimaryInv, Appending, primaryVars
  <1>5. Told'
    BY <1>1 DEF PrimaryInv, Told, StateAfter, primaryVars
  <1> QED BY <1>1, <1>3, <1>4, <1>5 DEF PrimaryInv

\* The server's steps and the replica's, action by action.
LEMMA ServeKeeps ==
    ASSUME log \in Seq(LogEntry), ReplicaInv, Serve
    PROVE  ReplicaInv'
  <1> DEFINE n == Len(Published)
             more == SubSeq(Published, conn.pos + 1, n)
  <1>1. Published' = Published
    BY DEF Published, Serve, primaryVars
  <1>2. Published \in Seq(Record) /\ n \in Nat
    BY PublishedIs
  <1>3. /\ conn \in [open : BOOLEAN, pos : 0..n, stream : Seq(Record)]
        /\ conn.pos \in 0..n /\ conn.stream \in Seq(Record) /\ conn.open
        /\ conn.pos < n
    BY DEF ReplicaInv, ReplicaTyped, Serve
  <1>4. /\ more \in Seq(Record) /\ Len(more) = n - conn.pos
        /\ \A k \in 1..(n - conn.pos) : more[k] = Published[conn.pos + k]
    BY <1>2, <1>3
  <1>5. conn' = [conn EXCEPT !.pos = n, !.stream = conn.stream \o more]
    BY DEF Serve
  <1> HIDE DEF n, more
  <1>5a. /\ conn.stream \o more \in Seq(Record)
         /\ Len(conn.stream \o more) = Len(conn.stream) + Len(more)
         /\ \A k \in 1..Len(conn.stream) + Len(more) :
               (conn.stream \o more)[k] = IF k <= Len(conn.stream) THEN conn.stream[k]
                                          ELSE more[k - Len(conn.stream)]
    BY <1>3, <1>4, ConcatProperties
  <1>6. /\ conn' \in [open : BOOLEAN, pos : 0..n, stream : Seq(Record)]
        /\ conn'.pos = n /\ conn'.stream = conn.stream \o more
    <2> DEFINE t == conn.stream \o more
    <2> HIDE DEF t
    <2>1. t \in Seq(Record) /\ conn' = [conn EXCEPT !.pos = n, !.stream = t]
      BY <1>5, <1>5a DEF t
    <2>2. conn' \in [open : BOOLEAN, pos : 0..n, stream : Seq(Record)]
          /\ conn'.pos = n /\ conn'.stream = t
      <3>1. n \in 0..n
        BY <1>2
      <3> DEFINE P == 0..n
                 S == Seq(Record)
      <3> HIDE DEF P, S
      <3>2. conn \in [open : BOOLEAN, pos : P, stream : S] /\ n \in P /\ t \in S
        BY <1>3, <2>1, <3>1 DEF P, S
      <3>3. conn' \in [open : BOOLEAN, pos : P, stream : S]
            /\ conn'.pos = n /\ conn'.stream = t
        BY <2>1, <3>2
      <3> QED BY <3>3 DEF P, S
    <2> QED BY <2>2 DEF t
  <1>7. UNCHANGED <<rep, saved, rstore, rewound, applied>>
    BY DEF Serve, replicaVars
  <1>8. rep # Stopped /\ rep.offset \in 0..n
        /\ rep.offset + Len(conn.stream) = conn.pos
        /\ \A k \in 1..Len(conn.stream) : conn.stream[k] = Published[rep.offset + k]
    BY <1>3 DEF ReplicaInv, InFlight, ReplicaTyped, n
  <1>9. InFlight'
    <2> DEFINE s == conn.stream
    <2>1. Len(s) \in Nat /\ Len(s \o more) = Len(s) + (n - conn.pos)
      BY <1>2, <1>3, <1>4, <1>5a
    <2>2. rep.offset + Len(s \o more) = n
      BY <1>2, <1>3, <1>8, <2>1
    <2>3. ASSUME NEW k \in 1..Len(s \o more)
          PROVE  (s \o more)[k] = Published[rep.offset + k]
      <3>1. CASE k <= Len(s)
        BY <1>3, <1>4, <1>5a, <1>8, <2>1, <3>1
      <3>2. CASE k > Len(s)
        <4>1. (s \o more)[k] = more[k - Len(s)] /\ k - Len(s) \in 1..(n - conn.pos)
          BY <1>2, <1>3, <1>4, <1>5a, <2>1, <3>2
        <4>2. conn.pos + (k - Len(s)) = rep.offset + k
          BY <1>2, <1>3, <1>8, <2>1
        <4> QED BY <4>1, <4>2, <1>4
      <3> QED BY <2>1, <3>1, <3>2
    <2> QED BY <1>1, <1>6, <1>7, <1>8, <2>2, <2>3 DEF InFlight, Stopped
  <1>10. ReplicaTyped'
    BY <1>1, <1>6, <1>7 DEF ReplicaInv, ReplicaTyped, n, Stopped
  <1>11. Offsets' /\ Settled' /\ PrefixUnlessRewound'
    BY <1>1, <1>7 DEF ReplicaInv, Offsets, Settled, PrefixUnlessRewound, StateAfter
  <1> QED BY <1>9, <1>10, <1>11 DEF ReplicaInv

\* The replica that starts again without an offset: nothing of what it holds
\* is about an id the log does not name.
LEMMA SettledAtZero ==
    ASSUME log \in Seq(LogEntry), applied \in 0..Len(Published), Settled, NEW i \in Id
    PROVE  rstore[i] = Empty[i] \/ \E k \in 1..Len(Published) : Published[k].id = i
  <1>0. Published \in Seq(Record) /\ Len(Published) \in Nat
    BY PublishedIs
  <1>1. CASE \E k \in 1..Len(Published) : Published[k].id = i
    BY <1>1
  <1>2. CASE \A k \in 1..Len(Published) : Published[k].id # i
    <2>1. rstore[i] = StateAfter(applied)[i]
      BY <1>2 DEF Settled
    <2>2. NoneAbout(Published, applied, i)
      BY <1>0, <1>2 DEF NoneAbout
    <2>3. StateAfter(applied)[i] = None
      BY <1>0, <2>2, ReplayedAt DEF StateAfter
    <2> QED BY <2>1, <2>3 DEF Empty
  <1> QED BY <1>1, <1>2

LEMMA ConnectKeeps ==
    ASSUME log \in Seq(LogEntry), ReplicaInv, Connect
    PROVE  ReplicaInv' /\ rstore' = rstore /\ (applied' = applied \/ applied' = 0)
  <1> DEFINE n == Len(Published)
             o == load_offset
  <1>1. Published' = Published
    BY DEF Published, Connect, primaryVars
  <1>2. Published \in Seq(Record) /\ n \in Nat
    BY PublishedIs
  <1>3. o \in 0..n /\ (saved # <<>> => o = saved[1]) /\ (saved = <<>> => o = 0)
    BY <1>2 DEF ReplicaInv, ReplicaTyped, load_offset
  <1>4. /\ conn' = [open |-> TRUE, pos |-> o, stream |-> <<>>]
        /\ rep' = [step |-> "read", offset |-> o]
        /\ rewound' = (rewound \/ o + 1 < applied)
        /\ applied' = IF o + 1 < applied THEN 0 ELSE applied
        /\ saved' = saved /\ rstore' = rstore
    BY DEF Connect
  <1>5. applied \in 0..n /\ (saved # <<>> => applied \in {o, o + 1})
    BY <1>3 DEF ReplicaInv, ReplicaTyped, Offsets
  <1> HIDE DEF n, o
  <1>6. ReplicaTyped'
    <2>1. conn' \in [open : BOOLEAN, pos : 0..n, stream : Seq(Record)]
      BY <1>3, <1>4
    <2>2. rep' \in [step : {"read", "save", "write"}, offset : 0..n]
      BY <1>3, <1>4
    <2>3. applied' \in 0..n
      BY <1>2, <1>4, <1>5
    <2> QED BY <1>1, <1>4, <2>1, <2>2, <2>3 DEF ReplicaInv, ReplicaTyped, n
  <1>7. InFlight'
    BY <1>2, <1>3, <1>4 DEF InFlight, Stopped
  <1>8. Offsets'
    BY <1>2, <1>3, <1>4, <1>5 DEF Offsets
  <1>9. Settled'
    <2> SUFFICES ASSUME NEW i \in Id, o + 1 < applied
                 PROVE  \/ rstore[i] = Replayed(Published, 0)[i]
                        \/ \E k \in 1..n : Published[k].id = i
      BY <1>1, <1>4 DEF ReplicaInv, Settled, StateAfter, n
    <2> QED BY <1>5, SettledAtZero, ReplayedNone DEF ReplicaInv, n
  <1>10. PrefixUnlessRewound'
    BY <1>1, <1>4 DEF ReplicaInv, PrefixUnlessRewound, StateAfter
  <1> QED BY <1>4, <1>6, <1>7, <1>8, <1>9, <1>10 DEF ReplicaInv

\* A record applied is the next one, or the last one once more.
LEMMA ApplyKeeps ==
    ASSUME log \in Seq(LogEntry), ReplicaInv, ApplyRecord
    PROVE  /\ ReplicaInv'
           /\ \/ applied < Len(Published) /\ applied' = applied + 1
                 /\ rstore' = Do(rstore, Published[applied + 1])
              \/ applied' = applied /\ rstore' = rstore
  <1> DEFINE n == Len(Published)
             o == rep.offset
             r == Head(conn.stream)
  <1>1. Published' = Published
    BY DEF Published, ApplyRecord, primaryVars
  <1>2. Published \in Seq(Record) /\ n \in Nat
    BY PublishedIs
  <1>3. /\ conn \in [open : BOOLEAN, pos : 0..n, stream : Seq(Record)]
        /\ conn.pos \in 0..n /\ conn.stream \in Seq(Record) /\ conn.stream # <<>>
        /\ rep.step = "read" /\ rep # Stopped /\ o \in 0..n
        /\ applied \in {o, o + 1}
    BY DEF ReplicaInv, ReplicaTyped, ApplyRecord, Stopped, Offsets
  <1>4. /\ o + Len(conn.stream) = conn.pos
        /\ \A k \in 1..Len(conn.stream) : conn.stream[k] = Published[o + k]
    BY <1>3 DEF ReplicaInv, InFlight
  <1>5. /\ rstore' = Do(rstore, r)
        /\ conn' = [conn EXCEPT !.stream = Tail(conn.stream)]
        /\ rep' = [step |-> "save", offset |-> o + 1]
        /\ applied' = o + 1 /\ saved' = saved /\ rewound' = rewound
    BY DEF ApplyRecord, apply
  <1>6. /\ Len(conn.stream) \in Nat /\ Len(conn.stream) > 0
        /\ r = conn.stream[1] /\ r \in Record
        /\ Tail(conn.stream) \in Seq(Record)
        /\ Len(Tail(conn.stream)) = Len(conn.stream) - 1
        /\ \A k \in 1..(Len(conn.stream) - 1) : Tail(conn.stream)[k] = conn.stream[k + 1]
    BY <1>3
  <1>7. o + 1 \in 1..n /\ r = Published[o + 1]
    BY <1>2, <1>3, <1>4, <1>6
  <1>8. r.id \in Id /\ r.val \in Value \cup {None}
    BY <1>6 DEF Record
  <1> HIDE DEF n, o, r
  <1>9. /\ rstore \in [Id -> Value \cup {None}]
        /\ rstore' \in [Id -> Value \cup {None}]
        /\ rstore'[r.id] = r.val
        /\ \A i \in Id : i # r.id => rstore'[i] = rstore[i]
    BY <1>5, <1>8 DEF ReplicaInv, ReplicaTyped, Do
  <1>10. ReplicaTyped'
    <2>1. conn' \in [open : BOOLEAN, pos : 0..n, stream : Seq(Record)]
      BY <1>3, <1>5, <1>6
    <2>2. rep' \in [step : {"read", "save", "write"}, offset : 0..n]
      BY <1>5, <1>7
    <2>3. applied' \in 0..n
      BY <1>2, <1>5, <1>7
    <2> QED BY <1>1, <1>5, <1>9, <2>1, <2>2, <2>3 DEF ReplicaInv, ReplicaTyped, n
  <1>11. InFlight'
    <2>1. conn'.stream = Tail(conn.stream) /\ conn'.pos = conn.pos
      BY <1>3, <1>5
    <2>2. (o + 1) + Len(Tail(conn.stream)) = conn.pos
      BY <1>3, <1>4, <1>6
    <2>3. ASSUME NEW k \in 1..Len(Tail(conn.stream))
          PROVE  Tail(conn.stream)[k] = Published[(o + 1) + k]
      <3>1. k + 1 \in 1..Len(conn.stream) /\ Tail(conn.stream)[k] = conn.stream[k + 1]
        BY <1>6
      <3>2. o + (k + 1) = (o + 1) + k
        BY <1>3
      <3> QED BY <3>1, <3>2, <1>4
    <2> QED BY <1>1, <1>5, <2>1, <2>2, <2>3 DEF InFlight, Stopped
  <1>12. Offsets'
    BY <1>2, <1>3, <1>5 DEF Offsets, ReplicaInv, o
  <1>13. Replayed(Published, o + 1) = Do(Replayed(Published, o), r)
    <2>1. o \in 0..(Len(Published) - 1)
      BY <1>2, <1>3, <1>7 DEF n
    <2> QED BY <1>2, <1>7, <2>1, ReplayedStep
  <1>14. /\ Replayed(Published, o + 1)[r.id] = r.val
         /\ \A i \in Id : i # r.id => Replayed(Published, o + 1)[i] = Replayed(Published, o)[i]
    <2>1. Replayed(Published, o) \in [Id -> Value \cup {None}]
      BY <1>2, <1>3, ReplayedType DEF n
    <2> QED BY <1>8, <1>13, <2>1 DEF Do
  <1>15. CASE applied = o
    <2>1. Settled'
      <3> SUFFICES ASSUME NEW i \in Id
                   PROVE  \/ rstore'[i] = Replayed(Published, o + 1)[i]
                          \/ /\ \A k \in 1..(o + 1) : Published[k].id # i
                             /\ \E k \in 1..n : Published[k].id = i
        BY <1>1, <1>5 DEF Settled, StateAfter, n
      <3>1. CASE i = r.id
        BY <1>9, <1>14, <3>1
      <3>2. CASE i # r.id /\ rstore[i] = Replayed(Published, o)[i]
        BY <1>9, <1>14, <3>2
      <3>3. CASE /\ i # r.id
                 /\ \A k \in 1..o : Published[k].id # i
                 /\ \E k \in 1..n : Published[k].id = i
        <4>1. \A k \in 1..(o + 1) : k \in 1..o \/ k = o + 1
          BY <1>3
        <4> QED BY <1>7, <3>3, <4>1
      <3> QED BY <1>15, <3>1, <3>2, <3>3 DEF ReplicaInv, Settled, StateAfter, n
    <2>2. PrefixUnlessRewound'
      BY <1>1, <1>5, <1>13, <1>15 DEF ReplicaInv, PrefixUnlessRewound, StateAfter
    <2>3. applied < n /\ applied' = applied + 1 /\ rstore' = Do(rstore, Published[applied + 1])
      BY <1>2, <1>3, <1>5, <1>7, <1>15
    <2> QED BY <1>10, <1>11, <1>12, <2>1, <2>2, <2>3 DEF ReplicaInv, n
  <1>16. CASE applied = o + 1
    <2>1. rstore[r.id] = r.val
      <3>1. o + 1 \in 1..applied /\ Published[o + 1].id = r.id
        BY <1>7, <1>16
      <3>2. rstore[r.id] = StateAfter(applied)[r.id]
        BY <1>8, <3>1 DEF ReplicaInv, Settled
      <3> QED BY <1>14, <1>16, <3>2 DEF StateAfter
    <2>2. rstore' = rstore
      BY <1>8, <1>9, <2>1
    <2>3. applied' = applied
      BY <1>5, <1>16
    <2>4. Settled' /\ PrefixUnlessRewound'
      BY <1>1, <1>5, <2>2, <2>3 DEF ReplicaInv, Settled, PrefixUnlessRewound, StateAfter
    <2> QED BY <1>10, <1>11, <1>12, <2>2, <2>3, <2>4 DEF ReplicaInv
  <1> QED BY <1>3, <1>15, <1>16

\* Saving the offset, and the end of a connection.
LEMMA BookKeeps ==
    ASSUME log \in Seq(LogEntry), ReplicaInv,
           TruncateOffset \/ WriteOffset \/ SyncEnds \/ SyncBreaks
    PROVE  ReplicaInv' /\ UNCHANGED <<rstore, applied>>
  <1> DEFINE n == Len(Published)
  <1>1. Published' = Published /\ UNCHANGED <<rstore, rewound, applied>>
    BY DEF Published, TruncateOffset, WriteOffset, SyncEnds, SyncBreaks, primaryVars
  <1>2. Published \in Seq(Record) /\ n \in Nat
    BY PublishedIs
  <1>3. Settled' /\ PrefixUnlessRewound'
    BY <1>1 DEF ReplicaInv, Settled, PrefixUnlessRewound, StateAfter
  <1>4. CASE TruncateOffset
    <2>1. rep # Stopped /\ rep \in [step : {"read", "save", "write"}, offset : 0..n]
      BY <1>4 DEF TruncateOffset, ReplicaInv, ReplicaTyped, Stopped
    <2>2. /\ saved' = <<>> /\ conn' = conn
          /\ rep' \in [step : {"read", "save", "write"}, offset : 0..n]
          /\ rep'.step = "write" /\ rep'.offset = rep.offset /\ rep' # Stopped
          /\ applied = rep.offset
      BY <1>4, <2>1 DEF TruncateOffset, ReplicaInv, Offsets, Stopped
    <2>3. ReplicaTyped' /\ InFlight' /\ Offsets'
      BY <1>1, <2>1, <2>2 DEF ReplicaInv, ReplicaTyped, InFlight, Offsets, n
    <2> QED BY <1>1, <1>3, <2>3 DEF ReplicaInv
  <1>5. CASE WriteOffset
    <2>1. rep # Stopped /\ rep \in [step : {"read", "save", "write"}, offset : 0..n]
      BY <1>5 DEF WriteOffset, ReplicaInv, ReplicaTyped, Stopped
    <2>2. /\ saved' = <<rep.offset>> /\ conn' = conn
          /\ rep' \in [step : {"read", "save", "write"}, offset : 0..n]
          /\ rep'.step = "read" /\ rep'.offset = rep.offset /\ rep' # Stopped
          /\ applied = rep.offset
      BY <1>5, <2>1 DEF WriteOffset, ReplicaInv, Offsets, Stopped
    <2>3. saved' \in [1..1 -> 0..n] /\ saved'[1] = rep.offset
      BY <2>1, <2>2
    <2>4. ReplicaTyped'
      BY <1>1, <2>2, <2>3 DEF ReplicaInv, ReplicaTyped, n
    <2>5. InFlight'
      BY <1>1, <2>1, <2>2 DEF ReplicaInv, InFlight
    <2>6. Offsets'
      BY <1>1, <2>2, <2>3 DEF Offsets
    <2> QED BY <1>1, <1>3, <2>4, <2>5, <2>6 DEF ReplicaInv
  <1>6. CASE SyncEnds \/ SyncBreaks
    <2>1. rep' = Stopped /\ conn' = Closed /\ saved' = saved
      BY <1>6 DEF SyncEnds, SyncBreaks
    <2>2. Closed \in [open : BOOLEAN, pos : 0..n, stream : Seq(Record)]
      BY <1>2 DEF Closed
    <2>3. ReplicaTyped'
      BY <1>1, <2>1, <2>2 DEF ReplicaInv, ReplicaTyped, n
    <2>4. InFlight' /\ Offsets'
      BY <1>1, <2>1 DEF ReplicaInv, InFlight, Offsets, Stopped, Closed
    <2> QED BY <1>1, <1>3, <2>3, <2>4 DEF ReplicaInv
  <1> QED BY <1>4, <1>5, <1>6

-----------------------------------------------------------------------------
(* The theorems.                                                           *)

LEMMA InitInv == Init => IInv
  <1> SUFFICES ASSUME Init PROVE IInv
    OBVIOUS
  <1>0. log \in Seq(LogEntry) /\ Len(log) = 0
    BY DEF Init
  <1>1. Len(Published) = 0
    BY <1>0, PublishedIs
  <1>2. StateAfter(0) = Empty
    BY ReplayedNone DEF StateAfter
  <1>3. Empty \in [Id -> Value \cup {None}]
    BY DEF Empty
  <1>4. Closed \in [open : BOOLEAN, pos : 0..0, stream : Seq(Record)]
    BY DEF Closed
  <1>5. TypeOK
    <2>1. MaxRecords \in Nat /\ MaxMishaps \in Nat
      BY LogAssumption
    <2>2. log = <<>> /\ pend = NoOp /\ conn = Closed /\ rep = Stopped /\ saved = <<>>
          /\ mishaps = 0 /\ applied = 0 /\ unlogged = FALSE /\ rewound = FALSE
          /\ store = Empty /\ rstore = Empty
      BY DEF Init
    <2>3. log \in Seq([rec : Record, whole : BOOLEAN])
      BY <1>0 DEF LogEntry
    <2>4. unlogged \in BOOLEAN /\ rewound \in BOOLEAN
      BY <2>2
    <2>5. /\ mishaps \in 0..MaxMishaps /\ applied \in 0..Len(Published) /\ Len(log) <= MaxRecords
          /\ conn \in [open : BOOLEAN, pos : 0..Len(Published), stream : Seq(Record)]
      BY <1>0, <1>1, <1>4, <2>1, <2>2
    <2> QED BY <1>3, <2>2, <2>3, <2>4, <2>5 DEF TypeOK
  <1>6. Appending /\ Told /\ InFlight /\ Offsets
    BY <1>0, <1>1, <1>2 DEF Init, Appending, Told, InFlight, Offsets, NoOp, Closed, Stopped
  <1>7. Settled /\ PrefixUnlessRewound
    BY <1>2 DEF Init, Settled, PrefixUnlessRewound
  <1> QED BY <1>5, <1>6, <1>7 DEF IInv

\* One step keeps the invariant, and is seen by a ReplicaView as the next
\* record published, the next one applied, a fresh start, or nothing.
Seen ==
    \/ /\ \E r \in Record : Published' = Append(Published, r)
       /\ UNCHANGED <<applied, rstore>>
    \/ /\ applied < Len(Published) /\ applied' = applied + 1
       /\ rstore' = Do(rstore, Published[applied + 1])
       /\ Published' = Published
    \/ applied' = 0 /\ UNCHANGED <<Published, rstore>>
    \/ UNCHANGED <<Published, applied, rstore>>

LEMMA NextKeeps ==
    ASSUME IInv, [Next]_vars
    PROVE  IInv' /\ Seen
  <1>0. TypeOK /\ PrimaryInv /\ ReplicaInv /\ log \in Seq(LogEntry)
    BY TwoSides, LogTyped DEF IInv
  <1>a. ASSUME PrimaryInv', Grows, UNCHANGED replicaVars,
               conn' = conn \/ conn' = [conn EXCEPT !.open = FALSE]
        PROVE  IInv'
    <2>1. log' \in Seq(LogEntry)
      BY <1>a DEF PrimaryInv, PrimaryTyped
    <2>2. ReplicaInv'
      BY <1>0, <1>a, <2>1, ReplicaKeeps DEF replicaVars
    <2> QED BY <1>a, <2>2, TwoSides
  <1>b. ASSUME ReplicaInv', UNCHANGED primaryVars, mishaps' = mishaps \/ Mishap
        PROVE  IInv' /\ Published' = Published
    <2>1. PrimaryInv' /\ Published' = Published
      BY <1>0, <1>b, PrimaryKept
    <2> QED BY <1>b, <2>1, TwoSides
  <1>1. ASSUME NEW i \in Id, NEW v \in Value, Insert(i, v) PROVE IInv' /\ Seen
    <2>1. PrimaryInv' /\ Published' = Published
      BY <1>0, <1>1, MutateKeeps DEF Insert
    <2>2. UNCHANGED replicaVars /\ conn' = conn
      BY <1>1 DEF Insert
    <2> QED BY <1>0, <1>a, <2>1, <2>2, GrowsIfSame DEF Seen, replicaVars
  <1>2. ASSUME NEW i \in Id, Delete(i) PROVE IInv' /\ Seen
    <2>1. PrimaryInv' /\ Published' = Published
      BY <1>0, <1>2, MutateKeeps DEF Delete
    <2>2. UNCHANGED replicaVars /\ conn' = conn
      BY <1>2 DEF Delete
    <2> QED BY <1>0, <1>a, <2>1, <2>2, GrowsIfSame DEF Seen, replicaVars
  <1>3. CASE AppendPrefix
    <2>1. PrimaryInv' /\ Published' = Published
      BY <1>0, <1>3, PrefixKeeps
    <2>2. UNCHANGED replicaVars /\ conn' = conn
      BY <1>3 DEF AppendPrefix
    <2> QED BY <1>0, <1>a, <2>1, <2>2, GrowsIfSame DEF Seen, replicaVars
  <1>4. CASE AppendRest
    <2>1. PrimaryInv' /\ Grows
          /\ (Published' = Published \/ Published' = Append(Published, pend.rec))
      BY <1>0, <1>4, RestKeeps
    <2>2. UNCHANGED replicaVars /\ conn' = conn
      BY <1>4 DEF AppendRest
    <2>3. pend.rec \in Record
      BY <1>0, <1>4 DEF AppendRest, PrimaryInv, PrimaryTyped, NoOp
    <2> QED BY <1>a, <2>1, <2>2, <2>3 DEF Seen, replicaVars
  <1>5. CASE AppendFails
    <2>1. PrimaryInv' /\ Published' = Published
      BY <1>0, <1>5, CutKeeps DEF AppendFails
    <2>2. UNCHANGED replicaVars /\ conn' = conn
      BY <1>5 DEF AppendFails
    <2> QED BY <1>0, <1>a, <2>1, <2>2, GrowsIfSame DEF Seen, replicaVars
  <1>6. CASE CrashPrimary
    <2>0. unlogged \in BOOLEAN
      BY <1>0 DEF TypeOK
    <2>1. PrimaryInv' /\ Published' = Published
      BY <1>0, <1>6, <2>0, CutKeeps DEF CrashPrimary
    <2>2. UNCHANGED replicaVars /\ conn' = [conn EXCEPT !.open = FALSE]
      BY <1>6 DEF CrashPrimary
    <2> QED BY <1>0, <1>a, <2>1, <2>2, GrowsIfSame DEF Seen, replicaVars
  <1>7. CASE Serve
    <2>1. ReplicaInv'
      BY <1>0, <1>7, ServeKeeps
    <2> QED BY <1>7, <1>b, <2>1 DEF Serve, Seen, replicaVars
  <1>8. CASE ServeFails
    <2>1. Published' = Published /\ log' = log
      BY <1>8 DEF ServeFails, Published, primaryVars
    <2>2. ReplicaInv'
      BY <1>0, <1>8, <2>1, GrowsIfSame, ReplicaKeeps DEF ServeFails, replicaVars
    <2> QED BY <1>8, <1>b, <2>2 DEF ServeFails, Seen, replicaVars
  <1>9. CASE Connect
    <2>1. ReplicaInv' /\ rstore' = rstore /\ (applied' = applied \/ applied' = 0)
      BY <1>0, <1>9, ConnectKeeps
    <2> QED BY <1>9, <1>b, <2>1 DEF Connect, Seen
  <1>10. CASE ApplyRecord
    <2>1. /\ ReplicaInv'
          /\ \/ applied < Len(Published) /\ applied' = applied + 1
                /\ rstore' = Do(rstore, Published[applied + 1])
             \/ applied' = applied /\ rstore' = rstore
      BY <1>0, <1>10, ApplyKeeps
    <2>2. IInv' /\ Published' = Published
      BY <1>10, <1>b, <2>1 DEF ApplyRecord
    <2> QED BY <2>1, <2>2 DEF Seen
  <1>11. CASE TruncateOffset \/ WriteOffset \/ SyncEnds \/ SyncBreaks
    <2>1. ReplicaInv' /\ UNCHANGED <<rstore, applied>>
      BY <1>0, <1>11, BookKeeps
    <2>2. UNCHANGED primaryVars /\ (mishaps' = mishaps \/ Mishap)
      BY <1>11 DEF TruncateOffset, WriteOffset, SyncEnds, SyncBreaks
    <2> QED BY <1>b, <2>1, <2>2 DEF Seen
  <1>12. CASE UNCHANGED vars
    <2>1. UNCHANGED primaryVars /\ UNCHANGED replicaVars /\ conn' = conn /\ mishaps' = mishaps
      BY <1>12 DEF vars, primaryVars, replicaVars
    <2>2. PrimaryInv' /\ Published' = Published
      BY <1>0, <2>1, PrimaryKept
    <2> QED BY <1>0, <1>a, <2>1, <2>2, GrowsIfSame DEF Seen, replicaVars
  <1> QED
    BY <1>1, <1>2, <1>3, <1>4, <1>5, <1>6, <1>7, <1>8, <1>9, <1>10, <1>11, <1>12 DEF Next

LEMMA Inductive == Spec => []IInv
  <1>1. IInv /\ [Next]_vars => IInv'
    BY NextKeeps
  <1> QED BY InitInv, <1>1, PTL DEF Spec

\* Types of the log, the connection and the offsets: no offset, in memory or
\* on disk, and no position of the server ever lies beyond the records that
\* can be read (server.rs, replica.rs).
THEOREM OffsetsInLog == Spec => []TypeOK
  <1>1. IInv => TypeOK
    BY DEF IInv
  <1> QED BY Inductive, <1>1, PTL

\* Between two calls, replaying the readable log gives the primary's store,
\* as long as no mutation was cut off from its record (primary.rs: the store
\* first, then the append).
THEOREM LogTellsAllHolds == Spec => []LogTellsAll
  <1>1. IInv => LogTellsAll
    BY DEF IInv, Told, LogTellsAll
  <1> QED BY Inductive, <1>1, PTL

\* A replica that never lost its offset shows the primary at one point of
\* the past, whatever crashed between apply and save_offset (replica.rs).
THEOREM PrefixHolds == Spec => []PrefixUnlessRewound
  <1>1. IInv => PrefixUnlessRewound
    BY DEF IInv
  <1> QED BY Inductive, <1>1, PTL

\* However often it started again, a replica with every readable record
\* behind it holds exactly what they say (replica.rs, sync).
THEOREM CaughtUpHolds == Spec => []CaughtUpIsEqual
  <1>1. ASSUME IInv PROVE CaughtUpIsEqual
    <2> SUFFICES ASSUME applied = Len(Published) PROVE rstore = StateAfter(applied)
      BY DEF CaughtUpIsEqual
    <2>1. \A i \in Id : rstore[i] = StateAfter(applied)[i]
      BY <1>1 DEF IInv, Settled
    <2>2. rstore \in [Id -> Value \cup {None}]
      BY <1>1 DEF IInv, TypeOK
    <2>3. StateAfter(applied) \in [Id -> Value \cup {None}]
      <3>1. log \in Seq(LogEntry) /\ applied \in 0..Len(Published)
        BY <1>1, LogTyped DEF IInv, TypeOK
      <3>2. Published \in Seq(Record)
        BY <3>1, PublishedIs
      <3> QED BY <3>1, <3>2, ReplayedType DEF StateAfter
    <2> QED BY <2>1, <2>2, <2>3
  <1> QED BY Inductive, <1>1, PTL

\* Log shipping implements ReplicaView: its log, its connection, its crashes
\* and its offsets, seen from the published records and the replica's store,
\* are records published and applied in one order, each in one step.
THEOREM ShipsInOrderHolds == Spec => ShipsInOrder
  <1>1. Init => View!Init
    <2> SUFFICES ASSUME Init PROVE View!Init
      OBVIOUS
    <2>0. log \in Seq(LogEntry) /\ Len(log) = 0
      BY DEF Init
    <2>1. Published \in Seq(Record) /\ Len(Published) = 0
      BY <2>0, PublishedIs
    <2>2. Published = <<>>
      BY <2>1
    <2> QED BY <2>2 DEF Init, View!Init, Empty, View!Empty
  <1>2. ASSUME IInv, [Next]_vars PROVE [View!Next]_(View!vars)
    <2>1. Seen
      BY <1>2, NextKeeps
    <2> QED BY <2>1 DEF Seen, View!Next, View!Publish, View!Apply, View!Rewind, View!vars,
                        View!Record, Record, View!Do, Do
  <1> QED BY Inductive, <1>1, <1>2, PTL DEF Spec, ShipsInOrder, View!Spec
=============================================================================
