----------------------------- MODULE LogShipping -----------------------------
(***************************************************************************)
(* Log shipping: a PrimaryStore that appends a LogRecord after each        *)
(* mutation (primary.rs, log.rs), the ReplicationServer thread that        *)
(* streams complete records (server.rs), and the ReplicaClient that        *)
(* applies them and remembers its offset in a file (replica.rs).           *)
(*                                                                         *)
(* An append is two steps, the length prefix and the rest, because readers *)
(* of the file see what lies between.  Offsets are counted in records: a   *)
(* reader only ever stops between two of them.  A record torn after its    *)
(* prefix stays in the file; what comes behind it is then read as its      *)
(* payload, and the decoder refuses that.  fs::write of the offset is also *)
(* two steps, the truncation and the write.  The inside of Store::insert   *)
(* is EntityStore's subject, how frames survive the split into chunks is   *)
(* Codec's.                                                                *)
(***************************************************************************)
EXTENDS Naturals, Sequences, FiniteSets, SequencesExt

CONSTANTS
    Id, Value, None,
    MaxRecords,   \* bound: records in the log
    MaxMishaps    \* bound: crashes, failed writes, broken connections

ASSUME LogAssumption ==
    /\ None \notin Value
    /\ {MaxRecords, MaxMishaps} \subseteq Nat

VARIABLES
    store,     \* the primary's Store
    pend,      \* the mutation under way: its record and the next step
    log,       \* replication.gemlog: records, and whether each is whole
    conn,      \* the connection: the server's position, records in the socket
    rep,       \* ReplicaClient::sync: its offset and the next step
    saved,     \* the file replica_offset: empty, or one number
    rstore,    \* the replica's Store
    mishaps,
    unlogged,  \* history: a mutation has no readable record
    rewound,   \* history: the replica started again without an offset
    applied    \* history: records the replica's store has behind it

vars == <<store, pend, log, conn, rep, saved, rstore, mishaps, unlogged, rewound, applied>>

Record == [id : Id, val : Value \cup {None}]

NoOp == [step |-> "none"]
Closed == [open |-> FALSE, pos |-> 0, stream |-> <<>>]
Stopped == [step |-> "stopped", offset |-> 0]

\* Store::insert or Store::delete with what one record says (replica.rs, apply)
Do(s, r) == [s EXCEPT ![r.id] = r.val]

Empty == [i \in Id |-> None]

\* How many records of a log lie before the first one that is not whole ...
Readable(l) ==
    LET torn == {k \in 1..Len(l) : ~l[k].whole}
    IN  IF torn = {} THEN Len(l) ELSE Min(torn) - 1

\* ... which is all that read_from and read_raw_from can return from any
\* position.
Published == [k \in 1..Readable(log) |-> log[k].rec]

\* LogRecord::decode meets a torn record with more bytes behind it.
Garbled == Len(log) > Len(Published) + 1

\* A store after the first n of some records: the last of them about an id
\* says what it holds.
Replayed(recs, n) ==
    [i \in Id |->
        LET about == {k \in 1..n : recs[k].id = i}
        IN  IF about = {} THEN None ELSE recs[Max(about)].val]

StateAfter(n) == Replayed(Published, n)

Mishap == mishaps < MaxMishaps /\ mishaps' = mishaps + 1

primaryVars == <<store, pend, log, unlogged>>
replicaVars == <<rep, saved, rstore, rewound, applied>>

Init ==
    /\ store = Empty /\ pend = NoOp /\ log = <<>>
    /\ conn = Closed /\ rep = Stopped
    /\ saved = <<>> /\ rstore = Empty
    /\ mishaps = 0 /\ unlogged = FALSE /\ rewound = FALSE /\ applied = 0

-----------------------------------------------------------------------------
(* PrimaryStore and ReplicationLog::append                                 *)

\* insert: the store first
Insert(i, v) ==
    /\ pend = NoOp /\ Len(log) < MaxRecords
    /\ store' = [store EXCEPT ![i] = v]
    /\ pend' = [step |-> "append", rec |-> [id |-> i, val |-> v]]
    /\ UNCHANGED <<log, unlogged, conn, mishaps, replicaVars>>

\* Mutant: a delete is not logged.
Delete_Silent(i) ==
    /\ pend = NoOp /\ Len(log) < MaxRecords
    /\ store[i] # None
    /\ store' = [store EXCEPT ![i] = None]
    /\ UNCHANGED <<pend, log, unlogged, conn, mishaps, replicaVars>>

\* delete: only what existed is logged
Delete(i) ==
    /\ pend = NoOp /\ Len(log) < MaxRecords
    /\ store[i] # None
    /\ store' = [store EXCEPT ![i] = None]
    /\ pend' = [step |-> "append", rec |-> [id |-> i, val |-> None]]
    /\ UNCHANGED <<log, unlogged, conn, mishaps, replicaVars>>

AppendPrefix ==
    /\ pend.step = "append"
    /\ log' = Append(log, [rec |-> pend.rec, whole |-> FALSE])
    /\ pend' = [pend EXCEPT !.step = "rest"]
    /\ UNCHANGED <<store, unlogged, conn, mishaps, replicaVars>>

AppendRest ==
    /\ pend.step = "rest"
    /\ log' = [log EXCEPT ![Len(log)].whole = TRUE]
    /\ pend' = NoOp
    /\ unlogged' = (unlogged \/ Garbled)
    /\ UNCHANGED <<store, conn, mishaps, replicaVars>>

\* append returns an error after nothing or after part of the record; the
\* store keeps the mutation and the process goes on.
AppendFails ==
    /\ pend # NoOp /\ Mishap
    /\ pend' = NoOp /\ unlogged' = TRUE
    /\ UNCHANGED <<store, log, conn, replicaVars>>

\* The process dies and is opened again; the server's connections go with it.
CrashPrimary ==
    /\ Mishap
    /\ pend' = NoOp /\ unlogged' = (unlogged \/ pend # NoOp)
    /\ conn' = [conn EXCEPT !.open = FALSE]
    /\ UNCHANGED <<store, log, replicaVars>>

-----------------------------------------------------------------------------
(* ReplicationServer::handle_connection                                    *)

\* Mutant: the record still being written is sent as well.
Serve_Partial ==
    /\ conn.open /\ ~Garbled
    /\ conn.pos < Len(log)
    /\ conn' = [conn EXCEPT !.pos = Len(log),
                            !.stream = @ \o [k \in 1..Len(log) - conn.pos |-> log[conn.pos + k].rec]]
    /\ UNCHANGED <<primaryVars, mishaps, replicaVars>>

Serve ==
    /\ conn.open /\ ~Garbled
    /\ conn.pos < Len(Published)
    /\ conn' = [conn EXCEPT !.pos = Len(Published),
                            !.stream = @ \o SubSeq(Published, conn.pos + 1, Len(Published))]
    /\ UNCHANGED <<primaryVars, mishaps, replicaVars>>

\* read_raw_from fails as a whole, even for the records before the tear.
ServeFails ==
    /\ conn.open /\ Garbled
    /\ conn' = [conn EXCEPT !.open = FALSE]
    /\ UNCHANGED <<primaryVars, mishaps, replicaVars>>

-----------------------------------------------------------------------------
(* ReplicaClient                                                           *)

load_offset == IF saved = <<>> THEN 0 ELSE saved[1]

\* Mutant: the offset is taken for the last record applied, not the next.
Connect_SkipsOne ==
    /\ rep = Stopped
    /\ conn' = [open |-> TRUE, pos |-> load_offset + 1, stream |-> <<>>]
    /\ rep' = [step |-> "read", offset |-> load_offset + 1]
    /\ UNCHANGED <<primaryVars, mishaps, saved, rstore, rewound, applied>>

\* Mutant: a replica whose offset cannot be read does not start again.
Connect_NeedsOffset ==
    /\ rep = Stopped
    /\ saved # <<>> \/ applied = 0
    /\ conn' = [open |-> TRUE, pos |-> load_offset, stream |-> <<>>]
    /\ rep' = [step |-> "read", offset |-> load_offset]
    /\ UNCHANGED <<primaryVars, mishaps, saved, rstore, rewound, applied>>

\* sync: connect, SYNC <offset>
Connect ==
    /\ rep = Stopped
    /\ conn' = [open |-> TRUE, pos |-> load_offset, stream |-> <<>>]
    /\ rep' = [step |-> "read", offset |-> load_offset]
    /\ rewound' = (rewound \/ load_offset + 1 < applied)
    /\ applied' = IF load_offset + 1 < applied THEN 0 ELSE applied
    /\ UNCHANGED <<primaryVars, mishaps, saved, rstore>>

\* Mutant: an insert is applied only where nothing is yet.
apply_KeepsOld(s, r) == IF r.val # None /\ s[r.id] # None THEN s ELSE Do(s, r)

apply(s, r) == Do(s, r)

ApplyRecord ==
    /\ rep.step = "read" /\ conn.stream # <<>>
    /\ rstore' = apply(rstore, Head(conn.stream))
    /\ conn' = [conn EXCEPT !.stream = Tail(@)]
    /\ rep' = [step |-> "save", offset |-> rep.offset + 1]
    /\ applied' = rep.offset + 1
    /\ UNCHANGED <<primaryVars, mishaps, saved, rewound>>

\* save_offset: fs::write truncates the file ...
TruncateOffset ==
    /\ rep.step = "save"
    /\ saved' = <<>>
    /\ rep' = [rep EXCEPT !.step = "write"]
    /\ UNCHANGED <<primaryVars, conn, mishaps, rstore, rewound, applied>>

\* ... and writes it.
WriteOffset ==
    /\ rep.step = "write"
    /\ saved' = <<rep.offset>>
    /\ rep' = [rep EXCEPT !.step = "read"]
    /\ UNCHANGED <<primaryVars, conn, mishaps, rstore, rewound, applied>>

\* The end of the stream: sync returns, and its caller connects again.
SyncEnds ==
    /\ rep.step = "read" /\ conn.stream = <<>> /\ ~conn.open
    /\ rep' = Stopped /\ conn' = Closed
    /\ UNCHANGED <<primaryVars, mishaps, saved, rstore, rewound, applied>>

\* stop_after, a read timeout, a broken connection or a failed write of the
\* offset end sync as a crash does, wherever it is.
SyncBreaks ==
    /\ rep # Stopped /\ Mishap
    /\ rep' = Stopped /\ conn' = Closed
    /\ UNCHANGED <<primaryVars, saved, rstore, rewound, applied>>

PrimaryStep == AppendPrefix \/ AppendRest
ServerStep == Serve \/ ServeFails
ReplicaStep == Connect \/ ApplyRecord \/ TruncateOffset \/ WriteOffset \/ SyncEnds

Next ==
    \/ \E i \in Id, v \in Value : Insert(i, v)
    \/ \E i \in Id : Delete(i)
    \/ AppendPrefix \/ AppendRest \/ AppendFails \/ CrashPrimary
    \/ Serve \/ ServeFails
    \/ Connect \/ ApplyRecord \/ TruncateOffset \/ WriteOffset \/ SyncEnds \/ SyncBreaks

Spec == Init /\ [][Next]_vars

\* A call under way in the primary goes on, the server's thread polls the log
\* every POLL_INTERVAL, and the replica process runs sync in a loop.
FairSpec == Spec /\ WF_vars(PrimaryStep) /\ WF_vars(ServerStep) /\ WF_vars(ReplicaStep)

-----------------------------------------------------------------------------
(* Properties                                                              *)

TypeOK ==
    /\ store \in [Id -> Value \cup {None}] /\ rstore \in [Id -> Value \cup {None}]
    /\ pend = NoOp \/ pend \in [step : {"append", "rest"}, rec : Record]
    /\ log \in Seq([rec : Record, whole : BOOLEAN]) /\ Len(log) <= MaxRecords
    /\ conn \in [open : BOOLEAN, pos : 0..Len(Published), stream : Seq(Record)]
    /\ rep = Stopped \/ rep \in [step : {"read", "save", "write"}, offset : 0..Len(Published)]
    /\ saved = <<>> \/ saved \in [1..1 -> 0..Len(Published)]
    /\ mishaps \in 0..MaxMishaps /\ applied \in 0..Len(Published)
    /\ unlogged \in BOOLEAN /\ rewound \in BOOLEAN

\* The log tells the whole truth: between two calls the primary's store is
\* what replaying its readable records gives (primary.rs, module doc), as
\* long as no mutation has been cut off from its record.
LogTellsAll == (pend = NoOp /\ ~unlogged) => store = StateAfter(Len(Published))

\* A replica shows the primary at some point of the past, never a mixture:
\* its store is the state after the records behind it, through crashes
\* between apply and save_offset too (replica.rs, "applied twice ... is
\* harmless").  A replica that lost its offset shows mixtures while it
\* replays.
PrefixUnlessRewound == ~rewound => rstore = StateAfter(applied)

\* However often a replica fell back, when it has every readable record
\* behind it its store is the primary's log, replayed once.
CaughtUpIsEqual == applied = Len(Published) => rstore = StateAfter(applied)

View == INSTANCE ReplicaView WITH hist <- Published, applied <- applied, view <- rstore

\* The whole of log shipping, seen from its records and the replica's store,
\* is a ReplicaView: records appear in order and are never taken back, and
\* whatever the replica does is the next record applied or a fresh start.
ShipsInOrder == View!Spec

\* The replica comes to hold every record that can be read and stays there,
\* unless a torn record with others behind it stops every reader.
CatchesUp == <>[](Garbled \/ applied = Len(Published))
=============================================================================
