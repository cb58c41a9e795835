----------------------------- MODULE StateTrace -----------------------------
(***************************************************************************)
(* State traceability, internal/service/state: the events recorded about   *)
(* platoons and vehicles, the audit log that chains them by hashes, the    *)
(* anchoring of the audit log in blocks, the retention of old events and   *)
(* the detection of frequent changes.                                      *)
(*                                                                         *)
(* Several goroutines record events.  The events, the audit log and the    *)
(* rest have a lock each and RecordEvent takes one after the other, so the *)
(* order of events in the audit log may differ from their order in the     *)
(* list of their entity, and an event's time is read before it is stored.  *)
(*                                                                         *)
(* A hash is a term: the values hashed, tagged.  Different values hash     *)
(* differently.  Nothing is persisted, so a restart begins a new log.      *)
(***************************************************************************)
EXTENDS Integers, Sequences, FiniteSets

CONSTANTS
    Platoons,    \* platoon ids
    Vehicles,    \* vehicle ids
    HistoryKey,  \* the key of a vehicle's history: the first bytes of its id
    Recorders,   \* goroutines that record events
    Recent,      \* how many events the two anomaly checks look at
    Threshold,   \* how many changes among them are still normal
    HotDays,     \* RetentionPolicy.HotStorageDays
    Heights,     \* the block heights AnchorAuditLog is called with
    MaxEvents,   \* bound: events recorded
    MaxTime      \* bound: the clock, in days

Entities == Platoons \cup Vehicles
Types == {"join", "left", "leader", "other"}
Checks == {"joinLeave", "leaderChange"}

ASSUME TraceAssumption ==
    /\ Platoons \cap Vehicles = {}
    /\ Recent \in [Checks -> Nat]
    /\ Threshold \in [Checks -> Nat]
    /\ HotDays \in Nat
    /\ Heights \subseteq Nat
    /\ MaxEvents \in Nat
    /\ MaxTime \in Nat

Zero == <<>>   \* the hash of nothing

Idle == [pc |-> "idle", time |-> 0, id |-> 0, todo |-> <<>>]

VARIABLES
    events,      \* events[e] lists the events of entity e, as appended
    audit,       \* auditLog
    lastHash,
    history,     \* vehicleHistory
    anomalies,   \* the pairs of entity and check that were reported
    rec,         \* the Record... call of each recorder
    nextId,      \* the next event id
    now,         \* the clock
    trimmed      \* history: entities that lost events to the retention policy

vars == <<events, audit, lastHash, history, anomalies, rec, nextId, now, trimmed>>

Init ==
    /\ events = [e \in Entities |-> <<>>]
    /\ audit = <<>>
    /\ lastHash = Zero
    /\ history = [k \in {HistoryKey[v] : v \in Vehicles} |-> <<>>]
    /\ anomalies = {}
    /\ rec = [r \in Recorders |-> Idle]
    /\ nextId = 1
    /\ now = 1
    /\ trimmed = {}

----------------------------------------------------------------------------
\* A call takes the time and records one or more events, one after the other.
Record(r, todo) ==
    /\ rec[r] = Idle
    /\ nextId + Len(todo) <= MaxEvents + 1
    /\ rec' = [rec EXCEPT ![r] = [pc |-> "event", time |-> now, id |-> nextId, todo |-> todo]]
    /\ nextId' = nextId + Len(todo)
    /\ UNCHANGED <<events, audit, lastHash, history, anomalies, now, trimmed>>

Change(type, entity, platoon) == [type |-> type, entity |-> entity, platoon |-> platoon]

RecordPlatoonCreated(r, p) == Record(r, <<Change("other", p, p)>>)

\* Two events, for the platoon and for the vehicle.
RecordMemberJoined(r, p, v) ==
    Record(r, <<Change("join", p, p), Change("join", v, p)>>)

RecordStatusChange(r, e) == Record(r, <<Change("other", e, e)>>)

\* RecordEvent called with an event of the caller's making.
RecordLeft(r, e, p) == Record(r, <<Change("left", e, p)>>)

RecordLeader(r, p) == Record(r, <<Change("leader", p, p)>>)

\* The event a call is recording.
Event(r) == [id |-> rec[r].id, time |-> rec[r].time, type |-> Head(rec[r].todo).type,
             entity |-> Head(rec[r].todo).entity, platoon |-> Head(rec[r].todo).platoon]

\* RecordEvent, under eventsMu.
StoreEvent(r) ==
    /\ rec[r].pc = "event"
    /\ events' = [events EXCEPT ![Event(r).entity] = Append(@, Event(r))]
    /\ rec' = [rec EXCEPT ![r].pc = "audit"]
    /\ UNCHANGED <<audit, lastHash, history, anomalies, nextId, now, trimmed>>

\* MUTANT: the hash covers the anchor, too.
HashWithAnchor(record) ==
    <<"record", record.event.id, record.prev, record.height, record.root>>

\* AuditLogRecord.CalculateHash: the anchor is not part of it.
RecordHash(record) == <<"record", record.event.id, record.prev>>

\* createAuditRecord, under auditMu.
CreateAuditRecord(r) ==
    LET record == [event |-> Event(r), prev |-> lastHash, height |-> 0, root |-> Zero] IN
    /\ rec[r].pc = "audit"
    /\ audit' = Append(audit, record)
    /\ lastHash' = RecordHash(record)
    /\ rec' = [rec EXCEPT ![r].pc = "rest"]
    /\ UNCHANGED <<events, history, anomalies, nextId, now, trimmed>>

----------------------------------------------------------------------------
\* updateVehicleHistory.  A vehicle that leaves closes the last entry that is
\* open for the platoon, if there is one.
UpdatedHistory(event) ==
    LET key == HistoryKey[event.entity]
        entries == history[key]
        open == {i \in DOMAIN entries : entries[i].platoon = event.platoon /\ entries[i].left = 0}
        last == CHOOSE i \in open : \A j \in open : j <= i
    IN  CASE event.entity \notin Vehicles \/ event.type \notin {"join", "left"} -> history
          [] event.entity \in Vehicles /\ event.type = "join" ->
               [history EXCEPT ![key] =
                  Append(@, [platoon |-> event.platoon, joined |-> event.time, left |-> 0])]
          [] event.entity \in Vehicles /\ event.type = "left" ->
               IF open = {} THEN history
               ELSE [history EXCEPT ![key][last].left = event.time]

\* The changes a check counts.
Counted(check) == IF check = "joinLeave" THEN {"join", "left"} ELSE {"leader"}

\* MUTANT: the last event is left out.
RecentButLast(e, limit) ==
    LET n == Len(events[e]) IN {i \in 1..(n - 1) : i > n - limit}

\* getRecentEvents, as positions in the entity's list.
GetRecentEvents(e, limit) ==
    LET n == Len(events[e]) IN {i \in 1..n : i > n - limit}

Frequent(e, check) ==
    Cardinality({i \in GetRecentEvents(e, Recent[check]) : events[e][i].type \in Counted(check)})
        > Threshold[check]

\* checkForAnomalies: an event is held against the check that counts it.
Found(event) ==
    {<<event.entity, check>> : check \in
        {c \in Checks : event.type \in Counted(c) /\ Frequent(event.entity, c)}}

\* The rest of RecordEvent; the call goes on with its next event.
FinishEvent(r) ==
    /\ rec[r].pc = "rest"
    /\ history' = UpdatedHistory(Event(r))
    /\ anomalies' = anomalies \cup Found(Event(r))
    /\ rec' = [rec EXCEPT ![r] =
         IF Len(rec[r].todo) = 1 THEN Idle
         ELSE [rec[r] EXCEPT !.pc = "event", !.id = rec[r].id + 1, !.todo = Tail(rec[r].todo)]]
    /\ UNCHANGED <<events, audit, lastHash, nextId, now, trimmed>>

----------------------------------------------------------------------------
\* One level of the tree: the last hash is paired with itself when the number
\* is odd.
PairUp(hashes) ==
    IF Len(hashes) <= 1 THEN hashes
    ELSE [i \in 1..((Len(hashes) + 1) \div 2) |->
            <<"node", hashes[2 * i - 1],
              IF 2 * i <= Len(hashes) THEN hashes[2 * i] ELSE hashes[2 * i - 1]>>]

MerkleRoot(hashes) ==
    LET level[k \in 0..Len(hashes)] == IF k = 0 THEN hashes ELSE PairUp(level[k - 1])
    IN  IF hashes = <<>> THEN Zero ELSE level[Len(hashes)][1]

\* calculateMerkleRoot of the records at some positions of the log.
RootOf(log, positions) ==
    LET nth(i) == CHOOSE p \in positions : Cardinality({q \in positions : q < p}) = i - 1
    IN  MerkleRoot([i \in 1..Cardinality(positions) |-> RecordHash(log[nth(i)])])

\* MUTANT: the root is the root of the whole log.
AnchorWithWholeRoot(h) ==
    LET unanchored == {i \in DOMAIN audit : audit[i].height = 0} IN
    /\ unanchored # {}
    /\ audit' = [i \in DOMAIN audit |->
         IF i \in unanchored
         THEN [audit[i] EXCEPT !.height = h, !.root = RootOf(audit, DOMAIN audit)]
         ELSE audit[i]]
    /\ UNCHANGED <<events, lastHash, history, anomalies, rec, nextId, now, trimmed>>

\* AnchorAuditLog, under auditMu.  A record is unanchored while its height is 0.
AnchorAuditLog(h) ==
    LET unanchored == {i \in DOMAIN audit : audit[i].height = 0} IN
    /\ unanchored # {}
    /\ audit' = [i \in DOMAIN audit |->
         IF i \in unanchored
         THEN [audit[i] EXCEPT !.height = h, !.root = RootOf(audit, unanchored)]
         ELSE audit[i]]
    /\ UNCHANGED <<events, lastHash, history, anomalies, rec, nextId, now, trimmed>>

\* enforceRetentionPolicy, under eventsMu: the audit log keeps its records.
EnforceRetentionPolicy ==
    LET Hot(event) == now - event.time <= HotDays
        old == {e \in Entities : \E i \in DOMAIN events[e] : ~Hot(events[e][i])}
    IN
    /\ old # {}
    /\ events' = [e \in Entities |->
         IF e \in old THEN SelectSeq(events[e], Hot) ELSE events[e]]
    /\ trimmed' = trimmed \cup old
    /\ UNCHANGED <<audit, lastHash, history, anomalies, rec, nextId, now>>

Tick ==
    /\ now < MaxTime
    /\ now' = now + 1
    /\ UNCHANGED <<events, audit, lastHash, history, anomalies, rec, nextId, trimmed>>

RecorderStep(r) == StoreEvent(r) \/ CreateAuditRecord(r) \/ FinishEvent(r)

Next ==
    \/ \E r \in Recorders, p \in Platoons :
         \/ RecordPlatoonCreated(r, p)
         \/ \E v \in Vehicles : RecordMemberJoined(r, p, v)
         \/ \E e \in Vehicles \cup {p} : RecordLeft(r, e, p)
         \/ RecordLeader(r, p)
    \/ \E r \in Recorders, e \in Entities : RecordStatusChange(r, e)
    \/ \E r \in Recorders : RecorderStep(r)
    \/ \E h \in Heights : AnchorAuditLog(h)
    \/ EnforceRetentionPolicy
    \/ Tick

Spec == Init /\ [][Next]_vars

----------------------------------------------------------------------------
\* Every variable holds values of its type, and no id is given twice.
TraceTypeOK ==
    /\ \A e \in Entities : \A i \in DOMAIN events[e] :
         events[e][i].entity = e /\ events[e][i].type \in Types
    /\ \A i \in DOMAIN audit : audit[i].height \in Heights \cup {0}
    /\ \A i, j \in DOMAIN audit : audit[i].event.id = audit[j].event.id => i = j
    /\ \A k \in DOMAIN history : \A i \in DOMAIN history[k] :
         history[k][i].platoon \in Platoons /\ history[k][i].joined \in 1..MaxTime
    /\ anomalies \subseteq Entities \X Checks
    /\ \A r \in Recorders : rec[r].pc \in {"idle", "event", "audit", "rest"}
    /\ nextId \in 1..(MaxEvents + 1)
    /\ now \in 1..MaxTime
    /\ trimmed \subseteq Entities

\* The audit log can be verified at any time, while events are recorded and
\* after any number of anchorings: each record carries the hash of the one
\* before, recomputed from what it now holds, and lastHash is the hash of the
\* last.  (state/service.go createAuditRecord, AnchorAuditLog, types.go
\* AuditLogRecord.CalculateHash)
AuditChained ==
    /\ \A i \in DOMAIN audit :
         audit[i].prev = IF i = 1 THEN Zero ELSE RecordHash(audit[i - 1])
    /\ lastHash = IF audit = <<>> THEN Zero ELSE RecordHash(audit[Len(audit)])

\* The root in a record can be verified from the log alone: it is the Merkle
\* root of the records that carry it, in their order.
\* (state/service.go AnchorAuditLog, calculateMerkleRoot)
RootsVerifiable ==
    \A i \in DOMAIN audit :
        audit[i].root # Zero =>
            RootOf(audit, {j \in DOMAIN audit : audit[j].root = audit[i].root}) = audit[i].root

\* When nobody is recording, an entity whose recent events hold more changes
\* than the threshold has been reported, however the recordings raced;
\* provided the retention policy has not removed events from the list.
\* (state/service.go checkForAnomalies, getRecentEvents)
FrequentChangesReported ==
    \A e \in Entities \ trimmed, check \in Checks :
        (\A r \in Recorders : rec[r] = Idle) /\
        Cardinality({i \in DOMAIN events[e] : /\ i > Len(events[e]) - Recent[check]
                                              /\ events[e][i].type \in Counted(check)})
            > Threshold[check]
        => <<e, check>> \in anomalies
=============================================================================
