-------------------------- MODULE StateTraceProofs --------------------------
(***************************************************************************)
(* The audit log and the detection of frequent changes, for any platoons,  *)
(* vehicles, recorders, thresholds and bounds.                             *)
(*                                                                         *)
(* The chain of hashes survives an anchoring because the hash of a record  *)
(* covers neither its height nor its root.  Frequent changes are reported  *)
(* because an entity whose recent events exceed a threshold and that was   *)
(* not reported has a recording under way that is still to check it        *)
(* (Pending): an event that a check does not count only takes counted ones *)
(* out of the window.                                                      *)
(*                                                                         *)
(* Roots come last: two trees with the same root have the same leaves, and *)
(* no two records hash alike, so a new root is no other record's.          *)
(***************************************************************************)
EXTENDS StateTrace, SequenceTheorems, FiniteSetTheorems, WellFoundedInduction, TLAPS

Changes == [type: Types, entity: Entities, platoon: Entities]
Calls == [pc: {"idle", "event", "audit", "rest"}, time: Int, id: Int, todo: Seq(Changes)]
Events == [id: Int, time: Int, type: Types, entity: Entities, platoon: Entities]

\* A call under way has an event to record.
CallsSound ==
    /\ now \in Int /\ nextId \in Int
    /\ rec \in [Recorders -> Calls]
    /\ \A r \in Recorders : rec[r].pc # "idle" => rec[r].todo # <<>>

\* The lists that the retention policy has not cut.
ListsSound ==
    /\ DOMAIN events = Entities
    /\ \A e \in Entities \ trimmed : events[e] \in Seq(Events)

\* A recording stored a change that the check counts, and is still to check it.
Pending(r, e, check) ==
    /\ rec[r].pc \in {"audit", "rest"}
    /\ Event(r).entity = e
    /\ Event(r).type \in Counted(check)

Reported ==
    \A e \in Entities \ trimmed, check \in Checks :
        Frequent(e, check) =>
            <<e, check>> \in anomalies \/ \E r \in Recorders : Pending(r, e, check)

\* What a record is made of.
LogSound ==
    /\ \E S : audit \in Seq(S)
    /\ \A i \in DOMAIN audit :
         audit[i] = [event |-> audit[i].event, prev |-> audit[i].prev,
                     height |-> audit[i].height, root |-> audit[i].root]

IInv ==
    /\ CallsSound
    /\ ListsSound
    /\ Reported
    /\ LogSound
    /\ AuditChained

----------------------------------------------------------------------------
(* Sequences and windows.                                                  *)

\* The positions of the changes in C among the last k elements of s.
Window(s, k, C) == {i \in 1..Len(s) : i > Len(s) - k /\ s[i].type \in C}

LEMMA WindowFinite ==
    ASSUME NEW s \in Seq(Events), NEW k \in Int, NEW C
    PROVE  IsFiniteSet(Window(s, k, C)) /\ Cardinality(Window(s, k, C)) \in Nat
<1>1. IsFiniteSet(1..Len(s))
  BY FS_Interval
<1>2. Window(s, k, C) \subseteq 1..Len(s)
  BY DEF Window
<1>3. QED
  BY <1>1, <1>2, FS_Subset, FS_CardinalityType

\* An event that is not counted takes nothing into the window.
LEMMA WindowShrinks ==
    ASSUME NEW s \in Seq(Events), NEW event \in Events, NEW k \in Int, NEW C,
           event.type \notin C
    PROVE  Cardinality(Window(Append(s, event), k, C)) <= Cardinality(Window(s, k, C))
<1>1. Window(Append(s, event), k, C) \subseteq Window(s, k, C)
  <2> SUFFICES ASSUME NEW i \in Window(Append(s, event), k, C)
               PROVE  i \in Window(s, k, C)
    OBVIOUS
  <2>1. Len(Append(s, event)) = Len(s) + 1 /\ Len(s) \in Nat
    OBVIOUS
  <2>2. i \in 1..(Len(s) + 1) /\ i > Len(s) + 1 - k /\ Append(s, event)[i].type \in C
    BY <2>1 DEF Window
  <2>3. i # Len(s) + 1
    BY <2>2
  <2>4. i \in 1..Len(s) /\ Append(s, event)[i] = s[i]
    BY <2>1, <2>2, <2>3
  <2>5. QED
    BY <2>1, <2>2, <2>4 DEF Window
<1>2. QED
  BY <1>1, WindowFinite, FS_Subset

\* Frequent, and what FrequentChangesReported asks, are about a window.
LEMMA FrequentWindow ==
    ASSUME ListsSound, NEW e \in Entities \ trimmed, NEW check \in Checks
    PROVE  /\ Frequent(e, check) <=>
                Cardinality(Window(events[e], Recent[check], Counted(check))) > Threshold[check]
           /\ Window(events[e], Recent[check], Counted(check)) =
                {i \in DOMAIN events[e] : /\ i > Len(events[e]) - Recent[check]
                                          /\ events[e][i].type \in Counted(check)}
<1>1. {i \in GetRecentEvents(e, Recent[check]) : events[e][i].type \in Counted(check)}
      = Window(events[e], Recent[check], Counted(check))
  BY DEF GetRecentEvents, Window
<1>2. DOMAIN events[e] = 1..Len(events[e])
  BY DEF ListsSound
<1>3. QED
  BY <1>1, <1>2 DEF Frequent, Window

----------------------------------------------------------------------------
LEMMA InitIInv == Init => IInv
<1> SUFFICES ASSUME Init PROVE IInv
  OBVIOUS
<1>1. CallsSound
  BY DEF Init, CallsSound, Idle, Calls
<1>2. ListsSound
  BY DEF Init, ListsSound
<1>3. Reported
  <2> SUFFICES ASSUME NEW e \in Entities \ trimmed, NEW check \in Checks
               PROVE  ~Frequent(e, check)
    BY DEF Reported
  <2>1. events[e] = <<>>
    BY DEF Init
  <2>2. Window(events[e], Recent[check], Counted(check)) = {}
    BY <2>1 DEF Window
  <2>3. Cardinality({}) = 0
    BY FS_EmptySet
  <2>4. Threshold[check] \in Nat
    BY TraceAssumption
  <2>5. ~(Cardinality(Window(events[e], Recent[check], Counted(check))) > Threshold[check])
    BY <2>2, <2>3, <2>4
  <2>6. QED
    BY <1>2, <2>5, FrequentWindow
<1>4. LogSound
  <2>1. audit \in Seq({}) /\ DOMAIN audit = {}
    BY DEF Init
  <2>2. \E S : audit \in Seq(S)
    BY <2>1, Zenon
  <2>3. QED
    BY <2>1, <2>2 DEF LogSound
<1>5. AuditChained
  BY DEF Init, AuditChained
<1>6. QED
  BY <1>1, <1>2, <1>3, <1>4, <1>5 DEF IInv

\* Steps that leave the log alone.
LEMMA LogKept ==
    ASSUME IInv, UNCHANGED <<audit, lastHash>>
    PROVE  LogSound' /\ AuditChained'
  BY DEF IInv, LogSound, AuditChained, RecordHash

\* Steps that leave the lists and the reports alone and drop no pending check.
LEMMA ReportsKept ==
    ASSUME IInv, UNCHANGED <<events, anomalies, trimmed>>,
           \A r \in Recorders, e \in Entities, check \in Checks :
             Pending(r, e, check) => Pending(r, e, check)'
    PROVE  ListsSound' /\ Reported'
<1>1. ListsSound'
  BY DEF IInv, ListsSound
<1>2. Reported'
  <2> SUFFICES ASSUME NEW e \in Entities \ trimmed, NEW check \in Checks,
                      Frequent(e, check)'
               PROVE  <<e, check>> \in anomalies \/ \E r \in Recorders : Pending(r, e, check)'
    BY DEF Reported
  <2>1. Frequent(e, check)
    BY DEF Frequent, GetRecentEvents
  <2>2. QED
    BY <2>1 DEF IInv, Reported
<1>3. QED
  BY <1>1, <1>2

----------------------------------------------------------------------------
(* The steps of a recording.                                               *)

LEMMA RecordStep ==
    ASSUME IInv, NEW r \in Recorders, NEW todo \in Seq(Changes), todo # <<>>, Record(r, todo)
    PROVE  IInv'
<1> USE DEF Record
<1>1. CallsSound'
  BY DEF IInv, CallsSound, Calls
<1>2. ASSUME NEW q \in Recorders, NEW e \in Entities, NEW check \in Checks, Pending(q, e, check)
      PROVE  Pending(q, e, check)'
  <2>1. q # r
    BY <1>2 DEF Pending, Idle
  <2>2. rec'[q] = rec[q]
    BY <2>1 DEF IInv, CallsSound
  <2>3. QED
    BY <1>2, <2>2 DEF Pending, Event
<1>3. ListsSound' /\ Reported'
  BY <1>2, ReportsKept
<1>4. LogSound' /\ AuditChained'
  BY LogKept
<1>5. QED
  BY <1>1, <1>3, <1>4 DEF IInv

LEMMA ChangesSound ==
    ASSUME NEW type \in Types, NEW e \in Entities, NEW p \in Entities
    PROVE  Change(type, e, p) \in Changes
  BY DEF Change, Changes

\* The event of a call, when there is one.
LEMMA EventSound ==
    ASSUME IInv, NEW r \in Recorders, rec[r].pc # "idle"
    PROVE  Event(r) \in Events /\ Event(r).entity \in Entities
<1>1. rec[r] \in Calls /\ rec[r].todo # <<>>
  BY DEF IInv, CallsSound
<1>2. Head(rec[r].todo) \in Changes
  BY <1>1 DEF Calls
<1>3. QED
  BY <1>1, <1>2 DEF Event, Events, Changes, Calls

\* Only the step of the call changes: its event stays.
LEMMA PcMoves ==
    ASSUME IInv, NEW r \in Recorders, NEW pc \in {"event", "audit", "rest"},
           rec[r].pc # "idle", rec' = [rec EXCEPT ![r].pc = pc],
           now' = now, nextId' = nextId
    PROVE  /\ CallsSound'
           /\ \A q \in Recorders : Event(q)' = Event(q)
           /\ rec'[r].pc = pc
           /\ \A q \in Recorders : q # r => rec'[q] = rec[q]
<1>1. \A q \in Recorders : rec[q] \in Calls
  BY DEF IInv, CallsSound
<1>2. rec'[r].pc = pc /\ rec'[r].todo = rec[r].todo /\ rec'[r].time = rec[r].time
      /\ rec'[r].id = rec[r].id
  BY <1>1 DEF IInv, CallsSound, Calls
<1>3. \A q \in Recorders : q # r => rec'[q] = rec[q]
  BY DEF IInv, CallsSound
<1>4. rec' \in [Recorders -> Calls]
  BY DEF IInv, CallsSound, Calls
<1>5. CallsSound'
  BY <1>2, <1>3, <1>4 DEF IInv, CallsSound
<1>6. \A q \in Recorders : Event(q)' = Event(q)
  BY <1>2, <1>3 DEF Event
<1>7. QED
  BY <1>2, <1>3, <1>5, <1>6

\* A change that is counted leaves its own check pending; one that is not
\* makes nothing frequent.
LEMMA StoreEventStep ==
    ASSUME IInv, NEW r \in Recorders, StoreEvent(r)
    PROVE  IInv'
<1> USE DEF StoreEvent
<1> DEFINE ev == Event(r)
<1>1. ev \in Events /\ ev.entity \in Entities
  BY EventSound
<1>2. CallsSound' /\ (\A q \in Recorders : Event(q)' = Event(q)) /\ rec'[r].pc = "audit"
      /\ \A q \in Recorders : q # r => rec'[q] = rec[q]
  BY PcMoves
<1> HIDE DEF ev
<1>3. /\ DOMAIN events' = Entities
      /\ events'[ev.entity] = Append(events[ev.entity], ev)
      /\ \A e \in Entities : e # ev.entity => events'[e] = events[e]
  BY <1>1 DEF IInv, ListsSound, ev
<1>4. ListsSound'
  <2> SUFFICES ASSUME NEW e \in Entities \ trimmed PROVE events'[e] \in Seq(Events)
    BY <1>3 DEF ListsSound
  <2>1. events[e] \in Seq(Events)
    BY DEF IInv, ListsSound
  <2>2. CASE e = ev.entity
    BY <1>1, <1>3, <2>1, <2>2
  <2>3. CASE e # ev.entity
    BY <1>3, <2>1, <2>3
  <2>4. QED
    BY <2>2, <2>3
<1>5. ASSUME NEW q \in Recorders, NEW e \in Entities, NEW check \in Checks, Pending(q, e, check)
      PROVE  Pending(q, e, check)'
  BY <1>2, <1>5 DEF Pending
<1>6. Reported'
  <2> SUFFICES ASSUME NEW e \in Entities \ trimmed, NEW check \in Checks,
                      Frequent(e, check)'
               PROVE  <<e, check>> \in anomalies \/ \E q \in Recorders : Pending(q, e, check)'
    BY DEF Reported
  <2>1. CASE Frequent(e, check)
    BY <1>5, <2>1 DEF IInv, Reported
  <2>2. CASE e = ev.entity /\ ev.type \in Counted(check)
    BY <1>2, <2>2 DEF Pending, ev
  <2>3. CASE e = ev.entity /\ ev.type \notin Counted(check)
    <3>1. events[e] \in Seq(Events) /\ Recent[check] \in Int
      BY TraceAssumption DEF IInv, ListsSound
    <3>2. Frequent(e, check)' <=>
            Cardinality(Window(events'[e], Recent[check], Counted(check))) > Threshold[check]
      <4>1. {i \in GetRecentEvents(e, Recent[check])' : events'[e][i].type \in Counted(check)}
            = Window(events'[e], Recent[check], Counted(check))
        BY DEF GetRecentEvents, Window
      <4>2. QED
        BY <4>1 DEF Frequent
    <3>3. Cardinality(Window(events'[e], Recent[check], Counted(check)))
          <= Cardinality(Window(events[e], Recent[check], Counted(check)))
      BY <1>1, <1>3, <2>3, <3>1, WindowShrinks
    <3>4. Threshold[check] \in Nat
      BY TraceAssumption
    <3>5. /\ Cardinality(Window(events'[e], Recent[check], Counted(check))) \in Nat
          /\ Cardinality(Window(events[e], Recent[check], Counted(check))) \in Nat
      BY <1>4, <3>1, WindowFinite DEF ListsSound
    <3>6. Cardinality(Window(events[e], Recent[check], Counted(check))) > Threshold[check]
      BY <3>2, <3>3, <3>4, <3>5
    <3>7. Frequent(e, check)
      BY <3>6, FrequentWindow DEF IInv
    <3>8. QED
      BY <2>1, <3>7
  <2>4. CASE e # ev.entity
    <3>1. Frequent(e, check)
      BY <1>3, <2>4 DEF Frequent, GetRecentEvents
    <3>2. QED
      BY <2>1, <3>1
  <2>5. QED
    BY <2>2, <2>3, <2>4
<1>7. LogSound' /\ AuditChained'
  BY LogKept
<1>8. QED
  BY <1>2, <1>4, <1>6, <1>7 DEF IInv

\* The record carries the hash of the last one, and becomes the last.
LEMMA CreateAuditRecordStep ==
    ASSUME IInv, NEW r \in Recorders, CreateAuditRecord(r)
    PROVE  IInv'
<1> DEFINE record == [event |-> Event(r), prev |-> lastHash, height |-> 0, root |-> Zero]
<1>1. /\ rec[r].pc = "audit"
      /\ audit' = Append(audit, record)
      /\ lastHash' = RecordHash(record)
      /\ rec' = [rec EXCEPT ![r].pc = "rest"]
      /\ UNCHANGED <<events, history, anomalies, nextId, now, trimmed>>
  BY DEF CreateAuditRecord
<1>2. CallsSound' /\ (\A q \in Recorders : Event(q)' = Event(q)) /\ rec'[r].pc = "rest"
      /\ \A q \in Recorders : q # r => rec'[q] = rec[q]
  BY <1>1, PcMoves
<1>3. ASSUME NEW q \in Recorders, NEW e \in Entities, NEW check \in Checks, Pending(q, e, check)
      PROVE  Pending(q, e, check)'
  BY <1>2, <1>3 DEF Pending
<1>4. ListsSound' /\ Reported'
  BY <1>1, <1>3, ReportsKept
<1>5. record = [event |-> record.event, prev |-> record.prev, height |-> record.height,
                root |-> record.root] /\ record.prev = lastHash
  OBVIOUS
<1> HIDE DEF record
<1>6. PICK S : audit \in Seq(S)
  BY DEF IInv, LogSound
<1>7. /\ audit' \in Seq(S \cup {record})
      /\ Len(audit') = Len(audit) + 1
      /\ Len(audit) \in Nat
      /\ DOMAIN audit = 1..Len(audit)
      /\ DOMAIN audit' = 1..(Len(audit) + 1)
      /\ audit'[Len(audit) + 1] = record
      /\ \A i \in 1..Len(audit) : audit'[i] = audit[i]
  <2>1. audit \in Seq(S \cup {record})
    BY <1>6
  <2>2. QED
    BY <1>1, <2>1
<1>8. LogSound'
  <2>1. \E T : audit' \in Seq(T)
    BY <1>7, Zenon
  <2>2. ASSUME NEW i \in DOMAIN audit'
        PROVE  audit'[i] = [event |-> audit'[i].event, prev |-> audit'[i].prev,
                            height |-> audit'[i].height, root |-> audit'[i].root]
    <3>1. CASE i \in 1..Len(audit)
      BY <1>7, <3>1 DEF IInv, LogSound
    <3>2. CASE i = Len(audit) + 1
      BY <1>5, <1>7, <3>2
    <3>3. QED
      BY <1>7, <3>1, <3>2
  <2>3. QED
    BY <2>1, <2>2 DEF LogSound
<1>9. AuditChained'
  <2>1. ASSUME NEW i \in DOMAIN audit'
        PROVE  audit'[i].prev = IF i = 1 THEN Zero ELSE RecordHash(audit'[i - 1])
    <3>1. CASE i \in 1..Len(audit)
      <4>1. i # 1 => i - 1 \in 1..Len(audit)
        BY <3>1
      <4>2. QED
        BY <1>7, <3>1, <4>1 DEF IInv, AuditChained
    <3>2. CASE i = Len(audit) + 1 /\ Len(audit) = 0
      <4>1. audit = <<>>
        BY <1>6, <3>2
      <4>2. QED
        BY <1>5, <1>7, <3>2, <4>1 DEF IInv, AuditChained
    <3>3. CASE i = Len(audit) + 1 /\ Len(audit) # 0
      <4>1. audit # <<>> /\ i # 1 /\ i - 1 = Len(audit) /\ i - 1 \in 1..Len(audit)
        BY <1>7, <3>3
      <4>2. QED
        BY <1>5, <1>7, <3>3, <4>1 DEF IInv, AuditChained
    <3>4. QED
      BY <1>7, <3>1, <3>2, <3>3
  <2>2. lastHash' = RecordHash(audit'[Len(audit')]) /\ audit' # <<>>
    BY <1>1, <1>7
  <2>3. QED
    BY <2>1, <2>2 DEF AuditChained, RecordHash
<1>10. QED
  BY <1>2, <1>4, <1>8, <1>9 DEF IInv

\* What was pending with this call is checked now, on the list as it is.
LEMMA FinishEventStep ==
    ASSUME IInv, NEW r \in Recorders, FinishEvent(r)
    PROVE  IInv'
<1>1. /\ rec[r].pc = "rest"
      /\ anomalies' = anomalies \cup Found(Event(r))
      /\ UNCHANGED <<events, audit, lastHash, nextId, now, trimmed>>
  BY DEF FinishEvent
<1>2. PICK next \in Calls : /\ next.pc # "idle" => next.todo # <<>>
                           /\ rec' = [rec EXCEPT ![r] = next]
  <2>1. rec[r] \in Calls /\ rec[r].todo # <<>>
    BY <1>1 DEF IInv, CallsSound
  <2>2. CASE Len(rec[r].todo) = 1
    <3>1. Idle \in Calls /\ Idle.pc = "idle"
      BY DEF Idle, Calls
    <3>2. rec' = [rec EXCEPT ![r] = Idle]
      BY <2>2 DEF FinishEvent
    <3>3. QED
      BY <3>1, <3>2
  <2>3. CASE Len(rec[r].todo) # 1
    <3> DEFINE rest == [rec[r] EXCEPT !.pc = "event", !.id = rec[r].id + 1,
                                 !.todo = Tail(rec[r].todo)]
    <3>1. rec[r].todo \in Seq(Changes) /\ rec[r].id + 1 \in Int
      BY <2>1 DEF Calls
    <3>2. Tail(rec[r].todo) \in Seq(Changes) /\ Len(Tail(rec[r].todo)) = Len(rec[r].todo) - 1
      BY <2>1, <3>1, HeadTailProperties
    <3>3. Tail(rec[r].todo) # <<>>
      <4>1. Len(rec[r].todo) \in Nat
        BY <3>1
      <4>2. Len(Tail(rec[r].todo)) # 0
        BY <2>3, <3>2, <4>1
      <4>3. QED
        BY <3>2, <4>2, EmptySeq
    <3>4. rest \in Calls /\ rest.todo # <<>>
      BY <2>1, <3>1, <3>2, <3>3 DEF Calls
    <3>5. rec' = [rec EXCEPT ![r] = rest]
      BY <2>3 DEF FinishEvent
    <3> HIDE DEF rest
    <3>6. QED
      BY <3>4, <3>5
  <2>4. QED
    BY <2>2, <2>3
<1>3. rec'[r] = next /\ \A q \in Recorders : q # r => rec'[q] = rec[q]
  BY <1>2 DEF IInv, CallsSound
<1>4. CallsSound'
  <2>1. rec' \in [Recorders -> Calls]
    BY <1>1, <1>2 DEF IInv, CallsSound
  <2>2. QED
    BY <1>1, <1>2, <1>3, <2>1 DEF IInv, CallsSound
<1>5. ListsSound'
  BY <1>1 DEF IInv, ListsSound
<1>6. Reported'
  <2> SUFFICES ASSUME NEW e \in Entities \ trimmed, NEW check \in Checks,
                      Frequent(e, check)'
               PROVE  <<e, check>> \in anomalies' \/ \E q \in Recorders : Pending(q, e, check)'
    BY <1>1 DEF Reported
  <2>1. Frequent(e, check)
    BY <1>1 DEF Frequent, GetRecentEvents
  <2>2. CASE <<e, check>> \in anomalies
    BY <1>1, <2>2
  <2>3. CASE Pending(r, e, check)
    <3>1. <<e, check>> \in Found(Event(r))
      BY <2>1, <2>3 DEF Pending, Found
    <3>2. QED
      BY <1>1, <3>1
  <2>4. ASSUME NEW q \in Recorders, q # r, Pending(q, e, check)
        PROVE  Pending(q, e, check)'
    BY <1>3, <2>4 DEF Pending, Event
  <2>5. QED
    BY <2>1, <2>2, <2>3, <2>4 DEF IInv, Reported
<1>7. LogSound' /\ AuditChained'
  BY <1>1, LogKept
<1>8. QED
  BY <1>4, <1>5, <1>6, <1>7 DEF IInv

----------------------------------------------------------------------------
(* Anchoring, retention and the clock.                                     *)

\* Heights and roots change and the hashes do not.
LEMMA Anchored ==
    ASSUME LogSound, NEW h \in Heights, AnchorAuditLog(h)
    PROVE  /\ DOMAIN audit' = DOMAIN audit
           /\ Len(audit') = Len(audit)
           /\ \E T : audit' \in Seq(T)
           /\ \A i \in DOMAIN audit :
                /\ audit'[i].event = audit[i].event
                /\ audit'[i].prev = audit[i].prev
                /\ audit'[i] = [event |-> audit'[i].event, prev |-> audit'[i].prev,
                                height |-> audit'[i].height, root |-> audit'[i].root]
                /\ audit[i].height # 0 => audit'[i] = audit[i]
<1> DEFINE unanchored == {i \in DOMAIN audit : audit[i].height = 0}
           root == RootOf(audit, unanchored)
<1>1. audit' = [i \in DOMAIN audit |->
         IF i \in unanchored THEN [audit[i] EXCEPT !.height = h, !.root = root] ELSE audit[i]]
  BY DEF AnchorAuditLog
<1> HIDE DEF root
<1>2. PICK S : audit \in Seq(S)
  BY DEF LogSound
<1>3. DOMAIN audit = 1..Len(audit) /\ Len(audit) \in Nat
  BY <1>2
<1>4. audit' \in Seq({audit'[i] : i \in DOMAIN audit})
  <2>1. audit' \in [1..Len(audit) -> {audit'[i] : i \in DOMAIN audit}]
    BY <1>1, <1>3
  <2>2. QED
    BY <1>3, <2>1
<1>5. DOMAIN audit' = DOMAIN audit /\ Len(audit') = Len(audit)
  <2>1. DOMAIN audit' = DOMAIN audit
    BY <1>1
  <2>2. Len(audit') \in Nat /\ DOMAIN audit' = 1..Len(audit')
    BY <1>4
  <2>3. QED
    BY <1>3, <2>1, <2>2
<1>6. \E T : audit' \in Seq(T)
  BY <1>4, Zenon
<1>7. ASSUME NEW i \in DOMAIN audit
      PROVE  /\ audit'[i].event = audit[i].event
             /\ audit'[i].prev = audit[i].prev
             /\ audit'[i] = [event |-> audit'[i].event, prev |-> audit'[i].prev,
                             height |-> audit'[i].height, root |-> audit'[i].root]
             /\ audit[i].height # 0 => audit'[i] = audit[i]
  <2>1. audit[i] = [event |-> audit[i].event, prev |-> audit[i].prev,
                    height |-> audit[i].height, root |-> audit[i].root]
    BY DEF LogSound
  <2>2. CASE i \in unanchored
    BY <1>1, <2>1, <2>2
  <2>3. CASE i \notin unanchored
    BY <1>1, <2>1, <2>3
  <2>4. QED
    BY <2>2, <2>3
<1>8. QED
  BY <1>5, <1>6, <1>7

LEMMA AnchorAuditLogStep ==
    ASSUME IInv, NEW h \in Heights, AnchorAuditLog(h)
    PROVE  IInv'
<1>1. UNCHANGED <<events, lastHash, history, anomalies, rec, nextId, now, trimmed>>
  BY DEF AnchorAuditLog
<1>2. CallsSound' /\ ListsSound' /\ Reported'
  BY <1>1, ReportsKept DEF IInv, CallsSound, Pending, Event
<1>3. LogSound'
  BY Anchored DEF IInv, LogSound
<1>4. \A i \in DOMAIN audit : RecordHash(audit'[i]) = RecordHash(audit[i])
  BY Anchored DEF IInv, RecordHash
<1>5. PICK S : audit \in Seq(S)
  BY DEF IInv, LogSound
<1>6. AuditChained'
  <2>1. ASSUME NEW i \in DOMAIN audit'
        PROVE  audit'[i].prev = IF i = 1 THEN Zero ELSE RecordHash(audit'[i - 1])
    <3>1. i \in DOMAIN audit /\ (i # 1 => i - 1 \in DOMAIN audit)
      BY <1>5, Anchored DEF IInv
    <3>2. QED
      BY <1>4, <3>1, Anchored DEF IInv, AuditChained
  <2>2. lastHash' = IF audit' = <<>> THEN Zero ELSE RecordHash(audit'[Len(audit')])
    <3>1. audit # <<>> /\ audit' # <<>> /\ Len(audit) \in DOMAIN audit
      <4>1. PICK i \in DOMAIN audit : audit[i].height = 0
        BY DEF AnchorAuditLog
      <4>2. DOMAIN audit = 1..Len(audit) /\ Len(audit) \in Nat
        BY <1>5
      <4>3. i \in DOMAIN audit'
        BY <4>1, Anchored DEF IInv
      <4>4. QED
        BY <4>1, <4>2, <4>3
    <3>2. QED
      BY <1>1, <1>4, <3>1, Anchored DEF IInv, AuditChained
  <2>3. QED
    BY <2>1, <2>2 DEF AuditChained, RecordHash
<1>7. QED
  BY <1>2, <1>3, <1>6 DEF IInv

LEMMA RetentionStep ==
    ASSUME IInv, EnforceRetentionPolicy
    PROVE  IInv'
<1>1. /\ DOMAIN events' = Entities
      /\ trimmed \subseteq trimmed'
      /\ \A e \in Entities \ trimmed' : events'[e] = events[e]
      /\ UNCHANGED <<audit, lastHash, history, anomalies, rec, nextId, now>>
  BY DEF EnforceRetentionPolicy
<1>2. CallsSound'
  BY <1>1 DEF IInv, CallsSound
<1>3. ListsSound'
  BY <1>1 DEF IInv, ListsSound
<1>4. Reported'
  <2> SUFFICES ASSUME NEW e \in Entities \ trimmed', NEW check \in Checks,
                      Frequent(e, check)'
               PROVE  <<e, check>> \in anomalies \/ \E q \in Recorders : Pending(q, e, check)
    BY <1>1 DEF Reported, Pending, Event
  <2>1. Frequent(e, check)
    BY <1>1 DEF Frequent, GetRecentEvents
  <2>2. QED
    BY <1>1, <2>1 DEF IInv, Reported
<1>5. LogSound' /\ AuditChained'
  BY <1>1, LogKept
<1>6. QED
  BY <1>2, <1>3, <1>4, <1>5 DEF IInv

LEMMA TickStep ==
    ASSUME IInv, Tick
    PROVE  IInv'
<1>1. UNCHANGED <<events, audit, lastHash, history, anomalies, rec, nextId, trimmed>>
      /\ now' = now + 1
  BY DEF Tick
<1>2. CallsSound'
  BY <1>1 DEF IInv, CallsSound
<1>3. QED
  BY <1>1, <1>2, LogKept, ReportsKept DEF IInv, Pending, Event

----------------------------------------------------------------------------
LEMMA NextIInv == IInv /\ [Next]_vars => IInv'
<1> SUFFICES ASSUME IInv, [Next]_vars PROVE IInv'
  OBVIOUS
<1>1. CASE UNCHANGED vars
  <2>1. CallsSound'
    BY <1>1 DEF IInv, CallsSound, vars
  <2>2. QED
    BY <1>1, <2>1, LogKept, ReportsKept DEF IInv, Pending, Event, vars
<1>2. ASSUME NEW r \in Recorders, NEW p \in Platoons,
             \/ RecordPlatoonCreated(r, p)
             \/ \E v \in Vehicles : RecordMemberJoined(r, p, v)
             \/ \E e \in Vehicles \cup {p} : RecordLeft(r, e, p)
             \/ RecordLeader(r, p)
      PROVE  IInv'
  <2>1. \A type \in Types, e \in Vehicles \cup {p} : Change(type, e, p) \in Changes
    BY ChangesSound DEF Entities
  <2>2. \A x, y \in Changes : <<x>> \in Seq(Changes) /\ <<x, y>> \in Seq(Changes)
                             /\ <<x>> # <<>> /\ <<x, y>> # <<>>
    OBVIOUS
  <2>3. {"join", "left", "leader", "other"} = Types
    BY DEF Types
  <2>4. QED
    BY <1>2, <2>1, <2>2, <2>3, RecordStep
    DEF RecordPlatoonCreated, RecordMemberJoined, RecordLeft, RecordLeader
<1>3. ASSUME NEW r \in Recorders, NEW e \in Entities, RecordStatusChange(r, e)
      PROVE  IInv'
  <2>1. Change("other", e, e) \in Changes
    BY ChangesSound DEF Types
  <2>2. \A x \in Changes : <<x>> \in Seq(Changes) /\ <<x>> # <<>>
    OBVIOUS
  <2>3. QED
    BY <1>3, <2>1, <2>2, RecordStep DEF RecordStatusChange
<1>4. CASE \E r \in Recorders : RecorderStep(r)
  BY <1>4, StoreEventStep, CreateAuditRecordStep, FinishEventStep DEF RecorderStep
<1>5. QED
  BY <1>1, <1>2, <1>3, <1>4, AnchorAuditLogStep, RetentionStep, TickStep DEF Next

LEMMA AlwaysIInv == Spec => []IInv
<1>1. Init => IInv
  BY InitIInv
<1>2. IInv /\ [Next]_vars => IInv'
  BY NextIInv
<1>3. QED
  BY <1>1, <1>2, PTL DEF Spec

\* The audit log verifies at any time, whatever recordings and anchorings
\* interleave: each record holds the hash of the one before.
\* (state/service.go createAuditRecord, AnchorAuditLog)
THEOREM AuditCorrect == Spec => []AuditChained
<1>1. IInv => AuditChained
  BY DEF IInv
<1>2. QED
  BY <1>1, AlwaysIInv, PTL

\* However recordings race, an entity whose recent events hold more changes
\* than the threshold is reported by the time nobody records.
\* (state/service.go RecordEvent, checkForAnomalies, getRecentEvents)
THEOREM ReportedCorrect == Spec => []FrequentChangesReported
<1>1. IInv => FrequentChangesReported
  <2> SUFFICES ASSUME IInv, NEW e \in Entities \ trimmed, NEW check \in Checks,
                      \A r \in Recorders : rec[r] = Idle,
                      Cardinality({i \in DOMAIN events[e] :
                                     /\ i > Len(events[e]) - Recent[check]
                                     /\ events[e][i].type \in Counted(check)})
                        > Threshold[check]
               PROVE  <<e, check>> \in anomalies
    BY DEF FrequentChangesReported
  <2>1. Frequent(e, check)
    BY FrequentWindow DEF IInv
  <2>2. \A r \in Recorders : ~Pending(r, e, check)
    BY DEF Pending, Idle
  <2>3. QED
    BY <2>1, <2>2 DEF IInv, Reported
<1>2. QED
  BY <1>1, AlwaysIInv, PTL
----------------------------------------------------------------------------
(* Merkle trees, for any number of leaves.  The recursive function of      *)
(* MerkleRoot is shown to be what its definition says by induction over    *)
(* the levels.                                                             *)

Less == {ss \in Nat \X Nat : ss[1] < ss[2]}

LEMMA LessWellFounded == IsWellFoundedOn(Less, Nat)
  BY NatLessThanWellFounded DEF OpToRel, Less

\* A set of numbers that is not empty has a least element.
LEMMA LeastNumber ==
    ASSUME NEW T \in SUBSET Nat, T # {}
    PROVE  \E x \in T : \A y \in T : x <= y
<1>1. PICK x \in T : \A y \in T : <<y, x>> \notin Less
  BY LessWellFounded, WFMin
<1>2. ASSUME NEW y \in T PROVE x <= y
  <2>1. x \in Nat /\ y \in Nat /\ <<y, x>> \notin Less
    BY <1>1
  <2>2. ~(y < x)
    BY <2>1 DEF Less
  <2>3. QED
    BY <2>1, <2>2
<1>3. QED
  BY <1>2

\* Induction: a set that holds 0 and with n also n + 1 holds every number.
LEMMA SetInduction ==
    ASSUME NEW T, 0 \in T, \A n \in Nat : n \in T => n + 1 \in T
    PROVE  Nat \subseteq T
<1> DEFINE U == Nat \ T
<1>1. SUFFICES ASSUME U # {} PROVE FALSE
  OBVIOUS
<1>2. PICK x \in U : \A y \in U : x <= y
  BY <1>1, LeastNumber
<1>3. x # 0 /\ x - 1 \in Nat /\ ~(x <= x - 1)
  OBVIOUS
<1>4. x - 1 \in T
  BY <1>2, <1>3
<1>5. QED
  BY <1>3, <1>4

\* The levels of the tree over some hashes, level 0.
TreeLevels(hashes) ==
    LET level[k \in 0..Len(hashes)] == IF k = 0 THEN hashes ELSE PairUp(level[k - 1])
    IN  level

LEMMA LevelsExist ==
    ASSUME NEW h, NEW n \in Nat
    PROVE  \E f : f = [k \in 0..n |-> IF k = 0 THEN h ELSE PairUp(f[k - 1])]
<1> DEFINE P(m, f) == f = [k \in 0..m |-> IF k = 0 THEN h ELSE PairUp(f[k - 1])]
           T == {m \in Nat : \E f : P(m, f)}
<1>1. 0 \in T
  <2>1. P(0, [k \in 0..0 |-> h])
    OBVIOUS
  <2>2. QED
    BY <2>1
<1>2. ASSUME NEW m \in Nat, m \in T PROVE m + 1 \in T
  <2>1. PICK f : P(m, f)
    BY <1>2
  <2> DEFINE g == [k \in 0..(m + 1) |-> IF k = m + 1 THEN PairUp(f[m]) ELSE f[k]]
  <2>2. \A k \in 0..(m + 1) : g[k] = IF k = 0 THEN h ELSE PairUp(g[k - 1])
    <3> SUFFICES ASSUME NEW k \in 0..(m + 1)
                 PROVE  g[k] = IF k = 0 THEN h ELSE PairUp(g[k - 1])
      OBVIOUS
    <3>1. CASE k = m + 1
      BY <3>1
    <3>2. CASE k \in 0..m /\ k # 0
      <4>1. k - 1 \in 0..m /\ k # m + 1 /\ k - 1 # m + 1
        BY <3>2
      <4>2. g[k] = f[k] /\ g[k - 1] = f[k - 1]
        BY <3>2, <4>1
      <4>3. f[k] = PairUp(f[k - 1])
        BY <2>1, <3>2
      <4>4. QED
        BY <3>2, <4>2, <4>3
    <3>3. CASE k = 0
      BY <2>1, <3>3
    <3>4. QED
      BY <3>1, <3>2, <3>3
  <2>3. P(m + 1, g)
    BY <2>2
  <2> HIDE DEF g, P
  <2>4. QED
    BY <2>3
<1> HIDE DEF T
<1>3. n \in T
  BY <1>1, <1>2, SetInduction
<1>4. QED
  BY <1>3 DEF T

LEMMA TreeLevelsDef ==
    ASSUME NEW h, Len(h) \in Nat
    PROVE  TreeLevels(h) =
             [k \in 0..Len(h) |-> IF k = 0 THEN h ELSE PairUp(TreeLevels(h)[k - 1])]
  BY LevelsExist DEF TreeLevels

\* s is a sequence of m elements.
IsList(s, m) == m \in Nat /\ s = [i \in 1..m |-> s[i]]

LEMMA ListLength ==
    ASSUME NEW s, NEW m, IsList(s, m)
    PROVE  Len(s) = m /\ DOMAIN s = 1..m /\ s \in Seq({s[i] : i \in 1..m})
<1>1. m \in Nat /\ s = [i \in 1..m |-> s[i]]
  BY DEF IsList
<1>2. s \in [1..m -> {s[i] : i \in 1..m}]
  BY <1>1
<1>3. QED
  BY <1>1, <1>2

Half(m) == (m + 1) \div 2

LEMMA PairUpList ==
    ASSUME NEW s, NEW m \in Nat, m > 1, IsList(s, m)
    PROVE  /\ IsList(PairUp(s), Half(m))
           /\ Half(m) \in 1..(m - 1)
           /\ PairUp(s) = [i \in 1..Half(m) |->
                <<"node", s[2 * i - 1], IF 2 * i <= m THEN s[2 * i] ELSE s[2 * i - 1]>>]
<1>1. Len(s) = m
  BY ListLength
<1>2. Half(m) \in 1..(m - 1)
  BY DEF Half
<1>3. PairUp(s) = [i \in 1..Half(m) |->
                <<"node", s[2 * i - 1], IF 2 * i <= m THEN s[2 * i] ELSE s[2 * i - 1]>>]
  BY <1>1 DEF PairUp, Half
<1>4. IsList(PairUp(s), Half(m))
  <2>1. PICK p : p = PairUp(s)
    OBVIOUS
  <2>2. p = [i \in 1..Half(m) |-> p[i]]
    BY <1>3, <2>1
  <2>3. Half(m) \in Nat
    BY <1>2
  <2> HIDE DEF Half
  <2>4. IsList(p, Half(m))
    BY <2>2, <2>3 DEF IsList
  <2>5. QED
    BY <2>1, <2>4
<1>5. QED
  BY <1>2, <1>3, <1>4

\* A level of one node or none is its own next level.
LEMMA PairUpShort ==
    ASSUME NEW s, NEW m \in Nat, m <= 1, IsList(s, m)
    PROVE  PairUp(s) = s
<1>1. Len(s) = m
  BY ListLength
<1>2. QED
  BY <1>1 DEF PairUp

\* Every level is a sequence, and shorter than the one before down to one node.
LevelFits(s, n, k) == \E m \in Nat : m >= 1 /\ IsList(s, m) /\ (m = 1 \/ m <= n - k)

LEMMA LevelSizes ==
    ASSUME NEW h, NEW n \in Nat \ {0}, IsList(h, n)
    PROVE  /\ TreeLevels(h)[0] = h
           /\ \A k \in 0..n : LevelFits(TreeLevels(h)[k], n, k)
           /\ \A k \in 0..(n - 1) : TreeLevels(h)[k + 1] = PairUp(TreeLevels(h)[k])
<1> DEFINE L == TreeLevels(h)
           T == {j \in Nat : j <= n => LevelFits(L[j], n, j)}
<1>1. Len(h) = n
  BY ListLength
<1>2. L = [j \in 0..n |-> IF j = 0 THEN h ELSE PairUp(L[j - 1])]
  BY <1>1, TreeLevelsDef
<1> HIDE DEF L
<1>3. L[0] = h
  BY <1>2
<1>4. 0 \in T
  BY <1>3 DEF LevelFits
<1>5. ASSUME NEW j \in 0..(n - 1)
      PROVE  L[j + 1] = PairUp(L[j])
  <2>1. j + 1 \in 0..n /\ j + 1 # 0 /\ (j + 1) - 1 = j
    OBVIOUS
  <2>2. QED
    BY <1>2, <2>1
<1>6. ASSUME NEW j \in Nat, j \in T PROVE j + 1 \in T
  <2> SUFFICES ASSUME j + 1 <= n PROVE LevelFits(L[j + 1], n, j + 1)
    OBVIOUS
  <2>1. PICK m \in Nat : m >= 1 /\ IsList(L[j], m) /\ (m = 1 \/ m <= n - j)
    BY <1>6 DEF LevelFits
  <2>2. L[j + 1] = PairUp(L[j])
    BY <1>5
  <2>3. CASE m = 1
    <3>1. L[j + 1] = L[j]
      BY <2>1, <2>2, <2>3, PairUpShort
    <3>2. QED
      BY <2>1, <2>3, <3>1 DEF LevelFits
  <2>4. CASE m > 1
    <3>1. IsList(PairUp(L[j]), Half(m)) /\ Half(m) \in 1..(m - 1)
      BY <2>1, <2>4, PairUpList
    <3>2. Half(m) \in Nat /\ Half(m) >= 1 /\ Half(m) <= n - (j + 1)
      BY <2>1, <2>4, <3>1
    <3>3. QED
      BY <2>2, <3>1, <3>2 DEF LevelFits
  <2>5. QED
    BY <2>1, <2>3, <2>4
<1> HIDE DEF T
<1>7. Nat \subseteq T
  BY <1>4, <1>6, SetInduction
<1>8. ASSUME NEW k \in 0..n PROVE LevelFits(L[k], n, k)
  BY <1>7 DEF T
<1>9. QED
  BY <1>3, <1>5, <1>8 DEF L

----------------------------------------------------------------------------
(* What a root tells of the leaves.                                        *)

Elements(s) == {s[i] : i \in DOMAIN s}

\* A set that holds with a pair its two nodes.
Closed(N) == \A l, r : <<"node", l, r>> \in N => l \in N /\ r \in N

LEMMA PairsBelow ==
    ASSUME NEW s, NEW m \in Nat, IsList(s, m), NEW N, Closed(N), Elements(PairUp(s)) \subseteq N
    PROVE  Elements(s) \subseteq N
<1>1. CASE m <= 1
  BY <1>1, PairUpShort
<1>2. CASE m > 1
  <2>1. DOMAIN s = 1..m
    BY ListLength
  <2>2. ASSUME NEW p \in 1..m PROVE s[p] \in N
    <3> DEFINE i == (p + 1) \div 2
    <3>1. i \in 1..Half(m)
      BY DEF Half
    <3>2. PairUp(s)[i] =
            <<"node", s[2 * i - 1], IF 2 * i <= m THEN s[2 * i] ELSE s[2 * i - 1]>>
      BY <1>2, <3>1, PairUpList
    <3>3. i \in DOMAIN PairUp(s)
      BY <1>2, <3>1, PairUpList
    <3>4. p = 2 * i - 1 \/ (p = 2 * i /\ 2 * i <= m)
      OBVIOUS
    <3> HIDE DEF i
    <3>5. PairUp(s)[i] \in N
      BY <3>3 DEF Elements
    <3>6. s[2 * i - 1] \in N /\ (2 * i <= m => s[2 * i] \in N)
      BY <3>2, <3>5 DEF Closed
    <3>7. QED
      BY <3>4, <3>6
  <2>3. QED
    BY <2>1, <2>2 DEF Elements
<1>3. QED
  BY <1>1, <1>2
\* A closed set that holds the root holds every leaf.
LEMMA LeavesClosed ==
    ASSUME NEW h, NEW n \in Nat \ {0}, IsList(h, n), NEW N, Closed(N), MerkleRoot(h) \in N
    PROVE  Elements(h) \subseteq N
<1> DEFINE L == TreeLevels(h)
           T == {d \in Nat : d <= n => Elements(L[n - d]) \subseteq N}
<1>1. /\ L[0] = h
      /\ \A k \in 0..n : LevelFits(L[k], n, k)
      /\ \A k \in 0..(n - 1) : L[k + 1] = PairUp(L[k])
  BY LevelSizes
<1>2. MerkleRoot(h) = L[n][1]
  <2>1. Len(h) = n /\ DOMAIN h = 1..n
    BY ListLength
  <2>2. h # <<>>
    BY <2>1
  <2>3. QED
    BY <2>1, <2>2 DEF MerkleRoot, TreeLevels
<1> HIDE DEF L
<1>3. 0 \in T
  <2>1. n \in 0..n /\ n - 0 = n
    OBVIOUS
  <2>2. PICK m \in Nat : m >= 1 /\ IsList(L[n], m) /\ (m = 1 \/ m <= n - n)
    BY <1>1, <2>1 DEF LevelFits
  <2>3. m = 1
    BY <2>2
  <2>4. DOMAIN L[n] = 1..1
    BY <2>2, <2>3, ListLength
  <2>5. Elements(L[n]) \subseteq N
    BY <1>2, <2>4 DEF Elements
  <2>6. QED
    BY <2>1, <2>5
<1>4. ASSUME NEW d \in Nat, d \in T PROVE d + 1 \in T
  <2> SUFFICES ASSUME d + 1 <= n PROVE Elements(L[n - (d + 1)]) \subseteq N
    OBVIOUS
  <2>1. PICK k \in 0..(n - 1) : k = n - (d + 1) /\ n - d = k + 1 /\ k \in 0..n
    OBVIOUS
  <2>2. Elements(PairUp(L[k])) \subseteq N
    BY <1>1, <1>4, <2>1
  <2>3. PICK m \in Nat : IsList(L[k], m)
    BY <1>1, <2>1 DEF LevelFits
  <2>4. QED
    BY <2>1, <2>2, <2>3, PairsBelow
<1> HIDE DEF T
<1>5. n \in T
  BY <1>3, <1>4, SetInduction
<1>6. Elements(L[n - n]) \subseteq N /\ n - n = 0
  BY <1>5 DEF T
<1>7. QED
  BY <1>1, <1>6

\* A node above the leaves is made of two nodes of the level below.
LEMMA PairNode ==
    ASSUME NEW s, NEW m \in Nat, m > 1, IsList(s, m), NEW t \in Elements(PairUp(s))
    PROVE  \E p, q \in 1..m : t = <<"node", s[p], s[q]>>
<1>1. PICK i \in 1..Half(m) :
         t = <<"node", s[2 * i - 1], IF 2 * i <= m THEN s[2 * i] ELSE s[2 * i - 1]>>
  BY PairUpList DEF Elements
<1>2. 2 * i - 1 \in 1..m /\ (2 * i <= m => 2 * i \in 1..m)
  <2>1. Half(m) \in 1..(m - 1)
    BY PairUpList
  <2>2. QED
    BY <2>1 DEF Half
<1>3. QED
  BY <1>1, <1>2

\* No leaf is itself the hash of a pair.
Plain(h) == \A l, r : <<"node", l, r>> \notin Elements(h)

\* The nodes of a tree are closed, and those that are no pair are leaves.
LEMMA NodesClosed ==
    ASSUME NEW h, NEW n \in Nat \ {0}, IsList(h, n), Plain(h)
    PROVE  \E N : /\ Closed(N)
                  /\ MerkleRoot(h) \in N
                  /\ \A t \in N : t \in Elements(h) \/ \E l, r : t = <<"node", l, r>>
<1> DEFINE L == TreeLevels(h)
           N == UNION {Elements(L[k]) : k \in 0..n}
           Known(t) == t \in Elements(h) \/ \E l, r \in N : t = <<"node", l, r>>
           T == {k \in Nat : k <= n => \A t \in Elements(L[k]) : Known(t)}
<1>1. /\ L[0] = h
      /\ \A k \in 0..n : LevelFits(L[k], n, k)
      /\ \A k \in 0..(n - 1) : L[k + 1] = PairUp(L[k])
  BY LevelSizes
<1>2. MerkleRoot(h) = L[n][1]
  <2>1. Len(h) = n /\ DOMAIN h = 1..n
    BY ListLength
  <2>2. h # <<>>
    BY <2>1
  <2>3. QED
    BY <2>1, <2>2 DEF MerkleRoot, TreeLevels
<1> HIDE DEF L
<1>3. 0 \in T
  BY <1>1
<1>4. ASSUME NEW k \in Nat, k \in T PROVE k + 1 \in T
  <2> SUFFICES ASSUME k + 1 <= n, NEW t \in Elements(L[k + 1]) PROVE Known(t)
    OBVIOUS
  <2>1. k \in 0..(n - 1) /\ k \in 0..n
    OBVIOUS
  <2>2. PICK m \in Nat : m >= 1 /\ IsList(L[k], m)
    BY <1>1, <2>1 DEF LevelFits
  <2>3. L[k + 1] = PairUp(L[k])
    BY <1>1, <2>1
  <2>4. CASE m <= 1
    <3>1. t \in Elements(L[k])
      BY <2>2, <2>3, <2>4, PairUpShort
    <3>2. QED
      BY <1>4, <2>1, <3>1
  <2>5. CASE m > 1
    <3>1. PICK p, q \in 1..m : t = <<"node", L[k][p], L[k][q]>>
      BY <2>2, <2>3, <2>5, PairNode
    <3>2. L[k][p] \in N /\ L[k][q] \in N
      <4>1. DOMAIN L[k] = 1..m
        BY <2>2, ListLength
      <4>2. QED
        BY <2>1, <4>1 DEF Elements
    <3> HIDE DEF N
    <3>3. \E l, r \in N : t = <<"node", l, r>>
      BY <3>1, <3>2
    <3>4. QED
      BY <3>3
  <2>6. QED
    BY <2>2, <2>4, <2>5
<1> HIDE DEF T
<1>5. ASSUME NEW t \in N PROVE Known(t)
  <2>1. PICK k \in 0..n : t \in Elements(L[k])
    OBVIOUS
  <2>2. k \in T
    BY <1>3, <1>4, SetInduction
  <2>3. QED
    BY <2>1, <2>2 DEF T
<1>6. MerkleRoot(h) \in N
  <2>1. n \in 0..n
    OBVIOUS
  <2>2. PICK m \in Nat : m >= 1 /\ IsList(L[n], m)
    BY <1>1, <2>1 DEF LevelFits
  <2>3. DOMAIN L[n] = 1..m
    BY <2>2, ListLength
  <2>4. 1 \in DOMAIN L[n]
    BY <2>2, <2>3
  <2>5. L[n][1] \in Elements(L[n])
    BY <2>4 DEF Elements
  <2>6. QED
    BY <1>2, <2>1, <2>5
<1> HIDE DEF N
<1>7. Closed(N)
  <2> SUFFICES ASSUME NEW l, NEW r, <<"node", l, r>> \in N PROVE l \in N /\ r \in N
    BY DEF Closed
  <2>1. PICK l2, r2 \in N : <<"node", l, r>> = <<"node", l2, r2>>
    BY <1>5 DEF Plain
  <2>2. QED
    BY <2>1
<1>8. QED
  BY <1>5, <1>6, <1>7

\* Lists of plain hashes with the same root have the same hashes.
LEMMA SameLeaves ==
    ASSUME NEW h, NEW n \in Nat \ {0}, IsList(h, n), Plain(h),
           NEW g, NEW m \in Nat \ {0}, IsList(g, m), Plain(g),
           MerkleRoot(h) = MerkleRoot(g)
    PROVE  Elements(g) \subseteq Elements(h)
<1>1. PICK N : /\ Closed(N)
               /\ MerkleRoot(h) \in N
               /\ \A t \in N : t \in Elements(h) \/ \E l, r : t = <<"node", l, r>>
  BY NodesClosed
<1>2. Elements(g) \subseteq N
  BY <1>1, LeavesClosed
<1>3. QED
  BY <1>1, <1>2 DEF Plain
----------------------------------------------------------------------------
(* The records that a root is computed from.                               *)

Before(P, p) == {q \in P : q < p}

\* The i-th position of P.
Nth(P, i) == CHOOSE p \in P : Cardinality(Before(P, p)) = i - 1

\* Every position of P is the i-th for one i, and every i has its position.
LEMMA NthPosition ==
    ASSUME NEW P \in SUBSET Nat, IsFiniteSet(P), NEW n \in Nat, n = Cardinality(P)
    PROVE  {Nth(P, i) : i \in 1..n} = P
<1> DEFINE rank == [p \in P |-> Cardinality(Before(P, p))]
           R == 0..(n - 1)
<1>1. ASSUME NEW p \in P
      PROVE  rank[p] \in R /\ IsFiniteSet(Before(P, p))
  <2>1. Before(P, p) \subseteq P \ {p}
    BY DEF Before
  <2>2. IsFiniteSet(P \ {p}) /\ Cardinality(P \ {p}) = n - 1
    BY FS_RemoveElement
  <2>3. IsFiniteSet(Before(P, p)) /\ Cardinality(Before(P, p)) <= n - 1
    BY <2>1, <2>2, FS_Subset
  <2>4. Cardinality(Before(P, p)) \in Nat
    BY <2>3, FS_CardinalityType
  <2>5. QED
    BY <2>3, <2>4
<1>2. ASSUME NEW p \in P, NEW q \in P, p < q
      PROVE  rank[p] < rank[q]
  <2>1. Before(P, p) \cup {p} \subseteq Before(P, q) /\ p \notin Before(P, p)
    <3>1. p \in Nat /\ q \in Nat /\ \A x \in P : x \in Nat
      OBVIOUS
    <3>2. p < q /\ ~(p < p) /\ \A x \in P : x < p => x < q
      BY <1>2, <3>1
    <3> HIDE DEF rank
    <3>3. QED
      BY <3>2 DEF Before
  <2>2. Cardinality(Before(P, p) \cup {p}) = Cardinality(Before(P, p)) + 1
    BY <1>1, <2>1, FS_AddElement
  <2>3. Cardinality(Before(P, p) \cup {p}) <= Cardinality(Before(P, q))
    BY <1>1, <2>1, FS_Subset
  <2>4. rank[p] \in Nat /\ rank[q] \in Nat
    BY <1>1
  <2>5. QED
    BY <2>2, <2>3, <2>4
<1>3. ASSUME NEW p \in P, NEW q \in P, rank[p] = rank[q]
      PROVE  p = q
  <2>1. rank[p] \in Nat /\ rank[q] \in Nat
    BY <1>1
  <2> HIDE DEF rank
  <2>2. ~(p < q) /\ ~(q < p)
    BY <1>2, <1>3, <2>1
  <2>3. QED
    BY <2>2
<1>4. rank \in [P -> R]
  <2> HIDE DEF R
  <2>1. QED
    BY <1>1
<1>5. rank \in Surjection(P, R)
  <2>1. rank \in Injection(P, R)
    <3> HIDE DEF rank, R
    <3>1. QED
      BY <1>3, <1>4 DEF Injection, IsInjective
  <2>2. IsFiniteSet(R) /\ Cardinality(R) = n
    <3>1. 0 \in Int /\ n - 1 \in Int
      OBVIOUS
    <3>2. IsFiniteSet(R) /\ Cardinality(R) = IF 0 > n - 1 THEN 0 ELSE (n - 1) - 0 + 1
      BY <3>1, FS_Interval
    <3>3. QED
      BY <3>2
  <2> HIDE DEF rank, R
  <2>3. QED
    BY <2>1, <2>2, FS_Injection
<1>6. \A r \in R : \E p \in P : rank[p] = r
  <2> HIDE DEF rank, R
  <2>1. QED
    BY <1>5 DEF Surjection
<1>7. ASSUME NEW i \in 1..n
      PROVE  Nth(P, i) \in P /\ rank[Nth(P, i)] = i - 1
  <2>1. i - 1 \in R
    OBVIOUS
  <2>2. PICK p \in P : rank[p] = i - 1
    BY <1>6, <2>1
  <2>3. Cardinality(Before(P, p)) = i - 1
    BY <2>2
  <2>4. Nth(P, i) \in P /\ Cardinality(Before(P, Nth(P, i))) = i - 1
    BY <2>3 DEF Nth
  <2>5. QED
    BY <2>4
<1>8. ASSUME NEW p \in P
      PROVE  \E i \in 1..n : p = Nth(P, i)
  <2>1. rank[p] + 1 \in 1..n /\ (rank[p] + 1) - 1 = rank[p]
    BY <1>1
  <2> HIDE DEF rank
  <2>2. PICK i \in 1..n : i - 1 = rank[p]
    BY <2>1
  <2>3. p = Nth(P, i)
    BY <1>3, <1>7, <2>2
  <2>4. QED
    BY <2>3
<1> HIDE DEF rank
<1>9. QED
  BY <1>7, <1>8

\* The hashes of the records at the positions P.
HashesAt(log, P) == [i \in 1..Cardinality(P) |-> RecordHash(log[Nth(P, i)])]

LEMMA RootOfHashes ==
    ASSUME NEW log, NEW P
    PROVE  RootOf(log, P) = MerkleRoot(HashesAt(log, P))
  BY DEF RootOf, HashesAt, Nth, Before

\* They are a list that is not empty, and no hash of a pair.
LEMMA HashesAtList ==
    ASSUME NEW log, NEW P \in SUBSET Nat, IsFiniteSet(P), P # {}
    PROVE  \E n \in Nat \ {0} : /\ IsList(HashesAt(log, P), n)
                                /\ Plain(HashesAt(log, P))
                                /\ Elements(HashesAt(log, P)) = {RecordHash(log[p]) : p \in P}
<1>1. PICK n \in Nat : n = Cardinality(P)
  BY FS_CardinalityType
<1>2. n # 0
  BY <1>1, FS_EmptySet
<1>3. PICK h : h = HashesAt(log, P)
  OBVIOUS
<1>4. h = [i \in 1..n |-> RecordHash(log[Nth(P, i)])]
  BY <1>1, <1>3 DEF HashesAt
<1>5. IsList(h, n)
  <2>1. h = [i \in 1..n |-> h[i]]
    BY <1>4
  <2>2. QED
    BY <2>1 DEF IsList
<1>6. Elements(h) = {RecordHash(log[p]) : p \in P}
  <2>1. Elements(h) = {RecordHash(log[Nth(P, i)]) : i \in 1..n}
    BY <1>4 DEF Elements
  <2>2. {Nth(P, i) : i \in 1..n} = P
    BY <1>1, NthPosition
  <2>3. QED
    BY <2>1, <2>2
<1>7. Plain(h)
  <2>1. \A p, l, r : <<"node", l, r>> # RecordHash(log[p])
    BY DEF RecordHash
  <2>2. QED
    BY <1>6, <2>1 DEF Plain
<1>8. QED
  BY <1>2, <1>3, <1>5, <1>6, <1>7

\* A root depends on the hashes only.
LEMMA RootKept ==
    ASSUME NEW log, NEW log2, NEW P \in SUBSET Nat, IsFiniteSet(P),
           \A p \in P : RecordHash(log2[p]) = RecordHash(log[p])
    PROVE  RootOf(log2, P) = RootOf(log, P)
<1>1. PICK n \in Nat : n = Cardinality(P)
  BY FS_CardinalityType
<1>2. {Nth(P, i) : i \in 1..n} = P
  BY <1>1, NthPosition
<1>3. HashesAt(log2, P) = HashesAt(log, P)
  BY <1>1, <1>2 DEF HashesAt
<1>4. QED
  BY <1>3, RootOfHashes
----------------------------------------------------------------------------
(* The roots in the audit log.                                             *)

\* No two records of the log have the same hash: the hash of a record covers
\* that of the record before it.
LEMMA HashesDiffer ==
    ASSUME LogSound, AuditChained, NEW i \in DOMAIN audit, NEW j \in DOMAIN audit,
           RecordHash(audit[i]) = RecordHash(audit[j])
    PROVE  i = j
<1>1. PICK S : audit \in Seq(S)
  BY DEF LogSound
<1>2. PICK n \in Nat : n = Len(audit) /\ DOMAIN audit = 1..n
  BY <1>1
<1>3. \A x, y \in 1..n : RecordHash(audit[x]) = RecordHash(audit[y]) =>
                           audit[x].prev = audit[y].prev
  BY DEF RecordHash
<1>4. \A x : RecordHash(audit[x]) # Zero
  BY DEF RecordHash, Zero
<1>5. \A x \in 1..n : audit[x].prev = IF x = 1 THEN Zero ELSE RecordHash(audit[x - 1])
  BY <1>2 DEF AuditChained
<1> DEFINE T == {d \in Nat : d + 1 <= n =>
                   \A y \in 1..n : RecordHash(audit[d + 1]) = RecordHash(audit[y]) => y = d + 1}
<1>6. 0 \in T
  <2> SUFFICES ASSUME 1 <= n, NEW y \in 1..n, RecordHash(audit[1]) = RecordHash(audit[y])
               PROVE  y = 1
    OBVIOUS
  <2>1. 1 \in 1..n
    OBVIOUS
  <2>2. audit[1].prev = Zero /\ audit[y].prev = Zero
    BY <1>3, <1>5, <2>1
  <2>3. QED
    BY <1>4, <1>5, <2>2
<1>7. ASSUME NEW d \in Nat, d \in T PROVE d + 1 \in T
  <2> SUFFICES ASSUME (d + 1) + 1 <= n, NEW y \in 1..n,
                      RecordHash(audit[(d + 1) + 1]) = RecordHash(audit[y])
               PROVE  y = (d + 1) + 1
    OBVIOUS
  <2>1. PICK x \in 1..n : x = (d + 1) + 1 /\ x # 1 /\ x - 1 = d + 1
    OBVIOUS
  <2>2. audit[x].prev = RecordHash(audit[x - 1]) /\ audit[y].prev = audit[x].prev
    BY <1>3, <1>5, <2>1
  <2>3. y # 1
    BY <1>4, <1>5, <2>2
  <2>4. y - 1 \in 1..n
    BY <2>3
  <2>5. RecordHash(audit[d + 1]) = RecordHash(audit[y - 1])
    BY <1>5, <2>1, <2>2, <2>3
  <2>6. d + 1 <= n
    OBVIOUS
  <2>7. y - 1 = d + 1
    BY <1>7, <2>4, <2>5, <2>6
  <2>8. QED
    BY <2>7
<1> HIDE DEF T
<1>8. PICK d \in Nat : i = d + 1 /\ d + 1 <= n
  <2>1. i - 1 \in Nat /\ i = (i - 1) + 1 /\ (i - 1) + 1 <= n
    BY <1>2
  <2>2. QED
    BY <2>1
<1>9. d \in T
  BY <1>6, <1>7, SetInduction
<1>10. QED
  BY <1>2, <1>8, <1>9 DEF T

\* Records with the same root were anchored together.
RootsSound ==
    /\ RootsVerifiable
    /\ \A i, j \in DOMAIN audit :
         audit[i].root # Zero /\ audit[i].root = audit[j].root => audit[i].height = audit[j].height

With(log, root) == {j \in DOMAIN log : log[j].root = root}

\* A new root is that of the records it is computed from, and of no others.
LEMMA RootIsNew ==
    ASSUME LogSound, AuditChained, RootsSound, NEW U \in SUBSET (DOMAIN audit), U # {},
           NEW q \in DOMAIN audit, audit[q].root # Zero, audit[q].root = RootOf(audit, U)
    PROVE  q \in U
<1>1. PICK S : audit \in Seq(S)
  BY DEF LogSound
<1>2. PICK n \in Nat : n = Len(audit) /\ DOMAIN audit = 1..n
  BY <1>1
<1>3. IsFiniteSet(DOMAIN audit) /\ DOMAIN audit \in SUBSET Nat
  <2>1. IsFiniteSet(1..n)
    BY FS_Interval
  <2>2. 1..n \in SUBSET Nat
    OBVIOUS
  <2>3. QED
    BY <1>2, <2>1, <2>2
<1>4. PICK P : P = With(audit, audit[q].root)
  OBVIOUS
<1>5. P \in SUBSET (DOMAIN audit) /\ q \in P
  BY <1>4 DEF With
<1>6. RootOf(audit, P) = audit[q].root
  BY <1>4 DEF RootsSound, RootsVerifiable, With
<1>7. IsFiniteSet(P) /\ P \in SUBSET Nat /\ IsFiniteSet(U) /\ U \in SUBSET Nat
  BY <1>3, <1>5, FS_Subset
<1>8. PICK h : h = HashesAt(audit, U)
  OBVIOUS
<1>9. PICK g : g = HashesAt(audit, P)
  OBVIOUS
<1>10. PICK l \in Nat \ {0} : /\ IsList(h, l) /\ Plain(h)
                              /\ Elements(h) = {RecordHash(audit[p]) : p \in U}
  BY <1>7, <1>8, HashesAtList
<1>11. PICK m \in Nat \ {0} : /\ IsList(g, m) /\ Plain(g)
                              /\ Elements(g) = {RecordHash(audit[p]) : p \in P}
  BY <1>5, <1>7, <1>9, HashesAtList
<1>12. MerkleRoot(h) = MerkleRoot(g)
  BY <1>6, <1>8, <1>9, RootOfHashes
<1>13. Elements(g) \subseteq Elements(h)
  BY <1>10, <1>11, <1>12, SameLeaves
<1>14. PICK u \in U : RecordHash(audit[u]) = RecordHash(audit[q])
  BY <1>5, <1>10, <1>11, <1>13
<1>15. QED
  BY <1>14, HashesDiffer

\* Anchoring gives the records that were not anchored a root of their own, and
\* takes none or all of the records of another root.
LEMMA AnchorRoots ==
    ASSUME IInv, RootsSound, NEW h \in Heights, AnchorAuditLog(h)
    PROVE  RootsSound'
<1> DEFINE U == {i \in DOMAIN audit : audit[i].height = 0}
           root == RootOf(audit, U)
<1>1. /\ U # {}
      /\ audit' = [i \in DOMAIN audit |->
           IF i \in U THEN [audit[i] EXCEPT !.height = h, !.root = root] ELSE audit[i]]
  BY DEF AnchorAuditLog
<1>2. PICK S : audit \in Seq(S)
  BY DEF IInv, LogSound
<1>3. IsFiniteSet(DOMAIN audit) /\ DOMAIN audit \in SUBSET Nat
  BY <1>2, FS_Interval
<1>4. DOMAIN audit' = DOMAIN audit
  BY <1>1
<1> HIDE DEF root
<1>5. ASSUME NEW i \in DOMAIN audit
      PROVE  /\ i \in U => audit'[i].root = root /\ audit'[i].height = h
             /\ i \notin U => audit'[i] = audit[i]
  <2>1. audit[i] = [event |-> audit[i].event, prev |-> audit[i].prev,
                    height |-> audit[i].height, root |-> audit[i].root]
    BY DEF IInv, LogSound
  <2> HIDE DEF U
  <2>2. QED
    BY <1>1, <2>1
<1>6. \A i \in DOMAIN audit : RecordHash(audit'[i]) = RecordHash(audit[i])
  BY Anchored DEF IInv, RecordHash
<1>7. ASSUME NEW P \in SUBSET (DOMAIN audit)
      PROVE  RootOf(audit', P) = RootOf(audit, P)
  <2>1. IsFiniteSet(P) /\ P \in SUBSET Nat
    BY <1>3, FS_Subset
  <2>2. PICK log2 : log2 = audit'
    OBVIOUS
  <2>3. \A p \in P : RecordHash(log2[p]) = RecordHash(audit[p])
    BY <1>6, <2>2
  <2>4. RootOf(log2, P) = RootOf(audit, P)
    BY <2>1, <2>3, RootKept
  <2>5. QED
    BY <2>2, <2>4
<1>8. ASSUME NEW q \in DOMAIN audit, audit[q].root # Zero, audit[q].root = root
      PROVE  q \in U
  <2>1. U \in SUBSET (DOMAIN audit)
    OBVIOUS
  <2> HIDE DEF U
  <2>2. QED
    BY <1>1, <1>8, <2>1, RootIsNew DEF IInv, root
<1>9. ASSUME NEW i \in U, root # Zero
      PROVE  With(audit', root) = U
  BY <1>4, <1>5, <1>8, <1>9 DEF With
<1>10. ASSUME NEW i \in DOMAIN audit, i \notin U, audit[i].root # Zero
       PROVE  With(audit', audit[i].root) = With(audit, audit[i].root)
  <2>1. audit[i].root # root
    BY <1>8, <1>10
  <2>2. \A j \in DOMAIN audit : audit[j].root = audit[i].root => j \notin U
    BY <1>10 DEF RootsSound
  <2> HIDE DEF U
  <2>3. QED
    BY <1>4, <1>5, <2>1, <2>2 DEF With
<1>11. ASSUME NEW i \in DOMAIN audit, audit'[i].root # Zero
       PROVE  RootOf(audit', With(audit', audit'[i].root)) = audit'[i].root
  <2>1. CASE i \in U
    <3>1. audit'[i].root = root
      BY <1>5, <2>1
    <3>2. With(audit', root) = U
      BY <1>9, <1>11, <2>1, <3>1
    <3>3. RootOf(audit', U) = root
      BY <1>7 DEF root
    <3>4. QED
      BY <3>1, <3>2, <3>3
  <2>2. CASE i \notin U
    <3>1. audit'[i] = audit[i]
      BY <1>5, <2>2
    <3>2. With(audit', audit[i].root) = With(audit, audit[i].root)
      BY <1>10, <1>11, <2>2, <3>1
    <3>3. With(audit, audit[i].root) \in SUBSET (DOMAIN audit)
      BY DEF With
    <3>4. RootOf(audit', With(audit, audit[i].root)) = RootOf(audit, With(audit, audit[i].root))
      BY <1>7, <3>3
    <3>5. RootOf(audit, With(audit, audit[i].root)) = audit[i].root
      BY <1>11, <3>1 DEF RootsSound, RootsVerifiable, With
    <3>6. QED
      BY <3>1, <3>2, <3>4, <3>5
  <2>3. QED
    BY <2>1, <2>2
<1>12. ASSUME NEW i \in DOMAIN audit, NEW j \in DOMAIN audit,
              audit'[i].root # Zero, audit'[i].root = audit'[j].root
       PROVE  audit'[i].height = audit'[j].height
  <2>1. i \in U /\ j \in U => audit'[i].height = audit'[j].height
    BY <1>5
  <2>2. i \in U => j \in U
    BY <1>5, <1>8, <1>12
  <2>3. j \in U => i \in U
    BY <1>5, <1>8, <1>12
  <2>4. i \notin U /\ j \notin U => audit'[i].height = audit'[j].height
    BY <1>5, <1>12 DEF RootsSound
  <2>5. QED
    BY <2>1, <2>2, <2>3, <2>4
<1>13. RootsVerifiable'
  BY <1>4, <1>11 DEF RootsVerifiable, With
<1>14. QED
  BY <1>4, <1>12, <1>13 DEF RootsSound

\* A new record has no root.
LEMMA CreateRoots ==
    ASSUME IInv, RootsSound, NEW r \in Recorders, CreateAuditRecord(r)
    PROVE  RootsSound'
<1>1. PICK record : /\ audit' = Append(audit, record)
                    /\ record.root = Zero
  BY DEF CreateAuditRecord
<1>2. PICK S : audit \in Seq(S)
  BY DEF IInv, LogSound
<1>3. PICK n \in Nat : n = Len(audit) /\ DOMAIN audit = 1..n
  BY <1>2
<1>4. /\ DOMAIN audit' = 1..(n + 1)
      /\ audit'[n + 1] = record
      /\ \A i \in 1..n : audit'[i] = audit[i]
  <2>1. audit \in Seq(S \cup {record})
    BY <1>2
  <2>2. QED
    BY <1>1, <1>3, <2>1
<1>5. ASSUME NEW i \in DOMAIN audit', audit'[i].root # Zero
      PROVE  i \in 1..n
  BY <1>1, <1>4, <1>5
<1>6. ASSUME NEW i \in DOMAIN audit', audit'[i].root # Zero
      PROVE  RootOf(audit', With(audit', audit'[i].root)) = audit'[i].root
  <2>1. i \in 1..n /\ audit'[i] = audit[i]
    BY <1>4, <1>5, <1>6
  <2>2. PICK P : P = With(audit, audit[i].root)
    OBVIOUS
  <2>3. With(audit', audit'[i].root) = P
    <3>1. \A j \in 1..(n + 1) : audit'[j].root = audit[i].root => j \in 1..n
      BY <1>4, <1>5, <1>6, <2>1
    <3>2. 1..n \subseteq 1..(n + 1)
      OBVIOUS
    <3>3. QED
      BY <1>3, <1>4, <2>1, <2>2, <3>1, <3>2 DEF With
  <2>4. P \in SUBSET (1..n)
    BY <1>3, <2>2 DEF With
  <2>5. IsFiniteSet(P) /\ P \in SUBSET Nat
    <3>1. IsFiniteSet(1..n)
      BY FS_Interval
    <3>2. 1..n \in SUBSET Nat
      OBVIOUS
    <3>3. IsFiniteSet(P)
      BY <2>4, <3>1, FS_Subset
    <3>4. QED
      BY <2>4, <3>2, <3>3
  <2>6. PICK log2 : log2 = audit'
    OBVIOUS
  <2>7. \A p \in P : RecordHash(log2[p]) = RecordHash(audit[p])
    BY <1>4, <2>4, <2>6
  <2>8. RootOf(log2, P) = RootOf(audit, P)
    BY <2>5, <2>7, RootKept
  <2>9. RootOf(audit, P) = audit[i].root
    BY <1>3, <1>6, <2>1, <2>2 DEF RootsSound, RootsVerifiable, With
  <2>10. QED
    BY <2>1, <2>3, <2>6, <2>8, <2>9
<1>7. RootsVerifiable'
  BY <1>6 DEF RootsVerifiable, With
<1>8. ASSUME NEW i \in DOMAIN audit', NEW j \in DOMAIN audit',
             audit'[i].root # Zero, audit'[i].root = audit'[j].root
      PROVE  audit'[i].height = audit'[j].height
  <2>1. i \in 1..n /\ j \in 1..n
    BY <1>5, <1>8
  <2>2. QED
    BY <1>3, <1>4, <1>8, <2>1 DEF RootsSound
<1>9. QED
  BY <1>7, <1>8 DEF RootsSound

LEMMA StepRoots ==
    ASSUME IInv, RootsSound, [Next]_vars
    PROVE  RootsSound'
<1>1. CASE UNCHANGED audit
  BY <1>1 DEF RootsSound, RootsVerifiable
<1>2. QED
  BY <1>1, CreateRoots, AnchorRoots
  DEF Next, vars, RecordPlatoonCreated, RecordMemberJoined, RecordLeft, RecordLeader,
      RecordStatusChange, Record, RecorderStep, StoreEvent, FinishEvent,
      EnforceRetentionPolicy, Tick

\* The root in a record is that of the records which carry it, however often the
\* log is anchored, at height 0 included, and however many records there are: an
\* anchoring never computes a root that other records hold, as no two records
\* have the same hash.  (state/service.go AnchorAuditLog, calculateMerkleRoot)
THEOREM RootsCorrect == Spec => []RootsVerifiable
<1>1. Init => RootsSound
  BY DEF Init, RootsSound, RootsVerifiable
<1>2. IInv /\ RootsSound /\ [Next]_vars => RootsSound'
  BY StepRoots
<1>3. RootsSound => RootsVerifiable
  BY DEF RootsSound
<1>4. QED
  BY <1>1, <1>2, <1>3, AlwaysIInv, PTL DEF Spec
=============================================================================
