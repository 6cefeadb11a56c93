------------------------ MODULE DocumentEventsProofs ------------------------
(***************************************************************************)
(* Proofs about what DocumentLifecycle's events achieve, for every number   *)
(* of users, requests, passes, erasers and replicas, any bounds and any set *)
(* of faults: once they are handled the rooms of closed documents are       *)
(* empty, those of live documents take saves, and sockets have the row's    *)
(* lock.  At the end, that DocumentLifecycle implements LifecycleFacts.     *)
(*                                                                          *)
(* Each invariant says the same of a state in the middle: what the rooms do *)
(* not yet show of the row is in an event still under way.                  *)
(***************************************************************************)
EXTENDS DocumentLifecycleProofs, SequenceTheorems, FiniteSetTheorems

Events == [kind: Flags \cup {"deleted", "purged"}, on: BOOLEAN, ownerId: Users \cup {None}]

EventsOK == outbox \in Seq(Events) /\ inbox \in [Replicas -> Seq(Events)]

\* A PUT writes at most one flag here.
OneFlagOK == \A q \in Requests :
  ask[q].op = "put" => ask[q].flags = {} \/ \E f \in Flags : ask[q].flags = {f}

----------------------------------------------------------------------------
(* Sequences of events.                                                     *)

Pending(s, e) == \E i \in 1..Len(s) : s[i] = e

LEMMA PendingAppend ==
  ASSUME NEW s \in Seq(Events), NEW e \in Events
  PROVE  /\ Append(s, e) \in Seq(Events)
         /\ \A d : Pending(Append(s, e), d) <=> Pending(s, d) \/ d = e
<1> DEFINE t == Append(s, e)
<1>1. /\ t \in Seq(Events) /\ Len(t) = Len(s) + 1 /\ t[Len(s) + 1] = e
      /\ \A i \in 1..Len(s) : t[i] = s[i]
  BY AppendProperties
<1> HIDE DEF t
<1>2. \A d : Pending(t, d) <=> Pending(s, d) \/ d = e
  BY <1>1 DEF Pending
<1> QED BY <1>1, <1>2 DEF t

LEMMA PendingTail ==
  ASSUME NEW s \in Seq(Events), s # <<>>
  PROVE  /\ Head(s) \in Events /\ Tail(s) \in Seq(Events)
         /\ \A d : Pending(s, d) <=> Pending(Tail(s), d) \/ d = Head(s)
<1>1. /\ Len(s) > 0 /\ Head(s) = s[1] /\ Tail(s) \in Seq(Events) /\ Len(Tail(s)) = Len(s) - 1
      /\ \A i \in 1..Len(Tail(s)) : Tail(s)[i] = s[i + 1]
  BY HeadTailProperties
<1>2. ASSUME NEW d, Pending(s, d) PROVE Pending(Tail(s), d) \/ d = Head(s)
  <2>1. PICK i \in 1..Len(s) : s[i] = d
    BY <1>2 DEF Pending
  <2>2. CASE i = 1
    BY <1>1, <2>1, <2>2
  <2>3. CASE i # 1
    <3>1. i - 1 \in 1..Len(Tail(s)) /\ Tail(s)[i - 1] = d
      BY <1>1, <2>1, <2>3
    <3> QED BY <3>1 DEF Pending
  <2> QED BY <2>2, <2>3
<1>3. ASSUME NEW d, Pending(Tail(s), d) \/ d = Head(s) PROVE Pending(s, d)
  <2>1. CASE d = Head(s)
    <3>1. 1 \in 1..Len(s) /\ s[1] = d
      BY <1>1, <2>1
    <3> QED BY <3>1 DEF Pending
  <2>2. ASSUME NEW i \in 1..Len(Tail(s)), Tail(s)[i] = d PROVE Pending(s, d)
    <3>1. i + 1 \in 1..Len(s) /\ s[i + 1] = d
      BY <1>1, <2>2
    <3> QED BY <3>1 DEF Pending
  <2> QED BY <1>3, <2>1, <2>2 DEF Pending
<1> QED BY <1>1, <1>2, <1>3

LEMMA RemoveAtIndex ==
  ASSUME NEW s \in Seq(Events), NEW i \in 1..Len(s)
  PROVE  /\ RemoveAt(s, i) \in Seq(Events) /\ Len(RemoveAt(s, i)) = Len(s) - 1
         /\ \A j \in 1..(Len(s) - 1) : RemoveAt(s, i)[j] = IF j < i THEN s[j] ELSE s[j + 1]
<1> DEFINE a == SubSeq(s, 1, i - 1)
           b == SubSeq(s, i + 1, Len(s))
<1>1. a \in Seq(Events) /\ Len(a) = i - 1 /\ \A j \in 1..(i - 1) : a[j] = s[j]
  OBVIOUS
<1>2. b \in Seq(Events) /\ Len(b) = Len(s) - i /\ \A j \in 1..(Len(s) - i) : b[j] = s[j + i]
  OBVIOUS
<1> HIDE DEF a, b
<1>3. /\ a \o b \in Seq(Events) /\ Len(a \o b) = Len(a) + Len(b)
      /\ \A j \in 1..(Len(a) + Len(b)) : (a \o b)[j] = IF j <= Len(a) THEN a[j] ELSE b[j - Len(a)]
  BY <1>1, <1>2, ConcatProperties
<1>4. ASSUME NEW j \in 1..(Len(s) - 1)
      PROVE  (a \o b)[j] = IF j < i THEN s[j] ELSE s[j + 1]
  <2>1. CASE j < i
    BY <1>1, <1>2, <1>3, <2>1
  <2>2. CASE ~(j < i)
    <3> DEFINE k == j - (i - 1)
    <3>1. k \in 1..(Len(s) - i) /\ k + i = j + 1 /\ ~(j <= Len(a)) /\ j - Len(a) = k
      BY <1>1, <2>2
    <3>2. j \in 1..(Len(a) + Len(b))
      BY <1>1, <1>2
    <3>3. (a \o b)[j] = b[j - Len(a)]
      BY <1>3, <3>1, <3>2
    <3>4. b[k] = s[k + i]
      BY <1>2, <3>1
    <3> QED BY <2>2, <3>1, <3>3, <3>4
  <2> QED BY <2>1, <2>2
<1>5. RemoveAt(s, i) = a \o b
  BY DEF RemoveAt, a, b
<1>6. Len(a) + Len(b) = Len(s) - 1
  BY <1>1, <1>2
<1> HIDE DEF a, b
<1> QED BY <1>3, <1>4, <1>5, <1>6

LEMMA PendingRemove ==
  ASSUME NEW s \in Seq(Events), NEW i \in 1..Len(s)
  PROVE  \A d : Pending(s, d) => Pending(RemoveAt(s, i), d) \/ d = s[i]
<1> SUFFICES ASSUME NEW j \in 1..Len(s), j # i PROVE Pending(RemoveAt(s, i), s[j])
  BY DEF Pending
<1> DEFINE t == RemoveAt(s, i)
<1>0. /\ Len(t) = Len(s) - 1
      /\ \A k \in 1..(Len(s) - 1) : t[k] = IF k < i THEN s[k] ELSE s[k + 1]
  BY RemoveAtIndex
<1> HIDE DEF t
<1>1. CASE j < i
  <2>1. j \in 1..Len(t) /\ t[j] = s[j]
    BY <1>0, <1>1
  <2> QED BY <2>1 DEF Pending, t
<1>2. CASE j > i
  <2>1. j - 1 \in 1..Len(t) /\ t[j - 1] = s[j]
    BY <1>0, <1>2
  <2> QED BY <2>1 DEF Pending, t
<1> QED BY <1>1, <1>2

\* The one event a PUT announces, if it writes a flag.
LEMMA Announced ==
  ASSUME NEW s \in Seq(Events), NEW e \in Events
  PROVE  s \o SetToSeq({}) = s /\ s \o SetToSeq({e}) = Append(s, e)
<1>1. Cardinality({}) = 0 /\ Cardinality({e}) = 1
  BY FS_EmptySet, FS_Singleton
<1>2. SetToSeq({}) = <<>>
  <2>1. \A f \in [1..0 -> {}] : f = <<>>
    OBVIOUS
  <2>2. <<>> \in [1..0 -> {}] /\ IsInjective(<<>>)
    BY DEF IsInjective
  <2> QED BY <1>1, <2>1, <2>2 DEF SetToSeq
<1>3. SetToSeq({e}) = <<e>>
  <2>1. \A f \in [1..1 -> {e}] : f = <<e>>
    OBVIOUS
  <2>2. <<e>> \in [1..1 -> {e}] /\ IsInjective(<<e>>)
    BY DEF IsInjective
  <2> QED BY <1>1, <2>1, <2>2 DEF SetToSeq
<1>4. s \o <<>> = s /\ s \o <<e>> = Append(s, e)
  BY ConcatEmptySeq, AppendIsConcat
<1> QED BY <1>2, <1>3, <1>4

----------------------------------------------------------------------------
(* What a step does to the row and to the events, whoever takes it.         *)

\* A soft delete or a restore of a row that exists.
Retimes == \E to \in {"null", "recent"} :
  /\ row # None /\ row' = [row EXCEPT !.deletedAt = to]
  /\ outbox' = Append(outbox, Event("deleted", to # "null", row.ownerId))
  /\ (\E p \in Purgers : PastItsChecks(p)) => "moved under a purge" \in mishaps'

\* A flag is written, to the row or to the one a PUT creates.
Reflags == \E f \in Flags, on \in BOOLEAN, r \in Rows :
  /\ r = row \/ (row = None /\ \E u \in Users \cup {None} : r = NewRow(u))
  /\ row' = With(r, {f}, on)
  /\ outbox' = Append(outbox, Event(f, on, row'.ownerId))

Creates == row = None /\ outbox' = outbox /\ \E u \in Users \cup {None} : row' = NewRow(u)

Ripens == /\ row # None /\ row.deletedAt = "recent" /\ outbox' = outbox
         /\ row' = [row EXCEPT !.deletedAt = "expired"]

Writes ==
  /\ Retimes \/ Reflags \/ Creates \/ Ripens
  /\ UNCHANGED <<tomb, inbox, sealed, loaded, client, purge>>

Erasure ==
  /\ row # None /\ row' = None /\ tomb' = TRUE
  /\ Live => "erased live" \in mishaps'
  /\ UNCHANGED <<outbox, inbox, sealed, loaded, client>>

Delivery ==
  \/ \E i \in DOMAIN outbox : Publishes(i) \/ PublishFails(i)
  \/ \E p \in Purgers : Seals(p)
  \/ \E r \in Replicas : Handles(r)

Handshake(u) ==
  \/ ReadsRow(u) \/ ReadsTombstone(u) \/ LookupFails(u) \/ Admits(u) \/ Disconnects(u)
  \/ \E r \in Replicas : Connects(u, r)

\* Nothing the events are about moves.
Still == UNCHANGED <<row, tomb, outbox, inbox, sealed, loaded, client>>

LEMMA PutIsAWrite ==
  ASSUME TypeInv, EventsOK, OneFlagOK, NEW q \in Requests, PutUpserts(q)
  PROVE  Writes \/ Still
<1> DEFINE r == IF row = None THEN NewRow(ask[q].by) ELSE row
<1>1. ask[q].op = "put" /\ ask[q].by \in Users \cup {None} /\ ask[q].on \in BOOLEAN
  BY DEF PutUpserts, TypeInv, RowOK, Asks
<1>2. r \in Rows /\ (r = row \/ (row = None /\ r = NewRow(ask[q].by)))
  <2>1. NewRow(ask[q].by) \in Rows
    BY <1>1, NewRowType
  <2> QED BY <2>1 DEF TypeInv, RowOK
<1>3. /\ row' = With(r, ask[q].flags, ask[q].on)
      /\ outbox' = outbox \o SetToSeq({Event(f, ask[q].on, row'.ownerId) : f \in ask[q].flags})
      /\ UNCHANGED <<tomb, inbox, sealed, loaded, client, purge>>
  BY DEF PutUpserts, rooms
<1> HIDE DEF r
<1>4. CASE ask[q].flags = {}
  <2>1. row' = r
    BY <1>2, <1>3, <1>4 DEF With, Rows
  <2>2. {Event(f, ask[q].on, row'.ownerId) : f \in ask[q].flags} = {}
    BY <1>4
  <2>3. Event("deleted", TRUE, None) \in Events
    BY DEF Event, Events
  <2>4. outbox' = outbox
    BY <1>3, <2>2, <2>3, Announced DEF EventsOK
  <2> QED BY <1>1, <1>2, <1>3, <2>1, <2>4 DEF Writes, Creates, Still
<1>5. ASSUME NEW f \in Flags, ask[q].flags = {f} PROVE Writes
  <2>1. row' \in Rows
    BY <1>1, <1>2, <1>3, WithType
  <2>2. Event(f, ask[q].on, row'.ownerId) \in Events
    BY <1>1, <2>1 DEF Event, Events, Rows
  <2>3. {Event(g, ask[q].on, row'.ownerId) : g \in ask[q].flags}
          = {Event(f, ask[q].on, row'.ownerId)}
    BY <1>5
  <2>4. outbox' = Append(outbox, Event(f, ask[q].on, row'.ownerId))
    BY <1>3, <2>2, <2>3, Announced DEF EventsOK
  <2>5. Reflags
    BY <1>1, <1>2, <1>3, <1>5, <2>4 DEF Reflags
  <2> QED BY <1>3, <2>5 DEF Writes
<1> QED BY <1>1, <1>4, <1>5 DEF OneFlagOK

LEMMA StepKinds ==
  ASSUME TypeInv, EventsOK, OneFlagOK, Next
  PROVE  \/ Writes \/ Erasure \/ Delivery \/ (\E u \in Users : Handshake(u))
         \/ (\E r \in Replicas : Unloads(r)) \/ Still
<1>1. CASE RequestStep
  <2>1. ASSUME NEW q \in Requests, SetDeletedAtWrites(q) PROVE Writes \/ Still
    <3>1. CASE row = None
      BY <2>1, <3>1 DEF SetDeletedAtWrites, Still, rooms
    <3>2. CASE row # None
      <4>1. ask[q].to \in {"null", "recent"}
        BY <2>1 DEF SetDeletedAtWrites, TypeInv, RowOK, Asks
      <4>2. /\ row' = [row EXCEPT !.deletedAt = ask[q].to]
            /\ outbox' = Append(outbox, Event("deleted", ask[q].to # "null", row.ownerId))
            /\ (\E p \in Purgers : PastItsChecks(p)) => "moved under a purge" \in mishaps'
        BY <2>1, <3>2 DEF SetDeletedAtWrites, Note
      <4>3. Retimes
        BY <3>2, <4>1, <4>2 DEF Retimes
      <4> QED BY <2>1, <4>3 DEF SetDeletedAtWrites, Writes, rooms
    <3> QED BY <3>1, <3>2
  <2>2. ASSUME NEW q \in Requests, PutUpserts(q) PROVE Writes \/ Still
    BY <2>2, PutIsAWrite
  <2>3. ASSUME NEW f \in Flags, NEW on \in BOOLEAN, AdminSets(f, on) PROVE Writes
    <3>1. row \in Rows /\ row' = With(row, {f}, on)
      BY <2>3 DEF AdminSets, TypeInv, RowOK
    <3>2. row'.ownerId = row.ownerId
      BY <3>1 DEF With, Rows
    <3>3. row \in Rows /\ outbox' = Append(outbox, Event(f, on, row'.ownerId))
      BY <2>3, <3>1, <3>2, NoneAssumption DEF AdminSets, TypeInv, RowOK
    <3>4. Reflags
      BY <3>1, <3>3, Zenon DEF Reflags
    <3> QED BY <2>3, <3>4 DEF AdminSets, Writes, rooms
  <2>4. ASSUME NEW q \in Requests, NEW u, NEW to, SetDeletedAtReads(q, u, to) PROVE Still
    BY <2>4 DEF SetDeletedAtReads, Still, doc, events, rooms
  <2>5. ASSUME NEW q \in Requests, NEW u, NEW f, NEW on, PutReads(q, u, f, on) PROVE Still
    BY <2>5 DEF PutReads, Still, doc, events, rooms
  <2> QED BY <1>1, <2>1, <2>2, <2>3, <2>4, <2>5 DEF RequestStep
<1>2. CASE PurgeStep
  <2>1. ASSUME NEW p \in Purgers, DeletesRow(p) PROVE Erasure \/ Still
    BY <2>1 DEF DeletesRow, Erasure, Still, events, rooms, Note
  <2>2. ASSUME NEW p \in Purgers, Clears(p) \/ Throws(p) PROVE Still
    BY <2>2 DEF Clears, Throws, Still, doc, events, rooms
  <2>3. ASSUME NEW p, StartPass(p) \/ Rechecks(p) \/ Asserts(p) PROVE Still
    BY <2>3 DEF StartPass, Rechecks, Asserts, Still, doc, events, rooms
  <2>4. ASSUME NEW d, NEW scope, Erases(d, scope) PROVE Still
    BY <2>4 DEF Erases, Still, doc, events, rooms
  <2> QED BY <1>2, <2>1, <2>2, <2>3, <2>4 DEF PurgeStep, AdminErases, OwnerErases, Delivery
<1>3. CASE EventStep
  BY <1>3 DEF EventStep, Delivery
<1>4. CASE RoomStep
  <2>1. ASSUME NEW u \in Users, NEW r \in Replicas, FirstEdit(u, r) PROVE Writes \/ Still
    <3>1. CASE row' = row
      BY <2>1, <3>1 DEF FirstEdit, Still, events
    <3>2. CASE row' # row
      BY <2>1, <3>2 DEF FirstEdit, Writes, Creates, events
    <3> QED BY <3>1, <3>2
  <2> QED BY <1>4, <2>1 DEF RoomStep, Handshake
<1>5. CASE LeaseExpires
  BY <1>5 DEF LeaseExpires, Still, doc, events, rooms
<1>6. CASE Age
  <2>1. Ripens
    BY <1>6 DEF Age, Ripens, events
  <2> QED BY <1>6, <2>1 DEF Age, Writes, events, rooms
<1>7. CASE WorkerUpserts
  <2>1. Creates
    BY <1>7 DEF WorkerUpserts, Creates, events
  <2> QED BY <1>7, <2>1 DEF WorkerUpserts, Writes, events, rooms
<1> QED BY <1>1, <1>2, <1>3, <1>4, <1>5, <1>6, <1>7 DEF Next

\* What Writes appends is an event.
LEMMA WrittenEvent ==
  ASSUME TypeInv, TypeInv', Writes
  PROVE  outbox' = outbox \/ \E e \in Events : outbox' = Append(outbox, e)
<1>1. CASE Retimes
  <2>1. PICK to \in {"null", "recent"} :
          row # None /\ outbox' = Append(outbox, Event("deleted", to # "null", row.ownerId))
    BY <1>1 DEF Retimes
  <2>2. row.ownerId \in Users \cup {None}
    BY <2>1 DEF TypeInv, RowOK, Rows
  <2>3. Event("deleted", to # "null", row.ownerId) \in Events
    BY <2>2 DEF Event, Events
  <2> QED BY <2>1, <2>3
<1>2. CASE Reflags
  <2>1. PICK f \in Flags, on \in BOOLEAN, r \in Rows :
          row' = With(r, {f}, on) /\ outbox' = Append(outbox, Event(f, on, row'.ownerId))
    BY <1>2 DEF Reflags
  <2>2. row' \in Rows
    BY <2>1, WithType
  <2>3. Event(f, on, row'.ownerId) \in Events
    BY <2>2 DEF Event, Events, Rows
  <2> QED BY <2>1, <2>3
<1>3. CASE Creates \/ Ripens
  BY <1>3 DEF Creates, Ripens
<1> QED BY <1>1, <1>2, <1>3 DEF Writes

LEMMA Delivered ==
  ASSUME EventsOK, NEW e \in Events, Deliver(e)
  PROVE  /\ inbox' \in [Replicas -> Seq(Events)]
         /\ \A r \in Replicas : inbox'[r] = Append(inbox[r], e)
<1>1. \A r \in Replicas : inbox'[r] = Append(inbox[r], e) /\ inbox'[r] \in Seq(Events)
  BY PendingAppend DEF Deliver, EventsOK
<1> QED BY <1>1 DEF Deliver

LEMMA PurgedIsEvent == Event("purged", TRUE, None) \in Events
  BY DEF Event, Events

LEMMA EventsStep ==
  ASSUME TypeInv, TypeInv', EventsOK, OneFlagOK, Next
  PROVE  EventsOK'
<1>1. CASE Writes
  <2>1. outbox' \in Seq(Events)
    BY <1>1, WrittenEvent, PendingAppend DEF EventsOK
  <2> QED BY <1>1, <2>1 DEF Writes, EventsOK
<1>2. ASSUME NEW i \in DOMAIN outbox, Publishes(i) \/ PublishFails(i) PROVE EventsOK'
  <2>1. i \in 1..Len(outbox) /\ outbox[i] \in Events
    BY ElementOfSeq DEF EventsOK
  <2>2. outbox' = RemoveAt(outbox, i)
    BY <1>2 DEF Publishes, PublishFails
  <2>3. outbox' \in Seq(Events)
    BY <2>1, <2>2, RemoveAtIndex DEF EventsOK
  <2>4. inbox' \in [Replicas -> Seq(Events)]
    BY <1>2, <2>1, Delivered DEF EventsOK, Publishes, PublishFails
  <2> QED BY <2>3, <2>4 DEF EventsOK
<1>3. ASSUME NEW p \in Purgers, Seals(p) PROVE EventsOK'
  BY <1>3, PurgedIsEvent, Delivered DEF Seals, EventsOK
<1>4. ASSUME NEW r \in Replicas, Handles(r) PROVE EventsOK'
  <2>1. inbox[r] \in Seq(Events) /\ inbox[r] # <<>>
    BY <1>4 DEF Handles, EventsOK
  <2>2. Tail(inbox[r]) \in Seq(Events)
    BY <2>1, PendingTail
  <2> QED BY <1>4, <2>2 DEF Handles, EventsOK
<1>5. CASE UNCHANGED <<outbox, inbox>>
  BY <1>5 DEF EventsOK
<1>6. ASSUME NEW u \in Users, Handshake(u) PROVE UNCHANGED <<outbox, inbox>>
  BY <1>6 DEF Handshake, ReadsRow, ReadsTombstone, LookupFails, Admits, Disconnects, Connects,
     events
<1>7. ASSUME NEW r \in Replicas, Unloads(r) PROVE UNCHANGED <<outbox, inbox>>
  BY <1>7 DEF Unloads, events
<1> QED BY <1>1, <1>2, <1>3, <1>4, <1>5, <1>6, <1>7, StepKinds DEF Delivery, Erasure, Still

LEMMA OneFlagStep ==
  ASSUME TypeInv, OneFlagOK, Next PROVE OneFlagOK'
<1> USE DEF OneFlagOK, TypeInv, RowOK
<1>1. ASSUME NEW q \in Requests, NEW u \in Requesters, NEW to, SetDeletedAtReads(q, u, to)
      PROVE OneFlagOK'
  BY <1>1 DEF SetDeletedAtReads
<1>2. ASSUME NEW q \in Requests, SetDeletedAtWrites(q) \/ PutUpserts(q) PROVE OneFlagOK'
  <2>1. ask' = [ask EXCEPT ![q] = Idle]
    BY <1>2 DEF SetDeletedAtWrites, PutUpserts
  <2>2. Idle.op # "put"
    BY DEF Idle
  <2> QED BY <2>1, <2>2
<1>3. ASSUME NEW q \in Requests, NEW u \in Requesters, NEW f \in Flags, NEW on \in BOOLEAN,
             PutReads(q, u, f, on)
      PROVE OneFlagOK'
  <2>1. PutUpdate(u, f, on) = {} \/ PutUpdate(u, f, on) = {f}
    BY DEF PutUpdate
  <2>2. \A x \in Requests \ {q} : ask'[x] = ask[x]
    BY <1>3 DEF PutReads
  <2>3. ask'[q].flags = PutUpdate(u, f, on)
    BY <1>3 DEF PutReads
  <2> QED BY <2>1, <2>2, <2>3
<1>4. CASE UNCHANGED ask
  BY <1>4
<1>5. CASE RequestStep
  <2>1. ASSUME NEW f, NEW on, AdminSets(f, on) PROVE OneFlagOK'
    BY <1>4, <2>1 DEF AdminSets
  <2> QED BY <1>1, <1>2, <1>3, <1>5, <2>1 DEF RequestStep
<1>6. CASE PurgeStep
  BY <1>4, <1>6 DEF PurgeStep, StartPass, Rechecks, Asserts, AdminErases, OwnerErases, Erases,
     Clears, Seals, DeletesRow, Throws
<1>7. CASE EventStep
  BY <1>4, <1>7 DEF EventStep, Publishes, PublishFails, Handles
<1>8. CASE RoomStep
  BY <1>4, <1>8 DEF RoomStep, ReadsRow, ReadsTombstone, LookupFails, Admits, Disconnects,
     Connects, Unloads, FirstEdit
<1>9. CASE LeaseExpires \/ Age \/ WorkerUpserts
  BY <1>4, <1>9 DEF LeaseExpires, Age, WorkerUpserts
<1> QED BY <1>5, <1>6, <1>7, <1>8, <1>9 DEF Next

----------------------------------------------------------------------------
(* The rooms of closed documents.                                           *)

\* A handshake nothing overtook stands for what the row says.
FreshOK == \A u \in Users : ~late[u] =>
  /\ client[u].pc = "no row" => row = None
  /\ client[u].pc = "granted" => OpenTo(u)

\* The event disconnects u.
ClosesOn(e, u) ==
  \/ e.kind = "purged" \/ (e.kind = "deleted" /\ e.on)
  \/ (e.kind = "isPrivate" /\ e.on /\ e.ownerId # u)

\* Somebody will disconnect u from where it is.
ToBeClosed(u) == \E e \in Events :
  ClosesOn(e, u) /\ (Pending(outbox, e) \/ Pending(inbox[client[u].at], e))

\* Whom a document is closed to will be disconnected.
ClosingOK == \A u \in Users :
  client[u].pc = "in" /\ ~late[u] /\ ~OpenTo(u) =>
    ToBeClosed(u) \/ Excused({"event lost", "erased live"})

\* What the observer notes: late stays, and is set when the row moves in a handshake.
LEMMA LateStays ==
  ASSUME Next, NEW u \in Users, ~late'[u], client'[u].pc # "out"
  PROVE  ~late[u] /\ (client[u].pc \in {"no row", "granted"} => row' = row)
  BY DEF Next, Observe

\* A socket outside the handshake that a step moves on: it was admitted at the row as
\* it is.
LEMMA HandshakeMoves ==
  ASSUME TypeInv, NEW u \in Users, Handshake(u)
  PROVE  /\ \A v \in Users \ {u} : client'[v] = client[v]
         /\ UNCHANGED <<row, tomb, outbox, inbox, sealed, mishaps, purge>>
         /\ \/ client'[u].pc \in {"out", "hello"}
            \/ client'[u].pc = "no row" /\ row = None
            \/ /\ client'[u].pc = "granted" /\ client'[u].readOnly = (row.readOnly /\ row.ownerId # u)
               /\ OpenTo(u) /\ row # None
            \/ /\ client[u].pc = "no row" /\ client'[u].pc = "granted" /\ ~client'[u].readOnly
               /\ ~tomb
            \/ /\ client[u].pc = "granted" /\ client'[u].pc = "in"
               /\ client'[u].at = client[u].at /\ client'[u].readOnly = client[u].readOnly
<1> USE DEF TypeInv, RoomOK
<1> DEFINE Rest == UNCHANGED <<row, tomb, outbox, inbox, sealed, mishaps, purge>>
           Mine == \E c : Client(u, c)
<1>0. Mine => \A v \in Users \ {u} : client'[v] = client[v]
  BY DEF Client
<1>1. ASSUME NEW c, Client(u, c) PROVE client'[u] = c
  BY <1>1 DEF Client
<1>2. CASE ReadsRow(u)
  <2>1. Rest /\ Mine
    BY <1>2 DEF ReadsRow, doc, events, rooms
  <2>2. CASE row = None
    <3>1. client'[u] = [client[u] EXCEPT !.pc = "no row"]
      BY <1>1, <1>2, <2>2 DEF ReadsRow
    <3>2. client'[u].pc = "no row"
      BY <1>2, <3>1 DEF ReadsRow, Sockets
    <3> QED BY <1>0, <2>1, <2>2, <3>2
  <2>3. CASE row # None /\ OpenTo(u)
    <3>1. client'[u] = Granted(u, row.readOnly /\ row.ownerId # u)
      BY <1>1, <1>2, <2>3 DEF ReadsRow
    <3>2. /\ client'[u].pc = "granted"
          /\ client'[u].readOnly = (row.readOnly /\ row.ownerId # u)
      BY <3>1 DEF Granted
    <3> QED BY <1>0, <2>1, <2>3, <3>2
  <2>4. CASE row # None /\ ~OpenTo(u)
    <3>1. client'[u] = Out
      BY <1>1, <1>2, <2>4 DEF ReadsRow
    <3> QED BY <1>0, <2>1, <3>1 DEF Out
  <2> QED BY <2>2, <2>3, <2>4
<1>3. CASE ReadsTombstone(u)
  <2>1. Rest /\ Mine /\ client[u].pc = "no row"
    BY <1>3 DEF ReadsTombstone, doc, events, rooms
  <2>2. client'[u] = Out \/ (client'[u] = Granted(u, FALSE) /\ ~tomb)
    BY <1>1, <1>3 DEF ReadsTombstone
  <2>3. CASE client'[u] = Out
    <3>1. client'[u].pc = "out"
      BY <2>3 DEF Out
    <3> QED BY <1>0, <2>1, <3>1
  <2>4. CASE client'[u] = Granted(u, FALSE) /\ ~tomb
    <3>1. client'[u].pc = "granted" /\ client'[u].readOnly = FALSE
      BY <2>4 DEF Granted
    <3> QED BY <1>0, <2>1, <2>4, <3>1
  <2> QED BY <2>2, <2>3, <2>4
<1>4. CASE LookupFails(u) \/ Disconnects(u)
  <2>1. Rest /\ Mine /\ client'[u] = Out
    BY <1>1, <1>4 DEF LookupFails, Disconnects, doc, events, rooms
  <2> QED BY <1>0, <2>1 DEF Out
<1>5. CASE Admits(u)
  <2>1. Rest /\ Mine /\ client[u].pc = "granted" /\ client'[u] = [client[u] EXCEPT !.pc = "in"]
    BY <1>1, <1>5 DEF Admits, doc, events
  <2>2. /\ client'[u].pc = "in" /\ client'[u].at = client[u].at
        /\ client'[u].readOnly = client[u].readOnly
    BY <2>1 DEF Sockets
  <2> QED BY <1>0, <2>1, <2>2
<1>6. ASSUME NEW r \in Replicas, Connects(u, r)
      PROVE  Rest /\ Mine /\ client'[u].pc = "hello"
  BY <1>1, <1>6 DEF Connects, doc, events, rooms
<1> QED BY <1>0, <1>2, <1>3, <1>4, <1>5, <1>6 DEF Handshake

\* What a handled event does to a socket.
LEMMA HandledMoves ==
  ASSUME TypeInv, EventsOK, NEW r \in Replicas, Handles(r), NEW u \in Users
  PROVE  /\ UNCHANGED <<row, tomb, outbox, mishaps, loaded, purge>>
         /\ inbox[r] \in Seq(Events) /\ inbox[r] # <<>>
         /\ inbox'[r] = Tail(inbox[r]) /\ \A x \in Replicas \ {r} : inbox'[x] = inbox[x]
         /\ client[u].pc # "in" => client'[u] = client[u]
         /\ client[u].pc = "in" => client'[u].pc \in {"in", "out"}
         /\ client'[u].pc = "in" =>
              /\ client[u].pc = "in" /\ client'[u].at = client[u].at
              /\ client[u].at # r => client'[u] = client[u]
              /\ client[u].at = r =>
                   /\ ~ClosesOn(Head(inbox[r]), u)
                   /\ client'[u].readOnly =
                        IF Head(inbox[r]).kind = "readOnly"
                        THEN Head(inbox[r]).on /\ u # Head(inbox[r]).ownerId
                        ELSE client[u].readOnly
<1> USE DEF TypeInv, RoomOK
<1> DEFINE e == Head(inbox[r])
<1>1. /\ UNCHANGED <<row, tomb, outbox, mishaps, loaded, purge>>
      /\ inbox[r] \in Seq(Events) /\ inbox[r] # <<>>
      /\ inbox'[r] = Tail(inbox[r]) /\ \A x \in Replicas \ {r} : inbox'[x] = inbox[x]
  BY DEF Handles, EventsOK, doc
<1>2. CASE r \notin loaded
  BY <1>1, <1>2 DEF Handles
<1>3. CASE r \in loaded
  <2>1. client'[u] = IF u \in Closes(e, r) THEN Out
                     ELSE IF In(u, r) THEN Lock(e, client[u], u) ELSE client[u]
    BY <1>3 DEF Handles
  <2>2. e \in Events
    BY <1>1, PendingTail
  <2> HIDE DEF e
  <2>3. In(u, r) <=> client[u].pc = "in" /\ client[u].at = r
    BY DEF In
  <2>4. u \in Closes(e, r) <=> In(u, r) /\ ClosesOn(e, u)
    <3>1. CASE e.kind = "purged" \/ (e.kind = "deleted" /\ e.on)
      BY <3>1 DEF Closes, SocketsOf, ClosesOn
    <3>2. CASE e.kind = "isPrivate" /\ e.on
      BY <3>2 DEF Closes, SocketsOf, ClosesOn
    <3>3. CASE ~(e.kind = "purged" \/ (e.kind = "deleted" /\ e.on) \/ (e.kind = "isPrivate" /\ e.on))
      BY <3>3 DEF Closes, ClosesOn
    <3> QED BY <3>1, <3>2, <3>3
  <2>5. CASE u \in Closes(e, r)
    BY <1>1, <2>1, <2>3, <2>4, <2>5 DEF Out
  <2>6. CASE ~In(u, r)
    BY <1>1, <2>1, <2>3, <2>4, <2>6
  <2>7. CASE In(u, r) /\ u \notin Closes(e, r)
    <3>1. client'[u] = Lock(e, client[u], u)
      BY <2>1, <2>7
    <3>2. client[u] \in [pc: {"granted", "in"}, at: Replicas, readOnly: BOOLEAN]
      BY <2>3, <2>7 DEF Sockets
    <3>3. /\ client'[u].pc = client[u].pc /\ client'[u].at = client[u].at
          /\ client'[u].readOnly = IF e.kind = "readOnly" THEN e.on /\ u # e.ownerId
                                   ELSE client[u].readOnly
      BY <3>1, <3>2 DEF Lock
    <3> QED BY <1>1, <2>3, <2>4, <2>7, <3>3 DEF e
  <2> QED BY <2>5, <2>6, <2>7
<1> QED BY <1>2, <1>3

LEMMA FreshStep ==
  ASSUME TypeInv, EventsOK, OneFlagOK, FreshOK, Next
  PROVE  FreshOK'
<1> SUFFICES ASSUME NEW u \in Users, ~late'[u]
             PROVE  /\ client'[u].pc = "no row" => row' = None
                    /\ client'[u].pc = "granted" => OpenTo(u)'
  BY DEF FreshOK
<1>1. client'[u].pc # "out" =>
        ~late[u] /\ (client[u].pc \in {"no row", "granted"} => row' = row)
  BY LateStays
<1>2. tomb' = tomb \/ (row # None /\ row' = None)
  BY StepKinds, HandshakeMoves, HandledMoves
     DEF Writes, Erasure, Delivery, Publishes, PublishFails, Seals, Unloads, Still, doc
<1>3. row' = row => (OpenTo(u)' <=> OpenTo(u))
  BY <1>2 DEF OpenTo
<1>4. CASE client'[u] = client[u]
  BY <1>1, <1>3, <1>4 DEF FreshOK
<1>5. CASE Handshake(u)
  <2>1. UNCHANGED <<row, tomb>>
    BY <1>5, HandshakeMoves
  <2>2. CASE client[u].pc = "no row" /\ client'[u].pc = "granted"
    BY <1>1, <1>3, <1>5, <2>1, <2>2, HandshakeMoves DEF FreshOK, OpenTo
  <2> QED BY <1>1, <1>3, <1>5, <2>1, <2>2, HandshakeMoves
<1>6. ASSUME NEW v \in Users \ {u}, Handshake(v) PROVE client'[u] = client[u]
  BY <1>6, HandshakeMoves
<1>7. ASSUME NEW r \in Replicas, Handles(r)
      PROVE  client'[u] = client[u] \/ client'[u].pc \notin {"no row", "granted"}
  BY <1>7, HandledMoves
<1>8. CASE UNCHANGED client
  BY <1>4, <1>8
<1>9. CASE Delivery
  BY <1>4, <1>7, <1>8, <1>9 DEF Delivery, Publishes, PublishFails, Seals
<1> QED BY <1>4, <1>5, <1>6, <1>8, <1>9, StepKinds DEF Writes, Erasure, Unloads, Still

\* A write that closes the document to u is announced to u.
LEMMA WritesAnnounceClosing ==
  ASSUME TypeInv, EventsOK, Writes, TypeInv', EventsOK', NEW u \in Users, ~OpenTo(u)'
  PROVE  ~OpenTo(u) \/ \E e \in Events : ClosesOn(e, u) /\ Pending(outbox', e)
<1> USE DEF TypeInv, RowOK
<1>1. CASE Retimes
  <2>1. PICK to \in {"null", "recent"} :
          /\ row # None /\ row' = [row EXCEPT !.deletedAt = to]
          /\ outbox' = Append(outbox, Event("deleted", to # "null", row.ownerId))
    BY <1>1 DEF Retimes
  <2>2. row \in Rows /\ row' # None
    BY <2>1, NoneAssumption DEF Rows, Ages
  <2>3. CASE to = "null"
    <3>1. row'.deletedAt = "null" /\ row'.isPrivate = row.isPrivate /\ row'.ownerId = row.ownerId
      BY <2>1, <2>2, <2>3 DEF Rows
    <3> QED BY <2>1, <2>2, <3>1 DEF OpenTo
  <2>4. CASE to # "null"
    <3> DEFINE e == Event("deleted", TRUE, row.ownerId)
    <3>1. e \in Events /\ ClosesOn(e, u)
      BY <2>2 DEF Event, Events, Rows, ClosesOn
    <3>2. outbox' = Append(outbox, e)
      BY <2>1, <2>4
    <3> HIDE DEF e
    <3> QED BY <3>1, <3>2, PendingAppend DEF EventsOK
  <2> QED BY <2>3, <2>4
<1>2. CASE Reflags
  <2>1. PICK f \in Flags, on \in BOOLEAN, r \in Rows :
          /\ r = row \/ (row = None /\ \E v \in Users \cup {None} : r = NewRow(v))
          /\ row' = With(r, {f}, on)
          /\ outbox' = Append(outbox, Event(f, on, row'.ownerId))
    BY <1>2 DEF Reflags
  <2> DEFINE e == Event(f, on, row'.ownerId)
  <2>2. row' \in Rows /\ row' # None
    BY <2>1, WithType, NoneAssumption
  <2>3. e \in Events
    BY <2>2 DEF Event, Events, Rows
  <2>4. /\ row'.deletedAt = r.deletedAt /\ row'.ownerId = r.ownerId
        /\ row'.isPrivate = IF f = "isPrivate" THEN on ELSE r.isPrivate
    BY <2>1 DEF With, Rows
  <2>5. CASE f = "isPrivate" /\ on /\ row'.ownerId # u
    <3>1. ClosesOn(e, u)
      BY <2>5 DEF ClosesOn, Event
    <3> HIDE DEF e
    <3> QED BY <2>1, <2>3, <3>1, PendingAppend DEF EventsOK, e
  <2>6. CASE ~(f = "isPrivate" /\ on /\ row'.ownerId # u)
    <3>1. row'.deletedAt # "null" \/ (row'.isPrivate /\ row'.ownerId # u)
      BY <2>2 DEF OpenTo
    <3>2. r.deletedAt # "null" \/ (r.isPrivate /\ r.ownerId # u)
      BY <2>4, <2>6, <3>1
    <3>3. r = row /\ row # None
      BY <2>1, <3>2, NoneAssumption DEF NewRow
    <3> QED BY <3>2, <3>3 DEF OpenTo
  <2> QED BY <2>5, <2>6
<1>3. CASE Creates
  <2>1. PICK v \in Users \cup {None} : row' = NewRow(v)
    BY <1>3 DEF Creates
  <2>2. row'.deletedAt = "null" /\ row'.isPrivate = FALSE /\ row' # None
    BY <2>1, NewRowType, NoneAssumption DEF NewRow
  <2> QED BY <2>2 DEF OpenTo
<1>4. CASE Ripens
  BY <1>4, NoneAssumption DEF Ripens, OpenTo, Rows, Ages
<1> QED BY <1>1, <1>2, <1>3, <1>4 DEF Writes

\* An event under way stays so until it is lost, or handled at the replica in question.
LEMMA PendingStays ==
  ASSUME TypeInv, TypeInv', EventsOK, OneFlagOK, Next, NEW e \in Events, NEW r \in Replicas,
         Pending(outbox, e) \/ Pending(inbox[r], e)
  PROVE  \/ Pending(outbox', e) \/ Pending(inbox'[r], e) \/ "event lost" \in mishaps'
         \/ Handles(r) /\ e = Head(inbox[r])
<1> USE DEF EventsOK
<1>1. CASE Writes
  <2>1. outbox' = outbox \/ \E d \in Events : outbox' = Append(outbox, d)
    BY <1>1, WrittenEvent
  <2>2. \A d \in Events : Pending(outbox, e) => Pending(Append(outbox, d), e)
    BY PendingAppend
  <2>3. Pending(outbox, e) => Pending(outbox', e)
    BY <2>1, <2>2
  <2> QED BY <1>1, <2>3 DEF Writes
<1>2. ASSUME NEW i \in DOMAIN outbox, Publishes(i)
      PROVE  Pending(outbox', e) \/ Pending(inbox'[r], e)
  <2>1. i \in 1..Len(outbox) /\ outbox[i] \in Events
    BY ElementOfSeq
  <2>2. outbox' = RemoveAt(outbox, i) /\ Deliver(outbox[i])
    BY <1>2 DEF Publishes
  <2>3. inbox'[r] = Append(inbox[r], outbox[i])
    BY <2>1, <2>2, Delivered
  <2>4. Pending(outbox, e) => Pending(outbox', e) \/ e = outbox[i]
    BY <2>1, <2>2, PendingRemove
  <2> QED BY <2>1, <2>3, <2>4, PendingAppend
<1>3. ASSUME NEW i, PublishFails(i) PROVE "event lost" \in mishaps'
  BY <1>3 DEF PublishFails, Note
<1>4. ASSUME NEW p \in Purgers, Seals(p)
      PROVE  Pending(outbox', e) \/ Pending(inbox'[r], e) \/ "event lost" \in mishaps'
  <2>1. CASE Deliver(Event("purged", TRUE, None))
    <3> DEFINE d == Event("purged", TRUE, None)
    <3>1. inbox'[r] = Append(inbox[r], d) /\ outbox' = outbox
      BY <1>4, <2>1, Delivered, PurgedIsEvent DEF Seals
    <3>2. d \in Events /\ inbox[r] \in Seq(Events)
      BY PurgedIsEvent
    <3> HIDE DEF d
    <3>3. Pending(inbox[r], e) => Pending(inbox'[r], e)
      BY <3>1, <3>2, PendingAppend
    <3> QED BY <3>1, <3>3
  <2>2. CASE ~Deliver(Event("purged", TRUE, None))
    BY <1>4, <2>2 DEF Seals, Note
  <2> QED BY <2>1, <2>2
<1>5. ASSUME NEW x \in Replicas, Handles(x)
      PROVE  \/ Pending(outbox', e) \/ Pending(inbox'[r], e)
             \/ Handles(r) /\ e = Head(inbox[r])
  <2>1. outbox' = outbox
    BY <1>5 DEF Handles
  <2>2. CASE x # r
    <3>1. inbox'[r] = inbox[r]
      BY <1>5, <2>2 DEF Handles
    <3> QED BY <2>1, <3>1
  <2>3. CASE x = r
    <3>1. inbox'[r] = Tail(inbox[r]) /\ inbox[r] # <<>>
      BY <1>5, <2>3 DEF Handles
    <3> QED BY <1>5, <2>1, <2>3, <3>1, PendingTail
  <2> QED BY <2>2, <2>3
<1>6. CASE UNCHANGED <<outbox, inbox>>
  BY <1>6
<1>7. ASSUME NEW u \in Users, Handshake(u) PROVE UNCHANGED <<outbox, inbox>>
  BY <1>7, HandshakeMoves
<1>8. CASE Delivery
  BY <1>2, <1>3, <1>4, <1>5, <1>8 DEF Delivery
<1> QED BY <1>1, <1>6, <1>7, <1>8, StepKinds DEF Erasure, Unloads, Still, events

\* A socket in a room was there before, in the same room, or was just granted.
LEMMA InSince ==
  ASSUME TypeInv, EventsOK, OneFlagOK, Next, NEW u \in Users, client'[u].pc = "in"
  PROVE  \/ client[u].pc = "in" /\ client'[u].at = client[u].at
         \/ client[u].pc = "granted" /\ Handshake(u)
<1>1. CASE UNCHANGED client
  BY <1>1
<1>2. ASSUME NEW v \in Users, Handshake(v)
      PROVE  client'[u] = client[u] \/ (client[u].pc = "granted" /\ Handshake(u))
  BY <1>2, HandshakeMoves
<1>3. ASSUME NEW r \in Replicas, Handles(r)
      PROVE  client[u].pc = "in" /\ client'[u].at = client[u].at
  BY <1>3, HandledMoves
<1> QED BY <1>1, <1>2, <1>3, StepKinds
        DEF Writes, Erasure, Delivery, Publishes, PublishFails, Seals, Unloads, Still

\* Only a write or an erasure moves the row.
LEMMA RowMovers ==
  ASSUME TypeInv, EventsOK, OneFlagOK, Next
  PROVE  Writes \/ Erasure \/ UNCHANGED <<row, tomb>>
<1>1. ASSUME NEW u \in Users, Handshake(u) PROVE UNCHANGED <<row, tomb>>
  BY <1>1, HandshakeMoves
<1> QED BY <1>1, StepKinds DEF Delivery, Publishes, PublishFails, Seals, Handles, Unloads, Still, doc

LEMMA ClosingStep ==
  ASSUME TypeInv, TypeInv', EventsOK, EventsOK', OneFlagOK, FreshOK, ClosingOK, Next
  PROVE  ClosingOK'
<1> SUFFICES ASSUME NEW u \in Users, client'[u].pc = "in", ~late'[u], ~OpenTo(u)',
                    ~Excused({"event lost", "erased live"})'
             PROVE  ToBeClosed(u)'
  BY DEF ClosingOK
<1>0. ~Excused({"event lost", "erased live"})
  BY MishapsGrow DEF Excused
<1>1. ~late[u] /\ (client[u].pc = "granted" => row' = row)
  BY LateStays
<1>2. OpenTo(u) => Writes
  <2>1. CASE Erasure
    <3>1. ~Live
      BY <2>1 DEF Erasure, Excused
    <3> QED BY <2>1, <3>1 DEF OpenTo, Live, Erasure
  <2>2. CASE UNCHANGED <<row, tomb>>
    BY <2>2 DEF OpenTo
  <2> QED BY <2>1, <2>2, RowMovers
<1>3. CASE client[u].pc = "granted" /\ Handshake(u)
  <2>1. OpenTo(u) /\ UNCHANGED <<row, tomb>>
    BY <1>1, <1>3, HandshakeMoves DEF FreshOK
  <2> QED BY <2>1 DEF OpenTo
<1>4. CASE client[u].pc = "in" /\ client'[u].at = client[u].at
  <2> DEFINE r == client[u].at
  <2>0. r \in Replicas
    BY <1>4 DEF TypeInv, RoomOK
  <2>1. CASE OpenTo(u)
    BY <1>2, <2>1, WritesAnnounceClosing DEF ToBeClosed
  <2>2. CASE ~OpenTo(u)
    <3>1. PICK e \in Events : ClosesOn(e, u) /\ (Pending(outbox, e) \/ Pending(inbox[r], e))
      BY <1>0, <1>1, <1>4, <2>2 DEF ClosingOK, ToBeClosed
    <3>2. ~(Handles(r) /\ e = Head(inbox[r]))
      BY <1>4, <2>0, <3>1, HandledMoves
    <3>3. "event lost" \notin mishaps'
      BY DEF Excused
    <3>4. Pending(outbox', e) \/ Pending(inbox'[r], e)
      BY <2>0, <3>1, <3>2, <3>3, PendingStays
    <3> QED BY <1>4, <3>1, <3>4 DEF ToBeClosed
  <2> QED BY <2>1, <2>2
<1> QED BY <1>3, <1>4, InSince

----------------------------------------------------------------------------
(* The rooms of live documents.                                             *)

Unseals(e) == e.kind = "deleted" /\ ~e.on

\* A room that was sealed or not will be sealed, once the events of s are handled.
WillSeal(s, was) ==
  \/ was /\ \A i \in 1..Len(s) : ~Unseals(s[i])
  \/ \E i \in 1..Len(s) :
       s[i].kind = "purged" /\ \A j \in (i + 1)..Len(s) : ~Unseals(s[j])

LEMMA WillSealAppend ==
  ASSUME NEW s \in Seq(Events), NEW e \in Events, NEW was \in BOOLEAN,
         WillSeal(Append(s, e), was)
  PROVE  e.kind = "purged" \/ (WillSeal(s, was) /\ ~Unseals(e))
<1> DEFINE t == Append(s, e)
<1>1. /\ t \in Seq(Events) /\ Len(t) = Len(s) + 1 /\ t[Len(s) + 1] = e
      /\ \A i \in 1..Len(s) : t[i] = s[i]
  BY AppendProperties
<1>0. WillSeal(t, was)
  OBVIOUS
<1> HIDE DEF t
<1>2. Len(s) \in Nat
  OBVIOUS
<1>3. CASE was /\ \A i \in 1..Len(t) : ~Unseals(t[i])
  <2>1. ~Unseals(t[Len(s) + 1])
    BY <1>1, <1>2, <1>3
  <2>2. \A i \in 1..Len(s) : ~Unseals(s[i])
    BY <1>1, <1>2, <1>3
  <2> QED BY <1>1, <1>3, <2>1, <2>2 DEF WillSeal
<1>4. ASSUME NEW i \in 1..Len(t), t[i].kind = "purged",
             \A j \in (i + 1)..Len(t) : ~Unseals(t[j])
      PROVE  e.kind = "purged" \/ (WillSeal(s, was) /\ ~Unseals(e))
  <2>1. CASE i = Len(s) + 1
    BY <1>1, <1>4, <2>1
  <2>2. CASE i # Len(s) + 1
    <3>1. i \in 1..Len(s) /\ Len(s) + 1 \in (i + 1)..Len(t)
      BY <1>1, <1>2, <2>2
    <3>2. s[i].kind = "purged" /\ ~Unseals(e)
      BY <1>1, <1>4, <3>1
    <3>3. ASSUME NEW j \in (i + 1)..Len(s) PROVE ~Unseals(s[j])
      <4>1. j \in (i + 1)..Len(t) /\ j \in 1..Len(s)
        BY <1>1, <1>2, <3>1, <3>3
      <4> QED BY <1>1, <1>4, <4>1
    <3> QED BY <3>1, <3>2, <3>3 DEF WillSeal
  <2> QED BY <2>1, <2>2
<1> QED BY <1>0, <1>3, <1>4 DEF WillSeal

LEMMA WillSealTail ==
  ASSUME NEW s \in Seq(Events), s # <<>>, NEW was \in BOOLEAN, NEW now \in BOOLEAN,
         now => Head(s).kind = "purged" \/ (was /\ ~Unseals(Head(s))),
         WillSeal(Tail(s), now)
  PROVE  WillSeal(s, was)
<1> DEFINE t == Tail(s)
<1>1. /\ Len(s) \in Nat /\ Len(s) > 0 /\ Head(s) = s[1] /\ Len(t) = Len(s) - 1
      /\ \A i \in 1..Len(t) : t[i] = s[i + 1]
  BY HeadTailProperties
<1>0. WillSeal(t, now)
  OBVIOUS
<1> HIDE DEF t
<1>2. \A j \in 2..Len(s) : j - 1 \in 1..Len(t) /\ t[j - 1] = s[j]
  BY <1>1
<1>3. CASE now /\ \A i \in 1..Len(t) : ~Unseals(t[i])
  <2>1. \A j \in 2..Len(s) : ~Unseals(s[j])
    BY <1>2, <1>3
  <2>2. CASE Head(s).kind = "purged"
    <3>1. 1 \in 1..Len(s) /\ s[1].kind = "purged" /\ \A j \in (1 + 1)..Len(s) : ~Unseals(s[j])
      BY <1>1, <2>1, <2>2
    <3> QED BY <3>1 DEF WillSeal
  <2>3. CASE was /\ ~Unseals(Head(s))
    <3>1. \A j \in 1..Len(s) : j = 1 \/ j \in 2..Len(s)
      BY <1>1
    <3>2. \A j \in 1..Len(s) : ~Unseals(s[j])
      BY <1>1, <2>1, <2>3, <3>1
    <3> QED BY <2>3, <3>2 DEF WillSeal
  <2> QED BY <1>3, <2>2, <2>3
<1>4. ASSUME NEW i \in 1..Len(t), t[i].kind = "purged",
             \A j \in (i + 1)..Len(t) : ~Unseals(t[j])
      PROVE  WillSeal(s, was)
  <2>1. i + 1 \in 1..Len(s) /\ s[i + 1].kind = "purged"
    BY <1>1, <1>4
  <2>2. ASSUME NEW j \in ((i + 1) + 1)..Len(s) PROVE ~Unseals(s[j])
    <3>1. j \in 2..Len(s) /\ j - 1 \in (i + 1)..Len(t)
      BY <1>1, <2>2
    <3> QED BY <1>2, <1>4, <3>1
  <2> QED BY <2>1, <2>2 DEF WillSeal
<1> QED BY <1>0, <1>3, <1>4 DEF WillSeal

\* A seal that lasts has a reason: the document is in the trash, its purge is not over, or
\* the restore that lifts it is still to be announced.
SealOK ==
  ~tomb /\ ~Excused({"moved under a purge", "event lost", "purge of a live document failed"}) =>
    \A r \in Replicas : WillSeal(inbox[r], r \in sealed) =>
      /\ row # None
      /\ \/ row.deletedAt # "null"
         \/ \E p \in Purgers : PastItsChecks(p)
         \/ \E e \in Events : Unseals(e) /\ Pending(outbox, e)

\* A seal is awaited, never left to the outbox.
OutboxOK == \A e \in Events : Pending(outbox, e) => e.kind # "purged"

LEMMA OutboxStep ==
  ASSUME TypeInv, TypeInv', EventsOK, OneFlagOK, OutboxOK, Next PROVE OutboxOK'
<1>1. CASE UNCHANGED outbox
  BY <1>1 DEF OutboxOK
<1>2. ASSUME NEW e \in Events, e.kind # "purged", outbox' = Append(outbox, e) PROVE OutboxOK'
  BY <1>2, PendingAppend DEF OutboxOK, EventsOK
<1>3. CASE Writes
  <2>1. CASE Retimes
    <3>1. PICK to \in {"null", "recent"} :
            row # None /\ outbox' = Append(outbox, Event("deleted", to # "null", row.ownerId))
      BY <2>1 DEF Retimes
    <3>2. row.ownerId \in Users \cup {None}
      BY <3>1 DEF TypeInv, RowOK, Rows
    <3>3. /\ Event("deleted", to # "null", row.ownerId) \in Events
          /\ Event("deleted", to # "null", row.ownerId).kind # "purged"
      BY <3>2 DEF Event, Events
    <3> QED BY <1>2, <3>1, <3>3
  <2>2. CASE Reflags
    <3>1. PICK f \in Flags, on \in BOOLEAN, r \in Rows :
            row' = With(r, {f}, on) /\ outbox' = Append(outbox, Event(f, on, row'.ownerId))
      BY <2>2 DEF Reflags
    <3>2. row' \in Rows
      BY <3>1, WithType
    <3>3. Event(f, on, row'.ownerId) \in Events /\ Event(f, on, row'.ownerId).kind # "purged"
      BY <3>2 DEF Event, Events, Rows, Flags
    <3> QED BY <1>2, <3>1, <3>3
  <2>3. CASE Creates \/ Ripens
    BY <1>1, <2>3 DEF Creates, Ripens
  <2> QED BY <1>3, <2>1, <2>2, <2>3 DEF Writes
<1>4. ASSUME NEW i \in DOMAIN outbox, outbox' = RemoveAt(outbox, i) PROVE OutboxOK'
  <2>1. i \in 1..Len(outbox)
    BY DEF EventsOK
  <2>2. /\ Len(outbox') = Len(outbox) - 1
        /\ \A j \in 1..(Len(outbox) - 1) :
             outbox'[j] = IF j < i THEN outbox[j] ELSE outbox[j + 1]
    BY <1>4, <2>1, RemoveAtIndex DEF EventsOK
  <2>3. ASSUME NEW j \in 1..Len(outbox') PROVE \E k \in 1..Len(outbox) : outbox'[j] = outbox[k]
    <3>1. j \in 1..(Len(outbox) - 1) /\ j \in 1..Len(outbox) /\ j + 1 \in 1..Len(outbox)
      BY <2>1, <2>2, <2>3
    <3> QED BY <2>2, <3>1
  <2> QED BY <2>3 DEF OutboxOK, Pending
<1>5. CASE Delivery
  BY <1>1, <1>4, <1>5 DEF Delivery, Publishes, PublishFails, Seals, Handles
<1>6. ASSUME NEW u \in Users, Handshake(u) PROVE OutboxOK'
  BY <1>1, <1>6, HandshakeMoves
<1> QED BY <1>1, <1>3, <1>5, <1>6, StepKinds DEF Erasure, Unloads, Still, events

\* A purge past its checks ends by its row delete or by a throw.
LEMMA PastStays ==
  ASSUME TypeInv, Next, NEW p \in Purgers, PastItsChecks(p)
  PROVE  PastItsChecks(p)' \/ DeletesRow(p) \/ Throws(p)
<1> USE DEF TypeInv, PurgeOK
<1>1. CASE UNCHANGED purge
  BY <1>1 DEF PastItsChecks
<1>2. ASSUME NEW q \in Purgers, NEW stage, Goes(q, stage),
             q # p \/ stage \in {"asserted", "cleared", "sealed"}
      PROVE  PastItsChecks(p)'
  BY <1>2 DEF Goes, PastItsChecks
<1>3. CASE PurgeStep
  <2>1. ASSUME NEW q \in Sweepers, StartPass(q) \/ Rechecks(q) \/ Asserts(q)
        PROVE PastItsChecks(p)'
    <3>1. q # p
      BY <2>1 DEF StartPass, Rechecks, Asserts, At, PastItsChecks
    <3> QED BY <1>2, <2>1, <3>1 DEF StartPass, Rechecks, Asserts, Purgers
  <2>2. ASSUME NEW d \in Erasers, NEW scope, Erases(d, scope) PROVE PastItsChecks(p)'
    BY <2>2 DEF Erases, At, PastItsChecks, Purgers
  <2>3. ASSUME NEW q \in Purgers, Clears(q) \/ Seals(q) PROVE PastItsChecks(p)'
    BY <1>2, <2>3 DEF Clears, Seals
  <2>4. ASSUME NEW q \in Purgers \ {p}, DeletesRow(q) \/ Throws(q) PROVE PastItsChecks(p)'
    BY <1>2, <2>4 DEF DeletesRow, Throws
  <2> QED BY <1>3, <2>1, <2>2, <2>3, <2>4 DEF PurgeStep, AdminErases, OwnerErases
<1>4. CASE ~PurgeStep
  BY <1>1, <1>4, OthersMoveRow
<1> QED BY <1>3, <1>4

\* A step that will leave r sealed found it so, and lost no event that unseals, or is a
\* purge's seal.
LEMMA SealMoves ==
  ASSUME TypeInv, TypeInv', EventsOK, OneFlagOK, OutboxOK, Next, NEW r \in Replicas,
         WillSeal(inbox'[r], r \in sealed')
  PROVE  \/ /\ WillSeal(inbox[r], r \in sealed)
            /\ \A e \in Events : Unseals(e) /\ Pending(outbox, e) => Pending(outbox', e)
         \/ "event lost" \in mishaps'
         \/ \E p \in Purgers : Seals(p)
<1> USE DEF EventsOK
<1> DEFINE Stays == \A e \in Events : Unseals(e) /\ Pending(outbox, e) => Pending(outbox', e)
           Was == WillSeal(inbox[r], r \in sealed)
<1>1. CASE Writes
  <2>1. inbox'[r] = inbox[r] /\ sealed' = sealed
    BY <1>1 DEF Writes
  <2>2. outbox' = outbox \/ \E d \in Events : outbox' = Append(outbox, d)
    BY <1>1, WrittenEvent
  <2>3. \A d \in Events, e \in Events : Pending(outbox, e) => Pending(Append(outbox, d), e)
    BY PendingAppend
  <2> QED BY <2>1, <2>2, <2>3
<1>2. ASSUME NEW i \in DOMAIN outbox, Publishes(i) PROVE Was /\ Stays
  <2>1. i \in 1..Len(outbox) /\ outbox[i] \in Events
    BY ElementOfSeq
  <2>2. outbox' = RemoveAt(outbox, i) /\ Deliver(outbox[i]) /\ sealed' = sealed
    BY <1>2 DEF Publishes, rooms
  <2>3. inbox'[r] = Append(inbox[r], outbox[i])
    BY <2>1, <2>2, Delivered
  <2>4. outbox[i].kind # "purged"
    <3>1. Pending(outbox, outbox[i])
      BY <2>1 DEF Pending
    <3> QED BY <2>1, <3>1 DEF OutboxOK
  <2>5. WillSeal(Append(inbox[r], outbox[i]), r \in sealed)
    BY <2>2, <2>3
  <2>6. Was /\ ~Unseals(outbox[i])
    <3>1. PICK was \in BOOLEAN : was <=> r \in sealed
      OBVIOUS
    <3>2. WillSeal(Append(inbox[r], outbox[i]), was)
      BY <2>5, <3>1 DEF WillSeal
    <3>3. WillSeal(inbox[r], was) /\ ~Unseals(outbox[i])
      BY <2>1, <2>4, <3>2, WillSealAppend
    <3> QED BY <3>1, <3>3 DEF WillSeal
  <2>7. \A e : Pending(outbox, e) => Pending(outbox', e) \/ e = outbox[i]
    BY <2>1, <2>2, PendingRemove
  <2> QED BY <2>6, <2>7
<1>3. ASSUME NEW i, PublishFails(i) PROVE "event lost" \in mishaps'
  BY <1>3 DEF PublishFails, Note
<1>4. ASSUME NEW x \in Replicas, Handles(x) PROVE Was /\ Stays
  <2>1. outbox' = outbox
    BY <1>4 DEF Handles
  <2>2. CASE x # r
    <3>1. inbox'[r] = inbox[r] /\ (r \in sealed' <=> r \in sealed)
      BY <1>4, <2>2 DEF Handles, Seal
    <3> QED BY <2>1, <3>1
  <2>3. CASE x = r
    <3> DEFINE d == Head(inbox[r])
    <3>1. inbox'[r] = Tail(inbox[r]) /\ inbox[r] # <<>>
      BY <1>4, <2>3 DEF Handles
    <3>2. d \in Events
      BY <3>1, PendingTail
    <3>3. sealed' = sealed \/ sealed' = Seal(d, r)
      BY <1>4, <2>3 DEF Handles
    <3>4. ASSUME r \in sealed' PROVE d.kind = "purged" \/ (r \in sealed /\ ~Unseals(d))
      <4>1. CASE r \in loaded
        <5>1. sealed' = Seal(d, r)
          BY <1>4, <2>3, <4>1 DEF Handles
        <5> HIDE DEF d
        <5> QED BY <3>4, <5>1 DEF Seal, Unseals
      <4>2. CASE r \notin loaded
        BY <1>4, <2>3, <3>4, <4>2 DEF Handles, TypeInv, RoomOK
      <4> QED BY <4>1, <4>2
    <3> HIDE DEF d
    <3>5. r \in sealed' => d.kind = "purged" \/ (r \in sealed /\ ~Unseals(d))
      BY <3>4
    <3>6. WillSeal(Tail(inbox[r]), r \in sealed')
      BY <3>1
    <3>7. PICK was \in BOOLEAN, now \in BOOLEAN : (was <=> r \in sealed) /\ (now <=> r \in sealed')
      OBVIOUS
    <3>8. WillSeal(Tail(inbox[r]), now)
      BY <3>6, <3>7 DEF WillSeal
    <3>9. WillSeal(inbox[r], was)
      BY <3>1, <3>5, <3>7, <3>8, WillSealTail DEF d
    <3>10. Was
      BY <3>7, <3>9 DEF WillSeal
    <3> QED BY <2>1, <3>10
  <2> QED BY <2>2, <2>3
<1>5. ASSUME NEW u \in Users, Handshake(u) PROVE Was /\ Stays
  <2>1. UNCHANGED <<outbox, inbox, sealed>>
    BY <1>5, HandshakeMoves
  <2> QED BY <2>1
<1>6. ASSUME NEW x \in Replicas, Unloads(x) PROVE Was /\ Stays
  <2>1. UNCHANGED <<outbox, inbox>> /\ sealed' \subseteq sealed
    BY <1>6 DEF Unloads, events
  <2> QED BY <2>1 DEF WillSeal
<1>7. CASE UNCHANGED <<outbox, inbox, sealed>>
  BY <1>7
<1>8. CASE Delivery
  BY <1>2, <1>3, <1>4, <1>8 DEF Delivery
<1>9. CASE Erasure \/ Still
  BY <1>7, <1>9 DEF Erasure, Still
<1> QED BY <1>1, <1>5, <1>6, <1>8, <1>9, StepKinds

\* A write keeps the document in the trash, or announces that it left.
LEMMA WritesAnnounceRestore ==
  ASSUME TypeInv, EventsOK, Writes, row # None
  PROVE  /\ row' # None
         /\ \/ row'.deletedAt = row.deletedAt \/ row'.deletedAt # "null"
            \/ \E e \in Events : Unseals(e) /\ Pending(outbox', e)
<1> USE DEF TypeInv, RowOK
<1>0. row \in Rows
  OBVIOUS
<1>1. CASE Retimes
  <2>1. PICK to \in {"null", "recent"} :
          /\ row' = [row EXCEPT !.deletedAt = to]
          /\ outbox' = Append(outbox, Event("deleted", to # "null", row.ownerId))
    BY <1>1 DEF Retimes
  <2>2. row' # None /\ row'.deletedAt = to
    BY <1>0, <2>1, NoneAssumption DEF Rows, Ages
  <2>3. CASE to = "null"
    <3> DEFINE e == Event("deleted", FALSE, row.ownerId)
    <3>1. e \in Events /\ Unseals(e)
      BY <1>0 DEF Event, Events, Rows, Unseals
    <3>2. outbox' = Append(outbox, e)
      BY <2>1, <2>3
    <3> HIDE DEF e
    <3> QED BY <2>2, <3>1, <3>2, PendingAppend DEF EventsOK
  <2> QED BY <2>2, <2>3
<1>2. CASE Reflags
  <2>1. PICK f \in Flags, on \in BOOLEAN : row' = With(row, {f}, on)
    BY <1>2 DEF Reflags
  <2>2. row' \in Rows
    BY <1>0, <2>1, WithType
  <2>3. row'.deletedAt = row.deletedAt
    BY <1>0, <2>1 DEF With, Rows
  <2> QED BY <2>2, <2>3, NoneAssumption
<1>3. CASE Ripens
  BY <1>0, <1>3, NoneAssumption DEF Ripens, Rows, Ages
<1> QED BY <1>1, <1>2, <1>3 DEF Writes, Creates

LEMMA SealStep ==
  ASSUME TypeInv, TypeInv', EventsOK, OneFlagOK, OutboxOK, ChecksOK, SealOK, Next
  PROVE  SealOK'
<1> DEFINE Accidents == {"moved under a purge", "event lost", "purge of a live document failed"}
           Past == \E p \in Purgers : PastItsChecks(p)
           Restored == \E e \in Events : Unseals(e) /\ Pending(outbox, e)
<1> SUFFICES ASSUME ~tomb', ~Excused(Accidents)', NEW r \in Replicas,
                    WillSeal(inbox'[r], r \in sealed')
             PROVE  row' # None /\ (row'.deletedAt # "null" \/ Past' \/ Restored')
  BY DEF SealOK
<1>1. ~Excused(Accidents) /\ "event lost" \notin mishaps'
      /\ "purge of a live document failed" \notin mishaps'
  BY MishapsGrow DEF Excused
<1>2. ~tomb
  BY RowMovers DEF Writes, Erasure, TypeInv, BoundsOK
<1>3. ASSUME NEW p \in Purgers, Seals(p) PROVE row' # None /\ Past'
  <2>1. PastItsChecks(p) /\ UNCHANGED <<row, tomb>>
    BY <1>3 DEF Seals, At, PastItsChecks, doc
  <2>2. PastItsChecks(p)'
    BY <1>3 DEF Seals, Goes, PastItsChecks, TypeInv, PurgeOK
  <2> QED BY <1>2, <2>1, <2>2 DEF ChecksOK
<1>4. CASE /\ WillSeal(inbox[r], r \in sealed)
           /\ \A e \in Events : Unseals(e) /\ Pending(outbox, e) => Pending(outbox', e)
  <2>1. row # None /\ (row.deletedAt # "null" \/ Past \/ Restored)
    BY <1>1, <1>2, <1>4 DEF SealOK
  <2>2. Restored => Restored'
    BY <1>4
  <2>3. CASE Writes
    <3>1. Past => Past'
      BY <2>3 DEF Writes, PastItsChecks
    <3> QED BY <2>1, <2>2, <2>3, <3>1, WritesAnnounceRestore
  <2>4. CASE UNCHANGED <<row, tomb>>
    <3>1. ASSUME NEW p \in Purgers, PastItsChecks(p), ~PastItsChecks(p)', row.deletedAt = "null"
          PROVE FALSE
      <4>1. CASE DeletesRow(p)
        <5>1. purge[p].scope = "retention" /\ ~Expired
          BY <2>1, <2>4, <4>1 DEF DeletesRow
        <5>2. Excused({"moved under a purge"})
          BY <1>2, <3>1, <5>1 DEF ChecksOK
        <5> QED BY <1>1, <5>2 DEF Excused
      <4>2. CASE Throws(p)
        <5>1. Live
          BY <2>1, <3>1 DEF Live
        <5> QED BY <1>1, <3>1, <4>2, <5>1 DEF Throws, Note
      <4> QED BY <3>1, <4>1, <4>2, PastStays
    <3> QED BY <2>1, <2>2, <2>4, <3>1
  <2> QED BY <1>2, <2>3, <2>4, RowMovers DEF Erasure
<1> QED BY <1>1, <1>3, <1>4, SealMoves

----------------------------------------------------------------------------
(* The write locks.                                                         *)

\* The lock the row puts on u.
LockOf(u) == row # None /\ row.readOnly /\ row.ownerId # u

IsLock(e) == e.kind = "readOnly"
HasLock(s) == \E i \in 1..Len(s) : IsLock(s[i])

\* e is the last lock that s brings.
LastLock(s, e) == IsLock(e) /\ \E i \in 1..Len(s) :
  s[i] = e /\ \A j \in (i + 1)..Len(s) : ~IsLock(s[j])

LEMMA LockAppend ==
  ASSUME NEW s \in Seq(Events), NEW e \in Events
  PROVE  /\ IsLock(e) => HasLock(Append(s, e)) /\ \A d : LastLock(Append(s, e), d) => d = e
         /\ ~IsLock(e) => /\ HasLock(Append(s, e)) <=> HasLock(s)
                          /\ \A d : LastLock(Append(s, e), d) => LastLock(s, d)
<1> DEFINE t == Append(s, e)
<1>1. /\ Len(s) \in Nat /\ Len(t) = Len(s) + 1 /\ t[Len(s) + 1] = e
      /\ \A i \in 1..Len(s) : t[i] = s[i]
  BY AppendProperties
<1> HIDE DEF t
<1>2. IsLock(e) => HasLock(t)
  BY <1>1 DEF HasLock
<1>3. ASSUME NEW d, LastLock(t, d), IsLock(e) PROVE d = e
  <2>1. PICK i \in 1..Len(t) : t[i] = d /\ \A j \in (i + 1)..Len(t) : ~IsLock(t[j])
    BY <1>3 DEF LastLock
  <2>2. i = Len(s) + 1
    BY <1>1, <1>3, <2>1
  <2> QED BY <1>1, <2>1, <2>2
<1>4. ASSUME ~IsLock(e) PROVE HasLock(t) <=> HasLock(s)
  BY <1>1, <1>4 DEF HasLock
<1>5. ASSUME NEW d, LastLock(t, d), ~IsLock(e) PROVE LastLock(s, d)
  <2>1. PICK i \in 1..Len(t) : t[i] = d /\ \A j \in (i + 1)..Len(t) : ~IsLock(t[j])
    BY <1>5 DEF LastLock
  <2>2. IsLock(d)
    BY <1>5 DEF LastLock
  <2>3. i \in 1..Len(s)
    BY <1>1, <1>5, <2>1, <2>2
  <2>4. ASSUME NEW j \in (i + 1)..Len(s) PROVE ~IsLock(s[j])
    <3>1. j \in (i + 1)..Len(t) /\ j \in 1..Len(s)
      BY <1>1, <2>3, <2>4
    <3> QED BY <1>1, <2>1, <3>1
  <2> QED BY <1>1, <2>1, <2>2, <2>3, <2>4 DEF LastLock
<1> QED BY <1>2, <1>3, <1>4, <1>5 DEF t

LEMMA LockTail ==
  ASSUME NEW s \in Seq(Events), s # <<>>
  PROVE  /\ \A d : LastLock(Tail(s), d) => LastLock(s, d)
         /\ ~HasLock(Tail(s)) => IF IsLock(Head(s)) THEN LastLock(s, Head(s)) ELSE ~HasLock(s)
<1> DEFINE t == Tail(s)
<1>1. /\ Len(s) \in Nat /\ Len(s) > 0 /\ Head(s) = s[1] /\ Len(t) = Len(s) - 1
      /\ \A i \in 1..Len(t) : t[i] = s[i + 1]
  BY HeadTailProperties
<1> HIDE DEF t
<1>2. \A j \in 2..Len(s) : j - 1 \in 1..Len(t) /\ t[j - 1] = s[j]
  BY <1>1
<1>3. ASSUME NEW d, LastLock(t, d) PROVE LastLock(s, d)
  <2>1. PICK i \in 1..Len(t) : t[i] = d /\ \A j \in (i + 1)..Len(t) : ~IsLock(t[j])
    BY <1>3 DEF LastLock
  <2>2. i + 1 \in 1..Len(s) /\ s[i + 1] = d
    BY <1>1, <2>1
  <2>3. ASSUME NEW j \in ((i + 1) + 1)..Len(s) PROVE ~IsLock(s[j])
    <3>1. j \in 2..Len(s) /\ j - 1 \in (i + 1)..Len(t)
      BY <1>1, <2>3
    <3> QED BY <1>2, <2>1, <3>1
  <2> QED BY <1>3, <2>2, <2>3 DEF LastLock
<1>4. ASSUME ~HasLock(t)
      PROVE  IF IsLock(Head(s)) THEN LastLock(s, Head(s)) ELSE ~HasLock(s)
  <2>1. \A j \in 2..Len(s) : ~IsLock(s[j])
    BY <1>2, <1>4 DEF HasLock
  <2>2. 1 \in 1..Len(s) /\ \A j \in 1..Len(s) : j = 1 \/ j \in 2..Len(s)
    BY <1>1
  <2>3. CASE IsLock(Head(s))
    <3>1. s[1] = Head(s) /\ \A j \in (1 + 1)..Len(s) : ~IsLock(s[j])
      BY <1>1, <2>1
    <3> QED BY <2>2, <2>3, <3>1 DEF LastLock
  <2>4. CASE ~IsLock(Head(s))
    BY <1>1, <2>1, <2>2, <2>4 DEF HasLock
  <2> QED BY <2>3, <2>4
<1> QED BY <1>3, <1>4 DEF t

\* An event leaves the outbox before no other of its kind.
LEMMA LockRemove ==
  ASSUME NEW s \in Seq(Events), NEW i \in 1..Len(s),
         \A k \in 1..(i - 1) : s[k].kind # s[i].kind
  PROVE  /\ \A d : LastLock(RemoveAt(s, i), d) => LastLock(s, d)
         /\ ~HasLock(RemoveAt(s, i)) =>
              IF IsLock(s[i]) THEN LastLock(s, s[i]) ELSE ~HasLock(s)
<1> DEFINE t == RemoveAt(s, i)
<1>1. /\ Len(s) \in Nat /\ Len(t) = Len(s) - 1
      /\ \A j \in 1..(Len(s) - 1) : t[j] = IF j < i THEN s[j] ELSE s[j + 1]
  BY RemoveAtIndex
<1> HIDE DEF t
<1>2. /\ \A j \in 1..(i - 1) : j \in 1..Len(t) /\ t[j] = s[j]
      /\ \A j \in (i + 1)..Len(s) : j - 1 \in 1..Len(t) /\ t[j - 1] = s[j]
  BY <1>1
<1>3. ASSUME NEW d, LastLock(t, d) PROVE LastLock(s, d)
  <2>1. PICK k \in 1..Len(t) : t[k] = d /\ \A j \in (k + 1)..Len(t) : ~IsLock(t[j])
    BY <1>3 DEF LastLock
  <2>2. IsLock(d)
    BY <1>3 DEF LastLock
  <2>3. CASE k < i
    <3>1. s[k] = d /\ k \in 1..(i - 1)
      BY <1>1, <2>1, <2>3
    <3>2. ~IsLock(s[i])
      BY <2>2, <3>1 DEF IsLock
    <3>3. ASSUME NEW j \in (k + 1)..Len(s) PROVE ~IsLock(s[j])
      <4>1. CASE j < i
        <5>1. j \in 1..(i - 1) /\ j \in (k + 1)..Len(t)
          BY <1>1, <3>3, <4>1
        <5> QED BY <1>2, <2>1, <5>1
      <4>2. CASE j > i
        <5>1. j \in (i + 1)..Len(s) /\ j - 1 \in (k + 1)..Len(t)
          BY <1>1, <2>3, <3>3, <4>2
        <5> QED BY <1>2, <2>1, <5>1
      <4> QED BY <3>2, <3>3, <4>1, <4>2
    <3>4. k \in 1..Len(s)
      BY <1>1
    <3> QED BY <2>2, <3>1, <3>3, <3>4 DEF LastLock
  <2>4. CASE ~(k < i)
    <3>1. k + 1 \in 1..Len(s) /\ s[k + 1] = d
      BY <1>1, <2>1, <2>4
    <3>2. ASSUME NEW j \in ((k + 1) + 1)..Len(s) PROVE ~IsLock(s[j])
      <4>1. j \in (i + 1)..Len(s) /\ j - 1 \in (k + 1)..Len(t)
        BY <1>1, <2>4, <3>2
      <4> QED BY <1>2, <2>1, <4>1
    <3> QED BY <2>2, <3>1, <3>2 DEF LastLock
  <2> QED BY <2>3, <2>4
<1>4. ASSUME ~HasLock(t)
      PROVE  IF IsLock(s[i]) THEN LastLock(s, s[i]) ELSE ~HasLock(s)
  <2>1. /\ \A j \in 1..(i - 1) : ~IsLock(s[j])
        /\ \A j \in (i + 1)..Len(s) : ~IsLock(s[j])
    BY <1>2, <1>4 DEF HasLock
  <2>2. \A j \in 1..Len(s) : j = i \/ j \in 1..(i - 1) \/ j \in (i + 1)..Len(s)
    OBVIOUS
  <2> QED BY <2>1, <2>2 DEF LastLock, HasLock
<1> QED BY <1>3, <1>4 DEF t

Says(e) == \A u \in Users : (e.on /\ u # e.ownerId) <=> LockOf(u)
LastSays(s) == \A e \in Events : LastLock(s, e) => Says(e)
Locked(u) == client[u].readOnly <=> LockOf(u)

\* The row's lock is the last one announced; once it is published it is the last one each
\* replica will hear of, and what the sockets have where no lock is to be handled.
OutboxSays == LastSays(outbox)
InboxesSay == ~HasLock(outbox) => \A r \in Replicas : LastSays(inbox[r])
SocketsHave == ~HasLock(outbox) => \A u \in Users :
  client[u].pc = "in" /\ ~late[u] /\ ~HasLock(inbox[client[u].at]) => Locked(u)
GrantsHave == \A u \in Users : client[u].pc = "granted" /\ ~late[u] => Locked(u)
LocksOK == OutboxSays /\ InboxesSay /\ SocketsHave /\ GrantsHave

LockOK == ~tomb /\ ~Excused({"event lost", "events overtook"}) => LocksOK

\* A write leaves the lock alone, or announces it.
LEMMA WritesAnnounceLock ==
  ASSUME TypeInv, TypeInv', EventsOK, Writes
  PROVE  \/ /\ \A u : LockOf(u)' <=> LockOf(u)
            /\ outbox' = outbox \/ \E e \in Events : ~IsLock(e) /\ outbox' = Append(outbox, e)
         \/ \E e \in Events : IsLock(e) /\ outbox' = Append(outbox, e) /\ Says(e)'
<1> USE DEF TypeInv, RowOK
<1>1. CASE Retimes
  <2>1. PICK to \in {"null", "recent"} :
          /\ row # None /\ row' = [row EXCEPT !.deletedAt = to]
          /\ outbox' = Append(outbox, Event("deleted", to # "null", row.ownerId))
    BY <1>1 DEF Retimes
  <2>2. row \in Rows /\ row' # None
    BY <2>1, NoneAssumption DEF Rows, Ages
  <2>3. row'.readOnly = row.readOnly /\ row'.ownerId = row.ownerId
    BY <2>1, <2>2 DEF Rows
  <2>4. /\ Event("deleted", to # "null", row.ownerId) \in Events
        /\ ~IsLock(Event("deleted", to # "null", row.ownerId))
    BY <2>2 DEF Event, Events, Rows, IsLock
  <2>5. \A u : LockOf(u)' <=> LockOf(u)
    BY <2>1, <2>2, <2>3 DEF LockOf
  <2> QED BY <2>1, <2>4, <2>5
<1>2. CASE Reflags
  <2>1. PICK f \in Flags, on \in BOOLEAN, r \in Rows :
          /\ r = row \/ (row = None /\ \E v \in Users \cup {None} : r = NewRow(v))
          /\ row' = With(r, {f}, on)
          /\ outbox' = Append(outbox, Event(f, on, row'.ownerId))
    BY <1>2 DEF Reflags
  <2>2. row' \in Rows /\ row' # None
    BY <2>1, WithType, NoneAssumption
  <2>3. PICK e \in Events : /\ e = Event(f, on, row'.ownerId)
                           /\ e.kind = f /\ e.on = on /\ e.ownerId = row'.ownerId
    <3>1. /\ Event(f, on, row'.ownerId) \in Events
          /\ Event(f, on, row'.ownerId).kind = f /\ Event(f, on, row'.ownerId).on = on
          /\ Event(f, on, row'.ownerId).ownerId = row'.ownerId
      BY <2>2 DEF Event, Events, Rows
    <3> QED BY <3>1
  <2>4. row'.readOnly = (IF f = "readOnly" THEN on ELSE r.readOnly) /\ row'.ownerId = r.ownerId
    BY <2>1 DEF With, Rows
  <2>5. outbox' = Append(outbox, e)
    BY <2>1, <2>3
  <2>6. CASE f = "readOnly"
    <3>1. IsLock(e) /\ \A u \in Users : (e.on /\ u # e.ownerId) <=> LockOf(u)'
      BY <2>2, <2>3, <2>4, <2>6 DEF IsLock, LockOf
    <3>2. Says(e)'
      BY <3>1 DEF Says
    <3> QED BY <2>5, <3>1, <3>2
  <2>7. CASE f # "readOnly"
    <3>1. ~IsLock(e)
      BY <2>3, <2>7 DEF IsLock
    <3>2. row'.readOnly = r.readOnly /\ row'.ownerId = r.ownerId
      BY <2>4, <2>7
    <3>3. r # None /\ (r # row => row = None /\ r.readOnly = FALSE)
      BY <2>1, NoneAssumption DEF NewRow
    <3>4. \A u : LockOf(u)' <=> LockOf(u)
      BY <2>2, <3>2, <3>3 DEF LockOf
    <3> QED BY <2>3, <2>5, <3>1, <3>4
  <2> QED BY <2>6, <2>7
<1>3. CASE Creates
  <2>1. \A u : ~LockOf(u)' /\ ~LockOf(u)
    BY <1>3 DEF Creates, LockOf, NewRow
  <2> QED BY <1>3, <2>1 DEF Creates
<1>4. CASE Ripens
  <2>1. row \in Rows
    BY <1>4 DEF Ripens
  <2>2. row' # None /\ row'.readOnly = row.readOnly /\ row'.ownerId = row.ownerId
    BY <1>4, <2>1, NoneAssumption DEF Ripens, Rows, Ages
  <2> QED BY <1>4, <2>2 DEF Ripens, LockOf
<1> QED BY <1>1, <1>2, <1>3, <1>4 DEF Writes

LEMMA LocksWrite ==
  ASSUME TypeInv, TypeInv', EventsOK, LocksOK, Next, Writes
  PROVE  LocksOK'
<1>1. UNCHANGED <<inbox, client>>
  BY DEF Writes
<1>2. \A u \in Users : client[u].pc # "out" /\ ~late'[u] =>
        ~late[u] /\ (client[u].pc = "granted" => row' = row)
  BY <1>1, LateStays
<1>3. ASSUME NEW e \in Events, ~IsLock(e), outbox' = Append(outbox, e)
      PROVE  /\ HasLock(outbox') <=> HasLock(outbox)
             /\ \A d : LastLock(outbox', d) => LastLock(outbox, d)
  BY <1>3, LockAppend DEF EventsOK
<1>4. CASE /\ \A u : LockOf(u)' <=> LockOf(u)
           /\ outbox' = outbox \/ \E e \in Events : ~IsLock(e) /\ outbox' = Append(outbox, e)
  <2>1. \A e : Says(e)' <=> Says(e)
    BY <1>4 DEF Says
  <2>2. /\ HasLock(outbox') <=> HasLock(outbox)
        /\ \A d : LastLock(outbox', d) => LastLock(outbox, d)
    BY <1>3, <1>4
  <2>3. \A u \in Users : Locked(u)' <=> Locked(u)
    BY <1>1, <1>4 DEF Locked
  <2>4. OutboxSays' /\ InboxesSay'
    BY <1>1, <2>1, <2>2 DEF LocksOK, OutboxSays, InboxesSay, LastSays
  <2>5. SocketsHave' /\ GrantsHave'
    BY <1>1, <1>2, <2>2, <2>3 DEF LocksOK, SocketsHave, GrantsHave
  <2> QED BY <2>4, <2>5 DEF LocksOK
<1>5. ASSUME NEW e \in Events, IsLock(e), outbox' = Append(outbox, e), Says(e)'
      PROVE  LocksOK'
  <2>1. HasLock(outbox') /\ \A d : LastLock(outbox', d) => d = e
    BY <1>5, LockAppend DEF EventsOK
  <2>2. OutboxSays' /\ InboxesSay' /\ SocketsHave'
    BY <1>5, <2>1 DEF OutboxSays, InboxesSay, SocketsHave, LastSays
  <2>3. GrantsHave'
    <3> SUFFICES ASSUME NEW u \in Users, client'[u].pc = "granted", ~late'[u] PROVE Locked(u)'
      BY DEF GrantsHave
    <3>1. client[u].pc = "granted" /\ ~late[u] /\ row' = row
      BY <1>1, <1>2
    <3> QED BY <1>1, <3>1 DEF LocksOK, GrantsHave, Locked, LockOf
  <2> QED BY <2>2, <2>3 DEF LocksOK
<1> QED BY <1>4, <1>5, WritesAnnounceLock

\* Where neither the row nor the sockets move, what the events say decides.
LEMMA LocksDeliver ==
  ASSUME TypeInv, EventsOK, LocksOK, Next, UNCHANGED <<row, client>>,
         \A d : LastLock(outbox', d) => LastLock(outbox, d),
         ~HasLock(outbox') => \A r \in Replicas :
           /\ \A d \in Events : LastLock(inbox'[r], d) => Says(d)
           /\ ~HasLock(inbox'[r]) => ~HasLock(outbox) /\ ~HasLock(inbox[r])
  PROVE  LocksOK'
<1>1. \A e : Says(e)' <=> Says(e)
  BY DEF Says, LockOf
<1>2. \A u : Locked(u)' <=> Locked(u)
  BY DEF Locked, LockOf
<1>3. \A u \in Users : client[u].pc # "out" /\ ~late'[u] => ~late[u]
  BY LateStays
<1>4. OutboxSays' /\ InboxesSay'
  BY <1>1 DEF LocksOK, OutboxSays, InboxesSay, LastSays
<1>5. SocketsHave'
  <2> SUFFICES ASSUME ~HasLock(outbox'), NEW u \in Users, client[u].pc = "in", ~late'[u],
                      ~HasLock(inbox'[client[u].at])
               PROVE  Locked(u)'
    BY DEF SocketsHave
  <2>1. client[u].at \in Replicas
    BY DEF TypeInv, RoomOK
  <2>2. ~HasLock(outbox) /\ ~HasLock(inbox[client[u].at]) /\ ~late[u]
    BY <1>3, <2>1
  <2> QED BY <1>2, <2>2 DEF LocksOK, SocketsHave
<1>6. GrantsHave'
  BY <1>2, <1>3 DEF LocksOK, GrantsHave
<1> QED BY <1>4, <1>5, <1>6 DEF LocksOK

\* Publishing in the order of the writes carries the last lock over.
LEMMA LocksPublish ==
  ASSUME TypeInv, EventsOK, LocksOK, Next, NEW i \in DOMAIN outbox, Publishes(i),
         "events overtook" \notin mishaps'
  PROVE  LocksOK'
<1> USE DEF EventsOK
<1> DEFINE e == outbox[i]
<1>1. i \in 1..Len(outbox) /\ e \in Events
  <2>1. outbox \in Seq(Events)
    OBVIOUS
  <2>2. DOMAIN outbox = 1..Len(outbox)
    BY <2>1, LenProperties
  <2> QED BY <2>1, <2>2, ElementOfSeq
<1>2. outbox' = RemoveAt(outbox, i) /\ Deliver(e) /\ UNCHANGED <<row, client>>
  BY DEF Publishes, doc
<1>3. \A r \in Replicas : inbox'[r] = Append(inbox[r], e) /\ inbox[r] \in Seq(Events)
  BY <1>1, <1>2, Delivered
<1>4. \A k \in 1..(i - 1) : outbox[k].kind # outbox[i].kind
  BY DEF Publishes, Note
<1>5. /\ \A d : LastLock(outbox', d) => LastLock(outbox, d)
      /\ ~HasLock(outbox') => IF IsLock(e) THEN LastLock(outbox, e) ELSE ~HasLock(outbox)
  BY <1>1, <1>2, <1>4, LockRemove
<1> HIDE DEF e
<1>6. ASSUME ~HasLock(outbox'), NEW r \in Replicas
      PROVE  /\ \A d \in Events : LastLock(inbox'[r], d) => Says(d)
             /\ ~HasLock(inbox'[r]) => ~HasLock(outbox) /\ ~HasLock(inbox[r])
  <2>1. CASE IsLock(e)
    <3>1. Says(e)
      BY <1>1, <1>5, <1>6, <2>1 DEF LocksOK, OutboxSays, LastSays
    <3>2. HasLock(inbox'[r]) /\ \A d : LastLock(inbox'[r], d) => d = e
      BY <1>1, <1>3, <2>1, LockAppend
    <3> QED BY <3>1, <3>2
  <2>2. CASE ~IsLock(e)
    <3>1. ~HasLock(outbox)
      BY <1>5, <1>6, <2>2
    <3>2. /\ HasLock(Append(inbox[r], e)) <=> HasLock(inbox[r])
          /\ \A d : LastLock(Append(inbox[r], e), d) => LastLock(inbox[r], d)
      BY <1>1, <1>3, <2>2, LockAppend
    <3> QED BY <1>3, <3>1, <3>2 DEF LocksOK, InboxesSay, LastSays
  <2> QED BY <2>1, <2>2
<1> QED BY <1>2, <1>5, <1>6, LocksDeliver

LEMMA LocksSeal ==
  ASSUME TypeInv, EventsOK, LocksOK, Next, NEW p \in Purgers, Seals(p),
         "event lost" \notin mishaps'
  PROVE  LocksOK'
<1> USE DEF EventsOK
<1> DEFINE e == Event("purged", TRUE, None)
<1>1. e \in Events /\ ~IsLock(e)
  BY PurgedIsEvent DEF IsLock, Event
<1>2. Deliver(e) /\ outbox' = outbox /\ UNCHANGED <<row, client>>
  BY DEF Seals, Note, doc
<1> HIDE DEF e
<1>3. \A r \in Replicas : inbox'[r] = Append(inbox[r], e) /\ inbox[r] \in Seq(Events)
  BY <1>1, <1>2, Delivered
<1>4. ASSUME NEW r \in Replicas
      PROVE  /\ HasLock(inbox'[r]) <=> HasLock(inbox[r])
             /\ \A d : LastLock(inbox'[r], d) => LastLock(inbox[r], d)
  <2>1. /\ HasLock(Append(inbox[r], e)) <=> HasLock(inbox[r])
        /\ \A d : LastLock(Append(inbox[r], e), d) => LastLock(inbox[r], d)
    BY <1>1, <1>3, LockAppend
  <2> QED BY <1>3, <2>1
<1>5. ~HasLock(outbox') => \A r \in Replicas :
        /\ \A d \in Events : LastLock(inbox'[r], d) => Says(d)
        /\ ~HasLock(inbox'[r]) => ~HasLock(outbox) /\ ~HasLock(inbox[r])
  BY <1>2, <1>4 DEF LocksOK, InboxesSay, LastSays
<1> QED BY <1>2, <1>5, LocksDeliver

LEMMA LocksHandle ==
  ASSUME TypeInv, EventsOK, LocksOK, Next, NEW r \in Replicas, Handles(r)
  PROVE  LocksOK'
<1> DEFINE e == Head(inbox[r])
<1>1. /\ UNCHANGED <<row, outbox>> /\ inbox[r] \in Seq(Events) /\ inbox[r] # <<>>
      /\ \A x \in Replicas : inbox'[x] = IF x = r THEN Tail(inbox[r]) ELSE inbox[x]
  <2>1. CASE Users = {}
    BY <2>1 DEF Handles, EventsOK, doc
  <2>2. CASE Users # {}
    BY <2>2, HandledMoves
  <2> QED BY <2>1, <2>2
<1>2. e \in Events
  BY <1>1, PendingTail
<1>3. /\ \A d : LastLock(Tail(inbox[r]), d) => LastLock(inbox[r], d)
      /\ ~HasLock(Tail(inbox[r])) =>
           IF IsLock(e) THEN LastLock(inbox[r], e) ELSE ~HasLock(inbox[r])
  BY <1>1, LockTail
<1>4. /\ \A d : Says(d)' <=> Says(d)
      /\ \A u : LockOf(u)' <=> LockOf(u)
  BY <1>1 DEF Says, LockOf
<1>5. OutboxSays'
  BY <1>1, <1>4 DEF LocksOK, OutboxSays, LastSays
<1>6. InboxesSay'
  BY <1>1, <1>3, <1>4 DEF LocksOK, InboxesSay, LastSays
<1>7. SocketsHave'
  <2> SUFFICES ASSUME ~HasLock(outbox'), NEW u \in Users, client'[u].pc = "in", ~late'[u],
                      ~HasLock(inbox'[client'[u].at])
               PROVE  Locked(u)'
    BY DEF SocketsHave
  <2>1. /\ client[u].pc = "in" /\ client'[u].at = client[u].at
        /\ client[u].at # r => client'[u] = client[u]
        /\ client[u].at = r =>
             client'[u].readOnly = IF IsLock(e) THEN e.on /\ u # e.ownerId
                                   ELSE client[u].readOnly
    BY HandledMoves DEF IsLock
  <2>2. ~late[u] /\ ~HasLock(outbox)
    BY <1>1, <2>1, LateStays
  <2>3. client[u].at \in Replicas
    BY <2>1 DEF TypeInv, RoomOK
  <2>4. CASE client[u].at # r
    <3>1. Locked(u)
      BY <1>1, <2>1, <2>2, <2>3, <2>4 DEF LocksOK, SocketsHave
    <3> QED BY <1>4, <2>1, <2>4, <3>1 DEF Locked
  <2>5. CASE client[u].at = r
    <3>1. ~HasLock(Tail(inbox[r]))
      BY <1>1, <2>1, <2>5
    <3>2. CASE IsLock(e)
      <4>1. Says(e)
        BY <1>2, <1>3, <2>2, <3>1, <3>2 DEF LocksOK, InboxesSay, LastSays
      <4>2. (e.on /\ u # e.ownerId) <=> LockOf(u)
        BY <4>1 DEF Says
      <4> HIDE DEF e
      <4>3. client'[u].readOnly = (e.on /\ u # e.ownerId)
        BY <2>1, <2>5, <3>2
      <4> QED BY <1>4, <4>2, <4>3 DEF Locked
    <3>3. CASE ~IsLock(e)
      <4>1. Locked(u)
        BY <1>3, <2>1, <2>2, <2>5, <3>1, <3>3 DEF LocksOK, SocketsHave
      <4> QED BY <1>4, <2>1, <2>5, <3>3, <4>1 DEF Locked
    <3> QED BY <3>2, <3>3
  <2> QED BY <2>4, <2>5
<1>8. GrantsHave'
  <2> SUFFICES ASSUME NEW u \in Users, client'[u].pc = "granted", ~late'[u] PROVE Locked(u)'
    BY DEF GrantsHave
  <2>1. client'[u] = client[u]
    BY HandledMoves
  <2>2. ~late[u]
    BY LateStays
  <2> QED BY <1>4, <2>1, <2>2 DEF LocksOK, GrantsHave, Locked
<1> QED BY <1>5, <1>6, <1>7, <1>8 DEF LocksOK

LEMMA LocksHandshake ==
  ASSUME TypeInv, FreshOK, LocksOK, Next, NEW u \in Users, Handshake(u)
  PROVE  LocksOK'
<1>1. /\ UNCHANGED <<row, outbox, inbox>>
      /\ \A v \in Users \ {u} : client'[v] = client[v]
  BY HandshakeMoves
<1>2. /\ \A d : Says(d)' <=> Says(d)
      /\ \A v : LockOf(v)' <=> LockOf(v)
  BY <1>1 DEF Says, LockOf
<1>3. OutboxSays' /\ InboxesSay'
  BY <1>1, <1>2 DEF LocksOK, OutboxSays, InboxesSay, LastSays
<1>4. \A v \in Users : client'[v].pc # "out" /\ ~late'[v] => ~late[v]
  BY LateStays
<1>5. ASSUME client'[u].pc \in {"granted", "in"}, ~late'[u] PROVE Locked(u)'
  <2>1. ~late[u]
    BY <1>4, <1>5
  <2>2. CASE client'[u].readOnly = (row.readOnly /\ row.ownerId # u) /\ row # None
    BY <1>2, <2>2 DEF Locked, LockOf
  <2>3. CASE client[u].pc = "no row" /\ ~client'[u].readOnly
    <3>1. row = None
      BY <2>1, <2>3 DEF FreshOK
    <3> QED BY <1>2, <2>3, <3>1 DEF Locked, LockOf
  <2>4. CASE client[u].pc = "granted" /\ client'[u].readOnly = client[u].readOnly
    BY <1>2, <2>1, <2>4 DEF LocksOK, GrantsHave, Locked
  <2> QED BY <1>5, <2>2, <2>3, <2>4, HandshakeMoves
<1>6. \A v \in Users \ {u} : Locked(v)' <=> Locked(v)
  BY <1>1, <1>2 DEF Locked
<1>7. SocketsHave' /\ GrantsHave'
  BY <1>1, <1>4, <1>5, <1>6 DEF LocksOK, SocketsHave, GrantsHave
<1> QED BY <1>3, <1>7 DEF LocksOK

LEMMA LockStep ==
  ASSUME TypeInv, TypeInv', EventsOK, OneFlagOK, FreshOK, LockOK, Next
  PROVE  LockOK'
<1> SUFFICES ASSUME ~tomb', ~Excused({"event lost", "events overtook"})' PROVE LocksOK'
  BY DEF LockOK
<1>1. /\ ~Excused({"event lost", "events overtook"})
      /\ "event lost" \notin mishaps' /\ "events overtook" \notin mishaps'
  BY MishapsGrow DEF Excused
<1>2. ~tomb
  BY RowMovers DEF Writes, Erasure, TypeInv, BoundsOK
<1>3. LocksOK
  BY <1>1, <1>2 DEF LockOK
<1>4. CASE Delivery
  <2>1. ASSUME NEW i, PublishFails(i) PROVE FALSE
    BY <1>1, <2>1 DEF PublishFails, Note
  <2> QED BY <1>1, <1>3, <1>4, <2>1, LocksPublish, LocksSeal, LocksHandle DEF Delivery
<1>5. CASE UNCHANGED <<row, outbox, inbox, client>>
  BY <1>3, <1>5, LocksDeliver DEF LocksOK, InboxesSay, LastSays
<1>6. CASE Erasure
  BY <1>6 DEF Erasure
<1>7. ASSUME NEW r \in Replicas, Unloads(r) PROVE UNCHANGED <<row, outbox, inbox, client>>
  BY <1>7 DEF Unloads, doc, events
<1> QED BY <1>3, <1>4, <1>5, <1>6, <1>7, LocksWrite, LocksHandshake, StepKinds DEF Still

----------------------------------------------------------------------------
(* The theorems.                                                            *)

EventsInv ==
  LifecycleInv /\ EventsOK /\ OneFlagOK /\ FreshOK /\ ClosingOK /\ OutboxOK /\ SealOK /\ LockOK

LEMMA NothingUnderWay ==
  /\ \A e : ~Pending(<<>>, e) /\ ~LastLock(<<>>, e)
  /\ ~HasLock(<<>>)
  /\ WillSeal(<<>>, TRUE) /\ ~WillSeal(<<>>, FALSE)
<1>1. 1..Len(<<>>) = {}
  OBVIOUS
<1> QED BY <1>1 DEF Pending, LastLock, HasLock, WillSeal

LEMMA EventsInit == Init => EventsInv
<1> SUFFICES ASSUME Init PROVE EventsInv
  OBVIOUS
<1>1. LifecycleInv
  BY LifecycleInit
<1>2. EventsOK
  BY DEF Init, EventsOK
<1>3. OneFlagOK
  BY DEF Init, OneFlagOK, Idle
<1>4. \A u \in Users : client[u].pc = "out"
  BY DEF Init, Out
<1>5. FreshOK /\ ClosingOK
  BY <1>4 DEF FreshOK, ClosingOK
<1>6. outbox = <<>> /\ sealed = {} /\ \A r \in Replicas : inbox[r] = <<>>
  BY DEF Init
<1>7. OutboxOK
  BY <1>6, NothingUnderWay DEF OutboxOK
<1>8. SealOK
  <2>1. \A r \in Replicas : (r \in sealed) = FALSE
    BY <1>6
  <2>2. \A r \in Replicas : ~WillSeal(inbox[r], r \in sealed)
    BY <1>6, <2>1, NothingUnderWay
  <2> QED BY <2>2 DEF SealOK
<1>9. LockOK
  BY <1>4, <1>6, NothingUnderWay DEF LockOK, LocksOK, OutboxSays, InboxesSay, SocketsHave,
     GrantsHave, LastSays
<1> QED BY <1>1, <1>2, <1>3, <1>5, <1>7, <1>8, <1>9 DEF EventsInv

\* Every reachable state satisfies the inductive invariant EventsInv: what the rooms do
\* not show of the row is in an event under way, or excused.
THEOREM EventsInvariant == Spec => []EventsInv
<1>1. EventsInv /\ [Next]_vars => EventsInv'
  <2> SUFFICES ASSUME EventsInv, [Next]_vars PROVE EventsInv'
    OBVIOUS
  <2>1. LifecycleInv /\ LifecycleInv'
    BY LifecycleStep DEF EventsInv
  <2>2. CASE Next
    <3>1. TypeInv /\ TypeInv' /\ ChecksOK
      BY <2>1 DEF LifecycleInv
    <3>2. EventsOK' /\ OneFlagOK' /\ FreshOK' /\ OutboxOK'
      BY <2>2, <3>1, EventsStep, OneFlagStep, FreshStep, OutboxStep DEF EventsInv
    <3>3. ClosingOK' /\ SealOK' /\ LockOK'
      BY <2>2, <3>1, <3>2, ClosingStep, SealStep, LockStep DEF EventsInv
    <3> QED BY <2>1, <3>2, <3>3 DEF EventsInv
  <2>3. CASE UNCHANGED vars
    <3>1. /\ UNCHANGED <<row, tomb, outbox, inbox, sealed, client, purge, ask>>
          /\ UNCHANGED <<mishaps, late>>
      BY <2>3 DEF vars, doc, events, rooms
    <3>2. EventsOK' /\ OneFlagOK' /\ FreshOK' /\ OutboxOK'
      BY <3>1 DEF EventsInv, EventsOK, OneFlagOK, FreshOK, OutboxOK, OpenTo
    <3>3. ClosingOK'
      BY <3>1 DEF EventsInv, ClosingOK, ToBeClosed, OpenTo, Excused
    <3>4. SealOK'
      BY <3>1 DEF EventsInv, SealOK, PastItsChecks, Excused
    <3>5. LockOK'
      BY <3>1 DEF EventsInv, LockOK, LocksOK, OutboxSays, InboxesSay, SocketsHave, GrantsHave,
         LastSays, Says, Locked, LockOf, Excused
    <3> QED BY <2>1, <3>2, <3>3, <3>4, <3>5 DEF EventsInv
  <2> QED BY <2>2, <2>3
<1> QED BY <1>1, EventsInit, PTL DEF Spec

\* Once the events are handled nobody is left in the room of a document closed to them,
\* unless a handshake was overtaken, an event was lost, or a live document was erased.
THEOREM ClosedRoomsAreEmptied == Spec => []ClosedRoomsEmpty
<1>1. EventsInv => ClosedRoomsEmpty
  <2> SUFFICES ASSUME EventsInv, Quiet, NEW u \in Users, client[u].pc = "in", ~OpenTo(u), ~late[u],
                      ~Excused({"event lost", "erased live"})
               PROVE  FALSE
    BY DEF ClosedRoomsEmpty
  <2>1. ToBeClosed(u)
    BY DEF EventsInv, ClosingOK
  <2>2. client[u].at \in Replicas
    BY DEF EventsInv, LifecycleInv, TypeInv, RoomOK
  <2>3. outbox = <<>> /\ inbox[client[u].at] = <<>>
    BY <2>2 DEF Quiet
  <2> QED BY <2>1, <2>3, NothingUnderWay DEF ToBeClosed
<1> QED BY <1>1, EventsInvariant, PTL

\* Once the events are handled the room of a live document takes saves, whatever purges
\* were refused or failed over it, unless one of the excused accidents happened.
THEOREM LiveRoomsTakeSaves == Spec => []LiveRoomsSave
<1>1. EventsInv => LiveRoomsSave
  <2> SUFFICES ASSUME EventsInv, Quiet, Live, ~tomb, \A p \in Purgers : ~PastItsChecks(p),
                      ~Excused({"moved under a purge", "event lost",
                                "purge of a live document failed"}),
                      NEW r \in sealed
               PROVE  FALSE
    BY DEF LiveRoomsSave
  <2>1. r \in Replicas
    BY DEF EventsInv, LifecycleInv, TypeInv, RoomOK
  <2>2. outbox = <<>> /\ inbox[r] = <<>> /\ (r \in sealed) = TRUE
    BY <2>1 DEF Quiet
  <2>3. WillSeal(inbox[r], r \in sealed)
    BY <2>2, NothingUnderWay
  <2>4. \E e \in Events : Unseals(e) /\ Pending(outbox, e)
    BY <2>1, <2>3 DEF EventsInv, SealOK, Live
  <2> QED BY <2>2, <2>4, NothingUnderWay
<1> QED BY <1>1, EventsInvariant, PTL

\* Once the events are handled every socket has the row's write lock, unless its handshake
\* was overtaken, an event was lost, or one overtook another of its kind.
THEOREM LocksReachEverySocket == Spec => []LocksReachSockets
<1>1. EventsInv => LocksReachSockets
  <2> SUFFICES ASSUME EventsInv, Quiet, ~tomb, NEW u \in Users, client[u].pc = "in", ~late[u],
                      ~Excused({"event lost", "events overtook"})
               PROVE  client[u].readOnly = (row # None /\ row.readOnly /\ row.ownerId # u)
    BY DEF LocksReachSockets
  <2>1. client[u].at \in Replicas /\ client[u].readOnly \in BOOLEAN
    BY DEF EventsInv, LifecycleInv, TypeInv, RoomOK, Sockets
  <2>2. outbox = <<>> /\ inbox[client[u].at] = <<>>
    BY <2>1 DEF Quiet
  <2>3. ~HasLock(outbox) /\ ~HasLock(inbox[client[u].at])
    BY <2>2, NothingUnderWay
  <2>4. Locked(u)
    BY <2>3 DEF EventsInv, LockOK, LocksOK, SocketsHave
  <2> QED BY <2>1, <2>4 DEF Locked, LockOf
<1> QED BY <1>1, EventsInvariant, PTL

----------------------------------------------------------------------------
(* What the save path can see of all this.                                  *)

\* The row and the tombstone say which state a document is in.
LEMMA MetaOfRow ==
  /\ row = None => Meta = IF tomb THEN "purged" ELSE "absent"
  /\ Live => Meta = "live"
  /\ Trashed => Meta = "trashed"
BY DEF Meta, Live, Trashed

LEMMA MetaOfNextRow ==
  /\ row' = None => Meta' = IF tomb' THEN "purged" ELSE "absent"
  /\ (row' # None /\ row'.deletedAt = "null") => Meta' = "live"
  /\ (row' # None /\ row'.deletedAt # "null") => Meta' = "trashed"
BY DEF Meta, Live

\* A row that appears is live: a soft delete, a restore and the retention running out
\* need one that is there, and a flag says nothing of the trash.
LEMMA WritesFacts ==
  ASSUME TypeInv, TypeInv', Writes PROVE Facts!FactsNext
<1> USE NoneAssumption
<1>0. UNCHANGED <<tomb, sealed>>
  BY DEF Writes
<1>1. ASSUME row = None, row' # None, row'.deletedAt = "null" PROVE Facts!FactsNext
  <2>1. Meta # "live" /\ Meta # "trashed" /\ Meta' = "live"
    BY <1>1, MetaOfRow, MetaOfNextRow
  <2> QED BY <1>0, <2>1 DEF Facts!FactsNext, Facts!Anchors, Facts!HasRow
<1>2. ASSUME row # None, row' # None PROVE Facts!FactsNext
  <2>1. Meta \in {"live", "trashed"} /\ Meta' \in {"live", "trashed"}
    BY <1>2, MetaOfRow, MetaOfNextRow DEF Live, Trashed
  <2>2. CASE Meta' = Meta
    BY <1>0, <2>2 DEF Facts!FactsNext, Facts!Unseals
  <2>3. CASE Meta = "live" /\ Meta' = "trashed"
    BY <1>0, <2>3 DEF Facts!FactsNext, Facts!Trashes
  <2>4. CASE Meta = "trashed" /\ Meta' = "live"
    BY <1>0, <2>4 DEF Facts!FactsNext, Facts!Restores
  <2> QED BY <2>1, <2>2, <2>3, <2>4
<1>3. \A u \in Users \cup {None} : NewRow(u) # None /\ NewRow(u).deletedAt = "null"
  BY NewRowType DEF NewRow
<1>4. row' # None
  <2>1. CASE Retimes
    BY <2>1 DEF Retimes, TypeInv, RowOK, Rows, Ages
  <2>2. CASE Reflags
    BY <2>2, WithType DEF Reflags
  <2>3. CASE Creates
    BY <1>3, <2>3 DEF Creates
  <2>4. CASE Ripens
    BY <2>4 DEF Ripens, TypeInv, RowOK, Rows, Ages
  <2> QED BY <2>1, <2>2, <2>3, <2>4 DEF Writes
<1>5. CASE row # None
  BY <1>2, <1>4, <1>5
<1>6. CASE row = None
  <2>1. CASE Reflags
    <3>1. PICK f \in Flags, on \in BOOLEAN, u \in Users \cup {None} : row' = With(NewRow(u), {f}, on)
      BY <1>6, <2>1 DEF Reflags, Rows
    <3>2. row'.deletedAt = "null"
      BY <1>3, <3>1, NewRowType DEF With, Rows
    <3> QED BY <1>1, <1>4, <1>6, <3>2
  <2>2. CASE Creates
    BY <1>1, <1>3, <1>4, <1>6, <2>2 DEF Creates
  <2> QED BY <1>6, <2>1, <2>2 DEF Writes, Retimes, Ripens
<1> QED BY <1>5, <1>6

\* Every step of the lifecycle is one the save path expects, or one it cannot see.
LEMMA FactsStep ==
  ASSUME TypeInv, TypeInv', EventsOK, OneFlagOK, Next PROVE Facts!FactsNext
<1>1. ASSUME UNCHANGED <<row, tomb>>, sealed' \in SUBSET sealed \/
             \E reached \in SUBSET Replicas : sealed' = sealed \cup reached
      PROVE  Facts!FactsNext
  <2>1. Meta' = Meta
    BY <1>1 DEF Meta, Live
  <2> QED BY <1>1, <2>1 DEF Facts!FactsNext, Facts!Seals, Facts!Unseals
<1>2. CASE Erasure
  <2>1. Meta \in {"live", "trashed"} /\ Meta' = "purged" /\ sealed' = sealed
    BY <1>2, MetaOfRow, MetaOfNextRow DEF Erasure, Live, Trashed
  <2> QED BY <2>1 DEF Facts!FactsNext, Facts!Purges, Facts!HasRow
<1>3. ASSUME NEW r \in Replicas, Handles(r) PROVE Facts!FactsNext
  <2>1. sealed' \in {sealed, sealed \cup {r}, sealed \ {r}}
    BY <1>3 DEF Handles, Seal
  <2>2. UNCHANGED <<row, tomb>>
    BY <1>3 DEF Handles, doc
  <2> QED BY <1>1, <2>1, <2>2
<1>4. CASE Delivery
  <2>1. ASSUME NEW i, Publishes(i) \/ PublishFails(i) PROVE UNCHANGED <<row, tomb, sealed>>
    BY <2>1 DEF Publishes, PublishFails, doc, rooms
  <2>2. ASSUME NEW p, Seals(p) PROVE UNCHANGED <<row, tomb, sealed>>
    BY <2>2 DEF Seals, doc, rooms
  <2> QED BY <1>1, <1>3, <1>4, <2>1, <2>2 DEF Delivery
<1>5. ASSUME NEW u \in Users, Handshake(u) PROVE Facts!FactsNext
  <2>1. UNCHANGED <<row, tomb, sealed>>
    BY <1>5 DEF Handshake, ReadsRow, ReadsTombstone, LookupFails, Admits, Disconnects,
       Connects, doc, rooms
  <2> QED BY <1>1, <2>1
<1>6. ASSUME NEW r \in Replicas, Unloads(r) PROVE Facts!FactsNext
  BY <1>1, <1>6 DEF Unloads, doc
<1>7. CASE Still
  BY <1>1, <1>7 DEF Still
<1> QED BY <1>2, <1>4, <1>5, <1>6, <1>7, StepKinds, WritesFacts

\* The lifecycle does to the row, the tombstone and the seals what LifecycleFacts says, and
\* nothing else: what StorePipeline assumes of the world it saves in.
THEOREM LifecycleKeepsItsWord == Spec => ImplementsLifecycleFacts
<1>1. Init => Facts!FactsInit
  <2> SUFFICES ASSUME Init PROVE Facts!FactsInit
    OBVIOUS
  <2>1. Meta \in {"absent", "live", "trashed"}
    BY MetaOfRow DEF Init, Live, Trashed
  <2> QED BY <2>1 DEF Init, Facts!FactsInit, Facts!MetaStates
<1>2. EventsInv /\ EventsInv' /\ [Next]_vars => [Facts!FactsNext]_(Facts!facts)
  <2> SUFFICES ASSUME EventsInv, EventsInv', [Next]_vars
               PROVE  [Facts!FactsNext]_(Facts!facts)
    OBVIOUS
  <2>1. CASE Next
    BY <2>1, FactsStep DEF EventsInv, LifecycleInv
  <2>2. CASE UNCHANGED vars
    BY <2>2 DEF vars, doc, rooms, Facts!facts, Meta, Live
  <2> QED BY <2>1, <2>2
<1> QED
  BY <1>1, <1>2, EventsInvariant, PTL DEF Spec, ImplementsLifecycleFacts, Facts!FactsSpec
=============================================================================
