------------------------ MODULE DocumentLifecycleProofs ------------------------
(***************************************************************************)
(* Proofs about DocumentLifecycle, for every number of users, requests,     *)
(* passes, erasers and replicas, any bounds and any set of faults: types,   *)
(* the handshake's two reads, the owner of a lock, the footprint of what    *)
(* survives its purges, and what the retention pass may erase.              *)
(*                                                                          *)
(* Nothing is said of the events, but that handling one keeps the records   *)
(* of the sockets: what they achieve is in DocumentEventsProofs.            *)
(***************************************************************************)
EXTENDS DocumentLifecycle, TLAPS

Asks ==
  [op: {"idle"}]
    \cup [op: {"setDeletedAt"}, to: {"null", "recent"}]
    \cup [op: {"put"}, by: Users \cup {None}, on: BOOLEAN, read: Rows \cup {None},
          flags: SUBSET Flags]

Sockets ==
  [pc: {"out"}]
    \cup [pc: {"hello", "no row"}, at: Replicas]
    \cup [pc: {"granted", "in"}, at: Replicas, readOnly: BOOLEAN]

RowOK == row \in Rows \cup {None} /\ ask \in [Requests -> Asks]
PurgeOK == purge \in [Purgers -> [stage: Stages, scope: {"retention", "owner", "admin"}]]
RoomOK ==
  /\ sealed \subseteq loaded /\ ensured \subseteq loaded /\ loaded \subseteq Replicas
  /\ client \in [Users -> Sockets]
  /\ \A u \in Users : client[u].pc = "in" => client[u].at \in loaded
BoundsOK ==
  /\ tomb \in BOOLEAN /\ whole \in BOOLEAN /\ lease \in BOOLEAN
  /\ writes \in 0..MaxWrites /\ joins \in 0..MaxJoins /\ faults \in 0..MaxFaults

TypeInv == RowOK /\ PurgeOK /\ RoomOK /\ BoundsOK

\* A handshake that found no row has seen the document open, or it is erased for good.
SeenOf(u) ==
  /\ client[u].pc \in {"granted", "in"} => seen[u]
  /\ client[u].pc = "no row" => tomb \/ seen[u]
SeenOK == \A u \in Users : SeenOf(u)

\* A PUT that will write flags acts for the owner it read, or for the one it creates.
FlagsOK == \A q \in Requests :
  ask[q].op = "put" /\ ask[q].flags # {} =>
    ask[q].by # None /\ (ask[q].read = None \/ ask[q].read.ownerId = ask[q].by)

ScopeOK == \A p \in Sweepers : purge[p].scope = "retention"

\* Past its checks a purge has a row to erase, and a pass an expired one, unless another
\* purge got there first or the row moved.
ChecksOK == \A p \in Purgers : PastItsChecks(p) =>
  /\ row # None \/ tomb
  /\ purge[p].scope = "retention" => Expired \/ tomb \/ Excused({"moved under a purge"})

\* What lost its footprint is erased, being erased, or one of the excused.
FootprintOK ==
  \/ whole \/ tomb
  \/ Excused({"moved under a purge", "purge of a live document failed", "purge failed"})
  \/ \E p \in Purgers : PastItsChecks(p)

LifecycleInv ==
  TypeInv /\ SeenOK /\ FlagsOK /\ LocksHaveOwner /\ ScopeOK /\ ChecksOK /\ FootprintOK

----------------------------------------------------------------------------
(* Types.                                                                   *)

LEMMA NewRowType == ASSUME NEW u \in Users \cup {None} PROVE NewRow(u) \in Rows
  BY DEF NewRow, Rows, Ages

LEMMA WithType ==
  ASSUME NEW r \in Rows, NEW flags, NEW on \in BOOLEAN PROVE With(r, flags, on) \in Rows
  BY DEF With, Rows

LEMMA InitTypes == Init => TypeInv
<1> SUFFICES ASSUME Init PROVE TypeInv
  OBVIOUS
<1>1. RowOK
  <2>1. row \in Rows \cup {None}
    <3>1. ASSUME NEW u \in Requesters
          PROVE NewRow(u) \in Rows /\ [NewRow(u) EXCEPT !.deletedAt = "recent"] \in Rows
      BY LifecycleAssumption DEF NewRow, Rows, Ages
    <3> QED BY <3>1 DEF Init
  <2> QED BY <2>1 DEF Init, RowOK, Asks, Idle
<1>2. PurgeOK
  BY DEF Init, PurgeOK, Stages
<1>3. RoomOK
  BY DEF Init, RoomOK, Sockets, Out
<1>4. BoundsOK
  <2>1. 0 \in 0..MaxWrites /\ 0 \in 0..MaxJoins /\ 0 \in 0..MaxFaults
    BY LifecycleAssumption
  <2> QED BY <2>1 DEF Init, BoundsOK
<1> QED BY <1>1, <1>2, <1>3, <1>4 DEF TypeInv

LEMMA RowStep ==
  ASSUME TypeInv, Next PROVE RowOK'
<1> USE DEF TypeInv, RowOK
<1>1. ASSUME NEW q \in Requests, NEW u \in Requesters, NEW to \in {"null", "recent"},
             SetDeletedAtReads(q, u, to)
      PROVE RowOK'
  BY <1>1 DEF SetDeletedAtReads, doc, Asks
<1>2. ASSUME NEW q \in Requests, SetDeletedAtWrites(q) PROVE RowOK'
  <2>1. ask[q].to \in {"null", "recent"}
    BY <1>2 DEF SetDeletedAtWrites, Asks
  <2> QED BY <1>2, <2>1 DEF SetDeletedAtWrites, Asks, Idle, Rows, Ages
<1>3. ASSUME NEW q \in Requests, NEW u \in Requesters, NEW f \in Flags, NEW on \in BOOLEAN,
             PutReads(q, u, f, on)
      PROVE RowOK'
  <2>1. PutUpdate(u, f, on) \in SUBSET Flags /\ u \in Users \cup {None}
    BY LifecycleAssumption DEF PutUpdate
  <2>2. [op |-> "put", by |-> u, on |-> on, read |-> row, flags |-> PutUpdate(u, f, on)] \in Asks
    BY <2>1 DEF Asks
  <2> QED BY <1>3, <2>2 DEF PutReads, doc
<1>4. ASSUME NEW q \in Requests, PutUpserts(q) PROVE RowOK'
  <2>1. ask[q].by \in Users \cup {None} /\ ask[q].on \in BOOLEAN
    BY <1>4 DEF PutUpserts, Asks
  <2>2. row' \in Rows
    BY <1>4, <2>1, NewRowType, WithType DEF PutUpserts
  <2> QED BY <1>4, <2>2 DEF PutUpserts, Asks, Idle
<1>5. ASSUME NEW f \in Flags, NEW on \in BOOLEAN, AdminSets(f, on) PROVE RowOK'
  BY <1>5, WithType DEF AdminSets
<1>6. CASE Age
  BY <1>6 DEF Age, Rows, Ages
<1>7. ASSUME NEW p \in Purgers, DeletesRow(p) PROVE RowOK'
  BY <1>7 DEF DeletesRow
<1>8. ASSUME NEW u \in Users, NEW r \in Replicas, FirstEdit(u, r) PROVE RowOK'
  <2>1. NewRow(None) \in Rows
    BY NewRowType
  <2> QED BY <1>8, <2>1 DEF FirstEdit
<1>14. CASE WorkerUpserts
  BY <1>14, NewRowType DEF WorkerUpserts
<1>9. CASE UNCHANGED <<row, ask>>
  BY <1>9
<1>10. CASE PurgeStep
  BY <1>7, <1>9, <1>10 DEF PurgeStep, Purgers, StartPass, Rechecks, Asserts, AdminErases,
     OwnerErases, Erases, Clears, Seals, Throws, doc
<1>11. CASE EventStep
  BY <1>9, <1>11 DEF EventStep, Publishes, PublishFails, Handles, doc
<1>12. CASE RoomStep
  BY <1>8, <1>9, <1>12 DEF RoomStep, ReadsRow, ReadsTombstone, LookupFails, Admits,
     Disconnects, Connects, Unloads, doc
<1>13. CASE LeaseExpires
  BY <1>9, <1>13 DEF LeaseExpires, doc
<1> QED BY <1>1, <1>2, <1>3, <1>4, <1>5, <1>6, <1>10, <1>11, <1>12, <1>13,
         <1>14
        DEF Next, RequestStep

LEMMA PurgeTypeStep ==
  ASSUME TypeInv, Next PROVE PurgeOK'
<1> USE DEF TypeInv, PurgeOK
<1>0. ASSUME NEW p \in Purgers, NEW stage \in Stages, Goes(p, stage) PROVE PurgeOK'
  BY <1>0 DEF Goes
<1>a. ASSUME NEW p \in Sweepers, StartPass(p) \/ Rechecks(p) \/ Asserts(p) PROVE PurgeOK'
  BY <1>0, <1>a DEF StartPass, Rechecks, Asserts, Stages, Purgers
<1>b. ASSUME NEW d \in Erasers, NEW scope \in {"owner", "admin"}, Erases(d, scope)
      PROVE PurgeOK'
  BY <1>b DEF Erases, Stages, Purgers
<1>c. ASSUME NEW p \in Purgers, Clears(p) \/ Seals(p) \/ DeletesRow(p) \/ Throws(p)
      PROVE PurgeOK'
  BY <1>0, <1>c DEF Clears, Seals, DeletesRow, Throws, Stages
<1>1. CASE PurgeStep
  BY <1>1, <1>a, <1>b, <1>c DEF PurgeStep, AdminErases, OwnerErases
<1>2. CASE RequestStep
  BY <1>2 DEF RequestStep, SetDeletedAtReads, SetDeletedAtWrites, PutReads, PutUpserts,
     AdminSets
<1>3. CASE EventStep
  BY <1>3 DEF EventStep, Publishes, PublishFails, Handles
<1>4. CASE RoomStep
  BY <1>4 DEF RoomStep, ReadsRow, ReadsTombstone, LookupFails, Admits, Disconnects, Connects,
     Unloads, FirstEdit
<1>5. CASE LeaseExpires \/ Age \/ WorkerUpserts
  BY <1>5 DEF LeaseExpires, Age, WorkerUpserts
<1> QED BY <1>1, <1>2, <1>3, <1>4, <1>5 DEF Next

LEMMA BoundsStep ==
  ASSUME TypeInv, Next PROVE BoundsOK'
<1> USE LifecycleAssumption DEF TypeInv, BoundsOK, doc, spent
<1>0. ASSUME NEW kind, Fault(kind) PROVE faults' \in 0..MaxFaults
  BY <1>0 DEF Fault
<1>1. CASE PurgeStep
  <2>1. ASSUME NEW p \in Sweepers, StartPass(p) \/ Rechecks(p) \/ Asserts(p) PROVE BoundsOK'
    BY <1>0, <2>1 DEF StartPass, Rechecks, Asserts
  <2>2. ASSUME NEW d \in Erasers, NEW scope, Erases(d, scope) PROVE BoundsOK'
    BY <2>2 DEF Erases
  <2>3. ASSUME NEW p \in Purgers, Clears(p) \/ Seals(p) \/ DeletesRow(p) \/ Throws(p)
        PROVE BoundsOK'
    BY <1>0, <2>3 DEF Clears, Seals, DeletesRow, Throws
  <2> QED BY <1>1, <2>1, <2>2, <2>3 DEF PurgeStep, AdminErases, OwnerErases
<1>2. CASE RequestStep
  <2>1. ASSUME NEW q \in Requests, NEW u, NEW to, SetDeletedAtReads(q, u, to) PROVE BoundsOK'
    BY <2>1 DEF SetDeletedAtReads
  <2>2. ASSUME NEW q \in Requests, SetDeletedAtWrites(q) \/ PutUpserts(q) PROVE BoundsOK'
    BY <2>2 DEF SetDeletedAtWrites, PutUpserts
  <2>3. ASSUME NEW q \in Requests, NEW u, NEW f, NEW on, PutReads(q, u, f, on) PROVE BoundsOK'
    BY <2>3 DEF PutReads
  <2>4. ASSUME NEW f, NEW on, AdminSets(f, on) PROVE BoundsOK'
    <3>1. /\ writes < MaxWrites /\ writes' = writes + 1
          /\ UNCHANGED <<tomb, whole, lease, joins, faults>>
      BY <2>4 DEF AdminSets
    <3> QED BY <3>1
  <2> QED BY <1>2, <2>1, <2>2, <2>3, <2>4 DEF RequestStep
<1>3. CASE EventStep
  <2>1. ASSUME NEW i, Publishes(i) \/ PublishFails(i) PROVE BoundsOK'
    BY <1>0, <2>1 DEF Publishes, PublishFails
  <2>2. ASSUME NEW r, Handles(r) PROVE BoundsOK'
    BY <2>2 DEF Handles
  <2> QED BY <1>3, <2>1, <2>2 DEF EventStep
<1>4. CASE RoomStep
  <2>1. ASSUME NEW u, ReadsRow(u) \/ ReadsTombstone(u) \/ LookupFails(u) \/ Admits(u)
                      \/ Disconnects(u)
        PROVE BoundsOK'
    BY <1>0, <2>1 DEF ReadsRow, ReadsTombstone, LookupFails, Admits, Disconnects
  <2>2. ASSUME NEW u, NEW r, Connects(u, r) PROVE BoundsOK'
    BY <2>2 DEF Connects
  <2>3. ASSUME NEW u, NEW r, FirstEdit(u, r) PROVE BoundsOK'
    BY <1>0, <2>3 DEF FirstEdit
  <2>4. ASSUME NEW r, Unloads(r) PROVE BoundsOK'
    BY <2>4 DEF Unloads
  <2> QED BY <1>4, <2>1, <2>2, <2>3, <2>4 DEF RoomStep
<1>5. CASE LeaseExpires \/ Age
  BY <1>5 DEF LeaseExpires, Age
<1>6. CASE WorkerUpserts
  <2>1. /\ writes < MaxWrites /\ writes' = writes + 1
        /\ UNCHANGED <<tomb, whole, lease, joins, faults>>
    BY <1>6 DEF WorkerUpserts
  <2> QED BY <2>1
<1> QED BY <1>1, <1>2, <1>3, <1>4, <1>5, <1>6 DEF Next

LEMMA RoomTypeStep ==
  ASSUME TypeInv, Next PROVE RoomOK'
<1> USE DEF TypeInv, RoomOK
<1>0. CASE UNCHANGED <<rooms, client>>
  BY <1>0 DEF rooms
<1>1. CASE PurgeStep
  BY <1>0, <1>1 DEF PurgeStep, Purgers, StartPass, Rechecks, Asserts, AdminErases, OwnerErases,
     Erases, Clears, Seals, DeletesRow, Throws
<1>2. CASE RequestStep
  BY <1>0, <1>2 DEF RequestStep, SetDeletedAtReads, SetDeletedAtWrites, PutReads, PutUpserts,
     AdminSets
<1>3. CASE EventStep
  <2>1. ASSUME NEW r \in Replicas, Handles(r) PROVE RoomOK'
    <3>1. CASE r \notin loaded
      BY <1>0, <2>1, <3>1 DEF Handles, rooms
    <3>2. CASE r \in loaded
      <4> DEFINE e == Head(inbox[r])
      <4>1. /\ sealed' = Seal(e, r) /\ UNCHANGED <<loaded, ensured>>
            /\ client' = [u \in Users |->
                 IF u \in Closes(e, r) THEN Out
                 ELSE IF In(u, r) THEN Lock(e, client[u], u) ELSE client[u]]
        BY <2>1, <3>2 DEF Handles
      <4>2. sealed' \subseteq loaded
        BY <3>2, <4>1 DEF Seal
      <4>3. ASSUME NEW u \in Users, In(u, r)
            PROVE Lock(e, client[u], u) \in Sockets /\ Lock(e, client[u], u).pc = "in"
                  /\ Lock(e, client[u], u).at = client[u].at
        BY <4>3 DEF Lock, In, Sockets
      <4>4. ASSUME NEW u \in Users
            PROVE client'[u] \in Sockets /\ (client'[u].pc = "in" => client'[u].at \in loaded)
        <5>1. Out \in Sockets /\ Out.pc # "in"
          BY DEF Out, Sockets
        <5>2. CASE u \in Closes(e, r)
          BY <4>1, <5>1, <5>2
        <5>3. CASE u \notin Closes(e, r) /\ In(u, r)
          <6>1. client'[u] = Lock(e, client[u], u)
            BY <4>1, <5>3
          <6> QED BY <4>3, <5>3, <6>1 DEF In
        <5>4. CASE u \notin Closes(e, r) /\ ~In(u, r)
          BY <4>1, <5>4
        <5> QED BY <5>2, <5>3, <5>4
      <4> HIDE DEF e
      <4> QED BY <4>1, <4>2, <4>4
    <3> QED BY <3>1, <3>2
  <2> QED BY <1>0, <1>3, <2>1 DEF EventStep, Publishes, PublishFails
<1>4. CASE RoomStep
  <2>1. ASSUME NEW u \in Users, NEW r \in Replicas, Connects(u, r) PROVE RoomOK'
    BY <2>1 DEF Connects, Client, rooms, Sockets
  <2>2. ASSUME NEW u \in Users, ReadsRow(u) PROVE RoomOK'
    BY <2>2 DEF ReadsRow, Client, rooms, Sockets, Granted, Out
  <2>3. ASSUME NEW u \in Users, ReadsTombstone(u) PROVE RoomOK'
    BY <2>3 DEF ReadsTombstone, Client, rooms, Sockets, Granted, Out
  <2>4. ASSUME NEW u \in Users, LookupFails(u) \/ Disconnects(u) PROVE RoomOK'
    <3>1. Out \in Sockets /\ Out.pc # "in"
      BY DEF Out, Sockets
    <3> QED BY <2>4, <3>1 DEF LookupFails, Disconnects, Client, rooms
  <2>5. ASSUME NEW u \in Users, Admits(u) PROVE RoomOK'
    <3>1. client[u].at \in Replicas /\ [client[u] EXCEPT !.pc = "in"] \in Sockets
      BY <2>5 DEF Admits, Sockets
    <3> QED BY <2>5, <3>1 DEF Admits, Client
  <2>6. ASSUME NEW r \in Replicas, Unloads(r) PROVE RoomOK'
    BY <2>6 DEF Unloads, SocketsOf, In
  <2>7. ASSUME NEW u \in Users, NEW r \in Replicas, FirstEdit(u, r) PROVE RoomOK'
    BY <2>7 DEF FirstEdit, In
  <2> QED BY <1>4, <2>1, <2>2, <2>3, <2>4, <2>5, <2>6, <2>7 DEF RoomStep
<1>5. CASE LeaseExpires \/ Age \/ WorkerUpserts
  BY <1>0, <1>5 DEF LeaseExpires, Age, WorkerUpserts
<1> QED BY <1>1, <1>2, <1>3, <1>4, <1>5 DEF Next
LEMMA TypeStep == TypeInv /\ [Next]_vars => TypeInv'
<1>1. ASSUME TypeInv, UNCHANGED vars PROVE TypeInv'
  BY <1>1 DEF vars, doc, rooms, spent, TypeInv, RowOK, PurgeOK, RoomOK, BoundsOK
<1> QED BY <1>1, RowStep, PurgeTypeStep, RoomTypeStep, BoundsStep DEF TypeInv

----------------------------------------------------------------------------
(* The handshake.                                                           *)

\* Only its own handshake moves a socket forward.
LEMMA SeenStep ==
  ASSUME TypeInv, SeenOK, Next PROVE SeenOK'
<1> USE DEF SeenOK
<1>1. ASSUME tomb PROVE tomb'
  BY <1>1 DEF Next, RequestStep, PurgeStep, EventStep, RoomStep, SetDeletedAtReads,
     SetDeletedAtWrites, PutReads, PutUpserts, AdminSets, StartPass, Rechecks, Asserts,
     AdminErases, OwnerErases, Erases, Clears, Seals, DeletesRow, Throws, Publishes,
     PublishFails, Handles, ReadsRow, ReadsTombstone, LookupFails, Admits, Disconnects,
     Connects, Unloads, FirstEdit, LeaseExpires, Age, WorkerUpserts, doc
<1>2. ASSUME NEW u \in Users,
             \/ client'[u] = client[u] \/ client'[u].pc \in {"out", "hello"}
             \/ client[u].pc \in {"granted", "in"} /\ client'[u].pc = "in"
      PROVE SeenOf(u)'
  BY <1>1, <1>2 DEF Next, Observe, SeenOf
<1>3. CASE UNCHANGED client
  BY <1>2, <1>3
<1>4. ASSUME NEW r \in Replicas, Handles(r) PROVE SeenOK'
  <2>1. CASE r \notin loaded
    BY <1>3, <1>4, <2>1 DEF Handles
  <2>2. CASE r \in loaded
    <3> DEFINE e == Head(inbox[r])
    <3>1. client' = [u \in Users |->
            IF u \in Closes(e, r) THEN Out
            ELSE IF In(u, r) THEN Lock(e, client[u], u) ELSE client[u]]
      BY <1>4, <2>2 DEF Handles
    <3>2. ASSUME NEW u \in Users, In(u, r) PROVE Lock(e, client[u], u).pc = "in"
      BY <3>2 DEF Lock, In, Sockets, TypeInv, RoomOK
    <3> HIDE DEF e
    <3>3. ASSUME NEW u \in Users
          PROVE \/ client'[u] = client[u] \/ client'[u].pc = "out"
                \/ client[u].pc = "in" /\ client'[u].pc = "in"
      <4>1. Out.pc = "out"
        BY DEF Out
      <4>2. In(u, r) => client[u].pc = "in"
        BY DEF In
      <4> QED BY <3>1, <3>2, <4>1, <4>2
    <3> QED BY <1>2, <3>3
  <2> QED BY <2>1, <2>2
<1>5. CASE RoomStep
  <2>0. ASSUME NEW v \in Users, NEW c, Client(v, c), SeenOf(v)' PROVE SeenOK'
    <3>1. \A u \in Users \ {v} : client'[u] = client[u]
      BY <2>0 DEF Client, TypeInv, RoomOK
    <3> QED BY <1>2, <2>0, <3>1
  <2>1. ASSUME NEW u \in Users, NEW r \in Replicas, Connects(u, r) PROVE SeenOK'
    <3>1. client'[u].pc = "hello"
      BY <2>1 DEF Connects, Client, TypeInv, RoomOK
    <3> QED BY <1>2, <2>0, <2>1, <3>1 DEF Connects
  <2>2. ASSUME NEW u \in Users, ReadsRow(u) PROVE SeenOK'
    <3>1. CASE row = None
      <4>1. client'[u].pc = "no row" /\ row' = row /\ tomb' = tomb
        BY <2>2, <3>1 DEF ReadsRow, Client, TypeInv, RoomOK, Sockets, doc
      <4>2. SeenOf(u)'
        BY <3>1, <4>1 DEF Next, Observe, SeenOf, OpenTo, TypeInv, BoundsOK
      <4> QED BY <2>0, <2>2, <4>2 DEF ReadsRow
    <3>2. CASE row # None /\ OpenTo(u)
      <4>1. client'[u].pc = "granted" /\ client[u].pc = "hello"
        BY <2>2, <3>2 DEF ReadsRow, Client, Granted, TypeInv, RoomOK
      <4>2. SeenOf(u)'
        BY <3>2, <4>1 DEF Next, Observe, SeenOf
      <4> QED BY <2>0, <2>2, <4>2 DEF ReadsRow
    <3>3. CASE row # None /\ ~OpenTo(u)
      <4>1. client'[u].pc = "out"
        BY <2>2, <3>3 DEF ReadsRow, Client, Out, TypeInv, RoomOK
      <4> QED BY <1>2, <2>0, <2>2, <4>1 DEF ReadsRow
    <3> QED BY <3>1, <3>2, <3>3
  <2>3. ASSUME NEW u \in Users, ReadsTombstone(u) PROVE SeenOK'
    <3>1. CASE tomb
      <4>1. client'[u].pc = "out"
        BY <2>3, <3>1 DEF ReadsTombstone, Client, Out, TypeInv, RoomOK
      <4> QED BY <1>2, <2>0, <2>3, <4>1 DEF ReadsTombstone
    <3>2. CASE ~tomb
      <4>1. client'[u].pc = "granted" /\ seen[u]
        BY <2>3, <3>2 DEF ReadsTombstone, Client, Granted, TypeInv, RoomOK, SeenOf
      <4>2. SeenOf(u)'
        BY <4>1 DEF Next, Observe, SeenOf
      <4> QED BY <2>0, <2>3, <4>2 DEF ReadsTombstone
    <3> QED BY <3>1, <3>2
  <2>4. ASSUME NEW u \in Users, LookupFails(u) \/ Disconnects(u) PROVE SeenOK'
    <3>1. Client(u, Out)
      BY <2>4 DEF LookupFails, Disconnects
    <3>2. client'[u].pc = "out"
      BY <3>1 DEF Client, Out, TypeInv, RoomOK
    <3> QED BY <1>2, <2>0, <3>1, <3>2
  <2>5. ASSUME NEW u \in Users, Admits(u) PROVE SeenOK'
    <3>1. client[u].pc = "granted" /\ client'[u].pc = "in"
      BY <2>5 DEF Admits, Client, TypeInv, RoomOK, Sockets
    <3> QED BY <1>2, <2>0, <2>5, <3>1 DEF Admits
  <2>6. ASSUME NEW r, Unloads(r) PROVE SeenOK'
    BY <1>3, <2>6 DEF Unloads
  <2>7. ASSUME NEW u, NEW r, FirstEdit(u, r) PROVE SeenOK'
    BY <1>3, <2>7 DEF FirstEdit
  <2> QED BY <1>5, <2>1, <2>2, <2>3, <2>4, <2>5, <2>6, <2>7 DEF RoomStep
<1>6. CASE EventStep
  BY <1>3, <1>4, <1>6 DEF EventStep, Publishes, PublishFails
<1>7. CASE PurgeStep
  BY <1>3, <1>7 DEF PurgeStep, StartPass, Rechecks, Asserts, AdminErases, OwnerErases, Erases,
     Clears, Seals, DeletesRow, Throws
<1>8. CASE RequestStep
  BY <1>3, <1>8 DEF RequestStep, SetDeletedAtReads, SetDeletedAtWrites, PutReads, PutUpserts,
     AdminSets
<1>9. CASE LeaseExpires \/ Age \/ WorkerUpserts
  BY <1>3, <1>9 DEF LeaseExpires, Age, WorkerUpserts
<1> QED BY <1>5, <1>6, <1>7, <1>8, <1>9 DEF Next

----------------------------------------------------------------------------
(* Locks.                                                                   *)

LEMMA FlagsStep ==
  ASSUME TypeInv, FlagsOK, Next PROVE FlagsOK'
<1> USE DEF FlagsOK, TypeInv, RowOK
<1>1. ASSUME NEW q \in Requests, NEW u \in Requesters, NEW to, SetDeletedAtReads(q, u, to)
      PROVE FlagsOK'
  BY <1>1 DEF SetDeletedAtReads
<1>2. ASSUME NEW q \in Requests, SetDeletedAtWrites(q) \/ PutUpserts(q) PROVE FlagsOK'
  <2>1. ask' = [ask EXCEPT ![q] = Idle]
    BY <1>2 DEF SetDeletedAtWrites, PutUpserts
  <2>2. Idle.op # "put"
    BY DEF Idle
  <2> QED BY <2>1, <2>2
<1>3. ASSUME NEW q \in Requests, NEW u \in Requesters, NEW f \in Flags, NEW on \in BOOLEAN,
             PutReads(q, u, f, on)
      PROVE FlagsOK'
  <2>1. PutUpdate(u, f, on) # {} => u # None /\ (row = None \/ row.ownerId = u)
    BY DEF PutUpdate
  <2> QED BY <1>3, <2>1 DEF PutReads
<1>4. CASE UNCHANGED ask
  BY <1>4
<1>5. CASE RequestStep
  BY <1>1, <1>2, <1>3, <1>4, <1>5 DEF RequestStep, AdminSets
<1>6. CASE PurgeStep
  BY <1>4, <1>6 DEF PurgeStep, StartPass, Rechecks, Asserts, AdminErases, OwnerErases, Erases,
     Clears, Seals, DeletesRow, Throws
<1>7. CASE EventStep
  BY <1>4, <1>7 DEF EventStep, Publishes, PublishFails, Handles
<1>8. CASE RoomStep
  BY <1>4, <1>8 DEF RoomStep, ReadsRow, ReadsTombstone, LookupFails, Admits, Disconnects,
     Connects, Unloads, FirstEdit
<1>9. CASE LeaseExpires \/ Age \/ WorkerUpserts
  BY <1>4, <1>9 DEF LeaseExpires, Age, WorkerUpserts
<1> QED BY <1>5, <1>6, <1>7, <1>8, <1>9 DEF Next

\* Accidents are not forgotten.
LEMMA MishapsGrow == Next => mishaps \subseteq mishaps'
<1> SUFFICES ASSUME Next PROVE mishaps \subseteq mishaps'
  OBVIOUS
<1>1. ASSUME NEW a, NEW happened, Note(a, happened) PROVE mishaps \subseteq mishaps'
  BY <1>1 DEF Note
<1>2. CASE RequestStep
  BY <1>1, <1>2 DEF RequestStep, SetDeletedAtReads, SetDeletedAtWrites, PutReads, PutUpserts,
     AdminSets
<1>3. CASE PurgeStep
  BY <1>1, <1>3 DEF PurgeStep, StartPass, Rechecks, Asserts, AdminErases, OwnerErases, Erases,
     Clears, Seals, DeletesRow, Throws
<1>4. CASE EventStep
  BY <1>1, <1>4 DEF EventStep, Publishes, PublishFails, Handles
<1>5. CASE RoomStep
  BY <1>5 DEF RoomStep, ReadsRow, ReadsTombstone, LookupFails, Admits, Disconnects,
     Connects, Unloads, FirstEdit
<1>6. CASE LeaseExpires \/ Age \/ WorkerUpserts
  BY <1>6 DEF LeaseExpires, Age, WorkerUpserts
<1> QED BY <1>2, <1>3, <1>4, <1>5, <1>6 DEF Next

LEMMA LocksStep ==
  ASSUME TypeInv, FlagsOK, LocksHaveOwner, Next PROVE LocksHaveOwner'
<1> USE DEF LocksHaveOwner, Excused
<1>0. mishaps \subseteq mishaps'
  BY MishapsGrow
<1>1. CASE UNCHANGED row
  BY <1>0, <1>1
<1>2. ASSUME NEW q \in Requests, SetDeletedAtWrites(q) PROVE LocksHaveOwner'
  BY <1>0, <1>1, <1>2 DEF SetDeletedAtWrites, TypeInv, RowOK, Rows
<1>3. ASSUME NEW q \in Requests, PutUpserts(q) PROVE LocksHaveOwner'
  <2>1. ask[q].op = "put" /\ ask[q].by \in Users \cup {None}
    BY <1>3 DEF PutUpserts, TypeInv, RowOK, Asks
  <2>2. CASE ask[q].flags = {}
    <3>1. CASE row = None
      <4>1. row'.isPrivate = FALSE /\ row'.readOnly = FALSE
        BY <1>3, <2>2, <3>1 DEF PutUpserts, With, NewRow
      <4> QED BY <4>1
    <3>2. CASE row # None
      <4>1. /\ row'.isPrivate = row.isPrivate /\ row'.readOnly = row.readOnly
            /\ row'.ownerId = row.ownerId
        BY <1>3, <2>2, <3>2 DEF PutUpserts, With, TypeInv, RowOK, Rows
      <4> QED BY <1>0, <3>2, <4>1
    <3> QED BY <3>1, <3>2
  <2>3. CASE ask[q].flags # {}
    <3>1. ask[q].by # None /\ (ask[q].read = None \/ ask[q].read.ownerId = ask[q].by)
      BY <2>1, <2>3 DEF FlagsOK
    <3>2. CASE row = None
      <4>1. row'.ownerId = ask[q].by
        BY <1>3, <3>2 DEF PutUpserts, With, NewRow
      <4> QED BY <3>1, <4>1
    <3>3. CASE row # None
      <4>1. row'.ownerId = row.ownerId
        BY <1>3, <3>3 DEF PutUpserts, With, TypeInv, RowOK, Rows
      <4>2. row.ownerId = None => "anchored under a PUT" \in mishaps'
        BY <1>3, <3>1, <3>3 DEF PutUpserts, Note
      <4> QED BY <4>1, <4>2
    <3> QED BY <3>2, <3>3
  <2> QED BY <2>2, <2>3
<1>4. ASSUME NEW f \in Flags, NEW on \in BOOLEAN, AdminSets(f, on) PROVE LocksHaveOwner'
  <2>1. row'.ownerId = row.ownerId
    BY <1>4 DEF AdminSets, With, TypeInv, RowOK, Rows
  <2>2. row.ownerId = None => "locked by an admin" \in mishaps'
    BY <1>4 DEF AdminSets, Note
  <2> QED BY <2>1, <2>2
<1>5. CASE Age
  BY <1>0, <1>5 DEF Age, TypeInv, RowOK, Rows
<1>6. ASSUME NEW p \in Purgers, DeletesRow(p) PROVE LocksHaveOwner'
  BY <1>1, <1>6 DEF DeletesRow
<1>7. ASSUME WorkerUpserts \/ \E u \in Users, r \in Replicas : FirstEdit(u, r)
      PROVE LocksHaveOwner'
  <2>1. row' = row \/ row' = NewRow(None)
    BY <1>7 DEF FirstEdit, WorkerUpserts
  <2>2. NewRow(None).isPrivate = FALSE /\ NewRow(None).readOnly = FALSE
    BY DEF NewRow
  <2> QED BY <1>0, <2>1, <2>2
<1>8. CASE RequestStep
  BY <1>1, <1>2, <1>3, <1>4, <1>8 DEF RequestStep, SetDeletedAtReads, PutReads, doc
<1>9. CASE PurgeStep
  BY <1>1, <1>6, <1>9 DEF PurgeStep, StartPass, Rechecks, Asserts, AdminErases, OwnerErases,
     Erases, Clears, Seals, Throws, doc
<1>10. CASE EventStep
  BY <1>1, <1>10 DEF EventStep, Publishes, PublishFails, Handles, doc
<1>11. CASE RoomStep
  BY <1>1, <1>7, <1>11 DEF RoomStep, ReadsRow, ReadsTombstone, LookupFails, Admits, Disconnects,
     Connects, Unloads, doc
<1>12. CASE LeaseExpires
  BY <1>1, <1>12 DEF LeaseExpires, doc
<1> QED BY <1>5, <1>7, <1>8, <1>9, <1>10, <1>11, <1>12 DEF Next

----------------------------------------------------------------------------
(* Purges.                                                                  *)

LEMMA ScopeStep ==
  ASSUME TypeInv, ScopeOK, Next PROVE ScopeOK'
<1> USE DEF ScopeOK, TypeInv, PurgeOK, Purgers
<1>0. CASE UNCHANGED purge
  BY <1>0
<1>1. ASSUME NEW p \in Purgers, NEW stage, Goes(p, stage) PROVE ScopeOK'
  BY <1>1 DEF Goes
<1>2. ASSUME NEW d \in Erasers, NEW scope, Erases(d, scope) PROVE ScopeOK'
  BY <1>2, LifecycleAssumption DEF Erases
<1>3. CASE PurgeStep
  BY <1>1, <1>2, <1>3 DEF PurgeStep, StartPass, Rechecks, Asserts, AdminErases, OwnerErases,
     Clears, Seals, DeletesRow, Throws
<1>4. CASE RequestStep
  BY <1>0, <1>4 DEF RequestStep, SetDeletedAtReads, SetDeletedAtWrites, PutReads, PutUpserts,
     AdminSets
<1>5. CASE EventStep
  BY <1>0, <1>5 DEF EventStep, Publishes, PublishFails, Handles
<1>6. CASE RoomStep
  BY <1>0, <1>6 DEF RoomStep, ReadsRow, ReadsTombstone, LookupFails, Admits, Disconnects,
     Connects, Unloads, FirstEdit
<1>7. CASE LeaseExpires \/ Age \/ WorkerUpserts
  BY <1>0, <1>7 DEF LeaseExpires, Age, WorkerUpserts
<1> QED BY <1>3, <1>4, <1>5, <1>6, <1>7 DEF Next

\* What a step that is not a purge's does to the row: it stays, it moves where a purge
\* would see an accident, or it is one there was not.
RowMoves ==
  \/ row' = row
  \/ row # None /\ row' # None /\ row'.deletedAt = row.deletedAt
  \/ row # None /\ row' # None /\ row'.deletedAt = "expired"
  \/ row = None /\ row' # None
  \/ /\ row # None /\ row' # None
     /\ (\E p \in Purgers : PastItsChecks(p)) => "moved under a purge" \in mishaps'

LEMMA OthersMoveRow ==
  ASSUME TypeInv, Next, ~PurgeStep
  PROVE RowMoves /\ UNCHANGED <<tomb, whole, purge>>
<1> USE DEF TypeInv, RowOK
<1> DEFINE Moves == RowMoves /\ UNCHANGED <<tomb, whole, purge>>
<1>1. ASSUME NEW q \in Requests, SetDeletedAtWrites(q) PROVE Moves
  <2>1. CASE row = None
    BY <1>1, <2>1 DEF SetDeletedAtWrites, RowMoves
  <2>2. CASE row # None
    <3>1. ask[q].to \in {"null", "recent"}
      BY <1>1 DEF SetDeletedAtWrites, Asks
    <3>2. row' \in Rows
      BY <1>1, <2>2, <3>1 DEF SetDeletedAtWrites, Rows, Ages
    <3>3. row' # None
      BY <3>2, NoneAssumption
    <3> QED BY <1>1, <2>2, <3>3 DEF SetDeletedAtWrites, Note, RowMoves
  <2> QED BY <2>1, <2>2
<1>2. ASSUME NEW q \in Requests, PutUpserts(q) PROVE Moves
  <2>1. ask[q].by \in Users \cup {None} /\ ask[q].on \in BOOLEAN
    BY <1>2 DEF PutUpserts, Asks
  <2>2. row' # None
    BY <1>2, <2>1, NewRowType, WithType, NoneAssumption DEF PutUpserts
  <2>3. row # None => row'.deletedAt = row.deletedAt
    BY <1>2 DEF PutUpserts, With, Rows
  <2> QED BY <1>2, <2>2, <2>3 DEF PutUpserts, RowMoves
<1>3. ASSUME NEW f \in Flags, NEW on \in BOOLEAN, AdminSets(f, on) PROVE Moves
  <2>0. row \in Rows /\ row' = With(row, {f}, on)
    BY <1>3 DEF AdminSets
  <2>1. row' # None
    BY <2>0, WithType, NoneAssumption
  <2>2. row'.deletedAt = row.deletedAt
    BY <2>0 DEF With, Rows
  <2> QED BY <1>3, <2>1, <2>2 DEF AdminSets, RowMoves
<1>4. CASE Age
  <2>1. row # None /\ row' # None /\ row'.deletedAt = "expired"
    BY <1>4, NoneAssumption DEF Age, Rows, Ages
  <2> QED BY <1>4, <2>1 DEF Age, RowMoves
<1>5. ASSUME WorkerUpserts \/ \E u \in Users, r \in Replicas : FirstEdit(u, r) PROVE Moves
  <2>1. NewRow(None) # None
    BY NewRowType, NoneAssumption
  <2> QED BY <1>5, <2>1 DEF FirstEdit, WorkerUpserts, RowMoves
<1>6. CASE UNCHANGED <<row, tomb, whole, purge>>
  BY <1>6 DEF RowMoves
<1>7. CASE RequestStep
  BY <1>1, <1>2, <1>3, <1>6, <1>7 DEF RequestStep, SetDeletedAtReads, PutReads, doc
<1>8. CASE EventStep
  BY <1>6, <1>8 DEF EventStep, Publishes, PublishFails, Handles, doc
<1>9. CASE RoomStep
  BY <1>5, <1>6, <1>9 DEF RoomStep, ReadsRow, ReadsTombstone, LookupFails, Admits, Disconnects,
     Connects, Unloads, doc
<1>10. CASE LeaseExpires
  BY <1>6, <1>10 DEF LeaseExpires, doc
<1> QED BY <1>4, <1>5, <1>7, <1>8, <1>9, <1>10 DEF Next

LEMMA ChecksStep ==
  ASSUME TypeInv, ChecksOK, Next PROVE ChecksOK'
<1> USE DEF TypeInv, PurgeOK, BoundsOK
<1>0. mishaps \subseteq mishaps'
  BY MishapsGrow
<1>1. CASE ~PurgeStep
  <2>1. RowMoves /\ UNCHANGED <<tomb, whole, purge>>
    BY <1>1, OthersMoveRow
  <2> QED BY <1>0, <2>1 DEF ChecksOK, RowMoves, PastItsChecks, Expired, Excused
\* A purge's step that leaves the document alone and takes p to a stage its own record
\* already answers for.
<1>2. ASSUME NEW p \in Purgers, NEW stage, Goes(p, stage), UNCHANGED <<row, tomb>>,
             \/ stage \notin {"asserted", "cleared", "sealed"}
             \/ PastItsChecks(p)
             \/ Expired
      PROVE ChecksOK'
  BY <1>0, <1>2 DEF ChecksOK, Goes, PastItsChecks, Expired, Excused
<1>3. CASE PurgeStep
  <2>1. ASSUME NEW p \in Sweepers, StartPass(p) \/ Rechecks(p) PROVE ChecksOK'
    BY <1>2, <2>1 DEF StartPass, Rechecks, doc, Purgers
  <2>2. ASSUME NEW p \in Sweepers, Asserts(p) PROVE ChecksOK'
    BY <1>2, <2>2 DEF Asserts, doc, Purgers
  <2>3. ASSUME NEW d \in Erasers, NEW scope \in {"owner", "admin"}, Erases(d, scope), row # None
        PROVE ChecksOK'
    BY <1>0, <2>3 DEF Erases, doc, ChecksOK, PastItsChecks, Expired, Excused, Purgers
  <2>4. ASSUME NEW p \in Purgers, Clears(p) \/ Seals(p) \/ Throws(p) PROVE ChecksOK'
    <3>1. CASE Clears(p)
      BY <1>2, <3>1 DEF Clears, At, PastItsChecks
    <3>2. CASE Seals(p)
      BY <1>2, <3>2 DEF Seals, At, PastItsChecks, doc
    <3>3. CASE Throws(p)
      BY <1>2, <3>3 DEF Throws, doc
    <3> QED BY <2>4, <3>1, <3>2, <3>3
  <2>5. ASSUME NEW p \in Purgers, DeletesRow(p) PROVE ChecksOK'
    <3>1. CASE UNCHANGED <<row, tomb>>
      BY <1>2, <2>5, <3>1 DEF DeletesRow
    <3>2. CASE tomb' = TRUE
      BY <3>2 DEF ChecksOK
    <3> QED BY <2>5, <3>1, <3>2 DEF DeletesRow
  <2> QED BY <1>3, <2>1, <2>2, <2>3, <2>4, <2>5
          DEF PurgeStep, AdminErases, OwnerErases, Owns
<1> QED BY <1>1, <1>3

LEMMA FootprintStep ==
  ASSUME TypeInv, ScopeOK, ChecksOK, FootprintOK, Next PROVE FootprintOK'
<1> USE DEF TypeInv, PurgeOK, BoundsOK
<1>0. mishaps \subseteq mishaps'
  BY MishapsGrow
<1>1. CASE ~PurgeStep
  <2>1. UNCHANGED <<tomb, whole, purge>>
    BY <1>1, OthersMoveRow
  <2> QED BY <1>0, <2>1 DEF FootprintOK, PastItsChecks, Excused
\* A step of purge p that leaves every other purge alone.
<1>2. ASSUME NEW p \in Purgers, NEW stage, Goes(p, stage), UNCHANGED <<tomb, whole>>,
             PastItsChecks(p) => stage \in {"asserted", "cleared", "sealed"}
      PROVE FootprintOK'
  BY <1>0, <1>2 DEF FootprintOK, Goes, PastItsChecks, Excused
<1>3. CASE PurgeStep
  <2>1. ASSUME NEW p \in Sweepers, StartPass(p) \/ Rechecks(p) \/ Asserts(p) PROVE FootprintOK'
    BY <1>2, <2>1 DEF StartPass, Rechecks, Asserts, At, PastItsChecks, doc, Purgers
  <2>2. ASSUME NEW d \in Erasers, NEW scope, Erases(d, scope) PROVE FootprintOK'
    BY <1>0, <2>2 DEF Erases, At, doc, FootprintOK, PastItsChecks, Excused, Purgers
  <2>3. ASSUME NEW p \in Purgers, Clears(p) PROVE FootprintOK'
    BY <2>3 DEF Clears, Goes, FootprintOK, PastItsChecks
  <2>4. ASSUME NEW p \in Purgers, Seals(p) PROVE FootprintOK'
    BY <1>2, <2>4 DEF Seals, doc
  <2>5. ASSUME NEW p \in Purgers, DeletesRow(p) PROVE FootprintOK'
    <3>1. CASE UNCHANGED <<row, tomb>>
      <4>1. PastItsChecks(p) /\ (row = None \/ (purge[p].scope = "retention" /\ ~Expired))
        BY <2>5, <3>1 DEF DeletesRow, At, PastItsChecks
      <4>2. tomb \/ Excused({"moved under a purge"})
        BY <4>1 DEF ChecksOK
      <4> QED BY <1>0, <3>1, <4>2 DEF FootprintOK, Excused
    <3>2. CASE tomb' = TRUE
      BY <3>2 DEF FootprintOK
    <3> QED BY <2>5, <3>1, <3>2 DEF DeletesRow
  <2>6. ASSUME NEW p \in Purgers, Throws(p) PROVE FootprintOK'
    <3>1. CASE PastItsChecks(p)
      BY <2>6, <3>1 DEF Throws, Note, FootprintOK, Excused
    <3>2. CASE ~PastItsChecks(p)
      BY <1>2, <2>6, <3>2 DEF Throws, doc
    <3> QED BY <3>1, <3>2
  <2> QED BY <1>3, <2>1, <2>2, <2>3, <2>4, <2>5, <2>6 DEF PurgeStep, AdminErases, OwnerErases
<1> QED BY <1>1, <1>3

----------------------------------------------------------------------------
(* The theorems.                                                            *)

LEMMA LifecycleInit == Init => LifecycleInv
<1> SUFFICES ASSUME Init PROVE LifecycleInv
  OBVIOUS
<1>1. SeenOK
  BY DEF Init, SeenOK, SeenOf, Out
<1>2. FlagsOK
  BY DEF Init, FlagsOK, Idle
<1>3. LocksHaveOwner
  <2>1. ASSUME NEW u, NEW r, r = NewRow(u) \/ r = [NewRow(u) EXCEPT !.deletedAt = "recent"]
        PROVE r.isPrivate = FALSE /\ r.readOnly = FALSE
    BY <2>1 DEF NewRow
  <2> QED BY <2>1 DEF Init, LocksHaveOwner
<1>4. ScopeOK /\ ChecksOK /\ FootprintOK
  BY DEF Init, ScopeOK, ChecksOK, FootprintOK, PastItsChecks, Purgers
<1> QED BY InitTypes, <1>1, <1>2, <1>3, <1>4 DEF LifecycleInv

LEMMA LifecycleStep == LifecycleInv /\ [Next]_vars => LifecycleInv'
<1> SUFFICES ASSUME LifecycleInv, [Next]_vars PROVE LifecycleInv'
  OBVIOUS
<1>1. CASE Next
  BY <1>1, TypeStep, SeenStep, FlagsStep, LocksStep, ScopeStep, ChecksStep, FootprintStep
     DEF LifecycleInv
<1>2. CASE UNCHANGED vars
  <2>1. TypeInv'
    BY <1>2, TypeStep DEF LifecycleInv
  <2> QED BY <1>2, <2>1 DEF LifecycleInv, vars, doc, SeenOK, SeenOf, FlagsOK, LocksHaveOwner,
             ScopeOK, ChecksOK, FootprintOK, PastItsChecks, Expired, Excused
<1> QED BY <1>1, <1>2

\* Every reachable state satisfies the inductive invariant LifecycleInv.
THEOREM LifecycleInvariant == Spec => []LifecycleInv
<1> QED BY LifecycleInit, LifecycleStep, PTL DEF Spec

\* The type invariant, sealed and anchored rooms being loaded ones included.
THEOREM LifecycleTypes == Spec => []TypeOK
<1>1. TypeInv => TypeOK
  <2> SUFFICES ASSUME TypeInv PROVE TypeOK
    OBVIOUS
  <2>1. \A u \in Users : client[u].pc \in {"out", "hello", "no row", "granted", "in"}
    BY DEF TypeInv, RoomOK, Sockets
  <2> QED BY <2>1 DEF TypeInv, RowOK, PurgeOK, RoomOK, BoundsOK, TypeOK
<1> QED BY <1>1, LifecycleInvariant, PTL DEF LifecycleInv

\* Whoever is admitted had the document open to them at some moment of the handshake,
\* whatever was trashed, restored, made private or erased between its two reads.
THEOREM HandshakeIsSound == Spec => []AdmittedWasOpen
<1>1. SeenOK => AdmittedWasOpen
  BY DEF SeenOK, SeenOf, AdmittedWasOpen
<1> QED BY <1>1, LifecycleInvariant, PTL DEF LifecycleInv

\* An owner-only lock has an owner, unless an admin set it or a PUT decided on a stale
\* row.
THEOREM LocksAreOwned == Spec => []LocksHaveOwner
<1> QED BY LifecycleInvariant, PTL DEF LifecycleInv

\* What survives its purges keeps its footprint, unless it moved under one or a purge
\* failed past its last check.
THEOREM SurvivorsKeepFootprint == Spec => []SurvivorsWhole
<1>1. FootprintOK => SurvivorsWhole
  BY DEF FootprintOK, SurvivorsWhole
<1> QED BY <1>1, LifecycleInvariant, PTL DEF LifecycleInv

\* However many passes overlap, with a lease or without, none erases a row that is not
\* past retention at that very step.
THEOREM PassesSpareRestored == Spec => ReaperSparesRestored
<1> DEFINE A == \A p \in Sweepers :
      purge[p].stage # purge'[p].stage /\ row # None /\ row' = None => Expired
<1>1. LifecycleInv /\ [Next]_vars => [A]_vars
  <2> SUFFICES ASSUME LifecycleInv, Next, NEW p \in Sweepers,
                      purge[p].stage # purge'[p].stage, row # None, row' = None
               PROVE Expired
    OBVIOUS
  <2> USE DEF LifecycleInv, TypeInv, PurgeOK
  <2>1. CASE ~PurgeStep
    BY <2>1, OthersMoveRow
  <2>2. CASE PurgeStep
    <3>1. PICK q \in Purgers : DeletesRow(q)
      BY <2>2 DEF PurgeStep, StartPass, Rechecks, Asserts, AdminErases, OwnerErases, Erases,
         Clears, Seals, Throws, doc, Purgers
    <3>2. q = p
      BY <3>1 DEF DeletesRow, Goes, Purgers
    <3>3. purge[p].scope = "retention"
      BY DEF ScopeOK
    <3> QED BY <3>1, <3>2, <3>3 DEF DeletesRow
  <2> QED BY <2>1, <2>2
<1> QED BY <1>1, LifecycleInvariant, PTL DEF Spec, ReaperSparesRestored
=============================================================================
