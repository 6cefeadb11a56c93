------------------------- MODULE DocumentLifecycle -------------------------
(***************************************************************************)
(* The life of one document outside its save path: the metadata row and     *)
(* what may be done to it (documents.service.ts, adminStats.service.ts),    *)
(* the retention pass and the purge it shares with "Delete forever"         *)
(* (retention.ts, redisLease.ts, documentPurge.service.ts), the access      *)
(* events that tell the replicas (accessRealtime.ts) and the handshake that *)
(* admits sockets (hocuspocus.server.ts, wsAccess.ts).                      *)
(*                                                                          *)
(* A request or a pass is cut at each await: what it read may be stale when *)
(* it writes.  Events are published after the write, by nobody's order, and *)
(* each replica handles them in its own time.                               *)
(***************************************************************************)
EXTENDS Naturals, SequencesExt

CONSTANTS
  Users,      \* who may hold a socket to the room
  Requesters, \* who calls the REST API: signed-in users, None for an anonymous caller
  Requests,   \* REST requests that change the row, in flight at once
  Sweepers,   \* worker processes running the retention pass
  Erasers,    \* REST requests that erase the document, in flight at once
  Replicas,   \* Hocuspocus replicas
  None,       \* no row, no owner
  MaxWrites,  \* bound on REST requests and first saves
  MaxJoins,   \* bound on handshakes
  MaxFaults,  \* bound on faults
  Faults      \* the kinds of fault explored: see the actions that name one

ASSUME LifecycleAssumption ==
  /\ Requesters \subseteq Users \cup {None}
  /\ None \notin Users
  /\ Sweepers \cap Erasers = {}
  /\ MaxWrites \in Nat /\ MaxJoins \in Nat /\ MaxFaults \in Nat

Purgers == Sweepers \cup Erasers

VARIABLES
  row,     \* the DocumentMetadata row
  tomb,    \* is there a purge tombstone
  whole,   \* does the footprint still exist: chat, analytics, editor media
  ask,     \* ask[q]: what request q has read and decided to write
  purge,   \* purge[p]: how far purge p is, and who wants it
  lease,   \* does the retention lease's key exist
  outbox,  \* access events on their way to Redis, in the order of their writes
  inbox,   \* inbox[r]: events Redis delivered and replica r has not handled
  loaded,  \* the replicas that hold the room
  sealed,  \* the replicas whose room is in sealedRooms
  ensured, \* the replicas whose room is in draftMetadataEnsured
  client,  \* client[u]: u's socket
  writes, joins, faults, \* how much of each bound is spent
  \* Observers, which no action reads.
  mishaps, \* the accidents so far that the properties excuse
  seen,    \* seen[u]: u's handshake has overlapped a moment the document was open to u
  late     \* late[u]: the row changed between u's handshake read and now, before u got in

doc == <<row, tomb, whole>>
events == <<outbox, inbox>>
rooms == <<loaded, sealed, ensured>>
spent == <<writes, joins, faults>>
vars == <<doc, ask, purge, lease, events, rooms, client, spent, mishaps, seen, late>>

Flags == {"isPrivate", "readOnly"}
Ages == {"null", "recent", "expired"} \* deletedAt: null, within retention, past it
Rows == [deletedAt: Ages, ownerId: Users \cup {None}, isPrivate: BOOLEAN, readOnly: BOOLEAN]
ASSUME NoneAssumption == None \notin Rows
NewRow(u) == [deletedAt |-> "null", ownerId |-> u, isPrivate |-> FALSE, readOnly |-> FALSE]

Event(kind, on, u) == [kind |-> kind, on |-> on, ownerId |-> u]
Idle == [op |-> "idle"]
Stages == {"idle", "listed", "checked", "asserted", "cleared", "sealed"}
Out == [pc |-> "out"]

Live == row # None /\ row.deletedAt = "null"
Trashed == row # None /\ row.deletedAt # "null"
Expired == row # None /\ row.deletedAt = "expired"
Owns(u) == row # None /\ u # None /\ row.ownerId = u \* isDocumentOwner

\* resolveWsAccess on what a handshake reads, the tombstone standing for "deleted".
OpenTo(u) ==
  IF row = None THEN ~tomb
  ELSE row.deletedAt = "null" /\ (row.isPrivate => row.ownerId = u)

Init ==
  /\ \/ row = None
     \/ \E u \in Requesters : row = NewRow(u)
     \/ \E u \in Requesters \ {None} : row = [NewRow(u) EXCEPT !.deletedAt = "recent"]
  /\ tomb = FALSE
  /\ whole = TRUE
  /\ ask = [q \in Requests |-> Idle]
  /\ purge = [p \in Purgers |-> [stage |-> "idle", scope |-> "retention"]]
  /\ lease = FALSE
  /\ outbox = <<>>
  /\ inbox = [r \in Replicas |-> <<>>]
  /\ loaded = {} /\ sealed = {} /\ ensured = {}
  /\ client = [u \in Users |-> Out]
  /\ writes = 0 /\ joins = 0 /\ faults = 0
  /\ mishaps = {}
  /\ seen = [u \in Users |-> FALSE]
  /\ late = [u \in Users |-> FALSE]

Fault(kind) == kind \in Faults /\ faults < MaxFaults /\ faults' = faults + 1

----------------------------------------------------------------------------
(* Soft delete and restore: setDeletedAt.                                   *)

\* The ownership read.
SetDeletedAtReads(q, u, to) ==
  /\ ask[q] = Idle /\ writes < MaxWrites
  /\ Owns(u)
  /\ ask' = [ask EXCEPT ![q] = [op |-> "setDeletedAt", to |-> to]]
  /\ writes' = writes + 1
  /\ UNCHANGED <<doc, purge, lease, events, rooms, client, joins, faults, mishaps>>

PastItsChecks(p) == purge[p].stage \in {"asserted", "cleared", "sealed"}
Note(accident, happened) == mishaps' = IF happened THEN mishaps \cup {accident} ELSE mishaps

\* The update, by primary key alone, and the event; a row already gone is no error.
SetDeletedAtWrites(q) ==
  /\ ask[q].op = "setDeletedAt"
  /\ ask' = [ask EXCEPT ![q] = Idle]
  /\ IF row = None THEN UNCHANGED <<row, outbox, mishaps>>
     ELSE /\ row' = [row EXCEPT !.deletedAt = ask[q].to]
          /\ outbox' = Append(outbox, Event("deleted", ask[q].to # "null", row.ownerId))
          /\ Note("moved under a purge", \E p \in Purgers : PastItsChecks(p))
  /\ UNCHANGED <<tomb, whole, purge, lease, inbox, rooms, client, spent>>

----------------------------------------------------------------------------
(* The PUT: updateDocument, and the admin's updateDocumentFlags.            *)

\* Mutant: an open document's locks may move too.
PutUpdateOpen(u, flag, on) ==
  IF row = None \/ row[flag] # on THEN {flag} ELSE {}

\* The access flags the PUT will write, decided on what it read: only a change, and
\* only by the owner the row will have.
PutUpdate(u, flag, on) ==
  IF u # None /\ (row = None \/ (row[flag] # on /\ row.ownerId = u))
  THEN {flag} ELSE {}

PutReads(q, u, flag, on) ==
  /\ ask[q] = Idle /\ writes < MaxWrites
  /\ row # None => row.deletedAt = "null" /\ row.ownerId \in {u, None}
  /\ ask' = [ask EXCEPT ![q] = [op |-> "put", by |-> u, on |-> on, read |-> row,
                                flags |-> PutUpdate(u, flag, on)]]
  /\ writes' = writes + 1
  /\ UNCHANGED <<doc, purge, lease, events, rooms, client, joins, faults, mishaps>>

With(r, flags, on) ==
  [r EXCEPT !.isPrivate = IF "isPrivate" \in flags THEN on ELSE @,
            !.readOnly = IF "readOnly" \in flags THEN on ELSE @]

\* The upsert: its create arm claims the document, its update arm writes the flags.
PutUpserts(q) ==
  /\ ask[q].op = "put"
  /\ ask' = [ask EXCEPT ![q] = Idle]
  /\ row' = With(IF row = None THEN NewRow(ask[q].by) ELSE row, ask[q].flags, ask[q].on)
  /\ outbox' = outbox \o SetToSeq({Event(f, ask[q].on, row'.ownerId) : f \in ask[q].flags})
  /\ Note("anchored under a PUT",
          row # None /\ (ask[q].read = None \/ ask[q].read.ownerId # row.ownerId))
  /\ UNCHANGED <<tomb, whole, purge, lease, inbox, rooms, client, spent>>

\* An admin flips a flag of a row that exists.
AdminSets(flag, on) ==
  /\ writes < MaxWrites /\ row # None
  /\ row' = With(row, {flag}, on)
  /\ outbox' = Append(outbox, Event(flag, on, row.ownerId))
  /\ writes' = writes + 1
  /\ Note("locked by an admin", row.ownerId = None)
  /\ UNCHANGED <<tomb, whole, ask, purge, lease, inbox, rooms, client, joins, faults>>

----------------------------------------------------------------------------
(* The retention pass: withRedisLease, reapSoftDeletedDocuments.            *)

At(p, stage) == purge[p].stage = stage
Goes(p, stage) == purge' = [purge EXCEPT ![p].stage = stage]

\* The interval ticks: the lease is taken, or Redis fails and the pass runs without;
\* the pass lists what is past its cutoff.
StartPass(p) ==
  /\ At(p, "idle")
  /\ \/ ~lease /\ lease' = TRUE /\ UNCHANGED faults
     \/ Fault("lease") /\ UNCHANGED lease
  /\ Goes(p, IF Expired THEN "listed" ELSE "idle")
  /\ UNCHANGED <<doc, ask, events, rooms, client, writes, joins, mishaps>>

\* Mutant: the lease is taken without a time to live.
LeaseStays ==
  /\ lease /\ lease' = TRUE
  /\ UNCHANGED <<doc, ask, purge, events, rooms, client, spent, mishaps>>

\* Nobody deletes the lease: its key expires, possibly in the middle of a pass.
LeaseExpires ==
  /\ lease /\ lease' = FALSE
  /\ UNCHANGED <<doc, ask, purge, events, rooms, client, spent, mishaps>>

\* The pass reads the row again before it purges.
Rechecks(p) ==
  /\ At(p, "listed")
  /\ Goes(p, IF Expired THEN "checked" ELSE "idle")
  /\ UNCHANGED <<doc, ask, lease, events, rooms, client, spent, mishaps>>

\* A pass takes minutes and the retention days: no tombstone of a pass's own time
\* comes of age before it ends.
Age ==
  /\ row # None /\ row.deletedAt = "recent"
  /\ \A p \in Sweepers : At(p, "idle")
  /\ row' = [row EXCEPT !.deletedAt = "expired"]
  /\ UNCHANGED <<tomb, whole, ask, purge, lease, events, rooms, client, spent, mishaps>>

----------------------------------------------------------------------------
(* purgeDocumentFootprint, and the requests that reach it.                  *)

Erases(p, scope) ==
  /\ At(p, "idle") /\ writes < MaxWrites
  /\ purge' = [purge EXCEPT ![p] = [stage |-> "asserted", scope |-> scope]]
  /\ writes' = writes + 1
  /\ UNCHANGED <<doc, ask, lease, events, rooms, client, joins, faults, mishaps>>

\* permanentlyDeleteDocument: the owner, and only from the trash.
OwnerErases(d, u) == Owns(u) /\ Trashed /\ Erases(d, "owner")

\* deleteDocument, bulkDeleteStale: an admin, whatever the state.
AdminErases(d) == row # None /\ Erases(d, "admin")

\* Mutant: no assertion before what cannot be undone.
AssertsNothing(p) ==
  /\ At(p, "checked")
  /\ Goes(p, "asserted")
  /\ UNCHANGED <<doc, ask, lease, events, rooms, client, spent, mishaps>>

\* The retention scope is asserted once more; the others were gated by their callers.
Asserts(p) ==
  /\ At(p, "checked")
  /\ Goes(p, IF Expired THEN "asserted" ELSE "idle")
  /\ UNCHANGED <<doc, ask, lease, events, rooms, client, spent, mishaps>>

\* The RPC and the media delete.
Clears(p) ==
  /\ At(p, "asserted")
  /\ Goes(p, "cleared")
  /\ whole' = FALSE
  /\ UNCHANGED <<row, tomb, ask, lease, events, rooms, client, spent, mishaps>>

Deliver(e) == inbox' = [r \in Replicas |-> Append(inbox[r], e)]

\* The seal is awaited; a publish that fails is logged and the purge goes on.
Seals(p) ==
  /\ At(p, "cleared")
  /\ Goes(p, "sealed")
  /\ \/ Deliver(Event("purged", TRUE, None)) /\ UNCHANGED <<faults, mishaps>>
     \/ Fault("pubsub") /\ Note("event lost", TRUE) /\ UNCHANGED inbox
  /\ UNCHANGED <<doc, ask, lease, outbox, rooms, client, writes, joins>>

\* Mutant: the row delete trusts the assertion made before the RPC.
DeletesRowByKey(p) ==
  /\ At(p, "sealed")
  /\ Goes(p, "idle")
  /\ IF row # None
     THEN row' = None /\ tomb' = TRUE /\ Note("erased live", Live)
     ELSE UNCHANGED <<row, tomb, mishaps>>
  /\ UNCHANGED <<whole, ask, lease, events, rooms, client, spent>>

\* Mutant: the row goes without its tombstone.
DeletesRowAlone(p) ==
  /\ At(p, "sealed")
  /\ Goes(p, "idle")
  /\ IF row # None /\ (purge[p].scope = "retention" => Expired)
     THEN row' = None /\ Note("erased live", Live)
     ELSE UNCHANGED <<row, mishaps>>
  /\ UNCHANGED <<tomb, whole, ask, lease, events, rooms, client, spent>>

\* The transaction: the row if it is still in scope, and with it the tombstone.
DeletesRow(p) ==
  /\ At(p, "sealed")
  /\ Goes(p, "idle")
  /\ IF row # None /\ (purge[p].scope = "retention" => Expired)
     THEN row' = None /\ tomb' = TRUE /\ Note("erased live", Live)
     ELSE UNCHANGED <<row, tomb, mishaps>>
  /\ UNCHANGED <<whole, ask, lease, events, rooms, client, spent>>

\* Any step throws, or its process dies: the row keeps its deletedAt.
Throws(p) ==
  /\ ~At(p, "idle")
  /\ Fault("throw")
  /\ Goes(p, "idle")
  /\ Note(IF Live THEN "purge of a live document failed" ELSE "purge failed", PastItsChecks(p))
  /\ UNCHANGED <<doc, ask, lease, events, rooms, client, writes, joins>>

----------------------------------------------------------------------------
(* Events: publishDocumentAccessEvent, handleDocumentAccessEvent.           *)

\* A fire-and-forget event reaches Redis, perhaps before one published earlier.
Publishes(i) ==
  /\ outbox' = RemoveAt(outbox, i)
  /\ Deliver(outbox[i])
  /\ Note("events overtook", \E k \in 1..(i - 1) : outbox[k].kind = outbox[i].kind)
  /\ UNCHANGED <<doc, ask, purge, lease, rooms, client, spent>>

\* No publisher, or the publish rejects: logged, and nobody hears of it.
PublishFails(i) ==
  /\ Fault("pubsub")
  /\ outbox' = RemoveAt(outbox, i)
  /\ Note("event lost", TRUE)
  /\ UNCHANGED <<doc, ask, purge, lease, inbox, rooms, client, writes, joins>>

In(u, r) == client[u].pc = "in" /\ client[u].at = r
SocketsOf(r) == {u \in Users : In(u, r)}

\* Mutant: only a purge closes the room.
ClosesErased(e, r) == IF e.kind = "purged" THEN SocketsOf(r) ELSE {}

\* Whom the event disconnects: everyone from a document soft-deleted or erased, all
\* but the owner from one turned private.
Closes(e, r) ==
  CASE e.kind = "purged" \/ (e.kind = "deleted" /\ e.on) -> SocketsOf(r)
    [] e.kind = "isPrivate" /\ e.on -> SocketsOf(r) \ {e.ownerId}
    [] OTHER -> {}

\* Mutant: a restore leaves the room as it is.
NeverUnseals(e, r) == IF e.kind = "purged" THEN sealed \cup {r} ELSE sealed

\* Only a purge seals the room, a restore unseals it.
Seal(e, r) ==
  CASE e.kind = "purged" -> sealed \cup {r}
    [] e.kind = "deleted" /\ ~e.on -> sealed \ {r}
    [] OTHER -> sealed

\* Mutant: the lock is applied to the owner too.
LockedOut(e, c, u) == IF e.kind = "readOnly" THEN [c EXCEPT !.readOnly = e.on] ELSE c

\* An open socket takes the new write lock, its owner's stays open.
Lock(e, c, u) ==
  IF e.kind = "readOnly" THEN [c EXCEPT !.readOnly = e.on /\ u # e.ownerId] ELSE c

\* The subscriber finds the room, or drops the event.
Handles(r) ==
  /\ inbox[r] # <<>>
  /\ inbox' = [inbox EXCEPT ![r] = Tail(@)]
  /\ LET e == Head(inbox[r]) IN
       IF r \notin loaded THEN UNCHANGED <<sealed, client>>
       ELSE /\ sealed' = Seal(e, r)
            /\ client' = [u \in Users |->
                 IF u \in Closes(e, r) THEN Out
                 ELSE IF In(u, r) THEN Lock(e, client[u], u) ELSE client[u]]
  /\ UNCHANGED <<doc, ask, purge, lease, outbox, loaded, ensured, spent, mishaps>>

----------------------------------------------------------------------------
(* The handshake (onAuthenticate) and the room.                             *)

Client(u, c) == client' = [client EXCEPT ![u] = c]

Connects(u, r) ==
  /\ client[u] = Out /\ joins < MaxJoins
  /\ Client(u, [pc |-> "hello", at |-> r])
  /\ joins' = joins + 1
  /\ UNCHANGED <<doc, ask, purge, lease, events, rooms, writes, faults, mishaps>>

Granted(u, readOnly) == [pc |-> "granted", at |-> client[u].at, readOnly |-> readOnly]

\* The metadata read decides, unless there is no row.
ReadsRow(u) ==
  /\ client[u].pc = "hello"
  /\ Client(u, IF row = None THEN [client[u] EXCEPT !.pc = "no row"]
               ELSE IF OpenTo(u) THEN Granted(u, row.readOnly /\ row.ownerId # u)
               ELSE Out)
  /\ UNCHANGED <<doc, ask, purge, lease, events, rooms, spent, mishaps>>

\* Mutant: a document without a row is taken for one that was never saved.
ReadsNoTombstone(u) ==
  /\ client[u].pc = "no row"
  /\ Client(u, Granted(u, FALSE))
  /\ UNCHANGED <<doc, ask, purge, lease, events, rooms, spent, mishaps>>

\* Without a row, the tombstone tells an erased document from one never saved.
ReadsTombstone(u) ==
  /\ client[u].pc = "no row"
  /\ Client(u, IF tomb THEN Out ELSE Granted(u, FALSE))
  /\ UNCHANGED <<doc, ask, purge, lease, events, rooms, spent, mishaps>>

\* A lookup that fails denies.
LookupFails(u) ==
  /\ client[u].pc \in {"hello", "no row"}
  /\ Fault("db")
  /\ Client(u, Out)
  /\ UNCHANGED <<doc, ask, purge, lease, events, rooms, writes, joins, mishaps>>

\* Hocuspocus loads the room if it must, and only then counts the connection.
Admits(u) ==
  /\ client[u].pc = "granted"
  /\ Client(u, [client[u] EXCEPT !.pc = "in"])
  /\ loaded' = loaded \cup {client[u].at}
  /\ UNCHANGED <<doc, ask, purge, lease, events, sealed, ensured, spent, mishaps>>

Disconnects(u) ==
  /\ client[u].pc # "out"
  /\ Client(u, Out)
  /\ UNCHANGED <<doc, ask, purge, lease, events, rooms, spent, mishaps>>

\* Mutant: the seal is remembered by name and outlives the room.
UnloadsSealed(r) ==
  /\ r \in loaded /\ SocketsOf(r) = {}
  /\ loaded' = loaded \ {r} /\ ensured' = ensured \ {r}
  /\ UNCHANGED <<doc, ask, purge, lease, events, sealed, client, spent, mishaps>>

\* The last socket is gone and the room saved: the Document object dies, and with it
\* its entries in the weak sets.
Unloads(r) ==
  /\ r \in loaded /\ SocketsOf(r) = {}
  /\ loaded' = loaded \ {r} /\ sealed' = sealed \ {r} /\ ensured' = ensured \ {r}
  /\ UNCHANGED <<doc, ask, purge, lease, events, client, spent, mishaps>>

\* The room's first real edit anchors an ownerless row; the once-guard is claimed
\* before the insert, which a row that is already there turns into nothing.
FirstEdit(u, r) ==
  /\ In(u, r) /\ ~client[u].readOnly /\ r \notin ensured
  /\ ensured' = ensured \cup {r}
  /\ \/ /\ row' = IF row = None THEN NewRow(None) ELSE row
        /\ UNCHANGED faults
     \/ Fault("db") /\ UNCHANGED row
  /\ UNCHANGED <<tomb, whole, ask, purge, lease, events, loaded, sealed, client,
                 writes, joins, mishaps>>

\* The store worker's first save of what was flushed or dead-lettered, whenever that
\* was: an upsert for a document without a row.
WorkerUpserts ==
  /\ row = None /\ writes < MaxWrites
  /\ row' = NewRow(None)
  /\ writes' = writes + 1
  /\ UNCHANGED <<tomb, whole, ask, purge, lease, events, rooms, client, joins, faults, mishaps>>

----------------------------------------------------------------------------
\* What the observers see of a step.
Observe ==
  /\ seen' = [u \in Users |->
       CASE client'[u].pc = "hello" \/ client'[u].pc = "no row" -> seen[u] \/ OpenTo(u)'
         [] client'[u].pc \in {"granted", "in"} -> seen[u] \/ (client[u] # client'[u] /\ OpenTo(u))
         [] OTHER -> FALSE]
  /\ late' = [u \in Users |->
       /\ client'[u].pc # "out"
       /\ late[u] \/ (client[u].pc \in {"no row", "granted"} /\ row' # row)]

RequestStep ==
  \/ \E q \in Requests :
       \/ \E u \in Requesters, to \in {"null", "recent"} : SetDeletedAtReads(q, u, to)
       \/ SetDeletedAtWrites(q)
       \/ \E u \in Requesters, f \in Flags, on \in BOOLEAN : PutReads(q, u, f, on)
       \/ PutUpserts(q)
  \/ \E f \in Flags, on \in BOOLEAN : AdminSets(f, on)

PurgeStep ==
  \/ \E p \in Sweepers : StartPass(p) \/ Rechecks(p) \/ Asserts(p)
  \/ \E d \in Erasers : AdminErases(d) \/ \E u \in Requesters : OwnerErases(d, u)
  \/ \E p \in Purgers : Clears(p) \/ Seals(p) \/ DeletesRow(p) \/ Throws(p)

EventStep ==
  \/ \E i \in DOMAIN outbox : Publishes(i) \/ PublishFails(i)
  \/ \E r \in Replicas : Handles(r)

RoomStep ==
  \/ \E u \in Users :
       \/ ReadsRow(u) \/ ReadsTombstone(u) \/ LookupFails(u) \/ Admits(u) \/ Disconnects(u)
       \/ \E r \in Replicas : Connects(u, r) \/ FirstEdit(u, r)
  \/ \E r \in Replicas : Unloads(r)

Next ==
  /\ \/ RequestStep \/ PurgeStep \/ EventStep \/ RoomStep
     \/ LeaseExpires \/ Age \/ WorkerUpserts
  /\ Observe

Spec == Init /\ [][Next]_vars

\* The interval keeps ticking, a pass goes on with what it listed, the lease's TTL and the
\* retention run out.  No request has to go on, nobody has to ask for anything.
FairSpec ==
  /\ Spec
  /\ WF_vars((\E p \in Sweepers : StartPass(p)) /\ Observe)
  /\ \A p \in Sweepers :
       WF_vars((Rechecks(p) \/ Asserts(p) \/ Clears(p) \/ Seals(p) \/ DeletesRow(p)) /\ Observe)
  /\ WF_vars(LeaseExpires /\ Observe) /\ WF_vars(Age /\ Observe)

----------------------------------------------------------------------------
TypeOK ==
  /\ row \in Rows \cup {None}
  /\ tomb \in BOOLEAN /\ whole \in BOOLEAN /\ lease \in BOOLEAN
  /\ DOMAIN ask = Requests
  /\ purge \in [Purgers -> [stage: Stages, scope: {"retention", "owner", "admin"}]]
  /\ sealed \subseteq loaded /\ ensured \subseteq loaded /\ loaded \subseteq Replicas
  /\ \A u \in Users : client[u].pc \in {"out", "hello", "no row", "granted", "in"}
  /\ \A u \in Users : client[u].pc = "in" => client[u].at \in loaded
  /\ writes \in 0..MaxWrites /\ joins \in 0..MaxJoins /\ faults \in 0..MaxFaults

\* No event is under way.
Quiet == outbox = <<>> /\ \A r \in Replicas : inbox[r] = <<>>
Excused(accidents) == mishaps \cap accidents # {}

\* The two reads of the handshake add up to one: a socket is admitted only if the
\* document was open to it at some moment of its handshake, erasure in between or not.
AdmittedWasOpen == \A u \in Users : client[u].pc \in {"granted", "in"} => seen[u]

\* Once the events are handled, a socket in the room of a document closed to it got
\* there by a handshake the change overtook, or the event was lost, or an admin (or a
\* race) erased a document still live, whose room reopens between seal and row delete.
ClosedRoomsEmpty ==
  Quiet => \A u \in Users :
    client[u].pc = "in" /\ ~OpenTo(u) =>
      late[u] \/ Excused({"event lost", "erased live"})

\* Once the events are handled, a live document's room takes saves: a purge that
\* failed or was refused leaves it sealed only if it raced a soft delete or a restore,
\* if the document was live to begin with, or if the event that unseals got lost.
LiveRoomsSave ==
  Quiet /\ Live /\ ~tomb /\ (\A p \in Purgers : ~PastItsChecks(p)) =>
    sealed = {} \/ Excused({"moved under a purge", "event lost",
                            "purge of a live document failed"})

\* Once the events are handled, a socket's write lock is the row's.
LocksReachSockets ==
  Quiet /\ ~tomb => \A u \in Users :
    client[u].pc = "in" =>
      \/ client[u].readOnly = (row # None /\ row.readOnly /\ row.ownerId # u)
      \/ late[u] \/ Excused({"event lost", "events overtook"})

\* A document with an owner-only lock has an owner to undo it, unless an admin set it
\* or the first edit anchored the row under a PUT that had read another or none.
LocksHaveOwner ==
  row # None /\ row.ownerId = None /\ (row.isPrivate \/ row.readOnly) =>
    Excused({"locked by an admin", "anchored under a PUT"})

\* A document that outlives its passes keeps its chat and its media, unless a restore
\* landed behind the last check or a purge failed after it.
SurvivorsWhole ==
  Live /\ ~tomb /\ (\A p \in Purgers : ~PastItsChecks(p)) =>
    whole \/ Excused({"moved under a purge", "purge of a live document failed",
                      "purge failed"})

\* The retention pass never erases a document that is not past retention, however
\* many passes overlap and whatever was restored under them.
ReaperSparesRestored ==
  [][\A p \in Sweepers :
       purge[p].stage # purge'[p].stage /\ row # None /\ row' = None => Expired]_vars

\* The comment on permanentlyDeleteDocument: it "Refuses a live doc so it can't
\* hard-delete an active one".
RefusesLive ==
  [][\A d \in Erasers :
       purge[d].scope = "owner" /\ purge[d].stage # purge'[d].stage
       /\ row # None /\ row' = None => Trashed]_vars

\* The lifecycle as the save path sees it: requests, passes, handshakes and events do
\* nothing to the row, the tombstone and the seals but what LifecycleFacts says.
Meta ==
  CASE row = None -> IF tomb THEN "purged" ELSE "absent"
    [] Live -> "live"
    [] OTHER -> "trashed"

Facts == INSTANCE LifecycleFacts WITH Rooms <- Replicas, meta <- Meta

ImplementsLifecycleFacts == Facts!FactsSpec

\* What is in the trash leaves it: erased or restored, although passes fail, lose
\* their lease or overlap.
TrashIsEmptied == Trashed ~> ~Trashed
=============================================================================
