--------------------------- MODULE StorePipeline ---------------------------
(***************************************************************************)
(* How one document's edits become rows of the "Documents" table           *)
(* (apps/hocuspocus.server).  A collaboration replica's store hook puts a   *)
(* snapshot under a claim-check key in Redis and adds a BullMQ job; a       *)
(* worker locks the newest row, merges and appends.  A failed enqueue       *)
(* falls back to the same merge in the replica.  Jobs retry, stall, are     *)
(* redelivered and dead-letter; an operator drains the dead letters.        *)
(*                                                                          *)
(* A document's CRDT state is the set of operations it holds: merging two   *)
(* Yjs updates is union, and a deletion is one more operation.  Documents   *)
(* share no state in this path, so one is enough.                           *)
(***************************************************************************)
EXTENDS Naturals, Sequences, FiniteSets

CONSTANTS
  Edits,       \* CRDT operations the document's authors may produce
  Instances,   \* collaboration (WebSocket) replicas holding the room
  Workers,     \* concurrent executions of the store-documents worker
  Operator,    \* the process running scripts/drain-store-dlq.ts
  None,        \* no job, no owner, no dead letter
  MaxAttempts, \* BullMQ attempts: 5 in the code
  MaxStalls,   \* BullMQ maxStalledCount: 2 in the code
  InlineMax,   \* largest payload a dead letter embeds: 512 KiB in the code
  MaxWindow,   \* bound: dedupe windows (10 s each) that elapse
  MaxFlushes,  \* bound: store hooks that run
  Faults       \* the faults and lifecycle events this instance allows

Producers == Instances \cup {Operator}
Savers    == Instances \cup Workers
Actors    == Savers \cup {Operator}

FaultKinds == {"replica_crash", "worker_crash", "drain_crash", "stall", "db", "redis",
               "key_loss", "dlq_down", "evict_job", "aged", "trash", "purge"}

\* The id buildStoreJobId mints: 10 s window plus a fingerprint of the bytes.
\* It also names the claim-check key, whose content is id.state.
JobIds == [state : (SUBSET Edits) \ {{}}, win : 1..MaxWindow]

Pending   == {"wait", "active", "delayed"}
JobStates == Pending \cup {"none", "completed", "failed"}
Jobs == [st : JobStates, made : 0..(MaxAttempts - 1), stalls : 0..MaxStalls,
         owner : Workers \cup {None}]

\* A dead letter: the failed job's id, and whether the payload is embedded.
DeadLetters == [id : JobIds, has : BOOLEAN]

ASSUME CastAssumption ==
  /\ Instances \cap Workers = {}
  /\ Operator \notin Instances \cup Workers
  /\ None \notin Instances \cup Workers \cup {Operator}
  /\ None \notin JobIds
  /\ None \notin DeadLetters

ASSUME BoundAssumption ==
  /\ MaxAttempts \in Nat \ {0}
  /\ MaxStalls \in Nat
  /\ MaxWindow \in Nat \ {0}
  /\ MaxFlushes \in Nat
  /\ Faults \subseteq FaultKinds

VARIABLES
  live,      \* live[i]: operations in replica i's in-memory Y.Doc
  sealed,    \* replicas whose room object is in sealedRooms
  rows,      \* the Documents rows, by version
  meta,      \* the DocumentMetadata row
  keys,      \* claim-check keys present in Redis
  dels,      \* fire-and-forget DELs not yet applied: <<key, issuer>>
  job,       \* the BullMQ hash of every job id
  dlq,       \* the store-documents-dlq queue
  pc,        \* where each actor's handler stands
  cur,       \* the job id an actor is working on
  raw,       \* workers that hold the payload in memory
  base,      \* the head version a saver's transaction read
  tries,     \* worker: job.attemptsMade at pickup; replica: fallback collisions
  facts,     \* the metadata state the running drain read
  todo,      \* dead letters the running drain has still to judge
  entry,     \* the dead letter the drain is replaying
  now,       \* the current dedupe window
  flushes    \* store hooks run so far (bound)

\* Observers: what the store path has promised, and what it has knowingly let go.
VARIABLES accepted, forfeited

vars == <<live, sealed, rows, meta, keys, dels, job, dlq, pc, cur, raw, base,
          tries, facts, todo, entry, now, flushes, accepted, forfeited>>

room  == <<live, sealed, flushes>>
queue == <<keys, dels, job, dlq>>
table == <<rows, meta>>
drain == <<facts, todo, entry>>
tx    == <<raw, base, tries>>
ledger == <<accepted, forfeited>>

\* The document's lifecycle: see LifecycleFacts.
Life == INSTANCE LifecycleFacts WITH Rooms <- Instances

NoJob    == [st |-> "none", made |-> 0, stalls |-> 0, owner |-> None]
FreshJob == [st |-> "wait", made |-> 0, stalls |-> 0, owner |-> None]

\* The job's hash after BullMQ moves it: attempts made are only Settle's to count.
Moved(id, st, owner, stalls) ==
  [job EXCEPT ![id] = [st |-> st, made |-> job[id].made, stalls |-> stalls, owner |-> owner]]

\* A handler returns: its locals are gone.
HandlerReturns(a) ==
  /\ pc' = [pc EXCEPT ![a] = "idle"]
  /\ cur' = [cur EXCEPT ![a] = None]

SaverReturns(s) ==
  /\ HandlerReturns(s)
  /\ base' = [base EXCEPT ![s] = 0]
  /\ tries' = [tries EXCEPT ![s] = 0]

DrainStops ==
  /\ HandlerReturns(Operator)
  /\ facts' = "absent" /\ todo' = {} /\ entry' = None

PayloadOf(id) == IF id = None THEN {} ELSE id.state
HeadState == IF rows = <<>> THEN {} ELSE rows[Len(rows)]

Init ==
  /\ live = [i \in Instances |-> {}]
  /\ sealed = {}
  /\ rows = <<>>
  /\ meta = "absent"
  /\ keys = {}
  /\ dels = {}
  /\ job = [id \in JobIds |-> NoJob]
  /\ dlq = {}
  /\ pc = [a \in Actors |-> "idle"]
  /\ cur = [a \in Actors |-> None]
  /\ raw = {}
  /\ base = [s \in Savers |-> 0]
  /\ tries = [s \in Savers |-> 0]
  /\ facts = "absent"
  /\ todo = {}
  /\ entry = None
  /\ now = 1
  /\ flushes = 0
  /\ accepted = {}
  /\ forfeited = {}

----------------------------------------------------------------------------
(* The room: edits arrive from clients and peers, replicas restart.         *)

\* An operation reaches replica i: typed by a client, re-sent by a
\* reconnecting one, or relayed by a peer over the Redis extension.
EditArrives(i, e) ==
  /\ e \notin live[i]
  /\ live' = [live EXCEPT ![i] = @ \cup {e}]
  /\ UNCHANGED <<sealed, flushes, queue, table, pc, cur, tx, drain, now, ledger>>

\* The process dies mid-handler; the next client makes it fetch the newest row.
RestartInstance(i) ==
  /\ "replica_crash" \in Faults
  /\ live' = [live EXCEPT ![i] = HeadState]
  /\ sealed' = sealed \ {i}
  /\ SaverReturns(i)
  /\ UNCHANGED <<flushes, queue, table, raw, drain, now, ledger>>

----------------------------------------------------------------------------
(* Producing a job: enqueueStoreDocument.                                   *)

\* SET the claim-check key, then move on to Queue.add.  A SET that fails may
\* have been applied; the caller then takes its own failure branch.
SetStateKey(p, id, onFailure) ==
  \/ /\ keys' = keys \cup {id}
     /\ pc' = [pc EXCEPT ![p] = "add"]
     /\ cur' = [cur EXCEPT ![p] = id]
  \/ /\ "redis" \in Faults
     /\ keys' \in {keys, keys \cup {id}}
     /\ pc' = [pc EXCEPT ![p] = onFailure]
     /\ cur' = [cur EXCEPT ![p] = IF onFailure = "idle" THEN None ELSE id]

\* A document nobody has typed into still carries isDraft.
IsDraft(i) == live[i] = {}

\* The debounced store hook: a sealed room and a draft are not saved.
Flush(i) ==
  /\ pc[i] = "idle"
  /\ i \notin sealed
  /\ ~IsDraft(i)
  /\ now < MaxWindow /\ flushes < MaxFlushes
  /\ SetStateKey(i, [state |-> live[i], win |-> now], "select")
  /\ flushes' = flushes + 1
  /\ UNCHANGED <<live, sealed, dels, job, dlq, table, tx, drain, now, ledger>>

\* Queue.add with a custom jobId: an id BullMQ still knows is a no-op.
Added(id) == IF job[id].st = "none" THEN [job EXCEPT ![id] = FreshJob] ELSE job

\* The hook resolved: the flush is accepted.
AddJob(i) ==
  /\ pc[i] = "add"
  /\ job' = Added(cur[i])
  /\ accepted' = accepted \cup PayloadOf(cur[i])
  /\ HandlerReturns(i)
  /\ UNCHANGED <<room, keys, dels, dlq, table, tx, drain, now, forfeited>>

\* Queue.add rejects (a command timeout may still have created the job): the
\* payload key is withdrawn and the error goes to the caller.
Withdraw(p) ==
  /\ "redis" \in Faults
  /\ pc[p] = "add"
  /\ job' \in {job, Added(cur[p])}
  /\ dels' = dels \cup {<<cur[p], p>>}
  /\ forfeited' = forfeited \cup PayloadOf(cur[p])

AddJobFails(i) ==
  /\ Withdraw(i)
  /\ pc' = [pc EXCEPT ![i] = "select"]
  /\ UNCHANGED <<room, keys, dlq, table, cur, tx, drain, now, accepted>>

----------------------------------------------------------------------------
(* The merge transaction, run by workers and by a replica's fallback.       *)
(* READ COMMITTED: the SELECT's snapshot fixes the head it returns, and     *)
(* FOR UPDATE makes a second reader of the same row wait, not re-read.      *)

\* Mutant: the SELECT lost its FOR UPDATE.
RowLockedNever(v) == FALSE

RowLocked(v) == \E s \in Savers : pc[s] = "insert" /\ base[s] = v

SelectHead(s) ==
  /\ pc[s] = "select"
  /\ base' = [base EXCEPT ![s] = Len(rows)]
  /\ pc' = [pc EXCEPT ![s] = IF Len(rows) > 0 /\ RowLocked(Len(rows))
                             THEN "blocked" ELSE "insert"]
  /\ UNCHANGED <<room, queue, table, cur, raw, tries, drain, now, ledger>>

\* The row lock is granted; the row is unchanged, so the stale head stands.
LockGranted(s) ==
  /\ pc[s] = "blocked"
  /\ ~RowLocked(base[s])
  /\ pc' = [pc EXCEPT ![s] = "insert"]
  /\ UNCHANGED <<room, queue, table, cur, tx, drain, now, ledger>>

\* Mutant: the payload replaces the head instead of being merged into it.
MergedBlind(s) == PayloadOf(cur[s])

\* mergeUpdates of the locked head and the payload; the strip keeps content.
Merged(s) == (IF base[s] = 0 THEN {} ELSE rows[base[s]]) \cup PayloadOf(cur[s])

\* Mutant: the unique index is gone.
CollidesNever(s) == FALSE

\* P2002: the unique (documentId, version) index already has base + 1.
Collides(s) == base[s] < Len(rows)

\* Mutant: the fallback upserts the metadata row too.
HasMetadataAlways(s) == TRUE

\* Only the worker's first save upserts the metadata row a version refers to.
HasMetadata(s) == Life!HasRow \/ (s \in Workers /\ base[s] = 0)

AppendRow(s) ==
  /\ pc[s] = "insert"
  /\ ~Collides(s)
  /\ HasMetadata(s)
  /\ rows' = Append(rows, Merged(s))
  /\ meta' = IF Life!HasRow THEN meta ELSE "live"

\* The worker's transaction commits; its acknowledgement may be lost.
WorkerCommits(w) ==
  /\ AppendRow(w)
  /\ \/ pc' = [pc EXCEPT ![w] = "saved"]
     \/ "db" \in Faults /\ pc' = [pc EXCEPT ![w] = "failed"]
  /\ UNCHANGED <<room, queue, cur, tx, drain, now, ledger>>

WorkerTxFails(w) ==
  /\ \/ pc[w] \in {"select", "blocked", "insert"} /\ "db" \in Faults
     \/ pc[w] = "insert" /\ (Collides(w) \/ ~HasMetadata(w))
  /\ pc' = [pc EXCEPT ![w] = "failed"]
  /\ UNCHANGED <<room, queue, table, cur, tx, drain, now, ledger>>

\* saveMergedVersion commits in the replica; a lost acknowledgement is swallowed.
FallbackCommits(i) ==
  /\ AppendRow(i)
  /\ \/ accepted' = accepted \cup PayloadOf(cur[i])
     \/ "db" \in Faults /\ UNCHANGED accepted
  /\ SaverReturns(i)
  /\ UNCHANGED <<room, queue, raw, drain, now, forfeited>>

\* The first version collision is re-merged once.
FallbackRetries(i) ==
  /\ pc[i] = "insert" /\ Collides(i)
  /\ tries[i] = 0
  /\ tries' = [tries EXCEPT ![i] = 1]
  /\ pc' = [pc EXCEPT ![i] = "select"]
  /\ UNCHANGED <<room, queue, table, cur, raw, base, drain, now, ledger>>

\* Mutant: an error that is neither a collision nor the database's is not handled.
FallbackDropsCollisions(i) ==
  /\ \/ pc[i] \in {"select", "blocked", "insert"} /\ "db" \in Faults
     \/ pc[i] = "insert" /\ Collides(i) /\ tries[i] > 0
  /\ SaverReturns(i)
  /\ UNCHANGED <<room, queue, table, raw, drain, now, ledger>>

\* A second collision, a missing metadata row or a database error: the flush is
\* dropped and the hook returns all the same.
FallbackDrops(i) ==
  /\ \/ pc[i] \in {"select", "blocked", "insert"} /\ "db" \in Faults
     \/ pc[i] = "insert" /\ (IF Collides(i) THEN tries[i] > 0 ELSE ~HasMetadata(i))
  /\ SaverReturns(i)
  /\ UNCHANGED <<room, queue, table, raw, drain, now, ledger>>

----------------------------------------------------------------------------
(* The worker's processor.                                                  *)

Take(w, id) ==
  /\ pc[w] = "idle"
  /\ job[id].st = "wait"
  /\ job' = Moved(id, "active", w, job[id].stalls)
  /\ pc' = [pc EXCEPT ![w] = "resolve"]
  /\ cur' = [cur EXCEPT ![w] = id]
  /\ tries' = [tries EXCEPT ![w] = job[id].made]
  /\ UNCHANGED <<room, keys, dels, dlq, table, raw, base, drain, now, ledger>>

\* Mutant: reading the payload releases its key, before the commit.
ResolveReleases(w) ==
  /\ pc[w] = "resolve"
  /\ cur[w] \in keys
  /\ raw' = raw \cup {w}
  /\ dels' = dels \cup {<<cur[w], w>>}
  /\ pc' = [pc EXCEPT ![w] = "select"]
  /\ UNCHANGED <<room, keys, job, dlq, table, cur, base, tries, drain, now, ledger>>

\* Mutant: a payload that cannot be read means there is nothing to do.
ResolveSkips(w) ==
  /\ pc[w] = "resolve"
  /\ \/ /\ cur[w] \in keys
        /\ raw' = raw \cup {w}
        /\ pc' = [pc EXCEPT ![w] = "select"]
     \/ /\ cur[w] \notin keys \/ "redis" \in Faults
        /\ UNCHANGED raw
        /\ pc' = [pc EXCEPT ![w] = "ack"]
  /\ UNCHANGED <<room, queue, table, cur, base, tries, drain, now, ledger>>

\* resolveJobState: the payload, or an error that counts as a failed attempt.
Resolve(w) ==
  /\ pc[w] = "resolve"
  /\ \/ /\ cur[w] \in keys
        /\ raw' = raw \cup {w}
        /\ pc' = [pc EXCEPT ![w] = "select"]
     \/ /\ cur[w] \notin keys \/ "redis" \in Faults
        /\ UNCHANGED raw
        /\ pc' = [pc EXCEPT ![w] = "failed"]
  /\ UNCHANGED <<room, queue, table, cur, base, tries, drain, now, ledger>>

\* Committed: the claim-check key is deleted without waiting.
ReleaseKey(w) ==
  /\ pc[w] = "saved"
  /\ dels' = dels \cup {<<cur[w], w>>}
  /\ pc' = [pc EXCEPT ![w] = "ack"]
  /\ UNCHANGED <<room, keys, job, dlq, table, cur, tx, drain, now, ledger>>

\* The processor returned or threw.  BullMQ moves the job only for the
\* execution that still holds its lock.
Settle(w, st, made) ==
  /\ job' = IF job[cur[w]].owner = w
            THEN [job EXCEPT ![cur[w]] =
                   [st |-> st, made |-> made, stalls |-> job[cur[w]].stalls, owner |-> None]]
            ELSE job
  /\ SaverReturns(w)
  /\ raw' = raw \ {w}
  /\ UNCHANGED <<room, keys, dels, dlq, table, drain, now, ledger>>

Complete(w) ==
  /\ pc[w] = "ack"
  /\ Settle(w, "completed", tries[w])

\* Mutants: an off-by-one, and BullMQ's default of a single attempt.
LastAttemptLate(w) == tries[w] >= MaxAttempts
LastAttemptAlways(w) == TRUE

LastAttempt(w) == tries[w] + 1 >= MaxAttempts

Retry(w) ==
  /\ pc[w] = "failed"
  /\ ~LastAttempt(w)
  /\ Settle(w, "delayed", tries[w] + 1)

\* Mutant: the backoff no longer outlasts the window.
LadderShortened(id) == TRUE

\* The retry ladder (2+4+8+16 s) outlasts the 10 s window of the job's id.
LadderOutlastsWindow(id) == id.win < now

Inlineable(id) == Cardinality(id.state) <= InlineMax

\* The copy the catch block can embed: the bytes in memory, or a read of the
\* key (which may itself fail).
RecoverableCopies(w) ==
  IF w \in raw THEN {TRUE}
  ELSE IF "redis" \in Faults THEN {cur[w] \in keys, FALSE} ELSE {cur[w] \in keys}

\* Final attempt: dead-letter the save, embedding the payload when there is a
\* copy and it is small enough, and delete the claim-check key.
DeadLetter(w) ==
  /\ pc[w] = "failed"
  /\ LastAttempt(w)
  /\ LadderOutlastsWindow(cur[w])
  /\ \E found \in RecoverableCopies(w) :
       LET has == found /\ Inlineable(cur[w])
       IN  /\ dlq' = dlq \cup {[id |-> cur[w], has |-> has]}
           /\ forfeited' = IF ~has /\ (w \in raw \/ cur[w] \in keys)
                           THEN forfeited \cup PayloadOf(cur[w]) ELSE forfeited
  /\ dels' = dels \cup {<<cur[w], w>>}
  /\ pc' = [pc EXCEPT ![w] = "rethrow"]
  /\ UNCHANGED <<room, keys, job, table, cur, tx, drain, now, accepted>>

\* DeadLetterQueue.add itself rejects: the job fails without a dead letter.
DeadLetterFails(w) ==
  /\ "dlq_down" \in Faults
  /\ pc[w] = "failed"
  /\ LastAttempt(w)
  /\ LadderOutlastsWindow(cur[w])
  /\ pc' = [pc EXCEPT ![w] = "rethrow"]
  /\ forfeited' = forfeited \cup PayloadOf(cur[w])
  /\ UNCHANGED <<room, queue, table, cur, tx, drain, now, accepted>>

Rethrow(w) ==
  /\ pc[w] = "rethrow"
  /\ Settle(w, "failed", tries[w])

\* The worker process dies: its transaction rolls back, its job stays active.
CrashWorker(w) ==
  /\ "worker_crash" \in Faults
  /\ pc[w] # "idle"
  /\ Settle(w, "active", tries[w])

----------------------------------------------------------------------------
(* BullMQ and Redis between the handlers.                                   *)

\* The backoff of a failed attempt elapses.
Promote(id) ==
  /\ job[id].st = "delayed"
  /\ job' = Moved(id, "wait", None, job[id].stalls)
  /\ UNCHANGED <<room, keys, dels, dlq, table, pc, cur, tx, drain, now, ledger>>

\* The stalled check finds an active job without a live lock: its worker died,
\* or is too busy to renew and runs on.
LockLapsed(id) == job[id].st = "active" /\ (job[id].owner = None \/ "stall" \in Faults)

\* Mutant: the stall is not counted.
RedeliverUncounted(id) ==
  /\ LockLapsed(id)
  /\ job[id].stalls < MaxStalls
  /\ job' = Moved(id, "wait", None, job[id].stalls)
  /\ UNCHANGED <<room, keys, dels, dlq, table, pc, cur, tx, drain, now, ledger>>

RedeliverStalled(id) ==
  /\ LockLapsed(id)
  /\ job[id].stalls < MaxStalls
  /\ job' = Moved(id, "wait", None, job[id].stalls + 1)
  /\ UNCHANGED <<room, keys, dels, dlq, table, pc, cur, tx, drain, now, ledger>>

\* Past maxStalledCount BullMQ fails the job itself: the processor's catch
\* block, and with it the dead letter, never runs.
FailStalled(id) ==
  /\ LockLapsed(id)
  /\ job[id].stalls = MaxStalls
  /\ LadderOutlastsWindow(id)
  /\ job' = Moved(id, "failed", None, job[id].stalls)
  /\ forfeited' = forfeited \cup PayloadOf(id)
  /\ UNCHANGED <<room, keys, dels, dlq, table, pc, cur, tx, drain, now, accepted>>

\* removeOnComplete and removeOnFail forget a finished job.
EvictJob(id) ==
  /\ "evict_job" \in Faults
  /\ job[id].st \in {"completed", "failed"}
  /\ job' = [job EXCEPT ![id] = NoJob]
  /\ UNCHANGED <<room, keys, dels, dlq, table, pc, cur, tx, drain, now, ledger>>

ApplyDel(d) ==
  /\ d \in dels
  /\ dels' = dels \ {d}
  /\ keys' = keys \ {d[1]}
  /\ UNCHANGED <<room, job, dlq, table, pc, cur, tx, drain, now, ledger>>

\* The key's TTL runs out, or volatile-lru evicts it.
LoseKey(id) ==
  /\ "key_loss" \in Faults
  /\ id \in keys
  /\ keys' = keys \ {id}
  /\ forfeited' = forfeited \cup PayloadOf(id)
  /\ UNCHANGED <<room, dels, job, dlq, table, pc, cur, tx, drain, now, accepted>>

Tick ==
  /\ now < MaxWindow
  /\ now' = now + 1
  /\ UNCHANGED <<room, queue, table, pc, cur, tx, drain, ledger>>

----------------------------------------------------------------------------
(* The document's lifecycle, as far as the store path can see it: what       *)
(* LifecycleFacts says may happen, at any time.  DocumentLifecycle           *)
(* implements it.                                                            *)

outside == <<live, flushes, queue, pc, cur, tx, drain, now, ledger>>

\* First edit, PUT or POST: the metadata row appears.  Nothing asks for the
\* tombstone: a room or a tab that missed the purge can bring the row back.
Anchor == Life!Anchors /\ UNCHANGED <<rows, outside>>

Trash == "trash" \in Faults /\ Life!Trashes /\ UNCHANGED <<rows, outside>>

Restore == Life!Restores /\ UNCHANGED <<rows, outside>>

\* The purge's seal event reaches whichever replicas it reaches, whenever it does.
SealRooms == "purge" \in Faults /\ Life!Seals /\ UNCHANGED <<rows, outside>>

\* So does the restore's; and a room that is unloaded is sealed no more.
UnsealRooms == Life!Unseals /\ UNCHANGED <<rows, outside>>

\* The row delete cascades to every version and leaves the tombstone; it waits
\* for row locks, and a transaction waiting on a deleted row finds no row at all.
\* The check that the document is in the trash came earlier, so a restore may have
\* landed meanwhile: any document with a metadata row may be purged.
Purge ==
  /\ "purge" \in Faults
  /\ Life!Purges
  /\ \A s \in Savers : pc[s] = "insert" => base[s] = 0
  /\ rows' = <<>>
  /\ base' = [s \in Savers |-> IF pc[s] = "blocked" THEN 0 ELSE base[s]]
  /\ pc' = [a \in Actors |-> IF pc[a] = "blocked" THEN "insert" ELSE pc[a]]
  /\ forfeited' = Edits
  /\ UNCHANGED <<live, flushes, queue, cur, raw, tries, drain, now, accepted>>

----------------------------------------------------------------------------
(* drainStoreDeadLetterQueue, with apply.                                   *)

\* One read of the metadata, the heads and the tombstones, then the loop.
DrainStarts ==
  /\ pc[Operator] = "idle"
  /\ dlq # {}
  /\ facts' = meta
  /\ todo' = dlq
  /\ pc' = [pc EXCEPT ![Operator] = "drain"]
  /\ UNCHANGED <<room, queue, table, cur, tx, entry, now, ledger>>

\* judgeStoreDlqEntry.
Disposition(d, m, pastRetention) ==
  CASE m = "trashed" -> "skip-trashed"
    [] m # "trashed" /\ ~d.has -> "discard"
    [] m = "live" /\ d.has -> IF pastRetention THEN "discard" ELSE "replay"
    [] m = "purged" /\ d.has -> "discard"
    [] m = "absent" /\ d.has -> "unresolved"

Ages == IF "aged" \in Faults THEN BOOLEAN ELSE {FALSE}

DrainReplays(d) ==
  /\ pc[Operator] = "drain"
  /\ d \in todo
  /\ now < MaxWindow
  /\ \E old \in Ages : Disposition(d, facts, old) = "replay"
  /\ SetStateKey(Operator, [state |-> d.id.state, win |-> now], "idle")
  /\ IF pc'[Operator] = "idle" THEN DrainStops ELSE entry' = d /\ UNCHANGED <<facts, todo>>
  /\ UNCHANGED <<room, dels, job, dlq, table, tx, now, ledger>>

ReplayQueued ==
  /\ pc[Operator] = "add"
  /\ job' = Added(cur[Operator])
  /\ pc' = [pc EXCEPT ![Operator] = "remove"]
  /\ UNCHANGED <<room, keys, dels, dlq, table, cur, tx, drain, now, ledger>>

\* The enqueue throws out of the drain; the dead letter stays.
ReplayFails ==
  /\ Withdraw(Operator)
  /\ DrainStops
  /\ UNCHANGED <<room, keys, dlq, table, tx, now, accepted>>

\* job.remove(), only once the replacement is queued.
ReplayedRemoved ==
  /\ pc[Operator] = "remove"
  /\ dlq' = dlq \ {entry}
  /\ todo' = todo \ {entry}
  /\ entry' = None
  /\ pc' = [pc EXCEPT ![Operator] = "drain"]
  /\ cur' = [cur EXCEPT ![Operator] = None]
  /\ UNCHANGED <<room, keys, dels, job, table, tx, facts, now, ledger>>

\* Every other disposition but "unresolved" removes the dead letter unreplayed.
DrainDrops(d) ==
  /\ pc[Operator] = "drain"
  /\ d \in todo
  /\ \E old \in Ages : Disposition(d, facts, old) \in {"discard", "skip-trashed"}
  /\ dlq' = dlq \ {d}
  /\ todo' = todo \ {d}
  /\ forfeited' = IF d.has THEN forfeited \cup d.id.state ELSE forfeited
  /\ UNCHANGED <<room, keys, dels, job, table, pc, cur, tx, facts, entry, now, accepted>>

DrainLeaves(d) ==
  /\ pc[Operator] = "drain"
  /\ d \in todo
  /\ Disposition(d, facts, FALSE) = "unresolved"
  /\ todo' = todo \ {d}
  /\ UNCHANGED <<room, queue, table, pc, cur, tx, facts, entry, now, ledger>>

DrainEnds ==
  /\ pc[Operator] = "drain"
  /\ todo = {}
  /\ DrainStops
  /\ UNCHANGED <<room, queue, table, tx, now, ledger>>

\* The script is killed, between queueing a replacement and removing, say.
DrainDies ==
  /\ "drain_crash" \in Faults
  /\ pc[Operator] # "idle"
  /\ DrainStops
  /\ UNCHANGED <<room, queue, table, tx, now, ledger>>

----------------------------------------------------------------------------
InstanceStep(i) ==
  \/ AddJob(i) \/ AddJobFails(i)
  \/ SelectHead(i) \/ LockGranted(i)
  \/ FallbackCommits(i) \/ FallbackRetries(i) \/ FallbackDrops(i)

WorkerStep(w) ==
  \/ Resolve(w) \/ SelectHead(w) \/ LockGranted(w)
  \/ WorkerCommits(w) \/ WorkerTxFails(w)
  \/ ReleaseKey(w) \/ Complete(w)
  \/ Retry(w) \/ DeadLetter(w) \/ DeadLetterFails(w) \/ Rethrow(w)

QueueStep(id) == Promote(id) \/ RedeliverStalled(id) \/ FailStalled(id)

OperatorStep ==
  \/ DrainStarts \/ ReplayQueued \/ ReplayFails \/ ReplayedRemoved \/ DrainEnds
  \/ \E d \in todo : DrainReplays(d) \/ DrainDrops(d) \/ DrainLeaves(d)

Environment ==
  \/ \E i \in Instances : RestartInstance(i) \/ \E e \in Edits : EditArrives(i, e)
  \/ \E w \in Workers : CrashWorker(w)
  \/ DrainDies
  \/ \E id \in JobIds : EvictJob(id) \/ LoseKey(id)
  \/ \E d \in dels : ApplyDel(d)
  \/ Tick \/ Anchor \/ Trash \/ Restore \/ SealRooms \/ UnsealRooms \/ Purge

Next ==
  \/ \E i \in Instances : Flush(i) \/ InstanceStep(i)
  \/ \E w \in Workers : WorkerStep(w) \/ \E id \in JobIds : Take(w, id)
  \/ \E id \in JobIds : QueueStep(id)
  \/ OperatorStep
  \/ Environment

Spec == Init /\ [][Next]_vars

\* Processes that are up keep running, BullMQ hands out what waits, backoffs and
\* stalled checks come due, and time passes.  Nothing else is fair: not the
\* arrival of edits, not a fire-and-forget DEL, not the operator.
Fairness ==
  /\ \A i \in Instances : WF_vars(InstanceStep(i))
  /\ \A w \in Workers : WF_vars(WorkerStep(w))
  /\ \A id \in JobIds : WF_vars(QueueStep(id)) /\ WF_vars(\E w \in Workers : Take(w, id))
  /\ WF_vars(Tick)

FairSpec == Spec /\ Fairness

----------------------------------------------------------------------------
(* Properties.                                                              *)

PcStates == {"idle", "add", "select", "blocked", "insert", "resolve", "saved",
             "failed", "ack", "rethrow", "drain", "remove"}

\* Every variable has its type.  In particular no job is handed out for more
\* than MaxAttempts attempts and no transaction reads a head beyond the table.
TypeOK ==
  /\ live \in [Instances -> SUBSET Edits]
  /\ sealed \subseteq Instances
  /\ rows \in Seq(SUBSET Edits)
  /\ meta \in Life!MetaStates
  /\ keys \subseteq JobIds
  /\ dels \subseteq JobIds \X Actors
  /\ job \in [JobIds -> Jobs]
  /\ dlq \subseteq DeadLetters
  /\ pc \in [Actors -> PcStates]
  /\ cur \in [Actors -> JobIds \cup {None}]
  /\ raw \subseteq Workers
  /\ base \in [Savers -> Nat]
  /\ tries \in [Savers -> Nat]
  /\ facts \in Life!MetaStates
  /\ todo \subseteq DeadLetters
  /\ entry \in DeadLetters \cup {None}
  /\ now \in 1..MaxWindow
  /\ flushes \in Nat
  /\ accepted \subseteq Edits
  /\ forfeited \subseteq Edits

\* A later version holds everything an earlier one does: whatever the order in
\* which workers and fallbacks commit, no stale snapshot becomes the newest row.
HistoryGrows ==
  \A v, w \in 1..Len(rows) : v <= w => rows[v] \subseteq rows[w]

\* The payload a job will still find when a worker resolves it: its key is there
\* and no DEL is on its way.
KeySafe(id) == id \in keys /\ \A a \in Actors : <<id, a>> \notin dels
Held(id) == job[id].st \in Pending /\ KeySafe(id)

\* Operations embedded in a dead letter of window k or later, carried by a job of
\* a later window, and all that are one of these, stored, or knowingly let go.
Embedded(k) == UNION {d.id.state : d \in {x \in dlq : x.has /\ x.id.win >= k}}
Carried(k)  == UNION {id.state : id \in {x \in JobIds : x.win > k /\ Held(x)}}
SafeFrom(k) == HeadState \cup forfeited \cup Embedded(k) \cup Carried(k)

\* An edit the store hook accepted is stored, or still on its way to the table,
\* or recoverable from a dead letter.  It is gone only where the code gives up a
\* payload by name: a lost claim-check key, a failed enqueue's DEL, a payload too
\* big to embed, a job failed without its catch block, a drain's refusal, a purge.
NoSilentLoss == accepted \subseteq SafeFrom(0)

\* The same as a refinement: the queues, retries, dead letters and fallbacks
\* together behave as the abstract promise of DurableSaves.
InFlight == Embedded(0) \cup Carried(0)

Durable == INSTANCE DurableSaves
  WITH Ops <- Edits, history <- rows, inflight <- InFlight,
       promised <- accepted, lost <- forfeited

ImplementsDurableSaves == Durable!DurableSpec

\* FOR UPDATE does its work: while a transaction holds the lock of the newest
\* row, nobody else appends, so its own insert cannot collide.
HeadLockHolds ==
  [][\A s \in Savers :
       pc[s] = "insert" /\ base[s] = Len(rows) /\ base[s] > 0 /\ Len(rows') > Len(rows)
         => pc'[s] # "insert"]_vars

\* Where no metadata row exists, as after a purge, only a worker's first-save branch
\* can bring a version back: a replica's fallback never does, seal or no seal.
OnlyWorkersRecreate ==
  [][(meta \in {"absent", "purged"} /\ rows' # rows)
       => (\E w \in Workers : pc[w] = "insert" /\ base[w] = 0)]_vars

\* The store hook always returns: Hocuspocus never unloads a room whose hook
\* hangs or rejects.
HookReturns == \A i \in Instances : (pc[i] # "idle") ~> (pc[i] = "idle")

\* No job is retried, redelivered or parked for ever.
JobsSettle == \A id \in JobIds : (job[id].st \in Pending) ~> (job[id].st \notin Pending)

\* While Redis and Postgres answer, every accepted edit reaches the newest version:
\* version collisions between concurrent jobs never use up the attempts, and only a
\* job whose workers keep dying can be lost.
SavesLand == \A e \in Edits : (e \in accepted) ~> (e \in HeadState \cup forfeited)

----------------------------------------------------------------------------
(* What the repository's own text says of this path.                        *)

\* queue.ts, on the drain: "The live path refuses a save on a soft-deleted document".
TrashRefusesSaves ==
  [][\A i \in Instances : meta = "trashed" /\ pc[i] = "idle" => pc'[i] # "add"]_vars
============================================================================
