----------------------------- MODULE VersionOps -----------------------------
(***************************************************************************)
(* The version history of one document on one replica: who and what a row   *)
(* says it is.  Live edits are saved by the debounced store hook; a         *)
(* checkpoint, a revert and a content-API write open a direct connection,   *)
(* stamp its context and run the same hook at once, and again when they     *)
(* disconnect (versionOps.ts, hocuspocusApply.ts, hocuspocus.config.ts).    *)
(* A revert first appends a backup row of its own (versionsStore.ts).       *)
(* People delete versions, retention prunes them (retention.ts).            *)
(*                                                                          *)
(* The content is a CRDT: what was ever inserted and what of it is deleted. *)
(* An op that writes content inserts a thing of its own.  How a job gets    *)
(* through Redis is StorePipeline's: here it is pending, and then a row.    *)
(***************************************************************************)
EXTENDS Naturals, Sequences, FiniteSets

CONSTANTS
  Users,     \* who types
  Owner,     \* the document's owner, who need not type
  Ops,       \* version operations and content writes
  Requests,  \* what may be asked for: see Asked
  Workers,   \* concurrent executions of the store-documents worker
  None,      \* no row, no name, nobody
  MaxEdits,  \* bound: edits per user
  MaxWindow, \* bound: dedupe windows (10 s each) that elapse
  MaxFaults, \* bound on faults
  Faults     \* the kinds of fault explored: see the actions that name one

\* The Y.Doc: what was ever inserted, and what of it is deleted.
Edits == [by : Users, n : 1..MaxEdits]
Docs == [ins : SUBSET (Edits \cup Ops), del : SUBSET (Edits \cup Ops)]

\* What a row or a job says of itself, and the two.
Triggers == {"websocket", "checkpoint", "revert", "api", "revert-backup"}
Claims == [name : Ops \cup {None}, trigger : Triggers, by : Users \cup {Owner, None},
           who : SUBSET Users]
Rows == [doc : Docs, says : Claims]
JobIds == [doc : Docs, win : 1..MaxWindow, force : Ops \cup {None}]
Jobs == [id : JobIds, says : Claims]
Txs == [base : Nat, job : Jobs]

\* What the caller of an operation is told.
Given == {"ok", "open-failed", "draft-document", "backup-failed", "persist-failed"}

ASSUME VersionAssumption ==
  /\ Edits \cap Ops = {} /\ None \notin Users \cup Ops \cup {Owner}
  /\ None \notin Rows /\ None \notin Txs /\ None \notin Docs /\ None \notin Given
  /\ MaxEdits \in Nat /\ MaxWindow \in Nat \ {0} /\ MaxFaults \in Nat

VARIABLES
  live,    \* the room's Y.Doc
  dirty,   \* is a debounced store scheduled
  typist,  \* whose connection's context that store will carry
  authors, \* contributorsByDocument: who typed since it was last drained
  wedged,  \* has a rejected store left the debouncer's execution behind
  op,      \* op[o]: where operation o stands
  jobs,    \* store jobs no worker has taken
  known,   \* the job ids of this dedupe window that BullMQ knows
  tx,      \* tx[w]: the head version and the job of worker w's transaction
  rows,    \* the Documents rows by version, None where one was deleted
  now,     \* the current dedupe window
  faults,  \* faults so far (bound)
  \* Observers, which no action reads.
  mishaps, \* the accidents so far that the properties excuse
  at       \* at[o]: the document operation o committed, None before

room  == <<live, dirty, typist, authors, wedged>>
queue == <<jobs, known>>
vars == <<room, op, queue, tx, rows, now, faults, mishaps, at>>

Empty == [ins |-> {}, del |-> {}]
Visible(d) == d.ins \ d.del
Holds(d, e) == e.ins \subseteq d.ins /\ e.del \subseteq d.del
Merge(d, e) == [ins |-> d.ins \cup e.ins, del |-> d.del \cup e.del]

\* The HTTP and WebSocket handlers' requests: a checkpoint and a revert always have a
\* name to give; only the socket's revert says who asked.
Asked ==
  [kind : {"checkpoint"}, by : {None}, named : {TRUE}]
    \cup [kind : {"revert"}, by : Users \cup {None}, named : {TRUE}]
    \cup [kind : {"append", "replace"}, by : {None}, named : BOOLEAN]
ASSUME RequestsAssumption == Requests \subseteq Asked

Stages == {"idle", "open", "backup", "appending", "commit", "flush", "leaving", "done"}
OpRecords == [pc : Stages, kind : {"checkpoint", "revert", "append", "replace"},
              by : Users \cup {None}, named : BOOLEAN, snap : Docs, who : SUBSET Users,
              base : Nat, tries : 0..1, stamped : BOOLEAN, answer : Given \cup {None}]
Accidents == {"bailed out", "stale load", "flush dropped", "gap refilled", "dead letter",
              "version deleted", "versions pruned"}

Says(name, trigger, by, who) == [name |-> name, trigger |-> trigger, by |-> by, who |-> who]

\* An op's own record: its request, the backup it took, whether its context carries the
\* consumed stamp, and its answer.
Fresh == [pc |-> "idle", kind |-> "checkpoint", by |-> None, named |-> FALSE,
          snap |-> Empty, who |-> {}, base |-> 0, tries |-> 0,
          stamped |-> FALSE, answer |-> None]

Init ==
  /\ live = Empty /\ dirty = FALSE /\ typist = None /\ authors = {}
  /\ wedged = FALSE
  /\ op = [o \in Ops |-> Fresh]
  /\ jobs = {} /\ known = {}
  /\ tx = [w \in Workers |-> None]
  /\ rows = <<>>
  /\ now = 1 /\ faults = 0
  /\ mishaps = {}
  /\ at = [o \in Ops |-> None]

Fault(kind) == kind \in Faults /\ faults < MaxFaults /\ faults' = faults + 1
Note(accident, happened) == mishaps' = IF happened THEN mishaps \cup {accident} ELSE mishaps
Excused(accidents) == mishaps \cap accidents # {}

----------------------------------------------------------------------------
(* Rows.                                                                    *)

Newest == Len(rows)
HeadDoc == IF rows = <<>> THEN Empty ELSE rows[Newest].doc

\* Mutant: the row takes the job's bytes alone.
MergedBlind(v, doc) == doc

\* A transaction that read version v as the head merges doc into it and inserts v + 1.
MergedInto(v, doc) == IF v = 0 THEN doc ELSE Merge(rows[v].doc, doc)
Row(doc, says) == [doc |-> doc, says |-> says]

\* The unique index has v + 1 already.
Collides(v) == v < Newest /\ rows[v + 1] # None

Insert(v, doc, says) ==
  /\ ~Collides(v)
  /\ rows' = IF v = Newest THEN Append(rows, Row(MergedInto(v, doc), says))
             ELSE [rows EXCEPT ![v + 1] = Row(MergedInto(v, doc), says)]

Bases == {tx[w].base : w \in {x \in Workers : tx[x] # None}}
           \cup {op[o].base : o \in {x \in Ops : op[x].pc = "appending"}}

----------------------------------------------------------------------------
(* The store hook.                                                          *)

\* Mutant: the store job's id is made of the bytes alone.
PlainId(force) == [doc |-> live, win |-> now, force |-> None]

JobId(force) == [doc |-> live, win |-> now, force |-> force]

Enqueues(id, says) ==
  /\ jobs' = IF id \in known THEN jobs ELSE jobs \cup {[id |-> id, says |-> says]}
  /\ known' = known \cup {id}
  /\ UNCHANGED <<rows, faults, mishaps>>

\* Mutant: the fallback drains again what the enqueue already took.
FallsBackBare(says) ==
  /\ Insert(Newest, live, [says EXCEPT !.who = {}]) /\ UNCHANGED mishaps
  /\ Fault("redis")
  /\ UNCHANGED queue

\* The enqueue fails and the replica saves by itself, or fails at that too and says
\* nothing.
FallsBack(says) ==
  /\ \/ Insert(Newest, live, says) /\ UNCHANGED mishaps
     \/ UNCHANGED rows /\ Note("flush dropped", TRUE)
  /\ Fault("redis")
  /\ UNCHANGED queue

\* store(): a draft is not saved; the contributors are drained once, for the job or the
\* fallback.  (Sealed rooms are DocumentLifecycle's.)
Store(name, trigger, by, force) ==
  IF live.ins = {} THEN
    UNCHANGED <<authors, queue, rows, faults, mishaps>>
  ELSE
    /\ LET says == Says(name, trigger, by, authors)
       IN  Enqueues(JobId(force), says) \/ FallsBack(says)
    /\ authors' = {}

----------------------------------------------------------------------------
(* The room.                                                                *)

\* Somebody types; contributorsExtension.onChange.
Types(u) ==
  /\ \E e \in Edits :
       /\ e.by = u /\ e.n = Cardinality({x \in live.ins \ Ops : x.by = u}) + 1
       /\ live' = [live EXCEPT !.ins = @ \cup {e}]
  /\ authors' = authors \cup {u}
  /\ dirty' = TRUE /\ typist' = u
  /\ UNCHANGED <<wedged, op, queue, tx, rows, now, faults, mishaps, at>>

\* The debounced store runs, or finds the rejected execution and rejects.
Autosaves ==
  /\ dirty /\ dirty' = FALSE /\ typist' = None
  /\ IF wedged THEN UNCHANGED <<authors, queue, rows, faults, mishaps>>
     ELSE Store(None, "websocket", typist, None)
  /\ UNCHANGED <<live, wedged, op, tx, now, at>>

\* The process dies with its operations; a new one loads the newest row.
Restarts ==
  /\ Fault("crash")
  /\ live' = HeadDoc /\ dirty' = FALSE /\ typist' = None /\ authors' = {}
  /\ wedged' = FALSE
  /\ op' = [o \in Ops |-> IF op[o].pc = "idle" THEN op[o] ELSE [Fresh EXCEPT !.pc = "done"]]
  /\ mishaps' = mishaps
       \cup {a \in {"bailed out"} : \E o \in Ops : op[o].pc \notin {"idle", "done"}}
       \cup {a \in {"stale load"} : live # HeadDoc}
  /\ UNCHANGED <<queue, tx, rows, now, at>>

----------------------------------------------------------------------------
(* Operations: runWithDirectConnection, checkpointOp, revertOp, applyContent. *)

Goes(o, to) == op' = [op EXCEPT ![o].pc = to]
Finishes(o) == op' = [op EXCEPT ![o] = [Fresh EXCEPT !.pc = "done", !.named = op[o].named,
                                                   !.answer = op[o].answer]]
Answers(o, answer) == op' = [op EXCEPT ![o].pc = "leaving", ![o].answer = answer]

\* The reads before the room is opened: a live document and, for a revert, the row.
Begins(o, ask) ==
  /\ op[o].pc = "idle"
  /\ ask.kind = "revert" => rows # <<>>
  /\ op' = [op EXCEPT ![o] = [Fresh EXCEPT !.pc = "open", !.kind = ask.kind, !.by = ask.by,
                                           !.named = ask.named]]
  /\ UNCHANGED <<room, queue, tx, rows, now, faults, mishaps, at>>

OpenFails(o) ==
  /\ op[o].pc = "open" /\ Fault("open")
  /\ op' = [op EXCEPT ![o].pc = "done", ![o].answer = "open-failed"]
  /\ UNCHANGED <<room, queue, tx, rows, now, mishaps, at>>

\* The room is open: a draft has no history to name or restore; a revert takes its
\* snapshot and drains the contributors onto it.
Opens(o) ==
  /\ op[o].pc = "open"
  /\ IF live.ins = {} /\ op[o].kind \in {"checkpoint", "revert"}
     THEN Answers(o, "draft-document") /\ Note("bailed out", TRUE) /\ UNCHANGED authors
     ELSE IF op[o].kind = "revert"
     THEN /\ op' = [op EXCEPT ![o].pc = "backup", ![o].snap = live, ![o].who = authors]
          /\ authors' = {} /\ UNCHANGED mishaps
     ELSE Goes(o, "commit") /\ UNCHANGED <<authors, mishaps>>
  /\ UNCHANGED <<live, dirty, typist, wedged, queue, tx, rows, now, faults, at>>

\* appendBackupRow's SELECT ... FOR UPDATE.
ReadsHead(o) ==
  /\ op[o].pc = "backup"
  /\ op' = [op EXCEPT ![o].pc = "appending", ![o].base = Newest]
  /\ UNCHANGED <<room, queue, tx, rows, now, faults, mishaps, at>>

BackupFails(o) ==
  /\ Answers(o, "backup-failed")
  /\ Note("bailed out", TRUE)
  /\ UNCHANGED <<room, queue, tx, rows, now, at>>

\* Mutant: a backup that cannot be written does not stop the revert.
BackupIgnored(o) ==
  /\ op[o].pc = "appending"
  /\ \/ /\ Insert(op[o].base, op[o].snap, Says(o, "revert-backup", op[o].by, op[o].who))
        /\ Note("gap refilled", op[o].base < Newest)
        /\ Goes(o, "commit")
        /\ UNCHANGED <<room, queue, tx, now, faults, at>>
     \/ /\ Fault("db") /\ Goes(o, "commit") /\ Note("bailed out", TRUE)
        /\ UNCHANGED <<room, queue, tx, rows, now, at>>

\* Its INSERT: a version collision is merged again once, anything else fails.
AppendsBackup(o) ==
  /\ op[o].pc = "appending"
  /\ \/ /\ Insert(op[o].base, op[o].snap, Says(o, "revert-backup", op[o].by, op[o].who))
        /\ Note("gap refilled", op[o].base < Newest)
        /\ Goes(o, "commit")
        /\ UNCHANGED <<room, queue, tx, now, faults, at>>
     \/ /\ Collides(op[o].base) /\ op[o].tries = 0
        /\ op' = [op EXCEPT ![o].pc = "backup", ![o].tries = 1]
        /\ UNCHANGED <<room, queue, tx, rows, now, faults, mishaps, at>>
     \/ Collides(op[o].base) /\ op[o].tries = 1 /\ UNCHANGED faults /\ BackupFails(o)
     \/ Fault("db") /\ BackupFails(o)

\* What the op does to the document: applyContentToDoc.
Mutated(o) ==
  CASE op[o].kind = "checkpoint" -> live
    [] op[o].kind = "append" -> [live EXCEPT !.ins = @ \cup {o}]
    [] OTHER -> [ins |-> live.ins \cup {o}, del |-> live.del \cup live.ins]

\* commit: the context is stamped and the document mutated; a mutation that throws
\* consumes the stamp.
Mutates(o) ==
  /\ op[o].pc = "commit"
  /\ \/ /\ live' = Mutated(o)
        /\ Goes(o, "flush")
        /\ UNCHANGED faults
     \/ /\ op[o].kind # "checkpoint" /\ Fault("mutate")
        /\ op' = [op EXCEPT ![o].pc = "leaving", ![o].stamped = TRUE,
                            ![o].answer = "persist-failed"]
        /\ UNCHANGED live
  /\ UNCHANGED <<dirty, typist, authors, wedged, queue, tx, rows, now, mishaps, at>>

Trigger(o) ==
  IF op[o].kind \in {"append", "replace"} THEN "api" ELSE op[o].kind
ForceKey(o) == IF op[o].named THEN o ELSE None
Name(o) == IF op[o].named THEN o ELSE None

\* transact's store: it replaces the debounced one; a hook chain that rejects first
\* wedges the debouncer.  Either way the stamp is consumed.
Flushes(o) ==
  /\ op[o].pc = "flush"
  /\ dirty' = FALSE /\ typist' = None
  /\ \/ /\ ~wedged
        /\ Store(Name(o), Trigger(o), op[o].by, ForceKey(o))
        /\ op' = [op EXCEPT ![o].pc = "leaving", ![o].stamped = TRUE, ![o].answer = "ok"]
        /\ at' = [at EXCEPT ![o] = live]
        /\ UNCHANGED wedged
     \/ /\ \/ wedged /\ UNCHANGED faults
           \/ Fault("lock")
        /\ op' = [op EXCEPT ![o].pc = "leaving", ![o].stamped = TRUE,
                            ![o].answer = "persist-failed"]
        /\ wedged' = TRUE
        /\ UNCHANGED <<authors, queue, rows, mishaps, at>>
  /\ UNCHANGED <<live, tx, now>>

\* Mutant: the name outlives the flush it was stamped for.
LeavesNamed(o) ==
  /\ op[o].pc = "leaving"
  /\ dirty' = FALSE /\ typist' = None
  /\ Finishes(o)
  /\ IF wedged THEN UNCHANGED <<authors, queue, rows, faults, mishaps>>
     ELSE Store(IF op[o].stamped THEN Name(o) ELSE None, "websocket", None, ForceKey(o))
  /\ UNCHANGED <<live, wedged, tx, now, at>>

\* Mutant: the consumed stamp falls back to the context's user.
LeavesAsOwner(o) ==
  /\ op[o].pc = "leaving"
  /\ dirty' = FALSE /\ typist' = None
  /\ Finishes(o)
  /\ IF wedged THEN UNCHANGED <<authors, queue, rows, faults, mishaps>>
     ELSE Store(None, "websocket", Owner, IF op[o].stamped THEN ForceKey(o) ELSE None)
  /\ UNCHANGED <<live, wedged, tx, now, at>>

\* disconnect runs the hook once more, on the same context: the name and the trigger
\* are gone, the null actor and the force key stay; an op that bailed out before its
\* commit still has the owner for its actor.
Leaves(o) ==
  /\ op[o].pc = "leaving"
  /\ dirty' = FALSE /\ typist' = None
  /\ Finishes(o)
  /\ IF wedged THEN UNCHANGED <<authors, queue, rows, faults, mishaps>>
     ELSE IF op[o].stamped THEN Store(None, "websocket", None, ForceKey(o))
     ELSE Store(None, "websocket", Owner, None)
  /\ UNCHANGED <<live, wedged, tx, now, at>>

----------------------------------------------------------------------------
(* The worker, deletion and retention.                                      *)

Takes(w, j) ==
  /\ tx[w] = None
  /\ tx' = [tx EXCEPT ![w] = [base |-> Newest, job |-> j]]
  /\ jobs' = jobs \ {j}
  /\ UNCHANGED <<room, op, known, rows, now, faults, mishaps, at>>

\* The transaction commits, collides and is retried, or the job runs out of attempts.
Saves(w) ==
  /\ tx[w] # None
  /\ \/ /\ Insert(tx[w].base, tx[w].job.id.doc, tx[w].job.says)
        /\ Note("gap refilled", tx[w].base < Newest)
        /\ tx' = [tx EXCEPT ![w] = None]
        /\ UNCHANGED faults
     \/ /\ Collides(tx[w].base)
        /\ tx' = [tx EXCEPT ![w].base = Newest]
        /\ UNCHANGED <<rows, faults, mishaps>>
     \/ /\ Fault("job")
        /\ tx' = [tx EXCEPT ![w] = None]
        /\ Note("dead letter", TRUE)
        /\ UNCHANGED rows
  /\ UNCHANGED <<room, op, queue, now, at>>

\* Mutant: the newest version may be deleted too.
DeletesAny(v) ==
  /\ rows[v] # None /\ v \notin Bases /\ Fault("delete")
  /\ rows' = IF v = Newest THEN SubSeq(rows, 1, v - 1) ELSE [rows EXCEPT ![v] = None]
  /\ Note("version deleted", TRUE)
  /\ UNCHANGED <<room, op, queue, tx, now, at>>

\* deleteVersionRow: one statement; a row some transaction has locked waits for it.
Deletes(v) ==
  /\ rows[v] # None /\ v < Newest /\ v \notin Bases /\ Fault("delete")
  /\ rows' = [rows EXCEPT ![v] = None]
  /\ Note("version deleted", TRUE)
  /\ UNCHANGED <<room, op, queue, tx, now, at>>

\* The rows pruneAutosaveVersions thins, when it reaches back from version v.
Thinned(v) == {k \in 1..v :
  /\ rows[k] # None
  /\ rows[k].says.name = None \/ rows[k].says.trigger = "revert-backup"}

\* Mutant: a day's newest row goes too.
PrunesAll(v) ==
  /\ Thinned(v) # {} /\ Fault("prune") /\ Thinned(v) \cap Bases = {}
  /\ rows' = [k \in 1..Newest |-> IF k \in Thinned(v) THEN None ELSE rows[k]]
  /\ Note("versions pruned", TRUE)
  /\ UNCHANGED <<room, op, queue, tx, now, at>>

\* The newest of each day stays; where the days end is left open.
Prunes(v) ==
  /\ Thinned(v) # {} /\ Fault("prune")
  /\ \E kept \in SUBSET Thinned(v) :
       /\ kept # Thinned(v) /\ \E last \in kept : \A k \in Thinned(v) : k <= last
       /\ (Thinned(v) \ kept) \cap Bases = {}
       /\ rows' = [k \in 1..Newest |-> IF k \in Thinned(v) \ kept THEN None ELSE rows[k]]
  /\ Note("versions pruned", TRUE)
  /\ UNCHANGED <<room, op, queue, tx, now, at>>

\* No id of a past window is asked for again.
WindowPasses ==
  /\ now < MaxWindow /\ now' = now + 1
  /\ known' = {}
  /\ UNCHANGED <<room, op, jobs, tx, rows, faults, mishaps, at>>

Next ==
  \/ \E u \in Users : Types(u)
  \/ Autosaves \/ Restarts
  \/ \E o \in Ops :
       \/ OpenFails(o) \/ Opens(o) \/ ReadsHead(o) \/ AppendsBackup(o)
       \/ Mutates(o) \/ Flushes(o) \/ Leaves(o)
       \/ \E ask \in Requests : Begins(o, ask)
  \/ \E w \in Workers : Saves(w) \/ \E j \in jobs : Takes(w, j)
  \/ \E v \in 1..Newest : Deletes(v) \/ Prunes(v)
  \/ WindowPasses

Spec == Init /\ [][Next]_vars

----------------------------------------------------------------------------
Versions == {v \in 1..Newest : rows[v] # None}
Running == {w \in Workers : tx[w] # None}

\* What the history says and will say: rows, pending jobs, jobs being saved.
Sayings ==
  {[doc |-> rows[v].doc, says |-> rows[v].says] : v \in Versions}
    \cup {[doc |-> j.id.doc, says |-> j.says] : j \in jobs}
    \cup {[doc |-> tx[w].job.id.doc, says |-> tx[w].job.says] : w \in Running}

NamedBy(o) == {s \in Sayings : s.says.name = o /\ s.says.trigger # "revert-backup"}

\* The newest version is never a gap, and no transaction holds a head the table has not.
TypeOK ==
  /\ live \in Docs /\ dirty \in BOOLEAN /\ typist \in Users \cup {None}
  /\ authors \subseteq Users /\ wedged \in BOOLEAN
  /\ op \in [Ops -> OpRecords] /\ \A o \in Ops : op[o].base <= Newest
  /\ jobs \subseteq Jobs
  /\ known \subseteq JobIds /\ \A id \in known : id.win = now
  /\ tx \in [Workers -> Txs \cup {None}] /\ \A w \in Running : tx[w].base <= Newest
  /\ rows \in Seq(Rows \cup {None}) /\ (rows # <<>> => rows[Newest] # None)
  /\ now \in 1..MaxWindow /\ faults \in 0..MaxFaults
  /\ mishaps \subseteq Accidents
  /\ at \in [Ops -> Docs \cup {None}]

\* A name marks the one version its operation made: no autosave, no second flush and no
\* operation that failed inherits it, and that version has what the operation committed.
NamesMarkTheirVersion ==
  /\ \A o \in Ops : Cardinality(
       {v \in Versions : rows[v].says.name = o /\ rows[v].says.trigger # "revert-backup"}) <= 1
  /\ \A o \in Ops : \A s \in NamedBy(o) : at[o] # None /\ Holds(s.doc, at[o])

\* An operation that answered "ok" has its named version, or a job that will make it.
AnswersAreKept ==
  \A o \in Ops : op[o].answer = "ok" /\ op[o].named =>
    NamedBy(o) # {} \/ Excused({"flush dropped", "dead letter", "version deleted"})

\* Whoever typed what a version holds is on some version's list, or on its way there.
AuthorsAreCredited ==
  \A v \in Versions : \A e \in rows[v].doc.ins \ Ops :
    \/ \E s \in Sayings : e.by \in s.says.who
    \/ e.by \in authors \/ \E o \in Ops : e.by \in op[o].who
    \/ Excused({"flush dropped", "bailed out", "dead letter", "version deleted",
                "versions pruned"})

\* A version is put down to somebody who typed some of it or asked for it, never to the
\* owner whom a direct connection's context only carries.
ActorsActed ==
  \A s \in Sayings : s.says.by # None =>
    \/ \E e \in s.doc.ins \ Ops : e.by = s.says.by
    \/ s.says.name # None
    \/ Excused({"bailed out"})

\* The newest version holds every other: a cold load misses nothing that was saved.
HeadHoldsAll ==
  \A v \in Versions : Holds(HeadDoc, rows[v].doc) \/ Excused({"gap refilled"})

\* And it never goes back.
HeadNeverRewinds == [][Holds(HeadDoc', HeadDoc)]_vars

\* A revert replaces nothing its backup saw unless some version still shows it.
RevertsAreUndoable ==
  [][\A o \in Ops :
       op[o].kind = "revert" /\ op[o].pc = "commit" /\ live' # live =>
         \A t \in Visible(live) \cap Visible(op[o].snap) :
           \/ \E v \in Versions : t \in Visible(rows[v].doc)
           \/ Excused({"version deleted", "versions pruned", "stale load"})]_vars
=============================================================================
