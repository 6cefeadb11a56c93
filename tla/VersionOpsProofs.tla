-------------------------- MODULE VersionOpsProofs --------------------------
(***************************************************************************)
(* Proofs about VersionOps, for any number of users, operations, workers,   *)
(* edits, windows and faults.                                               *)
(***************************************************************************)
EXTENDS VersionOps, SequenceTheorems, FiniteSetTheorems, TLAPS

----------------------------------------------------------------------------
(* The inductive invariant.                                                 *)

\* The head a transaction read is still a version: its row lock keeps deletions off.
LocksOK ==
  /\ \A w \in Running : tx[w].base > 0 => rows[tx[w].base] # None
  /\ \A o \in Ops : op[o].pc = "appending" /\ op[o].base > 0 => rows[op[o].base] # None

\* Only an operation past its flush has committed something or left its force key in
\* an id; one about to flush has something to save; one that leaves without a stamp
\* bailed out; only a named operation says who asked.
StageOK ==
  \A o \in Ops :
    /\ at[o] # None => op[o].pc \in {"leaving", "done"}
    /\ \A id \in known : id.force = o => op[o].pc \in {"leaving", "done"}
    /\ op[o].pc \in {"backup", "appending", "flush"} => live.ins # {}
    /\ op[o].pc = "commit" /\ op[o].kind \in {"checkpoint", "revert"} => live.ins # {}
    /\ op[o].pc = "leaving" /\ ~op[o].stamped => "bailed out" \in mishaps
    /\ op[o].by # None => op[o].named

\* A row, job or transaction that says it is operation o's.
Marks(says, o) == says.name = o /\ says.trigger # "revert-backup"

\* What carries o's name holds what o committed.
NameOK ==
  \A o \in Ops : \A s \in Sayings :
    Marks(s.says, o) => at[o] # None /\ Holds(s.doc, at[o])

\* And there is one such thing: a job becomes a transaction, and that a row.
UniqueOK ==
  \A o \in Ops :
    /\ \A v, x \in Versions : Marks(rows[v].says, o) /\ Marks(rows[x].says, o) => v = x
    /\ \A j, k \in jobs : Marks(j.says, o) /\ Marks(k.says, o) => j = k
    /\ \A w, x \in Running : Marks(tx[w].job.says, o) /\ Marks(tx[x].job.says, o) => w = x
    /\ \A v \in Versions, j \in jobs : ~(Marks(rows[v].says, o) /\ Marks(j.says, o))
    /\ \A v \in Versions, w \in Running : ~(Marks(rows[v].says, o) /\ Marks(tx[w].job.says, o))
    /\ \A j \in jobs, w \in Running : ~(Marks(j.says, o) /\ Marks(tx[w].job.says, o))

\* Whose context the debounced store will carry has typed something.
ActorOK ==
  /\ ActorsActed
  /\ typist # None => \E e \in live.ins \ Ops : e.by = typist

\* u is on some version's list, or will be.
Uncredited == {"flush dropped", "bailed out", "dead letter", "version deleted",
               "versions pruned"}
Told(u) == \E s \in Sayings : u \in s.says.who
Credited(u) == Told(u) \/ (\E o \in Ops : u \in op[o].who) \/ Excused(Uncredited)

\* Who typed what a document holds is credited; the room's own may still be to drain.
\* Whom an operation drained is told of by the backup it wrote.
CreditOK ==
  /\ \A s \in Sayings : \A e \in s.doc.ins \ Ops : Credited(e.by)
  /\ \A id \in known : \A e \in id.doc.ins \ Ops : Credited(e.by)
  /\ \A o \in Ops : \A e \in op[o].snap.ins \ Ops : Credited(e.by)
  /\ \A e \in live.ins \ Ops : e.by \in authors \/ Credited(e.by)
  /\ \A o \in Ops : op[o].pc \notin {"backup", "appending"} =>
       \A u \in op[o].who : Told(u) \/ Excused(Uncredited)

\* Nothing is deleted anywhere that is not deleted in the room, and what a revert is
\* about to replace is in a version.
RevertOK ==
  /\ \/ "stale load" \in mishaps
     \/ /\ \A s \in Sayings : s.doc.del \subseteq live.del
        /\ \A o \in Ops : op[o].snap.del \subseteq live.del
  /\ \A o \in Ops : op[o].kind = "revert" /\ op[o].pc = "commit" =>
       \/ \E v \in Versions : op[o].snap.ins \subseteq rows[v].doc.ins
       \/ Excused({"version deleted", "versions pruned"})

VersionInv ==
  /\ TypeOK /\ LocksOK /\ StageOK
  /\ NameOK /\ UniqueOK /\ AnswersAreKept /\ ActorOK /\ CreditOK
  /\ HeadHoldsAll /\ RevertOK

----------------------------------------------------------------------------
(* What the steps do to versions, jobs and transactions.                    *)

\* What a store hook that runs now would say of the room.
Hooked(says) ==
  \/ Autosaves /\ says = Says(None, "websocket", typist, authors)
  \/ \E o \in Ops : Flushes(o) /\ op'[o].answer = "ok"
                    /\ says = Says(Name(o), Trigger(o), op[o].by, authors)
  \/ \E o \in Ops : Leaves(o)
                    /\ says = Says(None, "websocket", IF op[o].stamped THEN None ELSE Owner, authors)

\* A job is made, or the fallback makes a version.
Queues == \E says \in Claims, force \in Ops \cup {None} :
  /\ Hooked(says) /\ says.who = authors /\ live.ins # {}
  /\ jobs' = jobs \cup {[id |-> JobId(force), says |-> says]}
  /\ UNCHANGED <<tx, rows>>
SavesItself == \E says \in Claims :
  /\ Hooked(says) /\ says.who = authors /\ live.ins # {}
  /\ Insert(Newest, live, says)
  /\ UNCHANGED <<jobs, tx>>

\* The backup is written; a job's transaction commits, reads again, or gives up.
BacksUp(o) ==
  /\ AppendsBackup(o) /\ op[o].pc = "appending"
  /\ Insert(op[o].base, op[o].snap, Says(o, "revert-backup", op[o].by, op[o].who))
  /\ Note("gap refilled", op[o].base < Newest)
  /\ Goes(o, "commit")
  /\ UNCHANGED <<jobs, tx>>
Commits(w) ==
  /\ tx[w] # None /\ tx' = [tx EXCEPT ![w] = None]
  /\ Insert(tx[w].base, tx[w].job.id.doc, tx[w].job.says)
  /\ Note("gap refilled", tx[w].base < Newest)
  /\ UNCHANGED jobs
ReadsAgain(w) ==
  /\ tx[w] # None /\ tx' = [tx EXCEPT ![w].base = Newest]
  /\ UNCHANGED <<jobs, rows>>
GivesUp(w) ==
  /\ tx[w] # None /\ tx' = [tx EXCEPT ![w] = None]
  /\ "dead letter" \in mishaps'
  /\ UNCHANGED <<jobs, rows>>

\* Versions go, but not the newest and none a transaction has locked.
Thins ==
  /\ Newest' = Newest /\ rows' \in Seq(Rows \cup {None})
  /\ \A k \in 1..Newest : rows'[k] \in {rows[k], None}
  /\ rows # <<>> => rows'[Newest] = rows[Newest]
  /\ \A k \in Bases : k > 0 => rows'[k] = rows[k]
  /\ \/ "version deleted" \in mishaps'
     \/ /\ "versions pruned" \in mishaps'
        /\ \A k \in 1..Newest : rows'[k] # rows[k] =>
             rows[k].says.name = None \/ rows[k].says.trigger = "revert-backup"
  /\ UNCHANGED <<jobs, tx>>

\* Everything a store hook can do.
LEMMA StoreKinds ==
  ASSUME TypeOK, NEW name \in Ops \cup {None}, NEW trigger \in Triggers,
         NEW by \in Users \cup {Owner, None}, NEW force \in Ops \cup {None},
         Store(name, trigger, by, force)
  PROVE  LET says == Says(name, trigger, by, authors)
         IN  /\ says \in Claims /\ says.who = authors
             /\ \/ live.ins = {} /\ UNCHANGED <<authors, queue, rows, faults, mishaps>>
                \/ /\ live.ins # {} /\ authors' = {}
                   /\ \/ /\ UNCHANGED <<rows, faults, mishaps>>
                         /\ known' = known \cup {JobId(force)}
                         /\ \/ JobId(force) \in known /\ jobs' = jobs
                            \/ /\ JobId(force) \notin known
                               /\ jobs' = jobs \cup {[id |-> JobId(force), says |-> says]}
                      \/ UNCHANGED <<queue, mishaps>> /\ Insert(Newest, live, says)
                         /\ faults < MaxFaults /\ faults' = faults + 1
                      \/ UNCHANGED <<queue, rows>> /\ mishaps' = mishaps \cup {"flush dropped"}
                         /\ faults < MaxFaults /\ faults' = faults + 1
<1> DEFINE says == Says(name, trigger, by, authors)
<1>1. says \in Claims /\ says.who = authors
  BY DEF Says, Claims, TypeOK
<1>2. CASE live.ins = {}
  BY <1>1, <1>2 DEF Store
<1>3. CASE live.ins # {}
  <2>1. authors' = {} /\ (Enqueues(JobId(force), says) \/ FallsBack(says))
    BY <1>3 DEF Store
  <2> HIDE DEF says
  <2>2. CASE Enqueues(JobId(force), says)
    BY <1>1, <1>3, <2>1, <2>2 DEF Enqueues, says
  <2>3. CASE FallsBack(says)
    BY <1>1, <1>3, <2>1, <2>3 DEF FallsBack, Fault, Note, says
  <2> QED BY <2>1, <2>2, <2>3
<1> QED BY <1>2, <1>3

\* Every step does one of these to the versions, the jobs and the transactions.
LEMMA StepKinds ==
  ASSUME TypeOK, LocksOK, Next
  PROVE  \/ UNCHANGED <<jobs, tx, rows>>
         \/ Queues \/ SavesItself
         \/ \E o \in Ops : BacksUp(o)
         \/ \E w \in Workers : \/ Commits(w) \/ ReadsAgain(w) \/ GivesUp(w)
                               \/ \E j \in jobs : Takes(w, j)
         \/ Thins
<1> USE DEF queue, room
<1>1. CASE Autosaves
  <2>1. CASE wedged
    BY <1>1, <2>1 DEF Autosaves
  <2>2. CASE ~wedged
    <3>1. Store(None, "websocket", typist, None)
      BY <1>1, <2>2 DEF Autosaves
    <3>2. UNCHANGED tx
      BY <1>1 DEF Autosaves
    <3>3. typist \in Users \cup {Owner, None} /\ "websocket" \in Triggers
      BY DEF TypeOK, Triggers
    <3> DEFINE says == Says(None, "websocket", typist, authors)
    <3>4. Hooked(says)
      BY <1>1 DEF Hooked
    <3> HIDE DEF says
    <3>5. \/ UNCHANGED <<jobs, rows>> \/ (Insert(Newest, live, says) /\ UNCHANGED jobs)
          \/ jobs' = jobs \cup {[id |-> JobId(None), says |-> says]} /\ UNCHANGED rows
      BY <3>1, <3>3, StoreKinds DEF says
    <3>6. says \in Claims /\ says.who = authors /\ (live.ins # {} \/ UNCHANGED <<jobs, rows>>)
      BY <3>1, <3>3, StoreKinds DEF says
    <3> QED BY <3>2, <3>4, <3>5, <3>6 DEF Queues, SavesItself
  <2> QED BY <2>1, <2>2
<1>2. ASSUME NEW o \in Ops, Flushes(o)
      PROVE  UNCHANGED <<jobs, tx, rows>> \/ Queues \/ SavesItself
  <2>0. UNCHANGED tx
    BY <1>2 DEF Flushes
  <2>1. CASE UNCHANGED <<queue, rows>>
    BY <2>0, <2>1
  <2>2. CASE ~UNCHANGED <<queue, rows>>
    <3>1. Store(Name(o), Trigger(o), op[o].by, ForceKey(o))
          /\ op' = [op EXCEPT ![o].pc = "leaving", ![o].stamped = TRUE, ![o].answer = "ok"]
      BY <1>2, <2>2 DEF Flushes
    <3>2. op'[o].answer = "ok"
      BY <3>1 DEF TypeOK, OpRecords
    <3>3. /\ Name(o) \in Ops \cup {None} /\ ForceKey(o) \in Ops \cup {None}
          /\ Trigger(o) \in Triggers /\ op[o].by \in Users \cup {Owner, None}
      BY DEF Name, ForceKey, Trigger, Triggers, TypeOK, OpRecords
    <3> DEFINE says == Says(Name(o), Trigger(o), op[o].by, authors)
    <3>4. Hooked(says)
      BY <1>2, <3>2 DEF Hooked
    <3> HIDE DEF says
    <3>5. \/ UNCHANGED <<jobs, rows>> \/ (Insert(Newest, live, says) /\ UNCHANGED jobs)
          \/ jobs' = jobs \cup {[id |-> JobId(ForceKey(o)), says |-> says]} /\ UNCHANGED rows
      BY <3>1, <3>3, StoreKinds DEF says
    <3>6. says \in Claims /\ says.who = authors /\ (live.ins # {} \/ UNCHANGED <<jobs, rows>>)
      BY <3>1, <3>3, StoreKinds DEF says
    <3> QED BY <2>0, <3>3, <3>4, <3>5, <3>6 DEF Queues, SavesItself
  <2> QED BY <2>1, <2>2
<1>3. ASSUME NEW o \in Ops, Leaves(o)
      PROVE  UNCHANGED <<jobs, tx, rows>> \/ Queues \/ SavesItself
  <2>0. UNCHANGED tx
    BY <1>3 DEF Leaves
  <2>1. CASE wedged
    BY <1>3, <2>0, <2>1 DEF Leaves
  <2>2. CASE ~wedged
    <3> DEFINE by == IF op[o].stamped THEN None ELSE Owner
               force == IF op[o].stamped THEN ForceKey(o) ELSE None
               says == Says(None, "websocket", by, authors)
    <3>1. Store(None, "websocket", by, force)
      BY <1>3, <2>2 DEF Leaves
    <3>2. by \in Users \cup {Owner, None} /\ force \in Ops \cup {None} /\ "websocket" \in Triggers
      BY DEF ForceKey, Triggers
    <3>4. Hooked(says)
      BY <1>3 DEF Hooked
    <3> HIDE DEF says, by, force
    <3>5. \/ UNCHANGED <<jobs, rows>> \/ (Insert(Newest, live, says) /\ UNCHANGED jobs)
          \/ jobs' = jobs \cup {[id |-> JobId(force), says |-> says]} /\ UNCHANGED rows
      BY <3>1, <3>2, StoreKinds DEF says
    <3>6. says \in Claims /\ says.who = authors /\ (live.ins # {} \/ UNCHANGED <<jobs, rows>>)
      BY <3>1, <3>2, StoreKinds DEF says
    <3> QED BY <2>0, <3>2, <3>4, <3>5, <3>6 DEF Queues, SavesItself
  <2> QED BY <2>1, <2>2
<1>4. ASSUME NEW o \in Ops, AppendsBackup(o)
      PROVE  UNCHANGED <<jobs, tx, rows>> \/ BacksUp(o)
  BY <1>4 DEF AppendsBackup, BackupFails, BacksUp
<1>5. ASSUME NEW w \in Workers, Saves(w)
      PROVE  Commits(w) \/ ReadsAgain(w) \/ GivesUp(w)
  BY <1>5 DEF Saves, Commits, ReadsAgain, GivesUp, Note
<1>6. ASSUME NEW v \in 1..Newest, Deletes(v) PROVE Thins
  <2>1. rows' = [rows EXCEPT ![v] = None] /\ v < Newest /\ v \notin Bases
    BY <1>6 DEF Deletes
  <2>2. "version deleted" \in mishaps' /\ UNCHANGED <<jobs, tx>>
    BY <1>6 DEF Deletes, Note
  <2>3. Newest \in Nat
    BY DEF Newest, TypeOK
  <2>4. /\ rows' \in Seq(Rows \cup {None}) /\ Newest' = Newest
        /\ \A k \in 1..Newest : rows'[k] = IF k = v THEN None ELSE rows[k]
    BY <2>1, ExceptSeq DEF TypeOK, Newest
  <2>5. \A k \in Bases : k \in 0..Newest
    BY DEF Bases, TypeOK, Running, OpRecords, Txs
  <2>6. rows # <<>> => Newest \in 1..Newest
    BY <2>3, EmptySeq DEF TypeOK, Newest
  <2>7. \A k \in 1..Newest : rows'[k] \in {rows[k], None}
    BY <2>4
  <2>8. rows # <<>> => rows'[Newest] = rows[Newest]
    BY <2>1, <2>3, <2>4, <2>6
  <2>9. \A k \in Bases : k > 0 => rows'[k] = rows[k]
    BY <2>1, <2>3, <2>4, <2>5
  <2> QED BY <2>2, <2>4, <2>7, <2>8, <2>9 DEF Thins
<1>7. ASSUME NEW v \in 1..Newest, Prunes(v) PROVE Thins
  <2>1. PICK kept \in SUBSET Thinned(v) :
          /\ kept # Thinned(v) /\ \E last \in kept : \A k \in Thinned(v) : k <= last
          /\ (Thinned(v) \ kept) \cap Bases = {}
          /\ rows' = [k \in 1..Newest |-> IF k \in Thinned(v) \ kept THEN None ELSE rows[k]]
    BY <1>7 DEF Prunes
  <2>2. "versions pruned" \in mishaps' /\ UNCHANGED <<jobs, tx>>
    BY <1>7 DEF Prunes, Note
  <2>3. Newest \in Nat /\ \A k \in 1..Newest : rows[k] \in Rows \cup {None}
    BY ElementOfSeq DEF Newest, TypeOK
  <2>4. rows' \in [1..Newest -> Rows \cup {None}]
    BY <2>1, <2>3
  <2>5. rows' \in Seq(Rows \cup {None}) /\ Newest' = Newest
    BY <2>3, <2>4, SeqDef DEF Newest
  <2>6. \A k \in 1..Newest : rows'[k] = IF k \in Thinned(v) \ kept THEN None ELSE rows[k]
    BY <2>1
  <2>7. \A k \in Bases : k \in 0..Newest
    BY DEF Bases, TypeOK, Running, OpRecords, Txs
  <2>8. rows # <<>> => Newest \in 1..Newest
    BY <2>3, EmptySeq DEF TypeOK, Newest
  <2>9. Newest \notin Thinned(v) \ kept
    BY <2>1, <2>3 DEF Thinned
  <2>10. \A k \in Thinned(v) : rows[k].says.name = None \/ rows[k].says.trigger = "revert-backup"
    BY DEF Thinned
  <2>11. \A k \in 1..Newest : rows'[k] \in {rows[k], None}
    BY <2>6
  <2>12. rows # <<>> => rows'[Newest] = rows[Newest]
    BY <2>6, <2>8, <2>9
  <2>13. \A k \in Bases : k > 0 => rows'[k] = rows[k]
    BY <2>1, <2>3, <2>6, <2>7
  <2>14. \A k \in 1..Newest : rows'[k] # rows[k] =>
           rows[k].says.name = None \/ rows[k].says.trigger = "revert-backup"
    BY <2>6, <2>10, SMTT(30)
  <2> QED BY <2>2, <2>5, <2>11, <2>12, <2>13, <2>14 DEF Thins
<1>8. ASSUME \/ \E u \in Users : Types(u)
             \/ \E o \in Ops : \/ OpenFails(o) \/ Opens(o) \/ ReadsHead(o) \/ Mutates(o)
                               \/ \E ask \in Requests : Begins(o, ask)
             \/ Restarts \/ WindowPasses
      PROVE  UNCHANGED <<jobs, tx, rows>>
  BY <1>8 DEF Types, OpenFails, Opens, ReadsHead, Mutates, Begins, Restarts, WindowPasses
<1> QED BY <1>1, <1>2, <1>3, <1>4, <1>5, <1>6, <1>7, <1>8 DEF Next

\* Merging documents gives one.
LEMMA MergeTyped ==
  ASSUME NEW d \in Docs, NEW e \in Docs
  PROVE  Merge(d, e) \in Docs /\ Holds(Merge(d, e), d) /\ Holds(Merge(d, e), e)
BY DEF Docs, Merge, Holds

\* A head that was read: none, or a version.
ReadHead(v) == v \in 0..Newest /\ (v > 0 => rows[v] # None)

\* An insert makes one version, which holds the head it read and the payload, and
\* leaves all others alone.  Behind the newest version it fills a gap.
LEMMA InsertFacts ==
  ASSUME TypeOK, NEW v, ReadHead(v), NEW doc \in Docs, NEW says \in Claims,
         Insert(v, doc, says)
  PROVE  /\ rows' \in Seq(Rows \cup {None})
         /\ Newest \in Nat /\ Newest' = (IF v = Newest THEN Newest + 1 ELSE Newest)
         /\ v + 1 \in 1..Newest'
         /\ rows'[v + 1] = Row(MergedInto(v, doc), says) /\ rows'[v + 1] \in Rows
         /\ Holds(MergedInto(v, doc), doc)
         /\ \A k \in 1..Newest : k # v + 1 => rows'[k] = rows[k]
         /\ \A k \in 1..Newest' : k # v + 1 => k \in 1..Newest
         /\ v < Newest => v + 1 < Newest /\ rows[v + 1] = None
         /\ rows' # <<>> /\ rows'[Newest'] # None
<1>0. Newest \in Nat /\ v \in Nat /\ v <= Newest
  BY DEF Newest, TypeOK, ReadHead
<1>1. \A k \in 1..Newest : rows[k] \in Rows \cup {None}
  BY ElementOfSeq DEF TypeOK, Newest
<1>2. MergedInto(v, doc) \in Docs /\ Holds(MergedInto(v, doc), doc)
  <2>1. CASE v = 0
    BY <2>1 DEF MergedInto, Holds
  <2>2. CASE v > 0
    <3>1. rows[v].doc \in Docs
      BY <1>0, <1>1, <2>2 DEF ReadHead, Rows
    <3> QED BY <2>2, <3>1, MergeTyped DEF MergedInto
  <2> QED BY <1>0, <2>1, <2>2
<1> DEFINE row == Row(MergedInto(v, doc), says)
<1>3. row \in Rows /\ row # None
  BY <1>2, VersionAssumption DEF Row, Rows
<1> HIDE DEF row
<1>4. CASE v = Newest
  <2>1. rows' = Append(rows, row)
    BY <1>4 DEF Insert, row
  <2>2. /\ rows' \in Seq(Rows \cup {None}) /\ Newest' = Newest + 1
        /\ rows'[Newest + 1] = row
        /\ \A k \in 1..Newest : rows'[k] = rows[k]
    BY <1>3, <2>1, AppendProperties DEF TypeOK, Newest
  <2>3. rows' # <<>>
    BY <1>0, <2>2, EmptySeq DEF Newest
  <2> QED BY <1>0, <1>2, <1>3, <1>4, <2>2, <2>3 DEF row
<1>5. CASE v < Newest
  <2>1. rows' = [rows EXCEPT ![v + 1] = row] /\ rows[v + 1] = None
    BY <1>0, <1>5 DEF Insert, Collides, row
  <2>2. v + 1 \in 1..Newest /\ rows[Newest] # None
    BY <1>0, <1>5, EmptySeq DEF TypeOK, Newest
  <2>3. /\ rows' \in Seq(Rows \cup {None}) /\ Newest' = Newest
        /\ \A k \in 1..Newest : rows'[k] = IF k = v + 1 THEN row ELSE rows[k]
    BY <1>3, <2>1, <2>2, ExceptSeq DEF TypeOK, Newest
  <2>4. v + 1 < Newest
    BY <1>0, <2>1, <2>2
  <2>5. rows' # <<>>
    BY <1>0, <1>5, <2>3, EmptySeq DEF Newest
  <2>6. rows'[Newest'] # None
    BY <1>0, <1>5, <2>2, <2>3, <2>4
  <2> QED BY <1>0, <1>2, <1>3, <1>5, <2>1, <2>2, <2>3, <2>4, <2>5, <2>6 DEF row
<1> QED BY <1>0, <1>4, <1>5

\* What the steps that insert insert.
LEMMA Inserted ==
  ASSUME TypeOK, LocksOK
  PROVE  /\ ReadHead(Newest) /\ live \in Docs
         /\ \A o \in Ops : op[o].pc = "appending" =>
              /\ ReadHead(op[o].base) /\ op[o].snap \in Docs
              /\ Says(o, "revert-backup", op[o].by, op[o].who) \in Claims
         /\ \A w \in Workers : tx[w] # None =>
              /\ tx[w] \in Txs /\ ReadHead(tx[w].base) /\ tx[w].base \in Nat
              /\ tx[w].job \in Jobs /\ tx[w].job.id.doc \in Docs /\ tx[w].job.says \in Claims
<1>1. Newest \in Nat /\ (Newest > 0 => rows[Newest] # None)
  BY EmptySeq DEF Newest, TypeOK
<1>2. ReadHead(Newest) /\ live \in Docs
  BY <1>1 DEF ReadHead, TypeOK
<1>3. ASSUME NEW o \in Ops, op[o].pc = "appending"
      PROVE  /\ ReadHead(op[o].base) /\ op[o].snap \in Docs
             /\ Says(o, "revert-backup", op[o].by, op[o].who) \in Claims
  <2>1. op[o] \in OpRecords /\ op[o].base <= Newest
    BY DEF TypeOK
  <2>2. ReadHead(op[o].base)
    BY <1>1, <1>3, <2>1 DEF ReadHead, LocksOK, OpRecords
  <2> QED BY <2>1, <2>2 DEF OpRecords, Says, Claims, Triggers
<1>4. ASSUME NEW w \in Workers, tx[w] # None
      PROVE  /\ tx[w] \in Txs /\ ReadHead(tx[w].base) /\ tx[w].base \in Nat
             /\ tx[w].job \in Jobs /\ tx[w].job.id.doc \in Docs /\ tx[w].job.says \in Claims
  <2>1. tx[w] \in Txs /\ w \in Running /\ tx[w].base <= Newest
    BY <1>4 DEF TypeOK, Running
  <2>2. ReadHead(tx[w].base)
    BY <1>1, <2>1 DEF ReadHead, LocksOK, Txs
  <2> QED BY <2>1, <2>2 DEF Txs, Jobs, JobIds
<1> QED BY <1>2, <1>3, <1>4

\* Versions stay where they are, unless they are thinned out: a transaction's head in
\* any case.
LEMMA RowsMove ==
  ASSUME TypeOK, LocksOK, Next
  PROVE  /\ rows' \in Seq(Rows \cup {None})
         /\ Newest \in Nat /\ Newest' \in Nat /\ Newest <= Newest'
         /\ rows' # <<>> => rows'[Newest'] # None
         /\ rows # <<>> => rows'[Newest] = rows[Newest]
         /\ \A k \in Bases : k > 0 => rows'[k] = rows[k] \/ rows[k] = None
<1>0. Newest \in Nat /\ \A k \in Bases : k \in 0..Newest
  BY DEF Newest, Bases, TypeOK, Running, OpRecords, Txs
<1> DEFINE Moved == /\ rows' \in Seq(Rows \cup {None})
                    /\ Newest' \in Nat /\ Newest <= Newest'
                    /\ rows' # <<>> => rows'[Newest'] # None
                    /\ rows # <<>> => rows'[Newest] = rows[Newest]
                    /\ \A k \in Bases : k > 0 => rows'[k] = rows[k] \/ rows[k] = None
<1>a. SUFFICES Moved
  BY <1>0
<1> HIDE DEF Moved
<1>1. ASSUME NEW v, ReadHead(v), NEW doc \in Docs, NEW says \in Claims, Insert(v, doc, says)
      PROVE  Moved
  <2>1. /\ rows' \in Seq(Rows \cup {None}) /\ Newest \in Nat
        /\ Newest' = (IF v = Newest THEN Newest + 1 ELSE Newest)
        /\ \A k \in 1..Newest : k # v + 1 => rows'[k] = rows[k]
        /\ v < Newest => v + 1 < Newest /\ rows[v + 1] = None
        /\ rows'[Newest'] # None
    BY <1>1, InsertFacts
  <2>2. v \in Nat /\ v <= Newest
    BY <1>0, <1>1 DEF ReadHead
  <2>3. rows # <<>> => Newest \in 1..Newest
    BY <1>0, EmptySeq DEF TypeOK, Newest
  <2>4. rows # <<>> => rows'[Newest] = rows[Newest]
    BY <2>1, <2>2, <2>3
  <2>5. \A k \in Bases : k > 0 => rows'[k] = rows[k] \/ rows[k] = None
    BY <1>0, <2>1, <2>2
  <2> QED BY <2>1, <2>4, <2>5 DEF Moved
<1>2. CASE UNCHANGED rows
  BY <1>0, <1>2 DEF TypeOK, Newest, Moved
<1>3. CASE SavesItself
  <2>1. PICK says \in Claims : Insert(Newest, live, says)
    BY <1>3 DEF SavesItself
  <2> QED BY <1>1, <2>1, Inserted
<1>4. ASSUME NEW o \in Ops, BacksUp(o) PROVE Moved
  <2>1. op[o].pc = "appending"
        /\ Insert(op[o].base, op[o].snap, Says(o, "revert-backup", op[o].by, op[o].who))
    BY <1>4 DEF BacksUp
  <2>2. /\ ReadHead(op[o].base) /\ op[o].snap \in Docs
        /\ Says(o, "revert-backup", op[o].by, op[o].who) \in Claims
    BY <2>1, Inserted
  <2> QED BY <1>1, <2>1, <2>2
<1>5. ASSUME NEW w \in Workers, Commits(w) PROVE Moved
  <2>1. tx[w] # None /\ Insert(tx[w].base, tx[w].job.id.doc, tx[w].job.says)
    BY <1>5 DEF Commits
  <2>2. ReadHead(tx[w].base) /\ tx[w].job.id.doc \in Docs /\ tx[w].job.says \in Claims
    BY <2>1, Inserted
  <2> QED BY <1>1, <2>1, <2>2
<1>6. CASE Thins
  <2>1. rows' \in Seq(Rows \cup {None}) /\ Newest' = Newest
        /\ (rows # <<>> => rows'[Newest] = rows[Newest])
        /\ \A k \in Bases : k > 0 => rows'[k] = rows[k]
    BY <1>6 DEF Thins
  <2>2. rows' # <<>> => rows # <<>>
    BY <2>1, EmptySeq DEF TypeOK, Newest
  <2> QED BY <1>0, <2>1, <2>2 DEF TypeOK, Moved
<1>7. CASE \E w \in Workers : ReadsAgain(w) \/ GivesUp(w) \/ \E j \in jobs : Takes(w, j)
  BY <1>2, <1>7 DEF ReadsAgain, GivesUp, Takes
<1>8. CASE Queues
  BY <1>2, <1>8 DEF Queues
<1> QED BY <1>2, <1>3, <1>4, <1>5, <1>6, <1>7, <1>8, StepKinds

\* What a store hook touches stays typed.
LEMMA StoreTyped ==
  ASSUME TypeOK, NEW name \in Ops \cup {None}, NEW trigger \in Triggers,
         NEW by \in Users \cup {Owner, None}, NEW force \in Ops \cup {None},
         Store(name, trigger, by, force), now' = now
  PROVE  /\ authors' \in {authors, {}} /\ authors' \subseteq Users
         /\ known' \in {known, known \cup {JobId(force)}}
         /\ known' \subseteq JobIds /\ \A id \in known' : id.win = now'
         /\ faults' \in 0..MaxFaults
         /\ mishaps \subseteq mishaps' /\ mishaps' \subseteq Accidents
<1>1. JobId(force) \in JobIds /\ JobId(force).win = now
  BY DEF JobId, JobIds, TypeOK
<1>2. faults < MaxFaults /\ faults' = faults + 1 => faults' \in 0..MaxFaults
  BY VersionAssumption DEF TypeOK
<1>3. /\ authors' \in {authors, {}}
      /\ known' \in {known, known \cup {JobId(force)}}
      /\ faults' = faults \/ (faults < MaxFaults /\ faults' = faults + 1)
      /\ mishaps' \in {mishaps, mishaps \cup {"flush dropped"}}
  BY StoreKinds DEF queue
<1> QED BY <1>1, <1>2, <1>3 DEF TypeOK, Accidents

\* How a step that runs a store hook runs it.
LEMMA HookCalls ==
  ASSUME TypeOK
  PROVE  /\ Autosaves /\ ~wedged =>
              Store(None, "websocket", typist, None) /\ typist \in Users \cup {Owner, None}
         /\ "websocket" \in Triggers
         /\ \A o \in Ops : /\ Name(o) \in Ops \cup {None} /\ ForceKey(o) \in Ops \cup {None}
                           /\ Trigger(o) \in Triggers /\ op[o].by \in Users \cup {Owner, None}
         /\ \A o \in Ops : Leaves(o) /\ ~wedged =>
              Store(None, "websocket", IF op[o].stamped THEN None ELSE Owner,
                    IF op[o].stamped THEN ForceKey(o) ELSE None)
<1>1. "websocket" \in Triggers /\ typist \in Users \cup {Owner, None}
  BY DEF Triggers, TypeOK
<1>2. \A o \in Ops : /\ Name(o) \in Ops \cup {None} /\ ForceKey(o) \in Ops \cup {None}
                     /\ Trigger(o) \in Triggers /\ op[o].by \in Users \cup {Owner, None}
  BY DEF Name, ForceKey, Trigger, Triggers, TypeOK, OpRecords
<1> QED BY <1>1, <1>2 DEF Autosaves, Leaves

\* What an operation does to the document is a document.
LEMMA MutatedTyped ==
  ASSUME TypeOK, NEW o \in Ops
  PROVE  /\ Mutated(o) \in Docs /\ Holds(Mutated(o), live)
         /\ op[o].kind # "checkpoint" => o \in Mutated(o).ins
BY DEF Mutated, TypeOK, Docs, OpRecords, Holds

\* Everything but rows, jobs and transactions stays typed.
LEMMA RoomTyped ==
  ASSUME TypeOK, Next
  PROVE  /\ live' \in Docs /\ dirty' \in BOOLEAN /\ typist' \in Users \cup {None}
         /\ authors' \subseteq Users /\ wedged' \in BOOLEAN
         /\ known' \subseteq JobIds /\ \A id \in known' : id.win = now'
         /\ now' \in 1..MaxWindow /\ faults' \in 0..MaxFaults
         /\ mishaps \subseteq mishaps' /\ mishaps' \subseteq Accidents
         /\ at' \in [Ops -> Docs \cup {None}]
<1> DEFINE Room == /\ live' \in Docs /\ dirty' \in BOOLEAN /\ typist' \in Users \cup {None}
                   /\ authors' \subseteq Users /\ wedged' \in BOOLEAN
                   /\ known' \subseteq JobIds /\ \A id \in known' : id.win = now'
                   /\ now' \in 1..MaxWindow /\ faults' \in 0..MaxFaults
                   /\ mishaps \subseteq mishaps' /\ mishaps' \subseteq Accidents
                   /\ at' \in [Ops -> Docs \cup {None}]
<1> SUFFICES Room
  OBVIOUS
<1>0. \A kind : Fault(kind) => faults' \in 0..MaxFaults
  BY VersionAssumption DEF Fault, TypeOK
<1>1. ASSUME NEW u \in Users, Types(u) PROVE Room
  BY <1>1 DEF Types, TypeOK, Docs, queue
<1>2. CASE Autosaves
  <2>1. CASE wedged
    BY <1>2, <2>1 DEF Autosaves, TypeOK, queue
  <2>2. CASE ~wedged
    <3>1. UNCHANGED <<live, wedged, now, at>> /\ dirty' = FALSE /\ typist' = None
      BY <1>2 DEF Autosaves
    <3>2. /\ authors' \subseteq Users
          /\ known' \subseteq JobIds /\ \A id \in known' : id.win = now'
          /\ faults' \in 0..MaxFaults
          /\ mishaps \subseteq mishaps' /\ mishaps' \subseteq Accidents
      BY <1>2, <2>2, <3>1, HookCalls, StoreTyped
    <3> QED BY <3>1, <3>2 DEF TypeOK
  <2> QED BY <2>1, <2>2
<1>3. CASE Restarts
  <2>1. HeadDoc \in Docs
    <3>1. CASE rows = <<>>
      BY <3>1 DEF HeadDoc, Empty, Docs
    <3>2. CASE rows # <<>>
      <4>1. Newest \in 1..Newest /\ rows[Newest] # None
        BY <3>2, EmptySeq DEF TypeOK, Newest
      <4>2. rows[Newest] \in Rows
        BY <4>1, ElementOfSeq DEF TypeOK, Newest
      <4> QED BY <3>2, <4>2 DEF HeadDoc, Rows
    <3> QED BY <3>1, <3>2
  <2> QED BY <1>0, <1>3, <2>1 DEF Restarts, TypeOK, Accidents, queue
<1>4. ASSUME NEW o \in Ops, \/ OpenFails(o) \/ ReadsHead(o)
                           \/ \E ask \in Requests : Begins(o, ask)
      PROVE  Room
  BY <1>0, <1>4 DEF OpenFails, ReadsHead, Begins, TypeOK, room, queue
<1>5. ASSUME NEW o \in Ops, Opens(o) PROVE Room
  BY <1>5 DEF Opens, Note, TypeOK, Accidents, queue
<1>6. ASSUME NEW o \in Ops, AppendsBackup(o) PROVE Room
  BY <1>0, <1>6 DEF AppendsBackup, BackupFails, Note, TypeOK, Accidents, room, queue
<1>7. ASSUME NEW o \in Ops, Mutates(o) PROVE Room
  BY <1>0, <1>7, MutatedTyped DEF Mutates, TypeOK, queue
<1>8. ASSUME NEW o \in Ops, Flushes(o) PROVE Room
  <2>1. UNCHANGED <<live, now>> /\ dirty' = FALSE /\ typist' = None
    BY <1>8 DEF Flushes
  <2>2. CASE Store(Name(o), Trigger(o), op[o].by, ForceKey(o))
             /\ at' = [at EXCEPT ![o] = live] /\ UNCHANGED wedged
    <3>1. /\ authors' \subseteq Users
          /\ known' \subseteq JobIds /\ \A id \in known' : id.win = now'
          /\ faults' \in 0..MaxFaults
          /\ mishaps \subseteq mishaps' /\ mishaps' \subseteq Accidents
      BY <2>1, <2>2, HookCalls, StoreTyped
    <3> QED BY <2>1, <2>2, <3>1 DEF TypeOK
  <2>3. CASE /\ wedged' = TRUE /\ UNCHANGED <<authors, queue, mishaps, at>>
             /\ UNCHANGED faults \/ Fault("lock")
    BY <1>0, <2>1, <2>3 DEF TypeOK, queue
  <2> QED BY <1>8, <2>2, <2>3 DEF Flushes
<1>9. ASSUME NEW o \in Ops, Leaves(o) PROVE Room
  <2>1. UNCHANGED <<live, wedged, now, at>> /\ dirty' = FALSE /\ typist' = None
    BY <1>9 DEF Leaves
  <2>2. CASE wedged
    BY <1>9, <2>1, <2>2 DEF Leaves, TypeOK, queue
  <2>3. CASE ~wedged
    <3> DEFINE by == IF op[o].stamped THEN None ELSE Owner
               force == IF op[o].stamped THEN ForceKey(o) ELSE None
    <3>1. Store(None, "websocket", by, force)
      BY <1>9, <2>3, HookCalls
    <3>2. /\ by \in Users \cup {Owner, None} /\ force \in Ops \cup {None}
          /\ "websocket" \in Triggers /\ None \in Ops \cup {None}
      BY HookCalls
    <3> HIDE DEF by, force
    <3>3. /\ authors' \subseteq Users
          /\ known' \subseteq JobIds /\ \A id \in known' : id.win = now'
          /\ faults' \in 0..MaxFaults
          /\ mishaps \subseteq mishaps' /\ mishaps' \subseteq Accidents
      BY <2>1, <3>1, <3>2, StoreTyped
    <3> QED BY <2>1, <3>3 DEF TypeOK
  <2> QED BY <2>2, <2>3
<1>10. ASSUME NEW w \in Workers, Saves(w) \/ \E j \in jobs : Takes(w, j) PROVE Room
  BY <1>0, <1>10 DEF Saves, Takes, Note, TypeOK, Accidents, room, queue
<1>11. ASSUME NEW v \in 1..Newest, Deletes(v) \/ Prunes(v) PROVE Room
  BY <1>0, <1>11 DEF Deletes, Prunes, Note, TypeOK, Accidents, room, queue
<1>12. CASE WindowPasses
  BY <1>12, VersionAssumption DEF WindowPasses, TypeOK, room
<1> HIDE DEF Room
<1> QED BY <1>1, <1>2, <1>3, <1>4, <1>5, <1>6, <1>7, <1>8, <1>9, <1>10, <1>11, <1>12 DEF Next

\* An operation's record stays typed, and its head is one the table has.
LEMMA OpTyped ==
  ASSUME TypeOK, LocksOK, Next
  PROVE  op' \in [Ops -> OpRecords] /\ \A o \in Ops : op'[o].base <= Newest'
<1>0. Newest \in Nat /\ Newest' \in Nat /\ Newest <= Newest'
  BY RowsMove
<1>1. Empty \in Docs /\ live \in Docs
  BY DEF Empty, Docs, TypeOK
<1> DEFINE Tries == 0..1
<1>b. 0 \in Tries /\ 1 \in Tries /\ 0 \in Nat /\ 0 <= Newest /\ Newest <= Newest
  BY <1>0
<1> HIDE DEF Tries
<1>c. OpRecords =
        [pc : Stages, kind : {"checkpoint", "revert", "append", "replace"},
         by : Users \cup {None}, named : BOOLEAN, snap : Docs, who : SUBSET Users,
         base : Nat, tries : Tries, stamped : BOOLEAN, answer : Given \cup {None}]
  BY DEF OpRecords, Tries
<1>2. /\ Fresh \in OpRecords /\ Fresh.base = 0
      /\ [Fresh EXCEPT !.pc = "done"] \in OpRecords /\ [Fresh EXCEPT !.pc = "done"].base = 0
  BY <1>1, <1>b, <1>c DEF Fresh, Stages
<1>3. SUFFICES op' \in [Ops -> OpRecords] /\ \A o \in Ops : op'[o].base <= Newest
  BY <1>0 DEF OpRecords
<1>4. CASE UNCHANGED op
  BY <1>4 DEF TypeOK
<1>5. CASE Restarts
  <2> DEFINE gone == [Fresh EXCEPT !.pc = "done"]
  <2>1. op' = [o \in Ops |-> IF op[o].pc = "idle" THEN op[o] ELSE gone]
    BY <1>5 DEF Restarts
  <2>2. \A o \in Ops : op[o] \in OpRecords /\ op[o].base <= Newest
    BY DEF TypeOK
  <2>3. gone \in OpRecords /\ gone.base <= Newest
    BY <1>b, <1>2
  <2> HIDE DEF gone
  <2> QED BY <2>1, <2>2, <2>3
<1>6. ASSUME NEW o \in Ops, NEW rec \in OpRecords, rec.base <= Newest, op' = [op EXCEPT ![o] = rec]
      PROVE  op' \in [Ops -> OpRecords] /\ \A x \in Ops : op'[x].base <= Newest
  BY <1>6 DEF TypeOK
<1>7. ASSUME NEW o \in Ops,
             \/ OpenFails(o) \/ ReadsHead(o) \/ AppendsBackup(o) \/ Mutates(o) \/ Flushes(o)
             \/ Opens(o) \/ Leaves(o) \/ \E ask \in Requests : Begins(o, ask)
      PROVE  \E rec \in OpRecords : rec.base <= Newest /\ op' = [op EXCEPT ![o] = rec]
  <2>0. op[o] \in OpRecords /\ op[o].base <= Newest /\ op \in [Ops -> OpRecords]
    BY DEF TypeOK
  <2>1. CASE OpenFails(o)
    <3> DEFINE rec == [op[o] EXCEPT !.pc = "done", !.answer = "open-failed"]
    <3>1. rec \in OpRecords /\ rec.base <= Newest
      BY <2>0 DEF OpRecords, Stages, Given
    <3>2. op' = [op EXCEPT ![o] = rec]
      BY <2>0, <2>1 DEF OpenFails
    <3> QED BY <3>1, <3>2
  <2>2. CASE ReadsHead(o)
    <3> DEFINE rec == [op[o] EXCEPT !.pc = "appending", !.base = Newest]
    <3>1. rec \in OpRecords /\ rec.base <= Newest
      BY <1>0, <1>b, <1>c, <2>0 DEF Stages
    <3>2. op' = [op EXCEPT ![o] = rec]
      BY <2>0, <2>2 DEF ReadsHead
    <3> QED BY <3>1, <3>2
  <2>3. ASSUME NEW to \in Stages, Goes(o, to)
        PROVE  \E rec \in OpRecords : rec.base <= Newest /\ op' = [op EXCEPT ![o] = rec]
    <3> DEFINE rec == [op[o] EXCEPT !.pc = to]
    <3>1. rec \in OpRecords /\ rec.base <= Newest
      BY <2>0 DEF OpRecords
    <3>2. op' = [op EXCEPT ![o] = rec]
      BY <2>0, <2>3 DEF Goes
    <3> QED BY <3>1, <3>2
  <2>4. ASSUME NEW answer \in Given, Answers(o, answer)
        PROVE  \E rec \in OpRecords : rec.base <= Newest /\ op' = [op EXCEPT ![o] = rec]
    <3> DEFINE rec == [op[o] EXCEPT !.pc = "leaving", !.answer = answer]
    <3>1. rec \in OpRecords /\ rec.base <= Newest
      BY <2>0 DEF OpRecords, Stages
    <3>2. op' = [op EXCEPT ![o] = rec]
      BY <2>0, <2>4 DEF Answers
    <3> QED BY <3>1, <3>2
  <2>5. ASSUME NEW answer \in Given,
               op' = [op EXCEPT ![o].pc = "leaving", ![o].stamped = TRUE, ![o].answer = answer]
        PROVE  \E rec \in OpRecords : rec.base <= Newest /\ op' = [op EXCEPT ![o] = rec]
    <3> DEFINE rec == [op[o] EXCEPT !.pc = "leaving", !.stamped = TRUE, !.answer = answer]
    <3>1. rec \in OpRecords /\ rec.base <= Newest
      BY <2>0 DEF OpRecords, Stages
    <3>2. op' = [op EXCEPT ![o] = rec]
      BY <2>0, <2>5
    <3> QED BY <3>1, <3>2
  <2>6. CASE AppendsBackup(o)
    <3>1. CASE Goes(o, "commit")
      BY <2>3, <3>1 DEF Stages
    <3>2. CASE BackupFails(o)
      BY <2>4, <3>2 DEF BackupFails, Given
    <3>3. CASE op' = [op EXCEPT ![o].pc = "backup", ![o].tries = 1]
      <4> DEFINE rec == [op[o] EXCEPT !.pc = "backup", !.tries = 1]
      <4>1. rec \in OpRecords /\ rec.base <= Newest
        BY <1>b, <1>c, <2>0 DEF Stages
      <4>2. op' = [op EXCEPT ![o] = rec]
        BY <2>0, <3>3
      <4> QED BY <4>1, <4>2
    <3> QED BY <2>6, <3>1, <3>2, <3>3 DEF AppendsBackup
  <2>7. CASE Mutates(o)
    BY <2>3, <2>5, <2>7 DEF Mutates, Stages, Given
  <2>8. CASE Flushes(o)
    BY <2>5, <2>8 DEF Flushes, Given
  <2>9. CASE Opens(o)
    <3>1. CASE op' = [op EXCEPT ![o].pc = "backup", ![o].snap = live, ![o].who = authors]
      <4> DEFINE rec == [op[o] EXCEPT !.pc = "backup", !.snap = live, !.who = authors]
      <4>1. rec \in OpRecords /\ rec.base <= Newest
        BY <1>1, <2>0 DEF OpRecords, Stages, TypeOK
      <4>2. op' = [op EXCEPT ![o] = rec]
        BY <2>0, <3>1
      <4> QED BY <4>1, <4>2
    <3> QED BY <2>3, <2>4, <2>9, <3>1 DEF Opens, Stages, Given
  <2>10. CASE Leaves(o)
    <3> DEFINE rec == [Fresh EXCEPT !.pc = "done", !.named = op[o].named, !.answer = op[o].answer]
    <3>1. rec \in OpRecords /\ rec.base <= Newest
      BY <1>1, <1>b, <1>c, <2>0 DEF Stages, Fresh
    <3>2. op' = [op EXCEPT ![o] = rec]
      BY <2>10 DEF Leaves, Finishes
    <3> QED BY <3>1, <3>2
  <2>11. ASSUME NEW ask \in Requests, Begins(o, ask)
         PROVE  \E rec \in OpRecords : rec.base <= Newest /\ op' = [op EXCEPT ![o] = rec]
    <3> DEFINE rec == [Fresh EXCEPT !.pc = "open", !.kind = ask.kind, !.by = ask.by,
                                    !.named = ask.named]
    <3>1. /\ ask.kind \in {"checkpoint", "revert", "append", "replace"}
          /\ ask.by \in Users \cup {None} /\ ask.named \in BOOLEAN
      BY RequestsAssumption DEF Asked
    <3>2. rec \in OpRecords /\ rec.base <= Newest
      BY <1>1, <1>b, <1>c, <3>1 DEF Stages, Fresh
    <3>3. op' = [op EXCEPT ![o] = rec]
      BY <2>11 DEF Begins
    <3> QED BY <3>2, <3>3
  <2> QED BY <1>7, <2>1, <2>2, <2>6, <2>7, <2>8, <2>9, <2>10, <2>11
<1>8. CASE \/ \E u \in Users : Types(u)
           \/ Autosaves \/ WindowPasses
           \/ \E w \in Workers : Saves(w) \/ \E j \in jobs : Takes(w, j)
           \/ \E v \in 1..Newest : Deletes(v) \/ Prunes(v)
  BY <1>4, <1>8 DEF Types, Autosaves, WindowPasses, Saves, Takes, Deletes, Prunes
<1> QED BY <1>5, <1>6, <1>7, <1>8 DEF Next

\* The jobs and the transactions stay typed, and a head is one the table has.
LEMMA QueueTyped ==
  ASSUME TypeOK, LocksOK, Next
  PROVE  /\ jobs' \subseteq Jobs
         /\ tx' \in [Workers -> Txs \cup {None}]
         /\ \A w \in Workers : tx'[w] # None => tx'[w].base <= Newest'
<1>0. Newest \in Nat /\ Newest' \in Nat /\ Newest <= Newest'
  BY RowsMove
<1>1. \A w \in Workers : tx[w] # None => tx[w] \in Txs /\ tx[w].base <= Newest
  BY DEF TypeOK, Running
<1>2. SUFFICES /\ jobs' \subseteq Jobs
               /\ tx' \in [Workers -> Txs \cup {None}]
               /\ \A w \in Workers : tx'[w] # None => tx'[w].base <= Newest
  BY <1>0 DEF Txs
<1>3. CASE UNCHANGED <<jobs, tx>>
  BY <1>1, <1>3 DEF TypeOK
<1>4. CASE Queues
  <2>1. PICK says \in Claims, force \in Ops \cup {None} :
          jobs' = jobs \cup {[id |-> JobId(force), says |-> says]} /\ UNCHANGED tx
    BY <1>4 DEF Queues
  <2>2. [id |-> JobId(force), says |-> says] \in Jobs
    BY DEF JobId, JobIds, Jobs, TypeOK
  <2> QED BY <1>1, <2>1, <2>2 DEF TypeOK
<1>5. ASSUME NEW w \in Workers, NEW j \in jobs, Takes(w, j)
      PROVE  /\ jobs' \subseteq Jobs
             /\ tx' \in [Workers -> Txs \cup {None}]
             /\ \A x \in Workers : tx'[x] # None => tx'[x].base <= Newest
  <2>1. [base |-> Newest, job |-> j] \in Txs
    BY <1>0 DEF Txs, TypeOK
  <2>2. tx' = [tx EXCEPT ![w] = [base |-> Newest, job |-> j]] /\ jobs' \subseteq jobs
    BY <1>5 DEF Takes
  <2> QED BY <1>0, <1>1, <2>1, <2>2 DEF TypeOK
<1>6. ASSUME NEW w \in Workers, tx' = [tx EXCEPT ![w] = None], jobs' = jobs
      PROVE  /\ jobs' \subseteq Jobs
             /\ tx' \in [Workers -> Txs \cup {None}]
             /\ \A x \in Workers : tx'[x] # None => tx'[x].base <= Newest
  BY <1>1, <1>6 DEF TypeOK
<1>7. ASSUME NEW w \in Workers, ReadsAgain(w)
      PROVE  /\ jobs' \subseteq Jobs
             /\ tx' \in [Workers -> Txs \cup {None}]
             /\ \A x \in Workers : tx'[x] # None => tx'[x].base <= Newest
  <2> DEFINE new == [tx[w] EXCEPT !.base = Newest]
  <2>1. tx[w] \in Txs /\ jobs' = jobs
    BY <1>1, <1>7 DEF ReadsAgain
  <2>2. new \in Txs /\ new.base = Newest
    BY <1>0, <2>1 DEF Txs
  <2>3. tx' = [tx EXCEPT ![w] = new]
    BY <1>7 DEF ReadsAgain
  <2> HIDE DEF new
  <2> QED BY <1>0, <1>1, <2>1, <2>2, <2>3 DEF TypeOK
<1>8. UNCHANGED <<jobs, tx, rows>> \/ SavesItself \/ Thins \/ (\E o \in Ops : BacksUp(o))
        => UNCHANGED <<jobs, tx>>
  BY DEF SavesItself, Thins, BacksUp
<1>9. \A w \in Workers : Commits(w) \/ GivesUp(w) => tx' = [tx EXCEPT ![w] = None] /\ jobs' = jobs
  BY DEF Commits, GivesUp
<1> QED BY <1>3, <1>4, <1>5, <1>6, <1>7, <1>8, <1>9, StepKinds

\* Types, at every step.
LEMMA TypeStep == ASSUME TypeOK, LocksOK, Next PROVE TypeOK'
BY RowsMove, RoomTyped, OpTyped, QueueTyped DEF TypeOK, Running

\* A head that was locked stays locked.
LEMMA LocksStep == ASSUME TypeOK, LocksOK, Next PROVE LocksOK'
<1>0. /\ Newest \in Nat
      /\ rows # <<>> => rows'[Newest] = rows[Newest] /\ rows[Newest] # None
      /\ \A k \in Bases : k > 0 => rows'[k] = rows[k] \/ rows[k] = None
  BY RowsMove DEF TypeOK
<1>1. Newest > 0 => rows'[Newest] # None
  BY <1>0, EmptySeq DEF TypeOK, Newest
<1>2. ASSUME NEW w \in Workers, tx'[w] # None, tx'[w].base > 0 PROVE rows'[tx'[w].base] # None
  <2>1. tx[w] # None => tx[w].base \in Bases /\ (tx[w].base > 0 => rows[tx[w].base] # None)
    BY DEF Bases, LocksOK, Running
  <2>2. CASE tx'[w] = tx[w]
    BY <1>0, <1>2, <2>1, <2>2
  <2>3. CASE tx'[w].base = Newest
    BY <1>0, <1>1, <1>2, <2>3
  <2>4. tx'[w] = tx[w] \/ tx'[w].base = Newest
    <3>1. CASE UNCHANGED <<jobs, tx, rows>> \/ Queues \/ SavesItself \/ Thins \/ \E o \in Ops : BacksUp(o)
      BY <3>1 DEF Queues, SavesItself, Thins, BacksUp
    <3>2. ASSUME NEW x \in Workers, Commits(x) \/ GivesUp(x) PROVE tx'[w] = tx[w]
      BY <1>2, <3>2 DEF Commits, GivesUp, TypeOK
    <3>3. ASSUME NEW x \in Workers, ReadsAgain(x) PROVE tx'[w] = tx[w] \/ tx'[w].base = Newest
      <4>1. x = w => tx[w] \in Txs
        BY <3>3 DEF ReadsAgain, TypeOK
      <4>2. x = w => tx'[w] = [tx[w] EXCEPT !.base = Newest]
        BY <3>3 DEF ReadsAgain, TypeOK
      <4>3. x = w => tx'[w].base = Newest
        BY <4>1, <4>2 DEF Txs
      <4> QED BY <3>3, <4>3 DEF ReadsAgain, TypeOK
    <3>4. ASSUME NEW x \in Workers, NEW j \in jobs, Takes(x, j)
          PROVE tx'[w] = tx[w] \/ tx'[w].base = Newest
      BY <3>4 DEF Takes, TypeOK
    <3> QED BY <3>1, <3>2, <3>3, <3>4, StepKinds
  <2> QED BY <2>2, <2>3, <2>4
<1>3. ASSUME NEW o \in Ops, op'[o].pc = "appending", op'[o].base > 0
      PROVE rows'[op'[o].base] # None
  <2>1. op[o].pc = "appending" => op[o].base \in Bases
                                  /\ (op[o].base > 0 => rows[op[o].base] # None)
    BY DEF Bases, LocksOK
  <2>2. CASE op'[o] = op[o]
    BY <1>0, <1>3, <2>1, <2>2
  <2>3. CASE op'[o].base = Newest
    BY <1>0, <1>1, <1>3, <2>3
  <2>4. op'[o] = op[o] \/ op'[o].base = Newest
    <3>1. ASSUME NEW x \in Ops,
             \/ OpenFails(x) \/ AppendsBackup(x) \/ Mutates(x) \/ Flushes(x)
             \/ Opens(x) \/ Leaves(x) \/ \E ask \in Requests : Begins(x, ask)
          PROVE  op'[o] = op[o]
      <4>1. op \in [Ops -> OpRecords] /\ \A y \in Ops : op[y] \in OpRecords
        BY DEF TypeOK
      <4>2. \A y \in Ops : y # x => op'[y] = op[y]
        BY <3>1, <4>1 DEF OpenFails, AppendsBackup, BackupFails, Mutates, Flushes, Opens, Leaves,
             Begins, Goes, Answers, Finishes
      <4>3. ASSUME OpenFails(x) \/ Mutates(x) \/ Flushes(x) PROVE op'[x].pc # "appending"
        BY <4>1, <4>3 DEF OpenFails, Mutates, Flushes, Goes, OpRecords
      <4>4. ASSUME AppendsBackup(x) PROVE op'[x].pc # "appending"
        BY <4>1, <4>4 DEF AppendsBackup, BackupFails, Goes, Answers, OpRecords
      <4>5. ASSUME Opens(x) PROVE op'[x].pc # "appending"
        <5>1. \/ op' = [op EXCEPT ![x].pc = "backup", ![x].snap = live, ![x].who = authors]
              \/ op' = [op EXCEPT ![x].pc = "leaving", ![x].answer = "draft-document"]
              \/ op' = [op EXCEPT ![x].pc = "commit"]
          BY <4>5 DEF Opens, Goes, Answers
        <5> QED BY <4>1, <5>1 DEF OpRecords
      <4>6. ASSUME Leaves(x) \/ \E ask \in Requests : Begins(x, ask) PROVE op'[x].pc # "appending"
        BY <4>1, <4>6 DEF Leaves, Begins, Finishes, Fresh
      <4>7. op'[x].pc # "appending"
        BY <3>1, <4>3, <4>4, <4>5, <4>6
      <4> QED BY <1>3, <4>2, <4>7
    <3>2. ASSUME NEW x \in Ops, ReadsHead(x) PROVE op'[o] = op[o] \/ op'[o].base = Newest
      BY <3>2 DEF ReadsHead, TypeOK, OpRecords
    <3>3. CASE Restarts
      BY <1>3, <3>3 DEF Restarts, Fresh, TypeOK
    <3>4. CASE \/ \E u \in Users : Types(u)
               \/ Autosaves \/ WindowPasses
               \/ \E w \in Workers : Saves(w) \/ \E j \in jobs : Takes(w, j)
               \/ \E v \in 1..Newest : Deletes(v) \/ Prunes(v)
      BY <3>4 DEF Types, Autosaves, WindowPasses, Saves, Takes, Deletes, Prunes
    <3> QED BY <3>1, <3>2, <3>3, <3>4 DEF Next
  <2> QED BY <2>2, <2>3, <2>4
<1> QED BY <1>2, <1>3 DEF LocksOK, Running

----------------------------------------------------------------------------
(* What the steps do to operations and to the room.                         *)

\* An operation keeps what it was asked and the backup it took.
Keeps(o) == /\ op'[o].kind = op[o].kind /\ op'[o].by = op[o].by /\ op'[o].named = op[o].named
            /\ op'[o].snap = op[o].snap /\ op'[o].who = op[o].who

\* The places an operation moves between, and what it has on the way.
Opened(o) ==
  /\ op[o].pc = "idle" /\ op'[o].pc = "open" /\ op'[o].answer = None
  /\ op'[o].snap = Empty /\ op'[o].who = {} /\ (op'[o].by # None => op'[o].named)
OpenFailed(o) ==
  op[o].pc = "open" /\ op'[o].pc = "done" /\ op'[o].answer = "open-failed" /\ Keeps(o)
BailedOut(o) ==
  /\ op[o].pc \in {"open", "appending"} /\ op'[o].pc = "leaving" /\ Keeps(o)
  /\ "bailed out" \in mishaps' /\ op'[o].answer \in {"draft-document", "backup-failed"}
TakesSnapshot(o) ==
  /\ Opens(o) /\ op[o].pc = "open" /\ op'[o].pc = "backup" /\ live.ins # {}
  /\ op'[o].snap = live /\ op'[o].who = authors
  /\ op'[o].by = op[o].by /\ op'[o].named = op[o].named /\ op'[o].answer = op[o].answer
SkipsBackup(o) ==
  /\ op[o].pc = "open" /\ op'[o].pc = "commit" /\ op[o].kind # "revert" /\ Keeps(o)
  /\ (op[o].kind = "checkpoint" => live.ins # {}) /\ op'[o].answer = op[o].answer
BacksUpMore(o) ==
  /\ \/ op[o].pc = "backup" /\ op'[o].pc = "appending"
     \/ op[o].pc = "appending" /\ op'[o].pc = "backup"
  /\ Keeps(o) /\ op'[o].answer = op[o].answer
BackedUp(o) ==
  BacksUp(o) /\ op'[o].pc = "commit" /\ Keeps(o) /\ op'[o].answer = op[o].answer
Changes(o) ==
  /\ Mutates(o) /\ op[o].pc = "commit" /\ op'[o].pc = "flush" /\ Keeps(o)
  /\ op'[o].answer = op[o].answer /\ live' = Mutated(o)
Fails(o) ==
  /\ op[o].pc \in {"commit", "flush"} /\ op'[o].pc = "leaving" /\ Keeps(o)
  /\ op'[o].stamped /\ op'[o].answer = "persist-failed"
Flushed(o) ==
  /\ Flushes(o) /\ op[o].pc = "flush" /\ op'[o].pc = "leaving" /\ Keeps(o)
  /\ op'[o].stamped /\ op'[o].answer = "ok" /\ at' = [at EXCEPT ![o] = live]
  /\ Store(Name(o), Trigger(o), op[o].by, ForceKey(o))
Left(o) ==
  /\ Leaves(o) /\ op[o].pc = "leaving" /\ op'[o].pc = "done"
  /\ op'[o].snap = Empty /\ op'[o].who = {} /\ op'[o].by = None
  /\ op'[o].named = op[o].named /\ op'[o].answer = op[o].answer
Died(o) ==
  /\ Restarts /\ op[o].pc # "idle" /\ op'[o].pc = "done"
  /\ op'[o].snap = Empty /\ op'[o].who = {} /\ op'[o].by = None /\ op'[o].answer = None
  /\ op[o].pc # "done" => "bailed out" \in mishaps'

Moves(o) ==
  \/ Opened(o) \/ OpenFailed(o) \/ BailedOut(o) \/ TakesSnapshot(o) \/ SkipsBackup(o)
  \/ BacksUpMore(o) \/ BackedUp(o) \/ Changes(o) \/ Fails(o) \/ Flushed(o) \/ Left(o) \/ Died(o)

\* An operation stands still or makes one of these moves.
LEMMA OpSteps ==
  ASSUME TypeOK, Next, NEW o \in Ops
  PROVE  op'[o] = op[o] \/ Moves(o)
<1>0. op \in [Ops -> OpRecords] /\ \A x \in Ops : op[x] \in OpRecords
  BY DEF TypeOK
<1>1. ASSUME NEW x \in Ops, x # o,
             \/ OpenFails(x) \/ ReadsHead(x) \/ AppendsBackup(x) \/ Mutates(x) \/ Flushes(x)
             \/ Opens(x) \/ Leaves(x) \/ \E ask \in Requests : Begins(x, ask)
      PROVE  op'[o] = op[o]
  BY <1>0, <1>1 DEF OpenFails, ReadsHead, AppendsBackup, BackupFails, Mutates, Flushes, Opens,
       Leaves, Begins, Goes, Answers, Finishes
<1>2. ASSUME NEW ask \in Requests, Begins(o, ask) PROVE Opened(o)
  <2>1. ask.by # None => ask.named
    BY RequestsAssumption DEF Asked
  <2>2. op[o].pc = "idle"
        /\ op'[o] = [Fresh EXCEPT !.pc = "open", !.kind = ask.kind, !.by = ask.by,
                                  !.named = ask.named]
    BY <1>0, <1>2 DEF Begins
  <2> QED BY <2>1, <2>2 DEF Opened, Fresh
<1>3. ASSUME OpenFails(o) PROVE OpenFailed(o)
  BY <1>0, <1>3 DEF OpenFails, OpenFailed, Keeps, OpRecords
<1>4. ASSUME Opens(o) PROVE BailedOut(o) \/ TakesSnapshot(o) \/ SkipsBackup(o)
  <2>0. op[o].pc = "open"
    BY <1>4 DEF Opens
  <2>1. CASE live.ins = {} /\ op[o].kind \in {"checkpoint", "revert"}
    <3>1. op' = [op EXCEPT ![o].pc = "leaving", ![o].answer = "draft-document"]
          /\ "bailed out" \in mishaps'
      BY <1>4, <2>1 DEF Opens, Answers, Note
    <3> QED BY <1>0, <2>0, <3>1 DEF BailedOut, Keeps, OpRecords
  <2>2. CASE live.ins # {} /\ op[o].kind = "revert"
    <3>1. op' = [op EXCEPT ![o].pc = "backup", ![o].snap = live, ![o].who = authors]
      BY <1>4, <2>2 DEF Opens
    <3> QED BY <1>0, <1>4, <2>0, <2>2, <3>1 DEF TakesSnapshot, OpRecords
  <2>3. CASE op[o].kind \notin {"checkpoint", "revert"}
             \/ (live.ins # {} /\ op[o].kind = "checkpoint")
    <3>1. op' = [op EXCEPT ![o].pc = "commit"]
      BY <1>4, <2>3 DEF Opens, Goes
    <3>2. op[o].kind # "revert" /\ (op[o].kind = "checkpoint" => live.ins # {})
      BY <2>3
    <3> QED BY <1>0, <2>0, <3>1, <3>2 DEF SkipsBackup, Keeps, OpRecords
  <2> QED BY <2>1, <2>2, <2>3
<1>5. ASSUME ReadsHead(o) PROVE BacksUpMore(o)
  BY <1>0, <1>5 DEF ReadsHead, BacksUpMore, Keeps, OpRecords
<1>6. ASSUME AppendsBackup(o) PROVE BailedOut(o) \/ BacksUpMore(o) \/ BackedUp(o)
  <2>0. op[o].pc = "appending"
    BY <1>6 DEF AppendsBackup
  <2>1. CASE BackupFails(o)
    BY <1>0, <2>0, <2>1 DEF BackupFails, Answers, Note, BailedOut, Keeps, OpRecords
  <2>2. CASE op' = [op EXCEPT ![o].pc = "backup", ![o].tries = 1]
    BY <1>0, <2>0, <2>2 DEF BacksUpMore, Keeps, OpRecords
  <2>3. CASE BacksUp(o)
    BY <1>0, <2>0, <2>3 DEF BacksUp, BackedUp, Goes, Keeps, OpRecords
  <2> QED BY <1>6, <2>1, <2>2, <2>3 DEF AppendsBackup, BacksUp, room, queue
<1>7. ASSUME Mutates(o) PROVE Changes(o) \/ Fails(o)
  <2>0. op[o].pc = "commit"
    BY <1>7 DEF Mutates
  <2>1. CASE live' = Mutated(o) /\ Goes(o, "flush")
    BY <1>0, <1>7, <2>0, <2>1 DEF Goes, Changes, Keeps, OpRecords
  <2>2. CASE op' = [op EXCEPT ![o].pc = "leaving", ![o].stamped = TRUE,
                              ![o].answer = "persist-failed"]
    BY <1>0, <2>0, <2>2 DEF Fails, Keeps, OpRecords
  <2> QED BY <1>7, <2>1, <2>2 DEF Mutates
<1>8. ASSUME Flushes(o) PROVE Fails(o) \/ Flushed(o)
  <2>0. op[o].pc = "flush"
    BY <1>8 DEF Flushes
  <2>1. CASE op' = [op EXCEPT ![o].pc = "leaving", ![o].stamped = TRUE, ![o].answer = "ok"]
             /\ Store(Name(o), Trigger(o), op[o].by, ForceKey(o)) /\ at' = [at EXCEPT ![o] = live]
    BY <1>0, <1>8, <2>0, <2>1 DEF Flushed, Keeps, OpRecords
  <2>2. CASE op' = [op EXCEPT ![o].pc = "leaving", ![o].stamped = TRUE,
                              ![o].answer = "persist-failed"]
    BY <1>0, <2>0, <2>2 DEF Fails, Keeps, OpRecords
  <2> QED BY <1>8, <2>1, <2>2 DEF Flushes
<1>9. ASSUME Leaves(o) PROVE Left(o)
  <2>1. op[o].pc = "leaving"
        /\ op'[o] = [Fresh EXCEPT !.pc = "done", !.named = op[o].named, !.answer = op[o].answer]
    BY <1>0, <1>9 DEF Leaves, Finishes
  <2> QED BY <1>9, <2>1 DEF Left, Fresh
<1>10. ASSUME Restarts PROVE op'[o] = op[o] \/ Died(o)
  <2>1. CASE op[o].pc = "idle"
    BY <1>0, <1>10, <2>1 DEF Restarts
  <2>2. CASE op[o].pc # "idle"
    <3>1. op'[o] = [Fresh EXCEPT !.pc = "done"]
      BY <1>0, <1>10, <2>2 DEF Restarts
    <3>2. op[o].pc # "done" => "bailed out" \in mishaps'
      BY <1>10, <2>2 DEF Restarts
    <3> QED BY <1>10, <2>2, <3>1, <3>2 DEF Died, Fresh
  <2> QED BY <2>1, <2>2
<1>11. CASE \/ \E u \in Users : Types(u)
            \/ Autosaves \/ WindowPasses
            \/ \E w \in Workers : Saves(w) \/ \E j \in jobs : Takes(w, j)
            \/ \E v \in 1..Newest : Deletes(v) \/ Prunes(v)
  BY <1>11 DEF Types, Autosaves, WindowPasses, Saves, Takes, Deletes, Prunes
<1> QED BY <1>1, <1>2, <1>3, <1>4, <1>5, <1>6, <1>7, <1>8, <1>9, <1>10, <1>11 DEF Next, Moves

\* The room only grows, but for a restart; what an operation committed stays; an id
\* carries an operation's force key once that operation is flushing or leaving.
LEMMA RoomSteps ==
  ASSUME TypeOK, Next
  PROVE  /\ Restarts \/ Holds(live', live)
         /\ \A o \in Ops : at'[o] = at[o] \/ Flushed(o)
         /\ \A id \in known', o \in Ops : id.force = o =>
              id \in known \/ Flushed(o) \/ Left(o)
<1>0. op \in [Ops -> OpRecords] /\ at \in [Ops -> Docs \cup {None}] /\ Holds(live, live)
  BY DEF TypeOK, Holds
<1>1. ASSUME NEW u \in Users, Types(u) PROVE Holds(live', live) /\ UNCHANGED <<at, known>>
  BY <1>1 DEF Types, Holds, TypeOK, Docs, queue
<1>2. CASE Autosaves
  <2>1. UNCHANGED <<live, at>>
    BY <1>2 DEF Autosaves
  <2>2. \A id \in known' : id \in known \/ id.force = None
    <3>1. CASE wedged
      BY <1>2, <3>1 DEF Autosaves, queue
    <3>2. CASE ~wedged
      <4>1. known' \in {known, known \cup {JobId(None)}}
        BY <1>2, <3>2, HookCalls, StoreTyped DEF Autosaves
      <4> QED BY <4>1 DEF JobId
    <3> QED BY <3>1, <3>2
  <2>3. \A o \in Ops : o # None
    BY VersionAssumption
  <2> QED BY <1>0, <2>1, <2>2, <2>3
<1>3. CASE Restarts
  BY <1>3 DEF Restarts, queue
<1>4. ASSUME NEW x \in Ops, \/ OpenFails(x) \/ ReadsHead(x) \/ AppendsBackup(x) \/ Opens(x)
                           \/ \E ask \in Requests : Begins(x, ask)
      PROVE  UNCHANGED <<live, at, known>>
  BY <1>4 DEF OpenFails, ReadsHead, AppendsBackup, BackupFails, Opens, Begins, room, queue
<1>5. ASSUME NEW x \in Ops, Mutates(x) PROVE Holds(live', live) /\ UNCHANGED <<at, known>>
  BY <1>0, <1>5, MutatedTyped DEF Mutates, queue
<1>6. ASSUME NEW x \in Ops, Flushes(x)
      PROVE  /\ UNCHANGED live
             /\ \A o \in Ops : at'[o] = at[o] \/ Flushed(o)
             /\ \A id \in known', o \in Ops : id.force = o => id \in known \/ Flushed(o)
  <2>1. CASE UNCHANGED <<at, known>>
    BY <1>6, <2>1 DEF Flushes
  <2>2. CASE ~UNCHANGED <<at, known>>
    <3>1. /\ Store(Name(x), Trigger(x), op[x].by, ForceKey(x)) /\ UNCHANGED <<live, now>>
          /\ op' = [op EXCEPT ![x].pc = "leaving", ![x].stamped = TRUE, ![x].answer = "ok"]
          /\ at' = [at EXCEPT ![x] = live] /\ op[x].pc = "flush"
      BY <1>6, <2>2 DEF Flushes, queue
    <3>2. Flushed(x)
      BY <1>0, <1>6, <3>1 DEF Flushed, Keeps, OpRecords
    <3>3. known' \in {known, known \cup {JobId(ForceKey(x))}}
      BY <3>1, HookCalls, StoreTyped
    <3>4. JobId(ForceKey(x)).force \in {x, None}
      BY DEF JobId, ForceKey
    <3>5. \A o \in Ops : o # None
      BY VersionAssumption
    <3> QED BY <1>0, <3>1, <3>2, <3>3, <3>4, <3>5
  <2> QED BY <2>1, <2>2
<1>7. ASSUME NEW x \in Ops, Leaves(x)
      PROVE  /\ UNCHANGED <<live, at>>
             /\ \A id \in known', o \in Ops : id.force = o => id \in known \/ Left(o)
  <2>1. UNCHANGED <<live, at, now>>
    BY <1>7 DEF Leaves
  <2>2. CASE wedged
    BY <1>7, <2>1, <2>2 DEF Leaves, queue
  <2>3. CASE ~wedged
    <3> DEFINE by == IF op[x].stamped THEN None ELSE Owner
               force == IF op[x].stamped THEN ForceKey(x) ELSE None
    <3>1. Store(None, "websocket", by, force)
      BY <1>7, <2>3, HookCalls
    <3>2. /\ by \in Users \cup {Owner, None} /\ force \in Ops \cup {None} /\ force \in {x, None}
          /\ "websocket" \in Triggers /\ None \in Ops \cup {None}
      BY HookCalls DEF ForceKey
    <3> HIDE DEF by, force
    <3>3. known' \in {known, known \cup {JobId(force)}}
      BY <2>1, <3>1, <3>2, StoreTyped
    <3>4. JobId(force).force \in {x, None}
      BY <3>2 DEF JobId
    <3>5. Left(x)
      <4>1. op[x].pc = "leaving"
            /\ op'[x] = [Fresh EXCEPT !.pc = "done", !.named = op[x].named, !.answer = op[x].answer]
        BY <1>0, <1>7 DEF Leaves, Finishes
      <4> QED BY <1>7, <4>1 DEF Left, Fresh
    <3>6. \A o \in Ops : o # None
      BY VersionAssumption
    <3> QED BY <2>1, <3>3, <3>4, <3>5, <3>6
  <2> QED BY <2>2, <2>3
<1>8. CASE \/ \E w \in Workers : Saves(w) \/ \E j \in jobs : Takes(w, j)
           \/ \E v \in 1..Newest : Deletes(v) \/ Prunes(v)
  BY <1>0, <1>8 DEF Saves, Takes, Deletes, Prunes, room, queue
<1>9. CASE WindowPasses
  BY <1>0, <1>9 DEF WindowPasses, room
<1> QED BY <1>0, <1>1, <1>2, <1>3, <1>4, <1>5, <1>6, <1>7, <1>8, <1>9 DEF Next

\* A restart leaves no operation under way.
LEMMA RestartStops ==
  ASSUME TypeOK, Restarts, NEW o \in Ops
  PROVE  op'[o].pc \in {"idle", "done"}
BY DEF Restarts, Fresh, TypeOK

\* Holding a document is transitive.
LEMMA HoldsOn ==
  ASSUME NEW c, NEW d, NEW e, Holds(c, d), Holds(d, e)
  PROVE  Holds(c, e)
BY DEF Holds

\* Stages, at every step.
LEMMA StageStep == ASSUME TypeOK, StageOK, Next PROVE StageOK'
<1> SUFFICES ASSUME NEW o \in Ops
             PROVE  /\ at'[o] # None => op'[o].pc \in {"leaving", "done"}
                    /\ \A id \in known' : id.force = o => op'[o].pc \in {"leaving", "done"}
                    /\ op'[o].pc \in {"backup", "appending", "flush"} => live'.ins # {}
                    /\ op'[o].pc = "commit" /\ op'[o].kind \in {"checkpoint", "revert"}
                         => live'.ins # {}
                    /\ op'[o].pc = "leaving" /\ ~op'[o].stamped => "bailed out" \in mishaps'
                    /\ op'[o].by # None => op'[o].named
  BY DEF StageOK
<1>1. op'[o] = op[o] \/ Moves(o)
  BY OpSteps
<1>2. /\ Restarts \/ Holds(live', live)
      /\ at'[o] = at[o] \/ Flushed(o)
      /\ \A id \in known' : id.force = o => id \in known \/ Flushed(o) \/ Left(o)
  BY RoomSteps
<1>3. op[o].pc \in {"leaving", "done"} => op'[o].pc \in {"leaving", "done"}
  <2>1. op[o].pc \in {"leaving", "done"} => op'[o] = op[o] \/ Left(o) \/ Died(o)
    BY <1>1 DEF Moves, Opened, OpenFailed, BailedOut, TakesSnapshot, SkipsBackup, BacksUpMore,
         BackedUp, BacksUp, Changes, Fails, Flushed
  <2> QED BY <2>1 DEF Left, Died
<1>4. at'[o] # None => op'[o].pc \in {"leaving", "done"}
  BY <1>2, <1>3 DEF StageOK, Flushed
<1>5. \A id \in known' : id.force = o => op'[o].pc \in {"leaving", "done"}
  BY <1>2, <1>3 DEF StageOK, Flushed, Left
<1>6. ASSUME \/ op'[o].pc \in {"backup", "appending", "flush"}
             \/ op'[o].pc = "commit" /\ op'[o].kind \in {"checkpoint", "revert"}
      PROVE  live'.ins # {}
  <2>1. Holds(live', live)
    BY <1>2, <1>6, RestartStops
  <2>2. live.ins # {} => live'.ins # {}
    BY <2>1 DEF Holds
  <2>3. CASE op'[o] = op[o]
    <3>1. op[o].pc \in {"backup", "appending", "flush"}
          \/ (op[o].pc = "commit" /\ op[o].kind \in {"checkpoint", "revert"})
      BY <1>6, <2>3
    <3> QED BY <2>2, <3>1 DEF StageOK
  <2>4. CASE TakesSnapshot(o) \/ SkipsBackup(o)
    BY <1>6, <2>2, <2>4 DEF TakesSnapshot, SkipsBackup, Keeps
  <2>5. CASE BacksUpMore(o) \/ BackedUp(o)
    <3>1. op[o].pc \in {"backup", "appending"}
      BY <2>5 DEF BacksUpMore, BackedUp, BacksUp
    <3> QED BY <2>2, <3>1 DEF StageOK
  <2>6. CASE Changes(o)
    <3>1. live' = Mutated(o) /\ op[o].pc = "commit" /\ op[o].kind \in {"checkpoint", "revert", "append", "replace"}
      BY <2>6 DEF Changes, TypeOK, OpRecords
    <3>2. op[o].kind = "checkpoint" => live.ins # {}
      BY <3>1 DEF StageOK
    <3>3. op[o].kind # "checkpoint" => o \in live'.ins
      BY <3>1, MutatedTyped
    <3> QED BY <2>2, <3>2, <3>3
  <2> QED BY <1>1, <1>6, <2>3, <2>4, <2>5, <2>6 DEF Moves, Opened, OpenFailed, BailedOut, Fails,
            Flushed, Left, Died
<1>7. op'[o].pc = "leaving" /\ ~op'[o].stamped => "bailed out" \in mishaps'
  <2>1. mishaps \subseteq mishaps'
    BY RoomTyped
  <2> QED BY <1>1, <2>1 DEF StageOK, Moves, Opened, OpenFailed, BailedOut, TakesSnapshot,
            SkipsBackup, BacksUpMore, BackedUp, Changes, Fails, Flushed, Left, Died
<1>8. op'[o].by # None => op'[o].named
  BY <1>1 DEF StageOK, Moves, Opened, OpenFailed, BailedOut, TakesSnapshot,
       SkipsBackup, BacksUpMore, BackedUp, Changes, Fails, Flushed, Left, Died, Keeps
<1> QED BY <1>4, <1>5, <1>6, <1>7, <1>8

----------------------------------------------------------------------------
(* What the steps do to what the history says.                              *)

\* s is made of doc and of what was said before.
From(doc, s) ==
  /\ Holds(s.doc, doc)
  /\ \A e \in s.doc.ins : e \in doc.ins \/ \E t \in Sayings : e \in t.doc.ins
  /\ \A e \in s.doc.del : e \in doc.del \/ \E t \in Sayings : e \in t.doc.del

Old(s) == \E t \in Sayings : s.says = t.says /\ From(t.doc, s)
Saved(s) == Hooked(s.says) /\ s.says.who = authors /\ From(live, s)
Backup(s) == \E o \in Ops :
  BacksUp(o) /\ s.says = Says(o, "revert-backup", op[o].by, op[o].who) /\ From(op[o].snap, s)

\* What is said of documents is said by versions, jobs and transactions.
LEMMA SayingsAre ==
  /\ \A v \in 1..Newest : rows[v] # None => [doc |-> rows[v].doc, says |-> rows[v].says] \in Sayings
  /\ \A j \in jobs : [doc |-> j.id.doc, says |-> j.says] \in Sayings
  /\ \A w \in Workers : tx[w] # None =>
       [doc |-> tx[w].job.id.doc, says |-> tx[w].job.says] \in Sayings
  /\ \A s \in Sayings :
       \/ \E v \in 1..Newest : rows[v] # None /\ s = [doc |-> rows[v].doc, says |-> rows[v].says]
       \/ \E j \in jobs : s = [doc |-> j.id.doc, says |-> j.says]
       \/ \E w \in Workers : tx[w] # None /\ s = [doc |-> tx[w].job.id.doc, says |-> tx[w].job.says]
BY DEF Sayings, Versions, Running

\* And so after a step.
LEMMA SayingsAreNext ==
  /\ \A v \in 1..Newest' : rows'[v] # None =>
       [doc |-> rows'[v].doc, says |-> rows'[v].says] \in Sayings'
  /\ \A j \in jobs' : [doc |-> j.id.doc, says |-> j.says] \in Sayings'
  /\ \A w \in Workers : tx'[w] # None =>
       [doc |-> tx'[w].job.id.doc, says |-> tx'[w].job.says] \in Sayings'
  /\ \A s \in Sayings' :
       \/ \E v \in 1..Newest' : rows'[v] # None
                                /\ s = [doc |-> rows'[v].doc, says |-> rows'[v].says]
       \/ \E j \in jobs' : s = [doc |-> j.id.doc, says |-> j.says]
       \/ \E w \in Workers : tx'[w] # None
                             /\ s = [doc |-> tx'[w].job.id.doc, says |-> tx'[w].job.says]
BY DEF Sayings, Versions, Running

\* A version that is inserted says what it was told to, and is made of its payload and
\* the head; the others were there.
LEMMA InsertSays ==
  ASSUME TypeOK, NEW v, ReadHead(v), NEW doc \in Docs, NEW says \in Claims,
         Insert(v, doc, says)
  PROVE  /\ \A k \in 1..Newest' : rows'[k] # None =>
              \/ k \in 1..Newest /\ rows[k] # None /\ rows'[k] = rows[k]
              \/ /\ rows'[k].says = says
                 /\ From(doc, [doc |-> rows'[k].doc, says |-> rows'[k].says])
         /\ \A k \in 1..Newest : rows[k] # None => k \in 1..Newest' /\ rows'[k] = rows[k]
         /\ \E s \in Sayings' : s.says = says /\ From(doc, s)
<1> DEFINE new == MergedInto(v, doc)
<1>1. /\ Newest \in Nat /\ Newest' = (IF v = Newest THEN Newest + 1 ELSE Newest)
      /\ v + 1 \in 1..Newest' /\ rows'[v + 1] = Row(new, says) /\ rows'[v + 1] \in Rows
      /\ Holds(new, doc)
      /\ \A k \in 1..Newest : k # v + 1 => rows'[k] = rows[k]
      /\ \A k \in 1..Newest' : k # v + 1 => k \in 1..Newest
      /\ v < Newest => v + 1 < Newest /\ rows[v + 1] = None
  BY InsertFacts
<1>2. v \in 0..Newest /\ v \in Nat
  BY <1>1 DEF ReadHead
<1>3. From(doc, [doc |-> new, says |-> says])
  <2>1. CASE v = 0
    BY <1>1, <2>1 DEF From, MergedInto
  <2>2. CASE v > 0
    <3>1. rows[v] # None /\ v \in 1..Newest
      BY <1>1, <1>2, <2>2 DEF ReadHead
    <3>2. [doc |-> rows[v].doc, says |-> rows[v].says] \in Sayings
      BY <3>1, SayingsAre
    <3>3. new = Merge(rows[v].doc, doc)
      BY <1>2, <2>2 DEF MergedInto
    <3> HIDE DEF new
    <3>4. \A e \in new.ins : e \in doc.ins \/ \E t \in Sayings : e \in t.doc.ins
      BY <3>2, <3>3 DEF Merge
    <3>5. \A e \in new.del : e \in doc.del \/ \E t \in Sayings : e \in t.doc.del
      BY <3>2, <3>3 DEF Merge
    <3> QED BY <1>1, <3>4, <3>5 DEF From
  <2> QED BY <1>2, <2>1, <2>2
<1> HIDE DEF new
<1>4. rows'[v + 1].doc = new /\ rows'[v + 1].says = says
  BY <1>1 DEF Row
<1>5. rows'[v + 1] # None
  BY <1>1, VersionAssumption
<1>6. \A k \in 1..Newest : rows[k] # None => k # v + 1
  BY <1>1, <1>2
<1>7. ASSUME NEW k \in 1..Newest', rows'[k] # None
      PROVE  \/ k \in 1..Newest /\ rows[k] # None /\ rows'[k] = rows[k]
             \/ /\ rows'[k].says = says
                /\ From(doc, [doc |-> rows'[k].doc, says |-> rows'[k].says])
  <2>1. CASE k = v + 1
    BY <1>3, <1>4, <2>1
  <2>2. CASE k # v + 1
    BY <1>1, <1>7, <2>2
  <2> QED BY <2>1, <2>2
<1>8. \A k \in 1..Newest : rows[k] # None => k \in 1..Newest' /\ rows'[k] = rows[k]
  BY <1>1, <1>6
<1>9. [doc |-> new, says |-> says] \in Sayings'
  BY <1>1, <1>4, <1>5, SayingsAreNext
<1> QED BY <1>3, <1>7, <1>8, <1>9

\* What is said after a step was said before, or is said of the room by a store hook, or
\* of its snapshot by a revert's backup.
LEMMA SayingsOrigin ==
  ASSUME TypeOK, LocksOK, Next
  PROVE  \A s \in Sayings' : Old(s) \/ Saved(s) \/ Backup(s)
<1>1. \A t \in Sayings : Old(t)
  BY DEF Old, From, Holds
<1>2. ASSUME UNCHANGED rows, \A j \in jobs' : j \in jobs,
             \A w \in Workers : tx'[w] # None => tx[w] # None /\ tx'[w].job = tx[w].job
      PROVE  \A s \in Sayings' : Old(s)
  <2> SUFFICES ASSUME NEW s \in Sayings' PROVE s \in Sayings
    BY <1>1
  <2>1. Newest' = Newest
    BY <1>2 DEF Newest
  <2>2. ASSUME NEW v \in 1..Newest', rows'[v] # None,
               s = [doc |-> rows'[v].doc, says |-> rows'[v].says]
        PROVE  s \in Sayings
    BY <1>2, <2>1, <2>2, SayingsAre
  <2>3. ASSUME NEW j \in jobs', s = [doc |-> j.id.doc, says |-> j.says] PROVE s \in Sayings
    BY <1>2, <2>3, SayingsAre
  <2>4. ASSUME NEW w \in Workers, tx'[w] # None,
               s = [doc |-> tx'[w].job.id.doc, says |-> tx'[w].job.says]
        PROVE  s \in Sayings
    BY <1>2, <2>4, SayingsAre
  <2> QED BY <2>2, <2>3, <2>4, SayingsAreNext
<1>3. ASSUME NEW v, ReadHead(v), NEW doc \in Docs, NEW says \in Claims, Insert(v, doc, says),
             UNCHANGED jobs, \A w \in Workers : tx'[w] # None => tx'[w] = tx[w],
             NEW s \in Sayings'
      PROVE  s \in Sayings \/ (s.says = says /\ From(doc, s))
  <2>1. ASSUME NEW k \in 1..Newest', rows'[k] # None,
               s = [doc |-> rows'[k].doc, says |-> rows'[k].says]
        PROVE  s \in Sayings \/ (s.says = says /\ From(doc, s))
    <3>1. \/ k \in 1..Newest /\ rows[k] # None /\ rows'[k] = rows[k]
          \/ rows'[k].says = says /\ From(doc, s)
      BY <1>3, <2>1, InsertSays
    <3> QED BY <2>1, <3>1, SayingsAre
  <2>2. ASSUME NEW j \in jobs', s = [doc |-> j.id.doc, says |-> j.says] PROVE s \in Sayings
    BY <1>3, <2>2, SayingsAre
  <2>3. ASSUME NEW w \in Workers, tx'[w] # None,
               s = [doc |-> tx'[w].job.id.doc, says |-> tx'[w].job.says]
        PROVE  s \in Sayings
    BY <1>3, <2>3, SayingsAre
  <2> QED BY <2>1, <2>2, <2>3, SayingsAreNext
<1>4. CASE UNCHANGED <<jobs, tx, rows>>
  BY <1>2, <1>4
<1>5. CASE Queues
  <2>1. PICK says \in Claims, force \in Ops \cup {None} :
          /\ Hooked(says) /\ says.who = authors
          /\ jobs' = jobs \cup {[id |-> JobId(force), says |-> says]}
          /\ UNCHANGED <<tx, rows>>
    BY <1>5 DEF Queues
  <2>2. Newest' = Newest
    BY <2>1 DEF Newest
  <2> SUFFICES ASSUME NEW s \in Sayings' PROVE Old(s) \/ Saved(s)
    OBVIOUS
  <2>3. ASSUME NEW j \in jobs', s = [doc |-> j.id.doc, says |-> j.says] PROVE Old(s) \/ Saved(s)
    <3>1. CASE j \in jobs
      BY <1>1, <2>3, <3>1, SayingsAre
    <3>2. CASE j \notin jobs
      <4>1. s.doc = live /\ s.says = says
        BY <2>1, <2>3, <3>2 DEF JobId
      <4> QED BY <2>1, <4>1 DEF Saved, From, Holds
    <3> QED BY <3>1, <3>2
  <2>4. s \in Sayings \/ \E j \in jobs' : s = [doc |-> j.id.doc, says |-> j.says]
    BY <2>1, <2>2, SayingsAre, SayingsAreNext
  <2> QED BY <1>1, <2>3, <2>4
<1>6. CASE SavesItself
  <2>1. PICK says \in Claims : /\ Hooked(says) /\ says.who = authors
                               /\ Insert(Newest, live, says) /\ UNCHANGED <<jobs, tx>>
    BY <1>6 DEF SavesItself
  <2>2. \A s \in Sayings' : s \in Sayings \/ (s.says = says /\ From(live, s))
    BY <1>3, <2>1, Inserted
  <2> QED BY <1>1, <2>1, <2>2 DEF Saved
<1>7. ASSUME NEW o \in Ops, BacksUp(o) PROVE \A s \in Sayings' : Old(s) \/ Backup(s)
  <2> DEFINE says == Says(o, "revert-backup", op[o].by, op[o].who)
  <2>1. op[o].pc = "appending" /\ Insert(op[o].base, op[o].snap, says) /\ UNCHANGED <<jobs, tx>>
    BY <1>7 DEF BacksUp
  <2>2. ReadHead(op[o].base) /\ op[o].snap \in Docs /\ says \in Claims
    BY <2>1, Inserted
  <2> HIDE DEF says
  <2>3. \A s \in Sayings' : s \in Sayings \/ (s.says = says /\ From(op[o].snap, s))
    BY <1>3, <2>1, <2>2
  <2> QED BY <1>1, <1>7, <2>3 DEF Backup, says
<1>8. ASSUME NEW w \in Workers, Commits(w) PROVE \A s \in Sayings' : Old(s)
  <2>1. /\ tx[w] # None /\ Insert(tx[w].base, tx[w].job.id.doc, tx[w].job.says)
        /\ UNCHANGED jobs /\ tx' = [tx EXCEPT ![w] = None]
    BY <1>8 DEF Commits
  <2>2. ReadHead(tx[w].base) /\ tx[w].job.id.doc \in Docs /\ tx[w].job.says \in Claims
    BY <2>1, Inserted
  <2>3. \A x \in Workers : tx'[x] # None => tx'[x] = tx[x]
    BY <2>1 DEF TypeOK
  <2>4. \A s \in Sayings' : \/ s \in Sayings
                            \/ s.says = tx[w].job.says /\ From(tx[w].job.id.doc, s)
    BY <1>3, <2>1, <2>2, <2>3
  <2>5. [doc |-> tx[w].job.id.doc, says |-> tx[w].job.says] \in Sayings
    BY <2>1, SayingsAre
  <2> QED BY <1>1, <2>4, <2>5 DEF Old
<1>9. ASSUME NEW w \in Workers, ReadsAgain(w) PROVE \A s \in Sayings' : Old(s)
  <2>1. /\ tx[w] # None /\ tx' = [tx EXCEPT ![w] = [tx[w] EXCEPT !.base = Newest]]
        /\ UNCHANGED <<jobs, rows>>
    BY <1>9 DEF ReadsAgain
  <2>2. tx[w] \in Txs
    BY <2>1 DEF TypeOK
  <2>3. [tx[w] EXCEPT !.base = Newest].job = tx[w].job
    BY <2>2 DEF Txs
  <2>4. \A x \in Workers : tx'[x] # None => tx[x] # None /\ tx'[x].job = tx[x].job
    BY <2>1, <2>3 DEF TypeOK
  <2> QED BY <1>2, <2>1, <2>4
<1>10. ASSUME NEW w \in Workers, GivesUp(w) PROVE \A s \in Sayings' : Old(s)
  <2>1. tx' = [tx EXCEPT ![w] = None] /\ UNCHANGED <<jobs, rows>>
    BY <1>10 DEF GivesUp
  <2> QED BY <1>2, <2>1 DEF TypeOK
<1>11. ASSUME NEW w \in Workers, NEW j \in jobs, Takes(w, j) PROVE \A s \in Sayings' : Old(s)
  <2>1. /\ tx' = [tx EXCEPT ![w] = [base |-> Newest, job |-> j]] /\ jobs' = jobs \ {j}
        /\ UNCHANGED rows
    BY <1>11 DEF Takes
  <2>2. \A x \in Workers : x # w => tx'[x] = tx[x]
    BY <2>1 DEF TypeOK
  <2>3. tx'[w].job = j
    BY <2>1 DEF TypeOK
  <2>4. Newest' = Newest
    BY <2>1 DEF Newest
  <2> SUFFICES ASSUME NEW s \in Sayings' PROVE s \in Sayings
    BY <1>1
  <2>5. ASSUME NEW x \in Workers, tx'[x] # None,
               s = [doc |-> tx'[x].job.id.doc, says |-> tx'[x].job.says]
        PROVE  s \in Sayings
    BY <2>2, <2>3, <2>5, SayingsAre
  <2> QED BY <2>1, <2>4, <2>5, SayingsAre, SayingsAreNext
<1>12. CASE Thins
  <2>1. /\ Newest' = Newest /\ \A k \in 1..Newest : rows'[k] \in {rows[k], None}
        /\ UNCHANGED <<jobs, tx>>
    BY <1>12 DEF Thins
  <2> SUFFICES ASSUME NEW s \in Sayings' PROVE s \in Sayings
    BY <1>1
  <2>2. ASSUME NEW v \in 1..Newest', rows'[v] # None,
               s = [doc |-> rows'[v].doc, says |-> rows'[v].says]
        PROVE  s \in Sayings
    BY <2>1, <2>2, SayingsAre
  <2> QED BY <2>1, <2>2, SayingsAre, SayingsAreNext
<1> QED BY <1>4, <1>5, <1>6, <1>7, <1>8, <1>9, <1>10, <1>11, <1>12, StepKinds

\* Versions stay, or are deleted or pruned.
LEMMA VersionsStay ==
  ASSUME TypeOK, LocksOK, Next
  PROVE  \A k \in 1..Newest : rows[k] # None =>
           \/ k \in 1..Newest' /\ rows'[k] = rows[k]
           \/ "version deleted" \in mishaps'
           \/ /\ "versions pruned" \in mishaps'
              /\ rows[k].says.name = None \/ rows[k].says.trigger = "revert-backup"
<1>1. CASE UNCHANGED rows
  BY <1>1 DEF Newest
<1>2. CASE SavesItself
  BY <1>2, Inserted, InsertSays DEF SavesItself
<1>3. ASSUME NEW o \in Ops, BacksUp(o)
      PROVE  \A k \in 1..Newest : rows[k] # None => k \in 1..Newest' /\ rows'[k] = rows[k]
  <2>1. op[o].pc = "appending"
        /\ Insert(op[o].base, op[o].snap, Says(o, "revert-backup", op[o].by, op[o].who))
    BY <1>3 DEF BacksUp
  <2> QED BY <2>1, Inserted, InsertSays
<1>4. ASSUME NEW w \in Workers, Commits(w)
      PROVE  \A k \in 1..Newest : rows[k] # None => k \in 1..Newest' /\ rows'[k] = rows[k]
  <2>1. tx[w] # None /\ Insert(tx[w].base, tx[w].job.id.doc, tx[w].job.says)
    BY <1>4 DEF Commits
  <2> QED BY <2>1, Inserted, InsertSays
<1>5. CASE Thins
  <2>1. /\ Newest' = Newest
        /\ \/ "version deleted" \in mishaps'
           \/ /\ "versions pruned" \in mishaps'
              /\ \A k \in 1..Newest : rows'[k] # rows[k] =>
                   rows[k].says.name = None \/ rows[k].says.trigger = "revert-backup"
    BY <1>5 DEF Thins
  <2> QED BY <2>1
<1> QED BY <1>1, <1>2, <1>3, <1>4, <1>5, StepKinds DEF Queues, ReadsAgain, GivesUp, Takes

\* What is said is said on, as a job, by a transaction and in a row, unless the job is
\* given up or the version goes.
LEMMA SayingsKept ==
  ASSUME TypeOK, LocksOK, Next, NEW t \in Sayings
  PROVE  \/ \E s \in Sayings' : s.says = t.says /\ Holds(s.doc, t.doc)
         \/ "dead letter" \in mishaps' \/ "version deleted" \in mishaps'
         \/ /\ "versions pruned" \in mishaps'
            /\ t.says.name = None \/ t.says.trigger = "revert-backup"
<1> DEFINE Kept == \/ \E s \in Sayings' : s.says = t.says /\ Holds(s.doc, t.doc)
                   \/ "dead letter" \in mishaps' \/ "version deleted" \in mishaps'
                   \/ /\ "versions pruned" \in mishaps'
                      /\ t.says.name = None \/ t.says.trigger = "revert-backup"
<1> SUFFICES Kept
  OBVIOUS
<1>0. t \in Sayings' => Kept
  BY DEF Holds
<1> HIDE DEF Kept
<1>1. ASSUME NEW v \in 1..Newest, rows[v] # None, t = [doc |-> rows[v].doc, says |-> rows[v].says]
      PROVE  Kept
  <2>1. CASE v \in 1..Newest' /\ rows'[v] = rows[v]
    BY <1>0, <1>1, <2>1, SayingsAreNext
  <2> QED BY <1>1, <2>1, VersionsStay DEF Kept
<1>2. ASSUME NEW j \in jobs, t = [doc |-> j.id.doc, says |-> j.says] PROVE Kept
  <2>1. CASE j \in jobs'
    BY <1>0, <1>2, <2>1, SayingsAreNext
  <2>2. CASE j \notin jobs'
    <3>1. PICK w \in Workers : Takes(w, j)
      BY <2>2, StepKinds DEF Queues, SavesItself, BacksUp, Commits, ReadsAgain, GivesUp, Thins, Takes
    <3>2. tx'[w] = [base |-> Newest, job |-> j]
      BY <3>1 DEF Takes, TypeOK
    <3>3. tx'[w] # None
      <4>1. [base |-> Newest, job |-> j] \in Txs
        BY DEF Txs, TypeOK, Newest
      <4> QED BY <3>2, <4>1, VersionAssumption
    <3>4. [doc |-> tx'[w].job.id.doc, says |-> tx'[w].job.says] \in Sayings'
      BY <3>3, SayingsAreNext
    <3> QED BY <1>0, <1>2, <3>2, <3>4
  <2> QED BY <2>1, <2>2
<1>3. ASSUME NEW w \in Workers, tx[w] # None,
             t = [doc |-> tx[w].job.id.doc, says |-> tx[w].job.says]
      PROVE  Kept
  <2>1. CASE tx'[w] # None /\ tx'[w].job = tx[w].job
    <3>1. [doc |-> tx'[w].job.id.doc, says |-> tx'[w].job.says] \in Sayings'
      BY <2>1, SayingsAreNext
    <3> QED BY <1>0, <1>3, <2>1, <3>1
  <2>2. CASE Commits(w)
    <3>1. Insert(tx[w].base, tx[w].job.id.doc, tx[w].job.says)
      BY <2>2 DEF Commits
    <3>2. \E s \in Sayings' : s.says = tx[w].job.says /\ From(tx[w].job.id.doc, s)
      BY <1>3, <3>1, Inserted, InsertSays
    <3> QED BY <1>3, <3>2 DEF Kept, From
  <2>3. CASE GivesUp(w)
    BY <2>3 DEF GivesUp, Kept
  <2>4. \/ tx'[w] # None /\ tx'[w].job = tx[w].job
        \/ Commits(w) \/ GivesUp(w)
    <3>1. tx[w] \in Txs
      BY <1>3 DEF TypeOK
    <3>2. CASE tx'[w] = tx[w]
      BY <1>3, <3>2
    <3>3. CASE ReadsAgain(w)
      <4>1. tx'[w] = [tx[w] EXCEPT !.base = Newest]
        BY <3>3 DEF ReadsAgain, TypeOK
      <4>2. tx'[w] \in Txs /\ tx'[w].job = tx[w].job
        BY <3>1, <4>1 DEF Txs, Newest, TypeOK
      <4> QED BY <4>2, VersionAssumption
    <3>4. \A x \in Workers : x # w /\ (Commits(x) \/ GivesUp(x) \/ ReadsAgain(x)) => tx'[w] = tx[w]
      BY DEF Commits, GivesUp, ReadsAgain, TypeOK
    <3>5. \A x \in Workers, j \in jobs : Takes(x, j) => tx'[w] = tx[w]
      BY <1>3 DEF Takes, TypeOK
    <3>6. Queues \/ SavesItself \/ Thins \/ (\E o \in Ops : BacksUp(o)) => tx' = tx
      BY DEF Queues, SavesItself, Thins, BacksUp
    <3> QED BY <3>2, <3>3, <3>4, <3>5, <3>6, StepKinds
  <2> QED BY <2>1, <2>2, <2>3, <2>4
<1> QED BY <1>1, <1>2, <1>3, SayingsAre

\* A store hook that drained the contributors tells of them, unless the id was known or
\* the fallback failed.
LEMMA HookTells ==
  ASSUME TypeOK, LocksOK, NEW name \in Ops \cup {None}, NEW trigger \in Triggers,
         NEW by \in Users \cup {Owner, None}, NEW force \in Ops \cup {None},
         Store(name, trigger, by, force)
  PROVE  \/ live.ins = {} /\ UNCHANGED <<authors, queue, rows, faults, mishaps>>
         \/ /\ live.ins # {} /\ authors' = {}
            /\ \/ \E s \in Sayings' : /\ s.says = Says(name, trigger, by, authors)
                                      /\ From(live, s)
               \/ JobId(force) \in known
               \/ "flush dropped" \in mishaps'
<1> DEFINE says == Says(name, trigger, by, authors)
<1>1. CASE Insert(Newest, live, says) /\ live.ins # {} /\ authors' = {}
  <2>1. says \in Claims
    BY StoreKinds
  <2> HIDE DEF says
  <2>2. \E s \in Sayings' : s.says = says /\ From(live, s)
    BY <1>1, <2>1, Inserted, InsertSays
  <2> QED BY <1>1, <2>2 DEF says
<1>2. CASE jobs' = jobs \cup {[id |-> JobId(force), says |-> says]} /\ live.ins # {} /\ authors' = {}
  <2> DEFINE job == [id |-> JobId(force), says |-> says]
  <2>a. job \in jobs' /\ job.id.doc = live /\ job.says = says
    BY <1>2 DEF JobId
  <2> HIDE DEF job, says
  <2>1. [doc |-> live, says |-> says] \in Sayings'
    BY <2>a, SayingsAreNext
  <2>2. From(live, [doc |-> live, says |-> says])
    BY DEF From, Holds
  <2> QED BY <1>2, <2>1, <2>2 DEF says
<1> QED BY <1>1, <1>2, StoreKinds

----------------------------------------------------------------------------
(* The invariant, conjunct by conjunct.                                     *)

\* What a store hook says: a name is the flushing operation's, and somebody else than
\* nobody is whose context it was.
LEMMA HookNames ==
  ASSUME TypeOK, StageOK, NEW says, Hooked(says)
  PROVE  /\ \A o \in Ops : says.name = o => /\ op[o].pc = "flush" /\ op'[o].answer = "ok"
                                            /\ at' = [at EXCEPT ![o] = live]
         /\ says.by # None => \/ Autosaves /\ says.by = typist
                              \/ says.name # None
                              \/ "bailed out" \in mishaps
<1>0. \A o \in Ops : o # None
  BY VersionAssumption
<1>1. CASE Autosaves /\ says = Says(None, "websocket", typist, authors)
  BY <1>0, <1>1 DEF Says
<1>2. ASSUME NEW x \in Ops, Flushes(x), op'[x].answer = "ok",
             says = Says(Name(x), Trigger(x), op[x].by, authors)
      PROVE  /\ \A o \in Ops : says.name = o => /\ op[o].pc = "flush" /\ op'[o].answer = "ok"
                                                /\ at' = [at EXCEPT ![o] = live]
             /\ says.by # None => says.name # None
  <2>1. says.name \in {x, None} /\ says.by = op[x].by
    BY <1>2 DEF Says, Name
  <2>2. op[x].pc = "flush" /\ at' = [at EXCEPT ![x] = live]
    BY <1>2 DEF Flushes, TypeOK, OpRecords
  <2>3. says.by # None => says.name = x
    BY <1>2, <2>1 DEF StageOK, Says, Name
  <2> QED BY <1>0, <1>2, <2>1, <2>2, <2>3
<1>3. ASSUME NEW x \in Ops, Leaves(x),
             says = Says(None, "websocket", IF op[x].stamped THEN None ELSE Owner, authors)
      PROVE  says.name = None /\ (says.by # None => "bailed out" \in mishaps)
  <2>1. op[x].pc = "leaving"
    BY <1>3 DEF Leaves
  <2>2. says.name = None /\ says.by = IF op[x].stamped THEN None ELSE Owner
    BY <1>3 DEF Says
  <2> QED BY <2>1, <2>2 DEF StageOK
<1> QED BY <1>0, <1>1, <1>2, <1>3 DEF Hooked

\* Names, at every step.
LEMMA NameStep ==
  ASSUME TypeOK, LocksOK, StageOK, NameOK, Next
  PROVE  NameOK'
<1> SUFFICES ASSUME NEW o \in Ops, NEW s \in Sayings', Marks(s.says, o)
             PROVE  at'[o] # None /\ Holds(s.doc, at'[o])
  BY DEF NameOK, Marks
<1>1. CASE Old(s)
  <2>1. PICK t \in Sayings : s.says = t.says /\ Holds(s.doc, t.doc)
    BY <1>1 DEF Old, From
  <2>2. at[o] # None /\ Holds(t.doc, at[o])
    BY <2>1 DEF NameOK
  <2>3. at'[o] = at[o]
    BY <2>2, RoomSteps DEF StageOK, Flushed
  <2> QED BY <2>1, <2>2, <2>3, HoldsOn
<1>2. CASE Saved(s)
  <2>1. Hooked(s.says) /\ s.says.name = o /\ Holds(s.doc, live)
    BY <1>2 DEF Saved, From, Marks
  <2>2. at'[o] = live
    BY <2>1, HookNames DEF TypeOK
  <2>3. live # None
    BY VersionAssumption DEF TypeOK
  <2> QED BY <2>1, <2>2, <2>3
<1>3. CASE Backup(s)
  BY <1>3 DEF Backup, Marks, Says
<1> QED BY <1>1, <1>2, <1>3, SayingsOrigin

\* An operation about to flush has marked nothing yet.
LEMMA FlushesFirst ==
  ASSUME StageOK, NameOK, NEW o \in Ops, op[o].pc = "flush"
  PROVE  /\ \A v \in Versions : ~Marks(rows[v].says, o)
         /\ \A j \in jobs : ~Marks(j.says, o)
         /\ \A w \in Running : ~Marks(tx[w].job.says, o)
<1>1. at[o] = None
  BY DEF StageOK
<1>2. \A s \in Sayings : ~Marks(s.says, o)
  BY <1>1 DEF NameOK
<1> QED BY <1>2, SayingsAre DEF Versions, Running

\* Marks, at every step: there is one place they are.
LEMMA UniqueStep ==
  ASSUME TypeOK, LocksOK, StageOK, NameOK, UniqueOK, Next
  PROVE  UniqueOK'
<1> SUFFICES ASSUME NEW o \in Ops
      PROVE  /\ \A v, x \in Versions' : Marks(rows'[v].says, o) /\ Marks(rows'[x].says, o) => v = x
             /\ \A j, k \in jobs' : Marks(j.says, o) /\ Marks(k.says, o) => j = k
             /\ \A w, x \in Running' :
                  Marks(tx'[w].job.says, o) /\ Marks(tx'[x].job.says, o) => w = x
             /\ \A v \in Versions', j \in jobs' : ~(Marks(rows'[v].says, o) /\ Marks(j.says, o))
             /\ \A v \in Versions', w \in Running' :
                  ~(Marks(rows'[v].says, o) /\ Marks(tx'[w].job.says, o))
             /\ \A j \in jobs', w \in Running' :
                  ~(Marks(j.says, o) /\ Marks(tx'[w].job.says, o))
  BY DEF UniqueOK, Marks
<1> DEFINE Row1(v) == v \in Versions /\ Marks(rows[v].says, o)
           Job1(j) == j \in jobs /\ Marks(j.says, o)
           Tx1(w) == w \in Running /\ Marks(tx[w].job.says, o)
           Row2(v) == v \in Versions' /\ Marks(rows'[v].says, o)
           Job2(j) == j \in jobs' /\ Marks(j.says, o)
           Tx2(w) == w \in Running' /\ Marks(tx'[w].job.says, o)
           One(R(_), J(_), T(_)) ==
             /\ \A v, x : R(v) /\ R(x) => v = x
             /\ \A j, k : J(j) /\ J(k) => j = k
             /\ \A w, x : T(w) /\ T(x) => w = x
             /\ \A v, j : ~(R(v) /\ J(j))
             /\ \A v, w : ~(R(v) /\ T(w))
             /\ \A j, w : ~(J(j) /\ T(w))
<1>1. One(Row1, Job1, Tx1)
  BY DEF UniqueOK
<1>2. SUFFICES One(Row2, Job2, Tx2)
  OBVIOUS
<1>3. /\ \A v : Row1(v) <=> v \in 1..Newest /\ rows[v] # None /\ Marks(rows[v].says, o)
      /\ \A v : Row2(v) <=> v \in 1..Newest' /\ rows'[v] # None /\ Marks(rows'[v].says, o)
      /\ \A w : Tx1(w) <=> w \in Workers /\ tx[w] # None /\ Marks(tx[w].job.says, o)
      /\ \A w : Tx2(w) <=> w \in Workers /\ tx'[w] # None /\ Marks(tx'[w].job.says, o)
  BY DEF Versions, Running
<1>4. op[o].pc = "flush" => /\ \A v : ~Row1(v)
                            /\ \A j : ~Job1(j)
                            /\ \A w : ~Tx1(w)
  BY FlushesFirst
<1>5. UNCHANGED rows => \A v : Row2(v) => Row1(v)
  BY <1>3 DEF Newest
<1>6. ASSUME NEW v, ReadHead(v), NEW doc \in Docs, NEW says \in Claims, Insert(v, doc, says)
      PROVE  \E new : \A k : Row2(k) => Row1(k) \/ (k = new /\ Marks(says, o))
  <2>0. /\ rows'[v + 1] = Row(MergedInto(v, doc), says)
        /\ \A k \in 1..Newest' : k # v + 1 => k \in 1..Newest
        /\ \A k \in 1..Newest : k # v + 1 => rows'[k] = rows[k]
    BY <1>6, InsertFacts
  <2>1. /\ \A k \in 1..Newest' : k # v + 1 => k \in 1..Newest /\ rows'[k] = rows[k]
        /\ rows'[v + 1].says = says
    BY <2>0 DEF Row
  <2>2. \A k : Row2(k) => Row1(k) \/ (k = v + 1 /\ Marks(says, o))
    BY <1>3, <2>1
  <2> QED BY <2>2
<1>7. CASE Thins
  <2>1. \A k : Row2(k) => Row1(k)
    BY <1>3, <1>7 DEF Thins
  <2>2. \A j : Job2(j) => Job1(j)
    BY <1>7 DEF Thins
  <2>3. \A w : Tx2(w) => Tx1(w)
    BY <1>3, <1>7 DEF Thins
  <2> HIDE DEF Row1, Row2, Job1, Job2, Tx1, Tx2
  <2> QED BY <1>1, <2>1, <2>2, <2>3
<1>8. CASE UNCHANGED <<jobs, tx, rows>>
  <2>2. \A j : Job2(j) => Job1(j)
    BY <1>8
  <2>3. \A w : Tx2(w) => Tx1(w)
    BY <1>3, <1>8
  <2> HIDE DEF Row1, Row2, Job1, Job2, Tx1, Tx2
  <2> QED BY <1>1, <1>5, <1>8, <2>2, <2>3
<1>9. CASE Queues
  <2>1. PICK says \in Claims, force \in Ops \cup {None} :
          /\ Hooked(says) /\ UNCHANGED <<tx, rows>>
          /\ jobs' = jobs \cup {[id |-> JobId(force), says |-> says]}
    BY <1>9 DEF Queues
  <2>2. \A j : Job2(j) => Job1(j) \/ (j = [id |-> JobId(force), says |-> says] /\ Marks(says, o))
    BY <2>1
  <2>3. \A w : Tx2(w) => Tx1(w)
    BY <1>3, <2>1
  <2>4. Marks(says, o) => op[o].pc = "flush"
    BY <2>1, HookNames DEF Marks
  <2> HIDE DEF Row1, Row2, Job1, Job2, Tx1, Tx2
  <2> QED BY <1>1, <1>4, <1>5, <2>1, <2>2, <2>3, <2>4
<1>10. CASE SavesItself
  <2>1. PICK says \in Claims : Hooked(says) /\ Insert(Newest, live, says) /\ UNCHANGED <<jobs, tx>>
    BY <1>10 DEF SavesItself
  <2>2. PICK new : \A k : Row2(k) => Row1(k) \/ (k = new /\ Marks(says, o))
    BY <1>6, <2>1, Inserted
  <2>3. \A j : Job2(j) => Job1(j)
    BY <2>1
  <2>4. \A w : Tx2(w) => Tx1(w)
    BY <1>3, <2>1
  <2>5. Marks(says, o) => op[o].pc = "flush"
    BY <2>1, HookNames DEF Marks
  <2> HIDE DEF Row1, Row2, Job1, Job2, Tx1, Tx2
  <2> QED BY <1>1, <1>4, <2>2, <2>3, <2>4, <2>5
<1>11. ASSUME NEW x \in Ops, BacksUp(x) PROVE One(Row2, Job2, Tx2)
  <2> DEFINE says == Says(x, "revert-backup", op[x].by, op[x].who)
  <2>1. op[x].pc = "appending" /\ Insert(op[x].base, op[x].snap, says) /\ UNCHANGED <<jobs, tx>>
    BY <1>11 DEF BacksUp
  <2>2. ReadHead(op[x].base) /\ op[x].snap \in Docs /\ says \in Claims
    BY <2>1, Inserted
  <2>3. ~Marks(says, o)
    BY DEF Marks, Says
  <2> HIDE DEF says
  <2>4. \A k : Row2(k) => Row1(k)
    BY <1>6, <2>1, <2>2, <2>3
  <2>5. \A j : Job2(j) => Job1(j)
    BY <2>1
  <2>6. \A w : Tx2(w) => Tx1(w)
    BY <1>3, <2>1
  <2> HIDE DEF Row1, Row2, Job1, Job2, Tx1, Tx2
  <2> QED BY <1>1, <2>4, <2>5, <2>6
<1>12. ASSUME NEW w \in Workers, Commits(w) PROVE One(Row2, Job2, Tx2)
  <2>1. /\ tx[w] # None /\ Insert(tx[w].base, tx[w].job.id.doc, tx[w].job.says)
        /\ UNCHANGED jobs /\ tx' = [tx EXCEPT ![w] = None]
    BY <1>12 DEF Commits
  <2>2. ReadHead(tx[w].base) /\ tx[w].job.id.doc \in Docs /\ tx[w].job.says \in Claims
    BY <2>1, Inserted
  <2>3. PICK new : \A k : Row2(k) => Row1(k) \/ (k = new /\ Marks(tx[w].job.says, o))
    BY <1>6, <2>1, <2>2
  <2>4. \A j : Job2(j) => Job1(j)
    BY <2>1
  <2>5. \A x : Tx2(x) => Tx1(x) /\ x # w
    BY <1>3, <2>1 DEF TypeOK
  <2>6. Marks(tx[w].job.says, o) => Tx1(w)
    BY <1>3, <2>1
  <2> HIDE DEF Row1, Row2, Job1, Job2, Tx1, Tx2
  <2> QED BY <1>1, <2>3, <2>4, <2>5, <2>6
<1>13. ASSUME NEW w \in Workers, ReadsAgain(w) \/ GivesUp(w) PROVE One(Row2, Job2, Tx2)
  <2>1. UNCHANGED <<jobs, rows>>
    BY <1>13 DEF ReadsAgain, GivesUp
  <2>2. \A x \in Workers : tx'[x] # None => tx[x] # None /\ tx'[x].job = tx[x].job
    <3>1. CASE GivesUp(w)
      BY <3>1 DEF GivesUp, TypeOK
    <3>2. CASE ReadsAgain(w)
      <4>1. tx[w] \in Txs /\ tx' = [tx EXCEPT ![w] = [tx[w] EXCEPT !.base = Newest]]
        BY <3>2 DEF ReadsAgain, TypeOK
      <4>2. tx[w] # None /\ [tx[w] EXCEPT !.base = Newest].job = tx[w].job
        BY <3>2, <4>1 DEF ReadsAgain, Txs
      <4> QED BY <4>1, <4>2 DEF TypeOK
    <3> QED BY <1>13, <3>1, <3>2
  <2>3. \A j : Job2(j) => Job1(j)
    BY <2>1
  <2>4. \A x : Tx2(x) => Tx1(x)
    BY <1>3, <2>2
  <2> HIDE DEF Row1, Row2, Job1, Job2, Tx1, Tx2
  <2> QED BY <1>1, <1>5, <2>1, <2>3, <2>4
<1>14. ASSUME NEW w \in Workers, NEW j \in jobs, Takes(w, j) PROVE One(Row2, Job2, Tx2)
  <2>1. /\ tx[w] = None /\ tx' = [tx EXCEPT ![w] = [base |-> Newest, job |-> j]]
        /\ jobs' = jobs \ {j} /\ UNCHANGED rows
    BY <1>14 DEF Takes
  <2>2. \A k : Job2(k) => Job1(k) /\ k # j
    BY <2>1
  <2>3. \A x : Tx2(x) => Tx1(x) \/ (x = w /\ Job1(j))
    <3>1. tx'[w].job = j
      BY <2>1 DEF TypeOK
    <3>2. \A x \in Workers : x # w => tx'[x] = tx[x]
      BY <2>1 DEF TypeOK
    <3> QED BY <1>3, <3>1, <3>2
  <2> HIDE DEF Row1, Row2, Job1, Job2, Tx1, Tx2
  <2> QED BY <1>1, <1>5, <2>1, <2>2, <2>3
<1> QED BY <1>7, <1>8, <1>9, <1>10, <1>11, <1>12, <1>13, <1>14, StepKinds

\* An accident that excuses something excuses it for good.
LEMMA ExcusedOn ==
  ASSUME TypeOK, Next, NEW accidents, Excused(accidents)
  PROVE  Excused(accidents)'
BY RoomTyped DEF Excused

\* Answers, at every step.
LEMMA AnswersStep ==
  ASSUME TypeOK, LocksOK, StageOK, AnswersAreKept, Next
  PROVE  AnswersAreKept'
<1> DEFINE Lost == {"flush dropped", "dead letter", "version deleted"}
<1> SUFFICES ASSUME NEW o \in Ops, op'[o].answer = "ok", op'[o].named
             PROVE  (\E s \in Sayings' : Marks(s.says, o)) \/ mishaps' \cap Lost # {}
  BY DEF AnswersAreKept, NamedBy, Marks, Excused
<1>1. CASE Flushed(o)
  <2>1. /\ op[o].pc = "flush" /\ op[o].named
        /\ Store(Name(o), Trigger(o), op[o].by, ForceKey(o))
    BY <1>1 DEF Flushed, Keeps
  <2>2. live.ins # {} /\ JobId(ForceKey(o)) \notin known
    BY <2>1 DEF StageOK, JobId, ForceKey
  <2>3. \/ \E s \in Sayings' : s.says = Says(Name(o), Trigger(o), op[o].by, authors)
        \/ "flush dropped" \in mishaps'
    <3>1. /\ Name(o) \in Ops \cup {None} /\ ForceKey(o) \in Ops \cup {None}
          /\ Trigger(o) \in Triggers /\ op[o].by \in Users \cup {Owner, None}
      BY HookCalls
    <3> QED BY <2>1, <2>2, <3>1, HookTells
  <2>4. Marks(Says(Name(o), Trigger(o), op[o].by, authors), o)
    BY <2>1 DEF Marks, Says, Name, Trigger, TypeOK, OpRecords
  <2> QED BY <2>3, <2>4
<1>2. CASE ~Flushed(o)
  <2>0. op'[o] = op[o] \/ Moves(o)
    BY OpSteps
  <2>1. op[o].answer = "ok" /\ op[o].named
    BY <1>2, <2>0, VersionAssumption DEF Moves, Opened, OpenFailed, BailedOut, TakesSnapshot,
       SkipsBackup, BacksUpMore, BackedUp, Changes, Fails, Left, Died, Keeps, Given
  <2>2. CASE Excused(Lost)
    BY <2>2, ExcusedOn DEF Excused
  <2>3. ASSUME NEW t \in Sayings, Marks(t.says, o)
        PROVE  (\E s \in Sayings' : Marks(s.says, o)) \/ mishaps' \cap Lost # {}
    <3>1. t.says.name # None /\ t.says.trigger # "revert-backup"
      BY <2>3, VersionAssumption DEF Marks
    <3> QED BY <2>3, <3>1, SayingsKept
  <2> QED BY <2>1, <2>2, <2>3 DEF AnswersAreKept, NamedBy, Marks
<1> QED BY <1>1, <1>2

\* Whose context the next debounced store carries: nobody's, the one's who typed last.
LEMMA TypistStep ==
  ASSUME TypeOK, Next
  PROVE  \/ typist' = None
         \/ \E e \in live'.ins \ Ops : e.by = typist'
         \/ typist' = typist /\ Holds(live', live)
<1>1. ASSUME NEW u \in Users, Types(u) PROVE \E e \in live'.ins \ Ops : e.by = typist'
  <2>1. PICK e \in Edits : e.by = u /\ live' = [live EXCEPT !.ins = @ \cup {e}]
    BY <1>1 DEF Types
  <2>2. e \in live'.ins \ Ops
    BY <2>1, VersionAssumption, SMTT(30) DEF TypeOK, Docs
  <2> QED BY <1>1, <2>1, <2>2 DEF Types
<1>2. Autosaves \/ Restarts \/ (\E o \in Ops : Flushes(o) \/ Leaves(o)) => typist' = None
  BY DEF Autosaves, Restarts, Flushes, Leaves
<1>3. ASSUME \/ \E o \in Ops : \/ OpenFails(o) \/ Opens(o) \/ ReadsHead(o) \/ AppendsBackup(o)
                               \/ Mutates(o) \/ \E ask \in Requests : Begins(o, ask)
             \/ \E w \in Workers : Saves(w) \/ \E j \in jobs : Takes(w, j)
             \/ \E v \in 1..Newest : Deletes(v) \/ Prunes(v)
             \/ WindowPasses
      PROVE  typist' = typist
  BY <1>3 DEF OpenFails, Opens, ReadsHead, AppendsBackup, BackupFails, Mutates, Begins, Saves,
       Takes, Deletes, Prunes, WindowPasses, room
<1> QED BY <1>1, <1>2, <1>3, RoomSteps DEF Next, Restarts

\* Actors, at every step.
LEMMA ActorStep ==
  ASSUME TypeOK, LocksOK, StageOK, ActorOK, Next
  PROVE  ActorOK'
<1>1. typist' # None => \E e \in live'.ins \ Ops : e.by = typist'
  BY TypistStep DEF ActorOK, Holds
<1>2. ASSUME NEW s \in Sayings', s.says.by # None
      PROVE  \/ \E e \in s.doc.ins \ Ops : e.by = s.says.by
             \/ s.says.name # None
             \/ "bailed out" \in mishaps'
  <2>0. mishaps \subseteq mishaps' /\ \A o \in Ops : o # None
    BY RoomTyped, VersionAssumption
  <2>1. CASE Old(s)
    <3>1. PICK t \in Sayings : s.says = t.says /\ Holds(s.doc, t.doc)
      BY <2>1 DEF Old, From
    <3>2. \/ \E e \in t.doc.ins \ Ops : e.by = t.says.by
          \/ t.says.name # None \/ "bailed out" \in mishaps
      BY <1>2, <3>1 DEF ActorOK, ActorsActed, Excused
    <3> QED BY <2>0, <3>1, <3>2 DEF Holds
  <2>2. CASE Saved(s)
    <3>1. Hooked(s.says) /\ Holds(s.doc, live)
      BY <2>2 DEF Saved, From
    <3>2. s.says.by = typist \/ s.says.name # None \/ "bailed out" \in mishaps
      BY <1>2, <3>1, HookNames
    <3> QED BY <1>2, <2>0, <3>1, <3>2 DEF ActorOK, Holds
  <2>3. CASE Backup(s)
    <3>1. PICK o \in Ops : s.says = Says(o, "revert-backup", op[o].by, op[o].who)
      BY <2>3 DEF Backup
    <3>2. s.says.name = o
      BY <3>1 DEF Says
    <3> QED BY <2>0, <3>2
  <2> QED BY <2>1, <2>2, <2>3, SayingsOrigin
<1> QED BY <1>1, <1>2 DEF ActorOK, ActorsActed, Excused

\* Who is told of, is told of further.
LEMMA ToldKept ==
  ASSUME TypeOK, LocksOK, Next, NEW u, Told(u) \/ Excused(Uncredited)
  PROVE  Told(u)' \/ Excused(Uncredited)'
<1>1. CASE Excused(Uncredited)
  BY <1>1, ExcusedOn DEF Uncredited
<1>2. CASE Told(u)
  BY <1>2, SayingsKept DEF Told, Excused, Uncredited
<1> QED BY <1>1, <1>2

\* And who is credited is.
LEMMA CreditKept ==
  ASSUME TypeOK, LocksOK, CreditOK, Next, NEW u, Credited(u)
  PROVE  Credited(u)'
<1>1. CASE Told(u) \/ Excused(Uncredited)
  BY <1>1, ToldKept DEF Credited
<1>2. ASSUME NEW o \in Ops, u \in op[o].who PROVE Credited(u)'
  <2>1. CASE op[o].pc \notin {"backup", "appending"}
    BY <1>1, <1>2, <2>1 DEF CreditOK
  <2>2. CASE op[o].pc \in {"backup", "appending"}
    <3>1. op'[o].who = op[o].who \/ "bailed out" \in mishaps'
      BY <2>2, OpSteps DEF Moves, Opened, OpenFailed, BailedOut, TakesSnapshot, SkipsBackup,
         BacksUpMore, BackedUp, Changes, Fails, Flushed, Left, Died, Keeps
    <3> QED BY <1>2, <3>1 DEF Credited, Excused, Uncredited
  <2> QED BY <2>1, <2>2
<1> QED BY <1>1, <1>2 DEF Credited

\* What a step does to the contributors, the ids and the room.
LEMMA DrainSteps ==
  ASSUME TypeOK, Next
  PROVE  \/ /\ UNCHANGED <<live, now>>
            /\ \E name \in Ops \cup {None}, trigger \in Triggers,
                  by \in Users \cup {Owner, None}, force \in Ops \cup {None} :
                    Store(name, trigger, by, force)
         \/ UNCHANGED <<live, known>> /\ \E o \in Ops : TakesSnapshot(o)
         \/ /\ known' \subseteq known /\ authors \subseteq authors'
            /\ \A e \in live'.ins \ Ops : e \in live.ins \/ e.by \in authors'
         \/ known' = known /\ live' = HeadDoc
<1>1. ASSUME NEW u \in Users, Types(u)
      PROVE  /\ known' \subseteq known /\ authors \subseteq authors'
             /\ \A e \in live'.ins \ Ops : e \in live.ins \/ e.by \in authors'
  BY <1>1 DEF Types, queue, TypeOK, Docs
<1>2. CASE Restarts
  BY <1>2 DEF Restarts, queue
<1>3. CASE UNCHANGED <<live, known, authors>>
  BY <1>3
<1>4. CASE Autosaves
  <2>1. CASE wedged
    BY <1>3, <1>4, <2>1 DEF Autosaves, queue
  <2>2. CASE ~wedged
    <3>1. UNCHANGED <<live, now>>
      BY <1>4 DEF Autosaves
    <3> QED BY <1>4, <2>2, <3>1, HookCalls
  <2> QED BY <2>1, <2>2
<1>5. ASSUME NEW o \in Ops, Opens(o)
      PROVE  \/ UNCHANGED <<live, known, authors>>
             \/ UNCHANGED <<live, known>> /\ TakesSnapshot(o)
  <2>1. UNCHANGED <<live, known>>
    BY <1>5 DEF Opens, queue
  <2>2. CASE live.ins # {} /\ op[o].kind = "revert"
    <3>1. op[o].pc = "open"
          /\ op' = [op EXCEPT ![o].pc = "backup", ![o].snap = live, ![o].who = authors]
      BY <1>5, <2>2 DEF Opens
    <3>2. TakesSnapshot(o)
      BY <1>5, <2>2, <3>1 DEF TakesSnapshot, TypeOK, OpRecords
    <3> QED BY <2>1, <3>2
  <2>3. CASE live.ins = {} \/ op[o].kind # "revert"
    BY <1>5, <2>1, <2>3 DEF Opens
  <2> QED BY <2>2, <2>3
<1>6. ASSUME NEW o \in Ops, Mutates(o)
      PROVE  /\ known' \subseteq known /\ authors \subseteq authors'
             /\ \A e \in live'.ins \ Ops : e \in live.ins \/ e.by \in authors'
  <2>1. Mutated(o).ins \subseteq live.ins \cup {o}
    BY DEF Mutated, TypeOK, Docs
  <2>2. live' = Mutated(o) \/ live' = live
    BY <1>6 DEF Mutates
  <2> QED BY <1>6, <2>1, <2>2 DEF Mutates, queue
<1>7. ASSUME NEW o \in Ops, Flushes(o)
      PROVE  \/ UNCHANGED <<live, known, authors>>
             \/ UNCHANGED <<live, now>> /\ Store(Name(o), Trigger(o), op[o].by, ForceKey(o))
  BY <1>7 DEF Flushes, queue
<1>8. ASSUME NEW o \in Ops, Leaves(o)
      PROVE  \/ UNCHANGED <<live, known, authors>>
             \/ /\ UNCHANGED <<live, now>>
                /\ Store(None, "websocket", IF op[o].stamped THEN None ELSE Owner,
                         IF op[o].stamped THEN ForceKey(o) ELSE None)
  <2>1. UNCHANGED <<live, now>>
    BY <1>8 DEF Leaves
  <2>2. CASE wedged
    BY <1>8, <2>1, <2>2 DEF Leaves, queue
  <2> QED BY <1>8, <2>1, <2>2, HookCalls
<1>9. ASSUME \/ \E o \in Ops : \/ OpenFails(o) \/ ReadsHead(o) \/ AppendsBackup(o)
                               \/ \E ask \in Requests : Begins(o, ask)
             \/ \E w \in Workers : Saves(w) \/ \E j \in jobs : Takes(w, j)
             \/ \E v \in 1..Newest : Deletes(v) \/ Prunes(v)
      PROVE  UNCHANGED <<live, known, authors>>
  BY <1>9 DEF OpenFails, ReadsHead, AppendsBackup, BackupFails, Begins, Saves, Takes, Deletes,
       Prunes, room, queue
<1>10. CASE WindowPasses
  BY <1>10 DEF WindowPasses, room
<1>11. ASSUME NEW o \in Ops
       PROVE  /\ Name(o) \in Ops \cup {None} /\ ForceKey(o) \in Ops \cup {None}
              /\ Trigger(o) \in Triggers /\ op[o].by \in Users \cup {Owner, None}
              /\ "websocket" \in Triggers
              /\ (IF op[o].stamped THEN None ELSE Owner) \in Users \cup {Owner, None}
              /\ (IF op[o].stamped THEN ForceKey(o) ELSE None) \in Ops \cup {None}
  BY HookCalls
<1> QED BY <1>1, <1>2, <1>3, <1>4, <1>5, <1>6, <1>7, <1>8, <1>9, <1>10, <1>11 DEF Next

\* The id a store hook makes is of the room's document.
LEMMA HookIds ==
  ASSUME TypeOK, NEW name \in Ops \cup {None}, NEW trigger \in Triggers,
         NEW by \in Users \cup {Owner, None}, NEW force \in Ops \cup {None},
         Store(name, trigger, by, force)
  PROVE  \A id \in known' : id \in known \/ id.doc = live
<1>1. known' = known \/ known' = known \cup {JobId(force)}
  BY StoreKinds DEF queue
<1>2. JobId(force).doc = live
  BY DEF JobId
<1> QED BY <1>1, <1>2

\* A store hook that drains who typed in the room credits them.
LEMMA StoreCredits ==
  ASSUME TypeOK, LocksOK, CreditOK, Next, NEW name \in Ops \cup {None}, NEW trigger \in Triggers,
         NEW by \in Users \cup {Owner, None}, NEW force \in Ops \cup {None},
         Store(name, trigger, by, force), NEW e \in live.ins \ Ops
  PROVE  Credited(e.by)' \/ (e.by \in authors' /\ known' = known)
<1>1. CASE Credited(e.by)
  BY <1>1, CreditKept
<1>2. CASE ~Credited(e.by)
  <2>1. e.by \in authors
    BY <1>2 DEF CreditOK
  <2>2. JobId(force) \notin known
    BY <1>2 DEF CreditOK, JobId
  <2>3. \/ \E s \in Sayings' : s.says = Says(name, trigger, by, authors)
        \/ "flush dropped" \in mishaps'
    BY <2>2, HookTells
  <2>4. Says(name, trigger, by, authors).who = authors
    BY DEF Says
  <2>5. CASE \E s \in Sayings' : s.says = Says(name, trigger, by, authors)
    <3>1. \E s \in Sayings' : e.by \in s.says.who
      BY <2>1, <2>4, <2>5
    <3> QED BY <3>1 DEF Credited, Told
  <2>6. CASE "flush dropped" \in mishaps'
    BY <2>6 DEF Credited, Excused, Uncredited
  <2> QED BY <2>3, <2>5, <2>6
<1> QED BY <1>1, <1>2

\* Who typed what the newest version holds is credited.
LEMMA HeadCredited ==
  ASSUME TypeOK, CreditOK, NEW e \in HeadDoc.ins \ Ops
  PROVE  Credited(e.by)
<1>1. CASE rows = <<>>
  BY <1>1 DEF HeadDoc, Empty
<1>2. CASE rows # <<>>
  <2>1. Newest \in 1..Newest /\ rows[Newest] # None
    BY <1>2, EmptySeq DEF TypeOK, Newest
  <2>2. [doc |-> rows[Newest].doc, says |-> rows[Newest].says] \in Sayings
    BY <2>1, SayingsAre
  <2> QED BY <1>2, <2>2 DEF HeadDoc, CreditOK
<1> QED BY <1>1, <1>2

\* Credits, at every step.
LEMMA CreditStep ==
  ASSUME TypeOK, LocksOK, CreditOK, Next
  PROVE  CreditOK'
<1>1. ASSUME NEW s \in Sayings', NEW e \in s.doc.ins \ Ops PROVE Credited(e.by)'
  <2>1. CASE \E t \in Sayings : e \in t.doc.ins
    BY <2>1, CreditKept DEF CreditOK
  <2>2. CASE Saved(s) /\ e \in live.ins
    <3>1. CASE Credited(e.by)
      BY <3>1, CreditKept
    <3>2. CASE e.by \in authors
      BY <2>2, <3>2 DEF Saved, Credited, Told
    <3> QED BY <2>2, <3>1, <3>2 DEF CreditOK
  <2>3. CASE \E o \in Ops : e \in op[o].snap.ins
    BY <2>3, CreditKept DEF CreditOK
  <2> QED BY <2>1, <2>2, <2>3, SayingsOrigin DEF Old, Saved, Backup, From
<1>2. ASSUME NEW id \in known', NEW e \in id.doc.ins \ Ops PROVE Credited(e.by)'
  <2>1. CASE id \in known
    BY <2>1, CreditKept DEF CreditOK
  <2>2. ASSUME NEW name \in Ops \cup {None}, NEW trigger \in Triggers,
               NEW by \in Users \cup {Owner, None}, NEW force \in Ops \cup {None},
               Store(name, trigger, by, force), id \notin known
        PROVE  Credited(e.by)'
    <3>1. id.doc = live
      BY <2>2, HookIds
    <3> QED BY <2>2, <3>1, StoreCredits
  <2> QED BY <2>1, <2>2, DrainSteps
<1>3. ASSUME NEW o \in Ops, NEW e \in op'[o].snap.ins \ Ops PROVE Credited(e.by)'
  <2>1. CASE op'[o].snap = op[o].snap
    BY <1>3, <2>1, CreditKept DEF CreditOK
  <2>2. CASE op'[o].snap = Empty
    BY <1>3, <2>2 DEF Empty
  <2>3. CASE TakesSnapshot(o)
    <3>1. e \in live.ins \ Ops /\ op'[o].who = authors
      BY <1>3, <2>3 DEF TakesSnapshot
    <3>2. CASE Credited(e.by)
      BY <3>2, CreditKept
    <3>3. CASE e.by \in authors
      BY <3>1, <3>3 DEF Credited
    <3> QED BY <3>1, <3>2, <3>3 DEF CreditOK
  <2>4. op'[o] = op[o] \/ Moves(o)
    BY OpSteps
  <2> QED BY <2>1, <2>2, <2>3, <2>4 DEF Moves, Opened, OpenFailed, BailedOut, SkipsBackup,
            BacksUpMore, BackedUp, Changes, Fails, Flushed, Left, Died, Keeps
<1>4. ASSUME NEW e \in live'.ins \ Ops PROVE e.by \in authors' \/ Credited(e.by)'
  <2>1. ASSUME NEW name \in Ops \cup {None}, NEW trigger \in Triggers,
               NEW by \in Users \cup {Owner, None}, NEW force \in Ops \cup {None},
               Store(name, trigger, by, force), live' = live
        PROVE  e.by \in authors' \/ Credited(e.by)'
    BY <2>1, StoreCredits
  <2>2. ASSUME NEW o \in Ops, TakesSnapshot(o), live' = live
        PROVE  e.by \in authors' \/ Credited(e.by)'
    <3>1. CASE Credited(e.by)
      BY <3>1, CreditKept
    <3>2. CASE e.by \in authors
      BY <2>2, <3>2 DEF TakesSnapshot, Credited
    <3> QED BY <2>2, <3>1, <3>2 DEF CreditOK
  <2>3. ASSUME authors \subseteq authors', e \in live.ins \/ e.by \in authors'
        PROVE  e.by \in authors' \/ Credited(e.by)'
    BY <2>3, CreditKept DEF CreditOK
  <2>4. CASE live' = HeadDoc
    BY <2>4, HeadCredited, CreditKept
  <2> QED BY <2>1, <2>2, <2>3, <2>4, DrainSteps
<1>5. ASSUME NEW o \in Ops, op'[o].pc \notin {"backup", "appending"}, NEW u \in op'[o].who
      PROVE  Told(u)' \/ Excused(Uncredited)'
  <2>1. CASE op[o].pc \notin {"backup", "appending"} /\ op'[o].who = op[o].who
    BY <1>5, <2>1, ToldKept DEF CreditOK
  <2>2. CASE op'[o].who = {}
    BY <1>5, <2>2
  <2>3. CASE "bailed out" \in mishaps'
    BY <2>3 DEF Excused, Uncredited
  <2>4. CASE BackedUp(o)
    <3> DEFINE says == Says(o, "revert-backup", op[o].by, op[o].who)
    <3>1. op[o].pc = "appending" /\ Insert(op[o].base, op[o].snap, says) /\ u \in op[o].who
      BY <1>5, <2>4 DEF BackedUp, BacksUp, Keeps
    <3>2. ReadHead(op[o].base) /\ op[o].snap \in Docs /\ says \in Claims
      BY <3>1, Inserted
    <3>3. says.who = op[o].who
      BY DEF Says
    <3> HIDE DEF says
    <3>4. \E s \in Sayings' : s.says = says
      BY <3>1, <3>2, InsertSays
    <3> QED BY <3>1, <3>3, <3>4 DEF Told
  <2>5. op'[o] = op[o] \/ Moves(o)
    BY OpSteps
  <2> QED BY <1>5, <2>1, <2>2, <2>3, <2>4, <2>5 DEF Moves, Opened, OpenFailed, BailedOut,
            TakesSnapshot, SkipsBackup, BacksUpMore, Changes, Fails, Flushed, Left, Died, Keeps
<1> QED BY <1>1, <1>2, <1>3, <1>4, <1>5 DEF CreditOK, Credited, Told

\* The newest version holds every other, at every step.
LEMMA HeadStep ==
  ASSUME TypeOK, LocksOK, HeadHoldsAll, Next
  PROVE  HeadHoldsAll' /\ Holds(HeadDoc', HeadDoc)
<1> DEFINE Ahead == HeadHoldsAll' /\ Holds(HeadDoc', HeadDoc)
<1>0. /\ Newest \in Nat /\ (Newest > 0 => rows # <<>>) /\ (rows # <<>> => Newest > 0)
      /\ rows' \in Seq(Rows \cup {None}) /\ Newest' \in Nat
  BY RowsMove, EmptySeq DEF TypeOK, Newest
<1>a. \A v \in 1..Newest : rows[v] # None =>
        Holds(HeadDoc, rows[v].doc) \/ "gap refilled" \in mishaps
  BY DEF HeadHoldsAll, Versions, Excused
<1>b. mishaps \subseteq mishaps'
  BY RoomTyped
<1>c. (/\ \A v \in 1..Newest' : rows'[v] # None =>
            Holds(HeadDoc', rows'[v].doc) \/ "gap refilled" \in mishaps'
       /\ Holds(HeadDoc', HeadDoc)) => Ahead
  BY DEF HeadHoldsAll, Versions, Excused
<1> SUFFICES Ahead
  OBVIOUS
<1> HIDE DEF Ahead
<1>1. ASSUME HeadDoc' = HeadDoc, Newest' = Newest,
             \A k \in 1..Newest : rows'[k] \in {rows[k], None} \/ "gap refilled" \in mishaps'
      PROVE  Ahead
  <2>1. Holds(HeadDoc', HeadDoc)
    BY <1>1 DEF Holds
  <2>2. \A v \in 1..Newest' : rows'[v] # None =>
          Holds(HeadDoc', rows'[v].doc) \/ "gap refilled" \in mishaps'
    BY <1>1, <1>a, <1>b
  <2> QED BY <1>c, <2>1, <2>2
<1>2. CASE UNCHANGED rows
  <2>1. HeadDoc' = HeadDoc /\ Newest' = Newest
    BY <1>2 DEF HeadDoc, Newest
  <2> QED BY <1>1, <1>2, <2>1
<1>3. ASSUME NEW v \in Nat, ReadHead(v), NEW doc \in Docs, NEW says \in Claims, Insert(v, doc, says),
             v < Newest => "gap refilled" \in mishaps'
      PROVE  Ahead
  <2>b. Insert(v, doc, says) /\ ReadHead(v)
    BY <1>3
  <2>0. /\ Newest' = (IF v = Newest THEN Newest + 1 ELSE Newest)
        /\ v + 1 \in 1..Newest'
        /\ rows'[v + 1] = Row(MergedInto(v, doc), says)
        /\ \A k \in 1..Newest : k # v + 1 => rows'[k] = rows[k]
        /\ \A k \in 1..Newest' : k # v + 1 => k \in 1..Newest
        /\ v < Newest => v + 1 < Newest /\ rows[v + 1] = None
        /\ rows' # <<>>
    BY <2>b, InsertFacts
  <2>a. v \in 0..Newest /\ v \in Nat
    BY <1>0, <1>3 DEF ReadHead
  <2>1. CASE v = Newest
    <3>1. Newest' = v + 1 /\ HeadDoc' = MergedInto(v, doc)
      BY <2>0, <2>1 DEF HeadDoc, Row
    <3>2. Holds(HeadDoc', HeadDoc)
      <4>1. CASE Newest = 0
        BY <1>0, <4>1 DEF HeadDoc, Empty, Holds
      <4>2. CASE Newest # 0
        <5>1. HeadDoc = rows[v].doc /\ MergedInto(v, doc) = Merge(rows[v].doc, doc)
          BY <1>0, <2>1, <4>2 DEF HeadDoc, MergedInto
        <5> QED BY <3>1, <5>1 DEF Merge, Holds
      <4> QED BY <4>1, <4>2
    <3>3. ASSUME NEW k \in 1..Newest', rows'[k] # None
          PROVE  Holds(HeadDoc', rows'[k].doc) \/ "gap refilled" \in mishaps'
      <4>1. CASE k = v + 1
        <5>1. rows'[k].doc = HeadDoc'
          BY <2>0, <3>1, <4>1 DEF Row
        <5> QED BY <5>1 DEF Holds
      <4>2. CASE k # v + 1
        <5>1. k \in 1..Newest /\ rows'[k] = rows[k]
          BY <2>0, <4>2
        <5> QED BY <1>a, <1>b, <3>2, <3>3, <5>1, HoldsOn
      <4> QED BY <4>1, <4>2
    <3> QED BY <1>c, <3>2, <3>3
  <2>2. CASE v < Newest
    <3>1. Newest' = Newest /\ rows'[Newest] = rows[Newest]
      BY <1>0, <2>0, <2>2, <2>a
    <3>2. HeadDoc' = HeadDoc
      BY <1>0, <2>0, <2>2, <2>a, <3>1 DEF HeadDoc
    <3> QED BY <1>1, <1>3, <2>2, <3>1, <3>2
  <2> QED BY <1>0, <2>1, <2>2, <2>a
<1>4. CASE SavesItself
  <2>1. PICK says \in Claims : Insert(Newest, live, says)
    BY <1>4 DEF SavesItself
  <2>2. ReadHead(Newest) /\ live \in Docs /\ ~(Newest < Newest)
    BY <1>0, Inserted
  <2> QED BY <1>0, <1>3, <2>1, <2>2
<1>5. ASSUME NEW o \in Ops, BacksUp(o) PROVE Ahead
  <2>1. /\ op[o].pc = "appending"
        /\ Insert(op[o].base, op[o].snap, Says(o, "revert-backup", op[o].by, op[o].who))
        /\ op[o].base < Newest => "gap refilled" \in mishaps'
    BY <1>5 DEF BacksUp, Note
  <2>2. /\ ReadHead(op[o].base) /\ op[o].snap \in Docs
        /\ Says(o, "revert-backup", op[o].by, op[o].who) \in Claims
    BY <2>1, Inserted
  <2>3. op[o].base \in Nat
    BY <1>0, <2>2 DEF ReadHead
  <2> QED BY <1>3, <2>1, <2>2, <2>3
<1>6. ASSUME NEW w \in Workers, Commits(w) PROVE Ahead
  <2>1. /\ tx[w] # None /\ Insert(tx[w].base, tx[w].job.id.doc, tx[w].job.says)
        /\ tx[w].base < Newest => "gap refilled" \in mishaps'
    BY <1>6 DEF Commits, Note
  <2>2. ReadHead(tx[w].base) /\ tx[w].job.id.doc \in Docs /\ tx[w].job.says \in Claims
    BY <2>1, Inserted
  <2>3. tx[w].base \in Nat
    BY <1>0, <2>2 DEF ReadHead
  <2> QED BY <1>3, <2>1, <2>2, <2>3
<1>7. CASE Thins
  <2>1. /\ Newest' = Newest /\ \A k \in 1..Newest : rows'[k] \in {rows[k], None}
        /\ rows # <<>> => rows'[Newest] = rows[Newest]
    BY <1>7 DEF Thins
  <2>2. rows' = <<>> <=> rows = <<>>
    BY <1>0, <2>1, EmptySeq DEF TypeOK, Newest
  <2>3. HeadDoc' = HeadDoc
    BY <2>1, <2>2 DEF HeadDoc
  <2>4. \A k \in 1..Newest : rows'[k] \in {rows[k], None} \/ "gap refilled" \in mishaps'
    BY <2>1
  <2> QED BY <1>1, <2>1, <2>3, <2>4
<1> QED BY <1>2, <1>4, <1>5, <1>6, <1>7, StepKinds DEF Queues, ReadsAgain, GivesUp, Takes

\* Deletions and reverts, at every step.
LEMMA RevertStep ==
  ASSUME TypeOK, LocksOK, RevertOK, Next
  PROVE  RevertOK'
<1>0. mishaps \subseteq mishaps'
  BY RoomTyped
<1>1. ASSUME "stale load" \notin mishaps'
      PROVE  /\ \A s \in Sayings' : s.doc.del \subseteq live'.del
             /\ \A o \in Ops : op'[o].snap.del \subseteq live'.del
  <2>1. /\ \A t \in Sayings : t.doc.del \subseteq live.del
        /\ \A o \in Ops : op[o].snap.del \subseteq live.del
    BY <1>0, <1>1 DEF RevertOK
  <2>2. live.del \subseteq live'.del
    <3>1. CASE Restarts
      BY <1>1, <3>1 DEF Restarts
    <3>2. CASE Holds(live', live)
      BY <3>2 DEF Holds
    <3> QED BY <3>1, <3>2, RoomSteps
  <2>3. ASSUME NEW s \in Sayings', NEW e \in s.doc.del PROVE e \in live'.del
    <3>1. \/ e \in live.del
          \/ \E t \in Sayings : e \in t.doc.del
          \/ \E o \in Ops : e \in op[o].snap.del
      BY SayingsOrigin DEF Old, Saved, Backup, From
    <3> QED BY <2>1, <2>2, <3>1
  <2>4. ASSUME NEW o \in Ops PROVE op'[o].snap.del \subseteq live'.del
    <3>1. op'[o] = op[o] \/ Moves(o)
      BY OpSteps
    <3>2. \/ op'[o].snap = op[o].snap \/ op'[o].snap = Empty
          \/ op'[o].snap = live
      BY <3>1 DEF Moves, Opened, OpenFailed, BailedOut, TakesSnapshot, SkipsBackup, BacksUpMore,
         BackedUp, Changes, Fails, Flushed, Left, Died, Keeps
    <3> QED BY <2>1, <2>2, <3>2 DEF Empty
  <2> QED BY <2>3, <2>4
<1>2. ASSUME NEW o \in Ops, op'[o].kind = "revert", op'[o].pc = "commit"
      PROVE  \/ \E v \in 1..Newest' : rows'[v] # None /\ op'[o].snap.ins \subseteq rows'[v].doc.ins
             \/ "version deleted" \in mishaps' \/ "versions pruned" \in mishaps'
  <2>1. CASE op'[o] = op[o]
    <3>1. \/ \E v \in 1..Newest : rows[v] # None /\ op[o].snap.ins \subseteq rows[v].doc.ins
          \/ "version deleted" \in mishaps \/ "versions pruned" \in mishaps
      BY <1>2, <2>1 DEF RevertOK, Versions, Excused
    <3> QED BY <1>0, <2>1, <3>1, VersionsStay
  <2>2. CASE BackedUp(o)
    <3> DEFINE says == Says(o, "revert-backup", op[o].by, op[o].who)
    <3>1. op[o].pc = "appending" /\ Insert(op[o].base, op[o].snap, says)
          /\ op'[o].snap = op[o].snap
      BY <2>2 DEF BackedUp, BacksUp, Keeps
    <3>2. ReadHead(op[o].base) /\ op[o].snap \in Docs /\ says \in Claims
      BY <3>1, Inserted
    <3> DEFINE v == op[o].base
               new == MergedInto(v, op[o].snap)
    <3>3. v + 1 \in 1..Newest' /\ rows'[v + 1] = Row(new, says) /\ rows'[v + 1] \in Rows
          /\ Holds(new, op[o].snap)
      BY <3>1, <3>2, InsertFacts
    <3>4. rows'[v + 1] # None /\ rows'[v + 1].doc = new
      BY <3>3, VersionAssumption DEF Row
    <3> HIDE DEF v, new, says
    <3> QED BY <3>1, <3>3, <3>4 DEF Holds
  <2>3. op'[o] = op[o] \/ BackedUp(o)
    <3>1. op'[o] = op[o] \/ Moves(o)
      BY OpSteps
    <3> QED BY <1>2, <3>1 DEF Moves, Opened, OpenFailed, BailedOut, TakesSnapshot, SkipsBackup,
              BacksUpMore, Changes, Fails, Flushed, Left, Died, Keeps
  <2> QED BY <2>1, <2>2, <2>3
<1> QED BY <1>1, <1>2 DEF RevertOK, Versions, Excused

----------------------------------------------------------------------------
(* The theorems.                                                            *)

\* The invariant holds at first.
LEMMA InvInit == ASSUME Init PROVE VersionInv
<1> USE VersionAssumption DEF Init
<1>1. rows = <<>> /\ rows \in Seq(Rows \cup {None}) /\ Newest = 0
  BY EmptySeq DEF Newest
<1>2. Versions = {} /\ Running = {} /\ Sayings = {}
  BY <1>1 DEF Versions, Running, Sayings
<1>3. Empty \in Docs /\ Fresh.pc = "idle" /\ Fresh.base = 0 /\ Fresh.snap = Empty
      /\ Fresh.who = {} /\ Fresh.by = None /\ Fresh.answer = None
  BY DEF Empty, Docs, Fresh
<1>4. TypeOK
  <2> DEFINE Tries == 0..1
  <2>1. 0 \in Tries /\ 0 \in Nat
    OBVIOUS
  <2> HIDE DEF Tries
  <2>2. OpRecords =
        [pc : Stages, kind : {"checkpoint", "revert", "append", "replace"},
         by : Users \cup {None}, named : BOOLEAN, snap : Docs, who : SUBSET Users,
         base : Nat, tries : Tries, stamped : BOOLEAN, answer : Given \cup {None}]
    BY DEF OpRecords, Tries
  <2>3. Fresh \in OpRecords
    BY <1>3, <2>1, <2>2 DEF Fresh, Stages
  <2>4. op \in [Ops -> OpRecords] /\ \A o \in Ops : op[o].base <= Newest
    BY <1>1, <1>3, <2>3
  <2>5. 1 \in 1..MaxWindow /\ 0 \in 0..MaxFaults
    OBVIOUS
  <2> QED BY <1>1, <1>2, <1>3, <2>4, <2>5 DEF TypeOK, Accidents
<1>5. LocksOK /\ StageOK /\ NameOK /\ UniqueOK
  BY <1>2, <1>3 DEF LocksOK, StageOK, NameOK, UniqueOK
<1>6. AnswersAreKept
  BY <1>3 DEF AnswersAreKept, Given
<1>7. ActorOK /\ HeadHoldsAll
  BY <1>2, <1>3 DEF ActorOK, ActorsActed, HeadHoldsAll
<1>8. /\ live.ins = {} /\ known = {} /\ \A o \in Ops : op[o] = Fresh
      /\ Empty.ins = {} /\ Empty.del = {}
  BY DEF Empty
<1>9. CreditOK
  BY <1>2, <1>3, <1>8 DEF CreditOK
<1>10. RevertOK
  BY <1>2, <1>3, <1>8 DEF RevertOK
<1> QED BY <1>4, <1>5, <1>6, <1>7, <1>9, <1>10 DEF VersionInv

\* A step that changes nothing changes nothing of the invariant.
LEMMA InvStutters ==
  ASSUME VersionInv, UNCHANGED vars
  PROVE  VersionInv'
<1>1. UNCHANGED <<live, dirty, typist, authors, wedged, op, jobs, known, tx, rows, now, faults,
                  mishaps, at>>
  BY DEF vars, room, queue
<1>2. UNCHANGED <<Newest, HeadDoc, Versions, Running, Sayings>>
  BY <1>1 DEF Newest, HeadDoc, Versions, Running, Sayings
<1>3. TypeOK' /\ LocksOK' /\ StageOK' /\ NameOK'
  BY <1>1, <1>2 DEF VersionInv, TypeOK, LocksOK, StageOK, NameOK, Marks
<1>4. UniqueOK'
  BY <1>1, <1>2 DEF VersionInv, UniqueOK, Marks
<1>5. AnswersAreKept' /\ ActorOK' /\ HeadHoldsAll'
  BY <1>1, <1>2 DEF VersionInv, AnswersAreKept, NamedBy, ActorOK, ActorsActed, HeadHoldsAll, Excused
<1>6. \A u : (Told(u) <=> Told(u)') /\ (Credited(u) <=> Credited(u)')
  BY <1>1, <1>2 DEF Told, Credited, Excused
<1>7. CreditOK'
  BY <1>1, <1>2, <1>6 DEF VersionInv, CreditOK, Excused
<1>8. RevertOK'
  BY <1>1, <1>2 DEF VersionInv, RevertOK, Excused
<1> QED BY <1>3, <1>4, <1>5, <1>7, <1>8 DEF VersionInv

\* The invariant holds always.
THEOREM VersionInvariant == Spec => []VersionInv
<1>1. VersionInv /\ Next => VersionInv'
  BY TypeStep, LocksStep, StageStep, NameStep, UniqueStep, AnswersStep, ActorStep, CreditStep,
     HeadStep, RevertStep DEF VersionInv
<1> QED BY <1>1, InvInit, InvStutters, PTL DEF Spec

\* Types: no head is ahead of the table, the newest version is no gap, and no job id of
\* a past window is remembered.
THEOREM VersionTypes == Spec => []TypeOK
<1>1. VersionInv => TypeOK
  BY DEF VersionInv
<1> QED BY <1>1, VersionInvariant, PTL

\* A checkpoint's, a revert's or a write's name is on one version, and that version has
\* what was committed.
THEOREM NamesAreTrue == Spec => []NamesMarkTheirVersion
<1>1. ASSUME VersionInv PROVE NamesMarkTheirVersion
  <2>1. ASSUME NEW o \in Ops
        PROVE  Cardinality({v \in Versions : rows[v].says.name = o
                                             /\ rows[v].says.trigger # "revert-backup"}) <= 1
    <3> DEFINE Marked == {v \in Versions : rows[v].says.name = o
                                           /\ rows[v].says.trigger # "revert-backup"}
    <3>1. \A v, x \in Marked : v = x
      BY <1>1 DEF VersionInv, UniqueOK, Marks
    <3> HIDE DEF Marked
    <3>2. Marked = {} => Cardinality(Marked) = 0
      BY FS_EmptySet
    <3>3. ASSUME NEW v \in Marked PROVE Cardinality(Marked) <= 1
      <4>1. Marked = {v}
        BY <3>1, <3>3
      <4> QED BY <4>1, FS_Singleton
    <3>4. Cardinality(Marked) <= 1
      BY <3>2, <3>3
    <3> QED BY <3>4 DEF Marked
  <2>2. ASSUME NEW o \in Ops, NEW s \in NamedBy(o) PROVE at[o] # None /\ Holds(s.doc, at[o])
    <3>1. s \in Sayings /\ Marks(s.says, o)
      BY <2>2 DEF NamedBy, Marks
    <3>2. NameOK
      BY <1>1 DEF VersionInv
    <3> QED BY <3>1, <3>2 DEF NameOK
  <2> QED BY <2>1, <2>2 DEF NamesMarkTheirVersion
<1> QED BY <1>1, VersionInvariant, PTL

\* Who was answered "ok" and gave a name has the version, or will.
THEOREM OkIsKept == Spec => []AnswersAreKept
<1>1. VersionInv => AnswersAreKept
  BY DEF VersionInv
<1> QED BY <1>1, VersionInvariant, PTL

\* Who typed is on a version's list, or will be: no drain loses a contributor.
THEOREM NobodyIsForgotten == Spec => []AuthorsAreCredited
<1>1. ASSUME VersionInv PROVE AuthorsAreCredited
  <2>1. ASSUME NEW v \in Versions, NEW e \in rows[v].doc.ins \ Ops PROVE Credited(e.by)
    <3>1. [doc |-> rows[v].doc, says |-> rows[v].says] \in Sayings
      BY SayingsAre DEF Versions
    <3> QED BY <1>1, <3>1 DEF VersionInv, CreditOK
  <2> QED BY <2>1 DEF AuthorsAreCredited, Credited, Told, Uncredited
<1> QED BY <1>1, VersionInvariant, PTL

\* No version is put down to an owner who did nothing.
THEOREM ActorsAreTrue == Spec => []ActorsActed
<1>1. VersionInv => ActorsActed
  BY DEF VersionInv, ActorOK
<1> QED BY <1>1, VersionInvariant, PTL

\* A cold load misses nothing that was saved.
THEOREM HeadIsWhole == Spec => []HeadHoldsAll
<1>1. VersionInv => HeadHoldsAll
  BY DEF VersionInv
<1> QED BY <1>1, VersionInvariant, PTL

\* And the newest version never goes back, whatever is deleted or pruned.
THEOREM HistoryMovesOn == Spec => HeadNeverRewinds
<1>1. ASSUME VersionInv, [Next]_vars PROVE [Holds(HeadDoc', HeadDoc)]_vars
  BY <1>1, HeadStep DEF VersionInv
<1> QED BY <1>1, VersionInvariant, PTL DEF Spec, HeadNeverRewinds

\* What a revert replaces can be had back.
THEOREM RevertsCanBeUndone == Spec => RevertsAreUndoable
<1> DEFINE Undoable ==
      \A o \in Ops :
        op[o].kind = "revert" /\ op[o].pc = "commit" /\ live' # live =>
          \A t \in Visible(live) \cap Visible(op[o].snap) :
            \/ \E v \in Versions : t \in Visible(rows[v].doc)
            \/ Excused({"version deleted", "versions pruned", "stale load"})
<1>1. ASSUME VersionInv PROVE Undoable
  <2> SUFFICES ASSUME NEW o \in Ops, op[o].kind = "revert", op[o].pc = "commit",
                      NEW t \in Visible(live) \cap Visible(op[o].snap),
                      ~Excused({"version deleted", "versions pruned", "stale load"})
               PROVE  \E v \in Versions : t \in Visible(rows[v].doc)
    OBVIOUS
  <2>1. PICK v \in Versions : op[o].snap.ins \subseteq rows[v].doc.ins
    BY <1>1 DEF VersionInv, RevertOK, Excused
  <2>2. [doc |-> rows[v].doc, says |-> rows[v].says] \in Sayings
    BY SayingsAre DEF Versions
  <2>3. rows[v].doc.del \subseteq live.del
    BY <1>1, <2>2 DEF VersionInv, RevertOK, Excused
  <2> QED BY <2>1, <2>3 DEF Visible
<1>2. VersionInv => [Undoable]_vars
  BY <1>1
<1>3. []VersionInv => [][Undoable]_vars
  BY <1>2, PTL
<1>4. RevertsAreUndoable <=> [][Undoable]_vars
  BY DEF RevertsAreUndoable
<1> QED BY <1>3, <1>4, VersionInvariant, PTL
=============================================================================
