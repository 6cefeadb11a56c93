------------------------ MODULE StorePipelineProofs ------------------------
(***************************************************************************)
(* Proofs about StorePipeline, for every set of operations, replicas and    *)
(* workers, every number of attempts and stalls, and every set of faults.   *)
(***************************************************************************)
EXTENDS StorePipeline, SequenceTheorems, TLAPS

\* How a handler returns is part of what its action does.
USE DEF HandlerReturns, SaverReturns, DrainStops

----------------------------------------------------------------------------
(* The control invariant: what the places of the handlers mean.             *)

\* A busy handler works on some job id.
CurOK ==
  /\ \A s \in Savers : pc[s] # "idle" => cur[s] \in JobIds
  /\ pc[Operator] \in {"add", "remove"} => cur[Operator] \in JobIds

\* The execution that holds a job's lock is running, on that job, and counts
\* its attempts as BullMQ does.  Executions whose lock lapsed hold nothing.
OwnerOK ==
  \A id \in JobIds, w \in Workers :
    job[id].owner = w => /\ job[id].st = "active"
                         /\ pc[w] # "idle"
                         /\ cur[w] = id
                         /\ tries[w] = job[id].made

\* A transaction's head is one the table has, or had before a purge emptied it.
BaseOK ==
  \A s \in Savers :
    /\ pc[s] \in {"blocked", "insert"} => base[s] <= Len(rows)
    /\ pc[s] = "blocked" => base[s] > 0

\* The drain's replacement is of a later window than the dead letter it replays.
DrainOK ==
  pc[Operator] \in {"add", "remove"} =>
    /\ entry \in DeadLetters
    /\ cur[Operator].state = entry.id.state
    /\ entry.id.win < cur[Operator].win

\* Nothing is dead-lettered within the dedupe window of its own job id.
WindowOK == \A d \in dlq \cup todo : d.id.win < now

Control == TypeOK /\ CurOK /\ OwnerOK /\ BaseOK /\ DrainOK /\ WindowOK

----------------------------------------------------------------------------
(* The ledger invariant: where the payload of every job id can be found.     *)

\* A dead letter of the id itself, a job of a later window, the newest row or a
\* loss by name accounts for the id's payload.  Windows order what vouches for
\* what: a replayed dead letter is vouched for by a job of a later window, and
\* never the other way round.
Covered(id) == id.state \subseteq SafeFrom(id.win)

\* A worker past its commit, or past its dead letter, has its payload covered.
DoneCovered ==
  \A w \in Workers, id \in JobIds :
    pc[w] \in {"saved", "ack", "rethrow"} /\ cur[w] = id => Covered(id)

\* A key is only deleted when nobody needs it.
DelsCovered == \A id \in JobIds, a \in Actors : <<id, a>> \in dels => Covered(id)

\* A job that BullMQ still runs finds its payload, or does not need it.
JobsCovered ==
  \A id \in JobIds :
    /\ job[id].st \in {"completed", "failed"} => Covered(id)
    /\ job[id].st \in Pending => KeySafe(id) \/ Covered(id)

\* The same for every execution, including those whose lock lapsed.
RunsCovered ==
  \A w \in Workers, id \in JobIds :
    pc[w] # "idle" /\ cur[w] = id => Held(id) \/ Covered(id)

\* A producer between its SET and its Queue.add, and a drain between queueing a
\* replacement and removing the dead letter.
AddsCovered ==
  \A p \in Producers, id \in JobIds :
    pc[p] = "add" /\ cur[p] = id => KeySafe(id) \/ Covered(id)

ReplayCovered ==
  \A id \in JobIds :
    pc[Operator] = "remove" /\ cur[Operator] = id => Held(id) \/ Covered(id)

Ledger == /\ DoneCovered /\ DelsCovered /\ JobsCovered
          /\ RunsCovered /\ AddsCovered /\ ReplayCovered /\ NoSilentLoss

----------------------------------------------------------------------------

\* A job id names its payload: the claim-check key holds exactly the id's state.
LEMMA JobIdFacts ==
  ASSUME NEW id \in JobIds
  PROVE  /\ id.state \subseteq Edits /\ id.win \in 1..MaxWindow /\ id.win \in Nat
         /\ id # None /\ PayloadOf(id) = id.state
BY CastAssumption, BoundAssumption DEF JobIds, PayloadOf

\* The SET of enqueueStoreDocument leaves the keys and the caller well typed.
LEMMA SetStateKeyTyped ==
  ASSUME TypeOK, NEW p \in Producers, NEW id \in JobIds, NEW f \in PcStates,
         SetStateKey(p, id, f)
  PROVE  /\ keys' \subseteq JobIds
         /\ cur' \in [Actors -> JobIds \cup {None}]
         /\ pc' \in [Actors -> PcStates]
BY DEF TypeOK, SetStateKey, PcStates

\* BullMQ's moves keep the job hashes well typed.
LEMMA MovedTyped ==
  ASSUME TypeOK, NEW id \in JobIds, NEW st \in JobStates, NEW o \in Workers \cup {None},
         NEW n \in 0..MaxStalls
  PROVE  Moved(id, st, o, n) \in [JobIds -> Jobs]
<1>1. [st |-> st, made |-> job[id].made, stalls |-> n, owner |-> o] \in Jobs
  BY DEF TypeOK, Jobs
<1> QED BY <1>1 DEF TypeOK, Moved

\* Queue.add keeps the job hashes well typed, known id or not.
LEMMA AddedTyped ==
  ASSUME TypeOK, NEW id \in JobIds
  PROVE  Added(id) \in [JobIds -> Jobs]
<1>1. FreshJob \in Jobs
  BY BoundAssumption DEF FreshJob, Jobs, JobStates, Pending
<1> QED BY <1>1 DEF TypeOK, Added

\* Merging unions operations the document already has with a payload's.
LEMMA MergedTyped ==
  ASSUME TypeOK, CurOK, BaseOK, NEW s \in Savers, pc[s] = "insert"
  PROVE  Merged(s) \in SUBSET Edits
<1>1. PayloadOf(cur[s]) \subseteq Edits
  BY JobIdFacts DEF CurOK, Actors
<1>2. base[s] # 0 => base[s] \in 1..Len(rows)
  BY DEF TypeOK, BaseOK
<1>3. base[s] # 0 => rows[base[s]] \in SUBSET Edits
  BY <1>2, ElementOfSeq DEF TypeOK
<1> QED BY <1>1, <1>3 DEF Merged

\* The merge transaction appends a well-typed version.
LEMMA AppendTyped ==
  ASSUME TypeOK, CurOK, BaseOK, NEW s \in Savers, AppendRow(s)
  PROVE  /\ rows' \in Seq(SUBSET Edits)
         /\ meta' \in Life!MetaStates
<1>1. Merged(s) \in SUBSET Edits
  BY MergedTyped DEF AppendRow
<1> QED BY <1>1 DEF TypeOK, AppendRow, Life!MetaStates

\* Settling keeps the job table typed: only the lock holder touches it, so the
\* attempts it counts are the ones BullMQ granted.
LEMMA SettleTyped ==
  ASSUME TypeOK, CurOK, NEW w \in Workers, pc[w] # "idle",
         NEW st \in JobStates, NEW made,
         job[cur[w]].owner = w => made \in 0..(MaxAttempts - 1),
         Settle(w, st, made)
  PROVE  TypeOK'
<1>1. cur[w] \in JobIds
  BY DEF CurOK, Actors, Savers
<1>2. job' \in [JobIds -> Jobs]
  <2>1. CASE job[cur[w]].owner = w
    <3>1. [st |-> st, made |-> made, stalls |-> job[cur[w]].stalls, owner |-> None] \in Jobs
      BY <1>1, <2>1 DEF TypeOK, Jobs
    <3> QED BY <1>1, <2>1, <3>1 DEF TypeOK, Settle
  <2>2. CASE job[cur[w]].owner # w
    BY <2>2 DEF TypeOK, Settle
  <2> QED BY <2>1, <2>2
<1>3. /\ UNCHANGED <<room, keys, dels, dlq, table, drain, now, ledger>>
      /\ base' \in [Savers -> Nat] /\ tries' \in [Savers -> Nat]
  BY DEF TypeOK, Settle
<1>4. /\ pc' \in [Actors -> PcStates]
      /\ cur' \in [Actors -> JobIds \cup {None}]
      /\ raw' \subseteq Workers
  BY DEF TypeOK, Settle, PcStates
<1> QED BY <1>2, <1>3, <1>4 DEF TypeOK, room, table, drain, ledger

\* Every handler keeps the type invariant, given what a busy handler stands for.
LEMMA TypeStep ==
  ASSUME TypeOK, CurOK, OwnerOK, BaseOK, Next PROVE TypeOK'
<1> USE CastAssumption, BoundAssumption
    DEF TypeOK, room, queue, table, drain, tx, ledger, PcStates, Life!MetaStates, Actors, Savers
<1>1. ASSUME NEW i \in Instances, NEW e \in Edits, EditArrives(i, e) PROVE TypeOK'
  BY <1>1 DEF EditArrives
<1>2. ASSUME NEW i \in Instances, RestartInstance(i) PROVE TypeOK'
  BY <1>2 DEF RestartInstance, HeadState
<1>3. ASSUME NEW i \in Instances, Flush(i) PROVE TypeOK'
  <2>1. [state |-> live[i], win |-> now] \in JobIds
    BY <1>3 DEF Flush, IsDraft, JobIds
  <2>2. SetStateKey(i, [state |-> live[i], win |-> now], "select")
    BY <1>3 DEF Flush
  <2>3. /\ keys' \subseteq JobIds
        /\ cur' \in [Actors -> JobIds \cup {None}]
        /\ pc' \in [Actors -> PcStates]
    BY <2>1, <2>2, SetStateKeyTyped DEF Producers
  <2> QED BY <1>3, <2>3 DEF Flush
<1>4. ASSUME NEW i \in Instances, AddJob(i) PROVE TypeOK'
  <2>1. cur[i] \in JobIds
    BY <1>4 DEF AddJob, CurOK
  <2>2. Added(cur[i]) \in [JobIds -> Jobs] /\ PayloadOf(cur[i]) \subseteq Edits
    BY <2>1, AddedTyped, JobIdFacts
  <2> QED BY <1>4, <2>1, <2>2 DEF AddJob
<1>5. ASSUME NEW i \in Instances, AddJobFails(i) PROVE TypeOK'
  <2>1. cur[i] \in JobIds
    BY <1>5 DEF AddJobFails, Withdraw, CurOK
  <2>2. Added(cur[i]) \in [JobIds -> Jobs] /\ PayloadOf(cur[i]) \subseteq Edits
    BY <2>1, AddedTyped, JobIdFacts
  <2> QED BY <1>5, <2>1, <2>2 DEF AddJobFails, Withdraw
<1>6. ASSUME NEW s \in Savers, SelectHead(s) PROVE TypeOK'
  BY <1>6 DEF SelectHead
<1>7. ASSUME NEW s \in Savers, LockGranted(s) PROVE TypeOK'
  BY <1>7 DEF LockGranted
<1>8. ASSUME NEW i \in Instances, FallbackCommits(i) PROVE TypeOK'
  <2>1. rows' \in Seq(SUBSET Edits) /\ meta' \in Life!MetaStates
    BY <1>8, AppendTyped DEF FallbackCommits
  <2>2. cur[i] \in JobIds
    BY <1>8 DEF FallbackCommits, AppendRow, CurOK
  <2>3. PayloadOf(cur[i]) \subseteq Edits
    BY <2>2, JobIdFacts
  <2> QED BY <1>8, <2>1, <2>3 DEF FallbackCommits
<1>9. ASSUME NEW i \in Instances, FallbackRetries(i) PROVE TypeOK'
  BY <1>9 DEF FallbackRetries
<1>10. ASSUME NEW i \in Instances, FallbackDrops(i) PROVE TypeOK'
  BY <1>10 DEF FallbackDrops
<1>11. ASSUME NEW w \in Workers, WorkerCommits(w) PROVE TypeOK'
  <2>1. rows' \in Seq(SUBSET Edits) /\ meta' \in Life!MetaStates
    BY <1>11, AppendTyped DEF WorkerCommits
  <2> QED BY <1>11, <2>1 DEF WorkerCommits
<1>12. ASSUME NEW w \in Workers, WorkerTxFails(w) PROVE TypeOK'
  BY <1>12 DEF WorkerTxFails
<1>13. ASSUME NEW w \in Workers, NEW id \in JobIds, Take(w, id) PROVE TypeOK'
  <2>1. job' \in [JobIds -> Jobs]
    BY <1>13, MovedTyped DEF Take, Jobs, JobStates, Pending
  <2>2. tries' \in [Savers -> Nat]
    BY <1>13 DEF Take, Jobs
  <2> QED BY <1>13, <2>1, <2>2 DEF Take
<1>14. ASSUME NEW w \in Workers, Resolve(w) PROVE TypeOK'
  BY <1>14 DEF Resolve
<1>15. ASSUME NEW w \in Workers, ReleaseKey(w) PROVE TypeOK'
  BY <1>15 DEF ReleaseKey, CurOK
<1>16. ASSUME NEW w \in Workers, Complete(w) PROVE TypeOK'
  <2>1. cur[w] \in JobIds /\ pc[w] # "idle"
    BY <1>16 DEF Complete, CurOK
  <2>2. job[cur[w]].owner = w => tries[w] \in 0..(MaxAttempts - 1)
    BY <1>16, <2>1 DEF Complete, OwnerOK, Jobs
  <2>3. Settle(w, "completed", tries[w])
    BY <1>16 DEF Complete
  <2> QED BY <2>1, <2>2, <2>3, SettleTyped DEF JobStates, Pending
<1>17. ASSUME NEW w \in Workers, Retry(w) PROVE TypeOK'
  <2>1. cur[w] \in JobIds /\ pc[w] # "idle"
    BY <1>17 DEF Retry, CurOK
  <2>2. job[cur[w]].owner = w => tries[w] + 1 \in 0..(MaxAttempts - 1)
    BY <1>17, <2>1 DEF Retry, OwnerOK, Jobs, LastAttempt
  <2>3. Settle(w, "delayed", tries[w] + 1)
    BY <1>17 DEF Retry
  <2> QED BY <2>1, <2>2, <2>3, SettleTyped DEF JobStates, Pending
<1>18. ASSUME NEW w \in Workers, DeadLetter(w) PROVE TypeOK'
  <2>1. cur[w] \in JobIds
    BY <1>18 DEF DeadLetter, CurOK
  <2>a. PayloadOf(cur[w]) \subseteq Edits
    BY <2>1, JobIdFacts
  <2>2. PICK found \in RecoverableCopies(w) :
          dlq' = dlq \cup {[id |-> cur[w], has |-> found /\ Inlineable(cur[w])]}
    BY <1>18 DEF DeadLetter
  <2>b. [id |-> cur[w], has |-> found /\ Inlineable(cur[w])] \in DeadLetters
    BY <2>1 DEF DeadLetters
  <2>c. dlq' \subseteq DeadLetters
    BY <2>2, <2>b
  <2>3. forfeited' \subseteq Edits
    BY <1>18, <2>a DEF DeadLetter
  <2> QED BY <1>18, <2>1, <2>c, <2>3 DEF DeadLetter
<1>19. ASSUME NEW w \in Workers, DeadLetterFails(w) PROVE TypeOK'
  BY <1>19 DEF DeadLetterFails, PayloadOf, CurOK, JobIds
<1>20. ASSUME NEW w \in Workers, Rethrow(w) PROVE TypeOK'
  <2>1. cur[w] \in JobIds /\ pc[w] # "idle"
    BY <1>20 DEF Rethrow, CurOK
  <2>2. job[cur[w]].owner = w => tries[w] \in 0..(MaxAttempts - 1)
    BY <1>20, <2>1 DEF Rethrow, OwnerOK, Jobs
  <2>3. Settle(w, "failed", tries[w])
    BY <1>20 DEF Rethrow
  <2> QED BY <2>1, <2>2, <2>3, SettleTyped DEF JobStates, Pending
<1>21. ASSUME NEW w \in Workers, CrashWorker(w) PROVE TypeOK'
  <2>1. cur[w] \in JobIds /\ pc[w] # "idle"
    BY <1>21 DEF CrashWorker, CurOK
  <2>2. job[cur[w]].owner = w => tries[w] \in 0..(MaxAttempts - 1)
    <3>1. job[cur[w]].made \in 0..(MaxAttempts - 1)
      BY <2>1 DEF Jobs
    <3> QED BY <2>1, <3>1 DEF OwnerOK
  <2>3. Settle(w, "active", tries[w])
    BY <1>21 DEF CrashWorker
  <2> QED BY <2>1, <2>2, <2>3, SettleTyped DEF JobStates, Pending
<1>22. ASSUME NEW id \in JobIds, Promote(id) PROVE TypeOK'
  <2>1. job' \in [JobIds -> Jobs]
    BY <1>22, MovedTyped DEF Promote, Jobs, JobStates, Pending
  <2> QED BY <1>22, <2>1 DEF Promote
<1>23. ASSUME NEW id \in JobIds, RedeliverStalled(id) PROVE TypeOK'
  <2>1. job[id].stalls + 1 \in 0..MaxStalls
    BY <1>23 DEF RedeliverStalled, Jobs
  <2>2. job' \in [JobIds -> Jobs]
    BY <1>23, <2>1, MovedTyped DEF RedeliverStalled, JobStates, Pending
  <2> QED BY <1>23, <2>2 DEF RedeliverStalled
<1>24. ASSUME NEW id \in JobIds, FailStalled(id) PROVE TypeOK'
  <2>1. job' \in [JobIds -> Jobs]
    BY <1>24, MovedTyped DEF FailStalled, Jobs, JobStates
  <2>2. PayloadOf(id) \subseteq Edits
    BY JobIdFacts
  <2> QED BY <1>24, <2>1, <2>2 DEF FailStalled
<1>25. ASSUME NEW id \in JobIds, EvictJob(id) PROVE TypeOK'
  BY <1>25, SMTT(30) DEF EvictJob, Jobs, JobStates, Pending, NoJob
<1>26. ASSUME NEW d \in dels, ApplyDel(d) PROVE TypeOK'
  BY <1>26 DEF ApplyDel
<1>27. ASSUME NEW id \in JobIds, LoseKey(id) PROVE TypeOK'
  BY <1>27 DEF LoseKey, PayloadOf, JobIds
<1>28. ASSUME Tick PROVE TypeOK'
  BY <1>28 DEF Tick
<1>29. ASSUME Anchor PROVE TypeOK'
  BY <1>29 DEF Anchor, outside, Life!Anchors
<1>30. ASSUME Trash PROVE TypeOK'
  BY <1>30 DEF Trash, outside, Life!Trashes
<1>31. ASSUME Restore PROVE TypeOK'
  BY <1>31 DEF Restore, outside, Life!Restores
<1>42. ASSUME SealRooms PROVE TypeOK'
  BY <1>42 DEF SealRooms, outside, Life!Seals
<1>43. ASSUME UnsealRooms PROVE TypeOK'
  BY <1>43 DEF UnsealRooms, outside, Life!Unseals
<1>32. ASSUME Purge PROVE TypeOK'
  BY <1>32 DEF Purge, Life!Purges
<1>33. ASSUME DrainStarts PROVE TypeOK'
  BY <1>33 DEF DrainStarts
<1>34. ASSUME NEW d \in todo, DrainReplays(d) PROVE TypeOK'
  <2>1. [state |-> d.id.state, win |-> now] \in JobIds
    BY <1>34 DEF DrainReplays, DeadLetters, JobIds
  <2> QED BY <1>34, <2>1 DEF DrainReplays, SetStateKey, Producers
<1>35. ASSUME ReplayQueued PROVE TypeOK'
  <2>1. Added(cur[Operator]) \in [JobIds -> Jobs]
    BY <1>35, AddedTyped DEF ReplayQueued, CurOK
  <2> QED BY <1>35, <2>1 DEF ReplayQueued
<1>36. ASSUME ReplayFails PROVE TypeOK'
  <2>1. cur[Operator] \in JobIds
    BY <1>36 DEF ReplayFails, Withdraw, CurOK
  <2>2. Added(cur[Operator]) \in [JobIds -> Jobs] /\ PayloadOf(cur[Operator]) \subseteq Edits
    BY <2>1, AddedTyped, JobIdFacts
  <2> QED BY <1>36, <2>1, <2>2 DEF ReplayFails, Withdraw
<1>37. ASSUME ReplayedRemoved PROVE TypeOK'
  BY <1>37 DEF ReplayedRemoved
<1>38. ASSUME NEW d \in todo, DrainDrops(d) PROVE TypeOK'
  BY <1>38 DEF DrainDrops, DeadLetters, JobIds
<1>39. ASSUME NEW d \in todo, DrainLeaves(d) PROVE TypeOK'
  BY <1>39 DEF DrainLeaves
<1>40. ASSUME DrainEnds PROVE TypeOK'
  BY <1>40 DEF DrainEnds
<1>41. ASSUME DrainDies PROVE TypeOK'
  BY <1>41 DEF DrainDies
<1> QED
  BY <1>1, <1>2, <1>3, <1>4, <1>5, <1>6, <1>7, <1>8, <1>9, <1>10, <1>11, <1>12, <1>13, <1>14,
     <1>15, <1>16, <1>17, <1>18, <1>19, <1>20, <1>21, <1>22, <1>23, <1>24, <1>25, <1>26, <1>27,
     <1>28, <1>29, <1>30, <1>31, <1>32, <1>33, <1>34, <1>35, <1>36, <1>37, <1>38, <1>39, <1>40,
     <1>41, <1>42, <1>43
     DEF Next, InstanceStep, WorkerStep, QueueStep, OperatorStep, Environment

\* Whoever leaves "idle" takes a job id with it.
LEMMA CurStep == ASSUME TypeOK, CurOK, Next PROVE CurOK'
<1> USE CastAssumption DEF TypeOK, CurOK, Actors, Savers
<1>1. ASSUME NEW i \in Instances, Flush(i) PROVE CurOK'
  <2>1. [state |-> live[i], win |-> now] \in JobIds
    BY <1>1 DEF Flush, IsDraft, JobIds
  <2>2. SetStateKey(i, [state |-> live[i], win |-> now], "select")
    BY <1>1 DEF Flush
  <2> QED BY <2>1, <2>2 DEF SetStateKey
<1>2. ASSUME NEW i \in Instances,
             RestartInstance(i) \/ (\E e \in Edits : EditArrives(i, e)) \/ InstanceStep(i)
      PROVE CurOK'
  BY <1>2 DEF RestartInstance, EditArrives, InstanceStep, AddJob, AddJobFails, Withdraw,
       SelectHead, LockGranted, FallbackCommits, FallbackRetries, FallbackDrops, AppendRow
<1>3. ASSUME NEW w \in Workers, WorkerStep(w) \/ CrashWorker(w) PROVE CurOK'
  BY <1>3 DEF CrashWorker, WorkerStep, Resolve, SelectHead, LockGranted, WorkerCommits,
       AppendRow, WorkerTxFails, ReleaseKey, Complete, Retry, DeadLetter, DeadLetterFails,
       Rethrow, Settle
<1>4. ASSUME NEW w \in Workers, NEW id \in JobIds, Take(w, id) PROVE CurOK'
  BY <1>4 DEF Take
<1>5. ASSUME NEW d \in todo, DrainReplays(d) PROVE CurOK'
  <2>1. [state |-> d.id.state, win |-> now] \in JobIds
    BY <1>5 DEF DeadLetters, JobIds
  <2>2. SetStateKey(Operator, [state |-> d.id.state, win |-> now], "idle")
    BY <1>5 DEF DrainReplays
  <2> QED BY <2>1, <2>2 DEF SetStateKey
<1>6. ASSUME DrainStarts \/ ReplayQueued \/ ReplayFails \/ ReplayedRemoved \/ DrainEnds \/ DrainDies
      PROVE CurOK'
  BY <1>6 DEF DrainStarts, ReplayQueued, ReplayFails, ReplayedRemoved, DrainEnds, DrainDies, Withdraw
<1>7. ASSUME Purge PROVE CurOK'
  BY <1>7 DEF Purge
<1>8. CASE UNCHANGED <<pc, cur>>
  BY <1>8
<1> QED
  BY <1>1, <1>2, <1>3, <1>4, <1>5, <1>6, <1>7, <1>8
     DEF Next, OperatorStep, Environment, QueueStep, Promote, RedeliverStalled, FailStalled,
         EvictJob, LoseKey, ApplyDel, Tick, Anchor, Trash, Restore, SealRooms,
         UnsealRooms, outside, DrainDrops, DrainLeaves

\* Only the execution a job is handed to becomes its owner, and it owns nothing else.
LEMMA OwnerStep == ASSUME TypeOK, CurOK, OwnerOK, Next PROVE OwnerOK'
<1> USE CastAssumption DEF TypeOK, CurOK, OwnerOK, Actors, Savers
<1>a. ASSUME NEW id \in JobIds, NEW j, job' = [job EXCEPT ![id] = j], j.owner = None,
             \A w \in Workers : pc'[w] = pc[w] /\ cur'[w] = cur[w] /\ tries'[w] = tries[w]
      PROVE OwnerOK'
  <2> SUFFICES ASSUME NEW x \in JobIds, NEW w \in Workers, job'[x].owner = w
               PROVE  job'[x].st = "active" /\ pc'[w] # "idle" /\ cur'[w] = x
                        /\ tries'[w] = job'[x].made
    OBVIOUS
  <2>1. x # id
    BY <1>a
  <2> QED BY <1>a, <2>1
<1>b. ASSUME NEW id \in JobIds, job' = Added(id),
             \A w \in Workers : pc'[w] = pc[w] /\ cur'[w] = cur[w] /\ tries'[w] = tries[w]
      PROVE OwnerOK'
  <2>1. CASE job' = job
    BY <1>b, <2>1
  <2>2. CASE job' = [job EXCEPT ![id] = FreshJob]
    BY <1>a, <1>b, <2>2 DEF FreshJob
  <2> QED BY <1>b, <2>1, <2>2 DEF Added
<1>c. ASSUME job' = job,
             \A w \in Workers : pc'[w] = pc[w] /\ cur'[w] = cur[w] /\ tries'[w] = tries[w]
      PROVE OwnerOK'
  BY <1>c
<1>1. ASSUME NEW i \in Instances, Flush(i) \/ RestartInstance(i) \/ InstanceStep(i) PROVE OwnerOK'
  <2>1. \A w \in Workers : pc'[w] = pc[w] /\ cur'[w] = cur[w] /\ tries'[w] = tries[w]
    BY <1>1 DEF Flush, SetStateKey, RestartInstance, InstanceStep, AddJob, AddJobFails, Withdraw,
         SelectHead, LockGranted, FallbackCommits, FallbackRetries, FallbackDrops, AppendRow, tx
  <2>2. job' = job \/ \E id \in JobIds : job' = Added(id)
    BY <1>1 DEF Flush, RestartInstance, InstanceStep, AddJob, AddJobFails, Withdraw,
         SelectHead, LockGranted, FallbackCommits, FallbackRetries, FallbackDrops, queue
  <2> QED BY <1>b, <1>c, <2>1, <2>2
<1>2. ASSUME NEW w \in Workers,
             Resolve(w) \/ SelectHead(w) \/ LockGranted(w) \/ WorkerCommits(w) \/ WorkerTxFails(w)
               \/ ReleaseKey(w) \/ DeadLetter(w) \/ DeadLetterFails(w)
      PROVE OwnerOK'
  BY <1>2 DEF Resolve, SelectHead, LockGranted, WorkerCommits, AppendRow, WorkerTxFails,
       ReleaseKey, DeadLetter, DeadLetterFails, queue, tx
<1>3. ASSUME NEW w \in Workers, Complete(w) \/ Retry(w) \/ Rethrow(w) \/ CrashWorker(w) PROVE OwnerOK'
  <2>1. \E st, made : Settle(w, st, made) /\ pc[w] # "idle"
    BY <1>3 DEF Complete, Retry, Rethrow, CrashWorker
  <2> QED BY <2>1 DEF Settle
<1>4. ASSUME NEW w \in Workers, NEW id \in JobIds, Take(w, id) PROVE OwnerOK'
  BY <1>4 DEF Take, Moved
<1>5. ASSUME NEW id \in JobIds, QueueStep(id) \/ EvictJob(id) PROVE OwnerOK'
  <2>1. \A w \in Workers : pc'[w] = pc[w] /\ cur'[w] = cur[w] /\ tries'[w] = tries[w]
    BY <1>5 DEF QueueStep, Promote, RedeliverStalled, FailStalled, EvictJob, tx
  <2>2. \E j : job' = [job EXCEPT ![id] = j] /\ j.owner = None
    BY <1>5 DEF QueueStep, Promote, RedeliverStalled, FailStalled, EvictJob, Moved, NoJob
  <2> QED BY <1>a, <2>1, <2>2
<1>6. ASSUME OperatorStep \/ DrainDies PROVE OwnerOK'
  <2>a. ASSUME NEW d \in todo, DrainReplays(d)
        PROVE  \A w \in Workers : pc'[w] = pc[w] /\ cur'[w] = cur[w] /\ tries'[w] = tries[w]
    <3>1. \E id : SetStateKey(Operator, id, "idle")
      BY <2>a DEF DrainReplays
    <3> QED BY <2>a, <3>1 DEF DrainReplays, SetStateKey, tx
  <2>1. \A w \in Workers : pc'[w] = pc[w] /\ cur'[w] = cur[w] /\ tries'[w] = tries[w]
    <3>1. CASE DrainStarts \/ ReplayQueued \/ ReplayFails \/ ReplayedRemoved \/ DrainEnds
                 \/ DrainDies
      BY <3>1 DEF DrainStarts, ReplayQueued, ReplayFails, ReplayedRemoved, DrainEnds, DrainDies,
           tx
    <3>2. ASSUME NEW d \in todo, DrainDrops(d) \/ DrainLeaves(d)
          PROVE  UNCHANGED <<pc, cur, tries>>
      BY <3>2 DEF DrainDrops, DrainLeaves, tx
    <3> QED BY <1>6, <2>a, <3>1, <3>2 DEF OperatorStep
  <2>2. job' = job \/ \E id \in JobIds : job' = Added(id)
    BY <1>6 DEF OperatorStep, DrainStarts, DrainReplays, SetStateKey, ReplayQueued, ReplayFails,
         ReplayedRemoved, DrainDrops, DrainLeaves, DrainEnds, DrainDies, Withdraw, queue
  <2> QED BY <1>b, <1>c, <2>1, <2>2
<1>7. ASSUME Purge PROVE OwnerOK'
  <2>1. UNCHANGED <<job, cur, tries>>
    BY <1>7 DEF Purge, queue
  <2>2. \A w \in Workers : pc[w] # "idle" => pc'[w] # "idle"
    BY <1>7 DEF Purge
  <2> QED BY <2>1, <2>2
<1>8. CASE UNCHANGED <<pc, cur, job, tries>>
  BY <1>8
<1> QED
  BY <1>1, <1>2, <1>3, <1>4, <1>5, <1>6, <1>7, <1>8
     DEF Next, WorkerStep, Environment, EditArrives, LoseKey, ApplyDel, Tick, Anchor, Trash,
         Restore, SealRooms,
         UnsealRooms, outside, queue, tx

\* The newest row only moves on by one, and a purge sends waiting readers to an
\* empty table.
LEMMA BaseStep == ASSUME TypeOK, BaseOK, Next PROVE BaseOK'
<1> USE CastAssumption DEF TypeOK, BaseOK, Actors, Savers
<1>1. ASSUME NEW s \in Savers, SelectHead(s) \/ LockGranted(s) PROVE BaseOK'
  BY <1>1 DEF SelectHead, LockGranted, table, tx
<1>2. ASSUME NEW s \in Savers, AppendRow(s), pc'[s] \notin {"blocked", "insert"},
             \A a \in Savers \ {s} : pc'[a] = pc[a] /\ base'[a] = base[a]
      PROVE BaseOK'
  <2>1. Len(rows') = Len(rows) + 1
    <3>1. rows' = Append(rows, Merged(s))
      BY <1>2 DEF AppendRow
    <3> QED BY <3>1
  <2>2. SUFFICES ASSUME NEW a \in Savers
                 PROVE  /\ pc'[a] \in {"blocked", "insert"} => base'[a] <= Len(rows')
                        /\ pc'[a] = "blocked" => base'[a] > 0
    OBVIOUS
  <2>3. CASE a = s
    BY <1>2, <2>3
  <2>4. CASE a # s
    BY <1>2, <2>1, <2>4
  <2> QED BY <2>3, <2>4
<1>3. ASSUME NEW s \in Savers, WorkerCommits(s) \/ FallbackCommits(s) PROVE BaseOK'
  <2>1. /\ AppendRow(s) /\ pc'[s] \notin {"blocked", "insert"}
        /\ \A a \in Savers \ {s} : pc'[a] = pc[a] /\ base'[a] = base[a]
    BY <1>3 DEF WorkerCommits, FallbackCommits, tx
  <2> QED BY <1>2, <2>1
<1>4. CASE Purge
  BY <1>4 DEF Purge
<1>5. ASSUME UNCHANGED rows,
             \A s \in Savers : \/ pc'[s] = pc[s] /\ base'[s] = base[s]
                              \/ pc'[s] \notin {"blocked", "insert"}
      PROVE BaseOK'
  BY <1>5
<1>6. ASSUME NEW i \in Instances,
             \/ Flush(i) \/ RestartInstance(i) \/ (\E e \in Edits : EditArrives(i, e))
             \/ AddJob(i) \/ AddJobFails(i) \/ FallbackRetries(i) \/ FallbackDrops(i)
      PROVE BaseOK'
  BY <1>5, <1>6 DEF Flush, SetStateKey, RestartInstance, EditArrives, AddJob, AddJobFails,
       Withdraw, FallbackRetries, FallbackDrops, table, tx
<1>7. ASSUME NEW w \in Workers,
             \/ Resolve(w) \/ WorkerTxFails(w) \/ ReleaseKey(w) \/ Complete(w) \/ Retry(w)
             \/ DeadLetter(w) \/ DeadLetterFails(w) \/ Rethrow(w) \/ CrashWorker(w)
             \/ \E id \in JobIds : Take(w, id)
      PROVE BaseOK'
  BY <1>5, <1>7 DEF Resolve, WorkerTxFails, ReleaseKey, Complete, Retry, DeadLetter,
       DeadLetterFails, Rethrow, CrashWorker, Settle, Take, table, tx
<1>8. ASSUME OperatorStep \/ DrainDies PROVE BaseOK'
  BY <1>5, <1>8 DEF OperatorStep, DrainStarts, DrainReplays, SetStateKey, ReplayQueued,
       ReplayFails, ReplayedRemoved, DrainDrops, DrainLeaves, DrainEnds, DrainDies, Withdraw,
       table, tx
<1> QED
  BY <1>1, <1>3, <1>4, <1>5, <1>6, <1>7, <1>8
     DEF Next, InstanceStep, WorkerStep, QueueStep, Environment, Promote, RedeliverStalled,
         FailStalled, EvictJob, LoseKey, ApplyDel, Tick, Anchor, Trash, Restore, SealRooms,
         UnsealRooms, outside, table, tx

\* The replacement is minted in the current window; the dead letter is older.
LEMMA DrainStep == ASSUME TypeOK, DrainOK, WindowOK, Next PROVE DrainOK'
<1> USE CastAssumption DEF TypeOK, DrainOK, Actors, Savers
<1>1. ASSUME NEW d \in todo, DrainReplays(d) PROVE DrainOK'
  <2>1. d \in DeadLetters /\ d.id.win < now
    BY DEF WindowOK
  <2>2. SetStateKey(Operator, [state |-> d.id.state, win |-> now], "idle")
    BY <1>1 DEF DrainReplays
  <2>3. CASE pc'[Operator] = "idle"
    BY <2>3
  <2>4. CASE pc'[Operator] # "idle"
    <3>1. entry' = d /\ cur'[Operator] = [state |-> d.id.state, win |-> now]
      BY <1>1, <2>2, <2>4 DEF DrainReplays, SetStateKey
    <3> QED BY <2>1, <3>1
  <2> QED BY <2>3, <2>4
<1>2. ASSUME DrainStarts \/ ReplayQueued \/ ReplayFails \/ ReplayedRemoved \/ DrainEnds \/ DrainDies
      PROVE DrainOK'
  BY <1>2 DEF DrainStarts, ReplayQueued, ReplayFails, ReplayedRemoved, DrainEnds, DrainDies,
       Withdraw, drain
<1>3. ASSUME NEW i \in Instances, Flush(i) \/ RestartInstance(i) \/ InstanceStep(i) PROVE DrainOK'
  BY <1>3 DEF Flush, SetStateKey, RestartInstance, InstanceStep, AddJob, AddJobFails, Withdraw,
       SelectHead, LockGranted, FallbackCommits, FallbackRetries, FallbackDrops, AppendRow, drain
<1>4. ASSUME NEW w \in Workers, WorkerStep(w) \/ CrashWorker(w) \/ \E id \in JobIds : Take(w, id)
      PROVE DrainOK'
  BY <1>4 DEF WorkerStep, Resolve, SelectHead, LockGranted, WorkerCommits, AppendRow,
       WorkerTxFails, ReleaseKey, Complete, Retry, DeadLetter, DeadLetterFails, Rethrow,
       CrashWorker, Settle, Take, drain
<1>5. CASE Purge
  BY <1>5 DEF Purge, drain
<1>6. CASE UNCHANGED <<pc, cur, entry>>
  BY <1>6
<1>7. CASE \/ \E id \in JobIds : QueueStep(id) \/ EvictJob(id) \/ LoseKey(id)
           \/ \E d \in dels : ApplyDel(d)
           \/ \E i \in Instances, e \in Edits : EditArrives(i, e)
           \/ Tick \/ Anchor \/ Trash \/ Restore \/ SealRooms \/ UnsealRooms
  BY <1>6, <1>7 DEF QueueStep, Promote, RedeliverStalled, FailStalled, EvictJob, LoseKey,
       ApplyDel, EditArrives, Tick, Anchor, Trash, Restore, SealRooms,
         UnsealRooms, outside, drain
<1>8. CASE OperatorStep
  <2>1. CASE \E d \in todo : DrainDrops(d) \/ DrainLeaves(d)
    BY <2>1 DEF DrainDrops, DrainLeaves, drain
  <2> QED BY <1>1, <1>2, <1>8, <2>1 DEF OperatorStep
<1>9. CASE Environment
  BY <1>2, <1>3, <1>4, <1>5, <1>7, <1>9 DEF Environment
<1> QED
  BY <1>3, <1>4, <1>7, <1>8, <1>9 DEF Next

\* A dead letter is written after its window and only ever gets older.
LEMMA WindowStep == ASSUME TypeOK, CurOK, WindowOK, Next PROVE WindowOK'
<1> USE BoundAssumption DEF TypeOK, WindowOK
<1>1. ASSUME NEW w \in Workers, DeadLetter(w) PROVE WindowOK'
  <2>1. cur[w].win < now
    BY <1>1 DEF DeadLetter, LadderOutlastsWindow
  <2>2. PICK has : dlq' = dlq \cup {[id |-> cur[w], has |-> has]}
    BY <1>1 DEF DeadLetter
  <2> QED BY <1>1, <2>1, <2>2 DEF DeadLetter, drain
<1>2. CASE Tick
  <2>1. \A d \in dlq \cup todo : d.id.win \in Nat
    BY JobIdFacts DEF DeadLetters
  <2> QED BY <1>2, <2>1 DEF Tick, queue, drain
<1>3. CASE dlq' \subseteq dlq /\ todo' \subseteq dlq \cup todo /\ now' = now
  BY <1>3
<1> QED
  BY <1>1, <1>2, <1>3
     DEF Next, InstanceStep, WorkerStep, OperatorStep, QueueStep, Environment, Flush, AddJob,
         AddJobFails, SelectHead, LockGranted, FallbackCommits, FallbackRetries, FallbackDrops,
         RestartInstance, EditArrives, Resolve, WorkerCommits, WorkerTxFails, ReleaseKey,
         Complete, Retry, DeadLetterFails, Rethrow, CrashWorker, Settle, Take, Promote,
         RedeliverStalled, FailStalled, EvictJob, LoseKey, ApplyDel, Anchor, Trash, Restore, SealRooms,
         UnsealRooms, outside,
         Purge, DrainStarts, DrainReplays, ReplayQueued, ReplayFails, ReplayedRemoved,
         DrainDrops, DrainLeaves, DrainEnds, DrainDies, queue, drain

----------------------------------------------------------------------------
(* The theorems about the table.                                            *)

\* The pipeline starts with idle handlers and empty queues: Control holds.
LEMMA InitControl == Init => Control
<1> SUFFICES ASSUME Init PROVE Control
  OBVIOUS
<1>1. NoJob \in Jobs
  BY BoundAssumption DEF NoJob, Jobs, JobStates
<1>2. TypeOK
  BY <1>1, CastAssumption, BoundAssumption
     DEF Init, TypeOK, Life!MetaStates, PcStates, DeadLetters
<1>3. CurOK /\ BaseOK /\ DrainOK /\ WindowOK
  BY DEF Init, CurOK, BaseOK, DrainOK, WindowOK, Actors, Savers
<1>4. OwnerOK
  BY CastAssumption DEF Init, OwnerOK, NoJob
<1> QED BY <1>2, <1>3, <1>4 DEF Control

\* Control is inductive: every step of the pipeline keeps it.
LEMMA ControlStep == Control /\ [Next]_vars => Control'
<1> SUFFICES ASSUME Control, [Next]_vars PROVE Control'
  OBVIOUS
<1>1. CASE Next
  BY <1>1, TypeStep, CurStep, OwnerStep, BaseStep, DrainStep, WindowStep DEF Control
<1>2. CASE UNCHANGED vars
  BY <1>2 DEF vars, Control, TypeOK, CurOK, OwnerOK, BaseOK, DrainOK, WindowOK
<1> QED BY <1>1, <1>2

\* In every reachable state the handlers' places mean what Control says: who owns a
\* job's lock, which head a transaction read, how old a dead letter is.
THEOREM ControlInvariant == Spec => []Control
BY InitControl, ControlStep, PTL DEF Spec

\* Every state the pipeline reaches is well typed: no job is handed out for more
\* than MaxAttempts attempts or past MaxStalls stalls, whatever the faults.
THEOREM TypeInvariant == Spec => []TypeOK
BY ControlInvariant, PTL DEF Control

\* Every step leaves the rows alone, appends one, or is a purge.
LEMMA RowsStep ==
  ASSUME TypeOK, Next
  PROVE  \/ rows' = rows
         \/ Purge
         \/ \E s \in Savers : AppendRow(s) /\ pc'[s] # "insert"
<1> USE DEF TypeOK, Actors, Savers
<1>1. ASSUME NEW i \in Instances, Flush(i) \/ InstanceStep(i)
      PROVE  rows' = rows \/ (AppendRow(i) /\ pc'[i] # "insert")
  BY <1>1 DEF Flush, InstanceStep, AddJob, AddJobFails, SelectHead, LockGranted,
       FallbackCommits, FallbackRetries, FallbackDrops, table
<1>2. ASSUME NEW w \in Workers, WorkerStep(w) \/ CrashWorker(w) \/ \E id \in JobIds : Take(w, id)
      PROVE  rows' = rows \/ (AppendRow(w) /\ pc'[w] # "insert")
  BY <1>2 DEF WorkerStep, Resolve, SelectHead, LockGranted, WorkerCommits, WorkerTxFails,
       ReleaseKey, Complete, Retry, DeadLetter, DeadLetterFails, Rethrow, CrashWorker, Settle,
       Take, table
<1>3. ASSUME OperatorStep \/ DrainDies PROVE rows' = rows
  BY <1>3 DEF OperatorStep, DrainStarts, DrainReplays, ReplayQueued, ReplayFails,
       ReplayedRemoved, DrainDrops, DrainLeaves, DrainEnds, DrainDies, table
<1> QED
  BY <1>1, <1>2, <1>3
     DEF Next, Savers, QueueStep, Environment, RestartInstance, EditArrives, Promote,
         RedeliverStalled, FailStalled, EvictJob, LoseKey, ApplyDel, Tick, Anchor, Trash,
         Restore, SealRooms,
         UnsealRooms, outside, table

\* What the row lock and the unique version index buy: the row an insert adds
\* holds all of the row it follows, and the payload.
LEMMA AppendGrows ==
  ASSUME TypeOK, CurOK, BaseOK, NEW s \in Savers, AppendRow(s)
  PROVE  /\ rows' \in Seq(SUBSET Edits)
         /\ Len(rows') = Len(rows) + 1
         /\ \A v \in 1..Len(rows) : rows'[v] = rows[v]
         /\ rows'[Len(rows) + 1] = HeadState \cup PayloadOf(cur[s])
         /\ HeadState' = HeadState \cup PayloadOf(cur[s])
<1>1. base[s] = Len(rows)
  BY DEF AppendRow, Collides, BaseOK, TypeOK
<1>2. Merged(s) = HeadState \cup PayloadOf(cur[s])
  BY <1>1 DEF Merged, HeadState, TypeOK
<1>3. Merged(s) \in SUBSET Edits
  BY MergedTyped DEF AppendRow
<1>4. /\ rows' \in Seq(SUBSET Edits)
      /\ Len(rows') = Len(rows) + 1
      /\ \A v \in 1..Len(rows) : rows'[v] = rows[v]
      /\ rows'[Len(rows) + 1] = Merged(s)
  BY <1>3, AppendProperties DEF AppendRow, TypeOK
<1> QED BY <1>2, <1>4 DEF HeadState, TypeOK

\* No stale snapshot ever becomes the newest version: see HistoryGrows.
THEOREM HistoryOnlyGrows == Spec => []HistoryGrows
<1>1. Init => HistoryGrows
  BY DEF Init, HistoryGrows
<1>2. Control /\ HistoryGrows /\ [Next]_vars => HistoryGrows'
  <2> SUFFICES ASSUME Control, HistoryGrows, [Next]_vars PROVE HistoryGrows'
    OBVIOUS
  <2>1. CASE rows' = rows
    BY <2>1 DEF HistoryGrows
  <2>2. CASE Purge
    BY <2>2 DEF Purge, HistoryGrows
  <2>3. ASSUME NEW s \in Savers, AppendRow(s) PROVE HistoryGrows'
    <3>1. \A v \in 1..Len(rows) : rows[v] \subseteq HeadState
      <4> TAKE v \in 1..Len(rows)
      <4>1. Len(rows) \in 1..Len(rows) /\ v <= Len(rows)
        BY DEF Control, TypeOK
      <4>2. HeadState = rows[Len(rows)]
        BY <4>1 DEF HeadState
      <4> QED BY <4>1, <4>2 DEF HistoryGrows
    <3>2. SUFFICES ASSUME NEW v \in 1..Len(rows'), NEW w \in 1..Len(rows'), v <= w
                   PROVE  rows'[v] \subseteq rows'[w]
      BY DEF HistoryGrows
    <3>3. Len(rows) \in Nat /\ Len(rows') = Len(rows) + 1
      BY <2>3, AppendGrows DEF Control, TypeOK
    <3>4. CASE w <= Len(rows)
      BY <2>3, <3>2, <3>3, <3>4, AppendGrows DEF Control, HistoryGrows
    <3>5. CASE w = Len(rows) + 1
      BY <2>3, <3>1, <3>2, <3>3, <3>5, AppendGrows DEF Control
    <3> QED BY <3>3, <3>4, <3>5
  <2> QED BY <2>1, <2>2, <2>3, RowsStep DEF vars, Control
<1> QED BY <1>1, <1>2, ControlInvariant, PTL DEF Spec

----------------------------------------------------------------------------
(* The theorem about the row lock.                                          *)

\* Two transactions never hold the lock of the same row.
LockOK ==
  \A s, t \in Savers :
    pc[s] = "insert" /\ pc[t] = "insert" /\ base[s] = base[t] /\ base[s] > 0 => s = t

\* SELECT ... FOR UPDATE and the grant of a lock waited for are the only ways in.
LEMMA LockStep == ASSUME TypeOK, BaseOK, LockOK, Next PROVE LockOK'
<1> USE CastAssumption DEF TypeOK, BaseOK, LockOK, Actors, Savers
<1>1. ASSUME NEW s \in Savers, SelectHead(s) PROVE LockOK'
  <2>1. /\ base' = [base EXCEPT ![s] = Len(rows)]
        /\ pc' = [pc EXCEPT ![s] = IF Len(rows) > 0 /\ RowLocked(Len(rows))
                                   THEN "blocked" ELSE "insert"]
    BY <1>1 DEF SelectHead
  <2>2. CASE Len(rows) > 0 /\ RowLocked(Len(rows))
    BY <2>1, <2>2
  <2>3. CASE ~(Len(rows) > 0 /\ RowLocked(Len(rows)))
    BY <2>1, <2>3 DEF RowLocked
  <2> QED BY <2>2, <2>3
<1>2. ASSUME NEW s \in Savers, LockGranted(s) PROVE LockOK'
  BY <1>2 DEF LockGranted, RowLocked, tx
<1>3. CASE Purge
  BY <1>3 DEF Purge
<1>4. ASSUME \A s \in Savers : (pc'[s] = pc[s] /\ base'[s] = base[s]) \/ pc'[s] # "insert"
      PROVE LockOK'
  BY <1>4
<1>5. ASSUME NEW i \in Instances,
             \/ Flush(i) \/ RestartInstance(i) \/ (\E e \in Edits : EditArrives(i, e))
             \/ AddJob(i) \/ AddJobFails(i) \/ FallbackCommits(i) \/ FallbackRetries(i)
             \/ FallbackDrops(i)
      PROVE LockOK'
  BY <1>4, <1>5 DEF Flush, SetStateKey, RestartInstance, EditArrives, AddJob, AddJobFails,
       Withdraw, FallbackCommits, FallbackRetries, FallbackDrops, tx
<1>6. ASSUME NEW w \in Workers,
             \/ Resolve(w) \/ WorkerCommits(w) \/ WorkerTxFails(w) \/ ReleaseKey(w)
             \/ Complete(w) \/ Retry(w) \/ DeadLetter(w) \/ DeadLetterFails(w) \/ Rethrow(w)
             \/ CrashWorker(w) \/ \E id \in JobIds : Take(w, id)
      PROVE LockOK'
  BY <1>4, <1>6 DEF Resolve, WorkerCommits, WorkerTxFails, ReleaseKey, Complete, Retry,
       DeadLetter, DeadLetterFails, Rethrow, CrashWorker, Settle, Take, tx
<1>7. ASSUME OperatorStep \/ DrainDies PROVE LockOK'
  <2>1. UNCHANGED base
    BY <1>7 DEF OperatorStep, DrainStarts, DrainReplays, ReplayQueued, ReplayFails,
         ReplayedRemoved, DrainDrops, DrainLeaves, DrainEnds, DrainDies, tx
  <2>2. \A s \in Savers : pc'[s] = pc[s]
    BY <1>7 DEF OperatorStep, DrainStarts, DrainReplays, SetStateKey, ReplayQueued,
         ReplayFails, ReplayedRemoved, DrainDrops, DrainLeaves, DrainEnds, DrainDies, tx
  <2> QED BY <1>4, <2>1, <2>2
<1> QED
  BY <1>1, <1>2, <1>3, <1>4, <1>5, <1>6, <1>7
     DEF Next, InstanceStep, WorkerStep, QueueStep, Environment, Promote, RedeliverStalled,
         FailStalled, EvictJob, LoseKey, ApplyDel, Tick, Anchor, Trash, Restore, SealRooms,
         UnsealRooms, outside, tx

\* While a transaction holds the lock of the newest row, an append is its own: see
\* HeadLockHolds.  First saves, which have no row to lock, are what it leaves out.
THEOREM LockedHeadStays == Spec => HeadLockHolds
<1>1. Init => LockOK
  BY DEF Init, LockOK, Actors
<1>2. Control /\ LockOK /\ [Next]_vars => LockOK'
  <2>1. ASSUME LockOK, UNCHANGED vars PROVE LockOK'
    BY <2>1 DEF LockOK, vars
  <2> QED BY <2>1, LockStep DEF Control
<1>3. ASSUME Control, LockOK, Next, NEW s \in Savers,
             pc[s] = "insert", base[s] = Len(rows), base[s] > 0, Len(rows') > Len(rows)
      PROVE  pc'[s] # "insert"
  <2>1. Len(rows) \in Nat
    BY <1>3 DEF Control, TypeOK
  <2>2. PICK t \in Savers : AppendRow(t) /\ pc'[t] # "insert"
    BY <1>3, <2>1, RowsStep DEF Purge, Control
  <2>3. t = s
    <3>1. base[t] = Len(rows)
      BY <1>3, <2>1, <2>2 DEF AppendRow, Collides, Control, TypeOK, BaseOK
    <3> QED BY <1>3, <2>2, <3>1 DEF AppendRow, LockOK
  <2> QED BY <2>2, <2>3
<1>4. Control /\ LockOK /\ [Next]_vars =>
        [\A s \in Savers :
           pc[s] = "insert" /\ base[s] = Len(rows) /\ base[s] > 0 /\ Len(rows') > Len(rows)
             => pc'[s] # "insert"]_vars
  BY <1>3
<1> QED BY <1>1, <1>2, <1>4, ControlInvariant, PTL DEF Spec, HeadLockHolds

----------------------------------------------------------------------------
(* The theorem about the queues: nothing accepted is lost in silence.        *)

\* The two unions, read pointwise, in this state and in the next.
LEMMA EmbeddedFacts ==
  ASSUME NEW k
  PROVE  /\ \A e : e \in Embedded(k) <=>
               \E d \in dlq : d.has /\ d.id.win >= k /\ e \in d.id.state
         /\ \A e : e \in Embedded(k)' <=>
               \E d \in dlq' : d.has /\ d.id.win >= k /\ e \in d.id.state
BY DEF Embedded

\* Carried, read pointwise, in this state and in the next.
LEMMA CarriedFacts ==
  ASSUME NEW k
  PROVE  /\ \A e : e \in Carried(k) <=>
               \E x \in JobIds : x.win > k /\ Held(x) /\ e \in x.state
         /\ \A e : e \in Carried(k)' <=>
               \E x \in JobIds : x.win > k /\ Held(x)' /\ e \in x.state
BY DEF Carried, Held, KeySafe

\* What vouches from a later window on vouches from an earlier one on.
LEMMA SafeFromAntitone ==
  ASSUME TypeOK', NEW j \in Nat, NEW k \in Nat, j <= k
  PROVE  SafeFrom(k)' \subseteq SafeFrom(j)'
<1>1. \A d \in dlq' : d.id.win \in Nat
  BY JobIdFacts DEF TypeOK, DeadLetters
<1>2. \A x \in JobIds : x.win \in Nat
  BY JobIdFacts
<1>3. Embedded(k)' \subseteq Embedded(j)'
  BY <1>1, EmbeddedFacts
<1>4. Carried(k)' \subseteq Carried(j)'
  BY <1>2, CarriedFacts
<1> QED BY <1>3, <1>4 DEF SafeFrom

\* SafeFrom never shrinks, as long as what leaves a queue is covered afterwards.
LEMMA SafeFromKept ==
  ASSUME TypeOK, TypeOK',
         HeadState \subseteq HeadState' \cup forfeited',
         forfeited \subseteq forfeited',
         \A d \in dlq : d.has => d \in dlq' \/ d.id.state \subseteq SafeFrom(d.id.win)',
         \A x \in JobIds : Held(x) => Held(x)' \/ x.state \subseteq SafeFrom(x.win)',
         NEW k \in Nat
  PROVE  SafeFrom(k) \subseteq SafeFrom(k)'
<1> SUFFICES ASSUME NEW e \in SafeFrom(k) PROVE e \in SafeFrom(k)'
  OBVIOUS
<1>1. CASE e \in HeadState \cup forfeited
  BY <1>1 DEF SafeFrom
<1>2. CASE e \in Embedded(k)
  <2>1. PICK d \in dlq : d.has /\ d.id.win >= k /\ e \in d.id.state
    BY <1>2, EmbeddedFacts
  <2>2. d.id.win \in Nat
    BY JobIdFacts DEF TypeOK, DeadLetters
  <2>3. CASE d \in dlq'
    BY <2>1, <2>3, EmbeddedFacts DEF SafeFrom
  <2>4. CASE d.id.state \subseteq SafeFrom(d.id.win)'
    BY <2>1, <2>2, <2>4, SafeFromAntitone
  <2> QED BY <2>1, <2>3, <2>4
<1>3. CASE e \in Carried(k)
  <2>1. PICK x \in JobIds : x.win > k /\ Held(x) /\ e \in x.state
    BY <1>3, CarriedFacts
  <2>2. x.win \in Nat
    BY JobIdFacts
  <2>3. CASE Held(x)'
    BY <2>1, <2>3, CarriedFacts DEF SafeFrom
  <2>4. CASE x.state \subseteq SafeFrom(x.win)'
    BY <2>1, <2>2, <2>4, SafeFromAntitone
  <2> QED BY <2>1, <2>3, <2>4
<1> QED BY <1>1, <1>2, <1>3 DEF SafeFrom

\* A covered id stays covered when no other job lets go of its payload: what
\* vouches for it from a later window is still there.
LEMMA CoveredKept ==
  ASSUME TypeOK, TypeOK', NEW id \in JobIds, Covered(id),
         HeadState \subseteq HeadState' \cup forfeited',
         forfeited \subseteq forfeited',
         \A d \in dlq : d.has /\ d.id.win >= id.win => d \in dlq',
         \A x \in JobIds : x # id /\ Held(x) => Held(x)'
  PROVE  Covered(id)'
<1> SUFFICES ASSUME NEW e \in id.state PROVE e \in SafeFrom(id.win)'
  BY DEF Covered
<1>0. e \in SafeFrom(id.win)
  BY DEF Covered
<1>1. CASE e \in HeadState \cup forfeited
  BY <1>1 DEF SafeFrom
<1>2. CASE e \in Embedded(id.win)
  BY <1>2, EmbeddedFacts DEF SafeFrom
<1>3. CASE e \in Carried(id.win)
  <2>1. PICK x \in JobIds : x.win > id.win /\ Held(x) /\ e \in x.state
    BY <1>3, CarriedFacts
  <2>2. x # id
    BY <2>1, JobIdFacts
  <2> QED BY <2>1, <2>2, CarriedFacts DEF SafeFrom
<1> QED BY <1>0, <1>1, <1>2, <1>3 DEF SafeFrom

\* The shape every step has: whatever newly relies on a payload finds it there or
\* covered, and whatever lets go of one leaves it covered.
LEMMA LedgerFrame ==
  ASSUME TypeOK, TypeOK', Ledger,
    HeadState \subseteq HeadState' \cup forfeited',
    forfeited \subseteq forfeited',
    \A d \in dlq : d.has => d \in dlq' \/ d.id.state \subseteq SafeFrom(d.id.win)',
    \A x \in JobIds : KeySafe(x) => KeySafe(x)' \/ Covered(x)',
    \A x \in JobIds : job[x].st \in Pending => job'[x].st \in Pending \/ Covered(x)',
    \A x \in JobIds : job'[x].st \in {"completed", "failed"} =>
                        job'[x].st = job[x].st \/ Covered(x)',
    \A x \in JobIds : job'[x].st \in Pending =>
                        job[x].st \in Pending \/ KeySafe(x)' \/ Covered(x)',
    \A x \in JobIds, a \in Actors : <<x, a>> \in dels' => <<x, a>> \in dels \/ Covered(x)',
    \A w \in Workers, x \in JobIds :
      pc'[w] \in {"saved", "ack", "rethrow"} /\ cur'[w] = x =>
        (pc[w] \in {"saved", "ack", "rethrow"} /\ cur[w] = x) \/ Covered(x)',
    \A w \in Workers, x \in JobIds :
      pc'[w] # "idle" /\ cur'[w] = x =>
        (pc[w] # "idle" /\ cur[w] = x) \/ Held(x)' \/ Covered(x)',
    \A p \in Producers, x \in JobIds :
      pc'[p] = "add" /\ cur'[p] = x =>
        (pc[p] = "add" /\ cur[p] = x) \/ KeySafe(x)' \/ Covered(x)',
    \A x \in JobIds :
      pc'[Operator] = "remove" /\ cur'[Operator] = x =>
        (pc[Operator] = "remove" /\ cur[Operator] = x) \/ Held(x)' \/ Covered(x)',
    accepted' \subseteq accepted \cup SafeFrom(0)'
  PROVE Ledger'
<1>1. \A x \in JobIds : Held(x) => Held(x)' \/ Covered(x)'
  BY DEF Held
<1>2. \A k \in Nat : SafeFrom(k) \subseteq SafeFrom(k)'
  BY <1>1, SafeFromKept DEF Covered
<1>3. \A x \in JobIds : Covered(x) => Covered(x)'
  BY <1>2, JobIdFacts DEF Covered
<1>4. DoneCovered'
  BY <1>3 DEF Ledger, DoneCovered
<1>5. DelsCovered'
  BY <1>3 DEF Ledger, DelsCovered
<1>6. JobsCovered'
  BY <1>3 DEF Ledger, JobsCovered
<1>7. RunsCovered'
  BY <1>1, <1>3 DEF Ledger, RunsCovered
<1>8. AddsCovered'
  BY <1>3 DEF Ledger, AddsCovered
<1>9. ReplayCovered'
  BY <1>1, <1>3 DEF Ledger, ReplayCovered
<1>10. NoSilentLoss'
  BY <1>2 DEF Ledger, NoSilentLoss
<1> QED BY <1>4, <1>5, <1>6, <1>7, <1>8, <1>9, <1>10 DEF Ledger

\* A step that touches no queue and no table, and at which nobody newly relies
\* on a payload.
LEMMA LedgerQuiet ==
  ASSUME TypeOK, TypeOK', Ledger, UNCHANGED <<rows, queue, ledger>>,
    \A w \in Workers :
      pc'[w] # "idle" => pc[w] # "idle" /\ cur'[w] = cur[w],
    \A w \in Workers :
      pc'[w] \in {"saved", "ack", "rethrow"} => pc'[w] = pc[w],
    \A p \in Producers : pc'[p] \in {"add", "remove"} => pc'[p] = pc[p] /\ cur'[p] = cur[p]
  PROVE Ledger'
<1>1. \A x \in JobIds : KeySafe(x)' <=> KeySafe(x)
  BY DEF KeySafe, queue
<1>2. HeadState' = HeadState
  BY DEF HeadState
<1> QED BY <1>1, <1>2, LedgerFrame DEF queue, ledger, Producers

\* The steps that only move a handler along keep the ledger.
LEMMA LedgerQuietSteps ==
  ASSUME TypeOK, TypeOK', Ledger,
    \/ \E i \in Instances : \/ RestartInstance(i) \/ SelectHead(i) \/ LockGranted(i)
                           \/ FallbackRetries(i) \/ FallbackDrops(i)
                           \/ \E e \in Edits : EditArrives(i, e)
    \/ \E w \in Workers : \/ Resolve(w) \/ SelectHead(w) \/ LockGranted(w) \/ WorkerTxFails(w)
    \/ DrainStarts \/ DrainEnds \/ DrainDies \/ \E d \in todo : DrainLeaves(d)
    \/ Tick \/ Anchor \/ Trash \/ Restore \/ SealRooms \/ UnsealRooms
  PROVE Ledger'
<1> USE CastAssumption DEF TypeOK, Actors, Savers, Producers, table
<1>1. ASSUME NEW i \in Instances,
             \/ RestartInstance(i) \/ SelectHead(i) \/ LockGranted(i)
             \/ FallbackRetries(i) \/ FallbackDrops(i) \/ \E e \in Edits : EditArrives(i, e)
      PROVE Ledger'
  <2>1. CASE RestartInstance(i)
    BY <2>1, LedgerQuiet DEF RestartInstance
  <2>2. CASE SelectHead(i)
    BY <2>2, LedgerQuiet DEF SelectHead
  <2>3. CASE LockGranted(i)
    BY <2>3, LedgerQuiet DEF LockGranted
  <2>4. CASE FallbackRetries(i)
    BY <2>4, LedgerQuiet DEF FallbackRetries
  <2>5. CASE FallbackDrops(i)
    BY <2>5, LedgerQuiet DEF FallbackDrops
  <2>6. CASE \E e \in Edits : EditArrives(i, e)
    BY <2>6, LedgerQuiet DEF EditArrives
  <2> QED BY <1>1, <2>1, <2>2, <2>3, <2>4, <2>5, <2>6
<1>2. ASSUME NEW w \in Workers, Resolve(w) \/ SelectHead(w) \/ LockGranted(w) \/ WorkerTxFails(w)
      PROVE Ledger'
  <2>1. CASE Resolve(w)
    BY <2>1, LedgerQuiet DEF Resolve
  <2>2. CASE SelectHead(w)
    BY <2>2, LedgerQuiet DEF SelectHead
  <2>3. CASE LockGranted(w)
    BY <2>3, LedgerQuiet DEF LockGranted
  <2>4. CASE WorkerTxFails(w)
    BY <2>4, LedgerQuiet DEF WorkerTxFails
  <2> QED BY <1>2, <2>1, <2>2, <2>3, <2>4
<1>3. CASE DrainStarts \/ DrainEnds \/ DrainDies \/ \E d \in todo : DrainLeaves(d)
  BY <1>3, LedgerQuiet DEF DrainStarts, DrainEnds, DrainDies, DrainLeaves
<1>4. CASE Tick \/ Anchor \/ Trash \/ Restore \/ SealRooms \/ UnsealRooms
  BY <1>4, LedgerQuiet DEF Tick, Anchor, Trash, Restore, SealRooms,
         UnsealRooms, outside
<1> QED BY <1>1, <1>2, <1>3, <1>4

\* SET: the key is there, unless a DEL of the same key is on its way, and a DEL
\* is only ever sent when the payload is covered.
LEMMA LedgerSet ==
  ASSUME TypeOK, TypeOK', Ledger, NEW p \in Producers, NEW id \in JobIds, NEW f \in {"select", "idle"},
         SetStateKey(p, id, f), UNCHANGED <<dels, job, dlq, rows, ledger>>
  PROVE  Ledger'
<1>1. HeadState' = HeadState
  BY DEF HeadState
<1>2. \A x \in JobIds : KeySafe(x) => KeySafe(x)'
  BY DEF KeySafe, SetStateKey
<1>3. \A x \in JobIds : Held(x) => Held(x)'
  BY <1>2 DEF Held
<1>4. pc'[p] = "add" => KeySafe(id)' \/ Covered(id)'
  <2>1. CASE \E a \in Actors : <<id, a>> \in dels
    <3>1. Covered(id)
      BY <2>1 DEF Ledger, DelsCovered
    <3> QED BY <1>1, <1>3, <3>1, CoveredKept DEF ledger
  <2>2. CASE ~ \E a \in Actors : <<id, a>> \in dels
    BY <2>2 DEF KeySafe, SetStateKey, TypeOK, Actors, Savers, Producers
  <2> QED BY <2>1, <2>2
<1>5. /\ \A a \in Actors \ {p} : pc'[a] = pc[a] /\ cur'[a] = cur[a]
      /\ pc'[p] \in {"add", "select", "idle"}
      /\ pc'[p] = "add" => cur'[p] = id
  BY DEF SetStateKey, TypeOK, Actors, Savers, Producers
<1>6. \A w \in Workers : w # p /\ w \in Actors
  BY CastAssumption DEF Producers, Actors, Savers
<1>7. \A q \in Producers : q \in Actors
  BY DEF Producers, Actors, Savers
<1> QED BY <1>1, <1>2, <1>4, <1>5, <1>6, <1>7, LedgerFrame DEF ledger, Producers

\* Queue.add: whatever state BullMQ knows the id in, the flush is covered by it.
LEMMA LedgerAdd ==
  ASSUME TypeOK, TypeOK', Ledger, NEW p \in Producers, NEW id \in JobIds,
         pc[p] = "add", cur[p] = id, job' = Added(id),
         UNCHANGED <<keys, dels, dlq, rows, forfeited>>,
         accepted' \in {accepted, accepted \cup id.state},
         \/ pc' = [pc EXCEPT ![p] = "idle"]
         \/ p = Operator /\ pc' = [pc EXCEPT ![p] = "remove"],
         cur' \in {cur, [cur EXCEPT ![p] = None]}
  PROVE  Ledger'
<1> USE CastAssumption DEF TypeOK, Actors, Savers, Producers
<1>1. HeadState' = HeadState
  BY DEF HeadState
<1>2. \A x \in JobIds : KeySafe(x)' <=> KeySafe(x)
  BY DEF KeySafe
<1>3. \A x \in JobIds : job'[x] = job[x] \/ (x = id /\ job[x].st = "none" /\ job'[x].st = "wait")
  BY DEF Added, FreshJob
<1>4. \A x \in JobIds : Held(x) => Held(x)'
  BY <1>2, <1>3 DEF Held, Pending
<1>5. KeySafe(id)' \/ Covered(id)'
  <2>1. CASE Covered(id)
    BY <1>1, <1>4, <2>1, CoveredKept
  <2>2. CASE KeySafe(id)
    BY <1>2, <2>2
  <2> QED BY <2>1, <2>2 DEF Ledger, AddsCovered
<1>6. Held(id)' \/ Covered(id)'
  <2>1. CASE job'[id].st \in Pending
    BY <1>5, <2>1 DEF Held
  <2>2. CASE job'[id].st \notin Pending
    <3>1. job[id].st \in {"completed", "failed"}
      <4>1. job[id].st \in JobStates
        BY DEF Jobs
      <4>2. job[id].st # "none"
        BY <2>2 DEF Added, FreshJob, Pending
      <4> QED BY <1>3, <2>2, <4>1, <4>2 DEF Pending, JobStates
    <3>2. Covered(id)
      BY <3>1 DEF Ledger, JobsCovered
    <3> QED BY <1>1, <1>4, <3>2, CoveredKept
  <2> QED BY <2>1, <2>2
<1>7. id.state \subseteq SafeFrom(0)'
  <2>1. CASE Held(id)'
    BY <2>1, JobIdFacts, CarriedFacts DEF SafeFrom
  <2>2. CASE Covered(id)'
    <3>1. id.win \in Nat /\ 0 \in Nat /\ 0 <= id.win
      BY JobIdFacts
    <3>2. SafeFrom(id.win)' \subseteq SafeFrom(0)'
      BY <3>1, SafeFromAntitone
    <3> QED BY <2>2, <3>2 DEF Covered
  <2> QED BY <1>6, <2>1, <2>2
<1>8. \A w \in Workers : pc'[w] = pc[w] /\ cur'[w] = cur[w]
  OBVIOUS
<1>9. \A q \in Producers : pc'[q] = "add" => pc[q] = "add" /\ cur'[q] = cur[q]
  OBVIOUS
<1>10. \A x \in JobIds : pc'[Operator] = "remove" /\ cur'[Operator] = x =>
         (pc[Operator] = "remove" /\ cur[Operator] = x) \/ x = id
  BY JobIdFacts
<1>11. accepted' \subseteq accepted \cup SafeFrom(0)'
  BY <1>7
<1>12. \A x \in JobIds :
         /\ job[x].st \in Pending => job'[x].st \in Pending
         /\ job'[x].st \in {"completed", "failed"} => job'[x].st = job[x].st
         /\ job'[x].st \in Pending => job[x].st \in Pending \/ x = id
  BY <1>3 DEF Pending
<1> QED
  BY <1>1, <1>2, <1>5, <1>6, <1>8, <1>9, <1>10, <1>11, <1>12, LedgerFrame

\* A failed Queue.add gives its payload up before anyone can miss the key.
LEMMA LedgerWithdraw ==
  ASSUME TypeOK, TypeOK', Ledger, NEW p \in Producers, NEW id \in JobIds, cur[p] = id, Withdraw(p),
         UNCHANGED <<keys, dlq, rows, accepted>>,
         \E place \in {"idle", "select"} : pc' = [pc EXCEPT ![p] = place],
         cur' \in {cur, [cur EXCEPT ![p] = None]}
  PROVE  Ledger'
<1> USE CastAssumption DEF TypeOK, Actors, Savers, Producers
<1>1. HeadState' = HeadState
  BY DEF HeadState
<1>2. Covered(id)' /\ forfeited \subseteq forfeited'
  BY JobIdFacts DEF Withdraw, Covered, SafeFrom
<1>3. \A x \in JobIds : x # id /\ KeySafe(x) => KeySafe(x)'
  BY DEF Withdraw, KeySafe
<1>4. \A x \in JobIds : job'[x] = job[x] \/ (x = id /\ job[x].st = "none" /\ job'[x].st = "wait")
  BY DEF Withdraw, Added, FreshJob
<1>5. \A w \in Workers : pc'[w] = pc[w] /\ cur'[w] = cur[w]
  OBVIOUS
<1>6. \A q \in Producers : pc'[q] \in {"add", "remove"} => pc'[q] = pc[q] /\ cur'[q] = cur[q]
  OBVIOUS
<1>7. \A x \in JobIds, a \in Actors : <<x, a>> \in dels' => <<x, a>> \in dels \/ x = id
  BY DEF Withdraw
<1>8. \A x \in JobIds :
         /\ job[x].st \in Pending => job'[x].st \in Pending
         /\ job'[x].st \in {"completed", "failed"} => job'[x].st = job[x].st
         /\ job'[x].st \in Pending => job[x].st \in Pending \/ x = id
  BY <1>4 DEF Pending
<1> QED BY <1>1, <1>2, <1>3, <1>5, <1>6, <1>7, <1>8, LedgerFrame, SMTT(30)

\* A committed append stores the payload and everything the old newest row held.
LEMMA LedgerAppend ==
  ASSUME Control, TypeOK', Ledger, NEW s \in Savers, AppendRow(s),
         UNCHANGED <<queue, forfeited>>,
         accepted' \in {accepted, accepted \cup PayloadOf(cur[s])},
         \A w \in Workers : \/ pc'[w] = pc[w] /\ cur'[w] = cur[w]
                            \/ w = s /\ pc'[w] \in {"saved", "failed"} /\ cur'[w] = cur[w],
         \A p \in Producers : (pc'[p] = pc[p] /\ cur'[p] = cur[p]) \/ pc'[p] = "idle"
  PROVE  Ledger'
<1> USE CastAssumption DEF Control, TypeOK, Actors, Savers, Producers
<1>1. HeadState' = HeadState \cup PayloadOf(cur[s])
  BY AppendGrows
<1>2. cur[s] \in JobIds /\ PayloadOf(cur[s]) = cur[s].state
  BY JobIdFacts DEF AppendRow, CurOK
<1>3. ASSUME NEW x \in JobIds, x = cur[s] PROVE Covered(x)'
  BY <1>1, <1>2, <1>3 DEF Covered, SafeFrom
<1>4. \A x \in JobIds : KeySafe(x)' <=> KeySafe(x)
  BY DEF KeySafe, queue
<1>5. accepted' \subseteq accepted \cup SafeFrom(0)'
  BY <1>1 DEF SafeFrom
<1>6. pc[s] = "insert"
  BY DEF AppendRow
<1> QED BY <1>1, <1>2, <1>3, <1>4, <1>5, <1>6, LedgerFrame DEF queue

\* Picking a job up: the execution finds what the waiting job was promised.
LEMMA LedgerTake ==
  ASSUME TypeOK, TypeOK', Ledger, NEW w \in Workers, NEW id \in JobIds, Take(w, id)
  PROVE  Ledger'
<1> USE CastAssumption DEF TypeOK, Actors, Savers, Producers, Take, table, ledger
<1>1. HeadState' = HeadState
  BY DEF HeadState
<1>2. \A x \in JobIds : KeySafe(x)' <=> KeySafe(x)
  BY DEF KeySafe
<1>3. \A x \in JobIds : job'[x].st = job[x].st \/ (x = id /\ job'[x].st = "active")
  BY DEF Moved
<1>4. job[id].st = "wait" /\ job'[id].st = "active"
  BY DEF Moved
<1>5. \A x \in JobIds : Held(x) => Held(x)'
  BY <1>2, <1>3 DEF Held, Pending
<1>6. Held(id)' \/ Covered(id)'
  <2>1. CASE KeySafe(id)
    BY <1>2, <1>4, <2>1 DEF Held, Pending
  <2>2. CASE Covered(id)
    BY <1>1, <1>5, <2>2, CoveredKept
  <2> QED BY <1>4, <2>1, <2>2 DEF Ledger, JobsCovered, Pending
<1>7. \A x \in JobIds :
         /\ job[x].st \in Pending => job'[x].st \in Pending
         /\ job'[x].st \in {"completed", "failed"} => job'[x].st = job[x].st
         /\ job'[x].st \in Pending => job[x].st \in Pending
  BY <1>3, <1>4 DEF Pending
<1>8. \A v \in Workers : \/ pc'[v] = pc[v] /\ cur'[v] = cur[v]
                         \/ v = w /\ pc'[v] = "resolve" /\ cur'[v] = id
  OBVIOUS
<1>9. \A q \in Producers : pc'[q] = pc[q] /\ cur'[q] = cur[q]
  OBVIOUS
<1> QED BY <1>1, <1>2, <1>6, <1>7, <1>8, <1>9, LedgerFrame

\* The key goes once the save is committed.
LEMMA LedgerRelease ==
  ASSUME TypeOK, TypeOK', CurOK, Ledger, NEW w \in Workers, ReleaseKey(w)
  PROVE  Ledger'
<1> USE CastAssumption DEF TypeOK, Actors, Savers, Producers, ReleaseKey, table, ledger
<1> DEFINE id == cur[w]
<1>0. id \in JobIds
  BY DEF CurOK
<1>1. HeadState' = HeadState
  BY DEF HeadState
<1>2. \A x \in JobIds : x # id /\ KeySafe(x) => KeySafe(x)'
  BY DEF KeySafe
<1>3. \A x \in JobIds : x # id /\ Held(x) => Held(x)'
  BY <1>2 DEF Held
<1>4. ASSUME NEW x \in JobIds, x = id PROVE Covered(x)'
  <2>1. Covered(x)
    BY <1>4 DEF Ledger, DoneCovered
  <2> QED BY <1>1, <1>3, <1>4, <2>1, CoveredKept
<1>5. \A x \in JobIds, a \in Actors : <<x, a>> \in dels' => <<x, a>> \in dels \/ x = id
  OBVIOUS
<1>6. \A v \in Workers : \/ pc'[v] = pc[v] /\ cur'[v] = cur[v]
                         \/ pc[v] = "saved" /\ pc'[v] = "ack" /\ cur'[v] = cur[v]
  OBVIOUS
<1>7. \A q \in Producers : pc'[q] = pc[q] /\ cur'[q] = cur[q]
  OBVIOUS
<1> HIDE DEF id
<1> QED BY <1>1, <1>2, <1>4, <1>5, <1>6, <1>7, LedgerFrame

\* Settling moves the job on or leaves it to its new owner.  A job leaves the
\* queue only with its payload covered.
LEMMA LedgerSettle ==
  ASSUME TypeOK, TypeOK', CurOK, Ledger, NEW w \in Workers, pc[w] # "idle",
         NEW st \in JobStates \ {"none"}, NEW made, Settle(w, st, made),
         st \in Pending /\ job[cur[w]].owner = w => job[cur[w]].st \in Pending,
         st \in {"completed", "failed"} => Covered(cur[w])
  PROVE  Ledger'
<1> USE CastAssumption DEF TypeOK, Actors, Savers, Producers, Settle, table, ledger
<1> DEFINE id == cur[w]
<1>0. id \in JobIds
  BY DEF CurOK
<1>1. HeadState' = HeadState
  BY DEF HeadState
<1>2. \A x \in JobIds : KeySafe(x)' <=> KeySafe(x)
  BY DEF KeySafe
<1>3. \A x \in JobIds : job'[x] = job[x] \/ (x = id /\ job[x].owner = w /\ job'[x].st = st)
  OBVIOUS
<1>4. \A x \in JobIds : x # id /\ Held(x) => Held(x)'
  BY <1>2, <1>3 DEF Held
<1>5. ASSUME NEW x \in JobIds, x = id, st \notin Pending PROVE Covered(x)'
  <2>1. Covered(x)
    BY <1>5 DEF JobStates, Pending
  <2> QED BY <1>1, <1>4, <1>5, <2>1, CoveredKept
<1>6. \A x \in JobIds :
         /\ job[x].st \in Pending => job'[x].st \in Pending \/ (x = id /\ st \notin Pending)
         /\ job'[x].st \in {"completed", "failed"} =>
               job'[x].st = job[x].st \/ (x = id /\ st \notin Pending)
         /\ job'[x].st \in Pending => job[x].st \in Pending
  BY <1>3 DEF Pending
<1>7. \A v \in Workers : (pc'[v] = pc[v] /\ cur'[v] = cur[v]) \/ pc'[v] = "idle"
  OBVIOUS
<1>8. \A q \in Producers : pc'[q] = pc[q] /\ cur'[q] = cur[q]
  OBVIOUS
<1> HIDE DEF id
<1> QED BY <1>1, <1>2, <1>5, <1>6, <1>7, <1>8, LedgerFrame

\* A dead letter embeds the payload, or the code drops a copy it had, or there
\* was no copy left because nobody needed one.
LEMMA LedgerDeadLetter ==
  ASSUME TypeOK, TypeOK', CurOK, Ledger, NEW w \in Workers, DeadLetter(w)
  PROVE  Ledger'
<1> USE CastAssumption DEF TypeOK, Actors, Savers, Producers, table
<1> DEFINE id == cur[w]
<1>0. id \in JobIds /\ pc[w] = "failed"
  BY DEF CurOK, DeadLetter
<1>1. /\ UNCHANGED <<rows, keys, job, cur, accepted>>
      /\ dels' = dels \cup {<<id, w>>}
      /\ pc' = [pc EXCEPT ![w] = "rethrow"]
  BY DEF DeadLetter
<1>2. PICK found \in RecoverableCopies(w) :
        LET has == found /\ Inlineable(id)
        IN  /\ dlq' = dlq \cup {[id |-> id, has |-> has]}
            /\ forfeited' = IF ~has /\ (w \in raw \/ id \in keys)
                            THEN forfeited \cup PayloadOf(id) ELSE forfeited
  BY DEF DeadLetter
<1>3. HeadState' = HeadState /\ forfeited \subseteq forfeited' /\ dlq \subseteq dlq'
  BY <1>1, <1>2 DEF HeadState
<1>4. \A x \in JobIds : x # id /\ KeySafe(x) => KeySafe(x)'
  BY <1>1 DEF KeySafe
<1>5. ASSUME NEW x \in JobIds, x = id PROVE Covered(x)'
  <2>1. CASE found /\ Inlineable(id)
    <3>1. PICK d : d = [id |-> id, has |-> found /\ Inlineable(id)]
      OBVIOUS
    <3>a. d \in dlq' /\ d.has /\ d.id = x
      BY <1>2, <1>5, <2>1, <3>1
    <3>2. x.state \subseteq Embedded(x.win)'
      BY <3>a, EmbeddedFacts, JobIdFacts
    <3> QED BY <3>2 DEF Covered, SafeFrom
  <2>2. CASE ~(found /\ Inlineable(id)) /\ (w \in raw \/ id \in keys)
    BY <1>2, <1>5, <2>2, JobIdFacts DEF Covered, SafeFrom
  <2>3. CASE w \notin raw /\ id \notin keys
    <3>1. Covered(x)
      BY <1>0, <1>5, <2>3 DEF Ledger, RunsCovered, Held, KeySafe
    <3>2. \A y \in JobIds : y # x /\ Held(y) => Held(y)'
      BY <1>1, <1>4, <1>5 DEF Held
    <3> QED BY <1>3, <3>1, <3>2, CoveredKept
  <2> QED BY <2>1, <2>2, <2>3
<1>6. \A x \in JobIds, a \in Actors : <<x, a>> \in dels' => <<x, a>> \in dels \/ x = id
  BY <1>1
<1>7. \A v \in Workers : \/ pc'[v] = pc[v] /\ cur'[v] = cur[v]
                         \/ v = w /\ pc'[v] = "rethrow" /\ cur'[v] = id
  BY <1>1
<1>8. \A q \in Producers : pc'[q] = pc[q] /\ cur'[q] = cur[q]
  BY <1>1
<1> HIDE DEF id
<1> QED BY <1>0, <1>1, <1>3, <1>4, <1>5, <1>6, <1>7, <1>8, LedgerFrame DEF id

\* Steps of the queue between the handlers.
LEMMA LedgerQueue ==
  ASSUME TypeOK, TypeOK', Ledger, NEW id \in JobIds,
         \/ Promote(id) \/ RedeliverStalled(id) \/ FailStalled(id) \/ EvictJob(id)
  PROVE  Ledger'
<1> USE CastAssumption DEF TypeOK, Actors, Savers, Producers, table
<1>1. /\ UNCHANGED <<rows, keys, dels, dlq, pc, cur, accepted>>
      /\ forfeited \subseteq forfeited'
      /\ \A x \in JobIds \ {id} : job'[x] = job[x]
  BY DEF Promote, RedeliverStalled, FailStalled, EvictJob, Moved, ledger
<1>2. HeadState' = HeadState
  BY <1>1 DEF HeadState
<1>3. \A x \in JobIds : KeySafe(x)' <=> KeySafe(x)
  BY <1>1 DEF KeySafe
<1>4. \/ job[id].st \in Pending /\ job'[id].st \in Pending
      \/ Covered(id)'
      \/ job[id].st \notin Pending /\ job'[id].st = "none"
  <2>1. CASE Promote(id) \/ RedeliverStalled(id)
    BY <2>1 DEF Promote, RedeliverStalled, LockLapsed, Moved, Pending
  <2>2. CASE FailStalled(id)
    BY <2>2, JobIdFacts DEF FailStalled, Covered, SafeFrom
  <2>3. CASE EvictJob(id)
    BY <2>3 DEF EvictJob, NoJob, Pending
  <2> QED BY <2>1, <2>2, <2>3
<1>5. \A x \in JobIds :
        /\ job[x].st \in Pending => job'[x].st \in Pending \/ Covered(x)'
        /\ job'[x].st \in {"completed", "failed"} => job'[x].st = job[x].st \/ Covered(x)'
        /\ job'[x].st \in Pending => job[x].st \in Pending \/ Covered(x)'
  BY <1>1, <1>4 DEF Pending
<1> QED BY <1>1, <1>2, <1>3, <1>5, LedgerFrame

\* A key that goes missing was no longer safe, or its payload is given up.
LEMMA LedgerKeys ==
  ASSUME TypeOK, TypeOK', Ledger,
         (\E d \in dels : ApplyDel(d)) \/ (\E id \in JobIds : LoseKey(id))
  PROVE  Ledger'
<1> USE DEF TypeOK, table, ledger, Producers
<1>1. /\ UNCHANGED <<rows, job, dlq, pc, cur, accepted>>
      /\ forfeited \subseteq forfeited' /\ dels' \subseteq dels
  BY DEF ApplyDel, LoseKey
<1>2. HeadState' = HeadState
  BY <1>1 DEF HeadState
<1>3. ASSUME NEW x \in JobIds, KeySafe(x) PROVE KeySafe(x)' \/ Covered(x)'
  <2>1. ASSUME NEW d \in dels, ApplyDel(d) PROVE KeySafe(x)'
    <3>1. d[1] # x
      BY <1>3 DEF KeySafe
    <3> QED BY <1>3, <2>1, <3>1 DEF KeySafe, ApplyDel
  <2>2. ASSUME NEW id \in JobIds, LoseKey(id) PROVE KeySafe(x)' \/ Covered(x)'
    <3>1. CASE x = id
      BY <2>2, <3>1, JobIdFacts DEF LoseKey, Covered, SafeFrom
    <3>2. CASE x # id
      BY <1>3, <2>2, <3>2 DEF LoseKey, KeySafe
    <3> QED BY <3>1, <3>2
  <2> QED BY <2>1, <2>2
<1> QED BY <1>1, <1>2, <1>3, LedgerFrame

\* A step that gives something up and moves nothing else the ledger looks at.
LEMMA LedgerGivesUp ==
  ASSUME TypeOK, TypeOK', CurOK, Ledger,
         Purge \/ (\E w \in Workers : DeadLetterFails(w)) \/ (\E d \in todo : DrainDrops(d))
  PROVE  Ledger'
<1> USE CastAssumption DEF TypeOK, Actors, Savers, Producers, table, queue
<1>1. CASE Purge
  <2>1. UNCHANGED <<keys, dels, job, dlq, cur, accepted>> /\ forfeited' = Edits
    BY <1>1 DEF Purge
  <2>2. \A x \in JobIds : Covered(x)'
    BY <2>1, JobIdFacts DEF Covered, SafeFrom
  <2>3. HeadState \subseteq forfeited' /\ forfeited \subseteq forfeited'
    BY <2>1, ElementOfSeq DEF HeadState
  <2>4. \A d \in dlq : d \in dlq'
    BY <2>1
  <2>5. accepted' \subseteq accepted \cup SafeFrom(0)'
    BY <2>1
  <2> QED BY <2>2, <2>3, <2>4, <2>5, LedgerFrame
<1>2. ASSUME NEW w \in Workers, DeadLetterFails(w) PROVE Ledger'
  <2>1. /\ UNCHANGED <<rows, keys, dels, job, dlq, cur, accepted>>
        /\ forfeited' = forfeited \cup PayloadOf(cur[w])
        /\ pc[w] = "failed" /\ pc' = [pc EXCEPT ![w] = "rethrow"]
    BY <1>2 DEF DeadLetterFails
  <2>2. ASSUME NEW x \in JobIds, x = cur[w] PROVE Covered(x)'
    BY <2>1, <2>2, JobIdFacts DEF Covered, SafeFrom
  <2>3. HeadState' = HeadState
    BY <2>1 DEF HeadState
  <2>4. \A x \in JobIds : KeySafe(x)' <=> KeySafe(x)
    BY <2>1 DEF KeySafe
  <2> QED BY <2>1, <2>2, <2>3, <2>4, LedgerFrame
<1>3. ASSUME NEW d \in todo, DrainDrops(d) PROVE Ledger'
  <2>1. /\ UNCHANGED <<rows, keys, dels, job, pc, cur, accepted>>
        /\ dlq' = dlq \ {d}
        /\ forfeited' = IF d.has THEN forfeited \cup d.id.state ELSE forfeited
    BY <1>3 DEF DrainDrops
  <2>2. HeadState' = HeadState
    BY <2>1 DEF HeadState
  <2>3. \A x \in JobIds : KeySafe(x)' <=> KeySafe(x)
    BY <2>1 DEF KeySafe
  <2>4. \A y \in dlq : y.has => y \in dlq' \/ y.id.state \subseteq SafeFrom(y.id.win)'
    BY <2>1 DEF SafeFrom
  <2> QED BY <2>1, <2>2, <2>3, <2>4, LedgerFrame
<1> QED BY <1>1, <1>2, <1>3

\* A dead letter that goes is vouched for by the job of a later window that was
\* queued for it, or by what made that job unnecessary.
LEMMA ReplayVouched ==
  ASSUME TypeOK, TypeOK', CurOK, DrainOK, Ledger, ReplayedRemoved,
         NEW d \in DeadLetters, d = entry
  PROVE  d.id.state \subseteq SafeFrom(d.id.win)'
<1>a. PICK id \in JobIds : id = cur[Operator]
  BY DEF CurOK, ReplayedRemoved
<1>0. id.state = d.id.state /\ d.id.win < id.win /\ pc[Operator] = "remove"
  BY <1>a DEF DrainOK, ReplayedRemoved
<1>1. UNCHANGED <<rows, keys, dels, job, forfeited>> /\ dlq' = dlq \ {d}
  BY DEF ReplayedRemoved, table, ledger
<1>2. HeadState' = HeadState
  BY <1>1 DEF HeadState
<1>3. \A x \in JobIds : Held(x)' <=> Held(x)
  BY <1>1 DEF KeySafe, Held
<1>4. d.id.win \in Nat /\ id.win \in Nat
  BY JobIdFacts DEF DeadLetters
<1>5. CASE Held(id)
  BY <1>0, <1>3, <1>5, CarriedFacts DEF SafeFrom
<1>6. CASE Covered(id)
  <2>1. \A y \in dlq : y.has /\ y.id.win >= id.win => y \in dlq'
    BY <1>0, <1>1, <1>4
  <2>2. Covered(id)'
    BY <1>1, <1>2, <1>3, <1>6, <2>1, CoveredKept
  <2>3. SafeFrom(id.win)' \subseteq SafeFrom(d.id.win)'
    BY <1>0, <1>4, SafeFromAntitone
  <2> QED BY <1>0, <2>2, <2>3 DEF Covered
<1> QED BY <1>a, <1>0, <1>5, <1>6 DEF Ledger, ReplayCovered

\* Removing it keeps the ledger.
LEMMA LedgerReplayed ==
  ASSUME TypeOK, TypeOK', CurOK, DrainOK, Ledger, ReplayedRemoved
  PROVE  Ledger'
<1> USE CastAssumption DEF TypeOK, Actors, Savers, Producers, table
<1>1. /\ UNCHANGED <<rows, keys, dels, job, accepted, forfeited>>
      /\ dlq' = dlq \ {entry}
      /\ pc' = [pc EXCEPT ![Operator] = "drain"]
      /\ cur' = [cur EXCEPT ![Operator] = None]
  BY DEF ReplayedRemoved, ledger
<1>2. HeadState' = HeadState
  BY <1>1 DEF HeadState
<1>3. \A x \in JobIds : KeySafe(x)' <=> KeySafe(x)
  BY <1>1 DEF KeySafe
<1>4. \A y \in dlq : y.has => y \in dlq' \/ y.id.state \subseteq SafeFrom(y.id.win)'
  <2> SUFFICES ASSUME NEW y \in dlq, y = entry PROVE y.id.state \subseteq SafeFrom(y.id.win)'
    BY <1>1
  <2>1. y \in DeadLetters
    OBVIOUS
  <2> QED BY <2>1, ReplayVouched
<1>5. /\ \A w \in Workers : pc'[w] = pc[w] /\ cur'[w] = cur[w]
      /\ \A p \in Producers : pc'[p] = "add" => pc[p] = "add" /\ cur'[p] = cur[p]
      /\ pc'[Operator] # "remove"
  BY <1>1
<1> QED BY <1>1, <1>2, <1>3, <1>4, <1>5, LedgerFrame

\* Every step of the pipeline keeps the ledger.
LEMMA LedgerStep == ASSUME Control, Control', Ledger, Next PROVE Ledger'
<1> USE CastAssumption DEF Control, TypeOK, Actors, Savers, Producers
<1>1. ASSUME NEW i \in Instances, Flush(i) PROVE Ledger'
  <2>1. PICK id \in JobIds : id = [state |-> live[i], win |-> now]
    BY <1>1 DEF Flush, IsDraft, JobIds
  <2>2. SetStateKey(i, id, "select")
    BY <1>1, <2>1 DEF Flush
  <2> QED BY <1>1, <2>2, LedgerSet DEF Flush, table
<1>2. ASSUME NEW i \in Instances, AddJob(i) PROVE Ledger'
  <2>1. PICK id \in JobIds : id = cur[i]
    BY <1>2 DEF AddJob, CurOK
  <2> QED BY <1>2, <2>1, LedgerAdd, JobIdFacts DEF AddJob, table
<1>3. ASSUME NEW i \in Instances, AddJobFails(i) PROVE Ledger'
  <2>1. PICK id \in JobIds : id = cur[i]
    BY <1>3 DEF AddJobFails, Withdraw, CurOK
  <2> QED BY <1>3, <2>1, LedgerWithdraw DEF AddJobFails, table
<1>4. ASSUME NEW i \in Instances, FallbackCommits(i) PROVE Ledger'
  <2>1. /\ AppendRow(i) /\ UNCHANGED <<queue, forfeited>>
        /\ accepted' \in {accepted, accepted \cup PayloadOf(cur[i])}
        /\ pc' = [pc EXCEPT ![i] = "idle"] /\ cur' = [cur EXCEPT ![i] = None]
    BY <1>4 DEF FallbackCommits
  <2>2. \A w \in Workers : pc'[w] = pc[w] /\ cur'[w] = cur[w]
    BY <2>1
  <2>3. \A p \in Producers : (pc'[p] = pc[p] /\ cur'[p] = cur[p]) \/ pc'[p] = "idle"
    BY <2>1
  <2> QED BY <2>1, <2>2, <2>3, LedgerAppend
<1>5. ASSUME NEW w \in Workers, WorkerCommits(w) PROVE Ledger'
  <2>1. AppendRow(w) /\ UNCHANGED <<queue, forfeited, accepted, cur>>
    BY <1>5 DEF WorkerCommits, ledger
  <2>2. \E place \in {"saved", "failed"} : pc' = [pc EXCEPT ![w] = place]
    BY <1>5 DEF WorkerCommits
  <2>3. \A v \in Workers : \/ pc'[v] = pc[v] /\ cur'[v] = cur[v]
                           \/ v = w /\ pc'[v] \in {"saved", "failed"} /\ cur'[v] = cur[v]
    BY <2>1, <2>2
  <2>4. \A p \in Producers : pc'[p] = pc[p] /\ cur'[p] = cur[p]
    BY <2>1, <2>2
  <2> QED BY <2>1, <2>3, <2>4, LedgerAppend
<1>6. ASSUME NEW w \in Workers, NEW id \in JobIds, Take(w, id) PROVE Ledger'
  BY <1>6, LedgerTake
<1>7. ASSUME NEW w \in Workers, ReleaseKey(w) PROVE Ledger'
  BY <1>7, LedgerRelease
<1>8. ASSUME NEW w \in Workers, Complete(w) PROVE Ledger'
  <2>1. Covered(cur[w])
    BY <1>8 DEF Complete, CurOK, Ledger, DoneCovered
  <2> QED BY <1>8, <2>1, LedgerSettle DEF Complete, JobStates, Pending
<1>9. ASSUME NEW w \in Workers, NEW st \in Pending, NEW made, pc[w] # "idle", Settle(w, st, made)
      PROVE Ledger'
  <2>1. job[cur[w]].owner = w => job[cur[w]].st \in Pending
    BY <1>9 DEF CurOK, OwnerOK, Pending
  <2> QED BY <1>9, <2>1, LedgerSettle DEF JobStates, Pending
<1>10. ASSUME NEW w \in Workers, Retry(w) \/ CrashWorker(w) PROVE Ledger'
  BY <1>9, <1>10 DEF Retry, CrashWorker, Pending
<1>11. ASSUME NEW w \in Workers, DeadLetter(w) PROVE Ledger'
  BY <1>11, LedgerDeadLetter
<1>12. ASSUME NEW w \in Workers, Rethrow(w) PROVE Ledger'
  <2>1. Covered(cur[w])
    BY <1>12 DEF Rethrow, CurOK, Ledger, DoneCovered
  <2> QED BY <1>12, <2>1, LedgerSettle DEF Rethrow, JobStates, Pending
<1>13. ASSUME NEW id \in JobIds, QueueStep(id) \/ EvictJob(id) PROVE Ledger'
  BY <1>13, LedgerQueue DEF QueueStep
<1>14. ASSUME NEW d \in todo, DrainReplays(d) PROVE Ledger'
  <2>1. PICK id \in JobIds : id = [state |-> d.id.state, win |-> now]
    BY DEF DeadLetters, JobIds
  <2>2. SetStateKey(Operator, id, "idle")
    BY <1>14, <2>1 DEF DrainReplays
  <2> QED BY <1>14, <2>2, LedgerSet DEF DrainReplays, table
<1>15. CASE ReplayQueued
  <2>1. PICK id \in JobIds : id = cur[Operator]
    BY <1>15 DEF ReplayQueued, CurOK
  <2> QED BY <1>15, <2>1, LedgerAdd DEF ReplayQueued, table, ledger
<1>16. CASE ReplayFails
  <2>1. PICK id \in JobIds : id = cur[Operator]
    BY <1>16 DEF ReplayFails, Withdraw, CurOK
  <2> QED BY <1>16, <2>1, LedgerWithdraw DEF ReplayFails, table
<1>17. CASE ReplayedRemoved
  BY <1>17, LedgerReplayed
<1>18. CASE \/ Purge \/ (\E w \in Workers : DeadLetterFails(w)) \/ (\E d \in todo : DrainDrops(d))
  BY <1>18, LedgerGivesUp
<1>19. CASE (\E d \in dels : ApplyDel(d)) \/ (\E id \in JobIds : LoseKey(id))
  BY <1>19, LedgerKeys
<1>20. CASE
    \/ \E i \in Instances : \/ RestartInstance(i) \/ SelectHead(i) \/ LockGranted(i)
                           \/ FallbackRetries(i) \/ FallbackDrops(i)
                           \/ \E e \in Edits : EditArrives(i, e)
    \/ \E w \in Workers : \/ Resolve(w) \/ SelectHead(w) \/ LockGranted(w) \/ WorkerTxFails(w)
    \/ DrainStarts \/ DrainEnds \/ DrainDies \/ \E d \in todo : DrainLeaves(d)
    \/ Tick \/ Anchor \/ Trash \/ Restore \/ SealRooms \/ UnsealRooms
  BY <1>20, LedgerQuietSteps
<1> QED
  BY <1>1, <1>2, <1>3, <1>4, <1>5, <1>6, <1>7, <1>8, <1>10, <1>11, <1>12, <1>13, <1>14, <1>15,
     <1>16, <1>17, <1>18, <1>19, <1>20
     DEF Next, InstanceStep, WorkerStep, OperatorStep, Environment

\* In every reachable state every payload the pipeline still answers for is where
\* Ledger says, or covered by what is newer than it.
THEOREM LedgerInvariant == Spec => []Ledger
<1>1. Init => Ledger
  <2> SUFFICES ASSUME Init PROVE Ledger
    OBVIOUS
  <2>1. \A w \in Workers : pc[w] = "idle"
    BY DEF Init, Actors, Savers
  <2>2. \A p \in Producers : pc[p] = "idle"
    BY DEF Init, Actors, Savers, Producers
  <2>3. \A id \in JobIds : job[id].st = "none"
    BY DEF Init, NoJob
  <2> QED BY <2>1, <2>2, <2>3
          DEF Init, Ledger, DoneCovered, DelsCovered, JobsCovered, RunsCovered, AddsCovered,
              ReplayCovered, NoSilentLoss, Pending, Producers
<1>2. Control /\ Control' /\ Ledger /\ [Next]_vars => Ledger'
  <2>1. ASSUME Control, Control', Ledger, UNCHANGED vars PROVE Ledger'
    BY <2>1, LedgerQuiet DEF Control, vars, queue, ledger
  <2> QED BY <2>1, LedgerStep
<1> QED BY <1>1, <1>2, ControlInvariant, PTL DEF Spec

\* Whatever crashes, stalls, retries, lost keys and drains happen, an edit whose
\* save was accepted is stored, recoverable, or given up by name: see NoSilentLoss.
THEOREM NothingLostInSilence == Spec => []NoSilentLoss
BY LedgerInvariant, PTL DEF Ledger

----------------------------------------------------------------------------
(* The pipeline implements the abstract promise of DurableSaves.             *)

\* What a step may do to the rows, to what was accepted and to what was given up.
LEMMA StepKinds ==
  ASSUME TypeOK, Next
  PROVE  \/ Purge
         \/ \E s \in Savers : /\ AppendRow(s)
                              /\ UNCHANGED <<queue, forfeited>>
                              /\ accepted' \in {accepted, accepted \cup PayloadOf(cur[s])}
         \/ \E i \in Instances : AddJob(i)
         \/ UNCHANGED <<rows, accepted>> /\ forfeited \subseteq forfeited'
<1> DEFINE Quiet == UNCHANGED <<rows, accepted>> /\ forfeited \subseteq forfeited'
<1> USE DEF Savers, table, ledger
<1>1. ASSUME NEW i \in Instances, FallbackCommits(i)
      PROVE  /\ AppendRow(i) /\ UNCHANGED <<queue, forfeited>>
             /\ accepted' \in {accepted, accepted \cup PayloadOf(cur[i])}
  BY <1>1 DEF FallbackCommits
<1>2. ASSUME NEW i \in Instances,
             \/ Flush(i) \/ AddJobFails(i) \/ SelectHead(i) \/ LockGranted(i)
             \/ FallbackRetries(i) \/ FallbackDrops(i)
      PROVE  Quiet
  BY <1>2 DEF Flush, AddJobFails, Withdraw, SelectHead, LockGranted, FallbackRetries,
       FallbackDrops
<1>3. ASSUME NEW w \in Workers, WorkerCommits(w)
      PROVE  /\ AppendRow(w) /\ UNCHANGED <<queue, forfeited>>
             /\ accepted' \in {accepted, accepted \cup PayloadOf(cur[w])}
  BY <1>3 DEF WorkerCommits
<1>4. ASSUME NEW w \in Workers,
             \/ Resolve(w) \/ SelectHead(w) \/ LockGranted(w) \/ WorkerTxFails(w)
             \/ ReleaseKey(w) \/ Complete(w) \/ Retry(w) \/ DeadLetter(w)
             \/ DeadLetterFails(w) \/ Rethrow(w) \/ CrashWorker(w)
             \/ \E id \in JobIds : Take(w, id)
      PROVE  Quiet
  BY <1>4 DEF Resolve, SelectHead, LockGranted, WorkerTxFails, ReleaseKey, Complete, Retry,
       DeadLetter, DeadLetterFails, Rethrow, CrashWorker, Settle, Take
<1>5. ASSUME NEW id \in JobIds, QueueStep(id) \/ EvictJob(id) \/ LoseKey(id) PROVE Quiet
  BY <1>5 DEF QueueStep, Promote, RedeliverStalled, FailStalled, EvictJob, LoseKey
<1>6. ASSUME OperatorStep \/ DrainDies PROVE Quiet
  BY <1>6 DEF OperatorStep, DrainStarts, DrainReplays, ReplayQueued, ReplayFails, Withdraw,
       ReplayedRemoved, DrainDrops, DrainLeaves, DrainEnds, DrainDies
<1>7. ASSUME \/ \E i \in Instances : RestartInstance(i) \/ \E e \in Edits : EditArrives(i, e)
             \/ \E d \in dels : ApplyDel(d)
             \/ Tick \/ Anchor \/ Trash \/ Restore \/ SealRooms \/ UnsealRooms
      PROVE  Quiet
  BY <1>7 DEF RestartInstance, EditArrives, ApplyDel, Tick, Anchor, Trash, Restore, SealRooms,
         UnsealRooms, outside
<1> HIDE DEF Quiet
<1>8. \/ Purge
      \/ \E i \in Instances : AddJob(i) \/ FallbackCommits(i)
      \/ \E w \in Workers : WorkerCommits(w)
      \/ Quiet
  BY <1>2, <1>4, <1>5, <1>6, <1>7 DEF Next, InstanceStep, WorkerStep, Environment
<1> QED BY <1>1, <1>3, <1>8 DEF Quiet

\* Only a finished job is forgotten.
LEMMA PendingStays ==
  ASSUME TypeOK, CurOK, Next, NEW x \in JobIds, job[x].st \in Pending
  PROVE  job'[x].st # "none"
<1> USE DEF TypeOK, Pending
<1>1. ASSUME NEW i \in Instances, Flush(i) \/ InstanceStep(i) PROVE job'[x].st # "none"
  BY <1>1 DEF Flush, InstanceStep, AddJob, AddJobFails, Withdraw, Added, FreshJob, SelectHead,
       LockGranted, FallbackCommits, FallbackRetries, FallbackDrops, queue
<1>2. ASSUME NEW w \in Workers, WorkerStep(w) \/ CrashWorker(w) PROVE job'[x].st # "none"
  <2>1. ASSUME NEW st \in JobStates \ {"none"}, NEW made, Settle(w, st, made)
        PROVE  job'[x].st # "none"
    BY <2>1 DEF Settle, JobStates
  <2>2. CASE Complete(w) \/ Retry(w) \/ Rethrow(w) \/ CrashWorker(w)
    BY <2>1, <2>2 DEF Complete, Retry, Rethrow, CrashWorker, JobStates
  <2>3. CASE ~(Complete(w) \/ Retry(w) \/ Rethrow(w) \/ CrashWorker(w))
    BY <1>2, <2>3 DEF WorkerStep, Resolve, SelectHead, LockGranted, WorkerCommits,
         WorkerTxFails, ReleaseKey, DeadLetter, DeadLetterFails, queue
  <2> QED BY <2>2, <2>3
<1>3. ASSUME NEW id \in JobIds,
             QueueStep(id) \/ EvictJob(id) \/ LoseKey(id) \/ \E w \in Workers : Take(w, id)
      PROVE  job'[x].st # "none"
  BY <1>3 DEF QueueStep, Promote, RedeliverStalled, FailStalled, EvictJob, LoseKey, Take, Moved
<1>4. ASSUME OperatorStep \/ DrainDies PROVE job'[x].st # "none"
  BY <1>4 DEF OperatorStep, DrainStarts, DrainReplays, ReplayQueued, ReplayFails, Withdraw,
       Added, FreshJob, ReplayedRemoved, DrainDrops, DrainLeaves, DrainEnds, DrainDies, queue
<1>5. ASSUME \/ \E i \in Instances : RestartInstance(i) \/ \E e \in Edits : EditArrives(i, e)
             \/ \E d \in dels : ApplyDel(d)
             \/ Tick \/ Anchor \/ Trash \/ Restore \/ SealRooms \/ UnsealRooms \/ Purge
      PROVE  job'[x].st # "none"
  BY <1>5 DEF RestartInstance, EditArrives, ApplyDel, Tick, Anchor, Trash, Restore, SealRooms,
         UnsealRooms, outside,
       Purge, queue
<1> QED BY <1>1, <1>2, <1>3, <1>4, <1>5 DEF Next, Environment

\* A dead letter goes only when it is given up, or its replacement vouches for it.
LEMMA LettersStay ==
  ASSUME Control, Control', Ledger, Next, NEW d \in dlq, d.has
  PROVE  d \in dlq' \/ d.id.state \subseteq SafeFrom(d.id.win)'
<1> USE DEF Control, TypeOK
<1>1. ASSUME NEW i \in Instances, Flush(i) \/ InstanceStep(i) PROVE d \in dlq'
  BY <1>1 DEF Flush, InstanceStep, AddJob, AddJobFails, SelectHead, LockGranted,
       FallbackCommits, FallbackRetries, FallbackDrops, queue
<1>2. ASSUME NEW w \in Workers, WorkerStep(w) \/ CrashWorker(w) \/ \E id \in JobIds : Take(w, id)
      PROVE  d \in dlq'
  BY <1>2 DEF WorkerStep, Resolve, SelectHead, LockGranted, WorkerCommits, WorkerTxFails,
       ReleaseKey, Complete, Retry, DeadLetter, DeadLetterFails, Rethrow, CrashWorker, Settle,
       Take, queue
<1>3. ASSUME NEW id \in JobIds, QueueStep(id) \/ EvictJob(id) \/ LoseKey(id) PROVE d \in dlq'
  BY <1>3 DEF QueueStep, Promote, RedeliverStalled, FailStalled, EvictJob, LoseKey
<1>4. ASSUME NEW x \in todo, DrainDrops(x) PROVE d \in dlq' \/ d.id.state \subseteq SafeFrom(d.id.win)'
  BY <1>4 DEF DrainDrops, SafeFrom
<1>5. CASE ReplayedRemoved
  <2>1. d \in DeadLetters
    OBVIOUS
  <2>2. d = entry => d.id.state \subseteq SafeFrom(d.id.win)'
    BY <1>5, <2>1, ReplayVouched
  <2>3. d # entry => d \in dlq'
    BY <1>5 DEF ReplayedRemoved
  <2> QED BY <2>2, <2>3
<1>6. ASSUME \/ DrainStarts \/ ReplayQueued \/ ReplayFails \/ DrainEnds \/ DrainDies
             \/ \E x \in todo : DrainReplays(x) \/ DrainLeaves(x)
      PROVE  d \in dlq'
  BY <1>6 DEF DrainStarts, DrainReplays, ReplayQueued, ReplayFails, DrainLeaves, DrainEnds,
       DrainDies, queue
<1>7. ASSUME \/ \E i \in Instances : RestartInstance(i) \/ \E e \in Edits : EditArrives(i, e)
             \/ \E x \in dels : ApplyDel(x)
             \/ Tick \/ Anchor \/ Trash \/ Restore \/ SealRooms \/ UnsealRooms \/ Purge
      PROVE  d \in dlq'
  BY <1>7 DEF RestartInstance, EditArrives, ApplyDel, Tick, Anchor, Trash, Restore, SealRooms,
         UnsealRooms, outside,
       Purge, queue
<1> QED BY <1>1, <1>2, <1>3, <1>4, <1>5, <1>6, <1>7 DEF Next, OperatorStep, Environment

\* What is stored, in flight or given up stays so, at every step but a purge.
LEMMA SafeStays ==
  ASSUME Control, Control', Ledger, Ledger', Next, rows' = rows, forfeited \subseteq forfeited'
  PROVE  SafeFrom(0) \subseteq SafeFrom(0)'
<1>1. ASSUME NEW x \in JobIds, Held(x) PROVE Held(x)' \/ x.state \subseteq SafeFrom(x.win)'
  <2>1. job'[x].st # "none"
    BY <1>1, PendingStays DEF Control, Held
  <2>2. job'[x].st \in JobStates
    BY DEF Control, TypeOK, Jobs
  <2>3. CASE job'[x].st \in Pending
    BY <2>3 DEF Ledger, JobsCovered, Held, Covered
  <2>4. CASE job'[x].st \in {"completed", "failed"}
    BY <2>4 DEF Ledger, JobsCovered, Covered
  <2> QED BY <2>1, <2>2, <2>3, <2>4 DEF JobStates, Pending
<1>2. HeadState' = HeadState
  BY DEF HeadState
<1> QED BY <1>1, <1>2, LettersStay, SafeFromKept DEF Control

\* What the queues carry are operations of the document.
LEMMA InFlightTyped ==
  ASSUME TypeOK, TypeOK' PROVE InFlight \subseteq Edits /\ InFlight' \subseteq Edits
<1>1. Embedded(0) \subseteq Edits /\ Embedded(0)' \subseteq Edits
  BY JobIdFacts, EmbeddedFacts DEF TypeOK, DeadLetters
<1>2. Carried(0) \subseteq Edits /\ Carried(0)' \subseteq Edits
  BY JobIdFacts, CarriedFacts
<1> QED BY <1>1, <1>2 DEF InFlight

\* Queue.add lets go of nothing that was in flight.
LEMMA AddKeepsInFlight ==
  ASSUME TypeOK, NEW i \in Instances, AddJob(i) PROVE InFlight \subseteq InFlight'
<1>1. dlq' = dlq /\ keys' = keys /\ dels' = dels
  BY DEF AddJob
<1>2. ASSUME NEW x \in JobIds, Held(x) PROVE Held(x)'
  <2>1. job'[x] = job[x]
    BY <1>2 DEF AddJob, Added, Held, Pending, TypeOK
  <2> QED BY <1>1, <1>2, <2>1 DEF Held, KeySafe
<1>3. Carried(0) \subseteq Carried(0)'
  BY <1>2, CarriedFacts
<1>4. Embedded(0)' = Embedded(0)
  BY <1>1 DEF Embedded
<1> QED BY <1>3, <1>4 DEF InFlight

\* Every step of the pipeline is one of the abstract promise, or changes nothing of it.
LEMMA DurableStep ==
  ASSUME Control, Control', Ledger, Ledger', Next
  PROVE  [Durable!DurableNext]_(Durable!durable)
<1>1. Durable!Newest = HeadState /\ Durable!Newest' = HeadState'
  BY DEF Durable!Newest, HeadState
<1>2. InFlight \subseteq Edits /\ InFlight' \subseteq Edits
  BY InFlightTyped DEF Control
<1>3. SafeFrom(0) = HeadState \cup forfeited \cup InFlight
  BY DEF SafeFrom, InFlight
<1>4. SafeFrom(0)' = HeadState' \cup forfeited' \cup InFlight'
  BY DEF SafeFrom, InFlight
<1>5. CASE Purge
  <2>1. Durable!Destroy
    <3>1. InFlight' = InFlight
      BY <1>5 DEF Purge, queue, InFlight, Embedded, Carried, Held, KeySafe
    <3> QED BY <1>5, <3>1 DEF Purge, Durable!Destroy
  <2> QED BY <2>1 DEF Durable!DurableNext
<1>6. ASSUME NEW s \in Savers, AppendRow(s), UNCHANGED <<queue, forfeited>>,
             accepted' \in {accepted, accepted \cup PayloadOf(cur[s])}
      PROVE  Durable!DurableNext
  <2>1. InFlight' = InFlight
    BY <1>6 DEF queue, InFlight, Embedded, Carried, Held, KeySafe
  <2>2. Merged(s) = HeadState \cup PayloadOf(cur[s])
    <3>1. base[s] = Len(rows)
      BY <1>6 DEF AppendRow, Collides, Control, BaseOK, TypeOK
    <3> QED BY <3>1 DEF Merged, HeadState, Control, TypeOK
  <2>3. PayloadOf(cur[s]) \in SUBSET Edits
    BY <1>6, JobIdFacts DEF AppendRow, Control, CurOK
  <2>4. PICK P \in {{}, PayloadOf(cur[s])} : accepted' = accepted \cup P
    BY <1>6
  <2>5. Durable!Store(PayloadOf(cur[s]), P)
    BY <1>1, <1>6, <2>1, <2>2, <2>4 DEF AppendRow, Durable!Store
  <2> QED BY <2>3, <2>4, <2>5 DEF Durable!DurableNext
<1>7. ASSUME NEW i \in Instances, AddJob(i) PROVE Durable!DurableNext
  <2> DEFINE P == PayloadOf(cur[i])
  <2>1. accepted' = accepted \cup P /\ UNCHANGED <<rows, forfeited>>
    BY <1>7 DEF AddJob, table
  <2>2. HeadState' = HeadState
    BY <2>1 DEF HeadState
  <2>3. P \subseteq HeadState \cup InFlight' \cup forfeited
    BY <1>4, <2>1, <2>2 DEF Ledger, NoSilentLoss
  <2>4. InFlight \subseteq InFlight'
    BY <1>7, AddKeepsInFlight DEF Control
  <2>5. P \in SUBSET Edits
    BY <2>1 DEF Control, TypeOK
  <2> HIDE DEF P
  <2>6. Durable!Accept(P)
    BY <1>1, <2>1, <2>3, <2>4 DEF Durable!Accept
  <2> QED BY <1>2, <2>5, <2>6 DEF Durable!DurableNext
<1>8. CASE UNCHANGED <<rows, accepted>> /\ forfeited \subseteq forfeited'
  <2>1. HeadState' = HeadState
    BY <1>8 DEF HeadState
  <2>2. InFlight \subseteq HeadState \cup InFlight' \cup forfeited'
    BY <1>3, <1>4, <1>8, <2>1, SafeStays
  <2>3. forfeited' \in SUBSET Edits
    BY DEF Control, TypeOK
  <2>4. Durable!Release(forfeited')
    BY <1>1, <1>8, <2>2 DEF Durable!Release
  <2> QED BY <1>2, <2>3, <2>4 DEF Durable!DurableNext
<1> QED BY <1>5, <1>6, <1>7, <1>8, StepKinds DEF Control

\* Queues, retries, crashes, dead letters and fallbacks together behave as the
\* abstract promise: see ImplementsDurableSaves.
THEOREM PromiseIsImplemented == Spec => ImplementsDurableSaves
<1>1. Init => Durable!DurableInit
  <2> SUFFICES ASSUME Init PROVE Durable!DurableInit
    OBVIOUS
  <2>1. \A x \in JobIds : ~Held(x)
    BY DEF Init, NoJob, Held, Pending
  <2>2. Carried(0) = {} /\ Embedded(0) = {}
    BY <2>1, CarriedFacts, EmbeddedFacts DEF Init
  <2> QED BY <2>2 DEF Init, InFlight, Durable!DurableInit
<1>2. Control /\ Control' /\ Ledger /\ Ledger' /\ [Next]_vars
        => [Durable!DurableNext]_(Durable!durable)
  <2> SUFFICES ASSUME Control, Control', Ledger, Ledger', [Next]_vars
               PROVE  [Durable!DurableNext]_(Durable!durable)
    OBVIOUS
  <2>1. CASE UNCHANGED vars
    <3>1. InFlight' = InFlight
      BY <2>1 DEF vars, InFlight, Embedded, Carried, Held, KeySafe
    <3> QED BY <2>1, <3>1 DEF vars, Durable!durable
  <2> QED BY <2>1, DurableStep
<1> QED
  BY <1>1, <1>2, ControlInvariant, LedgerInvariant, PTL
     DEF Spec, ImplementsDurableSaves, Durable!DurableSpec

\* Where no metadata row is, only a worker's first save makes a version: see
\* OnlyWorkersRecreate.
THEOREM FallbackNeverRecreates == Spec => OnlyWorkersRecreate
<1>1. ASSUME Control, Next, meta \in {"absent", "purged"}, rows' # rows
      PROVE  \E w \in Workers : pc[w] = "insert" /\ base[w] = 0
  <2>1. ~Purge
    BY <1>1 DEF Purge, Life!Purges, Life!HasRow
  <2>2. PICK s \in Savers : AppendRow(s)
    BY <1>1, <2>1, RowsStep DEF Control
  <2> QED BY <1>1, <2>2 DEF AppendRow, HasMetadata, Life!HasRow
<1>2. Control /\ [Next]_vars =>
        [(meta \in {"absent", "purged"} /\ rows' # rows)
           => (\E w \in Workers : pc[w] = "insert" /\ base[w] = 0)]_vars
  BY <1>1
<1> QED BY <1>2, ControlInvariant, PTL DEF Spec, OnlyWorkersRecreate

----------------------------------------------------------------------------
(* The pipeline and the lifecycle it saves under.                            *)

\* What a save, a commit or a restart does to the document's life is an anchor, or unseals.
LEMMA LifeStep ==
  ASSUME TypeOK, Next PROVE [Life!FactsNext]_(Life!facts)
<1> USE DEF table, room, Life!facts
<1>1. ASSUME NEW s \in Savers, AppendRow(s), UNCHANGED sealed
      PROVE  [Life!FactsNext]_(Life!facts)
  <2>1. CASE Life!HasRow
    BY <1>1, <2>1 DEF AppendRow
  <2>2. CASE ~Life!HasRow
    BY <1>1, <2>2 DEF AppendRow, Life!FactsNext, Life!Anchors
  <2> QED BY <2>1, <2>2
<1>2. ASSUME NEW i \in Instances, Flush(i) \/ InstanceStep(i)
      PROVE  [Life!FactsNext]_(Life!facts)
  <2>1. CASE FallbackCommits(i)
    BY <1>1, <2>1 DEF FallbackCommits, Savers
  <2> QED BY <1>2, <2>1 DEF Flush, InstanceStep, AddJob, AddJobFails, SelectHead, LockGranted,
          FallbackRetries, FallbackDrops
<1>3. ASSUME NEW w \in Workers, WorkerStep(w) \/ CrashWorker(w) \/ \E id \in JobIds : Take(w, id)
      PROVE  [Life!FactsNext]_(Life!facts)
  <2>1. CASE WorkerCommits(w)
    BY <1>1, <2>1 DEF WorkerCommits, Savers
  <2> QED BY <1>3, <2>1 DEF WorkerStep, Resolve, SelectHead, LockGranted, WorkerTxFails,
          ReleaseKey, Complete, Retry, DeadLetter, DeadLetterFails, Rethrow, CrashWorker, Settle,
          Take
<1>4. ASSUME OperatorStep \/ DrainDies PROVE UNCHANGED <<meta, sealed>>
  BY <1>4 DEF OperatorStep, DrainStarts, DrainReplays, ReplayQueued, ReplayFails,
       ReplayedRemoved, DrainDrops, DrainLeaves, DrainEnds, DrainDies
<1>5. ASSUME NEW id \in JobIds, QueueStep(id) \/ EvictJob(id) \/ LoseKey(id)
      PROVE  UNCHANGED <<meta, sealed>>
  BY <1>5 DEF QueueStep, Promote, RedeliverStalled, FailStalled, EvictJob, LoseKey
<1>6. ASSUME \/ \E d \in dels : ApplyDel(d)
             \/ \E i \in Instances, e \in Edits : EditArrives(i, e)
             \/ Tick
      PROVE  UNCHANGED <<meta, sealed>>
  BY <1>6 DEF ApplyDel, EditArrives, Tick
<1>7. ASSUME NEW i \in Instances, RestartInstance(i) PROVE Life!FactsNext
  BY <1>7 DEF RestartInstance, Life!FactsNext, Life!Unseals
<1>8. CASE Anchor \/ Trash \/ Restore \/ SealRooms \/ UnsealRooms \/ Purge
  BY <1>8 DEF Anchor, Trash, Restore, SealRooms, UnsealRooms, Purge, Life!FactsNext
<1> QED
  BY <1>2, <1>3, <1>4, <1>5, <1>6, <1>7, <1>8 DEF Next, Environment

\* Saving a document does to its life what LifecycleFacts says, and nothing else: a version
\* never brings a trashed document back, takes a row away or seals a room.
THEOREM SavesKeepTheWord == Spec => Life!FactsSpec
<1>1. Init => Life!FactsInit
  BY DEF Init, Life!FactsInit, Life!MetaStates
<1>2. TypeOK /\ [Next]_vars => [Life!FactsNext]_(Life!facts)
  BY LifeStep DEF vars, Life!facts
<1> QED BY <1>1, <1>2, TypeInvariant, PTL DEF Spec, Life!FactsSpec

\* With nothing left out of Faults, all that LifecycleFacts lets happen can happen to the
\* pipeline between any two of its steps; only a purge, see Purge, waits for row locks.
LEMMA LifeIsFree ==
  ASSUME {"trash", "purge"} \subseteq Faults, Life!FactsNext, ~Life!Purges,
         UNCHANGED <<rows, outside>>
  PROVE  Next
BY DEF Life!FactsNext, Anchor, Trash, Restore, SealRooms, UnsealRooms, Next, Environment
=============================================================================
