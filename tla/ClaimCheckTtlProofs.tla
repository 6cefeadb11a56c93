------------------------ MODULE ClaimCheckTtlProofs ------------------------
(***************************************************************************)
(* Proofs about ClaimCheckTtl, for every TTL, interval and number of failed *)
(* passes within the margin, every set of jobs and outages of any length.   *)
(***************************************************************************)
EXTENDS ClaimCheckTtl, TLAPS

FirstRun(j) == place[j] = "wait" /\ made[j] = 0 /\ stalls[j] = 0

\* What has been taken off the TTL since it was last set: the passes that failed
\* and the part of the interval that has run.
Elapsed == RefreshEvery * misses + (RefreshEvery - due)

Fresh == \A j \in Jobs : FirstRun(j) => left[j] + Elapsed >= Ttl

\* A pass under way misses only jobs that joined the list after its read.
PassOK ==
  passing => /\ due = 0
             /\ \A j \in Jobs : FirstRun(j) => j \in listed \/ left[j] = Ttl

\* A job backs off only after a failed attempt.
BackoffOK == \A j \in Jobs : place[j] = "delayed" => made[j] > 0

TtlInv == TypeOK /\ Fresh /\ PassOK /\ BackoffOK

\* The numbers the interval and the TTL are made of are naturals.
LEMMA Constants ==
  /\ Ttl \in Nat \ {0} /\ RefreshEvery \in Nat \ {0} /\ MaxMisses \in Nat
  /\ MaxAttempts \in Nat \ {0} /\ MaxStalls \in Nat
<1>1. RefreshEvery * (MaxMisses + 1) \in Nat
  BY TtlAssumption
<1> QED BY <1>1, TtlAssumption

\* Passes and intervals add up to less than the TTL.
LEMMA ElapsedBound ==
  ASSUME TypeOK
  PROVE  /\ Elapsed \in Nat
         /\ Elapsed < Ttl
<1>1. RefreshEvery * misses \in Nat /\ RefreshEvery * misses <= RefreshEvery * MaxMisses
  <2>1. misses \in Nat /\ MaxMisses \in Nat /\ RefreshEvery \in Nat /\ misses <= MaxMisses
    BY TtlAssumption DEF TypeOK
  <2> QED BY <2>1
<1>2. RefreshEvery * (MaxMisses + 1) = RefreshEvery * MaxMisses + RefreshEvery
  BY TtlAssumption
<1>3. RefreshEvery * MaxMisses \in Nat
  BY TtlAssumption
<1> QED BY <1>1, <1>2, <1>3, TtlAssumption DEF TypeOK, Elapsed

\* The margin of the interval: a fresh job's key has ticks left.
LEMMA FreshHasPayload ==
  ASSUME TypeOK, Fresh PROVE FirstRunKeepsPayload
<1> SUFFICES ASSUME NEW j \in Jobs, FirstRun(j) PROVE left[j] > 0
  BY DEF FirstRun, FirstRunKeepsPayload
<1>1. left[j] \in Nat /\ left[j] + Elapsed >= Ttl
  BY DEF TypeOK, Fresh
<1> QED BY <1>1, ElapsedBound, Constants

\* Every step keeps the type invariant.
LEMMA TtlTypeStep == ASSUME TypeOK, Next PROVE TypeOK'
<1> USE Constants DEF TypeOK, Places, Attempts, jobs, pass
<1>1. ASSUME NEW j \in Jobs, Enqueue(j) PROVE TypeOK'
  BY <1>1 DEF Enqueue
<1>2. ASSUME NEW j \in Jobs, Take(j) PROVE TypeOK'
  BY <1>2 DEF Take
<1>3. ASSUME NEW j \in Jobs, Succeed(j) PROVE TypeOK'
  BY <1>3 DEF Succeed
<1>4. ASSUME NEW j \in Jobs, Retry(j) PROVE TypeOK'
  BY <1>4 DEF Retry
<1>5. ASSUME NEW j \in Jobs, DeadLetter(j) PROVE TypeOK'
  BY <1>5 DEF DeadLetter
<1>6. ASSUME NEW j \in Jobs, Promote(j) PROVE TypeOK'
  BY <1>6 DEF Promote
<1>7. ASSUME NEW j \in Jobs, RedeliverStalled(j) PROVE TypeOK'
  BY <1>7 DEF RedeliverStalled
<1>8. ASSUME NEW j \in Jobs, FailStalled(j) PROVE TypeOK'
  BY <1>8 DEF FailStalled
<1>9. CASE WorkerStops \/ WorkerStarts
  BY <1>9 DEF WorkerStops, WorkerStarts
<1>10. CASE RefreshReads
  BY <1>10 DEF RefreshReads
<1>11. CASE RefreshExpires
  <2>1. left' \in [Jobs -> 0..Ttl]
    BY <1>11 DEF RefreshExpires, Rearmed
  <2>2. due' \in 0..RefreshEvery /\ misses' \in 0..MaxMisses
    BY <1>11 DEF RefreshExpires
  <2> QED BY <1>11, <2>1, <2>2 DEF RefreshExpires
<1>12. CASE RefreshFails
  <2>1. due' \in 0..RefreshEvery /\ misses' \in 0..MaxMisses
    BY <1>12 DEF RefreshFails
  <2> QED BY <1>12, <2>1 DEF RefreshFails
<1>13. CASE Tick
  BY <1>13 DEF Tick
<1> QED
  BY <1>1, <1>2, <1>3, <1>4, <1>5, <1>6, <1>7, <1>8, <1>9, <1>10, <1>11, <1>12, <1>13 DEF Next

\* A first-run job appears with a whole TTL; only time takes from it and only a
\* successful pass, which lists it or finds it new, starts the count again.
LEMMA TtlFreshStep ==
  ASSUME TypeOK, Fresh, PassOK, BackoffOK, Next PROVE Fresh' /\ PassOK' /\ BackoffOK'
<1> USE Constants DEF BackoffOK, TypeOK, Fresh, PassOK, FirstRun, Elapsed, jobs, pass
<1>0. Elapsed \in Nat /\ RefreshEvery * misses \in Nat
  BY ElapsedBound
<1>1. ASSUME NEW j \in Jobs, Enqueue(j) PROVE Fresh' /\ PassOK' /\ BackoffOK'
  BY <1>0, <1>1 DEF Enqueue
<1>2. ASSUME NEW j \in Jobs, UNCHANGED <<made, stalls, pass>>, place'[j] # "wait",
             place'[j] # "delayed",
             \A i \in Jobs \ {j} : place'[i] = place[i] /\ left'[i] = left[i]
      PROVE Fresh' /\ PassOK' /\ BackoffOK'
  BY <1>2
<1>3. ASSUME NEW j \in Jobs, Take(j) \/ Succeed(j) \/ DeadLetter(j) \/ FailStalled(j)
      PROVE Fresh' /\ PassOK' /\ BackoffOK'
  BY <1>2, <1>3 DEF Take, Succeed, DeadLetter, FailStalled
<1>4. ASSUME NEW j \in Jobs, Retry(j) PROVE Fresh' /\ PassOK' /\ BackoffOK'
  BY <1>4 DEF Retry
<1>5. ASSUME NEW j \in Jobs, RedeliverStalled(j) PROVE Fresh' /\ PassOK' /\ BackoffOK'
  BY <1>5 DEF RedeliverStalled
<1>6. ASSUME NEW j \in Jobs, Promote(j) PROVE Fresh' /\ PassOK' /\ BackoffOK'
  BY <1>6 DEF Promote
<1>7. CASE WorkerStops \/ WorkerStarts
  BY <1>7 DEF WorkerStops, WorkerStarts
<1>8. CASE RefreshReads
  BY <1>8 DEF RefreshReads
<1>9. CASE RefreshExpires
  <2>1. \A j \in Jobs : FirstRun(j) => left[j] > 0
    BY FreshHasPayload DEF FirstRunKeepsPayload
  <2>2. RefreshEvery * 0 = 0
    OBVIOUS
  <2> QED BY <1>9, <2>1, <2>2 DEF RefreshExpires, Rearmed
<1>10. CASE RefreshFails
  <2>1. RefreshEvery * (misses + 1) = RefreshEvery * misses + RefreshEvery
    OBVIOUS
  <2> QED BY <1>0, <1>10, <2>1 DEF RefreshFails
<1>11. CASE Tick
  <2>1. \A j \in Jobs : FirstRun(j) => left[j] > 0
    BY FreshHasPayload DEF FirstRunKeepsPayload
  <2> QED BY <1>0, <1>11, <2>1 DEF Tick
<1> QED
  BY <1>1, <1>3, <1>4, <1>5, <1>6, <1>7, <1>8, <1>9, <1>10, <1>11 DEF Next

\* Every reachable state satisfies the inductive invariant TtlInv.
THEOREM TtlInvariant == Spec => []TtlInv
<1>1. Init => TtlInv
  <2> SUFFICES ASSUME Init PROVE TtlInv
    OBVIOUS
  <2>0. 0 \in 0..(MaxAttempts - 1) /\ 0 \in 0..MaxStalls /\ 0 \in 0..Ttl
        /\ RefreshEvery \in 0..RefreshEvery /\ 0 \in 0..MaxMisses
    BY Constants
  <2>1. TypeOK
    BY <2>0 DEF Init, TypeOK, Places, Attempts
  <2>2. \A j \in Jobs : place[j] = "none"
    BY DEF Init
  <2> QED BY <2>1, <2>2 DEF Init, TtlInv, Fresh, FirstRun, PassOK, BackoffOK
<1>2. TtlInv /\ [Next]_vars => TtlInv'
  <2>1. ASSUME TtlInv, UNCHANGED vars PROVE TtlInv'
    BY <2>1 DEF vars, TtlInv, TypeOK, Fresh, FirstRun, Elapsed, PassOK, BackoffOK
  <2> QED BY <2>1, TtlTypeStep, TtlFreshStep DEF TtlInv
<1> QED BY <1>1, <1>2, PTL DEF Spec

\* The type invariant alone.
THEOREM TtlTypes == Spec => []TypeOK
<1> QED BY TtlInvariant, PTL DEF TtlInv

\* Neither an outage nor failing refresh passes cost a job that has yet to run its
\* payload, as long as the passes that may fail in a row fit into the TTL.
THEOREM WaitingJobsKeepPayload == Spec => []FirstRunKeepsPayload
<1>1. TtlInv => FirstRunKeepsPayload
  BY FreshHasPayload DEF TtlInv
<1> QED BY <1>1, TtlInvariant, PTL
=============================================================================
