--------------------------- MODULE ClaimCheckTtl ---------------------------
(***************************************************************************)
(* How long a save's payload lives (apps/hocuspocus.server/src/lib/queue.ts *)
(* and the interval in hocuspocus.server.ts).  A store job carries only the *)
(* name of a Redis key; the key has a TTL, every interval a replica re-arms *)
(* the keys of the jobs it finds on the wait list, and a worker outage can  *)
(* outlast the TTL.  StorePipeline lets any key vanish at any moment; this  *)
(* module has the clock that says which keys really can.                    *)
(*                                                                          *)
(* A tick is the interval's unit: the retry ladder and a stalled check      *)
(* (seconds to minutes) fit in one when a worker is up.                     *)
(***************************************************************************)
EXTENDS Naturals

CONSTANTS
  Jobs,         \* store jobs, each with a claim-check key of its own
  Ttl,          \* STATE_KEY_TTL_SECONDS, in ticks: 6 in the code
  RefreshEvery, \* STATE_KEY_TTL_REFRESH_INTERVAL_MS, in ticks: 1 in the code
  MaxMisses,    \* refresh passes that may fail in a row
  MaxAttempts,  \* BullMQ attempts: 5 in the code
  MaxStalls     \* BullMQ maxStalledCount: 2 in the code

\* The margin the comment on the interval counts on.
ASSUME TtlAssumption ==
  /\ Ttl \in Nat /\ RefreshEvery \in Nat \ {0} /\ MaxMisses \in Nat
  /\ MaxAttempts \in Nat \ {0} /\ MaxStalls \in Nat
  /\ RefreshEvery * (MaxMisses + 1) < Ttl

VARIABLES
  place,   \* place[j]: the BullMQ list the job is on
  made,    \* made[j]: attempts made
  stalls,  \* stalls[j]: times the job was found abandoned
  attempt, \* attempt[j]: the running execution and whether it holds the payload
  left,    \* left[j]: ticks before the key expires, 0 once it is gone
  up,      \* is a worker running
  due,     \* ticks before the next refresh pass
  misses,  \* refresh passes failed since the last that succeeded
  passing, \* is a pass between its LRANGE and its EXPIREs
  listed   \* the job ids that pass read off the wait list

vars == <<place, made, stalls, attempt, left, up, due, misses, passing, listed>>
jobs == <<place, made, stalls, attempt>>
pass == <<due, misses, passing, listed>>

Places == {"none", "wait", "active", "delayed", "completed", "failed",
           "dead", "dead_without_payload"}
Attempts == {"none", "empty", "full"}

Init ==
  /\ place = [j \in Jobs |-> "none"]
  /\ made = [j \in Jobs |-> 0]
  /\ stalls = [j \in Jobs |-> 0]
  /\ attempt = [j \in Jobs |-> "none"]
  /\ left = [j \in Jobs |-> 0]
  /\ up = TRUE
  /\ due = RefreshEvery
  /\ misses = 0
  /\ passing = FALSE
  /\ listed = {}

----------------------------------------------------------------------------
\* enqueueStoreDocument: SET with EX, then Queue.add.
Enqueue(j) ==
  /\ place[j] = "none"
  /\ place' = [place EXCEPT ![j] = "wait"]
  /\ left' = [left EXCEPT ![j] = Ttl]
  /\ UNCHANGED <<made, stalls, attempt, up, pass>>

\* A worker fetches the job and reads the key.
Take(j) ==
  /\ up
  /\ place[j] = "wait"
  /\ place' = [place EXCEPT ![j] = "active"]
  /\ attempt' = [attempt EXCEPT ![j] = IF left[j] > 0 THEN "full" ELSE "empty"]
  /\ UNCHANGED <<made, stalls, left, up, pass>>

\* Committed: the key is deleted.
Succeed(j) ==
  /\ attempt[j] = "full"
  /\ place' = [place EXCEPT ![j] = "completed"]
  /\ left' = [left EXCEPT ![j] = 0]
  /\ attempt' = [attempt EXCEPT ![j] = "none"]
  /\ UNCHANGED <<made, stalls, up, pass>>

\* The attempt throws: missing payload or failed transaction.
Retry(j) ==
  /\ attempt[j] # "none"
  /\ made[j] + 1 < MaxAttempts
  /\ place' = [place EXCEPT ![j] = "delayed"]
  /\ made' = [made EXCEPT ![j] = @ + 1]
  /\ attempt' = [attempt EXCEPT ![j] = "none"]
  /\ UNCHANGED <<stalls, left, up, pass>>

\* The last attempt throws: the dead letter embeds what memory or the key still
\* has, and the key is deleted.
DeadLetter(j) ==
  /\ attempt[j] # "none"
  /\ made[j] + 1 >= MaxAttempts
  /\ place' = [place EXCEPT ![j] = IF attempt[j] = "full" \/ left[j] > 0
                                   THEN "dead" ELSE "dead_without_payload"]
  /\ left' = [left EXCEPT ![j] = 0]
  /\ attempt' = [attempt EXCEPT ![j] = "none"]
  /\ UNCHANGED <<made, stalls, up, pass>>

\* BullMQ does the next three inside a worker: it promotes a delayed job when it
\* fetches, and its stalled check puts an abandoned active job back, or fails it.
Promote(j) ==
  /\ up
  /\ place[j] = "delayed"
  /\ place' = [place EXCEPT ![j] = "wait"]
  /\ UNCHANGED <<made, stalls, attempt, left, up, pass>>

Abandoned(j) == place[j] = "active" /\ attempt[j] = "none"

RedeliverStalled(j) ==
  /\ up
  /\ Abandoned(j) /\ stalls[j] < MaxStalls
  /\ place' = [place EXCEPT ![j] = "wait"]
  /\ stalls' = [stalls EXCEPT ![j] = @ + 1]
  /\ UNCHANGED <<made, attempt, left, up, pass>>

FailStalled(j) ==
  /\ up
  /\ Abandoned(j) /\ stalls[j] = MaxStalls
  /\ place' = [place EXCEPT ![j] = "failed"]
  /\ UNCHANGED <<made, stalls, attempt, left, up, pass>>

\* The worker process goes away mid-job, for any length of time.
WorkerStops ==
  /\ up
  /\ up' = FALSE
  /\ attempt' = [j \in Jobs |-> "none"]
  /\ UNCHANGED <<place, made, stalls, left, pass>>

WorkerStarts ==
  /\ ~up
  /\ up' = TRUE
  /\ UNCHANGED <<jobs, left, pass>>

----------------------------------------------------------------------------
(* refreshPendingStateKeyTtls, on its interval.                             *)

\* Mutant: the pass lists the active jobs instead of the waiting ones.
RefreshReadsActive ==
  /\ due = 0 /\ ~passing
  /\ passing' = TRUE
  /\ listed' = {j \in Jobs : place[j] = "active"}
  /\ UNCHANGED <<jobs, left, up, due, misses>>

\* LRANGE of the wait list (or of the paused list it was renamed to).
RefreshReads ==
  /\ due = 0 /\ ~passing
  /\ passing' = TRUE
  /\ listed' = {j \in Jobs : place[j] = "wait"}
  /\ UNCHANGED <<jobs, left, up, due, misses>>

\* Mutant: the TTL is added to what is left.
RearmedTwice(j) == IF j \in listed /\ left[j] > 0 THEN left[j] + Ttl ELSE left[j]

\* EXPIRE re-arms a key that is still there and does nothing for one that is not.
Rearmed(j) == IF j \in listed /\ left[j] > 0 THEN Ttl ELSE left[j]

RefreshExpires ==
  /\ passing
  /\ left' = [j \in Jobs |-> Rearmed(j)]
  /\ passing' = FALSE /\ listed' = {}
  /\ due' = RefreshEvery
  /\ misses' = 0
  /\ UNCHANGED <<jobs, up>>

\* The pass rejects before any EXPIRE: a warning is logged, the interval goes on.
RefreshFails ==
  /\ due = 0
  /\ misses < MaxMisses
  /\ passing' = FALSE /\ listed' = {}
  /\ due' = RefreshEvery
  /\ misses' = misses + 1
  /\ UNCHANGED <<jobs, left, up>>

\* Time passes: not while a pass is due, and not before a running worker is done
\* with the attempts and backoffs it has in hand.
Tick ==
  /\ due > 0
  /\ up => \A j \in Jobs : place[j] \notin {"active", "delayed"}
  /\ due' = due - 1
  /\ left' = [j \in Jobs |-> IF left[j] > 0 THEN left[j] - 1 ELSE 0]
  /\ UNCHANGED <<jobs, up, misses, passing, listed>>

Next ==
  \/ \E j \in Jobs : \/ Enqueue(j) \/ Take(j) \/ Succeed(j) \/ Retry(j) \/ DeadLetter(j)
                     \/ Promote(j) \/ RedeliverStalled(j) \/ FailStalled(j)
  \/ WorkerStops \/ WorkerStarts
  \/ RefreshReads \/ RefreshExpires \/ RefreshFails
  \/ Tick

Spec == Init /\ [][Next]_vars

----------------------------------------------------------------------------
TypeOK ==
  /\ place \in [Jobs -> Places]
  /\ made \in [Jobs -> 0..(MaxAttempts - 1)]
  /\ stalls \in [Jobs -> 0..MaxStalls]
  /\ attempt \in [Jobs -> Attempts]
  /\ left \in [Jobs -> 0..Ttl]
  /\ up \in BOOLEAN
  /\ due \in 0..RefreshEvery
  /\ misses \in 0..MaxMisses
  /\ passing \in BOOLEAN
  /\ listed \subseteq Jobs

\* A job still waiting for its first run has its payload, however long the workers
\* are down, although refresh passes may fail and race the jobs coming and going.
FirstRunKeepsPayload ==
  \A j \in Jobs :
    place[j] = "wait" /\ made[j] = 0 /\ stalls[j] = 0 => left[j] > 0

\* What refreshPendingStateKeyTtls' comment says: "Re-arming pending jobs' key TTLs
\* keeps any-length outages recoverable", so no job is dead-lettered empty-handed.
OutagesRecoverable == \A j \in Jobs : place[j] # "dead_without_payload"
=============================================================================
