---------------------------- MODULE DurableSaves ----------------------------
(***************************************************************************)
(* What the store path promises its callers, with no queue, no workers and  *)
(* no Redis in it: versions are only ever appended and only ever grow, and   *)
(* an operation whose save was accepted stays in the newest version or in    *)
(* flight until it is given up in the open or the document is destroyed.     *)
(***************************************************************************)
EXTENDS Naturals, Sequences

CONSTANT Ops

VARIABLES
  history,   \* the stored versions, oldest first
  inflight,  \* operations some queue still carries
  promised,  \* operations whose save was accepted
  lost       \* operations given up, knowingly

durable == <<history, inflight, promised, lost>>

Newest == IF history = <<>> THEN {} ELSE history[Len(history)]

DurableInit ==
  /\ history = <<>>
  /\ inflight = {} /\ promised = {} /\ lost = {}

\* A new version adds S to the newest one; saving directly also promises it.
Store(S, P) ==
  /\ P \subseteq S
  /\ history' = Append(history, Newest \cup S)
  /\ promised' = promised \cup P
  /\ UNCHANGED <<inflight, lost>>

\* More is in flight, and only what is kept somewhere may be promised.
Accept(P) ==
  /\ inflight \subseteq inflight'
  /\ P \subseteq Newest \cup inflight' \cup lost
  /\ promised' = promised \cup P
  /\ UNCHANGED <<history, lost>>

\* What leaves the queues is stored already, or is given up in this very step.
Release(L) ==
  /\ lost' = lost \cup L
  /\ inflight \subseteq Newest \cup inflight' \cup lost'
  /\ UNCHANGED <<history, promised>>

Destroy ==
  /\ history' = <<>>
  /\ lost' = Ops
  /\ UNCHANGED <<inflight, promised>>

DurableNext ==
  \/ \E S, P \in SUBSET Ops : Store(S, P)
  \/ \E P \in SUBSET Ops : Accept(P) /\ inflight' \subseteq Ops
  \/ \E L \in SUBSET Ops : Release(L) /\ inflight' \subseteq Ops
  \/ Destroy

DurableSpec == DurableInit /\ [][DurableNext]_durable

\* What a caller may rely on.
PromisesKept == promised \subseteq Newest \cup inflight \cup lost
=============================================================================
