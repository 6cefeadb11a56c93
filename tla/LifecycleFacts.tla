--------------------------- MODULE LifecycleFacts ---------------------------
(***************************************************************************)
(* What the save path can see of a document's life: whether there is a      *)
(* metadata row and in which state, and which rooms refuse their flush.     *)
(* StorePipeline lives under these facts, DocumentLifecycle brings them     *)
(* about.                                                                   *)
(***************************************************************************)
CONSTANT Rooms \* the replicas' rooms of the document

VARIABLES
  meta,  \* the metadata row: "absent" has neither row nor tombstone, "purged" the tombstone only
  sealed \* the rooms that are sealed

facts == <<meta, sealed>>

MetaStates == {"absent", "live", "trashed", "purged"}
HasRow == meta \in {"live", "trashed"}

FactsInit == meta \in MetaStates \ {"purged"} /\ sealed = {}

\* First edit, PUT, a worker's first save: nobody asks for the tombstone.
Anchors == ~HasRow /\ meta' = "live" /\ UNCHANGED sealed
Trashes == meta = "live" /\ meta' = "trashed" /\ UNCHANGED sealed
Restores == meta = "trashed" /\ meta' = "live" /\ UNCHANGED sealed

\* Nothing leaves the table without its tombstone.
Purges == HasRow /\ meta' = "purged" /\ UNCHANGED sealed

\* A purge's event reaches the rooms in its own time, and so does a restore's; a room
\* that is unloaded takes its seal with it.
Seals == UNCHANGED meta /\ \E reached \in SUBSET Rooms : sealed' = sealed \cup reached
Unseals == UNCHANGED meta /\ sealed' \in SUBSET sealed

FactsNext == Unseals \/ Seals \/ Anchors \/ Trashes \/ Restores \/ Purges

FactsSpec == FactsInit /\ [][FactsNext]_facts
=============================================================================
