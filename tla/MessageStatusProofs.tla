------------------------ MODULE MessageStatusProofs ------------------------
(***************************************************************************)
(* Proof about MessageDelivery, for every number of messages, consumers and *)
(* workers, any bounds and any set of faults: when all is done the status   *)
(* of a row tells what happened to its message.                             *)
(*                                                                          *)
(* PathOK holds whatever happens: which step a message of a kind may be at. *)
(* ToldOK is what the row says in the middle, as long as no accident        *)
(* excused the row.                                                         *)
(***************************************************************************)
EXTENDS MessageDeliveryProofs

\* Neither a job, nor a worker, nor a send.
Free(m) == job[m].st = "none" /\ sent[m] = 0 /\ \A w \in Workers : ~Running(w, m)

\* Only a digest is weighed and marked, only what nobody shall get is skipped.
HandPath(c, m) ==
  /\ hand[c][m] \in {"weigh", "mark"} => kind[m] = "digest"
  /\ hand[c][m] = "skip" => kind[m] = "carrier" \/ (kind[m] = "digest" /\ m \in hidden)
  /\ hand[c][m] = "add" => kind[m] # "carrier"
  /\ hand[c][m] = "fail" => kind[m] # "push"

\* The row is the email queue's, nothing happens before pgmq has the message, a carrier is
\* never sent from here, and only a notification's worker writes the row.
PathOf(m) ==
  /\ row[m] = "none" <=> kind[m] = "push"
  /\ row[m] = "pending" => pgmq[m] = "none"
  /\ pgmq[m] = "none" => Free(m) /\ \A c \in Consumers : hand[c][m] = "idle"
  /\ kind[m] = "carrier" => Free(m)
  /\ \A c \in Consumers : HandPath(c, m)
  /\ \A w \in Workers : Running(w, m) /\ run[w].pc \in {"accepted", "refused", "buried"} =>
       kind[m] = "notification"

PathOK == \A m \in Msgs : PathOf(m)

Told == ~Excused({"enqueue failed", "unsure", "unlogged", "log unread", "unmarked", "lapsed"})

\* pgmq has let go of it, or is about to.
Answered(m) == pgmq[m] = "gone" \/ \E c \in Consumers : hand[c][m] = "ack"

CarrierRow(m) ==
  row[m] \notin {"sent", "failed"} /\ (Answered(m) => row[m] = "skipped")

DigestRow(m) ==
  /\ row[m] # "failed"
  /\ row[m] = "skipped" => m \in hidden \/ pgmq[m] = "none"
  /\ Answered(m) => row[m] \in {"sent", "skipped"}

\* The row of a notification follows its worker.
NoticeRow(m) ==
  /\ \A w \in Workers : Running(w, m) /\ run[w].pc \in {"throw", "buried", "fail"} =>
       row[m] = "failed"
  /\ row[m] = "sent" => sent[m] > 0
  /\ row[m] = "skipped" => pgmq[m] = "none"
  /\ sent[m] > 0 =>
       row[m] = "sent" \/ \E w \in Workers : Running(w, m) /\ run[w].pc \in {"log", "accepted"}
  /\ job[m].st = "completed" => row[m] = "sent"
  /\ job[m].st = "failed" => row[m] = "failed"
  /\ Answered(m) => job[m].st \in Pending \/ row[m] \in {"sent", "failed"}

ToldOf(m) ==
  /\ job[m].st = "active" => \E w \in Workers : Running(w, m)
  /\ \A c \in Consumers : hand[c][m] # "fail"
  /\ \A w \in Workers :
       Running(w, m) /\ run[w].pc \in {"send", "refused", "throw", "buried", "fail"} => sent[m] = 0
  /\ kind[m] = "carrier" => CarrierRow(m)
  /\ kind[m] = "digest" => DigestRow(m)
  /\ kind[m] = "notification" => NoticeRow(m)

ToldOK == Told => \A m \in Msgs : ToldOf(m)

----------------------------------------------------------------------------
(* What a step leaves alone.                                                *)

SameRuns(m) == \A w \in Workers :
  /\ Running(w, m)' <=> Running(w, m)
  /\ Running(w, m) => run'[w].pc = run[w].pc

\* Nothing of m moves.
Same(m) ==
  /\ row'[m] = row[m] /\ pgmq'[m] = pgmq[m] /\ job'[m] = job[m] /\ sent'[m] = sent[m]
  /\ \A c \in Consumers : hand'[c][m] = hand[c][m]
  /\ SameRuns(m)

LEMMA SamePath ==
  ASSUME Next, NEW m \in Msgs, PathOf(m), Same(m) PROVE PathOf(m)'
<1>1. kind' = kind /\ (m \in hidden => m \in hidden')
  BY Monotone
<1>2. Free(m)' <=> Free(m)
  BY DEF Free, Same, SameRuns
<1>3. \A c \in Consumers : HandPath(c, m)'
  BY <1>1 DEF PathOf, HandPath, Same
<1>4. \A w \in Workers : Running(w, m)' /\ run'[w].pc \in {"accepted", "refused", "buried"} =>
        kind'[m] = "notification"
  BY <1>1 DEF PathOf, Same, SameRuns
<1> QED BY <1>1, <1>2, <1>3, <1>4 DEF PathOf, Same

LEMMA SameTold ==
  ASSUME Next, NEW m \in Msgs, ToldOf(m), Same(m) PROVE ToldOf(m)'
<1>1. kind' = kind /\ (m \in hidden => m \in hidden')
  BY Monotone
<1>2. Answered(m)' <=> Answered(m)
  BY DEF Answered, Same
<1>3. CarrierRow(m) => CarrierRow(m)'
  BY <1>2 DEF CarrierRow, Same
<1>4. DigestRow(m) => DigestRow(m)'
  BY <1>1, <1>2 DEF DigestRow, Same
<1>5. NoticeRow(m) => NoticeRow(m)'
  BY <1>2 DEF NoticeRow, Same, SameRuns
<1>6. job'[m].st = "active" => \E w \in Workers : Running(w, m)'
  BY DEF ToldOf, Same, SameRuns
<1>7. \A w \in Workers :
        Running(w, m)' /\ run'[w].pc \in {"send", "refused", "throw", "buried", "fail"} =>
          sent'[m] = 0
  BY DEF ToldOf, Same, SameRuns
<1> QED BY <1>1, <1>3, <1>4, <1>5, <1>6, <1>7 DEF ToldOf, Same

\* A step of a consumer with one message.
LEMMA HandMoves ==
  ASSUME TypeInv, NEW c \in Consumers, NEW m \in Msgs, NEW to, Goes(c, m, to)
  PROVE  /\ hand'[c][m] = to
         /\ \A d \in Consumers, n \in Msgs : d # c \/ n # m => hand'[d][n] = hand[d][n]
  BY DEF Goes, TypeInv, HandOK

LEMMA HandTouches ==
  ASSUME TypeInv, NEW c \in Consumers, NEW m \in Msgs, NEW n \in Msgs \ {m},
         Weighs(c, m) \/ Adds(c, m) \/ Marks(c, m) \/ Acks(c, m)
  PROVE  Same(n)
<1> USE DEF TypeInv, MsgOK, JobOK
<1>1. \E to : Goes(c, m, to)
  BY DEF Weighs, Adds, Marks, Acks
<1>2. \A d \in Consumers : hand'[d][n] = hand[d][n]
  BY <1>1, HandMoves
<1>3. UNCHANGED <<run, sent>>
  BY DEF Weighs, Adds, Marks, Acks, seen
<1>4. SameRuns(n)
  BY <1>3 DEF SameRuns, Running
<1>5. row'[n] = row[n]
  BY DEF Weighs, Adds, Marks, Acks, Update
<1>6. pgmq'[n] = pgmq[n]
  BY DEF Weighs, Adds, Marks, Acks
<1>7. job'[n] = job[n]
  BY DEF Weighs, Adds, Added, Marks, Acks
<1> QED BY <1>2, <1>3, <1>4, <1>5, <1>6, <1>7 DEF Same

\* A step of a worker, and its message.
Works(w, m) ==
  \/ Picks(w, m)
  \/ /\ Running(w, m)
     /\ Checks(w) \/ Sends(w) \/ Logs(w) \/ Reports(w) \/ Throws(w) \/ Fails(w) \/ Lapses(w)

LEMMA WorksAre ==
  ASSUME TypeInv, RunStep PROVE \E w \in Workers, m \in Msgs : Works(w, m)
<1>1. PICK w \in Workers :
        \/ \E m \in Msgs : Picks(w, m)
        \/ Checks(w) \/ Sends(w) \/ Logs(w) \/ Reports(w) \/ Throws(w) \/ Fails(w) \/ Lapses(w)
  BY DEF RunStep
<1>2. CASE \E m \in Msgs : Picks(w, m)
  BY <1>2 DEF Works
<1>3. CASE ~\E m \in Msgs : Picks(w, m)
  <2>1. run[w].pc # "idle"
    BY <1>1, <1>3 DEF Checks, Sends, Logs, Reports, Throws, Fails, Lapses
  <2>2. run[w].m \in Msgs /\ Running(w, run[w].m)
    BY <2>1, RunTyped DEF Running
  <2> QED BY <1>1, <1>3, <2>2 DEF Works
<1> QED BY <1>2, <1>3

\* What a worker's step does to the job.
LEMMA WorksJob ==
  ASSUME TypeInv, NEW w \in Workers, NEW m \in Msgs, Works(w, m)
  PROVE  /\ \A n \in Msgs \ {m} : job'[n] = job[n]
         /\ Picks(w, m) => job[m].st = "wait" /\ job'[m].st = "active"
         /\ ~Picks(w, m) => Running(w, m)
         /\ Running(w, m) =>
              \/ job'[m] = job[m]
              \/ Leaves(w) /\ job'[m].st = "completed"
              \/ Fails(w) /\ job'[m].st \in {"wait", "failed"}
         /\ Running(w, m) /\ run[w].held /\ Leaves(w) => job'[m].st = "completed"
         /\ Running(w, m) /\ run[w].held /\ Fails(w) => job'[m].st \in {"wait", "failed"}
<1> USE DEF TypeInv, JobOK, Jobs
<1>1. CASE Picks(w, m)
  BY <1>1 DEF Picks, Running
<1>2. CASE ~Picks(w, m)
  <2>1. Running(w, m) /\ run[w].m = m
    BY <1>2 DEF Works, Running
  <2>2. Advances(w) \/ Leaves(w) \/ Fails(w) \/ Drops(w)
    BY <1>2, RunShape DEF Works
  <2>3. ASSUME Leaves(w)
        PROVE  /\ \A n \in Msgs \ {m} : job'[n] = job[n]
               /\ job'[m] = job[m] \/ job'[m].st = "completed"
               /\ run[w].held => job'[m].st = "completed"
    BY <2>1, <2>3 DEF Leaves, Returns
  <2>4. ASSUME Fails(w)
        PROVE  /\ \A n \in Msgs \ {m} : job'[n] = job[n]
               /\ job'[m] = job[m] \/ job'[m].st \in {"wait", "failed"}
               /\ run[w].held => job'[m].st \in {"wait", "failed"}
    BY <2>1, <2>4 DEF Fails
  <2>5. CASE Leaves(w) /\ ~Fails(w)
    BY <1>2, <2>1, <2>3, <2>5
  <2>6. CASE Fails(w)
    <3>1. ~Leaves(w) \/ job'[m].st = "completed" \/ job'[m] = job[m]
      BY <2>3
    <3> QED BY <1>2, <2>1, <2>3, <2>4, <2>6
  <2>7. CASE ~Leaves(w) /\ ~Fails(w)
    BY <1>2, <2>1, <2>2, <2>7 DEF Advances, Drops
  <2> QED BY <2>5, <2>6, <2>7
<1> QED BY <1>1, <1>2

\* What a worker's step does to the rest.
LEMMA WorksFrame ==
  ASSUME TypeInv, NEW w \in Workers, NEW m \in Msgs, Works(w, m)
  PROVE  /\ UNCHANGED <<pgmq, hand>>
         /\ \A x \in Workers \ {w} : run'[x] = run[x]
         /\ \A n \in Msgs \ {m} : ~Running(w, n) /\ ~Running(w, n)'
         /\ \A n \in Msgs \ {m} : row'[n] = row[n] /\ sent'[n] = sent[n]
         /\ ~Reports(w) => row' = row
         /\ ~Sends(w) => sent' = sent
<1> USE DEF TypeInv
<1>1. CASE Picks(w, m)
  BY <1>1 DEF Picks, Running, RunOK, seen
<1>2. CASE ~Picks(w, m)
  <2>1. Running(w, m) /\ run[w].m = m /\ run[w].pc # "idle"
    BY <1>2 DEF Works, Running
  <2>2. /\ \A x \in Workers \ {w} : run'[x] = run[x]
        /\ run'[w].pc # "idle" => run'[w].m = m
    BY <1>2, <2>1, OthersStay DEF Works
  <2>3. UNCHANGED <<pgmq, hand>>
    BY <1>2 DEF Works, Checks, Sends, Logs, Reports, Throws, Fails, Lapses
  <2>4. ~Reports(w) => row' = row
    BY <1>2 DEF Works, Checks, Sends, Logs, Throws, Fails, Lapses
  <2>5. ~Sends(w) => sent' = sent
    BY <1>2 DEF Works, Checks, Logs, Reports, Throws, Fails, Lapses, seen
  <2>6. ASSUME NEW n \in Msgs \ {m} PROVE row'[n] = row[n] /\ sent'[n] = sent[n]
    <3>1. Reports(w) => row'[n] = row[n]
      BY <2>1 DEF Reports, Update, MsgOK
    <3>2. Sends(w) => sent'[n] = sent[n]
      BY <2>1 DEF Sends, RestOK
    <3> QED BY <2>4, <2>5, <3>1, <3>2
  <2> QED BY <2>1, <2>2, <2>3, <2>4, <2>5, <2>6 DEF Running
<1> QED BY <1>1, <1>2

LEMMA WorksTouches ==
  ASSUME TypeInv, NEW w \in Workers, NEW m \in Msgs, Works(w, m), NEW n \in Msgs \ {m}
  PROVE  Same(n)
<1>1. SameRuns(n)
  BY WorksFrame DEF SameRuns, Running
<1> QED BY <1>1, WorksFrame, WorksJob DEF Same

\* What is at hand is in pgmq, and what a worker has was put there too.
LEMMA Taken ==
  ASSUME NEW m \in Msgs, PathOf(m)
  PROVE  /\ \A c \in Consumers : hand[c][m] # "idle" => pgmq[m] # "none"
         /\ ~Free(m) => pgmq[m] # "none" /\ kind[m] # "carrier"
  BY DEF PathOf

----------------------------------------------------------------------------
(* Whatever happens.                                                        *)

\* Polling hands out what pgmq shows, each kind where it belongs.
LEMMA Polled ==
  ASSUME TypeInv, PathOK, NEW c \in Consumers, Polls(c), NEW m \in Msgs
  PROVE  /\ UNCHANGED <<row, job, run, sent, kind, hidden>>
         /\ \A d \in Consumers \ {c} : hand'[d] = hand[d]
         /\ hand[c][m] = "idle" /\ hand'[c][m] \in {"idle", "skip", "weigh", "add"}
         /\ hand'[c][m] # "idle" => pgmq[m] = "visible"
         /\ HandPath(c, m)'
         /\ pgmq'[m] = pgmq[m] \/ (pgmq[m] = "visible" /\ pgmq'[m] = "leased")
<1> USE DEF TypeInv, MsgOK, HandOK
<1>1. PICK batch \in SUBSET {n \in Msgs : pgmq[n] = "visible"} :
        /\ pgmq' = [n \in Msgs |-> IF n \in batch THEN "leased" ELSE pgmq[n]]
        /\ hand' = [hand EXCEPT ![c] =
             [n \in Msgs |-> IF n \notin batch THEN "idle"
                             ELSE CASE kind[n] = "carrier" -> "skip"
                                    [] kind[n] = "digest" -> "weigh"
                                    [] OTHER -> "add"]]
  BY DEF Polls
<1>2. hand'[c][m] = IF m \notin batch THEN "idle"
                    ELSE CASE kind[m] = "carrier" -> "skip"
                           [] kind[m] = "digest" -> "weigh"
                           [] OTHER -> "add"
  BY <1>1
<1>3. UNCHANGED <<row, job, run, sent, kind, hidden>> /\ hand[c][m] = "idle"
  BY DEF Polls, seen, world
<1>4. CASE m \notin batch
  BY <1>1, <1>2, <1>3, <1>4 DEF HandPath
<1>5. CASE m \in batch
  <2>1. pgmq'[m] = "leased" /\ pgmq[m] = "visible" /\ \A d \in Consumers \ {c} : hand'[d] = hand[d]
    BY <1>1, <1>5
  <2>2. CASE kind[m] = "carrier"
    BY <1>2, <1>3, <1>5, <2>1, <2>2 DEF HandPath
  <2>3. CASE kind[m] = "digest"
    BY <1>2, <1>3, <1>5, <2>1, <2>3 DEF HandPath
  <2>4. CASE kind[m] \notin {"carrier", "digest"}
    <3>1. hand'[c][m] = "add"
      BY <1>2, <1>5, <2>4
    <3> QED BY <1>3, <2>1, <2>4, <3>1 DEF HandPath
  <2> QED BY <2>2, <2>3, <2>4
<1> QED BY <1>4, <1>5

\* A worker's message, as far as its kind goes.
LEMMA WorksPath ==
  ASSUME TypeInv, PathOK, NEW w \in Workers, NEW m \in Msgs, Works(w, m), Next
  PROVE  PathOf(m)'
<1> USE DEF TypeInv
<1>0. PathOf(m) /\ kind' = kind
  BY Monotone DEF PathOK
<1>1. pgmq[m] # "none" /\ kind[m] # "carrier"
  <2>1. ~Free(m)
    BY WorksJob DEF Free
  <2> QED BY <1>0, <2>1, Taken
<1>2. UNCHANGED <<pgmq, hand>>
  BY WorksFrame
<1>3. \A c \in Consumers : HandPath(c, m)'
  BY <1>0, <1>2, Monotone DEF PathOf, HandPath
<1>4. CASE Picks(w, m)
  <2>1. row' = row
    BY <1>4 DEF Picks
  <2>2. run'[w].pc = "check" /\ \A x \in Workers \ {w} : run'[x] = run[x]
    BY <1>4, Moves, WorksFrame
  <2> QED BY <1>0, <1>1, <1>2, <1>3, <2>1, <2>2 DEF PathOf, Running
<1>5. CASE ~Picks(w, m)
  <2>0. Running(w, m) /\ run[w].m = m /\ run[w].pc # "idle"
    BY <1>5, WorksJob DEF Running
  <2>1. ASSUME NEW to, Step(w, to) PROVE run'[w].pc = to
    BY <2>0, <2>1, RunTyped DEF Step, RunOK
  <2>2. ASSUME Returns(w) PROVE run'[w].pc = "idle"
    BY <2>2 DEF Returns, NoRun, RunOK
  <2>3. run'[w].pc \in {"accepted", "refused", "buried"} => kind[m] = "notification"
    <3>1. CASE Sends(w)
      <4>1. CASE kind[m] = "notification"
        BY <4>1
      <4>2. CASE kind[m] # "notification"
        BY <2>0, <2>1, <3>1, <4>2 DEF Sends
      <4> QED BY <4>1, <4>2
    <3>2. CASE Logs(w)
      BY <2>0, <2>1, <2>2, <3>2 DEF Logs
    <3>3. CASE Throws(w)
      BY <2>0, <2>1, <3>3 DEF Throws
    <3>4. Checks(w) \/ Reports(w) \/ Fails(w) => run'[w].pc \notin {"accepted", "refused", "buried"}
      BY Moves
    <3>5. CASE Lapses(w)
      BY <1>0, <2>0, <3>5, Moves DEF PathOf
    <3> QED BY <1>5, <3>1, <3>2, <3>3, <3>4, <3>5 DEF Works
  <2>4. row'[m] = row[m] \/ (kind[m] = "notification" /\ row'[m] \in {"sent", "failed"})
    <3>1. CASE Reports(w)
      <4>1. kind[m] = "notification"
        BY <1>0, <2>0, <3>1 DEF Reports, PathOf
      <4>2. row' = row \/ row' = [row EXCEPT ![m] = "sent"] \/ row' = [row EXCEPT ![m] = "failed"]
        BY <2>0, <3>1 DEF Reports, Update
      <4> QED BY <4>1, <4>2 DEF MsgOK
    <3> QED BY <3>1, WorksFrame
  <2>5. \A x \in Workers : Running(x, m)' /\ run'[x].pc \in {"accepted", "refused", "buried"} =>
          kind'[m] = "notification"
    BY <1>0, <2>3, WorksFrame DEF PathOf, Running
  <2> QED BY <1>0, <1>1, <1>2, <1>3, <2>4, <2>5 DEF PathOf
<1> QED BY <1>4, <1>5

LEMMA PathStep ==
  ASSUME TypeInv, PathOK, Next PROVE PathOK'
<1> USE DEF TypeInv, MsgOK
<1>0. \A m \in Msgs : PathOf(m) /\ (Same(m) => PathOf(m)')
  BY SamePath DEF PathOK
<1>1. CASE WorldStep
  <2>1. ASSUME NEW m \in Msgs, ReadsInApp(m) \/ Hides(m), NEW n \in Msgs PROVE Same(n)
    BY <2>1 DEF ReadsInApp, Hides, Same, SameRuns, Running, seen
  <2>2. ASSUME NEW m \in Msgs, Process(m), NEW n \in Msgs PROVE PathOf(n)'
    <3>1. UNCHANGED <<kind, hand, job, run, hidden, sent>>
      BY <2>2 DEF Process, world, seen
    <3>2. CASE n # m
      BY <1>0, <2>2, <3>1, <3>2 DEF Process, Same, SameRuns, Running
    <3>3. CASE n = m
      <4>1. pgmq[m] = "none" /\ Free(m) /\ \A c \in Consumers : hand[c][m] = "idle"
        BY <1>0, <2>2 DEF Process, PathOf
      <4>2. Free(m)'
        BY <3>1, <4>1 DEF Free, Running
      <4>3. row'[m] \in {"skipped", "processing"} /\ kind[m] # "push"
        BY <1>0, <2>2 DEF Process, PathOf
      <4>4. \A w \in Workers : ~Running(w, m)'
        BY <4>2 DEF Free
      <4> QED BY <3>1, <3>3, <4>1, <4>2, <4>3, <4>4 DEF PathOf, HandPath
    <3> QED BY <3>2, <3>3
  <2>3. ASSUME NEW m \in Msgs, LeaseExpires(m), NEW n \in Msgs PROVE PathOf(n)'
    <3>1. UNCHANGED <<kind, row, hand, job, run, hidden, sent>>
      BY <2>3 DEF LeaseExpires, world, seen
    <3>2. CASE n # m
      BY <1>0, <2>3, <3>1, <3>2 DEF LeaseExpires, Same, SameRuns, Running
    <3>3. CASE n = m
      <4>1. pgmq[m] = "leased" /\ pgmq'[m] = "visible"
        BY <2>3 DEF LeaseExpires
      <4>2. Free(m)' <=> Free(m)
        BY <3>1 DEF Free, Running
      <4> QED BY <1>0, <3>1, <3>3, <4>1, <4>2 DEF PathOf, HandPath, Running
    <3> QED BY <3>2, <3>3
  <2> QED BY <1>0, <1>1, <2>1, <2>2, <2>3 DEF WorldStep, PathOK
<1>2. CASE JobStep
  <2>1. PICK m \in Msgs : Stalled(m) \/ Forgets(m)
    BY <1>2 DEF JobStep
  <2>2. UNCHANGED <<kind, row, pgmq, hand, run, hidden, sent>>
    BY <2>1 DEF Stalled, Forgets, world, seen
  <2>3. job[m].st # "none" /\ \A n \in Msgs \ {m} : job'[n] = job[n]
    BY <2>1 DEF Stalled, Forgets, JobOK
  <2>4. pgmq[m] # "none" /\ kind[m] # "carrier"
    BY <1>0, <2>3, Taken DEF Free
  <2>5. \A n \in Msgs \ {m} : Same(n)
    BY <2>2, <2>3 DEF Same, SameRuns, Running
  <2>6. PathOf(m)'
    BY <1>0, <2>2, <2>4 DEF PathOf, HandPath, Running
  <2> QED BY <1>0, <2>5, <2>6 DEF PathOK
<1>3. CASE HandStep
  <2>1. ASSUME NEW c \in Consumers, Polls(c), NEW m \in Msgs PROVE PathOf(m)'
    <3>1. /\ UNCHANGED <<row, job, run, sent, kind, hidden>>
          /\ \A d \in Consumers \ {c} : hand'[d] = hand[d]
          /\ hand'[c][m] # "idle" => pgmq[m] = "visible"
          /\ HandPath(c, m)'
          /\ pgmq'[m] = pgmq[m] \/ (pgmq[m] = "visible" /\ pgmq'[m] = "leased")
      BY <2>1, Polled
    <3>2. Free(m)' <=> Free(m)
      BY <3>1 DEF Free, Running
    <3>3. \A d \in Consumers : HandPath(d, m)'
      BY <1>0, <3>1 DEF PathOf, HandPath
    <3> QED BY <1>0, <3>1, <3>2, <3>3 DEF PathOf, Running
  <2>2. ASSUME NEW c \in Consumers, ConsumerDies(c), NEW m \in Msgs PROVE PathOf(m)'
    <3>1. UNCHANGED <<kind, row, pgmq, job, run, hidden, sent>>
      BY <2>2 DEF ConsumerDies, world, seen
    <3>2. \A d \in Consumers : hand'[d][m] = "idle" \/ hand'[d][m] = hand[d][m]
      BY <2>2 DEF ConsumerDies, HandOK
    <3>3. Free(m)' <=> Free(m)
      BY <3>1 DEF Free, Running
    <3>4. \A d \in Consumers : HandPath(d, m)'
      BY <1>0, <3>1, <3>2 DEF PathOf, HandPath
    <3> QED BY <1>0, <3>1, <3>2, <3>3, <3>4 DEF PathOf, Running
  <2>3. ASSUME NEW c \in Consumers, NEW m \in Msgs,
               Weighs(c, m) \/ Adds(c, m) \/ Marks(c, m) \/ Acks(c, m)
        PROVE  PathOK'
    <3>0. hand[c][m] # "idle" /\ UNCHANGED <<kind, run, hidden, sent>>
      BY <2>3 DEF Weighs, Adds, Marks, Acks, world, seen
    <3>1. pgmq[m] # "none" /\ HandPath(c, m) /\ PathOf(m)
      BY <1>0, <3>0, Taken DEF PathOf
    <3>2. pgmq'[m] # "none"
      BY <2>3, <3>1 DEF Weighs, Adds, Marks, Acks
    <3>3. PICK to : Goes(c, m, to)
      BY <2>3 DEF Weighs, Adds, Marks, Acks
    <3>4. /\ hand'[c][m] = to
          /\ \A d \in Consumers \ {c} : hand'[d][m] = hand[d][m]
      BY <3>3, HandMoves
    <3>5. HandPath(c, m)'
      <4>1. CASE Weighs(c, m)
        <5>1. PICK t \in {"skip", "add", "idle"} : Goes(c, m, t) /\ (t = "skip" => m \in hidden)
          BY <4>1 DEF Weighs
        <5>2. hand'[c][m] = t /\ kind[m] = "digest"
          BY <3>1, <4>1, <5>1, HandMoves DEF Weighs, HandPath
        <5> QED BY <3>0, <5>1, <5>2 DEF HandPath
      <4>2. CASE Adds(c, m)
        <5>1. PICK t \in {"mark", "ack", "idle", "fail"} :
                /\ Goes(c, m, t)
                /\ t = "mark" => kind[m] = "digest"
                /\ t = "fail" => kind[m] # "push"
          <6>1. CASE Goes(c, m, IF kind[m] = "digest" THEN "mark" ELSE "ack")
            BY <6>1
          <6>2. CASE Goes(c, m, IF kind[m] = "push" THEN "idle" ELSE "fail")
            BY <6>2
          <6> QED BY <4>2, <6>1, <6>2 DEF Adds
        <5>2. hand'[c][m] = t
          BY <5>1, HandMoves
        <5> QED BY <3>0, <5>1, <5>2 DEF HandPath
      <4>3. CASE Marks(c, m) \/ Acks(c, m)
        <5>1. PICK t \in {"ack", "idle"} : Goes(c, m, t)
          BY <4>3 DEF Marks, Acks
        <5>2. hand'[c][m] = t
          BY <5>1, HandMoves
        <5> QED BY <5>2 DEF HandPath
      <4> QED BY <2>3, <4>1, <4>2, <4>3
    <3>6. row'[m] = row[m] \/ (kind[m] # "push" /\ row'[m] \in {"sent", "skipped", "failed"})
      <4>1. CASE Marks(c, m)
        <5>1. kind[m] # "push"
          BY <3>1, <4>1 DEF Marks, HandPath
        <5>2. row'[m] = row[m] \/ row'[m] \in {"sent", "skipped", "failed"}
          BY <4>1 DEF Marks, Update
        <5> QED BY <5>1, <5>2
      <4> QED BY <2>3, <4>1 DEF Weighs, Adds, Acks
    <3>7. kind[m] = "carrier" => job'[m] = job[m]
      BY <2>3, <3>1 DEF Weighs, Adds, Marks, Acks, HandPath
    <3>8. kind[m] = "carrier" => Free(m)'
      BY <3>0, <3>1, <3>7 DEF PathOf, Free, Running
    <3>9. \A d \in Consumers : HandPath(d, m)'
      BY <3>0, <3>1, <3>4, <3>5 DEF PathOf, HandPath
    <3>10. PathOf(m)'
      BY <3>0, <3>1, <3>2, <3>6, <3>8, <3>9 DEF PathOf, Running
    <3> QED BY <1>0, <2>3, <3>10, HandTouches DEF PathOK
  <2> QED BY <1>3, <2>1, <2>2, <2>3 DEF HandStep, PathOK
<1>4. CASE RunStep
  <2>1. PICK w \in Workers, m \in Msgs : Works(w, m)
    BY <1>4, WorksAre
  <2> QED BY <1>0, <2>1, WorksPath, WorksTouches DEF PathOK
<1> QED BY <1>1, <1>2, <1>3, <1>4, StepsAre

----------------------------------------------------------------------------
(* As long as no accident excused the row.                                  *)

LEMMA StillTold ==
  ASSUME Next, ToldOK, Told' PROVE Told /\ Calm /\ \A m \in Msgs : ToldOf(m)
<1>1. mishaps \subseteq mishaps'
  BY Monotone
<1>2. Told
  BY <1>1 DEF Told, Excused
<1> QED BY <1>2 DEF ToldOK, Told, Calm, Excused

\* Whoever works on a message holds its job, alone.
LEMMA Alone ==
  ASSUME TypeInv, OnceOK, Calm, NEW w \in Workers, NEW m \in Msgs, Running(w, m)
  PROVE  /\ run[w].held /\ job[m].st = "active"
         /\ \A x \in Workers : Running(x, m) => x = w
<1>1. \A x \in Workers : Running(x, m) => Holds(x, m)
  BY DEF OnceOK, Running, Holds
<1> QED BY <1>1 DEF TypeInv, HeldOK, Holds

LEMMA WorldTold ==
  ASSUME TypeInv, PathOK, ToldOK, Told', Next, WorldStep, NEW n \in Msgs
  PROVE  ToldOf(n)'
<1> USE DEF TypeInv, MsgOK
<1>0. /\ PathOf(n) /\ ToldOf(n) /\ kind' = kind /\ (n \in hidden => n \in hidden')
      /\ Same(n) => ToldOf(n)'
  BY StillTold, SameTold, Monotone DEF PathOK
<1>1. ASSUME NEW m \in Msgs, ReadsInApp(m) \/ Hides(m) PROVE Same(n)
  BY <1>1 DEF ReadsInApp, Hides, Same, SameRuns, Running, seen
<1>2. ASSUME NEW m \in Msgs, Process(m) PROVE ToldOf(n)'
  <2>1. UNCHANGED <<kind, hand, job, run, hidden, sent>>
    BY <1>2 DEF Process, world, seen
  <2>2. CASE n # m
    BY <1>0, <1>2, <2>1, <2>2 DEF Process, Same, SameRuns, Running
  <2>3. CASE n = m
    <3>1. Free(n) /\ pgmq[n] = "none" /\ \A c \in Consumers : hand[c][n] = "idle"
      BY <1>0, <1>2, <2>3 DEF Process, PathOf
    <3>2. \/ row'[n] = "skipped" /\ pgmq'[n] = "none"
          \/ row'[n] = "processing" /\ pgmq'[n] = "visible"
      BY <1>2, <2>3, <3>1 DEF Process
    <3>3. ~Answered(n)'
      BY <2>1, <3>1, <3>2 DEF Answered
    <3>4. \A w \in Workers : ~Running(w, n)'
      BY <2>1, <3>1 DEF Free, Running
    <3>5. job'[n].st = "none" /\ sent'[n] = 0
      BY <2>1, <3>1 DEF Free
    <3>6. CarrierRow(n)' /\ DigestRow(n)' /\ NoticeRow(n)'
      BY <3>2, <3>3, <3>4, <3>5 DEF CarrierRow, DigestRow, NoticeRow
    <3> QED BY <2>1, <3>1, <3>4, <3>5, <3>6 DEF ToldOf
  <2> QED BY <2>2, <2>3
<1>3. ASSUME NEW m \in Msgs, LeaseExpires(m) PROVE ToldOf(n)'
  <2>1. UNCHANGED <<kind, row, hand, job, run, hidden, sent>>
    BY <1>3 DEF LeaseExpires, world, seen
  <2>2. CASE n # m
    BY <1>0, <1>3, <2>1, <2>2 DEF LeaseExpires, Same, SameRuns, Running
  <2>3. CASE n = m
    <3>1. pgmq[n] = "leased" /\ pgmq'[n] = "visible"
      BY <1>3, <2>3 DEF LeaseExpires
    <3>2. Answered(n)' <=> Answered(n)
      BY <2>1, <3>1 DEF Answered
    <3>3. \A w \in Workers : Running(w, n)' <=> Running(w, n)
      BY <2>1 DEF Running
    <3>4. CarrierRow(n) => CarrierRow(n)'
      BY <2>1, <3>2 DEF CarrierRow
    <3>5. DigestRow(n) => DigestRow(n)'
      BY <2>1, <3>1, <3>2 DEF DigestRow
    <3>6. NoticeRow(n) => NoticeRow(n)'
      BY <2>1, <3>1, <3>2, <3>3 DEF NoticeRow
    <3> QED BY <1>0, <2>1, <3>3, <3>4, <3>5, <3>6 DEF ToldOf
  <2> QED BY <2>2, <2>3
<1> QED BY <1>0, <1>1, <1>2, <1>3 DEF WorldStep

LEMMA JobTold ==
  ASSUME TypeInv, OnceOK, PathOK, ToldOK, Told', Next, JobStep, NEW n \in Msgs
  PROVE  ToldOf(n)'
<1> USE DEF TypeInv, JobOK, Jobs
<1>0. /\ ToldOf(n) /\ kind' = kind /\ (n \in hidden => n \in hidden')
      /\ Calm /\ (Same(n) => ToldOf(n)')
  BY StillTold, SameTold, Monotone
<1>1. PICK m \in Msgs : Stalled(m) \/ Forgets(m)
  BY DEF JobStep
<1>2. UNCHANGED <<row, pgmq, hand, run, sent>>
  BY <1>1 DEF Stalled, Forgets, seen
<1>3. CASE n # m
  <2>1. job'[n] = job[n]
    BY <1>1, <1>3 DEF Stalled, Forgets
  <2> QED BY <1>0, <1>2, <2>1 DEF Same, SameRuns, Running
<1>4. CASE n = m
  \* Nobody's job is active only when its holder is gone.
  <2>1. ~Stalled(m)
    <3>1. SUFFICES ASSUME Stalled(m) PROVE FALSE
      OBVIOUS
    <3>2. PICK w \in Workers : Running(w, m)
      BY <1>0, <1>4, <3>1 DEF Stalled, ToldOf
    <3>3. run[w].held
      BY <1>0, <3>2, Alone
    <3> QED BY <3>1, <3>2, <3>3 DEF Stalled
  <2>2. job[n].st \in {"completed", "failed"} /\ job'[n].st = "none"
    BY <1>1, <1>4, <2>1 DEF Forgets, NoJob
  <2>3. Answered(n)' <=> Answered(n)
    BY <1>2 DEF Answered
  <2>4. \A w \in Workers : Running(w, n)' <=> Running(w, n)
    BY <1>2 DEF Running
  <2>5. CarrierRow(n) => CarrierRow(n)'
    BY <1>2, <2>3 DEF CarrierRow
  <2>6. DigestRow(n) => DigestRow(n)'
    BY <1>0, <1>2, <2>3 DEF DigestRow
  <2>7. NoticeRow(n) => NoticeRow(n)'
    BY <1>2, <2>2, <2>3, <2>4 DEF NoticeRow, Pending
  <2> QED BY <1>0, <1>2, <2>2, <2>4, <2>5, <2>6, <2>7 DEF ToldOf
<1> QED BY <1>3, <1>4

\* A consumer's step leaves the workers alone; of the job it can only make one.
LEMMA HandTold ==
  ASSUME TypeInv, PathOK, ToldOK, Told', Next, HandStep, NEW n \in Msgs
  PROVE  ToldOf(n)'
<1> USE DEF TypeInv, MsgOK, HandOK
<1>0. /\ PathOf(n) /\ ToldOf(n) /\ kind' = kind /\ (n \in hidden => n \in hidden')
      /\ Same(n) => ToldOf(n)'
  BY StillTold, SameTold, Monotone DEF PathOK
<1>n. ASSUME NEW a, Note(a, TRUE) PROVE a \in mishaps'
  BY <1>n DEF Note
\* All but the answer, the row and the new job.
<1>s. ASSUME UNCHANGED <<run, sent>>, \A c \in Consumers : hand'[c][n] # "fail",
             job'[n].st = job[n].st \/ job'[n].st = "wait",
             kind[n] = "carrier" => CarrierRow(n)',
             kind[n] = "digest" => DigestRow(n)',
             kind[n] = "notification" => NoticeRow(n)'
      PROVE  ToldOf(n)'
  <2>1. \A w \in Workers : Running(w, n)' <=> Running(w, n)
    BY <1>s DEF Running
  <2> QED BY <1>0, <1>s, <2>1 DEF ToldOf
\* Nothing to answer for: the row and the job are as they were.
<1>q. ASSUME UNCHANGED <<row, job, run, sent>>, \A c \in Consumers : hand'[c][n] # "fail",
             Answered(n)' => Answered(n), pgmq[n] = "none" => pgmq'[n] = "none"
      PROVE  ToldOf(n)'
  <2>1. CarrierRow(n) => CarrierRow(n)'
    BY <1>q DEF CarrierRow
  <2>2. DigestRow(n) => DigestRow(n)'
    BY <1>0, <1>q DEF DigestRow
  <2>3. \A w \in Workers : Running(w, n)' <=> Running(w, n)
    BY <1>q DEF Running
  <2>4. NoticeRow(n) => NoticeRow(n)'
    BY <1>q, <2>3 DEF NoticeRow
  <2> QED BY <1>0, <1>s, <1>q, <2>1, <2>2, <2>4 DEF ToldOf
<1>1. ASSUME NEW c \in Consumers, Polls(c) PROVE ToldOf(n)'
  <2>1. /\ UNCHANGED <<row, job, run, sent>>
        /\ \A d \in Consumers \ {c} : hand'[d] = hand[d]
        /\ hand'[c][n] \in {"idle", "skip", "weigh", "add"}
        /\ pgmq'[n] = pgmq[n] \/ (pgmq[n] = "visible" /\ pgmq'[n] = "leased")
    BY <1>1, Polled
  <2>2. Answered(n)' => Answered(n)
    BY <2>1 DEF Answered
  <2>3. \A d \in Consumers : hand'[d][n] # "fail"
    BY <1>0, <2>1 DEF ToldOf
  <2> QED BY <1>q, <2>1, <2>2, <2>3
<1>2. ASSUME NEW c \in Consumers, ConsumerDies(c) PROVE ToldOf(n)'
  <2>1. UNCHANGED <<row, pgmq, job, run, sent>>
    BY <1>2 DEF ConsumerDies, seen
  <2>2. \A d \in Consumers : hand'[d][n] = "idle" \/ hand'[d][n] = hand[d][n]
    BY <1>2 DEF ConsumerDies
  <2>3. Answered(n)' => Answered(n)
    BY <2>1, <2>2 DEF Answered
  <2>4. \A d \in Consumers : hand'[d][n] # "fail"
    BY <1>0, <2>2 DEF ToldOf
  <2> QED BY <1>q, <2>1, <2>3, <2>4
<1>3. ASSUME NEW c \in Consumers, NEW m \in Msgs,
             Weighs(c, m) \/ Adds(c, m) \/ Marks(c, m) \/ Acks(c, m)
      PROVE  ToldOf(n)'
  <2>0. CASE n # m
    BY <1>0, <1>3, <2>0, HandTouches
  <2> SUFFICES ASSUME n = m PROVE ToldOf(m)'
    BY <2>0
  <2>1. hand[c][m] # "idle" /\ HandPath(c, m) /\ UNCHANGED <<run, sent>> /\ pgmq[m] # "none"
    <3>1. hand[c][m] # "idle" /\ UNCHANGED <<run, sent>>
      BY <1>3 DEF Weighs, Adds, Marks, Acks, seen
    <3> QED BY <1>0, <3>1, Taken DEF PathOf
  <2>2. CASE Weighs(c, m)
    <3>1. UNCHANGED <<row, pgmq, job>>
      BY <2>2 DEF Weighs
    <3>2. PICK t \in {"skip", "add", "idle"} : Goes(c, m, t)
      BY <2>2 DEF Weighs
    <3>3. hand'[c][m] = t /\ \A d \in Consumers \ {c} : hand'[d][m] = hand[d][m]
      BY <3>2, HandMoves
    <3>4. Answered(m)' => Answered(m)
      BY <3>1, <3>3 DEF Answered
    <3> QED BY <1>0, <1>q, <2>1, <3>1, <3>3, <3>4 DEF ToldOf
  <2>3. CASE Adds(c, m)
    <3>1. kind[m] # "carrier" /\ UNCHANGED <<row, pgmq>>
      BY <2>1, <2>3 DEF Adds, HandPath
    <3>2. "enqueue failed" \notin mishaps'
      BY DEF Told, Excused
    <3>3. PICK t \in {"mark", "ack"} :
            Goes(c, m, t) /\ job' = Added(m) /\ (t = "ack" => kind[m] # "digest")
      BY <1>n, <2>3, <3>2 DEF Adds
    <3>4. hand'[c][m] = t /\ \A d \in Consumers \ {c} : hand'[d][m] = hand[d][m]
      BY <3>3, HandMoves
    <3>5. IF job[m].st = "none" THEN job'[m].st = "wait" ELSE job'[m] = job[m]
      BY <3>3 DEF Added, JobOK, Jobs
    <3>6. kind[m] = "digest" => DigestRow(m)'
      <4>1. SUFFICES ASSUME kind[m] = "digest" PROVE DigestRow(m)'
        OBVIOUS
      <4>2. Answered(m)' => Answered(m)
        BY <3>1, <3>3, <3>4, <4>1 DEF Answered
      <4> QED BY <1>0, <3>1, <4>1, <4>2 DEF ToldOf, DigestRow
    <3>7. kind[m] = "notification" => NoticeRow(m)'
      <4>1. SUFFICES ASSUME NoticeRow(m) PROVE NoticeRow(m)'
        BY <1>0 DEF ToldOf
      <4>2. job'[m].st \in Pending \/ row[m] \in {"sent", "failed"}
        BY <3>5, <4>1 DEF NoticeRow, Pending, JobOK, Jobs
      <4>3. \A w \in Workers : Running(w, m)' <=> Running(w, m)
        BY <2>1 DEF Running
      <4> QED BY <2>1, <3>1, <3>5, <4>1, <4>2, <4>3 DEF NoticeRow
    <3>8. \A d \in Consumers : hand'[d][m] # "fail"
      BY <1>0, <3>3, <3>4 DEF ToldOf
    <3> QED BY <1>s, <2>1, <3>1, <3>5, <3>6, <3>7, <3>8
  <2>4. CASE Marks(c, m)
    <3>1. hand[c][m] # "fail" /\ "unmarked" \notin mishaps'
      BY <1>0 DEF ToldOf, Told, Excused
    <3>2. UNCHANGED <<pgmq, job>> /\ Goes(c, m, "ack")
      BY <2>4, <3>1 DEF Marks
    <3>3. \/ hand[c][m] = "mark" /\ row'[m] = "sent"
          \/ hand[c][m] = "skip" /\ row'[m] = "skipped"
      <4>1. Update(m, CASE hand[c][m] = "mark" -> "sent"
                        [] hand[c][m] = "skip" -> "skipped"
                        [] hand[c][m] = "fail" -> "failed")
        BY <1>n, <2>4, <3>1 DEF Marks
      <4>2. hand[c][m] = "mark" \/ hand[c][m] = "skip"
        BY <2>4, <3>1 DEF Marks
      <4>3. CASE hand[c][m] = "mark"
        BY <4>1, <4>3 DEF Update
      <4>4. CASE hand[c][m] = "skip"
        BY <4>1, <4>4 DEF Update
      <4> QED BY <4>2, <4>3, <4>4
    <3>4. hand'[c][m] = "ack" /\ \A d \in Consumers \ {c} : hand'[d][m] = hand[d][m]
      BY <3>2, HandMoves
    <3>5. kind[m] = "carrier" => CarrierRow(m)'
      BY <2>1, <3>3 DEF HandPath, CarrierRow
    <3>6. kind[m] = "digest" => DigestRow(m)'
      BY <1>0, <2>1, <3>3 DEF HandPath, DigestRow
    <3>7. kind[m] # "notification"
      BY <2>1, <3>3 DEF HandPath
    <3>8. \A d \in Consumers : hand'[d][m] # "fail"
      BY <1>0, <3>4 DEF ToldOf
    <3> QED BY <1>s, <2>1, <3>2, <3>5, <3>6, <3>7, <3>8
  <2>5. CASE Acks(c, m)
    <3>1. UNCHANGED <<row, job>> /\ Answered(m)
      BY <2>5 DEF Acks, Answered
    <3>2. hand'[c][m] = "idle" /\ \A d \in Consumers \ {c} : hand'[d][m] = hand[d][m]
      BY <2>5, HandMoves DEF Acks
    <3> QED BY <1>0, <1>q, <2>1, <3>1, <3>2 DEF ToldOf
  <2> QED BY <1>3, <2>2, <2>3, <2>4, <2>5
<1> QED BY <1>1, <1>2, <1>3 DEF HandStep

\* Where a worker stands, with every send logged and no lock lapsed.
LEMMA AtWork ==
  ASSUME TypeInv, OnceOK, ToldOK, Told', Next, NEW w \in Workers, NEW m \in Msgs, Works(w, m)
  PROVE  /\ \A x \in Workers \ {w} : ~Running(x, m) /\ ~Running(x, m)'
         /\ ~Picks(w, m) =>
              /\ Running(w, m) /\ run[w].m = m /\ run[w].pc # "idle" /\ run[w].held
              /\ job[m].st = "active" /\ ~Lapses(w)
         /\ Picks(w, m) => job[m].st = "wait" /\ \A x \in Workers : ~Running(x, m)
<1>0. Calm
  BY StillTold
<1>1. \A x \in Workers \ {w} : run'[x] = run[x]
  BY WorksFrame
<1>2. CASE Picks(w, m)
  <2>1. job[m].st = "wait"
    BY <1>2 DEF Picks
  <2>2. \A x \in Workers : ~Running(x, m)
    BY <1>0, <2>1, Alone
  <2> QED BY <1>1, <1>2, <2>1, <2>2 DEF Running
<1>3. CASE ~Picks(w, m)
  <2>1. Running(w, m)
    BY <1>3, WorksJob
  <2>2. run[w].held /\ job[m].st = "active" /\ \A x \in Workers : Running(x, m) => x = w
    BY <1>0, <2>1, Alone
  <2>3. ~Lapses(w)
    BY Moves DEF Told, Excused
  <2> QED BY <1>1, <1>3, <2>1, <2>2, <2>3 DEF Running
<1> QED BY <1>2, <1>3

\* What it does to the send and to the row, step by step.
LEMMA WorkTells ==
  ASSUME TypeInv, LogOK, OnceOK, PathOK, ToldOK, Told', Next,
         NEW w \in Workers, NEW m \in Msgs, Works(w, m), ~Picks(w, m)
  PROVE  /\ Checks(w) =>
              /\ run[w].pc = "check" /\ run'[w].pc \in {"idle", "send"}
              /\ row' = row /\ sent' = sent
              /\ run'[w].pc = "idle" => sent[m] > 0
              /\ run'[w].pc = "send" => sent[m] = 0
         /\ Sends(w) =>
              /\ run[w].pc = "send" /\ row' = row
              /\ \/ run'[w].pc = "log"
                 \/ /\ run'[w].pc \in {"refused", "throw"} /\ sent'[m] = sent[m]
                    /\ kind[m] = "notification" => run'[w].pc = "refused"
         /\ Logs(w) =>
              /\ run[w].pc = "log" /\ row' = row /\ sent' = sent
              /\ run'[w].pc \in {"accepted", "idle"}
              /\ kind[m] = "notification" => run'[w].pc = "accepted" /\ job' = job
         /\ Reports(w) =>
              /\ sent' = sent /\ kind[m] = "notification"
              /\ \/ /\ run[w].pc = "accepted" /\ run'[w].pc = "idle"
                    /\ row'[m] = "sent" /\ sent[m] > 0
                 \/ /\ run[w].pc \in {"refused", "buried"} /\ run'[w].pc \in {"throw", "fail"}
                    /\ row'[m] = "failed" /\ job' = job
         /\ Throws(w) =>
              run[w].pc = "throw" /\ run'[w].pc \in {"buried", "fail"} /\ row' = row /\ sent' = sent
         /\ Fails(w) => run[w].pc = "fail" /\ run'[w].pc = "idle" /\ row' = row /\ sent' = sent
<1> USE DEF TypeInv
<1>0. /\ Running(w, m) /\ run[w].m = m /\ run[w].pc # "idle" /\ run[w].held
      /\ \A x \in Workers \ {w} : ~Running(x, m)
  BY AtWork
<1>1. Calm /\ PathOf(m) /\ ToldOf(m)
  BY StillTold DEF PathOK
<1>2. ASSUME NEW a \in {"log unread", "unsure", "unmarked"} PROVE ~Note(a, TRUE)
  <2>1. a \notin mishaps'
    BY DEF Told, Excused
  <2> QED BY <2>1 DEF Note
<1>3. ASSUME NEW to, Step(w, to) PROVE run'[w].pc = to
  BY <1>0, <1>3, RunTyped DEF Step, RunOK
<1>4. ASSUME Returns(w) PROVE run'[w].pc = "idle"
  BY <1>4 DEF Returns, NoRun, RunOK
<1>5. ASSUME Checks(w)
      PROVE  /\ run[w].pc = "check" /\ run'[w].pc \in {"idle", "send"}
             /\ row' = row /\ sent' = sent
             /\ run'[w].pc = "idle" => sent[m] > 0
             /\ run'[w].pc = "send" => sent[m] = 0
  <2>1. /\ run[w].pc = "check" /\ row' = row /\ sent' = sent
        /\ \/ m \in log /\ Returns(w)
           \/ m \notin log /\ Step(w, "send")
    BY <1>0, <1>2, <1>5 DEF Checks
  <2>2. m \in log => sent[m] > 0
    BY DEF LogOK
  <2>3. m \notin log => sent[m] = 0
    <3>1. ~\E x \in Workers : run[x].pc = "log" /\ run[x].m = m
      BY <1>0, <2>1 DEF Running
    <3>2. sent[m] \in Nat
      BY DEF RestOK
    <3> QED BY <1>1, <3>1, <3>2 DEF OnceOK
  <2> QED BY <1>3, <1>4, <2>1, <2>2, <2>3
<1>6. ASSUME Sends(w)
      PROVE  /\ run[w].pc = "send" /\ row' = row
             /\ \/ run'[w].pc = "log"
                \/ /\ run'[w].pc \in {"refused", "throw"} /\ sent'[m] = sent[m]
                   /\ kind[m] = "notification" => run'[w].pc = "refused"
  <2>1. /\ run[w].pc = "send" /\ row' = row
        /\ \/ Step(w, "log")
           \/ /\ Step(w, IF kind[m] = "notification" THEN "refused" ELSE "throw")
              /\ sent' = sent
    BY <1>0, <1>2, <1>6 DEF Sends
  <2>2. CASE Step(w, "log")
    BY <1>3, <2>1, <2>2
  <2>3. CASE Step(w, IF kind[m] = "notification" THEN "refused" ELSE "throw") /\ sent' = sent
    <3>1. run'[w].pc = IF kind[m] = "notification" THEN "refused" ELSE "throw"
      BY <1>3, <2>3
    <3> QED BY <2>1, <2>3, <3>1
  <2> QED BY <2>1, <2>2, <2>3
<1>7. ASSUME Logs(w)
      PROVE  /\ run[w].pc = "log" /\ row' = row /\ sent' = sent
             /\ run'[w].pc \in {"accepted", "idle"}
             /\ kind[m] = "notification" => run'[w].pc = "accepted" /\ job' = job
  <2>1. /\ run[w].pc = "log" /\ row' = row /\ sent' = sent
        /\ IF kind[m] = "notification" THEN Step(w, "accepted") /\ UNCHANGED job ELSE Returns(w)
    BY <1>0, <1>7 DEF Logs
  <2> QED BY <1>3, <1>4, <2>1
<1>8. ASSUME Reports(w)
      PROVE  /\ sent' = sent /\ kind[m] = "notification"
             /\ \/ /\ run[w].pc = "accepted" /\ run'[w].pc = "idle"
                   /\ row'[m] = "sent" /\ sent[m] > 0
                \/ /\ run[w].pc \in {"refused", "buried"} /\ run'[w].pc \in {"throw", "fail"}
                   /\ row'[m] = "failed" /\ job' = job
  <2>1. /\ run[w].pc \in {"accepted", "refused", "buried"} /\ sent' = sent
        /\ row' = [row EXCEPT ![m] = IF run[w].pc = "accepted" THEN "sent" ELSE "failed"]
    BY <1>0, <1>2, <1>8 DEF Reports, Update
  <2>2. kind[m] = "notification"
    BY <1>0, <1>1, <2>1 DEF PathOf
  <2>3. row'[m] = IF run[w].pc = "accepted" THEN "sent" ELSE "failed"
    BY <2>1 DEF MsgOK
  <2>4. CASE run[w].pc = "accepted"
    <3>1. Returns(w) /\ sent[m] > 0
      BY <1>0, <1>8, <2>4 DEF Reports, LogOK
    <3> QED BY <1>4, <2>1, <2>2, <2>3, <2>4, <3>1
  <2>5. CASE run[w].pc = "refused"
    <3>1. Step(w, "throw") /\ job' = job
      BY <1>8, <2>5 DEF Reports
    <3> QED BY <1>3, <2>1, <2>2, <2>3, <2>5, <3>1
  <2>6. CASE run[w].pc = "buried"
    <3>1. Step(w, "fail") /\ job' = job
      BY <1>8, <2>6 DEF Reports
    <3> QED BY <1>3, <2>1, <2>2, <2>3, <2>6, <3>1
  <2> QED BY <2>1, <2>4, <2>5, <2>6
<1>9. ASSUME Throws(w)
      PROVE  run[w].pc = "throw" /\ run'[w].pc \in {"buried", "fail"} /\ row' = row /\ sent' = sent
  BY <1>9, Moves DEF Throws
<1>10. ASSUME Fails(w)
       PROVE  run[w].pc = "fail" /\ run'[w].pc = "idle" /\ row' = row /\ sent' = sent
  BY <1>10, Moves DEF Fails
<1> QED BY <1>5, <1>6, <1>7, <1>8, <1>9, <1>10

\* The row of a notification follows its worker.
LEMMA NoticeStep ==
  ASSUME TypeInv, LogOK, OnceOK, PathOK, ToldOK, Told', Next,
         NEW w \in Workers, NEW m \in Msgs, Works(w, m), kind[m] = "notification"
  PROVE  NoticeRow(m)'
<1> USE DEF TypeInv
<1>0. NoticeRow(m) /\ ToldOf(m) /\ UNCHANGED <<pgmq, hand>>
  BY StillTold, WorksFrame DEF ToldOf
<1>1. \A x \in Workers \ {w} : ~Running(x, m) /\ ~Running(x, m)'
  BY AtWork
<1>2. Answered(m)' <=> Answered(m)
  BY <1>0 DEF Answered
<1>3. CASE Picks(w, m)
  <2>1. /\ row' = row /\ sent' = sent /\ job[m].st = "wait" /\ job'[m].st = "active"
        /\ run'[w].pc = "check" /\ \A x \in Workers : ~Running(x, m)
    <3>1. row' = row /\ sent' = sent /\ run'[w].pc = "check"
      BY <1>3, Moves DEF Picks
    <3>2. job[m].st = "wait" /\ job'[m].st = "active" /\ \A x \in Workers : ~Running(x, m)
      BY <1>3, AtWork, WorksJob
    <3> QED BY <3>1, <3>2
  <2>2. sent[m] > 0 => row[m] = "sent"
    BY <1>0, <2>1 DEF NoticeRow
  <2>3. \A x \in Workers : Running(x, m)' => run'[x].pc = "check"
    BY <1>1, <2>1
  <2> QED BY <1>0, <1>2, <2>1, <2>2, <2>3 DEF NoticeRow, Pending
<1>4. CASE ~Picks(w, m)
  <2>0. Running(w, m) /\ run[w].m = m /\ run[w].pc # "idle" /\ job[m].st = "active" /\ ~Lapses(w)
    BY <1>4, AtWork
  <2>1. run'[w].pc # "idle" => Running(w, m)'
    BY <1>4, <2>0, OthersStay DEF Works, Running
  <2>2. sent[m] \in Nat
    BY DEF RestOK
  \* What the four acts of a worker leave behind.
  <2>3. \/ job'[m] = job[m]
        \/ job'[m].st = "completed" /\ row'[m] = "sent"
        \/ job'[m].st \in {"wait", "failed"} /\ row'[m] = "failed"
    <3>1. CASE Fails(w)
      <4>1. row'[m] = "failed"
        BY <1>0, <1>4, <2>0, <3>1, WorkTells DEF NoticeRow
      <4>2. job'[m] = job[m] \/ Leaves(w) \/ job'[m].st \in {"wait", "failed"}
        BY <2>0, WorksJob
      <4>3. job'[m] = job[m] \/ job'[m].st \in {"wait", "failed"}
        BY <2>0, <3>1 DEF Fails, JobOK, Jobs
      <4> QED BY <4>1, <4>3
    <3>2. CASE ~Fails(w)
      <4>1. job'[m] = job[m] \/ (Leaves(w) /\ job'[m].st = "completed")
        BY <2>0, <3>2, WorksJob
      <4>2. ASSUME Leaves(w) PROVE run'[w].pc = "idle"
        BY <4>2 DEF Leaves, Returns, NoRun, RunOK
      <4>3. CASE Checks(w)
        <5>1. run'[w].pc = "idle" => row[m] = "sent"
          <6>1. ~\E x \in Workers : Running(x, m) /\ run[x].pc \in {"log", "accepted"}
            BY <1>1, <1>4, <2>0, <4>3, WorkTells
          <6> QED BY <1>0, <1>4, <4>3, <6>1, WorkTells DEF NoticeRow
        <5> QED BY <1>4, <4>1, <4>2, <4>3, <5>1, WorkTells
      <4>4. CASE Logs(w)
        BY <1>4, <4>4, WorkTells
      <4>5. CASE Reports(w)
        BY <1>4, <4>1, <4>5, WorkTells
      <4>6. CASE Sends(w) \/ Throws(w)
        BY <4>6 DEF Sends, Throws
      <4> QED BY <1>4, <2>0, <3>2, <4>3, <4>4, <4>5, <4>6 DEF Works
    <3> QED BY <3>1, <3>2
  <2>4. row'[m] = row[m] \/ row'[m] \in {"sent", "failed"}
    BY <1>4, WorkTells, WorksFrame
  \* The first: what is thrown has failed.
  <2>5. run'[w].pc \in {"throw", "buried", "fail"} => row'[m] = "failed"
    <3>1. CASE Checks(w) \/ Sends(w) \/ Logs(w) \/ Fails(w)
      BY <1>4, <3>1, WorkTells
    <3>2. CASE Reports(w)
      BY <1>4, <3>2, WorkTells
    <3>3. CASE Throws(w)
      BY <1>0, <1>4, <2>0, <3>3, WorkTells DEF NoticeRow
    <3> QED BY <1>4, <2>0, <3>1, <3>2, <3>3 DEF Works
  \* What the row says was sent, was.
  <2>6. row'[m] = "sent" => sent'[m] > 0
    <3>1. row[m] = "sent" => sent'[m] > 0
      <4>1. sent'[m] >= sent[m] /\ sent'[m] \in Nat
        BY SentGrows
      <4> QED BY <1>0, <2>2, <4>1 DEF NoticeRow
    <3>2. CASE Reports(w)
      BY <1>4, <3>2, WorkTells
    <3>3. CASE ~Reports(w)
      BY <3>1, <3>3, WorksFrame
    <3> QED BY <3>2, <3>3
  \* What was sent, the row says or is about to.
  <2>7. sent'[m] > 0 =>
          row'[m] = "sent" \/ (Running(w, m)' /\ run'[w].pc \in {"log", "accepted"})
    <3>0. run[w].pc \notin {"log", "accepted"} /\ sent[m] > 0 => row[m] = "sent"
      BY <1>0, <1>1 DEF NoticeRow
    <3>1. CASE Checks(w)
      BY <1>4, <3>0, <3>1, WorkTells
    <3>2. CASE Sends(w)
      <4>1. sent[m] = 0
        BY <1>0, <1>4, <2>0, <3>2, WorkTells DEF ToldOf
      <4> QED BY <1>4, <2>1, <3>2, <4>1, WorkTells
    <3>3. CASE Logs(w)
      BY <1>4, <2>1, <3>3, WorkTells
    <3>4. CASE Reports(w)
      <4>1. run[w].pc \in {"refused", "buried"} => sent[m] = 0
        BY <1>0, <2>0 DEF ToldOf
      <4> QED BY <1>4, <3>4, <4>1, WorkTells
    <3>5. CASE Throws(w) \/ Fails(w)
      <4>1. sent[m] = 0
        BY <1>0, <1>4, <2>0, <3>5, WorkTells DEF ToldOf
      <4> QED BY <1>4, <3>5, <4>1, WorkTells
    <3> QED BY <1>4, <2>0, <3>1, <3>2, <3>3, <3>4, <3>5 DEF Works
  <2>8. \A x \in Workers : Running(x, m)' /\ run'[x].pc \in {"throw", "buried", "fail"} =>
          row'[m] = "failed"
    BY <1>1, <2>5
  <2>9. /\ row'[m] = "skipped" => pgmq'[m] = "none"
        /\ job'[m].st = "completed" => row'[m] = "sent"
        /\ job'[m].st = "failed" => row'[m] = "failed"
        /\ Answered(m)' => job'[m].st \in Pending \/ row'[m] \in {"sent", "failed"}
    BY <1>0, <2>0, <2>3, <2>4 DEF NoticeRow, Pending
  <2> QED BY <2>6, <2>7, <2>8, <2>9 DEF NoticeRow
<1> QED BY <1>3, <1>4

LEMMA RunTold ==
  ASSUME TypeInv, LogOK, OnceOK, PathOK, ToldOK, Told', Next, RunStep, NEW n \in Msgs
  PROVE  ToldOf(n)'
<1> USE DEF TypeInv
<1>0. PICK w \in Workers, m \in Msgs : Works(w, m)
  BY WorksAre
<1>1. /\ ToldOf(n) /\ kind' = kind /\ (n \in hidden => n \in hidden')
      /\ Same(n) => ToldOf(n)'
  BY StillTold, SameTold, Monotone
<1>2. CASE n # m
  BY <1>0, <1>1, <1>2, WorksTouches
<1>3. CASE n = m
  <2>0. \A x \in Workers \ {w} : ~Running(x, m) /\ ~Running(x, m)'
    BY <1>0, AtWork
  <2>1. UNCHANGED <<pgmq, hand>> /\ (Answered(m)' <=> Answered(m))
    BY <1>0, WorksFrame DEF Answered
  <2>2. job'[m].st = "active" => \E x \in Workers : Running(x, m)'
    <3>1. CASE Picks(w, m)
      BY <3>1, Moves DEF Running
    <3>2. CASE ~Picks(w, m)
      <4>0. Running(w, m) /\ run[w].pc # "idle" /\ run[w].held /\ ~Lapses(w)
        BY <1>0, <3>2, AtWork
      <4>1. Leaves(w) \/ Fails(w) => job'[m].st # "active"
        BY <1>0, <4>0, WorksJob
      <4>2. Advances(w) => run'[w].pc # "idle"
        <5>1. SUFFICES ASSUME Advances(w) PROVE run'[w].pc # "idle"
          OBVIOUS
        <5>2. PICK to \in Points : Step(w, to)
          BY <5>1 DEF Advances
        <5>3. run'[w].pc = to
          BY <4>0, <5>2, RunTyped DEF Step, RunOK
        <5> QED BY <5>2, <5>3 DEF Points
      <4>3. Advances(w) \/ Leaves(w) \/ Fails(w)
        BY <1>0, <3>2, <4>0, RunShape DEF Works
      <4>4. run'[w].pc # "idle" => Running(w, m)'
        BY <1>0, <3>2, <4>0, OthersStay DEF Works, Running
      <4> QED BY <4>1, <4>2, <4>3, <4>4
    <3> QED BY <3>1, <3>2
  <2>3. run'[w].pc \in {"send", "refused", "throw", "buried", "fail"} => sent'[m] = 0
    <3>1. CASE Picks(w, m)
      BY <3>1, Moves
    <3>2. CASE ~Picks(w, m)
      <4>0. Running(w, m) /\ ~Lapses(w)
        BY <1>0, <3>2, AtWork
      <4>1. run[w].pc \in {"send", "refused", "throw", "buried", "fail"} => sent[m] = 0
        BY <1>1, <1>3, <4>0 DEF ToldOf
      <4>2. CASE Checks(w) \/ Logs(w) \/ Fails(w)
        BY <1>0, <3>2, <4>2, WorkTells
      <4>3. CASE Sends(w) \/ Throws(w)
        BY <1>0, <3>2, <4>1, <4>3, WorkTells
      <4>4. CASE Reports(w)
        BY <1>0, <3>2, <4>1, <4>4, WorkTells
      <4> QED BY <1>0, <3>2, <4>0, <4>2, <4>3, <4>4 DEF Works
    <3> QED BY <3>1, <3>2
  <2>4. kind[m] # "notification" => row'[m] = row[m]
    <3>1. CASE Picks(w, m)
      BY <3>1 DEF Picks
    <3>2. CASE ~Picks(w, m)
      BY <1>0, <3>2, WorkTells, WorksFrame
    <3> QED BY <3>1, <3>2
  <2>5. kind[m] = "carrier" => CarrierRow(m)'
    BY <1>1, <1>3, <2>1, <2>4 DEF ToldOf, CarrierRow
  <2>6. kind[m] = "digest" => DigestRow(m)'
    BY <1>1, <1>3, <2>1, <2>4 DEF ToldOf, DigestRow
  <2>7. kind[m] = "notification" => NoticeRow(m)'
    BY <1>0, NoticeStep
  <2> QED BY <1>1, <1>3, <2>0, <2>1, <2>2, <2>3, <2>5, <2>6, <2>7 DEF ToldOf
<1> QED BY <1>2, <1>3

LEMMA ToldStep ==
  ASSUME TypeInv, LogOK, OnceOK, PathOK, ToldOK, Next PROVE ToldOK'
<1> SUFFICES ASSUME Told', NEW n \in Msgs PROVE ToldOf(n)'
  BY DEF ToldOK
<1> QED BY WorldTold, JobTold, HandTold, RunTold, StepsAre

----------------------------------------------------------------------------
(* The theorems.                                                            *)

StatusInv == DeliveryInv /\ PathOK /\ ToldOK

LEMMA StatusInit == Init => StatusInv
<1> SUFFICES ASSUME Init PROVE StatusInv
  OBVIOUS
<1>1. ASSUME NEW m \in Msgs PROVE PathOf(m) /\ ToldOf(m)
  <2>1. /\ kind[m] \in Kinds /\ row[m] = IF kind[m] = "push" THEN "none" ELSE "pending"
        /\ pgmq[m] = IF kind[m] = "push" THEN "visible" ELSE "none"
        /\ \A c \in Consumers : hand[c][m] = "idle"
        /\ job[m].st = "none" /\ sent[m] = 0
    BY DEF Init, NoJob
  <2>2. \A w \in Workers : ~Running(w, m)
    BY DEF Init, NoRun, Running
  <2>3. PathOf(m)
    BY <2>1, <2>2 DEF PathOf, HandPath, Free
  <2>4. ~Answered(m)
    BY <2>1 DEF Answered
  <2>5. kind[m] # "push" => CarrierRow(m) /\ DigestRow(m) /\ NoticeRow(m)
    BY <2>1, <2>2, <2>4 DEF CarrierRow, DigestRow, NoticeRow
  <2> QED BY <2>1, <2>2, <2>3, <2>5 DEF ToldOf
<1> QED BY <1>1, InitInv DEF StatusInv, PathOK, ToldOK

LEMMA StatusStep == ASSUME StatusInv, [Next]_vars PROVE StatusInv'
<1> USE DEF StatusInv
<1>1. DeliveryInv'
  BY InvStep
<1>2. CASE Next
  <2>1. TypeInv /\ LogOK /\ OnceOK
    BY DEF DeliveryInv
  <2> QED BY <1>1, <1>2, <2>1, PathStep, ToldStep
<1>3. CASE UNCHANGED vars
  <2>1. PathOK'
    BY <1>3 DEF vars, seen, world, PathOK, PathOf, HandPath, Free, Running
  <2>2. Told' <=> Told
    BY <1>3 DEF vars, seen, Told, Excused
  <2>3. ASSUME NEW m \in Msgs, ToldOf(m) PROVE ToldOf(m)'
    <3>1. UNCHANGED <<kind, row, pgmq, hand, job, run, hidden, sent>>
      BY <1>3 DEF vars, seen, world
    <3>2. (Answered(m)' <=> Answered(m)) /\ \A w \in Workers : Running(w, m)' <=> Running(w, m)
      BY <3>1 DEF Answered, Running
    <3>3. CarrierRow(m) => CarrierRow(m)'
      BY <3>1, <3>2 DEF CarrierRow
    <3>4. DigestRow(m) => DigestRow(m)'
      BY <3>1, <3>2 DEF DigestRow
    <3>5. NoticeRow(m) => NoticeRow(m)'
      BY <3>1, <3>2 DEF NoticeRow
    <3> QED BY <2>3, <3>1, <3>2, <3>3, <3>4, <3>5 DEF ToldOf
  <2>4. ToldOK'
    BY <2>2, <2>3 DEF ToldOK
  <2> QED BY <1>1, <2>1, <2>4
<1> QED BY <1>2, <1>3

\* The invariant behind the next theorem: a message goes only where its kind may go, and
\* the row of one that is under way says how far it got (email/queue.ts: the status is
\* written after the send and after the dead letter).
THEOREM StatusInvariant == Spec => []StatusInv
  BY StatusInit, StatusStep, PTL DEF Spec

\* When a message is done, its row says sent, failed or skipped as it was: a notification
\* that failed all its attempts was not sent, one that says sent was, and a digest is
\* skipped only if it was not sent or its documents are hidden by now
\* (email/queue.ts, email/pgmqConsumer.ts: updateEmailStatus).
THEOREM StatusTellsTruth == Spec => []StatusIsTrue
<1>1. StatusInv => StatusIsTrue
  <2>1. SUFFICES ASSUME StatusInv, Told, NEW m \in Msgs, Quiet(m), row[m] # "none"
                 PROVE  \/ row[m] = "sent" /\ (sent[m] > 0 \/ kind[m] = "digest")
                        \/ row[m] = "failed" /\ sent[m] = 0
                        \/ row[m] = "skipped" /\ (sent[m] = 0 \/ m \in hidden)
    BY DEF StatusIsTrue, Told
  <2>2. PathOf(m) /\ ToldOf(m) /\ kind[m] \in Kinds /\ sent[m] \in Nat
    BY <2>1 DEF StatusInv, PathOK, ToldOK, DeliveryInv, TypeInv, MsgOK, RestOK
  <2>3. Answered(m) /\ pgmq[m] = "gone"
    BY <2>1 DEF Quiet, Answered
  <2>4. CASE kind[m] = "carrier"
    BY <2>2, <2>3, <2>4 DEF PathOf, ToldOf, CarrierRow, Free
  <2>5. CASE kind[m] = "digest"
    BY <2>2, <2>3, <2>5 DEF ToldOf, DigestRow
  <2>6. CASE kind[m] = "notification"
    <3>1. NoticeRow(m) /\ job[m].st \notin Pending /\ \A w \in Workers : ~Running(w, m)
      BY <2>1, <2>2, <2>6 DEF ToldOf, Quiet
    <3> QED BY <2>2, <2>3, <3>1 DEF NoticeRow
  <2>7. kind[m] # "push"
    BY <2>1, <2>2 DEF PathOf
  <2> QED BY <2>2, <2>4, <2>5, <2>6, <2>7 DEF Kinds
<1> QED BY <1>1, StatusInvariant, PTL
=============================================================================
