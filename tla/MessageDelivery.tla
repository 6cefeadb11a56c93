--------------------------- MODULE MessageDelivery ---------------------------
(***************************************************************************)
(* Email and push delivery.  A cron function in the database moves a due    *)
(* email_queue row to a pgmq queue (07-5-email-notifications-pgmq.sql); a   *)
(* push notification is put there by a trigger (07-4).  A consumer reads    *)
(* messages under a visibility timeout, adds a BullMQ job under an id made  *)
(* of the message, and acknowledges (pgmqConsumer.ts, email/pgmqConsumer.ts, *)
(* push/pgmqConsumer.ts).  A worker sends it, records the send in a log     *)
(* that retries consult, and writes the row's status (email/queue.ts,       *)
(* push/queue.ts).                                                          *)
(*                                                                          *)
(* A digest covers several rows of one reader, which move together: they    *)
(* are one row here.                                                        *)
(***************************************************************************)
EXTENDS Naturals, FiniteSets

CONSTANTS
  Msgs,        \* what is to be delivered
  Consumers,   \* processes that read the pgmq queues
  Workers,     \* concurrent executions of the email and push workers
  Batch,       \* messages read at once
  MaxAttempts, \* attempts of a job: 3 in the code
  MaxStalls,   \* maxStalledCount: 2 in the code
  MaxFaults,   \* bound on faults
  Faults       \* the kinds of fault explored: see the actions that name one

ASSUME DeliveryAssumption ==
  /\ Batch \in Nat \ {0} /\ MaxAttempts \in Nat \ {0}
  /\ MaxStalls \in Nat /\ MaxFaults \in Nat

VARIABLES
  kind,    \* kind[m]: what message m is, fixed at the start
  row,     \* row[m]: the status of its email_queue row
  pgmq,    \* pgmq[m]: where its pgmq message is
  hand,    \* hand[c][m]: where consumer c stands with it
  job,     \* job[m]: its BullMQ job
  run,     \* run[w]: where worker w stands, and with which message
  log,     \* the messages with a row in the sent log
  dead,    \* the messages in the dead-letter queue
  read,    \* the messages whose notification was read in the application
  hidden,  \* the digests none of whose documents their reader may see
  faults,  \* faults so far (bound)
  \* Observers, which no action reads.
  sent,    \* sent[m]: times the provider delivered it
  mishaps  \* the accidents so far that the properties excuse

world == <<read, hidden>>
seen == <<sent, mishaps>>
vars == <<kind, row, pgmq, hand, job, run, log, dead, world, faults, seen>>

\* "carrier" is a content_change on the immediate path, which only a digest may carry.
Kinds == {"notification", "carrier", "digest", "push"}
Status == {"none", "pending", "processing", "sent", "failed", "skipped"}
Pending == {"wait", "active"}

NoJob == [st |-> "none", made |-> 0, stalls |-> 0]
NoRun == [pc |-> "idle"]

Init ==
  /\ kind \in [Msgs -> Kinds]
  /\ row = [m \in Msgs |-> IF kind[m] = "push" THEN "none" ELSE "pending"]
  /\ pgmq = [m \in Msgs |-> IF kind[m] = "push" THEN "visible" ELSE "none"]
  /\ hand = [c \in Consumers |-> [m \in Msgs |-> "idle"]]
  /\ job = [m \in Msgs |-> NoJob]
  /\ run = [w \in Workers |-> NoRun]
  /\ log = {} /\ dead = {} /\ read = {} /\ hidden = {} /\ faults = 0
  /\ sent = [m \in Msgs |-> 0] /\ mishaps = {}

Fault(f) == f \in Faults /\ faults < MaxFaults /\ faults' = faults + 1
Note(accident, happened) == mishaps' = IF happened THEN mishaps \cup {accident} ELSE mishaps
Excused(accidents) == mishaps \cap accidents # {}

Running(w, m) == run[w].pc # "idle" /\ run[w].m = m

----------------------------------------------------------------------------
(* The world, and the database's cron functions.                            *)

ReadsInApp(m) ==
  /\ row[m] = "pending" /\ m \notin read
  /\ read' = read \cup {m}
  /\ UNCHANGED <<kind, row, pgmq, hand, job, run, log, dead, hidden, faults, seen>>

\* The documents of a digest are made private, trashed or deleted.
Hides(m) ==
  /\ kind[m] = "digest" /\ m \notin hidden
  /\ hidden' = hidden \cup {m}
  /\ UNCHANGED <<kind, row, pgmq, hand, job, run, log, dead, read, faults, seen>>

\* process_email_queue, compile_digest_emails.
Process(m) ==
  /\ row[m] = "pending"
  /\ IF m \in read
     THEN row' = [row EXCEPT ![m] = "skipped"] /\ UNCHANGED pgmq
     ELSE row' = [row EXCEPT ![m] = "processing"] /\ pgmq' = [pgmq EXCEPT ![m] = "visible"]
  /\ UNCHANGED <<kind, hand, job, run, log, dead, world, faults, seen>>

\* The visibility timeout passes, whether or not the consumer is done.
LeaseExpires(m) ==
  /\ pgmq[m] = "leased"
  /\ pgmq' = [pgmq EXCEPT ![m] = "visible"]
  /\ UNCHANGED <<kind, row, hand, job, run, log, dead, world, faults, seen>>

----------------------------------------------------------------------------
(* The consumers.                                                           *)

Goes(c, m, to) == hand' = [hand EXCEPT ![c][m] = to]
Update(m, status) == row' = [row EXCEPT ![m] = status]

\* pollQueue: the next batch, once the last one is dealt with.
Polls(c) ==
  /\ \A m \in Msgs : hand[c][m] = "idle"
  /\ \E batch \in SUBSET {m \in Msgs : pgmq[m] = "visible"} :
       /\ batch # {} /\ Cardinality(batch) <= Batch
       /\ pgmq' = [m \in Msgs |-> IF m \in batch THEN "leased" ELSE pgmq[m]]
       /\ hand' = [hand EXCEPT ![c] =
            [m \in Msgs |-> IF m \notin batch THEN "idle"
                            ELSE CASE kind[m] = "carrier" -> "skip"
                                   [] kind[m] = "digest" -> "weigh"
                                   [] OTHER -> "add"]]
  /\ UNCHANGED <<kind, row, job, run, log, dead, world, faults, seen>>

\* Mutant: a read that failed counts as an empty answer.
WeighsBlind(c, m) ==
  /\ hand[c][m] = "weigh"
  /\ \/ Goes(c, m, IF m \in hidden THEN "skip" ELSE "add") /\ UNCHANGED faults
     \/ Fault("db") /\ Goes(c, m, "skip")
  /\ UNCHANGED <<kind, row, pgmq, job, run, log, dead, world, seen>>

\* decideDigestOutcome: what the reader may still see is sent, nothing at all is skipped,
\* and a read that failed is no answer.
Weighs(c, m) ==
  /\ hand[c][m] = "weigh"
  /\ \/ Goes(c, m, IF m \in hidden THEN "skip" ELSE "add") /\ UNCHANGED faults
     \/ Fault("db") /\ Goes(c, m, "idle")
  /\ UNCHANGED <<kind, row, pgmq, job, run, log, dead, world, seen>>

\* EmailQueue.add under a stable id: a job BullMQ knows, finished or not, stays as it is.
Added(m) == IF job[m].st = "none" THEN [job EXCEPT ![m].st = "wait"] ELSE job

\* Mutant: the failed enqueue of an email is acknowledged all the same.
AddsAcked(c, m) ==
  /\ hand[c][m] = "add"
  /\ \/ /\ job' = Added(m) /\ UNCHANGED <<faults, mishaps>>
        /\ Goes(c, m, IF kind[m] = "digest" THEN "mark" ELSE "ack")
     \/ /\ Fault("redis") /\ UNCHANGED <<job, mishaps>>
        /\ Goes(c, m, "ack")
  /\ UNCHANGED <<kind, row, pgmq, run, log, dead, world, sent>>

\* queueEmail, queuePush.  The call may fail after Redis took the job.  An email's row
\* is then marked failed; either way the message is left to be redelivered.
Adds(c, m) ==
  /\ hand[c][m] = "add"
  /\ \/ /\ job' = Added(m) /\ UNCHANGED <<faults, mishaps>>
        /\ Goes(c, m, IF kind[m] = "digest" THEN "mark" ELSE "ack")
     \/ /\ Fault("redis") /\ Note("enqueue failed", TRUE)
        /\ job' \in {job, Added(m)}
        /\ Goes(c, m, IF kind[m] = "push" THEN "idle" ELSE "fail")
  /\ UNCHANGED <<kind, row, pgmq, run, log, dead, world, sent>>

\* updateEmailStatus: whatever the row says by now, and without a word when it fails.
Marks(c, m) ==
  /\ hand[c][m] \in {"mark", "skip", "fail"}
  /\ \/ /\ Update(m, CASE hand[c][m] = "mark" -> "sent"
                       [] hand[c][m] = "skip" -> "skipped"
                       [] hand[c][m] = "fail" -> "failed")
        /\ UNCHANGED <<faults, mishaps>>
     \/ Fault("status") /\ Note("unmarked", TRUE) /\ UNCHANGED row
  /\ Goes(c, m, IF hand[c][m] = "fail" THEN "idle" ELSE "ack")
  /\ UNCHANGED <<kind, pgmq, job, run, log, dead, world, sent>>

\* ackMessage.
Acks(c, m) ==
  /\ hand[c][m] = "ack"
  /\ \/ pgmq' = [pgmq EXCEPT ![m] = "gone"] /\ UNCHANGED faults
     \/ Fault("ack") /\ UNCHANGED pgmq
  /\ Goes(c, m, "idle")
  /\ UNCHANGED <<kind, row, job, run, log, dead, world, seen>>

ConsumerDies(c) ==
  /\ \E m \in Msgs : hand[c][m] # "idle"
  /\ Fault("crash")
  /\ hand' = [hand EXCEPT ![c] = [m \in Msgs |-> "idle"]]
  /\ UNCHANGED <<kind, row, pgmq, job, run, log, dead, world, seen>>

----------------------------------------------------------------------------
(* The workers.                                                             *)

Step(w, to) == run' = [run EXCEPT ![w].pc = to]

Picks(w, m) ==
  /\ run[w].pc = "idle" /\ job[m].st = "wait"
  /\ job' = [job EXCEPT ![m].st = "active"]
  /\ run' = [run EXCEPT ![w] = [pc |-> "check", m |-> m, made |-> job[m].made, held |-> TRUE]]
  /\ UNCHANGED <<kind, row, pgmq, hand, log, dead, world, faults, seen>>

\* The processor returns; only the holder of the job's lock moves the job.
Returns(w) ==
  /\ job' = IF run[w].held THEN [job EXCEPT ![run[w].m].st = "completed"] ELSE job
  /\ run' = [run EXCEPT ![w] = NoRun]

\* Mutant: the sent log is not consulted.
ChecksNothing(w) ==
  /\ run[w].pc = "check"
  /\ Step(w, "send")
  /\ UNCHANGED <<kind, row, pgmq, hand, job, log, dead, world, faults, seen>>

\* The sent log: what it has is not sent again, nor is its row marked.
Checks(w) ==
  /\ run[w].pc = "check"
  /\ \/ run[w].m \in log /\ Returns(w) /\ UNCHANGED <<faults, mishaps>>
     \/ run[w].m \notin log /\ Step(w, "send") /\ UNCHANGED <<job, faults, mishaps>>
     \/ Fault("db") /\ Note("log unread", TRUE) /\ Step(w, "throw") /\ UNCHANGED job
  /\ UNCHANGED <<kind, row, pgmq, hand, log, dead, world, sent>>

\* The provider delivers, refuses, or delivers and fails to say so.
Sends(w) ==
  /\ run[w].pc = "send"
  /\ LET m == run[w].m
         refused == IF kind[m] = "notification" THEN "refused" ELSE "throw"
     IN  \/ /\ sent' = [sent EXCEPT ![m] = @ + 1]
            /\ Step(w, "log") /\ UNCHANGED <<faults, mishaps>>
         \/ Step(w, refused) /\ UNCHANGED <<sent, faults, mishaps>>
         \/ /\ Fault("provider") /\ Note("unsure", TRUE)
            /\ sent' = [sent EXCEPT ![m] = @ + 1]
            /\ Step(w, refused)
  /\ UNCHANGED <<kind, row, pgmq, hand, job, log, dead, world>>

\* The log is best effort.
Logs(w) ==
  /\ run[w].pc = "log"
  /\ LET m == run[w].m
     IN  \/ log' = log \cup {m} /\ UNCHANGED <<faults, mishaps>>
         \/ Fault("db") /\ Note("unlogged", TRUE) /\ UNCHANGED log
  /\ IF kind[run[w].m] = "notification" THEN Step(w, "accepted") /\ UNCHANGED job
     ELSE Returns(w)
  /\ UNCHANGED <<kind, row, pgmq, hand, dead, world, sent>>

\* Mutant: the result of the send is not looked at.
ReportsSent(w) ==
  /\ run[w].pc \in {"accepted", "refused", "buried"}
  /\ \/ Update(run[w].m, "sent") /\ UNCHANGED <<faults, mishaps>>
     \/ Fault("status") /\ Note("unmarked", TRUE) /\ UNCHANGED row
  /\ CASE run[w].pc = "accepted" -> Returns(w)
       [] run[w].pc = "refused" -> Step(w, "throw") /\ UNCHANGED job
       [] run[w].pc = "buried" -> Step(w, "fail") /\ UNCHANGED job
  /\ UNCHANGED <<kind, pgmq, hand, log, dead, world, sent>>

\* updateSupabaseEmailStatus after the send; "buried" is after the dead letter.
Reports(w) ==
  /\ run[w].pc \in {"accepted", "refused", "buried"}
  /\ \/ /\ Update(run[w].m, IF run[w].pc = "accepted" THEN "sent" ELSE "failed")
        /\ UNCHANGED <<faults, mishaps>>
     \/ Fault("status") /\ Note("unmarked", TRUE) /\ UNCHANGED row
  /\ CASE run[w].pc = "accepted" -> Returns(w)
       [] run[w].pc = "refused" -> Step(w, "throw") /\ UNCHANGED job
       [] run[w].pc = "buried" -> Step(w, "fail") /\ UNCHANGED job
  /\ UNCHANGED <<kind, pgmq, hand, log, dead, world, sent>>

\* Mutant: the final attempt is told by the attempts made before it.
ThrowsLate(w) ==
  /\ run[w].pc = "throw" /\ UNCHANGED <<faults, mishaps>>
  /\ IF run[w].made >= MaxAttempts
     THEN /\ dead' = dead \cup {run[w].m}
          /\ Step(w, IF kind[run[w].m] = "notification" THEN "buried" ELSE "fail")
     ELSE Step(w, "fail") /\ UNCHANGED dead
  /\ UNCHANGED <<kind, row, pgmq, hand, job, log, world, sent>>

\* The catch: the final attempt leaves a dead letter.
Throws(w) ==
  /\ run[w].pc = "throw"
  /\ IF run[w].made + 1 >= MaxAttempts
     THEN \/ /\ dead' = dead \cup {run[w].m} /\ UNCHANGED <<faults, mishaps>>
             /\ Step(w, IF kind[run[w].m] = "notification" THEN "buried" ELSE "fail")
          \/ /\ Fault("redis") /\ Note("no dead letter", TRUE)
             /\ Step(w, "fail") /\ UNCHANGED dead
     ELSE Step(w, "fail") /\ UNCHANGED <<dead, faults, mishaps>>
  /\ UNCHANGED <<kind, row, pgmq, hand, job, log, world, sent>>

\* The rejection reaches BullMQ: another attempt, after a backoff, or the end.
Fails(w) ==
  /\ run[w].pc = "fail"
  /\ LET m == run[w].m
     IN  job' = IF ~run[w].held THEN job
                ELSE [job EXCEPT ![m].made = @ + 1,
                        ![m].st = IF job[m].made + 1 >= MaxAttempts THEN "failed" ELSE "wait"]
  /\ run' = [run EXCEPT ![w] = NoRun]
  /\ UNCHANGED <<kind, row, pgmq, hand, log, dead, world, faults, seen>>

\* A worker dies, or hangs past its lock and goes on.
Lapses(w) ==
  /\ run[w].pc # "idle" /\ Note("lapsed", TRUE)
  /\ \/ Fault("crash") /\ run' = [run EXCEPT ![w] = NoRun]
     \/ run[w].held /\ Fault("stall") /\ run' = [run EXCEPT ![w].held = FALSE]
  /\ UNCHANGED <<kind, row, pgmq, hand, job, log, dead, world, sent>>

\* Mutant: a job somebody holds is redelivered too.
StalledHeld(m) ==
  /\ job[m].st = "active" /\ job[m].stalls < MaxStalls
  /\ job' = [job EXCEPT ![m].st = "wait", ![m].stalls = @ + 1]
  /\ UNCHANGED <<kind, row, pgmq, hand, run, log, dead, world, faults, seen>>

\* The stalled check: an active job nobody holds runs again, at most MaxStalls times;
\* then it fails where no catch runs.
Stalled(m) ==
  /\ job[m].st = "active" /\ \A w \in Workers : ~(Running(w, m) /\ run[w].held)
  /\ IF job[m].stalls < MaxStalls
     THEN job' = [job EXCEPT ![m].st = "wait", ![m].stalls = @ + 1] /\ UNCHANGED mishaps
     ELSE job' = [job EXCEPT ![m].st = "failed"] /\ Note("stalled out", TRUE)
  /\ UNCHANGED <<kind, row, pgmq, hand, run, log, dead, world, faults, sent>>

\* removeOnComplete, removeOnFail.
Forgets(m) ==
  /\ job[m].st \in {"completed", "failed"}
  /\ job' = [job EXCEPT ![m] = NoJob]
  /\ UNCHANGED <<kind, row, pgmq, hand, run, log, dead, world, faults, seen>>

----------------------------------------------------------------------------
ConsumerStep(c, m) == Weighs(c, m) \/ Adds(c, m) \/ Marks(c, m) \/ Acks(c, m)
WorkerStep(w) ==
  Checks(w) \/ Sends(w) \/ Logs(w) \/ Reports(w) \/ Throws(w) \/ Fails(w)

Next ==
  \/ \E m \in Msgs :
       \/ ReadsInApp(m) \/ Hides(m) \/ Process(m) \/ LeaseExpires(m)
       \/ Stalled(m) \/ Forgets(m)
  \/ \E c \in Consumers :
       \/ Polls(c) \/ ConsumerDies(c)
       \/ \E m \in Msgs : Weighs(c, m) \/ Adds(c, m) \/ Marks(c, m) \/ Acks(c, m)
  \/ \E w \in Workers :
       \/ \E m \in Msgs : Picks(w, m)
       \/ Checks(w) \/ Sends(w) \/ Logs(w) \/ Reports(w) \/ Throws(w) \/ Fails(w) \/ Lapses(w)

Spec == Init /\ [][Next]_vars

\* The cron jobs run, leases end, consumers poll and go on, workers take what waits and
\* go on, and the stalled check runs.
FairSpec ==
  /\ Spec
  /\ \A m \in Msgs :
       /\ WF_vars(Process(m)) /\ WF_vars(LeaseExpires(m)) /\ WF_vars(Stalled(m))
       /\ WF_vars(\E w \in Workers : Picks(w, m))
  /\ \A c \in Consumers :
       /\ WF_vars(Polls(c))
       /\ \A m \in Msgs : WF_vars(ConsumerStep(c, m))
  /\ \A w \in Workers : WF_vars(WorkerStep(w))

----------------------------------------------------------------------------
TypeOK ==
  /\ kind \in [Msgs -> Kinds] /\ row \in [Msgs -> Status]
  /\ pgmq \in [Msgs -> {"none", "visible", "leased", "gone"}]
  /\ hand \in [Consumers -> [Msgs -> {"idle", "weigh", "add", "mark", "skip", "fail", "ack"}]]
  /\ job \in [Msgs -> [st : {"none", "wait", "active", "completed", "failed"},
                       made : 0..MaxAttempts, stalls : 0..MaxStalls]]
  /\ log \subseteq Msgs /\ dead \subseteq Msgs /\ hidden \subseteq Msgs /\ faults \in 0..MaxFaults
  \* At most one worker holds a job's lock, and only while it is active.
  /\ \A w, x \in Workers : run[w].pc # "idle" /\ run[w].held =>
       /\ job[run[w].m].st = "active"
       /\ Running(x, run[w].m) /\ run[x].held => x = w

\* Read already, a carrier on the wrong path, or a digest with nothing to show.
Unwanted(m) == m \in read \/ m \in hidden \/ kind[m] = "carrier"

Quiet(m) ==
  /\ pgmq[m] = "gone" /\ job[m].st \notin Pending
  /\ \A c \in Consumers : hand[c][m] = "idle"
  /\ \A w \in Workers : ~Running(w, m)

\* Redelivered, retried or forgotten, a message is sent once, unless a send was left
\* without its line in the log.
SentOnce ==
  \A m \in Msgs : sent[m] <= 1 \/ Excused({"unsure", "unlogged", "lapsed"})

\* What pgmq has let go of is sent, dead-lettered, unwanted or still a job's business.
NothingLost ==
  \A m \in Msgs : pgmq[m] = "gone" =>
    \/ job[m].st \in Pending \/ sent[m] > 0 \/ m \in dead \/ Unwanted(m)
    \/ Excused({"stalled out", "no dead letter"})

\* When all is done the row tells what happened.  A digest's says "sent" at the enqueue,
\* and a redelivery that finds nothing to show any more overwrites it.
StatusIsTrue ==
  \A m \in Msgs : Quiet(m) /\ row[m] # "none" =>
    \/ row[m] = "sent" /\ (sent[m] > 0 \/ kind[m] = "digest")
    \/ row[m] = "failed" /\ sent[m] = 0
    \/ row[m] = "skipped" /\ (sent[m] = 0 \/ m \in hidden)
    \/ Excused({"enqueue failed", "unsure", "unlogged", "log unread", "unmarked", "lapsed"})

\* A digest is skipped because there was nothing to show, never because nobody knew.
SkipsAreAnswers ==
  \A m \in Msgs : row[m] = "skipped" => Unwanted(m)

\* Every message somebody wants is sent or buried in the end.
MessagesSettle ==
  \A m \in Msgs : pgmq[m] = "visible" ~>
    sent[m] > 0 \/ m \in dead \/ Unwanted(m) \/ Excused({"stalled out", "no dead letter"})
=============================================================================
