------------------------ MODULE MessageDeliveryProofs ------------------------
(***************************************************************************)
(* Proofs about MessageDelivery, for every number of messages, consumers    *)
(* and workers, any bounds and any set of faults: types and the job's lock, *)
(* that a message is sent once, that none is lost, and that none is skipped *)
(* but for a reason.                                                        *)
(***************************************************************************)
EXTENDS MessageDelivery, TLAPS

Hands == {"idle", "weigh", "add", "mark", "skip", "fail", "ack"}
Places == {"none", "visible", "leased", "gone"}
Jobs == [st : {"none", "wait", "active", "completed", "failed"},
         made : 0..MaxAttempts, stalls : 0..MaxStalls]
Points == {"check", "send", "log", "accepted", "refused", "throw", "buried", "fail"}
Runs == [pc : {"idle"}] \cup [pc : Points, m : Msgs, made : Nat, held : BOOLEAN]

MsgOK == kind \in [Msgs -> Kinds] /\ row \in [Msgs -> Status] /\ pgmq \in [Msgs -> Places]
HandOK == hand \in [Consumers -> [Msgs -> Hands]]
JobOK ==
  /\ job \in [Msgs -> Jobs]
  /\ \A m \in Msgs : job[m].st \in Pending \cup {"none"} => job[m].made < MaxAttempts
RunOK == run \in [Workers -> Runs]
RestOK ==
  /\ log \subseteq Msgs /\ dead \subseteq Msgs /\ hidden \subseteq Msgs
  /\ faults \in 0..MaxFaults /\ sent \in [Msgs -> Nat]

Holds(w, m) == run[w].pc # "idle" /\ run[w].m = m /\ run[w].held

\* The lock of a job: its holder runs the attempt the job is at, alone.
HeldOK == \A w \in Workers, m \in Msgs : Holds(w, m) =>
  /\ job[m].st = "active" /\ run[w].made = job[m].made
  /\ \A x \in Workers : Holds(x, m) => x = w

TypeInv == MsgOK /\ HandOK /\ JobOK /\ RunOK /\ RestOK /\ HeldOK

\* The log, and a worker past the provider, know of a send.
LogOK ==
  /\ \A m \in log : sent[m] > 0
  /\ \A w \in Workers : run[w].pc \in {"log", "accepted"} => sent[run[w].m] > 0

Unburied == Excused({"stalled out", "no dead letter"})

\* A job that is over was sent or buried; so was what its last attempt leaves behind.
EndOK ==
  /\ \A m \in Msgs : job[m].st = "completed" => sent[m] > 0
  /\ \A m \in Msgs : job[m].st = "failed" => m \in dead \/ Unburied
  /\ \A w \in Workers :
       /\ run[w].pc = "buried" => run[w].m \in dead
       /\ run[w].pc = "fail" /\ run[w].made + 1 >= MaxAttempts =>
            run[w].m \in dead \/ Unburied

\* In good hands: the message may be let go of.
Sound(m) ==
  job[m].st \in Pending \/ sent[m] > 0 \/ m \in dead \/ Unwanted(m) \/ Unburied

SoundOK == \A m \in Msgs :
  /\ pgmq[m] = "gone" => Sound(m)
  /\ \A c \in Consumers : hand[c][m] \in {"mark", "ack"} => Sound(m)

SkipOK == \A m \in Msgs :
  /\ row[m] = "skipped" => Unwanted(m)
  /\ \A c \in Consumers : hand[c][m] = "skip" => Unwanted(m)

Calm == ~Excused({"unsure", "unlogged", "lapsed"})

\* As long as every send is logged and no lock lapses, what was sent is in the log or
\* about to be, and nobody is about to send what is in it.
OnceOK == Calm =>
  /\ \A w \in Workers : run[w].pc # "idle" => run[w].held
  /\ \A m \in Msgs : sent[m] <= 1
  /\ \A m \in Msgs : sent[m] > 0 =>
       m \in log \/ \E w \in Workers : run[w].pc = "log" /\ run[w].m = m
  /\ \A w \in Workers : run[w].pc = "send" => run[w].m \notin log

DeliveryInv == TypeInv /\ LogOK /\ EndOK /\ SoundOK /\ SkipOK /\ OnceOK

----------------------------------------------------------------------------
(* The steps, by what they touch.                                           *)

WorldStep ==
  \E m \in Msgs : ReadsInApp(m) \/ Hides(m) \/ Process(m) \/ LeaseExpires(m)
JobStep == \E m \in Msgs : Stalled(m) \/ Forgets(m)
HandStep == \E c \in Consumers :
  Polls(c) \/ ConsumerDies(c)
    \/ \E m \in Msgs : Weighs(c, m) \/ Adds(c, m) \/ Marks(c, m) \/ Acks(c, m)
RunStep == \E w \in Workers :
  (\E m \in Msgs : Picks(w, m))
    \/ Checks(w) \/ Sends(w) \/ Logs(w) \/ Reports(w) \/ Throws(w) \/ Fails(w) \/ Lapses(w)

LEMMA StepsAre == Next <=> WorldStep \/ JobStep \/ HandStep \/ RunStep
  BY DEF Next, WorldStep, JobStep, HandStep, RunStep

\* Accidents are not forgotten, nor is what nobody wants wanted again.
LEMMA Monotone ==
  ASSUME Next
  PROVE /\ mishaps \subseteq mishaps' /\ dead \subseteq dead' /\ read \subseteq read'
        /\ hidden \subseteq hidden' /\ log \subseteq log' /\ kind' = kind
<1> USE DEF world, seen
<1>1. ASSUME NEW a, NEW happened, Note(a, happened) PROVE mishaps \subseteq mishaps'
  BY <1>1 DEF Note
<1>2. CASE WorldStep
  BY <1>2 DEF WorldStep, ReadsInApp, Hides, Process, LeaseExpires
<1>3. CASE JobStep
  BY <1>1, <1>3 DEF JobStep, Stalled, Forgets
<1>4. CASE HandStep
  BY <1>1, <1>4 DEF HandStep, Polls, ConsumerDies, Weighs, Adds, Marks, Acks
<1>5. CASE RunStep
  <2>1. ASSUME NEW w \in Workers, NEW m \in Msgs, Picks(w, m)
        PROVE UNCHANGED <<kind, dead, world, mishaps, log>>
    BY <2>1 DEF Picks
  <2>2. ASSUME NEW w \in Workers, Checks(w) \/ Sends(w) \/ Logs(w) \/ Reports(w)
        PROVE mishaps \subseteq mishaps' /\ log \subseteq log' /\ UNCHANGED <<kind, dead, world>>
    BY <1>1, <2>2 DEF Checks, Sends, Logs, Reports
  <2>3. ASSUME NEW w \in Workers, Throws(w) \/ Fails(w) \/ Lapses(w)
        PROVE mishaps \subseteq mishaps' /\ dead \subseteq dead' /\ UNCHANGED <<kind, log, world>>
    BY <1>1, <2>3 DEF Throws, Fails, Lapses
  <2> QED BY <1>5, <2>1, <2>2, <2>3 DEF RunStep
<1> QED BY <1>2, <1>3, <1>4, <1>5, StepsAre

----------------------------------------------------------------------------
(* Types.                                                                   *)

LEMMA InitTypes == Init => TypeInv
<1> SUFFICES ASSUME Init PROVE TypeInv
  OBVIOUS
<1>1. NoJob \in Jobs /\ NoRun \in Runs /\ 0 \in 0..MaxFaults
  BY DeliveryAssumption DEF NoJob, Jobs, NoRun, Runs
<1>2. MsgOK /\ HandOK
  BY DEF Init, MsgOK, HandOK, Status, Places, Hands
<1>3. JobOK /\ RunOK /\ RestOK
  BY <1>1, DeliveryAssumption DEF Init, JobOK, RunOK, RestOK, NoJob, Pending
<1>4. HeldOK
  BY DEF Init, HeldOK, Holds, NoRun
<1> QED BY <1>2, <1>3, <1>4 DEF TypeInv

LEMMA MsgStep == ASSUME TypeInv, Next PROVE MsgOK'
<1> USE DEF TypeInv, MsgOK, world, seen
<1>0. kind' = kind
  BY Monotone
<1>1. CASE WorldStep
  BY <1>0, <1>1 DEF WorldStep, ReadsInApp, Hides, Process, LeaseExpires, Status, Places
<1>2. CASE JobStep
  BY <1>0, <1>2 DEF JobStep, Stalled, Forgets
<1>3. CASE HandStep
  <2>1. ASSUME NEW c \in Consumers, Polls(c) PROVE MsgOK'
    <3>1. PICK batch \in SUBSET Msgs :
            pgmq' = [m \in Msgs |-> IF m \in batch THEN "leased" ELSE pgmq[m]]
      BY <2>1 DEF Polls
    <3> QED BY <1>0, <2>1, <3>1 DEF Polls, Places
  <2>2. ASSUME NEW c \in Consumers, NEW m \in Msgs, Marks(c, m) PROVE MsgOK'
    <3>1. row' = row \/ \E s \in Status : row' = [row EXCEPT ![m] = s]
      BY <2>2 DEF Marks, Update, Status
    <3> QED BY <1>0, <2>2, <3>1 DEF Marks
  <2>3. ASSUME NEW c \in Consumers, NEW m \in Msgs, Weighs(c, m) \/ Adds(c, m) \/ Acks(c, m)
        PROVE MsgOK'
    BY <1>0, <2>3 DEF Weighs, Adds, Acks, Places
  <2>4. ASSUME NEW c \in Consumers, ConsumerDies(c) PROVE MsgOK'
    BY <1>0, <2>4 DEF ConsumerDies
  <2> QED BY <1>3, <2>1, <2>2, <2>3, <2>4 DEF HandStep
<1>4. CASE RunStep
  <2>1. ASSUME NEW w \in Workers, Reports(w) PROVE MsgOK'
    <3>1. row' = row \/ \E s \in Status : row' = [row EXCEPT ![run[w].m] = s]
      BY <2>1 DEF Reports, Update, Status
    <3>2. row' \in [Msgs -> Status]
      BY <3>1
    <3> QED BY <1>0, <2>1, <3>2 DEF Reports
  <2> QED BY <1>0, <1>4, <2>1
          DEF RunStep, Picks, Checks, Sends, Logs, Throws, Fails, Lapses
<1> QED BY <1>1, <1>2, <1>3, <1>4, StepsAre

LEMMA HandTypeStep == ASSUME TypeInv, Next PROVE HandOK'
<1> USE DEF TypeInv, HandOK
<1>0. ASSUME NEW c \in Consumers, NEW m \in Msgs, NEW to \in Hands, Goes(c, m, to)
      PROVE HandOK'
  BY <1>0 DEF Goes
<1>1. CASE WorldStep \/ JobStep
  BY <1>1 DEF WorldStep, JobStep, ReadsInApp, Hides, Process, LeaseExpires, Stalled, Forgets
<1>2. CASE HandStep
  <2>1. ASSUME NEW c \in Consumers, Polls(c) PROVE HandOK'
    BY <2>1 DEF Polls, Hands
  <2>2. ASSUME NEW c \in Consumers, ConsumerDies(c) PROVE HandOK'
    BY <2>2 DEF ConsumerDies, Hands
  <2>3. ASSUME NEW c \in Consumers, NEW m \in Msgs,
               Weighs(c, m) \/ Adds(c, m) \/ Marks(c, m) \/ Acks(c, m)
        PROVE HandOK'
    BY <1>0, <2>3 DEF Weighs, Adds, Marks, Acks, Hands
  <2> QED BY <1>2, <2>1, <2>2, <2>3 DEF HandStep
<1>3. CASE RunStep
  BY <1>3 DEF RunStep, Picks, Checks, Sends, Logs, Reports, Throws, Fails, Lapses
<1> QED BY <1>1, <1>2, <1>3, StepsAre

LEMMA RestStep == ASSUME TypeInv, Next PROVE RestOK'
<1> USE DeliveryAssumption DEF TypeInv, RestOK, world, seen
<1>0. ASSUME NEW f, Fault(f) PROVE faults' \in 0..MaxFaults
  BY <1>0 DEF Fault
<1>1. CASE WorldStep \/ JobStep
  BY <1>1 DEF WorldStep, JobStep, ReadsInApp, Hides, Process, LeaseExpires, Stalled, Forgets
<1>2. CASE HandStep
  BY <1>0, <1>2 DEF HandStep, Polls, ConsumerDies, Weighs, Adds, Marks, Acks
<1>3. CASE RunStep
  <2>1. ASSUME NEW w \in Workers, NEW m \in Msgs, Picks(w, m) PROVE RestOK'
    BY <2>1 DEF Picks
  <2>2. ASSUME NEW w \in Workers, Checks(w) \/ Reports(w) \/ Fails(w) \/ Lapses(w) PROVE RestOK'
    BY <1>0, <2>2 DEF Checks, Reports, Fails, Lapses
  <2>3. ASSUME NEW w \in Workers, run[w].pc # "idle" PROVE run[w].m \in Msgs
    BY <2>3 DEF RunOK, Runs, Points
  <2>4. ASSUME NEW w \in Workers, Sends(w) PROVE RestOK'
    <3>1. run[w].m \in Msgs
      BY <2>3, <2>4 DEF Sends
    <3>2. sent' = sent \/ sent' = [sent EXCEPT ![run[w].m] = @ + 1]
      BY <2>4 DEF Sends
    <3>3. sent' \in [Msgs -> Nat]
      BY <3>1, <3>2
    <3> QED BY <1>0, <2>4, <3>3 DEF Sends
  <2>5. ASSUME NEW w \in Workers, Logs(w) PROVE RestOK'
    BY <1>0, <2>3, <2>5 DEF Logs
  <2>6. ASSUME NEW w \in Workers, Throws(w) PROVE RestOK'
    <3>1. run[w].m \in Msgs
      BY <2>3, <2>6 DEF Throws
    <3>2. dead' \subseteq Msgs
      BY <2>6, <3>1 DEF Throws
    <3>3. faults' \in 0..MaxFaults
      BY <1>0, <2>6 DEF Throws
    <3> QED BY <2>6, <3>2, <3>3 DEF Throws
  <2> QED BY <1>3, <2>1, <2>2, <2>4, <2>5, <2>6 DEF RunStep
<1> QED BY <1>1, <1>2, <1>3, StepsAre

\* What a step of a worker does to the job and to its own place.
Advances(w) == run[w].pc # "idle" /\ UNCHANGED job /\ \E to \in Points : Step(w, to)
Leaves(w) == run[w].pc # "idle" /\ Returns(w)
Drops(w) ==
  /\ run[w].pc # "idle" /\ UNCHANGED job
  /\ run' = [run EXCEPT ![w] = NoRun] \/ run' = [run EXCEPT ![w].held = FALSE]

LEMMA RunShape ==
  ASSUME NEW w \in Workers
  PROVE  /\ Checks(w) \/ Sends(w) \/ Logs(w) \/ Reports(w) \/ Throws(w)
              => Advances(w) \/ Leaves(w)
         /\ Lapses(w) => Drops(w)
<1>1. ASSUME Checks(w) PROVE Advances(w) \/ Leaves(w)
  BY <1>1 DEF Checks, Advances, Leaves, Points
<1>2. ASSUME Sends(w) PROVE Advances(w)
  BY <1>2 DEF Sends, Advances, Points
<1>3. ASSUME Logs(w) PROVE Advances(w) \/ Leaves(w)
  BY <1>3 DEF Logs, Advances, Leaves, Points
<1>4. ASSUME Reports(w) PROVE Advances(w) \/ Leaves(w)
  BY <1>4 DEF Reports, Advances, Leaves, Points
<1>5. ASSUME Throws(w) PROVE Advances(w)
  BY <1>5 DEF Throws, Advances, Points
<1>6. ASSUME Lapses(w) PROVE Drops(w)
  BY <1>6 DEF Lapses, Drops
<1> QED BY <1>1, <1>2, <1>3, <1>4, <1>5, <1>6

\* A worker's place, after each of these.
LEMMA RunTyped ==
  ASSUME TypeInv, NEW w \in Workers, run[w].pc # "idle"
  PROVE  /\ run[w] \in [pc : Points, m : Msgs, made : Nat, held : BOOLEAN]
         /\ run[w].m \in Msgs /\ run[w].held \in BOOLEAN
  BY DEF TypeInv, RunOK, Runs

LEMMA JobHeld ==
  ASSUME TypeInv, NEW w \in Workers, run[w].pc # "idle", run[w].held
  PROVE  /\ job[run[w].m].st = "active" /\ run[w].made = job[run[w].m].made
         /\ job[run[w].m].made < MaxAttempts
         /\ \A x \in Workers : Holds(x, run[w].m) => x = w
<1>1. run[w].m \in Msgs /\ Holds(w, run[w].m)
  BY RunTyped DEF Holds
<1> QED BY <1>1 DEF TypeInv, HeldOK, JobOK, Pending

LEMMA RunTypeStep == ASSUME TypeInv, Next PROVE RunOK'
<1> USE DEF TypeInv, RunOK
<1>1. CASE WorldStep \/ JobStep \/ HandStep
  BY <1>1 DEF WorldStep, JobStep, HandStep, ReadsInApp, Hides, Process, LeaseExpires,
              Stalled, Forgets, Polls, ConsumerDies, Weighs, Adds, Marks, Acks
<1>2. NoRun \in Runs
  BY DEF NoRun, Runs
<1>3. ASSUME NEW w \in Workers, NEW m \in Msgs, Picks(w, m) PROVE RunOK'
  <2> DEFINE new == [pc |-> "check", m |-> m, made |-> job[m].made, held |-> TRUE]
  <2>1. job[m].made \in Nat
    BY DEF JobOK, Jobs
  <2>2. new \in Runs
    BY <2>1 DEF Runs, Points
  <2> HIDE DEF new
  <2>3. run' = [run EXCEPT ![w] = new]
    BY <1>3 DEF Picks, new
  <2> QED BY <2>2, <2>3
<1>4. ASSUME NEW w \in Workers, Advances(w) PROVE RunOK'
  <2>1. PICK to \in Points : run' = [run EXCEPT ![w].pc = to]
    BY <1>4 DEF Advances, Step
  <2>2. [run[w] EXCEPT !.pc = to] \in Runs
    BY <1>4, RunTyped DEF Advances, Runs
  <2> QED BY <2>1, <2>2
<1>5. ASSUME NEW w \in Workers, Leaves(w) \/ Fails(w) PROVE RunOK'
  BY <1>2, <1>5 DEF Leaves, Returns, Fails
<1>6. ASSUME NEW w \in Workers, Drops(w) PROVE RunOK'
  <2>1. [run[w] EXCEPT !.held = FALSE] \in Runs
    BY <1>6, RunTyped DEF Drops, Runs
  <2> QED BY <1>2, <1>6, <2>1 DEF Drops
<1>7. CASE RunStep
  BY <1>7, <1>3, <1>4, <1>5, <1>6, RunShape DEF RunStep
<1> QED BY <1>1, <1>7, StepsAre

LEMMA JobTypeStep == ASSUME TypeInv, Next PROVE JobOK'
<1> USE DEF TypeInv, JobOK
<1>0. ASSUME UNCHANGED job PROVE JobOK'
  BY <1>0
<1>1. ASSUME NEW m \in Msgs, NEW j \in Jobs, job' = [job EXCEPT ![m] = j],
             j.st \in Pending \cup {"none"} => j.made < MaxAttempts
      PROVE JobOK'
  BY <1>1
<1>2. ASSUME NEW m \in Msgs, job' = Added(m) PROVE JobOK'
  <2>1. CASE job[m].st = "none"
    <3>1. [job[m] EXCEPT !.st = "wait"] \in Jobs
      BY DEF Jobs
    <3>2. job[m].made < MaxAttempts
      BY <2>1
    <3>3. job' = [job EXCEPT ![m] = [job[m] EXCEPT !.st = "wait"]]
      BY <1>2, <2>1 DEF Added
    <3>4. [job[m] EXCEPT !.st = "wait"].made = job[m].made
      BY DEF Jobs
    <3> QED BY <1>1, <3>1, <3>2, <3>3, <3>4
  <2>2. CASE job[m].st # "none"
    BY <1>0, <1>2, <2>2 DEF Added
  <2> QED BY <2>1, <2>2
<1>3. CASE WorldStep
  BY <1>0, <1>3 DEF WorldStep, ReadsInApp, Hides, Process, LeaseExpires
<1>4. CASE JobStep
  <2>1. ASSUME NEW m \in Msgs, Stalled(m) PROVE JobOK'
    <3>1. CASE job[m].stalls < MaxStalls
      <4> DEFINE j == [job[m] EXCEPT !.st = "wait", !.stalls = @ + 1]
      <4>1. j \in Jobs /\ j.made = job[m].made
        <5>1. job[m] \in Jobs /\ job[m].stalls + 1 \in 0..MaxStalls
          BY <3>1, DeliveryAssumption DEF Jobs
        <5> QED BY <5>1 DEF Jobs
      <4>2. job' = [job EXCEPT ![m] = j]
        BY <2>1, <3>1 DEF Stalled
      <4>3. job[m].made < MaxAttempts
        BY <2>1 DEF Stalled, Pending
      <4> HIDE DEF j
      <4> QED BY <1>1, <4>1, <4>2, <4>3
    <3>2. CASE ~(job[m].stalls < MaxStalls)
      <4> DEFINE j == [job[m] EXCEPT !.st = "failed"]
      <4>1. j \in Jobs /\ j.st = "failed"
        BY DEF Jobs
      <4>2. job' = [job EXCEPT ![m] = j]
        BY <2>1, <3>2 DEF Stalled
      <4> HIDE DEF j
      <4> QED BY <1>1, <4>1, <4>2 DEF Pending
    <3> QED BY <3>1, <3>2
  <2>2. ASSUME NEW m \in Msgs, Forgets(m) PROVE JobOK'
    <3>1. NoJob \in Jobs /\ NoJob.made < MaxAttempts
      BY DeliveryAssumption DEF NoJob, Jobs
    <3> QED BY <1>1, <2>2, <3>1 DEF Forgets
  <2> QED BY <1>4, <2>1, <2>2 DEF JobStep
<1>5. CASE HandStep
  BY <1>0, <1>2, <1>5 DEF HandStep, Polls, ConsumerDies, Weighs, Adds, Marks, Acks
<1>6. CASE RunStep
  <2>1. ASSUME NEW w \in Workers, NEW m \in Msgs, Picks(w, m) PROVE JobOK'
    <3> DEFINE j == [job[m] EXCEPT !.st = "active"]
    <3>1. j \in Jobs /\ j.made = job[m].made
      BY DEF Jobs
    <3>2. job' = [job EXCEPT ![m] = j]
      BY <2>1 DEF Picks
    <3>3. job[m].made < MaxAttempts
      BY <2>1 DEF Picks, Pending
    <3> HIDE DEF j
    <3> QED BY <1>1, <3>1, <3>2, <3>3
  <2>2. ASSUME NEW w \in Workers, Leaves(w) PROVE JobOK'
    <3> DEFINE j == [job[run[w].m] EXCEPT !.st = "completed"]
    <3>1. run[w].m \in Msgs
      BY <2>2, RunTyped DEF Leaves
    <3>2. j \in Jobs /\ j.st = "completed"
      BY <3>1 DEF Jobs
    <3>3. UNCHANGED job \/ job' = [job EXCEPT ![run[w].m] = j]
      BY <2>2 DEF Leaves, Returns
    <3> HIDE DEF j
    <3> QED BY <1>0, <1>1, <3>1, <3>2, <3>3 DEF Pending
  <2>3. ASSUME NEW w \in Workers, Fails(w) PROVE JobOK'
    <3> DEFINE m == run[w].m
               j == [job[m] EXCEPT !.made = @ + 1,
                       !.st = IF job[m].made + 1 >= MaxAttempts THEN "failed" ELSE "wait"]
    <3>1. m \in Msgs
      BY <2>3, RunTyped DEF Fails
    <3>2. CASE run[w].held
      <4>1. job[m].made < MaxAttempts /\ job[m].made \in Nat
        BY <2>3, <3>1, <3>2, JobHeld DEF Fails, Jobs
      <4>2. j \in Jobs /\ (j.st = "wait" => j.made < MaxAttempts) /\ j.st \in {"failed", "wait"}
        <5>1. job[m] \in Jobs /\ job[m].made + 1 \in 0..MaxAttempts
          BY <3>1, <4>1, DeliveryAssumption
        <5>2. j.st = IF job[m].made + 1 >= MaxAttempts THEN "failed" ELSE "wait"
          BY <5>1 DEF Jobs
        <5>3. j.made = job[m].made + 1
          BY <5>1 DEF Jobs
        <5>4. j \in Jobs
          BY <5>1 DEF Jobs
        <5> QED BY <4>1, <5>2, <5>3, <5>4, DeliveryAssumption
      <4>3. job' = [job EXCEPT ![m] = j]
        BY <2>3, <3>2 DEF Fails
      <4> HIDE DEF j, m
      <4> QED BY <1>1, <3>1, <4>2, <4>3 DEF Pending
    <3>3. CASE ~run[w].held
      BY <1>0, <2>3, <3>3 DEF Fails
    <3> QED BY <3>2, <3>3
  <2> QED BY <1>0, <1>6, <2>1, <2>2, <2>3, RunShape DEF RunStep, Advances, Drops
<1> QED BY <1>3, <1>4, <1>5, <1>6, StepsAre

LEMMA HeldStep == ASSUME TypeInv, Next PROVE HeldOK'
<1> USE DEF TypeInv
\* Nobody takes a lock, and what somebody holds stays as it is.
<1>0. ASSUME \A x \in Workers, m \in Msgs : Holds(x, m)' =>
               /\ Holds(x, m) /\ run'[x].made = run[x].made
               /\ job'[m].st = "active" /\ job'[m].made = job[m].made
      PROVE HeldOK'
  BY <1>0 DEF HeldOK, Holds
<1>1. ASSUME UNCHANGED run,
             \A m \in Msgs : job[m].st = "active" /\ (\E x \in Workers : Holds(x, m)) =>
               job'[m] = job[m]
      PROVE HeldOK'
  BY <1>0, <1>1 DEF HeldOK, Holds
<1>2. CASE WorldStep
  BY <1>1, <1>2 DEF WorldStep, ReadsInApp, Hides, Process, LeaseExpires
<1>3. CASE JobStep
  <2>1. ASSUME NEW m \in Msgs, Stalled(m) PROVE HeldOK'
    <3>1. \A n \in Msgs : n # m => job'[n] = job[n]
      BY <2>1 DEF Stalled, JobOK
    <3>2. \A x \in Workers : ~Holds(x, m)
      BY <2>1 DEF Stalled, Running, Holds
    <3> QED BY <1>1, <2>1, <3>1, <3>2 DEF Stalled
  <2>2. ASSUME NEW m \in Msgs, Forgets(m) PROVE HeldOK'
    BY <1>1, <2>2 DEF Forgets, JobOK
  <2> QED BY <1>3, <2>1, <2>2 DEF JobStep
<1>4. CASE HandStep
  <2>1. ASSUME NEW m \in Msgs, job' = Added(m), UNCHANGED run PROVE HeldOK'
    BY <1>1, <2>1 DEF Added, JobOK
  <2> QED BY <1>1, <1>4, <2>1
          DEF HandStep, Polls, ConsumerDies, Weighs, Adds, Marks, Acks
<1>5. CASE RunStep
  <2>1. ASSUME NEW w \in Workers, NEW m \in Msgs, Picks(w, m) PROVE HeldOK'
    <3>1. /\ job'[m].st = "active" /\ job'[m].made = job[m].made
          /\ \A n \in Msgs : n # m => job'[n] = job[n]
      BY <2>1 DEF Picks, JobOK, Jobs
    <3>2. /\ run'[w] = [pc |-> "check", m |-> m, made |-> job[m].made, held |-> TRUE]
          /\ \A x \in Workers : x # w => run'[x] = run[x]
      BY <2>1 DEF Picks, RunOK
    <3>3. \A x \in Workers : ~Holds(x, m)
      BY <2>1 DEF Picks, HeldOK
    <3> QED BY <3>1, <3>2, <3>3 DEF HeldOK, Holds
  <2>2. ASSUME NEW w \in Workers, Advances(w) PROVE HeldOK'
    <3>1. PICK to \in Points : run' = [run EXCEPT ![w].pc = to]
      BY <2>2 DEF Advances, Step
    <3>2. /\ run'[w].m = run[w].m /\ run'[w].made = run[w].made /\ run'[w].held = run[w].held
          /\ \A x \in Workers : x # w => run'[x] = run[x]
      BY <2>2, <3>1, RunTyped DEF Advances, RunOK
    <3> QED BY <1>0, <2>2, <3>2 DEF Advances, HeldOK, Holds
  <2>3. ASSUME NEW w \in Workers, Leaves(w) \/ Fails(w) PROVE HeldOK'
    <3>1. run[w].pc # "idle" /\ run[w].m \in Msgs
      BY <2>3, RunTyped DEF Leaves, Fails
    <3>2. run'[w].pc = "idle" /\ \A x \in Workers : x # w => run'[x] = run[x]
      BY <2>3 DEF Leaves, Returns, Fails, RunOK, NoRun
    <3>3. \A n \in Msgs : n # run[w].m \/ ~run[w].held => job'[n] = job[n]
      BY <2>3 DEF Leaves, Returns, Fails, JobOK
    <3>4. run[w].held => \A x \in Workers : Holds(x, run[w].m) => x = w
      BY <3>1, JobHeld
    <3> QED BY <1>0, <3>1, <3>2, <3>3, <3>4 DEF HeldOK, Holds
  <2>4. ASSUME NEW w \in Workers, Drops(w) PROVE HeldOK'
    <3>1. ~run'[w].held \/ run'[w].pc = "idle"
      BY <2>4, RunTyped DEF Drops, RunOK, NoRun
    <3>2. \A x \in Workers : x # w => run'[x] = run[x]
      BY <2>4 DEF Drops, RunOK
    <3> QED BY <1>0, <2>4, <3>1, <3>2 DEF Drops, HeldOK, Holds
  <2> QED BY <1>5, <2>1, <2>2, <2>3, <2>4, RunShape DEF RunStep
<1> QED BY <1>2, <1>3, <1>4, <1>5, StepsAre

LEMMA TypeStep == ASSUME TypeInv, [Next]_vars PROVE TypeInv'
<1>1. CASE Next
  BY <1>1, MsgStep, HandTypeStep, JobTypeStep, RunTypeStep, RestStep, HeldStep DEF TypeInv
<1>2. CASE UNCHANGED vars
  BY <1>2 DEF vars, seen, world, TypeInv, MsgOK, HandOK, JobOK, RunOK, RestOK, HeldOK, Holds
<1> QED BY <1>1, <1>2

\* A job's lock has one holder, who runs the attempt the job is at (queue.ts, BullMQ's
\* lock), and nothing leaves its type.
THEOREM DeliveryTypes == Spec => []TypeOK
<1>1. Spec => []TypeInv
  BY InitTypes, TypeStep, PTL DEF Spec
<1>2. ASSUME TypeInv PROVE TypeOK
  <2>1. \A w, x \in Workers : run[w].pc # "idle" /\ run[w].held =>
          /\ job[run[w].m].st = "active"
          /\ Running(x, run[w].m) /\ run[x].held => x = w
    BY <1>2, JobHeld DEF Running, Holds
  <2> QED BY <1>2, <2>1
          DEF TypeInv, MsgOK, HandOK, JobOK, RestOK, TypeOK, Hands, Places, Jobs
<1> QED BY <1>1, <1>2, PTL

----------------------------------------------------------------------------
(* What the workers know.                                                   *)

LEMMA Frame ==
  ASSUME WorldStep \/ JobStep \/ HandStep
  PROVE  UNCHANGED <<run, sent, log, dead>>
  BY DEF WorldStep, JobStep, HandStep, ReadsInApp, Hides, Process, LeaseExpires, seen,
         Stalled, Forgets, Polls, ConsumerDies, Weighs, Adds, Marks, Acks, world

LEMMA SentGrows ==
  ASSUME TypeInv, Next, NEW m \in Msgs
  PROVE  sent'[m] \in Nat /\ sent'[m] >= sent[m]
<1> USE DEF TypeInv, RestOK, seen
<1>1. CASE WorldStep \/ JobStep \/ HandStep
  BY <1>1, Frame
<1>2. CASE RunStep
  <2>1. ASSUME NEW w \in Workers, Sends(w) PROVE sent'[m] \in Nat /\ sent'[m] >= sent[m]
    <3>1. sent' = sent \/ sent' = [sent EXCEPT ![run[w].m] = @ + 1]
      BY <2>1 DEF Sends
    <3> QED BY <3>1
  <2>2. ASSUME NEW w \in Workers, ~Sends(w), UNCHANGED sent
        PROVE sent'[m] \in Nat /\ sent'[m] >= sent[m]
    BY <2>2
  <2>3. \A w \in Workers :
          \/ \E n \in Msgs : Picks(w, n)
          \/ Checks(w) \/ Logs(w) \/ Reports(w) \/ Throws(w) \/ Fails(w) \/ Lapses(w)
          => UNCHANGED sent
    BY DEF Picks, Checks, Logs, Reports, Throws, Fails, Lapses
  <2> QED BY <1>2, <2>1, <2>3 DEF RunStep
<1> QED BY <1>1, <1>2, StepsAre

\* The workers that do not move stay where they are, and so does what one works on.
LEMMA OthersStay ==
  ASSUME TypeInv, NEW w \in Workers,
         \/ \E m \in Msgs : Picks(w, m)
         \/ Checks(w) \/ Sends(w) \/ Logs(w) \/ Reports(w) \/ Throws(w) \/ Fails(w) \/ Lapses(w)
  PROVE  /\ \A x \in Workers : x # w => run'[x] = run[x]
         /\ run'[w].pc # "idle" /\ run[w].pc # "idle" =>
              run'[w].m = run[w].m /\ run'[w].made = run[w].made
<1> USE DEF TypeInv, RunOK
<1>1. ASSUME NEW m \in Msgs, Picks(w, m) PROVE run[w].pc = "idle"
  BY <1>1 DEF Picks
<1>2. CASE \E m \in Msgs : Picks(w, m)
  BY <1>1, <1>2 DEF Picks
<1>3. CASE Fails(w)
  BY <1>3 DEF Fails, NoRun
<1>4. CASE Advances(w)
  BY <1>4, RunTyped DEF Advances, Step
<1>5. CASE Leaves(w)
  BY <1>5 DEF Leaves, Returns, NoRun
<1>6. CASE Drops(w)
  BY <1>6, RunTyped DEF Drops, NoRun
<1> QED BY <1>2, <1>3, <1>4, <1>5, <1>6, RunShape

\* Where a worker's step takes it, and what it leaves.
LEMMA Moves ==
  ASSUME TypeInv, NEW w \in Workers
  PROVE
    /\ \A m \in Msgs : Picks(w, m) =>
         /\ run[w].pc = "idle" /\ run'[w].pc = "check" /\ run'[w].m = m /\ run'[w].held
         /\ UNCHANGED <<log, dead, mishaps, sent>>
    /\ Checks(w) =>
         /\ run[w].pc = "check" /\ UNCHANGED <<log, dead, sent>>
         /\ run'[w].pc = "idle" => run[w].m \in log
         /\ run'[w].pc = "send" => run[w].m \notin log
         /\ run'[w].pc \in {"idle", "send", "throw"}
    /\ Sends(w) =>
         /\ run[w].pc = "send" /\ UNCHANGED <<log, dead>>
         /\ run'[w].pc \in {"log", "throw", "refused"}
         /\ run'[w].pc = "log" => sent' = [sent EXCEPT ![run[w].m] = @ + 1]
         /\ run'[w].pc # "log" => UNCHANGED sent \/ "unsure" \in mishaps'
    /\ Logs(w) =>
         /\ run[w].pc = "log" /\ UNCHANGED <<dead, sent>>
         /\ log' = log \cup {run[w].m} \/ (UNCHANGED log /\ "unlogged" \in mishaps')
         /\ run'[w].pc \in {"accepted", "idle"}
    /\ Reports(w) =>
         /\ run[w].pc \in {"accepted", "refused", "buried"} /\ UNCHANGED <<log, dead, sent>>
         /\ run'[w].pc = "idle" => run[w].pc = "accepted"
         /\ run'[w].pc = "fail" => run[w].pc = "buried"
         /\ run'[w].pc \in {"idle", "throw", "fail"}
    /\ Throws(w) =>
         /\ run[w].pc = "throw" /\ UNCHANGED <<log, sent>>
         /\ run'[w].pc \in {"buried", "fail"}
         /\ run'[w].pc = "buried" => run[w].m \in dead'
         /\ run'[w].pc = "fail" /\ run[w].made + 1 >= MaxAttempts =>
              run[w].m \in dead' \/ "no dead letter" \in mishaps'
    /\ Fails(w) => run[w].pc = "fail" /\ run'[w].pc = "idle" /\ UNCHANGED <<log, dead, sent, mishaps>>
    /\ Lapses(w) =>
         /\ run[w].pc # "idle" /\ UNCHANGED <<log, dead, sent>> /\ "lapsed" \in mishaps'
         /\ run'[w].pc = "idle" \/ run'[w].pc = run[w].pc
<1> USE DEF TypeInv, RunOK, RestOK, seen
<1>0. ASSUME NEW to, Step(w, to), run[w].pc # "idle" PROVE run'[w].pc = to
  BY <1>0, RunTyped DEF Step
<1>n. ASSUME run' = [run EXCEPT ![w] = NoRun] PROVE run'[w].pc = "idle"
  BY <1>n DEF NoRun
<1>1. ASSUME NEW m \in Msgs, Picks(w, m)
      PROVE /\ run[w].pc = "idle" /\ run'[w].pc = "check" /\ run'[w].m = m /\ run'[w].held
            /\ UNCHANGED <<log, dead, mishaps, sent>>
  BY <1>1 DEF Picks
<1>2. ASSUME Checks(w)
      PROVE  /\ run[w].pc = "check" /\ UNCHANGED <<log, dead, sent>>
             /\ run'[w].pc = "idle" => run[w].m \in log
             /\ run'[w].pc = "send" => run[w].m \notin log
             /\ run'[w].pc \in {"idle", "send", "throw"}
  BY <1>0, <1>n, <1>2 DEF Checks, Returns
<1>3. ASSUME Sends(w)
      PROVE  /\ run[w].pc = "send" /\ UNCHANGED <<log, dead>>
             /\ run'[w].pc \in {"log", "throw", "refused"}
             /\ run'[w].pc = "log" => sent' = [sent EXCEPT ![run[w].m] = @ + 1]
             /\ run'[w].pc # "log" => UNCHANGED sent \/ "unsure" \in mishaps'
  BY <1>0, <1>3 DEF Sends, Note
<1>4. ASSUME Logs(w)
      PROVE  /\ run[w].pc = "log" /\ UNCHANGED <<dead, sent>>
             /\ log' = log \cup {run[w].m} \/ (UNCHANGED log /\ "unlogged" \in mishaps')
             /\ run'[w].pc \in {"accepted", "idle"}
  <2>1. run[w].pc = "log" /\ UNCHANGED <<dead, sent>>
    BY <1>4 DEF Logs
  <2>2. log' = log \cup {run[w].m} \/ (UNCHANGED log /\ "unlogged" \in mishaps')
    <3>1. Note("unlogged", TRUE) => "unlogged" \in mishaps'
      BY DEF Note
    <3> QED BY <1>4, <3>1 DEF Logs
  <2>3. Step(w, "accepted") \/ Returns(w)
    BY <1>4 DEF Logs
  <2>4. run'[w].pc \in {"accepted", "idle"}
    BY <1>0, <1>n, <2>1, <2>3 DEF Returns
  <2> QED BY <2>1, <2>2, <2>4
<1>5. ASSUME Reports(w)
      PROVE  /\ run[w].pc \in {"accepted", "refused", "buried"} /\ UNCHANGED <<log, dead, sent>>
             /\ run'[w].pc = "idle" => run[w].pc = "accepted"
             /\ run'[w].pc = "fail" => run[w].pc = "buried"
             /\ run'[w].pc \in {"idle", "throw", "fail"}
  BY <1>0, <1>n, <1>5 DEF Reports, Returns
<1>6. ASSUME Throws(w)
      PROVE  /\ run[w].pc = "throw" /\ UNCHANGED <<log, sent>>
             /\ run'[w].pc \in {"buried", "fail"}
             /\ run'[w].pc = "buried" => run[w].m \in dead'
             /\ run'[w].pc = "fail" /\ run[w].made + 1 >= MaxAttempts =>
                  run[w].m \in dead' \/ "no dead letter" \in mishaps'
  BY <1>0, <1>6 DEF Throws, Note
<1>7. ASSUME Fails(w)
      PROVE  run[w].pc = "fail" /\ run'[w].pc = "idle" /\ UNCHANGED <<log, dead, sent, mishaps>>
  BY <1>n, <1>7 DEF Fails
<1>8. ASSUME Lapses(w)
      PROVE  /\ run[w].pc # "idle" /\ UNCHANGED <<log, dead, sent>> /\ "lapsed" \in mishaps'
             /\ run'[w].pc = "idle" \/ run'[w].pc = run[w].pc
  BY <1>n, <1>8, RunTyped DEF Lapses, Note
<1> QED BY <1>1, <1>2, <1>3, <1>4, <1>5, <1>6, <1>7, <1>8

LEMMA LogStep == ASSUME TypeInv, LogOK, Next PROVE LogOK'
<1>1. CASE WorldStep \/ JobStep \/ HandStep
  BY <1>1, Frame DEF LogOK
<1>2. CASE RunStep
  <2>0. PICK w \in Workers :
          \/ \E m \in Msgs : Picks(w, m)
          \/ Checks(w) \/ Sends(w) \/ Logs(w) \/ Reports(w) \/ Throws(w) \/ Fails(w) \/ Lapses(w)
    BY <1>2 DEF RunStep
  <2>1. /\ \A x \in Workers : x # w => run'[x] = run[x]
        /\ run'[w].pc # "idle" /\ run[w].pc # "idle" => run'[w].m = run[w].m
    BY <2>0, OthersStay
  <2>2. \A m \in Msgs : sent[m] \in Nat /\ sent'[m] \in Nat /\ sent'[m] >= sent[m]
    BY SentGrows DEF TypeInv, RestOK
  <2>3. \A x \in Workers : run[x].pc # "idle" => run[x].m \in Msgs
    BY RunTyped
  <2>4. \A m \in log' : sent'[m] > 0
    <3>1. log' = log \/ (run[w].pc = "log" /\ log' = log \cup {run[w].m})
      <4>1. ASSUME NEW m \in Msgs, Picks(w, m) PROVE log' = log
        BY <4>1 DEF Picks
      <4>2. Checks(w) \/ Sends(w) \/ Reports(w) \/ Throws(w) \/ Fails(w) \/ Lapses(w) => log' = log
        BY Moves
      <4>3. Logs(w) => log' = log \/ (run[w].pc = "log" /\ log' = log \cup {run[w].m})
        BY Moves
      <4> QED BY <2>0, <4>1, <4>2, <4>3
    <3> QED BY <2>2, <2>3, <3>1 DEF LogOK, TypeInv, RestOK
  <2>5. run'[w].pc \in {"log", "accepted"} => sent'[run'[w].m] > 0
    <3>1. CASE Sends(w)
      <4>1. run'[w].pc = "log" => sent'[run[w].m] = sent[run[w].m] + 1
        BY <2>3, <3>1, Moves DEF TypeInv, RestOK
      <4>2. run[w].pc = "send" /\ run'[w].pc \in {"log", "throw", "refused"}
        BY <3>1, Moves
      <4> QED BY <2>1, <2>2, <2>3, <4>1, <4>2
    <3>2. CASE ~Sends(w)
      <4>1. run'[w].pc \in {"log", "accepted"} => run[w].pc \in {"log", "accepted"}
        <5>1. ASSUME NEW m \in Msgs, Picks(w, m) PROVE run'[w].pc \notin {"log", "accepted"}
          BY <5>1, Moves
        <5>2. Checks(w) \/ Reports(w) \/ Throws(w) \/ Fails(w) =>
                run'[w].pc \notin {"log", "accepted"}
          BY Moves
        <5>3. Logs(w) => run[w].pc = "log"
          BY Moves
        <5>4. Lapses(w) => run'[w].pc = "idle" \/ run'[w].pc = run[w].pc
          BY Moves
        <5> QED BY <2>0, <3>2, <5>1, <5>2, <5>3, <5>4
      <4> QED BY <2>1, <2>2, <2>3, <4>1 DEF LogOK
    <3> QED BY <3>1, <3>2
  <2>6. \A x \in Workers : x # w /\ run'[x].pc \in {"log", "accepted"} => sent'[run'[x].m] > 0
    BY <2>1, <2>2, <2>3 DEF LogOK
  <2> QED BY <2>4, <2>5, <2>6 DEF LogOK
<1> QED BY <1>1, <1>2, StepsAre

LEMMA EndStep == ASSUME TypeInv, LogOK, EndOK, Next PROVE EndOK'
<1> USE DEF TypeInv
<1>0. /\ Unburied => Unburied'
      /\ "stalled out" \in mishaps' \/ "no dead letter" \in mishaps' => Unburied'
      /\ dead \subseteq dead'
  BY Monotone DEF Unburied, Excused
<1>1. \A m \in Msgs : sent[m] > 0 => sent'[m] > 0
  BY SentGrows DEF RestOK
\* A job ends by a step of its holder, or by the stalled check.
<1>2. \A m \in Msgs : job'[m].st = "completed" => sent'[m] > 0
  <2>1. ASSUME NEW m \in Msgs, job'[m].st = "completed", job[m].st # "completed"
        PROVE \E w \in Workers : Leaves(w) /\ m = run[w].m /\ RunStep
                 /\ (Checks(w) \/ Logs(w) \/ Reports(w))
    <3>1. ASSUME NEW n \in Msgs, job' = Added(n) PROVE FALSE
      BY <2>1, <3>1 DEF Added, JobOK, Jobs
    <3>2. CASE WorldStep \/ HandStep
      BY <2>1, <3>1, <3>2 DEF WorldStep, ReadsInApp, Hides, Process, LeaseExpires,
         HandStep, Polls, ConsumerDies, Weighs, Adds, Marks, Acks
    <3>3. CASE JobStep
      <4>1. ASSUME NEW n \in Msgs, Stalled(n) PROVE FALSE
        BY <2>1, <4>1 DEF Stalled, JobOK, Jobs
      <4>2. ASSUME NEW n \in Msgs, Forgets(n) PROVE FALSE
        BY <2>1, <4>2 DEF Forgets, JobOK, NoJob
      <4> QED BY <3>3, <4>1, <4>2 DEF JobStep
    <3>4. CASE RunStep
      <4>1. PICK w \in Workers :
              \/ \E n \in Msgs : Picks(w, n)
              \/ Checks(w) \/ Sends(w) \/ Logs(w) \/ Reports(w) \/ Throws(w) \/ Fails(w) \/ Lapses(w)
        BY <3>4 DEF RunStep
      <4>2. ~\E n \in Msgs : Picks(w, n)
        BY <2>1 DEF Picks, JobOK, Jobs
      <4>3. ~Fails(w)
        BY <2>1 DEF Fails, JobOK, Jobs
      <4>4. Leaves(w)
        BY <2>1, <4>1, <4>2, <4>3, RunShape DEF Advances, Drops
      <4>5. job' = [job EXCEPT ![run[w].m].st = "completed"]
        BY <2>1, <4>4 DEF Leaves, Returns
      <4>6. m = run[w].m
        BY <2>1, <4>5 DEF JobOK
      <4>7. ~Sends(w) /\ ~Throws(w) /\ ~Lapses(w)
        BY <2>1, <4>5, <4>6 DEF Sends, Throws, Lapses
      <4> QED BY <3>4, <4>1, <4>2, <4>3, <4>4, <4>6, <4>7
    <3> QED BY <3>2, <3>3, <3>4, StepsAre
  <2>2. ASSUME NEW w \in Workers, Leaves(w), Checks(w) \/ Logs(w) \/ Reports(w)
        PROVE sent[run[w].m] > 0
    <3>1. run'[w].pc = "idle"
      BY <2>2 DEF Leaves, Returns, NoRun, RunOK
    <3> QED BY <2>2, <3>1, Moves DEF LogOK
  <2>3. ASSUME NEW m \in Msgs, job'[m].st = "completed" PROVE sent[m] > 0
    BY <2>1, <2>2, <2>3 DEF EndOK
  <2> QED BY <1>1, <2>3
<1>3. \A m \in Msgs : job'[m].st = "failed" => m \in dead' \/ Unburied'
  <2>1. ASSUME NEW m \in Msgs, job'[m].st = "failed", job[m].st # "failed"
        PROVE m \in dead' \/ Unburied'
    <3>1. ASSUME NEW n \in Msgs, job' = Added(n) PROVE FALSE
      BY <2>1, <3>1 DEF Added, JobOK, Jobs
    <3>2. CASE WorldStep \/ HandStep
      BY <2>1, <3>1, <3>2 DEF WorldStep, ReadsInApp, Hides, Process, LeaseExpires,
         HandStep, Polls, ConsumerDies, Weighs, Adds, Marks, Acks
    <3>3. CASE JobStep
      <4>1. \A n \in Msgs : ~Forgets(n)
        BY <2>1 DEF Forgets, JobOK, Jobs, NoJob
      <4>2. ASSUME NEW n \in Msgs, Stalled(n) PROVE "stalled out" \in mishaps'
        BY <2>1, <4>2 DEF Stalled, JobOK, Jobs, Note
      <4> QED BY <1>0, <3>3, <4>1, <4>2 DEF JobStep
    <3>4. CASE RunStep
      <4>1. PICK w \in Workers :
              \/ \E n \in Msgs : Picks(w, n)
              \/ Checks(w) \/ Sends(w) \/ Logs(w) \/ Reports(w) \/ Throws(w) \/ Fails(w) \/ Lapses(w)
        BY <3>4 DEF RunStep
      <4>2. ~\E n \in Msgs : Picks(w, n)
        BY <2>1 DEF Picks, JobOK, Jobs
      <4>3. ~Leaves(w)
        BY <2>1 DEF Leaves, Returns, JobOK, Jobs
      <4>4. Fails(w)
        BY <2>1, <4>1, <4>2, <4>3, RunShape DEF Advances, Drops
      <4>5. run[w].held /\ m = run[w].m /\ job[m].made + 1 >= MaxAttempts
        BY <2>1, <4>4 DEF Fails, JobOK, Jobs
      <4>6. run[w].pc = "fail" /\ run[w].made + 1 >= MaxAttempts
        BY <4>4, <4>5, JobHeld DEF Fails
      <4> QED BY <1>0, <4>5, <4>6 DEF EndOK
    <3> QED BY <3>2, <3>3, <3>4, StepsAre
  <2> QED BY <1>0, <2>1 DEF EndOK
<1>4. \A w \in Workers :
        /\ run'[w].pc = "buried" => run'[w].m \in dead'
        /\ run'[w].pc = "fail" /\ run'[w].made + 1 >= MaxAttempts =>
             run'[w].m \in dead' \/ Unburied'
  <2>1. CASE WorldStep \/ JobStep \/ HandStep
    BY <1>0, <2>1, Frame DEF EndOK
  <2>2. CASE RunStep
    <3>0. PICK w \in Workers :
            \/ \E m \in Msgs : Picks(w, m)
            \/ Checks(w) \/ Sends(w) \/ Logs(w) \/ Reports(w) \/ Throws(w) \/ Fails(w) \/ Lapses(w)
      BY <2>2 DEF RunStep
    <3>1. /\ \A x \in Workers : x # w => run'[x] = run[x]
          /\ run'[w].pc # "idle" /\ run[w].pc # "idle" =>
               run'[w].m = run[w].m /\ run'[w].made = run[w].made
      BY <3>0, OthersStay
    <3>2. CASE Throws(w)
      BY <1>0, <3>1, <3>2, Moves DEF EndOK
    <3>3. CASE ~Throws(w)
      <4>1. run'[w].pc \in {"buried", "fail"} =>
              /\ run[w].pc # "idle"
              /\ run'[w].pc = "buried" => run[w].pc = "buried"
              /\ run'[w].pc = "fail" => run[w].pc \in {"buried", "fail"}
        <5>1. ASSUME NEW m \in Msgs, Picks(w, m) PROVE run'[w].pc = "check"
          BY <5>1, Moves
        <5>2. Checks(w) \/ Sends(w) \/ Logs(w) \/ Fails(w) => run'[w].pc \notin {"buried", "fail"}
          BY Moves
        <5>3. Reports(w) => /\ run[w].pc # "idle" /\ run'[w].pc # "buried"
                            /\ run'[w].pc = "fail" => run[w].pc = "buried"
          BY Moves
        <5>4. Lapses(w) =>
                run[w].pc # "idle" /\ (run'[w].pc = "idle" \/ run'[w].pc = run[w].pc)
          BY Moves
        <5> QED BY <3>0, <3>3, <5>1, <5>2, <5>3, <5>4
      <4> QED BY <1>0, <3>1, <4>1 DEF EndOK
    <3> QED BY <3>2, <3>3
  <2> QED BY <2>1, <2>2, StepsAre
<1> QED BY <1>2, <1>3, <1>4 DEF EndOK

----------------------------------------------------------------------------
(* What the consumers may let go of.                                        *)

\* Once in good hands, always.
LEMMA SoundStays ==
  ASSUME TypeInv, EndOK', Next, NEW m \in Msgs, Sound(m)
  PROVE  Sound(m)'
<1> USE DEF TypeInv
<1>1. /\ sent[m] > 0 => sent'[m] > 0
      /\ m \in dead => m \in dead'
      /\ Unwanted(m) => Unwanted(m)'
      /\ Unburied => Unburied'
  <2>1. sent[m] > 0 => sent'[m] > 0
    BY SentGrows DEF RestOK
  <2>2. Unwanted(m) => Unwanted(m)'
    BY Monotone DEF Unwanted
  <2> QED BY <2>1, <2>2, Monotone DEF Unburied, Excused
<1>2. job[m].st \in Pending => job'[m].st \in Pending \cup {"completed", "failed"}
  <2>0. ASSUME NEW n \in Msgs, job' = Added(n), job[m].st \in Pending
        PROVE job'[m].st \in Pending
    BY <2>0 DEF Added, JobOK, Pending
  <2>1. CASE WorldStep \/ HandStep
    BY <2>0, <2>1 DEF WorldStep, ReadsInApp, Hides, Process, LeaseExpires,
       HandStep, Polls, ConsumerDies, Weighs, Adds, Marks, Acks
  <2>2. CASE JobStep
    <3>1. ASSUME NEW n \in Msgs, Stalled(n), job[m].st \in Pending
          PROVE job'[m].st \in Pending \cup {"failed"}
      BY <3>1 DEF Stalled, JobOK, Jobs, Pending
    <3>2. ASSUME NEW n \in Msgs, Forgets(n), job[m].st \in Pending
          PROVE job'[m].st \in Pending
      BY <3>2 DEF Forgets, JobOK, Pending
    <3> QED BY <2>2, <3>1, <3>2 DEF JobStep
  <2>3. CASE RunStep
    <3>1. ASSUME NEW w \in Workers, NEW n \in Msgs, Picks(w, n), job[m].st \in Pending
          PROVE job'[m].st \in Pending
      BY <3>1 DEF Picks, JobOK, Jobs, Pending
    <3>2. ASSUME NEW w \in Workers, Leaves(w) \/ Fails(w), job[m].st \in Pending
          PROVE job'[m].st \in Pending \cup {"completed", "failed"}
      BY <3>2 DEF Leaves, Returns, Fails, JobOK, Jobs, Pending
    <3> QED BY <2>3, <3>1, <3>2, RunShape DEF RunStep, Advances, Drops
  <2> QED BY <2>1, <2>2, <2>3, StepsAre
<1> QED BY <1>1, <1>2 DEF Sound, EndOK

LEMMA SoundStep == ASSUME TypeInv, EndOK, SoundOK, SkipOK, Next, EndOK', TypeInv' PROVE SoundOK'
<1> USE DEF TypeInv
<1>0. \A m \in Msgs : Sound(m) => Sound(m)'
  BY SoundStays
\* Nothing new is let go of.
<1>1. ASSUME \A m \in Msgs : pgmq'[m] = "gone" => pgmq[m] = "gone" \/ Sound(m),
             \A m \in Msgs, c \in Consumers :
               hand'[c][m] \in {"mark", "ack"} => hand[c][m] \in {"mark", "ack"} \/ Sound(m)'
      PROVE SoundOK'
  BY <1>0, <1>1 DEF SoundOK
<1>2. CASE WorldStep
  BY <1>1, <1>2 DEF WorldStep, ReadsInApp, Hides, Process, LeaseExpires, MsgOK
<1>3. CASE JobStep \/ RunStep
  BY <1>1, <1>3 DEF JobStep, Stalled, Forgets, RunStep, Picks, Checks, Sends, Logs, Reports,
                     Throws, Fails, Lapses
<1>4. CASE HandStep
  \* One message in one pair of hands moves.
  <2>0. ASSUME NEW c \in Consumers, NEW m \in Msgs, NEW to, Goes(c, m, to)
        PROVE /\ hand'[c][m] = to
              /\ \A d \in Consumers, n \in Msgs : d # c \/ n # m => hand'[d][n] = hand[d][n]
    BY <2>0 DEF Goes, HandOK
  <2>1. ASSUME NEW c \in Consumers, Polls(c) PROVE SoundOK'
    <3>1. \A m \in Msgs : pgmq'[m] = "gone" => pgmq[m] = "gone"
      BY <2>1 DEF Polls
    <3>2. \A m \in Msgs : hand'[c][m] \notin {"mark", "ack"}
      BY <2>1 DEF Polls, HandOK
    <3>3. \A d \in Consumers : d # c => hand'[d] = hand[d]
      BY <2>1 DEF Polls, HandOK
    <3> QED BY <1>1, <3>1, <3>2, <3>3
  <2>2. ASSUME NEW c \in Consumers, ConsumerDies(c) PROVE SoundOK'
    BY <1>1, <2>2 DEF ConsumerDies, HandOK
  <2>3. ASSUME NEW c \in Consumers, NEW m \in Msgs, Weighs(c, m) PROVE SoundOK'
    <3>1. Goes(c, m, "skip") \/ Goes(c, m, "add") \/ Goes(c, m, "idle")
      BY <2>3 DEF Weighs
    <3>2. hand'[c][m] \notin {"mark", "ack"}
      BY <2>0, <3>1
    <3>3. \A d \in Consumers, n \in Msgs : d # c \/ n # m => hand'[d][n] = hand[d][n]
      BY <2>0, <3>1
    <3> QED BY <1>1, <2>3, <3>2, <3>3 DEF Weighs
  <2>4. ASSUME NEW c \in Consumers, NEW m \in Msgs, Adds(c, m) PROVE SoundOK'
    <3>1. PICK to \in {"mark", "ack", "idle", "fail"} : Goes(c, m, to)
      BY <2>4 DEF Adds
    <3>2. hand'[c][m] = to /\ \A d \in Consumers, n \in Msgs :
                                d # c \/ n # m => hand'[d][n] = hand[d][n]
      BY <2>0, <3>1
    <3>3. to \in {"mark", "ack"} => job' = Added(m)
      <4>1. job' = Added(m) \/ Goes(c, m, "idle") \/ Goes(c, m, "fail")
        BY <2>4 DEF Adds
      <4> QED BY <2>0, <3>2, <4>1
    <3>4. job' = Added(m) => job'[m].st \in Pending \cup {"completed", "failed"}
      BY DEF Added, JobOK, Jobs, Pending
    <3>5. to \in {"mark", "ack"} => Sound(m)'
      BY <3>3, <3>4 DEF Sound, EndOK
    <3> QED BY <1>1, <2>4, <3>2, <3>5 DEF Adds
  <2>5. ASSUME NEW c \in Consumers, NEW m \in Msgs, Marks(c, m) PROVE SoundOK'
    <3>1. Goes(c, m, IF hand[c][m] = "fail" THEN "idle" ELSE "ack")
      BY <2>5 DEF Marks
    <3>2. /\ hand'[c][m] = IF hand[c][m] = "fail" THEN "idle" ELSE "ack"
          /\ \A d \in Consumers, n \in Msgs : d # c \/ n # m => hand'[d][n] = hand[d][n]
      BY <2>0, <3>1
    <3>3. hand[c][m] # "fail" => Sound(m)
      BY <2>5 DEF Marks, SoundOK, SkipOK, Sound
    <3> QED BY <1>0, <1>1, <2>5, <3>2, <3>3 DEF Marks
  <2>6. ASSUME NEW c \in Consumers, NEW m \in Msgs, Acks(c, m) PROVE SoundOK'
    <3>1. Goes(c, m, "idle") /\ Sound(m)
      BY <2>6 DEF Acks, SoundOK
    <3>2. \A n \in Msgs : pgmq'[n] = "gone" => pgmq[n] = "gone" \/ n = m
      BY <2>6 DEF Acks, MsgOK
    <3>3. /\ hand'[c][m] = "idle"
          /\ \A d \in Consumers, n \in Msgs : d # c \/ n # m => hand'[d][n] = hand[d][n]
      BY <2>0, <3>1
    <3> QED BY <1>1, <3>1, <3>2, <3>3
  <2> QED BY <1>4, <2>1, <2>2, <2>3, <2>4, <2>5, <2>6 DEF HandStep
<1> QED BY <1>2, <1>3, <1>4, StepsAre

LEMMA SkipStep == ASSUME TypeInv, SkipOK, Next PROVE SkipOK'
<1> USE DEF TypeInv
<1>0. \A m \in Msgs : Unwanted(m) => Unwanted(m)'
  BY Monotone DEF Unwanted
<1>1. ASSUME \A m \in Msgs : row'[m] = "skipped" => row[m] = "skipped" \/ Unwanted(m),
             \A m \in Msgs, c \in Consumers :
               hand'[c][m] = "skip" => hand[c][m] = "skip" \/ Unwanted(m)
      PROVE SkipOK'
  BY <1>0, <1>1 DEF SkipOK
<1>2. CASE WorldStep
  <2>1. ASSUME NEW m \in Msgs, Process(m) PROVE SkipOK'
    BY <1>1, <2>1 DEF Process, MsgOK, Unwanted
  <2> QED BY <1>1, <1>2, <2>1 DEF WorldStep, ReadsInApp, Hides, LeaseExpires
<1>3. CASE JobStep
  BY <1>1, <1>3 DEF JobStep, Stalled, Forgets
<1>4. CASE HandStep
  <2>0. ASSUME NEW c \in Consumers, NEW m \in Msgs, NEW to, Goes(c, m, to)
        PROVE /\ hand'[c][m] = to
              /\ \A d \in Consumers, n \in Msgs : d # c \/ n # m => hand'[d][n] = hand[d][n]
    BY <2>0 DEF Goes, HandOK
  <2>1. ASSUME NEW c \in Consumers, Polls(c) PROVE SkipOK'
    <3>1. \A m \in Msgs : hand'[c][m] = "skip" => Unwanted(m)
      BY <2>1 DEF Polls, HandOK, Unwanted
    <3>2. \A d \in Consumers : d # c => hand'[d] = hand[d]
      BY <2>1 DEF Polls, HandOK
    <3> QED BY <1>1, <2>1, <3>1, <3>2 DEF Polls
  <2>2. ASSUME NEW c \in Consumers, ConsumerDies(c) PROVE SkipOK'
    BY <1>1, <2>2 DEF ConsumerDies, HandOK
  <2>3. ASSUME NEW c \in Consumers, NEW m \in Msgs, Weighs(c, m) PROVE SkipOK'
    <3>1. PICK to \in {"skip", "add", "idle"} :
            Goes(c, m, to) /\ (to = "skip" => m \in hidden)
      BY <2>3 DEF Weighs
    <3>2. hand'[c][m] = to /\ \A d \in Consumers, n \in Msgs :
                                d # c \/ n # m => hand'[d][n] = hand[d][n]
      BY <2>0, <3>1
    <3> QED BY <1>1, <2>3, <3>1, <3>2 DEF Weighs, Unwanted
  <2>4. ASSUME NEW c \in Consumers, NEW m \in Msgs, Adds(c, m) \/ Acks(c, m) PROVE SkipOK'
    <3>1. PICK to \in {"mark", "ack", "idle", "fail"} : Goes(c, m, to)
      BY <2>4 DEF Adds, Acks
    <3>2. hand'[c][m] = to /\ \A d \in Consumers, n \in Msgs :
                                d # c \/ n # m => hand'[d][n] = hand[d][n]
      BY <2>0, <3>1
    <3> QED BY <1>1, <2>4, <3>1, <3>2 DEF Adds, Acks
  <2>5. ASSUME NEW c \in Consumers, NEW m \in Msgs, Marks(c, m) PROVE SkipOK'
    <3>1. PICK to \in {"ack", "idle"} : Goes(c, m, to)
      BY <2>5 DEF Marks
    <3>2. hand'[c][m] = to /\ \A d \in Consumers, n \in Msgs :
                                d # c \/ n # m => hand'[d][n] = hand[d][n]
      BY <2>0, <3>1
    <3>3. \A n \in Msgs : row'[n] = "skipped" => row[n] = "skipped" \/ (n = m /\ hand[c][m] = "skip")
      BY <2>5 DEF Marks, Update, MsgOK
    <3> QED BY <1>1, <3>1, <3>2, <3>3 DEF SkipOK
  <2> QED BY <1>4, <2>1, <2>2, <2>3, <2>4, <2>5 DEF HandStep
<1>5. CASE RunStep
  <2>1. ASSUME NEW w \in Workers, Reports(w) PROVE SkipOK'
    <3>1. \A n \in Msgs : row'[n] = "skipped" => row[n] = "skipped"
      BY <2>1 DEF Reports, Update, MsgOK
    <3> QED BY <1>1, <2>1, <3>1 DEF Reports
  <2> QED BY <1>1, <1>5, <2>1
          DEF RunStep, Picks, Checks, Sends, Logs, Throws, Fails, Lapses
<1> QED BY <1>2, <1>3, <1>4, <1>5, StepsAre

----------------------------------------------------------------------------
(* One send.                                                                *)

LEMMA OnceStep == ASSUME TypeInv, OnceOK, Next PROVE OnceOK'
<1> USE DEF TypeInv
<1>1. Calm' => Calm
  BY Monotone DEF Calm, Excused
<1>2. CASE WorldStep \/ JobStep \/ HandStep
  BY <1>1, <1>2, Frame DEF OnceOK
<1>3. CASE RunStep
  <2>0. PICK w \in Workers :
          \/ \E m \in Msgs : Picks(w, m)
          \/ Checks(w) \/ Sends(w) \/ Logs(w) \/ Reports(w) \/ Throws(w) \/ Fails(w) \/ Lapses(w)
    BY <1>3 DEF RunStep
  <2> SUFFICES ASSUME Calm' PROVE OnceOK'
    BY DEF OnceOK
  <2>1. /\ \A x \in Workers : run[x].pc # "idle" => run[x].held /\ run[x].m \in Msgs
        /\ \A m \in Msgs : sent[m] <= 1 /\ sent[m] \in Nat
        /\ \A m \in Msgs : sent[m] > 0 =>
             m \in log \/ \E x \in Workers : run[x].pc = "log" /\ run[x].m = m
        /\ \A x \in Workers : run[x].pc = "send" => run[x].m \notin log
    BY <1>1, RunTyped DEF OnceOK, RestOK
  <2>2. /\ \A x \in Workers : x # w => run'[x] = run[x]
        /\ run'[w].pc # "idle" /\ run[w].pc # "idle" => run'[w].m = run[w].m
    BY <2>0, OthersStay
  <2>3. ~Lapses(w) /\ "unsure" \notin mishaps' /\ "unlogged" \notin mishaps'
    BY Moves DEF Calm, Excused
  \* Whoever works on a message works on it alone.
  <2>4. ASSUME NEW x \in Workers, x # w, run[x].pc # "idle", run[w].pc # "idle"
        PROVE run[x].m # run[w].m
    BY <2>1, <2>4 DEF HeldOK, Holds
  <2>5. run'[w].pc # "idle" => run'[w].held
    <3>1. ASSUME NEW m \in Msgs, Picks(w, m) PROVE run'[w].held
      BY <3>1, Moves
    <3>2. ASSUME Advances(w) PROVE run'[w].held
      BY <2>1, <3>2, RunTyped DEF Advances, Step, RunOK
    <3>3. Leaves(w) \/ Fails(w) => run'[w].pc = "idle"
      BY DEF Leaves, Returns, Fails, RunOK, NoRun
    <3> QED BY <2>0, <2>3, <3>1, <3>2, <3>3, RunShape
  \* Who sends it was the first to.
  <2>6. \A m \in Msgs : sent'[m] = sent[m] \/ (m = run[w].m /\ Sends(w) /\ sent'[m] = 1)
    <3>1. CASE Sends(w)
      <4>1. run[w].pc = "send" /\ run[w].m \in Msgs /\ sent[run[w].m] = 0
        <5>1. run[w].pc = "send"
          BY <3>1, Moves
        <5>2. run[w].m \in Msgs /\ run[w].m \notin log
          BY <2>1, <5>1
        <5>3. ~\E x \in Workers : run[x].pc = "log" /\ run[x].m = run[w].m
          BY <2>4, <5>1
        <5> QED BY <2>1, <5>1, <5>2, <5>3
      <4>2. sent' = sent \/ sent' = [sent EXCEPT ![run[w].m] = @ + 1]
        BY <3>1 DEF Sends, seen
      <4> QED BY <3>1, <4>1, <4>2 DEF RestOK
    <3>2. CASE ~Sends(w)
      <4>1. UNCHANGED sent
        BY <2>0, <3>2, Moves
      <4> QED BY <4>1
    <3> QED BY <3>1, <3>2
  <2>7. log' = log \/ (run[w].pc = "log" /\ Logs(w) /\ log' = log \cup {run[w].m})
    <3>1. ASSUME NEW m \in Msgs, Picks(w, m) PROVE log' = log
      BY <3>1, Moves
    <3>2. Checks(w) \/ Sends(w) \/ Reports(w) \/ Throws(w) \/ Fails(w) => log' = log
      BY Moves
    <3>3. Logs(w) => run[w].pc = "log" /\ log' = log \cup {run[w].m}
      BY <2>3, Moves
    <3> QED BY <2>0, <2>3, <3>1, <3>2, <3>3
  \* A send is in the log, or on its way there.
  <2>8. ASSUME NEW m \in Msgs, sent'[m] > 0
        PROVE m \in log' \/ \E x \in Workers : run'[x].pc = "log" /\ run'[x].m = m
    <3>1. CASE Sends(w) /\ m = run[w].m
      <4>1. run'[w].pc = "log" \/ sent'[m] = sent[m]
        BY <2>3, <3>1, Moves
      <4>2. run[w].pc = "send"
        BY <3>1, Moves
      <4> QED BY <2>1, <2>2, <2>4, <2>8, <3>1, <4>1, <4>2
    <3>2. CASE ~(Sends(w) /\ m = run[w].m)
      <4>1. sent[m] > 0
        BY <2>6, <2>8, <3>2
      <4>2. CASE m \in log
        BY <2>7, <4>2
      <4>3. CASE m \notin log
        <5>1. PICK x \in Workers : run[x].pc = "log" /\ run[x].m = m
          BY <2>1, <4>1, <4>3
        <5>2. CASE x # w
          BY <2>2, <5>1, <5>2
        <5>3. CASE x = w
          <6>1. Logs(w)
            BY <2>0, <2>3, <5>1, <5>3, Moves DEF Picks
          <6> QED BY <2>3, <5>1, <5>3, <6>1, Moves
        <5> QED BY <5>2, <5>3
      <4> QED BY <4>2, <4>3
    <3> QED BY <3>1, <3>2
  <2>9. ASSUME NEW x \in Workers, run'[x].pc = "send" PROVE run'[x].m \notin log'
    <3>1. CASE x = w
      <4>1. Checks(w)
        BY <2>0, <2>3, <2>9, <3>1, Moves
      <4> QED BY <2>2, <2>9, <3>1, <4>1, Moves
    <3>2. CASE x # w
      BY <2>1, <2>2, <2>4, <2>7, <2>9, <3>2
    <3> QED BY <3>1, <3>2
  <2> QED
    <3>1. \A x \in Workers : run'[x].pc # "idle" => run'[x].held
      BY <2>1, <2>2, <2>5
    <3>2. \A m \in Msgs : sent'[m] <= 1
      BY <2>1, <2>6
    <3> QED BY <2>8, <2>9, <3>1, <3>2 DEF OnceOK
<1> QED BY <1>2, <1>3, StepsAre

----------------------------------------------------------------------------
(* The theorems.                                                            *)

LEMMA InitInv == Init => DeliveryInv
<1> SUFFICES ASSUME Init PROVE DeliveryInv
  OBVIOUS
<1>1. LogOK /\ EndOK /\ OnceOK
  BY DEF Init, LogOK, EndOK, OnceOK, NoRun, NoJob
<1>2. SoundOK /\ SkipOK
  BY DEF Init, SoundOK, SkipOK
<1> QED BY <1>1, <1>2, InitTypes DEF DeliveryInv

LEMMA InvStep == ASSUME DeliveryInv, [Next]_vars PROVE DeliveryInv'
<1> USE DEF DeliveryInv
<1>1. CASE Next
  <2>1. TypeInv' /\ LogOK' /\ EndOK'
    BY <1>1, TypeStep, LogStep, EndStep
  <2> QED BY <1>1, <2>1, SoundStep, SkipStep, OnceStep
<1>2. CASE UNCHANGED vars
  <2>1. TypeInv'
    BY <1>2, TypeStep
  <2> QED BY <1>2, <2>1 DEF vars, seen, world, LogOK, EndOK, SoundOK, Sound, SkipOK, Unwanted,
          OnceOK, Calm, Unburied, Excused
<1> QED BY <1>1, <1>2

THEOREM DeliveryInvariant == Spec => []DeliveryInv
  BY InitInv, InvStep, PTL DEF Spec

\* A message redelivered by pgmq, retried by BullMQ or added again after its job was
\* forgotten is sent once, as long as every send gets its line in the log
\* (email/queue.ts and push/queue.ts: the check of the log before the send).
THEOREM DeliversOnce == Spec => []SentOnce
<1>1. DeliveryInv => SentOnce
  BY DEF DeliveryInv, TypeInv, RestOK, OnceOK, Calm, SentOnce
<1> QED BY <1>1, DeliveryInvariant, PTL

\* What a consumer acknowledges is sent, dead-lettered, unwanted or still a job's business
\* (pgmqConsumer.ts: the acknowledgement comes after the enqueue).
THEOREM LosesNothing == Spec => []NothingLost
<1>1. DeliveryInv => NothingLost
  BY DEF DeliveryInv, SoundOK, Sound, Unburied, NothingLost
<1> QED BY <1>1, DeliveryInvariant, PTL

\* A row is marked skipped for a reason (digestMessage.ts: a read that failed is no answer).
THEOREM SkipsForAReason == Spec => []SkipsAreAnswers
<1>1. DeliveryInv => SkipsAreAnswers
  BY DEF DeliveryInv, SkipOK, SkipsAreAnswers
<1> QED BY <1>1, DeliveryInvariant, PTL
=============================================================================
