------------------------------ MODULE Dispatch ------------------------------
(***************************************************************************)
(* The process as a whole: main starts the processors and the receiver,    *)
(* the receiver polls the user service for due schedules, marks each one   *)
(* PROCESSING and sends it down the channel of one processor, the          *)
(* processors take jobs from their channels, work on them and drive the    *)
(* schedule to its next state, and SIGTERM cancels the one context they    *)
(* all share.  The process may also die at any moment (a panic in a        *)
(* goroutine, a kill), and is started again after either end; it keeps     *)
(* nothing of its own, so all a new process knows is the user service.     *)
(*                                                                         *)
(* A job's work is abstracted to its result here (module HandleMessage has *)
(* the detail).  The user service is external: it keeps a status and a due *)
(* date per schedule, and a request to it may be applied and answered,     *)
(* applied with the answer lost, or not applied at all.                    *)
(***************************************************************************)
EXTENDS Integers, Sequences, FiniteSets, Functions

CONSTANTS
    Schedules,      \* the (user, profile) pairs that have a schedule
    ProfileID,      \* ProfileID[s]: the profile_id of schedule s
    Results,        \* the states a job drives its schedule to; dispatch hands
                    \* them on and never looks at them
    NumProcessors,  \* NUM_PROCESSORS
    BufferSize,     \* WORKER_BUFSIZE
    MaxAttempts,    \* driveScheduleMaxAttempts
    Outages,        \* TRUE: requests fail or lose their answer at any time;
                    \* FALSE: only a cancelled context makes a request fail
    ListsProcessing,\* TRUE: the due listing includes PROCESSING schedules
    RetriesOutliveInterval, \* FALSE: the user service lets no schedule come
                    \* due again while the drive of its last run is retried
    None            \* "no schedule"

ASSUME ConstantsAssumption ==
    /\ NumProcessors \in Nat \ {0}
    /\ ProfileID \in [Schedules -> Nat]
    /\ BufferSize \in Nat
    /\ MaxAttempts \in Nat \ {0}
    /\ {Outages, ListsProcessing, RetriesOutliveInterval} \subseteq BOOLEAN
    /\ None \notin Schedules

ASSUME ResultsAssumption == "PENDING" \in Results /\ "PROCESSING" \notin Results

\* The user service has finitely many of them.
ASSUME FiniteAssumption == IsFiniteSet(Schedules)

Processors == 0 .. NumProcessors - 1

Status == Results \union {"PROCESSING"}

VARIABLES
    status,     \* user service: the state of each schedule
    due,        \* user service: due_at has passed
    stranded,   \* history: schedules left PROCESSING by a job that is gone
    cancelled,  \* the context of signal.NotifyContext
    main,       \* where run() is: "starting", "running", the two waits of
                \* the deferred shutdown, "closed", or "down" after a crash
    rcv,        \* where the receiver goroutine is
    batch,      \* the due schedules of this poll not handled yet
    cur,        \* the schedule handleSchedule is at
    buf,        \* buf[p]: the messages channel of processor p
    pc,         \* where the goroutine of processor p is
    job,        \* job[p]: the message handleMessage runs on
    outcome,    \* outcome[p]: handleMessage's local variable state
    tries       \* tries[p]: drive attempts left

service == <<status, due, stranded>>
receiver == <<rcv, batch, cur>>
processors == <<pc, job, outcome, tries>>
vars == <<service, cancelled, main, receiver, buf, processors>>

Init ==
    /\ status \in [Schedules -> Status]
    /\ due \in [Schedules -> BOOLEAN]
    /\ stranded = {s \in Schedules : status[s] = "PROCESSING"}
    /\ cancelled = FALSE
    /\ main = "starting"
    /\ rcv = "absent" /\ batch = {} /\ cur = None
    /\ buf = [p \in Processors |-> <<>>]
    /\ pc = [p \in Processors |-> "absent"]
    /\ job = [p \in Processors |-> None]
    /\ outcome = [p \in Processors |-> "PENDING"]
    /\ tries = [p \in Processors |-> 0]

-----------------------------------------------------------------------------
(* main: start-up and the deferred shutdown.                               *)

\* SIGINT or SIGTERM, at any moment of the process.
Signal ==
    /\ ~cancelled
    /\ main \notin {"closed", "down"}
    /\ cancelled' = TRUE
    /\ UNCHANGED <<service, main, receiver, buf, processors>>

\* Processors are created in order and run from their creation on.
NewProcessor(p) ==
    /\ main = "starting"
    /\ pc[p] = "absent"
    /\ \A q \in 0 .. p - 1 : pc[q] # "absent"
    /\ pc' = [pc EXCEPT ![p] = "select"]
    /\ UNCHANGED <<service, cancelled, main, receiver, buf, job, outcome, tries>>

\* Mutant: the receiver is made before the processors it sends to.
ReceiverFirst ==
    /\ main = "starting"
    /\ main' = "running"
    /\ rcv' = "select"
    /\ UNCHANGED <<service, cancelled, batch, cur, buf, processors>>

NewReceiver ==
    /\ main = "starting"
    /\ \A p \in Processors : pc[p] # "absent"
    /\ main' = "running"
    /\ rcv' = "select"
    /\ UNCHANGED <<service, cancelled, batch, cur, buf, processors>>

\* A client, a log file or a worker could not be made: run returns, and the
\* deferred function cancels the context itself.
StartupFails ==
    /\ main = "starting"
    /\ main' = "waitReceiver"
    /\ cancelled' = TRUE
    /\ UNCHANGED <<service, receiver, buf, processors>>

StopRunning ==
    /\ main = "running"
    /\ cancelled
    /\ main' = "waitReceiver"
    /\ UNCHANGED <<service, cancelled, receiver, buf, processors>>

\* Mutant: the receiver is interrupted but not waited for.
ReceiverNotWaited ==
    /\ main = "waitReceiver"
    /\ main' = "waitProcessors"
    /\ UNCHANGED <<service, cancelled, receiver, buf, processors>>

\* Mutant: a receiver that never was made is waited for, too.
NilReceiverWaited ==
    /\ main = "waitReceiver"
    /\ rcv = "exited"
    /\ main' = "waitProcessors"
    /\ UNCHANGED <<service, cancelled, receiver, buf, processors>>

ReceiverWaited ==
    /\ main = "waitReceiver"
    /\ rcv \in {"absent", "exited"}
    /\ main' = "waitProcessors"
    /\ UNCHANGED <<service, cancelled, receiver, buf, processors>>

\* WaitAll, then the cache and the clients are closed.
ProcessorsWaited ==
    /\ main = "waitProcessors"
    /\ \A p \in Processors : pc[p] \in {"absent", "exited"}
    /\ main' = "closed"
    /\ UNCHANGED <<service, cancelled, receiver, buf, processors>>

\* The memory of the process is as at its start; schedules left PROCESSING at
\* the user service have lost their job.
Forget ==
    /\ stranded' = {s \in Schedules : status[s] = "PROCESSING"}
    /\ cancelled' = FALSE
    /\ rcv' = "absent" /\ batch' = {} /\ cur' = None
    /\ buf' = [p \in Processors |-> <<>>]
    /\ pc' = [p \in Processors |-> "absent"]
    /\ job' = [p \in Processors |-> None]
    /\ outcome' = [p \in Processors |-> "PENDING"]
    /\ tries' = [p \in Processors |-> 0]
    /\ UNCHANGED <<status, due>>

\* A panic in any goroutine ends the process; nothing deferred elsewhere runs.
Crash ==
    /\ main \notin {"closed", "down"}
    /\ main' = "down"
    /\ Forget

\* Whoever runs the service starts it again.
Restart ==
    /\ main \in {"closed", "down"}
    /\ main' = "starting"
    /\ Forget

-----------------------------------------------------------------------------
(* The receiver goroutine.                                                 *)

\* Mutant: to a processor with the shortest queue.
RouteToShortest(s) ==
    CHOOSE p \in Processors : \A q \in Processors : Len(buf[p]) <= Len(buf[q])

Route(s) == ProfileID[s] % NumProcessors

Listed(s) == due[s] /\ (ListsProcessing \/ status[s] # "PROCESSING")

\* Mutant: a PROCESSING entry is taken for a job that is under way, and skipped.
PollSkipsProcessing ==
    /\ rcv = "select"
    /\ ~cancelled
    /\ batch' = {s \in Schedules : Listed(s) /\ status[s] # "PROCESSING"}
    /\ rcv' = "next"
    /\ UNCHANGED <<service, cancelled, main, cur, buf, processors>>

\* Mutant: the listing is requested outside the context of the signal.
PollOutsideContext ==
    /\ rcv = "select"
    /\ batch' = {s \in Schedules : Listed(s)}
    /\ rcv' = "next"
    /\ UNCHANGED <<service, cancelled, main, cur, buf, processors>>

\* A tick: the listing is a snapshot, and ages while the batch is worked off.
\* (A poll that fails changes nothing.)
Poll ==
    /\ rcv = "select"
    /\ ~cancelled
    /\ batch' = {s \in Schedules : Listed(s)}
    /\ rcv' = "next"
    /\ UNCHANGED <<service, cancelled, main, cur, buf, processors>>

ReceiverExit ==
    /\ rcv = "select"
    /\ cancelled
    /\ rcv' = "exited"
    /\ UNCHANGED <<service, cancelled, main, batch, cur, buf, processors>>

BatchDone ==
    /\ rcv = "next"
    /\ batch = {}
    /\ rcv' = "select"
    /\ UNCHANGED <<service, cancelled, main, batch, cur, buf, processors>>

\* Mutant: the schedule stays in the list that is worked off.
LookupRepeats(s) ==
    /\ rcv = "next"
    /\ s \in batch
    /\ ~cancelled
    /\ cur' = s
    /\ rcv' = "mark"
    /\ UNCHANGED <<service, cancelled, main, batch, buf, processors>>

\* Profile, tokens and regional refresh token were all obtained.
LookupSucceeds(s) ==
    /\ rcv = "next"
    /\ s \in batch
    /\ ~cancelled
    /\ batch' = batch \ {s}
    /\ cur' = s
    /\ rcv' = "mark"
    /\ UNCHANGED <<service, cancelled, main, buf, processors>>

LookupFails(s) ==
    /\ rcv = "next"
    /\ s \in batch
    /\ batch' = batch \ {s}
    /\ UNCHANGED <<service, cancelled, main, rcv, cur, buf, processors>>

MarkAnswered ==
    /\ rcv = "mark"
    /\ ~cancelled
    /\ status' = [status EXCEPT ![cur] = "PROCESSING"]
    /\ stranded' = stranded \ {cur}
    /\ rcv' = "notify"
    /\ UNCHANGED <<due, cancelled, main, batch, cur, buf, processors>>

\* The user service marks the schedule, the receiver sees an error.
MarkUnanswered ==
    /\ rcv = "mark"
    /\ ~cancelled /\ Outages
    /\ status' = [status EXCEPT ![cur] = "PROCESSING"]
    /\ stranded' = stranded \union {cur}
    /\ rcv' = "next" /\ cur' = None
    /\ UNCHANGED <<due, cancelled, main, batch, buf, processors>>

\* Mutant: the error is logged and the job sent all the same.
MarkFailureIgnored ==
    /\ rcv = "mark"
    /\ cancelled \/ Outages
    /\ rcv' = "notify"
    /\ UNCHANGED <<service, cancelled, main, batch, cur, buf, processors>>

MarkFails ==
    /\ rcv = "mark"
    /\ cancelled \/ Outages
    /\ rcv' = "next" /\ cur' = None
    /\ UNCHANGED <<service, cancelled, main, batch, buf, processors>>

\* Mutant: a send that does not wait, and drops the job of a full channel.
SendOrDrop ==
    /\ rcv = "notify"
    /\ buf' = IF Len(buf[Route(cur)]) < BufferSize
                THEN [buf EXCEPT ![Route(cur)] = Append(@, cur)] ELSE buf
    /\ rcv' = "next" /\ cur' = None
    /\ UNCHANGED <<service, cancelled, main, batch, processors>>

\* Notify is a plain channel send: it waits for room, whatever the context.
Send ==
    /\ rcv = "notify"
    /\ Len(buf[Route(cur)]) < BufferSize
    /\ buf' = [buf EXCEPT ![Route(cur)] = Append(@, cur)]
    /\ rcv' = "next" /\ cur' = None
    /\ UNCHANGED <<service, cancelled, main, batch, processors>>

\* The same send to a processor that is waiting in its select.
Handoff ==
    /\ rcv = "notify"
    /\ LET p == Route(cur) IN
       /\ pc[p] = "select"
       /\ buf[p] = <<>>
       /\ pc' = [pc EXCEPT ![p] = "working"]
       /\ job' = [job EXCEPT ![p] = cur]
    /\ rcv' = "next" /\ cur' = None
    /\ UNCHANGED <<service, cancelled, main, batch, buf, outcome, tries>>

-----------------------------------------------------------------------------
(* The goroutine of processor p.  Its select is free to take a message     *)
(* after the context was cancelled.                                        *)

Take(p) ==
    /\ pc[p] = "select"
    /\ buf[p] # <<>>
    /\ pc' = [pc EXCEPT ![p] = "working"]
    /\ job' = [job EXCEPT ![p] = Head(buf[p])]
    /\ buf' = [buf EXCEPT ![p] = Tail(@)]
    /\ UNCHANGED <<service, cancelled, main, receiver, outcome, tries>>

ProcessorExit(p) ==
    /\ pc[p] = "select"
    /\ cancelled
    /\ pc' = [pc EXCEPT ![p] = "exited"]
    /\ UNCHANGED <<service, cancelled, main, receiver, buf, job, outcome, tries>>

\* Mutant: MaxAttempts retries after the first attempt.
OneMoreAttempt == MaxAttempts + 1

\* What retries.Retry is given.
Attempts == MaxAttempts

\* handleMessage's body ends; its deferred function begins.
Work(p, st) ==
    /\ pc[p] = "working"
    /\ outcome' = [outcome EXCEPT ![p] = st]
    /\ tries' = [tries EXCEPT ![p] = Attempts]
    /\ pc' = [pc EXCEPT ![p] = "driving"]
    /\ UNCHANGED <<service, cancelled, main, receiver, buf, job>>

\* Mutant: the goroutine's loop ends with its first job.
EndLoop(p) ==
    /\ pc' = [pc EXCEPT ![p] = "exited"]
    /\ job' = [job EXCEPT ![p] = None]
    /\ outcome' = [outcome EXCEPT ![p] = "PENDING"]
    /\ tries' = [tries EXCEPT ![p] = 0]

EndJob(p) ==
    /\ pc' = [pc EXCEPT ![p] = "select"]
    /\ job' = [job EXCEPT ![p] = None]
    /\ outcome' = [outcome EXCEPT ![p] = "PENDING"]
    /\ tries' = [tries EXCEPT ![p] = 0]

\* retries.Retry: another attempt, or the last error is logged and dropped.
NextAttempt(p) ==
    \/ /\ tries[p] > 1
       /\ tries' = [tries EXCEPT ![p] = @ - 1]
       /\ UNCHANGED <<pc, job, outcome>>
    \/ /\ tries[p] = 1
       /\ EndJob(p)

ApplyDrive(p) ==
    /\ pc[p] = "driving"
    /\ ~cancelled
    /\ status' = [status EXCEPT ![job[p]] = outcome[p]]
    /\ due' = [due EXCEPT ![job[p]] = FALSE]
    /\ stranded' = stranded \ {job[p]}

DriveAnswered(p) ==
    /\ ApplyDrive(p)
    /\ EndJob(p)
    /\ UNCHANGED <<cancelled, main, receiver, buf>>

DriveUnanswered(p) ==
    /\ Outages
    /\ ApplyDrive(p)
    /\ NextAttempt(p)
    /\ UNCHANGED <<cancelled, main, receiver, buf>>

DriveFails(p) ==
    /\ pc[p] = "driving"
    /\ cancelled \/ Outages
    /\ NextAttempt(p)
    /\ stranded' = IF tries[p] = 1 /\ status[job[p]] = "PROCESSING"
                     THEN stranded \union {job[p]} ELSE stranded
    /\ UNCHANGED <<status, due, cancelled, main, receiver, buf>>

-----------------------------------------------------------------------------
(* Time passes at the user service.  This process does nothing that keeps  *)
(* a schedule from coming due between two attempts of its drive: whether   *)
(* that happens depends on the interval and on how the user service counts *)
(* it, so both are modelled.                                               *)

Driving(s) == \E p \in Processors : pc[p] = "driving" /\ job[p] = s

BecomeDue(s) ==
    /\ ~due[s]
    /\ RetriesOutliveInterval \/ ~Driving(s)
    /\ due' = [due EXCEPT ![s] = TRUE]
    /\ UNCHANGED <<status, stranded, cancelled, main, receiver, buf, processors>>

-----------------------------------------------------------------------------
MainStep ==
    \/ \E p \in Processors : NewProcessor(p)
    \/ NewReceiver \/ StartupFails
    \/ StopRunning \/ ReceiverWaited \/ ProcessorsWaited

ReceiverStep ==
    \/ Poll \/ ReceiverExit \/ BatchDone
    \/ \E s \in Schedules : LookupSucceeds(s) \/ LookupFails(s)
    \/ MarkAnswered \/ MarkUnanswered \/ MarkFails
    \/ Send \/ Handoff

ProcessorStep(p) ==
    \/ Take(p) \/ ProcessorExit(p)
    \/ \E st \in Results : Work(p, st)
    \/ DriveAnswered(p) \/ DriveUnanswered(p) \/ DriveFails(p)

Next ==
    \/ Signal \/ Crash \/ Restart
    \/ MainStep
    \/ ReceiverStep
    \/ \E p \in Processors : ProcessorStep(p)
    \/ \E s \in Schedules : BecomeDue(s)

Spec == Init /\ [][Next]_vars

\* What a processor's goroutine owes.  Not the end of its work: the polling
\* loop of report_worker.go has no limit, and only a done context ends it
\* (CancelStopsPolling of HandleMessage).
ProcessorGoesOn(p) == (pc[p] = "working" => cancelled) /\ ProcessorStep(p)

\* Every goroutine that can go on goes on; the signal, crashes, restarts, the
\* clock and Amazon owe nothing.
Fairness ==
    /\ WF_vars(MainStep)
    /\ WF_vars(ReceiverStep)
    /\ \A p \in Processors : WF_vars(ProcessorGoesOn(p))

FairSpec == Spec /\ Fairness

\* The user service's clock goes on, and no request about a schedule fails at
\* every poll and in every job for ever.
RecoverSpec ==
    /\ FairSpec
    /\ \A s \in Schedules :
        /\ WF_vars(BecomeDue(s))
        /\ SF_vars(LookupSucceeds(s))
        /\ SF_vars(cur = s /\ MarkAnswered)
        /\ SF_vars(\E p \in Processors : job[p] = s /\ DriveAnswered(p))

-----------------------------------------------------------------------------
(* Properties.                                                             *)

TypeOK ==
    /\ status \in [Schedules -> Status]
    /\ due \in [Schedules -> BOOLEAN]
    /\ stranded \in SUBSET Schedules
    /\ cancelled \in BOOLEAN
    /\ main \in {"starting", "running", "waitReceiver", "waitProcessors", "closed", "down"}
    /\ rcv \in {"absent", "select", "next", "mark", "notify", "exited"}
    /\ batch \in SUBSET Schedules
    /\ cur \in Schedules \union {None}
    /\ buf \in [Processors -> Seq(Schedules)]
    /\ \A p \in Processors : Len(buf[p]) <= BufferSize
    /\ pc \in [Processors -> {"absent", "select", "working", "driving", "exited"}]
    /\ job \in [Processors -> Schedules \union {None}]
    /\ outcome \in [Processors -> Results]
    /\ tries \in [Processors -> 0 .. MaxAttempts]

Queued(p) == Range(buf[p])
InHand(s) == rcv = "notify" /\ cur = s
InCustody(s) == InHand(s) \/ \E p \in Processors : s \in Queued(p) \/ job[p] = s

\* A schedule has at most one job: it is never in two places of the pipeline
\* (the receiver's hand, the channels, the processors) at once, although the
\* listing the receiver works from is stale and processors repeat drives.
AtMostOneJob ==
    /\ \A p \in Processors : IsInjective(buf[p]) /\ job[p] \notin Queued(p)
    /\ \A p, q \in Processors : p # q =>
          /\ job[p] = None \/ job[p] # job[q]
          /\ job[p] \notin Queued(q)
          /\ Queued(p) \intersect Queued(q) = {}
    /\ rcv = "notify" => \A p \in Processors : cur # job[p] /\ cur \notin Queued(p)

\* A schedule users see as PROCESSING has a job somewhere in the pipeline,
\* unless an answer was lost or every drive attempt failed: dispatch never
\* drops a job it marked.  (A message left in the channel of a processor that
\* has exited is there until the process ends, and stranded from then on.)
ProcessingHasOwner ==
    \A s \in Schedules : status[s] = "PROCESSING" => InCustody(s) \/ s \in stranded

\* What the receiver acts on stays true while it acts: until it marks a
\* schedule, the stale listing's word holds (the schedule is due and not
\* PROCESSING), and no earlier job for it is alive in the pipeline.
Pending(s) == s \in batch \/ (rcv = "mark" /\ cur = s)
ListingStaysTrue ==
    \A s \in Schedules :
        Pending(s) => due[s] /\ status[s] # "PROCESSING" /\ ~InCustody(s)

\* Two processors never work on one schedule at the same time, even when the
\* due listing repeats schedules that are being processed: the modulo routing
\* sends every job of a profile through one channel.
SerialHandling ==
    \A p, q \in Processors : p # q /\ job[p] # None => job[p] # job[q]

\* Whatever the user service lists, and however long a drive is repeated, a
\* late or repeated drive takes the PROCESSING mark only from jobs that still
\* wait, never from one that a processor is at work on.
DrivesSpareRunningJobs ==
    [][\A s \in Schedules :
        status[s] = "PROCESSING" /\ status'[s] # "PROCESSING" =>
            \A p \in Processors : job[p] = s => pc[p] = "driving"]_vars

\* The cache and the clients are closed only after every goroutine that uses
\* them is gone, and processors are waited for only after the receiver, also
\* when start-up failed half way.
NoUseAfterClose ==
    /\ main \in {"waitProcessors", "closed"} => rcv \in {"absent", "exited"}
    /\ main = "closed" => \A p \in Processors : pc[p] \in {"absent", "exited"}

\* Dispatch implements the ledger: a job in the pipeline is the claim.
Held == {s \in Schedules : InCustody(s)}
Ledger == INSTANCE ScheduleLedger WITH held <- Held
ImplementsLedger == Ledger!Spec

\* Amazon does not leave a report of processor p pending for ever.
WorkEnds(p) == []<>(pc[p] # "working")

\* Every marked schedule is resolved if its processor's work ends: driven on,
\* or left with a recorded reason (a lost answer, a drive out of attempts), or
\* the process is being shut down.  No channel order and no full channel makes
\* it wait for ever, and no other processor's endless work holds it up.
ProcessingResolves ==
    \A s \in Schedules :
        WorkEnds(Route(s)) =>
            (status[s] = "PROCESSING" ~>
                status[s] # "PROCESSING" \/ s \in stranded \/ cancelled)

\* Every schedule of a poll is reached if work ends: a full channel before
\* which the one receiver waits holds up the rest of the list, but not for ever.
ListedIsReached ==
    (\A p \in Processors : WorkEnds(p)) =>
        \A s \in Schedules : s \in batch ~> s \notin batch \/ cancelled

\* After the signal (or a failed start-up) the deferred function comes to its
\* end: the graceful shutdown of main.go.
ShutdownCompletes == cancelled ~> main \in {"closed", "down"}

\* There is only one way for it not to: the receiver waits for room in the
\* channel of a processor that has exited.  In particular the order in which
\* processors are waited for, queued messages, failing drives, and a receiver
\* that start-up never made do not keep the process from ending.
Stuck ==
    /\ rcv = "notify"
    /\ Len(buf[Route(cur)]) = BufferSize
    /\ pc[Route(cur)] = "exited"
OnlyFullChannelBlocksShutdown == cancelled ~> main \in {"closed", "down"} \/ Stuck

\* How many jobs processor p has ahead of it never exceeds the number of the
\* schedules that are routed to it: those in its channel, the one it works on
\* and the one the receiver is about to send it are different schedules.  It
\* says which WORKER_BUFSIZE is enough for the receiver never to wait.
RoutedTo(p) == {s \in Schedules : Route(s) = p}
Ahead(p) ==
    Len(buf[p]) + (IF job[p] # None THEN 1 ELSE 0)
                + (IF rcv = "notify" /\ Route(cur) = p THEN 1 ELSE 0)
QueueBounded == \A p \in Processors : Ahead(p) <= Cardinality(RoutedTo(p))

\* So shutdown hangs only where more schedules are routed to a processor than
\* its channel has slots.
StuckNeedsSmallChannel ==
    Stuck => BufferSize < Cardinality(RoutedTo(Route(cur)))

\* How far each goroutine is from its end.
MainRank ==
    CASE main = "starting" -> 4 + Cardinality({p \in Processors : pc[p] = "absent"})
      [] main = "running" -> 3
      [] main = "waitReceiver" -> 2
      [] main = "waitProcessors" -> 1
      [] OTHER -> 0
ReceiverRank ==
    CASE rcv \in {"mark", "notify"} -> 3 + Cardinality(batch)
      [] rcv = "next" -> 2 + Cardinality(batch)
      [] rcv = "select" -> 1
      [] OTHER -> 0
JobRank(p) ==
    CASE pc[p] = "working" -> MaxAttempts + 3
      [] pc[p] = "driving" -> tries[p] + 2
      [] pc[p] = "select" -> 1
      [] OTHER -> 0
CloserToExit(p) ==
    \/ Len(buf'[p]) < Len(buf[p])
    \/ buf'[p] = buf[p] /\ JobRank(p)' < JobRank(p)

\* After the signal every step of the process brings its end closer: main goes
\* forward, or the receiver does and main stays, or one processor does and all
\* others stay.  Nobody polls again or begins another round of retries, and a
\* processor's jobs only become fewer once the receiver has sent its last.
ShutdownWindsDown ==
    [][cancelled /\ cancelled' =>
        \/ MainRank' < MainRank
        \/ MainRank' = MainRank /\ ReceiverRank' < ReceiverRank
        \/ /\ UNCHANGED <<main, receiver>>
           /\ \E p \in Processors :
                /\ CloserToExit(p)
                /\ \A q \in Processors \ {p} :
                     UNCHANGED <<pc[q], buf[q], job[q], outcome[q], tries[q]>>
        \/ UNCHANGED <<main, receiver, buf, processors>>]_vars

\* And until it ends somebody can take such a step, except when it is stuck:
\* no goroutine waits for one that is not there, or for one that waits for it.
ReceiverCanMove ==
    \/ rcv \in {"select", "next", "mark"}
    \/ /\ rcv = "notify"
       /\ \/ Len(buf[Route(cur)]) < BufferSize
          \/ pc[Route(cur)] = "select" /\ buf[Route(cur)] = <<>>
MainCanMove ==
    \/ main \in {"starting", "running"}
    \/ main = "waitReceiver" /\ rcv \in {"absent", "exited"}
    \/ main = "waitProcessors" /\ \A p \in Processors : pc[p] \in {"absent", "exited"}
ShutdownIsNotBlocked ==
    /\ main \in {"waitReceiver", "waitProcessors"} => cancelled
    /\ cancelled /\ main # "closed" =>
        \/ MainCanMove \/ ReceiverCanMove \/ Stuck
        \/ \E p \in Processors : pc[p] \in {"select", "working", "driving"}

\* No schedule stays PROCESSING for ever in a process that stays up, whatever
\* crashes and shutdowns left behind before: the listing of the user service
\* is all a new process needs to take over the jobs of a dead one, if that
\* listing includes PROCESSING schedules and Amazon does not leave a processor
\* polling for ever (which would keep those behind it from their turn).
Up == ~cancelled /\ main \notin {"closed", "down"}
StrandedIsRecovered ==
    <>[]Up /\ (\A p \in Processors : WorkEnds(p)) =>
        \A s \in Schedules : []<>(status[s] # "PROCESSING")

\* The deferred function of handleMessage leaves the schedule in a state
\* other than PROCESSING.
HandledIsDriven ==
    [][\A p \in Processors :
        pc[p] = "driving" /\ pc'[p] = "select" => status'[job[p]] # "PROCESSING"]_vars
=============================================================================
