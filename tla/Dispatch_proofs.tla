--------------------------- MODULE Dispatch_proofs ---------------------------
(***************************************************************************)
(* Proofs about Dispatch, for every set of schedules, every assignment of  *)
(* profile ids, every number of processors and every buffer size.          *)
(***************************************************************************)
EXTENDS Dispatch, FiniteSetTheorems, TLAPS

-----------------------------------------------------------------------------
(* What the operators return.                                              *)

\* Every schedule is routed to a processor that exists.
LEMMA RouteType == \A s \in Schedules : Route(s) \in Processors
BY ConstantsAssumption DEF Route, Processors

\* Sending to a channel adds the message and nothing else.
LEMMA AppendFacts ==
    ASSUME NEW S, NEW q \in Seq(S), NEW e \in S
    PROVE  /\ Append(q, e) \in Seq(S)
           /\ Len(Append(q, e)) = Len(q) + 1
           /\ Range(Append(q, e)) = Range(q) \union {e}
           /\ IsInjective(q) /\ e \notin Range(q) => IsInjective(Append(q, e))
<1>1. Append(q, e) \in Seq(S) /\ Len(Append(q, e)) = Len(q) + 1
      /\ Len(q) \in Nat /\ DOMAIN q = 1 .. Len(q)
      /\ DOMAIN Append(q, e) = 1 .. Len(q) + 1
  OBVIOUS
<1>2. \A i \in 1 .. Len(q) : Append(q, e)[i] = q[i]
  OBVIOUS
<1>3. Append(q, e)[Len(q) + 1] = e
  OBVIOUS
<1>4. Range(Append(q, e)) = Range(q) \union {e}
  BY <1>1, <1>2, <1>3 DEF Range
<1>5. IsInjective(q) /\ e \notin Range(q) => IsInjective(Append(q, e))
  BY <1>1, <1>2, <1>3 DEF Range, IsInjective
<1> QED BY <1>1, <1>4, <1>5

\* Receiving from a channel removes the message, and only one of it.
LEMMA TailFacts ==
    ASSUME NEW S, NEW q \in Seq(S), q # <<>>
    PROVE  /\ Head(q) \in S /\ Tail(q) \in Seq(S)
           /\ Len(Tail(q)) = Len(q) - 1
           /\ Range(q) = Range(Tail(q)) \union {Head(q)}
           /\ IsInjective(q) => IsInjective(Tail(q)) /\ Head(q) \notin Range(Tail(q))
<1>1. Head(q) \in S /\ Tail(q) \in Seq(S) /\ Len(Tail(q)) = Len(q) - 1
      /\ Len(q) \in Nat \ {0} /\ DOMAIN q = 1 .. Len(q)
      /\ DOMAIN Tail(q) = 1 .. Len(q) - 1
  OBVIOUS
<1>2. \A i \in 1 .. Len(q) - 1 : Tail(q)[i] = q[i + 1]
  OBVIOUS
<1>3. Head(q) = q[1]
  OBVIOUS
<1>4. Range(q) = Range(Tail(q)) \union {Head(q)}
  <2>1. ASSUME NEW x \in Range(q) PROVE x \in Range(Tail(q)) \union {Head(q)}
    <3>1. PICK i \in 1 .. Len(q) : x = q[i]
      BY <1>1 DEF Range
    <3>2. CASE i = 1
      BY <3>1, <3>2, <1>3
    <3>3. CASE i # 1
      <4>1. i - 1 \in 1 .. Len(q) - 1 /\ Tail(q)[i - 1] = q[i]
        BY <1>1, <1>2, <3>3
      <4> QED BY <4>1, <3>1, <1>1 DEF Range
    <3> QED BY <3>2, <3>3
  <2>2. ASSUME NEW x \in Range(Tail(q)) \union {Head(q)} PROVE x \in Range(q)
    <3>1. CASE x = Head(q)
      BY <3>1, <1>1, <1>3 DEF Range
    <3>2. CASE x \in Range(Tail(q))
      <4>1. PICK i \in 1 .. Len(q) - 1 : x = Tail(q)[i]
        BY <3>2, <1>1 DEF Range
      <4>2. i + 1 \in 1 .. Len(q) /\ x = q[i + 1]
        BY <4>1, <1>1, <1>2
      <4> QED BY <4>2, <1>1 DEF Range
    <3> QED BY <3>1, <3>2, <2>2
  <2> QED BY <2>1, <2>2
<1>5. ASSUME IsInjective(q)
      PROVE  IsInjective(Tail(q)) /\ Head(q) \notin Range(Tail(q))
  BY <1>1, <1>2, <1>3, <1>5 DEF Range, IsInjective
<1> QED BY <1>1, <1>4, <1>5

-----------------------------------------------------------------------------
(* Type correctness, whatever the user service lists and however long the  *)
(* retries take.  The bound on a channel's length is part of it.  The      *)
(* actions name cur and job[p] only where they hold a schedule, and that   *)
(* has to be known to keep the types.                                      *)

Occupied ==
    /\ rcv \in {"mark", "notify"} => cur # None
    /\ \A p \in Processors : pc[p] \in {"working", "driving"} <=> job[p] # None

\* Types hold when the process starts.
LEMMA InitType == Init => TypeOK /\ Occupied
<1> SUFFICES ASSUME Init PROVE TypeOK /\ Occupied
  OBVIOUS
<1> USE DEF Init
<1>1. stranded \in SUBSET Schedules /\ status \in [Schedules -> Status]
  BY DEF Status
<1>2. buf \in [Processors -> Seq(Schedules)] /\ \A p \in Processors : Len(buf[p]) <= BufferSize
  BY ConstantsAssumption
<1>3. /\ outcome \in [Processors -> Results]
      /\ tries \in [Processors -> 0 .. MaxAttempts]
      /\ job \in [Processors -> Schedules \union {None}]
  BY ConstantsAssumption, ResultsAssumption
<1>4. Occupied
  BY DEF Occupied
<1> QED BY <1>1, <1>2, <1>3, <1>4 DEF TypeOK

\* What a drive attempt leaves of the processor's locals: the job ends, or
\* goes on with fewer attempts.
LEMMA AttemptFacts ==
    ASSUME TypeOK, Occupied, NEW p \in Processors, pc[p] = "driving",
           EndJob(p) \/ NextAttempt(p)
    PROVE  /\ pc' \in [Processors -> {"absent", "select", "working", "driving", "exited"}]
           /\ job' \in [Processors -> Schedules \union {None}]
           /\ outcome' \in [Processors -> Results]
           /\ tries' \in [Processors -> 0 .. MaxAttempts]
           /\ \A q \in Processors : pc'[q] \in {"working", "driving"} <=> job'[q] # None
<1> USE DEF TypeOK, Occupied
<1>1. CASE EndJob(p)
  <2>1. /\ pc' \in [Processors -> {"absent", "select", "working", "driving", "exited"}]
        /\ job' \in [Processors -> Schedules \union {None}]
        /\ pc'[p] = "select" /\ job'[p] = None
    BY <1>1 DEF EndJob
  <2>2. \A q \in Processors \ {p} : pc'[q] = pc[q] /\ job'[q] = job[q]
    BY <1>1 DEF EndJob
  <2>3. outcome' \in [Processors -> Results]
    BY <1>1, ResultsAssumption DEF EndJob
  <2>4. tries' \in [Processors -> 0 .. MaxAttempts]
    BY <1>1, ConstantsAssumption DEF EndJob
  <2> QED BY <2>1, <2>2, <2>3, <2>4
<1>2. CASE tries[p] > 1 /\ tries' = [tries EXCEPT ![p] = @ - 1] /\ UNCHANGED <<pc, job, outcome>>
  <2>1. tries[p] - 1 \in 0 .. MaxAttempts
    BY <1>2, ConstantsAssumption
  <2>2. tries' \in [Processors -> 0 .. MaxAttempts]
    BY <1>2, <2>1
  <2> QED BY <1>2, <2>2
<1> QED BY <1>1, <1>2 DEF NextAttempt

\* Every step keeps the types and what occupies the goroutines.
LEMMA NextType == TypeOK /\ Occupied /\ [Next]_vars => TypeOK' /\ Occupied'
<1> SUFFICES ASSUME TypeOK, Occupied, [Next]_vars PROVE TypeOK' /\ Occupied'
  OBVIOUS
<1> USE DEF TypeOK, Occupied, service, receiver, processors
<1>1. CASE Signal
  BY <1>1 DEF Signal
<1>2. CASE MainStep
  BY <1>2 DEF MainStep, NewProcessor, NewReceiver, StartupFails, StopRunning,
              ReceiverWaited, ProcessorsWaited
<1>3. CASE ReceiverStep
  <2>1. CASE Poll \/ ReceiverExit \/ BatchDone
    BY <2>1 DEF Poll, ReceiverExit, BatchDone
  <2>2. ASSUME NEW s \in Schedules, LookupSucceeds(s) \/ LookupFails(s)
        PROVE  TypeOK' /\ Occupied'
    BY <2>2, ConstantsAssumption DEF LookupSucceeds, LookupFails
  <2>3. CASE MarkAnswered \/ MarkUnanswered \/ MarkFails
    BY <2>3 DEF MarkAnswered, MarkUnanswered, MarkFails, Status
  <2>4. CASE Send
    <3>1. cur \in Schedules /\ Route(cur) \in Processors
      BY <2>4, RouteType DEF Send
    <3>2. /\ Append(buf[Route(cur)], cur) \in Seq(Schedules)
          /\ Len(Append(buf[Route(cur)], cur)) <= BufferSize
      <4>1. Len(Append(buf[Route(cur)], cur)) = Len(buf[Route(cur)]) + 1
            /\ Append(buf[Route(cur)], cur) \in Seq(Schedules)
        BY <3>1, AppendFacts
      <4>2. Len(buf[Route(cur)]) < BufferSize /\ Len(buf[Route(cur)]) \in Nat
        BY <2>4, <3>1 DEF Send
      <4> QED BY <4>1, <4>2, ConstantsAssumption
    <3> QED BY <2>4, <3>1, <3>2 DEF Send
  <2>5. CASE Handoff
    <3>1. cur \in Schedules /\ Route(cur) \in Processors
      BY <2>5, RouteType DEF Handoff
    <3> QED BY <2>5, <3>1, ConstantsAssumption DEF Handoff
  <2> QED BY <1>3, <2>1, <2>2, <2>3, <2>4, <2>5 DEF ReceiverStep
<1>4. ASSUME NEW p \in Processors, ProcessorStep(p) PROVE TypeOK' /\ Occupied'
  <2>1. CASE Take(p)
    <3>1. /\ Head(buf[p]) \in Schedules /\ Tail(buf[p]) \in Seq(Schedules)
          /\ Len(Tail(buf[p])) <= BufferSize
      <4>1. /\ Head(buf[p]) \in Schedules /\ Tail(buf[p]) \in Seq(Schedules)
            /\ Len(Tail(buf[p])) = Len(buf[p]) - 1
        BY <2>1, TailFacts DEF Take
      <4> QED BY <4>1, ConstantsAssumption
    <3> QED BY <2>1, <3>1, ConstantsAssumption DEF Take
  <2>2. CASE ProcessorExit(p)
    BY <2>2 DEF ProcessorExit
  <2>3. ASSUME NEW st \in Results, Work(p, st) PROVE TypeOK' /\ Occupied'
    BY <2>3, ConstantsAssumption DEF Work, Attempts
  <2>4. CASE DriveAnswered(p) \/ DriveUnanswered(p)
    <3>1. pc[p] = "driving" /\ (EndJob(p) \/ NextAttempt(p))
      BY <2>4 DEF DriveAnswered, DriveUnanswered, ApplyDrive
    <3>2. /\ pc' \in [Processors -> {"absent", "select", "working", "driving", "exited"}]
          /\ job' \in [Processors -> Schedules \union {None}]
          /\ outcome' \in [Processors -> Results]
          /\ tries' \in [Processors -> 0 .. MaxAttempts]
          /\ \A q \in Processors : pc'[q] \in {"working", "driving"} <=> job'[q] # None
      BY <3>1, AttemptFacts
    <3>3. status' \in [Schedules -> Status] /\ due' \in [Schedules -> BOOLEAN]
      <4>1. ApplyDrive(p)
        BY <2>4 DEF DriveAnswered, DriveUnanswered
      <4>2. outcome[p] \in Status
        BY DEF Status
      <4> QED BY <4>1, <4>2 DEF ApplyDrive
    <3> QED BY <2>4, <3>2, <3>3 DEF DriveAnswered, DriveUnanswered, ApplyDrive
  <2>5. CASE DriveFails(p)
    <3>1. job[p] \in Schedules /\ pc[p] = "driving" /\ NextAttempt(p)
      BY <2>5 DEF DriveFails
    <3>2. /\ pc' \in [Processors -> {"absent", "select", "working", "driving", "exited"}]
          /\ job' \in [Processors -> Schedules \union {None}]
          /\ outcome' \in [Processors -> Results]
          /\ tries' \in [Processors -> 0 .. MaxAttempts]
          /\ \A q \in Processors : pc'[q] \in {"working", "driving"} <=> job'[q] # None
      BY <3>1, AttemptFacts
    <3>3. stranded' \in SUBSET Schedules
      BY <2>5, <3>1 DEF DriveFails
    <3> QED BY <2>5, <3>2, <3>3 DEF DriveFails
  <2> QED BY <1>4, <2>1, <2>2, <2>3, <2>4, <2>5 DEF ProcessorStep
<1>5. ASSUME NEW s \in Schedules, BecomeDue(s) PROVE TypeOK' /\ Occupied'
  BY <1>5 DEF BecomeDue
<1>6. CASE Crash \/ Restart
  <2>1. Forget /\ main' \in {"down", "starting"}
    BY <1>6 DEF Crash, Restart
  <2>2. /\ job' \in [Processors -> Schedules \union {None}]
        /\ tries' \in [Processors -> 0 .. MaxAttempts]
        /\ outcome' \in [Processors -> Results]
    <3>1. tries' \in [Processors -> 0 .. MaxAttempts]
      BY <2>1, ConstantsAssumption DEF Forget
    <3>2. job' \in [Processors -> Schedules \union {None}]
      BY <2>1 DEF Forget
    <3>3. outcome' \in [Processors -> Results]
      BY <2>1, ResultsAssumption DEF Forget
    <3> QED BY <3>1, <3>2, <3>3
  <2>3. buf' \in [Processors -> Seq(Schedules)] /\ \A p \in Processors : Len(buf'[p]) <= BufferSize
    BY <2>1, ConstantsAssumption DEF Forget
  <2>4. stranded' \in SUBSET Schedules /\ UNCHANGED <<status, due>>
    BY <2>1 DEF Forget
  <2>5. /\ pc' \in [Processors -> {"absent", "select", "working", "driving", "exited"}]
        /\ \A p \in Processors : pc'[p] = "absent" /\ job'[p] = None
        /\ rcv' = "absent" /\ batch' = {} /\ cur' = None /\ cancelled' = FALSE
    BY <2>1 DEF Forget
  <2>6. Occupied'
    BY <2>5
  <2> QED BY <2>1, <2>2, <2>3, <2>4, <2>5, <2>6
<1>7. CASE UNCHANGED vars
  BY <1>7 DEF vars
<1> QED BY <1>1, <1>2, <1>3, <1>4, <1>5, <1>6, <1>7 DEF Next

\* All variables keep their types, and no channel ever holds more than
\* BufferSize messages.
THEOREM TypeCorrect == Spec => []TypeOK
<1>1. Spec => [](TypeOK /\ Occupied)
  BY InitType, NextType, PTL DEF Spec
<1> QED BY <1>1, PTL

-----------------------------------------------------------------------------
(* Start-up and shutdown.                                                  *)

\* The receiver is made last and waited for first.
Phases ==
    /\ main = "starting" => rcv = "absent"
    /\ NoUseAfterClose

\* The phases of shutdown hold when the process starts,
LEMMA InitPhases == Init => Phases
BY DEF Init, Phases, NoUseAfterClose

\* and every step keeps them.
LEMMA NextPhases == TypeOK /\ Phases /\ [Next]_vars => Phases'
<1> SUFFICES ASSUME TypeOK, Phases, [Next]_vars PROVE Phases'
  OBVIOUS
<1> USE DEF Phases, NoUseAfterClose, receiver, processors
<1>1. CASE Signal \/ UNCHANGED vars
  BY <1>1 DEF Signal, vars
<1>2. ASSUME NEW p \in Processors, NewProcessor(p) PROVE Phases'
  BY <1>2 DEF NewProcessor
<1>3. CASE NewReceiver \/ StartupFails \/ StopRunning
  BY <1>3 DEF NewReceiver, StartupFails, StopRunning
<1>4. CASE ReceiverWaited \/ ProcessorsWaited
  BY <1>4 DEF ReceiverWaited, ProcessorsWaited
<1>5. CASE Poll \/ ReceiverExit \/ BatchDone \/ MarkAnswered \/ MarkUnanswered \/ MarkFails \/ Send
  BY <1>5 DEF Poll, ReceiverExit, BatchDone, MarkAnswered, MarkUnanswered, MarkFails, Send
<1>6. ASSUME NEW s \in Schedules, LookupSucceeds(s) \/ LookupFails(s) PROVE Phases'
  BY <1>6 DEF LookupSucceeds, LookupFails
<1>7. CASE Handoff
  BY <1>7 DEF Handoff
<1>8. ASSUME NEW p \in Processors, ProcessorStep(p) PROVE Phases'
  <2>1. main' = main /\ rcv' = rcv
    BY <1>8 DEF ProcessorStep, Take, ProcessorExit, Work, DriveAnswered, DriveUnanswered,
                DriveFails
  <2>2. main # "closed"
    BY <1>8 DEF ProcessorStep, Take, ProcessorExit, Work, DriveAnswered, DriveUnanswered,
                DriveFails, ApplyDrive
  <2> QED BY <2>1, <2>2
<1>9. ASSUME NEW s \in Schedules, BecomeDue(s) PROVE Phases'
  BY <1>9 DEF BecomeDue
<1>10. CASE Crash \/ Restart
  BY <1>10 DEF Crash, Restart, Forget
<1> QED BY <1>1, <1>2, <1>3, <1>4, <1>5, <1>6, <1>7, <1>8, <1>9, <1>10
        DEF Next, MainStep, ReceiverStep

\* Whatever fails during start-up and whenever the signal comes, the clients
\* and the cache are closed after the last goroutine that uses them.
THEOREM NoUseAfterCloseHolds == Spec => []NoUseAfterClose
<1>1. Spec => [](TypeOK /\ Occupied /\ Phases)
  BY InitType, InitPhases, NextType, NextPhases, PTL DEF Spec
<1> QED BY <1>1, PTL DEF Phases

-----------------------------------------------------------------------------
(* Routing.  A schedule that is queued at a processor or worked on by it   *)
(* was routed to it, so two processors never share one.  Nothing is        *)
(* assumed of the user service here.                                       *)

Routed ==
    \A p \in Processors, s \in Schedules :
        s \in Queued(p) \/ job[p] = s => Route(s) = p

\* How the channels change: a send adds cur at the end of one of them,
LEMMA SendFacts ==
    ASSUME TypeOK, Occupied, Send
    PROVE  /\ cur \in Schedules /\ Route(cur) \in Processors
           /\ \A q \in Processors : Queued(q)' =
                IF q = Route(cur) THEN Queued(q) \union {cur} ELSE Queued(q)
           /\ \A q \in Processors :
                IsInjective(buf[q]) /\ (q = Route(cur) => cur \notin Queued(q))
                    => IsInjective(buf[q])'
<1>1. cur \in Schedules /\ Route(cur) \in Processors
  BY RouteType DEF TypeOK, Occupied, Send
<1>2. /\ \A q \in Processors : buf[q] \in Seq(Schedules)
      /\ buf'[Route(cur)] = Append(buf[Route(cur)], cur)
      /\ \A q \in Processors \ {Route(cur)} : buf'[q] = buf[q]
  BY <1>1 DEF TypeOK, Send
<1>3. /\ Range(buf'[Route(cur)]) = Range(buf[Route(cur)]) \union {cur}
      /\ IsInjective(buf[Route(cur)]) /\ cur \notin Range(buf[Route(cur)])
            => IsInjective(buf'[Route(cur)])
  BY <1>1, <1>2, AppendFacts
<1>4. \A q \in Processors : Queued(q)' =
        IF q = Route(cur) THEN Queued(q) \union {cur} ELSE Queued(q)
  BY <1>1, <1>2, <1>3 DEF Queued
<1>5. ASSUME NEW q \in Processors, IsInjective(buf[q]), q = Route(cur) => cur \notin Queued(q)
      PROVE  IsInjective(buf[q])'
  BY <1>2, <1>3, <1>5 DEF Queued
<1> QED BY <1>1, <1>4, <1>5

\* and a receive moves the head of a channel into its processor's hands.
LEMMA TakeFacts ==
    ASSUME TypeOK, Occupied, NEW p \in Processors, Take(p)
    PROVE  /\ job[p] = None /\ job'[p] \in Schedules /\ job'[p] \in Queued(p)
           /\ Queued(p) = Queued(p)' \union {job'[p]}
           /\ IsInjective(buf[p]) => IsInjective(buf[p])' /\ job'[p] \notin Queued(p)'
           /\ \A q \in Processors \ {p} :
                buf'[q] = buf[q] /\ Queued(q)' = Queued(q) /\ job'[q] = job[q]
<1>1. /\ buf[p] \in Seq(Schedules) /\ buf[p] # <<>>
      /\ buf'[p] = Tail(buf[p]) /\ job'[p] = Head(buf[p]) /\ job[p] = None
      /\ \A q \in Processors \ {p} : buf'[q] = buf[q] /\ job'[q] = job[q]
  BY DEF TypeOK, Occupied, Take
<1>2. /\ Head(buf[p]) \in Schedules
      /\ Range(buf[p]) = Range(Tail(buf[p])) \union {Head(buf[p])}
      /\ IsInjective(buf[p]) =>
            IsInjective(Tail(buf[p])) /\ Head(buf[p]) \notin Range(Tail(buf[p]))
  BY <1>1, TailFacts
<1> QED BY <1>1, <1>2 DEF Queued

\* A handoff puts cur into the hands of the idle processor it is routed to.
LEMMA HandoffFacts ==
    ASSUME TypeOK, Occupied, Handoff
    PROVE  /\ cur \in Schedules /\ Route(cur) \in Processors
           /\ job[Route(cur)] = None /\ job'[Route(cur)] = cur
           /\ pc'[Route(cur)] = "working"
           /\ \A q \in Processors \ {Route(cur)} : job'[q] = job[q] /\ pc'[q] = pc[q]
           /\ buf' = buf /\ \A q \in Processors : Queued(q)' = Queued(q)
<1>1. cur \in Schedules /\ Route(cur) \in Processors
  BY RouteType DEF TypeOK, Occupied, Handoff
<1>2. \A q \in Processors : Queued(q)' = Queued(q)
  BY DEF Handoff, Queued
<1> QED BY <1>1, <1>2 DEF TypeOK, Occupied, Handoff

\* The end of a process and the start of the next leave no job anywhere.
LEMMA ForgetFacts ==
    ASSUME Forget
    PROVE  /\ \A q \in Processors : Queued(q)' = {} /\ IsInjective(buf[q])' /\ job'[q] = None
           /\ rcv' = "absent" /\ batch' = {} /\ pc' = [q \in Processors |-> "absent"]
<1>1. \A q \in Processors : buf'[q] = <<>>
  BY DEF Forget
<1> QED BY <1>1 DEF Forget, Queued, Range, IsInjective

\* Jobs appear and disappear by these steps only.
LEMMA JobSteps ==
    ASSUME TypeOK, Occupied, [Next]_vars
    PROVE  \/ UNCHANGED <<buf, job>>
           \/ Send \/ Handoff
           \/ \E p \in Processors : Take(p)
           \/ \E p \in Processors : EndJob(p) /\ UNCHANGED buf
           \/ Forget
<1>1. CASE ReceiverStep
  BY <1>1 DEF ReceiverStep, Poll, ReceiverExit, BatchDone, LookupSucceeds, LookupFails,
              MarkAnswered, MarkUnanswered, MarkFails, processors
<1>2. CASE MainStep
  BY <1>2 DEF MainStep, NewProcessor, NewReceiver, StartupFails, StopRunning,
              ReceiverWaited, ProcessorsWaited, processors
<1>3. ASSUME NEW p \in Processors, ProcessorStep(p)
      PROVE  UNCHANGED <<buf, job>> \/ Take(p) \/ (EndJob(p) /\ UNCHANGED buf)
  <2>1. NextAttempt(p) => UNCHANGED job \/ EndJob(p)
    BY DEF NextAttempt
  <2>2. CASE Take(p) \/ ProcessorExit(p) \/ \E st \in Results : Work(p, st)
    BY <2>2 DEF ProcessorExit, Work
  <2>3. CASE DriveAnswered(p) \/ DriveUnanswered(p) \/ DriveFails(p)
    BY <2>1, <2>3 DEF DriveAnswered, DriveUnanswered, DriveFails
  <2> QED BY <1>3, <2>2, <2>3 DEF ProcessorStep
<1>4. CASE UNCHANGED vars \/ Signal \/ \E s \in Schedules : BecomeDue(s)
  BY <1>4 DEF Signal, BecomeDue, vars, processors
<1> QED BY <1>1, <1>2, <1>3, <1>4 DEF Next, Crash, Restart

\* Every step keeps each job with the processor its profile is routed to.
LEMMA NextRouted == TypeOK /\ Occupied /\ Routed /\ [Next]_vars => Routed'
<1> SUFFICES ASSUME TypeOK, Occupied, Routed, [Next]_vars,
                    NEW q \in Processors, NEW s \in Schedules,
                    s \in Queued(q)' \/ job'[q] = s
             PROVE  Route(s)' = q
  BY DEF Routed
<1>0. Route(s)' = Route(s)
  BY DEF Route
<1>1. CASE UNCHANGED <<buf, job>>
  BY <1>0, <1>1 DEF Routed, Queued
<1>2. CASE Send
  BY <1>0, <1>2, SendFacts DEF Routed, Send, processors
<1>3. CASE Handoff
  BY <1>0, <1>3, HandoffFacts DEF Routed
<1>4. ASSUME NEW p \in Processors, Take(p) PROVE Route(s)' = q
  BY <1>0, <1>4, TakeFacts DEF Routed
<1>5. ASSUME NEW p \in Processors, EndJob(p), UNCHANGED buf PROVE Route(s)' = q
  BY <1>0, <1>5, ConstantsAssumption DEF Routed, Queued, EndJob, TypeOK
<1>6. CASE Forget
  BY <1>6, ForgetFacts, ConstantsAssumption
<1> QED BY <1>1, <1>2, <1>3, <1>4, <1>5, <1>6, JobSteps

\* There is no job when the process starts.
LEMMA InitRouted == Init => Routed
BY ConstantsAssumption DEF Init, Routed, Queued, Range

\* So jobs are always where the routing puts them.
LEMMA AlwaysRouted == Spec => [](TypeOK /\ Occupied /\ Routed)
BY InitType, InitRouted, NextType, NextRouted, PTL DEF Spec

\* Two processors never work on one schedule, even if the due listing repeats
\* schedules that are being processed: the modulo routing serialises them.
THEOREM SerialHandlingHolds == Spec => []SerialHandling
<1>1. TypeOK /\ Routed => SerialHandling
  BY DEF TypeOK, Routed, SerialHandling
<1> QED BY <1>1, AlwaysRouted, PTL

\* Only a drive takes a PROCESSING mark.
LEMMA OnlyDrivesUnmark ==
    ASSUME TypeOK, Occupied, [Next]_vars,
           NEW s \in Schedules, status[s] = "PROCESSING", status'[s] # "PROCESSING"
    PROVE  \E q \in Processors : pc[q] = "driving" /\ job[q] = s
<1>1. CASE UNCHANGED status
  BY <1>1
<1>2. CASE MarkAnswered \/ MarkUnanswered
  BY <1>2 DEF MarkAnswered, MarkUnanswered, TypeOK
<1>3. ASSUME NEW q \in Processors, ApplyDrive(q)
      PROVE  pc[q] = "driving" /\ job[q] = s
  BY <1>3 DEF ApplyDrive, TypeOK
<1>4. CASE ReceiverStep
  <2>1. UNCHANGED status \/ MarkAnswered \/ MarkUnanswered
    BY <1>4 DEF ReceiverStep, Poll, ReceiverExit, BatchDone, LookupSucceeds, LookupFails,
                MarkFails, Send, Handoff, service
  <2> QED BY <1>1, <1>2, <2>1
<1>5. ASSUME NEW q \in Processors, ProcessorStep(q)
      PROVE  UNCHANGED status \/ ApplyDrive(q)
  BY <1>5 DEF ProcessorStep, Take, ProcessorExit, Work, DriveAnswered, DriveUnanswered,
              DriveFails, service
<1>6. CASE UNCHANGED vars \/ Signal \/ Crash \/ Restart \/ MainStep
           \/ \E r \in Schedules : BecomeDue(r)
  <2>1. UNCHANGED status
    BY <1>6 DEF vars, Signal, Crash, Restart, Forget, MainStep, NewProcessor, NewReceiver,
                StartupFails, StopRunning, ReceiverWaited, ProcessorsWaited, BecomeDue, service
  <2> QED BY <1>1, <2>1
<1> QED BY <1>1, <1>3, <1>4, <1>5, <1>6 DEF Next

\* However late a drive is applied or repeated, and whatever was listed
\* meanwhile, it overwrites marks of waiting jobs at most: the one processor
\* that may work on the schedule is the one that drives it.
THEOREM DrivesSpareRunningJobsHolds == Spec => DrivesSpareRunningJobs
<1>1. TypeOK /\ Occupied /\ Routed /\ [Next]_vars =>
        [\A s \in Schedules :
            status[s] = "PROCESSING" /\ status'[s] # "PROCESSING" =>
                \A p \in Processors : job[p] = s => pc[p] = "driving"]_vars
  <2> SUFFICES ASSUME TypeOK, Occupied, Routed, [Next]_vars,
                      NEW s \in Schedules,
                      status[s] = "PROCESSING", status'[s] # "PROCESSING",
                      NEW p \in Processors, job[p] = s
               PROVE  pc[p] = "driving"
    OBVIOUS
  <2>1. PICK q \in Processors : pc[q] = "driving" /\ job[q] = s
    BY OnlyDrivesUnmark
  <2>2. p = q
    BY <2>1 DEF Routed
  <2> QED BY <2>1, <2>2
<1> QED BY <1>1, AlwaysRouted, PTL DEF Spec, DrivesSpareRunningJobs

-----------------------------------------------------------------------------
(* One job per schedule.  This needs two things of the user service: it    *)
(* does not list PROCESSING schedules as due, and no schedule comes due    *)
(* again while the drive of its last run is still being retried.           *)
(*                                                                         *)
(* The invariant ties the three actors together.  A schedule that is       *)
(* listed, or about to be marked, is due and not PROCESSING.  A schedule   *)
(* with a job is PROCESSING until its job drives it, and from then on not  *)
(* due or still PROCESSING.  So the two never are the same schedule.       *)

OneRunAtATime == ~ListsProcessing /\ ~RetriesOutliveInterval

CurLeftBatch == rcv = "mark" => cur \notin batch

\* From the mark until the job reports, its schedule is PROCESSING.
WaitingIsMarked ==
    \A s \in Schedules :
        \/ InHand(s)
        \/ \E p \in Processors : s \in Queued(p) \/ (job[p] = s /\ pc[p] = "working")
        => status[s] = "PROCESSING"

DrivenIsDone ==
    \A p \in Processors :
        pc[p] = "driving" => status[job[p]] = "PROCESSING" \/ ~due[job[p]]

\* AtMostOneJob without the pairs of processors, which Routed takes care of.
NoSecondJob ==
    /\ \A p \in Processors : IsInjective(buf[p]) /\ job[p] \notin Queued(p)
    /\ rcv = "notify" => \A p \in Processors : cur # job[p] /\ cur \notin Queued(p)

Claims ==
    /\ NoSecondJob
    /\ ListingStaysTrue /\ CurLeftBatch
    /\ WaitingIsMarked /\ DrivenIsDone

IInv == TypeOK /\ Occupied /\ Phases /\ Routed /\ Claims

\* With the routing, one job per processor and schedule is one job among all.
LEMMA OneJobAmongAll == TypeOK /\ Routed /\ NoSecondJob => AtMostOneJob
<1> SUFFICES ASSUME TypeOK, Routed, NoSecondJob PROVE AtMostOneJob
  OBVIOUS
<1>1. \A p \in Processors : Queued(p) \subseteq Schedules
  <2> SUFFICES ASSUME NEW p \in Processors PROVE Range(buf[p]) \subseteq Schedules
    BY DEF Queued
  <2>1. buf[p] \in Seq(Schedules)
    BY DEF TypeOK
  <2> QED BY <2>1 DEF Range
<1>2. ASSUME NEW p \in Processors, NEW q \in Processors, p # q
      PROVE  /\ job[p] = None \/ job[p] # job[q]
             /\ job[p] \notin Queued(q)
             /\ Queued(p) \intersect Queued(q) = {}
  <2>1. job[p] \in Schedules \union {None} /\ None \notin Schedules
    BY ConstantsAssumption DEF TypeOK
  <2> QED BY <1>1, <1>2, <2>1 DEF Routed
<1> QED BY <1>2 DEF NoSecondJob, AtMostOneJob

\* Steps that leave the claims alone: nothing is marked, driven, sent or
\* taken, and the receiver plans nothing new.
LEMMA QuietStep ==
    ASSUME Claims,
           UNCHANGED <<status, due, buf, job>>,
           rcv = "notify" <=> rcv' = "notify", rcv = "notify" => cur' = cur,
           CurLeftBatch',
           \A s \in Schedules : Pending(s)' => Pending(s),
           \A p \in Processors : /\ pc'[p] = "working" <=> pc[p] = "working"
                                 /\ pc'[p] = "driving" <=> pc[p] = "driving"
    PROVE  Claims'
<1> USE DEF Claims
<1>1. \A p \in Processors : Queued(p)' = Queued(p)
  BY DEF Queued
<1>2. \A s \in Schedules : InHand(s)' <=> InHand(s)
  BY DEF InHand
<1>3. NoSecondJob'
  BY <1>1 DEF NoSecondJob
<1>4. ListingStaysTrue'
  BY <1>1, <1>2 DEF ListingStaysTrue, InCustody
<1>5. WaitingIsMarked'
  BY <1>1, <1>2 DEF WaitingIsMarked
<1>6. DrivenIsDone'
  BY DEF DrivenIsDone
<1> QED BY <1>3, <1>4, <1>5, <1>6

\* A poll lists no schedule that has a job: such a one is PROCESSING, or its
\* job is driving it and it is not due.
LEMMA PollStep ==
    ASSUME OneRunAtATime, IInv, Poll
    PROVE  Claims'
<1> USE DEF IInv, Claims
<1>1. \A p \in Processors : Queued(p)' = Queued(p) /\ job'[p] = job[p] /\ pc'[p] = pc[p]
  BY DEF Poll, Queued, processors
<1>2. /\ rcv = "select" /\ rcv' = "next" /\ status' = status /\ due' = due
      /\ \A s \in batch' : due[s] /\ status[s] # "PROCESSING"
  BY DEF Poll, Listed, service, OneRunAtATime
<1>3. NoSecondJob' /\ CurLeftBatch' /\ DrivenIsDone'
  BY <1>1, <1>2 DEF NoSecondJob, CurLeftBatch, DrivenIsDone, Poll
<1>4. WaitingIsMarked'
  BY <1>1, <1>2 DEF WaitingIsMarked, InHand
<1>5. ListingStaysTrue'
  <2> SUFFICES ASSUME NEW s \in Schedules, s \in batch' PROVE ~InCustody(s)'
    BY <1>2 DEF ListingStaysTrue, Pending
  <2>1. ~InHand(s)'
    BY <1>2 DEF InHand
  <2>2. ASSUME NEW p \in Processors PROVE s \notin Queued(p) /\ job[p] # s
    <3>1. s \notin Queued(p) /\ ~(job[p] = s /\ pc[p] = "working")
      BY <1>2 DEF WaitingIsMarked
    <3>2. ~(job[p] = s /\ pc[p] = "driving")
      BY <1>2 DEF DrivenIsDone
    <3>3. job[p] = s => pc[p] \in {"working", "driving"}
      BY ConstantsAssumption DEF Occupied
    <3> QED BY <3>1, <3>2, <3>3
  <2> QED BY <1>1, <2>1, <2>2 DEF InCustody
<1> QED BY <1>3, <1>4, <1>5

\* The schedule that is marked had no job, so the mark is the first claim.
LEMMA MarkStep ==
    ASSUME IInv, MarkAnswered \/ MarkUnanswered
    PROVE  Claims'
<1> USE DEF IInv, Claims
<1>1. /\ rcv = "mark" /\ cur \in Schedules
      /\ rcv' \in {"next", "notify"} /\ (rcv' = "notify" => cur' = cur)
      /\ status' = [status EXCEPT ![cur] = "PROCESSING"]
      /\ due' = due /\ batch' = batch
  BY DEF MarkAnswered, MarkUnanswered, Occupied, TypeOK
<1>2. \A p \in Processors : /\ Queued(p)' = Queued(p)
                            /\ job'[p] = job[p] /\ pc'[p] = pc[p] /\ buf'[p] = buf[p]
  BY DEF MarkAnswered, MarkUnanswered, Queued, processors
<1>3. /\ cur \notin batch
      /\ \A p \in Processors : cur \notin Queued(p) /\ job[p] # cur
  BY <1>1 DEF ListingStaysTrue, Pending, InCustody, CurLeftBatch
<1>4. \A s \in Schedules \ {cur} : status'[s] = status[s]
  BY <1>1 DEF TypeOK
<1>5. status'[cur] = "PROCESSING"
  BY <1>1 DEF TypeOK
<1>6. NoSecondJob' /\ CurLeftBatch'
  BY <1>1, <1>2, <1>3 DEF NoSecondJob, CurLeftBatch
<1>7. ListingStaysTrue'
  <2> SUFFICES ASSUME NEW s \in Schedules, s \in batch
               PROVE  due[s] /\ status'[s] # "PROCESSING" /\ ~InCustody(s)'
    BY <1>1 DEF ListingStaysTrue, Pending
  <2>1. s # cur /\ due[s] /\ status[s] # "PROCESSING" /\ ~InCustody(s)
    BY <1>3 DEF ListingStaysTrue, Pending
  <2> QED BY <1>1, <1>2, <1>4, <2>1 DEF InCustody, InHand
<1>8. WaitingIsMarked'
  <2> SUFFICES ASSUME NEW s \in Schedules,
                      \/ InHand(s)'
                      \/ \E p \in Processors : s \in Queued(p)' \/ (job'[p] = s /\ pc'[p] = "working")
               PROVE  status'[s] = "PROCESSING"
    BY DEF WaitingIsMarked
  <2>1. CASE s = cur
    BY <1>5, <2>1
  <2>2. CASE s # cur
    BY <1>1, <1>2, <1>4, <2>2 DEF WaitingIsMarked, InHand
  <2> QED BY <2>1, <2>2
<1>9. DrivenIsDone'
  <2> SUFFICES ASSUME NEW p \in Processors, pc[p] = "driving"
               PROVE  status'[job[p]] = "PROCESSING" \/ ~due[job[p]]
    BY <1>1, <1>2 DEF DrivenIsDone
  <2>1. job[p] \in Schedules \ {cur}
    BY <1>3 DEF Occupied, TypeOK
  <2> QED BY <1>4, <2>1 DEF DrivenIsDone
<1> QED BY <1>6, <1>7, <1>8, <1>9

\* A send, a handoff and a receive pass a claim on.
LEMMA SendStep ==
    ASSUME IInv, Send
    PROVE  Claims'
<1> USE DEF IInv, Claims
<1>1. /\ rcv = "notify" /\ rcv' = "next" /\ batch' = batch
      /\ UNCHANGED <<status, due, job, pc>>
  BY DEF Send, service, processors
<1>2. /\ cur \in Schedules /\ Route(cur) \in Processors
      /\ \A q \in Processors : Queued(q)' =
            IF q = Route(cur) THEN Queued(q) \union {cur} ELSE Queued(q)
      /\ \A q \in Processors :
            IsInjective(buf[q]) /\ (q = Route(cur) => cur \notin Queued(q))
                => IsInjective(buf[q])'
  BY SendFacts
<1>3. NoSecondJob' /\ CurLeftBatch'
  BY <1>1, <1>2 DEF NoSecondJob, CurLeftBatch
<1>4. \A s \in Schedules : InCustody(s)' <=> InCustody(s)
  BY <1>1, <1>2 DEF InCustody, InHand
<1>5. ListingStaysTrue'
  BY <1>1, <1>4 DEF ListingStaysTrue, Pending
<1>6. WaitingIsMarked' /\ DrivenIsDone'
  BY <1>1, <1>2 DEF WaitingIsMarked, InHand, DrivenIsDone
<1> QED BY <1>3, <1>5, <1>6

\* The receiver hands a job to a waiting processor.
LEMMA HandoffStep ==
    ASSUME IInv, Handoff
    PROVE  Claims'
<1> USE DEF IInv, Claims
<1>1. /\ rcv = "notify" /\ rcv' = "next" /\ batch' = batch
      /\ UNCHANGED <<status, due, buf>>
  BY DEF Handoff, service
<1>2. /\ cur \in Schedules /\ Route(cur) \in Processors
      /\ job[Route(cur)] = None /\ job'[Route(cur)] = cur
      /\ pc'[Route(cur)] = "working"
      /\ \A q \in Processors \ {Route(cur)} : job'[q] = job[q] /\ pc'[q] = pc[q]
      /\ \A q \in Processors : Queued(q)' = Queued(q)
  BY HandoffFacts
<1>3. NoSecondJob' /\ CurLeftBatch'
  BY <1>1, <1>2 DEF NoSecondJob, CurLeftBatch
<1>4. \A s \in Schedules : InCustody(s)' <=> InCustody(s)
  BY <1>1, <1>2, ConstantsAssumption DEF InCustody, InHand
<1>5. ListingStaysTrue'
  BY <1>1, <1>4 DEF ListingStaysTrue, Pending
<1>6. WaitingIsMarked' /\ DrivenIsDone'
  BY <1>1, <1>2 DEF WaitingIsMarked, InHand, DrivenIsDone
<1> QED BY <1>3, <1>5, <1>6

\* A processor takes a job from its channel.
LEMMA TakeStep ==
    ASSUME IInv, NEW p \in Processors, Take(p)
    PROVE  Claims'
<1> USE DEF IInv, Claims
<1>1. /\ UNCHANGED <<status, due, rcv, batch, cur>>
      /\ pc'[p] = "working" /\ \A q \in Processors \ {p} : pc'[q] = pc[q]
  BY DEF Take, service, receiver, TypeOK
<1>2. /\ job[p] = None /\ job'[p] \in Schedules /\ job'[p] \in Queued(p)
      /\ Queued(p) = Queued(p)' \union {job'[p]}
      /\ IsInjective(buf[p]) => IsInjective(buf[p])' /\ job'[p] \notin Queued(p)'
      /\ \A q \in Processors \ {p} :
            buf'[q] = buf[q] /\ Queued(q)' = Queued(q) /\ job'[q] = job[q]
  BY TakeFacts
<1>3. NoSecondJob' /\ CurLeftBatch'
  BY <1>1, <1>2 DEF NoSecondJob, CurLeftBatch
<1>4. \A s \in Schedules : InCustody(s)' <=> InCustody(s)
  BY <1>1, <1>2, ConstantsAssumption DEF InCustody, InHand
<1>5. ListingStaysTrue'
  BY <1>1, <1>4 DEF ListingStaysTrue, Pending
<1>6. WaitingIsMarked' /\ DrivenIsDone'
  BY <1>1, <1>2 DEF WaitingIsMarked, InHand, DrivenIsDone
<1> QED BY <1>3, <1>5, <1>6

\* The work ends; the schedule is still PROCESSING when the drive begins.
LEMMA WorkStep ==
    ASSUME IInv, NEW p \in Processors, NEW st \in Results, Work(p, st)
    PROVE  Claims'
<1> USE DEF IInv, Claims
<1>1. /\ UNCHANGED <<status, due, rcv, batch, cur, buf, job>>
      /\ pc[p] = "working" /\ pc'[p] = "driving"
      /\ \A q \in Processors \ {p} : pc'[q] = pc[q]
  BY DEF Work, service, receiver, TypeOK
<1>2. \A q \in Processors : Queued(q)' = Queued(q)
  BY <1>1 DEF Queued
<1>3. NoSecondJob' /\ CurLeftBatch'
  BY <1>1, <1>2 DEF NoSecondJob, CurLeftBatch
<1>4. ListingStaysTrue' /\ WaitingIsMarked'
  BY <1>1, <1>2 DEF ListingStaysTrue, Pending, InCustody, WaitingIsMarked, InHand
<1>5. status[job[p]] = "PROCESSING"
  BY <1>1 DEF WaitingIsMarked, Occupied, TypeOK
<1>6. DrivenIsDone'
  BY <1>1, <1>5 DEF DrivenIsDone
<1> QED BY <1>3, <1>4, <1>6

\* A drive attempt, whatever becomes of it, concerns no schedule but that of
\* the job it is made for, and no other job is for this schedule.
LEMMA DriveStep ==
    ASSUME IInv, NEW p \in Processors,
           DriveAnswered(p) \/ DriveUnanswered(p) \/ DriveFails(p)
    PROVE  Claims'
<1> USE DEF IInv, Claims
<1>1. /\ pc[p] = "driving" /\ job[p] \in Schedules
      /\ UNCHANGED <<rcv, batch, cur, buf>>
      /\ EndJob(p) \/ UNCHANGED <<pc, job>>
  BY DEF DriveAnswered, DriveUnanswered, DriveFails, ApplyDrive, NextAttempt, receiver,
         Occupied, TypeOK
<1>2. /\ \A q \in Processors : Queued(q)' = Queued(q)
      /\ \A q \in Processors \ {p} : job'[q] = job[q] /\ pc'[q] = pc[q]
      /\ \/ job'[p] = None /\ pc'[p] = "select"
         \/ job'[p] = job[p] /\ pc'[p] = pc[p]
  BY <1>1 DEF Queued, EndJob, TypeOK
<1>3. /\ \A s \in Schedules \ {job[p]} : status'[s] = status[s] /\ due'[s] = due[s]
      /\ UNCHANGED <<status, due>> \/ ~due'[job[p]]
  BY <1>1 DEF DriveAnswered, DriveUnanswered, DriveFails, ApplyDrive, TypeOK
<1>4. /\ \A q \in Processors : job[p] \notin Queued(q)
      /\ \A q \in Processors \ {p} : job[q] # job[p]
      /\ rcv = "notify" => cur # job[p]
      /\ \A s \in Schedules : Pending(s) => s # job[p]
  BY <1>1, OneJobAmongAll, ConstantsAssumption
     DEF AtMostOneJob, ListingStaysTrue, InCustody
<1>5. NoSecondJob' /\ CurLeftBatch'
  <2>1. \A q \in Processors : None \notin Queued(q)
    <3> SUFFICES ASSUME NEW q \in Processors PROVE None \notin Range(buf[q])
      BY DEF Queued
    <3>1. buf[q] \in Seq(Schedules)
      BY DEF TypeOK
    <3> QED BY <3>1, ConstantsAssumption DEF Range
  <2>2. rcv = "notify" => cur # None
    BY DEF Occupied
  <2> QED BY <1>1, <1>2, <2>1, <2>2 DEF NoSecondJob, CurLeftBatch
<1>6. \A s \in Schedules : InCustody(s)' => InCustody(s)
  BY <1>1, <1>2, ConstantsAssumption DEF InCustody, InHand
<1>7. ListingStaysTrue'
  BY <1>1, <1>3, <1>4, <1>6 DEF ListingStaysTrue, Pending
<1>8. WaitingIsMarked'
  <2> SUFFICES ASSUME NEW s \in Schedules,
                      \/ InHand(s)'
                      \/ \E q \in Processors : s \in Queued(q)' \/ (job'[q] = s /\ pc'[q] = "working")
               PROVE  status'[s] = "PROCESSING"
    BY DEF WaitingIsMarked
  <2>1. \/ InHand(s)
        \/ \E q \in Processors : s \in Queued(q) \/ (job[q] = s /\ pc[q] = "working")
    BY <1>1, <1>2, ConstantsAssumption DEF InHand
  <2>2. s # job[p]
    BY <1>1, <1>4, <2>1 DEF InHand
  <2> QED BY <1>3, <2>1, <2>2 DEF WaitingIsMarked
<1>9. DrivenIsDone'
  <2> SUFFICES ASSUME NEW q \in Processors, pc'[q] = "driving"
               PROVE  status'[job'[q]] = "PROCESSING" \/ ~due'[job'[q]]
    BY DEF DrivenIsDone
  <2>1. job'[q] = job[q] /\ pc[q] = "driving" /\ job[q] \in Schedules
    BY <1>2 DEF Occupied, TypeOK
  <2> QED BY <1>3, <1>4, <2>1 DEF DrivenIsDone
<1> QED BY <1>5, <1>7, <1>8, <1>9

\* A schedule comes due only when no job is driving it.
LEMMA DueStep ==
    ASSUME OneRunAtATime, IInv, NEW s \in Schedules, BecomeDue(s)
    PROVE  Claims'
<1> USE DEF IInv, Claims
<1>1. /\ UNCHANGED <<status, rcv, batch, cur, buf, pc, job>>
      /\ due' = [due EXCEPT ![s] = TRUE]
      /\ \A p \in Processors : pc[p] = "driving" => job[p] # s
  BY DEF BecomeDue, receiver, processors, Driving, OneRunAtATime
<1>2. \A q \in Processors : Queued(q)' = Queued(q)
  BY <1>1 DEF Queued
<1>3. NoSecondJob' /\ CurLeftBatch' /\ WaitingIsMarked'
  BY <1>1, <1>2 DEF NoSecondJob, CurLeftBatch, WaitingIsMarked, InHand
<1>4. ListingStaysTrue'
  BY <1>1, <1>2 DEF ListingStaysTrue, Pending, InCustody, InHand, TypeOK
<1>5. DrivenIsDone'
  BY <1>1 DEF DrivenIsDone, TypeOK, Occupied
<1> QED BY <1>3, <1>4, <1>5

\* Without jobs and without a listing there are no claims.
LEMMA ForgetStep ==
    ASSUME Forget
    PROVE  Claims'
BY ForgetFacts DEF Claims, NoSecondJob, ListingStaysTrue, Pending, CurLeftBatch,
                   WaitingIsMarked, InHand, DrivenIsDone

\* Every step keeps the claims.
LEMMA NextClaims == OneRunAtATime /\ IInv /\ [Next]_vars => Claims'
<1> SUFFICES ASSUME OneRunAtATime, IInv, [Next]_vars PROVE Claims'
  OBVIOUS
<1> USE DEF IInv
<1>1. CASE Signal \/ UNCHANGED vars
  BY <1>1, QuietStep
     DEF Signal, vars, service, receiver, processors, Claims, CurLeftBatch, Pending
<1>2. CASE MainStep
  <2>1. /\ UNCHANGED <<status, due, buf, job, batch, cur>>
        /\ \/ rcv' = rcv
           \/ rcv' = "select" /\ rcv = "absent"
    BY <1>2 DEF Phases, MainStep, NewProcessor, NewReceiver, StartupFails, StopRunning, ReceiverWaited,
                ProcessorsWaited, service, receiver, processors
  <2>2. \A p \in Processors : /\ pc'[p] = "working" <=> pc[p] = "working"
                              /\ pc'[p] = "driving" <=> pc[p] = "driving"
    BY <1>2 DEF MainStep, NewProcessor, NewReceiver, StartupFails, StopRunning, ReceiverWaited,
                ProcessorsWaited, processors, TypeOK
  <2> QED BY <2>1, <2>2, QuietStep DEF Claims, CurLeftBatch, Pending
<1>3. CASE ReceiverExit \/ BatchDone \/ MarkFails
  BY <1>3, QuietStep DEF ReceiverExit, BatchDone, MarkFails, service, processors,
                         Claims, CurLeftBatch, Pending
<1>4. ASSUME NEW s \in Schedules, LookupSucceeds(s) \/ LookupFails(s) PROVE Claims'
  BY <1>4, QuietStep DEF LookupSucceeds, LookupFails, service, processors,
                         Claims, CurLeftBatch, Pending
<1>5. CASE ReceiverStep
  BY <1>3, <1>4, <1>5, PollStep, MarkStep, SendStep, HandoffStep DEF ReceiverStep
<1>6. ASSUME NEW p \in Processors, ProcessorExit(p) PROVE Claims'
  BY <1>6, QuietStep DEF ProcessorExit, service, receiver, Claims, CurLeftBatch, Pending, TypeOK
<1>7. ASSUME NEW p \in Processors, ProcessorStep(p) PROVE Claims'
  BY <1>6, <1>7, TakeStep, WorkStep, DriveStep DEF ProcessorStep
<1>8. ASSUME NEW s \in Schedules, BecomeDue(s) PROVE Claims'
  BY <1>8, DueStep
<1> QED BY <1>1, <1>2, <1>5, <1>7, <1>8, ForgetStep DEF Next, Crash, Restart

\* There are no claims when the process starts.
LEMMA InitClaims == Init => Claims
<1> SUFFICES ASSUME Init PROVE Claims
  OBVIOUS
<1>1. \A p \in Processors : Queued(p) = {} /\ IsInjective(buf[p])
  BY DEF Init, Queued, Range, IsInjective
<1> QED BY <1>1 DEF Init, Claims, NoSecondJob, ListingStaysTrue, Pending, CurLeftBatch,
                    WaitingIsMarked, InHand, DrivenIsDone

\* The invariant that the next two theorems read off.
LEMMA AlwaysClaims == OneRunAtATime => (Spec => []IInv)
<1> SUFFICES ASSUME OneRunAtATime PROVE Spec => []IInv
  OBVIOUS
<1>1. Init => IInv
  BY InitType, InitPhases, InitRouted, InitClaims DEF IInv
<1>2. IInv /\ [Next]_vars => IInv'
  BY NextType, NextPhases, NextRouted, NextClaims DEF IInv
<1> QED BY <1>1, <1>2, PTL DEF Spec

\* A schedule is never in two places of the pipeline at once.
THEOREM AtMostOneJobHolds == OneRunAtATime => (Spec => []AtMostOneJob)
<1>1. IInv => AtMostOneJob
  BY OneJobAmongAll DEF IInv, Claims
<1> QED BY <1>1, AlwaysClaims, PTL

\* The receiver never acts on a listing that is no longer true.
THEOREM ListingStaysTrueHolds == OneRunAtATime => (Spec => []ListingStaysTrue)
<1>1. IInv => ListingStaysTrue
  BY DEF IInv, Claims
<1> QED BY <1>1, AlwaysClaims, PTL

-----------------------------------------------------------------------------
(* Custody: where in the pipeline a schedule has a job.                    *)

\* Sends, receives and whatever leaves channels, jobs and the receiver's hand
\* alone keep it,
LEMMA CustodyKept ==
    ASSUME TypeOK, Occupied,
           \/ /\ UNCHANGED <<buf, job>>
              /\ rcv = "notify" <=> rcv' = "notify"
              /\ rcv = "notify" => cur' = cur
           \/ Send \/ Handoff
           \/ \E p \in Processors : Take(p)
    PROVE  Held' = Held
<1> SUFFICES ASSUME NEW s \in Schedules PROVE InCustody(s)' <=> InCustody(s)
  BY DEF Held
<1>1. CASE /\ UNCHANGED <<buf, job>>
           /\ rcv = "notify" <=> rcv' = "notify"
           /\ rcv = "notify" => cur' = cur
  BY <1>1 DEF InCustody, InHand, Queued
<1>2. CASE Send
  BY <1>2, SendFacts DEF InCustody, InHand, Send, processors
<1>3. CASE Handoff
  <2>1. rcv = "notify" /\ rcv' = "next"
    BY <1>3 DEF Handoff
  <2> QED BY <1>3, <2>1, HandoffFacts, ConstantsAssumption DEF InCustody, InHand
<1>4. ASSUME NEW p \in Processors, Take(p) PROVE InCustody(s)' <=> InCustody(s)
  <2>1. rcv' = rcv /\ cur' = cur
    BY <1>4 DEF Take, receiver
  <2> QED BY <1>4, <2>1, TakeFacts, ConstantsAssumption DEF InCustody, InHand
<1> QED BY <1>1, <1>2, <1>3, <1>4

\* and a processor that forgets its job lets go of that schedule at most.
LEMMA CustodyEnds ==
    ASSUME TypeOK, Occupied, NEW p \in Processors, EndJob(p), UNCHANGED <<buf, rcv, cur>>
    PROVE  Held' \in {Held, Held \ {job[p]}}
<1>1. \A q \in Processors : Queued(q)' = Queued(q)
  BY DEF Queued
<1>2. job'[p] = None /\ \A q \in Processors \ {p} : job'[q] = job[q]
  BY DEF EndJob, TypeOK
<1>3. \A s \in Schedules : /\ InCustody(s)' => InCustody(s)
                           /\ InCustody(s) /\ s # job[p] => InCustody(s)'
  BY <1>1, <1>2, ConstantsAssumption DEF InCustody, InHand
<1> QED BY <1>3 DEF Held

\* A step as it looks from the ledger: nothing to see,
Unseen == UNCHANGED <<status, due, stranded>> /\ Held' = Held

\* the receiver marks cur, and knows it did or not,
Marks ==
    /\ rcv = "mark" /\ cur \in Schedules
    /\ status' = [status EXCEPT ![cur] = "PROCESSING"] /\ due' = due
    /\ stranded \ {cur} \subseteq stranded'
    /\ \/ Held' = Held \union {cur}
       \/ Held' = Held /\ cur \in stranded'

\* a job of s drives it to st,
Drives(s, st) ==
    /\ s \in Held
    /\ status' = [status EXCEPT ![s] = st] /\ due' = [due EXCEPT ![s] = FALSE]
    /\ stranded \ {s} \subseteq stranded'
    /\ Held' \in {Held, Held \ {s}}

\* or a drive fails, perhaps for the last time.
FailsToDrive(s) ==
    /\ s \in Held
    /\ UNCHANGED <<status, due>>
    /\ stranded \subseteq stranded'
    /\ \/ Held' = Held
       \/ Held' = Held \ {s} /\ (status[s] = "PROCESSING" => s \in stranded')

\* all who held a schedule are gone,
AllGone ==
    /\ UNCHANGED <<status, due>>
    /\ Held' = {} /\ stranded' = {s \in Schedules : status[s] = "PROCESSING"}

Seen ==
    \/ Unseen \/ Marks \/ AllGone
    \/ \E s \in Schedules :
        (\E st \in Results : Drives(s, st)) \/ FailsToDrive(s)
    \/ \E s \in Schedules : BecomeDue(s) /\ Held' = Held /\ stranded' = stranded

\* What each step looks like to the ledger.
LEMMA LedgerView == TypeOK /\ Occupied /\ Phases /\ [Next]_vars => Seen
<1> SUFFICES ASSUME TypeOK, Occupied, Phases, [Next]_vars PROVE Seen
  OBVIOUS
<1>1. CASE Signal \/ UNCHANGED vars
  BY <1>1, CustodyKept DEF Signal, vars, service, receiver, processors, Seen, Unseen
<1>2. CASE MainStep
  <2>1. /\ UNCHANGED <<status, due, stranded, buf, job, cur>>
        /\ \/ rcv' = rcv
           \/ rcv' = "select" /\ rcv = "absent"
    BY <1>2 DEF Phases, MainStep, NewProcessor, NewReceiver, StartupFails, StopRunning,
                ReceiverWaited, ProcessorsWaited, service, receiver, processors
  <2> QED BY <2>1, CustodyKept DEF Seen, Unseen
<1>3. CASE ReceiverStep
  <2>1. CASE Poll \/ ReceiverExit \/ BatchDone \/ MarkFails
    BY <2>1, CustodyKept DEF Poll, ReceiverExit, BatchDone, MarkFails, service, processors,
                             Seen, Unseen
  <2>2. ASSUME NEW s \in Schedules, LookupSucceeds(s) \/ LookupFails(s) PROVE Seen
    BY <2>2, CustodyKept DEF LookupSucceeds, LookupFails, service, processors, Seen, Unseen
  <2>3. CASE Send \/ Handoff
    BY <2>3, CustodyKept DEF Send, Handoff, service, Seen, Unseen
  <2>4. CASE MarkAnswered
    <3>1. rcv = "mark" /\ rcv' = "notify" /\ cur' = cur /\ UNCHANGED <<buf, job>> /\ cur \in Schedules
      BY <2>4 DEF MarkAnswered, processors, Occupied, TypeOK
    <3>2. Held' = Held \union {cur}
      BY <3>1 DEF Held, InCustody, InHand, Queued
    <3> QED BY <2>4, <3>1, <3>2 DEF MarkAnswered, Seen, Marks
  <2>5. CASE MarkUnanswered
    <3>1. rcv = "mark" /\ rcv' = "next" /\ UNCHANGED <<buf, job>> /\ cur \in Schedules
      BY <2>5 DEF MarkUnanswered, processors, Occupied, TypeOK
    <3>2. Held' = Held
      BY <3>1, CustodyKept
    <3> QED BY <2>5, <3>1, <3>2 DEF MarkUnanswered, Seen, Marks
  <2> QED BY <1>3, <2>1, <2>2, <2>3, <2>4, <2>5 DEF ReceiverStep
<1>4. ASSUME NEW p \in Processors, ProcessorStep(p) PROVE Seen
  <2>1. CASE Take(p) \/ ProcessorExit(p) \/ \E st \in Results : Work(p, st)
    <3>1. UNCHANGED <<status, due, stranded, rcv, cur>> /\ (Take(p) \/ UNCHANGED <<buf, job>>)
      BY <2>1 DEF Take, ProcessorExit, Work, service, receiver
    <3> QED BY <3>1, CustodyKept DEF Seen, Unseen
  <2>2. CASE DriveAnswered(p) \/ DriveUnanswered(p)
    <3>1. /\ ApplyDrive(p) /\ UNCHANGED <<rcv, cur, buf>>
          /\ EndJob(p) \/ UNCHANGED job
      BY <2>2 DEF DriveAnswered, DriveUnanswered, NextAttempt, receiver
    <3>2. job[p] \in Schedules /\ job[p] \in Held /\ outcome[p] \in Results
      BY <3>1 DEF ApplyDrive, Occupied, TypeOK, Held, InCustody
    <3>3. Held' \in {Held, Held \ {job[p]}}
      BY <3>1, CustodyEnds, CustodyKept
    <3>4. Drives(job[p], outcome[p])
      BY <3>1, <3>2, <3>3 DEF Drives, ApplyDrive
    <3> QED BY <3>2, <3>4 DEF Seen
  <2>3. CASE DriveFails(p)
    <3>1. /\ pc[p] = "driving" /\ UNCHANGED <<rcv, cur, buf, status, due>>
          /\ stranded \subseteq stranded'
          /\ \/ UNCHANGED job
             \/ EndJob(p) /\ (status[job[p]] = "PROCESSING" => job[p] \in stranded')
      BY <2>3 DEF DriveFails, NextAttempt, receiver
    <3>2. job[p] \in Schedules /\ job[p] \in Held
      BY <3>1 DEF Occupied, TypeOK, Held, InCustody
    <3>3. CASE UNCHANGED job
      <4>1. Held' = Held
        BY <3>1, <3>3, CustodyKept
      <4> QED BY <3>1, <3>2, <4>1 DEF Seen, FailsToDrive
    <3>4. CASE EndJob(p) /\ (status[job[p]] = "PROCESSING" => job[p] \in stranded')
      <4>1. Held' \in {Held, Held \ {job[p]}}
        BY <3>1, <3>4, CustodyEnds
      <4>2. FailsToDrive(job[p])
        BY <3>1, <3>2, <3>4, <4>1 DEF FailsToDrive
      <4> QED BY <3>2, <4>2 DEF Seen
    <3> QED BY <3>1, <3>3, <3>4
  <2> QED BY <1>4, <2>1, <2>2, <2>3 DEF ProcessorStep
<1>5. ASSUME NEW s \in Schedules, BecomeDue(s) PROVE Seen
  BY <1>5, CustodyKept DEF BecomeDue, receiver, processors, Seen
<1>6. CASE Forget
  <2>1. Held' = {}
    BY <1>6, ForgetFacts, ConstantsAssumption DEF Held, InCustody, InHand
  <2> QED BY <1>6, <2>1 DEF Forget, Seen, AllGone
<1> QED BY <1>1, <1>2, <1>3, <1>4, <1>5, <1>6 DEF Next, Crash, Restart

\* Dispatch never drops a job it marked: this holds however often the user
\* service lists a schedule.
THEOREM ProcessingHasOwnerHolds == Spec => []ProcessingHasOwner
<1>1. Init => ProcessingHasOwner
  BY DEF Init, ProcessingHasOwner
<1>2. TypeOK /\ Occupied /\ Phases /\ ProcessingHasOwner /\ [Next]_vars => ProcessingHasOwner'
  <2> SUFFICES ASSUME TypeOK, Occupied, Phases, ProcessingHasOwner, [Next]_vars,
                      NEW s \in Schedules, status'[s] = "PROCESSING"
               PROVE  s \in Held' \/ s \in stranded'
    BY DEF ProcessingHasOwner, Held
  <2>1. status[s] = "PROCESSING" => s \in Held \/ s \in stranded
    BY DEF ProcessingHasOwner, Held
  <2>2. CASE Unseen \/ Marks \/ AllGone
    BY <2>1, <2>2 DEF Unseen, Marks, AllGone, TypeOK
  <2>3. ASSUME NEW r \in Schedules, FailsToDrive(r) PROVE s \in Held' \/ s \in stranded'
    BY <2>1, <2>3 DEF FailsToDrive
  <2>4. ASSUME NEW r \in Schedules, NEW st \in Results, Drives(r, st)
        PROVE  s \in Held' \/ s \in stranded'
    BY <2>1, <2>4, ResultsAssumption DEF Drives, TypeOK
  <2>5. ASSUME NEW r \in Schedules, BecomeDue(r), Held' = Held, stranded' = stranded
        PROVE  s \in Held' \/ s \in stranded'
    BY <2>1, <2>5 DEF BecomeDue
  <2> QED BY <2>2, <2>3, <2>4, <2>5, LedgerView DEF Seen
<1> QED BY <1>1, <1>2, InitType, InitPhases, NextType, NextPhases, PTL DEF Spec

\* Whoever holds a claim is the only one to move its schedule on: Dispatch
\* implements the ledger.
THEOREM ImplementsLedgerHolds == OneRunAtATime => (Spec => ImplementsLedger)
<1> SUFFICES ASSUME OneRunAtATime PROVE Spec => Ledger!Spec
  BY DEF ImplementsLedger
<1>1. Init => Ledger!Init
  <2> SUFFICES ASSUME Init PROVE Ledger!Init
    OBVIOUS
  <2>1. \A p \in Processors : Queued(p) = {} /\ job[p] = None
    BY DEF Init, Queued, Range
  <2>2. Held = {}
    BY <2>1, ConstantsAssumption DEF Init, Held, InCustody, InHand
  <2> QED BY <2>2 DEF Init, Ledger!Init, Status
<1>2. IInv /\ [Next]_vars => [Ledger!Next]_(Ledger!vars)
  <2> SUFFICES ASSUME IInv, [Next]_vars PROVE [Ledger!Next]_(Ledger!vars)
    OBVIOUS
  <2>1. CASE Unseen
    BY <2>1 DEF Unseen, Ledger!vars
  <2>2. CASE Marks
    <3>1. cur \in Schedules /\ due[cur] /\ status[cur] # "PROCESSING" /\ cur \notin Held
      BY <2>2 DEF Marks, IInv, Claims, ListingStaysTrue, Pending, Held
    <3>2. Ledger!Claim(cur)
      BY <2>2, <3>1 DEF Marks, Ledger!Claim
    <3> QED BY <3>1, <3>2 DEF Ledger!Next
  <2>3. ASSUME NEW s \in Schedules, NEW st \in Results, Drives(s, st)
        PROVE  Ledger!Next
    BY <2>3 DEF Drives, Ledger!Report, Ledger!Next
  <2>4. ASSUME NEW s \in Schedules, FailsToDrive(s) PROVE [Ledger!Next]_(Ledger!vars)
    <3>1. CASE Held' = Held
      BY <2>4, <3>1 DEF FailsToDrive, Ledger!vars
    <3>2. CASE Held' = Held \ {s}
      <4>1. {s} \in SUBSET Held /\ Ledger!Abandon({s})
        BY <2>4, <3>2 DEF FailsToDrive, Ledger!Abandon
      <4> QED BY <4>1 DEF Ledger!Next
    <3> QED BY <2>4, <3>1, <3>2 DEF FailsToDrive
  <2>5. ASSUME NEW s \in Schedules, BecomeDue(s), Held' = Held PROVE Ledger!Next
    BY <2>5 DEF BecomeDue, Ledger!BecomeDue, Ledger!Next
  <2>6. CASE AllGone
    <3>1. Ledger!Abandon(Held)
      BY <2>6 DEF AllGone, Ledger!Abandon
    <3> QED BY <3>1 DEF Ledger!Next
  <2> QED BY <2>1, <2>2, <2>3, <2>4, <2>5, <2>6, LedgerView DEF IInv, Seen
<1> QED BY <1>1, <1>2, AlwaysClaims, PTL DEF Spec, Ledger!Spec

-----------------------------------------------------------------------------
(* How much room the channels need.                                        *)

\* A sequence without repetitions is not longer than its set is large.
LEMMA InjectiveIsShort ==
    ASSUME NEW S, IsFiniteSet(S), NEW q, q \in Seq(S), IsInjective(q)
    PROVE  Len(q) <= Cardinality(S)
<1>1. Len(q) \in Nat /\ q \in [1 .. Len(q) -> S]
  OBVIOUS
<1>2. q \in Injection(1 .. Len(q), S)
  BY <1>1 DEF Injection
<1>3. Cardinality(1 .. Len(q)) <= Cardinality(S)
  BY <1>2, FS_Injection
<1>4. Cardinality(1 .. Len(q)) = Len(q)
  BY <1>1, FS_Interval
<1> QED BY <1>3, <1>4

\* The jobs ahead of a processor, put in one sequence, are different
\* schedules routed to it.
LEMMA DifferentAhead ==
    ASSUME TypeOK, Occupied, Routed, NoSecondJob, NEW p \in Processors
    PROVE  Ahead(p) <= Cardinality(RoutedTo(p))
<1> DEFINE S == RoutedTo(p)
           q0 == buf[p]
           q1 == IF job[p] # None THEN Append(q0, job[p]) ELSE q0
           q2 == IF rcv = "notify" /\ Route(cur) = p THEN Append(q1, cur) ELSE q1
<1>1. IsFiniteSet(S)
  BY FiniteAssumption, FS_Subset DEF RoutedTo
<1>2. q0 \in Seq(S) /\ IsInjective(q0) /\ Len(q0) \in Nat /\ Range(q0) = Queued(p)
  <2>1. q0 \in Seq(Schedules)
    BY DEF TypeOK
  <2>2. \A i \in 1 .. Len(q0) : q0[i] \in Schedules /\ q0[i] \in Queued(p)
    BY <2>1 DEF Queued, Range
  <2>3. \A i \in 1 .. Len(q0) : q0[i] \in S
    BY <2>2 DEF Routed, RoutedTo
  <2> QED BY <2>1, <2>3 DEF NoSecondJob, Queued
<1>3. job[p] # None => job[p] \in S /\ job[p] \notin Queued(p)
  BY DEF TypeOK, Routed, RoutedTo, NoSecondJob
<1>4. rcv = "notify" /\ Route(cur) = p => cur \in S /\ cur \notin Queued(p) /\ cur # job[p]
  BY DEF TypeOK, Occupied, RoutedTo, NoSecondJob
<1> HIDE DEF S, q0
<1>5. /\ q1 \in Seq(S) /\ IsInjective(q1)
      /\ Len(q1) = Len(q0) + (IF job[p] # None THEN 1 ELSE 0)
      /\ Range(q1) \subseteq Queued(p) \union {job[p]}
  BY <1>2, <1>3, AppendFacts
<1> HIDE DEF q1
<1>6. /\ q2 \in Seq(S) /\ IsInjective(q2)
      /\ Len(q2) = Len(q1) + (IF rcv = "notify" /\ Route(cur) = p THEN 1 ELSE 0)
  <2>1. CASE rcv = "notify" /\ Route(cur) = p
    <3>1. cur \in S /\ cur \notin Range(q1)
      BY <1>4, <1>5, <2>1
    <3>2. Append(q1, cur) \in Seq(S) /\ Len(Append(q1, cur)) = Len(q1) + 1
          /\ IsInjective(Append(q1, cur))
      BY <1>5, <3>1, AppendFacts
    <3> QED BY <2>1, <3>2
  <2>2. CASE ~(rcv = "notify" /\ Route(cur) = p)
    <3>1. Len(q1) = Len(q1) + 0
      BY <1>5
    <3> QED BY <1>5, <2>2, <3>1
  <2> QED BY <2>1, <2>2
<1> HIDE DEF q2
<1>7. Len(q2) <= Cardinality(S)
  BY <1>1, <1>6, InjectiveIsShort
<1>8. Len(q2) = Ahead(p)
  BY <1>2, <1>5, <1>6 DEF Ahead, q0
<1> QED BY <1>7, <1>8 DEF S

\* No processor ever has more jobs ahead of it than schedules are routed to
\* it: queued messages pile up no further, however slow the jobs are.
THEOREM QueueBoundedHolds == OneRunAtATime => (Spec => []QueueBounded)
<1>1. IInv => QueueBounded
  BY DifferentAhead DEF IInv, Claims, QueueBounded
<1> QED BY <1>1, AlwaysClaims, PTL

\* While the receiver has a message for a processor whose channel is full, there
\* are more schedules routed to this processor than its channel has slots.
LEMMA FullChannelIsSmall ==
    ASSUME IInv, rcv = "notify", Len(buf[Route(cur)]) = BufferSize
    PROVE  BufferSize < Cardinality(RoutedTo(Route(cur)))
<1> DEFINE p == Route(cur)
<1>1. p \in Processors
  BY RouteType DEF IInv, Occupied, TypeOK
<1>2. Ahead(p) <= Cardinality(RoutedTo(p))
  BY <1>1, DifferentAhead DEF IInv, Claims
<1>3. IsFiniteSet(RoutedTo(p))
  BY FiniteAssumption, FS_Subset DEF RoutedTo
<1>4. Cardinality(RoutedTo(p)) \in Nat
  BY <1>3, FS_CardinalityType
<1>5. BufferSize + 1 <= Ahead(p) /\ Ahead(p) \in Nat
  BY ConstantsAssumption DEF Ahead
<1> QED BY <1>2, <1>4, <1>5, ConstantsAssumption

\* Shutdown hangs only where a channel is smaller than the set of schedules
\* routed to its processor.
THEOREM StuckNeedsSmallChannelHolds == OneRunAtATime => (Spec => []StuckNeedsSmallChannel)
<1>1. IInv => StuckNeedsSmallChannel
  BY FullChannelIsSmall DEF StuckNeedsSmallChannel, Stuck
<1> QED BY <1>1, AlwaysClaims, PTL

\* With one slot for each schedule that is routed to a processor the receiver
\* never waits for room, and so never is stuck: a WORKER_BUFSIZE of the number
\* of schedules rules out the hanging shutdown.
THEOREM RoomyNeverStuck ==
    ASSUME OneRunAtATime,
           \A p \in Processors : Cardinality(RoutedTo(p)) <= BufferSize
    PROVE  Spec => [](~Stuck /\ (rcv = "notify" => Len(buf[Route(cur)]) < BufferSize))
<1>1. IInv => ~Stuck /\ (rcv = "notify" => Len(buf[Route(cur)]) < BufferSize)
  <2> SUFFICES ASSUME IInv, rcv = "notify" PROVE Len(buf[Route(cur)]) < BufferSize
    BY ConstantsAssumption DEF Stuck
  <2>1. Route(cur) \in Processors
    BY RouteType DEF IInv, Occupied, TypeOK
  <2>2. IsFiniteSet(RoutedTo(Route(cur)))
    BY FiniteAssumption, FS_Subset DEF RoutedTo
  <2>3. Cardinality(RoutedTo(Route(cur))) \in Nat
    BY <2>2, FS_CardinalityType
  <2>4. Len(buf[Route(cur)]) # BufferSize
    BY <2>1, <2>3, FullChannelIsSmall, ConstantsAssumption
  <2>5. Len(buf[Route(cur)]) \in Nat /\ Len(buf[Route(cur)]) <= BufferSize
    BY <2>1 DEF IInv, TypeOK
  <2> QED BY <2>4, <2>5, ConstantsAssumption
<1> QED BY <1>1, AlwaysClaims, PTL

-----------------------------------------------------------------------------
(* The shutdown winds down, and is blocked in one way only.                *)

\* Who has been made when: the receiver after all processors, and nobody is
\* waited for unless the context is cancelled.
Made ==
    /\ main \in {"waitReceiver", "waitProcessors"} => cancelled
    /\ main = "down" => ~cancelled /\ rcv = "absent"
    /\ rcv # "absent" => \A p \in Processors : pc[p] # "absent"

\* Nothing is made when the process starts,
LEMMA InitMade == Init => Made
BY DEF Init, Made

\* and a goroutine that was made stays so until the process ends.
LEMMA NextMade == TypeOK /\ Made /\ [Next]_vars => Made'
<1> SUFFICES ASSUME TypeOK, Made, [Next]_vars PROVE Made'
  OBVIOUS
<1> USE DEF Made, receiver, processors
<1>1. CASE Signal \/ UNCHANGED vars
  BY <1>1 DEF Signal, vars
<1>2. ASSUME NEW p \in Processors, NewProcessor(p) PROVE Made'
  BY <1>2 DEF NewProcessor, TypeOK
<1>3. CASE NewReceiver \/ StartupFails \/ StopRunning \/ ReceiverWaited \/ ProcessorsWaited
  BY <1>3 DEF NewReceiver, StartupFails, StopRunning, ReceiverWaited, ProcessorsWaited
<1>4. CASE Poll \/ ReceiverExit \/ BatchDone \/ MarkAnswered \/ MarkUnanswered \/ MarkFails \/ Send
  BY <1>4 DEF Poll, ReceiverExit, BatchDone, MarkAnswered, MarkUnanswered, MarkFails, Send
<1>5. ASSUME NEW s \in Schedules, LookupSucceeds(s) \/ LookupFails(s) PROVE Made'
  BY <1>5 DEF LookupSucceeds, LookupFails
<1>6. CASE Handoff
  BY <1>6 DEF Handoff, TypeOK
<1>7. ASSUME NEW p \in Processors, ProcessorStep(p) PROVE Made'
  <2>1. UNCHANGED <<main, cancelled, rcv>>
    BY <1>7 DEF ProcessorStep, Take, ProcessorExit, Work, DriveAnswered, DriveUnanswered,
                DriveFails
  <2>2. \A q \in Processors : pc[q] # "absent" => pc'[q] # "absent"
    BY <1>7 DEF ProcessorStep, Take, ProcessorExit, Work, DriveAnswered, DriveUnanswered,
                DriveFails, EndJob, NextAttempt, TypeOK
  <2> QED BY <2>1, <2>2
<1>8. ASSUME NEW s \in Schedules, BecomeDue(s) PROVE Made'
  BY <1>8 DEF BecomeDue
<1>9. CASE Crash \/ Restart
  BY <1>9 DEF Crash, Restart, Forget
<1> QED BY <1>1, <1>2, <1>3, <1>4, <1>5, <1>6, <1>7, <1>8, <1>9
        DEF Next, MainStep, ReceiverStep

\* Whatever the moment of the signal, and however far start-up came, somebody
\* can go on, until the process has ended or the receiver waits for room in the
\* channel of a processor that has exited.
THEOREM ShutdownIsNotBlockedHolds == Spec => []ShutdownIsNotBlocked
<1>1. TypeOK /\ Occupied /\ Made => ShutdownIsNotBlocked
  <2> SUFFICES ASSUME TypeOK, Occupied, Made, cancelled, main # "closed",
                      ~MainCanMove, ~ReceiverCanMove,
                      \A p \in Processors : pc[p] \notin {"select", "working", "driving"}
               PROVE  Stuck
    BY DEF ShutdownIsNotBlocked, Made
  <2>1. \A p \in Processors : pc[p] \in {"absent", "exited"}
    BY DEF TypeOK
  <2>2. main = "waitReceiver" /\ rcv = "notify"
    BY <2>1 DEF TypeOK, Made, MainCanMove, ReceiverCanMove
  <2>3. Route(cur) \in Processors
    BY <2>2, RouteType DEF TypeOK, Occupied
  <2>4. pc[Route(cur)] = "exited"
    BY <2>1, <2>2, <2>3 DEF Made
  <2>5. Len(buf[Route(cur)]) = BufferSize
    <3>1. Len(buf[Route(cur)]) \in Nat /\ Len(buf[Route(cur)]) <= BufferSize
      BY <2>3 DEF TypeOK
    <3>2. ~(Len(buf[Route(cur)]) < BufferSize)
      BY <2>2 DEF ReceiverCanMove
    <3> QED BY <3>1, <3>2, ConstantsAssumption
  <2> QED BY <2>2, <2>4, <2>5 DEF Stuck
<1> QED BY <1>1, InitType, NextType, InitMade, NextMade, PTL DEF Spec

\* The ranks are natural numbers, so nothing goes down for ever.
LEMMA RankTypes ==
    ASSUME TypeOK
    PROVE  /\ Cardinality(batch) \in Nat /\ IsFiniteSet(batch)
           /\ IsFiniteSet({p \in Processors : pc[p] = "absent"})
           /\ Cardinality({p \in Processors : pc[p] = "absent"}) \in Nat
           /\ MainRank \in Nat /\ ReceiverRank \in Nat
           /\ \A p \in Processors : JobRank(p) \in Nat
<1>1. IsFiniteSet(batch)
  BY FiniteAssumption, FS_Subset DEF TypeOK
<1>2. IsFiniteSet({p \in Processors : pc[p] = "absent"})
  <2>1. IsFiniteSet(Processors)
    BY ConstantsAssumption, FS_Interval DEF Processors
  <2>2. {p \in Processors : pc[p] = "absent"} \in SUBSET Processors
    OBVIOUS
  <2> QED BY <2>1, <2>2, FS_Subset
<1>3. Cardinality(batch) \in Nat /\ Cardinality({p \in Processors : pc[p] = "absent"}) \in Nat
  BY <1>1, <1>2, FS_CardinalityType
<1>4. MainRank \in Nat /\ ReceiverRank \in Nat
  BY <1>3 DEF MainRank, ReceiverRank
<1>5. \A p \in Processors : JobRank(p) \in Nat
  BY ConstantsAssumption DEF JobRank, TypeOK
<1> QED BY <1>1, <1>2, <1>3, <1>4, <1>5

\* A processor's step that is not a new job from the receiver takes a message
\* out of its channel, or brings it nearer to the end of the one it has.
LEMMA ProcessorWindsDown ==
    ASSUME TypeOK, Occupied, NEW p \in Processors, ProcessorStep(p)
    PROVE  /\ UNCHANGED <<main, receiver>>
           /\ CloserToExit(p)
           /\ \A q \in Processors \ {p} :
                UNCHANGED <<pc[q], buf[q], job[q], outcome[q], tries[q]>>
<1>1. CASE Take(p)
  <2>1. buf[p] \in Seq(Schedules) /\ buf[p] # <<>> /\ buf'[p] = Tail(buf[p])
    BY <1>1 DEF Take, TypeOK
  <2>2. Len(buf'[p]) < Len(buf[p])
    BY <2>1, TailFacts
  <2> QED BY <1>1, <2>2 DEF Take, CloserToExit, receiver, TypeOK
<1>2. CASE ProcessorExit(p)
  <2>1. pc[p] = "select" /\ pc'[p] = "exited" /\ buf' = buf
    BY <1>2 DEF ProcessorExit, TypeOK
  <2>2. JobRank(p) = 1 /\ JobRank(p)' = 0
    BY <2>1 DEF JobRank
  <2> QED BY <1>2, <2>1, <2>2 DEF ProcessorExit, CloserToExit, TypeOK
<1>3. ASSUME NEW st \in Results, Work(p, st) PROVE CloserToExit(p)
  <2>1. /\ pc[p] = "working" /\ pc'[p] = "driving" /\ tries'[p] = MaxAttempts /\ buf' = buf
    BY <1>3 DEF Work, Attempts, TypeOK
  <2>2. JobRank(p) = MaxAttempts + 3 /\ JobRank(p)' = MaxAttempts + 2
    BY <2>1 DEF JobRank
  <2> QED BY <2>1, <2>2, ConstantsAssumption DEF CloserToExit
<1>4. CASE DriveAnswered(p) \/ DriveUnanswered(p) \/ DriveFails(p)
  <2>1. /\ pc[p] = "driving" /\ UNCHANGED <<main, receiver, buf>>
        /\ tries[p] \in Nat
        /\ \/ EndJob(p)
           \/ tries' = [tries EXCEPT ![p] = @ - 1] /\ UNCHANGED <<pc, job, outcome>>
    BY <1>4 DEF DriveAnswered, DriveUnanswered, DriveFails, ApplyDrive, NextAttempt, TypeOK
  <2>2. JobRank(p) = tries[p] + 2
    BY <2>1 DEF JobRank
  <2>3. CASE EndJob(p)
    <3>1. pc'[p] = "select" /\ JobRank(p)' = 1
      BY <2>3 DEF EndJob, JobRank, TypeOK
    <3> QED BY <2>1, <2>2, <2>3, <3>1 DEF CloserToExit, EndJob, TypeOK
  <2>4. CASE tries' = [tries EXCEPT ![p] = @ - 1] /\ UNCHANGED <<pc, job, outcome>>
    <3>1. JobRank(p)' = tries[p] + 1
      BY <2>1, <2>4 DEF JobRank, TypeOK
    <3> QED BY <2>1, <2>2, <2>4, <3>1 DEF CloserToExit, TypeOK
  <2> QED BY <2>1, <2>3, <2>4
<1> QED BY <1>1, <1>2, <1>3, <1>4 DEF ProcessorStep, ProcessorExit, Work, TypeOK

\* After the signal a receiver's step leaves fewer schedules of its batch, or
\* goes on towards its exit.
LEMMA ReceiverWindsDown ==
    ASSUME TypeOK, Phases, cancelled, ReceiverStep
    PROVE  MainRank' = MainRank /\ ReceiverRank' < ReceiverRank
<1>1. Cardinality(batch) \in Nat /\ IsFiniteSet(batch)
  BY RankTypes
<1>2. MainRank' = MainRank
  <2>1. main' = main /\ main # "starting"
    BY DEF ReceiverStep, Poll, ReceiverExit, BatchDone, LookupSucceeds, LookupFails, MarkAnswered,
           MarkUnanswered, MarkFails, Send, Handoff, Phases
  <2> QED BY <2>1 DEF MainRank
<1>3. CASE ReceiverExit
  BY <1>2, <1>3 DEF ReceiverExit, ReceiverRank
<1>4. CASE BatchDone
  BY <1>1, <1>2, <1>4 DEF BatchDone, ReceiverRank
<1>5. ASSUME NEW s \in Schedules, LookupFails(s) PROVE ReceiverRank' < ReceiverRank
  <2>1. s \in batch /\ batch' = batch \ {s} /\ rcv = "next" /\ rcv' = "next"
    BY <1>5 DEF LookupFails
  <2>2. Cardinality(batch') = Cardinality(batch) - 1
    BY <1>1, <2>1, FS_RemoveElement
  <2> QED BY <1>1, <2>1, <2>2 DEF ReceiverRank
<1>6. CASE MarkFails \/ Send \/ Handoff
  <2>1. rcv \in {"mark", "notify"} /\ rcv' = "next" /\ batch' = batch
    BY <1>6 DEF MarkFails, Send, Handoff
  <2>2. ReceiverRank = 3 + Cardinality(batch) /\ ReceiverRank' = 2 + Cardinality(batch)
    BY <2>1 DEF ReceiverRank
  <2> QED BY <1>1, <1>2, <2>2
<1>7. ~Poll /\ ~MarkAnswered /\ ~MarkUnanswered /\ \A s \in Schedules : ~LookupSucceeds(s)
  BY DEF Poll, MarkAnswered, MarkUnanswered, LookupSucceeds
<1> QED BY <1>2, <1>3, <1>4, <1>5, <1>6, <1>7 DEF ReceiverStep

\* A step of main makes one more processor, or enters the next phase.
LEMMA MainWindsDown ==
    ASSUME TypeOK, TypeOK', MainStep
    PROVE  MainRank' < MainRank
<1> DEFINE A == {p \in Processors : pc[p] = "absent"}
<1>1. Cardinality(A) \in Nat /\ IsFiniteSet(A)
  BY RankTypes
<1>2. ASSUME NEW p \in Processors, NewProcessor(p) PROVE MainRank' < MainRank
  <2>1. p \in A /\ A' = A \ {p} /\ main = "starting" /\ main' = "starting"
    BY <1>2 DEF NewProcessor, TypeOK
  <2>2. Cardinality(A') = Cardinality(A) - 1
    BY <1>1, <2>1, FS_RemoveElement
  <2>3. MainRank = 4 + Cardinality(A) /\ MainRank' = 4 + Cardinality(A')
    BY <2>1 DEF MainRank
  <2> QED BY <1>1, <2>2, <2>3
<1>3. CASE NewReceiver \/ StartupFails
  <2>1. main = "starting" /\ MainRank = 4 + Cardinality(A)
    BY <1>3 DEF NewReceiver, StartupFails, MainRank
  <2>2. MainRank' \in {2, 3}
    BY <1>3 DEF NewReceiver, StartupFails, MainRank
  <2> QED BY <1>1, <2>1, <2>2
<1>4. CASE StopRunning \/ ReceiverWaited \/ ProcessorsWaited
  BY <1>4 DEF StopRunning, ReceiverWaited, ProcessorsWaited, MainRank
<1> QED BY <1>2, <1>3, <1>4 DEF MainStep

\* After the signal every step of the process brings its end closer.
THEOREM ShutdownWindsDownHolds == Spec => ShutdownWindsDown
<1> DEFINE Down ==
      \/ MainRank' < MainRank
      \/ MainRank' = MainRank /\ ReceiverRank' < ReceiverRank
      \/ /\ UNCHANGED <<main, receiver>>
         /\ \E p \in Processors :
              /\ CloserToExit(p)
              /\ \A q \in Processors \ {p} :
                   UNCHANGED <<pc[q], buf[q], job[q], outcome[q], tries[q]>>
      \/ UNCHANGED <<main, receiver, buf, processors>>
<1>1. TypeOK /\ TypeOK' /\ Occupied /\ Phases /\ [Next]_vars => (cancelled /\ cancelled' => Down)
  <2> SUFFICES ASSUME TypeOK, TypeOK', Occupied, Phases, Next, cancelled, cancelled' PROVE Down
    BY DEF vars
  <2>1. CASE Signal \/ Crash \/ Restart
    BY <2>1 DEF Signal, Crash, Restart, Forget
  <2>2. CASE MainStep
    BY <2>2, MainWindsDown
  <2>3. CASE ReceiverStep
    BY <2>3, ReceiverWindsDown
  <2>4. ASSUME NEW p \in Processors, ProcessorStep(p) PROVE Down
    BY <2>4, ProcessorWindsDown
  <2>5. ASSUME NEW s \in Schedules, BecomeDue(s) PROVE Down
    BY <2>5 DEF BecomeDue
  <2> QED BY <2>1, <2>2, <2>3, <2>4, <2>5 DEF Next
<1> QED BY <1>1, InitType, NextType, InitPhases, NextPhases, PTL DEF Spec, ShutdownWindsDown

\* A stuck shutdown does not come loose: nobody receives from the channel any
\* more, so only the death of the process ends the wait of the receiver.
THEOREM StuckIsForEver == Spec => [][Stuck => Stuck' \/ main' = "down"]_vars
<1>1. TypeOK /\ Occupied /\ Phases /\ Made /\ [Next]_vars => (Stuck => Stuck' \/ main' = "down")
  <2> SUFFICES ASSUME TypeOK, Occupied, Phases, Made, [Next]_vars, Stuck, main' # "down" PROVE Stuck'
    OBVIOUS
  <2> DEFINE r == Route(cur)
  <2>1. /\ rcv = "notify" /\ r \in Processors
        /\ Len(buf[r]) = BufferSize /\ pc[r] = "exited"
    BY RouteType DEF Stuck, TypeOK, Occupied
  <2>2. ASSUME UNCHANGED <<rcv, cur, buf>>, pc'[r] = pc[r] PROVE Stuck'
    BY <2>1, <2>2 DEF Stuck, Route
  <2>3. CASE Signal \/ UNCHANGED vars
    BY <2>2, <2>3 DEF Signal, vars, receiver, processors
  <2>4. CASE MainStep
    <3>1. main # "starting"
      BY <2>1 DEF Phases
    <3>2. StopRunning \/ ReceiverWaited \/ ProcessorsWaited
      BY <2>4, <3>1 DEF MainStep, NewProcessor, NewReceiver, StartupFails
    <3>3. UNCHANGED <<rcv, cur, buf, pc>>
      BY <3>2 DEF StopRunning, ReceiverWaited, ProcessorsWaited, receiver, processors
    <3> QED BY <2>2, <3>3
  <2>5. ~ReceiverStep
    BY <2>1, ConstantsAssumption
       DEF ReceiverStep, Poll, ReceiverExit, BatchDone, LookupSucceeds, LookupFails,
           MarkAnswered, MarkUnanswered, MarkFails, Send, Handoff
  <2>6. ASSUME NEW p \in Processors, ProcessorStep(p) PROVE Stuck'
    <3>1. pc[p] # "exited"
      BY <2>6 DEF ProcessorStep, Take, ProcessorExit, Work, DriveAnswered, DriveUnanswered,
                  DriveFails, ApplyDrive
    <3>2. p # r /\ UNCHANGED <<rcv, cur>> /\ pc'[r] = pc[r] /\ buf'[r] = buf[r]
      BY <2>1, <2>6, <3>1, ProcessorWindsDown DEF receiver
    <3> QED BY <2>1, <3>2 DEF Stuck, Route
  <2>7. ASSUME NEW s \in Schedules, BecomeDue(s) PROVE Stuck'
    BY <2>2, <2>7 DEF BecomeDue, receiver, processors
  <2>8. ~Restart
    BY <2>1 DEF Restart, Phases, NoUseAfterClose, Made
  <2> QED BY <2>3, <2>4, <2>5, <2>6, <2>7, <2>8 DEF Next, Crash
<1> QED BY <1>1, InitType, NextType, InitPhases, NextPhases, InitMade, NextMade, PTL DEF Spec
=============================================================================
