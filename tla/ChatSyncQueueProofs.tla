------------------------ MODULE ChatSyncQueueProofs ------------------------
(***************************************************************************)
(* Proofs about the queue, for any event threads, workers, jobs and stops. *)
(***************************************************************************)
EXTENDS ChatSyncQueue, SequenceTheorems, TLAPS

(* TypeOK is inductive. *)
LEMMA TypeInvariance == TypeOK /\ [Next]_vars => TypeOK'
<1> SUFFICES ASSUME TypeOK, [Next]_vars PROVE TypeOK'
  OBVIOUS
<1> USE QueueAssumption DEF Jobs
<1>1. \A pc \in {"unborn", "waiting", "dead"} : InPc(pc) \in WorkerStates
  BY DEF InPc, WorkerStates
<1>2. \A j \in Jobs : [pc |-> "busy", job |-> j] \in WorkerStates
  BY DEF WorkerStates
<1>3. ASSUME NEW e \in Events, Submit(e) PROVE TypeOK'
  <2>1. worker' \in [Workers -> WorkerStates] /\ thread' \in Workers \cup {NoWorker}
    BY <1>1, <1>3 DEF Submit, Start, TypeOK
  <2>2. jobs' \in 1..MaxJobs /\ event' \in [Events -> Jobs \cup {0}]
    BY <1>3 DEF Submit, TypeOK
  <2> QED
    BY <1>3, <2>1, <2>2 DEF Submit, TypeOK
<1>4. ASSUME NEW e \in Events, Put(e) PROVE TypeOK'
  <2>1. event[e] \in Jobs
    BY <1>4 DEF Put, TypeOK
  <2> QED
    BY <1>4, <2>1 DEF Put, TypeOK
<1>5. CASE TakeThread
  BY <1>5 DEF TakeThread, TypeOK
<1>6. CASE PutSentinel
  BY <1>6 DEF PutSentinel, TypeOK
<1>7. CASE JoinReturns
  BY <1>7 DEF JoinReturns, TypeOK
<1>8. ASSUME NEW w \in Workers, Get(w) PROVE TypeOK'
  <2>1. Head(queue) \in Jobs \cup {Stop} /\ Tail(queue) \in Seq(Jobs \cup {Stop})
    BY <1>8, HeadTailProperties DEF Get, TypeOK
  <2>2. worker' \in [Workers -> WorkerStates]
    BY <1>1, <1>2, <1>8, <2>1 DEF Get, TypeOK
  <2> QED
    BY <1>8, <2>1, <2>2 DEF Get, TypeOK
<1>9. ASSUME NEW w \in Workers, Finish(w) PROVE TypeOK'
  <2>1. worker[w].job \in Jobs
    BY <1>9 DEF Finish, TypeOK, WorkerStates
  <2> QED
    BY <1>1, <1>9, <2>1 DEF Finish, TypeOK
<1>10. CASE AllDone \/ UNCHANGED vars
  BY <1>10 DEF AllDone, vars, TypeOK
<1> QED
  BY <1>3, <1>4, <1>5, <1>6, <1>7, <1>8, <1>9, <1>10 DEF Next

(* The queue starts empty and without a worker. *)
LEMMA TypeInit == Init => TypeOK
<1> SUFFICES ASSUME Init PROVE TypeOK
  OBVIOUS
<1>1. InPc("unborn") \in WorkerStates
  BY DEF InPc, WorkerStates
<1>2. worker \in [Workers -> WorkerStates]
  BY <1>1 DEF Init
<1>3. <<>> \in Seq(Jobs \cup {Stop}) /\ <<>> \in Seq(Jobs)
  BY EmptySeq
<1>4. event \in [Events -> Jobs \cup {0}]
  BY DEF Init
<1>5. jobs \in 0..MaxJobs /\ stops \in 0..MaxStops
  BY QueueAssumption DEF Init
<1>6. stopping \in {"idle", "put", "join"} /\ thread \in Workers \cup {NoWorker} /\ late \in BOOLEAN
  BY DEF Init
<1>7. queue \in Seq(Jobs \cup {Stop}) /\ accepted \in Seq(Jobs) /\ finished \in Seq(Jobs)
  BY <1>3 DEF Init
<1> QED
  BY <1>2, <1>4, <1>5, <1>6, <1>7 DEF TypeOK

(* The variables keep their types; no worker runs the sentinel as a job.   *)
THEOREM TypeCorrectness == Spec => []TypeOK
BY TypeInit, TypeInvariance, PTL DEF Spec

-----------------------------------------------------------------------------
(* Until a stop: the one worker that is alive is the one start knows of.   *)
OneThread ==
  stops = 0 =>
    /\ stopping = "idle"
    /\ queue \in Seq(Jobs)
    /\ \A w \in Workers : IsAlive(w) => thread = w

Busy(w) == worker[w].pc = "busy"

(* Jobs between the finished ones and the queue. *)
InHand == IF \E w \in Workers : Busy(w) THEN 1 ELSE 0

(* Until a stop, what was accepted is what is finished, then what the      *)
(* worker is busy with, then what is queued.                               *)
Accounted ==
  stops = 0 =>
    /\ Len(accepted) = Len(finished) + InHand + Len(queue)
    /\ \A i \in 1..Len(finished) : accepted[i] = finished[i]
    /\ \A w \in Workers : Busy(w) => accepted[Len(finished) + 1] = worker[w].job
    /\ \A i \in 1..Len(queue) : accepted[Len(finished) + InHand + i] = queue[i]

QueueInv == TypeOK /\ OneThread /\ Accounted

(* start never runs a second worker while it knows of a living one. *)
LEMMA OneThreadStep == TypeOK /\ OneThread /\ [Next]_vars => OneThread'
<1> SUFFICES ASSUME TypeOK, OneThread, [Next]_vars, stops' = 0 PROVE OneThread'
  BY DEF OneThread
<1>1. stops = 0 /\ ~TakeThread /\ ~PutSentinel
  <2>1. ~TakeThread
    BY DEF TakeThread, TypeOK
  <2>2. stops = 0
    BY <2>1 DEF Next, vars, Submit, Put, PutSentinel, JoinReturns, Get, Finish, AllDone
  <2> QED
    BY <2>1, <2>2 DEF PutSentinel, OneThread
<1>2. stopping = "idle" /\ queue \in Seq(Jobs) /\ \A w \in Workers : IsAlive(w) => thread = w
  BY <1>1 DEF OneThread
<1>3. ASSUME NEW e \in Events, Submit(e) PROVE OneThread'
  <2>1. CASE Running /\ UNCHANGED <<thread, worker>>
    BY <1>2, <1>3, <2>1 DEF Submit, OneThread, IsAlive
  <2>2. CASE ~Running
    <3>1. PICK w \in Workers : thread' = w /\ worker' = [worker EXCEPT ![w] = InPc("waiting")]
      BY <1>3, <2>2 DEF Submit, Start
    <3>2. \A v \in Workers : ~IsAlive(v)
      BY <1>2, <2>2, QueueAssumption DEF Running
    <3>3. \A v \in Workers : IsAlive(v)' => v = w
      BY <3>1, <3>2 DEF IsAlive, TypeOK
    <3> QED
      BY <1>2, <1>3, <3>1, <3>3 DEF Submit, OneThread
  <2> QED
    BY <1>3, <2>1, <2>2 DEF Submit, Start
<1>4. ASSUME NEW e \in Events, Put(e) PROVE OneThread'
  <2>1. event[e] \in Jobs
    BY <1>4 DEF Put, TypeOK
  <2> QED
    BY <1>2, <1>4, <2>1 DEF Put, OneThread, IsAlive
<1>5. CASE JoinReturns
  BY <1>2, <1>5 DEF JoinReturns, OneThread, IsAlive
<1>6. ASSUME NEW w \in Workers, Get(w) PROVE OneThread'
  <2>1. Tail(queue) \in Seq(Jobs)
    BY <1>2, <1>6, HeadTailProperties DEF Get
  <2>2. \A v \in Workers : IsAlive(v)' => IsAlive(v)
    BY <1>6 DEF Get, IsAlive, TypeOK
  <2> QED
    BY <1>2, <1>6, <2>1, <2>2 DEF Get, OneThread
<1>7. ASSUME NEW w \in Workers, Finish(w) PROVE OneThread'
  <2>1. \A v \in Workers : IsAlive(v)' => IsAlive(v)
    BY <1>7 DEF Finish, IsAlive, TypeOK, InPc
  <2> QED
    BY <1>2, <1>7, <2>1 DEF Finish, OneThread
<1>8. CASE AllDone \/ UNCHANGED vars
  BY <1>2, <1>8 DEF AllDone, vars, OneThread, IsAlive
<1> QED
  BY <1>1, <1>3, <1>4, <1>5, <1>6, <1>7, <1>8 DEF Next

(* The three parts move on by one place, at one end or between them.       *)
LEMMA AccountedStep == QueueInv /\ [Next]_vars => Accounted'
<1> SUFFICES ASSUME QueueInv, [Next]_vars, stops' = 0 PROVE Accounted'
  BY DEF Accounted
<1> DEFINE f == Len(finished)
<1>1. TypeOK /\ OneThread /\ Accounted /\ TypeOK' /\ OneThread'
  BY OneThreadStep, TypeInvariance DEF QueueInv
<1>2. stops = 0 /\ ~TakeThread /\ ~PutSentinel
  <2>1. ~TakeThread
    BY <1>1 DEF TakeThread, TypeOK
  <2>2. stops = 0
    BY <2>1 DEF Next, vars, Submit, Put, PutSentinel, JoinReturns, Get, Finish, AllDone
  <2> QED
    BY <1>1, <2>1, <2>2 DEF PutSentinel, OneThread
<1>3. /\ Len(accepted) = f + InHand + Len(queue)
      /\ \A i \in 1..f : accepted[i] = finished[i]
      /\ \A w \in Workers : Busy(w) => accepted[f + 1] = worker[w].job
      /\ \A i \in 1..Len(queue) : accepted[f + InHand + i] = queue[i]
  BY <1>1, <1>2 DEF Accounted
<1>4. /\ f \in Nat /\ Len(queue) \in Nat /\ InHand \in {0, 1}
      /\ queue \in Seq(Jobs) /\ accepted \in Seq(Jobs) /\ finished \in Seq(Jobs)
      /\ \A w \in Workers : Busy(w) => InHand = 1
      /\ \A v, w \in Workers : IsAlive(v) /\ IsAlive(w) => v = w
  BY <1>1, <1>2 DEF TypeOK, OneThread, InHand
<1>5. ASSUME UNCHANGED <<queue, accepted, finished>>, \A w \in Workers : Busy(w)' <=> Busy(w),
             \A w \in Workers : Busy(w) => worker'[w].job = worker[w].job
      PROVE  Accounted'
  <2>1. InHand' = InHand
    BY <1>5 DEF InHand
  <2> QED
    BY <1>3, <1>5, <2>1 DEF Accounted
<1>6. ASSUME NEW e \in Events, Submit(e) PROVE Accounted'
  <2>1. \A w \in Workers : (Busy(w)' <=> Busy(w)) /\ (Busy(w) => worker'[w].job = worker[w].job)
    <3>1. CASE UNCHANGED worker
      BY <3>1 DEF Busy
    <3>2. ASSUME NEW v \in Workers, worker[v].pc = "unborn", worker' = [worker EXCEPT ![v] = InPc("waiting")]
          PROVE  \A w \in Workers : (Busy(w)' <=> Busy(w)) /\ (Busy(w) => worker'[w].job = worker[w].job)
      BY <1>1, <3>2 DEF Busy, InPc, TypeOK
    <3> QED
      BY <1>6, <3>1, <3>2 DEF Submit, Start
  <2> QED
    BY <1>5, <1>6, <2>1 DEF Submit
<1>7. ASSUME NEW e \in Events, Put(e) PROVE Accounted'
  <2>1. event[e] \in Jobs
    BY <1>1, <1>7 DEF Put, TypeOK
  <2>2. InHand' = InHand /\ UNCHANGED <<worker, finished>>
    BY <1>7 DEF Put, InHand, Busy
  <2>3. /\ Len(accepted') = Len(accepted) + 1 /\ Len(queue') = Len(queue) + 1
        /\ \A i \in 1..Len(accepted) : accepted'[i] = accepted[i]
        /\ \A i \in 1..Len(queue) : queue'[i] = queue[i]
        /\ accepted'[Len(accepted) + 1] = event[e] /\ queue'[Len(queue) + 1] = event[e]
    BY <1>4, <1>7, <2>1 DEF Put
  <2> HIDE DEF f
  <2>4. Len(accepted') = f + InHand + Len(queue') /\ \A i \in 1..f : accepted'[i] = finished[i]
    <3>1. Len(accepted') = f + InHand + Len(queue')
      BY <1>3, <1>4, <2>3
    <3>2. \A i \in 1..f : i \in 1..Len(accepted)
      BY <1>3, <1>4
    <3>3. \A i \in 1..f : accepted'[i] = finished[i]
      BY <1>3, <2>3, <3>2
    <3> QED
      BY <3>1, <3>3
  <2>5. \A w \in Workers : Busy(w) => accepted'[f + 1] = worker[w].job
    <3> SUFFICES ASSUME NEW w \in Workers, Busy(w) PROVE accepted'[f + 1] = worker[w].job
      OBVIOUS
    <3>1. f + 1 \in 1..Len(accepted)
      BY <1>3, <1>4
    <3> QED
      BY <1>3, <2>3, <3>1
  <2>6. \A i \in 1..Len(queue') : accepted'[f + InHand + i] = queue'[i]
    <3> TAKE i \in 1..Len(queue')
    <3>1. CASE i = Len(queue) + 1
      BY <1>3, <1>4, <2>3, <3>1
    <3>2. CASE i \in 1..Len(queue)
      BY <1>3, <1>4, <2>3, <3>2
    <3> QED
      BY <1>4, <2>3, <3>1, <3>2
  <2> QED
    BY <2>2, <2>4, <2>5, <2>6 DEF Accounted, f, Busy
<1>8. ASSUME NEW w \in Workers, Get(w) PROVE Accounted'
  <2>1. /\ Head(queue) \in Jobs /\ Head(queue) = queue[1]
        /\ Len(queue') = Len(queue) - 1 /\ \A i \in 1..Len(queue') : queue'[i] = queue[i + 1]
        /\ UNCHANGED <<accepted, finished>>
    BY <1>4, <1>8, HeadTailProperties DEF Get
  <2>2. Head(queue) # Stop
    BY <2>1, QueueAssumption DEF Jobs
  <2>3. worker' = [worker EXCEPT ![w] = [pc |-> "busy", job |-> Head(queue)]]
    BY <1>8, <2>2 DEF Get
  <2>4. InHand = 0
    BY <1>4, <1>8 DEF Get, InHand, Busy, IsAlive
  <2>5. InHand' = 1 /\ \A v \in Workers : Busy(v)' => v = w
    BY <1>1, <2>3, <2>4 DEF InHand, Busy, TypeOK
  <2>6. worker'[w].job = queue[1] /\ Len(queue) >= 1
    BY <1>1, <1>4, <1>8, <2>1, <2>3 DEF TypeOK, Get
  <2> HIDE DEF f
  <2>7. Len(accepted') = f + 1 + Len(queue') /\ accepted'[f + 1] = worker'[w].job
    BY <1>3, <1>4, <2>1, <2>4, <2>6
  <2>8. \A i \in 1..Len(queue') : accepted'[f + 1 + i] = queue'[i]
    <3> TAKE i \in 1..Len(queue')
    <3>1. accepted[f + 0 + (i + 1)] = queue[i + 1]
      BY <1>3, <1>4, <2>1, <2>4
    <3> QED
      BY <1>4, <2>1, <3>1
  <2> QED
    BY <1>3, <2>1, <2>5, <2>7, <2>8 DEF Accounted, f
<1>9. ASSUME NEW w \in Workers, Finish(w) PROVE Accounted'
  <2>1. worker[w].job \in Jobs /\ Busy(w)
    BY <1>1, <1>9 DEF Finish, TypeOK, WorkerStates, Busy
  <2>2. /\ Len(finished') = f + 1 /\ finished'[f + 1] = worker[w].job
        /\ \A i \in 1..f : finished'[i] = finished[i]
        /\ UNCHANGED <<accepted, queue>>
    BY <1>4, <1>9, <2>1 DEF Finish
  <2>3. InHand = 1 /\ InHand' = 0 /\ \A v \in Workers : ~Busy(v)'
    <3>1. \A v \in Workers : Busy(v) => v = w
      BY <1>4, <2>1 DEF Busy, IsAlive
    <3>2. \A v \in Workers : ~Busy(v)'
      BY <1>1, <1>9, <3>1 DEF Finish, Busy, InPc, TypeOK
    <3> QED
      BY <1>4, <2>1, <3>2 DEF InHand
  <2> HIDE DEF f
  <2>4. \A i \in 1..Len(finished') : accepted'[i] = finished'[i]
    <3> TAKE i \in 1..Len(finished')
    <3>1. CASE i = f + 1
      BY <1>3, <2>1, <2>2, <3>1
    <3>2. CASE i \in 1..f
      BY <1>3, <2>2, <3>2
    <3> QED
      BY <1>4, <2>2, <3>1, <3>2
  <2>5. Len(accepted') = Len(finished') + InHand' + Len(queue')
    BY <1>3, <1>4, <2>2, <2>3
  <2>6. \A i \in 1..Len(queue') : accepted'[Len(finished') + InHand' + i] = queue'[i]
    <3> TAKE i \in 1..Len(queue')
    <3>1. Len(finished') + InHand' + i = f + InHand + i
      BY <1>4, <2>2, <2>3
    <3> QED
      BY <1>3, <2>2, <3>1
  <2> QED
    BY <2>3, <2>4, <2>5, <2>6 DEF Accounted
<1>10. CASE JoinReturns \/ AllDone \/ UNCHANGED vars
  <2>1. UNCHANGED <<worker, queue, accepted, finished>>
    BY <1>10 DEF JoinReturns, AllDone, vars
  <2> QED
    BY <1>5, <2>1 DEF Busy
<1> QED
  BY <1>2, <1>6, <1>7, <1>8, <1>9, <1>10 DEF Next

(* Nothing is accepted, in hand or finished at the start. *)
LEMMA QueueInit == Init => QueueInv
<1> SUFFICES ASSUME Init PROVE QueueInv
  OBVIOUS
<1>1. TypeOK /\ queue = <<>> /\ accepted = <<>> /\ finished = <<>>
  BY TypeInit DEF Init
<1>2. \A w \in Workers : worker[w].pc = "unborn"
  BY DEF Init, InPc
<1>3. InHand = 0 /\ \A w \in Workers : ~Busy(w) /\ ~IsAlive(w)
  BY <1>2 DEF InHand, Busy, IsAlive
<1>4. OneThread
  BY <1>1, <1>3, EmptySeq DEF Init, OneThread
<1>5. Accounted
  BY <1>1, <1>3 DEF Accounted
<1> QED
  BY <1>1, <1>4, <1>5 DEF QueueInv

(* The strengthened invariant is inductive. *)
LEMMA QueueStep == QueueInv /\ [Next]_vars => QueueInv'
BY TypeInvariance, OneThreadStep, AccountedStep DEF QueueInv

(* However many event threads submit at once, one worker runs the jobs,    *)
(* until the queue is stopped.                                             *)
THEOREM OneWorker == Spec => []SingleWorker
<1>1. QueueInv => SingleWorker
  BY DEF QueueInv, OneThread, SingleWorker, Alive
<1> QED
  BY <1>1, QueueInit, QueueStep, PTL DEF Spec

(* Until then deliveries end in the order they were accepted.              *)
THEOREM OrderedDeliveries == Spec => []DeliveriesInOrder
<1>1. ASSUME QueueInv, stops = 0 PROVE IsPrefix(finished, accepted)
  <2>1. finished \in Seq(Jobs) /\ accepted \in Seq(Jobs) /\ Len(finished) \in Nat
    BY <1>1 DEF QueueInv, TypeOK
  <2>2. Len(finished) <= Len(accepted) /\ \A i \in 1..Len(finished) : accepted[i] = finished[i]
    BY <1>1, <2>1 DEF QueueInv, Accounted, TypeOK, InHand
  <2>3. SubSeq(finished, 1, Len(finished)) = finished
    BY <2>1, SubSeqFull
  <2>4. SubSeq(accepted, 1, Len(finished)) = finished
    <3> DEFINE s == SubSeq(accepted, 1, Len(finished))
    <3>1. \A i \in 1..Len(finished) : accepted[i] \in Jobs
      BY <2>1, <2>2
    <3>2. /\ s \in Seq(Jobs) /\ Len(s) = Len(finished)
          /\ \A i \in 1..Len(finished) : s[i] = accepted[i]
      BY <2>1, <3>1, SubSeqProperties
    <3> HIDE DEF s
    <3>3. s = finished
      BY <2>1, <2>2, <3>2, SeqEqual
    <3> QED
      BY <3>3 DEF s
  <2> QED
    BY <2>2, <2>3, <2>4 DEF IsPrefix
<1>2. QueueInv => DeliveriesInOrder
  BY <1>1 DEF DeliveriesInOrder
<1> QED
  BY <1>2, QueueInit, QueueStep, PTL DEF Spec
=============================================================================
