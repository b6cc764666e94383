--------------------------- MODULE ChatSyncQueue ---------------------------
(***************************************************************************)
(* ChatSyncQueue: event threads submit jobs, a worker thread takes them    *)
(* off the queue, and stop, which the shutdown of the plugin calls, waits  *)
(* for the worker for a limited time only.  FunPay's events keep coming    *)
(* after the shutdown, so that a submission may start a worker again.      *)
(***************************************************************************)
EXTENDS Integers, Sequences, FiniteSets, SequencesExt

CONSTANTS
  Events,     \* event threads
  Workers,    \* worker threads that may be started
  NoWorker,   \* the value None of _thread
  Stop,       \* the sentinel _STOP
  MaxJobs,    \* bound: jobs submitted
  MaxStops    \* bound: calls of stop

ASSUME QueueAssumption ==
  /\ NoWorker \notin Workers
  /\ Stop \notin Nat
  /\ MaxJobs \in Nat
  /\ MaxStops \in Nat

VARIABLES
  queue,     \* _queue: jobs, named by their number, and sentinels
  thread,    \* _thread
  worker,    \* what each worker thread does
  event,     \* the job an event thread is about to put, or 0
  stopping,  \* where the caller of stop is
  \* Counters and history.
  jobs,      \* jobs handed to submit so far
  stops,     \* calls of stop so far
  accepted,  \* jobs in the order they were put
  finished,  \* jobs in the order they ended
  late       \* whether a job was submitted after a stop

vars == <<queue, thread, worker, event, stopping, jobs, stops, accepted, finished, late>>

Jobs == 1..MaxJobs

(* A worker is busy with a job, waits for one, or does not run. *)
WorkerStates == [pc : {"unborn", "waiting", "dead"}, job : {0}] \cup [pc : {"busy"}, job : Jobs]

InPc(pc) == [pc |-> pc, job |-> 0]

IsAlive(w) == worker[w].pc \in {"waiting", "busy"}

Alive == {w \in Workers : IsAlive(w)}

Running == thread # NoWorker /\ IsAlive(thread)

Init ==
  /\ queue = <<>>
  /\ thread = NoWorker
  /\ worker = [w \in Workers |-> InPc("unborn")]
  /\ event = [e \in Events |-> 0]
  /\ stopping = "idle"
  /\ jobs = 0
  /\ stops = 0
  /\ accepted = <<>>
  /\ finished = <<>>
  /\ late = FALSE

(* Mutant: a worker is started for every submission. *)
StartAlways ==
  \E w \in Workers :
    /\ worker[w].pc = "unborn"
    /\ thread' = w
    /\ worker' = [worker EXCEPT ![w] = InPc("waiting")]

(* start, under its lock. *)
Start ==
  \/ Running /\ UNCHANGED <<thread, worker>>
  \/ /\ ~Running
     /\ \E w \in Workers :
          /\ worker[w].pc = "unborn"
          /\ thread' = w
          /\ worker' = [worker EXCEPT ![w] = InPc("waiting")]

(* submit: start, then put, and other threads come between the two. *)
Submit(e) ==
  /\ event[e] = 0
  /\ jobs < MaxJobs
  /\ jobs' = jobs + 1
  /\ event' = [event EXCEPT ![e] = jobs']
  /\ Start
  /\ late' = (stops > 0)
  /\ UNCHANGED <<queue, stopping, stops, accepted, finished>>

Put(e) ==
  /\ event[e] # 0
  /\ queue' = Append(queue, event[e])
  /\ accepted' = Append(accepted, event[e])
  /\ event' = [event EXCEPT ![e] = 0]
  /\ UNCHANGED <<thread, worker, stopping, jobs, stops, finished, late>>

(* stop: the worker is forgotten, the sentinel put, and the worker awaited *)
(* for the five seconds that join allows, which end at any time.           *)
TakeThread ==
  /\ stopping = "idle"
  /\ stops < MaxStops
  /\ stops' = stops + 1
  /\ stopping' = IF thread = NoWorker THEN "idle" ELSE "put"
  /\ thread' = NoWorker
  /\ UNCHANGED <<queue, worker, event, jobs, accepted, finished, late>>

(* Mutant: stop waits for a worker it has not told to end. *)
PutNothing ==
  /\ stopping = "put"
  /\ stopping' = "join"
  /\ UNCHANGED <<queue, thread, worker, event, jobs, stops, accepted, finished, late>>

PutSentinel ==
  /\ stopping = "put"
  /\ queue' = Append(queue, Stop)
  /\ stopping' = "join"
  /\ UNCHANGED <<thread, worker, event, jobs, stops, accepted, finished, late>>

JoinReturns ==
  /\ stopping = "join"
  /\ stopping' = "idle"
  /\ UNCHANGED <<queue, thread, worker, event, jobs, stops, accepted, finished, late>>

(* Mutant: the newest job is taken. *)
GetNewest(w) ==
  /\ worker[w].pc = "waiting"
  /\ queue # <<>>
  /\ queue' = Front(queue)
  /\ worker' = [worker EXCEPT ![w] =
       IF Last(queue) = Stop THEN InPc("dead") ELSE [pc |-> "busy", job |-> Last(queue)]]
  /\ UNCHANGED <<thread, event, stopping, jobs, stops, accepted, finished, late>>

(* Mutant: the sentinel is run like a job. *)
GetAnything(w) ==
  /\ worker[w].pc = "waiting"
  /\ queue # <<>>
  /\ queue' = Tail(queue)
  /\ worker' = [worker EXCEPT ![w] = [pc |-> "busy", job |-> Head(queue)]]
  /\ UNCHANGED <<thread, event, stopping, jobs, stops, accepted, finished, late>>

(* _run: a worker takes what is first, and ends on a sentinel. *)
Get(w) ==
  /\ worker[w].pc = "waiting"
  /\ queue # <<>>
  /\ queue' = Tail(queue)
  /\ worker' = [worker EXCEPT ![w] =
       IF Head(queue) = Stop THEN InPc("dead") ELSE [pc |-> "busy", job |-> Head(queue)]]
  /\ UNCHANGED <<thread, event, stopping, jobs, stops, accepted, finished, late>>

(* Mutant: a job that raises ends the worker. *)
FinishOrDie(w) ==
  /\ worker[w].pc = "busy"
  /\ finished' = Append(finished, worker[w].job)
  /\ worker' \in {[worker EXCEPT ![w] = InPc(pc)] : pc \in {"waiting", "dead"}}
  /\ UNCHANGED <<queue, thread, event, stopping, jobs, stops, accepted, late>>

(* The job ends; one that raises is logged and ends like any other. *)
Finish(w) ==
  /\ worker[w].pc = "busy"
  /\ finished' = Append(finished, worker[w].job)
  /\ worker' = [worker EXCEPT ![w] = InPc("waiting")]
  /\ UNCHANGED <<queue, thread, event, stopping, jobs, stops, accepted, late>>

(* Every job is submitted and done, and nobody stops the queue any more. *)
AllDone ==
  /\ jobs = MaxJobs
  /\ stops = MaxStops
  /\ stopping = "idle"
  /\ \A e \in Events : event[e] = 0
  /\ \A w \in Workers : worker[w].pc # "busy"
  /\ queue = <<>> \/ Alive = {}
  /\ UNCHANGED vars

Next ==
  \/ \E e \in Events : Submit(e) \/ Put(e)
  \/ TakeThread \/ PutSentinel \/ JoinReturns
  \/ \E w \in Workers : Get(w) \/ Finish(w)
  \/ AllDone

(* The threads of the program run: an event thread that started the worker *)
(* puts its job, a worker takes jobs, and a job ends, since its calls to   *)
(* Telegram and FunPay have time limits.  stop, once begun, puts its       *)
(* sentinel.                                                               *)
Fairness ==
  /\ \A e \in Events : WF_vars(Put(e))
  /\ WF_vars(PutSentinel)
  /\ \A w \in Workers : WF_vars(Get(w)) /\ WF_vars(Finish(w))

Spec == Init /\ [][Next]_vars /\ Fairness

-----------------------------------------------------------------------------
(* Types of the variables. *)
TypeOK ==
  /\ queue \in Seq(Jobs \cup {Stop})
  /\ thread \in Workers \cup {NoWorker}
  /\ worker \in [Workers -> WorkerStates]
  /\ event \in [Events -> Jobs \cup {0}]
  /\ stopping \in {"idle", "put", "join"}
  /\ jobs \in 0..MaxJobs
  /\ stops \in 0..MaxStops
  /\ accepted \in Seq(Jobs)
  /\ finished \in Seq(Jobs)
  /\ late \in BOOLEAN

(* "Single worker keeping Telegram deliveries ordered": until the queue is *)
(* stopped, however many event threads submit at once.                     *)
SingleWorker == stops = 0 => \A v, w \in Alive : v = w

(* Deliveries end in the order they were accepted, until a stop.           *)
DeliveriesInOrder == stops = 0 => IsPrefix(finished, accepted)

(* A job that was put is done, and one that raises does not keep the       *)
(* others from being done, until a stop.                                   *)
JobsAreDone ==
  \A j \in Jobs : j \in ToSet(accepted) ~> (j \in ToSet(finished) \/ stops > 0)

(* shutdown: a stop that no submission follows ends the worker, after the  *)
(* jobs it had accepted.                                                   *)
StopEndsTheWorker == stops > 0 ~> (Alive = {} \/ late)
=============================================================================
