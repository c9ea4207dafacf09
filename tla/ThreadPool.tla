----------------------------- MODULE ThreadPool -----------------------------
(***************************************************************************)
(* The bounded worker pool of ThreadPool.cpp: a mutex-protected FIFO of    *)
(* tasks, one condition variable, and a fixed set of worker threads that   *)
(* run workerLoop().                                                       *)
(*                                                                         *)
(* A step is a critical section of mutex_ or one access outside it.  The   *)
(* calls cv_.notify_one() and cv_.notify_all() come after the unlock, so   *)
(* they are steps of their own and other threads run in between.  A worker *)
(* asleep in cv_.wait may also wake up spuriously; the predicate passed to *)
(* wait sends it back to sleep.                                            *)
(*                                                                         *)
(* The threads that call enqueue are Producers (the accept chains of       *)
(* Server.cpp); the thread that calls shutdown and the destructor is the   *)
(* owner.  Each task is offered once, so its identity can be followed.     *)
(***************************************************************************)
EXTENDS Naturals, Sequences, FiniteSets

CONSTANTS Workers,        \* the threads of workers_
          Producers,      \* the threads that call enqueue
          Tasks,          \* the tasks that can ever be offered
          MaxQueueSize,   \* maxQueueSize_
          NoTask          \* an empty std::function

(* The constructor throws on zero workers and on a zero queue size. *)
ASSUME PoolAssumption ==
    /\ IsFiniteSet(Workers) /\ Workers # {}
    /\ IsFiniteSet(Producers)
    /\ IsFiniteSet(Tasks)
    /\ MaxQueueSize \in Nat \ {0}
    /\ NoTask \notin Tasks

VARIABLES
    tasks,       \* tasks_, front first
    stopping,    \* stopping_
    active,      \* active_
    completed,   \* completed_
    rejected,    \* rejected_
    wpc,         \* where each worker is in workerLoop
    wtask,       \* each worker's local variable task
    ppc,         \* where each producer is in enqueue
    opc,         \* where the owner is in shutdown and the destructor
    offered,     \* history: tasks passed to enqueue
    accepted,    \* history: tasks pushed, in order
    started,     \* history: tasks popped, in order
    done         \* history: tasks whose body has ended

poolVars == <<tasks, stopping>>
counters == <<active, completed, rejected>>
threads  == <<wpc, wtask, ppc, opc>>
history  == <<offered, accepted, started, done>>
vars     == <<poolVars, counters, threads, history>>

WorkerPC   == {"check", "asleep", "popped", "running", "ran", "uncounted", "exited"}
ProducerPC == {"idle", "notify"}
OwnerPC    == {"serving", "notify", "join", "returned", "destroyed"}

(* Parts of workerLoop: holding a task that has not ended, between the two *)
(* updates of active_, and between the task's end and its count.           *)
WithTask   == {"popped", "running"}
InActive   == {"running", "ran"}
Unreported == {"ran", "uncounted"}

InWorkerPC(S) == {w \in Workers : wpc[w] \in S}
Holding       == InWorkerPC(WithTask)
Notifying     == {p \in Producers : ppc[p] = "notify"}
(* How many of the threads with program counters pc are at a point of S.   *)
ThreadsAt(pc, S) == Cardinality({x \in DOMAIN pc : pc[x] \in S})
Elements(s)   == {s[i] : i \in 1 .. Len(s)}

Init ==
    /\ tasks = <<>>
    /\ stopping = FALSE
    /\ active = 0 /\ completed = 0 /\ rejected = 0
    /\ wpc = [w \in Workers |-> "check"]
    /\ wtask = [w \in Workers |-> NoTask]
    /\ ppc = [p \in Producers |-> "idle"]
    /\ opc = "serving"
    /\ offered = {} /\ done = {}
    /\ accepted = <<>> /\ started = <<>>

-----------------------------------------------------------------------------
(* enqueue(): one critical section that rejects or pushes ...              *)

(* Mutant: the capacity test is off by one. *)
RejectsOffByOne == stopping \/ Len(tasks) > MaxQueueSize

Rejects == stopping \/ Len(tasks) >= MaxQueueSize

Offer(p, t) ==
    /\ opc # "destroyed"
    /\ ppc[p] = "idle"
    /\ t \in Tasks \ offered
    /\ offered' = offered \cup {t}

(* Mutant: a refused task is not counted. *)
EnqueueRejectUncounted(p, t) ==
    /\ Offer(p, t)
    /\ Rejects
    /\ UNCHANGED <<poolVars, counters, threads, accepted, started, done>>

EnqueueReject(p, t) ==
    /\ Offer(p, t)
    /\ Rejects
    /\ rejected' = rejected + 1
    /\ UNCHANGED <<poolVars, active, completed, threads, accepted, started, done>>

EnqueueAccept(p, t) ==
    /\ Offer(p, t)
    /\ ~Rejects
    /\ tasks' = Append(tasks, t)
    /\ accepted' = Append(accepted, t)
    /\ ppc' = [ppc EXCEPT ![p] = "notify"]
    /\ UNCHANGED <<stopping, counters, wpc, wtask, opc, started, done>>

(* Mutant: notify only when the queue has just stopped being empty. *)
NotifyOneIfFirst(p) ==
    /\ ppc[p] = "notify"
    /\ ppc' = [ppc EXCEPT ![p] = "idle"]
    /\ \/ /\ InWorkerPC({"asleep"}) = {} \/ Len(tasks) # 1
          /\ UNCHANGED wpc
       \/ /\ Len(tasks) = 1
          /\ \E w \in InWorkerPC({"asleep"}) : wpc' = [wpc EXCEPT ![w] = "check"]
    /\ UNCHANGED <<poolVars, counters, wtask, opc, history>>

(* ... and, after the unlock, notify_one(): it wakes one of the threads    *)
(* that are waiting now, if any, and is not remembered otherwise.          *)
NotifyOne(p) ==
    /\ ppc[p] = "notify"
    /\ ppc' = [ppc EXCEPT ![p] = "idle"]
    /\ \/ /\ InWorkerPC({"asleep"}) = {}
          /\ UNCHANGED wpc
       \/ \E w \in InWorkerPC({"asleep"}) : wpc' = [wpc EXCEPT ![w] = "check"]
    /\ UNCHANGED <<poolVars, counters, wtask, opc, history>>

-----------------------------------------------------------------------------
(* shutdown() and the destructor, both called by the owner.                *)

ShutdownBegin ==
    /\ opc = "serving"
    /\ ~stopping
    /\ stopping' = TRUE
    /\ opc' = "notify"
    /\ UNCHANGED <<tasks, counters, wpc, wtask, ppc, history>>

(* Mutant: shutdown wakes one sleeping worker instead of all of them. *)
ShutdownNotifyOne ==
    /\ opc = "notify"
    /\ \/ InWorkerPC({"asleep"}) = {} /\ UNCHANGED wpc
       \/ \E w \in InWorkerPC({"asleep"}) : wpc' = [wpc EXCEPT ![w] = "check"]
    /\ opc' = "join"
    /\ UNCHANGED <<poolVars, counters, wtask, ppc, history>>

ShutdownNotifyAll ==
    /\ opc = "notify"
    /\ wpc' = [w \in Workers |-> IF wpc[w] = "asleep" THEN "check" ELSE wpc[w]]
    /\ opc' = "join"
    /\ UNCHANGED <<poolVars, counters, wtask, ppc, history>>

ShutdownJoin ==
    /\ opc = "join"
    /\ InWorkerPC({"exited"}) = Workers
    /\ opc' = "returned"
    /\ UNCHANGED <<poolVars, counters, wpc, wtask, ppc, history>>

(* The destructor calls shutdown() again, which returns at once because    *)
(* stopping_ is set.  No other thread may still be inside enqueue: that is *)
(* the caller's obligation, kept by Application.cpp, which joins the io    *)
(* threads first.                                                          *)
Destroy ==
    /\ opc = "returned"
    /\ stopping
    /\ Notifying = {}
    /\ opc' = "destroyed"
    /\ UNCHANGED <<poolVars, counters, wpc, wtask, ppc, history>>

-----------------------------------------------------------------------------
(* workerLoop().  "check" is a worker about to take the lock and evaluate  *)
(* the wait predicate: at the top of the loop or just woken.               *)

(* Predicate false: unlock and sleep are one atomic step of cv_.wait. *)
WorkerSleep(w) ==
    /\ wpc[w] = "check"
    /\ ~stopping /\ tasks = <<>>
    /\ wpc' = [wpc EXCEPT ![w] = "asleep"]
    /\ UNCHANGED <<poolVars, counters, wtask, ppc, opc, history>>

(* Mutant: a worker leaves as soon as it sees stopping_, tasks or not. *)
WorkerExitUndrained(w) ==
    /\ wpc[w] = "check"
    /\ stopping
    /\ wpc' = [wpc EXCEPT ![w] = "exited"]
    /\ UNCHANGED <<poolVars, counters, wtask, ppc, opc, history>>

WorkerExit(w) ==
    /\ wpc[w] = "check"
    /\ stopping /\ tasks = <<>>
    /\ wpc' = [wpc EXCEPT ![w] = "exited"]
    /\ UNCHANGED <<poolVars, counters, wtask, ppc, opc, history>>

(* Mutant: the task is moved out of the front but never popped. *)
WorkerPopKeepsFront(w) ==
    /\ wpc[w] = "check"
    /\ tasks # <<>>
    /\ wtask' = [wtask EXCEPT ![w] = Head(tasks)]
    /\ started' = Append(started, Head(tasks))
    /\ wpc' = [wpc EXCEPT ![w] = "popped"]
    /\ UNCHANGED <<poolVars, counters, ppc, opc, offered, accepted, done>>

WorkerPop(w) ==
    /\ wpc[w] = "check"
    /\ tasks # <<>>
    /\ wtask' = [wtask EXCEPT ![w] = Head(tasks)]
    /\ tasks' = Tail(tasks)
    /\ started' = Append(started, Head(tasks))
    /\ wpc' = [wpc EXCEPT ![w] = "popped"]
    /\ UNCHANGED <<stopping, counters, ppc, opc, offered, accepted, done>>

WorkerCountActive(w) ==
    /\ wpc[w] = "popped"
    /\ active' = active + 1
    /\ wpc' = [wpc EXCEPT ![w] = "running"]
    /\ UNCHANGED <<poolVars, completed, rejected, wtask, ppc, opc, history>>

(* Mutant: an exception escapes workerLoop and the thread is gone. *)
TaskEndsLosesWorker(w) ==
    /\ wpc[w] = "running"
    /\ done' = done \cup {wtask[w]}
    /\ wtask' = [wtask EXCEPT ![w] = NoTask]
    /\ wpc' = [wpc EXCEPT ![w] = "exited"]
    /\ UNCHANGED <<poolVars, counters, ppc, opc, offered, accepted, started>>

(* task() ends: it returns, or it throws and catch (...) swallows the      *)
(* exception; the worker continues alike.                                  *)
TaskEnds(w) ==
    /\ wpc[w] = "running"
    /\ done' = done \cup {wtask[w]}
    /\ wtask' = [wtask EXCEPT ![w] = NoTask]
    /\ wpc' = [wpc EXCEPT ![w] = "ran"]
    /\ UNCHANGED <<poolVars, counters, ppc, opc, offered, accepted, started>>

WorkerUncountActive(w) ==
    /\ wpc[w] = "ran"
    /\ active' = active - 1
    /\ wpc' = [wpc EXCEPT ![w] = "uncounted"]
    /\ UNCHANGED <<poolVars, completed, rejected, wtask, ppc, opc, history>>

WorkerCountCompleted(w) ==
    /\ wpc[w] = "uncounted"
    /\ completed' = completed + 1
    /\ wpc' = [wpc EXCEPT ![w] = "check"]
    /\ UNCHANGED <<poolVars, active, rejected, wtask, ppc, opc, history>>

(* cv_.wait may return from the sleep without a notification. *)
SpuriousWake(w) ==
    /\ wpc[w] = "asleep"
    /\ wpc' = [wpc EXCEPT ![w] = "check"]
    /\ UNCHANGED <<poolVars, counters, wtask, ppc, opc, history>>

-----------------------------------------------------------------------------
WorkerStep(w) ==
    \/ WorkerSleep(w) \/ WorkerExit(w) \/ WorkerPop(w)
    \/ WorkerCountActive(w) \/ TaskEnds(w)
    \/ WorkerUncountActive(w) \/ WorkerCountCompleted(w)

EnqueueStep(p, t) == EnqueueReject(p, t) \/ EnqueueAccept(p, t)
OwnerStep == ShutdownBegin \/ ShutdownNotifyAll \/ ShutdownJoin \/ Destroy

(* Nothing is left to do: the only way the system stops. *)
Terminated == opc = "destroyed" /\ UNCHANGED vars

Next ==
    \/ \E w \in Workers : WorkerStep(w) \/ SpuriousWake(w)
    \/ \E p \in Producers : NotifyOne(p) \/ \E t \in Tasks : EnqueueStep(p, t)
    \/ OwnerStep
    \/ Terminated

(* A thread inside a call of the pool keeps running, and a task's body     *)
(* ends.  Nobody has to call enqueue or shutdown.                          *)
Fairness ==
    /\ \A w \in Workers : WF_vars(WorkerStep(w))
    /\ \A p \in Producers : WF_vars(NotifyOne(p))
    /\ WF_vars(ShutdownNotifyAll) /\ WF_vars(ShutdownJoin)

Spec == Init /\ [][Next]_vars
FairSpec == Spec /\ Fairness

-----------------------------------------------------------------------------
(* Every variable of ThreadPool.hpp and every thread stays in its type; in *)
(* particular the unsigned counter active_ never wraps below zero.         *)
TypeOK ==
    /\ tasks \in Seq(Tasks)
    /\ stopping \in BOOLEAN
    /\ active \in Nat /\ completed \in Nat /\ rejected \in Nat
    /\ wpc \in [Workers -> WorkerPC]
    /\ wtask \in [Workers -> Tasks \cup {NoTask}]
    /\ ppc \in [Producers -> ProducerPC]
    /\ opc \in OwnerPC
    /\ offered \subseteq Tasks /\ done \subseteq Tasks
    /\ accepted \in Seq(Tasks) /\ started \in Seq(Tasks)

(* enqueue and workerLoop together start the accepted tasks in the order   *)
(* of acceptance, none twice and none skipped: what was pushed is what was *)
(* popped followed by what still waits, and a popped task is held by one   *)
(* worker or has ended.                                                    *)
FifoExactlyOnce ==
    /\ accepted = started \o tasks
    /\ Elements(started) = done \cup {wtask[w] : w \in Holding}
    /\ \A v, w \in Holding : wtask[v] = wtask[w] => v = w
    /\ \A w \in Holding : wtask[w] \notin done

(* What adminStatusResponse reports adds up: active_ is the number of      *)
(* workers between their fetch_add and fetch_sub, completed_ lags the      *)
(* ended tasks by the workers that have not counted theirs yet, and every  *)
(* offer was either accepted or counted in rejected_.                      *)
CountersAddUp ==
    /\ active = ThreadsAt(wpc, InActive)
    /\ Cardinality(done) = completed + ThreadsAt(wpc, Unreported)
    /\ Cardinality(offered) = rejected + Len(accepted)

(* No wakeup is lost although notify_one comes after the unlock and may    *)
(* find nobody: while some worker sleeps, there is for every waiting task  *)
(* a worker about to look at the queue or a notification about to be sent. *)
WorkConserving ==
    InWorkerPC({"asleep"}) # {} =>
        Len(tasks) <= ThreadsAt(wpc, {"check"}) + ThreadsAt(ppc, {"notify"})

(* When shutdown() returns, every task ever accepted has been run and      *)
(* counted and no worker is left, so the members can be destroyed.         *)
ShutdownDrains ==
    opc \in {"returned", "destroyed"} =>
        /\ tasks = <<>>
        /\ InWorkerPC({"exited"}) = Workers
        /\ Elements(accepted) = done
        /\ completed = Len(accepted) /\ active = 0

(* The facts about shutdown that ShutdownDrains rests on: stopping_ is set *)
(* exactly while the owner is past its first critical section, a worker    *)
(* leaves only a stopped and empty pool, nobody sleeps once notify_all has *)
(* been called, and join waits for everybody.                              *)
ShutdownOrder ==
    /\ stopping <=> opc # "serving"
    /\ InWorkerPC({"exited"}) # {} => stopping /\ tasks = <<>>
    /\ opc \in {"join", "returned", "destroyed"} => InWorkerPC({"asleep"}) = {}
    /\ opc \in {"returned", "destroyed"} => InWorkerPC({"exited"}) = Workers

(* The facts about task identities that FifoExactlyOnce rests on: a task   *)
(* is accepted at most once, and as many were started as have ended or are *)
(* held by a worker.                                                       *)
TaskIdentity ==
    /\ Elements(accepted) \subseteq offered
    /\ \A i, j \in 1 .. Len(accepted) : accepted[i] = accepted[j] => i = j
    /\ \A w \in Holding : wtask[w] \in Tasks
    /\ Len(started) = Cardinality(done) + ThreadsAt(wpc, WithTask)

IndInv ==
    /\ TypeOK /\ FifoExactlyOnce /\ CountersAddUp /\ WorkConserving
    /\ ShutdownOrder /\ TaskIdentity

(* Every accepted task is run, also when shutdown begins while it waits.   *)
AcceptedTaskRuns == \A t \in Tasks : t \in Elements(accepted) ~> t \in done

(* shutdown() returns: no worker sleeps through notify_all.                *)
ShutdownReturns == stopping ~> opc \in {"returned", "destroyed"}

-----------------------------------------------------------------------------
(* What the pool promises, without threads, locks or notifications.        *)
Executor == INSTANCE BoundedExecutor WITH
    Slots    <- Cardinality(Workers),
    Capacity <- MaxQueueSize,
    queue    <- tasks,
    running  <- {wtask[w] : w \in Holding},
    finished <- done,
    refused  <- offered \ Elements(accepted),
    phase    <- IF ~stopping THEN "open"
                ELSE IF opc \in {"returned", "destroyed"} THEN "closed"
                ELSE "closing"

(* The pool implements the bounded executor, its fairness included.        *)
ImplementsExecutor == Executor!FairSpec
=============================================================================
