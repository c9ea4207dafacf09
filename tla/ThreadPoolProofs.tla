-------------------------- MODULE ThreadPoolProofs --------------------------
(***************************************************************************)
(* ThreadPool is correct for any number of workers, producers and tasks    *)
(* and any queue size: the inductive invariant IndInv, and what follows.   *)
(***************************************************************************)
EXTENDS ThreadPool, FiniteSetTheorems, SequenceTheorems, TLAPS

(* In a step from pc to new, only thread w may have moved. *)
OneMoves(pc, new, w) ==
    /\ IsFiniteSet(DOMAIN pc) /\ DOMAIN new = DOMAIN pc
    /\ w \in DOMAIN pc
    /\ \A v \in DOMAIN pc \ {w} : new[v] = pc[v]

(* How the number of threads at S changes when one goes from old to new.   *)
Shift(old, new, S) == (IF new \in S THEN 1 ELSE 0) - (IF old \in S THEN 1 ELSE 0)

(* One thread moves: the number of threads at the points of S changes by   *)
(* what is lost and gained there.                                          *)
LEMMA ThreadsAtUpdate ==
    ASSUME NEW pc, NEW new, NEW w, NEW S, OneMoves(pc, new, w)
    PROVE  /\ ThreadsAt(pc, S) \in Nat
           /\ ThreadsAt(new, S) \in Nat
           /\ ThreadsAt(new, S)
                = ThreadsAt(pc, S) + Shift(pc[w], new[w], S)
<1> DEFINE W == DOMAIN pc
           A == {v \in W : pc[v] \in S}
           B == {v \in W : new[v] \in S}
           C == A \ {w}
<1>0. IsFiniteSet(W) /\ DOMAIN new = W /\ w \in W /\ \A v \in W \ {w} : new[v] = pc[v]
  BY DEF OneMoves
<1>1. IsFiniteSet(A) /\ IsFiniteSet(B) /\ IsFiniteSet(C)
  BY <1>0, FS_Subset, A \subseteq W, B \subseteq W, C \subseteq W
<1>2. Cardinality(A) \in Nat /\ Cardinality(B) \in Nat /\ Cardinality(C) \in Nat
  BY <1>1, FS_CardinalityType
<1>3. Cardinality(C \cup {w}) = Cardinality(C) + 1
  BY <1>1, w \notin C, FS_AddElement
<1>4. A = IF pc[w] \in S THEN C \cup {w} ELSE C
  BY <1>0
<1>5. B = IF new[w] \in S THEN C \cup {w} ELSE C
  BY <1>0
<1>6. ThreadsAt(pc, S) = Cardinality(A) /\ ThreadsAt(new, S) = Cardinality(B)
  BY <1>0 DEF ThreadsAt
<1> HIDE DEF A, B, C
<1> QED
  BY <1>2, <1>3, <1>4, <1>5, <1>6 DEF Shift

(* A step in which only worker w moves.                                    *)
LEMMA WorkerMoves ==
    ASSUME TypeOK, NEW w \in Workers, NEW x \in WorkerPC, wpc' = [wpc EXCEPT ![w] = x]
    PROVE  OneMoves(wpc, wpc', w) /\ wpc'[w] = x
BY PoolAssumption DEF OneMoves, TypeOK, PoolAssumption

(* Its effect on the counts the invariants speak of.                       *)
LEMMA WorkerCounts ==
    ASSUME NEW w, OneMoves(wpc, wpc', w)
    PROVE
           /\ ThreadsAt(wpc, InActive) \in Nat
           /\ ThreadsAt(wpc', InActive) \in Nat
           /\ ThreadsAt(wpc', InActive)
                = ThreadsAt(wpc, InActive) + Shift(wpc[w], wpc'[w], InActive)
           /\ ThreadsAt(wpc, Unreported) \in Nat
           /\ ThreadsAt(wpc', Unreported) \in Nat
           /\ ThreadsAt(wpc', Unreported)
                = ThreadsAt(wpc, Unreported) + Shift(wpc[w], wpc'[w], Unreported)
           /\ ThreadsAt(wpc, WithTask) \in Nat
           /\ ThreadsAt(wpc', WithTask) \in Nat
           /\ ThreadsAt(wpc', WithTask)
                = ThreadsAt(wpc, WithTask) + Shift(wpc[w], wpc'[w], WithTask)
          
        /\ ThreadsAt(wpc, {"check"}) \in Nat
           /\ ThreadsAt(wpc', {"check"}) \in Nat
           /\ ThreadsAt(wpc', {"check"})
                = ThreadsAt(wpc, {"check"}) + Shift(wpc[w], wpc'[w], {"check"})
BY ThreadsAtUpdate

(* The same for a producer.                                                *)
LEMMA ProducerMoves ==
    ASSUME TypeOK, NEW p \in Producers, NEW x \in ProducerPC, ppc' = [ppc EXCEPT ![p] = x]
    PROVE  OneMoves(ppc, ppc', p) /\ ppc'[p] = x
BY PoolAssumption DEF OneMoves, TypeOK, PoolAssumption

LEMMA ProducerCounts ==
    ASSUME NEW p, OneMoves(ppc, ppc', p)
    PROVE
           /\ ThreadsAt(ppc, {"notify"}) \in Nat
           /\ ThreadsAt(ppc', {"notify"}) \in Nat
           /\ ThreadsAt(ppc', {"notify"})
                = ThreadsAt(ppc, {"notify"}) + Shift(ppc[p], ppc'[p], {"notify"})
BY ThreadsAtUpdate

(* Every step keeps the types; active_ is positive where it is decremented. *)
LEMMA TypeStep == IndInv /\ [Next]_vars => TypeOK'
<1> SUFFICES ASSUME IndInv, [Next]_vars PROVE TypeOK'
  OBVIOUS
<1> USE DEF TypeOK, IndInv, WorkerPC, ProducerPC, OwnerPC
<1>1. ASSUME NEW p \in Producers, NEW t \in Tasks, EnqueueReject(p, t) PROVE TypeOK'
  BY <1>1 DEF EnqueueReject, poolVars, counters, threads, history, Offer
<1>2. ASSUME NEW p \in Producers, NEW t \in Tasks, EnqueueAccept(p, t) PROVE TypeOK'
  BY <1>2 DEF EnqueueAccept, poolVars, counters, threads, history, Offer
<1>3. ASSUME NEW p \in Producers, NotifyOne(p) PROVE TypeOK'
  BY <1>3 DEF NotifyOne, poolVars, counters, threads, history, InWorkerPC
<1>4. ASSUME ShutdownBegin PROVE TypeOK'
  BY <1>4 DEF ShutdownBegin, poolVars, counters, threads, history
<1>5. ASSUME ShutdownNotifyAll PROVE TypeOK'
  BY <1>5 DEF ShutdownNotifyAll, poolVars, counters, threads, history
<1>6. ASSUME ShutdownJoin PROVE TypeOK'
  BY <1>6 DEF ShutdownJoin, poolVars, counters, threads, history
<1>7. ASSUME Destroy PROVE TypeOK'
  BY <1>7 DEF Destroy, poolVars, counters, threads, history
<1>8. ASSUME NEW w \in Workers, WorkerSleep(w) PROVE TypeOK'
  BY <1>8 DEF WorkerSleep, poolVars, counters, threads, history
<1>9. ASSUME NEW w \in Workers, WorkerExit(w) PROVE TypeOK'
  BY <1>9 DEF WorkerExit, poolVars, counters, threads, history
<1>10. ASSUME NEW w \in Workers, WorkerPop(w) PROVE TypeOK'
  <2>1. Head(tasks) \in Tasks /\ Tail(tasks) \in Seq(Tasks)
    BY <1>10, HeadTailProperties DEF WorkerPop
  <2> QED
    BY <1>10, <2>1 DEF WorkerPop, poolVars, counters, threads, history
<1>11. ASSUME NEW w \in Workers, WorkerCountActive(w) PROVE TypeOK'
  BY <1>11 DEF WorkerCountActive, poolVars, counters, threads, history
<1>12. ASSUME NEW w \in Workers, TaskEnds(w) PROVE TypeOK'
  BY <1>12 DEF TaskEnds, poolVars, counters, threads, history, TaskIdentity, Holding, InWorkerPC, WithTask
<1>13. ASSUME NEW w \in Workers, WorkerUncountActive(w) PROVE TypeOK'
  <2>1. active = ThreadsAt(wpc, InActive) /\ wpc[w] = "ran"
    BY <1>13 DEF CountersAddUp, WorkerUncountActive
  <2>2. OneMoves(wpc, wpc', w) /\ wpc'[w] = "uncounted"
    BY <1>13, WorkerMoves DEF WorkerUncountActive
  <2>3. Shift(wpc[w], wpc'[w], InActive) = -1
    BY <2>1, <2>2 DEF Shift, InActive
  <2>4. active - 1 \in Nat
    BY <2>1, <2>2, <2>3, WorkerCounts
  <2> QED
    BY <1>13, <2>4 DEF WorkerUncountActive, poolVars, counters, threads, history
<1>14. ASSUME NEW w \in Workers, WorkerCountCompleted(w) PROVE TypeOK'
  BY <1>14 DEF WorkerCountCompleted, poolVars, counters, threads, history
<1>15. ASSUME NEW w \in Workers, SpuriousWake(w) PROVE TypeOK'
  BY <1>15 DEF SpuriousWake, poolVars, counters, threads, history
<1>16. ASSUME UNCHANGED vars PROVE TypeOK'
  BY <1>16 DEF vars, poolVars, counters, threads, history
<1> QED
  BY <1>1, <1>2, <1>3, <1>4, <1>5, <1>6, <1>7, <1>8, <1>9, <1>10, <1>11, <1>12, <1>13, <1>14, <1>15, <1>16
     DEF Next, WorkerStep, EnqueueStep, OwnerStep, Terminated

(* Counts are natural numbers.                                             *)
LEMMA ThreadsAtType == ASSUME NEW pc, IsFiniteSet(DOMAIN pc), NEW S
                       PROVE  ThreadsAt(pc, S) \in Nat
<1> DEFINE A == {v \in DOMAIN pc : pc[v] \in S}
<1>1. IsFiniteSet(A)
  BY FS_Subset, A \subseteq DOMAIN pc
<1> QED
  BY <1>1, FS_CardinalityType DEF ThreadsAt

LEMMA CountTypes == ASSUME TypeOK
                    PROVE  \A S : ThreadsAt(wpc, S) \in Nat /\ ThreadsAt(ppc, S) \in Nat
<1>1. IsFiniteSet(DOMAIN wpc) /\ IsFiniteSet(DOMAIN ppc)
  BY PoolAssumption DEF TypeOK, PoolAssumption
<1> QED
  BY <1>1, ThreadsAtType

LEMMA CountTypesNext == ASSUME TypeOK'
                        PROVE  \A S : ThreadsAt(wpc', S) \in Nat /\ ThreadsAt(ppc', S) \in Nat
<1>1. IsFiniteSet(DOMAIN wpc') /\ IsFiniteSet(DOMAIN ppc')
  BY PoolAssumption DEF TypeOK, PoolAssumption
<1> QED
  BY <1>1, ThreadsAtType

(* No step loses a wakeup: a task comes with a notification, a notification *)
(* turns a sleeper into a worker that looks, and a worker only goes to     *)
(* sleep, or leaves, when nothing waits.                                   *)
LEMMA WorkStep == IndInv /\ [Next]_vars => WorkConserving'
<1> SUFFICES ASSUME IndInv, [Next]_vars PROVE WorkConserving'
  OBVIOUS
<1>1. ASSUME NEW p \in Producers, NEW t \in Tasks, EnqueueReject(p, t) PROVE WorkConserving'
  BY <1>1 DEF EnqueueReject, poolVars, counters, threads, history, Offer, WorkConserving, IndInv, InWorkerPC
<1>2. ASSUME NEW p \in Producers, NEW t \in Tasks, EnqueueAccept(p, t) PROVE WorkConserving'
  <2>1. TypeOK /\ OneMoves(ppc, ppc', p) /\ ppc'[p] = "notify" /\ ppc[p] = "idle"
    BY <1>2, ProducerMoves, "notify" \in ProducerPC DEF EnqueueAccept, Offer, IndInv, ProducerPC
  <2>2. Shift(ppc[p], ppc'[p], {"notify"}) = 1
    BY <2>1 DEF Shift
  <2>3. ThreadsAt(ppc', {"notify"}) = ThreadsAt(ppc, {"notify"}) + 1
    BY <2>1, <2>2, ProducerCounts
  <2>4. Len(tasks') = Len(tasks) + 1 /\ Len(tasks) \in Nat
    BY <1>2, <2>1, AppendProperties, LenProperties DEF EnqueueAccept, TypeOK
  <2>5. ThreadsAt(wpc, {"check"}) \in Nat /\ ThreadsAt(ppc, {"notify"}) \in Nat
    BY <2>1, CountTypes
  <2> QED
    BY <1>2, <2>3, <2>4, <2>5 DEF EnqueueAccept, poolVars, counters, threads, history, Offer, WorkConserving, IndInv, InWorkerPC
<1>3. ASSUME NEW p \in Producers, NotifyOne(p) PROVE WorkConserving'
  <2>1. TypeOK /\ OneMoves(ppc, ppc', p) /\ ppc'[p] = "idle" /\ ppc[p] = "notify"
    BY <1>3, ProducerMoves, "idle" \in ProducerPC DEF NotifyOne, IndInv, ProducerPC
  <2>2. Shift(ppc[p], ppc'[p], {"notify"}) = -1
    BY <2>1 DEF Shift
  <2>3. ThreadsAt(ppc', {"notify"}) = ThreadsAt(ppc, {"notify"}) - 1
    BY <2>1, <2>2, ProducerCounts
  <2>4. CASE InWorkerPC({"asleep"}) = {} /\ UNCHANGED wpc
    BY <2>4 DEF WorkConserving, InWorkerPC
  <2>5. ASSUME NEW w \in InWorkerPC({"asleep"}), wpc' = [wpc EXCEPT ![w] = "check"]
        PROVE  WorkConserving'
    <3>1. w \in Workers /\ wpc[w] = "asleep"
      BY <2>5 DEF InWorkerPC
    <3>2. OneMoves(wpc, wpc', w) /\ wpc'[w] = "check"
      BY <2>1, <2>5, <3>1, WorkerMoves, "check" \in WorkerPC DEF WorkerPC
    <3>3. Shift(wpc[w], wpc'[w], {"check"}) = 1
      BY <3>1, <3>2 DEF Shift
    <3>4. ThreadsAt(wpc', {"check"}) = ThreadsAt(wpc, {"check"}) + 1
      BY <3>2, <3>3, WorkerCounts
    <3>5. Len(tasks) <= ThreadsAt(wpc, {"check"}) + ThreadsAt(ppc, {"notify"})
      BY <2>5 DEF WorkConserving, IndInv
    <3>6. /\ ThreadsAt(wpc, {"check"}) \in Nat /\ ThreadsAt(ppc, {"notify"}) \in Nat
          /\ tasks' = tasks /\ Len(tasks) \in Nat
      BY <1>3, <2>1, CountTypes, LenProperties DEF TypeOK, NotifyOne, poolVars
    <3> QED
      BY <2>3, <3>4, <3>5, <3>6 DEF WorkConserving
  <2> QED
    BY <1>3, <2>4, <2>5 DEF NotifyOne
<1>4. ASSUME ShutdownBegin PROVE WorkConserving'
  BY <1>4 DEF ShutdownBegin, poolVars, counters, threads, history, WorkConserving, IndInv, InWorkerPC
<1>5. ASSUME ShutdownNotifyAll PROVE WorkConserving'
  BY <1>5 DEF ShutdownNotifyAll, poolVars, counters, threads, history, WorkConserving, InWorkerPC, IndInv, TypeOK
<1>6. ASSUME ShutdownJoin PROVE WorkConserving'
  BY <1>6 DEF ShutdownJoin, poolVars, counters, threads, history, WorkConserving, IndInv, InWorkerPC
<1>7. ASSUME Destroy PROVE WorkConserving'
  BY <1>7 DEF Destroy, poolVars, counters, threads, history, WorkConserving, IndInv, InWorkerPC
<1>8. ASSUME NEW w \in Workers, WorkerSleep(w) PROVE WorkConserving'
  <2>1. Len(tasks') = 0
    BY <1>8 DEF WorkerSleep, poolVars, counters, threads, history
  <2>2. TypeOK'
    BY TypeStep
  <2>3. ThreadsAt(wpc', {"check"}) \in Nat /\ ThreadsAt(ppc', {"notify"}) \in Nat
    BY <2>2, CountTypesNext
  <2> QED
    BY <2>1, <2>3 DEF WorkConserving
<1>9. ASSUME NEW w \in Workers, WorkerExit(w) PROVE WorkConserving'
  <2>1. Len(tasks') = 0
    BY <1>9 DEF WorkerExit, poolVars, counters, threads, history
  <2>2. TypeOK'
    BY TypeStep
  <2>3. ThreadsAt(wpc', {"check"}) \in Nat /\ ThreadsAt(ppc', {"notify"}) \in Nat
    BY <2>2, CountTypesNext
  <2> QED
    BY <2>1, <2>3 DEF WorkConserving
<1>10. ASSUME NEW w \in Workers, WorkerPop(w) PROVE WorkConserving'
  <2>1. TypeOK /\ OneMoves(wpc, wpc', w) /\ wpc'[w] = "popped"
    BY <1>10, WorkerMoves, "popped" \in WorkerPC DEF WorkerPop, IndInv, WorkerPC
  <2>2. Shift(wpc[w], wpc'[w], {"check"}) = -1
    BY <1>10, <2>1 DEF Shift, WorkerPop
  <2>3. ThreadsAt(wpc', {"check"}) = ThreadsAt(wpc, {"check"}) - 1
        /\ ThreadsAt(wpc, {"check"}) \in Nat
    BY <2>1, <2>2, WorkerCounts
  <2>4. SUFFICES ASSUME InWorkerPC({"asleep"})' # {} PROVE WorkConserving'
    BY DEF WorkConserving
  <2>5. InWorkerPC({"asleep"}) # {}
    BY <2>1, <2>4 DEF InWorkerPC, OneMoves, TypeOK
  <2>6. Len(tasks) <= ThreadsAt(wpc, {"check"}) + ThreadsAt(ppc, {"notify"})
    BY <2>5 DEF IndInv, WorkConserving
  <2>7. Len(tasks) \in Nat /\ ThreadsAt(ppc, {"notify"}) \in Nat /\ Len(tasks') = Len(tasks) - 1
    BY <1>10, <2>1, LenProperties, HeadTailProperties, CountTypes DEF TypeOK, WorkerPop
  <2> QED
    BY <1>10, <2>1, <2>3, <2>6, <2>7 DEF WorkerPop, poolVars, counters, threads, history, WorkConserving
<1>11. ASSUME NEW w \in Workers, WorkerCountActive(w) PROVE WorkConserving'
  <2>1. TypeOK /\ OneMoves(wpc, wpc', w) /\ wpc'[w] = "running"
    BY <1>11, WorkerMoves, "running" \in WorkerPC DEF WorkerCountActive, IndInv, WorkerPC
  <2>2. Shift(wpc[w], wpc'[w], {"check"}) = 0
    BY <1>11, <2>1 DEF Shift, WorkerCountActive
  <2>3. ThreadsAt(wpc', {"check"}) = ThreadsAt(wpc, {"check"})
        /\ ThreadsAt(wpc, {"check"}) \in Nat
    BY <2>1, <2>2, WorkerCounts
  <2>4. SUFFICES ASSUME InWorkerPC({"asleep"})' # {} PROVE WorkConserving'
    BY DEF WorkConserving
  <2>5. InWorkerPC({"asleep"}) # {}
    BY <2>1, <2>4 DEF InWorkerPC, OneMoves, TypeOK
  <2>6. Len(tasks) <= ThreadsAt(wpc, {"check"}) + ThreadsAt(ppc, {"notify"})
    BY <2>5 DEF IndInv, WorkConserving
  <2>7. Len(tasks) \in Nat /\ ThreadsAt(ppc, {"notify"}) \in Nat
    BY <2>1, LenProperties, CountTypes DEF TypeOK
  <2> QED
    BY <1>11, <2>1, <2>3, <2>6, <2>7 DEF WorkerCountActive, poolVars, counters, threads, history, WorkConserving, TypeOK
<1>12. ASSUME NEW w \in Workers, TaskEnds(w) PROVE WorkConserving'
  <2>1. TypeOK /\ OneMoves(wpc, wpc', w) /\ wpc'[w] = "ran"
    BY <1>12, WorkerMoves, "ran" \in WorkerPC DEF TaskEnds, IndInv, WorkerPC
  <2>2. Shift(wpc[w], wpc'[w], {"check"}) = 0
    BY <1>12, <2>1 DEF Shift, TaskEnds
  <2>3. ThreadsAt(wpc', {"check"}) = ThreadsAt(wpc, {"check"})
        /\ ThreadsAt(wpc, {"check"}) \in Nat
    BY <2>1, <2>2, WorkerCounts
  <2>4. SUFFICES ASSUME InWorkerPC({"asleep"})' # {} PROVE WorkConserving'
    BY DEF WorkConserving
  <2>5. InWorkerPC({"asleep"}) # {}
    BY <2>1, <2>4 DEF InWorkerPC, OneMoves, TypeOK
  <2>6. Len(tasks) <= ThreadsAt(wpc, {"check"}) + ThreadsAt(ppc, {"notify"})
    BY <2>5 DEF IndInv, WorkConserving
  <2>7. Len(tasks) \in Nat /\ ThreadsAt(ppc, {"notify"}) \in Nat
    BY <2>1, LenProperties, CountTypes DEF TypeOK
  <2> QED
    BY <1>12, <2>1, <2>3, <2>6, <2>7 DEF TaskEnds, poolVars, counters, threads, history, WorkConserving, TypeOK
<1>13. ASSUME NEW w \in Workers, WorkerUncountActive(w) PROVE WorkConserving'
  <2>1. TypeOK /\ OneMoves(wpc, wpc', w) /\ wpc'[w] = "uncounted"
    BY <1>13, WorkerMoves, "uncounted" \in WorkerPC DEF WorkerUncountActive, IndInv, WorkerPC
  <2>2. Shift(wpc[w], wpc'[w], {"check"}) = 0
    BY <1>13, <2>1 DEF Shift, WorkerUncountActive
  <2>3. ThreadsAt(wpc', {"check"}) = ThreadsAt(wpc, {"check"})
        /\ ThreadsAt(wpc, {"check"}) \in Nat
    BY <2>1, <2>2, WorkerCounts
  <2>4. SUFFICES ASSUME InWorkerPC({"asleep"})' # {} PROVE WorkConserving'
    BY DEF WorkConserving
  <2>5. InWorkerPC({"asleep"}) # {}
    BY <2>1, <2>4 DEF InWorkerPC, OneMoves, TypeOK
  <2>6. Len(tasks) <= ThreadsAt(wpc, {"check"}) + ThreadsAt(ppc, {"notify"})
    BY <2>5 DEF IndInv, WorkConserving
  <2>7. Len(tasks) \in Nat /\ ThreadsAt(ppc, {"notify"}) \in Nat
    BY <2>1, LenProperties, CountTypes DEF TypeOK
  <2> QED
    BY <1>13, <2>1, <2>3, <2>6, <2>7 DEF WorkerUncountActive, poolVars, counters, threads, history, WorkConserving, TypeOK
<1>14. ASSUME NEW w \in Workers, WorkerCountCompleted(w) PROVE WorkConserving'
  <2>1. TypeOK /\ OneMoves(wpc, wpc', w) /\ wpc'[w] = "check"
    BY <1>14, WorkerMoves, "check" \in WorkerPC DEF WorkerCountCompleted, IndInv, WorkerPC
  <2>2. Shift(wpc[w], wpc'[w], {"check"}) = 1
    BY <1>14, <2>1 DEF Shift, WorkerCountCompleted
  <2>3. ThreadsAt(wpc', {"check"}) = ThreadsAt(wpc, {"check"}) + 1
        /\ ThreadsAt(wpc, {"check"}) \in Nat
    BY <2>1, <2>2, WorkerCounts
  <2>4. SUFFICES ASSUME InWorkerPC({"asleep"})' # {} PROVE WorkConserving'
    BY DEF WorkConserving
  <2>5. InWorkerPC({"asleep"}) # {}
    BY <2>1, <2>4 DEF InWorkerPC, OneMoves, TypeOK
  <2>6. Len(tasks) <= ThreadsAt(wpc, {"check"}) + ThreadsAt(ppc, {"notify"})
    BY <2>5 DEF IndInv, WorkConserving
  <2>7. Len(tasks) \in Nat /\ ThreadsAt(ppc, {"notify"}) \in Nat
    BY <2>1, LenProperties, CountTypes DEF TypeOK
  <2> QED
    BY <1>14, <2>1, <2>3, <2>6, <2>7 DEF WorkerCountCompleted, poolVars, counters, threads, history, WorkConserving, TypeOK
<1>15. ASSUME NEW w \in Workers, SpuriousWake(w) PROVE WorkConserving'
  <2>1. TypeOK /\ OneMoves(wpc, wpc', w) /\ wpc'[w] = "check"
    BY <1>15, WorkerMoves, "check" \in WorkerPC DEF SpuriousWake, IndInv, WorkerPC
  <2>2. Shift(wpc[w], wpc'[w], {"check"}) = 1
    BY <1>15, <2>1 DEF Shift, SpuriousWake
  <2>3. ThreadsAt(wpc', {"check"}) = ThreadsAt(wpc, {"check"}) + 1
        /\ ThreadsAt(wpc, {"check"}) \in Nat
    BY <2>1, <2>2, WorkerCounts
  <2>4. SUFFICES ASSUME InWorkerPC({"asleep"})' # {} PROVE WorkConserving'
    BY DEF WorkConserving
  <2>5. InWorkerPC({"asleep"}) # {}
    BY <2>1, <2>4 DEF InWorkerPC, OneMoves, TypeOK
  <2>6. Len(tasks) <= ThreadsAt(wpc, {"check"}) + ThreadsAt(ppc, {"notify"})
    BY <2>5 DEF IndInv, WorkConserving
  <2>7. Len(tasks) \in Nat /\ ThreadsAt(ppc, {"notify"}) \in Nat
    BY <2>1, LenProperties, CountTypes DEF TypeOK
  <2> QED
    BY <1>15, <2>1, <2>3, <2>6, <2>7 DEF SpuriousWake, poolVars, counters, threads, history, WorkConserving, TypeOK
<1>16. ASSUME UNCHANGED vars PROVE WorkConserving'
  BY <1>16 DEF vars, poolVars, counters, threads, history, WorkConserving, IndInv, InWorkerPC
<1> QED
  BY <1>1, <1>2, <1>3, <1>4, <1>5, <1>6, <1>7, <1>8, <1>9, <1>10, <1>11, <1>12, <1>13, <1>14, <1>15, <1>16
     DEF Next, WorkerStep, EnqueueStep, OwnerStep, Terminated

(* Facts about the two ends of a queue.                                    *)
LEMMA ElementsOfAppend == ASSUME NEW s \in Seq(Tasks), NEW t \in Tasks
                          PROVE  Elements(Append(s, t)) = Elements(s) \cup {t}
<1>1. /\ Len(Append(s, t)) = Len(s) + 1 /\ Len(s) \in Nat
      /\ \A i \in 1 .. Len(s) : Append(s, t)[i] = s[i]
      /\ Append(s, t)[Len(s) + 1] = t
  BY AppendProperties, LenProperties
<1>2. 1 .. (Len(s) + 1) = (1 .. Len(s)) \cup {Len(s) + 1}
  BY <1>1
<1> QED
  BY <1>1, <1>2 DEF Elements

LEMMA AppendToConcat == ASSUME NEW s \in Seq(Tasks), NEW q \in Seq(Tasks), NEW t \in Tasks
                        PROVE  Append(s \o q, t) = s \o Append(q, t)
OBVIOUS

LEMMA MoveHead == ASSUME NEW s \in Seq(Tasks), NEW q \in Seq(Tasks), q # <<>>
                  PROVE  s \o q = Append(s, Head(q)) \o Tail(q)
OBVIOUS

(* The head of the queue has not been started before.                      *)
LEMMA HeadIsNew ==
    ASSUME NEW s \in Seq(Tasks), NEW q \in Seq(Tasks), q # <<>>, NEW a, a = s \o q,
           \A i, j \in 1 .. Len(a) : a[i] = a[j] => i = j
    PROVE  Head(q) \notin Elements(s)
<1>1. Len(s) \in Nat /\ Len(q) \in Nat /\ Len(q) > 0 /\ Len(a) = Len(s) + Len(q)
  BY ConcatProperties, LenProperties, EmptySeq
<1>2. a[Len(s) + 1] = Head(q) /\ \A i \in 1 .. Len(s) : a[i] = s[i]
  BY <1>1, ConcatProperties
<1> QED
  BY <1>1, <1>2 DEF Elements

(* Tasks keep their order and their identity in every step.                *)
LEMMA FifoStep == IndInv /\ [Next]_vars => FifoExactlyOnce'
<1> SUFFICES ASSUME IndInv, [Next]_vars PROVE FifoExactlyOnce'
  OBVIOUS
<1>1. ASSUME NEW p \in Producers, NEW t \in Tasks, EnqueueReject(p, t) PROVE FifoExactlyOnce'
  <2>1. Holding' = Holding
    BY <1>1 DEF EnqueueReject, poolVars, counters, threads, history, Offer, Holding, InWorkerPC, WithTask, IndInv, TypeOK
  <2>2. UNCHANGED <<tasks, accepted, started, done, wtask>>
    BY <1>1 DEF EnqueueReject, poolVars, counters, threads, history, Offer
  <2> QED
    BY <2>1, <2>2 DEF IndInv, FifoExactlyOnce, Elements
<1>2. ASSUME NEW p \in Producers, NEW t \in Tasks, EnqueueAccept(p, t) PROVE FifoExactlyOnce'
  <2>1. Holding' = Holding
    BY <1>2 DEF EnqueueAccept, poolVars, counters, threads, history, Offer, Holding, InWorkerPC
  <2>2. Append(accepted, t) = started \o Append(tasks, t)
    BY AppendToConcat DEF IndInv, TypeOK, FifoExactlyOnce
  <2> QED
    BY <1>2, <2>1, <2>2 DEF EnqueueAccept, poolVars, counters, threads, history, Offer, IndInv, FifoExactlyOnce, Elements
<1>3. ASSUME NEW p \in Producers, NotifyOne(p) PROVE FifoExactlyOnce'
  <2>1. Holding' = Holding
    BY <1>3 DEF NotifyOne, poolVars, counters, threads, history,
           Holding, InWorkerPC, WithTask, IndInv, TypeOK
  <2>2. UNCHANGED <<tasks, accepted, started, done, wtask>>
    BY <1>3 DEF NotifyOne, poolVars, counters, threads, history
  <2> QED
    BY <2>1, <2>2 DEF IndInv, FifoExactlyOnce, Elements
<1>4. ASSUME ShutdownBegin PROVE FifoExactlyOnce'
  <2>1. Holding' = Holding
    BY <1>4 DEF ShutdownBegin, poolVars, counters, threads, history,
           Holding, InWorkerPC, WithTask, IndInv, TypeOK
  <2>2. UNCHANGED <<tasks, accepted, started, done, wtask>>
    BY <1>4 DEF ShutdownBegin, poolVars, counters, threads, history
  <2> QED
    BY <2>1, <2>2 DEF IndInv, FifoExactlyOnce, Elements
<1>5. ASSUME ShutdownNotifyAll PROVE FifoExactlyOnce'
  <2>1. Holding' = Holding
    BY <1>5 DEF ShutdownNotifyAll, poolVars, counters, threads, history,
           Holding, InWorkerPC, WithTask, IndInv, TypeOK
  <2>2. UNCHANGED <<tasks, accepted, started, done, wtask>>
    BY <1>5 DEF ShutdownNotifyAll, poolVars, counters, threads, history
  <2> QED
    BY <2>1, <2>2 DEF IndInv, FifoExactlyOnce, Elements
<1>6. ASSUME ShutdownJoin PROVE FifoExactlyOnce'
  <2>1. Holding' = Holding
    BY <1>6 DEF ShutdownJoin, poolVars, counters, threads, history,
           Holding, InWorkerPC, WithTask, IndInv, TypeOK
  <2>2. UNCHANGED <<tasks, accepted, started, done, wtask>>
    BY <1>6 DEF ShutdownJoin, poolVars, counters, threads, history
  <2> QED
    BY <2>1, <2>2 DEF IndInv, FifoExactlyOnce, Elements
<1>7. ASSUME Destroy PROVE FifoExactlyOnce'
  <2>1. Holding' = Holding
    BY <1>7 DEF Destroy, poolVars, counters, threads, history,
           Holding, InWorkerPC, WithTask, IndInv, TypeOK
  <2>2. UNCHANGED <<tasks, accepted, started, done, wtask>>
    BY <1>7 DEF Destroy, poolVars, counters, threads, history
  <2> QED
    BY <2>1, <2>2 DEF IndInv, FifoExactlyOnce, Elements
<1>8. ASSUME NEW w \in Workers, WorkerSleep(w) PROVE FifoExactlyOnce'
  <2>1. Holding' = Holding
    BY <1>8 DEF WorkerSleep, poolVars, counters, threads, history,
           Holding, InWorkerPC, WithTask, IndInv, TypeOK
  <2>2. UNCHANGED <<tasks, accepted, started, done, wtask>>
    BY <1>8 DEF WorkerSleep, poolVars, counters, threads, history
  <2> QED
    BY <2>1, <2>2 DEF IndInv, FifoExactlyOnce, Elements
<1>9. ASSUME NEW w \in Workers, WorkerExit(w) PROVE FifoExactlyOnce'
  <2>1. Holding' = Holding
    BY <1>9 DEF WorkerExit, poolVars, counters, threads, history,
           Holding, InWorkerPC, WithTask, IndInv, TypeOK
  <2>2. UNCHANGED <<tasks, accepted, started, done, wtask>>
    BY <1>9 DEF WorkerExit, poolVars, counters, threads, history
  <2> QED
    BY <2>1, <2>2 DEF IndInv, FifoExactlyOnce, Elements
<1>10. ASSUME NEW w \in Workers, WorkerPop(w) PROVE FifoExactlyOnce'
  <2> DEFINE h == Head(tasks)
  <2>1. h \in Tasks /\ tasks \in Seq(Tasks) /\ tasks # <<>> /\ started \in Seq(Tasks)
    BY <1>10, HeadTailProperties DEF WorkerPop, IndInv, TypeOK
  <2>2. Holding' = Holding \cup {w} /\ w \notin Holding /\ w \in Workers
    BY <1>10 DEF WorkerPop, poolVars, counters, threads, history,
           Holding, InWorkerPC, WithTask, IndInv, TypeOK
  <2>3. wtask'[w] = h /\ \A v \in Holding : wtask'[v] = wtask[v]
    BY <1>10, <2>2 DEF WorkerPop, IndInv, TypeOK, Holding, InWorkerPC
  <2>4. h \notin Elements(started)
    BY <2>1, HeadIsNew DEF IndInv, TypeOK, FifoExactlyOnce, TaskIdentity
  <2>5. Elements(started') = Elements(started) \cup {h}
    BY <1>10, <2>1, ElementsOfAppend DEF WorkerPop
  <2>6. accepted' = started' \o tasks'
    BY <1>10, <2>1, MoveHead DEF WorkerPop, IndInv, FifoExactlyOnce
  <2>7. Elements(started) = done \cup {wtask[v] : v \in Holding}
    BY DEF IndInv, FifoExactlyOnce
  <2>8. {wtask'[v] : v \in Holding'} = {wtask[v] : v \in Holding} \cup {h}
    BY <2>2, <2>3
  <2>9. done' = done
    BY <1>10 DEF WorkerPop
  <2>10. \A v, u \in Holding' : wtask'[v] = wtask'[u] => v = u
    BY <2>2, <2>3, <2>4, <2>7 DEF IndInv, FifoExactlyOnce
  <2>11. \A v \in Holding' : wtask'[v] \notin done'
    BY <2>2, <2>3, <2>4, <2>7, <2>9 DEF IndInv, FifoExactlyOnce
  <2> HIDE DEF h
  <2> QED
    BY <2>5, <2>6, <2>7, <2>8, <2>9, <2>10, <2>11 DEF FifoExactlyOnce
<1>11. ASSUME NEW w \in Workers, WorkerCountActive(w) PROVE FifoExactlyOnce'
  <2>1. Holding' = Holding
    BY <1>11 DEF WorkerCountActive, poolVars, counters, threads, history,
           Holding, InWorkerPC, WithTask, IndInv, TypeOK
  <2>2. UNCHANGED <<tasks, accepted, started, done, wtask>>
    BY <1>11 DEF WorkerCountActive, poolVars, counters, threads, history
  <2> QED
    BY <2>1, <2>2 DEF IndInv, FifoExactlyOnce, Elements
<1>12. ASSUME NEW w \in Workers, TaskEnds(w) PROVE FifoExactlyOnce'
  <2>1. Holding' = Holding \ {w} /\ w \in Holding
    BY <1>12 DEF TaskEnds, poolVars, counters, threads, history,
           Holding, InWorkerPC, WithTask, IndInv, TypeOK
  <2>2. \A v \in Holding' : wtask'[v] = wtask[v]
    BY <1>12, <2>1 DEF TaskEnds, IndInv, TypeOK, Holding, InWorkerPC
  <2>3. done' = done \cup {wtask[w]} /\ started' = started /\ tasks' = tasks /\ accepted' = accepted
    BY <1>12 DEF TaskEnds, poolVars, counters, threads, history
  <2>4. done' \cup {wtask'[v] : v \in Holding'} = done \cup {wtask[v] : v \in Holding}
    BY <2>1, <2>2, <2>3
  <2>5. \A v, u \in Holding' : wtask'[v] = wtask'[u] => v = u
    BY <2>1, <2>2 DEF IndInv, FifoExactlyOnce
  <2>6. \A v \in Holding' : wtask'[v] \notin done'
    BY <2>1, <2>2, <2>3 DEF IndInv, FifoExactlyOnce
  <2>7. Elements(started') = Elements(started)
    BY <2>3
  <2> QED
    BY <2>3, <2>4, <2>5, <2>6, <2>7 DEF IndInv, FifoExactlyOnce
<1>13. ASSUME NEW w \in Workers, WorkerUncountActive(w) PROVE FifoExactlyOnce'
  <2>1. Holding' = Holding
    BY <1>13 DEF WorkerUncountActive, poolVars, counters, threads, history,
           Holding, InWorkerPC, WithTask, IndInv, TypeOK
  <2>2. UNCHANGED <<tasks, accepted, started, done, wtask>>
    BY <1>13 DEF WorkerUncountActive, poolVars, counters, threads, history
  <2> QED
    BY <2>1, <2>2 DEF IndInv, FifoExactlyOnce, Elements
<1>14. ASSUME NEW w \in Workers, WorkerCountCompleted(w) PROVE FifoExactlyOnce'
  <2>1. Holding' = Holding
    BY <1>14 DEF WorkerCountCompleted, poolVars, counters, threads, history,
           Holding, InWorkerPC, WithTask, IndInv, TypeOK
  <2>2. UNCHANGED <<tasks, accepted, started, done, wtask>>
    BY <1>14 DEF WorkerCountCompleted, poolVars, counters, threads, history
  <2> QED
    BY <2>1, <2>2 DEF IndInv, FifoExactlyOnce, Elements
<1>15. ASSUME NEW w \in Workers, SpuriousWake(w) PROVE FifoExactlyOnce'
  <2>1. Holding' = Holding
    BY <1>15 DEF SpuriousWake, poolVars, counters, threads, history,
           Holding, InWorkerPC, WithTask, IndInv, TypeOK
  <2>2. UNCHANGED <<tasks, accepted, started, done, wtask>>
    BY <1>15 DEF SpuriousWake, poolVars, counters, threads, history
  <2> QED
    BY <2>1, <2>2 DEF IndInv, FifoExactlyOnce, Elements
<1>16. ASSUME UNCHANGED vars PROVE FifoExactlyOnce'
  <2>1. Holding' = Holding
    BY <1>16 DEF vars, poolVars, counters, threads, history,
           Holding, InWorkerPC, WithTask, IndInv, TypeOK
  <2>2. UNCHANGED <<tasks, accepted, started, done, wtask>>
    BY <1>16 DEF vars, poolVars, counters, threads, history
  <2> QED
    BY <2>1, <2>2 DEF IndInv, FifoExactlyOnce, Elements
<1> QED
  BY <1>1, <1>2, <1>3, <1>4, <1>5, <1>6, <1>7, <1>8, <1>9, <1>10, <1>11, <1>12, <1>13, <1>14, <1>15, <1>16
     DEF Next, WorkerStep, EnqueueStep, OwnerStep, Terminated

(* A new element keeps a sequence free of repetitions.                     *)
LEMMA AppendKeepsDistinct ==
    ASSUME NEW s \in Seq(Tasks), NEW t \in Tasks, t \notin Elements(s),
           \A i, j \in 1 .. Len(s) : s[i] = s[j] => i = j
    PROVE  \A i, j \in 1 .. Len(Append(s, t)) : Append(s, t)[i] = Append(s, t)[j] => i = j
<1>1. /\ Len(Append(s, t)) = Len(s) + 1 /\ Len(s) \in Nat
      /\ \A i \in 1 .. Len(s) : Append(s, t)[i] = s[i]
      /\ Append(s, t)[Len(s) + 1] = t
  BY AppendProperties, LenProperties
<1>2. \A i \in 1 .. Len(s) : s[i] # t
  BY DEF Elements
<1> QED
  BY <1>1, <1>2

(* notify_all moves workers from "asleep" to "check" only.                 *)
LEMMA NotifyAllCounts ==
    ASSUME TypeOK, ShutdownNotifyAll
    PROVE  /\ ThreadsAt(wpc', WithTask) = ThreadsAt(wpc, WithTask)
           /\ ThreadsAt(wpc', InActive) = ThreadsAt(wpc, InActive)
           /\ ThreadsAt(wpc', Unreported) = ThreadsAt(wpc, Unreported)
<1>1. DOMAIN wpc' = Workers /\ DOMAIN wpc = Workers
  BY DEF TypeOK, ShutdownNotifyAll
<1>2. \A w \in Workers : /\ wpc'[w] \in WithTask <=> wpc[w] \in WithTask
                         /\ wpc'[w] \in InActive <=> wpc[w] \in InActive
                         /\ wpc'[w] \in Unreported <=> wpc[w] \in Unreported
  BY DEF TypeOK, ShutdownNotifyAll, WithTask, InActive, Unreported
<1> QED
  BY <1>1, <1>2 DEF ThreadsAt

(* The ended tasks can be counted, and a task ends only once.              *)
LEMMA DoneCount == ASSUME TypeOK PROVE IsFiniteSet(done) /\ Cardinality(done) \in Nat
BY PoolAssumption, FS_Subset, FS_CardinalityType DEF TypeOK, PoolAssumption

LEMMA TaskEndsOnce ==
    ASSUME IndInv, NEW w \in Workers, TaskEnds(w)
    PROVE  Cardinality(done') = Cardinality(done) + 1 /\ Cardinality(done) \in Nat
<1>1. w \in Holding
  BY DEF TaskEnds, Holding, InWorkerPC, WithTask
<1>2. wtask[w] \notin done
  BY <1>1 DEF IndInv, FifoExactlyOnce
<1>3. done' = done \cup {wtask[w]}
  BY DEF TaskEnds
<1> QED
  BY <1>2, <1>3, DoneCount, FS_AddElement DEF IndInv

(* Every step keeps the facts about task identities.                       *)
LEMMA IdentityStep == IndInv /\ [Next]_vars => TaskIdentity'
<1> SUFFICES ASSUME IndInv, [Next]_vars PROVE TaskIdentity'
  OBVIOUS
<1>1. ASSUME NEW p \in Producers, NEW t \in Tasks, EnqueueReject(p, t) PROVE TaskIdentity'
  <2>1. Holding' = Holding
    BY <1>1 DEF EnqueueReject, poolVars, counters, threads, history, Offer, Holding, InWorkerPC, WithTask, IndInv, TypeOK
  <2>2. UNCHANGED <<accepted, started, done, wtask>> /\ offered \subseteq offered'
    BY <1>1 DEF EnqueueReject, poolVars, counters, threads, history, Offer
  <2>3. ThreadsAt(wpc', WithTask) = ThreadsAt(wpc, WithTask)
    BY <1>1 DEF EnqueueReject, poolVars, counters, threads, history, Offer
  <2> QED
    BY <2>1, <2>2, <2>3 DEF IndInv, TaskIdentity, Elements
<1>2. ASSUME NEW p \in Producers, NEW t \in Tasks, EnqueueAccept(p, t) PROVE TaskIdentity'
  <2>1. Holding' = Holding /\ UNCHANGED <<wtask, wpc, started, done>>
    BY <1>2 DEF EnqueueAccept, poolVars, counters, threads, history, Offer, Holding, InWorkerPC
  <2>2. accepted \in Seq(Tasks) /\ t \in Tasks /\ t \notin offered
        /\ accepted' = Append(accepted, t) /\ offered' = offered \cup {t}
    BY <1>2 DEF IndInv, TypeOK, EnqueueAccept, Offer
  <2>3. Elements(accepted') = Elements(accepted) \cup {t}
    BY <2>2, ElementsOfAppend
  <2>4. Elements(accepted') \subseteq offered' /\ t \notin Elements(accepted)
    BY <2>2, <2>3 DEF IndInv, TaskIdentity
  <2>5. \A i, j \in 1 .. Len(accepted') : accepted'[i] = accepted'[j] => i = j
    BY <2>2, <2>4, AppendKeepsDistinct DEF IndInv, TaskIdentity
  <2> QED
    BY <2>1, <2>4, <2>5 DEF IndInv, TaskIdentity
<1>3. ASSUME NEW p \in Producers, NotifyOne(p) PROVE TaskIdentity'
  <2>1. Holding' = Holding
    BY <1>3 DEF NotifyOne, poolVars, counters, threads, history,
           Holding, InWorkerPC, WithTask, IndInv, TypeOK
  <2>2. UNCHANGED <<accepted, started, done, wtask>> /\ offered \subseteq offered'
    BY <1>3 DEF NotifyOne, poolVars, counters, threads, history
  <2>3. ThreadsAt(wpc', WithTask) = ThreadsAt(wpc, WithTask)
    <3>1. CASE wpc' = wpc
      BY <3>1
    <3>2. ASSUME NEW w \in InWorkerPC({"asleep"}), wpc' = [wpc EXCEPT ![w] = "check"]
          PROVE  ThreadsAt(wpc', WithTask) = ThreadsAt(wpc, WithTask)
      <4>1. w \in Workers /\ wpc[w] = "asleep"
        BY <3>2 DEF InWorkerPC
      <4>2. OneMoves(wpc, wpc', w) /\ wpc'[w] = "check"
        BY <3>2, <4>1, WorkerMoves, "check" \in WorkerPC DEF WorkerPC, IndInv
      <4>3. Shift(wpc[w], wpc'[w], WithTask) = 0
        BY <4>1, <4>2 DEF Shift, WithTask
      <4> QED
        BY <4>2, <4>3, WorkerCounts
    <3> QED
      BY <1>3, <3>1, <3>2 DEF NotifyOne
  <2> QED
    BY <2>1, <2>2, <2>3 DEF IndInv, TaskIdentity, Elements
<1>4. ASSUME ShutdownBegin PROVE TaskIdentity'
  <2>1. Holding' = Holding
    BY <1>4 DEF ShutdownBegin, poolVars, counters, threads, history,
           Holding, InWorkerPC, WithTask, IndInv, TypeOK
  <2>2. UNCHANGED <<accepted, started, done, wtask>> /\ offered \subseteq offered'
    BY <1>4 DEF ShutdownBegin, poolVars, counters, threads, history
  <2>3. ThreadsAt(wpc', WithTask) = ThreadsAt(wpc, WithTask)
    BY <1>4 DEF ShutdownBegin, poolVars, counters, threads, history
  <2> QED
    BY <2>1, <2>2, <2>3 DEF IndInv, TaskIdentity, Elements
<1>5. ASSUME ShutdownNotifyAll PROVE TaskIdentity'
  <2>1. Holding' = Holding
    BY <1>5 DEF ShutdownNotifyAll, poolVars, counters, threads, history,
           Holding, InWorkerPC, WithTask, IndInv, TypeOK
  <2>2. UNCHANGED <<accepted, started, done, wtask>> /\ offered \subseteq offered'
    BY <1>5 DEF ShutdownNotifyAll, poolVars, counters, threads, history
  <2>3. ThreadsAt(wpc', WithTask) = ThreadsAt(wpc, WithTask)
    BY <1>5, NotifyAllCounts DEF IndInv, ShutdownNotifyAll
  <2> QED
    BY <2>1, <2>2, <2>3 DEF IndInv, TaskIdentity, Elements
<1>6. ASSUME ShutdownJoin PROVE TaskIdentity'
  <2>1. Holding' = Holding
    BY <1>6 DEF ShutdownJoin, poolVars, counters, threads, history,
           Holding, InWorkerPC, WithTask, IndInv, TypeOK
  <2>2. UNCHANGED <<accepted, started, done, wtask>> /\ offered \subseteq offered'
    BY <1>6 DEF ShutdownJoin, poolVars, counters, threads, history
  <2>3. ThreadsAt(wpc', WithTask) = ThreadsAt(wpc, WithTask)
    BY <1>6 DEF ShutdownJoin, poolVars, counters, threads, history
  <2> QED
    BY <2>1, <2>2, <2>3 DEF IndInv, TaskIdentity, Elements
<1>7. ASSUME Destroy PROVE TaskIdentity'
  <2>1. Holding' = Holding
    BY <1>7 DEF Destroy, poolVars, counters, threads, history,
           Holding, InWorkerPC, WithTask, IndInv, TypeOK
  <2>2. UNCHANGED <<accepted, started, done, wtask>> /\ offered \subseteq offered'
    BY <1>7 DEF Destroy, poolVars, counters, threads, history
  <2>3. ThreadsAt(wpc', WithTask) = ThreadsAt(wpc, WithTask)
    BY <1>7 DEF Destroy, poolVars, counters, threads, history
  <2> QED
    BY <2>1, <2>2, <2>3 DEF IndInv, TaskIdentity, Elements
<1>8. ASSUME NEW w \in Workers, WorkerSleep(w) PROVE TaskIdentity'
  <2>1. Holding' = Holding
    BY <1>8 DEF WorkerSleep, poolVars, counters, threads, history,
           Holding, InWorkerPC, WithTask, IndInv, TypeOK
  <2>2. UNCHANGED <<accepted, started, done, wtask>> /\ offered \subseteq offered'
    BY <1>8 DEF WorkerSleep, poolVars, counters, threads, history
  <2>3. ThreadsAt(wpc', WithTask) = ThreadsAt(wpc, WithTask)
    <3>1. OneMoves(wpc, wpc', w) /\ wpc'[w] = "asleep"
      BY <1>8, WorkerMoves, "asleep" \in WorkerPC DEF WorkerSleep, IndInv, WorkerPC
    <3>2. Shift(wpc[w], wpc'[w], WithTask) = 0
      BY <1>8, <3>1 DEF Shift, WithTask, WorkerSleep
    <3> QED
      BY <3>1, <3>2, WorkerCounts
  <2> QED
    BY <2>1, <2>2, <2>3 DEF IndInv, TaskIdentity, Elements
<1>9. ASSUME NEW w \in Workers, WorkerExit(w) PROVE TaskIdentity'
  <2>1. Holding' = Holding
    BY <1>9 DEF WorkerExit, poolVars, counters, threads, history,
           Holding, InWorkerPC, WithTask, IndInv, TypeOK
  <2>2. UNCHANGED <<accepted, started, done, wtask>> /\ offered \subseteq offered'
    BY <1>9 DEF WorkerExit, poolVars, counters, threads, history
  <2>3. ThreadsAt(wpc', WithTask) = ThreadsAt(wpc, WithTask)
    <3>1. OneMoves(wpc, wpc', w) /\ wpc'[w] = "exited"
      BY <1>9, WorkerMoves, "exited" \in WorkerPC DEF WorkerExit, IndInv, WorkerPC
    <3>2. Shift(wpc[w], wpc'[w], WithTask) = 0
      BY <1>9, <3>1 DEF Shift, WithTask, WorkerExit
    <3> QED
      BY <3>1, <3>2, WorkerCounts
  <2> QED
    BY <2>1, <2>2, <2>3 DEF IndInv, TaskIdentity, Elements
<1>10. ASSUME NEW w \in Workers, WorkerPop(w) PROVE TaskIdentity'
  <2>1. TypeOK /\ OneMoves(wpc, wpc', w) /\ wpc'[w] = "popped"
    BY <1>10, WorkerMoves, "popped" \in WorkerPC DEF WorkerPop, IndInv, WorkerPC
  <2>2. Shift(wpc[w], wpc'[w], WithTask) = 1
    BY <1>10, <2>1 DEF Shift, WithTask, WorkerPop
  <2>3. ThreadsAt(wpc', WithTask) = ThreadsAt(wpc, WithTask) + 1 /\ ThreadsAt(wpc, WithTask) \in Nat
    BY <2>1, <2>2, WorkerCounts
  <2>4. Head(tasks) \in Tasks /\ started \in Seq(Tasks)
    BY <1>10, HeadTailProperties DEF WorkerPop, IndInv, TypeOK
  <2>5. Len(started') = Len(started) + 1
    BY <1>10, <2>4, AppendProperties DEF WorkerPop
  <2>6. \A v \in Holding' : wtask'[v] \in Tasks
    BY <1>10, <2>4 DEF WorkerPop, poolVars, counters, threads, history,
           Holding, InWorkerPC, WithTask, IndInv, TypeOK, TaskIdentity
  <2>7. UNCHANGED <<accepted, offered, done>>
    BY <1>10 DEF WorkerPop, poolVars, counters, threads, history
  <2>8. Cardinality(done) \in Nat
    BY <2>1, DoneCount
  <2>9. Len(started') = Cardinality(done') + ThreadsAt(wpc', WithTask)
    BY <2>3, <2>5, <2>7, <2>8 DEF IndInv, TaskIdentity
  <2> QED
    BY <2>6, <2>7, <2>9 DEF IndInv, TaskIdentity, Elements
<1>11. ASSUME NEW w \in Workers, WorkerCountActive(w) PROVE TaskIdentity'
  <2>1. Holding' = Holding
    BY <1>11 DEF WorkerCountActive, poolVars, counters, threads, history,
           Holding, InWorkerPC, WithTask, IndInv, TypeOK
  <2>2. UNCHANGED <<accepted, started, done, wtask>> /\ offered \subseteq offered'
    BY <1>11 DEF WorkerCountActive, poolVars, counters, threads, history
  <2>3. ThreadsAt(wpc', WithTask) = ThreadsAt(wpc, WithTask)
    <3>1. OneMoves(wpc, wpc', w) /\ wpc'[w] = "running"
      BY <1>11, WorkerMoves, "running" \in WorkerPC DEF WorkerCountActive, IndInv, WorkerPC
    <3>2. Shift(wpc[w], wpc'[w], WithTask) = 0
      BY <1>11, <3>1 DEF Shift, WithTask, WorkerCountActive
    <3> QED
      BY <3>1, <3>2, WorkerCounts
  <2> QED
    BY <2>1, <2>2, <2>3 DEF IndInv, TaskIdentity, Elements
<1>12. ASSUME NEW w \in Workers, TaskEnds(w) PROVE TaskIdentity'
  <2>1. TypeOK /\ OneMoves(wpc, wpc', w) /\ wpc'[w] = "ran"
    BY <1>12, WorkerMoves, "ran" \in WorkerPC DEF TaskEnds, IndInv, WorkerPC
  <2>2. Shift(wpc[w], wpc'[w], WithTask) = -1
    BY <1>12, <2>1 DEF Shift, WithTask, TaskEnds
  <2>3. ThreadsAt(wpc', WithTask) = ThreadsAt(wpc, WithTask) - 1 /\ ThreadsAt(wpc, WithTask) \in Nat
    BY <2>1, <2>2, WorkerCounts
  <2>4. Cardinality(done') = Cardinality(done) + 1 /\ Cardinality(done) \in Nat
    BY <1>12, <2>1, TaskEndsOnce
  <2>5. \A v \in Holding' : wtask'[v] \in Tasks
    BY <1>12 DEF TaskEnds, poolVars, counters, threads, history,
           Holding, InWorkerPC, WithTask, IndInv, TypeOK, TaskIdentity
  <2>6. UNCHANGED <<accepted, offered, started>>
    BY <1>12 DEF TaskEnds, poolVars, counters, threads, history
  <2>7. Len(started') = Cardinality(done') + ThreadsAt(wpc', WithTask)
    BY <2>3, <2>4, <2>6 DEF IndInv, TaskIdentity
  <2> QED
    BY <2>5, <2>6, <2>7 DEF IndInv, TaskIdentity, Elements
<1>13. ASSUME NEW w \in Workers, WorkerUncountActive(w) PROVE TaskIdentity'
  <2>1. Holding' = Holding
    BY <1>13 DEF WorkerUncountActive, poolVars, counters, threads, history,
           Holding, InWorkerPC, WithTask, IndInv, TypeOK
  <2>2. UNCHANGED <<accepted, started, done, wtask>> /\ offered \subseteq offered'
    BY <1>13 DEF WorkerUncountActive, poolVars, counters, threads, history
  <2>3. ThreadsAt(wpc', WithTask) = ThreadsAt(wpc, WithTask)
    <3>1. OneMoves(wpc, wpc', w) /\ wpc'[w] = "uncounted"
      BY <1>13, WorkerMoves, "uncounted" \in WorkerPC DEF WorkerUncountActive, IndInv, WorkerPC
    <3>2. Shift(wpc[w], wpc'[w], WithTask) = 0
      BY <1>13, <3>1 DEF Shift, WithTask, WorkerUncountActive
    <3> QED
      BY <3>1, <3>2, WorkerCounts
  <2> QED
    BY <2>1, <2>2, <2>3 DEF IndInv, TaskIdentity, Elements
<1>14. ASSUME NEW w \in Workers, WorkerCountCompleted(w) PROVE TaskIdentity'
  <2>1. Holding' = Holding
    BY <1>14 DEF WorkerCountCompleted, poolVars, counters, threads, history,
           Holding, InWorkerPC, WithTask, IndInv, TypeOK
  <2>2. UNCHANGED <<accepted, started, done, wtask>> /\ offered \subseteq offered'
    BY <1>14 DEF WorkerCountCompleted, poolVars, counters, threads, history
  <2>3. ThreadsAt(wpc', WithTask) = ThreadsAt(wpc, WithTask)
    <3>1. OneMoves(wpc, wpc', w) /\ wpc'[w] = "check"
      BY <1>14, WorkerMoves, "check" \in WorkerPC DEF WorkerCountCompleted, IndInv, WorkerPC
    <3>2. Shift(wpc[w], wpc'[w], WithTask) = 0
      BY <1>14, <3>1 DEF Shift, WithTask, WorkerCountCompleted
    <3> QED
      BY <3>1, <3>2, WorkerCounts
  <2> QED
    BY <2>1, <2>2, <2>3 DEF IndInv, TaskIdentity, Elements
<1>15. ASSUME NEW w \in Workers, SpuriousWake(w) PROVE TaskIdentity'
  <2>1. Holding' = Holding
    BY <1>15 DEF SpuriousWake, poolVars, counters, threads, history,
           Holding, InWorkerPC, WithTask, IndInv, TypeOK
  <2>2. UNCHANGED <<accepted, started, done, wtask>> /\ offered \subseteq offered'
    BY <1>15 DEF SpuriousWake, poolVars, counters, threads, history
  <2>3. ThreadsAt(wpc', WithTask) = ThreadsAt(wpc, WithTask)
    <3>1. OneMoves(wpc, wpc', w) /\ wpc'[w] = "check"
      BY <1>15, WorkerMoves, "check" \in WorkerPC DEF SpuriousWake, IndInv, WorkerPC
    <3>2. Shift(wpc[w], wpc'[w], WithTask) = 0
      BY <1>15, <3>1 DEF Shift, WithTask, SpuriousWake
    <3> QED
      BY <3>1, <3>2, WorkerCounts
  <2> QED
    BY <2>1, <2>2, <2>3 DEF IndInv, TaskIdentity, Elements
<1>16. ASSUME UNCHANGED vars PROVE TaskIdentity'
  <2>1. Holding' = Holding
    BY <1>16 DEF vars, poolVars, counters, threads, history,
           Holding, InWorkerPC, WithTask, IndInv, TypeOK
  <2>2. UNCHANGED <<accepted, started, done, wtask>> /\ offered \subseteq offered'
    BY <1>16 DEF vars, poolVars, counters, threads, history
  <2>3. ThreadsAt(wpc', WithTask) = ThreadsAt(wpc, WithTask)
    BY <1>16 DEF vars, poolVars, counters, threads, history
  <2> QED
    BY <2>1, <2>2, <2>3 DEF IndInv, TaskIdentity, Elements
<1> QED
  BY <1>1, <1>2, <1>3, <1>4, <1>5, <1>6, <1>7, <1>8, <1>9, <1>10, <1>11, <1>12, <1>13, <1>14, <1>15, <1>16
     DEF Next, WorkerStep, EnqueueStep, OwnerStep, Terminated

(* The counters follow the threads in every step.                          *)
LEMMA CountersStep == IndInv /\ [Next]_vars => CountersAddUp'
<1> SUFFICES ASSUME IndInv, [Next]_vars PROVE CountersAddUp'
  OBVIOUS
<1>1. ASSUME NEW p \in Producers, NEW t \in Tasks, EnqueueReject(p, t) PROVE CountersAddUp'
  <2>1. IsFiniteSet(offered) /\ t \notin offered /\ offered' = offered \cup {t}
    BY <1>1, PoolAssumption, FS_Subset DEF PoolAssumption, EnqueueReject, poolVars, counters, threads, history, Offer, IndInv, TypeOK
  <2>2. Cardinality(offered') = Cardinality(offered) + 1 /\ Cardinality(offered) \in Nat
    BY <2>1, FS_AddElement, FS_CardinalityType
  <2> QED
    BY <1>1, <2>2, LenProperties DEF EnqueueReject, poolVars, counters, threads, history, Offer, IndInv, CountersAddUp, TypeOK
<1>2. ASSUME NEW p \in Producers, NEW t \in Tasks, EnqueueAccept(p, t) PROVE CountersAddUp'
  <2>1. IsFiniteSet(offered) /\ t \notin offered /\ offered' = offered \cup {t}
    BY <1>2, PoolAssumption, FS_Subset DEF PoolAssumption, EnqueueAccept, poolVars, counters, threads, history, Offer, IndInv, TypeOK
  <2>2. Cardinality(offered') = Cardinality(offered) + 1 /\ Cardinality(offered) \in Nat
    BY <2>1, FS_AddElement, FS_CardinalityType
  <2>3. Len(accepted') = Len(accepted) + 1 /\ Len(accepted) \in Nat
    BY <1>2, AppendProperties, LenProperties DEF EnqueueAccept, IndInv, TypeOK
  <2> QED
    BY <1>2, <2>2, <2>3 DEF EnqueueAccept, poolVars, counters, threads, history, Offer, IndInv, CountersAddUp, TypeOK
<1>3. ASSUME NEW p \in Producers, NotifyOne(p) PROVE CountersAddUp'
  <2>1. ThreadsAt(wpc', InActive) = ThreadsAt(wpc, InActive)
        /\ ThreadsAt(wpc', Unreported) = ThreadsAt(wpc, Unreported)
    <3>1. CASE wpc' = wpc
      BY <3>1
    <3>2. ASSUME NEW w \in InWorkerPC({"asleep"}), wpc' = [wpc EXCEPT ![w] = "check"]
          PROVE  ThreadsAt(wpc', InActive) = ThreadsAt(wpc, InActive)
                 /\ ThreadsAt(wpc', Unreported) = ThreadsAt(wpc, Unreported)
      <4>1. w \in Workers /\ wpc[w] = "asleep"
        BY <3>2 DEF InWorkerPC
      <4>2. OneMoves(wpc, wpc', w) /\ wpc'[w] = "check"
        BY <3>2, <4>1, WorkerMoves, "check" \in WorkerPC DEF WorkerPC, IndInv
      <4>3. Shift(wpc[w], wpc'[w], InActive) = 0 /\ Shift(wpc[w], wpc'[w], Unreported) = 0
        BY <4>1, <4>2 DEF Shift, InActive, Unreported
      <4> QED
        BY <4>2, <4>3, WorkerCounts
    <3> QED
      BY <1>3, <3>1, <3>2 DEF NotifyOne
  <2> QED
    BY <1>3, <2>1 DEF NotifyOne, poolVars, counters, threads, history, IndInv, CountersAddUp
<1>4. ASSUME ShutdownBegin PROVE CountersAddUp'
  BY <1>4 DEF ShutdownBegin, poolVars, counters, threads, history, IndInv, CountersAddUp
<1>5. ASSUME ShutdownNotifyAll PROVE CountersAddUp'
  BY <1>5, NotifyAllCounts DEF ShutdownNotifyAll, poolVars, counters, threads, history, IndInv, CountersAddUp
<1>6. ASSUME ShutdownJoin PROVE CountersAddUp'
  BY <1>6 DEF ShutdownJoin, poolVars, counters, threads, history, IndInv, CountersAddUp
<1>7. ASSUME Destroy PROVE CountersAddUp'
  BY <1>7 DEF Destroy, poolVars, counters, threads, history, IndInv, CountersAddUp
<1>8. ASSUME NEW w \in Workers, WorkerSleep(w) PROVE CountersAddUp'
  <2>1. TypeOK /\ OneMoves(wpc, wpc', w) /\ wpc'[w] = "asleep"
    BY <1>8, WorkerMoves, "asleep" \in WorkerPC DEF WorkerSleep, IndInv, WorkerPC
  <2>2. Shift(wpc[w], wpc'[w], InActive) = 0 /\ Shift(wpc[w], wpc'[w], Unreported) = 0
    BY <1>8, <2>1 DEF Shift, InActive, Unreported, WorkerSleep
  <2>3. /\ ThreadsAt(wpc', InActive) = ThreadsAt(wpc, InActive)
        /\ ThreadsAt(wpc', Unreported) = ThreadsAt(wpc, Unreported)
        /\ ThreadsAt(wpc, InActive) \in Nat /\ ThreadsAt(wpc, Unreported) \in Nat
    BY <2>1, <2>2, WorkerCounts
  <2>4. done' = done /\ offered' = offered /\ accepted' = accepted /\ Cardinality(done) \in Nat
    BY <1>8, <2>1, DoneCount DEF WorkerSleep, poolVars, counters, threads, history
  <2> QED
    BY <1>8, <2>1, <2>3, <2>4 DEF WorkerSleep, poolVars, counters, threads, history, IndInv, CountersAddUp, TypeOK
<1>9. ASSUME NEW w \in Workers, WorkerExit(w) PROVE CountersAddUp'
  <2>1. TypeOK /\ OneMoves(wpc, wpc', w) /\ wpc'[w] = "exited"
    BY <1>9, WorkerMoves, "exited" \in WorkerPC DEF WorkerExit, IndInv, WorkerPC
  <2>2. Shift(wpc[w], wpc'[w], InActive) = 0 /\ Shift(wpc[w], wpc'[w], Unreported) = 0
    BY <1>9, <2>1 DEF Shift, InActive, Unreported, WorkerExit
  <2>3. /\ ThreadsAt(wpc', InActive) = ThreadsAt(wpc, InActive)
        /\ ThreadsAt(wpc', Unreported) = ThreadsAt(wpc, Unreported)
        /\ ThreadsAt(wpc, InActive) \in Nat /\ ThreadsAt(wpc, Unreported) \in Nat
    BY <2>1, <2>2, WorkerCounts
  <2>4. done' = done /\ offered' = offered /\ accepted' = accepted /\ Cardinality(done) \in Nat
    BY <1>9, <2>1, DoneCount DEF WorkerExit, poolVars, counters, threads, history
  <2> QED
    BY <1>9, <2>1, <2>3, <2>4 DEF WorkerExit, poolVars, counters, threads, history, IndInv, CountersAddUp, TypeOK
<1>10. ASSUME NEW w \in Workers, WorkerPop(w) PROVE CountersAddUp'
  <2>1. TypeOK /\ OneMoves(wpc, wpc', w) /\ wpc'[w] = "popped"
    BY <1>10, WorkerMoves, "popped" \in WorkerPC DEF WorkerPop, IndInv, WorkerPC
  <2>2. Shift(wpc[w], wpc'[w], InActive) = 0 /\ Shift(wpc[w], wpc'[w], Unreported) = 0
    BY <1>10, <2>1 DEF Shift, InActive, Unreported, WorkerPop
  <2>3. /\ ThreadsAt(wpc', InActive) = ThreadsAt(wpc, InActive)
        /\ ThreadsAt(wpc', Unreported) = ThreadsAt(wpc, Unreported)
        /\ ThreadsAt(wpc, InActive) \in Nat /\ ThreadsAt(wpc, Unreported) \in Nat
    BY <2>1, <2>2, WorkerCounts
  <2>4. done' = done /\ offered' = offered /\ accepted' = accepted /\ Cardinality(done) \in Nat
    BY <1>10, <2>1, DoneCount DEF WorkerPop, poolVars, counters, threads, history
  <2> QED
    BY <1>10, <2>1, <2>3, <2>4 DEF WorkerPop, poolVars, counters, threads, history, IndInv, CountersAddUp, TypeOK
<1>11. ASSUME NEW w \in Workers, WorkerCountActive(w) PROVE CountersAddUp'
  <2>1. TypeOK /\ OneMoves(wpc, wpc', w) /\ wpc'[w] = "running"
    BY <1>11, WorkerMoves, "running" \in WorkerPC DEF WorkerCountActive, IndInv, WorkerPC
  <2>2. Shift(wpc[w], wpc'[w], InActive) = 1 /\ Shift(wpc[w], wpc'[w], Unreported) = 0
    BY <1>11, <2>1 DEF Shift, InActive, Unreported, WorkerCountActive
  <2>3. /\ ThreadsAt(wpc', InActive) = ThreadsAt(wpc, InActive) + 1
        /\ ThreadsAt(wpc', Unreported) = ThreadsAt(wpc, Unreported)
        /\ ThreadsAt(wpc, InActive) \in Nat /\ ThreadsAt(wpc, Unreported) \in Nat
    BY <2>1, <2>2, WorkerCounts
  <2>4. done' = done /\ offered' = offered /\ accepted' = accepted /\ Cardinality(done) \in Nat
    BY <1>11, <2>1, DoneCount DEF WorkerCountActive, poolVars, counters, threads, history
  <2> QED
    BY <1>11, <2>1, <2>3, <2>4 DEF WorkerCountActive, poolVars, counters, threads, history, IndInv, CountersAddUp, TypeOK
<1>12. ASSUME NEW w \in Workers, TaskEnds(w) PROVE CountersAddUp'
  <2>1. TypeOK /\ OneMoves(wpc, wpc', w) /\ wpc'[w] = "ran"
    BY <1>12, WorkerMoves, "ran" \in WorkerPC DEF TaskEnds, IndInv, WorkerPC
  <2>2. Shift(wpc[w], wpc'[w], InActive) = 0 /\ Shift(wpc[w], wpc'[w], Unreported) = 1
    BY <1>12, <2>1 DEF Shift, InActive, Unreported, TaskEnds
  <2>3. /\ ThreadsAt(wpc', InActive) = ThreadsAt(wpc, InActive)
        /\ ThreadsAt(wpc', Unreported) = ThreadsAt(wpc, Unreported) + 1
        /\ ThreadsAt(wpc, InActive) \in Nat /\ ThreadsAt(wpc, Unreported) \in Nat
    BY <2>1, <2>2, WorkerCounts
  <2>4. Cardinality(done') = Cardinality(done) + 1 /\ Cardinality(done) \in Nat
    BY <1>12, TaskEndsOnce
  <2> QED
    BY <1>12, <2>1, <2>3, <2>4 DEF TaskEnds, poolVars, counters, threads, history, IndInv, CountersAddUp, TypeOK
<1>13. ASSUME NEW w \in Workers, WorkerUncountActive(w) PROVE CountersAddUp'
  <2>1. TypeOK /\ OneMoves(wpc, wpc', w) /\ wpc'[w] = "uncounted"
    BY <1>13, WorkerMoves, "uncounted" \in WorkerPC DEF WorkerUncountActive, IndInv, WorkerPC
  <2>2. Shift(wpc[w], wpc'[w], InActive) = -1 /\ Shift(wpc[w], wpc'[w], Unreported) = 0
    BY <1>13, <2>1 DEF Shift, InActive, Unreported, WorkerUncountActive
  <2>3. /\ ThreadsAt(wpc', InActive) = ThreadsAt(wpc, InActive) - 1
        /\ ThreadsAt(wpc', Unreported) = ThreadsAt(wpc, Unreported)
        /\ ThreadsAt(wpc, InActive) \in Nat /\ ThreadsAt(wpc, Unreported) \in Nat
    BY <2>1, <2>2, WorkerCounts
  <2>4. done' = done /\ offered' = offered /\ accepted' = accepted /\ Cardinality(done) \in Nat
    BY <1>13, <2>1, DoneCount DEF WorkerUncountActive, poolVars, counters, threads, history
  <2> QED
    BY <1>13, <2>1, <2>3, <2>4 DEF WorkerUncountActive, poolVars, counters, threads, history, IndInv, CountersAddUp, TypeOK
<1>14. ASSUME NEW w \in Workers, WorkerCountCompleted(w) PROVE CountersAddUp'
  <2>1. TypeOK /\ OneMoves(wpc, wpc', w) /\ wpc'[w] = "check"
    BY <1>14, WorkerMoves, "check" \in WorkerPC DEF WorkerCountCompleted, IndInv, WorkerPC
  <2>2. Shift(wpc[w], wpc'[w], InActive) = 0 /\ Shift(wpc[w], wpc'[w], Unreported) = -1
    BY <1>14, <2>1 DEF Shift, InActive, Unreported, WorkerCountCompleted
  <2>3. /\ ThreadsAt(wpc', InActive) = ThreadsAt(wpc, InActive)
        /\ ThreadsAt(wpc', Unreported) = ThreadsAt(wpc, Unreported) - 1
        /\ ThreadsAt(wpc, InActive) \in Nat /\ ThreadsAt(wpc, Unreported) \in Nat
    BY <2>1, <2>2, WorkerCounts
  <2>4. done' = done /\ offered' = offered /\ accepted' = accepted /\ Cardinality(done) \in Nat
    BY <1>14, <2>1, DoneCount DEF WorkerCountCompleted, poolVars, counters, threads, history
  <2> QED
    BY <1>14, <2>1, <2>3, <2>4 DEF WorkerCountCompleted, poolVars, counters, threads, history, IndInv, CountersAddUp, TypeOK
<1>15. ASSUME NEW w \in Workers, SpuriousWake(w) PROVE CountersAddUp'
  <2>1. TypeOK /\ OneMoves(wpc, wpc', w) /\ wpc'[w] = "check"
    BY <1>15, WorkerMoves, "check" \in WorkerPC DEF SpuriousWake, IndInv, WorkerPC
  <2>2. Shift(wpc[w], wpc'[w], InActive) = 0 /\ Shift(wpc[w], wpc'[w], Unreported) = 0
    BY <1>15, <2>1 DEF Shift, InActive, Unreported, SpuriousWake
  <2>3. /\ ThreadsAt(wpc', InActive) = ThreadsAt(wpc, InActive)
        /\ ThreadsAt(wpc', Unreported) = ThreadsAt(wpc, Unreported)
        /\ ThreadsAt(wpc, InActive) \in Nat /\ ThreadsAt(wpc, Unreported) \in Nat
    BY <2>1, <2>2, WorkerCounts
  <2>4. done' = done /\ offered' = offered /\ accepted' = accepted /\ Cardinality(done) \in Nat
    BY <1>15, <2>1, DoneCount DEF SpuriousWake, poolVars, counters, threads, history
  <2> QED
    BY <1>15, <2>1, <2>3, <2>4 DEF SpuriousWake, poolVars, counters, threads, history, IndInv, CountersAddUp, TypeOK
<1>16. ASSUME UNCHANGED vars PROVE CountersAddUp'
  BY <1>16 DEF vars, poolVars, counters, threads, history, IndInv, CountersAddUp
<1> QED
  BY <1>1, <1>2, <1>3, <1>4, <1>5, <1>6, <1>7, <1>8, <1>9, <1>10, <1>11, <1>12, <1>13, <1>14, <1>15, <1>16
     DEF Next, WorkerStep, EnqueueStep, OwnerStep, Terminated

(* The order of shutdown is kept in every step.                            *)
LEMMA ShutdownStep == IndInv /\ [Next]_vars => ShutdownOrder'
<1> SUFFICES ASSUME IndInv, [Next]_vars PROVE ShutdownOrder'
  OBVIOUS
<1>1. ASSUME NEW p \in Producers, NEW t \in Tasks, EnqueueReject(p, t) PROVE ShutdownOrder'
  BY <1>1 DEF EnqueueReject, poolVars, counters, threads, history, Offer, IndInv, TypeOK, ShutdownOrder, InWorkerPC, WorkerPC, OwnerPC
<1>2. ASSUME NEW p \in Producers, NEW t \in Tasks, EnqueueAccept(p, t) PROVE ShutdownOrder'
  <2>1. ~stopping /\ UNCHANGED <<stopping, wpc, opc>>
    BY <1>2 DEF EnqueueAccept, poolVars, counters, threads, history, Offer, Rejects
  <2> QED
    BY <2>1 DEF IndInv, ShutdownOrder, InWorkerPC
<1>3. ASSUME NEW p \in Producers, NotifyOne(p) PROVE ShutdownOrder'
  BY <1>3 DEF NotifyOne, poolVars, counters, threads, history,
         IndInv, TypeOK, ShutdownOrder, InWorkerPC, WorkerPC, OwnerPC
<1>4. ASSUME ShutdownBegin PROVE ShutdownOrder'
  BY <1>4 DEF ShutdownBegin, poolVars, counters, threads, history,
         IndInv, TypeOK, ShutdownOrder, InWorkerPC, WorkerPC, OwnerPC
<1>5. ASSUME ShutdownNotifyAll PROVE ShutdownOrder'
  BY <1>5 DEF ShutdownNotifyAll, poolVars, counters, threads, history,
         IndInv, TypeOK, ShutdownOrder, InWorkerPC, WorkerPC, OwnerPC
<1>6. ASSUME ShutdownJoin PROVE ShutdownOrder'
  BY <1>6 DEF ShutdownJoin, poolVars, counters, threads, history,
         IndInv, TypeOK, ShutdownOrder, InWorkerPC, WorkerPC, OwnerPC
<1>7. ASSUME Destroy PROVE ShutdownOrder'
  BY <1>7 DEF Destroy, poolVars, counters, threads, history,
         IndInv, TypeOK, ShutdownOrder, InWorkerPC, WorkerPC, OwnerPC
<1>8. ASSUME NEW w \in Workers, WorkerSleep(w) PROVE ShutdownOrder'
  BY <1>8 DEF WorkerSleep, poolVars, counters, threads, history,
         IndInv, TypeOK, ShutdownOrder, InWorkerPC, WorkerPC, OwnerPC
<1>9. ASSUME NEW w \in Workers, WorkerExit(w) PROVE ShutdownOrder'
  BY <1>9 DEF WorkerExit, poolVars, counters, threads, history,
         IndInv, TypeOK, ShutdownOrder, InWorkerPC, WorkerPC, OwnerPC
<1>10. ASSUME NEW w \in Workers, WorkerPop(w) PROVE ShutdownOrder'
  BY <1>10 DEF WorkerPop, poolVars, counters, threads, history,
         IndInv, TypeOK, ShutdownOrder, InWorkerPC, WorkerPC, OwnerPC
<1>11. ASSUME NEW w \in Workers, WorkerCountActive(w) PROVE ShutdownOrder'
  BY <1>11 DEF WorkerCountActive, poolVars, counters, threads, history,
         IndInv, TypeOK, ShutdownOrder, InWorkerPC, WorkerPC, OwnerPC
<1>12. ASSUME NEW w \in Workers, TaskEnds(w) PROVE ShutdownOrder'
  BY <1>12 DEF TaskEnds, poolVars, counters, threads, history,
         IndInv, TypeOK, ShutdownOrder, InWorkerPC, WorkerPC, OwnerPC
<1>13. ASSUME NEW w \in Workers, WorkerUncountActive(w) PROVE ShutdownOrder'
  BY <1>13 DEF WorkerUncountActive, poolVars, counters, threads, history,
         IndInv, TypeOK, ShutdownOrder, InWorkerPC, WorkerPC, OwnerPC
<1>14. ASSUME NEW w \in Workers, WorkerCountCompleted(w) PROVE ShutdownOrder'
  BY <1>14 DEF WorkerCountCompleted, poolVars, counters, threads, history,
         IndInv, TypeOK, ShutdownOrder, InWorkerPC, WorkerPC, OwnerPC
<1>15. ASSUME NEW w \in Workers, SpuriousWake(w) PROVE ShutdownOrder'
  BY <1>15 DEF SpuriousWake, poolVars, counters, threads, history,
         IndInv, TypeOK, ShutdownOrder, InWorkerPC, WorkerPC, OwnerPC
<1>16. ASSUME UNCHANGED vars PROVE ShutdownOrder'
  BY <1>16 DEF vars, poolVars, counters, threads, history,
         IndInv, TypeOK, ShutdownOrder, InWorkerPC, WorkerPC, OwnerPC
<1> QED
  BY <1>1, <1>2, <1>3, <1>4, <1>5, <1>6, <1>7, <1>8, <1>9, <1>10, <1>11, <1>12, <1>13, <1>14, <1>15, <1>16
     DEF Next, WorkerStep, EnqueueStep, OwnerStep, Terminated

(* IndInv is inductive.                                                    *)
LEMMA IndInvInit == Init => IndInv
<1> SUFFICES ASSUME Init PROVE IndInv
  OBVIOUS
<1>1. TypeOK
  <2>1. <<>> \in Seq(Tasks)
    OBVIOUS
  <2>2. wpc \in [Workers -> WorkerPC] /\ ppc \in [Producers -> ProducerPC] /\ opc \in OwnerPC
    BY DEF Init, WorkerPC, ProducerPC, OwnerPC
  <2>3. wtask \in [Workers -> Tasks \cup {NoTask}]
    BY DEF Init
  <2> QED
    BY <2>1, <2>2, <2>3 DEF Init, TypeOK
<1>2. InWorkerPC({"asleep"}) = {} /\ InWorkerPC({"exited"}) = {} /\ Holding = {}
  BY DEF Init, InWorkerPC, Holding, WithTask
<1>3. ThreadsAt(wpc, InActive) = 0 /\ ThreadsAt(wpc, Unreported) = 0 /\ ThreadsAt(wpc, WithTask) = 0
  <2>1. \A w \in DOMAIN wpc : wpc[w] = "check"
    BY DEF Init
  <2>2. /\ {w \in DOMAIN wpc : wpc[w] \in InActive} = {}
        /\ {w \in DOMAIN wpc : wpc[w] \in Unreported} = {}
        /\ {w \in DOMAIN wpc : wpc[w] \in WithTask} = {}
    BY <2>1 DEF InActive, Unreported, WithTask
  <2> QED
    BY <2>2, FS_EmptySet DEF ThreadsAt
<1>4. Cardinality({}) = 0 /\ Elements(<<>>) = {} /\ Len(<<>>) = 0
  BY FS_EmptySet DEF Elements
<1>5. FifoExactlyOnce
  BY <1>2, <1>4 DEF Init, FifoExactlyOnce
<1>6. CountersAddUp
  BY <1>3, <1>4 DEF Init, CountersAddUp
<1>7. WorkConserving
  BY <1>2 DEF WorkConserving
<1>8. ShutdownOrder
  BY <1>2 DEF Init, ShutdownOrder
<1>9. TaskIdentity
  BY <1>2, <1>3, <1>4 DEF Init, TaskIdentity
<1> QED
  BY <1>1, <1>5, <1>6, <1>7, <1>8, <1>9 DEF IndInv

LEMMA IndInvStep == IndInv /\ [Next]_vars => IndInv'
BY TypeStep, FifoStep, CountersStep, WorkStep, ShutdownStep, IdentityStep DEF IndInv

(* The inductive invariant holds in every behaviour of the pool.           *)
THEOREM IndInvHolds == Spec => []IndInv
BY IndInvInit, IndInvStep, PTL DEF Spec

(* Every variable of the pool stays in its type: active_ never wraps.      *)
THEOREM TypeCorrect == Spec => []TypeOK
<1>1. IndInv => TypeOK
  BY DEF IndInv
<1> QED
  BY <1>1, IndInvHolds, PTL

(* enqueue and workerLoop run accepted tasks in order, none lost or twice. *)
THEOREM Fifo == Spec => []FifoExactlyOnce
<1>1. IndInv => FifoExactlyOnce
  BY DEF IndInv
<1> QED
  BY <1>1, IndInvHolds, PTL

(* No wakeup is lost, for any number of workers and producers.             *)
THEOREM NoLostWakeup == Spec => []WorkConserving
<1>1. IndInv => WorkConserving
  BY DEF IndInv
<1> QED
  BY <1>1, IndInvHolds, PTL

(* The counters reported by adminStatusResponse add up.                    *)
THEOREM Counters == Spec => []CountersAddUp
<1>1. IndInv => CountersAddUp
  BY DEF IndInv
<1> QED
  BY <1>1, IndInvHolds, PTL

(* When shutdown() has returned, everything accepted has been run.         *)
THEOREM Drained == Spec => []ShutdownDrains
<1>1. ASSUME IndInv, opc \in {"returned", "destroyed"}
      PROVE  /\ tasks = <<>> /\ InWorkerPC({"exited"}) = Workers
             /\ Elements(accepted) = done
             /\ completed = Len(accepted) /\ active = 0
  <2>1. InWorkerPC({"exited"}) = Workers /\ tasks = <<>>
    BY <1>1, PoolAssumption DEF IndInv, ShutdownOrder, PoolAssumption
  <2>2. \A w \in Workers : wpc[w] = "exited"
    BY <2>1 DEF InWorkerPC
  <2>3. Holding = {}
    BY <2>2 DEF Holding, InWorkerPC, WithTask
  <2>4. accepted = started
    BY <1>1, <2>1, ConcatEmptySeq DEF IndInv, TypeOK, FifoExactlyOnce
  <2>5. Elements(accepted) = done
    BY <1>1, <2>3, <2>4 DEF IndInv, FifoExactlyOnce
  <2>6. ThreadsAt(wpc, InActive) = 0 /\ ThreadsAt(wpc, Unreported) = 0 /\ ThreadsAt(wpc, WithTask) = 0
    <3>1. DOMAIN wpc = Workers
      BY <1>1 DEF IndInv, TypeOK
    <3>2. /\ {w \in DOMAIN wpc : wpc[w] \in InActive} = {}
          /\ {w \in DOMAIN wpc : wpc[w] \in Unreported} = {}
          /\ {w \in DOMAIN wpc : wpc[w] \in WithTask} = {}
      BY <2>2, <3>1 DEF InActive, Unreported, WithTask
    <3> QED
      BY <3>2, FS_EmptySet DEF ThreadsAt
  <2>7. active = 0
    BY <1>1, <2>6 DEF IndInv, CountersAddUp
  <2>8. completed = Len(accepted)
    BY <1>1, <2>4, <2>6, DoneCount DEF IndInv, CountersAddUp, TaskIdentity, TypeOK
  <2> QED
    BY <2>1, <2>5, <2>7, <2>8
<1>2. IndInv => ShutdownDrains
  BY <1>1 DEF ShutdownDrains
<1> QED
  BY <1>2, IndInvHolds, PTL

-----------------------------------------------------------------------------
(* The pool implements BoundedExecutor: what follows maps its initial      *)
(* states to initial states and every step to a step or a stutter.         *)

(* tasks_ never exceeds maxQueueSize_, for enqueue tests before it pushes. *)
QueueBounded == Len(tasks) <= MaxQueueSize

LEMMA QueueBoundedStep == IndInv /\ QueueBounded /\ [Next]_vars => QueueBounded'
<1> SUFFICES ASSUME IndInv, QueueBounded, [Next]_vars PROVE QueueBounded'
  OBVIOUS
<1>0. tasks \in Seq(Tasks) /\ Len(tasks) \in Nat /\ MaxQueueSize \in Nat
  BY PoolAssumption DEF IndInv, TypeOK, PoolAssumption
<1>1. ASSUME NEW p \in Producers, NEW t \in Tasks, EnqueueAccept(p, t) PROVE QueueBounded'
  <2>1. ~(Len(tasks) >= MaxQueueSize)
    BY <1>1 DEF EnqueueAccept, Rejects
  <2>2. Len(tasks') = Len(tasks) + 1
    BY <1>0, <1>1, AppendProperties DEF EnqueueAccept
  <2> QED
    BY <1>0, <2>1, <2>2 DEF QueueBounded
<1>2. ASSUME NEW w \in Workers, WorkerPop(w) PROVE QueueBounded'
  <2>1. Len(tasks') = Len(tasks) - 1
    BY <1>0, <1>2, HeadTailProperties DEF WorkerPop
  <2> QED
    BY <1>0, <2>1 DEF QueueBounded
<1>3. ASSUME UNCHANGED tasks PROVE QueueBounded'
  BY <1>3 DEF QueueBounded
<1>4. \/ \E p \in Producers, t \in Tasks : EnqueueAccept(p, t)
      \/ \E w \in Workers : WorkerPop(w)
      \/ UNCHANGED tasks
  BY DEF Next, WorkerStep, EnqueueStep, OwnerStep, Terminated, vars, poolVars, EnqueueReject,
         NotifyOne, ShutdownBegin, ShutdownNotifyAll, ShutdownJoin, Destroy, WorkerSleep,
         WorkerExit, WorkerCountActive, TaskEnds, WorkerUncountActive, WorkerCountCompleted,
         SpuriousWake
<1> QED
  BY <1>1, <1>2, <1>3, <1>4

(* The executor's running, refused and phase, as ThreadPool maps them.     *)
Running == {wtask[w] : w \in Holding}
Refused == offered \ Elements(accepted)
Phase == IF ~stopping THEN "open"
         ELSE IF opc \in {"returned", "destroyed"} THEN "closed" ELSE "closing"

(* Every task the executor knows was offered to enqueue.                   *)
LEMMA KnownWasOffered == IndInv => Executor!Known \subseteq offered
<1> SUFFICES ASSUME IndInv PROVE Executor!Known \subseteq offered
  OBVIOUS
<1>1. /\ tasks \in Seq(Tasks) /\ started \in Seq(Tasks) /\ accepted = started \o tasks
      /\ Elements(accepted) \subseteq offered /\ Elements(started) = done \cup Running
  BY DEF IndInv, TypeOK, FifoExactlyOnce, TaskIdentity, Running
<1>2. ASSUME NEW i \in 1 .. Len(tasks) PROVE tasks[i] \in Elements(accepted)
  <2>1. accepted[Len(started) + i] = tasks[i] /\ Len(started) + i \in 1 .. Len(accepted)
    BY <1>1, <1>2, ConcatProperties
  <2> QED
    BY <2>1 DEF Elements
<1>3. ASSUME NEW i \in 1 .. Len(started) PROVE started[i] \in Elements(accepted)
  <2>1. accepted[i] = started[i] /\ i \in 1 .. Len(accepted)
    BY <1>1, <1>3, ConcatProperties
  <2> QED
    BY <2>1 DEF Elements
<1>4. Running \cup done \subseteq offered
  BY <1>1, <1>3 DEF Elements
<1>5. {tasks[i] : i \in 1 .. Len(tasks)} \subseteq offered
  BY <1>1, <1>2
<1> QED
  BY <1>4, <1>5 DEF Executor!Known, Running

(* A step of w that neither takes nor ends a task changes nothing of it.   *)
LEMMA SameRunning ==
    ASSUME TypeOK, NEW w \in Workers, NEW x \in WorkerPC, wpc' = [wpc EXCEPT ![w] = x],
           wpc[w] \in WithTask <=> x \in WithTask, UNCHANGED wtask
    PROVE  Running' = Running
<1>1. Holding' = Holding
  BY DEF TypeOK, Holding, InWorkerPC
<1> QED
  BY <1>1 DEF Running

(* The instance's Cardinality is that of FiniteSets.                       *)
LEMMA ExecutorCardinality == \A S : Executor!Cardinality(S) = Cardinality(S)
BY DEF Executor!Cardinality, Cardinality

(* There is a place for the task that w takes.                             *)
LEMMA PlaceFree ==
    ASSUME TypeOK, NEW w \in Workers \ Holding
    PROVE  Cardinality(Running) < Cardinality(Workers)
<1>1. IsFiniteSet(Holding) /\ IsFiniteSet(Workers) /\ Holding \subseteq Workers \ {w}
  BY FS_Subset, PoolAssumption, Holding \subseteq Workers
     DEF PoolAssumption, Holding, InWorkerPC
<1>2. IsFiniteSet(Workers \ {w}) /\ Cardinality(Workers \ {w}) = Cardinality(Workers) - 1
  BY <1>1, FS_RemoveElement
<1>3. Cardinality(Holding) <= Cardinality(Workers \ {w})
  BY <1>1, <1>2, FS_Subset
<1>4. IsFiniteSet(Running) /\ Cardinality(Running) <= Cardinality(Holding)
  <2>1. [v \in Holding |-> wtask[v]] \in Surjection(Holding, Running)
    BY DEF Surjection, Running
  <2> QED
    BY <1>1, <2>1, FS_Surjection
<1> QED
  BY <1>1, <1>2, <1>3, <1>4, FS_CardinalityType

(* Two steps take place only before the executor is stopped, and the       *)
(* others leave its variables as they are.                                 *)
LEMMA ExecutorStep ==
    IndInv /\ QueueBounded /\ [Next]_vars => [Executor!Next]_(Executor!vars)
<1> SUFFICES ASSUME IndInv, QueueBounded, [Next]_vars
             PROVE  Executor!Next \/ UNCHANGED <<tasks, Running, done, Refused, Phase>>
  BY DEF Executor!vars, Running, Refused, Phase
<1>0. TypeOK /\ tasks \in Seq(Tasks) /\ Len(tasks) \in Nat /\ MaxQueueSize \in Nat
  BY PoolAssumption DEF IndInv, TypeOK, PoolAssumption
<1> DEFINE Quiet == UNCHANGED <<tasks, Running, done, Refused, Phase>>
<1>1. ASSUME NEW p \in Producers, NEW t \in Tasks, EnqueueReject(p, t) PROVE Executor!Refuse(t)
  <2> USE DEF EnqueueReject, Offer, poolVars, counters, threads
  <2>1. t \notin Executor!Known
    BY <1>1, KnownWasOffered
  <2>2. Refused' = Refused \cup {t}
    BY <1>1 DEF Refused, IndInv, TaskIdentity
  <2>3. Phase # "open" \/ Len(tasks) = MaxQueueSize
    BY <1>0, <1>1 DEF Phase, Rejects, QueueBounded
  <2>4. UNCHANGED <<tasks, Running, done, Phase>>
    BY <1>1 DEF Running, Phase, Holding, InWorkerPC
  <2> QED
    BY <2>1, <2>2, <2>3, <2>4 DEF Executor!Refuse, Running, Refused, Phase
<1>2. ASSUME NEW p \in Producers, NEW t \in Tasks, EnqueueAccept(p, t) PROVE Executor!Accept(t)
  <2> USE DEF EnqueueAccept, Offer, counters
  <2>1. t \notin Executor!Known
    BY <1>2, KnownWasOffered
  <2>2. Refused' = Refused
    <3>1. accepted \in Seq(Tasks) /\ accepted' = Append(accepted, t)
      BY <1>2 DEF IndInv, TypeOK
    <3>2. Elements(accepted') = Elements(accepted) \cup {t}
      BY <3>1, ElementsOfAppend
    <3> QED
      BY <1>2, <3>2 DEF Refused
  <2>3. Phase = "open" /\ Len(tasks) < MaxQueueSize /\ tasks' = Append(tasks, t)
    BY <1>0, <1>2 DEF Phase, Rejects
  <2>4. UNCHANGED <<Running, done, Phase>>
    BY <1>2 DEF Running, Phase, Holding, InWorkerPC
  <2> QED
    BY <2>1, <2>2, <2>3, <2>4 DEF Executor!Accept, Running, Refused, Phase
<1>3. ASSUME NEW w \in Workers, WorkerPop(w) PROVE Executor!Start
  <2> USE DEF WorkerPop, counters
  <2>1. w \in Workers \ Holding
    BY <1>3 DEF Holding, InWorkerPC, WithTask
  <2>2. Holding' = Holding \cup {w}
    BY <1>0, <1>3 DEF TypeOK, Holding, InWorkerPC, WithTask
  <2>3. wtask'[w] = Head(tasks) /\ \A v \in Holding : wtask'[v] = wtask[v]
    BY <1>0, <1>3, <2>1 DEF TypeOK, Holding, InWorkerPC
  <2>4. Running' = Running \cup {Head(tasks)}
    BY <2>2, <2>3 DEF Running
  <2>5. Cardinality(Running) < Cardinality(Workers)
    BY <1>0, <2>1, PlaceFree
  <2>6. UNCHANGED <<done, Refused, Phase>>
    BY <1>3 DEF Refused, Phase
  <2> QED
    BY <1>3, <2>4, <2>5, <2>6, ExecutorCardinality
       DEF Executor!Start, Running, Refused, Phase
<1>4. ASSUME NEW w \in Workers, TaskEnds(w)
      PROVE  \E t \in Tasks : Executor!Finish(t)
  <2> USE DEF TaskEnds, poolVars, counters
  <2>1. w \in Holding /\ wtask[w] \in Tasks
    BY <1>4 DEF Holding, InWorkerPC, WithTask, IndInv, TaskIdentity
  <2>2. Holding' = Holding \ {w}
    BY <1>0, <1>4 DEF TypeOK, Holding, InWorkerPC, WithTask
  <2>3. \A v \in Holding \ {w} : wtask'[v] = wtask[v] /\ wtask[v] # wtask[w]
    BY <1>0, <1>4, <2>1 DEF TypeOK, IndInv, FifoExactlyOnce, Holding, InWorkerPC
  <2>4. Running' = Running \ {wtask[w]}
    BY <2>2, <2>3 DEF Running
  <2>5. wtask[w] \in Running
    BY <2>1 DEF Running
  <2>6. UNCHANGED <<tasks, Refused, Phase>> /\ done' = done \cup {wtask[w]}
    BY <1>4 DEF Refused, Phase
  <2>7. PICK t \in Tasks : t = wtask[w]
    BY <2>1
  <2>8. Executor!Finish(t)
    BY <2>4, <2>5, <2>6, <2>7 DEF Executor!Finish, Running, Refused, Phase
  <2> QED
    BY <2>8
<1>5. ASSUME ShutdownBegin PROVE Executor!Close
  BY <1>5 DEF ShutdownBegin, counters, history, Executor!Close, Holding, InWorkerPC
<1>6. ASSUME ShutdownJoin PROVE Executor!Closed
  <2> USE DEF ShutdownJoin, poolVars, counters, history
  <2>1. Holding = {}
    BY <1>6 DEF Holding, InWorkerPC, WithTask
  <2>2. tasks = <<>> /\ stopping
    BY <1>6, PoolAssumption DEF PoolAssumption, IndInv, ShutdownOrder
  <2>3. Running = {} /\ Phase = "closing" /\ Phase' = "closed"
    BY <1>6, <2>1, <2>2 DEF Running, Phase
  <2>4. UNCHANGED <<tasks, Running, done, Refused>>
    BY <1>6 DEF Running, Refused, Holding, InWorkerPC
  <2> QED
    BY <2>2, <2>3, <2>4 DEF Executor!Closed, Running, Refused, Phase
<1>7. ASSUME Destroy PROVE Quiet
  BY <1>7 DEF Destroy, poolVars, counters, history, Running, Refused, Phase, Holding, InWorkerPC
<1>8. ASSUME ShutdownNotifyAll PROVE Quiet
  <2>1. Holding' = Holding
    BY <1>0, <1>8 DEF ShutdownNotifyAll, TypeOK, Holding, InWorkerPC, WithTask
  <2> QED
    BY <1>8, <2>1 DEF ShutdownNotifyAll, poolVars, counters, history, Running, Refused, Phase
<1>9. ASSUME NEW p \in Producers, NotifyOne(p) PROVE Quiet
  <2>1. Running' = Running
    <3>1. CASE UNCHANGED wpc
      BY <1>9, <3>1 DEF NotifyOne, Running, Holding, InWorkerPC
    <3>2. CASE \E w \in InWorkerPC({"asleep"}) : wpc' = [wpc EXCEPT ![w] = "check"]
      BY <1>0, <1>9, <3>2, SameRunning DEF NotifyOne, InWorkerPC, WithTask, WorkerPC
    <3> QED
      BY <1>9, <3>1, <3>2 DEF NotifyOne
  <2> QED
    BY <1>9, <2>1 DEF NotifyOne, poolVars, counters, history, Refused, Phase
<1>10. ASSUME NEW w \in Workers,
              \/ WorkerSleep(w) \/ WorkerExit(w) \/ WorkerCountActive(w)
              \/ WorkerUncountActive(w) \/ WorkerCountCompleted(w) \/ SpuriousWake(w)
       PROVE  Quiet
  <2> USE DEF WorkerSleep, WorkerExit, WorkerCountActive, WorkerUncountActive,
              WorkerCountCompleted, SpuriousWake, poolVars, history
  <2>1. Running' = Running
    BY <1>0, <1>10, SameRunning DEF WithTask, WorkerPC
  <2> QED
    BY <1>10, <2>1 DEF Refused, Phase
<1>11. ASSUME UNCHANGED vars PROVE Quiet
  BY <1>11 DEF vars, poolVars, threads, history, Running, Refused, Phase, Holding, InWorkerPC
<1> HIDE DEF Quiet
<1>12. ASSUME NEW w \in Workers, WorkerStep(w) \/ SpuriousWake(w) PROVE Executor!Next \/ Quiet
  <2>1. CASE WorkerPop(w)
    BY <1>3, <2>1 DEF Executor!Next
  <2>2. CASE TaskEnds(w)
    BY <1>4, <2>2 DEF Executor!Next
  <2>3. CASE \/ WorkerSleep(w) \/ WorkerExit(w) \/ WorkerCountActive(w)
             \/ WorkerUncountActive(w) \/ WorkerCountCompleted(w) \/ SpuriousWake(w)
    BY <1>10, <2>3
  <2> QED
    BY <1>12, <2>1, <2>2, <2>3 DEF WorkerStep
<1>13. ASSUME NEW p \in Producers, NEW t \in Tasks, EnqueueStep(p, t) PROVE Executor!Next
  BY <1>1, <1>2, <1>13 DEF EnqueueStep, Executor!Next
<1>14. ASSUME OwnerStep PROVE Executor!Next \/ Quiet
  BY <1>5, <1>6, <1>7, <1>8, <1>14 DEF OwnerStep, Executor!Next
<1>15. Executor!Next \/ Quiet
  BY <1>9, <1>11, <1>12, <1>13, <1>14 DEF Next, Terminated
<1> QED
  BY <1>15 DEF Quiet

(* The pool with its threads, lock and notifications implements the        *)
(* bounded FIFO executor that Server.cpp's accept handlers rely on and     *)
(* ConnectionLifecycle is built on.  (Its fairness is checked by TLC.)     *)
THEOREM Refinement == Spec => Executor!Spec
<1>1. Init => Executor!Init
  BY DEF Init, Executor!Init, Holding, InWorkerPC, WithTask
<1>2. Init => QueueBounded
  BY PoolAssumption DEF PoolAssumption, Init, QueueBounded
<1> QED
  BY IndInvInit, IndInvStep, QueueBoundedStep, ExecutorStep, <1>1, <1>2, PTL
     DEF Spec, Executor!Spec
=============================================================================
