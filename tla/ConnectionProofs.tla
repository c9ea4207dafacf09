-------------------------- MODULE ConnectionProofs --------------------------
(***************************************************************************)
(* A connection's way through the server, for any number of connections,   *)
(* any pool and queue size, and a stop at any moment; and the exchange     *)
(* with PHP that its worker may enter, for any request, any output, and    *)
(* any connection between the two.                                         *)
(*                                                                         *)
(* The first part rests on ConnInv.  The second counts records: what PHP   *)
(* knows is what the records it read say, and those are the first of the   *)
(* wire (HeardInv); what the worker has collected is what the records it   *)
(* received say, and those are the first of PHP's output (CollectInv).     *)
(***************************************************************************)
EXTENDS ConnectionLifecycle, FastCgi, FiniteSetTheorems, SequenceTheorems,
        WellFoundedInduction, TLAPS

(* What waits in workers_ is queued, and waits once.                       *)
QueueInv ==
    /\ queue \in Seq(Conns)
    /\ \A i \in 1 .. Len(queue) : stage[queue[i]] = "queued"
    /\ \A i, j \in 1 .. Len(queue) : queue[i] = queue[j] => i = j

(* The end of the server: workers_ is the third member to die, and it dies *)
(* only when its destructor has drained the queue and joined the workers.  *)
EndInv ==
    /\ phase \in {"open", "closing", "closed"}
    /\ dead > 2 => phase = "closed"
    /\ phase = "closed" => queue = <<>> /\ running = {}

LinesInv ==
    /\ lines \in [Conns -> Seq({"access", "error"})]
    /\ \A c \in Conns : Len(lines[c]) = IF stage[c] = "ended" THEN 1 ELSE 0

ConnInv == TypeOK /\ QueueInv /\ EndInv /\ LinesInv

-----------------------------------------------------------------------------
LEMMA InvInit == Init => ConnInv
<1> SUFFICES ASSUME Init PROVE ConnInv
  OBVIOUS
<1> USE DEF Init, Pool!Init
<1>1. TypeOK
  <2>1. "other" \in Requests
    BY DEF Requests, Uses
  <2>2. needs \in [Conns -> Requests]
    BY <2>1
  <2>3. dead \in 0 .. Len(DestroyedInOrder)
    BY DEF DestroyedInOrder
  <2> QED
    BY <2>2, <2>3 DEF TypeOK, InTask
<1>2. QueueInv
  BY DEF QueueInv
<1>3. EndInv
  BY DEF EndInv
<1>4. LinesInv
  BY DEF LinesInv
<1> QED
  BY <1>1, <1>2, <1>3, <1>4 DEF ConnInv

(* A step within a task keeps everything.                                  *)
LEMMA GoesStep ==
    ASSUME ConnInv, NEW c \in Conns, NEW from \in InTask, NEW to \in InTask,
           Goes(c, from, to), needs' \in [Conns -> Requests]
    PROVE  ConnInv'
<1> USE DEF Goes, poolVars
<1>1. TypeOK'
  BY DEF ConnInv, TypeOK, InTask
<1>2. QueueInv'
  BY DEF ConnInv, TypeOK, QueueInv, InTask
<1>3. EndInv'
  BY DEF ConnInv, EndInv
<1>4. LinesInv'
  BY DEF ConnInv, TypeOK, LinesInv, InTask
<1> QED
  BY <1>1, <1>2, <1>3, <1>4 DEF ConnInv

(* The line a connection leaves when it ends is its first.                 *)
LEMMA LineAdded ==
    ASSUME ConnInv, NEW c \in Conns, NEW line \in {"access", "error"},
           stage[c] # "ended", stage' = [stage EXCEPT ![c] = "ended"],
           lines' = [lines EXCEPT ![c] = Append(@, line)]
    PROVE  LinesInv'
<1>1. lines \in [Conns -> Seq({"access", "error"})]
  BY DEF ConnInv, LinesInv
<1>2. Append(lines[c], line) \in Seq({"access", "error"})
      /\ Len(Append(lines[c], line)) = Len(lines[c]) + 1
  BY <1>1, AppendProperties
<1>3. lines' \in [Conns -> Seq({"access", "error"})]
      /\ Len(lines'[c]) = Len(lines[c]) + 1 /\ Len(lines[c]) = 0
      /\ \A d \in Conns \ {c} : lines'[d] = lines[d]
  BY <1>1, <1>2 DEF ConnInv, LinesInv
<1>4. stage'[c] = "ended" /\ \A d \in Conns \ {c} : stage'[d] = stage[d]
  BY DEF ConnInv, TypeOK
<1>5. \A d \in Conns \ {c} : Len(lines[d]) = IF stage[d] = "ended" THEN 1 ELSE 0
  BY DEF ConnInv, LinesInv
<1>6. ASSUME NEW d \in Conns
      PROVE  Len(lines'[d]) = IF stage'[d] = "ended" THEN 1 ELSE 0
  <2>1. CASE d = c
    BY <1>3, <1>4, <2>1
  <2>2. CASE d # c
    BY <1>3, <1>4, <1>5, <2>2
  <2> QED
    BY <2>1, <2>2
<1> QED
  BY <1>3, <1>6 DEF LinesInv

(* So does its end, which writes the connection's only line.               *)
LEMMA EndsStep ==
    ASSUME ConnInv, NEW c \in Conns, NEW line \in {"access", "error"}, Ends(c, line)
    PROVE  ConnInv'
<1> USE DEF Ends, Pool!Finish, InTask
<1>0. stage[c] \in InTask
  BY DEF ConnInv, TypeOK
<1>1. TypeOK'
  BY DEF ConnInv, TypeOK
<1>2. QueueInv'
  BY <1>0 DEF ConnInv, TypeOK, QueueInv
<1>3. EndInv'
  BY DEF ConnInv, EndInv
<1>4. LinesInv'
  BY <1>0, LineAdded
<1> QED
  BY <1>1, <1>2, <1>3, <1>4 DEF ConnInv

(* The accept handler takes a connection that is in no queue and in no     *)
(* task, while the server is not yet being destroyed.                      *)
LEMMA AcceptStep == ASSUME ConnInv, NEW c \in Conns, Accept(c) PROVE ConnInv'
<1> USE DEF Accept, InTask
<1>1. CASE AcceptEnqueue(c)
  <2> USE <1>1 DEF AcceptEnqueue, Pool!Accept
  <2>1. TypeOK'
    BY DEF ConnInv, TypeOK
  <2>2. QueueInv'
    <3>1. \A i \in 1 .. Len(queue) : queue[i] \in Conns /\ queue[i] # c
      BY DEF ConnInv, QueueInv
    <3>2. /\ queue' \in Seq(Conns) /\ Len(queue') = Len(queue) + 1
          /\ queue'[Len(queue) + 1] = c
          /\ \A i \in 1 .. Len(queue) : queue'[i] = queue[i]
      BY AppendProperties DEF ConnInv, QueueInv
    <3>3. \A i \in 1 .. Len(queue') : i = Len(queue) + 1 \/ i \in 1 .. Len(queue)
      BY <3>2 DEF ConnInv, QueueInv
    <3>4. stage'[c] = "queued" /\ \A d \in Conns \ {c} : stage'[d] = stage[d]
      BY DEF ConnInv, TypeOK
    <3> QED
      BY <3>1, <3>2, <3>3, <3>4 DEF ConnInv, QueueInv
  <2>3. EndInv'
    BY DEF ConnInv, EndInv
  <2>4. LinesInv'
    BY DEF ConnInv, TypeOK, LinesInv
  <2> QED
    BY <2>1, <2>2, <2>3, <2>4 DEF ConnInv
<1>2. CASE AcceptReject(c)
  <2> USE <1>2 DEF AcceptReject, Pool!Refuse
  <2>1. TypeOK'
    BY DEF ConnInv, TypeOK
  <2>2. QueueInv'
    BY DEF ConnInv, TypeOK, QueueInv
  <2>3. EndInv'
    BY DEF ConnInv, EndInv
  <2>4. LinesInv'
    BY LineAdded
  <2> QED
    BY <2>1, <2>2, <2>3, <2>4 DEF ConnInv
<1> QED
  BY <1>1, <1>2

(* A worker takes the oldest connection: it waits nowhere else.            *)
LEMMA StartStep == ASSUME ConnInv, Start PROVE ConnInv'
<1> USE DEF Start, Pool!Start, InTask
<1>1. /\ Head(queue) \in Conns /\ Head(queue) = queue[1]
      /\ Tail(queue) \in Seq(Conns) /\ Len(Tail(queue)) = Len(queue) - 1
      /\ \A i \in 1 .. Len(Tail(queue)) : Tail(queue)[i] = queue[i + 1]
      /\ Len(queue) \in Nat /\ Len(queue) > 0
  BY HeadTailProperties DEF ConnInv, QueueInv
<1>2. stage[Head(queue)] = "queued"
  BY <1>1 DEF ConnInv, QueueInv
<1>3. TypeOK'
  BY <1>1, <1>2 DEF ConnInv, TypeOK
<1>4. QueueInv'
  <2>1. \A i \in 1 .. Len(queue') : i + 1 \in 1 .. Len(queue) /\ queue'[i] = queue[i + 1]
    BY <1>1
  <2>2. \A i \in 2 .. Len(queue) : queue[i] # Head(queue) /\ queue[i] \in Conns
    BY <1>1 DEF ConnInv, QueueInv
  <2>3. \A d \in Conns \ {Head(queue)} : stage'[d] = stage[d]
    BY <1>1 DEF ConnInv, TypeOK
  <2>4. \A i \in 1 .. Len(queue') : stage'[queue'[i]] = "queued"
    BY <1>1, <2>1, <2>2, <2>3 DEF ConnInv, QueueInv
  <2>5. \A i, j \in 1 .. Len(queue') : queue'[i] = queue'[j] => i = j
    BY <1>1, <2>1 DEF ConnInv, QueueInv
  <2> QED
    BY <1>1, <2>4, <2>5 DEF QueueInv
<1>5. EndInv'
  BY <1>1 DEF ConnInv, EndInv
<1>6. LinesInv'
  BY <1>1, <1>2 DEF ConnInv, TypeOK, LinesInv
<1> QED
  BY <1>3, <1>4, <1>5, <1>6 DEF ConnInv

(* The third member that dies is workers_, and not before it is joined.    *)
LEMMA DestroyStep == ASSUME ConnInv, DestroyMember PROVE ConnInv'
<1> USE DEF DestroyMember, connVars
<1>0. dead \in 0 .. 6 /\ (Dying = "workers" <=> dead = 2)
      /\ dead' \in {dead, dead + 1}
  BY DEF ConnInv, TypeOK, Dying, DestroyedInOrder
<1>1. UNCHANGED <<queue, running>>
  BY DEF poolVars, Pool!Close, Pool!Closed
<1>2. TypeOK'
  BY <1>0, <1>1 DEF ConnInv, TypeOK, DestroyedInOrder
<1>3. QueueInv'
  BY <1>1 DEF ConnInv, QueueInv
<1>4. EndInv'
  BY <1>0 DEF ConnInv, EndInv, poolVars, Pool!Close, Pool!Closed
<1>5. LinesInv'
  BY DEF ConnInv, LinesInv
<1> QED
  BY <1>2, <1>3, <1>4, <1>5 DEF ConnInv

(* The steps that leave the pool and the tasks alone.                      *)
LEMMA QuietStep ==
    ASSUME ConnInv, UNCHANGED <<needs, socket, lines, armed, dead, poolVars>>,
           io' \in BOOLEAN, crashed' \in BOOLEAN,
           \/ UNCHANGED stage
           \/ \E c \in Conns : /\ stage[c] \in {"away", "backlog"}
                              /\ \E to \in {"away", "backlog"} :
                                    stage' = [stage EXCEPT ![c] = to]
    PROVE  ConnInv'
<1> USE DEF poolVars, InTask
<1>1. TypeOK'
  BY DEF ConnInv, TypeOK
<1>2. QueueInv'
  BY DEF ConnInv, TypeOK, QueueInv
<1>3. EndInv'
  BY DEF ConnInv, EndInv
<1>4. LinesInv'
  BY DEF ConnInv, TypeOK, LinesInv
<1> QED
  BY <1>1, <1>2, <1>3, <1>4 DEF ConnInv

LEMMA InvStep == ConnInv /\ [Next]_vars => ConnInv'
<1> SUFFICES ASSUME ConnInv, [Next]_vars PROVE ConnInv'
  OBVIOUS
<1>0. /\ needs \in [Conns -> Requests] /\ io \in BOOLEAN /\ crashed \in BOOLEAN
      /\ {"begin", "limit", "read", "answer", "write", "log"} = InTask
  BY DEF ConnInv, TypeOK, InTask
<1>1. ASSUME NEW c \in Conns, Arrive(c) PROVE ConnInv'
  BY <1>0, <1>1, QuietStep DEF Arrive, poolVars
<1>2. ASSUME NEW c \in Conns, Accept(c) PROVE ConnInv'
  BY <1>2, AcceptStep
<1>3. ASSUME NEW c \in Conns, AcceptFails(c) PROVE ConnInv'
  BY <1>0, <1>3, QuietStep DEF AcceptFails, poolVars
<1>4. ASSUME NEW c \in Conns, Begin(c) PROVE ConnInv'
  BY <1>0, <1>4, GoesStep DEF Begin
<1>5. ASSUME NEW c \in Conns, Limit(c) PROVE ConnInv'
  BY <1>0, <1>5, GoesStep DEF Limit
<1>6. ASSUME NEW c \in Conns, Read(c) PROVE ConnInv'
  <2>1. needs' \in [Conns -> Requests]
    BY <1>0, <1>6 DEF Read
  <2> QED
    BY <1>0, <1>6, <2>1, GoesStep DEF Read
<1>7. ASSUME NEW c \in Conns, Answer(c) PROVE ConnInv'
  BY <1>0, <1>7, GoesStep DEF Answer
<1>8. ASSUME NEW c \in Conns, Crash(c) PROVE ConnInv'
  BY <1>0, <1>8, QuietStep DEF Crash, connVars, poolVars
<1>9. ASSUME NEW c \in Conns, Write(c) PROVE ConnInv'
  BY <1>0, <1>9, GoesStep DEF Write
<1>10. ASSUME NEW c \in Conns, Log(c) PROVE ConnInv'
  BY <1>10, EndsStep DEF Log
<1>11. ASSUME NEW c \in Conns, Fail(c) PROVE ConnInv'
  BY <1>11, EndsStep DEF Fail
<1>12. ASSUME Start PROVE ConnInv'
  BY <1>12, StartStep
<1>13. ASSUME Stop PROVE ConnInv'
  BY <1>0, <1>13, QuietStep DEF Stop, connVars, poolVars
<1>14. ASSUME DestroyMember PROVE ConnInv'
  BY <1>14, DestroyStep
<1>15. ASSUME UNCHANGED vars PROVE ConnInv'
  BY <1>0, <1>15, QuietStep DEF vars, connVars, poolVars
<1> QED
  BY <1>1, <1>2, <1>3, <1>4, <1>5, <1>6, <1>7, <1>8, <1>9, <1>10, <1>11, <1>12, <1>13,
     <1>14, <1>15 DEF Next, Handle, Over

-----------------------------------------------------------------------------
(* Where every connection is, what was logged of it, and the pool's end.   *)
THEOREM ConnInvHolds == Spec => []ConnInv
BY InvInit, InvStep, PTL DEF Spec

(* The variables keep their types; running is the set of connections whose *)
(* task a worker runs, and a socket is open exactly while its connection   *)
(* waits in workers_ or is handled there.                                  *)
THEOREM TypeCorrect == Spec => []TypeOK
BY ConnInvHolds, PTL DEF ConnInv

(* Whichever step of a connection fails, it leaves one line: none before   *)
(* it ends, exactly one from then on.                                      *)
THEOREM OneLineEach == Spec => []LoggedOnce
<1>1. ConnInv => LoggedOnce
  BY DEF ConnInv, LinesInv, LoggedOnce
<1> QED
  BY ConnInvHolds, <1>1, PTL

(* No request that waits or is handled outlives the members of Server it   *)
(* uses, staticCache_ aside: they are declared before workers_.            *)
THEOREM DrainedBeforeMembersDie == Spec => []MembersOutliveRequests
<1>1. ConnInv => MembersOutliveRequests
  <2> SUFFICES ASSUME ConnInv, running # {} \/ queue # <<>>,
                      NEW m \in {"workers", "rateLimiter", "logger", "authStore", "config"}
               PROVE  Alive(m)
    BY DEF MembersOutliveRequests
  <2>1. dead \in 0 .. 2
    BY DEF ConnInv, TypeOK, EndInv, DestroyedInOrder
  <2>2. \E i \in 3 .. 7 : DestroyedInOrder[i] = m
    <3>1. /\ DestroyedInOrder[3] = "workers" /\ DestroyedInOrder[4] = "rateLimiter"
          /\ DestroyedInOrder[5] = "logger" /\ DestroyedInOrder[6] = "authStore"
          /\ DestroyedInOrder[7] = "config"
      BY DEF DestroyedInOrder
    <3> QED
      BY <3>1
  <2>3. 3 .. 7 \subseteq dead + 1 .. Len(DestroyedInOrder)
    BY <2>1 DEF DestroyedInOrder
  <2> QED
    BY <2>2, <2>3 DEF Alive
<1> QED
  BY ConnInvHolds, <1>1, PTL

-----------------------------------------------------------------------------
(* A set of natural numbers has a least one.                               *)
LEMMA LeastNumber ==
    ASSUME NEW I, I \subseteq Nat, I # {}
    PROVE  Min(I) \in I /\ \A i \in I : Min(I) <= i
<1> DEFINE T == {1 .. i : i \in I}
<1>1. T \subseteq FiniteSubsetsOf(Nat) /\ T # {}
  <2>1. ASSUME NEW i \in I PROVE 1 .. i \in FiniteSubsetsOf(Nat)
    <3>1. i \in Nat /\ 1 .. i \subseteq Nat
      OBVIOUS
    <3>2. IsFiniteSet(1 .. i)
      BY <3>1, FS_Interval
    <3> QED
      BY <3>1, <3>2 DEF FiniteSubsetsOf
  <2> QED
    BY <2>1
<1>2. PICK x \in T : \A y \in T : ~(<<y, x>> \in StrictSubsetOrdering(Nat))
  BY <1>1, FS_StrictSubsetOrderingWellFounded, WFMin
<1>3. PICK i \in I : x = 1 .. i
  BY <1>2
<1>4. ASSUME NEW j \in I, j < i PROVE FALSE
  <2>1. 1 .. j \subseteq 1 .. i /\ i \in 1 .. i /\ i \notin 1 .. j /\ 1 .. i \subseteq Nat
    BY <1>4
  <2>2. <<1 .. j, 1 .. i>> \in StrictSubsetOrdering(Nat)
    BY <2>1 DEF StrictSubsetOrdering
  <2> QED
    BY <1>2, <1>3, <2>2
<1>5. \A j \in I : i <= j
  BY <1>4
<1> QED
  BY <1>5 DEF Min

(* Induction, for a property that is given as the set of its numbers.      *)
LEMMA InductionOnSet ==
    ASSUME NEW S, 0 \in S, \A n \in Nat : n \in S => n + 1 \in S
    PROVE  Nat \subseteq S
<1> DEFINE I == Nat \ S
<1> SUFFICES ASSUME I # {} PROVE FALSE
  OBVIOUS
<1>1. Min(I) \in I /\ \A i \in I : Min(I) <= i
  BY LeastNumber
<1>2. PICK m \in I : \A i \in I : m <= i
  BY SMTT(30), <1>1
<1>3. m # 0 /\ m \in Nat
  OBVIOUS
<1>4. m - 1 \in Nat /\ m - 1 \in S
  BY <1>2, <1>3
<1>5. (m - 1) + 1 \in S
  BY <1>4
<1> QED
  BY <1>3, <1>5

-----------------------------------------------------------------------------
(* The output of the first n records is that of one less, and of one.      *)
Adds(records, f, n) ==
    IF n = 0 THEN <<>>
    ELSE IF records[n].type = "stdout" THEN f[n - 1] \o records[n].content
    ELSE f[n - 1]

LEMMA PrintedIs ==
    ASSUME NEW records \in Seq(PhpRecord)
    PROVE  Printed(records) = [n \in 0 .. Len(records) |-> Adds(records, Printed(records), n)]
<1> DEFINE Sums(f, m) == f = [n \in 0 .. m |-> Adds(records, f, n)]
           S == {m \in Nat : \E f : Sums(f, m)}
<1>1. 0 \in S
  <2>1. Sums([n \in 0 .. 0 |-> <<>>], 0)
    BY DEF Adds
  <2> QED
    BY <2>1
<1>2. ASSUME NEW m \in Nat, m \in S PROVE m + 1 \in S
  <2>1. PICK f : Sums(f, m)
    BY <1>2
  <2> DEFINE g == [n \in 0 .. m + 1 |-> IF n = m + 1 THEN Adds(records, f, n) ELSE f[n]]
  <2>2. ASSUME NEW n \in 0 .. m + 1 PROVE g[n] = Adds(records, g, n)
    <3>1. CASE n = 0
      BY <2>1, <3>1 DEF Adds
    <3>2. CASE n # 0
      <4>1. n - 1 \in 0 .. m /\ n - 1 # m + 1 /\ n - 1 \in 0 .. m + 1
        BY <3>2
      <4>2. g[n - 1] = f[n - 1]
        BY <4>1
      <4>3. Adds(records, g, n) = Adds(records, f, n)
        BY <3>2, <4>2 DEF Adds
      <4>4. n # m + 1 => n \in 0 .. m /\ f[n] = Adds(records, f, n)
        BY <2>1
      <4> QED
        BY <4>3, <4>4
    <3> QED
      BY <3>1, <3>2
  <2>3. Sums(g, m + 1)
    BY <2>2
  <2>4. \E h : Sums(h, m + 1)
    <3> HIDE DEF g, Sums
    <3> QED
      BY <2>3
  <2> QED
    BY <2>4
<1>3. Len(records) \in S
  BY <1>1, <1>2, InductionOnSet, LenProperties
<1>4. PICK f : Sums(f, Len(records))
  BY <1>3
<1> QED
  BY <1>4 DEF Printed, Adds

-----------------------------------------------------------------------------
(* The request in records.                                                 *)
ChunkCount(n) == (n + ChunkSize - 1) \div ChunkSize

(* How much of n bytes is in the first i chunks.                           *)
InChunks(n, i) == IF i <= 0 THEN 0 ELSE IF i >= ChunkCount(n) THEN n ELSE i * ChunkSize

LEMMA Multiples ==
    ASSUME NEW c \in Nat \ {0}, NEW i \in Int, NEW j \in Int, i <= j
    PROVE  /\ i * c \in Int /\ j * c \in Int /\ (i - 1) * c = i * c - c
           /\ i * c <= j * c
<1>1. i * c \in Int /\ j * c \in Int /\ (i - 1) * c = i * c - c
  OBVIOUS
<1>2. (j - i) * c >= 0
  OBVIOUS
<1>3. (j - i) * c = j * c - i * c
  OBVIOUS
<1> QED
  BY <1>1, <1>2, <1>3

LEMMA CountIs ==
    ASSUME NEW n \in Nat
    PROVE  /\ ChunkCount(n) \in Nat /\ n <= ChunkCount(n) * ChunkSize
           /\ ChunkCount(n) * ChunkSize < n + ChunkSize
           /\ ChunkCount(n) = 0 <=> n = 0
<1> DEFINE c == ChunkSize
           a == n + c - 1
           q == a \div c
<1>1. c \in Nat \ {0} /\ a \in Nat
  BY FastCgiAssumption
<1>2. q \in Int /\ q * c <= a /\ a < q * c + c
  <2> HIDE DEF c, a
  <2> QED
    BY <1>1
<1>3. ASSUME q < 0 PROVE FALSE
  <2>1. q * c <= -1 * c
    BY <1>1, <1>2, <1>3, Multiples
  <2> QED
    BY <1>1, <1>2, <2>1
<1>4. ASSUME q = 0 PROVE n = 0
  BY <1>1, <1>2, <1>4
<1>5. ASSUME n = 0, q # 0 PROVE FALSE
  <2>1. 1 * c <= q * c
    BY <1>1, <1>2, <1>3, <1>5, Multiples
  <2> QED
    BY <1>1, <1>2, <1>5, <2>1
<1>6. q \in Nat
  BY <1>2, <1>3
<1> QED
  BY <1>1, <1>2, <1>4, <1>5, <1>6 DEF ChunkCount

(* Each chunk is one record's worth, of at least a byte.                   *)
LEMMA ChunksAre ==
    ASSUME NEW n \in Nat
    PROVE  /\ Chunks(n) = [i \in 1 .. ChunkCount(n) |-> InChunks(n, i) - InChunks(n, i - 1)]
           /\ \A i \in 1 .. ChunkCount(n) :
                InChunks(n, i) - InChunks(n, i - 1) \in 1 .. ChunkSize
           /\ \A i \in Int : InChunks(n, i) \in 0 .. n
<1> DEFINE c == ChunkSize
           q == ChunkCount(n)
<1>1. c \in Nat \ {0} /\ q \in Nat /\ n <= q * c /\ q * c < n + c /\ (q = 0 <=> n = 0)
  BY CountIs, FastCgiAssumption
<1> HIDE DEF c, q
<1>2. \A i \in Int : i < q => (i * c \in Int /\ i * c < n)
  <2> SUFFICES ASSUME NEW i \in Int, i < q PROVE i * c \in Int /\ i * c < n
    OBVIOUS
  <2>1. i * c <= (q - 1) * c /\ i * c \in Int
    BY <1>1, Multiples
  <2>2. (q - 1) * c = q * c - c /\ q * c \in Int
    BY <1>1, Multiples
  <2> QED
    BY <1>1, <2>1, <2>2
<1>3. \A i \in Int : InChunks(n, i) \in 0 .. n
  <2> SUFFICES ASSUME NEW i \in Int PROVE InChunks(n, i) \in 0 .. n
    OBVIOUS
  <2>1. i > 0 => i * c \in Int /\ 0 <= i * c
    BY <1>1, Multiples
  <2>2. i < q => i * c \in Int /\ i * c < n
    BY <1>2
  <2>3. q \in Nat
    BY <1>1
  <2>4. InChunks(n, i) = IF i <= 0 THEN 0 ELSE IF i >= q THEN n ELSE i * c
    BY DEF InChunks, c, q
  <2>5. CASE 0 < i /\ i < q
    BY <2>1, <2>2, <2>3, <2>4, <2>5
  <2>6. CASE ~(0 < i /\ i < q)
    BY <2>3, <2>4, <2>6
  <2> QED
    BY <2>5, <2>6
<1>4. ASSUME NEW i \in 1 .. q
      PROVE  /\ Min({c, n - (i - 1) * c}) = InChunks(n, i) - InChunks(n, i - 1)
             /\ InChunks(n, i) - InChunks(n, i - 1) \in 1 .. c
  <2>1. i - 1 \in Nat /\ i - 1 < q
    BY <1>1
  <2>2. (i - 1) * c \in Int /\ (i - 1) * c < n /\ i * c \in Int /\ (i - 1) * c = i * c - c
    BY <1>1, <1>2, <2>1, Multiples
  <2>3. InChunks(n, i - 1) = (i - 1) * c
    <3>1. CASE i = 1
      BY <1>1, <3>1 DEF InChunks
    <3>2. CASE i # 1
      BY <1>1, <2>1, <3>2 DEF InChunks, c, q
    <3> QED
      BY <3>1, <3>2
  <2>4. CASE i = q
    <3>1. InChunks(n, i) = n
      BY <1>1, <2>4 DEF InChunks, c, q
    <3>2. n - (i - 1) * c \in 1 .. c
      BY <1>1, <2>2, <2>4
    <3>3. Min({c, n - (i - 1) * c}) = n - (i - 1) * c
      BY <1>1, <3>2 DEF Min
    <3> QED
      BY <2>3, <3>1, <3>2, <3>3
  <2>5. CASE i # q
    <3>1. InChunks(n, i) = i * c /\ i * c < n
      BY <1>1, <1>2, <2>5 DEF InChunks, c, q
    <3>2. n - (i - 1) * c \in Int /\ n - (i - 1) * c > c
      BY <1>1, <2>2, <3>1
    <3>3. Min({c, n - (i - 1) * c}) = c
      BY <1>1, <3>2 DEF Min
    <3> QED
      BY <1>1, <2>2, <2>3, <3>1, <3>3
  <2> QED
    BY <2>4, <2>5
<1> QED
  BY <1>3, <1>4 DEF Chunks, ChunkCount, c, q

(* A stream's records carry its chunks and, in the last one, nothing; the  *)
(* 16 bits of a record's length hold it.                                   *)
WireRecord(type) == [type : {type}, length : Nat]

LEMMA StreamIs ==
    ASSUME NEW type, NEW n \in Nat
    PROVE  /\ Stream(type, n) \in Seq(WireRecord(type))
           /\ Len(Stream(type, n)) = ChunkCount(n) + 1
           /\ \A i \in 1 .. ChunkCount(n) + 1 :
                /\ Stream(type, n)[i].type = type
                /\ Stream(type, n)[i].length = InChunks(n, i) - InChunks(n, i - 1)
                /\ Stream(type, n)[i].length = 0 <=> i = ChunkCount(n) + 1
<1> DEFINE q == ChunkCount(n)
           s == [i \in 1 .. q |-> Record(type, Chunks(n)[i])]
<1>1. q \in Nat /\ (q = 0 <=> n = 0)
  BY CountIs
<1>2. \A i \in 1 .. q : /\ InChunks(n, i) - InChunks(n, i - 1) \in 1 .. ChunkSize
                        /\ Chunks(n)[i] = InChunks(n, i) - InChunks(n, i - 1)
  BY ChunksAre
<1>3. DOMAIN Chunks(n) = 1 .. q
  BY ChunksAre
<1> HIDE DEF q
<1>4. ASSUME NEW m \in 0 .. ChunkSize PROVE m % LengthRange = m
  BY FastCgiAssumption
<1>5. \A i \in 1 .. q :
        /\ s[i] \in WireRecord(type) /\ s[i].type = type
        /\ s[i].length = InChunks(n, i) - InChunks(n, i - 1) /\ s[i].length # 0
  <2> SUFFICES ASSUME NEW i \in 1 .. q
               PROVE  /\ s[i] \in WireRecord(type) /\ s[i].type = type
                      /\ s[i].length = InChunks(n, i) - InChunks(n, i - 1) /\ s[i].length # 0
    OBVIOUS
  <2>1. PICK m \in 1 .. ChunkSize : m = InChunks(n, i) - InChunks(n, i - 1) /\ m = Chunks(n)[i]
    BY <1>2
  <2>2. s[i] = [type |-> type, length |-> m]
    BY <1>4, <2>1, FastCgiAssumption DEF Record
  <2> QED
    BY <2>1, <2>2 DEF WireRecord
<1>6. s \in Seq(WireRecord(type)) /\ Len(s) = q
  BY <1>1, <1>5, IsASeq, LenProperties
<1>7. Record(type, 0) = [type |-> type, length |-> 0]
  <2>1. 0 \in 0 .. ChunkSize
    BY FastCgiAssumption
  <2> QED
    BY <1>4, <2>1 DEF Record
<1>8. Stream(type, n) = Append(s, Record(type, 0))
  BY <1>3 DEF Stream
<1> HIDE DEF s
<1>9. /\ Stream(type, n) \in Seq(WireRecord(type)) /\ Len(Stream(type, n)) = q + 1
      /\ \A i \in 1 .. q : Stream(type, n)[i] = s[i]
      /\ Stream(type, n)[q + 1] = [type |-> type, length |-> 0]
  <2>1. Record(type, 0) \in WireRecord(type)
    BY <1>7 DEF WireRecord
  <2> QED
    BY <1>6, <1>7, <1>8, <2>1, AppendProperties
<1>10. InChunks(n, q + 1) = n /\ InChunks(n, q) = n
  BY <1>1 DEF InChunks, q
<1>11. \A i \in 1 .. q + 1 :
         /\ Stream(type, n)[i].type = type
         /\ Stream(type, n)[i].length = InChunks(n, i) - InChunks(n, i - 1)
         /\ Stream(type, n)[i].length = 0 <=> i = q + 1
  <2> SUFFICES ASSUME NEW i \in 1 .. q + 1
               PROVE  /\ Stream(type, n)[i].type = type
                      /\ Stream(type, n)[i].length = InChunks(n, i) - InChunks(n, i - 1)
                      /\ Stream(type, n)[i].length = 0 <=> i = q + 1
    OBVIOUS
  <2>1. CASE i \in 1 .. q
    BY <1>1, <1>5, <1>9, <2>1
  <2>2. CASE i = q + 1
    <3>1. (q + 1) - 1 = q
      BY <1>1
    <3> QED
      BY <1>9, <1>10, <2>2, <3>1
  <2> QED
    BY <1>1, <2>1, <2>2
<1> QED
  BY <1>9, <1>11 DEF q

(* u is s, of length n, followed by t, of length m.                        *)
Joins(u, s, n, t, m) ==
    /\ Len(u) = n + m
    /\ \A k \in 1 .. n : u[k] = s[k]
    /\ \A k \in n + 1 .. n + m : u[k] = t[k - n]

LEMMA ConcatAt ==
    ASSUME NEW S, NEW s \in Seq(S), NEW t \in Seq(S), NEW n \in Nat, NEW m \in Nat,
           Len(s) = n, Len(t) = m
    PROVE  s \o t \in Seq(S) /\ Joins(s \o t, s, n, t, m)
<1>1. /\ s \o t \in Seq(S) /\ Len(s \o t) = Len(s) + Len(t)
      /\ \A i \in 1 .. Len(s) + Len(t) :
           (s \o t)[i] = IF i <= Len(s) THEN s[i] ELSE t[i - Len(s)]
  BY ConcatProperties, Zenon
<1>2. ASSUME NEW k \in 1 .. n PROVE (s \o t)[k] = s[k]
  <2>1. k \in 1 .. n + m /\ k <= n
    OBVIOUS
  <2> QED
    BY <1>1, <2>1
<1>3. ASSUME NEW k \in n + 1 .. n + m PROVE (s \o t)[k] = t[k - n]
  <2>1. k \in 1 .. n + m /\ ~(k <= n)
    OBVIOUS
  <2> QED
    BY <1>1, <2>1
<1> QED
  BY <1>1, <1>2, <1>3 DEF Joins

(* Where each stream ends on the wire.                                     *)
ParamsEnd == ChunkCount(ParamBytes) + 2
StdinEnd(b) == ParamsEnd + ChunkCount(b) + 1

(* The wire of a request with a body of b bytes.                           *)
AnyWireRecord == [type : {"begin", "params", "stdin"}, length : Int]
WireOf(b) == <<Record("begin", 8)>> \o Stream("params", ParamBytes) \o Stream("stdin", b)

LEMMA WireIs ==
    ASSUME NEW b \in Nat
    PROVE  /\ WireOf(b) \in Seq(AnyWireRecord) /\ Len(WireOf(b)) = StdinEnd(b)
           /\ ParamsEnd \in Nat /\ ParamsEnd > 2 /\ StdinEnd(b) \in Nat /\ StdinEnd(b) > ParamsEnd
           /\ \A k \in 1 .. StdinEnd(b) :
                /\ k = 1 => WireOf(b)[k].type = "begin"
                /\ 1 < k /\ k <= ParamsEnd =>
                     /\ WireOf(b)[k].type = "params"
                     /\ WireOf(b)[k].length = InChunks(ParamBytes, k - 1) - InChunks(ParamBytes, k - 2)
                     /\ WireOf(b)[k].length = 0 <=> k = ParamsEnd
                /\ ParamsEnd < k =>
                     /\ WireOf(b)[k].type = "stdin"
                     /\ WireOf(b)[k].length =
                          InChunks(b, k - ParamsEnd) - InChunks(b, k - ParamsEnd - 1)
                     /\ WireOf(b)[k].length = 0 <=> k = StdinEnd(b)
<1> DEFINE first  == <<Record("begin", 8)>>
           params == Stream("params", ParamBytes)
           stdin  == Stream("stdin", b)
           p == ChunkCount(ParamBytes)
           q == ChunkCount(b)
           R == AnyWireRecord
<1>1. p \in Nat /\ q \in Nat /\ ParamBytes \in Nat /\ p # 0
  BY CountIs, FastCgiAssumption
<1>2. first \in Seq(R) /\ Len(first) = 1 /\ first[1].type = "begin"
  <2>1. 8 % LengthRange \in Int
    BY FastCgiAssumption
  <2>2. Record("begin", 8) \in R /\ Record("begin", 8).type = "begin"
    BY <2>1 DEF Record, AnyWireRecord
  <2> HIDE DEF R
  <2> QED
    BY <2>2
<1>3. params \in Seq(R) /\ Len(params) = p + 1
  <2>1. WireRecord("params") \subseteq R
    BY DEF WireRecord, AnyWireRecord
  <2>2. Stream("params", ParamBytes) \in Seq(WireRecord("params")) /\ Len(params) = p + 1
    BY <1>1, StreamIs
  <2> HIDE DEF R
  <2> QED
    BY <2>1, <2>2, SeqMonotonic
<1>4. stdin \in Seq(R) /\ Len(stdin) = q + 1
  <2>1. WireRecord("stdin") \subseteq R
    BY DEF WireRecord, AnyWireRecord
  <2>2. Stream("stdin", b) \in Seq(WireRecord("stdin")) /\ Len(stdin) = q + 1
    BY <1>1, StreamIs
  <2> HIDE DEF R
  <2> QED
    BY <2>1, <2>2, SeqMonotonic
<1>5. \A i \in 1 .. p + 1 : /\ params[i].type = "params"
                            /\ params[i].length = InChunks(ParamBytes, i) - InChunks(ParamBytes, i - 1)
                            /\ params[i].length = 0 <=> i = p + 1
  BY <1>1, StreamIs
<1>6. \A i \in 1 .. q + 1 : /\ stdin[i].type = "stdin"
                            /\ stdin[i].length = InChunks(b, i) - InChunks(b, i - 1)
                            /\ stdin[i].length = 0 <=> i = q + 1
  BY <1>1, StreamIs
<1>7. WireOf(b) = first \o params \o stdin
  BY DEF WireOf
<1>8. PICK m \in Nat, n \in Nat, l \in Nat : m = p + 1 /\ n = q + 1 /\ l = 1 + m
  BY <1>1
<1> HIDE DEF first, params, stdin, p, q, R
<1>9. /\ WireOf(b) \in Seq(R) /\ Len(WireOf(b)) = l + n
      /\ \A k \in 1 .. 1 : WireOf(b)[k] = first[k]
      /\ \A k \in 1 + 1 .. l : WireOf(b)[k] = params[k - 1]
      /\ \A k \in l + 1 .. l + n : WireOf(b)[k] = stdin[k - l]
  <2>1. Len(params) = m /\ Len(stdin) = n
    BY <1>3, <1>4, <1>8
  <2>2. first \o params \in Seq(R) /\ Joins(first \o params, first, 1, params, m)
    BY <1>2, <1>3, <2>1, ConcatAt
  <2>3. PICK start \in Seq(R) : start = first \o params /\ Joins(start, first, 1, params, m)
    BY <2>2, Zenon
  <2>4. Len(start) = l
    BY <1>8, <2>3 DEF Joins
  <2>5. start \o stdin \in Seq(R) /\ Joins(start \o stdin, start, l, stdin, n)
    BY <1>4, <2>1, <2>4, ConcatAt
  <2>6. WireOf(b) \in Seq(R) /\ Joins(WireOf(b), start, l, stdin, n)
    BY <1>7, <2>3, <2>5, Zenon
  <2>7. \A k \in 1 .. 1 : WireOf(b)[k] = first[k]
    <3>1. \A k \in 1 .. l : WireOf(b)[k] = start[k]
      BY <2>6 DEF Joins
    <3>2. \A k \in 1 .. 1 : start[k] = first[k]
      BY <2>3 DEF Joins
    <3> QED
      BY <1>8, <3>1, <3>2
  <2>8. \A k \in 1 + 1 .. l : WireOf(b)[k] = params[k - 1]
    <3>1. \A k \in 1 .. l : WireOf(b)[k] = start[k]
      BY <2>6 DEF Joins
    <3>2. \A k \in 1 + 1 .. 1 + m : start[k] = params[k - 1]
      BY <2>3 DEF Joins
    <3> QED
      BY <1>8, <3>1, <3>2
  <2> QED
    BY <2>6, <2>7, <2>8 DEF Joins
<1>10. ParamsEnd = p + 2 /\ StdinEnd(b) = p + q + 3
  BY <1>1 DEF ParamsEnd, StdinEnd, p, q
<1>11. ASSUME NEW k \in 1 .. p + q + 3, 1 < k, k <= p + 2
       PROVE  /\ WireOf(b)[k].type = "params"
              /\ WireOf(b)[k].length = InChunks(ParamBytes, k - 1) - InChunks(ParamBytes, k - 2)
              /\ WireOf(b)[k].length = 0 <=> k = p + 2
  <2>1. k - 1 \in 1 .. p + 1 /\ (k - 1) - 1 = k - 2 /\ (k - 1 = p + 1 <=> k = p + 2)
    BY <1>1, <1>11
  <2>2. k \in 1 + 1 .. l
    BY <1>1, <1>8, <1>11
  <2>3. WireOf(b)[k] = params[k - 1]
    BY <1>9, <2>2
  <2> QED
    BY <1>5, <2>1, <2>3
<1>12. ASSUME NEW k \in 1 .. p + q + 3, p + 2 < k
       PROVE  /\ WireOf(b)[k].type = "stdin"
              /\ WireOf(b)[k].length = InChunks(b, k - (p + 2)) - InChunks(b, k - (p + 2) - 1)
              /\ WireOf(b)[k].length = 0 <=> k = p + q + 3
  <2>1. k - (p + 2) \in 1 .. q + 1 /\ (k - (p + 2) = q + 1 <=> k = p + q + 3)
    BY <1>1, <1>12
  <2>2. k \in l + 1 .. l + n /\ k - l = k - (p + 2)
    BY <1>1, <1>8, <1>12
  <2>3. WireOf(b)[k] = stdin[k - (p + 2)]
    BY <1>9, <2>2
  <2> QED
    BY <1>6, <2>1, <2>3
<1> QED
  BY <1>1, <1>2, <1>8, <1>9, <1>10, <1>11, <1>12 DEF R

-----------------------------------------------------------------------------
(* What is on its way: the records k + 1 .. n of a sequence.               *)
LEMMA OnItsWay ==
    ASSUME NEW S, NEW s \in Seq(S), NEW n \in 0 .. Len(s), NEW k \in 0 .. n
    PROVE  /\ SubSeq(s, k + 1, n) \in Seq(S) /\ Len(SubSeq(s, k + 1, n)) = n - k
           /\ n < Len(s) => Append(SubSeq(s, k + 1, n), s[n + 1]) = SubSeq(s, k + 1, n + 1)
           /\ k < n => /\ Head(SubSeq(s, k + 1, n)) = s[k + 1]
                       /\ Tail(SubSeq(s, k + 1, n)) = SubSeq(s, (k + 1) + 1, n)
<1>1. Len(s) \in Nat /\ \A i \in 1 .. Len(s) : s[i] \in S
  BY LenProperties, ElementOfSeq
<1>2. SubSeq(s, k + 1, n) \in Seq(S) /\ Len(SubSeq(s, k + 1, n)) = n - k
  <2>1. \A i \in k + 1 .. n : s[i] \in S
    BY <1>1
  <2>2. /\ SubSeq(s, k + 1, n) \in Seq(S)
        /\ Len(SubSeq(s, k + 1, n)) = IF k + 1 <= n THEN n - (k + 1) + 1 ELSE 0
    BY <1>1, <2>1, SubSeqProperties
  <2> QED
    BY <1>1, <2>2
<1>3. ASSUME n < Len(s)
      PROVE  Append(SubSeq(s, k + 1, n), s[n + 1]) = SubSeq(s, k + 1, n + 1)
  <2>1. n + 1 \in 1 .. Len(s) /\ s[n + 1] \in S
    BY <1>1, <1>3
  <2>2. /\ k + 1 \in 1 .. Len(s) + 1 /\ n \in (k + 1) - 1 .. Len(s) /\ n + 1 \in n .. Len(s)
        /\ n + 1 \in 1 .. Len(s) /\ n + 1 \in n + 1 .. Len(s)
    BY <1>1, <1>3
  <2>3. SubSeq(s, k + 1, n) \o SubSeq(s, n + 1, n + 1) = SubSeq(s, k + 1, n + 1)
    BY <2>2, ConcatAdjacentSubSeq
  <2>4. SubSeq(s, n + 1, n + 1) = <<s[n + 1]>>
    <3>1. SubSeq(s, n + 1, n + 1) = <<s[n + 1]>> \o SubSeq(s, (n + 1) + 1, n + 1)
      BY <2>2, SubSeqRecursiveFirst
    <3>2. SubSeq(s, (n + 1) + 1, n + 1) = <<>>
      BY <1>1, SubSeqEmpty
    <3>3. <<s[n + 1]>> \in Seq(S)
      BY <2>1
    <3> QED
      BY <3>1, <3>2, <3>3, ConcatEmptySeq
  <2>5. Append(SubSeq(s, k + 1, n), s[n + 1]) = SubSeq(s, k + 1, n) \o <<s[n + 1]>>
    BY <1>2, <2>1, AppendIsConcat
  <2> QED
    BY <2>3, <2>4, <2>5
<1>4. ASSUME k < n
      PROVE  /\ Head(SubSeq(s, k + 1, n)) = s[k + 1]
             /\ Tail(SubSeq(s, k + 1, n)) = SubSeq(s, (k + 1) + 1, n)
  <2>1. k + 1 \in 1 .. Len(s) /\ n \in k + 1 .. Len(s)
    BY <1>1, <1>4
  <2> QED
    BY <2>1, HeadTailOfSubSeq
<1> QED
  BY <1>2, <1>3, <1>4

-----------------------------------------------------------------------------
(* What PHP knows when it has read k records of a request with a body of b *)
(* bytes, and how a record adds to it.                                     *)
EndedAfter(b, k) ==
    (IF k >= ParamsEnd THEN {"params"} ELSE {}) \cup (IF k >= StdinEnd(b) THEN {"stdin"} ELSE {})

HeardAfter(b, k) ==
    [params |-> InChunks(ParamBytes, k - 1), stdin |-> InChunks(b, k - ParamsEnd),
     ended |-> EndedAfter(b, k)]

Hears(h, record) ==
    IF record.type = "begin" \/ record.type \in h.ended THEN h
    ELSE IF record.length = 0 THEN [h EXCEPT !.ended = @ \cup {record.type}]
    ELSE [h EXCEPT ![record.type] = @ + record.length]

LEMMA HearsNext ==
    ASSUME NEW b \in Nat, NEW k \in Nat, k < StdinEnd(b)
    PROVE  Hears(HeardAfter(b, k), WireOf(b)[k + 1]) = HeardAfter(b, k + 1)
<1> DEFINE pe == ParamsEnd
           se == StdinEnd(b)
<1>1. pe \in Nat /\ se \in Nat /\ 2 < pe /\ pe < se /\ ParamBytes \in Nat
  BY WireIs, FastCgiAssumption
<1>2. PICK j \in 1 .. se : j = k + 1
  BY <1>1
<1>3. PICK r : r = WireOf(b)[j]
  OBVIOUS
<1>4. PICK p \in Int, q \in Int, p1 \in Int, q1 \in Int :
          /\ p = InChunks(ParamBytes, j - 2) /\ p1 = InChunks(ParamBytes, j - 1)
          /\ q = InChunks(b, j - pe - 1) /\ q1 = InChunks(b, j - pe)
  <2>1. \A i \in Int : InChunks(ParamBytes, i) \in 0 .. ParamBytes
    BY <1>1, ChunksAre
  <2>2. \A i \in Int : InChunks(b, i) \in 0 .. b
    BY ChunksAre
  <2>3. PICK i1 \in Int, i2 \in Int, i3 \in Int, i4 \in Int :
            i1 = j - 2 /\ i2 = j - 1 /\ i3 = j - pe - 1 /\ i4 = j - pe
    BY <1>1
  <2>4. InChunks(ParamBytes, i1) \in Int /\ InChunks(ParamBytes, i2) \in Int
    BY <1>1, <2>1
  <2>5. InChunks(b, i3) \in Int /\ InChunks(b, i4) \in Int
    BY <1>1, <2>2
  <2> QED
    BY <2>3, <2>4, <2>5
<1>5. /\ j = 1 => r.type = "begin"
      /\ 1 < j /\ j <= pe => /\ r.type = "params" /\ r.length = p1 - p
                             /\ r.length = 0 <=> j = pe
      /\ pe < j => /\ r.type = "stdin" /\ r.length = q1 - q
                   /\ r.length = 0 <=> j = se
  BY <1>2, <1>3, <1>4, WireIs
<1>6. /\ j <= pe => q = 0 /\ q1 = 0
      /\ j = 1 => p = 0 /\ p1 = 0
      /\ pe < j => p = ParamBytes /\ p1 = ParamBytes
  <2>1. /\ \A i \in Int : i <= 0 => InChunks(b, i) = 0 /\ InChunks(ParamBytes, i) = 0
        /\ \A i \in Int : i > 0 /\ i >= pe - 2 => InChunks(ParamBytes, i) = ParamBytes
    <3>1. ChunkCount(ParamBytes) \in Nat \ {0} /\ pe - 2 = ChunkCount(ParamBytes)
      BY <1>1, CountIs DEF ParamsEnd
    <3> QED
      BY <3>1 DEF InChunks
  <2>2. j - 2 \in Int /\ j - 1 \in Int /\ j - pe - 1 \in Int /\ j - pe \in Int
    BY <1>1
  <2>3. j <= pe => q = 0 /\ q1 = 0
    BY <1>1, <1>4, <2>1, <2>2
  <2>4. j = 1 => p = 0 /\ p1 = 0
    BY <1>1, <1>4, <2>1, <2>2
  <2>5. pe < j => p = ParamBytes /\ p1 = ParamBytes
    BY <1>1, <1>4, <2>1, <2>2
  <2> QED
    BY <2>3, <2>4, <2>5
<1>7. PICK e, e1 : e = EndedAfter(b, j - 1) /\ e1 = EndedAfter(b, j)
  OBVIOUS
<1>8. /\ e = (IF j - 1 >= pe THEN {"params"} ELSE {})
      /\ "params" \in e <=> j - 1 >= pe
      /\ "stdin" \notin e
      /\ j < pe => e1 = {}
      /\ pe <= j /\ j < se => e1 = {"params"}
      /\ j = se => e1 = {"params"} \cup {"stdin"}
  BY <1>1, <1>7 DEF EndedAfter, pe, se
<1>9. PICK h, h1 : h = [params |-> p, stdin |-> q, ended |-> e] /\ h1 = [params |-> p1, stdin |-> q1, ended |-> e1]
  OBVIOUS
<1>10. HeardAfter(b, k) = h /\ HeardAfter(b, k + 1) = h1
  <2>1. k = j - 1 /\ k - 1 = j - 2 /\ k - pe = j - pe - 1 /\ k + 1 = j
    BY <1>1, <1>2
  <2> QED
    BY <1>4, <1>7, <1>9, <2>1 DEF HeardAfter
<1> HIDE DEF pe, se
<1>11. Hears(h, r) = h1
  <2>1. CASE j = 1
    <3>1. e = {} /\ e1 = {}
      BY <1>1, <1>8, <2>1
    <3> QED
      BY <1>1, <1>5, <1>6, <1>9, <2>1, <3>1 DEF Hears
  <2>2. CASE 1 < j /\ j < pe
    <3>1. e = {} /\ e1 = {} /\ q = q1
      BY <1>1, <1>6, <1>8, <2>2
    <3>2. r.type = "params" /\ r.length # 0 /\ p + r.length = p1
      BY <1>1, <1>5, <2>2
    <3> QED
      BY <1>9, <3>1, <3>2 DEF Hears
  <2>3. CASE j = pe
    <3>1. e = {} /\ e1 = {"params"} /\ q = q1
      BY <1>1, <1>6, <1>8, <2>3
    <3>2. r.type = "params" /\ r.length = 0 /\ p = p1
      BY <1>1, <1>5, <2>3
    <3> QED
      BY <1>9, <3>1, <3>2 DEF Hears
  <2>4. CASE pe < j /\ j < se
    <3>1. e = {"params"} /\ e1 = {"params"} /\ p = p1
      BY <1>1, <1>6, <1>8, <2>4
    <3>2. r.type = "stdin" /\ r.length # 0 /\ q + r.length = q1
      BY <1>1, <1>5, <2>4
    <3>3. Hears(h, r) = [h EXCEPT !.stdin = @ + r.length]
      BY <1>9, <3>1, <3>2 DEF Hears
    <3> QED
      BY <1>9, <3>1, <3>2, <3>3
  <2>5. CASE j = se
    <3>1. e = {"params"} /\ e1 = {"params"} \cup {"stdin"} /\ p = p1
      BY <1>1, <1>6, <1>8, <2>5
    <3>2. r.type = "stdin" /\ r.length = 0 /\ q = q1
      BY <1>1, <1>5, <2>5
    <3> QED
      BY <1>9, <3>1, <3>2 DEF Hears
  <2> QED
    BY <1>1, <1>2, <2>1, <2>2, <2>3, <2>4, <2>5
<1> QED
  BY <1>2, <1>3, <1>10, <1>11

-----------------------------------------------------------------------------
(* What was written and not yet read is on its way, and PHP knows what it  *)
(* read.                                                                   *)
HeardInv ==
    /\ body \in Nat /\ sent \in 0 .. StdinEnd(body)
    /\ pc = "connect" => sent = 0
    /\ pc = "write" => sent < StdinEnd(body)
    /\ \E k \in 0 .. sent :
         up = SubSeq(WireOf(body), k + 1, sent) /\ heard = HeardAfter(body, k)

LEMMA WireOfBody == Wire = WireOf(body)
  BY DEF Wire, WireOf

LEMMA HeardInit == ExchangeInit => HeardInv
<1> SUFFICES ASSUME ExchangeInit PROVE HeardInv
  OBVIOUS
<1>1. body \in Nat /\ sent = 0 /\ up = <<>> /\ heard = Nothing /\ pc = "connect"
  BY FastCgiAssumption DEF ExchangeInit
<1>2. StdinEnd(body) \in Nat /\ ParamsEnd \in Nat /\ StdinEnd(body) > ParamsEnd /\ ParamsEnd > 2
  BY <1>1, WireIs
<1>3. SubSeq(WireOf(body), 0 + 1, 0) = <<>>
  BY SubSeqEmpty
<1>4. HeardAfter(body, 0) = Nothing
  <2>1. InChunks(ParamBytes, 0 - 1) = 0
    BY DEF InChunks
  <2>2. InChunks(body, 0 - ParamsEnd) = 0
    <3>1. 0 - ParamsEnd <= 0
      BY <1>2
    <3> QED
      BY <3>1 DEF InChunks
  <2>3. EndedAfter(body, 0) = {}
    BY <1>2 DEF EndedAfter
  <2> QED
    BY <2>1, <2>2, <2>3 DEF HeardAfter, Nothing
<1> QED
  BY <1>1, <1>2, <1>3, <1>4 DEF HeardInv

(* PHP's reading is Hears.                                                 *)
LEMMA ReadingIsHearing ==
    PhpReads => /\ up # <<>> /\ up' = Tail(up) /\ heard' = Hears(heard, Head(up))
                /\ UNCHANGED <<body, pc, sent>>
  BY DEF PhpReads, Hears, worker

LEMMA HeardStep == HeardInv /\ [ExchangeNext]_exchangeVars => HeardInv'
<1> SUFFICES ASSUME HeardInv, [ExchangeNext]_exchangeVars PROVE HeardInv'
  OBVIOUS
<1>1. PICK k \in 0 .. sent : up = SubSeq(WireOf(body), k + 1, sent) /\ heard = HeardAfter(body, k)
  BY DEF HeardInv
<1>2. /\ body \in Nat /\ StdinEnd(body) \in Nat /\ sent \in 0 .. StdinEnd(body) /\ k \in Nat
      /\ WireOf(body) \in Seq(AnyWireRecord) /\ Len(WireOf(body)) = StdinEnd(body)
  BY SMTT(30), WireIs DEF HeardInv
<1>3. ASSUME UNCHANGED <<body, sent, up, heard>>,
             pc' = pc \/ pc' \notin {"connect", "write"} \/ pc = "connect"
      PROVE  HeardInv'
  <2>1. pc = "connect" => sent < StdinEnd(body)
    BY <1>2, WireIs DEF HeardInv
  <2> QED
    BY <1>3, <2>1 DEF HeardInv
<1>4. CASE Send
  <2>1. /\ sent < StdinEnd(body) /\ sent' = sent + 1 /\ body' = body /\ heard' = heard
        /\ up' = Append(up, WireOf(body)[sent + 1])
        /\ pc' \in {"read", "write"} /\ (pc' = "write" => sent' # StdinEnd(body))
    BY <1>2, <1>4, WireOfBody DEF Send, HeardInv, php
  <2>2. up' = SubSeq(WireOf(body), k + 1, sent + 1)
    BY <1>1, <1>2, <2>1, OnItsWay
  <2>3. k \in 0 .. sent' /\ sent' \in 0 .. StdinEnd(body) /\ (pc' = "write" => sent' < StdinEnd(body))
    BY <1>2, <2>1
  <2> QED
    BY <1>1, <1>2, <2>1, <2>2, <2>3 DEF HeardInv
<1>5. CASE PhpReads
  <2>1. /\ up # <<>> /\ up' = Tail(up) /\ heard' = Hears(heard, Head(up))
        /\ body' = body /\ pc' = pc /\ sent' = sent
    BY <1>5, ReadingIsHearing
  <2>2. k < sent
    <3>1. k >= sent => up = <<>>
      BY <1>1, <1>2, SubSeqEmpty
    <3> QED
      BY <1>2, <2>1, <3>1
  <2>3. Head(up) = WireOf(body)[k + 1] /\ Tail(up) = SubSeq(WireOf(body), (k + 1) + 1, sent)
    BY <1>1, <1>2, <2>2, OnItsWay
  <2>4. heard' = HeardAfter(body, k + 1)
    <3>1. k < StdinEnd(body)
      BY <1>2, <2>2
    <3> QED
      BY <1>1, <1>2, <2>1, <2>3, <3>1, HearsNext
  <2>5. k + 1 \in 0 .. sent
    BY <1>2, <2>2
  <2> QED
    BY <2>1, <2>3, <2>4, <2>5 DEF HeardInv
<1>6. CASE Connect
  BY <1>3, <1>6 DEF Connect, php
<1>7. CASE SendFails \/ Receive \/ ReceiveEnd \/ ReceiveTimeout
  <2>1. UNCHANGED <<body, sent, up, heard>>
    BY <1>7 DEF SendFails, Receive, ReceiveEnd, ReceiveTimeout, php
  <2>2. pc' = pc \/ pc' \notin {"connect", "write"}
    BY <1>7 DEF SendFails, Receive, ReceiveEnd, ReceiveTimeout, Take, Finish, Unavailable
  <2> QED
    BY <1>3, <2>1, <2>2
<1>8. CASE PhpWrites \/ PhpFinishes \/ PhpStops \/ Done \/ UNCHANGED exchangeVars
  BY <1>3, <1>8 DEF PhpWrites, PhpFinishes, PhpStops, Done, exchangeVars, worker, php
<1> QED
  BY <1>4, <1>5, <1>6, <1>7, <1>8 DEF ExchangeNext, Worker, Php

LEMMA HeardEnough == HeardInv => ScriptReadsRequest
<1> SUFFICES ASSUME HeardInv PROVE ScriptReadsRequest
  OBVIOUS
<1>1. PICK k \in 0 .. sent : heard = HeardAfter(body, k)
  BY DEF HeardInv
<1>2. /\ body \in Nat /\ ParamBytes \in Nat /\ k \in Nat
      /\ ParamsEnd \in Nat /\ ParamsEnd > 2 /\ StdinEnd(body) \in Nat /\ StdinEnd(body) > ParamsEnd
  BY WireIs, FastCgiAssumption DEF HeardInv
<1>3. InChunks(ParamBytes, k - 1) \in 0 .. ParamBytes /\ InChunks(body, k - ParamsEnd) \in 0 .. body
  <2>1. k - 1 \in Int /\ k - ParamsEnd \in Int
    BY <1>2
  <2> QED
    BY <1>2, <2>1, ChunksAre
<1>4. ASSUME k >= ParamsEnd PROVE InChunks(ParamBytes, k - 1) = ParamBytes
  <2>1. ChunkCount(ParamBytes) \in Nat /\ k - 1 > 0 /\ k - 1 >= ChunkCount(ParamBytes)
    BY <1>2, <1>4, CountIs DEF ParamsEnd
  <2> QED
    BY <1>2, <2>1 DEF InChunks
<1>5. ASSUME k >= StdinEnd(body) PROVE InChunks(body, k - ParamsEnd) = body
  <2>1. ChunkCount(body) \in Nat /\ k - ParamsEnd > 0 /\ k - ParamsEnd >= ChunkCount(body)
    BY <1>2, <1>5, CountIs DEF StdinEnd
  <2> QED
    BY <1>2, <2>1 DEF InChunks
<1>6. /\ "params" \in heard.ended => k >= ParamsEnd
      /\ "stdin" \in heard.ended => k >= StdinEnd(body)
  BY <1>1 DEF HeardAfter, EndedAfter
<1>7. heard.params = InChunks(ParamBytes, k - 1) /\ heard.stdin = InChunks(body, k - ParamsEnd)
  BY <1>1 DEF HeardAfter
<1> QED
  BY <1>2, <1>3, <1>4, <1>5, <1>6, <1>7 DEF ScriptReadsRequest

(* The script reads exactly the request, for any body, any size of the     *)
(* parameters, and any chunk that the 16 bits of a length can count.       *)
THEOREM ScriptReadsWhatWasSent == ExchangeSpec => []ScriptReadsRequest
<1>1. HeardInv => ScriptReadsRequest
  BY HeardEnough
<1> QED
  BY HeardInit, HeardStep, <1>1, PTL DEF ExchangeSpec

-----------------------------------------------------------------------------
(* PHP's output, record by record.                                         *)
LEMMA PrintedSteps ==
    ASSUME NEW records \in Seq(PhpRecord)
    PROVE  /\ Printed(records)[0] = <<>>
           /\ \A n \in 1 .. Len(records) : Printed(records)[n] = Adds(records, Printed(records), n)
<1>1. PICK f : f = Printed(records)
  OBVIOUS
<1>2. f = [n \in 0 .. Len(records) |-> Adds(records, f, n)] /\ Len(records) \in Nat
  BY <1>1, PrintedIs, LenProperties
<1>3. f[0] = Adds(records, f, 0)
  BY <1>2
<1>4. Adds(records, f, 0) = <<>>
  BY DEF Adds
<1>5. \A n \in 1 .. Len(records) : f[n] = Adds(records, f, n)
  BY <1>2
<1> QED
  BY <1>1, <1>3, <1>4, <1>5

LEMMA ContentType ==
    ASSUME NEW records \in Seq(PhpRecord), NEW n \in 1 .. Len(records)
    PROVE  records[n] \in PhpRecord /\ records[n].content \in Seq(Pieces)
<1>1. records[n] \in PhpRecord
  BY ElementOfSeq
<1> QED
  BY <1>1 DEF PhpRecord

LEMMA PrintedType ==
    ASSUME NEW records \in Seq(PhpRecord)
    PROVE  \A n \in 0 .. Len(records) : Printed(records)[n] \in Seq(Pieces)
<1>1. PICK f : f = Printed(records)
  OBVIOUS
<1>2. /\ f[0] = <<>> /\ Len(records) \in Nat
      /\ \A n \in 1 .. Len(records) : f[n] = Adds(records, f, n)
  BY <1>1, PrintedSteps, LenProperties
<1> DEFINE S == {n \in Nat : n <= Len(records) => f[n] \in Seq(Pieces)}
<1>3. 0 \in S
  BY <1>2, EmptySeq
<1>4. ASSUME NEW n \in Nat, n \in S PROVE n + 1 \in S
  <2> SUFFICES ASSUME n + 1 <= Len(records) PROVE f[n + 1] \in Seq(Pieces)
    OBVIOUS
  <2>1. f[n] \in Seq(Pieces)
    BY <1>2, <1>4
  <2>2. n + 1 \in 1 .. Len(records) /\ n + 1 # 0 /\ n + 1 - 1 = n
    BY <1>2
  <2>3. records[n + 1].content \in Seq(Pieces)
    BY <2>2, ContentType
  <2>4. f[n] \o records[n + 1].content \in Seq(Pieces)
    BY <2>1, <2>3, ConcatProperties
  <2>5. f[n + 1] = IF records[n + 1].type = "stdout" THEN f[n] \o records[n + 1].content ELSE f[n]
    BY <1>2, <2>2 DEF Adds
  <2> QED
    BY <2>1, <2>4, <2>5
<1>5. \A n \in Nat : n \in S
  BY <1>3, <1>4, InductionOnSet
<1> QED
  BY <1>1, <1>5

(* What follows does not change what was there.                            *)
LEMMA PrefixOfMore ==
    ASSUME NEW S, NEW s \in Seq(S), NEW t \in Seq(S), NEW u \in Seq(S), IsPrefix(s, t)
    PROVE  IsPrefix(s, t \o u)
<1>1. PICK n \in Nat, m \in Nat, l \in Nat : n = Len(s) /\ m = Len(t) /\ l = Len(u)
  BY LenProperties
<1>2. t \o u \in Seq(S) /\ Joins(t \o u, t, m, u, l)
  BY <1>1, ConcatAt
<1>3. PICK w \in Seq(S) : w = t \o u /\ Len(w) = m + l /\ \A k \in 1 .. m : w[k] = t[k]
  BY <1>2 DEF Joins
<1>4. n <= m /\ SubSeq(s, 1, n) = SubSeq(t, 1, n)
  BY <1>1 DEF IsPrefix
<1>5. SubSeq(w, 1, n) = SubSeq(t, 1, n)
  BY <1>1, <1>3, <1>4
<1> QED
  BY <1>1, <1>3, <1>4, <1>5 DEF IsPrefix

LEMMA PrintedGrows ==
    ASSUME NEW records \in Seq(PhpRecord), NEW i \in 0 .. Len(records)
    PROVE  \A j \in i .. Len(records) : IsPrefix(Printed(records)[i], Printed(records)[j])
<1>1. PICK f : f = Printed(records)
  OBVIOUS
<1>2. /\ Len(records) \in Nat
      /\ \A n \in 1 .. Len(records) : f[n] = Adds(records, f, n)
      /\ \A n \in 0 .. Len(records) : f[n] \in Seq(Pieces)
  BY <1>1, PrintedSteps, PrintedType, LenProperties
<1> DEFINE S == {n \in Nat : n >= i /\ n <= Len(records) => IsPrefix(f[i], f[n])}
<1>3. IsPrefix(f[i], f[i])
  BY <1>2 DEF IsPrefix
<1>4. 0 \in S
  BY <1>3
<1>5. ASSUME NEW n \in Nat, n \in S PROVE n + 1 \in S
  <2> SUFFICES ASSUME n + 1 >= i, n + 1 <= Len(records) PROVE IsPrefix(f[i], f[n + 1])
    OBVIOUS
  <2>1. CASE n + 1 = i
    BY <1>3, <2>1
  <2>2. CASE n + 1 # i
    <3>1. IsPrefix(f[i], f[n]) /\ f[i] \in Seq(Pieces) /\ f[n] \in Seq(Pieces)
      BY <1>2, <1>5, <2>2
    <3>2. n + 1 \in 1 .. Len(records) /\ n + 1 # 0 /\ n + 1 - 1 = n
      BY <1>2
    <3>3. records[n + 1].content \in Seq(Pieces)
      BY <3>2, ContentType
    <3>4. IsPrefix(f[i], f[n] \o records[n + 1].content)
      BY <3>1, <3>3, PrefixOfMore
    <3>5. f[n + 1] = IF records[n + 1].type = "stdout" THEN f[n] \o records[n + 1].content ELSE f[n]
      BY <1>2, <3>2 DEF Adds
    <3> QED
      BY <3>1, <3>4, <3>5
  <2> QED
    BY <2>1, <2>2
<1>6. \A n \in Nat : n \in S
  BY <1>4, <1>5, InductionOnSet
<1> QED
  BY <1>1, <1>6

(* The end of the request: no record that ends it comes before.            *)
LEMMA EndIs ==
    ASSUME NEW records \in Seq(PhpRecord)
    PROVE  /\ EndOf(records) \in 0 .. Len(records)
           /\ \A i \in 1 .. Len(records) : records[i].type = "end" => EndOf(records) <= i
           /\ EndOf(records) # Len(records) =>
                EndOf(records) # 0 /\ records[EndOf(records)].type = "end"
<1> DEFINE ends == {i \in DOMAIN records : records[i].type = "end"}
<1>1. Len(records) \in Nat /\ DOMAIN records = 1 .. Len(records) /\ ends \subseteq Nat
  BY LenProperties
<1>2. CASE ends = {}
  BY <1>1, <1>2 DEF EndOf
<1>3. CASE ends # {}
  <2>1. Min(ends) \in ends /\ \A i \in ends : Min(ends) <= i
    BY <1>1, <1>3, LeastNumber
  <2>2. EndOf(records) = Min(ends)
    BY <1>3 DEF EndOf
  <2> QED
    BY <1>1, <2>1, <2>2
<1> QED
  BY <1>2, <1>3

(* The first r records were collected, and none of them ends the request.  *)
LEMMA OutputSoFar ==
    ASSUME NEW records \in Seq(PhpRecord), NEW r \in 0 .. Len(records),
           \A i \in 1 .. r : records[i].type # "end"
    PROVE  /\ IsPrefix(Printed(records)[r], StdoutOf(records))
           /\ r = Len(records) => Printed(records)[r] = StdoutOf(records)
           /\ r < Len(records) /\ records[r + 1].type = "end" =>
                Printed(records)[r] = StdoutOf(records)
<1>1. PICK e \in 0 .. Len(records) :
          /\ e = EndOf(records)
          /\ \A i \in 1 .. Len(records) : records[i].type = "end" => e <= i
          /\ e # Len(records) => e # 0 /\ records[e].type = "end"
  BY EndIs
<1>2. PICK f : f = Printed(records)
  OBVIOUS
<1>3. StdoutOf(records) = f[e] /\ Len(records) \in Nat
  BY <1>1, <1>2, LenProperties DEF StdoutOf
<1>4. r <= e
  BY <1>1, <1>3
<1>5. IsPrefix(f[r], f[e])
  BY <1>2, <1>3, <1>4, PrintedGrows
<1>6. ASSUME r < Len(records), records[r + 1].type = "end"
      PROVE  f[r] = f[e]
  <2>1. r + 1 \in 1 .. Len(records) /\ e <= r + 1 /\ e # r
    BY <1>1, <1>3, <1>6
  <2>2. e = r + 1
    BY <1>3, <1>4, <2>1
  <2>3. f[r + 1] = Adds(records, f, r + 1)
    BY <1>2, <2>1, PrintedSteps
  <2>4. Adds(records, f, r + 1) = f[r]
    BY <1>3, <1>6 DEF Adds
  <2> QED
    BY <2>2, <2>3, <2>4
<1>7. r = Len(records) => r = e
  BY <1>3, <1>4
<1> QED
  BY <1>2, <1>3, <1>5, <1>6, <1>7

(* A page whose header ends in CRLF is divided where it should be.         *)
LEMMA PageIsParsed ==
    ASSUME NEW raw \in Seq(Pieces), CrlfHeader(raw)
    PROVE  ParseCgi(raw) = PageOf(raw)
<1> DEFINE at(kind) == {i \in DOMAIN raw : raw[i] = kind}
           blank == {i \in DOMAIN raw : raw[i] \in {"crlf", "lf"}}
<1>1. DOMAIN raw \subseteq Nat /\ 0 \notin DOMAIN raw /\ DOMAIN raw = 1 .. Len(raw) /\ Len(raw) \in Nat
  BY LenProperties
<1>2. Split(raw) = IF blank = {} THEN 0 ELSE Min(blank)
  <2>1. CASE at("crlf") # {}
    <3>1. PICK c \in at("crlf") : c = Min(at("crlf")) /\ \A i \in at("crlf") : c <= i
      BY <1>1, <2>1, LeastNumber
    <3>2. First(raw, "crlf") = c /\ c # 0
      BY <1>1, <2>1, <3>1 DEF First
    <3>3. \A i \in 1 .. c : raw[i] # "lf"
      BY <3>2 DEF CrlfHeader
    <3>4. \A i \in blank : c <= i
      BY <1>1, <3>1, <3>3
    <3>5. c \in blank
      BY <3>1
    <3>6. Min(blank) \in blank /\ \A i \in blank : Min(blank) <= i
      BY <1>1, <3>5, LeastNumber
    <3>7. Min(blank) = c
      <4>1. PICK d \in blank : d = Min(blank) /\ \A i \in blank : d <= i
        BY <3>6
      <4>2. c \in Nat /\ d \in Nat /\ c <= d /\ d <= c
        BY <1>1, <3>4, <3>5, <4>1
      <4> QED
        BY <4>1, <4>2
    <3> QED
      BY <3>2, <3>5, <3>7 DEF Split
  <2>2. CASE at("crlf") = {}
    <3>1. First(raw, "crlf") = 0
      BY <2>2 DEF First
    <3>2. blank = at("lf")
      BY <2>2
    <3> QED
      BY <3>1, <3>2 DEF Split, First
  <2> QED
    BY <2>1, <2>2
<1> QED
  BY <1>2 DEF ParseCgi, PageOf

-----------------------------------------------------------------------------
(* What comes back: the worker has collected the first r records, and the  *)
(* next ones are on their way, all of those that were written unless some  *)
(* were lost.                                                              *)
DownRecord == PhpRecord \cup {[type |-> "cut"]}

Collected(r) ==
    /\ stdoutData = Printed(output)[r]
    /\ stderrData => \E i \in 1 .. r : IsError(output[i])
    /\ \A i \in 1 .. r : output[i].type # "end"
    /\ \A k \in 1 .. Len(down) :
         IF down[k].type = "cut" THEN lost ELSE r + k <= written /\ down[k] = output[r + k]
    /\ ~lost => Len(down) = written - r
    /\ lost => closed

CollectInv ==
    /\ output \in Seq(PhpRecord) /\ written \in 0 .. Len(output)
    /\ down \in Seq(DownRecord)
    /\ lost \in BOOLEAN
    /\ closed /\ ~lost => written = Len(output)
    /\ ~Ended => \E r \in 0 .. written : Collected(r)

ResultInv == AnswerIsPhps /\ FailsForAReason

LEMMA CollectInit == ExchangeInit => CollectInv /\ ResultInv
<1> SUFFICES ASSUME ExchangeInit PROVE CollectInv /\ ResultInv
  OBVIOUS
<1>1. /\ output \in Seq(PhpRecord) /\ written = 0 /\ down = <<>> /\ lost = FALSE /\ closed = FALSE
      /\ stdoutData = <<>> /\ stderrData = FALSE /\ pc = "connect"
  BY FastCgiAssumption DEF ExchangeInit
<1>2. Printed(output)[0] = <<>> /\ Len(output) \in Nat /\ Len(down) = 0 /\ down \in Seq(DownRecord)
  BY <1>1, PrintedSteps, LenProperties, EmptySeq
<1>3. Collected(0)
  BY <1>1, <1>2 DEF Collected
<1>4. CollectInv
  <2>1. \E r \in 0 .. written : Collected(r)
    BY <1>1, <1>3
  <2>2. written \in 0 .. Len(output)
    BY <1>1, <1>2
  <2> QED
    BY <1>1, <1>2, <2>1, <2>2 DEF CollectInv
<1>5. IsPrefix(stdoutData, StdoutOf(output))
  <2>1. \A i \in 1 .. 0 : output[i].type # "end"
    OBVIOUS
  <2>2. 0 \in 0 .. Len(output)
    BY <1>2
  <2> QED
    BY <1>1, <1>2, <2>1, <2>2, OutputSoFar
<1>6. ResultInv
  BY <1>1, <1>5 DEF ResultInv, AnswerIsPhps, FailsForAReason
<1> QED
  BY <1>4, <1>6

(* A step that leaves the worker alone leaves what it said alone.          *)
LEMMA ResultStays ==
    ASSUME ResultInv, UNCHANGED <<body, output, pc, sent, stdoutData, answer>>, lost => lost'
    PROVE  ResultInv'
<1>1. WireOf(body') = WireOf(body)
  BY DEF WireOf
<1>2. Wire' = Wire
  BY DEF Wire
<1> QED
  BY <1>2 DEF ResultInv, AnswerIsPhps, FailsForAReason

(* The end of the loop, with everything of the page or with a loss.        *)
LEMMA FinishIsRight ==
    ASSUME output \in Seq(PhpRecord), IsPrefix(stdoutData, StdoutOf(output)),
           UNCHANGED <<output, stdoutData>>, Finish(stdoutData, stderrData),
           stderrData => \E i \in DOMAIN output : IsError(output[i]),
           lost' \/ stdoutData = StdoutOf(output), StdoutOf(output) \in Seq(Pieces)
    PROVE  ResultInv' /\ Ended'
<1>1. CASE stderrData /\ stdoutData = <<>>
  <2>1. pc' = "failed"
    BY <1>1 DEF Finish, Unavailable
  <2> QED
    BY <1>1, <2>1 DEF ResultInv, AnswerIsPhps, FailsForAReason, Ended
<1>2. CASE ~(stderrData /\ stdoutData = <<>>)
  <2>1. pc' = "answered" /\ answer' = ParseCgi(stdoutData)
    BY <1>2 DEF Finish
  <2>2. ~lost' /\ CrlfHeader(StdoutOf(output)) => answer' = PageOf(StdoutOf(output))
    BY <2>1, PageIsParsed
  <2> QED
    BY <2>1, <2>2 DEF ResultInv, AnswerIsPhps, FailsForAReason, Ended
<1> QED
  BY <1>1, <1>2

(* A failure, with its reason.                                             *)
LEMMA FailureIsRight ==
    ASSUME IsPrefix(stdoutData, StdoutOf(output)), UNCHANGED <<body, output, sent, stdoutData>>, Unavailable,
           sent < Len(Wire) \/ lost' \/ \E i \in DOMAIN output : output[i].id # 1
    PROVE  ResultInv' /\ Ended'
<1>1. Wire' = Wire
  BY DEF Wire
<1>2. pc' = "failed"
  BY DEF Unavailable
<1> QED
  BY <1>1, <1>2 DEF ResultInv, AnswerIsPhps, FailsForAReason, Ended

(* What is on its way, cut off behind n records.                           *)
LEMMA CutOff ==
    ASSUME NEW S, NEW s \in Seq(S), NEW n \in 0 .. Len(s)
    PROVE  /\ SubSeq(s, 1, n) \in Seq(S) /\ Len(SubSeq(s, 1, n)) = n
           /\ \A k \in 1 .. n : SubSeq(s, 1, n)[k] = s[k]
<1>1. Len(s) \in Nat /\ \A i \in 1 .. n : s[i] \in S
  BY LenProperties, ElementOfSeq
<1>2. /\ SubSeq(s, 1, n) \in Seq(S)
      /\ Len(SubSeq(s, 1, n)) = IF 1 <= n THEN n - 1 + 1 ELSE 0
      /\ \A i \in 1 .. n - 1 + 1 : SubSeq(s, 1, n)[i] = s[1 + i - 1]
  BY <1>1, SubSeqProperties
<1> QED
  BY <1>1, <1>2

LEMMA CollectStep ==
    HeardInv /\ CollectInv /\ ResultInv /\ [ExchangeNext]_exchangeVars => CollectInv' /\ ResultInv'
<1> SUFFICES ASSUME HeardInv, CollectInv, ResultInv, [ExchangeNext]_exchangeVars
             PROVE  CollectInv' /\ ResultInv'
  OBVIOUS
<1>1. /\ output \in Seq(PhpRecord) /\ written \in 0 .. Len(output) /\ Len(output) \in Nat
      /\ DOMAIN output = 1 .. Len(output) /\ StdoutOf(output) \in Seq(Pieces)
      /\ down \in Seq(DownRecord) /\ Len(down) \in Nat /\ lost \in BOOLEAN
  <2>1. /\ output \in Seq(PhpRecord) /\ written \in 0 .. Len(output)
        /\ down \in Seq(DownRecord) /\ lost \in BOOLEAN
    BY DEF CollectInv
  <2>2. Len(output) \in Nat /\ DOMAIN output = 1 .. Len(output) /\ Len(down) \in Nat
    BY <2>1, LenProperties
  <2>3. EndOf(output) \in 0 .. Len(output)
    BY <2>1, EndIs
  <2>4. StdoutOf(output) \in Seq(Pieces)
    BY <2>1, <2>3, PrintedType DEF StdoutOf
  <2> QED
    BY <2>1, <2>2, <2>4
<1>2. IsPrefix(stdoutData, StdoutOf(output))
  BY DEF ResultInv, AnswerIsPhps
<1>3. closed /\ ~lost => written = Len(output)
  BY ZenonT(40) DEF CollectInv
(* A step that ends the exchange: what is on its way no longer matters.    *)
<1>4. ASSUME Ended', UNCHANGED <<output, written, closed>>, down' \in Seq(DownRecord),
             lost' \in BOOLEAN, lost => lost'
      PROVE  CollectInv'
  BY <1>1, <1>3, <1>4 DEF CollectInv
(* A step of the worker that leaves what it collected alone.               *)
<1>5. ASSUME UNCHANGED <<output, stdoutData, stderrData, down, closed, written, lost>>,
             Ended' \/ ~Ended
      PROVE  CollectInv'
  BY <1>5 DEF CollectInv, Collected
<1>6. CASE Connect
  <2>1. UNCHANGED <<body, output, sent, stdoutData, stderrData, down, closed, written, lost>>
    BY <1>6 DEF Connect, php
  <2>2. CollectInv'
    BY <1>5, <1>6, <2>1 DEF Connect, Ended
  <2>3. CASE pc' = "write" /\ UNCHANGED answer
    <3>1. IsPrefix(stdoutData', StdoutOf(output'))
      BY <1>2, <2>1
    <3> QED
      BY <2>2, <2>3, <3>1 DEF ResultInv, AnswerIsPhps, FailsForAReason
  <2>4. CASE Unavailable
    <3>1. sent < Len(Wire)
      BY <1>6, WireIs, WireOfBody DEF Connect, HeardInv
    <3> QED
      BY <1>2, <2>1, <2>2, <2>4, <3>1, FailureIsRight
  <2> QED
    BY <1>6, <2>2, <2>3, <2>4 DEF Connect
<1>7. CASE Send
  <2>1. UNCHANGED <<body, output, stdoutData, stderrData, answer, down, closed, written, lost>>
    BY <1>7 DEF Send, php
  <2>2. pc' \in {"read", "write"} /\ pc = "write"
    BY <1>7 DEF Send
  <2>3. CollectInv'
    BY <1>5, <2>1, <2>2 DEF Ended
  <2> QED
    BY <1>2, <2>1, <2>2, <2>3 DEF ResultInv, AnswerIsPhps, FailsForAReason
<1>8. CASE SendFails
  <2>1. UNCHANGED <<body, output, sent, stdoutData, stderrData, down, closed, written, lost>> /\ Unavailable
    BY <1>8 DEF SendFails, php
  <2>2. sent < Len(Wire)
    BY <1>8, WireIs, WireOfBody DEF SendFails, HeardInv
  <2>3. ResultInv' /\ Ended'
    BY <1>2, <2>1, <2>2, FailureIsRight
  <2> QED
    BY <1>5, <2>1, <2>3
<1>9. CASE Receive \/ ReceiveEnd \/ ReceiveTimeout
  <2>1. /\ pc = "read" /\ ~Ended
        /\ UNCHANGED <<body, output, sent, closed, written>>
    BY <1>9 DEF Receive, ReceiveEnd, ReceiveTimeout, Ended, php
  <2>2. PICK r \in 0 .. written : Collected(r)
    BY <2>1 DEF CollectInv
  <2>3. /\ r \in 0 .. Len(output) /\ \A i \in 1 .. r : output[i].type # "end"
        /\ stderrData => \E i \in DOMAIN output : IsError(output[i])
        /\ stdoutData = Printed(output)[r]
    BY <1>1, <2>2 DEF Collected
  <2>4. CASE ReceiveTimeout
    <3>1. lost' = TRUE /\ UNCHANGED <<stdoutData, stderrData, down>>
      BY <2>4 DEF ReceiveTimeout
    <3>2. ResultInv' /\ Ended'
      <4>1. CASE Unavailable
        BY <1>2, <2>1, <3>1, <4>1, FailureIsRight
      <4>2. CASE Finish(stdoutData, stderrData)
        BY <1>1, <1>2, <2>1, <2>3, <3>1, <4>2, FinishIsRight
      <4> QED
        BY <2>4, <4>1, <4>2 DEF ReceiveTimeout
    <3> QED
      BY <1>1, <1>4, <2>1, <3>1, <3>2
  <2>5. CASE ReceiveEnd
    <3>1. /\ lost' = lost /\ UNCHANGED <<stdoutData, stderrData, down>> /\ closed /\ down = <<>>
          /\ Finish(stdoutData, stderrData)
      BY <2>5 DEF ReceiveEnd, php
    <3>2. lost \/ stdoutData = StdoutOf(output)
      <4> SUFFICES ASSUME ~lost PROVE stdoutData = StdoutOf(output)
        OBVIOUS
      <4>1. written = Len(output) /\ Len(down) = 0 /\ Len(down) = written - r
        BY <1>3, <2>2, <3>1 DEF Collected
      <4>2. r \in Nat /\ written \in Nat
        BY <1>1
      <4>3. r = Len(output)
        BY <4>1, <4>2
      <4> QED
        BY <1>1, <2>3, <4>3, OutputSoFar
    <3>3. ResultInv' /\ Ended'
      BY <1>1, <1>2, <2>1, <2>3, <3>1, <3>2, FinishIsRight
    <3> QED
      BY <1>1, <1>4, <2>1, <3>1, <3>3
  <2>6. CASE Receive
    <3>1. /\ down # <<>> /\ down' = Tail(down) /\ lost' = lost
      BY <2>6 DEF Receive, php
    <3>2. /\ down' \in Seq(DownRecord) /\ Len(down') = Len(down) - 1
          /\ \A k \in 1 .. Len(down') : down'[k] = down[k + 1]
          /\ Head(down) = down[1] /\ 1 \in 1 .. Len(down)
      BY <1>1, <3>1, HeadTailProperties
    <3>3. PICK record : record = Head(down)
      OBVIOUS
    <3>4. /\ record.type = "cut" => lost
          /\ record.type # "cut" => r + 1 <= written /\ record = output[r + 1]
      BY <2>2, <3>2, <3>3 DEF Collected
    <3>5. CASE record.type = "cut"
      <4>1. (Unavailable \/ Finish(stdoutData, stderrData)) /\ UNCHANGED <<stdoutData, stderrData>>
        BY <2>6, <3>3, <3>5 DEF Receive
      <4>2. ResultInv' /\ Ended'
        <5>1. CASE Unavailable
          BY <1>2, <2>1, <3>1, <3>4, <3>5, <4>1, <5>1, FailureIsRight
        <5>2. CASE Finish(stdoutData, stderrData)
          BY <1>1, <1>2, <2>1, <2>3, <3>1, <3>4, <3>5, <4>1, <5>2, FinishIsRight
        <5> QED
          BY <4>1, <5>1, <5>2
      <4> QED
        BY <1>1, <1>4, <2>1, <3>1, <3>2, <4>2
    <3>6. CASE record.type # "cut" /\ record.id # 1 /\ record.type # "end"
      <4>1. Unavailable /\ UNCHANGED <<stdoutData, stderrData>>
        BY <2>6, <3>3, <3>6 DEF Receive
      <4>2. r + 1 \in DOMAIN output /\ output[r + 1].id # 1
        BY <1>1, <2>3, <3>4, <3>6
      <4>3. ResultInv' /\ Ended'
        BY <1>2, <2>1, <4>1, <4>2, FailureIsRight
      <4> QED
        BY <1>1, <1>4, <2>1, <3>1, <3>2, <4>3
    <3>7. CASE record.type # "cut" /\ (record.id = 1 \/ record.type = "end")
      <4>1. Take(record)
        BY <2>6, <3>3, <3>7 DEF Receive
      <4>2. r + 1 <= written /\ record = output[r + 1] /\ r + 1 \in 1 .. Len(output)
        BY <1>1, <2>3, <3>4, <3>7
      <4>3. CASE record.type = "end"
        <5>1. stdoutData' = stdoutData /\ Finish(stdoutData, stderrData)
          BY <4>1, <4>3 DEF Take
        <5>2. stdoutData = StdoutOf(output)
          BY SMTT(30), <1>1, <2>3, <4>2, <4>3, OutputSoFar
        <5>3. ResultInv' /\ Ended'
          BY <1>1, <1>2, <2>1, <2>3, <5>1, <5>2, FinishIsRight
        <5> QED
          BY <1>1, <1>4, <2>1, <3>1, <3>2, <5>3
      <4>4. CASE record.type # "end"
        <5>1. /\ stdoutData' = IF record.type = "stdout" THEN stdoutData \o record.content ELSE stdoutData
              /\ UNCHANGED <<pc, answer>>
          BY <4>1, <4>4 DEF Take
        <5>2. stderrData' => \E i \in 1 .. r + 1 : IsError(output[i])
          <6>1. stderrData' => stderrData \/ IsError(record)
            BY <4>1, Zenon DEF Take
          <6>2. stderrData => \E i \in 1 .. r : IsError(output[i])
            BY <2>2 DEF Collected
          <6>3. 1 .. r \subseteq 1 .. r + 1 /\ r + 1 \in 1 .. r + 1
            BY <1>1
          <6> QED
            BY <4>2, <6>1, <6>2, <6>3
        <5>3. stdoutData' = Printed(output)[r + 1]
          <6>1. Printed(output)[r + 1] = Adds(output, Printed(output), r + 1)
            BY <1>1, <4>2, PrintedSteps
          <6>2. r + 1 # 0 /\ r + 1 - 1 = r
            BY <1>1, <2>3
          <6> QED
            BY <2>3, <4>2, <5>1, <6>1, <6>2 DEF Adds
        <5>4. \A i \in 1 .. r + 1 : output[i].type # "end"
          BY <1>1, <2>3, <4>2, <4>4
        <5>5. \A k \in 1 .. Len(down') :
                IF down'[k].type = "cut" THEN lost
                ELSE (r + 1) + k <= written /\ down'[k] = output[(r + 1) + k]
          <6> SUFFICES ASSUME NEW k \in 1 .. Len(down')
                       PROVE  IF down'[k].type = "cut" THEN lost
                              ELSE (r + 1) + k <= written /\ down'[k] = output[(r + 1) + k]
            OBVIOUS
          <6>1. k + 1 \in 1 .. Len(down) /\ r + (k + 1) = (r + 1) + k
            BY <1>1, <2>3, <3>2
          <6>2. IF down[k + 1].type = "cut" THEN lost
                ELSE r + (k + 1) <= written /\ down[k + 1] = output[r + (k + 1)]
            BY <2>2, <6>1 DEF Collected
          <6> QED
            BY <3>2, <6>1, <6>2
        <5>6. /\ ~lost => Len(down') = written - (r + 1)
              /\ lost => closed
          BY <1>1, <2>2, <2>3, <3>2 DEF Collected
        <5>7. Collected(r + 1)'
          BY <2>1, <3>1, <5>2, <5>3, <5>4, <5>5, <5>6 DEF Collected
        <5>8. CollectInv'
          <6>1. r + 1 \in 0 .. written
            BY <1>1, <2>3, <4>2
          <6>2. \E n \in 0 .. written' : Collected(n)'
            BY <2>1, <5>7, <6>1
          <6>3. /\ output' \in Seq(PhpRecord) /\ written' \in 0 .. Len(output')
                /\ down' \in Seq(DownRecord) /\ lost' \in BOOLEAN
                /\ closed' /\ ~lost' => written' = Len(output')
            BY <1>1, <1>3, <2>1, <3>1, <3>2
          <6> QED
            BY <6>2, <6>3 DEF CollectInv
        <5>9. IsPrefix(stdoutData', StdoutOf(output))
          <6>1. PICK m \in 0 .. Len(output) : m = r + 1
            BY <1>1, <4>2
          <6>2. \A i \in 1 .. m : output[i].type # "end"
            BY <5>4, <6>1
          <6>3. IsPrefix(Printed(output)[m], StdoutOf(output))
            BY <1>1, <6>2, OutputSoFar
          <6> QED
            BY <5>3, <6>1, <6>3
        <5>10. pc' = "read" /\ ResultInv'
          BY <2>1, <5>1, <5>9 DEF ResultInv, AnswerIsPhps, FailsForAReason
        <5> QED
          BY <5>8, <5>10
      <4> QED
        BY <4>3, <4>4
    <3> QED
      BY <3>5, <3>6, <3>7
  <2> QED
    BY <1>9, <2>4, <2>5, <2>6
<1>10. CASE PhpReads
  <2>1. UNCHANGED <<body, output, worker, down, closed, written, lost>>
    BY <1>10 DEF PhpReads
  <2> QED
    BY <1>5, <2>1, ResultStays DEF worker, Ended
<1>11. CASE PhpWrites
  <2>1. /\ UNCHANGED <<body, output, worker, closed, lost>> /\ ~closed
        /\ written < Len(output) /\ written' = written + 1
        /\ down' = Append(down, output[written + 1])
    BY <1>11 DEF PhpWrites
  <2>2. written + 1 \in 1 .. Len(output) /\ written' \in 0 .. Len(output)
    BY <1>1, <2>1
  <2>3. output[written + 1] \in PhpRecord /\ output[written + 1] \in DownRecord
    BY <1>1, <2>2, ContentType DEF DownRecord
  <2>4. output[written + 1].type # "cut"
    BY <2>3 DEF PhpRecord
  <2>5. /\ down' \in Seq(DownRecord) /\ Len(down') = Len(down) + 1
        /\ \A k \in 1 .. Len(down) : down'[k] = down[k]
        /\ down'[Len(down) + 1] = output[written + 1]
    BY <1>1, <2>1, <2>3, AppendProperties
  <2>6. ASSUME ~Ended' PROVE \E r \in 0 .. written' : Collected(r)'
    <3>1. ~Ended
      BY <2>1, <2>6 DEF Ended, worker
    <3>2. PICK r \in 0 .. written : Collected(r)
      BY <3>1 DEF CollectInv
    <3>3. ~lost /\ Len(down) = written - r
      BY <2>1, <3>2 DEF Collected
    <3>4. ASSUME NEW k \in 1 .. Len(down')
          PROVE  IF down'[k].type = "cut" THEN lost
                 ELSE r + k <= written' /\ down'[k] = output[r + k]
      <4>1. CASE k = Len(down) + 1
        BY <1>1, <2>1, <2>4, <2>5, <3>3, <4>1
      <4>2. CASE k # Len(down) + 1
        <5>1. k \in 1 .. Len(down) /\ down'[k] = down[k]
          BY <1>1, <2>5, <4>2
        <5>2. IF down[k].type = "cut" THEN lost ELSE r + k <= written /\ down[k] = output[r + k]
          BY <3>2, <5>1 DEF Collected
        <5> QED
          BY <1>1, <2>1, <5>1, <5>2
      <4> QED
        BY <4>1, <4>2
    <3>5. Len(down') = written' - r /\ r \in 0 .. written'
      BY <1>1, <2>1, <2>5, <3>3
    <3>6. /\ stdoutData' = Printed(output')[r]
          /\ stderrData' => \E i \in 1 .. r : IsError(output'[i])
          /\ \A i \in 1 .. r : output'[i].type # "end"
      BY <2>1, <3>2 DEF Collected, worker
    <3>7. Collected(r)'
      BY SMTT(30), <2>1, <3>3, <3>4, <3>5, <3>6 DEF Collected
    <3> QED
      BY <3>5, <3>7
  <2>7. CollectInv'
    BY <1>1, <2>1, <2>2, <2>5, <2>6 DEF CollectInv
  <2> QED
    BY <2>1, <2>7, ResultStays DEF worker
(* PHP's side is closed, with the first n records on their way, perhaps a  *)
(* piece of another.                                                       *)
<1>12. ASSUME NEW n \in 0 .. Len(down), UNCHANGED <<body, output, worker, written>>,
              lost' \in BOOLEAN, lost => lost', closed' = TRUE, ~closed,
              \/ down' = SubSeq(down, 1, n) /\ (lost' \/ (n = Len(down) /\ written = Len(output)))
              \/ down' = Append(down, [type |-> "cut"]) /\ lost'
       PROVE  CollectInv' /\ ResultInv'
  <2>1. /\ down' \in Seq(DownRecord)
        /\ \A k \in 1 .. Len(down') : \/ down'[k].type = "cut" /\ lost'
                                      \/ k \in 1 .. Len(down) /\ down'[k] = down[k]
        /\ ~lost' => Len(down') = Len(down) /\ written = Len(output)
    <3>1. CASE down' = SubSeq(down, 1, n) /\ (lost' \/ (n = Len(down) /\ written = Len(output)))
      <4>1. /\ down' \in Seq(DownRecord) /\ Len(down') = n
            /\ \A k \in 1 .. n : down'[k] = down[k]
        BY <1>1, <3>1, CutOff
      <4>2. lost' \/ (n = Len(down) /\ written = Len(output))
        BY <3>1
      <4>3. \A k \in 1 .. n : k \in 1 .. Len(down)
        BY <1>1
      <4> QED
        BY SMTT(30), <4>1, <4>2, <4>3
    <3>2. CASE down' = Append(down, [type |-> "cut"]) /\ lost'
      <4>1. [type |-> "cut"] \in DownRecord
        BY DEF DownRecord
      <4>2. /\ down' \in Seq(DownRecord) /\ Len(down') = Len(down) + 1
            /\ \A k \in 1 .. Len(down) : down'[k] = down[k]
            /\ down'[Len(down) + 1] = [type |-> "cut"]
        BY <1>1, <3>2, <4>1, AppendProperties
      <4>3. \A k \in 1 .. Len(down') : k \in 1 .. Len(down) \/ k = Len(down) + 1
        BY <1>1, <4>2
      <4>4. down'[Len(down) + 1].type = "cut"
        BY <4>2
      <4>5. lost'
        BY <3>2
      <4>6. \A k \in 1 .. Len(down') : \/ down'[k].type = "cut" /\ lost'
                                       \/ k \in 1 .. Len(down) /\ down'[k] = down[k]
        <5> SUFFICES ASSUME NEW k \in 1 .. Len(down')
                     PROVE  \/ down'[k].type = "cut" /\ lost'
                            \/ k \in 1 .. Len(down) /\ down'[k] = down[k]
          OBVIOUS
        <5>1. CASE k \in 1 .. Len(down)
          BY <4>2, <5>1
        <5>2. CASE k = Len(down) + 1
          BY <4>4, <4>5, <5>2
        <5> QED
          BY <4>3, <5>1, <5>2
      <4>7. down' \in Seq(DownRecord)
        BY <4>2
      <4>8. ~lost' => Len(down') = Len(down) /\ written = Len(output)
        BY <4>5
      <4> QED
        BY <4>6, <4>7, <4>8
    <3> QED
      BY <1>12, <3>1, <3>2
  <2>2. ASSUME ~Ended' PROVE \E r \in 0 .. written' : Collected(r)'
    <3>1. ~Ended
      BY <1>12, <2>2 DEF Ended, worker
    <3>2. PICK r \in 0 .. written : Collected(r)
      BY <3>1 DEF CollectInv
    <3>3. ~lost /\ Len(down) = written - r
      BY <1>12, <3>2 DEF Collected
    <3>4. \A k \in 1 .. Len(down') :
            IF down'[k].type = "cut" THEN lost'
            ELSE r + k <= written' /\ down'[k] = output'[r + k]
      BY <1>12, <2>1, <3>2, <3>3 DEF Collected
    <3>5. /\ stdoutData' = Printed(output')[r]
          /\ stderrData' => \E i \in 1 .. r : IsError(output'[i])
          /\ \A i \in 1 .. r : output'[i].type # "end"
      BY <1>12, <3>2 DEF Collected, worker
    <3>6. (~lost' => Len(down') = written' - r) /\ (lost' => closed')
      BY <1>12, <2>1, <3>3
    <3>7. Collected(r)'
      BY <3>4, <3>5, <3>6 DEF Collected
    <3> QED
      BY <1>12, <3>7
  <2>3. CollectInv'
    BY <1>1, <1>12, <2>1, <2>2 DEF CollectInv
  <2> QED
    BY <1>12, <2>3, ResultStays DEF worker
<1>13. CASE PhpFinishes
  <2>1. /\ UNCHANGED <<body, output, worker, written>> /\ closed' = TRUE /\ ~closed /\ written = Len(output)
    BY <1>13 DEF PhpFinishes
  <2>2. PICK n \in IF up = <<>> THEN {Len(down)} ELSE 0 .. Len(down) :
            down' = SubSeq(down, 1, n) /\ lost' = (lost \/ n < Len(down))
    BY <1>13 DEF PhpFinishes
  <2>3. n \in 0 .. Len(down)
    BY <1>1, <2>2
  <2>4. lost' \in BOOLEAN
    <3>1. CASE n < Len(down)
      BY <2>2, <3>1
    <3>2. CASE ~(n < Len(down))
      <4>1. lost' = (lost \/ FALSE)
        BY <2>2, <3>2
      <4> QED
        BY <1>1, <4>1
    <3> QED
      BY <3>1, <3>2
  <2>5. lost => lost'
    BY <2>2, Zenon
  <2>6. n < Len(down) => lost'
    BY <2>2, Zenon
  <2>7. n < Len(down) \/ n = Len(down)
    BY <1>1, <2>3
  <2> QED
    BY <1>12, <2>1, <2>2, <2>3, <2>4, <2>5, <2>6, <2>7
<1>14. CASE PhpStops
  <2>1. UNCHANGED <<body, output, worker, written>> /\ ~closed /\ closed' = TRUE
    BY <1>14 DEF PhpStops
  <2> lost' = TRUE
    BY <1>14 DEF PhpStops
  <2>2. CASE \E n \in 0 .. Len(down) : down' = SubSeq(down, 1, n)
    <3>1. PICK n \in 0 .. Len(down) : down' = SubSeq(down, 1, n)
      BY <2>2
    <3>2. lost' \in BOOLEAN /\ lost'
      OBVIOUS
    <3> QED
      BY <1>12, <2>1, <3>1, <3>2
  <2>3. CASE down' = Append(down, [type |-> "cut"])
    <3>1. 0 \in 0 .. Len(down)
      BY <1>1
    <3>2. lost' \in BOOLEAN /\ lost'
      OBVIOUS
    <3> QED
      BY <1>12, <2>1, <2>3, <3>1, <3>2
  <2> QED
    BY <1>14, <2>2, <2>3 DEF PhpStops
<1>15. CASE Done \/ UNCHANGED exchangeVars
  <2>1. UNCHANGED <<body, output, worker, down, closed, written, lost>>
    BY <1>15 DEF Done, exchangeVars, php
  <2> QED
    BY <1>5, <2>1, ResultStays DEF worker, Ended
<1> QED
  BY <1>6, <1>7, <1>8, <1>9, <1>10, <1>11, <1>13, <1>14, <1>15 DEF ExchangeNext, Worker, Php

(* All that the exchange keeps true.                                       *)
ExchangeInv == HeardInv /\ CollectInv /\ ResultInv

(* The invariant of an exchange, for any PHP, connection and request.      *)
THEOREM ExchangeInvHolds == ExchangeSpec => []ExchangeInv
<1>1. ExchangeInit => ExchangeInv
  BY HeardInit, CollectInit DEF ExchangeInv
<1>2. ExchangeInv /\ [ExchangeNext]_exchangeVars => ExchangeInv'
  BY HeardStep, CollectStep DEF ExchangeInv
<1> QED
  BY <1>1, <1>2, PTL DEF ExchangeSpec

(* The client gets PHP's page and nothing else.                            *)
THEOREM AnswerIsPhpsAlways == ExchangeSpec => []AnswerIsPhps
<1>1. ExchangeInv => AnswerIsPhps
  BY DEF ExchangeInv, ResultInv
<1> QED
  BY <1>1, ExchangeInvHolds, PTL

(* A 502 has a cause.                                                      *)
THEOREM FailuresHaveReasons == ExchangeSpec => []FailsForAReason
<1>1. ExchangeInv => FailsForAReason
  BY DEF ExchangeInv, ResultInv
<1> QED
  BY <1>1, ExchangeInvHolds, PTL
=============================================================================
