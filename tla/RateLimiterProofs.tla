-------------------------- MODULE RateLimiterProofs --------------------------
(***************************************************************************)
(* The rate limiter for any numbers of threads, clients and shards, any    *)
(* hash, limit and window: however late the clock readings of concurrent   *)
(* calls reach a bucket, and whenever a shard is cleaned, a client gets at *)
(* most two windows' worth in a window's time, and is refused only if it   *)
(* used its limit.                                                         *)
(*                                                                         *)
(* The argument cuts the answers of a client at the call that began its    *)
(* current window: the grants since then are the bucket's count, and those *)
(* before are all older than the window.  A client whose bucket a cleanup  *)
(* dropped keeps the window it had, which has ended for every call that    *)
(* can still come.                                                         *)
(***************************************************************************)
EXTENDS RateLimiter, FiniteSetTheorems, SequenceTheorems, TLAPS

Answers == [key : Keys, at : Times, granted : BOOLEAN]

(* The grants of a client, those of them in one window's time less the     *)
(* lag, and those after the first c answers.                               *)
Mine(seq, k) == {i \in 1 .. Len(seq) : seq[i].key = k /\ seq[i].granted}
Span(from) == from .. from + Window - MaxLag - 1
During(seq, k, from) == {i \in Mine(seq, k) : seq[i].at \in Span(from)}
DuringBefore(seq, k, c, from) == {i \in Mine(seq, k) : i <= c /\ seq[i].at \in Span(from)}
Since(seq, k, c) == {i \in Mine(seq, k) : i > c}

(* The window of client k began at start, after the first c answers, and   *)
(* n calls have been granted in it.                                        *)
Segment(seq, k, c, start, n) ==
    /\ c \in 0 .. Len(seq) /\ start \in Int /\ n \in 0 .. Max
    /\ Cardinality(Since(seq, k, c)) = n
    /\ \A i \in Since(seq, k, c) : start - MaxLag <= seq[i].at /\ seq[i].at < start + Window
    /\ \A i \in Mine(seq, k) : i <= c => seq[i].at < start
    /\ \A from \in Int :
         from > start - Window => Cardinality(DuringBefore(seq, k, c, from)) <= Max

Burst(seq, k) == \A from \in Int : Cardinality(During(seq, k, from)) <= 2 * Max

(* The bucket b tells of the window; without a bucket it is long over.     *)
Tells(b, start, n, time) ==
    /\ start <= time
    /\ b = NoBucket => start + Window + MaxLag <= time
    /\ b # NoBucket => start = b.windowStart /\ n = b.count /\ start - MaxLag <= b.lastSeen

KeyInv(b, seq, k, time) ==
    \E c \in Nat, start \in Int, n \in Nat :
        Segment(seq, k, c, start, n) /\ Tells(b, start, n, time)

(* No reading of the clock is from the future or older than the lag.       *)
PastInv ==
    /\ \A t \in Inside : calls[t].at <= now /\ now <= calls[t].at + MaxLag
    /\ \A i \in 1 .. Len(answered) : answered[i].at <= now

(* The grants that justify the i-th answer, a refusal.                     *)
Reasons(seq, i, time) ==
    {j \in 1 .. i - 1 : /\ seq[j].key = seq[i].key /\ seq[j].granted
                        /\ seq[j].at \in seq[i].at - Window + 1 - MaxLag .. time}
RefusedInv ==
    \A i \in 1 .. Len(answered) :
        ~answered[i].granted => Cardinality(Reasons(answered, i, now)) >= Max

LimiterInv ==
    /\ TypeOK /\ PastInv /\ RefusedInv
    /\ \A k \in Keys : KeyInv(buckets[k], answered, k, now) /\ Burst(answered, k)

-----------------------------------------------------------------------------
LEMMA Numbers ==
    /\ Max \in Nat /\ Max > 0 /\ Window \in Nat /\ MaxLag \in Nat /\ Retain \in Nat
    /\ MaxLag < Window /\ Window + 2 * MaxLag <= Retain /\ MaxTime \in Nat /\ MaxTime > 0
    /\ CleanupEvery \in Nat /\ CleanupEvery > 0
BY LimiterAssumption

LEMMA Entries ==
    ASSUME NEW seq \in Seq(Answers), NEW i \in 1 .. Len(seq)
    PROVE  seq[i] \in Answers /\ seq[i].at \in Int /\ seq[i].granted \in BOOLEAN
<1>1. seq[i] \in Answers
  OBVIOUS
<1> QED
  BY <1>1, Numbers DEF Answers, Times

(* Sets of places in the answers are finite.                               *)
LEMMA PlacesFinite ==
    ASSUME NEW seq \in Seq(Answers), NEW k, NEW S, S \subseteq Mine(seq, k)
    PROVE  IsFiniteSet(S) /\ Cardinality(S) \in Nat
<1>1. Len(seq) \in Nat /\ S \subseteq 1 .. Len(seq)
  BY DEF Mine
<1>2. IsFiniteSet(1 .. Len(seq))
  BY <1>1, FS_Interval
<1>3. IsFiniteSet(S)
  BY <1>1, <1>2, FS_Subset
<1> QED
  BY <1>3, FS_CardinalityType

LEMMA Fewer ==
    ASSUME NEW seq \in Seq(Answers), NEW k, NEW S, NEW T, S \subseteq T, T \subseteq Mine(seq, k)
    PROVE  Cardinality(S) <= Cardinality(T)
BY PlacesFinite, FS_Subset

(* After a window's end its grants are all before the next one.            *)
LEMMA NewWindow ==
    ASSUME NEW seq \in Seq(Answers), NEW k, NEW c \in Nat, NEW start \in Int, NEW n \in Nat,
           Segment(seq, k, c, start, n), NEW at \in Int, start + Window <= at
    PROVE  Segment(seq, k, Len(seq), at, 0)
<1>1. Len(seq) \in Nat /\ 0 \in 0 .. Max /\ Len(seq) \in 0 .. Len(seq)
  BY Numbers
<1>2. Since(seq, k, Len(seq)) = {}
  BY <1>1 DEF Since, Mine
<1>3. Cardinality(Since(seq, k, Len(seq))) = 0
  BY <1>2, FS_EmptySet
<1>4. ASSUME NEW i \in Mine(seq, k) PROVE seq[i].at < at
  <2>1. i \in 1 .. Len(seq) /\ seq[i].at \in Int
    BY Entries DEF Mine
  <2>2. CASE i > c
    <3>1. i \in Since(seq, k, c)
      BY <2>2 DEF Since
    <3>2. seq[i].at < start + Window
      BY <3>1 DEF Segment
    <3> QED
      BY <2>1, <3>2, Numbers
  <2>3. CASE i <= c
    BY <2>1, <2>3, Numbers DEF Segment
  <2> QED
    BY <2>1, <2>2, <2>3
<1>5. ASSUME NEW from \in Int, from > at - Window
      PROVE  Cardinality(DuringBefore(seq, k, Len(seq), from)) <= Max
  <2>1. ASSUME NEW i \in DuringBefore(seq, k, Len(seq), from) PROVE i \in Since(seq, k, c)
    <3>1. i \in Mine(seq, k) /\ i \in 1 .. Len(seq) /\ seq[i].at \in Int /\ seq[i].at >= from
      BY Entries, Numbers DEF DuringBefore, Mine, Span
    <3>2. CASE i <= c
      <4>1. seq[i].at < start
        BY <3>1, <3>2 DEF Segment
      <4> QED
        BY <3>1, <4>1, <1>5, Numbers
    <3> QED
      BY <3>1, <3>2 DEF Since
  <2>2. DuringBefore(seq, k, Len(seq), from) \subseteq Since(seq, k, c)
    BY <2>1
  <2>3. Since(seq, k, c) \subseteq Mine(seq, k)
    BY DEF Since
  <2>4. Cardinality(DuringBefore(seq, k, Len(seq), from)) <= Cardinality(Since(seq, k, c))
    BY <2>2, <2>3, Fewer
  <2>5. /\ Cardinality(Since(seq, k, c)) = n /\ n \in 0 .. Max
        /\ Cardinality(DuringBefore(seq, k, Len(seq), from)) \in Nat
    BY <2>2, <2>3, PlacesFinite DEF Segment
  <2> QED
    BY <2>4, <2>5, Numbers
<1> QED
  BY <1>1, <1>2, <1>3, <1>4, <1>5 DEF Segment

(* What an answer adds.                                                    *)
LEMMA Appended ==
    ASSUME NEW seq \in Seq(Answers), NEW e \in Answers, NEW k
    PROVE  LET new == Append(seq, e) IN
           /\ new \in Seq(Answers) /\ Len(new) = Len(seq) + 1 /\ Len(seq) \in Nat
           /\ \A i \in 1 .. Len(seq) : new[i] = seq[i]
           /\ new[Len(seq) + 1] = e
           /\ Mine(new, k) = IF e.key = k /\ e.granted THEN Mine(seq, k) \cup {Len(seq) + 1}
                                                      ELSE Mine(seq, k)
<1> DEFINE new == Append(seq, e)
<1>1. /\ new \in Seq(Answers) /\ Len(new) = Len(seq) + 1 /\ Len(seq) \in Nat
      /\ \A i \in 1 .. Len(seq) : new[i] = seq[i]
      /\ new[Len(seq) + 1] = e
  BY AppendProperties
<1> HIDE DEF new
<1>2. 1 .. Len(seq) + 1 = 1 .. Len(seq) \cup {Len(seq) + 1}
  BY <1>1
<1>3. Mine(new, k) = IF e.key = k /\ e.granted THEN Mine(seq, k) \cup {Len(seq) + 1}
                                               ELSE Mine(seq, k)
  <2>1. Mine(new, k) = {i \in 1 .. Len(seq) \cup {Len(seq) + 1} : new[i].key = k /\ new[i].granted}
    BY <1>1, <1>2 DEF Mine
  <2>2. Mine(new, k) = Mine(seq, k) \cup
          {i \in {Len(seq) + 1} : new[i].key = k /\ new[i].granted}
    BY <1>1, <2>1 DEF Mine
  <2> QED
    BY <1>1, <2>2
<1> QED
  BY <1>1, <1>3 DEF new

(* An answer that is no grant of client k leaves its window as it is.      *)
LEMMA OtherAppended ==
    ASSUME NEW seq \in Seq(Answers), NEW e \in Answers, NEW k, ~(e.key = k /\ e.granted),
           NEW c \in Nat, NEW start \in Int, NEW n \in Nat, Segment(seq, k, c, start, n)
    PROVE  Segment(Append(seq, e), k, c, start, n)
<1> DEFINE new == Append(seq, e)
<1>1. /\ Len(new) = Len(seq) + 1 /\ Len(seq) \in Nat /\ Mine(new, k) = Mine(seq, k)
      /\ \A i \in Mine(seq, k) : new[i] = seq[i]
  BY Appended DEF Mine
<1> HIDE DEF new
<1>2. Since(new, k, c) = Since(seq, k, c)
  BY <1>1 DEF Since
<1>3. \A from \in Int : DuringBefore(new, k, c, from) = DuringBefore(seq, k, c, from)
  BY <1>1 DEF DuringBefore
<1>4. c \in 0 .. Len(new)
  BY <1>1 DEF Segment
<1>5. \A i \in Since(seq, k, c) : new[i] = seq[i]
  BY <1>1 DEF Since
<1>6. Segment(new, k, c, start, n)
  BY <1>1, <1>2, <1>3, <1>4, <1>5 DEF Segment
<1> QED
  BY <1>6 DEF new

LEMMA OtherBurst ==
    ASSUME NEW seq \in Seq(Answers), NEW e \in Answers, NEW k, ~(e.key = k /\ e.granted),
           Burst(seq, k)
    PROVE  Burst(Append(seq, e), k)
<1> DEFINE new == Append(seq, e)
<1>1. Mine(new, k) = Mine(seq, k) /\ \A i \in Mine(seq, k) : new[i] = seq[i]
  BY Appended DEF Mine
<1> HIDE DEF new
<1>2. \A from \in Int : During(new, k, from) = During(seq, k, from)
  BY <1>1 DEF During
<1>3. Burst(new, k)
  BY <1>2 DEF Burst
<1> QED
  BY <1>3 DEF new

(* A grant in the window, while the bucket is below the limit.             *)
LEMMA GrantAppended ==
    ASSUME NEW seq \in Seq(Answers), NEW e \in Answers, NEW k, e.key = k, e.granted,
           NEW c \in Nat, NEW start \in Int, NEW n \in Nat, Segment(seq, k, c, start, n),
           Burst(seq, k), n < Max, start - MaxLag <= e.at, e.at < start + Window
    PROVE  Segment(Append(seq, e), k, c, start, n + 1) /\ Burst(Append(seq, e), k)
<1> DEFINE new == Append(seq, e)
           m == Len(seq) + 1
<1>1. /\ new \in Seq(Answers) /\ Len(new) = m /\ Len(seq) \in Nat /\ m \in Nat
      /\ new[m] = e /\ Mine(new, k) = Mine(seq, k) \cup {m}
      /\ \A i \in Mine(seq, k) : new[i] = seq[i]
  BY Appended DEF Mine
<1>2. m \notin Mine(seq, k) /\ e.at \in Int
  BY <1>1, Numbers DEF Mine, Answers, Times
<1> HIDE DEF new, m
<1>3. c \in 0 .. Len(seq) /\ n \in 0 .. Max /\ c < m /\ c \in 0 .. m /\ n + 1 \in 0 .. Max
  BY <1>1, Numbers DEF Segment, m
<1>4. Since(new, k, c) = Since(seq, k, c) \cup {m} /\ m \notin Since(seq, k, c)
  BY <1>1, <1>2, <1>3 DEF Since
<1>5. Since(seq, k, c) \subseteq Mine(seq, k)
  BY DEF Since
<1>6. Cardinality(Since(new, k, c)) = n + 1
  <2>1. IsFiniteSet(Since(seq, k, c))
    BY <1>5, PlacesFinite
  <2> QED
    BY <1>4, <2>1, FS_AddElement DEF Segment
<1>7. \A i \in Since(new, k, c) : start - MaxLag <= new[i].at /\ new[i].at < start + Window
  BY <1>1, <1>4, <1>5 DEF Segment
<1>8. \A i \in Mine(new, k) : i <= c => new[i].at < start
  BY <1>1, <1>3 DEF Segment
<1>9. \A from \in Int : DuringBefore(new, k, c, from) = DuringBefore(seq, k, c, from)
  BY <1>1, <1>3 DEF DuringBefore
<1>10. Segment(new, k, c, start, n + 1)
  BY <1>1, <1>3, <1>6, <1>7, <1>8, <1>9 DEF Segment
<1>11. ASSUME NEW from \in Int PROVE Cardinality(During(new, k, from)) <= 2 * Max
  <2>1. CASE e.at \notin Span(from)
    <3>1. During(new, k, from) = During(seq, k, from)
      BY <1>1, <2>1 DEF During
    <3> QED
      BY <3>1 DEF Burst
  <2>2. CASE e.at \in Span(from)
    <3>1. from > start - Window
      BY <1>2, <2>2, Numbers DEF Span
    <3>2. Cardinality(DuringBefore(new, k, c, from)) <= Max
      BY <1>10, <3>1 DEF Segment
    <3>3. During(new, k, from) \subseteq DuringBefore(new, k, c, from) \cup Since(new, k, c)
      <4>1. \A i \in Mine(new, k) : i \in Nat /\ (i <= c \/ i > c)
        BY <1>3 DEF Mine
      <4> QED
        BY <4>1 DEF During, DuringBefore, Since
    <3>4. /\ DuringBefore(new, k, c, from) \subseteq Mine(new, k)
          /\ Since(new, k, c) \subseteq Mine(new, k)
      BY DEF DuringBefore, Since
    <3> DEFINE A == DuringBefore(new, k, c, from)
               B == Since(new, k, c)
    <3>5. /\ IsFiniteSet(A) /\ Cardinality(A) \in Nat
          /\ IsFiniteSet(B) /\ Cardinality(B) \in Nat
      BY <1>1, <3>4, PlacesFinite
    <3>6. A \cap B \subseteq Mine(new, k) /\ A \cup B \subseteq Mine(new, k)
      BY <3>4
    <3>7. Cardinality(A \cap B) \in Nat
      BY <1>1, <3>6, PlacesFinite
    <3>8. Cardinality(During(new, k, from)) <= Cardinality(A \cup B)
      BY <1>1, <3>3, <3>6, Fewer
    <3>9. Cardinality(A \cup B) = Cardinality(A) + Cardinality(B) - Cardinality(A \cap B)
      BY <3>5, FS_Union
    <3>10. Cardinality(A) <= Max /\ Cardinality(B) <= Max
      BY <1>3, <1>6, <3>2, Numbers
    <3>11. Cardinality(During(new, k, from)) \in Nat
      BY <1>1, PlacesFinite DEF During
    <3> HIDE DEF A, B
    <3> QED
      BY <3>5, <3>7, <3>8, <3>9, <3>10, <3>11, Numbers
  <2> QED
    BY <2>1, <2>2
<1>12. Burst(new, k)
  BY <1>11 DEF Burst
<1> QED
  BY <1>10, <1>12 DEF new

-----------------------------------------------------------------------------
LEMMA Callers ==
    ASSUME TypeOK, NEW t \in Threads
    PROVE  t \in Inside => calls[t].key \in Keys /\ calls[t].at \in Times
BY DEF TypeOK, Inside

LEMMA Clock ==
    ASSUME TypeOK
    PROVE  now \in Nat /\ answered \in Seq(Answers) /\ Len(answered) \in Nat
BY Numbers DEF TypeOK, Times, Answers

LEMMA InvInit == Init => LimiterInv
<1> SUFFICES ASSUME Init PROVE LimiterInv
  OBVIOUS
<1>1. TypeOK
  <2>1. now \in Times
    BY Numbers DEF Init, Times
  <2>2. operations \in [Shards -> 0 .. CleanupEvery - 1]
    <3>1. 0 \in 0 .. CleanupEvery - 1
      BY Numbers
    <3> QED
      BY <3>1 DEF Init
  <2> QED
    BY <2>1, <2>2 DEF Init, TypeOK
<1>2. PastInv /\ RefusedInv
  <2>1. Inside = {} /\ 1 .. Len(answered) = {}
    BY DEF Init, Inside
  <2> QED
    BY <2>1 DEF PastInv, RefusedInv
<1>3. ASSUME NEW k \in Keys PROVE KeyInv(buckets[k], answered, k, now) /\ Burst(answered, k)
  <2>1. Len(answered) = 0 /\ Mine(answered, k) = {}
    BY DEF Init, Mine
  <2> DEFINE start == 1 - Window - MaxLag
  <2>2. start \in Int /\ start <= 1 /\ start + Window + MaxLag <= 1 /\ 0 \in 0 .. Max
    BY Numbers
  <2>3. /\ \A from \in Int : During(answered, k, from) = {} /\ DuringBefore(answered, k, 0, from) = {}
        /\ Since(answered, k, 0) = {}
    BY <2>1 DEF During, DuringBefore, Since
  <2>4. Cardinality({}) = 0
    BY FS_EmptySet
  <2> HIDE DEF start
  <2>5. Segment(answered, k, 0, start, 0)
    <3>1. 0 \in 0 .. Len(answered) /\ Cardinality(Since(answered, k, 0)) = 0
      BY <2>1, <2>3, <2>4
    <3>2. ASSUME NEW from \in Int PROVE Cardinality(DuringBefore(answered, k, 0, from)) <= Max
      <4>1. Cardinality(DuringBefore(answered, k, 0, from)) = 0
        BY <2>3, <2>4
      <4> QED
        BY <4>1, Numbers
    <3>3. /\ \A i \in Since(answered, k, 0) :
               start - MaxLag <= answered[i].at /\ answered[i].at < start + Window
          /\ \A i \in Mine(answered, k) : i <= 0 => answered[i].at < start
      BY <2>1, <2>3
    <3> QED
      BY <2>2, <3>1, <3>2, <3>3 DEF Segment
  <2>6. Tells(buckets[k], start, 0, now)
    BY <2>2 DEF Init, Tells
  <2>7. Burst(answered, k)
    BY <2>3, <2>4, Numbers DEF Burst
  <2> QED
    BY <2>2, <2>5, <2>6, <2>7 DEF KeyInv
<1> QED
  BY <1>1, <1>2, <1>3 DEF LimiterInv

LEMMA TickStep == LimiterInv /\ Tick => LimiterInv'
<1> SUFFICES ASSUME LimiterInv, Tick PROVE LimiterInv'
  OBVIOUS
<1>1. TypeOK /\ PastInv /\ RefusedInv
      /\ \A k \in Keys : KeyInv(buckets[k], answered, k, now) /\ Burst(answered, k)
  BY DEF LimiterInv
<1>2. /\ now < MaxTime /\ now' = now + 1 /\ now \in Nat
      /\ buckets' = buckets /\ operations' = operations /\ calls' = calls /\ answered' = answered
      /\ \A t \in Inside : now - calls[t].at < MaxLag
  BY <1>1, Clock DEF Tick
<1>3. now' \in Times
  BY <1>1, <1>2, Numbers DEF TypeOK, Times
<1>4. TypeOK'
  BY <1>1, <1>2, <1>3 DEF TypeOK
<1>5. PastInv'
  <2>1. ASSUME NEW t \in Inside PROVE calls[t].at <= now + 1 /\ now + 1 <= calls[t].at + MaxLag
    <3>1. calls[t].at \in Nat /\ calls[t].at <= now /\ now - calls[t].at < MaxLag
      BY <1>1, <1>2, Callers, Numbers DEF Inside, PastInv, Times
    <3> QED
      BY <3>1, <1>2, Numbers
  <2>2. \A i \in 1 .. Len(answered) : answered[i].at <= now + 1
    BY <1>1, <1>2, Clock, Entries DEF PastInv
  <2> QED
    BY <1>2, <2>1, <2>2 DEF PastInv, Inside
<1>6. RefusedInv'
  <2>1. ASSUME NEW i \in 1 .. Len(answered), ~answered[i].granted
        PROVE  Cardinality(Reasons(answered, i, now + 1)) >= Max
    <3>1. /\ i \in Nat /\ answered \in Seq(Answers)
          /\ answered[i].at \in Int /\ \A j \in 1 .. i - 1 : j \in 1 .. Len(answered) /\ answered[j].at \in Int
      BY <1>1, Clock, Entries
    <3>2. /\ Reasons(answered, i, now) \subseteq Reasons(answered, i, now + 1)
          /\ Reasons(answered, i, now + 1) \subseteq Mine(answered, answered[i].key)
      <4>1. \A x, y \in Int : x .. now \subseteq x .. now + 1
        BY <1>2
      <4> QED
        BY <3>1, <4>1, <1>2, Numbers DEF Reasons, Mine
    <3>3. Cardinality(Reasons(answered, i, now)) <= Cardinality(Reasons(answered, i, now + 1))
      BY <3>1, <3>2, Fewer
    <3>4. Reasons(answered, i, now) \subseteq Mine(answered, answered[i].key)
      BY <3>2
    <3>5. /\ Cardinality(Reasons(answered, i, now)) \in Nat
          /\ Cardinality(Reasons(answered, i, now + 1)) \in Nat
      BY <3>1, <3>2, <3>4, PlacesFinite
    <3>6. Cardinality(Reasons(answered, i, now)) >= Max
      BY <1>1, <2>1 DEF RefusedInv
    <3> QED
      BY <3>3, <3>5, <3>6, Numbers
  <2> QED
    BY <1>2, <2>1 DEF RefusedInv
<1>7. ASSUME NEW k \in Keys PROVE KeyInv(buckets[k], answered, k, now + 1)
  <2>1. PICK c \in Nat, start \in Int, n \in Nat :
          Segment(answered, k, c, start, n) /\ Tells(buckets[k], start, n, now)
    BY <1>1 DEF KeyInv
  <2>2. Tells(buckets[k], start, n, now + 1)
    BY <1>2, <2>1, Numbers DEF Tells
  <2> QED
    BY <2>1, <2>2 DEF KeyInv
<1> QED
  BY <1>1, <1>2, <1>4, <1>5, <1>6, <1>7 DEF LimiterInv

LEMMA ReadClockStep ==
    ASSUME LimiterInv, NEW t \in Threads, NEW k \in Keys, ReadClock(t, k) PROVE LimiterInv'
<1>1. TypeOK /\ PastInv /\ RefusedInv
      /\ \A kk \in Keys : KeyInv(buckets[kk], answered, kk, now) /\ Burst(answered, kk)
  BY DEF LimiterInv
<1> DEFINE call == [key |-> k, at |-> now]
<1>2. /\ calls' = [calls EXCEPT ![t] = call]
      /\ now' = now /\ buckets' = buckets /\ operations' = operations /\ answered' = answered
  BY DEF ReadClock
<1>3. call \in [key : Keys, at : Times] /\ call.at = now
  BY <1>1 DEF TypeOK
<1> HIDE DEF call
<1>4. calls' \in [Threads -> [key : Keys, at : Times] \cup {Outside}]
  BY <1>1, <1>2, <1>3 DEF TypeOK
<1>5. TypeOK'
  BY <1>1, <1>2, <1>4 DEF TypeOK
<1>6. PastInv'
  <2>1. ASSUME NEW u \in Threads, calls'[u] # Outside
        PROVE  calls'[u].at <= now /\ now <= calls'[u].at + MaxLag
    <3>1. CASE u = t
      BY <1>1, <1>2, <1>3, <3>1, Clock, Numbers DEF TypeOK
    <3>2. CASE u # t
      BY <1>1, <1>2, <2>1, <3>2 DEF TypeOK, PastInv, Inside
    <3> QED
      BY <3>1, <3>2
  <2> QED
    BY <1>1, <1>2, <2>1 DEF PastInv, Inside
<1> QED
  BY <1>1, <1>2, <1>5, <1>6 DEF LimiterInv, RefusedInv

(* A cleanup leaves a client without a bucket only when its window has     *)
(* ended for every call that may still come.                               *)
LEMMA Cleaning ==
    ASSUME LimiterInv, NEW sh \in Shards, NEW at \in Times, at <= now, NEW k \in Keys
    PROVE  /\ Cleaned(sh, at)[k] \in {buckets[k], NoBucket}
           /\ KeyInv(Cleaned(sh, at)[k], answered, k, now)
<1>1. TypeOK /\ KeyInv(buckets[k], answered, k, now)
  BY DEF LimiterInv
<1>2. \/ Cleaned(sh, at)[k] = buckets[k]
      \/ Cleaned(sh, at)[k] = NoBucket /\ buckets[k] # NoBucket /\ Idle(buckets[k], at)
  BY <1>1 DEF Cleaned, TypeOK
<1>3. CASE Cleaned(sh, at)[k] = NoBucket /\ buckets[k] # NoBucket /\ Idle(buckets[k], at)
  <2>1. PICK c \in Nat, start \in Int, n \in Nat :
          Segment(answered, k, c, start, n) /\ Tells(buckets[k], start, n, now)
    BY <1>1 DEF KeyInv
  <2>2. buckets[k].lastSeen \in Nat /\ at \in Nat /\ now \in Nat
    BY <1>1, <1>3, Clock, Numbers DEF TypeOK, Times
  <2>3. start <= now /\ start - MaxLag <= buckets[k].lastSeen /\ at - buckets[k].lastSeen >= Retain
    BY <1>3, <2>1 DEF Tells, Idle
  <2>4. start + Window + MaxLag <= now
    BY <2>2, <2>3, Numbers
  <2>5. Tells(NoBucket, start, n, now)
    BY <2>3, <2>4 DEF Tells
  <2> QED
    BY <1>3, <2>1, <2>5 DEF KeyInv
<1> QED
  BY <1>1, <1>2, <1>3

(* The bucket a call finds, or makes, tells of a window the call is in.    *)
Serves(used, seq, k, time, at) ==
    /\ used \in [count : 0 .. Max, windowStart : Times, lastSeen : Times]
    /\ used.lastSeen = at /\ used.windowStart <= time
    /\ used.windowStart - MaxLag <= at /\ at < used.windowStart + Window
    /\ \E c \in Nat : Segment(seq, k, c, used.windowStart, used.count)

LEMMA InWindow ==
    ASSUME NEW seq \in Seq(Answers), NEW k \in Keys, NEW b, NEW time \in Nat, NEW at \in Times,
           b # NoBucket => b \in [count : 1 .. Max, windowStart : Times, lastSeen : Times],
           KeyInv(b, seq, k, time), at <= time, time <= at + MaxLag
    PROVE  Serves(Current(b, at), seq, k, time, at)
<1> DEFINE used == Current(b, at)
<1>1. PICK c \in Nat, start \in Int, n \in Nat :
        Segment(seq, k, c, start, n) /\ Tells(b, start, n, time)
  BY DEF KeyInv
<1>2. at \in Nat
  BY Numbers DEF Times
<1>3. CASE used = Fresh(at) /\ start + Window <= at
  <2>1. used.count = 0 /\ used.windowStart = at /\ used.lastSeen = at
        /\ used \in [count : 0 .. Max, windowStart : Times, lastSeen : Times]
    BY <1>3, Numbers DEF Fresh
  <2>2. Segment(seq, k, Len(seq), at, 0) /\ Len(seq) \in Nat
    BY <1>1, <1>2, <1>3, NewWindow
  <2> HIDE DEF used
  <2>3. used.windowStart - MaxLag <= at /\ at < used.windowStart + Window
    BY <1>2, <2>1, Numbers
  <2>4. Serves(used, seq, k, time, at)
    BY <2>1, <2>2, <2>3 DEF Serves
  <2> QED
    BY <2>4 DEF used
<1>4. CASE used = [b EXCEPT !.lastSeen = at] /\ b # NoBucket /\ at < b.windowStart + Window
  <2>1. b \in [count : 1 .. Max, windowStart : Times, lastSeen : Times]
    BY <1>4
  <2>2. used.count = b.count /\ used.windowStart = b.windowStart /\ used.lastSeen = at
        /\ used \in [count : 1 .. Max, windowStart : Times, lastSeen : Times]
    BY <1>4, <2>1
  <2>3. start = b.windowStart /\ n = b.count /\ start <= time
    BY <1>1, <1>4 DEF Tells
  <2> HIDE DEF used
  <2>4. used.count \in 0 .. Max
    BY <2>2, Numbers
  <2>5. used \in [count : 0 .. Max, windowStart : Times, lastSeen : Times]
    BY <2>2, <2>4
  <2>6. used.windowStart \in Nat
    BY <2>2, Numbers DEF Times
  <2>7. used.windowStart - MaxLag <= at /\ at < used.windowStart + Window
    BY SMTT(30), <1>2, <1>4, <2>2, <2>3, <2>6, Numbers
  <2>8. Segment(seq, k, c, used.windowStart, used.count)
    BY <1>1, <2>2, <2>3
  <2>9. Serves(used, seq, k, time, at)
    BY <2>2, <2>3, <2>5, <2>7, <2>8 DEF Serves
  <2> QED
    BY <2>9 DEF used
<1>5. \/ used = Fresh(at) /\ start + Window <= at
      \/ used = [b EXCEPT !.lastSeen = at] /\ b # NoBucket /\ at < b.windowStart + Window
  <2>1. CASE b = NoBucket
    <3>1. start + Window + MaxLag <= time
      BY <1>1, <2>1 DEF Tells
    <3>2. start + Window <= at
      BY <1>2, <3>1, Numbers
    <3> QED
      BY <2>1, <3>2 DEF Current
  <2>2. CASE b # NoBucket
    <3>1. b.windowStart \in Nat /\ start = b.windowStart
      BY <1>1, <2>2, Numbers DEF Times, Tells
    <3>2. CASE at - b.windowStart >= Window
      <4>1. start + Window <= at
        BY <1>2, <3>1, <3>2, Numbers
      <4> QED
        BY <2>2, <3>2, <4>1 DEF Current
    <3>3. CASE ~(at - b.windowStart >= Window)
      <4>1. at < b.windowStart + Window
        BY <1>2, <3>1, <3>3, Numbers
      <4> QED
        BY <2>2, <3>3, <4>1 DEF Current
    <3> QED
      BY <3>2, <3>3
  <2> QED
    BY <2>1, <2>2
<1> QED
  BY <1>3, <1>4, <1>5

(* One call's critical section, with the names of Update's locals.         *)
LEMMA UpdateStep ==
    ASSUME LimiterInv, NEW t \in Threads, Update(t) PROVE LimiterInv'
<1> DEFINE k == calls[t].key
           at == calls[t].at
           sh == ShardOf[k]
           cleaned == Cleaned(sh, at)
           used == Current(cleaned[k], at)
           granted == used.count < Max
           kept == [used EXCEPT !.count = IF granted THEN @ + 1 ELSE @]
           e == [key |-> k, at |-> at, granted |-> granted]
           new == Append(answered, e)
<1>1. TypeOK /\ PastInv /\ RefusedInv
      /\ \A kk \in Keys : KeyInv(buckets[kk], answered, kk, now) /\ Burst(answered, kk)
  BY DEF LimiterInv
<1>2. /\ t \in Inside /\ now' = now
      /\ operations' = [operations EXCEPT ![sh] = (@ + 1) % CleanupEvery]
      /\ buckets' = [cleaned EXCEPT ![k] = kept]
      /\ answered' = new
      /\ calls' = [calls EXCEPT ![t] = Outside]
  BY SMTT(30) DEF Update, Inside
<1>3. k \in Keys /\ at \in Times /\ at \in Nat /\ sh \in Shards
  BY <1>1, <1>2, Callers, Numbers, LimiterAssumption DEF Times
<1>4. at <= now /\ now <= at + MaxLag /\ now \in Nat /\ answered \in Seq(Answers)
  BY <1>1, <1>2, Clock DEF PastInv
<1>5. ASSUME NEW kk \in Keys
      PROVE  cleaned[kk] \in {buckets[kk], NoBucket} /\ KeyInv(cleaned[kk], answered, kk, now)
  BY <1>3, <1>4, Cleaning
<1>6. cleaned \in [Keys -> [count : 1 .. Max, windowStart : Times, lastSeen : Times]
                           \cup {NoBucket}]
  <2>1. cleaned = buckets \/ cleaned = [x \in Keys |-> cleaned[x]]
    BY DEF Cleaned
  <2>2. \A x \in Keys : cleaned[x] \in [count : 1 .. Max, windowStart : Times, lastSeen : Times]
                           \cup {NoBucket}
    BY <1>1, <1>5 DEF TypeOK
  <2> HIDE DEF cleaned
  <2> QED
    BY <1>1, <2>1, <2>2 DEF TypeOK
<1> HIDE DEF k, at, sh, cleaned
<1>7. Serves(used, answered, k, now, at)
  <2>1. /\ cleaned[k] # NoBucket
             => cleaned[k] \in [count : 1 .. Max, windowStart : Times, lastSeen : Times]
        /\ KeyInv(cleaned[k], answered, k, now)
    BY <1>3, <1>5, <1>6
  <2> QED
    BY <1>3, <1>4, <2>1, InWindow
<1> HIDE DEF used
<1>8. /\ used \in [count : 0 .. Max, windowStart : Times, lastSeen : Times]
      /\ used.lastSeen = at /\ used.windowStart <= now
      /\ used.windowStart - MaxLag <= at /\ at < used.windowStart + Window
  BY <1>7 DEF Serves
<1>9. PICK c \in Nat : Segment(answered, k, c, used.windowStart, used.count)
  BY <1>7 DEF Serves
<1>10. used.count \in Nat /\ used.count <= Max /\ used.windowStart \in Nat
  BY <1>8, Numbers DEF Times
<1>11. e \in Answers /\ e.key = k /\ e.at = at /\ e.granted = granted
  BY <1>3 DEF Answers
<1>12. /\ kept.count = (IF granted THEN used.count + 1 ELSE used.count)
       /\ kept.windowStart = used.windowStart /\ kept.lastSeen = at
       /\ kept \in [count : 1 .. Max, windowStart : Times, lastSeen : Times]
  <2>1. (IF granted THEN used.count + 1 ELSE used.count) \in 1 .. Max
    BY <1>10, Numbers
  <2> QED
    BY <1>8, <2>1
<1> HIDE DEF e, granted, kept
<1>13. /\ new \in Seq(Answers) /\ Len(new) = Len(answered) + 1 /\ Len(answered) \in Nat
       /\ new[Len(new)] = e /\ \A i \in 1 .. Len(answered) : new[i] = answered[i]
  BY <1>4, <1>11, Appended
<1>14. kept # NoBucket
  <2>1. kept \in [count : Nat, windowStart : Nat, lastSeen : Nat]
    BY <1>12, Numbers DEF Times
  <2> QED
    BY <2>1, LimiterAssumption
<1>15. TypeOK'
  <2>1. buckets' \in [Keys -> [count : 1 .. Max, windowStart : Times, lastSeen : Times]
                             \cup {NoBucket}]
    BY <1>2, <1>6, <1>12
  <2>2. operations' \in [Shards -> 0 .. CleanupEvery - 1]
    <3>1. operations[sh] \in Nat
      BY <1>1, <1>3, Numbers DEF TypeOK
    <3>2. (operations[sh] + 1) % CleanupEvery \in 0 .. CleanupEvery - 1
      BY <3>1, Numbers
    <3> QED
      BY <1>1, <1>2, <3>2 DEF TypeOK
  <2> QED
    BY <1>1, <1>2, <1>13, <2>1, <2>2 DEF TypeOK, Answers
<1>16. PastInv'
  <2>1. \A u \in Threads : calls'[u] # Outside => calls'[u] = calls[u] /\ calls[u] # Outside
    BY <1>1, <1>2 DEF TypeOK
  <2>2. \A i \in 1 .. Len(new) : i \in 1 .. Len(answered) \/ i = Len(new)
    BY <1>13
  <2>3. \A i \in 1 .. Len(new) : new[i].at <= now
    BY <1>1, <1>4, <1>11, <1>13, <2>2 DEF PastInv
  <2> HIDE DEF new
  <2> QED
    BY <1>1, <1>2, <2>1, <2>3 DEF PastInv, Inside
<1>17. RefusedInv'
  <2>1. ASSUME NEW i \in 1 .. Len(answered), ~new[i].granted
        PROVE  Cardinality(Reasons(new, i, now)) >= Max
    <3>1. new[i] = answered[i] /\ \A j \in 1 .. i - 1 : new[j] = answered[j]
      BY <1>13
    <3>2. Reasons(new, i, now) = Reasons(answered, i, now)
      BY <3>1 DEF Reasons
    <3> QED
      BY <1>1, <2>1, <3>1, <3>2 DEF RefusedInv
  <2>2. ASSUME ~granted PROVE Cardinality(Reasons(new, Len(new), now)) >= Max
    <3> DEFINE S == Since(answered, k, c)
               R == Reasons(new, Len(new), now)
    <3>1. Cardinality(S) = Max
      <4>1. used.count = Max
        BY <1>10, <2>2, Numbers DEF granted
      <4> QED
        BY <1>9, <4>1 DEF Segment
    <3>2. ASSUME NEW j \in S PROVE j \in R
      <4>1. j \in 1 .. Len(answered) /\ answered[j].key = k /\ answered[j].granted
        BY DEF Since, Mine
      <4>2. j \in 1 .. Len(new) - 1 /\ new[j] = answered[j]
        BY <1>13, <4>1
      <4>3. answered[j].at \in Int /\ answered[j].at <= now
        BY <1>1, <1>4, <4>1, Entries DEF PastInv
      <4>4. used.windowStart - MaxLag <= answered[j].at
        BY <1>9 DEF Segment
      <4>5. answered[j].at \in at - Window + 1 - MaxLag .. now
        BY <1>3, <1>4, <1>8, <1>10, <4>3, <4>4, Numbers
      <4> QED
        BY <1>11, <1>13, <4>1, <4>2, <4>5 DEF Reasons
    <3>3. R \subseteq Mine(new, k)
      <4>1. 1 .. Len(new) - 1 \subseteq 1 .. Len(new)
        BY <1>13
      <4> QED
        BY <1>11, <1>13, <4>1 DEF Reasons, Mine
    <3>4. S \subseteq R
      BY <3>2
    <3> HIDE DEF S, R
    <3>5. Cardinality(S) <= Cardinality(R) /\ Cardinality(R) \in Nat
      BY <1>13, <3>3, <3>4, Fewer, PlacesFinite
    <3> QED
      BY <3>1, <3>5, Numbers DEF R
  <2>3. ASSUME NEW i \in 1 .. Len(new), ~new[i].granted
        PROVE  Cardinality(Reasons(new, i, now)) >= Max
    <3>1. i \in 1 .. Len(answered) \/ i = Len(new)
      BY <1>13
    <3>2. CASE i \in 1 .. Len(answered)
      BY <2>1, <2>3, <3>2
    <3>3. CASE i = Len(new)
      BY <1>11, <1>13, <2>2, <2>3, <3>3
    <3> QED
      BY <3>1, <3>2, <3>3
  <2> HIDE DEF new
  <2> QED
    BY <1>2, <2>3 DEF RefusedInv
<1>18. ASSUME NEW kk \in Keys PROVE KeyInv(buckets'[kk], new, kk, now) /\ Burst(new, kk)
  <2>1. CASE kk # k
    <3>1. PICK cc \in Nat, start \in Int, n \in Nat :
            Segment(answered, kk, cc, start, n) /\ Tells(cleaned[kk], start, n, now)
      BY <1>5 DEF KeyInv
    <3>2. Segment(new, kk, cc, start, n) /\ Burst(new, kk)
      BY <1>1, <1>4, <1>11, <2>1, <3>1, OtherAppended, OtherBurst
    <3>3. buckets'[kk] = cleaned[kk]
      BY <1>2, <1>6, <2>1
    <3> QED
      BY <3>1, <3>2, <3>3 DEF KeyInv
  <2>2. CASE kk = k /\ granted
    <3>1. /\ Segment(new, k, c, used.windowStart, used.count + 1) /\ Burst(new, k)
      <4>1. used.count < Max /\ e.granted /\ Burst(answered, k)
        BY <1>1, <1>3, <1>11, <2>2 DEF granted
      <4> QED
        BY <1>4, <1>8, <1>9, <1>10, <1>11, <4>1, GrantAppended
    <3>2. buckets'[k] = kept
      BY <1>2, <1>3, <1>6
    <3>3. Tells(kept, used.windowStart, used.count + 1, now)
      BY <1>8, <1>12, <1>14, <2>2 DEF Tells
    <3>4. used.count + 1 \in Nat /\ used.windowStart \in Int
      BY <1>10
    <3> QED
      BY <2>2, <3>1, <3>2, <3>3, <3>4 DEF KeyInv
  <2>3. CASE kk = k /\ ~granted
    <3>1. Segment(new, k, c, used.windowStart, used.count) /\ Burst(new, k)
      <4>1. ~e.granted /\ Burst(answered, k) /\ used.windowStart \in Int
        BY <1>1, <1>3, <1>10, <1>11, <2>3
      <4> QED
        BY <1>4, <1>9, <1>10, <1>11, <4>1, OtherAppended, OtherBurst
    <3>2. buckets'[k] = kept
      BY <1>2, <1>3, <1>6
    <3>3. Tells(kept, used.windowStart, used.count, now)
      BY <1>8, <1>12, <1>14, <2>3 DEF Tells
    <3>4. used.count \in Nat /\ used.windowStart \in Int
      BY <1>10
    <3> QED
      BY <2>3, <3>1, <3>2, <3>3, <3>4 DEF KeyInv
  <2> QED
    BY <2>1, <2>2, <2>3
<1> HIDE DEF new
<1> QED
  BY <1>2, <1>15, <1>16, <1>17, <1>18 DEF LimiterInv

LEMMA InvStep == LimiterInv /\ [Next]_vars => LimiterInv'
<1> SUFFICES ASSUME LimiterInv, [Next]_vars PROVE LimiterInv'
  OBVIOUS
<1>1. CASE Tick
  BY <1>1, TickStep
<1>2. ASSUME NEW t \in Threads, Update(t) PROVE LimiterInv'
  BY <1>2, UpdateStep
<1>3. ASSUME NEW t \in Threads, NEW k \in Keys, ReadClock(t, k) PROVE LimiterInv'
  BY <1>3, ReadClockStep
<1>4. CASE UNCHANGED vars
  BY <1>4 DEF vars, LimiterInv, TypeOK, PastInv, RefusedInv, Inside
<1> QED
  BY <1>1, <1>2, <1>3, <1>4 DEF Next

(* The buckets agree with the answers given, cut at each client's window.  *)
THEOREM LimiterInvHolds == Spec => []LimiterInv
BY InvInit, InvStep, PTL DEF Spec

(* The members of the limiter and the calls in flight keep their types.    *)
THEOREM TypeCorrect == Spec => []TypeOK
<1>1. LimiterInv => TypeOK
  BY DEF LimiterInv
<1> QED
  BY LimiterInvHolds, <1>1, PTL

(* allow() lets through at most two windows' worth of a client's calls in  *)
(* any window's time less the lag.                                         *)
THEOREM BurstsBounded == Spec => []BurstBounded
<1>1. ASSUME LimiterInv, NEW k \in Keys, NEW from \in 1 .. now
      PROVE  Cardinality(Granted(k, from, from + Window - MaxLag - 1)) <= 2 * Max
  <2>1. from \in Int
    BY <1>1, Clock DEF LimiterInv
  <2>2. Granted(k, from, from + Window - MaxLag - 1) = During(answered, k, from)
    BY DEF Granted, During, Mine, Span
  <2> QED
    BY <1>1, <2>1, <2>2 DEF LimiterInv, Burst
<1>2. LimiterInv => BurstBounded
  BY <1>1 DEF BurstBounded
<1> QED
  BY LimiterInvHolds, <1>2, PTL

(* allow() refuses a client only after as many grants as the limit, within *)
(* the last window and the lag.                                            *)
THEOREM RefusalsJustified == Spec => []RefusedOnlyOverLimit
<1>1. ASSUME LimiterInv, NEW i \in 1 .. Len(answered), ~answered[i].granted
      PROVE  Cardinality({j \in Granted(answered[i].key, answered[i].at - Window + 1 - MaxLag, now) :
                             j < i}) >= Max
  <2>1. Len(answered) \in Nat
    BY <1>1, Clock DEF LimiterInv
  <2>2. \A j \in Int : j \in 1 .. Len(answered) /\ j < i <=> j \in 1 .. i - 1
    BY <2>1
  <2>3. 1 .. i - 1 \subseteq Int /\ 1 .. Len(answered) \subseteq Int
    OBVIOUS
  <2>4. {j \in Granted(answered[i].key, answered[i].at - Window + 1 - MaxLag, now) : j < i}
          = Reasons(answered, i, now)
    BY <2>2, <2>3 DEF Granted, Reasons
  <2> QED
    BY <1>1, <2>4 DEF LimiterInv, RefusedInv
<1>2. LimiterInv => RefusedOnlyOverLimit
  BY <1>1 DEF RefusedOnlyOverLimit
<1> QED
  BY LimiterInvHolds, <1>2, PTL
=============================================================================
