----------------------------- MODULE RateLimiter -----------------------------
(***************************************************************************)
(* The sharded fixed-window limiter of RateLimiter.cpp, called by the      *)
(* worker threads for each connection with the client's key.               *)
(*                                                                         *)
(* allow() reads the steady clock before it takes the shard's mutex, so a  *)
(* thread may update a bucket with a time older than the one a later call  *)
(* has already put there; MaxLag bounds how much older.  Time is counted   *)
(* in ticks: Window stands for the 60 seconds of a window and Retain for   *)
(* the 5 minutes after which cleanupShard drops an idle bucket.  A limit   *)
(* of 0, which refuses every call at once, has no state and is left out.   *)
(***************************************************************************)
EXTENDS Integers, Sequences, FiniteSets

CONSTANTS
    Threads, Keys,
    Shards, ShardOf,  \* shards_ and the hash that picks one
    Max,              \* maxPerMinute_
    Window, Retain,
    CleanupEvery,     \* operations between two cleanups of a shard: 4096
    MaxLag,           \* longest time between reading the clock and the update
    NoBucket,
    MaxCalls,         \* bound on the calls of allow()
    MaxTime           \* bound on the clock

ASSUME LimiterAssumption ==
    /\ IsFiniteSet(Threads) /\ ShardOf \in [Keys -> Shards]
    /\ NoBucket \notin [count : Nat, windowStart : Nat, lastSeen : Nat]
    /\ Max \in Nat \ {0} /\ Window \in Nat \ {0} /\ Retain \in Nat
    /\ CleanupEvery \in Nat \ {0} /\ MaxLag \in Nat
    /\ MaxLag < Window /\ Window + 2 * MaxLag <= Retain
    /\ MaxCalls \in Nat /\ MaxTime \in Nat \ {0}

VARIABLES
    now,         \* steady_clock, above 0 when the server starts
    buckets,     \* each key's Bucket in its shard, or NoBucket
    operations,  \* each Shard's operations, modulo CleanupEvery
    calls,       \* the key and the clock reading of each thread inside allow()
    answered     \* history: the answers, in the order of the updates

vars == <<now, buckets, operations, calls, answered>>

Outside == [key |-> NoBucket, at |-> 0]

Init ==
    /\ now = 1
    /\ buckets = [k \in Keys |-> NoBucket]
    /\ operations = [s \in Shards |-> 0]
    /\ calls = [t \in Threads |-> Outside]
    /\ answered = <<>>

Inside == {t \in Threads : calls[t] # Outside}

Tick ==
    /\ now < MaxTime
    /\ \A t \in Inside : now - calls[t].at < MaxLag
    /\ now' = now + 1
    /\ UNCHANGED <<buckets, operations, calls, answered>>

-----------------------------------------------------------------------------
(* allow(): the clock is read outside the shard's critical section.        *)
ReadClock(t, k) ==
    /\ calls[t] = Outside
    /\ Len(answered) + Cardinality(Inside) < MaxCalls
    /\ calls' = [calls EXCEPT ![t] = [key |-> k, at |-> now]]
    /\ UNCHANGED <<now, buckets, operations, answered>>

(* Mutant: any bucket is dropped, busy or not. *)
IdleAlways(b, at) == TRUE

Idle(b, at) == at - b.lastSeen >= Retain

(* The shard after the cleanup, due or not, of the call's operation.       *)
Cleaned(s, at) ==
    IF (operations[s] + 1) % CleanupEvery # 0 THEN buckets
    ELSE [k \in Keys |-> IF ShardOf[k] = s /\ buckets[k] # NoBucket /\ Idle(buckets[k], at)
                         THEN NoBucket ELSE buckets[k]]

Fresh(at) == [count |-> 0, windowStart |-> at, lastSeen |-> at]

(* Mutant: the window is extended by every call. *)
CurrentSliding(b, at) ==
    IF b = NoBucket THEN Fresh(at)
    ELSE IF at - b.lastSeen >= Window THEN Fresh(at)
    ELSE [b EXCEPT !.lastSeen = at]

(* The bucket a call at time at counts in: a new one, the one of a new     *)
(* window, or the one found.                                               *)
Current(b, at) ==
    IF b = NoBucket THEN Fresh(at)
    ELSE IF at - b.windowStart >= Window THEN Fresh(at)
    ELSE [b EXCEPT !.lastSeen = at]

(* The critical section of allow().                                        *)
Update(t) ==
    LET k == calls[t].key
        at == calls[t].at
        s == ShardOf[k]
        b == Current(Cleaned(s, at)[k], at)
        granted == b.count < Max
    IN  /\ calls[t] # Outside
        /\ operations' = [operations EXCEPT ![s] = (@ + 1) % CleanupEvery]
        /\ buckets' = [Cleaned(s, at) EXCEPT ![k] = [b EXCEPT !.count = IF granted THEN @ + 1 ELSE @]]
        /\ answered' = Append(answered, [key |-> k, at |-> at, granted |-> granted])
        /\ calls' = [calls EXCEPT ![t] = Outside]
        /\ UNCHANGED now

Next ==
    \/ Tick
    \/ \E t \in Threads : Update(t) \/ \E k \in Keys : ReadClock(t, k)

Spec == Init /\ [][Next]_vars

-----------------------------------------------------------------------------
(* The members of RateLimiter.hpp keep their types, and no bucket counts   *)
(* more than its limit.                                                    *)
Times == 1 .. MaxTime

TypeOK ==
    /\ now \in Times
    /\ buckets \in [Keys -> [count : 1 .. Max, windowStart : Times, lastSeen : Times]
                             \cup {NoBucket}]
    /\ operations \in [Shards -> 0 .. CleanupEvery - 1]
    /\ calls \in [Threads -> [key : Keys, at : Times] \cup {Outside}]
    /\ answered \in Seq([key : Keys, at : Times, granted : BOOLEAN])

Granted(k, from, to) ==
    {i \in 1 .. Len(answered) :
        /\ answered[i].key = k /\ answered[i].granted
        /\ answered[i].at \in from .. to}

(* No client gets more than two windows' worth of requests in one window's *)
(* time, less the lag: not through stale clock readings, and not because   *)
(* cleanupShard dropped its bucket.                                        *)
BurstBounded ==
    \A k \in Keys : \A from \in 1 .. now :
        Cardinality(Granted(k, from, from + Window - MaxLag - 1)) <= 2 * Max

(* A client is refused only if it really used its limit within the last    *)
(* window and the lag, counting from the time of the refused call: a grant *)
(* with a clock reading from before the window began counts in it too.     *)
RefusedOnlyOverLimit ==
    \A i \in 1 .. Len(answered) : ~answered[i].granted =>
        LET start == answered[i].at - Window + 1 - MaxLag
        IN  Cardinality({j \in Granted(answered[i].key, start, now) : j < i}) >= Max
=============================================================================
