------------------------------ MODULE AccessLog ------------------------------
(***************************************************************************)
(* The access log of Logger.cpp: request threads hand their lines to a     *)
(* bounded queue, a writer thread moves them to the file in batches, and   *)
(* flushAccess and the destructor write what they find in the queue.       *)
(*                                                                         *)
(* The queue and the file have a mutex each; a step below is one critical  *)
(* section of one of them, and the writer's batch and the batch of a       *)
(* flushing thread are outside both.  The writer's wait is timed and may   *)
(* time out at any moment, so it can go on whether or not it was notified: *)
(* the notifications only shorten the wait and are not modelled.           *)
(*                                                                         *)
(* A line is the sequence number that accessCounter_ gave to its call.     *)
(***************************************************************************)
EXTENDS Integers, Sequences, FiniteSets, SequencesExt

CONSTANTS
    Callers,      \* request threads, which call access()
    Flushers,     \* threads that call flushAccess()
    Destructor,   \* the thread that runs ~Logger()
    Modes,        \* the values asyncAccessLog_ may be configured to
    SampleRate,   \* accessLogSampleRate_
    Capacity,     \* accessQueueCapacity_
    MayFail,      \* can a write to the file fail (a full disk)?
    MaxCalls,     \* bound on the calls of access()
    MaxFlushes    \* bound on the calls of flushAccess()

ASSUME LogAssumption ==
    /\ IsFiniteSet(Callers) /\ IsFiniteSet(Flushers) /\ Destructor \notin Flushers
    /\ Modes \subseteq BOOLEAN /\ MayFail \in BOOLEAN
    /\ SampleRate \in Nat \ {0} /\ Capacity \in Nat \ {0}
    /\ MaxCalls \in Nat /\ MaxFlushes \in Nat

VARIABLES
    async,     \* asyncAccessLog_
    counter,   \* accessCounter_
    dropped,   \* droppedAccessLogs_
    queue,     \* accessQueue_
    stopping,  \* stopping_
    file,      \* the lines given to access_
    synced,    \* how many of them have left the stream's buffer
    good,      \* access_ is in a good state
    lost,      \* history: lines given to access_ while it was not
    accepted,  \* history: the lines in the order in which they were accepted
    pending,   \* the line each caller is about to hand over, or NoLine
    writer,    \* where accessWriterLoop is
    batch,     \* its batch
    fpc,       \* where each flushing thread is
    fbatch,    \* its batch
    flushes    \* history: the number of calls of flushAccess

callVars  == <<counter, dropped, accepted, pending>>
fileVars  == <<file, synced, good, lost>>
writeVars == <<writer, batch>>
flushVars == <<fpc, fbatch, flushes>>
vars == <<async, callVars, queue, stopping, fileVars, writeVars, flushVars>>

NoLine == -1
AllFlushers == Flushers \cup {Destructor}

Init ==
    /\ async \in Modes
    /\ counter = 0 /\ dropped = 0 /\ accepted = <<>>
    /\ pending = [c \in Callers |-> NoLine]
    /\ queue = <<>> /\ stopping = FALSE
    /\ file = <<>> /\ synced = 0 /\ good \in {TRUE, ~MayFail} /\ lost = {}
    /\ writer = (IF async THEN "wait" ELSE "done") /\ batch = <<>>
    /\ fpc = [f \in AllFlushers |-> "idle"]
    /\ fbatch = [f \in AllFlushers |-> <<>>]
    /\ flushes = 0

-----------------------------------------------------------------------------
(* access().  The counter is atomic and shared, so sampling takes every    *)
(* SampleRate-th call whichever thread makes it.                           *)
Sampled(n) == n % SampleRate = 0

CountCall(c) ==
    /\ fpc[Destructor] = "idle"
    /\ pending[c] = NoLine /\ counter < MaxCalls
    /\ counter' = counter + 1
    /\ pending' = [pending EXCEPT ![c] = IF Sampled(counter) THEN counter ELSE NoLine]
    /\ UNCHANGED <<async, dropped, accepted, queue, stopping, fileVars, writeVars, flushVars>>

Accept(c) ==
    /\ accepted' = Append(accepted, pending[c])
    /\ pending' = [pending EXCEPT ![c] = NoLine]

(* Without the writer the line goes to the stream, which may keep it in    *)
(* its buffer.                                                             *)
WriteLine(c) ==
    /\ pending[c] # NoLine /\ ~async
    /\ Accept(c)
    /\ \/ /\ good
          /\ file' = Append(file, pending[c])
          /\ synced' \in {synced, Len(file')}
          /\ UNCHANGED <<good, lost>>
       \/ /\ ~good \/ MayFail
          /\ good' = FALSE
          /\ lost' = lost \cup {pending[c]}
          /\ UNCHANGED <<file, synced>>
    /\ UNCHANGED <<async, counter, dropped, queue, stopping, writeVars, flushVars>>

Full == Len(queue) >= Capacity

Enqueue(c) ==
    /\ pending[c] # NoLine /\ async /\ ~Full
    /\ queue' = Append(queue, pending[c])
    /\ Accept(c)
    /\ UNCHANGED <<async, counter, dropped, stopping, fileVars, writeVars, flushVars>>

(* Mutant: the dropped line is not counted. *)
DropUncounted(c) ==
    /\ pending[c] # NoLine /\ async /\ Full
    /\ pending' = [pending EXCEPT ![c] = NoLine]
    /\ UNCHANGED <<async, counter, dropped, accepted, queue, stopping, fileVars, writeVars, flushVars>>

Drop(c) ==
    /\ pending[c] # NoLine /\ async /\ Full
    /\ dropped' = dropped + 1
    /\ pending' = [pending EXCEPT ![c] = NoLine]
    /\ UNCHANGED <<async, counter, accepted, queue, stopping, fileVars, writeVars, flushVars>>

-----------------------------------------------------------------------------
(* writeAccessBatch, under accessFileMutex_.  If a write or a flush fails  *)
(* after n lines went to the stream, the stream stays bad, and every later *)
(* line is discarded without a count.                                      *)
WriteAccessBatch(lines) ==
    \/ /\ good \/ lines = <<>>
       /\ file' = file \o lines
       /\ synced' = IF lines = <<>> THEN synced ELSE Len(file')
       /\ UNCHANGED <<good, lost>>
    \/ /\ ~good \/ MayFail
       /\ lines # <<>>
       /\ \E n \in 0 .. Len(lines) :
            /\ n > 0 => good
            /\ file' = file \o SubSeq(lines, 1, n)
            /\ synced' \in IF good THEN synced .. Len(file') ELSE {synced}
            /\ lost' = lost \cup {lines[i] : i \in n + 1 .. Len(lines)}
       /\ good' = FALSE

(* accessWriterLoop.  The writer takes the whole queue, whatever woke it,  *)
(* and ends when it finds the queue empty after stopping_ was set.         *)
WriterTakes(ends) ==
    /\ writer = "wait"
    /\ batch' = queue /\ queue' = <<>>
    /\ writer' = IF ends THEN "done" ELSE "write"
    /\ UNCHANGED <<async, callVars, stopping, fileVars, flushVars>>

(* Mutant: the writer ends when a wait times out on an empty queue. *)
WriterTakeEndsIdle == WriterTakes(queue = <<>>)

WriterTake == WriterTakes(stopping /\ queue = <<>>)

WriterWrite ==
    /\ writer = "write"
    /\ WriteAccessBatch(batch)
    /\ writer' = "wait" /\ batch' = <<>>
    /\ UNCHANGED <<async, callVars, queue, stopping, flushVars>>

-----------------------------------------------------------------------------
(* flushAccess, by a flusher or from the destructor.                       *)
FlushBegin(f) ==
    /\ fpc[Destructor] = "idle"
    /\ fpc[f] \in {"idle", "returned"} /\ flushes < MaxFlushes
    /\ flushes' = flushes + 1
    /\ fpc' = [fpc EXCEPT ![f] = IF async THEN "take" ELSE "sync"]
    /\ UNCHANGED <<async, callVars, queue, stopping, fileVars, writeVars, fbatch>>

FlushTake(f) ==
    /\ fpc[f] = "take"
    /\ fbatch' = [fbatch EXCEPT ![f] = queue]
    /\ queue' = <<>>
    /\ fpc' = [fpc EXCEPT ![f] = "write"]
    /\ UNCHANGED <<async, callVars, stopping, fileVars, writeVars, flushes>>

FlushWrite(f) ==
    /\ fpc[f] = "write"
    /\ WriteAccessBatch(fbatch[f])
    /\ fbatch' = [fbatch EXCEPT ![f] = <<>>]
    /\ fpc' = [fpc EXCEPT ![f] = "sync"]
    /\ UNCHANGED <<async, callVars, queue, stopping, writeVars, flushes>>

FlushSync(f) ==
    /\ fpc[f] = "sync"
    /\ \/ good /\ synced' = Len(file) /\ UNCHANGED good
       \/ (~good \/ MayFail) /\ good' = FALSE /\ UNCHANGED synced
    /\ fpc' = [fpc EXCEPT ![f] = "returned"]
    /\ UNCHANGED <<async, callVars, queue, stopping, file, lost, writeVars, fbatch, flushes>>

(* ~Logger.  No other call is under way or follows: the owner of a Logger  *)
(* destroys it after the threads that use it.                              *)
AtRest == /\ \A c \in Callers : pending[c] = NoLine
          /\ \A f \in Flushers : fpc[f] \in {"idle", "returned"}

DestroyBegin ==
    /\ fpc[Destructor] = "idle" /\ AtRest
    /\ stopping' = async
    /\ fpc' = [fpc EXCEPT ![Destructor] = "join"]
    /\ UNCHANGED <<async, callVars, queue, fileVars, writeVars, fbatch, flushes>>

(* Mutant: the writer is not waited for. *)
DestroyJoinNot ==
    /\ fpc[Destructor] = "join"
    /\ fpc' = [fpc EXCEPT ![Destructor] = IF async THEN "take" ELSE "sync"]
    /\ UNCHANGED <<async, callVars, queue, stopping, fileVars, writeVars, fbatch, flushes>>

DestroyJoin ==
    /\ fpc[Destructor] = "join" /\ writer = "done"
    /\ fpc' = [fpc EXCEPT ![Destructor] = IF async THEN "take" ELSE "sync"]
    /\ UNCHANGED <<async, callVars, queue, stopping, fileVars, writeVars, fbatch, flushes>>

Destroyed == fpc[Destructor] = "returned"

-----------------------------------------------------------------------------
Flush(f) == FlushTake(f) \/ FlushWrite(f) \/ FlushSync(f)
Access(c) == WriteLine(c) \/ Enqueue(c) \/ Drop(c)
Writer == WriterTake \/ WriterWrite

Next ==
    \/ \E c \in Callers : CountCall(c) \/ Access(c)
    \/ Writer
    \/ \E f \in Flushers : FlushBegin(f)
    \/ \E f \in AllFlushers : Flush(f)
    \/ DestroyBegin \/ DestroyJoin
    \/ Destroyed /\ UNCHANGED vars

Spec == Init /\ [][Next]_vars

(* The writer thread, a thread inside access() or flushAccess(), and the   *)
(* destructor once it runs, keep running: the waits they meet are mutexes  *)
(* held over a bounded number of steps and a timed wait.                   *)
Fairness ==
    /\ WF_vars(Writer)
    /\ \A c \in Callers : WF_vars(Access(c))
    /\ \A f \in AllFlushers : WF_vars(Flush(f))
    /\ WF_vars(DestroyJoin)

FairSpec == Spec /\ Fairness

-----------------------------------------------------------------------------
Lines == 0 .. MaxCalls - 1

(* The members of Logger.hpp keep their types, and a batch is only held    *)
(* between the swap that fills it and the write that empties it.           *)
TypeOK ==
    /\ async \in Modes
    /\ counter \in 0 .. MaxCalls /\ dropped \in 0 .. MaxCalls
    /\ \A s \in {queue, file, accepted, batch} : s \in Seq(Lines)
    /\ stopping \in BOOLEAN /\ good \in BOOLEAN
    /\ synced \in 0 .. Len(file) /\ lost \subseteq Lines
    /\ pending \in [Callers -> Lines \cup {NoLine}]
    /\ writer \in {"wait", "write", "done"}
    /\ writer # "write" => batch = <<>>
    /\ fpc \in [AllFlushers -> {"idle", "join", "take", "write", "sync", "returned"}]
    /\ fbatch \in [AllFlushers -> Seq(Lines)]
    /\ \A f \in AllFlushers : fpc[f] # "write" => fbatch[f] = <<>>
    /\ flushes \in 0 .. MaxFlushes

Underway == {c \in Callers : pending[c] # NoLine}
SampledCalls == {n \in 0 .. counter - 1 : Sampled(n)}

Apart(S, T) == S \cap T = {}

(* Where an accepted line is: one of the sequences of the program, or lost. *)
Accounted ==
    ToSet(accepted) = ToSet(file) \cup ToSet(queue) \cup ToSet(batch) \cup lost
                        \cup UNION {ToSet(fbatch[f]) : f \in AllFlushers}

(* No line is twice in one place, nor in two.                              *)
InOnePlace ==
    /\ \A s \in {accepted, file, queue, batch} : IsInjective(s)
    /\ Apart(ToSet(file), ToSet(queue)) /\ Apart(ToSet(file), ToSet(batch))
    /\ Apart(ToSet(queue), ToSet(batch))
    /\ \A s \in {file, queue, batch} : Apart(lost, ToSet(s))
    /\ \A f \in AllFlushers :
         /\ IsInjective(fbatch[f]) /\ Apart(lost, ToSet(fbatch[f]))
         /\ \A s \in {file, queue, batch} : Apart(ToSet(fbatch[f]), ToSet(s))
         /\ \A g \in AllFlushers \ {f} : Apart(ToSet(fbatch[f]), ToSet(fbatch[g]))

(* Every sampled call is accounted for exactly once, wherever its line is: *)
(* handed over, dropped and counted in dropped_access_logs, or still with  *)
(* its caller; and every accepted line is in memory, in the file or lost   *)
(* to a failed stream, in one place only.                                  *)
EveryLineAccountedFor ==
    /\ Cardinality(SampledCalls) = Len(accepted) + dropped + Cardinality(Underway)
    /\ Accounted
    /\ InOnePlace

(* Lines reach the file in the order in which they were accepted, unless   *)
(* flushAccess was called beside the writer: the writer and the destructor *)
(* each take the queue after the batch before it is in the file.           *)
LogInAcceptanceOrder ==
    flushes = 0 \/ ~async =>
    IF good THEN file \o batch \o fbatch[Destructor] \o queue = accepted
            ELSE IsPrefix(file, accepted)

(* When ~Logger returns and no write failed, every accepted line is on     *)
(* disk, the ones accepted right before it began included.                 *)
DestructorFlushes ==
    Destroyed /\ good => synced = Len(accepted) /\ queue = <<>> /\ batch = <<>>

(* With the writer thread, an accepted line reaches the disk without a     *)
(* flush or the destructor, unless a write failed.                         *)
AcceptedLineReachesDisk ==
    \A n \in Lines : async /\ n \in ToSet(accepted)
                       ~> n \in ToSet(SubSeq(file, 1, synced)) \/ ~good
=============================================================================
