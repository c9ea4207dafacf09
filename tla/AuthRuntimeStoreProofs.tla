----------------------- MODULE AuthRuntimeStoreProofs -----------------------
(***************************************************************************)
(* The hot-reloaded token store for any number of worker threads, any      *)
(* files, requests and reload intervals, and any interleaving of edits,    *)
(* refreshes and decisions: who decides a request decides it by the tokens *)
(* of a version of the file, each reload is audited once, and, when the    *)
(* file is left alone while the constructor runs, an edit takes effect     *)
(* within the interval.                                                    *)
(***************************************************************************)
EXTENDS AuthRuntimeStore, FiniteSetTheorems, SequenceTheorems, WellFoundedInduction, TLAPS

(* Clock readings and write times are of the past.                         *)
BoundInv ==
    /\ mtime <= edits + 1 /\ lastCheck <= now /\ disturbedAt <= now
    /\ lastWriteTime <= mtime /\ \A v \in tried : v <= mtime
    /\ \A r \in Threads : writeTime[r] <= mtime /\ began[r].at <= now

(* The constructor runs alone.                                             *)
BootInv ==
    /\ boot # "ready" =>
         /\ generation = 0 /\ audited = <<>> /\ tried = {}
         /\ \A r \in Threads : pc[r] = "idle" /\ ~began[r].quiet
    /\ boot = "stat" =>
         /\ fileTokens # Absent /\ FileReadable(fileTokens)
         /\ (Unique(Combined(fileTokens)) => fileTokens \in seen)
         /\ (~StartupEdits => disk = fileTokens)

TokensOf(file) == IF file = Absent THEN InlineTokens ELSE Combined(file)

(* The tokens are always those of some version of the file.                *)
VersionInv ==
    /\ disk = Absent \/ Loads(disk) => disk \in seen
    /\ boot = "ready" => \E file \in seen : active = TokensOf(file)

(* What the store takes for the current version is it, if it loaded.       *)
CurrentInv ==
    ~StartupEdits /\ boot = "ready" =>
        /\ ~hadFile => active = InlineTokens
        /\ hadFile /\ lastWriteTime = mtime /\ disk # Absent /\ mtime \notin tried
             => active = Combined(disk)

Synced == IF disk = Absent THEN ~hadFile ELSE hadFile /\ lastWriteTime = mtime

(* What a refresh knows of the file while the file is left alone.          *)
Knows(r) ==
    /\ pc[r] \in {"stat", "load"} => disk # Absent
    /\ pc[r] = "load" => writeTime[r] = mtime

(* A check that began after the last disturbance brings the store up to    *)
(* the file.                                                               *)
CheckInv ==
    boot = "ready" /\ disturbedAt < lastCheck =>
        IF mutex = NoThread THEN Synced ELSE Knows(mutex)

(* So does the refresh of a request during which the file is left alone,   *)
(* and no other thread is about to load the file again.                    *)
QuietInv(r) ==
    began[r].quiet =>
        /\ disturbedAt <= began[r].at /\ Knows(r)
        /\ HotReload /\ pc[r] = "decide" /\ disturbedAt + interval <= began[r].at
             => Synced /\ \A t \in Threads : pc[t] # "load"

(* A reload is announced by the thread that did it, and not yet audited.   *)
ReportInv ==
    /\ \A r \in Threads :
         result[r].code = "Reloaded" => pc[r] \in {"decide", "audit"}
    /\ GenerationsAudited

StoreInv ==
    /\ TypeOK /\ BoundInv /\ BootInv /\ VersionInv /\ CurrentInv /\ CheckInv
    /\ \A r \in Threads : QuietInv(r)
    /\ ReportInv

-----------------------------------------------------------------------------
Points == {"idle", "refresh", "exists", "stat", "load", "decide", "audit"}
Answers == [code : {"NoChange", "Reloaded", "Failed"}, generation : Nat]

LEMMA Numbers ==
    ASSUME TypeOK
    PROVE  /\ mtime \in Nat /\ edits \in Nat /\ now \in Nat /\ disturbedAt \in Nat
           /\ lastCheck \in Nat /\ lastWriteTime \in Nat /\ interval \in Nat
           /\ fsFailures \in Nat /\ generation \in Nat
           /\ MaxEdits \in Nat /\ MaxTime \in Nat /\ MaxFsFailures \in Nat
           /\ \A r \in Threads : /\ writeTime[r] \in Nat /\ began[r].at \in Nat
                                 /\ began[r].quiet \in BOOLEAN
                                 /\ result[r] \in Answers /\ pc[r] \in Points
BY StoreAssumption DEF TypeOK, Answers, Points

LEMMA InvInit == Init => StoreInv
<1> SUFFICES ASSUME Init PROVE StoreInv
  OBVIOUS
<1>1. seen \subseteq Contents \cup {Absent} /\ (disk = Absent \/ Loads(disk) => disk \in seen)
  BY DEF Init, Usable
<1>2. TypeOK
  <2>1. disk \in Contents /\ seen \subseteq Contents \cup {Absent} /\ mtime = 1
    BY <1>1 DEF Init
  <2>2. mtime \in 1 .. MaxEdits + 1 /\ lastWriteTime \in 0 .. MaxEdits + 1
    BY StoreAssumption DEF Init
  <2>3. /\ now \in 0 .. MaxTime /\ disturbedAt \in 0 .. MaxTime /\ lastCheck \in 0 .. MaxTime
        /\ edits \in 0 .. MaxEdits /\ fsFailures \in 0 .. MaxFsFailures
        /\ generation \in Nat
    <3>1. MaxTime \in Nat /\ MaxEdits \in Nat /\ MaxFsFailures \in Nat
      BY StoreAssumption
    <3> QED
      BY <3>1 DEF Init
  <2>4. /\ pc \in [Threads -> {"idle", "refresh", "exists", "stat", "load", "decide", "audit"}]
        /\ writeTime \in [Threads -> 0 .. MaxEdits + 1]
        /\ result \in [Threads -> [code : {"NoChange", "Reloaded", "Failed"}, generation : Nat]]
        /\ began \in [Threads -> [at : 0 .. MaxTime, quiet : BOOLEAN]]
        /\ decision \in [Threads -> {"none", "auth_missing", "auth_invalid", "auth_expired",
                                     "auth_scope_denied", "auth_allowed"}]
    BY StoreAssumption DEF Init, NoChange, NotBegun
  <2>5. \A r \in Threads : pc[r] \in {"exists", "stat", "load"} <=> mutex = r
    BY StoreAssumption DEF Init
  <2>6. tried \subseteq Nat /\ audited \in Seq(Nat)
    BY DEF Init
  <2> QED
    BY <2>1, <2>2, <2>3, <2>4, <2>5, <2>6 DEF Init, TypeOK
<1>3. BoundInv
  BY DEF Init, BoundInv, NotBegun
<1>4. BootInv
  BY DEF Init, BootInv, NotBegun
<1>5. VersionInv /\ CurrentInv /\ CheckInv
  BY <1>1 DEF Init, VersionInv, CurrentInv, CheckInv
<1>6. \A r \in Threads : QuietInv(r)
  BY DEF Init, QuietInv, NotBegun
<1>7. ReportInv
  BY DEF Init, ReportInv, GenerationsAudited, NoChange
<1> QED
  BY <1>2, <1>3, <1>4, <1>5, <1>6, <1>7 DEF StoreInv

(* What was announced and audited stays.                                   *)
LEMMA ReportKeeps ==
    ASSUME ReportInv, UNCHANGED <<result, audited, generation, boot>>,
           \A r \in Threads : pc[r] \in {"decide", "audit"} => pc'[r] \in {"decide", "audit"}
    PROVE  ReportInv'
BY DEF ReportInv, GenerationsAudited

(* The operator replaces or removes the file.                              *)
LEMMA EditStep ==
    ASSUME StoreInv, Replace \/ Remove
    PROVE  StoreInv'
<1>1. /\ disk' \in Contents \cup {Absent} /\ mtime' \in {mtime, mtime + 1}
      /\ (disk' # Absent => mtime' = mtime + 1)
      /\ edits < MaxEdits /\ (boot = "ready" \/ StartupEdits)
      /\ edits' = edits + 1 /\ disturbedAt' = now /\ seen' = seen \cup Usable({disk'})
      /\ began' = [r \in Threads |-> [began[r] EXCEPT !.quiet = FALSE]]
      /\ UNCHANGED <<interval, now, fsFailures, boot, mutex, fileTokens, active, lastWriteTime,
                     hadFile, generation, lastCheck, pc, writeTime, result, decision, tried,
                     audited>>
  BY DEF Replace, Remove, Edit, MayEdit, Disturbed, storeVars
<1>2. TypeOK /\ BoundInv /\ BootInv /\ VersionInv /\ CurrentInv /\ CheckInv /\ ReportInv
  BY DEF StoreInv
<1>3. /\ mtime \in Nat /\ edits \in Nat /\ now \in Nat /\ lastCheck \in Nat
      /\ lastWriteTime \in Nat /\ MaxEdits \in Nat /\ disturbedAt \in Nat
      /\ \A r \in Threads : writeTime[r] \in Nat
      /\ mtime' \in Nat
  BY <1>1, <1>2, Numbers
<1>4. /\ began' \in [Threads -> [at : 0 .. MaxTime, quiet : BOOLEAN]]
      /\ \A r \in Threads : began'[r].at = began[r].at /\ began'[r].quiet = FALSE
  BY <1>1, <1>2 DEF TypeOK
<1>5. seen' \subseteq Contents \cup {Absent} /\ seen \subseteq seen'
      /\ (disk' = Absent \/ Loads(disk') => disk' \in seen')
  BY <1>1, <1>2 DEF TypeOK, Usable
<1>6. mtime' \in 1 .. MaxEdits + 1 /\ edits' \in 0 .. MaxEdits /\ mtime' <= edits' + 1
      /\ mtime <= mtime'
  BY SMTT(30), <1>1, <1>2, <1>3 DEF TypeOK, BoundInv
<1>7. TypeOK'
  BY <1>1, <1>2, <1>4, <1>5, <1>6 DEF TypeOK
<1>8. BoundInv'
  <2>1. lastWriteTime <= mtime' /\ \A v \in tried : v <= mtime'
    BY SMTT(30), <1>1, <1>2, <1>3, <1>6 DEF BoundInv, TypeOK
  <2>2. \A r \in Threads : writeTime[r] <= mtime' /\ began'[r].at <= now
    BY <1>1, <1>2, <1>3, <1>4, <1>6 DEF BoundInv
  <2> QED
    BY <1>1, <1>2, <1>3, <1>6, <2>1, <2>2 DEF BoundInv
<1>9. BootInv'
  BY <1>1, <1>2, <1>4, <1>5 DEF BootInv
<1>10. VersionInv'
  BY <1>1, <1>2, <1>5 DEF VersionInv, TokensOf
<1>11. CurrentInv'
  BY <1>1, <1>2, <1>3 DEF CurrentInv, BoundInv
<1>12. CheckInv'
  BY <1>1, <1>2, <1>3 DEF CheckInv, BoundInv
<1>13. \A r \in Threads : QuietInv(r)'
  BY <1>4 DEF QuietInv
<1>14. ReportInv'
  BY <1>1, <1>2, ReportKeeps
<1> QED
  BY <1>7, <1>8, <1>9, <1>10, <1>11, <1>12, <1>13, <1>14 DEF StoreInv

LEMMA TickStep ==
    ASSUME StoreInv, Tick
    PROVE  StoreInv'
<1>1. /\ now < MaxTime /\ now' = now + 1
      /\ UNCHANGED <<disk, mtime, edits, disturbedAt, seen, interval, fsFailures, boot, mutex,
                     fileTokens, active, lastWriteTime, hadFile, generation, lastCheck, pc,
                     writeTime, result, began, decision, tried, audited>>
  BY DEF Tick, fileVars, storeVars
<1>2. TypeOK /\ BoundInv /\ BootInv /\ VersionInv /\ CurrentInv /\ CheckInv /\ ReportInv
  BY DEF StoreInv
<1>3. /\ now \in Nat /\ lastCheck \in Nat /\ disturbedAt \in Nat /\ MaxTime \in Nat
      /\ \A r \in Threads : began[r].at \in Nat
  BY <1>2, Numbers
<1>4. TypeOK'
  BY <1>1, <1>2, <1>3 DEF TypeOK
<1>5. BoundInv'
  BY <1>1, <1>2, <1>3 DEF BoundInv
<1>6. BootInv' /\ VersionInv' /\ CurrentInv' /\ CheckInv'
  BY <1>1, <1>2 DEF BootInv, VersionInv, TokensOf, CurrentInv, CheckInv, Synced, Knows
<1>7. \A r \in Threads : QuietInv(r)'
  BY <1>1 DEF StoreInv, QuietInv, Synced, Knows
<1>8. ReportInv'
  BY <1>1, <1>2, ReportKeeps
<1> QED
  BY <1>4, <1>5, <1>6, <1>7, <1>8 DEF StoreInv

-----------------------------------------------------------------------------
(* The constructor, alone but for the operator.                            *)
LEMMA BootLoadStep ==
    ASSUME StoreInv, BootLoad
    PROVE  StoreInv'
<1>1. /\ boot = "load" /\ boot' \in {"stat", "aborted"}
      /\ boot' = "stat" => disk # Absent /\ FileReadable(disk) /\ fileTokens' = disk
      /\ boot' = "aborted" => fileTokens' = fileTokens
      /\ UNCHANGED <<disk, mtime, edits, disturbedAt, seen, interval, now, fsFailures, mutex,
                     active, lastWriteTime, hadFile, generation, lastCheck, pc,
                     writeTime, result, began, decision, tried, audited>>
  BY DEF BootLoad, BootRest, fileVars
<1>2. TypeOK /\ BoundInv /\ BootInv /\ VersionInv /\ CurrentInv /\ CheckInv /\ ReportInv
  BY DEF StoreInv
<1>3. fileTokens' \in Contents \cup {<<>>}
  BY <1>1, <1>2 DEF TypeOK
<1>4. TypeOK'
  BY <1>1, <1>2, <1>3 DEF TypeOK
<1>5. BoundInv'
  BY <1>1, <1>2 DEF BoundInv
<1>6. BootInv'
  BY <1>1, <1>2 DEF BootInv, VersionInv, Loads
<1>7. VersionInv' /\ CurrentInv' /\ CheckInv'
  BY <1>1, <1>2 DEF VersionInv, TokensOf, CurrentInv, CheckInv
<1>8. \A r \in Threads : QuietInv(r)'
  BY <1>1, <1>2 DEF BootInv, QuietInv
<1>9. ReportInv'
  BY <1>1, <1>2 DEF ReportInv, GenerationsAudited
<1> QED
  BY <1>4, <1>5, <1>6, <1>7, <1>8, <1>9 DEF StoreInv

LEMMA BootStatStep ==
    ASSUME StoreInv, BootStat
    PROVE  StoreInv'
<1>1. /\ boot = "stat"
      /\ \/ /\ disk # Absent /\ Unique(Combined(fileTokens))
            /\ lastWriteTime' = mtime /\ hadFile' = TRUE
            /\ active' = Combined(fileTokens) /\ generation' = 1 /\ lastCheck' = now
            /\ boot' = "ready"
         \/ /\ boot' = "aborted"
            /\ UNCHANGED <<lastWriteTime, hadFile, active, generation, lastCheck>>
      /\ UNCHANGED <<disk, mtime, edits, disturbedAt, seen, interval, now, fsFailures, mutex,
                     fileTokens, pc, writeTime, result, began, decision, tried, audited>>
  BY DEF BootStat, BootRest, fileVars
<1>2. TypeOK /\ BoundInv /\ BootInv /\ VersionInv /\ CurrentInv /\ CheckInv /\ ReportInv
  BY DEF StoreInv
<1>3. /\ fileTokens \in seen \/ ~Unique(Combined(fileTokens))
      /\ fileTokens # Absent /\ (~StartupEdits => disk = fileTokens)
      /\ generation = 0 /\ audited = <<>>
      /\ \A r \in Threads : pc[r] = "idle" /\ ~began[r].quiet
  BY <1>1, <1>2 DEF BootInv
<1>4. seen \subseteq Contents \cup {Absent} /\ mtime \in Nat
  BY <1>2, Numbers DEF TypeOK
<1>5. active' \in {Combined(file) : file \in Contents} \cup {<<>>, InlineTokens}
  BY <1>1, <1>2, <1>3, <1>4 DEF TypeOK
<1>6. TypeOK'
  <2>1. lastWriteTime' \in 0 .. MaxEdits + 1 /\ lastCheck' \in 0 .. MaxTime
    BY <1>1, <1>2 DEF TypeOK
  <2>2. generation' \in Nat
    BY <1>1, <1>3
  <2>3. hadFile' \in BOOLEAN /\ boot' \in {"load", "stat", "ready", "aborted"}
    BY <1>1, <1>2 DEF TypeOK
  <2> QED
    BY <1>1, <1>2, <1>5, <2>1, <2>2, <2>3 DEF TypeOK
<1>7. BoundInv'
  BY <1>1, <1>2, Numbers DEF BoundInv
<1>8. BootInv'
  BY <1>1, <1>2, <1>3 DEF BootInv
<1>9. VersionInv'
  BY <1>1, <1>2, <1>3 DEF VersionInv, TokensOf
<1>10. CurrentInv'
  BY <1>1, <1>3 DEF CurrentInv
<1>11. CheckInv'
  <2>1. boot' = "ready" => mutex = NoThread
    BY <1>2, <1>3 DEF TypeOK
  <2> QED
    BY <1>1, <2>1 DEF CheckInv, Synced
<1>12. \A r \in Threads : QuietInv(r)'
  BY <1>1, <1>3 DEF QuietInv
<1>13. ReportInv'
  <2>1. \A r \in Threads : result[r].code # "Reloaded"
    BY <1>2, <1>3 DEF ReportInv
  <2>2. {r \in Threads : result'[r].code = "Reloaded"} = {}
    BY <1>1, <2>1
  <2>3. Cardinality({}) = 0 /\ Len(<<>>) = 0
    BY FS_EmptySet
  <2>4. boot' = "ready" => generation' = 1 /\ audited' = <<>>
    BY <1>1, <1>3
  <2>5. GenerationsAudited'
    <3> SUFFICES ASSUME boot' = "ready"
                 PROVE  /\ {audited'[i] : i \in 1 .. Len(audited')}
                             \cup {result'[r].generation :
                                     r \in {r \in Threads : result'[r].code = "Reloaded"}}
                             = 2 .. generation'
                        /\ Len(audited') + Cardinality({r \in Threads : result'[r].code = "Reloaded"})
                             = generation' - 1
      BY DEF GenerationsAudited
    <3>1. {audited'[i] : i \in 1 .. Len(audited')} = {} /\ 2 .. generation' = {}
      BY <2>3, <2>4
    <3>2. {result'[r].generation : r \in {r \in Threads : result'[r].code = "Reloaded"}} = {}
      BY <2>2
    <3>3. Len(audited') + Cardinality({r \in Threads : result'[r].code = "Reloaded"})
             = generation' - 1
      <4> DEFINE reported == {r \in Threads : result'[r].code = "Reloaded"}
      <4>1. reported = {}
        BY <2>2
      <4> HIDE DEF reported
      <4>2. Cardinality(reported) = 0 /\ Len(audited') = 0 /\ generation' = 1
        BY <2>3, <2>4, <4>1
      <4> QED
        BY <4>2 DEF reported
    <3> QED
      BY <3>1, <3>2, <3>3
  <2> QED
    BY <1>1, <2>1, <2>5 DEF ReportInv
<1> QED
  BY <1>6, <1>7, <1>8, <1>9, <1>10, <1>11, <1>12, <1>13 DEF StoreInv

-----------------------------------------------------------------------------
(* A request arrives and reads the clock.                                  *)
LEMMA ArriveStep ==
    ASSUME StoreInv, NEW r \in Threads, Arrive(r)
    PROVE  StoreInv'
<1>1. /\ boot = "ready" /\ pc[r] = "idle" /\ pc' = [pc EXCEPT ![r] = "refresh"]
      /\ began' = [began EXCEPT ![r] = [at |-> now, quiet |-> TRUE]]
      /\ UNCHANGED <<disk, mtime, edits, disturbedAt, seen, interval, now, fsFailures, boot,
                     mutex, fileTokens, active, lastWriteTime, hadFile, generation, lastCheck,
                     writeTime, result, decision, tried, audited>>
  BY DEF Arrive, fileVars, storeVars
<1>2. TypeOK /\ BoundInv /\ BootInv /\ VersionInv /\ CurrentInv /\ CheckInv /\ ReportInv
      /\ \A t \in Threads : QuietInv(t)
  BY DEF StoreInv
<1>3. /\ pc' \in [Threads -> {"idle", "refresh", "exists", "stat", "load", "decide", "audit"}]
      /\ pc'[r] = "refresh" /\ \A t \in Threads \ {r} : pc'[t] = pc[t]
      /\ began' \in [Threads -> [at : 0 .. MaxTime, quiet : BOOLEAN]]
      /\ began'[r].at = now /\ \A t \in Threads \ {r} : began'[t] = began[t]
  BY <1>1, <1>2 DEF TypeOK
<1>4. TypeOK'
  BY <1>1, <1>2, <1>3 DEF TypeOK
<1>5. BoundInv'
  BY <1>1, <1>2, <1>3, Numbers DEF BoundInv
<1>6. BootInv' /\ VersionInv' /\ CurrentInv'
  BY <1>1, <1>2 DEF BootInv, VersionInv, TokensOf, CurrentInv
<1>7. CheckInv'
  BY <1>1, <1>2, <1>3 DEF CheckInv, Synced, Knows, TypeOK
<1>8. ASSUME NEW t \in Threads PROVE QuietInv(t)'
  <2>1. CASE t = r
    BY <1>1, <1>2, <1>3, <2>1 DEF QuietInv, Knows, BoundInv
  <2>2. CASE t # r
    BY <1>1, <1>2, <1>3, <2>2 DEF QuietInv, Knows, Synced
  <2> QED
    BY <2>1, <2>2
<1>9. ReportInv'
  <2>1. \A t \in Threads : pc[t] \in {"decide", "audit"} => pc'[t] \in {"decide", "audit"}
    BY <1>1, <1>3
  <2> QED
    BY <1>1, <1>2, <2>1, ReportKeeps
<1> QED
  BY <1>4, <1>5, <1>6, <1>7, <1>8, <1>9 DEF StoreInv

-----------------------------------------------------------------------------
Codes == {"NoChange", "Reloaded", "Failed"}

(* A thread leaves refresh(): the mutex is free, the answer is of its type. *)
LEMMA ReturnTypes ==
    ASSUME TypeOK, NEW r \in Threads, NEW code \in Codes, NEW gen \in Nat,
           Return(r, code, gen), mutex \in {r, NoThread}
    PROVE  /\ pc' \in [Threads -> {"idle", "refresh", "exists", "stat", "load", "decide", "audit"}]
           /\ pc'[r] = "decide" /\ \A t \in Threads \ {r} : pc'[t] = pc[t]
           /\ result' \in [Threads -> [code : {"NoChange", "Reloaded", "Failed"}, generation : Nat]]
           /\ result'[r].code = code /\ result'[r].generation = gen
           /\ \A t \in Threads \ {r} : result'[t] = result[t]
           /\ mutex' \in Threads \cup {NoThread} /\ mutex' = NoThread
           /\ \A t \in Threads : pc'[t] \notin {"exists", "stat", "load"} /\ mutex' # t
<1>1. /\ mutex' = NoThread /\ pc' = [pc EXCEPT ![r] = "decide"]
      /\ result' = [result EXCEPT ![r] = [code |-> code, generation |-> gen]]
  BY DEF Return
<1>2. /\ pc' \in [Threads -> {"idle", "refresh", "exists", "stat", "load", "decide", "audit"}]
      /\ pc'[r] = "decide" /\ \A t \in Threads \ {r} : pc'[t] = pc[t]
  BY <1>1 DEF TypeOK
<1>3. /\ result' \in [Threads -> [code : {"NoChange", "Reloaded", "Failed"}, generation : Nat]]
      /\ result'[r].code = code /\ result'[r].generation = gen
      /\ \A t \in Threads \ {r} : result'[t] = result[t]
  BY <1>1 DEF TypeOK, Codes
<1>4. \A t \in Threads \ {r} : pc[t] \notin {"exists", "stat", "load"}
  BY StoreAssumption DEF TypeOK
<1>5. \A t \in Threads : pc'[t] \notin {"exists", "stat", "load"} /\ mutex' # t
  BY <1>1, <1>2, <1>4, StoreAssumption
<1> QED
  BY <1>1, <1>2, <1>3, <1>5

(* A reload is the next generation, which its thread now announces.        *)
LEMMA ReportReturn ==
    ASSUME TypeOK, ReportInv, NEW r \in Threads, NEW code \in Codes, NEW gen \in Nat,
           Return(r, code, gen), mutex \in {r, NoThread},
           boot = "ready", pc[r] \notin {"decide", "audit"},
           IF code = "Reloaded" THEN gen = generation + 1 /\ generation' = generation + 1
           ELSE generation' = generation,
           UNCHANGED <<audited, boot>>
    PROVE  ReportInv'
<1> DEFINE told  == {t \in Threads : result[t].code = "Reloaded"}
           told1 == {t \in Threads : result'[t].code = "Reloaded"}
           heard == {audited[i] : i \in 1 .. Len(audited)}
<1>1. /\ pc'[r] = "decide" /\ \A t \in Threads \ {r} : pc'[t] = pc[t]
      /\ result'[r].code = code /\ result'[r].generation = gen
      /\ \A t \in Threads \ {r} : result'[t] = result[t]
  BY ReturnTypes
<1>2. result[r].code # "Reloaded"
  BY DEF ReportInv
<1>3. told1 = IF code = "Reloaded" THEN told \cup {r} ELSE told
  BY <1>1, <1>2
<1>4. IsFiniteSet(told) /\ Cardinality(told) \in Nat /\ r \notin told
  BY <1>2, StoreAssumption, FS_Subset, FS_CardinalityType
<1>5. Cardinality(told1) = IF code = "Reloaded" THEN Cardinality(told) + 1 ELSE Cardinality(told)
  BY <1>3, <1>4, FS_AddElement
<1>6. {result'[t].generation : t \in told1} =
        IF code = "Reloaded" THEN {result[t].generation : t \in told} \cup {gen}
        ELSE {result[t].generation : t \in told}
  BY <1>1, <1>2, <1>3
<1>7. /\ heard \cup {result[t].generation : t \in told} = 2 .. generation
      /\ Len(audited) + Cardinality(told) = generation - 1
  BY DEF ReportInv, GenerationsAudited
<1>8. Len(audited) \in Nat /\ generation \in Nat
  BY LenProperties DEF TypeOK
<1> HIDE DEF told, told1
<1>9. 2 .. generation' = IF code = "Reloaded" THEN (2 .. generation) \cup {gen}
                         ELSE 2 .. generation
  <2>1. generation >= 1
    BY <1>4, <1>7, <1>8
  <2>2. 2 .. generation + 1 = (2 .. generation) \cup {generation + 1}
    BY <1>8, <2>1
  <2> QED
    BY <2>2
<1>10. heard \cup {result'[t].generation : t \in told1} = 2 .. generation'
  BY <1>6, <1>7, <1>9
<1>11. Len(audited) + Cardinality(told1) = generation' - 1
  BY <1>4, <1>5, <1>7, <1>8
<1>12. GenerationsAudited'
  BY <1>10, <1>11 DEF GenerationsAudited, told1
<1>13. \A t \in Threads : result'[t].code = "Reloaded" => pc'[t] \in {"decide", "audit"}
  BY <1>1 DEF ReportInv
<1> QED
  BY <1>12, <1>13 DEF ReportInv

(* The mutex is taken for a check, or the last check is recent enough.     *)
LEMMA RefreshBeginStep ==
    ASSUME StoreInv, NEW r \in Threads, RefreshBegin(r)
    PROVE  StoreInv'
<1>1. /\ pc[r] = "refresh" /\ mutex = NoThread
      /\ UNCHANGED <<disk, mtime, edits, disturbedAt, seen, interval, now, fsFailures, boot,
                     fileTokens, active, lastWriteTime, hadFile, generation, writeTime, began,
                     decision, tried, audited>>
  BY DEF RefreshBegin, fileVars, storeVars
<1>2. TypeOK /\ BoundInv /\ BootInv /\ VersionInv /\ CurrentInv /\ CheckInv /\ ReportInv
      /\ \A t \in Threads : QuietInv(t)
  BY DEF StoreInv
<1>3. boot = "ready" /\ \A t \in Threads : pc[t] \notin {"exists", "stat", "load"}
  BY <1>1, <1>2, StoreAssumption DEF BootInv, TypeOK
<1>4. BootInv' /\ VersionInv' /\ CurrentInv'
  BY <1>1, <1>3, <1>2 DEF BootInv, VersionInv, TokensOf, CurrentInv
<1>5. CASE /\ lastCheck' = now /\ mutex' = r /\ pc' = [pc EXCEPT ![r] = "exists"]
           /\ UNCHANGED result
  <2>1. /\ pc' \in [Threads -> {"idle", "refresh", "exists", "stat", "load", "decide", "audit"}]
        /\ pc'[r] = "exists" /\ \A t \in Threads \ {r} : pc'[t] = pc[t]
    BY <1>2, <1>5 DEF TypeOK
  <2>2. TypeOK'
    <3>1. \A t \in Threads : pc'[t] \in {"exists", "stat", "load"} <=> mutex' = t
      BY <1>3, <1>5, <2>1
    <3> QED
      BY <1>1, <1>2, <1>5, <2>1, <3>1 DEF TypeOK
  <2>3. BoundInv'
    BY <1>1, <1>2, <1>5, Numbers DEF BoundInv
  <2>4. CheckInv'
    BY <1>5, <2>1, StoreAssumption DEF CheckInv, Knows
  <2>5. ASSUME NEW t \in Threads PROVE QuietInv(t)'
    BY <1>1, <1>2, <2>1 DEF QuietInv, Knows, Synced
  <2>6. ReportInv'
    BY <1>1, <1>2, <1>5, <2>1, ReportKeeps
  <2> QED
    BY <1>4, <2>2, <2>3, <2>4, <2>5, <2>6 DEF StoreInv
<1>6. CASE /\ ~(HotReload /\ checkIntervalElapsed) /\ UNCHANGED lastCheck
           /\ Return(r, "NoChange", generation)
  <2>1. generation \in Nat /\ "NoChange" \in Codes /\ mutex \in {r, NoThread}
    BY <1>1, <1>2, Numbers DEF Codes
  <2>2. /\ pc' \in [Threads -> {"idle", "refresh", "exists", "stat", "load", "decide", "audit"}]
        /\ pc'[r] = "decide" /\ \A t \in Threads \ {r} : pc'[t] = pc[t]
        /\ result' \in [Threads -> [code : {"NoChange", "Reloaded", "Failed"}, generation : Nat]]
        /\ mutex' \in Threads \cup {NoThread} /\ mutex' = NoThread
        /\ \A t \in Threads : pc'[t] \notin {"exists", "stat", "load"} /\ mutex' # t
    BY <1>2, <1>6, <2>1, ReturnTypes
  <2>3. TypeOK'
    BY <1>1, <1>2, <1>6, <2>2 DEF TypeOK
  <2>4. BoundInv'
    BY <1>1, <1>2, <1>6 DEF BoundInv
  <2>5. CheckInv'
    BY <1>1, <1>2, <1>6, <2>2 DEF CheckInv, Synced
  <2>6. HotReload /\ began[r].quiet /\ disturbedAt + interval <= began[r].at => Synced
    <3>1. HotReload => interval # 0 /\ ~(now - lastCheck >= interval)
      BY <1>6 DEF checkIntervalElapsed
    <3>2. began[r].at <= now /\ began[r].at \in Nat /\ interval \in Nat /\ lastCheck \in Nat
          /\ disturbedAt \in Nat /\ now \in Nat
      BY <1>2, Numbers DEF BoundInv
    <3>3. HotReload /\ disturbedAt + interval <= began[r].at => disturbedAt < lastCheck
      BY <3>1, <3>2
    <3> QED
      BY <1>1, <1>2, <1>3, <3>3 DEF CheckInv
  <2>7. ASSUME NEW t \in Threads PROVE QuietInv(t)'
    <3>1. CASE t = r
      BY <1>1, <1>2, <2>2, <2>6, <3>1 DEF QuietInv, Knows, Synced
    <3>2. CASE t # r
      BY <1>1, <1>2, <2>2, <3>2 DEF QuietInv, Knows, Synced
    <3> QED
      BY <3>1, <3>2
  <2>8. ReportInv'
    BY <1>1, <1>2, <1>3, <1>6, <2>1, ReportReturn
  <2> QED
    BY <1>4, <2>3, <2>4, <2>5, <2>7, <2>8 DEF StoreInv
<1> QED
  BY <1>5, <1>6 DEF RefreshBegin

(* exists() says whether the file is there.                                *)
LEMMA RefreshExistsStep ==
    ASSUME StoreInv, NEW r \in Threads, RefreshExists(r)
    PROVE  StoreInv'
<1>1. /\ pc[r] = "exists"
      /\ UNCHANGED <<disk, mtime, edits, disturbedAt, seen, interval, now, fsFailures, boot,
                     lastCheck, writeTime, began, decision, tried, audited>>
  BY DEF RefreshExists, RefreshRest, fileVars
<1>2. TypeOK /\ BoundInv /\ BootInv /\ VersionInv /\ CurrentInv /\ CheckInv /\ ReportInv
      /\ \A t \in Threads : QuietInv(t)
  BY DEF StoreInv
<1>3. boot = "ready" /\ mutex = r /\ \A t \in Threads \ {r} : pc[t] \notin {"exists", "stat", "load"}
  BY <1>1, <1>2 DEF BootInv, TypeOK
<1>4. generation \in Nat /\ "NoChange" \in Codes /\ "Reloaded" \in Codes
      /\ mutex \in {r, NoThread} /\ mtime \in Nat
  BY <1>2, <1>3, Numbers DEF Codes
<1>5. CASE /\ disk # Absent
           /\ pc' = [pc EXCEPT ![r] = "stat"]
           /\ UNCHANGED <<storeVars, mutex, result>>
  <2>1. /\ pc' \in [Threads -> {"idle", "refresh", "exists", "stat", "load", "decide", "audit"}]
        /\ pc'[r] = "stat" /\ \A t \in Threads \ {r} : pc'[t] = pc[t]
        /\ UNCHANGED <<fileTokens, active, lastWriteTime, hadFile, generation, mutex, result>>
    BY <1>2, <1>5 DEF TypeOK, storeVars
  <2>2. TypeOK'
    BY <1>1, <1>2, <2>1 DEF TypeOK
  <2>3. BoundInv' /\ BootInv' /\ VersionInv' /\ CurrentInv'
    BY <1>1, <1>2, <1>3, <2>1 DEF BoundInv, BootInv, VersionInv, TokensOf, CurrentInv
  <2>4. CheckInv'
    BY <1>1, <1>2, <1>3, <1>5, <2>1, StoreAssumption DEF CheckInv, Knows
  <2>5. ASSUME NEW t \in Threads PROVE QuietInv(t)'
    BY <1>1, <1>2, <1>5, <2>1 DEF QuietInv, Knows, Synced
  <2>6. ReportInv'
    BY <1>1, <1>2, <2>1, ReportKeeps
  <2> QED
    BY <2>2, <2>3, <2>4, <2>5, <2>6 DEF StoreInv
<1>6. CASE disk = Absent /\ hadFile /\ RevokeFileTokens /\ Return(r, "Reloaded", generation + 1)
  <2>1. /\ pc' \in [Threads -> {"idle", "refresh", "exists", "stat", "load", "decide", "audit"}]
        /\ pc'[r] = "decide" /\ \A t \in Threads \ {r} : pc'[t] = pc[t]
        /\ result' \in [Threads -> [code : {"NoChange", "Reloaded", "Failed"}, generation : Nat]]
        /\ mutex' \in Threads \cup {NoThread} /\ mutex' = NoThread
        /\ \A t \in Threads : pc'[t] \notin {"exists", "stat", "load"} /\ mutex' # t
    BY <1>2, <1>4, <1>6, ReturnTypes
  <2>2. /\ fileTokens' = <<>> /\ active' = InlineTokens /\ hadFile' = FALSE
        /\ lastWriteTime' = 0 /\ generation' = generation + 1 /\ disk = Absent
    BY <1>6 DEF RevokeFileTokens
  <2>3. TypeOK'
    <3>1. lastWriteTime' \in 0 .. MaxEdits + 1 /\ generation' \in Nat
      BY <1>2, <1>4, <2>2, Numbers
    <3> QED
      BY <1>1, <1>2, <2>1, <2>2, <3>1 DEF TypeOK
  <2>4. BoundInv'
    BY <1>1, <1>2, <1>4, <2>2 DEF BoundInv
  <2>5. BootInv' /\ CurrentInv'
    BY <1>1, <1>3, <2>2 DEF BootInv, CurrentInv
  <2>6. VersionInv'
    BY <1>1, <1>2, <2>2 DEF VersionInv, TokensOf
  <2>7. CheckInv'
    BY <1>1, <2>1, <2>2 DEF CheckInv, Synced
  <2>8. ASSUME NEW t \in Threads PROVE QuietInv(t)'
    BY <1>1, <1>2, <2>1, <2>2 DEF QuietInv, Knows, Synced
  <2>9. ReportInv'
    BY <1>1, <1>2, <1>3, <1>4, <1>6, <2>2, ReportReturn
  <2> QED
    BY <2>3, <2>4, <2>5, <2>6, <2>7, <2>8, <2>9 DEF StoreInv
<1>7. CASE disk = Absent /\ ~hadFile /\ UNCHANGED storeVars /\ Return(r, "NoChange", generation)
  <2>1. /\ pc' \in [Threads -> {"idle", "refresh", "exists", "stat", "load", "decide", "audit"}]
        /\ pc'[r] = "decide" /\ \A t \in Threads \ {r} : pc'[t] = pc[t]
        /\ result' \in [Threads -> [code : {"NoChange", "Reloaded", "Failed"}, generation : Nat]]
        /\ mutex' \in Threads \cup {NoThread} /\ mutex' = NoThread
        /\ \A t \in Threads : pc'[t] \notin {"exists", "stat", "load"} /\ mutex' # t
    BY <1>2, <1>4, <1>7, ReturnTypes
  <2>2. UNCHANGED <<fileTokens, active, lastWriteTime, hadFile, generation>>
        /\ disk = Absent /\ ~hadFile
    BY <1>7 DEF storeVars
  <2>3. TypeOK'
    BY <1>1, <1>2, <2>1, <2>2 DEF TypeOK
  <2>4. BoundInv' /\ BootInv' /\ VersionInv' /\ CurrentInv'
    BY <1>1, <1>2, <1>3, <2>2 DEF BoundInv, BootInv, VersionInv, TokensOf, CurrentInv
  <2>5. CheckInv'
    BY <1>1, <2>1, <2>2 DEF CheckInv, Synced
  <2>6. ASSUME NEW t \in Threads PROVE QuietInv(t)'
    BY <1>1, <1>2, <2>1, <2>2 DEF QuietInv, Knows, Synced
  <2>7. ReportInv'
    BY <1>1, <1>2, <1>3, <1>4, <1>7, <2>2, ReportReturn
  <2> QED
    BY <2>3, <2>4, <2>5, <2>6, <2>7 DEF StoreInv
<1> QED
  BY <1>5, <1>6, <1>7 DEF RefreshExists

(* The exception frees the mutex and ends the request.                     *)
LEMMA RefreshExistsThrowsStep ==
    ASSUME StoreInv, NEW r \in Threads, RefreshExistsThrows(r)
    PROVE  StoreInv'
<1>1. /\ pc[r] = "exists" /\ fsFailures < MaxFsFailures
      /\ fsFailures' = fsFailures + 1 /\ disturbedAt' = now
      /\ mutex' = NoThread /\ pc' = [pc EXCEPT ![r] = "idle"]
      /\ began' = [[t \in Threads |-> [began[t] EXCEPT !.quiet = FALSE]] EXCEPT ![r] = NotBegun]
      /\ UNCHANGED <<disk, mtime, edits, seen, interval, now, boot, fileTokens, active,
                     lastWriteTime, hadFile, generation, lastCheck, writeTime, result, decision,
                     tried, audited>>
  BY DEF RefreshExistsThrows, Disturbed, storeVars
<1>2. TypeOK /\ BoundInv /\ BootInv /\ VersionInv /\ CurrentInv /\ CheckInv /\ ReportInv
  BY DEF StoreInv
<1>3. boot = "ready" /\ mutex = r /\ \A t \in Threads \ {r} : pc[t] \notin {"exists", "stat", "load"}
  BY <1>1, <1>2 DEF BootInv, TypeOK
<1>4. /\ pc' \in [Threads -> {"idle", "refresh", "exists", "stat", "load", "decide", "audit"}]
      /\ pc'[r] = "idle" /\ \A t \in Threads \ {r} : pc'[t] = pc[t]
  BY <1>1, <1>2 DEF TypeOK
<1>5. began' \in [Threads -> [at : 0 .. MaxTime, quiet : BOOLEAN]]
      /\ \A t \in Threads : began'[t].quiet = FALSE /\ began'[t].at <= now
  <2>1. 0 \in 0 .. MaxTime /\ 0 <= now
    BY <1>2, Numbers, StoreAssumption
  <2> DEFINE b == [t \in Threads |-> [began[t] EXCEPT !.quiet = FALSE]]
  <2>2. b \in [Threads -> [at : 0 .. MaxTime, quiet : BOOLEAN]]
        /\ \A t \in Threads : b[t].quiet = FALSE /\ b[t].at <= now
    BY ZenonT(40), <1>2 DEF TypeOK, BoundInv
  <2>3. NotBegun \in [at : 0 .. MaxTime, quiet : BOOLEAN] /\ NotBegun.quiet = FALSE
        /\ NotBegun.at <= now
    BY <2>1 DEF NotBegun
  <2>4. began' = [b EXCEPT ![r] = NotBegun]
    BY <1>1
  <2> HIDE DEF b
  <2> QED
    BY <2>2, <2>3, <2>4
<1>6. TypeOK'
  <2>1. \A t \in Threads : pc'[t] \in {"exists", "stat", "load"} <=> mutex' = t
    BY <1>1, <1>3, <1>4, StoreAssumption
  <2>2. fsFailures' \in 0 .. MaxFsFailures /\ disturbedAt' \in 0 .. MaxTime
    <3>1. fsFailures \in Nat /\ MaxFsFailures \in Nat
      BY <1>2, Numbers
    <3>2. fsFailures' \in 0 .. MaxFsFailures
      BY <1>1, <3>1
    <3>3. disturbedAt' \in 0 .. MaxTime
      BY <1>1, <1>2 DEF TypeOK
    <3> QED
      BY <3>2, <3>3
  <2> QED
    BY <1>1, <1>2, <1>4, <1>5, <2>1, <2>2 DEF TypeOK
<1>7. BoundInv'
  BY <1>1, <1>2, <1>5, Numbers DEF BoundInv
<1>8. BootInv' /\ VersionInv' /\ CurrentInv'
  BY <1>1, <1>2, <1>3 DEF BootInv, VersionInv, TokensOf, CurrentInv
<1>9. CheckInv'
  BY <1>1, <1>2, Numbers DEF CheckInv, BoundInv
<1>10. \A t \in Threads : QuietInv(t)'
  BY <1>5 DEF QuietInv
<1>11. ReportInv'
  <2>1. \A t \in Threads : pc[t] \in {"decide", "audit"} => pc'[t] \in {"decide", "audit"}
    BY <1>1, <1>4
  <2> QED
    BY <1>1, <1>2, <2>1, ReportKeeps
<1> QED
  BY <1>6, <1>7, <1>8, <1>9, <1>10, <1>11 DEF StoreInv

(* last_write_time(): the file is as it was, or it is to be loaded.        *)
LEMMA RefreshStatStep ==
    ASSUME StoreInv, NEW r \in Threads, RefreshStat(r)
    PROVE  StoreInv'
<1>1. /\ pc[r] = "stat"
      /\ UNCHANGED <<disk, mtime, edits, disturbedAt, seen, interval, now, fsFailures, boot,
                     fileTokens, active, lastWriteTime, hadFile, generation,
                     lastCheck, began, decision, tried, audited>>
  BY DEF RefreshStat, RefreshRest, fileVars, storeVars
<1>2. TypeOK /\ BoundInv /\ BootInv /\ VersionInv /\ CurrentInv /\ CheckInv /\ ReportInv
      /\ \A t \in Threads : QuietInv(t)
  BY DEF StoreInv
<1>3. boot = "ready" /\ mutex = r /\ \A t \in Threads \ {r} : pc[t] \notin {"exists", "stat", "load"}
  BY <1>1, <1>2 DEF BootInv, TypeOK
<1>4. generation \in Nat /\ "NoChange" \in Codes /\ "Failed" \in Codes
      /\ mutex \in {r, NoThread} /\ mtime \in Nat
  BY <1>2, <1>3, Numbers DEF Codes
<1>5. BootInv' /\ VersionInv' /\ CurrentInv'
  BY <1>1, <1>2, <1>3 DEF BootInv, VersionInv, TokensOf, CurrentInv
<1>6. ASSUME NEW code \in Codes, code # "Reloaded", Return(r, code, generation), UNCHANGED writeTime,
             disk = Absent \/ Synced
      PROVE  StoreInv'
  <2>1. /\ pc' \in [Threads -> {"idle", "refresh", "exists", "stat", "load", "decide", "audit"}]
        /\ pc'[r] = "decide" /\ \A t \in Threads \ {r} : pc'[t] = pc[t]
        /\ result' \in [Threads -> [code : {"NoChange", "Reloaded", "Failed"}, generation : Nat]]
        /\ mutex' \in Threads \cup {NoThread} /\ mutex' = NoThread
        /\ \A t \in Threads : pc'[t] \notin {"exists", "stat", "load"} /\ mutex' # t
    BY <1>2, <1>4, <1>6, ReturnTypes
  <2>2. TypeOK'
    BY <1>1, <1>2, <1>6, <2>1 DEF TypeOK
  <2>3. BoundInv'
    BY <1>1, <1>2, <1>6 DEF BoundInv
  <2>4. disturbedAt < lastCheck => Synced
    <3>1. disturbedAt < lastCheck => disk # Absent
      BY <1>1, <1>2, <1>3, StoreAssumption DEF CheckInv, Knows
    <3> QED
      BY <1>6, <3>1
  <2>5. CheckInv'
    BY <1>1, <2>1, <2>4 DEF CheckInv, Synced
  <2>6. began[r].quiet => Synced
    BY <1>1, <1>2, <1>6 DEF QuietInv, Knows
  <2>7. ASSUME NEW t \in Threads PROVE QuietInv(t)'
    BY <1>1, <1>2, <2>1, <2>6 DEF QuietInv, Knows, Synced
  <2>8. ReportInv'
    BY <1>1, <1>2, <1>3, <1>4, <1>6, ReportReturn
  <2> QED
    BY <1>5, <2>2, <2>3, <2>5, <2>7, <2>8 DEF StoreInv
<1>7. CASE disk = Absent /\ Return(r, "Failed", generation) /\ UNCHANGED writeTime
  BY <1>4, <1>6, <1>7
<1>8. CASE /\ disk # Absent /\ hadFile /\ mtime = lastWriteTime
           /\ Return(r, "NoChange", generation) /\ UNCHANGED writeTime
  BY <1>4, <1>6, <1>8 DEF Synced
<1>9. CASE /\ disk # Absent /\ ~(hadFile /\ mtime = lastWriteTime)
           /\ writeTime' = [writeTime EXCEPT ![r] = mtime]
           /\ pc' = [pc EXCEPT ![r] = "load"]
           /\ UNCHANGED <<mutex, result>>
  <2>1. /\ pc' \in [Threads -> {"idle", "refresh", "exists", "stat", "load", "decide", "audit"}]
        /\ pc'[r] = "load" /\ \A t \in Threads \ {r} : pc'[t] = pc[t]
        /\ writeTime' \in [Threads -> 0 .. MaxEdits + 1]
        /\ writeTime'[r] = mtime /\ \A t \in Threads \ {r} : writeTime'[t] = writeTime[t]
        /\ UNCHANGED <<mutex, result>>
    BY <1>2, <1>9 DEF TypeOK
  <2>2. TypeOK'
    BY <1>1, <1>2, <2>1 DEF TypeOK
  <2>3. BoundInv'
    BY <1>1, <1>2, <1>4, <2>1 DEF BoundInv
  <2>4. CheckInv'
    BY <1>1, <1>3, <1>9, <2>1, StoreAssumption DEF CheckInv, Knows
  <2>5. ~Synced
    BY <1>9 DEF Synced
  <2>6. ASSUME NEW t \in Threads PROVE QuietInv(t)'
    <3>1. CASE t = r
      BY <1>1, <1>2, <1>9, <2>1, <3>1 DEF QuietInv, Knows
    <3>2. CASE t # r
      BY <1>1, <1>2, <2>1, <2>5, <3>2 DEF QuietInv, Knows
    <3> QED
      BY <3>1, <3>2
  <2>7. ReportInv'
    <3>1. \A t \in Threads : pc[t] \in {"decide", "audit"} => pc'[t] \in {"decide", "audit"}
      BY <1>1, <2>1
    <3> QED
      BY <1>1, <1>2, <2>1, <3>1, ReportKeeps
  <2> QED
    BY <1>5, <2>2, <2>3, <2>4, <2>6, <2>7 DEF StoreInv
<1> QED
  BY <1>7, <1>8, <1>9 DEF RefreshStat

(* last_write_time() fails: the store is as it was.                        *)
LEMMA RefreshStatFailsStep ==
    ASSUME StoreInv, NEW r \in Threads, RefreshStatFails(r)
    PROVE  StoreInv'
<1>1. /\ pc[r] = "stat" /\ fsFailures < MaxFsFailures
      /\ fsFailures' = fsFailures + 1 /\ disturbedAt' = now
      /\ Return(r, "Failed", generation)
      /\ began' = [t \in Threads |-> [began[t] EXCEPT !.quiet = FALSE]]
      /\ UNCHANGED <<disk, mtime, edits, seen, interval, now, boot, fileTokens, active,
                     lastWriteTime, hadFile, generation, lastCheck, writeTime, decision,
                     tried, audited>>
  BY DEF RefreshStatFails, Disturbed, storeVars
<1>2. TypeOK /\ BoundInv /\ BootInv /\ VersionInv /\ CurrentInv /\ CheckInv /\ ReportInv
  BY DEF StoreInv
<1>3. boot = "ready" /\ mutex = r
  BY <1>1, <1>2 DEF BootInv, TypeOK
<1>4. generation \in Nat /\ "Failed" \in Codes /\ mutex \in {r, NoThread}
  BY <1>2, <1>3, Numbers DEF Codes
<1>5. /\ pc' \in [Threads -> {"idle", "refresh", "exists", "stat", "load", "decide", "audit"}]
      /\ pc'[r] = "decide" /\ \A t \in Threads \ {r} : pc'[t] = pc[t]
      /\ result' \in [Threads -> [code : {"NoChange", "Reloaded", "Failed"}, generation : Nat]]
      /\ mutex' \in Threads \cup {NoThread} /\ mutex' = NoThread
      /\ \A t \in Threads : pc'[t] \notin {"exists", "stat", "load"} /\ mutex' # t
  BY <1>1, <1>2, <1>4, ReturnTypes
<1>6. began' \in [Threads -> [at : 0 .. MaxTime, quiet : BOOLEAN]]
      /\ \A t \in Threads : began'[t].quiet = FALSE /\ began'[t].at <= now
  BY ZenonT(40), <1>1, <1>2 DEF TypeOK, BoundInv
<1>7. fsFailures' \in 0 .. MaxFsFailures /\ disturbedAt' \in 0 .. MaxTime
  <2>1. fsFailures \in Nat /\ MaxFsFailures \in Nat
    BY <1>2, Numbers
  <2>2. fsFailures' \in 0 .. MaxFsFailures
    BY <1>1, <2>1
  <2>3. disturbedAt' \in 0 .. MaxTime
    BY <1>1, <1>2 DEF TypeOK
  <2> QED
    BY <2>2, <2>3
<1>8. TypeOK'
  BY <1>1, <1>2, <1>5, <1>6, <1>7 DEF TypeOK
<1>9. BoundInv'
  BY <1>1, <1>2, <1>6, Numbers DEF BoundInv
<1>10. BootInv' /\ VersionInv' /\ CurrentInv'
  BY <1>1, <1>2, <1>3 DEF BootInv, VersionInv, TokensOf, CurrentInv
<1>11. CheckInv'
  BY <1>1, <1>2, Numbers DEF CheckInv, BoundInv
<1>12. \A t \in Threads : QuietInv(t)'
  BY <1>6 DEF QuietInv
<1>13. ReportInv'
  BY <1>1, <1>2, <1>3, <1>4, ReportReturn
<1> QED
  BY <1>8, <1>9, <1>10, <1>11, <1>12, <1>13 DEF StoreInv

(* The load, which succeeds or leaves the tokens as they are.              *)
LEMMA RefreshLoadStep ==
    ASSUME StoreInv, NEW r \in Threads, RefreshLoad(r) \/ RefreshOpenFails(r)
    PROVE  StoreInv'
<1>1. /\ pc[r] = "load" /\ writeTime' = [writeTime EXCEPT ![r] = 0]
      /\ lastWriteTime' = writeTime[r] /\ hadFile' = TRUE
      /\ fsFailures' = fsFailures \/ (fsFailures < MaxFsFailures /\ fsFailures' = fsFailures + 1)
      /\ UNCHANGED <<disk, mtime, edits, disturbedAt, seen, interval, now, boot,
                     lastCheck, decision, audited>>
  BY DEF RefreshLoad, RefreshOpenFails, RefreshRest, Commit, KeepLastGood, fileVars
<1>2. TypeOK /\ BoundInv /\ BootInv /\ VersionInv /\ CurrentInv /\ CheckInv /\ ReportInv
      /\ \A t \in Threads : QuietInv(t)
  BY DEF StoreInv
<1>3. boot = "ready" /\ mutex = r /\ \A t \in Threads \ {r} : pc[t] \notin {"exists", "stat", "load"}
  BY <1>1, <1>2 DEF BootInv, TypeOK
<1>4. /\ generation \in Nat /\ generation + 1 \in Nat
      /\ "Reloaded" \in Codes /\ "Failed" \in Codes
      /\ mutex \in {r, NoThread} /\ mtime \in Nat /\ writeTime[r] \in Nat
      /\ fsFailures \in Nat /\ MaxFsFailures \in Nat /\ writeTime[r] <= mtime
  BY <1>2, <1>3, Numbers DEF Codes, BoundInv
<1>5. \/ began' = began
      \/ began' = [t \in Threads |-> [began[t] EXCEPT !.quiet = FALSE]]
  BY DEF RefreshLoad, RefreshOpenFails, Disturbed
<1>6. /\ began' \in [Threads -> [at : 0 .. MaxTime, quiet : BOOLEAN]]
      /\ \A t \in Threads : began'[t].at = began[t].at /\ (began'[t].quiet => began[t].quiet)
  <2>1. began \in [Threads -> [at : 0 .. MaxTime, quiet : BOOLEAN]]
    BY <1>2 DEF TypeOK
  <2>2. CASE began' = began
    BY <2>1, <2>2
  <2>3. CASE began' = [t \in Threads |-> [began[t] EXCEPT !.quiet = FALSE]]
    BY <2>1, <2>3
  <2> QED
    BY <1>5, <2>2, <2>3
<1>7. \/ /\ Loads(disk) /\ fileTokens' = disk /\ active' = Combined(disk)
         /\ generation' = generation + 1 /\ tried' = tried
         /\ Return(r, "Reloaded", generation + 1)
      \/ /\ UNCHANGED <<fileTokens, active, generation>>
         /\ tried' = tried \cup {writeTime[r]}
         /\ Return(r, "Failed", generation)
  BY DEF RefreshLoad, RefreshOpenFails, Commit, KeepLastGood
<1>8. /\ pc' \in [Threads -> {"idle", "refresh", "exists", "stat", "load", "decide", "audit"}]
      /\ pc'[r] = "decide" /\ \A t \in Threads \ {r} : pc'[t] = pc[t]
      /\ result' \in [Threads -> [code : {"NoChange", "Reloaded", "Failed"}, generation : Nat]]
      /\ mutex' \in Threads \cup {NoThread} /\ mutex' = NoThread
      /\ \A t \in Threads : pc'[t] \notin {"exists", "stat", "load"} /\ mutex' # t
  BY <1>2, <1>4, <1>7, ReturnTypes
<1>9. TypeOK'
  <2>1. writeTime' \in [Threads -> 0 .. MaxEdits + 1] /\ lastWriteTime' \in 0 .. MaxEdits + 1
    <3>1. 0 \in 0 .. MaxEdits + 1
      BY StoreAssumption
    <3> QED
      BY <1>1, <1>2, <3>1 DEF TypeOK
  <2>2. fsFailures' \in 0 .. MaxFsFailures
    BY <1>1, <1>2, <1>4 DEF TypeOK
  <2>3. /\ fileTokens' \in Contents \cup {<<>>}
        /\ active' \in {Combined(file) : file \in Contents} \cup {<<>>, InlineTokens}
    BY <1>2, <1>7 DEF TypeOK, Loads
  <2>4. generation' \in Nat /\ tried' \subseteq Nat
    BY <1>2, <1>4, <1>7 DEF TypeOK
  <2>5. hadFile' \in BOOLEAN
    BY <1>1
  <2> QED
    BY <1>1, <1>2, <1>6, <1>8, <2>1, <2>2, <2>3, <2>4, <2>5 DEF TypeOK
<1>10. BoundInv'
  <2>1. \A v \in tried' : v <= mtime
    BY <1>2, <1>4, <1>7 DEF BoundInv
  <2>2. \A t \in Threads : writeTime'[t] <= mtime
    BY <1>1, <1>2, <1>4 DEF BoundInv, TypeOK
  <2> QED
    BY <1>1, <1>2, <1>4, <1>6, <2>1, <2>2 DEF BoundInv
<1>11. BootInv'
  BY <1>1, <1>3 DEF BootInv
<1>12. VersionInv'
  BY <1>1, <1>2, <1>7 DEF VersionInv, TokensOf, Loads
<1>13. CurrentInv'
  BY <1>1, <1>7 DEF CurrentInv
<1>14. Knows(r) => Synced'
  BY <1>1 DEF Knows, Synced
<1>15. CheckInv'
  BY <1>1, <1>2, <1>3, <1>8, <1>14, StoreAssumption DEF CheckInv
<1>16. ASSUME NEW t \in Threads PROVE QuietInv(t)'
  <2>1. Knows(t)'
    BY <1>8 DEF Knows
  <2>2. CASE t = r
    BY <1>1, <1>2, <1>6, <1>8, <1>14, <2>1, <2>2 DEF QuietInv
  <2>3. CASE t # r
    BY <1>1, <1>2, <1>6, <1>8, <2>1, <2>3 DEF QuietInv
  <2> QED
    BY <2>2, <2>3
<1>17. ReportInv'
  BY <1>1, <1>2, <1>3, <1>4, <1>7, ReportReturn
<1> QED
  BY <1>9, <1>10, <1>11, <1>12, <1>13, <1>15, <1>16, <1>17 DEF StoreInv

-----------------------------------------------------------------------------
(* The decision, by the tokens as they are now.                            *)
LEMMA DecideStep ==
    ASSUME StoreInv, NEW r \in Threads, NEW q \in Requests, Decide(r, q)
    PROVE  StoreInv'
<1>1. /\ pc[r] = "decide" /\ pc' = [pc EXCEPT ![r] = "audit"]
      /\ decision' = [decision EXCEPT ![r] = Authorize(q, active, Legacy, began[r].at)]
      /\ UNCHANGED <<disk, mtime, edits, disturbedAt, seen, interval, now, fsFailures, boot,
                     mutex, fileTokens, active, lastWriteTime, hadFile, generation, lastCheck,
                     writeTime, result, began, tried, audited>>
  BY DEF Decide, fileVars, storeVars
<1>2. TypeOK /\ BoundInv /\ BootInv /\ VersionInv /\ CurrentInv /\ CheckInv /\ ReportInv
      /\ \A t \in Threads : QuietInv(t)
  BY DEF StoreInv
<1>3. /\ pc' \in [Threads -> {"idle", "refresh", "exists", "stat", "load", "decide", "audit"}]
      /\ pc'[r] = "audit" /\ \A t \in Threads \ {r} : pc'[t] = pc[t]
  BY <1>1, <1>2 DEF TypeOK
<1>4. TypeOK'
  <2>1. Authorize(q, active, Legacy, began[r].at) \in
          {"none", "auth_missing", "auth_invalid", "auth_expired",
           "auth_scope_denied", "auth_allowed"}
    BY DEF Authorize
  <2>2. decision' \in [Threads -> {"none", "auth_missing", "auth_invalid", "auth_expired",
                                   "auth_scope_denied", "auth_allowed"}]
    BY <1>1, <1>2, <2>1 DEF TypeOK
  <2> QED
    BY <1>1, <1>2, <1>3, <2>2 DEF TypeOK
<1>5. BoundInv' /\ VersionInv' /\ CurrentInv'
  BY <1>1, <1>2 DEF BoundInv, VersionInv, TokensOf, CurrentInv
<1>6. BootInv'
  BY <1>1, <1>2 DEF BootInv
<1>7. CheckInv'
  BY <1>1, <1>2, <1>3 DEF CheckInv, Synced, Knows, TypeOK
<1>8. ASSUME NEW t \in Threads PROVE QuietInv(t)'
  BY <1>1, <1>2, <1>3 DEF QuietInv, Knows, Synced
<1>9. ReportInv'
  <2>1. \A t \in Threads : pc[t] \in {"decide", "audit"} => pc'[t] \in {"decide", "audit"}
    BY <1>1, <1>3
  <2> QED
    BY <1>1, <1>2, <2>1, ReportKeeps
<1> QED
  BY <1>4, <1>5, <1>6, <1>7, <1>8, <1>9 DEF StoreInv

(* The audit of the reload, by the caller.                                 *)
LEMMA AuditStep ==
    ASSUME StoreInv, NEW r \in Threads, Audit(r)
    PROVE  StoreInv'
<1>1. /\ pc[r] = "audit" /\ pc' = [pc EXCEPT ![r] = "idle"]
      /\ audited' = IF result[r].code = "Reloaded"
                    THEN Append(audited, result[r].generation) ELSE audited
      /\ result' = [result EXCEPT ![r] = NoChange]
      /\ decision' = [decision EXCEPT ![r] = "none"]
      /\ began' = [began EXCEPT ![r] = NotBegun]
      /\ UNCHANGED <<disk, mtime, edits, disturbedAt, seen, interval, now, fsFailures, boot,
                     mutex, fileTokens, active, lastWriteTime, hadFile, generation, lastCheck,
                     writeTime, tried>>
  BY DEF Audit, fileVars, storeVars
<1>2. TypeOK /\ BoundInv /\ BootInv /\ VersionInv /\ CurrentInv /\ CheckInv /\ ReportInv
      /\ \A t \in Threads : QuietInv(t)
  BY DEF StoreInv
<1>3. /\ pc' \in [Threads -> {"idle", "refresh", "exists", "stat", "load", "decide", "audit"}]
      /\ pc'[r] = "idle" /\ \A t \in Threads \ {r} : pc'[t] = pc[t]
      /\ decision' \in [Threads -> {"none", "auth_missing", "auth_invalid", "auth_expired",
                                    "auth_scope_denied", "auth_allowed"}]
  BY <1>1, <1>2 DEF TypeOK
<1>4. /\ result' \in [Threads -> [code : {"NoChange", "Reloaded", "Failed"}, generation : Nat]]
      /\ result'[r].code = "NoChange" /\ \A t \in Threads \ {r} : result'[t] = result[t]
  BY <1>1, <1>2 DEF TypeOK, NoChange
<1>5. /\ began' \in [Threads -> [at : 0 .. MaxTime, quiet : BOOLEAN]]
      /\ began'[r].quiet = FALSE /\ began'[r].at = 0
      /\ \A t \in Threads \ {r} : began'[t] = began[t]
  <2>1. NotBegun \in [at : 0 .. MaxTime, quiet : BOOLEAN]
        /\ NotBegun.quiet = FALSE /\ NotBegun.at = 0
    BY StoreAssumption DEF NotBegun
  <2> QED
    BY <1>1, <1>2, <2>1 DEF TypeOK
<1>6. boot = "ready" /\ result[r].generation \in Nat /\ audited \in Seq(Nat)
      /\ Len(audited) \in Nat /\ generation \in Nat /\ now \in Nat
  BY <1>1, <1>2, Numbers, LenProperties DEF BootInv, TypeOK, Answers
<1>7. audited' \in Seq(Nat)
  BY <1>1, <1>6, AppendProperties
<1>8. TypeOK'
  BY ZenonT(40), <1>1, <1>2, <1>3, <1>4, <1>5, <1>7 DEF TypeOK
<1>9. BoundInv'
  BY <1>1, <1>2, <1>5, <1>6 DEF BoundInv
<1>10. BootInv' /\ VersionInv' /\ CurrentInv'
  BY <1>1, <1>2, <1>6 DEF BootInv, VersionInv, TokensOf, CurrentInv
<1>11. CheckInv'
  BY <1>1, <1>2, <1>3 DEF CheckInv, Synced, Knows, TypeOK
<1>12. ASSUME NEW t \in Threads PROVE QuietInv(t)'
  BY <1>1, <1>2, <1>3, <1>5 DEF QuietInv, Knows, Synced
<1>13. ReportInv'
  <2>1. CASE result[r].code = "Reloaded"
    <3> DEFINE told  == {t \in Threads : result[t].code = "Reloaded"}
               told1 == {t \in Threads : result'[t].code = "Reloaded"}
               heard == {audited[i] : i \in 1 .. Len(audited)}
               heard1 == {audited'[i] : i \in 1 .. Len(audited')}
    <3>1. told1 = told \ {r} /\ r \in told
      BY <1>4, <2>1
    <3>2. IsFiniteSet(told) /\ Cardinality(told) \in Nat
      BY StoreAssumption, FS_Subset, FS_CardinalityType
    <3>3. Cardinality(told1) = Cardinality(told) - 1
      BY <3>1, <3>2, FS_RemoveElement
    <3>4. /\ Len(audited') = Len(audited) + 1 /\ audited'[Len(audited) + 1] = result[r].generation
          /\ \A i \in 1 .. Len(audited) : audited'[i] = audited[i]
      BY <1>1, <1>6, <2>1, AppendProperties
    <3>5. heard1 = heard \cup {result[r].generation}
      <4>1. 1 .. Len(audited') = (1 .. Len(audited)) \cup {Len(audited) + 1}
        BY <1>6, <3>4
      <4> QED
        BY <3>4, <4>1
    <3>6. {result[t].generation : t \in told} =
            {result'[t].generation : t \in told1} \cup {result[r].generation}
      BY <1>4, <3>1
    <3>7. /\ heard \cup {result[t].generation : t \in told} = 2 .. generation
          /\ Len(audited) + Cardinality(told) = generation - 1
      BY <1>2, <1>6 DEF ReportInv, GenerationsAudited
    <3> HIDE DEF told, told1, heard, heard1
    <3>8. heard1 \cup {result'[t].generation : t \in told1} = 2 .. generation
      BY <3>5, <3>6, <3>7
    <3>9. Len(audited') + Cardinality(told1) = generation - 1
      BY <1>6, <3>2, <3>3, <3>4, <3>7
    <3>10. GenerationsAudited'
      BY <1>1, <3>8, <3>9 DEF GenerationsAudited, told1, heard1
    <3> QED
      BY <1>2, <1>3, <1>4, <3>10 DEF ReportInv
  <2>2. CASE result[r].code # "Reloaded"
    <3> DEFINE told  == {t \in Threads : result[t].code = "Reloaded"}
               told1 == {t \in Threads : result'[t].code = "Reloaded"}
               heard == {audited[i] : i \in 1 .. Len(audited)}
    <3>1. told1 = told
      BY <1>4, <2>2
    <3>2. {result'[t].generation : t \in told1} = {result[t].generation : t \in told}
      BY <1>4, <2>2
    <3>3. /\ heard \cup {result[t].generation : t \in told} = 2 .. generation
          /\ Len(audited) + Cardinality(told) = generation - 1
      BY <1>2, <1>6 DEF ReportInv, GenerationsAudited
    <3>4. UNCHANGED <<audited, generation>>
      BY <1>1, <2>2
    <3> HIDE DEF told, told1
    <3>5. /\ heard \cup {result'[t].generation : t \in told1} = 2 .. generation
          /\ Len(audited) + Cardinality(told1) = generation - 1
      BY <3>1, <3>2, <3>3
    <3>6. GenerationsAudited'
      BY <3>4, <3>5 DEF GenerationsAudited, told1
    <3> QED
      BY <1>2, <1>3, <1>4, <3>6 DEF ReportInv
  <2> QED
    BY <2>1, <2>2
<1> QED
  BY <1>8, <1>9, <1>10, <1>11, <1>12, <1>13 DEF StoreInv

LEMMA InvStep == StoreInv /\ [Next]_vars => StoreInv'
<1> SUFFICES ASSUME StoreInv, [Next]_vars PROVE StoreInv'
  OBVIOUS
<1>1. CASE Replace \/ Remove \/ Tick
  BY <1>1, EditStep, TickStep
<1>2. CASE BootLoad \/ BootStat
  BY <1>2, BootLoadStep, BootStatStep
<1>3. ASSUME NEW r \in Threads,
             \/ Arrive(r) \/ RefreshBegin(r) \/ RefreshExists(r) \/ RefreshExistsThrows(r)
             \/ RefreshStat(r) \/ RefreshStatFails(r) \/ RefreshLoad(r) \/ RefreshOpenFails(r)
             \/ (\E q \in Requests : Decide(r, q)) \/ Audit(r)
      PROVE  StoreInv'
  BY <1>3, ArriveStep, RefreshBeginStep, RefreshExistsStep, RefreshExistsThrowsStep,
     RefreshStatStep, RefreshStatFailsStep, RefreshLoadStep, DecideStep, AuditStep
<1>4. CASE UNCHANGED vars
  <2>1. UNCHANGED <<disk, mtime, edits, disturbedAt, seen, interval, now, fsFailures, boot,
                    mutex, fileTokens, active, lastWriteTime, hadFile, generation, lastCheck, pc,
                    writeTime, result, began, decision, tried, audited>>
    BY <1>4 DEF vars, fileVars, storeVars
  <2>2. TypeOK' /\ BoundInv' /\ BootInv' /\ VersionInv' /\ CurrentInv'
    <3>1. TypeOK'
      BY <2>1 DEF StoreInv, TypeOK
    <3>2. BoundInv' /\ BootInv'
      BY <2>1 DEF StoreInv, BoundInv, BootInv
    <3>3. VersionInv' /\ CurrentInv'
      BY <2>1 DEF StoreInv, VersionInv, TokensOf, CurrentInv
    <3> QED
      BY <3>1, <3>2, <3>3
  <2>3. CheckInv' /\ \A r \in Threads : QuietInv(r)'
    BY <2>1 DEF StoreInv, CheckInv, QuietInv, Knows, Synced
  <2>4. ReportInv'
    BY <2>1, ReportKeeps DEF StoreInv
  <2> QED
    BY <2>2, <2>3, <2>4 DEF StoreInv
<1> QED
  BY <1>1, <1>2, <1>3, <1>4 DEF Next, Aborted

(* What the store knows of the secrets file, whoever edits and reads it.   *)
THEOREM StoreInvHolds == Spec => []StoreInv
BY InvInit, InvStep, PTL DEF Spec

-----------------------------------------------------------------------------
(* Every variable keeps its type, and the thread inside refresh() is the   *)
(* one that holds mutex_.                                                  *)
THEOREM TypeCorrect == Spec => []TypeOK
<1>1. StoreInv => TypeOK
  BY DEF StoreInv
<1> QED
  BY StoreInvHolds, <1>1, PTL

(* Every reload is audited, once, by the request that did it.              *)
THEOREM ReloadsAudited == Spec => []GenerationsAudited
<1>1. StoreInv => GenerationsAudited
  BY DEF StoreInv, ReportInv
<1> QED
  BY StoreInvHolds, <1>1, PTL

(* A request that begins an interval or more after the last edit, and is   *)
(* not disturbed by another, is decided by the file as it is: its own      *)
(* check, or one made after the edit, brought the store up to the file.    *)
(* The file must be left alone while the constructor runs, which reads it  *)
(* and its write time in two steps.                                        *)
THEOREM EditsTakeEffect ==
    ASSUME ~StartupEdits
    PROVE  Spec => []RevocationTakesEffect
<1>1. ASSUME StoreInv PROVE RevocationTakesEffect
  <2> SUFFICES ASSUME NEW r \in Threads, DecidesWhenQuiet(r), mtime \notin tried
               PROVE  active = InForce
    BY DEF RevocationTakesEffect
  <2>1. HotReload /\ pc[r] = "decide" /\ began[r].quiet /\ began[r].at >= disturbedAt + interval
    BY DEF DecidesWhenQuiet
  <2>2. disturbedAt + interval <= began[r].at
    BY <1>1, <2>1, Numbers DEF StoreInv
  <2>3. Synced /\ boot = "ready"
    BY <1>1, <2>1, <2>2 DEF StoreInv, QuietInv, BootInv
  <2> QED
    BY <1>1, <2>3 DEF StoreInv, CurrentInv, Synced, InForce
<1> QED
  BY StoreInvHolds, <1>1, PTL

(* The least of the numbers of some rules.                                 *)
LEMMA LeastIndex ==
    ASSUME NEW I, I \subseteq Nat, I # {}
    PROVE  Min(I) \in I /\ \A i \in I : Min(I) <= i
<1> DEFINE T == {1 .. i : i \in I}
<1>1. T \subseteq FiniteSubsetsOf(Nat) /\ T # {}
  <2>1. ASSUME NEW i \in I PROVE 1 .. i \in FiniteSubsetsOf(Nat)
    <3>1. i \in Nat /\ 1 .. i \subseteq Nat
      OBVIOUS
    <3>2. IsFiniteSet(1 .. i)
      BY <3>1, FS_Interval
    <3> QED
      BY <3>1, <3>2 DEF FiniteSubsetsOf
  <2> QED
    BY <2>1
<1>2. PICK x \in T : \A y \in T : ~(<<y, x>> \in StrictSubsetOrdering(Nat))
  BY <1>1, FS_StrictSubsetOrderingWellFounded, WFMin
<1>3. PICK i \in I : x = 1 .. i
  BY <1>2
<1>4. ASSUME NEW j \in I, j < i PROVE FALSE
  <2>1. 1 .. j \subseteq 1 .. i /\ i \in 1 .. i /\ i \notin 1 .. j /\ 1 .. i \subseteq Nat
    BY <1>4
  <2>2. <<1 .. j, 1 .. i>> \in StrictSubsetOrdering(Nat)
    BY <2>1 DEF StrictSubsetOrdering
  <2> QED
    BY <1>2, <1>3, <2>2
<1>5. \A j \in I : i <= j
  BY <1>4
<1> QED
  BY <1>5 DEF Min

(* The first rule with the presented secret decides.                       *)
LEMMA AllowedByFirst ==
    ASSUME NEW q, NEW file, NEW at, NEW n \in Nat, DOMAIN TokensOf(file) = 1 .. n
    PROVE  Authorize(q, TokensOf(file), Legacy, at) = "auth_allowed" <=> Grants(file, q, at)
<1> DEFINE tokens == TokensOf(file)
           mine == Matching(q, tokens, at)
<1>1. tokens = (IF file = Absent THEN InlineTokens ELSE Combined(file))
      /\ mine = {i \in DOMAIN tokens : tokens[i].secret = q.secret}
  BY DEF TokensOf, Matching
<1>2. mine \subseteq Nat
  BY <1>1
<1> HIDE DEF tokens, mine
<1>3. CASE mine = {}
  BY <1>1, <1>3 DEF Authorize, Grants, mine, tokens
<1>4. CASE mine # {}
  <2>1. Min(mine) \in mine /\ \A i \in mine : Min(mine) <= i
    BY <1>2, <1>4, LeastIndex
  <2> QED
    BY <1>1, <1>2, <1>4, <2>1 DEF Authorize, Grants, mine, tokens
<1> QED
  BY <1>3, <1>4

LEMMA TokensInOrder ==
    ASSUME NEW file \in Contents \cup {Absent}
    PROVE  \E n \in Nat : DOMAIN TokensOf(file) = 1 .. n
<1>1. PICK S : InlineTokens \in Seq(S)
  BY RulesInOrder
<1>2. CASE file = Absent
  <2>1. DOMAIN InlineTokens = 1 .. Len(InlineTokens) /\ Len(InlineTokens) \in Nat
    BY <1>1
  <2> QED
    BY <1>2, <2>1 DEF TokensOf
<1>3. CASE file # Absent
  <2>1. PICK T : file \in Seq(T)
    BY <1>3, RulesInOrder
  <2>2. InlineTokens \in Seq(S \cup T) /\ file \in Seq(S \cup T)
    BY <1>1, <2>1
  <2>3. InlineTokens \o file \in Seq(S \cup T)
    BY <2>2
  <2> DEFINE both == InlineTokens \o file
  <2>4. DOMAIN both = 1 .. Len(both) /\ Len(both) \in Nat
    BY <2>3
  <2> QED
    BY <1>3, <2>4 DEF TokensOf, Combined
<1> QED
  BY <1>2, <1>3

(* Whatever the reloads do between refresh and decision, a request is let  *)
(* in exactly by the rules of one version of the file.                     *)
THEOREM DecidedByAVersion == Spec => EveryDecisionHasAVersion
<1> DEFINE ByAVersion ==
      \A r \in Threads, q \in Requests : Decide(r, q) =>
         \E file \in seen :
            (decision'[r] = "auth_allowed") <=> Grants(file, q, began[r].at)
<1>1. StoreInv /\ [Next]_vars => ByAVersion
  <2> SUFFICES ASSUME StoreInv, NEW r \in Threads, NEW q \in Requests, Decide(r, q)
               PROVE  \E file \in seen :
                        (decision'[r] = "auth_allowed") <=> Grants(file, q, began[r].at)
    OBVIOUS
  <2>1. TypeOK /\ BootInv /\ VersionInv
    BY DEF StoreInv
  <2>2. boot = "ready"
    BY <2>1 DEF Decide, BootInv
  <2>3. PICK file \in seen : active = TokensOf(file)
    BY <2>1, <2>2 DEF VersionInv
  <2>4. file \in Contents \cup {Absent}
    BY <2>1 DEF TypeOK
  <2>5. PICK n \in Nat : DOMAIN TokensOf(file) = 1 .. n
    BY <2>4, TokensInOrder
  <2>6. decision'[r] = Authorize(q, TokensOf(file), Legacy, began[r].at)
    BY <2>1, <2>3 DEF Decide, TypeOK
  <2>7. Authorize(q, TokensOf(file), Legacy, began[r].at) = "auth_allowed"
          <=> Grants(file, q, began[r].at)
    BY <2>5, AllowedByFirst
  <2> QED
    BY <2>6, <2>7
<1>2. [][ByAVersion]_vars <=> EveryDecisionHasAVersion
  BY PTL DEF EveryDecisionHasAVersion
<1> QED
  BY StoreInvHolds, <1>1, <1>2, PTL DEF Spec
=============================================================================
