-------------------------- MODULE AuthRuntimeStore --------------------------
(***************************************************************************)
(* The hot-reloaded token store of AuthRuntimeStore.cpp and its caller     *)
(* Server::authorizeEndpoint.                                              *)
(*                                                                         *)
(* Worker threads serve protected requests: each reads the clock and calls *)
(* authorize(), which refreshes the store under mutex_, releases the       *)
(* mutex, takes it again to decide, and leaves the audit of the reload to  *)
(* the caller.  While a thread is inside refresh() an operator may replace *)
(* or remove the secrets file (scripts/manage_auth_tokens.py replaces it   *)
(* atomically), so the three file-system calls of refresh(), exists(),     *)
(* last_write_time() and the load, are separate steps, as are the calls of *)
(* the constructor.                                                        *)
(*                                                                         *)
(* A file is the sequence of its rules (see Auth).  The wall clock and the *)
(* steady clock tick together; the stamp of the last reload and the token  *)
(* count, which are only reported, are left out, and so is refresh(true),  *)
(* which the server never calls.                                           *)
(***************************************************************************)
EXTENDS Auth, FiniteSets

CONSTANTS
    Threads,           \* worker threads serving protected requests
    InlineTokens,      \* inlineTokens_
    Contents,          \* what an operator may write to the secrets file
    Requests,          \* what a request may present, and the scope it needs
    Legacy,            \* authBearerToken
    Absent,            \* no file
    NoThread,          \* mutex_ is free
    HotReload,         \* hotReload_
    Intervals,         \* the configurable values of reloadIntervalSeconds_
    StartupEdits,      \* may the file change while the constructor runs?
    MaxEdits,          \* bound on the operator's edits
    MaxTime,           \* bound on the steady clock, in seconds
    MaxFsFailures      \* bound on file-system calls that fail for the process

ASSUME StoreAssumption ==
    /\ IsFiniteSet(Threads) /\ NoThread \notin Threads
    /\ Absent \notin Contents
    /\ HotReload \in BOOLEAN /\ StartupEdits \in BOOLEAN
    /\ Intervals \subseteq Nat /\ MaxEdits \in Nat /\ MaxTime \in Nat
    /\ MaxFsFailures \in Nat

ASSUME RulesInOrder ==
    \A file \in Contents \cup {InlineTokens} : file \in Seq({file[i] : i \in DOMAIN file})

VARIABLES
    disk, mtime,                \* the secrets file: content and write time
    interval,                   \* reloadIntervalSeconds_
    now,                        \* steady_clock, in seconds
    edits,                      \* history: number of edits
    disturbedAt,                \* history: time of the last edit, or of the last
                                \* exists() or last_write_time() that failed
    fsFailures,                 \* history: failed file-system calls
    boot,                       \* where the constructor is
    mutex,                      \* the thread inside refresh(), if any
    fileTokens, active,         \* fileTokens_, activeTokens_
    lastCheck, lastWriteTime, hadFile, generation,
    pc,                         \* where each thread is
    writeTime,                  \* refresh()'s local variable
    result,                     \* the AuthReloadResult on its way to the caller
    began,                      \* when a request read the clock, and history: has
                                \* the file been left alone since?
    decision,                   \* the AuthDecision on its way to the caller
    seen,                       \* history: the valid contents of the file, and Absent
    tried,                      \* history: write times of the loads that failed
    audited                     \* history: generations audited as reloaded

fileVars  == <<disk, mtime, edits, disturbedAt, seen>>
storeVars == <<fileTokens, active, lastWriteTime, hadFile, generation>>
vars == <<fileVars, interval, now, fsFailures, boot, mutex, storeVars, lastCheck,
          pc, writeTime, result, began, decision, tried, audited>>

NoChange == [code |-> "NoChange", generation |-> 0]
NotBegun == [at |-> 0, quiet |-> FALSE]

(* combineAndValidate: the inline rules, then those of the file; it throws *)
(* on a name that is used twice.                                           *)
Combined(file) == InlineTokens \o file
Unique(tokens) == \A i, j \in DOMAIN tokens : tokens[i].name = tokens[j].name => i = j

Loads(file) == file # Absent /\ FileReadable(file) /\ Unique(Combined(file))
Usable(files) == {f \in files : f = Absent \/ Loads(f)}

Init ==
    /\ disk \in Contents /\ mtime = 1 /\ seen = Usable({disk})
    /\ interval \in Intervals
    /\ now = 0 /\ edits = 0 /\ disturbedAt = 0 /\ fsFailures = 0
    /\ boot = "load"
    /\ mutex = NoThread
    /\ fileTokens = <<>> /\ active = <<>>
    /\ lastCheck = 0 /\ lastWriteTime = 0 /\ hadFile = FALSE /\ generation = 0
    /\ pc = [r \in Threads |-> "idle"]
    /\ writeTime = [r \in Threads |-> 0]
    /\ result = [r \in Threads |-> NoChange]
    /\ began = [r \in Threads |-> NotBegun]
    /\ decision = [r \in Threads |-> "none"]
    /\ tried = {} /\ audited = <<>>

-----------------------------------------------------------------------------
(* The operator: atomic replacement or removal of the file.  Every         *)
(* replacement gets a new write time.                                      *)
Disturbed == [r \in Threads |-> [began[r] EXCEPT !.quiet = FALSE]]

MayEdit == edits < MaxEdits /\ (boot = "ready" \/ StartupEdits)

Edit ==
    /\ MayEdit
    /\ edits' = edits + 1 /\ disturbedAt' = now /\ seen' = seen \cup Usable({disk'})
    /\ began' = Disturbed
    /\ UNCHANGED <<interval, now, fsFailures, boot, mutex, storeVars, lastCheck, pc,
                   writeTime, result, decision, tried, audited>>

Replace ==
    /\ \E file \in Contents \ {disk} : disk' = file
    /\ mtime' = mtime + 1
    /\ Edit

Remove ==
    /\ disk # Absent
    /\ disk' = Absent
    /\ UNCHANGED mtime
    /\ Edit

Tick ==
    /\ now < MaxTime
    /\ now' = now + 1
    /\ UNCHANGED <<fileVars, interval, fsFailures, boot, mutex, storeVars, lastCheck, pc,
                   writeTime, result, began, decision, tried, audited>>

-----------------------------------------------------------------------------
(* The constructor: exists and load, then last_write_time.  Any failure    *)
(* leaves the constructor, and the program, by an exception; a call that   *)
(* fails for a file that is there ends it as an absent file does.          *)
BootRest == UNCHANGED <<fileVars, interval, now, fsFailures, mutex, pc, writeTime, result,
                        began, decision, tried, audited>>

BootLoad ==
    /\ boot = "load"
    /\ \/ /\ disk # Absent /\ FileReadable(disk)
          /\ fileTokens' = disk
          /\ boot' = "stat"
       \/ /\ ~(disk # Absent /\ FileReadable(disk))
          /\ boot' = "aborted"
          /\ UNCHANGED fileTokens
    /\ UNCHANGED <<active, lastWriteTime, hadFile, generation, lastCheck>>
    /\ BootRest

BootStat ==
    /\ boot = "stat"
    /\ \/ /\ disk # Absent /\ Unique(Combined(fileTokens))
          /\ lastWriteTime' = mtime
          /\ hadFile' = TRUE
          /\ active' = Combined(fileTokens)
          /\ generation' = 1
          /\ lastCheck' = now
          /\ boot' = "ready"
       \/ /\ ~(disk # Absent /\ Unique(Combined(fileTokens)))
          /\ boot' = "aborted"
          /\ UNCHANGED <<lastWriteTime, hadFile, active, generation, lastCheck>>
    /\ UNCHANGED fileTokens
    /\ BootRest

-----------------------------------------------------------------------------
(* authorize(), first half: refresh(false) under mutex_.                   *)

(* Mutant: > instead of >= in the comparison of the interval. *)
checkIntervalElapsedLate == interval = 0 \/ now - lastCheck > interval

checkIntervalElapsed == interval = 0 \/ now - lastCheck >= interval

(* refresh() returns: the mutex is released and the caller goes on.        *)
Return(r, code, gen) ==
    /\ mutex' = NoThread
    /\ pc' = [pc EXCEPT ![r] = "decide"]
    /\ result' = [result EXCEPT ![r] =
                    [code |-> code, generation |-> gen]]

(* authorizeEndpoint reads the clock before it asks the store.             *)
Arrive(r) ==
    /\ boot = "ready" /\ pc[r] = "idle"
    /\ pc' = [pc EXCEPT ![r] = "refresh"]
    /\ began' = [began EXCEPT ![r] = [at |-> now, quiet |-> TRUE]]
    /\ UNCHANGED <<fileVars, interval, now, fsFailures, boot, mutex, storeVars, lastCheck,
                   writeTime, result, decision, tried, audited>>

RefreshBegin(r) ==
    /\ pc[r] = "refresh" /\ mutex = NoThread
    /\ \/ /\ HotReload /\ checkIntervalElapsed
          /\ lastCheck' = now
          /\ mutex' = r
          /\ pc' = [pc EXCEPT ![r] = "exists"]
          /\ UNCHANGED result
       \/ /\ ~(HotReload /\ checkIntervalElapsed)
          /\ UNCHANGED lastCheck
          /\ Return(r, "NoChange", generation)
    /\ UNCHANGED <<fileVars, interval, now, fsFailures, boot, storeVars, writeTime, began,
                   decision, tried, audited>>

RefreshRest == UNCHANGED <<fileVars, interval, now, boot, lastCheck, decision, audited>>

(* The file is gone: its tokens are revoked.                               *)
RevokeFileTokens ==
    /\ fileTokens' = <<>>
    /\ active' = InlineTokens
    /\ hadFile' = FALSE /\ lastWriteTime' = 0
    /\ generation' = generation + 1

RefreshExists(r) ==
    /\ pc[r] = "exists"
    /\ \/ /\ disk # Absent
          /\ pc' = [pc EXCEPT ![r] = "stat"]
          /\ UNCHANGED <<storeVars, mutex, result>>
       \/ /\ disk = Absent /\ hadFile
          /\ RevokeFileTokens
          /\ Return(r, "Reloaded", generation + 1)
       \/ /\ disk = Absent /\ ~hadFile
          /\ UNCHANGED storeVars
          /\ Return(r, "NoChange", generation)
    /\ UNCHANGED <<fsFailures, writeTime, tried>>
    /\ UNCHANGED began
    /\ RefreshRest

(* exists() itself may throw; nothing in refresh() catches that, and the   *)
(* request ends in handlePlainClient's or handleTlsClient's handler.       *)
RefreshExistsThrows(r) ==
    /\ pc[r] = "exists"
    /\ fsFailures < MaxFsFailures
    /\ fsFailures' = fsFailures + 1 /\ disturbedAt' = now
    /\ mutex' = NoThread
    /\ pc' = [pc EXCEPT ![r] = "idle"]
    /\ began' = [Disturbed EXCEPT ![r] = NotBegun]
    /\ UNCHANGED <<disk, mtime, edits, seen, interval, now, boot, storeVars, lastCheck,
                   writeTime, result, decision, tried, audited>>

RefreshStat(r) ==
    /\ pc[r] = "stat"
    /\ \/ /\ disk = Absent
          /\ Return(r, "Failed", generation)
          /\ UNCHANGED writeTime
       \/ /\ disk # Absent /\ hadFile /\ mtime = lastWriteTime
          /\ Return(r, "NoChange", generation)
          /\ UNCHANGED writeTime
       \/ /\ disk # Absent /\ ~(hadFile /\ mtime = lastWriteTime)
          /\ writeTime' = [writeTime EXCEPT ![r] = mtime]
          /\ pc' = [pc EXCEPT ![r] = "load"]
          /\ UNCHANGED <<mutex, result>>
    /\ UNCHANGED <<storeVars, fsFailures, tried>>
    /\ UNCHANGED began
    /\ RefreshRest

(* The call may fail for a file that is there: caught, but not remembered. *)
RefreshStatFails(r) ==
    /\ pc[r] = "stat"
    /\ fsFailures < MaxFsFailures
    /\ fsFailures' = fsFailures + 1 /\ disturbedAt' = now
    /\ Return(r, "Failed", generation)
    /\ began' = Disturbed
    /\ UNCHANGED <<disk, mtime, edits, seen, interval, now, boot, storeVars, lastCheck,
                   writeTime, decision, tried, audited>>

(* A failed load keeps the tokens and remembers the version it tried.      *)
KeepLastGood(r) ==
    /\ lastWriteTime' = writeTime[r]
    /\ hadFile' = TRUE
    /\ tried' = tried \cup {writeTime[r]}
    /\ UNCHANGED <<fileTokens, active, generation>>

(* Mutant: a reload does not start a new generation. *)
CommitSameGeneration(r) ==
    /\ fileTokens' = disk
    /\ active' = Combined(disk)
    /\ lastWriteTime' = writeTime[r]
    /\ hadFile' = TRUE
    /\ UNCHANGED <<generation, tried>>

(* A load that succeeds replaces the whole set.                            *)
Commit(r) ==
    /\ fileTokens' = disk
    /\ active' = Combined(disk)
    /\ lastWriteTime' = writeTime[r]
    /\ hadFile' = TRUE
    /\ generation' = generation + 1
    /\ UNCHANGED tried

RefreshLoad(r) ==
    /\ pc[r] = "load"
    /\ \/ Loads(disk) /\ Commit(r) /\ Return(r, "Reloaded", generation + 1)
       \/ ~Loads(disk) /\ KeepLastGood(r) /\ Return(r, "Failed", generation)
    /\ writeTime' = [writeTime EXCEPT ![r] = 0]
    /\ UNCHANGED fsFailures
    /\ UNCHANGED began
    /\ RefreshRest

(* Opening the file may fail although it is fine (no descriptor left): the *)
(* same handler runs.                                                      *)
RefreshOpenFails(r) ==
    /\ pc[r] = "load"
    /\ fsFailures < MaxFsFailures
    /\ fsFailures' = fsFailures + 1
    /\ KeepLastGood(r) /\ Return(r, "Failed", generation)
    /\ writeTime' = [writeTime EXCEPT ![r] = 0]
    /\ began' = Disturbed
    /\ RefreshRest

-----------------------------------------------------------------------------
(* authorize(), second half: the mutex is taken again for the decision,    *)
(* with the clock as it was read; then authorizeEndpoint audits the reload.*)
Decide(r, q) ==
    /\ pc[r] = "decide" /\ mutex = NoThread
    /\ decision' = [decision EXCEPT ![r] = Authorize(q, active, Legacy, began[r].at)]
    /\ pc' = [pc EXCEPT ![r] = "audit"]
    /\ UNCHANGED <<fileVars, interval, now, fsFailures, boot, mutex, storeVars, lastCheck,
                   writeTime, result, began, tried, audited>>

Audit(r) ==
    /\ pc[r] = "audit"
    /\ pc' = [pc EXCEPT ![r] = "idle"]
    /\ audited' = IF result[r].code = "Reloaded"
                  THEN Append(audited, result[r].generation) ELSE audited
    /\ result' = [result EXCEPT ![r] = NoChange]
    /\ decision' = [decision EXCEPT ![r] = "none"]
    /\ began' = [began EXCEPT ![r] = NotBegun]
    /\ UNCHANGED <<fileVars, interval, now, fsFailures, boot, mutex, storeVars, lastCheck,
                   writeTime, tried>>

-----------------------------------------------------------------------------
Aborted == boot = "aborted" /\ UNCHANGED vars

Next ==
    \/ Replace \/ Remove \/ Tick
    \/ BootLoad \/ BootStat
    \/ \E r \in Threads :
          \/ Arrive(r) \/ RefreshBegin(r) \/ RefreshExists(r) \/ RefreshExistsThrows(r)
          \/ RefreshStat(r) \/ RefreshStatFails(r) \/ RefreshLoad(r) \/ RefreshOpenFails(r)
          \/ (\E q \in Requests : Decide(r, q)) \/ Audit(r)
    \/ Aborted

Spec == Init /\ [][Next]_vars

-----------------------------------------------------------------------------
(* Every variable of AuthRuntimeStore.hpp and of its callers keeps its     *)
(* type, and the thread inside refresh() is the one that holds mutex_.     *)
TypeOK ==
    /\ disk \in Contents \cup {Absent}
    /\ mtime \in 1 .. MaxEdits + 1
    /\ interval \in Intervals /\ now \in 0 .. MaxTime
    /\ edits \in 0 .. MaxEdits /\ disturbedAt \in 0 .. MaxTime
    /\ fsFailures \in 0 .. MaxFsFailures
    /\ boot \in {"load", "stat", "ready", "aborted"}
    /\ mutex \in Threads \cup {NoThread}
    /\ fileTokens \in Contents \cup {<<>>} /\ seen \subseteq Contents \cup {Absent}
    /\ active \in {Combined(file) : file \in Contents} \cup {<<>>, InlineTokens}
    /\ lastCheck \in 0 .. MaxTime /\ lastWriteTime \in 0 .. MaxEdits + 1
    /\ hadFile \in BOOLEAN /\ generation \in Nat
    /\ pc \in [Threads -> {"idle", "refresh", "exists", "stat", "load", "decide", "audit"}]
    /\ writeTime \in [Threads -> 0 .. MaxEdits + 1]
    /\ result \in [Threads -> [code : {"NoChange", "Reloaded", "Failed"}, generation : Nat]]
    /\ began \in [Threads -> [at : 0 .. MaxTime, quiet : BOOLEAN]]
    /\ decision \in [Threads -> {"none", "auth_missing", "auth_invalid", "auth_expired",
                               "auth_scope_denied", "auth_allowed"}]
    /\ tried \subseteq Nat /\ audited \in Seq(Nat)
    /\ \A r \in Threads : pc[r] \in {"exists", "stat", "load"} <=> mutex = r

(* What a request must be decided against once the file has been as it is  *)
(* for the reload interval (with interval 0: since before the request).    *)
InForce == IF disk = Absent THEN InlineTokens ELSE Combined(disk)

(* Thread r decides on a request that arrived an interval or more after    *)
(* the last edit of a valid file, its removal or a failed exists() or      *)
(* last_write_time(), and whose own calls of the file system succeeded.    *)
DecidesWhenQuiet(r) ==
    /\ HotReload /\ pc[r] = "decide"
    /\ began[r].quiet
    /\ began[r].at >= disturbedAt + interval
    /\ disk = Absent \/ Loads(disk)

(* A revoked token is refused, and a new one accepted, by every request    *)
(* that begins an interval or more after the edit of the file, however the *)
(* edit met the steps of other threads' refreshes, provided no load of     *)
(* this version of the file has failed before.                             *)
RevocationTakesEffect ==
    \A r \in Threads :
        DecidesWhenQuiet(r) /\ mtime \notin tried
            => active = InForce

(* docs/auth-hot-reload.md:52: with reload interval 0, the removed token   *)
(* is rejected by the next protected request.                              *)
RemovedTokenRejected ==
    interval = 0 => \A r \in Threads : DecidesWhenQuiet(r) => active = InForce

(* Who is let in holds a token that some version of the file, with the     *)
(* configuration, gave the scope and that had not expired when the request *)
(* came; who is refused, however reloads fail and meet, is a client whom   *)
(* some version did not let in: a token that stays in the file through     *)
(* every edit keeps working.                                               *)
Grants(file, q, at) ==
    LET tokens == IF file = Absent THEN InlineTokens ELSE Combined(file)
        mine == {i \in DOMAIN tokens : tokens[i].secret = q.secret}
    IN  /\ q.header = "bearer"
        /\ IF mine = {} THEN q.secret = Legacy
           ELSE \E i \in mine : /\ \A j \in mine : i <= j
                               /\ ~isExpired(tokens[i], at) /\ hasScope(tokens[i], q.scope)

EveryDecisionHasAVersion ==
    [][\A r \in Threads, q \in Requests : Decide(r, q) =>
         \E file \in seen :
            (decision'[r] = "auth_allowed") <=> Grants(file, q, began[r].at)]_vars

(* Each generation is audited exactly once, by the request that loaded it, *)
(* although the audit comes after the mutex is released and in any order.  *)
GenerationsAudited ==
    LET pending == {r \in Threads : result[r].code = "Reloaded"}
        known   == {audited[i] : i \in 1 .. Len(audited)}
                     \cup {result[r].generation : r \in pending}
    IN  boot = "ready" =>
          /\ known = 2 .. generation
          /\ Len(audited) + Cardinality(pending) = generation - 1
=============================================================================
