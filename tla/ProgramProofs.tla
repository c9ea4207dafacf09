---------------------------- MODULE ProgramProofs ----------------------------
(***************************************************************************)
(* What --check-config promises and what the service reports, for every    *)
(* set of configurations and secrets, any number of edits and of stops.    *)
(***************************************************************************)
EXTENDS Program, TLAPS

(* The points before the configuration is loaded.                          *)
Unloaded == {"off", "starting", "load"}

(* Why a configuration that passed the check is not refused: nothing that  *)
(* the check looked at has changed, whether it was loaded yet or not, and  *)
(* loading it only fills in the number of workers.                         *)
CheckInv ==
    /\ conf \in ServerConfig
    /\ pc \in Unloaded => result = "ok"
    /\ checked = "ok" /\ ~edited =>
         /\ pc \in Unloaded => Accepted(conf, disk)
         /\ conf.secrets => disk.secrets # Absent
         /\ result = "refused" => ~IsInjective(AllTokens(conf, disk))

(* What can be said of the stops before the two threads meet: a run that   *)
(* ended well was stopped, by a handler that had finished unless there is  *)
(* a second one; until then neither writes over the other's status.        *)
Final == IF result = "ok" THEN "STOPPED" ELSE "STOPPED with an error"
Undisturbed == IF result = "ok" THEN stops <= 1 ELSE stops < 1

StopInv ==
    /\ stops \in Nat
    /\ handler # "idle" => mode = "service" /\ stops > 0
    /\ io = "stopped" => stops > 0
    /\ mode = "service" /\ pc = "off" => scm = "none"
    /\ pc \notin {"off", "killed"} /\ scm = "none" /\ mode = "service" => pc = "exited"
    /\ mode = "service" /\ stops > 0 => scm # "none"
    /\ mode = "service" =>
         /\ scm # "none" => g_status # "none"
         /\ pc = "unwind" /\ result = "ok" => io = "stopped"
         /\ io = "destroyed" /\ result = "ok" => stops > 0
         /\ pc \in {"returned", "store", "report"} =>
              io = "destroyed" \/ result # "ok"
         /\ pc = "exited" /\ scm # "none" => io = "destroyed" \/ result # "ok"
         /\ stops <= 1 /\ (io = "stopped" \/ (io = "destroyed" /\ result = "ok")) =>
              handler = "idle"
         /\ pc = "report" /\ Undisturbed => g_status = Final
         /\ pc = "exited" /\ scm # "none" /\ Undisturbed => scm = Final

(* The larger of two numbers is one of them.                               *)
LEMMA MaxOfTwo ==
    ASSUME NEW a \in Nat, NEW b \in Nat
    PROVE  Max({a, b}) \in Nat
<1>1. \E m \in {a, b} : \A y \in {a, b} : y <= m
  <2>1. CASE a <= b
    BY <2>1
  <2>2. CASE b <= a
    BY <2>2
  <2> QED
    BY <2>1, <2>2
<1>2. Max({a, b}) \in {a, b}
  BY <1>1 DEF Max
<1> QED
  BY <1>2

(* Loading keeps every setting but the number of workers.                  *)
LEMMA LoadedKeeps ==
    ASSUME NEW c \in ServerConfig
    PROVE  /\ Loaded(c) \in ServerConfig
           /\ Loaded(c).secrets = c.secrets /\ Loaded(c).tokens = c.tokens
<1> DEFINE n == Max({4, Max({1, Hardware}) * c.multiplier})
<1>1. c.multiplier \in Nat /\ Max({1, Hardware}) \in Nat
  BY MaxOfTwo, ProgramAssumption DEF ServerConfig
<1>2. Max({1, Hardware}) * c.multiplier \in Nat
  BY <1>1
<1>3. n \in Nat
  BY <1>2, MaxOfTwo
<1> HIDE DEF n
<1>4. [c EXCEPT !.workers = n] \in ServerConfig
      /\ [c EXCEPT !.workers = n].secrets = c.secrets
      /\ [c EXCEPT !.workers = n].tokens = c.tokens
  BY <1>3 DEF ServerConfig
<1>5. Loaded(c) = IF c.workers > 0 THEN c ELSE [c EXCEPT !.workers = n]
  BY DEF Loaded, n
<1> QED
  BY <1>4, <1>5

LEMMA CheckInit == Init => CheckInv
BY ProgramAssumption DEF Init, CheckInv, Unloaded

LEMMA CheckStep == CheckInv /\ [Next]_vars => CheckInv'
<1> SUFFICES ASSUME CheckInv, [Next]_vars PROVE CheckInv'
  OBVIOUS
<1> USE DEF CheckInv, Unloaded
<1>1. ASSUME Start PROVE CheckInv'
  BY <1>1 DEF Start, GoTo, ReportStatus, service, stopping
<1>2. ASSUME ReportRunning PROVE CheckInv'
  BY <1>2 DEF ReportRunning, GoTo, ReportStatus, stopping
<1>3. ASSUME Load PROVE CheckInv'
  BY <1>3, LoadedKeeps DEF Load, Accepted, AllTokens, GoTo, service, stopping
<1>4. ASSUME MakeIo PROVE CheckInv'
  BY <1>4 DEF MakeIo, GoTo, service, stopping
<1>5. ASSUME OnIoReady PROVE CheckInv'
  BY <1>5 DEF OnIoReady, GoTo, stopping
<1>6. ASSUME Construct PROVE CheckInv'
  BY <1>6 DEF Construct, Constructible, GoTo, service, stopping
<1>7. ASSUME Run PROVE CheckInv'
  BY <1>7 DEF Run, GoTo, service, stopping
<1>8. ASSUME Unwind PROVE CheckInv'
  BY <1>8 DEF Unwind, GoTo, service, stopping
<1>9. ASSUME Return PROVE CheckInv'
  BY <1>9 DEF Return, GoTo, stopping
<1>10. ASSUME StoreStopped PROVE CheckInv'
  BY <1>10 DEF StoreStopped, GoTo, stopping
<1>11. ASSUME ReportStopped PROVE CheckInv'
  BY <1>11 DEF ReportStopped, GoTo, stopping
<1>12. ASSUME HandlerReports PROVE CheckInv'
  BY <1>12 DEF HandlerReports, HandlerRest, files
<1>13. ASSUME HandlerTests PROVE CheckInv'
  BY <1>13 DEF HandlerTests, HandlerRest, files
<1>14. ASSUME HandlerStops PROVE CheckInv'
  BY <1>14 DEF HandlerStops, HandlerRest, files
<1>15. ASSUME Control PROVE CheckInv'
  BY <1>15 DEF Control, HandlerRest, files
<1>16. ASSUME Signal PROVE CheckInv'
  BY <1>16 DEF Signal, files, service
<1>17. ASSUME Edit PROVE CheckInv'
  BY <1>17 DEF Edit, service, stopping
<1>18. ASSUME CheckConfig PROVE CheckInv'
  BY <1>18 DEF CheckConfig, Accepted, service, stopping
<1>19. ASSUME UNCHANGED vars PROVE CheckInv'
  BY <1>19 DEF vars, files, service, stopping
<1> QED
  BY <1>1, <1>2, <1>3, <1>4, <1>5, <1>6, <1>7, <1>8, <1>9, <1>10, <1>11, <1>12, <1>13, <1>14, <1>15, <1>16, <1>17, <1>18, <1>19 DEF Next, Main, Handler, Done

LEMMA StopInit == Init => StopInv
BY DEF Init, StopInv, Undisturbed, Final

LEMMA StopStep == StopInv /\ [Next]_vars => StopInv'
<1> SUFFICES ASSUME StopInv, [Next]_vars PROVE StopInv'
  OBVIOUS
<1> USE DEF StopInv, Undisturbed, Final
<1>1. ASSUME Start PROVE StopInv'
  BY <1>1 DEF Start, GoTo, ReportStatus, service, stopping
<1>2. ASSUME ReportRunning PROVE StopInv'
  BY <1>2 DEF ReportRunning, GoTo, ReportStatus, stopping
<1>3. ASSUME Load PROVE StopInv'
  BY <1>3 DEF Load, GoTo, service, stopping
<1>4. ASSUME MakeIo PROVE StopInv'
  BY <1>4 DEF MakeIo, GoTo, service, stopping
<1>5. ASSUME OnIoReady PROVE StopInv'
  BY <1>5 DEF OnIoReady, GoTo, stopping
<1>6. ASSUME Construct PROVE StopInv'
  BY <1>6 DEF Construct, GoTo, service, stopping
<1>7. ASSUME Run PROVE StopInv'
  BY <1>7 DEF Run, GoTo, service, stopping
<1>8. ASSUME Unwind PROVE StopInv'
  BY <1>8 DEF Unwind, GoTo, service, stopping
<1>9. ASSUME Return PROVE StopInv'
  BY <1>9 DEF Return, GoTo, stopping
<1>10. ASSUME StoreStopped PROVE StopInv'
  BY <1>10 DEF StoreStopped, GoTo, stopping
<1>11. ASSUME ReportStopped PROVE StopInv'
  BY <1>11 DEF ReportStopped, GoTo, stopping
<1>12. ASSUME HandlerReports PROVE StopInv'
  <2>1. mode = "service" /\ stops > 0 /\ scm # "none" /\ g_status # "none"
    BY <1>12 DEF HandlerReports
  <2>2. /\ scm' = g_status /\ handler = "report" /\ handler' = "test"
        /\ UNCHANGED <<mode, pc, result, io, g_status, stops>>
    BY <1>12 DEF HandlerReports, HandlerRest
  <2>3. ~(pc = "exited" /\ Undisturbed)
    <3>1. stops \in Nat /\ (pc = "exited" /\ result = "ok" => ~(stops <= 1))
      BY <2>1, <2>2
    <3> HIDE DEF StopInv
    <3> QED
      BY <2>1, <3>1
  <2>4. Undisturbed' = Undisturbed /\ Final' = Final
    BY <2>2
  <2> HIDE DEF Undisturbed, Final
  <2> QED
    BY <2>1, <2>2, <2>3, <2>4
<1>13. ASSUME HandlerTests PROVE StopInv'
  BY <1>13 DEF HandlerTests, HandlerRest, files
<1>14. ASSUME HandlerStops PROVE StopInv'
  BY <1>14 DEF HandlerStops, HandlerRest, files
<1>15. ASSUME Control PROVE StopInv'
  <2>1. /\ mode = "service" /\ handler = "idle" /\ scm # "none"
        /\ stops' = stops + 1 /\ handler' = "report" /\ g_status' = "STOP_PENDING"
        /\ UNCHANGED <<mode, pc, result, io, scm>>
    BY <1>15 DEF Control, HandlerRest
  <2>2. ~(pc \in {"report", "exited"} /\ Undisturbed')
    <3>1. stops \in Nat /\ (pc \in {"report", "exited"} /\ result = "ok" => stops > 0)
      BY <2>1
    <3> HIDE DEF StopInv
    <3> QED
      BY <2>1, <3>1
  <2> HIDE DEF Undisturbed, Final
  <2> QED
    BY <2>1, <2>2
<1>16. ASSUME Signal PROVE StopInv'
  BY <1>16 DEF Signal, files, service
<1>17. ASSUME Edit PROVE StopInv'
  BY <1>17 DEF Edit, service, stopping
<1>18. ASSUME CheckConfig PROVE StopInv'
  BY <1>18 DEF CheckConfig, service, stopping
<1>19. ASSUME UNCHANGED vars PROVE StopInv'
  BY <1>19 DEF vars, files, service, stopping
<1> QED
  BY <1>1, <1>2, <1>3, <1>4, <1>5, <1>6, <1>7, <1>8, <1>9, <1>10, <1>11, <1>12, <1>13, <1>14, <1>15, <1>16, <1>17, <1>18, <1>19 DEF Next, Main, Handler, Done

(* A stop is called on a destroyed io_context only if it is the second or  *)
(* the run failed: StopInv's handler that is idle cannot call it.          *)
DanglingInv == dangling => stops > 1 \/ result # "ok"

(* What any step may do to the three: stops only grow, a failure stays one,*)
(* and dangling becomes true in HandlerStops only.                         *)
LEMMA DanglingNext ==
    ASSUME stops \in Nat, [Next]_vars
    PROVE  /\ stops' = stops \/ stops' = stops + 1
           /\ result # "ok" => result' # "ok"
           /\ dangling' =>
                dangling \/ (handler = "stop" /\ io = "destroyed" /\ UNCHANGED <<stops, result>>)
<1> USE DEF GoTo, HandlerRest, files, service, stopping, vars
<1>1. ASSUME Main
      PROVE  UNCHANGED <<stops, dangling>> /\ (result # "ok" => result' # "ok")
  BY <1>1 DEF Main, Start, ReportRunning, Load, MakeIo, OnIoReady, Construct, Run, Unwind,
              Return, StoreStopped, ReportStopped
<1>2. ASSUME HandlerReports \/ HandlerTests PROVE UNCHANGED <<stops, dangling, result>>
  BY <1>2 DEF HandlerReports, HandlerTests
<1>3. ASSUME HandlerStops
      PROVE  /\ UNCHANGED <<stops, result>>
             /\ dangling' => dangling \/ (handler = "stop" /\ io = "destroyed")
  BY <1>3 DEF HandlerStops
<1>4. ASSUME Control PROVE stops' = stops + 1 /\ UNCHANGED <<dangling, result>>
  BY <1>4 DEF Control
<1>5. ASSUME Signal PROVE stops' = stops + 1 /\ UNCHANGED <<dangling, result>>
  BY <1>5 DEF Signal
<1>6. ASSUME Edit \/ CheckConfig \/ Done PROVE UNCHANGED <<stops, dangling, result>>
  BY <1>6 DEF Edit, CheckConfig, Done
<1> QED
  BY <1>1, <1>2, <1>3, <1>4, <1>5, <1>6 DEF Next, Handler

LEMMA DanglingStep == StopInv /\ DanglingInv /\ [Next]_vars => DanglingInv'
<1> SUFFICES ASSUME StopInv, DanglingInv, [Next]_vars, dangling'
             PROVE  stops' > 1 \/ result' # "ok"
  BY DEF DanglingInv
<1>1. stops \in Nat
  BY DEF StopInv
<1>2. CASE dangling
  BY <1>1, <1>2, DanglingNext DEF DanglingInv
<1>3. CASE handler = "stop" /\ io = "destroyed" /\ UNCHANGED <<stops, result>>
  BY <1>3 DEF StopInv
<1> QED
  BY <1>1, <1>2, <1>3, DanglingNext

-----------------------------------------------------------------------------
(* A configuration that passed --check-config starts, if its files are not *)
(* edited in between, unless a token name occurs twice once the secrets    *)
(* file is read: whatever ConfigLoader::load accepts and however many      *)
(* edits, checks and stops there are.                                      *)
THEOREM CheckedStarts == Spec => []CheckedConfigStarts
<1>1. CheckInv => CheckedConfigStarts
  BY DEF CheckInv, CheckedConfigStarts
<1> QED
  BY CheckInit, CheckStep, <1>1, PTL DEF Spec

(* The service's last report says how it ended, and no handler touches an  *)
(* io_context that is gone, unless there was a second stop or a failure:   *)
(* for every interleaving of the service's thread and the control handler. *)
THEOREM LastReport == Spec => []StopReported
<1>1. Init => DanglingInv
  BY DEF Init, DanglingInv
<1>2. ASSUME StopInv, DanglingInv PROVE StopReported
  <2>1. stops \in Nat
    BY <1>2 DEF StopInv
  <2>2. dangling => stops > 1 \/ result # "ok"
    BY <1>2 DEF DanglingInv
  <2>3. mode = "service" /\ pc = "exited" /\ scm # "none" /\ Undisturbed => scm = Final
    BY <1>2 DEF StopInv
  <2>4. /\ stops <= 1 /\ result = "ok" => Undisturbed /\ Final = "STOPPED"
        /\ stops = 0 /\ result # "ok" => Undisturbed /\ Final = "STOPPED with an error"
    BY <2>1 DEF Undisturbed, Final
  <2> QED
    BY <2>2, <2>3, <2>4 DEF StopReported
<1> QED
  BY StopInit, StopStep, DanglingStep, <1>1, <1>2, PTL DEF Spec
=============================================================================
