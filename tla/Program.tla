------------------------------- MODULE Program -------------------------------
(***************************************************************************)
(* The program around the server: --check-config, the console program and  *)
(* the Windows service (main.cpp, Application.cpp, WindowsService.cpp),    *)
(* and what ConfigLoader::load accepts.                                    *)
(*                                                                         *)
(* The service runs in a thread of its own; the control handler runs in    *)
(* the dispatcher's, whenever the service control manager (external) sends *)
(* a stop.  Both write g_status without a lock, so storing a status and    *)
(* passing it on are two steps where they can meet.  A configuration is    *)
(* the settings that other components rely on; of the files it names, the  *)
(* document root and the secrets file, which an operator may edit.         *)
(***************************************************************************)
EXTENDS Integers, Sequences, FiniteSetsExt, SequencesExt

CONSTANTS
    Configs,    \* what the configuration file may say
    Secrets,    \* what the secrets file may hold: sequences of token names
    Absent,     \* no such file
    Hardware,   \* hardware_concurrency()
    MayFail,    \* may a port be taken, a thread not start?
    MaxEdits,   \* bound on the operator's edits
    MaxStops    \* bound on the stop requests

(* The settings of ServerConfig that other components rely on.             *)
ServerConfig ==
    [io : Nat, workers : Nat, multiplier : Nat, queue : Nat, limiterShards : Nat,
     sample : Nat, logQueue : Nat, cache : BOOLEAN, cacheShards : Nat,
     cacheEntries : Nat, cacheBytes : Nat, cacheFile : Nat, parts : Nat,
     uploads : BOOLEAN, uploadFile : Nat, uploadField : Nat, body : Nat,
     auth : BOOLEAN, bearer : BOOLEAN, tokens : Seq(STRING), secrets : BOOLEAN,
     rotateBytes : Nat, rotateKeep : Nat, admin : BOOLEAN]

ASSUME ProgramAssumption ==
    /\ Configs \subseteq ServerConfig /\ Secrets \subseteq Seq(STRING)
    /\ Absent \notin Secrets /\ Hardware \in Nat /\ MayFail \in BOOLEAN
    /\ MaxEdits \in Nat /\ MaxStops \in Nat

VARIABLES
    mode,       \* "console" or "service"
    conf,       \* the configuration file, then the server's config_
    disk,       \* whether the document root exists, and the secrets file
    checked,    \* what --check-config said
    edits, edited,  \* the operator's edits; was there one since the check?
    pc,         \* where runHydrogenHttpd and serviceMain are
    result,     \* "ok" if runHydrogenHttpd returns 0, else why it returns 1
    io,         \* the io_context
    g_io,       \* is it published to the handler?
    g_status,   \* the status being reported
    scm,        \* the status last reported
    handler,    \* where the control handler is
    stops,      \* stop requests so far
    asked,      \* history: one came when the io_context was published
    dangling    \* history: stop was called on a destroyed io_context

files == <<conf, disk, checked, edits, edited>>
service == <<g_io, g_status, scm>>
stopping == <<handler, stops, asked, dangling>>
vars == <<mode, files, pc, result, io, service, stopping>>

Ended == pc \in {"exited", "aborted", "killed"}

Init ==
    /\ mode \in {"console", "service"}
    /\ conf \in Configs
    /\ disk \in [root : BOOLEAN, secrets : Secrets \cup {Absent}]
    /\ checked = "no" /\ edits = 0 /\ edited = FALSE
    /\ pc = "off" /\ result = "ok" /\ io = "none"
    /\ g_io = FALSE /\ g_status = "none" /\ scm = "none"
    /\ handler = "idle" /\ stops = 0 /\ asked = FALSE /\ dangling = FALSE

-----------------------------------------------------------------------------
(* The checks of ConfigLoader::load, on the settings modelled.             *)
Refused(c) ==
    \/ 0 \in {c.io, c.multiplier, c.queue, c.limiterShards, c.sample, c.logQueue,
              c.cacheShards, c.parts}
    \/ c.cache /\ (c.cacheEntries = 0 \/ c.cacheBytes = 0)
    \/ c.cacheFile > c.cacheBytes
    \/ c.uploads /\ (c.uploadFile = 0 \/ c.uploadFile > c.body \/ c.uploadField > c.body)
    \/ c.auth /\ ~c.bearer /\ c.tokens = <<>> /\ ~c.secrets
    \/ ~IsInjective(c.tokens)
    \/ c.rotateBytes > 0 /\ c.rotateKeep = 0
    \/ c.admin /\ ~c.auth

(* loadAndValidate, with the files as they are.                            *)
Accepted(c, d) == ~Refused(c) /\ d.root /\ (c.secrets => d.secrets # Absent)

(* worker_threads = 0 leaves the number to the machine.                    *)
Loaded(c) ==
    IF c.workers > 0 THEN c
    ELSE [c EXCEPT !.workers = Max({4, Max({1, Hardware}) * c.multiplier})]

AllTokens(c, d) ==
    c.tokens \o (IF c.secrets /\ d.secrets # Absent THEN d.secrets ELSE <<>>)

(* The token store's constructor reads the file again, and here a name in  *)
(* it is compared with those of the configuration.                         *)
Constructible(c, d) == (c.secrets => d.secrets # Absent) /\ IsInjective(AllTokens(c, d))

-----------------------------------------------------------------------------
(* The operator edits a file, or runs --check-config.                      *)
Edit ==
    /\ edits < MaxEdits /\ ~Ended
    /\ disk' \in [root : BOOLEAN, secrets : Secrets \cup {Absent}] \ {disk}
    /\ edits' = edits + 1 /\ edited' = TRUE
    /\ UNCHANGED <<mode, conf, checked, pc, result, io, service, stopping>>

(* Mutant: the check does not look at the files the configuration names. *)
CheckConfigOnly ==
    /\ pc = "off" /\ checked = "no"
    /\ checked' = IF Refused(conf) THEN "refused" ELSE "ok"
    /\ edited' = FALSE
    /\ UNCHANGED <<mode, conf, disk, edits, pc, result, io, service, stopping>>

CheckConfig ==
    /\ pc = "off" /\ checked = "no"
    /\ checked' = IF Accepted(conf, disk) THEN "ok" ELSE "refused"
    /\ edited' = FALSE
    /\ UNCHANGED <<mode, conf, disk, edits, pc, result, io, service, stopping>>

-----------------------------------------------------------------------------
GoTo(to) == pc' = to /\ UNCHANGED <<mode, disk, checked, edits, edited, stopping>>

(* A status that nothing can come between.                                 *)
ReportStatus(status) == g_status' = status /\ scm' = status /\ UNCHANGED g_io

Start ==
    /\ pc = "off"
    /\ \/ mode = "console" /\ GoTo("load") /\ UNCHANGED service
       \/ mode = "service" /\ GoTo("starting") /\ ReportStatus("START_PENDING")
       \/ mode = "service" /\ MayFail /\ GoTo("exited") /\ UNCHANGED service
    /\ UNCHANGED <<conf, result, io>>

(* RUNNING is reported before anything was done.                           *)
ReportRunning ==
    /\ pc = "starting" /\ GoTo("load") /\ ReportStatus("RUNNING")
    /\ UNCHANGED <<conf, result, io>>

Load ==
    /\ pc = "load"
    /\ IF Accepted(conf, disk)
       THEN conf' = Loaded(conf) /\ GoTo("io") /\ UNCHANGED result
       ELSE GoTo("returned") /\ result' = "refused" /\ UNCHANGED conf
    /\ UNCHANGED <<io, service>>

(* The io_context, on the console with its signal_set.                     *)
MakeIo ==
    /\ pc = "io" /\ io' = "live"
    /\ GoTo(IF mode = "service" THEN "publish" ELSE "construct")
    /\ UNCHANGED <<conf, result, service>>

OnIoReady ==
    /\ pc = "publish" /\ g_io' = TRUE /\ GoTo("construct")
    /\ UNCHANGED <<conf, result, io, g_status, scm>>

(* Mutant: the io_context is restarted before it runs. *)
ConstructRestarts ==
    /\ pc = "construct" /\ Constructible(conf, disk) /\ GoTo("run") /\ io' = "live"
    /\ UNCHANGED <<conf, result, service>>

Construct ==
    /\ pc = "construct"
    /\ \/ Constructible(conf, disk) /\ GoTo("run") /\ UNCHANGED result
       \/ ~Constructible(conf, disk) /\ GoTo("unwind") /\ result' = "refused"
       \/ MayFail /\ GoTo("unwind") /\ result' = "failed"
    /\ UNCHANGED <<conf, io, service>>

(* io.run() returns when it was stopped, at once if that was before.  An   *)
(* exception ends the program if it finds other I/O threads unjoined.      *)
Run ==
    /\ pc = "run"
    /\ \/ io = "stopped" /\ GoTo("unwind") /\ UNCHANGED <<result, service>>
       \/ MayFail /\ GoTo("unwind") /\ result' = "failed" /\ UNCHANGED service
       \/ MayFail /\ conf.io > 1 /\ GoTo("aborted") /\ scm' = "died"
          /\ UNCHANGED <<result, g_io, g_status>>
    /\ UNCHANGED <<conf, io>>

(* The server is destroyed, then the io_context (see ConnectionLifecycle). *)
Unwind ==
    /\ pc = "unwind" /\ io' = "destroyed" /\ GoTo("returned")
    /\ UNCHANGED <<conf, result, service>>

Return ==
    /\ pc = "returned" /\ g_io' = FALSE
    /\ GoTo(IF mode = "service" THEN "store" ELSE "exited")
    /\ UNCHANGED <<conf, result, io, g_status, scm>>

(* Mutant: a failure is reported like a stop. *)
StoreStoppedAlways ==
    /\ pc = "store" /\ GoTo("report") /\ g_status' = "STOPPED"
    /\ UNCHANGED <<conf, result, io, g_io, scm>>

StoreStopped ==
    /\ pc = "store" /\ GoTo("report")
    /\ g_status' = IF result = "ok" THEN "STOPPED" ELSE "STOPPED with an error"
    /\ UNCHANGED <<conf, result, io, g_io, scm>>

ReportStopped ==
    /\ pc = "report" /\ scm' = g_status /\ GoTo("exited")
    /\ UNCHANGED <<conf, result, io, g_io, g_status>>

-----------------------------------------------------------------------------
(* serviceControlHandler.  The control manager sends a stop to a service   *)
(* that last reported that it accepts one.                                 *)
HandlerRest == UNCHANGED <<mode, files, pc, result, g_io>>

Control ==
    /\ mode = "service" /\ handler = "idle" /\ scm \in {"RUNNING", "STOP_PENDING"}
    /\ stops < MaxStops
    /\ stops' = stops + 1 /\ asked' = (asked \/ (g_io /\ io = "live"))
    /\ handler' = "report" /\ g_status' = "STOP_PENDING"
    /\ UNCHANGED <<scm, io, dangling>> /\ HandlerRest

HandlerReports ==
    /\ handler = "report"
    /\ scm' = g_status /\ handler' = "test"
    /\ UNCHANGED <<g_status, io, stops, asked, dangling>> /\ HandlerRest

HandlerTests ==
    /\ handler = "test"
    /\ handler' = IF g_io THEN "stop" ELSE "idle"
    /\ UNCHANGED <<scm, g_status, io, stops, asked, dangling>> /\ HandlerRest

HandlerStops ==
    /\ handler = "stop" /\ handler' = "idle"
    /\ io' = IF io = "live" THEN "stopped" ELSE io
    /\ dangling' = (dangling \/ io = "destroyed")
    /\ UNCHANGED <<scm, g_status, stops, asked>> /\ HandlerRest

(* SIGINT or SIGTERM: the default action unless the signal_set exists,     *)
(* which catches the second and later ones and does nothing.               *)
Signal ==
    /\ mode = "console" /\ pc # "off" /\ ~Ended /\ stops < MaxStops
    /\ stops' = stops + 1
    /\ IF io \in {"none", "destroyed"} THEN pc' = "killed" /\ UNCHANGED <<io, asked>>
       ELSE io' = "stopped" /\ asked' = TRUE /\ UNCHANGED pc
    /\ UNCHANGED <<mode, files, result, service, handler, dangling>>

-----------------------------------------------------------------------------
Main == \/ Start \/ ReportRunning \/ Load \/ MakeIo \/ OnIoReady \/ Construct \/ Run
        \/ Unwind \/ Return \/ StoreStopped \/ ReportStopped
Handler == HandlerReports \/ HandlerTests \/ HandlerStops

Done == Ended /\ handler = "idle" /\ UNCHANGED vars

Next == Main \/ Handler \/ Control \/ Signal \/ Edit \/ CheckConfig \/ Done

Spec == Init /\ [][Next]_vars

(* Both threads run, and the server can be destroyed, which is             *)
(* ConnectionLifecycle's StopEnds.                                         *)
FairSpec == Spec /\ WF_vars(Main) /\ WF_vars(Handler)

-----------------------------------------------------------------------------
(* A configuration that --check-config accepted is not refused at the      *)
(* start, if nothing was edited in between and nothing else fails; save    *)
(* for a token name that is used twice once the secrets file is read: only *)
(* the token store compares them.                                          *)
CheckedConfigStarts ==
    checked = "ok" /\ ~edited /\ result = "refused" =>
        ~IsInjective(AllTokens(conf, disk))

(* A service that is stopped once and did not fail uses no io_context that *)
(* is gone, and the last it reports is that it stopped; one that fails     *)
(* without being stopped reports the failure.  (A second control, or one   *)
(* that meets a failure, may do both: nothing orders the two threads.)     *)
StopReported ==
    /\ dangling => stops > 1 \/ result # "ok"
    /\ /\ mode = "service" /\ pc = "exited" /\ handler = "idle"
       /\ scm # "none"
       => /\ stops <= 1 /\ result = "ok" => scm = "STOPPED"
          /\ stops = 0 /\ result # "ok" => scm = "STOPPED with an error"

(* A stop that comes once the io_context is published (a signal, once the  *)
(* signal_set is there) ends the program, also if it comes before run().   *)
(* (One that comes earlier is lost, although the service said RUNNING.)    *)
StopHeard == asked ~> Ended
=============================================================================
