------------------------- MODULE ConnectionLifecycle -------------------------
(***************************************************************************)
(* A connection's way through Server.cpp, from the listen backlog through  *)
(* the accept chain of its port, the worker pool and handlePlainClient or  *)
(* handleTlsClient to its close, and the end of the server: a signal stops *)
(* the io_context, Application.cpp joins the io threads and destroys the   *)
(* Server, whose members die in the reverse order of their declaration.    *)
(*                                                                         *)
(* The pool is the abstract executor that ThreadPool implements.  What a   *)
(* request asks for is reduced to the members its answer needs: a static   *)
(* file needs staticCache_, the upload endpoint authStore_ and logger_,    *)
(* the status page all of them.  An answer from a destroyed member is      *)
(* undefined: it may pass or kill the process.                             *)
(***************************************************************************)
EXTENDS Integers, Sequences, FiniteSets

CONSTANTS
    Conns,     \* connections
    Plain,     \* the ones to the plain port; the others use TLS
    Slots,     \* workerThreads
    Capacity,  \* maxPendingConnections
    Limited    \* can the rate limiter refuse (enableRateLimiter)?

ASSUME ServerAssumption ==
    /\ IsFiniteSet(Conns) /\ Plain \subseteq Conns
    /\ Slots \in Nat \ {0} /\ Capacity \in Nat \ {0} /\ Limited \in BOOLEAN

VARIABLES
    stage,    \* how far each connection is
    needs,    \* what each request being answered asks for
    socket,   \* its socket
    lines,    \* what was logged for it, in order
    armed,    \* the ports with an async_accept under way
    io,       \* is the io_context running?
    dead,     \* how many members of Server have been destroyed
    crashed,  \* the process was killed by an access to a dead member
    queue, running, finished, refused, phase   \* the executor

poolVars == <<queue, running, finished, refused, phase>>
connVars == <<stage, needs, socket, lines>>
vars == <<connVars, armed, io, dead, crashed, poolVars>>

Pool == INSTANCE BoundedExecutor WITH Tasks <- Conns

Ports == {"http", "https"}
Port(c) == IF c \in Plain THEN "http" ELSE "https"

(* What a request may ask for, and the members its answer reaches into.    *)
Uses == [static |-> {"config", "staticCache"},
         upload |-> {"config", "authStore", "logger"},
         status |-> {"config", "authStore", "logger", "rateLimiter", "workers", "staticCache"},
         other  |-> {"config"}]
Requests == DOMAIN Uses

(* Mutant: logger_ is declared last, so it dies first. *)
DestroyedInOrderLoggerFirst ==
    <<"logger", "sqlite", "staticCache", "workers", "rateLimiter", "authStore", "config">>

(* The members of Server.hpp that requests use, in the order of their end. *)
DestroyedInOrder ==
    <<"sqlite", "staticCache", "workers", "rateLimiter", "logger", "authStore", "config">>

Alive(m) == \E i \in dead + 1 .. Len(DestroyedInOrder) : DestroyedInOrder[i] = m

Init ==
    /\ stage = [c \in Conns |-> "away"]
    /\ needs = [c \in Conns |-> "other"]
    /\ socket = [c \in Conns |-> "none"]
    /\ lines = [c \in Conns |-> <<>>]
    /\ armed = Ports
    /\ io = TRUE /\ dead = 0 /\ crashed = FALSE
    /\ Pool!Init

-----------------------------------------------------------------------------
(* A client connects; one in the backlog may go away again.                *)
Arrive(c) ==
    /\ stage[c] = "away" /\ io
    /\ stage' = [stage EXCEPT ![c] = "backlog"]
    /\ UNCHANGED <<needs, socket, lines, armed, io, dead, crashed, poolVars>>

(* The handler of async_accept, run by an io thread: the connection is     *)
(* offered to the pool or closed, and the port accepts again.              *)
(* Mutant: the handler returns early when the pool refuses. *)
AcceptRejectStopsPort(c) ==
    /\ Pool!Refuse(c)
    /\ stage' = [stage EXCEPT ![c] = "ended"]
    /\ lines' = [lines EXCEPT ![c] = Append(@, "error")]
    /\ socket' = [socket EXCEPT ![c] = "closed"]
    /\ armed' = armed \ {Port(c)}

(* Mutant: a refused connection is not closed. *)
AcceptRejectLeavesOpen(c) ==
    /\ Pool!Refuse(c)
    /\ stage' = [stage EXCEPT ![c] = "ended"]
    /\ lines' = [lines EXCEPT ![c] = Append(@, "error")]
    /\ socket' = [socket EXCEPT ![c] = "open"]
    /\ UNCHANGED armed

AcceptReject(c) ==
    /\ Pool!Refuse(c)
    /\ stage' = [stage EXCEPT ![c] = "ended"]
    /\ lines' = [lines EXCEPT ![c] = Append(@, "error")]
    /\ socket' = [socket EXCEPT ![c] = "closed"]
    /\ UNCHANGED armed

AcceptEnqueue(c) ==
    /\ Pool!Accept(c)
    /\ stage' = [stage EXCEPT ![c] = "queued"]
    /\ socket' = [socket EXCEPT ![c] = "open"]
    /\ UNCHANGED <<lines, armed>>

Accept(c) ==
    /\ io /\ stage[c] = "backlog" /\ Port(c) \in armed
    /\ AcceptEnqueue(c) \/ AcceptReject(c)
    /\ UNCHANGED <<needs, io, dead, crashed>>

(* The accept fails because the client is gone: the port accepts again.    *)
(* An accept that fails and leaves the connection in the backlog (no       *)
(* descriptor is left) is tried again at once and changes nothing here:    *)
(* the fairness of Accept says that it succeeds in the end.                *)
AcceptFails(c) ==
    /\ io /\ stage[c] = "backlog" /\ Port(c) \in armed
    /\ stage' = [stage EXCEPT ![c] = "away"]
    /\ UNCHANGED <<needs, socket, lines, armed, io, dead, crashed, poolVars>>

-----------------------------------------------------------------------------
(* A worker runs the connection's task.                                    *)
Start ==
    /\ ~crashed /\ Pool!Start
    /\ stage' = [stage EXCEPT ![Head(queue)] = "begin"]
    /\ UNCHANGED <<needs, socket, lines, armed, io, dead, crashed>>

Goes(c, from, to) ==
    /\ ~crashed /\ stage[c] = from
    /\ stage' = [stage EXCEPT ![c] = to]
    /\ UNCHANGED <<socket, lines, armed, io, dead, crashed, poolVars>>

(* The task ends with a line in a log and the socket closed, by a call or  *)
(* by its destructor.                                                      *)
Ends(c, line) ==
    /\ ~crashed
    /\ stage' = [stage EXCEPT ![c] = "ended"]
    /\ socket' = [socket EXCEPT ![c] = "closed"]
    /\ lines' = [lines EXCEPT ![c] = Append(@, line)]
    /\ Pool!Finish(c)
    /\ UNCHANGED <<needs, armed, io, dead, crashed>>

(* remote_endpoint(); over TLS also the handshake before the limiter.      *)
Begin(c) == Goes(c, "begin", "limit") /\ UNCHANGED needs

(* allow(): a refusal goes straight to writing a 429.                      *)
Limit(c) == /\ Goes(c, "limit", "read") \/ (Limited /\ Goes(c, "limit", "write"))
            /\ UNCHANGED needs

(* The request has been read and parsed.                                   *)
Read(c) == \E r \in Requests : /\ Goes(c, "read", "answer")
                               /\ needs' = [needs EXCEPT ![c] = r]

Answer(c) == Goes(c, "answer", "write") /\ UNCHANGED needs

(* The answer reaches into a destroyed member. *)
Crash(c) ==
    /\ ~crashed /\ stage[c] = "answer" /\ \E m \in Uses[needs[c]] : ~Alive(m)
    /\ crashed' = TRUE
    /\ UNCHANGED <<connVars, armed, io, dead, poolVars>>

Write(c) == Goes(c, "write", "log") /\ UNCHANGED needs

(* Mutant: closing the socket can throw, and the handler logs that too. *)
LogTwice(c) ==
    /\ stage[c] = "log" /\ ~crashed
    /\ stage' = [stage EXCEPT ![c] = "ended"]
    /\ socket' = [socket EXCEPT ![c] = "closed"]
    /\ lines' = [lines EXCEPT ![c] = @ \o <<"access", "error">>]
    /\ Pool!Finish(c)
    /\ UNCHANGED <<needs, armed, io, dead, crashed>>

Log(c) == stage[c] = "log" /\ Ends(c, "access")

(* An exception before the access line: a lost client, a failed handshake, *)
(* a request cut short, a failed write.                                    *)
Fail(c) == stage[c] \in {"begin", "read", "answer", "write"} /\ Ends(c, "error")

-----------------------------------------------------------------------------
(* A signal stops the io_context: no further handler runs.                 *)
Stop ==
    /\ io
    /\ io' = FALSE
    /\ UNCHANGED <<connVars, armed, dead, crashed, poolVars>>

(* The next member dies; workers_ in two steps, for its destructor drains  *)
(* the queue and joins the workers.                                        *)
Dying == DestroyedInOrder[dead + 1]

(* Mutant: the workers are waited for without being told to stop. *)
DestroyMemberJoinsOnly ==
    /\ ~io /\ ~crashed /\ dead < Len(DestroyedInOrder)
    /\ dead' = IF Dying = "workers" THEN dead ELSE dead + 1
    /\ UNCHANGED <<connVars, armed, io, crashed, poolVars>>

DestroyMember ==
    /\ ~io /\ ~crashed /\ dead < Len(DestroyedInOrder)
    /\ \/ /\ Dying = "workers" /\ Pool!Close
          /\ UNCHANGED dead
       \/ /\ Dying = "workers" /\ Pool!Closed
          /\ dead' = dead + 1
       \/ /\ Dying # "workers"
          /\ dead' = dead + 1
          /\ UNCHANGED poolVars
    /\ UNCHANGED <<connVars, armed, io, crashed>>

Over == (crashed \/ dead = Len(DestroyedInOrder)) /\ UNCHANGED vars

-----------------------------------------------------------------------------
Handle(c) == \/ Begin(c) \/ Limit(c) \/ Read(c) \/ Answer(c) \/ Crash(c)
             \/ Write(c) \/ Log(c) \/ Fail(c)

Next ==
    \/ \E c \in Conns : Arrive(c) \/ Accept(c) \/ AcceptFails(c) \/ Handle(c)
    \/ Start \/ Stop \/ DestroyMember \/ Over

(* The io threads run the accept handlers, the pool starts and runs its    *)
(* tasks, and the main thread runs to the end of main.  That Handle is     *)
(* fair assumes of the clients that none stalls for ever: each sends its   *)
(* request, reads its response or goes away.                               *)
Fairness ==
    /\ \A c \in Conns : WF_vars(Accept(c) \/ AcceptFails(c)) /\ WF_vars(Handle(c))
    /\ WF_vars(Start) /\ WF_vars(DestroyMember)

Spec == Init /\ [][Next]_vars
FairSpec == Spec /\ Fairness

-----------------------------------------------------------------------------
InTask == {"begin", "limit", "read", "answer", "write", "log"}

(* Every connection is at one place only: a connection has an open socket  *)
(* exactly while it waits in workers_ or a worker runs its task.           *)
TypeOK ==
    /\ stage \in [Conns -> {"away", "backlog", "queued", "ended"} \cup InTask]
    /\ needs \in [Conns -> Requests] /\ armed \subseteq Ports
    /\ socket \in [Conns -> {"none", "open", "closed"}]
    /\ io \in BOOLEAN /\ crashed \in BOOLEAN /\ dead \in 0 .. Len(DestroyedInOrder)
    /\ running = {c \in Conns : stage[c] \in InTask}
    /\ \A c \in Conns :
         socket[c] = "open" <=> stage[c] = "queued" \/ stage[c] \in InTask

(* Each connection taken from the backlog leaves exactly one line on its   *)
(* outcome, in the access log or in the error log, whichever step of it    *)
(* fails.                                                                  *)
LoggedOnce ==
    \A c \in Conns :
        Len(lines[c]) = IF stage[c] = "ended" THEN 1 ELSE 0

(* The members a request uses while it waits, reads, is answered and is    *)
(* logged, staticCache_ aside, are destroyed after the pool has drained.   *)
MembersOutliveRequests ==
    running # {} \/ queue # <<>> =>
        \A m \in {"workers", "rateLimiter", "logger", "authStore", "config"} : Alive(m)

(* A stop by a signal is graceful (RELEASE_NOTES_v1_9_0.md:37): no request *)
(* under way brings the process down.                                      *)
GracefulStop == ~crashed

(* A connection in the backlog is accepted or gone, or the server stops:   *)
(* no outcome of the accept handler breaks the chain of its port.          *)
BacklogServed == \A c \in Conns : stage[c] = "backlog" ~> stage[c] # "backlog" \/ ~io

(* Whatever happens to it, also when the server stops while it waits, an   *)
(* accepted connection is answered or given up and its socket closed.      *)
AcceptedIsClosed == \A c \in Conns : socket[c] = "open" ~> socket[c] = "closed" \/ crashed

(* The server comes to an end after a signal.                              *)
StopEnds == ~io ~> dead = Len(DestroyedInOrder) \/ crashed
=============================================================================
