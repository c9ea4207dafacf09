------------------------------- MODULE FastCgi -------------------------------
(***************************************************************************)
(* One request handed to PHP: Server::handlePhpScript and FastCgiClient.   *)
(*                                                                         *)
(* The worker sends the whole request, record by record, before it reads   *)
(* anything; between the two processes a connection holds so many records  *)
(* in each direction.  PHP is external: it reads and writes in any order,  *)
(* may stop anywhere, and its connection may break in the middle of a      *)
(* record.  A byte string is its length; PHP's output is a sequence of     *)
(* records whose content is made of the few things parseCgiResponse looks  *)
(* for.  Header lines other than Status are left out: handlePhpScript      *)
(* drops them.                                                             *)
(***************************************************************************)
EXTENDS Integers, Sequences, FiniteSetsExt, SequencesExt

CONSTANTS
    Bodies,       \* sizes of the request body
    ParamBytes,   \* size of the encoded parameters
    ChunkSize,    \* the most content put in one record (65535)
    LengthRange,  \* a record's length field counts modulo this (2^16)
    UpCap,        \* records the connection holds on their way to PHP
    DownCap,      \* and on their way to the worker
    Outputs,      \* what PHP may write: sequences of PhpRecords
    MayFail,      \* may PHP be unreachable or stop?
    ReadTimesOut  \* does SO_RCVTIMEO end a read? (Boost.Asio waits on elsewhere)

(* What parseCgiResponse tells apart in a page: a Status line with and one *)
(* without a number, the two kinds of blank line, and anything else.       *)
Pieces == {"status", "odd status", "crlf", "lf", "text"}

PhpRecord == [type : {"stdout", "stderr", "end"}, id : Nat, content : Seq(Pieces)]

ASSUME FastCgiAssumption ==
    /\ Bodies \subseteq Nat /\ ParamBytes \in Nat \ {0}
    /\ ChunkSize \in Nat \ {0} /\ LengthRange \in Nat /\ ChunkSize < LengthRange
    /\ Outputs \subseteq Seq(PhpRecord)
    /\ UpCap \in Nat \ {0} /\ DownCap \in Nat \ {0}
    /\ MayFail \in BOOLEAN /\ ReadTimesOut \in BOOLEAN

VARIABLES
    body, output,   \* the request's body, and what PHP will write
    pc,             \* where the worker is in execute
    sent,           \* records of wire that were written
    stdoutData,     \* what the worker has collected of PHP's output
    stderrData,     \* and whether there was any error output
    answer,         \* what handlePhpScript returns
    up, down,       \* the connection
    closed,         \* PHP's side of it is closed
    heard,          \* bytes PHP read, and the streams it saw the end of
    written,        \* records of output that were written
    intent,         \* PHP's next operation
    lost            \* history: a record of output did not reach the connection whole

worker == <<pc, sent, stdoutData, stderrData, answer>>
php == <<closed, heard, written, intent, lost>>
exchangeVars == <<body, output, worker, up, down, php>>

-----------------------------------------------------------------------------
(* Mutant: a chunk of 2^16 bytes. *)
ChunksTooLarge(n) ==
    [i \in 1 .. (n + LengthRange - 1) \div LengthRange |->
        Min({LengthRange, n - (i - 1) * LengthRange})]

(* buildParams, buildStdin: the chunks of n bytes.                         *)
Chunks(n) ==
    [i \in 1 .. (n + ChunkSize - 1) \div ChunkSize |->
        Min({ChunkSize, n - (i - 1) * ChunkSize})]

(* appendRecord; the empty record ends a stream.                           *)
Record(type, n) == [type |-> type, length |-> n % LengthRange]

(* Mutant: the record that ends a stream is forgotten. *)
StreamUnended(type, n) ==
    LET chunks == Chunks(n) IN [i \in DOMAIN chunks |-> Record(type, chunks[i])]

Stream(type, n) ==
    LET chunks == Chunks(n)
    IN  Append([i \in DOMAIN chunks |-> Record(type, chunks[i])], Record(type, 0))

Wire == <<Record("begin", 8)>> \o Stream("params", ParamBytes) \o Stream("stdin", body)

Nothing == [params |-> 0, stdin |-> 0, ended |-> {}]
NoAnswer == [status |-> 0, body |-> <<>>]

ExchangeInit ==
    /\ body \in Bodies /\ output \in Outputs
    /\ pc = "connect" /\ sent = 0
    /\ stdoutData = <<>> /\ stderrData = FALSE /\ answer = NoAnswer
    /\ up = <<>> /\ down = <<>>
    /\ closed = FALSE /\ heard = Nothing /\ written = 0
    /\ intent = "read" /\ lost = FALSE

-----------------------------------------------------------------------------
(* The position of the first blank line of a kind, 0 if there is none.     *)
First(raw, kind) ==
    LET at == {i \in DOMAIN raw : raw[i] = kind} IN IF at = {} THEN 0 ELSE Min(at)

(* Mutant: the other kind of blank line is looked for first. *)
SplitOther(raw) == IF First(raw, "lf") # 0 THEN First(raw, "lf") ELSE First(raw, "crlf")

(* The end of the header: a CRLF blank line anywhere goes before an LF one. *)
Split(raw) == IF First(raw, "crlf") # 0 THEN First(raw, "crlf") ELSE First(raw, "lf")

(* The last Status line counts; one without a number says 200.             *)
StatusOf(headers) ==
    LET lines == {i \in DOMAIN headers : headers[i] \in {"status", "odd status"}}
    IN  IF lines # {} /\ headers[Max(lines)] = "status" THEN 404 ELSE 200

(* parseCgiResponse: without a blank line, everything is the body.         *)
ParseCgi(raw) ==
    [status |-> StatusOf(SubSeq(raw, 1, Split(raw) - 1)),
     body   |-> SubSeq(raw, Split(raw) + 1, Len(raw))]

-----------------------------------------------------------------------------
(* Any exception: the client is told that PHP is unavailable.              *)
Unavailable ==
    /\ pc' = "failed"
    /\ answer' = [status |-> 502, body |-> <<>>]

Connect ==
    /\ pc = "connect"
    /\ \/ pc' = "write" /\ UNCHANGED answer
       \/ MayFail /\ Unavailable
    /\ UNCHANGED <<body, output, sent, stdoutData, stderrData, up, down, php>>

(* The one write of the whole request.                                     *)
Send ==
    /\ pc = "write" /\ Len(up) < UpCap
    /\ up' = Append(up, Wire[sent + 1])
    /\ sent' = sent + 1
    /\ pc' = IF sent' = Len(Wire) THEN "read" ELSE "write"
    /\ UNCHANGED <<body, output, stdoutData, stderrData, answer, down, php>>

SendFails ==
    /\ pc = "write" /\ closed
    /\ Unavailable
    /\ UNCHANGED <<body, output, sent, stdoutData, stderrData, up, down, php>>

(* Behind the loop. *)
Finish(out, err) ==
    IF err /\ out = <<>> THEN Unavailable
    ELSE pc' = "answered" /\ answer' = ParseCgi(out)

(* An empty record of error output only ends that stream.                  *)
IsError(record) == record.type = "stderr" /\ record.content # <<>>

(* What the loop does with a whole record.                                 *)
Take(record) ==
    /\ stdoutData' = IF record.type = "stdout" THEN stdoutData \o record.content ELSE stdoutData
    /\ stderrData' = (stderrData \/ IsError(record))
    /\ IF record.type = "end" THEN Finish(stdoutData, stderrData) ELSE UNCHANGED <<pc, answer>>

(* Mutant: error output, too, is collected for the client. *)
ReceiveAll ==
    /\ pc = "read" /\ down # <<>>
    /\ down' = Tail(down)
    /\ IF Head(down).type = "cut" THEN UNCHANGED <<stdoutData, stderrData>> /\ Unavailable
       ELSE Take([Head(down) EXCEPT !.type = IF @ = "stderr" THEN "stdout" ELSE @])
    /\ UNCHANGED <<body, output, sent, up, php>>

(* Of a record that is cut in its header the loop makes the end of the     *)
(* answer, of one that is cut behind it a failure.                         *)
Receive ==
    /\ pc = "read" /\ down # <<>>
    /\ down' = Tail(down)
    /\ LET record == Head(down) IN
       \/ /\ record.type = "cut"
          /\ Unavailable \/ Finish(stdoutData, stderrData)
          /\ UNCHANGED <<stdoutData, stderrData>>
       \/ /\ record.type # "cut" /\ record.id # 1 /\ record.type # "end"
          /\ Unavailable
          /\ UNCHANGED <<stdoutData, stderrData>>
       \/ /\ record.type # "cut" /\ (record.id = 1 \/ record.type = "end")
          /\ Take(record)
    /\ UNCHANGED <<body, output, sent, up, php>>

(* Mutant: a connection that ends is an error. *)
ReceiveEndFails ==
    /\ pc = "read" /\ down = <<>> /\ closed
    /\ Unavailable
    /\ UNCHANGED <<body, output, sent, stdoutData, stderrData, up, down, php>>

(* The end of the connection is the end of the answer.                     *)
ReceiveEnd ==
    /\ pc = "read" /\ down = <<>> /\ closed
    /\ Finish(stdoutData, stderrData)
    /\ UNCHANGED <<body, output, sent, stdoutData, stderrData, up, down, php>>

(* Nothing comes for as long as php_fastcgi_read_timeout_seconds says.     *)
ReceiveTimeout ==
    /\ pc = "read" /\ down = <<>> /\ ~closed /\ ReadTimesOut
    /\ Unavailable \/ Finish(stdoutData, stderrData)
    /\ lost' = TRUE
    /\ UNCHANGED <<body, output, sent, stdoutData, stderrData, up, down>>
    /\ UNCHANGED <<closed, heard, written, intent>>

-----------------------------------------------------------------------------
(* PHP reads a record, as its FastCGI library would.                       *)
PhpReads ==
    /\ ~closed /\ intent = "read" /\ up # <<>>
    /\ up' = Tail(up)
    /\ LET record == Head(up) IN
       heard' = IF record.type = "begin" \/ record.type \in heard.ended THEN heard
                ELSE IF record.length = 0 THEN [heard EXCEPT !.ended = @ \cup {record.type}]
                ELSE [heard EXCEPT ![record.type] = @ + record.length]
    /\ intent' \in IF "params" \notin heard'.ended THEN {"read"}
                   ELSE IF "stdin" \notin heard'.ended THEN {"read", "write"} ELSE {"write"}
    /\ UNCHANGED <<body, output, worker, down, closed, written, lost>>

(* PHP writes its next record; a script need not read its input first.     *)
PhpWrites ==
    /\ ~closed /\ intent = "write" /\ written < Len(output) /\ Len(down) < DownCap
    /\ down' = Append(down, output[written + 1])
    /\ written' = written + 1
    /\ intent' \in IF "stdin" \in heard.ended THEN {"write"} ELSE {"read", "write"}
    /\ UNCHANGED <<body, output, worker, up, closed, heard, lost>>

(* PHP closes the connection behind its answer: FCGI_KEEP_CONN is not set. *)
(* Input it left unread may cost what it has written.                      *)
PhpFinishes ==
    /\ ~closed /\ written = Len(output)
    /\ closed' = TRUE
    /\ \E n \in IF up = <<>> THEN {Len(down)} ELSE 0 .. Len(down) :
          /\ down' = SubSeq(down, 1, n)
          /\ lost' = (lost \/ n < Len(down))
    /\ UNCHANGED <<body, output, worker, up, heard, written, intent>>

(* PHP stops, or the connection breaks: in the middle of a record, or with *)
(* a part of what was on its way.                                          *)
PhpStops ==
    /\ ~closed /\ MayFail
    /\ closed' = TRUE
    /\ \/ \E n \in 0 .. Len(down) : down' = SubSeq(down, 1, n)
       \/ Len(down) < DownCap /\ down' = Append(down, [type |-> "cut"])
    /\ lost' = TRUE
    /\ UNCHANGED <<body, output, worker, up, heard, written, intent>>

-----------------------------------------------------------------------------
Worker == Connect \/ Send \/ SendFails \/ Receive \/ ReceiveEnd
Php    == PhpReads \/ PhpWrites \/ PhpFinishes
Ended  == pc \in {"answered", "failed"}

Done == Ended /\ closed /\ UNCHANGED exchangeVars

ExchangeNext == Worker \/ ReceiveTimeout \/ Php \/ PhpStops \/ Done

ExchangeSpec == ExchangeInit /\ [][ExchangeNext]_exchangeVars

(* The worker's thread runs, and PHP does what it can do.  That PHP stops, *)
(* or that a read times out, is not assumed.                               *)
FairExchange == ExchangeSpec /\ WF_exchangeVars(Worker) /\ WF_exchangeVars(Php)

-----------------------------------------------------------------------------
(* PHP is given the whole body and all parameters before it is told that   *)
(* there is no more, and never more than that: a record's 16-bit length    *)
(* neither ends the stream early nor loses a part of it.                   *)
ScriptReadsRequest ==
    /\ heard.params <= ParamBytes /\ heard.stdin <= body
    /\ "params" \in heard.ended => heard.params = ParamBytes
    /\ "stdin" \in heard.ended => heard.stdin = body

(* What the first n records add to PHP's standard output.                  *)
Printed(records) ==
    LET printed[n \in 0 .. Len(records)] ==
            IF n = 0 THEN <<>>
            ELSE IF records[n].type = "stdout" THEN printed[n - 1] \o records[n].content
            ELSE printed[n - 1]
    IN  printed

(* The record that ends the request, or the last one.                      *)
EndOf(records) ==
    LET ends == {i \in DOMAIN records : records[i].type = "end"}
    IN  IF ends = {} THEN Len(records) ELSE Min(ends)

(* What PHP wrote to its standard output before it ended the request.      *)
StdoutOf(records) == Printed(records)[EndOf(records)]

(* A page is divided at its first blank line.                              *)
PageOf(raw) ==
    LET blank == {i \in DOMAIN raw : raw[i] \in {"crlf", "lf"}}
        split == IF blank = {} THEN 0 ELSE Min(blank)
    IN  [status |-> StatusOf(SubSeq(raw, 1, split - 1)),
         body |-> SubSeq(raw, split + 1, Len(raw))]

CrlfHeader(raw) == First(raw, "crlf") # 0 =>
    \A i \in 1 .. First(raw, "crlf") : raw[i] # "lf"

(* The client is given PHP's page, status and body, and nothing of its     *)
(* error output; what is collected never departs from what PHP wrote, and  *)
(* a page without its end is only given when some of it was lost on the    *)
(* way (the client is then not told).  The page's header ends in CRLF.     *)
AnswerIsPhps ==
    /\ IsPrefix(stdoutData, StdoutOf(output))
    /\ pc = "answered" /\ ~lost /\ CrlfHeader(StdoutOf(output))
       => answer = PageOf(StdoutOf(output))

(* A 502 is not made up: PHP was not reached or closed before it was sent  *)
(* everything, some of its answer was lost, it answered another request,   *)
(* or it wrote errors and no page.                                         *)
FailsForAReason ==
    pc = "failed" =>
        \/ sent < Len(Wire) \/ lost
        \/ \E i \in DOMAIN output : output[i].id # 1
        \/ StdoutOf(output) = <<>> /\ \E i \in DOMAIN output : IsError(output[i])

(* The worker comes back from every exchange in which PHP does not hang,   *)
(* unless both the request and the answer are too large for the connection *)
(* to hold: the worker does not read before it has written everything, and *)
(* a script that answers before it reads its input waits for the worker.   *)
ExchangeEnds == Len(Wire) <= UpCap \/ Len(output) <= DownCap => <>Ended
=============================================================================
