--------------------------- MODULE RequestHandling ---------------------------
(***************************************************************************)
(* What a worker does with one request: Server::handleClientStream, the    *)
(* protected endpoints, makeResponse and the streamed multipart upload of  *)
(* Multipart.cpp.                                                          *)
(*                                                                         *)
(* Handlers run concurrently and share the spool and the upload directory. *)
(* Files there are named after the microsecond of their creation, so two   *)
(* handlers that read the same clock value use one file: the model and the *)
(* code let that happen.  A clean file name is a model value, a body is    *)
(* its parts and how it ends, sizes are small numbers.  What the header    *)
(* says is HttpFraming's, which file a target is DocumentTree's; its       *)
(* .htaccess files may be edited while a request looks at them.  The       *)
(* decision of the token store is an input (see AuthRuntimeStore).         *)
(***************************************************************************)
EXTENDS HttpFraming, DocumentTree, FiniteSets

CONSTANTS
    Handlers,   \* tasks, of one request each
    Scenarios,  \* a request for each handler, the server's configuration and
                \* the .htaccess files there are at first, by directory
    RuleFiles,  \* what an operator may write to a .htaccess
    MaxRuleEdits, \* bound on the edits of a .htaccess file
    MayFail,    \* may a connection break, a disk be full, a descriptor be missing?
    MaxClock    \* bound on the clock, in microseconds

ASSUME RequestAssumption ==
    /\ IsFiniteSet(Handlers) /\ MayFail \in BOOLEAN /\ MaxClock \in Nat \ {0}
    /\ MaxRuleEdits \in Nat

Decisions == {"auth_missing", "auth_invalid", "auth_expired", "auth_scope_denied", "auth_allowed"}

(* What the parser says of a request line, what the token store decides,   *)
(* and a configuration without negative limits.                            *)
IsRequest(q) ==
    /\ q.first \in {200, 400, 405, 414, 431, 505} /\ q.token \in Decisions
    /\ \A i \in DOMAIN q.parts : LET part == q.parts[i] IN
         part.name \in {"index", "notes"} /\ part.size \in Nat /\ part.crs \in 0 .. part.size
    /\ q.parts \in Seq({q.parts[i] : i \in DOMAIN q.parts})
    /\ q.lines \in Seq({q.lines[i] : i \in DOMAIN q.lines})
    /\ \A i \in DOMAIN q.lines :
         LET text == q.lines[i].text
         IN  text = Empty \/ (text.is \in {"number", "word", "huge"} /\ text.n \in Nat)
    /\ q.sent \in 0 .. ContentLength(q.lines) /\ q.head \in Nat

ASSUME InputAssumption ==
    \A s \in Scenarios :
        /\ s.config.maxFile \in Nat /\ s.config.maxParts \in Nat
        /\ s.rules \in [DOMAIN s.rules -> {s.rules[dir] : dir \in DOMAIN s.rules}]
        /\ \A r \in Handlers : IsRequest(s.traffic[r])

(* No file is not a file.                                                  *)
ASSUME AbsentAssumption ==
    /\ Absent \notin [inode : Handlers, from : SUBSET Handlers]
    /\ Absent \notin [from : SUBSET (Handlers \X Nat), bytes : Nat]

VARIABLES
    config,     \* config_
    request,    \* what each handler's client sends
    clock,      \* system_clock
    htaccess,   \* the .htaccess files: history of their versions, the last in force
    pc,         \* where each handler is
    audits,     \* the audit events of each request, with their status
    answer,     \* each answer: its status and the files it names
    scripts,    \* history: the bytes of body each request's script was given
    spool,      \* upload_spool_directory: who wrote to each file, who made it
    uploads,    \* upload_directory: who wrote to each file, and what
    local,      \* local variables of the handler; from, to and unread are history
    shared,     \* history: a name was used for two files
    short       \* history: a write to one of the directories fell short

fileVars == <<spool, uploads, shared, short>>
vars == <<config, request, clock, htaccess, pc, audits, answer, scripts, local, fileVars>>

Names == {"index", "notes"}
Clocks == 1 .. MaxClock
NoAnswer == [status |-> 0, files |-> {}]
NoLocals == [name |-> Absent, inode |-> Absent, source |-> Absent, part |-> 1,
             stored |-> Absent, files |-> {}, status |-> 0,
             file |-> Absent, dir |-> 1, denied |-> FALSE,
             from |-> 0, to |-> 0, unread |-> {}]

Init ==
    /\ \E s \in Scenarios :
         config = s.config /\ request = s.traffic /\ htaccess = <<s.rules>>
    /\ clock = 1
    /\ pc = [r \in Handlers |-> "read"]
    /\ audits = [r \in Handlers |-> <<>>]
    /\ answer = [r \in Handlers |-> NoAnswer]
    /\ scripts = [r \in Handlers |-> Absent]
    /\ spool = [n \in Clocks |-> Absent]
    /\ uploads = [n \in Clocks \X Names |-> Absent]
    /\ local = [r \in Handlers |-> NoLocals]
    /\ shared = FALSE /\ short = FALSE

(* Only uploads look at the clock.                                         *)
Tick ==
    /\ clock < MaxClock /\ \E r \in Handlers : request[r].target = "upload"
    /\ clock' = clock + 1
    /\ UNCHANGED <<config, request, htaccess, pc, audits, answer, scripts, local, fileVars>>

(* The operator changes one .htaccess file.  Only while a handler reads    *)
(* them does that matter; Init has what was there before.  (A file that is *)
(* rewritten in place, and read half, is one with several versions.)       *)
EditRules ==
    /\ Len(htaccess) <= MaxRuleEdits /\ \E r \in Handlers : pc[r] \in {"rules", "rulefile"}
    /\ \E dir \in DOMAIN Last(htaccess), lines \in RuleFiles :
          /\ Last(htaccess)[dir] # lines
          /\ htaccess' = Append(htaccess, [Last(htaccess) EXCEPT ![dir] = lines])
    /\ UNCHANGED <<config, request, clock, pc, audits, answer, scripts, local, fileVars>>

-----------------------------------------------------------------------------
Length(q) == ContentLength(q.lines)

GoTo(r, to) == pc' = [pc EXCEPT ![r] = to]

Reply(r, status, files) ==
    /\ answer' = [answer EXCEPT ![r] = [status |-> status, files |-> files]]
    /\ GoTo(r, "answered")

(* An exception leaves handleClientStream: the connection is closed        *)
(* without an answer.                                                      *)
Throw(r) == GoTo(r, "lost") /\ UNCHANGED answer

(* readHeadersOnly and parseHeadersOnly, then the choice of the endpoint.  *)
(* A header that is too long or ends early is not answered.                *)
Read(r) ==
    LET q == request[r]
        status == HeaderStatus(q, config.maxHeaders, config.maxBody, FALSE)
    IN  /\ pc[r] = "read"
        /\ \/ (q.head > config.maxRequest \/ MayFail) /\ Throw(r)
           \/ q.head <= config.maxRequest /\ status # 200 /\ Reply(r, status, {})
           \/ /\ q.head <= config.maxRequest /\ status = 200
              /\ GoTo(r, IF q.target \in {"admin", "upload"} THEN q.target ELSE "serve")
              /\ UNCHANGED answer
        /\ UNCHANGED <<config, request, clock, htaccess, audits, scripts, local, fileVars>>

-----------------------------------------------------------------------------
(* authorizeEndpoint; without endpoint authentication everyone is allowed. *)
Decision(q) == IF config.auth THEN q.token ELSE "auth_allowed"

DecisionStatus(decision) ==
    FirstOf(<< <<decision \in {"auth_missing", "auth_invalid", "auth_expired"}, 401>>,
               <<decision = "auth_scope_denied", 403>> >>, 200)

(* Mutant: a token without the scope is refused before the audit. *)
RecordSilent(r, decision) ==
    audits' = [audits EXCEPT ![r] =
        IF decision = "auth_scope_denied" THEN @
        ELSE Append(@, [event |-> decision, status |-> DecisionStatus(decision)])]

(* auditEndpointEvent: every decision is recorded.                         *)
Record(r, decision) ==
    audits' = [audits EXCEPT ![r] =
        Append(@, [event |-> decision, status |-> DecisionStatus(decision)])]

(* What the endpoints refuse before they look at the token.                *)
EndpointStatus(q) ==
    IF q.target = "admin"
    THEN FirstOf(<< <<~config.admin, 404>>, <<q.method # "GET", 405>> >>, 200)
    ELSE FirstOf(<< <<~config.uploads, 404>>, <<q.method # "POST", 405>> >>, 200)

Admin(r) ==
    LET q == request[r] IN
    /\ pc[r] = "admin"
    /\ \/ /\ EndpointStatus(q) # 200
          /\ Reply(r, EndpointStatus(q), {})
          /\ UNCHANGED audits
       \/ /\ EndpointStatus(q) = 200
          /\ Record(r, Decision(q))
          /\ Reply(r, DecisionStatus(Decision(q)), {})
    /\ UNCHANGED <<config, request, clock, htaccess, scripts, local, fileVars>>

(* The checks that precede the spool file.                                 *)
UploadStatus(q) ==
    FirstOf(<< <<DecisionStatus(Decision(q)) # 200, DecisionStatus(Decision(q))>>,
               <<q.type = "none", 415>>,
               <<Length(q) = 0, 400>>,
               <<Length(q) > config.maxBody, 413>> >>, 200)

Upload(r) ==
    LET q == request[r] IN
    /\ pc[r] = "upload"
    /\ \/ /\ EndpointStatus(q) # 200
          /\ Reply(r, EndpointStatus(q), {})
          /\ UNCHANGED audits
       \/ /\ EndpointStatus(q) = 200
          /\ Record(r, Decision(q))
          /\ IF UploadStatus(q) # 200 THEN Reply(r, UploadStatus(q), {})
                                      ELSE GoTo(r, "spool") /\ UNCHANGED answer
    /\ UNCHANGED <<config, request, clock, htaccess, scripts, local, fileVars>>

-----------------------------------------------------------------------------
(* uniqueSpoolPath: unique only if no two calls read the same microsecond. *)
SpoolName == clock

(* The spool file.  An open handle is to the file it was made for: once    *)
(* that is removed, writes no longer reach the name.  The directory may be *)
(* impossible to create, or the file, whose name is then removed, be it    *)
(* another handler's.                                                      *)
UploadRest == UNCHANGED <<config, request, clock, htaccess, audits, scripts>>

SpoolOpen(r) ==
    /\ pc[r] = "spool"
    /\ \/ /\ spool' = [spool EXCEPT ![SpoolName] =
                IF @ = Absent THEN [inode |-> r, from |-> {}] ELSE [@ EXCEPT !.from = {}]]
          /\ shared' = (shared \/ spool[SpoolName] # Absent)
          /\ local' = [local EXCEPT ![r].name = SpoolName, ![r].inode = spool'[SpoolName].inode]
          /\ GoTo(r, "receive")
          /\ UNCHANGED answer
       \/ /\ MayFail
          /\ spool' \in {spool, [spool EXCEPT ![SpoolName] = Absent]}
          /\ shared' = (shared \/ spool' # spool)
          /\ Throw(r)
          /\ UNCHANGED local
    /\ UNCHANGED <<uploads, short>>
    /\ UploadRest

Mine(r) == spool[local[r].name] # Absent /\ spool[local[r].name].inode = local[r].inode

RemoveSpool(r) == spool' = [spool EXCEPT ![local[r].name] = Absent]

(* The whole body arrived.  A write that fails goes unnoticed here: what   *)
(* reached the file then lacks its end.                                    *)
ReceiveAll(r) ==
    /\ pc[r] = "receive" /\ request[r].sent = Length(request[r])
    /\ \/ /\ spool' = IF Mine(r) THEN [spool EXCEPT ![local[r].name].from = @ \cup {r}]
                                 ELSE spool
          /\ UNCHANGED short
       \/ /\ MayFail
          /\ short' = TRUE
          /\ UNCHANGED spool
    /\ GoTo(r, "parse")
    /\ UNCHANGED <<answer, local, uploads, shared>>
    /\ UploadRest

(* Mutant: the spool file stays when the client closed too early. *)
ReceiveLessKeepsSpool(r) ==
    /\ pc[r] = "receive" /\ request[r].sent < Length(request[r])
    /\ \/ Reply(r, 400, {}) /\ UNCHANGED spool
       \/ Throw(r) /\ RemoveSpool(r)
    /\ UNCHANGED <<local, uploads, shared, short>>
    /\ UploadRest

(* The client closed too early, or the connection failed.                  *)
ReceiveLess(r) ==
    /\ pc[r] = "receive" /\ request[r].sent < Length(request[r])
    /\ \/ Reply(r, 400, {})
       \/ Throw(r)
    /\ RemoveSpool(r)
    /\ UNCHANGED <<local, uploads, shared, short>>
    /\ UploadRest

-----------------------------------------------------------------------------
(* saveUploadsFromSpoolFile ends with this status.                         *)
ParseEnds(r, status) ==
    /\ local' = [local EXCEPT ![r].status = status]
    /\ GoTo(r, "cleanup")

(* The file may hold another handler's body, or a mixture: then it may     *)
(* fail at the first boundary or pass for either.                          *)
ParseBegin(r) ==
    LET n == local[r].name
        refusal == FirstOf(<< <<request[r].type # "multipart", 415>>,
                              <<config.maxParts = 0 \/ config.maxFile = 0, 500>>,
                              <<spool[n] = Absent, 500>> >>, 200)
    IN  /\ pc[r] = "parse"
        /\ \/ refusal # 200 /\ ParseEnds(r, refusal)
           \/ refusal = 200 /\ spool[n].from # {r} /\ ParseEnds(r, 400)
           \/ /\ refusal = 200
              /\ \E source \in spool[n].from : local' = [local EXCEPT ![r].source = source]
              /\ GoTo(r, "part")
        /\ UNCHANGED <<answer, fileVars>>
        /\ UploadRest

(* The upload directory cannot be created.                                 *)
ParseThrows(r) ==
    /\ pc[r] = "parse" /\ MayFail
    /\ RemoveSpool(r)
    /\ Throw(r)
    /\ UNCHANGED <<local, uploads, shared, short>>
    /\ UploadRest

Body(r) == request[local[r].source]
Part(r) == Body(r).parts[local[r].part]
LastPart(r) == local[r].part = Len(Body(r).parts)

(* After a part: the last boundary, the end of a body that lacks it, or    *)
(* another part (for a body that ends with a boundary, an empty one).      *)
AfterPart(r, files) ==
    IF LastPart(r) /\ Body(r).ends = "final"
    THEN /\ local' = [local EXCEPT ![r].status = 200, ![r].files = files]
         /\ GoTo(r, "cleanup")
    ELSE IF LastPart(r) /\ Body(r).ends = "cut"
    THEN ParseEnds(r, 400)
    ELSE /\ local' = [local EXCEPT ![r].part = @ + 1, ![r].files = files]
         /\ GoTo(r, "part")

(* uniquePrefix() and the name the client gave.                            *)
StoredName(r) == <<clock, Part(r).name>>

(* What is measured and stored of a part's size bytes: of the CR LF that   *)
(* ends a line getlineClean leaves LF, so that a content with crs of them  *)
(* gets shorter.  (Of a part without a boundary after it, size counts all  *)
(* but the last line, which is neither measured nor written.)              *)
StoredSize(part) == part.size - part.crs

(* The head of a part; the content of a field is only measured.            *)
PartBegin(r) ==
    LET i == local[r].part
        missing == i > Len(Body(r).parts)
        file == ~missing /\ Part(r).file
        field == ~missing /\ ~Part(r).file
        refusal == FirstOf(<< <<i > config.maxParts, 413>>,
                              <<missing, 400>>,
                              <<file /\ ~Part(r).safe, 415>>,
                              <<field /\ StoredSize(Part(r)) > config.maxField, 413>> >>, 200)
        stored == StoredName(r)
    IN  /\ pc[r] = "part"
        /\ \/ /\ refusal # 200
              /\ ParseEnds(r, refusal)
              /\ UNCHANGED <<uploads, shared>>
           \/ /\ refusal = 200 /\ field
              /\ AfterPart(r, local[r].files)
              /\ UNCHANGED <<uploads, shared>>
           \/ /\ refusal = 200 /\ file
              /\ uploads' = [uploads EXCEPT ![stored] = [from |-> {}, bytes |-> 0]]
              /\ shared' = (shared \/ uploads[stored] # Absent)
              /\ local' = [local EXCEPT ![r].stored = stored]
              /\ GoTo(r, "content")
           \/ /\ refusal = 200 /\ file /\ MayFail
              /\ ParseEnds(r, 500)
              /\ UNCHANGED <<uploads, shared>>
        /\ UNCHANGED <<answer, spool, short>>
        /\ UploadRest

(* bytes bytes of the part reach its file, or, if the disk is full, none:  *)
(* no write is checked.                                                    *)
Store(r, bytes) ==
    \/ /\ uploads' = [uploads EXCEPT ![local[r].stored] =
            [from |-> @.from \cup {<<local[r].source, local[r].part>>},
             bytes |-> Max({@.bytes, bytes})]]
       /\ UNCHANGED short
    \/ /\ MayFail
       /\ short' = TRUE
       /\ UNCHANGED uploads

(* Mutant: the limit is checked after the write. *)
PartContentChecksLate(r) ==
    /\ pc[r] = "content"
    /\ Store(r, StoredSize(Part(r)))
    /\ IF StoredSize(Part(r)) > config.maxFile THEN ParseEnds(r, 413)
       ELSE AfterPart(r, local[r].files \cup {[stored |-> local[r].stored,
                                               part |-> local[r].part]})
    /\ UNCHANGED <<answer, spool, shared>>
    /\ UploadRest

(* Mutant: a file over the limit is cut there, and the upload goes on. *)
PartContentCuts(r) ==
    /\ pc[r] = "content"
    /\ Store(r, Min({StoredSize(Part(r)), config.maxFile}))
    /\ AfterPart(r, local[r].files \cup {[stored |-> local[r].stored, part |-> local[r].part]})
    /\ UNCHANGED <<answer, spool, shared>>
    /\ UploadRest

(* The content of a file is written line by line.  A line that would take  *)
(* it over the limit ends the upload, and what was written before stays.   *)
PartContent(r) ==
    /\ pc[r] = "content"
    /\ IF StoredSize(Part(r)) > config.maxFile
       THEN /\ \E n \in 0 .. config.maxFile : Store(r, n)
            /\ ParseEnds(r, 413)
       ELSE /\ Store(r, StoredSize(Part(r)))
            /\ AfterPart(r, local[r].files \cup {[stored |-> local[r].stored,
                                                  part |-> local[r].part]})
    /\ UNCHANGED <<answer, spool, shared>>
    /\ UploadRest

(* The spool file is removed, then the answer is made.                     *)
Cleanup(r) ==
    /\ pc[r] = "cleanup"
    /\ RemoveSpool(r)
    /\ Reply(r, local[r].status, IF local[r].status = 200 THEN local[r].files ELSE {})
    /\ UNCHANGED <<local, uploads, shared, short>>
    /\ UploadRest

-----------------------------------------------------------------------------
(* completeRequestInMemory and makeResponse.  The sizes are those of the   *)
(* request as read: its header and as much of its body as arrived.         *)
SizeRead(q) == q.head + BodyRead(q.lines, q.sent)

(* Mutant: a body cut short is as good as a whole one. *)
StrictStatusLenient(q) == HeaderStatus(q, config.maxHeaders, config.maxBody, TRUE)

(* StrictHttpParser looks at the header again, and for the whole body.     *)
StrictStatus(q) ==
    LET status == HeaderStatus(q, config.maxHeaders, config.maxBody, TRUE)
    IN  IF status = 200 /\ BodyRead(q.lines, q.sent) < Length(q) THEN 400 ELSE status

(* The rules of makeResponse that precede the look at the file, in order.  *)
Refusal(q) ==
    FirstOf(<< <<SizeRead(q) > config.maxRequest, 400>>,
               <<StrictStatus(q) # 200, StrictStatus(q)>>,
               <<q.method \notin {"GET", "HEAD", "POST"}, 405>>,
               <<Length(q) > 0 /\ q.method # "POST", 413>>,
               <<~q.tls /\ config.forceHttps, 308>> >>, 200)

ServeRest == UNCHANGED <<config, request, clock, htaccess, audits, fileVars>>

(* A read that fails loses the request, and so does a look at the file     *)
(* system that fails, here or below: it throws.                            *)
Serve(r) ==
    LET q == request[r]
        root == selectDocumentRoot(q.host)
        file == Resolve(root, q.path)
    IN  /\ pc[r] = "serve"
        /\ \/ (q.sent < LengthToRead(q.lines) \/ MayFail) /\ Throw(r) /\ UNCHANGED local
           \/ Refusal(q) # 200 /\ Reply(r, Refusal(q), {}) /\ UNCHANGED local
           \/ /\ Refusal(q) = 200
              /\ local' = [local EXCEPT ![r].file = file, ![r].from = Len(htaccess)]
              /\ IF file = Absent \/ Forbidden(root, file, config) THEN Reply(r, 403, {})
                 ELSE /\ GoTo(r, IF config.htaccess /\ RuleDirs(root, file) # <<>> THEN "rules"
                                                                               ELSE "find")
                      /\ UNCHANGED answer
        /\ UNCHANGED scripts
        /\ ServeRest

(* Htaccess::evaluate: the directories of the file, and where it is.       *)
Dirs(r)  == RuleDirs(selectDocumentRoot(request[r].host), local[r].file)
Rules(r) == LinesIn(Last(htaccess), Dirs(r)[local[r].dir])

(* The round for a directory is over.                                      *)
NextDir(r, denied, unread) ==
    /\ local' = [local EXCEPT ![r].denied = denied, ![r].dir = @ + 1,
                              ![r].to = Len(htaccess), ![r].unread = unread]
    /\ IF local[r].dir = Len(Dirs(r)) /\ denied THEN Reply(r, 403, {})
       ELSE /\ GoTo(r, IF local[r].dir = Len(Dirs(r)) THEN "find" ELSE "rules")
            /\ UNCHANGED answer

(* Is there a .htaccess in the directory, and is it a file?                *)
LookForRules(r) ==
    /\ pc[r] = "rules"
    /\ \/ Rules(r) = Absent /\ NextDir(r, local[r].denied, local[r].unread)
       \/ Rules(r) # Absent /\ GoTo(r, "rulefile") /\ UNCHANGED <<answer, local>>
       \/ MayFail /\ Throw(r) /\ UNCHANGED local
    /\ UNCHANGED scripts
    /\ ServeRest

(* parseFile, some time after the look.  A file that is gone by now, or    *)
(* cannot be opened, is one that denies nothing.                           *)
ReadRules(r) ==
    /\ pc[r] = "rulefile"
    /\ \/ /\ Rules(r) # Absent
          /\ NextDir(r, AfterDir(local[r].denied, Rules(r)), local[r].unread)
       \/ /\ Rules(r) = Absent \/ MayFail
          /\ NextDir(r, FALSE, local[r].unread \cup {local[r].dir})
    /\ UNCHANGED scripts
    /\ ServeRest

(* The file.  A script's answer is PHP's or a 502 (see FastCgi), a page's  *)
(* comes from the cache (see StaticFileCache).                             *)
Find(r) ==
    LET q == request[r]
        place == Place(local[r].file)
        script == Last(local[r].file) \in Scripts
        refusal == FirstOf(<< <<place = Absent \/ Kind[place] # "file", 404>>,
                              <<script /\ ~config.php, 403>>,
                              <<~script /\ q.method = "POST", 405>> >>, 200)
    IN  /\ pc[r] = "find"
        /\ \/ refusal # 200 /\ Reply(r, refusal, {}) /\ UNCHANGED scripts
           \/ /\ refusal = 200 /\ script
              /\ \E status \in {200, 404, 502} : Reply(r, status, {})
              /\ scripts' = [scripts EXCEPT ![r] = BodyRead(q.lines, q.sent)]
           \/ /\ refusal = 200 /\ ~script
              /\ \E status \in {200, 304, 500} : Reply(r, status, {})
              /\ UNCHANGED scripts
           \/ MayFail /\ Throw(r) /\ UNCHANGED scripts
        /\ UNCHANGED local
        /\ ServeRest

-----------------------------------------------------------------------------
Ended(r) == pc[r] \in {"answered", "lost"}

Handle(r) ==
    \/ Read(r) \/ Admin(r) \/ Upload(r) \/ Serve(r) \/ LookForRules(r) \/ ReadRules(r)
    \/ Find(r) \/ SpoolOpen(r) \/ ReceiveAll(r) \/ ReceiveLess(r)
    \/ ParseBegin(r) \/ ParseThrows(r) \/ PartBegin(r) \/ PartContent(r) \/ Cleanup(r)

AllEnded == (\A r \in Handlers : Ended(r)) /\ UNCHANGED vars

Next == Tick \/ EditRules \/ AllEnded \/ \E r \in Handlers : Handle(r)

Spec == Init /\ [][Next]_vars

-----------------------------------------------------------------------------
(* "Added spool cleanup after successful or failed upload handling"        *)
(* (CHANGELOG.md:122): whichever way an upload ends, and although uploads  *)
(* may share a name, a file in the spool directory belongs to an upload    *)
(* that is under way.                                                      *)
SpoolRemoved ==
    \A n \in Clocks : spool[n] # Absent =>
        \E r \in Handlers : local[r].name = n /\ pc[r] \in {"receive", "parse", "part",
                                                           "content", "cleanup"}

(* The files a 200 names are those of this client's request, all of them,  *)
(* and each is in the upload directory when the answer is made and         *)
(* afterwards, whole but for the CR of its line ends; unless two files got *)
(* one name or a write fell short, which nothing in the code notices.      *)
AnswerNamesWholeFiles ==
    ~shared /\ ~short => \A r \in Handlers : answer[r].status = 200 /\ local[r].status = 200 =>
        /\ \A f \in answer[r].files :
             /\ uploads[f.stored].from = {<<r, f.part>>}
             /\ uploads[f.stored].bytes + request[r].parts[f.part].crs
                  = request[r].parts[f.part].size
        /\ {f.part : f \in answer[r].files}
             = {i \in 1 .. Len(request[r].parts) : request[r].parts[i].file}

(* No file in the upload directory is larger than max_upload_file_bytes,   *)
(* the remains of a refused upload included, and no upload with more parts *)
(* than max_multipart_parts is accepted.                                   *)
LimitsHold ==
    /\ \A n \in Clocks \X Names : uploads[n] # Absent => uploads[n].bytes <= config.maxFile
    /\ \A r \in Handlers : local[r].status = 200 => local[r].part <= config.maxParts

(* A protected endpoint leaves exactly one audit event for every request   *)
(* whose token it looked at, with the status the client sees if it was     *)
(* refused; and nothing is stored for a request without one that allows.   *)
AuditTrail ==
    \A r \in Handlers :
        /\ /\ request[r].target \in {"admin", "upload"}
           /\ answer[r].status \in {200, 401, 403}
           => Len(audits[r]) = 1 /\ audits[r][1].status = answer[r].status
        /\ Len(audits[r]) <= 1
        /\ local[r].name # Absent => audits[r][1].event = "auth_allowed"

(* A script never runs on a body that the client or the network cut short, *)
(* nor on one whose size the header's lines disagree about: the three      *)
(* places that read the length come to the same one, or it is refused.     *)
ScriptGetsWholeBody ==
    \A r \in Handlers : scripts[r] # Absent =>
        LET lines == request[r].lines
            texts == {lines[i].text : i \in OfKind(lines, "length")}
        IN  /\ texts = {} => scripts[r] = 0
            /\ \A t \in texts : IF t = Empty THEN scripts[r] = 0
                                            ELSE t.is = "number" /\ t.n = scripts[r]

(* What is served, as a page or by PHP, lies in the document root of the   *)
(* host that was asked for, wherever links and ".." lead, and none of its  *)
(* directories nor the file itself is hidden, nor is the file sensitive or *)
(* a .htaccess; unless it was reached by a link behind a name that is not  *)
(* there, whose own name the code looks at instead.                        *)
Served(r) == answer[r].status \in {200, 304} /\ local[r].file # Absent

OnlyPublicFiles ==
    \A r \in Handlers : Served(r) =>
        LET root   == selectDocumentRoot(request[r].host)
            top    == Canonical(root)
            place  == Place(local[r].file)
            within == SubSeq(place, Len(top) + 1, Len(place))
        IN  /\ place # Absent /\ Kind[place] = "file" /\ IsPrefix(top, place)
            /\ \A i \in DOMAIN within :
                 config.denyHidden /\ within[i] \in Hidden
                     => config.wellKnown /\ within[i] = ".well-known"
            /\ Withheld(Last(place), config)
                 => Place(Candidate(root, request[r].path)) = Absent

(* The directories on the way to a file that max_htaccess_depth reaches,   *)
(* by their depth; and the moments, as versions of the .htaccess files, at *)
(* which a handler may look at each: one after the other, outermost first, *)
(* or all at one moment, if no more than one edit fell into that time.  A  *)
(* .htaccess that it could not read was there when it looked.              *)
Reached(root, dir) == {n \in Len(root) .. Len(dir) : n > Len(dir) - Depth}

Unread(r) == {Len(Dirs(r)[i]) : i \in local[r].unread}

Moments(r) ==
    LET dir     == Directory(local[r].file)
        reached == Reached(Canonical(selectDocumentRoot(request[r].host)), dir)
        times   == local[r].from .. local[r].to
        seen    == IF local[r].to <= local[r].from + 1
                   THEN {[n \in reached |-> v] : v \in times}
                   ELSE {at \in [reached -> times] :
                           \A n, k \in reached : n < k => at[n] <= at[k]}
    IN  {at \in seen : \A n \in Unread(r) :
                          LinesIn(htaccess[at[n]], SubSeq(dir, 1, n)) # Absent}

(* The directory nearest to the file that has a .htaccess decides; one     *)
(* that could not be read denies nothing.                                  *)
DeniedAt(at, dir, unread) ==
    LET lines == [n \in DOMAIN at |-> LinesIn(htaccess[at[n]], SubSeq(dir, 1, n))]
    IN  \E n \in DOMAIN at : /\ lines[n] # Absent /\ n \notin unread /\ Denies(lines[n])
                             /\ \A k \in DOMAIN at : k > n => lines[k] = Absent

(* (A file is always in a directory; the proofs cannot see that.)          *)
IsPage(file) == /\ Place(file) # Absent /\ Kind[Place(file)] = "file"
                /\ IsDirectory(Place(Front(file))) /\ Last(file) \notin Scripts

(* A page is served, or refused for its rules, as the rules say that are   *)
(* in the directories on its path, each as it was at some moment while the *)
(* handler looked, and in the order in which it looks; with one edit at    *)
(* most in that time, as all the rules say that were in force at one       *)
(* moment.  (With two edits, a rule that is moved from one file to another *)
(* may be missed.)  A .htaccess that was there and then could not be read  *)
(* counts as one that grants.                                              *)
RulesDecide ==
    \A r \in Handlers : local[r].to > 0 /\ IsPage(local[r].file) =>
        LET dir == Directory(local[r].file)
        IN  /\ Served(r) => \E at \in Moments(r) : ~DeniedAt(at, dir, Unread(r))
            /\ answer[r].status = 403 => \E at \in Moments(r) : DeniedAt(at, dir, Unread(r))
=============================================================================
