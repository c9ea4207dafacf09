------------------------ MODULE RequestHandlingProofs ------------------------
(***************************************************************************)
(* Proofs about RequestHandling, for any number of handlers, any requests, *)
(* configurations, documents and .htaccess files.                          *)
(*                                                                         *)
(* First what FirstOf does with lists of two to five rules.  Then the      *)
(* invariant of all the handlers, RequestInv: where a handler is tells     *)
(* what its request is (RouteInv), which audit event it left (AuditInv)    *)
(* and what its upload did so far (UploadInv); and every spool file has an *)
(* upload.  One lemma for each action shows that it is inductive.  Last    *)
(* AllServedInv, the invariant of the way to a served file, which rests on *)
(* it and on what the lines of an accepted header have in common;          *)
(* WholeInv, that keeps the uploads apart while no name is used twice; and *)
(* RulesInv, what the looks at the .htaccess files of a path have seen.    *)
(***************************************************************************)
EXTENDS RequestHandling, FiniteSetTheorems, SequenceTheorems, WellFoundedInduction, TLAPS

(* The least of some numbers is the one that is no greater than the rest.  *)
LEMMA LeastIndex ==
    ASSUME NEW I, I \subseteq Nat, NEW m \in I, \A i \in I : m <= i
    PROVE  Min(I) = m
<1>1. Min(I) \in I /\ \A i \in I : Min(I) <= i
  BY DEF Min
<1>2. m <= Min(I) /\ Min(I) <= m /\ m \in Nat /\ Min(I) \in Nat
  BY <1>1
<1> QED
  BY <1>2

(* The first rule that applies decides.                                    *)
LEMMA FirstApplies ==
    ASSUME NEW rules, NEW o, NEW n \in Nat, Len(rules) = n, NEW i \in 1 .. n, rules[i][1],
           \A j \in 1 .. n : j < i => ~rules[j][1]
    PROVE  FirstOf(rules, o) = rules[i][2]
<1> DEFINE applying == {j \in 1 .. Len(rules) : rules[j][1]}
<1>1. i \in applying /\ applying \subseteq Nat
  OBVIOUS
<1>2. \A j \in applying : i <= j
  OBVIOUS
<1>3. FirstOf(rules, o) = IF applying = {} THEN o ELSE rules[Min(applying)][2]
  BY DEF FirstOf
<1> HIDE DEF applying
<1>4. Min(applying) = i
  BY <1>1, <1>2, LeastIndex
<1> QED
  BY <1>1, <1>3, <1>4

(* Without such a rule, the other value is taken.                          *)
LEMMA NoneApplies ==
    ASSUME NEW rules, NEW o, NEW n \in Nat, Len(rules) = n, \A j \in 1 .. n : ~rules[j][1]
    PROVE  FirstOf(rules, o) = o
BY DEF FirstOf

(* The tables of the model, as nested conditions.                          *)
LEMMA First2 ==
    ASSUME NEW a, NEW b, NEW u, NEW v, NEW o
    PROVE  FirstOf(<< <<a, u>>, <<b, v>> >>, o)
             = IF a THEN u ELSE IF b THEN v ELSE o
<1> DEFINE rules == << <<a, u>>, <<b, v>> >>
<1>1. Len(rules) = 2 /\ 2 \in Nat
  OBVIOUS
<1>2. rules[1][2] = u /\ rules[2][2] = v
  OBVIOUS
<1>3. (rules[1][1] <=> a) /\ (rules[2][1] <=> b)
  OBVIOUS
<1> HIDE DEF rules
<1>4. CASE a
  <2>1. 1 \in 1 .. 2 /\ \A j \in 1 .. 2 : j < 1 => j \in {}
    OBVIOUS
  <2>2. rules[1][1] /\ \A j \in 1 .. 2 : j < 1 => ~rules[j][1]
    BY <1>3, <1>4, <2>1
  <2>3. FirstOf(rules, o) = rules[1][2]
    <3>1. 1 \in 1 .. 2
      OBVIOUS
    <3> QED
      BY <1>1, <2>2, <3>1, FirstApplies
  <2> QED
    BY <1>2, <1>4, <2>3 DEF rules
<1>5. CASE ~a /\ b
  <2>1. 2 \in 1 .. 2 /\ \A j \in 1 .. 2 : j < 2 => j \in {1}
    OBVIOUS
  <2>2. rules[2][1] /\ \A j \in 1 .. 2 : j < 2 => ~rules[j][1]
    BY <1>3, <1>5, <2>1
  <2>3. FirstOf(rules, o) = rules[2][2]
    <3>1. 2 \in 1 .. 2
      OBVIOUS
    <3> QED
      BY <1>1, <2>2, <3>1, FirstApplies
  <2> QED
    BY <1>2, <1>5, <2>3 DEF rules
<1>6. CASE ~a /\ ~b
  <2>1. \A j \in 1 .. 2 : j \in {1, 2}
    OBVIOUS
  <2>3. \A j \in 1 .. 2 : ~rules[j][1]
    BY <1>3, <1>6, <2>1
  <2>2. FirstOf(rules, o) = o
    BY <1>1, <2>3, NoneApplies
  <2> QED
    BY <1>6, <2>2 DEF rules
<1> QED
  BY <1>4, <1>5, <1>6

LEMMA First3 ==
    ASSUME NEW a, NEW b, NEW c, NEW u, NEW v, NEW w, NEW o
    PROVE  FirstOf(<< <<a, u>>, <<b, v>>, <<c, w>> >>, o)
             = IF a THEN u ELSE IF b THEN v ELSE IF c THEN w ELSE o
<1> DEFINE rules == << <<a, u>>, <<b, v>>, <<c, w>> >>
<1>1. Len(rules) = 3 /\ 3 \in Nat
  OBVIOUS
<1>2. rules[1][2] = u /\ rules[2][2] = v /\ rules[3][2] = w
  OBVIOUS
<1>3. (rules[1][1] <=> a) /\ (rules[2][1] <=> b) /\ (rules[3][1] <=> c)
  OBVIOUS
<1> HIDE DEF rules
<1>4. CASE a
  <2>1. 1 \in 1 .. 3 /\ \A j \in 1 .. 3 : j < 1 => j \in {}
    OBVIOUS
  <2>2. rules[1][1] /\ \A j \in 1 .. 3 : j < 1 => ~rules[j][1]
    BY <1>3, <1>4, <2>1
  <2>3. FirstOf(rules, o) = rules[1][2]
    <3>1. 1 \in 1 .. 3
      OBVIOUS
    <3> QED
      BY <1>1, <2>2, <3>1, FirstApplies
  <2> QED
    BY <1>2, <1>4, <2>3 DEF rules
<1>5. CASE ~a /\ b
  <2>1. 2 \in 1 .. 3 /\ \A j \in 1 .. 3 : j < 2 => j \in {1}
    OBVIOUS
  <2>2. rules[2][1] /\ \A j \in 1 .. 3 : j < 2 => ~rules[j][1]
    BY <1>3, <1>5, <2>1
  <2>3. FirstOf(rules, o) = rules[2][2]
    <3>1. 2 \in 1 .. 3
      OBVIOUS
    <3> QED
      BY <1>1, <2>2, <3>1, FirstApplies
  <2> QED
    BY <1>2, <1>5, <2>3 DEF rules
<1>6. CASE ~a /\ ~b /\ c
  <2>1. 3 \in 1 .. 3 /\ \A j \in 1 .. 3 : j < 3 => j \in {1, 2}
    OBVIOUS
  <2>2. rules[3][1] /\ \A j \in 1 .. 3 : j < 3 => ~rules[j][1]
    BY <1>3, <1>6, <2>1
  <2>3. FirstOf(rules, o) = rules[3][2]
    <3>1. 3 \in 1 .. 3
      OBVIOUS
    <3> QED
      BY <1>1, <2>2, <3>1, FirstApplies
  <2> QED
    BY <1>2, <1>6, <2>3 DEF rules
<1>7. CASE ~a /\ ~b /\ ~c
  <2>1. \A j \in 1 .. 3 : j \in {1, 2, 3}
    OBVIOUS
  <2>3. \A j \in 1 .. 3 : ~rules[j][1]
    BY <1>3, <1>7, <2>1
  <2>2. FirstOf(rules, o) = o
    BY <1>1, <2>3, NoneApplies
  <2> QED
    BY <1>7, <2>2 DEF rules
<1> QED
  BY <1>4, <1>5, <1>6, <1>7

LEMMA First4 ==
    ASSUME NEW a, NEW b, NEW c, NEW d, NEW u, NEW v, NEW w, NEW x, NEW o
    PROVE  FirstOf(<< <<a, u>>, <<b, v>>, <<c, w>>, <<d, x>> >>, o)
             = IF a THEN u ELSE IF b THEN v ELSE IF c THEN w ELSE IF d THEN x ELSE o
<1> DEFINE rules == << <<a, u>>, <<b, v>>, <<c, w>>, <<d, x>> >>
<1>1. Len(rules) = 4 /\ 4 \in Nat
  OBVIOUS
<1>2. rules[1][2] = u /\ rules[2][2] = v /\ rules[3][2] = w /\ rules[4][2] = x
  OBVIOUS
<1>3. (rules[1][1] <=> a) /\ (rules[2][1] <=> b) /\ (rules[3][1] <=> c) /\ (rules[4][1] <=> d)
  OBVIOUS
<1> HIDE DEF rules
<1>4. CASE a
  <2>1. 1 \in 1 .. 4 /\ \A j \in 1 .. 4 : j < 1 => j \in {}
    OBVIOUS
  <2>2. rules[1][1] /\ \A j \in 1 .. 4 : j < 1 => ~rules[j][1]
    BY <1>3, <1>4, <2>1
  <2>3. FirstOf(rules, o) = rules[1][2]
    <3>1. 1 \in 1 .. 4
      OBVIOUS
    <3> QED
      BY <1>1, <2>2, <3>1, FirstApplies
  <2> QED
    BY <1>2, <1>4, <2>3 DEF rules
<1>5. CASE ~a /\ b
  <2>1. 2 \in 1 .. 4 /\ \A j \in 1 .. 4 : j < 2 => j \in {1}
    OBVIOUS
  <2>2. rules[2][1] /\ \A j \in 1 .. 4 : j < 2 => ~rules[j][1]
    BY <1>3, <1>5, <2>1
  <2>3. FirstOf(rules, o) = rules[2][2]
    <3>1. 2 \in 1 .. 4
      OBVIOUS
    <3> QED
      BY <1>1, <2>2, <3>1, FirstApplies
  <2> QED
    BY <1>2, <1>5, <2>3 DEF rules
<1>6. CASE ~a /\ ~b /\ c
  <2>1. 3 \in 1 .. 4 /\ \A j \in 1 .. 4 : j < 3 => j \in {1, 2}
    OBVIOUS
  <2>2. rules[3][1] /\ \A j \in 1 .. 4 : j < 3 => ~rules[j][1]
    BY <1>3, <1>6, <2>1
  <2>3. FirstOf(rules, o) = rules[3][2]
    <3>1. 3 \in 1 .. 4
      OBVIOUS
    <3> QED
      BY <1>1, <2>2, <3>1, FirstApplies
  <2> QED
    BY <1>2, <1>6, <2>3 DEF rules
<1>7. CASE ~a /\ ~b /\ ~c /\ d
  <2>1. 4 \in 1 .. 4 /\ \A j \in 1 .. 4 : j < 4 => j \in {1, 2, 3}
    OBVIOUS
  <2>2. rules[4][1] /\ \A j \in 1 .. 4 : j < 4 => ~rules[j][1]
    BY <1>3, <1>7, <2>1
  <2>3. FirstOf(rules, o) = rules[4][2]
    <3>1. 4 \in 1 .. 4
      OBVIOUS
    <3> QED
      BY <1>1, <2>2, <3>1, FirstApplies
  <2> QED
    BY <1>2, <1>7, <2>3 DEF rules
<1>8. CASE ~a /\ ~b /\ ~c /\ ~d
  <2>1. \A j \in 1 .. 4 : j \in {1, 2, 3, 4}
    OBVIOUS
  <2>3. \A j \in 1 .. 4 : ~rules[j][1]
    BY <1>3, <1>8, <2>1
  <2>2. FirstOf(rules, o) = o
    BY <1>1, <2>3, NoneApplies
  <2> QED
    BY <1>8, <2>2 DEF rules
<1> QED
  BY <1>4, <1>5, <1>6, <1>7, <1>8

LEMMA First5 ==
    ASSUME NEW a, NEW b, NEW c, NEW d, NEW e, NEW u, NEW v, NEW w, NEW x, NEW y, NEW o
    PROVE  FirstOf(<< <<a, u>>, <<b, v>>, <<c, w>>, <<d, x>>, <<e, y>> >>, o)
             = IF a THEN u ELSE IF b THEN v ELSE IF c THEN w ELSE IF d THEN x ELSE IF e THEN y ELSE o
<1> DEFINE rules == << <<a, u>>, <<b, v>>, <<c, w>>, <<d, x>>, <<e, y>> >>
<1>1. Len(rules) = 5 /\ 5 \in Nat
  OBVIOUS
<1>2. rules[1][2] = u /\ rules[2][2] = v /\ rules[3][2] = w /\ rules[4][2] = x /\ rules[5][2] = y
  OBVIOUS
<1>3. (rules[1][1] <=> a) /\ (rules[2][1] <=> b) /\ (rules[3][1] <=> c) /\ (rules[4][1] <=> d) /\ (rules[5][1] <=> e)
  OBVIOUS
<1> HIDE DEF rules
<1>4. CASE a
  <2>1. 1 \in 1 .. 5 /\ \A j \in 1 .. 5 : j < 1 => j \in {}
    OBVIOUS
  <2>2. rules[1][1] /\ \A j \in 1 .. 5 : j < 1 => ~rules[j][1]
    BY <1>3, <1>4, <2>1
  <2>3. FirstOf(rules, o) = rules[1][2]
    <3>1. 1 \in 1 .. 5
      OBVIOUS
    <3> QED
      BY <1>1, <2>2, <3>1, FirstApplies
  <2> QED
    BY <1>2, <1>4, <2>3 DEF rules
<1>5. CASE ~a /\ b
  <2>1. 2 \in 1 .. 5 /\ \A j \in 1 .. 5 : j < 2 => j \in {1}
    OBVIOUS
  <2>2. rules[2][1] /\ \A j \in 1 .. 5 : j < 2 => ~rules[j][1]
    BY <1>3, <1>5, <2>1
  <2>3. FirstOf(rules, o) = rules[2][2]
    <3>1. 2 \in 1 .. 5
      OBVIOUS
    <3> QED
      BY <1>1, <2>2, <3>1, FirstApplies
  <2> QED
    BY <1>2, <1>5, <2>3 DEF rules
<1>6. CASE ~a /\ ~b /\ c
  <2>1. 3 \in 1 .. 5 /\ \A j \in 1 .. 5 : j < 3 => j \in {1, 2}
    OBVIOUS
  <2>2. rules[3][1] /\ \A j \in 1 .. 5 : j < 3 => ~rules[j][1]
    BY <1>3, <1>6, <2>1
  <2>3. FirstOf(rules, o) = rules[3][2]
    <3>1. 3 \in 1 .. 5
      OBVIOUS
    <3> QED
      BY <1>1, <2>2, <3>1, FirstApplies
  <2> QED
    BY <1>2, <1>6, <2>3 DEF rules
<1>7. CASE ~a /\ ~b /\ ~c /\ d
  <2>1. 4 \in 1 .. 5 /\ \A j \in 1 .. 5 : j < 4 => j \in {1, 2, 3}
    OBVIOUS
  <2>2. rules[4][1] /\ \A j \in 1 .. 5 : j < 4 => ~rules[j][1]
    BY <1>3, <1>7, <2>1
  <2>3. FirstOf(rules, o) = rules[4][2]
    <3>1. 4 \in 1 .. 5
      OBVIOUS
    <3> QED
      BY <1>1, <2>2, <3>1, FirstApplies
  <2> QED
    BY <1>2, <1>7, <2>3 DEF rules
<1>8. CASE ~a /\ ~b /\ ~c /\ ~d /\ e
  <2>1. 5 \in 1 .. 5 /\ \A j \in 1 .. 5 : j < 5 => j \in {1, 2, 3, 4}
    OBVIOUS
  <2>2. rules[5][1] /\ \A j \in 1 .. 5 : j < 5 => ~rules[j][1]
    BY <1>3, <1>8, <2>1
  <2>3. FirstOf(rules, o) = rules[5][2]
    <3>1. 5 \in 1 .. 5
      OBVIOUS
    <3> QED
      BY <1>1, <2>2, <3>1, FirstApplies
  <2> QED
    BY <1>2, <1>8, <2>3 DEF rules
<1>9. CASE ~a /\ ~b /\ ~c /\ ~d /\ ~e
  <2>1. \A j \in 1 .. 5 : j \in {1, 2, 3, 4, 5}
    OBVIOUS
  <2>3. \A j \in 1 .. 5 : ~rules[j][1]
    BY <1>3, <1>9, <2>1
  <2>2. FirstOf(rules, o) = o
    BY <1>1, <2>3, NoneApplies
  <2> QED
    BY <1>9, <2>2 DEF rules
<1> QED
  BY <1>4, <1>5, <1>6, <1>7, <1>8, <1>9

-----------------------------------------------------------------------------
Points == {"read", "admin", "upload", "serve", "rules", "rulefile", "find", "spool", "receive",
           "parse", "part", "content", "cleanup", "answered", "lost"}
Pages == {"serve", "rules", "rulefile", "find"}
Uploading == {"receive", "parse", "part", "content", "cleanup"}

StoredNames == Clocks \X Names
StoredFiles == SUBSET [stored : StoredNames, part : Nat]
Pieces == SUBSET (Handlers \X Nat)

Targets == {Absent} \cup {Resolve(selectDocumentRoot(s.traffic[r].host), s.traffic[r].path) :
                             s \in Scenarios, r \in Handlers}

Locals ==
    [name : Clocks \cup {Absent}, inode : Handlers \cup {Absent}, source : Handlers \cup {Absent},
     part : Nat, stored : StoredNames \cup {Absent}, files : StoredFiles, status : Nat,
     file : Targets, dir : Nat, denied : BOOLEAN, from : Nat, to : Nat,
     unread : SUBSET Nat]

Events == [event : Decisions, status : {200, 401, 403}]
Allowed == [event |-> "auth_allowed", status |-> 200]
Spooled == [inode : Handlers, from : SUBSET Handlers]
Written == [from : Pieces, bytes : 0 .. config.maxFile]

RuleSets == UNION {[DOMAIN s.rules -> RuleFiles \cup {s.rules[dir] : dir \in DOMAIN s.rules}] :
                      s \in Scenarios}

(* Configuration and requests are given; the rest keeps its type.          *)
Given == \E s \in Scenarios : config = s.config /\ request = s.traffic

Types ==
    /\ Given
    /\ clock \in Clocks /\ htaccess \in Seq(RuleSets) /\ htaccess # <<>>
    /\ pc \in [Handlers -> Points]
    /\ audits \in [Handlers -> Seq(Events)]
    /\ answer = [r \in Handlers |-> answer[r]]
    /\ spool \in [Clocks -> Spooled \cup {Absent}]
    /\ uploads \in [StoredNames -> Written \cup {Absent}]
    /\ local \in [Handlers -> Locals]

(* A handler's way follows its request's target, and leaves one event.     *)
RouteInv(r) ==
    /\ pc[r] = "admin" => request[r].target = "admin"
    /\ pc[r] = "upload" => request[r].target = "upload"
    /\ pc[r] \in Pages => request[r].target \notin {"admin", "upload"}

AuditInv(r) ==
    /\ pc[r] \in {"read", "admin", "upload"} \cup Pages => audits[r] = <<>> /\ local[r].name = Absent
    /\ pc[r] \in {"spool"} \cup Uploading => audits[r] = <<Allowed>>
    /\ local[r].name # Absent => audits[r] = <<Allowed>>
    /\ pc[r] # "answered" => answer[r].status = 0
    /\ Len(audits[r]) <= 1
    /\ request[r].target \in {"admin", "upload"} /\ answer[r].status \in {200, 401, 403}
         => Len(audits[r]) = 1 /\ audits[r][1].status = answer[r].status

(* Where an upload is, and the limits checked on the way.                  *)
UploadInv(r) ==
    /\ pc[r] \in Uploading => local[r].name \in Clocks
    /\ pc[r] \in {"part", "content"} => local[r].source \in Handlers
    /\ pc[r] = "content" =>
         /\ local[r].part \in 1 .. Len(Body(r).parts) /\ local[r].part <= config.maxParts
         /\ local[r].stored \in StoredNames /\ uploads[local[r].stored] \in Written
    /\ local[r].part >= 1
    /\ pc[r] \notin {"cleanup", "answered"} => local[r].status = 0
    /\ pc[r] = "cleanup" => local[r].status \in {200, 400, 413, 415, 500}
    /\ local[r].status = 200 => local[r].part <= config.maxParts

HandlerInv(r) == RouteInv(r) /\ AuditInv(r) /\ UploadInv(r)

RequestInv == Types /\ SpoolRemoved /\ \A r \in Handlers : HandlerInv(r)

-----------------------------------------------------------------------------
(* What the assumptions say of the requests and the configuration.         *)
LEMMA LinesGiven ==
    ASSUME Given, NEW r \in Handlers
    PROVE  request[r].first \in {200, 400, 405, 414, 431, 505} /\ request[r].token \in Decisions
<1>1. IsRequest(request[r])
  BY InputAssumption DEF Given
<1> QED
  BY <1>1 DEF IsRequest

LEMMA TargetsGiven ==
    ASSUME Given, NEW r \in Handlers
    PROVE  Resolve(selectDocumentRoot(request[r].host), request[r].path) \in Targets
<1>1. PICK s \in Scenarios : request = s.traffic
  BY DEF Given
<1> QED
  BY <1>1 DEF Targets

LEMMA PartsGiven ==
    ASSUME Given, NEW s \in Handlers
    PROVE  /\ config.maxFile \in Nat /\ config.maxParts \in Nat /\ Len(request[s].parts) \in Nat
           /\ \A j \in 1 .. Len(request[s].parts) :
                /\ request[s].parts[j].size \in Nat /\ request[s].parts[j].name \in Names
                /\ request[s].parts[j].crs \in 0 .. request[s].parts[j].size
                /\ StoredSize(request[s].parts[j]) \in Nat
<1> DEFINE parts == request[s].parts
<1>1. config.maxFile \in Nat /\ config.maxParts \in Nat /\ IsRequest(request[s])
  BY InputAssumption DEF Given
<1>2. /\ parts \in Seq({parts[i] : i \in DOMAIN parts})
      /\ \A i \in DOMAIN parts : /\ parts[i].size \in Nat /\ parts[i].name \in Names
                                /\ parts[i].crs \in 0 .. parts[i].size
  BY <1>1 DEF IsRequest, Names
<1> HIDE DEF parts
<1>3. Len(parts) \in Nat /\ DOMAIN parts = 1 .. Len(parts)
  BY <1>2
<1>4. \A j \in 1 .. Len(parts) : /\ parts[j].size \in Nat /\ parts[j].name \in Names
                                /\ parts[j].crs \in 0 .. parts[j].size
  BY <1>2, <1>3
<1>5. \A j \in 1 .. Len(parts) : StoredSize(parts[j]) \in Nat
  BY <1>4 DEF StoredSize
<1> QED
  BY <1>1, <1>3, <1>4, <1>5 DEF parts

LEMMA InvInit == Init => RequestInv
<1> SUFFICES ASSUME Init PROVE RequestInv
  OBVIOUS
<1>1. PICK s \in Scenarios : config = s.config /\ request = s.traffic /\ htaccess = <<s.rules>>
  BY DEF Init
<1>2. Given
  BY <1>1 DEF Given
<1>3. clock \in Clocks
  BY RequestAssumption DEF Init, Clocks
<1>4. htaccess \in Seq(RuleSets) /\ htaccess # <<>>
  <2>1. s.rules \in [DOMAIN s.rules -> RuleFiles \cup {s.rules[dir] : dir \in DOMAIN s.rules}]
    BY InputAssumption
  <2>2. s.rules \in RuleSets
    BY <2>1 DEF RuleSets
  <2> QED
    BY <1>1, <2>2
<1>5. NoLocals \in Locals
  <2>1. {} \in StoredFiles
    BY DEF StoredFiles
  <2>2. Absent \in Targets
    BY DEF Targets
  <2> QED
    BY <2>1, <2>2 DEF NoLocals, Locals
<1>6. answer = [r \in Handlers |-> answer[r]]
  BY DEF Init
<1>7. Types
  <2>1. pc \in [Handlers -> Points] /\ audits \in [Handlers -> Seq(Events)]
    BY DEF Init, Points
  <2>2. /\ spool \in [Clocks -> Spooled \cup {Absent}]
        /\ uploads \in [StoredNames -> Written \cup {Absent}]
    BY DEF Init, StoredNames
  <2> QED
    BY <1>2, <1>3, <1>4, <1>5, <1>6, <2>1, <2>2 DEF Init, Types
<1>8. SpoolRemoved
  BY DEF Init, SpoolRemoved
<1>9. ASSUME NEW r \in Handlers PROVE HandlerInv(r)
  <2>1. /\ pc[r] = "read" /\ audits[r] = <<>> /\ Len(audits[r]) = 0 /\ answer[r].status = 0
        /\ local[r].name = Absent /\ local[r].status = 0 /\ local[r].part = 1
    BY DEF Init, NoAnswer, NoLocals
  <2> QED
    BY <2>1 DEF HandlerInv, RouteInv, AuditInv, UploadInv, Pages, Uploading
<1> QED
  BY <1>7, <1>8, <1>9 DEF RequestInv

-----------------------------------------------------------------------------
(* What a handler's step leaves to the others.                             *)
OthersKept(r) ==
    /\ config' = config /\ request' = request
    /\ \A h \in Handlers \ {r} : /\ pc'[h] = pc[h] /\ audits'[h] = audits[h]
                                 /\ answer'[h] = answer[h] /\ local'[h] = local[h]

UploadsStay == \A n \in StoredNames : uploads[n] \in Written => uploads'[n] \in Written

LEMMA Frame ==
    ASSUME RequestInv, NEW r \in Handlers, OthersKept(r), UploadsStay, HandlerInv(r)'
    PROVE  \A h \in Handlers : HandlerInv(h)'
<1> SUFFICES ASSUME NEW h \in Handlers, h # r PROVE HandlerInv(h)'
  OBVIOUS
<1>1. /\ config' = config /\ request' = request
      /\ pc'[h] = pc[h] /\ audits'[h] = audits[h] /\ answer'[h] = answer[h] /\ local'[h] = local[h]
  BY DEF OthersKept
<1>2. RouteInv(h) /\ AuditInv(h) /\ UploadInv(h)
  BY DEF RequestInv, HandlerInv
<1>3. Body(h)' = Body(h) /\ Written' = Written
  BY <1>1 DEF Body, Written
<1>4. RouteInv(h)' /\ AuditInv(h)'
  BY <1>1, <1>2 DEF RouteInv, AuditInv
<1>5. UploadInv(h)'
  BY <1>1, <1>2, <1>3 DEF UploadInv, UploadsStay
<1> QED
  BY <1>4, <1>5 DEF HandlerInv

(* A step that makes no spool file, and does not end an upload.            *)
LEMMA SpoolStays ==
    ASSUME RequestInv, NEW r \in Handlers, OthersKept(r),
           \A n \in Clocks : spool'[n] # Absent => spool[n] # Absent,
           pc[r] \in Uploading => pc'[r] \in Uploading /\ local'[r].name = local[r].name
    PROVE  SpoolRemoved'
<1> SUFFICES ASSUME NEW n \in Clocks, spool'[n] # Absent
             PROVE  \E h \in Handlers : local'[h].name = n /\ pc'[h] \in Uploading
  BY DEF SpoolRemoved, Uploading
<1>1. PICK h \in Handlers : local[h].name = n /\ pc[h] \in Uploading
  BY DEF RequestInv, SpoolRemoved, Uploading
<1> QED
  BY <1>1 DEF OthersKept

(* An upload ends with the removal of the file of its name.                *)
LEMMA SpoolGoes ==
    ASSUME RequestInv, NEW r \in Handlers, OthersKept(r), RemoveSpool(r), pc[r] \in Uploading
    PROVE  SpoolRemoved' /\ spool' \in [Clocks -> Spooled \cup {Absent}]
<1>1. local[r].name \in Clocks /\ spool \in [Clocks -> Spooled \cup {Absent}]
  BY DEF RequestInv, HandlerInv, UploadInv, Types
<1>2. spool' = [spool EXCEPT ![local[r].name] = Absent]
  BY DEF RemoveSpool
<1>3. ASSUME NEW n \in Clocks, spool'[n] # Absent
      PROVE  \E h \in Handlers : local'[h].name = n /\ pc'[h] \in Uploading
  <2>1. n # local[r].name /\ spool[n] # Absent
    BY <1>1, <1>2, <1>3
  <2>2. PICK h \in Handlers : local[h].name = n /\ pc[h] \in Uploading
    BY <2>1 DEF RequestInv, SpoolRemoved, Uploading
  <2> QED
    BY <2>1, <2>2 DEF OthersKept
<1>4. SpoolRemoved'
  BY <1>3 DEF SpoolRemoved, Uploading
<1> QED
  BY <1>1, <1>2, <1>4

LEMMA Goes ==
    ASSUME Types, NEW r \in Handlers, NEW to \in Points, GoTo(r, to)
    PROVE  /\ pc' \in [Handlers -> Points] /\ pc'[r] = to
           /\ \A h \in Handlers \ {r} : pc'[h] = pc[h]
BY DEF Types, GoTo

LEMMA Replies ==
    ASSUME Types, NEW r \in Handlers, NEW status, NEW files, Reply(r, status, files)
    PROVE  /\ pc' \in [Handlers -> Points] /\ pc'[r] = "answered"
           /\ answer' = [h \in Handlers |-> answer'[h]]
           /\ answer'[r].status = status /\ answer'[r].files = files
           /\ \A h \in Handlers \ {r} : pc'[h] = pc[h] /\ answer'[h] = answer[h]
<1>1. GoTo(r, "answered") /\ "answered" \in Points
  BY DEF Reply, Points
<1>2. answer = [h \in Handlers |-> answer[h]]
  BY DEF Types
<1>3. answer' = [answer EXCEPT ![r] = [status |-> status, files |-> files]]
  BY DEF Reply
<1>4. /\ answer'[r] = [status |-> status, files |-> files]
      /\ answer' = [h \in Handlers |-> answer'[h]]
      /\ \A h \in Handlers \ {r} : answer'[h] = answer[h]
  BY <1>2, <1>3
<1> QED
  BY <1>1, <1>4, Goes

(* Config and requests are given for good.                                 *)
LEMMA StillGiven == Given /\ config' = config /\ request' = request => Given'
BY DEF Given

(* The parsers answer neither 401 nor 403.                                 *)
LEMMA HeaderStatuses ==
    ASSUME NEW q, q.first \in {200, 400, 405, 414, 431, 505}, NEW a, NEW b, NEW strict
    PROVE  HeaderStatus(q, a, b, strict) \in {200, 400, 405, 413, 414, 431, 501, 505}
<1> DEFINE lines == q.lines
           refused == {i \in DOMAIN lines : LineStatus(lines, i, a, strict) # 200}
           text == LengthText(lines, Len(lines) + 1)
           c1 == ~q.old /\ OfKind(lines, "host") = {}
           c2 == text.is \in {"word", "huge"}
           c3 == text.is = "number" /\ text.n > b
           last == FirstOf(<< <<c1, 400>>, <<c2, 400>>, <<c3, 413>> >>, 200)
           line == LineStatus(lines, Min(refused), a, strict)
<1>1. HeaderStatus(q, a, b, strict) =
        IF q.first # 200 THEN q.first ELSE IF refused # {} THEN line ELSE last
  BY DEF HeaderStatus
<1> HIDE DEF refused, text, c1, c2, c3
<1>2. last = IF c1 THEN 400 ELSE IF c2 THEN 400 ELSE IF c3 THEN 413 ELSE 200
  BY First3
<1>3. line \in {200, 400, 431, 501}
  <2> DEFINE i == Min(refused)
             kind == lines[i].kind
             earlier == LengthText(lines, i)
             d1 == kind = "long" \/ i > a
             d2 == kind = "malformed" \/ (strict /\ kind = "control")
             d3 == kind = "host" /\ \E j \in OfKind(lines, "host") : j < i
             d4 == kind = "encoding"
             d5 == kind = "length" /\ earlier \notin {Empty, lines[i].text}
  <2>1. line = FirstOf(<< <<d1, 431>>, <<d2, 400>>, <<d3, 400>>, <<d4, 501>>, <<d5, 400>> >>, 200)
    BY DEF LineStatus
  <2> HIDE DEF d1, d2, d3, d4, d5
  <2>2. FirstOf(<< <<d1, 431>>, <<d2, 400>>, <<d3, 400>>, <<d4, 501>>, <<d5, 400>> >>, 200)
          = IF d1 THEN 431 ELSE IF d2 THEN 400 ELSE IF d3 THEN 400 ELSE IF d4 THEN 501
            ELSE IF d5 THEN 400 ELSE 200
    BY First5
  <2> QED
    BY <2>1, <2>2
<1> HIDE DEF last, line
<1> QED
  BY <1>1, <1>2, <1>3

(* A step before or beside an upload touches neither directory.            *)
LEMMA DirectoriesKept ==
    ASSUME RequestInv, NEW r \in Handlers, OthersKept(r), UNCHANGED fileVars, pc[r] \notin Uploading,
           HandlerInv(r)', Types'
    PROVE  RequestInv'
<1>1. spool' = spool /\ uploads' = uploads
  BY DEF fileVars
<1>2. SpoolRemoved'
  BY <1>1, SpoolStays
<1>3. Written' = Written
  BY DEF OthersKept, Written
<1>4. UploadsStay
  BY <1>1, <1>3 DEF UploadsStay
<1> QED
  BY <1>2, <1>4, Frame DEF RequestInv

LEMMA ReadStep ==
    ASSUME RequestInv, NEW r \in Handlers, Read(r) PROVE RequestInv'
<1> DEFINE q == request[r]
           status == HeaderStatus(q, config.maxHeaders, config.maxBody, FALSE)
           to == IF q.target \in {"admin", "upload"} THEN q.target ELSE "serve"
<1>1. Types /\ HandlerInv(r) /\ Given
  BY DEF RequestInv, Types
<1>2. /\ pc[r] = "read"
      /\ UNCHANGED <<config, request, clock, htaccess, audits, scripts, local, fileVars>>
      /\ \/ Throw(r)
         \/ status # 200 /\ Reply(r, status, {})
         \/ status = 200 /\ GoTo(r, to) /\ UNCHANGED answer
  BY DEF Read
<1>3. status \in {200, 400, 405, 413, 414, 431, 501, 505}
  <2> DEFINE strict == FALSE
             answered == HeaderStatus(q, config.maxHeaders, config.maxBody, strict)
  <2>1. q.first \in {200, 400, 405, 414, 431, 505}
    BY <1>1, LinesGiven
  <2> HIDE DEF strict
  <2>2. answered \in {200, 400, 405, 413, 414, 431, 501, 505}
    BY <2>1, HeaderStatuses
  <2> QED
    BY ZenonT(40), <2>2 DEF strict
<1> HIDE DEF status
<1>4. /\ audits[r] = <<>> /\ Len(audits[r]) = 0 /\ local[r].name = Absent /\ answer[r].status = 0
      /\ local[r].status = 0 /\ local[r].part >= 1
  BY <1>1, <1>2 DEF HandlerInv, AuditInv, UploadInv
<1>5. to \in Points /\ (to = "admin" => q.target = "admin") /\ (to = "upload" => q.target = "upload")
      /\ (to = "serve" => q.target \notin {"admin", "upload"}) /\ to \in {"admin", "upload", "serve"}
  BY DEF Points
<1> HIDE DEF to
<1>6. /\ pc' \in [Handlers -> Points] /\ answer' = [h \in Handlers |-> answer'[h]]
      /\ \A h \in Handlers \ {r} : pc'[h] = pc[h] /\ answer'[h] = answer[h]
      /\ \/ pc'[r] = "lost" /\ answer'[r].status = 0
         \/ pc'[r] = "answered" /\ answer'[r].status = status /\ status # 200
         \/ pc'[r] = to /\ answer'[r].status = 0
  <2>1. CASE Throw(r)
    <3>1. GoTo(r, "lost") /\ answer' = answer /\ "lost" \in Points
      BY <2>1 DEF Throw, Points
    <3> QED
      BY <1>1, <1>4, <3>1, Goes DEF Types
  <2>2. CASE status # 200 /\ Reply(r, status, {})
    BY <1>1, <2>2, Replies
  <2>3. CASE status = 200 /\ GoTo(r, to) /\ UNCHANGED answer
    BY <1>1, <1>4, <1>5, <2>3, Goes DEF Types
  <2> QED
    BY <1>2, <2>1, <2>2, <2>3
<1>7. OthersKept(r) /\ audits' = audits /\ local' = local /\ request' = request /\ config' = config
  BY <1>2, <1>6 DEF OthersKept
<1>8. Types'
  BY <1>1, <1>2, <1>6, <1>7, StillGiven DEF Types, fileVars, Written
<1>9. HandlerInv(r)'
  <2>1. RouteInv(r)'
    BY <1>5, <1>6, <1>7 DEF RouteInv, Pages
  <2>2. AuditInv(r)'
    BY <1>3, <1>4, <1>5, <1>6, <1>7 DEF AuditInv, Pages, Uploading
  <2>3. UploadInv(r)'
    BY <1>4, <1>5, <1>6, <1>7 DEF UploadInv, Uploading
  <2> QED
    BY <2>1, <2>2, <2>3 DEF HandlerInv
<1> QED
  BY <1>2, <1>7, <1>8, <1>9, DirectoriesKept DEF Uploading

-----------------------------------------------------------------------------
LEMMA EndpointStatuses ==
    ASSUME NEW q PROVE EndpointStatus(q) \in {200, 404, 405}
<1> DEFINE a == ~config.admin
           b == q.method # "GET"
           c == ~config.uploads
           d == q.method # "POST"
<1>1. EndpointStatus(q) =
        IF q.target = "admin" THEN FirstOf(<< <<a, 404>>, <<b, 405>> >>, 200)
                              ELSE FirstOf(<< <<c, 404>>, <<d, 405>> >>, 200)
  BY DEF EndpointStatus
<1> HIDE DEF a, b, c, d
<1>2. /\ FirstOf(<< <<a, 404>>, <<b, 405>> >>, 200) \in {200, 404, 405}
      /\ FirstOf(<< <<c, 404>>, <<d, 405>> >>, 200) \in {200, 404, 405}
  BY First2
<1> QED
  BY <1>1, <1>2

LEMMA DecisionStatuses ==
    ASSUME NEW decision \in Decisions
    PROVE  /\ DecisionStatus(decision) \in {200, 401, 403}
           /\ DecisionStatus(decision) = 200 <=> decision = "auth_allowed"
<1> DEFINE a == decision \in {"auth_missing", "auth_invalid", "auth_expired"}
           b == decision = "auth_scope_denied"
<1>1. DecisionStatus(decision) = FirstOf(<< <<a, 401>>, <<b, 403>> >>, 200)
  BY DEF DecisionStatus
<1>2. decision = "auth_allowed" <=> ~a /\ ~b
  BY DEF Decisions
<1> HIDE DEF a, b
<1>3. FirstOf(<< <<a, 401>>, <<b, 403>> >>, 200) = IF a THEN 401 ELSE IF b THEN 403 ELSE 200
  BY First2
<1> QED
  BY <1>1, <1>2, <1>3

LEMMA UploadStatuses ==
    ASSUME NEW q, Decision(q) \in Decisions
    PROVE  /\ UploadStatus(q) \in {200, 400, 401, 403, 413, 415}
           /\ UploadStatus(q) = 200 => DecisionStatus(Decision(q)) = 200
           /\ UploadStatus(q) \in {401, 403} => UploadStatus(q) = DecisionStatus(Decision(q))
<1> DEFINE s == DecisionStatus(Decision(q))
           a == s # 200
           b == q.type = "none"
           c == Length(q) = 0
           d == Length(q) > config.maxBody
<1>1. UploadStatus(q) = FirstOf(<< <<a, s>>, <<b, 415>>, <<c, 400>>, <<d, 413>> >>, 200)
  BY DEF UploadStatus
<1>2. s \in {200, 401, 403} /\ (a <=> s # 200)
  BY DecisionStatuses
<1> HIDE DEF a, b, c, d, s
<1>3. FirstOf(<< <<a, s>>, <<b, 415>>, <<c, 400>>, <<d, 413>> >>, 200)
        = IF a THEN s ELSE IF b THEN 415 ELSE IF c THEN 400 ELSE IF d THEN 413 ELSE 200
  BY First4
<1>4. /\ UploadStatus(q) \in {200, 400, 401, 403, 413, 415}
      /\ UploadStatus(q) = 200 => s = 200
      /\ UploadStatus(q) \in {401, 403} => UploadStatus(q) = s
  BY <1>1, <1>2, <1>3
<1> QED
  BY <1>4 DEF s

LEMMA Records ==
    ASSUME Types, NEW r \in Handlers, NEW decision \in Decisions, audits[r] = <<>>,
           Record(r, decision)
    PROVE  /\ audits' \in [Handlers -> Seq(Events)]
           /\ audits'[r] = <<[event |-> decision, status |-> DecisionStatus(decision)]>>
           /\ \A h \in Handlers \ {r} : audits'[h] = audits[h]
<1> DEFINE e == [event |-> decision, status |-> DecisionStatus(decision)]
<1>1. e \in Events
  BY DecisionStatuses DEF Events
<1>2. audits' = [audits EXCEPT ![r] = Append(@, e)]
  BY DEF Record
<1> HIDE DEF e
<1>3. Append(audits[r], e) = <<e>> /\ Append(audits[r], e) \in Seq(Events)
  BY <1>1
<1>4. /\ audits' \in [Handlers -> Seq(Events)] /\ audits'[r] = <<e>>
      /\ \A h \in Handlers \ {r} : audits'[h] = audits[h]
  BY <1>2, <1>3 DEF Types
<1> QED
  BY <1>4 DEF e

(* The two protected endpoints, up to the answer or the spool file.        *)
LEMMA EndpointStep ==
    ASSUME RequestInv, NEW r \in Handlers, Admin(r) \/ Upload(r) PROVE RequestInv'
<1> DEFINE q == request[r]
           decision == Decision(q)
           e == [event |-> decision, status |-> DecisionStatus(decision)]
<1>1. Types /\ HandlerInv(r) /\ Given
  BY DEF RequestInv, Types
<1>2. decision \in Decisions
  BY <1>1, LinesGiven DEF Decision, Decisions
<1>3. EndpointStatus(q) \in {200, 404, 405} /\ DecisionStatus(decision) \in {200, 401, 403}
      /\ (DecisionStatus(decision) = 200 <=> decision = "auth_allowed")
  BY <1>2, EndpointStatuses, DecisionStatuses
<1>4. /\ UploadStatus(q) \in {200, 400, 401, 403, 413, 415}
      /\ UploadStatus(q) = 200 => DecisionStatus(decision) = 200
      /\ UploadStatus(q) \in {401, 403} => UploadStatus(q) = DecisionStatus(decision)
  BY <1>2, UploadStatuses
<1>5. /\ pc[r] \in {"admin", "upload"}
      /\ UNCHANGED <<config, request, clock, htaccess, scripts, local, fileVars>>
  BY DEF Admin, Upload
<1>6. /\ audits[r] = <<>> /\ Len(audits[r]) = 0 /\ local[r].name = Absent /\ answer[r].status = 0
      /\ local[r].status = 0 /\ local[r].part >= 1
  BY <1>1, <1>5 DEF HandlerInv, AuditInv, UploadInv
<1>7. \/ EndpointStatus(q) # 200 /\ Reply(r, EndpointStatus(q), {}) /\ audits' = audits
      \/ Record(r, decision) /\ Reply(r, DecisionStatus(decision), {}) /\ pc[r] = "admin"
      \/ Record(r, decision) /\ UploadStatus(q) # 200 /\ Reply(r, UploadStatus(q), {})
         /\ pc[r] = "upload"
      \/ Record(r, decision) /\ UploadStatus(q) = 200 /\ GoTo(r, "spool") /\ answer' = answer
  BY DEF Admin, Upload
<1> HIDE DEF q, decision
<1>8. /\ pc' \in [Handlers -> Points] /\ answer' = [h \in Handlers |-> answer'[h]]
      /\ audits' \in [Handlers -> Seq(Events)]
      /\ \A h \in Handlers \ {r} : pc'[h] = pc[h] /\ answer'[h] = answer[h] /\ audits'[h] = audits[h]
      /\ \/ pc'[r] = "answered" /\ answer'[r].status \in {404, 405} /\ audits'[r] = <<>>
         \/ pc'[r] = "answered" /\ audits'[r] = <<e>> /\ answer'[r].status = e.status
         \/ pc'[r] = "answered" /\ audits'[r] = <<e>> /\ answer'[r].status \in {400, 413, 415}
         \/ pc'[r] = "spool" /\ audits'[r] = <<Allowed>> /\ answer'[r].status = 0
  <2>1. CASE EndpointStatus(q) # 200 /\ Reply(r, EndpointStatus(q), {}) /\ audits' = audits
    BY <1>1, <1>3, <1>6, <2>1, Replies DEF Types
  <2>2. CASE Record(r, decision) /\ Reply(r, DecisionStatus(decision), {})
    <3>1. e.status = DecisionStatus(decision)
      OBVIOUS
    <3> QED
      BY <1>1, <1>2, <1>6, <2>2, <3>1, Replies, Records
  <2>3. CASE Record(r, decision) /\ UploadStatus(q) # 200 /\ Reply(r, UploadStatus(q), {})
    <3>1. e.status = DecisionStatus(decision)
      OBVIOUS
    <3>2. UploadStatus(q) \in {400, 413, 415} \/ UploadStatus(q) = e.status
      BY <1>4, <2>3, <3>1
    <3> QED
      BY <1>1, <1>2, <1>6, <2>3, <3>2, Replies, Records
  <2>4. CASE Record(r, decision) /\ UploadStatus(q) = 200 /\ GoTo(r, "spool") /\ answer' = answer
    <3>1. e = Allowed /\ "spool" \in Points
      BY <1>3, <1>4, <2>4 DEF Allowed, Points
    <3>2. answer = [h \in Handlers |-> answer[h]]
      BY <1>1 DEF Types
    <3> QED
      BY <1>1, <1>2, <1>6, <2>4, <3>1, <3>2, Goes, Records
  <2> QED
    BY <1>7, <2>1, <2>2, <2>3, <2>4
<1>9. OthersKept(r) /\ local' = local /\ request' = request /\ config' = config
  BY <1>5, <1>8 DEF OthersKept
<1>10. Types'
  BY <1>1, <1>5, <1>8, <1>9, StillGiven DEF Types, fileVars, Written
<1>11. HandlerInv(r)'
  <2>1. RouteInv(r)'
    BY <1>8 DEF RouteInv, Pages
  <2>2. AuditInv(r)'
    <3>1. /\ Len(<<e>>) = 1 /\ <<e>>[1].status = e.status /\ Len(<<Allowed>>) = 1 /\ Len(<<>>) = 0
      OBVIOUS
    <3> HIDE DEF e
    <3>2. local'[r].name = Absent /\ pc'[r] \in {"answered", "spool"}
      BY <1>6, <1>8, <1>9
    <3>5. \/ pc'[r] = "answered" /\ answer'[r].status \in {404, 405} /\ audits'[r] = <<>>
          \/ pc'[r] = "answered" /\ audits'[r] = <<e>> /\ answer'[r].status = e.status
          \/ pc'[r] = "answered" /\ audits'[r] = <<e>> /\ answer'[r].status \in {400, 413, 415}
          \/ pc'[r] = "spool" /\ audits'[r] = <<Allowed>> /\ answer'[r].status = 0
      BY <1>8
    <3> DEFINE events == audits'[r]
               st == answer'[r].status
    <3>8. events = <<>> \/ events = <<e>> \/ events = <<Allowed>>
      BY <3>5
    <3>9. ASSUME NEW n, n = 0 \/ n = 1 PROVE n <= 1
      BY <3>9
    <3>3. Len(events) <= 1
      <4> HIDE DEF events
      <4>1. Len(events) = 0 \/ Len(events) = 1
        BY <3>1, <3>8
      <4> QED
        BY <3>9, <4>1
    <3>6. pc'[r] # "answered" => events = <<Allowed>> /\ st = 0
      BY <3>5
    <3>4. st \in {200, 401, 403} => events = <<e>> /\ st = e.status
      BY <3>5
    <3>7. st \in {200, 401, 403} => Len(events) = 1 /\ events[1].status = st
      BY <3>1, <3>4
    <3> QED
      BY <3>2, <3>3, <3>6, <3>7 DEF AuditInv, Pages, Uploading
  <2>3. UploadInv(r)'
    BY <1>6, <1>8, <1>9 DEF UploadInv, Uploading
  <2> QED
    BY <2>1, <2>2, <2>3 DEF HandlerInv
<1> QED
  BY <1>5, <1>9, <1>10, <1>11, DirectoriesKept DEF Uploading
-----------------------------------------------------------------------------
(* What the steps towards a served file have in common: they touch neither *)
(* the directories nor the audit log.                                      *)
PageMove(r) ==
    \/ pc'[r] \in Pages \cup {"lost"} /\ answer'[r] = answer[r]
    \/ pc'[r] = "answered"

LEMMA PageStep ==
    ASSUME RequestInv, NEW r \in Handlers, pc[r] \in Pages,
           UNCHANGED <<config, request, clock, htaccess, audits, fileVars>>,
           pc' \in [Handlers -> Points], answer' = [h \in Handlers |-> answer'[h]],
           \A h \in Handlers \ {r} : pc'[h] = pc[h] /\ answer'[h] = answer[h], PageMove(r),
           local' \in [Handlers -> Locals], \A h \in Handlers \ {r} : local'[h] = local[h],
           local'[r].name = local[r].name, local'[r].status = local[r].status,
           local'[r].part = local[r].part
    PROVE  RequestInv'
<1>1. Types /\ HandlerInv(r) /\ Given
  BY DEF RequestInv, Types
<1>2. OthersKept(r)
  BY DEF OthersKept
<1>3. Types'
  BY <1>1, StillGiven DEF Types, fileVars, Written
<1>4. /\ request[r].target \notin {"admin", "upload"} /\ audits[r] = <<>> /\ local[r].name = Absent
      /\ answer[r].status = 0 /\ local[r].status = 0 /\ local[r].part >= 1
  BY <1>1 DEF HandlerInv, RouteInv, AuditInv, UploadInv, Pages
<1>5. pc'[r] \in Pages \cup {"lost", "answered"} /\ (pc'[r] # "answered" => answer'[r].status = 0)
  BY <1>4 DEF PageMove
<1>6. RouteInv(r)'
  BY <1>4, <1>5 DEF RouteInv, Pages
<1>7. AuditInv(r)'
  <2>1. audits'[r] = <<>> /\ Len(<<>>) <= 1
    BY <1>4
  <2>2. Len(audits'[r]) <= 1
    BY <2>1
  <2> QED
    BY <1>4, <1>5, <2>1, <2>2 DEF AuditInv, Pages, Uploading
<1>8. UploadInv(r)'
  BY <1>4, <1>5 DEF UploadInv, Pages, Uploading
<1> QED
  BY <1>2, <1>3, <1>6, <1>7, <1>8, DirectoriesKept DEF HandlerInv, Pages, Uploading

LEMMA ServeStep ==
    ASSUME RequestInv, NEW r \in Handlers, Serve(r) PROVE RequestInv'
<1> DEFINE file == Resolve(selectDocumentRoot(request[r].host), request[r].path)
           refusal == Refusal(request[r])
           dirs == RuleDirs(selectDocumentRoot(request[r].host), file)
           to == IF config.htaccess /\ dirs # <<>> THEN "rules" ELSE "find"
<1>1. Types /\ Given
  BY DEF RequestInv, Types
<1>2. /\ pc[r] = "serve" /\ UNCHANGED <<config, request, clock, htaccess, audits, fileVars>>
      /\ \/ Throw(r) /\ local' = local
         \/ Reply(r, refusal, {}) /\ local' = local
         \/ /\ local' = [local EXCEPT ![r].file = file, ![r].from = Len(htaccess)]
            /\ Reply(r, 403, {}) \/ (GoTo(r, to) /\ answer' = answer)
  BY DEF Serve, ServeRest
<1>3. to \in Points /\ to \in Pages /\ file \in Targets /\ Len(htaccess) \in Nat
  <2>1. to \in Points /\ to \in Pages
    BY DEF Points, Pages
  <2>2. file \in Targets
    BY <1>1, TargetsGiven
  <2>3. Len(htaccess) \in Nat
    BY <1>1 DEF Types
  <2> QED
    BY <2>1, <2>2, <2>3
<1> HIDE DEF file, refusal, to
<1>4. /\ local' \in [Handlers -> Locals] /\ \A h \in Handlers \ {r} : local'[h] = local[h]
      /\ local'[r].name = local[r].name /\ local'[r].status = local[r].status
      /\ local'[r].part = local[r].part
  <2>1. local \in [Handlers -> Locals]
    BY <1>1 DEF Types
  <2> DEFINE mine == [local[r] EXCEPT !.file = file, !.from = Len(htaccess)]
  <2>2. /\ mine \in Locals /\ mine.name = local[r].name /\ mine.status = local[r].status
        /\ mine.part = local[r].part
    BY <1>3, <2>1 DEF Locals
  <2>3. local' = local \/ local' = [local EXCEPT ![r] = mine]
    BY <1>2
  <2> HIDE DEF mine
  <2> QED
    BY <2>1, <2>2, <2>3
<1>5. /\ pc' \in [Handlers -> Points] /\ answer' = [h \in Handlers |-> answer'[h]]
      /\ \A h \in Handlers \ {r} : pc'[h] = pc[h] /\ answer'[h] = answer[h]
      /\ PageMove(r)
  <2>1. CASE Throw(r)
    <3>1. GoTo(r, "lost") /\ answer' = answer /\ "lost" \in Points
      BY <2>1 DEF Throw, Points
    <3> QED
      BY <1>1, <3>1, Goes DEF Types, PageMove
  <2>2. CASE Reply(r, refusal, {}) \/ Reply(r, 403, {})
    BY <1>1, <2>2, Replies DEF PageMove
  <2>3. CASE GoTo(r, to) /\ answer' = answer
    BY <1>1, <1>3, <2>3, Goes DEF Types, PageMove
  <2> QED
    BY <1>2, <2>1, <2>2, <2>3
<1> QED
  BY <1>2, <1>4, <1>5, PageStep DEF Pages

(* A round over the directories of a file.                                 *)
LEMMA NextDirStep ==
    ASSUME RequestInv, NEW r \in Handlers, pc[r] \in {"rules", "rulefile"},
           NEW denied \in BOOLEAN, NEW unread \in SUBSET Nat, NextDir(r, denied, unread),
           UNCHANGED <<config, request, clock, htaccess, audits, fileVars>>
    PROVE  RequestInv'
<1> DEFINE to == IF local[r].dir = Len(Dirs(r)) THEN "find" ELSE "rules"
<1>1. Types /\ Given
  BY DEF RequestInv, Types
<1>2. /\ local' = [local EXCEPT ![r].denied = denied, ![r].dir = @ + 1, ![r].to = Len(htaccess),
                              ![r].unread = unread]
      /\ Reply(r, 403, {}) \/ (GoTo(r, to) /\ answer' = answer)
  BY DEF NextDir
<1>3. to \in Points /\ to \in Pages /\ Len(htaccess) \in Nat
  BY <1>1 DEF Points, Pages, Types
<1>4. local \in [Handlers -> Locals] /\ local[r] \in Locals
  BY <1>1 DEF Types
<1> HIDE DEF to
<1>5. /\ local' \in [Handlers -> Locals] /\ \A h \in Handlers \ {r} : local'[h] = local[h]
      /\ local'[r].name = local[r].name /\ local'[r].status = local[r].status
      /\ local'[r].part = local[r].part
  <2> DEFINE next == local[r].dir + 1
             last == Len(htaccess)
             mine == [local[r] EXCEPT !.denied = denied, !.dir = next, !.to = last,
                                      !.unread = unread]
  <2>1. next \in Nat /\ last \in Nat
    BY <1>3, <1>4 DEF Locals
  <2>2. local' = [local EXCEPT ![r] = mine]
    BY <1>2
  <2> HIDE DEF next, last
  <2>3. /\ mine \in Locals /\ mine.name = local[r].name /\ mine.status = local[r].status
        /\ mine.part = local[r].part
    BY <1>4, <2>1 DEF Locals
  <2> HIDE DEF mine
  <2> QED
    BY <1>4, <2>2, <2>3
<1>6. /\ pc' \in [Handlers -> Points] /\ answer' = [h \in Handlers |-> answer'[h]]
      /\ \A h \in Handlers \ {r} : pc'[h] = pc[h] /\ answer'[h] = answer[h]
      /\ PageMove(r)
  <2>1. CASE Reply(r, 403, {})
    BY <1>1, <2>1, Replies DEF PageMove
  <2>2. CASE GoTo(r, to) /\ answer' = answer
    BY <1>1, <1>3, <2>2, Goes DEF Types, PageMove
  <2> QED
    BY <1>2, <2>1, <2>2
<1> QED
  BY <1>5, <1>6, PageStep DEF Pages

(* A step between the rounds: to the next point, or out.                   *)
LEMMA PlainPageStep ==
    ASSUME RequestInv, NEW r \in Handlers, pc[r] \in Pages,
           UNCHANGED <<config, request, clock, htaccess, audits, fileVars>>, local' = local,
           \/ Throw(r) \/ (GoTo(r, "rulefile") /\ answer' = answer)
           \/ \E status : Reply(r, status, {})
    PROVE  RequestInv'
<1>1. Types
  BY DEF RequestInv
<1>2. /\ pc' \in [Handlers -> Points] /\ answer' = [h \in Handlers |-> answer'[h]]
      /\ \A h \in Handlers \ {r} : pc'[h] = pc[h] /\ answer'[h] = answer[h]
      /\ PageMove(r)
  <2>1. ASSUME NEW to \in {"lost", "rulefile"}, GoTo(r, to), answer' = answer PROVE <1>2!:
    <3>1. to \in Points
      BY DEF Points
    <3> QED
      BY <1>1, <2>1, <3>1, Goes DEF Types, PageMove, Pages
  <2>2. ASSUME NEW status, Reply(r, status, {}) PROVE <1>2!:
    BY <1>1, <2>2, Replies DEF PageMove
  <2> QED
    BY <2>1, <2>2 DEF Throw
<1>3. local' \in [Handlers -> Locals]
  BY <1>1 DEF Types
<1> QED
  BY <1>2, <1>3, PageStep

LEMMA LookForRulesStep ==
    ASSUME RequestInv, NEW r \in Handlers, LookForRules(r) PROVE RequestInv'
<1>1. /\ pc[r] = "rules" /\ UNCHANGED <<config, request, clock, htaccess, audits, fileVars>>
      /\ \/ NextDir(r, local[r].denied, local[r].unread)
         \/ local' = local /\ (Throw(r) \/ (GoTo(r, "rulefile") /\ answer' = answer))
  BY DEF LookForRules, ServeRest
<1>2. local[r].denied \in BOOLEAN /\ local[r].unread \in SUBSET Nat
  BY DEF RequestInv, Types, Locals
<1>3. CASE NextDir(r, local[r].denied, local[r].unread)
  BY <1>1, <1>2, <1>3, NextDirStep
<1>4. CASE local' = local /\ (Throw(r) \/ (GoTo(r, "rulefile") /\ answer' = answer))
  BY <1>1, <1>4, PlainPageStep DEF Pages
<1> QED
  BY <1>1, <1>3, <1>4

LEMMA ReadRulesStep ==
    ASSUME RequestInv, NEW r \in Handlers, ReadRules(r) PROVE RequestInv'
<1> DEFINE more == local[r].unread \cup {local[r].dir}
           read == AfterDir(local[r].denied, Rules(r))
<1>1. /\ pc[r] = "rulefile" /\ UNCHANGED <<config, request, clock, htaccess, audits, fileVars>>
      /\ NextDir(r, read, local[r].unread) \/ NextDir(r, FALSE, more)
  BY DEF ReadRules, ServeRest
<1>2. local[r].unread \in SUBSET Nat /\ more \in SUBSET Nat
  <2>1. local[r] \in Locals
    BY DEF RequestInv, Types
  <2> QED
    BY <2>1 DEF Locals
<1>3. read \in BOOLEAN /\ FALSE \in BOOLEAN
  BY DEF AfterDir, Denies
<1> HIDE DEF more, read
<1> QED
  BY <1>1, <1>2, <1>3, NextDirStep

LEMMA FindStep ==
    ASSUME RequestInv, NEW r \in Handlers, Find(r) PROVE RequestInv'
<1>1. /\ pc[r] = "find" /\ local' = local
      /\ UNCHANGED <<config, request, clock, htaccess, audits, fileVars>>
      /\ Throw(r) \/ \E status : Reply(r, status, {})
  BY DEF Find, ServeRest
<1> QED
  BY <1>1, PlainPageStep DEF Pages
-----------------------------------------------------------------------------
(* The steps of an upload leave the audit log as it is: one event, that    *)
(* allowed it.                                                             *)
LEMMA UploadStep ==
    ASSUME RequestInv, NEW r \in Handlers, pc[r] \in {"spool"} \cup Uploading,
           UNCHANGED <<config, request, clock, htaccess, audits>>,
           pc' \in [Handlers -> Points], answer' = [h \in Handlers |-> answer'[h]],
           local' \in [Handlers -> Locals],
           \A h \in Handlers \ {r} : pc'[h] = pc[h] /\ answer'[h] = answer[h] /\ local'[h] = local[h],
           \/ pc'[r] \in Uploading \cup {"lost"} /\ answer'[r] = answer[r]
           \/ pc'[r] = "answered" /\ answer'[r].status \in {200, 400, 413, 415, 500},
           spool' \in [Clocks -> Spooled \cup {Absent}],
           uploads' \in [StoredNames -> Written \cup {Absent}],
           UploadsStay, SpoolRemoved', UploadInv(r)'
    PROVE  RequestInv'
<1>1. Types /\ HandlerInv(r) /\ Given
  BY DEF RequestInv, Types
<1>2. OthersKept(r)
  BY DEF OthersKept
<1>3. Types'
  BY <1>1, StillGiven DEF Types, Written
<1>4. audits[r] = <<Allowed>> /\ answer[r].status = 0
  BY <1>1 DEF HandlerInv, AuditInv, Uploading
<1>5. RouteInv(r)'
  BY DEF RouteInv, Pages, Uploading
<1>6. AuditInv(r)'
  <2>1. audits'[r] = <<Allowed>> /\ Len(<<Allowed>>) = 1 /\ <<Allowed>>[1].status = 200
    BY <1>4 DEF Allowed
  <2>2. Len(audits'[r]) = 1 /\ audits'[r][1].status = 200
    BY <2>1
  <2>3. Len(audits'[r]) <= 1
    BY <2>2
  <2>4. pc'[r] \in Uploading \cup {"lost", "answered"} /\ (pc'[r] # "answered" => answer'[r].status = 0)
    BY <1>4
  <2>5. answer'[r].status \in {200, 401, 403} => answer'[r].status = 200
    BY <1>4
  <2> QED
    BY <2>1, <2>2, <2>3, <2>4, <2>5 DEF AuditInv, Pages, Uploading
<1> QED
  BY <1>2, <1>3, <1>5, <1>6, Frame DEF RequestInv, HandlerInv

LEMMA SpoolOpenStep ==
    ASSUME RequestInv, NEW r \in Handlers, SpoolOpen(r) PROVE RequestInv'
<1>1. Types /\ HandlerInv(r) /\ Given /\ clock \in Clocks /\ spool \in [Clocks -> Spooled \cup {Absent}]
  BY DEF RequestInv, Types
<1>2. /\ pc[r] = "spool" /\ UNCHANGED <<config, request, clock, htaccess, audits>>
      /\ uploads' = uploads
  BY DEF SpoolOpen, UploadRest
<1>3. local[r].status = 0 /\ local[r].part >= 1 /\ local[r] \in Locals
  BY <1>1, <1>2 DEF HandlerInv, UploadInv, Types
<1>4. uploads' \in [StoredNames -> Written \cup {Absent}] /\ UploadsStay
  BY <1>1, <1>2 DEF Types, UploadsStay, Written
<1>5. CASE /\ spool' = [spool EXCEPT ![clock] =
                IF @ = Absent THEN [inode |-> r, from |-> {}] ELSE [@ EXCEPT !.from = {}]]
           /\ local' = [local EXCEPT ![r].name = clock, ![r].inode = spool'[clock].inode]
           /\ GoTo(r, "receive") /\ answer' = answer
  <2> DEFINE made == IF spool[clock] = Absent THEN [inode |-> r, from |-> {}]
                     ELSE [spool[clock] EXCEPT !.from = {}]
             mine == [local[r] EXCEPT !.name = clock, !.inode = made.inode]
  <2>1. made \in Spooled /\ made.inode \in Handlers
    BY <1>1 DEF Spooled
  <2>2. spool' = [spool EXCEPT ![clock] = made]
    BY <1>5
  <2> HIDE DEF made
  <2>3. spool' \in [Clocks -> Spooled \cup {Absent}] /\ spool'[clock] = made
    BY <1>1, <2>1, <2>2
  <2>4. local' = [local EXCEPT ![r] = mine]
    <3>1. local' = [local EXCEPT ![r].name = clock, ![r].inode = made.inode]
      BY <1>5, <2>3
    <3>2. local \in [Handlers -> Locals]
      BY <1>1 DEF Types
    <3> QED
      BY <3>1, <3>2
  <2>5. /\ mine \in Locals /\ mine.name = clock /\ mine.status = 0 /\ mine.part >= 1
    BY <1>1, <1>3, <2>1 DEF Locals
  <2> HIDE DEF mine
  <2>6. /\ local' \in [Handlers -> Locals] /\ local'[r] = mine
        /\ \A h \in Handlers \ {r} : local'[h] = local[h]
    BY <1>1, <2>4, <2>5 DEF Types
  <2>7. /\ pc' \in [Handlers -> Points] /\ pc'[r] = "receive"
        /\ \A h \in Handlers \ {r} : pc'[h] = pc[h]
    <3>1. "receive" \in Points
      BY DEF Points
    <3> QED
      BY <1>1, <1>5, <3>1, Goes
  <2>8. SpoolRemoved'
    <3> SUFFICES ASSUME NEW n \in Clocks, spool'[n] # Absent
                 PROVE  \E h \in Handlers : local'[h].name = n /\ pc'[h] \in Uploading
      BY DEF SpoolRemoved, Uploading
    <3>1. CASE n = clock
      BY <2>5, <2>6, <2>7, <3>1 DEF Uploading
    <3>2. CASE n # clock
      <4>1. spool[n] # Absent
        BY <1>1, <2>2, <3>2
      <4>2. PICK h \in Handlers : local[h].name = n /\ pc[h] \in Uploading
        BY <4>1 DEF RequestInv, SpoolRemoved, Uploading
      <4>3. h # r
        BY <1>2, <4>2 DEF Uploading
      <4> QED
        BY <2>6, <2>7, <4>2, <4>3
    <3> QED
      BY <3>1, <3>2
  <2>9. UploadInv(r)'
    BY <1>1, <2>5, <2>6, <2>7 DEF UploadInv, Uploading
  <2>10. answer' = [h \in Handlers |-> answer'[h]] /\ answer' = answer
    BY <1>1, <1>5 DEF Types
  <2>11. pc'[r] \in Uploading
    BY <2>7 DEF Uploading
  <2> QED
    BY <1>2, <1>4, <2>3, <2>6, <2>7, <2>8, <2>9, <2>10, <2>11, UploadStep
<1>6. CASE /\ spool' \in {spool, [spool EXCEPT ![clock] = Absent]}
           /\ Throw(r) /\ local' = local
  <2>1. GoTo(r, "lost") /\ "lost" \in Points /\ answer' = answer
    BY <1>6 DEF Throw, Points
  <2>2. /\ pc' \in [Handlers -> Points] /\ pc'[r] = "lost" /\ \A h \in Handlers \ {r} : pc'[h] = pc[h]
    BY <1>1, <2>1, Goes
  <2>3. OthersKept(r)
    BY <1>2, <1>6, <2>1, <2>2 DEF OthersKept
  <2>4. /\ spool' \in [Clocks -> Spooled \cup {Absent}]
        /\ \A n \in Clocks : spool'[n] # Absent => spool[n] # Absent
    BY <1>1, <1>6
  <2>5. SpoolRemoved'
    BY <1>2, <2>3, <2>4, SpoolStays DEF Uploading
  <2>6. UploadInv(r)'
    BY <1>2, <1>3, <1>6, <2>2 DEF UploadInv, Uploading
  <2>7. answer' = [h \in Handlers |-> answer'[h]] /\ local' \in [Handlers -> Locals]
    BY <1>1, <1>6, <2>1 DEF Types
  <2> QED
    BY <1>2, <1>4, <1>6, <2>1, <2>2, <2>4, <2>5, <2>6, <2>7, UploadStep
<1> QED
  BY <1>5, <1>6 DEF SpoolOpen, SpoolName
(* A write that leaves the upload directory alone.                         *)
LEMMA UploadsAlone ==
    ASSUME Types, config' = config, uploads' = uploads
    PROVE  uploads' \in [StoredNames -> Written \cup {Absent}] /\ UploadsStay
BY DEF Types, UploadsStay, Written

LEMMA ReceiveAllStep ==
    ASSUME RequestInv, NEW r \in Handlers, ReceiveAll(r) PROVE RequestInv'
<1>1. Types /\ HandlerInv(r) /\ spool \in [Clocks -> Spooled \cup {Absent}]
  BY DEF RequestInv, Types
<1>2. /\ pc[r] = "receive" /\ GoTo(r, "parse") /\ answer' = answer /\ local' = local
      /\ uploads' = uploads /\ UNCHANGED <<config, request, clock, htaccess, audits>>
      /\ \/ spool' = spool
         \/ Mine(r) /\ spool' = [spool EXCEPT ![local[r].name].from = @ \cup {r}]
  BY DEF ReceiveAll, UploadRest
<1>3. local[r].name \in Clocks /\ local[r].status = 0 /\ local[r].part >= 1
  BY <1>1, <1>2 DEF HandlerInv, UploadInv, Uploading
<1>4. spool' \in [Clocks -> Spooled \cup {Absent}] /\ \A n \in Clocks : spool'[n] # Absent => spool[n] # Absent
  <2>1. CASE spool' = spool
    BY <1>1, <2>1
  <2>2. CASE Mine(r) /\ spool' = [spool EXCEPT ![local[r].name].from = @ \cup {r}]
    <3> DEFINE n == local[r].name
               made == [spool[n] EXCEPT !.from = @ \cup {r}]
    <3>1. n \in Clocks /\ spool[n] # Absent /\ spool[n] \in Spooled
      BY <1>1, <1>3, <2>2 DEF Mine
    <3>2. made \in Spooled
      BY <3>1 DEF Spooled
    <3>3. spool' = [spool EXCEPT ![n] = made]
      BY <2>2
    <3> HIDE DEF n, made
    <3> QED
      BY <1>1, <3>1, <3>2, <3>3
  <2> QED
    BY <1>2, <2>1, <2>2
<1>5. /\ pc' \in [Handlers -> Points] /\ pc'[r] = "parse" /\ \A h \in Handlers \ {r} : pc'[h] = pc[h]
  BY <1>1, <1>2, Goes DEF Points
<1>6. answer' = [h \in Handlers |-> answer'[h]] /\ local' \in [Handlers -> Locals]
  BY <1>1, <1>2 DEF Types
<1>7. SpoolRemoved'
  BY <1>2, <1>4, <1>5, SpoolStays DEF OthersKept, Uploading
<1>8. UploadInv(r)'
  BY <1>2, <1>3, <1>5 DEF UploadInv, Uploading
<1>9. pc[r] \in Uploading /\ pc'[r] \in Uploading
  BY <1>2, <1>5 DEF Uploading
<1> QED
  BY <1>1, <1>2, <1>4, <1>5, <1>6, <1>7, <1>8, <1>9, UploadsAlone, UploadStep

(* An upload that ends here, with its spool file removed.                  *)
LEMMA EndsStep ==
    ASSUME RequestInv, NEW r \in Handlers, pc[r] \in Uploading, RemoveSpool(r),
           UNCHANGED <<config, request, clock, htaccess, audits, local, uploads>>,
           \/ Throw(r) /\ local[r].status = 0
           \/ \E status \in {200, 400, 413, 415, 500} : \E files : Reply(r, status, files)
    PROVE  RequestInv'
<1>1. Types /\ HandlerInv(r)
  BY DEF RequestInv
<1>2. /\ pc' \in [Handlers -> Points] /\ answer' = [h \in Handlers |-> answer'[h]]
      /\ \A h \in Handlers \ {r} : pc'[h] = pc[h] /\ answer'[h] = answer[h]
      /\ \/ pc'[r] = "lost" /\ answer'[r] = answer[r] /\ local[r].status = 0
         \/ pc'[r] = "answered" /\ answer'[r].status \in {200, 400, 413, 415, 500}
  <2>1. CASE Throw(r) /\ local[r].status = 0
    <3>1. GoTo(r, "lost") /\ answer' = answer /\ "lost" \in Points
      BY <2>1 DEF Throw, Points
    <3> QED
      BY <1>1, <2>1, <3>1, Goes DEF Types
  <2>2. ASSUME NEW status \in {200, 400, 413, 415, 500}, NEW files, Reply(r, status, files)
        PROVE  /\ pc' \in [Handlers -> Points] /\ answer' = [h \in Handlers |-> answer'[h]]
               /\ \A h \in Handlers \ {r} : pc'[h] = pc[h] /\ answer'[h] = answer[h]
               /\ pc'[r] = "answered" /\ answer'[r].status \in {200, 400, 413, 415, 500}
    BY <1>1, <2>2, Replies
  <2> QED
    BY <2>1, <2>2
<1>3. OthersKept(r) /\ local' \in [Handlers -> Locals]
  BY <1>1, <1>2 DEF OthersKept, Types
<1>4. SpoolRemoved' /\ spool' \in [Clocks -> Spooled \cup {Absent}]
  BY <1>3, SpoolGoes
<1>5. UploadInv(r)'
  BY <1>1, <1>2 DEF HandlerInv, UploadInv, Uploading
<1> QED
  BY <1>1, <1>2, <1>3, <1>4, <1>5, UploadsAlone, UploadStep

LEMMA ReceiveLessStep ==
    ASSUME RequestInv, NEW r \in Handlers, ReceiveLess(r) \/ ParseThrows(r) PROVE RequestInv'
<1>1. /\ pc[r] \in {"receive", "parse"} /\ RemoveSpool(r)
      /\ UNCHANGED <<config, request, clock, htaccess, audits, local, uploads>>
      /\ Throw(r) \/ Reply(r, 400, {})
  BY DEF ReceiveLess, ParseThrows, UploadRest
<1>2. local[r].status = 0
  BY <1>1 DEF RequestInv, HandlerInv, UploadInv
<1> QED
  BY <1>1, <1>2, EndsStep DEF Uploading

LEMMA CleanupStep ==
    ASSUME RequestInv, NEW r \in Handlers, Cleanup(r) PROVE RequestInv'
<1>1. /\ pc[r] = "cleanup" /\ RemoveSpool(r)
      /\ UNCHANGED <<config, request, clock, htaccess, audits, local, uploads>>
      /\ \E files : Reply(r, local[r].status, files)
  BY DEF Cleanup, UploadRest
<1>2. local[r].status \in {200, 400, 413, 415, 500}
  BY <1>1 DEF RequestInv, HandlerInv, UploadInv
<1> QED
  BY <1>1, <1>2, EndsStep DEF Uploading
-----------------------------------------------------------------------------
(* A step of saveUploadsFromSpoolFile.                                     *)
LEMMA SavingStep ==
    ASSUME RequestInv, NEW r \in Handlers, pc[r] \in Uploading, pc'[r] \in Uploading,
           pc' \in [Handlers -> Points], local' \in [Handlers -> Locals],
           \A h \in Handlers \ {r} : pc'[h] = pc[h] /\ local'[h] = local[h],
           local'[r].name = local[r].name,
           UNCHANGED <<config, request, clock, htaccess, audits, answer, spool>>,
           uploads' \in [StoredNames -> Written \cup {Absent}], UploadsStay, UploadInv(r)'
    PROVE  RequestInv'
<1>1. Types
  BY DEF RequestInv
<1>2. answer' = [h \in Handlers |-> answer'[h]] /\ spool' \in [Clocks -> Spooled \cup {Absent}]
  BY <1>1 DEF Types
<1>3. SpoolRemoved'
  BY SpoolStays DEF OthersKept
<1> QED
  BY <1>1, <1>2, <1>3, UploadStep

LEMMA Ends ==
    ASSUME Types, NEW r \in Handlers, NEW status \in Nat, ParseEnds(r, status)
    PROVE  /\ pc' \in [Handlers -> Points] /\ pc'[r] = "cleanup" /\ local' \in [Handlers -> Locals]
           /\ \A h \in Handlers \ {r} : pc'[h] = pc[h] /\ local'[h] = local[h]
           /\ local'[r].name = local[r].name /\ local'[r].part = local[r].part
           /\ local'[r].status = status
<1> DEFINE mine == [local[r] EXCEPT !.status = status]
<1>1. local \in [Handlers -> Locals] /\ local[r] \in Locals
  BY DEF Types
<1>2. GoTo(r, "cleanup") /\ local' = [local EXCEPT ![r] = mine] /\ "cleanup" \in Points
  BY DEF ParseEnds, Points
<1>3. mine \in Locals /\ mine.name = local[r].name /\ mine.part = local[r].part /\ mine.status = status
  BY <1>1 DEF Locals
<1>4. /\ pc' \in [Handlers -> Points] /\ pc'[r] = "cleanup" /\ \A h \in Handlers \ {r} : pc'[h] = pc[h]
  BY <1>2, Goes
<1> HIDE DEF mine
<1>5. /\ local' \in [Handlers -> Locals] /\ local'[r] = mine
      /\ \A h \in Handlers \ {r} : local'[h] = local[h]
  BY <1>1, <1>2, <1>3
<1> QED
  BY <1>3, <1>4, <1>5

(* After a part: a 200 only with no more parts than the limit.             *)
LEMMA After ==
    ASSUME RequestInv, NEW r \in Handlers, pc[r] \in {"part", "content"}, NEW files \in StoredFiles,
           AfterPart(r, files), local[r].part <= config.maxParts, config' = config,
           local[r].source \in Handlers
    PROVE  /\ pc' \in [Handlers -> Points] /\ pc'[r] \in {"cleanup", "part"}
           /\ local' \in [Handlers -> Locals]
           /\ \A h \in Handlers \ {r} : pc'[h] = pc[h] /\ local'[h] = local[h]
           /\ local'[r].name = local[r].name
           /\ UploadInv(r)'
<1>1. Types /\ HandlerInv(r) /\ local \in [Handlers -> Locals] /\ local[r] \in Locals
  BY DEF RequestInv, Types
<1>2. local[r].status = 0 /\ local[r].part >= 1 /\ local[r].part \in Nat /\ local[r].name \in Clocks
  BY <1>1 DEF HandlerInv, UploadInv, Uploading, Locals
<1>3. CASE ParseEnds(r, 400)
  <2>1. /\ pc' \in [Handlers -> Points] /\ pc'[r] = "cleanup" /\ local' \in [Handlers -> Locals]
        /\ \A h \in Handlers \ {r} : pc'[h] = pc[h] /\ local'[h] = local[h]
        /\ local'[r].name = local[r].name /\ local'[r].part = local[r].part
        /\ local'[r].status = 400
    <3>1. 400 \in Nat
      OBVIOUS
    <3> QED
      BY <1>1, <1>3, <3>1, Ends
  <2>2. UploadInv(r)'
    BY <1>2, <2>1 DEF UploadInv, Uploading
  <2> QED
    BY <2>1, <2>2
<1>4. CASE local' = [local EXCEPT ![r].status = 200, ![r].files = files] /\ GoTo(r, "cleanup")
  <2> DEFINE ok == 200
             mine == [local[r] EXCEPT !.status = ok, !.files = files]
  <2>2. local' = [local EXCEPT ![r] = mine]
    BY <1>4
  <2>6. ok \in Nat
    OBVIOUS
  <2> HIDE DEF ok
  <2>7. mine \in Locals
    BY <1>1, <2>6 DEF Locals
  <2>8. mine.name = local[r].name /\ mine.part = local[r].part /\ mine.status = ok
    BY <1>1 DEF Locals
  <2>1. /\ mine \in Locals /\ mine.name = local[r].name /\ mine.part = local[r].part
        /\ mine.status = 200
    BY <2>7, <2>8 DEF ok
  <2> HIDE DEF mine
  <2>3. /\ local' \in [Handlers -> Locals] /\ local'[r] = mine
        /\ \A h \in Handlers \ {r} : local'[h] = local[h]
    BY <1>1, <2>1, <2>2
  <2>4. /\ pc' \in [Handlers -> Points] /\ pc'[r] = "cleanup"
        /\ \A h \in Handlers \ {r} : pc'[h] = pc[h]
    BY <1>1, <1>4, Goes DEF Points
  <2>5. UploadInv(r)'
    BY <1>2, <2>1, <2>3, <2>4 DEF UploadInv, Uploading
  <2> QED
    BY <2>1, <2>3, <2>4, <2>5
<1>5. CASE local' = [local EXCEPT ![r].part = @ + 1, ![r].files = files] /\ GoTo(r, "part")
  <2> DEFINE next == local[r].part + 1
             mine == [local[r] EXCEPT !.part = next, !.files = files]
  <2>1. local' = [local EXCEPT ![r] = mine]
    BY <1>5
  <2>2. next \in Nat /\ next >= 1
    BY <1>2
  <2> HIDE DEF next
  <2>3. /\ mine \in Locals /\ mine.name = local[r].name /\ mine.part = next
        /\ mine.status = 0 /\ mine.source = local[r].source
    BY <1>1, <1>2, <2>2 DEF Locals
  <2> HIDE DEF mine
  <2>4. /\ local' \in [Handlers -> Locals] /\ local'[r] = mine
        /\ \A h \in Handlers \ {r} : local'[h] = local[h]
    BY <1>1, <2>1, <2>3
  <2>5. /\ pc' \in [Handlers -> Points] /\ pc'[r] = "part"
        /\ \A h \in Handlers \ {r} : pc'[h] = pc[h]
    BY <1>1, <1>5, Goes DEF Points
  <2>6. UploadInv(r)'
    BY <1>2, <2>2, <2>3, <2>4, <2>5 DEF UploadInv, Uploading
  <2> QED
    BY <2>3, <2>4, <2>5, <2>6
<1> QED
  BY <1>3, <1>4, <1>5 DEF AfterPart

LEMMA ParseBeginStep ==
    ASSUME RequestInv, NEW r \in Handlers, ParseBegin(r) PROVE RequestInv'
<1> DEFINE n == local[r].name
           a == request[r].type # "multipart"
           b == config.maxParts = 0 \/ config.maxFile = 0
           c == spool[n] = Absent
           refusal == FirstOf(<< <<a, 415>>, <<b, 500>>, <<c, 500>> >>, 200)
<1>1. Types /\ HandlerInv(r) /\ local \in [Handlers -> Locals] /\ local[r] \in Locals
  BY DEF RequestInv, Types
<1>2. /\ pc[r] = "parse" /\ UNCHANGED <<config, request, clock, htaccess, audits, answer, spool>>
      /\ uploads' = uploads
      /\ \/ refusal # 200 /\ ParseEnds(r, refusal)
         \/ ParseEnds(r, 400)
         \/ /\ refusal = 200 /\ \E source \in spool[n].from : local' = [local EXCEPT ![r].source = source]
            /\ GoTo(r, "part")
  BY DEF ParseBegin, UploadRest, fileVars
<1>3. c <=> spool[n] = Absent
  OBVIOUS
<1> HIDE DEF a, b, c
<1>4. refusal = IF a THEN 415 ELSE IF b THEN 500 ELSE IF c THEN 500 ELSE 200
  BY First3
<1> HIDE DEF refusal
<1>5. refusal \in {415, 500, 200} /\ (refusal = 200 => spool[n] # Absent)
  BY <1>3, <1>4
<1>6. local[r].status = 0 /\ local[r].part >= 1 /\ local[r].name \in Clocks
  BY <1>1, <1>2 DEF HandlerInv, UploadInv, Uploading
<1>7. /\ pc' \in [Handlers -> Points] /\ pc'[r] \in Uploading /\ local' \in [Handlers -> Locals]
      /\ \A h \in Handlers \ {r} : pc'[h] = pc[h] /\ local'[h] = local[h]
      /\ local'[r].name = local[r].name /\ UploadInv(r)'
  <2>1. ASSUME NEW status \in {400, 415, 500}, ParseEnds(r, status)
        PROVE  <1>7!:
    <3>1. /\ pc' \in [Handlers -> Points] /\ pc'[r] = "cleanup" /\ local' \in [Handlers -> Locals]
          /\ \A h \in Handlers \ {r} : pc'[h] = pc[h] /\ local'[h] = local[h]
          /\ local'[r].name = local[r].name /\ local'[r].part = local[r].part
          /\ local'[r].status = status
      <4>1. status \in Nat
        OBVIOUS
      <4> QED
        BY <1>1, <2>1, <4>1, Ends
    <3>2. UploadInv(r)'
      BY <1>6, <3>1 DEF UploadInv, Uploading
    <3> QED
      BY <3>1, <3>2 DEF Uploading
  <2>2. ASSUME refusal = 200, NEW source \in spool[n].from,
               local' = [local EXCEPT ![r].source = source], GoTo(r, "part")
        PROVE  <1>7!:
    <3>1. source \in Handlers
      BY <1>1, <1>5, <1>6, <2>2 DEF Types, Spooled
    <3> DEFINE mine == [local[r] EXCEPT !.source = source]
    <3>2. /\ mine \in Locals /\ mine.name = local[r].name /\ mine.part = local[r].part
          /\ mine.status = 0 /\ mine.source \in Handlers
      BY <1>1, <1>6, <3>1 DEF Locals
    <3>3. local' = [local EXCEPT ![r] = mine]
      BY <2>2
    <3> HIDE DEF mine
    <3>4. /\ local' \in [Handlers -> Locals] /\ local'[r] = mine
          /\ \A h \in Handlers \ {r} : local'[h] = local[h]
      BY <1>1, <3>2, <3>3
    <3>5. /\ pc' \in [Handlers -> Points] /\ pc'[r] = "part"
          /\ \A h \in Handlers \ {r} : pc'[h] = pc[h]
      BY <1>1, <2>2, Goes DEF Points
    <3>6. UploadInv(r)'
      BY <1>6, <3>2, <3>4, <3>5 DEF UploadInv, Uploading
    <3> QED
      BY <3>2, <3>4, <3>5, <3>6 DEF Uploading
  <2> QED
    BY <1>2, <1>5, <2>1, <2>2
<1> QED
  BY <1>1, <1>2, <1>7, UploadsAlone, SavingStep DEF Uploading
LEMMA PartBeginStep ==
    ASSUME RequestInv, NEW r \in Handlers, PartBegin(r) PROVE RequestInv'
<1> DEFINE i == local[r].part
           missing == i > Len(Body(r).parts)
           file == ~missing /\ Part(r).file
           field == ~missing /\ ~Part(r).file
           a == i > config.maxParts
           c == file /\ ~Part(r).safe
           d == field /\ StoredSize(Part(r)) > config.maxField
           refusal == FirstOf(<< <<a, 413>>, <<missing, 400>>, <<c, 415>>, <<d, 413>> >>, 200)
           stored == StoredName(r)
           empty == [from |-> {}, bytes |-> 0]
           old == local[r].files
<1>1. /\ Types /\ HandlerInv(r) /\ local \in [Handlers -> Locals] /\ local[r] \in Locals /\ Given
      /\ clock \in Clocks
  BY DEF RequestInv, Types
<1>2. /\ pc[r] = "part" /\ UNCHANGED <<config, request, clock, htaccess, audits, answer, spool>>
      /\ \/ refusal # 200 /\ ParseEnds(r, refusal) /\ uploads' = uploads
         \/ refusal = 200 /\ AfterPart(r, old) /\ uploads' = uploads
         \/ /\ refusal = 200
            /\ uploads' = [uploads EXCEPT ![stored] = empty]
            /\ local' = [local EXCEPT ![r].stored = stored] /\ GoTo(r, "content")
         \/ ParseEnds(r, 500) /\ uploads' = uploads
  BY DEF PartBegin, UploadRest
<1>3. /\ local[r].status = 0 /\ i >= 1 /\ i \in Nat /\ local[r].name \in Clocks
      /\ local[r].source \in Handlers /\ old \in StoredFiles
  BY <1>1, <1>2 DEF HandlerInv, UploadInv, Uploading, Locals
<1>4. /\ config.maxParts \in Nat /\ config.maxFile \in Nat /\ Len(Body(r).parts) \in Nat
      /\ \A j \in 1 .. Len(Body(r).parts) : Body(r).parts[j].name \in Names
  <2> DEFINE s == local[r].source
  <2>1. s \in Handlers
    BY <1>3
  <2> HIDE DEF s
  <2>2. /\ config.maxParts \in Nat /\ config.maxFile \in Nat /\ Len(request[s].parts) \in Nat
        /\ \A j \in 1 .. Len(request[s].parts) : request[s].parts[j].name \in Names
    BY <1>1, <2>1, PartsGiven
  <2> QED
    BY <2>2 DEF Body, s
<1>5. (a <=> i > config.maxParts) /\ (missing <=> i > Len(Body(r).parts))
  OBVIOUS
<1> HIDE DEF a, missing, c, d
<1>6. refusal = IF a THEN 413 ELSE IF missing THEN 400 ELSE IF c THEN 415 ELSE IF d THEN 413 ELSE 200
  BY First4
<1> HIDE DEF refusal
<1>7. refusal \in {413, 400, 415, 200} /\ (refusal = 200 => ~a /\ ~missing)
  BY <1>6
<1>8. refusal = 200 => i <= config.maxParts /\ i \in 1 .. Len(Body(r).parts)
  BY <1>3, <1>4, <1>5, <1>7
<1>9. refusal = 200 => stored \in StoredNames
  BY <1>1, <1>4, <1>8 DEF StoredName, StoredNames, Part
<1>10. /\ pc' \in [Handlers -> Points] /\ pc'[r] \in Uploading /\ local' \in [Handlers -> Locals]
       /\ \A h \in Handlers \ {r} : pc'[h] = pc[h] /\ local'[h] = local[h]
       /\ local'[r].name = local[r].name /\ UploadInv(r)'
       /\ uploads' \in [StoredNames -> Written \cup {Absent}] /\ UploadsStay
  <2>1. ASSUME NEW status \in {400, 413, 415, 500}, ParseEnds(r, status), uploads' = uploads
        PROVE  <1>10!:
    <3>1. /\ pc' \in [Handlers -> Points] /\ pc'[r] = "cleanup" /\ local' \in [Handlers -> Locals]
          /\ \A h \in Handlers \ {r} : pc'[h] = pc[h] /\ local'[h] = local[h]
          /\ local'[r].name = local[r].name /\ local'[r].part = local[r].part
          /\ local'[r].status = status
      <4>1. status \in Nat
        OBVIOUS
      <4> QED
        BY <1>1, <2>1, <4>1, Ends
    <3>2. UploadInv(r)'
      BY <1>3, <3>1 DEF UploadInv, Uploading
    <3> QED
      BY <1>1, <1>2, <2>1, <3>1, <3>2, UploadsAlone DEF Uploading
  <2>2. ASSUME refusal = 200, AfterPart(r, old), uploads' = uploads
        PROVE  <1>10!:
    <3>1. /\ pc' \in [Handlers -> Points] /\ pc'[r] \in {"cleanup", "part"}
          /\ local' \in [Handlers -> Locals]
          /\ \A h \in Handlers \ {r} : pc'[h] = pc[h] /\ local'[h] = local[h]
          /\ local'[r].name = local[r].name
          /\ UploadInv(r)'
      BY <1>2, <1>3, <1>8, <2>2, After
    <3> QED
      BY <1>1, <1>2, <2>2, <3>1, UploadsAlone DEF Uploading
  <2>3. ASSUME refusal = 200, uploads' = [uploads EXCEPT ![stored] = empty],
               local' = [local EXCEPT ![r].stored = stored], GoTo(r, "content")
        PROVE  <1>10!:
    <3> DEFINE mine == [local[r] EXCEPT !.stored = stored]
    <3>1. stored \in StoredNames
      BY <1>9, <2>3
    <3>2. local' = [local EXCEPT ![r] = mine]
      BY <2>3
    <3> HIDE DEF stored
    <3>3. /\ mine \in Locals /\ mine.name = local[r].name /\ mine.part = i /\ mine.status = 0
          /\ mine.source = local[r].source /\ mine.stored = stored
      BY <1>1, <1>3, <3>1 DEF Locals
    <3> HIDE DEF mine
    <3>4. /\ local' \in [Handlers -> Locals] /\ local'[r] = mine
          /\ \A h \in Handlers \ {r} : local'[h] = local[h]
      BY <1>1, <3>2, <3>3
    <3>5. /\ pc' \in [Handlers -> Points] /\ pc'[r] = "content"
          /\ \A h \in Handlers \ {r} : pc'[h] = pc[h]
      BY <1>1, <2>3, Goes DEF Points
    <3>6. empty \in Written /\ Written' = Written
      BY <1>2, <1>4 DEF Written, Pieces
    <3> HIDE DEF empty
    <3>7. uploads' \in [StoredNames -> Written \cup {Absent}] /\ UploadsStay /\ uploads'[stored] \in Written'
      BY <1>1, <2>3, <3>1, <3>6 DEF Types, UploadsStay
    <3>8. Body(r)' = Body(r)
      BY <1>2, <3>3, <3>4 DEF Body
    <3>9. UploadInv(r)'
      <4>1. i \in 1 .. Len(Body(r).parts) /\ i <= config.maxParts
        BY <1>8, <2>3
      <4> QED
        BY <1>2, <1>3, <3>1, <3>3, <3>4, <3>5, <3>7, <3>8, <4>1 DEF UploadInv, Uploading
    <3> QED
      BY <3>3, <3>4, <3>5, <3>7, <3>9 DEF Uploading
  <2> QED
    BY <1>2, <1>7, <2>1, <2>2, <2>3
<1> QED
  BY <1>2, <1>10, SavingStep DEF Uploading

(* A write keeps the file within the limit.                                *)
LEMMA Stores ==
    ASSUME Types, NEW r \in Handlers, local[r].stored \in StoredNames,
           uploads[local[r].stored] \in Written, local[r].source \in Handlers, local[r].part \in Nat,
           config.maxFile \in Nat, NEW n \in 0 .. config.maxFile, Store(r, n), config' = config
    PROVE  uploads' \in [StoredNames -> Written \cup {Absent}] /\ UploadsStay
<1> DEFINE s == local[r].stored
           piece == <<local[r].source, local[r].part>>
           bytes == Max({uploads[s].bytes, n})
           made == [from |-> uploads[s].from \cup {piece}, bytes |-> bytes]
<1>1. uploads[s].bytes \in 0 .. config.maxFile /\ uploads[s].from \in Pieces
  BY DEF Written
<1>2. bytes \in {uploads[s].bytes, n}
  <2> DEFINE old == uploads[s].bytes
             m == IF old >= n THEN old ELSE n
  <2>1. old \in Int /\ n \in Int
    BY <1>1
  <2> HIDE DEF old
  <2>2. m \in {old, n} /\ \A y \in {old, n} : m >= y
    BY <2>1
  <2>3. Max({old, n}) \in {old, n}
    BY <2>2 DEF Max
  <2> QED
    BY <2>3 DEF old
<1>3. bytes \in 0 .. config.maxFile
  BY <1>1, <1>2
<1>4. uploads[s].from \cup {piece} \in Pieces
  BY <1>1 DEF Pieces
<1>5. uploads' = [uploads EXCEPT ![s] = made] \/ uploads' = uploads
  BY DEF Store
<1> HIDE DEF bytes
<1>6. made \in Written
  BY <1>3, <1>4 DEF Written
<1> HIDE DEF made, s
<1>7. Written' = Written
  BY DEF Written
<1> QED
  BY <1>5, <1>6, <1>7 DEF Types, UploadsStay, s

LEMMA PartContentStep ==
    ASSUME RequestInv, NEW r \in Handlers, PartContent(r) PROVE RequestInv'
<1> DEFINE part == [stored |-> local[r].stored, part |-> local[r].part]
           files == local[r].files \cup {part}
<1>1. /\ Types /\ HandlerInv(r) /\ local \in [Handlers -> Locals] /\ local[r] \in Locals /\ Given
  BY DEF RequestInv, Types
<1>2. /\ pc[r] = "content" /\ UNCHANGED <<config, request, clock, htaccess, audits, answer, spool>>
      /\ \/ \E n \in 0 .. config.maxFile : Store(r, n) /\ ParseEnds(r, 413)
         \/ ~(StoredSize(Part(r)) > config.maxFile) /\ Store(r, StoredSize(Part(r))) /\ AfterPart(r, files)
  BY DEF PartContent, UploadRest
<1>3. /\ local[r].status = 0 /\ local[r].part >= 1 /\ local[r].part \in Nat /\ local[r].name \in Clocks
      /\ local[r].source \in Handlers /\ local[r].stored \in StoredNames
      /\ uploads[local[r].stored] \in Written /\ local[r].part \in 1 .. Len(Body(r).parts)
      /\ local[r].part <= config.maxParts /\ local[r].files \in StoredFiles
  BY <1>1, <1>2 DEF HandlerInv, UploadInv, Uploading, Locals
<1>4. config.maxFile \in Nat /\ StoredSize(Part(r)) \in Nat
  <2> DEFINE s == local[r].source
  <2>1. s \in Handlers /\ local[r].part \in 1 .. Len(request[s].parts)
    BY <1>3 DEF Body
  <2> HIDE DEF s
  <2>2. /\ config.maxFile \in Nat
        /\ \A j \in 1 .. Len(request[s].parts) : StoredSize(request[s].parts[j]) \in Nat
    BY <1>1, <2>1, PartsGiven
  <2>3. config.maxFile \in Nat /\ StoredSize(request[s].parts[local[r].part]) \in Nat
    BY <2>1, <2>2
  <2> QED
    BY <2>3 DEF Part, Body, s
<1>5. files \in StoredFiles
  BY <1>3 DEF StoredFiles
<1>6. /\ pc' \in [Handlers -> Points] /\ pc'[r] \in Uploading /\ local' \in [Handlers -> Locals]
      /\ \A h \in Handlers \ {r} : pc'[h] = pc[h] /\ local'[h] = local[h]
      /\ local'[r].name = local[r].name /\ UploadInv(r)'
      /\ uploads' \in [StoredNames -> Written \cup {Absent}] /\ UploadsStay
  <2>1. ASSUME NEW n \in 0 .. config.maxFile, Store(r, n), ParseEnds(r, 413)
        PROVE  <1>6!:
    <3>1. /\ pc' \in [Handlers -> Points] /\ pc'[r] = "cleanup" /\ local' \in [Handlers -> Locals]
          /\ \A h \in Handlers \ {r} : pc'[h] = pc[h] /\ local'[h] = local[h]
          /\ local'[r].name = local[r].name /\ local'[r].part = local[r].part
          /\ local'[r].status = 413
      <4>1. 413 \in Nat
        OBVIOUS
      <4> QED
        BY <1>1, <2>1, <4>1, Ends
    <3>2. UploadInv(r)'
      BY <1>3, <3>1 DEF UploadInv, Uploading
    <3>3. uploads' \in [StoredNames -> Written \cup {Absent}] /\ UploadsStay
      BY <1>1, <1>2, <1>3, <1>4, <2>1, Stores
    <3> QED
      BY <3>1, <3>2, <3>3 DEF Uploading
  <2>2. ASSUME ~(StoredSize(Part(r)) > config.maxFile), Store(r, StoredSize(Part(r))), AfterPart(r, files)
        PROVE  <1>6!:
    <3>1. StoredSize(Part(r)) \in 0 .. config.maxFile
      BY <1>4, <2>2
    <3> HIDE DEF files
    <3>2. /\ pc' \in [Handlers -> Points] /\ pc'[r] \in {"cleanup", "part"}
          /\ local' \in [Handlers -> Locals]
          /\ \A h \in Handlers \ {r} : pc'[h] = pc[h] /\ local'[h] = local[h]
          /\ local'[r].name = local[r].name
          /\ UploadInv(r)'
      BY <1>2, <1>3, <1>5, <2>2, After
    <3>3. uploads' \in [StoredNames -> Written \cup {Absent}] /\ UploadsStay
      BY <1>1, <1>2, <1>3, <1>4, <2>2, <3>1, Stores
    <3> QED
      BY <3>2, <3>3 DEF Uploading
  <2> QED
    BY <1>2, <2>1, <2>2
<1> QED
  BY <1>2, <1>6, SavingStep DEF Uploading
-----------------------------------------------------------------------------
(* Nothing moves but the clock or a .htaccess file.                        *)
LEMMA IdleStep ==
    ASSUME RequestInv, UNCHANGED <<config, request, pc, audits, answer, local, fileVars>>,
           clock' \in Clocks, htaccess' \in Seq(RuleSets), htaccess' # <<>>
    PROVE  RequestInv'
<1>1. Types /\ Written' = Written
  BY DEF RequestInv, Written
<1>2. Types'
  BY <1>1, StillGiven DEF Types, fileVars
<1>3. SpoolRemoved'
  BY DEF RequestInv, SpoolRemoved, fileVars
<1>4. ASSUME NEW h \in Handlers PROVE HandlerInv(h)'
  <2>1. RouteInv(h) /\ AuditInv(h) /\ UploadInv(h) /\ Body(h)' = Body(h)
    BY DEF RequestInv, HandlerInv, Body
  <2>2. RouteInv(h)' /\ AuditInv(h)'
    BY <2>1 DEF RouteInv, AuditInv
  <2>3. UploadInv(h)'
    BY <1>1, <2>1 DEF UploadInv, fileVars
  <2> QED
    BY <2>2, <2>3 DEF HandlerInv
<1> QED
  BY <1>2, <1>3, <1>4 DEF RequestInv

LEMMA EditStep ==
    ASSUME RequestInv, EditRules PROVE RequestInv'
<1>1. Types /\ htaccess \in Seq(RuleSets) /\ htaccess # <<>> /\ clock' \in Clocks
  BY DEF RequestInv, Types, EditRules
<1>2. PICK dir \in DOMAIN Last(htaccess), lines \in RuleFiles :
        htaccess' = Append(htaccess, [Last(htaccess) EXCEPT ![dir] = lines])
  BY DEF EditRules
<1> DEFINE now == Last(htaccess)
           next == [now EXCEPT ![dir] = lines]
<1>3. now \in RuleSets
  BY <1>1 DEF Last
<1>4. next \in RuleSets
  <2>1. PICK s \in Scenarios :
          now \in [DOMAIN s.rules -> RuleFiles \cup {s.rules[d] : d \in DOMAIN s.rules}]
    BY <1>3 DEF RuleSets
  <2> DEFINE files == {s.rules[d] : d \in DOMAIN s.rules}
  <2> HIDE DEF now, files
  <2>2. [now EXCEPT ![dir] = lines] \in [DOMAIN s.rules -> RuleFiles \cup files]
    BY <2>1 DEF files
  <2> QED
    BY <2>2 DEF RuleSets, files
<1> HIDE DEF now, next
<1>5. htaccess' \in Seq(RuleSets) /\ htaccess' # <<>>
  <2>1. htaccess' = Append(htaccess, next)
    BY <1>2 DEF now, next
  <2> QED
    BY <1>1, <1>4, <2>1
<1> QED
  BY <1>1, <1>5, IdleStep DEF EditRules

(* Every step keeps the invariant.                                         *)
LEMMA InvStep == RequestInv /\ [Next]_vars => RequestInv'
<1> SUFFICES ASSUME RequestInv, [Next]_vars PROVE RequestInv'
  OBVIOUS
<1>1. Types
  BY DEF RequestInv
<1>2. CASE Tick
  <2>1. clock' \in Clocks
    BY <1>1, <1>2, RequestAssumption DEF Tick, Types, Clocks
  <2> QED
    BY <1>1, <1>2, <2>1, IdleStep DEF Tick, Types
<1>3. CASE EditRules
  BY <1>3, EditStep
<1>4. CASE AllEnded \/ UNCHANGED vars
  BY <1>1, <1>4, IdleStep DEF AllEnded, vars, Types
<1>5. ASSUME NEW r \in Handlers, Handle(r) PROVE RequestInv'
  BY <1>5, ReadStep, EndpointStep, ServeStep, LookForRulesStep, ReadRulesStep, FindStep, SpoolOpenStep,
     ReceiveAllStep, ReceiveLessStep, ParseBeginStep, PartBeginStep, PartContentStep, CleanupStep
     DEF Handle
<1> QED
  BY <1>2, <1>3, <1>4, <1>5 DEF Next

(* The inductive invariant.                                                *)
THEOREM RequestInvHolds == Spec => []RequestInv
<1>1. Init => RequestInv
  BY InvInit
<1>2. RequestInv /\ [Next]_vars => RequestInv'
  BY InvStep
<1> QED
  BY <1>1, <1>2, PTL DEF Spec

(* Whichever way uploads end, and although two may share a name, no spool  *)
(* file outlives the upload it belongs to.                                 *)
THEOREM SpoolEmptied == Spec => []SpoolRemoved
<1>1. RequestInv => SpoolRemoved
  BY DEF RequestInv
<1> QED
  BY <1>1, RequestInvHolds, PTL

(* No stored file is over the limit and no accepted upload has too many    *)
(* parts, whatever writes fail and whichever handlers share a file.        *)
THEOREM WithinLimits == Spec => []LimitsHold
<1>1. RequestInv => LimitsHold
  <2> SUFFICES ASSUME RequestInv PROVE LimitsHold
    OBVIOUS
  <2>1. Types /\ \A r \in Handlers : UploadInv(r)
    BY DEF RequestInv, HandlerInv
  <2>2. ASSUME NEW n \in StoredNames, uploads[n] # Absent PROVE uploads[n].bytes <= config.maxFile
    <3>1. uploads[n] \in Written
      BY <2>1, <2>2 DEF Types
    <3> QED
      BY <3>1 DEF Written
  <2> QED
    BY <2>1, <2>2 DEF LimitsHold, StoredNames, UploadInv
<1> QED
  BY <1>1, RequestInvHolds, PTL

(* One audit event for every token that was looked at, with the status the *)
(* client sees, and nothing stored without one that allows.                *)
THEOREM Audited == Spec => []AuditTrail
<1>1. RequestInv => AuditTrail
  <2> SUFFICES ASSUME RequestInv, NEW r \in Handlers
               PROVE  /\ /\ request[r].target \in {"admin", "upload"}
                         /\ answer[r].status \in {200, 401, 403}
                         => Len(audits[r]) = 1 /\ audits[r][1].status = answer[r].status
                      /\ Len(audits[r]) <= 1
                      /\ local[r].name # Absent => audits[r][1].event = "auth_allowed"
    BY DEF AuditTrail
  <2>1. AuditInv(r)
    BY DEF RequestInv, HandlerInv
  <2>2. local[r].name # Absent => audits[r][1].event = "auth_allowed"
    <3>1. <<Allowed>>[1].event = "auth_allowed"
      BY DEF Allowed
    <3> QED
      BY <2>1, <3>1 DEF AuditInv
  <2> QED
    BY <2>1, <2>2 DEF AuditInv
<1> QED
  BY <1>1, RequestInvHolds, PTL
-----------------------------------------------------------------------------
(* The greatest of some places.                                            *)
LEMMA Greatest ==
    ASSUME NEW n \in Nat, NEW I, I \subseteq 1 .. n, I # {}
    PROVE  Max(I) \in I /\ \A i \in I : i <= Max(I)
<1> DEFINE T == {i .. n : i \in I}
<1>1. T \subseteq FiniteSubsetsOf(Nat) /\ T # {}
  <2>1. ASSUME NEW i \in I PROVE i .. n \in FiniteSubsetsOf(Nat)
    <3>1. i \in Nat /\ i .. n \subseteq Nat
      OBVIOUS
    <3>2. IsFiniteSet(i .. n)
      BY <3>1, FS_Interval
    <3> QED
      BY <3>1, <3>2 DEF FiniteSubsetsOf
  <2> QED
    BY <2>1
<1>2. PICK x \in T : \A y \in T : ~(<<y, x>> \in StrictSubsetOrdering(Nat))
  BY <1>1, FS_StrictSubsetOrderingWellFounded, WFMin
<1>3. PICK i \in I : x = i .. n
  BY <1>2
<1>4. ASSUME NEW j \in I, i < j PROVE FALSE
  <2>1. j .. n \subseteq i .. n /\ i \in i .. n /\ i \notin j .. n /\ i .. n \subseteq Nat
    BY <1>4
  <2>2. <<j .. n, i .. n>> \in StrictSubsetOrdering(Nat)
    BY <2>1 DEF StrictSubsetOrdering
  <2> QED
    BY <1>2, <1>3, <2>2
<1>5. \A j \in I : i >= j
  BY <1>4
<1> QED
  BY <1>5 DEF Max

LEMMA Least ==
    ASSUME NEW I, I \subseteq Nat, I # {}
    PROVE  \E i \in I : \A j \in I : i <= j
<1> DEFINE T == {1 .. i : i \in I}
<1>1. T \subseteq FiniteSubsetsOf(Nat) /\ T # {}
  <2>1. ASSUME NEW i \in I PROVE 1 .. i \in FiniteSubsetsOf(Nat)
    <3>1. i \in Nat /\ 1 .. i \subseteq Nat
      OBVIOUS
    <3>2. IsFiniteSet(1 .. i)
      BY <3>1, FS_Interval
    <3> QED
      BY <3>1, <3>2 DEF FiniteSubsetsOf
  <2> QED
    BY <2>1
<1>2. PICK x \in T : \A y \in T : ~(<<y, x>> \in StrictSubsetOrdering(Nat))
  BY <1>1, FS_StrictSubsetOrderingWellFounded, WFMin
<1>3. PICK i \in I : x = 1 .. i
  BY <1>2
<1>4. ASSUME NEW j \in I, j < i PROVE FALSE
  <2>1. 1 .. j \subseteq 1 .. i /\ i \in 1 .. i /\ i \notin 1 .. j /\ 1 .. i \subseteq Nat
    BY <1>4
  <2>2. <<1 .. j, 1 .. i>> \in StrictSubsetOrdering(Nat)
    BY <2>1 DEF StrictSubsetOrdering
  <2> QED
    BY <1>2, <1>3, <2>2
<1> QED
  BY <1>4

(* The length a parser has in mind is that of the last line before.        *)
LEMMA LastLength ==
    ASSUME NEW lines, NEW n \in Nat, DOMAIN lines = 1 .. n, NEW i \in Nat,
           NEW j \in OfKind(lines, "length"), j < i,
           \A k \in OfKind(lines, "length") : k < i => k <= j
    PROVE  LengthText(lines, i) = lines[j].text
<1> DEFINE before == {k \in OfKind(lines, "length") : k < i}
<1>1. before \subseteq 1 .. n /\ j \in before /\ \A k \in before : k <= j
  BY DEF OfKind
<1>2. LengthText(lines, i) = IF before = {} THEN Empty ELSE lines[Max(before)].text
  BY DEF LengthText
<1>6. before # {}
  BY <1>1
<1> HIDE DEF before
<1>3. Max(before) \in before /\ \A k \in before : k <= Max(before)
  <2>1. before \subseteq 1 .. n
    BY <1>1
  <2> QED
    BY <1>6, <2>1, Greatest
<1> DEFINE m == Max(before)
<1> HIDE DEF m
<1>4. m \in before /\ j <= m /\ m <= j
  BY <1>1, <1>3 DEF m
<1>7. m \in 1 .. n /\ j \in 1 .. n
  BY <1>1, <1>4
<1>8. m = j
  BY <1>4, <1>7
<1>5. Max(before) = j
  BY <1>8 DEF m
<1> QED
  BY <1>1, <1>2, <1>5

(* If no line contradicts the one before it, none contradicts the last.    *)
LEMMA LengthsAgree ==
    ASSUME NEW lines, NEW n \in Nat, DOMAIN lines = 1 .. n,
           \A i \in OfKind(lines, "length") : LengthText(lines, i) \in {Empty, lines[i].text}
    PROVE  \A i \in OfKind(lines, "length") : lines[i].text \in {Empty, LengthText(lines, n + 1)}
<1> DEFINE lengths == OfKind(lines, "length")
           text == LengthText(lines, n + 1)
           odd == {i \in lengths : lines[i].text \notin {Empty, text}}
<1> SUFFICES ASSUME odd # {} PROVE FALSE
  OBVIOUS
<1>1. lengths \subseteq 1 .. n /\ odd \subseteq lengths
  BY DEF OfKind
<1>2. PICK i \in odd : \A k \in odd : k <= i
  BY <1>1, Greatest
<1>3. i \in lengths /\ i \in 1 .. n /\ lines[i].text \notin {Empty, text}
  BY <1>1, <1>2
<1> DEFINE later == {k \in lengths : i < k}
<1>4. later \subseteq 1 .. n
  BY <1>1
<1>5. CASE later = {}
  <2>1. \A k \in lengths : k < n + 1 => k <= i
    BY <1>1, <1>3, <1>5
  <2>2. i < n + 1 /\ n + 1 \in Nat
    BY <1>3
  <2>3. text = lines[i].text
    BY <1>3, <2>1, <2>2, LastLength
  <2> QED
    BY <1>3, <2>3
<1>6. CASE later # {}
  <2>1. later \subseteq Nat
    BY <1>4
  <2>2. PICK k \in later : \A m \in later : k <= m
    BY <1>6, <2>1, Least
  <2>3. k \in lengths /\ i < k /\ k \in Nat
    BY <1>4, <2>2
  <2>4. \A m \in lengths : m < k => m <= i
    <3> SUFFICES ASSUME NEW m \in lengths, m < k, ~(m <= i) PROVE FALSE
      OBVIOUS
    <3>1. m \in Nat /\ i < m
      BY <1>1, <1>3
    <3>2. m \in later
      BY <3>1
    <3> QED
      BY <2>2, <2>3, <3>1, <3>2
  <2>5. LengthText(lines, k) = lines[i].text
    BY <1>3, <2>3, <2>4, LastLength
  <2>6. lines[k].text = lines[i].text
    BY <1>3, <2>3, <2>5
  <2>7. k \in odd
    BY <1>3, <2>3, <2>6
  <2> QED
    BY <1>2, <1>3, <2>3, <2>7
<1> QED
  BY <1>5, <1>6
(* What ScriptGetsWholeBody says of one header and a number of bytes.      *)
Whole(lines, n) ==
    LET texts == {lines[i].text : i \in OfKind(lines, "length")}
    IN  /\ texts = {} => n = 0
        /\ \A t \in texts : IF t = Empty THEN n = 0 ELSE t.is = "number" /\ t.n = n

(* A header that the strict parser takes, with a body no shorter than it   *)
(* says, gives every line of it the same length.                           *)
LEMMA WholeBody ==
    ASSUME NEW lines, NEW n \in Nat, Len(lines) = n, DOMAIN lines = 1 .. n,
           \A i \in 1 .. n : \/ lines[i].text = Empty
                             \/ lines[i].text.is \in {"number", "word", "huge"} /\ lines[i].text.n \in Nat,
           \A i \in OfKind(lines, "length") : LengthText(lines, i) \in {Empty, lines[i].text},
           LengthText(lines, n + 1).is \notin {"word", "huge"},
           NEW sent \in 0 .. ContentLength(lines), ~(BodyRead(lines, sent) < ContentLength(lines))
    PROVE  Whole(lines, BodyRead(lines, sent))
<1> DEFINE lengths == OfKind(lines, "length")
           texts == {lines[i].text : i \in lengths}
           last == LengthText(lines, n + 1)
           length == ContentLength(lines)
           read == BodyRead(lines, sent)
           toRead == LengthToRead(lines)
           values == {t.n : t \in texts}
           numbers == \A t \in texts : t.is = "number"
<1>1. \A t \in texts : t = Empty \/ (t.is \in {"number", "word", "huge"} /\ t.n \in Nat)
  BY DEF OfKind
<1>2. \A t \in texts : t \in {Empty, last}
  BY LengthsAgree
<1>3. last \in texts \cup {Empty}
  <2>1. CASE lengths = {}
    <3>1. {k \in lengths : k < n + 1} = {}
      BY <2>1
    <3> QED
      BY <3>1 DEF LengthText
  <2>2. CASE lengths # {}
    <3>1. lengths \subseteq 1 .. n
      BY DEF OfKind
    <3>2. Max(lengths) \in lengths /\ \A k \in lengths : k <= Max(lengths)
      BY <2>2, <3>1, Greatest
    <3> DEFINE m == Max(lengths)
    <3>3. m \in lengths /\ m < n + 1 /\ n + 1 \in Nat /\ \A k \in lengths : k < n + 1 => k <= m
      BY <3>1, <3>2
    <3> HIDE DEF m
    <3>4. last = lines[m].text
      BY <3>3, LastLength
    <3> QED
      BY <3>3, <3>4
  <2> QED
    BY <2>1, <2>2
<1>4. length = IF last.is = "number" THEN last.n ELSE 0
  BY DEF ContentLength
<1>5. toRead = IF numbers /\ \E v \in values : values = {v} THEN CHOOSE v \in values : TRUE ELSE 0
  BY DEF LengthToRead
<1>6. read = Min({sent, toRead})
  BY DEF BodyRead
<1>7. Empty.is = "empty"
  BY DEF Empty, Text
<1>8. last.is \notin {"word", "huge"} /\ sent \in 0 .. length /\ ~(read < length)
  OBVIOUS
<1>9. /\ texts = {} => read = 0
      /\ \A t \in texts : (t = Empty => read = 0) /\ (t # Empty => t.is = "number" /\ t.n = read)
      => Whole(lines, read)
  BY DEF Whole
<1> SUFFICES Whole(lines, read)
  OBVIOUS
<1> HIDE DEF texts, last, length, read, toRead, lengths
<1>10. values \subseteq Nat \/ ~numbers
  BY <1>1, <1>7
<1>11. length \in Nat
  BY <1>1, <1>3, <1>4, <1>7
<1>12. toRead \in Nat
  BY <1>5, <1>10
<1> HIDE DEF values, numbers
<1>13. read = length
  <2>1. sent \in Nat /\ sent <= length
    BY <1>8, <1>11
  <2> DEFINE least == IF sent <= toRead THEN sent ELSE toRead
  <2>2. least \in {sent, toRead} /\ \A y \in {sent, toRead} : least <= y
    BY <1>12, <2>1
  <2>3. Min({sent, toRead}) \in {sent, toRead} /\ \A y \in {sent, toRead} : Min({sent, toRead}) <= y
    BY <2>2 DEF Min
  <2>4. read \in Nat /\ read <= sent
    BY <1>6, <1>12, <2>1, <2>3
  <2> QED
    BY <1>8, <1>11, <2>1, <2>4
<1>14. read <= toRead
  <2>1. sent \in Nat
    BY <1>8, <1>11
  <2> DEFINE least == IF sent <= toRead THEN sent ELSE toRead
  <2>2. least \in {sent, toRead} /\ \A y \in {sent, toRead} : least <= y
    BY <1>12, <2>1
  <2>3. Min({sent, toRead}) <= toRead
    BY <2>2 DEF Min
  <2> QED
    BY <1>6, <2>3
<1>15. CASE ~numbers
  <2>1. toRead = 0
    BY <1>5, <1>15
  <2>2. read = 0 /\ length = 0
    BY <1>11, <1>13, <1>14, <2>1
  <2>3. ASSUME NEW t \in texts, t # Empty PROVE t.is = "number" /\ t.n = 0
    <3>1. t = last /\ t.is \in {"number", "word", "huge"}
      BY <1>1, <1>2, <2>3
    <3>2. t.is = "number"
      BY <1>8, <3>1
    <3> QED
      BY <1>4, <2>2, <3>1, <3>2
  <2> QED
    BY <1>9, <2>2, <2>3
<1>16. CASE numbers
  <2>1. \A t \in texts : t.is = "number" /\ t # Empty
    BY <1>7, <1>16 DEF numbers
  <2>2. \A t \in texts : t.n = read
    BY <1>2, <1>4, <1>13, <2>1
  <2>3. texts = {} => read = 0
    BY <1>3, <1>4, <1>7, <1>13
  <2> QED
    BY <1>9, <2>1, <2>2, <2>3
<1> QED
  BY <1>15, <1>16
(* What a header must be to be taken.                                      *)
LEMMA HeaderTaken ==
    ASSUME NEW q, NEW n \in Nat, DOMAIN q.lines = 1 .. n, Len(q.lines) = n, NEW a, NEW b, NEW strict,
           HeaderStatus(q, a, b, strict) = 200
    PROVE  /\ \A i \in OfKind(q.lines, "length") : LengthText(q.lines, i) \in {Empty, q.lines[i].text}
           /\ LengthText(q.lines, n + 1).is \notin {"word", "huge"}
<1> DEFINE lines == q.lines
           refused == {i \in DOMAIN lines : LineStatus(lines, i, a, strict) # 200}
           text == LengthText(lines, Len(lines) + 1)
           c1 == ~q.old /\ OfKind(lines, "host") = {}
           c2 == text.is \in {"word", "huge"}
           c3 == text.is = "number" /\ text.n > b
           last == FirstOf(<< <<c1, 400>>, <<c2, 400>>, <<c3, 413>> >>, 200)
           line == LineStatus(lines, Min(refused), a, strict)
<1>1. 200 = IF q.first # 200 THEN q.first ELSE IF refused # {} THEN line ELSE last
  BY DEF HeaderStatus
<1>2. c2 <=> text.is \in {"word", "huge"}
  OBVIOUS
<1> HIDE DEF c1, c2, c3
<1>3. last = IF c1 THEN 400 ELSE IF c2 THEN 400 ELSE IF c3 THEN 413 ELSE 200
  BY First3
<1>4. refused = {}
  <2> SUFFICES ASSUME refused # {} PROVE FALSE
    OBVIOUS
  <2>1. refused \subseteq Nat
    OBVIOUS
  <2> HIDE DEF refused
  <2>2. PICK m \in refused : \A j \in refused : m <= j
    BY <2>1, Least
  <2>3. Min(refused) = m
    BY <2>1, <2>2, LeastIndex
  <2>4. Min(refused) \in refused
    BY <2>2, <2>3
  <2>5. line # 200
    BY <2>4 DEF refused
  <2> QED
    BY <1>1, <2>5
<1>5. text.is \notin {"word", "huge"}
  <2> HIDE DEF refused, line, last
  <2>1. last = 200
    BY <1>1, <1>4
  <2> QED
    BY <1>2, <1>3, <2>1
<1>6. ASSUME NEW i \in OfKind(lines, "length") PROVE LengthText(lines, i) \in {Empty, lines[i].text}
  <2> DEFINE kind == lines[i].kind
             earlier == LengthText(lines, i)
             d1 == kind = "long" \/ i > a
             d2 == kind = "malformed" \/ (strict /\ kind = "control")
             d3 == kind = "host" /\ \E j \in OfKind(lines, "host") : j < i
             d4 == kind = "encoding"
             d5 == kind = "length" /\ earlier \notin {Empty, lines[i].text}
  <2>1. LineStatus(lines, i, a, strict)
          = FirstOf(<< <<d1, 431>>, <<d2, 400>>, <<d3, 400>>, <<d4, 501>>, <<d5, 400>> >>, 200)
    BY DEF LineStatus
  <2>2. i \in DOMAIN lines /\ kind = "length"
    BY <1>6 DEF OfKind
  <2>3. LineStatus(lines, i, a, strict) = 200
    BY <1>4, <2>2
  <2>4. d5 <=> earlier \notin {Empty, lines[i].text}
    BY <2>2
  <2> HIDE DEF d1, d2, d3, d4, d5
  <2>5. FirstOf(<< <<d1, 431>>, <<d2, 400>>, <<d3, 400>>, <<d4, 501>>, <<d5, 400>> >>, 200)
          = IF d1 THEN 431 ELSE IF d2 THEN 400 ELSE IF d3 THEN 400 ELSE IF d4 THEN 501
            ELSE IF d5 THEN 400 ELSE 200
    BY First5
  <2>6. ~d5
    BY <2>1, <2>3, <2>5
  <2> QED
    BY <2>4, <2>6
<1> QED
  BY <1>5, <1>6

LEMMA RefusalPassed ==
    ASSUME NEW q, Refusal(q) = 200
    PROVE  /\ HeaderStatus(q, config.maxHeaders, config.maxBody, TRUE) = 200
           /\ ~(BodyRead(q.lines, q.sent) < Length(q))
<1> DEFINE s == StrictStatus(q)
           header == HeaderStatus(q, config.maxHeaders, config.maxBody, TRUE)
           a == SizeRead(q) > config.maxRequest
           b == s # 200
           c == q.method \notin {"GET", "HEAD", "POST"}
           d == Length(q) > 0 /\ q.method # "POST"
           e == ~q.tls /\ config.forceHttps
           less == BodyRead(q.lines, q.sent) < Length(q)
<1>1. 200 = FirstOf(<< <<a, 400>>, <<b, s>>, <<c, 405>>, <<d, 413>>, <<e, 308>> >>, 200)
  BY DEF Refusal
<1>2. b <=> s # 200
  OBVIOUS
<1>3. s = IF header = 200 /\ less THEN 400 ELSE header
  BY DEF StrictStatus
<1> HIDE DEF a, b, c, d, e, s, header, less
<1>4. 200 = IF a THEN 400 ELSE IF b THEN s ELSE IF c THEN 405 ELSE IF d THEN 413 ELSE IF e THEN 308 ELSE 200
  BY <1>1, First5
<1>5. s = 200
  BY <1>2, <1>4
<1>6. header = 200 /\ ~less
  BY <1>3, <1>5
<1> QED
  BY <1>6 DEF header, less

(* What StrictHttpParser leaves for a script.                              *)
LEMMA ScriptBody ==
    ASSUME Given, NEW r \in Handlers, Refusal(request[r]) = 200
    PROVE  Whole(request[r].lines, BodyRead(request[r].lines, request[r].sent))
<1> DEFINE q == request[r]
           lines == q.lines
           n == Len(lines)
           strict == TRUE
           a == config.maxHeaders
           b == config.maxBody
           sent == q.sent
<1>1. IsRequest(q)
  BY InputAssumption DEF Given
<1>2. /\ lines \in Seq({lines[i] : i \in DOMAIN lines})
      /\ \A i \in DOMAIN lines : \/ lines[i].text = Empty
                                 \/ lines[i].text.is \in {"number", "word", "huge"} /\ lines[i].text.n \in Nat
      /\ sent \in 0 .. ContentLength(lines)
  BY <1>1 DEF IsRequest
<1>3. HeaderStatus(q, a, b, strict) = 200 /\ ~(BodyRead(lines, sent) < ContentLength(lines))
  BY RefusalPassed DEF Length
<1> HIDE DEF strict, a, b, sent
<1>4. n \in Nat /\ DOMAIN lines = 1 .. n
  <2> HIDE DEF lines
  <2> QED
    BY <1>2
<1> DEFINE m == n
<1>5. m \in Nat /\ DOMAIN q.lines = 1 .. m /\ Len(q.lines) = m
  BY <1>4
<1> HIDE DEF m
<1>6. /\ \A i \in OfKind(q.lines, "length") : LengthText(q.lines, i) \in {Empty, q.lines[i].text}
      /\ LengthText(q.lines, m + 1).is \notin {"word", "huge"}
  <2> HIDE DEF q
  <2> QED
    BY <1>3, <1>5, HeaderTaken
<1>7. \A i \in 1 .. m : \/ lines[i].text = Empty
                        \/ lines[i].text.is \in {"number", "word", "huge"} /\ lines[i].text.n \in Nat
  BY <1>2, <1>5
<1> HIDE DEF lines
<1>8. Whole(lines, BodyRead(lines, sent))
  BY <1>2, <1>3, <1>5, <1>6, <1>7, WholeBody DEF lines
<1> QED
  BY <1>8 DEF lines, sent
-----------------------------------------------------------------------------
(* The way to a file, which no handler of an endpoint has: past the strict *)
(* parser, to a file that its host may show.                               *)
Root(r) == selectDocumentRoot(request[r].host)

Public(r) ==
    /\ local[r].file = Resolve(Root(r), request[r].path) /\ local[r].file # Absent
    /\ ~Forbidden(Root(r), local[r].file, config)

ServedInv(r) ==
    /\ pc[r] \in {"rules", "rulefile", "find"} => Refusal(request[r]) = 200 /\ Public(r)
    /\ pc[r] \notin {"rules", "rulefile", "find", "answered", "lost"} => local[r].file = Absent
    /\ answer[r].status \in {200, 304} /\ local[r].file # Absent =>
         Public(r) /\ Place(local[r].file) # Absent /\ Kind[Place(local[r].file)] = "file"
    /\ scripts[r] # Absent => Whole(request[r].lines, scripts[r])

AllServedInv ==
    /\ scripts = [r \in Handlers |-> scripts[r]]
    /\ \A r \in Handlers : ServedInv(r)

LEMMA ServedInit == Init => AllServedInv
<1> SUFFICES ASSUME Init PROVE AllServedInv
  OBVIOUS
<1>1. scripts = [r \in Handlers |-> scripts[r]]
  BY DEF Init
<1>2. ASSUME NEW r \in Handlers PROVE ServedInv(r)
  <2>1. pc[r] = "read" /\ answer[r].status = 0 /\ local[r].file = Absent /\ scripts[r] = Absent
    BY DEF Init, NoAnswer, NoLocals
  <2> QED
    BY <2>1 DEF ServedInv
<1> QED
  BY <1>1, <1>2 DEF AllServedInv

LEMMA RefusalKept ==
    ASSUME config' = config, request' = request, NEW r \in Handlers
    PROVE  Refusal(request[r])' = Refusal(request[r])
BY DEF Refusal, StrictStatus, SizeRead, Length

LEMMA PublicKept ==
    ASSUME config' = config, request' = request, NEW r \in Handlers, local'[r].file = local[r].file,
           Public(r)
    PROVE  Public(r)'
BY DEF Public, Root, Forbidden

LEMMA ServedFrame ==
    ASSUME AllServedInv, config' = config, request' = request, NEW h \in Handlers,
           pc'[h] = pc[h], answer'[h] = answer[h], local'[h] = local[h], scripts'[h] = scripts[h]
    PROVE  ServedInv(h)'
<1>1. ServedInv(h)
  BY DEF AllServedInv
<1>2. /\ Refusal(request[h])' = Refusal(request[h]) /\ Whole(request[h].lines, scripts[h])' = Whole(request[h].lines, scripts[h])
  BY DEF Refusal, StrictStatus, SizeRead, Length, Whole
<1>3. Public(h)' = Public(h)
  BY DEF Public, Root, Forbidden
<1> QED
  BY <1>1, <1>2, <1>3 DEF ServedInv

(* The handler of an endpoint, and a refusal before the file is known.     *)
LEMMA NoFileStep ==
    ASSUME RequestInv, AllServedInv, NEW r \in Handlers, config' = config, request' = request,
           pc[r] \notin {"rules", "rulefile", "find", "answered", "lost"}, pc'[r] \notin {"rules", "rulefile", "find"},
           scripts' = scripts, local'[r].file = local[r].file,
           \A h \in Handlers \ {r} : pc'[h] = pc[h] /\ answer'[h] = answer[h] /\ local'[h] = local[h]
    PROVE  AllServedInv'
<1>1. local'[r].file = Absent /\ (scripts[r] # Absent => Whole(request[r].lines, scripts[r]))
  BY DEF AllServedInv, ServedInv
<1>2. ServedInv(r)'
  BY <1>1 DEF ServedInv
<1>3. \A h \in Handlers \ {r} : ServedInv(h)'
  BY ServedFrame
<1> QED
  BY <1>2, <1>3 DEF AllServedInv
Elsewhere == Points \ {"rules", "rulefile", "find"}

Moves(r) ==
    /\ \E to \in Elsewhere : GoTo(r, to)
    /\ answer' = answer \/ \E status, files : Reply(r, status, files)

LEMMA Moved ==
    ASSUME Types, NEW r \in Handlers, Moves(r)
    PROVE  /\ pc'[r] \notin {"rules", "rulefile", "find"}
           /\ \A h \in Handlers \ {r} : pc'[h] = pc[h] /\ answer'[h] = answer[h]
<1>1. PICK to \in Elsewhere : GoTo(r, to)
  BY DEF Moves
<1>2. pc'[r] = to /\ \A h \in Handlers \ {r} : pc'[h] = pc[h]
  BY <1>1, Goes DEF Elsewhere
<1>3. \A h \in Handlers \ {r} : answer'[h] = answer[h]
  BY Replies DEF Moves
<1> QED
  BY <1>1, <1>2, <1>3 DEF Elsewhere

LEMMA ReplyMoves == \A r \in Handlers : (\E status, files : Reply(r, status, files)) => Moves(r)
BY DEF Moves, Reply, Elsewhere, Points

LEMMA ThrowMoves == \A r \in Handlers : Throw(r) => Moves(r)
BY DEF Moves, Throw, Elsewhere, Points

(* The steps away from the files: they leave the rules alone, and what a   *)
(* handler knows of its file.                                              *)
FileKept(r) ==
    /\ local'[r].file = local[r].file /\ local'[r].from = local[r].from
    /\ local'[r].to = local[r].to /\ local'[r].dir = local[r].dir
    /\ local'[r].denied = local[r].denied /\ local'[r].unread = local[r].unread

AwayStep(r) ==
    /\ config' = config /\ request' = request /\ htaccess' = htaccess /\ scripts' = scripts
    /\ pc[r] \notin {"rules", "rulefile", "find", "answered", "lost"}
    /\ Moves(r) /\ FileKept(r) /\ \A h \in Handlers \ {r} : local'[h] = local[h]

LEMMA PlainMoves ==
    ASSUME Types, NEW r \in Handlers,
           \/ Read(r) \/ Admin(r) \/ Upload(r)
           \/ ReceiveAll(r) \/ ReceiveLess(r) \/ ParseThrows(r) \/ Cleanup(r)
    PROVE  AwayStep(r)
<1>2. /\ config' = config /\ request' = request /\ htaccess' = htaccess /\ scripts' = scripts
      /\ local' = local /\ pc[r] \notin {"rules", "rulefile", "find", "answered", "lost"}
  BY DEF Read, Admin, Upload, ReceiveAll, ReceiveLess, ParseThrows, Cleanup, UploadRest
<1>3. Moves(r)
  <2>1. \/ Throw(r) \/ \E status, files : Reply(r, status, files)
        \/ answer' = answer /\ \E to \in {"admin", "upload", "serve", "spool", "parse"} : GoTo(r, to)
    <3>1. CASE Read(r)
      <4> DEFINE q == request[r]
                 to == IF q.target \in {"admin", "upload"} THEN q.target ELSE "serve"
                 status == HeaderStatus(q, config.maxHeaders, config.maxBody, FALSE)
      <4>1. to \in {"admin", "upload", "serve", "spool", "parse"}
        OBVIOUS
      <4>2. Throw(r) \/ Reply(r, status, {}) \/ (GoTo(r, to) /\ answer' = answer)
        BY <3>1 DEF Read
      <4> HIDE DEF to, status
      <4> QED
        BY <4>1, <4>2
    <3>2. CASE Admin(r) \/ Upload(r)
      BY <3>2 DEF Admin, Upload
    <3>3. CASE ReceiveAll(r) \/ ReceiveLess(r) \/ ParseThrows(r) \/ Cleanup(r)
      BY <3>3 DEF ReceiveAll, ReceiveLess, ParseThrows, Cleanup
    <3> QED
      BY <3>1, <3>2, <3>3
  <2>2. {"admin", "upload", "serve", "spool", "parse"} \subseteq Elsewhere
    BY DEF Elsewhere, Points
  <2> QED
    BY <2>1, <2>2, ReplyMoves, ThrowMoves DEF Moves
<1> QED
  BY <1>2, <1>3 DEF AwayStep, FileKept

LEMMA LocalMoves ==
    ASSUME Types, NEW r \in Handlers,
           SpoolOpen(r) \/ ParseBegin(r) \/ PartBegin(r) \/ PartContent(r)
    PROVE  AwayStep(r)
<1>1. local \in [Handlers -> Locals] /\ local[r] \in Locals
  BY DEF Types
<1>2. /\ config' = config /\ request' = request /\ htaccess' = htaccess /\ scripts' = scripts
      /\ pc[r] \notin {"rules", "rulefile", "find", "answered", "lost"}
  BY DEF SpoolOpen, ParseBegin, PartBegin, PartContent, UploadRest
<1> DEFINE Sets(r1) ==
             \/ local' = local
             \/ \E name, inode : local' = [local EXCEPT ![r1].name = name, ![r1].inode = inode]
             \/ \E source : local' = [local EXCEPT ![r1].source = source]
             \/ \E stored : local' = [local EXCEPT ![r1].stored = stored]
             \/ \E status : local' = [local EXCEPT ![r1].status = status]
             \/ \E status, files : local' = [local EXCEPT ![r1].status = status, ![r1].files = files]
             \/ \E part, files : local' = [local EXCEPT ![r1].part = part, ![r1].files = files]
<1>3. {"receive", "part", "content", "cleanup"} \subseteq Elsewhere
  BY DEF Elsewhere, Points
<1>4. ASSUME NEW status, ParseEnds(r, status) PROVE GoTo(r, "cleanup") /\ Sets(r)
  BY <1>4 DEF ParseEnds
<1>5. ASSUME NEW files, AfterPart(r, files)
      PROVE  (GoTo(r, "cleanup") \/ GoTo(r, "part")) /\ Sets(r)
  <2>1. CASE ParseEnds(r, 400)
    BY <1>4, <2>1
  <2>2. CASE local' = [local EXCEPT ![r].status = 200, ![r].files = files] /\ GoTo(r, "cleanup")
    BY <2>2
  <2>3. CASE local' = [local EXCEPT ![r].part = @ + 1, ![r].files = files] /\ GoTo(r, "part")
    BY <2>3
  <2> QED
    BY <1>5, <2>1, <2>2, <2>3 DEF AfterPart
<1>6. Moves(r) /\ Sets(r)
  <2>1. CASE SpoolOpen(r)
    <3>1. \/ Throw(r) /\ local' = local
          \/ GoTo(r, "receive") /\ answer' = answer
             /\ local' = [local EXCEPT ![r].name = SpoolName, ![r].inode = spool'[SpoolName].inode]
      BY <2>1 DEF SpoolOpen
    <3>2. Throw(r) \/ (GoTo(r, "receive") /\ answer' = answer)
      BY <3>1
    <3>3. Moves(r)
      BY <1>3, <3>2, ThrowMoves DEF Moves
    <3>4. Sets(r)
      BY <3>1
    <3> QED
      BY <3>3, <3>4
  <2>2. CASE ParseBegin(r) \/ PartBegin(r) \/ PartContent(r)
    <3>1. answer' = answer
      BY <2>2 DEF ParseBegin, PartBegin, PartContent
    <3>2. \/ \E status : ParseEnds(r, status)
          \/ \E files : AfterPart(r, files)
          \/ GoTo(r, "part") /\ \E source : local' = [local EXCEPT ![r].source = source]
          \/ GoTo(r, "content") /\ \E stored : local' = [local EXCEPT ![r].stored = stored]
      <4>1. CASE ParseBegin(r)
        BY <4>1 DEF ParseBegin
      <4>2. CASE PartBegin(r)
        BY <4>2 DEF PartBegin
      <4>3. CASE PartContent(r)
        BY <4>3 DEF PartContent
      <4> QED
        BY <2>2, <4>1, <4>2, <4>3
    <3>3. (GoTo(r, "part") \/ GoTo(r, "content") \/ GoTo(r, "cleanup")) /\ Sets(r)
      BY <1>4, <1>5, <3>2
    <3>4. Moves(r)
      BY <1>3, <3>1, <3>3 DEF Moves
    <3> QED
      BY <3>3, <3>4
  <2> QED
    BY <2>1, <2>2
<1>7. FileKept(r) /\ \A h \in Handlers \ {r} : local'[h] = local[h]
  <2>1. \A h \in Handlers \ {r} : local'[h] = local[h]
    BY <1>1, <1>6
  <2>2. local'[r].file = local[r].file
    BY ZenonT(40), <1>1, <1>6 DEF Locals
  <2>3. local'[r].from = local[r].from
    BY ZenonT(40), <1>1, <1>6 DEF Locals
  <2>4. local'[r].to = local[r].to
    BY ZenonT(40), <1>1, <1>6 DEF Locals
  <2>5. local'[r].dir = local[r].dir
    BY ZenonT(40), <1>1, <1>6 DEF Locals
  <2>6. local'[r].denied = local[r].denied
    BY ZenonT(40), <1>1, <1>6 DEF Locals
  <2>7. local'[r].unread = local[r].unread
    BY ZenonT(40), <1>1, <1>6 DEF Locals
  <2> QED
    BY <2>1, <2>2, <2>3, <2>4, <2>5, <2>6, <2>7 DEF FileKept
<1> QED
  BY <1>2, <1>6, <1>7 DEF AwayStep

LEMMA AwaySteps ==
    ASSUME RequestInv, AllServedInv, NEW r \in Handlers, AwayStep(r)
    PROVE  AllServedInv'
<1>1. Types /\ Moves(r)
  BY DEF RequestInv, AwayStep
<1> QED
  BY <1>1, Moved, NoFileStep DEF AwayStep, FileKept

LEMMA ServeServed ==
    ASSUME RequestInv, AllServedInv, NEW r \in Handlers, Serve(r) PROVE AllServedInv'
<1> DEFINE file == Resolve(Root(r), request[r].path)
           refusal == Refusal(request[r])
           refused == file = Absent \/ Forbidden(Root(r), file, config)
           dirs == RuleDirs(Root(r), file)
           to == IF config.htaccess /\ dirs # <<>> THEN "rules" ELSE "find"
<1>1. Types /\ local \in [Handlers -> Locals] /\ local[r] \in Locals
  BY DEF RequestInv, Types
<1>2. /\ config' = config /\ request' = request /\ scripts' = scripts /\ pc[r] = "serve"
      /\ \/ Throw(r) /\ local' = local
         \/ Reply(r, refusal, {}) /\ local' = local
         \/ /\ refusal = 200 /\ local' = [local EXCEPT ![r].file = file, ![r].from = Len(htaccess)]
            /\ \/ Reply(r, 403, {})
               \/ ~refused /\ GoTo(r, to) /\ answer' = answer
  BY DEF Serve, ServeRest, Root
<1>3. ServedInv(r) /\ AuditInv(r)
  BY DEF RequestInv, HandlerInv, AllServedInv
<1>4. to \in {"rules", "rulefile", "find"} /\ to \in Points
  BY DEF Points
<1>5. (~refused => file # Absent /\ ~Forbidden(Root(r), file, config))
  OBVIOUS
<1> HIDE DEF refused, to
<1>6. CASE Throw(r) /\ local' = local
  BY <1>1, <1>2, <1>6, ThrowMoves, Moved, NoFileStep
<1>7. CASE Reply(r, refusal, {}) /\ local' = local
  <2> HIDE DEF refusal
  <2> QED
    BY <1>1, <1>2, <1>7, ReplyMoves, Moved, NoFileStep
<1>8. CASE /\ refusal = 200 /\ local' = [local EXCEPT ![r].file = file, ![r].from = Len(htaccess)]
           /\ \/ Reply(r, 403, {})
              \/ ~refused /\ GoTo(r, to) /\ answer' = answer
  <2>1. local'[r].file = file /\ \A h \in Handlers \ {r} : local'[h] = local[h]
    <3> HIDE DEF file
    <3> QED
      BY <1>1, <1>8 DEF Locals
  <2>2. /\ \A h \in Handlers \ {r} : pc'[h] = pc[h] /\ answer'[h] = answer[h]
        /\ \/ pc'[r] = "answered" /\ answer'[r].status = 403
           \/ ~refused /\ pc'[r] = to /\ answer'[r] = answer[r]
    <3>1. CASE Reply(r, 403, {})
      BY <1>1, <3>1, Replies
    <3>2. CASE ~refused /\ GoTo(r, to) /\ answer' = answer
      BY <1>1, <1>4, <3>2, Goes
    <3> QED
      BY <1>8, <3>1, <3>2
  <2>3. answer[r].status = 0 /\ (scripts[r] # Absent => Whole(request[r].lines, scripts[r]))
    BY <1>2, <1>3 DEF AuditInv, ServedInv
  <2>4. Refusal(request[r])' = 200
    BY <1>2, <1>8 DEF Refusal, StrictStatus, SizeRead, Length
  <2>5. pc'[r] \in {"rules", "rulefile", "find"} => Public(r)'
    <3> SUFFICES ASSUME pc'[r] \in {"rules", "rulefile", "find"} PROVE Public(r)'
      OBVIOUS
    <3>1. ~refused
      BY <2>2
    <3>2. file # Absent /\ ~Forbidden(Root(r), file, config)
      BY <1>5, <3>1
    <3> QED
      BY <1>2, <2>1, <3>2 DEF Public, Root, Forbidden
  <2>6. ServedInv(r)'
    <3>1. pc'[r] \in {"rules", "rulefile", "find", "answered"} /\ answer'[r].status \in {0, 403}
      BY <1>4, <2>2, <2>3
    <3> QED
      BY <1>2, <2>3, <2>4, <2>5, <3>1 DEF ServedInv
  <2>7. \A h \in Handlers \ {r} : ServedInv(h)'
    BY <1>2, <2>1, <2>2, ServedFrame
  <2> QED
    BY <1>2, <2>6, <2>7 DEF AllServedInv
<1> QED
  BY <1>2, <1>6, <1>7, <1>8

(* A handler that stays at its file, or leaves it without serving it.      *)
LEMMA StayServed ==
    ASSUME RequestInv, AllServedInv, NEW r \in Handlers, pc[r] \in {"rules", "rulefile", "find"},
           config' = config, request' = request, scripts' = scripts, local'[r].file = local[r].file,
           \A h \in Handlers \ {r} : pc'[h] = pc[h] /\ answer'[h] = answer[h] /\ local'[h] = local[h],
           \/ pc'[r] = "answered" /\ answer'[r].status = 403
           \/ pc'[r] \in {"rules", "rulefile", "find", "lost"} /\ answer'[r] = answer[r]
    PROVE  AllServedInv'
<1>1. ServedInv(r) /\ AuditInv(r)
  BY DEF RequestInv, HandlerInv, AllServedInv
<1>2. /\ answer[r].status = 0 /\ (scripts[r] # Absent => Whole(request[r].lines, scripts[r]))
      /\ Refusal(request[r]) = 200 /\ Public(r)
  BY <1>1 DEF AuditInv, ServedInv, Pages
<1>3. Refusal(request[r])' = 200
  BY <1>2, RefusalKept
<1>4. Public(r)'
  BY <1>2, PublicKept
<1>5. ServedInv(r)'
  <2>1. /\ pc'[r] \in {"rules", "rulefile", "find", "answered", "lost"}
        /\ answer'[r].status \in {0, 403}
    BY <1>2
  <2> QED
    BY <1>2, <1>3, <1>4, <2>1 DEF ServedInv
<1>6. \A h \in Handlers \ {r} : ServedInv(h)'
  BY ServedFrame
<1> QED
  BY <1>5, <1>6 DEF AllServedInv

LEMMA NextDirServed ==
    ASSUME RequestInv, AllServedInv, NEW r \in Handlers, pc[r] \in {"rules", "rulefile"},
           NEW denied, NEW unread, NextDir(r, denied, unread), scripts' = scripts, ServeRest
    PROVE  AllServedInv'
<1> DEFINE to == IF local[r].dir = Len(Dirs(r)) THEN "find" ELSE "rules"
           next == local[r].dir + 1
           last == Len(htaccess)
<1>1. Types /\ local \in [Handlers -> Locals] /\ local[r] \in Locals
  BY DEF RequestInv, Types
<1>2. /\ local' = [local EXCEPT ![r].denied = denied, ![r].dir = next, ![r].to = last,
                              ![r].unread = unread]
      /\ Reply(r, 403, {}) \/ (GoTo(r, to) /\ answer' = answer)
  BY DEF NextDir
<1>3. to \in {"rules", "find"} /\ to \in Points
  BY DEF Points
<1> HIDE DEF to, next, last
<1>4. local'[r].file = local[r].file /\ \A h \in Handlers \ {r} : local'[h] = local[h]
  BY <1>1, <1>2 DEF Locals
<1>5. /\ \A h \in Handlers \ {r} : pc'[h] = pc[h] /\ answer'[h] = answer[h]
      /\ \/ pc'[r] = "answered" /\ answer'[r].status = 403
         \/ pc'[r] = to /\ answer'[r] = answer[r]
  <2>1. CASE Reply(r, 403, {})
    BY <1>1, <2>1, Replies
  <2>2. CASE GoTo(r, to) /\ answer' = answer
    BY <1>1, <1>3, <2>2, Goes
  <2> QED
    BY <1>2, <2>1, <2>2
<1>6. \/ pc'[r] = "answered" /\ answer'[r].status = 403
      \/ pc'[r] \in {"rules", "rulefile", "find", "lost"} /\ answer'[r] = answer[r]
  BY <1>3, <1>5
<1>7. config' = config /\ request' = request
  BY DEF ServeRest
<1> QED
  BY <1>4, <1>5, <1>6, <1>7, StayServed

LEMMA LookForRulesServed ==
    ASSUME RequestInv, AllServedInv, NEW r \in Handlers, LookForRules(r) PROVE AllServedInv'
<1>1. /\ pc[r] = "rules" /\ ServeRest /\ scripts' = scripts
      /\ \/ NextDir(r, local[r].denied, local[r].unread)
         \/ local' = local /\ (Throw(r) \/ (GoTo(r, "rulefile") /\ answer' = answer))
  BY DEF LookForRules
<1>2. CASE NextDir(r, local[r].denied, local[r].unread)
  BY <1>1, <1>2, NextDirServed
<1>3. ASSUME NEW to \in {"lost", "rulefile"}, GoTo(r, to), answer' = answer, local' = local
      PROVE  AllServedInv'
  <2>1. Types /\ to \in Points
    BY DEF RequestInv, Points
  <2>2. pc'[r] = to /\ \A h \in Handlers \ {r} : pc'[h] = pc[h]
    BY <1>3, <2>1, Goes
  <2>3. config' = config /\ request' = request
    BY <1>1 DEF ServeRest
  <2> QED
    BY <1>1, <1>3, <2>2, <2>3, StayServed
<1> QED
  BY <1>1, <1>2, <1>3 DEF Throw

LEMMA ReadRulesServed ==
    ASSUME RequestInv, AllServedInv, NEW r \in Handlers, ReadRules(r) PROVE AllServedInv'
<1>1. /\ pc[r] = "rulefile" /\ ServeRest /\ scripts' = scripts
      /\ \E denied, unread : NextDir(r, denied, unread)
  BY DEF ReadRules
<1> QED
  BY <1>1, NextDirServed

LEMMA FindServed ==
    ASSUME RequestInv, AllServedInv, NEW r \in Handlers, Find(r) PROVE AllServedInv'
<1> DEFINE q == request[r]
           file == local[r].file
           place == Place(file)
           script == Last(file) \in Scripts
           a == place = Absent \/ Kind[place] # "file"
           b == script /\ ~config.php
           c == ~script /\ q.method = "POST"
           refusal == FirstOf(<< <<a, 404>>, <<b, 403>>, <<c, 405>> >>, 200)
           read == BodyRead(q.lines, q.sent)
<1>1. Types /\ Given
  BY DEF RequestInv, Types
<1>2. /\ config' = config /\ request' = request /\ local' = local /\ pc[r] = "find"
      /\ \/ refusal # 200 /\ Reply(r, refusal, {}) /\ scripts' = scripts
         \/ /\ refusal = 200 /\ \E status : Reply(r, status, {})
            /\ scripts' = [scripts EXCEPT ![r] = read] \/ scripts' = scripts
         \/ Throw(r) /\ scripts' = scripts
  BY DEF Find, ServeRest
<1>20. ~a => place # Absent /\ Kind[place] = "file"
  OBVIOUS
<1> HIDE DEF a, b, c
<1>3. refusal = IF a THEN 404 ELSE IF b THEN 403 ELSE IF c THEN 405 ELSE 200
  BY First3
<1> HIDE DEF refusal, place
<1>4. refusal \in {404, 403, 405, 200} /\ (refusal = 200 => ~a)
  BY <1>3
<1>5. ServedInv(r) /\ scripts = [h \in Handlers |-> scripts[h]]
  BY DEF AllServedInv
<1>6. Refusal(q) = 200 /\ Public(r) /\ (scripts[r] # Absent => Whole(q.lines, scripts[r]))
  BY <1>2, <1>5 DEF ServedInv
<1>7. Whole(q.lines, read)
  BY <1>1, <1>6, ScriptBody
<1> HIDE DEF read
<1>8. CASE Throw(r) /\ scripts' = scripts
  <2>1. GoTo(r, "lost") /\ answer' = answer /\ "lost" \in Points
    BY <1>8 DEF Throw, Points
  <2>2. pc'[r] = "lost" /\ \A h \in Handlers \ {r} : pc'[h] = pc[h]
    BY <1>1, <2>1, Goes
  <2> QED
    BY <1>2, <1>8, <2>1, <2>2, StayServed
<1>9. CASE ~(Throw(r) /\ scripts' = scripts)
  <2>1. \E status : Reply(r, status, {})
    BY <1>2, <1>9
  <2>2. pc'[r] = "answered" /\ \A h \in Handlers \ {r} : pc'[h] = pc[h] /\ answer'[h] = answer[h]
    BY <1>1, <2>1, Replies
  <2>3. answer'[r].status \in {200, 304} => place # Absent /\ Kind[place] = "file"
    <3>1. CASE refusal # 200 /\ Reply(r, refusal, {})
      <4>1. answer'[r].status = refusal
        BY <1>1, <3>1, Replies
      <4> QED
        BY <1>4, <3>1, <4>1
    <3>2. CASE refusal = 200
      BY <1>4, <1>20, <3>2
    <3> QED
      BY <1>2, <1>9, <3>1, <3>2
  <2>4. /\ scripts' = [h \in Handlers |-> scripts'[h]] /\ scripts'[r] \in {scripts[r], read}
        /\ \A h \in Handlers \ {r} : scripts'[h] = scripts[h]
    <3>1. scripts' = scripts \/ scripts' = [scripts EXCEPT ![r] = read]
      BY <1>2
    <3> QED
      BY <1>5, <3>1
  <2>5. Public(r)'
    BY <1>2, <1>6, PublicKept
  <2>6. scripts'[r] # Absent => Whole(request[r].lines, scripts'[r])
    BY <1>6, <1>7, <2>4
  <2>7. ServedInv(r)'
    BY <1>2, <2>2, <2>3, <2>5, <2>6 DEF ServedInv, place
  <2>8. \A h \in Handlers \ {r} : ServedInv(h)'
    BY <1>2, <2>2, <2>4, ServedFrame
  <2> QED
    BY <2>4, <2>7, <2>8 DEF AllServedInv
<1> QED
  BY <1>2, <1>8, <1>9

LEMMA ServedStep == RequestInv /\ AllServedInv /\ [Next]_vars => AllServedInv'
<1> SUFFICES ASSUME RequestInv, AllServedInv, [Next]_vars PROVE AllServedInv'
  OBVIOUS
<1>1. CASE Tick \/ EditRules \/ AllEnded \/ UNCHANGED vars
  <2>1. /\ config' = config /\ request' = request /\ scripts' = scripts /\ local' = local
        /\ pc' = pc /\ answer' = answer
    BY <1>1 DEF Tick, EditRules, AllEnded, vars
  <2> QED
    BY <2>1, ServedFrame DEF AllServedInv
<1>2. ASSUME NEW r \in Handlers, Handle(r) PROVE AllServedInv'
  <2>1. CASE Serve(r) \/ LookForRules(r) \/ ReadRules(r) \/ Find(r)
    BY <2>1, ServeServed, LookForRulesServed, ReadRulesServed, FindServed
  <2>2. CASE ~(Serve(r) \/ LookForRules(r) \/ ReadRules(r) \/ Find(r))
    <3>1. AwayStep(r)
      BY <1>2, <2>2, PlainMoves, LocalMoves DEF Handle, RequestInv
    <3> QED
      BY <3>1, AwaySteps
  <2> QED
    BY <2>1, <2>2
<1> QED
  BY <1>1, <1>2 DEF Next

(* The invariant of the way to a served file.                              *)
THEOREM ServedInvHolds == Spec => []AllServedInv
<1>1. Init => AllServedInv
  BY ServedInit
<1>2. RequestInv /\ AllServedInv /\ [Next]_vars => AllServedInv'
  BY ServedStep
<1> QED
  BY <1>1, <1>2, RequestInvHolds, PTL DEF Spec
(* A script gets the whole body, of the one length that all lines of the   *)
(* header agree on, or is not run.                                         *)
THEOREM ScriptBodyWhole == Spec => []ScriptGetsWholeBody
<1>1. AllServedInv => ScriptGetsWholeBody
  <2> SUFFICES ASSUME AllServedInv, NEW r \in Handlers, scripts[r] # Absent
               PROVE  LET lines == request[r].lines
                          texts == {lines[i].text : i \in OfKind(lines, "length")}
                      IN  /\ texts = {} => scripts[r] = 0
                          /\ \A t \in texts : IF t = Empty THEN scripts[r] = 0
                                                          ELSE t.is = "number" /\ t.n = scripts[r]
    BY DEF ScriptGetsWholeBody
  <2>1. Whole(request[r].lines, scripts[r])
    BY DEF AllServedInv, ServedInv
  <2> QED
    BY <2>1 DEF Whole
<1> QED
  BY <1>1, ServedInvHolds, PTL

(* Where a path's file is, there its canonical path is, and that is final: *)
(* so for the document roots, which exist.                                 *)
LEMMA PlaceOf ==
    ASSUME NEW path, Place(path) # Absent
    PROVE  /\ Canonical(path) = Place(path) /\ Place(path) \in DOMAIN Kind
           /\ Place(Place(path)) = Place(path) /\ Canonical(Place(path)) = Place(path)
           /\ IsPath(Place(path))
<1>1. Place(path) \in DOMAIN Kind
  BY DEF Place
<1>2. Place(Place(path)) = Place(path) /\ IsPath(Place(path))
  BY <1>1, TreeAssumption
<1>3. Canonical(path) = Place(path)
  BY DEF Canonical
<1>4. Canonical(Place(path)) = Place(path)
  BY <1>2 DEF Canonical
<1> QED
  BY <1>1, <1>2, <1>3, <1>4

LEMMA RootPlace ==
    ASSUME NEW host
    PROVE  LET top == Canonical(selectDocumentRoot(host))
           IN  IsPath(top) /\ Canonical(top) = top
<1>1. Place(selectDocumentRoot(host)) # Absent
  BY TreeAssumption DEF selectDocumentRoot
<1> QED
  BY <1>1, PlaceOf

(* What is served lies in the document root of the host that was asked for *)
(* and is not hidden, whatever the path, the links, the documents and the  *)
(* settings are; nor is its name one that is withheld, unless the target   *)
(* leads through a name that is not there.                                 *)
THEOREM PublicOnly == Spec => []OnlyPublicFiles
<1>1. AllServedInv => OnlyPublicFiles
  <2> SUFFICES ASSUME AllServedInv, NEW r \in Handlers, Served(r)
               PROVE  LET root   == selectDocumentRoot(request[r].host)
                          top    == Canonical(root)
                          place  == Place(local[r].file)
                          within == SubSeq(place, Len(top) + 1, Len(place))
                      IN  /\ place # Absent /\ Kind[place] = "file" /\ IsPrefix(top, place)
                          /\ \A i \in DOMAIN within :
                               config.denyHidden /\ within[i] \in Hidden
                                   => config.wellKnown /\ within[i] = ".well-known"
                          /\ Withheld(Last(place), config)
                               => Place(Candidate(root, request[r].path)) = Absent
    BY DEF OnlyPublicFiles
  <2> DEFINE root == selectDocumentRoot(request[r].host)
             file == local[r].file
             top == Canonical(root)
             place == Place(file)
             within == SubSeq(place, Len(top) + 1, Len(place))
             candidate == Candidate(root, request[r].path)
  <2>1. Public(r) /\ place # Absent /\ Kind[place] = "file"
    BY DEF AllServedInv, ServedInv, Served
  <2>2. file = Resolve(root, request[r].path) /\ file # Absent /\ ~Forbidden(root, file, config)
    BY <2>1 DEF Public, Root
  <2>3. Canonical(file) = place /\ IsPath(place)
    BY <2>1, PlaceOf
  <2>4. IsPath(top) /\ Canonical(top) = top
    BY RootPlace
  <2>5. file = Canonical(candidate) /\ InRoot(file, top)
    BY <2>2 DEF Resolve
  <2>6. IsPrefix(top, place)
    BY <2>3, <2>4, <2>5 DEF InRoot
  <2>7. Place(candidate) # Absent => place = file
    <3>1. ASSUME Place(candidate) # Absent PROVE place = file
      <4> HIDE DEF candidate, file
      <4>1. file = Place(candidate) /\ Place(Place(candidate)) = Place(candidate)
        BY <2>5, <3>1, PlaceOf
      <4> QED
        BY <4>1
    <3> QED
      BY <3>1
  <2>8. ~(config.denyHidden /\ HiddenWithin(Relative(place, top), config))
    BY <2>2, <2>3 DEF Forbidden
  <2>9. ~Withheld(Last(file), config)
    BY <2>2 DEF Forbidden
  <2> HIDE DEF root, file, top, place, candidate
  <2>10. ASSUME NEW i \in DOMAIN within, config.denyHidden, within[i] \in Hidden
         PROVE  config.wellKnown /\ within[i] = ".well-known"
    <3>1. CASE place = top
      <4>1. Len(top) \in Nat /\ place \in Seq({place[j] : j \in DOMAIN place})
        BY <2>3, <2>4 DEF IsPath
      <4>2. DOMAIN within = {}
        BY <3>1, <4>1
      <4> QED
        BY <2>10, <4>2
    <3>2. CASE place # top
      <4>1. Relative(place, top) = within
        BY <3>2 DEF Relative
      <4> HIDE DEF within
      <4>2. ~HiddenWithin(within, config)
        BY <2>8, <2>10, <4>1
      <4> QED
        BY <2>10, <4>2 DEF HiddenWithin
    <3> QED
      BY <3>1, <3>2
  <2> HIDE DEF within
  <2>11. Withheld(Last(place), config) => Place(candidate) = Absent
    BY <2>7, <2>9
  <2> QED
    BY <2>1, <2>6, <2>10, <2>11 DEF root, file, top, place, within, candidate
<1> QED
  BY <1>1, ServedInvHolds, PTL
-----------------------------------------------------------------------------
(* A handler looks at the .htaccess files one after the other while they   *)
(* may be edited.  Versions differ from the one before by one edit; Looked *)
(* gives the versions the handler saw, one for each directory it has read, *)
(* and what it has gathered from them.                                     *)
EditsInv ==
    \A v \in 1 .. Len(htaccess) - 1 : \E dir \in DOMAIN htaccess[v] :
        htaccess[v + 1] = [htaccess[v] EXCEPT ![dir] = htaccess[v + 1][dir]]

LinesSeen(r, seen, i) == LinesIn(htaccess[seen[i]], Dirs(r)[i])

(* The last of n directories with rules decides, if its could be read.     *)
Decided(lines, unread, n) ==
    \E i \in 1 .. n : /\ lines[i] # Absent /\ i \notin unread /\ Denies(lines[i])
                      /\ \A j \in 1 .. n : j > i => lines[j] = Absent

Looked(r, seen, n) ==
    /\ \A i, j \in 1 .. n : i < j => seen[i] <= seen[j]
    /\ \A i \in local[r].unread : i \in 1 .. n /\ LinesSeen(r, seen, i) # Absent
    /\ local[r].denied <=> Decided([i \in 1 .. n |-> LinesSeen(r, seen, i)], local[r].unread, n)

OnPage(r) == IsPage(local[r].file)

(* Where a handler is with its look, and what it does with the outcome.    *)
TimeInv(r) ==
    /\ local[r].from \in 0 .. Len(htaccess) /\ local[r].to \in 0 .. Len(htaccess)
    /\ pc[r] \notin {"rules", "rulefile", "find", "answered", "lost"} => local[r].to = 0
    /\ local[r].to = 0 => local[r].dir = 1 /\ ~local[r].denied /\ local[r].unread = {}
    /\ pc[r] \in {"rules", "rulefile"} => local[r].from >= 1
    /\ local[r].to > 0 => local[r].from \in 1 .. local[r].to /\ local[r].dir >= 2

(* The .htaccess that a handler is about to open was there when it looked. *)
Present(r) ==
    \E v \in 1 .. Len(htaccess) : /\ v >= local[r].from /\ v >= local[r].to
                                  /\ LinesIn(htaccess[v], Dirs(r)[local[r].dir]) # Absent

PageInv(r) ==
    /\ pc[r] \in {"rules", "rulefile"} => local[r].dir \in 1 .. Len(Dirs(r))
    /\ pc[r] = "rulefile" => Present(r)
    /\ local[r].to > 0 =>
         /\ pc[r] \notin {"rules", "rulefile", "lost"} => local[r].dir = Len(Dirs(r)) + 1
         /\ \E n \in 0 .. Len(Dirs(r)) :
              /\ n = local[r].dir - 1
              /\ \E seen \in [1 .. n -> local[r].from .. local[r].to] : Looked(r, seen, n)
         /\ pc[r] = "find" => ~local[r].denied
         /\ pc[r] = "answered" =>
              (answer[r].status = 403 => local[r].denied) /\ (Served(r) => ~local[r].denied)

RulesInv == EditsInv /\ \A r \in Handlers : TimeInv(r) /\ (OnPage(r) => PageInv(r))

(* The directories of a page: those that Reached names by their depth.     *)
LEMMA PageDirs ==
    ASSUME NEW host, NEW file, IsPage(file)
    PROVE  LET root  == selectDocumentRoot(host)
               top   == Canonical(root)
               dir   == Directory(file)
               first == Max({Len(top), Len(dir) - Depth + 1})
               dirs  == RuleDirs(root, file)
           IN  /\ IsPath(dir) /\ Len(dir) \in Nat /\ Len(dirs) \in Nat
               /\ dirs # <<>> =>
                    /\ first \in Nat /\ Len(dirs) >= 1 /\ Len(dirs) = Len(dir) - first + 1
                    /\ dirs = [i \in 1 .. Len(dirs) |-> SubSeq(dir, 1, first + i - 1)]
                    /\ Reached(top, dir) = first .. Len(dir)
<1> DEFINE root == selectDocumentRoot(host)
           top == Canonical(root)
           dir == Directory(file)
           m == Len(top)
           l == Len(dir)
           first == Max({m, l - Depth + 1})
           dirs == RuleDirs(root, file)
<1>1. IsPath(dir)
  <2>1. ~IsDirectory(Place(file)) /\ Place(Front(file)) # Absent
    BY TreeAssumption DEF IsPage, IsDirectory
  <2>2. dir = Place(Front(file))
    BY <2>1, PlaceOf DEF Directory
  <2> QED
    BY <2>1, <2>2, PlaceOf
<1>2. m \in Nat /\ l \in Nat /\ Depth \in Nat \ {0} /\ dir \in Seq({dir[i] : i \in DOMAIN dir})
  <2>1. IsPath(top) /\ Depth \in Nat \ {0}
    BY RootPlace, TreeAssumption
  <2> HIDE DEF top, dir
  <2> QED
    BY <1>1, <2>1 DEF IsPath
<1>3. dirs = IF Below(top, dir) THEN [i \in 1 .. l - first + 1 |-> SubSeq(dir, 1, first + i - 1)]
             ELSE <<>>
  BY DEF RuleDirs
<1>4. Below(top, dir) => m <= l
  BY DEF Below, IsPrefix
<1>5. Reached(top, dir) = {n \in m .. l : n > l - Depth}
  BY DEF Reached
<1> HIDE DEF top, dir, dirs
<1>6. PICK M \in Nat, L \in Nat, D \in Nat : M = m /\ L = l /\ D = Depth /\ D > 0
  <2>1. m \in Nat /\ l \in Nat /\ Depth \in Nat /\ Depth > 0
    BY <1>2
  <2> HIDE DEF m, l
  <2> QED
    BY <2>1
<1>7. PICK c \in Int : c = L - D + 1
  OBVIOUS
<1>8. first = IF M >= c THEN M ELSE c
  <2>1. first = Max({M, c})
    BY <1>6, <1>7
  <2>2. Max({M, c}) \in {M, c} /\ Max({M, c}) >= M /\ Max({M, c}) >= c
    <3>1. \E x \in {M, c} : \A y \in {M, c} : x >= y
      BY <1>6, <1>7
    <3> QED
      BY <3>1 DEF Max
  <2> QED
    BY <1>6, <1>7, <2>1, <2>2
<1> HIDE DEF first
<1>9. PICK F \in Nat : F = first /\ F >= M /\ F >= c /\ (F = M \/ F = c)
  <2>1. CASE M >= c
    BY <1>8, <2>1
  <2>2. CASE ~(M >= c)
    <3>1. c \in Nat /\ c >= M
      BY <2>2
    <3> QED
      BY <1>8, <2>2, <3>1
  <2> QED
    BY <2>1, <2>2
<1>10. CASE Below(top, dir)
  <2>1. M <= L /\ L - F + 1 \in Nat /\ L - F + 1 >= 1
    BY <1>4, <1>6, <1>7, <1>9, <1>10
  <2>2. dirs = [i \in 1 .. L - F + 1 |-> SubSeq(dir, 1, first + i - 1)]
    BY <1>3, <1>6, <1>9, <1>10
  <2>3. Len(dirs) = L - F + 1
    BY <2>1, <2>2
  <2>4. Reached(top, dir) = F .. L
    BY <1>5, <1>6, <1>7, <1>9
  <2> QED
    BY <1>1, <1>2, <1>6, <1>9, <2>1, <2>2, <2>3, <2>4 DEF top, dir, dirs, first
<1>11. CASE ~Below(top, dir)
  <2>1. dirs = <<>> /\ Len(dirs) = 0
    BY <1>3, <1>11
  <2> QED
    BY <1>1, <1>2, <2>1 DEF top, dir, dirs, first
<1> QED
  BY <1>10, <1>11

(* A round of evaluate's loop: the nearest directory with rules decides.   *)
LEMMA NextIndex ==
    ASSUME NEW n \in Nat, NEW lines, NEW old \in SUBSET (1 .. n), NEW new,
           NEW denied \in BOOLEAN, NEW after \in BOOLEAN, denied <=> Decided(lines, old, n),
           \/ lines[n + 1] = Absent /\ after = denied /\ new = old
           \/ lines[n + 1] # Absent /\ after = Denies(lines[n + 1]) /\ new = old
           \/ lines[n + 1] # Absent /\ after = FALSE /\ new = old \cup {n + 1}
    PROVE  after <=> Decided(lines, new, n + 1)
<1>1. /\ n + 1 \in 1 .. n + 1 /\ \A i \in 1 .. n + 1 : i \in 1 .. n \/ i = n + 1
      /\ \A i \in 1 .. n : i \in 1 .. n + 1 /\ n + 1 > i /\ ~(i > n + 1)
      /\ n + 1 \notin old
  OBVIOUS
<1>2. CASE lines[n + 1] = Absent /\ after = denied /\ new = old
  <2>1. Decided(lines, old, n + 1) <=> Decided(lines, old, n)
    BY <1>1, <1>2 DEF Decided
  <2> QED
    BY <1>2, <2>1
<1>3. CASE lines[n + 1] # Absent /\ after = Denies(lines[n + 1]) /\ new = old
  <2>1. Decided(lines, old, n + 1) <=> Denies(lines[n + 1])
    BY <1>1, <1>3 DEF Decided
  <2> QED
    BY <1>3, <2>1
<1>4. CASE lines[n + 1] # Absent /\ after = FALSE /\ new = old \cup {n + 1}
  <2>1. ~Decided(lines, new, n + 1)
    BY <1>1, <1>4 DEF Decided
  <2> QED
    BY <1>4, <2>1
<1> QED
  BY <1>2, <1>3, <1>4
LEMMA RulesInit == Init => RulesInv
<1> SUFFICES ASSUME Init PROVE RulesInv
  OBVIOUS
<1>1. PICK s \in Scenarios : htaccess = <<s.rules>>
  BY DEF Init
<1>2. Len(htaccess) = 1
  BY <1>1
<1>3. EditsInv
  BY <1>2 DEF EditsInv
<1>4. ASSUME NEW r \in Handlers PROVE TimeInv(r) /\ PageInv(r)
  <2>1. /\ pc[r] = "read" /\ local[r].from = 0 /\ local[r].to = 0 /\ local[r].dir = 1
        /\ local[r].denied = FALSE /\ local[r].unread = {}
    BY DEF Init, NoLocals
  <2> QED
    BY <1>2, <2>1 DEF TimeInv, PageInv
<1> QED
  BY <1>3, <1>4 DEF RulesInv

(* What a handler saw stays true while the files are edited.               *)
EditsKept ==
    /\ Len(htaccess) \in Nat /\ Len(htaccess') \in Nat /\ Len(htaccess) <= Len(htaccess')
    /\ \A v \in 1 .. Len(htaccess) : htaccess'[v] = htaccess[v]

LEMMA SeenKept ==
    ASSUME EditsKept, request' = request, NEW r \in Handlers, local'[r].file = local[r].file,
           NEW n \in Nat, NEW seen \in [1 .. n -> 1 .. Len(htaccess)], NEW i \in 1 .. n
    PROVE  LinesSeen(r, seen, i)' = LinesSeen(r, seen, i)
<1>1. htaccess'[seen[i]] = htaccess[seen[i]]
  BY DEF EditsKept
<1>2. Dirs(r)' = Dirs(r)
  BY DEF Dirs
<1> QED
  BY <1>1, <1>2 DEF LinesSeen

LEMMA LookedKept ==
    ASSUME EditsKept, request' = request, NEW r \in Handlers, local'[r] = local[r],
           NEW n \in Nat, NEW seen \in [1 .. n -> 1 .. Len(htaccess)], Looked(r, seen, n)
    PROVE  Looked(r, seen, n)'
<1>1. \A i \in 1 .. n : LinesSeen(r, seen, i)' = LinesSeen(r, seen, i)
  BY SeenKept
<1>2. [i \in 1 .. n |-> LinesSeen(r, seen, i)]' = [i \in 1 .. n |-> LinesSeen(r, seen, i)]
  BY <1>1
<1> QED
  BY <1>1, <1>2 DEF Looked

LEMMA PresentKept ==
    ASSUME EditsKept, request' = request, NEW r \in Handlers, local'[r] = local[r], Present(r)
    PROVE  Present(r)'
<1>1. Dirs(r)' = Dirs(r)
  BY DEF Dirs
<1> QED
  BY <1>1 DEF Present, EditsKept

LEMMA RulesFrame ==
    ASSUME EditsKept, request' = request, NEW r \in Handlers, Types, Types',
           TimeInv(r), OnPage(r) => PageInv(r),
           pc'[r] = pc[r], answer'[r] = answer[r], local'[r] = local[r]
    PROVE  TimeInv(r)' /\ (OnPage(r)' => PageInv(r)')
<1>1. TimeInv(r)'
  BY DEF TimeInv, EditsKept
<1>2. ASSUME OnPage(r)' PROVE PageInv(r)'
  <2>1. OnPage(r) /\ PageInv(r) /\ Dirs(r)' = Dirs(r) /\ (Served(r)' <=> Served(r))
    BY <1>2 DEF OnPage, Dirs, Served
  <2>2. ASSUME local[r].to > 0
        PROVE  \E n \in 0 .. Len(Dirs(r)) :
                 /\ n = local[r].dir - 1
                 /\ \E seen \in [1 .. n -> local[r].from .. local[r].to] : Looked(r, seen, n)'
    <3>1. PICK n \in 0 .. Len(Dirs(r)) :
            /\ n = local[r].dir - 1
            /\ \E seen \in [1 .. n -> local[r].from .. local[r].to] : Looked(r, seen, n)
      BY <2>1, <2>2 DEF PageInv
    <3>2. PICK seen \in [1 .. n -> local[r].from .. local[r].to] : Looked(r, seen, n)
      BY <3>1
    <3>3. seen \in [1 .. n -> 1 .. Len(htaccess)]
      <4>1. local[r].from .. local[r].to \subseteq 1 .. Len(htaccess)
        BY <2>2 DEF TimeInv, EditsKept
      <4> QED
        BY <3>2, <4>1
    <3>4. n \in Nat
      BY <2>2, <3>1 DEF TimeInv, Types, Locals
    <3>5. Looked(r, seen, n)'
      BY <3>2, <3>3, <3>4, LookedKept
    <3> QED
      BY <3>1, <3>2, <3>5
  <2>3. ASSUME local'[r].to > 0
        PROVE  \E n \in 0 .. Len(Dirs(r)') :
                 /\ n = local'[r].dir - 1
                 /\ \E seen \in [1 .. n -> local'[r].from .. local'[r].to] : Looked(r, seen, n)'
    BY <2>1, <2>2, <2>3
  <2>4. /\ pc'[r] \in {"rules", "rulefile"} => local'[r].dir \in 1 .. Len(Dirs(r)')
        /\ pc'[r] = "rulefile" => Present(r)'
        /\ local'[r].to > 0 =>
             /\ pc'[r] \notin {"rules", "rulefile", "lost"} => local'[r].dir = Len(Dirs(r)') + 1
             /\ pc'[r] = "find" => ~local'[r].denied
             /\ pc'[r] = "answered" =>
                  (answer'[r].status = 403 => local'[r].denied) /\ (Served(r)' => ~local'[r].denied)
    BY <2>1, PresentKept DEF PageInv
  <2> QED
    BY <2>3, <2>4 DEF PageInv
<1> QED
  BY <1>1, <1>2

LEMMA VersionsStay ==
    ASSUME RequestInv, htaccess' = htaccess PROVE EditsKept /\ (EditsInv => EditsInv')
BY DEF RequestInv, Types, EditsKept, EditsInv

(* The rest of the handlers, when one takes a step.                        *)
LEMMA RulesOthers ==
    ASSUME RequestInv, RequestInv', RulesInv, htaccess' = htaccess, request' = request,
           NEW r \in Handlers, TimeInv(r)', OnPage(r)' => PageInv(r)',
           \A h \in Handlers \ {r} : pc'[h] = pc[h] /\ answer'[h] = answer[h] /\ local'[h] = local[h]
    PROVE  RulesInv'
<1>1. EditsKept /\ EditsInv' /\ Types /\ Types'
  BY VersionsStay DEF RulesInv, RequestInv
<1>2. ASSUME NEW h \in Handlers \ {r} PROVE TimeInv(h)' /\ (OnPage(h)' => PageInv(h)')
  BY <1>1, <1>2, RulesFrame DEF RulesInv
<1> QED
  BY <1>1, <1>2 DEF RulesInv

LEMMA AwayRules ==
    ASSUME RequestInv, RequestInv', RulesInv, NEW r \in Handlers, AwayStep(r) PROVE RulesInv'
<1>1. /\ htaccess' = htaccess /\ request' = request /\ FileKept(r)
      /\ \A h \in Handlers \ {r} : local'[h] = local[h]
      /\ pc[r] \notin {"rules", "rulefile", "find", "answered", "lost"}
  BY DEF AwayStep
<1>2. pc'[r] \notin {"rules", "rulefile", "find"} /\ \A h \in Handlers \ {r} : pc'[h] = pc[h] /\ answer'[h] = answer[h]
  BY Moved DEF AwayStep, RequestInv
<1>3. /\ local'[r].to = 0 /\ local'[r].dir = 1 /\ ~local'[r].denied /\ local'[r].unread = {}
      /\ local'[r].from \in 0 .. Len(htaccess')
  BY <1>1 DEF FileKept, RulesInv, TimeInv
<1>4. Len(htaccess') \in Nat
  BY DEF RequestInv, Types
<1>5. TimeInv(r)' /\ PageInv(r)'
  BY <1>2, <1>3, <1>4 DEF TimeInv, PageInv
<1> QED
  BY <1>1, <1>2, <1>5, RulesOthers

LEMMA ServeRules ==
    ASSUME RequestInv, RequestInv', RulesInv, NEW r \in Handlers, Serve(r) PROVE RulesInv'
<1> DEFINE file == Resolve(Root(r), request[r].path)
           dirs == RuleDirs(Root(r), file)
           refusal == Refusal(request[r])
           to == IF config.htaccess /\ dirs # <<>> THEN "rules" ELSE "find"
           last == Len(htaccess)
<1>1. Types /\ local \in [Handlers -> Locals] /\ local[r] \in Locals
  BY DEF RequestInv, Types
<1>2. /\ htaccess' = htaccess /\ request' = request /\ pc[r] = "serve"
      /\ \/ Throw(r) /\ local' = local
         \/ Reply(r, refusal, {}) /\ local' = local
         \/ /\ local' = [local EXCEPT ![r].file = file, ![r].from = last]
            /\ \/ Reply(r, 403, {})
               \/ GoTo(r, to) /\ answer' = answer
  BY DEF Serve, ServeRest, Root
<1>3. last \in Nat /\ last >= 1
  BY <1>1 DEF Types
<1>4. /\ local[r].to = 0 /\ local[r].dir = 1 /\ ~local[r].denied /\ local[r].unread = {}
      /\ local[r].from \in 0 .. last
  BY <1>2 DEF RulesInv, TimeInv
<1>5. to \in Points /\ (to = "rules" => dirs # <<>>) /\ to \in {"rules", "find"}
  BY DEF Points
<1> HIDE DEF file, dirs, refusal, to, last
<1>6. \A h \in Handlers \ {r} : local'[h] = local[h]
  BY <1>1, <1>2
<1>7. CASE local' = local /\ (Throw(r) \/ Reply(r, refusal, {}))
  <2>1. \A h \in Handlers \ {r} : pc'[h] = pc[h] /\ answer'[h] = answer[h]
    BY <1>1, <1>7, ReplyMoves, ThrowMoves, Moved
  <2>2. pc'[r] \notin {"rules", "rulefile", "find"}
    BY <1>1, <1>7, ReplyMoves, ThrowMoves, Moved
  <2>3. TimeInv(r)' /\ PageInv(r)'
    BY <1>2, <1>3, <1>4, <1>7, <2>2 DEF TimeInv, PageInv, last
  <2> QED
    BY <1>2, <1>6, <2>1, <2>3, RulesOthers
<1>8. CASE /\ local' = [local EXCEPT ![r].file = file, ![r].from = last]
           /\ \/ Reply(r, 403, {})
              \/ GoTo(r, to) /\ answer' = answer
  <2>1. /\ local'[r].file = file /\ local'[r].from = last /\ local'[r].to = 0 /\ local'[r].dir = 1
        /\ ~local'[r].denied /\ local'[r].unread = {}
    <3>1. local'[r] = [local[r] EXCEPT !.file = file, !.from = last]
      BY <1>1, <1>8
    <3> QED
      BY <1>1, <1>4, <3>1 DEF Locals
  <2>2. /\ \A h \in Handlers \ {r} : pc'[h] = pc[h] /\ answer'[h] = answer[h]
        /\ pc'[r] = "answered" \/ pc'[r] = to
    <3>1. CASE Reply(r, 403, {})
      BY <1>1, <3>1, Replies
    <3>2. CASE GoTo(r, to) /\ answer' = answer
      BY <1>1, <1>5, <3>2, Goes
    <3> QED
      BY <1>8, <3>1, <3>2
  <2>3. TimeInv(r)'
    <3>1. Len(htaccess') = last
      BY <1>2 DEF last
    <3>2. pc'[r] \in {"rules", "find", "answered"}
      BY <1>5, <2>2
    <3> QED
      BY <1>3, <2>1, <3>1, <3>2 DEF TimeInv
  <2>4. ASSUME OnPage(r)', pc'[r] = "rules" PROVE local'[r].dir \in 1 .. Len(Dirs(r)')
    <3>1. Dirs(r)' = dirs
      BY <1>2, <2>1 DEF Dirs, Root, dirs
    <3>2. dirs # <<>>
      BY <1>5, <2>2, <2>4
    <3>3. IsPage(file)
      BY <2>1, <2>4 DEF OnPage
    <3>4. Len(dirs) \in Nat /\ Len(dirs) >= 1
      BY <3>2, <3>3, PageDirs DEF dirs, Root
    <3> QED
      BY <2>1, <3>1, <3>4
  <2>5. OnPage(r)' => PageInv(r)'
    BY <1>5, <2>1, <2>2, <2>4 DEF PageInv
  <2> QED
    BY <1>2, <1>6, <2>2, <2>3, <2>5, RulesOthers
<1> QED
  BY <1>2, <1>7, <1>8

(* A round ends that looked at version v last: with what it found there.   *)
Saw(r, v, denied, unread) ==
    LET lines == LinesIn(htaccess[v], Dirs(r)[local[r].dir])
    IN  /\ v >= local[r].from /\ v >= local[r].to
        /\ \/ lines = Absent /\ denied = local[r].denied /\ unread = local[r].unread
           \/ lines # Absent /\ denied = Denies(lines) /\ unread = local[r].unread
           \/ lines # Absent /\ denied = FALSE /\ unread = local[r].unread \cup {local[r].dir}

LEMMA NextDirRules ==
    ASSUME RequestInv, RequestInv', RulesInv, NEW r \in Handlers, pc[r] \in {"rules", "rulefile"},
           htaccess' = htaccess, request' = request,
           NEW denied \in BOOLEAN, NEW unread, NextDir(r, denied, unread),
           OnPage(r) => \E v \in 1 .. Len(htaccess) : Saw(r, v, denied, unread)
    PROVE  RulesInv'
<1> DEFINE dirs == Dirs(r)
           more == local[r].dir # Len(dirs)
           next == local[r].dir + 1
           last == Len(htaccess)
<1>1. Types /\ local \in [Handlers -> Locals] /\ local[r] \in Locals
  BY DEF RequestInv, Types
<1>2. /\ local' = [local EXCEPT ![r].denied = denied, ![r].dir = next, ![r].to = last,
                                ![r].unread = unread]
      /\ \/ ~more /\ denied /\ Reply(r, 403, {})
         \/ ~(~more /\ denied) /\ GoTo(r, IF more THEN "rules" ELSE "find") /\ answer' = answer
  BY DEF NextDir
<1>3. last \in Nat /\ last >= 1
  BY <1>1 DEF Types
<1>4. TimeInv(r) /\ (OnPage(r) => PageInv(r))
  BY DEF RulesInv
<1>5. local[r].dir \in Nat /\ local[r].dir >= 1 /\ local[r].from \in 1 .. last /\ local[r].denied \in BOOLEAN
  <2>1. local[r].from \in 0 .. last /\ local[r].from >= 1
    BY <1>2, <1>4 DEF TimeInv
  <2>2. local[r].to \in Nat /\ local[r].dir \in Nat /\ local[r].denied \in BOOLEAN
    BY <1>1 DEF Locals
  <2>3. local[r].dir >= 1
    BY <1>4, <2>2 DEF TimeInv
  <2> HIDE DEF last
  <2> QED
    BY <1>3, <2>1, <2>2, <2>3
<1> HIDE DEF dirs, more, next, last
<1>7. /\ local'[r].file = local[r].file /\ local'[r].from = local[r].from /\ local'[r].to = last
      /\ local'[r].dir = next /\ local'[r].denied = denied /\ local'[r].unread = unread
      /\ \A h \in Handlers \ {r} : local'[h] = local[h]
  <2>1. /\ local'[r] = [local[r] EXCEPT !.denied = denied, !.dir = next, !.to = last,
                                        !.unread = unread]
        /\ \A h \in Handlers \ {r} : local'[h] = local[h]
    BY <1>1, <1>2
  <2> QED
    BY <1>1, <2>1 DEF Locals
<1>8. /\ \A h \in Handlers \ {r} : pc'[h] = pc[h] /\ answer'[h] = answer[h]
      /\ \/ ~more /\ denied /\ pc'[r] = "answered" /\ answer'[r].status = 403
         \/ ~more /\ ~denied /\ pc'[r] = "find"
         \/ more /\ pc'[r] = "rules"
  <2>1. "rules" \in Points /\ "find" \in Points
    BY DEF Points
  <2>2. CASE ~more /\ denied /\ Reply(r, 403, {})
    BY <1>1, <2>2, Replies
  <2>3. CASE ~more /\ ~denied /\ GoTo(r, "find") /\ answer' = answer
    BY <1>1, <2>1, <2>3, Goes
  <2>4. CASE more /\ GoTo(r, "rules") /\ answer' = answer
    BY <1>1, <2>1, <2>4, Goes
  <2> QED
    BY <1>2, <2>2, <2>3, <2>4
<1>9. Len(htaccess') = last /\ next \in Nat /\ next >= 2
  BY <1>5 DEF last, next
<1>10. TimeInv(r)'
  BY <1>3, <1>5, <1>7, <1>8, <1>9 DEF TimeInv
<1>11. ASSUME OnPage(r)' PROVE PageInv(r)'
  <2>1. OnPage(r) /\ PageInv(r) /\ Dirs(r)' = dirs
    BY <1>4, <1>7, <1>11 DEF OnPage, Dirs, dirs
  <2>2. PICK n \in Nat, a \in Nat, b \in Nat :
          n = local[r].dir - 1 /\ a = local[r].from /\ b = last /\ a >= 1 /\ a <= b
    <3>1. /\ local[r].dir - 1 \in Nat /\ local[r].from \in Nat /\ last \in Nat
          /\ local[r].from >= 1 /\ local[r].from <= last
      BY <1>3, <1>5
    <3> QED
      BY <3>1
  <2>3. PICK v \in a .. b : Saw(r, v, denied, unread)
    <3>1. PICK v \in 1 .. Len(htaccess) : Saw(r, v, denied, unread)
      BY <2>1
    <3> QED
      BY <2>2, <3>1 DEF Saw, last
  <2>4. PICK seen \in [1 .. n -> a .. v] : Looked(r, seen, n)
    <3>1. CASE local[r].to = 0
      <4>1. n = 0 /\ ~local[r].denied /\ local[r].unread = {}
        BY <1>4, <2>2, <3>1 DEF TimeInv
      <4> DEFINE none == [i \in 1 .. n |-> a]
      <4>2. none \in [1 .. n -> a .. v]
        BY <4>1
      <4>3. Looked(r, none, n)
        BY <4>1, <4>2 DEF Looked, Decided
      <4> QED
        BY <4>2, <4>3
    <3>2. CASE local[r].to # 0
      <4>1. local[r].to \in Nat /\ local[r].to <= v /\ local[r].to > 0
        BY <1>1, <1>4, <2>3, <3>2 DEF TimeInv, Locals, Saw
      <4>2. PICK k \in 0 .. Len(Dirs(r)) :
              k = local[r].dir - 1 /\ \E seen \in [1 .. k -> local[r].from .. local[r].to] : Looked(r, seen, k)
        BY <2>1, <4>1 DEF PageInv
      <4>3. k = n
        BY <2>2, <4>2
      <4>4. PICK seen \in [1 .. n -> a .. local[r].to] : Looked(r, seen, n)
        BY <2>2, <4>2, <4>3
      <4>5. seen \in [1 .. n -> a .. v]
        <5>1. a .. local[r].to \subseteq a .. v
          BY <2>2, <4>1
        <5> QED
          BY <4>4, <5>1
      <4> QED
        BY <4>4, <4>5
    <3> QED
      BY <3>1, <3>2
  <2>5. PICK now \in [1 .. n + 1 -> a .. b] :
          now = [i \in 1 .. n + 1 |-> IF i <= n THEN seen[i] ELSE v]
    <3> DEFINE f == [i \in 1 .. n + 1 |-> IF i <= n THEN seen[i] ELSE v]
    <3>1. a .. v \subseteq a .. b
      BY <2>3
    <3>2. f \in [1 .. n + 1 -> a .. b]
      BY <2>2, <2>4, <3>1
    <3> QED
      BY <3>2
  <2>6. \A i, j \in 1 .. n + 1 : i < j => now[i] <= now[j]
    <3> SUFFICES ASSUME NEW i \in 1 .. n + 1, NEW j \in 1 .. n + 1, i < j PROVE now[i] <= now[j]
      OBVIOUS
    <3>1. i \in 1 .. n /\ now[i] = seen[i] /\ seen[i] \in a .. v
      BY <2>4, <2>5
    <3>2. CASE j \in 1 .. n
      BY <2>4, <2>5, <3>1, <3>2 DEF Looked
    <3>3. CASE j = n + 1
      BY <2>5, <3>1, <3>3
    <3> QED
      BY <3>2, <3>3
  <2> DEFINE old == [i \in 1 .. n |-> LinesSeen(r, seen, i)]
             lines == [i \in 1 .. n + 1 |-> LinesSeen(r, now, i)]
  <2>7. LinesSeen(r, now, n + 1) = LinesIn(htaccess[v], Dirs(r)[local[r].dir])
    <3>1. now[n + 1] = v /\ local[r].dir = n + 1
      BY <1>5, <2>2, <2>5
    <3> QED
      BY <3>1 DEF LinesSeen
  <2>8. \A i \in 1 .. n : LinesSeen(r, now, i) = LinesSeen(r, seen, i)
    <3> SUFFICES ASSUME NEW i \in 1 .. n PROVE LinesSeen(r, now, i) = LinesSeen(r, seen, i)
      OBVIOUS
    <3>1. now[i] = seen[i]
      BY <2>5
    <3> QED
      BY <3>1 DEF LinesSeen
  <2>9. local[r].denied <=> Decided(lines, local[r].unread, n)
    <3>1. local[r].denied <=> Decided(old, local[r].unread, n)
      BY <2>4 DEF Looked
    <3>2. \A i \in 1 .. n : lines[i] = old[i]
      BY <2>8
    <3> HIDE DEF lines, old
    <3> QED
      BY <3>1, <3>2 DEF Decided
  <2>10. local[r].dir = n + 1 /\ local[r].unread \in SUBSET (1 .. n)
    BY <1>5, <2>2, <2>4 DEF Looked
  <2>11. \/ lines[n + 1] = Absent /\ denied = local[r].denied /\ unread = local[r].unread
         \/ lines[n + 1] # Absent /\ denied = Denies(lines[n + 1]) /\ unread = local[r].unread
         \/ lines[n + 1] # Absent /\ denied = FALSE /\ unread = local[r].unread \cup {n + 1}
    <3>1. lines[n + 1] = LinesIn(htaccess[v], Dirs(r)[local[r].dir])
      BY <2>7
    <3> HIDE DEF lines
    <3> QED
      BY <2>3, <2>10, <3>1 DEF Saw
  <2>12. denied <=> Decided(lines, unread, n + 1)
    <3> HIDE DEF lines
    <3>1. PICK d \in BOOLEAN, o \in SUBSET (1 .. n) : d = local[r].denied /\ o = local[r].unread
      BY <1>5, <2>10
    <3>2. PICK L : L = lines
      OBVIOUS
    <3>3. d <=> Decided(L, o, n)
      BY <2>9, <3>1, <3>2
    <3>4. \/ L[n + 1] = Absent /\ denied = d /\ unread = o
          \/ L[n + 1] # Absent /\ denied = Denies(L[n + 1]) /\ unread = o
          \/ L[n + 1] # Absent /\ denied = FALSE /\ unread = o \cup {n + 1}
      BY <2>11, <3>1, <3>2
    <3>5. denied <=> Decided(L, unread, n + 1)
      BY <3>3, <3>4, NextIndex
    <3> QED
      BY <3>5, <3>2
  <2>13. \A i \in 1 .. n + 1 : LinesSeen(r, now, i)' = LinesSeen(r, now, i)
    BY <2>1 DEF LinesSeen, dirs
  <2>14. \A i \in unread : i \in 1 .. n + 1 /\ LinesSeen(r, now, i) # Absent
    <3>1. \A i \in local[r].unread : i \in 1 .. n + 1 /\ LinesSeen(r, now, i) # Absent
      BY <2>4, <2>8, <2>10 DEF Looked
    <3>2. n + 1 \in 1 .. n + 1 /\ lines[n + 1] = LinesSeen(r, now, n + 1)
      OBVIOUS
    <3> HIDE DEF lines
    <3> QED
      BY <2>11, <3>1, <3>2
  <2>15. Looked(r, now, n + 1)'
    <3>1. lines' = lines
      BY <2>13
    <3>2. Decided(lines', unread, n + 1) <=> denied
      BY <2>12, <3>1
    <3> QED
      BY <1>7, <2>6, <2>13, <2>14, <3>2 DEF Looked
  <2> HIDE DEF lines, old
  <2>16. local[r].dir \in 1 .. Len(dirs)
    BY <2>1 DEF PageInv, dirs
  <2>17. PICK l \in Nat : l = Len(dirs)
    <3>1. IsPage(local[r].file)
      BY <2>1 DEF OnPage
    <3> QED
      BY <3>1, PageDirs DEF dirs, Dirs
  <2>18. /\ more => next \in 1 .. l
         /\ ~more => next = l + 1
    <3>1. PICK d \in Nat : d = local[r].dir /\ d \in 1 .. l
      BY <1>5, <2>16, <2>17
    <3>2. next = d + 1 /\ d + 1 \in 1 .. l + 1 /\ d <= l
      BY <2>17, <3>1 DEF next
    <3>3. (more => d # l) /\ (~more => d = l)
      BY <2>17, <3>1 DEF more
    <3>4. d # l => d + 1 \in 1 .. l
      BY <3>2
    <3> QED
      BY <3>2, <3>3, <3>4
  <2>19. /\ pc'[r] \in {"rules", "rulefile"} => local'[r].dir \in 1 .. Len(Dirs(r)')
         /\ pc'[r] # "rulefile"
         /\ pc'[r] \notin {"rules", "rulefile", "lost"} => local'[r].dir = Len(Dirs(r)') + 1
    BY <1>7, <1>8, <2>1, <2>17, <2>18
  <2>20. /\ pc'[r] = "find" => ~local'[r].denied
         /\ pc'[r] = "answered" => local'[r].denied /\ ~Served(r)'
    BY <1>7, <1>8 DEF Served
  <2>21. \E m \in 0 .. Len(Dirs(r)') :
           /\ m = local'[r].dir - 1
           /\ \E s \in [1 .. m -> local'[r].from .. local'[r].to] : Looked(r, s, m)'
    <3>1. n + 1 \in 0 .. Len(Dirs(r)') /\ n + 1 = local'[r].dir - 1
      BY <1>5, <1>7, <2>1, <2>2, <2>17, <2>16 DEF next
    <3>2. local'[r].from = a /\ local'[r].to = b
      BY <1>7, <2>2
    <3> QED
      BY <2>5, <2>15, <3>1, <3>2
  <2> QED
    BY <2>19, <2>20, <2>21 DEF PageInv
<1> QED
  BY ZenonT(40), <1>7, <1>8, <1>10, <1>11, RulesOthers

(* A step that ends no round: the look, a failure and the answer.          *)
LEMMA StayRules ==
    ASSUME RequestInv, RequestInv', RulesInv, NEW r \in Handlers,
           pc[r] \in {"rules", "rulefile", "find"},
           htaccess' = htaccess, request' = request, local' = local,
           \A h \in Handlers \ {r} : pc'[h] = pc[h] /\ answer'[h] = answer[h],
           \/ pc'[r] = "lost"
           \/ pc'[r] = "rulefile" /\ pc[r] = "rules" /\ Rules(r) # Absent
           \/ pc'[r] = "answered" /\ pc[r] = "find" /\ (OnPage(r) => answer'[r].status # 403)
    PROVE  RulesInv'
<1>1. Types /\ TimeInv(r) /\ (OnPage(r) => PageInv(r))
  BY DEF RequestInv, RulesInv
<1>2. TimeInv(r)'
  BY <1>1 DEF TimeInv
<1>3. ASSUME OnPage(r)' PROVE PageInv(r)'
  <2>1. OnPage(r) /\ PageInv(r) /\ Dirs(r)' = Dirs(r)
    BY <1>1, <1>3 DEF OnPage, Dirs
  <2>2. pc[r] = "find" /\ local[r].to > 0 => ~local[r].denied /\ local[r].dir = Len(Dirs(r)) + 1
    BY <2>1 DEF PageInv
  <2>3. ASSUME local[r].to > 0
        PROVE  \E n \in 0 .. Len(Dirs(r)) :
                 /\ n = local[r].dir - 1
                 /\ \E seen \in [1 .. n -> local[r].from .. local[r].to] : Looked(r, seen, n)'
    <3>1. PICK n \in 0 .. Len(Dirs(r)) :
            /\ n = local[r].dir - 1
            /\ \E seen \in [1 .. n -> local[r].from .. local[r].to] : Looked(r, seen, n)
      BY <2>1, <2>3 DEF PageInv
    <3>2. PICK seen \in [1 .. n -> local[r].from .. local[r].to] : Looked(r, seen, n)
      BY <3>1
    <3>3. EditsKept /\ seen \in [1 .. n -> 1 .. Len(htaccess)] /\ n \in Nat
      <4>1. local[r].from .. local[r].to \subseteq 1 .. Len(htaccess)
        BY <1>1, <2>3 DEF TimeInv, Types
      <4>2. n \in Nat
        BY <1>1, <3>1 DEF Types, Locals
      <4> QED
        BY <3>2, <4>1, <4>2, VersionsStay
    <3>4. Looked(r, seen, n)'
      BY <3>2, <3>3, LookedKept
    <3> QED
      BY <3>1, <3>2, <3>4
  <2>4. pc[r] = "rules" /\ Rules(r) # Absent => Present(r)
    <3>1. Len(htaccess) \in Nat /\ Len(htaccess) >= 1 /\ Last(htaccess) = htaccess[Len(htaccess)]
      BY <1>1 DEF Types, Last
    <3>2. Len(htaccess) >= local[r].from /\ Len(htaccess) >= local[r].to
      BY <1>1, <3>1 DEF TimeInv
    <3> QED
      BY <3>1, <3>2 DEF Present, Rules
  <2>5. Present(r)' <=> Present(r)
    BY <2>1 DEF Present
  <2>6. pc'[r] = "rulefile" => Present(r)' /\ local[r].dir \in 1 .. Len(Dirs(r))
    BY <2>1, <2>4, <2>5 DEF PageInv
  <2>7. local[r].to > 0 /\ pc'[r] = "answered" =>
          /\ ~local[r].denied /\ local[r].dir = Len(Dirs(r)) + 1 /\ answer'[r].status # 403
    BY <2>1, <2>2
  <2>8. local'[r].to > 0 =>
          \E n \in 0 .. Len(Dirs(r)') :
            /\ n = local'[r].dir - 1
            /\ \E seen \in [1 .. n -> local'[r].from .. local'[r].to] : Looked(r, seen, n)'
    BY <2>1, <2>3
  <2>9. /\ pc'[r] \in {"rules", "rulefile"} => local'[r].dir \in 1 .. Len(Dirs(r)')
        /\ pc'[r] = "rulefile" => Present(r)'
        /\ pc'[r] # "find"
    BY <2>1, <2>6
  <2>10. local'[r].to > 0 =>
           /\ pc'[r] \notin {"rules", "rulefile", "lost"} => local'[r].dir = Len(Dirs(r)') + 1
           /\ pc'[r] = "answered" =>
                (answer'[r].status = 403 => local'[r].denied) /\ (Served(r)' => ~local'[r].denied)
    BY <2>1, <2>7
  <2> QED
    BY <2>8, <2>9, <2>10 DEF PageInv
<1> QED
  BY <1>2, <1>3, RulesOthers

LEMMA LookForRulesRules ==
    ASSUME RequestInv, RequestInv', RulesInv, NEW r \in Handlers, LookForRules(r) PROVE RulesInv'
<1>1. Types /\ TimeInv(r)
  BY DEF RequestInv, RulesInv
<1>2. /\ htaccess' = htaccess /\ request' = request /\ pc[r] = "rules"
      /\ \/ Rules(r) = Absent /\ NextDir(r, local[r].denied, local[r].unread)
         \/ Rules(r) # Absent /\ GoTo(r, "rulefile") /\ answer' = answer /\ local' = local
         \/ Throw(r) /\ local' = local
  BY DEF LookForRules, ServeRest
<1>3. CASE Rules(r) = Absent /\ NextDir(r, local[r].denied, local[r].unread)
  <2>1. Len(htaccess) \in Nat /\ Len(htaccess) >= 1 /\ Last(htaccess) = htaccess[Len(htaccess)]
    BY <1>1 DEF Types, Last
  <2>2. local[r].denied \in BOOLEAN
    BY <1>1 DEF Types, Locals
  <2>3. Saw(r, Len(htaccess), local[r].denied, local[r].unread)
    BY <1>1, <1>3, <2>1 DEF Saw, Rules, TimeInv
  <2>4. Len(htaccess) \in 1 .. Len(htaccess)
    BY <2>1
  <2> QED
    BY <1>2, <1>3, <2>2, <2>3, <2>4, NextDirRules
<1>4. CASE Rules(r) # Absent /\ GoTo(r, "rulefile") /\ answer' = answer /\ local' = local
  <2>1. "rulefile" \in Points
    BY DEF Points
  <2>2. pc'[r] = "rulefile" /\ \A h \in Handlers \ {r} : pc'[h] = pc[h]
    BY <1>1, <1>4, <2>1, Goes
  <2> QED
    BY <1>2, <1>4, <2>2, StayRules
<1>5. CASE Throw(r) /\ local' = local
  <2>1. "lost" \in Points /\ GoTo(r, "lost") /\ answer' = answer
    BY <1>5 DEF Points, Throw
  <2>2. pc'[r] = "lost" /\ \A h \in Handlers \ {r} : pc'[h] = pc[h]
    BY <1>1, <2>1, Goes
  <2> QED
    BY <1>2, <1>5, <2>1, <2>2, StayRules
<1> QED
  BY <1>2, <1>3, <1>4, <1>5

(* The version that is read is the last; what cannot be read was there in  *)
(* an earlier one.                                                         *)
LEMMA ReadRulesRules ==
    ASSUME RequestInv, RequestInv', RulesInv, NEW r \in Handlers, ReadRules(r) PROVE RulesInv'
<1> DEFINE more == local[r].unread \cup {local[r].dir}
           read == AfterDir(local[r].denied, Rules(r))
<1>1. Types /\ TimeInv(r) /\ (OnPage(r) => PageInv(r))
  BY DEF RequestInv, RulesInv
<1>2. /\ htaccess' = htaccess /\ request' = request /\ pc[r] = "rulefile"
      /\ \/ Rules(r) # Absent /\ NextDir(r, read, local[r].unread)
         \/ NextDir(r, FALSE, more)
  BY DEF ReadRules, ServeRest
<1>3. CASE Rules(r) # Absent /\ NextDir(r, read, local[r].unread)
  <2>1. Len(htaccess) \in Nat /\ Len(htaccess) >= 1 /\ Last(htaccess) = htaccess[Len(htaccess)]
    BY <1>1 DEF Types, Last
  <2>2. read \in BOOLEAN /\ read = Denies(Rules(r))
    BY DEF AfterDir, Denies
  <2> HIDE DEF read, more
  <2>3. Saw(r, Len(htaccess), read, local[r].unread)
    BY <1>1, <1>3, <2>1, <2>2 DEF Saw, Rules, TimeInv
  <2>4. Len(htaccess) \in 1 .. Len(htaccess)
    BY <2>1
  <2> QED
    BY <1>2, <1>3, <2>2, <2>3, <2>4, NextDirRules
<1>4. CASE NextDir(r, FALSE, more)
  <2>1. OnPage(r) => \E v \in 1 .. Len(htaccess) : Saw(r, v, FALSE, more)
    <3> SUFFICES ASSUME OnPage(r) PROVE \E v \in 1 .. Len(htaccess) : Saw(r, v, FALSE, more)
      OBVIOUS
    <3>1. Present(r)
      BY <1>1, <1>2 DEF PageInv
    <3> QED
      BY <3>1 DEF Present, Saw
  <2>2. FALSE \in BOOLEAN
    OBVIOUS
  <2> HIDE DEF read, more
  <2> QED
    BY <1>2, <1>4, <2>1, <2>2, NextDirRules
<1> QED
  BY <1>2, <1>3, <1>4

LEMMA FindRules ==
    ASSUME RequestInv, RequestInv', RulesInv, NEW r \in Handlers, Find(r) PROVE RulesInv'
<1> DEFINE q == request[r]
           place == Place(local[r].file)
           script == Last(local[r].file) \in Scripts
           a == place = Absent \/ Kind[place] # "file"
           b == script /\ ~config.php
           c == ~script /\ q.method = "POST"
           refusal == FirstOf(<< <<a, 404>>, <<b, 403>>, <<c, 405>> >>, 200)
<1>1. Types
  BY DEF RequestInv
<1>2. /\ htaccess' = htaccess /\ request' = request /\ local' = local /\ pc[r] = "find"
      /\ \/ refusal # 200 /\ Reply(r, refusal, {})
         \/ script /\ \E status : Reply(r, status, {})
         \/ \E status \in {200, 304, 500} : Reply(r, status, {})
         \/ Throw(r)
  BY DEF Find, ServeRest
<1> HIDE DEF a, b, c
<1>3. refusal = IF a THEN 404 ELSE IF b THEN 403 ELSE IF c THEN 405 ELSE 200
  BY First3
<1> HIDE DEF refusal
<1>4. OnPage(r) => ~script /\ refusal # 403
  BY <1>3 DEF a, b, c, OnPage, IsPage
<1> HIDE DEF script
<1>5. CASE Throw(r)
  <2>1. "lost" \in Points /\ GoTo(r, "lost") /\ answer' = answer
    BY <1>5 DEF Points, Throw
  <2>2. pc'[r] = "lost" /\ \A h \in Handlers \ {r} : pc'[h] = pc[h]
    BY <1>1, <2>1, Goes
  <2> QED
    BY <1>2, <2>1, <2>2, StayRules
<1>6. ASSUME NEW status, Reply(r, status, {}), OnPage(r) => status # 403 PROVE RulesInv'
  <2>1. /\ pc'[r] = "answered" /\ answer'[r].status = status
        /\ \A h \in Handlers \ {r} : pc'[h] = pc[h] /\ answer'[h] = answer[h]
    BY <1>1, <1>6, Replies
  <2> QED
    BY <1>2, <1>6, <2>1, StayRules
<1> QED
  BY <1>2, <1>4, <1>5, <1>6

(* An edit adds a version.                                                 *)
LEMMA EditRulesRules ==
    ASSUME RequestInv, RequestInv', RulesInv, EditRules PROVE RulesInv'
<1>1. /\ Types /\ Types' /\ request' = request /\ pc' = pc /\ answer' = answer /\ local' = local
      /\ htaccess \in Seq(RuleSets) /\ htaccess # <<>> /\ Len(htaccess) \in Nat /\ Len(htaccess) >= 1
  BY DEF RequestInv, Types, EditRules
<1>2. PICK dir \in DOMAIN Last(htaccess), lines \in RuleFiles :
        htaccess' = Append(htaccess, [Last(htaccess) EXCEPT ![dir] = lines])
  BY DEF EditRules
<1> DEFINE l == Len(htaccess)
           now == htaccess[l]
           new == [now EXCEPT ![dir] = lines]
<1>3. Last(htaccess) = now
  BY <1>1 DEF Last
<1>4. htaccess' = Append(htaccess, new)
  BY <1>2, <1>3
<1>5. now \in RuleSets /\ dir \in DOMAIN now /\ new = [now EXCEPT ![dir] = new[dir]]
  <2>1. now \in RuleSets /\ dir \in DOMAIN now
    BY <1>1, <1>2, <1>3
  <2>2. new[dir] = lines
    <3>1. \E S, T : now \in [S -> T]
      BY <2>1 DEF RuleSets
    <3> HIDE DEF now
    <3> QED
      BY <2>1, <3>1
  <2> HIDE DEF now
  <2> QED
    BY <2>1, <2>2
<1> HIDE DEF new
<1>6. /\ Len(htaccess') = l + 1 /\ htaccess'[l + 1] = new
      /\ \A v \in 1 .. l : htaccess'[v] = htaccess[v]
  <2>1. PICK S : htaccess \in Seq(S) /\ new \in S
    <3>1. htaccess \in Seq(RuleSets \cup {new})
      BY <1>1, SeqMonotonic
    <3> QED
      BY <3>1
  <2> QED
    BY <1>4, <2>1, AppendProperties
<1>7. EditsKept
  BY <1>1, <1>6 DEF EditsKept
<1>8. EditsInv'
  <2>0. Len(htaccess') - 1 = l
    BY <1>1, <1>6
  <2> SUFFICES ASSUME NEW v \in 1 .. l
               PROVE  \E d \in DOMAIN htaccess'[v] :
                         htaccess'[v + 1] = [htaccess'[v] EXCEPT ![d] = htaccess'[v + 1][d]]
    BY <2>0, Zenon DEF EditsInv
  <2>1. CASE v = l
    <3>1. htaccess'[v] = now /\ htaccess'[v + 1] = new
      BY <1>6, <2>1
    <3> HIDE DEF now
    <3> QED
      BY <1>5, <3>1
  <2>2. CASE v # l
    <3>1. v \in 1 .. l - 1 /\ htaccess'[v] = htaccess[v] /\ htaccess'[v + 1] = htaccess[v + 1]
      BY <1>1, <1>6, <2>2
    <3> QED
      BY <3>1 DEF RulesInv, EditsInv
  <2> QED
    BY <2>1, <2>2
<1>9. ASSUME NEW h \in Handlers PROVE TimeInv(h)' /\ (OnPage(h)' => PageInv(h)')
  BY <1>1, <1>7, RulesFrame DEF RulesInv
<1> QED
  BY <1>8, <1>9 DEF RulesInv

LEMMA RulesStep == RequestInv /\ RequestInv' /\ RulesInv /\ [Next]_vars => RulesInv'
<1> SUFFICES ASSUME RequestInv, RequestInv', RulesInv, [Next]_vars PROVE RulesInv'
  OBVIOUS
<1>1. CASE Tick \/ AllEnded \/ UNCHANGED vars
  <2>1. /\ request' = request /\ htaccess' = htaccess /\ local' = local
        /\ pc' = pc /\ answer' = answer /\ Types /\ Types'
    BY <1>1 DEF Tick, AllEnded, vars, RequestInv
  <2>2. EditsKept /\ EditsInv'
    BY <2>1, VersionsStay DEF RulesInv
  <2>3. ASSUME NEW h \in Handlers PROVE TimeInv(h)' /\ (OnPage(h)' => PageInv(h)')
    BY <2>1, <2>2, RulesFrame DEF RulesInv
  <2> QED
    BY <2>2, <2>3 DEF RulesInv
<1>2. CASE EditRules
  BY <1>2, EditRulesRules
<1>3. ASSUME NEW r \in Handlers, Handle(r) PROVE RulesInv'
  <2>1. CASE Serve(r) \/ LookForRules(r) \/ ReadRules(r) \/ Find(r)
    BY <2>1, ServeRules, LookForRulesRules, ReadRulesRules, FindRules
  <2>2. CASE ~(Serve(r) \/ LookForRules(r) \/ ReadRules(r) \/ Find(r))
    <3>1. AwayStep(r)
      BY <1>3, <2>2, PlainMoves, LocalMoves DEF Handle, RequestInv
    <3> QED
      BY <3>1, AwayRules
  <2> QED
    BY <2>1, <2>2
<1> QED
  BY <1>1, <1>2, <1>3 DEF Next

(* What the looks at the .htaccess files have seen, and in which order.    *)
THEOREM RulesInvHolds == Spec => []RulesInv
<1>1. Init => RulesInv
  BY RulesInit
<1>2. RequestInv /\ RequestInv' /\ RulesInv /\ [Next]_vars => RulesInv'
  BY RulesStep
<1> QED
  BY <1>1, <1>2, RequestInvHolds, PTL DEF Spec

(* A page's directories by their number and by their depth.                *)
Shifted(D, deep, gone, lines, unread, first, k) ==
    /\ \A n : n \in D <=> n \in first .. first + k - 1
    /\ \A i \in 1 .. k : deep[first + i - 1] = lines[i]
    /\ \A i \in 1 .. k : first + i - 1 \in gone <=> i \in unread

Distinct(dirs, k) == \A i, j \in 1 .. k : dirs[i] = dirs[j] => i = j

LEMMA ByDepth ==
    ASSUME NEW k \in Nat, NEW first \in Nat, NEW D, NEW lines, NEW deep,
           NEW gone, NEW unread, Shifted(D, deep, gone, lines, unread, first, k)
    PROVE  Decided(lines, unread, k) <=>
             \E n \in D : /\ deep[n] # Absent /\ n \notin gone /\ Denies(deep[n])
                          /\ \A m \in D : m > n => deep[m] = Absent
<1>1. \A i \in 1 .. k : first + i - 1 \in D
  BY DEF Shifted
<1>2. \A n \in D : n \in Int /\ n - first + 1 \in 1 .. k /\ deep[n] = lines[n - first + 1]
  <2> SUFFICES ASSUME NEW n \in D
               PROVE  n \in Int /\ n - first + 1 \in 1 .. k /\ deep[n] = lines[n - first + 1]
    OBVIOUS
  <2>1. n \in first .. first + k - 1
    BY DEF Shifted
  <2>2. PICK i \in 1 .. k : i = n - first + 1
    BY <2>1
  <2>3. n = first + i - 1
    BY <2>1, <2>2
  <2>4. deep[n] = lines[i]
    BY <2>3 DEF Shifted
  <2> QED
    BY <2>1, <2>2, <2>4
<1>3. ASSUME Decided(lines, unread, k)
      PROVE  \E n \in D : /\ deep[n] # Absent /\ n \notin gone /\ Denies(deep[n])
                          /\ \A m \in D : m > n => deep[m] = Absent
  <2>1. PICK i \in 1 .. k : /\ lines[i] # Absent /\ i \notin unread /\ Denies(lines[i])
                            /\ \A j \in 1 .. k : j > i => lines[j] = Absent
    BY <1>3 DEF Decided
  <2>2. PICK n \in D : n = first + i - 1
    BY <1>1
  <2>3. deep[n] = lines[i] /\ n \notin gone
    BY <2>1, <2>2 DEF Shifted
  <2>4. ASSUME NEW m \in D, m > n PROVE deep[m] = Absent
    <3>1. PICK j \in 1 .. k : j = m - first + 1 /\ deep[m] = lines[j]
      BY <1>2
    <3>2. j > i
      BY <1>2, <2>2, <2>4, <3>1
    <3> QED
      BY <2>1, <3>1, <3>2
  <2> QED
    BY <2>1, <2>3, <2>4
<1>4. ASSUME NEW n \in D, deep[n] # Absent, n \notin gone, Denies(deep[n]),
             \A m \in D : m > n => deep[m] = Absent
      PROVE  Decided(lines, unread, k)
  <2>1. PICK i \in 1 .. k : i = n - first + 1 /\ deep[n] = lines[i] /\ i \notin unread
    <3>1. PICK i \in 1 .. k : i = n - first + 1 /\ deep[n] = lines[i]
      BY <1>2
    <3>2. n = first + i - 1
      BY <1>2, <3>1
    <3>3. i \notin unread
      BY <1>4, <3>2 DEF Shifted
    <3> QED
      BY <3>1, <3>3
  <2>2. ASSUME NEW j \in 1 .. k, j > i PROVE lines[j] = Absent
    <3>1. PICK m \in D : m = first + j - 1
      BY <1>1
    <3>2. m > n /\ deep[m] = lines[j]
      BY <1>2, <2>1, <2>2, <3>1 DEF Shifted
    <3> QED
      BY <1>4, <3>2
  <2> QED
    BY <1>4, <2>1, <2>2 DEF Decided
<1> QED
  BY <1>3, <1>4

(* When one edit at most fell between two moments, what a handler saw in   *)
(* between is what was there at one moment.                                *)
AtOnce(seen, dirs, k, a, b) ==
    \E v \in a .. b : \A i \in 1 .. k :
        LinesIn(htaccess[seen[i]], dirs[i]) = LinesIn(htaccess[v], dirs[i])

LEMMA OneMoment ==
    ASSUME EditsInv, Len(htaccess) \in Nat, NEW a \in Nat, NEW b \in Nat,
           a >= 1, a <= b, b <= a + 1, b <= Len(htaccess),
           NEW k \in Nat, NEW dirs, Distinct(dirs, k),
           NEW seen \in [1 .. k -> a .. b]
    PROVE  AtOnce(seen, dirs, k, a, b)
<1>1. CASE b = a
  <2>1. \A i \in 1 .. k : seen[i] = a
    BY <1>1
  <2> QED
    BY <1>1, <2>1 DEF AtOnce
<1>2. CASE b = a + 1
  <2>1. a \in 1 .. Len(htaccess) - 1
    BY <1>2
  <2>2. PICK dir \in DOMAIN htaccess[a] :
          htaccess[a + 1] = [htaccess[a] EXCEPT ![dir] = htaccess[a + 1][dir]]
    BY <2>1 DEF EditsInv
  <2>3. ASSUME NEW d, d # dir PROVE LinesIn(htaccess[a + 1], d) = LinesIn(htaccess[a], d)
    <3> DEFINE h == htaccess[a]
               h1 == htaccess[a + 1]
               x == h1[dir]
    <3>1. h1 = [h EXCEPT ![dir] = x]
      BY <2>2
    <3> HIDE DEF h, h1, x
    <3>2. DOMAIN h1 = DOMAIN h /\ (d \in DOMAIN h => h1[d] = h[d])
      BY <2>3, <3>1
    <3>3. LinesIn(h1, d) = LinesIn(h, d)
      BY <3>2 DEF LinesIn
    <3> QED
      BY <3>3 DEF h, h1
  <2>4. \A i \in 1 .. k : seen[i] \in {a, a + 1}
    BY <1>2
  <2>5. \A d, v, w : d # dir /\ v \in {a, a + 1} /\ w \in {a, a + 1}
                       => LinesIn(htaccess[v], d) = LinesIn(htaccess[w], d)
    <3> SUFFICES ASSUME NEW d, NEW v \in {a, a + 1}, NEW w \in {a, a + 1}, d # dir
                 PROVE  LinesIn(htaccess[v], d) = LinesIn(htaccess[w], d)
      OBVIOUS
    <3>1. LinesIn(htaccess[a + 1], d) = LinesIn(htaccess[a], d)
      BY <2>3
    <3>2. (v = a \/ v = a + 1) /\ (w = a \/ w = a + 1)
      OBVIOUS
    <3> QED
      BY <3>1, <3>2
  <2>6. CASE \E o \in 1 .. k : dirs[o] = dir
    <3>1. PICK o \in 1 .. k : dirs[o] = dir
      BY <2>6
    <3>2. PICK v \in a .. b : v = seen[o]
      OBVIOUS
    <3>3. ASSUME NEW i \in 1 .. k
          PROVE  LinesIn(htaccess[seen[i]], dirs[i]) = LinesIn(htaccess[v], dirs[i])
      <4>1. CASE i = o
        BY <3>2, <4>1
      <4>2. CASE i # o
        <5>1. dirs[i] # dir
          BY <3>1, <4>2 DEF Distinct
        <5> QED
          BY <2>4, <2>5, <3>2, <5>1
      <4> QED
        BY <4>1, <4>2
    <3> QED
      BY <3>3 DEF AtOnce
  <2>7. CASE ~\E o \in 1 .. k : dirs[o] = dir
    <3>1. \A i \in 1 .. k : LinesIn(htaccess[seen[i]], dirs[i]) = LinesIn(htaccess[a], dirs[i])
      BY <2>4, <2>5, <2>7
    <3>2. a \in a .. b
      BY <1>2
    <3> QED
      BY <3>1, <3>2 DEF AtOnce
  <2> QED
    BY <2>6, <2>7
<1> QED
  BY <1>1, <1>2

LEMMA PageMoments ==
    ASSUME RequestInv, RulesInv, NEW r \in Handlers, OnPage(r), local[r].to > 0,
           pc[r] = "answered"
    PROVE  \E at \in Moments(r) :
             DeniedAt(at, Directory(local[r].file), Unread(r)) <=> local[r].denied
<1> DEFINE file == local[r].file
           dir == Directory(file)
           root == selectDocumentRoot(request[r].host)
           top == Canonical(root)
           first == Max({Len(top), Len(dir) - Depth + 1})
           dirs == Dirs(r)
<1>1. /\ PageInv(r) /\ TimeInv(r) /\ EditsInv
      /\ Len(htaccess) \in Nat /\ local[r] \in Locals
  BY DEF RulesInv, RequestInv, Types
<1>13. dirs # <<>>
  <2>1. local[r].dir = Len(dirs) + 1 /\ local[r].dir >= 2
    BY <1>1 DEF PageInv, TimeInv
  <2>2. Len(<<>>) = 0
    OBVIOUS
  <2> HIDE DEF dirs
  <2> QED
    BY <2>1, <2>2
<1>2. PICK l \in Nat, f \in Nat, k \in Nat :
        /\ l = Len(dir) /\ f = first /\ k = Len(dirs)
        /\ dirs = [i \in 1 .. k |-> SubSeq(dir, 1, f + i - 1)]
        /\ k = l - f + 1 /\ k >= 1
        /\ Reached(top, dir) = f .. l
  <2>1. IsPage(file)
    BY DEF OnPage
  <2>6. PICK host, page : host = request[r].host /\ page = file
    OBVIOUS
  <2>7. dirs = RuleDirs(selectDocumentRoot(host), page)
    BY <2>6 DEF Dirs
  <2>2. /\ Len(dir) \in Nat /\ first \in Nat /\ Len(dirs) \in Nat
        /\ Len(dirs) >= 1 /\ Len(dirs) = Len(dir) - first + 1
        /\ dirs = [i \in 1 .. Len(dirs) |-> SubSeq(dir, 1, first + i - 1)]
        /\ Reached(top, dir) = first .. Len(dir)
    <3> HIDE DEF file, dirs
    <3> QED
      BY ZenonT(40), <1>13, <2>1, <2>6, <2>7, PageDirs
  <2> HIDE DEF file, dir, root, top, first, dirs
  <2>3. PICK l \in Nat, f \in Nat, k \in Nat : l = Len(dir) /\ f = first /\ k = Len(dirs)
    BY <2>2
  <2>4. dirs = [i \in 1 .. k |-> SubSeq(dir, 1, f + i - 1)] /\ k = l - f + 1 /\ k >= 1
    BY <2>2, <2>3
  <2>5. Reached(top, dir) = f .. l
    BY <2>2, <2>3
  <2> QED
    BY <2>3, <2>4, <2>5
<1>3. dir \in Seq({dir[i] : i \in DOMAIN dir})
  <2>1. IsPath(dir)
    BY PageDirs DEF OnPage
  <2> QED
    BY <2>1 DEF IsPath
<1>4. PICK a \in Nat, b \in Nat : /\ a = local[r].from /\ b = local[r].to
                                  /\ a >= 1 /\ a <= b /\ b <= Len(htaccess)
  BY <1>1 DEF TimeInv, Locals
<1> HIDE DEF file, dir, root, top, first, dirs
<1>5. PICK seen \in [1 .. k -> a .. b] : Looked(r, seen, k)
  <2>1. PICK n \in 0 .. k :
          n = local[r].dir - 1 /\ \E seen \in [1 .. n -> local[r].from .. local[r].to] : Looked(r, seen, n)
    BY <1>1, <1>2 DEF PageInv, dirs
  <2>2. local[r].dir = k + 1
    BY <1>1, <1>2 DEF PageInv, dirs
  <2>3. n = k
    BY <2>1, <2>2
  <2> QED
    BY <1>4, <2>1, <2>3
<1>6. k = l - f + 1 /\ k >= 1
  BY <1>2
<1>7. \A i \in 1 .. k : dirs[i] = SubSeq(dir, 1, f + i - 1) /\ Len(dirs[i]) = f + i - 1
  <2> SUFFICES ASSUME NEW i \in 1 .. k
               PROVE  dirs[i] = SubSeq(dir, 1, f + i - 1) /\ Len(dirs[i]) = f + i - 1
    OBVIOUS
  <2>1. f + i - 1 \in Nat /\ f + i - 1 <= l
    BY <1>6
  <2>2. Len(SubSeq(dir, 1, f + i - 1)) = f + i - 1
    <3> DEFINE n == f + i - 1
    <3>1. n \in Nat /\ n <= Len(dir) /\ Len(dir) \in Nat
      BY <1>2, <2>1
    <3> HIDE DEF n
    <3>2. Len(SubSeq(dir, 1, n)) = n
      BY <1>3, <3>1, SubSeqProperties
    <3> QED
      BY <3>2 DEF n
  <2> QED
    BY <1>2, <2>1, <2>2
<1>8. Distinct(dirs, k)
  <2> SUFFICES ASSUME NEW i \in 1 .. k, NEW j \in 1 .. k, dirs[i] = dirs[j] PROVE i = j
    BY DEF Distinct
  <2>1. f + i - 1 = f + j - 1
    BY <1>7
  <2> QED
    BY <2>1
<1>9. \A n : n \in Reached(top, dir) <=> n \in f .. f + k - 1
  <2>2. f .. l = f .. f + k - 1
    BY <1>6
  <2> QED
    BY <1>2, <2>2
<1>14. /\ \A i \in 1 .. k : f + i - 1 \in Unread(r) <=> i \in local[r].unread
       /\ \A n \in Unread(r) : \E i \in local[r].unread : i \in 1 .. k /\ n = f + i - 1
  <2>1. Unread(r) = {Len(dirs[i]) : i \in local[r].unread}
    BY DEF Unread, dirs
  <2>2. \A i \in local[r].unread : i \in 1 .. k
    BY <1>5 DEF Looked
  <2>3. \A i \in local[r].unread : i \in 1 .. k /\ Len(dirs[i]) = f + i - 1
    BY <1>7, <2>2
  <2>4. ASSUME NEW i \in 1 .. k, f + i - 1 \in Unread(r) PROVE i \in local[r].unread
    <3>1. PICK j \in local[r].unread : f + i - 1 = Len(dirs[j])
      BY <2>1, <2>4
    <3>2. j \in 1 .. k /\ f + i - 1 = f + j - 1
      BY <2>3, <3>1
    <3>3. i = j
      BY <3>2
    <3> QED
      BY <3>1, <3>3
  <2>5. ASSUME NEW i \in 1 .. k, i \in local[r].unread PROVE f + i - 1 \in Unread(r)
    BY <2>1, <2>3, <2>5
  <2>6. \A n \in Unread(r) : \E i \in local[r].unread : i \in 1 .. k /\ n = f + i - 1
    BY <2>1, <2>3
  <2> QED
    BY <2>4, <2>5, <2>6
<1>15. ASSUME NEW at,
              \A i \in 1 .. k : LinesIn(htaccess[at[f + i - 1]], dirs[i]) = LinesSeen(r, seen, i)
       PROVE  \A n \in Unread(r) : LinesIn(htaccess[at[n]], SubSeq(dir, 1, n)) # Absent
  <2> SUFFICES ASSUME NEW n \in Unread(r)
               PROVE  LinesIn(htaccess[at[n]], SubSeq(dir, 1, n)) # Absent
    OBVIOUS
  <2>1. PICK i \in local[r].unread : i \in 1 .. k /\ n = f + i - 1
    BY <1>14
  <2>2. LinesSeen(r, seen, i) # Absent
    BY <1>5, <2>1 DEF Looked
  <2> QED
    BY <1>7, <1>15, <2>1, <2>2
<1>10. ASSUME NEW at, DOMAIN at = Reached(top, dir),
              \A i \in 1 .. k : LinesIn(htaccess[at[f + i - 1]], dirs[i]) = LinesSeen(r, seen, i)
       PROVE  DeniedAt(at, dir, Unread(r)) <=> local[r].denied
  <2> DEFINE D == Reached(top, dir)
             lines == [i \in 1 .. k |-> LinesSeen(r, seen, i)]
             deep == [n \in D |-> LinesIn(htaccess[at[n]], SubSeq(dir, 1, n))]
  <2>1. \A i \in 1 .. k : deep[f + i - 1] = lines[i]
    <3> SUFFICES ASSUME NEW i \in 1 .. k PROVE deep[f + i - 1] = LinesSeen(r, seen, i)
      OBVIOUS
    <3>1. PICK n \in D : n = f + i - 1
      BY <1>9
    <3>2. deep[n] = LinesIn(htaccess[at[n]], dirs[i])
      BY <1>7, <3>1
    <3> QED
      BY <1>10, <3>1, <3>2
  <2>2. local[r].denied <=> Decided(lines, local[r].unread, k)
    BY <1>5 DEF Looked
  <2>3. DeniedAt(at, dir, Unread(r)) <=>
          \E n \in D : /\ deep[n] # Absent /\ n \notin Unread(r) /\ Denies(deep[n])
                       /\ \A m \in D : m > n => deep[m] = Absent
    BY <1>10 DEF DeniedAt
  <2>4. \A n : n \in D <=> n \in f .. f + k - 1
    BY <1>9
  <2> HIDE DEF D, lines, deep
  <2>5. PICK E, s, t, g, u :
          /\ E = D /\ s = lines /\ t = deep /\ g = Unread(r) /\ u = local[r].unread
          /\ Shifted(E, t, g, s, u, f, k)
    BY <1>14, <2>1, <2>4 DEF Shifted
  <2>6. Decided(s, u, k) <=> \E n \in E : /\ t[n] # Absent /\ n \notin g /\ Denies(t[n])
                                          /\ \A m \in E : m > n => t[m] = Absent
    BY <2>5, ByDepth
  <2> QED
    BY <2>2, <2>3, <2>5, <2>6
<1>11. CASE b <= a + 1
  <2>1. PICK v \in a .. b : \A i \in 1 .. k :
          LinesIn(htaccess[seen[i]], dirs[i]) = LinesIn(htaccess[v], dirs[i])
    <3>1. PICK ds : ds = dirs /\ Distinct(ds, k)
      BY <1>8
    <3>2. AtOnce(seen, ds, k, a, b)
      <4>1. EditsInv /\ Len(htaccess) \in Nat
        BY <1>1
      <4>2. a >= 1 /\ a <= b /\ b <= a + 1 /\ b <= Len(htaccess)
        BY <1>4, <1>11
      <4> QED
        BY <3>1, <4>1, <4>2, OneMoment
    <3> QED
      BY <3>1, <3>2 DEF AtOnce
  <2> DEFINE at == [n \in Reached(top, dir) |-> v]
  <2>3. \A i \in 1 .. k : LinesIn(htaccess[at[f + i - 1]], dirs[i]) = LinesSeen(r, seen, i)
    <3> SUFFICES ASSUME NEW i \in 1 .. k
                 PROVE  LinesIn(htaccess[at[f + i - 1]], dirs[i]) = LinesSeen(r, seen, i)
      OBVIOUS
    <3>1. f + i - 1 \in Reached(top, dir)
      BY <1>9
    <3>2. at[f + i - 1] = v
      BY <3>1
    <3> QED
      BY <2>1, <3>2 DEF LinesSeen, dirs
  <2>5. \A n \in Unread(r) : LinesIn(htaccess[at[n]], SubSeq(dir, 1, n)) # Absent
    BY <1>15, <2>3
  <2>2. at \in Moments(r)
    BY <1>4, <1>11, <2>5 DEF Moments, root, file, top, dir
  <2>4. DeniedAt(at, dir, Unread(r)) <=> local[r].denied
    BY <1>10, <2>3
  <2> HIDE DEF at
  <2> QED
    BY <2>2, <2>4 DEF file, dir
<1>12. CASE ~(b <= a + 1)
  <2> DEFINE at == [n \in Reached(top, dir) |-> seen[n - f + 1]]
  <2>1. \A n \in Reached(top, dir) : n \in Int /\ n - f + 1 \in 1 .. k
    BY <1>9
  <2>3. \A i \in 1 .. k : LinesIn(htaccess[at[f + i - 1]], dirs[i]) = LinesSeen(r, seen, i)
    <3> SUFFICES ASSUME NEW i \in 1 .. k
                 PROVE  LinesIn(htaccess[at[f + i - 1]], dirs[i]) = LinesSeen(r, seen, i)
      OBVIOUS
    <3>1. f + i - 1 \in Reached(top, dir) /\ f + i - 1 - f + 1 = i
      BY <1>9
    <3>2. at[f + i - 1] = seen[i]
      BY <3>1
    <3> QED
      BY <3>2 DEF LinesSeen, dirs
  <2>5. \A n \in Unread(r) : LinesIn(htaccess[at[n]], SubSeq(dir, 1, n)) # Absent
    BY <1>15, <2>3
  <2>2. at \in Moments(r)
    <3>1. at \in [Reached(top, dir) -> a .. b]
      BY <2>1
    <3>2. ASSUME NEW n \in Reached(top, dir), NEW m \in Reached(top, dir), n < m
          PROVE  at[n] <= at[m]
      <4>1. PICK i \in 1 .. k, j \in 1 .. k : i = n - f + 1 /\ j = m - f + 1
        BY <2>1
      <4>2. i < j
        BY <2>1, <3>2, <4>1
      <4>3. seen[i] <= seen[j]
        BY <1>5, <4>2 DEF Looked
      <4> QED
        BY <4>1, <4>3
    <3> HIDE DEF at
    <3> QED
      BY <1>4, <1>12, <2>5, <3>1, <3>2 DEF Moments, root, file, top, dir
  <2>4. DeniedAt(at, dir, Unread(r)) <=> local[r].denied
    BY <1>10, <2>3
  <2> HIDE DEF at
  <2> QED
    BY <2>2, <2>4 DEF file, dir
<1> QED
  BY <1>11, <1>12

(* The .htaccess files decide, each as it was at some moment while the     *)
(* handler looked; and with one edit in that time all as they were at one  *)
(* moment, whatever the documents, the rules and the depth limit are and   *)
(* however often the files are edited.  One that was there at the look and *)
(* could not be read grants.                                               *)
THEOREM RulesDecided == Spec => []RulesDecide
<1>1. RequestInv /\ RulesInv => RulesDecide
  <2> SUFFICES ASSUME RequestInv, RulesInv, NEW r \in Handlers, local[r].to > 0, OnPage(r)
               PROVE  LET dir == Directory(local[r].file)
                      IN  /\ Served(r) => \E at \in Moments(r) : ~DeniedAt(at, dir, Unread(r))
                          /\ answer[r].status = 403 => \E at \in Moments(r) : DeniedAt(at, dir, Unread(r))
    BY DEF RulesDecide, OnPage
  <2>1. CASE pc[r] # "answered"
    <3>1. answer[r].status = 0
      BY <2>1 DEF RequestInv, HandlerInv, AuditInv
    <3> QED
      BY <3>1 DEF Served
  <2>2. CASE pc[r] = "answered"
    <3>1. PICK at \in Moments(r) :
            DeniedAt(at, Directory(local[r].file), Unread(r)) <=> local[r].denied
      BY <2>2, PageMoments
    <3>2. (answer[r].status = 403 => local[r].denied) /\ (Served(r) => ~local[r].denied)
      BY <2>2 DEF RulesInv, PageInv
    <3> QED
      BY <3>1, <3>2
  <2> QED
    BY <2>1, <2>2
<1> QED
  BY <1>1, RequestInvHolds, RulesInvHolds, PTL
-----------------------------------------------------------------------------
(* Uploads stay apart: while no name was used twice and no write fell      *)
(* short, a handler owns its spool file, parses its own body, and the      *)
(* files it has stored are whole and those of the parts behind it.         *)
FileParts(r, n) == {i \in 1 .. Len(request[r].parts) : i < n /\ request[r].parts[i].file}
PartsOf(files) == {f.part : f \in files}

Spools(r) ==
    pc[r] \in Uploading =>
        /\ spool[local[r].name] # Absent
        /\ pc[r] \in {"receive", "parse"} => spool[local[r].name].from \subseteq {r}

Parses(r) ==
    /\ pc[r] \notin {"part", "content", "cleanup", "answered"} =>
         local[r].files = {} /\ local[r].part = 1
    /\ pc[r] \in {"part", "content"} =>
         local[r].source = r /\ PartsOf(local[r].files) = FileParts(r, local[r].part)
    /\ pc[r] = "content" =>
         /\ request[r].parts[local[r].part].file
         /\ uploads[local[r].stored] = [from |-> {}, bytes |-> 0]

Keeps(r) ==
    /\ \A f \in local[r].files :
         /\ uploads[f.stored] # Absent
         /\ uploads[f.stored] = [from |-> {<<r, f.part>>}, bytes |-> StoredSize(request[r].parts[f.part])]
    /\ local[r].status = 200 =>
         PartsOf(local[r].files) = FileParts(r, Len(request[r].parts) + 1)
    /\ answer[r].status = 200 /\ local[r].status = 200 => answer[r].files = local[r].files

Apart(r, h) ==
    /\ pc[r] \in Uploading /\ pc[h] \in Uploading => local[r].name # local[h].name
    /\ pc[r] = "content" /\ pc[h] = "content" => local[r].stored # local[h].stored

AllApart ==
    /\ \A r \in Handlers : Spools(r) /\ Parses(r) /\ Keeps(r)
    /\ \A r, h \in Handlers : r # h => Apart(r, h)

WholeInv == ~shared /\ ~short => AllApart

LEMMA WholeInit == Init => WholeInv
<1> SUFFICES ASSUME Init PROVE AllApart
  BY DEF WholeInv
<1>1. ASSUME NEW r \in Handlers
      PROVE  pc[r] = "read" /\ local[r].files = {} /\ local[r].part = 1 /\ local[r].status = 0
  BY <1>1 DEF Init, NoLocals
<1>2. ASSUME NEW r \in Handlers PROVE Spools(r) /\ Parses(r) /\ Keeps(r)
  BY <1>1 DEF Spools, Parses, Keeps, Uploading
<1>3. ASSUME NEW r \in Handlers, NEW h \in Handlers PROVE Apart(r, h)
  BY <1>1 DEF Apart, Uploading
<1> QED
  BY <1>2, <1>3 DEF AllApart

(* A step that leaves a handler's files alone leaves it as it is.          *)
UploadsKept(h) ==
    /\ pc[h] = "content" => uploads'[local[h].stored] = uploads[local[h].stored]
    /\ \A f \in local[h].files : uploads'[f.stored] = uploads[f.stored]

SpoolKept(h) == pc[h] \in Uploading => spool'[local[h].name] = spool[local[h].name]

LEMMA ApartKept ==
    ASSUME NEW h \in Handlers, Spools(h), Parses(h), Keeps(h), request' = request,
           pc'[h] = pc[h], answer'[h] = answer[h], local'[h] = local[h],
           SpoolKept(h), UploadsKept(h)
    PROVE  Spools(h)' /\ Parses(h)' /\ Keeps(h)'
<1>1. \A n : FileParts(h, n)' = FileParts(h, n)
  BY DEF FileParts
<1>2. PartsOf(local[h].files)' = PartsOf(local[h].files)
  BY DEF PartsOf
<1>3. Spools(h)'
  BY DEF Spools, SpoolKept
<1>4. Parses(h)'
  BY <1>1, <1>2 DEF Parses, UploadsKept
<1>5. Keeps(h)'
  BY <1>1, <1>2 DEF Keeps, UploadsKept
<1> QED
  BY <1>3, <1>4, <1>5
LEMMA ApartFrame ==
    ASSUME AllApart, NEW r \in Handlers, OthersKept(r),
           \A h \in Handlers \ {r} : SpoolKept(h) /\ UploadsKept(h),
           Spools(r)', Parses(r)', Keeps(r)', \A h \in Handlers \ {r} : Apart(r, h)'
    PROVE  AllApart'
<1>1. ASSUME NEW h \in Handlers, h # r PROVE Spools(h)' /\ Parses(h)' /\ Keeps(h)'
  <2>1. Spools(h) /\ Parses(h) /\ Keeps(h)
    BY DEF AllApart
  <2> QED
    BY <1>1, <2>1, ApartKept DEF OthersKept
<1>2. ASSUME NEW g \in Handlers, NEW h \in Handlers, g # h PROVE Apart(g, h)'
  <2>1. CASE g = r
    BY <1>2, <2>1
  <2>2. CASE h = r
    <3>1. Apart(h, g)'
      BY <1>2, <2>2
    <3> QED
      BY <3>1 DEF Apart
  <2>3. CASE g # r /\ h # r
    <3>1. Apart(g, h)
      BY <1>2 DEF AllApart
    <3> QED
      BY <2>3, <3>1 DEF Apart, OthersKept
  <2> QED
    BY <2>1, <2>2, <2>3
<1> QED
  BY <1>1, <1>2 DEF AllApart

(* A step of a handler that is not at an upload, before it or elsewhere.   *)
LEMMA NoUploadApart ==
    ASSUME RequestInv, AllApart, NEW r \in Handlers, OthersKept(r), UNCHANGED <<spool, uploads>>,
           pc[r] \notin Uploading \cup {"answered"}, pc'[r] \notin Uploading,
           local'[r].files = local[r].files, local'[r].part = local[r].part,
           local'[r].status = local[r].status
    PROVE  AllApart'
<1>1. Spools(r) /\ Parses(r) /\ Keeps(r) /\ UploadInv(r)
  BY DEF AllApart, RequestInv, HandlerInv
<1>2. local'[r].files = {} /\ local'[r].part = 1 /\ local'[r].status = 0
  BY <1>1 DEF Parses, UploadInv, Uploading
<1>3. Spools(r)' /\ Parses(r)' /\ Keeps(r)'
  BY <1>2 DEF Spools, Parses, Keeps, Uploading
<1>4. \A h \in Handlers : Apart(r, h)'
  BY DEF Apart, Uploading
<1> QED
  BY <1>3, <1>4, ApartFrame DEF SpoolKept, UploadsKept

(* The spool file of a finished upload is no other's.                      *)
LEMMA RemovedApart ==
    ASSUME RequestInv, AllApart, NEW r \in Handlers, OthersKept(r), pc[r] \in Uploading,
           RemoveSpool(r), UNCHANGED <<uploads, local>>, pc'[r] \notin Uploading, Keeps(r)',
           pc'[r] # "answered" => local[r].files = {} /\ local[r].part = 1
    PROVE  AllApart'
<1>1. spool' = [spool EXCEPT ![local[r].name] = Absent] /\ spool \in [Clocks -> Spooled \cup {Absent}]
  BY DEF RemoveSpool, RequestInv, Types
<1>2. ASSUME NEW h \in Handlers \ {r} PROVE SpoolKept(h) /\ UploadsKept(h)
  <2>1. Apart(r, h) /\ UploadInv(h)
    BY DEF AllApart, RequestInv, HandlerInv
  <2>2. SpoolKept(h)
    BY <1>1, <2>1 DEF SpoolKept, Apart, UploadInv
  <2> QED
    BY <2>2 DEF UploadsKept
<1>3. Spools(r)' /\ Parses(r)'
  BY DEF Spools, Parses, Uploading
<1>4. \A h \in Handlers : Apart(r, h)'
  BY DEF Apart, Uploading
<1> QED
  BY <1>2, <1>3, <1>4, ApartFrame
LEMMA ReceiveLessApart ==
    ASSUME RequestInv, AllApart, NEW r \in Handlers, ReceiveLess(r) \/ ParseThrows(r)
    PROVE  AllApart'
<1>1. Types /\ UploadInv(r) /\ Parses(r) /\ Keeps(r)
  BY DEF AllApart, RequestInv, HandlerInv
<1>2. /\ pc[r] \in {"receive", "parse"} /\ RemoveSpool(r)
      /\ UNCHANGED <<config, request, audits, local, uploads>>
      /\ Throw(r) \/ Reply(r, 400, {})
  BY DEF ReceiveLess, ParseThrows, UploadRest
<1>3. /\ pc'[r] \in {"lost", "answered"}
      /\ \A h \in Handlers \ {r} : pc'[h] = pc[h] /\ answer'[h] = answer[h]
  <2>1. CASE Throw(r)
    BY <1>1, <2>1, Goes DEF Throw, Points
  <2>2. CASE Reply(r, 400, {})
    BY <1>1, <2>2, Replies
  <2> QED
    BY <1>2, <2>1, <2>2
<1>4. local[r].status = 0 /\ local[r].files = {} /\ local[r].part = 1
  BY <1>1, <1>2 DEF UploadInv, Parses
<1>5. Keeps(r)'
  BY <1>2, <1>4 DEF Keeps
<1>6. OthersKept(r)
  BY <1>2, <1>3 DEF OthersKept
<1> QED
  BY <1>2, <1>3, <1>4, <1>5, <1>6, RemovedApart DEF Uploading

LEMMA CleanupApart ==
    ASSUME RequestInv, AllApart, NEW r \in Handlers, Cleanup(r) PROVE AllApart'
<1> DEFINE files == IF local[r].status = 200 THEN local[r].files ELSE {}
           status == local[r].status
<1>1. Types /\ Keeps(r)
  BY DEF AllApart, RequestInv
<1>2. /\ pc[r] = "cleanup" /\ RemoveSpool(r) /\ UNCHANGED <<config, request, audits, local, uploads>>
      /\ Reply(r, status, files)
  BY DEF Cleanup, UploadRest
<1>3. status = 200 => files = local[r].files
  OBVIOUS
<1> HIDE DEF files, status
<1>4. /\ pc'[r] = "answered" /\ answer'[r].files = files
      /\ \A h \in Handlers \ {r} : pc'[h] = pc[h] /\ answer'[h] = answer[h]
  BY <1>1, <1>2, Replies
<1>5. FileParts(r, Len(request[r].parts) + 1)' = FileParts(r, Len(request[r].parts) + 1)
  BY <1>2 DEF FileParts
<1>6. Keeps(r)'
  BY <1>1, <1>2, <1>3, <1>4, <1>5 DEF Keeps, PartsOf, status
<1> QED
  BY <1>2, <1>4, <1>6, RemovedApart DEF Uploading, OthersKept

LEMMA ReceiveAllApart ==
    ASSUME RequestInv, AllApart, NEW r \in Handlers, ReceiveAll(r), ~short'
    PROVE  AllApart'
<1> DEFINE n == local[r].name
           made == [spool[n] EXCEPT !.from = @ \cup {r}]
<1>1. /\ Types /\ UploadInv(r) /\ Spools(r) /\ Parses(r) /\ Keeps(r)
      /\ spool \in [Clocks -> Spooled \cup {Absent}]
  BY DEF AllApart, RequestInv, HandlerInv, Types
<1>2. /\ pc[r] = "receive" /\ GoTo(r, "parse")
      /\ UNCHANGED <<config, request, audits, answer, local, uploads>>
      /\ spool' \in {spool, [spool EXCEPT ![n] = made]}
  BY DEF ReceiveAll, UploadRest
<1>3. n \in Clocks /\ spool[n] \in Spooled /\ spool[n] # Absent /\ spool[n].from \subseteq {r}
  BY <1>1, <1>2 DEF UploadInv, Spools, Uploading
<1>4. made \in Spooled /\ made.from \subseteq {r}
  BY <1>3 DEF Spooled
<1>5. made # Absent
  BY <1>4, AbsentAssumption DEF Spooled
<1> HIDE DEF n, made
<1>6. spool'[n] # Absent /\ spool'[n].from \subseteq {r} /\ \A m \in Clocks \ {n} : spool'[m] = spool[m]
  BY <1>1, <1>2, <1>3, <1>4, <1>5
<1>7. pc'[r] = "parse" /\ \A h \in Handlers \ {r} : pc'[h] = pc[h]
  BY <1>1, <1>2, Goes DEF Points
<1>8. ASSUME NEW h \in Handlers \ {r} PROVE SpoolKept(h) /\ UploadsKept(h) /\ Apart(r, h)'
  <2>1. Apart(r, h) /\ UploadInv(h)
    BY DEF AllApart, RequestInv, HandlerInv
  <2>2. SpoolKept(h)
    BY <1>2, <1>6, <2>1 DEF SpoolKept, Apart, UploadInv, Uploading, n
  <2>3. Apart(r, h)'
    BY <1>2, <1>7, <2>1 DEF Apart, Uploading
  <2> QED
    BY <1>2, <2>2, <2>3 DEF UploadsKept
<1>9. Spools(r)'
  BY <1>2, <1>6, <1>7 DEF Spools, n
<1>10. Parses(r)'
  BY <1>1, <1>2, <1>7 DEF Parses
<1>11. FileParts(r, Len(request[r].parts) + 1)' = FileParts(r, Len(request[r].parts) + 1)
  BY <1>2 DEF FileParts
<1>12. Keeps(r)'
  BY <1>1, <1>2, <1>11 DEF Keeps, PartsOf
<1> QED
  BY <1>2, <1>7, <1>8, <1>9, <1>10, <1>12, ApartFrame DEF OthersKept

LEMMA SpoolOpenApart ==
    ASSUME RequestInv, AllApart, NEW r \in Handlers, SpoolOpen(r), ~shared'
    PROVE  AllApart'
<1>1. /\ Types /\ UploadInv(r) /\ Spools(r) /\ Parses(r) /\ Keeps(r) /\ clock \in Clocks
      /\ local \in [Handlers -> Locals] /\ local[r] \in Locals
      /\ spool \in [Clocks -> Spooled \cup {Absent}]
  BY DEF AllApart, RequestInv, HandlerInv, Types
<1>2. pc[r] = "spool" /\ UNCHANGED <<config, request, audits, answer, uploads>>
  BY DEF SpoolOpen, UploadRest, Throw
<1>3. local[r].files = {} /\ local[r].part = 1 /\ local[r].status = 0
  BY <1>1, <1>2 DEF Parses, UploadInv
<1>4. CASE spool' = spool /\ Throw(r) /\ local' = local
  <2>1. pc'[r] = "lost" /\ \A h \in Handlers \ {r} : pc'[h] = pc[h]
    BY <1>1, <1>4, Goes DEF Throw, Points
  <2>2. OthersKept(r)
    BY <1>2, <1>4, <2>1 DEF OthersKept
  <2> QED
    BY <1>2, <1>4, <2>1, <2>2, NoUploadApart DEF Uploading
<1>5. CASE /\ spool' = [spool EXCEPT ![clock] =
                IF @ = Absent THEN [inode |-> r, from |-> {}] ELSE [@ EXCEPT !.from = {}]]
           /\ spool[clock] = Absent /\ GoTo(r, "receive")
           /\ local' = [local EXCEPT ![r].name = clock, ![r].inode = spool'[clock].inode]
  <2> DEFINE made == [inode |-> r, from |-> {}]
             inode == spool'[clock].inode
             mine == [local[r] EXCEPT !.name = clock, !.inode = inode]
  <2>1. made.from = {} /\ made \in Spooled
    BY DEF Spooled
  <2>2. spool' = [spool EXCEPT ![clock] = made]
    BY <1>5
  <2>3. made # Absent
    BY <2>1, AbsentAssumption DEF Spooled
  <2> HIDE DEF made
  <2>4. spool'[clock] = made /\ \A m \in Clocks \ {clock} : spool'[m] = spool[m]
    BY <1>1, <2>2
  <2>5. local' = [local EXCEPT ![r] = mine]
    <3>1. local' = [local EXCEPT ![r].name = clock, ![r].inode = inode]
      BY <1>5
    <3> HIDE DEF inode
    <3> QED
      BY <1>1, <3>1
  <2>6. mine.name = clock /\ mine.files = {} /\ mine.part = 1 /\ mine.status = 0
    BY <1>1, <1>3 DEF Locals
  <2> HIDE DEF mine
  <2>7. local'[r] = mine /\ \A h \in Handlers \ {r} : local'[h] = local[h]
    BY <1>1, <2>5
  <2>8. pc'[r] = "receive" /\ \A h \in Handlers \ {r} : pc'[h] = pc[h]
    BY <1>1, <1>5, Goes DEF Points
  <2>9. ASSUME NEW h \in Handlers \ {r} PROVE SpoolKept(h) /\ UploadsKept(h) /\ Apart(r, h)'
    <3>1. Spools(h) /\ UploadInv(h)
      BY DEF AllApart, RequestInv, HandlerInv
    <3>2. pc[h] \in Uploading => local[h].name \in Clocks /\ local[h].name # clock
      BY <1>5, <3>1 DEF Spools, UploadInv
    <3> QED
      BY <1>2, <2>4, <2>6, <2>7, <2>8, <3>2 DEF SpoolKept, UploadsKept, Apart
  <2>10. Spools(r)'
    BY <2>1, <2>3, <2>4, <2>6, <2>7 DEF Spools
  <2>11. Parses(r)' /\ Keeps(r)'
    BY <2>6, <2>7, <2>8 DEF Parses, Keeps
  <2> QED
    BY <1>2, <2>7, <2>8, <2>9, <2>10, <2>11, ApartFrame DEF OthersKept
<1> QED
  BY <1>4, <1>5 DEF SpoolOpen, SpoolName
-----------------------------------------------------------------------------
(* A step of saveUploadsFromSpoolFile, and the three ways it goes on.      *)
LEMMA SavesApart ==
    ASSUME RequestInv, AllApart, NEW r \in Handlers, OthersKept(r), spool' = spool,
           pc[r] \in {"parse", "part", "content"}, pc'[r] \in {"part", "content", "cleanup"},
           local'[r].name = local[r].name, \A h \in Handlers \ {r} : UploadsKept(h),
           Parses(r)', Keeps(r)',
           pc'[r] = "content" => \A h \in Handlers \ {r} :
                                   pc[h] = "content" => local'[r].stored # local[h].stored
    PROVE  AllApart'
<1>1. Spools(r)'
  BY DEF AllApart, Spools, Uploading
<1>2. ASSUME NEW h \in Handlers \ {r} PROVE Apart(r, h)'
  <2>1. Apart(r, h) /\ pc'[h] = pc[h] /\ local'[h] = local[h]
    BY DEF AllApart, OthersKept
  <2> QED
    BY <2>1 DEF Apart, Uploading
<1> QED
  BY <1>1, <1>2, ApartFrame DEF SpoolKept

LEMMA EndsApart ==
    ASSUME RequestInv, AllApart, NEW r \in Handlers, NEW status, status # 200, ParseEnds(r, status),
           UNCHANGED <<config, request, audits, answer, spool>>,
           pc[r] \in {"parse", "part", "content"}, \A h \in Handlers \ {r} : UploadsKept(h),
           \A f \in local[r].files : uploads'[f.stored] = uploads[f.stored]
    PROVE  AllApart'
<1> DEFINE mine == [local[r] EXCEPT !.status = status]
<1>1. Types /\ Keeps(r) /\ local \in [Handlers -> Locals] /\ local[r] \in Locals
  BY DEF RequestInv, AllApart, Types
<1>2. mine.name = local[r].name /\ mine.files = local[r].files /\ mine.status = status
  BY <1>1 DEF Locals
<1>3. local' = [local EXCEPT ![r] = mine] /\ GoTo(r, "cleanup")
  BY DEF ParseEnds
<1> HIDE DEF mine
<1>4. local'[r] = mine /\ \A h \in Handlers \ {r} : local'[h] = local[h]
  BY <1>1, <1>3
<1>5. pc'[r] = "cleanup" /\ \A h \in Handlers \ {r} : pc'[h] = pc[h]
  BY <1>1, <1>3, Goes DEF Points
<1>6. Parses(r)'
  BY <1>5 DEF Parses
<1>7. Keeps(r)'
  BY <1>1, <1>2, <1>4 DEF Keeps
<1> QED
  BY <1>2, <1>4, <1>5, <1>6, <1>7, SavesApart DEF OthersKept

LEMMA NextFile ==
    ASSUME Given, NEW r \in Handlers, NEW i \in 1 .. Len(request[r].parts)
    PROVE  /\ request[r].parts[i].file => FileParts(r, i + 1) = FileParts(r, i) \cup {i}
           /\ ~request[r].parts[i].file => FileParts(r, i + 1) = FileParts(r, i)
<1> DEFINE n == Len(request[r].parts)
           file(j) == request[r].parts[j].file
<1>1. n \in Nat
  BY PartsGiven
<1>2. \A k : FileParts(r, k) = {j \in 1 .. n : j < k /\ file(j)}
  BY DEF FileParts
<1> HIDE DEF n, file
<1>3. i \in 1 .. n
  BY DEF n
<1>4. \A j \in 1 .. n : j < i + 1 <=> j < i \/ j = i
  BY <1>1, <1>3
<1>5. file(i) => FileParts(r, i + 1) = FileParts(r, i) \cup {i}
  BY <1>2, <1>3, <1>4
<1>6. ~file(i) => FileParts(r, i + 1) = FileParts(r, i)
  BY <1>2, <1>3, <1>4
<1> QED
  BY <1>5, <1>6 DEF file

LEMMA AfterApart ==
    ASSUME RequestInv, AllApart, NEW r \in Handlers, NEW files, AfterPart(r, files),
           UNCHANGED <<config, request, audits, answer, spool>>, pc[r] \in {"part", "content"},
           PartsOf(files) = FileParts(r, local[r].part + 1),
           \A h \in Handlers \ {r} : UploadsKept(h),
           \A f \in local[r].files : uploads'[f.stored] = uploads[f.stored],
           \A f \in files :
             /\ uploads'[f.stored] # Absent
             /\ uploads'[f.stored] = [from |-> {<<r, f.part>>}, bytes |-> StoredSize(request[r].parts[f.part])]
    PROVE  AllApart'
<1>1. /\ Types /\ Parses(r) /\ local \in [Handlers -> Locals] /\ local[r] \in Locals
      /\ UploadInv(r) /\ AuditInv(r)
  BY DEF RequestInv, AllApart, Types, HandlerInv
<1>2. local[r].source = r /\ local[r].status = 0 /\ answer[r].status = 0
  BY <1>1 DEF Parses, UploadInv, AuditInv
<1>3. FileParts(r, local[r].part + 1)' = FileParts(r, local'[r].part + 1)
  BY DEF FileParts
<1>4. CASE ParseEnds(r, 400)
  BY <1>4, EndsApart
<1>5. CASE /\ LastPart(r) /\ local' = [local EXCEPT ![r].status = 200, ![r].files = files]
           /\ GoTo(r, "cleanup")
  <2> DEFINE mine == [local[r] EXCEPT !.status = 200, !.files = files]
  <2>1. mine.name = local[r].name /\ mine.files = files
    BY <1>1 DEF Locals
  <2>2. local' = [local EXCEPT ![r] = mine]
    BY <1>5
  <2> HIDE DEF mine
  <2>3. local'[r] = mine /\ \A h \in Handlers \ {r} : local'[h] = local[h]
    BY <1>1, <2>2
  <2>4. pc'[r] = "cleanup" /\ \A h \in Handlers \ {r} : pc'[h] = pc[h]
    BY <1>1, <1>5, Goes DEF Points
  <2>5. Parses(r)'
    BY <2>4 DEF Parses
  <2>6. PartsOf(local[r].files)' = PartsOf(files)
    BY <2>1, <2>3 DEF PartsOf
  <2>7. FileParts(r, Len(request[r].parts) + 1)' = FileParts(r, local[r].part + 1)
    BY <1>2, <1>5 DEF FileParts, LastPart, Body
  <2>8. Keeps(r)'
    BY <1>2, <2>1, <2>3, <2>6, <2>7 DEF Keeps
  <2> QED
    BY <2>1, <2>3, <2>4, <2>5, <2>8, SavesApart DEF OthersKept
<1>6. CASE local' = [local EXCEPT ![r].part = @ + 1, ![r].files = files] /\ GoTo(r, "part")
  <2> DEFINE next == local[r].part + 1
             mine == [local[r] EXCEPT !.part = next, !.files = files]
  <2>1. local' = [local EXCEPT ![r] = mine]
    BY <1>6
  <2> HIDE DEF next
  <2>2. /\ mine.name = local[r].name /\ mine.files = files /\ mine.part = next
        /\ mine.status = 0 /\ mine.source = r
    BY <1>1, <1>2 DEF Locals
  <2> HIDE DEF mine
  <2>3. local'[r] = mine /\ \A h \in Handlers \ {r} : local'[h] = local[h]
    BY <1>1, <2>1
  <2>4. pc'[r] = "part" /\ \A h \in Handlers \ {r} : pc'[h] = pc[h]
    BY <1>1, <1>6, Goes DEF Points
  <2>5. PartsOf(local[r].files)' = PartsOf(files)
    BY <2>2, <2>3 DEF PartsOf
  <2>6. FileParts(r, local[r].part)' = FileParts(r, next)
    BY <2>2, <2>3 DEF FileParts
  <2>7. Parses(r)'
    BY <2>2, <2>3, <2>4, <2>5, <2>6 DEF Parses, next
  <2>8. Keeps(r)'
    BY <2>2, <2>3 DEF Keeps
  <2> QED
    BY <2>2, <2>3, <2>4, <2>7, <2>8, SavesApart DEF OthersKept
<1> QED
  BY <1>4, <1>5, <1>6 DEF AfterPart
LEMMA ParseBeginApart ==
    ASSUME RequestInv, AllApart, NEW r \in Handlers, ParseBegin(r) PROVE AllApart'
<1> DEFINE n == local[r].name
           a == request[r].type # "multipart"
           b == config.maxParts = 0 \/ config.maxFile = 0
           c == spool[n] = Absent
           refusal == FirstOf(<< <<a, 415>>, <<b, 500>>, <<c, 500>> >>, 200)
<1>1. /\ Types /\ Given /\ Spools(r) /\ Parses(r) /\ Keeps(r) /\ UploadInv(r) /\ AuditInv(r)
      /\ local \in [Handlers -> Locals] /\ local[r] \in Locals
  BY DEF RequestInv, AllApart, Types, HandlerInv
<1>2. /\ pc[r] = "parse" /\ UNCHANGED <<config, request, audits, answer, spool, uploads>>
      /\ \/ refusal # 200 /\ ParseEnds(r, refusal)
         \/ ParseEnds(r, 400)
         \/ \E source \in spool[n].from :
              local' = [local EXCEPT ![r].source = source] /\ GoTo(r, "part")
  BY DEF ParseBegin, UploadRest, fileVars
<1>3. \A h \in Handlers : UploadsKept(h)
  BY <1>2 DEF UploadsKept
<1>4. ASSUME NEW status, status # 200, ParseEnds(r, status) PROVE AllApart'
  BY <1>2, <1>3, <1>4, EndsApart DEF UploadsKept
<1>5. ASSUME NEW source \in spool[n].from, local' = [local EXCEPT ![r].source = source],
             GoTo(r, "part")
      PROVE  AllApart'
  <2> DEFINE mine == [local[r] EXCEPT !.source = source]
  <2>1. source = r
    BY <1>1, <1>2, <1>5 DEF Spools, Uploading
  <2>2. /\ mine.name = local[r].name /\ mine.files = {} /\ mine.part = 1
        /\ mine.status = 0 /\ mine.source = r
    BY <1>1, <1>2, <2>1 DEF Locals, Parses, UploadInv
  <2>3. local' = [local EXCEPT ![r] = mine]
    BY <1>5
  <2> HIDE DEF mine
  <2>4. local'[r] = mine /\ \A h \in Handlers \ {r} : local'[h] = local[h]
    BY <1>1, <2>3
  <2>5. pc'[r] = "part" /\ \A h \in Handlers \ {r} : pc'[h] = pc[h]
    BY <1>1, <1>5, Goes DEF Points
  <2>6. PartsOf(local[r].files)' = {} /\ FileParts(r, local[r].part)' = {}
    <3>1. FileParts(r, 1)' = {}
      BY DEF FileParts
    <3> QED
      BY <2>2, <2>4, <3>1 DEF PartsOf, FileParts
  <2>7. Parses(r)'
    BY <2>2, <2>4, <2>5, <2>6 DEF Parses
  <2>8. Keeps(r)'
    BY <2>2, <2>4 DEF Keeps
  <2> QED
    BY <1>2, <1>3, <2>2, <2>4, <2>5, <2>7, <2>8, SavesApart DEF OthersKept
<1> HIDE DEF refusal
<1> QED
  BY <1>2, <1>4, <1>5

LEMMA PartBeginApart ==
    ASSUME RequestInv, AllApart, NEW r \in Handlers, PartBegin(r), ~shared' PROVE AllApart'
<1> DEFINE i == local[r].part
           missing == i > Len(Body(r).parts)
           file == ~missing /\ Part(r).file
           field == ~missing /\ ~Part(r).file
           a == i > config.maxParts
           c == file /\ ~Part(r).safe
           d == field /\ StoredSize(Part(r)) > config.maxField
           refusal == FirstOf(<< <<a, 413>>, <<missing, 400>>, <<c, 415>>, <<d, 413>> >>, 200)
           stored == StoredName(r)
           empty == [from |-> {}, bytes |-> 0]
           old == local[r].files
           parts == request[r].parts
<1>1. /\ Types /\ Given /\ Spools(r) /\ Parses(r) /\ Keeps(r) /\ UploadInv(r) /\ AuditInv(r)
      /\ local \in [Handlers -> Locals] /\ local[r] \in Locals
      /\ uploads \in [StoredNames -> Written \cup {Absent}] /\ clock \in Clocks
  BY DEF RequestInv, AllApart, Types, HandlerInv
<1>2. /\ pc[r] = "part" /\ UNCHANGED <<config, request, audits, answer, spool>>
      /\ \/ refusal # 200 /\ ParseEnds(r, refusal) /\ uploads' = uploads
         \/ field /\ AfterPart(r, old) /\ uploads' = uploads
         \/ /\ file /\ uploads[stored] = Absent
            /\ uploads' = [uploads EXCEPT ![stored] = empty]
            /\ local' = [local EXCEPT ![r].stored = stored] /\ GoTo(r, "content")
         \/ ParseEnds(r, 500) /\ uploads' = uploads
  BY ZenonT(40) DEF PartBegin, UploadRest
<1>3. /\ local[r].source = r /\ PartsOf(old) = FileParts(r, i) /\ local[r].status = 0
      /\ i >= 1 /\ i \in Nat
  BY <1>1, <1>2 DEF Parses, UploadInv, Locals
<1>4. Body(r).parts = parts /\ Part(r) = parts[i]
  BY <1>3 DEF Body, Part
<1>5. ~missing => i \in 1 .. Len(parts)
  BY <1>1, <1>3, <1>4, PartsGiven
<1>6. ASSUME uploads' = uploads PROVE \A h \in Handlers : UploadsKept(h)
  BY <1>6 DEF UploadsKept
<1>7. ASSUME NEW status, status # 200, ParseEnds(r, status), uploads' = uploads PROVE AllApart'
  BY <1>2, <1>6, <1>7, EndsApart DEF UploadsKept
<1>8. ASSUME field, AfterPart(r, old), uploads' = uploads PROVE AllApart'
  <2>1. PartsOf(old) = FileParts(r, i + 1)
    BY <1>1, <1>3, <1>4, <1>5, <1>8, NextFile
  <2>2. \A f \in old :
          /\ uploads'[f.stored] # Absent
          /\ uploads'[f.stored] = [from |-> {<<r, f.part>>}, bytes |-> StoredSize(request[r].parts[f.part])]
    BY <1>1, <1>8 DEF Keeps
  <2> QED
    BY <1>2, <1>6, <1>8, <2>1, <2>2, AfterApart
<1>9. ASSUME file, uploads[stored] = Absent, uploads' = [uploads EXCEPT ![stored] = empty],
             local' = [local EXCEPT ![r].stored = stored], GoTo(r, "content")
      PROVE  AllApart'
  <2> DEFINE mine == [local[r] EXCEPT !.stored = stored]
  <2>1. stored \in StoredNames
    BY <1>1, <1>4, <1>5, <1>9, PartsGiven DEF StoredName, StoredNames
  <2>2. local' = [local EXCEPT ![r] = mine]
    BY <1>9
  <2> HIDE DEF stored
  <2>3. /\ mine.name = local[r].name /\ mine.files = old /\ mine.part = i
        /\ mine.status = 0 /\ mine.source = r /\ mine.stored = stored
    BY <1>1, <1>3 DEF Locals
  <2> HIDE DEF mine
  <2>4. local'[r] = mine /\ \A h \in Handlers \ {r} : local'[h] = local[h]
    BY <1>1, <2>2
  <2>5. pc'[r] = "content" /\ \A h \in Handlers \ {r} : pc'[h] = pc[h]
    BY <1>1, <1>9, Goes DEF Points
  <2>6. ASSUME NEW h \in Handlers
        PROVE  /\ pc[h] = "content" => local[h].stored # stored
               /\ \A f \in local[h].files : f.stored # stored
    <3>1. Parses(h) /\ Keeps(h) /\ UploadInv(h) /\ local[h] \in Locals
      BY <1>1 DEF AllApart, RequestInv, HandlerInv
    <3>2. empty # Absent
      BY AbsentAssumption
    <3>3. pc[h] = "content" => local[h].stored # stored
      BY <1>9, <3>1, <3>2 DEF Parses
    <3>4. \A f \in local[h].files : f.stored # stored
      BY <1>9, <3>1 DEF Keeps
    <3> QED
      BY <3>3, <3>4
  <2>7. /\ uploads'[stored] = empty
        /\ \A n \in StoredNames \ {stored} : uploads'[n] = uploads[n]
    BY <1>1, <1>9, <2>1 DEF stored
  <2>8. ASSUME NEW h \in Handlers
        PROVE  /\ UploadsKept(h)
               /\ \A f \in local[h].files : uploads'[f.stored] = uploads[f.stored]
    <3>1. local[h] \in Locals /\ UploadInv(h)
      BY <1>1 DEF RequestInv, HandlerInv
    <3>2. \A f \in local[h].files : f.stored \in StoredNames
      BY <3>1 DEF Locals, StoredFiles
    <3>3. \A f \in local[h].files : uploads'[f.stored] = uploads[f.stored]
      BY <2>6, <2>7, <3>2
    <3>4. pc[h] = "content" => uploads'[local[h].stored] = uploads[local[h].stored]
      BY <2>6, <2>7, <3>1 DEF UploadInv
    <3> QED
      BY <3>3, <3>4 DEF UploadsKept
  <2>9. FileParts(r, local[r].part)' = FileParts(r, i) /\ PartsOf(local[r].files)' = PartsOf(old)
    BY <1>2, <2>3, <2>4 DEF FileParts, PartsOf
  <2>10. Parses(r)'
    <3>1. parts[i].file
      BY <1>4, <1>9
    <3>2. uploads'[local'[r].stored] = empty
      BY <2>3, <2>4, <2>7
    <3>3. local'[r].source = r /\ (PartsOf(local[r].files) = FileParts(r, local[r].part))'
      BY <1>3, <2>3, <2>4, <2>9
    <3>4. (request[r].parts[local[r].part].file)'
      BY <1>2, <2>3, <2>4, <3>1
    <3> QED
      BY <2>5, <3>2, <3>3, <3>4 DEF Parses
  <2>11. Keeps(r)'
    <3>1. local'[r].files = local[r].files /\ local'[r].status = 0 /\ request' = request
      BY <1>2, <2>3, <2>4
    <3>2. \A f \in local[r].files : uploads'[f.stored] = uploads[f.stored]
      BY <2>8
    <3> QED
      BY <1>1, <3>1, <3>2 DEF Keeps
  <2> QED
    BY <1>2, <2>3, <2>4, <2>5, <2>6, <2>8, <2>10, <2>11, SavesApart DEF OthersKept
<1> HIDE DEF refusal
<1> QED
  BY <1>2, <1>7, <1>8, <1>9
LEMMA Larger == \A n \in Nat : Max({0, n}) = n
<1> SUFFICES ASSUME NEW n \in Nat PROVE Max({0, n}) = n
  OBVIOUS
<1>1. n \in {0, n} /\ \A y \in {0, n} : n >= y
  OBVIOUS
<1>2. \A x \in {0, n} : (\A y \in {0, n} : x >= y) => x = n
  OBVIOUS
<1>3. Max({0, n}) \in {0, n} /\ \A y \in {0, n} : Max({0, n}) >= y
  BY <1>1 DEF Max
<1> QED
  BY <1>2, <1>3

LEMMA PartContentApart ==
    ASSUME RequestInv, AllApart, NEW r \in Handlers, PartContent(r), ~short' PROVE AllApart'
<1> DEFINE i == local[r].part
           stored == local[r].stored
           size == StoredSize(Part(r))
           part == [stored |-> stored, part |-> i]
           old == local[r].files
           files == old \cup {part}
           made(n) == [from |-> {<<r, i>>}, bytes |-> Max({0, n})]
           whole == [from |-> {<<r, i>>}, bytes |-> size]
           parts == request[r].parts
<1>1. /\ Types /\ Given /\ Parses(r) /\ Keeps(r) /\ UploadInv(r)
      /\ local \in [Handlers -> Locals] /\ local[r] \in Locals
      /\ uploads \in [StoredNames -> Written \cup {Absent}]
  BY DEF RequestInv, AllApart, Types, HandlerInv
<1>2. /\ pc[r] = "content" /\ UNCHANGED <<config, request, audits, answer, spool>>
      /\ \/ \E n \in 0 .. config.maxFile : Store(r, n) /\ ParseEnds(r, 413)
         \/ Store(r, size) /\ AfterPart(r, files)
  BY DEF PartContent, UploadRest
<1>3. /\ local[r].source = r /\ PartsOf(old) = FileParts(r, i) /\ i \in Nat
      /\ stored \in StoredNames /\ uploads[stored] = [from |-> {}, bytes |-> 0]
      /\ i \in 1 .. Len(parts) /\ parts[i].file
  BY <1>1, <1>2 DEF Parses, UploadInv, Locals, Body
<1>4. size = StoredSize(parts[i]) /\ size \in Nat
  <2>1. size = StoredSize(parts[i])
    BY <1>3 DEF Part, Body
  <2> QED
    BY <1>1, <1>3, <2>1, PartsGiven
<1> HIDE DEF size
<1>5. ASSUME NEW n, Store(r, n) PROVE uploads' = [uploads EXCEPT ![stored] = made(n)]
  <2> DEFINE new == [from |-> uploads[stored].from \cup {<<local[r].source, i>>},
                     bytes |-> Max({uploads[stored].bytes, n})]
  <2>1. uploads' = [uploads EXCEPT ![stored] = new]
    BY <1>5 DEF Store
  <2>2. new = made(n)
    BY <1>3
  <2> QED
    BY <2>1, <2>2
<1> HIDE DEF stored, made
<1>6. ASSUME NEW h \in Handlers
      PROVE  /\ h # r /\ pc[h] = "content" => local[h].stored # stored
             /\ \A f \in local[h].files : f.stored \in StoredNames /\ f.stored # stored
  <2>1. Keeps(h) /\ local[h] \in Locals /\ (h # r => Apart(r, h))
    BY <1>1 DEF AllApart
  <2>2. \A f \in local[h].files : f.stored # stored
    <3> SUFFICES ASSUME NEW f \in local[h].files, f.stored = stored PROVE FALSE
      OBVIOUS
    <3> DEFINE bytes == StoredSize(request[h].parts[f.part])
               piece == <<h, f.part>>
    <3>1. uploads[f.stored] = [from |-> {piece}, bytes |-> bytes]
      BY <2>1 DEF Keeps
    <3> HIDE DEF bytes, piece
    <3>2. uploads[stored].from = {piece}
      BY <3>1
    <3>3. uploads[stored].from = {}
      BY <1>3
    <3> QED
      BY <3>2, <3>3
  <2>3. \A f \in local[h].files : f.stored \in StoredNames
    BY <2>1 DEF Locals, StoredFiles
  <2> QED
    BY <1>2, <2>1, <2>2, <2>3 DEF Apart, stored
<1>7. ASSUME NEW new, uploads' = [uploads EXCEPT ![stored] = new], NEW h \in Handlers
      PROVE  /\ h # r => UploadsKept(h)
             /\ \A f \in local[h].files : uploads'[f.stored] = uploads[f.stored]
  <2>1. \A n \in StoredNames \ {stored} : uploads'[n] = uploads[n]
    BY <1>1, <1>7
  <2>2. \A f \in local[h].files : uploads'[f.stored] = uploads[f.stored]
    BY <1>6, <2>1
  <2>3. UploadInv(h)
    BY DEF RequestInv, HandlerInv
  <2>4. h # r /\ pc[h] = "content" => uploads'[local[h].stored] = uploads[local[h].stored]
    BY <1>6, <2>1, <2>3 DEF UploadInv
  <2> QED
    BY <2>2, <2>4 DEF UploadsKept
<1>8. ASSUME NEW n, Store(r, n), ParseEnds(r, 413) PROVE AllApart'
  <2>1. \A h \in Handlers \ {r} : UploadsKept(h)
    BY <1>5, <1>7, <1>8
  <2>2. \A f \in local[r].files : uploads'[f.stored] = uploads[f.stored]
    BY <1>5, <1>7, <1>8
  <2>3. 413 # 200
    OBVIOUS
  <2> QED
    BY <1>2, <1>8, <2>1, <2>2, <2>3, EndsApart
<1>9. ASSUME Store(r, size), AfterPart(r, files) PROVE AllApart'
  <2>1. \A h \in Handlers \ {r} : UploadsKept(h)
    BY <1>5, <1>7, <1>9
  <2>2. \A f \in old : uploads'[f.stored] = uploads[f.stored]
    BY <1>5, <1>7, <1>9
  <2>3. made(size) = whole
    BY <1>4, Larger DEF made
  <2>4. whole # Absent
    <3>1. {<<r, i>>} \in SUBSET (Handlers \X Nat)
      BY <1>3
    <3> QED
      BY <1>4, <3>1, AbsentAssumption
  <2>5. uploads'[stored] = whole
    BY <1>1, <1>3, <1>5, <1>9, <2>3
  <2>6. ASSUME NEW f \in files
        PROVE  /\ uploads'[f.stored] # Absent
               /\ uploads'[f.stored] = [from |-> {<<r, f.part>>}, bytes |-> StoredSize(parts[f.part])]
    <3>1. CASE f \in old
      BY <1>1, <2>2, <3>1 DEF Keeps
    <3>2. CASE f = part
      <4>1. f.stored = stored /\ f.part = i
        BY <3>2
      <4> QED
        BY <1>4, <2>4, <2>5, <4>1
    <3> QED
      BY <3>1, <3>2
  <2>7. PartsOf(files) = FileParts(r, i + 1)
    <3>1. part.part = i
      OBVIOUS
    <3>2. FileParts(r, i + 1) = FileParts(r, i) \cup {i}
      BY <1>1, <1>3, NextFile
    <3> HIDE DEF part, old, i
    <3>3. PartsOf(old \cup {part}) = PartsOf(old) \cup {i}
      BY <3>1 DEF PartsOf
    <3> QED
      BY <1>3, <3>2, <3>3
  <2> HIDE DEF files
  <2> QED
    BY <1>2, <1>9, <2>1, <2>2, <2>6, <2>7, AfterApart
<1> QED
  BY <1>2, <1>8, <1>9
-----------------------------------------------------------------------------
(* The steps before an upload and of a request for a file.                 *)
LEMMA ElsewhereApart ==
    ASSUME RequestInv, AllApart, NEW r \in Handlers,
           \/ Read(r) \/ Admin(r) \/ Upload(r)
           \/ Serve(r) \/ LookForRules(r) \/ ReadRules(r) \/ Find(r)
    PROVE  AllApart'
<1> DEFINE Before == {"admin", "upload", "serve", "rules", "rulefile", "find", "spool"}
<1>1. /\ Types /\ local \in [Handlers -> Locals] /\ local[r] \in Locals
      /\ audits \in [Handlers -> Seq(Events)]
  BY DEF RequestInv, Types
<1>2. /\ pc[r] \in Before \cup {"read"} /\ UNCHANGED <<config, request, spool, uploads>>
      /\ audits' = audits \/ \E log : audits' = [audits EXCEPT ![r] = log]
  <2>1. CASE Read(r) \/ Serve(r) \/ LookForRules(r) \/ ReadRules(r) \/ Find(r)
    BY <2>1 DEF Read, Serve, LookForRules, ReadRules, Find, ServeRest, fileVars
  <2>2. CASE Admin(r) \/ Upload(r)
    BY <2>2 DEF Admin, Upload, Record, fileVars
  <2> QED
    BY <2>1, <2>2, SMTT(30)
<1>3. \/ Throw(r) \/ \E status, files : Reply(r, status, files)
      \/ answer' = answer /\ \E to \in Before : GoTo(r, to)
  <2>1. CASE Read(r)
    <3> DEFINE q == request[r]
               to == IF q.target \in {"admin", "upload"} THEN q.target ELSE "serve"
               status == HeaderStatus(q, config.maxHeaders, config.maxBody, FALSE)
    <3>1. to \in Before
      OBVIOUS
    <3>2. Throw(r) \/ Reply(r, status, {}) \/ (GoTo(r, to) /\ answer' = answer)
      BY <2>1 DEF Read
    <3> HIDE DEF to, status, Before
    <3> QED
      BY <3>1, <3>2
  <2>2. CASE Admin(r) \/ Upload(r)
    BY <2>2 DEF Admin, Upload
  <2>3. CASE Serve(r)
    BY <2>3 DEF Serve
  <2>4. CASE LookForRules(r) \/ ReadRules(r)
    <3>1. ASSUME NEW denied, NEW unread, NextDir(r, denied, unread)
          PROVE  Reply(r, 403, {}) \/ (answer' = answer /\ \E to \in Before : GoTo(r, to))
      BY <3>1 DEF NextDir
    <3>2. "rulefile" \in Before
      OBVIOUS
    <3> HIDE DEF Before
    <3> QED
      BY <2>4, <3>1, <3>2 DEF LookForRules, ReadRules
  <2>5. CASE Find(r)
    BY <2>5 DEF Find
  <2> QED
    BY <2>1, <2>2, <2>3, <2>4, <2>5
<1>4. pc'[r] \notin Uploading /\ \A h \in Handlers \ {r} : pc'[h] = pc[h] /\ answer'[h] = answer[h]
  <2>1. CASE Throw(r)
    BY <1>1, <2>1, Goes DEF Throw, Points, Uploading
  <2>2. ASSUME NEW status, NEW files, Reply(r, status, files) PROVE <1>4!:
    <3>1. pc'[r] = "answered" /\ \A h \in Handlers \ {r} : pc'[h] = pc[h] /\ answer'[h] = answer[h]
      BY <1>1, <2>2, Replies
    <3> QED
      BY <3>1 DEF Uploading
  <2>3. ASSUME NEW to \in Before, GoTo(r, to), answer' = answer PROVE <1>4!:
    <3>1. to \in Points /\ to \notin Uploading
      BY SMTT(30) DEF Points, Uploading
    <3> HIDE DEF Before
    <3> QED
      BY <1>1, <2>3, <3>1, Goes
  <2> QED
    BY <1>3, <2>1, <2>2, <2>3
<1>5. /\ local'[r].files = local[r].files /\ local'[r].part = local[r].part
      /\ local'[r].status = local[r].status /\ \A h \in Handlers \ {r} : local'[h] = local[h]
  <2>1. \/ local' = local
        \/ \E file, from : local' = [local EXCEPT ![r].file = file, ![r].from = from]
        \/ \E denied, unread : NextDir(r, denied, unread)
    <3>1. CASE Read(r) \/ Admin(r) \/ Upload(r) \/ Find(r)
      BY <3>1 DEF Read, Admin, Upload, Find
    <3>2. CASE Serve(r)
      BY ZenonT(40), <3>2 DEF Serve
    <3>3. CASE LookForRules(r) \/ ReadRules(r)
      BY <3>3 DEF LookForRules, ReadRules
    <3> QED
      BY ZenonT(40), <3>1, <3>2, <3>3, ZenonT(40)
  <2>2. ASSUME NEW file, NEW from, local' = [local EXCEPT ![r].file = file, ![r].from = from]
        PROVE  <1>5!:
    <3> DEFINE mine == [local[r] EXCEPT !.file = file, !.from = from]
    <3>1. /\ mine.files = local[r].files /\ mine.part = local[r].part
          /\ mine.status = local[r].status
      BY <1>1 DEF Locals
    <3>2. local' = [local EXCEPT ![r] = mine]
      BY <2>2
    <3> HIDE DEF mine
    <3> QED
      BY <1>1, <3>1, <3>2
  <2>3. ASSUME NEW denied, NEW unread, NextDir(r, denied, unread)
        PROVE  <1>5!:
    <3> DEFINE dir == local[r].dir + 1
               to == Len(htaccess)
               mine == [local[r] EXCEPT !.denied = denied, !.dir = dir, !.to = to,
                                        !.unread = unread]
    <3>1. /\ mine.files = local[r].files /\ mine.part = local[r].part
          /\ mine.status = local[r].status
      BY <1>1 DEF Locals
    <3>3. local' = [local EXCEPT ![r].denied = denied, ![r].dir = dir, ![r].to = to,
                                 ![r].unread = unread]
      BY <2>3 DEF NextDir
    <3>2. local' = [local EXCEPT ![r] = mine]
      BY <3>3
    <3> HIDE DEF mine
    <3> QED
      BY <1>1, <3>1, <3>2
  <2> QED
    BY <2>1, <2>2, <2>3, ZenonT(40)
<1>6. OthersKept(r)
  <2>1. \A h \in Handlers \ {r} : audits'[h] = audits[h]
    BY <1>1, <1>2
  <2> QED
    BY <1>2, <1>4, <1>5, <2>1 DEF OthersKept
<1> QED
  BY <1>2, <1>4, <1>5, <1>6, NoUploadApart DEF Uploading

LEMMA WholeStep == RequestInv /\ WholeInv /\ [Next]_vars => WholeInv'
<1> SUFFICES ASSUME RequestInv, WholeInv, [Next]_vars, ~shared', ~short' PROVE AllApart'
  BY DEF WholeInv
<1>1. CASE Tick \/ EditRules \/ AllEnded \/ UNCHANGED vars
  <2>1. UNCHANGED <<config, request, pc, answer, local, spool, uploads, shared, short>>
    BY <1>1 DEF Tick, EditRules, AllEnded, vars, fileVars
  <2>2. AllApart
    BY <2>1 DEF WholeInv
  <2>3. ASSUME NEW r \in Handlers PROVE Spools(r)' /\ Parses(r)' /\ Keeps(r)'
    <3>1. Spools(r) /\ Parses(r) /\ Keeps(r)
      BY <2>2 DEF AllApart
    <3>2. SpoolKept(r) /\ UploadsKept(r)
      BY <2>1 DEF SpoolKept, UploadsKept
    <3> QED
      BY <2>1, <3>1, <3>2, ApartKept
  <2>4. \A r, h \in Handlers : r # h => Apart(r, h)'
    BY <2>1, <2>2 DEF AllApart, Apart
  <2> QED
    BY <2>3, <2>4 DEF AllApart
<1>2. ASSUME NEW r \in Handlers, Handle(r) PROVE AllApart'
  <2>1. ~shared /\ ~short
    <3>1. (shared => shared') /\ (short => short')
      <4>1. ASSUME Read(r) \/ Admin(r) \/ Upload(r) \/ Serve(r) \/ LookForRules(r)
                   \/ ReadRules(r) \/ Find(r) \/ ReceiveLess(r) \/ ParseBegin(r) \/ ParseThrows(r) \/ Cleanup(r)
            PROVE  shared' = shared /\ short' = short
        BY <4>1 DEF Read, Admin, Upload, Serve, LookForRules, ReadRules, Find, ServeRest,
                    fileVars, ReceiveLess, ParseBegin, ParseThrows, Cleanup
      <4>2. ASSUME SpoolOpen(r) PROVE short' = short /\ (shared => shared')
        BY <4>2 DEF SpoolOpen
      <4>3. ASSUME ReceiveAll(r) PROVE shared' = shared /\ (short' = short \/ short')
        BY <4>3 DEF ReceiveAll
      <4>4. ASSUME PartBegin(r)
            PROVE  short' = short /\ (shared' = shared \/ (shared => shared'))
        BY ZenonT(40), <4>4 DEF PartBegin
      <4>5. ASSUME PartContent(r) PROVE shared' = shared /\ (short' = short \/ short')
        BY <4>5 DEF PartContent, Store
      <4> QED
        BY <1>2, <4>1, <4>2, <4>3, <4>4, <4>5 DEF Handle
    <3> QED
      BY <3>1
  <2>2. AllApart
    BY <2>1 DEF WholeInv
  <2> QED
    BY <1>2, <2>2, ElsewhereApart, SpoolOpenApart, ReceiveAllApart, ReceiveLessApart,
       ParseBeginApart, PartBeginApart, PartContentApart, CleanupApart DEF Handle
<1> QED
  BY <1>1, <1>2 DEF Next

(* The invariant that keeps uploads apart.                                 *)
THEOREM WholeInvHolds == Spec => []WholeInv
<1>1. Init => WholeInv
  BY WholeInit
<1>2. RequestInv /\ WholeInv /\ [Next]_vars => WholeInv'
  BY WholeStep
<1> QED
  BY <1>1, <1>2, RequestInvHolds, PTL DEF Spec

(* A 200 names all the files of this client's request, each whole in the   *)
(* upload directory but for the CR of its line ends, for any number of     *)
(* handlers and whatever becomes of the other uploads, unless two files    *)
(* got one name or a write fell short.                                     *)
THEOREM NamesWholeFiles == Spec => []AnswerNamesWholeFiles
<1>1. RequestInv /\ WholeInv => AnswerNamesWholeFiles
  <2> SUFFICES ASSUME RequestInv, AllApart, NEW r \in Handlers,
                      answer[r].status = 200, local[r].status = 200
               PROVE  /\ \A f \in answer[r].files :
                           /\ uploads[f.stored].from = {<<r, f.part>>}
                           /\ uploads[f.stored].bytes + request[r].parts[f.part].crs
                                = request[r].parts[f.part].size
                      /\ {f.part : f \in answer[r].files}
                           = {i \in 1 .. Len(request[r].parts) : request[r].parts[i].file}
    BY DEF AnswerNamesWholeFiles, WholeInv
  <2> DEFINE n == Len(request[r].parts)
  <2>1. Keeps(r) /\ Given
    BY DEF AllApart, RequestInv, Types
  <2>2. answer[r].files = local[r].files /\ PartsOf(local[r].files) = FileParts(r, n + 1)
    BY <2>1 DEF Keeps
  <2>3. \A f \in answer[r].files :
          uploads[f.stored] = [from |-> {<<r, f.part>>}, bytes |-> StoredSize(request[r].parts[f.part])]
    BY <2>1, <2>2 DEF Keeps
  <2>4. \A i \in 1 .. n : i < n + 1
    <3>1. n \in Nat
      BY <2>1, PartsGiven
    <3> HIDE DEF n
    <3> QED
      BY <3>1
  <2>5. {f.part : f \in answer[r].files} = {i \in 1 .. n : request[r].parts[i].file}
    <3> DEFINE file(i) == request[r].parts[i].file
    <3>1. FileParts(r, n + 1) = {i \in 1 .. n : i < n + 1 /\ file(i)}
      BY DEF FileParts
    <3>2. {f.part : f \in answer[r].files} = FileParts(r, n + 1)
      BY <2>2 DEF PartsOf
    <3> HIDE DEF n, file
    <3>3. FileParts(r, n + 1) = {i \in 1 .. n : file(i)}
      BY <2>4, <3>1
    <3> QED
      BY <3>2, <3>3 DEF file
  <2>6. ASSUME NEW f \in answer[r].files
        PROVE  /\ uploads[f.stored].from = {<<r, f.part>>}
               /\ uploads[f.stored].bytes + request[r].parts[f.part].crs
                    = request[r].parts[f.part].size
    <3> DEFINE pieces == {<<r, f.part>>}
               part == request[r].parts[f.part]
               size == StoredSize(part)
    <3>1. uploads[f.stored] = [from |-> pieces, bytes |-> size]
      BY <2>3
    <3> HIDE DEF pieces, size
    <3>2. uploads[f.stored].from = pieces /\ uploads[f.stored].bytes = size
      BY <3>1
    <3>3. f.part \in 1 .. n
      BY <2>5
    <3>4. part.size \in Nat /\ part.crs \in 0 .. part.size
      BY <2>1, <3>3, PartsGiven
    <3>5. size = part.size - part.crs
      BY DEF size, StoredSize
    <3> HIDE DEF part
    <3>6. size + part.crs = part.size
      BY <3>4, <3>5
    <3> QED
      BY <3>2, <3>6 DEF pieces, part
  <2> QED
    BY <2>5, <2>6
<1> QED
  BY <1>1, RequestInvHolds, WholeInvHolds, PTL
=============================================================================
