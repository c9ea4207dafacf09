-------------------------- MODULE MCRequestHandling --------------------------
(* A small instance of RequestHandling for TLC: every way a request can be *)
(* answered, and pairs of uploads that meet in the two directories.        *)
EXTENDS RequestHandling, TLC

CONSTANTS h1, h2

TwoHandlers == {h1, h2}

(* The documents: two hosts, a directory two levels deep, hidden and
   sensitive files, a link out of the root and two inside it. *)
SomeKinds ==
    [p \in {<<>>, <<"etc">>, <<"blog">>, <<"www">>, <<"www", ".git">>, <<"www", ".well-known">>,
            <<"www", "pub">>, <<"www", "pub", "deep">>} |-> "dir"]
    @@ [p \in {<<"www", "index.html">>, <<"www", "pub", "a">>, <<"www", "pub", "deep", "b">>,
               <<"www", ".git", "config">>, <<"www", ".well-known", "x">>, <<"www", ".htaccess">>,
               <<"www", "site.conf">>, <<"etc", "x">>, <<"blog", "index.html">>,
               <<"www", "form.php">>} |-> "file"]
SomeLinks == (<<"www", "out">> :> <<"etc">>) @@ (<<"www", "alias">> :> <<"www", "pub">>)
             @@ (<<"www", "copy">> :> <<"www", "site.conf">>)
Blog == "blog" :> <<"blog">>
Www  == <<"www">>

Paths == {<<>>, <<"pub", "a">>, <<"alias", "a">>, <<"pub">>, <<"pub", "..", "index.html">>,
          <<".git", "config">>, <<".well-known", "x">>, <<".htaccess">>, <<"site.conf">>,
          <<"out", "x">>, <<"..", "etc", "x">>, <<"%2e", "x">>, <<"form.php">>, <<"none", "x">>,
          <<"copy">>, <<"none", "..", "copy">>, <<"none", "..", "out", "x">>,
          <<"none", "..", "alias", "a">>, <<"none", "..">>, <<"index.html", "..", "pub", "a">>}

File(name, size, crs) ==
    [file |-> TRUE, name |-> name, safe |-> TRUE, size |-> size, crs |-> crs]
Field(size, crs) == [File("notes", size, crs) EXCEPT !.file = FALSE]
Blocked          == [File("notes", 1, 0) EXCEPT !.safe = FALSE]

Line(kind)   == [kind |-> kind, text |-> Empty]
LengthLine(text) == [kind |-> "length", text |-> text]
Num(n)       == Text("number", n, FALSE)
Lines(n)     == <<Line("host"), LengthLine(Num(n))>>

Sent(parts, ends) ==
    [method |-> "POST", target |-> "upload", head |-> 2, first |-> 200, old |-> FALSE,
     lines |-> Lines(3), tls |-> TRUE, token |-> "auth_allowed", type |-> "multipart", sent |-> 3,
     parts |-> parts, ends |-> ends, host |-> "any", path |-> <<>>]

Good == Sent(<<File("index", 1, 0), File("notes", 2, 0)>>, "final")

(* Limits: two parts, files of two bytes, fields of one. *)
Uploads == {
    Good, Sent(<<File("index", 2, 0), Field(2, 1)>>, "final"),
    Sent(<<File("index", 3, 1), File("notes", 3, 0)>>, "final"),
    Sent(<<File("index", 3, 1), File("notes", 2, 1)>>, "final"),
    Sent(<<File("index", 1, 0), Field(1, 0), Field(1, 0)>>, "final"),
    Sent(<<File("index", 1, 0), Blocked>>, "final"),
    Sent(<<Field(2, 0)>>, "final"),
    Sent(<<File("index", 1, 0)>>, "cut"), Sent(<<File("index", 1, 0)>>, "boundary"),
    [Good EXCEPT !.sent = 2], [Good EXCEPT !.type = "other"]}

Protected ==
    {[Good EXCEPT !.token = t] : t \in {"auth_missing", "auth_invalid", "auth_expired",
                                        "auth_scope_denied"}}
    \cup {[Good EXCEPT !.method = "GET"], [Good EXCEPT !.type = "none"],
          [Good EXCEPT !.lines = Lines(0), !.sent = 0], [Good EXCEPT !.lines = Lines(9)],
          [Good EXCEPT !.first = 414], [Good EXCEPT !.head = 9]}
    \cup {[Good EXCEPT !.target = "admin", !.token = t, !.method = m] :
             t \in {"auth_allowed", "auth_scope_denied"}, m \in {"GET", "POST"}}

Plain == [Good EXCEPT !.target = "file", !.method = "GET", !.lines = <<Line("host")>>, !.sent = 0]
Post  == [Plain EXCEPT !.method = "POST", !.path = <<"form.php">>, !.lines = Lines(3), !.sent = 3]

Headers ==
    {<<Line("host"), Line(k)>> : k \in {"host", "encoding", "other", "control", "malformed", "long"}}
    \cup {<<Line("host"), LengthLine(Num(3)), LengthLine(t)>> :
             t \in {Num(3), Num(2), Empty, Text("number", 3, TRUE), Text("word", 0, FALSE)}}
    \cup {<<Line("host"), LengthLine(Empty), LengthLine(Num(n))>> : n \in {0, 3}}
    \cup {<<Line("host"), LengthLine(Empty)>>,
          <<Line("host"), LengthLine(Text("huge", 0, FALSE))>>, <<LengthLine(Num(3))>>,
          <<Line("host"), Line("other"), Line("other"), Line("other")>>}

Ordinary ==
    {[Plain EXCEPT !.path = p] : p \in Paths}
    \cup {[Plain EXCEPT !.method = m] : m \in {"HEAD", "POST", "PUT"}}
    \cup {[Plain EXCEPT !.tls = FALSE], [Plain EXCEPT !.lines = Lines(1), !.sent = 1],
          [Plain EXCEPT !.host = "blog"], [Plain EXCEPT !.lines = <<>>, !.old = TRUE]}
    \cup {[Post EXCEPT !.lines = h, !.sent = ContentLength(h)] : h \in Headers}
    \cup {Post, [Post EXCEPT !.sent = 2], [Post EXCEPT !.lines = Lines(5), !.sent = 5]}

Everything == [admin |-> TRUE, uploads |-> TRUE, auth |-> TRUE, forceHttps |-> TRUE,
               htaccess |-> TRUE, php |-> TRUE, denyHidden |-> TRUE, wellKnown |-> TRUE,
               blockSensitive |-> TRUE, maxRequest |-> 6, maxBody |-> 8, maxHeaders |-> 3,
               maxParts |-> 2, maxFile |-> 2, maxField |-> 1]
Nothing    == [Everything EXCEPT !.admin = FALSE, !.uploads = FALSE, !.auth = FALSE,
                                 !.forceHttps = FALSE, !.htaccess = FALSE, !.php = FALSE,
                                 !.denyHidden = FALSE, !.blockSensitive = FALSE]
Open       == [Everything EXCEPT !.admin = FALSE, !.auth = FALSE, !.wellKnown = FALSE]

SomeRuleFiles == {Absent, <<"denied">>, <<"denied", "granted">>}
NoRules  == [d \in {Www, <<"www", "pub">>, <<"www", "pub", "deep">>} |-> Absent]
AllRules == [DOMAIN NoRules -> {Absent, <<"denied">>, <<"other">>}]
DeepFile == [path |-> <<"pub", "deep", "b">>,
             rules |-> {rules \in AllRules : rules[Www] \in {Absent, <<"denied">>}}]
LinkFile == [path |-> <<"none", "..", "alias", "a">>,
             rules |-> {rules \in AllRules : rules[<<"www", "pub", "deep">>] = Absent}]

(* An upload meets one that may succeed; the requests that reach no directory
   meet one that is refused at once, those to a page with rules too. *)
Refused == [Plain EXCEPT !.first = 400]
Scenario(q, other, c, rules) ==
    [traffic |-> (h1 :> q) @@ (h2 :> other), config |-> c, rules |-> rules]

SomeScenarios ==
    {Scenario(q, Good, c, NoRules) : q \in Uploads, c \in {Everything, Nothing, Open}}
    \cup {Scenario(q, Refused, c, NoRules) : q \in Protected \cup Ordinary,
                                             c \in {Everything, Nothing, Open}}
    \cup UNION {{Scenario([Plain EXCEPT !.path = d.path], Refused, Everything, rules) :
                   rules \in d.rules} : d \in {DeepFile, LinkFile}}
=============================================================================
