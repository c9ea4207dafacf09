----------------------------- MODULE HttpFraming -----------------------------
(***************************************************************************)
(* What a request's header says about its body, as the three places that   *)
(* read it see it: parseHeadersOnly, before anything is done;              *)
(* parseHeaderContentLength, which decides how much of a body is read into *)
(* memory; and StrictHttpParser::parse, which cuts the body out.           *)
(*                                                                         *)
(* A header is a sequence of lines [kind, text]: "host", "length",         *)
(* "encoding", "other", "control" (control characters in a value),         *)
(* "malformed" (folded, no colon, no token for a name) or "long".  The     *)
(* text of a Content-Length is a record: a "number" n, with leading zeros  *)
(* or not, "empty", "huge" (it fits no size_t) or another "word".          *)
(***************************************************************************)
EXTENDS Integers, Sequences, FiniteSetsExt

Text(is, n, zeros) == [is |-> is, n |-> n, zeros |-> zeros]
Empty == Text("empty", 0, FALSE)

(* The status of the first rule <<condition, status>> that applies.        *)
FirstOf(rules, otherwise) ==
    LET applying == {i \in 1 .. Len(rules) : rules[i][1]}
    IN  IF applying = {} THEN otherwise ELSE rules[Min(applying)][2]

OfKind(lines, kind) == {i \in DOMAIN lines : lines[i].kind = kind}

(* The variable contentLengthText or contentLength when line i is reached. *)
LengthText(lines, i) ==
    LET before == {j \in OfKind(lines, "length") : j < i}
    IN  IF before = {} THEN Empty ELSE lines[Max(before)].text

LineStatus(lines, i, maxHeaders, strict) ==
    LET kind == lines[i].kind
        earlier == LengthText(lines, i)
    IN  FirstOf(<< <<kind = "long" \/ i > maxHeaders, 431>>,
                   <<kind = "malformed" \/ (strict /\ kind = "control"), 400>>,
                   <<kind = "host" /\ \E j \in OfKind(lines, "host") : j < i, 400>>,
                   <<kind = "encoding", 501>>,
                   <<kind = "length" /\ earlier \notin {Empty, lines[i].text}, 400>> >>, 200)

(* The verdict of the two parsers on a request line and the header; only   *)
(* the strict one looks for control characters.                            *)
HeaderStatus(q, maxHeaders, maxBody, strict) ==
    LET lines == q.lines
        refused == {i \in DOMAIN lines : LineStatus(lines, i, maxHeaders, strict) # 200}
        text == LengthText(lines, Len(lines) + 1)
    IN  IF q.first # 200 THEN q.first
        ELSE IF refused # {} THEN LineStatus(lines, Min(refused), maxHeaders, strict)
        ELSE FirstOf(<< <<~q.old /\ OfKind(lines, "host") = {}, 400>>,
                        <<text.is \in {"word", "huge"}, 400>>,
                        <<text.is = "number" /\ text.n > maxBody, 413>> >>, 200)

(* request.contentLength of an accepted header.                            *)
ContentLength(lines) ==
    LET text == LengthText(lines, Len(lines) + 1) IN IF text.is = "number" THEN text.n ELSE 0

(* parseHeaderContentLength: numbers are compared, not texts, and one line *)
(* that is no number leaves the request without a body.                    *)
LengthToRead(lines) ==
    LET texts == {lines[i].text : i \in OfKind(lines, "length")}
        values == {t.n : t \in texts}
    IN  IF (\A t \in texts : t.is = "number") /\ \E n \in values : values = {n}
        THEN CHOOSE n \in values : TRUE ELSE 0

(* completeRequestInMemory: what a body of which the client sends so much  *)
(* adds to the header.                                                     *)
BodyRead(lines, sent) == Min({sent, LengthToRead(lines)})
=============================================================================
