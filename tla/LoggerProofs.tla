----------------------------- MODULE LoggerProofs -----------------------------
(***************************************************************************)
(* The two logs of Logger.cpp.  The access log, for any number of callers  *)
(* and flushing threads, any capacity and sample rate: no accepted line is *)
(* lost without a failed write or put in the file twice, lines keep their  *)
(* order unless a flush overtook the writer, and ~Logger leaves nothing    *)
(* behind.  The audit log, for any limits and any number of kills and of   *)
(* failed calls: the backups and the log are in order, and the log is      *)
(* rotated when it is due.                                                 *)
(***************************************************************************)
EXTENDS AccessLog, AuditLog, FiniteSetTheorems, SequenceTheorems, TLAPS

(* A call has its own number, which no accepted line and no other caller   *)
(* has.                                                                    *)
NumberInv ==
    /\ \A n \in ToSet(accepted) : n < counter
    /\ \A c \in Callers : pending[c] # NoLine =>
         /\ pending[c] < counter /\ pending[c] \notin ToSet(accepted)
         /\ \A d \in Callers \ {c} : pending[d] # pending[c]

CountInv == Cardinality(SampledCalls) = Len(accepted) + dropped + Cardinality(Underway)

PlaceInv == Accounted /\ InOnePlace /\ (good => lost = {})

(* What the writer, the flushing threads and the destructor leave to each  *)
(* other.                                                                  *)
EndInv ==
    /\ ~async => /\ queue = <<>> /\ writer = "done"
                 /\ \A f \in AllFlushers : fpc[f] \notin {"take", "write"}
    /\ fpc[Destructor] # "idle" => AtRest
    /\ fpc[Destructor] \in {"take", "write", "sync", "returned"} => writer = "done"
    /\ fpc[Destructor] \in {"write", "sync", "returned"} => queue = <<>>
    /\ fpc[Destructor] = "returned" /\ good => synced = Len(file)
    /\ flushes = 0 => \A f \in Flushers : fpc[f] = "idle"

LogInv == TypeOK /\ NumberInv /\ CountInv /\ PlaceInv /\ EndInv /\ LogInAcceptanceOrder

-----------------------------------------------------------------------------
(* Sequences of lines: their sets, and when no line is in them twice.      *)
LEMMA AppendLine ==
    ASSUME NEW S, NEW s \in Seq(S), NEW x \in S
    PROVE  /\ Append(s, x) \in Seq(S) /\ ToSet(Append(s, x)) = ToSet(s) \cup {x}
           /\ IsInjective(s) /\ x \notin ToSet(s) => IsInjective(Append(s, x))
<1> DEFINE u == Append(s, x)
<1>1. /\ u \in Seq(S) /\ DOMAIN u = 1 .. Len(s) + 1 /\ DOMAIN s = 1 .. Len(s)
      /\ \A i \in 1 .. Len(s) : u[i] = s[i]
      /\ u[Len(s) + 1] = x /\ Len(s) \in Nat
  BY AppendProperties, LenProperties
<1> HIDE DEF u
<1>2. ToSet(u) = ToSet(s) \cup {x}
  BY <1>1 DEF ToSet
<1>3. IsInjective(s) /\ x \notin ToSet(s) => IsInjective(u)
  BY <1>1 DEF IsInjective, ToSet
<1> QED
  BY <1>1, <1>2, <1>3 DEF u

LEMMA ConcatLines ==
    ASSUME NEW S, NEW s \in Seq(S), NEW t \in Seq(S)
    PROVE  /\ s \o t \in Seq(S) /\ ToSet(s \o t) = ToSet(s) \cup ToSet(t)
           /\ IsInjective(s) /\ IsInjective(t) /\ Apart(ToSet(s), ToSet(t))
                => IsInjective(s \o t)
<1> DEFINE u == s \o t
<1>1. /\ u \in Seq(S) /\ DOMAIN u = 1 .. Len(s) + Len(t)
      /\ DOMAIN s = 1 .. Len(s) /\ DOMAIN t = 1 .. Len(t)
      /\ \A i \in 1 .. Len(s) + Len(t) : u[i] = IF i <= Len(s) THEN s[i] ELSE t[i - Len(s)]
      /\ Len(s) \in Nat /\ Len(t) \in Nat
  BY ConcatProperties, LenProperties
<1> HIDE DEF u
<1>2. \A i \in 1 .. Len(t) : u[Len(s) + i] = t[i]
  BY SMTT(30), <1>1
<1>3. \A i \in DOMAIN u : IF i <= Len(s) THEN u[i] \in ToSet(s) ELSE u[i] \in ToSet(t)
  <2> SUFFICES ASSUME NEW i \in 1 .. Len(s) + Len(t)
               PROVE  IF i <= Len(s) THEN u[i] \in ToSet(s) ELSE u[i] \in ToSet(t)
    BY <1>1
  <2>1. CASE i <= Len(s)
    <3>1. i \in DOMAIN s /\ u[i] = s[i]
      BY <1>1, <2>1
    <3> QED
      BY <2>1, <3>1 DEF ToSet
  <2>2. CASE ~(i <= Len(s))
    <3>1. i - Len(s) \in DOMAIN t /\ u[i] = t[i - Len(s)]
      BY <1>1, <2>2
    <3> QED
      BY <2>2, <3>1 DEF ToSet
  <2> QED
    BY <2>1, <2>2
<1>4. ToSet(u) = ToSet(s) \cup ToSet(t)
  <2>1. \A i \in DOMAIN u : u[i] \in ToSet(s) \cup ToSet(t)
    BY <1>3
  <2>2. \A i \in DOMAIN s : s[i] \in ToSet(u)
    BY <1>1 DEF ToSet
  <2>3. \A i \in DOMAIN t : t[i] \in ToSet(u)
    <3> SUFFICES ASSUME NEW i \in 1 .. Len(t) PROVE t[i] \in ToSet(u)
      BY <1>1
    <3>1. Len(s) + i \in DOMAIN u /\ u[Len(s) + i] = t[i]
      BY <1>1, <1>2
    <3> QED
      BY <3>1 DEF ToSet
  <2> QED
    BY <2>1, <2>2, <2>3 DEF ToSet
<1>5. IsInjective(s) /\ IsInjective(t) /\ Apart(ToSet(s), ToSet(t)) => IsInjective(u)
  <2> SUFFICES ASSUME IsInjective(s), IsInjective(t), Apart(ToSet(s), ToSet(t)),
                      NEW i \in DOMAIN u, NEW j \in DOMAIN u, u[i] = u[j]
               PROVE  i = j
    BY DEF IsInjective
  <2>1. CASE i <= Len(s) /\ j <= Len(s)
    BY <1>1, <2>1 DEF IsInjective
  <2>2. CASE i > Len(s) /\ j > Len(s)
    <3>1. t[i - Len(s)] = t[j - Len(s)] /\ i - Len(s) \in DOMAIN t /\ j - Len(s) \in DOMAIN t
      BY <1>1, <2>2
    <3>2. i - Len(s) = j - Len(s)
      BY <3>1 DEF IsInjective
    <3> QED
      BY <1>1, <3>2
  <2>3. CASE i <= Len(s) /\ j > Len(s)
    <3>1. u[i] \in ToSet(s) /\ u[j] \in ToSet(t)
      BY <1>1, <1>3, <2>3
    <3> QED
      BY <3>1 DEF Apart
  <2>4. CASE i > Len(s) /\ j <= Len(s)
    <3>1. u[j] \in ToSet(s) /\ u[i] \in ToSet(t)
      BY <1>1, <1>3, <2>4
    <3> QED
      BY <3>1 DEF Apart
  <2> QED
    BY <1>1, <2>1, <2>2, <2>3, <2>4
<1> QED
  BY <1>1, <1>4, <1>5 DEF u

(* A batch of which n lines went to the stream.                            *)
LEMMA SplitLines ==
    ASSUME NEW S, NEW s \in Seq(S), NEW n \in 0 .. Len(s)
    PROVE  LET first == SubSeq(s, 1, n)
               rest  == {s[i] : i \in n + 1 .. Len(s)}
           IN  /\ first \in Seq(S) /\ ToSet(first) \cup rest = ToSet(s)
               /\ IsInjective(s) => IsInjective(first) /\ Apart(ToSet(first), rest)
               /\ IsPrefix(first, s)
<1> DEFINE first == SubSeq(s, 1, n)
           rest  == {s[i] : i \in n + 1 .. Len(s)}
<1>1. DOMAIN s = 1 .. Len(s) /\ Len(s) \in Nat /\ \A i \in 1 .. Len(s) : s[i] \in S
  BY LenProperties
<1>2. /\ first \in Seq(S) /\ Len(first) = n /\ DOMAIN first = 1 .. n
      /\ \A i \in 1 .. n : first[i] = s[i]
  BY <1>1, SubSeqProperties, LenProperties
<1>3. IsPrefix(first, s)
  BY <1>1, <1>2, SubSeqFull DEF IsPrefix
<1> HIDE DEF first
<1>4. ToSet(first) \cup rest = ToSet(s)
  BY <1>1, <1>2 DEF ToSet
<1>5. IsInjective(s) => IsInjective(first) /\ Apart(ToSet(first), rest)
  BY <1>1, <1>2 DEF IsInjective, Apart, ToSet
<1> QED
  BY <1>2, <1>3, <1>4, <1>5 DEF first

LEMMA SizeOfInjective ==
    ASSUME NEW S, NEW s \in Seq(S), IsInjective(s)
    PROVE  IsFiniteSet(ToSet(s)) /\ Cardinality(ToSet(s)) = Len(s)
<1>1. DOMAIN s = 1 .. Len(s) /\ Len(s) \in Nat /\ s \in [1 .. Len(s) -> ToSet(s)]
  BY LenProperties DEF ToSet
<1>2. s \in Injection(1 .. Len(s), ToSet(s)) /\ s \in Surjection(1 .. Len(s), ToSet(s))
  BY <1>1 DEF Injection, Surjection, IsInjective, ToSet
<1>3. IsFiniteSet(1 .. Len(s)) /\ Cardinality(1 .. Len(s)) = Len(s)
  BY <1>1, FS_Interval
<1> QED
  BY <1>2, <1>3, FS_Surjection

LEMMA PrefixGrows ==
    ASSUME NEW S, NEW s \in Seq(S), NEW t \in Seq(S), NEW u \in Seq(S), IsPrefix(s, t)
    PROVE  IsPrefix(s, t \o u) /\ IsPrefix(u \o s, u \o t)
<1>1. /\ Len(s) <= Len(t) /\ Len(s) \in Nat /\ Len(t) \in Nat /\ Len(u) \in Nat
      /\ \A i \in 1 .. Len(s) : s[i] \in S /\ t[i] \in S
      /\ \A i \in 1 .. Len(t) : t[i] \in S
      /\ \A i \in 1 .. Len(u) : u[i] \in S
  BY LenProperties DEF IsPrefix
<1>2. \A i \in 1 .. Len(s) : s[i] = t[i]
  <2>1. SubSeq(s, 1, Len(s)) = SubSeq(t, 1, Len(s))
    BY DEF IsPrefix
  <2>2. \A i \in 1 .. Len(s) : SubSeq(s, 1, Len(s))[i] = s[i]
    BY <1>1, SubSeqProperties
  <2>3. \A i \in 1 .. Len(s) : SubSeq(t, 1, Len(s))[i] = t[i]
    BY <1>1, SubSeqProperties
  <2> QED
    BY <2>1, <2>2, <2>3
<1>3. ASSUME NEW a \in Seq(S), NEW b \in Seq(S), Len(a) <= Len(b),
             \A i \in 1 .. Len(a) : a[i] = b[i]
      PROVE  IsPrefix(a, b)
  <2>1. /\ Len(a) \in Nat /\ Len(b) \in Nat
        /\ \A i \in 1 .. Len(a) : a[i] \in S /\ b[i] \in S
    BY <1>3, LenProperties
  <2>2. /\ SubSeq(a, 1, Len(a)) \in Seq(S) /\ Len(SubSeq(a, 1, Len(a))) = Len(a)
        /\ \A i \in 1 .. Len(a) : SubSeq(a, 1, Len(a))[i] = a[i]
    BY <2>1, SubSeqProperties
  <2>3. /\ SubSeq(b, 1, Len(a)) \in Seq(S) /\ Len(SubSeq(b, 1, Len(a))) = Len(a)
        /\ \A i \in 1 .. Len(a) : SubSeq(b, 1, Len(a))[i] = b[i]
    BY <1>3, <2>1, SubSeqProperties
  <2>4. SubSeq(a, 1, Len(a)) = SubSeq(b, 1, Len(a))
    BY <1>3, <2>2, <2>3, SeqEqual
  <2> QED
    BY <1>3, <2>4 DEF IsPrefix
<1>4. IsPrefix(s, t \o u)
  <2>1. /\ t \o u \in Seq(S) /\ Len(t \o u) = Len(t) + Len(u)
        /\ \A i \in 1 .. Len(t) + Len(u) :
             (t \o u)[i] = IF i <= Len(t) THEN t[i] ELSE u[i - Len(t)]
    BY ConcatProperties
  <2>2. \A i \in 1 .. Len(s) : s[i] = (t \o u)[i]
    BY <1>1, <1>2, <2>1
  <2>3. Len(s) <= Len(t \o u)
    BY <1>1, <2>1
  <2> QED
    BY <1>3, <2>1, <2>2, <2>3
<1>5. IsPrefix(u \o s, u \o t)
  <2>1. /\ u \o s \in Seq(S) /\ u \o t \in Seq(S)
        /\ Len(u \o s) = Len(u) + Len(s) /\ Len(u \o t) = Len(u) + Len(t)
        /\ \A i \in 1 .. Len(u) + Len(s) :
             (u \o s)[i] = IF i <= Len(u) THEN u[i] ELSE s[i - Len(u)]
        /\ \A i \in 1 .. Len(u) + Len(t) :
             (u \o t)[i] = IF i <= Len(u) THEN u[i] ELSE t[i - Len(u)]
    BY ConcatProperties
  <2>2. \A i \in 1 .. Len(u \o s) : (u \o s)[i] = (u \o t)[i]
    BY <1>1, <1>2, <2>1
  <2> QED
    <3>1. Len(u \o s) <= Len(u \o t)
      BY <1>1, <2>1
    <3> QED
      BY <1>3, <2>1, <2>2, <3>1
<1> QED
  BY <1>4, <1>5

-----------------------------------------------------------------------------
(* writeAccessBatch puts each line of the batch in the file or among the   *)
(* lost, once, and keeps the order of those it writes.                     *)
StreamOK ==
    /\ file \in Seq(Lines) /\ lost \subseteq Lines /\ good \in BOOLEAN
    /\ synced \in 0 .. Len(file)
    /\ IsInjective(file) /\ Apart(ToSet(file), lost) /\ (good => lost = {})

LEMMA BatchWritten ==
    ASSUME NEW lines \in Seq(Lines), IsInjective(lines), StreamOK,
           Apart(ToSet(file), ToSet(lines)), Apart(lost, ToSet(lines)),
           WriteAccessBatch(lines)
    PROVE  /\ StreamOK'
           /\ ToSet(file') \cup lost' = ToSet(file) \cup lost \cup ToSet(lines)
           /\ IF good' THEN good /\ file' = file \o lines
              ELSE IF good THEN IsPrefix(file', file \o lines) ELSE file' = file
<1>1. /\ file \o lines \in Seq(Lines) /\ Len(file \o lines) = Len(file) + Len(lines)
      /\ ToSet(file \o lines) = ToSet(file) \cup ToSet(lines)
      /\ IsInjective(file \o lines) /\ Len(file) \in Nat /\ Len(lines) \in Nat
  BY ConcatLines, ConcatProperties, LenProperties DEF StreamOK
<1>2. CASE /\ good \/ lines = <<>>
           /\ file' = file \o lines
           /\ synced' = IF lines = <<>> THEN synced ELSE Len(file')
           /\ UNCHANGED <<good, lost>>
  <2>1. synced' \in 0 .. Len(file')
    BY <1>1, <1>2 DEF StreamOK
  <2>2. Apart(ToSet(file'), lost')
    BY <1>1, <1>2 DEF StreamOK, Apart
  <2>3. lines = <<>> => file' = file
    BY <1>2, ConcatEmptySeq DEF StreamOK
  <2> QED
    BY <1>1, <1>2, <2>1, <2>2, <2>3 DEF StreamOK
<1>3. CASE \E n \in 0 .. Len(lines) :
             /\ n > 0 => good
             /\ file' = file \o SubSeq(lines, 1, n)
             /\ synced' \in IF good THEN synced .. Len(file') ELSE {synced}
             /\ lost' = lost \cup {lines[i] : i \in n + 1 .. Len(lines)}
             /\ good' = FALSE
  <2>1. PICK n \in 0 .. Len(lines) :
             /\ n > 0 => good
             /\ file' = file \o SubSeq(lines, 1, n)
             /\ synced' \in IF good THEN synced .. Len(file') ELSE {synced}
             /\ lost' = lost \cup {lines[i] : i \in n + 1 .. Len(lines)}
             /\ good' = FALSE
    BY <1>3
  <2> DEFINE first == SubSeq(lines, 1, n)
             rest  == {lines[i] : i \in n + 1 .. Len(lines)}
  <2>2. /\ first \in Seq(Lines) /\ ToSet(first) \cup rest = ToSet(lines)
        /\ IsInjective(first) /\ Apart(ToSet(first), rest) /\ IsPrefix(first, lines)
    BY SplitLines
  <2>3. rest \subseteq Lines
    BY LenProperties
  <2>4. n = 0 => first = <<>>
    BY SubSeqEmpty
  <2>5. file' = file \o first /\ lost' = lost \cup rest /\ (n > 0 => good)
    BY <2>1
  <2> HIDE DEF first, rest
  <2>6. Apart(ToSet(file), ToSet(first))
    BY <2>2 DEF Apart
  <2>7. /\ file' \in Seq(Lines) /\ Len(file') = Len(file) + Len(first) /\ Len(first) \in Nat
        /\ ToSet(file') = ToSet(file) \cup ToSet(first) /\ IsInjective(file')
    BY <2>2, <2>5, <2>6, ConcatLines, ConcatProperties, LenProperties DEF StreamOK
  <2>8. Apart(ToSet(file'), lost')
    BY <2>2, <2>5, <2>7 DEF StreamOK, Apart
  <2>9. synced' \in 0 .. Len(file')
    BY <1>1, <2>1, <2>7 DEF StreamOK
  <2>10. StreamOK'
    BY <2>1, <2>3, <2>5, <2>7, <2>8, <2>9 DEF StreamOK
  <2>11. ToSet(file') \cup lost' = ToSet(file) \cup lost \cup ToSet(lines)
    BY <2>2, <2>5, <2>7
  <2>12. good => IsPrefix(file', file \o lines)
    BY <2>2, <2>5, PrefixGrows DEF StreamOK
  <2>13. ~good => file' = file
    <3>1. ~good => n = 0
      BY <2>5
    <3> QED
      BY <2>4, <2>5, <3>1, ConcatEmptySeq DEF StreamOK
  <2> QED
    BY <2>1, <2>10, <2>11, <2>12, <2>13
<1> QED
  BY <1>2, <1>3 DEF WriteAccessBatch

-----------------------------------------------------------------------------
LEMMA InvInit == Init => LogInv
<1> SUFFICES ASSUME Init PROVE LogInv
  OBVIOUS
<1>1. <<>> \in Seq(Lines) /\ Len(<<>>) = 0 /\ ToSet(<<>>) = {} /\ IsInjective(<<>>)
  BY DEF ToSet, IsInjective
<1>2. good \in BOOLEAN /\ async \in BOOLEAN
  BY LogAssumption DEF Init
<1>3. TypeOK
  <2>1. \A s \in {queue, file, accepted, batch} : s \in Seq(Lines)
    BY <1>1 DEF Init
  <2>2. pending \in [Callers -> Lines \cup {NoLine}]
    BY DEF Init
  <2>3. fbatch \in [AllFlushers -> Seq(Lines)] /\ \A f \in AllFlushers : fbatch[f] = <<>>
    BY <1>1 DEF Init
  <2>4. fpc \in [AllFlushers -> {"idle", "join", "take", "write", "sync", "returned"}]
    BY DEF Init
  <2>5. counter \in 0 .. MaxCalls /\ dropped \in 0 .. MaxCalls /\ flushes \in 0 .. MaxFlushes
    BY LogAssumption DEF Init
  <2>6. synced = 0 /\ file = <<>> /\ lost = {} /\ batch = <<>> /\ stopping \in BOOLEAN
    BY DEF Init
  <2>7. writer \in {"wait", "write", "done"}
    BY DEF Init
  <2>8. async \in Modes
    BY DEF Init
  <2> QED
    BY <1>1, <1>2, <2>1, <2>2, <2>3, <2>4, <2>5, <2>6, <2>7, <2>8 DEF TypeOK
<1>4. NumberInv
  BY <1>1 DEF Init, NumberInv
<1>5. CountInv
  <2>1. SampledCalls = {}
    BY DEF Init, SampledCalls
  <2>2. Underway = {}
    BY DEF Init, Underway
  <2> QED
    BY <1>1, <2>1, <2>2, FS_EmptySet DEF Init, CountInv
<1>6. PlaceInv
  <2>1. Accounted
    BY <1>1 DEF Init, Accounted
  <2>2. InOnePlace
    BY <1>1 DEF Init, InOnePlace, Apart
  <2> QED
    BY <2>1, <2>2 DEF Init, PlaceInv
<1>7. EndInv
  BY <1>1, <1>2 DEF Init, EndInv, AllFlushers
<1>8. LogInAcceptanceOrder
  <2>1. file \o batch \o fbatch[Destructor] \o queue = <<>>
    BY <1>1, ConcatEmptySeq DEF Init, AllFlushers
  <2>2. IsPrefix(file, accepted)
    BY <1>1 DEF Init, IsPrefix
  <2> QED
    BY <2>1, <2>2 DEF Init, LogInAcceptanceOrder
<1> QED
  BY <1>3, <1>4, <1>5, <1>6, <1>7, <1>8 DEF LogInv

(* There are not more dropped and pending lines than calls.                *)
LEMMA CallsBound ==
    ASSUME TypeOK, CountInv
    PROVE  /\ IsFiniteSet(SampledCalls) /\ IsFiniteSet(Underway)
           /\ Cardinality(Underway) \in Nat
           /\ dropped + Cardinality(Underway) <= MaxCalls
<1>1. SampledCalls \subseteq 0 .. counter - 1 /\ counter \in 0 .. MaxCalls /\ MaxCalls \in Nat
  BY LogAssumption DEF SampledCalls, TypeOK
<1>2. IsFiniteSet(0 .. counter - 1) /\ Cardinality(0 .. counter - 1) = counter
  BY <1>1, FS_Interval
<1>3. IsFiniteSet(SampledCalls) /\ Cardinality(SampledCalls) <= counter
  BY <1>1, <1>2, FS_Subset
<1>4. IsFiniteSet(Underway)
  BY FS_Subset, LogAssumption DEF Underway
<1>5. Cardinality(SampledCalls) \in Nat /\ Cardinality(Underway) \in Nat
  BY <1>3, <1>4, FS_CardinalityType
<1>6. Len(accepted) \in Nat /\ dropped \in Nat
  BY LenProperties DEF TypeOK
<1> QED
  BY <1>1, <1>3, <1>4, <1>5, <1>6 DEF CountInv

(* access() takes a number, and a sampled call gets a line.                *)
LEMMA CountCallStep ==
    ASSUME LogInv, NEW c \in Callers, CountCall(c)
    PROVE  LogInv'
<1>1. /\ counter' = counter + 1 /\ counter < MaxCalls /\ pending[c] = NoLine
      /\ pending' = [pending EXCEPT ![c] = IF Sampled(counter) THEN counter ELSE NoLine]
      /\ fpc[Destructor] = "idle"
      /\ UNCHANGED <<async, dropped, accepted, queue, stopping, file, synced, good, lost,
                     writer, batch, fpc, fbatch, flushes>>
  BY DEF CountCall, fileVars, writeVars, flushVars
<1>2. TypeOK /\ NumberInv /\ CountInv /\ PlaceInv /\ EndInv /\ LogInAcceptanceOrder
  BY DEF LogInv
<1>3. counter \in Nat /\ MaxCalls \in Nat /\ counter \in Lines /\ NoLine \notin Lines
  BY <1>1, <1>2, LogAssumption DEF TypeOK, Lines, NoLine
<1>4. /\ pending' \in [Callers -> Lines \cup {NoLine}]
      /\ pending'[c] = (IF Sampled(counter) THEN counter ELSE NoLine)
      /\ \A d \in Callers \ {c} : pending'[d] = pending[d]
  BY <1>1, <1>2, <1>3 DEF TypeOK
<1>5. TypeOK'
  BY <1>1, <1>2, <1>3, <1>4 DEF TypeOK
<1>6. NumberInv'
  <2>1. \A n \in ToSet(accepted) : n \in Nat /\ n < counter
    <3>1. accepted \in Seq(Lines)
      BY <1>2 DEF TypeOK
    <3>2. ToSet(accepted) \subseteq Lines
      BY <3>1, LenProperties DEF ToSet
    <3> QED
      BY <1>2, <3>2 DEF NumberInv, Lines
  <2>2. \A d \in Callers : pending[d] # NoLine => pending[d] \in Nat /\ pending[d] < counter
    BY <1>2 DEF NumberInv, TypeOK, Lines
  <2>3. counter \notin ToSet(accepted) /\ \A d \in Callers : pending[d] # counter
    BY <1>3, <2>1, <2>2 DEF NoLine
  <2>4. \A n \in ToSet(accepted)' : n < counter'
    BY <1>1, <1>3, <2>1
  <2>5. ASSUME NEW d \in Callers, pending'[d] # NoLine
        PROVE  /\ pending'[d] < counter' /\ pending'[d] \notin ToSet(accepted)'
               /\ \A e \in Callers \ {d} : pending'[e] # pending'[d]
    <3>1. CASE d = c
      <4>1. pending'[d] = counter
        BY <1>4, <2>5, <3>1
      <4>2. pending'[d] < counter'
        BY <1>1, <1>3, <4>1
      <4>3. pending'[d] \notin ToSet(accepted)'
        BY <1>1, <2>3, <4>1
      <4>4. \A e \in Callers \ {d} : pending'[e] # pending'[d]
        BY <1>4, <2>3, <3>1, <4>1
      <4> QED
        BY <4>2, <4>3, <4>4
    <3>2. CASE d # c
      <4>1. /\ pending'[d] = pending[d] /\ pending[d] < counter /\ pending[d] \in Nat
            /\ pending[d] \notin ToSet(accepted) /\ pending[d] # counter
            /\ \A e \in Callers \ {d} : pending[e] # pending[d]
        BY <1>2, <1>4, <2>2, <2>3, <2>5, <3>2 DEF NumberInv
      <4>2. \A e \in Callers \ {d} : pending'[e] # pending'[d]
        BY <1>4, <2>5, <3>2, <4>1
      <4>3. pending'[d] < counter'
        BY <1>1, <1>3, <4>1
      <4>4. pending'[d] \notin ToSet(accepted)'
        BY <1>1, <4>1
      <4> QED
        BY <4>2, <4>3, <4>4
    <3> QED
      BY <3>1, <3>2
  <2> QED
    BY <1>1, <2>4, <2>5 DEF NumberInv
<1>7. CountInv'
  <2>1. SampledCalls' = IF Sampled(counter) THEN SampledCalls \cup {counter} ELSE SampledCalls
    <3>1. SampledCalls' = {n \in 0 .. counter' - 1 : Sampled(n)}
      BY DEF SampledCalls, Sampled
    <3>2. 0 .. counter' - 1 = (0 .. counter - 1) \cup {counter}
      BY <1>1, <1>3
    <3>3. SampledCalls' = SampledCalls \cup {n \in {counter} : Sampled(n)}
      BY <3>1, <3>2 DEF SampledCalls
    <3> QED
      BY <3>3
  <2>2. Underway' = IF Sampled(counter) THEN Underway \cup {c} ELSE Underway
    BY <1>1, <1>3, <1>4 DEF Underway
  <2>3. counter \notin SampledCalls /\ c \notin Underway
    BY <1>1, <1>3 DEF SampledCalls, Underway
  <2>4. IsFiniteSet(SampledCalls) /\ IsFiniteSet(Underway)
    BY <1>2, CallsBound
  <2>5. /\ Cardinality(SampledCalls)' = IF Sampled(counter) THEN Cardinality(SampledCalls) + 1
                                        ELSE Cardinality(SampledCalls)
        /\ Cardinality(Underway)' = IF Sampled(counter) THEN Cardinality(Underway) + 1
                                    ELSE Cardinality(Underway)
    BY <2>1, <2>2, <2>3, <2>4, FS_AddElement
  <2>6. Cardinality(Underway) \in Nat /\ Len(accepted) \in Nat /\ dropped \in Nat
    BY <1>2, CallsBound, LenProperties DEF TypeOK
  <2> QED
    BY <1>1, <1>2, <2>5, <2>6 DEF CountInv
<1>8. PlaceInv'
  BY <1>1, <1>2 DEF PlaceInv, Accounted, InOnePlace
<1>9. EndInv'
  BY <1>1, <1>2 DEF EndInv
<1>10. LogInAcceptanceOrder'
  BY <1>1, <1>2 DEF LogInAcceptanceOrder
<1> QED
  BY <1>5, <1>6, <1>7, <1>8, <1>9, <1>10 DEF LogInv

-----------------------------------------------------------------------------
(* What a caller holds is a new line, and it is the last to be accepted.   *)
LEMMA NewLine ==
    ASSUME LogInv, NEW c \in Callers, pending[c] # NoLine
    PROVE  /\ pending[c] \in Lines /\ pending[c] \notin ToSet(accepted)
           /\ pending[c] \notin ToSet(file) /\ pending[c] \notin ToSet(queue)
           /\ pending[c] \notin ToSet(batch) /\ pending[c] \notin lost
           /\ \A f \in AllFlushers : pending[c] \notin ToSet(fbatch[f])
           /\ fpc[Destructor] = "idle" /\ fbatch[Destructor] = <<>>
<1>1. pending[c] \in Lines /\ pending[c] \notin ToSet(accepted)
  BY DEF LogInv, TypeOK, NumberInv
<1>2. ToSet(accepted) = ToSet(file) \cup ToSet(queue) \cup ToSet(batch) \cup lost
                          \cup UNION {ToSet(fbatch[f]) : f \in AllFlushers}
  BY DEF LogInv, PlaceInv, Accounted
<1>3. fpc[Destructor] = "idle" /\ fbatch[Destructor] = <<>>
  BY DEF LogInv, TypeOK, EndInv, AtRest, AllFlushers
<1> QED
  BY <1>1, <1>2, <1>3

LEMMA LeaveCaller ==
    ASSUME LogInv, NEW c \in Callers, pending[c] # NoLine,
           pending' = [pending EXCEPT ![c] = NoLine]
    PROVE  /\ pending' \in [Callers -> Lines \cup {NoLine}]
           /\ pending'[c] = NoLine /\ \A d \in Callers \ {c} : pending'[d] = pending[d]
           /\ Cardinality(Underway') + 1 = Cardinality(Underway)
           /\ Cardinality(Underway) \in Nat /\ Cardinality(Underway') \in Nat
<1>1. pending \in [Callers -> Lines \cup {NoLine}] /\ TypeOK /\ CountInv
  BY DEF LogInv, TypeOK
<1>2. /\ pending' \in [Callers -> Lines \cup {NoLine}]
      /\ pending'[c] = NoLine /\ \A d \in Callers \ {c} : pending'[d] = pending[d]
  BY <1>1
<1>3. Underway' = Underway \ {c} /\ c \in Underway
  BY <1>2 DEF Underway
<1>4. IsFiniteSet(Underway) /\ Cardinality(Underway) \in Nat
  BY <1>1, CallsBound
<1>5. /\ IsFiniteSet(Underway') /\ Cardinality(Underway') = Cardinality(Underway) - 1
      /\ Cardinality(Underway') \in Nat
  BY <1>3, <1>4, FS_RemoveElement, FS_CardinalityType
<1> QED
  BY <1>2, <1>4, <1>5

LEMMA AcceptLine ==
    ASSUME LogInv, NEW c \in Callers, pending[c] # NoLine, Accept(c),
           UNCHANGED <<counter, dropped>>
    PROVE  /\ NumberInv' /\ CountInv'
           /\ accepted' \in Seq(Lines) /\ IsInjective(accepted')
           /\ ToSet(accepted') = ToSet(accepted) \cup {pending[c]}
           /\ accepted' = accepted \o <<pending[c]>>
<1> PICK n \in Lines : n = pending[c]
  BY NewLine
<1>1. /\ accepted \in Seq(Lines) /\ IsInjective(accepted) /\ NumberInv /\ CountInv
      /\ n \notin ToSet(accepted)
  BY NewLine DEF LogInv, TypeOK, PlaceInv, InOnePlace
<1>2. accepted' = Append(accepted, n) /\ pending' = [pending EXCEPT ![c] = NoLine]
  BY DEF Accept
<1>3. /\ accepted' \in Seq(Lines) /\ IsInjective(accepted')
      /\ ToSet(accepted') = ToSet(accepted) \cup {n}
      /\ accepted' = accepted \o <<n>> /\ Len(accepted') = Len(accepted) + 1
  BY <1>1, <1>2, AppendLine, AppendIsConcat, AppendProperties
<1>4. NumberInv'
  <2>1. \A d \in Callers : pending'[d] # NoLine => d # c /\ pending'[d] = pending[d]
    BY <1>2, LeaveCaller
  <2>2. \A d \in Callers \ {c} : pending[d] # n
    BY <1>1 DEF NumberInv
  <2>3. \A m \in ToSet(accepted') : m < counter'
    BY <1>1, <1>3 DEF NumberInv
  <2>4. ASSUME NEW d \in Callers, pending'[d] # NoLine
        PROVE  /\ pending'[d] < counter' /\ pending'[d] \notin ToSet(accepted')
               /\ \A e \in Callers \ {d} : pending'[e] # pending'[d]
    <3>1. d # c /\ pending'[d] = pending[d] /\ pending[d] # NoLine
      BY <2>1, <2>4
    <3>2. /\ pending[d] < counter /\ pending[d] \notin ToSet(accepted)
          /\ \A e \in Callers \ {d} : pending[e] # pending[d]
      BY <1>1, <3>1 DEF NumberInv
    <3>3. \A e \in Callers \ {d} : pending'[e] # pending'[d]
      BY <1>2, <2>4, <3>1, <3>2, LeaveCaller
    <3> QED
      BY <1>3, <2>2, <3>1, <3>2, <3>3
  <2> QED
    BY <2>3, <2>4 DEF NumberInv
<1>5. CountInv'
  <2>1. SampledCalls' = SampledCalls
    BY DEF SampledCalls, Sampled
  <2>2. Cardinality(Underway') + 1 = Cardinality(Underway) /\ Cardinality(Underway') \in Nat
    BY <1>2, LeaveCaller
  <2>3. Len(accepted) \in Nat /\ dropped \in Nat
    BY <1>1, LenProperties DEF LogInv, TypeOK
  <2>4. Cardinality(SampledCalls) = Len(accepted) + dropped + Cardinality(Underway)
    BY <1>1 DEF CountInv
  <2>5. Cardinality(SampledCalls') = Len(accepted') + dropped' + Cardinality(Underway')
    BY <1>3, <2>1, <2>2, <2>3, <2>4
  <2> QED
    BY <2>5 DEF CountInv
<1> QED
  BY <1>3, <1>4, <1>5

(* A line for the queue.                                                   *)
LEMMA EnqueueStep ==
    ASSUME LogInv, NEW c \in Callers, Enqueue(c)
    PROVE  LogInv'
<1> PICK n \in Lines : n = pending[c]
  BY NewLine DEF Enqueue
<1>1. /\ pending[c] # NoLine /\ async /\ queue' = Append(queue, n) /\ Accept(c)
      /\ pending' = [pending EXCEPT ![c] = NoLine]
      /\ UNCHANGED <<async, counter, dropped, stopping, file, synced, good, lost,
                     writer, batch, fpc, fbatch, flushes>>
  BY DEF Enqueue, Accept, fileVars, writeVars, flushVars
<1>2. TypeOK /\ PlaceInv /\ EndInv /\ LogInAcceptanceOrder
  BY DEF LogInv
<1>3. /\ NumberInv' /\ CountInv' /\ accepted' \in Seq(Lines) /\ IsInjective(accepted')
      /\ ToSet(accepted') = ToSet(accepted) \cup {n} /\ accepted' = accepted \o <<n>>
  BY <1>1, AcceptLine
<1>4. /\ n \notin ToSet(file) /\ n \notin ToSet(queue) /\ n \notin ToSet(batch) /\ n \notin lost
      /\ \A f \in AllFlushers : n \notin ToSet(fbatch[f])
      /\ fpc[Destructor] = "idle"
  BY <1>1, NewLine
<1>5. queue \in Seq(Lines) /\ file \in Seq(Lines) /\ batch \in Seq(Lines)
      /\ fbatch[Destructor] \in Seq(Lines) /\ accepted \in Seq(Lines)
  BY <1>2 DEF TypeOK, AllFlushers
<1>6. /\ queue' \in Seq(Lines) /\ ToSet(queue') = ToSet(queue) \cup {n}
      /\ (IsInjective(queue) => IsInjective(queue')) /\ queue' = queue \o <<n>>
  BY <1>1, <1>4, <1>5, AppendLine, AppendIsConcat
<1>7. TypeOK'
  BY <1>1, <1>2, <1>3, <1>6, LeaveCaller DEF TypeOK
<1>8. PlaceInv'
  <2>1. Accounted'
    BY <1>1, <1>2, <1>3, <1>6 DEF PlaceInv, Accounted
  <2>2. InOnePlace'
    <3>1. InOnePlace
      BY <1>2 DEF PlaceInv
    <3>2. IsInjective(queue') /\ Apart(ToSet(file), ToSet(queue'))
          /\ Apart(ToSet(queue'), ToSet(batch)) /\ Apart(lost, ToSet(queue'))
          /\ \A f \in AllFlushers : Apart(ToSet(fbatch[f]), ToSet(queue'))
      BY <1>4, <1>6, <3>1 DEF InOnePlace, Apart
    <3> QED
      BY <1>1, <1>3, <3>1, <3>2 DEF InOnePlace
  <2> QED
    BY <1>1, <1>2, <2>1, <2>2 DEF PlaceInv
<1>9. EndInv'
  BY <1>1, <1>2, <1>4 DEF EndInv
<1>10. LogInAcceptanceOrder'
  <2>1. <<n>> \in Seq(Lines)
    OBVIOUS
  <2>2. file \o batch \o fbatch[Destructor] \o queue' =
          (file \o batch \o fbatch[Destructor] \o queue) \o <<n>>
    <3> DEFINE u == file \o batch \o fbatch[Destructor]
    <3>1. u \in Seq(Lines)
      BY <1>5, ConcatProperties
    <3> HIDE DEF u
    <3>2. u \o (queue \o <<n>>) = (u \o queue) \o <<n>>
      BY <1>5, <2>1, <3>1, ConcatAssociative
    <3> QED
      BY <1>6, <3>2 DEF u
  <2>3. IsPrefix(file, accepted) => IsPrefix(file, accepted')
    BY <1>3, <1>5, <2>1, PrefixGrows
  <2> QED
    BY <1>1, <1>2, <1>3, <2>2, <2>3 DEF LogInAcceptanceOrder
<1> QED
  BY <1>3, <1>7, <1>8, <1>9, <1>10 DEF LogInv

(* A line straight to the file, which only happens without the writer.     *)
LEMMA WriteLineStep ==
    ASSUME LogInv, NEW c \in Callers, WriteLine(c)
    PROVE  LogInv'
<1> PICK n \in Lines : n = pending[c]
  BY NewLine DEF WriteLine
<1>1. /\ pending[c] # NoLine /\ ~async /\ Accept(c)
      /\ pending' = [pending EXCEPT ![c] = NoLine]
      /\ UNCHANGED <<async, counter, dropped, queue, stopping, writer, batch,
                     fpc, fbatch, flushes>>
      /\ \/ /\ good
            /\ file' = Append(file, n)
            /\ synced' \in {synced, Len(file')}
            /\ UNCHANGED <<good, lost>>
         \/ /\ good' = FALSE
            /\ lost' = lost \cup {n}
            /\ UNCHANGED <<file, synced>>
  BY DEF WriteLine, Accept, writeVars, flushVars
<1>2. TypeOK /\ PlaceInv /\ EndInv /\ LogInAcceptanceOrder /\ Accounted /\ InOnePlace
  BY DEF LogInv, PlaceInv
<1>3. /\ NumberInv' /\ CountInv' /\ accepted' \in Seq(Lines) /\ IsInjective(accepted')
      /\ ToSet(accepted') = ToSet(accepted) \cup {n} /\ accepted' = accepted \o <<n>>
      /\ accepted' = Append(accepted, n)
  BY <1>1, AcceptLine DEF Accept
<1>4. /\ n \notin ToSet(file) /\ n \notin ToSet(queue) /\ n \notin ToSet(batch) /\ n \notin lost
      /\ \A f \in AllFlushers : n \notin ToSet(fbatch[f])
      /\ fpc[Destructor] = "idle" /\ fbatch[Destructor] = <<>>
  BY <1>1, NewLine
<1>5. /\ file \in Seq(Lines) /\ accepted \in Seq(Lines)
      /\ synced \in 0 .. Len(file) /\ Len(file) \in Nat
  BY <1>2, LenProperties DEF TypeOK
<1>6. queue = <<>> /\ batch = <<>>
  BY <1>1, <1>2 DEF EndInv, TypeOK
<1>7. (good => file = accepted) /\ IsPrefix(file, accepted)
  <2>1. file \o batch \o fbatch[Destructor] \o queue = file
    BY <1>4, <1>5, <1>6, ConcatEmptySeq
  <2> QED
    <3>1. CASE good
      <4>1. file = accepted
        BY <1>1, <1>2, <2>1, <3>1 DEF LogInAcceptanceOrder
      <4> QED
        BY <1>5, <4>1 DEF IsPrefix
    <3>2. CASE ~good
      BY <1>1, <1>2, <3>2 DEF LogInAcceptanceOrder
    <3> QED
      BY <3>1, <3>2
<1>8. EndInv'
  BY <1>1, <1>2, <1>4 DEF EndInv
<1>9. CASE good /\ file' = Append(file, n) /\ synced' \in {synced, Len(file')}
           /\ UNCHANGED <<good, lost>>
  <2>1. /\ file' \in Seq(Lines) /\ ToSet(file') = ToSet(file) \cup {n}
        /\ (IsInjective(file) => IsInjective(file')) /\ Len(file') = Len(file) + 1
    BY <1>4, <1>5, <1>9, AppendLine, AppendProperties
  <2>2. synced' \in 0 .. Len(file')
    BY <1>5, <1>9, <2>1
  <2>3. TypeOK'
    BY <1>1, <1>2, <1>3, <1>9, <2>1, <2>2, LeaveCaller DEF TypeOK
  <2>4. Accounted'
    BY <1>1, <1>2, <1>3, <1>9, <2>1 DEF Accounted
  <2>5. InOnePlace'
    <3>1. /\ IsInjective(file') /\ Apart(ToSet(file'), ToSet(queue))
          /\ Apart(ToSet(file'), ToSet(batch)) /\ Apart(lost, ToSet(file'))
          /\ \A f \in AllFlushers : Apart(ToSet(fbatch[f]), ToSet(file'))
      BY <1>2, <1>4, <2>1 DEF InOnePlace, Apart
    <3> QED
      BY <1>1, <1>2, <1>3, <1>9, <3>1 DEF InOnePlace
  <2>6. LogInAcceptanceOrder'
    <3>1. file' = accepted'
      BY <1>3, <1>7, <1>9
    <3>2. file' \o batch \o fbatch[Destructor] \o queue = file'
      BY <1>4, <1>6, <2>1, ConcatEmptySeq
    <3> QED
      BY <1>1, <1>9, <3>1, <3>2 DEF LogInAcceptanceOrder
  <2> QED
    BY <1>2, <1>3, <1>8, <1>9, <2>3, <2>4, <2>5, <2>6 DEF LogInv, PlaceInv
<1>10. CASE good' = FALSE /\ lost' = lost \cup {n} /\ UNCHANGED <<file, synced>>
  <2>1. TypeOK'
    BY <1>1, <1>2, <1>3, <1>10, LeaveCaller DEF TypeOK
  <2>2. Accounted'
    BY <1>1, <1>2, <1>3, <1>10 DEF Accounted
  <2>3. InOnePlace'
    <3>1. /\ \A s \in {file, queue, batch} : Apart(lost', ToSet(s))
          /\ \A f \in AllFlushers : Apart(lost', ToSet(fbatch[f]))
      BY <1>2, <1>4, <1>10 DEF InOnePlace, Apart
    <3> QED
      BY <1>1, <1>2, <1>3, <1>10, <3>1 DEF InOnePlace
  <2>4. LogInAcceptanceOrder'
    <3>1. <<n>> \in Seq(Lines)
      OBVIOUS
    <3>2. IsPrefix(file, accepted')
      BY <1>3, <1>5, <1>7, <3>1, PrefixGrows
    <3> QED
      BY <1>10, <3>2 DEF LogInAcceptanceOrder
  <2> QED
    BY <1>3, <1>8, <1>10, <2>1, <2>2, <2>3, <2>4 DEF LogInv, PlaceInv
<1> QED
  BY <1>1, <1>9, <1>10

(* A line for which the queue has no room.                                 *)
LEMMA DropStep ==
    ASSUME LogInv, NEW c \in Callers, Drop(c)
    PROVE  LogInv'
<1>1. /\ pending[c] # NoLine /\ pending' = [pending EXCEPT ![c] = NoLine]
      /\ dropped' = dropped + 1
      /\ UNCHANGED <<async, counter, accepted, queue, stopping, file, synced, good, lost,
                     writer, batch, fpc, fbatch, flushes>>
  BY DEF Drop, fileVars, writeVars, flushVars
<1>2. TypeOK /\ NumberInv /\ CountInv /\ PlaceInv /\ EndInv /\ LogInAcceptanceOrder
  BY DEF LogInv
<1>3. /\ pending' \in [Callers -> Lines \cup {NoLine}]
      /\ pending'[c] = NoLine /\ \A d \in Callers \ {c} : pending'[d] = pending[d]
      /\ Cardinality(Underway') + 1 = Cardinality(Underway) /\ Cardinality(Underway') \in Nat
      /\ fpc[Destructor] = "idle"
  BY <1>1, LeaveCaller, NewLine
<1>4. dropped' \in 0 .. MaxCalls
  <2>1. dropped + Cardinality(Underway) <= MaxCalls /\ dropped \in Nat
    BY <1>2, CallsBound DEF TypeOK
  <2> QED
    BY <1>1, <1>3, <2>1, LogAssumption
<1>5. TypeOK'
  BY <1>1, <1>2, <1>3, <1>4 DEF TypeOK
<1>6. NumberInv'
  BY <1>1, <1>2, <1>3 DEF NumberInv
<1>7. CountInv'
  <2>1. SampledCalls' = SampledCalls
    BY <1>1 DEF SampledCalls, Sampled
  <2>2. Len(accepted) \in Nat /\ dropped \in Nat
    BY <1>2, LenProperties DEF TypeOK
  <2> QED
    BY <1>1, <1>2, <1>3, <2>1, <2>2 DEF CountInv
<1>8. PlaceInv'
  BY <1>1, <1>2 DEF PlaceInv, Accounted, InOnePlace
<1>9. EndInv'
  BY <1>1, <1>2, <1>3 DEF EndInv
<1>10. LogInAcceptanceOrder'
  BY <1>1, <1>2 DEF LogInAcceptanceOrder
<1> QED
  BY <1>5, <1>6, <1>7, <1>8, <1>9, <1>10 DEF LogInv

(* The writer takes the queue; its last batch is in the file by then.      *)
LEMMA WriterTakeStep ==
    ASSUME LogInv, WriterTake
    PROVE  LogInv'
<1>1. /\ writer = "wait" /\ batch' = queue /\ queue' = <<>>
      /\ writer' \in {"write", "done"} /\ (writer' = "done" => queue = <<>>)
      /\ UNCHANGED <<async, counter, dropped, accepted, pending, stopping, file, synced,
                     good, lost, fpc, fbatch, flushes>>
  BY DEF WriterTake, WriterTakes, callVars, fileVars, flushVars
<1>2. TypeOK /\ NumberInv /\ CountInv /\ PlaceInv /\ EndInv /\ LogInAcceptanceOrder
  BY DEF LogInv
<1>3. /\ batch = <<>> /\ fbatch[Destructor] = <<>> /\ async
      /\ fpc[Destructor] \in {"idle", "join"}
  BY <1>1, <1>2 DEF TypeOK, EndInv, AllFlushers
<1>4. <<>> \in Seq(Lines) /\ ToSet(<<>>) = {} /\ IsInjective(<<>>)
  BY DEF ToSet, IsInjective
<1>5. TypeOK'
  BY <1>1, <1>2, <1>4 DEF TypeOK
<1>6. NumberInv'
  BY <1>1, <1>2 DEF NumberInv
<1>7. CountInv'
  BY <1>1, <1>2 DEF CountInv, SampledCalls, Sampled, Underway
<1>8. PlaceInv'
  BY <1>1, <1>2, <1>3, <1>4 DEF PlaceInv, Accounted, InOnePlace, Apart
<1>9. EndInv'
  BY <1>1, <1>2, <1>3 DEF EndInv, AtRest
<1>10. LogInAcceptanceOrder'
  <2>1. file \in Seq(Lines) /\ queue \in Seq(Lines)
    BY <1>2 DEF TypeOK
  <2>2. /\ file \o batch \o fbatch[Destructor] \o queue = file \o queue
        /\ file \o batch' \o fbatch[Destructor] \o queue' = file \o queue
    BY <1>1, <1>3, <2>1, ConcatEmptySeq, ConcatProperties
  <2> QED
    BY <1>1, <1>2, <2>2 DEF LogInAcceptanceOrder
<1> QED
  BY <1>5, <1>6, <1>7, <1>8, <1>9, <1>10 DEF LogInv

(* A batch on its way to the file: x is the writer's or a flusher's.       *)
LEMMA BatchPlace ==
    ASSUME StreamOK, StreamOK', NEW x, ToSet(file') \cup lost' = ToSet(file) \cup lost \cup x,
           NEW y, Apart(y, ToSet(file)), Apart(lost, y), Apart(y, x)
    PROVE  Apart(ToSet(file'), y) /\ Apart(lost', y)
BY DEF Apart

LEMMA WriterWriteStep ==
    ASSUME LogInv, WriterWrite
    PROVE  LogInv'
<1> PICK lines : lines = batch
  OBVIOUS
<1>1. /\ writer = "write" /\ WriteAccessBatch(lines) /\ writer' = "wait" /\ batch' = <<>>
      /\ UNCHANGED <<async, counter, dropped, accepted, pending, queue, stopping,
                     fpc, fbatch, flushes>>
  BY DEF WriterWrite, callVars, flushVars
<1>2. TypeOK /\ NumberInv /\ CountInv /\ PlaceInv /\ EndInv /\ LogInAcceptanceOrder
  BY DEF LogInv
<1>3. /\ StreamOK /\ lines \in Seq(Lines) /\ IsInjective(lines)
      /\ Apart(ToSet(file), ToSet(lines)) /\ Apart(lost, ToSet(lines))
  BY <1>2 DEF TypeOK, PlaceInv, InOnePlace, StreamOK, Apart
<1>4. /\ StreamOK'
      /\ ToSet(file') \cup lost' = ToSet(file) \cup lost \cup ToSet(lines)
      /\ IF good' THEN good /\ file' = file \o lines
         ELSE IF good THEN IsPrefix(file', file \o lines) ELSE file' = file
  BY <1>1, <1>3, BatchWritten
<1>5. <<>> \in Seq(Lines) /\ ToSet(<<>>) = {} /\ IsInjective(<<>>)
  BY DEF ToSet, IsInjective
<1>6. fpc[Destructor] \in {"idle", "join"} /\ async /\ fbatch[Destructor] = <<>>
  BY <1>1, <1>2 DEF TypeOK, EndInv, AllFlushers
<1>7. TypeOK'
  BY <1>1, <1>2, <1>4, <1>5 DEF TypeOK, StreamOK
<1>8. NumberInv'
  BY <1>1, <1>2 DEF NumberInv
<1>9. CountInv'
  BY <1>1, <1>2 DEF CountInv, SampledCalls, Sampled, Underway
<1>10. PlaceInv'
  <2>1. Accounted'
    BY <1>1, <1>2, <1>4, <1>5 DEF PlaceInv, Accounted
  <2>2. Apart(ToSet(file'), ToSet(queue)) /\ Apart(lost', ToSet(queue))
    BY <1>2, <1>3, <1>4, BatchPlace DEF PlaceInv, InOnePlace, Apart
  <2>3. \A f \in AllFlushers : Apart(ToSet(file'), ToSet(fbatch[f])) /\ Apart(lost', ToSet(fbatch[f]))
    BY <1>2, <1>3, <1>4, BatchPlace DEF PlaceInv, InOnePlace, Apart
  <2>4. IsInjective(file') /\ Apart(ToSet(file'), lost') /\ (good' => lost' = {})
    BY <1>4 DEF StreamOK
  <2>5. InOnePlace'
    BY <1>1, <1>2, <1>5, <2>2, <2>3, <2>4 DEF PlaceInv, InOnePlace, Apart
  <2> QED
    BY <2>1, <2>4, <2>5 DEF PlaceInv
<1>11. EndInv'
  BY <1>1, <1>2, <1>6 DEF EndInv, AtRest
<1>12. LogInAcceptanceOrder'
  <2>1. /\ file \in Seq(Lines) /\ queue \in Seq(Lines) /\ file' \in Seq(Lines)
        /\ file \o lines \in Seq(Lines)
    BY <1>2, <1>3, <1>4, ConcatProperties DEF TypeOK, StreamOK
  <2>2. file \o batch \o fbatch[Destructor] \o queue = (file \o lines) \o queue
    BY <1>6, <2>1, ConcatEmptySeq
  <2>3. file' \o batch' \o fbatch[Destructor] \o queue = file' \o queue
    BY <1>1, <1>6, <2>1, ConcatEmptySeq
  <2>4. IsPrefix(file', file \o lines) => IsPrefix(file', (file \o lines) \o queue)
    BY <2>1, PrefixGrows
  <2> QED
    BY <1>1, <1>2, <1>4, <2>2, <2>3, <2>4 DEF LogInAcceptanceOrder
<1> QED
  BY <1>7, <1>8, <1>9, <1>10, <1>11, <1>12 DEF LogInv

-----------------------------------------------------------------------------
(* flushAccess.  Beside the writer it may overtake it; from the destructor *)
(* it cannot, because the writer has ended.                                *)
LEMMA FlushBeginStep ==
    ASSUME LogInv, NEW f \in Flushers, FlushBegin(f)
    PROVE  LogInv'
<1>1. /\ fpc[Destructor] = "idle" /\ flushes < MaxFlushes /\ flushes' = flushes + 1
      /\ fpc' = [fpc EXCEPT ![f] = IF async THEN "take" ELSE "sync"]
      /\ fpc[f] \in {"idle", "returned"}
      /\ UNCHANGED <<async, counter, dropped, accepted, pending, queue, stopping, file, synced,
                     good, lost, writer, batch, fbatch>>
  BY DEF FlushBegin, callVars, fileVars, writeVars
<1>2. TypeOK /\ NumberInv /\ CountInv /\ PlaceInv /\ EndInv /\ LogInAcceptanceOrder
  BY DEF LogInv
<1>3. f \in AllFlushers /\ f # Destructor /\ async \in BOOLEAN
  BY <1>2, LogAssumption DEF AllFlushers, TypeOK
<1>4. /\ fpc' \in [AllFlushers -> {"idle", "join", "take", "write", "sync", "returned"}]
      /\ fpc'[f] = (IF async THEN "take" ELSE "sync") /\ fpc'[Destructor] = "idle"
      /\ \A g \in AllFlushers \ {f} : fpc'[g] = fpc[g]
  BY <1>1, <1>2, <1>3 DEF TypeOK, AllFlushers
<1>5. flushes \in Nat /\ MaxFlushes \in Nat
  BY <1>2, LogAssumption DEF TypeOK
<1>6. TypeOK'
  BY <1>1, <1>2, <1>3, <1>4, <1>5 DEF TypeOK
<1>7. NumberInv'
  BY <1>1, <1>2 DEF NumberInv
<1>8. CountInv'
  BY <1>1, <1>2 DEF CountInv, SampledCalls, Sampled, Underway
<1>9. PlaceInv'
  BY <1>1, <1>2 DEF PlaceInv, Accounted, InOnePlace
<1>10. EndInv'
  BY <1>1, <1>2, <1>3, <1>4, <1>5 DEF EndInv
<1>11. LogInAcceptanceOrder'
  <2>1. CASE async
    BY <1>1, <1>5, <2>1 DEF LogInAcceptanceOrder
  <2>2. CASE ~async
    BY <1>1, <1>2, <2>2 DEF LogInAcceptanceOrder
  <2> QED
    BY <2>1, <2>2
<1> QED
  BY <1>6, <1>7, <1>8, <1>9, <1>10, <1>11 DEF LogInv

(* A flusher that has begun runs before the destructor, or is it.          *)
LEMMA FlusherPlace ==
    ASSUME LogInv, NEW f \in AllFlushers, fpc[f] \notin {"idle", "returned"}
    PROVE  /\ f # Destructor => /\ fpc[Destructor] = "idle" /\ fbatch[Destructor] = <<>>
                                /\ flushes # 0
           /\ f = Destructor /\ fpc[f] # "join" => writer = "done" /\ batch = <<>>
BY DEF LogInv, TypeOK, EndInv, AtRest, AllFlushers

LEMMA FlushTakeStep ==
    ASSUME LogInv, NEW f \in AllFlushers, FlushTake(f)
    PROVE  LogInv'
<1>1. /\ fpc[f] = "take" /\ fbatch' = [fbatch EXCEPT ![f] = queue] /\ queue' = <<>>
      /\ fpc' = [fpc EXCEPT ![f] = "write"]
      /\ UNCHANGED <<async, counter, dropped, accepted, pending, stopping, file, synced,
                     good, lost, writer, batch, flushes>>
  BY DEF FlushTake, callVars, fileVars, writeVars
<1>2. TypeOK /\ NumberInv /\ CountInv /\ PlaceInv /\ EndInv /\ LogInAcceptanceOrder
  BY DEF LogInv
<1>3. /\ f # Destructor => /\ fpc[Destructor] = "idle" /\ fbatch[Destructor] = <<>>
                           /\ flushes # 0
      /\ f = Destructor => writer = "done" /\ batch = <<>>
      /\ fbatch[f] = <<>> /\ async
  BY <1>1, <1>2, FlusherPlace DEF TypeOK, EndInv
<1>4. /\ fpc' \in [AllFlushers -> {"idle", "join", "take", "write", "sync", "returned"}]
      /\ fpc'[f] = "write" /\ \A g \in AllFlushers \ {f} : fpc'[g] = fpc[g]
      /\ Destructor \in AllFlushers
  BY <1>1, <1>2 DEF TypeOK, AllFlushers
<1>5. /\ fbatch' \in [AllFlushers -> Seq(Lines)]
      /\ fbatch'[f] = queue /\ \A g \in AllFlushers \ {f} : fbatch'[g] = fbatch[g]
  BY <1>1, <1>2 DEF TypeOK
<1>6. <<>> \in Seq(Lines) /\ ToSet(<<>>) = {} /\ IsInjective(<<>>)
  BY DEF ToSet, IsInjective
<1>7. TypeOK'
  BY <1>1, <1>2, <1>4, <1>5, <1>6 DEF TypeOK
<1>8. NumberInv'
  BY <1>1, <1>2 DEF NumberInv
<1>9. CountInv'
  BY <1>1, <1>2 DEF CountInv, SampledCalls, Sampled, Underway
<1>10. PlaceInv'
  <2>1. InOnePlace /\ Accounted
    BY <1>2 DEF PlaceInv
  <2>2. Accounted'
    <3>1. UNION {ToSet(fbatch'[g]) : g \in AllFlushers} =
            ToSet(queue) \cup UNION {ToSet(fbatch[g]) : g \in AllFlushers}
      <4>1. \A g \in AllFlushers : ToSet(fbatch[g]) \subseteq ToSet(fbatch'[g])
        BY <1>3, <1>5, <1>6
      <4>2. \A g \in AllFlushers : ToSet(fbatch'[g]) \subseteq ToSet(queue) \cup ToSet(fbatch[g])
        BY <1>3, <1>5, <1>6
      <4>3. ToSet(queue) \subseteq UNION {ToSet(fbatch'[g]) : g \in AllFlushers}
        BY <1>5
      <4> QED
        BY <4>1, <4>2, <4>3
    <3> QED
      BY <1>1, <1>6, <2>1, <3>1 DEF Accounted
  <2>3. \A s \in {file, queue', batch} :
          Apart(lost, ToSet(s)) /\ IsInjective(s)
          /\ \A g \in AllFlushers : Apart(ToSet(fbatch'[g]), ToSet(s))
    BY <1>1, <1>5, <1>6, <2>1 DEF InOnePlace, Apart
  <2>4. \A g \in AllFlushers : /\ IsInjective(fbatch'[g]) /\ Apart(lost, ToSet(fbatch'[g]))
                               /\ \A h \in AllFlushers \ {g} :
                                    Apart(ToSet(fbatch'[g]), ToSet(fbatch'[h]))
    <3>1. \A g \in AllFlushers \ {f} : Apart(ToSet(fbatch[g]), ToSet(queue))
      BY <2>1 DEF InOnePlace
    <3> QED
      BY <1>5, <2>1, <3>1 DEF InOnePlace, Apart
  <2>5. InOnePlace'
    BY <1>1, <1>6, <2>1, <2>3, <2>4 DEF InOnePlace, Apart
  <2> QED
    BY <1>1, <1>2, <2>2, <2>5 DEF PlaceInv
<1>11. EndInv'
  <2>1. fpc'[Destructor] = IF f = Destructor THEN "write" ELSE fpc[Destructor]
    BY <1>4
  <2> QED
    BY <1>1, <1>2, <1>3, <1>4, <2>1 DEF EndInv, AtRest, AllFlushers
<1>12. LogInAcceptanceOrder'
  <2>1. /\ file \in Seq(Lines) /\ queue \in Seq(Lines)
    BY <1>2 DEF TypeOK
  <2>2. CASE f = Destructor
    <3>1. /\ file \o batch \o fbatch[Destructor] \o queue = file \o queue
          /\ file \o batch \o fbatch'[Destructor] \o queue' = file \o queue
      BY <1>1, <1>3, <1>5, <2>1, <2>2, ConcatEmptySeq, ConcatProperties
    <3> QED
      BY <1>1, <1>2, <3>1 DEF LogInAcceptanceOrder
  <2>3. CASE f # Destructor
    BY <1>1, <1>3, <2>3 DEF LogInAcceptanceOrder
  <2> QED
    BY <2>2, <2>3
<1> QED
  BY <1>7, <1>8, <1>9, <1>10, <1>11, <1>12 DEF LogInv

LEMMA FlushWriteStep ==
    ASSUME LogInv, NEW f \in AllFlushers, FlushWrite(f)
    PROVE  LogInv'
<1> PICK lines : lines = fbatch[f]
  OBVIOUS
<1>1. /\ fpc[f] = "write" /\ WriteAccessBatch(lines)
      /\ fbatch' = [fbatch EXCEPT ![f] = <<>>]
      /\ fpc' = [fpc EXCEPT ![f] = "sync"]
      /\ UNCHANGED <<async, counter, dropped, accepted, pending, queue, stopping,
                     writer, batch, flushes>>
  BY DEF FlushWrite, callVars, writeVars
<1>2. TypeOK /\ NumberInv /\ CountInv /\ PlaceInv /\ EndInv /\ LogInAcceptanceOrder
      /\ InOnePlace /\ Accounted
  BY DEF LogInv, PlaceInv
<1>3. /\ StreamOK /\ lines \in Seq(Lines) /\ IsInjective(lines)
      /\ Apart(ToSet(file), ToSet(lines)) /\ Apart(lost, ToSet(lines))
  BY <1>2 DEF TypeOK, PlaceInv, InOnePlace, StreamOK, Apart
<1>4. /\ StreamOK'
      /\ ToSet(file') \cup lost' = ToSet(file) \cup lost \cup ToSet(lines)
      /\ IF good' THEN good /\ file' = file \o lines
         ELSE IF good THEN IsPrefix(file', file \o lines) ELSE file' = file
  BY <1>1, <1>3, BatchWritten
<1>5. <<>> \in Seq(Lines) /\ ToSet(<<>>) = {} /\ IsInjective(<<>>)
  BY DEF ToSet, IsInjective
<1>6. /\ f # Destructor => /\ fpc[Destructor] = "idle" /\ fbatch[Destructor] = <<>>
                           /\ flushes # 0
      /\ f = Destructor => writer = "done" /\ batch = <<>> /\ queue = <<>>
      /\ async
  BY <1>1, <1>2, FlusherPlace DEF TypeOK, EndInv
<1>7. /\ fpc' \in [AllFlushers -> {"idle", "join", "take", "write", "sync", "returned"}]
      /\ fpc'[f] = "sync" /\ \A g \in AllFlushers \ {f} : fpc'[g] = fpc[g]
      /\ fbatch' \in [AllFlushers -> Seq(Lines)]
      /\ fbatch'[f] = <<>> /\ \A g \in AllFlushers \ {f} : fbatch'[g] = fbatch[g]
      /\ Destructor \in AllFlushers
  BY <1>1, <1>2, <1>5 DEF TypeOK, AllFlushers
<1>8. TypeOK'
  BY <1>1, <1>2, <1>4, <1>7 DEF TypeOK, StreamOK
<1>9. NumberInv'
  BY <1>1, <1>2 DEF NumberInv
<1>10. CountInv'
  BY <1>1, <1>2 DEF CountInv, SampledCalls, Sampled, Underway
<1>11. PlaceInv'
  <2>1. Accounted'
    <3>1. UNION {ToSet(fbatch[g]) : g \in AllFlushers} =
            ToSet(lines) \cup UNION {ToSet(fbatch'[g]) : g \in AllFlushers}
      <4>1. \A g \in AllFlushers : ToSet(fbatch'[g]) \subseteq ToSet(fbatch[g])
        BY <1>5, <1>7
      <4>2. \A g \in AllFlushers : ToSet(fbatch[g]) \subseteq ToSet(lines) \cup ToSet(fbatch'[g])
        BY <1>7
      <4>3. ToSet(lines) \subseteq UNION {ToSet(fbatch[g]) : g \in AllFlushers}
        OBVIOUS
      <4> QED
        BY <4>1, <4>2, <4>3
    <3> QED
      BY <1>1, <1>2, <1>4, <3>1 DEF Accounted
  <2>2. \A s \in {queue, batch} :
          Apart(ToSet(file'), ToSet(s)) /\ Apart(lost', ToSet(s))
    BY <1>2, <1>3, <1>4, BatchPlace DEF InOnePlace, Apart
  <2>3. \A g \in AllFlushers : Apart(ToSet(file'), ToSet(fbatch'[g])) /\ Apart(lost', ToSet(fbatch'[g]))
    <3>1. \A g \in AllFlushers \ {f} :
            Apart(ToSet(file'), ToSet(fbatch[g])) /\ Apart(lost', ToSet(fbatch[g]))
      BY <1>2, <1>3, <1>4, BatchPlace DEF InOnePlace, Apart
    <3> QED
      BY <1>5, <1>7, <3>1 DEF Apart
  <2>4. IsInjective(file') /\ Apart(ToSet(file'), lost') /\ (good' => lost' = {})
    BY <1>4 DEF StreamOK
  <2>5. \A g \in AllFlushers : /\ IsInjective(fbatch'[g])
                               /\ Apart(ToSet(fbatch'[g]), ToSet(queue))
                               /\ Apart(ToSet(fbatch'[g]), ToSet(batch))
                               /\ \A h \in AllFlushers \ {g} :
                                    Apart(ToSet(fbatch'[g]), ToSet(fbatch'[h]))
    BY <1>2, <1>5, <1>7 DEF InOnePlace, Apart
  <2>6. InOnePlace'
    BY <1>1, <1>2, <2>2, <2>3, <2>4, <2>5 DEF InOnePlace, Apart
  <2> QED
    BY <2>1, <2>4, <2>6 DEF PlaceInv
<1>12. EndInv'
  <2>1. fpc'[Destructor] = IF f = Destructor THEN "sync" ELSE fpc[Destructor]
    BY <1>7
  <2> QED
    BY <1>1, <1>2, <1>6, <1>7, <2>1 DEF EndInv, AtRest, AllFlushers
<1>13. LogInAcceptanceOrder'
  <2>1. CASE f = Destructor
    <3>1. file' \in Seq(Lines) /\ file \o lines \in Seq(Lines) /\ file \in Seq(Lines)
      BY <1>3, <1>4, ConcatProperties DEF StreamOK
    <3>2. /\ file \o batch \o fbatch[Destructor] \o queue = file \o lines
          /\ file' \o batch \o fbatch'[Destructor] \o queue = file'
      BY <1>6, <1>7, <2>1, <3>1, ConcatEmptySeq
    <3> QED
      BY <1>1, <1>2, <1>4, <3>2 DEF LogInAcceptanceOrder
  <2>2. CASE f # Destructor
    BY <1>1, <1>6, <2>2 DEF LogInAcceptanceOrder
  <2> QED
    BY <2>1, <2>2
<1> QED
  BY <1>8, <1>9, <1>10, <1>11, <1>12, <1>13 DEF LogInv

(* The flush of the stream may fail and leave it bad.                      *)
LEMMA FlushSyncStep ==
    ASSUME LogInv, NEW f \in AllFlushers, FlushSync(f)
    PROVE  LogInv'
<1>1. /\ fpc[f] = "sync" /\ fpc' = [fpc EXCEPT ![f] = "returned"]
      /\ \/ good /\ synced' = Len(file) /\ good' = good
         \/ good' = FALSE /\ synced' = synced
      /\ UNCHANGED <<async, counter, dropped, accepted, pending, queue, stopping, file, lost,
                     writer, batch, fbatch, flushes>>
  BY DEF FlushSync, callVars, writeVars
<1>2. TypeOK /\ NumberInv /\ CountInv /\ PlaceInv /\ EndInv /\ LogInAcceptanceOrder
  BY DEF LogInv
<1>3. /\ f # Destructor => fpc[Destructor] = "idle"
      /\ fpc' \in [AllFlushers -> {"idle", "join", "take", "write", "sync", "returned"}]
      /\ fpc'[f] = "returned" /\ \A g \in AllFlushers \ {f} : fpc'[g] = fpc[g]
      /\ Destructor \in AllFlushers
  BY <1>1, <1>2, FlusherPlace DEF TypeOK, AllFlushers
<1>4. /\ file \in Seq(Lines) /\ batch \in Seq(Lines) /\ queue \in Seq(Lines)
      /\ fbatch[Destructor] \in Seq(Lines) /\ Len(file) \in Nat
      /\ good \in BOOLEAN /\ synced \in 0 .. Len(file)
  BY <1>2, <1>3, LenProperties DEF TypeOK
<1>5. good' \in BOOLEAN /\ synced' \in 0 .. Len(file') /\ (good' => good)
  <2>1. good' \in BOOLEAN /\ (good' => good)
    BY <1>1, <1>4
  <2>2. synced' \in {synced, Len(file)} /\ file' = file
    BY <1>1
  <2> QED
    BY <1>4, <2>1, <2>2
<1>6. TypeOK'
  BY <1>1, <1>2, <1>3, <1>5 DEF TypeOK
<1>7. NumberInv'
  BY <1>1, <1>2 DEF NumberInv
<1>8. CountInv'
  BY <1>1, <1>2 DEF CountInv, SampledCalls, Sampled, Underway
<1>9. PlaceInv'
  BY <1>1, <1>2, <1>5 DEF PlaceInv, Accounted, InOnePlace
<1>10. EndInv'
  <2>1. fpc'[Destructor] = IF f = Destructor THEN "returned" ELSE fpc[Destructor]
    BY <1>3
  <2>2. fpc'[Destructor] = "returned" /\ good' => synced' = Len(file')
    BY <1>1, <1>2, <1>3, <2>1 DEF EndInv
  <2>3. AtRest => AtRest'
    BY <1>1, <1>3 DEF AtRest, AllFlushers
  <2>4. flushes = 0 => \A g \in Flushers : fpc'[g] = "idle"
    BY <1>1, <1>2, <1>3 DEF EndInv, AllFlushers
  <2>5. ~async => \A g \in AllFlushers : fpc'[g] \notin {"take", "write"}
    BY <1>2, <1>3 DEF EndInv
  <2> QED
    BY <1>1, <1>2, <1>3, <2>1, <2>2, <2>3, <2>4, <2>5 DEF EndInv
<1>11. LogInAcceptanceOrder'
  <2>1. IsPrefix(file, file \o batch \o fbatch[Destructor] \o queue)
    <3>1. IsPrefix(file, file)
      BY <1>4 DEF IsPrefix
    <3>2. file \o batch \in Seq(Lines) /\ IsPrefix(file, file \o batch)
      BY <1>4, <3>1, PrefixGrows, ConcatProperties
    <3>3. /\ file \o batch \o fbatch[Destructor] \in Seq(Lines)
          /\ IsPrefix(file, file \o batch \o fbatch[Destructor])
      BY <1>4, <3>2, PrefixGrows, ConcatProperties
    <3> QED
      BY <1>4, <3>3, PrefixGrows
  <2>2. CASE good'
    BY <1>1, <1>2, <1>5, <2>2 DEF LogInAcceptanceOrder
  <2>3. CASE ~good'
    BY <1>1, <1>2, <2>1, <2>3 DEF LogInAcceptanceOrder
  <2> QED
    BY <2>2, <2>3
<1> QED
  BY <1>6, <1>7, <1>8, <1>9, <1>10, <1>11 DEF LogInv

-----------------------------------------------------------------------------
(* ~Logger begins when its users are done, and waits for the writer.       *)
LEMMA DestroyStep ==
    ASSUME LogInv, DestroyBegin \/ DestroyJoin
    PROVE  LogInv'
<1>1. /\ UNCHANGED <<async, counter, dropped, accepted, pending, queue, file, synced, good, lost,
                     writer, batch, fbatch, flushes>>
      /\ stopping' \in {stopping, async}
      /\ fpc[Destructor] \in {"idle", "join"}
      /\ fpc[Destructor] = "idle" => AtRest
      /\ \/ fpc' = [fpc EXCEPT ![Destructor] = "join"]
         \/ /\ fpc' = [fpc EXCEPT ![Destructor] = IF async THEN "take" ELSE "sync"]
            /\ writer = "done"
  BY DEF DestroyBegin, DestroyJoin, callVars, fileVars, writeVars
<1>2. TypeOK /\ NumberInv /\ CountInv /\ PlaceInv /\ EndInv /\ LogInAcceptanceOrder
  BY DEF LogInv
<1>3. async \in BOOLEAN /\ AtRest
  BY <1>1, <1>2, LogAssumption DEF TypeOK, EndInv
<1>4. /\ fpc' \in [AllFlushers -> {"idle", "join", "take", "write", "sync", "returned"}]
      /\ \/ fpc'[Destructor] = "join"
         \/ fpc'[Destructor] = (IF async THEN "take" ELSE "sync") /\ writer = "done"
      /\ \A g \in Flushers : fpc'[g] = fpc[g]
      /\ AllFlushers = Flushers \cup {Destructor}
  BY <1>1, <1>2, <1>3, LogAssumption DEF TypeOK, AllFlushers
<1>5. fbatch[Destructor] = <<>>
  BY <1>1, <1>2 DEF TypeOK, AllFlushers
<1>6. TypeOK'
  <2>1. \A f \in AllFlushers : fpc'[f] # "write" => fbatch[f] = <<>>
    BY <1>2, <1>4, <1>5 DEF TypeOK
  <2>2. stopping' \in BOOLEAN
    BY <1>1, <1>2, <1>3 DEF TypeOK
  <2> QED
    BY <1>1, <1>2, <1>4, <2>1, <2>2 DEF TypeOK
<1>7. NumberInv'
  BY <1>1, <1>2 DEF NumberInv
<1>8. CountInv'
  BY <1>1, <1>2 DEF CountInv, SampledCalls, Sampled, Underway
<1>9. PlaceInv'
  BY <1>1, <1>2 DEF PlaceInv, Accounted, InOnePlace
<1>10. EndInv'
  <2>1. AtRest'
    BY <1>1, <1>3, <1>4 DEF AtRest
  <2>2. ~async => \A f \in AllFlushers : fpc'[f] \notin {"take", "write"}
    BY <1>2, <1>4 DEF EndInv
  <2>3. flushes = 0 => \A f \in Flushers : fpc'[f] = "idle"
    BY <1>2, <1>4 DEF EndInv
  <2>4. fpc'[Destructor] \in {"join", "take", "sync"}
    BY <1>4
  <2>5. fpc'[Destructor] = "sync" => ~async
    BY <1>3, <1>4
  <2> QED
    BY <1>1, <1>2, <1>4, <2>1, <2>2, <2>3, <2>4, <2>5 DEF EndInv
<1>11. LogInAcceptanceOrder'
  BY <1>1, <1>2 DEF LogInAcceptanceOrder
<1> QED
  BY <1>6, <1>7, <1>8, <1>9, <1>10, <1>11 DEF LogInv

LEMMA InvStep == LogInv /\ [Next]_vars => LogInv'
<1> SUFFICES ASSUME LogInv, [Next]_vars PROVE LogInv'
  OBVIOUS
<1>1. ASSUME NEW c \in Callers, CountCall(c) \/ Access(c) PROVE LogInv'
  BY <1>1, CountCallStep, WriteLineStep, EnqueueStep, DropStep DEF Access
<1>2. ASSUME Writer PROVE LogInv'
  BY <1>2, WriterTakeStep, WriterWriteStep DEF Writer
<1>3. ASSUME NEW f \in AllFlushers, Flush(f) PROVE LogInv'
  BY <1>3, FlushTakeStep, FlushWriteStep, FlushSyncStep DEF Flush
<1>4. CASE UNCHANGED vars
  <2>1. UNCHANGED <<async, counter, dropped, accepted, pending, queue, stopping, file, synced,
                    good, lost, writer, batch, fpc, fbatch, flushes>>
    BY <1>4 DEF vars, callVars, fileVars, writeVars, flushVars
  <2>2. TypeOK' /\ NumberInv' /\ CountInv' /\ PlaceInv'
    BY <2>1 DEF LogInv, TypeOK, NumberInv, CountInv, SampledCalls, Sampled, Underway,
                PlaceInv, Accounted, InOnePlace
  <2>3. EndInv' /\ LogInAcceptanceOrder'
    BY <2>1 DEF LogInv, EndInv, AtRest, LogInAcceptanceOrder
  <2> QED
    BY <2>2, <2>3 DEF LogInv
<1> QED
  BY <1>1, <1>2, <1>3, <1>4, FlushBeginStep, DestroyStep DEF Next

(* Where every line of the access log is, in which order, and how it ends. *)
THEOREM LogInvHolds == Spec => []LogInv
BY InvInit, InvStep, PTL DEF Spec

-----------------------------------------------------------------------------
(* Every sampled call of access() is handed over, dropped and counted, or  *)
(* still with its caller, and an accepted line is in one place: memory,    *)
(* the file, or lost to a bad stream.                                      *)
THEOREM LinesAccounted == Spec => []EveryLineAccountedFor
<1>1. LogInv => EveryLineAccountedFor
  BY DEF LogInv, CountInv, PlaceInv, EveryLineAccountedFor
<1> QED
  BY LogInvHolds, <1>1, PTL

(* Without a flush beside the writer, writeAccessBatch puts the lines in   *)
(* the file in the order of their acceptance, up to the first that failed. *)
THEOREM OrderKept == Spec => []LogInAcceptanceOrder
<1>1. LogInv => LogInAcceptanceOrder
  BY DEF LogInv
<1> QED
  BY LogInvHolds, <1>1, PTL

(* ~Logger joins the writer, takes what is left and flushes: when it       *)
(* returns and no write failed, as many lines are on disk as were          *)
(* accepted.                                                               *)
THEOREM NothingLeftBehind == Spec => []DestructorFlushes
<1>1. ASSUME LogInv, Destroyed, good
      PROVE  synced = Len(accepted) /\ queue = <<>> /\ batch = <<>>
  <2>1. /\ queue = <<>> /\ batch = <<>> /\ synced = Len(file) /\ lost = {}
        /\ \A f \in AllFlushers : fbatch[f] = <<>>
    BY <1>1 DEF LogInv, TypeOK, EndInv, AtRest, PlaceInv, Destroyed, AllFlushers
  <2>2. ToSet(<<>>) = {}
    BY DEF ToSet
  <2>3. ToSet(accepted) = ToSet(file)
    BY <1>1, <2>1, <2>2 DEF LogInv, PlaceInv, Accounted
  <2>4. /\ accepted \in Seq(Lines) /\ file \in Seq(Lines)
        /\ IsInjective(accepted) /\ IsInjective(file)
    BY <1>1 DEF LogInv, TypeOK, PlaceInv, InOnePlace
  <2>5. Len(accepted) = Len(file)
    BY <2>3, <2>4, SizeOfInjective
  <2> QED
    BY <2>1, <2>5
<1>2. LogInv => DestructorFlushes
  BY <1>1 DEF DestructorFlushes
<1> QED
  BY LogInvHolds, <1>2, PTL

-----------------------------------------------------------------------------
(* THE AUDIT LOG.  A line, by its number and its size.                     *)
AuditLine == [number : Nat \ {0}, size : Sizes]

AuditTypeOK ==
    /\ files \in [Names -> Seq(AuditLine) \cup {Absent}]
    /\ auditGood \in BOOLEAN
    /\ pc \in {"idle", "remove", "shift", "open", "write", "dead"}
    /\ index \in Names
    /\ line \in AuditLine \cup {NoAuditLine}
    /\ audited \in Seq(AuditLine)
    /\ kills \in Nat /\ failures \in Nat

(* Where audit() is, and what it can rely on there.                        *)
StepInv ==
    /\ pc \in {"remove", "shift", "open", "write"} =>
         line \in AuditLine /\ line.number = Len(audited) + 1
    /\ pc \in {"remove", "shift", "open"} => RotationOn
    /\ pc = "shift" => index # 0
    /\ auditGood => Present(0) /\ pc \notin {"shift", "open", "dead"}
    /\ failures = 0 =>
         /\ pc \in {"idle", "remove", "write"} => auditGood
         /\ pc = "shift" => Present(0) /\ ~Present(index)
         /\ pc = "open" => ~Present(0)

(* A line is in the place that its number says, and what is in a file was  *)
(* audited.                                                                *)
RecordInv ==
    /\ \A n \in DOMAIN audited : audited[n].number = n
    /\ \A i \in Names : Present(i) =>
         \A k \in DOMAIN files[i] :
            files[i][k].number <= Len(audited) /\ files[i][k] = audited[files[i][k].number]

SizeInv ==
    /\ \A i \in Names : Present(i) => IsFiniteSet(BytesIn(files[i]))
    /\ SizeBounded
    /\ failures = 0 /\ RotationOn /\ pc = "write" =>
         files[0] = <<>> \/ Bytes(files[0]) + line.size <= RotateBytes

(* The names without a file below n, except the one that a rotation has    *)
(* just vacated.                                                           *)
Holes(n) == {i \in 1 .. n : ~Present(i)} \ (IF pc = "shift" THEN {index} ELSE {})

(* Every hole behind which a file is left comes from a kill, and when a    *)
(* line was given up every hole does.                                      *)
HoleInv ==
    failures = 0 => \A n \in 1 .. Keep :
        Present(n) \/ (n = Keep /\ GivenUp) => Cardinality(Holes(n)) <= kills

AuditInv == AuditTypeOK /\ StepInv /\ RecordInv /\ RetainedInOrder /\ SizeInv /\ HoleInv

-----------------------------------------------------------------------------
LEMMA AFileIsThere == \A s \in Seq(AuditLine) : s # Absent
<1> SUFFICES ASSUME NEW s \in Seq(AuditLine) PROVE s \in Seq([number : Nat, size : Nat])
  BY AuditAssumption
<1>1. AuditLine \subseteq [number : Nat, size : Nat]
  BY AuditAssumption DEF AuditLine
<1> QED
  BY <1>1, SeqMonotonic

(* What the type says of the lines of a file.                              *)
LEMMA LinesOf ==
    ASSUME AuditTypeOK, NEW i \in Names, Present(i)
    PROVE  /\ files[i] \in Seq(AuditLine) /\ Len(files[i]) \in Nat
           /\ DOMAIN files[i] = 1 .. Len(files[i])
           /\ \A k \in DOMAIN files[i] :
                files[i][k] \in AuditLine /\ files[i][k].number \in Nat \ {0}
                /\ files[i][k].size \in Nat
<1>1. files[i] \in Seq(AuditLine)
  BY DEF AuditTypeOK, Present
<1>2. /\ Len(files[i]) \in Nat /\ DOMAIN files[i] = 1 .. Len(files[i])
      /\ \A k \in DOMAIN files[i] : files[i][k] \in AuditLine
  BY <1>1, LenProperties, ElementOfSeq
<1>3. \A l \in AuditLine : l.number \in Nat \ {0} /\ l.size \in Nat
  BY AuditAssumption DEF AuditLine
<1> QED
  BY <1>1, <1>2, <1>3

(* The files hold the same lines when one gets the name of the next older. *)
Moved(i) ==
    /\ i + 1 \in Names /\ Present(i) /\ ~Present(i + 1)
    /\ files' = [files EXCEPT ![i + 1] = files[i], ![i] = Absent]
    /\ audited' = audited

(* The name that a file has behind such a step.                            *)
NameBehind(i, j) == IF j = i THEN i + 1 ELSE j

LEMMA MovedFiles ==
    ASSUME AuditTypeOK, NEW i \in Names, Moved(i)
    PROVE  /\ files' \in [Names -> Seq(AuditLine) \cup {Absent}]
           /\ ~Present(i)' /\ Present(i + 1)'
           /\ \A j \in Names : j # i /\ j # i + 1 => (Present(j)' <=> Present(j))
           /\ \A j \in Names : Present(j)' =>
                \E h \in Names : Present(h) /\ j = NameBehind(i, h) /\ files'[j] = files[h]
           /\ \A h \in Names : Present(h) =>
                NameBehind(i, h) \in Names /\ Present(NameBehind(i, h))'
                /\ files'[NameBehind(i, h)] = files[h]
<1>1. i \in Int /\ i + 1 \in Names /\ i + 1 # i /\ Names \subseteq Int
  BY AuditAssumption DEF Moved, Names
<1>2. /\ files \in [Names -> Seq(AuditLine) \cup {Absent}] /\ files[i] # Absent
      /\ files[i + 1] = Absent
      /\ files' = [files EXCEPT ![i + 1] = files[i], ![i] = Absent]
  BY DEF Moved, AuditTypeOK, Present
<1>3. /\ files' \in [Names -> Seq(AuditLine) \cup {Absent}]
      /\ files'[i] = Absent /\ files'[i + 1] = files[i]
      /\ \A j \in Names : j # i /\ j # i + 1 => files'[j] = files[j]
  BY <1>1, <1>2
<1> QED
  BY <1>1, <1>2, <1>3 DEF Present, NameBehind

(* What a file holds, and so what is kept, does not depend on its name.    *)
LEMMA MoveKeeps ==
    ASSUME AuditTypeOK, RecordInv, InOrder, NEW i \in Names, Moved(i)
    PROVE  /\ RecordInv' /\ InOrder' /\ \A n : Kept(n)' <=> Kept(n)
           /\ NoGap => NoGap'
<1>1. /\ audited' = audited /\ i \in Nat /\ Names \subseteq Nat
      /\ \A j \in Names : Present(j)' =>
           \E h \in Names : Present(h) /\ j = NameBehind(i, h) /\ files'[j] = files[h]
      /\ \A h \in Names : Present(h) =>
           NameBehind(i, h) \in Names /\ Present(NameBehind(i, h))'
           /\ files'[NameBehind(i, h)] = files[h]
  <2>1. audited' = audited
    BY DEF Moved
  <2>2. i \in Nat /\ Names \subseteq Nat
    BY AuditAssumption DEF Names
  <2> QED
    BY <2>1, <2>2, MovedFiles
<1>2. RecordInv'
  <2>1. \A n \in DOMAIN audited' : audited'[n].number = n
    BY <1>1 DEF RecordInv
  <2>2. ASSUME NEW j \in Names, Present(j)', NEW k \in DOMAIN files'[j]
        PROVE  /\ files'[j][k].number <= Len(audited)
               /\ files'[j][k] = audited[files'[j][k].number]
    <3>1. PICK h \in Names : Present(h) /\ files'[j] = files[h]
      BY <1>1, <2>2
    <3> QED
      BY <2>2, <3>1 DEF RecordInv
  <2> QED
    BY <1>1, <2>1, <2>2 DEF RecordInv
<1>3. \A n : Kept(n)' <=> Kept(n)
  <2> SUFFICES ASSUME NEW n PROVE Kept(n)' <=> Kept(n)
    OBVIOUS
  <2>1. ASSUME Kept(n) PROVE Kept(n)'
    <3>1. PICK h \in Names : Present(h) /\ audited[n] \in {files[h][k] : k \in DOMAIN files[h]}
      BY <2>1 DEF Kept
    <3>2. /\ NameBehind(i, h) \in Names /\ Present(NameBehind(i, h))'
          /\ audited'[n] \in {files'[NameBehind(i, h)][k] : k \in DOMAIN files'[NameBehind(i, h)]}
      BY <1>1, <3>1
    <3> QED
      BY <3>2 DEF Kept
  <2>2. ASSUME Kept(n)' PROVE Kept(n)
    <3>1. PICK j \in Names : Present(j)' /\ audited[n] \in {files'[j][k] : k \in DOMAIN files'[j]}
      BY <1>1, <2>2 DEF Kept
    <3>2. PICK h \in Names : Present(h) /\ files'[j] = files[h]
      BY <1>1, <3>1
    <3>3. Present(h) /\ audited[n] \in {files[h][k] : k \in DOMAIN files[h]}
      BY <3>1, <3>2
    <3> QED
      BY <3>3 DEF Kept
  <2> QED
    BY <2>1, <2>2
<1>4. InOrder'
  <2> SUFFICES ASSUME NEW j \in Names, NEW g \in Names, Present(j)', Present(g)',
                      NEW k \in DOMAIN files'[j], NEW m \in DOMAIN files'[g],
                      Older(j, k, g, m)
               PROVE  files'[j][k].number < files'[g][m].number
    BY DEF InOrder, Older
  <2>1. PICK h \in Names : Present(h) /\ j = NameBehind(i, h) /\ files'[j] = files[h]
    BY <1>1
  <2>2. PICK f \in Names : Present(f) /\ g = NameBehind(i, f) /\ files'[g] = files[f]
    BY <1>1
  <2>3. ~Present(i + 1)
    BY DEF Moved
  <2>4. i \in Int /\ h \in Int /\ f \in Int /\ h # i + 1 /\ f # i + 1
    BY <1>1, <2>1, <2>2, <2>3
  <2>5. j > g => h > f
    BY <2>1, <2>2, <2>4 DEF NameBehind
  <2>6. j = g => h = f
    BY <2>1, <2>2, <2>4 DEF NameBehind
  <2>7. Older(h, k, f, m)
    BY <2>5, <2>6 DEF Older
  <2> QED
    BY <2>1, <2>2, <2>7 DEF InOrder
<1>5. NoGap => NoGap'
  <2> SUFFICES ASSUME NoGap, NEW j \in Names, Present(j)', NEW k \in DOMAIN files'[j],
                      NEW n \in files'[j][k].number .. Len(audited)
               PROVE  Kept(n)
    BY <1>1, <1>3 DEF NoGap
  <2>1. PICK h \in Names : Present(h) /\ files'[j] = files[h]
    BY <1>1
  <2> QED
    BY <2>1 DEF NoGap
<1> QED
  BY <1>2, <1>3, <1>4, <1>5

(* A file that is removed leaves the others as they are.                   *)
Removed(i) == files' = [files EXCEPT ![i] = Absent] /\ audited' = audited

LEMMA RemovedFiles ==
    ASSUME AuditTypeOK, NEW i \in Names, Removed(i)
    PROVE  /\ files' \in [Names -> Seq(AuditLine) \cup {Absent}] /\ ~Present(i)'
           /\ \A j \in Names \ {i} : files'[j] = files[j] /\ (Present(j)' <=> Present(j))
  BY DEF Removed, AuditTypeOK, Present

LEMMA RemoveKeeps ==
    ASSUME AuditTypeOK, RecordInv, InOrder, NEW i \in Names, Removed(i)
    PROVE  RecordInv' /\ InOrder'
<1>1. /\ audited' = audited /\ ~Present(i)'
      /\ \A j \in Names : Present(j)' => Present(j) /\ files'[j] = files[j]
  BY RemovedFiles DEF Removed
<1>2. RecordInv'
  BY <1>1 DEF RecordInv
<1>3. InOrder'
  BY <1>1 DEF InOrder, Older
<1> QED
  BY <1>2, <1>3

(* Nothing is missing behind the lines that are left when it is the oldest *)
(* file that is removed.                                                   *)
LEMMA RemoveOldestLeavesNoGap ==
    ASSUME AuditTypeOK, RecordInv, InOrder, NoGap, Keep # 0, Removed(Keep)
    PROVE  NoGap'
<1>1. Keep \in Names /\ \A j \in Names : j # Keep => Keep > j
  BY AuditAssumption DEF Names
<1>2. /\ audited' = audited /\ ~Present(Keep)'
      /\ \A j \in Names \ {Keep} : files'[j] = files[j] /\ (Present(j)' <=> Present(j))
  BY <1>1, RemovedFiles DEF Removed
<1> SUFFICES ASSUME NEW j \in Names, Present(j)', NEW k \in DOMAIN files'[j],
                    NEW n \in files'[j][k].number .. Len(audited)
             PROVE  Kept(n)'
  BY <1>2 DEF NoGap
<1>3. /\ j # Keep /\ Present(j) /\ files'[j] = files[j] /\ k \in DOMAIN files[j]
      /\ n \in files[j][k].number .. Len(audited)
  BY <1>2
<1>4. PICK h \in Names : Present(h) /\ audited[n] \in {files[h][m] : m \in DOMAIN files[h]}
  BY <1>3 DEF NoGap, Kept
<1>5. PICK m \in DOMAIN files[h] : audited[n] = files[h][m]
  BY <1>4
<1>6. /\ files[j][k].number \in Nat \ {0} /\ files[j][k].number <= Len(audited)
      /\ Len(audited) \in Nat
  BY <1>3, LinesOf, LenProperties DEF RecordInv, AuditTypeOK
<1>7. n \in DOMAIN audited /\ audited[n].number = n /\ n >= files[j][k].number
  BY <1>3, <1>6, LenProperties DEF RecordInv, AuditTypeOK
<1>8. h # Keep
  <2> SUFFICES ASSUME h = Keep PROVE FALSE
    OBVIOUS
  <2>1. Older(h, m, j, k)
    BY <1>1, <1>3 DEF Older
  <2>2. files[h][m].number < files[j][k].number
    BY <1>3, <1>4, <2>1 DEF InOrder
  <2> QED
    BY <1>5, <1>6, <1>7, <2>2
<1> QED
  BY <1>2, <1>4, <1>8 DEF Kept

(* Nothing is written, and what is opened anew is empty.                   *)
SameLines ==
    /\ audited' = audited
    /\ \A j \in Names : Present(j)' => files'[j] = <<>> \/ (Present(j) /\ files'[j] = files[j])
    /\ \A j \in Names : Present(j) => Present(j)' /\ files'[j] = files[j]

LEMMA SameLinesKeep ==
    ASSUME AuditTypeOK, RecordInv, InOrder, SameLines
    PROVE  /\ RecordInv' /\ InOrder' /\ \A n : Kept(n)' <=> Kept(n)
           /\ NoGap => NoGap'
<1>1. \A j \in Names : \A k : Present(j)' /\ k \in DOMAIN files'[j] =>
        Present(j) /\ files'[j] = files[j] /\ k \in DOMAIN files[j]
  BY DEF SameLines
<1>2. RecordInv'
  BY <1>1 DEF RecordInv, SameLines
<1>3. InOrder'
  BY <1>1 DEF InOrder, SameLines, Older
<1>4. \A n : Kept(n)' <=> Kept(n)
  <2> SUFFICES ASSUME NEW n PROVE Kept(n)' <=> Kept(n)
    OBVIOUS
  <2>1. ASSUME Kept(n) PROVE Kept(n)'
    BY <2>1 DEF Kept, SameLines
  <2>2. ASSUME Kept(n)' PROVE Kept(n)
    <3>1. PICK j \in Names : Present(j)' /\ audited[n] \in {files'[j][k] : k \in DOMAIN files'[j]}
      BY <2>2 DEF Kept, SameLines
    <3>2. PICK k \in DOMAIN files'[j] : audited[n] = files'[j][k]
      BY <3>1
    <3>3. Present(j) /\ audited[n] \in {files[j][m] : m \in DOMAIN files[j]}
      BY <1>1, <3>1, <3>2
    <3> QED
      BY <3>3 DEF Kept
  <2> QED
    BY <2>1, <2>2
<1>5. NoGap => NoGap'
  <2> SUFFICES ASSUME NoGap, NEW j \in Names, Present(j)', NEW k \in DOMAIN files'[j],
                      NEW n \in files'[j][k].number .. Len(audited)
               PROVE  Kept(n)
    BY <1>4 DEF NoGap, SameLines
  <2> QED
    BY <1>1 DEF NoGap
<1> QED
  BY <1>2, <1>3, <1>4, <1>5

LEMMA OpenedSameLines ==
    ASSUME AuditTypeOK, files' = Opened, audited' = audited
    PROVE  /\ SameLines /\ files' \in [Names -> Seq(AuditLine) \cup {Absent}]
           /\ Present(0)' /\ (~Present(0) => files'[0] = <<>>)
           /\ \A j \in Names \ {0} : files'[j] = files[j]
<1>1. 0 \in Names /\ <<>> \in Seq(AuditLine) /\ <<>> # Absent
  <2>1. 0 \in Names
    BY AuditAssumption DEF Names
  <2>2. <<>> \in Seq(AuditLine)
    BY EmptySeq
  <2> QED
    BY <2>1, <2>2, AFileIsThere
<1>2. /\ files \in [Names -> Seq(AuditLine) \cup {Absent}]
      /\ files' = [files EXCEPT ![0] = IF files[0] = Absent THEN <<>> ELSE files[0]]
  BY DEF AuditTypeOK, Opened
<1>3. /\ files' \in [Names -> Seq(AuditLine) \cup {Absent}]
      /\ files'[0] = IF files[0] = Absent THEN <<>> ELSE files[0]
      /\ \A j \in Names \ {0} : files'[j] = files[j]
  BY <1>1, <1>2
<1> QED
  BY <1>1, <1>3 DEF SameLines, Present

(* The line that is written is the newest and goes behind the newest.      *)
Written ==
    /\ line \in AuditLine /\ line.number = Len(audited) + 1 /\ Present(0)
    /\ files' = [files EXCEPT ![0] = Append(files[0], line)]
    /\ audited' = Append(audited, line)

LEMMA WrittenFiles ==
    ASSUME AuditTypeOK, Written
    PROVE  /\ files' \in [Names -> Seq(AuditLine) \cup {Absent}]
           /\ audited' \in Seq(AuditLine) /\ Len(audited') = Len(audited) + 1
           /\ \A n \in DOMAIN audited : audited'[n] = audited[n]
           /\ audited'[Len(audited) + 1] = line
           /\ 0 \in Names
           /\ files[0] \in Seq(AuditLine) /\ files'[0] = Append(files[0], line)
           /\ DOMAIN files'[0] = DOMAIN files[0] \cup {Len(files[0]) + 1}
           /\ \A k \in DOMAIN files[0] : files'[0][k] = files[0][k]
           /\ files'[0][Len(files[0]) + 1] = line
           /\ \A j \in Names \ {0} : files'[j] = files[j]
           /\ \A j \in Names : Present(j)' <=> Present(j)
<1>1. 0 \in Names /\ files[0] \in Seq(AuditLine) /\ audited \in Seq(AuditLine) /\ line \in AuditLine
  BY AuditAssumption, LinesOf DEF Names, Written, AuditTypeOK
<1> DEFINE u == Append(files[0], line)
<1>2. /\ u \in Seq(AuditLine) /\ Len(u) = Len(files[0]) + 1 /\ Len(files[0]) \in Nat
      /\ DOMAIN u = 1 .. Len(u) /\ DOMAIN files[0] = 1 .. Len(files[0])
      /\ \A k \in 1 .. Len(files[0]) : u[k] = files[0][k]
      /\ u[Len(files[0]) + 1] = line
  BY <1>1, AppendProperties, LenProperties
<1>3. /\ audited' \in Seq(AuditLine) /\ Len(audited') = Len(audited) + 1
      /\ \A n \in DOMAIN audited : audited'[n] = audited[n]
      /\ audited'[Len(audited) + 1] = line
  BY <1>1, AppendProperties, LenProperties DEF Written
<1>4. /\ files' \in [Names -> Seq(AuditLine) \cup {Absent}] /\ files'[0] = u
      /\ \A j \in Names \ {0} : files'[j] = files[j]
  BY <1>1, <1>2 DEF AuditTypeOK, Written
<1>5. DOMAIN u = DOMAIN files[0] \cup {Len(files[0]) + 1}
  BY <1>2
<1>6. u # Absent
  BY <1>2, AFileIsThere
<1>7. \A j \in Names : Present(j)' <=> Present(j)
  BY <1>4, <1>6 DEF Present, Written
<1> QED
  BY <1>1, <1>2, <1>3, <1>4, <1>5, <1>7

LEMMA WriteKeeps ==
    ASSUME AuditTypeOK, RecordInv, InOrder, Written
    PROVE  /\ RecordInv' /\ InOrder'
           /\ \A n \in DOMAIN audited : Kept(n) => Kept(n)'
           /\ \A n : n = Len(audited) + 1 => Kept(n)'
           /\ NoGap => NoGap'
<1> DEFINE new == Len(audited) + 1
           last == Len(files[0]) + 1
<1>1. /\ Len(audited') = new /\ Len(audited) \in Nat /\ line.number = new
      /\ DOMAIN audited = 1 .. Len(audited) /\ DOMAIN audited' = 1 .. new
      /\ \A n \in DOMAIN audited : audited'[n] = audited[n]
      /\ audited'[new] = line
  BY WrittenFiles, LenProperties DEF AuditTypeOK, Written
<1>2. /\ 0 \in Names /\ Present(0) /\ Len(files[0]) \in Nat
      /\ DOMAIN files'[0] = DOMAIN files[0] \cup {last}
      /\ DOMAIN files[0] = 1 .. Len(files[0])
      /\ \A k \in DOMAIN files[0] : files'[0][k] = files[0][k]
      /\ files'[0][last] = line
      /\ \A j \in Names \ {0} : files'[j] = files[j]
      /\ \A j \in Names : Present(j)' <=> Present(j)
  BY WrittenFiles, LenProperties DEF Written
<1>3. \A j \in Names : \A k : Present(j)' /\ k \in DOMAIN files'[j] =>
        \/ Present(j) /\ k \in DOMAIN files[j] /\ files'[j][k] = files[j][k]
        \/ j = 0 /\ k = last /\ files'[j][k] = line
  BY <1>2
<1>4. \A j \in Names : Present(j) => \A k \in DOMAIN files[j] :
        Present(j)' /\ k \in DOMAIN files'[j] /\ files'[j][k] = files[j][k]
  BY <1>2
<1>5. \A j \in Names : Present(j) => \A k \in DOMAIN files[j] :
        files[j][k].number \in DOMAIN audited
  BY <1>1, LinesOf DEF RecordInv
<1> HIDE DEF new, last
<1>6. RecordInv'
  <2>1. \A n \in DOMAIN audited' : audited'[n].number = n
    BY <1>1 DEF RecordInv, new
  <2>2. \A j \in Names : Present(j)' => \A k \in DOMAIN files'[j] :
          files'[j][k].number <= Len(audited') /\ files'[j][k] = audited'[files'[j][k].number]
    BY <1>1, <1>3, <1>5 DEF RecordInv, new
  <2> QED
    BY <2>1, <2>2 DEF RecordInv
<1>7. InOrder'
  <2> SUFFICES ASSUME NEW j \in Names, NEW g \in Names, Present(j)', Present(g)',
                      NEW k \in DOMAIN files'[j], NEW m \in DOMAIN files'[g],
                      Older(j, k, g, m)
               PROVE  files'[j][k].number < files'[g][m].number
    BY DEF InOrder, Older
  <2>1. CASE j = 0 /\ k = last
    BY <1>2, <2>1, AuditAssumption DEF Older, Names, last
  <2>2. CASE g = 0 /\ m = last /\ ~(j = 0 /\ k = last)
    <3>1. files'[g][m].number = new
      BY <1>1, <1>2, <2>2
    <3>2. files'[j][k].number \in DOMAIN audited
      BY <1>3, <1>5, <2>2
    <3> QED
      BY <1>1, <3>1, <3>2 DEF new
  <2>3. CASE ~(g = 0 /\ m = last) /\ ~(j = 0 /\ k = last)
    <3>1. /\ Present(j) /\ k \in DOMAIN files[j] /\ files'[j][k] = files[j][k]
          /\ Present(g) /\ m \in DOMAIN files[g] /\ files'[g][m] = files[g][m]
      BY <1>3, <2>3
    <3> QED
      BY <3>1 DEF InOrder
  <2> QED
    BY <2>1, <2>2, <2>3
<1>8. \A n \in DOMAIN audited : Kept(n) => Kept(n)'
  <2> SUFFICES ASSUME NEW n \in DOMAIN audited, Kept(n) PROVE Kept(n)'
    OBVIOUS
  <2>1. PICK h \in Names : Present(h) /\ audited[n] \in {files[h][k] : k \in DOMAIN files[h]}
    BY DEF Kept
  <2>2. PICK k \in DOMAIN files[h] : audited[n] = files[h][k]
    BY <2>1
  <2>3. Present(h)' /\ k \in DOMAIN files'[h] /\ audited'[n] = files'[h][k]
    BY <1>1, <1>4, <2>1, <2>2
  <2> QED
    BY <2>3 DEF Kept
<1>9. \A n : n = new => Kept(n)'
  <2> SUFFICES ASSUME NEW n, n = new PROVE Kept(n)'
    OBVIOUS
  <2>1. Present(0)' /\ last \in DOMAIN files'[0] /\ audited'[n] = files'[0][last]
    BY <1>1, <1>2
  <2> QED
    BY <1>2, <2>1 DEF Kept
<1>10. NoGap => NoGap'
  <2> SUFFICES ASSUME NoGap, NEW j \in Names, Present(j)', NEW k \in DOMAIN files'[j],
                      NEW n \in files'[j][k].number .. Len(audited')
               PROVE  Kept(n)'
    BY DEF NoGap
  <2>1. CASE n = new
    BY <1>9, <2>1
  <2>2. CASE n # new
    <3>1. Present(j) /\ k \in DOMAIN files[j] /\ files'[j][k] = files[j][k]
      BY <1>1, <1>3, <2>2
    <3>2. files[j][k].number \in DOMAIN audited
      BY <1>5, <3>1
    <3>3. n \in files[j][k].number .. Len(audited) /\ n \in DOMAIN audited
      BY <1>1, <2>2, <3>1, <3>2 DEF new
    <3> QED
      BY <1>8, <3>1, <3>3 DEF NoGap
  <2> QED
    BY <2>1, <2>2
<1> QED
  BY <1>6, <1>7, <1>8, <1>9, <1>10 DEF new

-----------------------------------------------------------------------------
(* The size of a file that a line is put at the end of.                    *)
LEMMA BytesOfAppend ==
    ASSUME NEW s \in Seq(AuditLine), NEW l \in AuditLine, IsFiniteSet(BytesIn(s))
    PROVE  /\ IsFiniteSet(BytesIn(Append(s, l))) /\ Bytes(s) \in Nat
           /\ Bytes(Append(s, l)) = Bytes(s) + l.size
<1> DEFINE last == Len(s) + 1
           tail == {last} \X (1 .. l.size)
           u == Append(s, l)
<1>1. /\ DOMAIN s = 1 .. Len(s) /\ Len(s) \in Nat /\ l.size \in Nat
      /\ DOMAIN u = DOMAIN s \cup {last} /\ u[last] = l
      /\ \A k \in DOMAIN s : u[k] = s[k]
  <2>1. l.size \in Nat
    BY AuditAssumption DEF AuditLine
  <2>2. DOMAIN s = 1 .. Len(s) /\ Len(s) \in Nat /\ DOMAIN u = 1 .. Len(u)
    BY LenProperties, AppendProperties
  <2>3. Len(u) = Len(s) + 1 /\ u[last] = l /\ \A k \in 1 .. Len(s) : u[k] = s[k]
    BY AppendProperties
  <2> QED
    BY <2>1, <2>2, <2>3
<1> HIDE DEF u
<1>2. BytesIn(u) = BytesIn(s) \cup tail
  BY <1>1 DEF BytesIn
<1>3. BytesIn(s) \cap tail = {}
  BY <1>1 DEF BytesIn
<1>4. IsFiniteSet(tail) /\ Cardinality(tail) = l.size
  <2>1. IsFiniteSet(1 .. l.size) /\ Cardinality(1 .. l.size) = l.size
    <3>1. 1 \in Int /\ l.size \in Int
      BY <1>1
    <3>2. IsFiniteSet(1 .. l.size)
          /\ Cardinality(1 .. l.size) = IF 1 > l.size THEN 0 ELSE l.size - 1 + 1
      BY <3>1, FS_Interval
    <3> QED
      BY <1>1, <3>2
  <2>2. IsFiniteSet({last}) /\ Cardinality({last}) = 1
    BY FS_Singleton
  <2>3. IsFiniteSet(tail) /\ Cardinality(tail) = Cardinality({last}) * Cardinality(1 .. l.size)
    BY <2>1, <2>2, FS_Product
  <2> QED
    BY <1>1, <2>1, <2>2, <2>3
<1>5. Cardinality(BytesIn(s)) \in Nat
  BY FS_CardinalityType
<1>6. /\ IsFiniteSet(BytesIn(s) \cup tail)
      /\ Cardinality(BytesIn(s) \cup tail) =
           Cardinality(BytesIn(s)) + Cardinality(tail) - Cardinality(BytesIn(s) \cap tail)
  BY <1>4, FS_Union
<1>7. Cardinality(BytesIn(s) \cap tail) = 0
  BY <1>3, FS_EmptySet
<1> QED
  BY <1>1, <1>2, <1>4, <1>5, <1>6, <1>7 DEF Bytes, u

LEMMA EmptyFile ==
    IsFiniteSet(BytesIn(<<>>)) /\ Len(<<>>) = 0
<1>1. BytesIn(<<>>) = {}
  BY DEF BytesIn
<1> QED
  BY <1>1, FS_EmptySet, EmptySeq

(* The limits of the files, when no file is other than one was before or   *)
(* empty.                                                                  *)
LEMMA SameSizes ==
    ASSUME SizeInv, failures' = 0 => failures = 0,
           \A j \in Names : Present(j)' =>
               files'[j] = <<>> \/ \E h \in Names : Present(h) /\ files'[j] = files[h]
    PROVE  /\ SizeBounded' /\ \A j \in Names : Present(j)' => IsFiniteSet(BytesIn(files'[j]))
<1>1. \A j \in Names : Present(j)' => IsFiniteSet(BytesIn(files'[j]))
  BY EmptyFile DEF SizeInv
<1>2. SizeBounded'
  <2> SUFFICES ASSUME failures' = 0, RotationOn, NEW j \in Names, Present(j)'
               PROVE  Len(files'[j]) <= 1 \/ Bytes(files'[j]) <= RotateBytes
    BY DEF SizeBounded, RotationOn
  <2>1. CASE files'[j] = <<>>
    BY <2>1, EmptyFile
  <2>2. CASE \E h \in Names : Present(h) /\ files'[j] = files[h]
    BY <2>2 DEF SizeInv, SizeBounded
  <2> QED
    BY <2>1, <2>2
<1> QED
  BY <1>1, <1>2

-----------------------------------------------------------------------------
LEMMA HolesFinite ==
    ASSUME NEW n \in 1 .. Keep
    PROVE  /\ IsFiniteSet(Holes(n)) /\ Cardinality(Holes(n)) \in Nat
           /\ IsFiniteSet(Holes(n)') /\ Cardinality(Holes(n)') \in Nat
<1>1. IsFiniteSet(1 .. n)
  BY FS_Interval
<1>2. Holes(n) \in SUBSET (1 .. n) /\ Holes(n)' \in SUBSET (1 .. n)
  BY DEF Holes
<1>3. IsFiniteSet(Holes(n)) /\ IsFiniteSet(Holes(n)')
  BY <1>1, <1>2, FS_Subset
<1> QED
  BY <1>3, FS_CardinalityType

(* No hole is added.                                                       *)
LEMMA HolesNotMore ==
    ASSUME HoleInv, kills \in Nat, kills' = kills, failures' = 0 => failures = 0,
           GivenUp' => GivenUp \/ Present(Keep),
           failures' = 0 => \A n \in 1 .. Keep :
               /\ Present(n)' => Present(n)
               /\ Present(n) \/ (n = Keep /\ GivenUp) => Holes(n)' \subseteq Holes(n)
    PROVE  HoleInv'
<1> SUFFICES ASSUME failures' = 0, NEW n \in 1 .. Keep, Present(n)' \/ (n = Keep /\ GivenUp')
             PROVE  Cardinality(Holes(n)') <= kills
  BY DEF HoleInv
<1>1. Present(n) \/ (n = Keep /\ GivenUp)
  OBVIOUS
<1>2. Holes(n)' \subseteq Holes(n) /\ Cardinality(Holes(n)) <= kills
  BY <1>1 DEF HoleInv
<1>3. Cardinality(Holes(n)') <= Cardinality(Holes(n))
  BY <1>2, HolesFinite, FS_Subset
<1> QED
  BY <1>2, <1>3, HolesFinite

-----------------------------------------------------------------------------
LEMMA AuditInvInit == AuditInit => AuditInv
<1> SUFFICES ASSUME AuditInit PROVE AuditInv
  OBVIOUS
<1>1. /\ 0 \in Names /\ <<>> \in Seq(AuditLine) /\ <<>> # Absent
      /\ Len(<<>>) = 0 /\ DOMAIN <<>> = {} /\ IsFiniteSet(BytesIn(<<>>))
  <2>1. 0 \in Names
    BY AuditAssumption DEF Names
  <2>2. <<>> \in Seq(AuditLine)
    BY EmptySeq
  <2>3. DOMAIN <<>> = {}
    OBVIOUS
  <2> QED
    BY <2>1, <2>2, <2>3, AFileIsThere, EmptyFile
<1>2. /\ files[0] = <<>> /\ Present(0) /\ \A i \in Names : Present(i) => i = 0
      /\ files \in [Names -> Seq(AuditLine) \cup {Absent}]
  BY <1>1 DEF AuditInit, Present
<1>3. /\ auditGood = TRUE /\ pc = "idle" /\ index = 0 /\ line = NoAuditLine
      /\ audited = <<>> /\ kills = 0 /\ failures = 0
  BY DEF AuditInit
<1>4. AuditTypeOK /\ StepInv
  BY <1>1, <1>2, <1>3 DEF AuditTypeOK, StepInv
<1>5. RecordInv
  BY <1>1, <1>2, <1>3 DEF RecordInv
<1>6. RetainedInOrder
  BY <1>1, <1>2, <1>3 DEF RetainedInOrder, InOrder, NoGap, Older
<1>7. SizeInv
  BY <1>1, <1>2, <1>3 DEF SizeInv, SizeBounded
<1>8. HoleInv
  <2>1. ~GivenUp
    BY <1>1, <1>3 DEF GivenUp
  <2>2. \A n \in 1 .. Keep : n \in Names /\ n # 0
    BY AuditAssumption DEF Names
  <2> QED
    BY <1>2, <2>1, <2>2 DEF HoleInv
<1> QED
  BY <1>4, <1>5, <1>6, <1>7, <1>8 DEF AuditInv

(* What a step that writes nothing and gives nothing another name leaves.  *)
LEMMA SameLinesStep ==
    ASSUME AuditInv, SameLines, failures' = 0 => failures = 0
    PROVE  /\ RecordInv' /\ RetainedInOrder' /\ SizeBounded' /\ (GivenUp' => GivenUp)
           /\ \A j \in Names : Present(j)' => IsFiniteSet(BytesIn(files'[j]))
<1>1. RecordInv' /\ InOrder' /\ (\A n : Kept(n)' <=> Kept(n)) /\ (NoGap => NoGap')
  BY SameLinesKeep DEF AuditInv, RetainedInOrder
<1>2. \A j \in Names : Present(j)' =>
        files'[j] = <<>> \/ \E h \in Names : Present(h) /\ files'[j] = files[h]
  BY DEF SameLines
<1>3. /\ SizeBounded' /\ \A j \in Names : Present(j)' => IsFiniteSet(BytesIn(files'[j]))
  BY <1>2, SameSizes DEF AuditInv
<1>4. GivenUp' => GivenUp
  BY <1>1 DEF GivenUp, SameLines
<1>5. RetainedInOrder'
  BY <1>1 DEF AuditInv, RetainedInOrder
<1> QED
  BY <1>1, <1>3, <1>4, <1>5

LEMMA AuditStep ==
    ASSUME AuditInv, NEW size \in Sizes, Audit(size)
    PROVE  AuditInv'
<1> DEFINE l == [number |-> Len(audited) + 1, size |-> size]
<1>1. /\ pc = "idle" /\ line' = l /\ pc' \in {"remove", "write"}
      /\ (pc' = "remove" => RotationOn)
      /\ UNCHANGED <<files, auditGood, index, audited, kills>>
      /\ \/ pc' = (IF RotationDue(l) THEN "remove" ELSE "write") /\ failures' = failures
         \/ failures' = failures + 1
  BY DEF Audit, RotationDue
<1>a. /\ failures \in Nat /\ failures' \in Nat /\ (failures' = 0 => failures = 0)
      /\ (failures' = 0 => pc' = (IF RotationDue(l) THEN "remove" ELSE "write"))
  BY <1>1 DEF AuditInv, AuditTypeOK
<1>2. l \in AuditLine /\ l.number = Len(audited) + 1
  BY LenProperties DEF AuditInv, AuditTypeOK, AuditLine
<1>3. SameLines
  BY <1>1 DEF SameLines, Present
<1>4. /\ RecordInv' /\ RetainedInOrder' /\ SizeBounded' /\ (GivenUp' => GivenUp)
      /\ \A j \in Names : Present(j)' => IsFiniteSet(BytesIn(files'[j]))
  BY <1>1, <1>a, <1>3, SameLinesStep
<1>5. AuditTypeOK' /\ StepInv'
  BY <1>1, <1>2, <1>a DEF AuditInv, AuditTypeOK, StepInv, Present
<1>6. SizeInv'
  <2> SUFFICES ASSUME failures' = 0, RotationOn, pc' = "write"
               PROVE  Bytes(files[0]) + l.size <= RotateBytes
    BY <1>1, <1>4 DEF SizeInv, RotationOn
  <2>1. Present(0) /\ ~RotationDue(l) /\ 0 \in Names
    BY <1>1, <1>a, AuditAssumption DEF AuditInv, StepInv, Names
  <2>2. Bytes(files[0]) \in Nat
    BY <2>1, FS_CardinalityType DEF AuditInv, SizeInv, Bytes
  <2>3. l.size \in Nat /\ RotateBytes \in Nat
    BY AuditAssumption
  <2>4. ~(Bytes(files[0]) + l.size > RotateBytes)
    BY <2>1 DEF RotationDue, LogSize
  <2> QED
    BY <2>2, <2>3, <2>4
<1>7. HoleInv'
  <2>1. \A n \in 1 .. Keep : (Present(n)' <=> Present(n)) /\ Holes(n)' = Holes(n)
    BY <1>1 DEF Present, Holes
  <2>2. HoleInv /\ kills \in Nat
    BY DEF AuditInv, AuditTypeOK
  <2> QED
    BY <1>1, <1>a, <1>4, <2>1, <2>2, HolesNotMore
<1> QED
  BY <1>4, <1>5, <1>6, <1>7 DEF AuditInv

(* After a failure only the order of the lines is promised.                *)
LEMMA FailedStep ==
    ASSUME AuditInv, UNCHANGED <<files, audited>>, failures' = failures + 1
    PROVE  RecordInv' /\ RetainedInOrder' /\ SizeInv' /\ HoleInv' /\ failures' # 0
<1>1. failures' # 0
  BY DEF AuditInv, AuditTypeOK
<1>2. RecordInv'
  BY DEF AuditInv, RecordInv, Present
<1>3. InOrder'
  BY DEF AuditInv, RetainedInOrder, InOrder, Present, Older
<1>4. \A j \in Names : Present(j)' => IsFiniteSet(BytesIn(files'[j]))
  BY DEF AuditInv, SizeInv, Present
<1> QED
  BY <1>1, <1>2, <1>3, <1>4 DEF RetainedInOrder, SizeInv, SizeBounded, HoleInv

LEMMA OldestRemoved ==
    ASSUME AuditInv, pc = "remove", files' = [files EXCEPT ![Keep] = Absent],
           auditGood' = FALSE, index' = Keep, pc' = "shift",
           UNCHANGED <<failures, line, audited, kills>>
    PROVE  AuditInv'
<1>1. /\ pc = "remove" /\ files' = [files EXCEPT ![Keep] = Absent] /\ auditGood' = FALSE
      /\ index' = Keep /\ pc' = "shift" /\ UNCHANGED <<failures, line, audited, kills>>
  OBVIOUS
<1>2. AuditTypeOK /\ RecordInv /\ InOrder /\ Keep \in Nat /\ Keep # 0 /\ Keep \in Names
      /\ Removed(Keep) /\ kills \in Nat
  BY <1>1, AuditAssumption
     DEF AuditInv, StepInv, RotationOn, Names, Removed, RetainedInOrder, AuditTypeOK
<1>3. /\ files' \in [Names -> Seq(AuditLine) \cup {Absent}] /\ ~Present(Keep)'
      /\ \A j \in Names \ {Keep} : files'[j] = files[j] /\ (Present(j)' <=> Present(j))
  BY <1>2, RemovedFiles
<1>4. RecordInv' /\ InOrder'
  BY <1>2, RemoveKeeps
<1>5. RetainedInOrder'
  <2>1. failures = 0 => NoGap'
    BY <1>2, RemoveOldestLeavesNoGap DEF AuditInv, RetainedInOrder
  <2> QED
    BY <1>1, <1>4, <2>1 DEF RetainedInOrder
<1>6. AuditTypeOK'
  BY <1>1, <1>2, <1>3 DEF AuditTypeOK
<1>7. StepInv'
  <2>1. failures = 0 => Present(0)'
    BY <1>1, <1>2, <1>3, AuditAssumption DEF AuditInv, StepInv, Names
  <2> QED
    BY <1>1, <1>2, <1>3, <2>1 DEF AuditInv, StepInv
<1>8. SizeInv'
  <2>1. \A j \in Names : Present(j)' =>
          files'[j] = <<>> \/ \E h \in Names : Present(h) /\ files'[j] = files[h]
    BY <1>3
  <2>2. SizeBounded' /\ \A j \in Names : Present(j)' => IsFiniteSet(BytesIn(files'[j]))
    BY <1>1, <2>1, SameSizes DEF AuditInv
  <2> QED
    BY <1>1, <2>2 DEF SizeInv
<1>9. HoleInv'
  <2>1. \A n \in 1 .. Keep : n \in Names
    BY AuditAssumption DEF Names
  <2>2. ASSUME NEW n \in 1 .. Keep
        PROVE  Holes(n)' \subseteq Holes(n) /\ (Present(n)' => Present(n))
    <3>1. Present(n)' => Present(n)
      BY <1>3, <2>1
    <3>2. ASSUME NEW j \in Holes(n)' PROVE j \in Holes(n)
      <4>1. j \in 1 .. n /\ ~Present(j)' /\ j # Keep
        BY <1>1 DEF Holes
      <4>2. j \in Names
        BY <1>2, <4>1 DEF Names
      <4>3. ~Present(j)
        BY <1>3, <4>1, <4>2
      <4> QED
        BY <1>1, <4>1, <4>3 DEF Holes
    <3> QED
      BY <3>1, <3>2
  <2>3. GivenUp' => GivenUp \/ Present(Keep)
    <3> SUFFICES ASSUME ~Present(Keep) PROVE GivenUp' => GivenUp
      OBVIOUS
    <3>1. files' = files
      BY <1>1, <1>2 DEF Present, AuditTypeOK
    <3>2. \A n : Kept(n)' <=> Kept(n)
      BY <1>1, <3>1 DEF Kept, Present
    <3> QED
      BY <1>1, <3>2 DEF GivenUp
  <2> QED
    BY <1>1, <1>2, <2>2, <2>3, HolesNotMore DEF AuditInv
<1> QED
  BY <1>4, <1>5, <1>6, <1>7, <1>8, <1>9 DEF AuditInv

LEMMA RemoveOldestStep ==
    ASSUME AuditInv, RemoveOldest
    PROVE  AuditInv'
<1>1. /\ pc = "remove" /\ auditGood' = FALSE /\ index' = Keep /\ pc' = "shift"
      /\ UNCHANGED <<line, audited, kills>>
  BY DEF RemoveOldest, Rest
<1>2. CASE files' = [files EXCEPT ![Keep] = Absent] /\ UNCHANGED failures
  BY <1>1, <1>2, OldestRemoved
<1>3. CASE failures' = failures + 1 /\ UNCHANGED files
  <2>1. RecordInv' /\ RetainedInOrder' /\ SizeInv' /\ HoleInv' /\ failures' # 0
    BY <1>1, <1>3, FailedStep
  <2>2. Keep \in Names /\ Keep # 0
    BY <1>1, AuditAssumption DEF AuditInv, StepInv, RotationOn, Names
  <2>3. AuditTypeOK' /\ StepInv'
    <3>1. failures' \in Nat
      BY <1>3 DEF AuditInv, AuditTypeOK
    <3>2. AuditTypeOK'
      BY <1>1, <1>3, <2>2, <3>1 DEF AuditInv, AuditTypeOK
    <3>3. StepInv'
      BY <1>1, <2>1, <2>2 DEF AuditInv, StepInv
    <3> QED
      BY <3>2, <3>3
  <2> QED
    BY <2>1, <2>3 DEF AuditInv
<1> QED
  BY <1>2, <1>3 DEF RemoveOldest

(* What a renaming leaves, and what the removal of a file does when a      *)
(* rename has failed before.                                               *)
LEMMA MoveStep ==
    ASSUME AuditInv, NEW i \in Names, Moved(i), failures' = failures
    PROVE  /\ RecordInv' /\ RetainedInOrder' /\ SizeBounded' /\ (GivenUp' => GivenUp)
           /\ \A j \in Names : Present(j)' => IsFiniteSet(BytesIn(files'[j]))
<1>1. /\ RecordInv' /\ InOrder' /\ (\A n : Kept(n)' <=> Kept(n)) /\ (NoGap => NoGap')
  BY MoveKeeps DEF AuditInv, RetainedInOrder
<1>2. \A j \in Names : Present(j)' =>
        files'[j] = <<>> \/ \E h \in Names : Present(h) /\ files'[j] = files[h]
  BY MovedFiles DEF AuditInv
<1>3. /\ SizeBounded' /\ \A j \in Names : Present(j)' => IsFiniteSet(BytesIn(files'[j]))
  BY <1>2, SameSizes DEF AuditInv
<1>4. audited' = audited
  BY DEF Moved
<1>5. GivenUp' => GivenUp
  BY <1>1, <1>4 DEF GivenUp
<1>6. RetainedInOrder'
  BY <1>1 DEF AuditInv, RetainedInOrder
<1> QED
  BY <1>1, <1>3, <1>5, <1>6

LEMMA RemoveStep ==
    ASSUME AuditInv, NEW i \in Names, Removed(i), failures' = failures, failures # 0
    PROVE  /\ RecordInv' /\ RetainedInOrder' /\ SizeBounded'
           /\ \A j \in Names : Present(j)' => IsFiniteSet(BytesIn(files'[j]))
<1>1. RecordInv' /\ InOrder'
  BY RemoveKeeps DEF AuditInv, RetainedInOrder
<1>2. \A j \in Names : Present(j)' =>
        files'[j] = <<>> \/ \E h \in Names : Present(h) /\ files'[j] = files[h]
  BY RemovedFiles DEF AuditInv
<1>3. /\ SizeBounded' /\ \A j \in Names : Present(j)' => IsFiniteSet(BytesIn(files'[j]))
  BY <1>2, SameSizes DEF AuditInv
<1> QED
  BY <1>1, <1>3 DEF RetainedInOrder

(* One turn of the loop, for a name that has no file.                      *)
LEMMA ShiftSkipped ==
    ASSUME AuditInv, pc = "shift", index > 1, ~Present(index - 1), index' = index - 1,
           UNCHANGED <<files, failures, pc, auditGood>>, Rest
    PROVE  AuditInv'
<1>1. /\ index \in Nat /\ index \in Names /\ index - 1 \in Names /\ kills \in Nat
      /\ HoleInv /\ kills' = kills /\ audited' = audited /\ line' = line
  BY AuditAssumption DEF AuditInv, AuditTypeOK, Names, Rest
<1>2. SameLines
  BY <1>1 DEF SameLines, Present
<1>3. /\ RecordInv' /\ RetainedInOrder' /\ SizeBounded' /\ (GivenUp' => GivenUp)
      /\ \A j \in Names : Present(j)' => IsFiniteSet(BytesIn(files'[j]))
  BY <1>2, SameLinesStep
<1>4. AuditTypeOK' /\ StepInv'
  BY <1>1 DEF AuditInv, AuditTypeOK, StepInv, Present
<1>5. SizeInv'
  BY <1>3 DEF SizeInv
<1>6. HoleInv'
  <2> SUFFICES ASSUME failures = 0, NEW n \in 1 .. Keep, Present(n) \/ (n = Keep /\ GivenUp)
               PROVE  Cardinality(Holes(n)') <= kills
    BY <1>1, <1>3 DEF HoleInv, Present
  <2>1. Cardinality(Holes(n)) <= kills
    BY DEF HoleInv, AuditInv
  <2>2. CASE n < index
    <3>1. n # index - 1
      BY <1>1, <2>2 DEF Names
    <3>2. Holes(n)' = Holes(n)
      BY <1>1, <2>2, <3>1 DEF Holes, Present
    <3> QED
      BY <2>1, <3>2
  <2>3. CASE n >= index
    <3>1. /\ index - 1 \in Holes(n) /\ index \notin Holes(n)
          /\ Holes(n)' \subseteq (Holes(n) \ {index - 1}) \cup {index}
      BY <1>1, <2>3 DEF Holes, Present
    <3> DEFINE H == Holes(n) \ {index - 1}
    <3>2. IsFiniteSet(H) /\ Cardinality(H) = Cardinality(Holes(n)) - 1
      BY <3>1, HolesFinite, FS_RemoveElement
    <3>3. IsFiniteSet(H \cup {index}) /\ Cardinality(H \cup {index}) = Cardinality(H) + 1
      BY <3>1, <3>2, FS_AddElement
    <3>4. Cardinality(Holes(n)') <= Cardinality(H \cup {index})
      BY <3>1, <3>3, FS_Subset
    <3>5. Cardinality(Holes(n)) \in Nat /\ Cardinality(Holes(n)') \in Nat /\ kills \in Nat
      BY <1>1, HolesFinite
    <3> HIDE DEF H
    <3>6. Cardinality(Holes(n)') <= Cardinality(Holes(n))
      BY <3>2, <3>3, <3>4, <3>5
    <3> QED
      BY <2>1, <3>5, <3>6
  <2> QED
    BY <1>1, <2>2, <2>3
<1> QED
  BY <1>3, <1>4, <1>5, <1>6 DEF AuditInv

(* A backup gets the name of the next older one.                           *)
LEMMA ShiftMoved ==
    ASSUME AuditInv, pc = "shift", index > 1, Present(index - 1), ~Present(index),
           files' = [files EXCEPT ![index] = files[index - 1], ![index - 1] = Absent],
           index' = index - 1, UNCHANGED <<failures, pc, auditGood>>, Rest
    PROVE  AuditInv'
<1> DEFINE i == index - 1
<1>1. /\ index \in Nat /\ index \in Names /\ i \in Names /\ i + 1 = index /\ kills \in Nat
      /\ i # 0 /\ HoleInv /\ kills' = kills /\ audited' = audited /\ line' = line
  BY AuditAssumption DEF AuditInv, AuditTypeOK, Names, Rest
<1>2. Moved(i)
  BY <1>1 DEF Moved
<1>3. /\ RecordInv' /\ RetainedInOrder' /\ SizeBounded' /\ (GivenUp' => GivenUp)
      /\ \A j \in Names : Present(j)' => IsFiniteSet(BytesIn(files'[j]))
  BY <1>1, <1>2, MoveStep
<1>4. /\ files' \in [Names -> Seq(AuditLine) \cup {Absent}]
      /\ ~(files'[i] # Absent) /\ files'[i + 1] # Absent
      /\ \A j \in Names : j # i /\ j # i + 1 => (files'[j] # Absent <=> Present(j))
  <2>1. AuditTypeOK
    BY DEF AuditInv
  <2> QED
    BY <1>1, <1>2, <2>1, MovedFiles DEF Present
<1>5. AuditTypeOK'
  BY <1>1, <1>4 DEF AuditInv, AuditTypeOK
<1>6. StepInv'
  <2>1. failures = 0 => Present(0)'
    BY <1>1, <1>4, AuditAssumption DEF AuditInv, StepInv, Names, Present
  <2>2. ~Present(index)'
    BY <1>1, <1>4 DEF Present
  <2> QED
    BY <1>1, <2>1, <2>2 DEF AuditInv, StepInv
<1>7. SizeInv'
  BY <1>3 DEF SizeInv
<1>8. HoleInv'
  <2> SUFFICES ASSUME failures = 0, NEW n \in 1 .. Keep, files'[n] # Absent \/ (n = Keep /\ GivenUp)
               PROVE  Cardinality(Holes(n)') <= kills
    BY <1>1, <1>3 DEF HoleInv, Present
  <2>1. n \in Names /\ n \in Nat /\ 1 .. Keep \subseteq Names /\ i \in Nat
    BY <1>1, AuditAssumption DEF Names
  <2>2. n # i
    BY <1>1, <1>4, <2>1 DEF Names
  <2>3. \A j \in 1 .. n : j \in Names /\ j \in Nat
    BY <2>1, AuditAssumption DEF Names
  <2>4. CASE n < i
    <3>1. Holes(n)' = Holes(n)
      BY <1>1, <1>4, <2>1, <2>3, <2>4 DEF Holes, Present
    <3>2. Present(n)
      BY <1>1, <1>4, <2>1, <2>4 DEF Names
    <3> QED
      BY <1>1, <3>1, <3>2 DEF HoleInv
  <2>5. CASE n = i + 1
    <3>1. i \in 1 .. Keep /\ Present(i)
      BY <1>1, <2>1, <2>5, AuditAssumption
    <3>2. ASSUME NEW j \in Holes(n)' PROVE j \in Holes(i)
      <4>1. j \in 1 .. n /\ ~(files'[j] # Absent) /\ j # i
        BY <1>1, <3>2 DEF Holes, Present
      <4>2. j # i + 1
        BY <1>4, <4>1
      <4>3. j \in Names /\ ~Present(j) /\ j \in 1 .. i
        BY <1>4, <2>1, <2>3, <2>5, <4>1, <4>2
      <4> QED
        BY <1>1, <4>2, <4>3 DEF Holes
    <3>3. Holes(n)' \in SUBSET Holes(i)
      BY <3>2
    <3>4. Cardinality(Holes(i)) <= kills
      BY <1>1, <3>1 DEF HoleInv
    <3>5. Cardinality(Holes(n)') <= Cardinality(Holes(i))
      BY <3>1, <3>3, HolesFinite, FS_Subset
    <3>6. Cardinality(Holes(i)) \in Nat /\ Cardinality(Holes(n)') \in Nat
      BY <3>1, HolesFinite
    <3> QED
      BY <1>1, <3>4, <3>5, <3>6
  <2>6. CASE n > i + 1
    <3>1. Holes(n)' = Holes(n)
      BY <1>1, <1>4, <2>1, <2>3, <2>6 DEF Holes, Present
    <3>2. Present(n) \/ (n = Keep /\ GivenUp)
      BY <1>4, <2>1, <2>6
    <3> QED
      BY <1>1, <3>1, <3>2 DEF HoleInv
  <2> QED
    BY <2>1, <2>2, <2>4, <2>5, <2>6
<1> QED
  BY <1>3, <1>5, <1>6, <1>7, <1>8 DEF AuditInv

(* What is in the way of a rename is removed: only when one failed before. *)
LEMMA Cleared ==
    ASSUME AuditInv, pc = "shift", NEW i \in Names, i = index, i # 0, Present(i),
           files' = [files EXCEPT ![i] = Absent], UNCHANGED <<index, failures, pc, auditGood>>, Rest
    PROVE  AuditInv'
<1>1. /\ kills' = kills /\ audited' = audited /\ line' = line /\ failures # 0
  BY DEF AuditInv, StepInv, Rest
<1>2. Removed(i) /\ AuditTypeOK
  BY <1>1 DEF Removed, AuditInv
<1>3. /\ RecordInv' /\ RetainedInOrder' /\ SizeBounded'
      /\ \A j \in Names : Present(j)' => IsFiniteSet(BytesIn(files'[j]))
  BY <1>1, <1>2, RemoveStep
<1>4. /\ files' \in [Names -> Seq(AuditLine) \cup {Absent}]
      /\ \A j \in Names \ {i} : Present(j)' <=> Present(j)
  BY <1>2, RemovedFiles
<1>5. AuditTypeOK'
  BY <1>1, <1>4 DEF AuditInv, AuditTypeOK
<1>6. StepInv'
  <2>1. failures = 0 => Present(0)'
    BY <1>4, AuditAssumption DEF AuditInv, StepInv, Names
  <2> QED
    BY <1>1, <2>1 DEF AuditInv, StepInv
<1>7. SizeInv' /\ HoleInv'
  BY <1>1, <1>3 DEF SizeInv, HoleInv
<1> QED
  BY <1>3, <1>5, <1>6, <1>7 DEF AuditInv

(* What could not be removed is replaced: the lines of the file are gone,  *)
(* and those of the others are in order.                                   *)
Replaced(i, g) ==
    /\ g = i + 1 /\ Present(i) /\ failures' = failures + 1
    /\ files' = [files EXCEPT ![g] = files[i], ![i] = Absent]

LEMMA ReplacedStep ==
    ASSUME AuditInv, pc = "shift", NEW i \in Names, NEW g \in Names, Replaced(i, g), Rest,
           auditGood' = auditGood, pc' \in {"shift", "open"}, index' \in Names, index' # 0
    PROVE  AuditInv'
<1>1. /\ audited' = audited /\ kills' = kills /\ line' = line /\ AuditTypeOK /\ RecordInv
      /\ InOrder /\ SizeInv /\ failures' # 0 /\ failures' \in Nat /\ auditGood = FALSE
  BY DEF Replaced, Rest, AuditInv, AuditTypeOK, StepInv, RetainedInOrder
<1>2. i \in Int /\ Names \subseteq Int /\ g = i + 1 /\ g # i /\ Present(i)
  BY AuditAssumption DEF Replaced, Names
<1>3. /\ files' \in [Names -> Seq(AuditLine) \cup {Absent}]
      /\ files'[i] = Absent /\ files'[g] = files[i]
      /\ \A j \in Names : j # i /\ j # g => files'[j] = files[j]
  BY <1>1, <1>2 DEF Replaced, AuditTypeOK
<1>4. \A j \in Names : Present(j)' =>
        \E h \in Names :
            Present(h) /\ j = NameBehind(i, h) /\ files'[j] = files[h] /\ h # g
  BY <1>2, <1>3 DEF Present, NameBehind
<1>5. RecordInv'
  <2>1. ASSUME NEW j \in Names, Present(j)', NEW k \in DOMAIN files'[j]
        PROVE  /\ files'[j][k].number <= Len(audited)
               /\ files'[j][k] = audited[files'[j][k].number]
    <3>1. PICK h \in Names : Present(h) /\ files'[j] = files[h]
      BY <1>4, <2>1
    <3> QED
      BY <1>1, <2>1, <3>1 DEF RecordInv
  <2>2. \A n \in DOMAIN audited' : audited'[n].number = n
    BY <1>1 DEF RecordInv
  <2>3. audited' = audited
    BY <1>1
  <2> QED
    BY <2>1, <2>2, <2>3 DEF RecordInv
<1>6. InOrder'
  <2> SUFFICES ASSUME NEW j \in Names, NEW f \in Names, Present(j)', Present(f)',
                      NEW k \in DOMAIN files'[j], NEW m \in DOMAIN files'[f],
                      Older(j, k, f, m)
               PROVE  files'[j][k].number < files'[f][m].number
    BY DEF InOrder, Older
  <2>1. PICK h \in Names :
          Present(h) /\ j = NameBehind(i, h) /\ files'[j] = files[h] /\ h # g
    BY <1>4
  <2>2. PICK e \in Names :
          Present(e) /\ f = NameBehind(i, e) /\ files'[f] = files[e] /\ e # g
    BY <1>4
  <2>3. h \in Int /\ e \in Int
    BY <1>2
  <2>4. (j > f => h > e) /\ (j = f => h = e)
    BY <1>2, <2>1, <2>2, <2>3 DEF NameBehind
  <2>5. Older(h, k, e, m)
    BY <2>4 DEF Older
  <2> QED
    BY <1>1, <2>1, <2>2, <2>5 DEF InOrder
<1>7. SizeInv'
  BY <1>1, <1>4 DEF SizeInv, SizeBounded
<1>8. AuditTypeOK'
  BY <1>1, <1>3 DEF AuditTypeOK
<1>9. StepInv'
  BY <1>1 DEF AuditInv, StepInv
<1> QED
  BY <1>1, <1>5, <1>6, <1>7, <1>8, <1>9 DEF AuditInv, RetainedInOrder, HoleInv

LEMMA ShiftStep ==
    ASSUME AuditInv, Shift
    PROVE  AuditInv'
<1>1. /\ pc = "shift" /\ index > 1 /\ auditGood' = auditGood /\ Rest /\ index \in Nat
      /\ index \in Names /\ index - 1 \in Names /\ index - 1 # 0
  BY AuditAssumption DEF Shift, AuditInv, AuditTypeOK, Names
<1>2. CASE files[index - 1] = Absent /\ index' = index - 1 /\ UNCHANGED <<files, failures, pc>>
  BY <1>1, <1>2, ShiftSkipped DEF Present
<1>3. CASE /\ files[index] # Absent /\ files' = [files EXCEPT ![index] = Absent]
           /\ UNCHANGED <<index, failures, pc>>
  <2>1. PICK i \in Names : i = index
    BY <1>1
  <2>2. Present(i) /\ i # 0 /\ files' = [files EXCEPT ![i] = Absent]
    BY <1>1, <1>3, <2>1 DEF Present
  <2> QED
    BY <1>1, <1>3, <2>1, <2>2, Cleared
<1>4. CASE /\ files[index - 1] # Absent /\ files[index] = Absent /\ index' = index - 1 /\ pc' = pc
           /\ files' = [files EXCEPT ![index] = files[index - 1], ![index - 1] = Absent]
           /\ UNCHANGED failures
  BY <1>1, <1>4, ShiftMoved DEF Present
<1>6. CASE /\ files[index - 1] # Absent /\ index' = index - 1 /\ pc' = pc
           /\ failures' = failures + 1 /\ files' = Renaming(index - 1, index)
  <2>1. PICK i \in Names : i = index - 1
    BY <1>1
  <2>2. index = i + 1 /\ Present(i) /\ pc' = "shift" /\ index' \in Names /\ index' # 0
    BY <1>1, <1>6, <2>1 DEF Present
  <2>3. files' = [files EXCEPT ![index] = files[i], ![i] = Absent]
    BY <1>6, <2>1 DEF Renaming
  <2> QED
    BY <1>1, <1>6, <2>2, <2>3, ReplacedStep DEF Replaced
<1>5. CASE index' = index - 1 /\ pc' = pc /\ failures' = failures + 1 /\ UNCHANGED files
  <2>1. /\ audited' = audited /\ kills' = kills /\ line' = line
    BY <1>1 DEF Rest
  <2>2. RecordInv' /\ RetainedInOrder' /\ SizeInv' /\ HoleInv' /\ failures' # 0
    BY <1>5, <2>1, FailedStep
  <2>3. AuditTypeOK' /\ StepInv'
    BY <1>1, <1>5, <2>1, <2>2 DEF AuditInv, AuditTypeOK, StepInv, Present
  <2> QED
    BY <2>2, <2>3 DEF AuditInv
<1> QED
  BY <1>1, <1>2, <1>3, <1>4, <1>5, <1>6 DEF Shift, Renamed, RenamedOver, Renaming

LEMMA RetireLogMoved ==
    ASSUME AuditInv, pc = "shift", index = 1, Present(0), ~Present(1),
           files' = [files EXCEPT ![1] = files[0], ![0] = Absent],
           pc' = "open", UNCHANGED <<index, failures, auditGood>>, Rest
    PROVE  AuditInv'
<1>1. /\ 0 \in Names /\ 1 \in Names /\ kills \in Nat /\ 0 + 1 = 1
      /\ HoleInv /\ kills' = kills /\ audited' = audited /\ line' = line
      /\ auditGood' = auditGood /\ failures' = failures /\ index' = index
  BY AuditAssumption DEF AuditInv, AuditTypeOK, Names, Rest
<1>2. Moved(0)
  BY <1>1 DEF Moved
<1>3. /\ RecordInv' /\ RetainedInOrder' /\ SizeBounded' /\ (GivenUp' => GivenUp)
      /\ \A j \in Names : Present(j)' => IsFiniteSet(BytesIn(files'[j]))
  BY <1>1, <1>2, MoveStep
<1>4. /\ files' \in [Names -> Seq(AuditLine) \cup {Absent}] /\ ~Present(0)' /\ Present(1)'
      /\ \A j \in Names : j # 0 /\ j # 1 => (Present(j)' <=> Present(j))
  <2>1. AuditTypeOK
    BY DEF AuditInv
  <2> QED
    BY <1>1, <1>2, <2>1, MovedFiles
<1>5. AuditTypeOK'
  BY <1>1, <1>4 DEF AuditInv, AuditTypeOK
<1>6. StepInv'
  BY <1>1, <1>4 DEF AuditInv, StepInv
<1>7. SizeInv'
  BY <1>3 DEF SizeInv
<1>8. HoleInv'
  <2> SUFFICES ASSUME failures = 0, NEW n \in 1 .. Keep, Present(n)' \/ (n = Keep /\ GivenUp)
               PROVE  Cardinality(Holes(n)') <= kills
    BY <1>1, <1>3 DEF HoleInv
  <2>1. \A j \in 1 .. n : j \in Names /\ j # 0
    BY AuditAssumption DEF Names
  <2>2. CASE n = 1
    <3>1. Holes(n)' = {}
      BY <1>4, <2>2 DEF Holes
    <3> QED
      BY <1>1, <3>1, FS_EmptySet
  <2>3. CASE n # 1
    <3>1. Holes(n)' = Holes(n)
      BY <1>4, <2>1 DEF Holes
    <3>2. Present(n) \/ (n = Keep /\ GivenUp)
      BY <1>4, <2>1, <2>3
    <3> QED
      BY <1>1, <3>1, <3>2 DEF HoleInv
  <2> QED
    BY <2>2, <2>3
<1> QED
  BY <1>3, <1>5, <1>6, <1>7, <1>8 DEF AuditInv

LEMMA RetireLogStep ==
    ASSUME AuditInv, RetireLog
    PROVE  AuditInv'
<1>1. /\ pc = "shift" /\ index = 1 /\ auditGood' = auditGood /\ index' = index /\ Rest
      /\ 0 \in Names /\ 1 \in Names
  BY AuditAssumption DEF RetireLog, AuditInv, AuditTypeOK, Names
<1>5. CASE files[0] = Absent /\ pc' = "open" /\ UNCHANGED <<files, failures>>
  <2>1. /\ audited' = audited /\ kills' = kills /\ line' = line /\ failures # 0
    BY <1>1, <1>5 DEF Rest, AuditInv, StepInv, Present
  <2>2. AuditTypeOK' /\ StepInv'
    BY <1>1, <1>5, <2>1 DEF AuditInv, AuditTypeOK, StepInv, Present
  <2>3. SameLines
    BY <1>5, <2>1 DEF SameLines, Present
  <2>4. /\ RecordInv' /\ RetainedInOrder' /\ SizeBounded'
        /\ \A j \in Names : Present(j)' => IsFiniteSet(BytesIn(files'[j]))
    BY <1>5, <2>3, SameLinesStep
  <2>5. SizeInv' /\ HoleInv'
    BY <1>5, <2>1, <2>4 DEF SizeInv, HoleInv
  <2> QED
    BY <2>2, <2>4, <2>5 DEF AuditInv
<1>6. CASE /\ files[0] # Absent /\ pc' = "open" /\ failures' = failures + 1
           /\ files' = Renaming(0, 1)
  <2>1. 1 = 0 + 1 /\ Present(0) /\ index' \in Names /\ index' # 0
    BY <1>1, <1>6 DEF Present
  <2>2. files' = [files EXCEPT ![1] = files[0], ![0] = Absent]
    BY <1>6 DEF Renaming
  <2> QED
    BY <1>1, <1>6, <2>1, <2>2, ReplacedStep DEF Replaced
<1>2. CASE files[1] # Absent /\ files' = [files EXCEPT ![1] = Absent] /\ UNCHANGED <<pc, failures>>
  <2>1. Present(1) /\ 1 = index /\ 1 # 0 /\ UNCHANGED <<index, failures, pc, auditGood>>
    BY <1>1, <1>2 DEF Present
  <2>2. files' = [files EXCEPT ![1] = Absent]
    BY <1>2
  <2> QED
    BY <1>1, <2>1, <2>2, Cleared
<1>3. CASE /\ files[0] # Absent /\ files[1] = Absent /\ pc' = "open" /\ UNCHANGED failures
           /\ files' = [files EXCEPT ![1] = files[0], ![0] = Absent]
  BY <1>1, <1>3, RetireLogMoved DEF Present
<1>4. CASE pc' = "open" /\ failures' = failures + 1 /\ UNCHANGED files
  <2>1. /\ audited' = audited /\ kills' = kills /\ line' = line
    BY <1>1 DEF Rest
  <2>2. RecordInv' /\ RetainedInOrder' /\ SizeInv' /\ HoleInv' /\ failures' # 0
    BY <1>4, <2>1, FailedStep
  <2>3. AuditTypeOK' /\ StepInv'
    BY <1>1, <1>4, <2>1, <2>2 DEF AuditInv, AuditTypeOK, StepInv, Present
  <2> QED
    BY <2>2, <2>3 DEF AuditInv
<1> QED
  BY <1>1, <1>2, <1>3, <1>4, <1>5, <1>6 DEF RetireLog, Renamed, RenamedOver, Renaming

(* openAudit, at the end of a rotation and at the start of the program.    *)
LEMMA OpenedStep ==
    ASSUME AuditInv, files' = Opened, UNCHANGED <<failures, audited, kills>>,
           pc # "shift", pc' # "shift"
    PROVE  /\ RecordInv' /\ RetainedInOrder' /\ HoleInv' /\ SizeBounded'
           /\ files' \in [Names -> Seq(AuditLine) \cup {Absent}]
           /\ Present(0)' /\ (~Present(0) => files'[0] = <<>>)
           /\ \A j \in Names : Present(j)' => IsFiniteSet(BytesIn(files'[j]))
<1>1. AuditTypeOK /\ HoleInv /\ kills \in Nat
  BY DEF AuditInv, AuditTypeOK
<1>2. /\ SameLines /\ files' \in [Names -> Seq(AuditLine) \cup {Absent}]
      /\ Present(0)' /\ (~Present(0) => files'[0] = <<>>)
      /\ \A j \in Names \ {0} : files'[j] = files[j]
  BY <1>1, OpenedSameLines
<1>3. /\ RecordInv' /\ RetainedInOrder' /\ SizeBounded' /\ (GivenUp' => GivenUp)
      /\ \A j \in Names : Present(j)' => IsFiniteSet(BytesIn(files'[j]))
  BY <1>2, SameLinesStep
<1>4. HoleInv'
  <2>1. \A n \in 1 .. Keep : n \in Names \ {0}
    BY AuditAssumption DEF Names
  <2>2. \A n \in 1 .. Keep : Present(n)' <=> Present(n)
    BY <1>2, <2>1 DEF Present
  <2>3. \A n \in 1 .. Keep : \A j \in 1 .. n : j \in 1 .. Keep
    BY AuditAssumption
  <2>4. \A n \in 1 .. Keep : Holes(n)' = Holes(n)
    BY <2>2, <2>3 DEF Holes
  <2> QED
    BY <1>1, <1>3, <2>2, <2>4, HolesNotMore
<1> QED
  BY <1>2, <1>3, <1>4

LEMMA ReopenStep ==
    ASSUME AuditInv, Reopen
    PROVE  AuditInv'
<1>1. /\ pc = "open" /\ pc' = "write" /\ index' = index
      /\ audited' = audited /\ kills' = kills /\ line' = line
  BY DEF Reopen, Rest
<1>2. CASE files' = Opened /\ auditGood' = TRUE /\ failures' = failures
  <2>1. /\ RecordInv' /\ RetainedInOrder' /\ HoleInv' /\ SizeBounded'
        /\ files' \in [Names -> Seq(AuditLine) \cup {Absent}]
        /\ Present(0)' /\ (~Present(0) => files'[0] = <<>>)
        /\ \A j \in Names : Present(j)' => IsFiniteSet(BytesIn(files'[j]))
    BY <1>1, <1>2, OpenedStep
  <2>2. AuditTypeOK'
    BY <1>1, <1>2, <2>1 DEF AuditInv, AuditTypeOK
  <2>3. StepInv'
    BY <1>1, <1>2, <2>1 DEF AuditInv, StepInv
  <2>4. SizeInv'
    BY <1>1, <1>2, <2>1 DEF AuditInv, StepInv, SizeInv
  <2> QED
    BY <2>1, <2>2, <2>3, <2>4 DEF AuditInv
<1>3. CASE failures' = failures + 1 /\ UNCHANGED <<files, auditGood>>
  <2>1. RecordInv' /\ RetainedInOrder' /\ SizeInv' /\ HoleInv' /\ failures' # 0
    BY <1>1, <1>3, FailedStep
  <2>2. AuditTypeOK' /\ StepInv'
    BY <1>1, <1>3, <2>1 DEF AuditInv, AuditTypeOK, StepInv, Present
  <2> QED
    BY <2>1, <2>2 DEF AuditInv
<1> QED
  BY <1>1, <1>2, <1>3 DEF Reopen

LEMMA RestartStep ==
    ASSUME AuditInv, Restart
    PROVE  AuditInv'
<1>1. /\ pc = "dead" /\ pc' = "idle" /\ index' = index
      /\ audited' = audited /\ kills' = kills /\ line' = line
  BY DEF Restart
<1>2. CASE files' = Opened /\ auditGood' = TRUE /\ failures' = failures
  <2>1. /\ RecordInv' /\ RetainedInOrder' /\ HoleInv' /\ SizeBounded'
        /\ files' \in [Names -> Seq(AuditLine) \cup {Absent}] /\ Present(0)'
        /\ \A j \in Names : Present(j)' => IsFiniteSet(BytesIn(files'[j]))
    BY <1>1, <1>2, OpenedStep
  <2>2. AuditTypeOK'
    BY <1>1, <1>2, <2>1 DEF AuditInv, AuditTypeOK
  <2>3. StepInv' /\ SizeInv'
    BY <1>1, <1>2, <2>1 DEF AuditInv, StepInv, SizeInv
  <2> QED
    BY <2>1, <2>2, <2>3 DEF AuditInv
<1>3. CASE failures' = failures + 1 /\ UNCHANGED <<files, auditGood>>
  <2>1. RecordInv' /\ RetainedInOrder' /\ SizeInv' /\ HoleInv' /\ failures' # 0
    BY <1>1, <1>3, FailedStep
  <2>2. AuditTypeOK' /\ StepInv'
    BY <1>1, <1>3, <2>1 DEF AuditInv, AuditTypeOK, StepInv, Present
  <2> QED
    BY <2>1, <2>2 DEF AuditInv
<1> QED
  BY <1>1, <1>2, <1>3 DEF Restart

(* A kill in the middle of a rotation leaves the vacated name as a hole.   *)
LEMMA KillStep ==
    ASSUME AuditInv, Kill
    PROVE  AuditInv'
<1>1. /\ kills' = kills + 1 /\ pc' = "dead" /\ auditGood' = FALSE /\ line' = NoAuditLine
      /\ index' = 0 /\ UNCHANGED <<files, audited, failures>> /\ 0 \in Names
      /\ kills \in Nat /\ HoleInv
  BY AuditAssumption DEF Kill, AuditInv, AuditTypeOK, Names
<1>2. SameLines
  BY <1>1 DEF SameLines, Present
<1>3. /\ RecordInv' /\ RetainedInOrder' /\ SizeBounded' /\ (GivenUp' => GivenUp)
      /\ \A j \in Names : Present(j)' => IsFiniteSet(BytesIn(files'[j]))
  BY <1>1, <1>2, SameLinesStep
<1>4. AuditTypeOK' /\ StepInv'
  <2>1. AuditTypeOK'
    <3>1. AuditTypeOK
      BY DEF AuditInv
    <3>2. kills' \in Nat /\ index' \in Names
      BY <1>1
    <3>3. pc' \in {"idle", "remove", "shift", "open", "write", "dead"}
      BY <1>1
    <3>4. auditGood' \in BOOLEAN /\ line' \in AuditLine \cup {NoAuditLine}
      BY Zenon, <1>1
    <3>5. UNCHANGED <<files, audited, failures>>
      BY <1>1
    <3> QED
      BY <3>1, <3>2, <3>3, <3>4, <3>5 DEF AuditTypeOK
  <2>2. auditGood' = FALSE /\ pc' \notin {"remove", "shift", "open", "write", "idle"}
    BY <1>1
  <2>3. StepInv'
    BY <2>2 DEF StepInv
  <2> QED
    BY <2>1, <2>3
<1>5. SizeInv'
  BY <1>1, <1>3 DEF SizeInv
<1>6. HoleInv'
  <2> SUFFICES ASSUME failures = 0, NEW n \in 1 .. Keep, Present(n) \/ (n = Keep /\ GivenUp)
               PROVE  Cardinality(Holes(n)') <= kills + 1
    BY <1>1, <1>3 DEF HoleInv, Present
  <2>1. Cardinality(Holes(n)) <= kills
    BY <1>1 DEF HoleInv
  <2>2. Holes(n)' \subseteq Holes(n) \cup {index}
    BY <1>1 DEF Holes, Present
  <2>3. /\ IsFiniteSet(Holes(n)) /\ Cardinality(Holes(n)) \in Nat
        /\ IsFiniteSet(Holes(n)') /\ Cardinality(Holes(n)') \in Nat
    BY HolesFinite
  <2> DEFINE H == Holes(n) \cup {index}
  <2>4. IsFiniteSet(H)
        /\ Cardinality(H) = IF index \in Holes(n) THEN Cardinality(Holes(n)) ELSE Cardinality(Holes(n)) + 1
    BY <2>3, FS_AddElement
  <2>5. Cardinality(Holes(n)') <= Cardinality(H)
    BY <2>2, <2>4, FS_Subset
  <2> HIDE DEF H
  <2>6. Cardinality(H) \in Nat /\ Cardinality(H) <= kills + 1
    BY <1>1, <2>1, <2>3, <2>4
  <2> QED
    BY <1>1, <2>3, <2>5, <2>6
<1> QED
  BY <1>3, <1>4, <1>5, <1>6 DEF AuditInv

(* A line that meets a stream in a bad state is lost: without a failure it *)
(* is not in such a state.                                                 *)
LEMMA WriteStep ==
    ASSUME AuditInv, Write
    PROVE  AuditInv'
<1>1. /\ pc = "write" /\ pc' = "idle" /\ line' = NoAuditLine /\ index' = 0
      /\ kills' = kills /\ audited' = Append(audited, line)
  BY DEF Write
<1>2. /\ AuditTypeOK /\ RecordInv /\ InOrder /\ HoleInv /\ kills \in Nat /\ 0 \in Names
      /\ line \in AuditLine /\ line.number = Len(audited) + 1
  BY <1>1, AuditAssumption DEF AuditInv, AuditTypeOK, StepInv, RetainedInOrder, Names
<1>3. /\ audited' \in Seq(AuditLine) /\ Len(audited') = Len(audited) + 1 /\ Len(audited) \in Nat
      /\ DOMAIN audited = 1 .. Len(audited) /\ DOMAIN audited' = 1 .. Len(audited) + 1
      /\ \A n \in DOMAIN audited : audited'[n] = audited[n]
      /\ audited'[Len(audited) + 1] = line
  BY <1>1, <1>2, AppendProperties, LenProperties DEF AuditTypeOK
<1>4. CASE /\ auditGood /\ files' = [files EXCEPT ![0] = Append(files[0], line)]
           /\ UNCHANGED <<auditGood, failures>>
  <2>1. Written
    BY <1>1, <1>2, <1>4 DEF Written, AuditInv, StepInv
  <2>2. /\ RecordInv' /\ InOrder' /\ (NoGap => NoGap')
        /\ \A n \in DOMAIN audited : Kept(n) => Kept(n)'
        /\ \A n : n = Len(audited) + 1 => Kept(n)'
    BY <1>2, <2>1, WriteKeeps
  <2>3. /\ files' \in [Names -> Seq(AuditLine) \cup {Absent}]
        /\ files[0] \in Seq(AuditLine) /\ files'[0] = Append(files[0], line)
        /\ \A j \in Names \ {0} : files'[j] = files[j]
        /\ \A j \in Names : Present(j)' <=> Present(j)
    BY <1>2, <2>1, WrittenFiles
  <2>4. Present(0)
    BY <2>1 DEF Written
  <2>5. RetainedInOrder'
    BY <1>1, <1>4, <2>2 DEF AuditInv, RetainedInOrder
  <2>6. AuditTypeOK'
    BY <1>1, <1>4, <1>2, <1>3, <2>3 DEF AuditTypeOK
  <2>7. StepInv'
    BY <1>1, <1>4, <1>2, <2>3, <2>4 DEF AuditInv, StepInv
  <2>8. SizeInv'
    <3>1. /\ IsFiniteSet(BytesIn(files'[0])) /\ Bytes(files[0]) \in Nat
          /\ Bytes(files'[0]) = Bytes(files[0]) + line.size
      BY <1>2, <2>3, <2>4, BytesOfAppend DEF AuditInv, SizeInv
    <3>2. \A j \in Names : Present(j)' => IsFiniteSet(BytesIn(files'[j]))
      BY <2>3, <3>1 DEF AuditInv, SizeInv
    <3>3. ASSUME failures = 0, RotationOn, NEW j \in Names, Present(j)'
          PROVE  Len(files'[j]) <= 1 \/ Bytes(files'[j]) <= RotateBytes
      <4>1. CASE j # 0
        BY <2>3, <3>3, <4>1 DEF AuditInv, SizeInv, SizeBounded
      <4>2. CASE j = 0 /\ files[0] = <<>>
        <5>1. Len(files'[0]) = Len(files[0]) + 1 /\ Len(files[0]) = 0
          BY <1>2, <2>3, <4>2, AppendProperties, EmptyFile
        <5> QED
          BY <4>2, <5>1
      <4>3. CASE j = 0 /\ files[0] # <<>>
        BY <1>1, <1>4, <3>1, <3>3, <4>3 DEF AuditInv, SizeInv
      <4> QED
        BY <4>1, <4>2, <4>3
    <3> QED
      BY <1>1, <1>4, <3>2, <3>3 DEF SizeInv, SizeBounded, RotationOn
  <2>9. HoleInv'
    <3>1. \A n \in 1 .. Keep : n \in Names
      BY AuditAssumption DEF Names
    <3>2. \A n \in 1 .. Keep : Present(n)' <=> Present(n)
      BY <2>3, <3>1
    <3>3. \A n \in 1 .. Keep : \A j \in 1 .. n : j \in 1 .. Keep
      BY AuditAssumption
    <3>4. \A n \in 1 .. Keep : Holes(n)' = Holes(n)
      BY <1>1, <3>2, <3>3 DEF Holes
    <3>5. GivenUp' => GivenUp
      <4> SUFFICES ASSUME NEW n \in 1 .. Len(audited'), ~Kept(n)' PROVE GivenUp
        BY DEF GivenUp
      <4>1. n \in 1 .. Len(audited) /\ ~Kept(n)
        BY <1>3, <2>2
      <4> QED
        BY <4>1 DEF GivenUp
    <3> QED
      BY <1>1, <1>2, <1>4, <3>2, <3>4, <3>5, HolesNotMore
  <2> QED
    BY <2>2, <2>5, <2>6, <2>7, <2>8, <2>9 DEF AuditInv
<1>5. CASE /\ files' = files /\ auditGood' = FALSE
           /\ \/ ~auditGood /\ failures' = failures
              \/ failures' = failures + 1
  <2>1. failures' # 0 /\ failures' \in Nat /\ files' = files
    BY <1>1, <1>2, <1>5 DEF AuditInv, StepInv, AuditTypeOK
  <2>2. RecordInv'
    <3>1. \A n \in DOMAIN audited' : audited'[n].number = n
      BY <1>2, <1>3 DEF RecordInv
    <3>2. ASSUME NEW j \in Names, Present(j), NEW k \in DOMAIN files[j]
          PROVE  /\ files[j][k].number <= Len(audited')
                 /\ files[j][k] = audited'[files[j][k].number]
      <4>1. files[j][k].number \in Nat \ {0}
        BY <1>2, <3>2, LinesOf
      <4>2. /\ files[j][k].number <= Len(audited)
            /\ files[j][k] = audited[files[j][k].number]
        BY <1>2, <3>2 DEF RecordInv
      <4>3. files[j][k].number \in DOMAIN audited
        BY <1>3, <4>1, <4>2
      <4> QED
        BY <1>3, <4>2, <4>3
    <3> QED
      BY <2>1, <3>1, <3>2 DEF RecordInv, Present
  <2>3. RetainedInOrder'
    BY <1>1, <1>2, <2>1 DEF RetainedInOrder, InOrder, Present, Older
  <2>4. AuditTypeOK' /\ StepInv'
    <3>1. AuditTypeOK'
      BY <1>1, <1>2, <1>3, <1>5, <2>1 DEF AuditTypeOK
    <3>2. StepInv'
      BY <1>1, <1>5, <2>1 DEF StepInv
    <3> QED
      BY <3>1, <3>2
  <2>5. SizeInv' /\ HoleInv'
    BY <1>1, <2>1 DEF AuditInv, SizeInv, SizeBounded, HoleInv, Present
  <2> QED
    BY <2>2, <2>3, <2>4, <2>5 DEF AuditInv
<1> QED
  BY <1>2, <1>4, <1>5 DEF Write, AuditTypeOK

LEMMA AuditInvStep == AuditInv /\ [AuditNext]_auditVars => AuditInv'
<1> SUFFICES ASSUME AuditInv, [AuditNext]_auditVars PROVE AuditInv'
  OBVIOUS
<1>1. CASE UNCHANGED auditVars
  <2>1. /\ UNCHANGED <<files, auditGood, pc, index, line, audited, kills, failures>>
    BY <1>1 DEF auditVars
  <2>2. SameLines
    BY <2>1 DEF SameLines, Present
  <2>3. /\ RecordInv' /\ RetainedInOrder' /\ SizeBounded' /\ (GivenUp' => GivenUp)
        /\ \A j \in Names : Present(j)' => IsFiniteSet(BytesIn(files'[j]))
    BY <2>1, <2>2, SameLinesStep
  <2>4. AuditTypeOK' /\ StepInv'
    BY <2>1 DEF AuditInv, AuditTypeOK, StepInv, Present
  <2>5. SizeInv' /\ HoleInv'
    BY <2>1, <2>3 DEF AuditInv, SizeInv, HoleInv, Holes, Present
  <2> QED
    BY <2>3, <2>4, <2>5 DEF AuditInv
<1> QED
  BY <1>1, AuditStep, RemoveOldestStep, ShiftStep, RetireLogStep, ReopenStep, WriteStep,
     KillStep, RestartStep DEF AuditNext

(* The invariant of the audit log and its backups, through rotations that  *)
(* calls fail in and kills interrupt.                                      *)
THEOREM AuditInvHolds == AuditSpec => []AuditInv
BY AuditInvInit, AuditInvStep, PTL DEF AuditSpec

(* Whenever audit() is interrupted, the files read from the oldest backup  *)
(* to the log have lines in the order of the calls and none twice; without *)
(* a failed call they have the last lines, without a gap.                  *)
THEOREM BackupsInOrder == AuditSpec => []RetainedInOrder
<1>1. AuditInv => RetainedInOrder
  BY DEF AuditInv
<1> QED
  BY <1>1, AuditInvHolds, PTL

-----------------------------------------------------------------------------
(* Rotations that were not due.  The log is only renamed while it is full  *)
(* for the line in hand; a backup with nothing behind it is full for that  *)
(* line, or a kill came between.                                           *)
DueInv ==
    /\ pc \in {"remove", "shift"} /\ Present(0) => Bytes(files[0]) + line.size > RotateBytes
    /\ pc \in {"idle", "dead"} => line = NoAuditLine

EarlyLines == {n \in 1 .. Len(audited) : Early(n)}

FullBehind ==
    \A i \in 1 .. Keep :
        Present(i) /\ Behind(i) = {} => Bytes(files[i]) + line.size > RotateBytes

EarlyInv ==
    /\ DueInv
    /\ failures = 0 => /\ Cardinality(EarlyLines) <= kills
                       /\ Cardinality(EarlyLines) = kills => FullBehind

(* Line n is in file j. *)
Holds(j, n) == Present(j) /\ \E k \in DOMAIN files[j] : files[j][k].number = n

LEMMA BehindHolds ==
    ASSUME NEW i, NEW n
    PROVE  n \in Behind(i) <=> \E j \in 0 .. i - 1 : Holds(j, n)
BY DEF Behind, Holds

LEMMA EarlyFinite ==
    ASSUME AuditTypeOK
    PROVE  IsFiniteSet(EarlyLines) /\ Cardinality(EarlyLines) \in Nat
<1>1. Len(audited) \in Nat
  BY LenProperties DEF AuditTypeOK
<1>2. IsFiniteSet(1 .. Len(audited))
  BY <1>1, FS_Interval
<1>3. EarlyLines \in SUBSET (1 .. Len(audited))
  BY DEF EarlyLines
<1>4. IsFiniteSet(EarlyLines)
  BY <1>2, <1>3, FS_Subset
<1> QED
  BY <1>4, FS_CardinalityType

(* No early line is added, and what is full stays so.                      *)
LEMMA EarlyNotMore ==
    ASSUME AuditTypeOK, AuditTypeOK', EarlyInv, DueInv', kills' = kills,
           failures' = 0 => failures = 0 /\ EarlyLines' \subseteq EarlyLines /\ (FullBehind => FullBehind')
    PROVE  EarlyInv'
<1> SUFFICES ASSUME failures' = 0
             PROVE  /\ Cardinality(EarlyLines') <= kills
                    /\ Cardinality(EarlyLines') = kills => FullBehind'
  BY DEF EarlyInv
<1>1. EarlyLines' \in SUBSET EarlyLines
  OBVIOUS
<1>2. Cardinality(EarlyLines') <= Cardinality(EarlyLines)
  BY <1>1, EarlyFinite, FS_Subset
<1>3. Cardinality(EarlyLines) \in Nat /\ Cardinality(EarlyLines') \in Nat /\ kills \in Nat
  <2>1. IsFiniteSet(EarlyLines')
    BY <1>1, EarlyFinite, FS_Subset
  <2> QED
    BY <2>1, EarlyFinite, FS_CardinalityType DEF AuditTypeOK
<1>4. Cardinality(EarlyLines) <= kills /\ (Cardinality(EarlyLines) = kills => FullBehind)
  BY DEF EarlyInv
<1>5. Cardinality(EarlyLines') = kills => Cardinality(EarlyLines) = kills
  BY <1>2, <1>3, <1>4
<1> QED
  BY <1>2, <1>3, <1>4, <1>5

(* The files that are left hold what they held, and the line in hand is    *)
(* not smaller.                                                            *)
LEMMA SameBehind ==
    ASSUME AuditInv, audited' = audited, line.size \in Nat, line'.size \in Nat,
           line'.size >= line.size,
           \A j \in 0 .. Keep - 1 : \A n : Holds(j, n)' <=> Holds(j, n),
           \A i \in 1 .. Keep : Present(i)' => Present(i) /\ files'[i] = files[i]
    PROVE  EarlyLines' \subseteq EarlyLines /\ (FullBehind => FullBehind')
<1>1. ASSUME NEW i \in 1 .. Keep PROVE Behind(i)' = Behind(i)
  <2>1. \A j \in 0 .. i - 1 : j \in 0 .. Keep - 1
    BY AuditAssumption
  <2>2. \A n : n \in Behind(i)' <=> \E j \in 0 .. i - 1 : Holds(j, n)'
    BY DEF Behind, Holds
  <2>3. \A n : n \in Behind(i) <=> \E j \in 0 .. i - 1 : Holds(j, n)
    BY BehindHolds
  <2>4. \A n : n \in Behind(i)' <=> n \in Behind(i)
    BY <2>1, <2>2, <2>3
  <2> QED
    BY <2>4
<1>2. ASSUME NEW n, Early(n)' PROVE Early(n)
  <2>1. PICK i \in 1 .. Keep :
          /\ Present(i)' /\ n \in Behind(i)' /\ \A m \in Behind(i)' : n <= m
          /\ Bytes(files'[i]) + audited[n].size <= RotateBytes
    BY <1>2 DEF Early
  <2> QED
    BY <1>1, <2>1 DEF Early
<1>3. ASSUME FullBehind PROVE FullBehind'
  <2> SUFFICES ASSUME NEW i \in 1 .. Keep, Present(i)', Behind(i)' = {}
               PROVE  Bytes(files'[i]) + line'.size > RotateBytes
    BY DEF FullBehind
  <2>1. Present(i) /\ files'[i] = files[i] /\ Bytes(files[i]) + line.size > RotateBytes
    BY <1>1, <1>3 DEF FullBehind
  <2>2. i \in Names
    BY AuditAssumption DEF Names
  <2>3. Bytes(files[i]) \in Nat
    BY <2>1, <2>2, FS_CardinalityType DEF AuditInv, SizeInv, Bytes
  <2> QED
    BY <2>1, <2>3, AuditAssumption
<1> QED
  BY <1>2, <1>3 DEF EarlyLines

LEMMA LineSize == ASSUME AuditTypeOK PROVE line.size \in Nat /\ NoAuditLine.size = 0
<1>1. NoAuditLine.size = 0
  BY DEF NoAuditLine
<1>2. \A l \in AuditLine : l.size \in Nat
  BY AuditAssumption DEF AuditLine
<1> QED
  BY <1>1, <1>2 DEF AuditTypeOK

(* The lines behind a file stay behind it when a file gets the next name.  *)
LEMMA MoveBehind ==
    ASSUME AuditTypeOK, NEW i \in Names, Moved(i), NEW h \in Names, Present(h),
           NEW b \in Names, b = NameBehind(i, h)
    PROVE  Behind(b)' = Behind(h)
<1> SUFFICES ASSUME NEW n PROVE n \in Behind(b)' <=> n \in Behind(h)
  OBVIOUS
<1>1. Names = 0 .. Keep /\ Keep \in Nat /\ i \in Nat /\ h \in Nat /\ h # i + 1
      /\ ~Present(i + 1)
  BY AuditAssumption DEF Names, Moved
<1>2. /\ \A j \in Names : Present(j)' =>
           \E g \in Names : Present(g) /\ j = NameBehind(i, g) /\ files'[j] = files[g]
      /\ \A g \in Names : Present(g) =>
           NameBehind(i, g) \in Names /\ Present(NameBehind(i, g))'
           /\ files'[NameBehind(i, g)] = files[g]
  BY MovedFiles
<1>3. \A g \in Names : g # i + 1 => (NameBehind(i, g) < b <=> g < h)
  BY <1>1 DEF NameBehind
<1>4. n \in Behind(h) <=> \E g \in 0 .. h - 1 : Holds(g, n)
  BY BehindHolds
<1>5. n \in Behind(b)' <=> \E j \in 0 .. b - 1 : Holds(j, n)'
  BY DEF Behind, Holds
<1>6. ASSUME NEW g \in 0 .. h - 1, Holds(g, n)
      PROVE  \E j \in 0 .. b - 1 : Holds(j, n)'
  <2>1. g \in Names /\ Present(g) /\ g < h /\ g # i + 1
    BY <1>1, <1>6 DEF Holds
  <2> DEFINE j == NameBehind(i, g)
  <2>2. j \in Names /\ Present(j)' /\ files'[j] = files[g] /\ j < b
    BY <1>2, <1>3, <2>1
  <2>3. j \in 0 .. b - 1
    BY <1>1, <2>2 DEF NameBehind
  <2>4. files'[j] # Absent /\ \E k \in DOMAIN files'[j] : files'[j][k].number = n
    BY <1>6, <2>1, <2>2 DEF Holds, Present
  <2> HIDE DEF j
  <2> QED
    BY <2>3, <2>4 DEF Holds, Present
<1>7. ASSUME NEW j \in 0 .. b - 1, Holds(j, n)'
      PROVE  \E g \in 0 .. h - 1 : Holds(g, n)
  <2>1. j \in Names /\ Present(j)'
    BY <1>1, <1>2, <1>7 DEF Holds
  <2>2. PICK g \in Names : Present(g) /\ j = NameBehind(i, g) /\ files'[j] = files[g]
    BY <1>2, <2>1
  <2>3. g # i + 1
    BY <1>1, <2>2
  <2>4. g < h
    BY <1>1, <1>3, <2>2, <2>3 DEF NameBehind
  <2>5. Holds(g, n)
    BY <1>7, <2>2 DEF Holds
  <2> QED
    BY <1>1, <2>4, <2>5
<1> QED
  BY <1>4, <1>5, <1>6, <1>7

LEMMA MoveEarly ==
    ASSUME AuditInv, NEW i \in Names, Moved(i), line' = line,
           i = 0 => Bytes(files[0]) + line.size > RotateBytes
    PROVE  EarlyLines' \subseteq EarlyLines /\ (FullBehind => FullBehind')
<1>1. AuditTypeOK /\ audited' = audited /\ Keep \in Nat /\ 1 .. Keep \subseteq Names
      /\ i \in Nat /\ Names = 0 .. Keep
  BY AuditAssumption DEF AuditInv, Moved, Names
<1>2. \A j \in Names : Present(j)' =>
        \E h \in Names : Present(h) /\ j = NameBehind(i, h) /\ files'[j] = files[h]
  BY <1>1, MovedFiles
<1>3. \A j \in 1 .. Keep : Present(j)' =>
        \E h \in Names : /\ Present(h) /\ files'[j] = files[h]
                         /\ Behind(j)' = Behind(h)
                         /\ h \in 1 .. Keep \/ (h = 0 /\ i = 0)
  <2> SUFFICES ASSUME NEW j \in 1 .. Keep, Present(j)'
               PROVE  \E h \in Names : /\ Present(h) /\ files'[j] = files[h]
                                       /\ Behind(j)' = Behind(h)
                                       /\ h \in 1 .. Keep \/ (h = 0 /\ i = 0)
    OBVIOUS
  <2>1. PICK h \in Names : Present(h) /\ j = NameBehind(i, h) /\ files'[j] = files[h]
    BY <1>1, <1>2
  <2>2. Behind(j)' = Behind(h)
    BY <1>1, <2>1, MoveBehind
  <2>4. h \in 1 .. Keep \/ (h = 0 /\ i = 0)
    BY <1>1, <2>1 DEF NameBehind
  <2> QED
    BY <2>1, <2>2, <2>4
<1>4. Behind(0) = {}
  BY DEF Behind
<1>5. ASSUME NEW n, Early(n)' PROVE Early(n)
  <2>1. PICK j \in 1 .. Keep :
          /\ Present(j)' /\ n \in Behind(j)' /\ \A m \in Behind(j)' : n <= m
          /\ Bytes(files'[j]) + audited[n].size <= RotateBytes
    BY <1>1, <1>5 DEF Early
  <2>2. PICK h \in Names : /\ Present(h) /\ files'[j] = files[h]
                           /\ Behind(j)' = Behind(h)
                           /\ h \in 1 .. Keep \/ (h = 0 /\ i = 0)
    BY <1>3, <2>1
  <2>3. h \in 1 .. Keep
    BY <1>4, <2>1, <2>2
  <2> QED
    BY <2>1, <2>2, <2>3 DEF Early
<1>6. ASSUME FullBehind PROVE FullBehind'
  <2> SUFFICES ASSUME NEW j \in 1 .. Keep, Present(j)', Behind(j)' = {}
               PROVE  Bytes(files'[j]) + line.size > RotateBytes
    BY DEF FullBehind
  <2>1. PICK h \in Names : /\ Present(h) /\ files'[j] = files[h]
                           /\ Behind(j)' = Behind(h)
                           /\ h \in 1 .. Keep \/ (h = 0 /\ i = 0)
    BY <1>3
  <2>2. Behind(h) = {}
    BY <2>1
  <2> QED
    BY <1>6, <2>1, <2>2 DEF FullBehind
<1> QED
  BY <1>1, <1>5, <1>6 DEF EarlyLines

LEMMA EarlyInvInit == AuditInit => EarlyInv
<1> SUFFICES ASSUME AuditInit PROVE EarlyInv
  OBVIOUS
<1>1. /\ pc = "idle" /\ line = NoAuditLine /\ audited = <<>> /\ kills = 0
      /\ \A i \in 1 .. Keep : files[i] = Absent
  BY AuditAssumption DEF AuditInit, Names
<1>2. EarlyLines = {}
  BY <1>1 DEF EarlyLines
<1>3. Cardinality(EarlyLines) = 0
  BY <1>2, FS_EmptySet
<1> QED
  BY <1>1, <1>3 DEF EarlyInv, DueInv, FullBehind, Present

(* The log keeps its size while a rotation goes on.                        *)
LEMMA DueStep ==
    ASSUME AuditInv, DueInv, AuditNext
    PROVE  DueInv'
<1>1. AuditTypeOK /\ 0 \in Names /\ Keep \in Nat
  BY AuditAssumption DEF AuditInv, Names
<1>2. ASSUME NEW size \in Sizes, Audit(size) PROVE DueInv'
  <2>1. ASSUME pc' = "remove", Present(0) PROVE Bytes(files[0]) + line'.size > RotateBytes
    BY <1>2, <2>1 DEF Audit, RotationDue, LogSize
  <2>2. files' = files /\ pc' \in {"remove", "write"}
    BY <1>2 DEF Audit
  <2> QED
    BY <2>1, <2>2 DEF DueInv, Present
<1>3. CASE RemoveOldest
  <2>1. Keep # 0 /\ pc = "remove"
    BY <1>3 DEF RemoveOldest, AuditInv, StepInv, RotationOn
  <2>2. pc' = "shift" /\ line' = line /\ files' \in {files, [files EXCEPT ![Keep] = Absent]}
    BY <1>3 DEF RemoveOldest, Rest
  <2>3. files'[0] = files[0]
    BY <1>1, <2>1, <2>2 DEF AuditTypeOK
  <2> QED
    BY <2>1, <2>2, <2>3 DEF DueInv, Present
<1>4. CASE Shift
  <2>1. /\ pc = "shift" /\ pc' = "shift" /\ index \in Nat /\ index > 1 /\ line' = line
        /\ files' \in {files, [files EXCEPT ![index] = Absent], Renaming(index - 1, index)}
    BY <1>1, <1>4, AuditAssumption
       DEF Shift, Renamed, RenamedOver, Rest, AuditTypeOK, Names
  <2>2. files'[0] = files[0]
    BY <1>1, <2>1 DEF AuditTypeOK, Renaming
  <2> QED
    BY <2>1, <2>2 DEF DueInv, Present
<1>5. CASE RetireLog
  <2>1. /\ pc = "shift" /\ line' = line
        /\ pc' = "open" \/ (pc' = "shift" /\ files' = [files EXCEPT ![1] = Absent])
    BY <1>5 DEF RetireLog, Rest
  <2>2. pc' = "shift" => files'[0] = files[0]
    BY <1>1, <2>1 DEF AuditTypeOK
  <2> QED
    BY <2>1, <2>2 DEF DueInv, Present
<1>6. CASE Reopen
  BY <1>6 DEF Reopen, DueInv
<1>7. CASE Write
  BY <1>7 DEF Write, DueInv
<1>8. CASE Kill
  BY <1>8 DEF Kill, DueInv
<1>9. CASE Restart
  BY <1>9 DEF Restart, DueInv
<1> QED
  BY <1>2, <1>3, <1>4, <1>5, <1>6, <1>7, <1>8, <1>9 DEF AuditNext

(* What no file is taken from or renamed to leaves every line behind the   *)
(* same backups.                                                           *)
LEMMA SameFilesEarly ==
    ASSUME AuditInv, SameLines, line.size \in Nat, line'.size \in Nat, line'.size >= line.size,
           \A j \in Names \ {0} : files'[j] = files[j]
    PROVE  EarlyLines' \subseteq EarlyLines /\ (FullBehind => FullBehind')
<1>1. Names = 0 .. Keep /\ Keep \in Nat
  BY AuditAssumption DEF Names
<1>2. ASSUME NEW j \in Names, NEW n PROVE Holds(j, n)' <=> Holds(j, n)
  BY DEF SameLines, Holds
<1>3. \A j \in 0 .. Keep - 1 : \A n : Holds(j, n)' <=> Holds(j, n)
  BY <1>1, <1>2
<1>4. \A i \in 1 .. Keep : Present(i)' => Present(i) /\ files'[i] = files[i]
  BY <1>1 DEF Present
<1> QED
  BY <1>3, <1>4, SameBehind DEF SameLines

(* The line that is written is an early one only if a backup with nothing  *)
(* behind it was not full.                                                 *)
LEMMA WrittenEarly ==
    ASSUME AuditInv, EarlyInv, Written, failures = 0, kills' = kills
    PROVE  Cardinality(EarlyLines') <= kills /\ FullBehind'
<1> DEFINE new == Len(audited) + 1
<1>1. /\ AuditTypeOK /\ RecordInv /\ Names = 0 .. Keep /\ Keep \in Nat /\ kills \in Nat
      /\ Len(audited) \in Nat /\ line.number = new /\ line.size \in Nat
  BY AuditAssumption, LineSize, LenProperties
     DEF AuditInv, AuditTypeOK, Names, Written
<1>2. /\ Len(audited') = new /\ audited'[new] = line
      /\ \A n \in 1 .. Len(audited) : audited'[n] = audited[n]
      /\ files[0] \in Seq(AuditLine)
      /\ DOMAIN files'[0] = DOMAIN files[0] \cup {Len(files[0]) + 1}
      /\ \A k \in DOMAIN files[0] : files'[0][k] = files[0][k]
      /\ files'[0][Len(files[0]) + 1] = line
      /\ \A j \in Names \ {0} : files'[j] = files[j]
      /\ \A j \in Names : Present(j)' <=> Present(j)
      /\ Present(0)
  BY <1>1, WrittenFiles, LenProperties DEF AuditTypeOK, Written
<1> HIDE DEF new
<1>3. ASSUME NEW j \in Names, NEW n
      PROVE  Holds(j, n)' <=> Holds(j, n) \/ (j = 0 /\ n = new)
  <2>1. CASE j = 0
    BY <1>1, <1>2, <2>1 DEF Holds
  <2>2. CASE j # 0
    BY <1>2, <2>2 DEF Holds
  <2> QED
    BY <2>1, <2>2
<1>4. ASSUME NEW i \in 1 .. Keep PROVE Behind(i)' = Behind(i) \cup {new}
  <2>1. \A j \in 0 .. i - 1 : j \in Names
    BY <1>1
  <2>2. 0 \in 0 .. i - 1
    OBVIOUS
  <2>3. \A n : n \in Behind(i)' <=> \E j \in 0 .. i - 1 : Holds(j, n)'
    BY DEF Behind, Holds
  <2>4. \A n : n \in Behind(i) <=> \E j \in 0 .. i - 1 : Holds(j, n)
    BY BehindHolds
  <2>5. \A n : n \in Behind(i)' <=> n \in Behind(i) \/ n = new
    BY <1>3, <2>1, <2>2, <2>3, <2>4
  <2> QED
    BY <2>5
<1>5. ASSUME NEW i \in 1 .. Keep, NEW n \in Behind(i) PROVE n \in 1 .. Len(audited)
  <2>1. PICK j \in 0 .. i - 1 : Holds(j, n)
    BY <1>5, BehindHolds
  <2>2. j \in Names
    BY <1>1
  <2>3. PICK k \in DOMAIN files[j] : Present(j) /\ files[j][k].number = n
    BY <2>1 DEF Holds
  <2>4. files[j][k].number \in Nat \ {0} /\ files[j][k].number <= Len(audited)
    BY <1>1, <2>2, <2>3, LinesOf DEF RecordInv
  <2> QED
    BY <1>1, <2>3, <2>4
<1>6. FullBehind'
  BY <1>4 DEF FullBehind
<1>7. ASSUME NEW n \in 1 .. new, Early(n)', n # new PROVE n \in EarlyLines
  <2>1. PICK i \in 1 .. Keep :
          /\ Present(i)' /\ n \in Behind(i)' /\ \A m \in Behind(i)' : n <= m
          /\ Bytes(files'[i]) + audited'[n].size <= RotateBytes
    BY <1>7 DEF Early
  <2>2. n \in 1 .. Len(audited) /\ i \in Names \ {0}
    BY <1>1, <1>7 DEF new
  <2>3. /\ Present(i) /\ n \in Behind(i) /\ \A m \in Behind(i) : n <= m
        /\ Bytes(files[i]) + audited[n].size <= RotateBytes
    BY <1>2, <1>4, <1>7, <2>1, <2>2
  <2> QED
    BY <2>2, <2>3 DEF Early, EarlyLines
<1>8. ASSUME NEW n, n = new, Early(n)' PROVE ~FullBehind
  <2>1. PICK i \in 1 .. Keep :
          /\ Present(i)' /\ \A m \in Behind(i)' : new <= m
          /\ Bytes(files'[i]) + audited'[new].size <= RotateBytes
    BY <1>8 DEF Early
  <2>2. i \in Names \ {0}
    BY <1>1
  <2>3. Behind(i) = {}
    <3> SUFFICES ASSUME NEW m \in Behind(i) PROVE FALSE
      OBVIOUS
    <3>1. m \in 1 .. Len(audited) /\ new <= m
      BY <1>4, <1>5, <2>1
    <3> QED
      BY <1>1, <3>1 DEF new
  <2>4. Present(i) /\ Bytes(files[i]) + line.size <= RotateBytes
    BY <1>2, <2>1, <2>2
  <2>5. Bytes(files[i]) \in Nat
    BY <2>2, <2>4, FS_CardinalityType DEF AuditInv, SizeInv, Bytes
  <2>6. ~(Bytes(files[i]) + line.size > RotateBytes)
    BY <1>1, <2>4, <2>5, AuditAssumption
  <2> QED
    BY <2>3, <2>4, <2>6 DEF FullBehind
<1>9. EarlyLines' = {n \in 1 .. new : Early(n)'}
  BY <1>2 DEF EarlyLines
<1>10. /\ IsFiniteSet(EarlyLines) /\ Cardinality(EarlyLines) \in Nat
       /\ Cardinality(EarlyLines) <= kills /\ (Cardinality(EarlyLines) = kills => FullBehind)
  BY <1>1, EarlyFinite DEF EarlyInv
<1>11. CASE FullBehind
  <2>1. EarlyLines' \in SUBSET EarlyLines
    BY <1>7, <1>8, <1>9, <1>11
  <2>2. IsFiniteSet(EarlyLines') /\ Cardinality(EarlyLines') <= Cardinality(EarlyLines)
    BY <1>10, <2>1, FS_Subset
  <2>3. Cardinality(EarlyLines') \in Nat
    BY <2>2, FS_CardinalityType
  <2> QED
    BY <1>1, <1>6, <1>10, <2>2, <2>3
<1>12. CASE ~FullBehind
  <2> DEFINE E == EarlyLines \cup {new}
  <2>1. EarlyLines' \in SUBSET E
    BY <1>7, <1>9
  <2>2. IsFiniteSet(E) /\ Cardinality(E) <= Cardinality(EarlyLines) + 1 /\ Cardinality(E) \in Nat
    <3>1. IsFiniteSet(E) /\ Cardinality(E) =
            IF new \in EarlyLines THEN Cardinality(EarlyLines) ELSE Cardinality(EarlyLines) + 1
      BY <1>10, FS_AddElement
    <3> HIDE DEF E
    <3> QED
      BY <1>10, <3>1
  <2> HIDE DEF E
  <2>3. IsFiniteSet(EarlyLines') /\ Cardinality(EarlyLines') <= Cardinality(E)
    BY <2>1, <2>2, FS_Subset
  <2>4. Cardinality(EarlyLines') \in Nat
    BY <2>3, FS_CardinalityType
  <2> QED
    BY <1>1, <1>6, <1>10, <1>12, <2>2, <2>3, <2>4
<1> QED
  BY <1>11, <1>12

LEMMA EarlyInvStep == AuditInv /\ AuditInv' /\ EarlyInv /\ [AuditNext]_auditVars => EarlyInv'
<1> SUFFICES ASSUME AuditInv, AuditInv', EarlyInv, [AuditNext]_auditVars PROVE EarlyInv'
  OBVIOUS
<1>1. /\ AuditTypeOK /\ AuditTypeOK' /\ DueInv /\ line.size \in Nat /\ line'.size \in Nat
      /\ NoAuditLine.size = 0 /\ kills \in Nat /\ failures \in Nat
      /\ 0 \in Names /\ Keep \in Nat
  <2>1. AuditTypeOK /\ AuditTypeOK' /\ DueInv
    BY DEF AuditInv, EarlyInv
  <2>2. line'.size \in Nat
    <3>1. NoAuditLine.size \in Nat
      BY DEF NoAuditLine
    <3>2. \A l \in AuditLine : l.size \in Nat
      BY AuditAssumption DEF AuditLine
    <3> QED
      BY <2>1, <3>1, <3>2 DEF AuditTypeOK
  <2> QED
    BY <2>1, <2>2, LineSize, AuditAssumption DEF AuditTypeOK, Names
<1>2. CASE UNCHANGED auditVars
  <2>1. UNCHANGED <<files, pc, line, audited, kills, failures>>
    BY <1>2 DEF auditVars
  <2>2. SameLines /\ DueInv'
    BY <1>1, <2>1 DEF SameLines, Present, DueInv
  <2>3. EarlyLines' \subseteq EarlyLines /\ (FullBehind => FullBehind')
    BY <1>1, <2>1, <2>2, SameFilesEarly
  <2> QED
    BY <1>1, <2>1, <2>2, <2>3, EarlyNotMore
<1>3. ASSUME AuditNext PROVE DueInv'
  BY <1>1, <1>3, DueStep
<1>4. ASSUME NEW size \in Sizes, Audit(size) PROVE EarlyInv'
  <2>1. /\ pc = "idle" /\ UNCHANGED <<files, audited, kills>>
        /\ failures' = failures \/ failures' = failures + 1
    BY <1>4 DEF Audit
  <2>2. SameLines /\ DueInv' /\ line = NoAuditLine /\ line'.size >= line.size
    BY <1>1, <1>3, <1>4, <2>1 DEF SameLines, Present, DueInv, AuditNext
  <2>3. EarlyLines' \subseteq EarlyLines /\ (FullBehind => FullBehind')
    BY <1>1, <2>1, <2>2, SameFilesEarly
  <2> QED
    BY <1>1, <2>1, <2>2, <2>3, EarlyNotMore
<1>5. CASE RemoveOldest
  <2>1. /\ UNCHANGED <<line, audited, kills>> /\ DueInv' /\ pc = "remove"
        /\ \/ failures' = failures + 1
           \/ failures' = failures /\ files' = [files EXCEPT ![Keep] = Absent]
    BY <1>3, <1>5 DEF RemoveOldest, Rest, AuditNext
  <2>2. CASE failures' = failures + 1
    BY <1>1, <2>1, <2>2, EarlyNotMore
  <2>3. CASE failures' = failures /\ files' = [files EXCEPT ![Keep] = Absent]
    <3>1. Keep # 0 /\ Keep \in Names /\ Removed(Keep) /\ Names = 0 .. Keep
      BY <1>1, <2>1, <2>3 DEF AuditInv, StepInv, RotationOn, Names, Removed
    <3>2. /\ ~Present(Keep)'
          /\ \A j \in Names \ {Keep} : files'[j] = files[j] /\ (Present(j)' <=> Present(j))
      BY <1>1, <3>1, RemovedFiles
    <3>3. \A j \in 0 .. Keep - 1 : j \in Names \ {Keep}
      BY <1>1, <3>1
    <3>4. \A j \in 0 .. Keep - 1 : \A n : Holds(j, n)' <=> Holds(j, n)
      BY <3>2, <3>3 DEF Holds
    <3>5. \A i \in 1 .. Keep : Present(i)' => Present(i) /\ files'[i] = files[i]
      BY <3>1, <3>2
    <3>6. EarlyLines' \subseteq EarlyLines /\ (FullBehind => FullBehind')
      BY <1>1, <2>1, <3>4, <3>5, SameBehind
    <3> QED
      BY <1>1, <2>1, <2>3, <3>6, EarlyNotMore
  <2> QED
    BY <2>1, <2>2, <2>3
<1>6. CASE Shift
  <2>1. /\ UNCHANGED <<line, audited, kills>> /\ DueInv' /\ pc = "shift" /\ index > 1
        /\ \/ failures' = failures + 1
           \/ failures' = failures /\ files' = files
           \/ failures' = failures /\ Present(index)
           \/ /\ failures' = failures /\ Present(index - 1) /\ ~Present(index)
              /\ files' = Renaming(index - 1, index)
    BY <1>3, <1>6 DEF Shift, Renamed, RenamedOver, Rest, AuditNext, Present
  <2>2. CASE failures' = failures + 1
    BY <1>1, <2>1, <2>2, EarlyNotMore
  <2>3. CASE failures' = failures /\ files' = files
    <3>1. SameLines
      BY <2>1, <2>3 DEF SameLines, Present
    <3>2. EarlyLines' \subseteq EarlyLines /\ (FullBehind => FullBehind')
      BY <1>1, <2>1, <2>3, <3>1, SameFilesEarly
    <3> QED
      BY <1>1, <2>1, <2>3, <3>2, EarlyNotMore
  <2>4. CASE failures' = failures /\ Present(index)
    <3>1. failures' # 0
      BY <2>1, <2>4 DEF AuditInv, StepInv
    <3> QED
      BY <1>1, <2>1, <3>1, EarlyNotMore
  <2>5. CASE /\ failures' = failures /\ Present(index - 1) /\ ~Present(index)
             /\ files' = Renaming(index - 1, index)
    <3>1. PICK i \in Names : i = index - 1 /\ i # 0 /\ index = i + 1
      BY <1>1, <2>1 DEF AuditTypeOK, Names
    <3>2. Moved(i)
      BY <1>1, <2>1, <2>5, <3>1 DEF Moved, Renaming, AuditTypeOK
    <3>3. EarlyLines' \subseteq EarlyLines /\ (FullBehind => FullBehind')
      BY <2>1, <3>1, <3>2, MoveEarly
    <3> QED
      BY <1>1, <2>1, <2>5, <3>3, EarlyNotMore
  <2> QED
    BY <2>1, <2>2, <2>3, <2>4, <2>5
<1>7. CASE RetireLog
  <2>1. /\ UNCHANGED <<line, audited, kills>> /\ DueInv' /\ pc = "shift" /\ index = 1
        /\ \/ failures' = failures + 1
           \/ failures' = failures /\ (~Present(0) \/ Present(1))
           \/ /\ failures' = failures /\ Present(0) /\ ~Present(1)
              /\ files' = Renaming(0, 1)
    BY <1>3, <1>7 DEF RetireLog, Renamed, RenamedOver, Rest, AuditNext, Present
  <2>2. CASE failures' = failures + 1
    BY <1>1, <2>1, <2>2, EarlyNotMore
  <2>3. CASE failures' = failures /\ (~Present(0) \/ Present(1))
    <3>1. failures' # 0
      BY <2>1, <2>3 DEF AuditInv, StepInv
    <3> QED
      BY <1>1, <2>1, <3>1, EarlyNotMore
  <2>4. CASE /\ failures' = failures /\ Present(0) /\ ~Present(1)
             /\ files' = Renaming(0, 1)
    <3>1. 0 + 1 = 1 /\ 1 \in Names /\ Bytes(files[0]) + line.size > RotateBytes
      BY <1>1, <2>1, <2>4 DEF DueInv, AuditTypeOK
    <3>2. Moved(0)
      BY <1>1, <2>1, <2>4, <3>1 DEF Moved, Renaming
    <3>3. EarlyLines' \subseteq EarlyLines /\ (FullBehind => FullBehind')
      BY <1>1, <2>1, <3>1, <3>2, MoveEarly
    <3> QED
      BY <1>1, <2>1, <2>4, <3>3, EarlyNotMore
  <2> QED
    BY <2>1, <2>2, <2>3, <2>4
<1>8. ASSUME UNCHANGED <<audited, kills, line>>, DueInv',
             failures' = failures + 1 \/ (failures' = failures /\ files' = Opened)
      PROVE  EarlyInv'
  <2>1. CASE failures' = failures + 1
    BY <1>1, <1>8, <2>1, EarlyNotMore
  <2>2. CASE failures' = failures /\ files' = Opened
    <3>1. SameLines /\ \A j \in Names \ {0} : files'[j] = files[j]
      BY <1>1, <1>8, <2>2, OpenedSameLines
    <3>2. EarlyLines' \subseteq EarlyLines /\ (FullBehind => FullBehind')
      BY <1>1, <1>8, <3>1, SameFilesEarly
    <3> QED
      BY <1>1, <1>8, <2>2, <3>2, EarlyNotMore
  <2> QED
    BY <1>8, <2>1, <2>2
<1>9. CASE Reopen
  BY <1>3, <1>8, <1>9 DEF Reopen, Rest, AuditNext
<1>10. CASE Restart
  BY <1>3, <1>8, <1>10 DEF Restart, AuditNext
<1>11. CASE Write
  <2>1. /\ kills' = kills /\ pc = "write" /\ audited' = Append(audited, line) /\ DueInv'
        /\ failures' = failures \/ failures' = failures + 1
    BY <1>3, <1>11 DEF Write, AuditNext
  <2>2. CASE failures' = 0
    <3>1. failures = 0 /\ failures' = failures /\ auditGood
      BY <1>1, <2>1, <2>2 DEF AuditInv, StepInv
    <3>2. files' = [files EXCEPT ![0] = Append(files[0], line)]
      BY <1>1, <1>11, <3>1 DEF Write
    <3>3. Written
      BY <2>1, <3>1, <3>2 DEF Written, AuditInv, StepInv
    <3>4. Cardinality(EarlyLines') <= kills /\ FullBehind'
      BY <2>1, <3>1, <3>3, WrittenEarly
    <3> QED
      BY <2>1, <3>4 DEF EarlyInv
  <2>3. CASE failures' # 0
    BY <2>1, <2>3 DEF EarlyInv
  <2> QED
    BY <2>2, <2>3
<1>12. CASE Kill
  <2>1. UNCHANGED <<files, audited, failures>> /\ kills' = kills + 1 /\ DueInv'
    BY <1>3, <1>12 DEF Kill, AuditNext
  <2>2. EarlyLines' = EarlyLines
    BY <2>1 DEF EarlyLines, Early, Behind, Present
  <2>3. failures = 0 => Cardinality(EarlyLines) <= kills
    BY DEF EarlyInv
  <2>4. Cardinality(EarlyLines) \in Nat
    BY <1>1, EarlyFinite
  <2>5. failures = 0 => Cardinality(EarlyLines) <= kills' /\ Cardinality(EarlyLines) # kills'
    BY <1>1, <2>1, <2>3, <2>4
  <2> QED
    BY <2>1, <2>2, <2>5 DEF EarlyInv
<1> QED
  BY <1>2, <1>4, <1>5, <1>6, <1>7, <1>9, <1>10, <1>11, <1>12 DEF AuditNext

(* Files that were left although the next line had room are no more than   *)
(* the kills.                                                              *)
THEOREM EarlyInvHolds == AuditSpec => []EarlyInv
<1>1. AuditInit => EarlyInv
  BY EarlyInvInit
<1>2. AuditInv /\ AuditInv' /\ EarlyInv /\ [AuditNext]_auditVars => EarlyInv'
  BY EarlyInvStep
<1> QED
  BY <1>1, <1>2, AuditInvHolds, PTL DEF AuditSpec

(* No file exceeds the configured size with more than a line, a line is    *)
(* only given up for want of a free backup or after a kill, and a backup   *)
(* had room for the line that came next only after a kill.                 *)
THEOREM RotatedWhenDue == AuditSpec => []RotatesWhenDue
<1>1. AuditInv => BackupsKept
  <2> SUFFICES ASSUME AuditInv, failures = 0, pc = "idle", GivenUp
               PROVE  Cardinality({i \in 1 .. Keep : Present(i)}) + kills >= Keep
    BY DEF BackupsKept
  <2> DEFINE P == {i \in 1 .. Keep : Present(i)}
             A == {i \in 1 .. Keep : ~Present(i)}
  <2>1. Keep \in Nat /\ kills \in Nat
    BY AuditAssumption DEF AuditInv, AuditTypeOK
  <2>2. IsFiniteSet(1 .. Keep) /\ Cardinality(1 .. Keep) = Keep
    <3>1. IsFiniteSet(1 .. Keep) /\ Cardinality(1 .. Keep) = IF 1 > Keep THEN 0 ELSE Keep - 1 + 1
      BY <2>1, FS_Interval
    <3> QED
      BY <2>1, <3>1
  <2>3. /\ IsFiniteSet((1 .. Keep) \ A)
        /\ Cardinality((1 .. Keep) \ A) = Cardinality(1 .. Keep) - Cardinality((1 .. Keep) \cap A)
    BY <2>2, FS_Difference
  <2>4. (1 .. Keep) \ A = P /\ (1 .. Keep) \cap A = A
    OBVIOUS
  <2>5. Cardinality(P) = Keep - Cardinality(A)
    BY <2>2, <2>3, <2>4
  <2>6. Cardinality(A) <= kills
    <3>1. CASE Keep = 0
      <4>1. A = {}
        BY <3>1
      <4> QED
        BY <2>1, <4>1, FS_EmptySet
    <3>2. CASE Keep # 0
      <4>1. Keep \in 1 .. Keep
        BY <2>1, <3>2
      <4>2. A = Holes(Keep)
        BY DEF Holes
      <4> QED
        BY <4>1, <4>2 DEF AuditInv, HoleInv
    <3> QED
      BY <3>1, <3>2
  <2>7. Cardinality(A) \in Nat /\ Cardinality(P) \in Nat
    <3>1. IsFiniteSet(A) /\ IsFiniteSet(P)
      BY <2>2, FS_Subset
    <3> QED
      BY <3>1, FS_CardinalityType
  <2> HIDE DEF P, A
  <2>8. Cardinality(P) + kills >= Keep
    BY <2>1, <2>5, <2>6, <2>7
  <2> QED
    BY <2>8 DEF P
<1>2. AuditInv => SizeBounded
  BY DEF AuditInv, SizeInv
<1>3. EarlyInv => NotEarly
  BY DEF EarlyInv, EarlyLines, NotEarly
<1>4. AuditInv /\ EarlyInv => RotatesWhenDue
  BY <1>1, <1>2, <1>3 DEF RotatesWhenDue
<1> QED
  BY <1>4, AuditInvHolds, EarlyInvHolds, PTL
=============================================================================
