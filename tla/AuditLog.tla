------------------------------ MODULE AuditLog ------------------------------
(***************************************************************************)
(* The audit log of Logger.cpp and its rotation.  Request threads call     *)
(* audit() under fileMutex_, so calls do not interleave; but a rotation is *)
(* a sequence of file-system calls, and the process may be killed between  *)
(* any two of them and started again.  Every one of the calls may also     *)
(* fail (another process holds the file open, no descriptor is left, the   *)
(* disk is full); the code goes on as if it had not.                       *)
(*                                                                         *)
(* files[0] is audit.log and files[i] is audit.log.i.  A line is its       *)
(* number and its size; each line is flushed, so a kill loses none that is *)
(* in a file.                                                              *)
(***************************************************************************)
EXTENDS Integers, Sequences, FiniteSets

CONSTANTS
    RotateBytes,   \* auditRotateBytes_
    Keep,          \* auditRotateKeep_
    Sizes,         \* the sizes of lines
    Absent,        \* no file of that name
    MaxLines,      \* bound on the calls of audit()
    MaxKills,      \* bound on the kills of the process
    MaxFailures    \* bound on the file-system calls that fail

ASSUME AuditAssumption ==
    /\ RotateBytes \in Nat /\ Keep \in Nat
    /\ Sizes \subseteq Nat \ {0} /\ Absent \notin Seq([number : Nat, size : Nat])
    /\ MaxLines \in Nat /\ MaxKills \in Nat /\ MaxFailures \in Nat

VARIABLES
    files,     \* the log and its backups: sequences of lines, or Absent
    auditGood, \* is audit_ open and in a good state?
    pc,        \* where audit() is
    index,     \* the loop variable of rotateAuditIfNeeded
    line,      \* the line audit() was called with
    audited,   \* history: the lines audit() was done with
    kills, failures   \* history: how often the process was killed, a call failed

auditVars == <<files, auditGood, pc, index, line, audited, kills, failures>>

Names == 0 .. Keep
Present(i) == files[i] # Absent

(* The size of a file, counted byte by byte.                               *)
BytesIn(lines) == UNION {{k} \X (1 .. lines[k].size) : k \in DOMAIN lines}
Bytes(lines) == Cardinality(BytesIn(lines))

NoAuditLine == [number |-> 0, size |-> 0]
RotationOn  == RotateBytes # 0 /\ Keep # 0

(* The constructor opens the log for appending, which creates it.          *)
AuditInit ==
    /\ files = [i \in Names |-> IF i = 0 THEN <<>> ELSE Absent]
    /\ auditGood = TRUE
    /\ pc = "idle" /\ index = 0 /\ line = NoAuditLine
    /\ audited = <<>> /\ kills = 0 /\ failures = 0

Rest == UNCHANGED <<line, audited, kills>>
Alive == pc # "dead"

-----------------------------------------------------------------------------
(* A log that is not there has size 0: a line over the limit by itself     *)
(* rotates the backups even so.                                            *)
LogSize == IF Present(0) THEN Bytes(files[0]) ELSE 0

(* Mutant: the line to come is not counted. *)
RotationDueTooLate(l) == RotationOn /\ LogSize > RotateBytes

(* Mutant: a log that the line just fills is rotated. *)
RotationDueTooEarly(l) == RotationOn /\ LogSize + l.size >= RotateBytes

RotationDue(l) == RotationOn /\ LogSize + l.size > RotateBytes

(* When the size cannot be read there is no rotation, due or not.          *)
Audit(size) ==
    LET l == [number |-> Len(audited) + 1, size |-> size] IN
    /\ pc = "idle" /\ Len(audited) < MaxLines
    /\ line' = l
    /\ \/ /\ pc' = IF RotationDue(l) THEN "remove" ELSE "write"
          /\ UNCHANGED failures
       \/ /\ RotationOn /\ failures < MaxFailures
          /\ pc' = "write"
          /\ failures' = failures + 1
    /\ UNCHANGED <<files, auditGood, index, audited, kills>>

(* The log is closed and the oldest backup removed.                        *)
RemoveOldest ==
    /\ pc = "remove"
    /\ \/ /\ files' = [files EXCEPT ![Keep] = Absent]
          /\ UNCHANGED failures
       \/ /\ failures < MaxFailures
          /\ failures' = failures + 1
          /\ UNCHANGED files
    /\ auditGood' = FALSE
    /\ index' = Keep
    /\ pc' = "shift"
    /\ Rest

(* File from gets the name to, and replaces the file that has it.          *)
Renaming(from, to) == [files EXCEPT ![to] = files[from], ![from] = Absent]

(* Rename file from to file to, which was removed right before; a kill may *)
(* come between the two.                                                   *)
Renamed(from, to) ==
    \/ /\ files' = Renaming(from, to)
       /\ UNCHANGED failures
    \/ /\ failures < MaxFailures
       /\ failures' = failures + 1
       /\ UNCHANGED files

(* The file to could not be removed: the rename replaces it or fails too.  *)
RenamedOver(from, to) ==
    /\ failures < MaxFailures
    /\ failures' = failures + 1
    /\ files' \in {files, Renaming(from, to)}

Shift ==
    /\ pc = "shift" /\ index > 1
    /\ \/ /\ files[index - 1] = Absent
          /\ index' = index - 1
          /\ UNCHANGED <<files, failures, pc>>
       \/ /\ files[index - 1] # Absent /\ files[index] # Absent
          /\ files' = [files EXCEPT ![index] = Absent]
          /\ UNCHANGED <<index, failures, pc>>
       \/ /\ files[index - 1] # Absent /\ files[index] = Absent
          /\ Renamed(index - 1, index)
          /\ index' = index - 1
          /\ UNCHANGED pc
       \/ /\ files[index - 1] # Absent /\ files[index] # Absent
          /\ RenamedOver(index - 1, index)
          /\ index' = index - 1
          /\ UNCHANGED pc
    /\ UNCHANGED auditGood /\ Rest

(* The log itself, if it is there, becomes the first backup, in the same   *)
(* two steps.                                                              *)
RetireLog ==
    /\ pc = "shift" /\ index = 1
    /\ \/ /\ files[0] = Absent
          /\ pc' = "open"
          /\ UNCHANGED <<files, failures>>
       \/ /\ files[0] # Absent /\ files[1] # Absent
          /\ files' = [files EXCEPT ![1] = Absent]
          /\ UNCHANGED <<pc, failures>>
       \/ /\ files[0] # Absent /\ files[1] = Absent
          /\ Renamed(0, 1)
          /\ pc' = "open"
       \/ /\ files[0] # Absent /\ files[1] # Absent
          /\ RenamedOver(0, 1)
          /\ pc' = "open"
    /\ UNCHANGED <<auditGood, index>> /\ Rest

(* Mutant: the log is opened without std::ios::app. *)
OpenedTruncated == [files EXCEPT ![0] = <<>>]

Opened == [files EXCEPT ![0] = IF @ = Absent THEN <<>> ELSE @]

Reopen ==
    /\ pc = "open"
    /\ \/ /\ files' = Opened /\ auditGood' = TRUE
          /\ UNCHANGED failures
       \/ /\ failures < MaxFailures
          /\ failures' = failures + 1
          /\ UNCHANGED <<files, auditGood>>
    /\ pc' = "write"
    /\ UNCHANGED index /\ Rest

(* A line that meets a stream in a bad state is discarded without a trace; *)
(* so is one that cannot be written, which leaves the stream in that state *)
(* until the next rotation.                                                *)
Write ==
    /\ pc = "write"
    /\ \/ /\ files' = IF auditGood THEN [files EXCEPT ![0] = Append(@, line)] ELSE files
          /\ UNCHANGED <<auditGood, failures>>
       \/ /\ auditGood /\ failures < MaxFailures
          /\ failures' = failures + 1
          /\ auditGood' = FALSE
          /\ UNCHANGED files
    /\ audited' = Append(audited, line)
    /\ line' = NoAuditLine /\ index' = 0
    /\ pc' = "idle"
    /\ UNCHANGED kills

-----------------------------------------------------------------------------
(* The process is killed and started again: the constructor reopens the    *)
(* log, and goes on with a warning if it cannot.  A line that was not in   *)
(* the file yet was never answered for.                                    *)
Kill ==
    /\ Alive /\ kills < MaxKills
    /\ kills' = kills + 1
    /\ pc' = "dead" /\ auditGood' = FALSE /\ line' = NoAuditLine /\ index' = 0
    /\ UNCHANGED <<files, audited, failures>>

Restart ==
    /\ pc = "dead"
    /\ \/ /\ files' = Opened /\ auditGood' = TRUE
          /\ UNCHANGED failures
       \/ /\ failures < MaxFailures
          /\ failures' = failures + 1
          /\ UNCHANGED <<files, auditGood>>
    /\ pc' = "idle"
    /\ UNCHANGED <<line, index, audited, kills>>

AuditNext ==
    \/ \E size \in Sizes : Audit(size)
    \/ RemoveOldest \/ Shift \/ RetireLog \/ Reopen \/ Write
    \/ Kill \/ Restart

AuditSpec == AuditInit /\ [][AuditNext]_auditVars

-----------------------------------------------------------------------------
(* A file with a higher number is older, and so is a line further to the   *)
(* front of its file.                                                      *)
Older(i, k, j, m) == i > j \/ (i = j /\ k < m)

(* The line audited with number n is in one of the files.                  *)
Kept(n) == \E i \in Names : Present(i) /\ audited[n] \in {files[i][k] : k \in DOMAIN files[i]}

(* The files read from the oldest to the newest have every line once and   *)
(* in the order in which it was audited, whichever calls failed.           *)
InOrder ==
    \A i, j \in Names : Present(i) /\ Present(j) =>
        \A k \in DOMAIN files[i], m \in DOMAIN files[j] :
            Older(i, k, j, m) => files[i][k].number < files[j][m].number

(* Without a failure there is no gap either: with a line, the files have   *)
(* all that were audited behind it.                                        *)
NoGap ==
    \A i \in Names : Present(i) =>
        \A k \in DOMAIN files[i] :
            \A n \in files[i][k].number .. Len(audited) : Kept(n)

(* Wherever a rotation was interrupted by a kill, and however it went on   *)
(* after the restart, the backups and the log read from the oldest to the  *)
(* newest are the last lines that were audited, in order, without a gap    *)
(* and without a repetition.  When a call failed there may be gaps, but    *)
(* the order is still kept and no line is there twice.                     *)
RetainedInOrder == InOrder /\ (failures = 0 => NoGap)

(* A file over the limit holds one line, unless a call failed.              *)
SizeBounded ==
    failures = 0 /\ RotationOn => \A i \in Names :
        Present(i) => Len(files[i]) <= 1 \/ Bytes(files[i]) <= RotateBytes

(* The backup count is enforced (docs/audit-log-rotation.md:31) and used:  *)
(* lines are only given up when there are Keep backups, less one for each  *)
(* rotation that a kill cut short.                                         *)
GivenUp == \E n \in 1 .. Len(audited) : ~Kept(n)

BackupsKept ==
    failures = 0 /\ pc = "idle" /\ GivenUp =>
        Cardinality({i \in 1 .. Keep : Present(i)}) + kills >= Keep

(* The numbers of the lines in the files younger than file i.              *)
Behind(i) ==
    UNION {{files[j][k].number : k \in DOMAIN files[j]} : j \in {h \in 0 .. i - 1 : Present(h)}}

(* Line n is the first one behind a backup that had room for it.           *)
Early(n) ==
    \E i \in 1 .. Keep :
        /\ Present(i) /\ n \in Behind(i)
        /\ \A m \in Behind(i) : n <= m
        /\ Bytes(files[i]) + audited[n].size <= RotateBytes

(* A line starts a new file before it must only where a kill came between  *)
(* the rotation for another line and the writing of that line.             *)
NotEarly ==
    failures = 0 => Cardinality({n \in 1 .. Len(audited) : Early(n)}) <= kills

(* The log is rotated when it would exceed the configured size             *)
(* (docs/audit-log-rotation.md:15) and not before, however rotations and   *)
(* kills alternate: no file grows beyond its limit, no backup had room for *)
(* the line that came next, and no line is given up while a backup is free.*)
RotatesWhenDue == SizeBounded /\ BackupsKept /\ NotEarly
=============================================================================
