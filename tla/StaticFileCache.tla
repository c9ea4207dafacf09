--------------------------- MODULE StaticFileCache ---------------------------
(***************************************************************************)
(* The sharded cache of StaticFileCache.cpp, shared by the worker threads. *)
(*                                                                         *)
(* get() samples the clock, looks the path up under the shard's shared     *)
(* lock, and when that does not settle it asks for the size, asks for the  *)
(* write time, revalidates under the exclusive lock, reads the file, and   *)
(* inserts under the exclusive lock.  No lock is held between these steps, *)
(* so other threads and whoever edits the document root run in between.    *)
(*                                                                         *)
(* Each replacement of a file gives it a new version, which is also its    *)
(* write time.  A body is the first len bytes of a version.  The counters  *)
(* of hits, misses and evictions, which are only reported, are left out;   *)
(* lastAccess, drawn from clock_ at each insertion, is kept as the order   *)
(* of insertion within the shard.                                          *)
(***************************************************************************)
EXTENDS Integers, Sequences, FiniteSets, SequencesExt

CONSTANTS
    Threads,
    Paths,            \* canonical paths of served files
    Shards, ShardOf,  \* shards_ and shardIndex
    Enabled,          \* enabled_
    EntryLimits,      \* the values maxEntries_ may be configured to
    MaxBytes, MaxFileBytes, Interval,
    Sizes,            \* the sizes a file may have
    Nothing,          \* an absent entry and a null pointer
    MaxEdits,         \* bound on the edits of each file
    MaxTime           \* bound on the steady clock

ASSUME CacheAssumption ==
    /\ IsFiniteSet(Paths) /\ IsFiniteSet(Shards) /\ Shards # {}
    /\ ShardOf \in [Paths -> Shards]
    /\ Enabled \in BOOLEAN
    /\ EntryLimits \subseteq Nat \ {0} /\ MaxBytes \in Nat \ {0} /\ MaxFileBytes \in 0 .. MaxBytes
    /\ Interval \in Nat /\ Sizes \subseteq Nat
    /\ LET file == [version : Nat, size : Nat, etag : Nat \X Nat]
       IN  Nothing \notin file \cup [file : file, modified : Nat, validatedAt : Nat]
    /\ MaxEdits \in Nat /\ MaxTime \in Nat

VARIABLES
    maxEntries,    \* maxEntries_
    disk,          \* each file: its version and size; version 0 is no file
    edits,         \* history: the number of edits of each file
    changedAt,     \* history: the time of the last edit of each file
    now,           \* steady_clock
    entries,       \* each path's Entry, or Nothing
    order,         \* each shard's paths by lastAccess, oldest first
    shardBytes,    \* each Shard's bytes
    totalBytes,    \* bytes_
    totalEntries,  \* entries_
    pc,            \* where each thread is in get()
    local          \* its local variables

cacheVars == <<entries, order, shardBytes, totalBytes, totalEntries>>
vars == <<maxEntries, disk, edits, changedAt, now, cacheVars, pc, local>>

NoFile == [version |-> 0, size |-> 0]
Idle   == [path |-> Nothing, now |-> 0, edits |-> 0, size |-> 0, modified |-> 0,
           file |-> Nothing]

Init ==
    /\ maxEntries \in EntryLimits
    /\ disk \in [Paths -> {[version |-> 1, size |-> n] : n \in Sizes} \cup {NoFile}]
    /\ edits = [p \in Paths |-> 0]
    /\ changedAt = [p \in Paths |-> 0]
    /\ now = 0
    /\ entries = [p \in Paths |-> Nothing]
    /\ order = [s \in Shards |-> <<>>]
    /\ shardBytes = [s \in Shards |-> 0]
    /\ totalBytes = 0 /\ totalEntries = 0
    /\ pc = [t \in Threads |-> "idle"]
    /\ local = [t \in Threads |-> Idle]

-----------------------------------------------------------------------------
(* Whoever maintains the document root replaces and removes files.         *)
Edit(p, file) ==
    /\ edits[p] < MaxEdits
    /\ disk' = [disk EXCEPT ![p] = file]
    /\ edits' = [edits EXCEPT ![p] = @ + 1]
    /\ changedAt' = [changedAt EXCEPT ![p] = now]
    /\ UNCHANGED <<maxEntries, now, cacheVars, pc, local>>

Replace(p) == \E n \in Sizes : Edit(p, [version |-> edits[p] + 2, size |-> n])
RemoveFile(p) == disk[p] # NoFile /\ Edit(p, NoFile)

Tick ==
    /\ now < MaxTime
    /\ now' = now + 1
    /\ UNCHANGED <<maxEntries, disk, edits, changedAt, cacheVars, pc, local>>

-----------------------------------------------------------------------------
(* get().  A step of thread t that goes on at point to, or returns file.   *)
GoTo(t, to) == pc' = [pc EXCEPT ![t] = to]

Return(t, file) ==
    /\ pc' = [pc EXCEPT ![t] = "returned"]
    /\ local' = [local EXCEPT ![t].file = file]

Rest == UNCHANGED <<maxEntries, disk, edits, changedAt, now>>

(* The lookup under the shared lock: a recently validated entry is served  *)
(* without asking the file system.                                         *)
Lookup(t, p) ==
    /\ pc[t] = "idle"
    /\ LET hit == /\ Enabled /\ entries[p] # Nothing
                  /\ now - entries[p].validatedAt < Interval
       IN  /\ pc' = [pc EXCEPT ![t] = IF hit THEN "returned" ELSE "size"]
           /\ local' = [local EXCEPT ![t] =
                [Idle EXCEPT !.path = p, !.now = now, !.edits = edits[p],
                             !.file = IF hit THEN entries[p].file ELSE Nothing]]
    /\ UNCHANGED cacheVars
    /\ Rest

StatSize(t) ==
    LET p == local[t].path IN
    /\ pc[t] = "size"
    /\ \/ /\ disk[p] = NoFile
          /\ Return(t, Nothing)
       \/ /\ disk[p] # NoFile
          /\ local' = [local EXCEPT ![t].size = disk[p].size]
          /\ GoTo(t, "modified")
    /\ UNCHANGED cacheVars
    /\ Rest

(* A failing last_write_time yields file_time_type::min(): version 0.      *)
StatModified(t) ==
    /\ pc[t] = "modified"
    /\ local' = [local EXCEPT ![t].modified = disk[local[t].path].version]
    /\ GoTo(t, IF Enabled THEN "revalidate" ELSE "read")
    /\ UNCHANGED cacheVars
    /\ Rest

(* Is entry e still the file whose size and write time were just read?     *)
SameFile(e, l) == e # Nothing /\ l.modified = e.modified /\ l.size = e.file.size

Revalidate(t) ==
    LET p == local[t].path IN
    /\ pc[t] = "revalidate"
    /\ \/ /\ SameFile(entries[p], local[t])
          /\ entries' = [entries EXCEPT ![p].validatedAt = local[t].now]
          /\ Return(t, entries[p].file)
       \/ /\ ~SameFile(entries[p], local[t])
          /\ GoTo(t, "read")
          /\ UNCHANGED <<entries, local>>
    /\ UNCHANGED <<order, shardBytes, totalBytes, totalEntries>>
    /\ Rest

(* The read asks for exactly the size seen before: a file that has become  *)
(* shorter, or is gone, makes get() return null.                           *)
Read(t) ==
    LET p == local[t].path
        n == local[t].size
        file == [version |-> disk[p].version, size |-> n, etag |-> <<n, local[t].modified>>]
        bypass == ~Enabled \/ n > MaxFileBytes \/ n > MaxBytes
    IN  /\ pc[t] = "read"
        /\ \/ /\ disk[p] = NoFile \/ disk[p].size < n
              /\ Return(t, Nothing)
           \/ /\ disk[p] # NoFile /\ disk[p].size >= n
              /\ pc' = [pc EXCEPT ![t] = IF bypass THEN "returned" ELSE "insert"]
              /\ local' = [local EXCEPT ![t].file = file]
        /\ UNCHANGED cacheVars
        /\ Rest

-----------------------------------------------------------------------------
CeilDiv(a, b) == (a + b - 1) \div b
ShardMaxEntries == CeilDiv(maxEntries, Cardinality(Shards))
ShardMaxBytes   == CeilDiv(MaxBytes, Cardinality(Shards))

SizeOf(e) == IF e = Nothing THEN 0 ELSE e.file.size

(* The sum of the sizes of paths, counted byte by byte.                    *)
BytesOf(paths, sizes) == Cardinality(UNION {{p} \X (1 .. sizes[p]) : p \in paths})

Oldest(paths, n) == {paths[i] : i \in 1 .. n}

(* evictIfNeeded drops the paths with the oldest lastAccess one by one     *)
(* until the shard is empty or fits: how many of paths it drops, given     *)
(* their sizes and the shard's bytes.                                      *)
Evicted(paths, sizes, bytes) ==
    Min({n \in 0 .. Len(paths) :
           \/ n = Len(paths)
           \/ /\ Len(paths) - n <= ShardMaxEntries
              /\ bytes - BytesOf(Oldest(paths, n), sizes) <= ShardMaxBytes})

(* The insertion and the eviction are one critical section.  l holds the   *)
(* local variables of get(), replaced what the path's old entry counts.    *)
InsertWith(t, l, replaced) ==
    LET p == l.path
        s == ShardOf[p]
        sizes == [q \in Paths |-> IF q = p THEN l.size ELSE SizeOf(entries[q])]
        paths == Append(RemoveFirst(order[s], p), p)
        n == Evicted(paths, sizes, shardBytes[s] - replaced + l.size)
        victims == Oldest(paths, n)
        freed == BytesOf(victims, sizes)
    IN  /\ pc[t] = "insert"
        /\ entries' = [q \in Paths |->
              IF q \in victims THEN Nothing
              ELSE IF q = p THEN [file |-> l.file, modified |-> l.modified, validatedAt |-> l.now]
              ELSE entries[q]]
        /\ order' = [order EXCEPT ![s] = SubSeq(paths, n + 1, Len(paths))]
        /\ shardBytes' = [shardBytes EXCEPT ![s] = @ - replaced + l.size - freed]
        /\ totalBytes' = totalBytes - replaced + l.size - freed
        /\ totalEntries' = totalEntries + (IF entries[p] = Nothing THEN 1 ELSE 0) - n
        /\ GoTo(t, "returned")
        /\ UNCHANGED local
        /\ Rest

OldSize(t) == SizeOf(entries[local[t].path])

(* Mutant: the entry counts as validated when it is inserted, not when     *)
(* get() began.                                                            *)
InsertStampedLate(t) == InsertWith(t, [local[t] EXCEPT !.now = now], OldSize(t))

(* Mutant: the write time, and with it the tag, is read after the bytes. *)
InsertStatsLate(t) ==
    LET m == disk[local[t].path].version
    IN  InsertWith(t, [local[t] EXCEPT !.modified = m, !.file.etag[2] = m], OldSize(t))

(* Mutant: the bytes of the replaced entry are not given back. *)
InsertLeaksReplaced(t) == InsertWith(t, local[t], 0)

Insert(t) == InsertWith(t, local[t], OldSize(t))

(* The response has been built; the thread is free for another request.    *)
Respond(t) ==
    /\ pc[t] = "returned"
    /\ GoTo(t, "idle")
    /\ local' = [local EXCEPT ![t] = Idle]
    /\ UNCHANGED cacheVars
    /\ Rest

-----------------------------------------------------------------------------
Next ==
    \/ \E p \in Paths : Replace(p) \/ RemoveFile(p)
    \/ Tick
    \/ \E t \in Threads :
         \/ \E p \in Paths : Lookup(t, p)
         \/ StatSize(t) \/ StatModified(t) \/ Revalidate(t) \/ Read(t)
         \/ Insert(t) \/ Respond(t)

Spec == Init /\ [][Next]_vars

-----------------------------------------------------------------------------
Versions == 0 .. MaxEdits + 1
Files  == [version : Versions, size : Sizes, etag : Sizes \X Versions] \cup {Nothing}
Locals == [path : Paths \cup {Nothing}, now : 0 .. MaxTime, edits : 0 .. MaxEdits,
           size : Sizes \cup {0}, modified : Versions, file : Files]

(* The members of StaticFileCache.hpp and the locals of get() keep their   *)
(* types; the unsigned byte and entry counters never wrap below zero.      *)
TypeOK ==
    /\ maxEntries \in EntryLimits
    /\ disk \in [Paths -> [version : Versions, size : Sizes \cup {0}]]
    /\ edits \in [Paths -> 0 .. MaxEdits] /\ changedAt \in [Paths -> 0 .. MaxTime]
    /\ now \in 0 .. MaxTime
    /\ \A p \in Paths : entries[p] # Nothing =>
         entries[p] \in [file : Files \ {Nothing}, modified : Versions, validatedAt : 0 .. MaxTime]
    /\ \A s \in Shards : order[s] \in Seq(Paths)
    /\ shardBytes \in [Shards -> Nat] /\ totalBytes \in Nat /\ totalEntries \in Nat
    /\ pc \in [Threads -> {"idle", "size", "modified", "revalidate", "read", "insert", "returned"}]
    /\ local \in [Threads -> Locals]

Held(paths)   == BytesOf(paths, [p \in Paths |-> SizeOf(entries[p])])
Cached(paths) == {p \in paths : entries[p] # Nothing}

(* What adminStatusResponse reports is what the shards hold, through every *)
(* replacement and eviction: the byte and entry counters agree with the    *)
(* entries, and every entry is known to the eviction order exactly once.   *)
AccountingExact ==
    /\ \A s \in Shards : shardBytes[s] = Held({p \in Paths : ShardOf[p] = s})
    /\ totalBytes = Held(Paths)
    /\ totalEntries = Cardinality(Cached(Paths))
    /\ \A s \in Shards :
         /\ ToSet(order[s]) = Cached({p \in Paths : ShardOf[p] = s})
         /\ IsInjective(order[s])

Complete(file, p) == file.version = disk[p].version /\ file.size = disk[p].size

(* The files get() holds for path p: in the cache or on their way out.     *)
FilesOf(p) == ({local[t].file : t \in {u \in Threads : local[u].path = p}}
               \cup {IF entries[p] = Nothing THEN Nothing ELSE entries[p].file})
              \ {Nothing}

(* A file with the ETag of the current file is the whole current file,     *)
(* although size, write time and bytes were read one after the other while *)
(* the file could change.  Hence a 304 for the current tag is right, and a *)
(* revalidation that succeeds on the current file serves its bytes.        *)
CurrentTagMeansCurrentBytes ==
    \A p \in Paths : \A file \in FilesOf(p) :
        disk[p] # NoFile /\ file.etag = <<disk[p].size, disk[p].version>> => Complete(file, p)

(* A file that has not changed for the revalidation interval is served as  *)
(* it is: complete, current and not as a 500; a removed one is not served. *)
FreshWhenQuiet ==
    \A t \in Threads :
        LET l == local[t] IN
        /\ pc[t] = "returned"
        /\ l.edits = edits[l.path] /\ changedAt[l.path] + Interval <= l.now
        => IF disk[l.path] = NoFile THEN l.file = Nothing
           ELSE l.file # Nothing /\ Complete(l.file, l.path)
=============================================================================
