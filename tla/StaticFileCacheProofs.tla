------------------------ MODULE StaticFileCacheProofs ------------------------
(***************************************************************************)
(* What StaticFileCache serves is right for any number of threads, files,  *)
(* shards and edits: the ETag stands for the bytes, and a file that is     *)
(* left alone is served as it is, by CacheInv.  How much the eviction      *)
(* drops does not matter for that, but the counters tell it exactly, by    *)
(* AccountInv.                                                             *)
(***************************************************************************)
EXTENDS StaticFileCache, FiniteSetTheorems, SequenceTheorems, WellFoundedInduction, TLAPS

AnyFile  == [version : Nat, size : Nat, etag : Nat \X Nat]
AnyEntry == [file : AnyFile, modified : Nat, validatedAt : Nat]
AnyLocal == [path : Paths \cup {Nothing}, now : Nat, edits : Nat, size : Nat,
             modified : Nat, file : AnyFile \cup {Nothing}]
Points   == {"idle", "size", "modified", "revalidate", "read", "insert", "returned"}

(* The types that the two properties rest on.                              *)
Typed ==
    /\ disk \in [Paths -> [version : Nat, size : Nat]]
    /\ edits \in [Paths -> Nat] /\ changedAt \in [Paths -> Nat] /\ now \in Nat
    /\ entries \in [Paths -> AnyEntry \cup {Nothing}]
    /\ pc \in [Threads -> Points] /\ local \in [Threads -> AnyLocal]

(* Versions only grow, for each edit gives a later one or removes the file. *)
DiskInv ==
    \A p \in Paths :
        /\ disk[p].version = 0 <=> disk[p] = NoFile
        /\ disk[p].version <= edits[p] + 1
        /\ changedAt[p] <= now

(* A version that path p has, or had.                                      *)
Seen(x, p) == x <= edits[p] + 1 /\ (disk[p] # NoFile => x <= disk[p].version)

(* The bytes were read after the write time that is in the tag.            *)
GoodFile(file, p) ==
    /\ file.etag[1] = file.size /\ file.etag[2] <= file.version
    /\ Seen(file.version, p)

Present(p) == disk[p] # NoFile

(* An entry that was validated by a get() that began after the last edit   *)
(* holds the current file.                                                 *)
EntryInv ==
    \A p \in Paths : entries[p] # Nothing =>
        /\ GoodFile(entries[p].file, p)
        /\ entries[p].modified = entries[p].file.etag[2]
        /\ entries[p].validatedAt <= now
        /\ changedAt[p] < entries[p].validatedAt => Present(p) /\ Complete(entries[p].file, p)

(* While the file is not edited, get() collects the facts of one version.  *)
Undisturbed(t) ==
    LET l == local[t]
        p == l.path
    IN  /\ pc[t] = "modified" => Present(p) /\ l.size = disk[p].size
        /\ pc[t] \in {"revalidate", "read"} =>
             Present(p) /\ l.size = disk[p].size /\ l.modified = disk[p].version
        /\ pc[t] = "insert" => Present(p) /\ Complete(l.file, p)
        /\ pc[t] = "returned" /\ changedAt[p] + Interval <= l.now =>
             IF Present(p) THEN l.file # Nothing /\ Complete(l.file, p) ELSE l.file = Nothing

GetInv(t) ==
    LET l == local[t]
        p == l.path
    IN  IF pc[t] = "idle" THEN l.file = Nothing
        ELSE /\ p \in Paths
             /\ l.now <= now /\ l.edits <= edits[p]
             /\ l.edits < edits[p] => l.now <= changedAt[p]
             /\ l.file # Nothing => GoodFile(l.file, p)
             /\ pc[t] \in {"revalidate", "read"} => Seen(l.modified, p)
             /\ pc[t] = "insert" => l.file # Nothing /\ l.modified = l.file.etag[2]
             /\ l.edits = edits[p] => Undisturbed(t)

CacheInv == Typed /\ DiskInv /\ EntryInv /\ \A t \in Threads : GetInv(t)

-----------------------------------------------------------------------------
LEMMA InvInit == Init => CacheInv
<1> SUFFICES ASSUME Init PROVE CacheInv
  OBVIOUS
<1>1. disk \in [Paths -> [version : Nat, size : Nat]]
  BY CacheAssumption DEF Init, NoFile
<1>2. Typed
  BY <1>1 DEF Init, Typed, AnyLocal, Idle, Points
<1>3. DiskInv
  BY DEF Init, DiskInv, NoFile
<1>4. EntryInv
  BY DEF Init, EntryInv
<1>5. \A t \in Threads : GetInv(t)
  BY DEF Init, GetInv, Idle
<1> QED
  BY <1>2, <1>3, <1>4, <1>5 DEF CacheInv

(* An edit of p: what is known of other paths stays, what was read of p    *)
(* was read before.                                                        *)
LEMMA EditStep ==
    ASSUME CacheInv, NEW p \in Paths, NEW file \in [version : Nat, size : Nat], Edit(p, file),
           file = NoFile \/ file.version = edits[p] + 2
    PROVE  CacheInv'
<1>1. /\ disk'[p] = file /\ edits'[p] = edits[p] + 1 /\ changedAt'[p] = now
      /\ \A q \in Paths \ {p} :
           disk'[q] = disk[q] /\ edits'[q] = edits[q] /\ changedAt'[q] = changedAt[q]
      /\ UNCHANGED <<now, entries, pc, local>>
  BY DEF CacheInv, Typed, Edit, cacheVars
<1>2. Typed'
  BY DEF CacheInv, Typed, Edit, cacheVars
<1>3. edits[p] \in Nat /\ now \in Nat /\ changedAt[p] <= now
  BY DEF CacheInv, Typed, DiskInv
<1>4. DiskInv'
  <2>1. file.version = 0 <=> file = NoFile
    BY <1>3 DEF NoFile
  <2>2. file.version <= edits[p] + 2
    BY <1>3 DEF NoFile
  <2> QED
    BY <1>1, <1>3, <2>1, <2>2 DEF CacheInv, DiskInv
<1>5. ASSUME NEW q \in Paths, NEW x \in Nat, Seen(x, q)
      PROVE  x <= edits'[q] + 1 /\ (disk'[q] # NoFile => x <= disk'[q].version)
  <2>1. CASE q = p
    BY <1>1, <1>3, <1>5, <2>1 DEF Seen
  <2>2. CASE q # p
    BY <1>1, <1>5, <2>2 DEF Seen
  <2> QED
    BY <2>1, <2>2
<1>6. ASSUME NEW q \in Paths, NEW f \in AnyFile, GoodFile(f, q)
      PROVE  /\ f.etag[1] = f.size /\ f.etag[2] <= f.version
             /\ f.version <= edits'[q] + 1
             /\ disk'[q] # NoFile => f.version <= disk'[q].version
  BY <1>5, <1>6 DEF GoodFile, AnyFile
<1>7. EntryInv'
  <2> SUFFICES ASSUME NEW q \in Paths, entries[q] # Nothing
               PROVE  /\ GoodFile(entries[q].file, q)'
                      /\ entries[q].modified = entries[q].file.etag[2]
                      /\ entries[q].validatedAt <= now
                      /\ changedAt'[q] < entries[q].validatedAt =>
                           Present(q)' /\ Complete(entries[q].file, q)'
    BY <1>1 DEF EntryInv
  <2>1. /\ entries[q] \in AnyEntry
        /\ GoodFile(entries[q].file, q) /\ entries[q].modified = entries[q].file.etag[2]
        /\ entries[q].validatedAt <= now
        /\ changedAt[q] < entries[q].validatedAt =>
             Present(q) /\ Complete(entries[q].file, q)
    BY DEF CacheInv, Typed, EntryInv
  <2>2. GoodFile(entries[q].file, q)'
    BY <1>1, <1>6, <2>1 DEF GoodFile, Seen, AnyEntry
  <2>3. CASE q = p
    BY <1>1, <1>3, <2>1, <2>2, <2>3 DEF AnyEntry
  <2>4. CASE q # p
    BY <1>1, <2>1, <2>2, <2>4 DEF Present, Complete
  <2> QED
    BY <2>3, <2>4
<1>8. ASSUME NEW t \in Threads PROVE GetInv(t)'
  <2> DEFINE l == local[t]
  <2>1. GetInv(t) /\ l \in AnyLocal
    BY DEF CacheInv, Typed
  <2>2. CASE pc[t] = "idle"
    BY <1>1, <2>1, <2>2 DEF GetInv
  <2>3. CASE pc[t] # "idle" /\ l.path = p
    <3>1. l.edits < edits'[p] /\ l.now <= changedAt'[p]
      BY <1>1, <1>3, <2>1, <2>3 DEF GetInv, AnyLocal
    <3>2. l.file # Nothing => GoodFile(l.file, p)'
      BY <1>1, <1>6, <2>1, <2>3 DEF GetInv, GoodFile, Seen, AnyLocal
    <3>3. pc[t] \in {"revalidate", "read"} => Seen(l.modified, p)'
      BY <1>1, <1>5, <2>1, <2>3 DEF GetInv, Seen, AnyLocal
    <3> QED
      BY <1>1, <1>3, <2>1, <2>3, <3>1, <3>2, <3>3 DEF GetInv, AnyLocal
  <2>4. CASE pc[t] # "idle" /\ l.path # p
    BY <1>1, <2>1, <2>4 DEF GetInv, GoodFile, Seen, Undisturbed, Present, Complete
  <2> QED
    BY <2>2, <2>3, <2>4
<1> QED
  BY <1>2, <1>4, <1>7, <1>8 DEF CacheInv

LEMMA TickStep == ASSUME CacheInv, Tick PROVE CacheInv'
<1>1. now' = now + 1 /\ now \in Nat
      /\ UNCHANGED <<disk, edits, changedAt, entries, pc, local>>
  BY DEF CacheInv, Typed, Tick, cacheVars
<1>2. Typed'
  BY <1>1 DEF CacheInv, Typed
<1>3. DiskInv'
  BY <1>1 DEF CacheInv, Typed, DiskInv
<1>4. EntryInv'
  BY <1>1 DEF CacheInv, Typed, EntryInv, AnyEntry, GoodFile, Seen, Present, Complete
<1>5. ASSUME NEW t \in Threads PROVE GetInv(t)'
  <2>1. GetInv(t) /\ local[t] \in AnyLocal
    BY DEF CacheInv, Typed
  <2> QED
    BY <1>1, <2>1 DEF GetInv, GoodFile, Seen, Undisturbed, Present, Complete, AnyLocal
<1> QED
  BY <1>2, <1>3, <1>4, <1>5 DEF CacheInv

-----------------------------------------------------------------------------
(* A step of thread t changes neither files nor time, and no other thread. *)
LEMMA ThreadStep ==
    ASSUME CacheInv, Rest, NEW t \in Threads,
           pc' \in [Threads -> Points], local' \in [Threads -> AnyLocal],
           entries' \in [Paths -> AnyEntry \cup {Nothing}],
           \A u \in Threads \ {t} : pc'[u] = pc[u] /\ local'[u] = local[u],
           EntryInv', GetInv(t)'
    PROVE  CacheInv'
<1> USE DEF Rest
<1>1. Typed'
  BY DEF CacheInv, Typed
<1>2. DiskInv'
  BY DEF CacheInv, DiskInv
<1>3. ASSUME NEW u \in Threads \ {t} PROVE GetInv(u)'
  <2>1. GetInv(u) /\ pc'[u] = pc[u] /\ local'[u] = local[u]
    BY DEF CacheInv
  <2> QED
    BY <2>1 DEF GetInv, GoodFile, Seen, Undisturbed, Present, Complete
<1> QED
  BY <1>1, <1>2, <1>3 DEF CacheInv

LEMMA EntriesKept == ASSUME CacheInv, Rest, UNCHANGED entries
                     PROVE  EntryInv' /\ entries' \in [Paths -> AnyEntry \cup {Nothing}]
BY DEF CacheInv, Typed, EntryInv, Rest, GoodFile, Seen, Present, Complete

(* A file that carries the current tag is the current file.                *)
LEMMA TagMeansBytes ==
    ASSUME CacheInv, NEW p \in Paths, NEW file \in AnyFile, GoodFile(file, p), Present(p),
           file.etag[1] = disk[p].size, file.etag[2] = disk[p].version
    PROVE  Complete(file, p)
<1>1. disk[p].version \in Nat
  BY DEF CacheInv, Typed
<1> QED
  BY <1>1 DEF GoodFile, Seen, Present, Complete, AnyFile

(* A recently validated entry was validated after the last edit, if that   *)
(* is an interval ago.                                                     *)
LEMMA LookupStep ==
    ASSUME CacheInv, NEW t \in Threads, NEW p \in Paths, Lookup(t, p) PROVE CacheInv'
<1> DEFINE e == entries[p]
           hit == Enabled /\ e # Nothing /\ now - e.validatedAt < Interval
           l == [Idle EXCEPT !.path = p, !.now = now, !.edits = edits[p],
                             !.file = IF hit THEN e.file ELSE Nothing]
<1>0. /\ Rest /\ UNCHANGED entries
      /\ pc' = [pc EXCEPT ![t] = IF hit THEN "returned" ELSE "size"]
      /\ local' = [local EXCEPT ![t] = l]
  BY DEF Lookup, cacheVars
<1>1. /\ e # Nothing => e \in AnyEntry
      /\ now \in Nat /\ edits[p] \in Nat /\ changedAt[p] \in Nat /\ Interval \in Nat
      /\ pc \in [Threads -> Points] /\ local \in [Threads -> AnyLocal]
  BY CacheAssumption DEF CacheInv, Typed
<1>2. /\ l \in AnyLocal /\ l.path = p /\ l.now = now /\ l.edits = edits[p]
      /\ l.file = IF hit THEN e.file ELSE Nothing
  BY <1>1 DEF Idle, AnyLocal, AnyEntry
<1> HIDE DEF l
<1>3. local'[t] = l /\ pc'[t] = IF hit THEN "returned" ELSE "size"
  BY <1>0, <1>1
<1>4. CASE hit
  <2>1. /\ GoodFile(e.file, p) /\ e.file \in AnyFile
        /\ changedAt[p] < e.validatedAt => Present(p) /\ Complete(e.file, p)
    BY <1>1, <1>4 DEF CacheInv, EntryInv, AnyEntry
  <2>2. changedAt[p] + Interval <= now => changedAt[p] < e.validatedAt
    BY <1>1, <1>4 DEF AnyEntry
  <2>3. e.file # Nothing
    BY <2>1, CacheAssumption DEF CacheAssumption, AnyFile
  <2>4. pc'[t] = "returned" /\ l.file = e.file
    BY <1>2, <1>3, <1>4
  <2>5. GetInv(t)'
    BY <1>0, <1>1, <1>2, <1>3, <2>1, <2>2, <2>3, <2>4
       DEF GetInv, Rest, GoodFile, Seen, Undisturbed, Present, Complete
  <2> QED
    BY <1>0, <1>1, <1>2, <1>3, <2>5, ThreadStep, EntriesKept DEF Points
<1>5. CASE ~hit
  <2>1. GetInv(t)'
    BY <1>0, <1>1, <1>2, <1>3, <1>5 DEF GetInv, Rest, Undisturbed
  <2> QED
    BY <1>0, <1>1, <1>2, <1>3, <2>1, ThreadStep, EntriesKept DEF Points
<1> QED
  BY <1>4, <1>5

LEMMA StatSizeStep == ASSUME CacheInv, NEW t \in Threads, StatSize(t) PROVE CacheInv'
<1> DEFINE p == local[t].path
<1>0. Rest /\ UNCHANGED entries /\ pc[t] = "size"
  BY DEF StatSize, cacheVars
<1>1. /\ GetInv(t) /\ p \in Paths /\ local[t] \in AnyLocal
      /\ disk[p] \in [version : Nat, size : Nat]
      /\ pc \in [Threads -> Points] /\ local \in [Threads -> AnyLocal]
  BY <1>0 DEF CacheInv, Typed, GetInv
<1>2. CASE disk[p] = NoFile /\ Return(t, Nothing)
  <2>1. /\ pc'[t] = "returned" /\ local'[t] = [local[t] EXCEPT !.file = Nothing]
        /\ pc' \in [Threads -> Points] /\ local' \in [Threads -> AnyLocal]
        /\ \A u \in Threads \ {t} : pc'[u] = pc[u] /\ local'[u] = local[u]
    BY <1>1, <1>2 DEF Return, Points, AnyLocal
  <2>2. GetInv(t)'
    BY <1>0, <1>1, <1>2, <2>1 DEF GetInv, Rest, Undisturbed, Present, AnyLocal
  <2> QED
    BY <1>0, <2>1, <2>2, ThreadStep, EntriesKept
<1>3. CASE /\ disk[p] # NoFile
           /\ local' = [local EXCEPT ![t].size = disk[p].size] /\ GoTo(t, "modified")
  <2>1. /\ pc'[t] = "modified" /\ local'[t] = [local[t] EXCEPT !.size = disk[p].size]
        /\ pc' \in [Threads -> Points] /\ local' \in [Threads -> AnyLocal]
        /\ \A u \in Threads \ {t} : pc'[u] = pc[u] /\ local'[u] = local[u]
    BY <1>1, <1>3 DEF GoTo, Points, AnyLocal
  <2>2. GetInv(t)'
    BY <1>0, <1>1, <1>3, <2>1 DEF GetInv, GoodFile, Seen, Rest, Undisturbed, Present, AnyLocal
  <2> QED
    BY <1>0, <2>1, <2>2, ThreadStep, EntriesKept
<1> QED
  BY <1>2, <1>3 DEF StatSize

LEMMA StatModifiedStep == ASSUME CacheInv, NEW t \in Threads, StatModified(t) PROVE CacheInv'
<1> DEFINE p == local[t].path
           m == disk[p].version
<1>0. Rest /\ UNCHANGED entries /\ pc[t] = "modified"
  BY DEF StatModified, cacheVars
<1>1. /\ GetInv(t) /\ p \in Paths /\ local[t] \in AnyLocal /\ m \in Nat
      /\ pc \in [Threads -> Points] /\ local \in [Threads -> AnyLocal]
      /\ m <= edits[p] + 1
  BY <1>0 DEF CacheInv, Typed, GetInv, DiskInv
<1>2. /\ pc'[t] \in {"revalidate", "read"} /\ local'[t] = [local[t] EXCEPT !.modified = m]
      /\ pc' \in [Threads -> Points] /\ local' \in [Threads -> AnyLocal]
      /\ \A u \in Threads \ {t} : pc'[u] = pc[u] /\ local'[u] = local[u]
  BY <1>1 DEF StatModified, GoTo, Points, AnyLocal
<1>3. GetInv(t)'
  BY <1>0, <1>1, <1>2 DEF GetInv, GoodFile, Seen, Rest, Undisturbed, Present, AnyLocal
<1> QED
  BY <1>0, <1>2, <1>3, ThreadStep, EntriesKept

(* Size and write time are the entry's: if they are also the file's, the   *)
(* entry holds the file.                                                   *)
LEMMA RevalidateStep == ASSUME CacheInv, NEW t \in Threads, Revalidate(t) PROVE CacheInv'
<1> DEFINE p == local[t].path
           l == local[t]
           e == entries[p]
<1>0. Rest /\ pc[t] = "revalidate"
  BY DEF Revalidate
<1>1. /\ GetInv(t) /\ p \in Paths /\ l \in AnyLocal /\ DiskInv
      /\ disk[p] \in [version : Nat, size : Nat] /\ edits[p] \in Nat /\ changedAt[p] \in Nat
      /\ pc \in [Threads -> Points] /\ local \in [Threads -> AnyLocal]
      /\ entries \in [Paths -> AnyEntry \cup {Nothing}]
  BY <1>0 DEF CacheInv, Typed, GetInv
<1>2. CASE ~SameFile(e, l) /\ GoTo(t, "read") /\ UNCHANGED <<entries, local>>
  <2>1. /\ pc'[t] = "read" /\ local'[t] = l
        /\ pc' \in [Threads -> Points] /\ local' \in [Threads -> AnyLocal]
        /\ \A u \in Threads \ {t} : pc'[u] = pc[u] /\ local'[u] = local[u]
    BY <1>1, <1>2 DEF GoTo, Points
  <2>2. GetInv(t)'
    BY <1>0, <1>1, <2>1 DEF GetInv, GoodFile, Seen, Rest, Undisturbed, Present
  <2> QED
    BY <1>0, <1>2, <2>1, <2>2, ThreadStep, EntriesKept
<1>3. CASE /\ SameFile(e, l) /\ entries' = [entries EXCEPT ![p].validatedAt = l.now]
           /\ Return(t, e.file)
  <2>1. /\ e \in AnyEntry /\ GoodFile(e.file, p) /\ e.modified = e.file.etag[2]
        /\ l.modified = e.modified /\ l.size = e.file.size /\ e.file \in AnyFile
        /\ e.file # Nothing
    BY <1>1, <1>3, CacheAssumption DEF SameFile, CacheInv, EntryInv, AnyEntry, AnyFile
  <2>2. /\ pc'[t] = "returned" /\ local'[t] = [l EXCEPT !.file = e.file]
        /\ pc' \in [Threads -> Points] /\ local' \in [Threads -> AnyLocal]
        /\ \A u \in Threads \ {t} : pc'[u] = pc[u] /\ local'[u] = local[u]
    BY <1>1, <1>3, <2>1 DEF Return, Points, AnyLocal
  <2>3. /\ entries'[p] = [e EXCEPT !.validatedAt = l.now] /\ l.now \in Nat
        /\ entries' \in [Paths -> AnyEntry \cup {Nothing}]
        /\ \A q \in Paths \ {p} : entries'[q] = entries[q]
    <3>1. l.now \in Nat
      BY <1>1 DEF AnyLocal
    <3>2. [e EXCEPT !.validatedAt = l.now] \in AnyEntry
      BY <2>1, <3>1 DEF AnyEntry
    <3>3. entries' = [entries EXCEPT ![p] = [e EXCEPT !.validatedAt = l.now]]
      BY <1>3
    <3> HIDE DEF l
    <3> QED
      BY <1>1, <3>1, <3>2, <3>3
  <2>4. l.edits = edits[p] => Present(p) /\ Complete(e.file, p)
    <3>1. l.edits = edits[p] =>
            /\ Present(p) /\ e.file.etag[1] = disk[p].size /\ e.file.etag[2] = disk[p].version
      BY <1>0, <1>1, <2>1 DEF GetInv, Undisturbed, GoodFile
    <3> QED
      BY SMTT(30), <1>1, <2>1, <3>1, TagMeansBytes
  <2>5. changedAt[p] < l.now => l.edits = edits[p]
    <3>1. l.edits <= edits[p] /\ (l.edits < edits[p] => l.now <= changedAt[p])
      BY <1>0, <1>1 DEF GetInv
    <3>2. l.edits \in Nat /\ l.now \in Nat
      BY <1>1 DEF AnyLocal
    <3> QED
      BY <1>1, <3>1, <3>2
  <2>6. GetInv(t)'
    BY <1>0, <1>1, <2>1, <2>2, <2>4
       DEF GetInv, GoodFile, Seen, Rest, Undisturbed, Present, Complete, AnyLocal
  <2>7. EntryInv'
    <3> SUFFICES ASSUME NEW q \in Paths, entries'[q] # Nothing
                 PROVE  /\ GoodFile(entries'[q].file, q)
                        /\ entries'[q].modified = entries'[q].file.etag[2]
                        /\ entries'[q].validatedAt <= now
                        /\ changedAt[q] < entries'[q].validatedAt =>
                             Present(q) /\ Complete(entries'[q].file, q)
      BY <1>0 DEF EntryInv, Rest, GoodFile, Seen, Present, Complete
    <3>1. CASE q = p
      <4>1. /\ entries'[q].file = e.file /\ entries'[q].modified = e.modified
            /\ entries'[q].validatedAt = l.now
        BY <2>1, <2>3, <3>1 DEF AnyEntry
      <4>2. l.now <= now
        BY <1>0, <1>1 DEF GetInv
      <4> QED
        BY <2>1, <2>4, <2>5, <3>1, <4>1, <4>2
    <3>2. CASE q # p
      BY <2>3, <3>2 DEF CacheInv, EntryInv
    <3> QED
      BY <3>1, <3>2
  <2> QED
    BY <1>0, <2>2, <2>3, <2>6, <2>7, ThreadStep
<1> QED
  BY <1>2, <1>3 DEF Revalidate

(* The bytes are read after the write time, of a version that is the same  *)
(* unless the file was edited.                                             *)
LEMMA ReadStep == ASSUME CacheInv, NEW t \in Threads, Read(t) PROVE CacheInv'
<1> DEFINE p == local[t].path
           l == local[t]
           file == [version |-> disk[p].version, size |-> l.size, etag |-> <<l.size, l.modified>>]
<1>0. Rest /\ UNCHANGED entries /\ pc[t] = "read"
  BY DEF Read, cacheVars
<1>1. /\ GetInv(t) /\ p \in Paths /\ l \in AnyLocal /\ DiskInv
      /\ disk[p] \in [version : Nat, size : Nat] /\ edits[p] \in Nat
      /\ pc \in [Threads -> Points] /\ local \in [Threads -> AnyLocal]
  BY <1>0 DEF CacheInv, Typed, GetInv
<1>2. CASE (disk[p] = NoFile \/ disk[p].size < l.size) /\ Return(t, Nothing)
  <2>1. /\ pc'[t] = "returned" /\ local'[t] = [l EXCEPT !.file = Nothing]
        /\ pc' \in [Threads -> Points] /\ local' \in [Threads -> AnyLocal]
        /\ \A u \in Threads \ {t} : pc'[u] = pc[u] /\ local'[u] = local[u]
    BY <1>1, <1>2 DEF Return, Points, AnyLocal
  <2>2. l.edits = edits[p] => disk[p] # NoFile /\ ~(disk[p].size < l.size)
    BY <1>0, <1>1 DEF GetInv, Undisturbed, Present
  <2>3. GetInv(t)'
    BY <1>0, <1>1, <1>2, <2>1, <2>2 DEF GetInv, Rest, AnyLocal
  <2> QED
    BY <1>0, <2>1, <2>3, ThreadStep, EntriesKept
<1>3. CASE /\ disk[p] # NoFile /\ disk[p].size >= l.size
           /\ \E x \in {"returned", "insert"} : pc' = [pc EXCEPT ![t] = x]
           /\ local' = [local EXCEPT ![t].file = file]
  <2>1. /\ file \in AnyFile /\ file # Nothing
        /\ file.etag[1] = l.size /\ file.etag[2] = l.modified
        /\ file.version = disk[p].version /\ file.size = l.size
    BY <1>1, CacheAssumption DEF AnyFile, AnyLocal
  <2> HIDE DEF file
  <2>2. /\ pc'[t] \in {"returned", "insert"} /\ local'[t] = [l EXCEPT !.file = file]
        /\ pc' \in [Threads -> Points] /\ local' \in [Threads -> AnyLocal]
        /\ \A u \in Threads \ {t} : pc'[u] = pc[u] /\ local'[u] = local[u]
    BY <1>1, <1>3, <2>1 DEF Points, AnyLocal
  <2>3. /\ local'[t].file = file /\ local'[t].path = p /\ local'[t].modified = l.modified
        /\ local'[t].edits = l.edits /\ local'[t].now = l.now
    BY <1>1, <2>2 DEF AnyLocal
  <2>4. GoodFile(file, p)
    <3>1. disk[p].version <= edits[p] + 1 /\ l.modified <= disk[p].version
      BY <1>0, <1>1, <1>3 DEF GetInv, DiskInv, Seen
    <3> QED
      BY <1>1, <2>1, <3>1 DEF GoodFile, Seen
  <2>5. l.edits = edits[p] => Present(p) /\ Complete(file, p)
    BY <1>0, <1>1, <2>1 DEF GetInv, Undisturbed, Complete
  <2>6. GetInv(t)'
    BY SMTT(30), <1>0, <1>1, <2>1, <2>2, <2>3, <2>4, <2>5
       DEF GetInv, GoodFile, Seen, Rest, Undisturbed, Present, Complete
  <2> QED
    BY <1>0, <2>2, <2>6, ThreadStep, EntriesKept
<1> QED
  BY <1>2, <1>3 DEF Read

(* Whatever is evicted: an entry of the map is the one it was, or gone, or *)
(* the one just inserted.                                                  *)
LEMMA InsertEntries ==
    ASSUME NEW t \in Threads, Insert(t)
    PROVE  \E V : entries' = [q \in Paths |->
              IF q \in V THEN Nothing
              ELSE IF q = local[t].path
              THEN [file |-> local[t].file, modified |-> local[t].modified,
                    validatedAt |-> local[t].now]
              ELSE entries[q]]
BY DEF Insert, InsertWith

LEMMA InsertStep == ASSUME CacheInv, NEW t \in Threads, Insert(t) PROVE CacheInv'
<1> DEFINE p == local[t].path
           l == local[t]
           new == [file |-> l.file, modified |-> l.modified, validatedAt |-> l.now]
<1>0. Rest /\ pc[t] = "insert" /\ pc' = [pc EXCEPT ![t] = "returned"] /\ UNCHANGED local
  BY DEF Insert, InsertWith, GoTo
<1>1. /\ GetInv(t) /\ p \in Paths /\ l \in AnyLocal /\ l.file \in AnyFile
      /\ edits[p] \in Nat /\ changedAt[p] \in Nat
      /\ pc \in [Threads -> Points] /\ local \in [Threads -> AnyLocal]
      /\ entries \in [Paths -> AnyEntry \cup {Nothing}]
  BY <1>0 DEF CacheInv, Typed, GetInv, AnyLocal
<1>2. new \in AnyEntry /\ new.file = l.file /\ new.modified = l.modified
      /\ new.validatedAt = l.now
  BY <1>1 DEF AnyEntry, AnyLocal
<1>3. \A q \in Paths :
        entries'[q] = Nothing \/ (q = p /\ entries'[q] = new) \/ (q # p /\ entries'[q] = entries[q])
  BY InsertEntries
<1>4. entries' \in [Paths -> AnyEntry \cup {Nothing}]
  <2>1. \A q \in Paths : entries'[q] \in AnyEntry \cup {Nothing}
    BY <1>1, <1>2, <1>3
  <2>2. entries' = [q \in Paths |-> entries'[q]]
    BY InsertEntries
  <2> HIDE DEF new
  <2> QED
    BY <2>1, <2>2
<1> HIDE DEF new
<1>5. /\ pc'[t] = "returned" /\ local' \in [Threads -> AnyLocal]
      /\ pc' \in [Threads -> Points] /\ local'[t] = l
      /\ \A u \in Threads \ {t} : pc'[u] = pc[u] /\ local'[u] = local[u]
  BY <1>0, <1>1 DEF Points
<1>6. changedAt[p] < l.now => l.edits = edits[p]
  <2>1. l.edits <= edits[p] /\ (l.edits < edits[p] => l.now <= changedAt[p])
    BY <1>0, <1>1 DEF GetInv
  <2>2. l.edits \in Nat /\ l.now \in Nat
    BY <1>1 DEF AnyLocal
  <2> QED
    BY <1>1, <2>1, <2>2
<1>7. /\ GoodFile(l.file, p) /\ l.modified = l.file.etag[2] /\ l.now <= now
      /\ l.file # Nothing
      /\ l.edits = edits[p] => Present(p) /\ Complete(l.file, p)
  BY <1>0, <1>1 DEF GetInv, Undisturbed
<1>8. GetInv(t)'
  BY <1>0, <1>1, <1>5, <1>7
     DEF GetInv, GoodFile, Seen, Rest, Undisturbed, Present, Complete
<1>9. EntryInv'
  <2> SUFFICES ASSUME NEW q \in Paths, entries'[q] # Nothing
               PROVE  /\ GoodFile(entries'[q].file, q)
                      /\ entries'[q].modified = entries'[q].file.etag[2]
                      /\ entries'[q].validatedAt <= now
                      /\ changedAt[q] < entries'[q].validatedAt =>
                           Present(q) /\ Complete(entries'[q].file, q)
    BY <1>0 DEF EntryInv, Rest, GoodFile, Seen, Present, Complete
  <2>1. CASE q = p
    BY <1>2, <1>3, <1>6, <1>7, <2>1
  <2>2. CASE q # p
    BY <1>3, <2>2 DEF CacheInv, EntryInv
  <2> QED
    BY <2>1, <2>2
<1> QED
  BY SMTT(30), <1>0, <1>4, <1>5, <1>8, <1>9, ThreadStep

LEMMA RespondStep == ASSUME CacheInv, NEW t \in Threads, Respond(t) PROVE CacheInv'
<1>1. /\ pc \in [Threads -> Points] /\ local \in [Threads -> AnyLocal]
      /\ Rest /\ UNCHANGED entries
      /\ pc' = [pc EXCEPT ![t] = "idle"] /\ local' = [local EXCEPT ![t] = Idle]
  BY DEF CacheInv, Typed, Respond, GoTo, cacheVars
<1>2. Idle \in AnyLocal /\ Idle.file = Nothing
  BY DEF Idle, AnyLocal
<1>3. GetInv(t)'
  BY <1>1, <1>2 DEF GetInv
<1> QED
  BY <1>1, <1>2, <1>3, ThreadStep, EntriesKept DEF Points

LEMMA InvStep == CacheInv /\ [Next]_vars => CacheInv'
<1> SUFFICES ASSUME CacheInv, [Next]_vars PROVE CacheInv'
  OBVIOUS
<1>1. ASSUME NEW p \in Paths, Replace(p) PROVE CacheInv'
  <2>1. PICK n \in Sizes : Edit(p, [version |-> edits[p] + 2, size |-> n])
    BY <1>1 DEF Replace
  <2>2. [version |-> edits[p] + 2, size |-> n] \in [version : Nat, size : Nat]
    BY CacheAssumption DEF CacheInv, Typed
  <2> QED
    BY <2>1, <2>2, EditStep
<1>2. ASSUME NEW p \in Paths, RemoveFile(p) PROVE CacheInv'
  <2>1. NoFile \in [version : Nat, size : Nat]
    BY DEF NoFile
  <2> QED
    BY <1>2, <2>1, EditStep DEF RemoveFile
<1>3. ASSUME NEW t \in Threads,
             \/ \E p \in Paths : Lookup(t, p)
             \/ StatSize(t) \/ StatModified(t) \/ Revalidate(t) \/ Read(t)
             \/ Insert(t) \/ Respond(t)
      PROVE  CacheInv'
  BY <1>3, LookupStep, StatSizeStep, StatModifiedStep, RevalidateStep, ReadStep, InsertStep,
     RespondStep
<1>4. CASE UNCHANGED vars
  <2>1. UNCHANGED <<disk, edits, changedAt, now, entries, pc, local>>
    BY <1>4 DEF vars, cacheVars
  <2>2. ASSUME NEW t \in Threads PROVE GetInv(t)'
    BY <2>1 DEF CacheInv, GetInv, GoodFile, Seen, Undisturbed, Present, Complete
  <2> QED
    BY <2>1, <2>2
       DEF CacheInv, Typed, DiskInv, EntryInv, GoodFile, Seen, Present, Complete
<1> QED
  BY <1>1, <1>2, <1>3, <1>4, TickStep DEF Next

(* What entries and calls of get() under way say of a file's versions.     *)
THEOREM CacheInvHolds == Spec => []CacheInv
BY InvInit, InvStep, PTL DEF Spec

-----------------------------------------------------------------------------
(* A file in the cache or on its way out that carries the ETag of the      *)
(* current file is the whole current file: a 304 for that tag is right,    *)
(* whenever the file is edited between the size, the write time, the bytes *)
(* and the insertion.                                                      *)
THEOREM TagIsRight == Spec => []CurrentTagMeansCurrentBytes
<1>1. ASSUME CacheInv PROVE CurrentTagMeansCurrentBytes
  <2> SUFFICES ASSUME NEW p \in Paths, NEW file \in FilesOf(p), disk[p] # NoFile,
                      file.etag = <<disk[p].size, disk[p].version>>
               PROVE  Complete(file, p)
    BY DEF CurrentTagMeansCurrentBytes
  <2>1. file \in AnyFile /\ GoodFile(file, p)
    <3>1. file # Nothing
      BY DEF FilesOf
    <3>2. CASE \E t \in Threads : local[t].path = p /\ file = local[t].file
      BY <1>1, <3>1, <3>2 DEF CacheInv, Typed, GetInv, AnyLocal
    <3>3. CASE entries[p] # Nothing /\ file = entries[p].file
      BY <1>1, <3>3 DEF CacheInv, Typed, EntryInv, AnyEntry
    <3> QED
      BY <3>1, <3>2, <3>3 DEF FilesOf
  <2> QED
    BY <1>1, <2>1, TagMeansBytes DEF Present
<1> QED
  BY CacheInvHolds, <1>1, PTL

(* A file that has been left alone for the revalidation interval when      *)
(* get() begins, and until it returns, is served complete and current.     *)
THEOREM QuietFileIsFresh == Spec => []FreshWhenQuiet
<1>1. CacheInv => FreshWhenQuiet
  BY DEF CacheInv, GetInv, Undisturbed, Present, FreshWhenQuiet
<1> QED
  BY CacheInvHolds, <1>1, PTL

-----------------------------------------------------------------------------
(* The accounting of the shards.                                           *)

(* Bytes are counted path by path: those of two sets of paths add up.      *)
BytesIn(P, f) == UNION {{q} \X (1 .. f[q]) : q \in P}

LEMMA BytesFinite ==
    ASSUME NEW P \in SUBSET Paths, NEW f, \A q \in P : f[q] \in Nat
    PROVE  IsFiniteSet(BytesIn(P, f)) /\ BytesOf(P, f) = Cardinality(BytesIn(P, f))
           /\ BytesOf(P, f) \in Nat
<1> DEFINE g == [q \in P |-> {q} \X (1 .. f[q])]
           G == {{q} \X (1 .. f[q]) : q \in P}
<1>1. IsFiniteSet(P)
  BY CacheAssumption, FS_Subset DEF CacheAssumption
<1>2. g \in Surjection(P, G)
  BY DEF Surjection
<1>3. IsFiniteSet(G)
  BY <1>1, <1>2, FS_Surjection
<1>4. ASSUME NEW q \in P PROVE IsFiniteSet({q} \X (1 .. f[q]))
  <2>1. f[q] \in Int /\ 1 \in Int
    OBVIOUS
  <2>2. IsFiniteSet({q}) /\ IsFiniteSet(1 .. f[q])
    BY <2>1, FS_Singleton, FS_Interval
  <2> QED
    BY <2>2, FS_Product
<1>5. IsFiniteSet(BytesIn(P, f))
  BY <1>3, <1>4, FS_UNION DEF BytesIn
<1>6. BytesOf(P, f) = Cardinality(BytesIn(P, f))
  BY DEF BytesOf, BytesIn
<1> QED
  BY <1>5, <1>6, FS_CardinalityType

LEMMA BytesAddUp ==
    ASSUME NEW P \in SUBSET Paths, NEW Q \in SUBSET Paths, P \cap Q = {},
           NEW f, \A q \in P \cup Q : f[q] \in Nat
    PROVE  BytesOf(P \cup Q, f) = BytesOf(P, f) + BytesOf(Q, f)
<1> DEFINE A == BytesIn(P, f)
           B == BytesIn(Q, f)
<1>1. BytesIn(P \cup Q, f) = A \cup B
  BY DEF BytesIn
<1>2. A \cap B = {}
  BY DEF BytesIn
<1>3. /\ IsFiniteSet(A) /\ BytesOf(P, f) = Cardinality(A) /\ BytesOf(P, f) \in Nat
      /\ IsFiniteSet(B) /\ BytesOf(Q, f) = Cardinality(B) /\ BytesOf(Q, f) \in Nat
      /\ BytesOf(P \cup Q, f) = Cardinality(BytesIn(P \cup Q, f))
  BY BytesFinite
<1> HIDE DEF A, B
<1>4. Cardinality(A \cup B) = Cardinality(A) + Cardinality(B) - Cardinality(A \cap B)
  BY <1>3, FS_Union
<1>5. Cardinality(A \cap B) = 0 /\ Cardinality(A) \in Nat /\ Cardinality(B) \in Nat
  BY <1>2, <1>3, FS_EmptySet
<1>6. Cardinality(A \cup B) = Cardinality(A) + Cardinality(B)
  BY <1>4, <1>5
<1> QED
  BY <1>1, <1>3, <1>6

LEMMA BytesSame ==
    ASSUME NEW P, NEW f, NEW g, \A q \in P : f[q] = g[q]
    PROVE  BytesOf(P, f) = BytesOf(P, g)
<1>1. {{q} \X (1 .. f[q]) : q \in P} = {{q} \X (1 .. g[q]) : q \in P}
  OBVIOUS
<1> QED
  BY <1>1 DEF BytesOf

LEMMA BytesOfOne ==
    ASSUME NEW q, NEW f, f[q] \in Nat
    PROVE  BytesOf({q}, f) = f[q]
<1>1. UNION {{x} \X (1 .. f[x]) : x \in {q}} = {q} \X (1 .. f[q])
  OBVIOUS
<1>2. /\ IsFiniteSet({q}) /\ Cardinality({q}) = 1
      /\ IsFiniteSet(1 .. f[q]) /\ Cardinality(1 .. f[q]) = f[q]
  <2> DEFINE n == f[q]
  <2>1. 1 \in Int /\ n \in Int /\ n \in Nat
    OBVIOUS
  <2> HIDE DEF n
  <2>2. IsFiniteSet(1 .. n) /\ Cardinality(1 .. n) = IF 1 > n THEN 0 ELSE n - 1 + 1
    BY <2>1, FS_Interval
  <2>3. Cardinality(1 .. n) = n
    BY <2>1, <2>2
  <2> QED
    BY <2>2, <2>3, FS_Singleton DEF n
<1>3. Cardinality({q} \X (1 .. f[q])) = Cardinality({q}) * Cardinality(1 .. f[q])
  BY <1>2, FS_Product
<1>4. Cardinality({q} \X (1 .. f[q])) = 1 * f[q]
  BY <1>2, <1>3, Zenon
<1>5. 1 * f[q] = f[q]
  OBVIOUS
<1> QED
  BY <1>1, <1>4, <1>5 DEF BytesOf

LEMMA BytesNone ==
    ASSUME NEW P, NEW f, \A q \in P : f[q] = 0
    PROVE  BytesOf(P, f) = 0
<1>1. UNION {{q} \X (1 .. f[q]) : q \in P} = {}
  OBVIOUS
<1> QED
  BY <1>1, FS_EmptySet DEF BytesOf

(* What a new size of p and the eviction of V do to a set of paths they    *)
(* all belong to.                                                          *)
Resized(P, p, V, old, sizes, new) ==
    \A q \in P : /\ old[q] \in Nat /\ sizes[q] \in Nat
                 /\ q # p => sizes[q] = old[q]
                 /\ new[q] = IF q \in V THEN 0 ELSE sizes[q]
AddsUp(P, p, V, old, sizes, new) ==
    BytesOf(P, new) = BytesOf(P, old) - old[p] + sizes[p] - BytesOf(V, sizes)

LEMMA BytesInserted ==
    ASSUME NEW P \in SUBSET Paths, NEW p \in P, NEW V \in SUBSET P,
           NEW old, NEW sizes, NEW new, Resized(P, p, V, old, sizes, new)
    PROVE  AddsUp(P, p, V, old, sizes, new)
<1> USE DEF Resized
<1> DEFINE O == P \ {p}
           K == P \ V
<1>1. P = O \cup {p} /\ O \cap {p} = {} /\ O \in SUBSET Paths /\ {p} \in SUBSET Paths
  OBVIOUS
<1>2. P = K \cup V /\ K \cap V = {} /\ K \in SUBSET Paths /\ V \in SUBSET Paths
  OBVIOUS
<1>3. \A q \in P : sizes[q] \in Nat /\ new[q] \in Nat
  OBVIOUS
<1>4. BytesOf(P, old) = BytesOf(O, old) + old[p]
  <2>1. BytesOf(O \cup {p}, old) = BytesOf(O, old) + BytesOf({p}, old)
    BY <1>1, BytesAddUp
  <2>2. BytesOf({p}, old) = old[p]
    BY BytesOfOne
  <2> QED
    BY <1>1, <2>1, <2>2
<1>5. BytesOf(P, sizes) = BytesOf(O, sizes) + sizes[p]
  <2>1. BytesOf(O \cup {p}, sizes) = BytesOf(O, sizes) + BytesOf({p}, sizes)
    BY <1>1, <1>3, BytesAddUp
  <2>2. BytesOf({p}, sizes) = sizes[p]
    BY <1>3, BytesOfOne
  <2> QED
    BY <1>1, <2>1, <2>2
<1>6. BytesOf(O, sizes) = BytesOf(O, old)
  BY BytesSame
<1>7. BytesOf(P, sizes) = BytesOf(K, sizes) + BytesOf(V, sizes)
  BY <1>2, <1>3, BytesAddUp
<1>8. BytesOf(P, new) = BytesOf(K, new) + BytesOf(V, new)
  BY <1>2, <1>3, BytesAddUp
<1>9. BytesOf(K, new) = BytesOf(K, sizes) /\ BytesOf(V, new) = 0
  BY BytesSame, BytesNone
<1>10. BytesOf(O, old) \in Nat /\ BytesOf(K, sizes) \in Nat /\ BytesOf(V, sizes) \in Nat
  BY <1>1, <1>2, <1>3, BytesFinite
<1> QED
  BY <1>4, <1>5, <1>6, <1>7, <1>8, <1>9, <1>10 DEF AddsUp

-----------------------------------------------------------------------------
(* Sequences of paths without repetition.                                  *)
LEMMA LeastIndex ==
    ASSUME NEW I, I \subseteq Nat, I # {}
    PROVE  Min(I) \in I /\ \A i \in I : Min(I) <= i
<1> DEFINE T == {1 .. i : i \in I}
<1>1. T \subseteq FiniteSubsetsOf(Nat) /\ T # {}
  <2>1. ASSUME NEW i \in I PROVE 1 .. i \in FiniteSubsetsOf(Nat)
    <3>1. i \in Nat /\ 1 .. i \subseteq Nat
      OBVIOUS
    <3>2. IsFiniteSet(1 .. i)
      BY <3>1, FS_Interval
    <3> QED
      BY <3>1, <3>2 DEF FiniteSubsetsOf
  <2> QED
    BY <2>1
<1>2. PICK x \in T : \A y \in T : ~(<<y, x>> \in StrictSubsetOrdering(Nat))
  BY <1>1, FS_StrictSubsetOrderingWellFounded, WFMin
<1>3. PICK i \in I : x = 1 .. i
  BY <1>2
<1>4. ASSUME NEW j \in I, j < i PROVE FALSE
  <2>1. 1 .. j \subseteq 1 .. i /\ i \in 1 .. i /\ i \notin 1 .. j /\ 1 .. i \subseteq Nat
    BY <1>4
  <2>2. <<1 .. j, 1 .. i>> \in StrictSubsetOrdering(Nat)
    BY <2>1 DEF StrictSubsetOrdering
  <2> QED
    BY <1>2, <1>3, <2>2
<1>5. \A j \in I : i <= j
  BY <1>4
<1> QED
  BY <1>5 DEF Min

(* The oldest n of them and the others.                                    *)
LEMMA OldestAndRest ==
    ASSUME NEW s \in Seq(Paths), IsInjective(s), NEW n \in 0 .. Len(s)
    PROVE  LET rest == SubSeq(s, n + 1, Len(s)) IN
           /\ rest \in Seq(Paths) /\ IsInjective(rest)
           /\ ToSet(rest) = ToSet(s) \ Oldest(s, n)
           /\ Oldest(s, n) \subseteq ToSet(s) /\ Cardinality(Oldest(s, n)) = n
<1> DEFINE rest == SubSeq(s, n + 1, Len(s))
           V == Oldest(s, n)
<1>1. Len(s) \in Nat /\ DOMAIN s = 1 .. Len(s) /\ n \in Nat /\ n <= Len(s)
      /\ \A i \in 1 .. Len(s) : s[i] \in Paths
  BY LenProperties
<1>2. /\ rest \in Seq(Paths) /\ Len(rest) = Len(s) - n
      /\ \A i \in 1 .. Len(s) - n : rest[i] = s[i + n]
  <2>1. n + 1 \in Int /\ Len(s) \in Int /\ \A i \in n + 1 .. Len(s) : s[i] \in Paths
    BY <1>1
  <2>2. /\ rest \in Seq(Paths)
        /\ Len(rest) = IF n + 1 <= Len(s) THEN Len(s) - (n + 1) + 1 ELSE 0
        /\ \A i \in 1 .. Len(s) - (n + 1) + 1 : rest[i] = s[(n + 1) + i - 1]
    BY <2>1, SubSeqProperties
  <2> HIDE DEF rest
  <2>3. Len(rest) = Len(s) - n
    <3>1. CASE n + 1 <= Len(s)
      BY <1>1, <2>2, <3>1
    <3>2. CASE n = Len(s)
      BY <1>1, <2>2, <3>2
    <3>3. n + 1 <= Len(s) \/ n = Len(s)
      <4> DEFINE m == Len(s)
      <4>1. m \in Nat /\ n \in Nat /\ n <= m
        BY <1>1
      <4> HIDE DEF m
      <4> QED
        BY <4>1 DEF m
    <3> QED
      BY <3>1, <3>2, <3>3
  <2>4. ASSUME NEW i \in 1 .. Len(s) - n PROVE rest[i] = s[i + n]
    <3>1. i \in 1 .. Len(s) - (n + 1) + 1 /\ (n + 1) + i - 1 = i + n
      BY <1>1
    <3>2. rest[i] = s[(n + 1) + i - 1]
      BY <2>2, <3>1
    <3> QED
      BY <3>1, <3>2, Zenon
  <2> QED
    BY <2>2, <2>3, <2>4
<1> HIDE DEF rest
<1>3. DOMAIN rest = 1 .. Len(s) - n
  BY <1>2, LenProperties
<1>4. IsInjective(rest)
  <2> SUFFICES ASSUME NEW i \in 1 .. Len(s) - n, NEW j \in 1 .. Len(s) - n, rest[i] = rest[j]
               PROVE  i = j
    BY <1>3 DEF IsInjective
  <2>1. s[i + n] = s[j + n] /\ i + n \in 1 .. Len(s) /\ j + n \in 1 .. Len(s)
    BY <1>1, <1>2
  <2>2. i + n = j + n
    BY <1>1, <2>1 DEF IsInjective
  <2> QED
    BY <1>1, <2>2
<1>5. V \subseteq ToSet(s)
  BY <1>1 DEF ToSet, Oldest
<1>6. ToSet(rest) = ToSet(s) \ V
  <2>1. ASSUME NEW i \in 1 .. Len(s) - n PROVE rest[i] \in ToSet(s) \ V
    <3>1. rest[i] = s[i + n] /\ i + n \in 1 .. Len(s) /\ i + n > n
      BY <1>1, <1>2
    <3>2. \A k \in 1 .. n : k \in 1 .. Len(s) /\ k # i + n
      BY <1>1, <3>1
    <3>3. \A k \in 1 .. n : s[k] # s[i + n]
      BY <1>1, <3>1, <3>2 DEF IsInjective
    <3> QED
      BY <1>1, <3>1, <3>3 DEF ToSet, Oldest
  <2>2. ASSUME NEW q \in ToSet(s) \ V PROVE q \in ToSet(rest)
    <3>1. PICK j \in 1 .. Len(s) : s[j] = q
      BY <1>1 DEF ToSet
    <3>2. j - n \in 1 .. Len(s) - n /\ (j - n) + n = j
      BY <1>1, <3>1 DEF Oldest
    <3>3. rest[j - n] = q
      BY <1>2, <3>1, <3>2
    <3> QED
      BY <1>3, <3>2, <3>3 DEF ToSet
  <2> QED
    BY <1>3, <2>1, <2>2 DEF ToSet
<1>7. Cardinality(V) = n
  <2> DEFINE g == [i \in 1 .. n |-> s[i]]
  <2>1. g \in Surjection(1 .. n, V) /\ g \in Injection(1 .. n, V)
    BY <1>1 DEF Surjection, Injection, Oldest, IsInjective
  <2>2. IsFiniteSet(1 .. n) /\ Cardinality(1 .. n) = n
    BY <1>1, FS_Interval
  <2> QED
    BY <2>1, <2>2, FS_Surjection
<1> QED
  BY <1>2, <1>4, <1>5, <1>6, <1>7 DEF rest

(* The path that is used is taken out of the order and put at its end.     *)
LEMMA UsedLast ==
    ASSUME NEW s \in Seq(Paths), IsInjective(s), NEW p \in Paths
    PROVE  LET paths == Append(RemoveFirst(s, p), p) IN
           /\ paths \in Seq(Paths) /\ IsInjective(paths)
           /\ ToSet(paths) = ToSet(s) \cup {p} /\ Len(paths) \in Nat
<1> DEFINE r == RemoveFirst(s, p)
<1>0. /\ Len(s) \in Nat /\ DOMAIN s = 1 .. Len(s)
      /\ \A i \in 1 .. Len(s) : s[i] \in Paths
  BY LenProperties
<1>1. r \in Seq(Paths) /\ IsInjective(r) /\ ToSet(r) = ToSet(s) \ {p}
  <2>1. CASE ~\E i \in 1 .. Len(s) : s[i] = p
    <3>1. r = s
      BY <2>1 DEF RemoveFirst
    <3> QED
      BY <1>0, <2>1, <3>1 DEF ToSet
  <2>2. CASE \E i \in 1 .. Len(s) : s[i] = p
    <3>1. PICK k \in 1 .. Len(s) : s[k] = p
      BY <2>2
    <3>2. {i \in 1 .. Len(s) : s[i] = p} = {k}
      BY <1>0, <3>1 DEF IsInjective
    <3>3. k \in Int /\ 1 \in Int /\ k - 1 \in Int /\ k + 1 \in Int /\ Len(s) \in Int
      BY <1>0, <3>1
    <3>4. Min({k}) = k
      BY <3>3 DEF Min
    <3>5. SelectInSeq(s, LAMBDA v : v = p) = k
      BY <3>2, <3>4 DEF SelectInSeq
    <3> DEFINE a == SubSeq(s, 1, k - 1)
               b == SubSeq(s, k + 1, Len(s))
    <3>6. r = a \o b
      BY <2>2, <3>5 DEF RemoveFirst, RemoveAt
    <3>7. a \in Seq(Paths) /\ Len(a) = k - 1 /\ \A i \in 1 .. k - 1 : a[i] = s[i]
      <4>1. \A i \in 1 .. k - 1 : s[i] \in Paths
        BY <1>0, <3>1
      <4>2. /\ a \in Seq(Paths) /\ Len(a) = IF 1 <= k - 1 THEN (k - 1) - 1 + 1 ELSE 0
            /\ \A i \in 1 .. (k - 1) - 1 + 1 : a[i] = s[1 + i - 1]
        BY <3>3, <4>1, SubSeqProperties
      <4> HIDE DEF a
      <4>3. Len(a) = k - 1
        BY <3>1, <4>2
      <4>4. ASSUME NEW i \in 1 .. k - 1 PROVE a[i] = s[i]
        <5>1. i \in 1 .. (k - 1) - 1 + 1 /\ 1 + i - 1 = i
          BY <3>1
        <5>2. a[i] = s[1 + i - 1]
          BY <4>2, <5>1
        <5> QED
          BY <5>1, <5>2, Zenon
      <4> QED
        BY <4>2, <4>3, <4>4
    <3>8. b \in Seq(Paths) /\ Len(b) = Len(s) - k /\ \A i \in 1 .. Len(s) - k : b[i] = s[i + k]
      <4> DEFINE m == Len(s)
      <4>1. \A i \in k + 1 .. m : s[i] \in Paths
        BY <1>0, <3>1
      <4>2. /\ b \in Seq(Paths) /\ Len(b) = IF k + 1 <= m THEN m - (k + 1) + 1 ELSE 0
            /\ \A i \in 1 .. m - (k + 1) + 1 : b[i] = s[(k + 1) + i - 1]
        BY <3>3, <4>1, SubSeqProperties
      <4>3. m \in Nat /\ k \in 1 .. m
        BY <1>0, <3>1
      <4> HIDE DEF b, m
      <4>4. Len(b) = m - k
        BY <4>2, <4>3
      <4>5. ASSUME NEW i \in 1 .. m - k PROVE b[i] = s[i + k]
        <5>1. i \in 1 .. m - (k + 1) + 1 /\ (k + 1) + i - 1 = i + k
          BY <4>3
        <5>2. b[i] = s[(k + 1) + i - 1]
          BY <4>2, <5>1
        <5> QED
          BY <5>1, <5>2, Zenon
      <4> QED
        BY <4>2, <4>4, <4>5 DEF m
    <3> HIDE DEF a, b, r
    <3> DEFINE at(i) == IF i <= k - 1 THEN i ELSE i + 1
    <3>9. r \in Seq(Paths) /\ Len(r) = Len(s) - 1 /\ DOMAIN r = 1 .. Len(s) - 1
      <4>1. r \in Seq(Paths) /\ Len(r) = Len(a) + Len(b)
        BY <3>6, <3>7, <3>8, ConcatProperties
      <4>2. (k - 1) + (Len(s) - k) = Len(s) - 1
        BY <1>0, <3>3
      <4>3. Len(r) = Len(s) - 1
        BY <3>7, <3>8, <4>1, <4>2
      <4> QED
        BY <4>1, <4>3, LenProperties
    <3>10. ASSUME NEW i \in 1 .. Len(s) - 1
           PROVE  at(i) \in 1 .. Len(s) /\ at(i) # k /\ r[i] = s[at(i)]
      <4>1. r[i] = IF i <= Len(a) THEN a[i] ELSE b[i - Len(a)]
        <5>1. i \in 1 .. Len(a) + Len(b)
          BY <1>0, <3>3, <3>7, <3>8
        <5> QED
          BY <3>6, <3>7, <3>8, <5>1, ConcatProperties
      <4>2. CASE i <= k - 1
        <5>1. i \in 1 .. k - 1 /\ at(i) = i
          BY <1>0, <3>1, <4>2
        <5> QED
          BY <1>0, <3>1, <3>7, <4>1, <4>2, <5>1
      <4>3. CASE ~(i <= k - 1)
        <5>1. i - (k - 1) \in 1 .. Len(s) - k /\ at(i) = i + 1
              /\ (i - (k - 1)) + k = i + 1 /\ i + 1 \in 1 .. Len(s) /\ i + 1 # k
          BY <1>0, <3>1, <4>3
        <5>2. r[i] = b[i - (k - 1)]
          BY <3>7, <4>1, <4>3
        <5>3. b[i - (k - 1)] = s[(i - (k - 1)) + k]
          BY <3>8, <5>1
        <5> QED
          BY <5>1, <5>2, <5>3
      <4> QED
        BY <4>2, <4>3
    <3>11. IsInjective(r)
      <4> SUFFICES ASSUME NEW i \in 1 .. Len(s) - 1, NEW j \in 1 .. Len(s) - 1, r[i] = r[j]
                   PROVE  i = j
        BY <3>9 DEF IsInjective
      <4>1. at(i) = at(j)
        <5>1. s[at(i)] = s[at(j)] /\ at(i) \in 1 .. Len(s) /\ at(j) \in 1 .. Len(s)
          BY <3>10
        <5> HIDE DEF at
        <5> QED
          BY <1>0, <5>1 DEF IsInjective
      <4> QED
        BY <1>0, <3>3, <4>1
    <3>12. ToSet(r) = ToSet(s) \ {p}
      <4>1. ASSUME NEW i \in 1 .. Len(s) - 1 PROVE r[i] \in ToSet(s) \ {p}
        <5>1. at(i) \in 1 .. Len(s) /\ at(i) # k /\ r[i] = s[at(i)]
          BY <3>10
        <5> HIDE DEF at
        <5> QED
          BY <1>0, <3>1, <5>1 DEF IsInjective, ToSet
      <4>2. ASSUME NEW q \in ToSet(s) \ {p} PROVE q \in ToSet(r)
        <5>1. PICK j \in 1 .. Len(s) : s[j] = q /\ j # k
          BY <1>0, <3>1 DEF ToSet
        <5>2. PICK i \in 1 .. Len(s) - 1 : at(i) = j
          <6>1. CASE j <= k - 1
            BY <1>0, <3>1, <6>1
          <6>2. CASE ~(j <= k - 1)
            <7>1. j - 1 \in 1 .. Len(s) - 1 /\ at(j - 1) = j
              BY <1>0, <3>1, <5>1, <6>2
            <7> QED
              BY <7>1
          <6> QED
            BY <6>1, <6>2
        <5>3. r[i] = q
          BY <3>10, <5>1, <5>2
        <5> QED
          BY <3>9, <5>3 DEF ToSet
      <4> QED
        BY <3>9, <4>1, <4>2 DEF ToSet
    <3> QED
      BY <3>9, <3>11, <3>12
  <2> QED
    BY <2>1, <2>2
<1> HIDE DEF r
<1> DEFINE u == Append(r, p)
<1>2. /\ u \in Seq(Paths) /\ DOMAIN u = 1 .. Len(r) + 1 /\ DOMAIN r = 1 .. Len(r)
      /\ \A i \in 1 .. Len(r) : u[i] = r[i]
      /\ u[Len(r) + 1] = p /\ Len(r) \in Nat /\ Len(u) \in Nat
  BY <1>1, AppendProperties, LenProperties
<1> HIDE DEF u
<1>3. ToSet(u) = ToSet(s) \cup {p}
  <2>1. ToSet(u) = ToSet(r) \cup {p}
    BY <1>2 DEF ToSet
  <2> QED
    BY <1>1, <2>1
<1>4. IsInjective(u)
  <2> SUFFICES ASSUME NEW i \in 1 .. Len(r) + 1, NEW j \in 1 .. Len(r) + 1, u[i] = u[j]
               PROVE  i = j
    BY <1>2 DEF IsInjective
  <2>1. \A k \in 1 .. Len(r) : r[k] # p
    BY <1>1, <1>2 DEF ToSet
  <2>2. (i \in 1 .. Len(r) \/ i = Len(r) + 1) /\ (j \in 1 .. Len(r) \/ j = Len(r) + 1)
    BY <1>2
  <2>3. CASE i \in 1 .. Len(r) /\ j \in 1 .. Len(r)
    BY <1>1, <1>2, <2>3 DEF IsInjective
  <2> QED
    BY <1>2, <2>1, <2>2, <2>3
<1> QED
  BY <1>2, <1>3, <1>4 DEF u, r

(* evictIfNeeded drops no more than there is.                              *)
LEMMA EvictedRange ==
    ASSUME NEW S, NEW s \in Seq(S), NEW sizes, NEW bytes
    PROVE  Evicted(s, sizes, bytes) \in 0 .. Len(s)
<1> DEFINE I == {n \in 0 .. Len(s) :
                   \/ n = Len(s)
                   \/ /\ Len(s) - n <= ShardMaxEntries
                      /\ bytes - BytesOf(Oldest(s, n), sizes) <= ShardMaxBytes}
<1>1. I \subseteq 0 .. Len(s) /\ I \subseteq Nat /\ Len(s) \in I
  BY LenProperties
<1>2. Evicted(s, sizes, bytes) = Min(I)
  BY DEF Evicted
<1> HIDE DEF I
<1> QED
  BY <1>1, <1>2, LeastIndex

-----------------------------------------------------------------------------
(* What the counters are told is what the shards hold: the bytes of an     *)
(* insertion are the size of the file that was read.                       *)
AccountInv ==
    /\ order \in [Shards -> Seq(Paths)]
    /\ shardBytes \in [Shards -> Int] /\ totalBytes \in Int /\ totalEntries \in Int
    /\ \A t \in Threads : pc[t] = "insert" => local[t].file.size = local[t].size
    /\ AccountingExact

LEMMA AccountInit == Init => AccountInv
<1> SUFFICES ASSUME Init PROVE AccountInv
  OBVIOUS
<1>1. \A P \in SUBSET Paths : Held(P) = 0 /\ Cached(P) = {}
  <2> TAKE P \in SUBSET Paths
  <2>1. \A q \in P : [r \in Paths |-> SizeOf(entries[r])][q] = 0
    BY DEF Init, SizeOf
  <2> QED
    BY <2>1, BytesNone DEF Init, Held, Cached
<1>2. ToSet(<<>>) = {} /\ IsInjective(<<>>) /\ <<>> \in Seq(Paths)
  BY DEF ToSet, IsInjective
<1>3. \A s \in Shards : order[s] = <<>> /\ shardBytes[s] = 0
  BY DEF Init
<1>4. AccountingExact
  <2>1. \A s \in Shards : {p \in Paths : ShardOf[p] = s} \in SUBSET Paths
    OBVIOUS
  <2>2. totalBytes = 0 /\ totalEntries = 0
    BY DEF Init
  <2> QED
    BY <1>1, <1>2, <1>3, <2>1, <2>2, FS_EmptySet DEF AccountingExact
<1> QED
  BY <1>2, <1>4 DEF Init, AccountInv

LEMMA AccountsKept ==
    ASSUME AccountInv, UNCHANGED <<order, shardBytes, totalBytes, totalEntries>>,
           \A q \in Paths : /\ SizeOf(entries[q])' = SizeOf(entries[q])
                            /\ entries'[q] = Nothing <=> entries[q] = Nothing,
           \A t \in Threads : pc'[t] = "insert" => local'[t].file.size = local'[t].size
    PROVE  AccountInv'
<1>1. ASSUME NEW P \in SUBSET Paths PROVE Held(P)' = Held(P) /\ Cached(P)' = Cached(P)
  <2>1. [q \in Paths |-> SizeOf(entries[q])]' = [q \in Paths |-> SizeOf(entries[q])]
    OBVIOUS
  <2> QED
    BY <2>1 DEF Held, Cached
<1>2. \A s \in Shards : {p \in Paths : ShardOf[p] = s} \in SUBSET Paths
  OBVIOUS
<1>3. AccountingExact'
  BY <1>1, <1>2 DEF AccountInv, AccountingExact
<1> QED
  BY <1>3 DEF AccountInv

(* Only the steps to "insert" and the steps that change the cache matter.  *)
LEMMA QuietStep ==
    ASSUME CacheInv, AccountInv, NEW t \in Threads, UNCHANGED cacheVars,
           \A u \in Threads \ {t} : pc'[u] = pc[u] /\ local'[u] = local[u],
           pc'[t] = "insert" => local'[t].file.size = local'[t].size
    PROVE  AccountInv'
<1>1. \A u \in Threads : pc'[u] = "insert" => local'[u].file.size = local'[u].size
  BY DEF AccountInv
<1>2. UNCHANGED <<entries, order, shardBytes, totalBytes, totalEntries>>
  BY DEF cacheVars
<1>3. \A q \in Paths : SizeOf(entries[q])' = SizeOf(entries[q])
  BY <1>2 DEF SizeOf
<1> QED
  BY <1>1, <1>2, <1>3, AccountsKept

LEMMA ReadAccounts == ASSUME CacheInv, AccountInv, NEW t \in Threads, Read(t) PROVE AccountInv'
<1>1. pc \in [Threads -> Points] /\ local \in [Threads -> AnyLocal] /\ local[t] \in AnyLocal
  BY DEF CacheInv, Typed
<1>2. \A u \in Threads \ {t} : pc'[u] = pc[u] /\ local'[u] = local[u]
  BY <1>1 DEF Read, Return
<1>3. pc'[t] = "insert" => local'[t].file.size = local'[t].size
  <2> DEFINE n == local[t].size
             file == [version |-> disk[local[t].path].version, size |-> n,
                      etag |-> <<n, local[t].modified>>]
  <2>1. CASE Return(t, Nothing)
    BY <1>1, <2>1 DEF Return
  <2>2. CASE local' = [local EXCEPT ![t].file = file]
    <3>1. file.size = n
      OBVIOUS
    <3> HIDE DEF file
    <3>2. local'[t] = [local[t] EXCEPT !.file = file]
      BY <1>1, <2>2
    <3>3. local'[t].file = file /\ local'[t].size = n
      BY <1>1, <3>2 DEF AnyLocal
    <3> QED
      BY <3>1, <3>3
  <2> QED
    BY <2>1, <2>2 DEF Read
<1> QED
  BY <1>2, <1>3, QuietStep DEF Read

LEMMA RevalidateAccounts ==
    ASSUME CacheInv, AccountInv, NEW t \in Threads, Revalidate(t) PROVE AccountInv'
<1> DEFINE p == local[t].path
           e == entries[p]
<1>1. /\ pc \in [Threads -> Points] /\ local \in [Threads -> AnyLocal]
      /\ entries \in [Paths -> AnyEntry \cup {Nothing}] /\ p \in Paths
  BY DEF CacheInv, Typed, GetInv, Revalidate
<1>2. \A u \in Threads : pc'[u] = "insert" => pc[u] = "insert" /\ local'[u] = local[u]
  BY <1>1 DEF Revalidate, Return, GoTo
<1>3. UNCHANGED <<order, shardBytes, totalBytes, totalEntries>>
  BY DEF Revalidate
<1>4. \A q \in Paths : /\ SizeOf(entries[q])' = SizeOf(entries[q])
                       /\ entries'[q] = Nothing <=> entries[q] = Nothing
  <2>1. CASE UNCHANGED entries
    BY <2>1 DEF SizeOf
  <2>2. CASE SameFile(e, local[t]) /\ entries' = [entries EXCEPT ![p].validatedAt = local[t].now]
    <3>1. e \in AnyEntry /\ e # Nothing
      BY <1>1, <2>2 DEF SameFile
    <3>2. local[t].now \in Nat
      BY <1>1 DEF AnyLocal
    <3>3. entries'[p] = [e EXCEPT !.validatedAt = local[t].now]
      BY <1>1, <2>2
    <3>4. entries'[p] \in AnyEntry /\ entries'[p].file = e.file
      BY <3>1, <3>2, <3>3 DEF AnyEntry
    <3>5. entries'[p] # Nothing
      BY <3>4, CacheAssumption DEF CacheAssumption, AnyEntry, AnyFile
    <3>6. \A q \in Paths \ {p} : entries'[q] = entries[q]
      BY <1>1, <2>2
    <3> QED
      BY <3>1, <3>4, <3>5, <3>6 DEF SizeOf
  <2> QED
    BY <2>1, <2>2 DEF Revalidate
<1>5. \A u \in Threads : pc'[u] = "insert" => local'[u].file.size = local'[u].size
  BY SMTT(30), <1>2 DEF AccountInv
<1> QED
  BY <1>3, <1>4, <1>5, AccountsKept

(* The bytes that go in and out, the entries and the order of one shard    *)
(* change together.                                                        *)
LEMMA InsertAccounts ==
    ASSUME CacheInv, AccountInv, NEW t \in Threads, Insert(t) PROVE AccountInv'
<1> DEFINE l == local[t]
           p == l.path
           s == ShardOf[p]
           old == [q \in Paths |-> SizeOf(entries[q])]
           new == [q \in Paths |-> SizeOf(entries'[q])]
           sizes == [q \in Paths |-> IF q = p THEN l.size ELSE SizeOf(entries[q])]
           paths == Append(RemoveFirst(order[s], p), p)
           n == Evicted(paths, sizes, shardBytes[s] - SizeOf(entries[p]) + l.size)
           V == Oldest(paths, n)
           freed == BytesOf(V, sizes)
           entry == [file |-> l.file, modified |-> l.modified, validatedAt |-> l.now]
           Mine == {q \in Paths : ShardOf[q] = s}
<1>0. pc[t] = "insert" /\ pc' = [pc EXCEPT ![t] = "returned"] /\ UNCHANGED local
  BY DEF Insert, InsertWith, GoTo
<1>1. /\ p \in Paths /\ s \in Shards /\ l \in AnyLocal /\ l.file \in AnyFile
      /\ l.file.size = l.size /\ l.size \in Nat
      /\ entries \in [Paths -> AnyEntry \cup {Nothing}]
      /\ pc \in [Threads -> Points]
  BY SMTT(30), <1>0, CacheAssumption
     DEF CacheInv, Typed, GetInv, AnyLocal, AccountInv, CacheAssumption
<1>2. /\ entries' = [q \in Paths |-> IF q \in V THEN Nothing
                                     ELSE IF q = p THEN entry ELSE entries[q]]
      /\ order' = [order EXCEPT ![s] = SubSeq(paths, n + 1, Len(paths))]
      /\ shardBytes' = [shardBytes EXCEPT ![s] = @ - SizeOf(entries[p]) + l.size - freed]
      /\ totalBytes' = totalBytes - SizeOf(entries[p]) + l.size - freed
      /\ totalEntries' = totalEntries + (IF entries[p] = Nothing THEN 1 ELSE 0) - n
  BY DEF Insert, InsertWith, OldSize
<1>3. entry # Nothing /\ SizeOf(entry) = l.size
  <2>1. entry \in AnyEntry
    BY <1>1 DEF AnyEntry, AnyLocal
  <2>2. entry # Nothing
    BY <2>1, CacheAssumption DEF CacheAssumption, AnyEntry, AnyFile
  <2> QED
    BY <1>1, <2>2 DEF SizeOf
<1>4. /\ paths \in Seq(Paths) /\ IsInjective(paths) /\ Len(paths) \in Nat
      /\ ToSet(paths) = ToSet(order[s]) \cup {p}
  BY <1>1, UsedLast DEF AccountInv, AccountingExact
<1>5. n \in 0 .. Len(paths)
  BY <1>4, EvictedRange
<1>6. ToSet(order[s]) = Cached(Mine)
  BY <1>1 DEF AccountInv, AccountingExact
<1> HIDE DEF n, entry, paths
<1>7. LET rest == SubSeq(paths, n + 1, Len(paths)) IN
      /\ rest \in Seq(Paths) /\ IsInjective(rest) /\ ToSet(rest) = ToSet(paths) \ V
      /\ V \subseteq ToSet(paths) /\ Cardinality(V) = n
  BY <1>4, <1>5, OldestAndRest
<1> HIDE DEF V
<1>8. V \subseteq Cached(Mine) \cup {p} /\ V \subseteq Mine /\ p \in Mine
  BY <1>1, <1>4, <1>6, <1>7 DEF Cached
<1>9. \A q \in Paths : /\ old[q] \in Nat
                       /\ sizes[q] = IF q = p THEN l.size ELSE old[q]
                       /\ new[q] = IF q \in V THEN 0 ELSE sizes[q]
  <2> SUFFICES ASSUME NEW q \in Paths
               PROVE  /\ old[q] \in Nat
                      /\ sizes[q] = IF q = p THEN l.size ELSE old[q]
                      /\ new[q] = IF q \in V THEN 0 ELSE sizes[q]
    OBVIOUS
  <2>1. old[q] = SizeOf(entries[q]) /\ new[q] = SizeOf(entries'[q])
    OBVIOUS
  <2>2. SizeOf(entries[q]) \in Nat /\ SizeOf(Nothing) = 0
    BY <1>1 DEF SizeOf, AnyEntry, AnyFile
  <2>3. entries'[q] = IF q \in V THEN Nothing ELSE IF q = p THEN entry ELSE entries[q]
    BY <1>2
  <2> QED
    BY <1>3, <2>1, <2>2, <2>3
<1>10. \A P \in SUBSET Paths :
          /\ Held(P) = BytesOf(P, old) /\ Held(P)' = BytesOf(P, new)
          /\ BytesOf(P, old) \in Nat
  <2> TAKE P \in SUBSET Paths
  <2>1. Held(P) = BytesOf(P, old) /\ Held(P)' = BytesOf(P, new)
    BY DEF Held
  <2>2. \A q \in P : old[q] \in Nat
    BY <1>9
  <2> HIDE DEF old
  <2> QED
    BY <2>1, <2>2, BytesFinite
<1>11. freed \in Nat /\ old[p] = SizeOf(entries[p]) /\ old[p] \in Nat
  <2>1. V \in SUBSET Paths /\ \A q \in V : sizes[q] \in Nat
    BY <1>1, <1>8, <1>9
  <2> HIDE DEF sizes
  <2> QED
    BY <1>1, <1>9, <2>1, BytesFinite
<1> HIDE DEF old, new, sizes, freed, l, s
<1>12. ASSUME NEW P \in SUBSET Paths, Mine \subseteq P
       PROVE  Held(P)' = Held(P) - SizeOf(entries[p]) + l.size - freed
  <2>1. p \in P /\ V \in SUBSET P
    BY <1>8, <1>12
  <2>2. Resized(P, p, V, old, sizes, new)
    BY <1>1, <1>9 DEF Resized
  <2>3. sizes[p] = l.size
    BY <1>1, <1>9
  <2> HIDE DEF p, Mine
  <2>4. AddsUp(P, p, V, old, sizes, new)
    BY <2>1, <2>2, BytesInserted
  <2> QED
    BY <1>10, <1>11, <2>3, <2>4 DEF freed, AddsUp
<1>13. ASSUME NEW P \in SUBSET Paths, P \cap Mine = {} PROVE Held(P)' = Held(P)
  <2>1. \A q \in P : new[q] = old[q]
    BY <1>8, <1>9, <1>13
  <2> QED
    BY <1>10, <2>1, BytesSame
<1>14. \A q \in Paths : entries'[q] # Nothing <=> (q = p \/ entries[q] # Nothing) /\ q \notin V
  BY <1>2, <1>3
<1>15. /\ shardBytes \in [Shards -> Int] /\ totalBytes = Held(Paths) /\ totalBytes \in Int
       /\ order \in [Shards -> Seq(Paths)]
       /\ \A z \in Shards : /\ shardBytes[z] = Held({q \in Paths : ShardOf[q] = z})
                            /\ ToSet(order[z]) = Cached({q \in Paths : ShardOf[q] = z})
                            /\ IsInjective(order[z])
       /\ totalEntries = Cardinality(Cached(Paths))
  BY DEF AccountInv, AccountingExact
<1>16. totalBytes' = Held(Paths)' /\ totalBytes' \in Int
  <2>1. Held(Paths)' = Held(Paths) - SizeOf(entries[p]) + l.size - freed
    BY <1>12
  <2> QED
    BY <1>1, <1>2, <1>11, <1>15, <2>1
<1>17. totalEntries' = Cardinality(Cached(Paths)') /\ totalEntries' \in Int
  <2> DEFINE C == Cached(Paths)
             D == C \cup {p}
  <2>1. C \subseteq Paths /\ IsFiniteSet(C) /\ (p \in C <=> entries[p] # Nothing)
    BY <1>1, CacheAssumption, FS_Subset DEF CacheAssumption, Cached
  <2>2. Cached(Paths)' = D \ V
    BY <1>1, <1>14 DEF Cached
  <2>3. V \subseteq D
    BY <1>8 DEF Cached
  <2> HIDE DEF C
  <2>4. IsFiniteSet(D) /\ Cardinality(D) = IF p \in C THEN Cardinality(C) ELSE Cardinality(C) + 1
    BY <2>1, FS_AddElement
  <2>5. D \cap V = V
    BY <2>3
  <2> HIDE DEF D
  <2>6. Cardinality(D \ V) = Cardinality(D) - n
    BY <1>7, <2>4, <2>5, FS_Difference
  <2>7. Cardinality(C) \in Nat /\ n \in Int /\ totalEntries = Cardinality(C)
    BY <1>4, <1>5, <1>15, <2>1, FS_CardinalityType DEF C
  <2> QED
    BY <1>2, <2>1, <2>2, <2>4, <2>6, <2>7
<1>18. order' \in [Shards -> Seq(Paths)] /\ shardBytes' \in [Shards -> Int]
  <2>1. shardBytes[s] \in Int
    BY <1>1, <1>15 DEF s
  <2>2. shardBytes[s] - SizeOf(entries[p]) + l.size - freed \in Int
    BY <1>1, <1>11, <2>1
  <2> QED
    BY <1>2, <1>7, <1>15, <2>2
<1>19. ASSUME NEW z \in Shards
       PROVE  /\ shardBytes'[z] = Held({q \in Paths : ShardOf[q] = z})'
              /\ ToSet(order'[z]) = Cached({q \in Paths : ShardOf[q] = z})'
              /\ IsInjective(order'[z])
  <2> DEFINE P == {q \in Paths : ShardOf[q] = z}
  <2>0. P \in SUBSET Paths
    OBVIOUS
  <2>1. CASE z = s
    <3>1. P = Mine
      BY <2>1
    <3>2. shardBytes'[z] = shardBytes[z] - SizeOf(entries[p]) + l.size - freed
          /\ order'[z] = SubSeq(paths, n + 1, Len(paths))
      BY <1>2, <1>15, <2>1
    <3>3. Held(P)' = Held(P) - SizeOf(entries[p]) + l.size - freed
      BY <1>12, <3>1
    <3>4. Cached(P)' = (Cached(P) \cup {p}) \ V
      BY <1>8, <1>14, <3>1 DEF Cached
    <3>5. ToSet(order'[z]) = (Cached(P) \cup {p}) \ V
      BY <1>4, <1>6, <1>7, <3>1, <3>2
    <3>6. shardBytes[z] = Held(P)
      BY <1>15
    <3> QED
      BY <1>7, <3>2, <3>3, <3>4, <3>5, <3>6
  <2>2. CASE z # s
    <3>1. P \cap Mine = {}
      BY <2>2
    <3>2. Held(P)' = Held(P)
      BY <1>13, <2>0, <3>1
    <3>3. Cached(P)' = Cached(P)
      BY <1>8, <1>14, <3>1 DEF Cached
    <3>4. shardBytes'[z] = shardBytes[z] /\ order'[z] = order[z]
      BY <1>2, <1>15, <2>2
    <3> QED
      BY <1>15, <3>2, <3>3, <3>4
  <2> QED
    BY <2>1, <2>2
<1>20. AccountingExact'
  BY <1>16, <1>17, <1>19 DEF AccountingExact
<1>21. \A u \in Threads : pc'[u] = "insert" => local'[u].file.size = local'[u].size
  BY <1>0, <1>1 DEF AccountInv
<1> QED
  BY <1>16, <1>17, <1>18, <1>20, <1>21 DEF AccountInv

LEMMA AccountStep == CacheInv /\ AccountInv /\ [Next]_vars => AccountInv'
<1> SUFFICES ASSUME CacheInv, AccountInv, [Next]_vars PROVE AccountInv'
  OBVIOUS
<1>0. pc \in [Threads -> Points] /\ local \in [Threads -> AnyLocal]
  BY DEF CacheInv, Typed
<1>1. ASSUME UNCHANGED <<cacheVars, pc, local>> PROVE AccountInv'
  <2>1. /\ UNCHANGED <<order, shardBytes, totalBytes, totalEntries>>
        /\ \A q \in Paths : /\ SizeOf(entries[q])' = SizeOf(entries[q])
                            /\ entries'[q] = Nothing <=> entries[q] = Nothing
        /\ \A t \in Threads : pc'[t] = "insert" => local'[t].file.size = local'[t].size
    BY <1>1 DEF cacheVars, AccountInv, SizeOf
  <2> QED
    BY <2>1, AccountsKept
<1>2. ASSUME NEW t \in Threads,
             \/ \E p \in Paths : Lookup(t, p)
             \/ StatSize(t) \/ StatModified(t) \/ Respond(t)
      PROVE  AccountInv'
  <2>1. UNCHANGED cacheVars /\ pc'[t] # "insert"
        /\ \A u \in Threads \ {t} : pc'[u] = pc[u] /\ local'[u] = local[u]
    BY <1>0, <1>2 DEF Lookup, StatSize, StatModified, Respond, Return, GoTo
  <2> QED
    BY <2>1, QuietStep
<1>3. \/ \E t \in Threads : \/ \E p \in Paths : Lookup(t, p)
                            \/ StatSize(t) \/ StatModified(t) \/ Respond(t)
                            \/ Read(t) \/ Revalidate(t) \/ Insert(t)
      \/ UNCHANGED <<cacheVars, pc, local>>
  BY DEF Next, vars, Tick, Replace, RemoveFile, Edit
<1> QED
  BY <1>1, <1>2, <1>3, ReadAccounts, RevalidateAccounts, InsertAccounts

(* The byte and entry counters and the order of eviction agree with the    *)
(* entries after any insertions, replacements and evictions, for any sizes *)
(* and limits; neither counter wraps below zero.                           *)
THEOREM CountersExact == Spec => []AccountingExact
<1>1. AccountInv => AccountingExact
  BY DEF AccountInv
<1>2. Spec => []AccountInv
  BY AccountInit, AccountStep, CacheInvHolds, PTL DEF Spec
<1> QED
  BY <1>1, <1>2, PTL
=============================================================================
