--------------------------- MODULE RecordingCache ---------------------------
(***************************************************************************)
(* The on-disk recording cache (pkg/storage/cache.go): the index kept in   *)
(* memory under RecordingCache.mu, the files kept in the cache directory,  *)
(* and the steps of Add, RecordFailure, MarkFailed, Delete, the pruning    *)
(* loop and LoadExisting between which the process may be killed.          *)
(*                                                                         *)
(* A recording id is the Unix second its recording started in (both camera *)
(* drivers build it so), hence a natural number: a larger id is a newer    *)
(* recording, and the order sortIDsLocked keeps sortedIDs in is the order  *)
(* of the ids.  sortedIDs is therefore a set here; LoadExisting can append *)
(* one id twice, and `twice' holds the ids that occur twice.               *)
(*                                                                         *)
(* The only writer is SyncLatest, which holds syncMu around every Add and  *)
(* RecordFailure: at most one of them is under way, `op' is how far it has *)
(* come and `cur' the id it works on.                                      *)
(***************************************************************************)
EXTENDS Integers, FiniteSets

CONSTANTS
    Ids,        \* recording ids
    MaxCount,   \* CACHE_RECORDINGS, the capacity; 0 would disable the cache
    Size,       \* length in bytes of a recording on the camera
    Sized,      \* ids whose length the camera's list reports (FileSizeBytes > 0)
    Legacy      \* ids an earlier run may have left files of

ASSUME ConstantsAssumption ==
    /\ Ids \subseteq Nat /\ IsFiniteSet(Ids)
    /\ MaxCount \in Nat \ {0}
    /\ Size \in Nat \ {0}
    /\ Sized \subseteq Ids
    /\ Legacy \subseteq Ids

NoFile  == -1           \* the file does not exist
NoId    == -1
BadMeta == 0            \* a .json file json.Unmarshal rejects

\* Not running; no operation; in Add before the copy, the thumbnail, the metadata
\* and the index; in the pruning loop of Add or LoadExisting and of MarkFailed;
\* before the marker is written; after a failed Add; before MarkFailed.
Ops == {"down", "idle", "copy", "thumb", "meta", "index", "prune", "markprune",
        "mark", "failed", "marking"}

VARIABLES
    items,      \* ids of c.items
    thumbs,     \* those whose item has a ThumbnailURL
    failedIDs,  \* c.failedIDs
    attempts,   \* c.attempts
    sortedIDs,  \* the ids that occur in c.sortedIDs
    twice,      \* the ids that occur in it twice
    mp4,        \* length of <id>.mp4, or NoFile
    json,       \* FileSizeBytes in <id>.json, BadMeta or NoFile
    jpg,        \* ids with a non-empty <id>.jpg
    marked,     \* ids with <id>.failed
    tmp,        \* ids with <id>.mp4.tmp
    op, cur,    \* the operation under way and its id
    got,        \* bytes Add wrote
    shot,       \* whether Add extracted a thumbnail
    stored,     \* history: ids indexed since the last start or Delete
    unsaved,    \* history: ids whose metadata or marker could not be written
    strays      \* history: ids whose marker was written after they had been evicted

memVars  == <<items, thumbs, failedIDs, attempts, sortedIDs, twice>>
diskVars == <<mp4, json, jpg, marked, tmp>>
opVars   == <<op, cur, got, shot>>
histVars == <<stored, unsaved, strays>>
cacheVars == <<memVars, diskVars, opVars, histVars>>

-----------------------------------------------------------------------------
HasMarkedOnly(id) == id \in failedIDs       \* mutant: cached ids are not skipped

Has(id) == id \in items \/ id \in failedIDs

\* len(c.sortedIDs)
IndexLen == Cardinality(sortedIDs) + Cardinality(twice)

\* c.mu is held from the update of the index until pruning (and, for
\* MarkFailed, writing the marker) is over.
LockFree == op \notin {"prune", "markprune", "mark"}

NewestFirst(id, S) == id \in S /\ \A j \in S : j <= id       \* mutant: order reversed

\* The oldest id of a set: the tail of sortedIDs.
IsOldest(id, S) == id \in S /\ \A j \in S : id <= j

\* LoadExisting's view of the directory: recordings it keeps, metadata it removes
\* as orphaned, recordings it purges as truncated.
Loadable(id)  == json[id] > BadMeta /\ mp4[id] > 0 /\ mp4[id] >= json[id]
Orphaned(id)  == json[id] # NoFile /\ mp4[id] <= 0
Truncated(id) == json[id] > BadMeta /\ mp4[id] > 0 /\ mp4[id] < json[id]

\* What an earlier run may have left: recordings cut short, lone or unreadable
\* metadata, lone videos, markers, also beside a recording that a later sync
\* fetched.  No run leaves metadata that claims less than the camera reported.
LegacyDisk ==
    /\ mp4 \in [Ids -> NoFile .. Size]
    /\ json \in [Ids -> NoFile .. Size]
    /\ jpg \in SUBSET Legacy
    /\ marked \in SUBSET Legacy
    /\ \A id \in Ids \ Legacy : mp4[id] = NoFile /\ json[id] = NoFile
    /\ \A id \in Sized : json[id] > BadMeta => json[id] = Size

EmptyIndex ==
    /\ items = {} /\ thumbs = {} /\ failedIDs = {}
    /\ attempts = [id \in Ids |-> 0]
    /\ sortedIDs = {} /\ twice = {}
    /\ stored = {} /\ unsaved = {} /\ strays = {}

\* The process is about to call NewRecordingCache on that directory.
Init ==
    /\ LegacyDisk
    /\ tmp = {}
    /\ EmptyIndex
    /\ op = "down" /\ cur = NoId /\ got = 0 /\ shot = FALSE

-----------------------------------------------------------------------------
(***************************************************************************)
(* NewRecordingCache / LoadExisting: remove temporary files, orphaned      *)
(* metadata and truncated recordings, index the rest, regenerate the       *)
(* thumbnails in `healed' (and rewrite their metadata), and go on to       *)
(* prune.  The marker and the metadata of one id each append it to         *)
(* sortedIDs.                                                              *)
(***************************************************************************)
LoadExisting ==
    LET good == {id \in Ids : Loadable(id)}
        cut  == {id \in Ids : Truncated(id)}
        lone == {id \in Ids : Orphaned(id)}
    IN  /\ op = "down"
        /\ \E healed \in SUBSET (good \ jpg) :
              /\ jpg' = (jpg \ cut) \cup healed
              /\ thumbs' = good \cap (jpg \cup healed)
              /\ json' = [id \in Ids |-> IF id \in cut \cup lone THEN NoFile
                                         ELSE IF id \in healed THEN mp4[id]
                                         ELSE json[id]]
        /\ mp4' = [id \in Ids |-> IF id \in cut THEN NoFile ELSE mp4[id]]
        /\ tmp' = {}
        /\ items' = good
        /\ failedIDs' = marked
        /\ sortedIDs' = good \cup marked
        /\ twice' = good \cap marked
        /\ stored' = good \cup marked
        /\ strays' = {}
        /\ op' = "prune"
        /\ UNCHANGED <<attempts, marked, cur, got, shot, unsaved>>

\* Add, for an id SyncLatest found missing: create <id>.mp4.tmp.
AddBegin(id) ==
    /\ op = "idle"
    /\ ~Has(id)
    /\ op' = "copy"
    /\ cur' = id
    /\ tmp' = tmp \cup {id}
    /\ UNCHANGED <<memVars, mp4, json, jpg, marked, got, shot, histVars>>

\* Add could not create the temporary file.
AddOpenFails(id) ==
    /\ op = "idle"
    /\ ~Has(id)
    /\ op' = "failed"
    /\ cur' = id
    /\ UNCHANGED <<memVars, diskVars, got, shot, histVars>>

CompleteUnchecked(id, n) == n > 0       \* mutant: no comparison with FileSizeBytes

\* What Add accepts: something, and no less than the camera's list announced.
Complete(id, n) == n > 0 /\ (id \in Sized => n >= Size)

\* io.Copy ended after n bytes without an error: check them and rename.
AddCopied(n) ==
    /\ op = "copy"
    /\ Complete(cur, n)
    /\ mp4' = [mp4 EXCEPT ![cur] = n]
    /\ tmp' = tmp \ {cur}
    /\ got' = n
    /\ op' = "thumb"
    /\ UNCHANGED <<memVars, json, jpg, marked, cur, shot, histVars>>

\* io.Copy, Close or Rename failed, or the bytes are too few: no trace is left.
AddCopyFails ==
    /\ op = "copy"
    /\ tmp' = tmp \ {cur}
    /\ op' = "failed"
    /\ UNCHANGED <<memVars, mp4, json, jpg, marked, cur, got, shot, histVars>>

\* ExtractFrame writes <id>.jpg, or fails and Add goes on without a thumbnail.
AddThumbnail(ok) ==
    /\ op = "thumb"
    /\ shot' = ok
    /\ jpg' = IF ok THEN jpg \cup {cur} ELSE jpg
    /\ op' = "meta"
    /\ UNCHANGED <<memVars, mp4, json, marked, tmp, cur, got, histVars>>

\* The metadata reaches <id>.json by a rename; a write error is ignored.
AddMetadata(ok) ==
    /\ op = "meta"
    /\ json' = IF ok THEN [json EXCEPT ![cur] = got] ELSE json
    /\ unsaved' = IF ok THEN unsaved \ {cur} ELSE unsaved \cup {cur}
    /\ op' = "index"
    /\ UNCHANGED <<memVars, mp4, jpg, marked, tmp, cur, got, shot, stored, strays>>

\* Take c.mu, index the recording, and start pruning.
AddIndex ==
    /\ op = "index"
    /\ items' = items \cup {cur}
    /\ thumbs' = IF shot THEN thumbs \cup {cur} ELSE thumbs \ {cur}
    /\ sortedIDs' = sortedIDs \cup {cur}
    /\ stored' = stored \cup {cur}
    /\ op' = "prune"
    /\ UNCHANGED <<failedIDs, attempts, twice, diskVars, cur, got, shot, unsaved, strays>>

OverfullByOne == IndexLen > MaxCount + 1       \* mutant: off by one

Overfull == IndexLen > MaxCount

\* What pruneLocked and Delete do to the maps; one occurrence of the id leaves
\* sortedIDs, a second one stays.
Forget(id) ==
    /\ items' = items \ {id}
    /\ thumbs' = thumbs \ {id}
    /\ failedIDs' = failedIDs \ {id}
    /\ attempts' = [attempts EXCEPT ![id] = 0]
    /\ twice' = twice \ {id}
    /\ sortedIDs' = IF id \in twice THEN sortedIDs ELSE sortedIDs \ {id}

UnlinkLeavesMarker(id) ==       \* mutant: the marker of an evicted id stays
    /\ mp4' = [mp4 EXCEPT ![id] = NoFile]
    /\ json' = [json EXCEPT ![id] = NoFile]
    /\ jpg' = jpg \ {id}
    /\ tmp' = tmp \ {id}
    /\ UNCHANGED <<marked, strays>>

\* The five os.Remove of pruneLocked and Delete.
Unlink(id) ==
    /\ mp4' = [mp4 EXCEPT ![id] = NoFile]
    /\ json' = [json EXCEPT ![id] = NoFile]
    /\ jpg' = jpg \ {id}
    /\ marked' = marked \ {id}
    /\ tmp' = tmp \ {id}
    /\ strays' = strays \ {id}

\* One round of pruneLocked: pop the tail of sortedIDs.
PruneStep ==
    /\ op \in {"prune", "markprune"}
    /\ Overfull
    /\ \E id \in sortedIDs : IsOldest(id, sortedIDs) /\ Forget(id) /\ Unlink(id)
    /\ UNCHANGED <<opVars, stored, unsaved>>

\* pruneLocked is done: Add and LoadExisting return, MarkFailed writes its marker.
PruneDone ==
    /\ op \in {"prune", "markprune"}
    /\ ~Overfull
    /\ op' = IF op = "prune" THEN "idle" ELSE "mark"
    /\ cur' = IF op = "prune" THEN NoId ELSE cur
    /\ got' = 0 /\ shot' = FALSE
    /\ UNCHANGED <<memVars, diskVars, histVars>>

StrikesOutLate(count) == count > 2       \* mutant: off by one

StrikesOut(count) == count >= 2

\* RecordFailure counts the failed download; the second one marks the id.
RecordFailure ==
    /\ op = "failed"
    /\ attempts' = [attempts EXCEPT ![cur] = @ + 1]
    /\ op' = IF StrikesOut(attempts[cur] + 1) THEN "marking" ELSE "idle"
    /\ cur' = IF StrikesOut(attempts[cur] + 1) THEN cur ELSE NoId
    /\ UNCHANGED <<items, thumbs, failedIDs, sortedIDs, twice, diskVars, got, shot,
                   histVars>>

\* MarkFailed up to its pruneLocked.
MarkFailed ==
    /\ op = "marking"
    /\ failedIDs' = failedIDs \cup {cur}
    /\ sortedIDs' = sortedIDs \cup {cur}
    /\ stored' = stored \cup {cur}
    /\ op' = "markprune"
    /\ UNCHANGED <<items, thumbs, attempts, twice, diskVars, cur, got, shot, unsaved, strays>>

\* MarkFailed's last statement, after pruning: write <id>.failed, or fail to.  The
\* pruning may have evicted the id itself: its marker is then a stray.
WriteMarker(ok) ==
    /\ op = "mark"
    /\ marked' = IF ok THEN marked \cup {cur} ELSE marked
    /\ strays' = IF ok /\ cur \notin failedIDs THEN strays \cup {cur} ELSE strays
    /\ unsaved' = IF ok THEN unsaved \ {cur} ELSE unsaved \cup {cur}
    /\ op' = "idle"
    /\ cur' = NoId
    /\ UNCHANGED <<memVars, mp4, json, jpg, tmp, got, shot, stored>>

\* Delete, from any goroutine that can take c.mu.
Delete(id) ==
    /\ op # "down" /\ LockFree
    /\ Has(id)
    /\ Forget(id)
    /\ Unlink(id)
    /\ stored' = sortedIDs'
    /\ UNCHANGED <<opVars, unsaved>>

\* The process is killed: the index is gone, the files stay.
Crash ==
    /\ op # "down"
    /\ op' = "down" /\ cur' = NoId /\ got' = 0 /\ shot' = FALSE
    /\ items' = {} /\ thumbs' = {} /\ failedIDs' = {}
    /\ attempts' = [id \in Ids |-> 0]
    /\ sortedIDs' = {} /\ twice' = {}
    /\ stored' = {}
    /\ UNCHANGED <<unsaved, strays>>

CrashIdle == Crash /\ UNCHANGED diskVars

\* It is killed inside PruneStep, after k of the victim's files (<id>.mp4, .jpg,
\* .json, .failed, .mp4.tmp, in this order) were unlinked.
CrashPruning(k) ==
    /\ op \in {"prune", "markprune"}
    /\ Overfull
    /\ Crash
    /\ \E id \in sortedIDs :
          /\ IsOldest(id, sortedIDs)
          /\ mp4' = [mp4 EXCEPT ![id] = NoFile]
          /\ jpg' = IF k >= 2 THEN jpg \ {id} ELSE jpg
          /\ json' = IF k >= 3 THEN [json EXCEPT ![id] = NoFile] ELSE json
          /\ marked' = IF k >= 4 THEN marked \ {id} ELSE marked
    /\ UNCHANGED tmp

\* It is killed while LoadExisting overwrites, in place, the metadata of a
\* recording whose thumbnail it just regenerated.
CrashHealing(id) ==
    /\ op = "down"
    /\ Loadable(id) /\ id \notin jpg
    /\ jpg' = jpg \cup {id}
    /\ json' = [json EXCEPT ![id] = BadMeta]
    /\ unsaved' = unsaved \cup {id}
    /\ UNCHANGED <<memVars, mp4, marked, tmp, opVars, stored, strays>>

Next ==
    \/ LoadExisting
    \/ \E id \in Ids : CrashHealing(id)
    \/ \E id \in Ids : AddBegin(id) \/ AddOpenFails(id) \/ Delete(id)
    \/ \E n \in 1 .. Size : AddCopied(n)
    \/ AddCopyFails
    \/ \E ok \in BOOLEAN : AddThumbnail(ok) \/ AddMetadata(ok) \/ WriteMarker(ok)
    \/ AddIndex
    \/ PruneStep
    \/ PruneDone
    \/ RecordFailure
    \/ MarkFailed
    \/ CrashIdle
    \/ \E k \in 1 .. 4 : CrashPruning(k)

Spec == Init /\ [][Next]_cacheVars

-----------------------------------------------------------------------------
MemType ==
    /\ items \subseteq Ids /\ thumbs \subseteq Ids /\ failedIDs \subseteq Ids
    /\ attempts \in [Ids -> 0 .. 2]
    /\ sortedIDs \subseteq Ids /\ twice \subseteq Ids

DiskType ==
    /\ mp4 \in [Ids -> NoFile .. Size] /\ json \in [Ids -> NoFile .. Size]
    /\ jpg \subseteq Ids /\ marked \subseteq Ids /\ tmp \subseteq Ids

OpType ==
    /\ op \in Ops
    /\ cur \in Ids \cup {NoId}
    /\ got \in 0 .. Size
    /\ shot \in BOOLEAN

\* The values the variables range over; no id is ever counted more than twice.
TypeOK ==
    /\ MemType
    /\ DiskType
    /\ OpType
    /\ stored \subseteq Ids /\ unsaved \subseteq Ids /\ strays \subseteq Ids

Running == op # "down" /\ LockFree

\* Whenever c.mu is free, the index is within CACHE_RECORDINGS and everything
\* the maps hold is in it: what sortedIDs does not list is never evicted
\* (Add, MarkFailed, LoadExisting and Delete against pruneLocked).
CapacityKept ==
    Running => /\ IndexLen <= MaxCount
               /\ items \cup failedIDs \cup twice \subseteq sortedIDs

\* A recording the cache lists can be played: its video is on disk, at least as
\* long as the camera announced, and so is the thumbnail its item points to
\* (Add's renames and checks, the pruning of other recordings, LoadExisting's
\* checks of what a crash left).
BackedByDisk ==
    /\ \A id \in items : mp4[id] > 0 /\ (id \in Sized => mp4[id] = Size)
    /\ thumbs \subseteq items \cap jpg

\* A kill at any moment the lock is free neither loses a recording or a failure
\* marker nor brings one back: what LoadExisting would index now is what is
\* indexed, but for the recording whose Add is about to index it, for writes that
\* failed, and for strays: MarkFailed's own pruning may evict the id whose marker
\* it writes next, and that marker does come back at the next start.
RestartFindsIndex ==
    Running =>
        /\ \A id \in items \ unsaved : Loadable(id)
        /\ \A id \in Ids : Loadable(id) => id \in items \/ (op = "index" /\ cur = id)
        /\ failedIDs \subseteq marked \cup unsaved
        /\ marked \subseteq failedIDs \cup strays

\* The second failure in a row marks an id, although RecordFailure releases c.mu
\* between counting it and MarkFailed: no id has failed twice and is not skipped.
TwoStrikes ==
    \A id \in Ids :
        attempts[id] >= 2 => id \in failedIDs \/ (op = "marking" /\ cur = id)

\* The README's promise: the cache keeps the newest recordings.  Of everything
\* indexed since the start, what is gone is older than what is left, and it went
\* because the cache was full.
KeepsNewest ==
    Running =>
        /\ \A old \in stored \ sortedIDs, kept \in sortedIDs : old < kept
        /\ stored # sortedIDs => IndexLen = MaxCount

\* While a recording is listed, no other download, failure, eviction or restart
\* step touches its video: a client reads one file from end to end.
ListedFilesStable ==
    [][\A id \in items \cap items' : mp4'[id] = mp4[id]]_cacheVars
=============================================================================
