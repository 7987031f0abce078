------------------------ MODULE RecordingCacheProofs ------------------------
(***************************************************************************)
(* Machine-checked safety of the recording cache, for every set of ids,    *)
(* every capacity and every directory an earlier run may have left, and    *)
(* of the synchronisation that works on it: each of its steps is one of    *)
(* the cache, so the cache's invariant is there to build on.               *)
(***************************************************************************)
EXTENDS RecordingSync, FiniteSetTheorems, TLAPS

(***************************************************************************)
(* The inductive invariant: what each stage of an operation has achieved,  *)
(* and what the files of a recording say about each other.                 *)
(***************************************************************************)

\* The id an Add or a failure is about is not in the maps yet, so that Delete
\* of another id cannot reach its files.
AtWork ==
    /\ op \in {"copy", "thumb", "meta", "index", "failed", "marking"} =>
          cur \in Ids /\ ~Has(cur)
    /\ op \in {"markprune", "mark"} => cur \in Ids

\* The video Add has renamed is the one it measured, and so is its thumbnail.
Renamed ==
    op \in {"thumb", "meta", "index"} =>
        /\ mp4[cur] = got /\ Complete(cur, got)
        /\ op # "thumb" /\ shot => cur \in jpg

\* Metadata never claims less than the camera announced.
HonestMetadata == \A id \in Sized : json[id] > BadMeta => json[id] = Size

IndexCovers == items \cup failedIDs \cup twice \subseteq sortedIDs

WithinCapacity ==
    op \notin {"down", "prune", "markprune"} => IndexLen <= MaxCount

\* Nothing is counted before LoadExisting.
FreshStart == op = "down" => items = {} /\ thumbs = {} /\ attempts = [id \in Ids |-> 0]

IInv ==
    /\ TypeOK
    /\ AtWork
    /\ Renamed
    /\ HonestMetadata
    /\ IndexCovers
    /\ WithinCapacity
    /\ FreshStart
    /\ BackedByDisk
    /\ TwoStrikes

(***************************************************************************)
(* What a restart would find, and what eviction leaves.                    *)
(***************************************************************************)

\* What is listed has its metadata, unless it could not be written.
Described ==
    op # "down" =>
        /\ \A id \in items \ unsaved : Loadable(id)
        /\ op = "index" => cur \in unsaved \/ Loadable(cur)

\* No metadata is left of what is not listed, so that no restart brings it back.
NothingLeft ==
    op # "down" =>
        \A id \in Ids \ items : json[id] > BadMeta => op = "index" /\ cur = id

\* Markers are on disk, but for the one MarkFailed is about to write; and what is on disk
\* is a marker of the maps or a stray.
MarkersSaved ==
    /\ op # "down" =>
          \A id \in failedIDs :
              id \in marked \cup unsaved \/ (op \in {"markprune", "mark"} /\ id = cur)
    /\ op # "down" => marked \subseteq failedIDs \cup strays
    /\ op \in {"markprune", "mark"} => cur \notin items

DiskInv == Described /\ NothingLeft /\ MarkersSaved

\* Something is gone only from a full index, and is older than what is left; the
\* recording just indexed may be older still, and is then the next one to go.
NewestInv ==
    op # "down" =>
        /\ sortedIDs \subseteq stored
        /\ stored # sortedIDs => IndexLen >= MaxCount
        /\ \A old \in stored \ sortedIDs, kept \in sortedIDs :
              \/ old < kept
              \/ /\ op \in {"prune", "markprune"}
                 /\ kept = cur /\ cur \notin twice /\ IndexLen > MaxCount

-----------------------------------------------------------------------------
\* len(c.sortedIDs) is a number.
LEMMA IndexLenNat == \A S \in SUBSET Ids : IsFiniteSet(S) /\ Cardinality(S) \in Nat
BY ConstantsAssumption, FS_Subset, FS_CardinalityType

\* Forgetting ids does not lengthen the index (Delete).
LEMMA IndexLenShrinks ==
    \A S, T \in SUBSET Ids : \A S1 \in SUBSET S, T1 \in SUBSET T :
        Cardinality(S1) + Cardinality(T1) <= Cardinality(S) + Cardinality(T)
<1> SUFFICES ASSUME NEW S \in SUBSET Ids, NEW T \in SUBSET Ids,
                    NEW S1 \in SUBSET S, NEW T1 \in SUBSET T
             PROVE  Cardinality(S1) + Cardinality(T1) <= Cardinality(S) + Cardinality(T)
  OBVIOUS
<1>1. Cardinality(S1) <= Cardinality(S) /\ Cardinality(T1) <= Cardinality(T)
  BY IndexLenNat, FS_Subset
<1> QED
  BY <1>1, IndexLenNat

\* IInv holds before LoadExisting, whatever directory an earlier run left.
LEMMA InitIInv == Init => IInv
<1> SUFFICES ASSUME Init PROVE IInv
  OBVIOUS
<1> USE ConstantsAssumption DEF Init, EmptyIndex, LegacyDisk
<1>1. MemType
  BY DEF MemType
<1>2. DiskType
  BY DEF DiskType
<1>3. OpType
  <2>1. op \in Ops /\ cur \in Ids \cup {NoId} /\ got \in 0 .. Size
    BY DEF Ops
  <2>2. shot \in BOOLEAN
    BY Zenon
  <2> QED
    BY <2>1, <2>2 DEF OpType
<1>4. TypeOK
  BY <1>1, <1>2, <1>3 DEF TypeOK
<1>5. AtWork /\ Renamed /\ HonestMetadata /\ IndexCovers /\ WithinCapacity
  BY DEF AtWork, Renamed, HonestMetadata, IndexCovers, WithinCapacity
<1>6. FreshStart /\ BackedByDisk
  BY DEF FreshStart, BackedByDisk
<1>7. TwoStrikes
  BY DEF TwoStrikes
<1> QED
  BY <1>4, <1>5, <1>6, <1>7 DEF IInv

\* IInv is preserved: startup indexes only recordings whose video is complete and
\* counts no failure.
LEMMA LoadExistingKeeps ==
    ASSUME IInv, LoadExisting
    PROVE  IInv'
<1> USE ConstantsAssumption DEF IInv, TypeOK
<1>1. MemType'
  BY DEF MemType, DiskType, LoadExisting
<1>2. DiskType'
  <2>1. mp4' \in [Ids -> NoFile .. Size]
    BY DEF LoadExisting, DiskType, NoFile
  <2>2. json' \in [Ids -> NoFile .. Size]
    BY DEF LoadExisting, DiskType, NoFile
  <2>3. jpg' \subseteq Ids /\ marked' \subseteq Ids /\ tmp' \subseteq Ids
    BY DEF LoadExisting, DiskType
  <2> QED
    BY <2>1, <2>2, <2>3 DEF DiskType
<1>3. OpType'
  <2>1. op' \in Ops /\ cur' \in Ids \cup {NoId} /\ got' \in 0 .. Size
    BY DEF Ops, OpType, LoadExisting
  <2>2. shot' \in BOOLEAN
    BY Zenon DEF OpType, LoadExisting
  <2> QED
    BY <2>1, <2>2 DEF OpType
<1>4. AtWork'
  BY DEF AtWork, LoadExisting
<1>5. Renamed'
  BY DEF Renamed, LoadExisting
<1>6. HonestMetadata'
  BY DEF HonestMetadata, DiskType, NoFile, BadMeta, LoadExisting, Loadable
<1>7. IndexCovers'
  BY DEF IndexCovers, LoadExisting
<1>8. WithinCapacity'
  BY DEF WithinCapacity, LoadExisting
<1>9. FreshStart'
  BY DEF FreshStart, LoadExisting
<1>10. BackedByDisk'
  <2>1. ASSUME NEW id \in items' PROVE mp4'[id] > 0 /\ (id \in Sized => mp4'[id] = Size)
    BY <2>1 DEF LoadExisting, Loadable, Truncated, HonestMetadata, DiskType
  <2>2. thumbs' \subseteq items' \cap jpg'
    <3>1. PICK healed \in SUBSET ({id \in Ids : Loadable(id)} \ jpg) :
             /\ jpg' = (jpg \ {id \in Ids : Truncated(id)}) \cup healed
             /\ thumbs' = {id \in Ids : Loadable(id)} \cap (jpg \cup healed)
      BY DEF LoadExisting
    <3>2. ASSUME NEW id \in Ids, Loadable(id) PROVE ~Truncated(id)
      BY <3>2 DEF Loadable, Truncated, DiskType
    <3>3. items' = {id \in Ids : Loadable(id)}
      BY DEF LoadExisting
    <3> QED
      BY <3>1, <3>2, <3>3
  <2> QED
    BY <2>1, <2>2 DEF BackedByDisk
<1>11. TwoStrikes'
  BY DEF TwoStrikes, FreshStart, LoadExisting
<1>12. stored' \subseteq Ids /\ unsaved' \subseteq Ids /\ strays' \subseteq Ids
  BY DEF DiskType, LoadExisting
<1> QED
  BY <1>1, <1>2, <1>3, <1>4, <1>5, <1>6, <1>7, <1>8, <1>9, <1>10, <1>11, <1>12

\* IInv is preserved: a kill while a thumbnail is regenerated leaves metadata that
\* claims nothing.
LEMMA CrashHealingKeeps ==
    ASSUME IInv, NEW id \in Ids, CrashHealing(id)
    PROVE  IInv'
<1> USE ConstantsAssumption DEF IInv, TypeOK
<1>1. MemType'
  BY DEF MemType, CrashHealing, memVars
<1>2. DiskType'
  BY DEF DiskType, NoFile, BadMeta, CrashHealing
<1>3. OpType'
  BY DEF OpType, CrashHealing, opVars
<1>4. AtWork'
  BY DEF AtWork, CrashHealing, opVars
<1>5. Renamed'
  BY DEF Renamed, CrashHealing, opVars
<1>6. HonestMetadata'
  BY DEF HonestMetadata, BadMeta, CrashHealing
<1>7. IndexCovers'
  BY DEF IndexCovers, CrashHealing, memVars
<1>8. WithinCapacity'
  BY DEF WithinCapacity, CrashHealing, opVars
<1>9. FreshStart'
  BY DEF FreshStart, CrashHealing, memVars
<1>10. BackedByDisk'
  BY DEF BackedByDisk, CrashHealing, memVars
<1>11. TwoStrikes'
  BY DEF TwoStrikes, CrashHealing, memVars
<1>12. stored' \subseteq Ids /\ unsaved' \subseteq Ids /\ strays' \subseteq Ids
  BY DEF CrashHealing
<1> QED
  BY <1>1, <1>2, <1>3, <1>4, <1>5, <1>6, <1>7, <1>8, <1>9, <1>10, <1>11, <1>12

\* IInv is preserved: SyncLatest starts Add only for an id the maps do not hold.
LEMMA AddBeginKeeps ==
    ASSUME IInv, NEW id \in Ids, AddBegin(id)
    PROVE  IInv'
<1> USE ConstantsAssumption DEF IInv, TypeOK
<1>1. MemType'
  BY DEF MemType, AddBegin, memVars
<1>2. DiskType'
  BY DEF DiskType, AddBegin
<1>3. OpType'
  BY DEF OpType, Ops, AddBegin
<1>4. AtWork'
  BY DEF AtWork, Has, AddBegin, memVars
<1>5. Renamed'
  BY DEF Renamed, AddBegin
<1>6. HonestMetadata'
  BY DEF HonestMetadata, AddBegin
<1>7. IndexCovers'
  BY DEF IndexCovers, AddBegin, memVars
<1>8. WithinCapacity'
  BY DEF WithinCapacity, IndexLen, AddBegin, memVars
<1>9. FreshStart'
  BY DEF FreshStart, AddBegin
<1>10. BackedByDisk'
  BY DEF BackedByDisk, AddBegin, memVars
<1>11. TwoStrikes'
  BY DEF TwoStrikes, AddBegin, memVars
<1>12. stored' \subseteq Ids /\ unsaved' \subseteq Ids /\ strays' \subseteq Ids
  BY DEF AddBegin, histVars
<1> QED
  BY <1>1, <1>2, <1>3, <1>4, <1>5, <1>6, <1>7, <1>8, <1>9, <1>10, <1>11, <1>12

\* IInv is preserved: an Add that cannot create its file changes nothing on disk.
LEMMA AddOpenFailsKeeps ==
    ASSUME IInv, NEW id \in Ids, AddOpenFails(id)
    PROVE  IInv'
<1> USE ConstantsAssumption DEF IInv, TypeOK
<1>1. MemType'
  BY DEF MemType, AddOpenFails, memVars
<1>2. DiskType'
  BY DEF DiskType, AddOpenFails, diskVars
<1>3. OpType'
  BY DEF OpType, Ops, AddOpenFails
<1>4. AtWork'
  BY DEF AtWork, Has, AddOpenFails, memVars
<1>5. Renamed'
  BY DEF Renamed, AddOpenFails
<1>6. HonestMetadata'
  BY DEF HonestMetadata, AddOpenFails, diskVars
<1>7. IndexCovers'
  BY DEF IndexCovers, AddOpenFails, memVars
<1>8. WithinCapacity'
  BY DEF WithinCapacity, IndexLen, AddOpenFails, memVars
<1>9. FreshStart'
  BY DEF FreshStart, AddOpenFails
<1>10. BackedByDisk'
  BY DEF BackedByDisk, AddOpenFails, memVars, diskVars
<1>11. TwoStrikes'
  BY DEF TwoStrikes, AddOpenFails, memVars
<1>12. stored' \subseteq Ids /\ unsaved' \subseteq Ids /\ strays' \subseteq Ids
  BY DEF AddOpenFails, histVars
<1> QED
  BY <1>1, <1>2, <1>3, <1>4, <1>5, <1>6, <1>7, <1>8, <1>9, <1>10, <1>11, <1>12

\* IInv is preserved: only a video that passed the length check is renamed.
LEMMA AddCopiedKeeps ==
    ASSUME IInv, NEW n \in 1 .. Size, AddCopied(n)
    PROVE  IInv'
<1> USE ConstantsAssumption DEF IInv, TypeOK
<1>1. MemType'
  BY DEF MemType, AddCopied, memVars
<1>2. DiskType'
  BY DEF DiskType, OpType, AtWork, NoFile, AddCopied
<1>3. OpType'
  BY DEF OpType, Ops, AddCopied
<1>4. AtWork'
  BY DEF AtWork, Has, AddCopied, memVars
<1>5. Renamed'
  BY DEF Renamed, DiskType, AtWork, AddCopied
<1>6. HonestMetadata'
  BY DEF HonestMetadata, AddCopied
<1>7. IndexCovers'
  BY DEF IndexCovers, AddCopied, memVars
<1>8. WithinCapacity'
  BY DEF WithinCapacity, IndexLen, AddCopied, memVars
<1>9. FreshStart'
  BY DEF FreshStart, AddCopied
<1>10. BackedByDisk'
  BY DEF BackedByDisk, AtWork, Has, AddCopied, memVars
<1>11. TwoStrikes'
  BY DEF TwoStrikes, AddCopied, memVars
<1>12. stored' \subseteq Ids /\ unsaved' \subseteq Ids /\ strays' \subseteq Ids
  BY DEF AddCopied, histVars
<1> QED
  BY <1>1, <1>2, <1>3, <1>4, <1>5, <1>6, <1>7, <1>8, <1>9, <1>10, <1>11, <1>12

\* IInv is preserved: a failed copy leaves neither video nor temporary file.
LEMMA AddCopyFailsKeeps ==
    ASSUME IInv, AddCopyFails
    PROVE  IInv'
<1> USE ConstantsAssumption DEF IInv, TypeOK
<1>1. MemType'
  BY DEF MemType, AddCopyFails, memVars
<1>2. DiskType'
  BY DEF DiskType, AddCopyFails
<1>3. OpType'
  BY DEF OpType, Ops, AddCopyFails
<1>4. AtWork'
  BY DEF AtWork, Has, AddCopyFails, memVars
<1>5. Renamed'
  BY DEF Renamed, AddCopyFails
<1>6. HonestMetadata'
  BY DEF HonestMetadata, AddCopyFails
<1>7. IndexCovers'
  BY DEF IndexCovers, AddCopyFails, memVars
<1>8. WithinCapacity'
  BY DEF WithinCapacity, IndexLen, AddCopyFails, memVars
<1>9. FreshStart'
  BY DEF FreshStart, AddCopyFails
<1>10. BackedByDisk'
  BY DEF BackedByDisk, AddCopyFails, memVars
<1>11. TwoStrikes'
  BY DEF TwoStrikes, AddCopyFails, memVars
<1>12. stored' \subseteq Ids /\ unsaved' \subseteq Ids /\ strays' \subseteq Ids
  BY DEF AddCopyFails, histVars
<1> QED
  BY <1>1, <1>2, <1>3, <1>4, <1>5, <1>6, <1>7, <1>8, <1>9, <1>10, <1>11, <1>12

\* IInv is preserved: the thumbnail is on disk when Add notes it.
LEMMA AddThumbnailKeeps ==
    ASSUME IInv, NEW ok \in BOOLEAN, AddThumbnail(ok)
    PROVE  IInv'
<1> USE ConstantsAssumption DEF IInv, TypeOK
<1>1. MemType'
  BY DEF MemType, AddThumbnail, memVars
<1>2. DiskType'
  BY DEF DiskType, AtWork, AddThumbnail
<1>3. OpType'
  BY DEF OpType, Ops, AddThumbnail
<1>4. AtWork'
  BY DEF AtWork, Has, AddThumbnail, memVars
<1>5. Renamed'
  BY DEF Renamed, AddThumbnail
<1>6. HonestMetadata'
  BY DEF HonestMetadata, AddThumbnail
<1>7. IndexCovers'
  BY DEF IndexCovers, AddThumbnail, memVars
<1>8. WithinCapacity'
  BY DEF WithinCapacity, IndexLen, AddThumbnail, memVars
<1>9. FreshStart'
  BY DEF FreshStart, AddThumbnail
<1>10. BackedByDisk'
  BY DEF BackedByDisk, AddThumbnail, memVars
<1>11. TwoStrikes'
  BY DEF TwoStrikes, AddThumbnail, memVars
<1>12. stored' \subseteq Ids /\ unsaved' \subseteq Ids /\ strays' \subseteq Ids
  BY DEF AddThumbnail, histVars
<1> QED
  BY <1>1, <1>2, <1>3, <1>4, <1>5, <1>6, <1>7, <1>8, <1>9, <1>10, <1>11, <1>12

\* IInv is preserved: metadata states the length that was written.
LEMMA AddMetadataKeeps ==
    ASSUME IInv, NEW ok \in BOOLEAN, AddMetadata(ok)
    PROVE  IInv'
<1> USE ConstantsAssumption DEF IInv, TypeOK
<1>1. MemType'
  BY DEF MemType, AddMetadata, memVars
<1>2. DiskType'
  BY DEF DiskType, Renamed, AddMetadata
<1>3. OpType'
  BY DEF OpType, Ops, AddMetadata
<1>4. AtWork'
  BY DEF AtWork, Has, AddMetadata, memVars
<1>5. Renamed'
  BY DEF Renamed, AddMetadata
<1>6. HonestMetadata'
  BY DEF HonestMetadata, OpType, Renamed, Complete, AddMetadata
<1>7. IndexCovers'
  BY DEF IndexCovers, AddMetadata, memVars
<1>8. WithinCapacity'
  BY DEF WithinCapacity, IndexLen, AddMetadata, memVars
<1>9. FreshStart'
  BY DEF FreshStart, AddMetadata
<1>10. BackedByDisk'
  BY DEF BackedByDisk, AddMetadata, memVars
<1>11. TwoStrikes'
  BY DEF TwoStrikes, AddMetadata, memVars
<1>12. stored' \subseteq Ids /\ unsaved' \subseteq Ids /\ strays' \subseteq Ids
  BY DEF AtWork, AddMetadata
<1> QED
  BY <1>1, <1>2, <1>3, <1>4, <1>5, <1>6, <1>7, <1>8, <1>9, <1>10, <1>11, <1>12

\* IInv is preserved: the recording that gets indexed is the one that was renamed.
LEMMA AddIndexKeeps ==
    ASSUME IInv, AddIndex
    PROVE  IInv'
<1> USE ConstantsAssumption DEF IInv, TypeOK
<1>1. MemType'
  BY DEF MemType, AtWork, AddIndex
<1>2. DiskType'
  BY DEF DiskType, AddIndex, diskVars
<1>3. OpType'
  BY DEF OpType, Ops, AddIndex
<1>4. AtWork'
  BY DEF AtWork, AddIndex
<1>5. Renamed'
  BY DEF Renamed, AddIndex
<1>6. HonestMetadata'
  BY DEF HonestMetadata, AddIndex, diskVars
<1>7. IndexCovers'
  BY DEF IndexCovers, AddIndex
<1>8. WithinCapacity'
  BY DEF WithinCapacity, AddIndex
<1>9. FreshStart'
  BY DEF FreshStart, AddIndex
<1>10. BackedByDisk'
  BY DEF BackedByDisk, OpType, Renamed, Complete, AddIndex, diskVars
<1>11. TwoStrikes'
  BY DEF TwoStrikes, AddIndex
<1>12. stored' \subseteq Ids /\ unsaved' \subseteq Ids /\ strays' \subseteq Ids
  BY DEF AtWork, AddIndex
<1> QED
  BY <1>1, <1>2, <1>3, <1>4, <1>5, <1>6, <1>7, <1>8, <1>9, <1>10, <1>11, <1>12

\* IInv is preserved: eviction forgets an id in the maps and on disk alike.
LEMMA PruneStepKeeps ==
    ASSUME IInv, PruneStep
    PROVE  IInv'
<1> USE ConstantsAssumption DEF IInv, TypeOK
<1>0. PICK id \in sortedIDs : Forget(id) /\ Unlink(id)
  BY DEF PruneStep
<1>1. MemType'
  BY <1>0 DEF MemType, Forget
<1>2. DiskType'
  BY <1>0 DEF DiskType, MemType, NoFile, Unlink
<1>3. OpType'
  BY <1>0 DEF OpType, PruneStep, opVars
<1>4. AtWork'
  BY <1>0 DEF AtWork, PruneStep, opVars
<1>5. Renamed'
  BY <1>0 DEF Renamed, PruneStep, opVars
<1>6. HonestMetadata'
  BY <1>0 DEF HonestMetadata, NoFile, BadMeta, Unlink
<1>7. IndexCovers'
  BY <1>0 DEF IndexCovers, Forget
<1>8. WithinCapacity'
  BY <1>0 DEF WithinCapacity, PruneStep, opVars
<1>9. FreshStart'
  BY <1>0 DEF FreshStart, PruneStep, opVars
<1>10. BackedByDisk'
  BY <1>0 DEF BackedByDisk, Forget, Unlink
<1>11. TwoStrikes'
  BY <1>0 DEF TwoStrikes, MemType, PruneStep, Forget
<1>12. stored' \subseteq Ids /\ unsaved' \subseteq Ids /\ strays' \subseteq Ids
  BY <1>0 DEF PruneStep, Unlink
<1> QED
  BY <1>1, <1>2, <1>3, <1>4, <1>5, <1>6, <1>7, <1>8, <1>9, <1>10, <1>11, <1>12

\* IInv is preserved: pruning ends with the index within capacity.
LEMMA PruneDoneKeeps ==
    ASSUME IInv, PruneDone
    PROVE  IInv'
<1> USE ConstantsAssumption DEF IInv, TypeOK
<1>1. MemType'
  BY DEF MemType, PruneDone, memVars
<1>2. DiskType'
  BY DEF DiskType, PruneDone, diskVars
<1>3. OpType'
  <2>1. op' \in Ops /\ cur' \in Ids \cup {NoId} /\ got' \in 0 .. Size
    BY DEF Ops, AtWork, PruneDone
  <2>2. shot' \in BOOLEAN
    BY Zenon DEF PruneDone
  <2> QED
    BY <2>1, <2>2 DEF OpType
<1>4. AtWork'
  BY DEF AtWork, PruneDone
<1>5. Renamed'
  BY DEF Renamed, PruneDone
<1>6. HonestMetadata'
  BY DEF HonestMetadata, PruneDone, diskVars
<1>7. IndexCovers'
  BY DEF IndexCovers, PruneDone, memVars
<1>8. WithinCapacity'
  <2>1. IndexLen \in Nat
    BY IndexLenNat DEF IndexLen, MemType
  <2>2. IndexLen' = IndexLen
    BY DEF PruneDone, memVars, IndexLen
  <2> QED
    BY <2>1, <2>2 DEF WithinCapacity, PruneDone, Overfull
<1>9. FreshStart'
  BY DEF FreshStart, PruneDone
<1>10. BackedByDisk'
  BY DEF BackedByDisk, PruneDone, memVars, diskVars
<1>11. TwoStrikes'
  BY DEF TwoStrikes, PruneDone, memVars
<1>12. stored' \subseteq Ids /\ unsaved' \subseteq Ids /\ strays' \subseteq Ids
  BY DEF PruneDone, histVars
<1> QED
  BY <1>1, <1>2, <1>3, <1>4, <1>5, <1>6, <1>7, <1>8, <1>9, <1>10, <1>11, <1>12

\* IInv is preserved: the second failure goes on to MarkFailed.
LEMMA RecordFailureKeeps ==
    ASSUME IInv, RecordFailure
    PROVE  IInv'
<1> USE ConstantsAssumption DEF IInv, TypeOK
<1>1. MemType'
  BY DEF MemType, OpType, AtWork, TwoStrikes, Has, RecordFailure
<1>2. DiskType'
  BY DEF DiskType, RecordFailure, diskVars
<1>3. OpType'
  BY DEF OpType, Ops, RecordFailure
<1>4. AtWork'
  BY DEF AtWork, Has, RecordFailure
<1>5. Renamed'
  BY DEF Renamed, RecordFailure
<1>6. HonestMetadata'
  BY DEF HonestMetadata, RecordFailure, diskVars
<1>7. IndexCovers'
  BY DEF IndexCovers, RecordFailure
<1>8. WithinCapacity'
  BY DEF WithinCapacity, IndexLen, RecordFailure
<1>9. FreshStart'
  BY DEF FreshStart, RecordFailure
<1>10. BackedByDisk'
  BY DEF BackedByDisk, RecordFailure, diskVars
<1>11. TwoStrikes'
  BY DEF TwoStrikes, RecordFailure, StrikesOut
<1>12. stored' \subseteq Ids /\ unsaved' \subseteq Ids /\ strays' \subseteq Ids
  BY DEF RecordFailure, histVars
<1> QED
  BY <1>1, <1>2, <1>3, <1>4, <1>5, <1>6, <1>7, <1>8, <1>9, <1>10, <1>11, <1>12

\* IInv is preserved: a marked id is indexed like a recording.
LEMMA MarkFailedKeeps ==
    ASSUME IInv, MarkFailed
    PROVE  IInv'
<1> USE ConstantsAssumption DEF IInv, TypeOK
<1>1. MemType'
  BY DEF MemType, AtWork, MarkFailed
<1>2. DiskType'
  BY DEF DiskType, MarkFailed, diskVars
<1>3. OpType'
  BY DEF OpType, Ops, MarkFailed
<1>4. AtWork'
  BY DEF AtWork, MarkFailed
<1>5. Renamed'
  BY DEF Renamed, MarkFailed
<1>6. HonestMetadata'
  BY DEF HonestMetadata, MarkFailed, diskVars
<1>7. IndexCovers'
  BY DEF IndexCovers, MarkFailed
<1>8. WithinCapacity'
  BY DEF WithinCapacity, MarkFailed
<1>9. FreshStart'
  BY DEF FreshStart, MarkFailed
<1>10. BackedByDisk'
  BY DEF BackedByDisk, MarkFailed, diskVars
<1>11. TwoStrikes'
  BY DEF TwoStrikes, MarkFailed
<1>12. stored' \subseteq Ids /\ unsaved' \subseteq Ids /\ strays' \subseteq Ids
  BY DEF AtWork, MarkFailed
<1> QED
  BY <1>1, <1>2, <1>3, <1>4, <1>5, <1>6, <1>7, <1>8, <1>9, <1>10, <1>11, <1>12

\* IInv is preserved: the marker changes nothing else.
LEMMA WriteMarkerKeeps ==
    ASSUME IInv, NEW ok \in BOOLEAN, WriteMarker(ok)
    PROVE  IInv'
<1> USE ConstantsAssumption DEF IInv, TypeOK
<1>1. MemType'
  BY DEF MemType, WriteMarker, memVars
<1>2. DiskType'
  BY DEF DiskType, AtWork, WriteMarker
<1>3. OpType'
  BY DEF OpType, Ops, WriteMarker
<1>4. AtWork'
  BY DEF AtWork, WriteMarker
<1>5. Renamed'
  BY DEF Renamed, WriteMarker
<1>6. HonestMetadata'
  BY DEF HonestMetadata, WriteMarker
<1>7. IndexCovers'
  BY DEF IndexCovers, WriteMarker, memVars
<1>8. WithinCapacity'
  BY DEF WithinCapacity, IndexLen, WriteMarker, memVars
<1>9. FreshStart'
  BY DEF FreshStart, WriteMarker
<1>10. BackedByDisk'
  BY DEF BackedByDisk, WriteMarker, memVars
<1>11. TwoStrikes'
  BY DEF TwoStrikes, WriteMarker, memVars
<1>12. stored' \subseteq Ids /\ unsaved' \subseteq Ids /\ strays' \subseteq Ids
  BY DEF AtWork, WriteMarker
<1> QED
  BY <1>1, <1>2, <1>3, <1>4, <1>5, <1>6, <1>7, <1>8, <1>9, <1>10, <1>11, <1>12

\* IInv is preserved: Delete cannot reach the files of the download under way.
LEMMA DeleteKeeps ==
    ASSUME IInv, NEW id \in Ids, Delete(id)
    PROVE  IInv'
<1> USE ConstantsAssumption DEF IInv, TypeOK
<1>1. MemType'
  BY DEF MemType, Delete, Forget
<1>2. DiskType'
  BY DEF DiskType, NoFile, Delete, Unlink
<1>3. OpType'
  BY DEF OpType, Delete, opVars
<1>4. AtWork'
  BY DEF AtWork, Has, Delete, Forget, opVars
<1>5. Renamed'
  BY DEF Renamed, AtWork, Delete, Unlink, opVars
<1>6. HonestMetadata'
  BY DEF HonestMetadata, NoFile, BadMeta, Delete, Unlink
<1>7. IndexCovers'
  BY DEF IndexCovers, Delete, Forget
<1>8. WithinCapacity'
  <2>1. sortedIDs' \subseteq sortedIDs /\ twice' \subseteq twice
    BY DEF Delete, Forget
  <2>2. IndexLen \in Nat /\ IndexLen' \in Nat /\ IndexLen' <= IndexLen
    <3>1. sortedIDs \in SUBSET Ids /\ twice \in SUBSET Ids
      BY DEF MemType
    <3>2. sortedIDs' \in SUBSET sortedIDs /\ twice' \in SUBSET twice
      BY <2>1
    <3> QED
      BY <3>1, <3>2, IndexLenShrinks, IndexLenNat DEF IndexLen
  <2> QED
    BY <2>2 DEF WithinCapacity, Delete, opVars
<1>9. FreshStart'
  BY DEF FreshStart, Delete, opVars
<1>10. BackedByDisk'
  BY DEF BackedByDisk, Delete, Forget, Unlink
<1>11. TwoStrikes'
  BY DEF TwoStrikes, MemType, Delete, Forget, opVars
<1>12. stored' \subseteq Ids /\ unsaved' \subseteq Ids /\ strays' \subseteq Ids
  BY DEF MemType, Delete, Forget, Unlink
<1> QED
  BY <1>1, <1>2, <1>3, <1>4, <1>5, <1>6, <1>7, <1>8, <1>9, <1>10, <1>11, <1>12

\* IInv is preserved: a kill empties the maps.
LEMMA CrashIdleKeeps ==
    ASSUME IInv, CrashIdle
    PROVE  IInv'
<1> USE ConstantsAssumption DEF IInv, TypeOK
<1>1. MemType'
  BY DEF MemType, CrashIdle, Crash
<1>2. DiskType'
  BY DEF DiskType, CrashIdle, diskVars
<1>3. OpType'
  <2>1. op' \in Ops /\ cur' \in Ids \cup {NoId} /\ got' \in 0 .. Size
    BY DEF Ops, CrashIdle, Crash
  <2>2. shot' \in BOOLEAN
    BY Zenon DEF CrashIdle, Crash
  <2> QED
    BY <2>1, <2>2 DEF OpType
<1>4. AtWork'
  BY DEF AtWork, CrashIdle, Crash
<1>5. Renamed'
  BY DEF Renamed, CrashIdle, Crash
<1>6. HonestMetadata'
  BY DEF HonestMetadata, CrashIdle, diskVars
<1>7. IndexCovers'
  BY DEF IndexCovers, CrashIdle, Crash
<1>8. WithinCapacity'
  BY DEF WithinCapacity, CrashIdle, Crash
<1>9. FreshStart'
  BY DEF FreshStart, CrashIdle, Crash
<1>10. BackedByDisk'
  BY DEF BackedByDisk, CrashIdle, Crash
<1>11. TwoStrikes'
  BY DEF TwoStrikes, CrashIdle, Crash
<1>12. stored' \subseteq Ids /\ unsaved' \subseteq Ids /\ strays' \subseteq Ids
  BY DEF CrashIdle, Crash
<1> QED
  BY <1>1, <1>2, <1>3, <1>4, <1>5, <1>6, <1>7, <1>8, <1>9, <1>10, <1>11, <1>12

\* IInv is preserved: a kill inside an eviction leaves no metadata that claims too much.
LEMMA CrashPruningKeeps ==
    ASSUME IInv, NEW k \in 1 .. 4, CrashPruning(k)
    PROVE  IInv'
<1> USE ConstantsAssumption DEF IInv, TypeOK
<1>0. PICK id \in sortedIDs :
        /\ mp4' = [mp4 EXCEPT ![id] = NoFile]
        /\ jpg' = (IF k >= 2 THEN jpg \ {id} ELSE jpg)
        /\ json' = (IF k >= 3 THEN [json EXCEPT ![id] = NoFile] ELSE json)
        /\ marked' = (IF k >= 4 THEN marked \ {id} ELSE marked)
  BY DEF CrashPruning
<1>1. MemType'
  BY <1>0 DEF MemType, CrashPruning, Crash
<1>2. DiskType'
  BY <1>0 DEF DiskType, MemType, NoFile, CrashPruning
<1>3. OpType'
  <2>1. op' \in Ops /\ cur' \in Ids \cup {NoId} /\ got' \in 0 .. Size
    BY DEF Ops, CrashPruning, Crash
  <2>2. shot' \in BOOLEAN
    BY Zenon DEF CrashPruning, Crash
  <2> QED
    BY <2>1, <2>2 DEF OpType
<1>4. AtWork'
  BY <1>0 DEF AtWork, CrashPruning, Crash
<1>5. Renamed'
  BY <1>0 DEF Renamed, CrashPruning, Crash
<1>6. HonestMetadata'
  BY <1>0 DEF HonestMetadata, NoFile, BadMeta
<1>7. IndexCovers'
  BY <1>0 DEF IndexCovers, CrashPruning, Crash
<1>8. WithinCapacity'
  BY <1>0 DEF WithinCapacity, CrashPruning, Crash
<1>9. FreshStart'
  BY <1>0 DEF FreshStart, CrashPruning, Crash
<1>10. BackedByDisk'
  BY <1>0 DEF BackedByDisk, CrashPruning, Crash
<1>11. TwoStrikes'
  BY <1>0 DEF TwoStrikes, CrashPruning, Crash
<1>12. stored' \subseteq Ids /\ unsaved' \subseteq Ids /\ strays' \subseteq Ids
  BY <1>0 DEF CrashPruning, Crash
<1> QED
  BY <1>1, <1>2, <1>3, <1>4, <1>5, <1>6, <1>7, <1>8, <1>9, <1>10, <1>11, <1>12

-----------------------------------------------------------------------------
\* IInv is inductive: every action of the cache preserves it.
LEMMA NextIInv == IInv /\ [Next]_cacheVars => IInv'
<1> SUFFICES ASSUME IInv, [Next]_cacheVars PROVE IInv'
  OBVIOUS
<1>1. CASE LoadExisting
  BY <1>1, LoadExistingKeeps
<1>2. ASSUME NEW id \in Ids, CrashHealing(id) PROVE IInv'
  BY <1>2, CrashHealingKeeps
<1>3. ASSUME NEW id \in Ids, AddBegin(id) PROVE IInv'
  BY <1>3, AddBeginKeeps
<1>4. ASSUME NEW id \in Ids, AddOpenFails(id) PROVE IInv'
  BY <1>4, AddOpenFailsKeeps
<1>5. ASSUME NEW id \in Ids, Delete(id) PROVE IInv'
  BY <1>5, DeleteKeeps
<1>6. ASSUME NEW n \in 1 .. Size, AddCopied(n) PROVE IInv'
  BY <1>6, AddCopiedKeeps
<1>7. CASE AddCopyFails
  BY <1>7, AddCopyFailsKeeps
<1>8. ASSUME NEW ok \in BOOLEAN, AddThumbnail(ok) PROVE IInv'
  BY <1>8, AddThumbnailKeeps
<1>9. ASSUME NEW ok \in BOOLEAN, AddMetadata(ok) PROVE IInv'
  BY <1>9, AddMetadataKeeps
<1>10. ASSUME NEW ok \in BOOLEAN, WriteMarker(ok) PROVE IInv'
  BY <1>10, WriteMarkerKeeps
<1>11. CASE AddIndex
  BY <1>11, AddIndexKeeps
<1>12. CASE PruneStep
  BY <1>12, PruneStepKeeps
<1>13. CASE PruneDone
  BY <1>13, PruneDoneKeeps
<1>14. CASE RecordFailure
  BY <1>14, RecordFailureKeeps
<1>15. CASE MarkFailed
  BY <1>15, MarkFailedKeeps
<1>16. CASE CrashIdle
  BY <1>16, CrashIdleKeeps
<1>17. ASSUME NEW k \in 1 .. 4, CrashPruning(k) PROVE IInv'
  BY <1>17, CrashPruningKeeps
<1>18. CASE UNCHANGED cacheVars
  <2> USE <1>18 DEF cacheVars, memVars, diskVars, opVars, histVars, IInv
  <2>1. TypeOK'
    BY DEF TypeOK, MemType, DiskType, OpType
  <2>2. AtWork' /\ Renamed' /\ HonestMetadata'
    BY DEF AtWork, Renamed, HonestMetadata, Has
  <2>3. IndexCovers' /\ WithinCapacity' /\ FreshStart'
    BY DEF IndexCovers, WithinCapacity, FreshStart, IndexLen
  <2>4. BackedByDisk' /\ TwoStrikes'
    BY DEF BackedByDisk, TwoStrikes
  <2> QED
    BY <2>1, <2>2, <2>3, <2>4
<1> QED
  BY <1>1, <1>2, <1>3, <1>4, <1>5, <1>6, <1>7, <1>8, <1>9, <1>10, <1>11, <1>12, <1>13,
     <1>14, <1>15, <1>16, <1>17, <1>18 DEF Next

\* The cache never leaves IInv.
LEMMA Invariance == Spec => []IInv
BY InitIInv, NextIInv, PTL DEF Spec

-----------------------------------------------------------------------------
\* DiskInv is preserved: LoadExisting removes what it does not index.
LEMMA LoadExistingDisk ==
    ASSUME IInv, LoadExisting
    PROVE  DiskInv'
<1> USE DEF BadMeta, NoFile
<1>1. /\ items' = {id \in Ids : Loadable(id)} /\ failedIDs' = marked /\ marked' = marked
      /\ op' = "prune" /\ cur' = cur /\ unsaved' = unsaved
  BY DEF LoadExisting
<1>2. PICK healed \in SUBSET ({id \in Ids : Loadable(id)} \ jpg) :
        json' = [id \in Ids |-> IF id \in {i \in Ids : Truncated(i)} \cup {i \in Ids : Orphaned(i)}
                                THEN NoFile
                                ELSE IF id \in healed THEN mp4[id] ELSE json[id]]
  BY DEF LoadExisting
<1>3. mp4' = [id \in Ids |-> IF id \in {i \in Ids : Truncated(i)} THEN NoFile ELSE mp4[id]]
  BY DEF LoadExisting
<1>4. \A id \in Ids : mp4[id] \in Int /\ json[id] \in Int /\ mp4[id] >= -1 /\ json[id] >= -1
  BY ConstantsAssumption DEF IInv, TypeOK, DiskType
<1>5. \A id \in items' : Loadable(id)'
  BY <1>1, <1>2, <1>3, <1>4 DEF Loadable, Truncated, Orphaned
<1>6. \A id \in Ids \ items' : ~(json'[id] > BadMeta)
  BY <1>1, <1>2, <1>4 DEF Loadable, Truncated, Orphaned
<1>7. Described' /\ MarkersSaved'
  BY <1>1, <1>5 DEF Described, MarkersSaved
<1>8. NothingLeft'
  BY <1>1, <1>6 DEF NothingLeft
<1> QED
  BY <1>7, <1>8 DEF DiskInv

\* DiskInv is preserved: the metadata written is that of the video renamed before.
LEMMA AddMetadataDisk ==
    ASSUME IInv, DiskInv, NEW ok \in BOOLEAN, AddMetadata(ok)
    PROVE  DiskInv'
<1> USE DEF BadMeta, NoFile
<1>1. /\ op = "meta" /\ op' = "index" /\ cur \in Ids /\ cur \notin items /\ cur \notin failedIDs
      /\ UNCHANGED <<items, failedIDs, mp4, marked, cur, got, strays>>
  BY DEF AddMetadata, memVars, IInv, AtWork, Has
<1>2. mp4[cur] = got /\ got > 0
  BY <1>1 DEF IInv, Renamed, Complete
<1>3. json \in [Ids -> Int]
  BY ConstantsAssumption DEF IInv, TypeOK, DiskType
<1>4. \A id \in Ids : id # cur => json'[id] = json[id] /\ (id \in unsaved' <=> id \in unsaved)
  BY <1>3 DEF AddMetadata
<1>5. cur \in unsaved' \/ Loadable(cur)'
  <2>1. CASE ok
    BY <1>1, <1>2, <1>3, <2>1 DEF AddMetadata, Loadable, IInv, TypeOK, OpType
  <2>2. CASE ~ok
    BY <2>2 DEF AddMetadata
  <2> QED
    BY <2>1, <2>2
<1>6. \A id \in items \ unsaved' : Loadable(id)'
  BY <1>1, <1>4 DEF DiskInv, Described, Loadable, IInv, TypeOK, MemType
<1>7. Described'
  BY <1>1, <1>5, <1>6 DEF Described
<1>8. NothingLeft'
  BY <1>1, <1>4 DEF DiskInv, NothingLeft
<1>9. MarkersSaved'
  BY <1>1, <1>4 DEF DiskInv, MarkersSaved, IInv, TypeOK, MemType
<1> QED
  BY <1>7, <1>8, <1>9 DEF DiskInv

\* Forgetting a recording and unlinking its files agree.
LEMMA ForgottenDisk ==
    ASSUME IInv, DiskInv, NEW id \in Ids, Forget(id), Unlink(id), op # "down",
           UNCHANGED <<op, cur, unsaved>>, op # "index" \/ id # cur
    PROVE  DiskInv'
<1> USE DEF BadMeta, NoFile, DiskInv
<1>1. \A j \in Ids : j # id => json'[j] = json[j] /\ mp4'[j] = mp4[j]
  BY DEF Unlink, IInv, TypeOK, DiskType
<1>2. json'[id] = -1
  BY DEF Unlink, IInv, TypeOK, DiskType
<1>3. items' = items \ {id} /\ failedIDs' = failedIDs \ {id} /\ marked' = marked \ {id}
      /\ strays' = strays \ {id}
  BY DEF Forget, Unlink
<1>4. items \subseteq Ids /\ (op = "index" => cur \in Ids)
  BY DEF IInv, TypeOK, MemType, AtWork
<1>5. Described'
  BY <1>1, <1>3, <1>4 DEF Described, Loadable
<1>6. NothingLeft'
  BY <1>1, <1>2, <1>3 DEF NothingLeft
<1>7. MarkersSaved'
  BY <1>3 DEF MarkersSaved
<1> QED
  BY <1>5, <1>6, <1>7

\* DiskInv is preserved by every action.
LEMMA DiskKept ==
    ASSUME IInv, DiskInv, [Next]_cacheVars
    PROVE  DiskInv'
<1> USE DEF DiskInv
<1>1. CASE LoadExisting
  BY <1>1, LoadExistingDisk
<1>2. ASSUME NEW ok \in BOOLEAN, AddMetadata(ok) PROVE DiskInv'
  BY <1>2, AddMetadataDisk
<1>3. ASSUME NEW id \in Ids, Delete(id) PROVE DiskInv'
  <2>1. op = "index" => id # cur
    BY <1>3 DEF Delete, IInv, AtWork
  <2> QED
    BY <1>3, <2>1, ForgottenDisk DEF Delete, opVars
<1>4. CASE PruneStep
  BY <1>4, ForgottenDisk DEF PruneStep, opVars, histVars, IInv, TypeOK, MemType
<1>5. CASE AddIndex
  <2>1. /\ op = "index" /\ op' = "prune" /\ items' = items \cup {cur}
        /\ UNCHANGED <<failedIDs, mp4, json, marked, cur, unsaved, strays>>
    BY <1>5 DEF AddIndex, diskVars
  <2> QED
    BY <2>1 DEF Described, NothingLeft, MarkersSaved, Loadable
<1>6. CASE MarkFailed
  <2>1. /\ op = "marking" /\ op' = "markprune" /\ failedIDs' = failedIDs \cup {cur}
        /\ cur \notin items /\ UNCHANGED <<items, mp4, json, marked, cur, unsaved, strays>>
    BY <1>6 DEF MarkFailed, diskVars, IInv, AtWork, Has
  <2> QED
    BY <2>1 DEF Described, NothingLeft, MarkersSaved, Loadable
<1>7. ASSUME NEW ok \in BOOLEAN, WriteMarker(ok) PROVE DiskInv'
  <2>1. op = "mark" /\ op' = "idle" /\ UNCHANGED <<items, failedIDs, mp4, json>>
    BY <1>7 DEF WriteMarker, memVars
  <2>2. /\ cur \notin items /\ cur \in marked' \cup unsaved'
        /\ \A id : id # cur => /\ id \in unsaved' <=> id \in unsaved
                               /\ id \in marked' <=> id \in marked
        /\ marked' \subseteq failedIDs \cup strays'
    BY <1>7, <2>1 DEF WriteMarker, MarkersSaved
  <2>3. Described' /\ NothingLeft'
    BY <2>1, <2>2 DEF Described, NothingLeft, Loadable
  <2>4. MarkersSaved'
    BY <2>1, <2>2 DEF MarkersSaved
  <2> QED
    BY <2>3, <2>4
<1>8. ASSUME NEW n \in 1 .. Size, AddCopied(n) PROVE DiskInv'
  <2>1. /\ op = "copy" /\ op' = "thumb" /\ cur \in Ids /\ cur \notin items
        /\ UNCHANGED <<items, failedIDs, json, marked, cur, unsaved, strays>>
    BY <1>8 DEF AddCopied, memVars, histVars, IInv, AtWork, Has
  <2>2. \A id \in Ids : id # cur => mp4'[id] = mp4[id]
    BY <1>8 DEF AddCopied, IInv, TypeOK, DiskType
  <2> QED
    BY <2>1, <2>2 DEF Described, NothingLeft, MarkersSaved, Loadable, IInv, TypeOK, MemType
<1>9. CASE op' = "down"
  BY <1>9 DEF Described, NothingLeft, MarkersSaved
<1>10. ASSUME UNCHANGED <<items, failedIDs, mp4, json, marked, unsaved, strays>>, op # "down",
              op # "index", op' \notin {"index", "markprune"},
              op = "markprune" => op' = "mark", op' = "mark" => op = "markprune" /\ cur' = cur,
              op # "mark"
       PROVE  DiskInv'
  BY <1>10 DEF Described, NothingLeft, MarkersSaved, Loadable
<1>11. ASSUME UNCHANGED cacheVars PROVE DiskInv'
  BY <1>11 DEF cacheVars, memVars, diskVars, opVars, histVars, Described, NothingLeft,
     MarkersSaved, Loadable
<1>12. ASSUME NEW id \in Ids, AddBegin(id) \/ AddOpenFails(id) PROVE DiskInv'
  BY <1>10, <1>12 DEF AddBegin, AddOpenFails, memVars, diskVars, histVars
<1>13. ASSUME NEW ok \in BOOLEAN, AddThumbnail(ok) PROVE DiskInv'
  BY <1>10, <1>13 DEF AddThumbnail, memVars, histVars
<1>14. CASE AddCopyFails \/ PruneDone \/ RecordFailure
  BY <1>10, <1>14 DEF AddCopyFails, PruneDone, RecordFailure, memVars, diskVars, histVars
<1>15. ASSUME CrashIdle \/ (\E k \in 1 .. 4 : CrashPruning(k)) \/ (\E id \in Ids : CrashHealing(id))
       PROVE  op' = "down"
  BY <1>15 DEF CrashIdle, CrashPruning, Crash, CrashHealing, opVars
<1> QED
  BY <1>1, <1>2, <1>3, <1>4, <1>5, <1>6, <1>7, <1>8, <1>9, <1>11, <1>12, <1>13, <1>14, <1>15
     DEF Next

-----------------------------------------------------------------------------
\* The order of the ids, and that sortedIDs has an end to pop.
LEMMA IdsAreNumbers == \A id \in Ids : id \in Int
BY ConstantsAssumption

\* Indexing an id lengthens the index by one, unless it was still in sortedIDs.
LEMMA IndexGrows ==
    ASSUME IInv, NEW id \in Ids
    PROVE  /\ IndexLen \in Nat
           /\ id \notin sortedIDs =>
                 Cardinality(sortedIDs \cup {id}) + Cardinality(twice) = IndexLen + 1
<1>1. IsFiniteSet(sortedIDs) /\ Cardinality(sortedIDs) \in Nat /\ Cardinality(twice) \in Nat
  BY IndexLenNat DEF IInv, TypeOK, MemType
<1>2. id \notin sortedIDs => Cardinality(sortedIDs \cup {id}) = Cardinality(sortedIDs) + 1
  BY <1>1, FS_AddElement
<1> QED
  BY <1>1, <1>2 DEF IndexLen

\* One occurrence leaves the index when an id is forgotten.
LEMMA IndexLosesOne ==
    ASSUME IInv, NEW id \in sortedIDs, Forget(id)
    PROVE  IndexLen' = IndexLen - 1 /\ IndexLen \in Nat
<1>1. /\ IsFiniteSet(sortedIDs) /\ Cardinality(sortedIDs) \in Nat
      /\ IsFiniteSet(twice) /\ Cardinality(twice) \in Nat
  BY IndexLenNat DEF IInv, TypeOK, MemType
<1>2. CASE id \in twice
  <2>1. Cardinality(twice \ {id}) = Cardinality(twice) - 1
    BY <1>1, <1>2, FS_RemoveElement
  <2> QED
    BY <1>1, <1>2, <2>1 DEF Forget, IndexLen
<1>3. CASE id \notin twice
  <2>1. Cardinality(sortedIDs \ {id}) = Cardinality(sortedIDs) - 1
    BY <1>1, FS_RemoveElement
  <2>2. twice' = twice /\ sortedIDs' = sortedIDs \ {id}
    BY <1>3 DEF Forget
  <2> QED
    BY <1>1, <2>1, <2>2 DEF IndexLen
<1> QED
  BY <1>2, <1>3

\* NewestInv is preserved by indexing: the new id may be older than what is gone, but then
\* the index is overfull and it is the oldest.
LEMMA IndexedNewest ==
    ASSUME IInv, NewestInv, op # "down", op \notin {"prune", "markprune"},
           op' \in {"prune", "markprune"}, cur \in Ids, UNCHANGED <<cur, twice>>,
           sortedIDs' = sortedIDs \cup {cur}, stored' = stored \cup {cur}
    PROVE  NewestInv'
<1>1. /\ sortedIDs \subseteq stored
      /\ stored # sortedIDs => IndexLen >= MaxCount
      /\ \A old \in stored \ sortedIDs, kept \in sortedIDs : old < kept
  BY DEF NewestInv
<1>2. CASE cur \in sortedIDs
  <2>1. sortedIDs' = sortedIDs /\ stored' = stored /\ IndexLen' = IndexLen
    BY <1>1, <1>2 DEF IndexLen
  <2> QED
    BY <1>1, <2>1 DEF NewestInv
<1>3. CASE cur \notin sortedIDs
  <2>1. IndexLen' = IndexLen + 1 /\ IndexLen \in Nat
    BY <1>3, IndexGrows DEF IndexLen
  <2>2. stored' # sortedIDs' => stored # sortedIDs
    OBVIOUS
  <2>3. stored' # sortedIDs' => IndexLen' >= MaxCount /\ IndexLen' > MaxCount
    BY <1>1, <2>1, <2>2, ConstantsAssumption
  <2>4. cur \notin twice'
    BY <1>3 DEF IInv, IndexCovers
  <2>5. ASSUME NEW old \in stored' \ sortedIDs', NEW kept \in sortedIDs'
        PROVE  old < kept \/ (kept = cur' /\ cur' \notin twice' /\ IndexLen' > MaxCount)
    <3>1. CASE kept = cur
      BY <2>3, <2>4, <3>1
    <3>2. CASE kept # cur
      BY <1>1, <3>2
    <3> QED
      BY <3>1, <3>2
  <2> QED
    BY <1>1, <2>3, <2>5 DEF NewestInv
<1> QED
  BY <1>2, <1>3

\* NewestInv is preserved by eviction: the tail of sortedIDs goes, which is the recording
\* just indexed whenever something newer is gone already.
LEMMA EvictedNewest ==
    ASSUME IInv, NewestInv, PruneStep
    PROVE  NewestInv'
<1>1. PICK id \in sortedIDs : IsOldest(id, sortedIDs) /\ Forget(id)
  BY DEF PruneStep
<1>2. /\ op \in {"prune", "markprune"} /\ IndexLen > MaxCount /\ MaxCount \in Nat
      /\ UNCHANGED <<op, cur, stored>>
  BY ConstantsAssumption DEF PruneStep, Overfull, opVars, histVars
<1>3. IndexLen' >= MaxCount
  BY <1>1, <1>2, IndexLosesOne
<1>4. /\ sortedIDs \subseteq stored /\ sortedIDs \subseteq Ids /\ stored \subseteq Ids
      /\ \A old \in stored \ sortedIDs, kept \in sortedIDs :
            old < kept \/ (kept = cur /\ cur \notin twice)
  BY <1>2 DEF NewestInv, IInv, TypeOK, MemType
<1>5. sortedIDs' = IF id \in twice THEN sortedIDs ELSE sortedIDs \ {id}
  BY <1>1 DEF Forget
<1>6. \A j \in sortedIDs : id <= j
  BY <1>1 DEF IsOldest
<1>7. ASSUME NEW old \in stored' \ sortedIDs', NEW kept \in sortedIDs'
      PROVE  old < kept
  <2>1. CASE old \in sortedIDs
    <3>1. old = id /\ kept # id /\ kept \in sortedIDs
      BY <1>5, <1>7, <2>1
    <3> QED
      BY <1>4, <1>6, <3>1, IdsAreNumbers
  <2>2. CASE old \notin sortedIDs
    <3>1. old \in stored \ sortedIDs /\ kept \in sortedIDs
      BY <1>2, <1>5, <1>7, <2>2
    <3>2. SUFFICES ASSUME ~(old < kept) PROVE FALSE
      OBVIOUS
    <3>3. kept = cur /\ cur \notin twice /\ kept <= old
      BY <1>4, <3>1, <3>2, IdsAreNumbers
    <3>4. old < id \/ id = cur
      BY <1>4, <3>1
    <3>5. id = cur
      BY <1>4, <1>6, <3>1, <3>3, <3>4, IdsAreNumbers
    <3> QED
      BY <1>5, <1>7, <3>3, <3>5
  <2> QED
    BY <2>1, <2>2
<1> QED
  BY <1>2, <1>3, <1>4, <1>5, <1>7 DEF NewestInv

\* NewestInv is preserved by every action.
LEMMA NewestKept ==
    ASSUME IInv, NewestInv, [Next]_cacheVars
    PROVE  NewestInv'
<1>1. CASE LoadExisting \/ (\E id \in Ids : Delete(id))
  <2>1. stored' = sortedIDs'
    BY <1>1 DEF LoadExisting, Delete
  <2> QED
    BY <2>1 DEF NewestInv
<1>2. CASE PruneStep
  BY <1>2, EvictedNewest
<1>3. CASE AddIndex \/ MarkFailed
  BY <1>3, IndexedNewest DEF AddIndex, MarkFailed, IInv, AtWork
<1>4. CASE PruneDone
  BY <1>4 DEF PruneDone, NewestInv, Overfull, IndexLen, memVars, histVars
<1>5. ASSUME CrashIdle \/ (\E k \in 1 .. 4 : CrashPruning(k)) \/ (\E id \in Ids : CrashHealing(id))
      PROVE  NewestInv'
  BY <1>5 DEF CrashIdle, CrashPruning, Crash, CrashHealing, opVars, NewestInv
<1>6. ASSUME UNCHANGED <<sortedIDs, twice, stored>>, op # "down", op \notin {"prune", "markprune"}
      PROVE  NewestInv'
  BY <1>6 DEF NewestInv, IndexLen
<1>7. ASSUME NEW id \in Ids, AddBegin(id) \/ AddOpenFails(id) PROVE NewestInv'
  BY <1>6, <1>7 DEF AddBegin, AddOpenFails, memVars, histVars
<1>8. ASSUME NEW n \in 1 .. Size, AddCopied(n) PROVE NewestInv'
  BY <1>6, <1>8 DEF AddCopied, memVars, histVars
<1>9. ASSUME NEW ok \in BOOLEAN, AddThumbnail(ok) \/ AddMetadata(ok) \/ WriteMarker(ok)
      PROVE  NewestInv'
  BY <1>6, <1>9 DEF AddThumbnail, AddMetadata, WriteMarker, memVars, histVars
<1>10. CASE AddCopyFails \/ RecordFailure
  BY <1>6, <1>10 DEF AddCopyFails, RecordFailure, memVars, histVars
<1>11. CASE UNCHANGED cacheVars
  BY <1>11 DEF cacheVars, memVars, opVars, histVars, NewestInv, IndexLen
<1> QED
  BY <1>1, <1>2, <1>3, <1>4, <1>5, <1>7, <1>8, <1>9, <1>10, <1>11 DEF Next

-----------------------------------------------------------------------------
\* Only Add's rename, eviction, Delete and LoadExisting touch a video: of a recording that
\* is not listed before, or not after.
LEMMA VideoStep ==
    ASSUME IInv, [Next]_cacheVars, NEW id \in items \cap items'
    PROVE  mp4'[id] = mp4[id]
<1>1. ASSUME NEW n \in 1 .. Size, AddCopied(n) PROVE mp4'[id] = mp4[id]
  BY <1>1 DEF AddCopied, IInv, AtWork, Has, TypeOK, DiskType
<1>2. ASSUME NEW j \in Ids, Forget(j), Unlink(j) PROVE mp4'[id] = mp4[id]
  BY <1>2 DEF Forget, Unlink, IInv, TypeOK, DiskType
<1>3. ASSUME (\E j \in Ids : Delete(j)) \/ PruneStep PROVE mp4'[id] = mp4[id]
  BY <1>2, <1>3 DEF Delete, PruneStep, IInv, TypeOK, MemType
<1>4. ASSUME LoadExisting \/ CrashIdle \/ (\E k \in 1 .. 4 : CrashPruning(k)) PROVE FALSE
  BY <1>4 DEF LoadExisting, CrashIdle, CrashPruning, Crash, IInv, FreshStart
<1>5. ASSUME \E j \in Ids : CrashHealing(j) \/ AddBegin(j) \/ AddOpenFails(j) PROVE mp4' = mp4
  BY <1>5 DEF CrashHealing, AddBegin, AddOpenFails, diskVars
<1>6. ASSUME NEW ok \in BOOLEAN, AddThumbnail(ok) \/ AddMetadata(ok) \/ WriteMarker(ok)
      PROVE  mp4' = mp4
  BY <1>6 DEF AddThumbnail, AddMetadata, WriteMarker
<1>7. ASSUME AddCopyFails \/ AddIndex \/ PruneDone \/ RecordFailure \/ MarkFailed \/ UNCHANGED cacheVars
      PROVE  mp4' = mp4
  BY <1>7 DEF AddCopyFails, AddIndex, PruneDone, RecordFailure, MarkFailed, diskVars, cacheVars
<1> QED
  BY <1>1, <1>3, <1>4, <1>5, <1>6, <1>7 DEF Next

\* The types of the cache's variables are kept by every operation, and no recording is
\* ever counted more than twice by RecordFailure.
THEOREM TypeCorrect == Spec => []TypeOK
<1>1. IInv => TypeOK
  BY DEF IInv
<1> QED
  BY <1>1, Invariance, PTL

\* Housekeeping keeps the index within CACHE_RECORDINGS, and the index covers all that
\* the maps hold, whenever another goroutine can take the lock.
THEOREM Capacity == Spec => []CapacityKept
<1>1. IInv => CapacityKept
  BY DEF IInv, CapacityKept, IndexCovers, WithinCapacity, Running, LockFree
<1> QED
  BY <1>1, Invariance, PTL

\* What the cache lists can be played, also after a kill between any two steps of Add,
\* of pruning or of LoadExisting.
THEOREM Backed == Spec => []BackedByDisk
<1>1. IInv => BackedByDisk
  BY DEF IInv
<1> QED
  BY <1>1, Invariance, PTL

\* RecordFailure and MarkFailed together leave no recording that failed twice and is
\* still tried.
THEOREM Strikes == Spec => []TwoStrikes
<1>1. IInv => TwoStrikes
  BY DEF IInv
<1> QED
  BY <1>1, Invariance, PTL

\* A kill while the lock is free neither loses a recording or a marker nor brings one
\* back: LoadExisting would find what is indexed, but for writes that failed, the
\* recording Add is about to index, and the strays, which it names.
THEOREM RestartFinds == Spec => []RestartFindsIndex
<1>1. Init => DiskInv
  BY DEF Init, DiskInv, Described, NothingLeft, MarkersSaved
<1>2. IInv /\ DiskInv => RestartFindsIndex
  BY DEF DiskInv, Described, NothingLeft, MarkersSaved, RestartFindsIndex, Running, LockFree,
     Loadable
<1> QED
  BY <1>1, <1>2, DiskKept, Invariance, PTL DEF Spec

\* Eviction takes the oldest: what is gone since the start, and was not deleted, is older
\* than what is left, and the index is full; also when a recording older than everything
\* cached is added (README.md, CACHE_RECORDINGS).
THEOREM NewestKeptInCache == Spec => []KeepsNewest
<1>1. Init => NewestInv
  BY DEF Init, NewestInv
<1>2. IInv /\ NewestInv => KeepsNewest
  <2> SUFFICES ASSUME IInv, NewestInv, Running PROVE KeepsNewest
    BY DEF KeepsNewest
  <2>1. op \notin {"down", "prune", "markprune"}
    BY DEF Running, LockFree
  <2>2. IndexLen \in Nat /\ IndexLen <= MaxCount
    BY <2>1, IndexLenNat DEF IInv, WithinCapacity, IndexLen, TypeOK, MemType
  <2> QED
    BY <2>1, <2>2, ConstantsAssumption DEF NewestInv, KeepsNewest
<1> QED
  BY <1>1, <1>2, NewestKept, Invariance, PTL DEF Spec

\* While a recording is listed its video is not touched: a client reads one file from end
\* to end, whatever is downloaded, evicted or deleted beside it.
THEOREM ListedFilesKept == Spec => ListedFilesStable
<1>1. IInv /\ [Next]_cacheVars => [\A id \in items \cap items' : mp4'[id] = mp4[id]]_cacheVars
  BY VideoStep
<1> QED
  BY <1>1, Invariance, PTL DEF Spec, ListedFilesStable

-----------------------------------------------------------------------------
(***************************************************************************)
(* The synchronisation.  Known is what the cache was ever told of: what    *)
(* LoadExisting will find or has indexed, the answer being worked on, and  *)
(* the download.                                                           *)
(***************************************************************************)
OnDisk == IF op = "down" THEN {id \in Ids : Loadable(id)} \cup marked ELSE {}

Known == OnDisk \cup stored \cup queue \cup ({cur} \cap Ids)

\* What the camera records and lists are clips.
OnCard == camera \subseteq Ids /\ queue \subseteq Ids /\ writing \in Ids \cup {NoId}

\* The values of the variables.
Values ==
    /\ camera \subseteq Ids /\ queue \subseteq Ids /\ fetched \subseteq Ids
    /\ {writing, lastClip, newly} \subseteq Ids \cup {NoId}
    /\ {erased, again} \subseteq BOOLEAN

\* The operations of the cache run inside the syncer's.
Places ==
    /\ wpc \notin {"boot", "add"} => op = "idle"
    /\ wpc = "add" => cur \in Ids /\ op \notin {"idle", "down"}
    /\ wpc = "boot" => cur = NoId /\ queue = {} /\ fetched = {} /\ newly = NoId
    /\ op = "down" => wpc = "boot"
    /\ op = "idle" => cur = NoId

\* Without a kill or a Delete the maps and sortedIDs hold the same, each id once.
Maps ==
    /\ op = "down" => stored = {} /\ twice = {}
    /\ ~erased => /\ op = "down" => \A id \in marked : ~Loadable(id)
                  /\ op # "down" => /\ sortedIDs = items \cup failedIDs
                                    /\ items \cap failedIDs = {} /\ twice = {}
    /\ op = "prune" /\ cur \in Ids => cur \in stored /\ cur \notin failedIDs

\* A clip that begins is newer than any that is known.
Clips ==
    /\ writing \in {NoId, lastClip}
    /\ ~erased => \A j \in Known \cup camera : j <= lastClip /\ (writing # NoId => j # writing)

\* What the card lost is older than all it holds.
OldestLost == ~erased => \A k \in camera, j \in Known : k < j => j \in camera

\* Of what a sync works on, each is among the latest MaxCount, whatever came since.
Recent ==
    ~erased => \A id \in (queue \cup {cur, newly}) \cap Ids :
                  Cardinality({j \in Known : j > id}) < MaxCount

Fetched ==
    /\ fetched \subseteq stored
    /\ newly # NoId => newly \in stored /\ (~erased => newly \notin failedIDs)

SyncInv ==
    /\ Values /\ Places /\ Maps /\ Clips /\ OldestLost /\ Recent /\ Fetched
    /\ FetchedOnce

\* What the syncer does with the cache: everything but deleting and being killed.
Work ==
    \/ LoadExisting \/ PruneStep \/ PruneDone
    \/ \E id \in Ids : AddBegin(id) \/ AddOpenFails(id)
    \/ \E n \in 1 .. Size : AddCopied(n)
    \/ AddThumbnail(TRUE) \/ AddMetadata(TRUE) \/ WriteMarker(TRUE)
    \/ AddCopyFails \/ AddIndex \/ RecordFailure \/ MarkFailed

\* A step of the synchronisation is one of the cache, or leaves the cache alone.
LEMMA StepIsWork == ASSUME OnCard, [SyncNext]_vars PROVE Work \/ UNCHANGED cacheVars
<1>1. ASSUME NEW id \in queue, AddBegin(id) \/ AddOpenFails(id) PROVE Work
  BY <1>1 DEF OnCard, Work
<1>2. CASE Load \/ Download \/ CopyEnds \/ DiskFails \/ AddGoesOn \/ AddReturns \/ CountFailure
  BY <1>1, <1>2 DEF Load, Download, CopyEnds, DiskFails, AddGoesOn, AddReturns, CountFailure, Work
<1>3. CASE \/ StartupSync \/ DelayOver \/ ListAnswered \/ ListFails \/ SkipKnown \/ PauseOver
           \/ SyncDone \/ PollTick \/ TakeTrigger \/ Streamer
  BY <1>3 DEF StartupSync, DelayOver, ListAnswered, ListFails, SkipKnown, PauseOver, SyncDone,
     PollTick, TakeTrigger, Streamer, StreamEnds, StreamFails, StreamBlocks
<1>4. CASE Camera
  BY <1>4 DEF Camera, Motion, ClipDone, Erase, Connectivity
<1>5. CASE UNCHANGED vars
  BY <1>5 DEF vars
<1> QED
  BY <1>2, <1>3, <1>4, <1>5 DEF SyncNext, Worker

\* And one the cache may take.
LEMMA WorkIsNext == Work => Next
<1> SUFFICES ASSUME Work PROVE Next
  OBVIOUS
<1>1. TRUE \in BOOLEAN
  OBVIOUS
<1> QED
  BY <1>1 DEF Work, Next

\* What it does to the index.
LEMMA WorkSteps ==
    ASSUME IInv, Places, Maps, Work, erased' = erased
    PROVE  /\ Maps' /\ op' # "down"
           /\ op # "down" => stored \subseteq stored'
           /\ stored' \subseteq OnDisk \cup stored \cup ({cur} \cap Ids)
           /\ op # "down" => failedIDs' \subseteq failedIDs \cup (IF op = "marking" THEN {cur} ELSE {})
<1> USE DEF memVars, histVars
<1>1. CASE LoadExisting
  <2> DEFINE good == {id \in Ids : Loadable(id)}
  <2>1. /\ op = "down" /\ op' = "prune" /\ cur' = cur /\ items' = good /\ failedIDs' = marked
        /\ sortedIDs' = good \cup marked /\ twice' = good \cap marked /\ stored' = good \cup marked
    BY <1>1 DEF LoadExisting
  <2>2. ~erased => good \cap marked = {}
    BY <2>1 DEF Maps
  <2>3. cur' \notin Ids
    BY <2>1, ConstantsAssumption DEF Places, NoId
  <2> QED
    BY <2>1, <2>2, <2>3 DEF Maps, OnDisk
<1>2. CASE PruneStep
  <2>1. PICK id \in sortedIDs : Forget(id)
    BY <1>2 DEF PruneStep
  <2>2. op \in {"prune", "markprune"} /\ UNCHANGED <<op, cur, stored>>
    BY <1>2 DEF PruneStep, opVars
  <2>3. /\ items' = items \ {id} /\ failedIDs' = failedIDs \ {id}
        /\ ~erased => twice' = {} /\ sortedIDs' = sortedIDs \ {id}
    BY <2>1, <2>2 DEF Forget, Maps
  <2> QED
    BY <2>2, <2>3 DEF Maps
<1>3. CASE AddIndex
  <2>1. /\ op = "index" /\ op' = "prune" /\ cur \in Ids /\ cur \notin failedIDs
        /\ items' = items \cup {cur} /\ sortedIDs' = sortedIDs \cup {cur} /\ stored' = stored \cup {cur}
        /\ UNCHANGED <<failedIDs, twice, cur>>
    BY <1>3 DEF AddIndex, IInv, AtWork, Has
  <2> QED
    BY <2>1 DEF Maps
<1>4. CASE MarkFailed
  <2>1. /\ op = "marking" /\ op' = "markprune" /\ cur \in Ids /\ cur \notin items
        /\ failedIDs' = failedIDs \cup {cur} /\ sortedIDs' = sortedIDs \cup {cur}
        /\ stored' = stored \cup {cur} /\ UNCHANGED <<items, twice, cur>>
    BY <1>4 DEF MarkFailed, IInv, AtWork, Has
  <2> QED
    BY <2>1 DEF Maps
<1>5. ASSUME UNCHANGED <<items, failedIDs, sortedIDs, twice, stored>>,
             op # "down", op' \notin {"prune", "down"}
      PROVE  /\ Maps' /\ op' # "down"
             /\ stored \subseteq stored' /\ stored' \subseteq OnDisk \cup stored \cup ({cur} \cap Ids)
             /\ failedIDs' \subseteq failedIDs
  BY <1>5 DEF Maps
<1>6. CASE PruneDone
  BY <1>5, <1>6 DEF PruneDone
<1>7. CASE \E id \in Ids : AddBegin(id) \/ AddOpenFails(id)
  BY <1>5, <1>7 DEF AddBegin, AddOpenFails
<1>8. CASE AddCopyFails \/ (\E n \in 1 .. Size : AddCopied(n))
  BY <1>5, <1>8 DEF AddCopyFails, AddCopied
<1>9. CASE AddThumbnail(TRUE) \/ AddMetadata(TRUE) \/ WriteMarker(TRUE)
  BY <1>5, <1>9 DEF AddThumbnail, AddMetadata, WriteMarker
<1>10. CASE RecordFailure
  BY <1>5, <1>10 DEF RecordFailure
<1> QED
  BY <1>1, <1>2, <1>3, <1>4, <1>6, <1>7, <1>8, <1>9, <1>10 DEF Work

-----------------------------------------------------------------------------
\* What is known are numbers, finitely many, and not NoId.
LEMMA KnownSteps ==
    ASSUME IInv, Values
    PROVE  /\ Known \subseteq Ids /\ camera \subseteq Ids /\ NoId \notin Ids
           /\ \A id \in Ids \cup {NoId} : id \in Int
           /\ writing \in Int /\ lastClip \in Int
<1>1. \A id \in Ids \cup {NoId} : id \in Int
  BY ConstantsAssumption DEF NoId
<1>2. Known \subseteq Ids
  BY DEF Known, OnDisk, Values, IInv, TypeOK, DiskType
<1>3. camera \subseteq Ids /\ NoId \notin Ids
  BY ConstantsAssumption DEF Values, NoId
<1>4. writing \in Int /\ lastClip \in Int
  BY <1>1 DEF Values
<1> QED
  BY <1>1, <1>2, <1>3, <1>4

\* A recording the sync works on that was indexed is indexed still: to evict it, MaxCount
\* newer ones would have had to come.
LEMMA IndexedStill ==
    ASSUME IInv, NewestInv, SyncInv, ~erased, op \notin {"down", "prune", "markprune"},
           NEW id \in stored, id \in queue \cup {cur, newly}
    PROVE  Has(id)
<1> DEFINE newer == {j \in Known : j > id}
<1>1. /\ sortedIDs = items \cup failedIDs /\ twice = {} /\ sortedIDs \subseteq stored
      /\ stored # sortedIDs => IndexLen >= MaxCount
      /\ \A old \in stored \ sortedIDs, kept \in sortedIDs : old < kept
  BY DEF SyncInv, Maps, NewestInv
<1>2. SUFFICES ASSUME id \notin sortedIDs PROVE FALSE
  BY <1>1 DEF Has
<1>3. Known \subseteq Ids /\ id \in Ids /\ stored \subseteq Ids
  BY KnownSteps DEF SyncInv, IInv, TypeOK
<1>4. IsFiniteSet(newer) /\ Cardinality(newer) \in Nat /\ Cardinality(sortedIDs) \in Nat
  BY <1>1, <1>3, IndexLenNat
<1>5. Cardinality(newer) < MaxCount
  BY <1>3 DEF SyncInv, Recent
<1>6. sortedIDs \subseteq newer
  BY <1>1, <1>2, <1>3, IdsAreNumbers DEF Known
<1>7. Cardinality(sortedIDs) <= Cardinality(newer)
  BY <1>4, <1>6, FS_Subset
<1>8. Cardinality({}) = 0
  BY FS_EmptySet
<1>9. IndexLen = Cardinality(sortedIDs)
  BY <1>1, <1>4, <1>8 DEF IndexLen
<1> HIDE DEF newer
<1> QED
  BY <1>1, <1>2, <1>4, <1>5, <1>7, <1>9, ConstantsAssumption

\* What a step that learns of nothing new keeps.
LEMMA KnownShrinks ==
    ASSUME IInv, SyncInv, IInv', UNCHANGED <<camera, writing, lastClip, erased>>,
           Known' \subseteq Known,
           (queue' \cup {cur', newly'}) \cap Ids \subseteq queue \cup {cur, newly}
    PROVE  Clips' /\ OldestLost' /\ Recent'
<1>1. Clips'
  BY DEF SyncInv, Clips
<1>2. OldestLost'
  BY DEF SyncInv, OldestLost
<1>3. Recent'
  <2> SUFFICES ASSUME ~erased, NEW id \in (queue' \cup {cur', newly'}) \cap Ids
               PROVE  Cardinality({j \in Known' : j > id}) < MaxCount
    BY DEF Recent
  <2>1. PICK S, T : S = {j \in Known : j > id} /\ T = {j \in Known' : j > id}
    OBVIOUS
  <2>2. Cardinality(S) < MaxCount
    BY <2>1 DEF SyncInv, Recent
  <2>3. T \subseteq S /\ S \subseteq Ids
    BY <2>1, KnownSteps DEF SyncInv
  <2>4. Cardinality(T) <= Cardinality(S) /\ Cardinality(S) \in Nat /\ Cardinality(T) \in Nat
    BY <2>3, IndexLenNat, FS_Subset
  <2> QED
    BY <2>1, <2>2, <2>4, ConstantsAssumption
<1> QED
  BY <1>1, <1>2, <1>3

\* The camera's steps: what begins is newest, what is lost is oldest.
LEMMA CameraKeepsSync == ASSUME IInv, SyncInv, Camera PROVE SyncInv'
<1>0. UNCHANGED <<cacheVars, wpc, queue, newly, fetched, again>>
  BY DEF Camera, Motion, ClipDone, Erase, Connectivity, syncerVars, seenVars
<1>1. Known' = Known
  BY <1>0 DEF Known, OnDisk, Loadable, cacheVars, diskVars, opVars, histVars
<1>2. Places'
  BY <1>0 DEF SyncInv, Places, cacheVars, opVars
<1>3. UNCHANGED <<queue, cur, newly, fetched, again, stored, failedIDs>>
  BY <1>0 DEF cacheVars, memVars, opVars, histVars
<1>4. ~erased' => ~erased
  BY DEF Camera, Motion, ClipDone, Erase, Connectivity, SyncInv, Values
<1>12. Maps'
  BY <1>0, <1>4 DEF SyncInv, Maps, Loadable, cacheVars, memVars, diskVars, opVars, histVars
<1>5. Recent'
  BY <1>1, <1>3, <1>4 DEF SyncInv, Recent
<1>6. Fetched' /\ FetchedOnce'
  BY <1>3, <1>4 DEF SyncInv, Fetched, FetchedOnce
<1>7. /\ \A j \in Known \cup camera : j \in Int
      /\ ~erased => \A j \in Known \cup camera : j <= lastClip /\ (writing # NoId => j # writing)
      /\ writing \in {NoId, lastClip} /\ lastClip \in Int /\ camera \subseteq Ids
      /\ \A id \in Ids : id \in Int
      /\ ~erased => \A k \in camera, j \in Known : k < j => j \in camera
  BY KnownSteps DEF SyncInv, Clips, OldestLost
<1>8. ASSUME NEW id \in Ids, NEW heard \in BOOLEAN, Motion(id, heard)
      PROVE  Values' /\ Clips' /\ OldestLost'
  <2>1. id > lastClip /\ writing' = id /\ lastClip' = id /\ UNCHANGED <<camera, erased>>
    BY <1>8 DEF Motion
  <2>2. Values'
    BY <1>3, <2>1 DEF SyncInv, Values
  <2>3. Clips'
    BY <1>1, <1>7, <2>1 DEF Clips
  <2> QED
    BY <1>1, <1>7, <2>1, <2>2, <2>3 DEF OldestLost
<1>9. CASE ClipDone
  <2>1. PICK lost \in SUBSET camera :
          /\ \A id \in lost : IsOldest(id, camera)
          /\ camera' = (camera \ lost) \cup {writing}
    BY <1>9 DEF ClipDone
  <2>2. writing # NoId /\ writing' = NoId /\ UNCHANGED <<lastClip, erased>>
    BY <1>9 DEF ClipDone
  <2>3. Values'
    BY <1>3, <2>1, <2>2 DEF SyncInv, Values
  <2>4. Clips'
    BY <1>1, <1>7, <2>1, <2>2 DEF Clips
  <2>5. ASSUME ~erased, NEW k \in camera', NEW j \in Known, k < j PROVE j \in camera'
    <3>1. k # writing
      BY <1>7, <2>2, <2>5
    <3>2. k \in camera /\ j \in camera
      BY <1>7, <2>1, <2>5, <3>1
    <3>3. j \notin lost
      BY <1>7, <2>1, <2>5, <3>2 DEF IsOldest
    <3> QED
      BY <2>1, <3>2, <3>3
  <2>6. OldestLost'
    BY <1>1, <2>2, <2>5 DEF OldestLost
  <2> QED
    BY <1>2, <1>12, <1>5, <1>6, <2>3, <2>4, <2>6 DEF SyncInv
<1>10. ASSUME NEW id \in Erasable, Erase(id) PROVE Values' /\ Clips' /\ OldestLost'
  <2>1. camera' = camera \ {id} /\ erased' = TRUE /\ UNCHANGED <<writing, lastClip>>
    BY <1>10 DEF Erase
  <2>2. Values'
    BY <1>3, <2>1 DEF SyncInv, Values
  <2> QED
    BY <1>1, <1>7, <2>1, <2>2 DEF Clips, OldestLost
<1>11. CASE Connectivity
  <2>1. UNCHANGED <<camera, writing, lastClip, erased>>
    BY <1>11 DEF Connectivity
  <2>2. Values'
    BY <1>3, <2>1 DEF SyncInv, Values
  <2>3. Clips' /\ OldestLost'
    BY <1>1, <2>1 DEF SyncInv, Clips, OldestLost
  <2> QED
    BY <1>2, <1>12, <1>5, <1>6, <2>2, <2>3 DEF SyncInv
<1> QED
  BY <1>2, <1>12, <1>5, <1>6, <1>8, <1>9, <1>10, <1>11 DEF SyncInv, Camera

\* The camera's answer: the latest MaxCount it holds.
LEMMA ListAnsweredKeeps == ASSUME IInv, SyncInv, ListAnswered PROVE SyncInv'
<1>0. /\ wpc = "list" /\ wpc' = "scan" /\ op = "idle" /\ cur = NoId
      /\ queue' = Listed(camera) /\ newly' = NoId
      /\ UNCHANGED <<cacheVars, camera, writing, lastClip, erased, seenVars>>
  BY DEF ListAnswered, SyncInv, Places, cameraVars
<1>1. UNCHANGED <<cur, op, stored, failedIDs, fetched, again>>
  BY <1>0 DEF cacheVars, memVars, opVars, histVars, seenVars
<1>2. /\ queue' \subseteq camera /\ camera \subseteq Ids /\ NoId \notin Ids
      /\ Known \subseteq Ids /\ Known' \subseteq Known \cup queue'
  BY <1>0, <1>1, KnownSteps DEF Listed, Known, OnDisk, SyncInv
<1>3. Values' /\ Places' /\ Fetched' /\ FetchedOnce'
  BY <1>0, <1>1, <1>2 DEF SyncInv, Values, Places, Fetched, FetchedOnce
<1>4. Maps'
  BY <1>0 DEF SyncInv, Maps, Loadable, cacheVars, memVars, diskVars, opVars, histVars
<1>5. Clips'
  BY <1>0, <1>2 DEF SyncInv, Clips
<1>6. OldestLost'
  BY <1>0, <1>2 DEF SyncInv, OldestLost
<1>7. Recent'
  <2> SUFFICES ASSUME ~erased, NEW id \in queue'
               PROVE  Cardinality({j \in Known' : j > id}) < MaxCount
    BY <1>0, <1>1, <1>2 DEF Recent
  <2>1. PICK S, T : S = {j \in camera : j > id} /\ T = {j \in Known' : j > id}
    OBVIOUS
  <2>2. Cardinality(S) < MaxCount
    BY <1>0, <2>1 DEF Listed
  <2>3. T \subseteq S /\ S \subseteq Ids
    <3>1. ASSUME NEW j \in T PROVE j \in S
      <4>1. id \in camera /\ id \in Int /\ j \in Int /\ id < j /\ j \in Known \cup queue'
        BY <1>2, <2>1, <3>1, IdsAreNumbers
      <4>2. j \in camera
        BY <1>2, <4>1 DEF SyncInv, OldestLost
      <4> QED
        BY <2>1, <3>1, <4>2
    <3> QED
      BY <1>2, <2>1, <3>1
  <2>4. Cardinality(T) <= Cardinality(S) /\ Cardinality(S) \in Nat /\ Cardinality(T) \in Nat
    BY <2>3, IndexLenNat, FS_Subset
  <2> QED
    BY <2>1, <2>2, <2>4, ConstantsAssumption
<1> QED
  BY <1>3, <1>4, <1>5, <1>6, <1>7 DEF SyncInv

\* The steps that leave the cache alone and learn nothing.
LEMMA QuietKeepsSync ==
    ASSUME IInv, SyncInv, IInv',
           UNCHANGED <<cacheVars, camera, writing, lastClip, erased, fetched, again>>,
           queue' \subseteq queue, newly' \in {newly, NoId},
           wpc' = wpc \/ (op = "idle" /\ wpc' \notin {"boot", "add"})
    PROVE  SyncInv'
<1>1. UNCHANGED <<cur, op, stored, failedIDs>>
  BY DEF cacheVars, memVars, opVars, histVars
<1>2. NoId \notin Ids
  BY KnownSteps DEF SyncInv
<1>3. Known' \subseteq Known
  BY <1>1 DEF Known, OnDisk, Loadable, cacheVars, diskVars
<1>4. (queue' \cup {cur', newly'}) \cap Ids \subseteq queue \cup {cur, newly}
  BY <1>1, <1>2
<1>5. Clips' /\ OldestLost' /\ Recent'
  BY <1>3, <1>4, KnownShrinks
<1>6. Values' /\ Places' /\ Fetched' /\ FetchedOnce'
  BY <1>1 DEF SyncInv, Values, Places, Fetched, FetchedOnce
<1>7. Maps'
  BY DEF SyncInv, Maps, Loadable, cacheVars, memVars, diskVars, opVars, histVars
<1> QED
  BY <1>5, <1>6, <1>7 DEF SyncInv

\* Which they are.
LEMMA QuietSteps ==
    ASSUME IInv, SyncInv, IInv',
           \/ StartupSync \/ PollTick \/ TakeTrigger \/ DelayOver \/ ListFails \/ SkipKnown
           \/ Streamer \/ PauseOver \/ SyncDone \/ UNCHANGED vars
    PROVE  SyncInv'
<1> USE DEF cameraVars, syncerVars, seenVars
<1>1. CASE StartupSync \/ PollTick \/ TakeTrigger \/ DelayOver
  BY <1>1, QuietKeepsSync DEF StartupSync, PollTick, TakeTrigger, DelayOver, SyncInv, Places
<1>2. CASE ListFails \/ PauseOver \/ SyncDone
  BY <1>2, QuietKeepsSync DEF ListFails, PauseOver, SyncDone, SyncInv, Places
<1>3. CASE SkipKnown
  BY <1>3, QuietKeepsSync DEF SkipKnown
<1>4. CASE Streamer
  BY <1>4, QuietKeepsSync DEF Streamer, StreamEnds, StreamFails, StreamBlocks
<1>5. CASE UNCHANGED vars
  BY <1>5, QuietKeepsSync DEF vars
<1> QED
  BY <1>1, <1>2, <1>3, <1>4, <1>5

\* The cache is loaded before the first sync.
LEMMA LoadKeepsSync == ASSUME IInv, SyncInv, IInv', Load PROVE SyncInv'
<1>0. /\ wpc = "boot" /\ Work
      /\ UNCHANGED <<camera, writing, lastClip, erased, fetched, again, wpc, queue, newly>>
  BY DEF Load, Work, cameraVars, syncerVars, seenVars
<1>1. cur = NoId /\ queue = {} /\ fetched = {} /\ newly = NoId /\ cur' = NoId
  BY <1>0 DEF SyncInv, Places, Load, LoadExisting, PruneStep, PruneDone, opVars
<1>2. Maps' /\ op' # "down" /\ stored' \subseteq OnDisk \cup stored \cup ({cur} \cap Ids)
  BY <1>0, WorkSteps DEF SyncInv
<1>3. Known' \subseteq Known
  BY <1>0, <1>1, <1>2 DEF Known, OnDisk
<1>4. Clips' /\ OldestLost' /\ Recent'
  BY <1>0, <1>1, <1>3, KnownShrinks
<1>5. Values' /\ Places' /\ Fetched' /\ FetchedOnce'
  BY <1>0, <1>1, <1>2 DEF SyncInv, Values, Places, Fetched, FetchedOnce
<1> QED
  BY <1>2, <1>4, <1>5 DEF SyncInv

\* A download is begun of what was never cached.
LEMMA DownloadKeeps == ASSUME IInv, NewestInv, SyncInv, IInv', Download PROVE SyncInv'
<1>0. PICK id \in queue :
        /\ AddBegin(id) \/ AddOpenFails(id)
        /\ queue' = queue \ {id} /\ again' = (again \/ id \in fetched)
        /\ wpc' = "add" /\ UNCHANGED <<camera, writing, lastClip, erased, newly, fetched>>
  BY DEF Download, cameraVars
<1>1. /\ op = "idle" /\ op' \in {"copy", "failed"} /\ cur' = id /\ id \in Ids /\ ~Has(id)
      /\ UNCHANGED <<stored, failedIDs>> /\ Work
  BY <1>0 DEF AddBegin, AddOpenFails, memVars, histVars, SyncInv, Values, Work
<1>2. Maps'
  BY <1>0, <1>1, WorkSteps DEF SyncInv
<1>3. Known' \subseteq Known
  BY <1>0, <1>1 DEF Known, OnDisk
<1>4. Clips' /\ OldestLost' /\ Recent'
  BY <1>0, <1>1, <1>3, KnownShrinks
<1>5. again' \in BOOLEAN /\ FetchedOnce'
  <2>1. ~erased => id \notin fetched
    BY <1>0, <1>1, IndexedStill DEF SyncInv, Fetched
  <2>2. again \in BOOLEAN /\ erased \in BOOLEAN /\ (again => erased)
    BY DEF SyncInv, Values, FetchedOnce
  <2> QED
    BY <1>0, <2>1, <2>2 DEF FetchedOnce
<1>6. Values' /\ Places' /\ Fetched'
  BY <1>0, <1>1, <1>5 DEF SyncInv, Values, Places, Fetched
<1> QED
  BY <1>2, <1>4, <1>5, <1>6 DEF SyncInv

\* Add and RecordFailure keep to the recording they are called for.
LEMMA AddKeepsSync ==
    ASSUME IInv, NewestInv, SyncInv, IInv', Work, wpc = "add",
           UNCHANGED <<camera, writing, lastClip, erased, fetched, again, queue, newly>>,
           \/ wpc' = "add" /\ cur' = cur /\ op' # "idle"
           \/ wpc' = "scan" /\ cur' = NoId /\ op' = "idle"
    PROVE  SyncInv'
<1>1. cur \in Ids /\ op \notin {"idle", "down"} /\ NoId \notin Ids
  BY KnownSteps DEF SyncInv, Places
<1>2. /\ Maps' /\ op' # "down" /\ stored \subseteq stored'
      /\ stored' \subseteq OnDisk \cup stored \cup ({cur} \cap Ids)
      /\ failedIDs' \subseteq failedIDs \cup (IF op = "marking" THEN {cur} ELSE {})
  BY <1>1, WorkSteps DEF SyncInv
<1>3. Known' \subseteq Known
  BY <1>1, <1>2 DEF Known, OnDisk
<1>4. Clips' /\ OldestLost' /\ Recent'
  BY <1>1, <1>3, KnownShrinks
<1>5. Values' /\ Places' /\ FetchedOnce'
  BY <1>1, <1>2 DEF SyncInv, Values, Places, FetchedOnce
<1>6. Fetched'
  <2>1. ASSUME ~erased, newly # NoId PROVE newly \notin failedIDs'
    <3>1. newly \in stored /\ newly \notin failedIDs
      BY <2>1 DEF SyncInv, Fetched
    <3>2. op = "marking" => Has(newly) /\ ~Has(cur)
      BY <2>1, <3>1, IndexedStill DEF IInv, AtWork
    <3> QED
      BY <1>2, <3>1, <3>2
  <2> QED
    BY <1>2, <2>1 DEF SyncInv, Fetched
<1> QED
  BY <1>2, <1>4, <1>5, <1>6 DEF SyncInv

\* The steps of Add and RecordFailure.
LEMMA AddSteps ==
    ASSUME IInv, NewestInv, SyncInv, IInv', CopyEnds \/ DiskFails \/ AddGoesOn \/ CountFailure
    PROVE  SyncInv'
<1> USE DEF cameraVars, syncerVars, seenVars
<1>1. wpc = "add" /\ cur \in Ids
  BY DEF CopyEnds, DiskFails, AddGoesOn, CountFailure, SyncInv, Places
<1>2. CASE CopyEnds \/ DiskFails
  <2>1. Work /\ op' \in {"thumb", "failed"} /\ cur' = cur
    BY <1>2 DEF CopyEnds, DiskFails, AddCopied, AddCopyFails, Work
  <2>2. UNCHANGED <<camera, writing, lastClip, erased, fetched, again, queue, newly, wpc>>
    BY <1>2 DEF CopyEnds, DiskFails
  <2> QED
    BY <1>1, <2>1, <2>2, AddKeepsSync
<1>3. CASE AddGoesOn
  <2>1. Work /\ op' # "idle" /\ cur' = cur
    BY <1>3 DEF AddGoesOn, AddThumbnail, AddMetadata, AddIndex, PruneStep, opVars, Work
  <2>2. UNCHANGED <<camera, writing, lastClip, erased, fetched, again, queue, newly, wpc>>
    BY <1>3 DEF AddGoesOn
  <2> QED
    BY <1>1, <2>1, <2>2, AddKeepsSync
<1>4. CASE CountFailure
  <2>1. /\ RecordFailure \/ MarkFailed \/ (op = "markprune" /\ PruneDone) \/ WriteMarker(TRUE)
        /\ wpc' = IF op' = "idle" THEN "scan" ELSE "add"
        /\ UNCHANGED <<camera, writing, lastClip, erased, fetched, again, queue, newly>>
    BY <1>4 DEF CountFailure
  <2>2. Work
    BY <2>1 DEF Work
  <2>3. \/ cur' = cur /\ op' # "idle"
        \/ cur' = NoId /\ op' = "idle"
    BY <2>1 DEF RecordFailure, MarkFailed, PruneDone, WriteMarker
  <2> QED
    BY <1>1, <2>1, <2>2, <2>3, AddKeepsSync
<1> QED
  BY <1>2, <1>3, <1>4

\* Add returns what it cached.
LEMMA AddReturnsKeeps == ASSUME IInv, SyncInv, IInv', AddReturns PROVE SyncInv'
<1>0. /\ wpc = "add" /\ wpc' = "pause" /\ op = "prune" /\ op' = "idle" /\ cur' = NoId
      /\ newly' = (IF newly = NoId THEN cur ELSE newly) /\ fetched' = fetched \cup {cur}
      /\ UNCHANGED <<camera, writing, lastClip, erased, again, queue, stored, failedIDs>> /\ Work
  BY DEF AddReturns, PruneDone, cameraVars, memVars, histVars, Work
<1>1. cur \in Ids /\ NoId \notin Ids /\ cur \in stored /\ cur \notin failedIDs
  BY <1>0, KnownSteps DEF SyncInv, Places, Maps
<1>2. Maps'
  BY <1>0, WorkSteps DEF SyncInv
<1>3. Known' \subseteq Known
  BY <1>0, <1>1 DEF Known, OnDisk
<1>4. (queue' \cup {cur', newly'}) \cap Ids \subseteq queue \cup {cur, newly}
  BY <1>0, <1>1
<1>5. Clips' /\ OldestLost' /\ Recent'
  BY <1>0, <1>3, <1>4, KnownShrinks
<1>6. Values' /\ Places' /\ FetchedOnce'
  BY <1>0, <1>1 DEF SyncInv, Values, Places, FetchedOnce
<1>7. Fetched'
  BY <1>0, <1>1 DEF SyncInv, Fetched
<1> QED
  BY <1>2, <1>5, <1>6, <1>7 DEF SyncInv

\* A finite set of numbers that is not empty has a largest one: the one with the fewest above it.
LEMMA NewestExists ==
  ASSUME NEW S, IsFiniteSet(S), S # {}, \A j \in S : j \in Int
  PROVE  \E id \in S : \A j \in S : j <= id
<1> DEFINE Above(id) == {k \in S : id < k}
<1> DEFINE Tops == {Above(id) : id \in S}
<1> DEFINE R == StrictSubsetOrdering(S)
<1>1. IsWellFoundedOn(R, SUBSET S)
  BY FS_StrictSubsetOrderingWellFounded, FS_FiniteSubsetsOfFinite
<1>2. Tops \subseteq SUBSET S /\ Tops # {} OBVIOUS
<1>3. PICK x \in Tops : \A y \in Tops : <<y, x>> \notin R
  <2> HIDE DEF R, Tops
  <2> QED BY <1>1, <1>2, WFMin
<1>4. PICK id \in S : x = Above(id) BY <1>3
<1>5. ASSUME NEW j \in S, ~ (j <= id) PROVE FALSE
  <2>1. id < j /\ ~ (j < j) BY <1>5
  <2>2. j \in Above(id) /\ j \notin Above(j) BY <2>1
  <2>3. \A k \in S : j < k => id < k BY <2>1
  <2>4. Above(j) \subseteq Above(id) /\ Above(j) # Above(id) BY <2>2, <2>3
  <2>5. <<Above(j), Above(id)>> \in R BY <2>4 DEF StrictSubsetOrdering
  <2> QED BY <1>3, <1>4, <2>5
<1> QED BY <1>5

\* The invariant of the synchronisation is inductive.
LEMMA SyncInvariance ==
    /\ SyncInit => IInv /\ NewestInv /\ SyncInv
    /\ IInv /\ NewestInv /\ SyncInv /\ [SyncNext]_vars => IInv' /\ NewestInv' /\ SyncInv'
<1>1. ASSUME SyncInit PROVE IInv /\ NewestInv /\ SyncInv
  <2>1. /\ Init /\ camera \subseteq Ids /\ writing = NoId /\ wpc = "boot" /\ queue = {} /\ newly = NoId
        /\ lastClip = (IF camera = {} THEN NoId ELSE CHOOSE id \in camera : Newest(id, camera))
        /\ fetched = {} /\ again = FALSE /\ erased = ~CardKept
    BY <1>1 DEF SyncInit
  <2>2. IInv /\ NewestInv
    BY <2>1, InitIInv DEF Init, NewestInv
  <2>3. op = "down" /\ cur = NoId /\ stored = {} /\ NoId \notin Ids
    BY <2>1, ConstantsAssumption DEF Init, EmptyIndex, NoId
  <2>4. Known = {id \in Ids : Loadable(id)} \cup marked
    BY <2>1, <2>3 DEF Known, OnDisk
  <2>5. lastClip \in Ids \cup {NoId} /\ \A j \in camera : j <= lastClip
    <3>1. CASE camera = {}
      BY <2>1, <3>1
    <3>2. CASE camera # {}
      <4>1. PICK id \in camera : \A j \in camera : j <= id
        <5>1. IsFiniteSet(camera) /\ \A j \in camera : j \in Nat
          BY <2>1, IndexLenNat, ConstantsAssumption
        <5> QED
          BY <3>2, <5>1, NewestExists
      <4>2. Newest(lastClip, camera)
        BY <2>1, <3>2, <4>1 DEF Newest
      <4> QED
        BY <2>1, <4>2 DEF Newest
    <3> QED
      BY <3>1, <3>2
  <2>6. Values /\ Places /\ Fetched /\ FetchedOnce
    BY <2>1, <2>3, <2>5 DEF Values, Places, Fetched, FetchedOnce
  <2>7. Maps
    <3>1. twice = {} /\ (~erased => \A id \in marked : ~Loadable(id))
      BY <2>1 DEF Init, EmptyIndex, CardKept
    <3> QED
      BY <2>3, <3>1 DEF Maps
  <2>8. Clips /\ OldestLost
    BY <1>1, <2>1, <2>4, <2>5 DEF Clips, OldestLost, CardKept
  <2>9. Recent
    BY <2>1, <2>3 DEF Recent
  <2> QED
    BY <2>2, <2>6, <2>7, <2>8, <2>9 DEF SyncInv
<1>2. ASSUME IInv, NewestInv, SyncInv, [SyncNext]_vars PROVE IInv' /\ NewestInv' /\ SyncInv'
  <2>1. [Next]_cacheVars
    BY <1>2, StepIsWork, WorkIsNext DEF SyncInv, Values, OnCard
  <2>2. IInv' /\ NewestInv'
    BY <1>2, <2>1, NextIInv, NewestKept
  <2>3. SyncInv'
    BY <1>2, <2>2, CameraKeepsSync, ListAnsweredKeeps, QuietSteps, LoadKeepsSync, DownloadKeeps,
       AddSteps, AddReturnsKeeps
    DEF SyncNext, Worker
  <2> QED
    BY <2>2, <2>3
<1> QED
  BY <1>1, <1>2

\* Every step of the synchronisation is one the cache may take, so all that is proved of
\* the cache holds while SyncLatest works with it.
THEOREM SyncUsesCache == SyncSpec => Spec
<1>1. SyncInit => Init /\ OnCard
  BY DEF SyncInit, OnCard
<1>2. ASSUME OnCard, [SyncNext]_vars PROVE OnCard' /\ [Next]_cacheVars
  <2>1. [Next]_cacheVars
    BY <1>2, StepIsWork, WorkIsNext
  <2>2. CASE Camera
    BY <1>2, <2>2 DEF OnCard, Camera, Motion, ClipDone, Erase, Connectivity, syncerVars
  <2>3. CASE ListAnswered
    BY <1>2, <2>3 DEF OnCard, ListAnswered, Listed, cameraVars
  <2>4. CASE SkipKnown \/ Download
    <3>1. UNCHANGED cameraVars /\ queue' \subseteq queue
      BY <2>4 DEF SkipKnown, Download
    <3> QED
      BY <1>2, <2>1, <3>1 DEF OnCard, cameraVars
  <2>5. CASE \/ Load \/ StartupSync \/ DelayOver \/ ListFails \/ CopyEnds \/ DiskFails \/ AddGoesOn
             \/ AddReturns \/ PauseOver \/ CountFailure \/ SyncDone \/ PollTick \/ TakeTrigger
             \/ Streamer
    <3>1. UNCHANGED cameraVars
      BY <2>5
      DEF Load, StartupSync, DelayOver, ListFails, CopyEnds, DiskFails, AddGoesOn, AddReturns,
          PauseOver, CountFailure, SyncDone, PollTick, TakeTrigger, Streamer, StreamEnds,
          StreamFails, StreamBlocks
    <3>2. queue' = queue
      BY <2>5
      DEF Load, StartupSync, DelayOver, ListFails, CopyEnds, DiskFails, AddGoesOn, AddReturns,
          PauseOver, CountFailure, SyncDone, PollTick, TakeTrigger, Streamer, StreamEnds,
          StreamFails, StreamBlocks, syncerVars
    <3> QED
      BY <1>2, <2>1, <3>1, <3>2 DEF OnCard, cameraVars
  <2>6. CASE UNCHANGED vars
    BY <1>2, <2>6 DEF OnCard, vars, cameraVars, syncerVars
  <2> QED
    BY <1>2, <2>1, <2>2, <2>3, <2>4, <2>5, <2>6 DEF SyncNext, Worker
<1> QED
  BY <1>1, <1>2, PTL DEF SyncSpec, Spec

\* SyncLatest downloads no recording a second time, though pruning evicts and the list it
\* works on ages, as long as nobody deletes clips on the card: for any capacity, clips,
\* motions and failures, and any directory that agrees with the card (CardKept), also one
\* that holds more than the capacity.
THEOREM DownloadsOnce == SyncSpec => []FetchedOnce
<1>1. SyncInv => FetchedOnce
  BY DEF SyncInv
<1> QED
  BY <1>1, SyncInvariance, PTL DEF SyncSpec

\* What SyncLatest hands to the syncer, and the syncer publishes, is in the cache.
THEOREM PublishedIsCached == SyncSpec => PublishedPlayable
<1>1. ASSUME IInv, NewestInv, SyncInv, [SyncNext]_vars
      PROVE  [lastSeen' # lastSeen => lastSeen' \in items \/ erased]_vars
  <2> SUFFICES ASSUME SyncNext, lastSeen' # lastSeen, ~erased PROVE lastSeen' \in items
    BY <1>1 DEF vars, syncerVars
  <2>1. SyncDone
    BY DEF SyncNext, Worker, Camera, Streamer, Load, StartupSync, DelayOver, ListAnswered, ListFails,
       SkipKnown, Download, CopyEnds, DiskFails, AddGoesOn, AddReturns, PauseOver, CountFailure,
       PollTick, TakeTrigger, StreamEnds, StreamFails, StreamBlocks, Motion, ClipDone, Erase,
       Connectivity, syncerVars
  <2>2. lastSeen' = newly /\ newly # NoId /\ op = "idle"
    BY <1>1, <2>1 DEF SyncDone, SyncInv, Places
  <2>3. newly \in stored /\ newly \notin failedIDs
    BY <1>1, <2>2 DEF SyncInv, Fetched
  <2>4. Has(newly)
    BY <1>1, <2>2, <2>3, IndexedStill
  <2> QED
    BY <2>2, <2>3, <2>4 DEF Has
<1> QED
  BY <1>1, SyncInvariance, PTL DEF SyncSpec, PublishedPlayable

=============================================================================
