---------------------------- MODULE RecordingSync ----------------------------
(***************************************************************************)
(* The background synchronisation of the recording cache: the loop of      *)
(* RecordingSyncer.Start (pkg/storage/syncer.go), SyncLatest and its       *)
(* download pipe (pkg/storage/cached_provider.go), the steps of Add and    *)
(* RecordFailure of the cache module, and, around them, a camera that      *)
(* records clips, overwrites its oldest, loses clips to its user and comes *)
(* and goes.                                                               *)
(*                                                                         *)
(* Three processes meet here: the camera, which signals motion and then    *)
(* needs up to 35 s to finish the clip; the syncer, one goroutine whose    *)
(* place is `wpc'; and the goroutine SyncLatest starts for each download,  *)
(* which writes into an unbuffered pipe that Add reads.  `stream' is how   *)
(* far that goroutine has come.  The process is not killed here: what a    *)
(* restart finds is the cache module's subject.                            *)
(***************************************************************************)
EXTENDS RecordingCache

CONSTANT Erasable       \* clips the user may delete from the SD card

ASSUME ErasableAssumption == Erasable \subseteq Ids

VARIABLES
    camera,     \* clips on the camera's SD card
    writing,    \* the clip the camera is recording, or NoId
    lastClip,   \* the newest clip the camera ever began
    online,     \* whether the camera answers
    wpc,        \* the syncer: "boot", "idle", "delay", "list", "scan", "add", "pause"
    trigger,    \* whether triggerChan (capacity 1) holds a token
    awaited,    \* the clip being recorded when the 35 s delay began
    queue,      \* the clips of the camera's answer still to be looked at
    newly,      \* newlyCached[0], or NoId
    stream,     \* "none", "running", "eof", "err", or "blocked" in pw.Write
    lastSeen,   \* lastSeenID, published as the latest recording
    owed,       \* history: clips whose motion was signalled, not queried for since
    fetched,    \* history: clips cached at least once
    again,      \* history: a clip was downloaded that had been cached before
    erased      \* history: clips were deleted from the card, see CardKept

cameraVars == <<camera, writing, lastClip, online, erased>>
syncerVars == <<wpc, trigger, awaited, queue, newly, lastSeen, owed>>
seenVars   == <<fetched, again>>
vars == <<cacheVars, cameraVars, syncerVars, stream, seenVars>>

Newest(id, S) == id \in S /\ \A j \in S : j <= id

ListedTooMany(S) ==     \* mutant: the query asks for one recording more
    {id \in S : Cardinality({j \in S : j > id}) <= MaxCount}

\* The camera's answer to a query for the latest MaxCount recordings.
Listed(S) == {id \in S : Cardinality({j \in S : j > id}) < MaxCount}

\* At the start the directory and the card agree: what LoadExisting will index is
\* still on the card, unless the card has overwritten it as its oldest, and nothing
\* is there both as a recording and as a failure marker.
CardKept ==
    /\ \A j \in {id \in Ids : Loadable(id)} \cup marked :
          j <= lastClip /\ \A k \in camera : k < j => j \in camera
    /\ \A id \in marked : ~Loadable(id)

SyncInit ==
    /\ Init
    /\ camera \in SUBSET Ids
    /\ writing = NoId
    /\ lastClip = (IF camera = {} THEN NoId ELSE CHOOSE id \in camera : Newest(id, camera))
    /\ online \in BOOLEAN
    /\ wpc = "boot" /\ trigger = FALSE /\ awaited = NoId
    /\ queue = {} /\ newly = NoId /\ lastSeen = NoId
    /\ stream = "none"
    /\ owed = {} /\ fetched = {} /\ again = FALSE /\ erased = ~CardKept

-----------------------------------------------------------------------------
\* Motion: the camera begins a clip; the event, when it arrives, leaves a token in
\* triggerChan unless there is one (TriggerSync).
Motion(id, heard) ==
    /\ writing = NoId
    /\ id > lastClip
    /\ writing' = id /\ lastClip' = id
    /\ trigger' = (trigger \/ heard)
    /\ owed' = IF heard THEN owed \cup {id} ELSE owed
    /\ UNCHANGED <<cacheVars, camera, online, erased, wpc, awaited, queue, newly, lastSeen,
                   stream, seenVars>>

\* The clip is complete; a full card loses its oldest one.
ClipDone ==
    /\ writing # NoId
    /\ \E lost \in SUBSET camera :
          /\ Cardinality(lost) <= 1 /\ \A id \in lost : IsOldest(id, camera)
          /\ camera' = (camera \ lost) \cup {writing}
    /\ writing' = NoId
    /\ UNCHANGED <<cacheVars, lastClip, online, erased, syncerVars, stream, seenVars>>

Erase(id) ==
    /\ id \in camera
    /\ camera' = camera \ {id}
    /\ erased' = TRUE
    /\ UNCHANGED <<cacheVars, writing, lastClip, online, syncerVars, stream, seenVars>>

\* The session to the camera is lost or established.
Connectivity ==
    /\ online' = ~online
    /\ UNCHANGED <<cacheVars, camera, writing, lastClip, erased, syncerVars, stream, seenVars>>

-----------------------------------------------------------------------------
\* NewRecordingCache indexes the directory, and prunes, before the syncer starts.
Load ==
    /\ wpc = "boot"
    /\ LoadExisting \/ PruneStep \/ PruneDone
    /\ UNCHANGED <<cameraVars, syncerVars, stream, seenVars>>

\* Start: 3 s after the start, and then whenever the ticker fires (while a client
\* watches the stream at most every 5 minutes), a sync begins.
StartupSync ==
    /\ wpc = "boot" /\ op = "idle"
    /\ wpc' = "list"
    /\ UNCHANGED <<cacheVars, cameraVars, trigger, awaited, queue, newly, lastSeen, owed,
                   stream, seenVars>>

PollTick ==
    /\ wpc = "idle"
    /\ wpc' = "list"
    /\ UNCHANGED <<cacheVars, cameraVars, trigger, awaited, queue, newly, lastSeen, owed,
                   stream, seenVars>>

\* The loop receives the token and starts its 35 s delay.
TakeTrigger ==
    /\ wpc = "idle" /\ trigger
    /\ trigger' = FALSE
    /\ wpc' = "delay"
    /\ awaited' = writing
    /\ UNCHANGED <<cacheVars, cameraVars, queue, newly, lastSeen, owed, stream, seenVars>>

DelayDrains ==          \* mutant: motion signalled during the delay is dropped
    /\ wpc = "delay"
    /\ awaited = NoId \/ awaited # writing
    /\ wpc' = "list"
    /\ awaited' = NoId
    /\ trigger' = FALSE
    /\ UNCHANGED <<cacheVars, cameraVars, queue, newly, lastSeen, owed, stream, seenVars>>

\* 35 s later: by then the camera has finished the clip it was recording.
DelayOver ==
    /\ wpc = "delay"
    /\ awaited = NoId \/ awaited # writing
    /\ wpc' = "list"
    /\ awaited' = NoId
    /\ UNCHANGED <<cacheVars, cameraVars, trigger, queue, newly, lastSeen, owed, stream,
                   seenVars>>

\* SyncLatest has queried the camera: it goes through the answer ...
ListAnswered ==
    /\ wpc = "list" /\ online
    /\ queue' = Listed(camera)
    /\ newly' = NoId
    /\ owed' = owed \cap {writing}
    /\ wpc' = "scan"
    /\ UNCHANGED <<cacheVars, cameraVars, trigger, awaited, lastSeen, stream, seenVars>>

\* ... or returns with the error.
ListFails ==
    /\ wpc = "list" /\ ~online
    /\ owed' = owed \cap {writing}
    /\ wpc' = "idle"
    /\ UNCHANGED <<cacheVars, cameraVars, trigger, awaited, queue, newly, lastSeen, stream,
                   seenVars>>

SkipKnownStops ==       \* mutant: the first known recording ends the sync
    /\ wpc = "scan"
    /\ \E id \in queue : Newest(id, queue) /\ Has(id) /\ queue' = {}
    /\ UNCHANGED <<cacheVars, cameraVars, wpc, trigger, awaited, newly, lastSeen, owed, stream,
                   seenVars>>

\* Newest first: a recording cached or marked as failed is skipped.
SkipKnown ==
    /\ wpc = "scan"
    /\ \E id \in queue : Newest(id, queue) /\ Has(id) /\ queue' = queue \ {id}
    /\ UNCHANGED <<cacheVars, cameraVars, wpc, trigger, awaited, newly, lastSeen, owed, stream,
                   seenVars>>

\* Any other is downloaded: a goroutine writes into the pipe, Add reads from it.
Download ==
    /\ wpc = "scan"
    /\ \E id \in queue :
          /\ Newest(id, queue)
          /\ AddBegin(id) \/ AddOpenFails(id)
          /\ queue' = queue \ {id}
          /\ again' = (again \/ id \in fetched)
    /\ stream' = "running"
    /\ wpc' = "add"
    /\ UNCHANGED <<cameraVars, trigger, awaited, newly, lastSeen, owed, fetched>>

\* StreamVideo returns and the goroutine closes the pipe: the camera sent all ...
StreamEnds ==
    /\ stream = "running"
    /\ online /\ cur \in camera
    /\ stream' = "eof"
    /\ UNCHANGED <<cacheVars, cameraVars, syncerVars, seenVars>>

StreamFailsOnline ==    \* mutant: no watchdog notices that the session is lost
    /\ stream = "running" /\ online
    /\ stream' = "err"
    /\ UNCHANGED <<cacheVars, cameraVars, syncerVars, seenVars>>

\* ... or it is busy, silent, lost, or the 60 s are over.
StreamFails ==
    /\ stream = "running"
    /\ stream' = "err"
    /\ UNCHANGED <<cacheVars, cameraVars, syncerVars, seenVars>>

\* Add has returned early, so nobody reads the pipe, and a chunk arrives: Write
\* waits for a reader, whatever becomes of the context.
StreamBlocks ==
    /\ stream = "running" /\ op = "failed"
    /\ stream' = "blocked"
    /\ UNCHANGED <<cacheVars, cameraVars, syncerVars, seenVars>>

\* Add's copy ends with the pipe, or at once when the local disk fails.
CopyEnds ==
    /\ wpc = "add"
    /\ \/ stream = "eof" /\ \E n \in 1 .. Size : AddCopied(n)
       \/ stream \in {"eof", "err"} /\ AddCopyFails
    /\ UNCHANGED <<cameraVars, syncerVars, stream, seenVars>>

DiskFails ==
    /\ wpc = "add" /\ stream = "running"
    /\ AddCopyFails
    /\ UNCHANGED <<cameraVars, syncerVars, stream, seenVars>>

\* The rest of Add, with the lock of the cache from AddIndex on, and the pruning of
\* MarkFailed.
AddGoesOn ==
    /\ wpc = "add"
    /\ AddThumbnail(TRUE) \/ AddMetadata(TRUE) \/ AddIndex \/ PruneStep
    /\ UNCHANGED <<cameraVars, syncerVars, stream, seenVars>>

\* Add returns the recording: it is newlyCached, and the camera may rest for 500 ms.
AddReturns ==
    /\ wpc = "add" /\ op = "prune"
    /\ PruneDone
    /\ newly' = IF newly = NoId THEN cur ELSE newly
    /\ fetched' = fetched \cup {cur}
    /\ stream' = "none"
    /\ wpc' = "pause"
    /\ UNCHANGED <<cameraVars, trigger, awaited, queue, lastSeen, owed, again>>

PauseOver ==
    /\ wpc = "pause"
    /\ wpc' = "scan"
    /\ UNCHANGED <<cacheVars, cameraVars, trigger, awaited, queue, newly, lastSeen, owed,
                   stream, seenVars>>

\* Add returned an error and wg.Wait has seen the goroutine end: the failure is
\* counted, and the second one marked.
CountFailure ==
    /\ wpc = "add"
    /\ \/ stream \in {"eof", "err"} /\ RecordFailure
       \/ MarkFailed
       \/ op = "markprune" /\ PruneDone
       \/ WriteMarker(TRUE)
    /\ stream' = IF op' = "idle" THEN "none" ELSE stream
    /\ wpc' = IF op' = "idle" THEN "scan" ELSE "add"
    /\ UNCHANGED <<cameraVars, trigger, awaited, queue, newly, lastSeen, owed, seenVars>>

\* SyncLatest returns; the newest recording it cached is published as the latest.
SyncDone ==
    /\ wpc = "scan" /\ queue = {}
    /\ lastSeen' = IF newly = NoId THEN lastSeen ELSE newly
    /\ newly' = NoId
    /\ wpc' = "idle"
    /\ UNCHANGED <<cacheVars, cameraVars, trigger, awaited, queue, owed, stream, seenVars>>

Camera ==
    \/ \E id \in Ids, heard \in BOOLEAN : Motion(id, heard)
    \/ ClipDone
    \/ \E id \in Erasable : Erase(id)
    \/ Connectivity

\* What the syncer's goroutine does once it has chosen what to do.
Worker ==
    \/ Load \/ StartupSync \/ DelayOver \/ ListAnswered \/ ListFails \/ SkipKnown \/ Download
    \/ CopyEnds \/ AddGoesOn \/ AddReturns \/ PauseOver \/ CountFailure \/ SyncDone

Streamer == StreamEnds \/ StreamFails \/ StreamBlocks

SyncNext == Camera \/ Worker \/ Streamer \/ DiskFails \/ PollTick \/ TakeTrigger

\* The syncer and the download run; a download is bounded by its watchdogs and by
\* 60 s, a clip by 35 s; select chooses at random among what is ready, so a token is
\* not passed over for ever.  Nothing is assumed of the ticker, which
\* SDCARD_SYNC_INTERVAL = 0 disables.
SyncSpec ==
    /\ SyncInit /\ [][SyncNext]_vars
    /\ WF_vars(Worker) /\ WF_vars(Streamer) /\ WF_vars(ClipDone)
    /\ SF_vars(TakeTrigger)

-----------------------------------------------------------------------------
\* The values of the syncer's and the camera's variables; the cache's actions run
\* only inside a sync.
SyncTypeOK ==
    /\ TypeOK
    /\ camera \subseteq Ids /\ writing \in Ids \cup {NoId} /\ lastClip \in Ids \cup {NoId}
    /\ wpc \in {"boot", "idle", "delay", "list", "scan", "add", "pause"}
    /\ awaited \in Ids \cup {NoId} /\ newly \in Ids \cup {NoId} /\ lastSeen \in Ids \cup {NoId}
    /\ queue \subseteq Ids /\ owed \subseteq Ids /\ fetched \subseteq Ids
    /\ stream \in {"none", "running", "eof", "err", "blocked"}
    /\ {online, trigger, again, erased} \subseteq BOOLEAN
    /\ op \notin {"down", "idle", "prune"} => wpc = "add"

\* What the camera keeps is downloaded once: no sync loads a recording that an
\* earlier one cached (and pruned since), though the list it works on ages while it
\* downloads.  Only deletions on the card, and a directory that does not agree with
\* it at the start, break it; see SyncIdempotent.
FetchedOnce == again => erased

\* A recording that is published as the latest can be played from the cache.
PublishedPlayable ==
    [][lastSeen' # lastSeen => lastSeen' \in items \/ erased]_vars

\* A sync returns.  The one way for it to hang is the pipe: Add has given up on the
\* local disk while the camera still sends.
SyncReturns == wpc = "add" ~> (wpc # "add" \/ stream = "blocked")

\* No motion is missed, not even one signalled during the 35 s delay or during a
\* sync: after it, when its clip is complete, the camera is queried.
MotionHeard == \A id \in Ids : id \in owed ~> (id \notin owed \/ stream = "blocked")

\* With a camera that answers and a ticker that ticks, each of the latest recordings
\* is in the end cached or, after two tries, marked as failed: failures do not make
\* the sync try for ever, nor one bad clip keep the others out.
CaughtUp ==
    (<>[]online /\ []<><<PollTick>>_vars /\ []~erased)
        => \A id \in Ids : <>[](id \in Listed(camera) => Has(id))

\* Claim of the comment on Start, "runs the periodic and event-driven sync loops
\* until ctx is cancelled": a sync under way ends and the loop goes on.
LoopGoesOn == wpc = "add" ~> wpc # "add"

\* Claim of README.md and PublishRecordingEvent: the retained state is the latest
\* recording; it never goes back to an older one.
LatestStaysLatest == [][lastSeen' >= lastSeen]_vars

\* Claim of TestCachedRecordingProviderSyncLatest: what was cached is not
\* downloaded again by a later sync.
SyncIdempotent == ~again
=============================================================================
