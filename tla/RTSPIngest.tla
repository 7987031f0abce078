---------------------------- MODULE RTSPIngest ----------------------------
(***************************************************************************)
(* The video of the L 620 CAM: ingests (xiongmai/rtsp_ingest.go) that try  *)
(* the candidate URLs of the camera's RTSP server one by one and feed what *)
(* they get into the bridge's own server, and the driver                   *)
(* (xiongmai/driver.go) that starts them, replaces them when the           *)
(* resolution changes and closes them.                                     *)
(*                                                                         *)
(* An ingest runs a goroutine of its own, a watchdog beside it while it    *)
(* plays, and may be closed at any point of both.  The lengths of the      *)
(* pauses are left out.                                                    *)
(***************************************************************************)
EXTENDS Naturals, FiniteSets

CONSTANTS
    MaxIngests,     \* bound: ingests created
    Candidates,     \* URLs to try: five per password
    Fallback,       \* those with the fallback password, where the one that worked differs
    MaxFaults       \* bound: how often the camera goes away, falls silent, changes its URL
                    \* or breaks connections

ASSUME IngestAssumption ==
    /\ MaxIngests \in Nat \ {0} /\ Candidates \in Nat \ {0} /\ MaxFaults \in Nat
    /\ Fallback \subseteq 2 .. Candidates

Ingests == 1 .. MaxIngests
Points  == {"none", "made", "top", "store", "dial", "wait", "judge", "pause", "done"}

VARIABLES
    pc, url,        \* where an ingest's goroutine is; the candidate it tries
    error,          \* how the last candidate ended: not at all, unreachable, otherwise
    stored,         \* ing.client is set
    hungup,         \* the client of the ingest has been closed
    first,          \* the first packet has arrived
    closed,         \* ing.closed and closeChan
    bound,          \* the context it got ends with the program; else it never ends
    driver,         \* "new", "running" or "closed"
    op,             \* what it is doing to the current ingest: nothing, replacing or closing it
    current, made,  \* d.ingest; ingests created
    stopped,        \* the program's context has ended
    port, good,     \* the camera's server listens; the URL it serves (0: none with H.264)
    resets,         \* the URLs on which it breaks the connection, or does not answer in time
    mute,           \* connections that have fallen silent
    faults,
    slipped,        \* history: a client was stored in an ingest that was closed already
    leaked          \* history: an ingest was started that nobody will close

ingVars == <<pc, url, error, stored, hungup, first>>
drvVars == <<driver, op, current, made>>
camVars == <<port, good, resets, mute, faults>>
vars == <<ingVars, closed, bound, drvVars, stopped, camVars, slipped, leaked>>

Init ==
    /\ pc = [i \in Ingests |-> IF i = 1 THEN "made" ELSE "none"]
    /\ url = [i \in Ingests |-> 1] /\ error = [i \in Ingests |-> "none"]
    /\ stored = [i \in Ingests |-> FALSE] /\ hungup = [i \in Ingests |-> FALSE]
    /\ first = [i \in Ingests |-> FALSE] /\ closed = [i \in Ingests |-> FALSE]
    /\ bound = [i \in Ingests |-> FALSE]
    /\ driver = "new" /\ op = "none" /\ current = 1 /\ made = 1 /\ stopped = FALSE
    /\ port = TRUE /\ good = 1 /\ resets = {} /\ mute = {} /\ faults = 0
    /\ slipped = FALSE /\ leaked = FALSE

At(i, p) == pc[i] = p
Go(i, p) == pc' = [pc EXCEPT ![i] = p]

-----------------------------------------------------------------------------
(* The goroutine of an ingest. *)

Over(i) == closed[i] \/ (bound[i] /\ stopped)

\* ingestLoop: the context or the closed channel end it, else a session begins.
Top(i) ==
    /\ At(i, "top")
    /\ Go(i, IF Over(i) THEN "done" ELSE "store")
    /\ url' = [url EXCEPT ![i] = 1] /\ error' = [error EXCEPT ![i] = "none"]
    /\ UNCHANGED <<stored, hungup, first, closed, bound, drvVars, stopped, camVars, slipped,
                   leaked>>

\* The client is stored for Close, without another look at ing.closed.
Store(i) ==
    /\ At(i, "store") /\ Go(i, "dial")
    /\ stored' = [stored EXCEPT ![i] = TRUE] /\ hungup' = [hungup EXCEPT ![i] = FALSE]
    /\ first' = [first EXCEPT ![i] = FALSE]
    /\ slipped' = (slipped \/ (closed[i] /\ ~(op # "none" /\ current = i)))
    /\ UNCHANGED <<url, error, closed, bound, drvVars, stopped, camVars, leaked>>

Fails(i, e) == Go(i, "judge") /\ error' = [error EXCEPT ![i] = e]

\* Start gives its ingest all passwords, SetResolution's has no fallback.
Tries(i) == IF bound[i] THEN 1 .. Candidates ELSE (1 .. Candidates) \ Fallback

\* Describe, Setup and Play on the candidate.  Any network error of Describe counts as a
\* port that cannot be reached.
Dial(i) ==
    /\ At(i, "dial")
    /\ \/ hungup[i] /\ Fails(i, "other")
       \/ ~hungup[i] /\ (~port \/ url[i] \in resets) /\ Fails(i, "dial")
       \/ ~hungup[i] /\ port /\ url[i] \notin resets /\ url[i] # good /\ Fails(i, "other")
       \/ ~hungup[i] /\ port /\ url[i] \notin resets /\ url[i] = good /\ Go(i, "wait")
          /\ UNCHANGED error
    /\ UNCHANGED <<url, stored, hungup, first, closed, bound, drvVars, stopped, camVars, slipped,
                   leaked>>

\* A packet goes to the server's stream.
Packet(i) ==
    /\ At(i, "wait") /\ port /\ i \notin mute /\ ~hungup[i] /\ ~first[i]
    /\ first' = [first EXCEPT ![i] = TRUE]
    /\ UNCHANGED <<pc, url, error, stored, hungup, closed, bound, drvVars, stopped, camVars,
                   slipped, leaked>>

FirstPacketOnly(i) ==   \* mutant: the watchdog ends with the first packet
    /\ At(i, "wait") /\ ~closed[i] /\ ~hungup[i] /\ i \in mute /\ ~first[i]
    /\ hungup' = [hungup EXCEPT ![i] = TRUE]
    /\ UNCHANGED <<pc, url, error, stored, first, closed, bound, drvVars, stopped, camVars,
                   slipped, leaked>>

\* No packet in the first 5 s, or none for 15 s; it has ended if the ingest is closed.
Watchdog(i) ==
    /\ At(i, "wait") /\ ~closed[i] /\ ~hungup[i] /\ i \in mute
    /\ hungup' = [hungup EXCEPT ![i] = TRUE]
    /\ UNCHANGED <<pc, url, error, stored, first, closed, bound, drvVars, stopped, camVars,
                   slipped, leaked>>

\* Wait returns when the client is closed or the camera has gone, with an error each time.
Ends(i) ==
    /\ At(i, "wait") /\ (hungup[i] \/ ~port) /\ Fails(i, "other")
    /\ UNCHANGED <<url, stored, hungup, first, closed, bound, drvVars, stopped, camVars, slipped,
                   leaked>>

More(i) == {u \in Tries(i) : u > url[i]}

\* The next candidate, but not on a port that cannot be reached nor once closed.
Judge(i) ==
    /\ At(i, "judge")
    /\ stored' = [stored EXCEPT ![i] = FALSE] /\ first' = [first EXCEPT ![i] = FALSE]
    /\ hungup' = [hungup EXCEPT ![i] = FALSE] /\ mute' = mute \ {i}
    /\ IF closed[i] THEN Go(i, "top") /\ UNCHANGED url
       ELSE IF error[i] = "dial" \/ More(i) = {} THEN Go(i, "pause") /\ UNCHANGED url
       ELSE /\ Go(i, "store")
            /\ \E u \in More(i) : /\ \A v \in More(i) : u <= v
                                 /\ url' = [url EXCEPT ![i] = u]
    /\ UNCHANGED <<error, closed, bound, drvVars, stopped, port, good, resets, faults, slipped,
                   leaked>>

\* The backoff ends, or is cut short.
Pause(i) ==
    /\ At(i, "pause")
    /\ \/ Go(i, "top")
       \/ Over(i) /\ Go(i, "done")
    /\ UNCHANGED <<url, error, stored, hungup, first, closed, bound, drvVars, stopped, camVars,
                   slipped, leaked>>

-----------------------------------------------------------------------------
(* The driver; d.mu is held through each of its calls. *)

Create(withContext) ==
    /\ made < MaxIngests /\ made' = made + 1 /\ current' = made + 1
    /\ pc' = [pc EXCEPT ![made + 1] = "top"] /\ bound' = [bound EXCEPT ![made + 1] = withContext]

\* Start replaces the ingest without closing it, a started one as well.
Start ==
    /\ driver = "new" /\ op = "none" /\ driver' = "running"
    /\ Create(TRUE)
    /\ leaked' = (leaked \/ pc[current] # "made")
    /\ UNCHANGED <<url, error, stored, hungup, first, closed, op, stopped, camVars, slipped>>

KeepsFlag(what) ==      \* mutant: the ingest is not marked as closed
    /\ op = "none" /\ op' = what
    /\ UNCHANGED <<ingVars, closed, bound, current, made, stopped, camVars, slipped>>

\* The ingest is closed and its channel; then its client is looked up.
Calls(what) ==
    /\ op = "none" /\ op' = what
    /\ closed' = [closed EXCEPT ![current] = TRUE]
    /\ UNCHANGED <<ingVars, bound, current, made, stopped, camVars, slipped>>

SetResolution ==
    /\ made < MaxIngests
    /\ Calls("swap") /\ UNCHANGED driver
    /\ leaked' = (leaked \/ driver = "closed")

Close ==
    /\ driver = "running" /\ stopped /\ driver' = "closed"
    /\ Calls("close") /\ UNCHANGED leaked

HangUpNever == UNCHANGED hungup     \* mutant: Close leaves the client to itself

HangUp == hungup' = [hungup EXCEPT ![current] = @ \/ stored[current]]

\* The ingest that follows a closed one gets a context that never ends.
Swapped ==
    /\ op = "swap" /\ op' = "none"
    /\ HangUp /\ Create(FALSE)
    /\ UNCHANGED <<url, error, stored, first, closed, driver, stopped, camVars, slipped, leaked>>

Closed ==
    /\ op = "close" /\ op' = "none"
    /\ HangUp
    /\ UNCHANGED <<pc, url, error, stored, first, closed, bound, driver, current, made, stopped,
                   camVars, slipped, leaked>>

StopProgram ==
    /\ ~stopped /\ driver = "running" /\ stopped' = TRUE
    /\ UNCHANGED <<ingVars, closed, bound, drvVars, camVars, slipped, leaked>>

-----------------------------------------------------------------------------
(* The camera. *)

\* It goes away, its connections fall silent, it serves another URL, or breaks connections;
\* it comes back.
CameraFails ==
    /\ faults < MaxFaults /\ faults' = faults + 1
    /\ \/ port' = FALSE /\ UNCHANGED <<good, resets, mute>>
       \/ mute' = {i \in Ingests : pc[i] = "wait"} /\ UNCHANGED <<good, port, resets>>
       \/ good' \in 0 .. Candidates /\ UNCHANGED <<port, resets, mute>>
       \/ resets' \in SUBSET (1 .. Candidates) /\ UNCHANGED <<port, good, mute>>
    /\ UNCHANGED <<ingVars, closed, bound, drvVars, stopped, slipped, leaked>>

CameraReturns ==
    /\ ~(port /\ good # 0)
    /\ port' = TRUE /\ good' \in 1 .. Candidates
    /\ UNCHANGED <<ingVars, closed, bound, drvVars, stopped, resets, mute, faults, slipped, leaked>>

-----------------------------------------------------------------------------
Ingest(i) == Top(i) \/ Store(i) \/ Dial(i) \/ Packet(i) \/ Ends(i) \/ Judge(i) \/ Pause(i)

Driver == Swapped \/ Closed

Next ==
    \/ \E i \in Ingests : Ingest(i) \/ Watchdog(i)
    \/ Start \/ SetResolution \/ Driver \/ Close \/ StopProgram
    \/ CameraFails \/ CameraReturns

\* The goroutines run, pauses and watchdogs end, the driver is closed when the program stops.
Spec ==
    /\ Init /\ [][Next]_vars
    /\ \A i \in Ingests : WF_vars(Ingest(i)) /\ WF_vars(Watchdog(i))
    /\ WF_vars(Driver) /\ WF_vars(Close)

-----------------------------------------------------------------------------
\* The values the variables range over; only a goroutine in a session has a client.
TypeOK ==
    /\ pc \in [Ingests -> Points] /\ url \in [Ingests -> 1 .. Candidates]
    /\ error \in [Ingests -> {"none", "dial", "other"}]
    /\ {stored, hungup, first, closed, bound} \subseteq [Ingests -> BOOLEAN]
    /\ \A i \in Ingests : stored[i] <=> pc[i] \in {"dial", "wait", "judge"}
    /\ driver \in {"new", "running", "closed"} /\ op \in {"none", "swap", "close"}
    /\ made \in Ingests /\ current = made /\ good \in 0 .. Candidates /\ faults \in 0 .. MaxFaults
    /\ resets \subseteq 1 .. Candidates
    /\ {port, stopped, slipped, leaked} \subseteq BOOLEAN
    /\ mute \subseteq {i \in Ingests : pc[i] \in {"wait", "judge"}}

Plays(i) == pc[i] = "wait" /\ ~hungup[i]

Kept == ~slipped /\ ~leaked

\* Two ingests never feed the bridge's stream at once, however calls that replace one fall
\* between the steps of its sessions; unless a client was stored in a closed ingest, or one
\* was started before Start or after Close.
OneStream == op = "none" /\ Kept => \A i, j \in Ingests : Plays(i) /\ Plays(j) => i = j

\* The driver runs, and the camera serves a URL that the current ingest tries, and answers
\* on those it tries before.
Served ==
    /\ driver = "running" /\ ~stopped /\ port /\ good \in Tries(current)
    /\ \A u \in Tries(current) : u <= good => u \notin resets

\* Once the camera serves one of the ingest's URLs and no longer breaks the connections to
\* those before it, its video arrives again and again, on whatever connection it fell
\* silent, whatever calls replaced the ingest.  A URL only the fallback password opens is
\* not among those of an ingest that SetResolution made.
VideoReturns == <>[]Served => []<>(Plays(current) /\ first[current] /\ current \notin mute)

\* After Close every ingest ends.
IngestsEnd == driver = "closed" ~> (~Kept \/ \A i \in Ingests : pc[i] \in {"none", "made", "done"})

\* Claim of rtsp_ingest.go:413, "Close terminates the ingest client": a closed ingest's
\* client ends though the camera goes on sending.
CloseTerminates == \A i \in Ingests : closed[i] ~> pc[i] \in {"made", "done"}
=============================================================================
