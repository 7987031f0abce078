--------------------------- MODULE L625Supervisor --------------------------
(***************************************************************************)
(* L625Driver.Run (pkg/driver/l625.go), which connects the Nabto client,   *)
(* asks for the signalling port, opens the signalling stream and runs one  *)
(* session of BridgeSession after the other, with its waits in between.    *)
(*                                                                         *)
(* A call of the Nabto client runs in a goroutine of its own and is waited *)
(* for with a deadline; closing the client is given at most 6 s.  A call   *)
(* that outlives its deadline touches only the client that was given up.   *)
(***************************************************************************)
EXTENDS BridgeSession

VARIABLES
    sup,            \* where Run of the driver is
    failures,       \* consecutiveFailures
    active,         \* d.activeBridge is the running session's bridge
    lasted          \* the session has run for more than 60 s

supVars == <<sup, failures, active, lasted>>
allVars == <<sessVars, ctxDone, faults, supVars>>

Stages == {"connect", "port", "open"}

\* 15 s, 30 s, 60 s, 120 s and then 240 s.
CalculateBackoff(n) ==
    IF n <= 1 THEN 15 ELSE IF n >= 5 THEN 240 ELSE 15 * (2 ^ (n - 1))

SupInit ==
    /\ SessionInit
    /\ sup = "top" /\ failures = 0 /\ active = FALSE /\ lasted = FALSE

SupTo(p) == sup' = p
Failed   == failures' = failures + 1

\* nabto.New may fail and is tried again after 5 s.
Top ==
    /\ sup = "top"
    /\ \/ ctxDone /\ SupTo("ended") /\ NoFault
       \/ ~ctxDone /\ SupTo("connect") /\ NoFault
       \/ ~ctxDone /\ SupTo("wait") /\ Fault
    /\ UNCHANGED <<sessVars, ctxDone, failures, active, lasted>>

NextStage == [connect |-> "port", port |-> "open", open |-> "session"]

StageDone ==
    /\ sup \in Stages
    /\ SupTo(NextStage[sup])
    /\ UNCHANGED <<sessVars, ctxDone, faults, failures, active, lasted>>

\* An error or the deadline; the client is closed and the next try waits for
\* CalculateBackoff(failures').
StageFails ==
    /\ sup \in Stages /\ Fault
    /\ Failed
    /\ SupTo(IF ctxDone THEN "ended" ELSE "wait")
    /\ UNCHANGED <<sessVars, ctxDone, active, lasted>>

StageInterrupted ==
    /\ sup \in Stages /\ ctxDone
    /\ SupTo("ended")
    /\ UNCHANGED <<sessVars, ctxDone, faults, failures, active, lasted>>

StartSession ==
    /\ sup = "session" /\ Begin
    /\ SupTo("run") /\ active' = TRUE /\ lasted' = FALSE
    /\ UNCHANGED <<ctxDone, faults, failures>>

SessionLasts ==
    /\ sup = "run" /\ video = "fresh" /\ ~lasted
    /\ lasted' = TRUE
    /\ UNCHANGED <<sessVars, ctxDone, faults, sup, failures, active>>

\* setBridge(nil), the stream and the client are closed; the cooldown is 60 s.
SessionOver ==
    /\ sup = "run" /\ run = "off"
    /\ active' = FALSE /\ stream' = FALSE
    /\ IF ctxDone THEN SupTo("top") /\ UNCHANGED failures
       ELSE SupTo("wait") /\ (IF lasted THEN failures' = 0 ELSE Failed)
    /\ UNCHANGED <<runVars, stop, cancelled, peerVars, iceVars, mediaVars, inbox, had, ctxDone,
                   faults, lasted>>

Waited ==
    /\ sup = "wait" /\ SupTo(IF ctxDone THEN "ended" ELSE "top")
    /\ UNCHANGED <<sessVars, ctxDone, faults, failures, active, lasted>>

\* The bridge shuts down; nobody calls Close of the driver before Run has ended.
Shutdown ==
    /\ ~ctxDone /\ ctxDone' = TRUE
    /\ UNCHANGED <<sessVars, faults, supVars>>

Supervise ==
    Top \/ StageDone \/ StageInterrupted \/ StartSession \/ SessionOver \/ Waited

Same    == UNCHANGED <<supVars, had>>
Session == SessionNext /\ UNCHANGED supVars

SupNext == Supervise \/ StageFails \/ SessionLasts \/ Session \/ Shutdown

\* Goroutines run and deadlines pass; the camera does its part; faults need not happen,
\* and nothing makes a timer fire before its time.
SupSpec == SupInit /\ [][SupNext]_allVars
        /\ WF_allVars(Supervise) /\ WF_allVars(Run /\ Same)
        /\ WF_allVars(Stop /\ Same)
        /\ WF_allVars(Timers /\ Same)
        /\ WF_allVars(Camera /\ Same)
        /\ WF_allVars(TimerFires /\ Same)
        /\ WF_allVars(VideoStops /\ Same)

-----------------------------------------------------------------------------
\* The values of Run's own variables, of its channels and of the budget of faults.
RunTypes ==
    /\ run \in RunPlaces /\ stop \in {"wait", "abort", "close", "off"}
    /\ stopChan \in BOOLEAN /\ cancelled \in BOOLEAN /\ ctxDone \in BOOLEAN
    /\ stream \in BOOLEAN /\ inbox \in Seq(Messages)
    /\ faults \in 0 .. MaxFaults /\ had \in 0 .. faults

\* Those of the peer connection, of ICE with its timer, and of the media.
PeerTypes ==
    /\ peer \in {"none", "open", "closed"} /\ sig \in {"stable", "local", "remote"}
    /\ held \in BOOLEAN /\ dc \in {"new", "open"}
    /\ ice \in {"new", "up", "down", "failed", "closed"}
    /\ timer \in BOOLEAN /\ clock \in BOOLEAN
    /\ stray \in Nat /\ fired \in Nat /\ over \in Nat
    /\ video \in {"never", "fresh", "stale", "silent"} /\ track \in BOOLEAN
    /\ watch \in {"off", "grace", "tick"}

\* Those of the supervisor; a session runs only inside the supervisor's call of Run.
DriverTypes ==
    /\ sup \in Stages \cup {"top", "wait", "session", "run", "ended"}
    /\ failures \in Nat /\ active \in BOOLEAN /\ lasted \in BOOLEAN
    /\ run # "off" => sup = "run"

\* The values the variables range over.
SupTypeOK == RunTypes /\ PeerTypes /\ DriverTypes

Healthy == ice = "up" /\ video = "fresh" /\ ~ctxDone

\* Media that flow are not torn down.  In a session nobody has given up a grace timer
\* fires only while ICE is disconnected, unless the callback of an earlier one is already
\* on its way to cancel; and while the video is fresh over an ICE connection that is up
\* only its end (a failed connection, an ended track), the loss of the signalling stream
\* or such a callback, which the recovery came too late for, cancels the session.
HealthySurvives ==
    [][~cancelled =>
        /\ fired' > fired => ice = "down" \/ over > 0
        /\ Healthy /\ cancelled' =>
            ice' # "up" \/ ~track' \/ over > 0 \/ run \in {"closing", "unwound"}]_allVars

\* A session leaves nothing behind: when its Run has returned no peer connection is open,
\* when its callbacks have run m.timer holds no timer, and a timer m.timer has lost, which
\* nothing can stop, is one of a session that is cancelled or that the callback which
\* took the timer from m.timer is about to cancel.
CleanedUp ==
    /\ run = "off" => peer # "open" /\ (ice = "closed" => ~timer /\ ~clock)
    /\ stray > 0 => cancelled \/ over > 0

Streaming == video = "fresh" /\ ice = "up"

\* Nothing in Run limits the wait for the camera's TURN response.
TurnHangs == run = "turnr" /\ inbox = <<>> /\ stream

\* After whatever faults, video flows again, unless the bridge shuts down.
StreamComesBack == []<>(Streaming \/ ctxDone \/ TurnHangs)

\* A shutdown ends the driver's loop, wherever it and its session are.
ShutdownEnds == ctxDone ~> sup = "ended"

\* Claim of README.md:98, "24/7 Resilienz & Watchdog": no wait for the camera is
\* for ever.
NoEndlessWait == []<>(Streaming \/ ctxDone)
=============================================================================
