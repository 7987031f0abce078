--------------------------- MODULE BridgeSession ---------------------------
(***************************************************************************)
(* One WebRTC session with the L 625 (pkg/webrtc: bridge.go, signaling.go, *)
(* media.go): Bridge.Run with its deferred calls, the goroutine that stops *)
(* a cancelled session, the callbacks of the peer connection, the grace    *)
(* timer of iceStateManager and the watchdog for silent video.             *)
(*                                                                         *)
(* The camera speaks in turn on an ordered signalling stream: a TURN       *)
(* response, the answer to the first offer and, once tracks were requested *)
(* over the open data channel, an offer of its own.  Whatever goes wrong   *)
(* is charged to a budget of faults; so is a deadline that passes in a     *)
(* session in which nothing went wrong.  pion ends every gathering of      *)
(* candidates.  L625Supervisor starts the sessions and composes both.      *)
(***************************************************************************)
EXTENDS Integers, Sequences

CONSTANT MaxFaults      \* bound: what goes wrong in a run

ASSUME SessionAssumption == MaxFaults \in Nat

VARIABLES
    run,            \* where Bridge.Run is; "off" before and after
    stop,           \* where its stop goroutine is
    stopChan,       \* stopChan is closed
    cancelled,      \* sessCancel was called
    ctxDone,        \* the bridge shuts down
    peer, held,     \* the peer connection; it is stored in b.pc
    sig,            \* its signalling state
    stream,         \* the signalling stream is open
    inbox,          \* messages of the camera not yet read
    dc,             \* the data channel: "new" / "open"
    ice,            \* ICE: "new", "up", "down" or ended
    timer, clock,   \* m.timer # nil; the timer it holds runs
    stray,          \* timers that run and that m.timer no longer holds
    fired, over,    \* callbacks that have not yet cleared m.timer; that have and go on to cancel
    video,          \* the last video packet: "never", "fresh", "stale" (5 s), "silent" (15 s)
    track,          \* readVideoLoop runs
    watch,          \* the watchdog
    faults,
    had             \* history: faults before the session began

runVars   == <<run, stopChan>>
peerVars  == <<peer, held, sig, dc>>
iceVars   == <<ice, timer, clock, stray, fired, over>>
mediaVars == <<video, track, watch>>
chanVars  == <<stream, inbox>>
sessVars  == <<runVars, stop, cancelled, peerVars, iceVars, mediaVars, chanVars, had>>

Messages == {"turn", "answer", "offer", "junk"}
RunPlaces == {"turnw", "turnr", "pc", "hold", "offer", "gather", "offerw", "loop", "read",
              "answer", "return", "closing", "unwound", "off"}

SessionInit ==
    /\ run = "off" /\ stop = "off" /\ stopChan = FALSE /\ cancelled = FALSE
    /\ ctxDone = FALSE
    /\ peer = "none" /\ held = FALSE /\ sig = "stable" /\ dc = "new"
    /\ ice = "new" /\ timer = FALSE /\ clock = FALSE /\ stray = 0 /\ fired = 0 /\ over = 0
    /\ video = "never" /\ track = FALSE /\ watch = "off"
    /\ stream = FALSE /\ inbox = <<>> /\ faults = 0 /\ had = 0

\* NewBridge and the beginning of Run: every session has a state of its own.
Begin ==
    /\ run' = "turnw" /\ stop' = "wait" /\ stopChan' = FALSE /\ cancelled' = FALSE
    /\ peer' = "none" /\ held' = FALSE /\ sig' = "stable" /\ dc' = "new"
    /\ ice' = "new" /\ timer' = FALSE /\ clock' = FALSE /\ stray' = 0 /\ fired' = 0 /\ over' = 0
    /\ video' = "never" /\ track' = FALSE /\ watch' = "off"
    /\ stream' = TRUE /\ inbox' = <<>> /\ had' = faults

Fault    == faults < MaxFaults /\ faults' = faults + 1
NoFault  == UNCHANGED faults
At(p)    == run = p
To(p)    == run' = p /\ UNCHANGED stopChan
SessDone == cancelled \/ ctxDone
Read     == inbox # <<>> /\ inbox' = Tail(inbox)

\* The timer m.timer holds is stopped; a timer m.timer has lost runs on, and so does a
\* callback that has fired.
StopTimer ==
    /\ timer' = FALSE
    /\ clock' = (clock /\ ~timer)
    /\ UNCHANGED <<stray, fired, over>>

\* What the camera answers; a fault: it does not, or not so that it can be used.
Answers(m) ==
    \/ inbox' = Append(inbox, m) /\ NoFault
    \/ inbox' = Append(inbox, "junk") /\ Fault
    \/ UNCHANGED inbox /\ Fault

-----------------------------------------------------------------------------
(* Bridge.Run. *)

TurnRequest ==
    /\ At("turnw")
    /\ IF stream THEN To("turnr") /\ Answers("turn")
                 ELSE To("return") /\ UNCHANGED inbox /\ NoFault
    /\ UNCHANGED <<stop, cancelled, ctxDone, peerVars, iceVars, mediaVars, stream>>

TurnResponse ==
    /\ At("turnr")
    /\ \/ stream /\ Read /\ To(IF Head(inbox) = "turn" THEN "pc" ELSE "return")
       \/ ~stream /\ To("return") /\ UNCHANGED inbox
    /\ UNCHANGED <<stop, cancelled, ctxDone, peerVars, iceVars, mediaVars, stream, faults>>

NewPeerConnection ==
    /\ At("pc") /\ To("hold")
    /\ peer' = "open"
    /\ UNCHANGED <<stop, cancelled, ctxDone, held, sig, dc, iceVars, mediaVars, chanVars,
                   faults>>

\* b.pc is set under b.mu; the callbacks are registered.
HoldPeer ==
    /\ At("hold") /\ To("offer")
    /\ held' = TRUE
    /\ UNCHANGED <<stop, cancelled, ctxDone, peer, sig, dc, iceVars, mediaVars, chanVars, faults>>

\* The data channel and the offer: a closed peer connection makes neither.
CreateOffer ==
    /\ At("offer")
    /\ IF peer = "open" THEN To("gather") /\ sig' = "local"
                        ELSE To("return") /\ UNCHANGED sig
    /\ UNCHANGED <<stop, cancelled, ctxDone, peer, held, dc, iceVars, mediaVars, chanVars, faults>>

Gathered ==
    /\ At("gather") /\ To("offerw")
    /\ UNCHANGED <<stop, cancelled, ctxDone, peerVars, iceVars, mediaVars, chanVars, faults>>

\* The watchdog starts when the offer is out.
SendOffer ==
    /\ At("offerw")
    /\ IF stream THEN To("loop") /\ Answers("answer") /\ watch' = "grace"
                 ELSE To("return") /\ UNCHANGED <<inbox, watch>> /\ NoFault
    /\ UNCHANGED <<stop, cancelled, ctxDone, peerVars, iceVars, video, track, stream>>

LoopTop ==
    /\ At("loop") /\ To(IF SessDone THEN "return" ELSE "read")
    /\ UNCHANGED <<stop, cancelled, ctxDone, peerVars, iceVars, mediaVars, chanVars, faults>>

\* An answer counts only for an outstanding offer; an offer of the camera is taken only
\* when none is outstanding.
ReadSignal ==
    /\ At("read")
    /\ \/ ~stream /\ To("return") /\ UNCHANGED <<inbox, sig>>
       \/ /\ stream /\ Read
          /\ LET m == Head(inbox) IN
             CASE m = "answer" /\ sig = "local" /\ peer = "open" -> sig' = "stable" /\ To("loop")
               [] m = "offer" /\ sig = "stable" /\ peer = "open" -> sig' = "remote" /\ To("answer")
               [] OTHER -> UNCHANGED sig /\ To("loop")
    /\ UNCHANGED <<stop, cancelled, ctxDone, peer, held, dc, iceVars, mediaVars, stream, faults>>

\* CreateAnswer, gathering and WriteMsg, whose errors are passed over: the camera sends
\* video after an answer it got.
AnswerOffer ==
    /\ At("answer") /\ To("loop")
    /\ IF peer = "open" THEN sig' = "stable" ELSE UNCHANGED sig
    /\ track' = (track \/ (peer = "open" /\ stream))
    /\ UNCHANGED <<stop, cancelled, ctxDone, peer, held, dc, iceVars, video, watch, chanVars,
                   faults>>

\* The deferred calls: iceMgr.Cancel, pc.Close, and then stopChan and sessCancel.
CancelTimer ==
    /\ At("return") /\ To("closing")
    /\ StopTimer
    /\ UNCHANGED <<stop, cancelled, ctxDone, peerVars, ice, mediaVars, chanVars, faults>>

PeerKept == UNCHANGED peer          \* mutant: pc.Close is left to the stop goroutine

ClosePeer == peer' = IF peer = "none" THEN peer ELSE "closed"

Unwind ==
    /\ At("closing") /\ To("unwound")
    /\ ClosePeer
    /\ UNCHANGED <<stop, cancelled, ctxDone, held, sig, dc, iceVars, mediaVars, chanVars,
                   faults>>

Returned ==
    /\ At("unwound")
    /\ run' = "off" /\ stopChan' = TRUE /\ cancelled' = TRUE
    /\ UNCHANGED <<stop, ctxDone, peerVars, iceVars, mediaVars, chanVars, faults>>

-----------------------------------------------------------------------------
(* The stop goroutine. *)

StopWakes ==
    /\ stop = "wait"
    /\ \/ SessDone /\ stop' = "abort"
       \/ stopChan /\ stop' = "off"
    /\ UNCHANGED <<runVars, cancelled, ctxDone, peerVars, iceVars, mediaVars, chanVars, faults>>

StopWithoutAbort ==     \* mutant: only the peer connection is closed
    /\ stop = "abort" /\ stop' = "close"
    /\ UNCHANGED <<runVars, cancelled, ctxDone, peerVars, iceVars, mediaVars, chanVars, faults>>

StopAborts ==
    /\ stop = "abort" /\ stop' = "close"
    /\ stream' = FALSE
    /\ UNCHANGED <<runVars, cancelled, ctxDone, peerVars, iceVars, mediaVars, inbox, faults>>

\* Under b.mu, if b.pc is set.
StopClosesPeer ==
    /\ stop = "close" /\ stop' = "off"
    /\ peer' = IF held THEN "closed" ELSE peer
    /\ UNCHANGED <<runVars, cancelled, ctxDone, held, sig, dc, iceVars, mediaVars, chanVars,
                   faults>>

-----------------------------------------------------------------------------
(* The callbacks of the peer connection, the grace timer and the watchdog. *)

Alive == peer = "open" /\ held

SessCancel == cancelled' = TRUE

ConnectedKeepsClock ==  \* mutant: a recovery does not stop the timer
    /\ timer' = FALSE /\ UNCHANGED <<clock, stray, fired, over>>

Connected == StopTimer

IceConnects ==
    /\ Alive /\ sig = "stable" /\ run \in {"loop", "read", "answer"} /\ ice \in {"new", "down"}
    /\ ice' = "up" /\ Connected
    /\ UNCHANGED <<runVars, stop, cancelled, ctxDone, peerVars, mediaVars, chanVars, faults>>

IceDisconnects ==
    /\ Alive /\ ice = "up" /\ Fault
    /\ ice' = "down" /\ timer' = TRUE
    /\ clock' = IF timer THEN clock ELSE TRUE
    /\ UNCHANGED <<runVars, stop, cancelled, ctxDone, peerVars, stray, fired, over, mediaVars,
                   chanVars>>

\* Failed, of ICE or of the connection.
IceFails ==
    /\ Alive /\ ice \in {"new", "up", "down"} /\ Fault
    /\ ice' = "failed"
    /\ StopTimer /\ SessCancel
    /\ UNCHANGED <<runVars, stop, ctxDone, peerVars, mediaVars, chanVars>>

\* pc.Close by the stop goroutine ends the states Closed and the loops that read tracks.
PeerCloses ==
    /\ peer = "closed" /\ ice # "closed"
    /\ ice' = "closed" /\ track' = FALSE
    /\ StopTimer /\ SessCancel
    /\ UNCHANGED <<runVars, stop, ctxDone, peerVars, video, watch, chanVars, faults>>

\* The 20 s of a timer are over; m.timer still holds it.
TimerFires ==
    /\ \/ clock /\ clock' = FALSE /\ UNCHANGED stray
       \/ stray > 0 /\ stray' = stray - 1 /\ UNCHANGED clock
    /\ fired' = fired + 1
    /\ UNCHANGED <<runVars, stop, cancelled, ctxDone, peerVars, ice, timer, over, mediaVars,
                   chanVars, faults>>

\* The callback clears m.timer under m.mu, whichever timer it holds by then ...
GraceClears ==
    /\ fired > 0 /\ fired' = fired - 1 /\ over' = over + 1
    /\ timer' = FALSE /\ clock' = FALSE
    /\ stray' = IF clock THEN stray + 1 ELSE stray
    /\ UNCHANGED <<runVars, stop, cancelled, ctxDone, peerVars, ice, mediaVars, chanVars, faults>>

\* ... and cancels the session after the unlock.
GraceCancels ==
    /\ over > 0 /\ over' = over - 1
    /\ SessCancel
    /\ UNCHANGED <<runVars, stop, ctxDone, peerVars, ice, timer, clock, stray, fired, mediaVars,
                   chanVars, faults>>

\* dc.OnOpen requests the tracks: the camera makes its offer.
ChannelOpens ==
    /\ Alive /\ ice = "up" /\ dc = "new"
    /\ dc' = "open" /\ Answers("offer")
    /\ UNCHANGED <<runVars, stop, cancelled, ctxDone, peer, held, sig, iceVars, mediaVars,
                   stream>>

VideoPacket ==
    /\ Alive /\ ice = "up" /\ track /\ ~SessDone
    /\ video' = "fresh"
    /\ UNCHANGED <<runVars, stop, cancelled, ctxDone, peerVars, iceVars, track, watch, chanVars,
                   faults>>

VideoStops ==
    /\ \/ video = "fresh" /\ video' = "stale" /\ (IF ice = "up" THEN Fault ELSE NoFault)
       \/ video = "stale" /\ video' = "silent" /\ NoFault
    /\ UNCHANGED <<runVars, stop, cancelled, ctxDone, peerVars, iceVars, track, watch, chanVars>>

\* readVideoLoop: the track ends.
TrackEnds ==
    /\ Alive /\ track /\ ~SessDone /\ Fault
    /\ track' = FALSE /\ SessCancel
    /\ UNCHANGED <<runVars, stop, ctxDone, peerVars, iceVars, video, watch, chanVars>>

WatchdogOf(silent) ==
    /\ \/ /\ watch = "grace" /\ watch' = "tick"
          /\ IF video = "never" /\ ~SessDone /\ faults = had THEN Fault ELSE NoFault
          /\ UNCHANGED cancelled
       \/ /\ watch = "tick" /\ ~SessDone /\ video \in silent
          /\ watch' = "off" /\ SessCancel /\ NoFault
       \/ watch # "off" /\ SessDone /\ watch' = "off" /\ UNCHANGED cancelled /\ NoFault
    /\ UNCHANGED <<runVars, stop, ctxDone, peerVars, iceVars, video, track, chanVars>>

WatchdogOfSilence == WatchdogOf({"silent"})     \* mutant: no packet at all is overlooked

Watchdog == WatchdogOf({"never", "silent"})

\* The SD card manager found the control plane unresponsive: fresh video saves the session.
Unresponsive ==
    /\ run \notin {"off", "unwound"} /\ Fault
    /\ cancelled' = (cancelled \/ video # "fresh")
    /\ UNCHANGED <<runVars, stop, ctxDone, peerVars, iceVars, mediaVars, chanVars>>

\* The Nabto connection ends and takes the stream with it.
StreamLost ==
    /\ run # "off" /\ stream /\ Fault
    /\ stream' = FALSE
    /\ UNCHANGED <<runVars, stop, cancelled, ctxDone, peerVars, iceVars, mediaVars, inbox>>

Run ==
    \/ TurnRequest \/ TurnResponse \/ NewPeerConnection \/ HoldPeer \/ CreateOffer
    \/ Gathered \/ SendOffer \/ LoopTop \/ ReadSignal \/ AnswerOffer \/ CancelTimer
    \/ Unwind \/ Returned
Stop    == StopWakes \/ StopAborts \/ StopClosesPeer
Timers  == GraceClears \/ GraceCancels \/ Watchdog \/ PeerCloses
Camera  == IceConnects \/ ChannelOpens \/ VideoPacket
Trouble == IceDisconnects \/ IceFails \/ TimerFires \/ VideoStops \/ TrackEnds
           \/ Unresponsive \/ StreamLost

SessionNext == (Run \/ Stop \/ Timers \/ Camera \/ Trouble) /\ UNCHANGED had
=============================================================================
