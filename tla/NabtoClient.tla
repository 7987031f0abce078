---------------------------- MODULE NabtoClient ---------------------------
(***************************************************************************)
(* The connection of the pure-Go Nabto driver (pkg/nabtopure/client.go and *)
(* coap.go): one DTLS socket shared by Connect, the CoAP requests, the     *)
(* signaling stream being opened or read, the keep-alive loop, the reader  *)
(* that hands out what arrives, and Close.                                 *)
(*                                                                         *)
(* "caller" is the stage goroutine of the supervisor (driver/l625.go) and  *)
(* then the bridge: Connect, GetSignalingPort, OpenSignalingStream, ReadMsg*)
(* until it ends.  The supervisor closes the client when a stage failed,   *)
(* the session is over or the program stops; a reader that fails closes it *)
(* as well.  What the stream carries is NabtoStream's.                     *)
(***************************************************************************)
EXTENDS Integers, FiniteSets

CONSTANTS MaxFrames,    \* bound: frames the camera sends
          MaxFaults     \* bound: writes that fail, handshakes that fail

ASSUME ClientAssumption == MaxFrames \in Nat /\ MaxFaults \in Nat

Requests == {"pair", "port", "tracks"}  \* each call of Execute draws its own token
Frames   == Requests \cup {"synack"}
Stages   == {"start", "shake", "pair", "port", "open", "syn", "await", "read", "over"}
Closers  == {"sup", "reader"}
NoFrame  == "none"

VARIABLES
    stage,      \* what the caller does
    held,       \* Connect holds c.mu
    up,         \* c.dtlsConn, coapClient, readerClose are set
    socket,     \* the UDP socket: "none", "open", "closed"
    link,       \* the camera keeps its side of the connection
    once,       \* c.closeOnce: "new", "busy" or "done"
    closer,     \* a goroutine in Close, and how far it is
    coapConn,   \* CoAPClient.conn is set
    req,        \* a call of Execute
    chan,       \* its response channel: "empty", "closed", or the "answer" in it
    pending,    \* the map of waiting requests
    stream,     \* c.currentStream: "none", "live", "closed"; it may be taken by Close
    synIn,      \* the stream's channel holds the SYN|ACK
    reader,     \* where packetReaderLoop is
    hand,       \* the frame it hands out
    alive,      \* keepAliveLoop; "deaf" when it selects on a nil channel
    air,        \* frames of the camera not yet read
    frames, faults,
    early,      \* history: Close was called before Connect had the lock
    crashed     \* the process died of a panic

connVars == <<held, up, socket, coapConn>>
coapVars == <<req, chan, pending>>
strmVars == <<stream, synIn>>
readVars == <<reader, hand>>
camVars  == <<link, air, frames>>
closeVars == <<once, closer, early>>
vars == <<stage, connVars, coapVars, strmVars, readVars, camVars, closeVars, alive, faults, crashed>>

Init ==
    /\ stage = "start" /\ held = FALSE /\ up = FALSE /\ socket = "none" /\ coapConn = FALSE
    /\ req = [r \in Requests |-> "no"] /\ chan = [r \in Requests |-> "empty"] /\ pending = {}
    /\ stream = "none" /\ synIn = FALSE
    /\ reader = "off" /\ hand = NoFrame /\ alive = "off"
    /\ link = TRUE /\ air = {} /\ frames = 0 /\ faults = 0
    /\ once = "new" /\ closer = [c \in Closers |-> "no"] /\ early = FALSE
    /\ crashed = FALSE

Fault == faults < MaxFaults /\ faults' = faults + 1

-----------------------------------------------------------------------------
(* Connect. *)

Lock ==
    /\ stage = "start" /\ ~held
    /\ stage' = "shake" /\ held' = TRUE /\ once' = "new" /\ socket' = "open"
    /\ UNCHANGED <<up, coapConn, coapVars, strmVars, readVars, camVars, closer, early, alive,
                   faults, crashed>>

\* The handshake ends, and the two loops start; without a known identity Connect asks for it.
Shaken(withIdentity) ==
    /\ stage = "shake" /\ link
    /\ up' = TRUE /\ coapConn' = TRUE /\ reader' = "top" /\ alive' = "wait"
    /\ IF withIdentity
       THEN stage' = "port" /\ held' = FALSE /\ UNCHANGED req
       ELSE stage' = "pair" /\ req' = [req EXCEPT !["pair"] = "taken"] /\ UNCHANGED held
    /\ UNCHANGED <<socket, chan, pending, strmVars, hand, camVars, closeVars, faults, crashed>>

ShakeFails ==
    /\ stage = "shake" /\ (Fault \/ (~link /\ UNCHANGED faults))
    /\ stage' = "over" /\ held' = FALSE /\ socket' = "closed"
    /\ UNCHANGED <<up, coapConn, coapVars, strmVars, readVars, camVars, closeVars, alive,
                   crashed>>

\* The answer, if any, is used; Connect succeeds with or without it.
Connected ==
    /\ stage = "pair" /\ req["pair"] \in {"answered", "failed", "timedout"}
    /\ stage' = "port" /\ held' = FALSE
    /\ UNCHANGED <<up, socket, coapConn, coapVars, strmVars, readVars, camVars, closeVars,
                   alive, faults, crashed>>

-----------------------------------------------------------------------------
(* CoAP requests. *)

\* GetSignalingPort and RequestTracks take the CoAP client under c.mu, Execute then its
\* connection; both may have gone.
Take(r) ==
    /\ req[r] = "no" /\ ~held
    /\ r = "port" => stage = "port"
    /\ r = "tracks" => stage = "read" \/ (stage = "over" /\ stream = "closed")
    /\ r # "pair"
    /\ req' = [req EXCEPT ![r] = IF up THEN "taken" ELSE "failed"]
    /\ UNCHANGED <<stage, connVars, chan, pending, strmVars, readVars, camVars, closeVars, alive,
                   faults, crashed>>

\* Close may have come between: then the connection is nil, or the entry comes too late.
Register(r) ==
    /\ req[r] = "taken"
    /\ \/ req' = [req EXCEPT ![r] = "entered"] /\ pending' = pending \cup {r}
       \/ ~coapConn /\ req' = [req EXCEPT ![r] = "failed"] /\ UNCHANGED pending
    /\ UNCHANGED <<stage, connVars, chan, strmVars, readVars, camVars, closeVars, alive, faults,
                   crashed>>

LeavesBehind(r, how) ==     \* mutant: the entry stays in the map
    req' = [req EXCEPT ![r] = how] /\ UNCHANGED pending

Leaves(r, how) == req' = [req EXCEPT ![r] = how] /\ pending' = pending \ {r}

Write(r) ==
    /\ req[r] = "entered"
    /\ \/ socket = "open" /\ req' = [req EXCEPT ![r] = "sent"] /\ UNCHANGED <<pending, faults>>
       \/ socket = "closed" /\ Leaves(r, "failed") /\ UNCHANGED faults
       \/ Fault /\ Leaves(r, "failed")
    /\ UNCHANGED <<stage, connVars, chan, strmVars, readVars, camVars, closeVars, alive,
                   crashed>>

Receive(r) ==
    /\ req[r] = "sent" /\ chan[r] # "empty"
    /\ Leaves(r, IF chan[r] = "closed" THEN "failed" ELSE "answered")
    /\ UNCHANGED <<stage, connVars, chan, strmVars, readVars, camVars, closeVars, alive, faults,
                   crashed>>

\* The reader works in microseconds, the timers in seconds.
ReaderMoves == reader = "give" \/ (reader = "top" /\ ~held) \/ (reader = "read" /\ air # {})

TimesOut(r) ==
    /\ req[r] = "sent" /\ chan[r] = "empty" /\ ~ReaderMoves
    /\ Leaves(r, "timedout")
    /\ UNCHANGED <<stage, connVars, chan, strmVars, readVars, camVars, closeVars, alive, faults,
                   crashed>>

-----------------------------------------------------------------------------
(* The stages after Connect. *)

\* Any failed stage ends the attempt.
PortKnown ==
    /\ stage = "port" /\ req["port"] \in {"answered", "failed", "timedout"}
    /\ stage' = IF req["port"] = "answered" THEN "open" ELSE "over"
    /\ UNCHANGED <<connVars, coapVars, strmVars, readVars, camVars, closeVars, alive, faults,
                   crashed>>

OpenSignalingStream ==
    /\ stage = "open" /\ ~held
    /\ IF up THEN stage' = "syn" /\ stream' = "live" ELSE stage' = "over" /\ UNCHANGED stream
    /\ UNCHANGED <<connVars, coapVars, synIn, readVars, camVars, closeVars, alive, faults,
                   crashed>>

SendSYN ==
    /\ stage = "syn" /\ ~held
    /\ \/ up /\ socket = "open" /\ stage' = "await" /\ UNCHANGED faults
       \/ ~(up /\ socket = "open") /\ stage' = "over" /\ UNCHANGED faults
       \/ Fault /\ stage' = "over"
    /\ UNCHANGED <<connVars, coapVars, strmVars, readVars, camVars, closeVars, alive, crashed>>

\* The SYN|ACK, the end of the stream, a second of silence or the deadline.
Opened ==
    /\ stage = "await"
    /\ \/ synIn /\ stage' = "read" /\ synIn' = FALSE
       \/ stream = "closed" /\ stage' = "over" /\ UNCHANGED synIn
       \/ ~synIn /\ ~ReaderMoves /\ stage' \in {"syn", "over"} /\ UNCHANGED synIn
    /\ UNCHANGED <<connVars, coapVars, stream, readVars, camVars, closeVars, alive, faults,
                   crashed>>

\* The session ends for its own reasons and closes its stream, or ReadMsg finds it closed.
SessionEnds ==
    /\ stage = "read" /\ stage' = "over"
    /\ stream' = "closed"
    /\ UNCHANGED <<connVars, coapVars, synIn, readVars, camVars, closeVars, alive, faults,
                   crashed>>

-----------------------------------------------------------------------------
(* The loops. *)

\* The reader takes c.mu before each read.
ReaderTop ==
    /\ reader = "top" /\ ~held
    /\ reader' = IF up THEN "read" ELSE "done"
    /\ UNCHANGED <<stage, connVars, coapVars, strmVars, hand, camVars, closeVars, alive, faults,
                   crashed>>

\* A frame is looked up by its token, under a lock that is released before the frame is
\* handed over.
ReadFrame ==
    /\ reader = "read" /\ socket = "open"
    /\ \E f \in air :
        /\ air' = air \ {f}
        /\ IF (f = "synack" /\ up /\ stream = "live") \/ f \in pending
           THEN reader' = "give" /\ hand' = f
           ELSE reader' = "top" /\ UNCHANGED hand
    /\ UNCHANGED <<stage, connVars, coapVars, strmVars, link, frames, closeVars, alive, faults,
                   crashed>>

\* A full channel drops the frame; sending on a closed one panics.
Give ==
    /\ reader = "give" /\ reader' = "top" /\ hand' = NoFrame
    /\ IF hand = "synack"
       THEN synIn' = TRUE /\ UNCHANGED <<chan, crashed>>
       ELSE /\ crashed' = (chan[hand] = "closed")
            /\ chan' = [chan EXCEPT ![hand] = IF @ = "empty" THEN "answer" ELSE @]
            /\ UNCHANGED synIn
    /\ UNCHANGED <<stage, connVars, req, pending, stream, camVars, closeVars, alive, faults>>

\* The read fails for good: the socket is closed, or the camera closed the connection.
ReadFails ==
    /\ reader = "read" /\ (socket = "closed" \/ (~link /\ air = {}))
    /\ reader' = "done" /\ closer' = [closer EXCEPT !["reader"] = "call"]
    /\ UNCHANGED <<stage, connVars, coapVars, strmVars, hand, camVars, once, early, alive, faults,
                   crashed>>

\* The loop is woken by the closed channel, unless it reads c.readerClose after Close.
Woken ==
    /\ alive = "wait" /\ ~up /\ alive' = "done"
    /\ UNCHANGED <<stage, connVars, coapVars, strmVars, readVars, camVars, closeVars, faults,
                   crashed>>

\* Every 5 s; the first error ends the loop.
Tick ==
    /\ alive \in {"wait", "deaf"} /\ ~held
    /\ \/ up /\ socket = "open" /\ alive' \in {"wait", "deaf"} /\ UNCHANGED faults
       \/ ~(up /\ socket = "open") /\ alive' = "done" /\ UNCHANGED faults
       \/ Fault /\ alive' = "done"
    /\ UNCHANGED <<stage, connVars, coapVars, strmVars, readVars, camVars, closeVars, crashed>>

-----------------------------------------------------------------------------
(* Close. *)

Call(c) ==
    /\ c = "sup" /\ closer[c] = "no"
    /\ closer' = [closer EXCEPT ![c] = "call"]
    /\ early' = (stage = "start")
    /\ UNCHANGED <<stage, connVars, coapVars, strmVars, readVars, camVars, once, alive, faults,
                   crashed>>

\* sync.Once: the first goes in, later ones wait for it.
Enter(c) ==
    /\ closer[c] = "call" /\ once # "busy"
    /\ closer' = [closer EXCEPT ![c] = IF once = "new" THEN "take" ELSE "done"]
    /\ once' = IF once = "new" THEN "busy" ELSE once
    /\ UNCHANGED <<stage, connVars, coapVars, strmVars, readVars, camVars, early, alive, faults,
                   crashed>>

\* The references are taken under c.mu; the goroutine keeps the socket and the stream.
TakeRefs(c) ==
    /\ closer[c] = "take" /\ ~held
    /\ closer' = [closer EXCEPT ![c] = IF up THEN "udp" ELSE "last"]
    /\ up' = FALSE
    /\ UNCHANGED <<stage, held, socket, coapConn, coapVars, strmVars, readVars, camVars, once,
                   early, alive, faults, crashed>>

Step(c, from, to) == closer[c] = from /\ closer' = [closer EXCEPT ![c] = to]

CloseSocket(c, from, to) ==
    /\ Step(c, from, to) /\ socket' = "closed"
    /\ UNCHANGED <<stage, held, up, coapConn, coapVars, strmVars, readVars, camVars, once, early,
                   alive, faults, crashed>>

\* CoAPClient.Close ends the waiting requests and then forgets the connection.
AbortRequests(c, from, to) ==
    /\ Step(c, from, to)
    /\ chan' = [r \in Requests |-> IF r \in pending THEN "closed" ELSE chan[r]]
    /\ pending' = {}
    /\ UNCHANGED <<stage, connVars, req, strmVars, readVars, camVars, once, early, alive, faults,
                   crashed>>

CloseStream(c) ==
    /\ Step(c, "stream", "coap")
    /\ stream' = IF stream = "live" THEN "closed" ELSE stream
    /\ UNCHANGED <<stage, connVars, coapVars, synIn, readVars, camVars, once, early, alive,
                   faults, crashed>>

ForgetConn(c) ==
    /\ Step(c, "forget", "last") /\ coapConn' = FALSE
    /\ UNCHANGED <<stage, held, up, socket, coapVars, strmVars, readVars, camVars, once, early,
                   alive, faults, crashed>>

SocketLast(c) ==    \* mutant: the requests are ended before the socket is closed
    AbortRequests(c, "udp", "stream") \/ CloseSocket(c, "coap", "forget")

Release(c) == CloseSocket(c, "udp", "stream") \/ AbortRequests(c, "coap", "forget")

\* A Once that Connect replaced meanwhile is unlocked without being locked: fatal.
Leave(c) ==
    /\ Step(c, "last", "done") /\ once' = "done" /\ crashed' = (once # "busy")
    /\ UNCHANGED <<stage, connVars, coapVars, strmVars, readVars, camVars, early, alive, faults>>

Close(c) == Enter(c) \/ TakeRefs(c) \/ Release(c) \/ CloseStream(c) \/ ForgetConn(c) \/ Leave(c)

-----------------------------------------------------------------------------
(* The camera. *)

\* It answers a request, perhaps twice, or accepts the stream, or not.
CameraSends ==
    /\ link /\ frames < MaxFrames /\ frames' = frames + 1
    /\ \E f \in Frames :
        /\ f \in Requests => req[f] \in {"sent", "answered", "timedout"}
        /\ f = "synack" => stage \in {"await", "syn"}
        /\ air' = air \cup {f}
    /\ UNCHANGED <<stage, connVars, coapVars, strmVars, readVars, link, closeVars, alive, faults,
                   crashed>>

HangsUp ==
    /\ link /\ link' = FALSE
    /\ UNCHANGED <<stage, connVars, coapVars, strmVars, readVars, air, frames, closeVars, alive,
                   faults, crashed>>

-----------------------------------------------------------------------------
Connect == Lock \/ (\E known \in BOOLEAN : Shaken(known)) \/ ShakeFails \/ Connected

Execute(r) == Take(r) \/ Register(r) \/ Write(r) \/ Receive(r)

Reader == ReaderTop \/ ReadFrame \/ Give \/ ReadFails

StreamEnds == stage = "read" /\ stream = "closed" /\ SessionEnds

Rest ==         \* nothing is left to be done, or nobody to do it
    /\ crashed \/ (stage = "over" /\ reader \in {"off", "done"} /\ closer["sup"] = "done")
    /\ UNCHANGED vars

Next ==
    \/ /\ ~crashed
       /\ \/ Connect \/ PortKnown \/ OpenSignalingStream \/ SendSYN \/ Opened \/ SessionEnds
          \/ Reader \/ Woken \/ Tick \/ CameraSends \/ HangsUp
          \/ \E r \in Requests : Execute(r) \/ TimesOut(r)
          \/ \E c \in Closers : Call(c) \/ Close(c)
    \/ Rest

Live(A) == ~crashed /\ A

\* Goroutines run, a handshake ends, the ticker ticks, Connect's request times out; no
\* fairness for the other timers, nor for the camera.
Spec ==
    /\ Init /\ [][Next]_vars
    /\ WF_vars(Live(Connect)) /\ WF_vars(Live(PortKnown \/ OpenSignalingStream \/ SendSYN))
    /\ WF_vars(Live(stream = "closed" /\ Opened)) /\ WF_vars(Live(StreamEnds))
    /\ WF_vars(Live(Reader)) /\ WF_vars(Live(Tick)) /\ WF_vars(Live(TimesOut("pair")))
    /\ \A r \in Requests : WF_vars(Live(Execute(r)))
    /\ \A c \in Closers : WF_vars(Live(Close(c)))

-----------------------------------------------------------------------------
\* The values the variables range over; in the map of requests are only those that wait or
\* are about to, so that a late answer finds no entry.
TypeOK ==
    /\ stage \in Stages /\ {held, up, coapConn, link, synIn, early, crashed} \subseteq BOOLEAN
    /\ socket \in {"none", "open", "closed"} /\ once \in {"new", "busy", "done"}
    /\ closer \in [Closers -> {"no", "call", "take", "udp", "stream", "coap", "forget",
                               "last", "done"}]
    /\ req \in [Requests -> {"no", "taken", "entered", "sent", "answered", "failed", "timedout"}]
    /\ chan \in [Requests -> {"empty", "answer", "closed"}]
    /\ pending \subseteq {r \in Requests : req[r] \in {"entered", "sent"}}
    /\ stream \in {"none", "live", "closed"} /\ alive \in {"off", "wait", "deaf", "done"}
    /\ reader \in {"off", "top", "read", "give", "done"}
    /\ IF reader = "give" THEN hand \in Frames ELSE hand = NoFrame
    /\ air \subseteq Frames /\ frames \in 0 .. MaxFrames /\ faults \in 0 .. MaxFaults

\* Nobody waits on the connection and neither loop runs.
Quiet ==
    /\ socket # "open" /\ reader \in {"off", "done"} /\ alive \in {"off", "done"}
    /\ stage = "over"
    /\ \A r \in Requests : req[r] \notin {"entered", "sent"}

\* Closing the client at any point, or the camera hanging up, ends every call and both
\* loops without waiting for a call's own timeout, but for what Connect does under c.mu, the
\* DTLS handshake (up to 10 s) and its question; unless Close came before Connect had begun,
\* or the process died.
EndsAtOnce == (closer["sup"] # "no" \/ ~link) ~> (Quiet \/ early \/ crashed)

\* Claim of ha-addon-beta/CHANGELOG.md:757, the identity is found by asking the camera:
\* the question does not time out while its answer is there to be read.
IdentityDiscovered == req["pair"] = "timedout" => "pair" \notin air
=============================================================================
