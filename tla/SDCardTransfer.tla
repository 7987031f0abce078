--------------------------- MODULE SDCardTransfer ---------------------------
(***************************************************************************)
(* File transfers from the camera's SD card over the DataChannel           *)
(* (streamFile, HandleJSONMessage and HandleBinaryChunk of                 *)
(* pkg/webrtc/sdcard.go).                                                  *)
(*                                                                         *)
(* Three processes share one activeTransfer: the caller of streamFile,     *)
(* which pumps chunks from chunkChan to its writer; the goroutine that     *)
(* runs OnMessage, which takes the camera's messages off the ordered       *)
(* DataChannel one by one; and the camera.  The camera has no command to   *)
(* stop, and its messages do not say which request they answer: they are   *)
(* attributed to whatever transfer is active when they arrive.             *)
(*                                                                         *)
(* Calls are numbered by the request they send.  A call that finds         *)
(* transferMu taken returns ErrSDCardBusy and changes nothing; it is not   *)
(* an action.                                                              *)
(***************************************************************************)
EXTENDS Integers, Sequences, FiniteSets

CONSTANTS
    MaxRequests,    \* bound: transfers requested in a session
    Chunks,         \* binary messages a file is sent in
    Buffer,         \* capacity of chunkChan
    Window          \* bound: messages in flight on the DataChannel

ASSUME BoundsAssumption ==
    /\ MaxRequests \in Nat \ {0} /\ Chunks \in Nat \ {0}
    /\ Buffer \in Nat \ {0} /\ Window \in Nat \ {0}

Requests == 1 .. MaxRequests
Nobody   == 0
Parts    == [req : Requests, n : 1 .. Chunks]
NoPart   == [req |-> Nobody, n |-> 0]
Messages == [req : Requests, kind : {"start", "chunk", "end", "fail"}, n : 0 .. Chunks]

VARIABLES
    requested,  \* number of requests sent
    active,     \* m.active, the request of the transfer under way, or Nobody
    place,      \* its caller: "idle", or in the "pump" or the "drain" loop; "down": the
                \* process is gone, by a close of a closed channel
    inWrite,    \* the part it is in w.Write with, or NoPart
    chunkChan, doneChan, errChan,   \* of the active transfer: parts, closed, filled
    header,     \* the request whose start message set fileName and fileSize
    blocked,    \* [to, part] the receiver waits to deliver; to = Nobody: it does not
    todo, sent, wire,   \* camera: requests in hand, messages sent for the first; in flight
    result,     \* of each call: "none", "running", "ok", "failed"
    told,       \* the header onStart was given, or Nobody
    out,        \* the parts w was given
    clean,      \* history: calls begun with nothing of an earlier one outstanding
    dropped     \* history: calls that lost a part to a full buffer

callerVars   == <<requested, active, place, inWrite, result, told, out>>
transferVars == <<chunkChan, doneChan, errChan, header>>
cameraVars   == <<todo, sent, wire>>
histVars     == <<clean, dropped>>
vars == <<callerVars, transferVars, blocked, cameraVars, histVars>>

NotBlocked == [to |-> Nobody, part |-> NoPart]

Fresh ==    \* a new activeTransfer, or none
    /\ chunkChan' = <<>> /\ doneChan' = FALSE /\ errChan' = FALSE /\ header' = Nobody

Init ==
    /\ requested = 0 /\ active = Nobody /\ place = "idle" /\ inWrite = NoPart
    /\ chunkChan = <<>> /\ doneChan = FALSE /\ errChan = FALSE /\ header = Nobody
    /\ blocked = NotBlocked
    /\ todo = <<>> /\ sent = 0 /\ wire = <<>>
    /\ result = [r \in Requests |-> "none"]
    /\ told = [r \in Requests |-> Nobody]
    /\ out = [r \in Requests |-> <<>>]
    /\ clean = {} /\ dropped = {}

-----------------------------------------------------------------------------
\* streamFile takes transferMu, becomes the active transfer and sends its request.
Begin ==
    /\ place = "idle" /\ requested < MaxRequests
    /\ requested' = requested + 1
    /\ active' = requested'
    /\ place' = "pump"
    /\ result' = [result EXCEPT ![requested'] = "running"]
    /\ todo' = Append(todo, requested')
    /\ clean' = IF todo = <<>> /\ wire = <<>> /\ blocked = NotBlocked
                THEN clean \cup {requested'} ELSE clean
    /\ Fresh
    /\ UNCHANGED <<inWrite, told, out, blocked, sent, wire, dropped>>

\* The command cannot be sent, as there is no DataChannel: the call returns at once.
SendFails ==
    /\ place = "idle" /\ requested < MaxRequests
    /\ requested' = requested + 1
    /\ result' = [result EXCEPT ![requested'] = "failed"]
    /\ UNCHANGED <<active, place, inWrite, told, out, transferVars, blocked, cameraVars,
                   histVars>>

\* It returns: no transfer is active, transferMu is free.
Return(verdict) ==
    /\ result' = [result EXCEPT ![active] = verdict]
    /\ active' = Nobody
    /\ place' = "idle"
    /\ inWrite' = NoPart
    /\ Fresh

\* A part leaves chunkChan for w.Write, in either loop; the pump has the header
\* reported before the first one.
Take ==
    /\ place \in {"pump", "drain"} /\ inWrite = NoPart /\ chunkChan # <<>>
    /\ inWrite' = Head(chunkChan)
    /\ chunkChan' = Tail(chunkChan)
    /\ told' = IF place = "pump" /\ told[active] = Nobody
               THEN [told EXCEPT ![active] = header] ELSE told
    /\ UNCHANGED <<requested, active, place, result, out, doneChan, errChan, header, blocked,
                   cameraVars, histVars>>

Written ==
    /\ inWrite # NoPart
    /\ out' = [out EXCEPT ![active] = Append(@, inWrite)]
    /\ inWrite' = NoPart
    /\ UNCHANGED <<requested, active, place, result, told, transferVars, blocked, cameraVars,
                   histVars>>

WriteFails ==
    /\ inWrite # NoPart
    /\ Return("failed")
    /\ UNCHANGED <<requested, told, out, blocked, cameraVars, histVars>>

Waiting == place = "pump" /\ inWrite = NoPart

WatchdogLate ==         \* mutant: no timeout before the first part
    /\ Waiting /\ out[active] # <<>>
    /\ Return("failed")
    /\ UNCHANGED <<requested, told, out, blocked, cameraVars, histVars>>

\* The context is cancelled, or a tick finds that no part was taken for 25 s (before
\* the first) or 10 s; select takes any of its cases that is ready.
GivesUp ==
    /\ Waiting
    /\ Return("failed")
    /\ UNCHANGED <<requested, told, out, blocked, cameraVars, histVars>>

ErrorReported ==
    /\ Waiting /\ errChan
    /\ Return("failed")
    /\ UNCHANGED <<requested, told, out, blocked, cameraVars, histVars>>

DoneUndrained ==        \* mutant: what is left in chunkChan is not written
    /\ Waiting /\ doneChan
    /\ Return("ok")
    /\ UNCHANGED <<requested, told, out, blocked, cameraVars, histVars>>

Done ==
    /\ Waiting /\ doneChan
    /\ place' = "drain"
    /\ UNCHANGED <<requested, active, inWrite, result, told, out, transferVars, blocked,
                   cameraVars, histVars>>

Drained ==
    /\ place = "drain" /\ inWrite = NoPart /\ chunkChan = <<>>
    /\ Return("ok")
    /\ UNCHANGED <<requested, told, out, blocked, cameraVars, histVars>>

-----------------------------------------------------------------------------
ArrivesMeanwhile(kind) ==   \* mutant: a part that waits does not hold up the next message
    /\ place # "down"
    /\ wire # <<>> /\ Head(wire).kind = kind
    /\ wire' = Tail(wire)
    /\ UNCHANGED <<todo, sent, histVars>>

\* OnMessage hands the next message on: one that finds no transfer is dropped.
Arrives(kind) ==
    /\ place # "down" /\ blocked = NotBlocked
    /\ wire # <<>> /\ Head(wire).kind = kind
    /\ wire' = Tail(wire)
    /\ UNCHANGED <<todo, sent, histVars>>

ReceiveStart ==
    /\ Arrives("start")
    /\ header' = IF active = Nobody THEN header ELSE Head(wire).req
    /\ UNCHANGED <<callerVars, chunkChan, doneChan, errChan, blocked>>

Room == Len(chunkChan) < Buffer

\* A part that chunkChan has no room for waits, and with it the messages behind it.
ReceiveChunk ==
    LET part == [req |-> Head(wire).req, n |-> Head(wire).n]
    IN  /\ Arrives("chunk")
        /\ chunkChan' = IF active # Nobody /\ Room THEN Append(chunkChan, part) ELSE chunkChan
        /\ blocked' = IF active # Nobody /\ ~Room THEN [to |-> active, part |-> part]
                      ELSE blocked
        /\ UNCHANGED <<callerVars, doneChan, errChan, header>>

\* The transfer that is active is done.
ReceiveEnd ==
    /\ Arrives("end") /\ ~doneChan
    /\ doneChan' = (active # Nobody)
    /\ UNCHANGED <<callerVars, chunkChan, errChan, header, blocked>>

\* doneChan is closed already: close panics and takes the bridge down.
ReceiveSecondEnd ==
    /\ Arrives("end") /\ doneChan
    /\ place' = "down" /\ active' = Nobody /\ inWrite' = NoPart
    /\ Fresh
    /\ UNCHANGED <<requested, result, told, out, blocked>>

ReceiveFail ==
    /\ Arrives("fail")
    /\ errChan' = (active # Nobody)
    /\ UNCHANGED <<callerVars, chunkChan, doneChan, header, blocked>>

Deliver ==
    /\ blocked # NotBlocked
    /\ blocked.to = active /\ Room
    /\ chunkChan' = Append(chunkChan, blocked.part)
    /\ blocked' = NotBlocked
    /\ UNCHANGED <<callerVars, doneChan, errChan, header, cameraVars, histVars>>

\* After 5 s without room, because the caller hangs in w.Write or has gone, the part is
\* dropped and the transfer told to abort.
StallTimeout ==
    /\ blocked # NotBlocked
    /\ blocked.to # active \/ (~Room /\ inWrite # NoPart)
    /\ blocked' = NotBlocked
    /\ errChan' = (errChan \/ blocked.to = active)
    /\ dropped' = IF blocked.to = active THEN dropped \cup {active} ELSE dropped
    /\ UNCHANGED <<callerVars, chunkChan, doneChan, header, cameraVars, clean>>

-----------------------------------------------------------------------------
Send(kind, n) == wire' = Append(wire, [req |-> Head(todo), kind |-> kind, n |-> n])

CameraTurn ==
    /\ todo # <<>> /\ Len(wire) < Window
    /\ UNCHANGED <<callerVars, transferVars, blocked, histVars>>

\* The camera serves one request after the other: a start message, the parts, an end.
CameraSends ==
    /\ CameraTurn
    /\ \/ sent = 0 /\ Send("start", 0)
       \/ sent \in 1 .. Chunks /\ Send("chunk", sent)
       \/ sent = Chunks + 1 /\ Send("end", 0)
    /\ sent' = IF sent = Chunks + 1 THEN 0 ELSE sent + 1
    /\ todo' = IF sent = Chunks + 1 THEN Tail(todo) ELSE todo

\* It reports a failure, or falls silent.
CameraFails ==
    /\ CameraTurn
    /\ Send("fail", 0) \/ UNCHANGED wire
    /\ todo' = Tail(todo)
    /\ sent' = 0

Caller ==
    Take \/ Written \/ WriteFails \/ GivesUp \/ ErrorReported \/ Done \/ Drained

Receiver ==
    \/ ReceiveStart \/ ReceiveChunk \/ ReceiveEnd \/ ReceiveSecondEnd \/ ReceiveFail
    \/ Deliver \/ StallTimeout

Next == Begin \/ SendFails \/ Caller \/ Receiver \/ CameraSends \/ CameraFails

\* The goroutines run, w.Write returns and the ticker ticks.  Nothing is assumed of
\* the camera.
Spec == Init /\ [][Next]_vars /\ WF_vars(Caller) /\ WF_vars(Receiver)

-----------------------------------------------------------------------------
\* The values the variables range over; without a transfer there is nothing of one.
TypeOK ==
    /\ requested \in 0 .. MaxRequests /\ active \in {Nobody, requested}
    /\ place \in {"idle", "pump", "drain", "down"}
    /\ inWrite \in Parts \cup {NoPart}
    /\ chunkChan \in Seq(Parts) /\ Len(chunkChan) <= Buffer
    /\ {doneChan, errChan} \subseteq BOOLEAN /\ header \in Requests \cup {Nobody}
    /\ blocked \in [to : Requests, part : Parts] \cup {NotBlocked}
    /\ todo \in Seq(Requests) /\ sent \in 0 .. Chunks + 1
    /\ wire \in Seq(Messages) /\ Len(wire) <= Window
    /\ result \in [Requests -> {"none", "running", "ok", "failed"}]
    /\ told \in [Requests -> Requests \cup {Nobody}]
    /\ out \in [Requests -> Seq(Parts)]
    /\ clean \subseteq Requests /\ dropped \subseteq Requests
    /\ active = Nobody <=> place \in {"idle", "down"}
    /\ active = Nobody => chunkChan = <<>> /\ ~doneChan /\ ~errChan /\ inWrite = NoPart

WholeFile(r) == [n \in 1 .. Chunks |-> [req |-> r, n |-> n]]

\* A call that succeeds wrote its own file, all of it and in order, under its own
\* name: when the camera owed nothing to an earlier call and no part was dropped.
CompleteWhenClean ==
    \A r \in clean \ dropped :
        /\ result[r] = "ok" => out[r] = WholeFile(r)
        /\ told[r] \in {Nobody, r}

Before(p, q) == p.req < q.req \/ (p.req = q.req /\ p.n < q.n)

\* Whatever is written, of whichever file, is written in the order the camera sent it
\* and once, also across a part that waited for room and across the drain.
WrittenInOrder ==
    \A r \in Requests : \A i, j \in 1 .. Len(out[r]) :
        i < j => Before(out[r][i], out[r][j])

\* Every call returns and frees transferMu, whatever the camera sends or not.
CallReturns ==
    \A r \in Requests : result[r] = "running" ~> (result[r] # "running" \/ place = "down")

\* Claim of the comment in HandleBinaryChunk, "Never drop chunks silently as it
\* corrupts MP4 files": a call that lost a part does not succeed.
NoSilentDrop == \A r \in dropped : result[r] # "ok"

\* Claim of CHANGELOG 1.3.9-beta.1: an aborted transfer ends cleanly and locally.  The
\* camera's messages for it never bring the bridge down.
AbortIsLocal == place # "down"
=============================================================================
