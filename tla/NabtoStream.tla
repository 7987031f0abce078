---------------------------- MODULE NabtoStream ---------------------------
(***************************************************************************)
(* The virtual signaling stream of the pure-Go driver                      *)
(* (pkg/nabtopure/stream.go) over the datagrams of a DTLS connection: the  *)
(* handshake, messages of a length and a body cut into segments, read into *)
(* one buffer and cut out of it again.                                     *)
(*                                                                         *)
(* The length of a message is its first two units; a unit knows the        *)
(* message it is of.  The stream has no retransmission of its own and does *)
(* not look at the sequence numbers of what it reads, so each direction    *)
(* implements StreamChannel, which promises nothing once the network       *)
(* failed.  The camera is external: it takes segments in sequence, repeats *)
(* what it has no ACK for, and may want its nonce back.                    *)
(***************************************************************************)
EXTENDS Naturals, Sequences

CONSTANTS
    MaxDown, MaxUp,     \* bounds: messages of the camera, of the client
    MaxBody,            \* bound: units of a body
    MaxFaults,          \* bound: packets lost, repeated or overtaken
    MaxSYN,             \* bound: 10 SYNs in the 10 s of Open
    QueueCap,           \* capacity of incomingChan: 100
    WireCap             \* bound: segments are sent with fewer packets than this on the wire

ASSUME StreamAssumption ==
    {MaxDown, MaxUp, MaxBody, MaxFaults, MaxSYN, QueueCap, WireCap} \subseteq Nat /\ QueueCap > 0

LengthUnits == 2        \* the length prefix
Phases == {"syn", "await", "open", "failed", "closed"}

VARIABLES
    phase, syns,        \* the client's stream; SYNs it has sent
    segment,            \* maxSendSegmentSize, in units
    cliSeq, srvSeq,     \* s.clientSeq, s.serverSeq
    nonce,              \* s.sendNonce
    inQ, readBuf,       \* incomingChan; the bytes read
    out,                \* what WriteMsg has still to send
    toCam, toCli,       \* packets on their way
    camOpen, camSeq,    \* the camera's end: whether it is open, its last segment
    camBuf, camNext,    \* what it has read, the segment it expects
    camOut, unacked,    \* what it has still to send; its last segment without an ACK
    gotUp, gotDown,     \* messages delivered to the camera, by ReadMsg (0: a garbled one)
    sentUp, sentDown,   \* messages completely on the wire
    lostUp, lostDown,   \* a segment was lost, repeated or overtaken, or found the queue full
    faults

cliVars  == <<phase, syns, segment, cliSeq, srvSeq, nonce>>
camVars  == <<camOpen, camSeq, camBuf, camNext, unacked>>
wires    == <<toCam, toCli>>
countVars == <<sentUp, sentDown, gotUp, gotDown>>
failVars == <<lostUp, lostDown, faults>>
vars == <<cliVars, inQ, readBuf, out, wires, camVars, camOut, countVars, failVars>>

Init ==
    /\ phase = "syn" /\ syns = 0 /\ segment = 1 /\ cliSeq = 1 /\ srvSeq = 0 /\ nonce = FALSE
    /\ inQ = <<>> /\ readBuf = <<>> /\ out = <<>> /\ toCam = <<>> /\ toCli = <<>>
    /\ camOpen = FALSE /\ camSeq = 0 /\ camBuf = <<>> /\ camNext = 2 /\ camOut = <<>>
    /\ unacked = <<>>
    /\ gotUp = <<>> /\ gotDown = <<>> /\ sentUp = 0 /\ sentDown = 0
    /\ lostUp = FALSE /\ lostDown = FALSE /\ faults = 0

\* A message on the wire: its length, then its body.
Frame(msg, body) ==
    [i \in 1 .. LengthUnits + body |-> [of |-> msg, at |-> i, body |-> body]]

\* A packet: flags, the ACK's number or the segment's, the nonce, the segment.
Packet(flag, seq, answer, data) == [flag |-> flag, seq |-> seq, nonce |-> answer, data |-> data]

ACKPacket(data) == Packet("ack", IF data = <<>> THEN srvSeq ELSE cliSeq, nonce, data)

\* The length is read off the first units, whatever they are.
WholeAt(buf, n) == Len(buf) >= LengthUnits /\ Len(buf) >= LengthUnits + n

IsFrame(units) ==
    /\ units # <<>> /\ units = Frame(units[1].of, units[1].body)

Name(units) == IF IsFrame(units) THEN units[1].of ELSE 0

\* A buffer that starts with a length has that one; any other may read as any.
LengthsOf(buf) ==
    IF Len(buf) >= LengthUnits /\ (\A i \in 1 .. LengthUnits : buf[i].of = buf[1].of /\ buf[i].at = i)
    THEN {buf[1].body} ELSE 0 .. MaxBody

-----------------------------------------------------------------------------
(* The client.  Nobody begins a message in a direction that has failed: a bound. *)

\* A SYN, and another after a second without a packet or a packet that is no SYN|ACK,
\* whatever is under way, until the deadline.
SendSYN ==
    /\ phase = "syn" \/ (phase = "await" /\ inQ = <<>>)
    /\ IF syns < MaxSYN
       THEN /\ syns' = syns + 1 /\ phase' = "await"
            /\ toCam' = Append(toCam, Packet("syn", cliSeq, FALSE, <<>>))
       ELSE phase' = "failed" /\ UNCHANGED <<syns, toCam>>
    /\ UNCHANGED <<segment, cliSeq, srvSeq, nonce, inQ, readBuf, out, toCli, camVars, camOut,
                   countVars, failVars>>

\* Open takes the SYN|ACK's numbers and answers its nonce; it skips anything else.
Open ==
    /\ phase = "await" /\ inQ # <<>>
    /\ inQ' = Tail(inQ)
    /\ LET p == Head(inQ) IN
        IF p.flag = "synack"
        THEN /\ phase' = "open" /\ cliSeq' = 2 /\ srvSeq' = p.seq /\ nonce' = FALSE
             /\ segment' \in 1 .. 2
             /\ toCam' = Append(toCam, Packet("ack", p.seq, p.nonce, <<>>))
        ELSE phase' = "syn" /\ UNCHANGED <<cliSeq, srvSeq, nonce, segment, toCam>>
    /\ UNCHANGED <<syns, readBuf, out, toCli, camVars, camOut, countVars, failVars>>

PrefixOnly(n) ==    \* mutant: a message is taken as soon as its length is there
    /\ phase = "open" /\ Len(readBuf) >= LengthUnits
    /\ LET end == IF LengthUnits + n < Len(readBuf) THEN LengthUnits + n ELSE Len(readBuf) IN
        /\ gotDown' = Append(gotDown, Name(SubSeq(readBuf, 1, end)))
        /\ readBuf' = SubSeq(readBuf, end + 1, Len(readBuf))
    /\ UNCHANGED <<cliVars, inQ, out, wires, camVars, camOut, sentUp, sentDown, gotUp, failVars>>

\* ReadMsg returns a message whose n units of body are in the buffer.
CutMessage(n) ==
    /\ phase = "open" /\ WholeAt(readBuf, n)
    /\ gotDown' = Append(gotDown, Name(SubSeq(readBuf, 1, LengthUnits + n)))
    /\ readBuf' = SubSeq(readBuf, LengthUnits + n + 1, Len(readBuf))
    /\ UNCHANGED <<cliVars, inQ, out, wires, camVars, camOut, sentUp, sentDown, gotUp, failVars>>

\* Otherwise it reads a packet, takes its segment whatever its number, and acknowledges.
ReadPacket ==
    /\ phase = "open" /\ inQ # <<>>
    /\ \E n \in LengthsOf(readBuf) : ~WholeAt(readBuf, n)
    /\ inQ' = Tail(inQ)
    /\ LET p == Head(inQ) IN
        /\ readBuf' = readBuf \o p.data
        /\ srvSeq' = IF p.data = <<>> THEN srvSeq ELSE p.seq
        /\ toCam' = Append(toCam, Packet("ack", srvSeq', FALSE, <<>>))
    /\ UNCHANGED <<phase, syns, segment, cliSeq, nonce, out, toCli, camVars, camOut, countVars,
                   failVars>>

\* After 2 s without a packet it repeats its ACK (a bound: when none of its own is under way).
RepeatACK ==
    /\ phase = "open" /\ inQ = <<>> /\ toCam = <<>>
    /\ toCam' = Append(toCam, ACKPacket(<<>>))
    /\ UNCHANGED <<cliVars, inQ, readBuf, out, toCli, camVars, camOut, countVars, failVars>>

\* WriteMsg frames a message; its chunks are written one by one.
WriteMsg ==
    /\ phase = "open" /\ out = <<>> /\ sentUp < MaxUp /\ ~lostUp
    /\ \E b \in 0 .. MaxBody : out' = Frame(sentUp + 1, b)
    /\ UNCHANGED <<cliVars, inQ, readBuf, wires, camVars, camOut, countVars, failVars>>

ChunkEndOffByOne(n) == IF segment < n THEN segment + 1 ELSE n   \* mutant: sends a unit twice

ChunkEnd(n) == IF segment < n THEN segment ELSE n

WriteChunk ==
    /\ out # <<>> /\ Len(toCam) < WireCap
    /\ toCam' = Append(toCam, ACKPacket(SubSeq(out, 1, ChunkEnd(Len(out)))))
    /\ cliSeq' = cliSeq + 1
    /\ LET sent == IF segment < Len(out) THEN segment ELSE Len(out) IN
        /\ out' = SubSeq(out, sent + 1, Len(out))
        /\ sentUp' = IF sent = Len(out) THEN sentUp + 1 ELSE sentUp
    /\ UNCHANGED <<phase, syns, segment, srvSeq, nonce, inQ, readBuf, toCli, camVars, camOut,
                   sentDown, gotUp, gotDown, failVars>>

\* Abort and Close; the camera is not told.
Close ==
    /\ phase = "open" /\ out = <<>> /\ phase' = "closed"
    /\ UNCHANGED <<syns, segment, cliSeq, srvSeq, nonce, inQ, readBuf, out, wires, camVars,
                   camOut, countVars, failVars>>

-----------------------------------------------------------------------------
(* The network. *)

IsData(p) == p.data # <<>>

\* HandleIncomingPacket: a packet that finds the queue full is dropped.
HandleIncomingPacket ==
    /\ toCli # <<>> /\ toCli' = Tail(toCli)
    /\ IF Len(inQ) < QueueCap
       THEN inQ' = Append(inQ, Head(toCli)) /\ UNCHANGED lostDown
       ELSE lostDown' = (lostDown \/ IsData(Head(toCli))) /\ UNCHANGED inQ
    /\ UNCHANGED <<cliVars, readBuf, out, toCam, camVars, camOut, countVars, lostUp, faults>>

Fault == faults < MaxFaults /\ faults' = faults + 1

\* A packet is lost, or is overtaken by the next.
Fail(wire) ==
    IF Len(wire) > 1 THEN {Tail(wire), <<wire[2], wire[1]>> \o SubSeq(wire, 3, Len(wire))}
    ELSE {Tail(wire)}

NetworkFails ==
    /\ Fault
    /\ \/ toCli # <<>> /\ toCli' \in Fail(toCli)
          /\ lostDown' = (lostDown \/ IsData(Head(toCli)))
          /\ UNCHANGED <<toCam, lostUp>>
       \/ toCam # <<>> /\ toCam' \in Fail(toCam)
          /\ lostUp' = (lostUp \/ IsData(Head(toCam)) \/ Head(toCam).nonce)
          /\ UNCHANGED <<toCli, lostDown>>
    /\ UNCHANGED <<cliVars, inQ, readBuf, out, camVars, camOut, countVars>>

-----------------------------------------------------------------------------
(* The camera. *)

\* It answers a SYN, takes the next segment and drops any other, notes an ACK.
CameraReads ==
    /\ toCam # <<>> /\ toCam' = Tail(toCam)
    /\ LET p == Head(toCam)
           new == IsData(p) /\ p.seq = camNext /\ camOpen
       IN
        /\ camOpen' = (camOpen \/ p.nonce)
        /\ camBuf' = IF new THEN camBuf \o p.data ELSE camBuf
        /\ camNext' = IF new THEN camNext + 1 ELSE camNext
        /\ toCli' = IF p.flag = "syn" THEN Append(toCli, Packet("synack", 1, TRUE, <<>>))
                    ELSE toCli
        /\ unacked' = IF unacked # <<>> /\ ~IsData(p) /\ p.seq >= unacked[1].seq
                      THEN <<>> ELSE unacked
    /\ UNCHANGED <<cliVars, inQ, readBuf, out, camSeq, camOut, countVars, failVars>>

CameraCuts ==
    /\ \E n \in LengthsOf(camBuf) :
        /\ WholeAt(camBuf, n)
        /\ gotUp' = Append(gotUp, Name(SubSeq(camBuf, 1, LengthUnits + n)))
        /\ camBuf' = SubSeq(camBuf, LengthUnits + n + 1, Len(camBuf))
    /\ UNCHANGED <<cliVars, inQ, readBuf, out, wires, camOpen, camSeq, camNext, unacked, camOut,
                   sentUp, sentDown, gotDown, failVars>>

\* The client speaks first (the TURN request).
CameraWrites ==
    /\ gotUp # <<>> /\ camOut = <<>> /\ sentDown < MaxDown /\ ~lostDown
    /\ \E b \in 0 .. MaxBody : camOut' = Frame(sentDown + 1, b)
    /\ UNCHANGED <<cliVars, inQ, readBuf, out, wires, camVars, countVars, failVars>>

CameraSends ==
    /\ camOut # <<>> /\ Len(toCli) < WireCap
    /\ \E n \in 1 .. Len(camOut) :
        LET p == Packet("ack", camSeq + 2, FALSE, SubSeq(camOut, 1, n)) IN
        /\ toCli' = Append(toCli, p) /\ unacked' = <<p>>
        /\ camSeq' = camSeq + 1
        /\ camOut' = SubSeq(camOut, n + 1, Len(camOut))
        /\ sentDown' = IF n = Len(camOut) THEN sentDown + 1 ELSE sentDown
    /\ UNCHANGED <<cliVars, inQ, readBuf, out, toCam, camOpen, camBuf, camNext, sentUp, gotUp,
                   gotDown, failVars>>

\* A segment whose ACK is lost or late is sent again.
CameraRepeats ==
    /\ unacked # <<>> /\ Fault
    /\ toCli' = toCli \o unacked
    /\ lostDown' = TRUE
    /\ UNCHANGED <<cliVars, inQ, readBuf, out, toCam, camVars, camOut, countVars, lostUp>>

-----------------------------------------------------------------------------
ReadMsg == (\E n \in LengthsOf(readBuf) : CutMessage(n)) \/ ReadPacket

Next ==
    \/ SendSYN \/ Open \/ ReadMsg \/ RepeatACK \/ WriteMsg \/ WriteChunk \/ Close
    \/ HandleIncomingPacket \/ NetworkFails
    \/ CameraReads \/ CameraCuts \/ CameraWrites \/ CameraSends \/ CameraRepeats

\* ReadMsg is called again and again, packets arrive, the camera reads.
Spec ==
    /\ Init /\ [][Next]_vars
    /\ WF_vars(Open) /\ WF_vars(ReadMsg) /\ WF_vars(WriteChunk) /\ WF_vars(HandleIncomingPacket)
    /\ WF_vars(CameraReads) /\ WF_vars(CameraCuts)

-----------------------------------------------------------------------------
Down == INSTANCE StreamChannel WITH
    sent <- sentDown, got <- gotDown, broken <- lostDown, ended <- phase = "closed"

Up == INSTANCE StreamChannel WITH
    sent <- sentUp, got <- gotUp, broken <- lostUp, ended <- FALSE

\* What the camera sends is returned by ReadMsg whole, once and in order, whatever the
\* segments it comes in, lost or repeated ACKs and SYN|ACKs.
ImplementsDown == Down!Spec

\* What WriteMsg was given reaches the camera in the same way.
ImplementsUp == Up!Spec
=============================================================================
