------------------------- MODULE NabtoClientProofs ------------------------
(***************************************************************************)
(* Machine-checked types of the Nabto connection, for any number of        *)
(* frames, of failing writes and handshakes: only requests that wait, or   *)
(* are about to, are in the map of requests, whatever Close does meanwhile.*)
(***************************************************************************)
EXTENDS NabtoClient, TLAPS

\* Until the handshake ended nothing was asked and nobody reads.
Unasked == stage \in {"start", "shake"} => req["pair"] = "no" /\ reader = "off"

IInv == TypeOK /\ Unasked

-----------------------------------------------------------------------------
\* IInv holds before Connect.
LEMMA InitIInv == Init => IInv
<1> SUFFICES ASSUME Init PROVE IInv
  OBVIOUS
<1> USE ClientAssumption DEF Init
<1>1. TypeOK
  <2>1. stage \in Stages /\ {held, up, coapConn, link, synIn, early, crashed} \subseteq BOOLEAN
    BY DEF Stages
  <2>2. socket \in {"none", "open", "closed"} /\ once \in {"new", "busy", "done"}
    OBVIOUS
  <2>3. closer \in [Closers -> {"no", "call", "take", "udp", "stream", "coap", "forget",
                                   "last", "done"}]
    OBVIOUS
  <2>4. req \in [Requests ->
                     {"no", "taken", "entered", "sent", "answered", "failed", "timedout"}]
    OBVIOUS
  <2>5. chan \in [Requests -> {"empty", "answer", "closed"}]
    BY DEF Requests
  <2>6. pending \subseteq {q \in Requests : req[q] \in {"entered", "sent"}}
    BY DEF Requests
  <2>7. stream \in {"none", "live", "closed"} /\ alive \in {"off", "wait", "deaf", "done"}
    OBVIOUS
  <2>8. reader \in {"off", "top", "read", "give", "done"}
    OBVIOUS
  <2>9. IF reader = "give" THEN hand \in Frames ELSE hand = NoFrame
    BY DEF Frames
  <2>10. air \subseteq Frames /\ frames \in 0 .. MaxFrames /\ faults \in 0 .. MaxFaults
    BY DEF Frames
  <2> QED
    BY <2>1, <2>2, <2>3, <2>4, <2>5, <2>6, <2>7, <2>8, <2>9, <2>10 DEF TypeOK
<1>2. Unasked
  BY DEF Unasked, Requests
<1> QED
  BY <1>1, <1>2 DEF IInv

-----------------------------------------------------------------------------
\* IInv is preserved: a call of Connect that takes the lock has asked nothing yet.
LEMMA LockKeeps ==
    ASSUME IInv, Lock
    PROVE  IInv'
<1> USE ClientAssumption DEF IInv, TypeOK, Unasked, Lock, coapVars, strmVars,
    readVars, camVars
<1>1. TypeOK'
  BY DEF Stages
<1>2. Unasked'
  OBVIOUS
<1> QED
  BY <1>1, <1>2

\* IInv is preserved: the pairing question is asked for the first time.
LEMMA ShakenKeeps ==
    ASSUME IInv, NEW known \in BOOLEAN, Shaken(known)
    PROVE  IInv'
<1> USE ClientAssumption DEF IInv, TypeOK, Unasked, Shaken, strmVars, camVars,
    closeVars
<1>1. TypeOK'
  <2>1. (stage \in Stages /\ {held, up, coapConn, link, synIn, early, crashed} \subseteq BOOLEAN)'
    BY DEF Stages
  <2>2. (socket \in {"none", "open", "closed"} /\ once \in {"new", "busy", "done"})'
    OBVIOUS
  <2>3. (closer \in [Closers -> {"no", "call", "take", "udp", "stream", "coap", "forget",
                                   "last", "done"}])'
    OBVIOUS
  <2>4. (req \in [Requests ->
                     {"no", "taken", "entered", "sent", "answered", "failed", "timedout"}])'
    BY DEF Requests
  <2>5. (chan \in [Requests -> {"empty", "answer", "closed"}])'
    BY DEF Requests
  <2>6. (pending \subseteq {q \in Requests : req[q] \in {"entered", "sent"}})'
    BY DEF Requests
  <2>7. (stream \in {"none", "live", "closed"} /\ alive \in {"off", "wait", "deaf", "done"})'
    OBVIOUS
  <2>8. (reader \in {"off", "top", "read", "give", "done"})'
    OBVIOUS
  <2>9. (IF reader = "give" THEN hand \in Frames ELSE hand = NoFrame)'
    BY DEF Frames
  <2>10. (air \subseteq Frames /\ frames \in 0 .. MaxFrames /\ faults \in 0 .. MaxFaults)'
    BY DEF Frames
  <2> QED
    BY <2>1, <2>2, <2>3, <2>4, <2>5, <2>6, <2>7, <2>8, <2>9, <2>10
<1>2. Unasked'
  OBVIOUS
<1> QED
  BY <1>1, <1>2

\* IInv is preserved: a handshake that failed has asked nothing.
LEMMA ShakeFailsKeeps ==
    ASSUME IInv, ShakeFails
    PROVE  IInv'
<1> USE ClientAssumption DEF IInv, TypeOK, Unasked, ShakeFails, Fault, coapVars,
    strmVars, readVars, camVars, closeVars
<1>1. TypeOK'
  <2>1. (stage \in Stages /\ {held, up, coapConn, link, synIn, early, crashed} \subseteq BOOLEAN)'
    BY DEF Stages
  <2>2. (socket \in {"none", "open", "closed"} /\ once \in {"new", "busy", "done"})'
    OBVIOUS
  <2>3. (closer \in [Closers -> {"no", "call", "take", "udp", "stream", "coap", "forget",
                                   "last", "done"}])'
    OBVIOUS
  <2>4. (req \in [Requests ->
                     {"no", "taken", "entered", "sent", "answered", "failed", "timedout"}])'
    BY DEF Requests
  <2>5. (chan \in [Requests -> {"empty", "answer", "closed"}])'
    BY DEF Requests
  <2>6. (pending \subseteq {q \in Requests : req[q] \in {"entered", "sent"}})'
    BY DEF Requests
  <2>7. (stream \in {"none", "live", "closed"} /\ alive \in {"off", "wait", "deaf", "done"})'
    OBVIOUS
  <2>8. (reader \in {"off", "top", "read", "give", "done"})'
    OBVIOUS
  <2>9. (IF reader = "give" THEN hand \in Frames ELSE hand = NoFrame)'
    BY DEF Frames
  <2>10. (air \subseteq Frames /\ frames \in 0 .. MaxFrames /\ faults \in 0 .. MaxFaults)'
    BY DEF Frames
  <2> QED
    BY <2>1, <2>2, <2>3, <2>4, <2>5, <2>6, <2>7, <2>8, <2>9, <2>10
<1>2. Unasked'
  OBVIOUS
<1> QED
  BY <1>1, <1>2

\* IInv is preserved: Connect returns, whatever became of its question.
LEMMA ConnectedKeeps ==
    ASSUME IInv, Connected
    PROVE  IInv'
<1> USE ClientAssumption DEF IInv, TypeOK, Unasked, Connected, coapVars,
    strmVars, readVars, camVars, closeVars
<1>1. TypeOK'
  BY DEF Stages
<1>2. Unasked'
  OBVIOUS
<1> QED
  BY <1>1, <1>2

\* IInv is preserved: a request that begins is not in the map.
LEMMA TakeKeeps ==
    ASSUME IInv, NEW r \in Requests, Take(r)
    PROVE  IInv'
<1> USE ClientAssumption DEF IInv, TypeOK, Unasked, Take, connVars, strmVars,
    readVars, camVars, closeVars
<1>1. TypeOK'
  OBVIOUS
<1>2. Unasked'
  OBVIOUS
<1> QED
  BY <1>1, <1>2

\* IInv is preserved: a request enters the map once it was taken.
LEMMA RegisterKeeps ==
    ASSUME IInv, NEW r \in Requests, Register(r)
    PROVE  IInv'
<1> USE ClientAssumption DEF IInv, TypeOK, Unasked, Register, connVars,
    strmVars, readVars, camVars, closeVars
<1>1. TypeOK'
  <2>1. (stage \in Stages /\ {held, up, coapConn, link, synIn, early, crashed} \subseteq BOOLEAN)'
    BY DEF Stages
  <2>2. (socket \in {"none", "open", "closed"} /\ once \in {"new", "busy", "done"})'
    OBVIOUS
  <2>3. (closer \in [Closers -> {"no", "call", "take", "udp", "stream", "coap", "forget",
                                   "last", "done"}])'
    OBVIOUS
  <2>4. (req \in [Requests ->
                     {"no", "taken", "entered", "sent", "answered", "failed", "timedout"}])'
    BY DEF Requests
  <2>5. (chan \in [Requests -> {"empty", "answer", "closed"}])'
    BY DEF Requests
  <2>6. (pending \subseteq {q \in Requests : req[q] \in {"entered", "sent"}})'
    <3> SUFFICES ASSUME NEW q \in pending'
                 PROVE  q \in Requests /\ req'[q] \in {"entered", "sent"}
      OBVIOUS
    <3>1. CASE q = r
      BY <3>1
    <3>2. CASE q # r
      BY <3>2
    <3> QED
      BY <3>1, <3>2
  <2>7. (stream \in {"none", "live", "closed"} /\ alive \in {"off", "wait", "deaf", "done"})'
    OBVIOUS
  <2>8. (reader \in {"off", "top", "read", "give", "done"})'
    OBVIOUS
  <2>9. (IF reader = "give" THEN hand \in Frames ELSE hand = NoFrame)'
    BY DEF Frames
  <2>10. (air \subseteq Frames /\ frames \in 0 .. MaxFrames /\ faults \in 0 .. MaxFaults)'
    BY DEF Frames
  <2> QED
    BY <2>1, <2>2, <2>3, <2>4, <2>5, <2>6, <2>7, <2>8, <2>9, <2>10
<1>2. Unasked'
  BY DEF Requests
<1> QED
  BY <1>1, <1>2

\* IInv is preserved: a request that cannot be written leaves the map.
LEMMA WriteKeeps ==
    ASSUME IInv, NEW r \in Requests, Write(r)
    PROVE  IInv'
<1> USE ClientAssumption DEF IInv, TypeOK, Unasked, Write, Fault, Leaves,
    connVars, coapVars, strmVars, readVars, camVars, closeVars
<1>1. TypeOK'
  <2>1. (stage \in Stages /\ {held, up, coapConn, link, synIn, early, crashed} \subseteq BOOLEAN)'
    BY DEF Stages
  <2>2. (socket \in {"none", "open", "closed"} /\ once \in {"new", "busy", "done"})'
    OBVIOUS
  <2>3. (closer \in [Closers -> {"no", "call", "take", "udp", "stream", "coap", "forget",
                                   "last", "done"}])'
    OBVIOUS
  <2>4. (req \in [Requests ->
                     {"no", "taken", "entered", "sent", "answered", "failed", "timedout"}])'
    BY DEF Requests
  <2>5. (chan \in [Requests -> {"empty", "answer", "closed"}])'
    BY DEF Requests
  <2>6. (pending \subseteq {q \in Requests : req[q] \in {"entered", "sent"}})'
    <3> SUFFICES ASSUME NEW q \in pending'
                 PROVE  q \in Requests /\ req'[q] \in {"entered", "sent"}
      OBVIOUS
    <3>1. CASE q = r
      BY <3>1
    <3>2. CASE q # r
      BY <3>2
    <3> QED
      BY <3>1, <3>2
  <2>7. (stream \in {"none", "live", "closed"} /\ alive \in {"off", "wait", "deaf", "done"})'
    OBVIOUS
  <2>8. (reader \in {"off", "top", "read", "give", "done"})'
    OBVIOUS
  <2>9. (IF reader = "give" THEN hand \in Frames ELSE hand = NoFrame)'
    BY DEF Frames
  <2>10. (air \subseteq Frames /\ frames \in 0 .. MaxFrames /\ faults \in 0 .. MaxFaults)'
    BY DEF Frames
  <2> QED
    BY <2>1, <2>2, <2>3, <2>4, <2>5, <2>6, <2>7, <2>8, <2>9, <2>10
<1>2. Unasked'
  BY DEF Requests
<1> QED
  BY <1>1, <1>2

\* IInv is preserved: a request that ends leaves the map.
LEMMA ReceiveKeeps ==
    ASSUME IInv, NEW r \in Requests, Receive(r)
    PROVE  IInv'
<1> USE ClientAssumption DEF IInv, TypeOK, Unasked, Receive, Leaves, connVars,
    strmVars, readVars, camVars, closeVars
<1>1. TypeOK'
  OBVIOUS
<1>2. Unasked'
  OBVIOUS
<1> QED
  BY <1>1, <1>2

\* IInv is preserved: a request that is given up leaves the map.
LEMMA TimesOutKeeps ==
    ASSUME IInv, NEW r \in Requests, TimesOut(r)
    PROVE  IInv'
<1> USE ClientAssumption DEF IInv, TypeOK, Unasked, TimesOut, Fault, Leaves,
    ReaderMoves, connVars, coapVars, strmVars, readVars, camVars, closeVars
<1>1. TypeOK'
  OBVIOUS
<1>2. Unasked'
  OBVIOUS
<1> QED
  BY <1>1, <1>2

\* IInv is preserved by the end of the port's request.
LEMMA PortKnownKeeps ==
    ASSUME IInv, PortKnown
    PROVE  IInv'
<1> USE ClientAssumption DEF IInv, TypeOK, Unasked, PortKnown, connVars,
    coapVars, strmVars, readVars, camVars, closeVars
<1>1. TypeOK'
  BY DEF Stages
<1>2. Unasked'
  OBVIOUS
<1> QED
  BY <1>1, <1>2

\* IInv is preserved when the stream is created.
LEMMA OpenSignalingStreamKeeps ==
    ASSUME IInv, OpenSignalingStream
    PROVE  IInv'
<1> USE ClientAssumption DEF IInv, TypeOK, Unasked, OpenSignalingStream,
    connVars, coapVars, readVars, camVars, closeVars
<1>1. TypeOK'
  BY DEF Stages
<1>2. Unasked'
  OBVIOUS
<1> QED
  BY <1>1, <1>2

\* IInv is preserved when the handshake's packet is written, or not.
LEMMA SendSYNKeeps ==
    ASSUME IInv, SendSYN
    PROVE  IInv'
<1> USE ClientAssumption DEF IInv, TypeOK, Unasked, SendSYN, Fault, connVars,
    coapVars, strmVars, readVars, camVars, closeVars
<1>1. TypeOK'
  BY DEF Stages
<1>2. Unasked'
  OBVIOUS
<1> QED
  BY <1>1, <1>2

\* IInv is preserved by the end of the handshake.
LEMMA OpenedKeeps ==
    ASSUME IInv, Opened
    PROVE  IInv'
<1> USE ClientAssumption DEF IInv, TypeOK, Unasked, Opened,
    connVars, coapVars, readVars, camVars, closeVars
<1>1. TypeOK'
  <2>1. (stage \in Stages /\ {held, up, coapConn, link, synIn, early, crashed} \subseteq BOOLEAN)'
    BY DEF Stages
  <2>2. (socket \in {"none", "open", "closed"} /\ once \in {"new", "busy", "done"})'
    OBVIOUS
  <2>3. (closer \in [Closers -> {"no", "call", "take", "udp", "stream", "coap", "forget",
                                   "last", "done"}])'
    OBVIOUS
  <2>4. (req \in [Requests ->
                     {"no", "taken", "entered", "sent", "answered", "failed", "timedout"}])'
    OBVIOUS
  <2>5. (chan \in [Requests -> {"empty", "answer", "closed"}])'
    OBVIOUS
  <2>6. (pending \subseteq {q \in Requests : req[q] \in {"entered", "sent"}})'
    OBVIOUS
  <2>7. (stream \in {"none", "live", "closed"} /\ alive \in {"off", "wait", "deaf", "done"})'
    OBVIOUS
  <2>8. (reader \in {"off", "top", "read", "give", "done"})'
    OBVIOUS
  <2>9. (IF reader = "give" THEN hand \in Frames ELSE hand = NoFrame)'
    OBVIOUS
  <2>10. (air \subseteq Frames /\ frames \in 0 .. MaxFrames /\ faults \in 0 .. MaxFaults)'
    OBVIOUS
  <2> QED
    BY <2>1, <2>2, <2>3, <2>4, <2>5, <2>6, <2>7, <2>8, <2>9, <2>10
<1>2. Unasked'
  OBVIOUS
<1> QED
  BY <1>1, <1>2

\* IInv is preserved by the end of the session.
LEMMA SessionEndsKeeps ==
    ASSUME IInv, SessionEnds
    PROVE  IInv'
<1> USE ClientAssumption DEF IInv, TypeOK, Unasked, SessionEnds, connVars,
    coapVars, readVars, camVars, closeVars
<1>1. TypeOK'
  BY DEF Stages
<1>2. Unasked'
  OBVIOUS
<1> QED
  BY <1>1, <1>2

\* IInv is preserved when the reader looks for the connection.
LEMMA ReaderTopKeeps ==
    ASSUME IInv, ReaderTop
    PROVE  IInv'
<1> USE ClientAssumption DEF IInv, TypeOK, Unasked, ReaderTop, connVars,
    coapVars, strmVars, camVars, closeVars
<1>1. TypeOK'
  OBVIOUS
<1>2. Unasked'
  OBVIOUS
<1> QED
  BY <1>1, <1>2

\* IInv is preserved: the reader hands a frame to the request its token names.
LEMMA ReadFrameKeeps ==
    ASSUME IInv, ReadFrame
    PROVE  IInv'
<1> USE ClientAssumption DEF IInv, TypeOK, Unasked, ReadFrame,
    connVars, coapVars, strmVars, closeVars
<1>1. TypeOK'
  OBVIOUS
<1>2. Unasked'
  OBVIOUS
<1> QED
  BY <1>1, <1>2

\* IInv is preserved: what a channel is given answers its own request.
LEMMA GiveKeeps ==
    ASSUME IInv, Give
    PROVE  IInv'
<1> USE ClientAssumption DEF IInv, TypeOK, Unasked, Give, connVars, camVars,
    closeVars
<1>1. TypeOK'
  <2>1. (stage \in Stages /\ {held, up, coapConn, link, synIn, early, crashed} \subseteq BOOLEAN)'
    BY DEF Stages
  <2>2. (socket \in {"none", "open", "closed"} /\ once \in {"new", "busy", "done"})'
    OBVIOUS
  <2>3. (closer \in [Closers -> {"no", "call", "take", "udp", "stream", "coap", "forget",
                                   "last", "done"}])'
    OBVIOUS
  <2>4. (req \in [Requests ->
                     {"no", "taken", "entered", "sent", "answered", "failed", "timedout"}])'
    BY DEF Requests
  <2>5. (chan \in [Requests -> {"empty", "answer", "closed"}])'
    BY DEF Requests
  <2>6. (pending \subseteq {q \in Requests : req[q] \in {"entered", "sent"}})'
    BY DEF Requests
  <2>7. (stream \in {"none", "live", "closed"} /\ alive \in {"off", "wait", "deaf", "done"})'
    OBVIOUS
  <2>8. (reader \in {"off", "top", "read", "give", "done"})'
    OBVIOUS
  <2>9. (IF reader = "give" THEN hand \in Frames ELSE hand = NoFrame)'
    BY DEF Frames
  <2>10. (air \subseteq Frames /\ frames \in 0 .. MaxFrames /\ faults \in 0 .. MaxFaults)'
    BY DEF Frames
  <2> QED
    BY <2>1, <2>2, <2>3, <2>4, <2>5, <2>6, <2>7, <2>8, <2>9, <2>10
<1>2. Unasked'
  OBVIOUS
<1> QED
  BY <1>1, <1>2

\* IInv is preserved by the end of the reader.
LEMMA ReadFailsKeeps ==
    ASSUME IInv, ReadFails
    PROVE  IInv'
<1> USE ClientAssumption DEF IInv, TypeOK, Unasked, ReadFails, connVars,
    coapVars, strmVars, camVars
<1>1. TypeOK'
  OBVIOUS
<1>2. Unasked'
  OBVIOUS
<1> QED
  BY <1>1, <1>2

\* IInv is preserved by the end of the keep-alive loop.
LEMMA WokenKeeps ==
    ASSUME IInv, Woken
    PROVE  IInv'
<1> USE ClientAssumption DEF IInv, TypeOK, Unasked, Woken, connVars, coapVars,
    strmVars, readVars, camVars, closeVars
<1>1. TypeOK'
  OBVIOUS
<1>2. Unasked'
  OBVIOUS
<1> QED
  BY <1>1, <1>2

\* IInv is preserved by a keep-alive.
LEMMA TickKeeps ==
    ASSUME IInv, Tick
    PROVE  IInv'
<1> USE ClientAssumption DEF IInv, TypeOK, Unasked, Tick, Fault, Step,
    CloseSocket, AbortRequests, connVars, coapVars, strmVars, readVars, camVars, closeVars
<1>1. TypeOK'
  OBVIOUS
<1>2. Unasked'
  OBVIOUS
<1> QED
  BY <1>1, <1>2

\* IInv is preserved by a call of Close.
LEMMA CallKeeps ==
    ASSUME IInv, NEW c \in Closers, Call(c)
    PROVE  IInv'
<1> USE ClientAssumption DEF IInv, TypeOK, Unasked, Call, connVars, coapVars,
    strmVars, readVars, camVars
<1>1. TypeOK'
  OBVIOUS
<1>2. Unasked'
  OBVIOUS
<1> QED
  BY <1>1, <1>2

\* IInv is preserved at the Once of Close.
LEMMA EnterKeeps ==
    ASSUME IInv, NEW c \in Closers, Enter(c)
    PROVE  IInv'
<1> USE ClientAssumption DEF IInv, TypeOK, Unasked, Enter, connVars, coapVars,
    strmVars, readVars, camVars
<1>1. TypeOK'
  OBVIOUS
<1>2. Unasked'
  OBVIOUS
<1> QED
  BY <1>1, <1>2

\* IInv is preserved when Close takes the references.
LEMMA TakeRefsKeeps ==
    ASSUME IInv, NEW c \in Closers, TakeRefs(c)
    PROVE  IInv'
<1> USE ClientAssumption DEF IInv, TypeOK, Unasked, TakeRefs, coapVars,
    strmVars, readVars, camVars
<1>1. TypeOK'
  <2>1. (stage \in Stages /\ {held, up, coapConn, link, synIn, early, crashed} \subseteq BOOLEAN)'
    BY DEF Stages
  <2>2. (socket \in {"none", "open", "closed"} /\ once \in {"new", "busy", "done"})'
    OBVIOUS
  <2>3. (closer \in [Closers -> {"no", "call", "take", "udp", "stream", "coap", "forget",
                                   "last", "done"}])'
    OBVIOUS
  <2>4. (req \in [Requests ->
                     {"no", "taken", "entered", "sent", "answered", "failed", "timedout"}])'
    BY DEF Requests
  <2>5. (chan \in [Requests -> {"empty", "answer", "closed"}])'
    BY DEF Requests
  <2>6. (pending \subseteq {q \in Requests : req[q] \in {"entered", "sent"}})'
    BY DEF Requests
  <2>7. (stream \in {"none", "live", "closed"} /\ alive \in {"off", "wait", "deaf", "done"})'
    OBVIOUS
  <2>8. (reader \in {"off", "top", "read", "give", "done"})'
    OBVIOUS
  <2>9. (IF reader = "give" THEN hand \in Frames ELSE hand = NoFrame)'
    BY DEF Frames
  <2>10. (air \subseteq Frames /\ frames \in 0 .. MaxFrames /\ faults \in 0 .. MaxFaults)'
    BY DEF Frames
  <2> QED
    BY <2>1, <2>2, <2>3, <2>4, <2>5, <2>6, <2>7, <2>8, <2>9, <2>10
<1>2. Unasked'
  OBVIOUS
<1> QED
  BY <1>1, <1>2

\* IInv is preserved: Close ends the waiting requests and empties their map.
LEMMA ReleaseKeeps ==
    ASSUME IInv, NEW c \in Closers, Release(c)
    PROVE  IInv'
<1> USE ClientAssumption DEF IInv, TypeOK, Unasked, Release, Step, CloseSocket,
    AbortRequests, connVars, coapVars, strmVars, readVars, camVars
<1>1. TypeOK'
  <2>1. (stage \in Stages /\ {held, up, coapConn, link, synIn, early, crashed} \subseteq BOOLEAN)'
    BY DEF Stages
  <2>2. (socket \in {"none", "open", "closed"} /\ once \in {"new", "busy", "done"})'
    OBVIOUS
  <2>3. (closer \in [Closers -> {"no", "call", "take", "udp", "stream", "coap", "forget",
                                   "last", "done"}])'
    OBVIOUS
  <2>4. (req \in [Requests ->
                     {"no", "taken", "entered", "sent", "answered", "failed", "timedout"}])'
    BY DEF Requests
  <2>5. (chan \in [Requests -> {"empty", "answer", "closed"}])'
    BY DEF Requests
  <2>6. (pending \subseteq {q \in Requests : req[q] \in {"entered", "sent"}})'
    BY DEF Requests
  <2>7. (stream \in {"none", "live", "closed"} /\ alive \in {"off", "wait", "deaf", "done"})'
    OBVIOUS
  <2>8. (reader \in {"off", "top", "read", "give", "done"})'
    OBVIOUS
  <2>9. (IF reader = "give" THEN hand \in Frames ELSE hand = NoFrame)'
    BY DEF Frames
  <2>10. (air \subseteq Frames /\ frames \in 0 .. MaxFrames /\ faults \in 0 .. MaxFaults)'
    BY DEF Frames
  <2> QED
    BY <2>1, <2>2, <2>3, <2>4, <2>5, <2>6, <2>7, <2>8, <2>9, <2>10
<1>2. Unasked'
  OBVIOUS
<1> QED
  BY <1>1, <1>2

\* IInv is preserved when Close ends the stream.
LEMMA CloseStreamKeeps ==
    ASSUME IInv, NEW c \in Closers, CloseStream(c)
    PROVE  IInv'
<1> USE ClientAssumption DEF IInv, TypeOK, Unasked, CloseStream, Step, connVars,
    coapVars, readVars, camVars
<1>1. TypeOK'
  OBVIOUS
<1>2. Unasked'
  OBVIOUS
<1> QED
  BY <1>1, <1>2

\* IInv is preserved when the CoAP client forgets its connection.
LEMMA ForgetConnKeeps ==
    ASSUME IInv, NEW c \in Closers, ForgetConn(c)
    PROVE  IInv'
<1> USE ClientAssumption DEF IInv, TypeOK, Unasked, ForgetConn, Step, coapVars,
    strmVars, readVars, camVars
<1>1. TypeOK'
  <2>1. (stage \in Stages /\ {held, up, coapConn, link, synIn, early, crashed} \subseteq BOOLEAN)'
    BY DEF Stages
  <2>2. (socket \in {"none", "open", "closed"} /\ once \in {"new", "busy", "done"})'
    OBVIOUS
  <2>3. (closer \in [Closers -> {"no", "call", "take", "udp", "stream", "coap", "forget",
                                   "last", "done"}])'
    OBVIOUS
  <2>4. (req \in [Requests ->
                     {"no", "taken", "entered", "sent", "answered", "failed", "timedout"}])'
    BY DEF Requests
  <2>5. (chan \in [Requests -> {"empty", "answer", "closed"}])'
    BY DEF Requests
  <2>6. (pending \subseteq {q \in Requests : req[q] \in {"entered", "sent"}})'
    BY DEF Requests
  <2>7. (stream \in {"none", "live", "closed"} /\ alive \in {"off", "wait", "deaf", "done"})'
    OBVIOUS
  <2>8. (reader \in {"off", "top", "read", "give", "done"})'
    OBVIOUS
  <2>9. (IF reader = "give" THEN hand \in Frames ELSE hand = NoFrame)'
    BY DEF Frames
  <2>10. (air \subseteq Frames /\ frames \in 0 .. MaxFrames /\ faults \in 0 .. MaxFaults)'
    BY DEF Frames
  <2> QED
    BY <2>1, <2>2, <2>3, <2>4, <2>5, <2>6, <2>7, <2>8, <2>9, <2>10
<1>2. Unasked'
  OBVIOUS
<1> QED
  BY <1>1, <1>2

\* IInv is preserved when Close returns.
LEMMA LeaveKeeps ==
    ASSUME IInv, NEW c \in Closers, Leave(c)
    PROVE  IInv'
<1> USE ClientAssumption DEF IInv, TypeOK, Unasked, Leave, Step, connVars,
    coapVars, strmVars, readVars, camVars
<1>1. TypeOK'
  OBVIOUS
<1>2. Unasked'
  OBVIOUS
<1> QED
  BY <1>1, <1>2

\* IInv is preserved by a frame of the camera.
LEMMA CameraSendsKeeps ==
    ASSUME IInv, CameraSends
    PROVE  IInv'
<1> USE ClientAssumption DEF IInv, TypeOK, Unasked, CameraSends, connVars,
    coapVars, strmVars, readVars, closeVars
<1>1. TypeOK'
  OBVIOUS
<1>2. Unasked'
  OBVIOUS
<1> QED
  BY <1>1, <1>2

\* IInv is preserved when the camera hangs up.
LEMMA HangsUpKeeps ==
    ASSUME IInv, HangsUp
    PROVE  IInv'
<1> USE ClientAssumption DEF IInv, TypeOK, Unasked, HangsUp, connVars, coapVars,
    strmVars, readVars, closeVars
<1>1. TypeOK'
  <2>1. (stage \in Stages /\ {held, up, coapConn, link, synIn, early, crashed} \subseteq BOOLEAN)'
    BY DEF Stages
  <2>2. (socket \in {"none", "open", "closed"} /\ once \in {"new", "busy", "done"})'
    OBVIOUS
  <2>3. (closer \in [Closers -> {"no", "call", "take", "udp", "stream", "coap", "forget",
                                   "last", "done"}])'
    OBVIOUS
  <2>4. (req \in [Requests ->
                     {"no", "taken", "entered", "sent", "answered", "failed", "timedout"}])'
    BY DEF Requests
  <2>5. (chan \in [Requests -> {"empty", "answer", "closed"}])'
    BY DEF Requests
  <2>6. (pending \subseteq {q \in Requests : req[q] \in {"entered", "sent"}})'
    BY DEF Requests
  <2>7. (stream \in {"none", "live", "closed"} /\ alive \in {"off", "wait", "deaf", "done"})'
    OBVIOUS
  <2>8. (reader \in {"off", "top", "read", "give", "done"})'
    OBVIOUS
  <2>9. (IF reader = "give" THEN hand \in Frames ELSE hand = NoFrame)'
    BY DEF Frames
  <2>10. (air \subseteq Frames /\ frames \in 0 .. MaxFrames /\ faults \in 0 .. MaxFaults)'
    BY DEF Frames
  <2> QED
    BY <2>1, <2>2, <2>3, <2>4, <2>5, <2>6, <2>7, <2>8, <2>9, <2>10
<1>2. Unasked'
  OBVIOUS
<1> QED
  BY <1>1, <1>2

-----------------------------------------------------------------------------
\* IInv is inductive: every action preserves it.
LEMMA NextIInv == IInv /\ [Next]_vars => IInv'
<1> SUFFICES ASSUME IInv, [Next]_vars PROVE IInv'
  OBVIOUS
<1>1. CASE Connect \/ PortKnown \/ OpenSignalingStream \/ SendSYN \/ Opened \/ SessionEnds
  BY <1>1, LockKeeps, ShakenKeeps, ShakeFailsKeeps, ConnectedKeeps, PortKnownKeeps,
     OpenSignalingStreamKeeps, SendSYNKeeps, OpenedKeeps, SessionEndsKeeps DEF Connect
<1>2. CASE Reader \/ Woken \/ Tick \/ CameraSends \/ HangsUp
  BY <1>2, ReaderTopKeeps, ReadFrameKeeps, GiveKeeps, ReadFailsKeeps, WokenKeeps, TickKeeps,
     CameraSendsKeeps, HangsUpKeeps DEF Reader
<1>3. ASSUME NEW r \in Requests, Execute(r) \/ TimesOut(r)
      PROVE  IInv'
  BY <1>3, TakeKeeps, RegisterKeeps, WriteKeeps, ReceiveKeeps, TimesOutKeeps DEF Execute
<1>4. ASSUME NEW c \in Closers, Call(c) \/ Close(c)
      PROVE  IInv'
  BY <1>4, CallKeeps, EnterKeeps, TakeRefsKeeps, ReleaseKeeps, CloseStreamKeeps,
     ForgetConnKeeps, LeaveKeeps DEF Close
<1>5. CASE UNCHANGED vars
  BY <1>5 DEF vars, connVars, coapVars, strmVars, readVars, camVars, closeVars, IInv, TypeOK,
     Unasked
<1> QED
  BY <1>1, <1>2, <1>3, <1>4, <1>5 DEF Next, Rest

\* The client never leaves IInv.
LEMMA Invariance == Spec => []IInv
BY InitIInv, NextIInv, PTL DEF Spec

\* The types of the variables are kept; in particular only requests that were registered and
\* not yet left wait in the map (CoAPClient.Execute's deferred delete).
THEOREM TypeCorrect == Spec => []TypeOK
<1>1. IInv => TypeOK
  BY DEF IInv
<1> QED
  BY <1>1, Invariance, PTL

=============================================================================
