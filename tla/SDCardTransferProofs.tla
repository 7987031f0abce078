------------------------ MODULE SDCardTransferProofs ------------------------
(***************************************************************************)
(* Machine-checked safety of the file transfers, for every length of a     *)
(* file, every capacity of chunkChan and every number of calls.            *)
(***************************************************************************)
EXTENDS SDCardTransfer, TLAPS

(***************************************************************************)
(* The order of the parts on their way.                                    *)
(***************************************************************************)

Part(m) == [req |-> m.req, n |-> m.n]

Ordered(s)  == \A i, j \in 1 .. Len(s) : i < j => Before(s[i], s[j])
Below(s, p) == \A i \in 1 .. Len(s) : Before(s[i], p)

\* The camera serves the requests as they came ...
InTurn ==
    /\ todo = <<>> => sent = 0
    /\ \A i \in 1 .. Len(todo) : todo[i] <= requested
    /\ \A i, j \in 1 .. Len(todo) : i < j => todo[i] < todo[j]

\* ... and these are the parts it may have sent.
SentParts ==
    {p \in Parts :
        /\ p.req <= requested
        /\ \A i \in 1 .. Len(todo) :
              p.req < todo[i] \/ (i = 1 /\ p.req = todo[1] /\ p.n < sent)}

\* The parts that come after all that the active transfer has already.
LaterParts ==
    {p \in Parts :
        active # Nobody =>
            /\ Below(out[active], p)
            /\ inWrite # NoPart => Before(inWrite, p)
            /\ Below(chunkChan, p)}

\* What the caller and chunkChan hold of the active transfer.
HeldInOrder ==
    active # Nobody =>
        /\ out[active] \in Seq(SentParts) /\ chunkChan \in Seq(SentParts)
        /\ Ordered(chunkChan)
        /\ inWrite # NoPart => inWrite \in SentParts /\ Below(out[active], inWrite)
        /\ \A i \in 1 .. Len(chunkChan) :
              /\ Below(out[active], chunkChan[i])
              /\ inWrite # NoPart => Before(inWrite, chunkChan[i])

\* The part that waits for room.
WaitsInOrder ==
    blocked # NotBlocked =>
        /\ blocked.to <= requested
        /\ blocked.part \in SentParts
        /\ blocked.to = active => blocked.part \in LaterParts

\* The parts on the DataChannel.
WireInOrder ==
    \A i \in 1 .. Len(wire) : wire[i].kind = "chunk" =>
        /\ Part(wire[i]) \in SentParts \cap LaterParts
        /\ blocked # NotBlocked => Before(blocked.part, Part(wire[i]))
        /\ \A j \in 1 .. Len(wire) :
              i < j /\ wire[j].kind = "chunk" => Before(Part(wire[i]), Part(wire[j]))

\* Calls that were not made have left nothing.
NotYet ==
    /\ \A r \in Requests : r > requested => out[r] = <<>> /\ told[r] = Nobody /\ result[r] = "none"
    /\ \A r \in clean \cup dropped : r <= requested
    /\ active # Nobody => result[active] = "running"

IInv ==
    /\ TypeOK
    /\ NotYet
    /\ InTurn
    /\ HeldInOrder
    /\ WaitsInOrder
    /\ WireInOrder
    /\ WrittenInOrder

(***************************************************************************)
(* The call that began with nothing of an earlier one outstanding.         *)
(***************************************************************************)

\* The parts of the active transfer that have arrived.
InHand  == IF inWrite = NoPart THEN 0 ELSE 1
Waits   == IF blocked = NotBlocked THEN 0 ELSE 1
Wrote   == Len(out[active])
Arrived == Wrote + InHand + Len(chunkChan) + Waits

\* The camera's messages are numbered: the start is 1, the parts follow, the end is
\* Chunks + 2.  This is the number of the i-th message on the DataChannel.
Begun     == IF header = Nobody THEN 0 ELSE 1
Number(i) == Begun + Arrived + i

\* All that is under way is of the active transfer, without a gap.
Contiguous ==
    /\ \A i \in 1 .. Len(out[active]) : out[active][i] = [req |-> active, n |-> i]
    /\ inWrite # NoPart => inWrite = [req |-> active, n |-> Wrote + 1]
    /\ \A i \in 1 .. Len(chunkChan) :
          chunkChan[i] = [req |-> active, n |-> Wrote + InHand + i]
    /\ blocked # NotBlocked =>
          blocked = [to |-> active, part |-> [req |-> active, n |-> Arrived]]

Coming ==
    \A i \in 1 .. Len(wire) :
        /\ wire[i].req = active
        /\ wire[i].kind = "start" => Number(i) = 1
        /\ wire[i].kind = "chunk" => wire[i].n + 1 = Number(i)
        /\ wire[i].kind = "end" => Number(i) = Chunks + 2
        /\ wire[i].kind \in {"end", "fail"} => i = Len(wire) /\ todo = <<>>

ToCome == todo # <<>> => todo = <<active>> /\ sent + 1 = Number(Len(wire) + 1)

AllThere == doneChan => Arrived = Chunks /\ Waits = 0 /\ wire = <<>> /\ todo = <<>>

UnderWay ==
    /\ Contiguous
    /\ Coming
    /\ ToCome
    /\ AllThere
    /\ header = Nobody => Arrived = 0
    /\ header \in {Nobody, active}
    /\ place = "drain" => doneChan

CleanInv ==
    /\ active \in clean \ dropped => UnderWay
    /\ CompleteWhenClean

-----------------------------------------------------------------------------
\* Taking the first of a sequence and adding to its end, read by position.
LEMMA TailSteps ==
    ASSUME NEW S, NEW s \in Seq(S), s # <<>>
    PROVE  /\ Head(s) \in S /\ Head(s) = s[1] /\ Len(s) >= 1
           /\ Tail(s) \in Seq(S) /\ Len(Tail(s)) = Len(s) - 1
           /\ \A i \in 1 .. Len(Tail(s)) : i + 1 \in 1 .. Len(s) /\ Tail(s)[i] = s[i + 1]
OBVIOUS

LEMMA AppendSteps ==
    ASSUME NEW S, NEW s \in Seq(S), NEW x \in S
    PROVE  /\ Append(s, x) \in Seq(S) /\ Len(Append(s, x)) = Len(s) + 1
           /\ \A i \in 1 .. Len(s) : Append(s, x)[i] = s[i]
           /\ Append(s, x)[Len(s) + 1] = x
OBVIOUS

\* The values of the variables, after a step of the bridge and after one of the camera.
LEMMA TypesOfCaller ==
    ASSUME IInv, Begin \/ SendFails \/ Caller PROVE TypeOK'
<1> USE BoundsAssumption DEF IInv, TypeOK
<1>0. Fresh => /\ chunkChan' = <<>> /\ chunkChan' \in Seq(Parts) /\ Len(chunkChan') <= Buffer
               /\ doneChan' = FALSE /\ errChan' = FALSE /\ header' \in Requests \cup {Nobody}
  BY DEF Fresh
<1>1. CASE Begin
  <2>1. requested + 1 \in Requests BY <1>1 DEF Begin, Requests
  <2>2. todo' \in Seq(Requests) BY <1>1, <2>1 DEF Begin
  <2>3. result' \in [Requests -> {"none", "running", "ok", "failed"}] BY <1>1, <2>1 DEF Begin
  <2>4. clean' \subseteq Requests BY <1>1, <2>1 DEF Begin
  <2>5. /\ requested' \in 0 .. MaxRequests /\ active' = requested' /\ active' # Nobody
        /\ place' = "pump"
    BY <1>1, <2>1 DEF Begin, Requests, Nobody
  <2> QED BY <1>0, <1>1, <2>2, <2>3, <2>4, <2>5 DEF Begin
<1>2. CASE SendFails
  <2>1. requested + 1 \in Requests BY <1>2 DEF SendFails, Requests
  <2> QED BY <1>2, <2>1 DEF SendFails, Requests, transferVars, cameraVars, histVars
<1>3. CASE Take
  <2>1. inWrite' \in Parts /\ chunkChan' \in Seq(Parts) /\ Len(chunkChan') <= Buffer
    BY <1>3, TailSteps DEF Take
  <2>2. told' \in [Requests -> Requests \cup {Nobody}] BY <1>3 DEF Take
  <2> QED BY <1>3, <2>1, <2>2 DEF Take, cameraVars, histVars
<1>4. CASE Written
  <2>1. active \in Requests BY <1>4 DEF Written, Requests, Nobody
  <2>2. out' \in [Requests -> Seq(Parts)] BY <1>4, <2>1, AppendSteps DEF Written
  <2> QED BY <1>4, <2>2 DEF Written, transferVars, cameraVars, histVars
<1>5. CASE WriteFails \/ GivesUp \/ ErrorReported \/ Drained
  <2>1. PICK verdict \in {"ok", "failed"} :
            Return(verdict) /\ UNCHANGED <<requested, told, out, blocked, cameraVars, histVars>>
    BY <1>5 DEF WriteFails, GivesUp, ErrorReported, Drained
  <2>2. result' \in [Requests -> {"none", "running", "ok", "failed"}] BY <2>1 DEF Return
  <2>3. inWrite' = NoPart /\ active' = Nobody /\ place' = "idle" /\ Fresh BY <2>1 DEF Return
  <2> QED BY <1>0, <2>1, <2>2, <2>3 DEF cameraVars, histVars
<1>6. CASE Done
  BY <1>6 DEF Done, Waiting, transferVars, cameraVars, histVars
<1> QED BY <1>1, <1>2, <1>3, <1>4, <1>5, <1>6 DEF Caller

LEMMA TypesOfReceiver ==
    ASSUME IInv, Receiver PROVE TypeOK'
<1> USE BoundsAssumption DEF IInv, TypeOK
<1>0. ASSUME NEW kind, Arrives(kind)
      PROVE  wire' \in Seq(Messages) /\ Len(wire') <= Window /\ Head(wire) \in Messages
  BY <1>0, TailSteps DEF Arrives
<1>1. CASE ReceiveStart
  <2>1. Head(wire).req \in Requests BY <1>0, <1>1 DEF ReceiveStart, Messages
  <2> QED BY <1>0, <1>1, <2>1 DEF ReceiveStart, Arrives, callerVars, histVars
<1>2. CASE ReceiveChunk
  <2> DEFINE part == [req |-> Head(wire).req, n |-> Head(wire).n]
  <2>1. part \in Parts
    <3>1. wire # <<>> /\ wire[1].kind = "chunk" /\ Head(wire) = wire[1] /\ 1 \in 1 .. Len(wire)
      BY <1>2, TailSteps DEF ReceiveChunk, Arrives
    <3>2. Part(wire[1]) \in Parts BY <3>1 DEF WireInOrder, SentParts
    <3> QED BY <3>1, <3>2 DEF Part
  <2>2. chunkChan' \in Seq(Parts) /\ Len(chunkChan') <= Buffer
    BY <1>2, <2>1, AppendSteps DEF ReceiveChunk, Room
  <2>3. blocked' \in [to : Requests, part : Parts] \cup {NotBlocked}
    <3>1. active # Nobody => active \in Requests BY DEF Requests, Nobody
    <3> QED BY <1>2, <2>1, <3>1 DEF ReceiveChunk
  <2>4. active' = active /\ (active = Nobody => chunkChan' = chunkChan)
    BY <1>2 DEF ReceiveChunk, callerVars
  <2> HIDE DEF part
  <2> QED BY <1>0, <1>2, <2>2, <2>3, <2>4 DEF ReceiveChunk, Arrives, callerVars, histVars
<1>3. CASE ReceiveEnd
  BY <1>0, <1>3 DEF ReceiveEnd, Arrives, callerVars, histVars
<1>4. CASE ReceiveSecondEnd
  <2>1. /\ chunkChan' = <<>> /\ chunkChan' \in Seq(Parts) /\ Len(chunkChan') <= Buffer
        /\ doneChan' = FALSE /\ errChan' = FALSE /\ header' \in Requests \cup {Nobody}
    BY <1>4 DEF ReceiveSecondEnd, Fresh
  <2> QED BY <1>0, <1>4, <2>1 DEF ReceiveSecondEnd, Arrives, histVars
<1>5. CASE ReceiveFail
  BY <1>0, <1>5 DEF ReceiveFail, Arrives, callerVars, histVars
<1>6. CASE Deliver
  <2>1. blocked.to \in Requests /\ blocked.part \in Parts BY <1>6 DEF Deliver
  <2>2. chunkChan' \in Seq(Parts) /\ Len(chunkChan') <= Buffer
    BY <1>6, <2>1, AppendSteps DEF Deliver, Room
  <2>3. active # Nobody BY <1>6, <2>1 DEF Deliver, Requests, Nobody
  <2> QED BY <1>6, <2>2, <2>3 DEF Deliver, callerVars, cameraVars, histVars
<1>7. CASE StallTimeout
  <2>1. blocked.to \in Requests BY <1>7 DEF StallTimeout
  <2>2. active = Nobody => blocked.to # active BY <2>1 DEF Requests, Nobody
  <2>3. dropped' \subseteq Requests BY <1>7, <2>1 DEF StallTimeout
  <2> QED BY <1>7, <2>1, <2>2, <2>3 DEF StallTimeout, callerVars, cameraVars
<1> QED BY <1>1, <1>2, <1>3, <1>4, <1>5, <1>6, <1>7 DEF Receiver

LEMMA TypesOfCamera ==
    ASSUME IInv, CameraSends \/ CameraFails PROVE TypeOK'
<1> USE BoundsAssumption DEF IInv, TypeOK
<1>1. Head(todo) \in Requests /\ Tail(todo) \in Seq(Requests) /\ todo # <<>> /\ Len(wire) < Window
  BY TailSteps DEF CameraSends, CameraFails, CameraTurn
<1>2. wire' \in Seq(Messages) /\ Len(wire') <= Window
  <2>1. ASSUME NEW kind \in {"start", "chunk", "end", "fail"}, NEW n \in 0 .. Chunks,
               Send(kind, n)
        PROVE  wire' \in Seq(Messages) /\ Len(wire') <= Window
    <3>1. [req |-> Head(todo), kind |-> kind, n |-> n] \in Messages BY <1>1 DEF Messages
    <3> QED BY <1>1, <2>1, <3>1, AppendSteps DEF Send
  <2>2. 0 \in 0 .. Chunks /\ (sent \in 1 .. Chunks => sent \in 0 .. Chunks) OBVIOUS
  <2> QED BY <1>1, <2>1, <2>2 DEF CameraSends, CameraFails
<1>3. sent' \in 0 .. Chunks + 1 BY DEF CameraSends, CameraFails
<1>4. todo' \in Seq(Requests) BY <1>1 DEF CameraSends, CameraFails
<1> QED
  BY <1>2, <1>3, <1>4
  DEF CameraSends, CameraFails, CameraTurn, callerVars, transferVars, histVars

-----------------------------------------------------------------------------
(* The order of the parts. *)

LEMMA OrderTail ==
    ASSUME NEW s \in Seq(Parts), s # <<>>
    PROVE  /\ Ordered(s) => Ordered(Tail(s)) /\ \A i \in 1 .. Len(Tail(s)) : Before(Head(s), Tail(s)[i])
           /\ \A p \in Parts : Below(s, p) => Below(Tail(s), p) /\ Before(Head(s), p)
<1>1. /\ Head(s) = s[1] /\ 1 \in 1 .. Len(s) /\ Len(Tail(s)) \in Nat /\ Len(s) \in Nat
      /\ \A i \in 1 .. Len(Tail(s)) : i + 1 \in 1 .. Len(s) /\ 1 < i + 1 /\ Tail(s)[i] = s[i + 1]
  BY TailSteps
<1>2. Ordered(s) => Ordered(Tail(s))
  <2> SUFFICES ASSUME Ordered(s), NEW i \in 1 .. Len(Tail(s)), NEW j \in 1 .. Len(Tail(s)), i < j
               PROVE  Before(Tail(s)[i], Tail(s)[j])
    BY DEF Ordered
  <2>1. i + 1 \in 1 .. Len(s) /\ j + 1 \in 1 .. Len(s) /\ i + 1 < j + 1 BY <1>1
  <2> QED BY <1>1, <2>1 DEF Ordered
<1>3. Ordered(s) => \A i \in 1 .. Len(Tail(s)) : Before(Head(s), Tail(s)[i])
  BY <1>1 DEF Ordered
<1>4. \A p \in Parts : Below(s, p) => Below(Tail(s), p) /\ Before(Head(s), p)
  BY <1>1 DEF Below
<1> QED BY <1>2, <1>3, <1>4

LEMMA OrderAppend ==
    ASSUME NEW s \in Seq(Parts), NEW x \in Parts
    PROVE  /\ Ordered(s) /\ Below(s, x) => Ordered(Append(s, x))
           /\ \A p \in Parts : Below(s, p) /\ Before(x, p) => Below(Append(s, x), p)
<1>1. /\ Len(Append(s, x)) = Len(s) + 1 /\ Len(s) \in Nat
      /\ \A i \in 1 .. Len(s) + 1 : \/ i \in 1 .. Len(s) /\ Append(s, x)[i] = s[i]
                                    \/ i = Len(s) + 1 /\ Append(s, x)[i] = x
  BY AppendSteps
<1>2. Ordered(s) /\ Below(s, x) => Ordered(Append(s, x))
  <2> SUFFICES ASSUME Ordered(s), Below(s, x),
                      NEW i \in 1 .. Len(s) + 1, NEW j \in 1 .. Len(s) + 1, i < j
               PROVE  Before(Append(s, x)[i], Append(s, x)[j])
    BY <1>1 DEF Ordered
  <2>1. i \in 1 .. Len(s) /\ Append(s, x)[i] = s[i] BY <1>1
  <2> QED BY <1>1, <2>1 DEF Ordered, Below
<1>3. \A p \in Parts : Below(s, p) /\ Before(x, p) => Below(Append(s, x), p)
  BY <1>1 DEF Below
<1> QED BY <1>2, <1>3

LEMMA TodoNumbers == ASSUME TypeOK PROVE \A i \in 1 .. Len(todo) : todo[i] \in Nat
<1>1. todo \in Seq(Requests) BY DEF TypeOK
<1>2. \A r \in Requests : r \in Nat BY BoundsAssumption DEF Requests
<1> QED BY <1>1, <1>2

\* The camera's turns: what it has sent it does not send again.
LEMMA TurnKept ==
    ASSUME IInv, [Next]_vars
    PROVE  InTurn' /\ SentParts \subseteq SentParts'
<1> USE DEF IInv, TypeOK
<1>0. SentParts \subseteq Parts BY DEF SentParts
<1>1. CASE Begin
  <2>1. /\ Len(todo') = Len(todo) + 1 /\ Len(todo) \in Nat /\ requested' = requested + 1
        /\ todo' # <<>> /\ sent' = sent
        /\ \A i \in 1 .. Len(todo) : todo'[i] = todo[i] /\ todo[i] \in Requests
        /\ todo'[Len(todo) + 1] = requested + 1 /\ requested \in Nat
    <3>1. requested + 1 \in Requests /\ requested \in Nat BY <1>1, BoundsAssumption DEF Begin, Requests
    <3> QED BY <1>1, <3>1 DEF Begin, cameraVars
  <2>2. InTurn'
    <3>1. \A i \in 1 .. Len(todo) :
              todo[i] <= requested /\ todo[i] \in Nat /\ todo[i] < requested + 1
      <4>1. \A i \in 1 .. Len(todo) : todo[i] \in Nat BY TodoNumbers
      <4>2. \A i \in 1 .. Len(todo) : todo[i] <= requested BY DEF InTurn
      <4> QED BY <2>1, <4>1, <4>2
    <3>2. ASSUME NEW i \in 1 .. Len(todo')
          PROVE  i \in 1 .. Len(todo) \/ (i = Len(todo) + 1 /\ todo'[i] = requested + 1)
      BY <2>1
    <3>3. ASSUME NEW i \in 1 .. Len(todo') PROVE todo'[i] <= requested'
      <4> HIDE DEF IInv, TypeOK
      <4>1. CASE i \in 1 .. Len(todo) BY <2>1, <3>1, <4>1
      <4>2. CASE i = Len(todo) + 1 BY <2>1, <4>2
      <4> QED BY <3>2, <4>1, <4>2
    <3>4. ASSUME NEW i \in 1 .. Len(todo'), NEW j \in 1 .. Len(todo'), i < j
          PROVE  todo'[i] < todo'[j]
      <4>1. i \in 1 .. Len(todo) BY <2>1, <3>4
      <4>2. CASE j \in 1 .. Len(todo) BY <2>1, <3>4, <4>1, <4>2 DEF InTurn
      <4>3. CASE j = Len(todo) + 1 BY <2>1, <3>1, <4>1, <4>3
      <4> QED BY <3>2, <4>2, <4>3
    <3> QED BY <2>1, <3>3, <3>4 DEF InTurn
  <2>3. ASSUME NEW p \in Parts, p \in SentParts PROVE p \in SentParts'
    <3>1. p.req \in Requests /\ p.req <= requested BY <2>3 DEF Parts, SentParts
    <3>2. ASSUME NEW i \in 1 .. Len(todo')
          PROVE  p.req < todo'[i] \/ (i = 1 /\ p.req = todo'[1] /\ p.n < sent')
      <4>1. CASE i \in 1 .. Len(todo) BY <2>1, <2>3, <4>1 DEF SentParts
      <4>2. CASE i = Len(todo) + 1 BY <2>1, <3>1, <4>2 DEF Requests
      <4> QED BY <2>1, <4>1, <4>2
    <3> QED BY <2>1, <3>1, <3>2 DEF SentParts, Requests
  <2> QED BY <1>0, <2>2, <2>3
<1>2. CASE SendFails
  <2>1. requested' = requested + 1 /\ todo' = todo /\ sent' = sent /\ requested \in Nat
    BY <1>2 DEF SendFails, cameraVars
  <2>2. \A i \in 1 .. Len(todo) : todo[i] \in Nat BY TodoNumbers
  <2>3. InTurn'
    <3>1. \A i \in 1 .. Len(todo) : todo[i] <= requested /\ todo[i] <= requested + 1
      BY <2>1, <2>2 DEF InTurn
    <3> QED BY <2>1, <3>1 DEF InTurn
  <2>4. \A p \in Parts : p.req \in Nat BY BoundsAssumption DEF Parts, Requests
  <2>5. SentParts \subseteq SentParts' BY <2>1, <2>4 DEF SentParts
  <2> QED BY <2>3, <2>5
<1>3. CASE CameraSends \/ CameraFails
  <2>1. requested' = requested /\ todo # <<>> /\ Len(todo) \in Nat /\ requested \in Nat
    BY <1>3 DEF CameraSends, CameraFails, CameraTurn, callerVars
  <2>2. CASE todo' = todo /\ sent' = sent + 1
    BY <2>1, <2>2 DEF InTurn, SentParts, Parts
  <2>3. CASE todo' = Tail(todo) /\ sent' = 0
    <3>1. /\ Len(todo') = Len(todo) - 1 /\ 1 \in 1 .. Len(todo) /\ Len(todo') \in Nat
          /\ \A i \in 1 .. Len(todo') : i + 1 \in 1 .. Len(todo) /\ 1 < i + 1 /\ todo'[i] = todo[i + 1]
      BY <2>1, <2>3, TailSteps
    <3>2. InTurn'
      <4>1. ASSUME NEW i \in 1 .. Len(todo'), NEW j \in 1 .. Len(todo'), i < j
            PROVE  todo'[i] < todo'[j]
        <5>1. i + 1 < j + 1 BY <4>1
        <5> QED BY <3>1, <4>1, <5>1 DEF InTurn
      <4>2. \A i \in 1 .. Len(todo') : todo'[i] <= requested BY <3>1 DEF InTurn
      <4> QED BY <2>1, <2>3, <4>1, <4>2 DEF InTurn
    <3>3. ASSUME NEW p \in Parts, p \in SentParts PROVE p \in SentParts'
      <4>1. ASSUME NEW i \in 1 .. Len(todo') PROVE p.req < todo'[i]
        <5>1. i + 1 \in 1 .. Len(todo) /\ 1 < i + 1 /\ todo'[i] = todo[i + 1] BY ONLY <3>1, <4>1
        <5>2. ASSUME NEW k \in Nat, 1 < k PROVE k # 1 BY ONLY <5>2
        <5>3. i + 1 \in Nat
          <6>1. \A n, m \in Nat : \A k \in 1 .. n : k + 1 \in Nat OBVIOUS
          <6> QED BY ONLY <3>1, <4>1, <6>1
        <5>4. i + 1 # 1 BY ONLY <5>1, <5>2, <5>3
        <5> QED BY <3>3, <5>1, <5>4 DEF SentParts
      <4> QED BY <2>1, <3>3, <4>1 DEF SentParts
    <3> QED BY <1>0, <3>2, <3>3
  <2> QED BY <1>3, <2>1, <2>2, <2>3 DEF CameraSends, CameraFails
<1>4. CASE Caller \/ Receiver \/ UNCHANGED vars
  <2>1. UNCHANGED <<requested, todo, sent>>
    BY <1>4
    DEF Caller, Take, Written, WriteFails, GivesUp, ErrorReported, Done, Drained, Receiver,
        ReceiveStart, ReceiveChunk, ReceiveEnd, ReceiveSecondEnd, ReceiveFail, Deliver,
        StallTimeout, Arrives, callerVars, cameraVars, vars
  <2> QED BY <2>1 DEF InTurn, SentParts
<1> QED BY <1>1, <1>2, <1>3, <1>4 DEF Next

\* A call that was not made has left nothing; the active one is running.
LEMMA NotYetKept == ASSUME IInv, [Next]_vars PROVE NotYet'
<1> USE DEF IInv, TypeOK, NotYet
<1>1. CASE Begin
  <2>1. requested + 1 \in Requests /\ requested \in Nat /\ requested' = requested + 1
    BY <1>1, BoundsAssumption DEF Begin, Requests
  <2>2. /\ out' = out /\ told' = told /\ active' = requested + 1
        /\ result' = [result EXCEPT ![requested + 1] = "running"]
        /\ clean' \subseteq clean \cup {requested + 1} /\ dropped' = dropped
    BY <1>1, <2>1 DEF Begin
  <2> QED BY <2>1, <2>2 DEF Requests
<1>2. CASE SendFails
  BY <1>2 DEF SendFails, Requests, histVars, Nobody
<1>3. CASE Caller
  <2>1. requested \in Nat /\ requested' = requested /\ UNCHANGED histVars
    BY <1>3
    DEF Caller, Take, Written, WriteFails, GivesUp, ErrorReported, Done, Drained, histVars
  <2>2. active \in Requests /\ active <= requested
    BY <1>3
    DEF Caller, Take, Written, WriteFails, GivesUp, ErrorReported, Done, Drained, Waiting,
        Requests, Nobody
  <2>3. \A r \in Requests : r > requested => out'[r] = out[r] /\ told'[r] = told[r]
                                             /\ result'[r] = result[r]
    <3>1. /\ out' = out \/ out' = [out EXCEPT ![active] = Append(@, inWrite)]
          /\ told' = told \/ told' = [told EXCEPT ![active] = header]
          /\ \/ result' = result
             \/ \E v \in {"ok", "failed"} : result' = [result EXCEPT ![active] = v]
      BY <1>3
      DEF Caller, Take, Written, WriteFails, GivesUp, ErrorReported, Done, Drained, Return
    <3>2. \A r \in Requests : r > requested => r # active
      BY <2>1, <2>2, BoundsAssumption DEF Requests
    <3> QED BY <3>1, <3>2
  <2>4. active' # Nobody => result' = result /\ active' = active
    BY <1>3
    DEF Caller, Take, Written, WriteFails, GivesUp, ErrorReported, Done, Drained, Return
  <2> QED BY <2>1, <2>2, <2>3, <2>4 DEF histVars
<1>4. CASE Receiver
  <2>1. /\ UNCHANGED <<requested, result, told, out, clean>> /\ active' \in {active, Nobody}
        /\ dropped' \subseteq dropped \cup {active}
        /\ StallTimeout \/ dropped' = dropped
    BY <1>4
    DEF Receiver, ReceiveStart, ReceiveChunk, ReceiveEnd, ReceiveSecondEnd, ReceiveFail,
        Deliver, StallTimeout, Arrives, callerVars, histVars
  <2>2. \A r \in dropped' : r <= requested
    <3>1. CASE StallTimeout
      <4>1. blocked.to \in Requests BY <3>1 DEF StallTimeout
      <4> QED BY <2>1, <3>1, <4>1 DEF StallTimeout, Requests
    <3> QED BY <2>1, <3>1
  <2> QED BY <2>1, <2>2
<1>5. CASE CameraSends \/ CameraFails \/ UNCHANGED vars
  BY <1>5 DEF CameraSends, CameraFails, CameraTurn, callerVars, histVars, vars
<1> QED BY <1>1, <1>2, <1>3, <1>4, <1>5 DEF Next

LEMMA SeqGrows == ASSUME NEW S, NEW T, S \subseteq T, NEW s \in Seq(S) PROVE s \in Seq(T)
OBVIOUS

\* The caller takes parts from the front of what is under way and adds them to the end
\* of what is written; a call that begins or returns holds nothing.
LEMMA CallerKeepsOrder ==
    ASSUME IInv, Begin \/ SendFails \/ Caller
    PROVE  HeldInOrder' /\ LaterParts \subseteq LaterParts' /\ WrittenInOrder'
<1>1. /\ active \in Requests \cup {Nobody} /\ out \in [Requests -> Seq(Parts)]
      /\ chunkChan \in Seq(Parts) /\ inWrite \in Parts \cup {NoPart}
      /\ SentParts \subseteq Parts /\ LaterParts \subseteq Parts
      /\ place \in {"idle", "down"} => active = Nobody
      /\ active = Nobody => inWrite = NoPart /\ chunkChan = <<>>
  BY DEF IInv, TypeOK, SentParts, LaterParts, Requests, Nobody
<1>2. SentParts \subseteq SentParts' BY TurnKept DEF Next
<1>3. CASE UNCHANGED <<active, out, inWrite, chunkChan>>
  <2>1. LaterParts \subseteq LaterParts' BY <1>3 DEF LaterParts
  <2>2. HeldInOrder' BY <1>2, <1>3, SeqGrows DEF IInv, HeldInOrder
  <2> QED BY <1>3, <2>1, <2>2 DEF IInv, WrittenInOrder
<1>4. CASE active' = Nobody /\ out' = out
  BY <1>4 DEF IInv, HeldInOrder, LaterParts, WrittenInOrder
<1>5. CASE Begin
  <2>1. requested + 1 \in Requests /\ requested + 1 > requested
    BY <1>5, BoundsAssumption DEF Begin, IInv, TypeOK, Requests
  <2>2. out[requested + 1] = <<>> BY <2>1 DEF IInv, NotYet
  <2>3. /\ active' = requested + 1 /\ out' = out /\ chunkChan' = <<>> /\ inWrite' = NoPart
    BY <1>1, <1>5 DEF Begin, Fresh
  <2>4. out'[active'] = <<>> BY <2>2, <2>3
  <2>5. LaterParts \subseteq LaterParts' BY <2>3, <2>4 DEF LaterParts, Below
  <2>6. HeldInOrder' BY <2>3, <2>4 DEF HeldInOrder, Below, Ordered
  <2> QED BY <2>3, <2>5, <2>6 DEF IInv, WrittenInOrder
<1>6. CASE Take
  <2>1. /\ active \in Requests /\ inWrite = NoPart /\ chunkChan # <<>>
        /\ inWrite' = Head(chunkChan) /\ chunkChan' = Tail(chunkChan)
        /\ active' = active /\ out' = out
    BY <1>1, <1>6 DEF Take
  <2>2. /\ out[active] \in Seq(SentParts) /\ chunkChan \in Seq(SentParts) /\ Ordered(chunkChan)
        /\ \A i \in 1 .. Len(chunkChan) : Below(out[active], chunkChan[i])
    BY <2>1 DEF IInv, HeldInOrder, Nobody, Requests
  <2>3. /\ Head(chunkChan) \in SentParts /\ Tail(chunkChan) \in Seq(SentParts)
        /\ Below(out[active], Head(chunkChan))
        /\ \A i \in 1 .. Len(Tail(chunkChan)) : Below(out[active], Tail(chunkChan)[i])
    BY <2>1, <2>2, TailSteps
  <2>4. /\ Ordered(Tail(chunkChan))
        /\ \A i \in 1 .. Len(Tail(chunkChan)) : Before(Head(chunkChan), Tail(chunkChan)[i])
        /\ \A q \in Parts : Below(chunkChan, q) => Below(Tail(chunkChan), q) /\ Before(Head(chunkChan), q)
    BY <1>1, <2>1, <2>2, OrderTail
  <2>5. LaterParts \subseteq LaterParts' BY <2>1, <2>4 DEF LaterParts
  <2>6. HeldInOrder'
    <3>1. out[active] \in Seq(SentParts') /\ Tail(chunkChan) \in Seq(SentParts')
      BY <1>2, <2>2, <2>3, SeqGrows
    <3> QED BY <1>2, <2>1, <2>3, <2>4, <3>1 DEF HeldInOrder
  <2> QED BY <2>1, <2>5, <2>6 DEF IInv, WrittenInOrder
<1>7. CASE Written
  <2>1. /\ active \in Requests /\ inWrite \in Parts /\ inWrite # NoPart /\ inWrite' = NoPart
        /\ out' = [out EXCEPT ![active] = Append(out[active], inWrite)]
        /\ active' = active /\ chunkChan' = chunkChan
    BY <1>1, <1>7 DEF Written, transferVars
  <2>2. /\ out[active] \in Seq(SentParts) /\ chunkChan \in Seq(SentParts) /\ Ordered(chunkChan)
        /\ inWrite \in SentParts /\ Below(out[active], inWrite)
        /\ \A i \in 1 .. Len(chunkChan) :
              chunkChan[i] \in Parts /\ Below(out[active], chunkChan[i]) /\ Before(inWrite, chunkChan[i])
    BY <1>1, <2>1 DEF IInv, HeldInOrder, Nobody, Requests
  <2>3. /\ Ordered(out[active]) => Ordered(Append(out[active], inWrite))
        /\ \A q \in Parts : Below(out[active], q) /\ Before(inWrite, q)
                                => Below(Append(out[active], inWrite), q)
    BY <1>1, <2>1, <2>2, OrderAppend
  <2>4. out'[active] = Append(out[active], inWrite) /\ out'[active] \in Seq(SentParts')
    <3>1. Append(out[active], inWrite) \in Seq(SentParts) BY <2>2, AppendSteps
    <3>2. Append(out[active], inWrite) \in Seq(SentParts') BY <1>2, <3>1, SeqGrows
    <3> QED BY <1>1, <2>1, <3>2
  <2>5. WrittenInOrder'
    <3>1. \A r \in Requests : Ordered(out[r]) BY DEF IInv, WrittenInOrder, Ordered
    <3>2. \A r \in Requests : Ordered(out'[r]) BY <1>1, <2>1, <2>3, <2>4, <3>1
    <3> QED BY <3>2 DEF WrittenInOrder, Ordered
  <2>6. LaterParts \subseteq LaterParts'
    BY <2>1, <2>3, <2>4 DEF LaterParts, Requests, Nobody
  <2>7. HeldInOrder'
    <3>1. chunkChan \in Seq(SentParts') BY <1>2, <2>2, SeqGrows
    <3> QED BY <2>1, <2>2, <2>3, <2>4, <3>1 DEF HeldInOrder
  <2> QED BY <2>5, <2>6, <2>7
<1>8. CASE SendFails
  BY <1>3, <1>8 DEF SendFails, transferVars
<1>9. CASE Done
  BY <1>3, <1>9 DEF Done, transferVars
<1>10. CASE WriteFails \/ GivesUp \/ ErrorReported \/ Drained
  BY <1>4, <1>10 DEF WriteFails, GivesUp, ErrorReported, Drained, Return
<1> QED BY <1>5, <1>6, <1>7, <1>8, <1>9, <1>10 DEF Caller

\* What waits for room and what is on the DataChannel stays where it is.
LEMMA WireAwaitsCaller ==
    ASSUME IInv, Begin \/ SendFails \/ Caller PROVE WaitsInOrder' /\ WireInOrder'
<1>1. /\ UNCHANGED <<blocked, wire>> /\ requested' >= requested
      /\ active' \in {active, Nobody} \/ active' = requested + 1
      /\ requested \in Nat /\ requested' \in Nat
  BY DEF Begin, SendFails, Caller, Take, Written, WriteFails, GivesUp, ErrorReported, Done,
         Drained, Return, cameraVars, IInv, TypeOK
<1>2. SentParts \subseteq SentParts' BY TurnKept DEF Next
<1>3. LaterParts \subseteq LaterParts' BY CallerKeepsOrder
<1>4. blocked # NotBlocked => blocked.to \in Nat /\ blocked.to # Nobody
  BY BoundsAssumption DEF IInv, TypeOK, Requests, Nobody
<1>5. blocked # NotBlocked /\ blocked.to = active' => active' = active
  BY <1>1, <1>4 DEF IInv, WaitsInOrder
<1>6. WaitsInOrder' BY <1>1, <1>2, <1>3, <1>4, <1>5 DEF IInv, WaitsInOrder
<1>7. WireInOrder' BY <1>1, <1>2, <1>3 DEF IInv, WireInOrder
<1> QED BY <1>6, <1>7

\* The message that arrives is the first on the DataChannel; those behind it stay.
LEMMA FirstArrives ==
    ASSUME IInv, NEW kind, Arrives(kind)
    PROVE  /\ wire' = Tail(wire) /\ blocked = NotBlocked
           /\ wire[1] = Head(wire) /\ wire[1] \in Messages /\ wire[1].kind = kind
           /\ 1 \in 1 .. Len(wire) /\ Len(wire') = Len(wire) - 1
           /\ \A i \in 1 .. Len(wire') :
                 /\ i + 1 \in 1 .. Len(wire) /\ 1 < i + 1 /\ wire'[i] = wire[i + 1]
                 /\ wire[1].kind = "chunk" /\ wire'[i].kind = "chunk" =>
                       Before(Part(wire[1]), Part(wire'[i]))
                 /\ wire'[i].kind = "chunk" => Part(wire'[i]) \in SentParts \cap LaterParts
                 /\ \A j \in 1 .. Len(wire') :
                       i < j /\ wire'[i].kind = "chunk" /\ wire'[j].kind = "chunk" =>
                           Before(Part(wire'[i]), Part(wire'[j]))
<1>1. wire \in Seq(Messages) /\ wire # <<>> /\ wire' = Tail(wire) /\ blocked = NotBlocked
      /\ Head(wire).kind = kind
  BY DEF Arrives, IInv, TypeOK
<1>2. /\ wire[1] = Head(wire) /\ wire[1] \in Messages
      /\ 1 \in 1 .. Len(wire) /\ Len(wire') = Len(wire) - 1
      /\ \A i \in 1 .. Len(wire') : i + 1 \in 1 .. Len(wire) /\ 1 < i + 1 /\ wire'[i] = wire[i + 1]
  BY <1>1, TailSteps
<1>3. ASSUME NEW i \in 1 .. Len(wire'), NEW j \in 1 .. Len(wire'), i < j,
             wire'[i].kind = "chunk", wire'[j].kind = "chunk"
      PROVE  Before(Part(wire'[i]), Part(wire'[j]))
  <2>1. i + 1 < j + 1 BY <1>3
  <2> QED BY <1>2, <1>3, <2>1 DEF IInv, WireInOrder
<1>4. ASSUME NEW i \in 1 .. Len(wire'), wire'[i].kind = "chunk"
      PROVE  /\ Part(wire'[i]) \in SentParts \cap LaterParts
             /\ wire[1].kind = "chunk" => Before(Part(wire[1]), Part(wire'[i]))
  BY <1>2, <1>4 DEF IInv, WireInOrder
<1> QED BY <1>1, <1>2, <1>3, <1>4

LEMMA ReceiverKeepsOrder ==
    ASSUME IInv, Receiver
    PROVE  HeldInOrder' /\ WaitsInOrder' /\ WireInOrder' /\ WrittenInOrder'
<1>1. /\ active \in Requests \cup {Nobody} /\ active <= requested /\ requested \in Nat
      /\ chunkChan \in Seq(Parts) /\ inWrite \in Parts \cup {NoPart}
      /\ SentParts \subseteq Parts /\ LaterParts \subseteq Parts
      /\ active \in Requests => active # Nobody
  BY BoundsAssumption DEF IInv, TypeOK, SentParts, LaterParts, Requests, Nobody
<1>2. UNCHANGED <<requested, inWrite, out>> \/ ReceiveSecondEnd
  BY DEF Receiver, ReceiveStart, ReceiveChunk, ReceiveEnd, ReceiveFail, Deliver,
         StallTimeout, callerVars
<1>3. SentParts \subseteq SentParts' BY TurnKept DEF Next
<1>4. WrittenInOrder'
  <2>1. out' = out BY <1>2 DEF ReceiveSecondEnd
  <2> QED BY <2>1 DEF IInv, WrittenInOrder
<1>5. CASE ReceiveStart \/ ReceiveEnd \/ ReceiveFail
  <2>1. PICK kind : Arrives(kind) BY <1>5 DEF ReceiveStart, ReceiveEnd, ReceiveFail
  <2>2. UNCHANGED <<requested, active, out, inWrite, chunkChan, blocked>>
    BY <1>5 DEF ReceiveStart, ReceiveEnd, ReceiveFail, callerVars
  <2>3. LaterParts \subseteq LaterParts' BY <2>2 DEF LaterParts
  <2>4. HeldInOrder' BY <1>3, <2>2, SeqGrows DEF IInv, HeldInOrder
  <2>5. WireInOrder' /\ WaitsInOrder'
    BY <1>3, <2>1, <2>2, <2>3, FirstArrives DEF WireInOrder, WaitsInOrder
  <2> QED BY <1>4, <2>4, <2>5
<1>6. CASE ReceiveSecondEnd
  <2>1. Arrives("end") /\ active' = Nobody /\ blocked' = blocked
    BY <1>6 DEF ReceiveSecondEnd
  <2>2. HeldInOrder' /\ LaterParts \subseteq LaterParts' BY <2>1 DEF HeldInOrder, LaterParts
  <2>3. WireInOrder' /\ WaitsInOrder'
    BY <1>3, <2>1, <2>2, FirstArrives DEF WireInOrder, WaitsInOrder
  <2> QED BY <1>4, <2>2, <2>3
<1>7. CASE ReceiveChunk
  <2> DEFINE part == Part(Head(wire))
  <2>1. /\ Arrives("chunk")
        /\ chunkChan' = IF active # Nobody /\ Room THEN Append(chunkChan, part) ELSE chunkChan
        /\ blocked' = IF active # Nobody /\ ~Room THEN [to |-> active, part |-> part] ELSE blocked
        /\ UNCHANGED <<requested, active, inWrite, out>>
    BY <1>7 DEF ReceiveChunk, callerVars, Part
  <2>2. /\ part \in SentParts \cap LaterParts /\ blocked = NotBlocked
        /\ \A i \in 1 .. Len(wire') : wire'[i].kind = "chunk" => Before(part, Part(wire'[i]))
    <3>1. part = Part(wire[1]) /\ wire[1].kind = "chunk" /\ 1 \in 1 .. Len(wire)
      BY <2>1, FirstArrives
    <3>2. part \in SentParts \cap LaterParts BY <3>1 DEF IInv, WireInOrder
    <3> QED BY <2>1, <3>1, <3>2, FirstArrives
  <2> HIDE DEF part
  <2>3. CASE active # Nobody /\ Room
    <3>1. chunkChan' = Append(chunkChan, part) /\ blocked' = NotBlocked BY <2>1, <2>2, <2>3
    <3>2. /\ out[active] \in Seq(SentParts) /\ chunkChan \in Seq(SentParts) /\ Ordered(chunkChan)
          /\ inWrite # NoPart => inWrite \in SentParts /\ Below(out[active], inWrite)
          /\ \A i \in 1 .. Len(chunkChan) : /\ Below(out[active], chunkChan[i])
                                            /\ inWrite # NoPart => Before(inWrite, chunkChan[i])
      BY <2>3 DEF IInv, HeldInOrder
    <3>3. /\ Below(out[active], part) /\ Below(chunkChan, part)
          /\ inWrite # NoPart => Before(inWrite, part)
      BY <2>2, <2>3 DEF LaterParts
    <3>4. Ordered(Append(chunkChan, part))
      BY <1>1, <2>2, <3>2, <3>3, OrderAppend
    <3>5. /\ Append(chunkChan, part) \in Seq(SentParts)
          /\ \A i \in 1 .. Len(Append(chunkChan, part)) :
                /\ Below(out[active], Append(chunkChan, part)[i])
                /\ inWrite # NoPart => Before(inWrite, Append(chunkChan, part)[i])
      BY <2>2, <3>2, <3>3, AppendSteps
    <3>6. out[active] \in Seq(SentParts') /\ chunkChan' \in Seq(SentParts')
      BY <1>3, <3>1, <3>2, <3>5, SeqGrows
    <3>7. HeldInOrder' BY <1>3, <2>1, <3>1, <3>2, <3>4, <3>5, <3>6 DEF HeldInOrder
    <3>8. \A q \in LaterParts : Before(part, q) => q \in LaterParts'
      <4>1. ASSUME NEW q \in LaterParts, Before(part, q) PROVE Below(chunkChan', q)
        BY <1>1, <2>2, <2>3, <3>1, <4>1, OrderAppend DEF LaterParts
      <4> QED BY <2>1, <4>1 DEF LaterParts
    <3>9. WireInOrder' BY <1>3, <2>1, <2>2, <3>1, <3>8, FirstArrives DEF WireInOrder
    <3>10. WaitsInOrder' BY <3>1 DEF WaitsInOrder
    <3> QED BY <1>4, <3>7, <3>9, <3>10
  <2>4. CASE ~(active # Nobody /\ Room)
    <3>1. chunkChan' = chunkChan BY <2>1, <2>4
    <3>2. LaterParts \subseteq LaterParts' BY <2>1, <3>1 DEF LaterParts
    <3>3. HeldInOrder' BY <1>3, <2>1, <3>1, SeqGrows DEF IInv, HeldInOrder
    <3>4. blocked' # NotBlocked => blocked'.to = active /\ blocked'.part = part
      BY <2>1, <2>2
    <3>5. WaitsInOrder' BY <1>1, <1>3, <2>1, <2>2, <3>2, <3>4 DEF WaitsInOrder
    <3>6. WireInOrder' BY <1>3, <2>1, <2>2, <3>2, <3>4, FirstArrives DEF WireInOrder
    <3> QED BY <1>4, <3>3, <3>5, <3>6
  <2> QED BY <2>3, <2>4
<1>8. CASE Deliver
  <2> DEFINE part == blocked.part
  <2>1. /\ blocked # NotBlocked /\ blocked.to = active /\ active # Nobody
        /\ chunkChan' = Append(chunkChan, part) /\ blocked' = NotBlocked /\ wire' = wire
        /\ UNCHANGED <<requested, active, inWrite, out>>
    <3>1. blocked # NotBlocked => blocked.to \in Requests BY DEF IInv, TypeOK
    <3>2. \A r \in Requests : r # Nobody BY DEF Requests, Nobody
    <3> QED BY <1>8, <3>1, <3>2 DEF Deliver, callerVars, cameraVars
  <2>2. part \in SentParts \cap LaterParts BY <2>1 DEF IInv, WaitsInOrder
  <2>3. /\ out[active] \in Seq(SentParts) /\ chunkChan \in Seq(SentParts) /\ Ordered(chunkChan)
        /\ inWrite # NoPart => inWrite \in SentParts /\ Below(out[active], inWrite)
        /\ \A i \in 1 .. Len(chunkChan) : /\ Below(out[active], chunkChan[i])
                                          /\ inWrite # NoPart => Before(inWrite, chunkChan[i])
    BY <2>1 DEF IInv, HeldInOrder
  <2>4. \A i \in 1 .. Len(wire) : wire[i].kind = "chunk" => Before(part, Part(wire[i]))
    BY <2>1 DEF IInv, WireInOrder
  <2> HIDE DEF part
  <2>5. /\ Below(out[active], part) /\ Below(chunkChan, part)
        /\ inWrite # NoPart => Before(inWrite, part)
    BY <2>1, <2>2 DEF LaterParts
  <2>6. Ordered(Append(chunkChan, part)) BY <1>1, <2>2, <2>3, <2>5, OrderAppend
  <2>7. /\ Append(chunkChan, part) \in Seq(SentParts)
        /\ \A i \in 1 .. Len(Append(chunkChan, part)) :
              /\ Below(out[active], Append(chunkChan, part)[i])
              /\ inWrite # NoPart => Before(inWrite, Append(chunkChan, part)[i])
    BY <2>2, <2>3, <2>5, AppendSteps
  <2>8. out[active] \in Seq(SentParts') /\ chunkChan' \in Seq(SentParts')
    BY <1>3, <2>1, <2>3, <2>7, SeqGrows
  <2>9. HeldInOrder' BY <1>3, <2>1, <2>3, <2>6, <2>7, <2>8 DEF HeldInOrder
  <2>10. \A q \in LaterParts : Before(part, q) => q \in LaterParts'
    <3>1. ASSUME NEW q \in LaterParts, Before(part, q) PROVE Below(chunkChan', q)
      BY <1>1, <2>1, <2>2, <3>1, OrderAppend DEF LaterParts
    <3> QED BY <2>1, <3>1 DEF LaterParts
  <2>11. WireInOrder' BY <1>3, <2>1, <2>4, <2>10 DEF IInv, WireInOrder
  <2>12. WaitsInOrder' BY <2>1 DEF WaitsInOrder
  <2> QED BY <1>4, <2>9, <2>11, <2>12
<1>9. CASE StallTimeout
  <2>1. UNCHANGED <<requested, active, out, inWrite, chunkChan, wire>> /\ blocked' = NotBlocked
    BY <1>9 DEF StallTimeout, callerVars, cameraVars
  <2>2. LaterParts \subseteq LaterParts' BY <2>1 DEF LaterParts
  <2>3. HeldInOrder' BY <1>3, <2>1, SeqGrows DEF IInv, HeldInOrder
  <2>4. WireInOrder' /\ WaitsInOrder'
    BY <1>3, <2>1, <2>2 DEF IInv, WireInOrder, WaitsInOrder
  <2> QED BY <1>4, <2>3, <2>4
<1> QED BY <1>5, <1>6, <1>7, <1>8, <1>9 DEF Receiver

\* What the camera sends next comes after all it has sent.
LEMMA CameraKeepsOrder ==
    ASSUME IInv, CameraSends \/ CameraFails
    PROVE  HeldInOrder' /\ WaitsInOrder' /\ WireInOrder' /\ WrittenInOrder'
<1>1. /\ UNCHANGED <<requested, active, out, inWrite, chunkChan, blocked>>
      /\ wire \in Seq(Messages) /\ todo # <<>>
  BY DEF CameraSends, CameraFails, CameraTurn, callerVars, transferVars, IInv, TypeOK
<1>2. SentParts \subseteq SentParts' BY TurnKept DEF Next
<1>3. LaterParts' = LaterParts BY <1>1 DEF LaterParts
<1>4. HeldInOrder' BY <1>1, <1>2, SeqGrows DEF IInv, HeldInOrder
<1>5. WaitsInOrder' BY <1>1, <1>2, <1>3 DEF IInv, WaitsInOrder
<1>6. WrittenInOrder' BY <1>1 DEF IInv, WrittenInOrder
<1>7. WireInOrder'
  <2>1. CASE wire' = wire BY <1>1, <1>2, <1>3, <2>1 DEF IInv, WireInOrder
  <2>2. ASSUME NEW m \in Messages, wire' = Append(wire, m),
               m.kind = "chunk" =>
                   /\ Part(m) \in SentParts' \cap LaterParts
                   /\ blocked # NotBlocked => Before(blocked.part, Part(m))
                   /\ \A q \in SentParts : Before(q, Part(m))
        PROVE  WireInOrder'
    <3>1. /\ Len(wire') = Len(wire) + 1
          /\ \A i \in 1 .. Len(wire') : \/ i \in 1 .. Len(wire) /\ wire'[i] = wire[i]
                                        \/ i = Len(wire) + 1 /\ wire'[i] = m
      BY <1>1, <2>2, AppendSteps
    <3>2. ASSUME NEW i \in 1 .. Len(wire'), NEW j \in 1 .. Len(wire'), i < j,
                 wire'[i].kind = "chunk", wire'[j].kind = "chunk"
          PROVE  Before(Part(wire'[i]), Part(wire'[j]))
      <4>1. i \in 1 .. Len(wire) /\ wire'[i] = wire[i] BY <1>1, <3>1, <3>2
      <4>2. Part(wire[i]) \in SentParts BY <3>2, <4>1 DEF IInv, WireInOrder
      <4>3. CASE j \in 1 .. Len(wire) /\ wire'[j] = wire[j]
        BY <3>2, <4>1, <4>3 DEF IInv, WireInOrder
      <4>4. CASE wire'[j] = m BY <2>2, <3>2, <4>1, <4>2, <4>4
      <4> QED BY <3>1, <4>3, <4>4
    <3>3. ASSUME NEW i \in 1 .. Len(wire'), wire'[i].kind = "chunk"
          PROVE  /\ Part(wire'[i]) \in SentParts' \cap LaterParts'
                 /\ blocked' # NotBlocked => Before(blocked'.part, Part(wire'[i]))
      <4>1. CASE i \in 1 .. Len(wire) /\ wire'[i] = wire[i]
        BY <1>1, <1>2, <1>3, <3>3, <4>1 DEF IInv, WireInOrder
      <4>2. CASE wire'[i] = m BY <1>1, <1>3, <2>2, <3>3, <4>2
      <4> QED BY <3>1, <4>1, <4>2
    <3> QED BY <3>2, <3>3 DEF WireInOrder
  <2>3. Head(todo) \in Requests /\ Head(todo) = todo[1] /\ 1 \in 1 .. Len(todo)
    BY <1>1, TailSteps DEF IInv, TypeOK
  <2>4. CASE sent \in 1 .. Chunks /\ Send("chunk", sent) /\ todo' = todo /\ sent' = sent + 1
    <3> DEFINE m == [req |-> Head(todo), kind |-> "chunk", n |-> sent]
    <3>1. m \in Messages /\ wire' = Append(wire, m)
      BY <2>3, <2>4, BoundsAssumption DEF Messages, Send
    <3>2. Part(m) = [req |-> todo[1], n |-> sent] /\ Part(m) \in Parts
      BY <2>3, <2>4 DEF Part, Parts
    <3>3. Part(m) \in SentParts'
      <4>1. \A i \in 1 .. Len(todo) : i # 1 => todo[1] < todo[i]
        BY <2>3 DEF IInv, InTurn
      <4>2. todo[1] <= requested BY <2>3 DEF IInv, InTurn
      <4>3. sent < sent + 1 BY <2>4, BoundsAssumption
      <4> QED BY <1>1, <2>4, <3>2, <4>1, <4>2, <4>3 DEF SentParts
    <3>4. \A q \in SentParts : Before(q, Part(m))
      BY <2>3, <3>2 DEF SentParts, Before
    <3>5. Part(m) \in LaterParts
      <4>1. \A i \in 1 .. Len(out[active]) : active # Nobody => out[active][i] \in SentParts
        BY DEF IInv, HeldInOrder
      <4>2. \A i \in 1 .. Len(chunkChan) : active # Nobody => chunkChan[i] \in SentParts
        BY DEF IInv, HeldInOrder
      <4>3. active # Nobody /\ inWrite # NoPart => inWrite \in SentParts
        BY DEF IInv, HeldInOrder
      <4> QED BY <3>2, <3>4, <4>1, <4>2, <4>3 DEF LaterParts, Below
    <3>6. blocked # NotBlocked => Before(blocked.part, Part(m))
      BY <3>4 DEF IInv, WaitsInOrder
    <3> HIDE DEF m
    <3> QED BY <2>2, <3>1, <3>3, <3>4, <3>5, <3>6
  <2>5. ASSUME NEW kind \in {"start", "end", "fail"}, Send(kind, 0) PROVE WireInOrder'
    <3> DEFINE m == [req |-> Head(todo), kind |-> kind, n |-> 0]
    <3>1. m \in Messages /\ wire' = Append(wire, m) /\ m.kind # "chunk"
      BY <2>3, <2>5, BoundsAssumption DEF Messages, Send
    <3> HIDE DEF m
    <3> QED BY <2>2, <3>1
  <2>6. CASE CameraFails BY <2>1, <2>5, <2>6 DEF CameraFails
  <2>7. CASE CameraSends
    <3>1. CASE sent \in 1 .. Chunks /\ Send("chunk", sent)
      <4>1. sent # Chunks + 1 BY <3>1, BoundsAssumption
      <4> QED BY <2>4, <2>7, <3>1, <4>1 DEF CameraSends
    <3> QED BY <2>5, <2>7, <3>1 DEF CameraSends
  <2> QED BY <2>6, <2>7
<1> QED BY <1>4, <1>5, <1>6, <1>7

LEMMA NextIInv == IInv /\ [Next]_vars => IInv'
<1> SUFFICES ASSUME IInv, [Next]_vars PROVE IInv' OBVIOUS
<1>1. NotYet' /\ InTurn' BY NotYetKept, TurnKept
<1>2. CASE Begin \/ SendFails \/ Caller
  BY <1>1, <1>2, TypesOfCaller, CallerKeepsOrder, WireAwaitsCaller DEF IInv
<1>3. CASE Receiver BY <1>1, <1>3, TypesOfReceiver, ReceiverKeepsOrder DEF IInv
<1>4. CASE CameraSends \/ CameraFails
  BY <1>1, <1>4, TypesOfCamera, CameraKeepsOrder DEF IInv
<1>5. CASE UNCHANGED vars
  <2>1. UNCHANGED <<requested, active, place, inWrite, result, told, out, chunkChan, doneChan,
                    errChan, header, blocked, todo, sent, wire, clean, dropped>>
    BY <1>5 DEF vars, callerVars, transferVars, cameraVars, histVars
  <2>2. TypeOK' BY <2>1 DEF IInv, TypeOK
  <2>3. SentParts' = SentParts /\ LaterParts' = LaterParts
    BY <2>1 DEF SentParts, LaterParts
  <2>4. HeldInOrder' /\ WaitsInOrder' /\ WireInOrder' /\ WrittenInOrder'
    BY <2>1, <2>3 DEF IInv, HeldInOrder, WaitsInOrder, WireInOrder, WrittenInOrder
  <2> QED BY <1>1, <2>2, <2>4 DEF IInv
<1> QED BY <1>2, <1>3, <1>4, <1>5 DEF Next

LEMMA InitIInv == Init => IInv
<1> SUFFICES ASSUME Init PROVE IInv OBVIOUS
<1>1. TypeOK
  <2>1. 0 \in 0 .. MaxRequests /\ 0 \in 0 .. Chunks + 1 BY BoundsAssumption
  <2>2. NoPart \in Parts \cup {NoPart} /\ NotBlocked \in {NotBlocked} OBVIOUS
  <2>3. /\ <<>> \in Seq(Parts) /\ <<>> \in Seq(Requests) /\ <<>> \in Seq(Messages)
        /\ Len(<<>>) <= Buffer /\ Len(<<>>) <= Window
    BY BoundsAssumption
  <2>4. /\ result \in [Requests -> {"none", "running", "ok", "failed"}]
        /\ told \in [Requests -> Requests \cup {Nobody}] /\ out \in [Requests -> Seq(Parts)]
    BY <2>3 DEF Init
  <2> QED BY <2>1, <2>2, <2>3, <2>4 DEF Init, TypeOK, Nobody
<1>2. NotYet /\ InTurn /\ HeldInOrder /\ WaitsInOrder /\ WireInOrder /\ WrittenInOrder
  BY DEF Init, NotYet, InTurn, HeldInOrder, WaitsInOrder, WireInOrder, WrittenInOrder, Nobody
<1> QED BY <1>1, <1>2 DEF IInv

LEMMA Invariance == Spec => []IInv
BY InitIInv, NextIInv, PTL DEF Spec

-----------------------------------------------------------------------------
(* The clean call. *)

LEMMA Counts ==
    ASSUME IInv, active # Nobody
    PROVE  /\ active \in Requests /\ out[active] \in Seq(Parts) /\ Wrote \in Nat
           /\ chunkChan \in Seq(Parts) /\ Len(chunkChan) \in Nat
           /\ InHand \in Nat /\ Waits \in {0, 1} /\ Arrived \in Nat
           /\ result[active] = "running" /\ place \in {"pump", "drain"}
           /\ wire \in Seq(Messages) /\ Len(wire) \in Nat
<1>1. /\ active \in Requests /\ out[active] \in Seq(Parts) /\ chunkChan \in Seq(Parts)
      /\ wire \in Seq(Messages) /\ result[active] = "running" /\ place \in {"pump", "drain"}
  BY DEF IInv, TypeOK, NotYet, Requests, Nobody
<1>2. Wrote \in Nat /\ Len(chunkChan) \in Nat /\ Len(wire) \in Nat BY <1>1 DEF Wrote
<1>3. InHand \in Nat /\ Waits \in {0, 1} BY DEF InHand, Waits
<1> QED BY <1>1, <1>2, <1>3 DEF Arrived, Wrote

LEMMA Sums ==
    /\ \A a, b, c, d, i \in Nat : c + d = a + b + 1 => c + d + i = a + b + (i + 1)
    /\ \A a, b \in Nat : a + (b + 1) = a + b + 1
OBVIOUS

LEMMA NobodyUnclean == ASSUME IInv PROVE Nobody \notin clean /\ clean \subseteq Requests
BY BoundsAssumption DEF IInv, TypeOK, Requests, Nobody

\* What the caller takes and writes is the next of the file.
LEMMA CleanCallerStep ==
    ASSUME IInv, CleanInv, Caller, active' \in clean' \ dropped'
    PROVE  UnderWay'
<1>1. /\ active' = active /\ clean' = clean /\ dropped' = dropped
      /\ ~(WriteFails \/ GivesUp \/ ErrorReported \/ Drained)
  <2>1. clean' = clean /\ dropped' = dropped
    BY DEF Caller, Take, Written, WriteFails, GivesUp, ErrorReported, Done, Drained, histVars
  <2>2. active' # Nobody BY <2>1, NobodyUnclean
  <2>3. WriteFails \/ GivesUp \/ ErrorReported \/ Drained => active' = Nobody
    BY DEF WriteFails, GivesUp, ErrorReported, Drained, Return
  <2>4. Take \/ Written \/ Done => active' = active BY DEF Take, Written, Done
  <2> QED BY <2>1, <2>2, <2>3, <2>4 DEF Caller
<1>2. UnderWay /\ active # Nobody BY <1>1, NobodyUnclean DEF CleanInv
<1>3. UNCHANGED <<active, blocked, header, doneChan, todo, sent, wire>>
  BY <1>1 DEF Caller, Take, Written, Done, transferVars, cameraVars
<1>4. Waits' = Waits BY <1>3 DEF Waits
<1>5. CASE Take
  <2>1. /\ inWrite = NoPart /\ chunkChan # <<>> /\ inWrite' = Head(chunkChan)
        /\ chunkChan' = Tail(chunkChan) /\ out' = out /\ place' = place
    BY <1>5 DEF Take
  <2>2. /\ Head(chunkChan) = chunkChan[1] /\ 1 \in 1 .. Len(chunkChan)
        /\ Head(chunkChan) \in Parts
        /\ Len(Tail(chunkChan)) = Len(chunkChan) - 1
        /\ \A i \in 1 .. Len(Tail(chunkChan)) :
              i + 1 \in 1 .. Len(chunkChan) /\ Tail(chunkChan)[i] = chunkChan[i + 1]
    BY <1>2, <2>1, Counts, TailSteps
  <2>3. InHand = 0 /\ InHand' = 1
    <3>1. Head(chunkChan) # NoPart BY <2>2, BoundsAssumption DEF Parts, Requests, NoPart, Nobody
    <3> QED BY <2>1, <3>1 DEF InHand
  <2>4. Arrived' = Arrived
    BY <1>2, <1>3, <1>4, <2>1, <2>2, <2>3, Counts DEF Arrived, Wrote
  <2>5. Contiguous'
    <3>1. inWrite' = [req |-> active, n |-> Len(out[active]) + 1]
      BY <1>2, <2>1, <2>2, <2>3, Counts DEF UnderWay, Contiguous, Wrote
    <3>2. ASSUME NEW i \in 1 .. Len(chunkChan')
          PROVE  chunkChan'[i] = [req |-> active, n |-> Len(out[active]) + 1 + i]
      <4>1. i + 1 \in 1 .. Len(chunkChan) /\ chunkChan'[i] = chunkChan[i + 1] /\ i \in Nat
        BY <1>2, <2>1, <2>2, Counts
      <4>2. Len(out[active]) \in Nat BY <1>2, Counts DEF Wrote
      <4>3. Len(out[active]) + 0 + (i + 1) = Len(out[active]) + 1 + i BY <4>1, <4>2
      <4> QED BY <1>2, <2>3, <4>1, <4>3 DEF UnderWay, Contiguous, Wrote
    <3> QED BY <1>2, <1>3, <2>1, <2>3, <2>4, <3>1, <3>2 DEF UnderWay, Contiguous, Wrote
  <2> QED BY <1>2, <1>3, <1>4, <2>1, <2>4, <2>5 DEF UnderWay, Coming, ToCome, AllThere, Number, Begun
<1>6. CASE Written
  <2>1. /\ inWrite # NoPart /\ inWrite' = NoPart /\ inWrite \in Parts /\ chunkChan' = chunkChan
        /\ out'[active] = Append(out[active], inWrite) /\ place' = place
    BY <1>2, <1>6, Counts DEF Written, transferVars, IInv, TypeOK
  <2>2. InHand = 1 /\ InHand' = 0 BY <2>1 DEF InHand
  <2>3. /\ Len(out'[active]) = Len(out[active]) + 1
        /\ \A i \in 1 .. Len(out'[active]) :
              \/ i \in 1 .. Len(out[active]) /\ out'[active][i] = out[active][i]
              \/ i = Len(out[active]) + 1 /\ out'[active][i] = inWrite
    BY <1>2, <2>1, Counts, AppendSteps
  <2>4. Arrived' = Arrived
    BY <1>2, <1>3, <1>4, <2>1, <2>2, <2>3, Counts DEF Arrived, Wrote
  <2>5. Contiguous'
    <3>1. \A i \in 1 .. Len(out'[active]) : out'[active][i] = [req |-> active, n |-> i]
      BY <1>2, <2>1, <2>3 DEF UnderWay, Contiguous, Wrote
    <3>2. \A i \in 1 .. Len(chunkChan) :
              chunkChan[i] = [req |-> active, n |-> Len(out'[active]) + 0 + i]
      <4>1. \A i \in 1 .. Len(chunkChan) :
                Len(out[active]) + 1 + i = Len(out'[active]) + 0 + i
        BY <1>2, <2>3, Counts DEF Wrote
      <4> QED BY <1>2, <2>2, <4>1 DEF UnderWay, Contiguous, Wrote
    <3> QED BY <1>2, <1>3, <2>1, <2>2, <2>4, <3>1, <3>2 DEF UnderWay, Contiguous, Wrote
  <2> QED BY <1>2, <1>3, <1>4, <2>1, <2>4, <2>5 DEF UnderWay, Coming, ToCome, AllThere, Number, Begun
<1>7. CASE Done
  <2>1. UNCHANGED <<inWrite, chunkChan, out>> /\ doneChan BY <1>7 DEF Done, transferVars
  <2>2. Arrived' = Arrived /\ InHand' = InHand
    BY <1>3, <1>4, <2>1 DEF Arrived, InHand, Wrote
  <2> QED BY <1>2, <1>3, <1>4, <2>1, <2>2
          DEF UnderWay, Contiguous, Coming, ToCome, AllThere, Number, Begun, Wrote
<1> QED BY <1>1, <1>5, <1>6, <1>7 DEF Caller

\* What arrives is the next of the file.
LEMMA CleanReceiverStep ==
    ASSUME IInv, CleanInv, Receiver, active' \in clean' \ dropped'
    PROVE  UnderWay'
<1>1. active' # Nobody /\ clean' = clean /\ dropped \subseteq dropped'
  <2>1. clean' = clean /\ dropped \subseteq dropped'
    BY DEF Receiver, ReceiveStart, ReceiveChunk, ReceiveEnd, ReceiveSecondEnd, ReceiveFail,
           Deliver, StallTimeout, Arrives, histVars
  <2> QED BY <2>1, NobodyUnclean
<1>2. /\ UNCHANGED <<active, place, inWrite, out, todo, sent>>
      /\ ~ReceiveSecondEnd
  BY <1>1 DEF Receiver, ReceiveStart, ReceiveChunk, ReceiveEnd, ReceiveSecondEnd, ReceiveFail,
              Deliver, StallTimeout, Arrives, callerVars, cameraVars
<1>3. UnderWay /\ active # Nobody BY <1>1, <1>2 DEF CleanInv
<1>4. InHand' = InHand /\ Wrote' = Wrote BY <1>2 DEF InHand, Wrote
<1>5. /\ active \in Requests /\ Wrote \in Nat /\ InHand \in Nat
      /\ Len(chunkChan) \in Nat /\ Waits \in {0, 1} /\ Arrived \in Nat /\ Len(wire) \in Nat
  BY <1>3, Counts
\* Behind a message that arrived the others have the same numbers, if it counts.
<1>6. ASSUME NEW kind, Arrives(kind), kind \in {"start", "chunk"}, header' \in {Nobody, active},
             Arrived' \in Nat,
             Begun' + Arrived' = Begun + Arrived + 1
      PROVE  Coming' /\ ToCome' /\ ~doneChan
  <2>1. /\ wire # <<>> /\ Len(wire') = Len(wire) - 1 /\ wire[1].kind = kind
        /\ \A i \in 1 .. Len(wire') : i + 1 \in 1 .. Len(wire) /\ wire'[i] = wire[i + 1]
    BY <1>6, FirstArrives DEF Arrives
  <2>3. ASSUME NEW i \in Nat PROVE Number(i)' = Number(i + 1)
    <3>1. Arrived \in Nat /\ Arrived' \in Nat /\ Begun \in Nat /\ Begun' \in Nat
      BY <1>5, <1>6 DEF Begun
    <3>2. Begun' + Arrived' + i = Begun + Arrived + (i + 1) 
      <4>1. PICK a \in Nat, b \in Nat, c \in Nat, d \in Nat :
                a = Begun /\ b = Arrived /\ c = Begun' /\ d = Arrived'
        BY <3>1
      <4>2. c + d = a + b + 1 BY <1>6, <4>1
      <4>3. c + d + i = a + b + (i + 1) BY <4>2
      <4> QED BY <4>1, <4>3
    <3> QED BY <3>2 DEF Number
  <2>4. Coming'
    <3> SUFFICES ASSUME NEW i \in 1 .. Len(wire')
                 PROVE  /\ wire'[i].req = active
                        /\ wire'[i].kind = "start" => Number(i)' = 1
                        /\ wire'[i].kind = "chunk" => wire'[i].n + 1 = Number(i)'
                        /\ wire'[i].kind = "end" => Number(i)' = Chunks + 2
                        /\ wire'[i].kind \in {"end", "fail"} => i = Len(wire') /\ todo' = <<>>
      BY <1>2 DEF Coming
    <3>1. i \in Nat /\ i + 1 \in 1 .. Len(wire) /\ wire'[i] = wire[i + 1] BY <2>1
    <3>2. Number(i)' = Number(i + 1) BY <2>3, <3>1
    <3>3. i + 1 = Len(wire) => i = Len(wire') BY <1>5, <2>1, <3>1
    <3> QED BY <1>2, <1>3, <3>1, <3>2, <3>3 DEF UnderWay, Coming
  <2>5. ToCome'
    <3>1. Arrived \in Nat /\ Arrived' \in Nat /\ Begun \in Nat /\ Begun' \in Nat
      BY <1>5, <1>6 DEF Begun
    <3>2. /\ Number(Len(wire) + 1) = Begun + Arrived + (Len(wire) + 1)
          /\ Number(Len(wire) + 1)' = Begun' + Arrived' + (Len(wire') + 1)
      BY DEF Number
    <3>3. Len(wire) = Len(wire') + 1 /\ Len(wire) + 1 \in Nat /\ Len(wire') + 1 \in Nat
      BY <1>5, <2>1
    <3>4. Number(Len(wire) + 1)' = Number(Len(wire) + 1)
      <4>1. PICK a \in Nat, b \in Nat, c \in Nat, d \in Nat, i \in Nat :
                /\ a = Begun /\ b = Arrived /\ c = Begun' /\ d = Arrived'
                /\ i = Len(wire') + 1 /\ i + 1 = Len(wire) + 1
        BY <3>1, <3>3
      <4>2. c + d = a + b + 1 BY <1>6, <4>1
      <4>3. c + d + i = a + b + (i + 1) BY <4>2
      <4> QED BY <3>2, <4>1, <4>3
    <3> QED BY <1>2, <1>3, <3>4 DEF UnderWay, ToCome
  <2>6. ~doneChan BY <1>3, <2>1 DEF UnderWay, AllThere
  <2> QED BY <2>4, <2>5, <2>6
<1>7. CASE ReceiveStart
  <2>1. /\ Arrives("start") /\ header' = wire[1].req /\ 1 \in 1 .. Len(wire)
        /\ wire[1].kind = "start"
        /\ UNCHANGED <<chunkChan, doneChan, blocked>>
    <3>1. Arrives("start") BY <1>7 DEF ReceiveStart
    <3> QED BY <1>3, <1>7, <3>1, FirstArrives DEF ReceiveStart
  <2>2. header' = active /\ Number(1) = 1
    BY <1>3, <2>1 DEF UnderWay, Coming
  <2>3. Arrived' = Arrived /\ Waits' = Waits /\ Arrived = 0 /\ header = Nobody
    <3>1. Arrived' = Arrived /\ Waits' = Waits BY <1>2, <1>4, <2>1 DEF Arrived, Waits
    <3>2. header = Nobody /\ Arrived = 0 BY <1>5, <2>2 DEF Number, Begun
    <3> QED BY <3>1, <3>2
  <2>4. Coming' /\ ToCome' /\ ~doneChan
    <3>1. header' # Nobody BY <1>3, <2>2
    <3>2. Arrived' \in Nat /\ Begun' + Arrived' = Begun + Arrived + 1
      BY <1>5, <2>3, <3>1 DEF Begun
    <3> QED BY <1>6, <2>1, <2>2, <2>3, <3>2
  <2>5. Contiguous'
    BY <1>2, <1>3, <1>4, <2>1, <2>3 DEF UnderWay, Contiguous
  <2> QED BY <1>2, <1>3, <2>1, <2>2, <2>3, <2>4, <2>5 DEF UnderWay, AllThere
<1>8. CASE ReceiveChunk
  <2> DEFINE part == Part(Head(wire))
  <2>1. /\ Arrives("chunk") /\ blocked = NotBlocked
        /\ chunkChan' = IF Room THEN Append(chunkChan, part) ELSE chunkChan
        /\ blocked' = IF ~Room THEN [to |-> active, part |-> part] ELSE NotBlocked
        /\ UNCHANGED <<doneChan, header>>
    BY <1>3, <1>8 DEF ReceiveChunk, Part, Arrives
  <2>2. /\ wire[1] = Head(wire) /\ wire[1].kind = "chunk" /\ 1 \in 1 .. Len(wire)
    BY <2>1, FirstArrives
  <2>3. part = [req |-> active, n |-> wire[1].n] /\ part \in Parts /\ wire[1].n + 1 = Number(1)
    <3>1. part \in Parts BY <2>2 DEF IInv, WireInOrder, SentParts
    <3> QED BY <1>3, <2>2, <3>1 DEF UnderWay, Coming, Part
  <2>4. header # Nobody /\ wire[1].n = Arrived + 1
    <3>1. wire[1].n >= 1 /\ wire[1].n \in Nat BY <2>3, BoundsAssumption DEF Parts
    <3>2. wire[1].n + 1 = Begun + Arrived + 1 BY <2>3 DEF Number
    <3>3. header # Nobody
      <4>1. CASE header = Nobody
        <5>1. Begun = 0 /\ Arrived = 0 BY <1>3, <4>1 DEF UnderWay, Begun
        <5> QED BY <3>1, <3>2, <5>1
      <4> QED BY <4>1
    <3>4. Begun = 1 BY <3>3 DEF Begun
    <3> QED BY <1>5, <3>1, <3>2, <3>3, <3>4
  <2>5. Waits = 0 /\ Arrived = Wrote + InHand + Len(chunkChan)
    BY <1>5, <2>1 DEF Waits, Arrived
  <2> HIDE DEF part
  <2>6. CASE Room
    <3>1. /\ chunkChan' = Append(chunkChan, part) /\ blocked' = NotBlocked
          /\ Len(chunkChan') = Len(chunkChan) + 1
          /\ \A i \in 1 .. Len(chunkChan') :
                \/ i \in 1 .. Len(chunkChan) /\ chunkChan'[i] = chunkChan[i]
                \/ i = Len(chunkChan) + 1 /\ chunkChan'[i] = part
      BY <1>3, <2>1, <2>3, <2>6, Counts, AppendSteps
    <3>2. Waits' = 0 /\ Arrived' = Arrived + 1
      <4>1. Waits' = 0 BY <3>1 DEF Waits
      <4>2. Arrived' = Wrote + InHand + Len(chunkChan') + Waits'
        BY <1>2, <1>4 DEF Arrived
      <4>3. Arrived' = Wrote + InHand + (Len(chunkChan) + 1) + 0 BY <3>1, <4>1, <4>2
      <4> QED BY <1>5, <2>5, <4>1, <4>3
    <3>3. ASSUME NEW i \in 1 .. Len(chunkChan')
          PROVE  chunkChan'[i] = [req |-> active, n |-> Wrote + InHand + i]
      <4>1. CASE i \in 1 .. Len(chunkChan) /\ chunkChan'[i] = chunkChan[i]
        BY <1>3, <4>1 DEF UnderWay, Contiguous
      <4>2. CASE i = Len(chunkChan) + 1 /\ chunkChan'[i] = part
        <5>1. wire[1].n = Wrote + InHand + Len(chunkChan) + 1 BY <2>4, <2>5
        <5>2. wire[1].n = Wrote + InHand + i BY <1>5, <4>2, <5>1
        <5> QED BY <2>3, <4>2, <5>2
      <4> QED BY <3>1, <4>1, <4>2
    <3>4. Contiguous' BY <1>2, <1>3, <1>4, <3>1, <3>3 DEF UnderWay, Contiguous
    <3>5. Coming' /\ ToCome' /\ ~doneChan
      <4>1. Begun' = Begun /\ Begun \in Nat BY <2>1 DEF Begun
      <4>2. Arrived' \in Nat /\ Begun' + Arrived' = Begun + Arrived + 1
        BY <1>5, <3>2, <4>1, Sums
      <4>3. header' \in {Nobody, active} BY <1>3, <2>1 DEF UnderWay
      <4> QED BY <1>6, <2>1, <4>2, <4>3
    <3> QED BY <1>2, <1>3, <2>1, <2>4, <3>4, <3>5 DEF UnderWay, AllThere
  <2>7. CASE ~Room
    <3>1. chunkChan' = chunkChan /\ blocked' = [to |-> active, part |-> part] BY <2>1, <2>7
    <3>2. Waits' = 1
      <4>1. blocked' # NotBlocked BY <1>3, <3>1 DEF NotBlocked
      <4> QED BY <4>1 DEF Waits
    <3>3. Arrived' = Arrived + 1 BY <1>2, <1>4, <1>5, <2>5, <3>1, <3>2 DEF Arrived
    <3>4. Contiguous'
      <4>1. blocked' = [to |-> active, part |-> [req |-> active, n |-> Arrived']]
        BY <2>3, <2>4, <3>1, <3>3
      <4> QED BY <1>2, <1>3, <1>4, <3>1, <4>1 DEF UnderWay, Contiguous
    <3>5. Coming' /\ ToCome' /\ ~doneChan
      <4>1. Begun' = Begun /\ Begun \in Nat BY <2>1 DEF Begun
      <4>2. Arrived' \in Nat /\ Begun' + Arrived' = Begun + Arrived + 1
        BY <1>5, <3>3, <4>1, Sums
      <4>3. header' \in {Nobody, active} BY <1>3, <2>1 DEF UnderWay
      <4> QED BY <1>6, <2>1, <4>2, <4>3
    <3> QED BY <1>2, <1>3, <2>1, <2>4, <3>4, <3>5 DEF UnderWay, AllThere
  <2> QED BY <2>6, <2>7
<1>9. CASE ReceiveEnd \/ ReceiveFail
  <2>1. PICK kind \in {"end", "fail"} : Arrives(kind)
    BY <1>9 DEF ReceiveEnd, ReceiveFail
  <2>2. /\ wire[1].kind = kind /\ 1 \in 1 .. Len(wire) /\ Len(wire') = Len(wire) - 1
        /\ blocked = NotBlocked
    BY <2>1, FirstArrives
  <2>3. UNCHANGED <<chunkChan, header, blocked>>
    BY <1>9 DEF ReceiveEnd, ReceiveFail
  <2>4. Len(wire) = 1 /\ todo = <<>> /\ (kind = "end" => Number(1) = Chunks + 2)
    BY <1>3, <2>2 DEF UnderWay, Coming
  <2>5. wire' = <<>>
    <3>1. wire' \in Seq(Messages) /\ Len(wire') = 0
      BY <2>2, <2>4, TypesOfReceiver DEF TypeOK
    <3> QED BY <3>1
  <2>6. Arrived' = Arrived /\ Waits' = Waits /\ Waits = 0
    BY <1>2, <1>4, <2>2, <2>3 DEF Arrived, Waits
  <2>7. ~doneChan
    BY <1>3, <2>2 DEF UnderWay, AllThere
  <2>8. doneChan' => Arrived = Chunks
    <3>1. CASE ReceiveFail BY <2>7, <3>1 DEF ReceiveFail
    <3>2. CASE ReceiveEnd
      <4>1. Number(1) = Chunks + 2
        <5>1. Arrives("end") BY <3>2 DEF ReceiveEnd
        <5>2. wire[1].kind = "end" BY <5>1, FirstArrives
        <5> QED BY <2>2, <2>4, <5>2
      <4>2. header # Nobody BY <1>3, <1>5, <4>1, BoundsAssumption DEF UnderWay, Number, Begun
      <4> QED BY <1>5, <4>1, <4>2, BoundsAssumption DEF Number, Begun
    <3> QED BY <1>9, <3>1, <3>2
  <2>9. Contiguous' BY <1>2, <1>3, <1>4, <2>3, <2>6 DEF UnderWay, Contiguous
  <2>10. Coming' /\ ToCome' BY <1>2, <2>4, <2>5 DEF Coming, ToCome
  <2> QED
    BY <1>2, <1>3, <2>3, <2>4, <2>5, <2>6, <2>7, <2>8, <2>9, <2>10 DEF UnderWay, AllThere
<1>10. CASE Deliver
  <2>1. /\ blocked # NotBlocked /\ chunkChan' = Append(chunkChan, blocked.part)
        /\ blocked' = NotBlocked /\ UNCHANGED <<doneChan, header, wire>>
    BY <1>10 DEF Deliver, cameraVars
  <2>2. Waits = 1 /\ Waits' = 0 BY <2>1 DEF Waits
  <2>3. blocked.part = [req |-> active, n |-> Arrived] /\ blocked.part \in Parts
    BY <1>3, <2>1 DEF UnderWay, Contiguous, IInv, TypeOK
  <2>4. /\ Len(chunkChan') = Len(chunkChan) + 1
        /\ \A i \in 1 .. Len(chunkChan') :
              \/ i \in 1 .. Len(chunkChan) /\ chunkChan'[i] = chunkChan[i]
              \/ i = Len(chunkChan) + 1 /\ chunkChan'[i] = blocked.part
    BY <1>3, <2>1, <2>3, Counts, AppendSteps
  <2>5. Arrived' = Arrived /\ Arrived = Wrote + InHand + Len(chunkChan) + 1
    <3>1. Arrived' = Wrote + InHand + (Len(chunkChan) + 1) + 0
      BY <1>2, <1>4, <2>2, <2>4 DEF Arrived
    <3>2. Arrived = Wrote + InHand + Len(chunkChan) + 1 BY <2>2 DEF Arrived
    <3> QED BY <1>5, <3>1, <3>2
  <2>6. ASSUME NEW i \in 1 .. Len(chunkChan')
        PROVE  chunkChan'[i] = [req |-> active, n |-> Wrote + InHand + i]
    <3>1. CASE i \in 1 .. Len(chunkChan) /\ chunkChan'[i] = chunkChan[i]
      BY <1>3, <3>1 DEF UnderWay, Contiguous
    <3>2. CASE i = Len(chunkChan) + 1 /\ chunkChan'[i] = blocked.part
      <4>1. Arrived = Wrote + InHand + i BY <1>5, <2>5, <3>2
      <4> QED BY <2>3, <3>2, <4>1
    <3> QED BY <2>4, <3>1, <3>2
  <2>7. Contiguous' BY <1>2, <1>3, <1>4, <2>1, <2>6 DEF UnderWay, Contiguous
  <2>8. Coming' /\ ToCome' BY <1>2, <1>3, <2>1, <2>5 DEF UnderWay, Coming, ToCome, Number, Begun
  <2> QED BY <1>2, <1>3, <2>1, <2>2, <2>5, <2>7, <2>8 DEF UnderWay, AllThere
<1>11. CASE StallTimeout
  <2>1. blocked # NotBlocked /\ blocked.to = active BY <1>3, <1>11 DEF StallTimeout, UnderWay, Contiguous
  <2> QED BY <1>2, <1>11, <2>1 DEF StallTimeout
<1> QED BY <1>2, <1>7, <1>8, <1>9, <1>10, <1>11 DEF Receiver

\* The camera sends the next message of the file, or none of it any more.
LEMMA CleanCameraStep ==
    ASSUME IInv, UnderWay, active # Nobody, CameraSends \/ CameraFails
    PROVE  UnderWay'
<1>1. /\ UNCHANGED <<active, place, inWrite, out, chunkChan, blocked, header, doneChan>>
      /\ todo = <<active>> /\ sent + 1 = Number(Len(wire) + 1)
      /\ wire \in Seq(Messages) /\ Len(wire) \in Nat /\ Arrived \in Nat /\ sent \in Nat
      /\ active \in Requests /\ Head(todo) = active /\ Tail(todo) = <<>>
  <2>1. /\ UNCHANGED <<active, place, inWrite, out, chunkChan, blocked, header, doneChan>>
        /\ todo # <<>>
    BY DEF CameraSends, CameraFails, CameraTurn, callerVars, transferVars
  <2>2. todo = <<active>> /\ sent + 1 = Number(Len(wire) + 1)
    BY <2>1 DEF UnderWay, ToCome
  <2>3. sent \in Nat BY BoundsAssumption DEF IInv, TypeOK
  <2> QED BY <2>1, <2>2, <2>3, Counts
<1>2. InHand' = InHand /\ Waits' = Waits /\ Wrote' = Wrote /\ Arrived' = Arrived /\ Begun' = Begun
  BY <1>1 DEF InHand, Waits, Wrote, Arrived, Begun
<1>3. \A i : Number(i)' = Number(i) BY <1>2 DEF Number
<1>4. Contiguous' BY <1>1, <1>2 DEF UnderWay, Contiguous
<1>5. ~doneChan BY <1>1 DEF UnderWay, AllThere
<1>6. Begun \in Nat /\ (header = Nobody => Arrived = 0 /\ Begun = 0)
  BY DEF UnderWay, Begun
\* A message with its number fits behind those on their way.
<1>7. ASSUME NEW m \in Messages, wire' = Append(wire, m), m.req = active,
             m.kind = "start" => sent = 0,
             m.kind = "chunk" => m.n = sent,
             m.kind = "end" => sent = Chunks + 1,
             m.kind \in {"end", "fail"} => todo' = <<>>
      PROVE  Coming'
  <2>1. /\ Len(wire') = Len(wire) + 1
        /\ \A i \in 1 .. Len(wire') : \/ i \in 1 .. Len(wire) /\ wire'[i] = wire[i]
                                      \/ i = Len(wire) + 1 /\ wire'[i] = m
    BY <1>1, <1>7, AppendSteps
  <2>2. ASSUME NEW i \in 1 .. Len(wire)
        PROVE  wire[i].kind \notin {"end", "fail"}
    BY <1>1 DEF UnderWay, Coming
  <2> SUFFICES ASSUME NEW i \in 1 .. Len(wire')
               PROVE  /\ wire'[i].req = active
                      /\ wire'[i].kind = "start" => Number(i) = 1
                      /\ wire'[i].kind = "chunk" => wire'[i].n + 1 = Number(i)
                      /\ wire'[i].kind = "end" => Number(i) = Chunks + 2
                      /\ wire'[i].kind \in {"end", "fail"} => i = Len(wire') /\ todo' = <<>>
    BY <1>1, <1>3 DEF Coming
  <2>4. CASE i \in 1 .. Len(wire) /\ wire'[i] = wire[i]
    BY <2>2, <2>4 DEF UnderWay, Coming
  <2>5. CASE i = Len(wire) + 1 /\ wire'[i] = m
    <3>1. Number(i) = sent + 1 BY <1>1, <2>5
    <3>2. sent = Chunks + 1 => sent + 1 = Chunks + 2 BY <1>1, BoundsAssumption
    <3>3. sent = 0 => sent + 1 = 1 BY <1>1
    <3> QED BY <1>7, <2>1, <2>5, <3>1, <3>2, <3>3
  <2> QED BY <2>1, <2>4, <2>5
<1>8. CASE CameraFails
  <2>1. todo' = <<>> BY <1>1, <1>8 DEF CameraFails
  <2>2. Coming'
    <3>1. CASE wire' = wire BY <1>1, <1>3, <3>1 DEF UnderWay, Coming
    <3>2. CASE Send("fail", 0)
      <4> DEFINE m == [req |-> active, kind |-> "fail", n |-> 0]
      <4>1. m \in Messages /\ wire' = Append(wire, m)
        BY <1>1, <3>2, BoundsAssumption DEF Send, Messages
      <4>2. m.req = active /\ m.kind = "fail" OBVIOUS
      <4> HIDE DEF m
      <4> QED BY <1>7, <2>1, <4>1, <4>2
    <3> QED BY <1>8, <3>1, <3>2 DEF CameraFails
  <2> QED BY <1>1, <1>2, <1>4, <1>5, <2>1, <2>2 DEF UnderWay, ToCome, AllThere
<1>9. CASE CameraSends
  <2>1. PICK kind \in {"start", "chunk", "end"}, n \in {0, sent} :
            /\ Send(kind, n)
            /\ kind = "start" => sent = 0
            /\ kind = "chunk" => sent \in 1 .. Chunks /\ n = sent
            /\ kind = "end" <=> sent = Chunks + 1
            /\ kind # "chunk" => n = 0
    BY <1>1, <1>9, BoundsAssumption DEF CameraSends
  <2> DEFINE m == [req |-> active, kind |-> kind, n |-> n]
  <2>2. m \in Messages /\ wire' = Append(wire, m)
    BY <1>1, <2>1, BoundsAssumption DEF Send, Messages
  <2>3. m.req = active /\ m.kind = kind /\ m.n = n OBVIOUS
  <2>4. Len(wire') = Len(wire) + 1 BY <1>1, <2>2, AppendSteps
  <2>5. IF sent = Chunks + 1 THEN todo' = <<>> ELSE todo' = todo /\ sent' = sent + 1
    BY <1>1, <1>9 DEF CameraSends
  <2> HIDE DEF m
  <2>6. Coming' BY <1>7, <2>1, <2>2, <2>3, <2>5
  <2>7. ToCome'
    <3>1. CASE sent = Chunks + 1 BY <2>5, <3>1 DEF ToCome
    <3>2. CASE sent # Chunks + 1
      <4>1. todo' = todo /\ sent' = sent + 1 BY <2>5, <3>2
      <4>2. sent' + 1 = Begun + Arrived + (Len(wire) + 1) + 1
        BY <1>1, <4>1 DEF Number
      <4>3. Number(Len(wire) + 1)' = Begun + Arrived + (Len(wire) + 1 + 1)
        BY <1>2, <2>4 DEF Number
      <4>4. Begun + Arrived \in Nat /\ Len(wire) + 1 \in Nat BY <1>1, <1>6
      <4>5. sent' + 1 = Number(Len(wire) + 1)' BY <4>2, <4>3, <4>4, Sums
      <4> QED BY <1>1, <4>1, <4>5 DEF ToCome
    <3> QED BY <3>1, <3>2
  <2> QED BY <1>1, <1>2, <1>4, <1>5, <2>6, <2>7 DEF UnderWay, AllThere
<1> QED BY <1>8, <1>9

LEMMA CleanBegin ==
    ASSUME IInv, Begin, active' \in clean' PROVE UnderWay'
<1>1. /\ requested + 1 \in Requests /\ requested + 1 > requested /\ active = Nobody
      /\ requested + 1 \notin clean /\ requested + 1 # Nobody
  <2>1. requested + 1 \in Requests /\ requested + 1 > requested /\ active = Nobody
        /\ requested \in Nat
    BY BoundsAssumption DEF Begin, IInv, TypeOK, Requests
  <2>2. requested + 1 \notin clean
    <3>1. requested + 1 \in clean => requested + 1 <= requested BY DEF IInv, NotYet
    <3> QED BY <2>1, <3>1
  <2> QED BY <2>1, <2>2 DEF Nobody
<1>2. /\ active' = requested + 1 /\ place' = "pump" /\ out' = out /\ blocked' = blocked
      /\ chunkChan' = <<>> /\ doneChan' = FALSE /\ header' = Nobody /\ inWrite' = NoPart
      /\ wire' = wire /\ sent' = sent /\ todo' = Append(todo, requested + 1)
  BY <1>1 DEF Begin, Fresh, IInv, TypeOK
<1>3. todo = <<>> /\ wire = <<>> /\ blocked = NotBlocked
  <2>1. requested + 1 \in (IF todo = <<>> /\ wire = <<>> /\ blocked = NotBlocked
                           THEN clean \cup {requested + 1} ELSE clean)
    BY <1>2 DEF Begin
  <2> QED BY <1>1, <2>1
<1>4. sent = 0 /\ todo' = <<requested + 1>> /\ out[requested + 1] = <<>>
  BY <1>1, <1>2, <1>3 DEF IInv, InTurn, NotYet
<1>5. Arrived' = 0 /\ Waits' = 0 /\ Begun' = 0
  <2>1. Wrote' = 0 /\ InHand' = 0 /\ Waits' = 0 /\ Begun' = 0 /\ Len(chunkChan') = 0
    BY <1>2, <1>3, <1>4 DEF Wrote, InHand, Waits, Begun
  <2> QED BY <2>1 DEF Arrived
<1>6. sent' + 1 = Number(Len(wire) + 1)'
  <2>1. Number(Len(wire) + 1)' = 0 + 0 + (Len(wire') + 1) BY <1>5 DEF Number
  <2> QED BY <1>2, <1>3, <1>4, <2>1
<1> QED
  BY <1>2, <1>3, <1>4, <1>5, <1>6
  DEF UnderWay, Contiguous, Coming, ToCome, AllThere, Wrote

\* A call that returns without an error has written what the camera sent, and the camera
\* sent all of it.
LEMMA DrainedIsWhole ==
    ASSUME IInv, UnderWay, Drained PROVE out[active] = WholeFile(active)
<1>1. /\ place = "drain" /\ inWrite = NoPart /\ chunkChan = <<>> BY DEF Drained
<1>2. active # Nobody BY <1>1 DEF IInv, TypeOK
<1>3. Waits = 0 /\ Arrived = Chunks BY <1>1 DEF UnderWay, AllThere
<1>4. Wrote = Chunks
  <2>1. InHand = 0 /\ Len(chunkChan) = 0 BY <1>1 DEF InHand
  <2>2. Wrote \in Nat BY <1>2, Counts
  <2> QED BY <1>3, <2>1, <2>2 DEF Arrived
<1>5. out[active] \in Seq(Parts) /\ Len(out[active]) = Chunks BY <1>2, <1>4, Counts DEF Wrote
<1>6. \A i \in 1 .. Chunks : out[active][i] = [req |-> active, n |-> i]
  BY <1>5 DEF UnderWay, Contiguous
<1> QED BY <1>5, <1>6 DEF WholeFile

LEMMA CompleteKept ==
    ASSUME IInv, CleanInv, [Next]_vars PROVE CompleteWhenClean'
<1>1. clean \subseteq Requests /\ Nobody \notin clean BY NobodyUnclean
<1>2. /\ result \in [Requests -> {"none", "running", "ok", "failed"}]
      /\ told \in [Requests -> Requests \cup {Nobody}] /\ out \in [Requests -> Seq(Parts)]
      /\ active \in Requests \cup {Nobody}
      /\ place \in {"pump", "drain"} => active # Nobody
      /\ active # Nobody => result[active] = "running"
  BY DEF IInv, TypeOK, NotYet, Requests, Nobody
<1>3. CASE UNCHANGED <<result, told, out, clean>> /\ dropped \subseteq dropped'
  BY <1>3 DEF CleanInv, CompleteWhenClean
<1>4. CASE Begin \/ SendFails
  <2>1. requested + 1 \in Requests /\ requested + 1 > requested
    BY <1>4, BoundsAssumption DEF Begin, SendFails, IInv, TypeOK, Requests
  <2>2. /\ told' = told /\ out' = out /\ dropped' = dropped
        /\ clean' \subseteq clean \cup {requested + 1}
        /\ result' \in { [result EXCEPT ![requested + 1] = v] : v \in {"running", "failed"} }
    BY <1>4 DEF Begin, SendFails, histVars
  <2>3. told[requested + 1] = Nobody BY <2>1 DEF IInv, NotYet
  <2>4. result'[requested + 1] # "ok" /\ \A r \in Requests : r # requested + 1 => result'[r] = result[r]
    BY <1>2, <2>1, <2>2
  <2> QED BY <1>1, <2>2, <2>3, <2>4 DEF CleanInv, CompleteWhenClean
<1>5. CASE Take
  <2>1. /\ active \in Requests /\ UNCHANGED <<result, out, clean, dropped>>
        /\ told' = told \/ told' = [told EXCEPT ![active] = header]
    BY <1>2, <1>5 DEF Take, histVars
  <2>2. active \in clean \ dropped => header \in {Nobody, active}
    BY DEF CleanInv, UnderWay
  <2> QED BY <1>1, <1>2, <2>1, <2>2 DEF CleanInv, CompleteWhenClean
<1>6. CASE Written
  <2>1. active # Nobody BY <1>6 DEF Written, IInv, TypeOK
  <2>2. /\ UNCHANGED <<result, told, clean, dropped>>
        /\ \A r \in Requests : r # active => out'[r] = out[r]
    BY <1>2, <1>6 DEF Written, histVars
  <2> QED BY <1>1, <1>2, <2>1, <2>2 DEF CleanInv, CompleteWhenClean
<1>7. CASE WriteFails \/ GivesUp \/ ErrorReported
  <2>1. active # Nobody
    BY <1>2, <1>7 DEF WriteFails, GivesUp, ErrorReported, Waiting, IInv, TypeOK
  <2>2. /\ UNCHANGED <<told, out, clean, dropped>>
        /\ result' = [result EXCEPT ![active] = "failed"]
    BY <1>7 DEF WriteFails, GivesUp, ErrorReported, Return, histVars
  <2> QED BY <1>1, <1>2, <2>1, <2>2 DEF CleanInv, CompleteWhenClean
<1>8. CASE Drained
  <2>1. /\ UNCHANGED <<told, out, clean, dropped>>
        /\ result' = [result EXCEPT ![active] = "ok"]
    BY <1>8 DEF Drained, Return, histVars
  <2>2. active \in clean \ dropped => out[active] = WholeFile(active)
    BY <1>8, DrainedIsWhole DEF CleanInv
  <2> QED BY <1>1, <1>2, <2>1, <2>2 DEF CleanInv, CompleteWhenClean
<1>9. CASE Done \/ Receiver \/ CameraSends \/ CameraFails \/ UNCHANGED vars
  <2>1. UNCHANGED <<result, told, out, clean>> /\ dropped \subseteq dropped'
    BY <1>9
    DEF Done, Receiver, ReceiveStart, ReceiveChunk, ReceiveEnd, ReceiveSecondEnd, ReceiveFail,
        Deliver, StallTimeout, Arrives, CameraSends, CameraFails, CameraTurn, callerVars,
        histVars, vars
  <2> QED BY <1>3, <2>1
<1> QED BY <1>4, <1>5, <1>6, <1>7, <1>8, <1>9 DEF Next, Caller

LEMMA CleanKept ==
    ASSUME IInv, CleanInv, [Next]_vars PROVE CleanInv'
<1>1. CompleteWhenClean' BY CompleteKept
<1>2. ASSUME active' \in clean' \ dropped' PROVE UnderWay'
  <2>1. CASE Begin BY <1>2, <2>1, CleanBegin
  <2>2. CASE SendFails
    <3>1. active' = Nobody /\ clean' = clean
      BY <2>2 DEF SendFails, histVars, IInv, TypeOK
    <3> QED BY <1>2, <3>1, NobodyUnclean
  <2>3. CASE Caller BY <1>2, <2>3, CleanCallerStep
  <2>4. CASE Receiver BY <1>2, <2>4, CleanReceiverStep
  <2>5. CASE CameraSends \/ CameraFails
    <3>1. active' = active /\ clean' = clean /\ dropped' = dropped
      BY <2>5 DEF CameraSends, CameraFails, CameraTurn, callerVars, histVars
    <3>2. UnderWay /\ active # Nobody BY <1>2, <3>1, NobodyUnclean DEF CleanInv
    <3> QED BY <2>5, <3>2, CleanCameraStep
  <2>6. CASE UNCHANGED vars
    <3>1. UNCHANGED <<active, place, inWrite, out, chunkChan, doneChan, header, blocked, todo,
                      sent, wire, clean, dropped>>
      BY <2>6 DEF vars, callerVars, transferVars, cameraVars, histVars
    <3>2. UnderWay BY <1>2, <3>1 DEF CleanInv
    <3>3. Arrived' = Arrived /\ InHand' = InHand /\ Waits' = Waits /\ Wrote' = Wrote /\ Begun' = Begun
      BY <3>1 DEF Arrived, InHand, Waits, Wrote, Begun
    <3> QED BY <3>1, <3>2, <3>3 DEF UnderWay, Contiguous, Coming, ToCome, AllThere, Number
  <2> QED BY <2>1, <2>2, <2>3, <2>4, <2>5, <2>6 DEF Next
<1> QED BY <1>1, <1>2 DEF CleanInv

-----------------------------------------------------------------------------
\* The variables keep to their values, and a transfer that is not under way has left
\* nothing in its channels, whatever the camera sends and whenever the caller gives up.
THEOREM TypeCorrect == Spec => []TypeOK
<1>1. IInv => TypeOK BY DEF IInv
<1> QED BY <1>1, Invariance, PTL

\* Parts are written in the order the camera sent them and once, across a part that
\* waits for room, the drain and the leftovers of a transfer that was given up.
THEOREM InOrder == Spec => []WrittenInOrder
<1>1. IInv => WrittenInOrder BY DEF IInv
<1> QED BY <1>1, Invariance, PTL

\* A call that begins when the camera owes nothing, and whose parts all found room,
\* succeeds only with the whole file, under its own name.
THEOREM WholeFiles == Spec => []CompleteWhenClean
<1>1. Init => CleanInv
  BY DEF Init, CleanInv, CompleteWhenClean
<1>2. IInv /\ CleanInv /\ [Next]_vars => CleanInv' BY CleanKept
<1>3. CleanInv => CompleteWhenClean BY DEF CleanInv
<1> QED BY <1>1, <1>2, <1>3, Invariance, PTL DEF Spec
=============================================================================
