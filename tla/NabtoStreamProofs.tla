------------------------- MODULE NabtoStreamProofs -------------------------
(***************************************************************************)
(* Machine-checked: every step of the signaling stream is a step of the    *)
(* channel it promises, in both directions, for any number and size of     *)
(* messages, segments and faults.                                          *)
(***************************************************************************)
EXTENDS NabtoStream, SequenceTheorems, TLAPS

-----------------------------------------------------------------------------
(* A stream is a sequence of units without gaps. *)

Units == {u \in [of : Nat, at : Nat, body : Nat] : u.at \in 1 .. LengthUnits + u.body}

\* v comes d units after u: in the same message, or in a later one, after u's has ended.
Away(u, v, d) ==
    \/ u.of = v.of /\ u.body = v.body /\ v.at = u.at + d
    \/ u.of < v.of /\ LengthUnits + u.body + v.at <= u.at + d

\* v is the unit after u.
Follows(u, v) == Away(u, v, 1) /\ v.of <= u.of + 1

Chained(s) ==
    /\ \A i, j \in 1 .. Len(s) : i < j => Away(s[i], s[j], j - i)
    /\ \A i \in 1 .. Len(s) - 1 : Follows(s[i], s[i + 1])

Final(s) == s[Len(s)]

\* It is the last of its message; after message m, with nothing of the next.
Ends(u) == u.at = LengthUnits + u.body
Over(m) == [of |-> m, at |-> LengthUnits, body |-> 0]

(***************************************************************************)
(* One direction: m messages were delivered and buf was read after them,   *)
(* the segments D are under way, numbered from next to the one before top, *)
(* the rest of message k + 1 is still to be sent.                          *)
(***************************************************************************)

ReadTip(buf, m) == IF buf = <<>> THEN Over(m) ELSE Final(buf)

\* What comes before segment s.
Before(s, buf, m, next, D) ==
    (IF s = next THEN {ReadTip(buf, m)} ELSE {})
        \cup {Final(p.data) : p \in {q \in D : q.seq + 1 = s}}

Numbered(next, D, top) ==
    /\ next <= top
    /\ \A p \in D : next <= p.seq /\ p.seq < top
    /\ \A s \in next .. top - 1 : \E p \in D : p.seq = s

\* Before the rest of message k + 1, if any; otherwise at the end of message k.
Awaits(u, rest, k) ==
    IF rest = <<>> THEN Ends(u) /\ u.of = k ELSE Follows(u, rest[1])

Remainder(rest, k) ==
    /\ Chained(rest) /\ \A i \in 1 .. Len(rest) : rest[i].of = k + 1
    /\ \A i \in 1 .. Len(rest) : Ends(rest[i]) <=> i = Len(rest)

Flowing(buf, m, next, D, top, rest, k) ==
    /\ Chained(buf) /\ (buf # <<>> => Follows(Over(m), buf[1]))
    /\ Numbered(next, D, top)
    /\ \A p \in D : Chained(p.data) /\ p.data # <<>>
    /\ \A p \in D : \A u \in Before(p.seq, buf, m, next, D) : Follows(u, p.data[1])
    /\ \A u \in Before(top, buf, m, next, D) : Awaits(u, rest, k)
    /\ Remainder(rest, k)
    /\ \A i \in 1 .. Len(buf) : Ends(buf[i]) => buf[i].of <= k
    /\ \A p \in D : \A i \in 1 .. Len(p.data) : Ends(p.data[i]) => p.data[i].of <= k

-----------------------------------------------------------------------------
(* The inductive invariant. *)

Flags == {"syn", "ack", "synack"}
Packets == [flag : Flags, seq : Nat, nonce : BOOLEAN, data : Seq(Units)]
ACKs == {p \in Packets : p.flag = "ack"}

Types ==
    /\ phase \in Phases /\ segment \in 1 .. 2 /\ cliSeq \in Nat /\ srvSeq \in Nat
    /\ nonce = FALSE
    /\ inQ \in Seq(Packets) /\ toCli \in Seq(Packets) /\ toCam \in Seq(Packets)
    /\ unacked \in Seq(ACKs)
    /\ readBuf \in Seq(Units) /\ camBuf \in Seq(Units)
    /\ out \in Seq(Units) /\ camOut \in Seq(Units)
    /\ camSeq \in Nat /\ camNext \in Nat /\ sentUp \in Nat /\ sentDown \in Nat
    /\ gotUp \in Seq(Nat) /\ gotDown \in Seq(Nat)
    /\ {lostUp, lostDown, camOpen} \subseteq BOOLEAN

\* The segments of a queue, and that they stand in it in the order of their numbers.
Datas(q) == {q[i] : i \in {j \in 1 .. Len(q) : IsData(q[j])}}
Ascending(q) ==
    \A i, j \in 1 .. Len(q) : i < j /\ IsData(q[i]) /\ IsData(q[j]) => q[i].seq < q[j].seq

\* Before the stream is open nobody has sent a segment.
Opening == phase \in {"syn", "await", "failed"}

Quiet ==
    Opening =>
        /\ out = <<>> /\ sentUp = 0 /\ Datas(toCam) = {} /\ camBuf = <<>> /\ camNext = 2
        /\ gotUp = <<>> /\ camOut = <<>> /\ camSeq = 0 /\ unacked = <<>> /\ sentDown = 0
        /\ Datas(toCli) = {} /\ Datas(inQ) = {} /\ readBuf = <<>> /\ gotDown = <<>>

\* A SYN|ACK begins the numbering and asks for its nonce.
Greeting(q) ==
    \A i \in 1 .. Len(q) : q[i].flag = "synack" => q[i].seq = 1 /\ q[i].nonce /\ q[i].data = <<>>

\* The camera has its nonce back, or it arrives before any segment.
NonceFirst ==
    ~lostUp /\ ~Opening =>
        \/ camOpen
        \/ \E k \in 1 .. Len(toCam) : toCam[k].nonce /\ \A j \in 1 .. k : ~IsData(toCam[j])

InTurn ==
    /\ ~lostUp => Ascending(toCam)
    /\ ~lostDown => /\ Ascending(inQ) /\ Ascending(toCli)
                    /\ \A p \in Datas(inQ), q \in Datas(toCli) : p.seq < q.seq

DownFlows ==
    ~lostDown => Flowing(readBuf, Len(gotDown), IF Opening THEN 2 ELSE srvSeq + 1,
                         Datas(inQ) \cup Datas(toCli), camSeq + 2, camOut, sentDown)

UpFlows ==
    ~lostUp => Flowing(camBuf, Len(gotUp), camNext, Datas(toCam), IF Opening THEN 2 ELSE cliSeq,
                       out, sentUp)

IInv ==
    /\ Types
    /\ Quiet
    /\ Greeting(inQ) /\ Greeting(toCli)
    /\ NonceFirst
    /\ InTurn
    /\ DownFlows
    /\ UpFlows

-----------------------------------------------------------------------------
(* Units and chains of them. *)

\* Distances add up.
LEMMA AwayJoins ==
    ASSUME NEW u \in Units, NEW v \in Units, NEW w \in Units, NEW d \in Nat, NEW e \in Nat,
           Away(u, v, d), Away(v, w, e)
    PROVE  Away(u, w, d + e)
BY DEF Away, Units, LengthUnits

\* A unit is no distance away from itself; the units of a message follow one another.
LEMMA UnitSteps ==
    ASSUME NEW u \in Units
    PROVE  /\ Away(u, u, 0) /\ u.of \in Nat /\ u.at \in Nat /\ u.body \in Nat /\ 1 <= u.at
           /\ u.at <= LengthUnits + u.body
           /\ \A v \in Units : Follows(u, v) => Away(u, v, 1)
           /\ \A v \in Units : Ends(u) => (Follows(u, v) <=> v.of = u.of + 1 /\ v.at = 1)
BY DEF Away, Units, LengthUnits, Follows, Ends

\* What begins a message follows the one before.
LEMMA OverSteps ==
    ASSUME NEW m \in Nat
    PROVE  /\ Over(m) \in Units /\ Ends(Over(m)) /\ Over(m).of = m
           /\ \A v \in Units : Follows(Over(m), v) <=> v.of = m + 1 /\ v.at = 1
<1>1. Over(m) \in Units /\ Ends(Over(m)) /\ Over(m).of = m
  BY DEF Over, Units, Ends, LengthUnits
<1> QED BY <1>1, UnitSteps

\* Two units of a chain.
LEMMA ChainSteps ==
    ASSUME NEW s \in Seq(Units), Chained(s), NEW i \in 1 .. Len(s), NEW j \in 1 .. Len(s),
           NEW d \in Nat, j = i + d
    PROVE  s[i] \in Units /\ s[j] \in Units /\ Away(s[i], s[j], d) /\ (d = 1 => Follows(s[i], s[j]))
<1>1. s[i] \in Units /\ s[j] \in Units OBVIOUS
<1>2. i \in Nat /\ j \in Nat /\ Len(s) \in Nat OBVIOUS
<1>3. CASE d = 0
  <2>1. i = j BY <1>2, <1>3
  <2> QED BY <1>1, <1>3, <2>1, UnitSteps
<1>4. CASE d # 0
  <2>1. i < j /\ j - i = d BY <1>2, <1>4
  <2>2. Away(s[i], s[j], j - i) BY <2>1 DEF Chained
  <2>3. d = 1 => i \in 1 .. Len(s) - 1 /\ j = i + 1 BY <1>2, <2>1
  <2> QED BY <1>1, <2>1, <2>2, <2>3 DEF Chained
<1> QED BY <1>3, <1>4

\* Two chains of which the second follows the first are one.
LEMMA ChainJoins ==
    ASSUME NEW s \in Seq(Units), NEW t \in Seq(Units), s # <<>>, t # <<>>,
           Chained(s), Chained(t), Follows(Final(s), t[1])
    PROVE  Chained(s \o t)
<1> DEFINE c == s \o t
<1>0. PICK k \in Nat, l \in Nat : k = Len(s) /\ l = Len(t) /\ 1 <= k /\ 1 <= l OBVIOUS
<1>1. /\ Len(c) = k + l
      /\ \A i \in 1 .. k : c[i] = s[i]
      /\ \A i \in 1 .. l : c[k + i] = t[i]
  BY <1>0
<1>2. /\ \A i \in 1 .. k : s[i] \in Units
      /\ \A i \in 1 .. l : t[i] \in Units
  BY <1>0
<1> HIDE DEF c
<1>3. Final(s) = s[k] /\ k \in 1 .. k /\ 1 \in 1 .. l BY <1>0 DEF Final
<1>4. ASSUME NEW i \in 1 .. k + l, NEW j \in 1 .. k + l, i < j PROVE Away(c[i], c[j], j - i)
  <2>0. PICK d \in Nat : d = j - i BY <1>0, <1>4
  <2>1. CASE j <= k
    <3>1. i \in 1 .. k /\ j \in 1 .. k /\ j = i + d BY <1>4, <2>0, <2>1
    <3> QED BY <1>0, <1>1, <2>0, <3>1, ChainSteps
  <2>2. CASE i > k
    <3>1. PICK a \in 1 .. l, b \in 1 .. l : i = k + a /\ j = k + b /\ b = a + d
      <4>1. i - k \in 1 .. l /\ j - k \in 1 .. l /\ j - k = (i - k) + d BY <1>0, <1>4, <2>0, <2>2
      <4>2. i = k + (i - k) /\ j = k + (j - k) BY <1>0, <1>4
      <4> QED BY <4>1, <4>2
    <3>2. c[i] = t[a] /\ c[j] = t[b] BY <1>1, <3>1
    <3>3. Away(t[a], t[b], d) BY <1>0, <3>1, ChainSteps
    <3> QED BY <2>0, <3>2, <3>3
  <2>3. CASE i <= k /\ j > k
    <3>1. PICK a \in Nat, e \in 1 .. l : k = i + a /\ j = k + e
      <4>1. k - i \in Nat /\ j - k \in 1 .. l BY <1>0, <1>4, <2>3
      <4>2. k = i + (k - i) /\ j = k + (j - k) BY <1>0, <1>4
      <4> QED BY <4>1, <4>2
    <3>2. PICK b \in Nat : e = 1 + b
      <4>1. e - 1 \in Nat /\ e = 1 + (e - 1) BY <1>0, <3>1
      <4> QED BY <4>1
    <3>3. i \in 1 .. k BY <1>0, <1>4, <2>3
    <3>4. c[i] = s[i] /\ c[j] = t[e] BY <1>1, <3>1, <3>3
    <3>5. Away(s[i], s[k], a) BY <1>0, <1>3, <3>1, <3>3, ChainSteps
    <3>6. Away(t[1], t[e], b) BY <1>0, <1>3, <3>1, <3>2, ChainSteps
    <3>7. s[i] \in Units /\ s[k] \in Units /\ t[1] \in Units /\ t[e] \in Units
      BY <1>2, <1>3, <3>1, <3>3
    <3>8. Away(s[k], t[1], 1) BY <1>3, <3>7, UnitSteps
    <3>9. Away(s[i], t[1], a + 1) BY <3>1, <3>5, <3>7, <3>8, AwayJoins
    <3>10. a + 1 \in Nat /\ (a + 1) + b = d BY <1>0, <2>0, <3>1, <3>2
    <3>11. Away(s[i], t[e], (a + 1) + b) BY <3>2, <3>6, <3>7, <3>9, <3>10, AwayJoins
    <3> QED BY <2>0, <3>4, <3>10, <3>11
  <2> QED BY <1>0, <2>1, <2>2, <2>3
<1>5. ASSUME NEW i \in 1 .. k + l - 1 PROVE Follows(c[i], c[i + 1])
  <2>1. CASE i < k
    <3>1. i \in 1 .. k /\ i + 1 \in 1 .. k BY <1>0, <1>5, <2>1
    <3> QED BY <1>0, <1>1, <3>1, ChainSteps
  <2>2. CASE i = k
    BY <1>0, <1>1, <1>3, <2>2
  <2>3. CASE i > k
    <3>1. PICK a \in 1 .. l : i = k + a /\ a + 1 \in 1 .. l
      <4>1. i - k \in 1 .. l /\ (i - k) + 1 \in 1 .. l /\ i = k + (i - k) BY <1>0, <1>5, <2>3
      <4> QED BY <4>1
    <3>2. i + 1 = k + (a + 1) BY <1>0, <3>1
    <3>3. c[i] = t[a] /\ c[i + 1] = t[a + 1] BY <1>1, <3>1, <3>2
    <3> QED BY <1>0, <3>1, <3>3, ChainSteps
  <2> QED BY <1>0, <2>1, <2>2, <2>3
<1>6. Chained(c) BY <1>0, <1>1, <1>4, <1>5 DEF Chained
<1> QED BY <1>6 DEF c

\* Part of a sequence.
LEMMA PartSteps ==
    ASSUME NEW S, NEW s \in Seq(S), NEW a \in 1 .. Len(s) + 1, NEW b \in 0 .. Len(s), a <= b + 1
    PROVE  /\ SubSeq(s, a, b) \in Seq(S) /\ Len(SubSeq(s, a, b)) = b + 1 - a
           /\ \A i \in 1 .. b + 1 - a : /\ SubSeq(s, a, b)[i] = s[a + i - 1]
                                        /\ a + i - 1 \in 1 .. Len(s)
<1>1. \A i \in a .. b : s[i] \in S OBVIOUS
<1> QED BY <1>1

\* Part of a chain is one.
LEMMA ChainPart ==
    ASSUME NEW s \in Seq(Units), NEW a \in 1 .. Len(s) + 1, NEW b \in 0 .. Len(s), a <= b + 1,
           Chained(s)
    PROVE  Chained(SubSeq(s, a, b))
<1> DEFINE c == SubSeq(s, a, b)
<1>1. /\ Len(c) = b + 1 - a /\ Len(s) \in Nat
      /\ \A i \in 1 .. Len(c) : c[i] = s[a + i - 1] /\ a + i - 1 \in 1 .. Len(s)
  BY PartSteps
<1> HIDE DEF c
<1>2. ASSUME NEW i \in 1 .. Len(c), NEW j \in 1 .. Len(c), i < j PROVE Away(c[i], c[j], j - i)
  <2>1. PICK x \in 1 .. Len(s), y \in 1 .. Len(s) : x = a + i - 1 /\ y = a + j - 1 BY <1>1
  <2>2. x < y /\ y - x = j - i BY <1>1, <1>2, <2>1
  <2> QED BY <1>1, <2>1, <2>2 DEF Chained
<1>3. ASSUME NEW i \in 1 .. Len(c) - 1 PROVE Follows(c[i], c[i + 1])
  <2>1. i \in 1 .. Len(c) /\ i + 1 \in 1 .. Len(c) BY <1>1
  <2>2. PICK x \in 1 .. Len(s) : x = a + i - 1 BY <1>1, <2>1
  <2>3. x + 1 = a + (i + 1) - 1 /\ x \in 1 .. Len(s) - 1 BY <1>1, <2>1, <2>2
  <2> QED BY <1>1, <2>1, <2>2, <2>3 DEF Chained
<1>4. Chained(c) BY <1>2, <1>3 DEF Chained
<1> QED BY <1>4 DEF c

\* A message is a chain, of which the last unit is the end.
LEMMA FrameSteps ==
    ASSUME NEW m \in Nat, NEW b \in Nat
    PROVE  /\ Frame(m, b) \in Seq(Units) /\ Len(Frame(m, b)) = LengthUnits + b
           /\ \A i \in 1 .. LengthUnits + b : Frame(m, b)[i] = [of |-> m, at |-> i, body |-> b]
           /\ Chained(Frame(m, b))
<1>1. \A i \in 1 .. LengthUnits + b : [of |-> m, at |-> i, body |-> b] \in Units
  BY DEF Units, LengthUnits
<1>2. LengthUnits + b \in Nat BY DEF LengthUnits
<1>3. /\ Frame(m, b) \in Seq(Units) /\ Len(Frame(m, b)) = LengthUnits + b
      /\ \A i \in 1 .. LengthUnits + b : Frame(m, b)[i] = [of |-> m, at |-> i, body |-> b]
  BY <1>1, <1>2 DEF Frame
<1>4. Chained(Frame(m, b)) BY <1>2, <1>3 DEF Chained, Away, Follows
<1> QED BY <1>3, <1>4

-----------------------------------------------------------------------------
(* One direction. *)

\* A message is a remainder before its first unit is sent, whatever is sent of it.
LEMMA RemainderSteps ==
    ASSUME NEW k \in Nat
    PROVE  /\ Remainder(<<>>, k)
           /\ \A b \in Nat : Remainder(Frame(k + 1, b), k) /\ Frame(k + 1, b) # <<>>
           /\ \A rest \in Seq(Units), n \in Nat :
                 Remainder(rest, k) /\ n \in 1 .. Len(rest) =>
                     Remainder(SubSeq(rest, n + 1, Len(rest)), IF n = Len(rest) THEN k + 1 ELSE k)
<1>1. Remainder(<<>>, k)
  <2>1. Len(<<>>) = 0 OBVIOUS
  <2> QED BY <2>1 DEF Remainder, Chained
<1>2. ASSUME NEW b \in Nat PROVE Remainder(Frame(k + 1, b), k) /\ Frame(k + 1, b) # <<>>
  <2>1. /\ Frame(k + 1, b) \in Seq(Units) /\ Len(Frame(k + 1, b)) = LengthUnits + b
        /\ \A i \in 1 .. LengthUnits + b : Frame(k + 1, b)[i] = [of |-> k + 1, at |-> i, body |-> b]
        /\ Chained(Frame(k + 1, b))
    <3>1. k + 1 \in Nat OBVIOUS
    <3> QED BY <3>1, FrameSteps
  <2>2. LengthUnits + b \in Nat \ {0} BY DEF LengthUnits
  <2>3. Frame(k + 1, b) # <<>>
    <3>1. Len(<<>>) = 0 OBVIOUS
    <3> QED BY <2>1, <2>2, <3>1
  <2>4. ASSUME NEW i \in 1 .. LengthUnits + b
        PROVE  Frame(k + 1, b)[i].of = k + 1 /\ (Ends(Frame(k + 1, b)[i]) <=> i = LengthUnits + b)
    <3>1. Frame(k + 1, b)[i] = [of |-> k + 1, at |-> i, body |-> b] BY <2>1
    <3> HIDE DEF Frame
    <3> QED BY <3>1 DEF Ends
  <2> HIDE DEF Frame
  <2> QED BY <2>1, <2>3, <2>4 DEF Remainder
<1>3. ASSUME NEW rest \in Seq(Units), NEW n \in Nat, Remainder(rest, k), n \in 1 .. Len(rest)
      PROVE  Remainder(SubSeq(rest, n + 1, Len(rest)), IF n = Len(rest) THEN k + 1 ELSE k)
  <2> DEFINE c == SubSeq(rest, n + 1, Len(rest))
  <2>0. PICK l \in Nat : l = Len(rest) OBVIOUS
  <2>1. n + 1 \in 1 .. l + 1 /\ l \in 0 .. l /\ n + 1 <= l + 1 /\ l + 1 - (n + 1) = l - n
    BY <1>3, <2>0
  <2>2. /\ c \in Seq(Units) /\ Len(c) = l - n
        /\ \A i \in 1 .. l - n : c[i] = rest[(n + 1) + i - 1] /\ (n + 1) + i - 1 \in 1 .. l
    BY <2>0, <2>1, PartSteps
  <2>3. Chained(c) BY <1>3, <2>0, <2>1, ChainPart DEF Remainder
  <2> HIDE DEF c
  <2>4. CASE n = l
    <3>1. c = <<>> BY <2>1, <2>2, <2>4
    <3>2. Len(<<>>) = 0 OBVIOUS
    <3>3. Remainder(c, k + 1) BY <3>1, <3>2 DEF Remainder, Chained
    <3> QED BY <2>0, <2>4, <3>3 DEF c
  <2>5. CASE n # l
    <3>1. \A i \in 1 .. l - n : c[i].of = k + 1 BY <1>3, <2>0, <2>2 DEF Remainder
    <3>2. ASSUME NEW i \in 1 .. l - n PROVE Ends(c[i]) <=> i = l - n
      <4>1. (n + 1) + i - 1 = l <=> i = l - n BY <2>0, <1>3
      <4> QED BY <1>3, <2>0, <2>2, <4>1 DEF Remainder
    <3>3. Remainder(c, k) BY <2>2, <2>3, <3>1, <3>2 DEF Remainder
    <3> QED BY <2>0, <2>5, <3>3 DEF c
  <2> QED BY <2>4, <2>5
<1> QED BY <1>1, <1>2, <1>3

\* Nothing has been sent.
LEMMA FlowBegins == Flowing(<<>>, 0, 2, {}, 2, <<>>, 0)
<1>1. Before(2, <<>>, 0, 2, {}) = {Over(0)} BY DEF Before, ReadTip
<1>2. Awaits(Over(0), <<>>, 0) BY OverSteps DEF Awaits
<1>3. Remainder(<<>>, 0) BY RemainderSteps
<1>4. Len(<<>>) = 0 OBVIOUS
<1> QED BY <1>1, <1>2, <1>3, <1>4 DEF Flowing, Numbered, Chained

Segments == {p \in Packets : p.data # <<>>}

\* A message is framed.
LEMMA FlowWrites ==
    ASSUME NEW buf, NEW m, NEW next, NEW D, NEW top, NEW k \in Nat, NEW b \in Nat,
           Flowing(buf, m, next, D, top, <<>>, k),
           \A u \in Before(top, buf, m, next, D) : u \in Units
    PROVE  Flowing(buf, m, next, D, top, Frame(k + 1, b), k)
<1>1. Remainder(Frame(k + 1, b), k) /\ Frame(k + 1, b) # <<>> BY RemainderSteps
<1>2. Frame(k + 1, b)[1] = [of |-> k + 1, at |-> 1, body |-> b]
  BY FrameSteps DEF LengthUnits
<1>3. [of |-> k + 1, at |-> 1, body |-> b] \in Units BY DEF Units, LengthUnits
<1>4. ASSUME NEW u \in Before(top, buf, m, next, D) PROVE Awaits(u, Frame(k + 1, b), k)
  <2>1. Ends(u) /\ u.of = k BY DEF Flowing, Awaits
  <2>2. Follows(u, Frame(k + 1, b)[1]) BY <1>2, <1>3, <2>1, UnitSteps
  <2> QED BY <1>1, <2>2 DEF Awaits
<1> QED BY <1>1, <1>4 DEF Flowing

\* The units before a segment.
LEMMA BeforeUnits ==
    ASSUME NEW buf \in Seq(Units), NEW m \in Nat, NEW next, NEW D \in SUBSET Segments, NEW s
    PROVE  \A u \in Before(s, buf, m, next, D) : u \in Units
<1>1. ReadTip(buf, m) \in Units
  <2>1. CASE buf = <<>> BY <2>1, OverSteps DEF ReadTip
  <2>2. CASE buf # <<>>
    <3>1. Len(buf) \in 1 .. Len(buf) BY <2>2
    <3> QED BY <2>2, <3>1 DEF ReadTip, Final
  <2> QED BY <2>1, <2>2
<1>2. ASSUME NEW p \in D PROVE Final(p.data) \in Units
  <2>1. p.data \in Seq(Units) /\ p.data # <<>> BY DEF Segments, Packets
  <2>2. Len(p.data) \in 1 .. Len(p.data) BY <2>1
  <2> QED BY <2>1, <2>2 DEF Final
<1> QED BY <1>1, <1>2 DEF Before

\* A segment is sent.
LEMMA FlowSends ==
    ASSUME NEW buf \in Seq(Units), NEW m \in Nat, NEW next \in Nat, NEW D \in SUBSET Segments,
           NEW top \in Nat, NEW rest \in Seq(Units), NEW k \in Nat,
           Flowing(buf, m, next, D, top, rest, k),
           NEW n \in 1 .. Len(rest), NEW p \in Segments, p.seq = top, p.data = SubSeq(rest, 1, n)
    PROVE  Flowing(buf, m, next, D \cup {p}, top + 1, SubSeq(rest, n + 1, Len(rest)),
                   IF n = Len(rest) THEN k + 1 ELSE k)
<1> DEFINE E == D \cup {p}
           left == SubSeq(rest, n + 1, Len(rest))
           kk == IF n = Len(rest) THEN k + 1 ELSE k
<1>0. /\ Chained(buf) /\ (buf # <<>> => Follows(Over(m), buf[1]))
      /\ Numbered(next, D, top)
      /\ \A q \in D : Chained(q.data) /\ q.data # <<>>
      /\ \A q \in D : \A u \in Before(q.seq, buf, m, next, D) : Follows(u, q.data[1])
      /\ \A u \in Before(top, buf, m, next, D) : Awaits(u, rest, k)
      /\ Remainder(rest, k)
      /\ \A i \in 1 .. Len(buf) : Ends(buf[i]) => buf[i].of <= k
      /\ \A q \in D : \A i \in 1 .. Len(q.data) : Ends(q.data[i]) => q.data[i].of <= k
  BY DEF Flowing
<1>1. PICK l \in Nat : l = Len(rest) /\ n <= l /\ n \in Nat OBVIOUS
<1>2. \A q \in Segments : q.seq \in Nat /\ q.data \in Seq(Units) /\ q.data # <<>>
  BY DEF Segments, Packets
<1>3. /\ Len(p.data) = n /\ \A i \in 1 .. n : p.data[i] = rest[i] /\ i \in 1 .. l
  <2>1. 1 \in 1 .. l + 1 /\ n \in 0 .. l /\ 1 <= n + 1 /\ n + 1 - 1 = n BY <1>1
  <2>2. Len(SubSeq(rest, 1, n)) = n + 1 - 1
        /\ \A i \in 1 .. n + 1 - 1 : SubSeq(rest, 1, n)[i] = rest[1 + i - 1] /\ 1 + i - 1 \in 1 .. l
    BY <1>1, <2>1, PartSteps
  <2> QED BY <2>1, <2>2
<1>4. Chained(p.data)
  <2>1. 1 \in 1 .. l + 1 /\ n \in 0 .. l /\ 1 <= n + 1 BY <1>1
  <2> QED BY <1>0, <1>1, <2>1, ChainPart DEF Remainder
<1>5. Remainder(left, kk) BY <1>0, <1>1, RemainderSteps
<1>6. kk \in Nat /\ k <= kk BY <1>1
<1>7. Numbered(next, E, top + 1)
  <2>1. next <= top + 1 BY <1>0 DEF Numbered
  <2>2. \A q \in E : next <= q.seq /\ q.seq < top + 1 BY <1>0, <1>2 DEF Numbered
  <2>3. ASSUME NEW s \in next .. (top + 1) - 1 PROVE \E q \in E : q.seq = s
    <3>1. s = top \/ s \in next .. top - 1 BY <1>0
    <3> QED BY <1>0, <3>1 DEF Numbered
  <2> QED BY <2>1, <2>2, <2>3 DEF Numbered
<1>8. ASSUME NEW q \in E, NEW u \in Before(q.seq, buf, m, next, E) PROVE Follows(u, q.data[1])
  <2>1. q.seq \in Nat /\ q.seq <= top BY <1>0, <1>2 DEF Numbered
  <2>2. p.seq + 1 # q.seq BY <2>1
  <2>3. u \in Before(q.seq, buf, m, next, D) BY <2>2 DEF Before
  <2>4. CASE q \in D BY <1>0, <2>3, <2>4
  <2>5. CASE q = p
    <3>1. Awaits(u, rest, k) BY <1>0, <2>3, <2>5
    <3>2. rest # <<>> /\ p.data[1] = rest[1] BY <1>1, <1>3
    <3> QED BY <2>5, <3>1, <3>2 DEF Awaits
  <2> QED BY <2>4, <2>5
<1>9. ASSUME NEW u \in Before(top + 1, buf, m, next, E) PROVE Awaits(u, left, kk)
  <2>1. u = rest[n]
    <3>1. next # top + 1 BY <1>0 DEF Numbered
    <3>2. PICK q \in E : q.seq + 1 = top + 1 /\ u = Final(q.data) BY <3>1 DEF Before
    <3>3. q.seq \in Nat /\ q.seq = top BY <1>2, <3>2
    <3>4. q = p BY <1>0, <3>3 DEF Numbered
    <3> QED BY <1>1, <1>3, <3>2, <3>4 DEF Final
  <2>2. CASE n = l
    <3>1. left = <<>> BY <1>1, <2>2
    <3>2. Ends(rest[n]) /\ rest[n].of = k + 1 BY <1>0, <1>1, <2>2 DEF Remainder
    <3> QED BY <1>1, <2>1, <2>2, <3>1, <3>2 DEF Awaits
  <2>3. CASE n # l
    <3>1. n \in 1 .. l - 1 BY <1>1, <2>3
    <3>2. Follows(rest[n], rest[n + 1]) BY <1>0, <1>1, <3>1 DEF Remainder, Chained
    <3>3. left # <<>> /\ left[1] = rest[n + 1]
      <4>1. n + 1 \in 1 .. l + 1 /\ l \in 0 .. l /\ n + 1 <= l + 1 /\ l + 1 - (n + 1) = l - n
            /\ 1 \in 1 .. l - n /\ (n + 1) + 1 - 1 = n + 1
        BY <1>1, <3>1
      <4>2. Len(left) = l + 1 - (n + 1)
            /\ \A i \in 1 .. l + 1 - (n + 1) : left[i] = rest[(n + 1) + i - 1]
        BY <1>1, <4>1, PartSteps
      <4>3. Len(left) # 0 /\ left[1] = rest[n + 1] BY <4>1, <4>2
      <4>4. Len(<<>>) = 0 OBVIOUS
      <4> QED BY <4>3, <4>4
    <3> QED BY <2>1, <3>2, <3>3 DEF Awaits
  <2> QED BY <2>2, <2>3
<1>10. \A i \in 1 .. Len(buf) : Ends(buf[i]) => buf[i].of <= kk
  <2>1. \A i \in 1 .. Len(buf) : buf[i].of \in Nat
    <3>1. \A i \in 1 .. Len(buf) : buf[i] \in Units OBVIOUS
    <3> QED BY <3>1 DEF Units
  <2> QED BY <1>0, <1>6, <2>1
<1>11. ASSUME NEW q \in E, NEW i \in 1 .. Len(q.data), Ends(q.data[i]) PROVE q.data[i].of <= kk
  <2>1. CASE q \in D
    <3>1. q.data[i] \in Units BY <1>2
    <3>2. q.data[i].of \in Nat /\ q.data[i].of <= k BY <1>0, <1>11, <2>1, <3>1 DEF Units
    <3> QED BY <1>6, <3>2
  <2>2. CASE q = p
    <3>1. i \in 1 .. n /\ q.data[i] = rest[i] /\ i \in 1 .. l BY <1>3, <2>2
    <3>2. i = l /\ rest[i].of = k + 1 BY <1>0, <1>1, <1>11, <3>1 DEF Remainder
    <3>3. n = l BY <1>1, <3>1, <3>2
    <3> QED BY <1>1, <3>1, <3>2, <3>3
  <2> QED BY <2>1, <2>2
<1>12. \A q \in E : Chained(q.data) /\ q.data # <<>> BY <1>0, <1>2, <1>4
<1> HIDE DEF E, left, kk
<1>13. Flowing(buf, m, next, E, top + 1, left, kk)
  BY <1>0, <1>5, <1>7, <1>8, <1>9, <1>10, <1>11, <1>12 DEF Flowing
<1> QED BY <1>13 DEF E, left, kk

\* The next segment is read.
LEMMA FlowReads ==
    ASSUME NEW buf \in Seq(Units), NEW m \in Nat, NEW next \in Nat, NEW D \in SUBSET Segments,
           NEW top \in Nat, NEW rest \in Seq(Units), NEW k \in Nat,
           Flowing(buf, m, next, D, top, rest, k),
           NEW p \in D, p.seq = next, NEW E \in SUBSET D, D = E \cup {p},
           \A q \in E : q.seq # next
    PROVE  Flowing(buf \o p.data, m, next + 1, E, top, rest, k)
<1> DEFINE c == buf \o p.data
<1>0. /\ Chained(buf) /\ (buf # <<>> => Follows(Over(m), buf[1]))
      /\ Numbered(next, D, top)
      /\ \A q \in D : Chained(q.data) /\ q.data # <<>>
      /\ \A q \in D : \A u \in Before(q.seq, buf, m, next, D) : Follows(u, q.data[1])
      /\ \A u \in Before(top, buf, m, next, D) : Awaits(u, rest, k)
      /\ Remainder(rest, k)
      /\ \A i \in 1 .. Len(buf) : Ends(buf[i]) => buf[i].of <= k
      /\ \A q \in D : \A i \in 1 .. Len(q.data) : Ends(q.data[i]) => q.data[i].of <= k
  BY DEF Flowing
<1>1. \A q \in Segments : q.seq \in Nat /\ q.data \in Seq(Units) /\ q.data # <<>>
  BY DEF Segments, Packets
<1>2. PICK a \in Nat, b \in Nat : a = Len(buf) /\ b = Len(p.data) /\ 1 <= b BY <1>1
<1>3. /\ c \in Seq(Units) /\ Len(c) = a + b /\ c # <<>>
      /\ \A i \in 1 .. a : c[i] = buf[i]
      /\ \A i \in 1 .. b : c[a + i] = p.data[i]
      /\ buf = <<>> => c = p.data
  <2>1. p.data \in Seq(Units) BY <1>1
  <2>2. c \in Seq(Units) /\ Len(c) = a + b BY <1>2, <2>1
  <2>3. c # <<>>
    <3>1. Len(<<>>) = 0 OBVIOUS
    <3> QED BY <1>2, <2>2, <3>1
  <2>4. \A i \in 1 .. a : c[i] = buf[i] BY <1>2, <2>1
  <2>5. \A i \in 1 .. b : c[a + i] = p.data[i] BY <1>2, <2>1
  <2>6. buf = <<>> => c = p.data BY <2>1, ConcatEmptySeq
  <2> QED BY <2>2, <2>3, <2>4, <2>5, <2>6
<1> HIDE DEF c
<1>4. Follows(ReadTip(buf, m), p.data[1]) BY <1>0 DEF Before
<1>5. Chained(c)
  <2>1. CASE buf = <<>> BY <1>0, <1>3, <2>1
  <2>2. CASE buf # <<>>
    <3>1. Follows(Final(buf), p.data[1]) BY <1>4, <2>2 DEF ReadTip
    <3> QED BY <1>0, <1>1, <2>2, <3>1, ChainJoins DEF c
  <2> QED BY <2>1, <2>2
<1>6. Follows(Over(m), c[1])
  <2>1. CASE buf = <<>> BY <1>3, <1>4, <2>1 DEF ReadTip
  <2>2. CASE buf # <<>>
    <3>1. 1 \in 1 .. a BY <1>2, <2>2
    <3> QED BY <1>0, <1>3, <2>2, <3>1
  <2> QED BY <2>1, <2>2
<1>7. Numbered(next + 1, E, top)
  <2>1. next + 1 <= top BY <1>0, <1>1 DEF Numbered
  <2>2. ASSUME NEW q \in E PROVE next + 1 <= q.seq /\ q.seq < top
    <3>1. q.seq \in Nat /\ next <= q.seq /\ q.seq < top /\ q.seq # next
      BY <1>0, <1>1 DEF Numbered
    <3> QED BY <3>1
  <2>3. ASSUME NEW s \in (next + 1) .. top - 1 PROVE \E q \in E : q.seq = s
    <3>1. s \in next .. top - 1 /\ s # next OBVIOUS
    <3>2. PICK q \in D : q.seq = s BY <1>0, <3>1 DEF Numbered
    <3> QED BY <3>1, <3>2
  <2> QED BY <2>1, <2>2, <2>3 DEF Numbered
<1>8. ReadTip(c, m) = Final(p.data)
  <2>1. b \in 1 .. b BY <1>2
  <2> QED BY <1>2, <1>3, <2>1 DEF ReadTip, Final
<1>9. ASSUME NEW s \in Nat, next + 1 <= s, NEW u \in Before(s, c, m, next + 1, E)
      PROVE  u \in Before(s, buf, m, next, D)
  <2>1. CASE s = next + 1 /\ u = ReadTip(c, m)
    <3>1. p.seq + 1 = s /\ u = Final(p.data) BY <1>8, <2>1
    <3> QED BY <3>1 DEF Before
  <2>2. CASE \E q \in E : q.seq + 1 = s /\ u = Final(q.data)
    BY <2>2 DEF Before
  <2> QED BY <1>9, <2>1, <2>2 DEF Before
<1>10. \A q \in E : \A u \in Before(q.seq, c, m, next + 1, E) : Follows(u, q.data[1])
  <2>1. \A q \in E : q.seq \in Nat /\ next + 1 <= q.seq BY <1>1, <1>7 DEF Numbered
  <2> QED BY <1>0, <1>9, <2>1
<1>11. \A u \in Before(top, c, m, next + 1, E) : Awaits(u, rest, k)
  <2>1. next + 1 <= top BY <1>7 DEF Numbered
  <2> QED BY <1>0, <1>9, <2>1
<1>12. ASSUME NEW i \in 1 .. a + b, Ends(c[i]) PROVE c[i].of <= k
  <2>1. CASE i <= a
    <3>1. i \in 1 .. a BY <1>2, <1>12, <2>1
    <3> QED BY <1>0, <1>2, <1>3, <1>12, <3>1
  <2>2. CASE i > a
    <3>1. PICK j \in 1 .. b : i = a + j
      <4>1. i - a \in 1 .. b /\ i = a + (i - a) BY <1>2, <1>12, <2>2
      <4> QED BY <4>1
    <3>2. c[i] = p.data[j] BY <1>3, <3>1
    <3> QED BY <1>0, <1>2, <1>12, <3>1, <3>2
  <2> QED BY <1>2, <2>1, <2>2
<1>13. Flowing(c, m, next + 1, E, top, rest, k)
  BY <1>0, <1>3, <1>5, <1>6, <1>7, <1>10, <1>11, <1>12 DEF Flowing
<1> QED BY <1>13 DEF c

\* The first message of a buffer: its length is that of its body, and it is all there.
LEMMA FirstMessage ==
    ASSUME NEW buf \in Seq(Units), NEW m \in Nat, Chained(buf),
           buf # <<>> => Follows(Over(m), buf[1]),
           NEW n \in LengthsOf(buf), n \in Nat, WholeAt(buf, n)
    PROVE  /\ LengthUnits + n \in 1 .. Len(buf) /\ Ends(buf[LengthUnits + n])
           /\ buf[LengthUnits + n].of = m + 1
           /\ Name(SubSeq(buf, 1, LengthUnits + n)) = m + 1
<1>1. PICK l \in Nat : l = Len(buf) /\ LengthUnits + n <= l /\ LengthUnits + n \in Nat /\ 2 <= l
                       /\ LengthUnits = 2
  BY DEF WholeAt, LengthUnits
<1>2. \A i \in 1 .. l : buf[i] \in Units BY <1>1
<1>3. buf # <<>> /\ 1 \in 1 .. l BY <1>1
<1>4. buf[1].of = m + 1 /\ buf[1].at = 1 BY <1>2, <1>3, OverSteps
<1>5. PICK body \in Nat : body = buf[1].body BY <1>2, <1>3 DEF Units
<1>6. ASSUME NEW i \in 1 .. l, i <= LengthUnits + body
      PROVE  buf[i] = [of |-> m + 1, at |-> i, body |-> body]
  <2>1. PICK d \in Nat : i = 1 + d
    <3>1. i - 1 \in Nat /\ i = 1 + (i - 1) BY <1>6
    <3> QED BY <3>1
  <2>2. Away(buf[1], buf[i], d) BY <1>1, <1>3, <2>1, ChainSteps
  <2>3. buf[i] \in Units /\ 1 <= buf[i].at /\ buf[i].at \in Nat BY <1>2 DEF Units
  <2>4. ~(LengthUnits + body + buf[i].at <= 1 + d) BY <1>1, <1>6, <2>1, <2>3
  <2>5. buf[i].of = m + 1 /\ buf[i].body = body /\ buf[i].at = i
    BY <1>4, <1>5, <2>1, <2>2, <2>4 DEF Away
  <2> QED BY <2>3, <2>5 DEF Units
<1>7. n = body
  <2>1. \A i \in 1 .. LengthUnits : i \in 1 .. l /\ i <= LengthUnits + body BY <1>1, <1>5
  <2>2. ASSUME NEW i \in 1 .. LengthUnits PROVE buf[i].of = buf[1].of /\ buf[i].at = i
    <3>1. buf[i] = [of |-> m + 1, at |-> i, body |-> body] BY <1>6, <2>1
    <3> QED BY <1>4, <3>1
  <2>3. Len(buf) >= LengthUnits BY <1>1
  <2> QED BY <1>5, <2>2, <2>3 DEF LengthsOf
<1>8. LengthUnits + n \in 1 .. l BY <1>1
<1>9. buf[LengthUnits + n] = [of |-> m + 1, at |-> LengthUnits + n, body |-> n]
  BY <1>1, <1>6, <1>7, <1>8
<1>10. SubSeq(buf, 1, LengthUnits + n) = Frame(m + 1, n)
  <2> DEFINE c == SubSeq(buf, 1, LengthUnits + n)
             f == Frame(m + 1, n)
  <2>1. 1 \in 1 .. l + 1 /\ LengthUnits + n \in 0 .. l /\ 1 <= LengthUnits + n + 1
        /\ (LengthUnits + n) + 1 - 1 = LengthUnits + n
    BY <1>1
  <2>2. /\ c \in Seq(Units) /\ Len(c) = LengthUnits + n
        /\ \A i \in 1 .. LengthUnits + n : c[i] = buf[1 + i - 1] /\ 1 + i - 1 \in 1 .. l
    BY <1>1, <2>1, PartSteps
  <2>3. m + 1 \in Nat OBVIOUS
  <2>4. /\ f \in Seq(Units) /\ Len(f) = LengthUnits + n
        /\ \A i \in 1 .. LengthUnits + n : f[i] = [of |-> m + 1, at |-> i, body |-> n]
    BY <2>3, FrameSteps
  <2> HIDE DEF c, f
  <2>5. ASSUME NEW i \in 1 .. LengthUnits + n PROVE c[i] = f[i]
    <3>1. 1 + i - 1 = i /\ i \in 1 .. l BY <1>1, <2>2
    <3>2. c[i] = buf[i] BY <2>2, <3>1
    <3>3. i <= LengthUnits + body BY <1>1, <1>7
    <3> QED BY <1>6, <1>7, <2>4, <3>1, <3>2, <3>3
  <2>6. c = f BY <2>2, <2>4, <2>5, SeqEqual
  <2> QED BY <2>6 DEF c, f
<1>11. Name(Frame(m + 1, n)) = m + 1
  <2>1. m + 1 \in Nat OBVIOUS
  <2>2. /\ Frame(m + 1, n) \in Seq(Units) /\ Len(Frame(m + 1, n)) = LengthUnits + n
        /\ 1 \in 1 .. LengthUnits + n
        /\ Frame(m + 1, n)[1] = [of |-> m + 1, at |-> 1, body |-> n]
    BY <1>1, <2>1, FrameSteps
  <2>3. Frame(m + 1, n) # <<>>
    <3>1. Len(<<>>) = 0 OBVIOUS
    <3> QED BY <1>1, <2>2, <3>1
  <2>4. Frame(m + 1, n)[1].of = m + 1 /\ Frame(m + 1, n)[1].body = n BY <2>2
  <2> HIDE DEF Frame
  <2>5. IsFrame(Frame(m + 1, n)) BY <2>3, <2>4 DEF IsFrame
  <2> QED BY <2>4, <2>5 DEF Name
<1>12. Ends(buf[LengthUnits + n]) /\ buf[LengthUnits + n].of = m + 1 BY <1>9 DEF Ends
<1> QED BY <1>1, <1>8, <1>10, <1>11, <1>12

\* A message is cut out of the buffer.
LEMMA FlowCuts ==
    ASSUME NEW buf \in Seq(Units), NEW m \in Nat, NEW next \in Nat, NEW D \in SUBSET Segments,
           NEW top \in Nat, NEW rest \in Seq(Units), NEW k \in Nat,
           Flowing(buf, m, next, D, top, rest, k),
           NEW n \in LengthsOf(buf), n \in Nat, WholeAt(buf, n)
    PROVE  /\ Name(SubSeq(buf, 1, LengthUnits + n)) = m + 1 /\ m + 1 <= k
           /\ Flowing(SubSeq(buf, LengthUnits + n + 1, Len(buf)), m + 1, next, D, top, rest, k)
<1> DEFINE c == SubSeq(buf, LengthUnits + n + 1, Len(buf))
<1>0. /\ Chained(buf) /\ (buf # <<>> => Follows(Over(m), buf[1]))
      /\ Numbered(next, D, top)
      /\ \A q \in D : Chained(q.data) /\ q.data # <<>>
      /\ \A q \in D : \A u \in Before(q.seq, buf, m, next, D) : Follows(u, q.data[1])
      /\ \A u \in Before(top, buf, m, next, D) : Awaits(u, rest, k)
      /\ Remainder(rest, k)
      /\ \A i \in 1 .. Len(buf) : Ends(buf[i]) => buf[i].of <= k
      /\ \A q \in D : \A i \in 1 .. Len(q.data) : Ends(q.data[i]) => q.data[i].of <= k
  BY DEF Flowing
<1>1. PICK l \in Nat, e \in Nat : l = Len(buf) /\ e = LengthUnits + n BY DEF LengthUnits
<1>2. /\ e \in 1 .. l /\ Ends(buf[e]) /\ buf[e].of = m + 1
      /\ Name(SubSeq(buf, 1, LengthUnits + n)) = m + 1
  BY <1>0, <1>1, FirstMessage
<1>3. m + 1 <= k BY <1>0, <1>1, <1>2
<1>4. \A i \in 1 .. l : buf[i] \in Units BY <1>1
<1>5. e + 1 \in 1 .. l + 1 /\ l \in 0 .. l /\ e + 1 <= l + 1 /\ l + 1 - (e + 1) = l - e
      /\ l - e \in Nat
  BY <1>1, <1>2
<1>6. /\ c \in Seq(Units) /\ Len(c) = l - e
      /\ \A i \in 1 .. l - e : c[i] = buf[(e + 1) + i - 1] /\ (e + 1) + i - 1 \in 1 .. l
  <2>1. c = SubSeq(buf, e + 1, l) BY <1>1
  <2> HIDE DEF c
  <2>2. /\ SubSeq(buf, e + 1, l) \in Seq(Units) /\ Len(SubSeq(buf, e + 1, l)) = l + 1 - (e + 1)
        /\ \A i \in 1 .. l + 1 - (e + 1) : /\ SubSeq(buf, e + 1, l)[i] = buf[(e + 1) + i - 1]
                                           /\ (e + 1) + i - 1 \in 1 .. l
    <3>1. e + 1 \in 1 .. Len(buf) + 1 /\ l \in 0 .. Len(buf) /\ l = Len(buf) BY <1>1, <1>5
    <3> QED BY <1>5, <3>1, PartSteps
  <2> QED BY <1>5, <2>1, <2>2
<1>7. Chained(c) BY <1>0, <1>1, <1>5, ChainPart
<1> HIDE DEF c
<1>8. m + 1 \in Nat OBVIOUS
<1>9. \A v \in Units : Follows(buf[e], v) <=> Follows(Over(m + 1), v)
  BY <1>2, <1>4, <1>8, UnitSteps, OverSteps
<1>10. c # <<>> => Follows(Over(m + 1), c[1])
  <2> SUFFICES ASSUME c # <<>> PROVE Follows(Over(m + 1), c[1]) OBVIOUS
  <2>1. 1 \in 1 .. l - e /\ (e + 1) + 1 - 1 = e + 1 BY <1>2, <1>5, <1>6
  <2>2. c[1] = buf[e + 1] /\ e + 1 \in 1 .. l BY <1>6, <2>1
  <2>3. e \in 1 .. l - 1 BY <1>1, <1>2, <2>2
  <2>4. Follows(buf[e], buf[e + 1]) BY <1>0, <1>1, <2>3 DEF Chained
  <2> QED BY <1>4, <1>9, <2>2, <2>4
<1>11. ReadTip(buf, m) = buf[l]
  <2>1. buf # <<>> BY <1>1, <1>2
  <2> QED BY <1>1, <2>1 DEF ReadTip, Final
<1>12. ReadTip(c, m + 1) = IF e = l THEN Over(m + 1) ELSE buf[l]
  <2>1. CASE e = l
    <3>1. c = <<>> BY <1>5, <1>6, <2>1
    <3> QED BY <2>1, <3>1 DEF ReadTip
  <2>2. CASE e # l
    <3>1. Len(c) \in 1 .. l - e /\ (e + 1) + (l - e) - 1 = l BY <1>2, <1>5, <1>6, <2>2
    <3>2. c # <<>>
      <4>1. Len(<<>>) = 0 OBVIOUS
      <4> QED BY <1>2, <1>5, <1>6, <2>2, <4>1
    <3> QED BY <1>6, <2>2, <3>1, <3>2 DEF ReadTip, Final
  <2> QED BY <2>1, <2>2
<1>13. ASSUME NEW s, NEW u \in Before(s, c, m + 1, next, D)
       PROVE  \/ u \in Before(s, buf, m, next, D)
              \/ u = Over(m + 1) /\ e = l /\ buf[e] \in Before(s, buf, m, next, D)
  BY <1>11, <1>12, <1>13 DEF Before
<1>14. \A q \in D : \A u \in Before(q.seq, c, m + 1, next, D) : Follows(u, q.data[1])
  <2>1. \A q \in D : q.data[1] \in Units
    <3>1. \A q \in D : q.data \in Seq(Units) /\ q.data # <<>> BY DEF Segments, Packets
    <3>2. \A q \in D : 1 \in 1 .. Len(q.data) BY <3>1
    <3> QED BY <3>1, <3>2
  <2> QED BY <1>0, <1>9, <1>13, <2>1
<1>15. ASSUME NEW u \in Before(top, c, m + 1, next, D) PROVE Awaits(u, rest, k)
  <2>1. CASE u \in Before(top, buf, m, next, D) BY <1>0, <2>1
  <2>2. CASE u = Over(m + 1) /\ buf[e] \in Before(top, buf, m, next, D)
    <3>1. Awaits(buf[e], rest, k) BY <1>0, <2>2
    <3>2. CASE rest = <<>>
      BY <1>2, <1>8, <2>2, <3>1, <3>2, OverSteps DEF Awaits
    <3>3. CASE rest # <<>>
      <4>1. Follows(buf[e], rest[1]) BY <3>1, <3>3 DEF Awaits
      <4>2. rest[1] \in Units BY <3>3
      <4>3. Follows(Over(m + 1), rest[1]) BY <1>9, <4>1, <4>2
      <4> QED BY <2>2, <3>3, <4>3 DEF Awaits
    <3> QED BY <3>2, <3>3
  <2> QED BY <1>13, <2>1, <2>2
<1>16. \A i \in 1 .. l - e : Ends(c[i]) => c[i].of <= k BY <1>0, <1>1, <1>6
<1>17. Flowing(c, m + 1, next, D, top, rest, k)
  BY <1>0, <1>6, <1>7, <1>10, <1>14, <1>15, <1>16 DEF Flowing
<1> QED BY <1>1, <1>2, <1>3, <1>17 DEF c

-----------------------------------------------------------------------------
(* Queues of packets. *)

\* What a queue holds.
LEMMA DatasSteps ==
    ASSUME NEW q \in Seq(Packets)
    PROVE  /\ Datas(q) \subseteq Segments
           /\ \A p \in Datas(q) : IsData(p) /\ \E i \in 1 .. Len(q) : q[i] = p
           /\ \A i \in 1 .. Len(q) : IsData(q[i]) => q[i] \in Datas(q)
BY DEF Datas, Segments, IsData

\* Nothing waits in an empty queue.
LEMMA NoDatas == Datas(<<>>) = {} /\ Ascending(<<>>) /\ Greeting(<<>>)
<1>1. Len(<<>>) = 0 OBVIOUS
<1> QED BY <1>1 DEF Datas, Ascending, Greeting

\* The first packet is taken.
LEMMA TailDatas ==
    ASSUME NEW q \in Seq(Packets), q # <<>>
    PROVE  /\ Head(q) \in Packets /\ Tail(q) \in Seq(Packets)
           /\ Datas(q) = Datas(Tail(q)) \cup (IF IsData(Head(q)) THEN {Head(q)} ELSE {})
           /\ Ascending(q) => /\ Ascending(Tail(q))
                              /\ IsData(Head(q)) => \A p \in Datas(Tail(q)) : Head(q).seq < p.seq
           /\ Greeting(q) => Greeting(Tail(q))
           /\ Head(q) = q[1] /\ 1 \in 1 .. Len(q)
<1> DEFINE t == Tail(q)
<1>0. PICK l \in Nat : l = Len(q) /\ 1 <= l OBVIOUS
<1>1. /\ Head(q) \in Packets /\ t \in Seq(Packets) /\ Head(q) = q[1] /\ Len(t) = l - 1
      /\ \A i \in 1 .. l - 1 : t[i] = q[i + 1]
  BY <1>0
<1> HIDE DEF t
<1>2. \A i \in 1 .. l - 1 : i + 1 \in 1 .. l BY <1>0
<1>3. ASSUME NEW j \in 1 .. l, j # 1 PROVE \E i \in 1 .. l - 1 : j = i + 1
  <2>1. j - 1 \in 1 .. l - 1 /\ j = (j - 1) + 1 BY <1>3
  <2> QED BY <2>1
<1>4. Datas(q) = Datas(t) \cup (IF IsData(Head(q)) THEN {Head(q)} ELSE {})
  <2>1. ASSUME NEW p \in Datas(q), ~(p = Head(q) /\ IsData(Head(q))) PROVE p \in Datas(t)
    <3>1. PICK j \in 1 .. l : q[j] = p /\ IsData(p) BY <1>0 DEF Datas
    <3>2. PICK i \in 1 .. l - 1 : j = i + 1 BY <1>1, <1>3, <2>1, <3>1
    <3> QED BY <1>1, <3>1, <3>2 DEF Datas
  <2>2. ASSUME NEW p \in Datas(t) PROVE p \in Datas(q)
    <3>1. PICK i \in 1 .. l - 1 : t[i] = p /\ IsData(p) BY <1>1 DEF Datas
    <3> QED BY <1>0, <1>1, <1>2, <3>1 DEF Datas
  <2>3. IsData(Head(q)) => Head(q) \in Datas(q)
    <3>1. 1 \in 1 .. l BY <1>0
    <3> QED BY <1>0, <1>1, <3>1 DEF Datas
  <2> QED BY <2>1, <2>2, <2>3
<1>5. ASSUME Ascending(q)
      PROVE  Ascending(t) /\ (IsData(Head(q)) => \A p \in Datas(t) : Head(q).seq < p.seq)
  <2>1. ASSUME NEW i \in 1 .. l - 1, NEW j \in 1 .. l - 1, i < j, IsData(t[i]), IsData(t[j])
        PROVE  t[i].seq < t[j].seq
    <3>1. i + 1 < j + 1 BY <2>1
    <3> QED BY <1>0, <1>1, <1>2, <1>5, <2>1, <3>1 DEF Ascending
  <2>2. ASSUME IsData(Head(q)), NEW p \in Datas(t) PROVE Head(q).seq < p.seq
    <3>1. PICK i \in 1 .. l - 1 : t[i] = p /\ IsData(p) BY <1>1 DEF Datas
    <3>2. 1 \in 1 .. l /\ 1 < i + 1 BY <1>0
    <3> QED BY <1>0, <1>1, <1>2, <1>5, <2>2, <3>1, <3>2 DEF Ascending
  <2> QED BY <1>1, <2>1, <2>2 DEF Ascending
<1>6. Greeting(q) => Greeting(t) BY <1>0, <1>1, <1>2 DEF Greeting
<1> QED BY <1>0, <1>1, <1>4, <1>5, <1>6 DEF t

\* A packet is added.
LEMMA AppendDatas ==
    ASSUME NEW q \in Seq(Packets), NEW p \in Packets
    PROVE  /\ Append(q, p) \in Seq(Packets)
           /\ Datas(Append(q, p)) = Datas(q) \cup (IF IsData(p) THEN {p} ELSE {})
           /\ Ascending(q) /\ (IsData(p) => \A r \in Datas(q) : r.seq < p.seq)
                 => Ascending(Append(q, p))
           /\ Greeting(q) /\ (p.flag = "synack" => p.seq = 1 /\ p.nonce /\ p.data = <<>>)
                 => Greeting(Append(q, p))
<1> DEFINE t == Append(q, p)
<1>0. PICK l \in Nat : l = Len(q) OBVIOUS
<1>1. /\ t \in Seq(Packets) /\ Len(t) = l + 1 /\ t[l + 1] = p
      /\ \A i \in 1 .. l : t[i] = q[i]
  BY <1>0
<1> HIDE DEF t
<1>2. /\ l + 1 \in 1 .. l + 1 /\ \A i \in 1 .. l + 1 : i = l + 1 \/ i \in 1 .. l
      /\ \A i \in 1 .. l : i \in 1 .. l + 1
  BY <1>0
<1>3. Datas(t) = Datas(q) \cup (IF IsData(p) THEN {p} ELSE {})
  <2>1. ASSUME NEW r \in Datas(t), ~(r = p /\ IsData(p)) PROVE r \in Datas(q)
    <3>1. PICK i \in 1 .. l + 1 : t[i] = r /\ IsData(r) BY <1>1 DEF Datas
    <3>2. i \in 1 .. l BY <1>1, <1>2, <2>1, <3>1
    <3> QED BY <1>0, <1>1, <3>1, <3>2 DEF Datas
  <2>2. ASSUME NEW r \in Datas(q) PROVE r \in Datas(t)
    <3>1. PICK i \in 1 .. l : q[i] = r /\ IsData(r) BY <1>0 DEF Datas
    <3> QED BY <1>1, <1>2, <3>1 DEF Datas
  <2>3. IsData(p) => p \in Datas(t) BY <1>1, <1>2 DEF Datas
  <2> QED BY <2>1, <2>2, <2>3
<1>4. ASSUME Ascending(q), IsData(p) => \A r \in Datas(q) : r.seq < p.seq PROVE Ascending(t)
  <2>1. ASSUME NEW i \in 1 .. l + 1, NEW j \in 1 .. l + 1, i < j, IsData(t[i]), IsData(t[j])
        PROVE  t[i].seq < t[j].seq
    <3>1. i \in 1 .. l BY <1>0, <2>1
    <3>2. CASE j \in 1 .. l BY <1>0, <1>1, <1>4, <2>1, <3>1, <3>2 DEF Ascending
    <3>3. CASE j = l + 1
      <4>1. t[j] = p /\ t[i] = q[i] BY <1>1, <3>1, <3>3
      <4>2. q[i] \in Datas(q) BY <1>0, <2>1, <3>1, <4>1, DatasSteps
      <4> QED BY <1>4, <2>1, <4>1, <4>2
    <3> QED BY <1>2, <3>2, <3>3
  <2> QED BY <1>1, <2>1 DEF Ascending
<1>5. Greeting(q) /\ (p.flag = "synack" => p.seq = 1 /\ p.nonce /\ p.data = <<>>) => Greeting(t)
  BY <1>0, <1>1, <1>2 DEF Greeting
<1> QED BY <1>1, <1>3, <1>4, <1>5 DEF t

\* The second packet of a queue overtakes the first.
LEMMA SwapSteps ==
    ASSUME NEW q \in Seq(Packets), NEW l \in Nat, l = Len(q), 1 < l,
           NEW t, t = <<q[2], q[1]>> \o SubSeq(q, 3, l)
    PROVE  /\ t \in Seq(Packets) /\ Len(t) = l /\ t[1] = q[2] /\ t[2] = q[1]
           /\ \A i \in 3 .. l : t[i] = q[i]
<1>1. <<q[2], q[1]>> \in Seq(Packets) /\ Len(<<q[2], q[1]>>) = 2
      /\ <<q[2], q[1]>>[1] = q[2] /\ <<q[2], q[1]>>[2] = q[1]
  <2>1. 1 \in 1 .. l /\ 2 \in 1 .. l OBVIOUS
  <2>2. q[1] \in Packets /\ q[2] \in Packets BY <2>1
  <2> QED BY <2>2
<1>2. 3 \in 1 .. l + 1 /\ l \in 0 .. l /\ 3 <= l + 1 /\ l + 1 - 3 = l - 2 OBVIOUS
<1>3. /\ SubSeq(q, 3, l) \in Seq(Packets) /\ Len(SubSeq(q, 3, l)) = l - 2
      /\ \A i \in 1 .. l - 2 : SubSeq(q, 3, l)[i] = q[3 + i - 1]
  BY <1>2, PartSteps
<1>4. PICK a \in Seq(Packets), b \in Seq(Packets) : a = <<q[2], q[1]>> /\ b = SubSeq(q, 3, l)
  BY <1>1, <1>3
<1>5. /\ t \in Seq(Packets) /\ Len(t) = 2 + (l - 2)
      /\ \A i \in 1 .. Len(t) : t[i] = IF i <= 2 THEN a[i] ELSE b[i - 2]
  BY <1>1, <1>3, <1>4, ConcatProperties
<1>6. Len(t) = l /\ 1 \in 1 .. Len(t) /\ 2 \in 1 .. Len(t) BY <1>5
<1>7. ASSUME NEW i \in 3 .. l PROVE t[i] = q[i]
  <2>1. i - 2 \in 1 .. l - 2 /\ 3 + (i - 2) - 1 = i /\ i \in 1 .. Len(t) /\ ~(i <= 2) BY <1>6
  <2> QED BY <1>3, <1>4, <1>5, <2>1
<1> QED BY <1>1, <1>4, <1>5, <1>6, <1>7

\* The first packet, no segment, is lost or overtaken.
LEMMA FailDatas ==
    ASSUME NEW q \in Seq(Packets), q # <<>>, NEW t \in Fail(q)
    PROVE  /\ t \in Seq(Packets)
           /\ Greeting(q) => Greeting(t)
           /\ ~IsData(Head(q)) => Datas(t) = Datas(q) /\ (Ascending(q) => Ascending(t))
           /\ Datas(t) \subseteq Datas(q)
<1>0. PICK l \in Nat : l = Len(q) /\ 1 <= l OBVIOUS
<1>1. CASE t = Tail(q) BY <1>1, TailDatas
<1>2. CASE 1 < l /\ t = <<q[2], q[1]>> \o SubSeq(q, 3, l)
  <2>1. /\ t \in Seq(Packets) /\ Len(t) = l /\ t[1] = q[2] /\ t[2] = q[1]
        /\ \A i \in 3 .. l : t[i] = q[i]
    BY <1>0, <1>2, SwapSteps
  <2>2. /\ 1 \in 1 .. l /\ 2 \in 1 .. l /\ \A i \in 1 .. l : i = 1 \/ i = 2 \/ i \in 3 .. l
        /\ \A i \in 3 .. l : i \in 1 .. l
    BY <1>2
  <2>3. Datas(t) = Datas(q)
    <3>1. ASSUME NEW p \in Datas(t) PROVE p \in Datas(q)
      <4>1. PICK i \in 1 .. l : t[i] = p /\ IsData(p) BY <2>1 DEF Datas
      <4>2. \E j \in 1 .. l : q[j] = p BY <2>1, <2>2, <4>1
      <4> QED BY <1>0, <4>1, <4>2 DEF Datas
    <3>2. ASSUME NEW p \in Datas(q) PROVE p \in Datas(t)
      <4>1. PICK i \in 1 .. l : q[i] = p /\ IsData(p) BY <1>0 DEF Datas
      <4>2. \E j \in 1 .. l : t[j] = p BY <2>1, <2>2, <4>1
      <4> QED BY <2>1, <4>1, <4>2 DEF Datas
    <3> QED BY <3>1, <3>2
  <2>4. Greeting(q) => Greeting(t) BY <1>0, <2>1, <2>2 DEF Greeting
  <2>5. ASSUME ~IsData(Head(q)), Ascending(q) PROVE Ascending(t)
    <3>1. ~IsData(t[2]) BY <2>1, <2>5
    <3>2. ASSUME NEW i \in 1 .. l, NEW j \in 1 .. l, i < j, IsData(t[i]), IsData(t[j])
          PROVE  t[i].seq < t[j].seq
      <4>1. j \in 3 .. l /\ (i = 1 \/ i \in 3 .. l) BY <2>2, <3>1, <3>2
      <4>2. CASE i = 1
        <5>1. 2 < j /\ t[j] = q[j] /\ t[i] = q[2] BY <2>1, <4>1, <4>2
        <5> QED BY <1>0, <2>2, <2>5, <3>2, <5>1 DEF Ascending
      <4>3. CASE i \in 3 .. l
        <5>1. t[j] = q[j] /\ t[i] = q[i] BY <2>1, <4>1, <4>3
        <5> QED BY <1>0, <2>5, <3>2, <5>1 DEF Ascending
      <4> QED BY <4>1, <4>2, <4>3
    <3> QED BY <2>1, <3>2 DEF Ascending
  <2> QED BY <2>1, <2>3, <2>4, <2>5
<1>3. t = Tail(q) \/ (1 < l /\ t = <<q[2], q[1]>> \o SubSeq(q, 3, l)) BY <1>0 DEF Fail
<1> QED BY <1>1, <1>2, <1>3

\* The first segment of queues that are in order is the next one.
LEMMA HeadIsNext ==
    ASSUME NEW q \in Seq(Packets), q # <<>>, IsData(Head(q)), Ascending(q),
           NEW R \in SUBSET Segments, \A r \in R : Head(q).seq < r.seq,
           NEW next \in Nat, NEW top \in Nat, Numbered(next, Datas(q) \cup R, top)
    PROVE  Head(q).seq = next /\ \A r \in Datas(Tail(q)) \cup R : r.seq # next
<1>1. /\ Head(q) \in Packets /\ Head(q) \in Datas(q)
      /\ \A r \in Datas(q) : r = Head(q) \/ r \in Datas(Tail(q))
      /\ \A r \in Datas(Tail(q)) : Head(q).seq < r.seq
  BY TailDatas
<1>2. Head(q).seq \in Nat /\ next <= Head(q).seq /\ Head(q).seq < top BY <1>1 DEF Packets, Numbered
<1>3. next \in next .. top - 1 BY <1>2
<1>4. PICK r \in Datas(q) \cup R : r.seq = next BY <1>3 DEF Numbered
<1>5. r = Head(q)
  <2> SUFFICES ASSUME r # Head(q) PROVE FALSE OBVIOUS
  <2>1. Head(q).seq < r.seq BY <1>1, <1>4
  <2> QED BY <1>2, <1>4, <2>1
<1>6. \A s \in Datas(Tail(q)) \cup R : Head(q).seq < s.seq BY <1>1
<1>7. ASSUME NEW s \in Datas(Tail(q)) \cup R, s.seq = next PROVE FALSE
  <2>1. Head(q).seq < s.seq BY <1>6
  <2> QED BY <1>2, <1>4, <1>5, <1>7, <2>1
<1> QED BY <1>4, <1>5, <1>7

-----------------------------------------------------------------------------
(* Every step keeps the invariant. *)

\* What the lemmas on flows need to know of the state.
LEMMA FlowTypes ==
    ASSUME IInv
    PROVE  /\ Datas(inQ) \in SUBSET Segments /\ Datas(toCli) \in SUBSET Segments
           /\ Datas(inQ) \cup Datas(toCli) \in SUBSET Segments /\ Datas(toCam) \in SUBSET Segments
           /\ Len(gotDown) \in Nat /\ Len(gotUp) \in Nat
           /\ srvSeq + 1 \in Nat /\ camSeq + 2 \in Nat
           /\ camNext \in Nat /\ cliSeq \in Nat /\ sentUp \in Nat /\ sentDown \in Nat
           /\ readBuf \in Seq(Units) /\ camBuf \in Seq(Units)
           /\ out \in Seq(Units) /\ camOut \in Seq(Units)
<1> USE DEF IInv, Types
<1>1. Datas(inQ) \in SUBSET Segments /\ Datas(toCli) \in SUBSET Segments BY DatasSteps
<1>2. Datas(toCam) \in SUBSET Segments BY DatasSteps
<1>3. srvSeq + 1 \in Nat /\ camSeq + 2 \in Nat OBVIOUS
<1>4. Len(gotDown) \in Nat /\ Len(gotUp) \in Nat OBVIOUS
<1> QED BY <1>1, <1>2, <1>3, <1>4

\* A step that does not concern a direction.
LEMMA UpSame ==
    ASSUME UpFlows, Opening' <=> Opening, UNCHANGED <<cliSeq, out, camBuf, camNext, gotUp, sentUp>>,
           ~lostUp' => ~lostUp /\ Datas(toCam') = Datas(toCam)
    PROVE  UpFlows'
BY DEF UpFlows

\* The same for the camera's direction.
LEMMA DownSame ==
    ASSUME DownFlows, Opening' <=> Opening,
           UNCHANGED <<srvSeq, readBuf, camSeq, camOut, gotDown, sentDown>>,
           ~lostDown' => /\ ~lostDown
                         /\ Datas(inQ') \cup Datas(toCli') = Datas(inQ) \cup Datas(toCli)
    PROVE  DownFlows'
BY DEF DownFlows

\* What is sent later does not overtake the nonce.
LEMMA NonceSame ==
    ASSUME NonceFirst, toCam \in Seq(Packets), Opening' <=> Opening, ~lostUp' => ~lostUp,
           camOpen => camOpen',
           toCam' = toCam \/ \E p \in Packets : toCam' = Append(toCam, p)
    PROVE  NonceFirst'
<1> SUFFICES ASSUME ~lostUp', ~Opening', ~camOpen'
             PROVE  \E k \in 1 .. Len(toCam') :
                        toCam'[k].nonce /\ \A j \in 1 .. k : ~IsData(toCam'[j])
  BY DEF NonceFirst
<1>1. PICK k \in 1 .. Len(toCam) : toCam[k].nonce /\ \A j \in 1 .. k : ~IsData(toCam[j])
  BY DEF NonceFirst
<1>2. CASE toCam' = toCam BY <1>1, <1>2
<1>3. ASSUME NEW p \in Packets, toCam' = Append(toCam, p)
      PROVE  \E kk \in 1 .. Len(toCam') : toCam'[kk].nonce /\ \A j \in 1 .. kk : ~IsData(toCam'[j])
  <2>1. Len(toCam') = Len(toCam) + 1 /\ \A j \in 1 .. Len(toCam) : toCam'[j] = toCam[j] BY <1>3
  <2>2. k \in 1 .. Len(toCam') /\ \A j \in 1 .. k : j \in 1 .. Len(toCam) BY <2>1
  <2> QED BY <1>1, <2>1, <2>2
<1> QED BY <1>2, <1>3

\* A packet without a segment goes to the camera.
LEMMA ToCamera ==
    ASSUME IInv, NEW p \in Packets, ~IsData(p), toCam' = Append(toCam, p), UNCHANGED lostUp
    PROVE  /\ toCam' \in Seq(Packets) /\ Datas(toCam') = Datas(toCam)
           /\ ~lostUp' => Ascending(toCam')
<1>1. toCam \in Seq(Packets) /\ (~lostUp => Ascending(toCam)) BY DEF IInv, Types, InTurn
<1> QED BY <1>1, AppendDatas

\* A SYN is sent, or it was the last.
LEMMA SendSYNKeeps == ASSUME IInv, SendSYN PROVE IInv'
<1> USE DEF SendSYN, camVars, countVars, failVars
<1>1. Opening /\ Opening' /\ phase' \in Phases BY DEF Opening, Phases
<1>2. PICK p \in Packets : p = Packet("syn", cliSeq, FALSE, <<>>) /\ ~IsData(p)
  <2>1. Packet("syn", cliSeq, FALSE, <<>>) \in Packets BY DEF IInv, Types, Packet, Packets, Flags
  <2> QED BY <2>1 DEF Packet, IsData
<1>3. toCam' = toCam \/ toCam' = Append(toCam, p) BY <1>2
<1>4. toCam' \in Seq(Packets) /\ Datas(toCam') = Datas(toCam) /\ (~lostUp' => Ascending(toCam'))
  <2>1. CASE toCam' = toCam BY <2>1 DEF IInv, Types, InTurn
  <2>2. CASE toCam' = Append(toCam, p) BY <1>2, <2>2, ToCamera
  <2> QED BY <1>3, <2>1, <2>2
<1>5. Types' BY <1>1, <1>4 DEF IInv, Types
<1>6. Quiet' BY <1>1, <1>4 DEF IInv, Quiet
<1>7. Greeting(inQ') /\ Greeting(toCli') BY DEF IInv
<1>8. NonceFirst' BY <1>1 DEF NonceFirst
<1>9. InTurn' BY <1>4 DEF IInv, InTurn
<1>10. UpFlows' BY <1>1, <1>4, UpSame DEF IInv
<1>11. DownFlows' BY <1>1, DownSame DEF IInv
<1> QED BY <1>5, <1>6, <1>7, <1>8, <1>9, <1>10, <1>11 DEF IInv

\* The stream opens: the numbering begins, and the nonce goes first.
LEMMA OpenKeeps == ASSUME IInv, Open PROVE IInv'
<1> USE DEF Open, camVars, countVars, failVars
<1>0. phase = "await" /\ inQ # <<>> /\ inQ' = Tail(inQ) /\ Opening BY DEF Opening
<1>1. /\ inQ \in Seq(Packets) /\ toCam \in Seq(Packets) /\ Datas(inQ) = {} /\ Datas(toCam) = {}
      /\ Datas(toCli) = {} /\ Greeting(inQ)
  BY <1>0 DEF IInv, Types, Quiet
<1>2. PICK p \in Packets : /\ p = Head(inQ) /\ inQ' \in Seq(Packets) /\ Datas(inQ') = {}
                           /\ Ascending(inQ) => Ascending(inQ')
                           /\ Greeting(inQ')
                           /\ p.flag = "synack" => p.seq = 1 /\ p.nonce /\ p.data = <<>>
  <2>1. /\ Head(inQ) \in Packets /\ Tail(inQ) \in Seq(Packets) /\ Datas(Tail(inQ)) = {}
        /\ Ascending(inQ) => Ascending(Tail(inQ))
        /\ Greeting(Tail(inQ)) /\ Head(inQ) = inQ[1] /\ 1 \in 1 .. Len(inQ)
    BY <1>0, <1>1, TailDatas
  <2>2. Head(inQ).flag = "synack" => Head(inQ).seq = 1 /\ Head(inQ).nonce /\ Head(inQ).data = <<>>
    BY <1>1, <2>1 DEF Greeting
  <2> QED BY <1>0, <2>1, <2>2
<1>3. CASE p.flag = "synack"
  <2>1. /\ phase' = "open" /\ cliSeq' = 2 /\ srvSeq' = 1 /\ nonce' = FALSE /\ segment' \in 1 .. 2
        /\ toCam' = Append(toCam, Packet("ack", 1, p.nonce, <<>>))
    BY <1>2, <1>3
  <2>2. PICK a \in Packets : a = Packet("ack", 1, p.nonce, <<>>) /\ ~IsData(a) /\ a.nonce
    <3>1. Packet("ack", 1, p.nonce, <<>>) \in Packets BY <1>2 DEF Packet, Packets, Flags
    <3> QED BY <1>2, <1>3, <3>1 DEF Packet, IsData
  <2>3. toCam' \in Seq(Packets) /\ Datas(toCam') = {} /\ (~lostUp' => Ascending(toCam'))
    BY <1>1, <2>1, <2>2, ToCamera
  <2>4. ~Opening' BY <2>1 DEF Opening
  <2>5. Types' BY <1>2, <2>1, <2>3 DEF IInv, Types, Phases
  <2>6. Quiet' BY <2>4 DEF Quiet
  <2>7. Greeting(inQ') /\ Greeting(toCli') BY <1>2 DEF IInv
  <2>8. NonceFirst'
    <3>1. \A i \in 1 .. Len(toCam) : ~IsData(toCam[i]) BY <1>1, DatasSteps
    <3>2. Len(toCam') = Len(toCam) + 1 /\ toCam'[Len(toCam) + 1] = a /\ Len(toCam) \in Nat
          /\ \A i \in 1 .. Len(toCam) : toCam'[i] = toCam[i]
      BY <1>1, <2>1, <2>2
    <3>3. Len(toCam) + 1 \in 1 .. Len(toCam')
          /\ \A i \in 1 .. Len(toCam) + 1 : i \in 1 .. Len(toCam) \/ i = Len(toCam) + 1
      BY <3>2
    <3>4. \A i \in 1 .. Len(toCam) + 1 : ~IsData(toCam'[i]) BY <2>2, <3>1, <3>2, <3>3
    <3> QED BY <2>2, <3>2, <3>3, <3>4 DEF NonceFirst
  <2>9. InTurn'
    <3>1. ~lostDown' => Ascending(inQ') /\ Ascending(toCli') BY <1>2 DEF IInv, InTurn
    <3> QED BY <1>2, <2>3, <3>1 DEF InTurn
  <2>10. UpFlows'
    <3>1. ~lostUp => Flowing(camBuf, Len(gotUp), camNext, Datas(toCam), 2, out, sentUp)
      BY <1>0 DEF IInv, UpFlows
    <3>3. Datas(toCam') = Datas(toCam) BY <1>1, <2>3
    <3>2. /\ camBuf' = camBuf /\ gotUp' = gotUp /\ camNext' = camNext /\ out' = out
          /\ sentUp' = sentUp /\ lostUp' = lostUp
      BY <2>1
    <3> SUFFICES ASSUME ~lostUp'
                 PROVE  Flowing(camBuf', Len(gotUp'), camNext', Datas(toCam'), cliSeq', out',
                                sentUp')
      BY <2>4 DEF UpFlows
    <3> QED BY <2>1, <3>1, <3>2, <3>3
  <2>11. DownFlows'
    <3>1. ~lostDown => Flowing(readBuf, Len(gotDown), 2, Datas(inQ) \cup Datas(toCli), camSeq + 2,
                               camOut, sentDown)
      BY <1>0 DEF IInv, DownFlows
    <3>4. Datas(inQ') \cup Datas(toCli') = Datas(inQ) \cup Datas(toCli) BY <1>1, <1>2
    <3>2. /\ readBuf' = readBuf /\ gotDown' = gotDown /\ camSeq' = camSeq /\ camOut' = camOut
          /\ sentDown' = sentDown /\ lostDown' = lostDown /\ toCli' = toCli
      BY <2>1
    <3>3. srvSeq' + 1 = 2 BY <2>1
    <3>5. camSeq' + 2 = camSeq + 2 BY <3>2
    <3> SUFFICES ASSUME ~lostDown'
                 PROVE  Flowing(readBuf', Len(gotDown'), srvSeq' + 1,
                                Datas(inQ') \cup Datas(toCli'), camSeq' + 2, camOut', sentDown')
      BY <2>4 DEF DownFlows
    <3>6. Flowing(readBuf', Len(gotDown'), 2, Datas(inQ') \cup Datas(toCli'), camSeq' + 2, camOut',
                  sentDown')
      <4>1. Datas(inQ') \cup Datas(toCli) = Datas(inQ) \cup Datas(toCli) BY <3>2, <3>4
      <4> HIDE DEF Open, camVars, countVars, failVars
      <4> QED BY <3>1, <3>2, <3>5, <4>1
    <3> QED BY <3>3, <3>6
  <2> QED BY <2>5, <2>6, <2>7, <2>8, <2>9, <2>10, <2>11 DEF IInv
<1>4. CASE p.flag # "synack"
  <2>1. phase' = "syn" /\ UNCHANGED <<cliSeq, srvSeq, nonce, segment, toCam>> BY <1>2, <1>4
  <2>2. Opening' /\ Opening BY <1>0, <2>1 DEF Opening
  <2>3. Types' BY <1>2, <2>1 DEF IInv, Types, Phases
  <2>4. Quiet' BY <1>2, <2>1, <2>2 DEF IInv, Quiet
  <2>5. Greeting(inQ') /\ Greeting(toCli') BY <1>2 DEF IInv
  <2>6. NonceFirst' BY <1>0, <2>2 DEF NonceFirst
  <2>7. InTurn' BY <1>2, <2>1 DEF IInv, InTurn
  <2>8. UpFlows' BY <2>1, <2>2, UpSame DEF IInv
  <2>9. DownFlows' BY <1>1, <1>2, <2>1, <2>2, DownSame DEF IInv
  <2> QED BY <2>3, <2>4, <2>5, <2>6, <2>7, <2>8, <2>9 DEF IInv
<1> QED BY <1>3, <1>4

\* The buffer may start with these lengths.
LEMMA LengthSteps == ASSUME NEW buf \in Seq(Units), NEW n \in LengthsOf(buf) PROVE n \in Nat
<1>1. MaxBody \in Nat BY StreamAssumption
<1>2. CASE /\ Len(buf) >= LengthUnits
           /\ \A i \in 1 .. LengthUnits : buf[i].of = buf[1].of /\ buf[i].at = i
  <2>1. n = buf[1].body BY <1>2 DEF LengthsOf
  <2>2. 1 \in 1 .. Len(buf) BY <1>2 DEF LengthUnits
  <2>3. buf[1] \in Units BY <2>2
  <2> QED BY <2>1, <2>3 DEF Units
<1>3. CASE ~(/\ Len(buf) >= LengthUnits
             /\ \A i \in 1 .. LengthUnits : buf[i].of = buf[1].of /\ buf[i].at = i)
  <2>1. n \in 0 .. MaxBody BY <1>3 DEF LengthsOf
  <2> QED BY <1>1, <2>1
<1> QED BY <1>2, <1>3

\* What is left of a buffer, and what was cut out of it.
LEMMA CutTypes ==
    ASSUME NEW buf \in Seq(Units), NEW got \in Seq(Nat), NEW n \in Nat, WholeAt(buf, n)
    PROVE  /\ SubSeq(buf, LengthUnits + n + 1, Len(buf)) \in Seq(Units)
           /\ Append(got, Name(SubSeq(buf, 1, LengthUnits + n))) \in Seq(Nat)
<1>1. PICK l \in Nat, e \in Nat : l = Len(buf) /\ e = LengthUnits + n /\ e <= l
  BY DEF WholeAt, LengthUnits
<1>2. e + 1 \in 1 .. l + 1 /\ l \in 0 .. l /\ e + 1 <= l + 1
      /\ 1 \in 1 .. l + 1 /\ e \in 0 .. l /\ 1 <= e + 1
  BY <1>1
<1>3. SubSeq(buf, e + 1, l) \in Seq(Units) /\ SubSeq(buf, 1, e) \in Seq(Units)
  BY <1>1, <1>2, PartSteps
<1>4. Name(SubSeq(buf, 1, e)) \in Nat
  <2> DEFINE c == SubSeq(buf, 1, e)
  <2> HIDE DEF c
  <2>1. CASE c # <<>>
    <3>1. c[1] \in Units BY <1>3, <2>1 DEF c
    <3> QED BY <3>1 DEF Name, Units, c
  <2>2. CASE c = <<>> BY <2>2 DEF Name, IsFrame, c
  <2> QED BY <2>1, <2>2
<1>5. Append(got, Name(SubSeq(buf, 1, e))) \in Seq(Nat) BY <1>4, AppendProperties
<1> QED BY <1>1, <1>3, <1>5

\* A message is cut out of the client's buffer.
LEMMA CutMessageKeeps ==
    ASSUME IInv, NEW n \in LengthsOf(readBuf), n \in Nat, CutMessage(n) PROVE IInv'
<1> USE DEF CutMessage, cliVars, camVars, failVars, wires
<1>0. Opening' <=> Opening BY DEF Opening
<1>1. ~Opening BY DEF Opening
<1>2. readBuf' \in Seq(Units) /\ gotDown' \in Seq(Nat) BY CutTypes DEF IInv, Types
<1>3. Types' BY <1>2 DEF IInv, Types
<1>4. Quiet' BY <1>0, <1>1 DEF Quiet
<1>5. Greeting(inQ') /\ Greeting(toCli') BY DEF IInv
<1>6. NonceFirst' BY <1>0 DEF IInv, NonceFirst
<1>7. InTurn' BY DEF IInv, InTurn
<1>8. UpFlows' BY <1>0, UpSame DEF IInv
<1>9. DownFlows'
  <2> SUFFICES ASSUME ~lostDown
               PROVE  Flowing(readBuf', Len(gotDown'), srvSeq + 1, Datas(inQ) \cup Datas(toCli),
                              camSeq + 2, camOut, sentDown)
    BY <1>0, <1>1 DEF DownFlows
  <2>1. Flowing(readBuf, Len(gotDown), srvSeq + 1, Datas(inQ) \cup Datas(toCli), camSeq + 2, camOut,
                sentDown)
    BY <1>1 DEF IInv, DownFlows
  <2>2. Flowing(readBuf', Len(gotDown) + 1, srvSeq + 1, Datas(inQ) \cup Datas(toCli), camSeq + 2,
                camOut, sentDown)
    BY <2>1, FlowTypes, FlowCuts
  <2>3. Len(gotDown') = Len(gotDown) + 1 BY DEF IInv, Types
  <2> QED BY <2>2, <2>3
<1> QED BY <1>3, <1>4, <1>5, <1>6, <1>7, <1>8, <1>9 DEF IInv

\* The client reads a packet: if it is a segment, it is the next one.
LEMMA ReadPacketKeeps == ASSUME IInv, ReadPacket PROVE IInv'
<1> USE DEF ReadPacket, camVars, countVars, failVars
<1>0. (Opening' <=> Opening) /\ ~Opening BY DEF Opening
<1>1. /\ inQ \in Seq(Packets) /\ inQ # <<>> /\ inQ' = Tail(inQ) /\ readBuf \in Seq(Units)
      /\ srvSeq \in Nat
  BY DEF IInv, Types
<1>2. PICK p \in Packets :
        /\ p = Head(inQ) /\ inQ' \in Seq(Packets)
        /\ Datas(inQ) = Datas(inQ') \cup (IF IsData(p) THEN {p} ELSE {})
        /\ Ascending(inQ) => Ascending(inQ')
        /\ Greeting(inQ) => Greeting(inQ')
  BY <1>1, TailDatas
<1>3. p.data \in Seq(Units) /\ p.seq \in Nat BY DEF Packets
<1>4. /\ readBuf' = readBuf \o p.data /\ srvSeq' = IF IsData(p) THEN p.seq ELSE srvSeq
      /\ toCam' = Append(toCam, Packet("ack", srvSeq', FALSE, <<>>))
  BY <1>2 DEF IsData
<1>5. srvSeq' \in Nat /\ readBuf' \in Seq(Units)
  <2>1. readBuf \o p.data \in Seq(Units) BY <1>1, <1>3
  <2>2. srvSeq' \in Nat BY <1>1, <1>3, <1>4
  <2> QED BY <1>4, <2>1, <2>2
<1>6. PICK a \in Packets : a = Packet("ack", srvSeq', FALSE, <<>>) /\ ~IsData(a)
  <2>1. Packet("ack", srvSeq', FALSE, <<>>) \in Packets BY <1>5 DEF Packet, Packets, Flags
  <2> QED BY <2>1 DEF Packet, IsData
<1>7. toCam' \in Seq(Packets) /\ Datas(toCam') = Datas(toCam) /\ (~lostUp' => Ascending(toCam'))
  BY <1>4, <1>6, ToCamera
<1>8. Types' BY <1>2, <1>5, <1>7 DEF IInv, Types
<1>9. Quiet' BY <1>0 DEF Quiet
<1>10. Greeting(inQ') /\ Greeting(toCli') BY <1>2 DEF IInv
<1>11. NonceFirst' BY <1>0, <1>4, <1>6, NonceSame DEF IInv, Types
<1>12. InTurn'
  <2>1. Datas(inQ') \subseteq Datas(inQ) BY <1>2
  <2> QED BY <1>2, <1>7, <2>1 DEF IInv, InTurn
<1>13. UpFlows' BY <1>0, <1>7, UpSame DEF IInv
<1>14. DownFlows'
  <2>1. CASE ~IsData(p)
    <3>1. p.data = <<>> BY <2>1 DEF IsData
    <3>2. readBuf' = readBuf BY <1>1, <1>4, <3>1, ConcatEmptySeq
    <3> QED BY <1>0, <1>2, <1>4, <2>1, <3>2, DownSame DEF IInv
  <2>2. CASE IsData(p)
    <3> SUFFICES ASSUME ~lostDown
                 PROVE  Flowing(readBuf \o p.data, Len(gotDown), p.seq + 1,
                                Datas(inQ') \cup Datas(toCli), camSeq + 2, camOut, sentDown)
      BY <1>0, <1>4, <2>2 DEF DownFlows
    <3>1. Flowing(readBuf, Len(gotDown), srvSeq + 1,
                  Datas(inQ) \cup Datas(toCli), camSeq + 2, camOut,
                  sentDown)
      BY <1>0 DEF IInv, DownFlows
    <3>2. Numbered(srvSeq + 1, Datas(inQ) \cup Datas(toCli), camSeq + 2) BY <3>1 DEF Flowing
    <3>3. Ascending(inQ) /\ \A r \in Datas(toCli) : p.seq < r.seq
      BY <1>2, <2>2 DEF IInv, InTurn
    <3>4. p.seq = srvSeq + 1 /\ \A r \in Datas(inQ') \cup Datas(toCli) : r.seq # srvSeq + 1
      BY <1>1, <1>2, <2>2, <3>2, <3>3, FlowTypes, HeadIsNext
    <3>5. PICK D \in SUBSET Segments, E \in SUBSET Segments :
              /\ D = Datas(inQ) \cup Datas(toCli) /\ E = Datas(inQ') \cup Datas(toCli)
      BY <1>2, FlowTypes
    <3>6. p \in D /\ D = E \cup {p} /\ E \in SUBSET D BY <1>2, <2>2, <3>5
    <3>7. Flowing(readBuf \o p.data, Len(gotDown), (srvSeq + 1) + 1, E, camSeq + 2, camOut,
                  sentDown)
      BY <3>1, <3>4, <3>5, <3>6, FlowTypes, FlowReads
    <3> QED BY <3>4, <3>5, <3>7
  <2> QED BY <2>1, <2>2
<1> QED BY <1>8, <1>9, <1>10, <1>11, <1>12, <1>13, <1>14 DEF IInv

\* An ACK is repeated.
LEMMA RepeatACKKeeps == ASSUME IInv, RepeatACK PROVE IInv'
<1> USE DEF RepeatACK, cliVars, camVars, countVars, failVars
<1>0. Opening' <=> Opening BY DEF Opening
<1>1. PICK a \in Packets : a = ACKPacket(<<>>) /\ ~IsData(a)
  <2>0. <<>> \in Seq(Units) OBVIOUS
  <2>1. srvSeq \in Nat /\ nonce \in BOOLEAN /\ <<>> \in Seq(Units) BY <2>0 DEF IInv, Types
  <2>2. ACKPacket(<<>>) \in Packets BY <2>1 DEF ACKPacket, Packet, Packets, Flags
  <2> QED BY <2>2 DEF ACKPacket, Packet, IsData
<1>2. toCam' \in Seq(Packets) /\ Datas(toCam') = Datas(toCam) /\ (~lostUp' => Ascending(toCam'))
  BY <1>1, ToCamera
<1>3. Types' BY <1>2 DEF IInv, Types
<1>4. Quiet' BY <1>0, <1>2 DEF IInv, Quiet
<1>5. Greeting(inQ') /\ Greeting(toCli') BY DEF IInv
<1>6. NonceFirst' BY <1>0, <1>1, NonceSame DEF IInv, Types
<1>7. InTurn' BY <1>2 DEF IInv, InTurn
<1>8. UpFlows' BY <1>0, <1>2, UpSame DEF IInv
<1>9. DownFlows' BY <1>0, DownSame DEF IInv
<1> QED BY <1>3, <1>4, <1>5, <1>6, <1>7, <1>8, <1>9 DEF IInv

\* A message is framed by the client, or by the camera.
LEMMA WriteMsgKeeps == ASSUME IInv, WriteMsg PROVE IInv'
<1> USE DEF WriteMsg, cliVars, camVars, countVars, failVars, wires
<1>0. (Opening' <=> Opening) /\ ~Opening BY DEF Opening
<1>1. PICK b \in Nat : out' = Frame(sentUp + 1, b) BY StreamAssumption
<1>2. sentUp + 1 \in Nat /\ sentUp \in Nat BY DEF IInv, Types
<1>3. out' \in Seq(Units) BY <1>1, <1>2, FrameSteps
<1>4. Types' BY <1>3 DEF IInv, Types
<1>5. Quiet' BY <1>0 DEF Quiet
<1>6. Greeting(inQ') /\ Greeting(toCli') BY DEF IInv
<1>7. NonceFirst' BY <1>0 DEF IInv, NonceFirst
<1>8. InTurn' BY DEF IInv, InTurn
<1>9. DownFlows' BY <1>0, DownSame DEF IInv
<1>10. UpFlows'
  <2> SUFFICES ASSUME ~lostUp
               PROVE  Flowing(camBuf, Len(gotUp), camNext, Datas(toCam), cliSeq, out', sentUp)
    BY <1>0 DEF UpFlows
  <2>1. Flowing(camBuf, Len(gotUp), camNext, Datas(toCam), cliSeq, <<>>, sentUp)
    BY <1>0 DEF IInv, UpFlows
  <2>2. \A u \in Before(cliSeq, camBuf, Len(gotUp), camNext, Datas(toCam)) : u \in Units
    BY FlowTypes, BeforeUnits
  <2> QED BY <1>1, <1>2, <2>1, <2>2, FlowWrites
<1> QED BY <1>4, <1>5, <1>6, <1>7, <1>8, <1>9, <1>10 DEF IInv

\* The camera begins a message.
LEMMA CameraWritesKeeps == ASSUME IInv, CameraWrites PROVE IInv'
<1> USE DEF CameraWrites, cliVars, camVars, countVars, failVars, wires
<1>0. (Opening' <=> Opening) /\ ~Opening BY DEF Opening, IInv, Quiet
<1>1. PICK b \in Nat : camOut' = Frame(sentDown + 1, b) BY StreamAssumption
<1>2. sentDown + 1 \in Nat /\ sentDown \in Nat BY DEF IInv, Types
<1>3. camOut' \in Seq(Units) BY <1>1, <1>2, FrameSteps
<1>4. Types' BY <1>3 DEF IInv, Types
<1>5. Quiet' BY <1>0 DEF Quiet
<1>6. Greeting(inQ') /\ Greeting(toCli') BY DEF IInv
<1>7. NonceFirst' BY <1>0 DEF IInv, NonceFirst
<1>8. InTurn' BY DEF IInv, InTurn
<1>9. UpFlows' BY <1>0, UpSame DEF IInv
<1>10. DownFlows'
  <2> SUFFICES ASSUME ~lostDown
               PROVE  Flowing(readBuf, Len(gotDown), srvSeq + 1,
                              Datas(inQ) \cup Datas(toCli), camSeq + 2,
                              camOut', sentDown)
    BY <1>0 DEF DownFlows
  <2>1. Flowing(readBuf, Len(gotDown), srvSeq + 1, Datas(inQ) \cup Datas(toCli), camSeq + 2, <<>>,
                sentDown)
    BY <1>0 DEF IInv, DownFlows
  <2>2. \A u \in Before(camSeq + 2, readBuf, Len(gotDown), srvSeq + 1,
                        Datas(inQ) \cup Datas(toCli)) :
            u \in Units
    BY FlowTypes, BeforeUnits
  <2> QED BY <1>1, <1>2, <2>1, <2>2, FlowWrites
<1> QED BY <1>4, <1>5, <1>6, <1>7, <1>8, <1>9, <1>10 DEF IInv

\* The client sends a segment.
LEMMA WriteChunkKeeps == ASSUME IInv, WriteChunk PROVE IInv'
<1> USE DEF WriteChunk, camVars, failVars
<1>0. (Opening' <=> Opening) /\ ~Opening BY DEF Opening, IInv, Quiet
<1>1. PICK n \in 1 .. Len(out) : n = (IF segment < Len(out) THEN segment ELSE Len(out))
  BY DEF IInv, Types
<1>2. PICK l \in Nat : l = Len(out) /\ out \in Seq(Units) BY DEF IInv, Types
<1>3. /\ toCam' = Append(toCam, ACKPacket(SubSeq(out, 1, n))) /\ cliSeq' = cliSeq + 1
      /\ out' = SubSeq(out, n + 1, Len(out))
      /\ sentUp' = IF n = Len(out) THEN sentUp + 1 ELSE sentUp
  BY <1>1 DEF ChunkEnd
<1>4. SubSeq(out, 1, n) \in Seq(Units) /\ SubSeq(out, 1, n) # <<>> /\ out' \in Seq(Units)
  <2>1. 1 \in 1 .. l + 1 /\ n \in 0 .. l /\ 1 <= n + 1 /\ n + 1 \in 1 .. l + 1 /\ l \in 0 .. l
        /\ n + 1 <= l + 1 /\ n + 1 - 1 = n /\ n # 0
    BY <1>2
  <2>2. SubSeq(out, 1, n) \in Seq(Units) /\ Len(SubSeq(out, 1, n)) = n + 1 - 1
    BY <1>2, <2>1, PartSteps
  <2>3. SubSeq(out, n + 1, l) \in Seq(Units) BY <1>2, <2>1, PartSteps
  <2>4. SubSeq(out, 1, n) # <<>>
    <3>1. Len(<<>>) = 0 OBVIOUS
    <3> QED BY <2>1, <2>2, <3>1
  <2> QED BY <1>2, <1>3, <2>2, <2>3, <2>4
<1>5. PICK p \in Segments : /\ p = ACKPacket(SubSeq(out, 1, n)) /\ p.seq = cliSeq
                            /\ p.data = SubSeq(out, 1, n) /\ IsData(p)
  <2> DEFINE d == SubSeq(out, 1, n)
  <2> HIDE DEF d
  <2>1. d \in Seq(Units) /\ d # <<>> BY <1>4 DEF d
  <2>2. ACKPacket(d) \in Packets /\ ACKPacket(d).seq = cliSeq /\ ACKPacket(d).data = d
    BY <2>1 DEF IInv, Types, ACKPacket, Packet, Packets, Flags
  <2> QED BY <2>1, <2>2 DEF d, Segments, IsData
<1>6. toCam \in Seq(Packets) /\ p \in Packets BY DEF IInv, Types, Segments
<1>7. toCam' \in Seq(Packets) /\ Datas(toCam') = Datas(toCam) \cup {p}
  BY <1>3, <1>5, <1>6, AppendDatas
<1>8. cliSeq' \in Nat /\ sentUp' \in Nat BY <1>3 DEF IInv, Types
<1>9. ~lostUp => Flowing(camBuf, Len(gotUp), camNext, Datas(toCam), cliSeq, out, sentUp)
  BY <1>0 DEF IInv, UpFlows
<1>10. ~lostUp => Ascending(toCam')
  <2> SUFFICES ASSUME ~lostUp PROVE Ascending(toCam') OBVIOUS
  <2>1. \A r \in Datas(toCam) : r.seq < p.seq BY <1>5, <1>9 DEF Flowing, Numbered
  <2>2. Ascending(toCam) BY DEF IInv, InTurn
  <2> QED BY <1>3, <1>5, <1>6, <2>1, <2>2, AppendDatas
<1>11. Types' BY <1>4, <1>7, <1>8 DEF IInv, Types
<1>12. Quiet' BY <1>0 DEF Quiet
<1>13. Greeting(inQ') /\ Greeting(toCli') BY DEF IInv
<1>14. NonceFirst' BY <1>0, <1>3, <1>5, <1>6, NonceSame DEF IInv
<1>15. InTurn' BY <1>10 DEF IInv, InTurn
<1>16. DownFlows' BY <1>0, DownSame DEF IInv
<1>17. UpFlows'
  <2> SUFFICES ASSUME ~lostUp
               PROVE  Flowing(camBuf, Len(gotUp), camNext, Datas(toCam) \cup {p}, cliSeq + 1, out',
                              sentUp')
    BY <1>0, <1>3, <1>7 DEF UpFlows
  <2>1. Flowing(camBuf, Len(gotUp), camNext, Datas(toCam) \cup {p}, cliSeq + 1,
                SubSeq(out, n + 1, Len(out)), IF n = Len(out) THEN sentUp + 1 ELSE sentUp)
    BY <1>5, <1>9, FlowTypes, FlowSends
  <2> QED BY <1>3, <2>1
<1> QED BY <1>11, <1>12, <1>13, <1>14, <1>15, <1>16, <1>17 DEF IInv

\* The client closes its end.
LEMMA CloseKeeps == ASSUME IInv, Close PROVE IInv'
<1> USE DEF Close, camVars, countVars, failVars, wires
<1>0. (Opening' <=> Opening) /\ ~Opening BY DEF Opening
<1>1. Types' BY DEF IInv, Types, Phases
<1>2. Quiet' BY <1>0 DEF Quiet
<1>3. Greeting(inQ') /\ Greeting(toCli') BY DEF IInv
<1>4. NonceFirst' BY <1>0 DEF IInv, NonceFirst
<1>5. InTurn' BY DEF IInv, InTurn
<1>6. UpFlows' BY <1>0, UpSame DEF IInv
<1>7. DownFlows' BY <1>0, DownSame DEF IInv
<1> QED BY <1>1, <1>2, <1>3, <1>4, <1>5, <1>6, <1>7 DEF IInv

\* A packet is queued, or dropped: no segment of a direction that counts as unbroken.
LEMMA HandleIncomingPacketKeeps == ASSUME IInv, HandleIncomingPacket PROVE IInv'
<1> USE DEF HandleIncomingPacket, cliVars, camVars, countVars
<1>0. Opening' <=> Opening BY DEF Opening
<1>1. /\ inQ \in Seq(Packets) /\ toCli \in Seq(Packets) /\ toCli # <<>> /\ toCli' = Tail(toCli)
      /\ Greeting(inQ) /\ Greeting(toCli) /\ lostDown \in BOOLEAN
  BY DEF IInv, Types
<1>2. PICK p \in Packets :
        /\ p = Head(toCli) /\ toCli' \in Seq(Packets) /\ p = toCli[1] /\ 1 \in 1 .. Len(toCli)
        /\ Datas(toCli) = Datas(toCli') \cup (IF IsData(p) THEN {p} ELSE {})
        /\ Ascending(toCli) => /\ Ascending(toCli')
                               /\ IsData(p) => \A r \in Datas(toCli') : p.seq < r.seq
        /\ Greeting(toCli')
  BY <1>1, TailDatas
<1>3. p.flag = "synack" => p.seq = 1 /\ p.nonce /\ p.data = <<>> BY <1>1, <1>2 DEF Greeting
<1>4. \/ inQ' = Append(inQ, p) /\ lostDown' = lostDown
      \/ inQ' = inQ /\ lostDown' = (lostDown \/ IsData(p))
  BY <1>2
<1>5. /\ inQ' \in Seq(Packets) /\ Greeting(inQ')
      /\ inQ' = Append(inQ, p) => Datas(inQ') = Datas(inQ) \cup (IF IsData(p) THEN {p} ELSE {})
  <2>1. CASE inQ' = inQ BY <1>1, <2>1, AppendDatas
  <2>2. CASE inQ' = Append(inQ, p) BY <1>1, <1>3, <2>2, AppendDatas
  <2> QED BY <1>4, <2>1, <2>2
<1>6. /\ lostDown' \in BOOLEAN
      /\ ~lostDown' => ~lostDown /\ (inQ' = inQ => ~IsData(p) \/ inQ' = Append(inQ, p))
  BY <1>1, <1>4, Zenon
<1>7. ~lostDown' => Datas(inQ') \cup Datas(toCli') = Datas(inQ) \cup Datas(toCli)
  <2> SUFFICES ASSUME ~lostDown' PROVE Datas(inQ') \cup Datas(toCli') = Datas(inQ) \cup Datas(toCli)
    OBVIOUS
  <2>1. CASE inQ' = Append(inQ, p) BY <1>2, <1>5, <2>1
  <2>2. CASE inQ' # Append(inQ, p)
    <3>1. inQ' = inQ BY <1>4, <2>2
    <3>2. ~IsData(p) BY <1>6, <2>2, <3>1
    <3> QED BY <1>2, <3>1, <3>2
  <2> QED BY <2>1, <2>2
<1>8. Types' BY <1>2, <1>5, <1>6 DEF IInv, Types
<1>9. Quiet'
  <2> SUFFICES ASSUME Opening' PROVE Datas(inQ') = {} /\ Datas(toCli') = {}
    BY <1>0 DEF IInv, Quiet
  <2>1. Datas(toCli) = {} /\ Datas(inQ) = {} BY <1>0 DEF IInv, Quiet
  <2>2. ~IsData(p) /\ Datas(toCli') = {} BY <1>2, <2>1
  <2>3. Datas(inQ') = {}
    <3>1. CASE inQ' = Append(inQ, p) BY <1>5, <2>1, <2>2, <3>1
    <3>2. CASE inQ' = inQ BY <2>1, <3>2
    <3> QED BY <1>4, <3>1, <3>2
  <2> QED BY <2>2, <2>3
<1>10. NonceFirst' BY <1>0 DEF IInv, NonceFirst
<1>11. InTurn'
  <2>1. ~lostUp' => Ascending(toCam') BY DEF IInv, InTurn
  <2> SUFFICES ASSUME ~lostDown'
               PROVE  /\ Ascending(inQ') /\ Ascending(toCli')
                      /\ \A r \in Datas(inQ'), s \in Datas(toCli') : r.seq < s.seq
    BY <2>1 DEF InTurn
  <2>2. /\ Ascending(inQ) /\ Ascending(toCli)
        /\ \A r \in Datas(inQ), s \in Datas(toCli) : r.seq < s.seq
    BY <1>6 DEF IInv, InTurn
  <2>3. IsData(p) => \A r \in Datas(inQ) : r.seq < p.seq BY <1>2, <2>2
  <2>4. Ascending(inQ')
    <3>1. CASE inQ' = Append(inQ, p) BY <1>1, <2>2, <2>3, <3>1, AppendDatas
    <3>2. CASE inQ' = inQ BY <2>2, <3>2
    <3> QED BY <1>4, <3>1, <3>2
  <2>5. \A r \in Datas(inQ') : r \in Datas(inQ) \/ (IsData(p) /\ r = p)
    <3>1. CASE inQ' = Append(inQ, p) BY <1>5, <3>1
    <3>2. CASE inQ' = inQ BY <3>2
    <3> QED BY <1>4, <3>1, <3>2
  <2>6. \A s \in Datas(toCli') : s \in Datas(toCli) /\ (IsData(p) => p.seq < s.seq)
    BY <1>2, <2>2
  <2> QED BY <1>2, <2>2, <2>4, <2>5, <2>6
<1>12. UpFlows' BY <1>0, UpSame DEF IInv
<1>13. DownFlows' BY <1>0, <1>6, <1>7, DownSame DEF IInv
<1> QED BY <1>2, <1>5, <1>8, <1>9, <1>10, <1>11, <1>12, <1>13 DEF IInv

\* The network loses a packet or lets another overtake it.
LEMMA NetworkFailsKeeps == ASSUME IInv, NetworkFails PROVE IInv'
<1> USE DEF cliVars, camVars, countVars
<1>0. /\ Opening' <=> Opening
      /\ UNCHANGED <<phase, syns, segment, cliSeq, srvSeq, nonce, inQ, readBuf, out, camOpen,
                     camSeq,
                     camBuf, camNext, unacked, camOut, sentUp, sentDown, gotUp, gotDown>>
  BY DEF Opening, NetworkFails
<1>1. CASE /\ toCli # <<>> /\ toCli' \in Fail(toCli)
           /\ lostDown' = (lostDown \/ IsData(Head(toCli)))
           /\ UNCHANGED <<toCam, lostUp>>
  <2>1. toCli \in Seq(Packets) /\ Greeting(toCli) /\ lostDown \in BOOLEAN BY DEF IInv, Types
  <2>2. /\ toCli' \in Seq(Packets) /\ Greeting(toCli') /\ Datas(toCli') \subseteq Datas(toCli)
        /\ ~IsData(Head(toCli)) => /\ Datas(toCli') = Datas(toCli)
                                   /\ Ascending(toCli) => Ascending(toCli')
    BY <1>1, <2>1, FailDatas
  <2>3. lostDown' \in BOOLEAN /\ (~lostDown' => ~lostDown /\ ~IsData(Head(toCli)))
    BY <1>1, <2>1, Zenon
  <2>4. Types' BY <1>0, <1>1, <2>2, <2>3 DEF IInv, Types
  <2>5. Quiet' BY <1>0, <1>1, <2>2 DEF IInv, Quiet
  <2>6. Greeting(inQ') /\ Greeting(toCli') BY <1>0, <2>2 DEF IInv
  <2>7. NonceFirst' BY <1>0, <1>1 DEF IInv, NonceFirst
  <2>8. InTurn'
    <3>1. ~lostUp' => Ascending(toCam') BY <1>1 DEF IInv, InTurn
    <3>2. ~lostDown' => /\ Ascending(inQ') /\ Ascending(toCli')
                        /\ \A r \in Datas(inQ'), s \in Datas(toCli') : r.seq < s.seq
      BY <1>0, <2>2, <2>3 DEF IInv, InTurn
    <3> QED BY <3>1, <3>2 DEF InTurn
  <2>9. UpFlows' BY <1>0, <1>1, UpSame DEF IInv
  <2>10. DownFlows' BY <1>0, <2>2, <2>3, DownSame DEF IInv
  <2> QED BY <2>4, <2>5, <2>6, <2>7, <2>8, <2>9, <2>10 DEF IInv
<1>2. CASE /\ toCam # <<>> /\ toCam' \in Fail(toCam)
           /\ lostUp' = (lostUp \/ IsData(Head(toCam)) \/ Head(toCam).nonce)
           /\ UNCHANGED <<toCli, lostDown>>
  <2>1. toCam \in Seq(Packets) /\ lostUp \in BOOLEAN BY DEF IInv, Types
  <2>2. /\ toCam' \in Seq(Packets) /\ Datas(toCam') \subseteq Datas(toCam)
        /\ ~IsData(Head(toCam)) => /\ Datas(toCam') = Datas(toCam)
                                   /\ Ascending(toCam) => Ascending(toCam')
    BY <1>2, <2>1, FailDatas
  <2>3. ~lostUp' => ~lostUp /\ ~IsData(Head(toCam)) /\ ~Head(toCam).nonce BY <1>2, Zenon
  <2>4. lostUp' \in BOOLEAN
    <3>1. IsData(Head(toCam)) \in BOOLEAN BY DEF IsData
    <3>2. Head(toCam).nonce \in BOOLEAN BY <1>2, <2>1, TailDatas DEF Packets
    <3> QED BY <1>2, <2>1, <3>1, <3>2
  <2>5. Types' BY <1>0, <1>2, <2>2, <2>4 DEF IInv, Types
  <2>6. Quiet' BY <1>0, <1>2, <2>2 DEF IInv, Quiet
  <2>7. Greeting(inQ') /\ Greeting(toCli') BY <1>0, <1>2 DEF IInv
  <2>8. NonceFirst'
    <3> SUFFICES ASSUME ~lostUp', ~Opening', ~camOpen'
                 PROVE  \E k \in 1 .. Len(toCam') :
                            toCam'[k].nonce /\ \A j \in 1 .. k : ~IsData(toCam'[j])
      BY DEF NonceFirst
    <3>1. PICK l \in Nat : l = Len(toCam) /\ 1 <= l BY <1>2, <2>1
    <3>2. PICK k \in 1 .. l : toCam[k].nonce /\ \A j \in 1 .. k : ~IsData(toCam[j])
      BY <1>0, <2>3, <3>1 DEF IInv, NonceFirst
    <3>3. Head(toCam) = toCam[1] BY <1>2, <2>1
    <3>4. k # 1 BY <2>3, <3>2, <3>3
    <3>5. CASE toCam' = Tail(toCam)
      <4>1. Len(toCam') = l - 1 /\ \A i \in 1 .. l - 1 : toCam'[i] = toCam[i + 1]
        BY <1>2, <2>1, <3>1, <3>5
      <4>2. /\ k - 1 \in 1 .. l - 1 /\ (k - 1) + 1 = k
            /\ \A j \in 1 .. k - 1 : j + 1 \in 1 .. k /\ j \in 1 .. l - 1
        BY <3>1, <3>4
      <4>3. toCam'[k - 1] = toCam[k] BY <4>1, <4>2
      <4>4. \A j \in 1 .. k - 1 : toCam'[j] = toCam[j + 1] BY <4>1, <4>2
      <4> QED BY <3>2, <4>1, <4>2, <4>3, <4>4
    <3>6. CASE 1 < l /\ toCam' = <<toCam[2], toCam[1]>> \o SubSeq(toCam, 3, l)
      <4>0. PICK q, t : q \in Seq(Packets) /\ q = toCam /\ t = toCam' BY <2>1
      <4>1. Len(toCam') = l /\ toCam'[1] = toCam[2] /\ toCam'[2] = toCam[1]
            /\ \A i \in 3 .. l : toCam'[i] = toCam[i]
        BY <3>1, <3>6, <4>0, SwapSteps
      <4>2. CASE k = 2
        <5>1. 1 \in 1 .. l /\ \A j \in 1 .. 1 : j = 1 BY <3>1
        <5>2. 2 \in 1 .. k BY <4>2
        <5> QED BY <3>2, <4>1, <4>2, <5>1, <5>2
      <4>3. CASE k # 2
        <5>1. k \in 3 .. l /\ 1 \in 1 .. k /\ 2 \in 1 .. k BY <3>4, <4>3
        <5>2. \A j \in 1 .. k : j = 1 \/ j = 2 \/ j \in 3 .. l BY <5>1
        <5>3. \A j \in 1 .. k : ~IsData(toCam'[j]) BY <3>2, <4>1, <5>1, <5>2
        <5>4. toCam'[k].nonce BY <3>2, <4>1, <5>1
        <5> QED BY <4>1, <5>3, <5>4
      <4> QED BY <4>2, <4>3
    <3> QED BY <1>2, <3>1, <3>5, <3>6 DEF Fail
  <2>9. InTurn'
    <3>1. ~lostUp' => Ascending(toCam') BY <2>2, <2>3 DEF IInv, InTurn
    <3> QED BY <1>0, <1>2, <3>1 DEF IInv, InTurn
  <2>10. UpFlows' BY <1>0, <2>2, <2>3, UpSame DEF IInv
  <2>11. DownFlows' BY <1>0, <1>2, DownSame DEF IInv
  <2> QED BY <2>5, <2>6, <2>7, <2>8, <2>9, <2>10, <2>11 DEF IInv
<1> QED BY <1>1, <1>2 DEF NetworkFails

\* The camera reads a packet: a segment is the one it expects.
LEMMA CameraReadsKeeps == ASSUME IInv, CameraReads PROVE IInv'
<1> USE DEF cliVars, countVars, failVars
<1>0. /\ Opening' <=> Opening
      /\ UNCHANGED <<phase, syns, segment, cliSeq, srvSeq, nonce, inQ, readBuf, out, camSeq, camOut,
                     sentUp, sentDown, gotUp, gotDown, lostUp, lostDown, faults>>
  BY DEF Opening, CameraReads
<1>1. /\ toCam \in Seq(Packets) /\ toCam # <<>> /\ toCam' = Tail(toCam) /\ camBuf \in Seq(Units)
      /\ camNext \in Nat /\ camOpen \in BOOLEAN /\ toCli \in Seq(Packets) /\ unacked \in Seq(ACKs)
  BY DEF IInv, Types, CameraReads
<1>2. PICK p \in Packets :
        /\ p = Head(toCam) /\ p = toCam[1] /\ 1 \in 1 .. Len(toCam) /\ toCam' \in Seq(Packets)
        /\ Datas(toCam) = Datas(toCam') \cup (IF IsData(p) THEN {p} ELSE {})
        /\ Ascending(toCam) => Ascending(toCam')
  BY <1>1, TailDatas
<1>3. p.data \in Seq(Units) /\ p.seq \in Nat /\ p.nonce \in BOOLEAN BY DEF Packets
<1>4. PICK new \in BOOLEAN :
        /\ new = (IsData(p) /\ p.seq = camNext /\ camOpen)
        /\ camOpen' = (camOpen \/ p.nonce)
        /\ camBuf' = IF new THEN camBuf \o p.data ELSE camBuf
        /\ camNext' = IF new THEN camNext + 1 ELSE camNext
  BY <1>2 DEF CameraReads, IsData
<1>5. PICK a \in Packets : /\ a = Packet("synack", 1, TRUE, <<>>) /\ ~IsData(a)
                           /\ a.seq = 1 /\ a.nonce /\ a.data = <<>>
  <2>1. Packet("synack", 1, TRUE, <<>>) \in Packets BY DEF Packet, Packets, Flags
  <2> QED BY <2>1 DEF Packet, IsData
<1>6. /\ toCli' = toCli \/ toCli' = Append(toCli, a)
      /\ unacked' = <<>> \/ unacked' = unacked
  BY <1>2, <1>5 DEF CameraReads
<1>7. /\ toCli' \in Seq(Packets) /\ Datas(toCli') = Datas(toCli)
      /\ Ascending(toCli) => Ascending(toCli')
      /\ Greeting(toCli) => Greeting(toCli')
  <2>1. CASE toCli' = toCli BY <1>1, <2>1
  <2>2. CASE toCli' = Append(toCli, a) BY <1>1, <1>5, <2>2, AppendDatas
  <2> QED BY <1>6, <2>1, <2>2
<1>8. Types'
  <2>1. camBuf \o p.data \in Seq(Units) BY <1>1, <1>3
  <2>2. camBuf' \in Seq(Units) /\ camNext' \in Nat BY <1>1, <1>4, <2>1
  <2>3. camOpen' \in BOOLEAN BY <1>1, <1>3, <1>4
  <2>4. unacked' \in Seq(ACKs)
    <3>1. <<>> \in Seq(ACKs) OBVIOUS
    <3> QED BY <1>1, <1>6, <3>1
  <2> QED BY <1>0, <1>2, <1>7, <2>2, <2>3, <2>4 DEF IInv, Types
<1>9. Quiet'
  <2> SUFFICES ASSUME Opening'
               PROVE  /\ Datas(toCam') = {} /\ camBuf' = <<>> /\ camNext' = 2 /\ unacked' = <<>>
                      /\ Datas(toCli') = {}
    BY <1>0 DEF IInv, Quiet
  <2>1. /\ Datas(toCam) = {} /\ camBuf = <<>> /\ camNext = 2 /\ unacked = <<>> /\ Datas(toCli) = {}
    BY <1>0 DEF IInv, Quiet
  <2>2. ~IsData(p) /\ Datas(toCam') = {} BY <1>2, <2>1
  <2>3. ~new BY <1>4, <2>2
  <2> QED BY <1>4, <1>6, <1>7, <2>1, <2>2, <2>3
<1>10. Greeting(inQ') /\ Greeting(toCli') BY <1>0, <1>7 DEF IInv
<1>11. NonceFirst'
  <2> SUFFICES ASSUME ~lostUp', ~Opening', ~camOpen'
               PROVE  \E k \in 1 .. Len(toCam') :
                          toCam'[k].nonce /\ \A j \in 1 .. k : ~IsData(toCam'[j])
    BY DEF NonceFirst
  <2>1. ~camOpen /\ ~p.nonce BY <1>4, Zenon
  <2>2. PICK k \in 1 .. Len(toCam) : toCam[k].nonce /\ \A j \in 1 .. k : ~IsData(toCam[j])
    BY <1>0, <2>1 DEF IInv, NonceFirst
  <2>3. PICK l \in Nat : l = Len(toCam) /\ 1 <= l BY <1>1
  <2>4. k # 1 BY <1>2, <2>1, <2>2
  <2>5. Len(toCam') = l - 1 /\ \A i \in 1 .. l - 1 : toCam'[i] = toCam[i + 1]
    BY <1>1, <2>3
  <2>6. /\ k - 1 \in 1 .. l - 1 /\ (k - 1) + 1 = k
        /\ \A j \in 1 .. k - 1 : j + 1 \in 1 .. k /\ j \in 1 .. l - 1
    BY <2>3, <2>4
  <2>7. toCam'[k - 1] = toCam[k] BY <2>5, <2>6
  <2>8. \A j \in 1 .. k - 1 : toCam'[j] = toCam[j + 1] BY <2>5, <2>6
  <2> QED BY <2>2, <2>5, <2>6, <2>7, <2>8
<1>12. InTurn' BY <1>0, <1>2, <1>7 DEF IInv, InTurn
<1>13. DownFlows' BY <1>0, <1>7, DownSame DEF IInv
<1>14. UpFlows'
  <2>1. CASE ~IsData(p)
    <3>1. camBuf' = camBuf /\ camNext' = camNext /\ Datas(toCam') = Datas(toCam)
      BY <1>2, <1>4, <2>1
    <3> QED BY <1>0, <3>1, UpSame DEF IInv
  <2>2. CASE IsData(p)
    <3>0. ~Opening BY <1>2, <2>2 DEF IInv, Quiet
    <3> SUFFICES ASSUME ~lostUp
                 PROVE  Flowing(camBuf', Len(gotUp), camNext', Datas(toCam'), cliSeq, out, sentUp)
      BY <1>0, <3>0 DEF UpFlows
    <3>1. Flowing(camBuf, Len(gotUp), camNext, Datas(toCam), cliSeq, out, sentUp)
      BY <3>0 DEF IInv, UpFlows
    <3>2. camOpen
      <4> SUFFICES ASSUME ~camOpen PROVE FALSE OBVIOUS
      <4>1. PICK k \in 1 .. Len(toCam) : \A j \in 1 .. k : ~IsData(toCam[j])
        BY <3>0 DEF IInv, NonceFirst
      <4>2. 1 \in 1 .. k OBVIOUS
      <4> QED BY <1>2, <2>2, <4>1, <4>2
    <3>3. Numbered(camNext, Datas(toCam) \cup {}, cliSeq)
      <4>1. Datas(toCam) \cup {} = Datas(toCam) OBVIOUS
      <4> QED BY <3>1, <4>1 DEF Flowing
    <3>4. Ascending(toCam) BY DEF IInv, InTurn
    <3>5. p.seq = camNext /\ \A r \in Datas(toCam') \cup {} : r.seq # camNext
      <4>1. {} \in SUBSET Segments /\ \A r \in {} : p.seq < r.seq OBVIOUS
      <4> QED BY <1>1, <1>2, <2>2, <3>3, <3>4, <4>1, FlowTypes, HeadIsNext
    <3>6. new BY <1>4, <2>2, <3>2, <3>5
    <3>7. PICK D \in SUBSET Segments, E \in SUBSET Segments : D = Datas(toCam) /\ E = Datas(toCam')
      BY <1>2, FlowTypes
    <3>8. p \in D /\ D = E \cup {p} /\ E \in SUBSET D BY <1>2, <2>2, <3>7
    <3>9. Flowing(camBuf \o p.data, Len(gotUp), camNext + 1, E, cliSeq, out, sentUp)
      BY <3>1, <3>5, <3>7, <3>8, FlowTypes, FlowReads
    <3> QED BY <1>4, <3>6, <3>7, <3>9
  <2> QED BY <2>1, <2>2
<1> QED BY <1>8, <1>9, <1>10, <1>11, <1>12, <1>13, <1>14 DEF IInv

\* A message is cut out of the camera's buffer.
LEMMA CameraCutsKeeps ==
    ASSUME IInv, NEW n \in LengthsOf(camBuf), n \in Nat, WholeAt(camBuf, n),
           gotUp' = Append(gotUp, Name(SubSeq(camBuf, 1, LengthUnits + n))),
           camBuf' = SubSeq(camBuf, LengthUnits + n + 1, Len(camBuf)),
           UNCHANGED <<cliVars, inQ, readBuf, out, wires, camOpen, camSeq, camNext, unacked, camOut,
                       sentUp, sentDown, gotDown, failVars>>
    PROVE  IInv'
<1> USE DEF cliVars, failVars, wires
<1>0. Opening' <=> Opening BY DEF Opening
<1>1. ~Opening
  <2> SUFFICES ASSUME Opening PROVE FALSE OBVIOUS
  <2>1. Len(camBuf) = 0
    <3>1. Len(<<>>) = 0 OBVIOUS
    <3> QED BY <3>1 DEF IInv, Quiet
  <2> QED BY <2>1 DEF WholeAt, LengthUnits
<1>2. camBuf' \in Seq(Units) /\ gotUp' \in Seq(Nat) BY CutTypes DEF IInv, Types
<1>3. Types' BY <1>2 DEF IInv, Types
<1>4. Quiet' BY <1>0, <1>1 DEF Quiet
<1>5. Greeting(inQ') /\ Greeting(toCli') BY DEF IInv
<1>6. NonceFirst' BY <1>0 DEF IInv, NonceFirst
<1>7. InTurn' BY DEF IInv, InTurn
<1>8. DownFlows' BY <1>0, DownSame DEF IInv
<1>9. UpFlows'
  <2> SUFFICES ASSUME ~lostUp
               PROVE  Flowing(camBuf', Len(gotUp'), camNext, Datas(toCam), cliSeq, out, sentUp)
    BY <1>0, <1>1 DEF UpFlows
  <2>1. Flowing(camBuf, Len(gotUp), camNext, Datas(toCam), cliSeq, out, sentUp)
    BY <1>1 DEF IInv, UpFlows
  <2>2. Flowing(camBuf', Len(gotUp) + 1, camNext, Datas(toCam), cliSeq, out, sentUp)
    BY <2>1, FlowTypes, FlowCuts
  <2>3. Len(gotUp') = Len(gotUp) + 1 BY DEF IInv, Types
  <2> QED BY <2>2, <2>3
<1> QED BY <1>3, <1>4, <1>5, <1>6, <1>7, <1>8, <1>9 DEF IInv

\* The camera sends a segment.
LEMMA CameraSendsKeeps == ASSUME IInv, CameraSends PROVE IInv'
<1> USE DEF cliVars, failVars
<1>0. /\ (Opening' <=> Opening) /\ ~Opening
      /\ UNCHANGED <<phase, syns, segment, cliSeq, srvSeq, nonce, inQ, readBuf, out, toCam, camOpen,
                     camBuf, camNext, sentUp, gotUp, gotDown, lostUp, lostDown, faults>>
  BY DEF Opening, IInv, Quiet, CameraSends
<1>1. PICK n \in 1 .. Len(camOut) :
        /\ toCli' = Append(toCli, Packet("ack", camSeq + 2, FALSE, SubSeq(camOut, 1, n)))
        /\ unacked' = <<Packet("ack", camSeq + 2, FALSE, SubSeq(camOut, 1, n))>>
        /\ camSeq' = camSeq + 1
        /\ camOut' = SubSeq(camOut, n + 1, Len(camOut))
        /\ sentDown' = IF n = Len(camOut) THEN sentDown + 1 ELSE sentDown
  BY DEF CameraSends
<1>2. PICK l \in Nat : l = Len(camOut) /\ camOut \in Seq(Units) BY DEF IInv, Types
<1>3. SubSeq(camOut, 1, n) \in Seq(Units) /\ SubSeq(camOut, 1, n) # <<>> /\ camOut' \in Seq(Units)
  <2>1. 1 \in 1 .. l + 1 /\ n \in 0 .. l /\ 1 <= n + 1 /\ n + 1 \in 1 .. l + 1 /\ l \in 0 .. l
        /\ n + 1 <= l + 1 /\ n + 1 - 1 = n /\ n # 0
    BY <1>2
  <2>2. SubSeq(camOut, 1, n) \in Seq(Units) /\ Len(SubSeq(camOut, 1, n)) = n + 1 - 1
    BY <1>2, <2>1, PartSteps
  <2>3. SubSeq(camOut, n + 1, l) \in Seq(Units) BY <1>2, <2>1, PartSteps
  <2>4. SubSeq(camOut, 1, n) # <<>>
    <3>1. Len(<<>>) = 0 OBVIOUS
    <3> QED BY <2>1, <2>2, <3>1
  <2> QED BY <1>1, <1>2, <2>2, <2>3, <2>4
<1>4. PICK p \in Segments : /\ p = Packet("ack", camSeq + 2, FALSE, SubSeq(camOut, 1, n))
                            /\ p.seq = camSeq + 2 /\ p.data = SubSeq(camOut, 1, n) /\ IsData(p)
                            /\ p.flag = "ack"
  <2> DEFINE d == SubSeq(camOut, 1, n)
  <2> HIDE DEF d
  <2>0. camSeq + 2 \in Nat BY FlowTypes
  <2>1. d \in Seq(Units) /\ d # <<>> BY <1>3 DEF d
  <2>2. Packet("ack", camSeq + 2, FALSE, d) \in Packets BY <2>0, <2>1 DEF Packet, Packets, Flags
  <2> QED BY <2>1, <2>2 DEF d, Segments, IsData, Packet
<1>5. toCli \in Seq(Packets) /\ p \in Packets BY DEF IInv, Types, Segments
<1>6. /\ toCli' \in Seq(Packets) /\ Datas(toCli') = Datas(toCli) \cup {p}
      /\ Greeting(toCli) => Greeting(toCli')
  BY <1>1, <1>4, <1>5, AppendDatas
<1>7. unacked' \in Seq(ACKs)
  <2>1. p \in ACKs BY <1>4, <1>5 DEF ACKs
  <2>2. <<p>> \in Seq(ACKs) BY <2>1
  <2>3. unacked' = <<p>> BY <1>1, <1>4
  <2> QED BY <2>2, <2>3
<1>8. camSeq' \in Nat /\ sentDown' \in Nat BY <1>1 DEF IInv, Types
<1>9. ~lostDown => Flowing(readBuf, Len(gotDown), srvSeq + 1,
                           Datas(inQ) \cup Datas(toCli), camSeq + 2,
                           camOut, sentDown)
  BY <1>0 DEF IInv, DownFlows
<1>10. Types' BY <1>0, <1>3, <1>6, <1>7, <1>8 DEF IInv, Types
<1>11. Quiet' BY <1>0 DEF Quiet
<1>12. Greeting(inQ') /\ Greeting(toCli') BY <1>0, <1>6 DEF IInv
<1>13. NonceFirst' BY <1>0 DEF IInv, NonceFirst
<1>14. InTurn'
  <2>1. ~lostUp' => Ascending(toCam') BY <1>0 DEF IInv, InTurn
  <2>2. ASSUME ~lostDown
        PROVE  /\ Ascending(inQ) /\ Ascending(toCli')
               /\ \A r \in Datas(inQ), s \in Datas(toCli') : r.seq < s.seq
    <3>1. \A r \in Datas(inQ) \cup Datas(toCli) : r.seq < p.seq
      BY <1>4, <1>9, <2>2 DEF Flowing, Numbered
    <3>2. /\ Ascending(inQ) /\ Ascending(toCli)
          /\ \A r \in Datas(inQ), s \in Datas(toCli) : r.seq < s.seq
      BY <2>2 DEF IInv, InTurn
    <3>3. Ascending(toCli') BY <1>1, <1>4, <1>5, <3>1, <3>2, AppendDatas
    <3> QED BY <1>6, <3>1, <3>2, <3>3
  <2> QED BY <1>0, <2>1, <2>2 DEF InTurn
<1>15. UpFlows' BY <1>0, UpSame DEF IInv
<1>16. DownFlows'
  <2> SUFFICES ASSUME ~lostDown
               PROVE  Flowing(readBuf, Len(gotDown), srvSeq + 1,
                              Datas(inQ) \cup Datas(toCli'), camSeq' + 2,
                              camOut', sentDown')
    BY <1>0 DEF DownFlows
  <2>1. PICK D \in SUBSET Segments : D = Datas(inQ) \cup Datas(toCli) BY FlowTypes
  <2>2. Flowing(readBuf, Len(gotDown), srvSeq + 1, D \cup {p}, (camSeq + 2) + 1,
                SubSeq(camOut, n + 1, Len(camOut)),
                IF n = Len(camOut) THEN sentDown + 1 ELSE sentDown)
    BY <1>4, <1>9, <2>1, FlowTypes, FlowSends
  <2>3. Datas(inQ) \cup Datas(toCli') = D \cup {p} BY <1>6, <2>1
  <2>4. camSeq' + 2 = (camSeq + 2) + 1 BY <1>1 DEF IInv, Types
  <2> QED BY <1>1, <2>2, <2>3, <2>4
<1> QED BY <1>10, <1>11, <1>12, <1>13, <1>14, <1>15, <1>16 DEF IInv

\* A repeated segment breaks the direction.
LEMMA CameraRepeatsKeeps == ASSUME IInv, CameraRepeats PROVE IInv'
<1> USE DEF CameraRepeats, cliVars, camVars, countVars
<1>0. (Opening' <=> Opening) /\ ~Opening BY DEF Opening, IInv, Quiet
<1>1. toCli \in Seq(Packets) /\ unacked \in Seq(ACKs) BY DEF IInv, Types
<1>2. lostDown' = TRUE OBVIOUS
<1>9. toCli' \in Seq(Packets) /\ (Greeting(toCli) => Greeting(toCli'))
  <2>0. toCli' = toCli \o unacked OBVIOUS
  <2> HIDE DEF CameraRepeats, cliVars, camVars, countVars
  <2>9. PICK q, r : /\ q \in Seq(Packets) /\ r \in Seq(ACKs)
                    /\ q = toCli /\ r = unacked /\ toCli' = q \o r
    BY <1>1, <2>0
  <2>1. PICK k \in Nat, l \in Nat : k = Len(q) /\ l = Len(r) BY <2>9
  <2>2. Len(q \o r) = k + l BY <2>1, <2>9
  <2>3. /\ \A i \in 1 .. k : (q \o r)[i] = q[i]
        /\ \A i \in 1 .. l : (q \o r)[k + i] = r[i]
    BY <2>1, <2>9
  <2>5. \A i \in 1 .. l : r[i] \in Packets /\ r[i].flag = "ack" BY <2>1, <2>9 DEF ACKs
  <2>6. r \in Seq(Packets)
    <3>1. \A i \in 1 .. Len(r) : r[i] \in Packets BY <2>1, <2>5
    <3> QED BY <2>9, <3>1, IsASeq
  <2>7. ASSUME Greeting(q) PROVE Greeting(q \o r)
    <3>1. \A i \in 1 .. k : q[i].flag = "synack" => q[i].seq = 1 /\ q[i].nonce /\ q[i].data = <<>>
      BY <2>1, <2>7 DEF Greeting
    <3>2. \A i \in 1 .. l : r[i].flag # "synack" BY <2>5
    <3> DEFINE c == q \o r
    <3> HIDE DEF c
    <3>3. ASSUME NEW i \in 1 .. k + l, c[i].flag = "synack"
          PROVE  c[i].seq = 1 /\ c[i].nonce /\ c[i].data = <<>>
      <4>1. CASE i <= k
        <5>1. i \in 1 .. k BY <4>1
        <5> QED BY <2>3, <3>1, <3>3, <5>1 DEF c
      <4>2. CASE i > k
        <5>1. i - k \in 1 .. l /\ i = k + (i - k) BY <4>2
        <5>2. c[i] = r[i - k] BY <2>3, <5>1 DEF c
        <5> QED BY <3>2, <3>3, <5>1, <5>2
      <4> QED BY <4>1, <4>2
    <3> QED BY <2>2, <3>3 DEF c, Greeting
  <2>8. q \o r \in Seq(Packets) BY <2>6, <2>9
  <2> QED BY <2>7, <2>8, <2>9
<1>10. Greeting(inQ') /\ Greeting(toCli') BY <1>9 DEF IInv
<1>3. Types' BY <1>9, <1>2 DEF IInv, Types
<1>4. Quiet' BY <1>0 DEF Quiet
<1>5. NonceFirst' BY <1>0 DEF IInv, NonceFirst
<1>6. InTurn' BY <1>2 DEF IInv, InTurn
<1>7. UpFlows' BY <1>0, UpSame DEF IInv
<1>8. DownFlows' BY <1>2 DEF DownFlows
<1> QED BY <1>3, <1>4, <1>5, <1>6, <1>7, <1>8, <1>10 DEF IInv
-----------------------------------------------------------------------------
(* The invariant holds. *)

\* At the start.
LEMMA InitIInv == ASSUME Init PROVE IInv
<1> USE DEF Init
<1>1. <<>> \in Seq(Packets) /\ <<>> \in Seq(ACKs) /\ <<>> \in Seq(Units) /\ <<>> \in Seq(Nat)
  OBVIOUS
<1>2. Types
  <2>1. phase \in Phases /\ nonce = FALSE BY DEF Phases
  <2>2. /\ segment \in 1 .. 2 /\ cliSeq \in Nat /\ srvSeq \in Nat
        /\ camSeq \in Nat /\ camNext \in Nat /\ sentUp \in Nat /\ sentDown \in Nat
    OBVIOUS
  <2>3. {lostUp, lostDown, camOpen} \subseteq BOOLEAN OBVIOUS
  <2> QED BY <1>1, <2>1, <2>2, <2>3 DEF Types
<1>3. /\ Datas(toCam) = {} /\ Datas(toCli) = {} /\ Datas(inQ) = {}
      /\ Ascending(toCam) /\ Ascending(toCli) /\ Ascending(inQ)
      /\ Greeting(inQ) /\ Greeting(toCli)
  BY NoDatas
<1>4. Quiet BY <1>3 DEF Quiet
<1>5. Opening BY DEF Opening
<1>6. NonceFirst BY <1>5 DEF NonceFirst
<1>7. InTurn BY <1>3 DEF InTurn
<1>8. Len(<<>>) = 0 /\ {} \cup {} = {} /\ 0 + 2 = 2 OBVIOUS
<1>9. DownFlows
  <2>1. Datas(inQ) \cup Datas(toCli) = {} BY <1>3
  <2>2. Flowing(readBuf, Len(gotDown), 2, Datas(inQ) \cup Datas(toCli), camSeq + 2, camOut,
                sentDown)
    BY <1>8, <2>1, FlowBegins
  <2> QED BY <1>5, <2>2 DEF DownFlows
<1>10. UpFlows
  <2>1. Flowing(camBuf, Len(gotUp), camNext, Datas(toCam), 2, out, sentUp)
    BY <1>3, <1>8, FlowBegins
  <2> QED BY <1>5, <2>1 DEF UpFlows
<1> QED BY <1>2, <1>3, <1>4, <1>6, <1>7, <1>9, <1>10 DEF IInv

\* A step that changes nothing.
LEMMA StutterKeeps == ASSUME IInv, UNCHANGED vars PROVE IInv'
<1> USE DEF vars, cliVars, camVars, wires, countVars, failVars
<1>1. Opening' <=> Opening BY DEF Opening
<1>2. Types' BY DEF IInv, Types
<1>3. Quiet' BY <1>1 DEF IInv, Quiet
<1>4. Greeting(inQ') /\ Greeting(toCli') BY DEF IInv
<1>5. NonceFirst' BY <1>1 DEF IInv, NonceFirst
<1>6. InTurn' BY DEF IInv, InTurn
<1>7. DownFlows' BY <1>1, DownSame DEF IInv
<1>8. UpFlows' BY <1>1, UpSame DEF IInv
<1> QED BY <1>2, <1>3, <1>4, <1>5, <1>6, <1>7, <1>8 DEF IInv

\* It is inductive.
THEOREM Invariance == Spec => []IInv
<1>1. Init => IInv BY InitIInv
<1>2. IInv /\ [Next]_vars => IInv'
  <2> SUFFICES ASSUME IInv, [Next]_vars PROVE IInv' OBVIOUS
  <2>1. CASE ReadMsg
    <3>1. ASSUME NEW n \in LengthsOf(readBuf), CutMessage(n) PROVE IInv'
      <4>1. n \in Nat BY LengthSteps DEF IInv, Types
      <4> QED BY <3>1, <4>1, CutMessageKeeps
    <3> QED BY <2>1, <3>1, ReadPacketKeeps DEF ReadMsg
  <2>2. CASE CameraCuts
    <3>1. PICK n \in LengthsOf(camBuf) :
            /\ WholeAt(camBuf, n)
            /\ gotUp' = Append(gotUp, Name(SubSeq(camBuf, 1, LengthUnits + n)))
            /\ camBuf' = SubSeq(camBuf, LengthUnits + n + 1, Len(camBuf))
      BY <2>2 DEF CameraCuts
    <3>2. n \in Nat BY LengthSteps DEF IInv, Types
    <3>3. UNCHANGED <<cliVars, inQ, readBuf, out, wires, camOpen, camSeq, camNext, unacked, camOut,
                      sentUp, sentDown, gotDown, failVars>>
      BY <2>2 DEF CameraCuts
    <3> QED BY <3>1, <3>2, <3>3, CameraCutsKeeps
  <2>3. CASE UNCHANGED vars BY <2>3, StutterKeeps
  <2>4. CASE SendSYN BY <2>4, SendSYNKeeps
  <2>5. CASE Open BY <2>5, OpenKeeps
  <2>6. CASE RepeatACK BY <2>6, RepeatACKKeeps
  <2>7. CASE WriteMsg BY <2>7, WriteMsgKeeps
  <2>8. CASE WriteChunk BY <2>8, WriteChunkKeeps
  <2>9. CASE Close BY <2>9, CloseKeeps
  <2>10. CASE HandleIncomingPacket BY <2>10, HandleIncomingPacketKeeps
  <2>11. CASE NetworkFails BY <2>11, NetworkFailsKeeps
  <2>12. CASE CameraReads BY <2>12, CameraReadsKeeps
  <2>13. CASE CameraWrites BY <2>13, CameraWritesKeeps
  <2>14. CASE CameraSends BY <2>14, CameraSendsKeeps
  <2>15. CASE CameraRepeats BY <2>15, CameraRepeatsKeeps
  <2> QED BY <2>1, <2>2, <2>3, <2>4, <2>5, <2>6, <2>7, <2>8, <2>9, <2>10, <2>11, <2>12, <2>13,
             <2>14, <2>15 DEF Next
<1> QED BY <1>1, <1>2, PTL DEF Spec

-----------------------------------------------------------------------------
(* Each direction is the channel it promises. *)

\* What the client makes of the camera's segments is what the camera sent: message by
\* message, in order, none twice, as long as none of its segments was lost or overtaken.
THEOREM DownRefines == Spec => Down!Init /\ [][Down!Next]_Down!vars
<1>1. Init => Down!Init BY DEF Init, Down!Init
<1>2. IInv /\ [Next]_vars => [Down!Next]_Down!vars
  <2> SUFFICES ASSUME IInv, [Next]_vars,
                      ~UNCHANGED <<sentDown, gotDown, lostDown, phase = "closed">>
               PROVE  Down!Next
    BY DEF Down!vars
  <2> USE DEF cliVars, camVars, countVars, failVars, wires
  <2>1. CASE Close
    <3>1. Down!End BY <2>1 DEF Close, Down!End
    <3> QED BY <3>1 DEF Down!Next
  <2>2. CASE CameraSends
    <3>1. sentDown' = sentDown + 1 /\ UNCHANGED <<gotDown, lostDown, phase>> BY <2>2 DEF CameraSends
    <3>2. Down!Send BY <3>1 DEF Down!Send
    <3> QED BY <3>2 DEF Down!Next
  <2>3. CASE HandleIncomingPacket \/ NetworkFails \/ CameraRepeats
    <3>1. UNCHANGED <<sentDown, gotDown, phase>> /\ lostDown' # lostDown
      BY <2>3 DEF HandleIncomingPacket, NetworkFails, CameraRepeats
    <3>4. lostDown => lostDown'
      BY <2>3, Zenon DEF HandleIncomingPacket, NetworkFails, CameraRepeats
    <3>5. lostDown \in BOOLEAN /\ lostDown' \in BOOLEAN
      BY <2>3, HandleIncomingPacketKeeps, NetworkFailsKeeps, CameraRepeatsKeeps DEF IInv, Types
    <3>2. lostDown' = TRUE BY <3>1, <3>4, <3>5
    <3>3. Down!Break BY <3>1, <3>2 DEF Down!Break
    <3> QED BY <3>3 DEF Down!Next
  <2>4. ASSUME NEW n \in LengthsOf(readBuf), CutMessage(n) PROVE Down!Next
    <3>1. n \in Nat /\ phase = "open" BY <2>4, LengthSteps DEF IInv, Types, CutMessage
    <3>2. UNCHANGED <<sentDown, lostDown, phase>> BY <2>4 DEF CutMessage
    <3>3. gotDown' = Append(gotDown, Name(SubSeq(readBuf, 1, LengthUnits + n)))
      BY <2>4 DEF CutMessage
    <3>4. CASE lostDown
      <4>1. gotDown' \in Seq(Nat)
        BY <2>4, <3>1, <3>3, CutTypes DEF IInv, Types, CutMessage
      <4>2. Down!Garble BY <3>2, <3>4, <4>1 DEF Down!Garble
      <4> QED BY <4>2 DEF Down!Next
    <3>5. CASE ~lostDown
      <4>1. Flowing(readBuf, Len(gotDown), srvSeq + 1, Datas(inQ) \cup Datas(toCli), camSeq + 2,
                    camOut, sentDown)
        BY <3>1, <3>5 DEF IInv, DownFlows, Opening
      <4>2. /\ Name(SubSeq(readBuf, 1, LengthUnits + n)) = Len(gotDown) + 1
            /\ Len(gotDown) + 1 <= sentDown
        BY <2>4, <3>1, <4>1, FlowTypes, FlowCuts DEF CutMessage
      <4>3. Len(gotDown) < sentDown BY <4>2, FlowTypes
      <4>4. Down!Deliver BY <3>1, <3>2, <3>3, <3>5, <4>2, <4>3 DEF Down!Deliver
      <4> QED BY <4>4 DEF Down!Next
    <3> QED BY <3>4, <3>5
  <2>5. CASE SendSYN \/ Open \/ ReadPacket \/ RepeatACK \/ WriteMsg \/ WriteChunk
    BY <2>5 DEF SendSYN, Open, ReadPacket, RepeatACK, WriteMsg, WriteChunk
  <2>6. CASE CameraReads \/ CameraCuts \/ CameraWrites \/ UNCHANGED vars
    BY <2>6 DEF CameraReads, CameraCuts, CameraWrites, vars
  <2> QED BY <2>1, <2>2, <2>3, <2>4, <2>5, <2>6 DEF Next, ReadMsg
<1> QED BY <1>1, <1>2, Invariance, PTL DEF Spec

\* What WriteMsg was given reaches the camera the same way.
THEOREM UpRefines == Spec => Up!Init /\ [][Up!Next]_Up!vars
<1>1. Init => Up!Init BY DEF Init, Up!Init
<1>2. IInv /\ [Next]_vars => [Up!Next]_Up!vars
  <2> SUFFICES ASSUME IInv, [Next]_vars, ~UNCHANGED <<sentUp, gotUp, lostUp>>
               PROVE  Up!Next
    BY DEF Up!vars
  <2> USE DEF cliVars, camVars, countVars, failVars, wires
  <2>1. CASE WriteChunk
    <3>1. sentUp' = sentUp + 1 /\ UNCHANGED <<gotUp, lostUp>> BY <2>1 DEF WriteChunk
    <3>2. Up!Send BY <3>1 DEF Up!Send
    <3> QED BY <3>2 DEF Up!Next
  <2>2. CASE NetworkFails
    <3>1. UNCHANGED <<sentUp, gotUp>> /\ lostUp' # lostUp BY <2>2 DEF NetworkFails
    <3>4. lostUp => lostUp' BY <2>2, Zenon DEF NetworkFails
    <3>5. lostUp \in BOOLEAN /\ lostUp' \in BOOLEAN BY <2>2, NetworkFailsKeeps DEF IInv, Types
    <3>2. lostUp' = TRUE BY <3>1, <3>4, <3>5
    <3>3. Up!Break BY <3>1, <3>2 DEF Up!Break
    <3> QED BY <3>3 DEF Up!Next
  <2>3. CASE CameraCuts
    <3>1. PICK n \in LengthsOf(camBuf) :
            /\ WholeAt(camBuf, n)
            /\ gotUp' = Append(gotUp, Name(SubSeq(camBuf, 1, LengthUnits + n)))
            /\ UNCHANGED <<sentUp, lostUp>>
      BY <2>3 DEF CameraCuts
    <3>2. n \in Nat BY LengthSteps DEF IInv, Types
    <3>3. CASE lostUp
      <4>1. gotUp' \in Seq(Nat) BY <3>1, <3>2, CutTypes DEF IInv, Types
      <4>2. Up!Garble BY <3>1, <3>3, <4>1 DEF Up!Garble
      <4> QED BY <4>2 DEF Up!Next
    <3>4. CASE ~lostUp
      <4>1. PICK top \in Nat :
              Flowing(camBuf, Len(gotUp), camNext, Datas(toCam), top, out, sentUp)
        <5>1. (IF Opening THEN 2 ELSE cliSeq) \in Nat BY DEF IInv, Types
        <5> QED BY <3>4, <5>1 DEF IInv, UpFlows
      <4>2. /\ Name(SubSeq(camBuf, 1, LengthUnits + n)) = Len(gotUp) + 1
            /\ Len(gotUp) + 1 <= sentUp
        BY <3>1, <3>2, <4>1, FlowTypes, FlowCuts
      <4>3. Len(gotUp) < sentUp BY <4>2, FlowTypes
      <4>4. Up!Deliver BY <3>1, <3>4, <4>2, <4>3 DEF Up!Deliver
      <4> QED BY <4>4 DEF Up!Next
    <3> QED BY <3>3, <3>4
  <2>4. CASE SendSYN \/ Open \/ ReadMsg \/ RepeatACK \/ WriteMsg \/ Close
    BY <2>4 DEF SendSYN, Open, ReadMsg, CutMessage, ReadPacket, RepeatACK, WriteMsg, Close
  <2>5. CASE HandleIncomingPacket \/ CameraReads \/ CameraWrites \/ CameraSends \/ CameraRepeats
    BY <2>5 DEF HandleIncomingPacket, CameraReads, CameraWrites, CameraSends, CameraRepeats
  <2>6. CASE UNCHANGED vars BY <2>6 DEF vars
  <2> QED BY <2>1, <2>2, <2>3, <2>4, <2>5, <2>6 DEF Next
<1> QED BY <1>1, <1>2, Invariance, PTL DEF Spec
=============================================================================
