------------------------- MODULE ClientSideProofs -------------------------
(***************************************************************************)
(* Machine-checked safety of the two components the bridge's clients see:  *)
(* the RTSP server, whose count of clients is that of the sessions that    *)
(* play, for any finite set of sessions and any number of PLAY requests;   *)
(* and the way of the camera's status to the event bus and the broker, for *)
(* any number of changes and lost connections and any queue.               *)
(***************************************************************************)
EXTENDS RTSPServer, StatusFlow, FiniteSetTheorems, TLAPS

(***************************************************************************)
(* The RTSP server.                                                        *)
(***************************************************************************)

\* A session about to be counted was noted; one that left was forgotten.
Noted ==
    /\ InState("adding") \subseteq playing
    /\ playing \cap (InState("leaving") \cup InState("over")) = {}

ServerInv == ServerTypeOK /\ Noted /\ CountMatches

-----------------------------------------------------------------------------
\* A session that goes on is at its new point, and no longer at the old one.
LEMMA EnterMoves ==
    ASSUME ServerTypeOK, NEW s \in Sessions, NEW p, Enter(s, p), NEW q
    PROVE  InState(q)' = IF q = p THEN InState(q) \cup {s} ELSE InState(q) \ {s}
BY DEF ServerTypeOK, Enter, InState

\* The sets that are counted are finite.
LEMMA Countable ==
    ASSUME ServerTypeOK
    PROVE  /\ IsFiniteSet(playing \ InState("adding")) /\ IsFiniteSet(InState("leaving"))
           /\ Cardinality(playing \ InState("adding")) \in Nat /\ Cardinality(InState("leaving")) \in Nat
<1>1. playing \ InState("adding") \in SUBSET Sessions /\ InState("leaving") \in SUBSET Sessions
  BY DEF ServerTypeOK, InState
<1> QED
  BY <1>1, FS_Subset, FS_CardinalityType, ServerAssumption

\* ServerInv holds while nobody plays.
LEMMA ServerStarts == ServerInit => ServerInv
<1> SUFFICES ASSUME ServerInit PROVE ServerInv
  OBVIOUS
<1> USE DEF ServerInit
<1>1. ServerTypeOK
  <2>1. state \in [Sessions -> {"off", "open", "adding", "closing", "leaving", "over"}]
    OBVIOUS
  <2>2. plays \in 0 .. MaxPlays
    BY ServerAssumption
  <2>3. talker \in Sources /\ heard \in Sources
    BY DEF Sources
  <2> QED
    BY <2>1, <2>2, <2>3 DEF ServerTypeOK
<1>2. InState("adding") = {} /\ InState("leaving") = {} /\ playing = {}
  BY DEF InState
<1>3. Noted /\ CountMatches
  BY <1>2, FS_EmptySet DEF Noted, CountMatches
<1> QED
  BY <1>1, <1>3 DEF ServerInv

-----------------------------------------------------------------------------
\* ServerInv is preserved by whatever leaves the sessions, the list and the count alone.
LEMMA Untouched ==
    ASSUME ServerInv, ServerTypeOK', UNCHANGED <<state, playing, count>>
    PROVE  ServerInv'
BY DEF ServerInv, Noted, CountMatches, InState

\* ServerInv is preserved by a session that begins, or begins to close.
LEMMA ElsewhereKeeps ==
    ASSUME ServerInv, NEW s \in Sessions, OnSetup(s) \/ OnSessionClose(s)
    PROVE  ServerInv'
<1> USE DEF ServerInv, OnSetup, OnSessionClose, playVars
<1>1. ServerTypeOK'
  BY DEF ServerTypeOK, Enter, Sources, talkVars
<1>2. /\ InState("adding")' = InState("adding") /\ InState("leaving")' = InState("leaving")
      /\ InState("over")' = InState("over")
  BY DEF ServerTypeOK, Enter, InState
<1> QED
  BY <1>1, <1>2 DEF Noted, CountMatches

\* ServerInv is preserved: a session that is noted is not counted yet, and not noted twice.
LEMMA OnPlayKeeps ==
    ASSUME ServerInv, NEW s \in Sessions, OnPlay(s)
    PROVE  ServerInv'
<1> USE DEF ServerInv, OnPlay, CountsOnce
<1>1. ServerTypeOK'
  BY ServerAssumption DEF ServerTypeOK, Enter, Sources, talkVars
<1>2. /\ InState("leaving")' = InState("leaving") /\ InState("over")' = InState("over")
      /\ s \notin InState("adding") /\ s \notin InState("leaving") /\ s \notin InState("over")
  BY DEF ServerTypeOK, Enter, InState
<1>3. InState("adding")' = IF s \in playing THEN InState("adding") ELSE InState("adding") \cup {s}
  BY DEF ServerTypeOK, Enter, InState
<1>4. (playing \ InState("adding"))' = playing \ InState("adding")
  BY <1>2, <1>3
<1> QED
  BY <1>1, <1>2, <1>3, <1>4 DEF Noted, CountMatches

\* ServerInv is preserved: the session was noted and counts from now on.
LEMMA CountedKeeps ==
    ASSUME ServerInv, NEW s \in Sessions, Counted(s)
    PROVE  ServerInv'
<1> USE DEF ServerInv, Counted
<1>1. ServerTypeOK'
  BY DEF ServerTypeOK, Enter, Sources, talkVars
<1>2. InState("leaving")' = InState("leaving") /\ InState("over")' = InState("over")
      /\ InState("adding")' = InState("adding") \ {s} /\ s \in InState("adding")
  BY DEF ServerTypeOK, Enter, InState
<1>3. (playing \ InState("adding"))' = (playing \ InState("adding")) \cup {s}
  BY <1>2 DEF Noted
<1>4. Cardinality(playing \ InState("adding"))' = Cardinality(playing \ InState("adding")) + 1
  BY <1>2, <1>3, Countable, FS_AddElement
<1> QED
  BY <1>1, <1>2, <1>4, Countable DEF Noted, CountMatches

\* ServerInv is preserved: a session that played is counted until it is over.
LEMMA DeletedKeeps ==
    ASSUME ServerInv, NEW s \in Sessions, Deleted(s)
    PROVE  ServerInv'
<1> USE DEF ServerInv, Deleted
<1>1. ServerTypeOK'
  BY DEF ServerTypeOK, Enter, Sources, talkVars
<1>2. /\ InState("adding")' = InState("adding")
      /\ s \notin InState("adding") /\ s \notin InState("leaving")
  BY DEF ServerTypeOK, Enter, InState
<1>3. CASE s \in playing
  <2>1. InState("leaving")' = InState("leaving") \cup {s} /\ InState("over")' = InState("over")
    BY <1>3 DEF ServerTypeOK, Enter, InState
  <2>2. (playing \ InState("adding"))' = (playing \ InState("adding")) \ {s}
    BY <1>2
  <2>3. Cardinality(playing \ InState("adding"))' = Cardinality(playing \ InState("adding")) - 1
    BY <1>2, <1>3, <2>2, Countable, FS_RemoveElement
  <2>4. Cardinality(InState("leaving"))' = Cardinality(InState("leaving")) + 1
    BY <1>2, <2>1, Countable, FS_AddElement
  <2> QED
    BY <1>1, <1>2, <2>1, <2>3, <2>4, Countable DEF Noted, CountMatches
<1>4. CASE s \notin playing
  <2>1. InState("leaving")' = InState("leaving") /\ InState("over")' = InState("over") \cup {s}
    BY <1>4 DEF ServerTypeOK, Enter, InState
  <2>2. playing' = playing
    BY <1>4
  <2> QED
    BY <1>1, <1>2, <1>4, <2>1, <2>2 DEF Noted, CountMatches
<1> QED
  BY <1>3, <1>4

\* ServerInv is preserved: the count is not zero while a counted session leaves.
LEMMA UncountedKeeps ==
    ASSUME ServerInv, NEW s \in Sessions, Uncounted(s)
    PROVE  ServerInv'
<1> USE DEF ServerInv, Uncounted
<1>1. InState("adding")' = InState("adding") /\ InState("over")' = InState("over") \cup {s}
      /\ InState("leaving")' = InState("leaving") \ {s} /\ s \in InState("leaving")
  BY DEF ServerTypeOK, Enter, InState
<1>2. Cardinality(InState("leaving"))' = Cardinality(InState("leaving")) - 1
  BY <1>1, Countable, FS_RemoveElement
<1>3. Cardinality(InState("leaving")) # 0
  BY <1>1, Countable, FS_EmptySet
<1>4. count' = count - 1 /\ count' \in Nat
  BY <1>3, Countable DEF ServerTypeOK, CountMatches
<1>5. ServerTypeOK'
  BY <1>4 DEF ServerTypeOK, Enter, Sources, talkVars
<1>6. (playing \ InState("adding"))' = playing \ InState("adding")
  BY <1>1
<1>7. Noted'
  BY <1>1 DEF Noted
<1>8. CountMatches'
  <2>1. count = Cardinality(playing \ InState("adding")) + Cardinality(InState("leaving"))
    BY DEF CountMatches
  <2>2. count' = Cardinality(playing \ InState("adding"))' + Cardinality(InState("leaving"))'
    BY <1>2, <1>4, <1>6, <2>1, Countable
  <2> QED
    BY <1>7, <2>2 DEF Noted, CountMatches
<1> QED
  BY <1>5, <1>7, <1>8

-----------------------------------------------------------------------------
\* ServerInv is inductive: every action preserves it.
LEMMA ServerKeeps == ServerInv /\ [ServerNext]_serverVars => ServerInv'
<1> SUFFICES ASSUME ServerInv, [ServerNext]_serverVars PROVE ServerInv'
  OBVIOUS
<1>1. CASE Start \/ Close \/ TwoSeconds \/ UNCHANGED serverVars
  <2>1. ServerTypeOK'
    BY <1>1
    DEF ServerInv, ServerTypeOK, Start, Close, TwoSeconds, serverVars, playVars, talkVars, Sources
  <2> QED
    BY <1>1, <2>1, Untouched DEF Start, Close, TwoSeconds, serverVars, playVars
<1>2. ASSUME NEW s \in Sessions,
             OnSetup(s) \/ OnPlay(s) \/ OnRecord(s) \/ OnSessionClose(s) \/ Handlers(s)
      PROVE  ServerInv'
  <2>1. CASE OnRecord(s)
    <3>1. ServerTypeOK'
      BY <2>1 DEF ServerInv, ServerTypeOK, OnRecord, playVars, talkVars, Sources
    <3> QED
      BY <2>1, <3>1, Untouched DEF OnRecord, playVars
  <2> QED
    BY <1>2, <2>1, ElsewhereKeeps, OnPlayKeeps, CountedKeeps, DeletedKeeps, UncountedKeeps
       DEF Handlers
<1>3. ASSUME NEW x \in Sources, Speaks(x) \/ handleBackchannelPacket(x)
      PROVE  ServerInv'
  <2>1. ServerTypeOK'
    BY <1>3 DEF ServerInv, ServerTypeOK, Speaks, handleBackchannelPacket, playVars, Sources
  <2> QED
    BY <1>3, <2>1, Untouched DEF Speaks, handleBackchannelPacket, playVars
<1> QED
  BY <1>1, <1>2, <1>3 DEF ServerNext, Rest

\* The server never leaves ServerInv.
LEMMA ServerInvariance == ServerSpec => []ServerInv
BY ServerStarts, ServerKeeps, PTL DEF ServerSpec

\* The count is that of the playing sessions (OnPlay, OnSessionClose): a repeated PLAY does
\* not count twice, a session that ends in whatever way is subtracted once.
THEOREM CountIsRight == ServerSpec => []CountMatches
<1>1. ServerInv => CountMatches
  BY DEF ServerInv
<1> QED
  BY <1>1, ServerInvariance, PTL

-----------------------------------------------------------------------------
(***************************************************************************)
(* The status.  Where each actor may be, and the newest version: the bus   *)
(* has it, or a copy that will be put, or a report not yet read.           *)
(***************************************************************************)
Roles ==
    /\ pc["cam"] \in {"idle", "put", "tell", "set", "onvif", "arm"}
    /\ pc["cmd"] \in {"idle", "get", "put", "tell", "direct"}
    /\ pc["timer"] \in {"idle", "set", "onvif"}
    /\ pc["mqtt"] \in {"idle", "get", "publish", "off"}
    /\ pc["cam"] = "set" => rest # "none"
    /\ pc["mqtt"] = "off" => ~conn
    /\ direct => pc["cmd"] # "idle"
    /\ pc["cmd"] = "direct" => direct

\* Nothing is newer than the camera's state but what it refused.
NoneNewer ==
    /\ \A i \in 1 .. Len(inbox) : inbox[i].dev <= light
    /\ ~lost => bus.dev <= light
    /\ ~lost => \A a \in {"cam", "cmd"} : pc[a] \in {"get", "put"} => copy[a].dev <= light
    /\ direct /\ ~late => copy["cmd"].dev <= light

\* What is to be announced was put, and the bus has not gone back since.
Announced ==
    ~lost => \A a \in Actors : pc[a] \in {"tell", "publish"} => copy[a].dev <= bus.dev

Reported(i) == inbox[i].kind = "report" /\ inbox[i].dev = light

\* The camera's state is on its way to the bus, until it is there.
OnItsWay ==
    ~lost => \/ bus.dev = light
             \/ pc["cam"] = "put" /\ copy["cam"].dev = light
             \/ pc["cmd"] \in {"get", "put"} /\ copy["cmd"].dev = light
             \/ \E i \in 1 .. Len(inbox) : Reported(i)

\* And from the bus to the broker, once it is connected.
OnItsWayOut ==
    ~lost /\ ~late /\ conn /\ bus.dev = light /\ bus.dev \notin dark =>
        \/ mDev = bus.dev
        \/ \E a \in Actors : pc[a] = "tell" /\ copy[a].dev = bus.dev
        \/ pc["mqtt"] = "get"
        \/ pc["mqtt"] = "publish" /\ copy["mqtt"].dev = bus.dev

\* In a calm, "cam" has the camera's state, unless a newer one is reported already.
Calm ==
    calm => /\ pc["cam"] \in {"put", "tell"} /\ AtRest("cmd") /\ AtRest("mqtt")
            /\ copy["cam"].dev <= light
            /\ copy["cam"].dev = light \/ \E i \in 1 .. Len(inbox) : Reported(i)
            /\ pc["cam"] = "tell" => bus.dev = copy["cam"].dev

\* Who has set the motion is about to start the timer, and the timer to reset it.
WillEnd ==
    ~loose /\ bus.motion =>
        \/ clock
        \/ pc["cam"] = "onvif" /\ rest = "motion"
        \/ pc["cam"] = "arm"
        \/ pc["timer"] = "set"

FlowInv ==
    /\ TypeOK /\ Roles /\ NoneNewer /\ Announced
    /\ OnItsWay /\ OnItsWayOut /\ Calm /\ WillEnd

-----------------------------------------------------------------------------
\* FlowInv holds before anything was reported.
LEMMA FlowStarts == Init => FlowInv
<1> SUFFICES ASSUME Init PROVE FlowInv
  OBVIOUS
<1> USE DEF Init, Blank, Nothing
<1>1. TypeOK
  <2>1. 0 \in 0 .. MaxChanges /\ <<>> \in Seq(Reports)
        /\ <<>> \in Seq(BOOLEAN) /\ Len(<<>>) = 0 /\ 0 <= QueueCap
    BY FlowAssumption
  <2>2. pc \in [Actors -> Places] /\ copy \in [Actors -> Status] /\ bus \in Status
    BY <2>1 DEF Places, Status
  <2>3. inbox \in Seq(Reports) /\ queue \in Seq(BOOLEAN) /\ Len(queue) <= QueueCap
    BY <2>1
  <2>4. base \in {1, 2} /\ dark \subseteq 0 .. MaxChanges /\ rest \in {"none", "motion", "bare"}
    BY FlowAssumption
  <2>5. {clock, direct, conn, hooked, lastMotion, lost, late, calm, loose} \subseteq BOOLEAN
    OBVIOUS
  <2>6. /\ light \in 0 .. MaxChanges /\ sent \in 0 .. MaxChanges /\ light <= sent
        /\ losses \in 0 .. MaxChanges /\ mDev \in Nothing .. MaxChanges
    BY <2>1, FlowAssumption
  <2> QED
    BY <2>2, <2>3, <2>4, <2>5, <2>6 DEF TypeOK
<1>2. Roles /\ WillEnd /\ OnItsWay /\ OnItsWayOut /\ Calm
  BY DEF Roles, WillEnd, OnItsWay, OnItsWayOut, Calm, Actors
<1>3. NoneNewer /\ Announced
  <2>1. Len(inbox) = 0
    OBVIOUS
  <2> QED
    BY <2>1 DEF NoneNewer, Announced, Actors
<1> QED
  BY <1>1, <1>2, <1>3 DEF FlowInv

-----------------------------------------------------------------------------
\* What Append and Tail do to a queue.
LEMMA QueueSteps ==
    ASSUME NEW S, NEW q \in Seq(S)
    PROVE  /\ \A m \in S :
                /\ Append(q, m) \in Seq(S) /\ Len(Append(q, m)) = Len(q) + 1
                /\ \A i \in 1 .. Len(q) :
                      i \in 1 .. Len(Append(q, m)) /\ Append(q, m)[i] = q[i]
                /\ \A i \in 1 .. Len(Append(q, m)) : i \in 1 .. Len(q) \/ Append(q, m)[i] = m
                /\ Len(q) + 1 \in 1 .. Len(Append(q, m)) /\ Append(q, m)[Len(q) + 1] = m
           /\ q # <<>> =>
                /\ Head(q) \in S /\ Head(q) = q[1] /\ 1 \in 1 .. Len(q)
                /\ Tail(q) \in Seq(S) /\ Len(Tail(q)) + 1 = Len(q)
                /\ \A i \in 1 .. Len(Tail(q)) : i + 1 \in 1 .. Len(q) /\ Tail(q)[i] = q[i + 1]
                /\ \A i \in 1 .. Len(q) :
                      \/ i = 1
                      \/ i - 1 \in 1 .. Len(Tail(q)) /\ Tail(q)[i - 1] = q[i]
OBVIOUS

\* What an actor's step to another point does.
LEMMA GoSteps ==
    ASSUME TypeOK, NEW a \in Actors, NEW p \in Places, Go(a, p)
    PROVE  pc' \in [Actors -> Places] /\ pc'[a] = p /\ \A b \in Actors \ {a} : pc'[b] = pc[b]
BY DEF TypeOK, Go

\* The versions are numbers.
LEMMA Versions ==
    ASSUME TypeOK
    PROVE  /\ light \in Nat /\ sent \in Nat /\ light <= sent /\ bus.dev \in Nat /\ mDev \in Int
           /\ \A a \in Actors : copy[a].dev \in Nat /\ copy[a].dev \in 0 .. MaxChanges
           /\ \A i \in 1 .. Len(inbox) : inbox[i] \in Reports
           /\ \A r \in Reports : r.dev \in Nat
           /\ \A n \in 0 .. MaxChanges : n \in Nothing .. MaxChanges
<1>1. \A n \in 0 .. MaxChanges : n \in Nat /\ n \in Nothing .. MaxChanges
  BY FlowAssumption DEF Nothing
<1>2. \A n \in Nothing .. MaxChanges : n \in Int
  BY FlowAssumption DEF Nothing
<1>3. light \in Nat /\ sent \in Nat /\ light <= sent /\ mDev \in Int
  BY <1>1, <1>2 DEF TypeOK
<1>4. bus.dev \in Nat /\ \A a \in Actors : copy[a].dev \in Nat /\ copy[a].dev \in 0 .. MaxChanges
  BY <1>1 DEF TypeOK, Status
<1>5. \A i \in 1 .. Len(inbox) : inbox[i] \in Reports
  BY DEF TypeOK
<1>6. \A r \in Reports : r.dev \in Nat
  BY <1>1 DEF Reports
<1> QED
  BY <1>1, <1>3, <1>4, <1>5, <1>6

\* A message more in the inbox, about the camera's state as it is after the step.
LEMMA Arrives ==
    ASSUME FlowInv, NEW m \in Reports, inbox' = Append(inbox, m), m.dev = light',
           light' \in Nat, light <= light'
    PROVE  /\ inbox' \in Seq(Reports)
           /\ \A i \in 1 .. Len(inbox') : inbox'[i].dev <= light'
           /\ m.kind = "report" => \E i \in 1 .. Len(inbox') : Reported(i)'
           /\ light' = light =>
                \A i \in 1 .. Len(inbox) : Reported(i) => i \in 1 .. Len(inbox') /\ Reported(i)'
<1>1. /\ inbox \in Seq(Reports) /\ inbox' \in Seq(Reports)
      /\ \A i \in 1 .. Len(inbox) : i \in 1 .. Len(inbox') /\ inbox'[i] = inbox[i]
      /\ \A i \in 1 .. Len(inbox') : i \in 1 .. Len(inbox) \/ inbox'[i] = m
      /\ Len(inbox) + 1 \in 1 .. Len(inbox') /\ inbox'[Len(inbox) + 1] = m
  BY QueueSteps DEF FlowInv, TypeOK
<1>2. \A i \in 1 .. Len(inbox) : inbox[i].dev \in Nat /\ inbox[i].dev <= light
  BY Versions DEF FlowInv, NoneNewer
<1>3. \A i \in 1 .. Len(inbox') : inbox'[i].dev <= light'
  <2>1. TAKE i \in 1 .. Len(inbox')
  <2>2. CASE i \in 1 .. Len(inbox)
    <3>1. inbox'[i] = inbox[i]
      BY <1>1, <2>2
    <3> QED
      BY <1>2, <2>2, <3>1, Versions DEF FlowInv
  <2>3. CASE inbox'[i] = m
    BY <2>3
  <2> QED
    BY <1>1, <2>2, <2>3
<1>4. m.kind = "report" => \E i \in 1 .. Len(inbox') : Reported(i)'
  <2>1. PICK n \in 1 .. Len(inbox') : inbox'[n] = m
    BY <1>1
  <2>2. m.kind = "report" => Reported(n)'
    BY <2>1 DEF Reported
  <2> QED
    BY <2>2
<1>5. light' = light =>
         \A i \in 1 .. Len(inbox) : Reported(i) => i \in 1 .. Len(inbox') /\ Reported(i)'
  BY <1>1 DEF Reported
<1> QED
  BY <1>1, <1>3, <1>4, <1>5

-----------------------------------------------------------------------------
\* FlowInv is preserved by what the camera says: the newest version is in its message.
LEMMA CameraSpeaksKeeps == ASSUME FlowInv, CameraSpeaks PROVE FlowInv'
<1> USE DEF FlowInv, busVars, cmdVars, timeVars, brokVars, pullVars
<1>1. PICK m \in Reports :
        /\ m.dev = (IF m.kind = "report" /\ ~m.motion THEN sent' ELSE light)
        /\ light' = m.dev /\ inbox' = Append(inbox, m)
  BY DEF CameraSpeaks
<1>2. /\ sent' = sent + 1 /\ m.dev \in 0 .. MaxChanges
      /\ UNCHANGED <<pc, copy, dark, busVars, cmdVars, timeVars, brokVars, mDev, late, pullVars>>
  BY DEF CameraSpeaks, Happens, Reports
<1>3. /\ light \in Nat /\ sent \in Nat /\ light <= sent /\ losses \in Nat
  BY FlowAssumption, Versions DEF TypeOK
<1>4. sent < MaxChanges
  BY <1>3, FlowAssumption DEF CameraSpeaks, Happens, Room
<1>5. light' \in Nat /\ light <= light' /\ light' <= sent' /\ (light' = light \/ m.kind = "report")
  BY <1>1, <1>2, <1>3
<1>6. /\ inbox' \in Seq(Reports) /\ \A i \in 1 .. Len(inbox') : inbox'[i].dev <= light'
      /\ m.kind = "report" => \E i \in 1 .. Len(inbox') : Reported(i)'
      /\ light' = light =>
            \A i \in 1 .. Len(inbox) : Reported(i) => i \in 1 .. Len(inbox') /\ Reported(i)'
  BY <1>1, <1>5, Arrives
<1>7. TypeOK'
  <2>1. light' \in 0 .. MaxChanges /\ sent' \in 0 .. MaxChanges
    BY <1>1, <1>2, <1>3, <1>4, FlowAssumption
  <2> QED
    BY <1>2, <1>5, <1>6, <2>1 DEF TypeOK
<1>8. Roles' /\ Announced' /\ WillEnd'
  BY <1>2 DEF Roles, Announced, WillEnd
<1>9. \A n \in Nat : n <= light => n <= light'
  BY <1>3, <1>5
<1>10. NoneNewer'
  <2>1. /\ bus.dev \in Nat /\ \A a \in Actors : copy[a].dev \in Nat
        /\ "cam" \in Actors /\ "cmd" \in Actors
    BY Versions DEF Actors
  <2> QED
    BY <1>2, <1>6, <1>9, <2>1 DEF NoneNewer
<1>11. OnItsWay' /\ Calm'
  <2>1. copy["cam"].dev \in Nat
    BY Versions DEF Actors
  <2>2. CASE m.kind = "report"
    BY <1>2, <1>6, <1>9, <2>1, <2>2 DEF OnItsWay, Calm, AtRest
  <2>3. CASE light' = light
    BY <1>2, <1>6, <2>3 DEF OnItsWay, Calm, AtRest
  <2> QED
    BY <1>5, <2>2, <2>3
<1>12. OnItsWayOut'
  <2>1. CASE light' = light
    BY <1>2, <2>1 DEF OnItsWayOut
  <2>2. CASE light' # light
    <3>1. ~lost => bus'.dev # light'
      BY <1>2, <1>3, <1>5, <2>2, Versions DEF NoneNewer
    <3> QED
      BY <1>2, <3>1 DEF OnItsWayOut
  <2> QED
    BY <2>1, <2>2
<1> QED
  BY <1>7, <1>8, <1>10, <1>11, <1>12

\* FlowInv is preserved by a poll, which reports the state again.
LEMMA PollKeeps == ASSUME FlowInv, Poll PROVE FlowInv'
<1> USE DEF FlowInv, busVars, cmdVars, timeVars, brokVars, pullVars
<1> DEFINE m == [kind |-> "report", dev |-> light, motion |-> FALSE]
<1>1. /\ UNCHANGED <<pc, copy, light, sent, dark, busVars, cmdVars, timeVars, brokVars, mDev, late,
                     pullVars>>
      /\ inbox = <<>> /\ inbox' = <<m>> /\ pc["cam"] = "idle"
  BY DEF Poll, At
<1>2. m \in Reports /\ m.dev = light /\ m.kind = "report"
  BY DEF TypeOK, Reports
<1> HIDE DEF m
<1>3. /\ inbox' \in Seq(Reports) /\ Len(inbox') = 1 /\ inbox'[1] = m
  BY <1>1, <1>2
<1>4. TypeOK' /\ Roles' /\ Announced' /\ WillEnd' /\ OnItsWayOut'
  BY <1>1, <1>3 DEF TypeOK, Roles, Announced, WillEnd, OnItsWayOut
<1>5. NoneNewer'
  <2>1. \A i \in 1 .. Len(inbox') : inbox'[i].dev <= light'
    BY <1>1, <1>2, <1>3, Versions
  <2> QED
    BY <1>1, <2>1 DEF NoneNewer
<1>6. OnItsWay' /\ Calm'
  <2>1. 1 \in 1 .. Len(inbox') /\ Reported(1)'
    BY <1>1, <1>2, <1>3 DEF Reported
  <2> QED
    BY <1>1, <2>1 DEF OnItsWay, Calm
<1> QED
  BY <1>4, <1>5, <1>6

\* FlowInv is preserved by the reader of the camera's messages.
LEMMA HandleMessageKeeps == ASSUME FlowInv, HandleMessage PROVE FlowInv'
<1> USE DEF FlowInv, busVars, cmdVars, timeVars, brokVars, pullVars
<1>1. /\ inbox \in Seq(Reports) /\ inbox # <<>> /\ inbox' = Tail(inbox) /\ pc["cam"] = "idle"
      /\ UNCHANGED <<light, sent, dark, busVars, direct, clock, loose, brokVars, mDev, late,
                     pullVars>>
  BY DEF HandleMessage, At, TypeOK
<1> DEFINE m == Head(inbox)
<1>2. /\ m \in Reports /\ m = inbox[1] /\ 1 \in 1 .. Len(inbox) /\ inbox' \in Seq(Reports)
      /\ \A i \in 1 .. Len(inbox') : i + 1 \in 1 .. Len(inbox) /\ inbox'[i] = inbox[i + 1]
      /\ \A i \in 1 .. Len(inbox) : i = 1 \/ (i - 1 \in 1 .. Len(inbox') /\ inbox'[i - 1] = inbox[i])
  BY <1>1, QueueSteps
<1>3. /\ copy' = [copy EXCEPT !["cam"] = IF m.kind = "report" THEN [bus EXCEPT !.dev = m.dev]
                                         ELSE IF m.kind = "info" THEN bus ELSE @]
      /\ rest' = (IF m.kind = "generic" THEN "bare" ELSE IF m.motion THEN "motion" ELSE "none")
      /\ calm' = (m.kind = "report" /\ m.dev = light /\ AtRest("cmd") /\ AtRest("mqtt"))
      /\ Go("cam", IF m.kind = "generic" THEN "set" ELSE "put")
  BY DEF HandleMessage
<1> HIDE DEF m
<1>4. "cam" \in Actors /\ {"set", "put"} \subseteq Places
  BY DEF Actors, Places
<1>5. /\ pc' \in [Actors -> Places] /\ \A b \in Actors \ {"cam"} : pc'[b] = pc[b]
      /\ pc'["cam"] = IF m.kind = "generic" THEN "set" ELSE "put"
  BY <1>3, <1>4, GoSteps
<1>6. /\ copy' \in [Actors -> Status] /\ \A b \in Actors \ {"cam"} : copy'[b] = copy[b]
      /\ m.kind = "report" => copy'["cam"].dev = m.dev
      /\ m.kind = "info" => copy'["cam"].dev = bus.dev
  BY <1>2, <1>3, <1>4 DEF TypeOK, Status, Reports
<1>7. /\ m.kind \in {"report", "info", "generic"} /\ m.dev <= light
      /\ rest' \in {"none", "motion", "bare"} /\ (m.kind = "generic" => rest' = "bare")
  BY <1>2, <1>3 DEF Reports, NoneNewer
<1>8. calm' \in BOOLEAN
  BY <1>3
<1>9. TypeOK'
  BY <1>1, <1>2, <1>5, <1>6, <1>7, <1>8 DEF TypeOK
<1>10. Roles'
  BY <1>1, <1>5, <1>7 DEF Roles, Actors
<1>11. NoneNewer'
  <2>1. \A i \in 1 .. Len(inbox') : inbox'[i].dev <= light'
    BY <1>1, <1>2 DEF NoneNewer
  <2>2. ~lost => \A a \in {"cam", "cmd"} : pc'[a] \in {"get", "put"} => copy'[a].dev <= light
    BY <1>5, <1>6, <1>7 DEF NoneNewer, Actors
  <2>3. copy'["cmd"] = copy["cmd"]
    BY <1>6 DEF Actors
  <2> QED
    BY <1>1, <2>1, <2>2, <2>3 DEF NoneNewer
<1>12. Announced'
  BY <1>1, <1>5, <1>6 DEF Announced
<1>13. OnItsWay'
  <2>1. ASSUME NEW i \in 1 .. Len(inbox), Reported(i), ~lost
        PROVE  OnItsWay'
    <3>1. CASE i = 1
      <4>1. pc'["cam"] = "put" /\ copy'["cam"].dev = light'
        BY <1>1, <1>2, <1>5, <1>6, <2>1, <3>1 DEF Reported
      <4> QED
        BY <4>1 DEF OnItsWay
    <3>2. CASE i # 1
      <4>1. i - 1 \in 1 .. Len(inbox') /\ Reported(i - 1)'
        BY <1>1, <1>2, <2>1, <3>2 DEF Reported
      <4> QED
        BY <4>1 DEF OnItsWay
    <3> QED
      BY <3>1, <3>2
  <2>2. "cmd" \in Actors \ {"cam"}
    BY DEF Actors
  <2> QED
    BY <1>1, <1>5, <1>6, <2>1, <2>2 DEF OnItsWay
<1>14. OnItsWayOut'
  BY <1>1, <1>5, <1>6 DEF OnItsWayOut, Actors
<1>15. Calm'
  <2> SUFFICES ASSUME calm' PROVE Calm'
    BY DEF Calm
  <2>1. m.kind = "report" /\ m.dev = light /\ AtRest("cmd") /\ AtRest("mqtt")
    BY <1>3
  <2>2. pc'["cam"] = "put" /\ copy'["cam"].dev = light /\ light <= light
    BY <1>5, <1>6, <2>1, Versions
  <2>3. AtRest("cmd")' /\ AtRest("mqtt")'
    BY <1>5, <2>1 DEF AtRest, Actors
  <2> QED
    BY <1>1, <2>2, <2>3 DEF Calm
<1>16. WillEnd'
  BY <1>1, <1>5 DEF WillEnd, Actors
<1> QED
  BY <1>9, <1>10, <1>11, <1>12, <1>13, <1>14, <1>15, <1>16

\* FlowInv is preserved by a command, carried out or not: what the camera refused and is
\* written or published all the same is told by the histories.
LEMMA CommandKeeps == ASSUME FlowInv, Command PROVE FlowInv'
<1> USE DEF FlowInv, timeVars, brokVars, pullVars
<1>1. PICK done \in BOOLEAN, writes \in BOOLEAN :
        /\ direct' \in BOOLEAN /\ (done \/ writes \/ direct') /\ (writes /\ direct' => done)
        /\ light' = IF done THEN sent' ELSE light
        /\ \/ UNCHANGED inbox
           \/ done /\ inbox' = Append(inbox, [kind |-> "report", dev |-> light', motion |-> FALSE])
        /\ lost' = (lost \/ (writes /\ ~done) \/ (~writes /\ done /\ inbox' = inbox))
        /\ late' = (late \/ (direct' /\ ~done))
        /\ Go("cmd", IF writes THEN "get" ELSE IF direct' THEN "direct" ELSE "idle")
        /\ copy' = [copy EXCEPT !["cmd"].dev = IF writes \/ direct' THEN sent' ELSE @]
  BY DEF Command
<1>2. /\ pc["cmd"] = "idle" /\ sent' = sent + 1 /\ calm' = FALSE
      /\ UNCHANGED <<dark, bus, timeVars, brokVars, mDev, pullVars>>
  BY DEF Command, At, Happens
<1>3. light \in Nat /\ sent \in Nat /\ light <= sent /\ losses \in Nat
  BY FlowAssumption, Versions DEF TypeOK
<1>4. sent < MaxChanges
  BY <1>3, FlowAssumption DEF Command, Happens, Room
<1>5. /\ light' \in 0 .. MaxChanges /\ sent' \in 0 .. MaxChanges /\ light' <= sent'
      /\ light <= light' /\ light' \in Nat /\ (~done => light' = light)
      /\ done => light' = sent' /\ light < light'
  BY <1>1, <1>2, <1>3, <1>4, FlowAssumption
<1>6. /\ lost' \in BOOLEAN /\ late' \in BOOLEAN
      /\ ~lost' => ~lost /\ ~(writes /\ ~done)
      /\ ~lost' => ~(~writes /\ done /\ inbox' = inbox)
      /\ ~late' => ~late /\ ~(direct' /\ ~done)
  BY <1>1, Zenon
<1>7. "cmd" \in Actors /\ {"get", "direct", "idle"} \subseteq Places
  BY DEF Actors, Places
<1>8. /\ pc' \in [Actors -> Places] /\ \A b \in Actors \ {"cmd"} : pc'[b] = pc[b]
      /\ pc'["cmd"] = IF writes THEN "get" ELSE IF direct' THEN "direct" ELSE "idle"
  BY <1>1, <1>7, GoSteps
<1>9. /\ copy' \in [Actors -> Status] /\ \A b \in Actors \ {"cmd"} : copy'[b] = copy[b]
      /\ writes \/ direct' => copy'["cmd"].dev = sent'
  BY <1>1, <1>5, <1>7 DEF TypeOK, Status
<1>10. PICK m \in Reports : m = [kind |-> "report", dev |-> light', motion |-> FALSE]
  BY <1>5 DEF Reports
<1>11. /\ m.kind = "report" /\ m.dev = light'
       /\ UNCHANGED inbox \/ (done /\ inbox' = Append(inbox, m))
  BY <1>1, <1>10
<1>12. /\ inbox' \in Seq(Reports) /\ \A i \in 1 .. Len(inbox') : inbox'[i].dev <= light'
       /\ inbox' = inbox \/ \E i \in 1 .. Len(inbox') : Reported(i)'
  <2>1. CASE UNCHANGED inbox
    <3>1. \A i \in 1 .. Len(inbox) : inbox[i].dev \in Nat /\ inbox[i].dev <= light
      BY Versions DEF NoneNewer
    <3> QED
      BY <1>3, <1>5, <2>1, <3>1 DEF TypeOK
  <2>2. CASE inbox' = Append(inbox, m)
    BY <1>5, <1>11, <2>2, Arrives
  <2> QED
    BY <1>11, <2>1, <2>2
<1>13. TypeOK'
  BY <1>1, <1>2, <1>5, <1>6, <1>8, <1>9, <1>12 DEF TypeOK
<1>14. Roles' /\ WillEnd' /\ Calm'
  BY <1>2, <1>8 DEF Roles, WillEnd, Calm, Actors
<1>15. NoneNewer'
  <2>1. \A n \in Nat : n <= light => n <= light'
    BY <1>3, <1>5
  <2>2. bus.dev \in Nat /\ copy["cam"].dev \in Nat /\ copy'["cam"] = copy["cam"] /\ pc'["cam"] = pc["cam"]
    BY <1>8, <1>9, Versions DEF Actors
  <2>3. ~lost' => bus'.dev <= light'
    BY <1>2, <1>6, <2>1, <2>2 DEF NoneNewer
  <2>4. ~lost' /\ pc'["cam"] \in {"get", "put"} => copy'["cam"].dev <= light'
    BY <1>6, <2>1, <2>2 DEF NoneNewer
  <2>5. light' <= light'
    BY <1>5
  <2>6. ~lost' /\ pc'["cmd"] \in {"get", "put"} => copy'["cmd"].dev <= light'
    BY <1>5, <1>6, <1>8, <1>9, <2>5
  <2>7. direct' /\ ~late' => copy'["cmd"].dev <= light'
    BY <1>5, <1>6, <1>9, <2>5
  <2> QED
    BY <1>12, <2>3, <2>4, <2>6, <2>7 DEF NoneNewer
<1>16. Announced'
  BY <1>2, <1>6, <1>8, <1>9 DEF Announced
<1>17. OnItsWay'
  <2> SUFFICES ASSUME ~lost' PROVE OnItsWay'
    BY DEF OnItsWay
  <2>1. CASE \E i \in 1 .. Len(inbox') : Reported(i)'
    BY <2>1 DEF OnItsWay
  <2>2. CASE inbox' = inbox /\ done
    <3>1. writes
      BY <1>6, <2>2
    <3> QED
      BY <1>5, <1>8, <1>9, <2>2, <3>1 DEF OnItsWay
  <2>3. CASE inbox' = inbox /\ ~done
    <3>1. light' = light /\ bus' = bus /\ pc'["cam"] = pc["cam"] /\ copy'["cam"] = copy["cam"]
      BY <1>2, <1>5, <1>8, <1>9, <2>3 DEF Actors
    <3>2. \/ bus.dev = light
          \/ pc["cam"] = "put" /\ copy["cam"].dev = light
          \/ \E i \in 1 .. Len(inbox) : Reported(i)
      BY <1>2, <1>6 DEF OnItsWay
    <3>3. \A i \in 1 .. Len(inbox) : Reported(i) => i \in 1 .. Len(inbox') /\ Reported(i)'
      BY <2>3, <3>1 DEF Reported
    <3> QED
      BY <3>1, <3>2, <3>3 DEF OnItsWay
  <2> QED
    BY <1>12, <2>1, <2>2, <2>3
<1>18. OnItsWayOut'
  <2>1. CASE done
    <3>1. ~lost' => bus'.dev # light'
      BY <1>2, <1>3, <1>5, <1>6, <2>1, Versions DEF NoneNewer
    <3> QED
      BY <3>1 DEF OnItsWayOut
  <2>2. CASE ~done
    BY <1>2, <1>5, <1>6, <1>8, <1>9, <2>2 DEF OnItsWayOut, Actors
  <2> QED
    BY <2>1, <2>2
<1> QED
  BY <1>13, <1>14, <1>15, <1>16, <1>17, <1>18

\* The setter reads the motion; the version it has is its own.
LEMMA ReadStatusKeeps == ASSUME FlowInv, ReadStatus PROVE FlowInv'
<1> USE DEF FlowInv, camVars, busVars, cmdVars, timeVars, brokVars, pullVars
<1>1. /\ pc["cmd"] = "get" /\ Go("cmd", "put") /\ copy' = [copy EXCEPT !["cmd"].motion = bus.motion]
      /\ UNCHANGED <<camVars, busVars, cmdVars, timeVars, brokVars, mDev, late, pullVars>>
  BY DEF ReadStatus, At
<1>2. "cmd" \in Actors /\ "put" \in Places
  BY DEF Actors, Places
<1>3. /\ pc' \in [Actors -> Places] /\ pc'["cmd"] = "put"
      /\ \A b \in Actors \ {"cmd"} : pc'[b] = pc[b]
  BY <1>1, <1>2, GoSteps
<1>4. copy' \in [Actors -> Status] /\ \A a \in Actors : copy'[a].dev = copy[a].dev
  BY <1>1, <1>2 DEF TypeOK, Status
<1>5. TypeOK'
  BY <1>1, <1>3, <1>4 DEF TypeOK
<1>6. Roles' /\ Announced' /\ NoneNewer' /\ OnItsWay'
  BY <1>1, <1>3, <1>4 DEF Roles, Announced, NoneNewer, OnItsWay, Reported, Actors
<1>7. OnItsWayOut' /\ WillEnd'
  BY <1>1, <1>3, <1>4 DEF OnItsWayOut, WillEnd, Actors
<1>8. Calm'
  BY <1>1 DEF Calm, AtRest
<1> QED
  BY <1>5, <1>6, <1>7, <1>8

-----------------------------------------------------------------------------
\* FlowInv is preserved by UpdateStatus: it goes back only when it has lost an update.
LEMMA PutKeeps == ASSUME FlowInv, NEW a \in Actors, Put(a) PROVE FlowInv'
<1> USE DEF FlowInv, camVars, cmdVars, brokVars, pullVars
<1>1. /\ pc[a] = "put" /\ Go(a, "tell") /\ bus' = copy[a]
      /\ lost' = (lost \/ copy[a].dev < bus.dev)
      /\ loose' = (loose \/ (copy[a].motion /\ ~bus.motion))
      /\ UNCHANGED <<copy, camVars, cmdVars, clock, rest, brokVars, mDev, late, pullVars>>
  BY DEF Put, At
<1>2. "tell" \in Places
  BY DEF Places
<1>3. pc' \in [Actors -> Places] /\ pc'[a] = "tell" /\ \A b \in Actors \ {a} : pc'[b] = pc[b]
  BY <1>1, <1>2, GoSteps
<1>4. a \in {"cam", "cmd"}
  BY <1>1 DEF Roles, Actors
<1>5. bus.dev \in Nat /\ light \in Nat /\ \A b \in Actors : copy[b].dev \in Nat
  BY Versions
<1>6. /\ lost' \in BOOLEAN /\ loose' \in BOOLEAN
      /\ ~loose' => ~loose /\ (bus'.motion => bus.motion)
  BY <1>1, Zenon
<1>7. ~lost' => ~lost /\ copy[a].dev >= bus.dev
  <2>1. ~lost' => ~lost /\ ~(copy[a].dev < bus.dev)
    BY <1>1, Zenon
  <2> QED
    BY <1>5, <2>1
<1>8. TypeOK'
  <2>1. bus' \in Status
    BY <1>1 DEF TypeOK
  <2> QED
    BY <1>1, <1>3, <1>6, <2>1 DEF TypeOK
<1>9. Roles' /\ NoneNewer'
  BY <1>1, <1>3, <1>4, <1>7 DEF Roles, NoneNewer, Actors
<1>10. Announced'
  BY <1>1, <1>3, <1>5, <1>7 DEF Announced
<1>11. OnItsWay'
  <2> SUFFICES ASSUME ~lost' PROVE OnItsWay'
    BY DEF OnItsWay
  <2>1. CASE bus.dev = light
    <3>1. copy[a].dev <= light /\ copy[a].dev >= light
      BY <1>1, <1>4, <1>7, <2>1 DEF NoneNewer
    <3>2. bus'.dev = light'
      BY <1>1, <1>5, <3>1
    <3> QED
      BY <3>2 DEF OnItsWay
  <2>2. CASE copy[a].dev = light
    BY <1>1, <2>2 DEF OnItsWay
  <2>3. CASE \E i \in 1 .. Len(inbox) : Reported(i)
    BY <1>1, <2>3 DEF OnItsWay, Reported
  <2>4. CASE /\ a # "cam" /\ pc["cam"] = "put" /\ copy["cam"].dev = light
    BY <1>1, <1>3, <2>4 DEF OnItsWay, Actors
  <2>5. CASE /\ a # "cmd" /\ pc["cmd"] \in {"get", "put"} /\ copy["cmd"].dev = light
    BY <1>1, <1>3, <2>5 DEF OnItsWay, Actors
  <2> QED
    BY <1>7, <2>1, <2>2, <2>3, <2>4, <2>5 DEF OnItsWay
<1>12. OnItsWayOut'
  BY <1>1, <1>3 DEF OnItsWayOut
<1>13. Calm'
  <2> SUFFICES ASSUME calm' PROVE Calm'
    BY DEF Calm
  <2>1. a = "cam"
    BY <1>1, <1>4 DEF Calm, AtRest
  <2> QED
    BY <1>1, <1>3, <2>1 DEF Calm, AtRest, Reported, Actors
<1>14. WillEnd'
  BY <1>1, <1>3, <1>4, <1>6 DEF WillEnd, Actors, Roles
<1> QED
  BY <1>8, <1>9, <1>10, <1>11, <1>12, <1>13, <1>14

\* The listener's step apart from what is published: the histories are cleared only in a
\* calm, when the camera's state is in the bus.
LEMMA TellSteps ==
    ASSUME FlowInv, NEW a \in Actors, TellDevice(a)
    PROVE  /\ pc[a] = "tell" /\ a \in {"cam", "cmd"}
           /\ UNCHANGED <<light, sent, dark, inbox, bus, direct, clock, rest, loose, conn, hooked,
                          losses, base, queue, lastMotion>>
           /\ pc' \in [Actors -> Places] /\ \A b \in Actors \ {a} : pc'[b] = pc[b]
           /\ pc'[a] \in {"idle", "set", "direct"}
           /\ pc'[a] = "set" => a = "cam" /\ rest = "motion"
           /\ pc'[a] = "direct" => a = "cmd" /\ direct /\ copy' = copy
           /\ a = "cmd" /\ direct => pc'[a] = "direct"
           /\ copy' \in [Actors -> Status] /\ \A b \in Actors \ {a} : copy'[b] = copy[b]
           /\ copy'[a] = copy[a] \/ copy'[a].dev = 0
           /\ lost' \in BOOLEAN /\ calm' \in BOOLEAN
           /\ ~lost' => ~lost \/ (a = "cam" /\ calm)
           /\ calm' => calm /\ a # "cam"
<1> USE DEF FlowInv
<1> DEFINE p == IF a = "cmd" /\ direct THEN "direct"
                ELSE IF a = "cam" /\ rest = "motion" THEN "set" ELSE "idle"
<1>1. /\ pc[a] = "tell" /\ Go(a, p)
      /\ \/ copy' = copy /\ p = "direct"
         \/ copy' = [copy EXCEPT ![a] = Blank] /\ p # "direct"
      /\ lost' = (lost /\ ~(a = "cam" /\ calm)) /\ calm' = (calm /\ a # "cam")
      /\ UNCHANGED <<light, sent, dark, inbox, bus, direct, clock, rest, loose, conn, hooked,
                     losses, base, queue, lastMotion>>
  BY DEF TellDevice, At, Forget, camVars, timeVars, brokVars, pullVars
<1>2. p \in Places /\ p \in {"idle", "set", "direct"}
  BY DEF Places
<1>3. pc' \in [Actors -> Places] /\ pc'[a] = p /\ \A b \in Actors \ {a} : pc'[b] = pc[b]
  BY <1>1, <1>2, GoSteps
<1>4. a \in {"cam", "cmd"}
  BY <1>1 DEF Roles, Actors
<1>5. Blank \in Status /\ Blank.dev = 0
  BY FlowAssumption DEF Status, Blank
<1>6. /\ copy' \in [Actors -> Status] /\ \A b \in Actors \ {a} : copy'[b] = copy[b]
      /\ copy'[a] = copy[a] \/ copy'[a].dev = 0
  <2>1. copy \in [Actors -> Status]
    BY DEF TypeOK
  <2>2. CASE copy' = copy
    BY <2>1, <2>2
  <2>3. CASE copy' = [copy EXCEPT ![a] = Blank]
    BY <1>5, <2>1, <2>3
  <2> QED
    BY <1>1, <2>2, <2>3
<1>7. lost \in BOOLEAN /\ calm \in BOOLEAN
  BY DEF TypeOK
<1>8. /\ lost' \in BOOLEAN /\ calm' \in BOOLEAN /\ (~lost' => ~lost \/ (a = "cam" /\ calm))
      /\ (calm' => calm /\ a # "cam")
  BY <1>1, <1>7, Zenon
<1> QED
  BY <1>1, <1>2, <1>3, <1>4, <1>6, <1>8

\* FlowInv is preserved by the listener: who publishes what the bus does not have any
\* more publishes something older.
LEMMA TellDeviceKeeps == ASSUME FlowInv, NEW a \in Actors, TellDevice(a) PROVE FlowInv'
<1> USE DEF FlowInv
<1>1. /\ pc[a] = "tell" /\ a \in {"cam", "cmd"}
      /\ UNCHANGED <<light, sent, dark, inbox, bus, direct, clock, rest, loose, conn, hooked,
                     losses, base, queue, lastMotion>>
      /\ pc' \in [Actors -> Places] /\ \A b \in Actors \ {a} : pc'[b] = pc[b]
      /\ pc'[a] \in {"idle", "set", "direct"}
      /\ pc'[a] = "set" => a = "cam" /\ rest = "motion"
      /\ pc'[a] = "direct" => a = "cmd" /\ direct /\ copy' = copy
      /\ a = "cmd" /\ direct => pc'[a] = "direct"
      /\ copy' \in [Actors -> Status] /\ \A b \in Actors \ {a} : copy'[b] = copy[b]
      /\ copy'[a] = copy[a] \/ copy'[a].dev = 0
      /\ lost' \in BOOLEAN /\ calm' \in BOOLEAN
      /\ ~lost' => ~lost \/ (a = "cam" /\ calm)
      /\ calm' => calm /\ a # "cam"
  BY TellSteps
<1>2. /\ bus.dev \in Nat /\ light \in Nat /\ mDev \in Int /\ copy[a].dev \in Nat
      /\ copy[a].dev \in Nothing .. MaxChanges
  BY Versions
<1>3. ASSUME a = "cam", calm
      PROVE  /\ copy[a].dev = bus.dev /\ bus.dev <= light /\ pc["cmd"] \in {"idle", "off"}
             /\ pc["mqtt"] \in {"idle", "off"} /\ pc["timer"] \in {"idle", "set", "onvif"}
             /\ copy[a].dev = light \/ \E i \in 1 .. Len(inbox) : Reported(i)
  BY <1>1, <1>3 DEF Calm, AtRest, Roles
<1>4. late' \in BOOLEAN /\ mDev' \in Nothing .. MaxChanges
  <2>1. CASE conn /\ hooked
    <3>1. /\ mDev' = mDev \/ mDev' = copy[a].dev
          /\ late' = ((late \/ Overtaken(copy[a].dev)) /\ ~(a = "cam" /\ calm))
      BY <2>1 DEF TellDevice, Publish
    <3> QED
      BY <1>2, <3>1 DEF TypeOK
  <2>2. CASE ~(conn /\ hooked)
    <3>1. mDev' = mDev /\ late' = (late \/ conn)
      BY <2>2 DEF TellDevice
    <3> QED
      BY <3>1 DEF TypeOK
  <2> QED
    BY <2>1, <2>2
<1>5. TypeOK'
  BY <1>1, <1>4 DEF TypeOK
<1>6. Roles' /\ WillEnd'
  BY <1>1 DEF Roles, WillEnd, Actors
<1>7. Announced'
  BY <1>1, <1>3 DEF Announced, Actors
<1>8. NoneNewer'
  <2>1. \A i \in 1 .. Len(inbox') : inbox'[i].dev <= light'
    BY <1>1 DEF NoneNewer
  <2>2. ~lost' => bus'.dev <= light'
    BY <1>1, <1>3 DEF NoneNewer
  <2>3. ~lost' => \A b \in {"cam", "cmd"} : pc'[b] \in {"get", "put"} => copy'[b].dev <= light'
    BY <1>1, <1>3 DEF NoneNewer, Actors
  <2>4. ASSUME direct', ~late' PROVE copy'["cmd"].dev <= light'
    <3>1. ~(a = "cam" /\ calm)
      BY <1>1, <1>3, <2>4 DEF Roles
    <3>2. ~late
      <4>1. \/ late' = (late \/ conn)
            \/ late' = ((late \/ Overtaken(copy[a].dev)) /\ ~(a = "cam" /\ calm))
        BY DEF TellDevice
      <4> QED
        BY <2>4, <3>1, <4>1, Zenon
    <3>3. copy'["cmd"] = copy["cmd"]
      BY <1>1, <2>4 DEF Actors
    <3> QED
      BY <1>1, <2>4, <3>2, <3>3 DEF NoneNewer
  <2> QED
    BY <2>1, <2>2, <2>3, <2>4 DEF NoneNewer
<1>9. OnItsWay'
  <2> SUFFICES ASSUME ~lost' PROVE OnItsWay'
    BY DEF OnItsWay
  <2>1. CASE a = "cam" /\ calm
    BY <1>1, <1>3, <2>1 DEF OnItsWay, Reported
  <2>2. CASE ~lost
    BY <1>1, <2>2 DEF OnItsWay, Reported, Actors
  <2> QED
    BY <1>1, <2>1, <2>2
<1>10. Calm'
  <2> SUFFICES ASSUME calm' PROVE Calm'
    BY DEF Calm
  <2>1. calm /\ a = "cmd"
    BY <1>1
  <2> QED
    BY <1>1, <2>1 DEF Calm, AtRest
<1>11. OnItsWayOut'
  <2> SUFFICES ASSUME ~lost', ~late', conn, bus.dev = light, bus.dev \notin dark
               PROVE  OnItsWayOut'
    BY <1>1 DEF OnItsWayOut
  <2>1. CASE ~hooked
    <3>1. late' = (late \/ conn)
      BY <2>1 DEF TellDevice
    <3> QED
      BY <3>1, Zenon
  <2>2. CASE hooked
    <3>1. /\ copy[a].dev \in dark => mDev' = mDev
          /\ copy[a].dev \notin dark => mDev' = copy[a].dev
          /\ late' = ((late \/ Overtaken(copy[a].dev)) /\ ~(a = "cam" /\ calm))
      BY <2>2 DEF TellDevice, Publish
    <3>2. CASE copy[a].dev = bus.dev
      <4>1. mDev' = bus'.dev
        BY <1>1, <3>1, <3>2
      <4> QED
        BY <4>1 DEF OnItsWayOut
    <3>3. CASE copy[a].dev # bus.dev
      <4>1. ~(a = "cam" /\ calm)
        BY <1>3, <3>3
      <4>2. ~late /\ ~Overtaken(copy[a].dev)
        BY <3>1, <4>1, Zenon
      <4>3. ~lost
        BY <1>1, <4>1
      <4>4. copy[a].dev <= bus.dev
        BY <1>1, <4>3 DEF Announced
      <4>5. CASE mDev = bus.dev
        <5>1. copy[a].dev \notin dark => ~(copy[a].dev < mDev)
          BY <4>2 DEF Overtaken
        <5>2. copy[a].dev \in dark
          BY <1>2, <3>3, <4>4, <4>5, <5>1
        <5>3. mDev' = bus'.dev
          BY <1>1, <3>1, <4>5, <5>2
        <5> QED
          BY <5>3 DEF OnItsWayOut
      <4>6. ASSUME NEW b \in Actors, pc[b] = "tell", copy[b].dev = bus.dev PROVE OnItsWayOut'
        BY <1>1, <3>3, <4>6 DEF OnItsWayOut
      <4>7. CASE pc["mqtt"] = "get" \/ (pc["mqtt"] = "publish" /\ copy["mqtt"].dev = bus.dev)
        BY <1>1, <4>7 DEF OnItsWayOut, Actors
      <4> QED
        BY <4>2, <4>3, <4>5, <4>6, <4>7 DEF OnItsWayOut
    <3> QED
      BY <3>2, <3>3
  <2> QED
    BY <2>1, <2>2
<1> QED
  BY <1>5, <1>6, <1>7, <1>8, <1>9, <1>10, <1>11

\* FlowInv is preserved by MQTT's handler, which publishes what it was asked for.
LEMMA PublishDirectKeeps == ASSUME FlowInv, PublishDirect PROVE FlowInv'
<1> USE DEF FlowInv, camVars, busVars, timeVars, brokVars, pullVars
<1>1. /\ pc["cmd"] = "direct" /\ Go("cmd", "idle") /\ copy' = [copy EXCEPT !["cmd"] = Blank]
      /\ direct' = FALSE
      /\ UNCHANGED <<camVars, busVars, calm, timeVars, brokVars, pullVars>>
  BY DEF PublishDirect, At, Forget
<1>2. IF conn THEN mDev' = copy["cmd"].dev /\ late' = (late \/ copy["cmd"].dev < mDev)
              ELSE mDev' = mDev /\ late' = late
  BY DEF PublishDirect
<1>3. "cmd" \in Actors /\ "idle" \in Places
  BY DEF Actors, Places
<1>4. /\ pc' \in [Actors -> Places] /\ pc'["cmd"] = "idle"
      /\ \A b \in Actors \ {"cmd"} : pc'[b] = pc[b]
  BY <1>1, <1>3, GoSteps
<1>5. Blank \in Status
  BY FlowAssumption DEF Status, Blank
<1>6. copy' \in [Actors -> Status] /\ \A b \in Actors \ {"cmd"} : copy'[b] = copy[b]
  BY <1>1, <1>3, <1>5 DEF TypeOK
<1>7. /\ light \in Nat /\ bus.dev \in Nat /\ mDev \in Int
      /\ copy["cmd"].dev \in Nat /\ copy["cmd"].dev \in Nothing .. MaxChanges
  BY <1>3, Versions
<1>8. late' \in BOOLEAN /\ mDev' \in Nothing .. MaxChanges
  BY <1>2, <1>7 DEF TypeOK
<1>9. TypeOK'
  BY <1>1, <1>4, <1>6, <1>8 DEF TypeOK
<1>10. Roles' /\ WillEnd' /\ NoneNewer' /\ Announced'
  BY <1>1, <1>4, <1>6 DEF Roles, WillEnd, NoneNewer, Announced, Actors
<1>11. OnItsWay'
  BY <1>1, <1>4, <1>6 DEF OnItsWay, Reported, Actors
<1>12. Calm'
  BY <1>1 DEF Calm, AtRest
<1>13. OnItsWayOut'
  <2> SUFFICES ASSUME ~lost, ~late', conn, bus.dev = light, bus.dev \notin dark
               PROVE  OnItsWayOut'
    BY <1>1 DEF OnItsWayOut
  <2>1. mDev' = copy["cmd"].dev /\ ~late /\ ~(copy["cmd"].dev < mDev)
    <3>1. mDev' = copy["cmd"].dev /\ late' = (late \/ copy["cmd"].dev < mDev)
      BY <1>2
    <3> QED
      BY <3>1, Zenon
  <2>2. CASE mDev = bus.dev
    <3>1. direct => copy["cmd"].dev <= light
      BY <2>1 DEF NoneNewer
    <3>2. direct
      BY <1>1 DEF Roles
    <3>3. mDev' = bus'.dev
      BY <1>1, <1>7, <2>1, <2>2, <3>1, <3>2
    <3> QED
      BY <3>3 DEF OnItsWayOut
  <2>3. ASSUME NEW b \in Actors, pc[b] = "tell", copy[b].dev = bus.dev PROVE OnItsWayOut'
    BY <1>1, <1>4, <1>6, <2>3 DEF OnItsWayOut
  <2>4. CASE pc["mqtt"] = "get" \/ (pc["mqtt"] = "publish" /\ copy["mqtt"].dev = bus.dev)
    BY <1>1, <1>4, <1>6, <2>4 DEF OnItsWayOut, Actors
  <2> QED
    BY <2>1, <2>2, <2>3, <2>4 DEF OnItsWayOut
<1> QED
  BY <1>9, <1>10, <1>11, <1>12, <1>13

\* FlowInv is preserved by SetMotion, which changes nothing but the motion.
LEMMA SetMotionKeeps == ASSUME FlowInv, NEW a \in Actors, SetMotion(a) PROVE FlowInv'
<1> USE DEF FlowInv, camVars, cmdVars, brokVars, pullVars
<1>1. /\ pc[a] = "set" /\ Go(a, "onvif") /\ bus' = [bus EXCEPT !.motion = (a = "cam")]
      /\ UNCHANGED <<copy, camVars, lost, cmdVars, clock, rest, brokVars, mDev, late, pullVars>>
  BY DEF SetMotion, At
<1>2. "onvif" \in Places
  BY DEF Places
<1>3. pc' \in [Actors -> Places] /\ pc'[a] = "onvif" /\ \A b \in Actors \ {a} : pc'[b] = pc[b]
  BY <1>1, <1>2, GoSteps
<1>4. bus' \in Status /\ bus'.dev = bus.dev /\ (bus'.motion <=> a = "cam")
  <2>1. (a = "cam") \in BOOLEAN
    OBVIOUS
  <2> QED
    BY <1>1, <2>1 DEF TypeOK, Status
<1>5. /\ loose' \in BOOLEAN
      /\ ~loose' => ~(a = "cam" /\ rest = "bare")
  <2>1. loose' = (a = "cam" /\ (loose \/ rest = "bare"))
    BY DEF SetMotion
  <2> QED
    BY <2>1, Zenon
<1>6. TypeOK'
  BY <1>1, <1>3, <1>4, <1>5 DEF TypeOK
<1>7. a \in {"cam", "timer"}
  BY <1>1 DEF Roles, Actors
<1>8. Roles' /\ NoneNewer' /\ Announced' /\ OnItsWayOut'
  BY <1>1, <1>3, <1>4, <1>7 DEF Roles, NoneNewer, Announced, OnItsWayOut, Actors
<1>9. OnItsWay'
  BY <1>1, <1>3, <1>4, <1>7 DEF OnItsWay, Reported, Actors
<1>10. Calm'
  BY <1>1, <1>3, <1>4, <1>7 DEF Calm, AtRest, Reported, Actors
<1>11. WillEnd'
  <2> SUFFICES ASSUME ~loose', bus'.motion PROVE pc'["cam"] = "onvif" /\ rest' = "motion"
    BY DEF WillEnd
  <2>1. a = "cam" /\ rest # "bare" /\ rest # "none"
    BY <1>1, <1>4, <1>5 DEF Roles
  <2> QED
    BY <1>1, <1>3, <2>1 DEF TypeOK
<1> QED
  BY <1>6, <1>8, <1>9, <1>10, <1>11

\* FlowInv is preserved by the pull point's listener; its channel stays within its capacity.
LEMMA TellOnvifKeeps == ASSUME FlowInv, NEW a \in Actors, TellOnvif(a) PROVE FlowInv'
<1> USE DEF FlowInv, camVars, busVars, cmdVars, brokVars
<1> DEFINE p == IF a = "cam" /\ rest = "motion" THEN "arm" ELSE "idle"
<1>1. /\ pc[a] = "onvif" /\ Go(a, p) /\ queue' = PushNew(a = "cam")
      /\ rest' = IF a = "cam" THEN "none" ELSE rest
      /\ UNCHANGED <<copy, camVars, busVars, cmdVars, clock, loose, brokVars, mDev, late,
                     lastMotion>>
  BY DEF TellOnvif, At
<1>2. p \in Places
  BY DEF Places
<1>3. pc' \in [Actors -> Places] /\ pc'[a] = p /\ \A b \in Actors \ {a} : pc'[b] = pc[b]
  BY <1>1, <1>2, GoSteps
<1>4. a \in {"cam", "timer"}
  BY <1>1 DEF Roles, Actors
<1>5. queue' \in Seq(BOOLEAN) /\ Len(queue') <= QueueCap
  <2>1. (a = "cam") \in BOOLEAN /\ queue \in Seq(BOOLEAN) /\ Len(queue) <= QueueCap
    BY DEF TypeOK
  <2>2. PICK e \in BOOLEAN : e = (a = "cam")
    BY <2>1
  <2>3. PICK l \in Nat, c \in Nat \ {0} : l = Len(queue) /\ c = QueueCap
    BY <2>1, FlowAssumption
  <2>4. CASE l < c
    <3>1. queue' = Append(queue, e)
      BY <1>1, <2>2, <2>3, <2>4 DEF PushNew
    <3>2. Len(queue') = l + 1
      BY <2>1, <2>3, <3>1, QueueSteps
    <3> QED
      BY <2>1, <2>3, <2>4, <3>1, <3>2, QueueSteps
  <2>5. CASE ~(l < c)
    <3>1. queue' = Append(Tail(queue), e) /\ l = c
      BY <1>1, <2>1, <2>2, <2>3, <2>5 DEF PushNew
    <3>2. queue # <<>>
      <4>1. Len(<<>>) = 0
        OBVIOUS
      <4> QED
        BY <2>3, <3>1, <4>1
    <3>3. Tail(queue) \in Seq(BOOLEAN) /\ Len(Tail(queue)) + 1 = l
      BY <2>1, <2>3, <3>2, QueueSteps
    <3>4. queue' \in Seq(BOOLEAN) /\ Len(queue') = Len(Tail(queue)) + 1
      BY <3>1, <3>3, QueueSteps
    <3> QED
      BY <2>3, <3>1, <3>3, <3>4
  <2> QED
    BY <2>4, <2>5
<1>6. TypeOK'
  BY <1>1, <1>3, <1>5 DEF TypeOK
<1>7. Roles' /\ NoneNewer' /\ Announced' /\ OnItsWayOut'
  BY <1>1, <1>3, <1>4 DEF Roles, NoneNewer, Announced, OnItsWayOut, Actors
<1>8. OnItsWay'
  BY <1>1, <1>3, <1>4 DEF OnItsWay, Reported, Actors
<1>9. WillEnd'
  BY <1>1, <1>3, <1>4 DEF WillEnd, Actors
<1>10. Calm'
  BY <1>1, <1>3, <1>4 DEF Calm, AtRest, Reported, Actors
<1> QED
  BY <1>6, <1>7, <1>8, <1>9, <1>10

\* FlowInv is preserved by the motion timer and by who starts it.
LEMMA TimerKeeps == ASSUME FlowInv, ArmTimer \/ TimerFires PROVE FlowInv'
<1> USE DEF FlowInv, camVars, busVars, cmdVars, brokVars, pullVars
<1>1. UNCHANGED <<copy, camVars, busVars, cmdVars, rest, brokVars, mDev, late, pullVars>>
  BY DEF ArmTimer, TimerFires
<1>2. {"idle", "set"} \subseteq Places /\ {"cam", "timer"} \subseteq Actors
  BY DEF Places, Actors
<1>3. CASE ArmTimer
  <2>1. pc["cam"] = "arm" /\ Go("cam", "idle") /\ clock' = TRUE /\ loose' = FALSE
    BY <1>3 DEF ArmTimer, At
  <2>2. /\ pc' \in [Actors -> Places] /\ pc'["cam"] = "idle"
        /\ \A b \in Actors \ {"cam"} : pc'[b] = pc[b]
    BY <1>2, <2>1, GoSteps
  <2>3. TypeOK'
    BY <1>1, <2>1, <2>2 DEF TypeOK
  <2>4. Roles' /\ NoneNewer' /\ Announced' /\ WillEnd'
    BY <1>1, <2>1, <2>2 DEF Roles, NoneNewer, Announced, WillEnd, Actors
  <2>5. OnItsWay' /\ OnItsWayOut' /\ Calm'
    BY <1>1, <2>1, <2>2 DEF OnItsWay, Reported, OnItsWayOut, Calm, AtRest, Actors
  <2> QED
    BY <2>3, <2>4, <2>5
<1>4. CASE TimerFires
  <2>1. pc["timer"] = "idle" /\ Go("timer", "set") /\ clock' = FALSE /\ loose' = loose
    BY <1>4 DEF TimerFires, At
  <2>2. /\ pc' \in [Actors -> Places] /\ pc'["timer"] = "set"
        /\ \A b \in Actors \ {"timer"} : pc'[b] = pc[b]
    BY <1>2, <2>1, GoSteps
  <2>3. TypeOK'
    BY <1>1, <2>1, <2>2 DEF TypeOK
  <2>4. Roles' /\ NoneNewer' /\ Announced' /\ WillEnd'
    BY <1>1, <2>1, <2>2 DEF Roles, NoneNewer, Announced, WillEnd, Actors
  <2>5. OnItsWay' /\ OnItsWayOut' /\ Calm'
    BY <1>1, <2>1, <2>2 DEF OnItsWay, Reported, OnItsWayOut, Calm, AtRest, Actors
  <2> QED
    BY <2>3, <2>4, <2>5
<1> QED
  BY <1>3, <1>4

-----------------------------------------------------------------------------
\* FlowInv is preserved by the MQTT client's connection, which it announces the status to.
LEMMA ConnectKeeps == ASSUME FlowInv, Connect PROVE FlowInv'
<1> USE DEF FlowInv, camVars, busVars, timeVars, pullVars
<1>1. /\ ~conn /\ pc["mqtt"] = "idle"
      /\ UNCHANGED <<copy, camVars, busVars, direct, timeVars, hooked, mDev, late, base, pullVars>>
  BY DEF Connect, At
<1>2. {"get", "off"} \subseteq Places /\ "mqtt" \in Actors
  BY DEF Places, Actors
<1>3. losses \in Nat /\ losses \in 0 .. MaxChanges /\ sent \in Nat
  BY FlowAssumption, Versions DEF TypeOK
<1>4. /\ \/ conn' = TRUE /\ Go("mqtt", "get") /\ calm' = FALSE
         \/ conn' = FALSE /\ Go("mqtt", "off") /\ calm' = calm
      /\ losses' \in 0 .. MaxChanges
  BY <1>1, <1>3, FlowAssumption DEF Connect, Room, TypeOK
<1>5. /\ pc' \in [Actors -> Places] /\ pc'["mqtt"] = (IF conn' THEN "get" ELSE "off")
      /\ \A b \in Actors \ {"mqtt"} : pc'[b] = pc[b]
  BY <1>2, <1>4, GoSteps
<1>6. conn' \in BOOLEAN /\ calm' \in BOOLEAN /\ (calm' => calm /\ ~conn')
  <2>1. calm \in BOOLEAN
    BY DEF TypeOK
  <2>2. CASE conn' = TRUE /\ calm' = FALSE
    BY <2>2
  <2>3. CASE conn' = FALSE /\ calm' = calm
    BY <2>1, <2>3
  <2> QED
    BY <1>4, <2>2, <2>3
<1>7. TypeOK' /\ Roles' /\ NoneNewer' /\ Announced' /\ WillEnd'
  BY <1>1, <1>4, <1>5, <1>6 DEF TypeOK, Roles, NoneNewer, Announced, WillEnd, Actors
<1>8. OnItsWay' /\ OnItsWayOut'
  BY <1>1, <1>5, <1>6 DEF OnItsWay, Reported, OnItsWayOut, Actors
<1>9. Calm'
  BY <1>1, <1>5, <1>6 DEF Calm, AtRest, Reported, Actors
<1> QED
  BY <1>7, <1>8, <1>9

\* FlowInv is preserved while the connection is hooked up or lost, and by a client that pulls.
LEMMA ElsewhereKeepsFlow == ASSUME FlowInv, Hook \/ ConnectionLost \/ PullMessages PROVE FlowInv'
<1> USE DEF FlowInv, camVars, busVars, cmdVars, timeVars, brokVars, pullVars
<1>1. UNCHANGED <<pc, copy, camVars, busVars, cmdVars, timeVars, mDev, late, base>>
  BY DEF Hook, ConnectionLost, PullMessages
<1>2. conn' \in BOOLEAN /\ hooked' \in BOOLEAN /\ (conn' => conn)
  <2>1. conn \in BOOLEAN /\ hooked \in BOOLEAN
    BY DEF TypeOK
  <2>2. CASE Hook
    BY <2>1, <2>2 DEF Hook
  <2>3. CASE ConnectionLost
    BY <2>1, <2>3 DEF ConnectionLost
  <2>4. CASE PullMessages
    BY <2>1, <2>4 DEF PullMessages
  <2> QED
    BY <2>2, <2>3, <2>4
<1>3. losses' \in 0 .. MaxChanges
  <2>1. losses \in Nat /\ losses \in 0 .. MaxChanges /\ sent \in Nat
    BY FlowAssumption, Versions DEF TypeOK
  <2> QED
    BY <2>1, FlowAssumption DEF Hook, ConnectionLost, PullMessages, Room
<1>4. queue' \in Seq(BOOLEAN) /\ Len(queue') <= QueueCap /\ lastMotion' \in BOOLEAN
  <2>1. CASE PullMessages
    <3>1. queue \in Seq(BOOLEAN) /\ Len(queue) <= QueueCap /\ bus.motion \in BOOLEAN
      BY DEF TypeOK, Status
    <3>2. CASE queue # <<>> /\ lastMotion' = Head(queue) /\ queue' = Tail(queue)
      <4>1. lastMotion' \in BOOLEAN /\ queue' \in Seq(BOOLEAN) /\ Len(queue') + 1 = Len(queue)
        BY <3>1, <3>2, QueueSteps
      <4>2. PICK l \in Nat, k \in Nat, c \in Nat : l = Len(queue) /\ k = Len(queue') /\ c = QueueCap
        BY <3>1, <4>1, FlowAssumption
      <4> QED
        BY <3>1, <4>1, <4>2
    <3> QED
      BY <2>1, <3>1, <3>2 DEF PullMessages
  <2>2. CASE Hook \/ ConnectionLost
    BY <2>2 DEF Hook, ConnectionLost, TypeOK
  <2> QED
    BY <2>1, <2>2
<1>5. TypeOK'
  BY <1>1, <1>2, <1>3, <1>4 DEF TypeOK
<1> QED
  BY <1>1, <1>2, <1>5
  DEF Roles, NoneNewer, Announced, OnItsWay, Reported, OnItsWayOut, Calm, AtRest, WillEnd

\* FlowInv is preserved by what the client publishes when it connects, or learns its topic.
LEMMA PublishesKeep == ASSUME FlowInv, Discovered \/ CopyStatus \/ PublishState PROVE FlowInv'
<1> USE DEF FlowInv, camVars, busVars, cmdVars, timeVars, pullVars
<1>1. /\ bus.dev \in Nat /\ mDev \in Int /\ light \in Nat /\ copy["mqtt"].dev \in Nat
      /\ bus.dev \in Nothing .. MaxChanges /\ copy["mqtt"].dev \in Nothing .. MaxChanges
      /\ mDev \in Nothing .. MaxChanges /\ Nothing \in Nothing .. MaxChanges
  <2>1. bus.dev \in 0 .. MaxChanges /\ mDev \in Nothing .. MaxChanges /\ "mqtt" \in Actors
    BY DEF TypeOK, Status, Actors
  <2>2. Nothing \in Nothing .. MaxChanges
    BY FlowAssumption DEF Nothing
  <2> QED
    BY <2>1, <2>2, Versions
<1>2. {"idle", "publish"} \subseteq Places /\ "mqtt" \in Actors
  BY DEF Places, Actors
<1>3. CASE Discovered
  <2>1. UNCHANGED <<pc, copy, camVars, busVars, cmdVars, timeVars, conn, hooked, losses, late,
                    pullVars>> /\ base = 1 /\ base' = 2
    BY <1>3 DEF Discovered
  <2>2. mDev' = IF conn /\ bus.dev \notin dark THEN bus.dev ELSE Nothing
    BY <1>3 DEF Discovered
  <2>3. mDev' \in Nothing .. MaxChanges
    BY <1>1, <2>2
  <2>4. TypeOK'
    BY <2>1, <2>3 DEF TypeOK
  <2>5. OnItsWayOut'
    BY <2>1, <2>2 DEF OnItsWayOut
  <2> QED
    BY <2>1, <2>4, <2>5
    DEF Roles, NoneNewer, Announced, OnItsWay, Reported, Calm, AtRest, WillEnd
<1>4. CASE CopyStatus
  <2>1. /\ pc["mqtt"] = "get" /\ Go("mqtt", "publish") /\ copy' = [copy EXCEPT !["mqtt"] = bus]
        /\ UNCHANGED <<camVars, busVars, cmdVars, timeVars, brokVars, mDev, late, pullVars>>
    BY <1>4 DEF CopyStatus, At
  <2>2. /\ pc' \in [Actors -> Places] /\ pc'["mqtt"] = "publish"
        /\ \A b \in Actors \ {"mqtt"} : pc'[b] = pc[b]
    BY <1>2, <2>1, GoSteps
  <2>3. /\ copy' \in [Actors -> Status] /\ copy'["mqtt"] = bus
        /\ \A b \in Actors \ {"mqtt"} : copy'[b] = copy[b]
    BY <1>2, <2>1 DEF TypeOK
  <2>4. TypeOK'
    BY <2>1, <2>2, <2>3 DEF TypeOK, brokVars
  <2>5. Roles' /\ NoneNewer' /\ OnItsWay' /\ WillEnd'
    BY <2>1, <2>2, <2>3 DEF Roles, NoneNewer, OnItsWay, Reported, WillEnd, Actors, brokVars
  <2>6. OnItsWayOut'
    BY <2>1, <2>2, <2>3 DEF OnItsWayOut, Actors, brokVars
  <2>7. Announced'
    <3>1. bus.dev <= bus.dev
      BY <1>1
    <3> QED
      BY <2>1, <2>2, <2>3, <3>1 DEF Announced
  <2>8. Calm'
    BY <2>1 DEF Calm, AtRest
  <2> QED
    BY <2>4, <2>5, <2>6, <2>7, <2>8
<1>5. CASE PublishState
  <2>1. /\ pc["mqtt"] = "publish" /\ Go("mqtt", "idle") /\ copy' = [copy EXCEPT !["mqtt"] = Blank]
        /\ UNCHANGED <<camVars, busVars, cmdVars, timeVars, brokVars, pullVars>>
    BY <1>5 DEF PublishState, At, Forget
  <2>2. /\ pc' \in [Actors -> Places] /\ pc'["mqtt"] = "idle"
        /\ \A b \in Actors \ {"mqtt"} : pc'[b] = pc[b]
    BY <1>2, <2>1, GoSteps
  <2>3. Blank \in Status
    BY FlowAssumption DEF Status, Blank
  <2>4. copy' \in [Actors -> Status] /\ \A b \in Actors \ {"mqtt"} : copy'[b] = copy[b]
    BY <1>2, <2>1, <2>3 DEF TypeOK
  <2>5. /\ conn => late' = (late \/ Overtaken(copy["mqtt"].dev))
        /\ conn /\ copy["mqtt"].dev \notin dark => mDev' = copy["mqtt"].dev
        /\ copy["mqtt"].dev \in dark \/ ~conn => mDev' = mDev
        /\ ~conn => late' = late
    BY <1>5 DEF PublishState, Publish
  <2>6. late' \in BOOLEAN /\ mDev' \in Nothing .. MaxChanges
    BY <1>1, <2>5 DEF TypeOK
  <2>7. late => late'
    BY <2>5 DEF TypeOK
  <2>8. TypeOK'
    BY <2>1, <2>2, <2>4, <2>6 DEF TypeOK, brokVars
  <2>9. Roles' /\ NoneNewer' /\ Announced' /\ OnItsWay' /\ WillEnd'
    BY <2>1, <2>2, <2>4, <2>7
    DEF Roles, NoneNewer, Announced, OnItsWay, Reported, WillEnd, Actors, brokVars
  <2>10. Calm'
    BY <2>1 DEF Calm, AtRest
  <2>11. OnItsWayOut'
    <3> SUFFICES ASSUME ~lost, ~late', conn, bus.dev = light, bus.dev \notin dark
                 PROVE  OnItsWayOut'
      BY <2>1 DEF OnItsWayOut, brokVars
    <3>1. ~late /\ ~Overtaken(copy["mqtt"].dev)
      <4>1. late' = (late \/ Overtaken(copy["mqtt"].dev))
        BY <2>5
      <4> QED
        BY <4>1, Zenon
    <3>2. copy["mqtt"].dev <= bus.dev
      BY <1>2, <2>1 DEF Announced
    <3>3. CASE copy["mqtt"].dev = bus.dev
      <4>1. mDev' = bus'.dev
        BY <2>1, <2>5, <3>3
      <4> QED
        BY <4>1 DEF OnItsWayOut
    <3>4. CASE copy["mqtt"].dev # bus.dev /\ mDev = bus.dev
      <4>1. copy["mqtt"].dev \in dark
        BY <1>1, <3>1, <3>2, <3>4 DEF Overtaken
      <4>2. mDev' = bus'.dev
        BY <2>1, <2>5, <3>4, <4>1
      <4> QED
        BY <4>2 DEF OnItsWayOut
    <3>5. ASSUME NEW b \in Actors, pc[b] = "tell", copy[b].dev = bus.dev PROVE OnItsWayOut'
      BY <2>1, <2>2, <2>4, <3>5 DEF OnItsWayOut
    <3> QED
      BY <2>1, <3>1, <3>3, <3>4, <3>5 DEF OnItsWayOut
  <2> QED
    BY <2>8, <2>9, <2>10, <2>11
<1> QED
  BY <1>3, <1>4, <1>5

-----------------------------------------------------------------------------
\* FlowInv is inductive: every action preserves it.
LEMMA FlowKeeps == FlowInv /\ [Next]_vars => FlowInv'
<1> SUFFICES ASSUME FlowInv, [Next]_vars PROVE FlowInv'
  OBVIOUS
<1>1. CASE UNCHANGED vars
  BY <1>1
  DEF vars, camVars, busVars, cmdVars, timeVars, brokVars, pullVars, FlowInv, TypeOK, Roles,
      NoneNewer, Announced, OnItsWay, Reported, OnItsWayOut, Calm, AtRest, WillEnd
<1> QED
  BY <1>1, CameraSpeaksKeeps, PollKeeps, HandleMessageKeeps, CommandKeeps, ReadStatusKeeps,
     PutKeeps, TellDeviceKeeps, PublishDirectKeeps, SetMotionKeeps, TellOnvifKeeps, TimerKeeps,
     ConnectKeeps, ElsewhereKeepsFlow, PublishesKeep
  DEF Next, Update

\* No behaviour leaves FlowInv.
LEMMA FlowInvariance == Spec => []FlowInv
BY FlowStarts, FlowKeeps, PTL DEF Spec

\* The values of the bus, its copies and its listeners; no channel of a pull point grows
\* beyond its capacity (broadcastMotionEvent).
THEOREM FlowTypeCorrect == Spec => []TypeOK
<1>1. FlowInv => TypeOK
  BY DEF FlowInv
<1> QED
  BY <1>1, FlowInvariance, PTL

\* Once every message, command and announcement has been handled, in whatever order, the bus
\* has the camera's state and the broker that of the bus (UpdateStatus, publishState).  What
\* was refused, not reported, written over or announced too late is excepted until the camera's
\* next report that finds no command and no new connection at work, and a state with values
\* publishStatus leaves out while it is there.
THEOREM SettlesRight == Spec => []StatusSettles
<1>1. ASSUME FlowInv PROVE StatusSettles
  <2> SUFFICES ASSUME Idle, inbox = <<>>, ~lost
               PROVE  /\ bus.dev = light
                      /\ conn /\ hooked /\ ~late /\ bus.dev \notin dark => mDev = bus.dev
    BY DEF StatusSettles
  <2>1. \A a \in Actors : pc[a] \in {"idle", "off"}
    BY DEF Idle, AtRest
  <2>2. Len(inbox) = 0
    OBVIOUS
  <2>3. bus.dev = light
    BY <1>1, <2>1, <2>2 DEF FlowInv, OnItsWay, Actors
  <2>4. conn /\ ~late /\ bus.dev \notin dark => mDev = bus.dev
    BY <1>1, <2>1, <2>3 DEF FlowInv, OnItsWayOut, Actors
  <2> QED
    BY <2>3, <2>4
<1> QED
  BY <1>1, FlowInvariance, PTL

\* A motion that was reported is reset (SetMotion, the motion timer): it is not left on when
\* the timer's goroutine, the reader of the messages and the setters have all gone by, unless
\* it was notified in words, or put back by an older copy, after the last one reported.
THEOREM MotionWillEnd == Spec => []MotionHasTimer
<1>1. ASSUME FlowInv PROVE MotionHasTimer
  BY <1>1 DEF FlowInv, MotionHasTimer, WillEnd, Idle, AtRest, Actors
<1> QED
  BY <1>1, FlowInvariance, PTL

=============================================================================
