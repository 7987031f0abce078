---------------------------- MODULE RTSPServer ----------------------------
(***************************************************************************)
(* The bridge's RTSP server (pkg/rtsp/server.go, interceptor.go): the      *)
(* stream that clients play, the count of those who play, which slows the  *)
(* recording syncer down, and the talk lock, which lets one session at a   *)
(* time speak through the camera.                                          *)
(*                                                                         *)
(* gortsplib is external: it calls the handlers of one session one after   *)
(* the other and ends every session when the server is closed; packets of  *)
(* a session come from goroutines of its connections and may still be on   *)
(* their way when it is closed.  Audio that comes over UDP or is cut out   *)
(* of a TCP connection has no session.                                     *)
(***************************************************************************)
EXTENDS Integers, FiniteSets

CONSTANTS Sessions,     \* clients' sessions
          MaxPlays      \* bound: PLAY requests, a paused client repeats its own

ASSUME ServerAssumption == IsFiniteSet(Sessions) /\ MaxPlays \in Nat

None == "none"          \* s.activeTalkSession is nil, and the session of a packet without one
ASSUME NoneAssumption == None \notin Sessions

Sources == Sessions \cup {None}

VARIABLES
    server,         \* "new", "started" (no stream yet), "up" or "closed"
    state,          \* a session: "off", "open", "adding", "closing", "leaving" or "over"
    records,        \* sessions whose packets OnRecord handles
    playing,        \* s.playingSessions
    count,          \* s.activeClients
    plays,
    talker, recent, \* s.activeTalkSession; s.lastTalkTime is not 2 s ago
    packet,         \* a packet of a source that waits for the lock
    heard           \* the source of the packet that was forwarded last

talkVars == <<talker, recent, packet, heard>>
playVars == <<playing, count, plays>>
serverVars == <<server, state, records, playVars, talkVars>>

ServerInit ==
    /\ server = "new" /\ state = [s \in Sessions |-> "off"] /\ records = {}
    /\ playing = {} /\ count = 0 /\ plays = 0
    /\ talker = None /\ recent = FALSE /\ packet = {} /\ heard = None

Enter(s, to) == state' = [state EXCEPT ![s] = to]

-----------------------------------------------------------------------------
\* The listener runs before the stream is there; a client that asks for it then gets none.
Start ==
    /\ \/ server = "new" /\ server' = "started"
       \/ server = "started" /\ server' = "up"
    /\ UNCHANGED <<state, records, playVars, talkVars>>

Close ==
    /\ server = "up" /\ server' = "closed"
    /\ UNCHANGED <<state, records, playVars, talkVars>>

\* OnDescribe and OnSetup of a client that knows the path and the password.
OnSetup(s) ==
    /\ server = "up" /\ state[s] = "off" /\ Enter(s, "open")
    /\ UNCHANGED <<server, records, playVars, talkVars>>

CountsAgain(s) == state' = [state EXCEPT ![s] = "adding"]   \* mutant: each PLAY counts

CountsOnce(s) == Enter(s, IF s \in playing THEN "open" ELSE "adding")

\* OnPlay notes the session first and counts it then.
OnPlay(s) ==
    /\ state[s] = "open" /\ plays < MaxPlays /\ plays' = plays + 1
    /\ CountsOnce(s)
    /\ playing' = playing \cup {s}
    /\ UNCHANGED <<server, records, count, talkVars>>

Counted(s) ==
    /\ state[s] = "adding" /\ Enter(s, "open")
    /\ count' = count + 1
    /\ UNCHANGED <<server, records, playing, plays, talkVars>>

OnRecord(s) ==
    /\ state[s] = "open" /\ s \notin records
    /\ records' = records \cup {s}
    /\ UNCHANGED <<server, state, playVars, talkVars>>

\* OnSessionClose, after a TEARDOWN, a lost connection or the server's Close, releases the
\* talk lock first.
OnSessionClose(s) ==
    /\ state[s] = "open" /\ Enter(s, "closing")
    /\ talker' = IF talker = s THEN None ELSE talker
    /\ UNCHANGED <<server, records, playVars, recent, packet, heard>>

Deleted(s) ==
    /\ state[s] = "closing"
    /\ Enter(s, IF s \in playing THEN "leaving" ELSE "over")
    /\ playing' = playing \ {s}
    /\ UNCHANGED <<server, records, count, plays, talkVars>>

Uncounted(s) ==
    /\ state[s] = "leaving" /\ Enter(s, "over")
    /\ count' = IF count - 1 < 0 THEN 0 ELSE count - 1
    /\ UNCHANGED <<server, records, playing, plays, talkVars>>

-----------------------------------------------------------------------------
\* A packet arrives; it may be handled after its session is closed.
Speaks(x) ==
    /\ server = "up" /\ x \notin packet
    /\ x = None \/ (x \in records /\ state[x] = "open")
    /\ packet' = packet \cup {x}
    /\ UNCHANGED <<server, state, records, playVars, talker, recent, heard>>

NotAfterSilence(x) == talker = None         \* mutant: a silent talker keeps the lock

MayTake(x) == talker = None \/ (talker # x /\ ~recent)

\* handleBackchannelPacket: the talker goes on, another takes over after 2 s of silence,
\* anything else is dropped.
handleBackchannelPacket(x) ==
    /\ x \in packet /\ packet' = packet \ {x}
    /\ IF MayTake(x) \/ talker = x
       THEN talker' = x /\ recent' = TRUE /\ heard' = x
       ELSE UNCHANGED <<talker, recent, heard>>
    /\ UNCHANGED <<server, state, records, playVars>>

TwoSeconds ==
    /\ recent /\ recent' = FALSE
    /\ talker \notin packet
    /\ UNCHANGED <<server, state, records, playVars, talker, packet, heard>>

-----------------------------------------------------------------------------
Handlers(s) == Counted(s) \/ Deleted(s) \/ Uncounted(s)

Rest == server = "closed" /\ (\A s \in Sessions : state[s] \in {"off", "over"}) /\ packet = {}
        /\ UNCHANGED serverVars

ServerNext ==
    \/ Start \/ Close \/ TwoSeconds \/ Rest
    \/ \E s \in Sessions : OnSetup(s) \/ OnPlay(s) \/ OnRecord(s) \/ OnSessionClose(s) \/ Handlers(s)
    \/ \E x \in Sources : Speaks(x) \/ handleBackchannelPacket(x)

Teardown(s) == server = "closed" /\ OnSessionClose(s)

\* Handlers come to an end, a closed server closes its sessions, packets are handled.
ServerSpec ==
    /\ ServerInit /\ [][ServerNext]_serverVars /\ WF_serverVars(TwoSeconds)
    /\ \A s \in Sessions : WF_serverVars(Handlers(s)) /\ WF_serverVars(Teardown(s))
    /\ \A x \in Sources : WF_serverVars(handleBackchannelPacket(x))

-----------------------------------------------------------------------------
\* The values the variables range over.
ServerTypeOK ==
    /\ server \in {"new", "started", "up", "closed"}
    /\ state \in [Sessions -> {"off", "open", "adding", "closing", "leaving", "over"}]
    /\ records \subseteq Sessions /\ playing \subseteq Sessions /\ count \in Nat
    /\ plays \in 0 .. MaxPlays
    /\ talker \in Sources /\ heard \in Sources /\ recent \in BOOLEAN /\ packet \subseteq Sources

InState(p) == {s \in Sessions : state[s] = p}

\* The count the syncer asks for is that of the sessions that play, but for those whose
\* handlers are between noting and counting; it is never corrected from below zero.
CountMatches ==
    /\ count = Cardinality(playing \ InState("adding")) + Cardinality(InState("leaving"))
    /\ playing \cap (InState("leaving") \cup InState("over")) = {}

Speaking(s) == s \in packet

\* The talk lock is never stuck: a session that goes on speaking is heard once all others
\* have stopped, also when the last talker's packet came after its session was closed.
TalkerHeard ==
    \A s \in Sessions :
        ([]<>Speaking(s) /\ \A x \in Sources \ {s} : <>[](x \notin packet)) => []<>(heard = s)
=============================================================================
