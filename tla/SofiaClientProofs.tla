------------------------- MODULE SofiaClientProofs --------------------------
(***************************************************************************)
(* Machine-checked safety of the Sofia control connection, for whatever    *)
(* the camera and the network do wrong.                                    *)
(***************************************************************************)
EXTENDS SofiaClient, TLAPS

(***************************************************************************)
(* The inductive invariant.                                                *)
(***************************************************************************)

\* Who waits for an answer is in a request; who does so without c.mu is known.
Asking ==
    \A a \in Actors : sent[a] # 0 => pc[a] \in Requests /\ (pc[a] \in Unlocked => shared)

\* What is to be read came over a connection that works.
WireWorks == conn # 0 /\ wire # <<>> => alive

\* There is no login while one is made.
LoggingIn == pc["sup"] \in {"dial", "store", "claim", "rsa", "legacy"} => ~isLoggedIn

\* A login is that of the connection in use, also inside an operation.
LoginHolds == isLoggedIn => conn # 0 /\ (~late /\ ~shared => accepted = conn)

IInv ==
    /\ TypeOK
    /\ Asking
    /\ WireWorks
    /\ LoggingIn
    /\ LoginHolds
    /\ OwnAnswer

(***************************************************************************)
(* What a step does to the connection and to those who use it.             *)
(***************************************************************************)

\* a goes on to another place, takes c.mu if it is free, or frees it.
Moves(a) ==
    /\ \E p \in Places : pc' = [pc EXCEPT ![a] = p]
    /\ lock' = lock \/ (lock = Nobody /\ lock' = a) \/ (lock = a /\ lock' = Nobody)

SameLine == UNCHANGED <<conn, dialled, alive, shared>>

\* a has no request of its own; what is unread it leaves, drops the first of or loses.
Works(a) ==
    /\ pc[a] \notin Requests /\ Moves(a)
    /\ UNCHANGED <<sent, late>>
    /\ \/ UNCHANGED <<wire, framed>> /\ (SameLine \/ Drop)
       \/ wire # <<>> /\ wire' = Tail(wire) /\ UNCHANGED framed /\ SameLine
       \/ wire' = <<>> /\ framed' \in BOOLEAN /\ SameLine

\* a's request is over, and the connection perhaps with it.
IsTold(a) ==
    /\ pc[a] \in Requests /\ Moves(a)
    /\ Answered(a) \/ Err(a)
    /\ UNCHANGED framed
    /\ SameLine \/ Drop

\* Nobody is concerned but the reader of the telemetry, or all are.
Weather ==
    \/ UNCHANGED <<pc, sent, lock, late, framed, wire>> /\ SameLine
    \/ Breaks \/ Torn \/ PushTelemetry

-----------------------------------------------------------------------------
\* Which places are requests, and which of those are made with c.mu held.
LEMMA PlacesKnown ==
    /\ Requests \subseteq Places /\ Unlocked \subseteq Requests
    /\ {"check", "dial", "store", "sync", "wait", "drain2", "drain1", "swap", "hangup", "idle",
        "stop", "ended"} \subseteq Places
    /\ {"check", "dial", "store", "sync", "wait", "drain2", "drain1", "swap", "hangup", "idle",
        "stop", "ended"} \cap Requests = {}
    /\ {"claim", "rsa", "legacy", "trans", "rtspget", "rtspset", "encget", "encset", "reopen",
        "mcu", "query", "keepalive", "logout"} \cap Unlocked = {}
    /\ {"claim", "rsa", "legacy", "trans", "rtspget", "rtspset", "encget", "encset", "reopen",
        "mcu", "query", "keepalive", "logout"} \subseteq Requests
BY DEF Places, Requests, Unlocked

\* The loop's own steps, and those of the commands.
LEMMA LoopKinds ==
    ASSUME TypeOK, Sup \/ Command \/ MCU("sup")
    PROVE  Store \/ \E a \in Actors : Works(a) \/ IsTold(a)
<1>0. "sup" \in Actors /\ "cmd" \in Actors BY DEF Actors
<1> USE PlacesKnown
<1>1. CASE Check
  BY <1>0, <1>1 DEF Check, Works, Moves, Go, SameLine, netVars, ioVars
<1>2. CASE Dial
  BY <1>0, <1>2 DEF Dial, Works, Moves, Go, Stays, SameLine, netVars, ioVars
<1>3. CASE Claimed
  BY <1>0, <1>3 DEF Claimed, IsTold, Moves, Ok, Go, Stays, SameLine, netVars
<1>4. CASE RSALogin
  BY <1>0, <1>4
  DEF RSALogin, Accept, NextCandidate, ToLegacy, IsTold, Moves, Ok, Go, Stays, Ends, SameLine,
      netVars
<1>5. CASE LegacyLogin
  BY <1>0, <1>5
  DEF LegacyLogin, Accept, NextCandidate, ConnectFails, Drop, IsTold, Moves, Ok, Go, Stays, Ends,
      SameLine, netVars
<1>6. CASE SerialStarted
  BY <1>0, <1>6 DEF SerialStarted, IsTold, Moves, Ok, Go, Ends, SameLine, netVars
<1>7. CASE EnableRTSP
  BY <1>0, <1>7 DEF EnableRTSP, IsTold, Moves, Ok, Go, Stays, Ends, SameLine, netVars
<1>8. CASE EnsureH264Encoding
  BY <1>0, <1>8 DEF EnsureH264Encoding, IsTold, Moves, Ok, Go, Stays, Ends, SameLine, netVars
<1>9. CASE Tick
  BY <1>0, <1>9 DEF Tick, Works, Moves, Go, SameLine, netVars, ioVars
<1>10. CASE Heartbeat
  BY <1>0, <1>10 DEF Heartbeat, IsTold, Moves, Ok, Go, Stays, Ends, SameLine, netVars
<1>11. ASSUME NEW a \in {"sup", "cmd"}, MCU(a) PROVE Works(a) \/ IsTold(a)
  <2>1. CASE BeginMCU(a)
    BY <1>11, <2>1 DEF BeginMCU, Works, Moves, Go, SameLine, netVars, ioVars
  <2>2. CASE Reopened(a)
    BY <1>11, <2>2 DEF Reopened, Home, IsTold, Moves, Ok, Go, Stays, Ends, SameLine, netVars
  <2>3. CASE MCUDone(a)
    BY <1>11, <2>3 DEF MCUDone, Home, IsTold, Moves, Ok, Go, Stays, Ends, SameLine, netVars
  <2>4. CASE DrainRead(a)
    BY <1>11, <2>4 DEF DrainRead, Home, Works, Moves, Go, Stays, Ends, SameLine, netVars
  <2>5. CASE DrainEnds(a)
    <3>1. /\ pc[a] \in {"drain2", "drain1"} /\ Ends(a, Home(a))
          /\ UNCHANGED <<sent, late>> /\ SameLine
          /\ UNCHANGED <<framed, wire>> \/ (framed' = FALSE /\ wire' = <<>>)
      BY <2>5 DEF DrainEnds, SameLine
    <3> QED BY <1>11, <3>1 DEF Home, Works, Moves, Go, Ends
  <2> QED BY <1>11, <2>1, <2>2, <2>3, <2>4, <2>5 DEF MCU
<1>12. CASE BeginQuery
  BY <1>0, <1>12 DEF BeginQuery, Works, Moves, Go, SameLine, netVars, ioVars
<1>13. CASE QueryDone
  BY <1>0, <1>13 DEF QueryDone, IsTold, Moves, Ok, Go, Ends, SameLine, netVars
<1> QED
  BY <1>0, <1>1, <1>2, <1>3, <1>4, <1>5, <1>6, <1>7, <1>8, <1>9, <1>10, <1>11, <1>12, <1>13
  DEF Sup, Command

\* Close, the shutdown, the talk client and the rest of the world.
LEMMA OtherKinds ==
    ASSUME TypeOK, Close("sup") \/ Closer \/ Talk \/ World
    PROVE  Weather \/ \E a \in Actors : Works(a) \/ IsTold(a)
<1>0. "sup" \in Actors /\ "talk" \in Actors /\ "closer" \in Actors BY DEF Actors
<1> USE PlacesKnown
<1>1. ASSUME NEW a \in {"sup", "closer"}, Close(a) PROVE Works(a) \/ IsTold(a)
  <2>0. Left(a) \in Places BY DEF Left
  <2>1. CASE Swap(a)
    <3>1. (IF closed THEN Left(a) ELSE "hangup") \in Places BY <2>0
    <3> QED BY <2>1, <3>1 DEF Swap, Works, Moves, Go, SameLine, netVars, ioVars
  <2>2. CASE HangUp(a)
    BY <2>0, <2>2 DEF HangUp, Works, Moves, Go, SameLine, Drop, netVars, ioVars
  <2>3. CASE LoggedOut(a)
    BY <2>0, <2>3 DEF LoggedOut, IsTold, Moves, Ok, Go, Ends, SameLine, Drop
  <2> QED BY <1>1, <2>1, <2>2, <2>3 DEF Close
<1>2. CASE StopTalk
  <2>1. (IF talkActive THEN "stoptalk" ELSE "swap") \in Places BY DEF Unlocked
  <2> QED BY <1>0, <1>2, <2>1 DEF StopTalk, Works, Moves, Go, SameLine, netVars, ioVars
<1>3. CASE TalkStopped
  BY <1>0, <1>3 DEF TalkStopped, IsTold, Moves, Ok, Go, Stays, SameLine, netVars, Unlocked
<1>4. CASE AudioPacket
  BY <1>0, <1>4 DEF AudioPacket, Works, Moves, Go, SameLine, netVars, ioVars, Unlocked
<1>5. CASE StartTalk
  BY <1>0, <1>5 DEF StartTalk, IsTold, Moves, Ok, Go, Stays, SameLine, netVars, Unlocked
<1>6. CASE ReadsNil("talk") \/ ReadsNil("closer")
  BY <1>6 DEF ReadsNil, Weather, SameLine, netVars, ioVars
<1>7. CASE Cancel
  BY <1>0, <1>7 DEF Cancel, Works, Moves, Go, SameLine, netVars, ioVars
<1>8. CASE Breaks \/ Torn \/ PushTelemetry BY <1>8 DEF Weather
<1> QED
  BY <1>0, <1>1, <1>2, <1>3, <1>4, <1>5, <1>6, <1>7, <1>8 DEF Closer, Talk, World

\* Every step is of one of these kinds.
LEMMA Kinds ==
    ASSUME TypeOK, Next
    PROVE  \/ Store \/ Weather
           \/ \E a \in Actors : Works(a) \/ IsTold(a) \/ Send(a) \/ ReadPush(a)
BY LoopKinds, OtherKinds DEF Next, Loop, IO

-----------------------------------------------------------------------------
(* The connection and its users. *)

\* The part of the types that says who uses the connection.
LineOK ==
    /\ pc \in [Actors -> Places]
    /\ dialled \in Nat /\ conn \in 0 .. dialled /\ sent \in [Actors -> 0 .. dialled]
    /\ lock \in Actors \cup {Nobody}
    /\ {alive, framed, late, shared} \subseteq BOOLEAN
    /\ wire \in Seq(Answers \cup {Push})
    /\ alive => conn # 0
    /\ \A a \in Actors : sent[a] # 0 /\ pc[a] \notin Unlocked => lock = a

\* What is left of a queue when its first element is taken.
LEMMA TailSteps ==
    ASSUME NEW S, NEW s \in Seq(S), s # <<>>
    PROVE  /\ Head(s) \in S /\ Head(s) = s[1] /\ Len(s) >= 1 /\ 1 \in 1 .. Len(s)
           /\ Tail(s) \in Seq(S) /\ Len(Tail(s)) = Len(s) - 1
           /\ \A i \in 1 .. Len(Tail(s)) : i + 1 \in 1 .. Len(s) /\ Tail(s)[i] = s[i + 1]
OBVIOUS

\* A queue with one element more.
LEMMA AppendSteps ==
    ASSUME NEW S, NEW s \in Seq(S), NEW x \in S
    PROVE  /\ Append(s, x) \in Seq(S) /\ Len(Append(s, x)) = Len(s) + 1 /\ Len(s) \in Nat
           /\ \A i \in 1 .. Len(s) + 1 : \/ i \in 1 .. Len(s) /\ Append(s, x)[i] = s[i]
                                         \/ i = Len(s) + 1 /\ Append(s, x)[i] = x
OBVIOUS

\* Nobody is no actor.
LEMMA NobodyActs == Nobody \notin Actors
BY DEF Actors, Nobody

\* An answer that is unread in step is that to the request of the holder of c.mu.
LEMMA UnreadAnswer ==
    ASSUME IInv, alive, framed, ~late, ~shared, NEW i \in 1 .. Len(wire), ~IsPush(wire[i])
    PROVE  /\ lock \in Actors /\ sent[lock] = conn /\ sent[lock] # 0 /\ pc[lock] \in Requests
           /\ wire[i] = [to |-> lock, kind |-> pc[lock]]
           /\ \A j \in 1 .. Len(wire) : ~IsPush(wire[j]) => j = i
<1>1. /\ lock # Nobody /\ sent[lock] = conn /\ wire[i] = [to |-> lock, kind |-> pc[lock]]
      /\ \A j \in 1 .. Len(wire) : ~IsPush(wire[j]) => j = i
  BY DEF IInv, OwnAnswer
<1>2. lock \in Actors /\ conn # 0 BY <1>1 DEF IInv, TypeOK
<1>3. pc[lock] \in Requests BY <1>1, <1>2 DEF IInv, Asking
<1> QED BY <1>1, <1>2, <1>3

\* Who has no request leaves requests and answers in step.
LEMMA WorksKeepsLine ==
    ASSUME IInv, NEW a \in Actors, Works(a)
    PROVE  LineOK' /\ Asking' /\ WireWorks' /\ OwnAnswer'
<1>1. PICK p \in Places : pc' = [pc EXCEPT ![a] = p] BY DEF Works, Moves
<1>2. /\ pc \in [Actors -> Places] /\ sent \in [Actors -> 0 .. dialled] /\ dialled \in Nat
      /\ conn \in 0 .. dialled /\ wire \in Seq(Answers \cup {Push})
      /\ {alive, framed, late, shared} \subseteq BOOLEAN
      /\ lock \in Actors \cup {Nobody}
      /\ alive => conn # 0
      /\ \A b \in Actors : sent[b] # 0 /\ pc[b] \notin Unlocked => lock = b
  BY DEF IInv, TypeOK
<1>3. sent[a] = 0 BY DEF Works, IInv, Asking
<1>4. /\ sent' = sent /\ late' = late /\ shared' = shared /\ dialled' = dialled
      /\ \/ conn' = conn /\ alive' = alive
         \/ conn' = 0 /\ alive' = FALSE /\ wire' = wire
      /\ \/ wire' = wire /\ framed' = framed
         \/ wire # <<>> /\ wire' = Tail(wire) /\ framed' = framed
         \/ wire' = <<>> /\ framed' \in BOOLEAN
  BY DEF Works, SameLine, Drop
<1>5. \A b \in Actors : b # a => pc'[b] = pc[b] BY <1>1, <1>2
<1>6. lock' = lock \/ (lock = Nobody /\ lock' = a) \/ (lock = a /\ lock' = Nobody)
  BY DEF Works, Moves
<1>7. wire' \in Seq(Answers \cup {Push})
  <2>1. wire # <<>> => Tail(wire) \in Seq(Answers \cup {Push}) BY <1>2, TailSteps
  <2>2. <<>> \in Seq(Answers \cup {Push}) OBVIOUS
  <2> QED BY <1>2, <1>4, <2>1, <2>2
<1>8. LineOK'
  <2>1. \A b \in Actors : sent[b] # 0 /\ pc'[b] \notin Unlocked => lock' = b
    BY <1>2, <1>3, <1>5, <1>6, NobodyActs
  <2>2. pc' \in [Actors -> Places] BY <1>1, <1>2
  <2>3. conn' \in 0 .. dialled /\ (alive' => conn' # 0)
    <3>1. 0 \in 0 .. dialled BY <1>2
    <3> QED BY <1>2, <1>4, <3>1
  <2>5. framed' \in BOOLEAN /\ alive' \in BOOLEAN BY <1>2, <1>4
  <2>4. lock' \in Actors \cup {Nobody} BY <1>2, <1>6
  <2> QED BY <1>2, <1>4, <1>7, <2>1, <2>2, <2>3, <2>4, <2>5 DEF LineOK
<1>9. Asking' BY <1>3, <1>4, <1>5 DEF IInv, Asking
<1>10. WireWorks'
  <2>1. wire' # <<>> => wire # <<>> BY <1>4
  <2> QED BY <1>4, <2>1 DEF IInv, WireWorks
<1>11. OwnAnswer'
  <2> SUFFICES ASSUME alive', framed', ~late', ~shared',
                      NEW i \in 1 .. Len(wire'), ~IsPush(wire'[i])
               PROVE  /\ lock' # Nobody /\ sent'[lock'] = conn'
                      /\ wire'[i] = [to |-> lock', kind |-> pc'[lock']]
                      /\ \A j \in 1 .. Len(wire') : ~IsPush(wire'[j]) => j = i
    BY DEF OwnAnswer, IsPush
  <2>0. wire' # <<>> OBVIOUS
  <2>1. alive /\ ~late /\ ~shared /\ wire' # <<>> /\ framed' = framed /\ conn' = conn
    BY <1>4, <2>0
  <2>2. CASE wire' = wire
    <3>1. /\ lock \in Actors /\ sent[lock] = conn /\ sent[lock] # 0
          /\ wire[i] = [to |-> lock, kind |-> pc[lock]]
          /\ \A j \in 1 .. Len(wire) : ~IsPush(wire[j]) => j = i
      BY <2>1, <2>2, UnreadAnswer
    <3>2. lock # a /\ lock' = lock /\ pc'[lock] = pc[lock]
      BY <1>3, <1>5, <1>6, <3>1, NobodyActs
    <3> QED BY <1>4, <2>1, <2>2, <3>1, <3>2, NobodyActs
  <2>3. CASE wire # <<>> /\ wire' = Tail(wire)
    <3>0. /\ Len(wire') = Len(wire) - 1 /\ i + 1 \in 1 .. Len(wire) /\ wire'[i] = wire[i + 1]
          /\ \A j \in 1 .. Len(wire') : j + 1 \in 1 .. Len(wire) /\ wire'[j] = wire[j + 1]
      BY <1>2, <2>3, TailSteps
    <3>1. /\ lock \in Actors /\ sent[lock] = conn /\ sent[lock] # 0
          /\ wire[i + 1] = [to |-> lock, kind |-> pc[lock]]
          /\ \A j \in 1 .. Len(wire) : ~IsPush(wire[j]) => j = i + 1
      BY <2>1, <3>0, UnreadAnswer
    <3>2. lock # a /\ lock' = lock /\ pc'[lock] = pc[lock]
      BY <1>3, <1>5, <1>6, <3>1, NobodyActs
    <3>3. \A j \in 1 .. Len(wire') : ~IsPush(wire'[j]) => j = i
      BY <3>0, <3>1
    <3> QED BY <1>4, <2>1, <3>0, <3>1, <3>2, <3>3, NobodyActs
  <2> QED BY <1>4, <2>1, <2>2, <2>3
<1> QED BY <1>8, <1>9, <1>10, <1>11

\* Whoever takes an answer in step takes its own, and with it the only one.
LEMMA ToldKeepsLine ==
    ASSUME IInv, NEW a \in Actors, IsTold(a)
    PROVE  LineOK' /\ Asking' /\ WireWorks' /\ OwnAnswer'
<1>1. PICK p \in Places : pc' = [pc EXCEPT ![a] = p] BY DEF IsTold, Moves
<1>2. /\ pc \in [Actors -> Places] /\ sent \in [Actors -> 0 .. dialled] /\ dialled \in Nat
      /\ conn \in 0 .. dialled /\ wire \in Seq(Answers \cup {Push})
      /\ {alive, framed, late, shared} \subseteq BOOLEAN
      /\ lock \in Actors \cup {Nobody}
      /\ alive => conn # 0
      /\ \A b \in Actors : sent[b] # 0 /\ pc[b] \notin Unlocked => lock = b
  BY DEF IInv, TypeOK
<1>3. /\ sent' = [sent EXCEPT ![a] = 0] /\ framed' = framed
      /\ shared' = shared /\ dialled' = dialled /\ (late' = late \/ late' = TRUE)
      /\ (conn' = conn /\ alive' = alive) \/ (conn' = 0 /\ alive' = FALSE)
      /\ wire' = wire \/ (wire # <<>> /\ wire' = Tail(wire))
  BY DEF IsTold, SameLine, Drop, Answered, Err
<1>4. sent'[a] = 0 /\ \A b \in Actors : b # a => pc'[b] = pc[b] /\ sent'[b] = sent[b]
  BY <1>1, <1>2, <1>3
<1>5. lock' = lock \/ (lock = Nobody /\ lock' = a) \/ (lock = a /\ lock' = Nobody)
  BY DEF IsTold, Moves
<1>6. wire' \in Seq(Answers \cup {Push}) BY <1>2, <1>3, TailSteps
<1>7. LineOK'
  <2>1. \A b \in Actors : sent'[b] # 0 /\ pc'[b] \notin Unlocked => lock' = b
    BY <1>2, <1>4, <1>5, NobodyActs
  <2>2. pc' \in [Actors -> Places] /\ sent' \in [Actors -> 0 .. dialled] BY <1>1, <1>2, <1>3
  <2>3. conn' \in 0 .. dialled /\ (alive' => conn' # 0)
    <3>1. 0 \in 0 .. dialled BY <1>2
    <3> QED BY <1>2, <1>3, <3>1
  <2>5. alive' \in BOOLEAN /\ late' \in BOOLEAN BY <1>2, <1>3
  <2>4. lock' \in Actors \cup {Nobody} BY <1>2, <1>5
  <2> QED BY <1>2, <1>3, <1>6, <2>1, <2>2, <2>3, <2>4, <2>5 DEF LineOK
<1>8. Asking' BY <1>3, <1>4 DEF IInv, Asking
<1>9. WireWorks'
  <2>1. wire' # <<>> => wire # <<>> BY <1>3
  <2> QED BY <1>3, <2>1 DEF IInv, WireWorks
<1>10. OwnAnswer'
  <2> SUFFICES ASSUME alive', framed', ~late', ~shared',
                      NEW i \in 1 .. Len(wire'), ~IsPush(wire'[i])
               PROVE  FALSE
    BY DEF OwnAnswer, IsPush
  <2>1. alive /\ framed /\ ~late /\ ~shared /\ conn' = conn
    <3>1. alive /\ conn' = conn BY <1>3, Zenon
    <3>2. framed /\ ~shared BY <1>3, Zenon
    <3>3. ~late BY <1>3, Zenon
    <3> QED BY <3>1, <3>2, <3>3
  <2>2. CASE Answered(a)
    <3>1. /\ sent[a] # 0 /\ wire # <<>> /\ wire' = Tail(wire) /\ ~IsPush(Head(wire))
      BY <2>2 DEF Answered, Skipped
    <3>2. /\ Head(wire) = wire[1] /\ 1 \in 1 .. Len(wire)
          /\ i + 1 \in 1 .. Len(wire) /\ wire'[i] = wire[i + 1]
      BY <1>2, <3>1, TailSteps
    <3>3. i + 1 = 1 BY <2>1, <3>1, <3>2, UnreadAnswer
    <3> QED BY <3>3
  <2>3. CASE Err(a)
    <3>1. wire' = wire /\ sent[a] # 0 BY <2>1, <2>3 DEF Err
    <3>2. lock \in Actors /\ sent[lock] = conn /\ wire[i].to = lock BY <2>1, <3>1, UnreadAnswer
    <3>3. pc[a] \notin Unlocked BY <2>1, <3>1 DEF IInv, Asking
    <3>4. lock = a BY <1>2, <3>1, <3>3
    <3>5. sent[a] # conn \/ ~alive \/ ~framed \/ Unanswered(a)
      BY <2>3, <3>1 DEF Err
    <3> QED BY <2>1, <3>1, <3>2, <3>4, <3>5 DEF Unanswered
  <2> QED BY <2>2, <2>3 DEF IsTold
<1> QED BY <1>7, <1>8, <1>9, <1>10

\* A request is written in step only where no answer is left.
LEMMA SendKeepsLine ==
    ASSUME IInv, NEW a \in Actors, Send(a)
    PROVE  LineOK' /\ Asking' /\ WireWorks' /\ OwnAnswer'
<1>1. /\ pc \in [Actors -> Places] /\ sent \in [Actors -> 0 .. dialled] /\ dialled \in Nat
      /\ conn \in 0 .. dialled /\ wire \in Seq(Answers \cup {Push})
      /\ {alive, framed, late, shared} \subseteq BOOLEAN
      /\ lock \in Actors \cup {Nobody}
      /\ alive => conn # 0
      /\ \A b \in Actors : sent[b] # 0 /\ pc[b] \notin Unlocked => lock = b
  BY DEF IInv, TypeOK
<1>2. /\ pc[a] \in Requests /\ sent[a] = 0 /\ alive /\ sent' = [sent EXCEPT ![a] = conn]
      /\ wire' = wire \/ (framed /\ wire' = Append(wire, [to |-> a, kind |-> pc[a]]))
      /\ UNCHANGED <<pc, conn, dialled, alive, framed, late>>
  BY DEF Send
<1>3. \/ pc[a] \in Unlocked /\ lock' = lock
      \/ pc[a] \notin Unlocked /\ lock \in {Nobody, a} /\ lock' = a
  BY DEF Send
<1>4. /\ shared' = (shared \/ pc[a] \in Unlocked)
  BY DEF Send
<1>5. sent'[a] = conn /\ \A b \in Actors : b # a => sent'[b] = sent[b]
  BY <1>1, <1>2
<1>6. [to |-> a, kind |-> pc[a]] \in Answers \cup {Push} /\ ~IsPush([to |-> a, kind |-> pc[a]])
  BY <1>2, NobodyActs DEF Answers, IsPush, Push
<1>7. wire' \in Seq(Answers \cup {Push})
  <2>1. Append(wire, [to |-> a, kind |-> pc[a]]) \in Seq(Answers \cup {Push})
    BY <1>1, <1>6, AppendSteps
  <2> QED BY <1>1, <1>2, <2>1
<1>8. LineOK'
  <2>1. \A b \in Actors : sent'[b] # 0 /\ pc'[b] \notin Unlocked => lock' = b
    BY <1>1, <1>2, <1>3, <1>5, NobodyActs
  <2>2. sent' \in [Actors -> 0 .. dialled] BY <1>1, <1>2
  <2>3. lock' \in Actors \cup {Nobody} BY <1>1, <1>3
  <2>4. shared' \in BOOLEAN BY <1>4
  <2> QED BY <1>1, <1>2, <1>7, <2>1, <2>2, <2>3, <2>4 DEF LineOK
<1>9. Asking'
  <2> SUFFICES ASSUME NEW b \in Actors, sent'[b] # 0
               PROVE  pc'[b] \in Requests /\ (pc'[b] \in Unlocked => shared')
    BY DEF Asking
  <2>1. CASE b = a BY <1>2, <1>4, <2>1
  <2>2. CASE b # a BY <1>2, <1>4, <1>5, <2>2 DEF IInv, Asking
  <2> QED BY <2>1, <2>2
<1>10. WireWorks' BY <1>2 DEF WireWorks
<1>11. OwnAnswer'
  <2> SUFFICES ASSUME alive', framed', ~late', ~shared',
                      NEW i \in 1 .. Len(wire'), ~IsPush(wire'[i])
               PROVE  /\ lock' # Nobody /\ sent'[lock'] = conn'
                      /\ wire'[i] = [to |-> lock', kind |-> pc'[lock']]
                      /\ \A j \in 1 .. Len(wire') : ~IsPush(wire'[j]) => j = i
    BY DEF OwnAnswer, IsPush
  <2>1. /\ alive /\ framed /\ ~late /\ ~shared /\ pc[a] \notin Unlocked
        /\ lock \in {Nobody, a} /\ lock' = a
    <3>1. framed /\ ~late BY <1>2, Zenon
    <3>2. ~shared /\ pc[a] \notin Unlocked BY <1>4, Zenon
    <3> QED BY <1>2, <1>3, <3>1, <3>2
  <2>2. ASSUME NEW j \in 1 .. Len(wire) PROVE IsPush(wire[j])
    <3> SUFFICES ASSUME ~IsPush(wire[j]) PROVE FALSE OBVIOUS
    <3>1. lock \in Actors /\ sent[lock] # 0 BY <2>1, UnreadAnswer
    <3> QED BY <1>2, <2>1, <3>1, NobodyActs
  <2>3. wire' = Append(wire, [to |-> a, kind |-> pc[a]])
    <3> SUFFICES ASSUME wire' = wire PROVE FALSE BY <1>2
    <3> QED BY <2>2
  <2>4. \A j \in 1 .. Len(wire) + 1 : \/ j \in 1 .. Len(wire) /\ wire'[j] = wire[j]
                                      \/ j = Len(wire) + 1 /\ wire'[j] = [to |-> a, kind |-> pc[a]]
    BY <1>1, <1>6, <2>3, AppendSteps
  <2>5. Len(wire') = Len(wire) + 1 BY <1>1, <1>6, <2>3, AppendSteps
  <2>6. \A j \in 1 .. Len(wire') : ~IsPush(wire'[j]) =>
            j = Len(wire) + 1 /\ wire'[j] = [to |-> a, kind |-> pc[a]]
    BY <2>2, <2>4, <2>5
  <2> QED BY <1>2, <1>5, <2>1, <2>6, NobodyActs
<1> QED BY <1>8, <1>9, <1>10, <1>11

\* Reading a push moves the answers one place forward.
LEMMA ReadPushKeepsLine ==
    ASSUME IInv, NEW a \in Actors, ReadPush(a)
    PROVE  LineOK' /\ Asking' /\ WireWorks' /\ OwnAnswer'
<1>1. /\ pc \in [Actors -> Places] /\ sent \in [Actors -> 0 .. dialled] /\ dialled \in Nat
      /\ conn \in 0 .. dialled /\ wire \in Seq(Answers \cup {Push})
      /\ {alive, framed, late, shared} \subseteq BOOLEAN
      /\ lock \in Actors \cup {Nobody}
      /\ alive => conn # 0
      /\ \A b \in Actors : sent[b] # 0 /\ pc[b] \notin Unlocked => lock = b
  BY DEF IInv, TypeOK
<1>2. /\ wire # <<>> /\ wire' = Tail(wire)
      /\ UNCHANGED <<pc, lock, sent, late, conn, dialled, alive, framed, shared>>
  BY DEF ReadPush, netVars
<1>3. /\ Tail(wire) \in Seq(Answers \cup {Push})
      /\ \A j \in 1 .. Len(wire') : j + 1 \in 1 .. Len(wire) /\ wire'[j] = wire[j + 1]
  BY <1>1, <1>2, TailSteps
<1>4. LineOK' BY <1>1, <1>2, <1>3 DEF LineOK
<1>5. Asking' BY <1>2 DEF IInv, Asking
<1>6. WireWorks' BY <1>2 DEF IInv, WireWorks
<1>7. OwnAnswer'
  <2> SUFFICES ASSUME alive', framed', ~late', ~shared',
                      NEW i \in 1 .. Len(wire'), ~IsPush(wire'[i])
               PROVE  /\ lock' # Nobody /\ sent'[lock'] = conn'
                      /\ wire'[i] = [to |-> lock', kind |-> pc'[lock']]
                      /\ \A j \in 1 .. Len(wire') : ~IsPush(wire'[j]) => j = i
    BY DEF OwnAnswer, IsPush
  <2>1. alive /\ framed /\ ~late /\ ~shared BY <1>2, Zenon
  <2>2. /\ lock \in Actors /\ sent[lock] = conn
        /\ wire[i + 1] = [to |-> lock, kind |-> pc[lock]]
        /\ \A j \in 1 .. Len(wire) : ~IsPush(wire[j]) => j = i + 1
    BY <1>3, <2>1, UnreadAnswer
  <2>3. \A j \in 1 .. Len(wire') : ~IsPush(wire'[j]) => j = i BY <1>3, <2>2
  <2> QED BY <1>2, <1>3, <2>2, <2>3, NobodyActs
<1> QED BY <1>4, <1>5, <1>6, <1>7

\* A new connection has nothing to read; who waits for an answer of an earlier one does so
\* without c.mu.
LEMMA StoreKeepsLine ==
    ASSUME IInv, Store
    PROVE  LineOK' /\ Asking' /\ WireWorks' /\ OwnAnswer'
<1>1. /\ pc \in [Actors -> Places] /\ sent \in [Actors -> 0 .. dialled] /\ dialled \in Nat
      /\ lock \in Actors \cup {Nobody}
      /\ \A b \in Actors : sent[b] # 0 /\ pc[b] \notin Unlocked => lock = b
  BY DEF IInv, TypeOK
<1>2. /\ pc["sup"] = "store" /\ dialled' = dialled + 1 /\ conn' = dialled'
      /\ alive' = TRUE /\ framed' = TRUE /\ wire' = <<>> /\ late' = FALSE
      /\ shared' = \E a \in Actors : pc[a] \in Unlocked /\ sent[a] # 0
      /\ pc' = [pc EXCEPT !["sup"] = "claim"]
      /\ UNCHANGED <<lock, sent>>
  BY DEF Store, Go
<1>3. "sup" \in Actors /\ sent["sup"] = 0
  BY <1>2, PlacesKnown DEF Actors, IInv, Asking
<1>4. \A b \in Actors : b # "sup" => pc'[b] = pc[b] BY <1>1, <1>2
<1>5. LineOK'
  <2>1. pc' \in [Actors -> Places] BY <1>1, <1>2, PlacesKnown
  <2>2. dialled' \in Nat /\ conn' \in 0 .. dialled' /\ conn' # 0 BY <1>1, <1>2
  <2>3. sent' \in [Actors -> 0 .. dialled'] BY <1>1, <1>2
  <2>4. \A b \in Actors : sent'[b] # 0 /\ pc'[b] \notin Unlocked => lock' = b
    BY <1>1, <1>2, <1>3, <1>4
  <2>5. shared' \in BOOLEAN /\ wire' \in Seq(Answers \cup {Push}) BY <1>2
  <2> QED BY <1>1, <1>2, <2>1, <2>2, <2>3, <2>4, <2>5 DEF LineOK
<1>6. Asking' BY <1>2, <1>3, <1>4 DEF IInv, Asking
<1>7. WireWorks' /\ OwnAnswer' BY <1>2 DEF WireWorks, OwnAnswer
<1> QED BY <1>5, <1>6, <1>7

\* What the camera and the network do keeps requests and answers in step, or says that it
\* does not.
LEMMA WeatherKeepsLine ==
    ASSUME IInv, Weather
    PROVE  LineOK' /\ Asking' /\ WireWorks' /\ OwnAnswer'
<1>1. /\ pc \in [Actors -> Places] /\ sent \in [Actors -> 0 .. dialled] /\ dialled \in Nat
      /\ conn \in 0 .. dialled /\ wire \in Seq(Answers \cup {Push})
      /\ {alive, framed, late, shared} \subseteq BOOLEAN
      /\ lock \in Actors \cup {Nobody}
      /\ alive => conn # 0
      /\ \A b \in Actors : sent[b] # 0 /\ pc[b] \notin Unlocked => lock = b
  BY DEF IInv, TypeOK
<1>2. CASE UNCHANGED <<pc, sent, lock, late, framed, wire>> /\ SameLine
  BY <1>1, <1>2 DEF IInv, SameLine, LineOK, Asking, WireWorks, OwnAnswer
<1>3. CASE Breaks \/ Torn
  <2>1. /\ UNCHANGED <<pc, sent, lock, late, conn, dialled, shared>> /\ wire' = <<>>
        /\ (alive' = alive /\ framed' = FALSE) \/ (alive' = FALSE /\ framed' = framed)
    BY <1>3 DEF Breaks, Torn
  <2>2. LineOK'
    <3>1. alive' \in BOOLEAN /\ framed' \in BOOLEAN BY <1>1, <2>1
    <3>3. alive' => conn' # 0 BY <1>1, <2>1, Zenon
    <3>2. <<>> \in Seq(Answers \cup {Push}) OBVIOUS
    <3> QED BY <1>1, <2>1, <3>1, <3>2, <3>3 DEF LineOK
  <2>3. Asking' BY <2>1 DEF IInv, Asking
  <2>4. WireWorks' /\ OwnAnswer' BY <2>1 DEF WireWorks, OwnAnswer
  <2> QED BY <2>2, <2>3, <2>4
<1>4. CASE PushTelemetry
  <2>1. /\ UNCHANGED <<pc, sent, lock, late, conn, dialled, shared, alive, framed>> /\ alive
        /\ wire' = Append(wire, Push)
    BY <1>4 DEF PushTelemetry, netVars
  <2>2. /\ wire' \in Seq(Answers \cup {Push}) /\ Len(wire') = Len(wire) + 1 /\ Len(wire) \in Nat
        /\ \A i \in 1 .. Len(wire) + 1 : \/ i \in 1 .. Len(wire) /\ wire'[i] = wire[i]
                                         \/ i = Len(wire) + 1 /\ wire'[i] = Push
    BY <1>1, <2>1, AppendSteps
  <2>3. LineOK' BY <1>1, <2>1, <2>2 DEF LineOK
  <2>4. Asking' BY <2>1 DEF IInv, Asking
  <2>5. WireWorks' BY <2>1 DEF WireWorks
  <2>6. OwnAnswer'
    <3> SUFFICES ASSUME alive', framed', ~late', ~shared', NEW i \in 1 .. Len(wire'),
                        ~IsPush(wire'[i])
                 PROVE  /\ lock' # Nobody /\ sent'[lock'] = conn'
                        /\ wire'[i] = [to |-> lock', kind |-> pc'[lock']]
                        /\ \A j \in 1 .. Len(wire') : ~IsPush(wire'[j]) => j = i
      BY DEF OwnAnswer, IsPush
    <3>1. alive /\ framed /\ ~late /\ ~shared BY <2>1, Zenon
    <3>2. i \in 1 .. Len(wire) /\ wire'[i] = wire[i] BY <2>2 DEF IsPush
    <3>3. /\ lock \in Actors /\ sent[lock] = conn
          /\ wire[i] = [to |-> lock, kind |-> pc[lock]]
          /\ \A j \in 1 .. Len(wire) : ~IsPush(wire[j]) => j = i
      BY <3>1, <3>2, UnreadAnswer
    <3>4. \A j \in 1 .. Len(wire') : ~IsPush(wire'[j]) => j = i BY <2>2, <3>3 DEF IsPush
    <3> QED BY <2>1, <3>2, <3>3, <3>4, NobodyActs
  <2> QED BY <2>3, <2>4, <2>5, <2>6
<1> QED BY <1>2, <1>3, <1>4 DEF Weather

\* So every step does.
LEMMA LineKept ==
    ASSUME IInv, Next PROVE LineOK' /\ Asking' /\ WireWorks' /\ OwnAnswer'
BY Kinds, WorksKeepsLine, ToldKeepsLine, SendKeepsLine, ReadPushKeepsLine, StoreKeepsLine,
   WeatherKeepsLine
DEF IInv

-----------------------------------------------------------------------------
(* The login. *)

LoginPlaces == {"dial", "store", "claim", "rsa", "legacy"}

\* The camera accepts a login: whatever the answer was, the bridge now believes in one.
Accepts ==
    /\ pc["sup"] \in {"rsa", "legacy"} /\ pc'["sup"] \notin LoginPlaces
    /\ Answered("sup") /\ isLoggedIn' = TRUE
    /\ accepted' = IF Head(wire) = [to |-> "sup", kind |-> pc["sup"]] THEN conn ELSE accepted
    /\ UNCHANGED <<conn, dialled, shared>>

\* There is no login afterwards; there is as much of one as before.
NoLogin   == isLoggedIn' = FALSE /\ UNCHANGED <<accepted, dialled>>
SameLogin ==
    /\ UNCHANGED <<isLoggedIn, accepted, dialled>>
    /\ conn' = conn \/ ~isLoggedIn
    /\ pc'["sup"] \in LoginPlaces => ~isLoggedIn
    /\ (late => late') /\ (shared => shared')

\* Only the loop goes to where a login is made.
LEMMA Elsewhere ==
    ASSUME TypeOK, NEW a \in Actors, a # "sup", NEW p, pc' = [pc EXCEPT ![a] = p]
    PROVE  pc'["sup"] = pc["sup"]
BY DEF TypeOK, Actors

\* A step of the loop that goes to a place where no login is made.
LEMMA LoopGoes ==
    ASSUME TypeOK, NEW p, pc' = [pc EXCEPT !["sup"] = p] PROVE pc'["sup"] = p
BY DEF TypeOK, Actors

\* The loop's own steps.
LEMMA SupLogin ==
    ASSUME IInv, Sup PROVE Accepts \/ NoLogin \/ SameLogin \/ Store
<1> USE DEF SameLogin, LoginPlaces, Go, Stays, Ends, netVars, ioVars, sessVars
<1>0. TypeOK /\ LoggingIn /\ \A p : pc' = [pc EXCEPT !["sup"] = p] => pc'["sup"] = p
  BY LoopGoes DEF IInv
<1>1. CASE Check BY <1>0, <1>1 DEF Check
<1>2. CASE Dial BY <1>0, <1>2 DEF Dial, LoggingIn
<1>3. CASE Claimed BY <1>0, <1>3 DEF Claimed, Ok, Answered, Err, LoggingIn
<1>4. CASE RSALogin
  <2>1. CASE Accept
    BY <1>0, <1>4, <2>1 DEF RSALogin, Accept, Accepts, Ok
  <2>2. CASE ~Accept
    BY <1>0, <1>4, <2>2 DEF RSALogin, NextCandidate, ToLegacy, Ok, Answered, Err, LoggingIn
  <2> QED BY <2>1, <2>2
<1>5. CASE LegacyLogin
  <2>1. CASE Accept /\ UNCHANGED netVars
    BY <1>0, <1>5, <2>1 DEF LegacyLogin, Accept, Accepts, Ok
  <2>2. CASE ~(Accept /\ UNCHANGED netVars)
    <3>1. ~isLoggedIn BY <1>0, <1>5 DEF LegacyLogin, LoggingIn
    <3>2. UNCHANGED <<isLoggedIn, accepted, dialled, shared>> /\ (late => late')
      BY <1>5, <2>2 DEF LegacyLogin, ConnectFails, Drop, Ok, Answered, Err
    <3> QED BY <3>1, <3>2
  <2> QED BY <2>1, <2>2
<1>6. CASE SerialStarted BY <1>0, <1>6 DEF SerialStarted, Ok, Answered, Err
<1>7. CASE EnableRTSP BY <1>0, <1>7 DEF EnableRTSP, Ok, Answered, Err
<1>8. CASE EnsureH264Encoding BY <1>0, <1>8 DEF EnsureH264Encoding, Ok, Answered, Err
<1>9. CASE Tick BY <1>0, <1>9 DEF Tick
<1>10. CASE Heartbeat BY <1>0, <1>10 DEF Heartbeat, Ok, Answered, Err
<1> QED BY <1>1, <1>2, <1>3, <1>4, <1>5, <1>6, <1>7, <1>8, <1>9, <1>10 DEF Sup

\* The commands and the serial bridge.
LEMMA CommandLogin ==
    ASSUME IInv, MCU("sup") \/ Command PROVE SameLogin
<1> USE DEF SameLogin, LoginPlaces, Go, Stays, Ends, netVars, ioVars, sessVars
<1>0. TypeOK /\ LoggingIn BY DEF IInv
<1>1. ASSUME NEW a \in {"sup", "cmd"}, MCU(a) PROVE SameLogin
  <2>0. a \in Actors /\ \A p : pc' = [pc EXCEPT ![a] = p] =>
                            pc'["sup"] = IF a = "sup" THEN p ELSE pc["sup"]
    BY <1>0, <1>1, LoopGoes, Elsewhere DEF Actors
  <2>1. CASE BeginMCU(a) BY <1>0, <2>0, <2>1 DEF BeginMCU, LoggingIn
  <2>2. CASE Reopened(a)
    BY <1>0, <2>0, <2>2 DEF Reopened, Home, Ok, Answered, Err, LoggingIn
  <2>3. CASE MCUDone(a)
    BY <1>0, <2>0, <2>3 DEF MCUDone, Home, Ok, Answered, Err, LoggingIn
  <2>4. CASE DrainRead(a) BY <1>0, <2>0, <2>4 DEF DrainRead, Home, LoggingIn
  <2>5. CASE DrainEnds(a) BY <1>0, <2>0, <2>5 DEF DrainEnds, Home, LoggingIn
  <2> QED BY <1>1, <2>1, <2>2, <2>3, <2>4, <2>5 DEF MCU
<1>2. CASE BeginQuery \/ QueryDone
  <2>0. \A p : pc' = [pc EXCEPT !["cmd"] = p] => pc'["sup"] = pc["sup"]
    BY <1>0, Elsewhere DEF Actors
  <2>1. CASE BeginQuery BY <1>0, <2>0, <2>1 DEF BeginQuery, LoggingIn
  <2>2. CASE QueryDone
    <3>1. late => late' BY <2>2 DEF QueryDone, Ok, Answered, Err
    <3>2. UNCHANGED <<isLoggedIn, accepted, dialled, conn, shared>> /\ pc'["sup"] = pc["sup"]
      BY <2>0, <2>2 DEF QueryDone
    <3> QED BY <1>0, <3>1, <3>2 DEF LoggingIn
  <2> QED BY <1>2, <2>1, <2>2
<1> QED BY <1>1, <1>2 DEF Command

\* Close forgets the login with the connection; the others touch neither.
LEMMA OtherLogin ==
    ASSUME IInv, Close("sup") \/ Closer \/ Talk \/ World \/ \E a \in Actors : IO(a)
    PROVE  NoLogin \/ SameLogin
<1> USE DEF SameLogin, LoginPlaces, Go, Stays, Ends, netVars, ioVars, sessVars
<1>0. TypeOK /\ LoggingIn BY DEF IInv
<1>1. ASSUME NEW a \in {"sup", "closer"}, Close(a) PROVE NoLogin \/ SameLogin
  <2>0. a \in Actors /\ \A p : pc' = [pc EXCEPT ![a] = p] =>
                            pc'["sup"] = IF a = "sup" THEN p ELSE pc["sup"]
    BY <1>0, <1>1, LoopGoes, Elsewhere DEF Actors
  <2>1. CASE Swap(a) BY <1>0, <2>0, <2>1 DEF Swap, Left, LoggingIn
  <2>2. CASE HangUp(a)
    BY <1>0, <2>0, <2>2 DEF HangUp, Left, Drop, ForgetLogin, NoLogin, LoggingIn
  <2>3. CASE LoggedOut(a) BY <2>3 DEF LoggedOut, Drop, ForgetLogin, NoLogin
  <2> QED BY <1>1, <2>1, <2>2, <2>3 DEF Close
<1>2. CASE StopTalk \/ TalkStopped \/ Cancel
  <2>0. \A p : pc' = [pc EXCEPT !["closer"] = p] => pc'["sup"] = pc["sup"]
    BY <1>0, Elsewhere DEF Actors
  <2> QED BY <1>0, <1>2, <2>0 DEF StopTalk, TalkStopped, Cancel, Ok, Answered, Err, LoggingIn
<1>3. CASE AudioPacket \/ StartTalk
  <2>0. \A p : pc' = [pc EXCEPT !["talk"] = p] => pc'["sup"] = pc["sup"]
    BY <1>0, Elsewhere DEF Actors
  <2> QED BY <1>0, <1>3, <2>0 DEF AudioPacket, StartTalk, Ok, Answered, Err, LoggingIn
<1>4. CASE ReadsNil("talk") \/ ReadsNil("closer") BY <1>0, <1>4 DEF ReadsNil, LoggingIn
<1>5. CASE Breaks \/ Torn \/ PushTelemetry
  BY <1>0, <1>5 DEF Breaks, Torn, PushTelemetry, LoggingIn
<1>6. ASSUME NEW a \in Actors, Send(a) \/ ReadPush(a) PROVE SameLogin
  <2>1. CASE Send(a)
    <3>1. UNCHANGED <<pc, isLoggedIn, accepted, dialled, conn, late>> BY <2>1 DEF Send
    <3>2. shared => shared' BY <2>1, Zenon DEF Send
    <3> QED BY <1>0, <3>1, <3>2 DEF LoggingIn
  <2>2. CASE ReadPush(a) BY <1>0, <2>2 DEF ReadPush, LoggingIn
  <2> QED BY <1>6, <2>1, <2>2
<1> QED BY <1>1, <1>2, <1>3, <1>4, <1>5, <1>6 DEF Closer, Talk, World, IO

\* So a login stays that of the connection.
LEMMA LoginKept ==
    ASSUME IInv, Next
    PROVE  /\ LoggingIn' /\ LoginHolds'
           /\ isLoggedIn' \in BOOLEAN /\ accepted' \in 0 .. dialled'
<1>0. Accepts \/ NoLogin \/ SameLogin \/ Store
  BY SupLogin, CommandLogin, OtherLogin DEF Next, Loop
<1>1. /\ isLoggedIn \in BOOLEAN /\ accepted \in 0 .. dialled /\ dialled \in Nat
      /\ conn \in 0 .. dialled /\ LoginHolds /\ LoggingIn
      /\ {late, shared} \subseteq BOOLEAN /\ wire \in Seq(Answers \cup {Push})
  BY DEF IInv, TypeOK
<1>2. CASE Accepts
  <2>1. accepted' \in 0 .. dialled' BY <1>1, <1>2 DEF Accepts
  <2>2. LoggingIn' BY <1>2 DEF Accepts, LoggingIn, LoginPlaces
  <2>3. /\ sent["sup"] # 0 /\ conn # 0 /\ framed /\ wire # <<>> /\ ~IsPush(Head(wire))
        /\ late' = late /\ shared' = shared /\ conn' = conn
    BY <1>2 DEF Accepts, Answered, Skipped
  <2>4. ASSUME ~late, ~shared PROVE Head(wire) = [to |-> "sup", kind |-> pc["sup"]]
    <3>1. alive BY <2>3 DEF IInv, WireWorks
    <3>2. Head(wire) = wire[1] /\ 1 \in 1 .. Len(wire) BY <1>1, <2>3, TailSteps
    <3>3. wire[1] = [to |-> lock, kind |-> pc[lock]]
      BY <2>3, <2>4, <3>1, <3>2, UnreadAnswer
    <3>4. pc["sup"] \notin Unlocked BY <1>2 DEF Accepts, Unlocked
    <3>5. lock = "sup" BY <2>3, <3>4 DEF IInv, TypeOK, Actors
    <3> QED BY <3>2, <3>3, <3>5
  <2>5. ASSUME ~late', ~shared' PROVE accepted' = conn'
    <3>1. ~late /\ ~shared BY <2>3, <2>5, Zenon
    <3> QED BY <1>2, <2>3, <2>4, <3>1 DEF Accepts
  <2>6. LoginHolds' BY <2>3, <2>5 DEF LoginHolds
  <2> QED BY <1>2, <2>1, <2>2, <2>6 DEF Accepts
<1>3. CASE NoLogin BY <1>1, <1>3 DEF NoLogin, LoginHolds, LoggingIn
<1>4. CASE SameLogin
  <2>1. LoggingIn' BY <1>4 DEF SameLogin, LoggingIn, LoginPlaces
  <2>2. LoginHolds'
    <3>1. CASE ~isLoggedIn BY <1>4, <3>1 DEF SameLogin, LoginHolds
    <3>2. CASE isLoggedIn
      <4>1. conn' = conn /\ accepted' = accepted /\ isLoggedIn' = isLoggedIn
        BY <1>4, <3>2 DEF SameLogin
      <4>2. ~late' /\ ~shared' => ~late /\ ~shared BY <1>4, Zenon DEF SameLogin
      <4> QED BY <1>1, <3>2, <4>1, <4>2 DEF LoginHolds
    <3> QED BY <3>1, <3>2
  <2> QED BY <1>1, <1>4, <2>1, <2>2 DEF SameLogin
<1>5. CASE Store
  <2>1. ~isLoggedIn BY <1>1, <1>5 DEF Store, LoggingIn
  <2>2. isLoggedIn' = isLoggedIn /\ accepted' = accepted /\ dialled' = dialled + 1
    BY <1>5 DEF Store, sessVars
  <2> QED BY <1>1, <2>1, <2>2 DEF LoginHolds, LoggingIn
<1> QED BY <1>0, <1>2, <1>3, <1>4, <1>5

-----------------------------------------------------------------------------
(* The rest of the types. *)

\* What a step does to the counters and to the flags that are no login.
Counts ==
    /\ Fault \/ UNCHANGED faults
    /\ tries' = tries \/ tries' = 0 \/ (tries + 1 < Candidates /\ tries' = tries + 1)

FlagsOK ==
    {serialTransActive, talkActive, closed, chanClosed, ctxDone, panicked} \subseteq BOOLEAN

\* The loop's own steps.
LEMMA SupTypes == ASSUME FlagsOK, Sup PROVE Counts /\ FlagsOK'
<1>1. Sup => Counts /\ talkActive' = talkActive /\ UNCHANGED <<chanClosed, ctxDone, panicked>>
  <2> USE DEF Counts, lifeVars, ioVars, sessVars
  <2>1. Check => Counts /\ UNCHANGED <<talkActive, chanClosed, ctxDone, panicked>> BY DEF Check
  <2>2. Dial => Counts /\ UNCHANGED <<talkActive, chanClosed, ctxDone, panicked>> BY DEF Dial
  <2>3. Store => Counts /\ UNCHANGED <<talkActive, chanClosed, ctxDone, panicked>> BY DEF Store
  <2>4. Claimed => Counts /\ UNCHANGED <<talkActive, chanClosed, ctxDone, panicked>>
    BY DEF Claimed, Ok, Err
  <2>5. RSALogin => Counts /\ UNCHANGED <<talkActive, chanClosed, ctxDone, panicked>>
    BY DEF RSALogin, Accept, NextCandidate, ToLegacy, Ok, Err
  <2>6. LegacyLogin => Counts /\ UNCHANGED <<talkActive, chanClosed, ctxDone, panicked>>
    BY DEF LegacyLogin, Accept, NextCandidate, ConnectFails, Ok, Err
  <2>7. SerialStarted => Counts /\ UNCHANGED <<talkActive, chanClosed, ctxDone, panicked>>
    BY DEF SerialStarted, Ok, Err
  <2>8. EnableRTSP => Counts /\ UNCHANGED <<talkActive, chanClosed, ctxDone, panicked>>
    BY DEF EnableRTSP, Ok, Err
  <2>9. EnsureH264Encoding => Counts /\ UNCHANGED <<talkActive, chanClosed, ctxDone, panicked>>
    BY DEF EnsureH264Encoding, Ok, Err
  <2>10. Tick \/ Heartbeat => Counts /\ UNCHANGED <<talkActive, chanClosed, ctxDone, panicked>>
    BY DEF Tick, Heartbeat, Ok, Err
  <2> QED BY <2>1, <2>2, <2>3, <2>4, <2>5, <2>6, <2>7, <2>8, <2>9, <2>10 DEF Sup
<1>2. Sup => closed' = closed \/ closed' = FALSE
  BY DEF Sup, Check, Dial, Store, Claimed, RSALogin, LegacyLogin, SerialStarted, EnableRTSP,
         EnsureH264Encoding, Tick, Heartbeat, lifeVars
<1>3. Sup => serialTransActive' = serialTransActive \/ serialTransActive' = TRUE
  BY DEF Sup, Check, Dial, Store, Claimed, RSALogin, Accept, LegacyLogin, SerialStarted, EnableRTSP,
         EnsureH264Encoding, Tick, Heartbeat, sessVars
<1> QED BY <1>1, <1>2, <1>3 DEF FlagsOK

\* All the others.
LEMMA OtherTypes ==
    ASSUME FlagsOK, MCU("sup") \/ Close("sup") \/ Command \/ Talk \/ Closer \/ World
                        \/ \E a \in Actors : IO(a)
    PROVE  Counts /\ FlagsOK'
<1> USE DEF Counts, FlagsOK, netVars, ioVars, sessVars, lifeVars
<1>1. ASSUME NEW a, MCU(a) PROVE Counts /\ FlagsOK'
  <2>1. CASE BeginMCU(a) BY <2>1 DEF BeginMCU
  <2>2. CASE Reopened(a) BY <2>2 DEF Reopened, Ok, Err
  <2>3. CASE MCUDone(a) BY <2>3 DEF MCUDone, Ok, Err
  <2>4. CASE DrainRead(a) BY <2>4 DEF DrainRead
  <2>5. CASE DrainEnds(a) BY <2>5 DEF DrainEnds
  <2> QED BY <1>1, <2>1, <2>2, <2>3, <2>4, <2>5 DEF MCU
<1>2. ASSUME NEW a, Close(a) PROVE Counts /\ FlagsOK'
  <2>1. CASE Swap(a)
    <3>1. panicked' \in BOOLEAN BY <2>1 DEF Swap
    <3> QED BY <2>1, <3>1 DEF Swap
  <2>2. CASE HangUp(a) BY <2>2 DEF HangUp, ForgetLogin
  <2>3. CASE LoggedOut(a) BY <2>3 DEF LoggedOut, ForgetLogin, Ok, Err
  <2> QED BY <1>2, <2>1, <2>2, <2>3 DEF Close
<1>3. CASE BeginQuery \/ QueryDone BY <1>3 DEF BeginQuery, QueryDone, Ok, Err
<1>4. CASE AudioPacket \/ StartTalk BY <1>4 DEF AudioPacket, StartTalk, Ok, Err
<1>5. CASE ReadsNil("talk") \/ ReadsNil("closer") BY <1>5 DEF ReadsNil
<1>6. CASE StopTalk \/ TalkStopped BY <1>6 DEF StopTalk, TalkStopped, Ok, Err
<1>7. CASE Cancel BY <1>7 DEF Cancel
<1>8. CASE Breaks \/ Torn \/ PushTelemetry BY <1>8 DEF Breaks, Torn, PushTelemetry
<1>9. ASSUME NEW a, IO(a) PROVE Counts /\ FlagsOK' BY <1>9 DEF IO, Send, ReadPush
<1> QED
  BY <1>1, <1>2, <1>3, <1>4, <1>5, <1>6, <1>7, <1>8, <1>9 DEF Command, Talk, Closer, World

\* So the variables keep their types.
LEMMA TypeKept == ASSUME IInv, Next PROVE TypeOK'
<1>1. FlagsOK BY DEF IInv, TypeOK, FlagsOK
<1>2. Counts /\ FlagsOK' BY <1>1, SupTypes, OtherTypes DEF Next, Loop
<1>3. faults' \in 0 .. MaxFaults /\ tries' \in 0 .. Candidates - 1
  BY <1>2, SofiaAssumption DEF IInv, TypeOK, Counts, Fault
<1>4. LineOK' /\ isLoggedIn' \in BOOLEAN /\ accepted' \in 0 .. dialled'
  BY LineKept, LoginKept
<1> QED BY <1>2, <1>3, <1>4 DEF TypeOK, FlagsOK, LineOK

-----------------------------------------------------------------------------
(* The theorems. *)

\* The invariant holds before anything is sent.
LEMMA InitIInv == Init => IInv
<1> SUFFICES ASSUME Init PROVE IInv OBVIOUS
<1>1. TypeOK
  <2>1. pc \in [Actors -> Places] BY PlacesKnown DEF Init
  <2>2. sent \in [Actors -> 0 .. dialled] /\ wire \in Seq(Answers \cup {Push}) BY DEF Init
  <2>3. \A a \in Actors : sent[a] = 0 BY DEF Init
  <2>4. tries \in 0 .. Candidates - 1 /\ faults \in 0 .. MaxFaults
    BY SofiaAssumption DEF Init
  <2>5. dialled \in Nat /\ conn \in 0 .. dialled /\ accepted \in 0 .. dialled BY DEF Init
  <2>6. {alive, framed, isLoggedIn, serialTransActive, talkActive, closed, chanClosed,
         ctxDone, panicked, late, shared} \subseteq BOOLEAN
    BY DEF Init
  <2>7. lock \in Actors \cup {Nobody} /\ ~alive BY DEF Init
  <2> QED BY <2>1, <2>2, <2>3, <2>4, <2>5, <2>6, <2>7 DEF TypeOK
<1>2. Asking /\ WireWorks /\ LoggingIn /\ LoginHolds /\ OwnAnswer
  BY DEF Init, Asking, WireWorks, LoggingIn, LoginHolds, OwnAnswer
<1> QED BY <1>1, <1>2 DEF IInv

\* Every step keeps it.
LEMMA NextIInv == IInv /\ [Next]_vars => IInv'
<1> SUFFICES ASSUME IInv, [Next]_vars PROVE IInv' OBVIOUS
<1>1. CASE Next BY <1>1, TypeKept, LineKept, LoginKept DEF IInv
<1>2. CASE UNCHANGED vars
  BY <1>2 DEF vars, netVars, ioVars, sessVars, lifeVars, IInv, TypeOK, Asking, WireWorks, LoggingIn,
              LoginHolds, OwnAnswer
<1> QED BY <1>1, <1>2

\* So it holds in every state.
LEMMA Invariance == Spec => []IInv
BY InitIInv, NextIInv, PTL DEF Spec

\* The variables of the control connection keep their types: there is a connection to read
\* from exactly if one is stored (Connect, Close), and who sent under c.mu holds it.
THEOREM TypeCorrect == Spec => []TypeOK
<1>1. IInv => TypeOK BY DEF IInv
<1> QED BY <1>1, Invariance, PTL

\* sendRequest takes the answer to its own request, for every number of faults, as long as
\* no answer of the connection was given up on and talk.go did not use it without c.mu.
THEOREM OwnAnswers == Spec => []OwnAnswer
<1>1. IInv => OwnAnswer BY DEF IInv
<1> QED BY <1>1, Invariance, PTL

\* Who holds c.mu and reads isLoggedIn reads of the connection in use: Close forgets the
\* login with the connection, and Connect makes a new one before it lets go of c.mu.
THEOREM LoginCurrent == Spec => []LoginIsCurrent
<1>1. IInv => LoginIsCurrent BY DEF IInv, LoginHolds, LoginIsCurrent
<1> QED BY <1>1, Invariance, PTL

=============================================================================
