---------------------------- MODULE SofiaClient ----------------------------
(***************************************************************************)
(* The Sofia control connection of the L 620 (pkg/xiongmai/client.go), the *)
(* loop that keeps it up (superviseSofiaLoop of driver.go), the commands   *)
(* of MQTT, ONVIF and the SD card, and the audio backchannel (talk.go).    *)
(*                                                                         *)
(* Every operation sends a request on one TCP connection and takes the     *)
(* next message that is no telemetry push for the answer: nothing in it is *)
(* compared with the request.  c.mu is held from the first request of an   *)
(* operation to its last answer; the talk client sends and reads without   *)
(* it.  An actor's pc is the request it is about to send or waits for.     *)
(*                                                                         *)
(* What the camera does wrong is charged to a budget of faults: a refused  *)
(* dial, a request it never answers, an answer that comes after the 5 s    *)
(* deadline, a rejected or half-accepted login, a broken connection.       *)
(* Driver.Start makes the calls of the loop's first round once before it;  *)
(* the model begins with the loop.                                         *)
(***************************************************************************)
EXTENDS Integers, Sequences, FiniteSets

CONSTANTS
    MaxFaults,      \* bound: what the camera and the network do wrong
    Candidates      \* passwords tried in each of the two logins

ASSUME SofiaAssumption == MaxFaults \in Nat /\ Candidates \in Nat \ {0}

Nobody == "nobody"
Actors == {"sup", "cmd", "talk", "closer"}
Closers == {"sup", "closer"}

\* The requests, and those that are sent without c.mu.
Unlocked == {"claimtalk", "claimold", "starttalk", "stoptalk"}
Requests == {"claim", "rsa", "legacy", "trans", "rtspget", "rtspset", "encget", "encset",
             "reopen", "mcu", "query", "keepalive", "logout"} \cup Unlocked
Places == Requests \cup {"check", "dial", "store", "sync", "wait", "drain2", "drain1", "swap",
                         "hangup", "idle", "stop", "ended"}

Answers   == [to : Actors, kind : Requests]
Push      == [to |-> Nobody, kind |-> "telemetry"]
IsPush(m) == m = Push

VARIABLES
    pc,             \* of each actor
    sent,           \* the connection its request was sent on; 0: not sent
    lock,           \* who holds c.mu
    tries,          \* login candidates rejected so far
    conn,           \* c.conn: the number of the connection, 0 for nil
    dialled,        \* connections made
    alive, framed,  \* the connection works; reads begin where messages begin
    wire,           \* what the camera sent on it, unread, as long as it is framed
    isLoggedIn, serialTransActive, talkActive,
    closed, chanClosed,         \* c.closed; c.closeChan is closed
    ctxDone, panicked,          \* the bridge shuts down; it crashed
    faults,
    late, shared,   \* history: an answer on this connection was given up on; it was read
                    \* or written without the lock
    accepted        \* history: the connection whose camera last accepted a login

netVars  == <<conn, dialled, alive, framed, shared>>
ioVars   == <<wire, sent, late, faults>>
sessVars == <<isLoggedIn, accepted, serialTransActive>>
lifeVars == <<closed, chanClosed, ctxDone, panicked>>
vars == <<pc, lock, tries, talkActive, netVars, ioVars, sessVars, lifeVars>>

Init ==
    /\ pc = [a \in Actors |-> IF a = "sup" THEN "check" ELSE "idle"]
    /\ sent = [a \in Actors |-> 0] /\ lock = Nobody /\ tries = 0
    /\ conn = 0 /\ dialled = 0 /\ alive = FALSE /\ framed = TRUE /\ wire = <<>>
    /\ isLoggedIn = FALSE /\ serialTransActive = FALSE /\ talkActive = FALSE
    /\ closed = FALSE /\ chanClosed = FALSE /\ ctxDone = FALSE /\ panicked = FALSE
    /\ faults = 0 /\ late = FALSE /\ shared = FALSE /\ accepted = 0

Fault    == faults < MaxFaults /\ faults' = faults + 1
Go(a, p) == pc' = [pc EXCEPT ![a] = p]

\* An operation goes on, or ends and frees c.mu.
Stays(a, p) == Go(a, p) /\ UNCHANGED lock
Ends(a, p)  == Go(a, p) /\ lock' = IF lock = a THEN Nobody ELSE lock

-----------------------------------------------------------------------------
(* One request. *)

\* It is written under c.mu, which its operation takes here if it has not.
Send(a) ==
    /\ pc[a] \in Requests /\ sent[a] = 0 /\ alive
    /\ IF pc[a] \in Unlocked THEN UNCHANGED lock ELSE lock \in {Nobody, a} /\ lock' = a
    /\ sent' = [sent EXCEPT ![a] = conn]
    /\ \/ /\ wire' = IF framed THEN Append(wire, [to |-> a, kind |-> pc[a]]) ELSE wire
          /\ UNCHANGED faults
       \/ Fault /\ UNCHANGED wire                   \* the camera will not answer
    /\ shared' = (shared \/ pc[a] \in Unlocked)
    /\ UNCHANGED <<pc, tries, conn, dialled, alive, framed, late, talkActive, sessVars,
                   lifeVars>>

SkippedNever(m) == FALSE                \* mutant: a push is taken for the answer

Skipped(m) == IsPush(m)

ReadPush(a) ==
    /\ sent[a] # 0 /\ sent[a] = conn /\ framed /\ wire # <<>> /\ Skipped(Head(wire))
    /\ wire' = Tail(wire)
    /\ UNCHANGED <<pc, lock, tries, sent, late, faults, talkActive, netVars, sessVars, lifeVars>>

\* The next message is the answer, whatever it answers.
Answered(a) ==
    /\ sent[a] # 0 /\ conn # 0 /\ framed /\ wire # <<>> /\ ~Skipped(Head(wire))
    /\ wire' = Tail(wire)
    /\ sent' = [sent EXCEPT ![a] = 0]
    /\ UNCHANGED late

\* Taking what another reader waits for is charged to the budget.
Ok(a) ==
    /\ Answered(a)
    /\ IF \E b \in Actors \ {a} : Head(wire).to = b /\ sent[b] = conn
       THEN Fault ELSE UNCHANGED faults

Unanswered(a) == \A i \in 1 .. Len(wire) : wire[i].to # a

\* There is no connection, or it broke, its bytes make no sense, nothing comes for 5 s;
\* or the answer comes after the 5 s.
Err(a) ==
    /\ IF sent[a] = 0
       THEN ~alive /\ (pc[a] \in Unlocked \/ lock \in {Nobody, a}) /\ UNCHANGED <<late, faults>>
       ELSE \/ /\ sent[a] # conn \/ ~alive \/ ~framed \/ Unanswered(a)
               /\ UNCHANGED <<late, faults>>
            \/ sent[a] = conn /\ ~Unanswered(a) /\ Fault /\ late' = TRUE
    /\ sent' = [sent EXCEPT ![a] = 0]
    /\ UNCHANGED wire

\* Two readers of one connection: one takes a header, the other what follows it.
Torn ==
    /\ \E a, b \in Actors : a # b /\ sent[a] = conn /\ sent[b] = conn
    /\ alive /\ framed /\ wire # <<>>
    /\ Fault
    /\ framed' = FALSE /\ wire' = <<>>
    /\ UNCHANGED <<pc, lock, tries, conn, dialled, alive, shared, sent, late, talkActive,
                   sessVars, lifeVars>>

\* The talk client had written when Close made c.conn nil: it reads from nil.
ReadsNil(a) ==
    /\ pc[a] \in Unlocked /\ sent[a] # 0 /\ conn = 0
    /\ panicked' = TRUE
    /\ UNCHANGED <<pc, lock, tries, talkActive, netVars, ioVars, sessVars, closed,
                   chanClosed, ctxDone>>

-----------------------------------------------------------------------------
(* Connect and the two logins, all under c.mu. *)

Check ==
    /\ pc["sup"] = "check" /\ lock = Nobody
    /\ \/ ctxDone /\ Go("sup", "ended")
       \/ Go("sup", IF isLoggedIn THEN "wait" ELSE "dial")
    /\ UNCHANGED <<lock, tries, talkActive, netVars, ioVars, sessVars, lifeVars>>

Dial ==
    /\ pc["sup"] = "dial" /\ lock = Nobody
    /\ \/ ~ctxDone /\ Go("sup", "store") /\ lock' = "sup" /\ UNCHANGED faults
       \/ ~ctxDone /\ Stays("sup", "check") /\ Fault
       \/ ctxDone /\ Stays("sup", "check") /\ UNCHANGED faults
    /\ UNCHANGED <<tries, wire, sent, late, talkActive, netVars, sessVars, lifeVars>>

\* A connection that was up without a login is replaced, and not closed.
Store ==
    /\ pc["sup"] = "store"
    /\ dialled' = dialled + 1 /\ conn' = dialled'
    /\ alive' = TRUE /\ framed' = TRUE /\ wire' = <<>> /\ late' = FALSE
    /\ shared' = \E a \in Actors : pc[a] \in Unlocked /\ sent[a] # 0
    /\ closed' = FALSE
    /\ Go("sup", "claim")
    /\ UNCHANGED <<lock, tries, sent, faults, talkActive, sessVars, chanClosed, ctxDone,
                   panicked>>

\* The OPMonitor Claim: a usable answer may offer RSA.
Claimed ==
    /\ pc["sup"] = "claim"
    /\ \/ Ok("sup") /\ \E p \in {"rsa", "legacy"} : Stays("sup", p)
       \/ Err("sup") /\ Stays("sup", "legacy")
    /\ UNCHANGED <<tries, talkActive, netVars, sessVars, lifeVars>>

\* An accepted login; the OPTrans bridge is started unless it is believed to run.
Accept ==
    /\ Ok("sup")
    /\ isLoggedIn' = TRUE
    /\ accepted' = IF Head(wire) = [to |-> "sup", kind |-> pc["sup"]] THEN conn ELSE accepted
    /\ tries' = 0
    /\ IF serialTransActive THEN Ends("sup", "rtspget") ELSE Stays("sup", "trans")
    /\ UNCHANGED serialTransActive

\* Another candidate is tried when the answer allows it and one is left.
NextCandidate(p) == tries + 1 < Candidates /\ tries' = tries + 1 /\ Stays("sup", p)

ToLegacy == tries' = 0 /\ Stays("sup", "legacy")

RSALogin ==
    /\ pc["sup"] = "rsa"
    /\ \/ Accept
       \/ Ok("sup") /\ (NextCandidate("rsa") \/ ToLegacy) /\ UNCHANGED sessVars
       \/ Err("sup") /\ ToLegacy /\ UNCHANGED sessVars
    /\ UNCHANGED <<talkActive, netVars, lifeVars>>

\* c.conn is closed and forgotten.
Drop == conn' = 0 /\ alive' = FALSE /\ UNCHANGED <<dialled, framed, shared>>

ConnectFails == Drop /\ tries' = 0 /\ Ends("sup", "check")

\* After the last candidate the connection is kept without a login if the camera gave
\* it a session id.
LegacyLogin ==
    /\ pc["sup"] = "legacy"
    /\ \/ Accept /\ UNCHANGED netVars
       \/ Ok("sup") /\ NextCandidate("legacy") /\ UNCHANGED <<netVars, sessVars>>
       \/ /\ Answered("sup") /\ Fault
          /\ \/ /\ tries + 1 = Candidates
                /\ tries' = 0 /\ Ends("sup", "check") /\ UNCHANGED netVars
             \/ ConnectFails
          /\ UNCHANGED sessVars
       \/ Err("sup") /\ ConnectFails /\ UNCHANGED sessVars
    /\ UNCHANGED <<talkActive, lifeVars>>

\* Any answer will do; without one the login stands all the same.
SerialStarted ==
    /\ pc["sup"] = "trans"
    /\ \/ Ok("sup") /\ serialTransActive' = TRUE
       \/ Err("sup") /\ UNCHANGED serialTransActive
    /\ Ends("sup", "rtspget")
    /\ UNCHANGED <<isLoggedIn, accepted, tries, talkActive, netVars, lifeVars>>

-----------------------------------------------------------------------------
(* What follows a login, and the commands. *)

\* EnableRTSP sets what it could not read or finds off.
EnableRTSP ==
    /\ \/ /\ pc["sup"] = "rtspget"
          /\ \/ Ok("sup") /\ (Stays("sup", "rtspset") \/ Ends("sup", "encget"))
             \/ Err("sup") /\ Stays("sup", "rtspset")
       \/ pc["sup"] = "rtspset" /\ (Ok("sup") \/ Err("sup")) /\ Ends("sup", "encget")
    /\ UNCHANGED <<tries, talkActive, netVars, sessVars, lifeVars>>

\* EnsureH264Encoding sets only what it could read.
EnsureH264Encoding ==
    /\ \/ /\ pc["sup"] = "encget"
          /\ \/ Ok("sup") /\ (Stays("sup", "encset") \/ Ends("sup", "sync"))
             \/ Err("sup") /\ Ends("sup", "sync")
       \/ pc["sup"] = "encset" /\ (Ok("sup") \/ Err("sup")) /\ Ends("sup", "sync")
    /\ UNCHANGED <<tries, talkActive, netVars, sessVars, lifeVars>>

Home(a) == IF a = "sup" THEN "check" ELSE "idle"

\* QueryMCUConfig and the setters: the serial bridge first, then the command.
BeginMCU(a) ==
    /\ \/ a = "sup" /\ pc[a] = "sync"
       \/ a = "cmd" /\ pc[a] = "idle"
    /\ lock = Nobody /\ lock' = a
    /\ Go(a, IF serialTransActive THEN "mcu" ELSE "reopen")
    /\ UNCHANGED <<tries, talkActive, netVars, ioVars, sessVars, lifeVars>>

Reopened(a) ==
    /\ pc[a] = "reopen"
    /\ \/ Ok(a) /\ serialTransActive' = TRUE /\ Stays(a, "mcu")
       \/ Err(a) /\ Ends(a, Home(a)) /\ UNCHANGED serialTransActive
    /\ UNCHANGED <<isLoggedIn, accepted, tries, talkActive, netVars, lifeVars>>

MCUDone(a) ==
    /\ pc[a] = "mcu"
    /\ \/ Ok(a) /\ Stays(a, "drain2")
       \/ Err(a) /\ Ends(a, Home(a))
    /\ UNCHANGED <<tries, talkActive, netVars, sessVars, lifeVars>>

\* Up to two messages are read within 300 ms each, the second only if the first was no
\* push or the beginning of a split one; what is no push is dropped.
DrainRead(a) ==
    /\ pc[a] \in {"drain2", "drain1"}
    /\ alive /\ framed /\ wire # <<>>
    /\ wire' = Tail(wire)
    /\ \/ (pc[a] = "drain1" \/ IsPush(Head(wire))) /\ Ends(a, Home(a))
       \/ pc[a] = "drain2" /\ Stays(a, "drain1")
    /\ UNCHANGED <<tries, sent, late, faults, talkActive, netVars, sessVars, lifeVars>>

\* Nothing comes; or the deadline cuts a message in two.
DrainEnds(a) ==
    /\ pc[a] \in {"drain2", "drain1"}
    /\ \/ UNCHANGED <<framed, wire, faults>>
       \/ alive /\ wire # <<>> /\ Fault /\ framed' = FALSE /\ wire' = <<>>
    /\ Ends(a, Home(a))
    /\ UNCHANGED <<tries, conn, dialled, alive, shared, sent, late, talkActive, sessVars,
                   lifeVars>>

\* ListRecordings of the SD card asks only with a login.
BeginQuery ==
    /\ pc["cmd"] = "idle" /\ lock = Nobody /\ isLoggedIn
    /\ Go("cmd", "query")
    /\ UNCHANGED <<lock, tries, talkActive, netVars, ioVars, sessVars, lifeVars>>

QueryDone ==
    /\ pc["cmd"] = "query"
    /\ Ok("cmd") \/ Err("cmd")
    /\ Ends("cmd", "idle")
    /\ UNCHANGED <<tries, talkActive, netVars, sessVars, lifeVars>>

-----------------------------------------------------------------------------
(* The heartbeat, and Close by the loop or by Driver.Close. *)

Tick ==
    /\ pc["sup"] = "wait" /\ lock = Nobody
    /\ \/ ctxDone /\ Go("sup", "ended")
       \/ Go("sup", IF isLoggedIn THEN "keepalive" ELSE "check")
    /\ UNCHANGED <<lock, tries, talkActive, netVars, ioVars, sessVars, lifeVars>>

HeartbeatIgnored ==     \* mutant: a failed heartbeat is only logged
    /\ pc["sup"] = "keepalive"
    /\ Ok("sup") \/ Err("sup")
    /\ Ends("sup", "check")
    /\ UNCHANGED <<tries, talkActive, netVars, sessVars, lifeVars>>

Heartbeat ==
    /\ pc["sup"] = "keepalive"
    /\ \/ Ok("sup") /\ Ends("sup", "check")
       \/ Err("sup") /\ Ends("sup", "swap")
    /\ UNCHANGED <<tries, talkActive, netVars, sessVars, lifeVars>>

Left(a) == IF a = "sup" THEN "check" ELSE "ended"

\* Only the first Close since the last connect goes on; closing closeChan again panics.
Swap(a) ==
    /\ pc[a] = "swap"
    /\ closed' = TRUE
    /\ chanClosed' = TRUE
    /\ panicked' = (~closed /\ chanClosed)
    /\ Go(a, IF closed THEN Left(a) ELSE "hangup")
    /\ UNCHANGED <<lock, tries, talkActive, netVars, ioVars, sessVars, ctxDone>>

ForgetLoginNever == UNCHANGED sessVars          \* mutant: Close keeps the flags

ForgetLogin ==
    /\ isLoggedIn' = FALSE /\ serialTransActive' = FALSE
    /\ UNCHANGED accepted

HangUp(a) ==
    /\ pc[a] = "hangup" /\ lock = Nobody
    /\ IF conn # 0 /\ isLoggedIn
       THEN Go(a, "logout") /\ lock' = a /\ UNCHANGED <<netVars, sessVars>>
       ELSE /\ Go(a, Left(a)) /\ UNCHANGED lock
            /\ IF conn # 0
               THEN Drop /\ ForgetLogin
               ELSE UNCHANGED <<netVars, sessVars>>
    /\ UNCHANGED <<tries, talkActive, ioVars, lifeVars>>

\* The answer to the logout does not matter.
LoggedOut(a) ==
    /\ pc[a] = "logout"
    /\ Ok(a) \/ Err(a)
    /\ Drop /\ ForgetLogin
    /\ Ends(a, Left(a))
    /\ UNCHANGED <<tries, talkActive, lifeVars>>

\* The shutdown: Run sees ctx.Done and calls Driver.Close, which stops the talk first.
Cancel ==
    /\ pc["closer"] = "idle"
    /\ ctxDone' = TRUE
    /\ Go("closer", "stop")
    /\ UNCHANGED <<lock, tries, talkActive, netVars, ioVars, sessVars, closed,
                   chanClosed, panicked>>

StopTalk ==
    /\ pc["closer"] = "stop" /\ pc["talk"] = "idle"
    /\ Go("closer", IF talkActive THEN "stoptalk" ELSE "swap")
    /\ UNCHANGED <<lock, tries, talkActive, netVars, ioVars, sessVars, lifeVars>>

TalkStopped ==
    /\ pc["closer"] = "stoptalk"
    /\ Ok("closer") \/ Err("closer")
    /\ talkActive' = FALSE
    /\ Stays("closer", "swap")
    /\ UNCHANGED <<tries, netVars, sessVars, lifeVars>>

-----------------------------------------------------------------------------
(* The audio backchannel: t.mu, but not c.mu. *)

\* The first packet claims the speaker; once claimed, packets are only written.
AudioPacket ==
    /\ pc["talk"] = "idle" /\ ~talkActive /\ pc["closer"] \notin {"stoptalk"}
    /\ Go("talk", "claimtalk")
    /\ UNCHANGED <<lock, tries, talkActive, netVars, ioVars, sessVars, lifeVars>>

\* A claim that fails is tried the old way; the answer to the start does not matter.
StartTalk ==
    /\ \/ /\ pc["talk"] = "claimtalk" /\ UNCHANGED talkActive
          /\ \/ Ok("talk") /\ Stays("talk", "starttalk")
             \/ Err("talk") /\ Stays("talk", "claimold")
       \/ /\ pc["talk"] = "claimold" /\ UNCHANGED talkActive
          /\ \/ Ok("talk") /\ Stays("talk", "starttalk")
             \/ Err("talk") /\ Stays("talk", "idle")
       \/ /\ pc["talk"] = "starttalk" /\ (Ok("talk") \/ Err("talk"))
          /\ talkActive' = TRUE /\ Stays("talk", "idle")
    /\ UNCHANGED <<tries, netVars, sessVars, lifeVars>>

-----------------------------------------------------------------------------
(* The camera and the network. *)

PushTelemetry ==
    /\ alive /\ framed /\ serialTransActive
    /\ \A i \in 1 .. Len(wire) : ~IsPush(wire[i])
    /\ wire' = Append(wire, Push)
    /\ UNCHANGED <<pc, lock, tries, sent, late, faults, talkActive, netVars, sessVars,
                   lifeVars>>

Breaks ==
    /\ alive /\ Fault
    /\ alive' = FALSE /\ wire' = <<>>
    /\ UNCHANGED <<pc, lock, tries, sent, late, talkActive, conn, dialled, framed, shared,
                   sessVars, lifeVars>>

Sup ==
    \/ Check \/ Dial \/ Store \/ Claimed \/ RSALogin \/ LegacyLogin \/ SerialStarted
    \/ EnableRTSP \/ EnsureH264Encoding \/ Tick \/ Heartbeat
MCU(a)   == BeginMCU(a) \/ Reopened(a) \/ MCUDone(a) \/ DrainRead(a) \/ DrainEnds(a)
Close(a) == Swap(a) \/ HangUp(a) \/ LoggedOut(a)
IO(a)    == Send(a) \/ ReadPush(a)

Loop    == Sup \/ MCU("sup") \/ Close("sup")
Command == MCU("cmd") \/ BeginQuery \/ QueryDone
Talk    == AudioPacket \/ StartTalk \/ ReadsNil("talk")
Closer  == StopTalk \/ TalkStopped \/ Close("closer") \/ ReadsNil("closer")
World   == Cancel \/ Breaks \/ Torn \/ PushTelemetry

Next == ~panicked /\ (Loop \/ Command \/ Talk \/ Closer \/ World \/ \E a \in Actors : IO(a))

\* The loop and the commands run, and c.mu is handed on: the loop gets it some time
\* (Go's mutex starves nobody).  The camera owes nothing beyond its budget of faults.
Spec == Init /\ [][Next]_vars
        /\ SF_vars(~panicked /\ Loop) /\ WF_vars(~panicked /\ Command)
        /\ SF_vars(~panicked /\ IO("sup")) /\ WF_vars(~panicked /\ IO("cmd"))
        /\ WF_vars(~panicked /\ StartTalk)

-----------------------------------------------------------------------------
\* The values the variables range over; there is a connection to read from exactly if
\* one is stored, and whoever sent under c.mu holds it.
TypeOK ==
    /\ pc \in [Actors -> Places]
    /\ dialled \in Nat /\ conn \in 0 .. dialled
    /\ sent \in [Actors -> 0 .. dialled]
    /\ lock \in Actors \cup {Nobody}
    /\ tries \in 0 .. Candidates - 1
    /\ {alive, framed, isLoggedIn, serialTransActive, talkActive, closed, chanClosed,
        ctxDone, panicked, late, shared} \subseteq BOOLEAN
    /\ wire \in Seq(Answers \cup {Push})
    /\ faults \in 0 .. MaxFaults /\ accepted \in 0 .. dialled
    /\ alive => conn # 0
    /\ \A a \in Actors : sent[a] # 0 /\ pc[a] \notin Unlocked => lock = a

\* As long as no answer on a connection was given up on and nobody used it without the
\* lock, what is unread on it is at most the answer to the request that is waited for:
\* no operation takes the answer of another.
OwnAnswer ==
    alive /\ framed /\ ~late /\ ~shared =>
        \A i \in 1 .. Len(wire) : ~IsPush(wire[i]) =>
            /\ lock # Nobody /\ sent[lock] = conn
            /\ wire[i] = [to |-> lock, kind |-> pc[lock]]
            /\ \A j \in 1 .. Len(wire) : ~IsPush(wire[j]) => j = i

\* Who is told that there is a login has a connection, and on it the camera accepted
\* one: no flag of an earlier connection survives, and no late answer, of another
\* request, is taken for a login while requests and answers are in step.
LoginIsCurrent ==
    isLoggedIn /\ lock = Nobody =>
        conn # 0 /\ (~late /\ ~shared => accepted = conn)

Healthy == isLoggedIn /\ alive /\ framed

\* A control connection that is refused, breaks or loses the message boundaries is replaced, again
\* and again, until the bridge shuts down.
SessionRestored == []<>(Healthy \/ ctxDone \/ panicked)

\* Claim of CHANGELOG 1.3.11-beta.10, "Erkennt Verbindungsabbrueche und fuehrt
\* automatische Wiederverbindungsversuche mit Backoff durch": losing the connection
\* does not take the bridge down.
SurvivesLoss == ~panicked
=============================================================================
