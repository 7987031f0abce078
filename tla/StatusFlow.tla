----------------------------- MODULE StatusFlow ----------------------------
(***************************************************************************)
(* The way of the camera's state to those who watch it: reports and        *)
(* commands change the device status of the event bus (pkg/events), which  *)
(* tells its listeners, the MQTT client (pkg/mqtt) and the pull points of  *)
(* ONVIF (pkg/onvif/events.go).                                            *)
(*                                                                         *)
(* A status is a version of everything but motion, and motion.  Versions   *)
(* are numbered in the order in which the camera changed, or was asked to: *)
(* a command it refuses leaves a version that never was its state.  Whoever*)
(* changes the bus works on a copy in steps of its own: "cam" handles the  *)
(* camera's messages (webrtc/mcu_dispatch.go, applyMCUConfig), "cmd" a     *)
(* command of MQTT or ONVIF (the setters of both drivers), "timer" the end *)
(* of a motion, "mqtt" a new connection to the broker.                     *)
(*                                                                         *)
(* Of the retained topics the model has those with the most exceptions,    *)
(* the light threshold and the brightness: a status in which these are out *)
(* of range is "dark" and leaves them alone, and the command that sets the *)
(* threshold writes its topics past the bus.  The other topics of a status *)
(* are published whenever these are.                                       *)
(***************************************************************************)
EXTENDS Integers, Sequences, FiniteSets

CONSTANTS
    MaxChanges,     \* bound: messages and commands, and connections to the broker that fail
                    \* or are lost, together; a dark version takes the place of one of them
    QueueCap,       \* capacity of a pull point's channel: 10
    MaybeDark       \* bound: the versions that may be dark

ASSUME FlowAssumption ==
    MaxChanges \in Nat /\ QueueCap \in Nat \ {0} /\ MaybeDark \subseteq 0 .. MaxChanges

Actors  == {"cam", "cmd", "timer", "mqtt"}
Places  == {"idle", "get", "put", "tell", "set", "onvif", "arm", "off", "publish",
            "direct"}
Status  == [dev : 0 .. MaxChanges, motion : BOOLEAN]
Reports == [kind : {"report", "info", "generic"}, dev : 0 .. MaxChanges, motion : BOOLEAN]

Blank    == [dev |-> 0, motion |-> FALSE]
Nothing  == -1          \* nothing is retained

VARIABLES
    pc, copy,       \* where an actor is; its copy of the status
    light, sent,    \* the version of the camera's state; how often something happened
    dark,           \* the versions that are dark
    inbox,          \* messages of the camera not yet handled
    bus,            \* the status of the bus
    clock,          \* the motion timer runs
    rest,           \* what "cam" does after its update: nothing, motion, motion without a timer
    direct,         \* the command sets the threshold: MQTT publishes what it asked for
    conn, hooked,   \* the broker is connected; the client listens to the bus
    losses,
    mDev,           \* the version retained at the broker, under c.baseTopic
    base,           \* c.baseTopic: 1 until the identity is discovered, then 2
    queue, lastMotion,  \* the pull point: its channel, what its client last heard
    lost,           \* history: the bus may be without the camera's state: a command was refused,
                    \* or carried out and not reported, or a newer version written over
    late,           \* history: the broker may be without the bus's: it was told of a refused
                    \* command, an older version after a newer one, or before the client listened
    calm,           \* history: "cam" has the camera's present state and nobody else is at work
    loose           \* history: motion was set by words, or put back by an older copy

camVars  == <<light, sent, dark, inbox>>
busVars  == <<bus, lost>>
cmdVars  == <<direct, calm>>
timeVars == <<clock, rest, loose>>
brokVars == <<conn, hooked, losses, base>>
pullVars == <<queue, lastMotion>>
vars == <<pc, copy, camVars, busVars, cmdVars, timeVars, brokVars, mDev, late, pullVars>>

Init ==
    /\ pc = [a \in Actors |-> "idle"]
    /\ bus = Blank /\ copy = [a \in Actors |-> Blank]
    /\ light = 0 /\ sent = 0 /\ inbox = <<>> /\ dark \in SUBSET MaybeDark
    /\ clock = FALSE /\ rest = "none" /\ direct = FALSE
    /\ conn = FALSE /\ hooked = FALSE /\ losses = 0 /\ mDev = Nothing
    /\ base = 1
    /\ queue = <<>> /\ lastMotion = FALSE
    /\ lost = FALSE /\ late = FALSE /\ calm = FALSE /\ loose = FALSE

Room == sent + losses + (IF dark = {} THEN 0 ELSE 1) < MaxChanges     \* bound

Go(a, p)  == pc' = [pc EXCEPT ![a] = p]
Forget(a) == copy' = [copy EXCEPT ![a] = Blank]
At(a, p)  == pc[a] = p
Happens   == Room /\ sent' = sent + 1

-----------------------------------------------------------------------------
(* The camera, and who reads its messages. *)

\* It reports a change, a motion or nothing new, or notifies an event in words.
CameraSpeaks ==
    /\ Happens
    /\ \E m \in Reports :
        /\ m.dev = (IF m.kind = "report" /\ ~m.motion THEN sent' ELSE light)
        /\ m.kind # "report" => m.motion = (m.kind = "generic")
        /\ light' = m.dev /\ inbox' = Append(inbox, m)
    /\ UNCHANGED <<pc, copy, dark, busVars, cmdVars, timeVars, brokVars, mDev, late, pullVars>>

\* Asked every 30 s (L 625), or by its telemetry (L 620), it reports its state; what came
\* before was handled by then.
Poll ==
    /\ inbox = <<>> /\ At("cam", "idle")
    /\ inbox' = <<[kind |-> "report", dev |-> light, motion |-> FALSE]>>
    /\ UNCHANGED <<pc, copy, light, sent, dark, busVars, cmdVars, timeVars, brokVars, mDev, late,
                   pullVars>>

AtRest(a) == pc[a] \in {"idle", "off"}

\* handleDataChannelMessage and onMCUStatus read the status into a copy.
HandleMessage ==
    /\ At("cam", "idle") /\ inbox # <<>>
    /\ inbox' = Tail(inbox)
    /\ LET m == Head(inbox) IN
        /\ copy' = [copy EXCEPT !["cam"] =
                        IF m.kind = "report" THEN [bus EXCEPT !.dev = m.dev]
                        ELSE IF m.kind = "info" THEN bus ELSE @]
        /\ rest' = IF m.kind = "generic" THEN "bare" ELSE IF m.motion THEN "motion" ELSE "none"
        /\ calm' = (m.kind = "report" /\ m.dev = light /\ AtRest("cmd") /\ AtRest("mqtt"))
        /\ Go("cam", IF m.kind = "generic" THEN "set" ELSE "put")
    /\ UNCHANGED <<light, sent, dark, busVars, direct, clock, loose, brokVars, mDev, late,
                   pullVars>>

\* The camera carries a command out, and may report the change, or it does not.  The L 620's
\* setters write the bus if it did (SetResolution, and ONVIF's for both cameras, in any
\* case), the L 625's leave that to the report.  One that nothing comes of is left out.
Command ==
    /\ At("cmd", "idle") /\ Happens
    /\ \E done, writes \in BOOLEAN :
        /\ direct' \in BOOLEAN /\ (done \/ writes \/ direct') /\ (writes /\ direct' => done)
        /\ light' = IF done THEN sent' ELSE light
        /\ \/ UNCHANGED inbox
           \/ done /\ inbox' = Append(inbox, [kind |-> "report", dev |-> light', motion |-> FALSE])
        /\ lost' = (lost \/ (writes /\ ~done) \/ (~writes /\ done /\ inbox' = inbox))
        /\ late' = (late \/ (direct' /\ ~done))
        /\ Go("cmd", IF writes THEN "get" ELSE IF direct' THEN "direct" ELSE "idle")
        /\ copy' = [copy EXCEPT !["cmd"].dev = IF writes \/ direct' THEN sent' ELSE @]
    /\ calm' = FALSE
    /\ UNCHANGED <<dark, bus, timeVars, brokVars, mDev, pullVars>>

\* The setter reads the status once the camera has answered.
ReadStatus ==
    /\ At("cmd", "get") /\ Go("cmd", "put")
    /\ copy' = [copy EXCEPT !["cmd"].motion = bus.motion]
    /\ UNCHANGED <<camVars, busVars, cmdVars, timeVars, brokVars, mDev, late, pullVars>>

-----------------------------------------------------------------------------
(* The event bus. *)

\* UpdateStatus overwrites the whole status.
Put(a) ==
    /\ At(a, "put") /\ Go(a, "tell")
    /\ bus' = copy[a]
    /\ lost' = (lost \/ copy[a].dev < bus.dev)
    /\ loose' = (loose \/ (copy[a].motion /\ ~bus.motion))
    /\ UNCHANGED <<copy, camVars, cmdVars, clock, rest, brokVars, mDev, late, pullVars>>

PublishNewer(dev) ==    \* mutant: only a newer version is published
    IF dev \in dark \/ dev <= mDev THEN UNCHANGED mDev ELSE mDev' = dev

\* publishStatus leaves out values out of range.
Publish(dev) == IF dev \in dark THEN UNCHANGED mDev ELSE mDev' = dev

Overtaken(dev) == dev \notin dark /\ dev < mDev

\* The listener of the MQTT client, which is told after the bus is unlocked.  With the
\* camera's state in the bus and nobody else at work all is as it should be.
TellDevice(a) ==
    /\ At(a, "tell")
    /\ IF conn /\ hooked
       THEN /\ Publish(copy[a].dev)
            /\ late' = ((late \/ Overtaken(copy[a].dev)) /\ ~(a = "cam" /\ calm))
       ELSE late' = (late \/ conn) /\ UNCHANGED mDev
    /\ lost' = (lost /\ ~(a = "cam" /\ calm))
    /\ calm' = (calm /\ a # "cam")
    /\ IF a = "cmd" /\ direct THEN Go(a, "direct") /\ UNCHANGED copy
       ELSE Go(a, IF a = "cam" /\ rest = "motion" THEN "set" ELSE "idle") /\ Forget(a)
    /\ UNCHANGED <<camVars, bus, direct, timeVars, brokVars, pullVars>>

\* MQTT's handler drops the setter's error and publishes the threshold it was asked for.
PublishDirect ==
    /\ At("cmd", "direct") /\ Go("cmd", "idle") /\ Forget("cmd") /\ direct' = FALSE
    /\ IF conn THEN mDev' = copy["cmd"].dev /\ late' = (late \/ copy["cmd"].dev < mDev)
               ELSE UNCHANGED <<mDev, late>>
    /\ UNCHANGED <<camVars, busVars, calm, timeVars, brokVars, pullVars>>

\* SetMotion, by a report or by the timer.
SetMotion(a) ==
    /\ At(a, "set") /\ Go(a, "onvif")
    /\ bus' = [bus EXCEPT !.motion = (a = "cam")]
    /\ loose' = (a = "cam" /\ (loose \/ rest = "bare"))
    /\ UNCHANGED <<copy, camVars, lost, cmdVars, clock, rest, brokVars, mDev, late, pullVars>>

PushNew(m) == IF Len(queue) < QueueCap THEN Append(queue, m) ELSE Append(Tail(queue), m)

\* broadcastMotionEvent: a full channel loses its oldest event.
TellOnvif(a) ==
    /\ At(a, "onvif") /\ Go(a, IF a = "cam" /\ rest = "motion" THEN "arm" ELSE "idle")
    /\ queue' = PushNew(a = "cam")
    /\ rest' = IF a = "cam" THEN "none" ELSE rest
    /\ UNCHANGED <<copy, camVars, busVars, cmdVars, clock, loose, brokVars, mDev, late,
                   lastMotion>>

ArmOnlyOnce ==          \* mutant: a timer is set up only at the first motion
    /\ At("cam", "arm") /\ Go("cam", "idle")
    /\ clock' = (clock \/ sent <= 1) /\ loose' = FALSE
    /\ UNCHANGED <<copy, camVars, busVars, cmdVars, rest, brokVars, mDev, late, pullVars>>

\* The running timer is stopped, a new one started.
ArmTimer ==
    /\ At("cam", "arm") /\ Go("cam", "idle")
    /\ clock' = TRUE /\ loose' = FALSE
    /\ UNCHANGED <<copy, camVars, busVars, cmdVars, rest, brokVars, mDev, late, pullVars>>

TimerFires ==
    /\ clock /\ At("timer", "idle")
    /\ clock' = FALSE /\ Go("timer", "set")
    /\ UNCHANGED <<copy, camVars, busVars, cmdVars, rest, loose, brokVars, mDev, late, pullVars>>

-----------------------------------------------------------------------------
(* The MQTT client. *)

\* Start connects once; paho keeps the connection up after that.  OnConnect announces the
\* topic of the time of Start; discovery and subscription follow c.baseTopic.
Connect ==
    /\ ~conn /\ At("mqtt", "idle")
    /\ \/ conn' = TRUE /\ Go("mqtt", "get") /\ calm' = FALSE /\ UNCHANGED losses
       \/ ~hooked /\ Room /\ losses' = losses + 1
          /\ Go("mqtt", "off") /\ UNCHANGED <<conn, calm>>
    /\ UNCHANGED <<copy, camVars, busVars, direct, timeVars, hooked, mDev, late, base, pullVars>>

\* Start hooks into the bus when the connection is up.
Hook ==
    /\ conn /\ ~hooked
    /\ hooked' = TRUE
    /\ UNCHANGED <<pc, copy, camVars, busVars, cmdVars, timeVars, conn, losses, mDev, late, base,
                   pullVars>>

\* The broker publishes the will and forgets the subscriptions.
ConnectionLost ==
    /\ conn /\ hooked /\ Room
    /\ losses' = losses + 1
    /\ conn' = FALSE
    /\ UNCHANGED <<pc, copy, camVars, busVars, cmdVars, timeVars, hooked, mDev, late, base,
                   pullVars>>

\* UpdateDeviceInfo announces the new topic, under which nothing is retained yet, if the
\* broker is connected.
Discovered ==
    /\ base = 1 /\ base' = 2
    /\ mDev' = IF conn /\ bus.dev \notin dark THEN bus.dev ELSE Nothing
    /\ UNCHANGED <<pc, copy, camVars, busVars, cmdVars, timeVars, conn, hooked, losses, late,
                   pullVars>>

\* OnConnect then publishes the status it read.
CopyStatus ==
    /\ At("mqtt", "get") /\ Go("mqtt", "publish")
    /\ copy' = [copy EXCEPT !["mqtt"] = bus]
    /\ UNCHANGED <<camVars, busVars, cmdVars, timeVars, brokVars, mDev, late, pullVars>>

StateNotPublished ==        \* mutant: a new connection announces no state
    /\ At("mqtt", "publish") /\ Go("mqtt", "idle")
    /\ UNCHANGED <<copy, camVars, busVars, cmdVars, timeVars, brokVars, mDev, late, pullVars>>

\* A status that is dark, with the lamp off, is not published at all.
PublishState ==
    /\ At("mqtt", "publish") /\ Go("mqtt", "idle") /\ Forget("mqtt")
    /\ IF conn THEN /\ Publish(copy["mqtt"].dev)
                    /\ late' = (late \/ Overtaken(copy["mqtt"].dev))
               ELSE UNCHANGED <<mDev, late>>
    /\ UNCHANGED <<camVars, busVars, cmdVars, timeVars, brokVars, pullVars>>

-----------------------------------------------------------------------------
(* A client of a pull point that calls PullMessages again and again. *)

PullQueueOnly ==        \* mutant: a call that times out does not look at the status
    /\ queue # <<>> /\ lastMotion' = Head(queue) /\ queue' = Tail(queue)
    /\ UNCHANGED <<pc, copy, camVars, busVars, cmdVars, timeVars, brokVars, mDev, late>>

\* The next event, or after 3 s without one the status if it differs from the last one.
PullMessages ==
    /\ \/ queue # <<>> /\ lastMotion' = Head(queue) /\ queue' = Tail(queue)
       \/ queue = <<>> /\ lastMotion' = bus.motion /\ UNCHANGED queue
    /\ UNCHANGED <<pc, copy, camVars, busVars, cmdVars, timeVars, brokVars, mDev, late>>

Update == \E a \in Actors : Put(a) \/ TellDevice(a) \/ SetMotion(a) \/ TellOnvif(a)

Next ==
    \/ CameraSpeaks \/ Poll \/ HandleMessage \/ Command \/ ReadStatus \/ PublishDirect
    \/ ArmTimer \/ TimerFires
    \/ Connect \/ Hook \/ ConnectionLost \/ Discovered \/ PullMessages
    \/ CopyStatus \/ PublishState \/ Update

\* The goroutines run, the timer fires, the client pulls, and the camera is polled.
Spec == Init /\ [][Next]_vars
        /\ WF_vars(HandleMessage) /\ WF_vars(ReadStatus) /\ WF_vars(ArmTimer)
        /\ WF_vars(Poll) /\ WF_vars(TimerFires) /\ WF_vars(PullMessages) /\ WF_vars(Update)

-----------------------------------------------------------------------------
\* The values the variables range over; no queue grows beyond its channel.
TypeOK ==
    /\ pc \in [Actors -> Places] /\ copy \in [Actors -> Status]
    /\ light \in 0 .. MaxChanges /\ sent \in 0 .. MaxChanges /\ light <= sent
    /\ inbox \in Seq(Reports) /\ bus \in Status /\ dark \subseteq 0 .. MaxChanges
    /\ {clock, direct, conn, hooked, lastMotion, lost, late, calm, loose}
            \subseteq BOOLEAN
    /\ rest \in {"none", "motion", "bare"}
    /\ losses \in 0 .. MaxChanges /\ mDev \in Nothing .. MaxChanges
    /\ base \in {1, 2}
    /\ queue \in Seq(BOOLEAN) /\ Len(queue) <= QueueCap

Idle == \A a \in Actors : AtRest(a)

\* Once all is handled, the bus has the camera's state and the broker that of the bus,
\* through lost connections, dark states and whatever order commands, reports and
\* announcements took.  Where one writes over or overtakes another, where a command is
\* refused or its effect not reported, this is so again after the next report that finds
\* no command and no new connection at work.
StatusSettles ==
    Idle /\ inbox = <<>> /\ ~lost =>
        /\ bus.dev = light
        /\ conn /\ hooked /\ ~late /\ bus.dev \notin dark => mDev = bus.dev

\* Whatever was refused, written over or announced too late, polling the camera puts it
\* right in the end: the bus and, while it is connected, the broker get the camera's state.
StatusHeals ==
    <>[](/\ bus.dev = light
         /\ conn /\ hooked /\ bus.dev \notin dark => mDev = bus.dev)

\* A motion that is on is about to be ended by a timer, unless it was notified in words or
\* put back by an update with an older copy, and no reported motion has come since.
MotionHasTimer == Idle /\ ~loose /\ bus.motion => clock

\* A client that keeps pulling ends up with the bus's motion, whatever events its
\* channel dropped and in whatever order it was told.
PullPointConverges == <>[](lastMotion = bus.motion)
=============================================================================
