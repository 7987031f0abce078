--------------------------- MODULE EventListQuery ---------------------------
(***************************************************************************)
(* Event-list queries over the DataChannel of one session, and the health  *)
(* counter that resets the session (GetEventList, recordTimeout and        *)
(* HandleJSONMessage of pkg/webrtc/sdcard.go; the handler that Run of      *)
(* pkg/webrtc/bridge.go registers).                                        *)
(*                                                                         *)
(* The syncer and clients of ONVIF and the HTTP API query at the same      *)
(* time; eventListQueryMu lets one of them at a time register a response   *)
(* channel and wait.  An answer does not say which query it belongs to:    *)
(* the receiver puts it into the channel that is registered when it        *)
(* arrives.  Queries are numbered in the order in which they register.     *)
(***************************************************************************)
EXTENDS Integers, Sequences, FiniteSets

CONSTANTS
    Callers,        \* goroutines that call GetEventList
    Nobody,
    MaxQueries      \* bound: queries in a session

ASSUME QueryAssumption ==
    /\ Nobody \notin Callers
    /\ MaxQueries \in Nat \ {0}

Queries == 1 .. MaxQueries
Limit   == 3        \* timeouts in a row that make the control plane unresponsive
Places  == {"idle", "queued", "send", "wait", "judge", "clear", "unlock"}

VARIABLES
    pc,         \* of each caller
    lock,       \* who holds eventListQueryMu, or Nobody
    owner,      \* whose channel eventListChan is, or Nobody
    respChan,   \* that channel's buffer of one, holding the query answered
    asked,      \* number of queries registered; the lock holder's is the last
    timeouts,   \* consecutiveTimeouts
    session,    \* "up", "cancelled" by the handler, or "ended": Run has returned
    healthy,    \* whether video arrived in the last 5 s
    todo, wire, \* queries the camera has yet to answer; answers on their way
    outcome,    \* of each query: "none", "answer", "timeout", "cancel" or "fail"
    answer,     \* the query whose answer it was given, or 0
    clean       \* history: queries begun with nothing of an earlier one outstanding

queryVars  == <<lock, owner, respChan, asked>>
cameraVars == <<todo, wire>>
resultVars == <<outcome, answer, clean>>
vars == <<pc, queryVars, timeouts, session, healthy, cameraVars, resultVars>>

Init ==
    /\ pc = [c \in Callers |-> "idle"]
    /\ lock = Nobody /\ owner = Nobody /\ respChan = <<>> /\ asked = 0
    /\ timeouts = 0
    /\ session = "up" /\ healthy \in BOOLEAN
    /\ todo = <<>> /\ wire = <<>>
    /\ outcome = [q \in Queries |-> "none"]
    /\ answer = [q \in Queries |-> 0]
    /\ clean = {}

Goto(c, place) == pc' = [pc EXCEPT ![c] = place]
Ends(how)      == outcome' = [outcome EXCEPT ![asked] = how]

-----------------------------------------------------------------------------
\* GetEventList queues for the lock, whatever its context says meanwhile.
Call(c) ==
    /\ pc[c] = "idle"
    /\ asked < MaxQueries
    /\ Goto(c, "queued")
    /\ UNCHANGED <<queryVars, timeouts, session, healthy, cameraVars, resultVars>>

\* Its context has ended when it gets the lock: it returns at once.
Expired(c) ==
    /\ pc[c] = "queued" /\ lock = Nobody
    /\ Goto(c, "idle")
    /\ UNCHANGED <<queryVars, timeouts, session, healthy, cameraVars, resultVars>>

RegisterKeeps(c) ==     \* mutant: the response channel is made once and used again
    /\ pc[c] = "queued" /\ lock = Nobody
    /\ asked < MaxQueries
    /\ lock' = c /\ owner' = c
    /\ asked' = asked + 1
    /\ clean' = IF todo = <<>> /\ wire = <<>> THEN clean \cup {asked'} ELSE clean
    /\ Goto(c, "send")
    /\ UNCHANGED <<respChan, timeouts, session, healthy, cameraVars, outcome, answer>>

\* It takes the lock and registers a new channel.
Register(c) ==
    /\ pc[c] = "queued" /\ lock = Nobody
    /\ asked < MaxQueries
    /\ lock' = c /\ owner' = c /\ respChan' = <<>>
    /\ asked' = asked + 1
    /\ clean' = IF todo = <<>> /\ wire = <<>> THEN clean \cup {asked'} ELSE clean
    /\ Goto(c, "send")
    /\ UNCHANGED <<timeouts, session, healthy, cameraVars, outcome, answer>>

SendUnlocks(c) ==       \* mutant: the lock is held to register and send only
    /\ pc[c] = "send" /\ session # "ended"
    /\ todo' = Append(todo, asked)
    /\ lock' = Nobody
    /\ Goto(c, "wait")
    /\ UNCHANGED <<owner, respChan, asked, timeouts, session, healthy, wire, resultVars>>

Send(c) ==
    /\ pc[c] = "send" /\ session # "ended"
    /\ todo' = Append(todo, asked)
    /\ Goto(c, "wait")
    /\ UNCHANGED <<queryVars, timeouts, session, healthy, wire, resultVars>>

\* There is no DataChannel yet, or no longer.
SendFails(c) ==
    /\ pc[c] = "send"
    /\ Ends("fail")
    /\ Goto(c, "clear")
    /\ UNCHANGED <<queryVars, timeouts, session, healthy, cameraVars, answer, clean>>

\* The three cases of the select; among those that are ready Go picks any.
Answered(c) ==
    /\ pc[c] = "wait" /\ respChan # <<>>
    /\ answer' = [answer EXCEPT ![asked] = Head(respChan)]
    /\ respChan' = <<>>
    /\ timeouts' = 0
    /\ Ends("answer")
    /\ Goto(c, "clear")
    /\ UNCHANGED <<lock, owner, asked, session, healthy, cameraVars, clean>>

\* 15 s, or the deadline of the caller's context; recordTimeout finds the handler of
\* Run unless Run has returned.
TimesOut(c) ==
    /\ pc[c] = "wait"
    /\ timeouts' = timeouts + 1
    /\ Ends("timeout")
    /\ Goto(c, IF timeouts' >= Limit /\ session # "ended" THEN "judge" ELSE "clear")
    /\ UNCHANGED <<queryVars, session, healthy, cameraVars, answer, clean>>

CancelledCounts(c) ==   \* mutant: a client that goes away counts like a deadline
    /\ pc[c] = "wait"
    /\ timeouts' = timeouts + 1
    /\ Ends("cancel")
    /\ Goto(c, IF timeouts' >= Limit /\ session # "ended" THEN "judge" ELSE "clear")
    /\ UNCHANGED <<queryVars, session, healthy, cameraVars, answer, clean>>

Cancelled(c) ==
    /\ pc[c] = "wait"
    /\ Ends("cancel")
    /\ Goto(c, "clear")
    /\ UNCHANGED <<queryVars, timeouts, session, healthy, cameraVars, answer, clean>>

JudgeUnderLock(c) ==    \* mutant: m.mu is still held, which ResetTimeouts would take
    /\ pc[c] = "judge" /\ ~healthy
    /\ session' = IF session = "up" THEN "cancelled" ELSE session
    /\ Goto(c, "clear")
    /\ UNCHANGED <<queryVars, timeouts, healthy, cameraVars, resultVars>>

\* The handler: a session whose video is healthy is kept, another one cancelled.
Judge(c) ==
    /\ pc[c] = "judge"
    /\ IF healthy
       THEN timeouts' = 0 /\ UNCHANGED session
       ELSE /\ session' = IF session = "up" THEN "cancelled" ELSE session
            /\ UNCHANGED timeouts
    /\ Goto(c, "clear")
    /\ UNCHANGED <<queryVars, healthy, cameraVars, resultVars>>

\* The deferred calls: the channel is withdrawn, then the lock released.
Clear(c) ==
    /\ pc[c] = "clear"
    /\ owner' = Nobody
    /\ Goto(c, "unlock")
    /\ UNCHANGED <<lock, respChan, asked, timeouts, session, healthy, cameraVars, resultVars>>

Unlock(c) ==
    /\ pc[c] = "unlock"
    /\ lock' = Nobody
    /\ Goto(c, "idle")
    /\ UNCHANGED <<owner, respChan, asked, timeouts, session, healthy, cameraVars, resultVars>>

-----------------------------------------------------------------------------
DeliverUnchecked ==     \* mutant: the receiver waits for room instead of dropping
    /\ wire # <<>> /\ session # "ended"
    /\ wire' = Tail(wire)
    /\ respChan' = IF owner # Nobody THEN Append(respChan, Head(wire)) ELSE respChan
    /\ UNCHANGED <<pc, lock, owner, asked, timeouts, session, healthy, todo, resultVars>>

\* HandleJSONMessage: without a registered channel, or with a full one, the answer is lost.
Deliver ==
    /\ wire # <<>> /\ session # "ended"
    /\ wire' = Tail(wire)
    /\ respChan' = IF owner # Nobody /\ respChan = <<>> THEN <<Head(wire)>> ELSE respChan
    /\ UNCHANGED <<pc, lock, owner, asked, timeouts, session, healthy, todo, resultVars>>

\* The camera answers its queries in order, or leaves one out.
CameraAnswers ==
    /\ todo # <<>>
    /\ todo' = Tail(todo)
    /\ wire' = Append(wire, Head(todo)) \/ wire' = wire
    /\ UNCHANGED <<pc, queryVars, timeouts, session, healthy, resultVars>>

VideoChanges ==
    /\ session = "up"
    /\ healthy' = ~healthy
    /\ UNCHANGED <<pc, queryVars, timeouts, session, cameraVars, resultVars>>

\* Run returns, cancelled or for a reason of its own, and withdraws its handler.
RunReturns ==
    /\ session # "ended"
    /\ session' = "ended"
    /\ UNCHANGED <<pc, queryVars, timeouts, healthy, cameraVars, resultVars>>

Next ==
    \/ \E c \in Callers :
          \/ Call(c) \/ Expired(c) \/ Register(c) \/ Send(c) \/ SendFails(c)
          \/ Answered(c) \/ TimesOut(c) \/ Cancelled(c) \/ Judge(c) \/ Clear(c) \/ Unlock(c)
    \/ Deliver \/ CameraAnswers \/ VideoChanges \/ RunReturns

\* A waiting query ends by its timer; sync.Mutex hands itself to a waiter that has waited
\* for a millisecond, so none is passed over for ever.
Fairness ==
    \A c \in Callers :
        /\ SF_vars(Register(c) \/ Expired(c))
        /\ WF_vars(Send(c) \/ SendFails(c))
        /\ WF_vars(TimesOut(c) \/ Answered(c))
        /\ WF_vars(Judge(c)) /\ WF_vars(Clear(c)) /\ WF_vars(Unlock(c))

Spec == Init /\ [][Next]_vars /\ Fairness

-----------------------------------------------------------------------------
TypeOK ==
    /\ pc \in [Callers -> Places]
    /\ lock \in Callers \cup {Nobody} /\ owner \in Callers \cup {Nobody}
    /\ respChan \in Seq(Queries) /\ Len(respChan) <= 1
    /\ asked \in 0 .. MaxQueries /\ timeouts \in 0 .. MaxQueries
    /\ session \in {"up", "cancelled", "ended"} /\ healthy \in BOOLEAN
    /\ todo \in Seq(Queries) /\ wire \in Seq(Queries)
    /\ outcome \in [Queries -> {"none", "answer", "timeout", "cancel", "fail"}]
    /\ answer \in [Queries -> 0 .. MaxQueries]
    /\ clean \subseteq Queries

\* Concurrent queries do not overwrite each other's response channel: while one waits,
\* the registered channel is its own (the comment on eventListQueryMu in GetEventList).
ChannelIsOwn == \A c \in Callers : pc[c] \in {"send", "wait"} => owner = c

\* A query that begins when the camera owes nothing gets its own answer or none. (After
\* a timeout it may get the late answer to an earlier one, for another time range.)
OwnAnswerWhenClean == \A q \in clean : answer[q] \in {0, q}

\* The session is reset only with the video stalled, and after three queries ran out of
\* time with none answered since; clients that went away do not count (recordTimeout).
ResetJustified ==
    [][session = "up" /\ session' = "cancelled" =>
          /\ ~healthy
          /\ \E S \in SUBSET Queries :
                /\ Cardinality(S) = Limit
                /\ \A q \in S : outcome[q] = "timeout"
                /\ \A q \in S, r \in Queries : r > q => outcome[r] # "answer"]_vars

\* Every query returns, also one queued behind others for the lock.
QueryReturns == \A c \in Callers : pc[c] # "idle" ~> pc[c] = "idle"

=============================================================================
