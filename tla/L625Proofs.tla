----------------------------- MODULE L625Proofs -----------------------------
(***************************************************************************)
(* Machine-checked safety of the session with the L 625.                   *)
(*                                                                         *)
(* Its event list queries: the lock of GetEventList keeps each waiting     *)
(* query's response channel its own, for any number of callers and         *)
(* queries, and the session is reset only after a streak of silence.  And  *)
(* the session with the supervisor that runs one after the other: what a   *)
(* session leaves behind and what may cancel it, for any number of faults. *)
(***************************************************************************)
EXTENDS EventListQuery, L625Supervisor, SequenceTheorems, FiniteSetTheorems, TLAPS

(***************************************************************************)
(* The event list queries.                                                 *)
(***************************************************************************)
Holding == {"send", "wait", "judge", "clear", "unlock"}

\* Between Register and Unlock a caller holds eventListQueryMu, and nobody else does.
SingleFlight ==
    /\ \A c \in Callers : pc[c] \in Holding => lock = c
    /\ \A c \in Callers : lock = c => pc[c] \in Holding

\* It is the holder's channel that is registered, until the holder withdraws it.
Registered == \A c \in Callers : pc[c] \in Holding \ {"unlock"} => owner = c

\* The counter counts queries, each at most once.
Counted ==
    /\ timeouts <= asked
    /\ \A c \in Callers : pc[c] \in {"send", "wait"} => timeouts < asked

IInv == TypeOK /\ SingleFlight /\ Registered /\ Counted

Only(seq, q) == \A i \in 1 .. Len(seq) : seq[i] = q

\* What is on its way during a clean query is its own.
Owed ==
    /\ clean \subseteq 1 .. asked
    /\ \A q \in Queries : q > asked => answer[q] = 0
    /\ asked \in clean => Only(todo, asked) /\ Only(wire, asked) /\ Only(respChan, asked)

CleanInv == Owed /\ OwnAnswerWhenClean

\* A query has no outcome before it ends.
Undecided ==
    /\ \A q \in Queries : q > asked => outcome[q] = "none"
    /\ \A c \in Callers : pc[c] \in {"send", "wait"} => outcome[asked] = "none"

\* Queries that ran out of time, with none answered after any of them.
Unanswered(S) ==
    \A q \in S : outcome[q] = "timeout" /\ \A r \in Queries : r > q => outcome[r] # "answer"

\* The counter of a session that was not reset counts such queries, and reaches the limit
\* only in the hands of the caller that goes on to judge.
Streak ==
    session = "up" =>
        /\ \E S \in SUBSET Queries : Cardinality(S) = timeouts /\ Unanswered(S)
        /\ timeouts <= Limit
        /\ timeouts = Limit => \E c \in Callers : pc[c] = "judge"
        /\ \A c \in Callers : pc[c] = "judge" => timeouts = Limit

StreakInv == Undecided /\ Streak

-----------------------------------------------------------------------------
\* IInv holds when the session starts.
LEMMA InitIInv == Init => IInv
BY QueryAssumption DEF Init, IInv, TypeOK, SingleFlight, Registered, Counted, Holding, Places

\* IInv is preserved: the call queues for the lock only.
LEMMA CallKeeps ==
    ASSUME IInv, NEW c \in Callers, Call(c)
    PROVE  IInv'
<1> USE QueryAssumption DEF IInv, TypeOK, Call
<1>1. TypeOK'
  BY DEF Goto, queryVars, cameraVars, resultVars, Places
<1>2. SingleFlight'
  BY DEF Goto, queryVars, SingleFlight, Holding
<1>3. Registered'
  BY DEF Goto, queryVars, Registered, Holding
<1>4. Counted'
  BY DEF Goto, queryVars, Counted
<1> QED
  BY <1>1, <1>2, <1>3, <1>4

\* IInv is preserved: an expired call has registered nothing.
LEMMA ExpiredKeeps ==
    ASSUME IInv, NEW c \in Callers, Expired(c)
    PROVE  IInv'
<1> USE QueryAssumption DEF IInv, TypeOK, Expired
<1>1. TypeOK'
  BY DEF Goto, queryVars, cameraVars, resultVars, Places
<1>2. SingleFlight'
  BY DEF Goto, queryVars, SingleFlight, Holding
<1>3. Registered'
  BY DEF Goto, Registered, SingleFlight, Holding
<1>4. Counted'
  BY DEF Goto, queryVars, Counted
<1> QED
  BY <1>1, <1>2, <1>3, <1>4

\* IInv is preserved: only the caller that finds the lock free registers.
LEMMA RegisteringKeeps ==
    ASSUME IInv, NEW c \in Callers, Register(c)
    PROVE  IInv'
<1> USE QueryAssumption DEF IInv, TypeOK, Register
<1>1. TypeOK'
  BY DEF Goto, cameraVars, Queries, Places
<1>2. SingleFlight'
  BY DEF Goto, SingleFlight, Holding
<1>3. Registered'
  BY DEF Goto, Registered, SingleFlight
<1>4. Counted'
  BY DEF Counted
<1> QED
  BY <1>1, <1>2, <1>3, <1>4

\* IInv is preserved: the request was numbered when its caller registered.
LEMMA SendKeeps ==
    ASSUME IInv, NEW c \in Callers, Send(c)
    PROVE  IInv'
<1> USE QueryAssumption DEF IInv, TypeOK, Send
<1>1. TypeOK'
  BY DEF Goto, queryVars, resultVars, Counted, Queries, Places
<1>2. SingleFlight'
  BY DEF Goto, queryVars, SingleFlight, Holding
<1>3. Registered'
  BY DEF Goto, queryVars, Registered, Holding
<1>4. Counted'
  BY DEF queryVars, Counted
<1> QED
  BY <1>1, <1>2, <1>3, <1>4

\* IInv is preserved: a failed send still ends through the deferred calls.
LEMMA SendFailsKeeps ==
    ASSUME IInv, NEW c \in Callers, SendFails(c)
    PROVE  IInv'
<1> USE QueryAssumption DEF IInv, TypeOK, SendFails
<1>1. TypeOK'
  BY DEF Goto, queryVars, cameraVars, Ends, Places
<1>2. SingleFlight'
  BY DEF Goto, queryVars, SingleFlight, Holding
<1>3. Registered'
  BY DEF Goto, queryVars, Registered, Holding
<1>4. Counted'
  BY DEF queryVars, Counted
<1> QED
  BY <1>1, <1>2, <1>3, <1>4

\* IInv is preserved: an answer resets the counter.
LEMMA AnsweredKeeps ==
    ASSUME IInv, NEW c \in Callers, Answered(c)
    PROVE  IInv'
<1> USE QueryAssumption DEF IInv, TypeOK, Answered
<1>1. TypeOK'
  BY DEF Goto, queryVars, cameraVars, resultVars, SingleFlight, Counted, Holding, Limit,
     Ends, Queries, Places
<1>2. SingleFlight'
  BY DEF Goto, SingleFlight, Holding
<1>3. Registered'
  BY DEF Goto, Registered, Holding
<1>4. Counted'
  BY DEF Counted
<1> QED
  BY <1>1, <1>2, <1>3, <1>4

\* IInv is preserved: each query counts at most once.
LEMMA TimesOutKeeps ==
    ASSUME IInv, NEW c \in Callers, TimesOut(c)
    PROVE  IInv'
<1> USE QueryAssumption DEF IInv, TypeOK, TimesOut
<1>1. TypeOK'
  BY DEF Goto, queryVars, cameraVars, Counted, Ends, Queries, Places
<1>2. SingleFlight'
  BY DEF Goto, queryVars, SingleFlight, Holding
<1>3. Registered'
  BY DEF Goto, queryVars, Registered, Holding
<1>4. Counted'
  BY DEF Goto, queryVars, Counted, SingleFlight, Holding
<1> QED
  BY <1>1, <1>2, <1>3, <1>4

\* IInv is preserved: nothing is counted.
LEMMA CancelledKeeps ==
    ASSUME IInv, NEW c \in Callers, Cancelled(c)
    PROVE  IInv'
<1> USE QueryAssumption DEF IInv, TypeOK, Cancelled
<1>1. TypeOK'
  BY DEF Goto, queryVars, cameraVars, Ends, Places
<1>2. SingleFlight'
  BY DEF Goto, queryVars, SingleFlight, Holding
<1>3. Registered'
  BY DEF Goto, queryVars, Registered, Holding
<1>4. Counted'
  BY DEF queryVars, Counted
<1> QED
  BY <1>1, <1>2, <1>3, <1>4

\* IInv is preserved: the handler keeps the channel registered.
LEMMA JudgeKeeps ==
    ASSUME IInv, NEW c \in Callers, Judge(c)
    PROVE  IInv'
<1> USE QueryAssumption DEF IInv, TypeOK, Judge
<1>1. TypeOK'
  BY DEF Goto, queryVars, cameraVars, resultVars, Places
<1>2. SingleFlight'
  BY DEF Goto, queryVars, SingleFlight, Holding
<1>3. Registered'
  BY DEF Goto, queryVars, Registered, Holding
<1>4. Counted'
  BY DEF Goto, queryVars, Counted
<1> QED
  BY <1>1, <1>2, <1>3, <1>4

\* IInv is preserved: the holder withdraws its own channel.
LEMMA ClearKeeps ==
    ASSUME IInv, NEW c \in Callers, Clear(c)
    PROVE  IInv'
<1> USE QueryAssumption DEF IInv, TypeOK, Clear
<1>1. TypeOK'
  BY DEF Goto, cameraVars, resultVars, Places
<1>2. SingleFlight'
  BY DEF Goto, SingleFlight, Holding
<1>3. Registered'
  BY DEF Goto, Registered, Holding
<1>4. Counted'
  BY DEF Goto, Counted
<1> QED
  BY <1>1, <1>2, <1>3, <1>4

\* IInv is preserved: the holder releases the lock last.
LEMMA UnlockKeeps ==
    ASSUME IInv, NEW c \in Callers, Unlock(c)
    PROVE  IInv'
<1> USE QueryAssumption DEF IInv, TypeOK, Unlock
<1>1. TypeOK'
  BY DEF Goto, cameraVars, resultVars, Places
<1>2. SingleFlight'
  BY DEF Goto, SingleFlight, Holding
<1>3. Registered'
  BY DEF Goto, Registered, Holding
<1>4. Counted'
  BY DEF Goto, Counted
<1> QED
  BY <1>1, <1>2, <1>3, <1>4

\* IInv is preserved: the receiver fills a buffer of one.
LEMMA DeliverKeeps ==
    ASSUME IInv, Deliver
    PROVE  IInv'
<1> USE QueryAssumption DEF IInv, TypeOK, Deliver
<1>1. TypeOK'
  <2>1. wire # <<>> => Head(wire) \in Queries /\ Tail(wire) \in Seq(Queries)
    BY HeadTailProperties
  <2>2. wire' \in Seq(Queries) /\ respChan' \in Seq(Queries) /\ Len(respChan') <= 1
    BY <2>1
  <2> QED
    BY <2>2 DEF resultVars
<1>2. SingleFlight'
  BY DEF SingleFlight
<1>3. Registered'
  BY DEF Registered
<1>4. Counted'
  BY DEF Counted
<1> QED
  BY <1>1, <1>2, <1>3, <1>4

\* IInv is preserved: the camera answers what was asked.
LEMMA CameraAnswersKeeps ==
    ASSUME IInv, CameraAnswers
    PROVE  IInv'
<1> USE QueryAssumption DEF IInv, TypeOK, CameraAnswers
<1>1. TypeOK'
  <2>1. Head(todo) \in Queries /\ Tail(todo) \in Seq(Queries)
    BY HeadTailProperties
  <2>2. Append(wire, Head(todo)) \in Seq(Queries)
    BY <2>1, AppendProperties
  <2>3. todo' \in Seq(Queries) /\ wire' \in Seq(Queries)
    BY <2>1, <2>2
  <2> QED
    BY <2>3 DEF queryVars, resultVars
<1>2. SingleFlight'
  BY DEF queryVars, SingleFlight
<1>3. Registered'
  BY DEF queryVars, Registered
<1>4. Counted'
  BY DEF queryVars, Counted
<1> QED
  BY <1>1, <1>2, <1>3, <1>4

\* IInv is preserved: video does not touch the queries.
LEMMA VideoChangesKeeps ==
    ASSUME IInv, VideoChanges
    PROVE  IInv'
<1> USE QueryAssumption DEF IInv, TypeOK, VideoChanges
<1>1. TypeOK'
  BY DEF queryVars, cameraVars, resultVars
<1>2. SingleFlight'
  BY DEF queryVars, SingleFlight
<1>3. Registered'
  BY DEF queryVars, Registered
<1>4. Counted'
  BY DEF queryVars, Counted
<1> QED
  BY <1>1, <1>2, <1>3, <1>4

\* IInv is preserved: the end of the session leaves the queries to their timers.
LEMMA RunReturnsKeeps ==
    ASSUME IInv, RunReturns
    PROVE  IInv'
<1> USE QueryAssumption DEF IInv, TypeOK, RunReturns
<1>1. TypeOK'
  BY DEF queryVars, cameraVars, resultVars
<1>2. SingleFlight'
  BY DEF queryVars, SingleFlight
<1>3. Registered'
  BY DEF queryVars, Registered
<1>4. Counted'
  BY DEF queryVars, Counted
<1> QED
  BY <1>1, <1>2, <1>3, <1>4

-----------------------------------------------------------------------------
\* IInv is inductive: every action preserves it.
LEMMA NextIInv == IInv /\ [Next]_vars => IInv'
<1> SUFFICES ASSUME IInv, [Next]_vars PROVE IInv'
  OBVIOUS
<1>1. ASSUME NEW c \in Callers,
             Call(c) \/ Expired(c) \/ Register(c) \/ Send(c) \/ SendFails(c)
      PROVE  IInv'
  BY <1>1, CallKeeps, ExpiredKeeps, RegisteringKeeps, SendKeeps, SendFailsKeeps
<1>2. ASSUME NEW c \in Callers,
             Answered(c) \/ TimesOut(c) \/ Cancelled(c) \/ Judge(c) \/ Clear(c) \/ Unlock(c)
      PROVE  IInv'
  BY <1>2, AnsweredKeeps, TimesOutKeeps, CancelledKeeps, JudgeKeeps, ClearKeeps, UnlockKeeps
<1>3. CASE Deliver \/ CameraAnswers \/ VideoChanges \/ RunReturns
  BY <1>3, DeliverKeeps, CameraAnswersKeeps, VideoChangesKeeps, RunReturnsKeeps
<1>4. CASE UNCHANGED vars
  BY <1>4 DEF vars, queryVars, cameraVars, resultVars, IInv, TypeOK, SingleFlight,
     Registered, Counted
<1> QED
  BY <1>1, <1>2, <1>3, <1>4 DEF Next

\* The queries never leave IInv.
LEMMA Invariance == Spec => []IInv
BY InitIInv, NextIInv, PTL DEF Spec

-----------------------------------------------------------------------------
\* A sequence of one value stays one when it loses its head or gains that value.
LEMMA OnlyKept ==
    ASSUME NEW S, NEW seq \in Seq(S), NEW q, Only(seq, q)
    PROVE  /\ seq # <<>> => Head(seq) = q /\ Only(Tail(seq), q)
           /\ q \in S => Only(Append(seq, q), q)
BY DEF Only

\* CleanInv is kept: only Register begins a query, and a clean one begins with nothing on
\* its way; whatever moves between the queues was there or belongs to the query.
LEMMA CleanKept ==
    ASSUME IInv, CleanInv, [Next]_vars
    PROVE  CleanInv'
<1> USE DEF CleanInv, Owed, OwnAnswerWhenClean, IInv, TypeOK
<1>1. ASSUME NEW c \in Callers, Register(c) PROVE CleanInv'
  <2>1. asked' = asked + 1 /\ asked' \notin clean /\ respChan' = <<>> /\ answer' = answer
    BY <1>1 DEF Register
  <2>2. CASE todo = <<>> /\ wire = <<>>
    <3>1. Only(todo', asked') /\ Only(wire', asked') /\ Only(respChan', asked')
      BY <1>1, <2>1, <2>2 DEF Register, Only, cameraVars
    <3>2. answer'[asked'] = 0 /\ asked' \in Queries /\ clean' = clean \cup {asked'}
      BY <1>1, <2>1, <2>2, QueryAssumption DEF Register, Queries
    <3> QED
      BY <2>1, <3>1, <3>2 DEF Queries
  <2>3. CASE ~(todo = <<>> /\ wire = <<>>)
    BY <1>1, <2>1, <2>3 DEF Register, Queries
  <2> QED
    BY <2>2, <2>3
<1>2. ASSUME NEW c \in Callers, Send(c) PROVE CleanInv'
  BY <1>2, OnlyKept, QueryAssumption DEF Send, queryVars, resultVars, Queries
<1>3. ASSUME NEW c \in Callers, Answered(c) PROVE CleanInv'
  BY <1>3, OnlyKept DEF Answered, cameraVars, Only, Queries
<1>4. CASE Deliver
  BY <1>4, OnlyKept DEF Deliver, resultVars, Only
<1>5. CASE CameraAnswers
  <2>1. asked \in clean => Head(todo) = asked /\ Only(todo', asked)
    <3> SUFFICES ASSUME asked \in clean PROVE Head(todo) = asked /\ Only(todo', asked)
      OBVIOUS
    <3>1. todo # <<>> /\ todo' = Tail(todo) /\ Only(todo, asked) /\ todo \in Seq(Queries)
      BY <1>5 DEF CameraAnswers
    <3> QED
      BY <3>1, OnlyKept
  <2>2. asked \in clean => Only(wire', asked)
    <3> SUFFICES ASSUME asked \in clean PROVE Only(wire', asked)
      OBVIOUS
    <3>1. wire' = Append(wire, asked) \/ wire' = wire
      BY <1>5, <2>1 DEF CameraAnswers
    <3>2. asked \in Queries /\ wire \in Seq(Queries) /\ Only(wire, asked)
      OBVIOUS
    <3>3. Only(Append(wire, asked), asked)
      BY <3>2, OnlyKept
    <3> QED
      BY <3>1, <3>2, <3>3
  <2> QED
    BY <1>5, <2>1, <2>2 DEF CameraAnswers, queryVars, resultVars
<1>6. CASE UNCHANGED <<clean, asked, todo, wire, respChan, answer>>
  BY <1>6
<1>7. ASSUME NEW c \in Callers,
             \/ Call(c) \/ Expired(c) \/ SendFails(c) \/ TimesOut(c) \/ Cancelled(c) \/ Judge(c)
             \/ Clear(c) \/ Unlock(c)
      PROVE  UNCHANGED <<clean, asked, todo, wire, respChan, answer>>
  BY <1>7 DEF Call, Expired, SendFails, TimesOut, Cancelled, Judge, Clear, Unlock, queryVars,
     cameraVars, resultVars
<1>8. ASSUME VideoChanges \/ RunReturns \/ UNCHANGED vars
      PROVE  UNCHANGED <<clean, asked, todo, wire, respChan, answer>>
  BY <1>8 DEF VideoChanges, RunReturns, vars, queryVars, cameraVars, resultVars
<1> QED
  BY <1>1, <1>2, <1>3, <1>4, <1>5, <1>6, <1>7, <1>8 DEF Next

-----------------------------------------------------------------------------
\* Queries that timed out stay so when the query under way, undecided yet, ends without an
\* answer, and together with it when it times out.
LEMMA OutcomesStay ==
    ASSUME IInv, StreakInv, NEW c \in Callers, pc[c] \in {"send", "wait"},
           NEW how \in {"timeout", "cancel", "fail"}, Ends(how), UNCHANGED asked,
           NEW S \in SUBSET Queries, Unanswered(S)
    PROVE  /\ Unanswered(S)' /\ asked \notin S
           /\ how = "timeout" => Unanswered(S \cup {asked})'
           /\ \A q \in Queries : q > asked => outcome'[q] = "none"
<1>1. asked \in Queries /\ outcome[asked] = "none"
  BY QueryAssumption DEF StreakInv, Undecided, IInv, TypeOK, Counted, Queries
<1>2. \A q \in Queries : outcome'[q] = IF q = asked THEN how ELSE outcome[q]
  BY <1>1 DEF Ends, IInv, TypeOK
<1>3. \A q \in Queries : q > asked => outcome[q] = "none" /\ q # asked
  BY <1>1 DEF StreakInv, Undecided, Queries
<1>4. asked \notin S
  BY <1>1 DEF Unanswered
<1>5. \A q \in S : q # asked /\ outcome'[q] = "timeout"
  BY <1>2, <1>4 DEF Unanswered
<1>6. \A q \in S, r \in Queries : r > q => outcome'[r] # "answer"
  BY <1>2 DEF Unanswered
<1>7. \A r \in Queries : r > asked => outcome'[r] = "none"
  BY <1>2, <1>3
<1>8. how = "timeout" => outcome'[asked] = "timeout"
  BY <1>1, <1>2
<1>9. Unanswered(S)'
  BY <1>5, <1>6 DEF Unanswered
<1>10. how = "timeout" => Unanswered(S \cup {asked})'
  BY <1>5, <1>6, <1>7, <1>8 DEF Unanswered, Ends
<1> QED
  BY <1>4, <1>7, <1>9, <1>10

\* Nobody else is between Register and Unlock.
LEMMA Alone ==
    ASSUME IInv, NEW c \in Callers, NEW d \in Callers, pc[c] \in Holding, pc[d] \in Holding
    PROVE  c = d
BY DEF IInv, SingleFlight

\* StreakInv is kept: a counted timeout adds its query to those before it, an answer and a
\* verdict for healthy video begin anew.
LEMMA StreakKept ==
    ASSUME IInv, StreakInv, [Next]_vars
    PROVE  StreakInv'
<1>1. ASSUME NEW c \in Callers, Register(c) PROVE StreakInv'
  <2>1. \A d \in Callers : pc[d] \notin Holding
    BY <1>1, QueryAssumption DEF Register, IInv, SingleFlight
  <2>2. \A d \in Callers : pc'[d] = IF d = c THEN "send" ELSE pc[d]
    BY <1>1 DEF Register, Goto, IInv, TypeOK
  <2>3. asked' = asked + 1 /\ asked' \in Queries /\ asked \in Nat
    BY <1>1, QueryAssumption DEF Register, IInv, TypeOK, Queries
  <2>4. Undecided'
    BY <1>1, <2>1, <2>2, <2>3 DEF Register, Undecided, StreakInv, Holding, Queries
  <2>5. Streak'
    BY <1>1, <2>1, <2>2 DEF Register, Streak, StreakInv, Holding, Unanswered
  <2> QED
    BY <2>4, <2>5 DEF StreakInv
<1>2. ASSUME NEW c \in Callers, SendFails(c) \/ Cancelled(c) PROVE StreakInv'
  <2>1. PICK how \in {"fail", "cancel"} : Ends(how)
    BY <1>2 DEF SendFails, Cancelled
  <2>2. pc[c] \in {"send", "wait"} /\ pc' = [pc EXCEPT ![c] = "clear"]
    BY <1>2 DEF SendFails, Cancelled, Goto
  <2>3. UNCHANGED <<asked, timeouts, session>>
    BY <1>2 DEF SendFails, Cancelled, queryVars
  <2>4. \A d \in Callers : pc'[d] \notin {"send", "wait", "judge"} /\ pc[d] # "judge"
    BY <2>2, Alone DEF IInv, TypeOK, Holding
  <2>5. Unanswered({}) /\ {} \in SUBSET Queries
    BY DEF Unanswered
  <2>6. Undecided'
    BY <2>1, <2>2, <2>3, <2>4, <2>5, OutcomesStay DEF Undecided
  <2>7. \A S \in SUBSET Queries : Unanswered(S) => Unanswered(S)'
    BY <2>1, <2>2, <2>3, OutcomesStay
  <2>8. Streak'
    BY <2>3, <2>4, <2>7 DEF Streak, StreakInv
  <2> QED
    BY <2>6, <2>8 DEF StreakInv
<1>3. ASSUME NEW c \in Callers, Answered(c) PROVE StreakInv'
  <2>1. Unanswered({})' /\ Cardinality({}) = 0
    BY FS_EmptySet DEF Unanswered
  <2>2. timeouts' = 0 /\ asked' = asked
    BY <1>3 DEF Answered
  <2>3. \A d \in Callers : pc'[d] \notin {"send", "wait", "judge"}
    BY <1>3, Alone DEF Answered, Goto, IInv, TypeOK, Holding
  <2>4. \A q \in Queries : q > asked => outcome'[q] = outcome[q]
    BY <1>3 DEF Answered, Ends, IInv, TypeOK, Queries
  <2>5. Undecided'
    BY <2>2, <2>3, <2>4 DEF Undecided, StreakInv
  <2>6. Streak'
    BY <2>1, <2>2, <2>3 DEF Streak, Limit
  <2> QED
    BY <2>5, <2>6 DEF StreakInv
<1>4. ASSUME NEW c \in Callers, TimesOut(c) PROVE StreakInv'
  <2>1. /\ pc[c] = "wait" /\ Ends("timeout") /\ timeouts' = timeouts + 1
        /\ UNCHANGED <<asked, session>>
    BY <1>4 DEF TimesOut, queryVars
  <2>2. \A d \in Callers : d # c => pc[d] \notin Holding
    BY <2>1, Alone DEF Holding
  <2>3. \A d \in Callers : d # c => pc'[d] = pc[d]
    BY <1>4 DEF TimesOut, Goto, IInv, TypeOK
  <2>4. pc'[c] = IF timeouts' >= Limit /\ session # "ended" THEN "judge" ELSE "clear"
    BY <1>4 DEF TimesOut, Goto, IInv, TypeOK
  <2>5. Unanswered({}) /\ {} \in SUBSET Queries
    BY DEF Unanswered
  <2>6. Undecided'
    BY <2>1, <2>2, <2>3, <2>4, <2>5, OutcomesStay DEF Undecided, Holding
  <2>7. ASSUME session = "up" PROVE Streak'
    <3>1. PICK S \in SUBSET Queries : Cardinality(S) = timeouts /\ Unanswered(S)
      BY <2>7 DEF StreakInv, Streak
    <3>2. Unanswered(S \cup {asked})' /\ asked \notin S /\ asked \in Queries
      <4>1. Unanswered(S \cup {asked})' /\ asked \notin S
        BY <2>1, <3>1, OutcomesStay
      <4>2. asked \in Queries
        BY <2>1, QueryAssumption DEF IInv, TypeOK, Counted, Queries
      <4> QED
        BY <4>1, <4>2
    <3>3. IsFiniteSet(S)
      <4>1. IsFiniteSet(Queries)
        BY FS_Interval, QueryAssumption DEF Queries
      <4> QED
        BY <4>1, FS_Subset
    <3>4. Cardinality(S \cup {asked}) = timeouts'
      BY <2>1, <3>1, <3>2, <3>3, FS_AddElement
    <3>5. timeouts \in Nat /\ timeouts < Limit
      BY <2>1, <2>2, <2>7 DEF StreakInv, Streak, Holding, Limit, IInv, TypeOK
    <3>6. timeouts' <= Limit /\ (timeouts' = Limit <=> pc'[c] = "judge")
      BY <2>1, <2>4, <2>7, <3>5 DEF Limit
    <3>7. \A d \in Callers : d # c => pc'[d] # "judge"
      BY <2>2, <2>3 DEF Holding
    <3>8. S \cup {asked} \in SUBSET Queries
      BY <3>2
    <3>9. \E R \in SUBSET Queries : Cardinality(R) = timeouts' /\ Unanswered(R)'
      BY <2>1, <3>2, <3>4, <3>8 DEF Unanswered
    <3> QED
      BY <3>6, <3>7, <3>9 DEF Streak
  <2>8. Streak'
    BY <2>1, <2>7 DEF Streak
  <2> QED
    BY <2>6, <2>8 DEF StreakInv
<1>5. ASSUME NEW c \in Callers, Judge(c) PROVE StreakInv'
  <2>1. /\ pc[c] = "judge" /\ pc' = [pc EXCEPT ![c] = "clear"]
        /\ UNCHANGED <<asked, outcome>>
    BY <1>5 DEF Judge, Goto, queryVars, resultVars
  <2>2. \A d \in Callers : pc'[d] \notin {"send", "wait", "judge"}
    BY <2>1, Alone DEF IInv, TypeOK, Holding
  <2>3. session' = "up" => timeouts' = 0
    BY <1>5 DEF Judge, IInv, TypeOK
  <2>4. Unanswered({})' /\ Cardinality({}) = 0
    BY FS_EmptySet DEF Unanswered
  <2>5. Undecided' /\ Streak'
    BY <2>1, <2>2, <2>3, <2>4 DEF Undecided, Streak, StreakInv, Limit
  <2> QED
    BY <2>5 DEF StreakInv
<1>6. ASSUME NEW c \in Callers,
             Call(c) \/ Expired(c) \/ Send(c) \/ Clear(c) \/ Unlock(c)
      PROVE  StreakInv'
  <2>1. UNCHANGED <<asked, outcome, timeouts, session>>
    BY <1>6 DEF Call, Expired, Send, Clear, Unlock, queryVars, resultVars
  <2>2. \A d \in Callers : /\ pc'[d] = "judge" <=> pc[d] = "judge"
                           /\ pc'[d] \in {"send", "wait"} => pc[d] \in {"send", "wait"}
    BY <1>6 DEF Call, Expired, Send, Clear, Unlock, Goto, IInv, TypeOK
  <2>3. Undecided'
    BY <2>1, <2>2 DEF Undecided, StreakInv
  <2>4. Streak'
    BY <2>1, <2>2 DEF Streak, StreakInv, Unanswered
  <2> QED
    BY <2>3, <2>4 DEF StreakInv
<1>7. ASSUME Deliver \/ CameraAnswers \/ VideoChanges \/ RunReturns \/ UNCHANGED vars
      PROVE  StreakInv'
  <2>1. UNCHANGED <<pc, asked, outcome, timeouts>> /\ (session' = "up" => session = "up")
    BY <1>7 DEF Deliver, CameraAnswers, VideoChanges, RunReturns, vars, queryVars, resultVars
  <2>2. Undecided' /\ Streak'
    BY <2>1 DEF Undecided, Streak, StreakInv, Unanswered
  <2> QED
    BY <2>2 DEF StreakInv
<1> QED
  BY <1>1, <1>2, <1>3, <1>4, <1>5, <1>6, <1>7 DEF Next

\* Only the judging caller resets, with a full count and without video.
LEMMA ResetStep ==
    ASSUME IInv, StreakInv, [Next]_vars, session = "up", session' = "cancelled"
    PROVE  /\ ~healthy
           /\ \E S \in SUBSET Queries : Cardinality(S) = Limit /\ Unanswered(S)
<1>1. PICK c \in Callers : Judge(c)
  BY DEF Next, Call, Expired, Register, Send, SendFails, Answered, TimesOut, Cancelled, Clear,
     Unlock, Deliver, CameraAnswers, VideoChanges, RunReturns, vars
<1>2. ~healthy /\ timeouts = Limit
  BY <1>1 DEF Judge, StreakInv, Streak
<1> QED
  BY <1>2 DEF StreakInv, Streak

\* The types of the variables are kept, and the buffer of a response channel holds at
\* most one answer (HandleJSONMessage drops what does not fit).
THEOREM TypeCorrect == Spec => []TypeOK
<1>1. IInv => TypeOK
  BY DEF IInv
<1> QED
  BY <1>1, Invariance, PTL

\* While a query waits, the registered response channel is its own, however many
\* callers compete and however their queries end (eventListQueryMu in GetEventList).
THEOREM OwnChannel == Spec => []ChannelIsOwn
<1>1. IInv => ChannelIsOwn
  BY DEF IInv, Registered, Holding, ChannelIsOwn
<1> QED
  BY <1>1, Invariance, PTL

\* A query that begins when nothing is owed to an earlier one is given its own answer or
\* none, though answers do not say what they answer (HandleJSONMessage).
THEOREM AnswersAreOwn == Spec => []OwnAnswerWhenClean
<1>1. Init => CleanInv
  BY DEF Init, CleanInv, Owed, OwnAnswerWhenClean
<1>2. CleanInv => OwnAnswerWhenClean
  BY DEF CleanInv
<1> QED
  BY <1>1, <1>2, CleanKept, Invariance, PTL DEF Spec

\* The session is reset only with the video stalled and after three queries ran out of time
\* with none answered since, for any callers that go away in between (recordTimeout).
THEOREM ResetsJustified == Spec => ResetJustified
<1>1. Init => StreakInv
  <2>1. Cardinality({}) = 0
    BY FS_EmptySet
  <2> QED
    BY <2>1 DEF Init, StreakInv, Undecided, Streak, Unanswered, Limit
<1>2. ASSUME IInv, StreakInv, [Next]_vars
      PROVE  [session = "up" /\ session' = "cancelled" =>
                /\ ~healthy
                /\ \E S \in SUBSET Queries :
                      /\ Cardinality(S) = Limit
                      /\ \A q \in S : outcome[q] = "timeout"
                      /\ \A q \in S, r \in Queries : r > q => outcome[r] # "answer"]_vars
  BY <1>2, ResetStep DEF Unanswered
<1> QED
  BY <1>1, <1>2, StreakKept, Invariance, PTL DEF Spec, ResetJustified

-----------------------------------------------------------------------------
(***************************************************************************)
(* The supervisor and its session.  The grace timer m.timer holds runs     *)
(* only while ICE is disconnected, a timer m.timer has lost only in a      *)
(* session that is given up, and Run passes pc.Close on every way out.     *)
(***************************************************************************)
Closing ==
    /\ run \in {"unwound", "off"} => peer # "open"
    /\ ice = "closed" => ~timer /\ ~clock
    /\ clock => timer /\ ice = "down"
    /\ stray > 0 => cancelled \/ over > 0

SupInv == SupTypeOK /\ Closing

\* SupInv holds before the first session.
LEMMA SupStarts == SupInit => SupInv
<1> SUFFICES ASSUME SupInit PROVE SupInv
  OBVIOUS
<1>1. 0 \in 0 .. MaxFaults /\ 0 \in 0 .. 0 /\ <<>> \in Seq(Messages)
  BY SessionAssumption
<1> QED
  BY <1>1
  DEF SupInit, SessionInit, SupInv, SupTypeOK, RunTypes, PeerTypes, DriverTypes, Closing, RunPlaces

\* The budget of faults, and what the session's messages are.
LEMMA FaultSteps ==
    ASSUME SupTypeOK, Fault \/ NoFault
    PROVE  faults' \in 0 .. MaxFaults /\ had \in 0 .. faults'
BY SessionAssumption DEF SupTypeOK, RunTypes, PeerTypes, DriverTypes, Fault, NoFault

LEMMA InboxSteps ==
    ASSUME SupTypeOK
    PROVE  /\ Read => inbox' \in Seq(Messages)
           /\ \A m \in Messages :
                Answers(m) => inbox' \in Seq(Messages) /\ (Fault \/ NoFault)
<1>1. "junk" \in Messages
  BY DEF Messages
<1>2. inbox \in Seq(Messages)
  BY DEF SupTypeOK, RunTypes, PeerTypes, DriverTypes
<1>3. \A m \in Messages : Append(inbox, m) \in Seq(Messages)
  BY <1>2
<1>4. inbox # <<>> => Tail(inbox) \in Seq(Messages)
  BY <1>2
<1> QED
  BY <1>1, <1>2, <1>3, <1>4 DEF Read, Answers

\* Whoever of the session runs, runs inside the supervisor's call.
LEMMA InsideRun ==
    ASSUME SupInv, UNCHANGED supVars, run # "off"
    PROVE  sup' = "run" /\ UNCHANGED <<sup, failures, active, lasted>>
BY DEF SupInv, SupTypeOK, RunTypes, PeerTypes, DriverTypes, supVars

\* SupInv is preserved by the signalling of Run up to its loop.
LEMMA SignallingKeeps ==
    ASSUME SupInv, UNCHANGED had, UNCHANGED supVars,
           TurnRequest \/ TurnResponse \/ NewPeerConnection \/ HoldPeer \/ CreateOffer
               \/ Gathered \/ SendOffer
    PROVE  SupInv'
<1> USE DEF At, To, peerVars, iceVars, mediaVars, chanVars
<1>1. /\ run \notin {"off", "unwound"} /\ run' \in RunPlaces \ {"off", "unwound"}
      /\ UNCHANGED <<stop, stopChan, cancelled, ctxDone, iceVars, video, track, stream>>
  BY DEF TurnRequest, TurnResponse, NewPeerConnection, HoldPeer, CreateOffer, Gathered, SendOffer,
         RunPlaces
<1>2. UNCHANGED faults \/ Fault
  BY InboxSteps
  DEF TurnRequest, TurnResponse, NewPeerConnection, HoldPeer, CreateOffer, Gathered, SendOffer,
      SupInv, Messages, NoFault, Answers
<1>3. inbox' \in Seq(Messages)
  <2>1. {"turn", "answer"} \subseteq Messages /\ inbox \in Seq(Messages)
    BY DEF Messages, SupInv, SupTypeOK, RunTypes, PeerTypes, DriverTypes
  <2> QED
    BY <2>1, InboxSteps
    DEF TurnRequest, TurnResponse, NewPeerConnection, HoldPeer, CreateOffer, Gathered, SendOffer,
        SupInv
<1>4. /\ peer' \in {"none", "open", "closed"} /\ sig' \in {"stable", "local", "remote"}
      /\ held' \in BOOLEAN /\ dc' \in {"new", "open"} /\ watch' \in {"off", "grace", "tick"}
  BY DEF TurnRequest, TurnResponse, NewPeerConnection, HoldPeer, CreateOffer, Gathered, SendOffer,
         SupInv, SupTypeOK, RunTypes, PeerTypes, DriverTypes
<1>5. faults' \in 0 .. MaxFaults /\ had' \in 0 .. faults'
  BY <1>2, FaultSteps DEF SupInv, NoFault
<1>6. sup' = "run" /\ UNCHANGED <<sup, failures, active, lasted>>
  BY <1>1, InsideRun
<1> QED
  BY <1>1, <1>3, <1>4, <1>5, <1>6 DEF SupInv, SupTypeOK, RunTypes, PeerTypes, DriverTypes, Closing

\* SupInv is preserved by the loop.
LEMMA LoopKeeps ==
    ASSUME SupInv, UNCHANGED had, UNCHANGED supVars, LoopTop \/ ReadSignal \/ AnswerOffer
    PROVE  SupInv'
<1> USE DEF At, To, peerVars, iceVars, mediaVars, chanVars
<1>1. /\ run \notin {"off", "unwound"} /\ run' \in RunPlaces \ {"off", "unwound"}
      /\ UNCHANGED <<stop, stopChan, cancelled, ctxDone, peer, held, dc, iceVars, video, watch,
                     stream, faults>>
  <2>1. CASE LoopTop
    BY <2>1 DEF LoopTop, RunPlaces
  <2>2. CASE ReadSignal
    BY <2>2 DEF ReadSignal, RunPlaces
  <2>3. CASE AnswerOffer
    BY <2>3 DEF AnswerOffer, RunPlaces
  <2> QED
    BY <2>1, <2>2, <2>3
<1>2. sig' \in {"stable", "local", "remote"} /\ track' \in BOOLEAN
  <2>1. CASE LoopTop
    BY <2>1 DEF LoopTop, SupInv, SupTypeOK, RunTypes, PeerTypes, DriverTypes
  <2>2. CASE ReadSignal
    BY <2>2 DEF ReadSignal, SupInv, SupTypeOK, RunTypes, PeerTypes, DriverTypes
  <2>3. CASE AnswerOffer
    BY <2>3 DEF AnswerOffer, SupInv, SupTypeOK, RunTypes, PeerTypes, DriverTypes
  <2> QED
    BY <2>1, <2>2, <2>3
<1>3. inbox' \in Seq(Messages)
  BY InboxSteps
  DEF LoopTop, ReadSignal, AnswerOffer, SupInv, SupTypeOK, RunTypes, PeerTypes, DriverTypes
<1>4. faults' \in 0 .. MaxFaults /\ had' \in 0 .. faults'
  BY <1>1 DEF SupInv, SupTypeOK, RunTypes, PeerTypes, DriverTypes
<1>5. sup' = "run" /\ UNCHANGED <<sup, failures, active, lasted>>
  BY <1>1, InsideRun
<1> QED
  BY <1>1, <1>2, <1>3, <1>4, <1>5 DEF SupInv, SupTypeOK, RunTypes, PeerTypes, DriverTypes, Closing

\* SupInv is preserved by Run's deferred calls, the second of which closes the peer connection.
LEMMA ReturnKeeps ==
    ASSUME SupInv, UNCHANGED had, UNCHANGED supVars, CancelTimer \/ Unwind \/ Returned
    PROVE  SupInv'
<1> USE DEF At, To, peerVars, iceVars, mediaVars, chanVars
<1>1. sup' = "run" /\ UNCHANGED <<sup, failures, active, lasted>>
  BY InsideRun DEF CancelTimer, Unwind, Returned
<1>2. CASE CancelTimer
  <2>6. RunTypes' /\ DriverTypes'
    BY <1>1, <1>2 DEF CancelTimer, SupInv, SupTypeOK, RunTypes, DriverTypes, RunPlaces
  <2>7. PeerTypes'
    BY <1>2 DEF CancelTimer, StopTimer, SupInv, SupTypeOK, PeerTypes
  <2>9. Closing'
    BY <1>1, <1>2 DEF CancelTimer, StopTimer, SupInv, Closing
  <2> QED
    BY <2>6, <2>7, <2>9 DEF SupInv, SupTypeOK
<1>3. CASE Unwind
  BY <1>1, <1>3
  DEF Unwind, ClosePeer, SupInv, SupTypeOK, RunTypes, PeerTypes, DriverTypes, Closing, RunPlaces
<1>4. CASE Returned
  BY <1>1, <1>4
  DEF Returned, SupInv, SupTypeOK, RunTypes, PeerTypes, DriverTypes, Closing, RunPlaces
<1> QED
  BY <1>2, <1>3, <1>4

\* SupInv is preserved by the stop goroutine: it opens nothing.
LEMMA StopKeeps ==
    ASSUME SupInv, UNCHANGED had, UNCHANGED supVars, Stop
    PROVE  SupInv'
<1> USE DEF runVars, peerVars, iceVars, mediaVars, chanVars
<1>1. /\ UNCHANGED <<runVars, cancelled, ctxDone, held, sig, dc, iceVars, mediaVars, inbox, faults>>
      /\ stop' \in {"wait", "abort", "close", "off"} /\ peer' \in {peer, "closed"}
      /\ stream' \in BOOLEAN
  BY DEF Stop, StopWakes, StopAborts, StopClosesPeer, SupInv, SupTypeOK, RunTypes, PeerTypes,
         DriverTypes
<1> QED
  BY <1>1 DEF SupInv, SupTypeOK, RunTypes, PeerTypes, DriverTypes, Closing, supVars

\* SupInv is preserved by the callbacks and the watchdog.
LEMMA TimersKeep ==
    ASSUME SupInv, UNCHANGED had, UNCHANGED supVars, Timers
    PROVE  SupInv'
<1> USE DEF runVars, peerVars, iceVars, mediaVars, chanVars, SessCancel
<1>1. UNCHANGED <<runVars, stop, ctxDone, peerVars, video, chanVars>>
  BY DEF Timers, GraceClears, GraceCancels, Watchdog, WatchdogOf, PeerCloses
<1>2. faults' \in 0 .. MaxFaults /\ had' \in 0 .. faults'
  <2>1. Fault \/ NoFault
    BY DEF Timers, GraceClears, GraceCancels, Watchdog, WatchdogOf, PeerCloses, NoFault
  <2> QED
    BY <2>1, FaultSteps DEF SupInv
<1>3. CASE GraceClears
  <2>1. fired' \in Nat /\ over' \in Nat /\ stray' \in Nat
    BY <1>3 DEF GraceClears, SupInv, SupTypeOK, PeerTypes
  <2>6. RunTypes' /\ DriverTypes'
    BY <1>1, <1>2, <1>3 DEF GraceClears, SupInv, SupTypeOK, RunTypes, DriverTypes, supVars
  <2>7. PeerTypes'
    BY <1>1, <1>3, <2>1 DEF GraceClears, SupInv, SupTypeOK, PeerTypes
  <2>8. over' > 0
    BY <1>3 DEF GraceClears, SupInv, SupTypeOK, PeerTypes
  <2>9. Closing'
    BY <1>1, <1>3, <2>8 DEF GraceClears, SupInv, Closing
  <2> QED
    BY <2>6, <2>7, <2>9 DEF SupInv, SupTypeOK
<1>6. CASE GraceCancels
  <2>1. over' \in Nat
    BY <1>6 DEF GraceCancels, SupInv, SupTypeOK, PeerTypes
  <2>6. RunTypes' /\ DriverTypes'
    BY <1>1, <1>2, <1>6 DEF GraceCancels, SupInv, SupTypeOK, RunTypes, DriverTypes, supVars
  <2>7. PeerTypes'
    BY <1>1, <1>6, <2>1 DEF GraceCancels, SupInv, SupTypeOK, PeerTypes
  <2>9. Closing'
    BY <1>1, <1>6 DEF GraceCancels, SupInv, Closing
  <2> QED
    BY <2>6, <2>7, <2>9 DEF SupInv, SupTypeOK
<1>4. CASE Watchdog
  <2>1. /\ watch' \in {"off", "tick"} /\ cancelled' \in BOOLEAN /\ (cancelled => cancelled')
        /\ UNCHANGED <<ice, timer, clock, stray, fired, over, track>>
    BY <1>4 DEF Watchdog, WatchdogOf, SupInv, SupTypeOK, RunTypes, PeerTypes, DriverTypes
  <2> QED
    BY <1>1, <1>2, <2>1 DEF SupInv, SupTypeOK, RunTypes, PeerTypes, DriverTypes, Closing, supVars
<1>5. CASE PeerCloses
  <2>6. RunTypes' /\ DriverTypes'
    BY <1>1, <1>2, <1>5 DEF PeerCloses, SupInv, SupTypeOK, RunTypes, DriverTypes, supVars
  <2>7. PeerTypes'
    BY <1>1, <1>5 DEF PeerCloses, StopTimer, SupInv, SupTypeOK, PeerTypes
  <2>9. Closing'
    BY <1>1, <1>5 DEF PeerCloses, StopTimer, SupInv, Closing
  <2> QED
    BY <2>6, <2>7, <2>9 DEF SupInv, SupTypeOK
<1> QED
  BY <1>3, <1>4, <1>5, <1>6 DEF Timers

\* SupInv is preserved by what the camera does; a connection stops the grace timer.
LEMMA CameraKeeps ==
    ASSUME SupInv, UNCHANGED had, UNCHANGED supVars, Camera
    PROVE  SupInv'
<1> USE DEF runVars, peerVars, iceVars, mediaVars, chanVars
<1>1. CASE IceConnects
  <2>6. RunTypes' /\ DriverTypes'
    BY <1>1 DEF IceConnects, Connected, StopTimer, SupInv, SupTypeOK, RunTypes, DriverTypes, supVars
  <2>7. PeerTypes'
    BY <1>1 DEF IceConnects, Connected, StopTimer, SupInv, SupTypeOK, PeerTypes
  <2>9. Closing'
    BY <1>1 DEF IceConnects, Connected, StopTimer, SupInv, Closing
  <2> QED
    BY <2>6, <2>7, <2>9 DEF SupInv, SupTypeOK
<1>2. CASE ChannelOpens
  <2>1. Answers("offer") /\ "offer" \in Messages
    BY <1>2 DEF ChannelOpens, Messages
  <2>2. inbox' \in Seq(Messages) /\ faults' \in 0 .. MaxFaults /\ had' \in 0 .. faults'
    BY <2>1, InboxSteps, FaultSteps DEF SupInv
  <2>6. RunTypes' /\ DriverTypes'
    BY <1>2, <2>2 DEF ChannelOpens, SupInv, SupTypeOK, RunTypes, DriverTypes, supVars
  <2>7. PeerTypes'
    BY <1>2 DEF ChannelOpens, SupInv, SupTypeOK, PeerTypes
  <2>9. Closing'
    BY <1>2 DEF ChannelOpens, SupInv, Closing
  <2> QED
    BY <2>6, <2>7, <2>9 DEF SupInv, SupTypeOK
<1>3. CASE VideoPacket
  <2>6. RunTypes' /\ DriverTypes'
    BY <1>3 DEF VideoPacket, SupInv, SupTypeOK, RunTypes, DriverTypes, supVars
  <2>7. PeerTypes'
    BY <1>3 DEF VideoPacket, SupInv, SupTypeOK, PeerTypes
  <2>9. Closing'
    BY <1>3 DEF VideoPacket, SupInv, Closing
  <2> QED
    BY <2>6, <2>7, <2>9 DEF SupInv, SupTypeOK
<1> QED
  BY <1>1, <1>2, <1>3 DEF Camera

\* The types of the peer connection when a timer runs out, and when a track ends.
LEMMA OnlyTimers ==
    ASSUME SupTypeOK, UNCHANGED <<peer, held, sig, dc, ice, timer, over, video, watch>>,
           clock' \in {clock, FALSE}, track' \in {track, FALSE}, fired' \in Nat, stray' \in Nat
    PROVE  PeerTypes'
<1>1. clock' \in BOOLEAN /\ track' \in BOOLEAN /\ timer' \in BOOLEAN
  <2>1. clock \in BOOLEAN /\ track \in BOOLEAN /\ timer \in BOOLEAN
    BY DEF SupTypeOK, PeerTypes
  <2> QED
    BY <2>1
<1>2. over' \in Nat
  BY DEF SupTypeOK, PeerTypes
<1>3. /\ peer' \in {"none", "open", "closed"} /\ sig' \in {"stable", "local", "remote"}
      /\ held' \in BOOLEAN /\ dc' \in {"new", "open"}
      /\ ice' \in {"new", "up", "down", "failed", "closed"}
      /\ video' \in {"never", "fresh", "stale", "silent"}
      /\ watch' \in {"off", "grace", "tick"}
  BY DEF SupTypeOK, PeerTypes
<1> QED
  BY <1>1, <1>2, <1>3 DEF PeerTypes

\* SupInv is preserved by whatever goes wrong; only a disconnection starts the grace timer.
LEMMA TroubleKeeps ==
    ASSUME SupInv, UNCHANGED had, UNCHANGED supVars, Trouble
    PROVE  SupInv'
<1> USE DEF runVars, peerVars, iceVars, mediaVars, chanVars, SessCancel
<1>1. faults' \in 0 .. MaxFaults /\ had' \in 0 .. faults'
  <2>1. Fault \/ NoFault
    BY DEF Trouble, IceDisconnects, IceFails, TimerFires, VideoStops, TrackEnds, Unresponsive,
           StreamLost, NoFault
  <2> QED
    BY <2>1, FaultSteps DEF SupInv
<1>2. CASE IceDisconnects
  <2>6. RunTypes' /\ DriverTypes'
    BY <1>1, <1>2 DEF IceDisconnects, SupInv, SupTypeOK, RunTypes, DriverTypes, supVars
  <2>7. PeerTypes'
    BY <1>2 DEF IceDisconnects, SupInv, SupTypeOK, PeerTypes
  <2>9. Closing'
    BY <1>1, <1>2 DEF IceDisconnects, SupInv, Closing
  <2> QED
    BY <2>6, <2>7, <2>9 DEF SupInv, SupTypeOK
<1>3. CASE IceFails
  <2>6. RunTypes' /\ DriverTypes'
    BY <1>1, <1>3 DEF IceFails, SupInv, SupTypeOK, RunTypes, DriverTypes, supVars
  <2>7. PeerTypes'
    BY <1>3 DEF IceFails, StopTimer, SupInv, SupTypeOK, PeerTypes
  <2>9. Closing'
    BY <1>1, <1>3 DEF IceFails, StopTimer, SupInv, Closing
  <2> QED
    BY <2>6, <2>7, <2>9 DEF SupInv, SupTypeOK
<1>4. CASE TimerFires
  <2>1. fired' \in Nat /\ stray' \in Nat
    BY <1>4 DEF TimerFires, SupInv, SupTypeOK, PeerTypes
  <2>2. /\ UNCHANGED <<peer, held, sig, dc, ice, timer, over, video, watch>>
        /\ clock' \in {clock, FALSE} /\ track' \in {track, FALSE}
    BY <1>4 DEF TimerFires
  <2>6. RunTypes' /\ DriverTypes'
    BY <1>1, <1>4, <2>1 DEF TimerFires, SupInv, SupTypeOK, RunTypes, DriverTypes, supVars
  <2>7. PeerTypes'
    BY <2>1, <2>2, OnlyTimers DEF SupInv
  <2>9. Closing'
    BY <1>4, <2>1 DEF TimerFires, SupInv, SupTypeOK, PeerTypes, Closing
  <2> QED
    BY <2>6, <2>7, <2>9 DEF SupInv, SupTypeOK
<1>5. CASE VideoStops
  <2>6. RunTypes' /\ DriverTypes'
    BY <1>1, <1>5 DEF VideoStops, SupInv, SupTypeOK, RunTypes, DriverTypes, supVars
  <2>7. PeerTypes'
    BY <1>5 DEF VideoStops, SupInv, SupTypeOK, PeerTypes
  <2>9. Closing'
    BY <1>5 DEF VideoStops, SupInv, Closing
  <2> QED
    BY <2>6, <2>7, <2>9 DEF SupInv, SupTypeOK
<1>6. CASE TrackEnds
  <2>1. /\ UNCHANGED <<peer, held, sig, dc, ice, timer, over, video, watch>>
        /\ clock' \in {clock, FALSE} /\ track' \in {track, FALSE}
    BY <1>6 DEF TrackEnds
  <2>2. fired' \in Nat /\ stray' \in Nat
    BY <1>6 DEF TrackEnds, SupInv, SupTypeOK, PeerTypes
  <2>6. RunTypes' /\ DriverTypes'
    BY <1>1, <1>6 DEF TrackEnds, SupInv, SupTypeOK, RunTypes, DriverTypes, supVars
  <2>7. PeerTypes'
    BY <2>1, <2>2, OnlyTimers DEF SupInv
  <2>9. Closing'
    BY <1>1, <1>6 DEF TrackEnds, SupInv, Closing
  <2> QED
    BY <2>6, <2>7, <2>9 DEF SupInv, SupTypeOK
<1>7. CASE Unresponsive
  <2>1. cancelled' \in BOOLEAN /\ (cancelled => cancelled')
    BY <1>7 DEF Unresponsive
  <2>6. RunTypes' /\ DriverTypes'
    BY <1>1, <1>7, <2>1 DEF Unresponsive, SupInv, SupTypeOK, RunTypes, DriverTypes, supVars
  <2>7. PeerTypes'
    BY <1>7 DEF Unresponsive, SupInv, SupTypeOK, PeerTypes
  <2>9. Closing'
    BY <1>7, <2>1 DEF Unresponsive, SupInv, Closing
  <2> QED
    BY <2>6, <2>7, <2>9 DEF SupInv, SupTypeOK
<1>8. CASE StreamLost
  <2>6. RunTypes' /\ DriverTypes'
    BY <1>1, <1>8 DEF StreamLost, SupInv, SupTypeOK, RunTypes, DriverTypes, supVars
  <2>7. PeerTypes'
    BY <1>8 DEF StreamLost, SupInv, SupTypeOK, PeerTypes
  <2>9. Closing'
    BY <1>1, <1>8 DEF StreamLost, SupInv, Closing
  <2> QED
    BY <2>6, <2>7, <2>9 DEF SupInv, SupTypeOK
<1> QED
  BY <1>2, <1>3, <1>4, <1>5, <1>6, <1>7, <1>8 DEF Trouble

\* SupInv is preserved by the supervisor: it leaves a session alone until Run has returned.
LEMMA SuperviseKeeps ==
    ASSUME SupInv, Supervise \/ StageFails \/ SessionLasts \/ Shutdown
    PROVE  SupInv'
<1> USE DEF SupTo, Failed
<1>1. failures \in Nat /\ failures + 1 \in Nat
  BY DEF SupInv, SupTypeOK, RunTypes, PeerTypes, DriverTypes
<1>2. CASE Top \/ StageFails
  <2>1. Fault \/ NoFault
    BY <1>2 DEF Top, StageFails
  <2>2. faults' \in 0 .. MaxFaults /\ had \in 0 .. faults'
    BY <2>1, FaultSteps DEF SupInv
  <2>3. /\ sup # "run" /\ sup' \in {"ended", "connect", "wait"}
        /\ UNCHANGED <<sessVars, ctxDone, active, lasted>> /\ failures' \in Nat
    BY <1>1, <1>2 DEF Top, StageFails, Stages
  <2> QED
    BY <2>2, <2>3
    DEF SupInv, SupTypeOK, RunTypes, PeerTypes, DriverTypes, Closing, Stages, sessVars, runVars,
        peerVars, iceVars, mediaVars, chanVars
<1>3. CASE StageDone \/ StageInterrupted \/ Waited
  <2>1. /\ sup # "run" /\ sup' \in {"ended", "port", "open", "session", "top"}
        /\ UNCHANGED <<sessVars, ctxDone, faults, failures, active, lasted>>
    BY <1>3 DEF StageDone, StageInterrupted, Waited, NextStage, Stages
  <2> QED
    BY <2>1
    DEF SupInv, SupTypeOK, RunTypes, PeerTypes, DriverTypes, Closing, Stages, sessVars, runVars,
        peerVars, iceVars, mediaVars, chanVars
<1>4. CASE StartSession
  <2>1. <<>> \in Seq(Messages) /\ faults \in 0 .. faults
    BY SessionAssumption DEF SupInv, SupTypeOK, RunTypes, PeerTypes, DriverTypes
  <2> QED
    BY <1>4, <2>1
    DEF StartSession, Begin, SupInv, SupTypeOK, RunTypes, PeerTypes, DriverTypes, Closing, RunPlaces
<1>5. CASE SessionOver
  <2>1. /\ run = "off" /\ sup' \in {"top", "wait"} /\ failures' \in Nat
        /\ active' = FALSE /\ stream' = FALSE
        /\ UNCHANGED <<runVars, stop, cancelled, peerVars, iceVars, mediaVars, inbox, had, ctxDone,
                       faults, lasted>>
    BY <1>1, <1>5 DEF SessionOver
  <2>6. RunTypes' /\ DriverTypes'
    BY <2>1 DEF SupInv, SupTypeOK, RunTypes, DriverTypes, runVars, peerVars, iceVars, mediaVars
  <2>7. PeerTypes'
    BY <2>1 DEF SupInv, SupTypeOK, PeerTypes, runVars, peerVars, iceVars, mediaVars
  <2>9. Closing'
    BY <2>1 DEF SupInv, Closing, runVars, peerVars, iceVars, mediaVars
  <2> QED
    BY <2>6, <2>7, <2>9 DEF SupInv, SupTypeOK
<1>6. CASE SessionLasts \/ Shutdown
  <2>1. /\ UNCHANGED <<sessVars, faults, sup, failures, active>>
        /\ lasted' \in {lasted, TRUE} /\ ctxDone' \in {ctxDone, TRUE}
    BY <1>6 DEF SessionLasts, Shutdown, supVars
  <2> USE DEF sessVars, runVars, peerVars, iceVars, mediaVars, chanVars
  <2>6. RunTypes' /\ DriverTypes'
    BY <2>1 DEF SupInv, SupTypeOK, RunTypes, DriverTypes
  <2>7. PeerTypes'
    BY <2>1 DEF SupInv, SupTypeOK, PeerTypes
  <2>9. Closing'
    BY <2>1 DEF SupInv, Closing
  <2> QED
    BY <2>6, <2>7, <2>9 DEF SupInv, SupTypeOK
<1> QED
  BY <1>2, <1>3, <1>4, <1>5, <1>6 DEF Supervise

-----------------------------------------------------------------------------
\* SupInv is inductive.
LEMMA SupKeeps == SupInv /\ [SupNext]_allVars => SupInv'
<1> SUFFICES ASSUME SupInv, [SupNext]_allVars PROVE SupInv'
  OBVIOUS
<1>1. CASE Session
  BY <1>1, SignallingKeeps, LoopKeeps, ReturnKeeps, StopKeeps, TimersKeep, CameraKeeps, TroubleKeeps
  DEF Session, SessionNext, Run
<1>2. CASE UNCHANGED allVars
  BY <1>2
  DEF allVars, supVars, sessVars, runVars, peerVars, iceVars, mediaVars, chanVars, SupInv,
      SupTypeOK, RunTypes, PeerTypes, DriverTypes, Closing
<1> QED
  BY <1>1, <1>2, SuperviseKeeps DEF SupNext

\* The supervisor never leaves SupInv.
LEMMA SupInvariance == SupSpec => []SupInv
BY SupStarts, SupKeeps, PTL DEF SupSpec

\* The values of the session's and the supervisor's variables; in particular a session's Run
\* runs only inside L625Driver.Run.
THEOREM SessionTypeCorrect == SupSpec => []SupTypeOK
<1>1. SupInv => SupTypeOK
  BY DEF SupInv
<1> QED
  BY <1>1, SupInvariance, PTL

\* Run leaves no open peer connection (the deferred pc.Close), and a closed one no grace
\* timer that could cancel the next session.
THEOREM NothingLeftBehind == SupSpec => []CleanedUp
<1>1. SupInv => CleanedUp
  BY DEF SupInv, Closing, CleanedUp
<1> QED
  BY <1>1, SupInvariance, PTL

\* In a session nobody has given up a grace timer fires only while ICE is disconnected, or
\* behind a callback about to cancel; and with video fresh over a connected ICE nothing but
\* its own end, a lost stream or such a callback cancels the session (iceStateManager,
\* runWatchdog, the handler for an unresponsive SD card).
THEOREM FlowingSurvives == SupSpec => HealthySurvives
<1> DEFINE Kept == ~cancelled =>
        /\ fired' > fired => ice = "down" \/ over > 0
        /\ Healthy /\ cancelled' =>
            ice' # "up" \/ ~track' \/ over > 0 \/ run \in {"closing", "unwound"}
<1>1. ASSUME SupInv, [SupNext]_allVars PROVE [Kept]_allVars
  <2> SUFFICES ASSUME SupNext, ~cancelled PROVE Kept
    BY <1>1
  <2> USE DEF runVars, peerVars, iceVars, mediaVars, chanVars, sessVars, SessCancel
  <2>1. /\ fired \in Nat /\ stray \in Nat /\ over \in Nat
        /\ Healthy => ice = "up" /\ video = "fresh"
    BY <1>1 DEF Healthy, SupInv, SupTypeOK, PeerTypes
  <2>6. ~(fired > fired) /\ ~(0 > fired)
    BY <2>1
  <2>2. CASE Supervise \/ StageFails \/ SessionLasts \/ Shutdown
    <3>1. UNCHANGED <<fired, cancelled>> \/ StartSession
      BY <2>2
      DEF Supervise, Top, StageDone, StageInterrupted, SessionOver, Waited, StageFails,
          SessionLasts, Shutdown
    <3> QED
      BY <2>6, <3>1 DEF StartSession, Begin
  <2>3. CASE Run \/ Stop \/ Camera
    <3>1. UNCHANGED <<fired, cancelled>> \/ Returned
      BY <2>3
      DEF Run, TurnRequest, TurnResponse, NewPeerConnection, HoldPeer, CreateOffer, Gathered,
          SendOffer, LoopTop, ReadSignal, AnswerOffer, CancelTimer, Unwind, Stop, StopWakes,
          StopAborts, StopClosesPeer, Camera, IceConnects, Connected, StopTimer, ChannelOpens, VideoPacket
    <3> QED
      BY <2>6, <3>1 DEF Returned, At
  <2>4. CASE Timers
    <3>1. CASE GraceClears
      <4>1. fired' = fired - 1 /\ UNCHANGED cancelled
        BY <3>1 DEF GraceClears
      <4> QED
        BY <2>1, <4>1
    <3>4. CASE GraceCancels
      BY <2>6, <3>4 DEF GraceCancels
    <3>2. CASE Watchdog
      BY <2>1, <2>6, <3>2 DEF Watchdog, WatchdogOf
    <3>3. CASE PeerCloses
      BY <2>6, <3>3 DEF PeerCloses, StopTimer
    <3> QED
      BY <2>4, <3>1, <3>2, <3>3, <3>4 DEF Timers
  <2>5. CASE Trouble
    <3>1. CASE VideoStops \/ StreamLost \/ Unresponsive
      BY <2>1, <2>6, <3>1 DEF VideoStops, StreamLost, Unresponsive
    <3>2. CASE IceDisconnects \/ IceFails \/ TrackEnds
      BY <2>1, <2>6, <3>2 DEF IceDisconnects, IceFails, StopTimer, TrackEnds
    <3>3. CASE TimerFires
      <4>1. clock \/ stray > 0
        BY <3>3 DEF TimerFires
      <4>2. ice = "down" \/ over > 0
        BY <1>1, <4>1 DEF SupInv, Closing
      <4> QED
        BY <3>3, <4>2 DEF TimerFires
    <3> QED
      BY <2>5, <3>1, <3>2, <3>3 DEF Trouble
  <2> QED
    BY <2>2, <2>3, <2>4, <2>5 DEF SupNext, Session, SessionNext
<1> QED
  BY <1>1, SupInvariance, PTL DEF SupSpec, HealthySurvives

=============================================================================
