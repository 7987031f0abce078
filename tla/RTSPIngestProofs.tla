------------------------- MODULE RTSPIngestProofs -------------------------
(***************************************************************************)
(* Machine-checked: one ingest at a time feeds the bridge's stream, for    *)
(* any number of ingests, of candidate URLs and of faults of the camera.   *)
(***************************************************************************)
EXTENDS RTSPIngest, TLAPS

\* Ingests are created one after the other, the driver keeps the last, and a call that is
\* under way has closed it already.
LastOne ==
    /\ current = made
    /\ \A i \in Ingests : i > made => pc[i] = "none"
    /\ op # "none" => closed[current]

\* An ingest that was replaced is closed, and has no connection but one that was hung up.
Replaced ==
    Kept => \A i \in Ingests : i < made /\ pc[i] # "made" =>
                closed[i] /\ (pc[i] \in {"dial", "wait"} => hungup[i])

IInv == TypeOK /\ LastOne /\ Replaced

-----------------------------------------------------------------------------
\* IInv holds with the one ingest that NewDriver makes.
LEMMA InitIInv == Init => IInv
<1> SUFFICES ASSUME Init PROVE IInv
  OBVIOUS
<1> USE IngestAssumption DEF Init
<1>1. 1 \in Ingests
  BY DEF Ingests
<1>2. TypeOK
  <2>1. pc \in [Ingests -> Points] /\ url \in [Ingests -> 1 .. Candidates]
    BY DEF Points
  <2>2. error \in [Ingests -> {"none", "dial", "other"}] /\ mute = {}
    OBVIOUS
  <2>3. {stored, hungup, first, closed, bound} \subseteq [Ingests -> BOOLEAN]
    OBVIOUS
  <2>4. \A i \in Ingests : stored[i] <=> pc[i] \in {"dial", "wait", "judge"}
    OBVIOUS
  <2>5. {port, stopped, slipped, leaked} \subseteq BOOLEAN
    OBVIOUS
  <2>6. good \in 0 .. Candidates /\ faults \in 0 .. MaxFaults
    OBVIOUS
  <2> QED
    BY <1>1, <2>1, <2>2, <2>3, <2>4, <2>5, <2>6 DEF TypeOK
<1>3. LastOne /\ Replaced
  BY DEF LastOne, Replaced, Ingests
<1> QED
  BY <1>2, <1>3 DEF IInv

\* IInv is preserved: a session begins only in an ingest that is not closed, or the loop ends.
LEMMA TopKeeps ==
    ASSUME IInv, NEW i \in Ingests, Top(i)
    PROVE  IInv'
<1> USE IngestAssumption DEF IInv, TypeOK, LastOne, Top, At, Go, Over, drvVars, camVars
<1>1. TypeOK'
  BY DEF Ingests, Points
<1>2. LastOne'
  BY DEF Ingests
<1>3. Replaced'
  BY DEF Replaced, Kept, Ingests
<1> QED
  BY <1>1, <1>2, <1>3

\* IInv is preserved: a client stored in a replaced ingest has slipped past its Close.
LEMMA StoreKeeps ==
    ASSUME IInv, NEW i \in Ingests, Store(i)
    PROVE  IInv'
<1> USE IngestAssumption DEF IInv, TypeOK, LastOne, Store, At, Go, drvVars, camVars
<1>1. TypeOK'
  BY DEF Ingests, Points
<1>2. LastOne'
  BY DEF Ingests
<1>3. Replaced'
  BY DEF Replaced, Kept, Ingests
<1> QED
  BY <1>1, <1>2, <1>3

\* IInv is preserved: a hung-up client connects to nothing.
LEMMA DialKeeps ==
    ASSUME IInv, NEW i \in Ingests, Dial(i)
    PROVE  IInv'
<1> USE IngestAssumption DEF IInv, TypeOK, LastOne, Dial, At, Go, Fails, drvVars, camVars
<1>1. TypeOK'
  BY DEF Ingests, Points
<1>2. LastOne'
  BY DEF Ingests
<1>3. Replaced'
  BY DEF Replaced, Kept, Ingests
<1> QED
  BY <1>1, <1>2, <1>3

\* IInv is preserved: a packet changes nothing that matters here.
LEMMA PacketKeeps ==
    ASSUME IInv, NEW i \in Ingests, Packet(i)
    PROVE  IInv'
<1> USE IngestAssumption DEF IInv, TypeOK, LastOne, Packet, At, drvVars, camVars
<1>1. TypeOK'
  BY DEF Ingests, Points
<1>2. LastOne'
  BY DEF Ingests
<1>3. Replaced'
  BY DEF Replaced, Kept, Ingests
<1> QED
  BY <1>1, <1>2, <1>3

\* IInv is preserved: the watchdog only hangs up.
LEMMA WatchdogKeeps ==
    ASSUME IInv, NEW i \in Ingests, Watchdog(i)
    PROVE  IInv'
<1> USE IngestAssumption DEF IInv, TypeOK, LastOne, Watchdog, At, drvVars, camVars
<1>1. TypeOK'
  BY DEF Ingests, Points
<1>2. LastOne'
  BY DEF Ingests
<1>3. Replaced'
  BY DEF Replaced, Kept, Ingests
<1> QED
  BY <1>1, <1>2, <1>3

\* IInv is preserved: an ended session has left its connection.
LEMMA EndsKeeps ==
    ASSUME IInv, NEW i \in Ingests, Ends(i)
    PROVE  IInv'
<1> USE IngestAssumption DEF IInv, TypeOK, LastOne, Ends, At, Go, Fails, drvVars, camVars
<1>1. TypeOK'
  BY DEF Ingests, Points
<1>2. LastOne'
  BY DEF Ingests
<1>3. Replaced'
  BY DEF Replaced, Kept, Ingests
<1> QED
  BY <1>1, <1>2, <1>3

\* IInv is preserved: a closed ingest tries no further candidate.
LEMMA JudgeKeeps ==
    ASSUME IInv, NEW i \in Ingests, Judge(i)
    PROVE  IInv'
<1> USE IngestAssumption DEF IInv, TypeOK, LastOne, Judge, At, Go, drvVars
<1>1. TypeOK'
  <2>1. url' \in [Ingests -> 1 .. Candidates]
    <3>1. url[i] \in 1 .. Candidates
      OBVIOUS
    <3>2. CASE url' = url
      BY <3>2
    <3>3. ASSUME NEW u \in More(i), url' = [url EXCEPT ![i] = u]
          PROVE  url' \in [Ingests -> 1 .. Candidates]
      BY <3>1, <3>3 DEF More, Tries
    <3> QED
      BY <3>2, <3>3
  <2>2. pc' \in [Ingests -> Points]
    BY DEF Points
  <2>3. {stored', hungup', first', closed', bound'} \subseteq [Ingests -> BOOLEAN]
    OBVIOUS
  <2>4. \A k \in Ingests : stored'[k] <=> pc'[k] \in {"dial", "wait", "judge"}
    OBVIOUS
  <2>5. mute' \subseteq {k \in Ingests : pc'[k] \in {"wait", "judge"}}
    OBVIOUS
  <2> QED
    BY <2>1, <2>2, <2>3, <2>4, <2>5
<1>2. LastOne'
  BY DEF Ingests
<1>3. Replaced'
  BY DEF Replaced, Kept, Ingests
<1> QED
  BY <1>1, <1>2, <1>3

\* IInv is preserved: no client is stored in a pause.
LEMMA PauseKeeps ==
    ASSUME IInv, NEW i \in Ingests, Pause(i)
    PROVE  IInv'
<1> USE IngestAssumption DEF IInv, TypeOK, LastOne, Pause, At, Go, Over, drvVars, camVars
<1>1. TypeOK'
  BY DEF Ingests, Points
<1>2. LastOne'
  BY DEF Ingests
<1>3. Replaced'
  BY DEF Replaced, Kept, Ingests
<1> QED
  BY <1>1, <1>2, <1>3

\* IInv is preserved: it replaces the ingest of NewDriver, which never ran, or leaks one.
LEMMA StartKeeps ==
    ASSUME IInv, Start
    PROVE  IInv'
<1> USE IngestAssumption DEF IInv, TypeOK, LastOne, Start, Create, camVars
<1>1. TypeOK'
  BY DEF Ingests, Points
<1>2. LastOne'
  BY DEF Ingests
<1>3. Replaced'
  <2>1. CASE leaked'
    BY <2>1 DEF Replaced, Kept
  <2>2. CASE pc[current] = "made" /\ ~leaked
    BY <2>2 DEF Replaced, Kept, Ingests
  <2> QED
    BY <2>1, <2>2
<1> QED
  BY <1>1, <1>2, <1>3

\* IInv is preserved: the current ingest is marked as closed.
LEMMA SetResolutionKeeps ==
    ASSUME IInv, SetResolution
    PROVE  IInv'
<1> USE IngestAssumption DEF IInv, TypeOK, LastOne, SetResolution, Calls, ingVars, camVars
<1>1. TypeOK'
  BY DEF Ingests, Points
<1>2. LastOne'
  BY DEF Ingests
<1>3. Replaced'
  BY DEF Replaced, Kept, Ingests
<1> QED
  BY <1>1, <1>2, <1>3

\* IInv is preserved: the current ingest is marked as closed.
LEMMA CloseKeeps ==
    ASSUME IInv, Close
    PROVE  IInv'
<1> USE IngestAssumption DEF IInv, TypeOK, LastOne, Close, Calls, ingVars, camVars
<1>1. TypeOK'
  BY DEF Ingests, Points
<1>2. LastOne'
  BY DEF Ingests
<1>3. Replaced'
  BY DEF Replaced, Kept, Ingests
<1> QED
  BY <1>1, <1>2, <1>3

\* IInv is preserved: what the closed ingest had stored is hung up before another one starts.
LEMMA SwappedKeeps ==
    ASSUME IInv, Swapped
    PROVE  IInv'
<1> USE IngestAssumption DEF IInv, TypeOK, LastOne, Swapped, Create, HangUp, camVars
<1>1. TypeOK'
  <2>1. made' \in Ingests /\ current' = made' /\ made + 1 \in Ingests
    BY DEF Ingests
  <2>2. pc' \in [Ingests -> Points] /\ hungup' \in [Ingests -> BOOLEAN]
    BY <2>1 DEF Points
  <2>3. bound' \in [Ingests -> BOOLEAN]
    BY <2>1
  <2>4. \A i \in Ingests : stored'[i] <=> pc'[i] \in {"dial", "wait", "judge"}
    BY <2>1 DEF Ingests
  <2>5. mute' \subseteq {i \in Ingests : pc'[i] \in {"wait", "judge"}}
    BY <2>1 DEF Ingests
  <2> QED
    BY <2>1, <2>2, <2>3, <2>4, <2>5
<1>2. LastOne'
  BY DEF Ingests
<1>3. Replaced'
  BY DEF Replaced, Kept, Ingests
<1> QED
  BY <1>1, <1>2, <1>3

\* IInv is preserved: what the closed ingest had stored is hung up.
LEMMA ClosedKeeps ==
    ASSUME IInv, Closed
    PROVE  IInv'
<1> USE IngestAssumption DEF IInv, TypeOK, LastOne, Closed, HangUp, camVars
<1>1. TypeOK'
  BY DEF Ingests, Points
<1>2. LastOne'
  BY DEF Ingests
<1>3. Replaced'
  BY DEF Replaced, Kept, Ingests
<1> QED
  BY <1>1, <1>2, <1>3

\* IInv is preserved: the program's end touches no ingest.
LEMMA StopProgramKeeps ==
    ASSUME IInv, StopProgram
    PROVE  IInv'
<1> USE IngestAssumption DEF IInv, TypeOK, LastOne, StopProgram, ingVars, drvVars, camVars
<1>1. TypeOK'
  BY DEF Ingests, Points
<1>2. LastOne'
  BY DEF Ingests
<1>3. Replaced'
  BY DEF Replaced, Kept, Ingests
<1> QED
  BY <1>1, <1>2, <1>3

\* IInv is preserved: a fault touches the connections only.
LEMMA CameraFailsKeeps ==
    ASSUME IInv, CameraFails
    PROVE  IInv'
<1> USE IngestAssumption DEF IInv, TypeOK, LastOne, CameraFails, ingVars, drvVars
<1>1. TypeOK'
  <2>1. mute' \subseteq {k \in Ingests : pc'[k] \in {"wait", "judge"}}
    OBVIOUS
  <2>2. good' \in 0 .. Candidates /\ faults' \in 0 .. MaxFaults
    OBVIOUS
  <2>3. {port', stopped', slipped', leaked'} \subseteq BOOLEAN
    OBVIOUS
  <2> QED
    BY <2>1, <2>2, <2>3
<1>2. LastOne'
  BY DEF Ingests
<1>3. Replaced'
  BY DEF Replaced, Kept, Ingests
<1> QED
  BY <1>1, <1>2, <1>3

\* IInv is preserved: the camera touches no ingest.
LEMMA CameraReturnsKeeps ==
    ASSUME IInv, CameraReturns
    PROVE  IInv'
<1> USE IngestAssumption DEF IInv, TypeOK, LastOne, CameraReturns, ingVars, drvVars
<1>1. TypeOK'
  BY DEF Ingests, Points
<1>2. LastOne'
  BY DEF Ingests
<1>3. Replaced'
  BY DEF Replaced, Kept, Ingests
<1> QED
  BY <1>1, <1>2, <1>3

-----------------------------------------------------------------------------
\* IInv is inductive: every action preserves it.
LEMMA NextIInv == IInv /\ [Next]_vars => IInv'
<1> SUFFICES ASSUME IInv, [Next]_vars PROVE IInv'
  OBVIOUS
<1>1. ASSUME NEW i \in Ingests, Ingest(i) \/ Watchdog(i)
      PROVE  IInv'
  BY <1>1, TopKeeps, StoreKeeps, DialKeeps, PacketKeeps, WatchdogKeeps, EndsKeeps, JudgeKeeps,
     PauseKeeps DEF Ingest
<1>2. CASE Start \/ SetResolution \/ Driver \/ Close \/ StopProgram
  BY <1>2, StartKeeps, SetResolutionKeeps, SwappedKeeps, ClosedKeeps, CloseKeeps,
     StopProgramKeeps DEF Driver
<1>3. CASE CameraFails \/ CameraReturns
  BY <1>3, CameraFailsKeeps, CameraReturnsKeeps
<1>4. CASE UNCHANGED vars
  BY <1>4 DEF vars, ingVars, drvVars, camVars, IInv, TypeOK, LastOne, Replaced, Kept
<1> QED
  BY <1>1, <1>2, <1>3, <1>4 DEF Next

\* The ingests never leave IInv.
LEMMA Invariance == Spec => []IInv
BY InitIInv, NextIInv, PTL DEF Spec

\* The types of the variables are kept; in particular only a goroutine inside a session has
\* a client stored for Close (runSession's deferred function).
THEOREM TypeCorrect == Spec => []TypeOK
<1>1. IInv => TypeOK
  BY DEF IInv
<1> QED
  BY <1>1, Invariance, PTL

\* Two ingests never feed the bridge's stream at once (SetResolution, Start, RTSPIngest.Close),
\* unless a client was stored in a closed ingest or an ingest was started that nobody closes.
THEOREM OneAtATime == Spec => []OneStream
<1>1. IInv => OneStream
  <2> SUFFICES ASSUME IInv, Kept, NEW i \in Ingests, NEW j \in Ingests, Plays(i), Plays(j)
               PROVE  i = j
    BY DEF OneStream
  <2>1. ASSUME NEW k \in Ingests, Plays(k)
        PROVE  k = current
    <3>1. ~(k > made)
      BY <2>1 DEF IInv, LastOne, Plays
    <3>2. ~(k < made)
      BY <2>1 DEF IInv, Replaced, Plays
    <3> QED
      BY <3>1, <3>2, IngestAssumption DEF IInv, TypeOK, LastOne, Ingests
  <2> QED
    BY <2>1
<1> QED
  BY <1>1, Invariance, PTL

=============================================================================
