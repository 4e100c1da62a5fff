-------------------------- MODULE TurnPipelineProofs ------------------------
(***************************************************************************)
(* What holds of TurnPipeline for any number of turns: its types, the two  *)
(* writers of pp_lifecycle, cancellation; where nothing fails, that what a *)
(* player was told is in the turn played next, and that every step is one  *)
(* that TurnContract allows; that the fate of a turn is settled whatever   *)
(* fails; and the two halves of its end: every step leaves less to do, and *)
(* when no task of a turn can go on the turn is over.                      *)
(***************************************************************************)
EXTENDS TurnPipeline, TLAPS

PipeOK   == pipe \in [Turns -> PipeRow]
StoreOK  == store \in [Turns -> StoreRow]
DriveOK  == drive \in [Turns -> DriveRow]
ClientOK == client \in [Turns -> ClientRow]
ChanOK   == /\ chan \in [Turns -> ChanRow]
            /\ \A t \in Turns : Len(chan[t].events) <= Cap /\ Len(chan[t].frames) <= Cap

LEMMA GotoType ==
  ASSUME PipeOK, NEW t \in Turns, NEW l \in Labels, Goto(t, l)
  PROVE  PipeOK'
BY DEF PipeOK, PipeRow, Goto

LEMMA MoveType ==
  ASSUME PipeOK, scene \in Nat, NEW t \in Turns, NEW l \in Labels, Move(t, l)
  PROVE  PipeOK' /\ scene' \in Nat
<1>1. pipe[t] \in PipeRow /\ scene + 1 \in Nat
  BY DEF PipeOK
<1>2. [pipe[t] EXCEPT !.pc = l, !.moved = scene + 1] \in PipeRow
  BY <1>1 DEF PipeRow
<1> QED
  BY <1>1, <1>2 DEF PipeOK, Move

LEMMA AdvancedType ==
  ASSUME StoreOK, NEW t \in Turns, NEW to \in Lives, Advanced(t, to)
  PROVE  StoreOK'
BY DEF StoreOK, StoreRow, Advanced, Lives

LEMMA SendType ==
  ASSUME ChanOK, NEW t \in Turns, NEW e \in Events, Send(t, e)
  PROVE  ChanOK'
<1>1. CASE UNCHANGED chan
  BY <1>1 DEF ChanOK
<1>2. CASE /\ Len(chan[t].events) < Cap
           /\ chan' = [chan EXCEPT ![t].events = Append(@, e)]
  <2>1. chan[t] \in ChanRow /\ chan[t].events \in Seq(Events)
    BY DEF ChanOK, ChanRow
  <2>2. Append(chan[t].events, e) \in Seq(Events)
    BY <2>1
  <2>3. [chan[t] EXCEPT !.events = Append(chan[t].events, e)] \in ChanRow
    BY <2>1, <2>2 DEF ChanRow
  <2>4. chan' \in [Turns -> ChanRow]
    BY <1>2, <2>3 DEF ChanOK
  <2>5. ASSUME NEW u \in Turns
        PROVE  Len(chan'[u].events) <= Cap /\ Len(chan'[u].frames) <= Cap
    <3>1. Len(Append(chan[t].events, e)) = Len(chan[t].events) + 1 /\ Len(chan[t].events) \in Nat
      BY <2>1
    <3>2. CASE u = t
      BY <1>2, <3>1, <3>2, <2>1, LimitsAssumption DEF ChanOK, ChanRow
    <3>3. CASE u # t
      BY <1>2, <3>3 DEF ChanOK
    <3> QED
      BY <3>2, <3>3
  <2> QED
    BY <2>4, <2>5 DEF ChanOK
<1> QED
  BY <1>1, <1>2 DEF Send

LEMMA DisconnectType ==
  ASSUME ChanOK, DriveOK, NEW t \in Turns, NEW m \in BOOLEAN, Disconnect(t, m)
  PROVE  ChanOK' /\ DriveOK'
<1>1. CASE CancelNow(t, m)
  <2>1. [chan[t] EXCEPT !.cancel = TRUE, !.open = FALSE, !.events = <<>>] \in ChanRow
    <3>1. chan[t] \in ChanRow
      BY DEF ChanOK
    <3>2. <<>> \in Seq(Events)
      OBVIOUS
    <3> QED
      BY <3>1, <3>2 DEF ChanRow
  <2>2. chan' \in [Turns -> ChanRow]
    BY <1>1, <2>1 DEF Disconnect, ChanOK
  <2>3. ASSUME NEW u \in Turns
        PROVE  Len(chan'[u].events) <= Cap /\ Len(chan'[u].frames) <= Cap
    <3>1. CASE u = t
      <4>1. chan'[t].events = <<>> /\ chan'[t].frames = chan[t].frames
        BY <1>1 DEF Disconnect, ChanOK, ChanRow
      <4> QED
        BY <3>1, <4>1, LimitsAssumption DEF ChanOK
    <3>2. CASE u # t
      BY <1>1, <3>2 DEF Disconnect, ChanOK
    <3> QED
      BY <3>1, <3>2
  <2>4. drive[t] \in DriveRow
    BY DEF DriveOK
  <2>5. [drive[t] EXCEPT !.pc = "ended", !.outcome = "cancelled", !.mutated = m] \in DriveRow
    BY <2>4 DEF DriveRow, DriveLabels, Outcomes
  <2> QED
    BY <1>1, <2>2, <2>3, <2>5 DEF Disconnect, DriveOK, ChanOK
<1>2. CASE ~CancelNow(t, m)
  <2>1. drive[t] \in DriveRow
    BY DEF DriveOK
  <2>2. [drive[t] EXCEPT !.pc = "drain", !.mutated = m] \in DriveRow
    BY <2>1 DEF DriveRow, DriveLabels, Outcomes
  <2> QED
    BY <1>2, <2>2 DEF Disconnect, DriveOK, ChanOK
<1> QED
  BY <1>1, <1>2

LEMMA RequestType ==
  ASSUME TypeOK, NEW t \in Turns, Request(t)
  PROVE  DriveOK' /\ ClientOK'
<1>1. client[t] \in ClientRow /\ drive[t] \in DriveRow
  BY DEF TypeOK
<1>2. PICK p \in Policies, m \in Modules :
        drive' = [drive EXCEPT ![t].pc = "load_scene", ![t].policy = p, ![t].module = m]
  BY DEF Request
<1>3. p \in AllPolicies /\ m \in BOOLEAN
  BY PoliciesAssumption, ModulesAssumption
<1>4. [drive[t] EXCEPT !.pc = "load_scene", !.policy = p, !.module = m] \in DriveRow
  BY <1>1, <1>3 DEF DriveRow, DriveLabels
<1>5. [client[t] EXCEPT !.pc = "reading",
                        !.asked = {u \in Turns : {"done", "roll"} \cap client[u].heard # {}}]
        \in ClientRow
  BY <1>1 DEF ClientRow
<1>6. DriveOK'
  BY <1>2, <1>4 DEF TypeOK, DriveOK
<1>7. ClientOK'
  BY <1>5 DEF Request, TypeOK, ClientOK
<1> QED
  BY <1>6, <1>7

LEMMA ReadType ==
  ASSUME TypeOK, NEW t \in Turns, Read(t)
  PROVE  ClientOK' /\ ChanOK'
<1>1. client[t] \in ClientRow /\ chan[t] \in ChanRow
  BY DEF TypeOK
<1>2. /\ Head(chan[t].frames) \in Frames
      /\ Tail(chan[t].frames) \in Seq(Frames)
      /\ Len(Tail(chan[t].frames)) = Len(chan[t].frames) - 1
      /\ Len(chan[t].frames) \in Nat
  BY <1>1 DEF ChanRow, Read
<1>3. [client[t] EXCEPT !.heard = @ \cup {Head(chan[t].frames)}] \in ClientRow
  BY <1>1, <1>2 DEF ClientRow
<1>4. [chan[t] EXCEPT !.frames = Tail(@)] \in ChanRow
  BY <1>1, <1>2 DEF ChanRow
<1>5. chan' \in [Turns -> ChanRow] /\ ClientOK'
  BY <1>3, <1>4 DEF Read, TypeOK, ClientOK
<1>6. \A u \in Turns : Len(chan'[u].events) <= Cap /\ Len(chan'[u].frames) <= Cap
  BY <1>1, <1>2, LimitsAssumption DEF Read, TypeOK, ChanRow
<1> QED
  BY <1>5, <1>6 DEF ChanOK

LEMMA HangUpType ==
  ASSUME TypeOK, NEW t \in Turns, HangUp(t)
  PROVE  ClientOK' /\ ChanOK'
<1>1. client[t] \in ClientRow /\ chan[t] \in ChanRow /\ <<>> \in Seq(Frames)
  BY DEF TypeOK
<1>2. [client[t] EXCEPT !.pc = "gone"] \in ClientRow
  BY <1>1 DEF ClientRow
<1>3. [chan[t] EXCEPT !.frames = <<>>] \in ChanRow
  BY <1>1 DEF ChanRow
<1>4. chan' \in [Turns -> ChanRow] /\ ClientOK'
  BY <1>2, <1>3 DEF HangUp, TypeOK, ClientOK
<1>5. \A u \in Turns : Len(chan'[u].events) <= Cap /\ Len(chan'[u].frames) <= Cap
  BY <1>1, LimitsAssumption DEF HangUp, TypeOK, ChanRow
<1> QED
  BY <1>4, <1>5 DEF ChanOK

LEMMA LoadType ==
  ASSUME TypeOK, NEW t \in Turns, LoadScene(t) \/ LoadTranscript(t)
  PROVE  DriveOK'
<1>1. drive[t] \in DriveRow /\ scene \in Nat /\ {rows[i] : i \in 1 .. Len(rows)} \in SUBSET Turns
  BY DEF TypeOK
<1>2. [drive[t] EXCEPT !.pc = "load_transcript", !.view = scene] \in DriveRow
  BY <1>1 DEF DriveRow, DriveLabels
<1>3. [drive[t] EXCEPT !.pc = "next", !.history = {rows[i] : i \in 1 .. Len(rows)}] \in DriveRow
  BY <1>1 DEF DriveRow, DriveLabels
<1>4. CASE LoadScene(t)
  BY <1>2, <1>4 DEF LoadScene, TypeOK, DriveOK
<1>5. CASE LoadTranscript(t)
  BY <1>3, <1>5 DEF LoadTranscript, TypeOK, DriveOK
<1> QED
  BY <1>4, <1>5

\* The receiver of a channel takes its head.
LEMMA TakeType ==
  ASSUME TypeOK, NEW t \in Turns, chan[t].events # <<>>,
         chan' = [chan EXCEPT ![t].events = Tail(@)]
  PROVE  ChanOK' /\ Head(chan[t].events) \in Events
<1>1. chan[t] \in ChanRow
  BY DEF TypeOK
<1>2. /\ Head(chan[t].events) \in Events
      /\ Tail(chan[t].events) \in Seq(Events)
      /\ Len(Tail(chan[t].events)) = Len(chan[t].events) - 1
      /\ Len(chan[t].events) \in Nat
  BY <1>1 DEF ChanRow
<1>3. [chan[t] EXCEPT !.events = Tail(@)] \in ChanRow
  BY <1>1, <1>2 DEF ChanRow
<1>4. chan' \in [Turns -> ChanRow]
  BY <1>3 DEF TypeOK
<1>5. \A u \in Turns : Len(chan'[u].events) <= Cap /\ Len(chan'[u].frames) <= Cap
  BY <1>1, <1>2, LimitsAssumption DEF TypeOK, ChanRow
<1> QED
  BY <1>2, <1>4, <1>5 DEF ChanOK

LEMMA TakeEventType ==
  ASSUME TypeOK, NEW t \in Turns, TakeEvent(t)
  PROVE  ChanOK' /\ DriveOK'
<1> DEFINE e == Head(chan[t].events)
           m == drive[t].mutated \/ e \in Mutating
<1>1. ChanOK' /\ e \in Events
  BY TakeType DEF TakeEvent
<1>2. drive[t] \in DriveRow /\ m \in BOOLEAN
  BY DEF TypeOK
<1>7. \/ drive' = [drive EXCEPT ![t].pc = "ended", ![t].mutated = m,
                                ![t].outcome = "completed"]
      \/ drive' = [drive EXCEPT ![t].pc = "send", ![t].hand = e, ![t].mutated = m]
  BY DEF TakeEvent
<1> HIDE DEF m, e
<1>3. [drive[t] EXCEPT !.pc = "ended", !.mutated = m, !.outcome = "completed"] \in DriveRow
  BY <1>2 DEF DriveRow, DriveLabels, Outcomes
<1>4. [drive[t] EXCEPT !.pc = "send", !.hand = e, !.mutated = m] \in DriveRow
  BY <1>1, <1>2 DEF DriveRow, DriveLabels
<1>5. DriveOK'
  BY <1>3, <1>4, <1>7 DEF TypeOK, DriveOK
<1> QED
  BY <1>1, <1>5

\* The steps of the driver that only move it on.
LEMMA DriverMoves ==
  ASSUME TypeOK, NEW t \in Turns, NEW l \in DriveLabels, NEW o \in Outcomes
  PROVE  /\ drive' = [drive EXCEPT ![t].pc = l, ![t].outcome = o] => DriveOK'
         /\ drive' = [drive EXCEPT ![t].pc = l] => DriveOK'
<1>1. drive[t] \in DriveRow
  BY DEF TypeOK
<1>2. [drive[t] EXCEPT !.pc = l, !.outcome = o] \in DriveRow
  BY <1>1 DEF DriveRow
<1>3. [drive[t] EXCEPT !.pc = l] \in DriveRow
  BY <1>1 DEF DriveRow
<1> QED
  BY <1>2, <1>3 DEF TypeOK, DriveOK

\* The event a driver is sending becomes a frame: without this the type
\* invariant is not inductive.
HandOK == \A t \in Turns : drive[t].pc = "send" => FrameOf(drive[t].hand) # "none"

LEMMA SendFrameType ==
  ASSUME TypeOK, HandOK, NEW t \in Turns, SendFrame(t)
  PROVE  ChanOK' /\ DriveOK'
<1> DEFINE f == FrameOf(drive[t].hand)
<1>1. chan[t] \in ChanRow /\ chan[t].frames \in Seq(Frames)
  BY DEF TypeOK, ChanRow
<1>2. f \in Frames
  BY DEF HandOK, SendFrame, FrameOf, Frames
<1>3. /\ Len(chan[t].frames) < Cap
      /\ chan' = [chan EXCEPT ![t].frames = Append(@, f)]
      /\ \/ drive' = [drive EXCEPT ![t].pc = "ended", ![t].outcome = "completed"]
         \/ drive' = [drive EXCEPT ![t].pc = "next"]
  BY DEF SendFrame
<1> HIDE DEF f
<1>4. /\ Append(chan[t].frames, f) \in Seq(Frames)
      /\ Len(Append(chan[t].frames, f)) = Len(chan[t].frames) + 1
      /\ Len(chan[t].frames) \in Nat
  BY <1>1, <1>2
<1>5. [chan[t] EXCEPT !.frames = Append(@, f)] \in ChanRow
  BY <1>1, <1>4 DEF ChanRow
<1>6. chan' \in [Turns -> ChanRow]
  BY <1>3, <1>5 DEF TypeOK
<1>7. \A u \in Turns : Len(chan'[u].events) <= Cap /\ Len(chan'[u].frames) <= Cap
  BY <1>1, <1>3, <1>4, LimitsAssumption DEF TypeOK, ChanRow
<1>8. DriveOK'
  BY <1>3, DriverMoves DEF DriveLabels, Outcomes
<1> QED
  BY <1>6, <1>7, <1>8 DEF ChanOK

LEMMA DrainType ==
  ASSUME TypeOK, NEW t \in Turns, Drain(t)
  PROVE  ChanOK' /\ DriveOK'
<1>1. DriveOK'
  <2>1. drive' = [drive EXCEPT ![t].pc = "mark"] => DriveOK'
    BY DriverMoves DEF DriveLabels, Outcomes
  <2> QED
    BY <2>1 DEF Drain, TypeOK, DriveOK
<1>2. CASE chan[t].events # <<>> /\ chan' = [chan EXCEPT ![t].events = Tail(@)]
  BY <1>1, <1>2, TakeType
<1>3. CASE UNCHANGED chan
  BY <1>1, <1>3 DEF TypeOK, ChanOK
<1> QED
  BY <1>2, <1>3 DEF Drain

LEMMA MarkType ==
  ASSUME TypeOK, NEW t \in Turns, Mark(t)
  PROVE  ChanOK' /\ DriveOK' /\ StoreOK' /\ faults' \in Nat
<1>1. chan[t] \in ChanRow /\ store[t] \in StoreRow /\ <<>> \in Seq(Events) /\ faults \in Nat
  BY DEF TypeOK
<1>2. DriveOK'
  BY DriverMoves DEF Mark, DriveLabels, Outcomes
<1>3. [chan[t] EXCEPT !.open = FALSE, !.events = <<>>] \in ChanRow
  BY <1>1 DEF ChanRow
<1>4. chan' \in [Turns -> ChanRow]
  BY <1>3 DEF Mark, TypeOK
<1>5. \A u \in Turns : Len(chan'[u].events) <= Cap /\ Len(chan'[u].frames) <= Cap
  BY <1>1, LimitsAssumption DEF Mark, TypeOK, ChanRow
<1>6. \A b \in BOOLEAN : [store[t] EXCEPT !.marker = b] \in StoreRow
  BY <1>1 DEF StoreRow
<1>7. (drive[t].policy # "always_continue") \in BOOLEAN
  OBVIOUS
<1>8. [store[t] EXCEPT !.marker = drive[t].policy # "always_continue"] \in StoreRow
  BY <1>6, <1>7
<1>9. StoreOK'
  BY <1>8 DEF Mark, TypeOK, StoreOK
<1>10. faults' \in Nat
  BY <1>1 DEF Mark, Fault
<1> QED
  BY <1>2, <1>4, <1>5, <1>9, <1>10 DEF ChanOK

\* The steps of the pipeline with updates of their own.
LEMMA PipeRows ==
  ASSUME TypeOK, NEW t \in Turns, NEW l \in Labels, NEW g \in Guards
  PROVE  /\ [pipe[t] EXCEPT !.guard = g] \in PipeRow
         /\ [pipe[t] EXCEPT !.pc = l, !.guard = g] \in PipeRow
         /\ [pipe[t] EXCEPT !.pc = l, !.rounds = @ + 1] \in PipeRow
         /\ [pipe[t] EXCEPT !.deltas = @ + 1] \in PipeRow
         /\ [pipe[t] EXCEPT !.pc = l, !.signal = "roll"] \in PipeRow
<1>1. pipe[t] \in PipeRow /\ pipe[t].rounds + 1 \in Nat /\ pipe[t].deltas + 1 \in Nat
  BY DEF TypeOK, PipeRow
<1>2. /\ [pipe[t] EXCEPT !.guard = g] \in PipeRow
      /\ [pipe[t] EXCEPT !.pc = l, !.guard = g] \in PipeRow
  BY <1>1 DEF PipeRow
<1>3. /\ [pipe[t] EXCEPT !.pc = l, !.rounds = @ + 1] \in PipeRow
      /\ [pipe[t] EXCEPT !.deltas = @ + 1] \in PipeRow
  BY <1>1 DEF PipeRow
<1>4. [pipe[t] EXCEPT !.pc = l, !.signal = "roll"] \in PipeRow
  BY <1>1 DEF PipeRow, AllSignals
<1> QED
  BY <1>2, <1>3, <1>4

LEMMA GuardType ==
  ASSUME TypeOK, NEW t \in Turns, Poll(t) \/ GiveUp(t)
  PROVE  PipeOK'
<1>1. "context" \in Labels /\ {"waiting", "passed", "waited", "gave_up"} \subseteq Guards
  BY DEF Labels, Early, Guards
<1> DEFINE g == IF pipe[t].guard = "waiting" THEN "waited" ELSE "passed"
<1>2. g \in Guards
  BY <1>1
<1>3. \/ pipe' = [pipe EXCEPT ![t].pc = "context", ![t].guard = g]
      \/ pipe' = [pipe EXCEPT ![t].guard = "waiting"]
      \/ pipe' = [pipe EXCEPT ![t].pc = "context", ![t].guard = "gave_up"]
  BY DEF Poll, GiveUp, TypeOK, PipeRow
<1> HIDE DEF g
<1>4. /\ [pipe[t] EXCEPT !.pc = "context", !.guard = g] \in PipeRow
      /\ [pipe[t] EXCEPT !.guard = "waiting"] \in PipeRow
      /\ [pipe[t] EXCEPT !.pc = "context", !.guard = "gave_up"] \in PipeRow
  BY <1>1, <1>2, PipeRows
<1> QED
  BY <1>3, <1>4 DEF TypeOK, PipeOK

LEMMA LoopType ==
  ASSUME TypeOK, NEW t \in Turns, Round(t) \/ StreamText(t) \/ AwaitRoll(t)
  PROVE  PipeOK'
<1>1. {"check", "forced", "stream"} \subseteq Labels /\ "none" \in Guards
  BY DEF Labels, Early, Guards
<1>2. CASE Round(t)
  <2>1. CASE \E l \in {"check", "forced"} : Goto(t, l)
    BY <1>1, <2>1, GotoType DEF TypeOK, PipeOK
  <2>2. CASE pipe' = [pipe EXCEPT ![t].pc = "stream", ![t].rounds = @ + 1]
    BY <1>1, <2>2, PipeRows DEF TypeOK, PipeOK
  <2> QED
    BY <1>2, <2>1, <2>2 DEF Round
<1>3. CASE StreamText(t)
  BY <1>1, <1>3, PipeRows DEF StreamText, TypeOK, PipeOK
<1>4. CASE AwaitRoll(t)
  BY <1>1, <1>4, PipeRows DEF AwaitRoll, TypeOK, PipeOK
<1> QED
  BY <1>2, <1>3, <1>4

LEMMA StoreRows ==
  ASSUME TypeOK, NEW t \in Turns
  PROVE  /\ [store[t] EXCEPT !.effects = TRUE] \in StoreRow
         /\ [store[t] EXCEPT !.life = "streaming"] \in StoreRow
         /\ [store[t] EXCEPT !.trace = "done"] \in StoreRow
         /\ [store[t] EXCEPT !.failure = (store[t].life # "none"), !.trace = "failed"]
              \in StoreRow
<1>1. store[t] \in StoreRow
  BY DEF TypeOK
<1> QED
  BY <1>1 DEF StoreRow, Lives

LEMMA StoreType ==
  ASSUME TypeOK, NEW t \in Turns,
         RunTool(t) \/ SaveTurn(t) \/ Finalized(t) \/ FailTurn(t)
  PROVE  StoreOK'
<1>1. CASE RunTool(t)
  BY <1>1, StoreRows DEF RunTool, TypeOK, StoreOK
<1>2. CASE SaveTurn(t)
  BY <1>2, StoreRows DEF SaveTurn, TypeOK, StoreOK
<1>3. CASE Finalized(t)
  BY <1>3, StoreRows DEF Finalized, TypeOK, StoreOK
<1>4. CASE FailTurn(t)
  <2>1. CASE UNCHANGED store
    BY <2>1 DEF TypeOK, StoreOK
  <2>2. CASE store' = [store EXCEPT ![t].failure = store[t].life # "none",
                                    ![t].trace = "failed"]
    BY <2>2, StoreRows DEF TypeOK, StoreOK
  <2> QED
    BY <1>4, <2>1, <2>2 DEF FailTurn
<1> QED
  BY <1>1, <1>2, <1>3, <1>4

\* Only TakeEvent puts an event into the driver's hand.
LEMMA HandStep ==
  ASSUME TypeOK, HandOK, [Next]_vars
  PROVE  HandOK'
<1> SUFFICES ASSUME NEW u \in Turns, drive'[u].pc = "send"
             PROVE  FrameOf(drive'[u].hand) # "none"
  BY DEF HandOK, FrameOf
<1>0. drive[u] \in DriveRow /\ (drive[u].pc = "send" => FrameOf(drive[u].hand) # "none")
  BY DEF TypeOK, HandOK
<1>1. CASE UNCHANGED drive
  BY <1>0, <1>1
<1>2. ASSUME NEW t \in Turns, Request(t) PROVE FrameOf(drive'[u].hand) # "none"
  BY <1>0, <1>2 DEF Request, TypeOK, DriveRow
<1>3. ASSUME NEW t \in Turns, LoadScene(t) PROVE FrameOf(drive'[u].hand) # "none"
  BY <1>0, <1>3 DEF LoadScene, TypeOK, DriveRow
<1>4. ASSUME NEW t \in Turns, LoadTranscript(t) PROVE FrameOf(drive'[u].hand) # "none"
  BY <1>0, <1>4 DEF LoadTranscript, TypeOK, DriveRow
<1>5. ASSUME NEW t \in Turns, SeeClosed(t) PROVE FrameOf(drive'[u].hand) # "none"
  <2> DEFINE m == drive[t].mutated
  <2>1. \/ drive' = [drive EXCEPT ![t].pc = "ended", ![t].outcome = "cancelled",
                                    ![t].mutated = m]
        \/ drive' = [drive EXCEPT ![t].pc = "drain", ![t].mutated = m]
    BY <1>5 DEF SeeClosed, Disconnect
  <2> HIDE DEF m
  <2>2. CASE u = t
    BY <2>1, <2>2 DEF TypeOK, DriveRow
  <2>3. CASE u # t
    BY <1>0, <2>1, <2>3 DEF TypeOK
  <2> QED
    BY <2>2, <2>3
<1>6. ASSUME NEW t \in Turns, TakeEvent(t) PROVE FrameOf(drive'[u].hand) # "none"
  BY <1>0, <1>6 DEF TakeEvent, TypeOK, DriveRow
<1>7. ASSUME NEW t \in Turns, SeeEnd(t) PROVE FrameOf(drive'[u].hand) # "none"
  BY <1>0, <1>7 DEF SeeEnd, TypeOK, DriveRow
<1>8. ASSUME NEW t \in Turns, SendFrame(t) PROVE FrameOf(drive'[u].hand) # "none"
  BY <1>0, <1>8 DEF SendFrame, TypeOK, DriveRow
<1>9. ASSUME NEW t \in Turns, SendRefused(t) PROVE FrameOf(drive'[u].hand) # "none"
  <2> DEFINE m == drive[t].mutated
  <2>1. \/ drive' = [drive EXCEPT ![t].pc = "ended", ![t].outcome = "cancelled",
                                    ![t].mutated = m]
        \/ drive' = [drive EXCEPT ![t].pc = "drain", ![t].mutated = m]
    BY <1>9 DEF SendRefused, Disconnect
  <2> HIDE DEF m
  <2>2. CASE u = t
    BY <2>1, <2>2 DEF TypeOK, DriveRow
  <2>3. CASE u # t
    BY <1>0, <2>1, <2>3 DEF TypeOK
  <2> QED
    BY <2>2, <2>3
<1>10. ASSUME NEW t \in Turns, Drain(t) PROVE FrameOf(drive'[u].hand) # "none"
  BY <1>0, <1>10 DEF Drain, TypeOK, DriveRow
<1>11. ASSUME NEW t \in Turns, Mark(t) PROVE FrameOf(drive'[u].hand) # "none"
  BY <1>0, <1>11 DEF Mark, TypeOK, DriveRow
<1> QED
  BY <1>1, <1>2, <1>3, <1>4, <1>5, <1>6, <1>7, <1>8, <1>9, <1>10, <1>11
     DEF Next, Client, Driver, Pipeline, vars, Read, HangUp, HeadPhases, PreContextNavigate,
         SendPreContext, Poll, GiveUp, ContextAssembly, Round, StreamCancelled,
         StreamText, StreamTool, RunTool, StreamEnds, AwaitRoll, CheckToken,
         VerifyAfterStream, SceneNavigate, SendScene, SaveTurn, EmitText, TurnComplete,
         MarkCritical, Finalized, FailTurn, SendFailed, HeavyTail, Panic

\* One step of any task keeps the types.
LEMMA TypeStep ==
  ASSUME TypeOK, HandOK, [Next]_vars
  PROVE  TypeOK'
<1> USE DEF PipeOK, StoreOK, DriveOK, ClientOK, ChanOK
<1>l. /\ Early \cup Late \cup {"fail", "fail_send", "ended"} \subseteq Labels
      /\ Lives = {"none", "streaming", "critical_done", "complete"}
  BY DEF Labels, Lives
<1>0. CASE UNCHANGED vars
  BY <1>0 DEF TypeOK, vars
<1>1. ASSUME NEW t \in Turns, Request(t) PROVE TypeOK'
  BY <1>l, <1>1, RequestType
     DEF TypeOK, Request
<1>2. ASSUME NEW t \in Turns, Read(t) PROVE TypeOK'
  BY <1>l, <1>2, ReadType
     DEF TypeOK, Read
<1>3. ASSUME NEW t \in Turns, HangUp(t) PROVE TypeOK'
  BY <1>l, <1>3, HangUpType
     DEF TypeOK, HangUp
<1>4. ASSUME NEW t \in Turns, LoadScene(t) PROVE TypeOK'
  BY <1>l, <1>4, LoadType
     DEF TypeOK, LoadScene
<1>5. ASSUME NEW t \in Turns, LoadTranscript(t) PROVE TypeOK'
  BY <1>l, <1>5, LoadType, GotoType
     DEF TypeOK, LoadTranscript, Early
<1>6. ASSUME NEW t \in Turns, SeeClosed(t) PROVE TypeOK'
  <2>1. drive[t].mutated \in BOOLEAN
    BY DEF TypeOK, DriveRow
  <2> QED
    BY <1>6, <2>1, DisconnectType DEF TypeOK, SeeClosed
<1>7. ASSUME NEW t \in Turns, TakeEvent(t) PROVE TypeOK'
  BY <1>l, <1>7, TakeEventType
     DEF TypeOK, TakeEvent
<1>8. ASSUME NEW t \in Turns, SeeEnd(t) PROVE TypeOK'
  BY <1>l, <1>8, DriverMoves
     DEF TypeOK, SeeEnd, DriveLabels, Outcomes
<1>9. ASSUME NEW t \in Turns, SendFrame(t) PROVE TypeOK'
  BY <1>l, <1>9, SendFrameType
     DEF TypeOK, SendFrame
<1>10. ASSUME NEW t \in Turns, SendRefused(t) PROVE TypeOK'
  <2>1. drive[t].mutated \in BOOLEAN
    BY DEF TypeOK, DriveRow
  <2> QED
    BY <1>10, <2>1, DisconnectType DEF TypeOK, SendRefused
<1>11. ASSUME NEW t \in Turns, Drain(t) PROVE TypeOK'
  BY <1>l, <1>11, DrainType
     DEF TypeOK, Drain
<1>12. ASSUME NEW t \in Turns, Mark(t) PROVE TypeOK'
  BY <1>l, <1>12, MarkType
     DEF TypeOK, Mark
<1>13. ASSUME NEW t \in Turns, HeadPhases(t) PROVE TypeOK'
  BY <1>l, <1>13, GotoType
     DEF TypeOK, HeadPhases, Early, Late
<1>14. ASSUME NEW t \in Turns, ContextAssembly(t) PROVE TypeOK'
  BY <1>l, <1>14, GotoType
     DEF TypeOK, ContextAssembly, Early, Late
<1>15. ASSUME NEW t \in Turns, StreamCancelled(t) PROVE TypeOK'
  BY <1>l, <1>15, GotoType
     DEF TypeOK, StreamCancelled, Early, Late
<1>16. ASSUME NEW t \in Turns, StreamTool(t) PROVE TypeOK'
  BY <1>l, <1>16, GotoType
     DEF TypeOK, StreamTool, Early, Late
<1>17. ASSUME NEW t \in Turns, StreamEnds(t) PROVE TypeOK'
  BY <1>l, <1>17, GotoType
     DEF TypeOK, StreamEnds, Early, Late
<1>18. ASSUME NEW t \in Turns, CheckToken(t) PROVE TypeOK'
  BY <1>l, <1>18, GotoType
     DEF TypeOK, CheckToken, Early, Late
<1>19. ASSUME NEW t \in Turns, PreContextNavigate(t) PROVE TypeOK'
  BY <1>l, <1>19, GotoType, MoveType
     DEF TypeOK, PreContextNavigate, Early, Late
<1>20. ASSUME NEW t \in Turns, SceneNavigate(t) PROVE TypeOK'
  BY <1>l, <1>20, GotoType, MoveType
     DEF TypeOK, SceneNavigate, Early, Late
<1>21. ASSUME NEW t \in Turns, SendPreContext(t) PROVE TypeOK'
  BY <1>l, <1>21, GotoType, SendType
     DEF TypeOK, SendPreContext, Early, Late, Events
<1>22. ASSUME NEW t \in Turns, VerifyAfterStream(t) PROVE TypeOK'
  BY <1>l, <1>22, GotoType, SendType
     DEF TypeOK, VerifyAfterStream, Early, Late, Events
<1>23. ASSUME NEW t \in Turns, SendScene(t) PROVE TypeOK'
  BY <1>l, <1>23, GotoType, SendType
     DEF TypeOK, SendScene, Early, Late, Events
<1>24. ASSUME NEW t \in Turns, EmitText(t) PROVE TypeOK'
  BY <1>l, <1>24, GotoType, SendType
     DEF TypeOK, EmitText, Early, Late, Events
<1>25. ASSUME NEW t \in Turns, TurnComplete(t) PROVE TypeOK'
  BY <1>l, <1>25, GotoType, SendType
     DEF TypeOK, TurnComplete, Early, Late, Events
<1>26. ASSUME NEW t \in Turns, SendFailed(t) PROVE TypeOK'
  BY <1>l, <1>26, GotoType, SendType
     DEF TypeOK, SendFailed, Early, Late, Events
<1>27. ASSUME NEW t \in Turns, Poll(t) PROVE TypeOK'
  BY <1>l, <1>27, GuardType
     DEF TypeOK, Poll
<1>28. ASSUME NEW t \in Turns, GiveUp(t) PROVE TypeOK'
  BY <1>l, <1>28, GuardType
     DEF TypeOK, GiveUp
<1>29. ASSUME NEW t \in Turns, Round(t) PROVE TypeOK'
  BY <1>l, <1>29, LoopType
     DEF TypeOK, Round
<1>30. ASSUME NEW t \in Turns, StreamText(t) PROVE TypeOK'
  BY <1>l, <1>30, LoopType, SendType
     DEF TypeOK, StreamText, Events
<1>31. ASSUME NEW t \in Turns, AwaitRoll(t) PROVE TypeOK'
  BY <1>l, <1>31, LoopType, SendType
     DEF TypeOK, AwaitRoll, Events
<1>32. ASSUME NEW t \in Turns, RunTool(t) PROVE TypeOK'
  BY <1>l, <1>32, GotoType, StoreType
     DEF TypeOK, RunTool, Early
<1>33. ASSUME NEW t \in Turns, SaveTurn(t) PROVE TypeOK'
  <2>1. PipeOK' /\ StoreOK'
    BY <1>l, <1>33, GotoType, StoreType DEF TypeOK, SaveTurn, Late
  <2>2. rows \in Seq(Turns) /\ Append(rows, t) \in Seq(Turns) /\ faults \in Nat
    BY DEF TypeOK
  <2>3. rows' \in Seq(Turns) /\ faults' \in Nat
    BY <1>33, <2>2 DEF SaveTurn, Fault
  <2> QED
    BY <1>33, <2>1, <2>3 DEF TypeOK, SaveTurn
<1>34. ASSUME NEW t \in Turns, MarkCritical(t) PROVE TypeOK'
  BY <1>l, <1>34, GotoType, AdvancedType
     DEF TypeOK, MarkCritical, Late, Fault
<1>35. ASSUME NEW t \in Turns, Finalized(t) PROVE TypeOK'
  BY <1>l, <1>35, GotoType, StoreType
     DEF TypeOK, Finalized
<1>36. ASSUME NEW t \in Turns, FailTurn(t) PROVE TypeOK'
  <2>1. PipeOK'
    BY <1>l, <1>36, GotoType DEF TypeOK, FailTurn
  <2>2. StoreOK'
    BY <1>36, StoreType
  <2>3. faults' \in Nat
    BY <1>36 DEF TypeOK, FailTurn, Fault
  <2> QED
    BY <1>36, <2>1, <2>2, <2>3 DEF TypeOK, FailTurn
<1>37. ASSUME NEW t \in Turns, HeavyTail(t) PROVE TypeOK'
  BY <1>l, <1>37, AdvancedType
     DEF TypeOK, HeavyTail, Fault
<1>38. ASSUME NEW t \in Turns, Panic(t) PROVE TypeOK'
  BY <1>l, <1>38, GotoType
     DEF TypeOK, Panic, Fault
<1> QED
  BY <1>0, <1>1, <1>2, <1>3, <1>4, <1>5, <1>6, <1>7, <1>8, <1>9, <1>10, <1>11, <1>12, <1>13, <1>14,
     <1>15, <1>16, <1>17, <1>18, <1>19, <1>20, <1>21, <1>22, <1>23, <1>24, <1>25, <1>26, <1>27,
     <1>28, <1>29, <1>30, <1>31, <1>32, <1>33, <1>34, <1>35, <1>36, <1>37, <1>38
     DEF Next, Client, Driver, Pipeline

\* Every behaviour keeps the types and the capacity of the channels.
THEOREM TypeCorrect == Spec => []TypeOK
<1>1. Init => TypeOK /\ HandOK
  <2> SUFFICES ASSUME Init PROVE TypeOK /\ HandOK
    OBVIOUS
  <2>1. store \in [Turns -> StoreRow]
    BY DEF Init, StoreRow, Lives
  <2>2. pipe \in [Turns -> PipeRow]
    BY DEF Init, PipeRow, Labels, AllSignals, Guards
  <2>3. chan \in [Turns -> ChanRow]
    <3>1. <<>> \in Seq(Events) /\ <<>> \in Seq(Frames)
      OBVIOUS
    <3> QED
      BY <3>1 DEF Init, ChanRow
  <2>4. drive \in [Turns -> DriveRow]
    BY DEF Init, DriveRow, DriveLabels, Events, AllPolicies, Outcomes
  <2>5. client \in [Turns -> ClientRow]
    BY DEF Init, ClientRow
  <2>6. \A t \in Turns : Len(chan[t].events) <= Cap /\ Len(chan[t].frames) <= Cap
    BY LimitsAssumption DEF Init
  <2> QED
    BY <2>1, <2>2, <2>3, <2>4, <2>5, <2>6 DEF Init, TypeOK, HandOK
<1>2. (TypeOK /\ HandOK) /\ [Next]_vars => (TypeOK /\ HandOK)'
  BY TypeStep, HandStep
<1> QED
  BY <1>1, <1>2, PTL DEF Spec

-----------------------------------------------------------------------------
(* The two writers of pp_lifecycle *)

\* A request that was not sent has no handler.
AskInv == \A t \in Turns : client[t].pc = "idle" => drive[t].pc = "idle"

LEMMA AskStep ==
  ASSUME TypeOK, AskInv, [Next]_vars
  PROVE  AskInv'
<1> SUFFICES ASSUME NEW u \in Turns, client'[u].pc = "idle"
             PROVE  drive'[u].pc = "idle"
  BY DEF AskInv
<1>t. /\ drive \in [Turns -> DriveRow] /\ client \in [Turns -> ClientRow]
      /\ client[u].pc = "idle" => drive[u].pc = "idle"
  BY DEF TypeOK, AskInv
<1>1. CASE UNCHANGED <<drive, client>>
  BY <1>1, <1>t
<1>2. ASSUME NEW t \in Turns, Client(t) PROVE drive'[u].pc = "idle"
  <2>1. CASE u = t
    <3>1. CASE Request(t)
      BY <1>t, <2>1, <3>1 DEF Request, ClientRow
    <3>2. CASE Read(t)
      BY <1>t, <2>1, <3>2 DEF Read, ClientRow
    <3>3. CASE HangUp(t)
      BY <1>t, <2>1, <3>3 DEF HangUp, ClientRow
    <3> QED
      BY <1>2, <3>1, <3>2, <3>3 DEF Client
  <2>2. CASE u # t
    <3>1. client'[u] = client[u] /\ drive'[u] = drive[u]
      BY <1>2, <1>t, <2>2 DEF Client, Request, Read, HangUp
    <3> QED
      BY <1>t, <3>1
  <2> QED
    BY <2>1, <2>2
<1>3. ASSUME NEW t \in Turns, Driver(t) PROVE drive'[u].pc = "idle"
  <2>1. UNCHANGED client /\ drive[t].pc # "idle"
    BY <1>3 DEF Driver, LoadScene, LoadTranscript, SeeClosed, TakeEvent, SeeEnd, SendFrame,
               SendRefused, Drain, Mark
  <2>2. u # t
    BY <1>t, <2>1
  <2>3. drive'[u] = drive[u]
    BY <1>3, <1>t, <2>2 DEF Driver, Disconnect, LoadScene, LoadTranscript, SeeClosed, TakeEvent,
       SeeEnd, SendFrame,
               SendRefused, Drain, Mark
  <2> QED
    BY <1>t, <2>1, <2>3
<1>4. ASSUME NEW t \in Turns, Pipeline(t) \/ HeavyTail(t) \/ Panic(t)
      PROVE  UNCHANGED <<drive, client>>
  BY <1>4 DEF Pipeline, HeavyTail, Panic, HeadPhases, PreContextNavigate, SendPreContext, Poll,
     GiveUp,
             ContextAssembly, Round, StreamCancelled, StreamText, StreamTool, RunTool,
             StreamEnds, AwaitRoll, CheckToken, VerifyAfterStream, SceneNavigate,
             SendScene, SaveTurn, EmitText, TurnComplete, MarkCritical, Finalized,
             FailTurn, SendFailed
<1> QED
  BY <1>1, <1>2, <1>3, <1>4 DEF Next, vars

\* A pipeline is spawned once, by its handler.
StartInv == \A t \in Turns :
    drive[t].pc \in {"idle", "load_scene", "load_transcript"} => pipe[t].pc = "idle"

LEMMA StartStep ==
  ASSUME TypeOK, AskInv, StartInv, [Next]_vars
  PROVE  StartInv'
<1> SUFFICES ASSUME NEW u \in Turns,
                    drive'[u].pc \in {"idle", "load_scene", "load_transcript"}
             PROVE  pipe'[u].pc = "idle"
  BY DEF StartInv
<1>t. /\ drive \in [Turns -> DriveRow] /\ pipe \in [Turns -> PipeRow]
      /\ drive[u].pc \in {"idle", "load_scene", "load_transcript"} => pipe[u].pc = "idle"
      /\ client[u].pc = "idle" => drive[u].pc = "idle"
  BY DEF TypeOK, StartInv, AskInv
<1>1. CASE UNCHANGED <<drive, pipe>>
  BY <1>1, <1>t
<1>2. ASSUME NEW t \in Turns, Request(t) PROVE pipe'[u].pc = "idle"
  BY <1>2, <1>t DEF Request, DriveRow, PipeRow, Goto
<1>3. ASSUME NEW t \in Turns, LoadScene(t) PROVE pipe'[u].pc = "idle"
  BY <1>3, <1>t DEF LoadScene, DriveRow, PipeRow, Goto
<1>4. ASSUME NEW t \in Turns, LoadTranscript(t) PROVE pipe'[u].pc = "idle"
  BY <1>4, <1>t DEF LoadTranscript, DriveRow, PipeRow, Goto
<1>5. ASSUME NEW t \in Turns, SeeEnd(t) PROVE pipe'[u].pc = "idle"
  BY <1>5, <1>t DEF SeeEnd, DriveRow, PipeRow, Goto
<1>6. ASSUME NEW t \in Turns, SendFrame(t) PROVE pipe'[u].pc = "idle"
  BY <1>6, <1>t DEF SendFrame, DriveRow, PipeRow, Goto
<1>7. ASSUME NEW t \in Turns, Drain(t) PROVE pipe'[u].pc = "idle"
  BY <1>7, <1>t DEF Drain, DriveRow, PipeRow, Goto
<1>8. ASSUME NEW t \in Turns, Mark(t) PROVE pipe'[u].pc = "idle"
  BY <1>8, <1>t DEF Mark, DriveRow, PipeRow, Goto
<1>9. ASSUME NEW t \in Turns, SeeClosed(t) PROVE pipe'[u].pc = "idle"
  <2>1. UNCHANGED pipe /\ drive[t].pc \in {"next", "send"}
    BY <1>9 DEF SeeClosed
  <2>2. CASE u = t
    <3>1. drive'[t].pc \in {"ended", "send", "drain"}
      BY <1>9, <1>t DEF SeeClosed, Disconnect, DriveRow
    <3> QED
      BY <2>2, <3>1
  <2>3. CASE u # t
    BY <1>9, <1>t, <2>1, <2>3 DEF SeeClosed, Disconnect
  <2> QED
    BY <2>2, <2>3
<1>10. ASSUME NEW t \in Turns, TakeEvent(t) PROVE pipe'[u].pc = "idle"
  <2>1. UNCHANGED pipe /\ drive[t].pc \in {"next", "send"}
    BY <1>10 DEF TakeEvent
  <2>2. CASE u = t
    <3>1. drive'[t].pc \in {"ended", "send", "drain"}
      BY <1>10, <1>t DEF TakeEvent, Disconnect, DriveRow
    <3> QED
      BY <2>2, <3>1
  <2>3. CASE u # t
    BY <1>10, <1>t, <2>1, <2>3 DEF TakeEvent, Disconnect
  <2> QED
    BY <2>2, <2>3
<1>11. ASSUME NEW t \in Turns, SendRefused(t) PROVE pipe'[u].pc = "idle"
  <2>1. UNCHANGED pipe /\ drive[t].pc \in {"next", "send"}
    BY <1>11 DEF SendRefused
  <2>2. CASE u = t
    <3>1. drive'[t].pc \in {"ended", "send", "drain"}
      BY <1>11, <1>t DEF SendRefused, Disconnect, DriveRow
    <3> QED
      BY <2>2, <3>1
  <2>3. CASE u # t
    BY <1>11, <1>t, <2>1, <2>3 DEF SendRefused, Disconnect
  <2> QED
    BY <2>2, <2>3
\* The pipeline's own steps start from a pipeline that was spawned.
<1>12. ASSUME NEW t \in Turns, Pipeline(t) \/ Panic(t) PROVE pipe'[u].pc = "idle"
  <2>1. UNCHANGED drive /\ pipe[t].pc # "idle"
    BY <1>12 DEF Pipeline, HeadPhases, PreContextNavigate, SendPreContext, Poll, GiveUp,
       ContextAssembly, Round, StreamCancelled, StreamText, StreamTool, RunTool, StreamEnds,
       AwaitRoll, CheckToken, VerifyAfterStream, SceneNavigate, SendScene, SaveTurn, EmitText,
       TurnComplete, MarkCritical, Finalized, FailTurn, SendFailed, Panic,
       Streaming
  <2>2. u # t
    BY <1>t, <2>1
  <2>3. pipe'[u] = pipe[u]
    BY <1>12, <1>t, <2>2 DEF Pipeline, Goto, Move, HeadPhases, PreContextNavigate, SendPreContext,
       Poll, GiveUp, ContextAssembly, Round, StreamCancelled, StreamText, StreamTool, RunTool,
       StreamEnds, AwaitRoll, CheckToken, VerifyAfterStream, SceneNavigate, SendScene, SaveTurn,
       EmitText, TurnComplete, MarkCritical, Finalized, FailTurn, SendFailed, Panic
  <2> QED
    BY <1>t, <2>1, <2>3
<1> QED
  BY <1>1, <1>2, <1>3, <1>4, <1>5, <1>6, <1>7, <1>8, <1>9, <1>10, <1>11, <1>12
     DEF Next, Client, Driver, vars, Read, HangUp, HeavyTail

Unsaved == Early \cup {"idle", "fail", "fail_send", "verify", "critical_scene",
                       "scene_send", "save"}

\* The row appears only after "save"; the heavy task runs only when the
\* pipeline is through, and only it completes the row.
LifeInv == \A t \in Turns :
    /\ pipe[t].pc \in Unsaved => store[t].life = "none"
    /\ heavy[t] # "idle" => pipe[t].pc = "ended"
    /\ store[t].life = "complete" => heavy[t] = "ended"

LEMMA LifeStep ==
  ASSUME TypeOK, StartInv, LifeInv, [Next]_vars
  PROVE  /\ LifeInv'
         /\ \A u \in Turns : Rank(store'[u].life) >= Rank(store[u].life)
<1> SUFFICES ASSUME NEW u \in Turns
             PROVE  /\ pipe'[u].pc \in Unsaved => store'[u].life = "none"
                    /\ heavy'[u] # "idle" => pipe'[u].pc = "ended"
                    /\ store'[u].life = "complete" => heavy'[u] = "ended"
                    /\ Rank(store'[u].life) >= Rank(store[u].life)
  BY DEF LifeInv
<1> DEFINE Goal == /\ pipe'[u].pc \in Unsaved => store'[u].life = "none"
                   /\ heavy'[u] # "idle" => pipe'[u].pc = "ended"
                   /\ store'[u].life = "complete" => heavy'[u] = "ended"
                   /\ Rank(store'[u].life) >= Rank(store[u].life)
<1>t. /\ pipe \in [Turns -> PipeRow] /\ store \in [Turns -> StoreRow]
      /\ heavy \in [Turns -> {"idle", "running", "ended"}]
      /\ pipe[u].pc \in Labels /\ store[u].life \in Lives
  BY DEF TypeOK, PipeRow, StoreRow
<1>i. \A t \in Turns : /\ drive[t].pc = "load_transcript" => pipe[t].pc = "idle"
                       /\ pipe[t].pc \in Unsaved => store[t].life = "none"
                       /\ heavy[t] # "idle" => pipe[t].pc = "ended"
                       /\ store[t].life = "complete" => heavy[t] = "ended"
  BY DEF LifeInv, StartInv
<1>r. \A l \in Lives : Rank(l) >= Rank(l)
  BY DEF Rank, Lives
<1>1. CASE UNCHANGED <<store, pipe, heavy>>
  BY <1>1, <1>t, <1>i, <1>r
<1>2. ASSUME NEW t \in Turns, LoadTranscript(t) PROVE Goal
  BY <1>2, <1>t, <1>i, <1>r DEF LoadTranscript, Goto, PipeRow, Unsaved, Early
<1>3. ASSUME NEW t \in Turns, HeadPhases(t) PROVE Goal
  BY <1>3, <1>t, <1>i, <1>r DEF HeadPhases, Goto, PipeRow, Unsaved, Early
<1>4. ASSUME NEW t \in Turns, PreContextNavigate(t) PROVE Goal
  BY <1>4, <1>t, <1>i, <1>r DEF PreContextNavigate, Move, Goto, PipeRow, Unsaved, Early
<1>5. ASSUME NEW t \in Turns, SendPreContext(t) PROVE Goal
  BY <1>5, <1>t, <1>i, <1>r DEF SendPreContext, Goto, PipeRow, Unsaved, Early
<1>6. ASSUME NEW t \in Turns, Poll(t) PROVE Goal
  BY <1>6, <1>t, <1>i, <1>r DEF Poll, Goto, PipeRow, Unsaved, Early
<1>7. ASSUME NEW t \in Turns, GiveUp(t) PROVE Goal
  BY <1>7, <1>t, <1>i, <1>r DEF GiveUp, Goto, PipeRow, Unsaved, Early
<1>8. ASSUME NEW t \in Turns, ContextAssembly(t) PROVE Goal
  BY <1>8, <1>t, <1>i, <1>r DEF ContextAssembly, Goto, PipeRow, Unsaved, Early
<1>9. ASSUME NEW t \in Turns, Round(t) PROVE Goal
  BY <1>9, <1>t, <1>i, <1>r DEF Round, Goto, PipeRow, Unsaved, Early
<1>10. ASSUME NEW t \in Turns, StreamCancelled(t) PROVE Goal
  BY <1>10, <1>t, <1>i, <1>r DEF StreamCancelled, Goto, PipeRow, Unsaved, Early, Streaming
<1>11. ASSUME NEW t \in Turns, StreamText(t) PROVE Goal
  BY <1>11, <1>t, <1>i, <1>r DEF StreamText, Goto, PipeRow, Unsaved, Early, Streaming
<1>12. ASSUME NEW t \in Turns, StreamTool(t) PROVE Goal
  BY <1>12, <1>t, <1>i, <1>r DEF StreamTool, Goto, PipeRow, Unsaved, Early, Streaming
<1>13. ASSUME NEW t \in Turns, StreamEnds(t) PROVE Goal
  BY <1>13, <1>t, <1>i, <1>r DEF StreamEnds, Goto, PipeRow, Unsaved, Early, Streaming
<1>14. ASSUME NEW t \in Turns, AwaitRoll(t) PROVE Goal
  BY <1>14, <1>t, <1>i, <1>r DEF AwaitRoll, Goto, PipeRow, Unsaved, Early
<1>15. ASSUME NEW t \in Turns, CheckToken(t) PROVE Goal
  BY <1>15, <1>t, <1>i, <1>r DEF CheckToken, Goto, PipeRow, Unsaved, Early
<1>16. ASSUME NEW t \in Turns, VerifyAfterStream(t) PROVE Goal
  BY <1>16, <1>t, <1>i, <1>r DEF VerifyAfterStream, Goto, PipeRow, Unsaved, Early
<1>17. ASSUME NEW t \in Turns, SceneNavigate(t) PROVE Goal
  BY <1>17, <1>t, <1>i, <1>r DEF SceneNavigate, Move, Goto, PipeRow, Unsaved, Early
<1>18. ASSUME NEW t \in Turns, SendScene(t) PROVE Goal
  BY <1>18, <1>t, <1>i, <1>r DEF SendScene, Goto, PipeRow, Unsaved, Early
<1>19. ASSUME NEW t \in Turns, EmitText(t) PROVE Goal
  BY <1>19, <1>t, <1>i, <1>r DEF EmitText, Goto, PipeRow, Unsaved, Early
<1>20. ASSUME NEW t \in Turns, TurnComplete(t) PROVE Goal
  BY <1>20, <1>t, <1>i, <1>r DEF TurnComplete, Goto, PipeRow, Unsaved, Early
<1>21. ASSUME NEW t \in Turns, SendFailed(t) PROVE Goal
  BY <1>21, <1>t, <1>i, <1>r DEF SendFailed, Goto, PipeRow, Unsaved, Early
<1>22. ASSUME NEW t \in Turns, Panic(t) PROVE Goal
  BY <1>22, <1>t, <1>i, <1>r DEF Panic, Goto, PipeRow, Unsaved, Early
<1>23. ASSUME NEW t \in Turns, Mark(t) PROVE Goal
  <2> DEFINE b == drive[t].policy # "always_continue"
  <2>1. /\ UNCHANGED <<pipe, heavy>>
        /\ UNCHANGED store \/ store' = [store EXCEPT ![t].marker = b]
    BY <1>23 DEF Mark
  <2> HIDE DEF b
  <2>2. store'[u].life = store[u].life
    BY <1>t, <2>1 DEF StoreRow
  <2> QED
    BY <1>t, <1>i, <1>r, <2>1, <2>2
<1>24. ASSUME NEW t \in Turns, RunTool(t) PROVE Goal
  BY <1>24, <1>t, <1>i, <1>r
     DEF RunTool, Goto, PipeRow, StoreRow, Unsaved, Early, Rank, Lives
<1>25. ASSUME NEW t \in Turns, SaveTurn(t) PROVE Goal
  BY <1>25, <1>t, <1>i, <1>r
     DEF SaveTurn, Goto, PipeRow, StoreRow, Unsaved, Early, Rank, Lives
<1>26. ASSUME NEW t \in Turns, MarkCritical(t) PROVE Goal
  BY <1>26, <1>t, <1>i, <1>r
     DEF MarkCritical, Goto, Advanced, PipeRow, StoreRow, Unsaved, Early, Rank, Lives
<1>27. ASSUME NEW t \in Turns, Finalized(t) PROVE Goal
  BY <1>27, <1>t, <1>i, <1>r
     DEF Finalized, Goto, PipeRow, StoreRow, Unsaved, Early, Rank, Lives
<1>28. ASSUME NEW t \in Turns, FailTurn(t) PROVE Goal
  BY <1>28, <1>t, <1>i, <1>r
     DEF FailTurn, Goto, PipeRow, StoreRow, Unsaved, Early, Rank, Lives
<1>29. ASSUME NEW t \in Turns, HeavyTail(t) PROVE Goal
  BY <1>29, <1>t, <1>i, <1>r
     DEF HeavyTail, Advanced, PipeRow, StoreRow, Unsaved, Early, Rank, Lives
<1>30. ASSUME NEW t \in Turns,
             \/ Request(t) \/ Read(t) \/ HangUp(t) \/ LoadScene(t) \/ SeeClosed(t)
             \/ TakeEvent(t) \/ SeeEnd(t) \/ SendFrame(t) \/ SendRefused(t) \/ Drain(t)
       PROVE Goal
  <2>1. UNCHANGED <<store, pipe, heavy>>
    BY <1>30 DEF Request, Read, HangUp, LoadScene, SeeClosed, TakeEvent, SeeEnd, SendFrame,
       SendRefused, Drain
  <2> QED
    BY <1>1, <2>1
<1>31. ASSUME UNCHANGED vars PROVE Goal
  BY <1>1, <1>31 DEF vars
<1> HIDE DEF Goal
<1>32. ASSUME NEW t \in Turns, Client(t) \/ Driver(t) PROVE Goal
  BY <1>30, <1>32, <1>2, <1>23 DEF Client, Driver
<1>33. ASSUME NEW t \in Turns, Pipeline(t) PROVE Goal
  BY <1>33, <1>3, <1>4, <1>5, <1>6, <1>7, <1>8, <1>9, <1>10, <1>11, <1>12, <1>13, <1>14, <1>15,
     <1>16, <1>17, <1>18, <1>19, <1>20, <1>21, <1>24, <1>25, <1>26, <1>27, <1>28
     DEF Pipeline
<1>34. Goal
  BY <1>31, <1>32, <1>33, <1>29, <1>22 DEF Next
<1> QED
  BY <1>34 DEF Goal

SpawnInv == AskInv /\ StartInv /\ LifeInv

LEMMA SpawnHolds == Spec => []SpawnInv
<1>1. Init => SpawnInv
  BY DEF Init, SpawnInv, AskInv, StartInv, LifeInv
<1>2. TypeOK /\ SpawnInv /\ [Next]_vars => SpawnInv'
  BY AskStep, StartStep, LifeStep DEF SpawnInv
<1> QED
  BY <1>1, <1>2, TypeCorrect, PTL DEF Spec

\* pp_lifecycle never goes back, whatever fails and whoever panics.
THEOREM LifecycleForward == Spec => LifecycleMonotone
<1>1. TypeOK /\ SpawnInv /\ [Next]_vars
        => [\A t \in Turns : Rank(store'[t].life) >= Rank(store[t].life)]_vars
  BY LifeStep DEF SpawnInv
<1> QED
  BY <1>1, SpawnHolds, TypeCorrect, PTL DEF Spec, LifecycleMonotone

-----------------------------------------------------------------------------
(* Cancellation *)

Stops == Early \cup {"fail", "fail_send", "ended"}

\* The token has fired, the pipeline has not passed the check, and there is no
\* row: from here no row can come.
Doomed(t) == /\ chan[t].cancel
             /\ pipe[t].pc \in Stops
             /\ store[t].life = "none"

\* Nobody takes a token back.
LEMMA TokenStep ==
  ASSUME TypeOK, NEW u \in Turns, chan[u].cancel, [Next]_vars
  PROVE  chan'[u].cancel
<1>t. chan \in [Turns -> ChanRow] /\ chan[u] \in ChanRow
  BY DEF TypeOK
<1>1. CASE UNCHANGED chan
  BY <1>1
<1>2. ASSUME NEW t \in Turns, NEW e, Send(t, e) PROVE chan'[u].cancel
  BY <1>2, <1>t DEF Send, ChanRow
<1>3. ASSUME NEW t \in Turns, Client(t) PROVE chan'[u].cancel
  BY <1>3, <1>t DEF Client, Request, Read, HangUp, ChanRow
<1>4. ASSUME NEW t \in Turns, NEW m, Disconnect(t, m) PROVE chan'[u].cancel
  <2>1. \/ chan' = [chan EXCEPT ![t].cancel = TRUE, ![t].open = FALSE, ![t].events = <<>>]
        \/ UNCHANGED chan
    <3>1. CASE CancelNow(t, m)
      BY <1>4, <3>1 DEF Disconnect
    <3>2. CASE ~CancelNow(t, m)
      BY <1>4, <3>2 DEF Disconnect
    <3> QED
      BY <3>1, <3>2
  <2> QED
    BY <1>t, <2>1 DEF ChanRow
<1>5. ASSUME NEW t \in Turns, LoadScene(t) \/ LoadTranscript(t) \/ SeeEnd(t)
      PROVE  chan'[u].cancel
  BY <1>5 DEF LoadScene, LoadTranscript, SeeEnd
<1>6. ASSUME NEW t \in Turns, TakeEvent(t) \/ Drain(t) PROVE chan'[u].cancel
  BY <1>6, <1>t DEF TakeEvent, Drain, ChanRow
<1>7. ASSUME NEW t \in Turns, SendFrame(t) PROVE chan'[u].cancel
  <2>1. \E f : chan' = [chan EXCEPT ![t].frames = f]
    BY <1>7 DEF SendFrame
  <2> QED
    BY <1>t, <2>1 DEF ChanRow
<1>8. ASSUME NEW t \in Turns, Mark(t) PROVE chan'[u].cancel
  BY <1>8, <1>t DEF Mark, ChanRow
<1>9. ASSUME NEW t \in Turns, SeeClosed(t) \/ SendRefused(t) PROVE chan'[u].cancel
  BY <1>4, <1>9 DEF SeeClosed, SendRefused
<1>10. ASSUME NEW t \in Turns, Driver(t) PROVE chan'[u].cancel
  BY <1>5, <1>6, <1>7, <1>8, <1>9, <1>10 DEF Driver
<1>11. ASSUME NEW t \in Turns, Pipeline(t) PROVE (\E e : Send(t, e)) \/ UNCHANGED chan
  BY <1>11 DEF Pipeline, HeadPhases, PreContextNavigate, SendPreContext, Poll, GiveUp,
               ContextAssembly, Round, StreamCancelled, StreamText, StreamTool, RunTool,
               StreamEnds, AwaitRoll, CheckToken, FailTurn, SendFailed,
               VerifyAfterStream, SceneNavigate, SendScene, SaveTurn, EmitText,
               TurnComplete, MarkCritical, Finalized
<1>12. ASSUME NEW t \in Turns, HeavyTail(t) \/ Panic(t) PROVE UNCHANGED chan
  BY <1>12 DEF HeavyTail, Panic
<1>13. CASE UNCHANGED vars
  BY <1>13 DEF vars
<1> QED
  BY <1>1, <1>2, <1>3, <1>10, <1>11, <1>12, <1>13 DEF Next

LEMMA DoomedStep ==
  ASSUME TypeOK, SpawnInv, NEW u \in Turns, Doomed(u), [Next]_vars
  PROVE  Doomed(u)'
<1>t. /\ pipe \in [Turns -> PipeRow] /\ store \in [Turns -> StoreRow]
      /\ chan[u].cancel /\ pipe[u].pc \in Stops /\ store[u].life = "none"
      /\ drive[u].pc = "load_transcript" => pipe[u].pc = "idle"
  BY DEF TypeOK, Doomed, SpawnInv, StartInv
<1> SUFFICES pipe'[u].pc \in Stops /\ store'[u].life = "none"
  BY <1>t, TokenStep DEF Doomed
<1> DEFINE Goal == pipe'[u].pc \in Stops /\ store'[u].life = "none"
<1>1. ASSUME UNCHANGED <<pipe, store>> PROVE Goal
  BY <1>1, <1>t
<1>2. ASSUME NEW t \in Turns, LoadTranscript(t) PROVE Goal
  BY <1>2, <1>t DEF LoadTranscript, Goto, PipeRow, StoreRow, Stops, Early
<1>3. ASSUME NEW t \in Turns, HeadPhases(t) PROVE Goal
  BY <1>3, <1>t DEF HeadPhases, Goto, PipeRow, StoreRow, Stops, Early
<1>4. ASSUME NEW t \in Turns, PreContextNavigate(t) PROVE Goal
  BY <1>4, <1>t DEF PreContextNavigate, Move, Goto, PipeRow, StoreRow, Stops, Early
<1>5. ASSUME NEW t \in Turns, SendPreContext(t) PROVE Goal
  BY <1>5, <1>t DEF SendPreContext, Goto, PipeRow, StoreRow, Stops, Early
<1>6. ASSUME NEW t \in Turns, Poll(t) PROVE Goal
  <2>1. /\ UNCHANGED store
        /\ \/ \E g : pipe' = [pipe EXCEPT ![t].pc = "context", ![t].guard = g]
           \/ pipe' = [pipe EXCEPT ![t].guard = "waiting"]
    BY <1>6 DEF Poll
  <2>2. pipe'[u].pc \in {pipe[u].pc, "context"}
    BY <1>t, <2>1 DEF PipeRow
  <2> QED
    BY <1>t, <2>1, <2>2 DEF Stops, Early
<1>7. ASSUME NEW t \in Turns, GiveUp(t) PROVE Goal
  BY <1>7, <1>t DEF GiveUp, Goto, PipeRow, StoreRow, Stops, Early
<1>8. ASSUME NEW t \in Turns, ContextAssembly(t) PROVE Goal
  BY <1>8, <1>t DEF ContextAssembly, Goto, PipeRow, StoreRow, Stops, Early
<1>9. ASSUME NEW t \in Turns, Round(t) PROVE Goal
  BY <1>9, <1>t DEF Round, Goto, PipeRow, StoreRow, Stops, Early
<1>10. ASSUME NEW t \in Turns, StreamCancelled(t) PROVE Goal
  BY <1>10, <1>t DEF StreamCancelled, Streaming, Goto, PipeRow, StoreRow, Stops, Early
<1>11. ASSUME NEW t \in Turns, StreamText(t) PROVE Goal
  BY <1>11, <1>t DEF StreamText, Streaming, Goto, PipeRow, StoreRow, Stops, Early
<1>12. ASSUME NEW t \in Turns, StreamTool(t) PROVE Goal
  BY <1>12, <1>t DEF StreamTool, Goto, PipeRow, StoreRow, Stops, Early
<1>13. ASSUME NEW t \in Turns, RunTool(t) PROVE Goal
  BY <1>13, <1>t DEF RunTool, Goto, PipeRow, StoreRow, Stops, Early
<1>14. ASSUME NEW t \in Turns, StreamEnds(t) PROVE Goal
  BY <1>14, <1>t DEF StreamEnds, Streaming, Goto, PipeRow, StoreRow, Stops, Early
<1>15. ASSUME NEW t \in Turns, AwaitRoll(t) PROVE Goal
  BY <1>15, <1>t DEF AwaitRoll, Goto, PipeRow, StoreRow, Stops, Early
<1>16. ASSUME NEW t \in Turns, CheckToken(t) PROVE Goal
  BY <1>16, <1>t DEF CheckToken, Cancelled, Goto, PipeRow, StoreRow, Stops, Early
<1>17. ASSUME NEW t \in Turns, FailTurn(t) PROVE Goal
  BY <1>17, <1>t DEF FailTurn, Goto, PipeRow, StoreRow, Stops, Early
<1>18. ASSUME NEW t \in Turns, SendFailed(t) PROVE Goal
  BY <1>18, <1>t DEF SendFailed, Goto, PipeRow, StoreRow, Stops, Early
<1>19. ASSUME NEW t \in Turns, Panic(t) PROVE Goal
  BY <1>19, <1>t DEF Panic, Goto, PipeRow, StoreRow, Stops, Early
<1>20. ASSUME NEW t \in Turns,
             \/ VerifyAfterStream(t) \/ SceneNavigate(t) \/ SendScene(t) \/ SaveTurn(t)
             \/ EmitText(t) \/ TurnComplete(t) \/ MarkCritical(t) \/ Finalized(t)
       PROVE Goal
  <2>1. u # t
    BY <1>20, <1>t DEF VerifyAfterStream, SceneNavigate, SendScene, SaveTurn, EmitText,
               TurnComplete, MarkCritical, Finalized,
       Stops, Early
  <2>2. pipe'[u] = pipe[u] /\ store'[u] = store[u]
    BY <1>20, <1>t, <2>1 DEF Goto, Move, Advanced, VerifyAfterStream, SceneNavigate, SendScene,
       SaveTurn, EmitText,
               TurnComplete, MarkCritical, Finalized
  <2> QED
    BY <1>t, <2>2
<1>21. ASSUME NEW t \in Turns, Mark(t) PROVE Goal
  <2> DEFINE b == drive[t].policy # "always_continue"
  <2>1. /\ UNCHANGED pipe
        /\ UNCHANGED store \/ store' = [store EXCEPT ![t].marker = b]
    BY <1>21 DEF Mark
  <2> HIDE DEF b
  <2>2. store'[u].life = store[u].life
    BY <1>t, <2>1 DEF StoreRow
  <2> QED
    BY <1>t, <2>1, <2>2
<1>22. ASSUME NEW t \in Turns, HeavyTail(t) PROVE Goal
  BY <1>22, <1>t DEF HeavyTail, Advanced, StoreRow
<1>23. ASSUME NEW t \in Turns,
             \/ Client(t) \/ LoadScene(t) \/ SeeClosed(t) \/ TakeEvent(t) \/ SeeEnd(t)
             \/ SendFrame(t) \/ SendRefused(t) \/ Drain(t)
       PROVE Goal
  <2>1. UNCHANGED <<pipe, store>>
    BY <1>23 DEF Client, Request, Read, HangUp, LoadScene, SeeClosed, TakeEvent, SeeEnd,
       SendFrame, SendRefused, Drain
  <2> QED
    BY <1>1, <2>1
<1>24. ASSUME UNCHANGED vars PROVE Goal
  BY <1>1, <1>24 DEF vars
<1> HIDE DEF Goal
<1>25. ASSUME NEW t \in Turns, Driver(t) PROVE Goal
  BY <1>25, <1>23, <1>2, <1>21 DEF Driver
<1>26. ASSUME NEW t \in Turns, Pipeline(t) PROVE Goal
  BY <1>26, <1>3, <1>4, <1>5, <1>6, <1>7, <1>8, <1>9, <1>10, <1>11, <1>12, <1>13, <1>14, <1>15,
     <1>16, <1>17, <1>18, <1>20 DEF Pipeline
<1>27. Goal
  BY <1>24, <1>23, <1>25, <1>26, <1>22, <1>19 DEF Next
<1> QED
  BY <1>27 DEF Goal

\* A token that fires before the check is in time: the turn never gets a row.
THEOREM CancelHolds == Spec => CancelInTime
<1> SUFFICES ASSUME NEW t \in Turns
             PROVE  Spec => [](chan[t].cancel /\ pipe[t].pc \in Early
                                 => [](store[t].life = "none"))
  BY DEF CancelInTime
<1>1. Spec => []TypeOK
  BY TypeCorrect
<1>2. Spec => []SpawnInv
  BY SpawnHolds
<1>3. SpawnInv => (chan[t].cancel /\ pipe[t].pc \in Early => Doomed(t))
  BY DEF SpawnInv, LifeInv, Doomed, Stops, Unsaved
<1>4. TypeOK /\ SpawnInv /\ Doomed(t) /\ [Next]_vars => Doomed(t)'
  BY DoomedStep
<1>5. Doomed(t) => store[t].life = "none"
  BY DEF Doomed
<1> QED
  BY <1>1, <1>2, <1>3, <1>4, <1>5, PTL DEF Spec

-----------------------------------------------------------------------------
(* What a player was told is what the next turn reads *)

In(x, s) == \E i \in 1 .. Len(s) : s[i] = x

LEMMA InAppend ==
  ASSUME NEW S, NEW s \in Seq(S), NEW y \in S, NEW x, In(x, Append(s, y))
  PROVE  In(x, s) \/ x = y
<1>1. PICK i \in 1 .. Len(Append(s, y)) : Append(s, y)[i] = x
  BY DEF In
<1>2. Len(Append(s, y)) = Len(s) + 1 /\ Len(s) \in Nat
  OBVIOUS
<1>3. CASE i = Len(s) + 1
  BY <1>1, <1>3
<1>4. CASE i # Len(s) + 1
  <2>1. i \in 1 .. Len(s) /\ Append(s, y)[i] = s[i]
    BY <1>1, <1>2, <1>4
  <2> QED
    BY <1>1, <2>1 DEF In
<1> QED
  BY <1>3, <1>4

LEMMA InTail ==
  ASSUME NEW S, NEW s \in Seq(S), s # <<>>
  PROVE  /\ In(Head(s), s)
         /\ \A x : In(x, Tail(s)) => In(x, s)
<1>1. Len(s) \in Nat /\ Len(s) >= 1 /\ Head(s) = s[1] /\ Len(Tail(s)) = Len(s) - 1
  OBVIOUS
<1>2. In(Head(s), s)
  BY <1>1 DEF In
<1>3. ASSUME NEW x, In(x, Tail(s)) PROVE In(x, s)
  <2>1. PICK i \in 1 .. Len(Tail(s)) : Tail(s)[i] = x
    BY <1>3 DEF In
  <2>2. i + 1 \in 1 .. Len(s) /\ Tail(s)[i] = s[i + 1]
    BY <1>1, <2>1
  <2> QED
    BY <2>1, <2>2 DEF In
<1> QED
  BY <1>2, <1>3

LEMMA InEmpty == \A x : ~In(x, <<>>)
BY DEF In

\* Event e of turn u, or its frame f, is somewhere between pipeline and player.
Said(u, e, f) == \/ In(e, chan[u].events)
                 \/ drive[u].pc = "send" /\ drive[u].hand = e
                 \/ In(f, chan[u].frames)
                 \/ f \in client[u].heard

\* The events that close a turn for the player, with their frames.
Closing == {<<"complete", "done">>, <<"awaiting", "roll">>, <<"failed", "error">>}

LEMMA SendSays ==
  ASSUME TypeOK, NEW t \in Turns, NEW u \in Turns, NEW y \in Events, NEW e,
         Send(t, y), In(e, chan'[u].events)
  PROVE  In(e, chan[u].events) \/ (u = t /\ e = y)
<1>1. chan \in [Turns -> ChanRow] /\ chan[t].events \in Seq(Events)
  BY DEF TypeOK, ChanRow
<1>2. CASE UNCHANGED chan
  BY <1>2
<1>3. CASE chan' = [chan EXCEPT ![t].events = Append(@, y)]
  <2>1. CASE u = t
    <3>1. chan'[u].events = Append(chan[t].events, y)
      BY <1>1, <1>3, <2>1 DEF ChanRow
    <3> QED
      BY <1>1, <2>1, <3>1, InAppend
  <2>2. CASE u # t
    BY <1>1, <1>3, <2>2
  <2> QED
    BY <2>1, <2>2
<1> QED
  BY <1>2, <1>3 DEF Send

LEMMA SendKeepsFrames ==
  ASSUME TypeOK, NEW t \in Turns, NEW u \in Turns, NEW y, Send(t, y)
  PROVE  chan'[u].frames = chan[u].frames
<1>1. chan \in [Turns -> ChanRow]
  BY DEF TypeOK
<1>2. CASE UNCHANGED chan
  BY <1>2
<1>3. CASE chan' = [chan EXCEPT ![t].events = Append(@, y)]
  BY <1>1, <1>3 DEF ChanRow
<1> QED
  BY <1>2, <1>3 DEF Send

\* Who speaks: a pipeline that goes on says at most one closing event.
LEMMA WhoSays ==
  ASSUME NEW t \in Turns, Pipeline(t)
  PROVE  /\ UNCHANGED <<drive, client>>
         /\ \/ UNCHANGED chan
            \/ \E y \in Events \ {"complete", "awaiting", "failed"} : Send(t, y)
            \/ TurnComplete(t) /\ \E y \in Events \ {"awaiting", "failed"} : Send(t, y)
            \/ AwaitRoll(t) /\ Send(t, "awaiting")
            \/ SendFailed(t) /\ Send(t, "failed")
<1> USE DEF Events
<1>1. CASE TurnComplete(t)
  BY <1>1 DEF TurnComplete
<1>2. CASE AwaitRoll(t)
  BY <1>2 DEF AwaitRoll
<1>5. CASE SendFailed(t)
  BY <1>5 DEF SendFailed
<1>3. CASE \/ SendPreContext(t) \/ StreamText(t) \/ VerifyAfterStream(t) \/ SendScene(t)
           \/ EmitText(t)
  <2>1. \E y \in {"scene", "delta", "postprocess"} : Send(t, y)
    BY <1>3 DEF SendPreContext, StreamText, VerifyAfterStream, SendScene, EmitText
  <2>2. UNCHANGED <<drive, client>>
    BY <1>3 DEF SendPreContext, StreamText, VerifyAfterStream, SendScene, EmitText
  <2> QED
    BY <2>1, <2>2
<1>4. CASE \/ HeadPhases(t) \/ PreContextNavigate(t) \/ Poll(t) \/ GiveUp(t)
           \/ ContextAssembly(t) \/ Round(t) \/ StreamCancelled(t) \/ StreamTool(t)
           \/ RunTool(t) \/ StreamEnds(t) \/ CheckToken(t) \/ SceneNavigate(t)
           \/ SaveTurn(t) \/ MarkCritical(t) \/ Finalized(t) \/ FailTurn(t)
  BY <1>4 DEF HeadPhases, PreContextNavigate, Poll, GiveUp, ContextAssembly, Round,
     StreamCancelled, StreamTool, RunTool, StreamEnds, CheckToken, SceneNavigate,
     SaveTurn, MarkCritical, Finalized, FailTurn
<1> QED
  BY <1>1, <1>2, <1>3, <1>4, <1>5 DEF Pipeline

\* A closing event is on its way only because the pipeline said it: driver and
\* client pass on what they were given and make nothing up.
LEMMA SaidStep ==
  ASSUME TypeOK, NEW u \in Turns, NEW e, NEW f, <<e, f>> \in Closing,
         [Next]_vars, Said(u, e, f)'
  PROVE  \/ Said(u, e, f)
         \/ e = "complete" /\ TurnComplete(u)
         \/ e = "awaiting" /\ AwaitRoll(u)
         \/ e = "failed" /\ SendFailed(u)
<1> DEFINE Goal == \/ Said(u, e, f)
                   \/ e = "complete" /\ TurnComplete(u)
                   \/ e = "awaiting" /\ AwaitRoll(u)
                   \/ e = "failed" /\ SendFailed(u)
<1>t. /\ chan \in [Turns -> ChanRow] /\ drive \in [Turns -> DriveRow]
      /\ client \in [Turns -> ClientRow]
  BY DEF TypeOK
<1>s. \A t \in Turns : /\ chan[t].events \in Seq(Events) /\ chan[t].frames \in Seq(Frames)
                       /\ drive[t].hand \in Events
  BY <1>t DEF ChanRow, DriveRow
<1>f. \A h \in Events : FrameOf(h) = f => h = e
  BY DEF Closing, FrameOf, Events
<1>g. f \in Frames /\ e \in Events
  BY DEF Closing, Frames, Events
<1>n. \/ In(e, chan'[u].events)
      \/ drive'[u].pc = "send" /\ drive'[u].hand = e
      \/ In(f, chan'[u].frames)
      \/ f \in client'[u].heard
  BY DEF Said, In
<1>1. ASSUME UNCHANGED <<chan, drive, client>> PROVE Goal
  BY <1>1, <1>n DEF Said
<1>2. ASSUME NEW t \in Turns, Request(t) PROVE Goal
  <2>1. drive'[u].pc = "send" => drive'[u] = drive[u]
    BY <1>2, <1>t DEF Request, DriveRow
  <2>2. client'[u].heard = client[u].heard /\ UNCHANGED chan
    BY <1>2, <1>t DEF Request, ClientRow
  <2> QED
    BY <1>n, <2>1, <2>2 DEF Said
<1>3. ASSUME NEW t \in Turns, Read(t) PROVE Goal
  <2>1. /\ chan[t].frames # <<>> /\ UNCHANGED drive
        /\ client' = [client EXCEPT ![t].heard = @ \cup {Head(chan[t].frames)}]
        /\ chan' = [chan EXCEPT ![t].frames = Tail(@)]
    BY <1>3 DEF Read
  <2>2. chan'[u].events = chan[u].events
    BY <1>t, <2>1 DEF ChanRow
  <2>3. CASE u = t
    <3>1. /\ chan'[u].frames = Tail(chan[t].frames)
          /\ client'[u].heard = client[t].heard \cup {Head(chan[t].frames)}
      BY <1>t, <2>1, <2>3 DEF ChanRow, ClientRow
    <3>2. /\ In(Head(chan[t].frames), chan[t].frames)
          /\ In(f, Tail(chan[t].frames)) => In(f, chan[t].frames)
      BY <1>s, <2>1, InTail
    <3> QED
      BY <1>n, <2>1, <2>2, <2>3, <3>1, <3>2 DEF Said
  <2>4. CASE u # t
    BY <1>n, <1>t, <2>1, <2>2, <2>4 DEF Said
  <2> QED
    BY <2>3, <2>4
<1>4. ASSUME NEW t \in Turns, HangUp(t) PROVE Goal
  <2>1. /\ chan'[u].events = chan[u].events /\ UNCHANGED drive
        /\ chan'[u].frames \in {chan[u].frames, <<>>}
        /\ client'[u].heard = client[u].heard
    BY <1>4, <1>t DEF HangUp, ChanRow, ClientRow
  <2> QED
    BY <1>n, <2>1, InEmpty DEF Said
<1>5. ASSUME NEW t \in Turns, LoadScene(t) \/ LoadTranscript(t) \/ SeeEnd(t) PROVE Goal
  <2>1. UNCHANGED <<chan, client>>
    BY <1>5 DEF LoadScene, LoadTranscript, SeeEnd
  <2>2. drive'[u].pc = "send" => drive'[u] = drive[u]
    BY <1>5, <1>t DEF LoadScene, LoadTranscript, SeeEnd, DriveRow
  <2> QED
    BY <1>n, <2>1, <2>2 DEF Said
<1>6. ASSUME NEW t \in Turns, NEW m, Disconnect(t, m), UNCHANGED client PROVE Goal
  <2>1. /\ \/ chan' = [chan EXCEPT ![t].cancel = TRUE, ![t].open = FALSE, ![t].events = <<>>]
           \/ UNCHANGED chan
        /\ \/ drive' = [drive EXCEPT ![t].pc = "ended", ![t].outcome = "cancelled",
                                     ![t].mutated = m]
           \/ drive' = [drive EXCEPT ![t].pc = "drain", ![t].mutated = m]
    <3>1. CASE CancelNow(t, m)
      BY <1>6, <3>1 DEF Disconnect
    <3>2. CASE ~CancelNow(t, m)
      BY <1>6, <3>2 DEF Disconnect
    <3> QED
      BY <3>1, <3>2
  <2>2. chan'[u].events \in {chan[u].events, <<>>} /\ chan'[u].frames = chan[u].frames
    <3>1. CASE UNCHANGED chan
      BY <3>1
    <3>2. CASE chan' = [chan EXCEPT ![t].cancel = TRUE, ![t].open = FALSE, ![t].events = <<>>]
      BY <1>t, <3>2 DEF ChanRow
    <3> QED
      BY <2>1, <3>1, <3>2
  <2>3. drive'[u].pc = "send" => drive'[u] = drive[u]
    BY <1>t, <2>1 DEF DriveRow
  <2> QED
    BY <1>6, <1>n, <2>2, <2>3, InEmpty DEF Said
<1>7. ASSUME NEW t \in Turns, TakeEvent(t) PROVE Goal
  <2> DEFINE h == Head(chan[t].events)
             m == drive[t].mutated \/ h \in Mutating
  <2>1. /\ chan[t].events # <<>> /\ UNCHANGED client
        /\ chan' = [chan EXCEPT ![t].events = Tail(@)]
        /\ \/ drive' = [drive EXCEPT ![t].pc = "ended", ![t].mutated = m,
                                     ![t].outcome = "completed"]
           \/ drive' = [drive EXCEPT ![t].pc = "send", ![t].hand = h, ![t].mutated = m]
    BY <1>7 DEF TakeEvent
  <2>2. In(h, chan[t].events) /\ (In(e, Tail(chan[t].events)) => In(e, chan[t].events))
    BY <1>s, <2>1, InTail
  <2> HIDE DEF h, m
  <2>3. CASE u = t
    <3>1. chan'[u].events = Tail(chan[t].events) /\ chan'[u].frames = chan[u].frames
      BY <1>t, <2>1, <2>3 DEF ChanRow
    <3>2. drive'[u].pc = "send" => drive'[u].hand = h
      BY <1>t, <2>1, <2>3 DEF DriveRow
    <3> QED
      BY <1>n, <2>1, <2>2, <2>3, <3>1, <3>2 DEF Said
  <2>4. CASE u # t
    <3>1. chan'[u] = chan[u] /\ drive'[u] = drive[u]
      BY <1>t, <2>1, <2>4
    <3> QED
      BY <1>n, <2>1, <3>1 DEF Said
  <2> QED
    BY <2>3, <2>4
<1>8. ASSUME NEW t \in Turns, SendFrame(t) PROVE Goal
  <2> DEFINE g == FrameOf(drive[t].hand)
  <2>1. /\ drive[t].pc = "send" /\ UNCHANGED client
        /\ chan' = [chan EXCEPT ![t].frames = Append(@, g)]
        /\ \/ drive' = [drive EXCEPT ![t].pc = "ended", ![t].outcome = "completed"]
           \/ drive' = [drive EXCEPT ![t].pc = "next"]
    BY <1>8 DEF SendFrame
  <2>2. g = f => drive[t].hand = e
    BY <1>f, <1>s
  <2>3. drive'[u].pc = "send" => drive'[u] = drive[u]
    BY <1>t, <2>1 DEF DriveRow
  <2>4. In(f, Append(chan[t].frames, g)) => In(f, chan[t].frames) \/ f = g
    <3>1. g \in Frames \cup {"none"} /\ chan[t].frames \in Seq(Frames \cup {"none"})
      BY <1>s DEF FrameOf, Frames, Events
    <3> QED
      BY <3>1, InAppend
  <2> HIDE DEF g
  <2>5. chan'[u].events = chan[u].events
    BY <1>t, <2>1 DEF ChanRow
  <2>6. CASE u = t
    <3>1. chan'[u].frames = Append(chan[t].frames, g)
      BY <1>t, <2>1, <2>6 DEF ChanRow
    <3> QED
      BY <1>n, <2>1, <2>2, <2>3, <2>4, <2>5, <2>6, <3>1 DEF Said
  <2>7. CASE u # t
    <3>1. chan'[u].frames = chan[u].frames
      BY <1>t, <2>1, <2>7
    <3> QED
      BY <1>n, <2>1, <2>3, <2>5, <3>1 DEF Said
  <2> QED
    BY <2>6, <2>7
<1>9. ASSUME NEW t \in Turns, Drain(t) PROVE Goal
  <2>1. /\ UNCHANGED client
        /\ \/ UNCHANGED chan
           \/ chan[t].events # <<>> /\ chan' = [chan EXCEPT ![t].events = Tail(@)]
        /\ UNCHANGED drive \/ drive' = [drive EXCEPT ![t].pc = "mark"]
    BY <1>9 DEF Drain
  <2>2. drive'[u].pc = "send" => drive'[u] = drive[u]
    BY <1>t, <2>1 DEF DriveRow
  <2>3. chan'[u].frames = chan[u].frames
    <3>1. CASE UNCHANGED chan
      BY <3>1
    <3>2. CASE chan' = [chan EXCEPT ![t].events = Tail(@)]
      BY <1>t, <3>2 DEF ChanRow
    <3> QED
      BY <2>1, <3>1, <3>2
  <2>4. In(e, chan'[u].events) => In(e, chan[u].events)
    <3>1. CASE UNCHANGED chan
      BY <3>1
    <3>2. CASE chan[t].events # <<>> /\ chan' = [chan EXCEPT ![t].events = Tail(@)]
      <4>1. In(e, Tail(chan[t].events)) => In(e, chan[t].events)
        BY <1>s, <3>2, InTail
      <4> QED
        BY <1>t, <3>2, <4>1 DEF ChanRow
    <3> QED
      BY <2>1, <3>1, <3>2
  <2> QED
    BY <1>n, <2>1, <2>2, <2>3, <2>4 DEF Said
<1>10. ASSUME NEW t \in Turns, Mark(t) PROVE Goal
  <2>1. /\ UNCHANGED client
        /\ chan' = [chan EXCEPT ![t].open = FALSE, ![t].events = <<>>]
        /\ drive' = [drive EXCEPT ![t].pc = "ended", ![t].outcome = "continued"]
    BY <1>10 DEF Mark
  <2>2. chan'[u].events \in {chan[u].events, <<>>} /\ chan'[u].frames = chan[u].frames
    BY <1>t, <2>1 DEF ChanRow
  <2>3. drive'[u].pc = "send" => drive'[u] = drive[u]
    BY <1>t, <2>1 DEF DriveRow
  <2> QED
    BY <1>n, <2>1, <2>2, <2>3, InEmpty DEF Said
<1>11. ASSUME NEW t \in Turns, Pipeline(t) PROVE Goal
  <2>1. UNCHANGED <<drive, client>>
    BY <1>11, WhoSays
  <2>2. CASE UNCHANGED chan
    BY <1>1, <2>1, <2>2
  <2>3. ASSUME NEW y \in Events, Send(t, y), y # e PROVE Said(u, e, f)
    BY <1>n, <2>1, <2>3, SendSays, SendKeepsFrames DEF Said
  <2>4. ASSUME NEW y \in Events, Send(t, y), u # t PROVE Said(u, e, f)
    BY <1>n, <2>1, <2>4, SendSays, SendKeepsFrames DEF Said
  <2>5. e \in {"complete", "awaiting", "failed"} /\ {"awaiting", "failed"} \subseteq Events
    BY DEF Closing, Events
  <2> HIDE DEF Events
  <2>6. CASE \E y \in Events \ {"complete", "awaiting", "failed"} : Send(t, y)
    BY <2>3, <2>5, <2>6
  <2>7. CASE TurnComplete(t) /\ \E y \in Events \ {"awaiting", "failed"} : Send(t, y)
    BY <2>3, <2>4, <2>5, <2>7
  <2>8. CASE AwaitRoll(t) /\ Send(t, "awaiting")
    BY <2>3, <2>4, <2>5, <2>8
  <2>9. CASE SendFailed(t) /\ Send(t, "failed")
    BY <2>3, <2>4, <2>5, <2>9
  <2> QED
    BY <1>11, <2>2, <2>6, <2>7, <2>8, <2>9, WhoSays
<1>12. ASSUME NEW t \in Turns, HeavyTail(t) \/ Panic(t) PROVE Goal
  BY <1>12, <1>1 DEF HeavyTail, Panic
<1>13. ASSUME UNCHANGED vars PROVE Goal
  BY <1>13, <1>1 DEF vars
<1>14. ASSUME NEW t \in Turns, SeeClosed(t) \/ SendRefused(t) PROVE Goal
  BY <1>14, <1>6 DEF SeeClosed, SendRefused
<1> HIDE DEF Goal
<1>15. ASSUME NEW t \in Turns, Client(t) \/ Driver(t) PROVE Goal
  BY <1>15, <1>2, <1>3, <1>4, <1>5, <1>7, <1>8, <1>9, <1>10, <1>14 DEF Client, Driver
<1>16. Goal
  BY <1>11, <1>12, <1>13, <1>15 DEF Next
<1> QED
  BY <1>16 DEF Goal

LEMMA InAppended ==
  ASSUME NEW S, NEW s \in Seq(S), NEW y \in S
  PROVE  In(y, Append(s, y)) /\ \A x : In(x, s) => In(x, Append(s, y))
<1>1. /\ Len(Append(s, y)) = Len(s) + 1 /\ Len(s) \in Nat
      /\ Append(s, y)[Len(s) + 1] = y
      /\ \A i \in 1 .. Len(s) : Append(s, y)[i] = s[i]
  OBVIOUS
<1>2. In(y, Append(s, y))
  BY <1>1 DEF In
<1>3. ASSUME NEW x, In(x, s) PROVE In(x, Append(s, y))
  BY <1>1, <1>3 DEF In
<1> QED
  BY <1>2, <1>3

\* The turn has its row, unless something has failed.
Kept(u) == (In(u, rows) /\ store[u].life # "none") \/ faults # 0

\* Rows stay, failures too.
LEMMA KeptStep ==
  ASSUME TypeOK, StartInv, LifeInv, [Next]_vars
  PROVE  /\ \A u \in Turns : Kept(u) => Kept(u)'
         /\ faults # 0 => faults' # 0
<1>t. rows \in Seq(Turns) /\ faults \in Nat
  BY DEF TypeOK
<1>1. UNCHANGED rows \/ \E t \in Turns : rows' = Append(rows, t)
  <2>1. ASSUME NEW t \in Turns, SaveTurn(t) PROVE UNCHANGED rows \/ rows' = Append(rows, t)
    BY <2>1 DEF SaveTurn
  <2>2. ASSUME NEW t \in Turns, Pipeline(t), ~SaveTurn(t) PROVE UNCHANGED rows
    BY <2>2 DEF Pipeline, HeadPhases, PreContextNavigate, SendPreContext, Poll, GiveUp,
       ContextAssembly, Round, StreamCancelled, StreamText, StreamTool, RunTool, StreamEnds,
       AwaitRoll, CheckToken, VerifyAfterStream, SceneNavigate, SendScene, EmitText,
       TurnComplete, MarkCritical, Finalized, FailTurn, SendFailed
  <2>3. ASSUME NEW t \in Turns, Client(t) \/ Driver(t) \/ HeavyTail(t) \/ Panic(t)
        PROVE  UNCHANGED rows
    BY <2>3 DEF Client, Request, Read, HangUp, Driver, LoadScene, LoadTranscript, SeeClosed,
       TakeEvent, SeeEnd, SendFrame, SendRefused, Drain, Mark, HeavyTail, Panic
  <2> QED
    BY <2>1, <2>2, <2>3 DEF Next, vars
<1>2. faults' \in {faults, faults + 1}
  <2>1. ASSUME NEW t \in Turns, Pipeline(t) PROVE faults' \in {faults, faults + 1}
    BY <2>1 DEF Pipeline, Fault, HeadPhases, PreContextNavigate, SendPreContext, Poll, GiveUp,
       ContextAssembly, Round, StreamCancelled, StreamText, StreamTool, RunTool, StreamEnds,
       AwaitRoll, CheckToken, VerifyAfterStream, SceneNavigate, SendScene, SaveTurn, EmitText,
       TurnComplete, MarkCritical, Finalized, FailTurn, SendFailed
  <2>2. ASSUME NEW t \in Turns, Client(t) \/ Driver(t) \/ HeavyTail(t) \/ Panic(t)
        PROVE  faults' \in {faults, faults + 1}
    BY <2>2 DEF Client, Request, Read, HangUp, Driver, Fault, LoadScene, LoadTranscript,
       SeeClosed, TakeEvent, SeeEnd, SendFrame, SendRefused, Drain, Mark, HeavyTail, Panic
  <2> QED
    BY <2>1, <2>2 DEF Next, vars
<1>3. \A u \in Turns : In(u, rows) => In(u, rows')
  BY <1>1, <1>t, InAppended
<1>4. ASSUME NEW u \in Turns, store[u].life # "none" PROVE store'[u].life # "none"
  <2>1. Rank(store'[u].life) >= Rank(store[u].life)
    BY LifeStep
  <2>2. store[u].life \in Lives
    BY DEF TypeOK, StoreRow
  <2> QED
    BY <1>4, <2>1, <2>2 DEF Rank, Lives
<1> QED
  BY <1>t, <1>2, <1>3, <1>4 DEF Kept, In

\* Where a turn is once its player has been told.
Told == {"lifecycle", "finalize", "ended"}

\* A turn that was told no longer moves the party; only a save leads to the
\* completion.
LEMMA PipeStep ==
  ASSUME TypeOK, StartInv, NEW u \in Turns, [Next]_vars
  PROVE  /\ scene' >= scene
         /\ pipe'[u].moved \in {pipe[u].moved, scene'}
         /\ pipe[u].signal = "roll" => pipe'[u].signal = "roll"
         /\ AwaitRoll(u) => pipe'[u].signal = "roll"
         /\ pipe[u].pc \in Told => pipe'[u].pc \in Told /\ pipe'[u].moved = pipe[u].moved
         /\ TurnComplete(u) => pipe'[u].pc \in Told
         /\ pipe'[u].pc \in {"emit", "complete"}
              => pipe[u].pc \in {"emit", "complete"} \/ Kept(u)'
<1> DEFINE Goal == /\ scene' >= scene
                   /\ pipe'[u].moved \in {pipe[u].moved, scene'}
                   /\ pipe[u].signal = "roll" => pipe'[u].signal = "roll"
                   /\ pipe[u].pc \in Told
                        => pipe'[u].pc \in Told /\ pipe'[u].moved = pipe[u].moved
                   /\ pipe'[u].pc \in {"emit", "complete"}
                        => pipe[u].pc \in {"emit", "complete"} \/ Kept(u)'
<1>t. pipe \in [Turns -> PipeRow] /\ scene \in Nat
  BY DEF TypeOK
<1>i. \A t \in Turns : drive[t].pc = "load_transcript" => pipe[t].pc = "idle"
  BY DEF StartInv
<1>1. ASSUME UNCHANGED pipe, UNCHANGED scene PROVE Goal
  BY <1>1, <1>t
\* The steps that go on to a place before the save, or stop, or are told.
<1>2. ASSUME NEW t \in Turns,
             NEW l \in Labels \ {"emit", "complete", "lifecycle", "finalize"},
             pipe[t].pc \notin Told, Goto(t, l), UNCHANGED scene
      PROVE  Goal
  BY <1>2, <1>t DEF Goto, PipeRow, Told
<1>3. ASSUME NEW t \in Turns, LoadTranscript(t) PROVE Goal
  <2>1. pipe[t].pc \notin Told
    BY <1>3, <1>i DEF LoadTranscript, Told
  <2> QED
    BY <1>2, <1>3, <2>1 DEF LoadTranscript, Labels, Early
<1>4. ASSUME NEW t \in Turns, NEW l \in Labels \ {"emit", "complete", "lifecycle", "finalize"},
             pipe[t].pc \notin Told, Move(t, l)
      PROVE  Goal
  <2>1. scene' = scene + 1 /\ pipe' = [pipe EXCEPT ![t].pc = l, ![t].moved = scene + 1]
    BY <1>4 DEF Move
  <2> QED
    BY <1>4, <1>t, <2>1 DEF PipeRow, Told
<1>5. ASSUME NEW t \in Turns,
             \/ HeadPhases(t) \/ SendPreContext(t) \/ ContextAssembly(t)
             \/ StreamCancelled(t) \/ StreamTool(t) \/ RunTool(t) \/ StreamEnds(t)
             \/ CheckToken(t) \/ VerifyAfterStream(t) \/ SendScene(t) \/ FailTurn(t)
             \/ SendFailed(t) \/ PreContextNavigate(t) \/ SceneNavigate(t)
      PROVE  Goal
  <2>1. /\ pipe[t].pc \notin Told
        /\ \E l \in Labels \ {"emit", "complete", "lifecycle", "finalize"} :
              (Goto(t, l) /\ UNCHANGED scene) \/ Move(t, l)
    BY <1>5 DEF HeadPhases, SendPreContext, ContextAssembly, StreamCancelled, StreamTool,
       RunTool, StreamEnds, CheckToken, VerifyAfterStream, SendScene, FailTurn, SendFailed,
       PreContextNavigate, SceneNavigate, Streaming, Told, Labels, Early, Late
  <2> QED
    BY <1>2, <1>4, <2>1
<1>6. ASSUME NEW t \in Turns, Round(t) PROVE Goal
  <2>1. /\ pipe[t].pc \notin Told /\ UNCHANGED scene
        /\ \/ Goto(t, "check") \/ Goto(t, "forced")
           \/ pipe' = [pipe EXCEPT ![t].pc = "stream", ![t].rounds = @ + 1]
    BY <1>6 DEF Round, Told
  <2> QED
    BY <1>t, <2>1 DEF Goto, PipeRow, Told
<1>7. ASSUME NEW t \in Turns, Poll(t) \/ GiveUp(t) PROVE Goal
  <2>1. /\ pipe[t].pc \notin Told /\ UNCHANGED scene
        /\ \/ \E g : pipe' = [pipe EXCEPT ![t].pc = "context", ![t].guard = g]
           \/ pipe' = [pipe EXCEPT ![t].guard = "waiting"]
    BY <1>7 DEF Poll, GiveUp, Told
  <2> QED
    BY <1>t, <2>1 DEF PipeRow, Told
<1>8. ASSUME NEW t \in Turns, StreamText(t) PROVE Goal
  BY <1>8, <1>t DEF StreamText, PipeRow
<1>9. ASSUME NEW t \in Turns, AwaitRoll(t)
      PROVE  Goal /\ (u = t => pipe'[u].signal = "roll")
  BY <1>9, <1>t DEF AwaitRoll, PipeRow, Told
<1>10. ASSUME NEW t \in Turns, SaveTurn(t) PROVE Goal
  <2>1. /\ pipe[t].pc \notin Told /\ UNCHANGED scene
        /\ \E l \in {"emit", "complete"} : pipe' = [pipe EXCEPT ![t].pc = l]
    BY <1>10 DEF SaveTurn, Goto, Told
  <2>2. u = t => Kept(u)'
    <3>1. CASE rows' = Append(rows, t)
      <4>1. In(t, rows')
        BY <3>1, InAppended DEF TypeOK
      <4>2. store' = [store EXCEPT ![t].life = "streaming"] \/ Fault
        BY <1>10 DEF SaveTurn
      <4>3. store'[t].life = "streaming" \/ faults' # 0
        BY <4>2 DEF Fault, TypeOK, StoreRow
      <4> QED
        BY <4>1, <4>3 DEF Kept, In
    <3>2. CASE Fault
      BY <3>2 DEF Fault, Kept, TypeOK
    <3> QED
      BY <1>10, <3>1, <3>2 DEF SaveTurn
  <2> QED
    BY <1>t, <2>1, <2>2 DEF PipeRow, Told
<1>11. ASSUME NEW t \in Turns, EmitText(t) PROVE Goal
  BY <1>11, <1>t DEF EmitText, Goto, PipeRow, Told
<1>12. ASSUME NEW t \in Turns, TurnComplete(t)
       PROVE  Goal /\ (u = t => pipe'[u].pc \in Told)
  BY <1>12, <1>t DEF TurnComplete, Goto, PipeRow, Told
<1>13. ASSUME NEW t \in Turns, MarkCritical(t) \/ Finalized(t) PROVE Goal
  BY <1>13, <1>t DEF MarkCritical, Finalized, Goto, PipeRow, Told
<1>14. ASSUME NEW t \in Turns, Panic(t) PROVE Goal
  BY <1>14, <1>t DEF Panic, Goto, PipeRow, Told
<1>15. ASSUME NEW t \in Turns, Client(t) \/ HeavyTail(t) PROVE Goal
  BY <1>1, <1>15 DEF Client, Request, Read, HangUp, HeavyTail
<1>16. ASSUME NEW t \in Turns, Driver(t), ~LoadTranscript(t) PROVE Goal
  BY <1>1, <1>16 DEF Driver, LoadScene, SeeClosed, TakeEvent, SeeEnd, SendFrame, SendRefused, Drain,
     Mark
<1>17. ASSUME UNCHANGED vars PROVE Goal
  BY <1>1, <1>17 DEF vars
<1> HIDE DEF Goal
<1>18. ASSUME NEW t \in Turns, Pipeline(t) PROVE Goal
  BY <1>18, <1>5, <1>6, <1>7, <1>8, <1>9, <1>10, <1>11, <1>12, <1>13 DEF Pipeline
<1>19. Goal
  BY <1>3, <1>14, <1>15, <1>16, <1>17, <1>18 DEF Next
<1> QED
  BY <1>19, <1>9, <1>12 DEF Goal

\* What the loading of a turn keeps: the scene it saw, then the rows.
LEMMA LoadStep ==
  ASSUME TypeOK, NEW t \in Turns, [Next]_vars
  PROVE  /\ client[t].heard \subseteq client'[t].heard
         /\ drive'[t].pc = "load_transcript"
              => \/ drive[t].pc = "load_transcript" /\ drive'[t].view = drive[t].view
                 \/ drive'[t].view = scene
         /\ Loaded(t)' => /\ drive'[t].view = drive[t].view
                          /\ \/ Loaded(t) /\ drive'[t].history = drive[t].history
                             \/ /\ drive[t].pc = "load_transcript"
                                /\ drive'[t].history = {rows[i] : i \in 1 .. Len(rows)}
         /\ \/ client'[t].asked = client[t].asked
            \/ /\ drive'[t].pc = "load_scene"
               /\ client'[t].asked =
                     {u \in Turns : {"done", "roll"} \cap client[u].heard # {}}
<1> DEFINE Goal ==
  /\ client[t].heard \subseteq client'[t].heard
  /\ drive'[t].pc = "load_transcript"
       => \/ drive[t].pc = "load_transcript" /\ drive'[t].view = drive[t].view
          \/ drive'[t].view = scene
  /\ drive'[t].pc \notin {"idle", "load_scene", "load_transcript"}
       => /\ drive'[t].view = drive[t].view
          /\ \/ /\ drive[t].pc \notin {"idle", "load_scene", "load_transcript"}
                /\ drive'[t].history = drive[t].history
             \/ /\ drive[t].pc = "load_transcript"
                /\ drive'[t].history = {rows[i] : i \in 1 .. Len(rows)}
  /\ \/ client'[t].asked = client[t].asked
     \/ /\ drive'[t].pc = "load_scene"
        /\ client'[t].asked = {u \in Turns : {"done", "roll"} \cap client[u].heard # {}}
<1>t. drive \in [Turns -> DriveRow] /\ client \in [Turns -> ClientRow]
  BY DEF TypeOK
<1>1. ASSUME UNCHANGED drive, UNCHANGED client PROVE Goal
  BY <1>1
<1>2. ASSUME NEW s \in Turns, Request(s) PROVE Goal
  BY <1>2, <1>t DEF Request, DriveRow, ClientRow
<1>3. ASSUME NEW s \in Turns, Read(s) \/ HangUp(s) PROVE Goal
  <2>1. UNCHANGED drive
    BY <1>3 DEF Read, HangUp
  <2>2. client'[t].asked = client[t].asked /\ client[t].heard \subseteq client'[t].heard
    BY <1>3, <1>t DEF Read, HangUp, ClientRow
  <2> QED
    BY <2>1, <2>2
<1>4. ASSUME NEW s \in Turns, LoadScene(s) PROVE Goal
  BY <1>4, <1>t DEF LoadScene, DriveRow
<1>5. ASSUME NEW s \in Turns, LoadTranscript(s) PROVE Goal
  BY <1>5, <1>t DEF LoadTranscript, DriveRow
\* The rest of the driver has both.
<1>6. ASSUME NEW s \in Turns, UNCHANGED client,
             drive[s].pc \notin {"idle", "load_scene", "load_transcript"},
             NEW l \in {"next", "send", "drain", "mark", "ended"}, NEW o, NEW h, NEW m,
             \/ drive' = [drive EXCEPT ![s].pc = l]
             \/ drive' = [drive EXCEPT ![s].pc = l, ![s].outcome = o]
             \/ drive' = [drive EXCEPT ![s].pc = l, ![s].mutated = m]
             \/ drive' = [drive EXCEPT ![s].pc = l, ![s].outcome = o, ![s].mutated = m]
             \/ drive' = [drive EXCEPT ![s].pc = l, ![s].hand = h, ![s].mutated = m]
      PROVE  Goal
  BY <1>6, <1>t DEF DriveRow
<1>7. ASSUME NEW s \in Turns, NEW m, Disconnect(s, m), UNCHANGED client,
             drive[s].pc \notin {"idle", "load_scene", "load_transcript"}
      PROVE  Goal
  <2>1. CASE CancelNow(s, m)
    <3>1. drive' = [drive EXCEPT ![s].pc = "ended", ![s].outcome = "cancelled",
                                 ![s].mutated = m]
      BY <1>7, <2>1 DEF Disconnect
    <3> QED
      BY <1>7, <1>6, <3>1
  <2>2. CASE ~CancelNow(s, m)
    <3>1. drive' = [drive EXCEPT ![s].pc = "drain", ![s].mutated = m]
      BY <1>7, <2>2 DEF Disconnect
    <3> QED
      BY <1>7, <1>6, <3>1
  <2> QED
    BY <2>1, <2>2
<1>8. ASSUME NEW s \in Turns, SeeClosed(s) \/ SendRefused(s) PROVE Goal
  BY <1>8, <1>7 DEF SeeClosed, SendRefused
<1>9. ASSUME NEW s \in Turns, TakeEvent(s) PROVE Goal
  <2> DEFINE e == Head(chan[s].events)
             m == drive[s].mutated \/ e \in Mutating
  <2>1. /\ UNCHANGED client /\ drive[s].pc = "next"
        /\ \/ drive' = [drive EXCEPT ![s].pc = "ended", ![s].mutated = m,
                                     ![s].outcome = "completed"]
           \/ drive' = [drive EXCEPT ![s].pc = "send", ![s].hand = e, ![s].mutated = m]
    BY <1>9 DEF TakeEvent
  <2> HIDE DEF e, m
  <2>2. /\ drive'[t].pc \in {drive[t].pc, "ended", "send"}
        /\ drive'[t].pc = drive[t].pc \/ t = s
        /\ drive'[t].view = drive[t].view /\ drive'[t].history = drive[t].history
    BY <2>1, <1>t DEF DriveRow
  <2> QED
    BY <2>1, <2>2
<1>10. ASSUME NEW s \in Turns, SeeEnd(s) \/ SendFrame(s) \/ Mark(s) PROVE Goal
  <2>1. /\ UNCHANGED client /\ drive[s].pc \notin {"idle", "load_scene", "load_transcript"}
        /\ \/ \E o : drive' = [drive EXCEPT ![s].pc = "ended", ![s].outcome = o]
           \/ drive' = [drive EXCEPT ![s].pc = "next"]
    BY <1>10 DEF SeeEnd, SendFrame, Mark
  <2> QED
    BY <2>1, <1>6
<1>11. ASSUME NEW s \in Turns, Drain(s) PROVE Goal
  <2>1. /\ UNCHANGED client /\ drive[s].pc = "drain"
        /\ UNCHANGED drive \/ drive' = [drive EXCEPT ![s].pc = "mark"]
    BY <1>11 DEF Drain
  <2> QED
    BY <2>1, <1>1, <1>6
<1>12. ASSUME NEW s \in Turns, Pipeline(s) \/ HeavyTail(s) \/ Panic(s) PROVE Goal
  <2>1. UNCHANGED <<drive, client>>
    BY <1>12, WhoSays DEF HeavyTail, Panic
  <2> QED
    BY <1>1, <2>1
<1>13. ASSUME UNCHANGED vars PROVE Goal
  BY <1>1, <1>13 DEF vars
<1> HIDE DEF Goal
<1>14. Goal
  BY <1>2, <1>3, <1>4, <1>5, <1>8, <1>9, <1>10, <1>11, <1>12, <1>13 DEF Next, Client, Driver
<1> QED
  BY <1>14 DEF Goal, Loaded

\* The invariant behind NarrationRemembered.  A turn told of its end has its
\* row and no longer moves; a turn told of a roll never becomes a narration; who
\* asks has been told; and what was told before the request is loaded after it.
ToldInv ==
    /\ \A u \in Turns : pipe[u].pc \in {"emit", "complete"} => Kept(u)
    /\ \A u \in Turns : Said(u, "complete", "done") => Kept(u) /\ pipe[u].pc \in Told
    /\ \A u \in Turns : Said(u, "awaiting", "roll") => pipe[u].signal = "roll"

MovedInv == \A u \in Turns : pipe[u].moved <= scene

AskedInv == \A t \in Turns : \A u \in client[t].asked : {"done", "roll"} \cap client[u].heard # {}

ReadInv == \A t \in Turns : \A u \in client[t].asked : pipe[u].signal = "narration" =>
    /\ drive[t].pc = "load_transcript" => drive[t].view >= pipe[u].moved
    /\ Loaded(t) => /\ drive[t].view >= pipe[u].moved
                    /\ u \in drive[t].history \/ faults # 0

MemoryInv == ToldInv /\ MovedInv /\ AskedInv /\ ReadInv

LEMMA ToldStep ==
  ASSUME TypeOK, StartInv, LifeInv, ToldInv, [Next]_vars
  PROVE  ToldInv'
<1>1. ASSUME NEW u \in Turns
      PROVE  /\ pipe'[u].pc \in {"emit", "complete"} => Kept(u)'
             /\ Said(u, "complete", "done")' => Kept(u)' /\ pipe'[u].pc \in Told
             /\ Said(u, "awaiting", "roll")' => pipe'[u].signal = "roll"
  <2>i. /\ pipe[u].pc \in {"emit", "complete"} => Kept(u)
        /\ Said(u, "complete", "done") => Kept(u) /\ pipe[u].pc \in Told
        /\ Said(u, "awaiting", "roll") => pipe[u].signal = "roll"
    BY DEF ToldInv
  <2>k. Kept(u) => Kept(u)'
    BY KeptStep
  <2>p. /\ pipe[u].signal = "roll" => pipe'[u].signal = "roll"
        /\ AwaitRoll(u) => pipe'[u].signal = "roll"
        /\ pipe[u].pc \in Told => pipe'[u].pc \in Told
        /\ TurnComplete(u) => pipe'[u].pc \in Told
        /\ pipe'[u].pc \in {"emit", "complete"} => pipe[u].pc \in {"emit", "complete"} \/ Kept(u)'
    BY PipeStep
  <2>1. pipe'[u].pc \in {"emit", "complete"} => Kept(u)'
    BY <2>i, <2>k, <2>p
  <2>2. TurnComplete(u) => Kept(u)
    BY <2>i DEF TurnComplete
  <2>3. ASSUME Said(u, "complete", "done")' PROVE Kept(u)' /\ pipe'[u].pc \in Told
    <3>1. Said(u, "complete", "done") \/ TurnComplete(u)
      BY <2>3, SaidStep DEF Closing
    <3> QED
      BY <3>1, <2>2, <2>i, <2>k, <2>p
  <2>4. ASSUME Said(u, "awaiting", "roll")' PROVE pipe'[u].signal = "roll"
    <3>1. Said(u, "awaiting", "roll") \/ AwaitRoll(u)
      BY <2>4, SaidStep DEF Closing
    <3> QED
      BY <3>1, <2>i, <2>p
  <2> QED
    BY <2>1, <2>3, <2>4
<1> QED
  BY <1>1 DEF ToldInv

LEMMA MovedStep ==
  ASSUME TypeOK, StartInv, LifeInv, MovedInv, [Next]_vars
  PROVE  MovedInv'
<1>1. ASSUME NEW u \in Turns PROVE pipe'[u].moved <= scene'
  <2>1. scene' >= scene /\ pipe'[u].moved \in {pipe[u].moved, scene'}
    BY PipeStep
  <2>2. scene \in Nat /\ scene' \in Nat /\ pipe[u].moved \in Nat
    <3>1. scene' \in Nat
      <4>1. ASSUME NEW t \in Turns, Pipeline(t) PROVE scene' \in {scene, scene + 1}
        BY <4>1 DEF Pipeline, Move, HeadPhases, PreContextNavigate, SendPreContext, Poll,
           GiveUp, ContextAssembly, Round, StreamCancelled, StreamText, StreamTool, RunTool,
           StreamEnds, AwaitRoll, CheckToken, VerifyAfterStream, SceneNavigate, SendScene,
           SaveTurn, EmitText, TurnComplete, MarkCritical, Finalized, FailTurn, SendFailed
      <4>2. ASSUME NEW t \in Turns, Client(t) \/ Driver(t) \/ HeavyTail(t) \/ Panic(t)
            PROVE  scene' = scene
        BY <4>2 DEF Client, Request, Read, HangUp, Driver, LoadScene, LoadTranscript,
           SeeClosed, TakeEvent, SeeEnd, SendFrame, SendRefused, Drain, Mark, HeavyTail, Panic
      <4>3. scene' \in {scene, scene + 1}
        BY <4>1, <4>2 DEF Next, vars
      <4> QED
        BY <4>3 DEF TypeOK
    <3> QED
      BY <3>1 DEF TypeOK, PipeRow
  <2> QED
    BY <2>1, <2>2 DEF MovedInv
<1> QED
  BY <1>1 DEF MovedInv

LEMMA AskedStep ==
  ASSUME TypeOK, AskedInv, [Next]_vars
  PROVE  AskedInv'
<1>1. ASSUME NEW t \in Turns, NEW u \in client'[t].asked
      PROVE  {"done", "roll"} \cap client'[u].heard # {}
  <2>1. \/ u \in client[t].asked
        \/ u \in {w \in Turns : {"done", "roll"} \cap client[w].heard # {}}
    BY <1>1, LoadStep
  <2>2. u \in Turns /\ {"done", "roll"} \cap client[u].heard # {}
    BY <2>1 DEF AskedInv, TypeOK, ClientRow
  <2>3. client[u].heard \subseteq client'[u].heard
    BY <2>2, LoadStep
  <2> QED
    BY <2>2, <2>3
<1> QED
  BY <1>1 DEF AskedInv

\* Who heard the end of a narration heard of a turn that stands still.
LEMMA HeardStands ==
  ASSUME TypeOK, StartInv, LifeInv, ToldInv, [Next]_vars, NEW u \in Turns,
         {"done", "roll"} \cap client[u].heard # {}, pipe'[u].signal = "narration"
  PROVE  pipe[u].signal = "narration" /\ Kept(u) /\ pipe'[u].moved = pipe[u].moved
<1>1. pipe[u].signal = "narration"
  <2>1. pipe[u].signal \in {"narration", "roll"}
    BY DEF TypeOK, PipeRow, AllSignals
  <2>2. pipe[u].signal = "roll" => pipe'[u].signal = "roll"
    BY PipeStep
  <2> QED
    BY <2>1, <2>2
<1>2. "roll" \notin client[u].heard
  BY <1>1 DEF ToldInv, Said
<1>3. Kept(u) /\ pipe[u].pc \in Told
  BY <1>2 DEF ToldInv, Said
<1>4. pipe'[u].moved = pipe[u].moved
  BY <1>3, PipeStep
<1> QED
  BY <1>1, <1>3, <1>4

LEMMA ReadStep ==
  ASSUME TypeOK, StartInv, LifeInv, MemoryInv, [Next]_vars
  PROVE  ReadInv'
<1>1. ASSUME NEW t \in Turns, NEW u \in client'[t].asked, pipe'[u].signal = "narration",
             drive'[t].pc \notin {"idle", "load_scene"}
      PROVE  /\ drive'[t].view >= pipe'[u].moved
             /\ Loaded(t)' => u \in drive'[t].history \/ faults' # 0
  <2>1. u \in client[t].asked
    BY <1>1, LoadStep
  <2>2. u \in Turns /\ {"done", "roll"} \cap client[u].heard # {}
    BY <2>1 DEF MemoryInv, AskedInv, TypeOK, ClientRow
  <2>3. pipe[u].signal = "narration" /\ Kept(u) /\ pipe'[u].moved = pipe[u].moved
    BY <1>1, <2>2, HeardStands DEF MemoryInv
  <2>4. /\ drive[t].pc = "load_transcript" => drive[t].view >= pipe[u].moved
        /\ Loaded(t) => /\ drive[t].view >= pipe[u].moved
                        /\ u \in drive[t].history \/ faults # 0
    BY <2>1, <2>3 DEF MemoryInv, ReadInv
  <2>5. scene >= pipe[u].moved
    <3>1. pipe[u].moved <= scene /\ pipe[u].moved \in Nat /\ scene \in Nat
      BY <2>2 DEF MemoryInv, MovedInv, TypeOK, PipeRow
    <3> QED
      BY <3>1
  <2>6. faults # 0 => faults' # 0
    BY KeptStep
  <2>7. CASE drive'[t].pc = "load_transcript"
    <3>1. ~Loaded(t)'
      BY <2>7 DEF Loaded
    <3>2. \/ drive[t].pc = "load_transcript" /\ drive'[t].view = drive[t].view
          \/ drive'[t].view = scene
      BY <2>7, LoadStep
    <3> QED
      BY <3>1, <3>2, <2>3, <2>4, <2>5
  <2>8. CASE drive'[t].pc # "load_transcript"
    <3>1. Loaded(t)'
      BY <1>1, <2>8 DEF Loaded
    <3>2. /\ drive'[t].view = drive[t].view
          /\ \/ Loaded(t) /\ drive'[t].history = drive[t].history
             \/ /\ drive[t].pc = "load_transcript"
                /\ drive'[t].history = {rows[i] : i \in 1 .. Len(rows)}
      BY <3>1, LoadStep
    <3>3. CASE Loaded(t) /\ drive'[t].history = drive[t].history
      BY <3>2, <3>3, <2>3, <2>4, <2>6
    <3>4. CASE /\ drive[t].pc = "load_transcript"
               /\ drive'[t].history = {rows[i] : i \in 1 .. Len(rows)}
      <4>1. u \in {rows[i] : i \in 1 .. Len(rows)} \/ faults # 0
        BY <2>3 DEF Kept, In
      <4> QED
        BY <3>2, <3>4, <4>1, <2>3, <2>4, <2>6
    <3> QED
      BY <3>2, <3>3, <3>4
  <2> QED
    BY <2>7, <2>8
<1> QED
  BY <1>1 DEF ReadInv, Loaded

LEMMA MemoryHolds == Spec => []MemoryInv
<1>1. Init => MemoryInv
  <2> SUFFICES ASSUME Init PROVE MemoryInv
    OBVIOUS
  <2>1. ToldInv
    BY InEmpty DEF Init, ToldInv, Said
  <2>2. MovedInv /\ AskedInv /\ ReadInv
    BY DEF Init, MovedInv, AskedInv, ReadInv
  <2> QED
    BY <2>1, <2>2 DEF MemoryInv
<1>2. TypeOK /\ SpawnInv /\ MemoryInv /\ [Next]_vars => MemoryInv'
  BY ToldStep, MovedStep, AskedStep, ReadStep DEF MemoryInv, SpawnInv
<1> QED
  BY <1>1, <1>2, TypeCorrect, SpawnHolds, PTL DEF Spec

Unfailed == faults = 0

\* As long as no statement has failed and nobody has panicked, a player who
\* heard the end of a narration finds it in the turn played next: its row in the
\* transcript and at least its scene, whatever other turns overlap with both.
THEOREM RememberedUnlessFailed == Spec => [](Unfailed => NarrationRemembered)
<1>1. TypeOK /\ MemoryInv => (Unfailed => NarrationRemembered)
  BY DEF Unfailed, TypeOK, ClientRow, MemoryInv, ReadInv, NarrationRemembered, Remembered
<1> QED
  BY <1>1, TypeCorrect, MemoryHolds, PTL

-----------------------------------------------------------------------------
(* The contract of TurnContract, without its liveness *)

\* The status of the contract: row first, then the trace, then the pipeline.
Verdict(life, trace, pc) ==
    CASE life = "complete"                                  -> "finished"
      [] life # "none" /\ life # "complete"                 -> "kept"
      [] life = "none" /\ trace = "failed"                  -> "failed"
      [] life = "none" /\ trace # "failed" /\ pc = "ended"  -> "abandoned"
      [] pc = "idle"                                        -> "idle"
      [] OTHER                                              -> "open"

Status(t) == Verdict(store[t].life, store[t].trace, pipe[t].pc)

Moves == {<<"idle", "open">>, <<"open", "kept">>, <<"open", "failed">>,
          <<"open", "abandoned">>, <<"kept", "finished">>}

\* A trace of failure is the last thing a pipeline writes, and no row comes with
\* it; who asks for a roll no longer fails.
TraceInv == \A t \in Turns :
    /\ store[t].trace = "failed" => pipe[t].pc \in {"fail_send", "ended"} /\ store[t].life = "none"
    /\ pipe[t].signal = "roll" => /\ pipe[t].pc \in Late \cup {"check", "ended"}
                                  /\ store[t].trace # "failed"
    /\ pipe[t].pc = "fail_send" => store[t].trace = "failed" \/ faults # 0

ErrorInv == \A t \in Turns :
    Said(t, "failed", "error") => store[t].trace = "failed" \/ faults # 0

Acts(t) == Client(t) \/ Driver(t) \/ Pipeline(t) \/ HeavyTail(t) \/ Panic(t)

\* A step of one turn is a step of no other.
LEMMA OnlyOne ==
  ASSUME TypeOK, NEW t \in Turns, Acts(t), NEW u \in Turns, u # t
  PROVE  pipe'[u] = pipe[u] /\ store'[u] = store[u] /\ client'[u] = client[u]
<1>t. /\ pipe \in [Turns -> PipeRow] /\ store \in [Turns -> StoreRow]
      /\ client \in [Turns -> ClientRow]
  BY DEF TypeOK
<1>1. CASE Client(t)
  BY <1>1, <1>t DEF Client, Request, Read, HangUp
<1>2. CASE Driver(t)
  <2>1. UNCHANGED client /\ pipe'[u] = pipe[u]
    BY <1>2, <1>t DEF Driver, Goto, LoadScene, LoadTranscript, SeeClosed, TakeEvent, SeeEnd,
       SendFrame, SendRefused, Drain, Mark
  <2>2. store'[u] = store[u]
    <3>1. CASE Mark(t)
      BY <3>1, <1>t DEF Mark
    <3>2. CASE ~Mark(t)
      BY <1>2, <3>2 DEF Driver, LoadScene, LoadTranscript, SeeClosed, TakeEvent, SeeEnd,
         SendFrame, SendRefused, Drain
    <3> QED
      BY <3>1, <3>2
  <2> QED
    BY <2>1, <2>2
<1>3. CASE Pipeline(t)
  <2>1. UNCHANGED client
    BY <1>3, WhoSays
  <2>2. pipe'[u] = pipe[u]
    BY <1>3, <1>t DEF Pipeline, Goto, Move, HeadPhases, PreContextNavigate, SendPreContext,
       Poll, GiveUp, ContextAssembly, Round, StreamCancelled, StreamText, StreamTool, RunTool,
       StreamEnds, AwaitRoll, CheckToken, VerifyAfterStream, SceneNavigate, SendScene, SaveTurn,
       EmitText, TurnComplete, MarkCritical, Finalized, FailTurn, SendFailed
  <2>3. store'[u] = store[u]
    BY <1>3, <1>t DEF Pipeline, Advanced, HeadPhases, PreContextNavigate, SendPreContext,
       Poll, GiveUp, ContextAssembly, Round, StreamCancelled, StreamText, StreamTool, RunTool,
       StreamEnds, AwaitRoll, CheckToken, VerifyAfterStream, SceneNavigate, SendScene, SaveTurn,
       EmitText, TurnComplete, MarkCritical, Finalized, FailTurn, SendFailed
  <2> QED
    BY <2>1, <2>2, <2>3
<1>4. CASE HeavyTail(t)
  BY <1>4, <1>t DEF HeavyTail, Advanced
<1>5. CASE Panic(t)
  BY <1>5, <1>t DEF Panic, Goto
<1> QED
  BY <1>1, <1>2, <1>3, <1>4, <1>5 DEF Acts

\* What a turn's own step does to its status.
LEMMA OwnStep ==
  ASSUME TypeOK, StartInv, LifeInv, TraceInv, NEW t \in Turns, Acts(t)
  PROVE  /\ store'[t].trace = "failed"
              => pipe'[t].pc \in {"fail_send", "ended"} /\ store'[t].life = "none"
         /\ pipe'[t].signal = "roll" => /\ pipe'[t].pc \in Late \cup {"check", "ended"}
                                        /\ store'[t].trace # "failed"
         /\ pipe'[t].pc = "fail_send" => store'[t].trace = "failed" \/ faults' # 0
         /\ Status(t)' = Status(t) \/ <<Status(t), Status(t)'>> \in Moves
         /\ SendFailed(t) => store[t].trace = "failed" \/ faults # 0
<1> DEFINE V == Verdict(store[t].life, store[t].trace, pipe[t].pc)
           W == Verdict(store'[t].life, store'[t].trace, pipe'[t].pc)
           Goal == /\ store'[t].trace = "failed"
                        => pipe'[t].pc \in {"fail_send", "ended"} /\ store'[t].life = "none"
                   /\ pipe'[t].signal = "roll" => /\ pipe'[t].pc \in Late \cup {"check", "ended"}
                                                  /\ store'[t].trace # "failed"
                   /\ pipe'[t].pc = "fail_send" => store'[t].trace = "failed" \/ faults' # 0
                   /\ W = V \/ <<V, W>> \in Moves
<1>t. /\ pipe \in [Turns -> PipeRow] /\ store \in [Turns -> StoreRow]
      /\ pipe[t] \in PipeRow /\ store[t] \in StoreRow
      /\ heavy \in [Turns -> {"idle", "running", "ended"}] /\ faults \in Nat
  BY DEF TypeOK
<1>r. pipe[t].pc \in Labels /\ store[t].life \in Lives
  BY <1>t DEF PipeRow, StoreRow
<1>i. /\ store[t].trace = "failed"
           => pipe[t].pc \in {"fail_send", "ended"} /\ store[t].life = "none"
      /\ pipe[t].signal = "roll" => /\ pipe[t].pc \in Late \cup {"check", "ended"}
                                    /\ store[t].trace # "failed"
      /\ pipe[t].pc = "fail_send" => store[t].trace = "failed" \/ faults # 0
      /\ drive[t].pc = "load_transcript" => pipe[t].pc = "idle"
      /\ pipe[t].pc \in Unsaved => store[t].life = "none"
      /\ heavy[t] # "idle" => pipe[t].pc = "ended"
      /\ store[t].life = "complete" => heavy[t] = "ended"
  BY DEF TraceInv, StartInv, LifeInv
<1>k. faults # 0 => faults' # 0
  BY KeptStep DEF Next, Acts
\* Nothing the status looks at.
<1>1. ASSUME pipe'[t].pc = pipe[t].pc, pipe'[t].signal = pipe[t].signal,
             store'[t].life = store[t].life, store'[t].trace = store[t].trace
      PROVE  Goal
  BY <1>1, <1>i, <1>k
\* On, with the row as it is.
<1>2. ASSUME pipe[t].pc \notin {"idle", "ended", "fail_send"}, store'[t] = store[t],
             pipe'[t].pc \notin {"idle", "ended", "fail_send"},
             pipe'[t].signal = pipe[t].signal,
             pipe[t].pc \in Late \cup {"check"} => pipe'[t].pc \in Late
      PROVE  Goal
  BY <1>2, <1>i DEF Verdict
\* Over.
<1>3. ASSUME pipe[t].pc # "idle", store'[t] = store[t], pipe'[t].pc = "ended",
             pipe'[t].signal = pipe[t].signal
      PROVE  Goal
  BY <1>3, <1>i, <1>r DEF Verdict, Moves
<1>4. ASSUME LoadTranscript(t) PROVE Goal
  <2>1. pipe'[t] = [pipe[t] EXCEPT !.pc = "head"] /\ store' = store /\ pipe[t].pc = "idle"
    BY <1>4, <1>t, <1>i DEF LoadTranscript, Goto
  <2>2. pipe'[t].pc = "head" /\ pipe'[t].signal = pipe[t].signal
    BY <2>1, <1>t DEF PipeRow
  <2>3. store[t].life = "none" /\ store[t].trace # "failed" /\ pipe[t].signal # "roll"
    BY <2>1, <1>i DEF Unsaved, Late
  <2>4. V = "idle" /\ W = "open"
    BY <2>1, <2>2, <2>3 DEF Verdict
  <2> QED
    BY <2>1, <2>2, <2>3, <2>4 DEF Moves
<1>5. ASSUME \/ HeadPhases(t) \/ PreContextNavigate(t) \/ SendPreContext(t) \/ ContextAssembly(t)
             \/ StreamCancelled(t) \/ StreamTool(t) \/ RunTool(t) \/ StreamEnds(t)
             \/ VerifyAfterStream(t) \/ SceneNavigate(t) \/ SendScene(t) \/ EmitText(t)
             \/ TurnComplete(t)
      PROVE  Goal
  <2>1. UNCHANGED store
    BY <1>5 DEF HeadPhases, PreContextNavigate, SendPreContext, ContextAssembly, StreamCancelled,
       StreamTool, RunTool, StreamEnds, VerifyAfterStream, SceneNavigate, SendScene, EmitText,
       TurnComplete
  <2>2. /\ pipe[t].pc \in Labels \ {"idle", "ended", "fail_send"}
        /\ \E l \in Labels \ {"idle", "ended", "fail_send"} :
              /\ Goto(t, l) \/ Move(t, l)
              /\ pipe[t].pc \in Late \cup {"check"} => l \in Late
    BY <1>5 DEF HeadPhases, PreContextNavigate, SendPreContext, ContextAssembly, StreamCancelled,
       StreamTool, RunTool, StreamEnds, VerifyAfterStream, SceneNavigate, SendScene, EmitText,
       TurnComplete, Streaming, Labels, Early, Late
  <2>3. PICK l \in Labels \ {"idle", "ended", "fail_send"} :
              /\ Goto(t, l) \/ Move(t, l)
              /\ pipe[t].pc \in Late \cup {"check"} => l \in Late
    BY <2>2
  <2>4. pipe'[t].pc = l /\ pipe'[t].signal = pipe[t].signal
    BY <2>3, <1>t DEF Goto, Move, PipeRow
  <2> QED
    BY <1>2, <2>1, <2>2, <2>3, <2>4
<1>6. ASSUME Round(t) \/ Poll(t) \/ GiveUp(t) \/ StreamText(t) PROVE Goal
  <2>1. /\ UNCHANGED store
        /\ pipe[t].pc \in {"round", "guard", "stream", "forced"}
    BY <1>6 DEF Round, Poll, GiveUp, StreamText, Streaming
  <2>2. /\ pipe'[t].pc \in {"check", "forced", "stream", "context", pipe[t].pc}
        /\ pipe'[t].signal = pipe[t].signal
    BY <1>6, <1>t DEF Round, Poll, GiveUp, StreamText, Goto, PipeRow
  <2> QED
    BY <1>2, <2>1, <2>2 DEF Late
<1>7. ASSUME AwaitRoll(t) PROVE Goal
  <2>1. pipe'[t].pc = "check" /\ pipe'[t].signal = "roll" /\ UNCHANGED store
    BY <1>7, <1>t DEF AwaitRoll, PipeRow
  <2>2. pipe[t].pc = "roll" /\ store[t].trace # "failed"
    BY <1>7, <1>i DEF AwaitRoll
  <2>3. W = V
    BY <2>1, <2>2 DEF Verdict
  <2> QED
    BY <2>1, <2>2, <2>3
<1>8. ASSUME CheckToken(t) PROVE Goal
  <2>1. /\ UNCHANGED store /\ pipe[t].pc = "check"
        /\ Goto(t, "ended") \/ Goto(t, "verify")
    BY <1>8 DEF CheckToken
  <2>2. pipe'[t].pc \in {"ended", "verify"} /\ pipe'[t].signal = pipe[t].signal
    BY <2>1, <1>t DEF Goto, PipeRow
  <2> QED
    BY <1>2, <1>3, <2>1, <2>2 DEF Late
<1>9. ASSUME SaveTurn(t) PROVE Goal
  <2>1. /\ pipe[t].pc = "save" /\ pipe'[t].pc \in {"emit", "complete"}
        /\ pipe'[t].signal = pipe[t].signal
    BY <1>9, <1>t DEF SaveTurn, Goto, PipeRow
  <2>2. CASE UNCHANGED store
    BY <1>2, <2>1, <2>2 DEF Late
  <2>3. CASE store' = [store EXCEPT ![t].life = "streaming"]
    <3>1. store'[t].life = "streaming" /\ store'[t].trace = store[t].trace
      BY <2>3, <1>t DEF StoreRow
    <3>2. store[t].life = "none" /\ store[t].trace # "failed"
      BY <2>1, <1>i DEF Unsaved
    <3>3. V = "open" /\ W = "kept"
      BY <2>1, <3>1, <3>2 DEF Verdict
    <3> QED
      BY <2>1, <3>1, <3>2, <3>3 DEF Moves, Late
  <2> QED
    BY <1>9, <2>2, <2>3 DEF SaveTurn
<1>10. ASSUME MarkCritical(t) PROVE Goal
  <2>1. /\ pipe[t].pc = "lifecycle" /\ pipe'[t].pc = "finalize"
        /\ pipe'[t].signal = pipe[t].signal
    BY <1>10, <1>t DEF MarkCritical, Goto, PipeRow
  <2>2. CASE UNCHANGED store
    BY <1>2, <2>1, <2>2 DEF Late
  <2>3. CASE Advanced(t, "critical_done")
    <3>1. /\ store'[t].life = IF store[t].life = "none" THEN "none" ELSE "critical_done"
          /\ store'[t].trace = store[t].trace
      BY <2>3, <1>t DEF Advanced, StoreRow
    <3>2. store[t].life # "complete" /\ store[t].trace # "failed"
      BY <2>1, <1>i
    <3>3. W = V
      BY <2>1, <3>1, <3>2 DEF Verdict
    <3> QED
      BY <2>1, <3>1, <3>2, <3>3 DEF Late
  <2> QED
    BY <1>10, <2>2, <2>3 DEF MarkCritical
<1>11. ASSUME Finalized(t) PROVE Goal
  <2>1. /\ pipe[t].pc = "finalize" /\ pipe'[t].pc = "ended"
        /\ pipe'[t].signal = pipe[t].signal
    BY <1>11, <1>t DEF Finalized, Goto, PipeRow
  <2>2. store'[t].trace = "done" /\ store'[t].life = store[t].life
    BY <1>11, <1>t DEF Finalized, StoreRow
  <2>3. store[t].trace # "failed"
    BY <2>1, <1>i
  <2>4. W = V \/ <<V, W>> = <<"open", "abandoned">>
    BY <2>1, <2>2, <2>3 DEF Verdict
  <2> QED
    BY <2>1, <2>2, <2>4 DEF Moves
<1>12. ASSUME FailTurn(t) PROVE Goal
  <2>1. /\ pipe[t].pc = "fail" /\ pipe'[t].pc = "fail_send"
        /\ pipe'[t].signal = pipe[t].signal
    BY <1>12, <1>t DEF FailTurn, Goto, PipeRow
  <2>2. store[t].life = "none" /\ store[t].trace # "failed" /\ pipe[t].signal # "roll"
    BY <2>1, <1>i DEF Unsaved, Late
  <2>3. CASE Fault /\ UNCHANGED store
    <3>1. faults' # 0
      BY <2>3, <1>t DEF Fault
    <3>2. W = V
      BY <2>1, <2>2, <2>3 DEF Verdict
    <3> QED
      BY <2>1, <2>2, <2>3, <3>1, <3>2
  <2>4. CASE store' = [store EXCEPT ![t].failure = store[t].life # "none",
                                    ![t].trace = "failed"]
    <3>1. store'[t].trace = "failed" /\ store'[t].life = "none"
      BY <2>2, <2>4, <1>t DEF StoreRow
    <3>2. <<V, W>> = <<"open", "failed">>
      BY <2>1, <2>2, <3>1 DEF Verdict
    <3> QED
      BY <2>1, <2>2, <3>1, <3>2 DEF Moves
  <2> QED
    BY <1>12, <2>3, <2>4 DEF FailTurn
<1>13. ASSUME SendFailed(t) PROVE Goal
  <2>1. /\ pipe[t].pc = "fail_send" /\ pipe'[t].pc = "ended" /\ UNCHANGED store
        /\ pipe'[t].signal = pipe[t].signal
    BY <1>13, <1>t DEF SendFailed, Goto, PipeRow
  <2> QED
    BY <1>3, <2>1
<1>14. ASSUME Panic(t) PROVE Goal
  <2>1. /\ pipe[t].pc # "idle" /\ pipe'[t].pc = "ended" /\ UNCHANGED store
        /\ pipe'[t].signal = pipe[t].signal
    BY <1>14, <1>t DEF Panic, Goto, PipeRow
  <2> QED
    BY <1>3, <2>1
<1>15. ASSUME HeavyTail(t) PROVE Goal
  <2>1. UNCHANGED pipe /\ heavy[t] = "running"
    BY <1>15 DEF HeavyTail
  <2>2. CASE UNCHANGED store
    BY <1>1, <2>1, <2>2
  <2>3. CASE Advanced(t, "complete")
    <3>1. /\ store'[t].life = IF store[t].life = "none" THEN "none" ELSE "complete"
          /\ store'[t].trace = store[t].trace
      BY <2>3, <1>t DEF Advanced, StoreRow
    <3>2. store[t].life # "complete"
      BY <2>1, <1>i
    <3>3. W = V \/ <<V, W>> = <<"kept", "finished">>
      BY <2>1, <3>1, <3>2, <1>r DEF Verdict
    <3> QED
      BY <2>1, <3>1, <3>3, <1>i, <1>k DEF Moves
  <2> QED
    BY <1>15, <2>2, <2>3 DEF HeavyTail
<1>16. ASSUME Mark(t) PROVE Goal
  <2> DEFINE b == drive[t].policy # "always_continue"
  <2>1. UNCHANGED pipe /\ (UNCHANGED store \/ store' = [store EXCEPT ![t].marker = b])
    BY <1>16 DEF Mark
  <2> HIDE DEF b
  <2>2. store'[t].life = store[t].life /\ store'[t].trace = store[t].trace
    BY <2>1, <1>t DEF StoreRow
  <2> QED
    BY <1>1, <2>1, <2>2
<1>17. ASSUME Client(t) PROVE Goal
  <2>1. UNCHANGED <<pipe, store>>
    BY <1>17 DEF Client, Request, Read, HangUp
  <2> QED
    BY <1>1, <2>1
<1>18. ASSUME Driver(t) /\ ~Mark(t) /\ ~LoadTranscript(t) PROVE Goal
  <2>1. UNCHANGED <<pipe, store>>
    BY <1>18 DEF Driver, LoadScene, SeeClosed, TakeEvent, SeeEnd, SendFrame, SendRefused, Drain
  <2> QED
    BY <1>1, <2>1
<1>19. Goal
  BY <1>4, <1>5, <1>6, <1>7, <1>8, <1>9, <1>10, <1>11, <1>12, <1>13, <1>14, <1>15, <1>16, <1>17,
     <1>18 DEF Acts, Pipeline
<1>20. SendFailed(t) => store[t].trace = "failed" \/ faults # 0
  BY <1>i DEF SendFailed
<1>21. Status(t) = V /\ Status(t)' = W
  BY DEF Status, Verdict
<1> QED
  BY <1>19, <1>20, <1>21

LEMMA TraceStep ==
  ASSUME TypeOK, StartInv, LifeInv, TraceInv, ErrorInv, [Next]_vars
  PROVE  TraceInv' /\ ErrorInv'
<1>k. faults # 0 => faults' # 0
  BY KeptStep
<1>1. ASSUME UNCHANGED vars PROVE TraceInv'
  BY <1>1 DEF vars, TraceInv
<1>2. ASSUME NEW t \in Turns, Acts(t) PROVE TraceInv'
  <2>1. ASSUME NEW u \in Turns
        PROVE  /\ store'[u].trace = "failed"
                    => pipe'[u].pc \in {"fail_send", "ended"} /\ store'[u].life = "none"
               /\ pipe'[u].signal = "roll" => /\ pipe'[u].pc \in Late \cup {"check", "ended"}
                                              /\ store'[u].trace # "failed"
               /\ pipe'[u].pc = "fail_send" => store'[u].trace = "failed" \/ faults' # 0
    <3>1. CASE u = t
      BY <1>2, <3>1, OwnStep
    <3>2. CASE u # t
      <4>1. pipe'[u] = pipe[u] /\ store'[u] = store[u]
        BY <1>2, <3>2, OnlyOne
      <4> QED
        BY <4>1, <1>k DEF TraceInv
    <3> QED
      BY <3>1, <3>2
  <2> QED
    BY <2>1 DEF TraceInv
<1>3. TraceInv'
  BY <1>1, <1>2 DEF Next, Acts
\* What the trace says it says for good.
<1>4. ASSUME NEW u \in Turns, store[u].trace = "failed" \/ faults # 0
      PROVE  store'[u].trace = "failed" \/ faults' # 0
  <2>1. ASSUME NEW t \in Turns, Acts(t), store[u].trace = "failed"
        PROVE  store'[u].trace = "failed"
    <3>1. CASE u # t
      BY <2>1, <3>1, OnlyOne
    <3>2. CASE u = t
      <4>t. /\ store \in [Turns -> StoreRow]
            /\ pipe[u].pc \in {"fail_send", "ended"} /\ drive[u].pc # "load_transcript"
        BY <2>1 DEF TypeOK, TraceInv, StartInv
      <4>1. CASE Mark(u)
        <5> DEFINE b == drive[u].policy # "always_continue"
        <5>1. UNCHANGED store \/ store' = [store EXCEPT ![u].marker = b]
          BY <4>1 DEF Mark
        <5> HIDE DEF b
        <5> QED
          BY <2>1, <4>t, <5>1 DEF StoreRow
      <4>2. CASE HeavyTail(u)
        BY <2>1, <4>t, <4>2 DEF HeavyTail, Advanced, StoreRow
      <4>3. CASE Client(u) \/ (Driver(u) /\ ~Mark(u)) \/ Panic(u)
        BY <2>1, <4>3 DEF Client, Request, Read, HangUp, Driver, LoadScene, LoadTranscript,
           SeeClosed, TakeEvent, SeeEnd, SendFrame, SendRefused, Drain, Panic
      <4>4. CASE Pipeline(u)
        <5>1. UNCHANGED store
          BY <4>t, <4>4 DEF Pipeline, HeadPhases, PreContextNavigate, SendPreContext, Poll,
             GiveUp, ContextAssembly, Round, StreamCancelled, StreamText, StreamTool, RunTool,
             StreamEnds, AwaitRoll, CheckToken, VerifyAfterStream, SceneNavigate, SendScene,
             SaveTurn, EmitText, TurnComplete, MarkCritical, Finalized, FailTurn, SendFailed,
             Streaming
        <5> QED
          BY <2>1, <5>1
      <4> QED
        BY <2>1, <3>2, <4>1, <4>2, <4>3, <4>4 DEF Acts
    <3> QED
      BY <3>1, <3>2
  <2>2. ASSUME UNCHANGED vars PROVE store' = store
    BY <2>2 DEF vars
  <2> QED
    BY <1>4, <1>k, <2>1, <2>2 DEF Next, Acts
<1>5. ASSUME NEW u \in Turns, Said(u, "failed", "error")'
      PROVE  store'[u].trace = "failed" \/ faults' # 0
  <2>1. Said(u, "failed", "error") \/ SendFailed(u)
    BY <1>5, SaidStep DEF Closing
  <2>2. SendFailed(u) => store[u].trace = "failed" \/ faults # 0
    BY DEF SendFailed, TraceInv
  <2> QED
    BY <1>4, <2>1, <2>2 DEF ErrorInv
<1>6. ErrorInv'
  BY <1>5 DEF ErrorInv
<1> QED
  BY <1>3, <1>6

\* The arms of the status exclude each other: an idle pipeline has neither row
\* nor trace.
LEMMA StatusIs ==
  ASSUME LifeInv, TraceInv, NEW t \in Turns
  PROVE  /\ store[t].life = "complete" => Status(t) = "finished"
         /\ store[t].life # "none" /\ store[t].life # "complete" => Status(t) = "kept"
         /\ store[t].life = "none" /\ store[t].trace = "failed" => Status(t) = "failed"
         /\ store[t].life = "none" /\ store[t].trace # "failed" /\ pipe[t].pc = "ended"
              => Status(t) = "abandoned"
         /\ store[t].life = "none" /\ store[t].trace # "failed"
              /\ pipe[t].pc # "ended" /\ pipe[t].pc # "idle" => Status(t) = "open"
<1>1. pipe[t].pc = "idle" => store[t].life = "none" /\ store[t].trace # "failed"
  BY DEF LifeInv, TraceInv, Unsaved
<1>2. ASSUME store[t].life = "complete" PROVE Status(t) = "finished"
  BY <1>1, <1>2 DEF Status, Verdict
<1>3. ASSUME store[t].life # "none", store[t].life # "complete" PROVE Status(t) = "kept"
  BY <1>1, <1>3 DEF Status, Verdict
<1>4. ASSUME store[t].life = "none", store[t].trace = "failed" PROVE Status(t) = "failed"
  BY <1>1, <1>4 DEF Status, Verdict
<1>5. ASSUME store[t].life = "none", store[t].trace # "failed", pipe[t].pc = "ended"
      PROVE  Status(t) = "abandoned"
  BY <1>5 DEF Status, Verdict
<1>6. ASSUME store[t].life = "none", store[t].trace # "failed", pipe[t].pc # "ended",
             pipe[t].pc # "idle"
      PROVE  Status(t) = "open"
  BY <1>6 DEF Status, Verdict
<1> QED
  BY <1>2, <1>3, <1>4, <1>5, <1>6

\* The client hears what its turn's row and trace already say.
LEMMA ReadSayable ==
  ASSUME TypeOK, LifeInv, ToldInv, TraceInv, ErrorInv, faults = 0, NEW t \in Turns, Read(t)
  PROVE  Head(chan[t].frames) = "text" \/ Head(chan[t].frames) \in Contract!Sayable(Status(t))
<1> DEFINE f == Head(chan[t].frames)
<1>1. chan[t].frames \in Seq(Frames) /\ chan[t].frames # <<>>
  BY DEF TypeOK, ChanRow, Read
<1>2. f \in Frames /\ In(f, chan[t].frames)
  BY <1>1, InTail
<1> HIDE DEF f
<1>t. store[t].life \in Lives /\ pipe[t].signal \in AllSignals
  BY DEF TypeOK, StoreRow, PipeRow
<1>3. CASE f = "done"
  <2>1. store[t].life # "none"
    BY <1>2, <1>3 DEF ToldInv, Said, Kept
  <2>2. Status(t) = "kept" \/ Status(t) = "finished"
    BY <2>1, StatusIs
  <2> QED
    BY <1>3, <2>2 DEF Contract!Sayable, f
<1>4. CASE f = "roll"
  <2>1. pipe[t].signal = "roll"
    BY <1>2, <1>4 DEF ToldInv, Said
  <2>2. store[t].trace # "failed" /\ pipe[t].pc # "idle"
    BY <2>1 DEF TraceInv, Late
  <2>3. \/ Status(t) = "open" \/ Status(t) = "kept" \/ Status(t) = "finished"
        \/ Status(t) = "abandoned"
    BY <2>2, StatusIs
  <2> QED
    BY <1>4, <2>3 DEF Contract!Sayable, f
<1>5. CASE f = "error"
  <2>1. store[t].trace = "failed" /\ store[t].life = "none"
    BY <1>2, <1>5 DEF ErrorInv, TraceInv, Said
  <2>2. Status(t) = "failed"
    BY <2>1, StatusIs
  <2> QED
    BY <1>5, <2>2 DEF Contract!Sayable, f
<1> QED
  BY <1>2, <1>3, <1>4, <1>5 DEF Frames, f

StatusMap == [t \in Turns |-> Status(t)]
ToldMap   == [t \in Turns |-> client[t].heard \ {"text"}]

\* The step of the contract a step of the program is.
ContractStep(t) ==
    \/ /\ \E m \in Moves : StatusMap[t] = m[1] /\ StatusMap' = [StatusMap EXCEPT ![t] = m[2]]
       /\ ToldMap' = ToldMap
    \/ /\ \E v \in Contract!Sayable(StatusMap[t]) :
             ToldMap' = [ToldMap EXCEPT ![t] = @ \cup {v}]
       /\ StatusMap' = StatusMap

LEMMA StepsAreSteps ==
  ASSUME TypeOK, StartInv, LifeInv, ToldInv, TraceInv, ErrorInv, faults = 0,
         NEW t \in Turns, Acts(t)
  PROVE  ContractStep(t) \/ UNCHANGED <<StatusMap, ToldMap>>
<1>t. client \in [Turns -> ClientRow]
  BY DEF TypeOK
<1>1. ASSUME NEW u \in Turns, u # t
      PROVE  Status(u)' = Status(u) /\ client'[u] = client[u]
  BY <1>1, OnlyOne DEF Status, Verdict
<1>2. Status(t)' = Status(t) \/ <<Status(t), Status(t)'>> \in Moves
  BY OwnStep
<1>3. StatusMap' = [StatusMap EXCEPT ![t] = Status(t)'] /\ StatusMap[t] = Status(t)
  BY <1>1 DEF StatusMap
<1>4. CASE Read(t)
  <2> DEFINE f == Head(chan[t].frames)
  <2>1. f = "text" \/ f \in Contract!Sayable(Status(t))
    BY <1>4, ReadSayable
  <2>2. client'[t].heard = client[t].heard \cup {f}
    BY <1>4, <1>t DEF Read, ClientRow
  <2>3. StatusMap' = StatusMap
    <3>1. Status(t)' = Status(t)
      BY <1>4 DEF Read, Status, Verdict
    <3> QED
      BY <3>1, <1>3 DEF StatusMap
  <2> HIDE DEF f
  <2>4. CASE f = "text"
    <3>1. ToldMap' = ToldMap
      BY <1>1, <2>2, <2>4 DEF ToldMap
    <3> QED
      BY <2>3, <3>1
  <2>5. CASE f # "text"
    <3>1. ToldMap' = [ToldMap EXCEPT ![t] = @ \cup {f}]
      <4>1. client'[t].heard \ {"text"} = (client[t].heard \ {"text"}) \cup {f}
        BY <2>2, <2>5
      <4> QED
        BY <1>1, <4>1 DEF ToldMap
    <3> QED
      BY <1>3, <2>1, <2>3, <2>5, <3>1 DEF ContractStep
  <2> QED
    BY <2>4, <2>5
<1>5. CASE ~Read(t)
  <2>1. client'[t].heard = client[t].heard
    <3>1. CASE Client(t)
      <4>1. \/ client' = [client EXCEPT ![t].pc = "gone"]
            \/ \E a : client' = [client EXCEPT ![t].pc = "reading", ![t].asked = a]
        BY <1>5, <3>1 DEF Client, Request, HangUp
      <4> QED
        BY <1>t, <4>1 DEF ClientRow
    <3>2. CASE Driver(t)
      BY <3>2 DEF Driver, LoadScene, LoadTranscript, SeeClosed, TakeEvent, SeeEnd, SendFrame,
         SendRefused, Drain, Mark
    <3>3. CASE Pipeline(t) \/ HeavyTail(t) \/ Panic(t)
      BY <3>3, WhoSays DEF HeavyTail, Panic
    <3> QED
      BY <3>1, <3>2, <3>3 DEF Acts
  <2>2. ToldMap' = ToldMap
    BY <1>1, <2>1 DEF ToldMap
  <2>3. CASE Status(t)' = Status(t)
    BY <1>3, <2>2, <2>3 DEF StatusMap
  <2>4. CASE <<Status(t), Status(t)'>> \in Moves
    <3>1. PICK m \in Moves : m = <<Status(t), Status(t)'>>
      BY <2>4
    <3> QED
      BY <1>3, <2>2, <3>1 DEF ContractStep
  <2> QED
    BY <1>2, <2>3, <2>4
<1> QED
  BY <1>4, <1>5

LEMMA NeverFails ==
  ASSUME MaxFaults = 0
  PROVE  Spec => []Unfailed
<1>1. Init => Unfailed
  BY DEF Init, Unfailed
<1>2. Unfailed /\ [Next]_vars => Unfailed'
  <2> SUFFICES ASSUME faults = 0, [Next]_vars PROVE faults' = 0
    BY DEF Unfailed
  <2>1. ~Fault
    BY DEF Fault
  <2>2. ASSUME NEW t \in Turns, Pipeline(t) PROVE faults' = 0
    BY <2>1, <2>2 DEF Pipeline, HeadPhases, PreContextNavigate, SendPreContext, Poll, GiveUp,
       ContextAssembly, Round, StreamCancelled, StreamText, StreamTool, RunTool, StreamEnds,
       AwaitRoll, CheckToken, VerifyAfterStream, SceneNavigate, SendScene, SaveTurn, EmitText,
       TurnComplete, MarkCritical, Finalized, FailTurn, SendFailed
  <2>3. ASSUME NEW t \in Turns, Client(t) \/ Driver(t) \/ HeavyTail(t) \/ Panic(t)
        PROVE  faults' = 0
    BY <2>1, <2>3 DEF Client, Request, Read, HangUp, Driver, LoadScene, LoadTranscript,
       SeeClosed, TakeEvent, SeeEnd, SendFrame, SendRefused, Drain, Mark, HeavyTail, Panic
  <2> QED
    BY <2>2, <2>3 DEF Next, vars
<1> QED
  BY <1>1, <1>2, PTL DEF Spec

\* Where nothing fails, whoever heard the end of a narration finds it in the
\* turn played next, always.
THEOREM RememberedAlways ==
  ASSUME MaxFaults = 0
  PROVE  Spec => []NarrationRemembered
BY NeverFails, RememberedUnlessFailed, PTL

LEMMA TraceHolds == Spec => [](TraceInv /\ ErrorInv)
<1>1. Init => TraceInv /\ ErrorInv
  BY InEmpty DEF Init, TraceInv, ErrorInv, Said
<1>2. TypeOK /\ SpawnInv /\ (TraceInv /\ ErrorInv) /\ [Next]_vars => (TraceInv /\ ErrorInv)'
  BY TraceStep DEF SpawnInv
<1> QED
  BY <1>1, <1>2, TypeCorrect, SpawnHolds, PTL DEF Spec

\* What has become of a turn is settled once and for all, whatever statement fails
\* and whoever panics: a turn that was kept, failed or was abandoned never becomes
\* anything else, but that a kept one is finished.
FateSettled == [][\A t \in Turns : \/ Status(t)' = Status(t)
                                   \/ <<Status(t), Status(t)'>> \in Moves]_vars

\* Whatever fails, the fate of a turn moves only as TurnContract lets it.
THEOREM FateIsSettled == Spec => FateSettled
<1>1. TypeOK /\ SpawnInv /\ (TraceInv /\ ErrorInv) /\ [Next]_vars
        => [\A t \in Turns : \/ Status(t)' = Status(t)
                             \/ <<Status(t), Status(t)'>> \in Moves]_vars
  <2> SUFFICES ASSUME TypeOK, SpawnInv, TraceInv, NEW t \in Turns, NEW u \in Turns, Acts(t)
               PROVE  Status(u)' = Status(u) \/ <<Status(u), Status(u)'>> \in Moves
    BY DEF Next, Acts
  <2>1. CASE u = t
    BY <2>1, OwnStep DEF SpawnInv
  <2>2. CASE u # t
    BY <2>2, OnlyOne DEF Status, Verdict
  <2> QED
    BY <2>1, <2>2
<1> QED
  BY <1>1, TypeCorrect, SpawnHolds, TraceHolds, PTL DEF Spec, FateSettled

\* A step from a state in which nothing has failed yet is a step of the contract.
LEMMA ContractSteps ==
  ASSUME TypeOK, SpawnInv, MemoryInv, TraceInv, ErrorInv, Unfailed, [Next]_vars
  PROVE  [Contract!Next]_<<StatusMap, ToldMap>>
<1>1. ASSUME NEW t \in Turns, Acts(t) PROVE [Contract!Next]_<<StatusMap, ToldMap>>
  <2>1. ContractStep(t) \/ UNCHANGED <<StatusMap, ToldMap>>
    BY <1>1, StepsAreSteps DEF SpawnInv, MemoryInv, Unfailed
  <2>2. ASSUME ContractStep(t) PROVE Contract!Next
    <3>1. ASSUME NEW m \in Moves, StatusMap[t] = m[1],
                 StatusMap' = [StatusMap EXCEPT ![t] = m[2]], ToldMap' = ToldMap
          PROVE  Contract!Next
      <4>1. ASSUME NEW a, NEW b, m = <<a, b>> PROVE Contract!Becomes(t, a, b)
        BY <3>1, <4>1 DEF Contract!Becomes, StatusMap, ToldMap, Status, Verdict
      <4> QED
        BY <4>1 DEF Moves, Contract!Next
    <3>2. ASSUME NEW v \in Contract!Sayable(StatusMap[t]), StatusMap' = StatusMap,
                 ToldMap' = [ToldMap EXCEPT ![t] = @ \cup {v}]
          PROVE  Contract!Next
      <4>1. Contract!Tell(t)
        BY <3>2 DEF Contract!Tell, Contract!Sayable, StatusMap, ToldMap, Status, Verdict
      <4> QED
        BY <4>1 DEF Contract!Next
    <3> QED
      BY <2>2, <3>1, <3>2 DEF ContractStep
  <2> QED
    BY <2>1, <2>2
<1>2. ASSUME UNCHANGED vars PROVE UNCHANGED <<StatusMap, ToldMap>>
  BY <1>2 DEF vars, StatusMap, ToldMap, Status, Verdict
<1> QED
  BY <1>1, <1>2 DEF Next, Acts

\* Until the first failed statement or panic every step keeps the contract of
\* TurnContract, however many faults a session may meet later.
KeptUntilFailure == [][Unfailed => Contract!Next \/ UNCHANGED <<StatusMap, ToldMap>>]_vars

\* The contract holds up to and including the first failure (execute_turn, drive_turn_stream).
THEOREM ContractUntilFailure == Spec => KeptUntilFailure
<1>1. TypeOK /\ SpawnInv /\ MemoryInv /\ (TraceInv /\ ErrorInv) /\ [Next]_vars
        => [Unfailed => Contract!Next \/ UNCHANGED <<StatusMap, ToldMap>>]_vars
  BY ContractSteps
<1> QED
  BY <1>1, TypeCorrect, SpawnHolds, MemoryHolds, TraceHolds, PTL DEF Spec, KeptUntilFailure

\* Any number of turns, however they overlap, keep the contract of TurnContract
\* where nothing fails: each is kept, failed or abandoned once and for all, and
\* its player hears only what is already durable.  (The run checks one turn, and
\* the liveness of the contract too.)
THEOREM ContractKept ==
  ASSUME MaxFaults = 0
  PROVE  Spec => Contract!Safe
<1>1. Init => Contract!Init
  <2> SUFFICES ASSUME Init PROVE Contract!Init
    OBVIOUS
  <2> QED
    BY DEF Init, Contract!Init
<1>2. TypeOK /\ SpawnInv /\ MemoryInv /\ (TraceInv /\ ErrorInv) /\ Unfailed /\ [Next]_vars
        => [Contract!Next]_<<StatusMap, ToldMap>>
  BY ContractSteps
<1> QED
  BY <1>1, <1>2, TypeCorrect, SpawnHolds, MemoryHolds, TraceHolds, NeverFails, PTL
     DEF Spec, Contract!Safe, StatusMap, ToldMap, Status, Verdict

-----------------------------------------------------------------------------
(* Every turn comes to rest *)

\* How far a pipeline has yet to go: every stage is nearer to the end than the
\* one before, a round that is begun and a text that is streamed are used up.
Stage(l) == CASE l = "idle"           -> 20
              [] l = "head"           -> 19
              [] l = "navigate"       -> 18
              [] l = "navigated"      -> 17
              [] l = "guard"          -> 16
              [] l = "context"        -> 14
              [] l = "stream"         -> 13
              [] l = "tool"           -> 12
              [] l = "round"          -> 11
              [] l \in {"forced", "roll"}        -> 10
              [] l = "check"          -> 9
              [] l = "verify"         -> 8
              [] l = "critical_scene" -> 7
              [] l = "scene_send"     -> 6
              [] l = "save"           -> 5
              [] l = "emit"           -> 4
              [] l = "complete"       -> 3
              [] l \in {"lifecycle", "fail"}     -> 2
              [] l \in {"finalize", "fail_send"} -> 1
              [] l = "ended"          -> 0

Patience(p) == IF p.pc = "guard" /\ p.guard = "waiting" THEN 0 ELSE 1

ToGo(p) == Stage(p.pc) + Patience(p) + 3 * (MaxRounds - p.rounds) + (MaxDeltas - p.deltas)

DriveStage(l) == CASE l = "idle"            -> 8
                   [] l = "load_scene"      -> 7
                   [] l = "load_transcript" -> 6
                   [] l = "send"            -> 5
                   [] l = "next"            -> 3
                   [] l = "drain"           -> 2
                   [] l = "mark"            -> 1
                   [] l = "ended"           -> 0

\* A heavy task, and a client.
Third(l) == CASE l = "idle"                 -> 2
              [] l \in {"running", "reading"} -> 1
              [] l \in {"ended", "gone"}      -> 0

\* What there is left to do for a turn: an event costs the driver a frame, a
\* frame costs the client a read.
Work(t) == 4 * ToGo(pipe[t]) + 3 * Len(chan[t].events) + Len(chan[t].frames)
             + DriveStage(drive[t].pc) + Third(heavy[t]) + Third(client[t].pc)

\* A round that is begun and a text that is sent are within their limits.
LimitInv == \A t \in Turns : pipe[t].rounds <= MaxRounds /\ pipe[t].deltas <= MaxDeltas

LEMMA Stages ==
  /\ \A l \in Labels : Stage(l) \in Nat
  /\ Stage("idle") = 20 /\ Stage("head") = 19 /\ Stage("navigate") = 18
  /\ Stage("navigated") = 17 /\ Stage("guard") = 16 /\ Stage("context") = 14
  /\ Stage("stream") = 13 /\ Stage("tool") = 12 /\ Stage("round") = 11
  /\ Stage("forced") = 10 /\ Stage("roll") = 10 /\ Stage("check") = 9
  /\ Stage("verify") = 8 /\ Stage("critical_scene") = 7 /\ Stage("scene_send") = 6
  /\ Stage("save") = 5 /\ Stage("emit") = 4 /\ Stage("complete") = 3
  /\ Stage("lifecycle") = 2 /\ Stage("fail") = 2 /\ Stage("finalize") = 1
  /\ Stage("fail_send") = 1 /\ Stage("ended") = 0
BY DEF Stage, Labels, Early, Late

LEMMA OtherStages ==
  /\ \A l \in DriveLabels : DriveStage(l) \in Nat
  /\ DriveStage("idle") = 8 /\ DriveStage("load_scene") = 7
  /\ DriveStage("load_transcript") = 6 /\ DriveStage("send") = 5 /\ DriveStage("next") = 3
  /\ DriveStage("drain") = 2 /\ DriveStage("mark") = 1 /\ DriveStage("ended") = 0
  /\ \A l \in {"idle", "running", "ended", "reading", "gone"} : Third(l) \in Nat
  /\ Third("idle") = 2 /\ Third("running") = 1 /\ Third("ended") = 0
  /\ Third("reading") = 1 /\ Third("gone") = 0
BY DEF DriveStage, DriveLabels, Third

LEMMA Patient == \A p : Patience(p) \in {0, 1} /\ (p.pc # "guard" => Patience(p) = 1)
BY DEF Patience

\* A pipeline that goes on to a later stage has less to go.
LEMMA LaterStage ==
  ASSUME NEW p \in PipeRow, NEW q \in PipeRow, p.pc # "guard", Stage(q.pc) < Stage(p.pc),
         q.rounds = p.rounds, q.deltas = p.deltas
  PROVE  ToGo(q) < ToGo(p)
<1>1. /\ Stage(p.pc) \in Nat /\ Stage(q.pc) \in Nat /\ p.rounds \in Nat /\ p.deltas \in Nat
      /\ Patience(p) = 1 /\ Patience(q) \in {0, 1}
  BY Stages, Patient DEF PipeRow
<1> HIDE DEF Stage, Patience
<1> QED
  BY <1>1, LimitsAssumption DEF ToGo

\* Every step of the pipeline brings it nearer to its end, but for a poll that
\* finds the turn before still at work once more.
LEMMA PipeNears ==
  ASSUME TypeOK, TypeOK', LimitInv, NEW t \in Turns, Pipeline(t) \/ Panic(t)
  PROVE  \/ UNCHANGED vars
         \/ /\ ToGo(pipe'[t]) < ToGo(pipe[t])
            /\ pipe'[t].rounds <= MaxRounds /\ pipe'[t].deltas <= MaxDeltas
<1> DEFINE p == pipe[t]
           q == pipe'[t]
           Goal == ToGo(q) < ToGo(p) /\ q.rounds <= MaxRounds /\ q.deltas <= MaxDeltas
<1>t. /\ pipe \in [Turns -> PipeRow] /\ p \in PipeRow /\ pipe' \in [Turns -> PipeRow]
      /\ q \in PipeRow /\ p.rounds <= MaxRounds /\ p.deltas <= MaxDeltas
      /\ p.rounds \in Nat /\ p.deltas \in Nat /\ p.pc \in Labels
  BY DEF TypeOK, LimitInv, PipeRow
\* The steps that only move the pipeline on.
<1>1. ASSUME NEW l \in Labels, Goto(t, l) \/ Move(t, l), p.pc # "guard", Stage(l) < Stage(p.pc)
      PROVE  Goal
  <2>1. q.pc = l /\ q.rounds = p.rounds /\ q.deltas = p.deltas
    BY <1>1, <1>t DEF Goto, Move, PipeRow
  <2> QED
    BY <1>1, <1>t, <2>1, LaterStage
<1>2. ASSUME HeadPhases(t) \/ PreContextNavigate(t) \/ SendPreContext(t) \/ ContextAssembly(t)
      PROVE  Goal
  BY <1>1, <1>2, Stages DEF HeadPhases, PreContextNavigate, SendPreContext, ContextAssembly,
     Labels, Early
<1>3. ASSUME StreamCancelled(t) \/ StreamTool(t) \/ RunTool(t) \/ StreamEnds(t) \/ CheckToken(t)
      PROVE  Goal
  BY <1>1, <1>3, Stages DEF StreamCancelled, StreamTool, RunTool, StreamEnds, CheckToken,
     Streaming, Labels, Early, Late
<1>4. ASSUME \/ VerifyAfterStream(t) \/ SceneNavigate(t) \/ SendScene(t) \/ SaveTurn(t)
             \/ EmitText(t) \/ TurnComplete(t)
      PROVE  Goal
  <2>1. CASE VerifyAfterStream(t)
    <3>1. p.pc = "verify" /\ (Goto(t, "critical_scene") \/ Goto(t, "save"))
      BY <2>1 DEF VerifyAfterStream
    <3> QED
      BY <1>1, <3>1, Stages DEF Labels, Late
  <2>2. CASE SaveTurn(t)
    <3>1. p.pc = "save" /\ (Goto(t, "emit") \/ Goto(t, "complete"))
      BY <2>2 DEF SaveTurn
    <3> QED
      BY <1>1, <3>1, Stages DEF Labels, Late
  <2>3. CASE SceneNavigate(t) \/ SendScene(t) \/ EmitText(t) \/ TurnComplete(t)
    BY <1>1, <2>3, Stages DEF SceneNavigate, SendScene, EmitText, TurnComplete, Labels, Late
  <2> QED
    BY <1>4, <2>1, <2>2, <2>3
<1>5. ASSUME MarkCritical(t) \/ Finalized(t) \/ FailTurn(t) \/ SendFailed(t)
      PROVE  Goal
  BY <1>1, <1>5, Stages DEF MarkCritical, Finalized, FailTurn, SendFailed, Labels, Late
<1>6. ASSUME Panic(t), p.pc # "guard" PROVE Goal
  <2>1. Stage("ended") < Stage(p.pc)
    BY <1>6, Stages DEF Panic, Labels, Early, Late
  <2> QED
    BY <1>1, <1>6, <2>1 DEF Panic, Labels
\* The guard.
<1>7. ASSUME p.pc = "guard", q.pc \in {"context", "ended"}, q.rounds = p.rounds,
             q.deltas = p.deltas
      PROVE  Goal
  <2>1. Stage(q.pc) \in {14, 0} /\ Stage(p.pc) = 16
    BY <1>7, Stages
  <2>2. Patience(p) \in {0, 1} /\ Patience(q) \in {0, 1}
    BY Patient
  <2> HIDE DEF Stage, Patience
  <2> QED
    BY <1>7, <1>t, <2>1, <2>2, LimitsAssumption DEF ToGo
<1>8. ASSUME Panic(t), p.pc = "guard" PROVE Goal
  <2>1. q.pc = "ended" /\ q.rounds = p.rounds /\ q.deltas = p.deltas
    BY <1>8, <1>t DEF Panic, Goto, PipeRow
  <2> QED
    BY <1>7, <1>8, <2>1
<1>9. ASSUME GiveUp(t) PROVE Goal
  <2>1. p.pc = "guard" /\ q.pc = "context" /\ q.rounds = p.rounds /\ q.deltas = p.deltas
    BY <1>9, <1>t DEF GiveUp, PipeRow
  <2> QED
    BY <1>7, <2>1
<1>10. ASSUME Poll(t) PROVE UNCHANGED vars \/ Goal
  <2>1. CASE Reached
    <3>1. p.pc = "guard" /\ q.pc = "context" /\ q.rounds = p.rounds /\ q.deltas = p.deltas
      BY <1>10, <1>t, <2>1 DEF Poll, PipeRow
    <3> QED
      BY <1>7, <3>1
  <2>2. CASE ~Reached /\ p.guard = "waiting"
    <3>1. pipe' = pipe
      BY <1>10, <1>t, <2>2 DEF Poll, PipeRow
    <3> QED
      BY <1>10, <3>1 DEF Poll, vars
  <2>3. CASE ~Reached /\ p.guard # "waiting"
    <3>1. /\ p.pc = "guard" /\ q.pc = "guard" /\ q.guard = "waiting"
          /\ q.rounds = p.rounds /\ q.deltas = p.deltas
      BY <1>10, <1>t, <2>3 DEF Poll, PipeRow
    <3>2. Patience(p) = 1 /\ Patience(q) = 0
      BY <2>3, <3>1 DEF Patience
    <3>3. Stage(q.pc) = 16 /\ Stage(p.pc) = 16
      BY <3>1, Stages
    <3> HIDE DEF Stage, Patience
    <3> QED
      BY <1>t, <3>1, <3>2, <3>3, LimitsAssumption DEF ToGo
  <2> QED
    BY <2>1, <2>2, <2>3
\* A round that is begun, and a text that is streamed.
<1>11. ASSUME Round(t) PROVE Goal
  <2>1. CASE Goto(t, "check") \/ Goto(t, "forced")
    BY <1>1, <1>11, <2>1, Stages DEF Round, Labels, Early
  <2>2. CASE p.rounds < MaxRounds /\ pipe' = [pipe EXCEPT ![t].pc = "stream", ![t].rounds = @ + 1]
    <3>1. /\ p.pc = "round" /\ q.pc = "stream" /\ q.rounds = p.rounds + 1
          /\ q.deltas = p.deltas
      BY <1>11, <1>t, <2>2 DEF Round, PipeRow
    <3>2. Stage(p.pc) = 11 /\ Stage(q.pc) = 13 /\ Patience(p) = 1 /\ Patience(q) = 1
      BY <3>1, Stages, Patient
    <3> HIDE DEF Stage, Patience
    <3> QED
      BY <1>t, <2>2, <3>1, <3>2, LimitsAssumption DEF ToGo
  <2>3. ~(p.rounds >= MaxRounds) => p.rounds < MaxRounds
    BY <1>t, LimitsAssumption
  <2> QED
    BY <1>11, <2>1, <2>2, <2>3 DEF Round
<1>12. ASSUME StreamText(t) PROVE Goal
  <2>1. /\ p.pc # "guard" /\ q.pc = p.pc /\ q.rounds = p.rounds
        /\ q.deltas = p.deltas + 1 /\ p.deltas < MaxDeltas
    BY <1>12, <1>t DEF StreamText, Streaming, PipeRow
  <2>2. Stage(p.pc) \in Nat /\ Patience(p) = 1 /\ Patience(q) = 1
    BY <1>t, <2>1, Stages, Patient
  <2> HIDE DEF Stage, Patience
  <2> QED
    BY <1>t, <2>1, <2>2, LimitsAssumption DEF ToGo
<1>13. ASSUME AwaitRoll(t) PROVE Goal
  <2>1. /\ p.pc = "roll" /\ q.pc = "check" /\ q.rounds = p.rounds
        /\ q.deltas = p.deltas
    BY <1>13, <1>t DEF AwaitRoll, PipeRow
  <2> QED
    BY <1>t, <2>1, LaterStage, Stages
<1> QED
  BY <1>2, <1>3, <1>4, <1>5, <1>6, <1>8, <1>9, <1>10, <1>11, <1>12, <1>13 DEF Pipeline

\* What a step of the pipeline leaves to the driver: one event at most.
LEMMA PipeGives ==
  ASSUME TypeOK, LifeInv, NEW t \in Turns, Pipeline(t) \/ Panic(t)
  PROVE  /\ Len(chan'[t].events) <= Len(chan[t].events) + 1
         /\ chan'[t].frames = chan[t].frames
         /\ Third(heavy'[t]) <= Third(heavy[t])
         /\ UNCHANGED <<drive, client>>
<1>t. /\ chan \in [Turns -> ChanRow] /\ chan[t].events \in Seq(Events)
      /\ heavy \in [Turns -> {"idle", "running", "ended"}] /\ Len(chan[t].events) \in Nat
      /\ Third(heavy[t]) \in Nat
  <2>1. heavy[t] \in {"idle", "running", "ended"} /\ chan[t].events \in Seq(Events)
    BY DEF TypeOK, ChanRow
  <2>2. Third(heavy[t]) \in Nat /\ Len(chan[t].events) \in Nat
    BY <2>1, OtherStages
  <2> QED
    BY <2>1, <2>2 DEF TypeOK
<1>1. ASSUME NEW y, Send(t, y)
      PROVE  /\ Len(chan'[t].events) <= Len(chan[t].events) + 1
             /\ chan'[t].frames = chan[t].frames
  <2>1. CASE UNCHANGED chan
    BY <1>t, <2>1
  <2>2. CASE chan' = [chan EXCEPT ![t].events = Append(@, y)]
    <3>1. Len(Append(chan[t].events, y)) = Len(chan[t].events) + 1
      BY <1>t
    <3>2. chan'[t].events = Append(chan[t].events, y) /\ chan'[t].frames = chan[t].frames
      BY <1>t, <2>2 DEF ChanRow
    <3> QED
      BY <1>t, <3>1, <3>2
  <2> QED
    BY <1>1, <2>1, <2>2 DEF Send
<1>2. CASE Panic(t)
  BY <1>t, <1>2 DEF Panic
<1>3. CASE Pipeline(t)
  <2>1. UNCHANGED <<drive, client>> /\ (UNCHANGED chan \/ \E y \in Events : Send(t, y))
    BY <1>3, WhoSays DEF Events
  <2>2. Third(heavy'[t]) <= Third(heavy[t])
    <3>1. CASE Finalized(t)
      <4>1. heavy[t] = "idle" /\ heavy'[t] = "running"
        BY <1>t, <3>1 DEF Finalized, LifeInv
      <4> QED
        BY <4>1, OtherStages
    <3>2. CASE ~Finalized(t)
      <4>1. UNCHANGED heavy
        BY <1>3, <3>2 DEF Pipeline, HeadPhases, PreContextNavigate, SendPreContext, Poll,
           GiveUp, ContextAssembly, Round, StreamCancelled, StreamText, StreamTool, RunTool,
           StreamEnds, AwaitRoll, CheckToken, VerifyAfterStream, SceneNavigate, SendScene,
           SaveTurn, EmitText, TurnComplete, MarkCritical, FailTurn, SendFailed
      <4> QED
        BY <1>t, <4>1
    <3> QED
      BY <3>1, <3>2
  <2> QED
    BY <1>1, <1>t, <2>1, <2>2
<1> QED
  BY <1>2, <1>3

LEMMA Sums ==
  /\ \A e, f, d, d1 \in Nat : d1 < d => 3 * e + f + d1 < 3 * e + f + d /\ 3 * 0 + f + d1 < 3 * e + f + d
  /\ \A e, f, d, d1 \in Nat : d1 < d + 3 => 3 * (e - 1) + f + d1 < 3 * e + f + d
  /\ \A e, f, d, d1 \in Nat : d1 + 1 < d => 3 * e + (f + 1) + d1 < 3 * e + f + d
OBVIOUS

\* The driver's own steps: each leaves it nearer to its end, whatever it hands on.
LEMMA DriverNears ==
  ASSUME TypeOK, NEW t \in Turns, Driver(t), ~LoadTranscript(t)
  PROVE  /\ 3 * Len(chan'[t].events) + Len(chan'[t].frames) + DriveStage(drive'[t].pc)
              < 3 * Len(chan[t].events) + Len(chan[t].frames) + DriveStage(drive[t].pc)
         /\ UNCHANGED <<pipe, heavy, client>>
<1> DEFINE Es == chan[t].events
           Fs == chan[t].frames
           Goal == 3 * Len(chan'[t].events) + Len(chan'[t].frames) + DriveStage(drive'[t].pc)
                     < 3 * Len(Es) + Len(Fs) + DriveStage(drive[t].pc)
<1>t. /\ chan \in [Turns -> ChanRow] /\ Es \in Seq(Events) /\ Fs \in Seq(Frames)
      /\ drive \in [Turns -> DriveRow] /\ Len(Es) \in Nat /\ Len(Fs) \in Nat
      /\ drive[t].pc \in DriveLabels
  BY DEF TypeOK, ChanRow, DriveRow
<1>0. UNCHANGED <<pipe, heavy, client>>
  BY DEF Driver, LoadScene, SeeClosed, TakeEvent, SeeEnd, SendFrame, SendRefused, Drain, Mark
\* On, without touching the channels or by emptying the one it reads.
<1>1. ASSUME chan'[t].frames = Fs, chan'[t].events = Es \/ chan'[t].events = <<>>,
             DriveStage(drive'[t].pc) < DriveStage(drive[t].pc), drive'[t].pc \in DriveLabels
      PROVE  Goal
  <2>1. Len(chan'[t].events) = Len(Es) \/ Len(chan'[t].events) = 0
    BY <1>1
  <2>2. DriveStage(drive'[t].pc) \in Nat /\ DriveStage(drive[t].pc) \in Nat
    BY <1>1, <1>t, OtherStages
  <2> QED
    BY <1>1, <1>t, <2>1, <2>2, Sums
\* On with an event less.
<1>2. ASSUME Es # <<>>, chan' = [chan EXCEPT ![t].events = Tail(@)],
             DriveStage(drive'[t].pc) < DriveStage(drive[t].pc) + 3, drive'[t].pc \in DriveLabels
      PROVE  Goal
  <2>1. chan'[t].events = Tail(Es) /\ chan'[t].frames = Fs
    BY <1>2, <1>t DEF ChanRow
  <2>2. Len(Tail(Es)) = Len(Es) - 1
    BY <1>2, <1>t
  <2>3. DriveStage(drive'[t].pc) \in Nat /\ DriveStage(drive[t].pc) \in Nat
    BY <1>2, <1>t, OtherStages
  <2> QED
    BY <1>2, <1>t, <2>1, <2>2, <2>3, Sums
<1>c. \A l \in DriveLabels, k \in DriveLabels :
         DriveStage(l) < DriveStage(k) => DriveStage(l) < DriveStage(k) + 3
  BY OtherStages
<1>d. /\ DriveStage("ended") < DriveStage("next") /\ DriveStage("ended") < DriveStage("send")
      /\ DriveStage("drain") < DriveStage("next") /\ DriveStage("drain") < DriveStage("send")
      /\ DriveStage("mark") < DriveStage("drain") /\ DriveStage("ended") < DriveStage("mark")
      /\ DriveStage("load_transcript") < DriveStage("load_scene")
      /\ DriveStage("drain") < DriveStage("drain") + 3
      /\ DriveStage("send") < DriveStage("next") + 3
      /\ {"ended", "next", "send", "drain", "mark", "load_scene", "load_transcript"}
           \subseteq DriveLabels
  BY OtherStages DEF DriveLabels
<1> HIDE DEF Goal
<1>3. ASSUME LoadScene(t) PROVE Goal
  <2>1. chan' = chan /\ drive[t].pc = "load_scene" /\ drive'[t].pc = "load_transcript"
    BY <1>3, <1>t DEF LoadScene, DriveRow
  <2> QED
    BY <1>1, <2>1, <1>c, <1>d
<1>4. ASSUME NEW m, Disconnect(t, m), drive[t].pc \in {"next", "send"} PROVE Goal
  <2>1. /\ chan'[t].frames = Fs /\ (chan'[t].events = Es \/ chan'[t].events = <<>>)
        /\ drive'[t].pc \in {"ended", "drain"}
    BY <1>4, <1>t DEF Disconnect, ChanRow, DriveRow
  <2> QED
    BY <1>1, <1>4, <2>1, <1>c, <1>d
<1>5. ASSUME SeeClosed(t) \/ SendRefused(t) PROVE Goal
  BY <1>4, <1>5 DEF SeeClosed, SendRefused
<1>6. ASSUME TakeEvent(t) PROVE Goal
  <2>1. drive[t].pc = "next" /\ drive'[t].pc \in {"ended", "send"}
    <3> DEFINE m == drive[t].mutated \/ Head(Es) \in Mutating
               e == Head(Es)
    <3>1. \/ drive' = [drive EXCEPT ![t].pc = "ended", ![t].mutated = m,
                                    ![t].outcome = "completed"]
          \/ drive' = [drive EXCEPT ![t].pc = "send", ![t].hand = e, ![t].mutated = m]
      BY <1>6 DEF TakeEvent
    <3> HIDE DEF m, e
    <3> QED
      BY <1>6, <1>t, <3>1 DEF TakeEvent, DriveRow
  <2> QED
    BY <1>2, <1>6, <2>1, <1>c, <1>d DEF TakeEvent
<1>7. ASSUME SeeEnd(t) PROVE Goal
  <2>1. chan' = chan /\ drive[t].pc = "next" /\ drive'[t].pc = "ended"
    BY <1>7, <1>t DEF SeeEnd, DriveRow
  <2> QED
    BY <1>1, <2>1, <1>c, <1>d
<1>8. ASSUME SendFrame(t) PROVE Goal
  <2> DEFINE f == FrameOf(drive[t].hand)
  <2>1. /\ chan' = [chan EXCEPT ![t].frames = Append(@, f)]
        /\ drive[t].pc = "send"
        /\ \/ drive' = [drive EXCEPT ![t].pc = "ended", ![t].outcome = "completed"]
           \/ drive' = [drive EXCEPT ![t].pc = "next"]
    BY <1>8 DEF SendFrame
  <2> HIDE DEF f
  <2>2. Len(Append(Fs, f)) = Len(Fs) + 1
    BY <1>t
  <2>3. chan'[t].events = Es /\ chan'[t].frames = Append(Fs, f)
    BY <1>t, <2>1 DEF ChanRow
  <2>4. drive'[t].pc \in {"ended", "next"}
    BY <1>t, <2>1 DEF DriveRow
  <2>5. DriveStage(drive'[t].pc) \in {0, 3} /\ DriveStage(drive[t].pc) = 5
    BY <2>1, <2>4, OtherStages
  <2>6. DriveStage(drive'[t].pc) + 1 < DriveStage(drive[t].pc)
        /\ DriveStage(drive'[t].pc) \in Nat /\ DriveStage(drive[t].pc) \in Nat
    BY <2>5
  <2> QED
    BY <1>t, <2>2, <2>3, <2>6, Sums DEF Goal
<1>9. ASSUME Drain(t) PROVE Goal
  <2>1. drive[t].pc = "drain" /\ drive'[t].pc \in {"drain", "mark"}
    BY <1>9, <1>t DEF Drain, DriveRow
  <2>2. CASE Es # <<>> /\ chan' = [chan EXCEPT ![t].events = Tail(@)]
    BY <1>2, <2>1, <2>2, <1>c, <1>d
  <2>3. CASE UNCHANGED chan /\ drive' = [drive EXCEPT ![t].pc = "mark"]
    <3>1. drive'[t].pc = "mark"
      BY <1>t, <2>3 DEF DriveRow
    <3> QED
      BY <1>1, <2>1, <2>3, <3>1, <1>c, <1>d
  <2> QED
    BY <1>9, <2>2, <2>3 DEF Drain
<1>10. ASSUME Mark(t) PROVE Goal
  <2>1. /\ drive[t].pc = "mark" /\ drive'[t].pc = "ended"
        /\ chan'[t].frames = Fs /\ chan'[t].events = <<>>
    BY <1>10, <1>t DEF Mark, DriveRow, ChanRow
  <2> QED
    BY <1>1, <2>1, <1>c, <1>d
<1>11. Goal
  BY <1>3, <1>5, <1>6, <1>7, <1>8, <1>9, <1>10 DEF Driver
<1> QED
  BY <1>0, <1>11 DEF Goal

LEMMA Naturals ==
  ASSUME NEW p \in PipeRow, p.rounds <= MaxRounds, p.deltas <= MaxDeltas, NEW k \in ChanRow,
         NEW d \in DriveRow, NEW h \in {"idle", "running", "ended"}, NEW c \in ClientRow
  PROVE  /\ ToGo(p) \in Nat /\ Len(k.events) \in Nat /\ Len(k.frames) \in Nat
         /\ DriveStage(d.pc) \in Nat /\ Third(h) \in Nat /\ Third(c.pc) \in Nat
<1>1. /\ p.pc \in Labels /\ p.rounds \in Nat /\ p.deltas \in Nat
      /\ d.pc \in DriveLabels /\ c.pc \in {"idle", "reading", "gone"}
  BY DEF PipeRow, DriveRow, ClientRow
<1>2. Stage(p.pc) \in Nat /\ Patience(p) \in {0, 1}
  BY <1>1, Stages, Patient
<1>3. MaxRounds - p.rounds \in Nat /\ MaxDeltas - p.deltas \in Nat
  BY <1>1, LimitsAssumption
<1>4. ToGo(p) \in Nat
  BY <1>2, <1>3 DEF ToGo
<1>5. DriveStage(d.pc) \in Nat /\ Third(h) \in Nat /\ Third(c.pc) \in Nat
  BY <1>1, OtherStages
<1>6. Len(k.events) \in Nat /\ Len(k.frames) \in Nat
  BY DEF ChanRow
<1> QED
  BY <1>4, <1>5, <1>6

LEMMA WorkIsNat ==
  ASSUME TypeOK, LimitInv, NEW t \in Turns
  PROVE  /\ Work(t) \in Nat /\ ToGo(pipe[t]) \in Nat
         /\ Len(chan[t].events) \in Nat /\ Len(chan[t].frames) \in Nat
         /\ DriveStage(drive[t].pc) \in Nat
         /\ Third(heavy[t]) \in Nat /\ Third(client[t].pc) \in Nat
<1>1. /\ pipe[t] \in PipeRow /\ chan[t] \in ChanRow /\ drive[t] \in DriveRow
      /\ heavy[t] \in {"idle", "running", "ended"} /\ client[t] \in ClientRow
      /\ pipe[t].rounds <= MaxRounds /\ pipe[t].deltas <= MaxDeltas
  BY DEF TypeOK, LimitInv
<1>2. /\ ToGo(pipe[t]) \in Nat
      /\ Len(chan[t].events) \in Nat /\ Len(chan[t].frames) \in Nat
      /\ DriveStage(drive[t].pc) \in Nat
      /\ Third(heavy[t]) \in Nat /\ Third(client[t].pc) \in Nat
  BY <1>1, Naturals
<1>3. \A a, e, f, d, h, c \in Nat : 4 * a + 3 * e + f + d + h + c \in Nat
  OBVIOUS
<1>4. Work(t) \in Nat
  BY <1>2, <1>3 DEF Work
<1> QED
  BY <1>2, <1>4

\* The step of a turn leaves the other turns with the work they had.
LEMMA OthersKeep ==
  ASSUME TypeOK, NEW t \in Turns, Acts(t), NEW u \in Turns, u # t
  PROVE  /\ pipe'[u] = pipe[u] /\ heavy'[u] = heavy[u] /\ chan'[u] = chan[u]
         /\ drive'[u] = drive[u] /\ client'[u] = client[u]
<1>t. /\ chan \in [Turns -> ChanRow] /\ drive \in [Turns -> DriveRow]
      /\ heavy \in [Turns -> {"idle", "running", "ended"}]
  BY DEF TypeOK
<1>1. pipe'[u] = pipe[u] /\ client'[u] = client[u]
  BY OnlyOne
<1>2. CASE Client(t)
  BY <1>1, <1>2, <1>t DEF Client, Request, Read, HangUp
<1>3. CASE Driver(t)
  <2>1. UNCHANGED heavy
    BY <1>3 DEF Driver, LoadScene, LoadTranscript, SeeClosed, TakeEvent, SeeEnd, SendFrame,
       SendRefused, Drain, Mark
  <2>2. drive'[u] = drive[u]
    BY <1>3, <1>t DEF Driver, Disconnect, LoadScene, LoadTranscript, SeeClosed, TakeEvent,
       SeeEnd, SendFrame, SendRefused, Drain, Mark
  <2>3. chan'[u] = chan[u]
    BY <1>3, <1>t DEF Driver, Disconnect, LoadScene, LoadTranscript, SeeClosed, TakeEvent,
       SeeEnd, SendFrame, SendRefused, Drain, Mark
  <2> QED
    BY <1>1, <2>1, <2>2, <2>3
<1>4. CASE Pipeline(t)
  <2>1. UNCHANGED drive /\ (UNCHANGED chan \/ \E y \in Events : Send(t, y))
    BY <1>4, WhoSays DEF Events
  <2>2. chan'[u] = chan[u]
    BY <1>t, <2>1 DEF Send
  <2>3. heavy'[u] = heavy[u]
    BY <1>4, <1>t DEF Pipeline, HeadPhases, PreContextNavigate, SendPreContext, Poll,
       GiveUp, ContextAssembly, Round, StreamCancelled, StreamText, StreamTool, RunTool,
       StreamEnds, AwaitRoll, CheckToken, VerifyAfterStream, SceneNavigate, SendScene,
       SaveTurn, EmitText, TurnComplete, MarkCritical, Finalized, FailTurn, SendFailed
  <2> QED
    BY <1>1, <2>1, <2>2, <2>3
<1>5. CASE HeavyTail(t) \/ Panic(t)
  BY <1>1, <1>5, <1>t DEF HeavyTail, Panic
<1> QED
  BY <1>2, <1>3, <1>4, <1>5 DEF Acts

\* A turn's own step leaves it with less to do, unless it leaves everything as it was.
LEMMA OwnNears ==
  ASSUME TypeOK, TypeOK', AskInv, StartInv, LifeInv, LimitInv, NEW t \in Turns, Acts(t)
  PROVE  UNCHANGED vars \/ (LimitInv' /\ Work(t)' < Work(t))
<1> DEFINE Less == Work(t)' < Work(t)
<1>t. /\ pipe \in [Turns -> PipeRow] /\ chan \in [Turns -> ChanRow]
      /\ drive \in [Turns -> DriveRow] /\ client \in [Turns -> ClientRow]
      /\ heavy \in [Turns -> {"idle", "running", "ended"}]
  BY DEF TypeOK
<1>n. /\ ToGo(pipe[t]) \in Nat
      /\ Len(chan[t].events) \in Nat /\ Len(chan[t].frames) \in Nat
      /\ DriveStage(drive[t].pc) \in Nat
      /\ Third(heavy[t]) \in Nat /\ Third(client[t].pc) \in Nat
  BY WorkIsNat
<1>o. ASSUME pipe'[t].rounds <= MaxRounds, pipe'[t].deltas <= MaxDeltas PROVE LimitInv'
  BY <1>o, OthersKeep DEF LimitInv
<1> DEFINE a == ToGo(pipe[t])              a1 == ToGo(pipe'[t])
           e == Len(chan[t].events)        e1 == Len(chan'[t].events)
           f == Len(chan[t].frames)        f1 == Len(chan'[t].frames)
           d == DriveStage(drive[t].pc)    d1 == DriveStage(drive'[t].pc)
           h == Third(heavy[t])            h1 == Third(heavy'[t])
           c == Third(client[t].pc)        c1 == Third(client'[t].pc)
<1>m. LimitInv' => /\ a1 \in Nat /\ e1 \in Nat /\ f1 \in Nat /\ d1 \in Nat
                   /\ h1 \in Nat /\ c1 \in Nat
  <2> SUFFICES ASSUME LimitInv'
               PROVE  a1 \in Nat /\ e1 \in Nat /\ f1 \in Nat /\ d1 \in Nat /\ h1 \in Nat
                      /\ c1 \in Nat
    OBVIOUS
  <2>1. /\ pipe'[t] \in PipeRow /\ chan'[t] \in ChanRow /\ drive'[t] \in DriveRow
        /\ heavy'[t] \in {"idle", "running", "ended"} /\ client'[t] \in ClientRow
        /\ pipe'[t].rounds <= MaxRounds /\ pipe'[t].deltas <= MaxDeltas
    BY DEF TypeOK, LimitInv
  <2> QED
    BY <2>1, Naturals
<1>w. Work(t) = 4 * a + 3 * e + f + d + h + c /\ Work(t)' = 4 * a1 + 3 * e1 + f1 + d1 + h1 + c1
  BY DEF Work, ToGo, Patience
<1>v. a \in Nat /\ e \in Nat /\ f \in Nat /\ d \in Nat /\ h \in Nat /\ c \in Nat
  BY <1>n
<1> HIDE DEF a, a1, e, e1, f, f1, d, d1, h, h1, c, c1
<1>x. LimitInv' /\ a1 < a /\ e1 <= e + 1 /\ f1 = f /\ d1 = d /\ h1 <= h /\ c1 = c => Less
  BY <1>m, <1>v, <1>w
<1>y. LimitInv' /\ 3 * e1 + f1 + d1 < 3 * e + f + d /\ a1 = a /\ h1 = h /\ c1 = c => Less
  BY <1>m, <1>v, <1>w
<1>z. (/\ LimitInv' /\ e1 = e /\ a1 <= a /\ f1 <= f /\ d1 <= d /\ h1 <= h /\ c1 <= c
       /\ a1 < a \/ f1 < f \/ d1 < d \/ h1 < h \/ c1 < c)
      => Less
  BY <1>m, <1>v, <1>w
<1>u. /\ pipe' = pipe => LimitInv' /\ a1 <= a
      /\ heavy' = heavy => h1 <= h /\ h1 = h
      /\ client' = client => c1 <= c /\ c1 = c
      /\ drive' = drive => d1 <= d /\ d1 = d
      /\ chan'[t].events = chan[t].events => e1 = e
      /\ chan'[t].frames = chan[t].frames => f1 <= f /\ f1 = f
      /\ pipe' = pipe => a1 = a
  BY <1>n DEF a, a1, e, e1, f, f1, d, d1, h, h1, c, c1, LimitInv
<1> HIDE DEF Less
<1>1. CASE Pipeline(t) \/ Panic(t)
  <2>1. SUFFICES ASSUME ToGo(pipe'[t]) < ToGo(pipe[t]), pipe'[t].rounds <= MaxRounds,
                        pipe'[t].deltas <= MaxDeltas
                 PROVE  LimitInv' /\ Less
    BY <1>1, PipeNears DEF Less
  <2>2. LimitInv'
    BY <1>o, <2>1
  <2>3. /\ Len(chan'[t].events) <= Len(chan[t].events) + 1
        /\ chan'[t].frames = chan[t].frames
        /\ Third(heavy'[t]) <= Third(heavy[t])
        /\ drive' = drive /\ client' = client
    BY <1>1, PipeGives
  <2>4. a1 < a /\ e1 <= e + 1 /\ h1 <= h
    BY <2>1, <2>3 DEF a, a1, e, e1, h, h1
  <2> QED
    BY <1>x, <1>u, <2>2, <2>3, <2>4
<1>2. CASE Driver(t) /\ ~LoadTranscript(t)
  <2>1. /\ 3 * Len(chan'[t].events) + Len(chan'[t].frames) + DriveStage(drive'[t].pc)
              < 3 * Len(chan[t].events) + Len(chan[t].frames) + DriveStage(drive[t].pc)
        /\ pipe' = pipe /\ heavy' = heavy /\ client' = client
    BY <1>2, DriverNears
  <2>2. 3 * e1 + f1 + d1 < 3 * e + f + d
    BY <2>1 DEF e, e1, f, f1, d, d1
  <2> QED
    BY <1>u, <1>y, <2>1, <2>2 DEF Less
\* The handler hands over to the pipeline.
<1>3. CASE LoadTranscript(t)
  <2>1. pipe[t].pc = "idle" /\ drive[t].pc = "load_transcript"
    BY <1>3 DEF StartInv, LoadTranscript
  <2>2. /\ pipe'[t].pc = "head" /\ pipe'[t].rounds = pipe[t].rounds
        /\ pipe'[t].deltas = pipe[t].deltas /\ drive'[t].pc = "next"
        /\ chan' = chan /\ heavy' = heavy /\ client' = client
    BY <1>3, <1>t DEF LoadTranscript, Goto, PipeRow, DriveRow
  <2>3. ToGo(pipe'[t]) < ToGo(pipe[t])
    <3>1. pipe[t] \in PipeRow /\ pipe'[t] \in PipeRow
      BY DEF TypeOK
    <3>2. Stage(pipe'[t].pc) < Stage(pipe[t].pc) /\ pipe[t].pc # "guard"
      BY <2>1, <2>2, Stages
    <3> QED
      BY <2>2, <3>1, <3>2, LaterStage
  <2>4. LimitInv'
    BY <1>o, <2>2 DEF LimitInv
  <2>5. a1 < a /\ a1 <= a
    <3>1. a1 < a
      BY <2>3 DEF a, a1
    <3> QED
      BY <1>m, <1>v, <2>4, <3>1
  <2>6. d1 <= d
    BY <2>1, <2>2, OtherStages DEF d, d1
  <2> QED
    BY <1>u, <1>z, <2>2, <2>4, <2>5, <2>6 DEF Less
<1>4. CASE Request(t)
  <2>1. client[t].pc = "idle" /\ drive[t].pc = "idle"
    BY <1>4 DEF Request, AskInv
  <2>2. /\ client'[t].pc = "reading" /\ drive'[t].pc = "load_scene"
        /\ pipe' = pipe /\ chan' = chan /\ heavy' = heavy
    BY <1>4, <1>t DEF Request, ClientRow, DriveRow
  <2>3. d1 < d /\ d1 <= d /\ c1 <= c
    BY <2>1, <2>2, OtherStages DEF d, d1, c, c1
  <2> QED
    BY <1>u, <1>z, <2>2, <2>3 DEF Less
<1>5. CASE Read(t) \/ HangUp(t)
  <2>1. /\ client[t].pc = "reading" /\ client'[t].pc \in {"reading", "gone"}
        /\ chan'[t].events = chan[t].events
        /\ pipe' = pipe /\ drive' = drive /\ heavy' = heavy
    BY <1>5, <1>t DEF Read, HangUp, ClientRow, ChanRow
  <2>2. c1 <= c
    BY <2>1, OtherStages DEF c, c1
  <2>3. CASE Read(t)
    <3>1. chan[t].frames # <<>> /\ chan'[t].frames = Tail(chan[t].frames)
      BY <2>3, <1>t DEF Read, ChanRow
    <3>2. Len(Tail(chan[t].frames)) = Len(chan[t].frames) - 1 /\ Len(chan[t].frames) > 0
      BY <1>t, <3>1 DEF ChanRow
    <3>3. f1 = f - 1
      BY <3>1, <3>2 DEF f, f1
    <3>4. f1 < f /\ f1 <= f
      BY <1>v, <3>3
    <3> QED
      BY <1>u, <1>z, <2>1, <2>2, <3>4 DEF Less
  <2>4. CASE HangUp(t)
    <3>1. chan'[t].frames = <<>> /\ client'[t].pc = "gone"
      BY <2>4, <1>t DEF HangUp, ChanRow, ClientRow
    <3>2. f1 <= f
      BY <1>n, <3>1 DEF f, f1
    <3>3. c1 < c
      BY <2>1, <3>1, OtherStages DEF c, c1
    <3> QED
      BY <1>u, <1>z, <2>1, <2>2, <3>2, <3>3 DEF Less
  <2> QED
    BY <1>5, <2>3, <2>4
<1>6. CASE HeavyTail(t)
  <2>1. /\ heavy[t] = "running" /\ heavy'[t] = "ended"
        /\ pipe' = pipe /\ drive' = drive /\ chan' = chan /\ client' = client
    BY <1>6, <1>t DEF HeavyTail
  <2>2. h1 < h /\ h1 <= h
    BY <2>1, OtherStages DEF h, h1
  <2> QED
    BY <1>u, <1>z, <2>1, <2>2 DEF Less
<1> QED
  BY <1>1, <1>2, <1>3, <1>4, <1>5, <1>6 DEF Acts, Client, Less

LEMMA LimitHolds == Spec => []LimitInv
<1>1. Init => LimitInv
  BY LimitsAssumption DEF Init, LimitInv
<1>2. TypeOK /\ TypeOK' /\ SpawnInv /\ LimitInv /\ [Next]_vars => LimitInv'
  <2>1. ASSUME UNCHANGED vars, LimitInv PROVE LimitInv'
    BY <2>1 DEF vars, LimitInv
  <2> QED
    BY <2>1, OwnNears DEF Next, Acts, SpawnInv
<1> QED
  BY <1>1, <1>2, TypeCorrect, SpawnHolds, PTL DEF Spec

\* Every step of the system, whoever takes it and whatever fails in it, leaves one turn
\* with less to do and no other with more: pipeline, driver, heavy task and client
\* together cannot go round in circles, and a session of n turns comes to an end after
\* at most n * (4 * (21 + 3 * MaxRounds + MaxDeltas) + 12) of them.
StepsNear ==
    [][\E t \in Turns : /\ Work(t)' < Work(t)
                        /\ \A u \in Turns \ {t} : Work(u)' = Work(u)]_vars

\* There is a measure of what is left to do in a turn, and every step lowers it.
THEOREM EveryStepNears == Spec => StepsNear /\ [](\A t \in Turns : Work(t) \in Nat)
<1>1. TypeOK /\ TypeOK' /\ SpawnInv /\ LimitInv /\ [Next]_vars
        => [\E t \in Turns : /\ Work(t)' < Work(t)
                             /\ \A u \in Turns \ {t} : Work(u)' = Work(u)]_vars
  <2> SUFFICES ASSUME TypeOK, TypeOK', SpawnInv, LimitInv, NEW t \in Turns, Acts(t),
                      ~UNCHANGED vars
               PROVE  /\ Work(t)' < Work(t)
                      /\ \A u \in Turns \ {t} : Work(u)' = Work(u)
    BY DEF Next, Acts
  <2>1. Work(t)' < Work(t)
    BY OwnNears DEF SpawnInv
  <2>2. \A u \in Turns \ {t} : Work(u)' = Work(u)
    BY OthersKeep DEF Work, ToGo, Patience
  <2> QED
    BY <2>1, <2>2
<1>2. TypeOK /\ LimitInv => \A t \in Turns : Work(t) \in Nat
  BY WorkIsNat
<1> QED
  BY <1>1, <1>2, TypeCorrect, SpawnHolds, LimitHolds, PTL DEF Spec, StepsNear

-----------------------------------------------------------------------------
(* Nobody waits in vain *)

\* Room in the channel of events, or nobody there to fill it for.
Room(t) == ~chan[t].open \/ Len(chan[t].events) < Cap

Sending == {"navigated", "roll", "verify", "scene_send", "emit", "complete", "fail_send"}

\* The guards of the four fair actions of a turn.
PipelineCan(t) ==
    /\ pipe[t].pc \notin {"idle", "ended"}
    /\ pipe[t].pc \in Sending => Room(t)

DriverCan(t) ==
    \/ drive[t].pc \in {"load_scene", "load_transcript", "mark"}
    \/ drive[t].pc = "next" /\ (Gone(t) \/ chan[t].events # <<>> \/ StreamOver(t))
    \/ drive[t].pc = "send" /\ (Gone(t) \/ Len(chan[t].frames) < Cap)
    \/ drive[t].pc = "drain" /\ (chan[t].events # <<>> \/ StreamOver(t))

ReadCan(t) == client[t].pc = "reading" /\ chan[t].frames # <<>>

HeavyCan(t) == heavy[t] = "running"

AtRest(t) == ~PipelineCan(t) /\ ~DriverCan(t) /\ ~ReadCan(t) /\ ~HeavyCan(t)

\* A driver that has started finds a pipeline that has started; what ends its work while
\* it holds the channel open was said by a pipeline with nothing left to say.
EndOf(c, d, p) ==
    /\ \A e \in Terminal : In(e, c.events) => p \in Told
    /\ d.pc = "send" /\ d.hand \in Terminal => p \in Told
    /\ d.pc \in {"mark", "ended"} /\ c.open => p \in Told
    /\ d.pc \in {"next", "send", "drain", "mark", "ended"} => p # "idle"

EndInv == \A t \in Turns : EndOf(chan[t], drive[t], pipe[t].pc)

\* A pipeline that says a last event goes on to the row, the trace or its end.
LEMMA LastWord ==
  ASSUME TypeOK, NEW t \in Turns, Pipeline(t) \/ Panic(t)
  PROVE  /\ UNCHANGED drive
         /\ chan'[t].open = chan[t].open
         /\ pipe[t].pc # "idle" /\ pipe'[t].pc # "idle"
         /\ \A e \in Terminal : In(e, chan'[t].events)
                => In(e, chan[t].events) \/ pipe'[t].pc \in Told
<1>t. pipe \in [Turns -> PipeRow] /\ chan \in [Turns -> ChanRow]
  BY DEF TypeOK
<1>1. /\ UNCHANGED drive /\ pipe[t].pc # "idle"
      /\ \/ UNCHANGED chan
         \/ \E y \in {"scene", "delta", "postprocess", "awaiting"} : Send(t, y)
         \/ (TurnComplete(t) \/ SendFailed(t)) /\ \E y \in Events : Send(t, y)
  BY DEF Pipeline, HeadPhases, PreContextNavigate, SendPreContext, Poll, GiveUp,
     ContextAssembly, Round, StreamCancelled, StreamText, StreamTool, RunTool, StreamEnds,
     AwaitRoll, CheckToken, VerifyAfterStream, SceneNavigate, SendScene, SaveTurn, EmitText,
     TurnComplete, MarkCritical, Finalized, FailTurn, SendFailed, Panic, Streaming, Events
<1>2. pipe'[t].pc # "idle"
  BY <1>t DEF Pipeline, Goto, Move, HeadPhases, PreContextNavigate, SendPreContext, Poll, GiveUp,
     ContextAssembly, Round, StreamCancelled, StreamText, StreamTool, RunTool, StreamEnds,
     AwaitRoll, CheckToken, VerifyAfterStream, SceneNavigate, SendScene, SaveTurn, EmitText,
     TurnComplete, MarkCritical, Finalized, FailTurn, SendFailed, Panic, Streaming, PipeRow
<1>3. TurnComplete(t) \/ SendFailed(t) => pipe'[t].pc \in Told
  BY <1>t DEF TurnComplete, SendFailed, Goto, PipeRow, Told
<1>4. chan'[t].open = chan[t].open
  BY <1>1, <1>t DEF Send, ChanRow
<1>5. ASSUME NEW e \in Terminal, In(e, chan'[t].events), ~In(e, chan[t].events)
      PROVE  pipe'[t].pc \in Told
  <2>1. \A y \in Events : Send(t, y) => e = y
    BY <1>5, SendSays
  <2>2. e \notin {"scene", "delta", "postprocess", "awaiting"}
    BY DEF Terminal
  <2>3. TurnComplete(t) \/ SendFailed(t)
    BY <1>1, <1>5, <2>1, <2>2 DEF Events
  <2> QED
    BY <1>3, <2>3
<1> QED
  BY <1>1, <1>2, <1>4, <1>5

\* What the driver takes from the channel it takes from the front.
LEMMA DriverTakes ==
  ASSUME TypeOK, NEW t \in Turns, Driver(t), ~LoadTranscript(t)
  PROVE  /\ UNCHANGED pipe
         /\ \A e : In(e, chan'[t].events) => In(e, chan[t].events)
         /\ EndOf(chan[t], drive[t], pipe[t].pc) => EndOf(chan'[t], drive'[t], pipe'[t].pc)
<1> DEFINE Goal == /\ \A e : In(e, chan'[t].events) => In(e, chan[t].events)
                   /\ EndOf(chan[t], drive[t], pipe[t].pc)
                        => EndOf(chan'[t], drive'[t], pipe[t].pc)
<1>t. /\ chan \in [Turns -> ChanRow] /\ drive \in [Turns -> DriveRow]
      /\ chan[t].events \in Seq(Events)
  BY DEF TypeOK, ChanRow
<1>0. UNCHANGED pipe
  BY DEF Driver, LoadScene, SeeClosed, TakeEvent, SeeEnd, SendFrame, SendRefused, Drain, Mark
<1>h. chan[t].events # <<>>
        => /\ In(Head(chan[t].events), chan[t].events)
           /\ \A x : In(x, Tail(chan[t].events)) => In(x, chan[t].events)
  BY <1>t, InTail
<1>1. CASE LoadScene(t)
  <2>1. chan' = chan /\ drive'[t].pc = "load_transcript"
    BY <1>1, <1>t DEF LoadScene, DriveRow
  <2> QED
    BY <2>1, <1>0 DEF EndOf
<1>2. ASSUME \E m \in BOOLEAN : Disconnect(t, m), drive[t].pc \in {"next", "send"} PROVE Goal
  <2>1. CASE \E m \in BOOLEAN : CancelNow(t, m)
    <3>1. \/ chan'[t].events = <<>> /\ chan'[t].open = FALSE /\ drive'[t].pc = "ended"
          \/ chan' = chan /\ drive'[t].pc = "drain"
      BY <1>2, <1>t DEF Disconnect, ChanRow, DriveRow
    <3> QED
      BY <1>2, <3>1, InEmpty DEF EndOf
  <2>2. CASE ~\E m \in BOOLEAN : CancelNow(t, m)
    <3>1. chan' = chan /\ drive'[t].pc = "drain"
      BY <1>2, <1>t, <2>2 DEF Disconnect, DriveRow
    <3> QED
      BY <1>2, <3>1 DEF EndOf
  <2> QED
    BY <2>1, <2>2
<1>3. CASE SeeClosed(t) \/ SendRefused(t)
  <2>1. drive[t].mutated \in BOOLEAN
    BY <1>t DEF DriveRow
  <2> QED
    BY <1>2, <1>3, <1>0, <2>1 DEF SeeClosed, SendRefused
<1>4. CASE TakeEvent(t)
  <2> DEFINE e == Head(chan[t].events)
  <2>1. /\ drive[t].pc = "next" /\ chan[t].events # <<>>
        /\ chan'[t].events = Tail(chan[t].events) /\ chan'[t].open = chan[t].open
        /\ \/ drive'[t].pc = "send" /\ drive'[t].hand = e
           \/ FrameOf(e) = "none" /\ drive'[t].pc = "ended"
    BY <1>4, <1>t DEF TakeEvent, ChanRow, DriveRow
  <2>2. e \in Events /\ (FrameOf(e) = "none" => e \in Terminal)
    BY <1>t, <2>1 DEF FrameOf, Terminal, Events
  <2>3. In(e, chan[t].events) /\ \A x : In(x, chan'[t].events) => In(x, chan[t].events)
    BY <1>h, <2>1
  <2> HIDE DEF e
  <2> QED
    BY <1>0, <2>1, <2>2, <2>3 DEF EndOf
<1>5. CASE SeeEnd(t)
  <2>1. chan' = chan /\ drive'[t].pc = "ended" /\ pipe[t].pc = "ended"
    BY <1>5, <1>t DEF SeeEnd, StreamOver, DriveRow
  <2> QED
    BY <1>0, <2>1 DEF EndOf, Told
<1>6. CASE SendFrame(t)
  <2>1. /\ drive[t].pc = "send"
        /\ chan'[t].events = chan[t].events /\ chan'[t].open = chan[t].open
        /\ \/ drive[t].hand \in Terminal /\ drive'[t].pc = "ended"
           \/ drive'[t].pc = "next"
    BY <1>6, <1>t DEF SendFrame, ChanRow, DriveRow
  <2> QED
    BY <1>0, <2>1 DEF EndOf
<1>7. CASE Drain(t)
  <2> DEFINE e == Head(chan[t].events)
  <2>1. /\ drive[t].pc = "drain"
        /\ \/ /\ chan[t].events # <<>>
              /\ chan'[t].events = Tail(chan[t].events) /\ chan'[t].open = chan[t].open
              /\ \/ e \in Terminal /\ drive'[t].pc = "mark"
                 \/ drive'[t].pc = "drain"
           \/ pipe[t].pc = "ended" /\ drive'[t].pc = "mark" /\ chan' = chan
    BY <1>7, <1>t DEF Drain, StreamOver, ChanRow, DriveRow
  <2>2. chan[t].events # <<>> => In(e, chan[t].events)
    BY <1>h
  <2> HIDE DEF e
  <2> QED
    BY <1>0, <1>h, <2>1, <2>2 DEF EndOf, Told
<1>8. CASE Mark(t)
  <2>1. /\ chan'[t].events = <<>> /\ chan'[t].open = FALSE /\ drive[t].pc = "mark"
        /\ drive'[t].pc = "ended"
    BY <1>8, <1>t DEF Mark, ChanRow, DriveRow
  <2> QED
    BY <1>0, <2>1, InEmpty DEF EndOf
<1> QED
  BY <1>0, <1>1, <1>3, <1>4, <1>5, <1>6, <1>7, <1>8 DEF Driver

LEMMA EndStep ==
  ASSUME TypeOK, StartInv, EndInv, [Next]_vars
  PROVE  EndInv'
<1>t. pipe \in [Turns -> PipeRow] /\ chan \in [Turns -> ChanRow] /\ drive \in [Turns -> DriveRow]
  BY DEF TypeOK
<1>1. CASE UNCHANGED vars
  BY <1>1 DEF vars, EndInv
<1>2. ASSUME NEW t \in Turns, Acts(t) PROVE EndInv'
  <2>1. SUFFICES EndOf(chan'[t], drive'[t], pipe'[t].pc)
    BY <1>2, OthersKeep DEF EndInv
  <2>i. EndOf(chan[t], drive[t], pipe[t].pc)
    BY DEF EndInv
  <2>2. CASE Pipeline(t) \/ Panic(t)
    <3>1. pipe[t].pc \in Told => pipe'[t].pc \in Told
      BY <1>2, PipeStep DEF Next, Acts
    <3> QED
      BY <2>2, <2>i, <3>1, LastWord DEF EndOf
  <2>3. CASE Driver(t) /\ ~LoadTranscript(t)
    BY <2>3, <2>i, DriverTakes
  <2>4. CASE LoadTranscript(t)
    <3>1. pipe[t].pc = "idle" /\ drive[t].pc = "load_transcript"
      BY <2>4 DEF StartInv, LoadTranscript
    <3>2. pipe'[t].pc = "head" /\ drive'[t].pc = "next" /\ chan' = chan
      BY <2>4, <1>t DEF LoadTranscript, Goto, PipeRow, DriveRow
    <3> QED
      BY <2>i, <3>1, <3>2 DEF EndOf, Told
  <2>5. CASE Request(t)
    <3>1. pipe' = pipe /\ drive'[t].pc = "load_scene" /\ chan' = chan
      BY <2>5, <1>t DEF Request, DriveRow
    <3> QED
      BY <2>i, <3>1 DEF EndOf
  <2>6. CASE Read(t) \/ HangUp(t)
    <3>1. /\ pipe' = pipe /\ drive' = drive
          /\ chan'[t].events = chan[t].events /\ chan'[t].open = chan[t].open
      BY <2>6, <1>t DEF Read, HangUp, ChanRow
    <3> QED
      BY <2>i, <3>1 DEF EndOf
  <2>7. CASE HeavyTail(t)
    BY <2>7, <2>i DEF HeavyTail
  <2> QED
    BY <1>2, <2>2, <2>3, <2>4, <2>5, <2>6, <2>7 DEF Acts, Client
<1> QED
  BY <1>1, <1>2 DEF Next, Acts

\* Unless a statement failed, the heavy task of a saved turn has run or is about to.
Saved(life, h, p) ==
    /\ p = "ended" /\ life # "none" => h # "idle"
    /\ h = "ended" /\ life # "none" => life = "complete"

FinishInv == faults = 0 => \A t \in Turns : Saved(store[t].life, heavy[t], pipe[t].pc)

LEMMA FinishStep ==
  ASSUME TypeOK, StartInv, LifeInv, FinishInv, [Next]_vars
  PROVE  FinishInv'
<1> SUFFICES ASSUME faults' = 0
             PROVE  \A u \in Turns : Saved(store'[u].life, heavy'[u], pipe'[u].pc)
  BY DEF FinishInv
<1>t. /\ pipe \in [Turns -> PipeRow] /\ store \in [Turns -> StoreRow]
      /\ heavy \in [Turns -> {"idle", "running", "ended"}] /\ faults \in Nat
  BY DEF TypeOK
<1>f. faults = 0
  BY KeptStep
<1>s. \A u \in Turns : Saved(store[u].life, heavy[u], pipe[u].pc)
  BY <1>f DEF FinishInv
<1>1. CASE UNCHANGED vars
  BY <1>1, <1>s DEF vars
<1>2. ASSUME NEW t \in Turns, Acts(t)
      PROVE  \A u \in Turns : Saved(store'[u].life, heavy'[u], pipe'[u].pc)
  <2>1. SUFFICES Saved(store'[t].life, heavy'[t], pipe'[t].pc)
    BY <1>2, <1>s, OthersKeep, OnlyOne
  <2>i. /\ Saved(store[t].life, heavy[t], pipe[t].pc)
        /\ pipe[t].pc \in Unsaved => store[t].life = "none"
        /\ heavy[t] # "idle" => pipe[t].pc = "ended"
        /\ drive[t].pc = "load_transcript" => pipe[t].pc = "idle"
    BY <1>s DEF StartInv, LifeInv
  <2>f. ~Fault
    BY <1>f DEF Fault
  <2>2. CASE Client(t) \/ (Driver(t) /\ ~LoadTranscript(t))
    <3>1. UNCHANGED <<pipe, heavy>>
      BY <2>2 DEF Client, Request, Read, HangUp, Driver, LoadScene, SeeClosed, TakeEvent, SeeEnd,
         SendFrame, SendRefused, Drain, Mark
    <3>2. store'[t].life = store[t].life
      <4>1. CASE Mark(t)
        <5> DEFINE b == drive[t].policy # "always_continue"
        <5>1. UNCHANGED store \/ store' = [store EXCEPT ![t].marker = b]
          BY <4>1 DEF Mark
        <5> HIDE DEF b
        <5> QED
          BY <1>t, <5>1 DEF StoreRow
      <4>2. CASE ~Mark(t)
        BY <2>2, <4>2 DEF Client, Request, Read, HangUp, Driver, LoadScene, SeeClosed, TakeEvent,
           SeeEnd, SendFrame, SendRefused, Drain
      <4> QED
        BY <4>1, <4>2
    <3> QED
      BY <2>i, <3>1, <3>2
  <2>3. CASE LoadTranscript(t)
    <3>1. pipe'[t].pc = "head" /\ heavy' = heavy /\ heavy[t] = "idle"
      BY <2>3, <2>i, <1>t DEF LoadTranscript, Goto, PipeRow
    <3> QED
      BY <3>1 DEF Saved
  <2>4. CASE HeavyTail(t)
    <3>1. heavy'[t] = "ended" /\ Advanced(t, "complete")
      BY <2>4, <2>f, <1>t DEF HeavyTail
    <3>2. store'[t].life \in {"none", "complete"}
      BY <3>1, <1>t DEF Advanced, StoreRow
    <3> QED
      BY <3>1, <3>2 DEF Saved
  <2>5. CASE Panic(t)
    BY <2>5, <2>f DEF Panic
  <2>6. CASE Finalized(t)
    <3>1. heavy'[t] = "running"
      BY <2>6, <1>t DEF Finalized
    <3> QED
      BY <3>1 DEF Saved
\* No other step ends a pipeline that has a row.
  <2>7. CASE CheckToken(t) \/ SendFailed(t)
    <3>1. /\ UNCHANGED <<store, heavy>>
          /\ pipe[t].pc \in Unsaved /\ pipe[t].pc # "ended"
      BY <2>7 DEF CheckToken, SendFailed, Unsaved, Early
    <3> QED
      BY <2>i, <3>1 DEF Saved
  <2>8. CASE Pipeline(t) /\ ~Finalized(t) /\ ~CheckToken(t) /\ ~SendFailed(t)
    <3>1. UNCHANGED heavy /\ pipe[t].pc # "ended"
      BY <2>8 DEF Pipeline, HeadPhases, PreContextNavigate, SendPreContext, Poll, GiveUp,
         ContextAssembly, Round, StreamCancelled, StreamText, StreamTool, RunTool, StreamEnds,
         AwaitRoll, VerifyAfterStream, SceneNavigate, SendScene, SaveTurn, EmitText,
         TurnComplete, MarkCritical, FailTurn, Streaming
    <3>2. pipe'[t].pc # "ended"
      BY <2>8, <1>t DEF Pipeline, Goto, Move, HeadPhases, PreContextNavigate, SendPreContext,
         Poll, GiveUp, ContextAssembly, Round, StreamCancelled, StreamText, StreamTool, RunTool,
         StreamEnds, AwaitRoll, VerifyAfterStream, SceneNavigate, SendScene, SaveTurn, EmitText,
         TurnComplete, MarkCritical, FailTurn, Streaming, PipeRow
    <3>3. heavy[t] = "idle"
      BY <2>i, <3>1, <1>t
    <3> QED
      BY <3>1, <3>2, <3>3 DEF Saved
  <2> QED
    BY <1>2, <2>2, <2>3, <2>4, <2>5, <2>6, <2>7, <2>8 DEF Acts
<1> QED
  BY <1>1, <1>2 DEF Next, Acts

\* A request has its handler, and a handler that is through has its outcome.
AnswerInv == \A t \in Turns :
    /\ client[t].pc # "idle" => drive[t].pc # "idle"
    /\ drive[t].pc = "ended" => drive[t].outcome # "none"

LEMMA AnswerStep ==
  ASSUME TypeOK, AnswerInv, [Next]_vars
  PROVE  AnswerInv'
<1>t. drive \in [Turns -> DriveRow] /\ client \in [Turns -> ClientRow]
  BY DEF TypeOK
<1>1. CASE UNCHANGED vars
  BY <1>1 DEF vars, AnswerInv
<1>2. ASSUME NEW t \in Turns, Acts(t) PROVE AnswerInv'
  <2>1. SUFFICES /\ client'[t].pc # "idle" => drive'[t].pc # "idle"
                 /\ drive'[t].pc = "ended" => drive'[t].outcome # "none"
    BY <1>2, OthersKeep DEF AnswerInv
  <2>i. /\ client[t].pc # "idle" => drive[t].pc # "idle"
        /\ drive[t].pc = "ended" => drive[t].outcome # "none"
    BY DEF AnswerInv
  <2>2. CASE Request(t)
    <3>1. drive'[t].pc = "load_scene"
      BY <2>2, <1>t DEF Request, DriveRow
    <3> QED
      BY <3>1
  <2>3. CASE Read(t) \/ HangUp(t)
    <3>1. UNCHANGED drive /\ client[t].pc # "idle"
      BY <2>3 DEF Read, HangUp
    <3> QED
      BY <2>i, <3>1
  <2>4. CASE Pipeline(t) \/ HeavyTail(t) \/ Panic(t)
    <3>1. UNCHANGED <<drive, client>>
      BY <2>4, WhoSays DEF HeavyTail, Panic
    <3> QED
      BY <2>i, <3>1
  <2>5. CASE Driver(t)
    <3>1. \/ drive'[t].pc \in {"load_transcript", "next", "send", "drain", "mark"}
          \/ drive'[t].pc = "ended" /\ drive'[t].outcome \in {"completed", "cancelled", "continued"}
      BY <2>5, <1>t DEF Driver, Disconnect, LoadScene, LoadTranscript, SeeClosed, TakeEvent,
         SeeEnd, SendFrame, SendRefused, Drain, Mark, DriveRow
    <3> QED
      BY <3>1
  <2> QED
    BY <1>2, <2>2, <2>3, <2>4, <2>5 DEF Acts, Client
<1> QED
  BY <1>1, <1>2 DEF Next, Acts

\* When none of the four tasks of a turn can go on, it is because they are through: the
\* driver of a request has reported an outcome, the pipeline and its heavy task have
\* ended and the player has read every frame, whatever failed and whoever hung up; and
\* unless something failed, a turn that got a row has it completed (drive_turn_stream,
\* execute_turn, spawn_heavy).  Nobody waits for a task that has stopped or for room
\* nobody makes.
RestIsTheEnd == \A t \in Turns : AtRest(t) =>
    /\ client[t].pc = "idle" => drive[t].pc = "idle" /\ pipe[t].pc = "idle"
    /\ client[t].pc # "idle" => /\ drive[t].pc = "ended" /\ drive[t].outcome # "none"
                                /\ pipe[t].pc = "ended"
    /\ client[t].pc = "reading" => chan[t].frames = <<>>
    /\ heavy[t] # "running"
    /\ Unfailed /\ store[t].life # "none" => store[t].life = "complete"

\* A turn none of whose tasks can go on is over, whatever failed in it.
THEOREM NobodyWaitsInVain == Spec => []RestIsTheEnd
<1>1. Init => EndInv /\ FinishInv /\ AnswerInv
  BY InEmpty DEF Init, EndInv, EndOf, FinishInv, Saved, AnswerInv
<1>2. /\ TypeOK /\ SpawnInv /\ EndInv /\ FinishInv /\ AnswerInv /\ [Next]_vars
           => EndInv' /\ FinishInv' /\ AnswerInv'
  BY EndStep, FinishStep, AnswerStep DEF SpawnInv
<1>3. ASSUME TypeOK, SpawnInv, EndInv, FinishInv, AnswerInv PROVE RestIsTheEnd
  <2> SUFFICES ASSUME NEW t \in Turns, AtRest(t)
               PROVE  /\ client[t].pc = "idle" => drive[t].pc = "idle" /\ pipe[t].pc = "idle"
                      /\ client[t].pc # "idle" => /\ drive[t].pc = "ended"
                                                  /\ drive[t].outcome # "none"
                                                  /\ pipe[t].pc = "ended"
                      /\ client[t].pc = "reading" => chan[t].frames = <<>>
                      /\ heavy[t] # "running"
                      /\ Unfailed /\ store[t].life # "none" => store[t].life = "complete"
    BY DEF RestIsTheEnd
  <2>t. /\ chan[t].events \in Seq(Events) /\ chan[t].frames \in Seq(Frames)
        /\ chan[t].open \in BOOLEAN
        /\ Len(chan[t].events) <= Cap /\ Len(chan[t].frames) <= Cap
        /\ drive[t].pc \in DriveLabels /\ client[t].pc \in {"idle", "reading", "gone"}
        /\ heavy[t] \in {"idle", "running", "ended"}
    BY <1>3 DEF TypeOK, ChanRow, DriveRow, ClientRow
  <2>i. /\ EndOf(chan[t], drive[t], pipe[t].pc)
        /\ client[t].pc = "idle" => drive[t].pc = "idle"
        /\ client[t].pc # "idle" => drive[t].pc # "idle"
        /\ drive[t].pc = "ended" => drive[t].outcome # "none"
        /\ drive[t].pc = "idle" => pipe[t].pc = "idle"
        /\ pipe[t].pc \in Unsaved => store[t].life = "none"
    BY <1>3 DEF EndInv, AnswerInv, SpawnInv, AskInv, StartInv, LifeInv
  <2>g. ~PipelineCan(t) /\ ~DriverCan(t) /\ ~ReadCan(t) /\ heavy[t] # "running"
    BY DEF AtRest, HeavyCan
  <2>r. client[t].pc = "reading" => chan[t].frames = <<>>
    BY <2>g DEF ReadCan
  <2>1. drive[t].pc \notin {"load_scene", "load_transcript", "mark"}
    BY <2>g DEF DriverCan
  <2>2. drive[t].pc # "send"
    <3> SUFFICES ASSUME drive[t].pc = "send" PROVE FALSE
      OBVIOUS
    <3>1. client[t].pc = "reading" /\ Len(chan[t].frames) >= Cap
      BY <2>g, <2>t, <2>i, LimitsAssumption DEF DriverCan, Gone
    <3>2. Len(chan[t].frames) = 0
      BY <2>r, <3>1
    <3> QED
      BY <3>1, <3>2, LimitsAssumption
\* A driver that listens has a pipeline that can speak.
  <2>3. drive[t].pc \notin {"next", "drain"}
    <3> SUFFICES ASSUME drive[t].pc \in {"next", "drain"} PROVE FALSE
      OBVIOUS
    <3>1. chan[t].events = <<>> /\ pipe[t].pc # "ended" /\ pipe[t].pc # "idle"
      BY <2>g, <2>i DEF DriverCan, StreamOver, EndOf
    <3>2. Len(chan[t].events) = 0
      BY <3>1
    <3>3. Room(t)
      BY <3>2, LimitsAssumption DEF Room
    <3> QED
      BY <2>g, <3>1, <3>3 DEF PipelineCan
  <2>4. drive[t].pc \in {"idle", "ended"}
    BY <2>t, <2>1, <2>2, <2>3 DEF DriveLabels
\* A pipeline whose driver is through is refused, or has said everything.
  <2>5. drive[t].pc = "ended" => pipe[t].pc = "ended"
    <3> SUFFICES ASSUME drive[t].pc = "ended", pipe[t].pc # "ended" PROVE FALSE
      OBVIOUS
    <3>1. pipe[t].pc # "idle" /\ (chan[t].open => pipe[t].pc \notin Sending)
      BY <2>i DEF EndOf, Told, Sending
    <3> QED
      BY <2>g, <3>1 DEF PipelineCan, Room
  <2>6. Unfailed /\ store[t].life # "none" => store[t].life = "complete"
    <3> SUFFICES ASSUME faults = 0, store[t].life # "none" PROVE store[t].life = "complete"
      BY DEF Unfailed
    <3>1. Saved(store[t].life, heavy[t], pipe[t].pc)
      BY <1>3 DEF FinishInv
    <3>2. pipe[t].pc # "idle"
      BY <2>i DEF Unsaved
    <3>3. pipe[t].pc = "ended"
      BY <2>4, <2>5, <2>i, <3>2
    <3> QED
      BY <2>t, <2>g, <3>1, <3>3 DEF Saved
  <2> QED
    BY <2>g, <2>i, <2>r, <2>4, <2>5, <2>6
<1> QED
  BY <1>1, <1>2, <1>3, TypeCorrect, SpawnHolds, PTL DEF Spec

=============================================================================
