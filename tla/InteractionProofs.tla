-------------------------- MODULE InteractionProofs -------------------------
(***************************************************************************)
(* What holds of InteractionLifecycle for any number of requests, rows and *)
(* frames: its types, and that a check which was there when a frame closed *)
(* never captures the input of the player again.                           *)
(***************************************************************************)
EXTENDS InteractionLifecycle, TLAPS, WellFoundedInduction

-----------------------------------------------------------------------------
\* Types

PcOK     == pc \in [Callers -> Labels]

LEMMA JumpType ==
  ASSUME PcOK, NEW p \in Callers, NEW from, NEW to \in Labels, Jump(p, from, to)
  PROVE  PcOK'
BY DEF PcOK, Jump

LEMMA SetAllType ==
  ASSUME NEW table \in [Rows -> Row], NEW S, NEW status \in Statuses
  PROVE  SetAll(table, S, status) \in [Rows -> Row]
BY DEF SetAll, Row

LEMMA SetType ==
  ASSUME NEW table \in [Rows -> Row], NEW k, NEW status \in Statuses
  PROVE  /\ Set(table, k, status) \in [Rows -> Row]
         /\ SetIfOpen(table, k, status) \in [Rows -> Row]
BY DEF Set, SetIfOpen, Row

\* The newest row of a set is one of its members: rows have a greatest number.
LEMMA LatestMember ==
  ASSUME NEW S \in SUBSET Rows, S # {}
  PROVE  Latest(S) \in S
<1> DEFINE T    == {MaxRows - k : k \in S}
           Less == {ss \in Nat \X Nat : ss[1] < ss[2]}
<1>1. T \subseteq Nat /\ T # {}
  BY BoundsAssumption DEF Rows
<1>2. IsWellFoundedOn(Less, Nat)
  BY NatLessThanWellFounded DEF OpToRel
<1>3. PICK x \in T : \A y \in T : ~(<<y, x>> \in Less)
  <2> HIDE DEF T, Less
  <2> QED
    BY <1>1, <1>2, WFMin
<1>4. ASSUME NEW y \in T PROVE x <= y
  <2>1. x \in Nat /\ y \in Nat
    BY <1>1
  <2>2. ~(y < x)
    BY <1>3, <2>1
  <2> QED
    BY <2>1, <2>2
<1>5. PICK k \in S : x = MaxRows - k
  OBVIOUS
<1>6. ASSUME NEW j \in S PROVE j <= k
  <2>1. MaxRows - j \in T /\ j \in Int /\ k \in Int /\ MaxRows \in Int
    BY BoundsAssumption DEF Rows
  <2>2. MaxRows - k <= MaxRows - j
    BY <2>1, <1>4, <1>5
  <2> QED
    BY <2>1, <2>2
<1> QED
  BY <1>6 DEF Latest

LEMMA LatestType ==
  ASSUME NEW S \in SUBSET Rows
  PROVE  Latest(S) \in 0..MaxRows
<1>1. CASE S = {}
  BY <1>1, BoundsAssumption DEF Latest, None
<1>2. CASE S # {}
  <2>1. Latest(S) \in Rows
    BY <1>2, LatestMember
  <2> QED
    BY <2>1, BoundsAssumption DEF Rows
<1> QED
  BY <1>1, <1>2

LEMMA CountedType ==
  ASSUME NEW table \in [Rows -> Nat], NEW k
  PROVE  [table EXCEPT ![k] = @ + 1] \in [Rows -> Nat]
<1>1. CASE k \in Rows
  <2>1. table[k] + 1 \in Nat
    BY <1>1
  <2> QED
    BY <2>1
<1>2. CASE k \notin Rows
  BY <1>2
<1> QED
  BY <1>1, <1>2

\* A row may be minted, a call counted
LEMMA NextType ==
  ASSUME TypeOK
  PROVE  /\ rows < MaxRows => rows + 1 \in 0..MaxRows /\ rows + 1 \in Rows
         /\ calls < MaxCalls => calls + 1 \in 0..MaxCalls
BY BoundsAssumption DEF TypeOK, Rows

LEMMA BeginType ==
  ASSUME TypeOK, NEW p \in Callers, Begin(p)
  PROVE  /\ calls' \in 0..MaxCalls /\ overlapped' \in BOOLEAN
         /\ faults' \in 0..MaxFaults /\ hit' \subseteq Callers
         /\ cur' \in [Callers -> 0..MaxRows] /\ gat' \in [Callers -> 0..MaxRows]
         /\ new' \in [Callers -> 0..MaxRows] /\ frm' \in [Callers -> 0..MaxFrames]
         /\ seen' \in [Callers -> Nat]
         /\ UNCHANGED <<db, rows, left>>
<1> DEFINE busy == \E q \in Callers : q # p /\ pc[q] # "idle"
<1>1. calls' \in 0..MaxCalls
  BY BoundsAssumption DEF TypeOK, Begin
<1>2. overlapped' \in BOOLEAN
  BY Zenon DEF TypeOK, Begin
<1>3. faults' \in 0..MaxFaults
  <2>1. faults' = faults \/ (faults < MaxFaults /\ faults' = faults + 1)
    BY DEF Begin
  <2> QED
    BY <2>1, BoundsAssumption DEF TypeOK
<1>4. hit' \subseteq Callers
  BY DEF TypeOK, Begin
<1>5. None \in 0..MaxRows /\ None \in 0..MaxFrames
  BY BoundsAssumption DEF None
<1>6. /\ cur' \in [Callers -> 0..MaxRows] /\ gat' \in [Callers -> 0..MaxRows]
      /\ new' \in [Callers -> 0..MaxRows] /\ frm' \in [Callers -> 0..MaxFrames]
      /\ seen' \in [Callers -> Nat]
  BY <1>5 DEF TypeOK, Begin
<1>7. UNCHANGED <<db, rows, left>>
  BY DEF Begin
<1> QED
  BY <1>1, <1>2, <1>3, <1>4, <1>6, <1>7

LEMMA RequestTypes ==
  ASSUME TypeOK, NEW p \in Callers, Request(p)
  PROVE  TypeOK'
<1> USE DEF Rows, Frames, None, Actor
<1>1. CASE StartTurn(p)
  <2>1. pc' \in [Callers -> Labels]
    BY <1>1 DEF TypeOK, StartTurn, Jump, Labels
  <2>2. inp' \in [Callers -> Inputs] /\ back' \in [Callers -> Backs]
    BY <1>1 DEF TypeOK, StartTurn, Inputs, Backs
  <2>3. Begin(p)
    BY <1>1 DEF StartTurn
  <2> QED
    BY <2>1, <2>2, <2>3, BeginType DEF TypeOK, db
<1>2. CASE StartResolve(p)
  <2>1. pc' \in [Callers -> Labels]
    BY <1>2 DEF TypeOK, StartResolve, Jump, Labels
  <2>2. inp' \in [Callers -> Inputs] /\ back' \in [Callers -> Backs]
    BY <1>2 DEF TypeOK, StartResolve, Inputs, Backs
  <2>3. Begin(p)
    BY <1>2 DEF StartResolve
  <2> QED
    BY <2>1, <2>2, <2>3, BeginType DEF TypeOK, db
<1>3. CASE StartConflict(p)
  <2>1. pc' \in [Callers -> Labels]
    BY <1>3 DEF TypeOK, StartConflict, Jump, Labels
  <2>2. inp' \in [Callers -> Inputs] /\ back' \in [Callers -> Backs]
    BY <1>3 DEF TypeOK, StartConflict, Inputs, Backs
  <2>3. Begin(p)
    BY <1>3 DEF StartConflict
  <2> QED
    BY <2>1, <2>2, <2>3, BeginType DEF TypeOK, db
<1> QED
  BY <1>1, <1>2, <1>3 DEF Request

LEMMA ReconcileTypes ==
  ASSUME TypeOK, NEW p \in Callers, Reconcile(p)
  PROVE  TypeOK'
<1> USE DEF Rows, Frames, None, Actor
<1>1. CASE ReadGeneration(p)
  BY <1>1 DEF TypeOK, ReadGeneration, db, counts, locals, past, Jump, Labels
<1>2. CASE SupersedeStaleGates(p)
  BY <1>2, SetAllType DEF TypeOK, SupersedeStaleGates, db, counts, locals, past, Jump, Labels,
     Statuses
<1>3. CASE SupersedeStaleChecks(p)
  BY <1>3, SetAllType DEF TypeOK, SupersedeStaleChecks, db, counts, locals, past, Jump, Labels,
     Statuses, AfterReconcile
<1> QED
  BY <1>1, <1>2, <1>3 DEF Reconcile

LEMMA BlockedType ==
  ASSUME TypeOK, NEW p \in Callers, Blocked(p)
  PROVE  pc' \in [Callers -> Labels] /\ back' \in [Callers -> Backs]
BY DEF TypeOK, Blocked, Jump, Labels, Backs

LEMMA ResolveTypes ==
  ASSUME TypeOK, NEW p \in Callers, Resolve(p)
  PROVE  TypeOK'
<1> USE DEF Rows, Frames, None, Actor
<1>1. CASE RollRefused(p)
  BY <1>1 DEF TypeOK, RollRefused, db, counts, locals, past, Jump, Labels
<1>2. CASE RollBlocked(p)
  <2>1. results' \in [Rows -> Nat]
    BY <1>2, CountedType DEF TypeOK, RollBlocked
  <2>2. pc' \in [Callers -> Labels] /\ back' \in [Callers -> Backs]
    BY <1>2, BlockedType DEF RollBlocked
  <2> QED
    BY <1>2, <2>1, <2>2 DEF TypeOK, RollBlocked, Blocked, counts, past
<1>3. CASE Roll(p)
  BY <1>3 DEF TypeOK, Roll, db, counts, locals, past, Jump, Labels
<1>4. CASE ApplyEffects(p)
  <2>1. applied' \in [Rows -> Nat]
    BY <1>4, CountedType DEF TypeOK, ApplyEffects
  <2>2. pc' \in [Callers -> Labels]
    <3>1. Jump(p, "post", "result") \/ Jump(p, "post", "read_check")
      BY <1>4 DEF ApplyEffects
    <3> QED
      BY <3>1, JumpType DEF TypeOK, PcOK, Labels
  <2>3. rows' \in 0..MaxRows /\ new' \in [Callers -> 0..MaxRows] /\ contracts' \in [Rows -> Kinds]
    BY <1>4, NextType DEF TypeOK, ApplyEffects, Kinds
  <2> QED
    BY <1>4, <2>1, <2>2, <2>3 DEF TypeOK, ApplyEffects, past
<1>5. CASE InsertResult(p)
  BY <1>5, CountedType DEF TypeOK, InsertResult, db, counts, locals, past, Jump, Labels
<1>6. CASE CloseCheck(p)
  BY <1>6, SetType DEF TypeOK, CloseCheck, db, counts, locals, past, Jump, Labels, Statuses
<1>7. CASE CloseGate(p)
  BY <1>7, SetType DEF TypeOK, CloseGate, db, counts, locals, past, Jump, Labels, Statuses
<1>8. CASE CloseOpenGate(p)
  BY <1>8, SetType, LatestType DEF TypeOK, CloseOpenGate, db, counts, locals, past, Jump,
     AfterResolve, OpenGates, Labels, Statuses
<1>9. CASE AnswerGate(p)
  BY <1>9, SetType DEF TypeOK, AnswerGate, db, counts, locals, past, Jump, Labels, Statuses
<1>10. CASE FollowUp(p)
  BY <1>10, LatestType DEF TypeOK, FollowUp, db, counts, locals, past, Jump, Answerable, Labels,
     Backs
<1>11. CASE EffectDone(p)
  BY <1>11, SetType DEF TypeOK, EffectDone, db, counts, locals, past, Jump, Labels, Statuses
<1> QED
  BY <1>1, <1>2, <1>3, <1>4, <1>5, <1>6, <1>7, <1>8, <1>9, <1>10, <1>11 DEF Resolve

LEMMA ToolTypes ==
  ASSUME TypeOK, NEW p \in Callers, Tool(p)
  PROVE  TypeOK'
<1> USE DEF Rows, Frames, None, Actor
<1>1. CASE GatePhase(p)
  BY <1>1, LatestType DEF TypeOK, GatePhase, db, counts, locals, past, Jump, Answerable, Labels,
     Backs
<1>2. CASE EndTurn(p)
  BY <1>2 DEF TypeOK, EndTurn, db, counts, locals, past, Jump, Labels
<1>3. CASE RollCheck(p)
  <2>1. rows' \in 0..MaxRows /\ calls' \in 0..MaxCalls /\ cur' \in [Callers -> 0..MaxRows]
    BY <1>3, NextType DEF TypeOK, RollCheck, ToolCall
  <2>2. pc' \in [Callers -> Labels]
    BY <1>3 DEF TypeOK, RollCheck, Jump, Labels
  <2>3. contracts' \in [Rows -> Kinds]
    BY <1>3 DEF TypeOK, RollCheck, Kinds
  <2>4. inp' \in [Callers -> Inputs] /\ back' \in [Callers -> Backs]
    BY <1>3 DEF TypeOK, RollCheck, Inputs, Backs
  <2> QED
    BY <1>3, <2>1, <2>2, <2>3, <2>4 DEF TypeOK, RollCheck, past
<1>4. CASE RequestRoll(p)
  BY <1>4, NextType DEF TypeOK, RequestRoll, db, counts, locals, past, ToolCall, Jump, Labels,
     Backs
<1>5. CASE CancelChecks(p)
  BY <1>5, SetAllType DEF TypeOK, CancelChecks, db, counts, locals, past, Jump, Labels, Statuses
<1>6. CASE CancelGates(p)
  BY <1>6, SetAllType DEF TypeOK, CancelGates, db, counts, locals, past, Jump, Labels, Statuses
<1>7. CASE MintContract(p)
  BY <1>7, NextType DEF TypeOK, MintContract, db, counts, locals, past, Jump, Labels, Kinds
<1>8. CASE ReadForInsert(p)
  BY <1>8 DEF TypeOK, ReadForInsert, db, counts, locals, past, Jump, Labels
<1>9. CASE PutCheck(p)
  <2>1. pc' \in [Callers -> Labels]
    BY <1>9 DEF TypeOK, PutCheck, Jump, Labels
  <2>2. seen[p] \in Nat /\ frm[p] \in 0..MaxFrames + 1
    BY BoundsAssumption DEF TypeOK
  <2> DEFINE row == [status |-> "open", gen |-> seen[p],
                     owner |-> IF contracts[new[p]] = "effect" THEN Actor ELSE None]
  <2>3. row \in Row
    BY <2>2, BoundsAssumption DEF Row, Statuses
  <2>4. checks' \in [Rows -> Row]
    <3>1. checks' = [checks EXCEPT ![new[p]] = row]
      BY <1>9 DEF PutCheck
    <3> HIDE DEF row
    <3> QED
      BY <3>1, <2>3 DEF TypeOK
  <2> QED
    BY <1>9, <2>1, <2>4 DEF TypeOK, PutCheck, counts, locals, past
<1>10. CASE PutGate(p)
  <2>1. pc' \in [Callers -> Labels]
    BY <1>10 DEF TypeOK, PutGate, AfterGate, Jump, Labels
  <2>2. seen[p] \in Nat /\ frm[p] \in 0..MaxFrames + 1
    BY BoundsAssumption DEF TypeOK
  <2> DEFINE row == [status |-> "open", gen |-> seen[p],
                     owner |-> IF contracts[new[p]] = "none" THEN frm[p] ELSE None]
  <2>3. row \in Row
    BY <2>2, BoundsAssumption DEF Row, Statuses
  <2>4. gates' \in [Rows -> Row]
    <3>1. gates' = [gates EXCEPT ![new[p]] = row]
      BY <1>10 DEF PutGate
    <3> HIDE DEF row
    <3> QED
      BY <3>1, <2>3 DEF TypeOK
  <2> QED
    BY <1>10, <2>1, <2>4 DEF TypeOK, PutGate, counts, locals, past
<1> QED
  BY <1>1, <1>2, <1>3, <1>4, <1>5, <1>6, <1>7, <1>8, <1>9, <1>10 DEF Tool

LEMMA FrameTypes ==
  ASSUME TypeOK, NEW p \in Callers, Frame(p)
  PROVE  TypeOK'
<1> USE DEF Rows, Frames, None, Actor
<1>1. CASE OpenFrame(p)
  <2>1. pc' \in [Callers -> Labels] /\ back' \in [Callers -> Backs]
    BY <1>1 DEF TypeOK, OpenFrame, Jump, Labels, Backs
  <2>2. calls' \in 0..MaxCalls
    BY <1>1, NextType DEF OpenFrame, ToolCall
  <2>3. frm' \in [Callers -> 0..MaxFrames]
    BY <1>1 DEF TypeOK, OpenFrame
  <2> QED
    BY <1>1, <2>1, <2>2, <2>3 DEF TypeOK, OpenFrame, db, past
<1>2. CASE PutFrame(p)
  BY <1>2 DEF TypeOK, PutFrame, AfterFrame, db, counts, locals, past, Jump, Labels
<1>3. CASE CloseFrame(p)
  <2>1. pc' \in [Callers -> Labels] /\ back' \in [Callers -> Backs]
    BY <1>3 DEF TypeOK, CloseFrame, Jump, Labels, Backs
  <2>2. calls' \in 0..MaxCalls
    BY <1>3, NextType DEF CloseFrame, ToolCall
  <2>3. frm' \in [Callers -> 0..MaxFrames]
    BY <1>3 DEF TypeOK, CloseFrame
  <2> QED
    BY <1>3, <2>1, <2>2, <2>3 DEF TypeOK, CloseFrame, db, past
<1>4. CASE CascadeGates(p)
  BY <1>4, SetAllType DEF TypeOK, CascadeGates, db, counts, locals, past, Jump, Labels, Statuses,
     Row
<1>5. CASE CascadeChecks(p)
  BY <1>5, SetAllType DEF TypeOK, CascadeChecks, db, counts, locals, past, Jump, Labels,
     Statuses, Row
<1>6. CASE CascadeFrame(p)
  BY <1>6 DEF TypeOK, CascadeFrame, db, counts, locals, past, Jump, Labels
<1>7. CASE Bump(p)
  <2>1. pc' \in [Callers -> Labels]
    BY <1>7 DEF TypeOK, Bump, AfterFrame, Jump, Labels
  <2>2. gen' \in Nat
    BY <1>7 DEF TypeOK, Bump
  <2>3. left' \subseteq Rows
    BY <1>7, Zenon DEF TypeOK, Bump
  <2> QED
    BY <1>7, <2>1, <2>2, <2>3 DEF TypeOK, Bump, counts, locals
<1>8. CASE FindFrame(p)
  <2>1. pc' \in [Callers -> Labels]
    <3>1. Jump(p, "conflict", "conflict_act") \/ Jump(p, "conflict", "frame_new")
      BY <1>8 DEF FindFrame
    <3> QED
      BY <3>1, JumpType DEF TypeOK, PcOK, Labels
  <2>2. PICK f \in Frames : frm' = [frm EXCEPT ![p] = f]
    BY <1>8 DEF FindFrame
  <2>3. frm' \in [Callers -> 0..MaxFrames]
    BY <2>2 DEF TypeOK
  <2>4. /\ frames' \in [Frames -> {"none", "live", "closed"}]
        /\ inp' \in [Callers -> Inputs]
    BY <1>8 DEF TypeOK, FindFrame, Inputs
  <2> QED
    BY <1>8, <2>1, <2>3, <2>4 DEF TypeOK, FindFrame, counts, past
<1>9. CASE NotHandled(p)
  BY <1>9 DEF TypeOK, NotHandled, db, counts, locals, past, Jump, Labels
<1>10. CASE OpenChoiceGate(p)
  BY <1>10, NextType DEF TypeOK, OpenChoiceGate, db, counts, locals, past, Jump, Labels
<1>11. CASE AttachGate(p)
  <2>1. pc' \in [Callers -> Labels]
    BY <1>11 DEF TypeOK, AttachGate, Jump, Labels
  <2>2. seen[p] \in Nat /\ frm[p] \in 0..MaxFrames + 1
    BY BoundsAssumption DEF TypeOK
  <2>3. gates' = [gates EXCEPT ![new[p]] = [gates[new[p]] EXCEPT !.owner = frm[p], !.gen = seen[p]]]
    BY <1>11 DEF TypeOK, AttachGate
  <2>4. ASSUME new[p] \in Rows
        PROVE  [gates[new[p]] EXCEPT !.owner = frm[p], !.gen = seen[p]] \in Row
    <3>1. gates[new[p]] \in Row
      BY <2>4 DEF TypeOK
    <3> QED
      BY <3>1, <2>2 DEF Row
  <2>5. gates' \in [Rows -> Row]
    BY <2>3, <2>4 DEF TypeOK
  <2> QED
    BY <1>11, <2>1, <2>5 DEF TypeOK, AttachGate, counts, locals, past
<1>12. CASE DeclareAction(p)
  BY <1>12, NextType DEF TypeOK, DeclareAction, db, counts, locals, past, Jump, Labels, Kinds
<1>13. CASE ExitFrame(p)
  BY <1>13 DEF TypeOK, ExitFrame, db, counts, locals, past, Jump, Labels
<1>14. CASE PutNewFrame(p)
  BY <1>14 DEF TypeOK, PutNewFrame, db, counts, locals, past, Jump, Labels
<1> QED
  BY <1>1, <1>2, <1>3, <1>4, <1>5, <1>6, <1>7, <1>8, <1>9, <1>10, <1>11, <1>12, <1>13, <1>14 DEF
     Frame

LEMMA ApiTypes ==
  ASSUME TypeOK, NEW p \in Callers, Api(p)
  PROVE  TypeOK'
<1> USE DEF Rows, Frames, None, Actor
<1>1. CASE ApiGate(p)
  BY <1>1, LatestType DEF TypeOK, ApiGate, db, counts, locals, past, Jump, OpenGates, Labels
<1>2. CASE SupersedeGate(p)
  BY <1>2, SetType DEF TypeOK, SupersedeGate, AfterDrop, db, counts, locals, past, Jump, Labels,
     Statuses
<1>3. CASE SupersedeCheck(p)
  BY <1>3, SetType DEF TypeOK, SupersedeCheck, db, counts, locals, past, Jump, Labels, Statuses
<1>4. CASE ApiContract(p)
  BY <1>4, LatestType DEF TypeOK, ApiContract, db, counts, locals, past, Jump, Answerable,
     Unresolved, Labels
<1>5. CASE ApiNoCheck(p)
  BY <1>5 DEF TypeOK, ApiNoCheck, db, counts, locals, past, Jump, Answerable, Unresolved, Labels
<1>6. CASE Choose(p)
  <2>1. pc' \in [Callers -> Labels]
    BY <1>6 DEF TypeOK, Choose, Jump, Labels
  <2>2. PICK s \in {"resolved", "open"} : gates' = Set(gates, gat[p], s)
    BY <1>6 DEF Choose
  <2>3. gates' \in [Rows -> Row]
    BY <2>2, SetType DEF TypeOK, Statuses
  <2> QED
    BY <1>6, <2>1, <2>3 DEF TypeOK, Choose, counts, locals, past
<1>7. CASE ApiCheck(p)
  BY <1>7, LatestType DEF TypeOK, ApiCheck, db, counts, locals, past, Jump, Answerable, Labels,
     Backs
<1>8. CASE CloseAskedCheck(p)
  <2>1. pc' \in [Callers -> Labels]
    <3>1. \/ Jump(p, "drop_check", "sup_gate")
          \/ Jump(p, "abandon_check", "abandon_gate")
      BY <1>8 DEF CloseAskedCheck
    <3> QED
      BY <3>1, JumpType DEF TypeOK, PcOK, Labels
  <2>2. checks' \in [Rows -> Row]
    <3>1. checks' \in {Set(checks, cur[p], "superseded"), Set(checks, cur[p], "abandoned")}
      BY <1>8 DEF CloseAskedCheck
    <3>2. /\ Set(checks, cur[p], "superseded") \in [Rows -> Row]
          /\ Set(checks, cur[p], "abandoned") \in [Rows -> Row]
      BY SetType DEF TypeOK, Statuses
    <3> QED
      BY <3>1, <3>2
  <2> QED
    BY <1>8, <2>1, <2>2 DEF TypeOK, CloseAskedCheck, counts, locals, past
<1>9. CASE AnswerWithoutDice(p)
  <2>1. pc' \in [Callers -> Labels]
    BY <1>9 DEF TypeOK, AnswerWithoutDice, Jump, Labels
  <2>2. gates' \in [Rows -> Row]
    <3>1. gates' \in {Set(gates, gat[p], "open"), Set(gates, gat[p], "abandoned")}
      BY <1>9 DEF AnswerWithoutDice
    <3>2. /\ Set(gates, gat[p], "open") \in [Rows -> Row]
          /\ Set(gates, gat[p], "abandoned") \in [Rows -> Row]
      BY SetType DEF TypeOK, Statuses
    <3> QED
      BY <3>1, <3>2
  <2> QED
    BY <1>9, <2>1, <2>2 DEF TypeOK, AnswerWithoutDice, counts, locals, past
<1> QED
  BY <1>1, <1>2, <1>3, <1>4, <1>5, <1>6, <1>7, <1>8, <1>9 DEF Api

\* A failure costs one of MaxFaults and is remembered of its caller
LEMMA HitType ==
  ASSUME TypeOK, NEW p \in Callers, Hit(p)
  PROVE  /\ faults' \in 0..MaxFaults /\ hit' \subseteq Callers
         /\ UNCHANGED <<left, overlapped>>
BY BoundsAssumption DEF TypeOK, Hit

LEMMA FaultTypes ==
  ASSUME TypeOK, NEW p \in Callers, Fault(p)
  PROVE  TypeOK'
<1>1. Hit(p)
  BY DEF Fault, Abort, FailTool, ReadLost, BlockedUnrecorded, Skip
<1>2. CASE Abort(p)
  <2>1. pc' \in [Callers -> Labels]
    BY <1>2 DEF TypeOK, Abort, Jump, Labels
  <2> QED
    BY <1>1, <1>2, <2>1, HitType DEF TypeOK, Abort, db, counts, locals
<1>3. CASE FailTool(p)
  <2>1. pc' \in [Callers -> Labels] /\ back' \in [Callers -> Backs]
    BY <1>3 DEF TypeOK, FailTool, Labels, Backs
  <2> QED
    BY <1>1, <1>3, <2>1, HitType DEF TypeOK, FailTool, db, counts
<1>4. CASE ReadLost(p)
  <2>1. pc' \in [Callers -> Labels] /\ seen' \in [Callers -> Nat]
    BY <1>4 DEF TypeOK, ReadLost, Jump, Labels
  <2> QED
    BY <1>1, <1>4, <2>1, HitType DEF TypeOK, ReadLost, db, counts
<1>5. CASE BlockedUnrecorded(p)
  <2>1. Blocked(p) /\ UNCHANGED results
    BY <1>5 DEF BlockedUnrecorded
  <2> QED
    BY <1>1, <2>1, BlockedType, HitType DEF TypeOK, Blocked, counts
<1>6. CASE Skip(p)
  <2>1. Onward(p) \in Labels
    BY DEF TypeOK, Onward, AfterReconcile, AfterResolve, AfterGate, AfterFrame, AfterDrop, Labels
  <2>2. pc' \in [Callers -> Labels]
    BY <1>6, <2>1 DEF TypeOK, Skip, Jump
  <2> QED
    BY <1>1, <1>6, <2>2, HitType DEF TypeOK, Skip, db, counts, locals
<1> QED
  BY <1>2, <1>3, <1>4, <1>5, <1>6 DEF Fault

\* Every state of any number of requests is well typed: the requests mint at most MaxRows rows
\* and write nothing but the known statuses (the handlers of trpg-gm, trpg-runtime, trpg-db).
THEOREM TypeCorrect == Spec => []TypeOK
<1>1. Init => TypeOK
  <2> SUFFICES ASSUME Init PROVE TypeOK
    OBVIOUS
  <2>1. NoRow \in Row
    BY BoundsAssumption DEF NoRow, Row, Statuses, None
  <2>2. /\ None \in 0..MaxRows /\ None \in 0..MaxFrames
        /\ rows \in 0..MaxRows /\ calls \in 0..MaxCalls /\ faults \in 0..MaxFaults
    BY BoundsAssumption DEF Init, None
  <2>3. pc \in [Callers -> Labels] /\ inp \in [Callers -> Inputs] /\ back \in [Callers -> Backs]
    BY DEF Init, Labels, Inputs, Backs
  <2>4. checks \in [Rows -> Row] /\ gates \in [Rows -> Row] /\ contracts \in [Rows -> Kinds]
    BY <2>1 DEF Init, Kinds
  <2>5. cur \in [Callers -> 0..MaxRows] /\ gat \in [Callers -> 0..MaxRows]
        /\ new \in [Callers -> 0..MaxRows] /\ frm \in [Callers -> 0..MaxFrames]
    BY <2>2 DEF Init
  <2> QED
    BY <2>2, <2>3, <2>4, <2>5 DEF Init, TypeOK
<1>2. TypeOK /\ [Next]_vars => TypeOK'
  <2> SUFFICES ASSUME TypeOK, [Next]_vars PROVE TypeOK'
    OBVIOUS
  <2>1. ASSUME NEW p \in Callers,
               \/ Request(p) \/ Reconcile(p) \/ Resolve(p) \/ Tool(p) \/ Frame(p) \/ Api(p)
               \/ Fault(p)
        PROVE  TypeOK'
    BY <2>1, RequestTypes, ReconcileTypes, ResolveTypes, ToolTypes, FrameTypes, ApiTypes,
       FaultTypes
  <2>2. CASE UNCHANGED vars
    BY <2>2 DEF TypeOK, vars, db, counts, locals, past
  <2> QED
    BY <2>1, <2>2 DEF Next
<1> QED
  BY <1>1, <1>2, PTL DEF Spec

-----------------------------------------------------------------------------
\* Why a check that was left behind cannot be answered: it is of an older generation.  For that
\* no row may be of a later generation than the session, no request may hold a later one,
\* and a check is put only into a row that no other request is about to fill.

Minting(p) == pc[p] \in {"read_check", "put_check"}

LeftOld  == \A k \in left : checks[k].status # "none" /\ checks[k].gen < gen
RowOld   == \A k \in Rows : checks[k].gen <= gen
SeenOld  == \A p \in Callers : seen[p] <= gen
RowFresh == \A k \in Rows : k > rows => checks[k].status = "none"
Minted   == \A p \in Callers : Minting(p) =>
                /\ new[p] \in Rows /\ new[p] <= rows /\ checks[new[p]].status = "none"
                /\ \A q \in Callers \ {p} : Minting(q) => new[q] # new[p]

AgeInv == LeftOld /\ RowOld /\ SeenOld /\ RowFresh /\ Minted

\* What most steps do to the checks: a row that is there stays, with its generation
SameRows == \A k \in Rows : /\ checks'[k].gen = checks[k].gen
                            /\ (checks'[k].status = "none") <=> (checks[k].status = "none")

LEMMA SetAllSame ==
  ASSUME TypeOK, NEW S, NEW status \in Statuses \ {"none"},
         \A k \in Rows : k \in S => checks[k].status = "open",
         checks' = SetAll(checks, S, status)
  PROVE  SameRows
<1> SUFFICES ASSUME NEW k \in Rows
             PROVE  /\ checks'[k].gen = checks[k].gen
                    /\ (checks'[k].status = "none") <=> (checks[k].status = "none")
  BY DEF SameRows
<1>1. checks[k] \in Row
  BY DEF TypeOK
<1>2. checks'[k] = IF k \in S THEN [checks[k] EXCEPT !.status = status] ELSE checks[k]
  BY DEF SetAll
<1> QED
  BY <1>1, <1>2 DEF Row

LEMMA SetSame ==
  ASSUME TypeOK, NEW k, NEW status \in Statuses \ {"none"},
         checks' = Set(checks, k, status) \/ checks' = SetIfOpen(checks, k, status)
  PROVE  SameRows
<1>1. checks \in [Rows -> Row]
  BY DEF TypeOK
<1>2. CASE checks' = checks
  BY <1>2 DEF SameRows
<1>3. CASE checks' = [checks EXCEPT ![k].status = status] /\ checks[k].status # "none"
  <2> SUFFICES ASSUME NEW j \in Rows
               PROVE  /\ checks'[j].gen = checks[j].gen
                      /\ (checks'[j].status = "none") <=> (checks[j].status = "none")
    BY DEF SameRows
  <2>1. checks[j] \in Row
    BY <1>1
  <2>2. checks'[j] = IF j = k THEN [checks[j] EXCEPT !.status = status] ELSE checks[j]
    BY <1>1, <1>3
  <2> QED
    BY <1>3, <2>1, <2>2 DEF Row
<1> QED
  BY <1>2, <1>3 DEF Set, SetIfOpen

\* Generation and history stay, and what a request remembers of the generation is not of later
Kept == /\ gen' = gen /\ left' = left /\ rows' >= rows
        /\ \A q \in Callers : seen'[q] \in {seen[q], gen, 0}

\* A step that leaves generation and histories alone, closes checks at most, and starts no check
LEMMA CalmStep ==
  ASSUME TypeOK, TypeOK', AgeInv, SameRows, Kept,
         \A q \in Callers : Minting(q)' => Minting(q) /\ new'[q] = new[q]
  PROVE  AgeInv'
<1> USE DEF Kept
<1>1. left \subseteq Rows /\ rows \in Nat /\ rows' \in Nat /\ gen \in Nat
  BY BoundsAssumption DEF TypeOK
<1>2. LeftOld'
  BY <1>1 DEF AgeInv, LeftOld, SameRows
<1>3. RowOld'
  BY DEF AgeInv, RowOld, SameRows
<1>4. SeenOld'
  BY <1>1 DEF AgeInv, SeenOld
<1>5. RowFresh'
  BY <1>1 DEF AgeInv, RowFresh, SameRows, Rows
<1>6. Minted'
  <2> SUFFICES ASSUME NEW q \in Callers, Minting(q)'
               PROVE  /\ new'[q] \in Rows /\ new'[q] <= rows' /\ checks'[new'[q]].status = "none"
                      /\ \A r \in Callers \ {q} : Minting(r)' => new'[r] # new'[q]
    BY DEF Minted
  <2>1. Minting(q) /\ new'[q] = new[q]
    OBVIOUS
  <2>2. /\ new[q] \in Rows /\ new[q] <= rows /\ checks[new[q]].status = "none"
        /\ \A r \in Callers \ {q} : Minting(r) => new[r] # new[q]
    BY <2>1 DEF AgeInv, Minted
  <2>3. new[q] <= rows'
    BY <1>1, <2>2 DEF Rows
  <2> QED
    BY <2>1, <2>2, <2>3 DEF SameRows
<1> QED
  BY <1>2, <1>3, <1>4, <1>5, <1>6 DEF AgeInv

\* A request mints a row: it is fresh, and no other request fills it
LEMMA MintAge ==
  ASSUME TypeOK, TypeOK', AgeInv, NEW p \in Callers, NEW from,
         rows < MaxRows, rows' = rows + 1, new' = [new EXCEPT ![p] = rows + 1],
         Jump(p, from, "read_check"), UNCHANGED <<gen, left, checks, seen>>
  PROVE  AgeInv'
<1>1. rows \in Nat /\ rows + 1 \in Rows
  BY BoundsAssumption DEF TypeOK, Rows
<1>2. LeftOld' /\ RowOld' /\ SeenOld'
  BY DEF AgeInv, LeftOld, RowOld, SeenOld
<1>3. RowFresh'
  BY <1>1 DEF AgeInv, RowFresh, Rows
<1>4. checks[rows + 1].status = "none"
  BY <1>1 DEF AgeInv, RowFresh
<1>5. Minted'
  <2> SUFFICES ASSUME NEW q \in Callers, Minting(q)'
               PROVE  /\ new'[q] \in Rows /\ new'[q] <= rows' /\ checks'[new'[q]].status = "none"
                      /\ \A r \in Callers \ {q} : Minting(r)' => new'[r] # new'[q]
    BY DEF Minted
  <2>1. new'[p] = rows + 1
    BY DEF TypeOK
  <2>2. \A r \in Callers \ {p} : /\ new'[r] = new[r] /\ (Minting(r)' => Minting(r))
    BY DEF TypeOK, Jump, Minting
  <2>3. \A r \in Callers \ {p} : Minting(r)' => new'[r] <= rows /\ new'[r] \in Rows
    BY <2>2 DEF AgeInv, Minted
  <2>4. CASE q = p
    BY <2>1, <2>3, <2>4, <1>1, <1>4 DEF Rows
  <2>5. CASE q # p
    <3>1. new'[q] \in Rows /\ new'[q] <= rows /\ checks'[new'[q]].status = "none"
      BY <2>2, <2>5 DEF AgeInv, Minted
    <3>2. new'[q] <= rows' /\ new'[q] # new'[p]
      BY <3>1, <2>1, <1>1 DEF Rows
    <3>3. \A r \in Callers \ {q, p} : Minting(r)' => new'[r] # new'[q]
      BY <2>2, <2>5 DEF AgeInv, Minted
    <3> QED
      BY <3>1, <3>2, <3>3
  <2> QED
    BY <2>4, <2>5
<1> QED
  BY <1>2, <1>3, <1>5 DEF AgeInv

\* The steps that mint, fill or close a generation
LEMMA ApplyEffectsAge ==
  ASSUME TypeOK, TypeOK', AgeInv, NEW p \in Callers, ApplyEffects(p)
  PROVE  AgeInv'
<1>1. CASE UNCHANGED new /\ UNCHANGED rows /\ Jump(p, "post", "result")
  <2>1. SameRows
    BY DEF ApplyEffects, SameRows
  <2>2. \A q \in Callers : Minting(q)' => Minting(q) /\ new'[q] = new[q]
    BY <1>1 DEF TypeOK, Jump, Minting
  <2>3. Kept
    BY <1>1 DEF TypeOK, Kept, ApplyEffects, past
  <2> QED
    BY <2>1, <2>2, <2>3, CalmStep
<1>2. CASE /\ rows < MaxRows /\ Jump(p, "post", "read_check")
           /\ rows' = rows + 1 /\ new' = [new EXCEPT ![p] = rows + 1]
  BY <1>2, MintAge DEF ApplyEffects, past
<1> QED
  BY <1>1, <1>2 DEF ApplyEffects

LEMMA MintContractAge ==
  ASSUME TypeOK, TypeOK', AgeInv, NEW p \in Callers, MintContract(p)
  PROVE  AgeInv'
BY MintAge DEF MintContract, past

LEMMA ReadForInsertAge ==
  ASSUME TypeOK, TypeOK', AgeInv, NEW p \in Callers, ReadForInsert(p)
  PROVE  AgeInv'
<1>1. SameRows
  BY DEF ReadForInsert, SameRows, db
<1>2. \A q \in Callers : Minting(q)' => Minting(q) /\ new'[q] = new[q]
  BY DEF TypeOK, ReadForInsert, Jump, Minting
<1>3. Kept
  BY DEF TypeOK, Kept, ReadForInsert, db, counts, past
<1> QED
  BY <1>1, <1>2, <1>3, CalmStep

LEMMA PutCheckAge ==
  ASSUME TypeOK, TypeOK', AgeInv, NEW p \in Callers, PutCheck(p)
  PROVE  AgeInv'
<1>1. /\ Minting(p) /\ ~Minting(p)'
      /\ \A q \in Callers \ {p} : Minting(q)' => Minting(q)
  BY DEF TypeOK, PutCheck, Jump, Minting
<1>2. /\ new[p] \in Rows /\ new[p] <= rows /\ checks[new[p]].status = "none"
      /\ \A q \in Callers \ {p} : Minting(q) => new[q] # new[p]
  BY <1>1 DEF AgeInv, Minted
<1>3. /\ \A k \in Rows : k # new[p] => checks'[k] = checks[k]
      /\ checks'[new[p]].gen = seen[p]
  BY <1>2 DEF TypeOK, PutCheck
<1>4. UNCHANGED <<gen, left, seen, new, rows>>
  BY DEF PutCheck, counts, locals, past
<1>5. new[p] \notin left /\ left \subseteq Rows
  BY <1>2 DEF AgeInv, LeftOld, TypeOK
<1>6. LeftOld'
  BY <1>3, <1>4, <1>5 DEF AgeInv, LeftOld
<1>7. RowOld' /\ SeenOld'
  BY <1>3, <1>4 DEF AgeInv, RowOld, SeenOld
<1>8. RowFresh'
  <2>1. rows \in Int /\ \A k \in Rows : k \in Int
    BY DEF TypeOK, Rows
  <2> QED
    BY <1>2, <1>3, <1>4, <2>1 DEF AgeInv, RowFresh
<1>9. Minted'
  BY <1>1, <1>2, <1>3, <1>4 DEF AgeInv, Minted
<1> QED
  BY <1>6, <1>7, <1>8, <1>9 DEF AgeInv

LEMMA BumpAge ==
  ASSUME TypeOK, TypeOK', AgeInv, NEW p \in Callers, Bump(p)
  PROVE  AgeInv'
<1>1. UNCHANGED <<checks, new, seen, rows>> /\ gen' = gen + 1 /\ gen \in Nat
  BY DEF TypeOK, Bump, counts, locals
<1>2. \A q \in Callers : Minting(q)' => Minting(q)
  BY DEF TypeOK, Bump, AfterFrame, Jump, Minting
<1>3. /\ left' = left \cup {k \in Rows : checks[k].status # "none"}
      /\ left \subseteq Rows
      /\ \A k \in Rows : checks[k].gen \in Nat
  BY DEF TypeOK, Bump, Row
<1>4. \A k \in Rows : checks[k].gen < gen'
  BY <1>1, <1>3 DEF AgeInv, RowOld
<1>5. LeftOld'
  BY <1>1, <1>3, <1>4 DEF AgeInv, LeftOld
<1>6. RowOld'
  BY <1>1, <1>3, <1>4 DEF RowOld
<1>7. SeenOld'
  BY <1>1 DEF AgeInv, SeenOld, TypeOK
<1>8. RowFresh' /\ Minted'
  BY <1>1, <1>2 DEF AgeInv, RowFresh, Minted
<1> QED
  BY <1>5, <1>6, <1>7, <1>8 DEF AgeInv

LEMMA RequestAge ==
  ASSUME TypeOK, TypeOK', AgeInv, NEW p \in Callers, Request(p)
  PROVE  AgeInv'
<1>1. SameRows
  BY DEF SameRows, Request, StartTurn, StartResolve, StartConflict, Begin, db
<1>2. \A q \in Callers : Minting(q)' => Minting(q) /\ new'[q] = new[q]
  BY DEF TypeOK, Jump, Minting, Request, StartTurn, StartResolve, StartConflict, Begin, db
<1>3. Kept
  BY DEF TypeOK, Kept, Request, StartTurn, StartResolve, StartConflict, Begin, db
<1> QED
  BY <1>1, <1>2, <1>3, CalmStep

LEMMA ReconcileAge ==
  ASSUME TypeOK, TypeOK', AgeInv, NEW p \in Callers, Reconcile(p)
  PROVE  AgeInv'
<1>1. SameRows
  <2>1. CASE SupersedeStaleChecks(p)
    BY <2>1, SetAllSame DEF SupersedeStaleChecks, Statuses, Stale
  <2>2. CASE ReadGeneration(p) \/ SupersedeStaleGates(p)
    BY <2>2 DEF SameRows, ReadGeneration, SupersedeStaleGates, db
  <2> QED
    BY <2>1, <2>2 DEF Reconcile
<1>2. \A q \in Callers : Minting(q)' => Minting(q) /\ new'[q] = new[q]
  BY DEF TypeOK, Jump, Minting, AfterReconcile, Reconcile, ReadGeneration, SupersedeStaleGates,
     SupersedeStaleChecks, db, counts, locals, past
<1>3. Kept
  BY DEF TypeOK, Kept, Reconcile, ReadGeneration, SupersedeStaleGates, SupersedeStaleChecks, db,
     counts, locals, past
<1> QED
  BY <1>1, <1>2, <1>3, CalmStep

LEMMA ResolveAge ==
  ASSUME TypeOK, TypeOK', AgeInv, NEW p \in Callers, Resolve(p)
  PROVE  AgeInv'
<1>1. CASE ApplyEffects(p)
  BY <1>1, ApplyEffectsAge
<1>2. CASE RollRefused(p) \/ RollBlocked(p) \/ Roll(p) \/ InsertResult(p) \/ CloseCheck(p) \/
           CloseGate(p) \/ CloseOpenGate(p) \/ AnswerGate(p) \/ FollowUp(p) \/ EffectDone(p)
  <2>1. SameRows
    <3>1. CASE CloseCheck(p)
      BY <3>1, SetSame DEF CloseCheck, Statuses
    <3>2. CASE EffectDone(p)
      BY <3>2, SetSame DEF EffectDone, Statuses
    <3>3. CASE RollRefused(p) \/ RollBlocked(p) \/ Roll(p) \/ InsertResult(p) \/ CloseGate(p) \/
               CloseOpenGate(p) \/ AnswerGate(p) \/ FollowUp(p)
      BY <3>3 DEF SameRows, RollRefused, RollBlocked, Blocked, Roll, InsertResult, CloseGate,
         CloseOpenGate, AnswerGate, FollowUp, db
    <3> QED
      BY <1>2, <3>1, <3>2, <3>3
  <2>2. \A q \in Callers : Minting(q)' => Minting(q) /\ new'[q] = new[q]
    BY <1>2 DEF TypeOK, Jump, Minting, AfterResolve, RollRefused, RollBlocked, Blocked, Roll,
       InsertResult, CloseCheck, CloseGate, CloseOpenGate, AnswerGate, FollowUp, EffectDone, db,
       counts, locals, past
  <2>3. Kept
    BY <1>2 DEF TypeOK, Kept, RollRefused, RollBlocked, Blocked, Roll, InsertResult, CloseCheck,
       CloseGate, CloseOpenGate, AnswerGate, FollowUp, EffectDone, db, counts, locals, past
  <2> QED
    BY <2>1, <2>2, <2>3, CalmStep
<1> QED
  BY <1>1, <1>2 DEF Resolve

LEMMA ToolAge ==
  ASSUME TypeOK, TypeOK', AgeInv, NEW p \in Callers, Tool(p)
  PROVE  AgeInv'
<1>1. CASE MintContract(p)
  BY <1>1, MintContractAge
<1>2. CASE ReadForInsert(p)
  BY <1>2, ReadForInsertAge
<1>3. CASE PutCheck(p)
  BY <1>3, PutCheckAge
<1>4. CASE GatePhase(p) \/ EndTurn(p) \/ RollCheck(p) \/ RequestRoll(p) \/ CancelChecks(p) \/
           CancelGates(p) \/ PutGate(p)
  <2>1. SameRows
    <3>1. CASE CancelChecks(p)
      BY <3>1, SetAllSame DEF CancelChecks, Statuses
    <3>2. CASE GatePhase(p) \/ EndTurn(p) \/ RollCheck(p) \/ RequestRoll(p) \/ CancelGates(p) \/
               PutGate(p)
      BY <3>2 DEF SameRows, GatePhase, EndTurn, RollCheck, RequestRoll, CancelGates, PutGate, db
    <3> QED
      BY <1>4, <3>1, <3>2
  <2>2. \A q \in Callers : Minting(q)' => Minting(q) /\ new'[q] = new[q]
    BY <1>4 DEF TypeOK, Jump, Minting, AfterGate, GatePhase, EndTurn, RollCheck, RequestRoll, CancelChecks,
       CancelGates, PutGate, ToolCall, db, counts, locals, past
  <2>3. Kept
    BY <1>4 DEF TypeOK, Kept, GatePhase, EndTurn, RollCheck, RequestRoll, CancelChecks,
       CancelGates, PutGate, ToolCall, db, counts, locals, past
  <2> QED
    BY <2>1, <2>2, <2>3, CalmStep
<1> QED
  BY <1>1, <1>2, <1>3, <1>4 DEF Tool

LEMMA FrameAge ==
  ASSUME TypeOK, TypeOK', AgeInv, NEW p \in Callers, Frame(p)
  PROVE  AgeInv'
<1>1. CASE Bump(p)
  BY <1>1, BumpAge
<1>2. CASE OpenFrame(p) \/ PutFrame(p) \/ CloseFrame(p) \/ CascadeGates(p) \/ CascadeChecks(p)
           \/ CascadeFrame(p) \/ FindFrame(p) \/ PutNewFrame(p) \/ NotHandled(p) \/
           OpenChoiceGate(p) \/ AttachGate(p) \/ DeclareAction(p) \/ ExitFrame(p)
  <2>1. SameRows
    <3>1. CASE CascadeChecks(p)
      BY <3>1, SetAllSame DEF CascadeChecks, Statuses
    <3>2. CASE OpenFrame(p) \/ PutFrame(p) \/ CloseFrame(p) \/ CascadeGates(p) \/
               CascadeFrame(p) \/ FindFrame(p) \/ PutNewFrame(p) \/ NotHandled(p) \/
               OpenChoiceGate(p) \/ AttachGate(p) \/ DeclareAction(p) \/ ExitFrame(p)
      BY <3>2 DEF SameRows, OpenFrame, PutFrame, CloseFrame, CascadeGates, CascadeFrame,
         FindFrame, PutNewFrame, NotHandled, OpenChoiceGate, AttachGate, DeclareAction,
         ExitFrame, db
    <3> QED
      BY <1>2, <3>1, <3>2
  <2>2. \A q \in Callers : Minting(q)' => Minting(q) /\ new'[q] = new[q]
    BY <1>2 DEF TypeOK, Jump, Minting, AfterFrame, OpenFrame, PutFrame, CloseFrame, CascadeGates,
       CascadeChecks, CascadeFrame, FindFrame, PutNewFrame, NotHandled, OpenChoiceGate,
       AttachGate, DeclareAction, ExitFrame, ToolCall, db, counts, locals, past
  <2>3. Kept
    BY <1>2 DEF TypeOK, Kept, OpenFrame, PutFrame, CloseFrame, CascadeGates, CascadeChecks,
       CascadeFrame, FindFrame, PutNewFrame, NotHandled, OpenChoiceGate, AttachGate,
       DeclareAction, ExitFrame, ToolCall, db, counts, locals, past
  <2> QED
    BY <2>1, <2>2, <2>3, CalmStep
<1> QED
  BY <1>1, <1>2 DEF Frame

LEMMA ApiAge ==
  ASSUME TypeOK, TypeOK', AgeInv, NEW p \in Callers, Api(p)
  PROVE  AgeInv'
<1>1. SameRows
  <2>1. CASE SupersedeCheck(p)
    BY <2>1, SetSame DEF SupersedeCheck, Statuses
  <2>2. CASE CloseAskedCheck(p)
    BY <2>2, SetSame DEF CloseAskedCheck, Statuses
  <2>3. CASE ApiGate(p) \/ SupersedeGate(p) \/ ApiContract(p) \/ ApiNoCheck(p) \/ Choose(p) \/
             ApiCheck(p) \/ AnswerWithoutDice(p)
    BY <2>3 DEF SameRows, ApiGate, SupersedeGate, ApiContract, ApiNoCheck, Choose, ApiCheck,
       AnswerWithoutDice, db
  <2> QED
    BY <2>1, <2>2, <2>3 DEF Api
<1>2. \A q \in Callers : Minting(q)' => Minting(q) /\ new'[q] = new[q]
  BY DEF TypeOK, Jump, Minting, AfterDrop, Api, ApiGate, SupersedeGate, SupersedeCheck, ApiContract,
     ApiNoCheck, Choose, ApiCheck, CloseAskedCheck, AnswerWithoutDice, db, counts, locals, past
<1>3. Kept
  BY DEF TypeOK, Kept, Api, ApiGate, SupersedeGate, SupersedeCheck, ApiContract, ApiNoCheck,
     Choose, ApiCheck, CloseAskedCheck, AnswerWithoutDice, db, counts, locals, past
<1> QED
  BY <1>1, <1>2, <1>3, CalmStep

\* A failure closes nothing and starts nothing
LEMMA FaultAge ==
  ASSUME TypeOK, TypeOK', AgeInv, NEW p \in Callers, Fault(p)
  PROVE  AgeInv'
<1>1. SameRows
  BY DEF SameRows, Fault, Abort, FailTool, ReadLost, BlockedUnrecorded, Blocked, Skip, db
<1>2. \A q \in Callers : Minting(q)' => Minting(q) /\ new'[q] = new[q]
  <2>1. CASE Skip(p)
    BY <2>1 DEF TypeOK, Jump, Minting, Skip, Onward, AfterReconcile, AfterResolve, AfterGate,
       AfterFrame, AfterDrop, locals
  <2>2. CASE Abort(p) \/ FailTool(p) \/ ReadLost(p) \/ BlockedUnrecorded(p)
    BY <2>2 DEF TypeOK, Jump, Minting, Abort, FailTool, ReadLost, BlockedUnrecorded, Blocked,
       locals
  <2> QED
    BY <2>1, <2>2 DEF Fault
<1>3. Kept
  BY DEF TypeOK, Kept, Fault, Hit, Abort, FailTool, ReadLost, BlockedUnrecorded, Blocked, Skip,
     db, counts, locals
<1> QED
  BY <1>1, <1>2, <1>3, CalmStep

LEMMA AgeInvariant == Spec => [](TypeOK /\ AgeInv)
<1>1. Init => AgeInv
  BY DEF Init, AgeInv, LeftOld, RowOld, SeenOld, RowFresh, Minted, Minting, NoRow
<1>2. TypeOK /\ TypeOK' /\ AgeInv /\ [Next]_vars => AgeInv'
  <2> SUFFICES ASSUME TypeOK, TypeOK', AgeInv, [Next]_vars PROVE AgeInv'
    OBVIOUS
  <2>1. ASSUME NEW p \in Callers,
               \/ Request(p) \/ Reconcile(p) \/ Resolve(p) \/ Tool(p) \/ Frame(p) \/ Api(p)
               \/ Fault(p)
        PROVE  AgeInv'
    BY <2>1, RequestAge, ReconcileAge, ResolveAge, ToolAge, FrameAge, ApiAge, FaultAge
  <2>2. CASE UNCHANGED vars
    BY <2>2 DEF AgeInv, LeftOld, RowOld, SeenOld, RowFresh, Minted, Minting,
       vars, db, counts, locals, past
  <2> QED
    BY <2>1, <2>2 DEF Next
<1> QED
  BY <1>1, <1>2, TypeCorrect, PTL DEF Spec

\* A request takes up a waiting check in one of three steps (or a contract where none waits)
Routes(p) == GatePhase(p) \/ FollowUp(p) \/ ApiCheck(p) \/ ApiContract(p)

LEMMA OnlyRoutes ==
  ASSUME TypeOK, NEW p \in Callers, NEW q \in Callers, ~Routes(q),
         \/ Request(q) \/ Reconcile(q) \/ Resolve(q) \/ Tool(q) \/ Frame(q) \/ Api(q)
         \/ Fault(q),
         pc[p] \in {"gate_phase", "api_check", "followup"}
  PROVE  pc'[p] # "roll"
<1> USE DEF TypeOK, Jump
<1>1. CASE Request(q)
  BY <1>1 DEF Request, StartTurn, StartResolve, StartConflict
<1>2. CASE Reconcile(q)
  BY <1>2 DEF Reconcile, ReadGeneration, SupersedeStaleGates, SupersedeStaleChecks
<1>3. CASE Resolve(q)
  BY <1>3 DEF Resolve, Routes, RollRefused, RollBlocked, Blocked, Roll, ApplyEffects, InsertResult,
     CloseCheck, CloseGate, CloseOpenGate, AnswerGate, EffectDone
<1>4. CASE Tool(q)
  BY <1>4 DEF Tool, Routes, EndTurn, RollCheck, RequestRoll, CancelChecks, CancelGates,
     MintContract, ReadForInsert, PutCheck, PutGate
<1>5. CASE Frame(q)
  BY <1>5 DEF Frame, OpenFrame, PutFrame, CloseFrame, CascadeGates, CascadeChecks, CascadeFrame,
     Bump, FindFrame, PutNewFrame, NotHandled, OpenChoiceGate, AttachGate, DeclareAction,
     ExitFrame
<1>6. CASE Api(q)
  BY <1>6 DEF Api, Routes, ApiGate, SupersedeGate, SupersedeCheck, ApiNoCheck, Choose,
     CloseAskedCheck, AnswerWithoutDice
<1>7. CASE Fault(q)
  <2>1. CASE Skip(q)
    BY <2>1 DEF Skip, Onward
  <2>2. CASE Abort(q) \/ FailTool(q) \/ ReadLost(q) \/ BlockedUnrecorded(q)
    BY <2>2 DEF Abort, FailTool, ReadLost, BlockedUnrecorded, Blocked
  <2> QED
    BY <1>7, <2>1, <2>2 DEF Fault
<1> QED
  BY <1>1, <1>2, <1>3, <1>4, <1>5, <1>6, <1>7

LEMMA AnswerableIsNew ==
  ASSUME TypeOK, AgeInv, Answerable # {}
  PROVE  Latest(Answerable) \notin left
<1>1. Answerable \in SUBSET Rows
  BY DEF Answerable
<1>2. Latest(Answerable) \in Answerable
  BY <1>1, LatestMember
<1>3. \A k \in Answerable : checks[k].gen = gen /\ gen \in Nat
  BY DEF Answerable, TypeOK
<1> QED
  BY <1>2, <1>3 DEF AgeInv, LeftOld

\* For any number of requests, however their statements interleave: a check that was there when
\* a frame closed is never taken up as the waiting check again, neither by a turn, nor by the
\* API, nor as a follow-up (close_frame and exit_mode of trpg-gm, bump_interaction_generation).
THEOREM StaleChecksStayUnanswered == Spec => StaleNeverAnswers
<1>1. TypeOK /\ AgeInv /\ [Next]_vars =>
        [\A p \in Callers :
           (pc[p] \in {"gate_phase", "api_check", "followup"} /\ pc'[p] = "roll" /\ Answerable # {})
             => cur'[p] \notin left]_vars
  <2> SUFFICES ASSUME TypeOK, AgeInv, Next, NEW p \in Callers, Answerable # {},
                      pc[p] \in {"gate_phase", "api_check", "followup"}, pc'[p] = "roll"
               PROVE  cur'[p] \notin left
    OBVIOUS
  <2>1. PICK q \in Callers :
          \/ Request(q) \/ Reconcile(q) \/ Resolve(q) \/ Tool(q) \/ Frame(q) \/ Api(q)
          \/ Fault(q)
    BY DEF Next
  <2>2. Routes(q)
    BY <2>1, OnlyRoutes
  <2>3. q = p
    BY <2>2 DEF Routes, GatePhase, FollowUp, ApiCheck, ApiContract, Jump, TypeOK
  <2>4. cur'[p] = Latest(Answerable)
    BY <2>2, <2>3 DEF Routes, GatePhase, FollowUp, ApiCheck, ApiContract, Jump, TypeOK
  <2> QED
    BY <2>4, AnswerableIsNew
<1> QED
  BY <1>1, AgeInvariant, PTL DEF StaleNeverAnswers, Spec
=============================================================================
