------------------------- MODULE ObligationsProofs -------------------------
(***************************************************************************)
(* What holds of Obligations for any catalog, any number of turns, rounds  *)
(* and faults: its types; that a turn which narrates of its own accord has *)
(* dealt with what was open when it began, and that what is left is told,  *)
(* however turns overlap; and, while they do not, that a hook has one open *)
(* due, that what is resolved stays so and is not called for again.        *)
(***************************************************************************)
EXTENDS Obligations, TLAPS

Marks_     == {"none", "open", "resolved"} \cup Scopes
Facts_     == {"hung", "rolled", "booked"}
Writes     == [rows : SUBSET Dues, as : {"resolved"} \cup Scopes]
Statements == {"list", "scope", "insert", "load", "write", "carry"}

\* The parts of the type invariant
RowTypes == row \in [Dues -> Marks_]
PcTypes  == pc \in [Turns -> Labels]
AdmissionTypes ==
    /\ event \in [Turns -> Events] /\ held \in [Turns -> SUBSET Keys]
    /\ cand \in [Turns -> SUBSET Hooks]
LedgerTypes ==
    /\ pending \in [Turns -> SUBSET Dues] /\ ledger \in [Turns -> SUBSET Owed]
    /\ waivers \in [Turns -> SUBSET (Owed \X Scopes)]
    /\ facts \in [Turns -> SUBSET Facts_]
LoopTypes ==
    /\ blocked \in [Turns -> BOOLEAN] /\ called \in [Turns -> BOOLEAN]
CountTypes == rounds \in [Turns -> 0..MaxRounds] /\ tools \in 0..MaxTools
WriteTypes == write \in [Turns -> Writes]
FaultTypes == failed \subseteq Statements /\ faults \in 0..MaxFaults
PastTypes ==
    /\ memo \subseteq Owed
    /\ knew \in [Turns -> SUBSET Dues] /\ reopened \in [Turns -> SUBSET Dues]
    /\ free \subseteq Turns /\ overlapped \in BOOLEAN
Places ==
    \A t \in Turns : /\ pc[t] \in {"waived", "resolved", "insert"} => cand[t] # {}
                     /\ write[t].rows # {} => pc[t] = "write"

LEMMA TypeParts ==
  TypeOK <=> /\ RowTypes /\ PcTypes /\ AdmissionTypes /\ LedgerTypes /\ LoopTypes
             /\ CountTypes /\ WriteTypes /\ FaultTypes /\ PastTypes /\ Places
BY DEF TypeOK, RowTypes, PcTypes, AdmissionTypes, LedgerTypes, LoopTypes, CountTypes, WriteTypes,
       FaultTypes, PastTypes, Places, Marks_, Facts_, Writes, Statements

LEMMA TypePartsNext ==
  TypeOK' <=> /\ RowTypes' /\ PcTypes' /\ AdmissionTypes' /\ LedgerTypes' /\ LoopTypes'
              /\ CountTypes' /\ WriteTypes' /\ FaultTypes' /\ PastTypes' /\ Places'
BY DEF TypeOK, RowTypes, PcTypes, AdmissionTypes, LedgerTypes, LoopTypes, CountTypes, WriteTypes,
       FaultTypes, PastTypes, Places, Marks_, Facts_, Writes, Statements

LEMMA InitTypes == Init => TypeOK
<1> SUFFICES ASSUME Init PROVE TypeOK
  OBVIOUS
<1>1. RowTypes /\ PcTypes /\ AdmissionTypes
  BY DEF Init, RowTypes, PcTypes, AdmissionTypes, Marks_, Labels, Events
<1>2. LedgerTypes
  BY DEF Init, LedgerTypes
<1>3. LoopTypes
  BY Zenon DEF Init, LoopTypes
<1>4. CountTypes /\ WriteTypes /\ FaultTypes
  BY BoundsAssumption DEF Init, CountTypes, WriteTypes, FaultTypes, Writes
<1>5. memo \subseteq Owed /\ knew \in [Turns -> SUBSET Dues] /\ reopened \in [Turns -> SUBSET Dues]
        /\ free \subseteq Turns
  BY DEF Init
<1>6. overlapped \in BOOLEAN
  BY Zenon DEF Init
<1>7. Places
  BY DEF Init, Places
<1> QED
  BY <1>1, <1>2, <1>3, <1>4, <1>5, <1>6, <1>7, TypeParts DEF PastTypes

-----------------------------------------------------------------------------
\* Pieces of steps

LEMMA FaultStep ==
  ASSUME FaultTypes, NEW s \in Statements, Fault(s) \/ NoFault
  PROVE  FaultTypes'
BY BoundsAssumption DEF FaultTypes, Fault, NoFault

\* What a turn forgets is typed.
LEMMA ForgetStep ==
  ASSUME TypeOK, NEW t \in Turns, Forget(t)
  PROVE  /\ AdmissionTypes' /\ LoopTypes' /\ WriteTypes'
         /\ pending' \in [Turns -> SUBSET Dues] /\ facts' \in [Turns -> SUBSET Facts_]
         /\ rounds' \in [Turns -> 0..MaxRounds]
         /\ knew' \in [Turns -> SUBSET Dues] /\ reopened' \in [Turns -> SUBSET Dues]
         /\ write'[t].rows = {}
         /\ \A u \in Turns \ {t} : cand'[u] = cand[u] /\ write'[u] = write[u]
<1>1. AdmissionTypes'
  BY TypeParts DEF Forget, AdmissionTypes, Events
<1>2. LoopTypes'
  BY TypeParts, Zenon DEF Forget, LoopTypes
<1>3. /\ pending' \in [Turns -> SUBSET Dues] /\ facts' \in [Turns -> SUBSET Facts_]
      /\ knew' \in [Turns -> SUBSET Dues] /\ reopened' \in [Turns -> SUBSET Dues]
  BY TypeParts DEF Forget, LedgerTypes, PastTypes
<1>4. rounds' \in [Turns -> 0..MaxRounds]
  BY TypeParts, BoundsAssumption DEF Forget, CountTypes
<1>5. WriteTypes' /\ write'[t].rows = {} /\ \A u \in Turns \ {t} : write'[u] = write[u]
  BY TypeParts DEF Forget, WriteTypes, Writes
<1>6. \A u \in Turns \ {t} : cand'[u] = cand[u]
  BY TypeParts DEF Forget, AdmissionTypes
<1> QED
  BY <1>1, <1>2, <1>3, <1>4, <1>5, <1>6

LEMMA KeysTyped ==
  ASSUME NEW dues
  PROVE  KeysOf(dues) \subseteq Keys
BY DEF KeysOf, Keys

LEMMA AskStep ==
  ASSUME TypeOK, NEW t \in Turns, NEW e \in Events, NEW fired \in SUBSET Hooks, NEW open,
         Ask(t, e, fired, open)
  PROVE  /\ PcTypes' /\ AdmissionTypes' /\ FaultTypes'
         /\ pc'[t] \in {"waived", After(e)}
         /\ pc'[t] = "waived" => cand'[t] # {}
         /\ \A u \in Turns \ {t} : pc'[u] = pc[u] /\ cand'[u] = cand[u]
<1>1. After(e) \in {"stimulus", "load", "tools"}
  BY DEF After
<1>2. FaultTypes'
  BY TypeParts, FaultStep DEF Ask, Statements
<1>3. PcTypes'
  BY <1>1, TypeParts DEF Ask, PcTypes, Labels
<1>4. AdmissionTypes'
  BY KeysTyped, TypeParts DEF Ask, AdmissionTypes, admission
<1>5. /\ pc'[t] \in {"waived", After(e)}
      /\ pc'[t] = "waived" => cand'[t] # {}
      /\ \A u \in Turns \ {t} : pc'[u] = pc[u] /\ cand'[u] = cand[u]
  BY <1>1, TypeParts DEF Ask, PcTypes, AdmissionTypes, admission
<1> QED
  BY <1>2, <1>3, <1>4, <1>5

LEMMA EndAdmissionStep ==
  ASSUME TypeOK, NEW t \in Turns, EndAdmission(t)
  PROVE  /\ PcTypes' /\ AdmissionTypes'
         /\ pc'[t] \in {"stimulus", "load", "tools"}
         /\ \A u \in Turns \ {t} : pc'[u] = pc[u] /\ cand'[u] = cand[u]
<1>1. After(event[t]) \in {"stimulus", "load", "tools"}
  BY DEF After
<1>2. PcTypes' /\ pc'[t] \in {"stimulus", "load", "tools"}
  BY <1>1, TypeParts DEF EndAdmission, PcTypes, Labels
<1>3. AdmissionTypes'
  BY TypeParts DEF EndAdmission, AdmissionTypes, Events
<1>4. \A u \in Turns \ {t} : pc'[u] = pc[u] /\ cand'[u] = cand[u]
  BY TypeParts DEF EndAdmission, PcTypes, AdmissionTypes
<1> QED
  BY <1>2, <1>3, <1>4

-----------------------------------------------------------------------------
\* Types, action by action

LEMMA HeadTypes ==
  ASSUME TypeOK, NEW t \in Turns, Begin(t) \/ StartHooks(t) \/ Stimulus(t) \/ Load(t)
  PROVE  TypeOK'
<1>1. CASE Begin(t)
  <2>1. PcTypes' /\ Places'
    BY <1>1, TypeParts DEF Begin, Jump, PcTypes, Labels, Places, admission, memory
  <2>2. CountTypes' /\ failed' \subseteq Statements
    BY <1>1, TypeParts DEF Begin, CountTypes, FaultTypes, memory
  <2>3. faults' \in 0..MaxFaults
    BY <1>1, BoundsAssumption, TypeParts DEF Begin, FaultTypes
  <2>4. overlapped' \in BOOLEAN
    BY <1>1, Zenon DEF Begin
  <2>5. RowTypes' /\ AdmissionTypes' /\ LedgerTypes' /\ WriteTypes'
    BY <1>1, TypeParts DEF Begin, RowTypes, AdmissionTypes, LedgerTypes, WriteTypes, admission, memory
  <2>6. LoopTypes'
    BY <1>1, TypeParts, Zenon DEF Begin, LoopTypes, memory
  <2>7. PastTypes'
    BY <1>1, <2>4, TypeParts DEF Begin, PastTypes, memory
  <2> QED
    BY <2>1, <2>2, <2>3, <2>5, <2>6, <2>7, TypePartsNext DEF FaultTypes
<1>2. ASSUME NEW e \in Events, NEW fired \in SUBSET Hooks,
             Ask(t, e, fired, Open),
             pc[t] \in {"start", "stimulus"}, e \in {"turn_start", "stimulus"},
             UNCHANGED <<row, memory, memo, tools, knew, reopened, free, overlapped>>
      PROVE  TypeOK'
  <2>1. PcTypes' /\ AdmissionTypes' /\ FaultTypes'
    BY <1>2, AskStep
  <2>2. RowTypes' /\ LedgerTypes' /\ WriteTypes' /\ CountTypes'
    BY <1>2, TypeParts DEF RowTypes, LedgerTypes, WriteTypes, CountTypes, memory
  <2>3. LoopTypes'
    BY <1>2, TypeParts, Zenon DEF LoopTypes, memory
  <2>4. PastTypes'
    BY <1>2, TypeParts DEF PastTypes
  <2>5. Places'
    BY <1>2, AskStep, TypeParts DEF Places, After, memory
  <2> QED
    BY <2>1, <2>2, <2>3, <2>4, <2>5, TypePartsNext
<1>3. CASE StartHooks(t)
  <2>1. Fired(t, "turn_start") \in SUBSET Hooks
    BY DEF Fired
  <2> QED
    BY <1>2, <1>3, <2>1 DEF StartHooks, Events
<1>4. CASE Stimulus(t)
  <2>1. PICK hits \in SUBSET Fired(t, "stimulus") : Ask(t, "stimulus", hits, Open)
    BY <1>4 DEF Stimulus
  <2>2. hits \in SUBSET Hooks
    BY <2>1 DEF Fired
  <2> QED
    BY <1>2, <1>4, <2>1, <2>2 DEF Stimulus, Events
<1>5. CASE Load(t)
  <2>1. Open \in SUBSET Dues /\ Dues \subseteq Owed
    BY DEF Open, Dues, Owed
  <2>2. LedgerTypes'
    BY <1>5, <2>1, TypeParts DEF Load, LedgerTypes
  <2>3. FaultTypes'
    BY <1>5, FaultStep, TypeParts DEF Load, Statements
  <2>4. PcTypes' /\ Places'
    BY <1>5, TypeParts DEF Load, Jump, PcTypes, Labels, Places, admission
  <2>5. LoopTypes'
    BY <1>5, TypeParts, Zenon DEF Load, LoopTypes
  <2>6. RowTypes' /\ AdmissionTypes' /\ WriteTypes' /\ CountTypes'
    BY <1>5, TypeParts DEF Load, RowTypes, AdmissionTypes, WriteTypes, CountTypes, admission
  <2>7. knew' \in [Turns -> SUBSET Dues] /\ reopened' \in [Turns -> SUBSET Dues]
    BY <1>5, <2>1, TypeParts DEF Load, PastTypes
  <2>8. PastTypes'
    BY <1>5, <2>7, TypeParts DEF Load, PastTypes
  <2> QED
    BY <2>2, <2>3, <2>4, <2>5, <2>6, <2>8, TypePartsNext
<1> QED
  BY <1>1, <1>3, <1>4, <1>5

LEMMA AdmissionStepTypes ==
  ASSUME TypeOK, NEW t \in Turns, ListWaived(t) \/ ListResolved(t) \/ Insert(t)
  PROVE  TypeOK'
<1>1. CASE ListWaived(t) \/ ListResolved(t)
  <2>1. UNCHANGED <<row, memory, memo, tools, knew, reopened, free, overlapped>>
    BY <1>1 DEF ListWaived, ListResolved
  <2>2. RowTypes' /\ LedgerTypes' /\ WriteTypes' /\ CountTypes'
    BY <2>1, TypeParts DEF RowTypes, LedgerTypes, WriteTypes, CountTypes, memory
  <2>3. LoopTypes'
    BY <2>1, TypeParts, Zenon DEF LoopTypes, memory
  <2>4. PastTypes'
    BY <2>1, TypeParts DEF PastTypes
  <2>5. FaultTypes'
    BY <1>1, FaultStep, TypeParts DEF ListWaived, ListResolved, Statements
  <2>6. pc[t] \in {"waived", "resolved"}
    BY <1>1 DEF ListWaived, ListResolved
  <2>7. CASE EndAdmission(t)
    <3>1. Places'
      BY <2>1, <2>6, <2>7, EndAdmissionStep, TypeParts DEF Places, memory
    <3> QED
      BY <2>2, <2>3, <2>4, <2>5, <2>7, <3>1, EndAdmissionStep, TypePartsNext
  <2>8. CASE ~EndAdmission(t)
    <3>1. /\ pc' = [pc EXCEPT ![t] = "resolved"] \/ pc' = [pc EXCEPT ![t] = "insert"]
          /\ \/ held' = [held EXCEPT ![t] = @ \cup KeysOf(WithStatus("scene"))]
             \/ held' = [held EXCEPT ![t] = @ \cup KeysOf(WithStatus("resolved"))]
             \/ held' = held
          /\ UNCHANGED <<event, cand>>
      BY <1>1, <2>8 DEF ListWaived, ListResolved, Jump, admission
    <3>2. PcTypes'
      BY <3>1, TypeParts DEF PcTypes, Labels
    <3>3. AdmissionTypes'
      BY <3>1, KeysTyped, TypeParts DEF AdmissionTypes
    <3>4. Places'
      BY <2>1, <2>6, <3>1, TypeParts DEF Places, PcTypes, AdmissionTypes, memory
    <3> QED
      BY <2>2, <2>3, <2>4, <2>5, <3>2, <3>3, <3>4, TypePartsNext
  <2> QED
    BY <2>7, <2>8
<1>2. CASE Insert(t)
  <2>1. Admitted(t) \subseteq Dues
    BY TypeParts DEF Admitted, Dues, AdmissionTypes
  <2>2. RowTypes'
    BY <1>2, TypeParts DEF Insert, RowTypes, Marks_
  <2>3. pending' \in [Turns -> SUBSET Dues]
    BY <1>2, <2>1, TypeParts DEF Insert, LedgerTypes
  <2>4. LedgerTypes' /\ WriteTypes' /\ CountTypes'
    BY <1>2, <2>3, TypeParts DEF Insert, LedgerTypes, WriteTypes, CountTypes
  <2>5. LoopTypes'
    BY <1>2, TypeParts, Zenon DEF Insert, LoopTypes
  <2>6. PastTypes'
    BY <1>2, TypeParts DEF Insert, PastTypes
  <2>7. FaultTypes'
    BY <1>2, FaultStep, TypeParts DEF Insert, Statements
  <2>8. EndAdmission(t) /\ UNCHANGED write /\ pc[t] = "insert"
    BY <1>2 DEF Insert
  <2>9. Places'
    BY <2>8, EndAdmissionStep, TypeParts DEF Places
  <2> QED
    BY <2>2, <2>4, <2>5, <2>6, <2>7, <2>8, <2>9, EndAdmissionStep, TypePartsNext
<1> QED
  BY <1>1, <1>2

LEMMA AccountedTyped ==
  ASSUME TypeOK, NEW t \in Turns
  PROVE  Accounted(t) \subseteq Owed
<1>1. Mine(t, Check) \subseteq Owed /\ Mine(t, Cluster) \subseteq Owed
  BY DEF Mine, Owed
<1>2. ledger[t] \subseteq Owed
  BY TypeParts DEF LedgerTypes
<1> QED
  BY <1>1, <1>2 DEF Accounted

LEMMA LoopStepTypes ==
  ASSUME TypeOK, NEW t \in Turns, Loop(t)
  PROVE  TypeOK'
<1>1. /\ UNCHANGED <<row, admission, memo, tools, failed, faults, knew, reopened, overlapped>>
      /\ UNCHANGED <<pending, waivers, facts, write>>
      /\ free' \subseteq Turns
  BY TypeParts DEF Loop, Round, NextRound, Narrate, Forced, memory, past, PastTypes
<1>2. /\ pc[t] \in {"round", "tools"}
      /\ \/ pc' = [pc EXCEPT ![t] = "tools"]
         \/ pc' = [pc EXCEPT ![t] = "round"]
         \/ pc' = [pc EXCEPT ![t] = "verify"]
  BY DEF Loop, Round, NextRound, Narrate, Forced, Jump
<1>3. PcTypes' /\ Places'
  BY <1>1, <1>2, TypeParts DEF PcTypes, Labels, Places, AdmissionTypes, admission
<1>4. RowTypes' /\ AdmissionTypes' /\ WriteTypes' /\ FaultTypes'
  BY <1>1, TypeParts DEF RowTypes, AdmissionTypes, WriteTypes, FaultTypes, admission
<1>5. PastTypes'
  BY <1>1, TypeParts DEF PastTypes
<1>6. ledger' \in [Turns -> SUBSET Owed]
  BY AccountedTyped, TypeParts DEF Loop, Round, NextRound, Narrate, Forced, memory, LedgerTypes
<1>7. LedgerTypes'
  BY <1>1, <1>6, TypeParts DEF LedgerTypes
<1>8. rounds' \in [Turns -> 0..MaxRounds]
  <2>1. CASE Round(t)
    BY <2>1, BoundsAssumption, TypeParts DEF Round, CountTypes
  <2>2. CASE ~Round(t)
    BY <2>2, TypeParts DEF Loop, NextRound, Narrate, Forced, memory, CountTypes
  <2> QED
    BY <2>1, <2>2
<1>9. LoopTypes'
  <2>1. CASE Round(t)
    BY <2>1, TypeParts, Zenon DEF Round, LoopTypes
  <2>2. CASE ~Round(t)
    BY <2>2, TypeParts, Zenon DEF Loop, NextRound, Narrate, Forced, memory, LoopTypes
  <2> QED
    BY <2>1, <2>2
<1>10. CountTypes'
  BY <1>1, <1>8, TypeParts DEF CountTypes
<1> QED
  BY <1>3, <1>4, <1>5, <1>7, <1>9, <1>10, TypePartsNext

\* What every tool call leaves alone or types: the call itself and its count.
LEMMA CallStep ==
  ASSUME TypeOK, NEW t \in Turns, Call(t)
  PROVE  /\ pc[t] = "tools" /\ called' \in [Turns -> BOOLEAN]
         /\ Change(t) => tools' \in 0..MaxTools
<1>1. called' \in [Turns -> BOOLEAN]
  BY TypeParts, Zenon DEF Call, LoopTypes
<1>2. Change(t) => tools' \in 0..MaxTools
  BY BoundsAssumption, TypeParts DEF Change, CountTypes
<1> QED
  BY <1>1, <1>2 DEF Call

LEMMA WritingStep ==
  ASSUME TypeOK, NEW t \in Turns, pc[t] = "tools",
         NEW dues \in SUBSET Dues, NEW s \in {"resolved"} \cup Scopes, Writing(t, dues, s)
  PROVE  /\ PcTypes' /\ WriteTypes' /\ pc'[t] \in {"tools", "write"}
         /\ write'[t].rows # {} => pc'[t] = "write"
         /\ \A u \in Turns \ {t} : pc'[u] = pc[u] /\ write'[u] = write[u]
<1>1. write[t].rows = {}
  BY TypeParts DEF Places
<1>2. CASE dues = {}
  BY <1>1, <1>2, TypeParts DEF Writing, PcTypes, Labels, WriteTypes
<1>3. CASE dues # {}
  <2>1. /\ pc' = [pc EXCEPT ![t] = "write"]
        /\ write' = [write EXCEPT ![t].rows = dues, ![t].as = s]
    BY <1>3 DEF Writing
  <2>2. WriteTypes' /\ \A u \in Turns \ {t} : write'[u] = write[u]
    BY <2>1, TypeParts DEF WriteTypes, Writes
  <2>3. PcTypes' /\ pc'[t] = "write" /\ \A u \in Turns \ {t} : pc'[u] = pc[u]
    BY <2>1, TypeParts DEF PcTypes, Labels
  <2> QED
    BY <2>2, <2>3
<1> QED
  BY <1>2, <1>3

LEMMA CrossStep ==
  ASSUME TypeOK, NEW t \in Turns, Cross(t)
  PROVE  /\ RowTypes' /\ FaultTypes'
         /\ \A d \in Dues : row'[d] # row[d] => row[d] = "none" /\ row'[d] = "open"
<1>1. FaultTypes'
  BY TypeParts, FaultStep DEF Cross, Statements
<1>2. CASE row' = row
  BY <1>1, <1>2, TypeParts DEF RowTypes
<1>3. CASE row[<<t, Crossing>>] = "none" /\ row' = [row EXCEPT ![<<t, Crossing>>] = "open"]
  BY <1>1, <1>3, TypeParts DEF RowTypes, Marks_
<1> QED
  BY <1>2, <1>3 DEF Cross

LEMMA ToolTypes ==
  ASSUME TypeOK, NEW t \in Turns, Tool(t)
  PROVE  TypeOK'
<1>1. CASE Look(t)
  <2>1. UNCHANGED <<row, pc, admission, pending, ledger, waivers, facts, rounds, tools,
                    write, memo, past>>
    BY <1>1 DEF Look
  <2>2. LoopTypes'
    BY <1>1, CallStep, TypeParts, Zenon DEF Look, LoopTypes
  <2>3. RowTypes' /\ PcTypes' /\ AdmissionTypes' /\ LedgerTypes' /\ CountTypes' /\ WriteTypes'
    BY <2>1, TypeParts DEF RowTypes, PcTypes, AdmissionTypes, LedgerTypes, CountTypes, WriteTypes,
                           admission
  <2>4. FaultTypes' /\ PastTypes' /\ Places'
    BY <2>1, TypeParts DEF FaultTypes, PastTypes, Places, past, admission
  <2> QED
    BY <2>2, <2>3, <2>4, TypePartsNext
<1>2. ASSUME Change(t), UNCHANGED <<blocked, rounds, memo, knew, free, overlapped>>,
             RowTypes', PcTypes', AdmissionTypes', LedgerTypes', WriteTypes', FaultTypes', Places',
             reopened' \in [Turns -> SUBSET Dues]
      PROVE  TypeOK'
  <2>1. Call(t)
    BY <1>2 DEF Change
  <2>2. LoopTypes'
    BY <1>2, <2>1, CallStep, TypeParts, Zenon DEF LoopTypes
  <2>3. CountTypes'
    BY <1>2, <2>1, CallStep, TypeParts DEF CountTypes
  <2>4. PastTypes'
    BY <1>2, TypeParts DEF PastTypes
  <2> QED
    BY <1>2, <2>2, <2>3, <2>4, TypePartsNext
<1>p. reopened \in [Turns -> SUBSET Dues]
  BY TypeParts DEF PastTypes
<1>3. CASE Waive(t)
  <2>1. pc[t] = "tools"
    BY <1>3 DEF Waive, Change, Call
  <2>2. PICK o \in Blocking(t), s \in Scopes :
              /\ waivers' = [waivers EXCEPT ![t] = @ \cup {<<o, s>>}]
              /\ Writing(t, {o} \cap Dues, s)
    BY <1>3 DEF Waive
  <2>3. o \in Owed
    BY <2>2, TypeParts DEF Blocking, LedgerTypes
  <2>4. LedgerTypes'
    BY <1>3, <2>2, <2>3, TypeParts DEF Waive, LedgerTypes
  <2>5. {o} \cap Dues \in SUBSET Dues /\ s \in {"resolved"} \cup Scopes
    BY <2>2
  <2>6. PcTypes' /\ WriteTypes'
    BY <2>1, <2>2, <2>5, WritingStep
  <2>7. RowTypes' /\ AdmissionTypes' /\ FaultTypes' /\ UNCHANGED cand
    BY <1>3, TypeParts DEF Waive, RowTypes, AdmissionTypes, FaultTypes, admission
  <2>8. Places'
    BY <2>1, <2>2, <2>5, <2>7, WritingStep, TypeParts DEF Places
  <2> QED
    BY <1>2, <1>p, <1>3, <2>4, <2>6, <2>7, <2>8 DEF Waive
<1>4. CASE Roll(t)
  <2>1. pc[t] = "tools"
    BY <1>4 DEF Roll, Change, Call
  <2>2. PICK m \in {Mech[h] : h \in Hooks}, came \in {{}, {"rolled"}, {"rolled", "booked"}} :
              /\ facts' = [facts EXCEPT ![t] = @ \cup came]
              /\ ledger' = [ledger EXCEPT ![t] = @ \ Of(t, m)]
              /\ Writing(t, Of(t, m) \cap Dues, "resolved")
              /\ IF came = {} THEN UNCHANGED row /\ NoFault ELSE Cross(t)
    BY <1>4 DEF Roll
  <2>3. LedgerTypes'
    <3>1. came \subseteq Facts_
      BY <2>2 DEF Facts_
    <3>2. facts' \in [Turns -> SUBSET Facts_]
      BY <2>2, <3>1, TypeParts DEF LedgerTypes
    <3>3. ledger' \in [Turns -> SUBSET Owed]
      BY <2>2, TypeParts DEF LedgerTypes
    <3> QED
      BY <1>4, <3>2, <3>3, TypeParts DEF Roll, LedgerTypes
  <2>4. RowTypes' /\ FaultTypes'
    BY <2>2, CrossStep, TypeParts DEF RowTypes, FaultTypes, NoFault
  <2>5. PcTypes' /\ WriteTypes'
    BY <2>1, <2>2, WritingStep
  <2>6. AdmissionTypes' /\ UNCHANGED cand
    BY <1>4, TypeParts DEF Roll, AdmissionTypes, admission
  <2>7. Places'
    BY <2>1, <2>2, <2>6, WritingStep, TypeParts DEF Places
  <2> QED
    BY <1>2, <1>p, <1>4, <2>3, <2>4, <2>5, <2>6, <2>7 DEF Roll
<1>5. CASE RollFails(t)
  <2>1. facts' \in [Turns -> SUBSET Facts_]
    BY <1>5, TypeParts DEF RollFails, LedgerTypes, Facts_
  <2>2. LedgerTypes'
    BY <1>5, <2>1, TypeParts DEF RollFails, LedgerTypes
  <2>3. FaultTypes'
    BY <1>5, FaultStep, TypeParts DEF RollFails, Statements
  <2>4. RowTypes' /\ PcTypes' /\ AdmissionTypes' /\ WriteTypes' /\ Places'
    BY <1>5, TypeParts DEF RollFails, RowTypes, PcTypes, AdmissionTypes, WriteTypes, Places, admission
  <2> QED
    BY <1>2, <1>p, <1>5, <2>2, <2>3, <2>4 DEF RollFails
<1>6. CASE ApplyEffect(t)
  <2>1. facts' \in [Turns -> SUBSET Facts_]
    BY <1>6, TypeParts DEF ApplyEffect, LedgerTypes, Facts_
  <2>2. LedgerTypes'
    BY <1>6, <2>1, TypeParts DEF ApplyEffect, LedgerTypes
  <2>3. RowTypes' /\ FaultTypes'
    BY <1>6, CrossStep DEF ApplyEffect
  <2>4. PcTypes' /\ AdmissionTypes' /\ WriteTypes' /\ Places'
    BY <1>6, TypeParts DEF ApplyEffect, PcTypes, AdmissionTypes, WriteTypes, Places, admission
  <2> QED
    BY <1>2, <1>p, <1>6, <2>2, <2>3, <2>4 DEF ApplyEffect
<1>7. CASE WriteRows(t)
  <2>1. pc[t] = "write" /\ pc' = [pc EXCEPT ![t] = "tools"]
    BY <1>7 DEF WriteRows, Jump
  <2>2. write[t].as \in Marks_
    BY TypeParts DEF WriteTypes, Writes, Marks_
  <2>3. RowTypes'
    BY <1>7, <2>2, TypeParts DEF WriteRows, RowTypes
  <2>4. WriteTypes' /\ write'[t].rows = {} /\ \A u \in Turns \ {t} : write'[u] = write[u]
    BY <1>7, TypeParts DEF WriteRows, WriteTypes, Writes
  <2>5. PcTypes'
    BY <2>1, TypeParts DEF PcTypes, Labels
  <2>6. AdmissionTypes' /\ LedgerTypes' /\ CountTypes' /\ UNCHANGED cand
    BY <1>7, TypeParts DEF WriteRows, AdmissionTypes, LedgerTypes, CountTypes, admission
  <2>7. Places'
    BY <2>1, <2>4, <2>6, TypeParts DEF Places, PcTypes
  <2>8. FaultTypes'
    BY <1>7, FaultStep, TypeParts DEF WriteRows, Statements
  <2>9. LoopTypes'
    BY <1>7, TypeParts, Zenon DEF WriteRows, LoopTypes
  <2>10. PastTypes'
    BY <1>7, TypeParts DEF WriteRows, PastTypes
  <2> QED
    BY <2>3, <2>4, <2>5, <2>6, <2>7, <2>8, <2>9, <2>10, TypePartsNext
<1>8. CASE Navigate(t)
  <2>1. pc[t] = "tools"
    BY <1>8 DEF Navigate, Change, Call
  <2>2. Fired(t, "scene_enter") \in SUBSET Hooks /\ "scene_enter" \in Events
    BY DEF Fired, Events
  <2>3. Reopening \in SUBSET Dues
    BY DEF Reopening
  <2>4. UNCHANGED <<pending, ledger, facts, blocked, rounds, write, memo, knew, free, overlapped>>
    BY <1>8 DEF Navigate
  <2>5. CASE Ask(t, "scene_enter", Fired(t, "scene_enter"), Open \cup Reopening) /\ ReopenRows(Reopening)
             /\ waivers' = [waivers EXCEPT ![t] = {w \in @ : w[2] # "scene"}]
    <3>1. RowTypes'
      BY <2>3, <2>5, TypeParts DEF ReopenRows, RowTypes, Marks_
    <3>2. reopened' \in [Turns -> SUBSET Dues]
      BY <2>3, <2>5, TypeParts DEF ReopenRows, PastTypes
    <3>3. LedgerTypes'
      BY <2>4, <2>5, TypeParts DEF LedgerTypes
    <3>4. PcTypes' /\ AdmissionTypes' /\ FaultTypes'
      BY <2>2, <2>5, AskStep
    <3>5. Places'
      BY <2>1, <2>2, <2>4, <2>5, AskStep, TypeParts DEF Places, After
    <3>6. WriteTypes'
      BY <2>4, TypeParts DEF WriteTypes
    <3>7. Change(t)
      BY <1>8 DEF Navigate
    <3> QED
      BY <1>2, <2>4, <3>1, <3>2, <3>3, <3>4, <3>5, <3>6, <3>7
  <2>6. CASE Fault("write") /\ UNCHANGED <<row, reopened, waivers, pc, admission>>
    <3>1. FaultTypes'
      BY <2>6, FaultStep, TypeParts DEF Statements
    <3>2. RowTypes' /\ PcTypes' /\ AdmissionTypes' /\ LedgerTypes' /\ WriteTypes' /\ Places'
      BY <2>4, <2>6, TypeParts DEF RowTypes, PcTypes, AdmissionTypes, LedgerTypes, WriteTypes, Places,
                                   admission
    <3>3. Change(t)
      BY <1>8 DEF Navigate
    <3> QED
      BY <1>2, <1>p, <2>4, <2>6, <3>1, <3>2, <3>3
  <2> QED
    BY <1>8, <2>5, <2>6 DEF Navigate
<1>9. CASE AdvanceTime(t)
  <2>1. pc[t] = "tools"
    BY <1>9 DEF AdvanceTime, Change, Call
  <2>2. PICK hooks \in SUBSET Fired(t, "time_advance") : Ask(t, "time_advance", hooks, Open)
    BY <1>9 DEF AdvanceTime
  <2>3. hooks \in SUBSET Hooks /\ "time_advance" \in Events
    BY <2>2 DEF Fired, Events
  <2>4. PcTypes' /\ AdmissionTypes' /\ FaultTypes'
    BY <2>2, <2>3, AskStep
  <2>5. RowTypes' /\ LedgerTypes' /\ WriteTypes' /\ UNCHANGED write
    BY <1>9, TypeParts DEF AdvanceTime, RowTypes, LedgerTypes, WriteTypes
  <2>6. Places'
    BY <2>1, <2>2, <2>3, <2>5, AskStep, TypeParts DEF Places, After
  <2> QED
    BY <1>2, <1>p, <1>9, <2>4, <2>5, <2>6 DEF AdvanceTime
<1> QED
  BY <1>1, <1>3, <1>4, <1>5, <1>6, <1>7, <1>8, <1>9 DEF Tool

LEMMA EndTypes ==
  ASSUME TypeOK, NEW t \in Turns, Verify(t) \/ Carry(t) \/ Leave(t) \/ Die(t)
  PROVE  TypeOK'
<1>1. ASSUME Forget(t), UNCHANGED <<row, memo, tools, overlapped>>, free' \subseteq Turns,
             FaultTypes', ledger' \in [Turns -> SUBSET Owed],
             waivers' \in [Turns -> SUBSET (Owed \X Scopes)],
             pc' = [pc EXCEPT ![t] = "carry"] \/ pc' = [pc EXCEPT ![t] = "dropped"]
      PROVE  TypeOK'
  <2>1. RowTypes' /\ AdmissionTypes' /\ LoopTypes' /\ WriteTypes' /\ LedgerTypes'
    BY <1>1, ForgetStep, TypeParts DEF RowTypes, LedgerTypes
  <2>2. PcTypes' /\ pc'[t] \in {"carry", "dropped"} /\ \A u \in Turns \ {t} : pc'[u] = pc[u]
    BY <1>1, TypeParts DEF PcTypes, Labels, Over
  <2>3. CountTypes' /\ PastTypes'
    BY <1>1, ForgetStep, TypeParts DEF CountTypes, PastTypes
  <2>4. Places'
    BY <1>1, <2>2, ForgetStep, TypeParts DEF Places
  <2> QED
    BY <1>1, <2>1, <2>2, <2>3, <2>4, TypePartsNext
<1>2. /\ [ledger EXCEPT ![t] = {}] \in [Turns -> SUBSET Owed]
      /\ [waivers EXCEPT ![t] = {}] \in [Turns -> SUBSET (Owed \X Scopes)]
      /\ free \ {t} \subseteq Turns /\ free \subseteq Turns
  BY TypeParts DEF LedgerTypes, PastTypes
<1>3. CASE Verify(t)
  <2>1. Mine(t, Retro) \subseteq Owed
    BY DEF Mine, Owed
  <2>2. ledger' \in [Turns -> SUBSET Owed]
    BY <1>3, <2>1, TypeParts DEF Verify, LedgerTypes
  <2>3. waivers' \in [Turns -> SUBSET (Owed \X Scopes)] /\ FaultTypes'
    BY <1>3, TypeParts DEF Verify, LedgerTypes, FaultTypes
  <2>4. Forget(t) /\ UNCHANGED <<row, memo, tools, overlapped>> /\ free' \subseteq Turns
          /\ pc' = [pc EXCEPT ![t] = "carry"]
    BY <1>2, <1>3 DEF Verify, Jump
  <2> QED
    BY <1>1, <2>2, <2>3, <2>4
<1>4. CASE Carry(t)
  <2>1. Blocking(t) \subseteq Owed
    BY TypeParts DEF Blocking, LedgerTypes
  <2>2. LedgerTypes' /\ memo' \subseteq Owed
    BY <1>4, <2>1, TypeParts DEF Carry, LedgerTypes, PastTypes
  <2>3. PastTypes'
    BY <1>4, <2>2, TypeParts DEF Carry, PastTypes
  <2>4. FaultTypes'
    BY <1>4, FaultStep, TypeParts DEF Carry, Statements
  <2>5. LoopTypes'
    BY <1>4, TypeParts, Zenon DEF Carry, LoopTypes
  <2>6. RowTypes' /\ AdmissionTypes' /\ WriteTypes' /\ CountTypes'
    BY <1>4, TypeParts DEF Carry, RowTypes, AdmissionTypes, WriteTypes, CountTypes, admission
  <2>7. PcTypes' /\ Places'
    BY <1>4, TypeParts DEF Carry, Jump, PcTypes, Labels, Over, Places, AdmissionTypes, admission
  <2> QED
    BY <2>2, <2>3, <2>4, <2>5, <2>6, <2>7, TypePartsNext
<1>5. CASE Leave(t)
  <2>1. FaultTypes'
    BY <1>5, TypeParts DEF Leave, FaultTypes
  <2>2. /\ Forget(t) /\ UNCHANGED <<row, memo, tools, overlapped, free>>
        /\ pc' = [pc EXCEPT ![t] = "dropped"]
        /\ ledger' = [ledger EXCEPT ![t] = {}] /\ waivers' = [waivers EXCEPT ![t] = {}]
    BY <1>5 DEF Leave, Jump
  <2> QED
    BY <1>1, <1>2, <2>1, <2>2
<1>6. CASE Die(t)
  <2>1. FaultTypes'
    BY <1>6, BoundsAssumption, TypeParts DEF Die, FaultTypes
  <2>2. /\ Forget(t) /\ UNCHANGED <<row, memo, tools, overlapped, free>>
        /\ pc' = [pc EXCEPT ![t] = "dropped"]
        /\ ledger' = [ledger EXCEPT ![t] = {}] /\ waivers' = [waivers EXCEPT ![t] = {}]
    BY <1>6 DEF Die
  <2> QED
    BY <1>1, <1>2, <2>1, <2>2
<1> QED
  BY <1>3, <1>4, <1>5, <1>6

LEMMA StutterTypes == TypeOK /\ UNCHANGED vars => TypeOK'
<1> SUFFICES ASSUME TypeOK, UNCHANGED vars PROVE TypeOK'
  OBVIOUS
<1>1. RowTypes' /\ PcTypes' /\ AdmissionTypes' /\ LedgerTypes' /\ CountTypes' /\ WriteTypes'
  BY TypeParts DEF vars, admission, memory, past, RowTypes, PcTypes, AdmissionTypes, LedgerTypes,
                   CountTypes, WriteTypes
<1>2. FaultTypes' /\ PastTypes' /\ Places'
  BY TypeParts DEF vars, admission, memory, past, FaultTypes, PastTypes, Places
<1>3. LoopTypes'
  BY TypeParts, Zenon DEF vars, memory, LoopTypes
<1> QED
  BY <1>1, <1>2, <1>3, TypePartsNext

LEMMA StepTypes == TypeOK /\ [Next]_vars => TypeOK'
<1>1. ASSUME TypeOK, NEW t \in Turns, Step(t) PROVE TypeOK'
  BY <1>1, HeadTypes, AdmissionStepTypes, LoopStepTypes, ToolTypes, EndTypes DEF Step
<1> QED
  BY <1>1, StutterTypes DEF Next

\* Every reachable state is well typed, for any catalog, turns and faults; in particular a turn is
\* between two queries of an admission only while something has fired.
THEOREM TypeCorrect == Spec => []TypeOK
<1> QED
  BY InitTypes, StepTypes, PTL DEF Spec


-----------------------------------------------------------------------------
\* A step of one turn, seen from another

\* What one turn does leaves what another holds in memory alone; only rows reopened are noted there.
LEMMA Elsewhere ==
  ASSUME TypeOK, NEW t \in Turns, Step(t), NEW u \in Turns, u # t
  PROVE  /\ pc'[u] = pc[u] /\ event'[u] = event[u] /\ cand'[u] = cand[u] /\ held'[u] = held[u]
         /\ pending'[u] = pending[u] /\ ledger'[u] = ledger[u] /\ waivers'[u] = waivers[u]
         /\ write'[u] = write[u] /\ knew'[u] = knew[u]
         /\ reopened[u] \subseteq reopened'[u]
         /\ u \in free' <=> u \in free
<1>0. /\ pc \in [Turns -> Labels] /\ event \in [Turns -> Events] /\ held \in [Turns -> SUBSET Keys]
      /\ cand \in [Turns -> SUBSET Hooks] /\ pending \in [Turns -> SUBSET Dues]
      /\ ledger \in [Turns -> SUBSET Owed] /\ waivers \in [Turns -> SUBSET (Owed \X Scopes)]
      /\ write \in [Turns -> Writes] /\ knew \in [Turns -> SUBSET Dues]
      /\ reopened \in [Turns -> SUBSET Dues]
  BY TypeParts DEF PcTypes, AdmissionTypes, LedgerTypes, WriteTypes, PastTypes
<1>1. CASE Begin(t)
  BY <1>0, <1>1 DEF Begin, Jump, admission, memory
<1>2. CASE StartHooks(t) \/ Stimulus(t)
  BY <1>0, <1>2 DEF StartHooks, Stimulus, Ask, admission, memory
<1>3. CASE ListWaived(t) \/ ListResolved(t)
  BY <1>0, <1>3 DEF ListWaived, ListResolved, Jump, EndAdmission, admission, memory
<1>4. CASE Insert(t)
  BY <1>0, <1>4 DEF Insert, EndAdmission
<1>5. CASE Load(t)
  BY <1>0, <1>5 DEF Load, Jump, admission
<1>6. CASE Loop(t)
  BY <1>0, <1>6 DEF Loop, Round, NextRound, Narrate, Forced, Jump, admission, memory, past
<1>7. CASE Look(t) \/ RollFails(t) \/ ApplyEffect(t)
  BY <1>0, <1>7 DEF Look, RollFails, ApplyEffect, admission, past
<1>8. ASSUME NEW dues, NEW s, Writing(t, dues, s) PROVE pc'[u] = pc[u] /\ write'[u] = write[u]
  BY <1>0, <1>8 DEF Writing
<1>w. CASE Waive(t)
  <2>1. pc'[u] = pc[u] /\ write'[u] = write[u]
    BY <1>8, <1>w DEF Waive
  <2> QED
    BY <1>0, <1>w, <2>1 DEF Waive, admission
<1>r. CASE Roll(t)
  <2>1. pc'[u] = pc[u] /\ write'[u] = write[u]
    BY <1>8, <1>r DEF Roll
  <2> QED
    BY <1>0, <1>r, <2>1 DEF Roll, admission
<1>9. CASE WriteRows(t)
  BY <1>0, <1>9 DEF WriteRows, Jump, admission
<1>10. CASE Navigate(t)
  BY <1>0, <1>10 DEF Navigate, ReopenRows, Ask, admission
<1>11. CASE AdvanceTime(t)
  BY <1>0, <1>11 DEF AdvanceTime, Ask, admission
<1>12. CASE Verify(t) \/ Leave(t) \/ Die(t)
  BY <1>0, <1>12 DEF Verify, Leave, Die, Forget, Jump
<1>13. CASE Carry(t)
  BY <1>0, <1>13 DEF Carry, Jump, admission, past
<1> QED
  BY <1>1, <1>2, <1>3, <1>4, <1>5, <1>6, <1>7, <1>w, <1>r, <1>9, <1>10, <1>11,
     <1>12, <1>13 DEF Step, Tool

\* ... and whether the other has called a tool, or is held back.
LEMMA ElsewhereLoop ==
  ASSUME TypeOK, NEW t \in Turns, Step(t), NEW u \in Turns, u # t
  PROVE  called'[u] = called[u] /\ blocked'[u] = blocked[u]
<1>0. called \in [Turns -> BOOLEAN] /\ blocked \in [Turns -> BOOLEAN]
  BY TypeParts, Zenon DEF LoopTypes
<1>1. \/ UNCHANGED <<called, blocked>>
      \/ called' = [called EXCEPT ![t] = FALSE]
           /\ blocked' = [blocked EXCEPT ![t] = \E o \in Accounted(t) : ~Waived(t, o)]
      \/ called' = [called EXCEPT ![t] = TRUE] /\ UNCHANGED blocked
      \/ called' = [called EXCEPT ![t] = FALSE] /\ blocked' = [blocked EXCEPT ![t] = FALSE]
  <2>1. CASE Begin(t) \/ StartHooks(t) \/ Stimulus(t) \/ ListWaived(t) \/ ListResolved(t)
               \/ Insert(t) \/ Load(t) \/ Carry(t)
    BY <2>1, Zenon DEF Begin, StartHooks, Stimulus, ListWaived, ListResolved, Insert, Load, Carry,
                       memory
  <2>2. CASE Loop(t)
    BY <2>2, Zenon DEF Loop, Round, NextRound, Narrate, Forced, memory
  <2>3. CASE Tool(t)
    BY <2>3, Zenon DEF Tool, Look, Waive, Roll, RollFails, ApplyEffect, WriteRows, Navigate,
                       AdvanceTime, Change, Call
  <2>4. CASE Verify(t) \/ Leave(t) \/ Die(t)
    BY <2>4, Zenon DEF Verify, Leave, Die, Forget
  <2> QED
    BY <2>1, <2>2, <2>3, <2>4 DEF Step
<1> QED
  BY <1>0, <1>1, Zenon

-----------------------------------------------------------------------------
(***************************************************************************)
(* Narrations that are not forced.  What was open when a turn loaded its   *)
(* debts is, as long as it stays open, in the ledger, unwaived, or about   *)
(* to be written: a round that lets its text through has seen none of it.  *)
(***************************************************************************)

Admitting == {"waived", "resolved", "insert"}
Live      == Admitting \cup {"round", "tools", "write", "verify"}

\* Before the turn has loaded its debts
Head(t) == \/ pc[t] \in {"idle", "start", "stimulus", "load"}
           \/ pc[t] \in Admitting /\ event[t] \in {"turn_start", "stimulus"}
\* No statement has failed that hides a row or leaves one as it was
Good == failed \cap {"load", "write"} = {}

Fresh(t) ==
    /\ Head(t) => knew[t] = {} /\ ledger[t] = {} /\ waivers[t] = {}
    /\ pc[t] = "idle" => pending[t] = {}
    /\ pc[t] \in {"carry", "done", "dropped"} => knew[t] = {}
NotYet(t) == pc[t] \in Admitting => \A h \in cand[t] : row[<<t, h>>] = "none"
Known(t)  == \A d \in knew[t] : row[d] # "none"
Calling(t) ==
    pc[t] = "write" \/ (pc[t] \in Admitting /\ ~Head(t)) => called[t] = TRUE
Clear(t) ==
    pc[t] = "tools" /\ called[t] = FALSE /\ blocked[t] = FALSE => Blocking(t) = {}
Freed(t) ==
    t \in free => pc[t] \in {"verify", "dropped"} /\ (pc[t] = "verify" => Blocking(t) = {})
Kept(t) ==
    \A d \in knew[t] : row[d] = "open" /\ d \notin reopened[t]
                         => d \in write[t].rows \/ d \in Blocking(t)

HandledInv ==
    \A t \in Turns : /\ Fresh(t) /\ NotYet(t) /\ Known(t) /\ Calling(t) /\ Clear(t) /\ Freed(t)
                     /\ Good => Kept(t)

\* How a step changes the rows: none disappears, one that appears is the turn's own, and one that
\* is open again is noted by every turn that has loaded its debts.
LEMMA RowStep ==
  ASSUME TypeOK, NEW t \in Turns, NotYet(t), Step(t)
  PROVE  \A d \in Dues :
           /\ row[d] # "none" => row'[d] # "none"
           /\ d[1] # t /\ row[d] = "none" => row'[d] = "none"
           /\ row'[d] = "open" /\ row[d] # "open" =>
                row[d] = "none" \/ \A u \in Turns : pc[u] \in Live => d \in reopened'[u]
           /\ row[d] = "resolved" /\ row'[d] # "resolved" =>
                pc[t] = "write" /\ write[t].as \in Scopes /\ d \in write[t].rows
           /\ row'[d] = "resolved" /\ row[d] # "resolved" =>
                pc[t] = "write" /\ write[t].as = "resolved" /\ d \in write[t].rows
<1>0. row \in [Dues -> Marks_] /\ write[t].as \in {"resolved"} \cup Scopes
        /\ reopened \in [Turns -> SUBSET Dues]
  BY TypeParts DEF RowTypes, WriteTypes, Writes, PastTypes
<1>1. CASE row' = row
  BY <1>0, <1>1
<1>2. CASE Insert(t)
  <2>1. \A d \in Admitted(t) : d[1] = t /\ row[d] = "none"
    BY <1>2 DEF Insert, Admitted, NotYet, Admitting
  <2>2. \A d \in Dues : row'[d] = row[d] \/ (d \in Admitted(t) /\ row'[d] = "open")
    BY <1>0, <1>2 DEF Insert
  <2> QED
    BY <2>1, <2>2
<1>3. CASE Cross(t)
  <2>1. CASE row' = row
    BY <1>1, <2>1
  <2>2. CASE row[<<t, Crossing>>] = "none" /\ row' = [row EXCEPT ![<<t, Crossing>>] = "open"]
    BY <1>0, <2>2
  <2> QED
    BY <1>3, <2>1, <2>2 DEF Cross
<1>4. CASE WriteRows(t)
  <2>1. \A d \in Dues : \/ row'[d] = row[d]
                        \/ d \in write[t].rows /\ row[d] # "none" /\ row'[d] = write[t].as
    BY <1>0, <1>4 DEF WriteRows
  <2>2. pc[t] = "write"
    BY <1>4 DEF WriteRows, Jump
  <2> QED
    BY <1>0, <2>1, <2>2 DEF Scopes
<1>5. CASE ReopenRows(Reopening)
  <2>1. \A d \in Dues : row'[d] = row[d] \/ (d \in Reopening /\ row'[d] = "open")
    BY <1>0, <1>5 DEF ReopenRows
  <2>2. \A u \in Turns : pc[u] \in Live => Reopening \subseteq reopened'[u]
    BY <1>0, <1>5 DEF ReopenRows, Live, Admitting
  <2>3. \A d \in Reopening : row[d] = "scene"
    BY DEF Reopening
  <2> QED
    BY <2>1, <2>2, <2>3
<1>6. \/ row' = row \/ Insert(t) \/ Cross(t) \/ WriteRows(t) \/ ReopenRows(Reopening)
  BY DEF Step, Begin, StartHooks, Stimulus, ListWaived, ListResolved, Load, Loop, Round, NextRound,
         Narrate, Forced, Tool, Look, Waive, Roll, RollFails, ApplyEffect, Navigate, AdvanceTime,
         Verify, Carry, Leave, Die
<1> QED
  BY <1>1, <1>2, <1>3, <1>4, <1>5, <1>6

LEMMA GoodBefore ==
  ASSUME NEW t \in Turns, Step(t), Good'
  PROVE  Good
<1>1. failed \subseteq failed'
  BY DEF Step, Begin, StartHooks, Stimulus, Ask, ListWaived, ListResolved, Insert, Load, Loop, Round,
         NextRound, Narrate, Forced, Tool, Look, Waive, Roll, Cross, RollFails, ApplyEffect,
         WriteRows, Navigate, AdvanceTime, Verify, Carry, Leave, Die, Fault, NoFault, past
<1> QED
  BY <1>1 DEF Good

\* The other turns.
LEMMA HandledElsewhere ==
  ASSUME TypeOK, HandledInv, NEW t \in Turns, Step(t), NEW u \in Turns, u # t
  PROVE  /\ Fresh(u)' /\ NotYet(u)' /\ Known(u)' /\ Calling(u)' /\ Clear(u)' /\ Freed(u)'
         /\ Good' => Kept(u)'
<1>0. /\ Fresh(u) /\ NotYet(u) /\ Known(u) /\ Calling(u) /\ Clear(u) /\ Freed(u) /\ NotYet(t)
      /\ Good => Kept(u)
  BY DEF HandledInv
<1>1. /\ pc'[u] = pc[u] /\ event'[u] = event[u] /\ cand'[u] = cand[u]
      /\ pending'[u] = pending[u] /\ ledger'[u] = ledger[u] /\ waivers'[u] = waivers[u]
      /\ write'[u] = write[u] /\ knew'[u] = knew[u] /\ reopened[u] \subseteq reopened'[u]
      /\ u \in free' <=> u \in free
  BY Elsewhere
<1>2. called'[u] = called[u] /\ blocked'[u] = blocked[u]
  BY ElsewhereLoop
<1>3. knew[u] \subseteq Dues /\ cand[u] \subseteq Hooks
  BY TypeParts DEF PastTypes, AdmissionTypes
<1>4. Blocking(u)' = Blocking(u)
  BY <1>1 DEF Blocking, Waived
<1>5. Head(u)' <=> Head(u)
  BY <1>1 DEF Head
<1>6. Fresh(u)'
  BY <1>0, <1>1, <1>5 DEF Fresh
<1>7. NotYet(u)'
  <2>1. \A h \in Hooks : <<u, h>> \in Dues /\ <<u, h>>[1] # t
    BY DEF Dues
  <2> QED
    BY <1>0, <1>1, <1>3, <2>1, RowStep DEF NotYet
<1>8. Known(u)'
  BY <1>0, <1>1, <1>3, RowStep DEF Known
<1>9. Calling(u)'
  BY <1>0, <1>1, <1>2, <1>5, Zenon DEF Calling
<1>10. Clear(u)'
  BY <1>0, <1>1, <1>2, <1>4, Zenon DEF Clear
<1>11. Freed(u)'
  BY <1>0, <1>1, <1>4 DEF Freed
<1>12. ASSUME Good' PROVE Kept(u)'
  <2>1. Kept(u)
    BY <1>0, <1>12, GoodBefore
  <2>2. SUFFICES ASSUME NEW d \in knew[u], row'[d] = "open", d \notin reopened'[u]
                 PROVE  d \in write[u].rows \/ d \in Blocking(u)
    BY <1>1, <1>4 DEF Kept
  <2>3. CASE row[d] = "open"
    BY <1>1, <2>1, <2>2, <2>3 DEF Kept
  <2>4. CASE row[d] # "open"
    <3>1. row[d] # "none" /\ d \in Dues
      BY <1>0, <1>3 DEF Known
    <3>2. pc[u] \notin Live
      BY <1>0, <2>2, <2>4, <3>1, RowStep
    <3>3. knew[u] = {}
      BY <1>0, <3>2, TypeParts DEF Fresh, Head, Live, Admitting, PcTypes, Labels, Over
    <3> QED
      BY <3>3
  <2> QED
    BY <2>3, <2>4
<1> QED
  BY <1>6, <1>7, <1>8, <1>9, <1>10, <1>11, <1>12

\* What the turn itself keeps when it neither begins nor ends anything that the invariant is about.
LEMMA KnownHere ==
  ASSUME TypeOK, NEW t \in Turns, NotYet(t), Known(t), Step(t), knew'[t] \subseteq knew[t]
  PROVE  Known(t)'
<1>1. knew[t] \subseteq Dues
  BY TypeParts DEF PastTypes
<1> QED
  BY <1>1, RowStep DEF Known

LEMMA KeptHere ==
  ASSUME TypeOK, NEW t \in Turns, NotYet(t), Known(t), Kept(t), Step(t),
         knew'[t] = knew[t], reopened[t] \subseteq reopened'[t], pc[t] \in Live,
         \A d \in knew[t] : d \in write[t].rows \/ d \in Blocking(t)
                              => \/ d \in write'[t].rows \/ d \in Blocking(t)'
                                 \/ row'[d] # "open"
  PROVE  Kept(t)'
<1>1. knew[t] \subseteq Dues
  BY TypeParts DEF PastTypes
<1>2. SUFFICES ASSUME NEW d \in knew[t], row'[d] = "open", d \notin reopened'[t]
               PROVE  d \in write'[t].rows \/ d \in Blocking(t)'
  BY DEF Kept
<1>3. row[d] = "open"
  BY <1>1, <1>2, RowStep DEF Known
<1>4. d \in write[t].rows \/ d \in Blocking(t)
  BY <1>2, <1>3 DEF Kept
<1> QED
  BY <1>2, <1>4

Handled(t) ==
    /\ Fresh(t) /\ NotYet(t) /\ Known(t) /\ Calling(t) /\ Clear(t) /\ Freed(t)
    /\ Good => Kept(t)

LEMMA HandledHead ==
  ASSUME TypeOK, NEW t \in Turns, Handled(t), Begin(t) \/ StartHooks(t) \/ Stimulus(t) \/ Load(t)
  PROVE  Handled(t)'
<1>0. /\ pc \in [Turns -> Labels] /\ event \in [Turns -> Events]
      /\ cand \in [Turns -> SUBSET Hooks] /\ ledger \in [Turns -> SUBSET Owed]
      /\ knew \in [Turns -> SUBSET Dues] /\ reopened \in [Turns -> SUBSET Dues]
      /\ pending \in [Turns -> SUBSET Dues] /\ row \in [Dues -> Marks_]
  BY TypeParts DEF PcTypes, AdmissionTypes, LedgerTypes, PastTypes, RowTypes
<1>1. CASE Begin(t)
  <2>1. pc[t] = "idle" /\ pc'[t] = "start" /\ UNCHANGED <<row, knew, ledger, waivers, free>>
    BY <1>0, <1>1 DEF Begin, Jump, memory
  <2>2. Fresh(t)' /\ knew'[t] = {}
    BY <2>1 DEF Handled, Fresh, Head
  <2>3. t \notin free
    BY <2>1 DEF Handled, Freed
  <2> QED
    BY <2>1, <2>2, <2>3 DEF Handled, NotYet, Known, Calling, Clear, Freed, Kept, Admitting
<1>2. ASSUME NEW e \in {"turn_start", "stimulus"}, NEW fired \in SUBSET Fired(t, e),
             Ask(t, e, fired, Open), pc[t] \in {"start", "stimulus"},
             UNCHANGED <<row, memory, memo, tools, knew, reopened, free, overlapped>>
      PROVE  Handled(t)'
  <2>1. /\ pc'[t] = "waived" /\ event'[t] = e /\ cand'[t] = fired
        \/ pc'[t] \in {"stimulus", "load"}
    BY <1>0, <1>2 DEF Ask, After
  <2>2. /\ UNCHANGED <<row, knew, ledger, waivers, free>>
    BY <1>2 DEF memory
  <2>3. Fresh(t)' /\ knew'[t] = {} /\ Head(t)'
    BY <1>2, <2>1, <2>2 DEF Handled, Fresh, Head, Admitting
  <2>4. NotYet(t)'
    BY <2>1, <2>2 DEF NotYet, Fired, Admitting
  <2>5. t \notin free /\ pc'[t] \notin {"write", "tools"}
    BY <1>2, <2>1 DEF Handled, Freed
  <2> QED
    BY <2>2, <2>3, <2>4, <2>5 DEF Handled, Known, Calling, Clear, Freed, Kept
<1>3. CASE StartHooks(t)
  <2>1. Fired(t, "turn_start") \in SUBSET Fired(t, "turn_start")
    OBVIOUS
  <2> QED
    BY <1>2, <1>3, <2>1 DEF StartHooks
<1>4. CASE Stimulus(t)
  BY <1>2, <1>4 DEF Stimulus
<1>5. CASE Load(t)
  <2>1. /\ pc[t] = "load" /\ pc'[t] = "round" /\ UNCHANGED <<row, waivers, free>>
        /\ knew'[t] = Open
    BY <1>0, <1>5 DEF Load, Jump
  <2>2. Fresh(t)' /\ waivers'[t] = {}
    BY <2>1 DEF Handled, Fresh, Head, Admitting
  <2>3. Known(t)'
    BY <2>1 DEF Known, Open
  <2>4. t \notin free
    BY <2>1 DEF Handled, Freed
  <2>5. ASSUME Good' PROVE Kept(t)'
    <3>1. ledger'[t] = Open \cup pending[t]
      BY <1>0, <1>5, <2>5 DEF Load, Good, Fault
    <3>2. Open \subseteq Blocking(t)'
      BY <2>2, <3>1 DEF Blocking, Waived
    <3> QED
      BY <2>1, <3>2 DEF Kept
  <2> QED
    BY <2>1, <2>2, <2>3, <2>4, <2>5 DEF Handled, NotYet, Calling, Clear, Freed, Admitting
<1> QED
  BY <1>1, <1>3, <1>4, <1>5

LEMMA HandledAdmission ==
  ASSUME TypeOK, NEW t \in Turns, Handled(t), ListWaived(t) \/ ListResolved(t) \/ Insert(t), Step(t)
  PROVE  Handled(t)'
<1>0. /\ pc \in [Turns -> Labels] /\ event \in [Turns -> Events]
      /\ cand \in [Turns -> SUBSET Hooks] /\ called \in [Turns -> BOOLEAN]
  BY TypeParts DEF PcTypes, AdmissionTypes, LoopTypes
<1>1. /\ pc[t] \in Admitting
      /\ UNCHANGED <<ledger, waivers, called, blocked, write, knew, reopened, free>>
  BY DEF ListWaived, ListResolved, Insert, memory, Admitting
<1>2. \/ /\ pc'[t] \in Admitting /\ event'[t] = event[t] /\ cand'[t] = cand[t] /\ row' = row
      \/ pc'[t] = After(event[t])
  BY <1>0 DEF ListWaived, ListResolved, Insert, EndAdmission, Jump, admission, Admitting
<1>3. t \notin free
  BY <1>1 DEF Handled, Freed, Admitting
<1>4. Known(t)'
  BY <1>1, KnownHere DEF Handled
<1>5. ASSUME Good' PROVE Kept(t)'
  <2>1. Blocking(t)' = Blocking(t)
    BY <1>1 DEF Blocking, Waived
  <2> QED
    BY <1>1, <1>5, <2>1, KeptHere, GoodBefore DEF Handled, Live
<1>6. CASE Head(t)
  <2>1. /\ knew'[t] = {} /\ ledger'[t] = {} /\ waivers'[t] = {}
        /\ event[t] \in {"turn_start", "stimulus"}
    BY <1>1, <1>6 DEF Handled, Fresh, Head, Admitting
  <2>2. /\ pc'[t] \in Admitting /\ event'[t] = event[t] /\ cand'[t] = cand[t] /\ row' = row
        \/ pc'[t] \in {"stimulus", "load"}
    BY <1>2, <2>1 DEF After
  <2>3. Fresh(t)' /\ Head(t)' /\ NotYet(t)' /\ pc'[t] \notin {"write", "tools"}
    BY <1>1, <2>1, <2>2 DEF Handled, Fresh, Head, NotYet, Admitting
  <2> QED
    BY <1>1, <1>3, <1>4, <1>5, <2>3 DEF Handled, Calling, Clear, Freed
<1>7. CASE ~Head(t)
  <2>1. event[t] \in {"scene_enter", "time_advance"}
    BY <1>0, <1>1, <1>7 DEF Head, Events
  <2>2. called[t] = TRUE
    BY <1>1, <1>7, Zenon DEF Handled, Calling
  <2>3. called'[t] = TRUE
    BY <1>1, <2>2, Zenon
  <2>4. /\ pc'[t] \in Admitting /\ event'[t] = event[t] /\ cand'[t] = cand[t] /\ row' = row
        \/ pc'[t] = "tools"
    BY <1>2, <2>1 DEF After
  <2>5. Fresh(t)' /\ NotYet(t)'
    BY <1>1, <2>1, <2>4 DEF Handled, Fresh, Head, NotYet, Admitting
  <2>6. Calling(t)' /\ Clear(t)'
    BY <2>3, Zenon DEF Calling, Clear
  <2> QED
    BY <1>1, <1>3, <1>4, <1>5, <2>5, <2>6 DEF Handled, Freed
<1> QED
  BY <1>6, <1>7

LEMMA HandledLoop ==
  ASSUME TypeOK, NEW t \in Turns, Handled(t), Loop(t), Step(t)
  PROVE  Handled(t)'
<1>0. /\ pc \in [Turns -> Labels] /\ ledger \in [Turns -> SUBSET Owed]
  BY TypeParts DEF PcTypes, LedgerTypes
<1>b. called \in [Turns -> BOOLEAN] /\ blocked \in [Turns -> BOOLEAN]
  BY TypeParts, Zenon DEF LoopTypes
<1>1. /\ pc[t] \in {"round", "tools"} /\ pc'[t] \in {"round", "tools", "verify"}
      /\ UNCHANGED <<waivers, write, knew, reopened, row>>
  BY <1>0 DEF Loop, Round, NextRound, Narrate, Forced, Jump, memory, past
<1>2. Fresh(t)' /\ NotYet(t)' /\ ~Head(t)' /\ t \notin free
  BY <1>1 DEF Handled, Fresh, NotYet, Head, Admitting, Freed
<1>3. Known(t)'
  BY <1>1, KnownHere DEF Handled
<1>4. Calling(t)'
  BY <1>1 DEF Calling, Admitting
<1>5. ledger[t] \cap Dues \subseteq ledger'[t]
  <2>1. CASE Round(t)
    <3>1. ledger'[t] = Accounted(t)
      BY <1>0, <2>1 DEF Round
    <3>2. <<t, Check>> \notin Dues /\ <<t, Cluster>> \notin Dues
      BY CatalogAssumption DEF Dues
    <3> QED
      BY <3>1, <3>2 DEF Accounted
  <2>2. CASE ~Round(t)
    BY <2>2 DEF Loop, NextRound, Narrate, Forced, memory
  <2> QED
    BY <2>1, <2>2
<1>6. ASSUME Good' PROVE Kept(t)'
  <2>1. knew[t] \subseteq Dues
    BY TypeParts DEF PastTypes
  <2>2. \A d \in knew[t] : d \in Blocking(t) => d \in Blocking(t)'
    BY <1>1, <1>5, <2>1 DEF Blocking, Waived
  <2> QED
    BY <1>1, <1>6, <2>2, KeptHere, GoodBefore DEF Handled, Live
<1>7. CASE Round(t)
  <2>1. /\ called' = [called EXCEPT ![t] = FALSE]
        /\ blocked' = [blocked EXCEPT ![t] = \E o \in Accounted(t) : ~Waived(t, o)]
    BY <1>7, Zenon DEF Round
  <2>2. blocked'[t] = FALSE => \A o \in Accounted(t) : Waived(t, o)
    BY <1>b, <2>1, Zenon
  <2>3. ledger'[t] = Accounted(t) /\ UNCHANGED free
    BY <1>0, <1>7 DEF Round, past
  <2>4. blocked'[t] = FALSE => Blocking(t)' = {}
    BY <1>1, <2>2, <2>3 DEF Blocking, Waived
  <2>5. Clear(t)'
    BY <2>4, Zenon DEF Clear
  <2> QED
    BY <1>2, <1>3, <1>4, <1>6, <2>3, <2>5 DEF Handled, Freed
<1>8. CASE NextRound(t) \/ Forced(t)
  <2>1. pc'[t] # "tools" /\ UNCHANGED free
    BY <1>0, <1>8 DEF NextRound, Forced, Jump, past
  <2> QED
    BY <1>2, <1>3, <1>4, <1>6, <2>1 DEF Handled, Freed, Clear
<1>9. CASE Narrate(t)
  <2>1. pc[t] = "tools" /\ pc'[t] = "verify" /\ UNCHANGED ledger
    BY <1>0, <1>9 DEF Narrate, Jump, memory
  <2>2. called[t] = FALSE /\ blocked[t] = FALSE
    BY <1>b, <1>9, Zenon DEF Narrate
  <2>3. Blocking(t) = {}
    BY <2>1, <2>2, Zenon DEF Handled, Clear
  <2>4. Blocking(t)' = {}
    BY <1>1, <2>1, <2>3 DEF Blocking, Waived
  <2> QED
    BY <1>2, <1>3, <1>4, <1>6, <2>1, <2>4 DEF Handled, Freed, Clear
<1> QED
  BY <1>7, <1>8, <1>9 DEF Loop

\* After a call the turn is in its tools, or in one of their statements, and has called.
LEMMA HandledCall ==
  ASSUME TypeOK, NEW t \in Turns, Handled(t), Step(t), Call(t),
         UNCHANGED <<knew, free>>, pc'[t] \in {"tools", "write", "waived"},
         pc'[t] = "waived" => /\ event'[t] \in {"scene_enter", "time_advance"}
                              /\ \A h \in cand'[t] : row'[<<t, h>>] = "none",
         reopened[t] \subseteq reopened'[t],
         Good' => \A d \in knew[t] \cap Blocking(t) :
                     d \in write'[t].rows \/ d \in Blocking(t)'
  PROVE  Handled(t)'
<1>1. called \in [Turns -> BOOLEAN]
  BY TypeParts, Zenon DEF LoopTypes
<1>2. called'[t] = TRUE
  BY <1>1, Zenon DEF Call
<1>3. pc[t] = "tools" /\ ~Head(t)' /\ t \notin free /\ write[t].rows = {}
  BY TypeParts DEF Call, Head, Admitting, Handled, Freed, Places
<1>4. Calling(t)' /\ Clear(t)'
  BY <1>2, Zenon DEF Calling, Clear
<1>5. Fresh(t)' /\ NotYet(t)' /\ Freed(t)'
  BY <1>3 DEF Fresh, NotYet, Freed, Admitting
<1>6. Known(t)'
  BY KnownHere DEF Handled
<1>7. ASSUME Good' PROVE Kept(t)'
  BY <1>3, <1>7, KeptHere, GoodBefore DEF Handled, Live
<1> QED
  BY <1>4, <1>5, <1>6, <1>7 DEF Handled

LEMMA HandledTool ==
  ASSUME TypeOK, NEW t \in Turns, Handled(t), Tool(t), Step(t)
  PROVE  Handled(t)'
<1>0. /\ pc \in [Turns -> Labels] /\ event \in [Turns -> Events] /\ cand \in [Turns -> SUBSET Hooks]
      /\ ledger \in [Turns -> SUBSET Owed] /\ waivers \in [Turns -> SUBSET (Owed \X Scopes)]
      /\ write \in [Turns -> Writes] /\ knew \in [Turns -> SUBSET Dues]
      /\ reopened \in [Turns -> SUBSET Dues] /\ row \in [Dues -> Marks_]
  BY TypeParts DEF PcTypes, AdmissionTypes, LedgerTypes, WriteTypes, PastTypes, RowTypes
<1>1. CASE Look(t) \/ RollFails(t) \/ ApplyEffect(t)
  <2>1. /\ Call(t) /\ UNCHANGED <<knew, free, reopened, ledger, waivers, pc>>
    BY <1>1 DEF Look, RollFails, ApplyEffect, Change, past
  <2>2. Blocking(t)' = Blocking(t) /\ pc'[t] = "tools"
    BY <2>1 DEF Blocking, Waived, Call
  <2> QED
    BY <2>1, <2>2, HandledCall
<1>2. CASE Waive(t)
  <2>1. /\ Call(t) /\ UNCHANGED <<knew, free, reopened, ledger>>
    BY <1>2 DEF Waive, Change
  <2>2. PICK o \in Blocking(t), s \in Scopes :
              /\ waivers' = [waivers EXCEPT ![t] = @ \cup {<<o, s>>}]
              /\ Writing(t, {o} \cap Dues, s)
    BY <1>2 DEF Waive
  <2>3. pc'[t] \in {"tools", "write"} /\ write'[t].rows = {o} \cap Dues
    <3>1. pc[t] = "tools" /\ write[t].rows = {}
      BY <2>1, TypeParts DEF Call, Places
    <3>2. CASE {o} \cap Dues = {}
      BY <1>0, <2>2, <3>1, <3>2 DEF Writing
    <3>3. CASE {o} \cap Dues # {}
      <4>1. /\ pc' = [pc EXCEPT ![t] = "write"]
            /\ write' = [write EXCEPT ![t].rows = {o} \cap Dues, ![t].as = s]
        BY <2>2, <3>3 DEF Writing
      <4> QED
        BY <1>0, <4>1 DEF Writes
    <3> QED
      BY <3>2, <3>3
  <2>4. \A d \in Blocking(t) : d # o => d \in Blocking(t)'
    BY <1>0, <2>1, <2>2 DEF Blocking, Waived
  <2>5. \A d \in knew[t] \cap Blocking(t) : d \in write'[t].rows \/ d \in Blocking(t)'
    BY <1>0, <2>3, <2>4
  <2> QED
    BY <2>1, <2>3, <2>5, HandledCall
<1>3. CASE Roll(t)
  <2>1. /\ Call(t) /\ UNCHANGED <<knew, free, reopened, waivers>>
    BY <1>3 DEF Roll, Change
  <2>2. PICK m \in {Mech[h] : h \in Hooks} :
              /\ ledger' = [ledger EXCEPT ![t] = @ \ Of(t, m)]
              /\ Writing(t, Of(t, m) \cap Dues, "resolved")
    BY <1>3 DEF Roll
  <2>3. pc'[t] \in {"tools", "write"} /\ write'[t].rows = Of(t, m) \cap Dues
    <3>1. pc[t] = "tools" /\ write[t].rows = {}
      BY <2>1, TypeParts DEF Call, Places
    <3>2. CASE Of(t, m) \cap Dues = {}
      BY <1>0, <2>2, <3>1, <3>2 DEF Writing
    <3>3. CASE Of(t, m) \cap Dues # {}
      <4>1. /\ pc' = [pc EXCEPT ![t] = "write"]
            /\ write' = [write EXCEPT ![t].rows = Of(t, m) \cap Dues, ![t].as = "resolved"]
        BY <2>2, <3>3 DEF Writing
      <4> QED
        BY <1>0, <4>1 DEF Writes
    <3> QED
      BY <3>2, <3>3
  <2>4. \A d \in Blocking(t) : d \notin Of(t, m) => d \in Blocking(t)'
    BY <1>0, <2>1, <2>2 DEF Blocking, Waived
  <2>5. \A d \in knew[t] \cap Blocking(t) : d \in write'[t].rows \/ d \in Blocking(t)'
    BY <1>0, <2>3, <2>4
  <2> QED
    BY <2>1, <2>3, <2>5, HandledCall
<1>4. CASE WriteRows(t)
  <2>1. /\ pc[t] = "write" /\ pc'[t] = "tools"
        /\ UNCHANGED <<knew, free, reopened, ledger, waivers, called, blocked>>
    BY <1>0, <1>4 DEF WriteRows, Jump
  <2>2. called'[t] = TRUE
    BY <2>1, Zenon DEF Handled, Calling
  <2>3. Clear(t)'
    BY <2>2, Zenon DEF Clear
  <2>4. t \notin free
    BY <2>1 DEF Handled, Freed
  <2>5. Fresh(t)' /\ NotYet(t)' /\ Freed(t)' /\ Calling(t)'
    BY <2>1, <2>4 DEF Fresh, NotYet, Freed, Calling, Head, Admitting
  <2>6. Known(t)'
    BY <2>1, KnownHere DEF Handled
  <2>7. ASSUME Good' PROVE Kept(t)'
    <3>1. row' = [d \in Dues |-> IF d \in write[t].rows /\ row[d] # "none"
                                 THEN write[t].as ELSE row[d]]
      BY <1>4, <2>7 DEF WriteRows, Good, Fault
    <3>2. write[t].as # "open"
      BY <1>0 DEF Writes, Scopes
    <3>3. \A d \in knew[t] : d \in write[t].rows => row'[d] # "open"
      BY <1>0, <3>1, <3>2
    <3>4. Blocking(t)' = Blocking(t)
      BY <2>1 DEF Blocking, Waived
    <3> QED
      BY <2>1, <2>7, <3>3, <3>4, KeptHere, GoodBefore DEF Handled, Live
  <2> QED
    BY <2>3, <2>5, <2>6, <2>7 DEF Handled
<1>5. CASE Navigate(t)
  <2>1. Call(t) /\ UNCHANGED <<knew, free, ledger, write>>
    BY <1>5 DEF Navigate, Change
  <2>2. CASE /\ ReopenRows(Reopening)
             /\ waivers' = [waivers EXCEPT ![t] = {w \in @ : w[2] # "scene"}]
             /\ Ask(t, "scene_enter", Fired(t, "scene_enter"), Open \cup Reopening)
    <3>1. \/ /\ pc'[t] = "waived" /\ event'[t] = "scene_enter"
             /\ cand'[t] = Fired(t, "scene_enter")
          \/ pc'[t] = "tools"
      BY <1>0, <2>2 DEF Ask, After
    <3>2. \A h \in Fired(t, "scene_enter") : row'[<<t, h>>] = "none"
      BY <1>0, <2>2 DEF Fired, ReopenRows, Reopening, Dues
    <3>3. reopened[t] \subseteq reopened'[t]
      BY <1>0, <2>2 DEF ReopenRows
    <3>4. Blocking(t) \subseteq Blocking(t)'
      BY <1>0, <2>1, <2>2 DEF Blocking, Waived
    <3> QED
      BY <2>1, <3>1, <3>2, <3>3, <3>4, HandledCall
  <2>3. CASE Fault("write") /\ UNCHANGED <<row, reopened, waivers, pc, admission>>
    <3>1. Blocking(t)' = Blocking(t) /\ pc'[t] = "tools"
      BY <2>1, <2>3 DEF Blocking, Waived, Call
    <3> QED
      BY <2>1, <2>3, <3>1, HandledCall
  <2> QED
    BY <1>5, <2>2, <2>3 DEF Navigate
<1>6. CASE AdvanceTime(t)
  <2>1. Call(t) /\ UNCHANGED <<knew, free, ledger, waivers, reopened, row>>
    BY <1>6 DEF AdvanceTime, Change
  <2>2. PICK hooks \in SUBSET Fired(t, "time_advance") : Ask(t, "time_advance", hooks, Open)
    BY <1>6 DEF AdvanceTime
  <2>3. \/ pc'[t] = "waived" /\ event'[t] = "time_advance" /\ cand'[t] = hooks
        \/ pc'[t] = "tools"
    BY <1>0, <2>2 DEF Ask, After
  <2>4. \A h \in hooks : row'[<<t, h>>] = "none"
    BY <2>1, <2>2 DEF Fired
  <2>5. Blocking(t)' = Blocking(t)
    BY <2>1 DEF Blocking, Waived
  <2> QED
    BY <2>1, <2>3, <2>4, <2>5, HandledCall
<1> QED
  BY <1>1, <1>2, <1>3, <1>4, <1>5, <1>6 DEF Tool

LEMMA HandledEnd ==
  ASSUME TypeOK, NEW t \in Turns, Handled(t), Verify(t) \/ Carry(t) \/ Leave(t) \/ Die(t), Step(t)
  PROVE  Handled(t)'
<1>0. /\ pc \in [Turns -> Labels] /\ knew \in [Turns -> SUBSET Dues]
  BY TypeParts DEF PcTypes, PastTypes
<1>1. /\ pc'[t] \in {"carry", "done", "dropped"}
      /\ pc'[t] = "dropped" \/ t \notin free'
  BY <1>0 DEF Verify, Carry, Leave, Die, Jump, past, Handled, Freed
<1>2. knew'[t] = {}
  <2>1. CASE Carry(t)
    BY <2>1 DEF Carry, Jump, Handled, Fresh
  <2>2. CASE Verify(t) \/ Leave(t) \/ Die(t)
    BY <1>0, <2>2 DEF Verify, Leave, Die, Forget
  <2> QED
    BY <2>1, <2>2
<1> QED
  BY <1>1, <1>2 DEF Handled, Fresh, NotYet, Known, Calling, Clear, Freed, Kept, Head, Admitting

LEMMA HandledInit == Init => HandledInv
BY DEF Init, HandledInv, Fresh, NotYet, Known, Calling, Clear, Freed, Kept, Head, Admitting

LEMMA HandledStutter == HandledInv /\ UNCHANGED vars => HandledInv'
<1> SUFFICES ASSUME HandledInv, UNCHANGED vars, NEW t \in Turns PROVE Handled(t)'
  BY DEF HandledInv, Handled
<1>1. Handled(t)
  BY DEF HandledInv, Handled
<1>2. UNCHANGED <<row, pc, event, cand, pending, ledger, waivers, write, failed, knew, reopened, free>>
  BY DEF vars, admission, memory, past
<1>3. UNCHANGED <<called, blocked>>
  BY Zenon DEF vars, memory
<1>4. Blocking(t)' = Blocking(t) /\ (Head(t)' <=> Head(t)) /\ (Good' <=> Good)
  BY <1>2 DEF Blocking, Waived, Head, Good
<1>5. Fresh(t)' /\ NotYet(t)' /\ Known(t)' /\ Freed(t)' /\ (Good' => Kept(t)')
  BY <1>1, <1>2, <1>4 DEF Handled, Fresh, NotYet, Known, Freed, Kept
<1>6. Calling(t)' /\ Clear(t)'
  BY <1>1, <1>2, <1>3, <1>4, Zenon DEF Handled, Calling, Clear
<1> QED
  BY <1>5, <1>6 DEF Handled

LEMMA HandledStep == TypeOK /\ HandledInv /\ [Next]_vars => HandledInv'
<1>1. ASSUME TypeOK, HandledInv, NEW t \in Turns, Step(t) PROVE HandledInv'
  <2>1. Handled(t)
    BY <1>1 DEF HandledInv, Handled
  <2>2. Handled(t)'
    BY <1>1, <2>1, HandledHead, HandledAdmission, HandledLoop, HandledTool, HandledEnd DEF Step
  <2>3. \A u \in Turns \ {t} : Handled(u)'
    BY <1>1, HandledElsewhere DEF Handled
  <2> QED
    BY <2>2, <2>3 DEF HandledInv, Handled
<1> QED
  BY <1>1, HandledStutter DEF Next

LEMMA HandledEnough == TypeOK /\ HandledInv => EarlierDuesHandled
<1> SUFFICES ASSUME TypeOK, HandledInv, failed \cap {"load", "write"} = {},
                    NEW t \in free, pc[t] = "verify"
             PROVE  knew[t] \cap Open \subseteq reopened[t]
  BY DEF EarlierDuesHandled
<1>1. t \in Turns /\ write[t].rows = {}
  BY TypeParts DEF PastTypes, Places
<1>2. Kept(t) /\ Blocking(t) = {}
  BY <1>1 DEF HandledInv, Good, Freed
<1> QED
  BY <1>1, <1>2 DEF Kept, Open

\* A turn that narrates of its own accord has dealt with every due that was open when it loaded its
\* debts: it is resolved or waived in the rows, or was reopened since, however many turns overlap
\* and whatever else fails, as long as rows can be read and written.
THEOREM HandledBeforeNarration == Spec => []EarlierDuesHandled
<1>1. TypeOK /\ HandledInv /\ [Next]_vars => HandledInv'
  BY HandledStep
<1>2. TypeOK /\ HandledInv => EarlierDuesHandled
  BY HandledEnough
<1> QED
  BY <1>1, <1>2, HandledInit, TypeCorrect, PTL DEF Spec

-----------------------------------------------------------------------------
\* What is left is told

LEMMA CarryStep == TypeOK /\ CarriedOver /\ [Next]_vars => CarriedOver'
<1>1. ASSUME TypeOK, CarriedOver, NEW t \in Turns, Step(t) PROVE CarriedOver'
  <2>0. /\ pc \in [Turns -> Labels] /\ ledger \in [Turns -> SUBSET Owed]
        /\ waivers \in [Turns -> SUBSET (Owed \X Scopes)]
    BY <1>1, TypeParts DEF PcTypes, LedgerTypes
  <2>1. failed \subseteq failed'
    BY <1>1 DEF Step, Begin, StartHooks, Stimulus, Ask, ListWaived, ListResolved, Insert, Load, Loop,
         Round, NextRound, Narrate, Forced, Tool, Look, Waive, Roll, Cross, RollFails, ApplyEffect,
         WriteRows, Navigate, AdvanceTime, Verify, Carry, Leave, Die, Fault, NoFault, past
  <2>2. memo \subseteq memo'
    BY <1>1 DEF Step, Begin, StartHooks, Stimulus, ListWaived, ListResolved, Insert, Load, Loop,
         Round, NextRound, Narrate, Forced, Tool, Look, Waive, Roll, RollFails, ApplyEffect,
         WriteRows, Navigate, AdvanceTime, Verify, Carry, Leave, Die, past
  <2>3. \A u \in Turns \ {t} : pc'[u] = pc[u] /\ Blocking(u)' = Blocking(u)
    BY <1>1, Elsewhere DEF Blocking, Waived
  <2>4. ASSUME "carry" \notin failed', pc'[t] = "done" PROVE Blocking(t)' \subseteq memo'
    <3>1. CASE Carry(t)
      <4>1. memo' = memo \cup Blocking(t)
        BY <2>4, <3>1 DEF Carry, Fault
      <4>2. ledger'[t] = Blocking(t)
        BY <2>0, <3>1 DEF Carry
      <4> QED
        BY <4>1, <4>2 DEF Blocking
    <3>2. CASE ~Carry(t)
      <4>1. pc'[t] # "done" \/ pc[t] = "done"
        BY <1>1, <2>0, <3>2 DEF Step, Begin, StartHooks, Stimulus, Ask, After, ListWaived,
           ListResolved, Insert, EndAdmission, Load, Loop, Round, NextRound, Narrate, Forced, Tool,
           Look, Waive, Roll, Writing, RollFails, ApplyEffect, WriteRows, Navigate, AdvanceTime,
           Verify, Leave, Die, Jump, admission
      <4>2. pc[t] # "done"
        BY <1>1 DEF Step, Begin, StartHooks, Stimulus, ListWaived, ListResolved, Insert, Load, Loop,
           Round, NextRound, Narrate, Forced, Tool, Look, Waive, Roll, RollFails, ApplyEffect,
           WriteRows, Navigate, AdvanceTime, Verify, Carry, Leave, Die, Jump, Change, Call, Over
      <4> QED
        BY <2>4, <4>1, <4>2
    <3> QED
      BY <3>1, <3>2
  <2> QED
    BY <1>1, <2>1, <2>2, <2>3, <2>4 DEF CarriedOver
<1>2. ASSUME CarriedOver, UNCHANGED vars PROVE CarriedOver'
  BY <1>2 DEF CarriedOver, Blocking, Waived, vars, memory, past
<1> QED
  BY <1>1, <1>2 DEF Next

\* What still blocks at the end of a narrated turn is told to the next one, for any number of turns
\* that overlap in any way, unless the memory could not be saved.
THEOREM CarriedOverAlways == Spec => []CarriedOver
<1>1. Init => CarriedOver
  BY DEF Init, CarriedOver
<1> QED
  BY <1>1, CarryStep, TypeCorrect, PTL DEF Spec

-----------------------------------------------------------------------------
(***************************************************************************)
(* Turns that do not overlap.  One turn at a time is active, so that the   *)
(* rows agree with its ledger: what blocks is open, what is about to be    *)
(* waived is open, what is about to be resolved has left the ledger, and   *)
(* the keys an admission has read are those of the rows.                   *)
(***************************************************************************)

Active(t) == pc[t] \notin {"idle", "done", "dropped"}
OneAtATime == \A t, u \in Turns : Active(t) /\ Active(u) => t = u

\* How the row of a due stands that is in the ledger
Standing(t, d) ==
    /\ row[d] # "resolved"
    /\ <<d, "turn">> \notin waivers[t] => row[d] \in {"open", "none", "scene"}
    /\ d \in Blocking(t) => row[d] \in {"open", "none"}
Pended(t)   == \A d \in pending[t] : row[d] \in {"open", "none"}
Ledgered(t) == \A d \in ledger[t] \cap Dues : Standing(t, d)
Written(t) ==
    pc[t] = "write" =>
        /\ write[t].as \in Scopes =>
             \A d \in write[t].rows : row[d] \in {"open", "none"} /\ <<d, write[t].as>> \in waivers[t]
        /\ write[t].as = "resolved" => write[t].rows \cap ledger[t] = {}
Hooked(status) == {d \in Dues : d[2] \in Hooks /\ row[d] = status}
Read(t) ==
    /\ pc[t] \in Admitting => \A d \in Hooked("open") : Key[d[2]] \in held[t]
    /\ pc[t] \in {"resolved", "insert"} /\ "scope" \notin failed =>
         \A d \in Hooked("scene") : Key[d[2]] \in held[t]
    /\ pc[t] = "insert" => \A d \in Hooked("resolved") : Key[d[2]] \in held[t]
Alone(t) ==
    /\ ~Head(t) => pending[t] = {}
    /\ Active(t) => Pended(t) /\ Ledgered(t) /\ Written(t) /\ Read(t)

\* One due of a hook is open or waived for the scene
OneHeld ==
    \A d, e \in Dues :
        /\ d[2] \in Hooks /\ d[2] = e[2]
        /\ row[d] \in {"open", "scene"} /\ row[e] \in {"open", "scene"}
        => d = e

AloneInv ==
    overlapped = FALSE =>
        /\ OneAtATime /\ \A t \in Turns : Alone(t)
        /\ "scope" \notin failed => OneHeld

LEMMA BeginAlone ==
  ASSUME TypeOK, NEW t \in Turns, Step(t), overlapped' = FALSE
  PROVE  /\ overlapped = FALSE
         /\ Begin(t) => Others(t) = {}
         /\ ~Begin(t) => Active(t)
         /\ failed \subseteq failed'
<1>1. CASE Begin(t)
  <2>1. overlapped \in BOOLEAN
    BY TypeParts, Zenon DEF PastTypes
  <2>2. overlapped = FALSE /\ Others(t) = {}
    BY <1>1, <2>1, Zenon DEF Begin
  <2> QED
    BY <1>1, <2>2 DEF Begin
<1>2. CASE ~Begin(t)
  <2>1. overlapped' = overlapped
    BY <1>2, Zenon DEF Step, StartHooks, Stimulus, ListWaived, ListResolved, Insert, Load, Loop, Round,
         NextRound, Narrate, Forced, Tool, Look, Waive, Roll, RollFails, ApplyEffect,
         WriteRows, Navigate, AdvanceTime, Verify, Carry, Leave, Die, past
  <2>2. pc[t] \notin {"idle", "done", "dropped"}
    BY <1>2 DEF Step, StartHooks, Stimulus, ListWaived, ListResolved, Insert, Load, Loop, Round,
         NextRound, Narrate, Forced, Tool, Look, Waive, Roll, RollFails, ApplyEffect, WriteRows,
         Navigate, AdvanceTime, Verify, Carry, Leave, Die, Jump, Change, Call, Over
  <2>3. failed \subseteq failed'
    BY <1>2 DEF Step, StartHooks, Stimulus, Ask, ListWaived, ListResolved, Insert, Load, Loop,
         Round, NextRound, Narrate, Forced, Tool, Look, Waive, Roll, Cross, RollFails, ApplyEffect,
         WriteRows, Navigate, AdvanceTime, Verify, Carry, Leave, Die, Fault, NoFault, past
  <2>4. overlapped = FALSE
    BY <2>1, Zenon
  <2> QED
    BY <1>2, <2>2, <2>3, <2>4 DEF Active
<1> QED
  BY <1>1, <1>2

\* Rows that stay, or appear open, spoil nothing that is in the ledger with the same waivers.
LEMMA StandingStep ==
  ASSUME NEW t \in Turns, NEW d \in Dues, Standing(t, d),
         row'[d] = row[d] \/ (row[d] = "none" /\ row'[d] = "open"),
         waivers'[t] = waivers[t], d \in ledger[t]
  PROVE  Standing(t, d)'
BY DEF Standing, Blocking, Waived

LEMMA AloneHead ==
  ASSUME TypeOK, NEW t \in Turns, Handled(t), Alone(t),
         Begin(t) \/ StartHooks(t) \/ Stimulus(t) \/ Load(t)
  PROVE  Alone(t)'
<1>0. /\ pc \in [Turns -> Labels] /\ event \in [Turns -> Events] /\ held \in [Turns -> SUBSET Keys]
      /\ cand \in [Turns -> SUBSET Hooks] /\ ledger \in [Turns -> SUBSET Owed]
      /\ pending \in [Turns -> SUBSET Dues] /\ row \in [Dues -> Marks_]
  BY TypeParts DEF PcTypes, AdmissionTypes, LedgerTypes, RowTypes
<1>1. CASE Begin(t)
  <2>1. pc[t] = "idle" /\ pc'[t] = "start" /\ UNCHANGED <<pending, ledger>>
    BY <1>0, <1>1 DEF Begin, Jump, memory
  <2>2. pending'[t] = {} /\ ledger'[t] = {}
    BY <2>1 DEF Handled, Fresh, Head
  <2> QED
    BY <2>1, <2>2 DEF Alone, Pended, Ledgered, Written, Read, Head, Admitting
<1>2. ASSUME NEW e \in {"turn_start", "stimulus"}, NEW fired,
             Ask(t, e, fired, Open), pc[t] \in {"start", "stimulus"},
             UNCHANGED <<row, memory>>
      PROVE  Alone(t)'
  <2>1. /\ pc'[t] = "waived" /\ event'[t] = e /\ held'[t] = KeysOf(Open)
        \/ pc'[t] \in {"stimulus", "load"}
    BY <1>0, <1>2 DEF Ask, After
  <2>2. UNCHANGED <<row, pending, ledger>> /\ ledger[t] = {}
    BY <1>2 DEF memory, Handled, Fresh, Head
  <2>3. Head(t)' /\ Active(t)
    BY <1>2, <2>1 DEF Head, Admitting, Active
  <2>4. Read(t)'
    BY <2>1, <2>2 DEF Read, Hooked, KeysOf, Open, Admitting
  <2> QED
    BY <2>1, <2>2, <2>3, <2>4 DEF Alone, Pended, Ledgered, Written
<1>3. CASE StartHooks(t)
  BY <1>2, <1>3 DEF StartHooks
<1>4. CASE Stimulus(t)
  BY <1>2, <1>4 DEF Stimulus
<1>5. CASE Load(t)
  <2>1. /\ pc[t] = "load" /\ pc'[t] = "round" /\ UNCHANGED <<row, waivers>>
        /\ ledger'[t] \subseteq Open \cup pending[t] /\ pending'[t] = {}
    BY <1>0, <1>5 DEF Load, Jump
  <2>2. waivers'[t] = {} /\ Pended(t)
    BY <2>1 DEF Handled, Fresh, Head, Alone, Active
  <2>3. Ledgered(t)'
    BY <2>1, <2>2 DEF Ledgered, Standing, Pended, Open
  <2> QED
    BY <2>1, <2>3 DEF Alone, Pended, Written, Read, Admitting
<1> QED
  BY <1>1, <1>3, <1>4, <1>5

LEMMA AloneAdmission ==
  ASSUME TypeOK, NEW t \in Turns, Handled(t), Alone(t), ListWaived(t) \/ ListResolved(t) \/ Insert(t)
  PROVE  Alone(t)'
<1>0. /\ pc \in [Turns -> Labels] /\ event \in [Turns -> Events] /\ held \in [Turns -> SUBSET Keys]
      /\ ledger \in [Turns -> SUBSET Owed]
      /\ pending \in [Turns -> SUBSET Dues] /\ row \in [Dues -> Marks_]
  BY TypeParts DEF PcTypes, AdmissionTypes, LedgerTypes, RowTypes
<1>1. /\ pc[t] \in Admitting /\ Active(t) /\ UNCHANGED <<ledger, waivers, write>>
  BY DEF ListWaived, ListResolved, Insert, memory, Admitting, Active
<1>2. \/ pc'[t] = After(event[t])
      \/ pc'[t] \in Admitting /\ event'[t] = event[t]
  <2>1. CASE EndAdmission(t)
    <3>1. pc' = [pc EXCEPT ![t] = After(event[t])]
      BY <2>1, Zenon DEF EndAdmission
    <3>2. pc'[t] = After(event[t])
      BY <1>0, <3>1, Zenon
    <3> QED
      BY <3>2, Zenon
  <2>2. CASE ListWaived(t) /\ ~EndAdmission(t)
    BY <1>0, <2>2 DEF ListWaived, Jump, admission, Admitting
  <2>3. CASE ListResolved(t) /\ ~EndAdmission(t)
    BY <1>0, <2>3 DEF ListResolved, Jump, admission, Admitting
  <2> QED
    BY <2>1, <2>2, <2>3 DEF Insert
<1>3. (Head(t) => Head(t)') /\ pc'[t] # "write"
  BY <1>1, <1>2 DEF Head, After, Admitting
<1>4. \A d \in Dues : row'[d] = row[d] \/ (row[d] = "none" /\ row'[d] = "open")
  <2>1. CASE row' = row
    BY <2>1
  <2>2. CASE Insert(t)
    <3>1. \A d \in Admitted(t) : row[d] = "none"
      BY <2>2 DEF Insert, Admitted, Handled, NotYet, Admitting
    <3> QED
      BY <1>0, <2>2, <3>1 DEF Insert
  <2> QED
    BY <2>1, <2>2 DEF ListWaived, ListResolved
<1>5. Ledgered(t)'
  BY <1>1, <1>4, StandingStep DEF Alone, Ledgered
<1>6. Written(t)'
  BY <1>3 DEF Written
<1>7. CASE ListWaived(t) \/ ListResolved(t)
  <2>1. UNCHANGED <<row, pending>>
    BY <1>7 DEF ListWaived, ListResolved, memory
  <2>2. Read(t)'
    <3>1. CASE pc'[t] \notin Admitting
      BY <3>1 DEF Read, Admitting
    <3>2. CASE ListWaived(t) /\ pc'[t] \in Admitting
      <4>1. pc[t] = "waived" /\ pc'[t] = "resolved"
        BY <1>0, <3>2 DEF ListWaived, Jump, EndAdmission, After, Admitting
      <4>2. \/ held'[t] = held[t] \cup KeysOf(WithStatus("scene"))
            \/ held'[t] = held[t] /\ "scope" \in failed'
        BY <1>0, <3>2, <4>1 DEF ListWaived, EndAdmission, After, Fault, admission
      <4> QED
        BY <1>1, <2>1, <4>1, <4>2 DEF Alone, Read, Hooked, KeysOf, WithStatus, Admitting
    <3>3. CASE ListResolved(t) /\ pc'[t] \in Admitting
      <4>1. /\ pc[t] = "resolved" /\ pc'[t] = "insert"
            /\ held'[t] = held[t] \cup KeysOf(WithStatus("resolved")) /\ UNCHANGED failed
        BY <1>0, <3>3 DEF ListResolved, Jump, EndAdmission, After, Admitting, NoFault
      <4> QED
        BY <1>1, <2>1, <4>1 DEF Alone, Read, Hooked, KeysOf, WithStatus, Admitting
    <3> QED
      BY <1>7, <3>1, <3>2, <3>3
  <2> QED
    BY <1>1, <1>3, <1>5, <1>6, <2>1, <2>2 DEF Alone, Pended
<1>8. CASE Insert(t)
  <2>1. pc'[t] = After(event[t]) /\ pc'[t] \notin Admitting
    BY <1>0, <1>8 DEF Insert, EndAdmission, After, Admitting
  <2>2. Admitted(t) \subseteq Dues
    BY TypeParts DEF Admitted, Dues, AdmissionTypes
  <2>3. \/ pending'[t] = pending[t]
        \/ pending'[t] = pending[t] \cup Admitted(t) /\ Head(t)
    <3>1. CASE event[t] \in {"turn_start", "stimulus"}
      <4>1. pending' = [pending EXCEPT ![t] = @ \cup Admitted(t)]
        BY <1>8, <3>1 DEF Insert
      <4> QED
        BY <1>0, <1>1, <3>1, <4>1 DEF Head
    <3>2. CASE event[t] \notin {"turn_start", "stimulus"}
      <4>1. pending' = pending
        BY <1>8, <3>2, Zenon DEF Insert
      <4> QED
        BY <4>1
    <3> QED
      BY <3>1, <3>2
  <2>4. \A d \in Admitted(t) : row'[d] \in {"open", "none"}
    <3>1. \A d \in Admitted(t) : row[d] = "none"
      BY <1>8 DEF Insert, Admitted, Handled, NotYet, Admitting
    <3> QED
      BY <1>4, <2>2, <3>1
  <2>5. Pended(t)'
    <3>1. \A d \in pending[t] : row'[d] \in {"open", "none"}
      BY <1>0, <1>1, <1>4 DEF Alone, Pended
    <3> QED
      BY <2>3, <2>4, <3>1 DEF Pended
  <2>6. ~Head(t)' => pending'[t] = {}
    BY <1>3, <2>3 DEF Alone
  <2> QED
    BY <1>5, <1>6, <2>1, <2>5, <2>6 DEF Alone, Read, Admitting
<1> QED
  BY <1>7, <1>8

LEMMA AloneLoop ==
  ASSUME TypeOK, NEW t \in Turns, Alone(t), Loop(t)
  PROVE  Alone(t)'
<1>0. pc \in [Turns -> Labels] /\ ledger \in [Turns -> SUBSET Owed]
  BY TypeParts DEF PcTypes, LedgerTypes
<1>1. /\ pc[t] \in {"round", "tools"} /\ pc'[t] \in {"round", "tools", "verify"}
      /\ UNCHANGED <<row, pending, waivers>>
  BY <1>0 DEF Loop, Round, NextRound, Narrate, Forced, Jump, memory
<1>2. ledger'[t] \cap Dues \subseteq ledger[t]
  <2>1. ledger' = ledger \/ ledger' = [ledger EXCEPT ![t] = Accounted(t)]
    BY DEF Loop, Round, NextRound, Narrate, Forced, memory
  <2>2. Accounted(t) \cap Dues \subseteq ledger[t]
    BY CatalogAssumption DEF Accounted, Mine, Dues
  <2> QED
    BY <1>0, <2>1, <2>2
<1>3. pending[t] = {} /\ Ledgered(t)
  BY <1>1 DEF Alone, Head, Active, Admitting
<1>4. Ledgered(t)'
  BY <1>1, <1>2, <1>3 DEF Ledgered, Standing, Blocking, Waived
<1> QED
  BY <1>1, <1>3, <1>4 DEF Alone, Pended, Written, Read, Admitting

\* Nothing of the rows is spoilt by a call that only crosses a threshold, or does not even that.
LEMMA AloneCall ==
  ASSUME TypeOK, NEW t \in Turns, Alone(t), Call(t),
         UNCHANGED <<pending, waivers>>, ledger'[t] \subseteq ledger[t],
         \A d \in Dues : row'[d] = row[d] \/ (row[d] = "none" /\ row'[d] = "open"),
         pc'[t] \in {"tools", "write"}, Written(t)'
  PROVE  Alone(t)'
<1>1. pending[t] = {} /\ Ledgered(t)
  BY DEF Call, Alone, Head, Active, Admitting
<1>2. Ledgered(t)'
  BY <1>1 DEF Ledgered, Standing, Blocking, Waived
<1> QED
  BY <1>1, <1>2 DEF Alone, Pended, Read, Admitting

\* What a turn is about to write.
LEMMA WritingAlone ==
  ASSUME TypeOK, NEW t \in Turns, pc[t] = "tools",
         NEW dues \in SUBSET Dues, NEW s \in {"resolved"} \cup Scopes, Writing(t, dues, s)
  PROVE  \/ pc'[t] = "tools"
         \/ pc'[t] = "write" /\ write'[t].rows = dues /\ write'[t].as = s
<1>1. CASE dues = {}
  BY <1>1, TypeParts DEF Writing, PcTypes
<1>2. CASE dues # {}
  <2>1. /\ pc' = [pc EXCEPT ![t] = "write"]
        /\ write' = [write EXCEPT ![t].rows = dues, ![t].as = s]
    BY <1>2 DEF Writing
  <2> QED
    BY <2>1, TypeParts DEF PcTypes, WriteTypes, Writes
<1> QED
  BY <1>1, <1>2

LEMMA AloneTool ==
  ASSUME TypeOK, NEW t \in Turns, Alone(t), Look(t) \/ RollFails(t) \/ ApplyEffect(t) \/ Roll(t)
  PROVE  Alone(t)'
<1>0. /\ pc \in [Turns -> Labels] /\ ledger \in [Turns -> SUBSET Owed]
  BY TypeParts DEF PcTypes, LedgerTypes
<1>1. Call(t) /\ UNCHANGED <<pending, waivers>>
  BY DEF Look, RollFails, ApplyEffect, Roll, Change
<1>2. \A d \in Dues : row'[d] = row[d] \/ (row[d] = "none" /\ row'[d] = "open")
  <2>1. row' = row \/ Cross(t)
    BY DEF Look, RollFails, ApplyEffect, Roll
  <2> QED
    BY <2>1, CrossStep
<1>3. CASE ~Roll(t)
  <2>1. UNCHANGED <<pc, ledger>> /\ pc'[t] = "tools"
    BY <1>3 DEF Look, RollFails, ApplyEffect, Change, Call
  <2>2. Written(t)'
    BY <2>1 DEF Written
  <2> QED
    BY <1>1, <1>2, <2>1, <2>2, AloneCall
<1>4. CASE Roll(t)
  <2>1. PICK m \in {Mech[h] : h \in Hooks} :
              /\ ledger' = [ledger EXCEPT ![t] = @ \ Of(t, m)]
              /\ Writing(t, Of(t, m) \cap Dues, "resolved")
    BY <1>4 DEF Roll
  <2>2. ledger'[t] = ledger[t] \ Of(t, m)
    BY <1>0, <2>1
  <2>3. \/ pc'[t] = "tools"
        \/ pc'[t] = "write" /\ write'[t].rows = Of(t, m) \cap Dues /\ write'[t].as = "resolved"
    BY <1>1, <2>1, WritingAlone DEF Call
  <2>4. Written(t)'
    BY <2>2, <2>3 DEF Written, Scopes
  <2> QED
    BY <1>1, <1>2, <2>2, <2>3, <2>4, AloneCall
<1> QED
  BY <1>3, <1>4

LEMMA AloneWaive ==
  ASSUME TypeOK, NEW t \in Turns, Alone(t), Waive(t)
  PROVE  Alone(t)'
<1>0. /\ ledger \in [Turns -> SUBSET Owed] /\ waivers \in [Turns -> SUBSET (Owed \X Scopes)]
  BY TypeParts DEF LedgerTypes
<1>1. pc[t] = "tools" /\ UNCHANGED <<row, pending, ledger>>
  BY DEF Waive, Change, Call
<1>2. PICK o \in Blocking(t), s \in Scopes :
            /\ waivers' = [waivers EXCEPT ![t] = @ \cup {<<o, s>>}]
            /\ Writing(t, {o} \cap Dues, s)
  BY DEF Waive
<1>3. waivers'[t] = waivers[t] \cup {<<o, s>>}
  BY <1>0, <1>2
<1>4. pending[t] = {} /\ Ledgered(t)
  BY <1>1 DEF Alone, Head, Active, Admitting
<1>5. Ledgered(t)'
  BY <1>1, <1>3, <1>4 DEF Ledgered, Standing, Blocking, Waived
<1>6. \/ pc'[t] = "tools"
      \/ pc'[t] = "write" /\ write'[t].rows = {o} \cap Dues /\ write'[t].as = s
  BY <1>1, <1>2, WritingAlone
<1>7. o \in Dues => row[o] \in {"open", "none"}
  BY <1>2, <1>4 DEF Ledgered, Standing, Blocking
<1>8. Written(t)'
  BY <1>1, <1>3, <1>6, <1>7 DEF Written, Scopes
<1> QED
  BY <1>1, <1>4, <1>5, <1>6, <1>8 DEF Alone, Pended, Read, Admitting

LEMMA AloneWrite ==
  ASSUME TypeOK, NEW t \in Turns, Alone(t), WriteRows(t)
  PROVE  Alone(t)'
<1>0. /\ pc \in [Turns -> Labels] /\ row \in [Dues -> Marks_]
      /\ write[t].as \in {"resolved"} \cup Scopes /\ write[t].rows \subseteq Dues
  BY TypeParts DEF PcTypes, RowTypes, WriteTypes, Writes
<1>1. /\ pc[t] = "write" /\ pc'[t] = "tools" /\ UNCHANGED <<pending, ledger, waivers>>
  BY <1>0 DEF WriteRows, Jump
<1>2. \A d \in Dues : \/ row'[d] = row[d]
                      \/ d \in write[t].rows /\ row[d] # "none" /\ row'[d] = write[t].as
  BY <1>0 DEF WriteRows
<1>3. pending[t] = {} /\ Ledgered(t) /\ Written(t)
  BY <1>1 DEF Alone, Head, Active, Admitting
<1>4. Ledgered(t)'
  <2>1. SUFFICES ASSUME NEW d \in ledger[t] \cap Dues PROVE Standing(t, d)'
    BY <1>1 DEF Ledgered
  <2>2. CASE row'[d] = row[d]
    BY <1>1, <1>3, <2>2 DEF Ledgered, Standing, Blocking, Waived
  <2>3. CASE d \in write[t].rows /\ row'[d] = write[t].as
    <3>1. write[t].as \in Scopes /\ <<d, write[t].as>> \in waivers[t]
      BY <1>0, <1>1, <1>3, <2>3 DEF Written
    <3> QED
      BY <1>1, <2>3, <3>1 DEF Standing, Blocking, Waived, Scopes
  <2> QED
    BY <1>2, <2>2, <2>3
<1> QED
  BY <1>1, <1>3, <1>4 DEF Alone, Pended, Written, Read, Admitting

\* A tool that asks for dues.
LEMMA AloneAsk ==
  ASSUME TypeOK, NEW t \in Turns, pc[t] = "tools", pending[t] = {},
         NEW e \in {"scene_enter", "time_advance"}, NEW fired, NEW open, Ask(t, e, fired, open),
         UNCHANGED pending, Open' \subseteq open, Ledgered(t)'
  PROVE  Alone(t)'
<1>0. /\ pc \in [Turns -> Labels] /\ event \in [Turns -> Events] /\ held \in [Turns -> SUBSET Keys]
  BY TypeParts DEF PcTypes, AdmissionTypes
<1>1. \/ pc'[t] = "waived" /\ event'[t] = e /\ held'[t] = KeysOf(open)
      \/ pc'[t] = "tools"
  BY <1>0 DEF Ask, After
<1>2. \A d \in Open' : d \in Dues
  BY DEF Open
<1>3. Read(t)'
  BY <1>1 DEF Read, Hooked, KeysOf, Open, Admitting
<1>4. Written(t)' /\ Pended(t)'
  BY <1>1 DEF Written, Pended
<1> QED
  BY <1>3, <1>4 DEF Alone

LEMMA AloneAsking ==
  ASSUME TypeOK, NEW t \in Turns, Alone(t), Navigate(t) \/ AdvanceTime(t)
  PROVE  Alone(t)'
<1>0. /\ row \in [Dues -> Marks_] /\ waivers \in [Turns -> SUBSET (Owed \X Scopes)]
  BY TypeParts DEF RowTypes, LedgerTypes
<1>1. pc[t] = "tools" /\ UNCHANGED <<pending, ledger>>
  BY DEF Navigate, AdvanceTime, Change, Call
<1>2. pending[t] = {} /\ Ledgered(t)
  BY <1>1 DEF Alone, Head, Active, Admitting
<1>3. CASE AdvanceTime(t)
  <2>1. UNCHANGED <<row, waivers>>
    BY <1>3 DEF AdvanceTime
  <2>2. Ledgered(t)' /\ Open' = Open
    BY <1>1, <1>2, <2>1 DEF Ledgered, Standing, Blocking, Waived, Open
  <2>3. PICK hooks : Ask(t, "time_advance", hooks, Open)
    BY <1>3 DEF AdvanceTime
  <2> QED
    BY <1>1, <1>2, <2>2, <2>3, AloneAsk
<1>4. CASE /\ ReopenRows(Reopening)
           /\ waivers' = [waivers EXCEPT ![t] = {w \in @ : w[2] # "scene"}]
           /\ Ask(t, "scene_enter", Fired(t, "scene_enter"), Open \cup Reopening)
  <2>1. \A d \in Dues : row'[d] = IF row[d] = "scene" THEN "open" ELSE row[d]
    BY <1>0, <1>4 DEF ReopenRows, Reopening
  <2>2. waivers'[t] = {w \in waivers[t] : w[2] # "scene"}
    BY <1>0, <1>4
  <2>3. Ledgered(t)'
    <3>1. SUFFICES ASSUME NEW d \in ledger[t] \cap Dues PROVE Standing(t, d)'
      BY <1>1 DEF Ledgered
    <3>2. Standing(t, d)
      BY <1>2 DEF Ledgered
    <3>3. <<d, "turn">> \in waivers[t] => <<d, "turn">> \in waivers'[t]
      BY <2>2
    <3> QED
      BY <2>1, <3>2, <3>3 DEF Standing, Blocking, Waived, Scopes
  <2>4. Open' \subseteq Open \cup Reopening
    BY <2>1 DEF Open, Reopening
  <2> QED
    BY <1>1, <1>2, <1>4, <2>3, <2>4, AloneAsk
<1>5. CASE Fault("write") /\ UNCHANGED <<row, reopened, waivers, pc, admission>> /\ Navigate(t)
  <2>1. Ledgered(t)'
    BY <1>1, <1>2, <1>5 DEF Ledgered, Standing, Blocking, Waived
  <2> QED
    BY <1>1, <1>2, <1>5, <2>1 DEF Alone, Pended, Written, Read, Admitting
<1> QED
  BY <1>3, <1>4, <1>5 DEF Navigate

LEMMA AloneEnd ==
  ASSUME TypeOK, NEW t \in Turns, Alone(t), Verify(t) \/ Carry(t) \/ Leave(t) \/ Die(t)
  PROVE  Alone(t)'
<1>0. /\ pc \in [Turns -> Labels] /\ pending \in [Turns -> SUBSET Dues]
      /\ ledger \in [Turns -> SUBSET Owed]
  BY TypeParts DEF PcTypes, LedgerTypes
<1>1. CASE Verify(t)
  <2>1. /\ pc[t] = "verify" /\ pc'[t] = "carry" /\ pending'[t] = {} /\ UNCHANGED <<row, waivers>>
    BY <1>0, <1>1 DEF Verify, Jump, Forget
  <2>2. ledger'[t] \cap Dues \subseteq ledger[t]
    BY <1>0, <1>1, CatalogAssumption DEF Verify, Mine, Dues
  <2>3. Ledgered(t)'
    BY <2>1, <2>2 DEF Alone, Active, Ledgered, Standing, Blocking, Waived
  <2> QED
    BY <2>1, <2>3 DEF Alone, Pended, Written, Read, Admitting
<1>2. CASE Carry(t)
  <2>1. pc[t] = "carry" /\ pc'[t] = "done" /\ UNCHANGED pending
    BY <1>0, <1>2 DEF Carry, Jump
  <2> QED
    BY <2>1 DEF Alone, Active, Head, Admitting
<1>3. CASE Leave(t) \/ Die(t)
  <2>1. pc'[t] = "dropped" /\ pending'[t] = {}
    BY <1>0, <1>3 DEF Leave, Die, Forget, Jump
  <2> QED
    BY <2>1 DEF Alone, Active
<1> QED
  BY <1>1, <1>2, <1>3

\* A due that is open or waived for the scene was so before, unless its turn has just issued it.
LEMMA HeldStep ==
  ASSUME TypeOK, NEW t \in Turns, Step(t), NEW d \in Dues, d[2] \in Hooks,
         row'[d] \in {"open", "scene"}, row[d] \notin {"open", "scene"},
         NotYet(t), Written(t)
  PROVE  Insert(t) /\ d \in Admitted(t)
<1>0. row \in [Dues -> Marks_]
  BY TypeParts DEF RowTypes
<1>1. CASE Insert(t)
  BY <1>0, <1>1 DEF Insert
<1>2. CASE Cross(t)
  <2>1. <<t, Crossing>>[2] \notin Hooks
    BY CatalogAssumption
  <2>2. row' = row \/ row' = [row EXCEPT ![<<t, Crossing>>] = "open"]
    BY <1>2 DEF Cross
  <2>3. d # <<t, Crossing>>
    BY <2>1
  <2> QED
    BY <1>0, <2>2, <2>3
<1>3. CASE WriteRows(t)
  <2>1. \/ row'[d] = row[d]
        \/ d \in write[t].rows /\ row[d] # "none" /\ row'[d] = write[t].as
    BY <1>0, <1>3 DEF WriteRows
  <2>2. pc[t] = "write" /\ write[t].as \in {"resolved"} \cup Scopes
    BY <1>3, TypeParts DEF WriteRows, Jump, WriteTypes, Writes
  <2> QED
    BY <2>1, <2>2 DEF Written, Scopes
<1>4. CASE ReopenRows(Reopening)
  BY <1>0, <1>4 DEF ReopenRows, Reopening
<1>5. \/ row' = row \/ Insert(t) \/ Cross(t) \/ WriteRows(t) \/ ReopenRows(Reopening)
  BY DEF Step, Begin, StartHooks, Stimulus, ListWaived, ListResolved, Load, Loop, Round, NextRound,
         Narrate, Forced, Tool, Look, Waive, Roll, RollFails, ApplyEffect, Navigate, AdvanceTime,
         Verify, Carry, Leave, Die
<1> QED
  BY <1>1, <1>2, <1>3, <1>4, <1>5

LEMMA OneHeldStep ==
  ASSUME TypeOK, NEW t \in Turns, Step(t), NotYet(t), Written(t), Read(t),
         "scope" \notin failed, OneHeld
  PROVE  OneHeld'
<1>1. SUFFICES ASSUME NEW d \in Dues, NEW e \in Dues, d[2] \in Hooks, d[2] = e[2],
                      row'[d] \in {"open", "scene"}, row'[e] \in {"open", "scene"}
               PROVE  d = e
  BY DEF OneHeld
<1>2. ASSUME NEW a \in Dues, NEW b \in Dues, a[2] \in Hooks, a[2] = b[2],
             row[a] \in {"open", "scene"},
             Insert(t), b \in Admitted(t)
      PROVE  FALSE
  <2>1. pc[t] = "insert" /\ Key[b[2]] \notin held[t]
    BY <1>2 DEF Insert, Admitted
  <2>2. Key[a[2]] \in held[t]
    BY <1>2, <2>1 DEF Read, Hooked, Admitting
  <2> QED
    BY <1>2, <2>1, <2>2
<1>3. ASSUME NEW a \in Dues, NEW b \in Dues, a[2] = b[2], a \in Admitted(t), b \in Admitted(t)
      PROVE  a = b
  BY <1>3 DEF Admitted
<1>4. CASE row[d] \in {"open", "scene"} /\ row[e] \in {"open", "scene"}
  BY <1>1, <1>4 DEF OneHeld
<1>5. CASE row[d] \in {"open", "scene"} /\ row[e] \notin {"open", "scene"}
  <2>1. Insert(t) /\ e \in Admitted(t)
    BY <1>1, <1>5, HeldStep
  <2> QED
    BY <1>1, <1>2, <1>5, <2>1
<1>6. CASE row[d] \notin {"open", "scene"} /\ row[e] \in {"open", "scene"}
  <2>1. Insert(t) /\ d \in Admitted(t)
    BY <1>1, <1>6, HeldStep
  <2> QED
    BY <1>1, <1>2, <1>6, <2>1
<1>7. CASE row[d] \notin {"open", "scene"} /\ row[e] \notin {"open", "scene"}
  <2>1. d \in Admitted(t) /\ e \in Admitted(t)
    BY <1>1, <1>7, HeldStep
  <2> QED
    BY <1>1, <1>3, <2>1
<1> QED
  BY <1>4, <1>5, <1>6, <1>7

LEMMA AloneInit == Init => AloneInv
BY DEF Init, AloneInv, OneAtATime, Alone, Active, OneHeld

LEMMA AloneStutter == AloneInv /\ UNCHANGED vars => AloneInv'
<1> SUFFICES ASSUME AloneInv, UNCHANGED vars, overlapped' = FALSE
             PROVE  /\ OneAtATime' /\ \A t \in Turns : Alone(t)'
                    /\ "scope" \notin failed' => OneHeld'
  BY DEF AloneInv
<1>1. UNCHANGED <<row, pc, event, held, pending, ledger, waivers, write, failed>>
  BY DEF vars, admission, memory, past
<1>2. overlapped = FALSE
  BY Zenon DEF vars, past
<1>3. /\ OneAtATime /\ \A t \in Turns : Alone(t)
      /\ "scope" \notin failed => OneHeld
  BY <1>2 DEF AloneInv
<1>4. OneAtATime' /\ ("scope" \notin failed' => OneHeld')
  BY <1>1, <1>3 DEF OneAtATime, Active, OneHeld
<1>5. ASSUME NEW t \in Turns PROVE Alone(t)'
  <2>1. Alone(t)
    BY <1>3
  <2>2. Ledgered(t) => Ledgered(t)'
    BY <1>1 DEF Ledgered, Standing, Blocking, Waived
  <2>3. /\ Pended(t) => Pended(t)'
        /\ Written(t) => Written(t)'
        /\ Read(t) => Read(t)'
    BY <1>1 DEF Pended, Written, Read, Hooked
  <2> QED
    BY <1>1, <2>1, <2>2, <2>3 DEF Alone, Active, Head
<1> QED
  BY <1>4, <1>5

LEMMA AloneStep == TypeOK /\ HandledInv /\ AloneInv /\ [Next]_vars => AloneInv'
<1>1. ASSUME TypeOK, HandledInv, AloneInv, NEW t \in Turns, Step(t), overlapped' = FALSE
      PROVE  /\ OneAtATime' /\ \A u \in Turns : Alone(u)'
             /\ "scope" \notin failed' => OneHeld'
  <2>1. /\ overlapped = FALSE
        /\ Begin(t) => Others(t) = {}
        /\ ~Begin(t) => Active(t)
        /\ failed \subseteq failed'
    BY <1>1, BeginAlone
  <2>2. /\ OneAtATime /\ \A u \in Turns : Alone(u)
        /\ "scope" \notin failed => OneHeld
    BY <1>1, <2>1 DEF AloneInv
  <2>3. \A u \in Turns \ {t} : ~Active(u)
    <3>1. CASE Begin(t)
      BY <2>1, <3>1 DEF Others, Active, Over
    <3>2. CASE ~Begin(t)
      BY <2>1, <2>2, <3>2 DEF OneAtATime
    <3> QED
      BY <3>1, <3>2
  <2>4. \A u \in Turns \ {t} : pc'[u] = pc[u] /\ event'[u] = event[u] /\ pending'[u] = pending[u]
    BY <1>1, Elsewhere
  <2>5. \A u \in Turns \ {t} : ~Active(u)' /\ Alone(u)'
    BY <2>2, <2>3, <2>4 DEF Alone, Active, Head
  <2>6. OneAtATime'
    BY <2>5 DEF OneAtATime
  <2>7. Handled(t) /\ Alone(t)
    BY <1>1, <2>2 DEF HandledInv, Handled
  <2>8. Alone(t)'
    <3>1. CASE Begin(t) \/ StartHooks(t) \/ Stimulus(t) \/ Load(t)
      BY <1>1, <2>7, <3>1, AloneHead
    <3>2. CASE ListWaived(t) \/ ListResolved(t) \/ Insert(t)
      BY <1>1, <2>7, <3>2, AloneAdmission
    <3>3. CASE Loop(t)
      BY <1>1, <2>7, <3>3, AloneLoop
    <3>4. CASE Tool(t)
      BY <1>1, <2>7, <3>4, AloneTool, AloneWaive, AloneWrite, AloneAsking DEF Tool
    <3>5. CASE Verify(t) \/ Carry(t) \/ Leave(t) \/ Die(t)
      BY <1>1, <2>7, <3>5, AloneEnd
    <3> QED
      BY <1>1, <3>1, <3>2, <3>3, <3>4, <3>5 DEF Step
  <2>9. ASSUME "scope" \notin failed' PROVE OneHeld'
    <3>1. "scope" \notin failed /\ OneHeld
      BY <2>1, <2>2, <2>9
    <3>2. CASE Begin(t)
      BY <3>1, <3>2 DEF Begin, OneHeld
    <3>3. CASE ~Begin(t)
      <4>1. Written(t) /\ Read(t) /\ NotYet(t)
        BY <2>1, <2>7, <3>3 DEF Alone, Handled
      <4> QED
        BY <1>1, <3>1, <4>1, OneHeldStep
    <3> QED
      BY <3>2, <3>3
  <2> QED
    BY <2>5, <2>6, <2>8, <2>9
<1>2. TypeOK /\ HandledInv /\ AloneInv /\ Next => AloneInv'
  BY <1>1 DEF Next, AloneInv
<1> QED
  BY <1>2, AloneStutter

LEMMA AloneAlways == Spec => [](TypeOK /\ HandledInv /\ AloneInv)
BY TypeCorrect, HandledInit, HandledStep, AloneInit, AloneStep, PTL DEF Spec

\* While turns do not overlap, a hook never has two open dues, for any catalog and any order of
\* waivers, changes of scene and rolls, unless the scope of a waiver could not be read.
THEOREM OneOpenPerHookAlways == Spec => []OneOpenPerHook
<1>1. TypeOK /\ HandledInv /\ AloneInv => OneOpenPerHook
  <2>1. TypeOK => overlapped \in BOOLEAN
    BY TypeParts, Zenon DEF PastTypes
  <2>2. AloneInv /\ overlapped = FALSE /\ "scope" \notin failed
          => \A d, e \in Open : d[2] \in Hooks /\ d[2] = e[2] => d = e
    BY DEF AloneInv, OneHeld, Open
  <2> QED
    BY <2>1, <2>2, Zenon DEF OneOpenPerHook
<1> QED
  BY <1>1, AloneAlways, PTL

LEMMA SettledStep ==
  ASSUME TypeOK, HandledInv, AloneInv, NEW t \in Turns, Step(t), overlapped' = FALSE,
         NEW d \in Dues, row[d] = "resolved"
  PROVE  row'[d] = "resolved"
<1>1. SUFFICES ASSUME row'[d] # "resolved" PROVE FALSE
  OBVIOUS
<1>2. overlapped = FALSE /\ NotYet(t)
  BY BeginAlone DEF HandledInv
<1>3. pc[t] = "write" /\ write[t].as \in Scopes /\ d \in write[t].rows
  BY <1>1, <1>2, RowStep
<1>4. Written(t)
  BY <1>2, <1>3 DEF AloneInv, Alone, Active
<1> QED
  BY <1>3, <1>4 DEF Written

\* While turns do not overlap, a resolved due stays resolved, for any catalog and any faults.
THEOREM SettledAlways == Spec => SettledStays
<1>1. TypeOK /\ HandledInv /\ AloneInv /\ [Next]_vars
        => [~overlapped' => \A d \in Dues : row[d] = "resolved" => row'[d] = "resolved"]_vars
  <2>1. TypeOK /\ HandledInv /\ AloneInv /\ Next /\ overlapped' = FALSE
          => \A d \in Dues : row[d] = "resolved" => row'[d] = "resolved"
    BY SettledStep DEF Next
  <2>2. TypeOK /\ [Next]_vars => overlapped' \in BOOLEAN
    BY StepTypes, TypePartsNext, Zenon DEF PastTypes
  <2> QED
    BY <2>1, <2>2, Zenon
<1> QED
  BY <1>1, AloneAlways, PTL DEF Spec, SettledStays

LEMMA CalledStep ==
  ASSUME TypeOK, HandledInv, AloneInv, NEW t \in Turns, Step(t), overlapped' = FALSE,
         NEW d \in Dues, row[d] = "none", row'[d] = "open", d[2] \in Hooks
  PROVE  Key[d[2]] \notin KeysOf(WithStatus("resolved"))
<1>1. overlapped = FALSE /\ NotYet(t) /\ Alone(t) /\ (Begin(t) \/ Active(t))
  BY BeginAlone DEF HandledInv, AloneInv
<1>2. Active(t)
  BY <1>1 DEF Begin
<1>3. Written(t) /\ Read(t)
  BY <1>1, <1>2 DEF Alone
<1>4. Insert(t) /\ d \in Admitted(t)
  BY <1>1, <1>3, HeldStep
<1>5. pc[t] = "insert" /\ Key[d[2]] \notin held[t]
  BY <1>4 DEF Insert, Admitted
<1> QED
  BY <1>3, <1>5 DEF Read, Hooked, KeysOf, WithStatus

\* While turns do not overlap, a mechanic whose due was resolved is not called for again through the
\* same key, for any catalog, two hooks of one key included, and any faults.
THEOREM NotCalledAgainAlways == Spec => NotCalledAgain
<1>1. TypeOK /\ HandledInv /\ AloneInv /\ [Next]_vars
        => [~overlapped' =>
              \A d \in Dues : row[d] = "none" /\ row'[d] = "open" /\ d[2] \in Hooks
                                 => Key[d[2]] \notin KeysOf(WithStatus("resolved"))]_vars
  <2>1. TypeOK /\ HandledInv /\ AloneInv /\ Next /\ overlapped' = FALSE
          => \A d \in Dues : row[d] = "none" /\ row'[d] = "open" /\ d[2] \in Hooks
                                => Key[d[2]] \notin KeysOf(WithStatus("resolved"))
    BY CalledStep DEF Next
  <2>2. TypeOK /\ [Next]_vars => overlapped' \in BOOLEAN
    BY StepTypes, TypePartsNext, Zenon DEF PastTypes
  <2> QED
    BY <2>1, <2>2, Zenon
<1> QED
  BY <1>1, AloneAlways, PTL DEF Spec, NotCalledAgain

=============================================================================
