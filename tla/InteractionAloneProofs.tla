----------------------- MODULE InteractionAloneProofs -----------------------
(***************************************************************************)
(* What holds of InteractionLifecycle while requests do not overlap, for   *)
(* any number of requests, rows, frames and failures: input is routed over *)
(* clean tables; a check is settled once, plus once for every failure; a   *)
(* closed frame has no open children; one check can be answered.  The last *)
(* part is about requests that overlap: what they cannot spoil.            *)
(***************************************************************************)
EXTENDS InteractionProofs, FiniteSetTheorems

Step(p) ==
    \/ Request(p) \/ Reconcile(p) \/ Resolve(p) \/ Tool(p) \/ Frame(p) \/ Api(p) \/ Fault(p)

-----------------------------------------------------------------------------
\* As long as nothing has overlapped, one request is in flight

LoneInv == ~overlapped => \A p, q \in Callers : pc[p] # "idle" /\ pc[q] # "idle" => p = q

\* A step moves one caller; only a request starts from idle, and no step forgets an overlap
LEMMA OneMoves ==
  ASSUME TypeOK, NEW p \in Callers, Step(p)
  PROVE  /\ \A q \in Callers \ {p} : pc'[q] = pc[q]
         /\ \/ pc[p] # "idle" /\ overlapped' = overlapped
            \/ overlapped' = (overlapped \/ \E q \in Callers : q # p /\ pc[q] # "idle")
<1> USE DEF TypeOK, Jump
<1>1. CASE Request(p)
  <2>1. Begin(p) /\ \A q \in Callers \ {p} : pc'[q] = pc[q]
    BY <1>1 DEF Request, StartTurn, StartResolve, StartConflict
  <2> QED
    BY <2>1 DEF Begin
<1>2. CASE Reconcile(p)
  BY <1>2 DEF Reconcile, ReadGeneration, SupersedeStaleGates, SupersedeStaleChecks, past
<1>3. CASE Resolve(p)
  BY <1>3 DEF Resolve, RollRefused, RollBlocked, Blocked, Roll, ApplyEffects, InsertResult,
     CloseCheck, CloseGate, CloseOpenGate, AnswerGate, FollowUp, EffectDone, past
<1>4. CASE Tool(p)
  BY <1>4 DEF Tool, GatePhase, EndTurn, RollCheck, RequestRoll, CancelChecks, CancelGates,
     MintContract, ReadForInsert, PutCheck, PutGate, past
<1>5. CASE Frame(p)
  BY <1>5 DEF Frame, OpenFrame, PutFrame, CloseFrame, CascadeGates, CascadeChecks, CascadeFrame,
     Bump, FindFrame, PutNewFrame, NotHandled, OpenChoiceGate, AttachGate, DeclareAction,
     ExitFrame, past
<1>6. CASE Api(p)
  BY <1>6 DEF Api, ApiGate, SupersedeGate, SupersedeCheck, ApiContract, ApiNoCheck, Choose,
     ApiCheck, CloseAskedCheck, AnswerWithoutDice, past
<1>7. CASE Fault(p)
  <2>1. CASE Skip(p)
    BY <2>1 DEF Skip, Onward, Hit
  <2>2. CASE Abort(p) \/ FailTool(p) \/ ReadLost(p) \/ BlockedUnrecorded(p)
    BY <2>2 DEF Abort, FailTool, ReadLost, BlockedUnrecorded, Blocked, Hit
  <2> QED
    BY <1>7, <2>1, <2>2 DEF Fault
<1> QED
  BY <1>1, <1>2, <1>3, <1>4, <1>5, <1>6, <1>7 DEF Step

\* While nothing has overlapped, the others are idle
LEMMA OthersIdle ==
  ASSUME TypeOK, LoneInv, NEW p \in Callers, Step(p), ~overlapped'
  PROVE  ~overlapped /\ \A q \in Callers \ {p} : pc[q] = "idle" /\ pc'[q] = "idle"
<1>1. /\ \A q \in Callers \ {p} : pc'[q] = pc[q]
      /\ \/ pc[p] # "idle" /\ overlapped' = overlapped
         \/ overlapped' = (overlapped \/ \E q \in Callers : q # p /\ pc[q] # "idle")
  BY OneMoves
<1>2. CASE pc[p] # "idle" /\ overlapped' = overlapped
  BY <1>1, <1>2 DEF LoneInv
<1>3. CASE overlapped' = (overlapped \/ \E q \in Callers : q # p /\ pc[q] # "idle")
  BY <1>1, <1>3
<1> QED
  BY <1>1, <1>2, <1>3

LEMMA LoneStep ==
  ASSUME TypeOK, LoneInv, NEW p \in Callers, Step(p)
  PROVE  LoneInv'
BY OthersIdle DEF LoneInv

-----------------------------------------------------------------------------
\* Reconcile cleans.  The generation it has read is the session's, for no other request is
\* there to advance it; after the first update the gates are clean, after the second the
\* checks too.

Clean(table) == \A k \in Rows : ~Stale(table[k], gen)

CleanInv ==
    ~overlapped => \A p \in Callers \ hit :
        /\ pc[p] = "stale_gates"  => seen[p] = gen
        /\ pc[p] = "stale_checks" => seen[p] = gen /\ Clean(gates)
        /\ pc[p] \in {"gate_phase", "api_gate"} => Clean(gates) /\ Clean(checks)

Cleaning == {"stale_gates", "stale_checks", "gate_phase", "api_gate"}

\* Nothing but reconcile leads there
LEMMA OnlyReconcile ==
  ASSUME TypeOK, NEW p \in Callers, Step(p), ~Reconcile(p), ~Fault(p)
  PROVE  pc'[p] \notin Cleaning
<1> USE DEF TypeOK, Jump, Cleaning
<1>1. CASE Request(p)
  BY <1>1 DEF Request, StartTurn, StartResolve, StartConflict
<1>2. CASE Resolve(p)
  BY <1>2 DEF Resolve, RollRefused, RollBlocked, Blocked, Roll, ApplyEffects, InsertResult,
     CloseCheck, CloseGate, CloseOpenGate, AnswerGate, FollowUp, EffectDone, AfterResolve
<1>3. CASE Tool(p)
  BY <1>3 DEF Tool, GatePhase, EndTurn, RollCheck, RequestRoll, CancelChecks, CancelGates,
     MintContract, ReadForInsert, PutCheck, PutGate, AfterGate
<1>4. CASE Frame(p)
  BY <1>4 DEF Frame, OpenFrame, PutFrame, CloseFrame, CascadeGates, CascadeChecks, CascadeFrame,
     Bump, FindFrame, PutNewFrame, NotHandled, OpenChoiceGate, AttachGate, DeclareAction,
     ExitFrame, AfterFrame
<1>5. CASE Api(p)
  BY <1>5 DEF Api, ApiGate, SupersedeGate, SupersedeCheck, ApiContract, ApiNoCheck, Choose,
     ApiCheck, CloseAskedCheck, AnswerWithoutDice, AfterDrop
<1> QED
  BY <1>1, <1>2, <1>3, <1>4, <1>5 DEF Step

\* An update of the rows that are stale leaves none
LEMMA SetAllCleans ==
  ASSUME NEW table \in [Rows -> Row], NEW g,
         NEW after, after = SetAll(table, {k \in Rows : Stale(table[k], g)}, "superseded"),
         NEW k \in Rows
  PROVE  ~Stale(after[k], g)
<1>1. table[k] \in Row
  OBVIOUS
<1>2. CASE Stale(table[k], g)
  BY <1>1, <1>2 DEF SetAll, Row, Stale
<1>3. CASE ~Stale(table[k], g)
  BY <1>3 DEF SetAll
<1> QED
  BY <1>2, <1>3

LEMMA CleanStep ==
  ASSUME TypeOK, LoneInv, CleanInv, NEW p \in Callers, Step(p)
  PROVE  CleanInv'
<1> SUFFICES ASSUME ~overlapped', NEW q \in Callers, q \notin hit', pc'[q] \in Cleaning
             PROVE  /\ pc'[q] = "stale_gates"  => seen'[q] = gen'
                    /\ pc'[q] = "stale_checks" => seen'[q] = gen' /\ Clean(gates)'
                    /\ pc'[q] \in {"gate_phase", "api_gate"} => Clean(gates)' /\ Clean(checks)'
  BY DEF CleanInv, Cleaning
<1>1. ~overlapped /\ q = p
  BY OthersIdle DEF Cleaning
<1>2. ~Fault(p)
  BY <1>1 DEF Fault, Abort, FailTool, ReadLost, BlockedUnrecorded, Skip, Hit
<1>3. Reconcile(p)
  BY <1>1, <1>2, OnlyReconcile
<1>4. p \notin hit /\ UNCHANGED <<gen, frames>>
  BY <1>1, <1>3 DEF Reconcile, ReadGeneration, SupersedeStaleGates, SupersedeStaleChecks, db, past
<1>5. CASE ReadGeneration(p)
  BY <1>1, <1>5 DEF TypeOK, ReadGeneration, Jump, db
<1>6. CASE SupersedeStaleGates(p)
  <2>1. pc[p] = "stale_gates" /\ pc'[p] = "stale_checks" /\ seen' = seen
    BY <1>6 DEF TypeOK, SupersedeStaleGates, Jump, locals
  <2>2. seen[p] = gen
    BY <1>1, <1>4, <2>1 DEF CleanInv
  <2>3. \A k \in Rows : ~Stale(gates'[k], gen)
    BY <1>6, <2>2, SetAllCleans DEF TypeOK, SupersedeStaleGates
  <2>4. Clean(gates)'
    BY <1>4, <2>3 DEF Clean, Stale, Live
  <2> QED
    BY <1>1, <1>4, <2>1, <2>2, <2>4
<1>7. CASE SupersedeStaleChecks(p)
  <2>1. /\ pc[p] = "stale_checks" /\ gates' = gates
        /\ pc'[p] \notin {"stale_gates", "stale_checks"}
    BY <1>7 DEF TypeOK, SupersedeStaleChecks, AfterReconcile, Jump
  <2>2. seen[p] = gen /\ Clean(gates)
    BY <1>1, <1>4, <2>1 DEF CleanInv
  <2>3. \A k \in Rows : ~Stale(checks'[k], gen)
    BY <1>7, <2>2, SetAllCleans DEF TypeOK, SupersedeStaleChecks
  <2>4. Clean(gates)' /\ Clean(checks)'
    BY <1>4, <2>1, <2>2, <2>3 DEF Clean, Stale, Live
  <2> QED
    BY <1>1, <2>1, <2>4
<1> QED
  BY <1>3, <1>5, <1>6, <1>7 DEF Reconcile

LEMMA LoneInvariant == Spec => [](TypeOK /\ AgeInv /\ LoneInv)
<1>1. Init => LoneInv
  BY DEF Init, LoneInv
<1>2. TypeOK /\ LoneInv /\ [Next]_vars => LoneInv'
  <2>1. CASE UNCHANGED vars
    BY <2>1 DEF LoneInv, vars, past
  <2> QED
    BY <2>1, LoneStep DEF Next, Step
<1> QED
  BY <1>1, <1>2, AgeInvariant, PTL DEF Spec

LEMMA CleanInvariant == Spec => []CleanInv
<1>1. Init => CleanInv
  BY DEF Init, CleanInv
<1>2. TypeOK /\ LoneInv /\ CleanInv /\ [Next]_vars => CleanInv'
  <2>1. ASSUME CleanInv, UNCHANGED vars PROVE CleanInv'
    BY <2>1 DEF CleanInv, Clean, Stale, Live, vars, db, locals, past
  <2> QED
    BY <2>1, CleanStep DEF Next, Step
<1> QED
  BY <1>1, <1>2, LoneInvariant, PTL DEF Spec

\* As long as requests do not overlap, every request that meets no failure routes its input over
\* clean tables, whatever failed in the requests before it (reconcile_session).
THEOREM InputAlwaysClean == Spec => []CleanBeforeInput
<1>1. CleanInv => CleanBeforeInput
  BY DEF CleanInv, Clean, CleanBeforeInput
<1> QED
  BY <1>1, CleanInvariant, PTL

-----------------------------------------------------------------------------
\* A row above the counter has never been anything, and nobody holds its number

FreshInv ==
    /\ \A k \in Rows : k > rows => contracts[k] = "none" /\ results[k] = 0 /\ applied[k] = 0
    /\ \A p \in Callers : cur[p] <= rows

LEMMA LatestFresh ==
  ASSUME TypeOK, NEW S \in SUBSET Rows, \A k \in S : k <= rows
  PROVE  Latest(S) <= rows
<1>1. CASE S = {}
  BY <1>1 DEF Latest, None, TypeOK
<1>2. CASE S # {}
  BY <1>2, LatestMember
<1> QED
  BY <1>1, <1>2

LEMMA FreshStep ==
  ASSUME TypeOK, AgeInv, FreshInv, NEW p \in Callers, Step(p)
  PROVE  FreshInv'
<1> USE DEF TypeOK, FreshInv
<1>1. rows \in Nat /\ (rows < MaxRows => rows + 1 \in Rows) /\ \A k \in Rows : k \in Nat
  BY BoundsAssumption DEF Rows
<1>2. Latest(Answerable) <= rows /\ Latest(Unresolved) <= rows
  <2>1. Answerable \in SUBSET Rows /\ \A k \in Answerable : k <= rows
    BY <1>1 DEF Answerable, AgeInv, RowFresh
  <2>2. Unresolved \in SUBSET Rows /\ \A k \in Unresolved : k <= rows
    BY <1>1 DEF Unresolved
  <2> QED
    BY <2>1, <2>2, LatestFresh
<1>3. CASE Request(p)
  <2>1. UNCHANGED <<rows, contracts, results, applied>> /\ cur' = [cur EXCEPT ![p] = None]
    BY <1>3 DEF Request, StartTurn, StartResolve, StartConflict, Begin, db
  <2> QED
    BY <1>1, <2>1 DEF None
<1>4. CASE Reconcile(p)
  BY <1>4 DEF Reconcile, ReadGeneration, SupersedeStaleGates, SupersedeStaleChecks, db, counts,
     locals
<1>5. CASE Resolve(p)
  <2>1. CASE RollBlocked(p) \/ InsertResult(p)
    <3>1. UNCHANGED <<rows, contracts, applied, cur>> /\ results' = [results EXCEPT ![cur[p]] = @ + 1]
      BY <2>1 DEF RollBlocked, Blocked, InsertResult, counts, locals
    <3> QED
      BY <1>1, <3>1
  <2>2. CASE ApplyEffects(p)
    <3>1. /\ UNCHANGED <<results, cur>> /\ applied' = [applied EXCEPT ![cur[p]] = @ + 1]
          /\ \/ UNCHANGED <<contracts, rows>>
             \/ rows' = rows + 1 /\ contracts' = [contracts EXCEPT ![rows + 1] = "effect"]
      BY <2>2 DEF ApplyEffects
    <3> QED
      BY <1>1, <3>1
  <2>3. CASE FollowUp(p)
    BY <1>1, <1>2, <2>3 DEF FollowUp, db, counts
  <2>4. CASE RollRefused(p) \/ Roll(p) \/ CloseCheck(p) \/ CloseGate(p) \/ CloseOpenGate(p) \/
             AnswerGate(p) \/ EffectDone(p)
    BY <2>4 DEF RollRefused, Roll, CloseCheck, CloseGate, CloseOpenGate, AnswerGate, EffectDone,
       db, counts, locals
  <2> QED
    BY <1>5, <2>1, <2>2, <2>3, <2>4 DEF Resolve
<1>6. CASE Tool(p)
  <2>1. CASE RollCheck(p)
    <3>1. /\ rows' = rows + 1 /\ UNCHANGED <<results, applied>>
          /\ cur' = [cur EXCEPT ![p] = rows + 1]
          /\ \E kind \in {"skill", "attack"} : contracts' = [contracts EXCEPT ![rows + 1] = kind]
      BY <2>1 DEF RollCheck
    <3> QED
      BY <1>1, <3>1
  <2>2. CASE MintContract(p)
    <3>1. /\ rows' = rows + 1 /\ UNCHANGED <<results, applied, cur>>
          /\ \E kind \in {"skill", "san"} : contracts' = [contracts EXCEPT ![rows + 1] = kind]
      BY <2>2 DEF MintContract
    <3> QED
      BY <1>1, <3>1
  <2>3. CASE GatePhase(p)
    BY <1>1, <1>2, <2>3 DEF GatePhase, db, counts
  <2>4. CASE EndTurn(p) \/ RequestRoll(p) \/ CancelChecks(p) \/ CancelGates(p) \/
             ReadForInsert(p) \/ PutCheck(p) \/ PutGate(p)
    BY <2>4 DEF EndTurn, RequestRoll, CancelChecks, CancelGates, ReadForInsert, PutCheck, PutGate,
       db, counts, locals
  <2> QED
    BY <1>6, <2>1, <2>2, <2>3, <2>4 DEF Tool
<1>7. CASE Frame(p)
  <2>1. CASE OpenChoiceGate(p)
    BY <1>1, <2>1 DEF OpenChoiceGate, db
  <2>2. CASE DeclareAction(p)
    <3>1. /\ UNCHANGED <<results, applied, cur>>
          /\ \/ UNCHANGED <<contracts, rows>>
             \/ /\ rows' = rows + 1
                /\ \E kind \in {"skill", "attack"} :
                      contracts' = [contracts EXCEPT ![rows + 1] = kind]
      BY <2>2 DEF DeclareAction, locals
    <3> QED
      BY <1>1, <3>1
  <2>3. CASE OpenFrame(p) \/ PutFrame(p) \/ CloseFrame(p) \/ CascadeGates(p) \/
             CascadeChecks(p) \/ CascadeFrame(p) \/ Bump(p) \/ FindFrame(p) \/
             PutNewFrame(p) \/ NotHandled(p) \/ AttachGate(p) \/ ExitFrame(p)
    BY <2>3 DEF OpenFrame, PutFrame, CloseFrame, CascadeGates, CascadeChecks, CascadeFrame, Bump,
       FindFrame, PutNewFrame, NotHandled, AttachGate, ExitFrame, db, counts, locals
  <2> QED
    BY <1>7, <2>1, <2>2, <2>3 DEF Frame
<1>8. CASE Api(p)
  <2>1. CASE ApiContract(p) \/ ApiCheck(p)
    BY <1>1, <1>2, <2>1 DEF ApiContract, ApiCheck, db, counts
  <2>2. CASE ApiGate(p) \/ SupersedeGate(p) \/ SupersedeCheck(p) \/ ApiNoCheck(p) \/
             Choose(p) \/ CloseAskedCheck(p) \/ AnswerWithoutDice(p)
    BY <2>2 DEF ApiGate, SupersedeGate, SupersedeCheck, ApiNoCheck, Choose, CloseAskedCheck,
       AnswerWithoutDice, db, counts, locals
  <2> QED
    BY <1>8, <2>1, <2>2 DEF Api
<1>9. CASE Fault(p)
  BY <1>9 DEF Fault, Abort, FailTool, ReadLost, BlockedUnrecorded, Blocked, Skip, db, counts,
     locals
<1> QED
  BY <1>3, <1>4, <1>5, <1>6, <1>7, <1>8, <1>9 DEF Step

LEMMA FreshInvariant == Spec => []FreshInv
<1>1. Init => FreshInv
  BY DEF Init, FreshInv, None
<1>2. TypeOK /\ AgeInv /\ FreshInv /\ [Next]_vars => FreshInv'
  <2>1. ASSUME FreshInv, UNCHANGED vars PROVE FreshInv'
    BY <2>1 DEF FreshInv, vars, db, counts, locals
  <2> QED
    BY <2>1, FreshStep DEF Next, Step
<1> QED
  BY <1>1, <1>2, AgeInvariant, PTL DEF Spec

-----------------------------------------------------------------------------
\* A check is taken up while it is open or has no result.  Effects come first, then the result,
\* then the status: what a request has applied and not recorded, or recorded and not closed, it
\* still has in hand, or a failure has taken it out of its hands.

Applying(p, k) ==
    /\ cur[p] = k
    /\ \/ pc[p] = "result"
       \/ /\ pc[p] \in {"read_check", "put_check", "read_gate", "put_gate"}
          /\ contracts[new[p]] = "effect"
Closing(p, k) == cur[p] = k /\ pc[p] \in {"close_check", "effect_done"}
Rolling(p, k) == cur[p] = k /\ pc[p] \in {"roll", "post"}

Settled(k, n) == results[k] <= n /\ applied[k] <= n

Bounded   == \A k \in Rows : Settled(k, 1 + faults)
BareOnce  == \A k \in Rows : results[k] = 0 /\ (\A p \in Callers : ~Applying(p, k)) =>
                applied[k] <= faults
OpenOnce  == \A k \in Rows :
                checks[k].status = "open" /\ (\A p \in Callers : ~Applying(p, k) /\ ~Closing(p, k))
                  => Settled(k, faults)
InHand    == \A p \in Callers : \A k \in Rows :
                /\ Applying(p, k) => results[k] <= faults
                /\ Rolling(p, k) => Settled(k, faults)
MintedNew == \A p \in Callers : Minting(p) => new[p] \in Rows /\ Settled(new[p], 0)

SettleParts == Bounded /\ BareOnce /\ OpenOnce /\ InHand /\ MintedNew
SettleInv   == ~overlapped => SettleParts

Alone(p) == \A q \in Callers \ {p} : pc[q] = "idle" /\ pc'[q] = "idle"

\* A step that settles nothing, opens nothing and takes nothing out of hand
LEMMA SettleCalm ==
  ASSUME TypeOK, SettleParts, NEW p \in Callers, Alone(p),
         UNCHANGED <<results, applied, faults>>,
         \A k \in Rows : checks'[k].status = "open" => checks[k].status = "open",
         \A k \in Rows : /\ Applying(p, k)' <=> Applying(p, k)
                         /\ Closing(p, k) => Closing(p, k)' \/ checks'[k].status # "open"
                         /\ Rolling(p, k)' => Rolling(p, k),
         Minting(p)' => Minting(p) /\ new'[p] = new[p]
  PROVE  SettleParts'
<1>1. \A q \in Callers \ {p} : \A k \in Rows :
        /\ ~Applying(q, k) /\ ~Closing(q, k) /\ ~Rolling(q, k) /\ ~Minting(q)
        /\ ~Applying(q, k)' /\ ~Closing(q, k)' /\ ~Rolling(q, k)' /\ ~Minting(q)'
  BY DEF Alone, Applying, Closing, Rolling, Minting
<1>2. \A q \in Callers \ {p} : ~Minting(q)'
  BY DEF Alone, Minting
<1>4. Bounded'
  BY DEF SettleParts, Bounded, Settled
<1>5. BareOnce'
  BY <1>1 DEF SettleParts, BareOnce
<1>6. OpenOnce'
  BY <1>1 DEF SettleParts, OpenOnce, Settled
<1>7. InHand'
  BY <1>1 DEF SettleParts, InHand, Settled
<1>8. MintedNew'
  BY <1>2 DEF SettleParts, MintedNew, Settled
<1> QED
  BY <1>4, <1>5, <1>6, <1>7, <1>8 DEF SettleParts

\* A failure is the excuse of whatever it takes out of hand
LEMMA SettleFault ==
  ASSUME TypeOK, SettleParts, NEW p \in Callers, Alone(p), Fault(p)
  PROVE  SettleParts'
<1> USE DEF TypeOK
<1>1. UNCHANGED <<results, applied, new>> /\ faults' = faults + 1 /\ faults \in Nat
  BY BoundsAssumption DEF Fault, Hit, Abort, FailTool, ReadLost, BlockedUnrecorded, Blocked, Skip,
     db, counts, locals
<1>2. \A k \in Rows : /\ results'[k] <= faults' /\ applied'[k] <= faults'
                      /\ results'[k] <= 1 + faults' /\ applied'[k] <= 1 + faults'
  BY <1>1 DEF SettleParts, Bounded, Settled
<1>3. ASSUME NEW q \in Callers, Minting(q)' PROVE Minting(q)
  <2>1. q = p
    BY <1>3 DEF Alone, Minting
  <2>2. CASE Skip(p)
    BY <1>3, <2>1, <2>2 DEF Jump, Minting, Skip, Onward, AfterReconcile, AfterResolve, AfterGate,
       AfterFrame, AfterDrop
  <2>3. CASE Abort(p) \/ FailTool(p) \/ ReadLost(p) \/ BlockedUnrecorded(p)
    BY <1>3, <2>1, <2>3 DEF Jump, Minting, Abort, FailTool, ReadLost, BlockedUnrecorded, Blocked
  <2> QED
    BY <2>2, <2>3 DEF Fault
<1>4. MintedNew'
  BY <1>1, <1>3 DEF SettleParts, MintedNew, Settled
<1>5. Bounded' /\ BareOnce' /\ OpenOnce' /\ InHand'
  BY <1>2 DEF Bounded, BareOnce, OpenOnce, InHand, Settled
<1> QED
  BY <1>4, <1>5 DEF SettleParts
\* A request takes up a check that is settled no oftener than failures excuse
LEMMA SettleTake ==
  ASSUME TypeOK, SettleParts, NEW p \in Callers, Alone(p),
         UNCHANGED <<results, applied, faults, checks>>,
         \A k \in Rows : /\ ~Applying(p, k) /\ ~Closing(p, k)
                         /\ ~Applying(p, k)'
                         /\ Rolling(p, k)' => Settled(k, faults),
         ~Minting(p)'
  PROVE  SettleParts'
<1>1. \A q \in Callers \ {p} : \A k \in Rows :
        /\ ~Applying(q, k) /\ ~Closing(q, k) /\ ~Rolling(q, k)
        /\ ~Applying(q, k)' /\ ~Closing(q, k)' /\ ~Rolling(q, k)'
  BY DEF Alone, Applying, Closing, Rolling
<1>2. \A q \in Callers : ~Minting(q)'
  BY DEF Alone, Minting
<1>3. Bounded'
  BY DEF SettleParts, Bounded, Settled
<1>4. BareOnce'
  BY <1>1 DEF SettleParts, BareOnce
<1>5. OpenOnce'
  BY <1>1 DEF SettleParts, OpenOnce, Settled
<1>6. InHand'
  BY <1>1 DEF SettleParts, InHand, Settled
<1>7. MintedNew'
  BY <1>2 DEF MintedNew
<1> QED
  BY <1>3, <1>4, <1>5, <1>6, <1>7 DEF SettleParts

\* The waiting check may be taken up, and so may a contract without a result
LEMMA TakenSettled ==
  ASSUME TypeOK, SettleParts, NEW p \in Callers, Alone(p),
         \A k \in Rows : ~Applying(p, k) /\ ~Closing(p, k)
  PROVE  /\ Answerable # {} => Latest(Answerable) \in Rows /\ Settled(Latest(Answerable), faults)
         /\ Unresolved # {} => Latest(Unresolved) \in Rows /\ Settled(Latest(Unresolved), faults)
<1>1. \A q \in Callers : \A k \in Rows : ~Applying(q, k) /\ ~Closing(q, k)
  BY DEF Alone, Applying, Closing
<1>2. ASSUME Answerable # {}
      PROVE  Latest(Answerable) \in Rows /\ Settled(Latest(Answerable), faults)
  <2>1. Latest(Answerable) \in Answerable
    BY <1>2, LatestMember DEF Answerable
  <2> QED
    BY <1>1, <2>1 DEF Answerable, SettleParts, OpenOnce
<1>3. ASSUME Unresolved # {}
      PROVE  Latest(Unresolved) \in Rows /\ Settled(Latest(Unresolved), faults)
  <2>1. Latest(Unresolved) \in Unresolved
    BY <1>3, LatestMember DEF Unresolved
  <2>2. faults \in Nat
    BY BoundsAssumption DEF TypeOK
  <2> QED
    BY <1>1, <2>1, <2>2 DEF Unresolved, SettleParts, BareOnce, Settled
<1> QED
  BY <1>2, <1>3

LEMMA TakeStep ==
  ASSUME TypeOK, FreshInv, SettleParts, NEW p \in Callers, Alone(p), Routes(p) \/ RollCheck(p)
  PROVE  SettleParts'
<1> USE DEF TypeOK, Jump
<1>1. /\ pc[p] \in {"gate_phase", "followup", "api_check", "tools"}
      /\ pc'[p] \notin {"result", "read_check", "put_check", "read_gate", "put_gate"}
      /\ UNCHANGED <<results, applied, faults, checks>>
  BY DEF Routes, GatePhase, FollowUp, ApiCheck, ApiContract, RollCheck, db, past
<1>2. \A k \in Rows : ~Applying(p, k) /\ ~Closing(p, k) /\ ~Applying(p, k)'
  BY <1>1 DEF Applying, Closing
<1>3. ~Minting(p)'
  BY <1>1 DEF Minting
<1>4. ASSUME NEW k \in Rows, Rolling(p, k)' PROVE Settled(k, faults)
  <2>1. k = cur'[p] /\ pc'[p] = "roll"
    BY <1>1, <1>4 DEF Rolling, Routes, GatePhase, FollowUp, ApiCheck, ApiContract, RollCheck
  <2>2. CASE RollCheck(p)
    <3>1. k = rows + 1 /\ rows \in Nat /\ faults \in Nat
      BY <2>1, <2>2, BoundsAssumption DEF RollCheck
    <3> QED
      BY <3>1 DEF FreshInv, Settled
  <2>3. CASE GatePhase(p)
    BY <1>2, <2>1, <2>3, TakenSettled DEF GatePhase
  <2>4. CASE FollowUp(p)
    <3>1. Latest(Answerable) # None /\ k = Latest(Answerable)
      BY <2>1, <2>4 DEF FollowUp
    <3>2. Answerable # {}
      BY <3>1 DEF Latest
    <3> QED
      BY <1>2, <3>1, <3>2, TakenSettled
  <2>5. CASE ApiCheck(p)
    BY <1>2, <2>1, <2>5, TakenSettled DEF ApiCheck
  <2>6. CASE ApiContract(p)
    BY <1>2, <2>1, <2>6, TakenSettled DEF ApiContract
  <2> QED
    BY <2>2, <2>3, <2>4, <2>5, <2>6 DEF Routes
<1> QED
  BY <1>1, <1>2, <1>3, <1>4, SettleTake

\* The result of the check in hand is recorded, and it is about to be closed
LEMMA RecordStep ==
  ASSUME TypeOK, SettleParts, NEW p \in Callers, Alone(p), RollBlocked(p) \/ InsertResult(p)
  PROVE  SettleParts'
<1> USE DEF TypeOK
<1>1. /\ UNCHANGED <<applied, faults, checks, cur>>
      /\ results' = [results EXCEPT ![cur[p]] = @ + 1]
      /\ pc[p] \in {"roll", "result"} /\ pc'[p] \in {"close_check", "effect_done"}
  BY DEF RollBlocked, Blocked, InsertResult, Jump, locals, past
<1>2. \A q \in Callers \ {p} : \A k \in Rows :
        /\ ~Applying(q, k) /\ ~Closing(q, k) /\ ~Rolling(q, k)
        /\ ~Applying(q, k)' /\ ~Closing(q, k)' /\ ~Rolling(q, k)'
  BY DEF Alone, Applying, Closing, Rolling
<1>3. \A k \in Rows : /\ Closing(p, k)' <=> k = cur[p]
                      /\ ~Applying(p, k)' /\ ~Rolling(p, k)'
                      /\ ~Closing(p, k) /\ (Applying(p, k) => k = cur[p])
                      /\ k = cur[p] => Applying(p, k) \/ Rolling(p, k)
  BY <1>1 DEF Applying, Closing, Rolling
<1>4. cur[p] \in Rows => results[cur[p]] <= faults
  BY <1>3 DEF SettleParts, InHand, Settled
<1>5. Bounded'
  BY <1>1, <1>4 DEF SettleParts, Bounded, Settled
<1>6. BareOnce'
  BY <1>1, <1>2, <1>3 DEF SettleParts, BareOnce
<1>7. OpenOnce'
  BY <1>1, <1>2, <1>3 DEF SettleParts, OpenOnce, Settled
<1>8. InHand'
  BY <1>2, <1>3 DEF InHand
<1>9. MintedNew'
  BY <1>1 DEF MintedNew, Minting, Alone
<1> QED
  BY <1>5, <1>6, <1>7, <1>8, <1>9 DEF SettleParts

\* Effects are applied: what was rolled in hand is now applied in hand
LEMMA EffectsStep ==
  ASSUME TypeOK, FreshInv, SettleParts, NEW p \in Callers, Alone(p), ApplyEffects(p)
  PROVE  SettleParts'
<1> USE DEF TypeOK
<1>1. /\ UNCHANGED <<results, faults, checks, cur>>
      /\ applied' = [applied EXCEPT ![cur[p]] = @ + 1]
      /\ pc[p] = "post"
  BY DEF ApplyEffects, past
<1>2. \/ pc'[p] = "result"
      \/ /\ pc'[p] = "read_check" /\ rows + 1 \in Rows
         /\ new'[p] = rows + 1 /\ contracts'[rows + 1] = "effect"
  BY BoundsAssumption DEF ApplyEffects, Jump, Rows
<1>3. \A q \in Callers \ {p} : \A k \in Rows :
        /\ ~Applying(q, k) /\ ~Closing(q, k) /\ ~Rolling(q, k)
        /\ ~Applying(q, k)' /\ ~Closing(q, k)' /\ ~Rolling(q, k)'
  BY DEF Alone, Applying, Closing, Rolling
<1>4. \A k \in Rows : /\ Applying(p, k)' <=> k = cur[p]
                      /\ ~Closing(p, k)' /\ ~Rolling(p, k)'
                      /\ ~Closing(p, k) /\ ~Applying(p, k)
                      /\ k = cur[p] => Rolling(p, k)
  BY <1>1, <1>2 DEF Applying, Closing, Rolling
<1>5. cur[p] \in Rows => Settled(cur[p], faults)
  BY <1>4 DEF SettleParts, InHand
<1>6. Bounded'
  BY <1>1, <1>5 DEF SettleParts, Bounded, Settled
<1>7. BareOnce'
  BY <1>1, <1>3, <1>4 DEF SettleParts, BareOnce
<1>8. OpenOnce'
  BY <1>1, <1>3, <1>4 DEF SettleParts, OpenOnce, Settled
<1>9. InHand'
  BY <1>1, <1>3, <1>4, <1>5 DEF InHand, Settled
<1>10. MintedNew'
  <2> SUFFICES ASSUME NEW q \in Callers, Minting(q)'
               PROVE  new'[q] \in Rows /\ results'[new'[q]] <= 0 /\ applied'[new'[q]] <= 0
    BY DEF MintedNew, Settled
  <2>1. q = p /\ new'[p] = rows + 1 /\ rows + 1 \in Rows /\ rows \in Nat
    BY <1>2 DEF Minting, Alone
  <2>2. cur[p] <= rows /\ results[rows + 1] = 0 /\ applied[rows + 1] = 0
    BY <2>1 DEF FreshInv
  <2> QED
    BY <1>1, <2>1, <2>2
<1> QED
  BY <1>6, <1>7, <1>8, <1>9, <1>10 DEF SettleParts
\* The contract of a new question: nobody has rolled it
LEMMA MintStep ==
  ASSUME TypeOK, FreshInv, SettleParts, NEW p \in Callers, Alone(p), MintContract(p)
  PROVE  SettleParts'
<1> USE DEF TypeOK
<1>1. /\ UNCHANGED <<results, applied, faults, checks, cur>>
      /\ pc[p] = "mint" /\ pc'[p] = "read_check" /\ rows + 1 \in Rows /\ rows \in Nat
      /\ new'[p] = rows + 1 /\ contracts'[rows + 1] # "effect"
  BY BoundsAssumption DEF MintContract, Jump, Rows, past
<1>2. \A q \in Callers : \A k \in Rows :
        /\ ~Applying(q, k) /\ ~Closing(q, k) /\ ~Rolling(q, k)
        /\ ~Applying(q, k)' /\ ~Closing(q, k)' /\ ~Rolling(q, k)'
  BY <1>1 DEF Alone, Applying, Closing, Rolling
<1>3. Bounded'
  BY <1>1 DEF SettleParts, Bounded, Settled
<1>4. BareOnce'
  BY <1>1, <1>2 DEF SettleParts, BareOnce
<1>5. OpenOnce'
  BY <1>1, <1>2 DEF SettleParts, OpenOnce, Settled
<1>6. InHand'
  BY <1>2 DEF InHand
<1>7. MintedNew'
  BY <1>1 DEF MintedNew, Minting, Alone, FreshInv, Settled
<1> QED
  BY <1>3, <1>4, <1>5, <1>6, <1>7 DEF SettleParts

\* The check that is put is one that has no result
LEMMA PutStep ==
  ASSUME TypeOK, SettleParts, NEW p \in Callers, Alone(p), PutCheck(p)
  PROVE  SettleParts'
<1> USE DEF TypeOK
<1>1. /\ UNCHANGED <<results, applied, faults, contracts, new, cur>>
      /\ pc[p] = "put_check" /\ pc'[p] = "read_gate" /\ faults \in Nat
      /\ \A k \in Rows : k # new[p] => checks'[k] = checks[k]
  BY BoundsAssumption DEF PutCheck, Jump, counts, locals, past
<1>2. new[p] \in Rows /\ Settled(new[p], 0)
  BY <1>1 DEF SettleParts, MintedNew, Minting
<1>3. \A q \in Callers : \A k \in Rows :
        /\ Applying(q, k)' <=> Applying(q, k)
        /\ ~Closing(q, k) /\ ~Rolling(q, k)
        /\ ~Closing(q, k)' /\ ~Rolling(q, k)'
  BY <1>1 DEF Alone, Applying, Closing, Rolling
<1>4. Bounded'
  BY <1>1 DEF SettleParts, Bounded, Settled
<1>5. BareOnce'
  BY <1>1, <1>3 DEF SettleParts, BareOnce
<1>6. OpenOnce'
  BY <1>1, <1>2, <1>3 DEF SettleParts, OpenOnce, Settled
<1>7. InHand'
  BY <1>1, <1>3 DEF SettleParts, InHand, Settled
<1>8. MintedNew'
  BY <1>1 DEF MintedNew, Minting, Alone
<1> QED
  BY <1>4, <1>5, <1>6, <1>7, <1>8 DEF SettleParts

LEMMA SetCloses ==
  ASSUME TypeOK, NEW k, NEW status \in Statuses \ {"open"},
         checks' = Set(checks, k, status) \/ checks' = SetIfOpen(checks, k, status)
  PROVE  /\ \A j \in Rows : checks'[j].status = "open" => checks[j].status = "open"
         /\ k \in Rows => checks'[k].status # "open"
<1>1. checks \in [Rows -> Row]
  BY DEF TypeOK
<1>2. CASE checks' = checks /\ checks[k].status # "open"
  BY <1>2
<1>3. CASE checks' = [checks EXCEPT ![k].status = status]
  <2>1. SUFFICES ASSUME NEW j \in Rows
                 PROVE  /\ checks'[j].status = "open" => checks[j].status = "open"
                        /\ j = k => checks'[j].status # "open"
    OBVIOUS
  <2>2. checks[j] \in Row
    BY <1>1
  <2>3. checks'[j] = IF j = k THEN [checks[j] EXCEPT !.status = status] ELSE checks[j]
    BY <1>1, <1>3
  <2> QED
    BY <2>2, <2>3 DEF Row
<1> QED
  BY <1>2, <1>3 DEF Set, SetIfOpen

LEMMA SetAllCloses ==
  ASSUME TypeOK, NEW S, NEW status \in Statuses \ {"open"}, checks' = SetAll(checks, S, status)
  PROVE  \A j \in Rows : checks'[j].status = "open" => checks[j].status = "open"
<1> SUFFICES ASSUME NEW j \in Rows PROVE checks'[j].status = "open" => checks[j].status = "open"
  OBVIOUS
<1>1. checks[j] \in Row
  BY DEF TypeOK
<1> QED
  BY <1>1 DEF SetAll, Row

\* What a step must be, of the caller that makes it, to be calm
Calm(p) ==
    /\ UNCHANGED <<results, applied, faults>>
    /\ \A k \in Rows : /\ checks'[k].status = "open" => checks[k].status = "open"
                       /\ Applying(p, k)' <=> Applying(p, k)
                       /\ Closing(p, k) => Closing(p, k)' \/ checks'[k].status # "open"
                       /\ Rolling(p, k)' => Rolling(p, k)
    /\ Minting(p)' => Minting(p) /\ new'[p] = new[p]

LEMMA RequestCalm ==
  ASSUME TypeOK, NEW p \in Callers, Request(p), faults' = faults
  PROVE  Calm(p)
<1>1. /\ UNCHANGED <<results, applied, checks>>
      /\ pc[p] = "idle" /\ pc'[p] \in {"reconcile", "conflict"}
  BY DEF TypeOK, Jump, Request, StartTurn, StartResolve, StartConflict, Begin, db
<1> QED
  BY <1>1 DEF Calm, Applying, Closing, Rolling, Minting

LEMMA ReconcileCalm ==
  ASSUME TypeOK, NEW p \in Callers, Reconcile(p)
  PROVE  Calm(p)
<1>1. UNCHANGED <<results, applied, faults>>
  BY DEF Reconcile, ReadGeneration, SupersedeStaleGates, SupersedeStaleChecks, db, past
<1>2. \A k \in Rows : checks'[k].status = "open" => checks[k].status = "open"
  <2>1. CASE SupersedeStaleChecks(p)
    BY <2>1, SetAllCloses DEF SupersedeStaleChecks, Statuses
  <2> QED
    BY <2>1 DEF Reconcile, ReadGeneration, SupersedeStaleGates, db
<1>3. /\ pc[p] \in {"reconcile", "stale_gates", "stale_checks"}
      /\ pc'[p] \in {"stale_gates", "stale_checks", "gate_phase", "tools", "api_gate"}
  BY DEF TypeOK, Jump, Reconcile, ReadGeneration, SupersedeStaleGates, SupersedeStaleChecks,
     AfterReconcile
<1> QED
  BY <1>1, <1>2, <1>3 DEF Calm, Applying, Closing, Rolling, Minting

LEMMA ResolveCalm ==
  ASSUME TypeOK, NEW p \in Callers, Resolve(p),
         ~FollowUp(p), ~RollBlocked(p), ~InsertResult(p), ~ApplyEffects(p)
  PROVE  Calm(p)
<1>1. UNCHANGED <<results, applied, faults, contracts, cur, new>>
  BY DEF Resolve, RollRefused, Roll, CloseCheck, CloseGate, CloseOpenGate, AnswerGate, EffectDone,
     db, locals, past
<1>2. CASE CloseCheck(p) \/ EffectDone(p)
  <2>1. /\ \A k \in Rows : checks'[k].status = "open" => checks[k].status = "open"
        /\ cur[p] \in Rows => checks'[cur[p]].status # "open"
    BY <1>2, SetCloses DEF CloseCheck, EffectDone, Statuses
  <2>2. /\ pc[p] \in {"close_check", "effect_done"}
        /\ pc'[p] \in {"answer_gate", "close_gate", "tools"}
    BY <1>2 DEF TypeOK, Jump, CloseCheck, EffectDone
  <2> QED
    BY <1>1, <2>1, <2>2 DEF Calm, Applying, Closing, Rolling, Minting
<1>3. CASE RollRefused(p) \/ Roll(p) \/ CloseGate(p) \/ CloseOpenGate(p) \/ AnswerGate(p)
  <2>1. checks' = checks
    BY <1>3 DEF RollRefused, Roll, CloseGate, CloseOpenGate, AnswerGate, db
  <2>2. \/ pc[p] = "roll" /\ pc'[p] \in {"post", "reconcile", "idle"}
        \/ /\ pc[p] \in {"close_gate", "close_open", "answer_gate"}
           /\ pc'[p] \in {"close_open", "reconcile", "tools", "followup", "effect_done", "idle"}
    BY <1>3 DEF TypeOK, Jump, RollRefused, Roll, CloseGate, CloseOpenGate, AnswerGate, AfterResolve
  <2> QED
    BY <1>1, <2>1, <2>2 DEF Calm, Applying, Closing, Rolling, Minting
<1> QED
  BY <1>2, <1>3 DEF Resolve

LEMMA ToolCalm ==
  ASSUME TypeOK, NEW p \in Callers, Tool(p),
         ~GatePhase(p), ~RollCheck(p), ~MintContract(p), ~PutCheck(p)
  PROVE  Calm(p)
<1>1. UNCHANGED <<results, applied, faults, contracts, cur, new>>
  BY DEF Tool, EndTurn, RequestRoll, CancelChecks, CancelGates, ReadForInsert, PutGate, db, counts,
     locals, past
<1>2. \A k \in Rows : checks'[k].status = "open" => checks[k].status = "open"
  <2>1. CASE CancelChecks(p)
    BY <2>1, SetAllCloses DEF CancelChecks, Statuses
  <2> QED
    BY <2>1 DEF Tool, EndTurn, RequestRoll, CancelGates, ReadForInsert, PutGate, db
<1>3. CASE PutGate(p)
  <2>1. /\ pc[p] = "put_gate"
        /\ pc'[p] = "result" <=> contracts[new[p]] = "effect"
        /\ pc'[p] \in {"result", "attach_read", "idle"}
    BY <1>3 DEF TypeOK, Jump, PutGate, AfterGate
  <2> QED
    BY <1>1, <1>2, <2>1 DEF Calm, Applying, Closing, Rolling, Minting
<1>4. CASE ReadForInsert(p)
  <2>1. \/ pc[p] = "read_check" /\ pc'[p] = "put_check"
        \/ pc[p] = "read_gate" /\ pc'[p] = "put_gate"
        \/ pc[p] = "attach_read" /\ pc'[p] = "attach"
    BY <1>4 DEF TypeOK, Jump, ReadForInsert
  <2> QED
    BY <1>1, <1>2, <2>1 DEF Calm, Applying, Closing, Rolling, Minting
<1>5. CASE EndTurn(p) \/ RequestRoll(p) \/ CancelChecks(p) \/ CancelGates(p)
  <2>1. /\ pc[p] \in {"tools", "cancel_checks", "cancel_gates"}
        /\ pc'[p] \in {"idle", "cancel_checks", "cancel_gates", "mint"}
    BY <1>5 DEF TypeOK, Jump, EndTurn, RequestRoll, CancelChecks, CancelGates
  <2> QED
    BY <1>1, <1>2, <2>1 DEF Calm, Applying, Closing, Rolling, Minting
<1> QED
  BY <1>3, <1>4, <1>5 DEF Tool

LEMMA FrameCalm ==
  ASSUME TypeOK, FreshInv, NEW p \in Callers, Frame(p)
  PROVE  Calm(p)
<1>1. UNCHANGED <<results, applied, faults>>
  BY DEF Frame, OpenFrame, PutFrame, CloseFrame, CascadeGates, CascadeChecks, CascadeFrame, Bump,
     FindFrame, PutNewFrame, NotHandled, OpenChoiceGate, AttachGate, DeclareAction, ExitFrame, db,
     past
<1>2. \A k \in Rows : checks'[k].status = "open" => checks[k].status = "open"
  <2>1. CASE CascadeChecks(p)
    BY <2>1, SetAllCloses DEF CascadeChecks, Statuses
  <2> QED
    BY <2>1 DEF Frame, OpenFrame, PutFrame, CloseFrame, CascadeGates, CascadeFrame, Bump,
       FindFrame, PutNewFrame, NotHandled, OpenChoiceGate, AttachGate, DeclareAction, ExitFrame, db
<1>3. CASE OpenChoiceGate(p)
  <2>1. /\ pc[p] = "conflict_act" /\ pc'[p] = "read_gate" /\ rows \in Nat /\ rows + 1 \in Rows
        /\ new'[p] = rows + 1 /\ contracts' = contracts
    BY <1>3, BoundsAssumption DEF TypeOK, Jump, OpenChoiceGate, Rows, db
  <2>2. contracts'[new'[p]] # "effect"
    BY <2>1 DEF FreshInv
  <2> QED
    BY <1>1, <1>2, <2>1, <2>2 DEF Calm, Applying, Closing, Rolling, Minting
<1>4. CASE ~OpenChoiceGate(p)
  <2> DEFINE Around == {"tools", "conflict", "conflict_act", "frame_put", "frame_new", "attach",
                        "close_gates", "close_checks", "close_frame", "bump", "idle"}
  <2>1. pc[p] \in Around /\ pc'[p] \in Around
    BY <1>4 DEF TypeOK, Jump, AfterFrame, Frame, OpenFrame, PutFrame, CloseFrame, CascadeGates,
       CascadeChecks, CascadeFrame, Bump, FindFrame, PutNewFrame, NotHandled, AttachGate,
       DeclareAction, ExitFrame
  <2> QED
    BY <1>1, <1>2, <2>1 DEF Calm, Applying, Closing, Rolling, Minting
<1> QED
  BY <1>3, <1>4

LEMMA ApiCalm ==
  ASSUME TypeOK, NEW p \in Callers, Api(p), ~ApiCheck(p), ~ApiContract(p)
  PROVE  Calm(p)
<1>1. UNCHANGED <<results, applied, faults>>
  BY DEF Api, ApiGate, SupersedeGate, SupersedeCheck, ApiNoCheck, Choose, CloseAskedCheck,
     AnswerWithoutDice, db, past
<1>2. \A k \in Rows : checks'[k].status = "open" => checks[k].status = "open"
  <2>1. CASE SupersedeCheck(p)
    BY <2>1, SetCloses DEF SupersedeCheck, Statuses
  <2>2. CASE CloseAskedCheck(p)
    BY <2>2, SetCloses DEF CloseAskedCheck, Statuses
  <2> QED
    BY <2>1, <2>2 DEF Api, ApiGate, SupersedeGate, ApiNoCheck, Choose, AnswerWithoutDice, db
<1>3. /\ pc[p] \in {"api_gate", "sup_gate", "sup_check", "api_check", "choice", "drop_check",
                   "abandon_check", "reopen", "abandon_gate"}
      /\ pc'[p] \in {"api_check", "sup_gate", "sup_check", "choice", "abandon_gate", "idle"}
  BY DEF TypeOK, Jump, AfterDrop, Api, ApiGate, SupersedeGate, SupersedeCheck, ApiNoCheck, Choose,
     CloseAskedCheck, AnswerWithoutDice
<1> QED
  BY <1>1, <1>2, <1>3 DEF Calm, Applying, Closing, Rolling, Minting

LEMMA SettleStep ==
  ASSUME TypeOK, LoneInv, FreshInv, SettleInv, NEW p \in Callers, Step(p)
  PROVE  SettleInv'
<1> SUFFICES ASSUME ~overlapped' PROVE SettleParts'
  BY DEF SettleInv
<1>1. ~overlapped /\ Alone(p)
  BY OthersIdle DEF Alone
<1>2. SettleParts
  BY <1>1 DEF SettleInv
<1>3. ASSUME Calm(p) PROVE SettleParts'
  BY <1>1, <1>2, <1>3, SettleCalm DEF Calm
<1>4. CASE Request(p)
  <2>1. faults' = faults
    BY <1>1, <1>4 DEF Alone, Request, StartTurn, StartResolve, StartConflict, Begin
  <2> QED
    BY <1>3, <1>4, <2>1, RequestCalm
<1>5. CASE Reconcile(p)
  BY <1>3, <1>5, ReconcileCalm
<1>6. CASE Resolve(p)
  <2>1. CASE FollowUp(p)
    BY <1>1, <1>2, <2>1, TakeStep DEF Routes
  <2>2. CASE RollBlocked(p) \/ InsertResult(p)
    BY <1>1, <1>2, <2>2, RecordStep
  <2>3. CASE ApplyEffects(p)
    BY <1>1, <1>2, <2>3, EffectsStep
  <2> QED
    BY <1>3, <1>6, <2>1, <2>2, <2>3, ResolveCalm
<1>7. CASE Tool(p)
  <2>1. CASE GatePhase(p) \/ RollCheck(p)
    BY <1>1, <1>2, <2>1, TakeStep DEF Routes
  <2>2. CASE MintContract(p)
    BY <1>1, <1>2, <2>2, MintStep
  <2>3. CASE PutCheck(p)
    BY <1>1, <1>2, <2>3, PutStep
  <2> QED
    BY <1>3, <1>7, <2>1, <2>2, <2>3, ToolCalm
<1>8. CASE Frame(p)
  BY <1>3, <1>8, FrameCalm
<1>9. CASE Api(p)
  <2>1. CASE ApiCheck(p) \/ ApiContract(p)
    BY <1>1, <1>2, <2>1, TakeStep DEF Routes
  <2> QED
    BY <1>3, <1>9, <2>1, ApiCalm
<1>10. CASE Fault(p)
  BY <1>1, <1>2, <1>10, SettleFault
<1> QED
  BY <1>4, <1>5, <1>6, <1>7, <1>8, <1>9, <1>10 DEF Step

\* As long as requests do not overlap, no check has more results, and the effects of none were
\* applied more often, than once and once more for every failure: whichever path takes a check
\* up, it finds it open or without a result (gate phase, API and follow-up of trpg-runtime).
THEOREM SettledOnceAlways == Spec => []SettledOnce
<1>1. Init => SettleInv
  BY DEF Init, SettleInv, SettleParts, Bounded, BareOnce, OpenOnce, InHand, MintedNew, Settled,
     Applying, Closing, Rolling, Minting, NoRow, None
<1>2. TypeOK /\ LoneInv /\ FreshInv /\ SettleInv /\ [Next]_vars => SettleInv'
  <2>1. ASSUME SettleInv, UNCHANGED vars PROVE SettleInv'
    BY <2>1 DEF SettleInv, SettleParts, Bounded, BareOnce, OpenOnce, InHand, MintedNew, Settled,
       Applying, Closing, Rolling, Minting, vars, db, counts, locals, past
  <2> QED
    BY <2>1, SettleStep DEF Next, Step
<1>3. TypeOK /\ SettleInv => SettledOnce
  BY DEF SettleInv, SettleParts, Bounded, Settled, SettledOnce
<1> QED
  BY <1>1, <1>2, <1>3, LoneInvariant, FreshInvariant, PTL DEF Spec

-----------------------------------------------------------------------------
\* What a step leaves of the rows that there are

\* Nothing is opened, nothing is made, and no row changes its owner or its generation.
Shrunk(old, young) ==
    \A k \in Rows : /\ young[k].owner = old[k].owner /\ young[k].gen = old[k].gen
                    /\ young[k].status = "open" => old[k].status = "open"
                    /\ (young[k].status = "none") <=> (old[k].status = "none")

LEMMA SetShrinks ==
  ASSUME NEW table \in [Rows -> Row], NEW k, NEW status \in Statuses \ {"none", "open"},
         NEW after, after = Set(table, k, status) \/ after = SetIfOpen(table, k, status)
  PROVE  Shrunk(table, after)
<1>1. CASE after = table
  BY <1>1 DEF Shrunk
<1>2. CASE after = [table EXCEPT ![k].status = status] /\ table[k].status # "none"
  <2> SUFFICES ASSUME NEW j \in Rows
               PROVE  /\ after[j].owner = table[j].owner /\ after[j].gen = table[j].gen
                      /\ after[j].status = "open" => table[j].status = "open"
                      /\ (after[j].status = "none") <=> (table[j].status = "none")
    BY DEF Shrunk
  <2>1. table[j] \in Row
    OBVIOUS
  <2>2. after[j] = IF j = k THEN [table[j] EXCEPT !.status = status] ELSE table[j]
    BY <1>2
  <2> QED
    BY <1>2, <2>1, <2>2 DEF Row
<1> QED
  BY <1>1, <1>2 DEF Set, SetIfOpen

LEMMA SetAllShrinks ==
  ASSUME NEW table \in [Rows -> Row], NEW S, NEW status \in Statuses \ {"none", "open"},
         \A k \in Rows : k \in S => table[k].status = "open",
         NEW after, after = SetAll(table, S, status)
  PROVE  Shrunk(table, after)
<1> SUFFICES ASSUME NEW j \in Rows
             PROVE  /\ after[j].owner = table[j].owner /\ after[j].gen = table[j].gen
                    /\ after[j].status = "open" => table[j].status = "open"
                    /\ (after[j].status = "none") <=> (table[j].status = "none")
  BY DEF Shrunk
<1>1. table[j] \in Row
  OBVIOUS
<1> QED
  BY <1>1 DEF SetAll, Row

\* A check is opened by its insert alone.
LEMMA ChecksShrink ==
  ASSUME TypeOK, NEW p \in Callers, Step(p), ~PutCheck(p)
  PROVE  Shrunk(checks, checks')
<1>1. checks \in [Rows -> Row]
  BY DEF TypeOK
<1>2. CASE CloseCheck(p) \/ EffectDone(p) \/ SupersedeCheck(p) \/ CloseAskedCheck(p)
  BY <1>1, <1>2, SetShrinks DEF CloseCheck, EffectDone, SupersedeCheck, CloseAskedCheck, Statuses
<1>3. CASE SupersedeStaleChecks(p) \/ CancelChecks(p) \/ CascadeChecks(p)
  BY <1>1, <1>3, SetAllShrinks DEF SupersedeStaleChecks, CancelChecks, CascadeChecks, Stale, Statuses
<1>4. CASE checks' = checks
  BY <1>4 DEF Shrunk
<1>5. CASE Request(p) \/ Reconcile(p)
  BY <1>3, <1>4, <1>5 DEF Request, StartTurn, StartResolve, StartConflict, Begin, Reconcile,
     ReadGeneration, SupersedeStaleGates, db
<1>6. CASE Resolve(p)
  BY <1>2, <1>4, <1>6 DEF Resolve, RollRefused, RollBlocked, Blocked, Roll, ApplyEffects,
     InsertResult, CloseGate, CloseOpenGate, AnswerGate, FollowUp, db
<1>7. CASE Tool(p)
  BY <1>3, <1>4, <1>7 DEF Tool, GatePhase, EndTurn, RollCheck, RequestRoll, CancelGates,
     MintContract, ReadForInsert, PutGate, db
<1>8. CASE Frame(p)
  BY <1>3, <1>4, <1>8 DEF Frame, OpenFrame, PutFrame, CloseFrame, CascadeGates, CascadeFrame, Bump,
     FindFrame, PutNewFrame, NotHandled, OpenChoiceGate, AttachGate, DeclareAction, ExitFrame, db
<1>9. CASE Api(p)
  BY <1>2, <1>4, <1>9 DEF Api, ApiGate, SupersedeGate, ApiContract, ApiNoCheck, Choose, ApiCheck,
     AnswerWithoutDice, db
<1>10. CASE Fault(p)
  BY <1>4, <1>10 DEF Fault, Abort, FailTool, ReadLost, BlockedUnrecorded, Blocked, Skip, db
<1> QED
  BY <1>5, <1>6, <1>7, <1>8, <1>9, <1>10 DEF Step

\* A gate is opened by its insert, or again by an answer that was none.
LEMMA GatesShrink ==
  ASSUME TypeOK, NEW p \in Callers, Step(p),
         ~PutGate(p), ~AttachGate(p), ~Choose(p), ~AnswerWithoutDice(p)
  PROVE  Shrunk(gates, gates')
<1>1. gates \in [Rows -> Row]
  BY DEF TypeOK
<1>2. CASE CloseGate(p) \/ CloseOpenGate(p) \/ AnswerGate(p) \/ SupersedeGate(p)
  <2>1. \/ gates' = gates
        \/ \E k, s : s \in Statuses \ {"none", "open"} /\
              (gates' = Set(gates, k, s) \/ gates' = SetIfOpen(gates, k, s))
    BY <1>2 DEF CloseGate, CloseOpenGate, AnswerGate, SupersedeGate, Statuses
  <2>2. CASE gates' = gates
    BY <2>2 DEF Shrunk
  <2> QED
    BY <1>1, <2>1, <2>2, SetShrinks
<1>3. CASE SupersedeStaleGates(p) \/ CancelGates(p) \/ CascadeGates(p)
  BY <1>1, <1>3, SetAllShrinks DEF SupersedeStaleGates, CancelGates, CascadeGates, Stale, Statuses
<1>4. CASE gates' = gates
  BY <1>4 DEF Shrunk
<1>5. CASE Request(p) \/ Reconcile(p)
  BY <1>3, <1>4, <1>5 DEF Request, StartTurn, StartResolve, StartConflict, Begin, Reconcile,
     ReadGeneration, SupersedeStaleChecks, db
<1>6. CASE Resolve(p)
  BY <1>2, <1>4, <1>6 DEF Resolve, RollRefused, RollBlocked, Blocked, Roll, ApplyEffects,
     InsertResult, CloseCheck, FollowUp, EffectDone, db
<1>7. CASE Tool(p)
  BY <1>3, <1>4, <1>7 DEF Tool, GatePhase, EndTurn, RollCheck, RequestRoll, CancelChecks,
     MintContract, ReadForInsert, PutCheck, db
<1>8. CASE Frame(p)
  BY <1>3, <1>4, <1>8 DEF Frame, OpenFrame, PutFrame, CloseFrame, CascadeChecks, CascadeFrame, Bump,
     FindFrame, PutNewFrame, NotHandled, OpenChoiceGate, DeclareAction, ExitFrame, db
<1>9. CASE Api(p)
  BY <1>2, <1>4, <1>9 DEF Api, ApiGate, SupersedeCheck, ApiContract, ApiNoCheck, ApiCheck,
     CloseAskedCheck, db
<1>10. CASE Fault(p)
  BY <1>4, <1>10 DEF Fault, Abort, FailTool, ReadLost, BlockedUnrecorded, Blocked, Skip, db
<1> QED
  BY <1>5, <1>6, <1>7, <1>8, <1>9, <1>10 DEF Step

\* What a row asks for it asks for ever.
LEMMA ContractsKept ==
  ASSUME TypeOK, NEW p \in Callers, Step(p)
  PROVE  /\ rows' \in {rows, rows + 1} /\ rows' >= rows
         /\ \A k \in Rows : k <= rows => contracts'[k] = contracts[k]
<1> USE DEF TypeOK
<1>1. rows \in Nat /\ \A k \in Rows : k \in Nat
  BY BoundsAssumption DEF Rows
<1>2. CASE UNCHANGED <<rows, contracts>>
  BY <1>1, <1>2
<1>3. CASE rows' = rows + 1 /\ (contracts' = contracts \/
             \E kind : contracts' = [contracts EXCEPT ![rows + 1] = kind])
  BY <1>1, <1>3
<1>4. CASE Request(p) \/ Reconcile(p)
  BY <1>2, <1>4 DEF Request, StartTurn, StartResolve, StartConflict, Begin, Reconcile,
     ReadGeneration, SupersedeStaleGates, SupersedeStaleChecks, db, counts
<1>5. CASE Resolve(p)
  BY <1>2, <1>3, <1>5 DEF Resolve, RollRefused, RollBlocked, Blocked, Roll, ApplyEffects,
     InsertResult, CloseCheck, CloseGate, CloseOpenGate, AnswerGate, FollowUp, EffectDone, db, counts
<1>6. CASE Tool(p)
  BY <1>2, <1>3, <1>6 DEF Tool, GatePhase, EndTurn, RollCheck, RequestRoll, CancelChecks,
     CancelGates, MintContract, ReadForInsert, PutCheck, PutGate, db, counts
<1>7. CASE Frame(p)
  BY <1>2, <1>3, <1>7 DEF Frame, OpenFrame, PutFrame, CloseFrame, CascadeGates, CascadeChecks,
     CascadeFrame, Bump, FindFrame, PutNewFrame, NotHandled, OpenChoiceGate, AttachGate,
     DeclareAction, ExitFrame, db, counts
<1>8. CASE Api(p)
  BY <1>2, <1>8 DEF Api, ApiGate, SupersedeGate, SupersedeCheck, ApiContract, ApiNoCheck, Choose,
     ApiCheck, CloseAskedCheck, AnswerWithoutDice, db, counts
<1>9. CASE Fault(p)
  BY <1>2, <1>9 DEF Fault, Abort, FailTool, ReadLost, BlockedUnrecorded, Blocked, Skip, db, counts
<1> QED
  BY <1>4, <1>5, <1>6, <1>7, <1>8, <1>9 DEF Step

-----------------------------------------------------------------------------
\* A closed frame has no open children, as long as nothing fails and requests do not overlap

Child(k, f) == gates[k].status = "open" /\ gates[k].owner = f

\* Only a gate without a check has a frame for its owner.
ChoiceRows == \A k \in Rows : gates[k].owner \in Frames => k <= rows /\ contracts[k] = "none"
CheckRows  == \A k \in Rows :
    checks[k].owner \notin Frames /\ (checks[k].status # "none" => contracts[k] # "none")

\* A frame with an open child is not closed, unless its cascade is about to begin.
Covered == \A k \in Rows : \A f \in Frames : Child(k, f) =>
    frames[f] # "closed" \/ \E p \in Callers : pc[p] = "close_gates" /\ frm[p] = f

\* The frame that a request is about to give a gate to is live; once its cascade has been through
\* the gates a frame has no child; a gate that is about to be answered is no child of a closed one.
Held(p) ==
    /\ pc[p] \in {"read_check", "put_check"} => new[p] \in 1..rows /\ contracts[new[p]] # "none"
    /\ pc[p] \in {"read_gate", "put_gate"} =>
          new[p] \in 1..rows /\ (contracts[new[p]] = "none" => Live(frm[p]))
    /\ pc[p] \in {"attach_read", "attach"} =>
          new[p] \in 1..rows /\ contracts[new[p]] = "none" /\ Live(frm[p])
    /\ pc[p] \in {"frame_new", "conflict_act"} => Live(frm[p])
    /\ pc[p] \in {"close_checks", "close_frame"} => \A k \in Rows : ~Child(k, frm[p])
    /\ pc[p] \in {"api_check", "choice", "reopen"} /\ gat[p] # None =>
          (gates[gat[p]].owner \in Frames => frames[gates[gat[p]].owner] # "closed")

Holding == {"read_check", "put_check", "read_gate", "put_gate", "attach_read", "attach",
            "frame_new", "conflict_act", "close_checks", "close_frame", "api_check", "choice", "reopen"}

ChildParts == ChoiceRows /\ CheckRows /\ Covered /\ \A p \in Callers : Held(p)
ChildInv   == ~overlapped /\ faults = 0 => ChildParts

LEMMA NewRow ==
  ASSUME TypeOK
  PROVE  /\ rows \in Nat /\ \A k \in Rows : k \in Nat
         /\ rows < MaxRows => rows + 1 \in Rows /\ rows + 1 \in 1..(rows + 1)
         /\ \A n : n \in 1..rows => n \in Rows /\ n <= rows
BY BoundsAssumption DEF TypeOK, Rows

LEMMA ChildRows ==
  ASSUME TypeOK, FreshInv, ChildParts, NEW p \in Callers, Step(p)
  PROVE  ChoiceRows' /\ CheckRows'
<1> USE DEF TypeOK
<1>1. rows \in Nat /\ rows' >= rows /\ \A k \in Rows : k <= rows => contracts'[k] = contracts[k]
  BY NewRow, ContractsKept
<1>2. ASSUME NEW k \in Rows, gates'[k].owner \in Frames
      PROVE  k <= rows' /\ contracts'[k] = "none"
  <2>1. rows' \in Nat /\ k \in Nat /\ rows' >= rows
    BY <1>1, ContractsKept, NewRow
  <2>2. CASE gates'[k].owner = gates[k].owner
    BY <1>1, <1>2, <2>1, <2>2 DEF ChildParts, ChoiceRows
  <2>3. CASE PutGate(p) \/ AttachGate(p)
    <3>1. /\ k # new[p] => gates'[k] = gates[k]
          /\ new[p] \in 1..rows
          /\ k = new[p] => contracts[k] = "none"
      BY <1>2, <2>3 DEF PutGate, AttachGate, Jump, Frames, None, ChildParts, Held
    <3> QED
      BY <1>1, <2>1, <2>2, <3>1, NewRow
  <2>4. CASE Choose(p) \/ AnswerWithoutDice(p)
    <3>1. \E s : gates' = Set(gates, gat[p], s)
      BY <2>4 DEF Choose, AnswerWithoutDice
    <3>2. gates'[k].owner = gates[k].owner
      <4>1. gates[k] \in Row
        OBVIOUS
      <4> QED
        BY <3>1, <4>1 DEF Set, Row
    <3> QED
      BY <2>2, <3>2
  <2> QED
    BY <2>2, <2>3, <2>4, GatesShrink DEF Shrunk
<1>3. ASSUME NEW k \in Rows
      PROVE  checks'[k].owner \notin Frames /\ (checks'[k].status # "none" => contracts'[k] # "none")
  <2>1. CASE ~PutCheck(p)
    <3>1. checks'[k].owner = checks[k].owner /\ (checks'[k].status # "none" => checks[k].status # "none")
      BY <2>1, ChecksShrink DEF Shrunk
    <3>2. contracts[k] # "none" => k <= rows
      BY <1>1, NewRow DEF FreshInv
    <3> QED
      BY <1>1, <3>1, <3>2 DEF ChildParts, CheckRows
  <2>2. CASE PutCheck(p)
    <3>1. /\ contracts' = contracts /\ (k # new[p] => checks'[k] = checks[k])
          /\ k = new[p] => contracts[k] # "none" /\ checks'[k].owner \in {None, Actor}
      BY <2>2 DEF PutCheck, Jump, ChildParts, Held
    <3>2. {None, Actor} \cap Frames = {}
      BY BoundsAssumption DEF None, Actor, Frames
    <3> QED
      BY <3>1, <3>2 DEF ChildParts, CheckRows
  <2> QED
    BY <2>1, <2>2
<1> QED
  BY <1>2, <1>3 DEF ChoiceRows, CheckRows

LEMMA CoveredCalm ==
  ASSUME Covered, NEW p \in Callers, Alone(p), pc[p] # "close_gates", Shrunk(gates, gates'),
         \A f \in Frames : frames[f] # "closed" => frames'[f] # "closed"
  PROVE  Covered'
<1> SUFFICES ASSUME NEW k \in Rows, NEW f \in Frames, Child(k, f)' PROVE frames'[f] # "closed"
  BY DEF Covered
<1>1. Child(k, f)
  BY DEF Child, Shrunk
<1>2. \A q \in Callers : pc[q] # "close_gates"
  BY DEF Alone
<1> QED
  BY <1>1, <1>2 DEF Covered

\* A new or reopened child belongs to a frame that is not closed.
LEMMA CoveredOpened ==
  ASSUME Covered, NEW p \in Callers, Alone(p), pc[p] # "close_gates", frames' = frames, NEW g,
         \A k \in Rows \ {g} : gates'[k] = gates[k],
         g \in Rows /\ gates'[g].owner \in Frames => frames[gates'[g].owner] # "closed"
  PROVE  Covered'
<1> SUFFICES ASSUME NEW k \in Rows, NEW f \in Frames, Child(k, f)' PROVE frames[f] # "closed"
  BY DEF Covered
<1>1. \A q \in Callers : pc[q] # "close_gates"
  BY DEF Alone
<1>2. CASE k = g
  BY <1>2 DEF Child
<1>3. CASE k # g
  <2>1. Child(k, f)
    BY <1>3 DEF Child
  <2> QED
    BY <1>1, <2>1 DEF Covered
<1> QED
  BY <1>2, <1>3

LEMMA CoveredStep ==
  ASSUME TypeOK, ChildParts, NEW p \in Callers, Step(p), ~Fault(p), Alone(p)
  PROVE  Covered'
<1> USE DEF TypeOK
<1>1. Covered
  BY DEF ChildParts
<1>2. CASE PutGate(p)
  <2>1. /\ frames' = frames /\ pc[p] = "put_gate"
        /\ \A k \in Rows \ {new[p]} : gates'[k] = gates[k]
        /\ new[p] \in Rows => gates'[new[p]].owner =
                                (IF contracts[new[p]] = "none" THEN frm[p] ELSE None)
    BY <1>2 DEF PutGate, Jump
  <2>2. contracts[new[p]] = "none" => Live(frm[p])
    BY <2>1 DEF ChildParts, Held
  <2>3. new[p] \in Rows /\ gates'[new[p]].owner \in Frames => frames[gates'[new[p]].owner] # "closed"
    BY <2>1, <2>2, BoundsAssumption DEF Live, None, Frames
  <2> QED
    BY <1>1, <2>1, <2>3, CoveredOpened
<1>3. CASE AttachGate(p)
  <2>1. /\ frames' = frames /\ pc[p] = "attach"
        /\ \A k \in Rows \ {new[p]} : gates'[k] = gates[k]
    BY <1>3 DEF AttachGate, Jump
  <2>2. new[p] \in Rows => gates'[new[p]].owner = frm[p]
    <3>1. new[p] \in Rows => gates[new[p]] \in Row
      OBVIOUS
    <3> QED
      BY <1>3, <3>1 DEF AttachGate, Row
  <2>3. Live(frm[p])
    BY <2>1 DEF ChildParts, Held
  <2> QED
    BY <1>1, <2>1, <2>2, <2>3, CoveredOpened DEF Live
<1>4. CASE Choose(p) \/ AnswerWithoutDice(p)
  <2>1. /\ frames' = frames /\ pc[p] \in {"choice", "reopen", "abandon_gate"}
        /\ \E s \in Statuses \ {"none"} :
              gates' = Set(gates, gat[p], s) /\ (pc[p] = "abandon_gate" => s # "open")
    BY <1>4 DEF Choose, AnswerWithoutDice, Jump, Statuses
  <2>2. CASE pc[p] = "abandon_gate"
    <3>1. Shrunk(gates, gates')
      BY <2>1, <2>2, SetShrinks
    <3> QED
      BY <1>1, <2>1, <3>1, CoveredCalm
  <2>3. CASE pc[p] \in {"choice", "reopen"}
    <3>1. \A k \in Rows : gates'[k].owner = gates[k].owner /\ (k # gat[p] => gates'[k] = gates[k])
      <4> SUFFICES ASSUME NEW k \in Rows
                   PROVE  gates'[k].owner = gates[k].owner /\ (k # gat[p] => gates'[k] = gates[k])
        OBVIOUS
      <4>1. gates[k] \in Row
        OBVIOUS
      <4> QED
        BY <2>1, <4>1 DEF Set, Row
    <3>2. gat[p] \in Rows => gat[p] # None
      BY BoundsAssumption DEF Rows, None
    <3>3. gat[p] \in Rows /\ gates'[gat[p]].owner \in Frames => frames[gates'[gat[p]].owner] # "closed"
      BY <2>3, <3>1, <3>2 DEF ChildParts, Held
    <3> QED
      BY <1>1, <2>1, <3>1, <3>3, CoveredOpened
  <2> QED
    BY <2>1, <2>2, <2>3
<1>5. CASE CascadeGates(p)
  <2>1. /\ pc[p] = "close_gates" /\ UNCHANGED <<frames, frm>> /\ Shrunk(gates, gates')
        /\ \A k \in Rows : gates'[k] = IF gates[k].status = "open" /\ gates[k].owner = frm[p]
                                       THEN [gates[k] EXCEPT !.status = "superseded"] ELSE gates[k]
    BY <1>5, GatesShrink DEF CascadeGates, Jump, SetAll, PutGate, AttachGate, Choose,
       AnswerWithoutDice, locals
  <2> SUFFICES ASSUME NEW k \in Rows, NEW f \in Frames, Child(k, f)' PROVE frames[f] # "closed"
    BY <2>1 DEF Covered
  <2>2. gates[k] \in Row /\ Child(k, f)
    BY <2>1 DEF Child, Shrunk
  <2>3. f # frm[p]
    BY <2>1, <2>2 DEF Child, Row
  <2> QED
    BY <1>1, <2>2, <2>3 DEF Covered, Alone
<1>6. CASE CascadeFrame(p) \/ ExitFrame(p)
  <2>1. /\ gates' = gates /\ frm' = frm /\ frames' = [frames EXCEPT ![frm[p]] = "closed"]
        /\ \/ pc[p] = "close_frame"
           \/ pc[p] = "conflict_act" /\ pc'[p] = "close_gates"
    BY <1>6 DEF CascadeFrame, ExitFrame, Jump, locals
  <2> SUFFICES ASSUME NEW k \in Rows, NEW f \in Frames, Child(k, f)'
               PROVE  frames'[f] # "closed" \/ \E q \in Callers : pc'[q] = "close_gates" /\ frm'[q] = f
    BY DEF Covered
  <2>2. Child(k, f) /\ \A q \in Callers : pc[q] # "close_gates"
    BY <2>1 DEF Child, Alone
  <2>3. frames[f] # "closed"
    BY <1>1, <2>2 DEF Covered
  <2>4. pc[p] = "close_frame" => f # frm[p]
    BY <2>2 DEF ChildParts, Held
  <2> QED
    BY <2>1, <2>3, <2>4
<1>7. CASE /\ ~PutGate(p) /\ ~AttachGate(p) /\ ~Choose(p) /\ ~AnswerWithoutDice(p)
           /\ ~CascadeGates(p) /\ ~CascadeFrame(p) /\ ~ExitFrame(p)
  <2>1. Shrunk(gates, gates')
    BY <1>7, GatesShrink
  <2>2. /\ pc[p] # "close_gates"
        /\ frames' = frames \/ \E f \in 0..MaxFrames : frames' = [frames EXCEPT ![f] = "live"]
    <3>1. CASE Request(p) \/ Reconcile(p)
      BY <3>1 DEF Request, StartTurn, StartResolve, StartConflict, Begin, Reconcile, ReadGeneration,
         SupersedeStaleGates, SupersedeStaleChecks, Jump, db
    <3>2. CASE Resolve(p)
      BY <3>2 DEF Resolve, RollRefused, RollBlocked, Blocked, Roll, ApplyEffects, InsertResult,
         CloseCheck, CloseGate, CloseOpenGate, AnswerGate, FollowUp, EffectDone, Jump, db
    <3>3. CASE Tool(p)
      BY <3>3 DEF Tool, GatePhase, EndTurn, RollCheck, RequestRoll, CancelChecks, CancelGates,
         MintContract, ReadForInsert, PutCheck, PutGate, Jump, db
    <3>4. CASE Frame(p)
      <4>1. CASE PutFrame(p) \/ PutNewFrame(p) \/ FindFrame(p)
        BY <4>1, BoundsAssumption DEF PutFrame, PutNewFrame, FindFrame, Jump, Frames
      <4> QED
        BY <1>7, <3>4, <4>1 DEF Frame, OpenFrame, CloseFrame, CascadeChecks, Bump, NotHandled,
           OpenChoiceGate, DeclareAction, Jump, db
    <3>5. CASE Api(p)
      BY <3>5 DEF Api, ApiGate, SupersedeGate, SupersedeCheck, ApiContract, ApiNoCheck, Choose,
         ApiCheck, CloseAskedCheck, AnswerWithoutDice, Jump, db
    <3> QED
      BY <3>1, <3>2, <3>3, <3>4, <3>5 DEF Step
  <2>3. \A f \in Frames : frames[f] # "closed" => frames'[f] # "closed"
    BY <2>2
  <2> QED
    BY <1>1, <2>1, <2>2, <2>3, CoveredCalm
<1> QED
  BY <1>2, <1>3, <1>4, <1>5, <1>6, <1>7

\* What is held by the request that makes a step
LEMMA HeldRest ==
  ASSUME NEW p \in Callers, pc'[p] \notin Holding
  PROVE  Held(p)'
BY DEF Held, Holding

LEMMA HeldStep ==
  ASSUME TypeOK, FreshInv, ChildParts, NEW p \in Callers, Step(p), ~Fault(p), Alone(p)
  PROVE  Held(p)'
<1> USE DEF TypeOK
<1>1. Held(p) /\ ChoiceRows /\ CheckRows /\ Covered
  BY DEF ChildParts
<1>2. CASE Request(p) \/ Reconcile(p)
  <2>1. pc'[p] \notin Holding
    BY <1>2 DEF Holding, Request, StartTurn, StartResolve, StartConflict, Reconcile, ReadGeneration,
       SupersedeStaleGates, SupersedeStaleChecks, AfterReconcile, Jump
  <2> QED
    BY <2>1, HeldRest
<1>3. CASE Resolve(p)
  <2>1. CASE ApplyEffects(p)
    <3>1. pc'[p] \notin Holding \/ /\ pc'[p] = "read_check" /\ rows < MaxRows /\ rows' = rows + 1
                                   /\ new'[p] = rows + 1 /\ contracts'[rows + 1] = "effect"
      BY <2>1, NewRow DEF Holding, ApplyEffects, Jump
    <3> QED
      BY <3>1, HeldRest, NewRow DEF Held
  <2>2. CASE ~ApplyEffects(p)
    <3>1. pc'[p] \notin Holding
      BY <1>3, <2>2 DEF Holding, Resolve, RollRefused, RollBlocked, Blocked, Roll, InsertResult,
         CloseCheck, CloseGate, CloseOpenGate, AnswerGate, FollowUp, EffectDone, AfterResolve, Jump
    <3> QED
      BY <3>1, HeldRest
  <2> QED
    BY <2>1, <2>2
<1>4. CASE Tool(p)
  <2>1. CASE MintContract(p)
    <3>1. /\ pc'[p] = "read_check" /\ rows < MaxRows /\ rows' = rows + 1
          /\ new'[p] = rows + 1 /\ contracts'[rows + 1] # "none"
      BY <2>1, NewRow DEF MintContract, Jump
    <3> QED
      BY <3>1, NewRow DEF Held
  <2>2. CASE ReadForInsert(p)
    <3>1. /\ \/ pc[p] = "read_check" /\ pc'[p] = "put_check"
             \/ pc[p] = "read_gate" /\ pc'[p] = "put_gate"
             \/ pc[p] = "attach_read" /\ pc'[p] = "attach"
          /\ UNCHANGED <<rows, new, contracts, frm, frames>>
      BY <2>2 DEF ReadForInsert, Jump, db, counts
    <3> QED
      BY <1>1, <3>1 DEF Held, Live
  <2>3. CASE PutCheck(p)
    <3>1. /\ pc[p] = "put_check" /\ pc'[p] = "read_gate" /\ UNCHANGED <<rows, new, contracts>>
      BY <2>3 DEF PutCheck, Jump, counts, locals
    <3> QED
      BY <1>1, <3>1 DEF Held
  <2>4. CASE PutGate(p)
    <3>1. /\ pc[p] = "put_gate" /\ UNCHANGED <<rows, new, contracts, frm, frames>>
          /\ pc'[p] \notin Holding \/ (pc'[p] = "attach_read" /\ contracts[new[p]] = "none")
      BY <2>4 DEF Holding, PutGate, AfterGate, Jump, counts, locals
    <3> QED
      BY <1>1, <3>1, HeldRest DEF Held, Live
  <2>5. CASE ~MintContract(p) /\ ~ReadForInsert(p) /\ ~PutCheck(p) /\ ~PutGate(p)
    <3>1. pc'[p] \notin Holding
      BY <1>4, <2>5 DEF Holding, Tool, GatePhase, EndTurn, RollCheck, RequestRoll, CancelChecks,
         CancelGates, Jump
    <3> QED
      BY <3>1, HeldRest
  <2> QED
    BY <2>1, <2>2, <2>3, <2>4, <2>5
<1>5. CASE Frame(p)
  <2>1. CASE CascadeGates(p)
    <3>1. /\ pc'[p] = "close_checks" /\ frm' = frm
          /\ \A k \in Rows : gates'[k] = IF gates[k].status = "open" /\ gates[k].owner = frm[p]
                                         THEN [gates[k] EXCEPT !.status = "superseded"] ELSE gates[k]
      BY <2>1 DEF CascadeGates, Jump, SetAll, locals
    <3>2. \A k \in Rows : gates[k] \in Row
      OBVIOUS
    <3>3. \A k \in Rows : ~Child(k, frm[p])'
      BY <3>1, <3>2 DEF Child, Row
    <3> QED
      BY <3>1, <3>3 DEF Held
  <2>2. CASE CascadeChecks(p)
    <3>1. pc[p] = "close_checks" /\ pc'[p] = "close_frame" /\ UNCHANGED <<frm, gates>>
      BY <2>2 DEF CascadeChecks, Jump, locals
    <3> QED
      BY <1>1, <3>1 DEF Held, Child
  <2>3. CASE FindFrame(p) \/ PutNewFrame(p)
    <3>1. pc'[p] \in {"frame_new", "conflict_act"}
      BY <2>3 DEF FindFrame, PutNewFrame, Jump
    <3>2. frm'[p] \in Frames /\ frames'[frm'[p]] = "live"
      <4>1. CASE FindFrame(p)
        BY <4>1 DEF FindFrame, Live
      <4>2. CASE PutNewFrame(p)
        <5>1. Live(frm[p])
          BY <1>1, <4>2 DEF PutNewFrame, Jump, Held
        <5> QED
          BY <4>2, <5>1 DEF PutNewFrame, Live, locals
      <4> QED
        BY <2>3, <4>1, <4>2
    <3> QED
      BY <3>1, <3>2 DEF Held, Live
  <2>4. CASE OpenChoiceGate(p)
    <3>1. /\ pc[p] = "conflict_act" /\ pc'[p] = "read_gate" /\ UNCHANGED <<frm, frames>>
          /\ rows < MaxRows /\ rows' = rows + 1 /\ new'[p] = rows + 1
      BY <2>4 DEF OpenChoiceGate, Jump, db
    <3> QED
      BY <1>1, <3>1, NewRow DEF Held, Live
  <2>5. CASE /\ ~CascadeGates(p) /\ ~CascadeChecks(p) /\ ~FindFrame(p) /\ ~PutNewFrame(p)
             /\ ~OpenChoiceGate(p)
    <3>1. pc'[p] \notin Holding
      BY <1>5, <2>5 DEF Holding, Frame, OpenFrame, PutFrame, CloseFrame, CascadeFrame, Bump,
         NotHandled, AttachGate, DeclareAction, ExitFrame, AfterFrame, Jump
    <3> QED
      BY <3>1, HeldRest
  <2> QED
    BY <2>1, <2>2, <2>3, <2>4, <2>5
<1>6. CASE Api(p)
  <2>1. \A q \in Callers : pc[q] # "close_gates"
    BY <1>6 DEF Alone, Api, ApiGate, SupersedeGate, SupersedeCheck, ApiContract, ApiNoCheck, Choose,
       ApiCheck, CloseAskedCheck, AnswerWithoutDice, Jump
  <2>2. CASE ApiGate(p)
    <3>1. /\ pc'[p] \in {"api_check", "sup_gate"} /\ UNCHANGED <<gates, frames>>
          /\ gat'[p] = Latest(OpenGates)
      BY <2>2 DEF ApiGate, Jump, db
    <3>2. gat'[p] # None => gat'[p] \in OpenGates
      <4>1. OpenGates \in SUBSET Rows
        BY DEF OpenGates
      <4> QED
        BY <3>1, <4>1, LatestMember DEF Latest
    <3>3. gat'[p] # None => (gates[gat'[p]].owner \in Frames => frames[gates[gat'[p]].owner] # "closed")
      BY <1>1, <2>1, <3>2 DEF OpenGates, Covered, Child
    <3> QED
      BY <3>1, <3>3 DEF Held
  <2>3. CASE ApiNoCheck(p)
    <3>1. pc[p] = "api_check" /\ pc'[p] \in {"choice", "idle"} /\ UNCHANGED <<gates, frames, gat>>
      BY <2>3 DEF ApiNoCheck, Jump, db, locals
    <3> QED
      BY <1>1, <3>1 DEF Held
  <2>4. CASE ApiCheck(p)
    <3>1. /\ pc[p] = "api_check" /\ pc'[p] \in {"roll", "drop_check", "reopen", "abandon_check"}
          /\ UNCHANGED <<gates, frames>> /\ Answerable # {}
          /\ gat'[p] = IF gat[p] = None THEN Latest(Answerable) ELSE gat[p]
      BY <2>4 DEF ApiCheck, Jump, db
    <3>2. Latest(Answerable) \in Rows /\ checks[Latest(Answerable)].status = "open"
      <4>1. Answerable \in SUBSET Rows
        BY DEF Answerable
      <4> QED
        BY <3>1, <4>1, LatestMember DEF Answerable
    <3>3. gates[Latest(Answerable)].owner \notin Frames
      BY <1>1, <3>2 DEF ChoiceRows, CheckRows
    <3> QED
      BY <1>1, <3>1, <3>3 DEF Held
  <2>5. CASE ~ApiGate(p) /\ ~ApiNoCheck(p) /\ ~ApiCheck(p)
    <3>1. pc'[p] \notin Holding
      BY <1>6, <2>5 DEF Holding, Api, SupersedeGate, SupersedeCheck, ApiContract, Choose,
         CloseAskedCheck, AnswerWithoutDice, AfterDrop, Jump
    <3> QED
      BY <3>1, HeldRest
  <2> QED
    BY <2>2, <2>3, <2>4, <2>5
<1> QED
  BY <1>2, <1>3, <1>4, <1>5, <1>6 DEF Step

\* A step without a failure that leaves the requests apart
LEMMA Undisturbed ==
  ASSUME TypeOK, LoneInv, NEW p \in Callers, Step(p), ~overlapped', faults' = 0
  PROVE  ~overlapped /\ faults = 0 /\ Alone(p) /\ ~Fault(p)
<1>1. ~overlapped /\ Alone(p)
  BY OthersIdle DEF Alone
<1>2. CASE Fault(p)
  <2>1. faults' = faults + 1 /\ faults \in Nat
    BY <1>2, BoundsAssumption DEF TypeOK, Fault, Hit, Abort, FailTool, ReadLost, BlockedUnrecorded, Skip
  <2> QED
    BY <2>1
<1>3. CASE ~Fault(p)
  <2>1. faults' = faults
    BY <1>1, <1>3 DEF Alone, Step, Request, StartTurn, StartResolve, StartConflict, Begin, Reconcile,
       ReadGeneration, SupersedeStaleGates, SupersedeStaleChecks, Resolve, RollRefused, RollBlocked,
       Roll, ApplyEffects, InsertResult, CloseCheck, CloseGate, CloseOpenGate, AnswerGate, FollowUp,
       EffectDone, Tool, GatePhase, EndTurn, RollCheck, RequestRoll, CancelChecks, CancelGates,
       MintContract, ReadForInsert, PutCheck, PutGate, Frame, OpenFrame, PutFrame, CloseFrame,
       CascadeGates, CascadeChecks, CascadeFrame, Bump, FindFrame, PutNewFrame, NotHandled,
       OpenChoiceGate, AttachGate, DeclareAction, ExitFrame, Api, ApiGate, SupersedeGate,
       SupersedeCheck, ApiContract, ApiNoCheck, Choose, ApiCheck, CloseAskedCheck,
       AnswerWithoutDice, past
  <2> QED
    BY <1>1, <1>3, <2>1
<1> QED
  BY <1>2, <1>3

LEMMA ChildStep ==
  ASSUME TypeOK, LoneInv, FreshInv, ChildInv, NEW p \in Callers, Step(p)
  PROVE  ChildInv'
<1> SUFFICES ASSUME ~overlapped', faults' = 0 PROVE ChildParts'
  BY DEF ChildInv
<1>1. ~overlapped /\ faults = 0 /\ Alone(p) /\ ~Fault(p)
  BY Undisturbed
<1>2. ChildParts
  BY <1>1 DEF ChildInv
<1>3. ChoiceRows' /\ CheckRows'
  BY <1>2, ChildRows
<1>4. Covered' /\ Held(p)'
  BY <1>1, <1>2, CoveredStep, HeldStep
<1>5. \A q \in Callers \ {p} : Held(q)'
  BY <1>1 DEF Alone, Held
<1> QED
  BY <1>3, <1>4, <1>5 DEF ChildParts

\* A closed frame has no open gate and no open check of its own between two requests, as long as
\* requests do not overlap and no statement fails: neither the cascade nor the exit that writes
\* the status first leaves one behind, and nothing gives a closed frame a new one
\* (cascade_close_frame, attach_gate_to_frame, update_interaction_gate_status).
THEOREM ClosedFramesChildless == Spec => []ClosedFrameChildless
<1>1. Init => ChildInv
  <2> SUFFICES ASSUME Init PROVE ChildParts
    BY DEF ChildInv
  <2>1. /\ \A k \in Rows : gates[k] = NoRow /\ checks[k] = NoRow
        /\ \A p \in Callers : pc[p] = "idle"
        /\ None \notin Frames
    BY BoundsAssumption DEF Init, None, Frames
  <2> QED
    BY <2>1 DEF ChildParts, ChoiceRows, CheckRows, Covered, Child, Held, NoRow
<1>2. TypeOK /\ LoneInv /\ FreshInv /\ ChildInv /\ [Next]_vars => ChildInv'
  <2>1. ASSUME ChildInv, UNCHANGED vars PROVE ChildInv'
    BY <2>1 DEF ChildInv, ChildParts, ChoiceRows, CheckRows, Covered, Child, Held, Live, vars, db,
       counts, locals, past
  <2> QED
    BY <2>1, ChildStep DEF Next, Step
<1>3. ChildInv => ClosedFrameChildless
  <2> SUFFICES ASSUME ChildParts, Quiet, NEW f \in Frames, frames[f] = "closed", NEW k \in Rows
               PROVE  /\ checks[k].owner # f
                      /\ gates[k].owner = f => gates[k].status # "open"
    BY DEF ChildInv, ClosedFrameChildless
  <2> QED
    BY DEF ChildParts, CheckRows, Covered, Child, Quiet
<1> QED
  BY <1>1, <1>2, <1>3, LoneInvariant, FreshInvariant, PTL DEF Spec

-----------------------------------------------------------------------------
\* One check waits for the player, whatever fails

Asked == {k \in Rows : checks[k].status = "open" /\ checks[k].owner = None}
Extra == {k \in Rows : checks[k].status = "open" /\ checks[k].owner = Actor}

\* Who has cancelled what was open, and has not put a question of its own yet
Cleared(p) ==
    \/ pc[p] \in {"cancel_gates", "mint"}
    \/ pc[p] \in {"read_check", "put_check"} /\ contracts[new[p]] # "effect"

OwnerInv == \A k \in Rows : checks[k].owner \in {None, Actor}
AskedInv == ~overlapped =>
    /\ \A j, k \in Asked : j = k
    /\ \A p \in Callers : Cleared(p) => Asked = {}

LEMMA ShrunkSets ==
  ASSUME Shrunk(checks, checks')
  PROVE  Asked' \subseteq Asked /\ Extra' \subseteq Extra
BY DEF Shrunk, Asked, Extra

\* The insert of a check makes it the player's, or an effect's.
LEMMA PutSets ==
  ASSUME TypeOK, NEW p \in Callers, PutCheck(p)
  PROVE  /\ contracts[new[p]] = "effect" => Asked' \subseteq Asked /\ Extra' \subseteq Extra \cup {new[p]}
         /\ contracts[new[p]] # "effect" => Extra' \subseteq Extra /\ Asked' \subseteq Asked \cup {new[p]}
         /\ new[p] \in Rows => checks'[new[p]].gen = seen[p]
<1>1. checks' = [checks EXCEPT ![new[p]] =
                    [status |-> "open", gen |-> seen[p],
                     owner |-> IF contracts[new[p]] = "effect" THEN Actor ELSE None]]
  BY DEF PutCheck
<1>2. Actor # None
  BY BoundsAssumption DEF Actor, None
<1> QED
  BY <1>1, <1>2 DEF Asked, Extra, TypeOK

LEMMA OwnerStep ==
  ASSUME TypeOK, OwnerInv, NEW p \in Callers, Step(p)
  PROVE  OwnerInv'
<1>1. CASE PutCheck(p)
  BY <1>1 DEF PutCheck, OwnerInv, TypeOK
<1>2. CASE ~PutCheck(p)
  BY <1>2, ChecksShrink DEF Shrunk, OwnerInv
<1> QED
  BY <1>1, <1>2

\* Nothing but the cancellation leads to the insert of a question.
LEMMA ClearedBy ==
  ASSUME TypeOK, NEW p \in Callers, Step(p), Cleared(p)'
  PROVE  CancelChecks(p) \/ (Cleared(p) /\ ~PutCheck(p))
<1> USE DEF TypeOK, Jump
<1>1. CASE ApplyEffects(p)
  <2>1. /\ rows + 1 \in Rows \/ pc'[p] = "result"
        /\ pc'[p] # "result" => pc'[p] = "read_check" /\ new'[p] = rows + 1
                                  /\ contracts' = [contracts EXCEPT ![rows + 1] = "effect"]
    BY <1>1, NewRow DEF ApplyEffects
  <2> QED
    BY <2>1 DEF Cleared
<1>2. CASE MintContract(p)
  BY <1>2 DEF MintContract, Cleared, PutCheck
<1>3. CASE ReadForInsert(p) \/ ReadLost(p)
  <2>1. /\ UNCHANGED <<new, contracts>>
        /\ pc'[p] \in {"read_check", "put_check"} => pc[p] = "read_check"
        /\ pc'[p] \notin {"mint", "cancel_gates"}
    BY <1>3 DEF ReadForInsert, ReadLost, db
  <2> QED
    BY <2>1 DEF Cleared, PutCheck
<1>4. CASE CancelGates(p)
  BY <1>4 DEF CancelGates, Cleared, PutCheck
<1>5. CASE Skip(p)
  <2>1. /\ UNCHANGED <<new, contracts>> /\ pc'[p] = Onward(p) /\ pc'[p] # pc[p]
    BY <1>5 DEF Skip, db, locals
  <2>2. pc'[p] \notin {"read_check", "put_check", "cancel_gates"} /\ (pc'[p] = "mint" => pc[p] = "cancel_gates")
    BY <2>1 DEF Onward, AfterReconcile, AfterResolve, AfterGate, AfterFrame, AfterDrop
  <2> QED
    BY <2>1, <2>2 DEF Cleared, PutCheck
<1>6. CASE CancelChecks(p)
  BY <1>6
<1>7. CASE /\ ~ApplyEffects(p) /\ ~MintContract(p) /\ ~ReadForInsert(p) /\ ~ReadLost(p)
           /\ ~CancelGates(p) /\ ~Skip(p) /\ ~CancelChecks(p)
  <2>1. pc'[p] \notin {"read_check", "put_check", "cancel_gates", "mint"}
    <3>1. CASE Request(p) \/ Reconcile(p)
      BY <3>1 DEF Request, StartTurn, StartResolve, StartConflict, Reconcile, ReadGeneration,
         SupersedeStaleGates, SupersedeStaleChecks, AfterReconcile
    <3>2. CASE Resolve(p)
      BY <1>7, <3>2 DEF Resolve, RollRefused, RollBlocked, Blocked, Roll, InsertResult, CloseCheck,
         CloseGate, CloseOpenGate, AnswerGate, FollowUp, EffectDone, AfterResolve
    <3>3. CASE Tool(p)
      BY <1>7, <3>3 DEF Tool, GatePhase, EndTurn, RollCheck, RequestRoll, PutCheck, PutGate, AfterGate
    <3>4. CASE Frame(p)
      BY <3>4 DEF Frame, OpenFrame, PutFrame, CloseFrame, CascadeGates, CascadeChecks, CascadeFrame,
         Bump, FindFrame, PutNewFrame, NotHandled, OpenChoiceGate, AttachGate, DeclareAction,
         ExitFrame, AfterFrame
    <3>5. CASE Api(p)
      BY <3>5 DEF Api, ApiGate, SupersedeGate, SupersedeCheck, ApiContract, ApiNoCheck, Choose,
         ApiCheck, CloseAskedCheck, AnswerWithoutDice, AfterDrop
    <3>6. CASE Fault(p)
      BY <1>7, <3>6 DEF Fault, Abort, FailTool, BlockedUnrecorded, Blocked
    <3> QED
      BY <3>1, <3>2, <3>3, <3>4, <3>5, <3>6 DEF Step
  <2> QED
    BY <2>1 DEF Cleared
<1> QED
  BY <1>1, <1>2, <1>3, <1>4, <1>5, <1>6, <1>7

LEMMA AskedStep ==
  ASSUME TypeOK, LoneInv, AskedInv, NEW p \in Callers, Step(p)
  PROVE  AskedInv'
<1> SUFFICES ASSUME ~overlapped'
             PROVE  (\A j, k \in Asked' : j = k) /\ \A q \in Callers : Cleared(q)' => Asked' = {}
  BY DEF AskedInv
<1>1. /\ \A q \in Callers \ {p} : ~Cleared(q)'
      /\ \A j, k \in Asked : j = k
      /\ Cleared(p) => Asked = {}
  BY OthersIdle DEF AskedInv, Cleared
<1>2. CASE PutCheck(p)
  <2>1. pc[p] = "put_check" /\ pc'[p] = "read_gate"
    BY <1>2 DEF PutCheck, Jump, TypeOK
  <2>2. ~Cleared(p)'
    BY <2>1 DEF Cleared
  <2>3. contracts[new[p]] # "effect" => Asked = {}
    BY <1>1, <2>1 DEF Cleared
  <2> QED
    BY <1>1, <1>2, <2>2, <2>3, PutSets
<1>3. CASE ~PutCheck(p)
  <2>1. Asked' \subseteq Asked
    BY <1>3, ChecksShrink, ShrunkSets
  <2>2. Cleared(p)' => Asked' = {}
    <3>1. CASE CancelChecks(p)
      <4>1. \A k \in Rows : checks'[k].status # "open"
        <5> SUFFICES ASSUME NEW k \in Rows PROVE checks'[k].status # "open"
          OBVIOUS
        <5>1. checks[k] \in Row
          BY DEF TypeOK
        <5> QED
          BY <3>1, <5>1 DEF CancelChecks, SetAll, Row
      <4> QED
        BY <4>1 DEF Asked
    <3> QED
      BY <1>1, <2>1, <3>1, ClearedBy
  <2> QED
    BY <1>1, <2>1, <2>2
<1> QED
  BY <1>2, <1>3

\* Where a request is while there is no effect check
Shut(p) ==
    \/ pc[p] \in {"gate_phase", "api_gate", "api_check", "tools", "cancel_checks", "cancel_gates",
                  "mint", "read_check", "put_check"}
    \/ pc[p] \in {"roll", "post"} /\ back[p] # "effect"
    \/ pc[p] # "idle" /\ back[p] \in {"tools", "gate"}

Questions == {"skill", "san", "effect"}
Bundling  == {"tools", "roll", "post", "read_check", "put_check", "read_gate", "put_gate", "result",
              "close_check", "close_gate", "close_open", "followup"}
Effecting == {"tools", "roll", "post", "result", "close_check", "close_gate", "close_open",
              "effect_done"}

\* A hit is rolled by a bundle, which takes up its effect check, the newest of all, at the end; or
\* by the API, for a contract that nobody was asked about: then nothing else waits.
Stage(p) ==
    /\ Shut(p) => Extra = {}
    /\ pc[p] \in {"roll", "post"} => cur[p] \in Rows /\
          (back[p] \in {"bundle", "api"} \/
             (back[p] \in {"gate", "answer", "effect"} /\ contracts[cur[p]] # "attack"))
    /\ pc[p] \in {"read_check", "put_check"} =>
          /\ contracts[new[p]] \in Questions
          /\ contracts[new[p]] = "effect" => back[p] \in {"bundle", "api"}
    /\ pc[p] = "api_check" => \A k \in Asked : checks[k].gen = gen
    /\ back[p] = "api" /\ pc[p] \in {"roll", "post", "read_check", "put_check"} => Asked = {}
    /\ back[p] = "bundle" /\ pc[p] # "idle" =>
          /\ pc[p] \in Bundling /\ inp[p] = "words"
          /\ \A k \in Extra :
                k = rows /\ k = new[p] /\ checks[k].gen = gen /\ contracts[cur[p]] = "attack"
          /\ pc[p] \in {"read_check", "put_check", "read_gate", "put_gate"} =>
                new[p] = rows /\ contracts[new[p]] = "effect" /\ contracts[cur[p]] = "attack"
          /\ pc[p] = "put_check" => seen[p] = gen
    /\ back[p] = "effect" /\ pc[p] # "idle" =>
          pc[p] \in Effecting /\ inp[p] = "words" /\ Extra \subseteq {cur[p]}
    /\ pc[p] \in {"cancel_checks", "cancel_gates", "mint"} => back[p] = "tools"
    /\ (pc[p] = "followup" => back[p] = "bundle") /\ (pc[p] = "effect_done" => back[p] = "effect")
    /\ pc[p] \in {"frame_put", "close_gates", "close_checks", "close_frame", "bump"} =>
          back[p] \in {"tools", "conflict"}
    /\ pc[p] \in {"conflict", "conflict_act", "frame_new", "attach_read", "attach"} =>
          back[p] = "conflict"
    /\ pc[p] \in {"read_gate", "put_gate"} /\ contracts[new[p]] = "none" => back[p] = "conflict"
    /\ pc[p] \in {"reconcile", "stale_gates", "stale_checks"} => back[p] \in {"turn", "gate", "api"}
    /\ pc[p] \in {"api_gate", "api_check"} => back[p] = "api"

KindRows == \A k \in Rows :
    /\ checks[k].status # "none" => contracts[k] \in Questions
    /\ k \in Extra => contracts[k] = "effect"

InBundle(p) == pc[p] # "idle" /\ back[p] \in {"bundle", "effect"}

ExtraParts ==
    /\ hit = {}
    /\ \A j, k \in Extra : j = k
    /\ KindRows
    /\ Asked = {} \/ Extra = {} \/ \E p \in Callers : InBundle(p)
    /\ \A p \in Callers : Stage(p)
ExtraInv == ~overlapped /\ faults = 0 => ExtraParts

LEMMA KindStep ==
  ASSUME TypeOK, FreshInv, ExtraParts, NEW p \in Callers, Step(p)
  PROVE  KindRows'
<1> SUFFICES ASSUME NEW k \in Rows
             PROVE  /\ checks'[k].status # "none" => contracts'[k] \in Questions
                    /\ k \in Extra' => contracts'[k] = "effect"
  BY DEF KindRows
<1>1. /\ checks[k].status # "none" => contracts[k] \in Questions
      /\ k \in Extra => contracts[k] = "effect"
  BY DEF ExtraParts, KindRows
<1>2. CASE PutCheck(p)
  <2>1. /\ pc[p] = "put_check" /\ contracts' = contracts
        /\ k # new[p] => checks'[k] = checks[k]
        /\ checks'[new[p]].owner = Actor /\ k = new[p] => contracts[k] = "effect"
    <3>1. Actor # None
      BY BoundsAssumption DEF Actor, None
    <3> QED
      BY <1>2, <3>1 DEF PutCheck, Jump, TypeOK
  <2>2. contracts[new[p]] \in Questions
    BY <2>1 DEF ExtraParts, Stage
  <2> QED
    BY <1>1, <2>1, <2>2 DEF Extra
<1>3. CASE ~PutCheck(p)
  <2>1. /\ checks'[k].status # "none" => checks[k].status # "none"
        /\ k \in Extra' => k \in Extra
    BY <1>3, ChecksShrink, ShrunkSets DEF Shrunk
  <2>2. contracts[k] # "none" => contracts'[k] = contracts[k]
    <3>1. contracts[k] # "none" => k <= rows
      BY NewRow DEF FreshInv
    <3> QED
      BY <3>1, ContractsKept
  <2> QED
    BY <1>1, <2>1, <2>2 DEF Questions
<1> QED
  BY <1>2, <1>3

\* The newest of a set of rows
LEMMA LatestNewest ==
  ASSUME NEW S \in SUBSET Rows, NEW m \in S, \A j \in S : j <= m
  PROVE  Latest(S) = m
<1>1. Latest(S) \in S /\ \A j \in S : j <= Latest(S)
  <2>1. Latest(S) = CHOOSE k \in S : \A j \in S : j <= k
    BY DEF Latest
  <2> QED
    BY <2>1
<1>2. m \in Nat /\ Latest(S) \in Nat
  <2>1. \A k \in Rows : k \in Nat
    BY BoundsAssumption DEF Rows
  <2> QED
    BY <1>1, <2>1
<1> QED
  BY <1>1, <1>2

\* What can be taken up has been asked
LEMMA TakenUp ==
  ASSUME TypeOK, ExtraParts, Answerable # {}
  PROVE  /\ Latest(Answerable) \in Rows /\ Latest(Answerable) # None
         /\ contracts[Latest(Answerable)] \in Questions
<1>1. Latest(Answerable) \in Answerable
  BY LatestMember DEF Answerable
<1>2. Latest(Answerable) \in Rows /\ checks[Latest(Answerable)].status = "open"
  BY <1>1 DEF Answerable
<1> QED
  BY <1>2, BoundsAssumption DEF ExtraParts, KindRows, Rows, None

LEMMA RequestStage ==
  ASSUME TypeOK, NEW p \in Callers, Request(p)
  PROVE  Stage(p)'
<1>1. \/ pc'[p] = "reconcile" /\ back'[p] \in {"turn", "api"}
      \/ pc'[p] = "conflict" /\ back'[p] = "conflict"
  BY DEF Request, StartTurn, StartResolve, StartConflict, Jump, TypeOK
<1> QED
  BY <1>1 DEF Stage, Shut

LEMMA ReconcileStage ==
  ASSUME TypeOK, ExtraParts, NEW p \in Callers, Reconcile(p)
  PROVE  Stage(p)'
<1>1. Stage(p)
  BY DEF ExtraParts
<1>2. /\ UNCHANGED <<back, gen>> /\ pc[p] \in {"reconcile", "stale_gates", "stale_checks"}
      /\ Extra' \subseteq Extra
  <2>1. Extra' \subseteq Extra
    BY ChecksShrink, ShrunkSets DEF Step, PutCheck, Reconcile, ReadGeneration, SupersedeStaleGates,
       SupersedeStaleChecks, Jump
  <2> QED
    BY <2>1 DEF Reconcile, ReadGeneration, SupersedeStaleGates, SupersedeStaleChecks, Jump, TypeOK,
       db, locals
<1>3. back[p] \in {"turn", "gate", "api"} /\ (back[p] = "gate" => Extra = {})
  BY <1>1, <1>2 DEF Stage, Shut
<1>4. CASE ReadGeneration(p) \/ SupersedeStaleGates(p)
  <2>1. pc'[p] \in {"stale_gates", "stale_checks"}
    BY <1>4 DEF ReadGeneration, SupersedeStaleGates, Jump, TypeOK
  <2> QED
    BY <1>2, <1>3, <2>1 DEF Stage, Shut
<1>5. CASE SupersedeStaleChecks(p)
  <2>1. pc'[p] \in {"gate_phase", "tools"} \/ (pc'[p] = "api_gate" /\ back[p] \notin {"turn", "gate"})
    BY <1>5 DEF SupersedeStaleChecks, AfterReconcile, Jump, TypeOK
  <2>2. Extra' = {}
    <3> SUFFICES ASSUME NEW k \in Rows, checks'[k].status = "open", checks'[k].owner = Actor
                 PROVE  FALSE
      BY DEF Extra
    <3>1. checks[k] \in Row
      BY DEF TypeOK
    <3>2. Actor # None /\ ~Live(Actor)
      BY BoundsAssumption DEF Actor, None, Live, Frames
    <3> QED
      BY <1>5, <3>1, <3>2 DEF SupersedeStaleChecks, SetAll, Stale, Row
  <2> QED
    BY <1>2, <1>3, <2>1, <2>2 DEF Stage, Shut
<1> QED
  BY <1>4, <1>5 DEF Reconcile

LEMMA FollowUpStage ==
  ASSUME TypeOK, AgeInv, ExtraParts, NEW p \in Callers, FollowUp(p), Stage(p)
  PROVE  Stage(p)'
<1> DEFINE e == Latest(Answerable)
           takes == e # None /\ e # cur[p] /\ EffectLike(e)
<1>1. /\ pc[p] = "followup" /\ UNCHANGED <<gen, checks, contracts, new, inp, rows>>
      /\ takes => pc'[p] = "roll" /\ cur'[p] = e /\ back'[p] = "effect"
      /\ ~takes => pc'[p] = "tools" /\ cur'[p] = cur[p] /\ back'[p] = back[p]
  BY DEF FollowUp, Jump, TypeOK, db, counts
<1>2. Extra' = Extra /\ Asked' = Asked
  BY <1>1 DEF Extra, Asked
<1>3. CASE back[p] = "bundle"
  <2>1. inp[p] = "words"
    BY <1>1, <1>3 DEF Stage
  <2>2. ASSUME NEW x \in Extra PROVE takes /\ Extra = {e}
    <3>1. /\ x \in Rows /\ x = rows /\ x \in Answerable /\ contracts[x] = "effect"
          /\ contracts[cur[p]] = "attack" /\ \A k \in Extra : k = x
      BY <1>1, <1>3, <2>2 DEF Stage, Extra, Answerable, ExtraParts, KindRows
    <3>2. Answerable \in SUBSET Rows /\ \A k \in Answerable : k <= rows
      BY NewRow DEF Answerable, AgeInv, RowFresh
    <3>3. e = x
      BY <3>1, <3>2, LatestNewest
    <3>4. x # None
      BY <3>1, BoundsAssumption DEF Rows, None
    <3> QED
      BY <3>1, <3>3, <3>4 DEF EffectLike
  <2>3. CASE takes
    <3>1. Answerable # {}
      BY <2>3 DEF Latest
    <3>2. e \in Rows /\ contracts[e] # "attack"
      BY <3>1, TakenUp DEF Questions
    <3>3. Extra \subseteq {e}
      BY <2>2
    <3> QED
      BY <1>1, <1>2, <2>1, <2>3, <3>2, <3>3 DEF Stage, Shut, Effecting
  <2>4. CASE ~takes
    <3>1. Extra = {}
      BY <2>2, <2>4
    <3> QED
      BY <1>1, <1>2, <1>3, <2>1, <2>4, <3>1 DEF Stage, Shut, Bundling
  <2> QED
    BY <2>3, <2>4
<1>4. CASE back[p] # "bundle"
  <2>1. FALSE
    BY <1>1, <1>4 DEF Stage
  <2> QED
    BY <2>1
<1> QED
  BY <1>3, <1>4

LEMMA ResolveStage ==
  ASSUME TypeOK, AgeInv, FreshInv, ExtraParts, NEW p \in Callers, Resolve(p)
  PROVE  Stage(p)'
<1>1. Stage(p)
  BY DEF ExtraParts
<1>2. ASSUME checks' = checks PROVE Extra' = Extra /\ Asked' = Asked
  BY <1>2 DEF Extra, Asked
<1>3. CASE FollowUp(p)
  BY <1>1, <1>3, FollowUpStage
<1>4. CASE RollRefused(p) \/ Roll(p)
  <2>1. /\ pc[p] = "roll" /\ UNCHANGED <<gen, checks, contracts, rows, cur, new, back, inp>>
        /\ \/ pc'[p] = "post"
           \/ inp[p] = "roll" /\ pc'[p] = IF back[p] = "gate" THEN "reconcile" ELSE "idle"
    BY <1>4 DEF RollRefused, Roll, Jump, TypeOK, db, counts, locals
  <2> QED
    BY <1>1, <1>2, <2>1 DEF Stage, Shut, Bundling, Effecting
<1>5. CASE RollBlocked(p)
  <2>1. /\ pc[p] = "roll" /\ UNCHANGED <<gen, checks, contracts, rows, cur, new, inp>>
        /\ pc'[p] = IF back[p] = "effect" THEN "effect_done" ELSE "close_check"
        /\ back'[p] = IF back[p] = "bundle" THEN "tools" ELSE back[p]
    BY <1>5 DEF RollBlocked, Blocked, Jump, TypeOK, counts
  <2> QED
    BY <1>1, <1>2, <2>1 DEF Stage, Shut, Bundling, Effecting
<1>6. CASE ApplyEffects(p)
  <2>1. /\ pc[p] = "post" /\ UNCHANGED <<gen, checks, cur, back, inp>>
        /\ \/ pc'[p] = "result" /\ UNCHANGED <<contracts, rows, new>>
           \/ /\ pc'[p] = "read_check" /\ contracts[cur[p]] = "attack" /\ rows < MaxRows
              /\ rows' = rows + 1 /\ new'[p] = rows + 1
              /\ contracts' = [contracts EXCEPT ![rows + 1] = "effect"]
    BY <1>6 DEF ApplyEffects, Jump, TypeOK
  <2>2. CASE pc'[p] = "result"
    BY <1>1, <1>2, <2>1, <2>2 DEF Stage, Shut, Bundling, Effecting
  <2>3. CASE pc'[p] # "result"
    <3>1. cur[p] \in Rows /\ cur[p] # rows + 1 /\ rows + 1 \in Rows
      BY <1>1, <2>1, <2>3, NewRow DEF Stage, FreshInv
    <3>2. contracts'[new'[p]] = "effect" /\ contracts'[cur'[p]] = "attack"
      BY <2>1, <2>3, <3>1 DEF TypeOK
    <3>3. Extra = {} /\ back[p] \in {"bundle", "api"} /\ (back[p] = "api" => Asked = {})
      BY <1>1, <2>1, <2>3 DEF Stage, Shut
    <3>4. back[p] = "bundle" => inp[p] = "words"
      BY <1>1, <2>1 DEF Stage
    <3> QED
      BY <1>2, <2>1, <2>3, <3>2, <3>3, <3>4 DEF Stage, Shut, Bundling, Questions
  <2> QED
    BY <2>2, <2>3
<1>7. CASE InsertResult(p) \/ CloseGate(p) \/ CloseOpenGate(p) \/ AnswerGate(p)
  <2>1. /\ UNCHANGED <<gen, checks, contracts, rows, cur, new, back, inp>>
        /\ \/ pc[p] = "result" /\ pc'[p] = "close_check"
           \/ pc[p] = "close_gate" /\ pc'[p] = "close_open"
           \/ pc[p] = "close_open" /\ pc'[p] = AfterResolve(p)
           \/ pc[p] = "answer_gate" /\ pc'[p] = "idle"
    BY <1>7 DEF InsertResult, CloseGate, CloseOpenGate, AnswerGate, Jump, TypeOK, counts, locals
  <2> QED
    BY <1>1, <1>2, <2>1 DEF Stage, Shut, Bundling, Effecting, AfterResolve
<1>8. CASE CloseCheck(p)
  <2>1. /\ UNCHANGED <<gen, contracts, rows, cur, new, back, inp>> /\ pc[p] = "close_check"
        /\ pc'[p] = IF back[p] = "answer" THEN "answer_gate" ELSE "close_gate"
    BY <1>8 DEF CloseCheck, Jump, TypeOK, counts, locals
  <2>2. /\ Extra' \subseteq Extra
        /\ \A k \in Extra' : checks'[k].gen = checks[k].gen
    <3>1. Shrunk(checks, checks')
      BY <1>8, SetShrinks DEF CloseCheck, TypeOK, Statuses
    <3> QED
      BY <3>1, ShrunkSets DEF Shrunk, Extra
  <2> QED
    BY <1>1, <2>1, <2>2 DEF Stage, Shut, Bundling, Effecting
<1>9. CASE EffectDone(p)
  <2>1. /\ pc[p] = "effect_done" /\ pc'[p] = "tools" /\ UNCHANGED <<gen, back, inp, cur>>
    BY <1>9 DEF EffectDone, Jump, TypeOK, locals
  <2>2. back[p] = "effect" /\ inp[p] = "words" /\ Extra \subseteq {cur[p]}
    BY <1>1, <2>1 DEF Stage
  <2>3. Extra' = {}
    <3>1. Shrunk(checks, checks') /\ (cur[p] \in Rows => checks'[cur[p]].status # "open")
      BY <1>9, SetShrinks, SetCloses DEF EffectDone, TypeOK, Statuses
    <3> QED
      BY <2>2, <3>1, ShrunkSets DEF Extra
  <2> QED
    BY <2>1, <2>2, <2>3 DEF Stage, Shut, Effecting
<1> QED
  BY <1>3, <1>4, <1>5, <1>6, <1>7, <1>8, <1>9 DEF Resolve

LEMMA ToolStage ==
  ASSUME TypeOK, FreshInv, ExtraParts, NEW p \in Callers, Tool(p)
  PROVE  Stage(p)'
<1>1. Stage(p)
  BY DEF ExtraParts
<1>2. ASSUME checks' = checks PROVE Extra' = Extra /\ Asked' = Asked
  BY <1>2 DEF Extra, Asked
<1>3. CASE GatePhase(p)
  <2>1. /\ pc[p] = "gate_phase" /\ UNCHANGED <<checks, contracts>> /\ back'[p] = "gate"
        /\ \/ pc'[p] = "reconcile"
           \/ pc'[p] = "roll" /\ Answerable # {} /\ cur'[p] = Latest(Answerable)
    BY <1>3 DEF GatePhase, Jump, TypeOK, db
  <2>2. pc'[p] = "roll" => cur'[p] \in Rows /\ contracts[cur'[p]] # "attack"
    BY <2>1, TakenUp DEF Questions
  <2> QED
    BY <1>1, <1>2, <2>1, <2>2 DEF Stage, Shut
<1>4. CASE EndTurn(p)
  <2>1. pc'[p] = "idle"
    BY <1>4 DEF EndTurn, Jump, TypeOK
  <2> QED
    BY <2>1 DEF Stage, Shut
<1>5. CASE RollCheck(p)
  <2>1. /\ pc[p] = "tools" /\ pc'[p] = "roll" /\ checks' = checks
        /\ cur'[p] \in Rows /\ inp'[p] = "words" /\ back'[p] = "bundle"
    BY <1>5, NewRow DEF RollCheck, Jump, TypeOK
  <2> QED
    BY <1>1, <1>2, <2>1 DEF Stage, Shut, Bundling
<1>6. CASE RequestRoll(p) \/ CancelChecks(p) \/ CancelGates(p)
  <2>1. /\ \/ pc[p] = "tools" /\ pc'[p] = "cancel_checks" /\ back'[p] = "tools"
           \/ pc[p] = "cancel_checks" /\ pc'[p] = "cancel_gates" /\ back'[p] = back[p]
           \/ pc[p] = "cancel_gates" /\ pc'[p] = "mint" /\ back'[p] = back[p]
        /\ Extra' \subseteq Extra
    <3>1. Extra' \subseteq Extra
      BY <1>6, ChecksShrink, ShrunkSets DEF Step, Tool, PutCheck, RequestRoll, CancelChecks, CancelGates,
         Jump
    <3> QED
      BY <1>6, <3>1 DEF RequestRoll, CancelChecks, CancelGates, Jump, TypeOK, locals
  <2> QED
    BY <1>1, <2>1 DEF Stage, Shut, Bundling, Effecting
<1>7. CASE MintContract(p)
  <2>1. /\ pc[p] = "mint" /\ pc'[p] = "read_check" /\ checks' = checks /\ UNCHANGED <<back, inp>>
        /\ contracts'[new'[p]] \in {"skill", "san"}
    BY <1>7, NewRow DEF MintContract, Jump, TypeOK
  <2>2. back[p] \notin {"bundle", "effect"} /\ Extra = {}
    BY <1>1, <2>1 DEF Stage, Shut, Bundling, Effecting
  <2>3. back[p] # "api"
    BY <1>1, <2>1 DEF Stage
  <2> QED
    BY <1>1, <1>2, <2>1, <2>2, <2>3 DEF Stage, Shut, Questions
<1>8. CASE ReadForInsert(p)
  <2>1. /\ \/ pc[p] = "read_check" /\ pc'[p] = "put_check"
           \/ pc[p] = "read_gate" /\ pc'[p] = "put_gate"
           \/ pc[p] = "attach_read" /\ pc'[p] = "attach"
        /\ UNCHANGED <<gen, checks, contracts, rows, cur, new, back, inp>> /\ seen'[p] = gen
    BY <1>8 DEF ReadForInsert, Jump, TypeOK, db, counts
  <2> QED
    BY <1>1, <1>2, <2>1 DEF Stage, Shut, Bundling, Effecting
<1>9. CASE PutCheck(p)
  <2>1. /\ pc[p] = "put_check" /\ pc'[p] = "read_gate"
        /\ UNCHANGED <<gen, contracts, rows, cur, new, back, inp>>
    BY <1>9 DEF PutCheck, Jump, TypeOK, counts, locals
  <2>2. /\ Extra = {} /\ contracts[new[p]] \in Questions
        /\ contracts[new[p]] = "effect" => back[p] \in {"bundle", "api"}
        /\ back[p] # "effect"
        /\ back[p] = "bundle" => /\ inp[p] = "words" /\ new[p] = rows /\ seen[p] = gen
                                 /\ contracts[new[p]] = "effect" /\ contracts[cur[p]] = "attack"
    BY <1>1, <2>1 DEF Stage, Shut, Effecting
  <2>3. CASE contracts[new[p]] = "effect"
    <3>1. Extra' \subseteq {new[p]} /\ \A k \in Extra' : checks'[k].gen = seen[p]
      BY <1>9, <2>2, <2>3, PutSets DEF Extra
    <3> QED
      BY <2>1, <2>2, <2>3, <3>1 DEF Stage, Shut, Bundling
  <2>4. CASE contracts[new[p]] # "effect"
    <3>1. Extra' = {}
      BY <1>9, <2>2, <2>4, PutSets
    <3> QED
      BY <2>1, <2>2, <2>4, <3>1 DEF Stage, Shut, Questions
  <2> QED
    BY <2>3, <2>4
<1>10. CASE PutGate(p)
  <2>1. /\ pc[p] = "put_gate" /\ UNCHANGED <<gen, checks, contracts, rows, cur, new, back, inp>>
        /\ \/ pc'[p] = "attach_read" /\ contracts[new[p]] = "none"
           \/ pc'[p] = "result" /\ contracts[new[p]] = "effect"
           \/ pc'[p] = "idle" /\ contracts[new[p]] # "effect"
    BY <1>10 DEF PutGate, AfterGate, Jump, TypeOK, counts, locals
  <2> QED
    BY <1>1, <1>2, <2>1 DEF Stage, Shut, Bundling, Effecting
<1> QED
  BY <1>3, <1>4, <1>5, <1>6, <1>7, <1>8, <1>9, <1>10 DEF Tool

LEMMA FrameStage ==
  ASSUME TypeOK, FreshInv, ExtraParts, NEW p \in Callers, Frame(p)
  PROVE  Stage(p)'
<1>1. Stage(p)
  BY DEF ExtraParts
<1>2. Extra' \subseteq Extra
  BY ChecksShrink, ShrunkSets DEF Step, PutCheck, Frame, OpenFrame, PutFrame, CloseFrame,
     CascadeGates, CascadeChecks, CascadeFrame, Bump, FindFrame, PutNewFrame, NotHandled,
     OpenChoiceGate, AttachGate, DeclareAction, ExitFrame, Jump
<1>3. CASE OpenFrame(p) \/ CloseFrame(p)
  <2>1. pc[p] = "tools" /\ pc'[p] \in {"frame_put", "close_gates"} /\ back'[p] = "tools"
    BY <1>3 DEF OpenFrame, CloseFrame, Jump, TypeOK
  <2> QED
    BY <1>1, <1>2, <2>1 DEF Stage, Shut
<1>4. CASE PutFrame(p) \/ CascadeGates(p) \/ CascadeChecks(p) \/ CascadeFrame(p) \/ Bump(p)
  <2>1. /\ pc[p] \in {"frame_put", "close_gates", "close_checks", "close_frame", "bump"}
        /\ back'[p] = back[p]
        /\ \/ pc'[p] = AfterFrame(p)
           \/ pc'[p] \in {"close_checks", "close_frame", "bump"}
    BY <1>4 DEF PutFrame, CascadeGates, CascadeChecks, CascadeFrame, Bump, Jump, TypeOK, locals
  <2> QED
    BY <1>1, <1>2, <2>1 DEF Stage, Shut, AfterFrame
<1>5. CASE FindFrame(p) \/ PutNewFrame(p) \/ NotHandled(p) \/ AttachGate(p) \/ DeclareAction(p) \/
           ExitFrame(p)
  <2>1. /\ pc[p] \in {"conflict", "conflict_act", "frame_new", "attach"} /\ back'[p] = back[p]
        /\ pc'[p] \in {"idle", "conflict_act", "frame_new", "frame_put", "close_gates"}
    BY <1>5 DEF FindFrame, PutNewFrame, NotHandled, AttachGate, DeclareAction, ExitFrame, Jump,
       TypeOK, locals
  <2> QED
    BY <1>1, <2>1 DEF Stage, Shut
<1>6. CASE OpenChoiceGate(p)
  <2>1. /\ pc[p] = "conflict_act" /\ pc'[p] = "read_gate" /\ back'[p] = back[p]
    BY <1>6 DEF OpenChoiceGate, Jump, TypeOK
  <2> QED
    BY <1>1, <2>1 DEF Stage, Shut
<1> QED
  BY <1>3, <1>4, <1>5, <1>6 DEF Frame

LEMMA ApiStage ==
  ASSUME TypeOK, AgeInv, CleanInv, OwnerInv, ExtraParts, ~overlapped, NEW p \in Callers, Api(p)
  PROVE  Stage(p)'
<1>1. Stage(p)
  BY DEF ExtraParts
<1>2. CASE ApiGate(p)
  <2>1. /\ pc[p] = "api_gate" /\ pc'[p] \in {"sup_gate", "api_check"}
        /\ UNCHANGED <<gen, checks, back>>
    BY <1>2 DEF ApiGate, Jump, TypeOK, db
  <2>2. Extra = {} /\ back[p] = "api"
    BY <1>1, <2>1 DEF Stage, Shut
  <2>3. ASSUME NEW k \in Asked PROVE checks[k].gen = gen
    <3>1. k \in Rows /\ checks[k].status = "open" /\ ~Stale(checks[k], gen)
      BY <2>1 DEF ExtraParts, CleanInv, Clean, Asked
    <3>2. checks[k].gen \in Nat /\ gen \in Nat /\ checks[k].gen <= gen
      BY <3>1 DEF TypeOK, Row, AgeInv, RowOld
    <3> QED
      BY <3>1, <3>2 DEF Stale
  <2>4. Extra' = {} /\ \A k \in Asked' : checks'[k].gen = gen'
    BY <2>1, <2>2, <2>3 DEF Extra, Asked
  <2> QED
    BY <2>1, <2>2, <2>4 DEF Stage, Shut
<1>3. CASE ApiContract(p)
  <2>1. /\ pc[p] = "api_check" /\ pc'[p] = "roll" /\ UNCHANGED <<checks, back>>
        /\ Answerable = {} /\ Unresolved # {} /\ cur'[p] = Latest(Unresolved)
    BY <1>3 DEF ApiContract, Jump, TypeOK, db
  <2>2. Extra = {} /\ \A k \in Asked : checks[k].gen = gen
    BY <1>1, <2>1 DEF Stage, Shut
  <2>3. Extra' = {} /\ Asked' = {}
    BY <2>1, <2>2 DEF Extra, Asked, Answerable
  <2>4. cur'[p] \in Rows
    <3>1. Unresolved \in SUBSET Rows
      BY DEF Unresolved
    <3> QED
      BY <2>1, <3>1, LatestMember
  <2>5. back[p] = "api"
    BY <1>1, <2>1 DEF Stage
  <2> QED
    BY <2>1, <2>3, <2>4, <2>5 DEF Stage, Shut
<1>4. CASE ApiCheck(p)
  <2>1. /\ pc[p] = "api_check" /\ pc'[p] \in {"roll", "drop_check", "reopen", "abandon_check"}
        /\ pc'[p] = "roll" => back'[p] = "answer"
        /\ UNCHANGED <<checks, contracts>> /\ back'[p] \in {"drop", "answer"}
        /\ Answerable # {} /\ cur'[p] = Latest(Answerable)
    BY <1>4 DEF ApiCheck, Jump, TypeOK, db
  <2>2. cur'[p] \in Rows /\ contracts[cur'[p]] # "attack"
    BY <2>1, TakenUp DEF Questions
  <2>3. Extra' = {}
    BY <1>1, <2>1 DEF Stage, Shut, Extra
  <2> QED
    BY <2>1, <2>2, <2>3 DEF Stage, Shut
<1>5. CASE SupersedeGate(p) \/ SupersedeCheck(p) \/ ApiNoCheck(p) \/ Choose(p) \/
           CloseAskedCheck(p) \/ AnswerWithoutDice(p)
  <2>1. /\ pc[p] \in {"sup_gate", "sup_check", "api_check", "choice", "drop_check", "abandon_check",
                      "reopen", "abandon_gate"}
        /\ back'[p] = back[p]
        /\ pc'[p] \in {"sup_check", "sup_gate", "choice", "abandon_gate", "idle"}
    BY <1>5 DEF SupersedeGate, SupersedeCheck, ApiNoCheck, Choose, CloseAskedCheck,
       AnswerWithoutDice, AfterDrop, Jump, TypeOK, locals
  <2>2. Extra' \subseteq Extra
    BY <1>5, ChecksShrink, ShrunkSets DEF Step, Api, PutCheck, SupersedeGate, SupersedeCheck,
       ApiNoCheck, Choose, CloseAskedCheck, AnswerWithoutDice, Jump
  <2> QED
    BY <1>1, <2>1, <2>2 DEF Stage, Shut, Bundling, Effecting
<1> QED
  BY <1>2, <1>3, <1>4, <1>5 DEF Api

\* Without a failure there are two open checks only while a bundle is rolled.
LEMMA TogetherStep ==
  ASSUME TypeOK, ExtraParts, NEW p \in Callers, Step(p), ~Fault(p), Alone(p)
  PROVE  Asked' = {} \/ Extra' = {} \/ \E q \in Callers : InBundle(q)'
<1>1. Stage(p) /\ \A q \in Callers \ {p} : ~InBundle(q)
  BY DEF ExtraParts, Alone, InBundle
<1>2. CASE PutCheck(p)
  <2>1. pc[p] = "put_check" /\ pc'[p] = "read_gate" /\ back'[p] = back[p]
    BY <1>2 DEF PutCheck, Jump, TypeOK, locals
  <2>2. Extra = {} /\ (back[p] = "api" => Asked = {})
        /\ (contracts[new[p]] = "effect" => back[p] \in {"bundle", "api"})
    BY <1>1, <2>1 DEF Stage, Shut
  <2> QED
    BY <1>2, <2>1, <2>2, PutSets DEF InBundle
<1>3. CASE ~PutCheck(p)
  <2>1. Asked' \subseteq Asked /\ Extra' \subseteq Extra
    BY <1>3, ChecksShrink, ShrunkSets
  <2>2. CASE ~InBundle(p)
    BY <1>1, <2>1, <2>2 DEF ExtraParts
  <2>3. CASE InBundle(p) /\ Shut(p)
    BY <1>1, <2>1, <2>3 DEF Stage
  <2>4. CASE InBundle(p) /\ ~Shut(p)
    <3>1. pc[p] \in {"roll", "post", "read_gate", "put_gate", "result", "close_check", "close_gate",
                    "close_open", "followup", "effect_done"} /\ (pc[p] = "roll" => back[p] = "effect")
      BY <1>1, <2>4 DEF InBundle, Stage, Shut, Bundling, Effecting
    <3>2. Resolve(p) \/ ReadForInsert(p) \/ PutGate(p)
      BY <3>1 DEF Step, Request, StartTurn, StartResolve, StartConflict, Reconcile, ReadGeneration,
         SupersedeStaleGates, SupersedeStaleChecks, Tool, GatePhase, EndTurn, RollCheck, RequestRoll,
         CancelChecks, CancelGates, MintContract, PutCheck, Frame, OpenFrame, PutFrame, CloseFrame,
         CascadeGates, CascadeChecks, CascadeFrame, Bump, FindFrame, PutNewFrame, NotHandled,
         OpenChoiceGate, AttachGate, DeclareAction, ExitFrame, Api, ApiGate, SupersedeGate,
         SupersedeCheck, ApiContract, ApiNoCheck, Choose, ApiCheck, CloseAskedCheck,
         AnswerWithoutDice, Jump
    <3>3. CASE EffectDone(p)
      <4>1. InBundle(p)'
        BY <2>4, <3>3 DEF InBundle, EffectDone, Jump, TypeOK, locals
      <4> QED
        BY <4>1
    <3>4. CASE FollowUp(p)
      <4>1. InBundle(p)'
        BY <2>4, <3>4 DEF InBundle, FollowUp, Jump, TypeOK
      <4> QED
        BY <4>1
    <3>5. CASE PutGate(p) \/ ReadForInsert(p)
      <4>1. back[p] = "bundle" /\ contracts[new[p]] = "effect"
        BY <1>1, <2>4, <3>1, <3>5 DEF Stage, InBundle, PutGate, ReadForInsert, Jump, Effecting
      <4>2. InBundle(p)'
        BY <3>5, <4>1 DEF InBundle, PutGate, ReadForInsert, AfterGate, Jump, TypeOK, locals
      <4> QED
        BY <4>2
    <3>6. CASE Resolve(p) /\ ~EffectDone(p) /\ ~FollowUp(p)
      <4>1. inp[p] = "words"
        BY <1>1, <2>4 DEF Stage, InBundle
      <4>2. InBundle(p)'
        BY <2>4, <3>1, <3>6, <4>1 DEF InBundle, Resolve, RollRefused, RollBlocked, Blocked, Roll,
           ApplyEffects, InsertResult, CloseCheck, CloseGate, CloseOpenGate, AnswerGate,
           AfterResolve, Jump, TypeOK, locals
      <4> QED
        BY <4>2
    <3> QED
      BY <3>2, <3>3, <3>4, <3>5, <3>6
  <2> QED
    BY <2>2, <2>3, <2>4
<1> QED
  BY <1>2, <1>3

LEMMA ExtraStep ==
  ASSUME TypeOK, AgeInv, LoneInv, CleanInv, FreshInv, OwnerInv, ExtraInv, NEW p \in Callers, Step(p)
  PROVE  ExtraInv'
<1> SUFFICES ASSUME ~overlapped', faults' = 0 PROVE ExtraParts'
  BY DEF ExtraInv
<1>1. ~overlapped /\ faults = 0 /\ Alone(p) /\ ~Fault(p)
  BY Undisturbed
<1>2. ExtraParts
  BY <1>1 DEF ExtraInv
<1>3. hit' = {}
  <2>1. hit' \subseteq hit
    BY <1>1 DEF Step, Request, StartTurn, StartResolve, StartConflict, Begin, Reconcile,
       ReadGeneration, SupersedeStaleGates, SupersedeStaleChecks, Resolve, RollRefused, RollBlocked,
       Roll, ApplyEffects, InsertResult, CloseCheck, CloseGate, CloseOpenGate, AnswerGate, FollowUp,
       EffectDone, Tool, GatePhase, EndTurn, RollCheck, RequestRoll, CancelChecks, CancelGates,
       MintContract, ReadForInsert, PutCheck, PutGate, Frame, OpenFrame, PutFrame, CloseFrame,
       CascadeGates, CascadeChecks, CascadeFrame, Bump, FindFrame, PutNewFrame, NotHandled,
       OpenChoiceGate, AttachGate, DeclareAction, ExitFrame, Api, ApiGate, SupersedeGate,
       SupersedeCheck, ApiContract, ApiNoCheck, Choose, ApiCheck, CloseAskedCheck,
       AnswerWithoutDice, past
  <2> QED
    BY <1>2, <2>1 DEF ExtraParts
<1>4. \A j, k \in Extra' : j = k
  <2>1. CASE PutCheck(p)
    <3>1. Extra = {}
      BY <1>2, <2>1 DEF PutCheck, Jump, ExtraParts, Stage, Shut
    <3> QED
      BY <2>1, <3>1, PutSets
  <2>2. CASE ~PutCheck(p)
    BY <1>2, <2>2, ChecksShrink, ShrunkSets DEF ExtraParts
  <2> QED
    BY <2>1, <2>2
<1>5. KindRows'
  BY <1>2, KindStep
<1>6. Asked' = {} \/ Extra' = {} \/ \E q \in Callers : InBundle(q)'
  BY <1>1, <1>2, TogetherStep
<1>7. Stage(p)'
  BY <1>1, <1>2, RequestStage, ReconcileStage, ResolveStage, ToolStage, FrameStage, ApiStage DEF Step
<1>8. \A q \in Callers \ {p} : Stage(q)'
  BY <1>1 DEF Alone, Stage, Shut
<1> QED
  BY <1>3, <1>4, <1>5, <1>6, <1>7, <1>8 DEF ExtraParts

\* A set whose members are all the same has one at most.
LEMMA OneMember ==
  ASSUME NEW S, \A j, k \in S : j = k
  PROVE  Cardinality(S) <= 1
<1>1. CASE S = {}
  BY <1>1, FS_EmptySet
<1>2. CASE S # {}
  <2>1. PICK k \in S : S = {k}
    BY <1>2
  <2> QED
    BY <2>1, FS_Singleton
<1> QED
  BY <1>1, <1>2

\* Between requests that did not overlap at most one check waits that the next reconcile would leave
\* open, whatever failed; and if nothing failed at most one can be answered at all
\* (request_player_roll, which cancels before it inserts, and execute_system_roll_bundle, which
\* rolls the effect of a hit before it returns).
THEOREM OneAnswerableAlways == Spec => []OneAnswerable
<1>1. Init => OwnerInv /\ AskedInv /\ ExtraInv
  <2> SUFFICES ASSUME Init PROVE OwnerInv /\ AskedInv /\ ExtraParts
    BY DEF ExtraInv
  <2>1. /\ \A k \in Rows : checks[k] = NoRow
        /\ \A p \in Callers : pc[p] = "idle"
        /\ hit = {}
    BY DEF Init
  <2>2. Asked = {} /\ Extra = {}
    BY <2>1 DEF Asked, Extra, NoRow
  <2> QED
    BY <2>1, <2>2 DEF OwnerInv, AskedInv, Cleared, ExtraParts, KindRows, Stage, Shut, NoRow
<1>2. /\ TypeOK /\ AgeInv /\ LoneInv /\ CleanInv /\ FreshInv /\ OwnerInv /\ AskedInv /\ ExtraInv
      /\ [Next]_vars
      => OwnerInv' /\ AskedInv' /\ ExtraInv'
  <2>1. ASSUME OwnerInv, AskedInv, ExtraInv, UNCHANGED vars
        PROVE  OwnerInv' /\ AskedInv' /\ ExtraInv'
    BY <2>1 DEF OwnerInv, AskedInv, Asked, Cleared, ExtraInv, ExtraParts, Extra, KindRows, InBundle,
       Stage, Shut, vars, db, counts, locals, past
  <2> QED
    BY <2>1, OwnerStep, AskedStep, ExtraStep DEF Next, Step
<1>3. TypeOK /\ OwnerInv /\ AskedInv /\ ExtraInv => OneAnswerable
  <2> SUFFICES ASSUME TypeOK, OwnerInv, AskedInv, ExtraInv, ~overlapped, Quiet
               PROVE  /\ faults = 0 => Cardinality(Answerable) <= 1
                      /\ Cardinality({k \in Answerable : ~Stale(checks[k], gen)}) <= 1
    BY DEF OneAnswerable
  <2>1. Answerable \subseteq Asked \cup Extra
    BY DEF Answerable, Asked, Extra, OwnerInv
  <2>2. {k \in Answerable : ~Stale(checks[k], gen)} \subseteq Asked
    <3>1. Actor # None /\ ~Live(Actor)
      BY BoundsAssumption DEF Actor, None, Live, Frames
    <3> QED
      BY <3>1 DEF Answerable, Asked, OwnerInv, Stale
  <2>3. \A j, k \in Asked : j = k
    BY DEF AskedInv
  <2>4. ASSUME faults = 0 PROVE \A j, k \in Answerable : j = k
    <3>1. (\A j, k \in Extra : j = k) /\ (Asked = {} \/ Extra = {})
      BY <2>4 DEF ExtraInv, ExtraParts, InBundle, Quiet
    <3> QED
      BY <2>1, <2>3, <3>1
  <2> QED
    BY <2>2, <2>3, <2>4, OneMember
<1> QED
  BY <1>1, <1>2, <1>3, LoneInvariant, CleanInvariant, FreshInvariant, PTL DEF Spec

-----------------------------------------------------------------------------
\* What overlapping requests cannot spoil: a check goes one way, and costs a call each time

\* However requests overlap and whatever fails, the generation never falls; a check keeps its
\* row, its owner and the generation it was asked in; and one that has been answered,
\* superseded or abandoned is never open again, although the updates by id do not ask for the
\* status they replace (update_pending_check_status, supersede_open_checks).
ChecksForward ==
    [][/\ gen' >= gen
       /\ \A k \in Rows : checks[k].status # "none" =>
            /\ checks'[k].status # "none"
            /\ checks'[k].gen = checks[k].gen /\ checks'[k].owner = checks[k].owner
            /\ checks'[k].status = "open" => checks[k].status = "open"]_vars

\* Only an insert opens a check, and the row it fills is in nobody else's hands.
LEMMA ForwardStep ==
  ASSUME TypeOK, AgeInv, NEW p \in Callers, Step(p)
  PROVE  /\ gen' >= gen
         /\ \A k \in Rows : checks[k].status # "none" =>
              /\ checks'[k].status # "none"
              /\ checks'[k].gen = checks[k].gen /\ checks'[k].owner = checks[k].owner
              /\ checks'[k].status = "open" => checks[k].status = "open"
<1>1. gen' >= gen
  <2>1. gen \in Nat /\ (gen' = gen \/ gen' = gen + 1)
    BY DEF TypeOK, Step, Request, StartTurn, StartResolve, StartConflict, Begin, Reconcile,
       ReadGeneration, SupersedeStaleGates, SupersedeStaleChecks, Resolve, RollRefused,
       RollBlocked, Blocked, Roll, ApplyEffects, InsertResult, CloseCheck, CloseGate,
       CloseOpenGate, AnswerGate, FollowUp, EffectDone, Tool, GatePhase, EndTurn, RollCheck,
       RequestRoll, CancelChecks, CancelGates, MintContract, ReadForInsert, PutCheck, PutGate,
       Frame, OpenFrame, PutFrame, CloseFrame, CascadeGates, CascadeChecks, CascadeFrame, Bump,
       FindFrame, PutNewFrame, NotHandled, OpenChoiceGate, AttachGate, DeclareAction, ExitFrame,
       Api, ApiGate, SupersedeGate, SupersedeCheck, ApiContract, ApiNoCheck, Choose, ApiCheck,
       CloseAskedCheck, AnswerWithoutDice, Fault, Abort, FailTool, ReadLost, BlockedUnrecorded,
       Skip, db
  <2> QED
    BY <2>1
<1>2. CASE ~PutCheck(p)
  BY <1>1, <1>2, ChecksShrink DEF Shrunk
<1>3. CASE PutCheck(p)
  <2>1. checks[new[p]].status = "none" /\ \A k \in Rows : k # new[p] => checks'[k] = checks[k]
    BY <1>3 DEF PutCheck, Jump, AgeInv, Minted, Minting, TypeOK
  <2> QED
    BY <1>1, <2>1
<1> QED
  BY <1>2, <1>3

\* For any number of requests in any interleaving, and whatever fails: a check is closed for
\* good.
THEOREM ClosedForGood == Spec => ChecksForward
<1>1. TypeOK /\ AgeInv /\ [Next]_vars =>
        [/\ gen' >= gen
         /\ \A k \in Rows : checks[k].status # "none" =>
              /\ checks'[k].status # "none"
              /\ checks'[k].gen = checks[k].gen /\ checks'[k].owner = checks[k].owner
              /\ checks'[k].status = "open" => checks[k].status = "open"]_vars
  BY ForwardStep DEF Next, Step
<1> QED
  BY <1>1, AgeInvariant, PTL DEF Spec, ChecksForward

\* However requests overlap and whatever fails, the effects of a check are applied, and a
\* result of it is stored, at most once for each request and each tool call: overlapping
\* requests can settle one check twice, but a request that waits its turn cannot do so alone
\* (resolve_check_with_input and execute_system_roll_bundle, over the check they took up).
SettledPerCall == \A k \in Rows : applied[k] <= calls /\ results[k] <= calls

\* A request that has yet to look for a check, a bundle that may yet take up another one, a
\* request that asks for the effect roll of a hit
Routing(p) ==
    \/ pc[p] \in {"reconcile", "stale_gates", "stale_checks"} /\ back[p] # "gate"
    \/ pc[p] \in {"gate_phase", "api_gate", "api_check"}
Filling == {"read_check", "put_check", "read_gate", "put_gate"}
Bundled == Filling \cup {"roll", "post", "result", "close_check", "close_gate", "close_open",
                         "followup"}
Later(p, k) == cur[p] # k /\ back[p] = "bundle" /\ pc[p] \in Bundled
Hitting(p)  == pc[p] \in Filling /\ contracts[new[p]] = "effect"

\* The call that p is in may still apply the effects of k, or store a result of it.
MayApply(p, k) == Routing(p) \/ Later(p, k) \/ (cur[p] = k /\ pc[p] \in {"roll", "post"})
MayRecord(p, k) ==
    Routing(p) \/ Later(p, k) \/ (cur[p] = k /\ (pc[p] \in {"roll", "post", "result"} \/ Hitting(p)))

Appliers(k)  == {p \in Callers : MayApply(p, k)}
Recorders(k) == {p \in Callers : MayRecord(p, k)}

\* A row that is being filled has been minted, and what asks for rows is no bundle.
PlaceInv ==
    \A p \in Callers :
        /\ pc[p] \in Filling => new[p] \in Rows /\ new[p] <= rows
        /\ pc[p] \in {"cancel_checks", "cancel_gates", "mint"} => back[p] = "tools"
        /\ pc[p] \in {"conflict", "conflict_act", "frame_new"} => back[p] = "conflict"
        /\ pc[p] = "followup" => back[p] = "bundle"

\* What was settled, and what may still be, is paid for by the calls made.
CallInv ==
    \A k \in Rows : /\ applied[k] + Cardinality(Appliers(k)) <= calls
                    /\ results[k] + Cardinality(Recorders(k)) <= calls

\* A step of p leaves the locals of the others alone.
LEMMA OthersLocals ==
  ASSUME TypeOK, NEW p \in Callers, Step(p), NEW q \in Callers, q # p
  PROVE  pc'[q] = pc[q] /\ cur'[q] = cur[q] /\ back'[q] = back[q] /\ new'[q] = new[q]
<1> USE DEF TypeOK
<1>0. pc'[q] = pc[q]
  BY OneMoves
<1>1. CASE Request(p)
  BY <1>0, <1>1 DEF Request, StartTurn, StartResolve, StartConflict, Begin
<1>2. CASE Reconcile(p)
  BY <1>0, <1>2 DEF Reconcile, ReadGeneration, SupersedeStaleGates, SupersedeStaleChecks, locals
<1>3. CASE Resolve(p)
  BY <1>0, <1>3 DEF Resolve, RollRefused, RollBlocked, Blocked, Roll, ApplyEffects, InsertResult,
     CloseCheck, CloseGate, CloseOpenGate, AnswerGate, FollowUp, EffectDone, locals
<1>4. CASE Tool(p)
  BY <1>0, <1>4 DEF Tool, GatePhase, EndTurn, RollCheck, RequestRoll, CancelChecks, CancelGates,
     MintContract, ReadForInsert, PutCheck, PutGate, locals
<1>5. CASE Frame(p)
  BY <1>0, <1>5 DEF Frame, OpenFrame, PutFrame, CloseFrame, CascadeGates, CascadeChecks,
     CascadeFrame, Bump, FindFrame, PutNewFrame, NotHandled, OpenChoiceGate, AttachGate,
     DeclareAction, ExitFrame, locals
<1>6. CASE Api(p)
  BY <1>0, <1>6 DEF Api, ApiGate, SupersedeGate, SupersedeCheck, ApiContract, ApiNoCheck, Choose,
     ApiCheck, CloseAskedCheck, AnswerWithoutDice, locals
<1>7. CASE Fault(p)
  BY <1>0, <1>7 DEF Fault, Abort, FailTool, ReadLost, BlockedUnrecorded, Blocked, Skip, locals
<1> QED
  BY <1>1, <1>2, <1>3, <1>4, <1>5, <1>6, <1>7 DEF Step

\* Nor does it change what the calls of the others may still settle.
LEMMA OthersMay ==
  ASSUME TypeOK, PlaceInv, NEW p \in Callers, Step(p), NEW q \in Callers, q # p, NEW k \in Rows
  PROVE  (MayApply(q, k)' <=> MayApply(q, k)) /\ (MayRecord(q, k)' <=> MayRecord(q, k))
<1>1. pc'[q] = pc[q] /\ cur'[q] = cur[q] /\ back'[q] = back[q] /\ new'[q] = new[q]
  BY OthersLocals
<1>2. pc[q] \in Filling => contracts'[new[q]] = contracts[new[q]]
  BY ContractsKept DEF PlaceInv
<1> QED
  BY <1>1, <1>2 DEF MayApply, MayRecord, Routing, Later, Hitting

\* A step of p settles k and could, once; or it makes a call; or it may do no more than before.
Pays(may, can, n, m) ==
    \/ m = n /\ calls' = calls + 1
    \/ m = n /\ calls' = calls /\ (can => may)
    \/ m = n + 1 /\ calls' = calls /\ may /\ ~can
PaysApply(p, k)  == Pays(MayApply(p, k), MayApply(p, k)', applied[k], applied'[k])
PaysRecord(p, k) == Pays(MayRecord(p, k), MayRecord(p, k)', results[k], results'[k])

\* A step that applies nothing, stores nothing and leads nowhere from where it could have been.
LEMMA IdlePays ==
  ASSUME TypeOK, NEW p \in Callers, NEW k \in Rows, UNCHANGED <<applied, results>>,
         \/ calls' = calls + 1
         \/ calls' = calls /\ ~Routing(p)' /\ pc'[p] \notin Bundled
  PROVE  PaysApply(p, k) /\ PaysRecord(p, k)
<1>1. pc'[p] \notin Bundled => ~Later(p, k)' /\ ~Hitting(p)' /\ pc'[p] \notin {"roll", "post", "result"}
  BY DEF Later, Hitting, Bundled
<1>2. CASE calls' = calls + 1
  BY <1>2 DEF PaysApply, PaysRecord, Pays
<1>3. CASE calls' = calls /\ ~Routing(p)' /\ pc'[p] \notin Bundled
  <2>1. ~MayApply(p, k)' /\ ~MayRecord(p, k)'
    BY <1>1, <1>3 DEF MayApply, MayRecord
  <2> QED
    BY <1>3, <2>1 DEF PaysApply, PaysRecord, Pays
<1> QED
  BY <1>2, <1>3

\* So does one that leaves the check in hand and goes on from a place to one that may do no more.
LEMMA OnwardPays ==
  ASSUME TypeOK, NEW p \in Callers, NEW k \in Rows, UNCHANGED <<applied, results, calls>>,
         cur'[p] = cur[p], back'[p] = back[p], Routing(p)' => Routing(p),
         pc'[p] \in Bundled => pc[p] \in Bundled,
         pc'[p] \in {"roll", "post"} => pc[p] \in {"roll", "post"},
         pc'[p] = "result" => pc[p] \in {"roll", "post"} \/ Hitting(p),
         Hitting(p)' => Hitting(p)
  PROVE  PaysApply(p, k) /\ PaysRecord(p, k)
<1>1. Later(p, k)' => Later(p, k)
  BY DEF Later
<1>2. (MayApply(p, k)' => MayApply(p, k)) /\ (MayRecord(p, k)' => MayRecord(p, k))
  BY <1>1 DEF MayApply, MayRecord
<1> QED
  BY <1>2 DEF PaysApply, PaysRecord, Pays

\* A step of a request that has yet to look costs nothing, whatever it finds.
LEMMA RoutingPays ==
  ASSUME NEW p \in Callers, NEW k \in Rows, UNCHANGED <<applied, results, calls>>, Routing(p)
  PROVE  PaysApply(p, k) /\ PaysRecord(p, k)
BY DEF MayApply, MayRecord, PaysApply, PaysRecord, Pays

\* Nor does one after which nothing may be settled.
LEMMA NonePays ==
  ASSUME NEW p \in Callers, NEW k \in Rows, UNCHANGED <<applied, results, calls>>,
         ~MayApply(p, k)', ~MayRecord(p, k)'
  PROVE  PaysApply(p, k) /\ PaysRecord(p, k)
BY DEF PaysApply, PaysRecord, Pays

LEMMA RequestPays ==
  ASSUME TypeOK, NEW p \in Callers, NEW k \in Rows, Request(p)
  PROVE  PaysApply(p, k) /\ PaysRecord(p, k)
<1>1. calls' = calls + 1 /\ UNCHANGED <<applied, results>>
  BY DEF Request, StartTurn, StartResolve, StartConflict, Begin, db
<1> QED
  BY <1>1, IdlePays

LEMMA ReconcilePays ==
  ASSUME TypeOK, NEW p \in Callers, NEW k \in Rows, Reconcile(p)
  PROVE  PaysApply(p, k) /\ PaysRecord(p, k)
<1>1. UNCHANGED <<applied, results, calls>> /\ cur'[p] = cur[p] /\ back'[p] = back[p]
  BY DEF Reconcile, ReadGeneration, SupersedeStaleGates, SupersedeStaleChecks, db, counts, locals
<1>2. /\ pc[p] \in {"reconcile", "stale_gates", "stale_checks"}
      /\ pc'[p] \in {"stale_gates", "stale_checks"} \cup {AfterReconcile(p)}
  BY DEF Reconcile, ReadGeneration, SupersedeStaleGates, SupersedeStaleChecks, Jump, TypeOK
<1>3. AfterReconcile(p) \in {"gate_phase", "tools", "api_gate"}
      /\ (back[p] = "gate" => AfterReconcile(p) = "tools")
  BY DEF AfterReconcile
<1>4. Routing(p)' => Routing(p)
  BY <1>1, <1>2, <1>3 DEF Routing
<1> QED
  BY <1>1, <1>2, <1>3, <1>4, OnwardPays DEF Bundled, Filling, Hitting

LEMMA ResolvePays ==
  ASSUME TypeOK, PlaceInv, NEW p \in Callers, NEW k \in Rows, Resolve(p)
  PROVE  PaysApply(p, k) /\ PaysRecord(p, k)
<1> USE DEF TypeOK, Jump
<1>1. CASE RollRefused(p) \/ Roll(p) \/ CloseCheck(p) \/ CloseGate(p) \/ CloseOpenGate(p) \/
           AnswerGate(p) \/ EffectDone(p)
  <2>1. UNCHANGED <<applied, results, calls>> /\ cur'[p] = cur[p] /\ back'[p] = back[p]
    BY <1>1 DEF RollRefused, Roll, CloseCheck, CloseGate, CloseOpenGate, AnswerGate, EffectDone,
       db, counts, locals
  <2>2. \/ pc[p] = "roll" /\ pc'[p] \in {"post", "idle"}
        \/ pc[p] = "roll" /\ pc'[p] = "reconcile" /\ back[p] = "gate"
        \/ pc[p] = "close_check" /\ pc'[p] \in {"answer_gate", "close_gate"}
        \/ pc[p] = "close_gate" /\ pc'[p] = "close_open"
        \/ pc[p] = "close_open" /\ pc'[p] = AfterResolve(p)
        \/ pc[p] = "answer_gate" /\ pc'[p] = "idle"
        \/ pc[p] = "effect_done" /\ pc'[p] = "tools"
    BY <1>1 DEF RollRefused, Roll, CloseCheck, CloseGate, CloseOpenGate, AnswerGate, EffectDone
  <2>3. \/ AfterResolve(p) = "reconcile" /\ back[p] = "gate"
        \/ AfterResolve(p) \in {"tools", "followup", "effect_done", "idle"}
    BY DEF AfterResolve
  <2>4. ~Routing(p)' /\ ~Hitting(p)'
    BY <2>1, <2>2, <2>3 DEF Routing, Hitting, Filling
  <2> QED
    BY <2>1, <2>2, <2>3, <2>4, OnwardPays DEF Bundled, Filling
<1>2. CASE RollBlocked(p)
  <2>1. /\ pc[p] = "roll" /\ pc'[p] \in {"effect_done", "close_check"}
        /\ UNCHANGED <<applied, calls, cur>> /\ results' = [results EXCEPT ![cur[p]] = @ + 1]
        /\ back'[p] # "bundle"
    BY <1>2 DEF RollBlocked, Blocked, counts
  <2>2. ~MayApply(p, k)' /\ ~MayRecord(p, k)'
    BY <2>1 DEF MayApply, MayRecord, Routing, Later, Hitting, Filling
  <2>3. k = cur[p] => results'[k] = results[k] + 1 /\ MayRecord(p, k)
    BY <2>1 DEF MayRecord
  <2>4. k # cur[p] => results'[k] = results[k]
    BY <2>1
  <2> QED
    BY <2>1, <2>2, <2>3, <2>4 DEF PaysApply, PaysRecord, Pays
<1>3. CASE ApplyEffects(p)
  <2>1. /\ pc[p] = "post" /\ UNCHANGED <<results, calls, cur, back>>
        /\ applied' = [applied EXCEPT ![cur[p]] = @ + 1]
        /\ pc'[p] \in {"result", "read_check"}
    BY <1>3 DEF ApplyEffects
  <2>2. ~Routing(p)' /\ (Later(p, k)' => Later(p, k))
    BY <2>1 DEF Routing, Later, Bundled, Filling
  <2>3. MayRecord(p, k)' => MayRecord(p, k)
    BY <2>1, <2>2 DEF MayRecord
  <2>4. k = cur[p] => applied'[k] = applied[k] + 1 /\ MayApply(p, k) /\ ~MayApply(p, k)'
    BY <2>1, <2>2 DEF MayApply, Later
  <2>5. k # cur[p] => applied'[k] = applied[k] /\ (MayApply(p, k)' => MayApply(p, k))
    BY <2>1, <2>2 DEF MayApply
  <2> QED
    BY <2>1, <2>3, <2>4, <2>5 DEF PaysApply, PaysRecord, Pays
<1>4. CASE InsertResult(p)
  <2>1. /\ pc[p] = "result" /\ UNCHANGED <<applied, calls, cur, back>> /\ pc'[p] = "close_check"
        /\ results' = [results EXCEPT ![cur[p]] = @ + 1]
    BY <1>4 DEF InsertResult, locals, counts
  <2>2. ~Routing(p)' /\ ~Hitting(p)' /\ (Later(p, k)' => Later(p, k))
    BY <2>1 DEF Routing, Hitting, Later, Bundled, Filling
  <2>3. MayApply(p, k)' => MayApply(p, k)
    BY <2>1, <2>2 DEF MayApply
  <2>4. k = cur[p] => results'[k] = results[k] + 1 /\ MayRecord(p, k) /\ ~MayRecord(p, k)'
    BY <2>1, <2>2 DEF MayRecord, Later
  <2>5. k # cur[p] => results'[k] = results[k] /\ (MayRecord(p, k)' => MayRecord(p, k))
    BY <2>1, <2>2 DEF MayRecord
  <2> QED
    BY <2>1, <2>3, <2>4, <2>5 DEF PaysApply, PaysRecord, Pays
<1>5. CASE FollowUp(p)
  <2>1. UNCHANGED <<applied, results, calls>> /\ pc[p] = "followup"
    BY <1>5 DEF FollowUp, db, counts
  <2>2. CASE pc'[p] = "tools"
    BY <2>1, <2>2, IdlePays DEF Routing, Bundled, Filling
  <2>3. CASE pc'[p] = "roll"
    <3>1. cur'[p] # cur[p] /\ back'[p] = "effect"
      BY <1>5, <2>3 DEF FollowUp
    <3>2. ~Routing(p)' /\ ~Later(p, k)' /\ ~Hitting(p)'
      BY <2>3, <3>1 DEF Routing, Later, Hitting, Filling
    <3>3. CASE cur'[p] # k
      BY <2>1, <3>2, <3>3 DEF MayApply, MayRecord, PaysApply, PaysRecord, Pays
    <3>4. CASE cur'[p] = k /\ back[p] = "bundle"
      <4>1. MayApply(p, k) /\ MayRecord(p, k)
        BY <2>1, <3>1, <3>4 DEF MayApply, MayRecord, Later, Bundled
      <4> QED
        BY <2>1, <4>1 DEF PaysApply, PaysRecord, Pays
    <3>5. back[p] = "bundle"
      BY <2>1 DEF PlaceInv
    <3> QED
      BY <3>3, <3>4, <3>5
  <2> QED
    BY <1>5, <2>2, <2>3 DEF FollowUp
<1> QED
  BY <1>1, <1>2, <1>3, <1>4, <1>5 DEF Resolve

LEMMA ToolPays ==
  ASSUME TypeOK, PlaceInv, NEW p \in Callers, NEW k \in Rows, Tool(p)
  PROVE  PaysApply(p, k) /\ PaysRecord(p, k)
<1> USE DEF TypeOK, Jump
<1>1. CASE GatePhase(p)
  <2>1. UNCHANGED <<applied, results, calls>> /\ Routing(p)
    BY <1>1 DEF GatePhase, Routing, db, counts
  <2> QED
    BY <2>1, RoutingPays
<1>2. CASE RollCheck(p) \/ RequestRoll(p)
  <2>1. UNCHANGED <<applied, results>> /\ calls' = calls + 1
    BY <1>2 DEF RollCheck, RequestRoll, ToolCall, db
  <2> QED
    BY <2>1, IdlePays
<1>3. CASE EndTurn(p) \/ CancelChecks(p) \/ CancelGates(p)
  <2>1. UNCHANGED <<applied, results, calls>> /\ pc'[p] \in {"idle", "cancel_gates", "mint"}
    BY <1>3 DEF EndTurn, CancelChecks, CancelGates, db, counts
  <2> QED
    BY <2>1, IdlePays DEF Routing, Bundled, Filling
<1>4. CASE MintContract(p)
  <2>1. /\ UNCHANGED <<applied, results, calls>> /\ pc[p] = "mint" /\ pc'[p] = "read_check"
        /\ back'[p] = back[p]
    BY <1>4 DEF MintContract
  <2>2. contracts'[new'[p]] # "effect"
    <3>1. rows + 1 \in Rows
      BY <1>4, NewRow DEF MintContract
    <3> QED
      BY <1>4, <3>1 DEF MintContract
  <2>3. ~MayApply(p, k)' /\ ~MayRecord(p, k)'
    BY <2>1, <2>2 DEF PlaceInv, MayApply, MayRecord, Routing, Later, Hitting
  <2> QED
    BY <2>1, <2>3, NonePays
<1>5. CASE ReadForInsert(p) \/ PutCheck(p) \/ PutGate(p)
  <2>1. /\ UNCHANGED <<applied, results, calls, contracts, cur, back, new>>
        /\ \/ pc[p] = "read_check" /\ pc'[p] = "put_check"
           \/ pc[p] = "read_gate" /\ pc'[p] = "put_gate"
           \/ pc[p] = "attach_read" /\ pc'[p] = "attach"
           \/ pc[p] = "put_check" /\ pc'[p] = "read_gate"
           \/ pc[p] = "put_gate" /\ pc'[p] = AfterGate(p)
    BY <1>5 DEF ReadForInsert, PutCheck, PutGate, db, counts, locals
  <2>2. \/ AfterGate(p) = "result" /\ contracts[new[p]] = "effect"
        \/ AfterGate(p) \in {"attach_read", "idle"}
    BY DEF AfterGate
  <2>3. ~Routing(p)' /\ (Hitting(p)' => Hitting(p)) /\ (pc'[p] = "result" => Hitting(p))
    BY <2>1, <2>2 DEF Routing, Hitting, Filling
  <2> QED
    BY <2>1, <2>2, <2>3, OnwardPays DEF Bundled, Filling
<1> QED
  BY <1>1, <1>2, <1>3, <1>4, <1>5 DEF Tool

LEMMA FramePays ==
  ASSUME TypeOK, FreshInv, PlaceInv, NEW p \in Callers, NEW k \in Rows, Frame(p)
  PROVE  PaysApply(p, k) /\ PaysRecord(p, k)
<1> USE DEF TypeOK, Jump
<1>1. CASE OpenFrame(p) \/ CloseFrame(p)
  <2>1. UNCHANGED <<applied, results>> /\ calls' = calls + 1
    BY <1>1 DEF OpenFrame, CloseFrame, ToolCall, db
  <2> QED
    BY <2>1, IdlePays
<1>2. CASE OpenChoiceGate(p)
  <2>1. /\ UNCHANGED <<applied, results, calls, contracts>> /\ pc[p] = "conflict_act"
        /\ pc'[p] = "read_gate" /\ back'[p] = back[p] /\ new'[p] = rows + 1
        /\ rows < MaxRows
    BY <1>2 DEF OpenChoiceGate, db
  <2>2. contracts[rows + 1] = "none"
    BY <2>1, NewRow DEF FreshInv
  <2>3. ~MayApply(p, k)' /\ ~MayRecord(p, k)'
    BY <2>1, <2>2 DEF PlaceInv, MayApply, MayRecord, Routing, Later, Hitting
  <2> QED
    BY <2>1, <2>3, NonePays
<1>3. CASE PutFrame(p) \/ CascadeGates(p) \/ CascadeChecks(p) \/ CascadeFrame(p) \/ Bump(p) \/
           FindFrame(p) \/ PutNewFrame(p) \/ NotHandled(p) \/ AttachGate(p) \/ DeclareAction(p) \/
           ExitFrame(p)
  <2>1. /\ UNCHANGED <<applied, results, calls>>
        /\ pc'[p] \in {"idle", "tools", "close_gates", "close_checks", "close_frame", "bump",
                       "conflict_act", "frame_new", "frame_put"}
    BY <1>3 DEF PutFrame, CascadeGates, CascadeChecks, CascadeFrame, Bump, FindFrame, PutNewFrame,
       NotHandled, AttachGate, DeclareAction, ExitFrame, AfterFrame, db, counts
  <2> QED
    BY <2>1, IdlePays DEF Routing, Bundled, Filling
<1> QED
  BY <1>1, <1>2, <1>3 DEF Frame

LEMMA ApiPays ==
  ASSUME TypeOK, NEW p \in Callers, NEW k \in Rows, Api(p)
  PROVE  PaysApply(p, k) /\ PaysRecord(p, k)
<1> USE DEF TypeOK, Jump
<1>1. CASE ApiGate(p) \/ ApiContract(p) \/ ApiNoCheck(p) \/ ApiCheck(p)
  <2>1. UNCHANGED <<applied, results, calls>> /\ Routing(p)
    BY <1>1 DEF ApiGate, ApiContract, ApiNoCheck, ApiCheck, Routing, db, counts
  <2> QED
    BY <2>1, RoutingPays
<1>2. CASE SupersedeGate(p) \/ SupersedeCheck(p) \/ Choose(p) \/ CloseAskedCheck(p) \/
           AnswerWithoutDice(p)
  <2>1. /\ UNCHANGED <<applied, results, calls>>
        /\ pc'[p] \in {"idle", "sup_gate", "sup_check", "abandon_gate"}
    BY <1>2 DEF SupersedeGate, SupersedeCheck, Choose, CloseAskedCheck, AnswerWithoutDice,
       AfterDrop, counts
  <2> QED
    BY <2>1, IdlePays DEF Routing, Bundled, Filling
<1> QED
  BY <1>1, <1>2 DEF Api

LEMMA FaultPays ==
  ASSUME TypeOK, NEW p \in Callers, NEW k \in Rows, Fault(p)
  PROVE  PaysApply(p, k) /\ PaysRecord(p, k)
<1> USE DEF TypeOK, Jump
<1>1. CASE Abort(p) \/ FailTool(p)
  <2>1. /\ UNCHANGED <<applied, results, calls>>
        /\ pc'[p] \in {"idle", "tools", "reconcile"} /\ (pc'[p] = "reconcile" => back'[p] = "gate")
    BY <1>1 DEF Abort, FailTool, db, counts, locals
  <2> QED
    BY <2>1, IdlePays DEF Routing, Bundled, Filling
<1>2. CASE ReadLost(p)
  <2>1. /\ UNCHANGED <<applied, results, calls, contracts, cur, back, new>>
        /\ \/ pc[p] = "read_check" /\ pc'[p] = "put_check"
           \/ pc[p] = "read_gate" /\ pc'[p] = "put_gate"
           \/ pc[p] = "attach_read" /\ pc'[p] = "attach"
           \/ pc[p] = "reconcile" /\ pc'[p] = "stale_gates"
    BY <1>2 DEF ReadLost, db, counts
  <2>2. (Routing(p)' => Routing(p)) /\ (Hitting(p)' => Hitting(p))
    BY <2>1 DEF Routing, Hitting, Filling
  <2> QED
    BY <2>1, <2>2, OnwardPays DEF Bundled, Filling
<1>3. CASE BlockedUnrecorded(p)
  <2>1. /\ UNCHANGED <<applied, results, calls>> /\ pc'[p] \in {"effect_done", "close_check"}
        /\ back'[p] # "bundle"
    BY <1>3 DEF BlockedUnrecorded, Blocked, counts
  <2>2. ~MayApply(p, k)' /\ ~MayRecord(p, k)'
    BY <2>1 DEF MayApply, MayRecord, Routing, Later, Hitting, Filling
  <2> QED
    BY <2>1, <2>2, NonePays
<1>4. CASE Skip(p)
  <2>1. /\ UNCHANGED <<applied, results, calls, contracts, cur, back, new>>
        /\ pc'[p] = Onward(p) /\ pc'[p] # pc[p]
    BY <1>4 DEF Skip, db, counts, locals
  <2>2. \/ pc[p] = "stale_gates" /\ pc'[p] = "stale_checks"
        \/ pc[p] = "stale_checks" /\ pc'[p] = AfterReconcile(p)
        \/ pc[p] = "post" /\ pc'[p] = "result"
        \/ pc[p] = "close_check" /\ pc'[p] = "close_gate"
        \/ pc[p] = "close_gate" /\ pc'[p] = "close_open"
        \/ pc[p] = "close_open" /\ pc'[p] = AfterResolve(p)
        \/ pc[p] = "put_check" /\ pc'[p] = "read_gate"
        \/ pc[p] = "put_gate" /\ pc'[p] = AfterGate(p)
        \/ pc'[p] \in {"tools", "mint", "frame_put", "close_checks", "close_frame", "bump", "idle",
                       "sup_check", "sup_gate"}
    BY <2>1 DEF Onward, AfterFrame, AfterDrop
  <2>3. AfterReconcile(p) \in {"gate_phase", "tools", "api_gate"}
        /\ (back[p] = "gate" => AfterReconcile(p) = "tools")
    BY DEF AfterReconcile
  <2>4. \/ AfterResolve(p) = "reconcile" /\ back[p] = "gate"
        \/ AfterResolve(p) \in {"tools", "followup", "effect_done", "idle"}
    BY DEF AfterResolve
  <2>5. \/ AfterGate(p) = "result" /\ contracts[new[p]] = "effect"
        \/ AfterGate(p) \in {"attach_read", "idle"}
    BY DEF AfterGate
  <2>6. /\ Routing(p)' => Routing(p)
        /\ Hitting(p)' => Hitting(p)
        /\ pc'[p] = "result" => pc[p] = "post" \/ Hitting(p)
    BY <2>1, <2>2, <2>3, <2>4, <2>5 DEF Routing, Hitting, Filling
  <2> QED
    BY <2>1, <2>2, <2>3, <2>4, <2>5, <2>6, OnwardPays DEF Bundled, Filling
<1> QED
  BY <1>1, <1>2, <1>3, <1>4 DEF Fault

LEMMA StepPays ==
  ASSUME TypeOK, FreshInv, PlaceInv, NEW p \in Callers, Step(p), NEW k \in Rows
  PROVE  PaysApply(p, k) /\ PaysRecord(p, k)
BY RequestPays, ReconcilePays, ResolvePays, ToolPays, FramePays, ApiPays, FaultPays DEF Step

\* The places that PlaceInv speaks of are reached from one another, or from where the request is set up.
LEMMA PlaceStep ==
  ASSUME TypeOK, TypeOK', PlaceInv, NEW p \in Callers, Step(p)
  PROVE  PlaceInv'
<1>0. rows \in Nat /\ rows' \in Nat /\ rows' >= rows /\ (rows < MaxRows => rows + 1 \in Rows)
      /\ \A k \in Rows : k \in Nat
  BY ContractsKept, NewRow
<1> DEFINE Place(q) ==
        /\ pc[q] \in Filling => new[q] \in Rows /\ new[q] <= rows
        /\ pc[q] \in {"cancel_checks", "cancel_gates", "mint"} => back[q] = "tools"
        /\ pc[q] \in {"conflict", "conflict_act", "frame_new"} => back[q] = "conflict"
        /\ pc[q] = "followup" => back[q] = "bundle"
<1>1. \A q \in Callers : Place(q)
  BY DEF PlaceInv
<1>2. ASSUME NEW q \in Callers, q # p PROVE Place(q)'
  <2>1. pc'[q] = pc[q] /\ back'[q] = back[q] /\ new'[q] = new[q]
    BY <1>2, OthersLocals
  <2>2. Place(q)
    BY <1>1
  <2>3. new[q] \in Rows /\ new[q] <= rows => new'[q] <= rows'
    BY <1>0, <2>1
  <2> QED
    BY <2>1, <2>2, <2>3
<1>3. Place(p)'
  <2>0. Place(p)
    BY <1>1
  <2> USE <1>0, <2>0 DEF TypeOK, Jump, Filling
  <2>1. CASE Request(p)
    BY <2>1 DEF Request, StartTurn, StartResolve, StartConflict
  <2>2. CASE Reconcile(p)
    BY <2>2 DEF Reconcile, ReadGeneration, SupersedeStaleGates, SupersedeStaleChecks, AfterReconcile
  <2>3. CASE Resolve(p)
    BY <2>3 DEF Resolve, RollRefused, RollBlocked, Blocked, Roll, ApplyEffects, InsertResult,
       CloseCheck, CloseGate, CloseOpenGate, AnswerGate, FollowUp, EffectDone, AfterResolve, locals,
       counts, db
  <2>4. CASE Tool(p)
    BY <2>4 DEF Tool, GatePhase, EndTurn, RollCheck, RequestRoll, CancelChecks, CancelGates,
       MintContract, ReadForInsert, PutCheck, PutGate, AfterGate, locals, counts, db
  <2>5. CASE Frame(p)
    BY <2>5 DEF Frame, OpenFrame, PutFrame, CloseFrame, CascadeGates, CascadeChecks, CascadeFrame,
       Bump, FindFrame, PutNewFrame, NotHandled, OpenChoiceGate, AttachGate, DeclareAction,
       ExitFrame, AfterFrame, locals, counts, db
  <2>6. CASE Api(p)
    BY <2>6 DEF Api, ApiGate, SupersedeGate, SupersedeCheck, ApiContract, ApiNoCheck, Choose,
       ApiCheck, CloseAskedCheck, AnswerWithoutDice, AfterDrop, locals, counts, db
  <2>7. CASE Abort(p) \/ FailTool(p) \/ ReadLost(p) \/ BlockedUnrecorded(p)
    BY <2>7 DEF Abort, FailTool, ReadLost, BlockedUnrecorded, Blocked, locals, counts, db
  <2>8. CASE Skip(p)
    <3>1. UNCHANGED <<back, new, rows>> /\ pc'[p] = Onward(p) /\ pc'[p] # pc[p]
      BY <2>8 DEF Skip, locals, counts
    <3>2. \/ pc'[p] = "mint" /\ pc[p] = "cancel_gates"
          \/ pc'[p] = "read_gate" /\ pc[p] = "put_check"
          \/ pc'[p] = AfterReconcile(p) \/ pc'[p] = AfterGate(p) \/ pc'[p] = AfterResolve(p)
          \/ pc'[p] \in {"stale_checks", "result", "close_gate", "close_open", "tools", "idle",
                         "frame_put", "close_checks", "close_frame", "bump", "sup_gate",
                         "sup_check"}
      BY <3>1 DEF Onward, AfterFrame, AfterDrop
    <3>3. /\ AfterReconcile(p) \in {"gate_phase", "tools", "api_gate"}
          /\ AfterGate(p) \in {"attach_read", "result", "idle"}
          /\ AfterResolve(p) \in {"reconcile", "tools", "followup", "effect_done", "idle"}
          /\ AfterResolve(p) = "followup" => back[p] = "bundle"
      BY DEF AfterReconcile, AfterGate, AfterResolve
    <3> QED
      BY <3>1, <3>2, <3>3
  <2> QED
    BY <2>1, <2>2, <2>3, <2>4, <2>5, <2>6, <2>7, <2>8 DEF Step, Fault
<1> QED
  BY <1>2, <1>3 DEF PlaceInv

\* What a payment does to the number of those who may still settle: from S to T, by p.
LEMMA PaidFor ==
  ASSUME IsFiniteSet(Callers), TypeOK, NEW p \in Callers,
         NEW S \in SUBSET Callers, NEW T \in SUBSET Callers, S \ {p} = T \ {p},
         NEW n \in Nat, NEW m \in Nat, n + Cardinality(S) <= calls,
         Pays(p \in S, p \in T, n, m)
  PROVE  m + Cardinality(T) <= calls'
<1>1. /\ IsFiniteSet(S) /\ IsFiniteSet(T) /\ IsFiniteSet(S \ {p})
      /\ calls \in Nat
  BY FS_Subset DEF TypeOK
<1>2. /\ Cardinality(S) \in Nat /\ Cardinality(T) \in Nat /\ Cardinality(S \ {p}) \in Nat
      /\ Cardinality(S \ {p}) = IF p \in S THEN Cardinality(S) - 1 ELSE Cardinality(S)
      /\ Cardinality(S \ {p}) = IF p \in T THEN Cardinality(T) - 1 ELSE Cardinality(T)
  BY <1>1, FS_CardinalityType, FS_RemoveElement
<1> QED
  BY <1>1, <1>2 DEF Pays

LEMMA CallStep ==
  ASSUME IsFiniteSet(Callers), TypeOK, TypeOK', FreshInv, PlaceInv, CallInv,
         NEW p \in Callers, Step(p)
  PROVE  CallInv'
<1> SUFFICES ASSUME NEW k \in Rows
             PROVE  /\ applied'[k] + Cardinality(Appliers(k)') <= calls'
                    /\ results'[k] + Cardinality(Recorders(k)') <= calls'
  BY DEF CallInv
<1>1. /\ applied[k] \in Nat /\ applied'[k] \in Nat /\ results[k] \in Nat /\ results'[k] \in Nat
      /\ applied[k] + Cardinality(Appliers(k)) <= calls
      /\ results[k] + Cardinality(Recorders(k)) <= calls
  BY DEF TypeOK, CallInv
<1>2. /\ Appliers(k) \ {p} = Appliers(k)' \ {p}
      /\ Recorders(k) \ {p} = Recorders(k)' \ {p}
  BY OthersMay DEF Appliers, Recorders
<1>3. /\ (p \in Appliers(k) <=> MayApply(p, k)) /\ (p \in Appliers(k)' <=> MayApply(p, k)')
      /\ (p \in Recorders(k) <=> MayRecord(p, k)) /\ (p \in Recorders(k)' <=> MayRecord(p, k)')
  BY DEF Appliers, Recorders
<1>4. /\ Pays(p \in Appliers(k), p \in Appliers(k)', applied[k], applied'[k])
      /\ Pays(p \in Recorders(k), p \in Recorders(k)', results[k], results'[k])
  BY <1>3, StepPays DEF PaysApply, PaysRecord, Pays
<1>5. /\ Appliers(k) \in SUBSET Callers /\ Appliers(k)' \in SUBSET Callers
      /\ Recorders(k) \in SUBSET Callers /\ Recorders(k)' \in SUBSET Callers
  BY DEF Appliers, Recorders
<1> HIDE DEF Appliers, Recorders
<1> QED
  BY <1>1, <1>2, <1>4, <1>5, PaidFor

\* For any finite number of requests in any interleaving, and whatever fails: a call settles a
\* check at most once.
THEOREM OneSettlementPerCall ==
  ASSUME IsFiniteSet(Callers)
  PROVE  Spec => []SettledPerCall
<1>1. Init => PlaceInv /\ CallInv
  <2> SUFFICES ASSUME Init PROVE PlaceInv /\ CallInv
    OBVIOUS
  <2>1. PlaceInv
    BY DEF Init, PlaceInv, Filling
  <2>2. ASSUME NEW k \in Rows PROVE Appliers(k) = {} /\ Recorders(k) = {}
    BY DEF Init, Appliers, Recorders, MayApply, MayRecord, Routing, Later, Hitting, Filling, Bundled
  <2>3. Cardinality({}) = 0
    BY FS_EmptySet
  <2>4. ASSUME NEW k \in Rows
        PROVE  /\ applied[k] + Cardinality(Appliers(k)) <= calls
               /\ results[k] + Cardinality(Recorders(k)) <= calls
    <3>1. Cardinality(Appliers(k)) = 0 /\ Cardinality(Recorders(k)) = 0
      BY <2>2, <2>3
    <3>2. applied[k] = 0 /\ results[k] = 0 /\ calls = 0
      BY DEF Init
    <3> QED
      BY <3>1, <3>2
  <2> QED
    BY <2>1, <2>4 DEF CallInv
<1>2. TypeOK /\ TypeOK' /\ FreshInv /\ PlaceInv /\ CallInv /\ [Next]_vars => PlaceInv' /\ CallInv'
  <2> SUFFICES ASSUME TypeOK, TypeOK', FreshInv, PlaceInv, CallInv, [Next]_vars
               PROVE  PlaceInv' /\ CallInv'
    OBVIOUS
  <2>1. CASE UNCHANGED vars
    BY <2>1 DEF vars, db, counts, locals, PlaceInv, CallInv, Appliers, Recorders, MayApply,
       MayRecord, Routing, Later, Hitting
  <2> QED
    BY <2>1, PlaceStep, CallStep DEF Next, Step
<1>3. TypeOK /\ CallInv => SettledPerCall
  <2> SUFFICES ASSUME TypeOK, CallInv, NEW k \in Rows
               PROVE  applied[k] <= calls /\ results[k] <= calls
    BY DEF SettledPerCall
  <2>1. IsFiniteSet(Appliers(k)) /\ IsFiniteSet(Recorders(k))
    BY FS_Subset DEF Appliers, Recorders
  <2>2. Cardinality(Appliers(k)) \in Nat /\ Cardinality(Recorders(k)) \in Nat
    BY <2>1, FS_CardinalityType
  <2> QED
    BY <2>2 DEF TypeOK, CallInv
<1> QED
  BY <1>1, <1>2, <1>3, TypeCorrect, FreshInvariant, PTL DEF Spec

=============================================================================
