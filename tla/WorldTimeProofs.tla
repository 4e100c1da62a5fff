--------------------------- MODULE WorldTimeProofs ---------------------------
(***************************************************************************)
(* What holds of WorldTime for any set of tasks and scheduled events and   *)
(* any bounds. Of requests that overlap: types, nothing fires early, what  *)
(* fires does so behind an advance that reached it, the log grows and an   *)
(* event is scheduled once. Of requests that do not: the tick never falls, *)
(* and as long as nothing fails each event fires once and in time, a       *)
(* context misses no entry, and the timeline is implemented.               *)
(***************************************************************************)
EXTENDS WorldTime, FiniteSetTheorems, TLAPS

USE DeltasAssumption, OpsAssumption, NoSchedAssumption, BoundsAssumption

\* The clamp of advance and schedule_in yields at least one tick.
LEMMA TicksPositive == ASSUME NEW d \in Int PROVE Ticks(d) \in Nat /\ Ticks(d) >= 1
  BY DEF Ticks

LEMMA AfterEnsureLabel == \A o : AfterEnsure(o) \in Labels
  BY DEF AfterEnsure, Labels

\* Every state the spine can be in is well typed.
THEOREM TypeCorrect == Spec => []TypeOK
<1>0. Origin \in Stamp
  BY DEF Origin, Stamp
<1>1. Init => TypeOK
  <2> SUFFICES ASSUME Init PROVE TypeOK
    OBVIOUS
  <2>1. /\ status \in [Scheds -> Statuses]
        /\ dueTick \in [Scheds -> Nat]
    BY DEF Init, Statuses
  <2>2. /\ pc \in [Callers -> Labels]
        /\ op \in [Callers -> Ops \cup {"record", "mark"}]
    BY DEF Init, Labels
  <2>3. /\ st \in [Callers -> Stamp]
        /\ amount \in [Callers -> Int]
        /\ due \in [Callers -> SUBSET Scheds]
        /\ cur \in [Callers -> Scheds \cup {NoSched}]
        /\ fired \in [Callers -> Nat]
    BY <1>0 DEF Init
  <2>4. /\ started \in BOOLEAN
        /\ now \in Stamp /\ wm \in Stamp
        /\ ops \in Nat /\ faults \in Nat
    BY <1>0 DEF Init
  <2>5. events = {} /\ advances = {} /\ delivered = {}
    BY DEF Init
  <2>. QED  BY <2>1, <2>2, <2>3, <2>4, <2>5 DEF TypeOK
<1>2. TypeOK /\ [Next]_vars => TypeOK'
  <2> SUFFICES ASSUME TypeOK, [Next]_vars PROVE TypeOK'
    OBVIOUS
  <2> USE TicksPositive, AfterEnsureLabel
  <2>0. CASE UNCHANGED vars
    BY <2>0 DEF vars, dbVars, TypeOK
  <2>1. CASE \E c \in Callers : Begin(c)
    BY <2>1 DEF Begin, Goto, dbVars, TypeOK, Labels
  <2>2. ASSUME NEW c \in Callers, Step(c) PROVE TypeOK'
    <3>1. CASE GetState(c)
      BY <1>0, <3>1 DEF GetState, Ensured, Goto, dbVars, TypeOK, Labels
    <3>2. CASE InitState(c)
      BY <3>2 DEF InitState, Goto, TypeOK, Labels
    <3>3. CASE InitEvent(c)
      <4>1. Entry([tick |-> 0, seq |-> 1], "initialized", NoSched) \in Event
        BY DEF Entry, Event, Kinds
      <4>2. events' \subseteq Event
        BY <3>3, <4>1 DEF InitEvent, TypeOK
      <4>. QED  BY <3>3, <4>2 DEF InitEvent, Ensured, Goto, TypeOK, Labels
    <3>4. CASE RecordState(c)
      <4>1. [st[c] EXCEPT !.seq = @ + 1] \in Stamp
        BY DEF TypeOK, Stamp
      <4>. QED  BY <3>4, <4>1 DEF RecordState, PutState, Goto, TypeOK, Labels
    <3>5. CASE AdvanceState(c)
      <4>1. [tick |-> st[c].tick + Ticks(amount[c]), seq |-> st[c].seq + 1] \in Stamp
        BY DEF TypeOK, Stamp
      <4>. QED  BY <3>5, <4>1 DEF AdvanceState, PutState, Goto, TypeOK, Labels
    <3>6. ASSUME NEW kind \in Kinds, NEW next \in Labels, InsertOwn(c, kind, next)
          PROVE  TypeOK'
      <4>1. Entry(st[c], kind, NoSched) \in Event
        BY DEF Entry, Event, TypeOK, Stamp
      <4>2. events' \subseteq Event
        BY <3>6, <4>1 DEF InsertOwn, TypeOK
      <4>. QED  BY <3>6, <4>2 DEF InsertOwn, Goto, TypeOK, Labels
    <3>7. CASE RecordEvent(c) \/ AdvanceEvent(c)
      BY <3>6, <3>7 DEF RecordEvent, AdvanceEvent, Kinds, Labels
    <3>8. CASE AdvanceLog(c)
      <4>1. [from |-> st[c].tick - Ticks(amount[c]), to |-> st[c].tick]
              \in [from: Int, to: Nat]
        BY DEF TypeOK, Stamp
      <4>2. advances' \subseteq [from: Int, to: Nat]
        BY <3>8, <4>1 DEF AdvanceLog, TypeOK
      <4>. QED  BY <3>8, <4>2 DEF AdvanceLog, Goto, TypeOK, Labels
    <3>9. CASE ListDue(c)
      BY <3>9 DEF ListDue, DueAt, Goto, TypeOK, Labels, dbVars
    <3>10. CASE DueEvent(c)
      <4>1. PICK s \in FirstDue(c) :
              /\ cur' = [cur EXCEPT ![c] = s]
              /\ events' \in {events,
                   events \cup {Entry([tick |-> st[c].tick,
                                       seq |-> st[c].seq + fired[c] + 1], "due", s)}}
        BY <3>10 DEF DueEvent
      <4>2. s \in Scheds
        BY <4>1 DEF FirstDue, TypeOK
      <4>3. Entry([tick |-> st[c].tick, seq |-> st[c].seq + fired[c] + 1], "due", s) \in Event
        BY <4>2 DEF Entry, Event, Kinds, TypeOK, Stamp
      <4>4. events' \subseteq Event
        BY <4>1, <4>3 DEF TypeOK
      <4>. QED  BY <3>10, <4>1, <4>2, <4>4 DEF DueEvent, Goto, TypeOK, Labels
    <3>11. CASE DueStatus(c)
      <4>1. status' \in [Scheds -> Statuses]
        BY <3>11 DEF DueStatus, TypeOK, Statuses
      <4>2. due' \in [Callers -> SUBSET Scheds] /\ fired' \in [Callers -> Nat]
        BY <3>11 DEF DueStatus, Iterated, TypeOK
      <4>3. pc' \in [Callers -> Labels]
        BY <3>11 DEF DueStatus, Iterated, Goto, TypeOK, Labels
      <4>. QED  BY <3>11, <4>1, <4>2, <4>3 DEF DueStatus, TypeOK
    <3>12. CASE FinalState(c)
      <4>1. [st[c] EXCEPT !.seq = @ + fired[c]] \in Stamp
        BY DEF TypeOK, Stamp
      <4>. QED  BY <3>12, <4>1 DEF FinalState, PutState, Goto, TypeOK, Labels
    <3>13. CASE InsertScheduled(c)
      BY <3>13 DEF InsertScheduled, Goto, TypeOK, Labels, Statuses, Stamp
    <3>14. CASE GetWatermark(c)
      BY <3>14 DEF GetWatermark, Goto, TypeOK, Labels, dbVars
    <3>15. CASE ListEvents(c)
      BY <3>15 DEF ListEvents, EventsSince, Remark, Goto, TypeOK, Labels, dbVars
    <3>16. CASE PutWatermark(c)
      BY <3>16 DEF PutWatermark, Goto, TypeOK, Labels
    <3>. QED  BY <2>2, <3>1, <3>2, <3>3, <3>4, <3>5, <3>7, <3>8, <3>9, <3>10,
                 <3>11, <3>12, <3>13, <3>14, <3>15, <3>16 DEF Step
  <2>3. ASSUME NEW c \in Callers, Abort(c) PROVE TypeOK'
    BY <2>3 DEF Abort, Failing, Goto, TypeOK, Labels, dbVars
  <2>4. ASSUME NEW c \in Callers, Skip(c) PROVE TypeOK'
    <3>1. /\ op' \in [Callers -> Ops \cup {"record", "mark"}]
          /\ pc' \in [Callers -> Labels]
          /\ due' \in [Callers -> SUBSET Scheds]
          /\ cur' \in [Callers -> Scheds \cup {NoSched}]
          /\ fired' \in [Callers -> Nat]
      BY <2>4 DEF Skip, SkipInitEvent, SkipAdvanceLog, SkipDueEvent, SkipDueStatus,
                  SkipContext, Ensured, Iterated, Remark, FirstDue, Goto, TypeOK, Labels
    <3>. QED  BY <2>4, <3>1 DEF Skip, Failing, TypeOK, dbVars
  <2>. QED  BY <2>0, <2>1, <2>2, <2>3, <2>4 DEF Next
<1>. QED  BY <1>1, <1>2, PTL DEF Spec

-----------------------------------------------------------------------------
(* No scheduled event is logged early. The invariant adds to NoEarlyFire    *)
(* what makes it inductive: an event that has a log entry, or that an       *)
(* advance holds in its list of due events, has a row (so its due_tick is   *)
(* settled), and the tick an advance logs at has reached every event of its *)
(* list.                                                                    *)

Reached(s, tick) == status[s] # "none" /\ dueTick[s] <= tick

FireInv ==
    /\ \A e \in events : e.kind = "due" => e.about \in Scheds /\ Reached(e.about, e.tick)
    /\ \A c \in Callers : pc[c] \in {"due_event", "due_status"} =>
                             \A s \in due[c] : Reached(s, st[c].tick)

\* A row of scheduled_events stays, and its due_tick with it.
LEMMA RowsStay ==
  ASSUME TypeOK, [Next]_vars, NEW s \in Scheds, status[s] # "none"
  PROVE  status'[s] # "none" /\ dueTick'[s] = dueTick[s]
<1>1. CASE UNCHANGED vars
  BY <1>1 DEF vars, dbVars
<1>2. ASSUME NEW c \in Callers, InsertScheduled(c)
      PROVE  status'[s] # "none" /\ dueTick'[s] = dueTick[s]
  BY <1>2 DEF InsertScheduled, TypeOK
<1>3. ASSUME NEW c \in Callers, DueStatus(c)
      PROVE  status'[s] # "none" /\ dueTick'[s] = dueTick[s]
  BY <1>3 DEF DueStatus, TypeOK
<1>4. ASSUME NEW c \in Callers,
             Begin(c) \/ Abort(c) \/ Skip(c) \/ (Step(c) /\ ~InsertScheduled(c) /\ ~DueStatus(c))
      PROVE  status' = status /\ dueTick' = dueTick
  BY <1>4 DEF Begin, Abort, Skip, Step, GetState, InitState, InitEvent, RecordState,
       RecordEvent, AdvanceState, AdvanceEvent, AdvanceLog, ListDue, DueEvent, FinalState,
       GetWatermark, ListEvents, PutWatermark, InsertOwn, PutState, dbVars
<1>. QED  BY <1>1, <1>2, <1>3, <1>4 DEF Next, Step

\* Only DueEvent logs a due event.
LEMMA DueEntries ==
  ASSUME TypeOK, [Next]_vars, NEW e \in events', e \notin events, e.kind = "due"
  PROVE  \E c \in Callers : DueEvent(c)
<1>1. ASSUME NEW c \in Callers, ~DueEvent(c), Begin(c) \/ Step(c) \/ Abort(c) \/ Skip(c)
      PROVE  FALSE
  <2>1. CASE RecordEvent(c) \/ AdvanceEvent(c) \/ InitEvent(c)
    BY <2>1 DEF RecordEvent, AdvanceEvent, InitEvent, InsertOwn, Entry
  <2>2. CASE ~(RecordEvent(c) \/ AdvanceEvent(c) \/ InitEvent(c))
    <3>1. events' = events
      BY <1>1, <2>2 DEF Begin, Abort, Skip, Step, GetState, InitState, RecordState,
         AdvanceState, AdvanceLog, ListDue, DueStatus, FinalState, InsertScheduled,
         GetWatermark, ListEvents, PutWatermark, PutState, dbVars
    <3>. QED  BY <3>1
  <2>. QED  BY <2>1, <2>2
<1>2. events' # events
  OBVIOUS
<1>. QED  BY <1>1, <1>2 DEF Next, vars, dbVars

\* Only a step of its own task moves a task.
LEMMA OwnStep ==
  ASSUME TypeOK, [Next]_vars, NEW c \in Callers
  PROVE  \/ UNCHANGED <<pc[c], st[c], due[c]>>
         \/ Begin(c) \/ Step(c) \/ Abort(c) \/ Skip(c)
<1>1. CASE UNCHANGED vars
  BY <1>1 DEF vars, dbVars
<1>2. ASSUME NEW d \in Callers, d # c, Begin(d) \/ Step(d) \/ Abort(d) \/ Skip(d)
      PROVE  UNCHANGED <<pc[c], st[c], due[c]>>
  <2>1. CASE Begin(d) \/ Abort(d)
    BY <1>2, <2>1 DEF Begin, Abort, Goto, dbVars, TypeOK
  <2>2. CASE Skip(d)
    BY <1>2, <2>2 DEF Skip, SkipInitEvent, SkipAdvanceLog, SkipDueEvent, SkipDueStatus,
       SkipContext, Ensured, Iterated, Remark, Goto, dbVars, TypeOK
  <2>3. CASE Step(d)
    BY <1>2, <2>3 DEF Step, GetState, InitState, InitEvent, RecordState, RecordEvent,
       AdvanceState, AdvanceEvent, AdvanceLog, ListDue, DueEvent, DueStatus, FinalState,
       InsertScheduled, GetWatermark, ListEvents, PutWatermark, InsertOwn, PutState,
       Ensured, Iterated, Remark, Goto, dbVars, TypeOK
  <2>. QED  BY <1>2, <2>1, <2>2, <2>3
<1>. QED  BY <1>1, <1>2 DEF Next

\* Nor does another task change its list or the event in its hand.
LEMMA OwnHand ==
  ASSUME TypeOK, [Next]_vars, NEW c \in Callers
  PROVE  \/ UNCHANGED <<pc[c], due[c], cur[c]>>
         \/ Begin(c) \/ Step(c) \/ Abort(c) \/ Skip(c)
<1>1. CASE UNCHANGED vars
  BY <1>1 DEF vars, dbVars
<1>2. ASSUME NEW d \in Callers, d # c, Begin(d) \/ Step(d) \/ Abort(d) \/ Skip(d)
      PROVE  UNCHANGED <<pc[c], due[c], cur[c]>>
  <2>1. CASE Begin(d) \/ Abort(d)
    BY <1>2, <2>1 DEF Begin, Abort, Goto, dbVars, TypeOK
  <2>2. CASE Skip(d)
    BY <1>2, <2>2 DEF Skip, SkipInitEvent, SkipAdvanceLog, SkipDueEvent, SkipDueStatus,
       SkipContext, Ensured, Iterated, Remark, Goto, dbVars, TypeOK
  <2>3. CASE Step(d)
    BY <1>2, <2>3 DEF Step, GetState, InitState, InitEvent, RecordState, RecordEvent,
       AdvanceState, AdvanceEvent, AdvanceLog, ListDue, DueEvent, DueStatus, FinalState,
       InsertScheduled, GetWatermark, ListEvents, PutWatermark, InsertOwn, PutState,
       Ensured, Iterated, Remark, Goto, dbVars, TypeOK
  <2>. QED  BY <1>2, <2>1, <2>2, <2>3
<1>. QED  BY <1>1, <1>2 DEF Next

\* However many tasks interleave and fail, FireInv holds.
LEMMA FireHolds == Spec => []FireInv
<1>1. Init => FireInv
  BY DEF Init, FireInv
<1>2. TypeOK /\ TypeOK' /\ FireInv /\ [Next]_vars => FireInv'
  <2> SUFFICES ASSUME TypeOK, TypeOK', FireInv, [Next]_vars PROVE FireInv'
    OBVIOUS
  <2>1. \A s \in Scheds : status[s] # "none" =>
                            status'[s] # "none" /\ dueTick'[s] = dueTick[s]
    BY RowsStay
  <2>2. ASSUME NEW e \in events', e.kind = "due"
        PROVE  /\ e.about \in Scheds
               /\ status'[e.about] # "none" /\ dueTick'[e.about] <= e.tick
    <3>1. CASE e \in events
      BY <2>1, <2>2, <3>1 DEF FireInv, Reached
    <3>2. CASE e \notin events
      <4>1. PICK c \in Callers : DueEvent(c)
        BY <2>2, <3>2, DueEntries
      <4>2. PICK s \in FirstDue(c) :
               e = Entry([tick |-> st[c].tick, seq |-> st[c].seq + fired[c] + 1], "due", s)
        BY <2>2, <3>2, <4>1 DEF DueEvent
      <4>3. s \in due[c] /\ s \in Scheds
        BY <4>2 DEF FirstDue, TypeOK
      <4>4. Reached(s, st[c].tick)
        BY <4>1, <4>3 DEF FireInv, DueEvent
      <4>5. e.about = s /\ e.tick = st[c].tick
        BY <4>2 DEF Entry
      <4>. QED  BY <2>1, <4>3, <4>4, <4>5 DEF Reached
    <3>. QED  BY <3>1, <3>2
  <2>3. ASSUME NEW c \in Callers, pc'[c] \in {"due_event", "due_status"}, NEW s \in due'[c]
        PROVE  status'[s] # "none" /\ dueTick'[s] <= st'[c].tick
    <3>0. s \in Scheds
      BY <2>3 DEF TypeOK
    <3>1. CASE UNCHANGED <<pc[c], st[c], due[c]>>
      BY <2>1, <2>3, <3>0, <3>1 DEF FireInv, Reached
    <3>2. CASE ListDue(c)
      <4>1. s \in DueAt(st[c].tick) /\ st' = st
        BY <2>3, <3>2 DEF ListDue, TypeOK
      <4>2. Reached(s, st[c].tick)
        BY <4>1 DEF DueAt, Reached
      <4>. QED  BY <2>1, <3>0, <4>1, <4>2 DEF Reached
    <3>3. CASE DueEvent(c) \/ DueStatus(c) \/ Skip(c)
      <4>1. /\ pc[c] \in {"due_event", "due_status"}
            /\ s \in due[c]
            /\ st' = st
        BY <2>3, <3>3, AfterEnsureLabel DEF DueEvent, DueStatus, Skip, SkipInitEvent,
           SkipAdvanceLog, SkipDueEvent, SkipDueStatus, SkipContext, Ensured, AfterEnsure,
           Iterated, Remark, Goto, TypeOK
      <4>2. Reached(s, st[c].tick)
        BY <4>1 DEF FireInv
      <4>. QED  BY <2>1, <3>0, <4>1, <4>2 DEF Reached
    <3>4. CASE \/ Begin(c) \/ Abort(c)
               \/ Step(c) /\ ~ListDue(c) /\ ~DueEvent(c) /\ ~DueStatus(c)
      <4>1. pc'[c] \notin {"due_event", "due_status"}
        BY <3>4 DEF Begin, Abort, Step, GetState, InitState, InitEvent, RecordState,
           RecordEvent, AdvanceState, AdvanceEvent, AdvanceLog, FinalState,
           InsertScheduled, GetWatermark, ListEvents, PutWatermark, InsertOwn, PutState,
           Ensured, AfterEnsure, Remark, Goto, TypeOK
      <4>. QED  BY <2>3, <4>1
    <3>. QED  BY <3>1, <3>2, <3>3, <3>4, OwnStep
  <2>. QED  BY <2>2, <2>3 DEF FireInv, Reached
<1>. QED  BY <1>1, <1>2, TypeCorrect, PTL DEF Spec

\* However many tasks interleave and fail, a scheduled event is logged at a
\* tick that has reached its due_tick.
THEOREM NeverFiredEarly == Spec => []NoEarlyFire
<1>1. FireInv => NoEarlyFire
  BY DEF FireInv, NoEarlyFire, Reached
<1>. QED  BY <1>1, FireHolds, PTL

-----------------------------------------------------------------------------
(* What overlapping requests cannot spoil. The tick may fall and a           *)
(* consequence may be logged twice or not at all (two requests write whole   *)
(* copies of one row), but whatever was fired stands behind an advance of    *)
(* the log that reached it, and a scheduled event goes its way once.         *)

\* A row of the log says that an advance ended at this tick.
Advanced(a) == a \in events /\ a.kind = "advanced"

\* The labels between the log entry of an advance and its last due event.
Firing == {"advance_log", "list_due", "due_event", "due_status"}

\* However requests overlap and fail: a due event in the log follows, at the
\* same tick, the entry of an advance that had reached it, and an event that
\* is marked due was reached by an advance that is in the log (advance of
\* trpg-time inserts its own entry before it lists what is due).
FiredBehindAdvance ==
    /\ \A e \in events : e.kind = "due" =>
         \E a \in events : /\ Advanced(a) /\ Before(a, e)
                          /\ a.tick = e.tick /\ dueTick[e.about] <= a.tick
    /\ \A s \in Scheds : status[s] = "due" =>
         \E a \in events : Advanced(a) /\ dueTick[s] <= a.tick

\* However requests overlap and fail: a row of the log stays, a scheduled
\* event is inserted once and marked due once, and its due_tick stays what it
\* was inserted with.
ScheduledForward ==
    [][/\ events \subseteq events'
       /\ \A s \in Scheds :
            /\ status'[s] # status[s] =>
                 <<status[s], status'[s]>> \in {<<"none", "pending">>, <<"pending", "due">>}
            /\ dueTick'[s] # dueTick[s] => status[s] = "none"]_vars

\* A task that fires has its own entry in the log, and the event in its hand
\* is of its list.
BackInv ==
    /\ \A c \in Callers : pc[c] \in Firing => Entry(st[c], "advanced", NoSched) \in events
    /\ \A c \in Callers : pc[c] = "due_status" => cur[c] \in due[c]
    /\ \A e \in events : e.kind = "due" =>
         \E a \in events : Advanced(a) /\ a.tick = e.tick /\ a.seq < e.seq
    /\ \A s \in Scheds : status[s] = "due" =>
         \E a \in events : Advanced(a) /\ dueTick[s] <= a.tick

\* No statement takes a row out of the log.
LEMMA LogStays == ASSUME [Next]_vars PROVE events \subseteq events'
<1>1. CASE UNCHANGED vars
  BY <1>1 DEF vars, dbVars
<1>2. ASSUME NEW c \in Callers, Begin(c) \/ Step(c) \/ Abort(c) \/ Skip(c)
      PROVE  events \subseteq events'
  <2>1. CASE InitEvent(c) \/ RecordEvent(c) \/ AdvanceEvent(c) \/ DueEvent(c)
    BY <2>1 DEF InitEvent, RecordEvent, AdvanceEvent, DueEvent, InsertOwn
  <2>2. CASE ~(InitEvent(c) \/ RecordEvent(c) \/ AdvanceEvent(c) \/ DueEvent(c))
    BY <1>2, <2>2 DEF Begin, Abort, Skip, Step, GetState, InitState, RecordState,
       AdvanceState, AdvanceLog, ListDue, DueStatus, FinalState, InsertScheduled,
       GetWatermark, ListEvents, PutWatermark, PutState, dbVars
  <2>. QED  BY <2>1, <2>2
<1>. QED  BY <1>1, <1>2 DEF Next

\* A status moves to pending with a new row, and to due for what a task that
\* fires has in its hand.
LEMMA StatusMoves ==
  ASSUME TypeOK, FireInv, BackInv, [Next]_vars, NEW s \in Scheds, status'[s] # status[s]
  PROVE  \/ status[s] = "none" /\ status'[s] = "pending"
         \/ /\ status[s] = "pending" /\ status'[s] = "due"
            /\ \E c \in Callers : pc[c] = "due_status" /\ cur[c] = s /\ s \in due[c]
<1>1. PICK c \in Callers : InsertScheduled(c) \/ DueStatus(c)
  <2>1. ASSUME NEW c \in Callers, ~InsertScheduled(c), ~DueStatus(c),
               Begin(c) \/ Step(c) \/ Abort(c) \/ Skip(c)
        PROVE  status' = status
    BY <2>1 DEF Begin, Abort, Skip, Step, GetState, InitState, InitEvent, RecordState,
       RecordEvent, AdvanceState, AdvanceEvent, AdvanceLog, ListDue, DueEvent, FinalState,
       GetWatermark, ListEvents, PutWatermark, InsertOwn, PutState, dbVars
  <2>. QED  BY <2>1 DEF Next, vars, dbVars
<1>2. CASE InsertScheduled(c)
  BY <1>2 DEF InsertScheduled, TypeOK
<1>3. CASE DueStatus(c)
  <2>1. pc[c] = "due_status" /\ cur[c] \in due[c]
    BY <1>3 DEF DueStatus, BackInv
  <2>2. cur[c] = s /\ status'[s] = "due"
    BY <1>3 DEF DueStatus, TypeOK
  <2>3. status[s] # "none"
    BY <2>1, <2>2 DEF FireInv, Reached
  <2>4. status[s] \in Statuses
    BY DEF TypeOK
  <2>. QED  BY <2>1, <2>2, <2>3, <2>4 DEF Statuses
<1>. QED  BY <1>1, <1>2, <1>3

LEMMA BackStep ==
  ASSUME TypeOK, TypeOK', FireInv, BackInv, [Next]_vars
  PROVE  BackInv'
<1>0. events \subseteq events'
  BY LogStays
<1>1. ASSUME NEW c \in Callers, pc'[c] \in Firing
      PROVE  Entry(st'[c], "advanced", NoSched) \in events'
  <2>1. CASE UNCHANGED <<pc[c], st[c], due[c]>>
    BY <1>0, <1>1, <2>1 DEF BackInv
  <2>2. CASE AdvanceEvent(c)
    BY <1>1, <2>2 DEF AdvanceEvent, InsertOwn, Goto, Firing, TypeOK
  <2>3. CASE AdvanceLog(c) \/ ListDue(c) \/ DueEvent(c) \/ DueStatus(c)
    <3>1. pc[c] \in Firing /\ st' = st
      BY <2>3 DEF AdvanceLog, ListDue, DueEvent, DueStatus, Firing
    <3>. QED  BY <1>0, <3>1 DEF BackInv
  <2>4. CASE Skip(c)
    <3>1. pc[c] \in Firing /\ st' = st
      BY <1>1, <2>4 DEF Skip, SkipInitEvent, SkipAdvanceLog, SkipDueEvent, SkipDueStatus,
         SkipContext, Ensured, AfterEnsure, Iterated, Remark, Goto, Firing, TypeOK
    <3>. QED  BY <1>0, <3>1 DEF BackInv
  <2>5. CASE \/ Begin(c) \/ Abort(c)
             \/ /\ Step(c) /\ ~AdvanceEvent(c) /\ ~AdvanceLog(c) /\ ~ListDue(c)
                /\ ~DueEvent(c) /\ ~DueStatus(c)
    <3>1. pc'[c] \notin Firing
      BY <2>5 DEF Begin, Abort, Step, GetState, InitState, InitEvent, RecordState,
         RecordEvent, AdvanceState, FinalState, InsertScheduled, GetWatermark, ListEvents,
         PutWatermark, InsertOwn, PutState, Ensured, AfterEnsure, Remark, Goto, Firing,
         TypeOK
    <3>. QED  BY <1>1, <3>1
  <2>. QED  BY <2>1, <2>2, <2>3, <2>4, <2>5, OwnStep
<1>2. ASSUME NEW c \in Callers, pc'[c] = "due_status"
      PROVE  cur'[c] \in due'[c]
  <2>1. CASE DueEvent(c) \/ Skip(c)
    BY <1>2, <2>1 DEF DueEvent, Skip, SkipInitEvent, SkipAdvanceLog, SkipDueEvent,
       SkipDueStatus, SkipContext, Ensured, AfterEnsure, Iterated, Remark, FirstDue, Goto,
       TypeOK
  <2>2. CASE Begin(c) \/ Abort(c) \/ (Step(c) /\ ~DueEvent(c))
    <3>1. pc'[c] # "due_status"
      BY <2>2 DEF Begin, Abort, Step, GetState, InitState, InitEvent, RecordState,
         RecordEvent, AdvanceState, AdvanceEvent, AdvanceLog, ListDue, DueStatus, FinalState,
         InsertScheduled, GetWatermark, ListEvents, PutWatermark, InsertOwn, PutState,
         Ensured, AfterEnsure, Iterated, Remark, Goto, TypeOK
    <3>. QED  BY <1>2, <3>1
  <2>3. CASE UNCHANGED <<pc[c], due[c], cur[c]>>
    BY <1>2, <2>3 DEF BackInv
  <2>. QED  BY <2>1, <2>2, <2>3, OwnHand
<1>3. ASSUME NEW e \in events', e.kind = "due"
      PROVE  \E a \in events' : /\ a \in events' /\ a.kind = "advanced"
                                /\ a.tick = e.tick /\ a.seq < e.seq
  <2>1. CASE e \in events
    BY <1>0, <1>3, <2>1 DEF BackInv, Advanced
  <2>2. CASE e \notin events
    <3>1. PICK c \in Callers : DueEvent(c)
      BY <1>3, <2>2, DueEntries
    <3>2. PICK s \in FirstDue(c) :
             e = Entry([tick |-> st[c].tick, seq |-> st[c].seq + fired[c] + 1], "due", s)
      BY <2>2, <3>1 DEF DueEvent
    <3>3. Entry(st[c], "advanced", NoSched) \in events
      BY <3>1 DEF DueEvent, Firing, BackInv
    <3>4. st[c].seq \in Nat /\ fired[c] \in Nat
      BY DEF TypeOK, Stamp
    <3>. QED  BY <1>0, <3>2, <3>3, <3>4 DEF Entry
  <2>. QED  BY <2>1, <2>2
<1>4. ASSUME NEW s \in Scheds, status'[s] = "due"
      PROVE  \E a \in events' : a \in events' /\ a.kind = "advanced" /\ dueTick'[s] <= a.tick
  <2>1. status[s] # "none" /\ dueTick'[s] = dueTick[s]
    <3>1. status[s] # "none"
      BY <1>4, StatusMoves
    <3>. QED  BY <3>1, RowsStay
  <2>2. CASE status[s] = "due"
    BY <1>0, <2>1, <2>2 DEF BackInv, Advanced
  <2>3. CASE status[s] # "due"
    <3>1. PICK c \in Callers : pc[c] = "due_status" /\ s \in due[c]
      BY <1>4, <2>1, <2>3, StatusMoves
    <3>2. dueTick[s] <= st[c].tick
      BY <3>1 DEF FireInv, Reached
    <3>3. Entry(st[c], "advanced", NoSched) \in events
      BY <3>1 DEF Firing, BackInv
    <3>. QED  BY <1>0, <2>1, <3>2, <3>3 DEF Entry
  <2>. QED  BY <2>2, <2>3
<1>. QED  BY <1>1, <1>2, <1>3, <1>4 DEF BackInv, Advanced

LEMMA BackHolds == Spec => []BackInv
<1>1. Init => BackInv
  BY DEF Init, BackInv, Firing
<1>2. TypeOK /\ TypeOK' /\ FireInv /\ BackInv /\ [Next]_vars => BackInv'
  BY BackStep
<1>. QED  BY <1>1, <1>2, TypeCorrect, FireHolds, PTL DEF Spec

\* However requests overlap and fail, what was fired stands behind an advance
\* in the log that had reached it.
THEOREM FiredAfterAdvance == Spec => []FiredBehindAdvance
<1>1. TypeOK /\ FireInv /\ BackInv => FiredBehindAdvance
  <2> SUFFICES ASSUME TypeOK, FireInv, BackInv PROVE FiredBehindAdvance
    OBVIOUS
  <2>1. ASSUME NEW e \in events, e.kind = "due"
        PROVE  \E a \in events : /\ Advanced(a) /\ Before(a, e)
                                /\ a.tick = e.tick /\ dueTick[e.about] <= a.tick
    <3>1. PICK a \in events : Advanced(a) /\ a.tick = e.tick /\ a.seq < e.seq
      BY <2>1 DEF BackInv
    <3>2. dueTick[e.about] <= e.tick
      BY <2>1 DEF FireInv, Reached
    <3>. QED  BY <3>1, <3>2 DEF Before
  <2>. QED  BY <2>1 DEF FiredBehindAdvance, BackInv
<1>. QED  BY <1>1, TypeCorrect, FireHolds, BackHolds, PTL

\* However requests overlap and fail, the log only grows, and a scheduled
\* event goes from none to pending to due with one due_tick.
THEOREM ScheduledOnce == Spec => ScheduledForward
<1>1. TypeOK /\ FireInv /\ BackInv /\ [Next]_vars =>
        [/\ events \subseteq events'
         /\ \A s \in Scheds :
              /\ status'[s] # status[s] =>
                   <<status[s], status'[s]>> \in {<<"none", "pending">>, <<"pending", "due">>}
              /\ dueTick'[s] # dueTick[s] => status[s] = "none"]_vars
  BY LogStays, StatusMoves, RowsStay
<1>. QED  BY <1>1, TypeCorrect, FireHolds, BackHolds, PTL DEF Spec, ScheduledForward

-----------------------------------------------------------------------------
(* Requests that do not overlap keep the timeline monotone, whatever fails: *)
(* between its read and its last write, a lone task's copy of the row is    *)
(* the row.                                                                 *)

Holding == {"init_state", "init_event", "record_state", "record_event",
            "advance_state", "advance_event", "advance_log", "list_due",
            "due_event", "due_status", "final_state", "insert_scheduled"}

CopyInv ==
    /\ ~started => now = Origin
    /\ \A c \in Callers : pc[c] \in Holding => st[c] = now

LEMMA CopyStep ==
  ASSUME \A c, d \in Callers : c = d, TypeOK, CopyInv, [Next]_vars
  PROVE  CopyInv' /\ now'.tick >= now.tick
<1>1. CASE UNCHANGED vars
  BY <1>1 DEF vars, dbVars, CopyInv, TypeOK, Stamp
<1>2. ASSUME NEW c \in Callers, Begin(c) \/ Step(c) \/ Abort(c) \/ Skip(c)
      PROVE  CopyInv' /\ now'.tick >= now.tick
  <2> SUFFICES /\ ~started' => now' = Origin
               /\ pc'[c] \in Holding => st'[c] = now'
               /\ now'.tick >= now.tick
    BY DEF CopyInv
  <2>0. /\ ~started => now = Origin
        /\ pc[c] \in Holding => st[c] = now
        /\ now.tick \in Nat
        /\ st[c] \in Stamp
    BY DEF CopyInv, TypeOK, Stamp
  <2>1. CASE Begin(c) \/ Abort(c)
    BY <2>0, <2>1 DEF Begin, Abort, Goto, dbVars, Holding, TypeOK
  <2>2. CASE Skip(c)
    <3>1. pc'[c] \in Holding => pc[c] \in Holding
      BY <2>2 DEF Skip, SkipInitEvent, SkipAdvanceLog, SkipDueEvent, SkipDueStatus,
         SkipContext, Ensured, AfterEnsure, Iterated, Remark, Goto, Holding, TypeOK
    <3>. QED  BY <2>0, <2>2, <3>1 DEF Skip, dbVars
  <2>3. CASE GetState(c)
    BY <2>0, <2>3 DEF GetState, dbVars, TypeOK
  <2>4. CASE InitState(c)
    BY <2>0, <2>4 DEF InitState, Goto, Holding, TypeOK
  <2>5. CASE RecordState(c) \/ AdvanceState(c) \/ FinalState(c)
    <3>1. PICK copy : PutState(c, copy) /\ copy.tick \in Nat /\ copy.tick >= st[c].tick
      <4>1. Ticks(amount[c]) \in Nat /\ fired[c] \in Nat
        BY TicksPositive DEF TypeOK
      <4>. QED  BY <2>0, <2>5, <4>1 DEF RecordState, AdvanceState, FinalState, Stamp
    <3>2. pc[c] \in Holding
      BY <2>5 DEF RecordState, AdvanceState, FinalState, Holding
    <3>. QED  BY <2>0, <3>1, <3>2 DEF PutState, TypeOK
  <2>6. CASE InitEvent(c) \/ RecordEvent(c) \/ AdvanceEvent(c) \/ AdvanceLog(c)
              \/ ListDue(c) \/ DueEvent(c) \/ DueStatus(c)
    <3>1. pc[c] \in Holding /\ UNCHANGED <<now, started, st>>
      BY <2>6 DEF InitEvent, RecordEvent, AdvanceEvent, InsertOwn, AdvanceLog, ListDue,
         DueEvent, DueStatus, Holding, dbVars
    <3>. QED  BY <2>0, <3>1
  <2>7. CASE InsertScheduled(c) \/ GetWatermark(c) \/ ListEvents(c) \/ PutWatermark(c)
    BY <2>0, <2>7 DEF InsertScheduled, GetWatermark, ListEvents, PutWatermark,
       Remark, Goto, Holding, dbVars, TypeOK
  <2>. QED  BY <1>2, <2>1, <2>2, <2>3, <2>4, <2>5, <2>6, <2>7 DEF Step
<1>. QED  BY <1>1, <1>2 DEF Next

\* A task that runs alone never moves the tick back.
THEOREM AloneMonotone ==
  ASSUME \A c, d \in Callers : c = d
  PROVE  Spec => TickMonotone
<1>1. Init => CopyInv
  BY DEF Init, CopyInv, Holding
<1>2. CopyInv /\ TypeOK /\ [Next]_vars => CopyInv'
  BY CopyStep
<1>3. CopyInv /\ TypeOK /\ [Next]_vars => [now'.tick >= now.tick]_vars
  BY CopyStep
<1>. QED  BY <1>1, <1>2, <1>3, TypeCorrect, PTL DEF Spec, TickMonotone

-----------------------------------------------------------------------------
(* Requests that do not overlap neither lose nor repeat a scheduled event   *)
(* as long as no statement fails. An advance that has moved the tick looks  *)
(* for the events the tick has passed (Settling); the log has room for its  *)
(* entries because no entry lies ahead of the row; and an event is logged   *)
(* exactly when it is marked, or about to be.                               *)

Settling(c, s) == \/ pc[c] \in {"advance_event", "advance_log", "list_due"}
                  \/ pc[c] \in {"due_event", "due_status"} /\ s \in due[c]

DueLog(s) == {e \in events : e.kind = "due" /\ e.about = s}

Marking(s) == \E c \in Callers : pc[c] = "due_status" /\ cur[c] = s

LogBehind ==
    /\ \A e \in events : e.tick <= now.tick
    /\ \A c \in Callers : pc[c] = "advance_event" => \A e \in events : e.tick < now.tick
    /\ \A c \in Callers : pc[c] \in {"advance_log", "list_due", "due_event"} =>
          \A e \in events : e.tick = now.tick => e.seq <= st[c].seq + fired[c]
    /\ \A c \in Callers : pc[c] = "due_status" =>
          \A e \in events : e.tick = now.tick => e.seq <= st[c].seq + fired[c] + 1

DueHeld ==
    \A c \in Callers :
        /\ pc[c] \in {"due_event", "due_status"} => \A s \in due[c] : status[s] = "pending"
        /\ pc[c] = "due_status" => cur[c] \in due[c]

PassedSettles ==
    \A s \in Scheds : status[s] = "pending" /\ dueTick[s] <= now.tick =>
        \E c \in Callers : Settling(c, s)

LoggedOnce ==
    \A s \in Scheds :
        IF status[s] = "due" \/ Marking(s)
        THEN \E e \in events : DueLog(s) = {e}
        ELSE DueLog(s) = {}

LoneInv == faults = 0 => LogBehind /\ DueHeld /\ PassedSettles /\ LoggedOnce

Busy == {"advance_event", "advance_log", "list_due", "due_event", "due_status"}

LoneParts == LogBehind /\ DueHeld /\ PassedSettles /\ LoggedOnce

\* A statement outside an advance that neither moves the tick nor touches the log and the
\* scheduled events.
LEMMA StillStep ==
  ASSUME NEW c \in Callers, \A d \in Callers : d = c, LoneParts,
         pc[c] \notin Busy, pc'[c] \notin Busy, now'.tick = now.tick,
         UNCHANGED <<events, status, dueTick>>
  PROVE  LoneParts'
<1>1. LogBehind' /\ DueHeld'
  BY DEF LoneParts, LogBehind, DueHeld, Busy
<1>2. PassedSettles'
  BY DEF LoneParts, PassedSettles, Settling, Busy
<1>3. ASSUME NEW s PROVE ~Marking(s) /\ ~Marking(s)' /\ DueLog(s)' = DueLog(s)
  BY DEF Marking, DueLog, Busy
<1>4. LoggedOnce'
  BY <1>3 DEF LoneParts, LoggedOnce
<1>. QED  BY <1>1, <1>2, <1>4 DEF LoneParts

\* InitEvent and RecordEvent log an entry that is about no scheduled event.
LEMMA EntryStep ==
  ASSUME NEW c \in Callers, \A d \in Callers : d = c, LoneParts,
         pc[c] \notin Busy, pc'[c] \notin Busy, UNCHANGED <<now, status, dueTick>>,
         NEW e, e.kind # "due", e.tick <= now.tick, events' \in {events, events \cup {e}}
  PROVE  LoneParts'
<1>1. LogBehind' /\ DueHeld'
  BY DEF LoneParts, LogBehind, DueHeld, Busy
<1>2. PassedSettles'
  BY DEF LoneParts, PassedSettles, Settling, Busy
<1>3. ASSUME NEW s PROVE ~Marking(s) /\ ~Marking(s)' /\ DueLog(s)' = DueLog(s)
  BY DEF Marking, DueLog, Busy
<1>4. LoggedOnce'
  BY <1>3 DEF LoneParts, LoggedOnce
<1>. QED  BY <1>1, <1>2, <1>4 DEF LoneParts

LEMMA AdvanceStateLone ==
  ASSUME NEW c \in Callers, \A d \in Callers : d = c, TypeOK, CopyInv, LoneParts,
         AdvanceState(c)
  PROVE  LoneParts'
<1>1. /\ pc[c] = "advance_state" /\ pc'[c] = "advance_event"
      /\ now' = [tick |-> st[c].tick + Ticks(amount[c]), seq |-> st[c].seq + 1]
      /\ UNCHANGED <<events, status, dueTick>>
  BY DEF AdvanceState, PutState, Goto, TypeOK
<1>2. st[c].tick = now.tick
  BY <1>1 DEF CopyInv, Holding
<1>3. now'.tick > now.tick /\ now.tick \in Nat /\ now'.tick \in Nat
  BY <1>1, <1>2, TicksPositive DEF TypeOK, Stamp
<1>4. \A e \in events : e.tick \in Nat /\ e.tick < now'.tick
  BY <1>3 DEF LoneParts, LogBehind, TypeOK, Event
<1>5. LogBehind' /\ DueHeld'
  BY <1>1, <1>3, <1>4 DEF LogBehind, DueHeld
<1>6. PassedSettles'
  BY <1>1 DEF PassedSettles, Settling
<1>7. ASSUME NEW s PROVE ~Marking(s) /\ ~Marking(s)' /\ DueLog(s)' = DueLog(s)
  BY <1>1 DEF Marking, DueLog
<1>8. LoggedOnce'
  BY <1>1, <1>7 DEF LoneParts, LoggedOnce
<1>. QED  BY <1>5, <1>6, <1>8 DEF LoneParts

\* The tick is new, so the log has room for the entry of the advance.
LEMMA AdvanceEventLone ==
  ASSUME NEW c \in Callers, \A d \in Callers : d = c, TypeOK, CopyInv, LoneParts,
         AdvanceEvent(c)
  PROVE  LoneParts'
<1> DEFINE new == Entry(st[c], "advanced", NoSched)
<1>0. pc[c] = "advance_event" /\ st[c].tick = now.tick /\ now.tick \in Nat
  BY DEF AdvanceEvent, CopyInv, Holding, TypeOK, Stamp
<1>1. \A e \in events : e.tick < now.tick /\ e.tick \in Nat
  BY <1>0 DEF LoneParts, LogBehind, TypeOK, Event
<1>2. Free(st[c])
  BY <1>0, <1>1 DEF Free
<1>3. /\ pc'[c] = "advance_log" /\ events' = events \cup {new}
      /\ UNCHANGED <<now, st, fired, status, dueTick>>
  BY <1>2 DEF AdvanceEvent, InsertOwn, Goto, TypeOK
<1>4. new.tick = now.tick /\ new.seq = st[c].seq /\ new.kind # "due"
  BY <1>0 DEF Entry
<1>5. st[c].seq \in Nat /\ fired[c] \in Nat
  BY DEF TypeOK, Stamp
<1>6. \A e \in events' : e.tick <= now.tick /\ (e.tick = now.tick => e.seq <= st[c].seq + fired[c])
  <2> HIDE DEF new
  <2> QED BY <1>0, <1>1, <1>3, <1>4, <1>5
<1>7. LogBehind' /\ DueHeld'
  BY <1>3, <1>6 DEF LogBehind, DueHeld
<1>8. PassedSettles'
  BY <1>3 DEF PassedSettles, Settling
<1>9. ASSUME NEW s PROVE ~Marking(s) /\ ~Marking(s)' /\ DueLog(s)' = DueLog(s)
  <2> HIDE DEF new
  <2> QED BY <1>0, <1>3, <1>4 DEF Marking, DueLog
<1>10. LoggedOnce'
  BY <1>3, <1>9 DEF LoneParts, LoggedOnce
<1>. QED  BY <1>7, <1>8, <1>10 DEF LoneParts

LEMMA AdvanceLogLone ==
  ASSUME NEW c \in Callers, \A d \in Callers : d = c, TypeOK, LoneParts, AdvanceLog(c)
  PROVE  LoneParts'
<1>1. /\ pc[c] = "advance_log" /\ pc'[c] = "list_due"
      /\ UNCHANGED <<now, st, fired, events, status, dueTick>>
  BY DEF AdvanceLog, Goto, TypeOK
<1>2. LogBehind' /\ DueHeld'
  BY <1>1 DEF LoneParts, LogBehind, DueHeld
<1>3. PassedSettles'
  BY <1>1 DEF PassedSettles, Settling
<1>4. ASSUME NEW s PROVE ~Marking(s) /\ ~Marking(s)' /\ DueLog(s)' = DueLog(s)
  BY <1>1 DEF Marking, DueLog
<1>5. LoggedOnce'
  BY <1>1, <1>4 DEF LoneParts, LoggedOnce
<1>. QED  BY <1>2, <1>3, <1>5 DEF LoneParts

\* Nothing the tick has passed escapes the listing.
LEMMA ListDueLone ==
  ASSUME NEW c \in Callers, \A d \in Callers : d = c, TypeOK, CopyInv, LoneParts, ListDue(c)
  PROVE  LoneParts'
<1>1. /\ pc[c] = "list_due"
      /\ pc'[c] = IF DueAt(st[c].tick) = {} THEN "idle" ELSE "due_event"
      /\ due'[c] = DueAt(st[c].tick)
      /\ UNCHANGED <<now, st, fired, events, status, dueTick>>
  BY DEF ListDue, Goto, TypeOK, dbVars
<1>2. st[c].tick = now.tick
  BY <1>1 DEF CopyInv, Holding
<1>3. LogBehind'
  BY <1>1 DEF LoneParts, LogBehind
<1>4. DueHeld'
  BY <1>1 DEF DueHeld, DueAt
<1>5. PassedSettles'
  <2> SUFFICES ASSUME NEW s \in Scheds, status[s] = "pending", dueTick[s] <= now.tick
               PROVE  Settling(c, s)'
    BY <1>1 DEF PassedSettles
  <2>1. s \in DueAt(st[c].tick)
    BY <1>2 DEF DueAt
  <2> QED  BY <1>1, <2>1 DEF Settling
<1>6. ASSUME NEW s PROVE ~Marking(s) /\ ~Marking(s)' /\ DueLog(s)' = DueLog(s)
  BY <1>1 DEF Marking, DueLog
<1>7. LoggedOnce'
  BY <1>1, <1>6 DEF LoneParts, LoggedOnce
<1>. QED  BY <1>3, <1>4, <1>5, <1>7 DEF LoneParts

\* The log has room for the entry of a due event, and has none of it yet.
LEMMA DueEventLone ==
  ASSUME NEW c \in Callers, \A d \in Callers : d = c, TypeOK, CopyInv, LoneParts, DueEvent(c)
  PROVE  LoneParts'
<1>0. /\ pc[c] = "due_event" /\ pc'[c] = "due_status"
      /\ UNCHANGED <<now, st, fired, due, status, dueTick>>
  BY DEF DueEvent, Goto, TypeOK
<1>1. PICK s, e :
        /\ s \in FirstDue(c)
        /\ e = Entry([tick |-> st[c].tick, seq |-> st[c].seq + fired[c] + 1], "due", s)
        /\ cur' = [cur EXCEPT ![c] = s]
        /\ events' = IF Free(e) THEN events \cup {e} ELSE events
  BY DEF DueEvent
<1>2. e.tick = now.tick /\ e.seq = st[c].seq + fired[c] + 1 /\ e.kind = "due" /\ e.about = s
  BY <1>0, <1>1 DEF Entry, CopyInv, Holding
<1>3. s \in due[c] /\ s \in Scheds /\ cur'[c] = s /\ status[s] = "pending"
  BY <1>0, <1>1 DEF FirstDue, TypeOK, LoneParts, DueHeld
<1>4. /\ st[c].seq + fired[c] \in Nat /\ now.tick \in Nat
      /\ \A f \in events : f.seq \in Nat /\ f.tick \in Nat
  BY DEF TypeOK, Stamp, Event
<1>5. \A f \in events : f.tick <= now.tick /\ (f.tick = now.tick => f.seq <= st[c].seq + fired[c])
  BY <1>0 DEF LoneParts, LogBehind
<1>6. events' = events \cup {e}
  BY <1>1, <1>2, <1>4, <1>5 DEF Free
<1>7. \A f \in events' : f.tick <= now.tick /\ (f.tick = now.tick => f.seq <= st[c].seq + fired[c] + 1)
  BY <1>2, <1>4, <1>5, <1>6
<1>8. LogBehind'
  BY <1>0, <1>7 DEF LogBehind
<1>9. DueHeld'
  BY <1>0, <1>3 DEF LoneParts, DueHeld
<1>10. PassedSettles'
  BY <1>0 DEF LoneParts, PassedSettles, Settling
<1>11. LoggedOnce'
  <2>1. DueLog(s) = {}
    BY <1>0, <1>3 DEF LoneParts, LoggedOnce, Marking
  <2>2. DueLog(s)' = {e} /\ Marking(s)' /\ e \in events'
    BY <1>0, <1>2, <1>3, <1>6, <2>1 DEF DueLog, Marking
  <2>3. ASSUME NEW t \in Scheds, t # s
        PROVE  ~Marking(t) /\ ~Marking(t)' /\ DueLog(t)' = DueLog(t)
    BY <1>0, <1>2, <1>3, <1>6, <2>3 DEF DueLog, Marking
  <2> QED  BY <1>0, <1>6, <2>2, <2>3 DEF LoneParts, LoggedOnce
<1>. QED  BY <1>8, <1>9, <1>10, <1>11 DEF LoneParts

LEMMA DueStatusLone ==
  ASSUME NEW c \in Callers, \A d \in Callers : d = c, TypeOK, CopyInv, LoneParts, DueStatus(c)
  PROVE  LoneParts'
<1>0. /\ pc[c] = "due_status"
      /\ pc'[c] = IF due[c] = {cur[c]} THEN "final_state" ELSE "due_event"
      /\ due'[c] = due[c] \ {cur[c]} /\ fired'[c] = fired[c] + 1
      /\ UNCHANGED <<now, st, cur, events, dueTick>>
  BY DEF DueStatus, Iterated, Goto, TypeOK
<1>1. cur[c] \in due[c] /\ cur[c] \in Scheds /\ \A s \in due[c] : status[s] = "pending"
  BY <1>0 DEF LoneParts, DueHeld, TypeOK
<1>2. status' = [status EXCEPT ![cur[c]] = "due"] /\ status'[cur[c]] = "due"
  BY <1>1 DEF DueStatus, TypeOK
<1>3. \A s \in Scheds : s # cur[c] => status'[s] = status[s]
  BY <1>2 DEF TypeOK
<1>4. LogBehind'
  <2>1. st[c].seq \in Nat /\ fired[c] \in Nat
    BY DEF TypeOK, Stamp
  <2>2. st[c].seq + fired'[c] = st[c].seq + fired[c] + 1
    BY <1>0, <2>1
  <2>. QED  BY <1>0, <2>2 DEF LoneParts, LogBehind
<1>5. DueHeld'
  <2>1. \A s \in due'[c] : status'[s] = "pending"
    BY <1>0, <1>1, <1>3 DEF TypeOK
  <2>. QED  BY <1>0, <2>1 DEF DueHeld
<1>6. PassedSettles'
  <2> SUFFICES ASSUME NEW s \in Scheds, status'[s] = "pending", dueTick[s] <= now.tick
               PROVE  Settling(c, s)'
    BY <1>0 DEF PassedSettles
  <2>1. s # cur[c] /\ status[s] = "pending"
    BY <1>2, <1>3
  <2>2. s \in due[c]
    BY <1>0, <2>1 DEF LoneParts, PassedSettles, Settling
  <2>. QED  BY <1>0, <2>1, <2>2 DEF Settling
<1>7. LoggedOnce'
  <2>1. Marking(cur[c]) /\ \A s : DueLog(s)' = DueLog(s)
    BY <1>0 DEF Marking, DueLog
  <2>2. \E e \in events : DueLog(cur[c]) = {e}
    BY <1>1, <2>1 DEF LoneParts, LoggedOnce
  <2>3. ASSUME NEW t \in Scheds, t # cur[c] PROVE ~Marking(t) /\ ~Marking(t)'
    BY <1>0, <2>3 DEF Marking
  <2>. QED  BY <1>0, <1>2, <1>3, <2>1, <2>2, <2>3 DEF LoneParts, LoggedOnce
<1>. QED  BY <1>4, <1>5, <1>6, <1>7 DEF LoneParts

\* schedule_in is at least a tick ahead.
LEMMA InsertScheduledLone ==
  ASSUME NEW c \in Callers, \A d \in Callers : d = c, TypeOK, CopyInv, LoneParts,
         InsertScheduled(c)
  PROVE  LoneParts'
<1>0. /\ pc[c] = "insert_scheduled" /\ pc'[c] = "idle"
      /\ st[c].tick = now.tick /\ UNCHANGED <<now, st, events>>
  BY DEF InsertScheduled, Goto, TypeOK, CopyInv, Holding
<1>1. PICK s \in Scheds :
        /\ status[s] = "none"
        /\ status' = [status EXCEPT ![s] = "pending"]
        /\ dueTick' = [dueTick EXCEPT ![s] = st[c].tick + Ticks(amount[c])]
  BY DEF InsertScheduled
<1>2. dueTick'[s] > now.tick /\ dueTick'[s] \in Nat /\ now.tick \in Nat
  BY <1>0, <1>1, TicksPositive DEF TypeOK, Stamp
<1>3. \A t \in Scheds : t # s => status'[t] = status[t] /\ dueTick'[t] = dueTick[t]
  BY <1>1 DEF TypeOK
<1>4. LogBehind' /\ DueHeld'
  BY <1>0 DEF LoneParts, LogBehind, DueHeld
<1>5. PassedSettles'
  <2>1. ASSUME NEW t \in Scheds, status'[t] = "pending", dueTick'[t] <= now.tick
        PROVE  FALSE
    <3>1. t # s
      BY <1>2, <2>1
    <3>. QED  BY <1>0, <1>3, <2>1, <3>1 DEF LoneParts, PassedSettles, Settling
  <2>. QED  BY <1>0, <2>1 DEF PassedSettles
<1>6. LoggedOnce'
  <2>1. \A t : ~Marking(t) /\ ~Marking(t)' /\ DueLog(t)' = DueLog(t)
    BY <1>0 DEF Marking, DueLog
  <2>2. status'[s] = "pending"
    BY <1>1 DEF TypeOK
  <2>. QED  BY <1>0, <1>1, <1>3, <2>1, <2>2 DEF LoneParts, LoggedOnce
<1>. QED  BY <1>4, <1>5, <1>6 DEF LoneParts

LEMMA LoneStep ==
  ASSUME \A c, d \in Callers : c = d, TypeOK, CopyInv, LoneInv, [Next]_vars
  PROVE  LoneInv'
<1> SUFFICES ASSUME faults' = 0 PROVE LoneParts'
  BY DEF LoneInv, LoneParts
<1>1. CASE UNCHANGED vars
  <2>1. faults = 0
    BY <1>1 DEF vars
  <2>2. LoneParts
    BY <2>1 DEF LoneInv, LoneParts
  <2>3. \A s : Marking(s)' = Marking(s) /\ DueLog(s)' = DueLog(s)
    BY <1>1 DEF vars, dbVars, Marking, DueLog
  <2>. QED  BY <1>1, <2>2, <2>3 DEF LoneParts, LogBehind, DueHeld, PassedSettles, Settling,
              LoggedOnce, vars, dbVars
<1>2. ASSUME NEW c \in Callers, Abort(c) \/ Skip(c) PROVE FALSE
  BY <1>2 DEF Abort, Skip, Failing, TypeOK
<1>3. ASSUME NEW c \in Callers, Begin(c) \/ Step(c) PROVE LoneParts'
  <2>0. \A d \in Callers : d = c
    OBVIOUS
  <2>1. faults = 0
    BY <1>3 DEF Begin, Step, GetState, InitState, InitEvent, RecordState, RecordEvent,
       AdvanceState, AdvanceEvent, AdvanceLog, ListDue, DueEvent, DueStatus, FinalState,
       InsertScheduled, GetWatermark, ListEvents, PutWatermark, InsertOwn, PutState
  <2>2. LoneParts
    BY <2>1 DEF LoneInv, LoneParts
  <2>3. CASE Begin(c) \/ GetState(c) \/ GetWatermark(c) \/ ListEvents(c) \/ PutWatermark(c)
    <3>1. /\ pc[c] \notin Busy /\ pc'[c] \notin Busy
          /\ UNCHANGED <<now, events, status, dueTick>>
      BY <2>3 DEF Begin, GetState, GetWatermark, ListEvents, PutWatermark, Ensured,
         AfterEnsure, Remark, Goto, Busy, TypeOK, dbVars
    <3>. QED  BY <2>0, <2>2, <3>1, StillStep
  <2>4. CASE InitState(c) \/ RecordState(c) \/ FinalState(c)
    <3>1. /\ pc[c] \notin Busy /\ pc'[c] \notin Busy /\ pc[c] \in Holding
          /\ UNCHANGED <<events, status, dueTick>>
      BY <2>4 DEF InitState, RecordState, FinalState, PutState, Goto, Busy, Holding, TypeOK
    <3>2. now'.tick = st[c].tick
      BY <2>4 DEF InitState, RecordState, FinalState, PutState, TypeOK, Stamp
    <3>3. now'.tick = now.tick
      BY <3>1, <3>2 DEF CopyInv
    <3>. QED  BY <2>0, <2>2, <3>1, <3>3, StillStep
  <2>5. CASE InitEvent(c)
    <3> DEFINE new == Entry([tick |-> 0, seq |-> 1], "initialized", NoSched)
    <3>1. /\ pc[c] \notin Busy /\ pc'[c] \notin Busy
          /\ events' \in {events, events \cup {new}}
          /\ UNCHANGED <<now, status, dueTick>>
      BY <2>5 DEF InitEvent, Ensured, AfterEnsure, Goto, Busy, TypeOK
    <3>2. new.kind # "due" /\ new.tick <= now.tick
      BY DEF Entry, TypeOK, Stamp
    <3> HIDE DEF new
    <3>. QED  BY <2>0, <2>2, <3>1, <3>2, EntryStep
  <2>6. CASE RecordEvent(c)
    <3> DEFINE new == Entry(st[c], "recorded", NoSched)
    <3>1. /\ pc[c] \notin Busy /\ pc'[c] \notin Busy /\ pc[c] \in Holding
          /\ events' \in {events, events \cup {new}}
          /\ UNCHANGED <<now, status, dueTick>>
      BY <2>6 DEF RecordEvent, InsertOwn, Goto, Busy, Holding, TypeOK
    <3>2. new.kind # "due" /\ new.tick <= now.tick
      BY <3>1 DEF Entry, TypeOK, Stamp, CopyInv
    <3> HIDE DEF new
    <3>. QED  BY <2>0, <2>2, <3>1, <3>2, EntryStep
  <2>7. CASE AdvanceState(c) \/ AdvanceEvent(c) \/ AdvanceLog(c)
    BY <2>0, <2>2, <2>7, AdvanceStateLone, AdvanceEventLone, AdvanceLogLone
  <2>8. CASE ListDue(c) \/ DueEvent(c) \/ DueStatus(c)
    BY <2>0, <2>2, <2>8, ListDueLone, DueEventLone, DueStatusLone
  <2>9. CASE InsertScheduled(c)
    BY <2>0, <2>2, <2>9, InsertScheduledLone
  <2>. QED  BY <1>3, <2>3, <2>4, <2>5, <2>6, <2>7, <2>8, <2>9 DEF Step
<1>. QED  BY <1>1, <1>2, <1>3 DEF Next

LEMMA LoneInvariant ==
  ASSUME \A c, d \in Callers : c = d
  PROVE  Spec => [](TypeOK /\ LoneInv)
<1>1. Init => CopyInv /\ LoneInv
  BY DEF Init, CopyInv, Holding, LoneInv, LogBehind, DueHeld, PassedSettles, LoggedOnce,
     Marking, DueLog
<1>2. CopyInv /\ TypeOK /\ [Next]_vars => CopyInv'
  BY CopyStep
<1>3. TypeOK /\ CopyInv /\ LoneInv /\ [Next]_vars => LoneInv'
  BY LoneStep
<1>. QED  BY <1>1, <1>2, <1>3, TypeCorrect, PTL DEF Spec

\* Whenever a task that runs alone is done and no statement has failed, every scheduled event
\* the timeline has passed has been fired.
THEOREM AloneNothingOverdue ==
  ASSUME \A c, d \in Callers : c = d
  PROVE  Spec => []NothingOverdue
<1>1. TypeOK /\ LoneInv => NothingOverdue
  BY DEF LoneInv, PassedSettles, Settling, NothingOverdue
<1>. QED  BY <1>1, LoneInvariant, PTL

\* Whenever a task that runs alone is done and no statement has failed, a scheduled event has
\* been logged once if it is marked due, and otherwise not at all.
THEOREM AloneFiresOnce ==
  ASSUME \A c, d \in Callers : c = d
  PROVE  Spec => []FiresOnce
<1>1. TypeOK /\ LoneInv => FiresOnce
  <2> SUFFICES ASSUME TypeOK, LoneInv, faults = 0, \A c \in Callers : pc[c] = "idle",
                      NEW s \in Scheds
               PROVE  Cardinality(DueLog(s)) = IF status[s] = "due" THEN 1 ELSE 0
    BY DEF FiresOnce, DueLog
  <2>1. IF status[s] = "due" THEN \E e \in events : DueLog(s) = {e} ELSE DueLog(s) = {}
    BY DEF LoneInv, LoggedOnce, Marking
  <2>. QED  BY <2>1, FS_Singleton, FS_EmptySet
<1>. QED  BY <1>1, LoneInvariant, PTL

-----------------------------------------------------------------------------
(* The watermark passes nothing unlisted as long as the log fits the        *)
(* listing limit. A lone task writes log entries only ahead of the          *)
(* watermark (it lies at or behind the row, the entries ahead of it), lists *)
(* everything after the watermark, and marks the row it finds before        *)
(* anything else is logged.                                                 *)

Fits == faults = 0 /\ Cardinality(events) <= Limit

MarkBehind ==
    /\ ~started => now = Origin /\ wm = Origin
    /\ ~Before(now, wm)
    /\ \A c \in Callers : pc[c] \in Holding => st[c] = now
    /\ \A c \in Callers : pc[c] = "init_state" => ~started
    /\ \A c \in Callers : pc[c] = "init_event" => started /\ wm = Origin
    /\ \A c \in Callers : pc[c] \in {"record_event", "advance_event"} => Before(wm, now)

Listing ==
    \A c \in Callers :
        /\ pc[c] \in {"get_watermark", "list_events"} => started
        /\ pc[c] = "list_events" => st[c] = wm
        /\ pc[c] = "put_watermark" => op[c] = "mark" /\ st[c] = now
        /\ op[c] = "mark" /\ pc[c] # "idle" =>
              pc[c] \in {"get_state", "put_watermark"} /\ started /\ events \subseteq delivered

Heard == \A e \in events : ~Before(wm, e) => e \in delivered

MarkParts == MarkBehind /\ Listing /\ Heard

MarkInv == IsFiniteSet(events) /\ (Fits => MarkParts)

\* A listing within the limit leaves nothing out.
LEMMA ListsAll ==
  ASSUME TypeOK, IsFiniteSet(events), Cardinality(events) <= Limit,
         NEW at \in Stamp, NEW e \in events, Before(at, e)
  PROVE  e \in EventsSince(at)
<1> DEFINE new == {f \in events : Before(at, f)}
           ahead == {f \in new : Before(f, e)}
<1>1. ahead \subseteq events \ {e}
  BY DEF Before, TypeOK, Event
<1>2. IsFiniteSet(events \ {e}) /\ Cardinality(events \ {e}) = Cardinality(events) - 1
  BY FS_RemoveElement
<1>3. Cardinality(ahead) <= Cardinality(events) - 1 /\ Cardinality(ahead) \in Nat
  <2> HIDE DEF ahead
  <2> QED  BY <1>1, <1>2, FS_Subset, FS_CardinalityType
<1>4. Cardinality(events) \in Nat
  BY FS_CardinalityType
<1>5. Cardinality(ahead) < Limit
  BY <1>3, <1>4
<1>. QED  BY <1>5 DEF EventsSince

\* The log only grows, by one entry at a time.
LEMMA LogGrows ==
  ASSUME TypeOK, IsFiniteSet(events), [Next]_vars
  PROVE  /\ IsFiniteSet(events')
         /\ Fits' => Fits
<1>1. events' = events \/ \E e : events' = events \cup {e}
  <2>1. CASE UNCHANGED vars
    BY <2>1 DEF vars, dbVars
  <2>2. ASSUME NEW c \in Callers, Begin(c) \/ Step(c) \/ Abort(c) \/ Skip(c)
        PROVE  events' = events \/ \E e : events' = events \cup {e}
    BY <2>2 DEF Begin, Abort, Skip, Step, GetState, InitState, InitEvent, RecordState,
       RecordEvent, AdvanceState, AdvanceEvent, AdvanceLog, ListDue, DueEvent, DueStatus,
       FinalState, InsertScheduled, GetWatermark, ListEvents, PutWatermark, InsertOwn,
       PutState, dbVars
  <2>. QED  BY <2>1, <2>2 DEF Next
<1>2. IsFiniteSet(events') /\ events \subseteq events'
  BY <1>1, FS_AddElement
<1>3. Cardinality(events) <= Cardinality(events')
      /\ Cardinality(events) \in Nat /\ Cardinality(events') \in Nat
  BY <1>2, FS_Subset, FS_CardinalityType
<1>4. faults' = 0 => faults = 0
  <2>1. CASE UNCHANGED vars
    BY <2>1 DEF vars
  <2>2. ASSUME NEW c \in Callers, Begin(c) \/ Step(c) \/ Abort(c) \/ Skip(c)
        PROVE  faults' = 0 => faults = 0
    BY <2>2 DEF Begin, Abort, Skip, Failing, Step, GetState, InitState, InitEvent,
       RecordState, RecordEvent, AdvanceState, AdvanceEvent, AdvanceLog, ListDue, DueEvent,
       DueStatus, FinalState, InsertScheduled, GetWatermark, ListEvents, PutWatermark,
       InsertOwn, PutState, TypeOK
  <2>. QED  BY <2>1, <2>2 DEF Next
<1>5. Cardinality(events') <= Limit => Cardinality(events) <= Limit
  BY <1>3
<1>. QED  BY <1>2, <1>4, <1>5 DEF Fits

\* A statement that touches neither the row, the watermark, the log nor what was delivered,
\* and reads at most the row or the watermark.
LEMMA LookStep ==
  ASSUME NEW c \in Callers, \A d \in Callers : d = c, TypeOK, MarkParts,
         \/ Begin(c) \/ GetState(c) \/ AdvanceLog(c) \/ ListDue(c) \/ DueStatus(c)
         \/ InsertScheduled(c) \/ GetWatermark(c)
  PROVE  MarkParts'
<1>1. UNCHANGED <<started, now, wm, events, delivered>>
  BY DEF Begin, GetState, AdvanceLog, ListDue, DueStatus, InsertScheduled, GetWatermark, dbVars
<1>2. Heard' /\ (~started' => now' = Origin /\ wm' = Origin) /\ ~Before(now, wm)'
  BY <1>1 DEF MarkParts, Heard, MarkBehind, Before
<1>3. CASE Begin(c)
  <2>1. pc'[c] = "get_state" /\ op'[c] # "mark"
    BY <1>3 DEF Begin, Goto, TypeOK, AllOps
  <2>. QED  BY <1>2, <2>1 DEF MarkParts, MarkBehind, Listing, Holding
<1>4. CASE GetState(c)
  <2>1. CASE started
    <3>1. st'[c] = now /\ pc'[c] = AfterEnsure(op[c]) /\ pc[c] = "get_state"
          /\ op'[c] = IF op[c] = "flashback" THEN "record" ELSE op[c]
      BY <1>4, <2>1 DEF GetState, Ensured, Goto, TypeOK
    <3>2. op[c] \in AllOps \cup {"mark"}
      BY DEF TypeOK, AllOps
    <3>3. pc'[c] \notin {"list_events", "init_state", "init_event", "record_event", "advance_event"}
          /\ (pc'[c] = "put_watermark" => op'[c] = "mark")
          /\ (op'[c] = "mark" => op[c] = "mark" /\ pc'[c] = "put_watermark")
      BY <3>1, <3>2 DEF AfterEnsure, AllOps
    <3>4. op'[c] = "mark" => events \subseteq delivered
      BY <3>1, <3>3 DEF MarkParts, Listing
    <3>5. MarkBehind'
      BY <1>1, <1>2, <3>1, <3>3 DEF MarkBehind
    <3>6. Listing'
      BY <1>1, <2>1, <3>1, <3>3, <3>4 DEF Listing
    <3>. QED  BY <1>2, <3>5, <3>6 DEF MarkParts
  <2>2. CASE ~started
    <3>1. st'[c] = Origin /\ pc'[c] = "init_state" /\ op' = op /\ pc[c] = "get_state"
      BY <1>4, <2>2 DEF GetState, Goto, TypeOK
    <3>2. op[c] # "mark" /\ now = Origin
      BY <2>2, <3>1 DEF MarkParts, Listing, MarkBehind
    <3>. QED  BY <1>1, <1>2, <2>2, <3>1, <3>2 DEF MarkParts, MarkBehind, Listing
  <2>. QED  BY <2>1, <2>2
<1>5. CASE GetWatermark(c)
  <2>1. pc[c] = "get_watermark" /\ pc'[c] = "list_events" /\ st'[c] = wm /\ op' = op
    BY <1>5 DEF GetWatermark, Goto, TypeOK
  <2>2. started /\ op[c] # "mark"
    BY <2>1 DEF MarkParts, Listing
  <2>. QED  BY <1>1, <1>2, <2>1, <2>2 DEF MarkParts, MarkBehind, Listing, Holding
<1>6. CASE AdvanceLog(c) \/ ListDue(c) \/ DueStatus(c) \/ InsertScheduled(c)
  <2>1. /\ pc[c] \in {"advance_log", "list_due", "due_status", "insert_scheduled"}
        /\ pc'[c] \in {"idle", "list_due", "due_event", "final_state"}
        /\ UNCHANGED <<st, op>>
    BY <1>6 DEF AdvanceLog, ListDue, DueStatus, InsertScheduled, Iterated, Goto, TypeOK, dbVars
  <2>2. op[c] # "mark" /\ st[c] = now
    BY <2>1 DEF MarkParts, Listing, MarkBehind, Holding
  <2>. QED  BY <1>1, <1>2, <2>1, <2>2 DEF MarkParts, MarkBehind, Listing
<1>. QED  BY <1>3, <1>4, <1>5, <1>6

\* A statement that writes the row moves it, if at all, away from the watermark.
LEMMA RowStep ==
  ASSUME NEW c \in Callers, \A d \in Callers : d = c, TypeOK, MarkParts,
         InitState(c) \/ RecordState(c) \/ AdvanceState(c) \/ FinalState(c)
  PROVE  MarkParts'
<1>1. /\ pc[c] \in Holding /\ pc[c] \in {"init_state", "record_state", "advance_state", "final_state"}
      /\ pc'[c] \in {"init_event", "record_event", "advance_event", "idle"}
      /\ started' /\ UNCHANGED <<wm, events, delivered, op>>
  BY DEF InitState, RecordState, AdvanceState, FinalState, PutState, Goto, Holding, TypeOK
<1>2. st[c] = now /\ op[c] # "mark"
  BY <1>1 DEF MarkParts, MarkBehind, Listing
<1>3. now' = st'[c]
  BY <1>2 DEF InitState, RecordState, AdvanceState, FinalState, PutState, TypeOK
<1>4. CASE InitState(c)
  <2>1. pc'[c] = "init_event" /\ now' = now
    BY <1>2, <1>4 DEF InitState, Goto, TypeOK
  <2>2. wm = Origin
    BY <1>4 DEF InitState, MarkParts, MarkBehind
  <2>. QED  BY <1>1, <1>3, <2>1, <2>2 DEF MarkParts, MarkBehind, Listing, Heard, Before
<1>5. CASE RecordState(c) \/ AdvanceState(c) \/ FinalState(c)
  <2>1. pc'[c] \notin {"init_state", "init_event"}
    BY <1>5 DEF RecordState, AdvanceState, FinalState, Goto, TypeOK
  <2>2. /\ now.tick \in Nat /\ now.seq \in Nat /\ wm.tick \in Nat /\ wm.seq \in Nat
        /\ fired[c] \in Nat /\ Ticks(amount[c]) \in Nat /\ Ticks(amount[c]) >= 1
    BY TicksPositive DEF TypeOK, Stamp
  <2>3. ~Before(now, wm)
    BY DEF MarkParts, MarkBehind
  <2>4. CASE RecordState(c)
    <3>1. now'.tick = now.tick /\ now'.seq = now.seq + 1
      BY <1>2, <2>4 DEF RecordState, PutState, TypeOK, Stamp
    <3>2. Before(wm, now)' /\ ~Before(now, wm)'
      BY <1>1, <2>2, <2>3, <3>1 DEF Before
    <3>. QED  BY <1>1, <1>2, <1>3, <2>1, <3>2 DEF MarkParts, MarkBehind, Listing, Heard, Before
  <2>5. CASE AdvanceState(c)
    <3>1. now'.tick = now.tick + Ticks(amount[c])
      BY <1>2, <2>5 DEF AdvanceState, PutState
    <3>2. Before(wm, now)' /\ ~Before(now, wm)'
      BY <1>1, <2>2, <2>3, <3>1 DEF Before
    <3>. QED  BY <1>1, <1>2, <1>3, <2>1, <3>2 DEF MarkParts, MarkBehind, Listing, Heard, Before
  <2>6. CASE FinalState(c)
    <3>1. now'.tick = now.tick /\ now'.seq = now.seq + fired[c] /\ pc'[c] = "idle"
      BY <1>2, <2>6 DEF FinalState, PutState, Goto, TypeOK, Stamp
    <3>2. ~Before(now, wm)'
      BY <1>1, <2>2, <2>3, <3>1 DEF Before
    <3>. QED  BY <1>1, <1>2, <1>3, <3>1, <3>2 DEF MarkParts, MarkBehind, Listing, Heard, Before
  <2>. QED  BY <1>5, <2>4, <2>5, <2>6
<1>. QED  BY <1>4, <1>5

\* A statement that writes a log entry writes it ahead of the watermark.
LEMMA LogStep ==
  ASSUME NEW c \in Callers, \A d \in Callers : d = c, TypeOK, MarkParts,
         InitEvent(c) \/ RecordEvent(c) \/ AdvanceEvent(c) \/ DueEvent(c)
  PROVE  MarkParts'
<1>1. /\ pc[c] \in Holding /\ pc[c] \in {"init_event", "record_event", "advance_event", "due_event"}
      /\ UNCHANGED <<started, now, wm, delivered, st>>
  BY DEF InitEvent, RecordEvent, AdvanceEvent, InsertOwn, DueEvent, Holding
<1>2. st[c] = now /\ op[c] # "mark"
  BY <1>1 DEF MarkParts, MarkBehind, Listing
<1>3. /\ now.tick \in Nat /\ now.seq \in Nat /\ wm.tick \in Nat /\ wm.seq \in Nat
      /\ fired[c] \in Nat /\ ~Before(now, wm)
  BY DEF TypeOK, Stamp, MarkParts, MarkBehind
<1>4. \A e \in events' : e \notin events => Before(wm, e)
  <2>1. CASE InitEvent(c)
    <3>1. wm = Origin
      BY <2>1 DEF InitEvent, MarkParts, MarkBehind
    <3>. QED  BY <2>1, <3>1 DEF InitEvent, Entry, Before, Origin
  <2>2. CASE RecordEvent(c) \/ AdvanceEvent(c)
    <3>1. Before(wm, now)
      BY <2>2 DEF RecordEvent, AdvanceEvent, MarkParts, MarkBehind
    <3>2. \A e \in events' : e \notin events => e.tick = now.tick /\ e.seq = now.seq
      BY <1>2, <2>2 DEF RecordEvent, AdvanceEvent, InsertOwn, Entry
    <3>. QED  BY <3>1, <3>2 DEF Before
  <2>3. CASE DueEvent(c)
    <3>1. \A e \in events' : e \notin events => e.tick = now.tick /\ e.seq = now.seq + fired[c] + 1
      BY <1>2, <2>3 DEF DueEvent, Entry
    <3>. QED  BY <1>3, <3>1 DEF Before
  <2>. QED  BY <2>1, <2>2, <2>3
<1>5. Heard'
  BY <1>1, <1>4 DEF MarkParts, Heard, Before
<1>6. CASE InitEvent(c)
  <2>1. pc'[c] = AfterEnsure(op[c]) /\ op'[c] = IF op[c] = "flashback" THEN "record" ELSE op[c]
    BY <1>6 DEF InitEvent, Ensured, Goto, TypeOK
  <2>2. op[c] \in AllOps
    BY <1>2 DEF TypeOK, AllOps
  <2>3. /\ op'[c] # "mark"
        /\ pc'[c] \in {"record_state", "advance_state", "get_state", "insert_scheduled", "get_watermark"}
    BY <2>1, <2>2 DEF AfterEnsure, AllOps
  <2>4. started
    BY <1>6 DEF InitEvent, MarkParts, MarkBehind
  <2>. QED  BY <1>1, <1>2, <1>3, <1>5, <2>3, <2>4 DEF MarkParts, MarkBehind, Listing, Before
<1>7. CASE RecordEvent(c) \/ AdvanceEvent(c) \/ DueEvent(c)
  <2>1. pc'[c] \in {"idle", "advance_log", "due_status"} /\ op' = op
    BY <1>7 DEF RecordEvent, AdvanceEvent, InsertOwn, DueEvent, Goto, TypeOK
  <2>2. (~started' => now' = Origin /\ wm' = Origin) /\ ~Before(now, wm)'
    BY <1>1 DEF MarkParts, MarkBehind, Before
  <2>. QED  BY <1>1, <1>2, <1>5, <2>1, <2>2 DEF MarkParts, MarkBehind, Listing
<1>. QED  BY <1>6, <1>7

LEMMA ListStep ==
  ASSUME NEW c \in Callers, \A d \in Callers : d = c, TypeOK, MarkParts, IsFiniteSet(events),
         Cardinality(events) <= Limit, ListEvents(c)
  PROVE  MarkParts'
<1>1. /\ pc[c] = "list_events" /\ pc'[c] = "get_state" /\ op'[c] = "mark"
      /\ delivered' = delivered \cup EventsSince(st[c])
      /\ UNCHANGED <<started, now, wm, events, st>>
  BY DEF ListEvents, Remark, Goto, TypeOK, dbVars
<1>2. st[c] = wm /\ started
  BY <1>1 DEF MarkParts, Listing
<1>3. ASSUME NEW e \in events, e \notin delivered PROVE e \in EventsSince(st[c])
  <2>1. Before(st[c], e) /\ st[c] \in Stamp
    BY <1>2, <1>3 DEF MarkParts, Heard, TypeOK
  <2>. QED  BY <2>1, ListsAll
<1>4. events' \subseteq delivered'
  BY <1>1, <1>3
<1>5. Heard' /\ (~started' => now' = Origin /\ wm' = Origin) /\ ~Before(now, wm)'
  BY <1>1, <1>4 DEF MarkParts, MarkBehind, Heard, Before
<1>. QED  BY <1>1, <1>2, <1>4, <1>5 DEF MarkParts, MarkBehind, Listing, Holding

LEMMA MarkStep ==
  ASSUME NEW c \in Callers, \A d \in Callers : d = c, TypeOK, MarkParts, PutWatermark(c)
  PROVE  MarkParts'
<1>1. /\ pc[c] = "put_watermark" /\ pc'[c] = "idle" /\ wm' = st[c]
      /\ UNCHANGED <<started, now, events, delivered, op, st>>
  BY DEF PutWatermark, Goto, TypeOK
<1>2. st[c] = now /\ started /\ events \subseteq delivered
  BY <1>1 DEF MarkParts, Listing
<1>3. ~Before(now, now)
  BY DEF Before, TypeOK, Stamp
<1>. QED  BY <1>1, <1>2, <1>3 DEF MarkParts, MarkBehind, Listing, Heard, Holding, Before

LEMMA MarkInvStep ==
  ASSUME \A c, d \in Callers : c = d, TypeOK, MarkInv, [Next]_vars
  PROVE  MarkInv'
<1>1. IsFiniteSet(events') /\ (Fits' => Fits)
  BY LogGrows DEF MarkInv
<1> SUFFICES ASSUME Fits, MarkParts, faults' = 0 PROVE MarkParts'
  BY <1>1 DEF MarkInv, Fits
<1>2. CASE UNCHANGED vars
  BY <1>2 DEF vars, dbVars, MarkParts, MarkBehind, Listing, Heard, Before
<1>3. ASSUME NEW c \in Callers, Abort(c) \/ Skip(c) PROVE FALSE
  BY <1>3 DEF Abort, Skip, Failing, TypeOK
<1>4. ASSUME NEW c \in Callers, Begin(c) \/ Step(c) PROVE MarkParts'
  <2>1. \A d \in Callers : d = c
    OBVIOUS
  <2>2. IsFiniteSet(events) /\ Cardinality(events) <= Limit
    BY DEF MarkInv, Fits
  <2>. QED  BY <1>4, <2>1, <2>2, LookStep, RowStep, LogStep, ListStep, MarkStep DEF Step
<1>. QED  BY <1>2, <1>3, <1>4 DEF Next

\* A task that runs alone never lets the watermark pass an entry that no context has listed,
\* as long as no statement fails and the log has no more entries than a listing takes.
THEOREM AloneContextComplete ==
  ASSUME \A c, d \in Callers : c = d
  PROVE  Spec => [](Cardinality(events) <= Limit => ContextComplete)
<1>1. Init => MarkInv
  BY FS_EmptySet DEF Init, MarkInv, MarkParts, MarkBehind, Listing, Heard, Holding, Before, Origin
<1>2. TypeOK /\ MarkInv /\ [Next]_vars => MarkInv'
  BY MarkInvStep
<1>3. TypeOK /\ MarkInv => (Cardinality(events) <= Limit => ContextComplete)
  BY DEF MarkInv, Fits, MarkParts, Heard, ContextComplete
<1>. QED  BY <1>1, <1>2, <1>3, TypeCorrect, PTL DEF Spec

-----------------------------------------------------------------------------
(* Without failures, requests that do not overlap implement the abstract    *)
(* timeline: the tick moves forward or an entry is appended behind all      *)
(* others at the current tick. The entries at the tick of the row have its  *)
(* event_seq or less, except while due events are logged ahead of the row,  *)
(* and for the entry of the initialisation, which takes event_seq 1 while   *)
(* the row says 0.                                                          *)

Filing  == {"due_event", "due_status", "final_state"}
Written == {"record_event", "advance_event", "advance_log", "list_due"} \cup Filing

OrderParts ==
    /\ ~started => events = {}
    /\ \A c \in Callers : pc[c] = "init_state" => ~started
    /\ \A c \in Callers : pc[c] = "init_event" => started /\ now = Origin /\ events = {}
    /\ \A c \in Callers : pc[c] \in Written => now.seq >= 1
    /\ (\A c \in Callers : pc[c] \notin Filing) =>
          \A e \in events : e.tick = now.tick => e.seq <= now.seq \/ e.seq = 1
    /\ \A c \in Callers : pc[c] = "final_state" =>
          \A e \in events : e.tick = now.tick => e.seq <= now.seq + fired[c]

OrderInv == faults = 0 => OrderParts

\* A statement that writes neither the log nor the row.
LEMMA OrderLook ==
  ASSUME NEW c \in Callers, \A d \in Callers : d = c, TypeOK, CopyInv, LoneParts, OrderParts,
         \/ Begin(c) \/ GetState(c) \/ AdvanceLog(c) \/ ListDue(c) \/ DueStatus(c)
         \/ InsertScheduled(c) \/ GetWatermark(c) \/ ListEvents(c) \/ PutWatermark(c)
  PROVE  OrderParts' /\ UNCHANGED <<now, events>>
<1>1. UNCHANGED <<started, now, events>>
  BY DEF Begin, GetState, AdvanceLog, ListDue, DueStatus, InsertScheduled, GetWatermark,
     ListEvents, PutWatermark, dbVars
<1>2. CASE Begin(c) \/ InsertScheduled(c) \/ GetWatermark(c) \/ ListEvents(c)
           \/ PutWatermark(c) \/ AdvanceLog(c)
  <2>1. /\ pc[c] \notin Filing
        /\ pc'[c] \notin Filing \cup {"init_state", "init_event"}
        /\ pc'[c] \in Written => pc[c] \in Written
    BY <1>2 DEF Begin, InsertScheduled, GetWatermark, ListEvents, PutWatermark, AdvanceLog,
       Remark, Goto, Written, Filing, TypeOK
  <2>. QED  BY <1>1, <2>1 DEF OrderParts, Filing
<1>3. CASE GetState(c)
  <2>1. /\ pc[c] \notin Filing
        /\ pc'[c] \notin Written \cup {"init_event"}
        /\ pc'[c] = "init_state" => ~started
    BY <1>3 DEF GetState, Ensured, AfterEnsure, Goto, Written, Filing, TypeOK
  <2>. QED  BY <1>1, <2>1 DEF OrderParts, Written, Filing
<1>4. CASE ListDue(c)
  <2>1. pc[c] = "list_due" /\ pc'[c] \in {"idle", "due_event"} /\ fired' = fired
    BY <1>4 DEF ListDue, Goto, TypeOK
  <2>. QED  BY <1>1, <2>1 DEF OrderParts, Written, Filing
<1>5. CASE DueStatus(c)
  <2>1. /\ pc[c] = "due_status" /\ pc'[c] \in {"due_event", "final_state"}
        /\ fired'[c] = fired[c] + 1 /\ st[c] = now
    BY <1>5 DEF DueStatus, Iterated, Goto, TypeOK, CopyInv, Holding
  <2>2. \A e \in events : e.tick = now.tick => e.seq <= now.seq + fired[c] + 1
    BY <2>1 DEF LoneParts, LogBehind
  <2>3. now.seq + fired'[c] = now.seq + fired[c] + 1
    BY <2>1 DEF TypeOK, Stamp
  <2>. QED  BY <1>1, <2>1, <2>2, <2>3 DEF OrderParts, Written, Filing
<1>. QED  BY <1>1, <1>2, <1>3, <1>4, <1>5

\* A statement that writes the row.
LEMMA OrderRow ==
  ASSUME NEW c \in Callers, \A d \in Callers : d = c, TypeOK, CopyInv, LoneParts, OrderParts,
         InitState(c) \/ RecordState(c) \/ AdvanceState(c) \/ FinalState(c)
  PROVE  /\ OrderParts' /\ events' = events
         /\ now'.tick = now.tick \/ now'.tick > now.tick
<1>1. /\ pc[c] \in {"init_state", "record_state", "advance_state", "final_state"}
      /\ st[c] = now /\ started' /\ events' = events
  BY DEF InitState, RecordState, AdvanceState, FinalState, PutState, CopyInv, Holding
<1>2. /\ now.tick \in Nat /\ now.seq \in Nat /\ fired[c] \in Nat
      /\ Ticks(amount[c]) \in Nat /\ Ticks(amount[c]) >= 1
      /\ \A e \in events : e.tick \in Nat /\ e.seq \in Nat /\ e.tick <= now.tick
  BY TicksPositive DEF TypeOK, Stamp, Event, LoneParts, LogBehind
<1>3. CASE InitState(c)
  <2>1. now' = Origin /\ pc'[c] = "init_event" /\ events = {}
    BY <1>1, <1>3 DEF InitState, Goto, TypeOK, OrderParts, CopyInv
  <2>2. /\ \A d \in Callers : pc'[d] = "init_event"
        /\ events' = {}
    BY <1>1, <2>1
  <2>3. started' = TRUE
    BY <1>3 DEF InitState
  <2>4. OrderParts'
    BY <2>1, <2>2, <2>3 DEF OrderParts, Written, Filing
  <2>5. now'.tick = now.tick
    BY <1>1, <1>3 DEF InitState
  <2>. QED  BY <1>1, <2>4, <2>5
<1>4. CASE RecordState(c)
  <2>1. now'.tick = now.tick /\ now'.seq = now.seq + 1 /\ pc'[c] = "record_event"
    BY <1>1, <1>4 DEF RecordState, PutState, Goto, TypeOK, Stamp
  <2>2. \A e \in events : e.tick = now.tick => e.seq <= now.seq \/ e.seq = 1
    BY <1>1, <1>4 DEF OrderParts, Filing, RecordState
  <2>3. \A e \in events' : e.tick = now'.tick => e.seq <= now'.seq \/ e.seq = 1
    BY <1>1, <1>2, <2>1, <2>2
  <2>. QED  BY <1>1, <1>2, <2>1, <2>3 DEF OrderParts, Written, Filing
<1>5. CASE AdvanceState(c)
  <2>1. /\ now'.tick = now.tick + Ticks(amount[c]) /\ now'.seq = now.seq + 1
        /\ pc'[c] = "advance_event"
    BY <1>1, <1>5 DEF AdvanceState, PutState, Goto, TypeOK
  <2>2. \A e \in events' : e.tick # now'.tick
    BY <1>1, <1>2, <2>1
  <2>. QED  BY <1>1, <1>2, <2>1, <2>2 DEF OrderParts, Written, Filing
<1>6. CASE FinalState(c)
  <2>1. now'.tick = now.tick /\ now'.seq = now.seq + fired[c] /\ pc'[c] = "idle"
    BY <1>1, <1>6 DEF FinalState, PutState, Goto, TypeOK, Stamp
  <2>2. \A e \in events' : e.tick = now'.tick => e.seq <= now'.seq
    BY <1>1, <1>6, <2>1 DEF FinalState, OrderParts
  <2>. QED  BY <1>1, <2>1, <2>2 DEF OrderParts, Written, Filing
<1>. QED  BY <1>3, <1>4, <1>5, <1>6

\* A statement that writes the log appends.
LEMMA OrderLog ==
  ASSUME NEW c \in Callers, \A d \in Callers : d = c, TypeOK, CopyInv, LoneParts, OrderParts,
         InitEvent(c) \/ RecordEvent(c) \/ AdvanceEvent(c) \/ DueEvent(c)
  PROVE  /\ OrderParts' /\ now' = now
         /\ \/ events' = events
            \/ \E e : /\ events' = events \cup {e} /\ e.tick = now.tick
                      /\ \A f \in events :
                            e.tick > f.tick \/ (e.tick = f.tick /\ e.seq > f.seq)
<1> DEFINE Last(e) == /\ e.tick = now.tick
                      /\ \A f \in events : e.tick > f.tick \/ (e.tick = f.tick /\ e.seq > f.seq)
<1>1. UNCHANGED <<started, now, st, fired>> /\ st[c] = now
  BY DEF InitEvent, RecordEvent, AdvanceEvent, InsertOwn, DueEvent, CopyInv, Holding
<1>2. /\ now.tick \in Nat /\ now.seq \in Nat /\ fired[c] \in Nat
      /\ \A e \in events : e.tick \in Nat /\ e.seq \in Nat /\ e.tick <= now.tick
  BY DEF TypeOK, Stamp, Event, LoneParts, LogBehind
<1>3. CASE InitEvent(c)
  <2>1. /\ pc[c] = "init_event" /\ events = {} /\ started /\ now = Origin
        /\ pc'[c] \notin Written \cup {"init_state", "init_event"}
    BY <1>3 DEF InitEvent, Ensured, AfterEnsure, Goto, Written, Filing, TypeOK, OrderParts
  <2>2. PICK e : e.tick = 0 /\ e.seq = 1 /\ events' = {e}
    <3>1. Free(Entry([tick |-> 0, seq |-> 1], "initialized", NoSched))
      BY <2>1 DEF Free
    <3>. QED  BY <1>3, <2>1, <3>1 DEF InitEvent, Entry
  <2>3. Last(e) /\ events' = events \cup {e}
    BY <2>1, <2>2 DEF Origin
  <2>4. OrderParts'
    BY <1>1, <2>1, <2>2 DEF OrderParts, Written, Filing
  <2>. QED  BY <1>1, <2>3, <2>4
<1>4. CASE RecordEvent(c) \/ AdvanceEvent(c)
  <2>1. /\ pc[c] \in {"record_event", "advance_event"} /\ pc'[c] \in {"idle", "advance_log"}
        /\ now.seq >= 1
    BY <1>4 DEF RecordEvent, AdvanceEvent, InsertOwn, Goto, TypeOK, OrderParts, Written
  <2>2. \A e \in events : e.tick = now.tick => e.seq <= now.seq
    BY <1>2, <2>1 DEF OrderParts, Written, Filing
  <2>3. \/ events' = events
        \/ Free(now) /\ \E e : e.tick = now.tick /\ e.seq = now.seq /\ events' = events \cup {e}
    BY <1>1, <1>4 DEF RecordEvent, AdvanceEvent, InsertOwn, Entry
  <2>4. CASE events' = events
    BY <1>1, <2>1, <2>4 DEF OrderParts, Written, Filing
  <2>5. ASSUME Free(now), NEW e, e.tick = now.tick, e.seq = now.seq, events' = events \cup {e}
        PROVE  OrderParts' /\ Last(e)
    <3>1. \A f \in events' : f.tick = now.tick => f.seq <= now.seq
      BY <1>2, <2>2, <2>5
    <3>2. Last(e)
      BY <1>2, <2>2, <2>5 DEF Free
    <3>3. started
      BY <2>1 DEF OrderParts, CopyInv, Origin
    <3>. QED  BY <1>1, <2>1, <3>1, <3>2, <3>3 DEF OrderParts, Written, Filing
  <2>. QED  BY <1>1, <2>3, <2>4, <2>5
<1>5. CASE DueEvent(c)
  <2>1. pc[c] = "due_event" /\ pc'[c] = "due_status"
    BY <1>5 DEF DueEvent, Goto, TypeOK
  <2>2. \A e \in events : e.tick = now.tick => e.seq <= now.seq + fired[c]
    BY <1>1, <2>1 DEF LoneParts, LogBehind
  <2>3. \/ events' = events
        \/ \E e : e.tick = now.tick /\ e.seq = now.seq + fired[c] + 1 /\ events' = events \cup {e}
    BY <1>1, <1>5 DEF DueEvent, Entry
  <2>4. OrderParts'
    <3>1. started
      BY <2>1 DEF OrderParts, Written, Filing, CopyInv, Origin
    <3>. QED  BY <1>1, <2>1, <3>1 DEF OrderParts, Written, Filing
  <2>5. \A e : e.tick = now.tick /\ e.seq = now.seq + fired[c] + 1 => Last(e)
    BY <1>2, <2>2
  <2>. QED  BY <1>1, <2>3, <2>4, <2>5
<1>. QED  BY <1>3, <1>4, <1>5

\* The stamps of the log: what the abstract timeline sees of it.
Stamps == {[tick |-> e.tick, seq |-> e.seq] : e \in events}

\* Every statement of a lone task is a step of the abstract timeline or leaves it alone.
LEMMA OrderStep ==
  ASSUME \A c, d \in Callers : c = d, TypeOK, CopyInv, LoneInv, OrderInv, faults = 0,
         [Next]_vars, faults' = 0
  PROVE  OrderParts' /\ [Timeline!Next]_<<now.tick, Stamps>>
<1>0. LoneParts /\ OrderParts
  BY DEF LoneInv, LoneParts, OrderInv
<1>1. ASSUME now' = now, events' = events
      PROVE  UNCHANGED <<now.tick, Stamps>>
  BY <1>1 DEF Stamps
<1>2. CASE UNCHANGED vars
  <2>1. now' = now /\ events' = events
    BY <1>2 DEF vars, dbVars
  <2>. QED  BY <1>0, <1>1, <1>2, <2>1 DEF vars, dbVars, OrderParts
<1>3. ASSUME NEW c \in Callers, Abort(c) \/ Skip(c) PROVE FALSE
  BY <1>3 DEF Abort, Skip, Failing, TypeOK
<1>4. ASSUME NEW c \in Callers, Begin(c) \/ Step(c)
      PROVE  OrderParts' /\ [Timeline!Next]_<<now.tick, Stamps>>
  <2>0. \A d \in Callers : d = c
    OBVIOUS
  <2>1. CASE \/ Begin(c) \/ GetState(c) \/ AdvanceLog(c) \/ ListDue(c) \/ DueStatus(c)
             \/ InsertScheduled(c) \/ GetWatermark(c) \/ ListEvents(c) \/ PutWatermark(c)
    <3>1. OrderParts' /\ now' = now /\ events' = events
      BY <1>0, <2>0, <2>1, OrderLook
    <3>. QED  BY <1>1, <3>1
  <2>2. CASE InitState(c) \/ RecordState(c) \/ AdvanceState(c) \/ FinalState(c)
    <3>1. OrderParts' /\ events' = events /\ (now'.tick = now.tick \/ now'.tick > now.tick)
      BY <1>0, <2>0, <2>2, OrderRow
    <3>2. Stamps' = Stamps
      BY <3>1 DEF Stamps
    <3>3. now'.tick > now.tick => Timeline!Next
      BY <3>2 DEF Timeline!Next, Timeline!Advance, Stamps
    <3>. QED  BY <3>1, <3>2, <3>3
  <2>3. CASE InitEvent(c) \/ RecordEvent(c) \/ AdvanceEvent(c) \/ DueEvent(c)
    <3>1. /\ OrderParts' /\ now' = now
          /\ \/ events' = events
             \/ \E e : /\ events' = events \cup {e} /\ e.tick = now.tick
                       /\ \A f \in events :
                             e.tick > f.tick \/ (e.tick = f.tick /\ e.seq > f.seq)
      BY <1>0, <2>0, <2>3, OrderLog
    <3>2. ASSUME NEW e, events' = events \cup {e}, e.tick = now.tick,
                 \A f \in events : e.tick > f.tick \/ (e.tick = f.tick /\ e.seq > f.seq)
          PROVE  Timeline!Next
      <4> DEFINE s == [tick |-> e.tick, seq |-> e.seq]
      <4>1. Stamps' = Stamps \cup {s}
        BY <3>2 DEF Stamps
      <4>2. \A x \in Stamps : Timeline!Later(s, x)
        BY <3>2 DEF Stamps, Timeline!Later
      <4>3. \A f \in events : f.tick \in Nat /\ f.seq \in Nat
        BY DEF TypeOK, Event
      <4>4. \A x \in Stamps : x # s
        BY <3>2, <4>3 DEF Stamps
      <4>5. s \in Stamps' \ Stamps /\ s.tick = now.tick
        BY <3>2, <4>1, <4>4
      <4>6. now'.tick = now.tick
        BY <3>1
      <4> HIDE DEF s
      <4>. QED  BY <4>1, <4>2, <4>5, <4>6 DEF Timeline!Next, Timeline!Append, Stamps
    <3>. QED  BY <1>1, <3>1, <3>2
  <2>. QED  BY <1>4, <2>1, <2>2, <2>3 DEF Step
<1>. QED  BY <1>2, <1>3, <1>4 DEF Next

\* A task that runs alone and meets no failure implements the abstract timeline.
THEOREM AloneImplementsTimeline ==
  ASSUME \A c, d \in Callers : c = d, MaxFaults = 0
  PROVE  Spec => TimelineSpec
<1> DEFINE Inv == CopyInv /\ LoneInv /\ OrderInv /\ faults = 0
<1>1. Init => Inv /\ Timeline!Init
  BY DEF Init, CopyInv, Holding, LoneInv, LogBehind, DueHeld, PassedSettles, LoggedOnce,
     Marking, DueLog, OrderInv, OrderParts, Timeline!Init, Origin, Written, Filing
<1>2. TypeOK /\ Inv /\ [Next]_vars => faults' = 0
  <2>1. ASSUME NEW c \in Callers, Begin(c) \/ Step(c), faults = 0 PROVE faults' = 0
    BY <2>1 DEF Begin, Step, GetState, InitState, InitEvent, RecordState, RecordEvent,
       AdvanceState, AdvanceEvent, AdvanceLog, ListDue, DueEvent, DueStatus, FinalState,
       InsertScheduled, GetWatermark, ListEvents, PutWatermark, InsertOwn, PutState
  <2>2. ASSUME NEW c \in Callers, faults = 0, Abort(c) \/ Skip(c) PROVE FALSE
    BY <2>2 DEF Abort, Skip, Failing
  <2>. QED  BY <2>1, <2>2 DEF Next, vars
<1>3. TypeOK /\ Inv /\ [Next]_vars => Inv' /\ [Timeline!Next]_<<now.tick, Stamps>>
  <2> SUFFICES ASSUME TypeOK, Inv, [Next]_vars
               PROVE  Inv' /\ [Timeline!Next]_<<now.tick, Stamps>>
    OBVIOUS
  <2>1. faults' = 0
    BY <1>2
  <2>2. OrderParts' /\ [Timeline!Next]_<<now.tick, Stamps>>
    BY <2>1, OrderStep
  <2>3. CopyInv' /\ LoneInv'
    BY CopyStep, LoneStep
  <2>. QED  BY <2>1, <2>2, <2>3 DEF OrderInv
<1> HIDE DEF Inv
<1>. QED  BY <1>1, <1>3, TypeCorrect, PTL DEF Spec, TimelineSpec, Timeline!Spec, Stamps
=============================================================================
