------------------------------ MODULE WorldTime ------------------------------
(***************************************************************************)
(* The world time spine of one session: crates/trpg-time over the tables   *)
(* world_time_state, world_events, world_time_advances, scheduled_events   *)
(* and context_watermarks (migration 0010).                                *)
(*                                                                         *)
(* Every request runs in a task of its own and no lock or transaction      *)
(* spans two statements, so one action of this module is one SQL           *)
(* statement of a task together with the local code up to the next one.    *)
(* A task reads the whole row, changes its copy and writes the whole copy  *)
(* back.                                                                   *)
(***************************************************************************)
EXTENDS Integers, FiniteSets

CONSTANTS
    Callers,    \* the tasks: turns, tools, CLI and API handlers
    Scheds,     \* the scheduled events that can be created
    NoSched,    \* the scheduled event of a log entry that is not about one
    Deltas,     \* the amounts of time (seconds) a request may name
    Limit,      \* TRPG_WORLD_TIME_CONTEXT_EVENT_LIMIT
    Ops,        \* the kinds of request the environment may send
    MaxOps,     \* bound: requests sent
    MaxFaults   \* bound: failed statements and dropped requests

AllOps == {"record", "advance", "flashback", "schedule", "compile"}

ASSUME DeltasAssumption == Deltas \subseteq Int
ASSUME OpsAssumption    == Ops \subseteq AllOps
ASSUME NoSchedAssumption == NoSched \notin Scheds
ASSUME BoundsAssumption == Limit \in Nat /\ MaxOps \in Nat /\ MaxFaults \in Nat

VARIABLES
    started,    \* world_time_state has a row for the session
    now,        \* that row: its world_tick and event_seq
    events,     \* the rows of world_events
    advances,   \* the rows of world_time_advances (from_tick, to_tick)
    status,     \* scheduled_events.status ("none": no row yet)
    dueTick,    \* scheduled_events.due_tick
    wm,         \* the row of context_watermarks
    pc,         \* the next statement of a task
    op,         \* the request a task serves
    st,         \* the task's copy of the row (or of the watermark)
    amount,     \* the request's amount of time
    due,        \* what is left of the list of due scheduled events
    cur,        \* the one in hand
    fired,      \* triggered_events.len()
    delivered,  \* history: the events some compiled context has listed
    ops, faults \* what is used up of MaxOps and MaxFaults

dbVars   == <<started, now, events, advances, status, dueTick, wm>>
vars == <<dbVars, pc, op, st, amount, due, cur, fired, delivered, ops, faults>>

Stamp    == [tick: Nat, seq: Nat]
Kinds    == {"initialized", "recorded", "advanced", "due"}
Event    == [tick: Nat, seq: Nat, kind: Kinds, about: Scheds \cup {NoSched}]
Statuses == {"none", "pending", "due"}
Origin   == [tick |-> 0, seq |-> 0]

Labels == {"idle", "get_state", "init_state", "init_event", "record_state",
           "record_event", "advance_state", "advance_event", "advance_log",
           "list_due", "due_event", "due_status", "final_state",
           "insert_scheduled", "get_watermark", "list_events", "put_watermark"}

\* The order of the log: world_tick, then event_seq.
Before(a, b) == \/ a.tick < b.tick
                \/ a.tick = b.tick /\ a.seq < b.seq

\* Faulty variant: the clamp to one tick is forgotten.
TicksUnclamped(d) == d

\* delta_seconds.max(0).max(1) of advance, total_seconds().max(1) of schedule_in.
Ticks(d) == IF d < 1 THEN 1 ELSE d

Entry(at, kind, about) ==
    [tick |-> at.tick, seq |-> at.seq, kind |-> kind, about |-> about]

\* unique(session_id, world_tick, event_seq) refuses a second row at a stamp.
Free(at) == \A e \in events : <<e.tick, e.seq>> # <<at.tick, at.seq>>

Goto(c, l) == pc' = [pc EXCEPT ![c] = l]

\* The statement that follows ensure_session_time in each request.
AfterEnsure(o) == CASE o = "record"    -> "record_state"
                    [] o = "advance"   -> "advance_state"
                    [] o = "flashback" -> "get_state"
                    [] o = "schedule"  -> "insert_scheduled"
                    [] o = "compile"   -> "get_watermark"
                    [] OTHER           -> "put_watermark"

-----------------------------------------------------------------------------
Init ==
    /\ started = FALSE
    /\ now = Origin
    /\ events = {}
    /\ advances = {}
    /\ status = [s \in Scheds |-> "none"]
    /\ dueTick = [s \in Scheds |-> 0]
    /\ wm = Origin
    /\ pc = [c \in Callers |-> "idle"]
    /\ op = [c \in Callers |-> "record"]
    /\ st = [c \in Callers |-> Origin]
    /\ amount = [c \in Callers |-> 0]
    /\ due = [c \in Callers |-> {}]
    /\ cur = [c \in Callers |-> NoSched]
    /\ fired = [c \in Callers |-> 0]
    /\ delivered = {}
    /\ ops = 0
    /\ faults = 0

Begin(c) ==
    /\ pc[c] = "idle"
    /\ ops < MaxOps
    /\ ops' = ops + 1
    /\ \E o \in Ops : op' = [op EXCEPT ![c] = o]
    /\ \E d \in Deltas : amount' = [amount EXCEPT ![c] = d]
    /\ fired' = [fired EXCEPT ![c] = 0]
    /\ Goto(c, "get_state")
    /\ UNCHANGED <<dbVars, st, due, cur, delivered, faults>>

\* ensure_session_time returns: a no-advance request now records an event,
\* and record_event begins with an ensure_session_time of its own.
Ensured(c) ==
    /\ Goto(c, AfterEnsure(op[c]))
    /\ op' = [op EXCEPT ![c] = IF @ = "flashback" THEN "record" ELSE @]

GetState(c) ==
    /\ pc[c] = "get_state"
    /\ IF started
       THEN /\ st' = [st EXCEPT ![c] = now]
            /\ Ensured(c)
       ELSE /\ st' = [st EXCEPT ![c] = Origin]
            /\ Goto(c, "init_state")
            /\ UNCHANGED op
    /\ UNCHANGED <<dbVars, amount, due, cur, fired, delivered, ops, faults>>

\* The default row, whatever is there by now: the statement is an upsert.
InitState(c) ==
    /\ pc[c] = "init_state"
    /\ started' = TRUE
    /\ now' = st[c]
    /\ Goto(c, "init_event")
    /\ UNCHANGED <<events, advances, status, dueTick, wm, op, st, amount, due, cur,
                   fired, delivered, ops, faults>>

\* The first log entry has event_seq 1 although the row says 0; its failure
\* is ignored.
InitEvent(c) ==
    /\ pc[c] = "init_event"
    /\ LET e == Entry([tick |-> 0, seq |-> 1], "initialized", NoSched)
       IN  events' = IF Free(e) THEN events \cup {e} ELSE events
    /\ Ensured(c)
    /\ UNCHANGED <<started, now, advances, status, dueTick, wm, st, amount, due, cur,
                   fired, delivered, ops, faults>>

\* record_event and advance write the changed copy back.
PutState(c, copy) ==
    /\ st' = [st EXCEPT ![c] = copy]
    /\ now' = copy
    /\ started' = TRUE
    /\ UNCHANGED <<events, advances, status, dueTick, wm, op, amount, due, cur, fired,
                   delivered, ops, faults>>

RecordState(c) ==
    /\ pc[c] = "record_state"
    /\ PutState(c, [st[c] EXCEPT !.seq = @ + 1])
    /\ Goto(c, "record_event")

AdvanceState(c) ==
    /\ pc[c] = "advance_state"
    /\ PutState(c, [tick |-> st[c].tick + Ticks(amount[c]), seq |-> st[c].seq + 1])
    /\ Goto(c, "advance_event")

\* insert_world_event of record_event and advance: a refused row ends the
\* request with an error.
InsertOwn(c, kind, next) ==
    /\ IF Free(st[c])
       THEN /\ events' = events \cup {Entry(st[c], kind, NoSched)}
            /\ Goto(c, next)
       ELSE /\ Goto(c, "idle")
            /\ UNCHANGED events
    /\ UNCHANGED <<started, now, advances, status, dueTick, wm, op, st, amount,
                   due, cur, fired, delivered, ops, faults>>

RecordEvent(c)  == pc[c] = "record_event"  /\ InsertOwn(c, "recorded", "idle")
AdvanceEvent(c) == pc[c] = "advance_event" /\ InsertOwn(c, "advanced", "advance_log")

AdvanceLog(c) ==
    /\ pc[c] = "advance_log"
    /\ advances' = advances \cup
           {[from |-> st[c].tick - Ticks(amount[c]), to |-> st[c].tick]}
    /\ Goto(c, "list_due")
    /\ UNCHANGED <<started, now, events, status, dueTick, wm, op, st, amount, due, cur,
                   fired, delivered, ops, faults>>

\* Faulty variants: the status filter is dropped, "<" stands for "<=", the
\* listing looks one tick ahead.
DueAtAnyStatus(tick) == {s \in Scheds : status[s] # "none" /\ dueTick[s] <= tick}
DueAtStrict(tick)    == {s \in Scheds : status[s] = "pending" /\ dueTick[s] < tick}
DueAtEarly(tick)     == {s \in Scheds : status[s] = "pending" /\ dueTick[s] <= tick + 1}

\* list_due_scheduled_events
DueAt(tick) == {s \in Scheds : status[s] = "pending" /\ dueTick[s] <= tick}

ListDue(c) ==
    /\ pc[c] = "list_due"
    /\ due' = [due EXCEPT ![c] = DueAt(st[c].tick)]
    /\ Goto(c, IF DueAt(st[c].tick) = {} THEN "idle" ELSE "due_event")
    /\ UNCHANGED <<dbVars, op, st, amount, cur, fired, delivered, ops, faults>>

\* order by due_tick
FirstDue(c) == {s \in due[c] : \A t \in due[c] : dueTick[s] <= dueTick[t]}

\* One iteration over the due events is two statements: log the event, then
\* mark it. Both failures are ignored; triggered_events grows all the same.
DueEvent(c) ==
    /\ pc[c] = "due_event"
    /\ \E s \in FirstDue(c) :
         LET e == Entry([tick |-> st[c].tick, seq |-> st[c].seq + fired[c] + 1],
                        "due", s)
         IN  /\ cur' = [cur EXCEPT ![c] = s]
             /\ events' = IF Free(e) THEN events \cup {e} ELSE events
    /\ Goto(c, "due_status")
    /\ UNCHANGED <<started, now, advances, status, dueTick, wm, op, st, amount,
                   due, fired, delivered, ops, faults>>

\* The rest of an iteration: the next due event, or the final row.
Iterated(c) ==
    /\ due' = [due EXCEPT ![c] = @ \ {cur[c]}]
    /\ fired' = [fired EXCEPT ![c] = @ + 1]
    /\ Goto(c, IF due[c] = {cur[c]} THEN "final_state" ELSE "due_event")

DueStatus(c) ==
    /\ pc[c] = "due_status"
    /\ status' = [status EXCEPT ![cur[c]] = "due"]
    /\ Iterated(c)
    /\ UNCHANGED <<started, now, events, advances, dueTick, wm, op, st, amount,
                   cur, delivered, ops, faults>>

\* Faulty variant: the final row is built from the row read first.
FinalStateFromOld(c) ==
    /\ pc[c] = "final_state"
    /\ PutState(c, [tick |-> st[c].tick - Ticks(amount[c]), seq |-> st[c].seq + fired[c]])
    /\ Goto(c, "idle")

FinalState(c) ==
    /\ pc[c] = "final_state"
    /\ PutState(c, [st[c] EXCEPT !.seq = @ + fired[c]])
    /\ Goto(c, "idle")

InsertScheduled(c) ==
    /\ pc[c] = "insert_scheduled"
    /\ \E s \in Scheds :
         /\ status[s] = "none"
         /\ status' = [status EXCEPT ![s] = "pending"]
         /\ dueTick' = [dueTick EXCEPT ![s] = st[c].tick + Ticks(amount[c])]
    /\ Goto(c, "idle")
    /\ UNCHANGED <<started, now, events, advances, wm, op, st, amount, due, cur,
                   fired, delivered, ops, faults>>

-----------------------------------------------------------------------------
(* A turn compiles its context: world_time_blocks_for_turn lists the events *)
(* since the watermark; the end of compile_context reads the row again and  *)
(* moves the watermark to it.                                               *)

GetWatermark(c) ==
    /\ pc[c] = "get_watermark"
    /\ st' = [st EXCEPT ![c] = wm]
    /\ Goto(c, "list_events")
    /\ UNCHANGED <<dbVars, op, amount, due, cur, fired, delivered, ops, faults>>

\* current_world_time at the end of compile_context.
Remark(c) ==
    /\ Goto(c, "get_state")
    /\ op' = [op EXCEPT ![c] = "mark"]

\* Faulty variant: the comparison of event_seq at the same tick is dropped.
EventsSinceTick(at) ==
    LET new == {e \in events : at.tick < e.tick}
    IN  {e \in new : Cardinality({f \in new : Before(f, e)}) < Limit}

\* list_world_events_since: the first Limit events after the watermark.
EventsSince(at) ==
    LET new == {e \in events : Before(at, e)}
    IN  {e \in new : Cardinality({f \in new : Before(f, e)}) < Limit}

ListEvents(c) ==
    /\ pc[c] = "list_events"
    /\ delivered' = delivered \cup EventsSince(st[c])
    /\ Remark(c)
    /\ UNCHANGED <<dbVars, st, amount, due, cur, fired, ops, faults>>

PutWatermark(c) ==
    /\ pc[c] = "put_watermark"
    /\ wm' = st[c]
    /\ Goto(c, "idle")
    /\ UNCHANGED <<started, now, events, advances, status, dueTick, op, st, amount,
                   due, cur, fired, delivered, ops, faults>>

-----------------------------------------------------------------------------
(* Failures. A statement whose error is propagated, or a handler whose      *)
(* future is dropped with its connection, ends the task where it stands. A  *)
(* statement whose error is ignored is left out.                            *)

Failing(c) ==
    /\ pc[c] # "idle"
    /\ faults < MaxFaults
    /\ faults' = faults + 1

Abort(c) ==
    /\ Failing(c)
    /\ Goto(c, "idle")
    /\ UNCHANGED <<dbVars, op, st, amount, due, cur, fired, delivered, ops>>

SkipInitEvent(c) ==
    /\ pc[c] = "init_event"
    /\ Ensured(c)
    /\ UNCHANGED <<due, cur, fired>>

SkipAdvanceLog(c) ==
    /\ pc[c] = "advance_log"
    /\ Goto(c, "list_due")
    /\ UNCHANGED <<op, due, cur, fired>>

SkipDueEvent(c) ==
    /\ pc[c] = "due_event"
    /\ \E s \in FirstDue(c) : cur' = [cur EXCEPT ![c] = s]
    /\ Goto(c, "due_status")
    /\ UNCHANGED <<op, due, fired>>

SkipDueStatus(c) ==
    /\ pc[c] = "due_status"
    /\ Iterated(c)
    /\ UNCHANGED <<op, cur>>

\* compile_context goes on without the world time blocks when they fail, and
\* without events when their listing fails.
SkipContext(c) ==
    /\ op[c] = "compile"
    /\ pc[c] \in {"get_state", "init_state", "get_watermark", "list_events"}
    /\ Remark(c)
    /\ UNCHANGED <<due, cur, fired>>

Skip(c) ==
    /\ Failing(c)
    /\ \/ SkipInitEvent(c)
       \/ SkipAdvanceLog(c)
       \/ SkipDueEvent(c)
       \/ SkipDueStatus(c)
       \/ SkipContext(c)
    /\ UNCHANGED <<dbVars, st, amount, delivered, ops>>

-----------------------------------------------------------------------------
Step(c) ==
    \/ GetState(c) \/ InitState(c) \/ InitEvent(c)
    \/ RecordState(c) \/ RecordEvent(c)
    \/ AdvanceState(c) \/ AdvanceEvent(c) \/ AdvanceLog(c)
    \/ ListDue(c) \/ DueEvent(c) \/ DueStatus(c) \/ FinalState(c)
    \/ InsertScheduled(c)
    \/ GetWatermark(c) \/ ListEvents(c) \/ PutWatermark(c)

Next == \E c \in Callers : Begin(c) \/ Step(c) \/ Abort(c) \/ Skip(c)

Spec == Init /\ [][Next]_vars

-----------------------------------------------------------------------------
(* Properties *)

\* Every variable keeps its type.
TypeOK ==
    /\ started \in BOOLEAN
    /\ now \in Stamp
    /\ events \subseteq Event
    /\ advances \subseteq [from: Int, to: Nat]
    /\ status \in [Scheds -> Statuses]
    /\ dueTick \in [Scheds -> Nat]
    /\ wm \in Stamp
    /\ pc \in [Callers -> Labels]
    /\ op \in [Callers -> Ops \cup {"record", "mark"}]
    /\ st \in [Callers -> Stamp]
    /\ amount \in [Callers -> Int]
    /\ due \in [Callers -> SUBSET Scheds]
    /\ cur \in [Callers -> Scheds \cup {NoSched}]
    /\ fired \in [Callers -> Nat]
    /\ delivered \subseteq Event
    /\ ops \in Nat
    /\ faults \in Nat

\* However requests interleave and fail, a scheduled event is logged only at
\* a tick that has reached its due_tick (list_due_scheduled_events of the
\* advance that logs it).
NoEarlyFire ==
    \A e \in events : e.kind = "due" => dueTick[e.about] <= e.tick

\* A scheduled event has been fired exactly when it is marked due, and then
\* once, whenever no task is under way: sequential requests neither repeat
\* nor lose a consequence as long as no statement fails.
FiresOnce ==
    (faults = 0 /\ \A c \in Callers : pc[c] = "idle") =>
        \A s \in Scheds :
            Cardinality({e \in events : e.kind = "due" /\ e.about = s})
              = IF status[s] = "due" THEN 1 ELSE 0

\* No scheduled event that the timeline has passed is left pending when no
\* task is under way and no statement has failed (schedule_in is at least one
\* tick ahead, advance looks after it has moved the row).
NothingOverdue ==
    (faults = 0 /\ \A c \in Callers : pc[c] = "idle") =>
        ~\E s \in Scheds : status[s] = "pending" /\ dueTick[s] <= now.tick

\* The watermark never passes an event that no compiled context has listed
\* as long as no statement fails and the events fit the listing limit: every
\* event reaches the GM's context (doc: "incremental events since watermark").
ContextComplete ==
    faults = 0 => \A e \in events : ~Before(wm, e) => e \in delivered

\* The timeline never runs backward (doc: "The main timeline is monotonic").
TickMonotone == [][now'.tick >= now.tick]_vars

\* The abstract timeline this module implements when requests do not overlap.
Timeline == INSTANCE Timeline WITH
    tick <- now.tick,
    log  <- {[tick |-> e.tick, seq |-> e.seq] : e \in events}

TimelineSpec == Timeline!Spec
=============================================================================
