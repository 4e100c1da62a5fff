# A verification project for chatrpg-rs

TLA+ models of the parts of chatrpg-rs that keep state while a game is played, the TLC runs that
check them on small instances, and theorems about them that the TLA+ proof system checks for every
value of the constants. Paths below are relative to the repository (`crates/...`), module names are
files of this directory.

chatrpg-rs is a game master: an HTTP server and a command line that play a tabletop RPG with a
language model. A session lives in Postgres; every request runs in a tokio task of its own; nothing
serialises the requests of one session, and almost no operation is wrapped in a transaction. That is
where its hard behaviours come from, and what the models are built around: **one action is one SQL
statement or one await of one task, with the local code up to the next one.**

## 1. Inventory

### The served turn

| Part | State | Operations | Interacts with |
| --- | --- | --- | --- |
| SSE handler and driver (`trpg-api/src/lib.rs` play_turn_sse, `turn_driver.rs`) | per turn: has state been mutated, policy on disconnect, the event in hand | load scene and transcript, spawn the pipeline, forward events as SSE frames, cancel or drain on disconnect, mark the turn | the pipeline (bounded channel, cancellation token), the client (bounded channel), `turns` |
| Turn pipeline (`trpg-gm/src/execute.rs`, `turn_plan.rs`, `turn_loop.rs`) | phase, rounds of the agent loop, text held back | the phases of CANONICAL_TURN_PLAN, save_turn, TurnComplete, trace, heavy task | every kernel below, through tools |
| Heavy tail (`execute.rs` spawn_heavy) | `turns.pp_lifecycle` | memory, progression, story writes, then `complete` | the guard of the next turn |
| High-water guard (`trpg-runtime/src/lib.rs` await_prev_turn_critical) | none | poll the last row until critical_done or two seconds | `turns` |

Hard: three tasks and two channels per turn, a client that hangs up anywhere, panics, the next turn
asked for before the last has ended.
Correct when: the verdict the driver reports is durable; a token in time is obeyed; lifecycle goes
forward; nobody waits for ever; a player who has seen a turn end is not forgotten by the next one.

### Kernels over the database

| Part | State | Operations |
| --- | --- | --- |
| World time spine (`trpg-time`) | world_time_state, world_events, world_time_advances, scheduled_events, context_watermarks | ensure, record_event, advance, schedule_in, context of a turn |
| Interaction lifecycle (`trpg-interaction`, `trpg-db`, `trpg-runtime`, `trpg-gm/src/gate.rs`, `tools/check.rs`, `tools/frame.rs`) | check_contracts, pending_checks, check_results, interaction_gates, state_frames, sessions.interaction_generation | reconcile, gate phase, request_player_roll, roll_check, open and close frames, checks/resolve, conflict/start |
| Mechanical obligations (`trpg-gm/src/obligations.rs`, `trpg-mechanics/src/watcher.rs`) | the ledger of a turn, mechanic_dues | admit, resolve, waive, block the narration, carry over |
| Scenes, progression and evidence (`trpg-runtime/src/scene_navigation/`, `progression/`, `evidence_gateway.rs`; `trpg-gm/src/turn_loop.rs`, `execute.rs`, `tools/world.rs`) | sessions.current_scene_id, domain_events | move the party (named by the player, by the tool, by an unlock, by the model), resolve objectives, unlock scenes |
| Story and director (`trpg-director`, `director_brief.rs`, `story_observer/`) | story_state, one JSON row | select focus, advance threads, promises and clocks |
| Knowledge, NPCs, memory (`knowledge_projection.rs`, `npc_*.rs`, `memory_proposal.rs`) | domain_events, knowledge_edges, npc rows | append, project who may know what |
| Combat, contests, objects (`trpg-combat`, `trpg-contest`, `trpg-object`) | frames, contest rows, object instances and edges | rounds, opposed rolls, possession and ammunition |
| Parsing (`trpg-parser/src/staged.rs`, `trpg-api` ingest_ruleset) | rule_kernels, character_onboarding_packs, background_jobs, the stream of a client | a staged parse of a ruleset, its reports, its verdict |
| Module extraction (`trpg-api` module_extract_continue, module_skeleton_complete; `trpg-runtime/src/scene_navigation.rs`; `trpg-rule-agent/src/reader/`) | the bundle with the module's graph, background_jobs, sessions.current_scene_id | two background jobs and the tail of a turn read scenes, add scenes, link them |

Hard: read, change and write back without a lock; check then insert; several statements of which one
fails; a request dropped with its connection; rows of an older generation or of a closed frame that
still look open; dice that arrive late.
Correct when: time never runs backward and nothing is fired early, twice or never; a question is asked
once, answered once, and not after the situation that asked it is over; a debt is neither lost nor
collected twice; the party is
moved on only where the way was earned, and once; the log tells the journey; the graph of the module stays whole
and only grows; what a parse has reported is there, and a job that says it runs is being run.

### Everything else

Text and prompts (`presentation_gate.rs`, `turn_markup_parser.rs`, `prompts.rs`, `stimulus.rs`), the
client of the language model (`trpg-llm`), search, character creation and formulas, the evaluation
harness. They compute rather than keep state. `PROJECT.json` lists all components with the reason
each is or is not modelled, and under `hazards` what in this code is hard to test, at its line, with the
properties that cover it or why none does.

## 2. Plan

Done, in this order, most important first:

1. `WorldTime` (the spine) implements `Timeline`; `MCWorldTime`, `WorldTimeProofs`.
2. `TurnPipeline` (driver, pipeline, heavy task, client) implements `TurnContract`; `MCTurnPipeline`,
   `TurnPipelineProofs`.
3. `InteractionLifecycle` (requests over checks, gates and frames, with failing statements);
   `MCInteraction`, `InteractionProofs`, `InteractionAloneProofs`.
4. `SceneProgress` (the scene of the party, the log of domain events, unlocks); `MCSceneProgress`,
   `SceneProgressProofs`.
5. `Obligations` (the ledger of a turn beside the rows of mechanic_dues); `MCObligations`,
   `ObligationsProofs`.
6. `ModuleExtraction` (the module's graph and the tasks that fill it in); `MCModuleExtraction`,
   `ModuleExtractionProofs`.
7. `StagedParse` (the staged parse of a ruleset); `MCStagedParse`, `StagedParseProofs`.

Next:

8. The rest of progression: the evaluator of authored rules and the frontier (pure, against a reference
   definition), the admission of evidence; replays of the log.
9. Combat rounds: initiative, actions, damage.
10. The reassembly of streamed tool calls and the contest profiles as pure operators against reference
    definitions; the command line as another driver of `TurnPipeline`.

The runs are kept to twelve and their properties to those that say something different from the others.
What the code does in every session or on
every failure (the first player action that is not logged, `trpg-time/src/lib.rs:34`; a failure_kind
that finds no row, `execute.rs:189`) needs no run to be seen: both are in the models, and are hazards with a
note.

## 3. What is modelled

### WorldTime: `crates/trpg-time/src/lib.rs`, tables of migration 0010

A caller is a turn, a tool or a handler that sends one request. `now`/`started` are the row of
world_time_state, `events` the log, `status` and `dueTick` the scheduled events, `wm` the watermark;
`st` is the copy of the row a task holds. The statement a task is at is `pc`:

| Code | Actions |
| --- | --- |
| ensure_session_time | GetState, InitState, InitEvent |
| record_event | RecordState, RecordEvent |
| advance and its loop over due events | AdvanceState, AdvanceEvent, AdvanceLog, ListDue, DueEvent, DueStatus, FinalState |
| schedule_in | InsertScheduled |
| world_time_blocks_for_turn, end of compile_context | GetWatermark, ListEvents, PutWatermark |
| a propagated error or a dropped future; an ignored error | Abort; Skip |

The unique key on (session, tick, seq) refuses a second event at a stamp (Free). A reader of the code
will miss two things: hours and display texts (a function of the tick), and frame ids, which are stored and
never asked for.

`Timeline` is what `docs/design/world_time_spine_v1_4.md` promises: time moves forward, entries are
appended at the current tick in order. WorldTime implements it with `tick <- now.tick` and the stamps
of `events` as `log`, as long as requests do not overlap.

### TurnPipeline: `trpg-gm/src/execute.rs`, `trpg-api/src/turn_driver.rs`

For a turn t: `pipe[t]` is the pipeline task, `drive[t]` handler and driver, `heavy[t]` the tail,
`chan[t]` the two channels and the token, `store[t]` what the database has of the turn (pp_lifecycle,
failure_kind, trace, disconnect marker), `client[t]` the other end. `rows` is the order of `turns`, which the
guard and load_recent_transcript read; `scene` counts how often the party has moved, so that "older scene"
is "smaller number".

Each phase of CANONICAL_TURN_PLAN that writes something others read, sends an event or looks at the
token is an action; the phases in between (prompts, verification) have no shared state and are part of
the next action. Channels block when full, sends to a dropped receiver are ignored, the driver's select is
biased towards the client's hang-up: all as in the code. A tool is one step without effects of its own;
what tools do is the business of the other modules.

`TurnContract` is the promise to a session: an opened turn is kept, failed or abandoned, never one after
the other; a kept one is finished; the client hears only what is durable. TurnPipeline implements it, with
liveness, when no statement fails.

Left out: the split into a narrator call, errata and warnings (events that become no frame), and failures
of the handler before the pipeline is spawned.

### InteractionLifecycle: checks, gates, frames

A caller is a turn (reconcile, gate phase, reconcile again with the context, tools), a POST /api/checks/resolve or a POST
/api/conflict/start. `checks`, `gates`, `frames`, `contracts` are tables; a row number is also its
created_at, so "the newest open one" is a maximum; `gen` is sessions.interaction_generation; `results[k]`
counts result rows, `applied[k]` how often the effects of a check were applied.

| Code | Actions |
| --- | --- |
| reconcile_interaction_lifecycle | ReadGeneration, SupersedeStaleGates, SupersedeStaleChecks |
| gate phase, resolve_pending_check, bundles and follow-ups | GatePhase, Roll..., ApplyEffects, InsertResult, CloseCheck, CloseGate, CloseOpenGate, AnswerGate, FollowUp, EffectDone |
| request_player_roll, roll_check | RequestRoll, CancelChecks, CancelGates, MintContract, ReadForInsert, PutCheck, PutGate, RollCheck |
| enter_mode, open and close of frames | OpenFrame, PutFrame, CloseFrame, CascadeGates, CascadeChecks, CascadeFrame, Bump |
| handle_open_interaction_gate | ApiGate, SupersedeGate, SupersedeCheck, ApiContract, ApiNoCheck, Choose, ApiCheck, CloseAskedCheck, AnswerWithoutDice |
| CombatAgent::handle_turn | FindFrame, PutNewFrame, NotHandled, OpenChoiceGate, AttachGate, DeclareAction, ExitFrame |
| an error that ends the request, a dropped future, a crash; one that a turn tells its model | Abort; FailTool |
| a generation that cannot be read and counts as 0; a blocked result that is not stored; any other ignored error | ReadLost; BlockedUnrecorded; Skip (Onward says where the request goes on) |

`faults` counts the failures, `hit` are the requests that met one themselves. Left out: a failing insert of
the contract of an effect check, backfills of rows from before migration 0011, interaction events
and repairs, expiry, the sessions.active_* pointers (written, not asked), the dice policy
system_rolls_visible under which nothing waits, and orchestrate_turn and try_resolve_pending_check, which
no served request calls.

### SceneProgress: the party's scene and the log that moves it

A turn t is a request of the session with both progression flags on (`TRPG_PROGRESS_SCENE_ADVANCE_EVIDENCE_V1`,
`TRPG_PROGRESS_SCENE_TRANSITION_GATED_V1`; off by default). `scene` is sessions.current_scene_id, `log` the
domain_events of the session in the order of seq, reduced to the three kinds that matter here; `mine[t]` is
the scene id in the state of the turn, `cur`, `tgt`, `gate` are the locals of a move. The rest is history.

| Code | Actions |
| --- | --- |
| play_turn_sse reads the scene | Start |
| phase_pre_context_scene_navigate and the event after it | NameScene, NameNone, PreSet, PreAppend |
| prepare_turn_context, for a turn without a scene | Assemble |
| the agent loop: navigate_scene, its ends | Tour, Narrate, EndLoop |
| admitted evidence, apply_witnessed_progression | Earn, ResolveObjective, UnlockScene |
| scene_navigate_critical and the event after it | ReadScene, TakeUnlock, AskModel, SetScene, AppendMove |
| a panic, or the server going down | Die |

An event has the identity that its event_id gives it (SameId), and the insert does nothing on conflict
(Extended): a resolved objective and an unlock are recorded once for the session, a move once for each turn.
Where a player or a model wants to go, and whether evidence is admitted, are choices; which scene follows
(resolve_next_scene) is a constant, of which only is assumed that no scene follows itself. The high-water
guard is not modelled: a turn may overlap any other, which contains what the guard allows, and the
sequential properties say so by `overlapped`. Left out: sessions without a module, titles and context of a
transition, the world event beside it (WorldTime has those).

### Obligations: `trpg-gm/src/obligations.rs`, `trpg-mechanics/src/watcher.rs`, table mechanic_dues

A turn t is a request of the session. `row` is the status of the dues in the table, one due for every turn
and hook, and one for every turn and threshold; `pc` is the statement a turn is at. What a turn holds in
memory is `pending` (ctx.pending_dues), `ledger` (dues, open checks, the open engagement, retroactive
debts), `waivers`, `facts` (what its checks and effects came to), `blocked` and `called` (of the round),
`write` (the rows an update is about to write). `memo` is the carry-over memory.

| Code | Actions |
| --- | --- |
| admit_dues, admit_candidates | Ask (first query), ListWaived, ListResolved, Insert |
| hooks of the turn start, dues from the player's words, phase_debt_load | Begin, StartHooks, Stimulus, Load |
| the rounds of the agent loop and the gate on its text | Round, NextRound, Narrate, Forced |
| roll_check, waive_obligation, apply_effect, navigate_scene, advance_time, others | Roll, RollFails, Waive, ApplyEffect, Navigate, AdvanceTime, Look; WriteRows is their update of the table |
| verification of the narration, phase_carryover_debt | Verify, Carry |
| a turn that waits for dice or is cancelled; a panic or a dropped request | Leave; Die |

Which hooks a calendar crosses, which mechanics the player's words call for and what a roll comes to are
choices. Two turns may overlap in any way, which contains what the guard allows; the sequential properties
say so by `overlapped`. Left out: the exit obligations of a mode, and repeated dues of one hook within one
turn.

### ModuleExtraction: `trpg-api/src/lib.rs`, `trpg-runtime/src/scene_navigation.rs`, `trpg-rule-agent/src/reader/`

A task is a request for extract/continue or skeleton/complete, or a turn that moves the party. `graph` is
the row of the module (which scenes there are, which have their text, which links), `status` the two rows of
background_jobs, `copy[t]` the bundle a task has loaded and works on.

| Code | Actions |
| --- | --- |
| module_extract_continue, module_skeleton_complete, the spawned job | Check, Insert, InsertLost, Start, Report |
| extract_module_scenes, complete_module_skeleton | Load, LoadFails, Work (ReadScenes, AddStubs), Save |
| scene_navigate_critical, scene_navigate_heavy, prefetch_frontier | ReadMap, Arrive, Frontier, FrontierFails, NextExit |
| the server goes down | Crash |

What a model returns for a scene is a choice: nothing, links alone, or a text. The links of a submission are
filtered as in the code (Submitted), and the bridges between scenes that share an entity are made anew after
every reading (Bridges). The histories `stale`, `overtaken`, `raced` and `orphaned` name what the code does
not protect against, so that each property can say exactly which of it it excepts. Left out: a second parse
of the module, the navigate command of the CLI, and the entities beside the scenes, which travel in the same
bundle.

### StagedParse: `trpg-parser/src/staged.rs`, `staged_status.rs`, `trpg-api/src/lib.rs` ingest_ruleset

A parse p is a request to ingest the ruleset. `kernel` and `pack` are the rows it fills, a value in them is
known by the parse that read it; `row[p]` is its row of background_jobs, `st[p]` the JobStatus it reports
from, `copy[p]` the kernel it is about to write, `stream[p]` the client that follows it.

| Code | Actions |
| --- | --- |
| ingest_ruleset | Ingest, IngestLost |
| run, report, begin, finish | Report |
| stage0_identity, stage1_character, stage2_deep | Plan, ReadSheet, LoadKernel, ReadRules, UpsertKernel, UpsertPack |
| ingest_events | Follow, Look, LookFails |
| the server goes down | Crash |

Models answer or do not, by choice. Ignored errors are ignored as in the code. Left out: the notes between
begin and end of a stage, which repeat status and progress, the files written beside the rows, and the parse
of a whole directory.

Definitions whose comment says "Faulty variant" are plausible mistakes in the code. No action uses them:
each is the body a definition gets to see that a property notices (`mutants` in `PROJECT.json`).

## 4. What the runs check

| Run | Instance | What it shows |
| --- | --- | --- |
| wt_sequential | one task, five requests of every kind, two scheduled events, amounts -1 and 2, one fault | the spine implements Timeline, whose tick never falls, and fires nothing early, faults included; without a fault each scheduled event fires once (FiresOnce) and in time (NothingOverdue), and no event escapes the GM's context (ContextComplete) |
| wt_backward | two tasks | refutes "never ... moving the main tick backward": record_event writes back the row it read before an advance |
| tp_one_turn | one turn, two rounds, two fragments, no fault | TurnContract, liveness included: the verdict of the driver is durable and comes |
| tp_faults | one turn, two faults | LifecycleMonotone, CancelInTime, and no driver waits for ever on a dead pipeline (DriverEnds) |
| tp_two_turns | two overlapping turns with a module | whoever heard "done" of a narration finds it in the next transcript, and at least its scene (NarrationRemembered) |
| il_calls | two callers, four calls, three rows, one frame, one failure or one overlap | StaleNeverAnswers under any overlap; without overlap one question waits (OneAnswerable), a check is settled once and once more for a failure (SettledOnce), input is routed over clean tables whatever failed before (CleanBeforeInput), a closed frame has no open children (ClosedFrameChildless) |
| il_stale_roll | one caller, two rows, five calls | refutes that closed questions are not resolved by later dice: the query for unresolved contracts ignores the status of the check |
| sp_session | two turns, three scenes (two in a cycle, one last), one fault | in any overlap and whatever fails, an unlock moves the party only where it was earned (Earned); without overlap it does so once unless the log did not take the move (UnlockOnce); without faults at once (AdvanceTaken), and the log is the journey (LogFollowsParty) |
| sp_return | the same, one turn at a time, no fault | refutes that a used unlock never fires again: the move of a turn that had already moved is not logged |
| ob_session | two turns of two rounds, three hooks of two mechanics, two tool calls, one fault or one overlap | in any overlap a turn that narrates of its own accord has dealt with what was owed when it began (EarlierDuesHandled), and what is left is told (CarriedOver); without overlap a hook has one open due (OneOpenPerHook), what is resolved stays so (SettledStays) and is not called for again (NotCalledAgain) |
| mx_tasks | four scenes of which one is missing; both jobs and a turn, or one job asked for twice; one fault | the row is always one whole graph (LinksClosed) that only an overtaken copy can shrink (WorkKept); a row that says running is being run (RunningHasRunner) and is answered (JobAnswered); the surroundings of the party are read (ReadyAround) |
| st_parses | a whole parse and a short one, in any overlap; one fault | what is served once a stage is reported (IdentityServed, SheetServed), what the verdict says of it (VerdictTrue), and that a client hears of the end (StreamEnds) |

### Bounds and why they are enough

* World time: two tasks are what a lost update needs; two scheduled events have an order and one of them can
  be due while the other is handled; five requests reach schedule, advance, compile, advance, compile. Limit
  9 is above the number of events that five requests write, so ContextComplete speaks of the case within the
  limit; beyond it the code does skip events (see the hazard).
* Turns: a capacity of one makes both channels block at once; 128 only delays it. One round is enough to
  call a tool and ask for a roll, a second to come back from a tool. Two turns suffice for everything that
  one turn can read of another, because the guard looks at one row and the transcript limit of twelve is out
  of reach. The instances with two turns play narrations with a module, where scene and text go their
  longest way.
* Interaction: three rows are the check, the effect check of its hit and a question beside them; four calls
  are open frame, ask, close, answer. One frame: the tables hold at most one live frame at a time. Callers
  are symmetric: no action compares them. MaxFaults is 1, and the first overlap of two requests is paid for
  with it: the run has the failures in requests that follow each other and the overlaps without; the
  properties for requests that do not overlap are the ones that failures bear on. (With MaxFaults = 2 TLC
  takes four times as long and finds the same.)

* Scenes: a cycle is what a return needs, and the last scene one from which nothing follows. One turn can
  unlock and leave a scene, the next come back to it. Each turn logs up to three events and a limit of four
  is passed by the second turn, so Earned is checked beyond the limit, too. One fault is enough for a move
  that is set and not logged, and for a turn that starts without a scene: that the same read fails again in
  Assemble counts as the same fault. sp_return has a limit that two turns do not reach.

* Obligations: two turns are what a debt, its carry-over and an overlap need. One mechanic has a hook at the
  start of a turn and one of the calendar, so that a roll settles dues of both; the other has one at the
  entry to a scene, which a waiver for the scene and a change of scene concern. Two tool calls reach waive
  and change scene, or change scene and roll. A turn issues the due of a hook at most once; an overlap is
  paid for with a fault, so that the run has the faults in turns that follow each other and the overlaps
  without. Two hooks of one key and dues from the player's words are not in the run; the theorems hold for
  any catalog.
* Extraction: e leads to a, a to b and d; the parse has missed d, and b and d share an entity, so that every
  sort of link and of task has something to do. `Casts` says which tasks meet: one of each sort, or one job
  asked for twice. More than one exit to read passes the limit of one.
* Parses: two requests overlap or follow each other; one of them stops after the sheet. Every stage of one
  can fall between any two statements of the other.

Deadlock is not checked: every instance stops when its requests are used up or all turns have ended.

### Fairness

TurnPipeline: weak fairness per turn of the driver, of the pipeline, of the heavy task and of the client's
reading: tokio polls every task that is ready; the model client and the database have timeouts, so an await
returns; a client that does not hang up reads its socket. No fairness for requests, hang-ups, faults or
panics, and none that would decide which branch a step takes. A pipeline that loops over tools ends because
of max_tool_rounds, not because of fairness.

ModuleExtraction: weak fairness of a job that was let through (it is spawned, or its handler is polled), of
loading, reading and saving, and of the tail of a turn: a model answers or times out, a statement returns.
None for the requests and for crashes; JobAnswered makes an exception of faults.

StagedParse: weak fairness of the steps of a parse that was spawned, and of the look of a stream at the row,
which a timer repeats every 750 ms. None for requests, for clients and for crashes.

## 5. What is proved

Checked by tlapm for every value of the constants that meets the named assumptions (sets of policies and
signals are subsets of those the code knows, bounds are natural numbers, the capacity is positive, NoSched
is no scheduled event).

* `WorldTimeProofs`. **TypeCorrect.** **NeverFiredEarly**: any tasks, any interleaving, any failure.
  NoEarlyFire is not inductive: a task carries its list of due events across statements. FireInv adds that
  every event with a log entry, and every event in the list of a task that is firing, has a row whose due
  tick the logged tick (or the tick of the task's copy) has reached; a row once there keeps its due tick
  (RowsStay). Two more for any overlap: **FiredAfterAdvance**, by BackInv: a task that fires has its own
  advance in the log (OwnHand), so that what it fires stands behind that entry at the same tick; and
  **ScheduledOnce**: the log only grows, and an event is inserted once and marked due once, with one due
  tick. What two tasks can spoil is the next number, and with it an entry; section 6 tells of it. The other
  theorems assume one caller: requests do not overlap. **AloneMonotone**: the tick
  never falls, whatever fails. CopyInv says that the copy of a task in the middle of a request is the row,
  which is exactly what a second task destroys. **AloneNothingOverdue** and **AloneFiresOnce** speak of runs
  without a failed statement and rest on LoneInv: the log is behind the row or on the task's path to it
  (LogBehind), what a task holds as due is pending and due (DueHeld), what the tick has passed is settled or
  in that list (PassedSettles), and there is one log entry for what is marked, or about to be (LoggedOnce).
  **AloneContextComplete**: MarkInv bounds the watermark by the row and says that whatever lies behind it was
  listed; that a listing within the limit leaves nothing out is a fact about cardinalities (ListsAll).
  **AloneImplementsTimeline**, with MaxFaults = 0: every step of the spine is a step of Timeline or a
  stutter; OrderInv says that the entries at the present tick have a smaller event_seq than the next one,
  with the exception of the initialisation, which takes event_seq 1 while the row says 0. The run shows the
  same with one failed statement. Two are beyond it: TLC finds that an advance whose due entry was skipped,
  and the next handler dropped in the middle, leave entries ahead of the row.
* `TurnPipelineProofs`, any number of turns. **TypeCorrect**; TypeOK includes the capacity of both channels.
  It needs HandOK: what the driver is about to send is an event that becomes a frame. **LifecycleForward**:
  the heavy task and the pipeline write the same column, and it goes forward whatever fails or panics.
  SpawnInv carries it: a client that has not asked has no driver (AskInv), a driver that has not loaded the
  transcript has no pipeline, so that none is spawned twice (StartInv), there is no row before the
  pipeline's save, the heavy task runs only when the pipeline has ended, and only the heavy task completes
  the row (LifeInv). **CancelHolds**: Doomed (the token has fired, there is no row, and the pipeline is
  where it can only reach the check, the failure or the end) is kept by every step, and nobody takes a token
  back (TokenStep). **RememberedUnlessFailed** and **RememberedAlways** (no failure so far, no failure ever):
  MemoryInv follows an end from the pipeline to the player. Wherever it is on its way (Said: in the channel,
  in the driver's hand, in the stream, heard), the turn has its row and will not move the party again
  (ToldInv), because only the pipeline says it, after the save (SaidStep); who asks has heard it (AskedInv);
  and what the new turn then loads contains it (ReadInv). **ContractKept**: where nothing fails, every step of
  any turn is a step of TurnContract for that turn or none (StepsAreSteps); TraceInv keeps the arms of the
  status apart, and ErrorInv ties an error on its way to the trace. The run shows the same for one turn, with
  the contract's liveness; the theorem is about safety, with any number of turns in any overlap. Two
  results hold with any number of faults: **ContractUntilFailure**, every step from a state without a fault
  is one of the contract, and **FateIsSettled**, the status of a turn moves as in the contract for ever
  (OwnStep, which asks nothing of the faults); what a fault breaks is what a client may be told. **EveryStepNears** and
  **NobodyWaitsInVain** are the parts of liveness that need no fairness. Work(t) counts the statements a turn
  has before it, weighted so that a message costs more before it is sent than behind it; every step of any
  task lowers it for one turn and for no other (Less, OwnNears). AtRest(t) writes out the guards of the four
  fair actions; a turn at rest is over, because a driver stops reading only with its channel shut or at the
  word of a pipeline that has nothing left to say (EndInv), a driver that is through has reported an outcome
  (AnswerInv), and the row of a pipeline that has ended has a heavy task (FinishInv).
* `InteractionProofs`. **TypeCorrect.** **StaleChecksStayUnanswered**, for any number of requests in any
  interleaving. The generation is the reason, and AgeInv says how: a check that was there when a frame
  closed is older than the generation (LeftOld). To keep that, no row may be newer than the generation
  (RowOld), nor may a generation that a request has read (SeenOld); rows above the counter are empty
  (RowFresh); and a request that is about to insert a check holds a number that is in nobody else's hands
  (Minted): otherwise its insert could give an old row a new generation. Then whatever the four actions that
  take up a check choose from Answerable is not in `left`.
* `InteractionAloneProofs`, any number of requests, rows, frames and failures; what holds while requests do
  not overlap. LoneInv: one request is in flight. **InputAlwaysClean**: CleanInv follows a reconcile from
  statement to statement; the generation it has read is the session's because nobody is there to advance it,
  and nothing but reconcile leads to where input is routed (OnlyReconcile). **SettledOnceAlways**: the two
  counters of a check are bounded by what stands between it and the next settlement (SettleInv). A row whose
  check is open has at most `faults` settlements, unless it is in the hands of the request that is closing
  it (OpenOnce); a contract without a result has as many applications at most, unless a request is between
  effects and result (BareOnce); what a request is about to roll is such a row (InHand); new numbers are
  untouched (FreshInv, MintedNew). Whatever leaves a check open after its effects or its result is a
  failure, and raises the bound by one. **ClosedFramesChildless**: without failures a
  frame that has an open child is not closed unless its cascade is about to begin (Covered); who is about to
  give a gate to a frame has a live one in hand, and a gate reopened by an answer is no child of a closed one
  (Held). That a check's gate has no frame for its owner follows from what rows ask for (ChoiceRows,
  CheckRows). **OneAnswerableAlways**: whatever fails, the player's open checks are one at most, for who
  inserts one has cancelled all (AskedInv); an effect check is never among those that a reconcile leaves
  open. Without failures ExtraInv follows the effect check of a hit: there is one at most (Stage), it is the
  newest row when the bundle looks for it, so the bundle takes it up and closes it, and beside it a player's
  check is open only while a bundle is rolled (InBundle). The last part is about requests that do overlap,
  with any failures: **ClosedForGood**, the generation never falls and a check that was closed stays closed,
  with the row, owner and generation it had; and **OneSettlementPerCall**, for finitely many requests: the
  effects of a check are applied, and its result written, at most once for every request made. CallInv counts
  for each check the settlements so far and the requests that may still make one (Appliers, Recorders); a
  step that settles takes its request out of that set (StepPays, PaidFor). So the double settlement that the
  overlap of two answers allows is never a third one.

* `SceneProgressProofs`, any module graph, any number of turns at once and of faults, any limit.
  **TypeCorrect**; LocalsOK says which locals are set where they are used. **EarnedAlways**: IInv adds LogOK
  (every unlock in the log was earned and leads to the scene that follows), for Earned is not inductive: a
  move is decided by what some turn, long over, put into the log. **UnlockOnceAlways**: Alone (turns have
  overlapped, or one is in flight) and OnceInv: a scene left through its unlock has a record of that in the
  log, or a turn is about to append it, or the record was lost (LeftOnce); and who is about to leave it so
  is the first (FirstOut). That pending_unlock_target finds the record needs the latest unlock to exist
  (LastIndex) and the log to be within the limit. **AdvanceTakenAlways** and **LogFollowsPartyAlways** speak of
  undisturbed sessions. The first needs that such a turn plays the scene the party is in until its navigator
  has read it (PlaysScene), so that its unlock is out of that scene, and that a turn with an unlock in the
  log is somewhere between the objectives and the move (OnItsWay). The second (Following) has the log
  connected, and leading to the party unless one move is made and not logged yet; that turn's move starts
  where the log ends. **ProgressInOrder**, for any overlap and any failure: no event is in the log twice, a
  resolution has its evidence, an unlock stands behind the resolution it rests on unless a fault took that
  one, and a scene that was left through its unlock has the unlock in the log. ChainInv adds what a turn on
  its way has put there before it (ChainAhead); that nothing is appended twice is append_domain_event's
  silence on a known event_id, which is also what loses the move of sp_return.

* `ObligationsProofs`, any catalog of hooks, any number of turns, rounds, tool calls and faults.
  **TypeCorrect.** **HandledBeforeNarration**, under any overlap: EarlierDuesHandled speaks of the moment
  after a narration, and HandledInv carries it there from the moment the debts were loaded: what was open
  then and still is stands in the ledger unwaived, or in the rows about to be written, or was reopened and
  noted (Kept); a round that is not held back and calls no tool has an empty ledger (Clear), and a turn that
  is about to write or to admit has called one (Calling). RowStep says what any step of any turn can do to a
  row, and Elsewhere that it does nothing to the memory of another turn. **CarriedOverAlways** needs no more
  than what ends a turn. **OneOpenPerHookAlways**, **SettledAlways**, **NotCalledAgainAlways** hold while
  turns do not overlap. AloneInv is why: one turn is active (OneAtATime), so the rows agree with its ledger:
  what blocks is open or was never written (Standing), what is about to be waived is open and what is about
  to be resolved has left the ledger (Written), and the keys an admission has read are those of the rows
  (Read). Two hooks of one key, which the run leaves out, are covered.
* `ModuleExtractionProofs`, any graph of scenes, any tasks and faults. **TypeCorrect**, with the limit on
  exits. **RowClosed** and **KeepsWork**: RowInv adds that every copy is closed, that a copy that is not
  stale contains the row (Current), and that a turn's map is within the graph as long as nothing was
  overtaken; ReadGraph says that a reading of scenes keeps a graph closed and takes nothing away.
  **PartyStays** is from the same invariant. **OneRuns**: JobInv, for every kind without a race, has one
  request between its check and its end, and the row says running while it runs. **RunningIsRun**: a row
  says running only while a job runs, or after the end of one was not recorded. **ReadyAroundAlways**:
  GoodInv has every graph, copies included, hold the scenes of the parse and the exits of what was read (a
  read scene that is merged keeps its links); ArrivalInv follows the tail of a turn from exit to exit: what
  is not read yet around the party's scene is in the list that the turn still has before it (Around).
  **EveryStepNears**: every step but a crash lowers what one task has left to do and raises no other's; a
  crash raises none and uses up a fault. **NoJobIsForgotten**: without failures a queued or running job has a
  task at a place that waits for nobody, also when it was queued twice.
* `StagedParseProofs`, any number of parses in any overlap. **TypeCorrect.** **VerdictHolds**,
  **IdentityKept**, **SheetKept** rest on Ordered: where a parse is, what its status says, what its row says
  and what it has written agree (Placed, Own, Author), so that what a parse puts in the place of another's
  work brings its own. **ReadOnce** and **PackFollows** (no run checks OneSource and PackOfSheet) hold for
  parses that do not overlap: kernel, sheet and pack are of one reading. **RowNeverBack**: what a client reads
  of a job only advances, whatever fails and overlaps; SaidInv places each report behind the one before it.
  **EveryStepNears** as above, with 19 steps for a parse and its stream; **NoStreamWaitsInVain**: without
  failures an open stream has the verdict in the row or a parse that goes on by itself.

These formulas are proved and no run lists them: PartyOnMap, OneRunner, OneSource, PackOfSheet, FateSettled,
KeptUntilFailure, StepsNear, RestIsTheEnd, TasksNear, JobsAtWork, ParsesNear, RowOnward, Followed,
FiredBehindAdvance, ScheduledForward, ChainOfProgress, ChecksForward and SettledPerCall. TLC finds no
violation of them on instances like those of section 4, with two callers for WorldTime and two requests that
overlap for InteractionLifecycle. TickMonotone is refuted for two tasks (wt_backward) and proved for one (AloneMonotone).

Only model-checked: liveness (TurnContract's, DriverEnds, JobAnswered, StreamEnds). Liveness and ENABLED are
beyond the prover. What the liveness of TurnPipeline, ModuleExtraction and StagedParse rests on is proved all
the same: every step lowers a number that cannot fall below zero, and while something is still due somebody
is at a place where a fair action can be taken. What is left to TLC is the inference from the two to `<>`,
which goes through ENABLED.

### Not modelled

Text and prompts, the client of the language model, search, formulas of characters, the harness: they
compute and keep no state that two tasks share. Two parts that do have state are left aside because nothing
that is served moves it: the ladders of threads and promises (commit_story_writes starts from an empty story
and no served path opens one) and the contracts of objects (made by orchestrate_turn alone, which the
pipeline of trpg-gm replaces). Combat rounds, the evaluator of authored rules and the projections of
knowledge are planned. The models cover a small share of the lines of the repository: most of it is prompts,
text, JSON shapes, SQL columns and tests, which they abstract.

## 6. What the code does otherwise than it says

The three refutations above are recorded under `findings` with the lines that disagree. Further divergences
were met while modelling; no run is spent on them, and each is a hazard with a note or is told here.

* Cancelled turns: the driver says `cancelled` and that nothing was kept when its token fires after the
  pipeline's last look at it (`turn_driver.rs:231`, `execute.rs:269`); the turn is saved all the same.
  CancelInTime is the part that holds.
* The scene of a turn is read before the guard waits for the previous turn (`trpg-api/src/lib.rs:1581`),
  which is there to prevent that.
* A retroactive debt does not reach the list of the next turn as `turn_loop.rs:2962` says and
  `tests/retro_debt_e2e.rs` shows for two turns of one GmLoop: the API builds a new loop for every request
  (`trpg-api/src/lib.rs:1515`). What is left is the text of the carry-over memory.
* A waiver for one turn never lapses in the table (`obligations.rs:103`), and scene changes of the pipeline
  reopen nothing (`turn_loop.rs:2276`).
* The jobs of a module do overwrite each other: the comment says "serially, no concurrent overwrite"
  (`trpg-api/src/lib.rs:364`), but the bundle is read (`scene_navigation.rs:257`), worked on for minutes and
  written back whole (`:389`), and the tail of a turn does the same. WorkKept excepts it and says that
  nothing else loses work.
* "No roll was committed; the pending check is still open" (`gate.rs:88`) is what the model of a turn is told
  of every error of the gate phase, one after the effects of the check have been applied included: then the
  next answer applies them again. SettledOnce counts that as the price of a failure.
* Stage 0 of a parse is never fatal, though the module says "Stage 0/1 failures are fatal" (`staged.rs:12`):
  plan_phase takes the failure of its model for an empty plan. A failing upsert of Stage 1 is ignored, and
  the job ends `done`.
* "An already-done stage is never rolled back" (`staged.rs:11`,
  `docs/superpowers/specs/2026-06-09-progressive-parsing-design.md:144`): Stage 2 replaces the kernel, and
  when its reading of the resolution fails, the identity of Stage 0 is gone. IdentityServed has that
  exception.
* When two requests write events at once, each from its own copy of event_seq, the entry of a due event can
  meet a number that is taken. The insert is refused, the error is dropped (`trpg-time/src/lib.rs:178`) and
  the event is marked due all the same: its consequence is in no log. FiresOnce excludes that overlap;
  FiredBehindAdvance is what is left of it.
* A ruleset that is ingested again loses its kernel at Stage 0 already, and a parse that fails does not
  bring the old one back; two parses that overlap may leave the kernel of one and the pack of the other.

sp_return is the one that takes the longest way: the player names a scene, the party goes there and plays it
out in the same turn, the unlock takes it on, and the event of that second move has the event_id of the
first. Nothing fails and nothing overlaps. When the party comes back, the unlock counts as unused.
UnlockOnce is the part of the promise that does hold: once, unless the log did not take the move.
