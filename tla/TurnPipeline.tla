---------------------------- MODULE TurnPipeline ----------------------------
(***************************************************************************)
(* One game turn of the API, end to end, and the turns of a session beside *)
(* each other: the SSE handler and its driver (trpg-api), the pipeline     *)
(* task that interprets CANONICAL_TURN_PLAN (trpg-gm/execute), the heavy   *)
(* task it leaves behind, the row of turns with its pp_lifecycle, and the  *)
(* client that reads the stream or hangs up.                               *)
(*                                                                         *)
(* Three tasks serve a turn: the driver (handler included), the pipeline   *)
(* and the heavy tail.  The pipeline talks to the driver over a bounded    *)
(* channel, the driver to the client over another; the driver tells the    *)
(* pipeline to stop through a cancellation token.  An action is one await  *)
(* of one task with the local code that follows it.                        *)
(***************************************************************************)
EXTENDS Integers, Sequences, FiniteSets

CONSTANTS
    Turns,      \* the turns that may be played in the session
    Policies,   \* the cancellation policies a request may name
    Signals,    \* the ways an agent loop may end
    Modules,    \* whether a turn is played with a module: a set of BOOLEANs
    MaxRounds,  \* max_tool_rounds
    MaxDeltas,  \* bound: text fragments a model call streams
    Cap,        \* capacity of the two channels (128 in the code)
    MaxHangUps, \* bound: clients that hang up
    MaxFaults   \* bound: failed statements and panics

AllPolicies == {"cancel_before", "continue_after", "always_continue"}
AllSignals  == {"narration", "roll"}

ASSUME PoliciesAssumption == Policies \subseteq AllPolicies
ASSUME SignalsAssumption  == Signals \subseteq AllSignals
ASSUME ModulesAssumption  == Modules \subseteq BOOLEAN
ASSUME LimitsAssumption   == /\ MaxRounds \in Nat /\ MaxDeltas \in Nat
                             /\ Cap \in Nat \ {0} /\ MaxFaults \in Nat
                             /\ MaxHangUps \in Nat

VARIABLES
    rows,   \* the turns of the session, in the order of created_at
    scene,  \* session scene: the how-manieth scene the party is in
    store,  \* what else is durable about a turn
    pipe,   \* the pipeline task of a turn
    heavy,  \* its heavy task
    chan,   \* the two channels and the token
    drive,  \* the handler and driver task
    client, \* the client's end of the stream
    faults  \* what is used up of MaxFaults

vars == <<rows, scene, store, pipe, heavy, chan, drive, client, faults>>

Lives  == {"none", "streaming", "critical_done", "complete"}
Events == {"delta", "awaiting", "scene", "postprocess", "complete",
           "complete_roll", "failed"}
Frames == {"text", "roll", "done", "error"}
Early  == {"head", "navigate", "navigated", "guard", "context", "round",
           "stream", "tool", "forced", "roll", "check"}
Late   == {"verify", "critical_scene", "scene_send", "save", "emit",
           "complete", "lifecycle", "finalize"}
DriveLabels == {"idle", "load_scene", "load_transcript", "next", "send", "drain",
                "mark", "ended"}
Outcomes == {"none", "completed", "cancelled", "continued"}
Guards == {"none", "waiting", "passed", "waited", "gave_up"}
Labels == {"idle", "fail", "fail_send", "ended"} \cup Early \cup Late

\* pp_lifecycle_rank.
Rank(life) == CASE life = "streaming"     -> 1
                [] life = "critical_done" -> 2
                [] life = "complete"      -> 3
                [] OTHER                  -> 0

Terminal == {"complete", "complete_roll", "failed"}

\* marks_state_mutation.
Mutating == Terminal \cup {"postprocess", "awaiting", "scene"}

\* The last frame an event becomes; "none" for TurnComplete of a roll.
FrameOf(e) == CASE e = "awaiting"      -> "roll"
                [] e = "complete"      -> "done"
                [] e = "complete_roll" -> "none"
                [] e = "failed"        -> "error"
                [] OTHER               -> "text"

-----------------------------------------------------------------------------
Init ==
    /\ rows = <<>>
    /\ scene = 0
    /\ store = [t \in Turns |-> [life |-> "none", trace |-> "none", failure |-> FALSE,
                                 marker |-> FALSE]]
    /\ pipe = [t \in Turns |-> [pc |-> "idle", signal |-> "narration", rounds |-> 0,
                                deltas |-> 0, guard |-> "none", moved |-> 0]]
    /\ heavy = [t \in Turns |-> "idle"]
    /\ chan = [t \in Turns |-> [events |-> <<>>, open |-> TRUE, cancel |-> FALSE,
                                frames |-> <<>>]]
    /\ drive = [t \in Turns |-> [pc |-> "idle", hand |-> "delta", mutated |-> FALSE,
                                 policy |-> "cancel_before", module |-> FALSE,
                                 outcome |-> "none", view |-> 0, history |-> {}]]
    /\ client = [t \in Turns |-> [pc |-> "idle", asked |-> {}, heard |-> {}]]
    /\ faults = 0

Goto(t, l) == pipe' = [pipe EXCEPT ![t].pc = l]

\* A statement of the task fails, or the task panics.
Fault == faults < MaxFaults /\ faults' = faults + 1

-----------------------------------------------------------------------------
(* The client *)

\* It sends a turn, having heard the "done" phase of the turns in "asked": that
\* phase closes a narration and, with a reason, a request for a roll.
Request(t) ==
    /\ client[t].pc = "idle"
    /\ client' = [client EXCEPT ![t].pc = "reading",
                                ![t].asked = {u \in Turns : {"done", "roll"} \cap client[u].heard # {}}]
    /\ \E p \in Policies, m \in Modules :
           drive' = [drive EXCEPT ![t].pc = "load_scene", ![t].policy = p, ![t].module = m]
    /\ UNCHANGED <<rows, scene, store, pipe, heavy, chan, faults>>

Read(t) ==
    /\ client[t].pc = "reading"
    /\ chan[t].frames # <<>>
    /\ client' = [client EXCEPT ![t].heard = @ \cup {Head(chan[t].frames)}]
    /\ chan' = [chan EXCEPT ![t].frames = Tail(@)]
    /\ UNCHANGED <<rows, scene, store, pipe, heavy, drive, faults>>

HangUp(t) ==
    /\ client[t].pc = "reading"
    /\ Cardinality({u \in Turns : client[u].pc = "gone"}) < MaxHangUps
    /\ client' = [client EXCEPT ![t].pc = "gone"]
    /\ chan' = [chan EXCEPT ![t].frames = <<>>]
    /\ UNCHANGED <<rows, scene, store, pipe, heavy, drive, faults>>

-----------------------------------------------------------------------------
(* The driver *)

LoadScene(t) ==
    /\ drive[t].pc = "load_scene"
    /\ drive' = [drive EXCEPT ![t].pc = "load_transcript", ![t].view = scene]
    /\ UNCHANGED <<rows, scene, store, pipe, heavy, chan, client, faults>>

\* Faulty variant: only rows past their critical part are history.
LoadTranscriptCritical(t) ==
    /\ drive[t].pc = "load_transcript"
    /\ drive' = [drive EXCEPT ![t].pc = "next",
                              ![t].history = {u \in {rows[i] : i \in 1 .. Len(rows)} :
                                                  Rank(store[u].life) >= 2}]
    /\ Goto(t, "head")
    /\ UNCHANGED <<rows, scene, store, heavy, chan, client, faults>>

\* load_recent_transcript, then execute_turn spawns the pipeline.  The limit of
\* 12 turns is out of the reach of the instances.
LoadTranscript(t) ==
    /\ drive[t].pc = "load_transcript"
    /\ drive' = [drive EXCEPT ![t].pc = "next",
                              ![t].history = {rows[i] : i \in 1 .. Len(rows)}]
    /\ Goto(t, "head")
    /\ UNCHANGED <<rows, scene, store, heavy, chan, client, faults>>

Gone(t) == client[t].pc = "gone"

CancelNow(t, mutated) == drive[t].policy = "cancel_before" /\ ~mutated

\* handle_disconnect up to its first await: fire the token and drop the stream,
\* or go on reading to the terminal event.
Disconnect(t, mutated) ==
    IF CancelNow(t, mutated)
    THEN /\ chan' = [chan EXCEPT ![t].cancel = TRUE, ![t].open = FALSE,
                                 ![t].events = <<>>]
         /\ drive' = [drive EXCEPT ![t].pc = "ended", ![t].outcome = "cancelled",
                                   ![t].mutated = mutated]
    ELSE /\ drive' = [drive EXCEPT ![t].pc = "drain", ![t].mutated = mutated]
         /\ UNCHANGED chan

\* Sender::closed comes first in the biased select.
SeeClosed(t) ==
    /\ drive[t].pc = "next"
    /\ Gone(t)
    /\ Disconnect(t, drive[t].mutated)
    /\ UNCHANGED <<rows, scene, store, pipe, heavy, client, faults>>

\* Takes an event; one that becomes no frame is done with at once.
TakeEvent(t) ==
    /\ drive[t].pc = "next"
    /\ ~Gone(t)
    /\ chan[t].events # <<>>
    /\ LET e == Head(chan[t].events)
           m == drive[t].mutated \/ e \in Mutating
       IN /\ chan' = [chan EXCEPT ![t].events = Tail(@)]
          /\ drive' = IF FrameOf(e) = "none"
                      THEN [drive EXCEPT ![t].pc = "ended", ![t].mutated = m,
                                         ![t].outcome = "completed"]
                      ELSE [drive EXCEPT ![t].pc = "send", ![t].hand = e,
                                         ![t].mutated = m]
    /\ UNCHANGED <<rows, scene, store, pipe, heavy, client, faults>>

StreamOver(t) == chan[t].events = <<>> /\ pipe[t].pc = "ended"

SeeEnd(t) ==
    /\ drive[t].pc = "next"
    /\ ~Gone(t)
    /\ StreamOver(t)
    /\ drive' = [drive EXCEPT ![t].pc = "ended", ![t].outcome = "completed"]
    /\ UNCHANGED <<rows, scene, store, pipe, heavy, chan, client, faults>>

SendFrame(t) ==
    /\ drive[t].pc = "send"
    /\ ~Gone(t)
    /\ Len(chan[t].frames) < Cap
    /\ chan' = [chan EXCEPT ![t].frames = Append(@, FrameOf(drive[t].hand))]
    /\ drive' = IF drive[t].hand \in Terminal
                THEN [drive EXCEPT ![t].pc = "ended", ![t].outcome = "completed"]
                ELSE [drive EXCEPT ![t].pc = "next"]
    /\ UNCHANGED <<rows, scene, store, pipe, heavy, client, faults>>

SendRefused(t) ==
    /\ drive[t].pc = "send"
    /\ Gone(t)
    /\ Disconnect(t, drive[t].mutated)
    /\ UNCHANGED <<rows, scene, store, pipe, heavy, client, faults>>

\* Faulty variant: only a terminal event ends the draining.
DrainUntilTerminal(t) ==
    /\ drive[t].pc = "drain"
    /\ chan[t].events # <<>>
    /\ chan' = [chan EXCEPT ![t].events = Tail(@)]
    /\ drive' = IF Head(chan[t].events) \in Terminal
                THEN [drive EXCEPT ![t].pc = "mark"]
                ELSE drive
    /\ UNCHANGED <<rows, scene, store, pipe, heavy, client, faults>>

\* drain_to_terminal.
Drain(t) ==
    /\ drive[t].pc = "drain"
    /\ \/ /\ chan[t].events # <<>>
          /\ chan' = [chan EXCEPT ![t].events = Tail(@)]
          /\ drive' = IF Head(chan[t].events) \in Terminal
                      THEN [drive EXCEPT ![t].pc = "mark"]
                      ELSE drive
       \/ /\ StreamOver(t)
          /\ drive' = [drive EXCEPT ![t].pc = "mark"]
          /\ UNCHANGED chan
    /\ UNCHANGED <<rows, scene, store, pipe, heavy, client, faults>>

Mark(t) ==
    /\ drive[t].pc = "mark"
    /\ drive' = [drive EXCEPT ![t].pc = "ended", ![t].outcome = "continued"]
    /\ chan' = [chan EXCEPT ![t].open = FALSE, ![t].events = <<>>]
    /\ \/ /\ store' = [store EXCEPT ![t].marker = drive[t].policy # "always_continue"]
          /\ UNCHANGED faults
       \/ Fault /\ UNCHANGED store
    /\ UNCHANGED <<rows, scene, pipe, heavy, client>>

-----------------------------------------------------------------------------
(* The pipeline *)

\* Faulty variants: no bound; no notice of a receiver that is gone.
SendUnbounded(t, e) ==
    IF chan[t].open THEN chan' = [chan EXCEPT ![t].events = Append(@, e)]
    ELSE UNCHANGED chan

SendStubborn(t, e) ==
    /\ chan[t].open
    /\ Len(chan[t].events) < Cap
    /\ chan' = [chan EXCEPT ![t].events = Append(@, e)]

\* Sender::send: waits for room, and is refused (and ignored) once the
\* receiver is gone.
Send(t, e) ==
    IF chan[t].open
    THEN /\ Len(chan[t].events) < Cap
         /\ chan' = [chan EXCEPT ![t].events = Append(@, e)]
    ELSE UNCHANGED chan

\* TurnStarted and the head up to ModeInference, which may fail the turn.
HeadPhases(t) ==
    /\ pipe[t].pc = "head"
    /\ \E l \in {"navigate", "fail"} : Goto(t, l)
    /\ UNCHANGED <<rows, scene, store, heavy, chan, drive, client, faults>>

\* A turn of a module may move the party before (phase_pre_context_scene_
\* navigate) and after the narration (phase_scene_navigate_critical).
Move(t, l) ==
    /\ drive[t].module
    /\ scene' = scene + 1
    /\ pipe' = [pipe EXCEPT ![t].pc = l, ![t].moved = scene + 1]

PreContextNavigate(t) ==
    /\ pipe[t].pc = "navigate"
    /\ \/ Move(t, "navigated")
       \/ Goto(t, "guard") /\ UNCHANGED scene
    /\ UNCHANGED <<rows, store, heavy, chan, drive, client, faults>>

SendPreContext(t) ==
    /\ pipe[t].pc = "navigated"
    /\ Send(t, "scene")
    /\ Goto(t, "guard")
    /\ UNCHANGED <<rows, scene, store, heavy, drive, client, faults>>

\* await_prev_turn_critical: the last row has passed its critical part.
Reached == rows = <<>> \/ Rank(store[rows[Len(rows)]].life) >= 2

Poll(t) ==
    /\ pipe[t].pc = "guard"
    /\ IF Reached
       THEN pipe' = [pipe EXCEPT ![t].pc = "context",
                                 ![t].guard = IF @ = "waiting" THEN "waited" ELSE "passed"]
       ELSE pipe' = [pipe EXCEPT ![t].guard = "waiting"]
    /\ UNCHANGED <<rows, scene, store, heavy, chan, drive, client, faults>>

\* The deadline passes.
GiveUp(t) ==
    /\ pipe[t].pc = "guard"
    /\ pipe[t].guard = "waiting"
    /\ pipe' = [pipe EXCEPT ![t].pc = "context", ![t].guard = "gave_up"]
    /\ UNCHANGED <<rows, scene, store, heavy, chan, drive, client, faults>>

\* The context is compiled, or the turn fails.
ContextAssembly(t) ==
    /\ pipe[t].pc = "context"
    /\ \E l \in {"round", "fail"} : Goto(t, l)
    /\ UNCHANGED <<rows, scene, store, heavy, chan, drive, client, faults>>

Cancelled(t) == chan[t].cancel

\* The head of a round: the token, the last round, a model call that fails.
Round(t) ==
    /\ pipe[t].pc = "round"
    /\ IF Cancelled(t) THEN Goto(t, "check")
       ELSE IF pipe[t].rounds >= MaxRounds THEN Goto(t, "forced")
       ELSE \/ pipe' = [pipe EXCEPT ![t].pc = "stream", ![t].rounds = @ + 1]
            \/ Goto(t, "forced")
    /\ UNCHANGED <<rows, scene, store, heavy, chan, drive, client, faults>>

Streaming(t) == pipe[t].pc \in {"stream", "forced"}

\* next_stream_event looks at the token first.
StreamCancelled(t) ==
    /\ Streaming(t)
    /\ Cancelled(t)
    /\ Goto(t, "check")
    /\ UNCHANGED <<rows, scene, store, heavy, chan, drive, client, faults>>

\* A turn with a module holds its text back to the end.
StreamText(t) ==
    /\ Streaming(t)
    /\ ~Cancelled(t)
    /\ ~drive[t].module
    /\ pipe[t].deltas < MaxDeltas
    /\ Send(t, "delta")
    /\ pipe' = [pipe EXCEPT ![t].deltas = @ + 1]
    /\ UNCHANGED <<rows, scene, store, heavy, drive, client, faults>>

StreamTool(t) ==
    /\ pipe[t].pc = "stream"
    /\ ~Cancelled(t)
    /\ Goto(t, "tool")
    /\ UNCHANGED <<rows, scene, store, heavy, chan, drive, client, faults>>

\* The tool runs; then another round, or the player has to roll.
RunTool(t) ==
    /\ pipe[t].pc = "tool"
    /\ \/ Goto(t, "round")
       \/ "roll" \in Signals /\ Goto(t, "roll")
    /\ UNCHANGED <<rows, scene, store, heavy, chan, drive, client, faults>>

\* The stream ends: a narration, or (open obligations) another round.
StreamEnds(t) ==
    /\ Streaming(t)
    /\ ~Cancelled(t)
    /\ \/ "narration" \in Signals /\ Goto(t, "check")
       \/ pipe[t].pc = "stream" /\ Goto(t, "round")
    /\ UNCHANGED <<rows, scene, store, heavy, chan, drive, client, faults>>

AwaitRoll(t) ==
    /\ pipe[t].pc = "roll"
    /\ Send(t, "awaiting")
    /\ pipe' = [pipe EXCEPT ![t].pc = "check", ![t].signal = "roll"]
    /\ UNCHANGED <<rows, scene, store, heavy, drive, client, faults>>

\* Faulty variant: the pipeline goes on with a token that has fired.
CheckIgnored(t) ==
    /\ pipe[t].pc = "check"
    /\ Goto(t, "verify")
    /\ UNCHANGED <<rows, scene, store, heavy, chan, drive, client, faults>>

\* The one look at the token between the loop and the tail.
CheckToken(t) ==
    /\ pipe[t].pc = "check"
    /\ Goto(t, IF Cancelled(t) THEN "ended" ELSE "verify")
    /\ UNCHANGED <<rows, scene, store, heavy, chan, drive, client, faults>>

\* select_phases: only a narration navigates.
VerifyAfterStream(t) ==
    /\ pipe[t].pc = "verify"
    /\ Send(t, "postprocess")
    /\ Goto(t, IF pipe[t].signal = "narration" /\ drive[t].module
               THEN "critical_scene" ELSE "save")
    /\ UNCHANGED <<rows, scene, store, heavy, drive, client, faults>>

SceneNavigate(t) ==
    /\ pipe[t].pc = "critical_scene"
    /\ \/ Move(t, "scene_send")
       \/ Goto(t, "save") /\ UNCHANGED scene
    /\ UNCHANGED <<rows, store, heavy, chan, drive, client, faults>>

SendScene(t) ==
    /\ pipe[t].pc = "scene_send"
    /\ Send(t, "scene")
    /\ Goto(t, "save")
    /\ UNCHANGED <<rows, scene, store, heavy, drive, client, faults>>

\* phase_finalize only logs a failure of save_turn.
SaveTurn(t) ==
    /\ pipe[t].pc = "save"
    /\ Goto(t, IF pipe[t].signal = "narration" /\ drive[t].module
               THEN "emit" ELSE "complete")
    /\ \/ /\ rows' = Append(rows, t)
          /\ store' = [store EXCEPT ![t].life = "streaming"]
          /\ UNCHANGED faults
       \/ Fault /\ UNCHANGED <<rows, store>>
    /\ UNCHANGED <<scene, heavy, chan, drive, client>>

EmitText(t) ==
    /\ pipe[t].pc = "emit"
    /\ Send(t, "delta")
    /\ Goto(t, "complete")
    /\ UNCHANGED <<rows, scene, store, heavy, drive, client, faults>>

\* Faulty variant: the heavy task starts before the row is critical_done.
TurnCompleteAndSpawn(t) ==
    /\ pipe[t].pc = "complete"
    /\ Send(t, IF pipe[t].signal = "narration" THEN "complete" ELSE "complete_roll")
    /\ heavy' = [heavy EXCEPT ![t] = "running"]
    /\ Goto(t, "lifecycle")
    /\ UNCHANGED <<rows, scene, store, drive, client, faults>>

TurnComplete(t) ==
    /\ pipe[t].pc = "complete"
    /\ Send(t, IF pipe[t].signal = "narration" THEN "complete" ELSE "complete_roll")
    /\ Goto(t, "lifecycle")
    /\ UNCHANGED <<rows, scene, store, heavy, drive, client, faults>>

\* set_turn_pp_lifecycle updates the row if there is one.
Advanced(t, to) ==
    store' = [store EXCEPT ![t].life = IF @ = "none" THEN @ ELSE to]

MarkCritical(t) ==
    /\ pipe[t].pc = "lifecycle"
    /\ Goto(t, "finalize")
    /\ \/ Advanced(t, "critical_done") /\ UNCHANGED faults
       \/ Fault /\ UNCHANGED store
    /\ UNCHANGED <<rows, scene, heavy, chan, drive, client>>

\* The trace and TurnFinalized, then the heavy task.
Finalized(t) ==
    /\ pipe[t].pc = "finalize"
    /\ store' = [store EXCEPT ![t].trace = "done"]
    /\ heavy' = [heavy EXCEPT ![t] = "running"]
    /\ Goto(t, "ended")
    /\ UNCHANGED <<rows, scene, chan, drive, client, faults>>

\* A head phase failed: failure_kind (of the row, if there is one), the trace
\* and the domain event, then the event.
FailTurn(t) ==
    /\ pipe[t].pc = "fail"
    /\ \/ /\ store' = [store EXCEPT ![t].failure = store[t].life # "none",
                                    ![t].trace = "failed"]
          /\ UNCHANGED faults
       \/ Fault /\ UNCHANGED store
    /\ Goto(t, "fail_send")
    /\ UNCHANGED <<rows, scene, heavy, chan, drive, client>>

SendFailed(t) ==
    /\ pipe[t].pc = "fail_send"
    /\ Send(t, "failed")
    /\ Goto(t, "ended")
    /\ UNCHANGED <<rows, scene, store, heavy, drive, client, faults>>

Panic(t) ==
    /\ pipe[t].pc \in Labels \ {"idle", "ended"}
    /\ Fault
    /\ Goto(t, "ended")
    /\ UNCHANGED <<rows, scene, store, heavy, chan, drive, client>>

\* spawn_heavy; a panic or a failed statement leaves critical_done behind.
HeavyTail(t) ==
    /\ heavy[t] = "running"
    /\ heavy' = [heavy EXCEPT ![t] = "ended"]
    /\ \/ Advanced(t, "complete") /\ UNCHANGED faults
       \/ Fault /\ UNCHANGED store
    /\ UNCHANGED <<rows, scene, pipe, chan, drive, client>>

-----------------------------------------------------------------------------
Client(t) == Request(t) \/ Read(t) \/ HangUp(t)

Driver(t) == \/ LoadScene(t) \/ LoadTranscript(t) \/ SeeClosed(t) \/ TakeEvent(t)
             \/ SeeEnd(t) \/ SendFrame(t) \/ SendRefused(t) \/ Drain(t) \/ Mark(t)

Pipeline(t) ==
    \/ HeadPhases(t) \/ PreContextNavigate(t) \/ SendPreContext(t) \/ Poll(t)
    \/ GiveUp(t) \/ ContextAssembly(t) \/ Round(t) \/ StreamCancelled(t)
    \/ StreamText(t) \/ StreamTool(t) \/ RunTool(t) \/ StreamEnds(t) \/ AwaitRoll(t)
    \/ CheckToken(t) \/ VerifyAfterStream(t) \/ SceneNavigate(t) \/ SendScene(t)
    \/ SaveTurn(t) \/ EmitText(t) \/ TurnComplete(t) \/ MarkCritical(t)
    \/ Finalized(t) \/ FailTurn(t) \/ SendFailed(t)

Next == \E t \in Turns : Client(t) \/ Driver(t) \/ Pipeline(t) \/ HeavyTail(t) \/ Panic(t)

\* The runtime schedules every task that can go on; model calls and statements
\* return (they have timeouts); a client that has not hung up reads.
Fairness == \A t \in Turns : /\ WF_vars(Driver(t)) /\ WF_vars(Pipeline(t))
                             /\ WF_vars(HeavyTail(t)) /\ WF_vars(Read(t))

Spec == Init /\ [][Next]_vars /\ Fairness

-----------------------------------------------------------------------------
(* Properties *)

StoreRow  == [life: Lives, trace: {"none", "failed", "done"}, failure: BOOLEAN,
              marker: BOOLEAN]
PipeRow   == [pc: Labels, signal: AllSignals, rounds: Nat, deltas: Nat, guard: Guards,
              moved: Nat]
ChanRow   == [events: Seq(Events), open: BOOLEAN, cancel: BOOLEAN, frames: Seq(Frames)]
DriveRow  == [pc: DriveLabels, hand: Events, mutated: BOOLEAN, policy: AllPolicies,
              module: BOOLEAN, outcome: Outcomes, view: Nat, history: SUBSET Turns]
ClientRow == [pc: {"idle", "reading", "gone"}, asked: SUBSET Turns, heard: SUBSET Frames]

\* Every variable has its type, and no channel exceeds its capacity.
TypeOK ==
    /\ rows \in Seq(Turns)
    /\ scene \in Nat
    /\ store \in [Turns -> StoreRow]
    /\ pipe \in [Turns -> PipeRow]
    /\ heavy \in [Turns -> {"idle", "running", "ended"}]
    /\ chan \in [Turns -> ChanRow]
    /\ \A t \in Turns : Len(chan[t].events) <= Cap /\ Len(chan[t].frames) <= Cap
    /\ drive \in [Turns -> DriveRow]
    /\ client \in [Turns -> ClientRow]
    /\ faults \in Nat

\* A token that fires before the one check between agent loop and tail is in
\* time: whatever stage the pipeline is in, the turn never gets a row
\* (execute.rs: a cancelled turn skips the tail, nothing partial persisted).
CancelInTime == \A t \in Turns :
    [](chan[t].cancel /\ pipe[t].pc \in Early => [](store[t].life = "none"))

\* No driver waits for ever on its pipeline: whoever hangs up and whatever the
\* pipeline has already said, the driver reports an outcome.
DriverEnds == \A t \in Turns : (drive[t].pc = "next") ~> (drive[t].pc = "ended")

\* pp_lifecycle only goes forward, whatever statement fails and whoever panics:
\* the heavy task and the pipeline write the same column.
LifecycleMonotone ==
    [][\A t \in Turns : Rank(store'[t].life) >= Rank(store[t].life)]_vars

Remembered(t, u) == u \in drive[t].history /\ drive[t].view >= pipe[u].moved

Loaded(t) == drive[t].pc \notin {"idle", "load_scene", "load_transcript"}

\* A player who waits for the end of a narration and then acts is not
\* forgotten: the new turn's transcript contains the old turn and its scene is
\* at least the one the old turn moved to (load_recent_transcript, P1-2).
NarrationRemembered == \A t \in Turns : Loaded(t) =>
    \A u \in client[t].asked : pipe[u].signal = "narration" => Remembered(t, u)

Contract == INSTANCE TurnContract WITH
    status <- [t \in Turns |->
        CASE store[t].life = "complete"     -> "finished"
          [] store[t].life # "none"
             /\ store[t].life # "complete"  -> "kept"
          [] store[t].life = "none"
             /\ store[t].trace = "failed"   -> "failed"
          [] store[t].life = "none" /\ store[t].trace # "failed"
             /\ pipe[t].pc = "ended"        -> "abandoned"
          [] pipe[t].pc = "idle"            -> "idle"
          [] OTHER                          -> "open"],
    told <- [t \in Turns |-> client[t].heard \ {"text"}]

\* The pipeline, the driver and the heavy task together keep the contract of
\* TurnContract, liveness included, when no statement fails.
ContractSpec == Contract!Spec
=============================================================================
