--------------------------- MODULE SceneProgress ---------------------------
(***************************************************************************)
(* Where the party is, and how a scene that was played out moves it on.    *)
(*                                                                         *)
(* A turn sets sessions.current_scene_id in four places: for the move that *)
(* the player names, before the context is assembled; in the assembly, for *)
(* a session that seems to have no scene; in the navigate_scene tool; and  *)
(* in the navigator after the narration, which first looks for an unlock   *)
(* that was earned and else asks a model. What happened is told by the     *)
(* append-only log of domain events: the objective of a scene is resolved, *)
(* its way on is unlocked, the party moved. An unlock is used up when the  *)
(* log holds the move that it led to.                                      *)
(*                                                                         *)
(* Both progression flags are on. Which evidence is admitted, what the     *)
(* player names and what the models answer are choices. The guard that     *)
(* waits for the turn before gives up after two seconds and lets a turn's  *)
(* named move pass unguarded, so turns may overlap in any way. Events of   *)
(* other kinds only use up the limit of the query sooner.                  *)
(***************************************************************************)
EXTENDS Naturals, Sequences, FiniteSets

CONSTANTS
    Scenes,     \* nodes of the module graph
    NoScene,    \* no scene
    Entry,      \* module_entry_scene_id
    Goals,      \* scenes with authored observations, so with an advance objective
    Next_Scene, \* resolve_next_scene: authored out-edge, or spine order, or NoScene
    Limit,      \* list_domain_events(session_id, 5000): the oldest so many events
    MaxTurns,   \* bound: turns of the session
    MaxAtOnce,  \* bound: turns in flight at once
    MaxFaults   \* bound: failing statements and turns that die

ASSUME SceneAssumption ==
    /\ NoScene \notin Scenes /\ Entry \in Scenes /\ Goals \subseteq Scenes
    /\ Next_Scene \in [Scenes -> Scenes \cup {NoScene}]
    /\ \A s \in Scenes : Next_Scene[s] # s
ASSUME BoundsAssumption ==
    Limit \in Nat /\ MaxTurns \in Nat /\ MaxAtOnce \in Nat /\ MaxFaults \in Nat

Turns    == 1..MaxTurns
SceneIds == Scenes \cup {NoScene}

VARIABLES
    scene,      \* sessions.current_scene_id
    log,        \* domain_events of the session, by seq
    pc,         \* where a turn is
    mine,       \* state_agent.scene_id: the scene a turn plays
    cur, tgt,   \* from and to of the move a turn is making
    gate,       \* the move is the progression-gated one
    faults,     \* faults so far
    due,        \* history: the scene whose unlock this turn put into the log
    toured,     \* history: turns in which the tool moved the party
    moves,      \* history: how often a scene was left through its unlock
    unlogged,   \* history: moves of the navigator (from, to, gated or not) that the log did not take
    earned,     \* history: scenes in which evidence for the objective was admitted
    overlapped  \* history: two turns have been in flight at once

locals == <<mine, cur, tgt, gate>>
past   == <<due, toured, moves, unlogged, earned, overlapped>>
vars   == <<scene, log, pc, locals, faults, past>>

Labels == {"idle", "head", "pre_set", "pre_append", "context", "loop", "progress", "unlock",
           "navigate", "decide", "set", "append", "narrated", "ended"}
Over   == {"narrated", "ended"}
Event  == [kind : {"moved", "resolved", "unlocked"}, turn : Turns, from : Scenes, to : SceneIds]

\* Every variable keeps its type: the party always is in a scene of the module, and a turn that
\* makes a move knows where from.
TypeOK ==
    /\ scene \in Scenes
    /\ log \in Seq(Event)
    /\ pc \in [Turns -> Labels]
    /\ mine \in [Turns -> SceneIds]
    /\ cur \in [Turns -> SceneIds] /\ tgt \in [Turns -> SceneIds]
    /\ gate \in [Turns -> BOOLEAN]
    /\ faults \in 0..MaxFaults
    /\ due \in [Turns -> SceneIds] /\ toured \subseteq Turns
    /\ moves \in [Scenes -> Nat] /\ earned \subseteq Scenes
    /\ unlogged \subseteq Scenes \X Scenes \X BOOLEAN
    /\ overlapped \in BOOLEAN

Init ==
    /\ scene = Entry /\ log = <<>>
    /\ pc = [t \in Turns |-> "idle"]
    /\ mine = [t \in Turns |-> NoScene]
    /\ cur = [t \in Turns |-> NoScene] /\ tgt = [t \in Turns |-> NoScene]
    /\ gate = [t \in Turns |-> FALSE]
    /\ faults = 0
    /\ due = [t \in Turns |-> NoScene] /\ toured = {}
    /\ moves = [s \in Scenes |-> 0] /\ unlogged = {} /\ earned = {}
    /\ overlapped = FALSE

-----------------------------------------------------------------------------
\* The log

\* event_id: de_<turn>_SceneTransitioned, de_objresolved_<session>_<objective>,
\* de_sceneunlocked_<session>_<from>
SameId(e, f) == e.kind = f.kind /\ IF e.kind = "moved" THEN e.turn = f.turn ELSE e.from = f.from
Known(e) == \E i \in 1..Len(log) : SameId(log[i], e)

\* append_domain_event: on conflict (event_id) do nothing
Extended(e) == IF Known(e) THEN log ELSE Append(log, e)

Moved(t, a, b) == [kind |-> "moved", turn |-> t, from |-> a, to |-> b]
Resolved(t, s) == [kind |-> "resolved", turn |-> t, from |-> s, to |-> NoScene]
Unlocked(t, s) == [kind |-> "unlocked", turn |-> t, from |-> s, to |-> Next_Scene[s]]

Listed == {i \in 1..Len(log) : i <= Limit}
\* Faulty variant: an unlock of any scene will do
UnlocksAnywhere(s) == {i \in Listed : log[i].kind = "unlocked"}
Unlocks(s) == {i \in Listed : log[i].kind = "unlocked" /\ log[i].from = s}
Took(i, a, b) == log[i].kind = "moved" /\ log[i].from = a /\ log[i].to = b

\* Faulty variant: an unlock is never used up
PendingAlways(s) ==
    IF Unlocks(s) = {} THEN NoScene
    ELSE log[CHOOSE i \in Unlocks(s) : \A j \in Unlocks(s) : j <= i].to
\* Faulty variant: used up by any move out of the scene
PendingUnlessLeft(s) ==
    IF \E i \in Listed : log[i].kind = "moved" /\ log[i].from = s THEN NoScene ELSE PendingAlways(s)
\* pending_unlock_target: the latest unlock of the scene, unless the move it led to is listed
Pending(s) ==
    IF Unlocks(s) = {} THEN NoScene
    ELSE LET u == CHOOSE i \in Unlocks(s) : \A j \in Unlocks(s) : j <= i
         IN  IF \E i \in Listed : Took(i, s, log[u].to) THEN NoScene ELSE log[u].to

-----------------------------------------------------------------------------
\* The steps of a turn

Jump(t, from, to) == pc[t] = from /\ pc' = [pc EXCEPT ![t] = to]
Fault == faults < MaxFaults /\ faults' = faults + 1

\* The move that a turn was making, and its other locals, go out of scope
DropMove(t) ==
    /\ cur' = [cur EXCEPT ![t] = NoScene] /\ tgt' = [tgt EXCEPT ![t] = NoScene]
    /\ gate' = [gate EXCEPT ![t] = FALSE]
Drop(t) == DropMove(t) /\ mine' = [mine EXCEPT ![t] = NoScene]

Others(t) == {u \in Turns : u # t /\ pc[u] \notin {"idle"} \cup Over}

\* The request: its runtime state takes the scene that the session is in (or none: the query failed)
Start(t) ==
    /\ Jump(t, "idle", "head")
    /\ \A u \in Turns : u < t => pc[u] # "idle"
    /\ \/ mine' = [mine EXCEPT ![t] = scene] /\ UNCHANGED faults
       \/ Fault /\ UNCHANGED mine
    /\ Cardinality(Others(t)) < MaxAtOnce
    /\ overlapped' = (overlapped \/ Others(t) # {})
    /\ UNCHANGED <<scene, log, cur, tgt, gate, due, toured, moves, unlogged, earned>>

\* The player names another scene of the module, or none
NameScene(t) ==
    /\ \E b \in Scenes \ {scene} :
          /\ Jump(t, "head", "pre_set")
          /\ cur' = [cur EXCEPT ![t] = scene] /\ tgt' = [tgt EXCEPT ![t] = b]
          /\ UNCHANGED <<mine, gate>>
    /\ UNCHANGED <<scene, log, faults, past>>
NameNone(t) ==
    /\ Jump(t, "head", IF mine[t] = NoScene THEN "context" ELSE "loop")
    /\ UNCHANGED <<scene, log, locals, faults, past>>

PreSet(t) ==
    /\ \/ /\ Jump(t, "pre_set", "pre_append")
          /\ scene' = tgt[t] /\ mine' = [mine EXCEPT ![t] = tgt[t]]
          /\ UNCHANGED <<faults, cur, tgt, gate>>
       \/ Jump(t, "pre_set", "context") /\ Fault /\ DropMove(t) /\ UNCHANGED <<scene, mine>>
    /\ UNCHANGED <<log, past>>

\* Faulty variant: from the turn's scene, which is the target by now
PreAppendFromMine(t) ==
    /\ Jump(t, "pre_append", "loop")
    /\ log' = Extended(Moved(t, mine[t], tgt[t]))
    /\ DropMove(t)
    /\ UNCHANGED <<scene, mine, faults, past>>
PreAppend(t) ==
    /\ Jump(t, "pre_append", "loop")
    /\ \/ log' = Extended(Moved(t, cur[t], tgt[t])) /\ UNCHANGED faults
       \/ Fault /\ UNCHANGED log
    /\ DropMove(t)
    /\ UNCHANGED <<scene, mine, past>>

\* prepare_turn_context: a turn without a scene looks again, and an error there (the
\* fault of Start, lasting) is taken for a session that never had one, whose scene is the entry.
\* What it finds is for the prompt, not for the turn's state.
Assemble(t) ==
    /\ Jump(t, "context", "loop")
    /\ UNCHANGED scene \/ (mine[t] = NoScene /\ scene' = Entry)
    /\ UNCHANGED <<log, locals, faults, past>>

\* navigate_scene: sets the scene and writes no event; it compares with the scene of the turn's state
Tour(t) ==
    /\ pc[t] = "loop"
    /\ \E b \in Scenes \ {mine[t]} : scene' = b
    /\ toured' = toured \cup {t}
    /\ UNCHANGED <<log, pc, locals, faults, due, moves, unlogged, earned, overlapped>>

\* The loop waits for dice, or the turn is given up or cancelled: nobody navigates, and mostly no
\* evidence has been read
EndLoop(t) ==
    /\ Jump(t, "loop", "ended") \/ Jump(t, "navigate", "ended")
    /\ Drop(t)
    /\ UNCHANGED <<scene, log, faults, past>>

\* The narration: its evidence resolves the objective of the scene the turn plays, or not
Narrate(t) == Jump(t, "loop", "navigate") /\ UNCHANGED <<scene, log, locals, faults, past>>
Earn(t) ==
    /\ Jump(t, "loop", "progress")
    /\ mine[t] \in Goals
    /\ earned' = earned \cup {mine[t]}
    /\ UNCHANGED <<scene, log, locals, faults, due, toured, moves, unlogged, overlapped>>

\* An append that fails is only warned of
ResolveObjective(t) ==
    /\ Jump(t, "progress", "unlock")
    /\ \/ log' = Extended(Resolved(t, mine[t])) /\ UNCHANGED faults
       \/ Fault /\ UNCHANGED log
    /\ UNCHANGED <<scene, locals, past>>

UnlockScene(t) ==
    /\ Jump(t, "unlock", "navigate")
    /\ \/ /\ Next_Scene[mine[t]] # NoScene
          /\ log' = Extended(Unlocked(t, mine[t]))
          /\ due' = IF log' = log THEN due ELSE [due EXCEPT ![t] = mine[t]]
          /\ UNCHANGED faults
       \/ Next_Scene[mine[t]] = NoScene /\ UNCHANGED <<log, due, faults>>
       \/ Fault /\ UNCHANGED <<log, due>>
    /\ UNCHANGED <<scene, locals, toured, moves, unlogged, earned, overlapped>>

\* Faulty variant: the navigator starts from the turn's scene, which may be none
ReadMine(t) ==
    /\ Jump(t, "navigate", "decide") /\ cur' = [cur EXCEPT ![t] = mine[t]]
    /\ UNCHANGED <<scene, log, mine, tgt, gate, faults, past>>
\* scene_navigate_critical
ReadScene(t) ==
    /\ \/ /\ Jump(t, "navigate", "decide")
          /\ cur' = [cur EXCEPT ![t] = scene] /\ UNCHANGED <<mine, tgt, gate, faults>>
       \/ Jump(t, "navigate", "narrated") /\ Fault /\ Drop(t)
    /\ UNCHANGED <<scene, log, past>>

TakeUnlock(t) ==
    /\ Jump(t, "decide", "set")
    /\ Pending(cur[t]) # NoScene
    /\ tgt' = [tgt EXCEPT ![t] = Pending(cur[t])] /\ gate' = [gate EXCEPT ![t] = TRUE]
    /\ UNCHANGED <<scene, log, mine, cur, faults, past>>

\* No unlock, or the log cannot be read: the model moves the party, or lets it stay
AskModel(t) ==
    /\ \/ Pending(cur[t]) = NoScene /\ UNCHANGED faults
       \/ Fault
    /\ \/ /\ Jump(t, "decide", "set")
          /\ \E b \in Scenes \ {cur[t]} : tgt' = [tgt EXCEPT ![t] = b]
          /\ UNCHANGED <<mine, cur, gate>>
       \/ Jump(t, "decide", "narrated") /\ Drop(t)
    /\ UNCHANGED <<scene, log, past>>

SetScene(t) ==
    /\ \/ /\ Jump(t, "set", "append")
          /\ scene' = tgt[t]
          /\ moves' = IF gate[t] THEN [moves EXCEPT ![cur[t]] = @ + 1] ELSE moves
          /\ UNCHANGED <<locals, faults>>
       \/ Jump(t, "set", "narrated") /\ Fault /\ Drop(t) /\ UNCHANGED <<scene, moves>>
    /\ UNCHANGED <<log, due, toured, unlogged, earned, overlapped>>

Forgotten(t) == unlogged \cup {<<cur[t], tgt[t], gate[t]>>}

AppendMove(t) ==
    /\ Jump(t, "append", "narrated")
    /\ \/ /\ log' = Extended(Moved(t, cur[t], tgt[t]))
          /\ unlogged' = IF log' = log THEN Forgotten(t) ELSE unlogged
          /\ UNCHANGED faults
       \/ Fault /\ unlogged' = Forgotten(t) /\ UNCHANGED log
    /\ Drop(t)
    /\ UNCHANGED <<scene, due, toured, moves, earned, overlapped>>

\* The task of a turn dies: a panic, or the server goes down
Die(t) ==
    /\ pc[t] \notin {"idle"} \cup Over
    /\ pc' = [pc EXCEPT ![t] = "ended"] /\ Fault
    /\ unlogged' = IF pc[t] = "append" THEN Forgotten(t) ELSE unlogged
    /\ Drop(t)
    /\ UNCHANGED <<scene, log, due, toured, moves, earned, overlapped>>

Step(t) ==
    \/ Start(t) \/ NameScene(t) \/ NameNone(t) \/ PreSet(t) \/ PreAppend(t) \/ Assemble(t)
    \/ Tour(t) \/ EndLoop(t) \/ Narrate(t) \/ Earn(t) \/ ResolveObjective(t) \/ UnlockScene(t)
    \/ ReadScene(t) \/ TakeUnlock(t) \/ AskModel(t) \/ SetScene(t) \/ AppendMove(t) \/ Die(t)
Next == \E t \in Turns : Step(t)
Spec == Init /\ [][Next]_vars

-----------------------------------------------------------------------------
\* Properties

\* However the turns overlap and whatever fails, the engine moves the party only out of a scene whose
\* evidence was admitted in some turn, and only to the scene that follows it in the module: "the
\* transition fires ONLY when the player EARNED it" (scene_unlock.rs).
Earned ==
    /\ \A s \in Scenes : moves[s] > 0 => s \in earned
    /\ \A t \in Turns : pc[t] \in {"set", "append"} /\ gate[t]
                           => cur[t] \in earned /\ tgt[t] = Next_Scene[cur[t]]

\* While turns do not overlap, an unlock moves the party once, except where the log did not take the
\* event of that move or the query no longer reaches the end of the log: consumption is judged by
\* that event alone (pending_unlock_target).
UnlockOnce ==
    \/ overlapped \/ Len(log) > Limit
    \/ \A s \in Scenes : moves[s] <= 1 \/ <<s, Next_Scene[s], TRUE>> \in unlogged

\* A narrated turn that unlocks the way on has, when it ends, a record of the party having taken it:
\* what one phase appends another reads in the same turn (apply_witnessed_progression, then
\* scene_navigate_critical).  Not claimed for turns that overlapped, met a fault, used the tool, or
\* whose log is longer than the query.
AdvanceTaken ==
    \A t \in Turns :
        (pc[t] = "narrated" /\ due[t] # NoScene /\ t \notin toured
            /\ ~overlapped /\ faults = 0 /\ Len(log) <= Limit)
        => \/ \E i \in 1..Len(log) : Took(i, due[t], Next_Scene[due[t]])
           \/ <<due[t], Next_Scene[due[t]], TRUE>> \in unlogged

\* Before its i-th event, the log has led the party to s
MovesBefore(i) == {j \in 1..(i - 1) : log[j].kind = "moved"}
LedTo(i, s) ==
    \/ MovesBefore(i) = {} /\ s = Entry
    \/ \E j \in MovesBefore(i) : log[j].to = s /\ \A k \in MovesBefore(i) : k <= j

\* Each move in the log starts from where the one before ended
Connected == \A i \in 1..Len(log) : log[i].kind = "moved" => LedTo(i, log[i].from)

\* Between turns, the moves in the log lead from the entry to where the party is, each from where the
\* one before ended, so the replay that rebuilds the places entered (replay_domain_events) sees the
\* journey.  Not claimed once the tool moved the party, the log did not take a move, a
\* statement failed or turns overlapped.
LogFollowsParty ==
    (faults = 0 /\ ~overlapped /\ toured = {} /\ unlogged = {}
        /\ \A t \in Turns : pc[t] \in Over \cup {"idle"})
    => Connected /\ LedTo(Len(log) + 1, scene)

\* What scene_unlock.rs says of an unlock: it "is consumed once a SceneTransitioned(from->next) is
\* committed, so RETURNING to from later never re-fires it".
ReturnNeverRefires ==
    (faults = 0 /\ ~overlapped /\ Len(log) <= Limit) => \A s \in Scenes : moves[s] <= 1
=============================================================================
