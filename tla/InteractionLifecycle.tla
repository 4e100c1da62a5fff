------------------------ MODULE InteractionLifecycle ------------------------
(***************************************************************************)
(* The open questions of one session: checks that wait for the dice of the *)
(* player, interaction gates, the frames (combat, chase, ...) that own     *)
(* some of them, and the interaction generation that a frame closes with.  *)
(*                                                                         *)
(* A caller is a request in flight: a turn of the GM agent (reconcile,     *)
(* gate phase, reconcile, then tools), POST /api/checks/resolve, or POST   *)
(* /api/conflict/start.  Nothing serialises the requests of a session, so  *)
(* every database statement is an action of its own.  The roll itself, the *)
(* effects of a check and the texts are abstracted: `applied' counts how   *)
(* often the effects of a check were applied.  Table dice policy is "the   *)
(* player rolls" (under system_rolls_visible no check ever waits).         *)
(*                                                                         *)
(* Any statement may fail.  The code passes some errors on (Abort, and     *)
(* FailTool where a turn tells its model instead), reads 0 for a           *)
(* generation it cannot get (ReadLost), and ignores the others (Skip).     *)
(***************************************************************************)
EXTENDS Naturals, FiniteSets

CONSTANTS
    Callers,    \* requests that may be in flight
    MaxRows,    \* bound: checks and gates ever created
    MaxFrames,  \* bound: frames ever created
    MaxCalls,   \* bound: requests and tool calls
    MaxFaults   \* bound: failures; the first overlap of two requests counts as one

ASSUME BoundsAssumption ==
    MaxRows \in Nat /\ MaxFrames \in Nat /\ MaxCalls \in Nat /\ MaxFaults \in Nat

Rows   == 1..MaxRows    \* a row id is also its created_at; gate_<check> has the id of its check
Frames == 1..MaxFrames
None   == 0
Actor  == MaxFrames + 1 \* the id of an actor in an owner_frame_id column: no frame has it

VARIABLES
    gen,        \* sessions.interaction_generation
    frames,     \* state_frames.status, "live" for active, paused and resolving
    checks,     \* pending_checks: status, generation, owner_frame_id
    gates,      \* interaction_gates: the same columns
    contracts,  \* check_contracts: the kind of check, "none" where there is no row
    results,    \* number of check_results rows of a check
    applied,    \* how often post_check_resolution ran for a check
    rows, calls,                            \* rows minted, calls made
    pc, cur, gat, new, frm, seen, inp, back, \* locals of the callers
    left,       \* history: the checks that existed when the generation was last advanced
    overlapped, \* history: two requests have been in flight at once
    faults,     \* history: the failures so far
    hit         \* history: the callers whose present request has met one

db     == <<gen, frames, checks, gates, contracts, results, applied>>
counts == <<rows, calls>>
locals == <<cur, gat, new, frm, seen, inp, back>>
past   == <<left, overlapped, faults, hit>>
vars   == <<db, counts, pc, locals, past>>

Statuses == {"none", "open", "resolved", "superseded", "abandoned"}
Kinds    == {"none", "skill", "san", "attack", "effect"}
Inputs   == {"words", "roll", "cancel", "ask", "new", "opened"}
Backs    == {"none", "turn", "gate", "tools", "bundle", "effect", "api", "answer", "drop",
             "conflict"}
Labels   == {"idle", "reconcile", "stale_gates", "stale_checks", "gate_phase", "tools",
             "roll", "post", "result", "close_check", "close_gate", "close_open", "answer_gate",
             "followup", "effect_done", "cancel_checks", "cancel_gates", "mint", "read_check",
             "put_check", "read_gate", "put_gate", "attach_read", "attach", "frame_put", "frame_new",
             "close_gates", "close_checks", "close_frame", "bump", "conflict", "conflict_act",
             "api_gate", "sup_gate", "sup_check", "api_check", "drop_check", "reopen",
             "abandon_check", "abandon_gate", "choice"}
Row      == [status : Statuses, gen : Nat, owner : 0..MaxFrames + 1]

\* Every variable keeps its type: a row has one of the statuses the queries know, an owner
\* that is a frame, an actor or nobody, and a caller is at a statement of its request.
TypeOK ==
    /\ gen \in Nat /\ rows \in 0..MaxRows /\ calls \in 0..MaxCalls
    /\ frames \in [Frames -> {"none", "live", "closed"}]
    /\ checks \in [Rows -> Row] /\ gates \in [Rows -> Row]
    /\ contracts \in [Rows -> Kinds]
    /\ results \in [Rows -> Nat] /\ applied \in [Rows -> Nat]
    /\ pc \in [Callers -> Labels] /\ inp \in [Callers -> Inputs] /\ back \in [Callers -> Backs]
    /\ cur \in [Callers -> 0..MaxRows] /\ gat \in [Callers -> 0..MaxRows]
    /\ new \in [Callers -> 0..MaxRows] /\ frm \in [Callers -> 0..MaxFrames]
    /\ seen \in [Callers -> Nat]
    /\ left \subseteq Rows /\ overlapped \in BOOLEAN
    /\ faults \in 0..MaxFaults /\ hit \subseteq Callers

NoRow == [status |-> "none", gen |-> 0, owner |-> None]

Init ==
    /\ gen = 0 /\ rows = 0 /\ calls = 0
    /\ frames = [f \in Frames |-> "none"]
    /\ checks = [k \in Rows |-> NoRow] /\ gates = [k \in Rows |-> NoRow]
    /\ contracts = [k \in Rows |-> "none"]
    /\ results = [k \in Rows |-> 0] /\ applied = [k \in Rows |-> 0]
    /\ pc = [p \in Callers |-> "idle"]
    /\ cur = [p \in Callers |-> None] /\ gat = [p \in Callers |-> None]
    /\ new = [p \in Callers |-> None] /\ frm = [p \in Callers |-> None]
    /\ seen = [p \in Callers |-> 0]
    /\ inp = [p \in Callers |-> "words"] /\ back = [p \in Callers |-> "none"]
    /\ left = {} /\ overlapped = FALSE /\ faults = 0 /\ hit = {}

-----------------------------------------------------------------------------
\* What the queries return

Live(f) == f \in Frames /\ frames[f] = "live"

Latest(S) == IF S = {} THEN None ELSE CHOOSE k \in S : \A j \in S : j <= k

\* get_open_pending_check, get_open_interaction_gate: open, of this generation, newest first
Answerable == {k \in Rows : checks[k].status = "open" /\ checks[k].gen = gen}
OpenGates  == {k \in Rows : gates[k].status = "open" /\ gates[k].gen = gen}

\* Faulty variant: results are not asked for
UnresolvedAny == {k \in Rows : contracts[k] # "none"}

\* get_latest_unresolved_check_contract: the status of the pending check is not asked for
Unresolved == {k \in Rows : contracts[k] # "none" /\ results[k] = 0}

\* is_effect_or_damage_contract looks for "damage", "effect", "san", ... in kind and label
EffectLike(k) == contracts[k] \in {"effect", "san"}

\* The predicate of reconcile_interaction_lifecycle, for generation g
Stale(row, g) == row.status = "open" /\ (row.gen < g \/ (row.owner # None /\ ~Live(row.owner)))

\* An update by id: unconditional, or only of an open row
Set(table, k, status) ==
    IF table[k].status = "none" THEN table ELSE [table EXCEPT ![k].status = status]
SetIfOpen(table, k, status) ==
    IF table[k].status = "open" THEN [table EXCEPT ![k].status = status] ELSE table
\* An update with a where clause, which holds of the rows in S
SetAll(table, S, status) ==
    [k \in Rows |-> IF k \in S THEN [table[k] EXCEPT !.status = status] ELSE table[k]]

Jump(p, from, to) == pc[p] = from /\ pc' = [pc EXCEPT ![p] = to]

-----------------------------------------------------------------------------
\* Requests

Begin(p) ==
    LET busy == \E q \in Callers : q # p /\ pc[q] # "idle" IN
    /\ calls < MaxCalls /\ calls' = calls + 1
    /\ overlapped' = (overlapped \/ busy)
    /\ busy /\ ~overlapped => faults < MaxFaults
    /\ faults' = IF busy /\ ~overlapped THEN faults + 1 ELSE faults
    /\ hit' = hit \ {p}
    /\ cur' = [cur EXCEPT ![p] = None] /\ gat' = [gat EXCEPT ![p] = None]
    /\ new' = [new EXCEPT ![p] = None] /\ frm' = [frm EXCEPT ![p] = None]
    /\ seen' = [seen EXCEPT ![p] = 0]
    /\ UNCHANGED <<db, rows, left>>

StartTurn(p) ==
    /\ Jump(p, "idle", "reconcile") /\ Begin(p)
    /\ \E i \in {"words", "roll"} : inp' = [inp EXCEPT ![p] = i]
    /\ back' = [back EXCEPT ![p] = "turn"]

StartResolve(p) ==
    /\ Jump(p, "idle", "reconcile") /\ Begin(p)
    /\ \E i \in {"roll", "cancel", "ask", "new"} : inp' = [inp EXCEPT ![p] = i]
    /\ back' = [back EXCEPT ![p] = "api"]

StartConflict(p) ==
    /\ Jump(p, "idle", "conflict") /\ Begin(p)
    /\ inp' = [inp EXCEPT ![p] = "words"] /\ back' = [back EXCEPT ![p] = "conflict"]

-----------------------------------------------------------------------------
\* reconcile_session: read the generation, then two updates.  A turn does it at its head and
\* again when it prepares the context, after the gate phase.

AfterReconcile(p) ==
    CASE back[p] = "turn" -> "gate_phase"
      [] back[p] = "gate" -> "tools"
      [] OTHER            -> "api_gate"

ReadGeneration(p) ==
    /\ Jump(p, "reconcile", "stale_gates")
    /\ seen' = [seen EXCEPT ![p] = gen]
    /\ UNCHANGED <<db, counts, cur, gat, new, frm, inp, back, past>>

SupersedeStaleGates(p) ==
    /\ Jump(p, "stale_gates", "stale_checks")
    /\ gates' = SetAll(gates, {k \in Rows : Stale(gates[k], seen[p])}, "superseded")
    /\ UNCHANGED <<gen, frames, checks, contracts, results, applied, counts, locals, past>>

\* Faulty variant: the owners are not looked at
SupersedeOldChecks(p) ==
    /\ Jump(p, "stale_checks", AfterReconcile(p))
    /\ checks' = SetAll(checks, {k \in Rows : checks[k].status = "open" /\ checks[k].gen < seen[p]},
                        "superseded")
    /\ UNCHANGED <<gen, frames, gates, contracts, results, applied, counts, locals, past>>

SupersedeStaleChecks(p) ==
    /\ Jump(p, "stale_checks", AfterReconcile(p))
    /\ checks' = SetAll(checks, {k \in Rows : Stale(checks[k], seen[p])}, "superseded")
    /\ UNCHANGED <<gen, frames, gates, contracts, results, applied, counts, locals, past>>

-----------------------------------------------------------------------------
\* The gate phase of a turn: dice answer the newest answerable check

GatePhase(p) ==
    LET takes == inp[p] = "roll" /\ Answerable # {} IN
    /\ Jump(p, "gate_phase", IF takes THEN "roll" ELSE "reconcile")
    /\ cur' = IF takes THEN [cur EXCEPT ![p] = Latest(Answerable)] ELSE cur
    /\ back' = [back EXCEPT ![p] = "gate"]
    /\ UNCHANGED <<db, counts, gat, new, frm, seen, inp, past>>

-----------------------------------------------------------------------------
\* resolve_check_with_input / execute_agent_roll, and the answer branch of
\* handle_open_interaction_gate (back = "answer"), for the check cur[p]

AfterResolve(p) ==
    CASE back[p] = "gate"   -> "reconcile"
      [] back[p] = "tools"  -> "tools"
      [] back[p] = "bundle" -> "followup"
      [] back[p] = "effect" -> "effect_done"
      [] OTHER              -> "idle"

\* resolve_roll_input refuses what the player typed; nothing has been written
RollRefused(p) ==
    /\ inp[p] = "roll"
    /\ Jump(p, "roll", IF back[p] = "gate" THEN "reconcile" ELSE "idle")
    /\ UNCHANGED <<db, counts, locals, past>>

\* No source-backed parameters: a blocked result is stored and the check is closed.  A bundle
\* is over with that; of a blocked follow-up it closes the check but not the gate.
Blocked(p) ==
    /\ back[p] # "answer"
    /\ Jump(p, "roll", IF back[p] = "effect" THEN "effect_done" ELSE "close_check")
    /\ back' = [back EXCEPT ![p] = IF @ = "bundle" THEN "tools" ELSE @]
    /\ UNCHANGED <<gen, frames, checks, gates, contracts, applied, counts,
                   cur, gat, new, frm, seen, inp>>

RollBlocked(p) ==
    /\ Blocked(p) /\ UNCHANGED past
    /\ results' = [results EXCEPT ![cur[p]] = @ + 1]

Roll(p) == Jump(p, "roll", "post") /\ UNCHANGED <<db, counts, locals, past>>

\* post_check_resolution; a hit asks for an effect roll, a check of its own
ApplyEffects(p) ==
    /\ pc[p] = "post" /\ applied' = [applied EXCEPT ![cur[p]] = @ + 1]
    /\ \/ /\ Jump(p, "post", "result") /\ UNCHANGED <<contracts, rows, new>>
       \/ /\ contracts[cur[p]] = "attack" /\ rows < MaxRows
          /\ Jump(p, "post", "read_check")
          /\ rows' = rows + 1 /\ new' = [new EXCEPT ![p] = rows + 1]
          /\ contracts' = [contracts EXCEPT ![rows + 1] = "effect"]
    /\ UNCHANGED <<gen, frames, checks, gates, results, calls, cur, gat, frm, seen, inp, back, past>>

InsertResult(p) ==
    /\ Jump(p, "result", "close_check")
    /\ results' = [results EXCEPT ![cur[p]] = @ + 1]
    /\ UNCHANGED <<gen, frames, checks, gates, contracts, applied, counts, locals, past>>

CloseCheck(p) ==
    /\ Jump(p, "close_check", IF back[p] = "answer" THEN "answer_gate" ELSE "close_gate")
    /\ checks' = Set(checks, cur[p], "resolved")
    /\ UNCHANGED <<gen, frames, gates, contracts, results, applied, counts, locals, past>>

CloseGate(p) ==
    /\ Jump(p, "close_gate", "close_open")
    /\ gates' = Set(gates, cur[p], "resolved")
    /\ UNCHANGED <<gen, frames, checks, contracts, results, applied, counts, locals, past>>

\* The newest open gate is closed too if it asks for this check
CloseOpenGate(p) ==
    /\ Jump(p, "close_open", AfterResolve(p))
    /\ gates' = IF Latest(OpenGates) = cur[p] THEN Set(gates, cur[p], "resolved") ELSE gates
    /\ UNCHANGED <<gen, frames, checks, contracts, results, applied, counts, locals, past>>

\* The API branch closes the gate it found open, whatever that one asks for
AnswerGate(p) ==
    /\ Jump(p, "answer_gate", "idle")
    /\ gates' = Set(gates, gat[p], "resolved")
    /\ UNCHANGED <<gen, frames, checks, contracts, results, applied, counts, locals, past>>

\* execute_system_roll_bundle rolls a waiting effect check at once
FollowUp(p) ==
    LET e == Latest(Answerable)
        takes == e # None /\ e # cur[p] /\ EffectLike(e)
    IN /\ Jump(p, "followup", IF takes THEN "roll" ELSE "tools")
       /\ cur' = IF takes THEN [cur EXCEPT ![p] = e] ELSE cur
       /\ back' = IF takes THEN [back EXCEPT ![p] = "effect"] ELSE back
       /\ UNCHANGED <<db, counts, gat, new, frm, seen, inp, past>>

EffectDone(p) ==
    /\ Jump(p, "effect_done", "tools")
    /\ checks' = Set(checks, cur[p], "resolved")
    /\ UNCHANGED <<gen, frames, gates, contracts, results, applied, counts, locals, past>>

-----------------------------------------------------------------------------
\* Tools of a turn

ToolCall == calls < MaxCalls /\ calls' = calls + 1

EndTurn(p) == Jump(p, "tools", "idle") /\ UNCHANGED <<db, counts, locals, past>>

\* roll_check: a contract, rolled by the system
RollCheck(p) ==
    /\ Jump(p, "tools", "roll") /\ ToolCall
    /\ rows < MaxRows /\ rows' = rows + 1
    /\ \E kind \in {"skill", "attack"} : contracts' = [contracts EXCEPT ![rows + 1] = kind]
    /\ cur' = [cur EXCEPT ![p] = rows + 1]
    /\ inp' = [inp EXCEPT ![p] = "words"] /\ back' = [back EXCEPT ![p] = "bundle"]
    /\ UNCHANGED <<gen, frames, checks, gates, results, applied, gat, new, frm, seen, past>>

\* Faulty variant: nothing is cancelled
RequestRollAnyway(p) ==
    /\ Jump(p, "tools", "mint") /\ ToolCall /\ rows < MaxRows
    /\ back' = [back EXCEPT ![p] = "tools"]
    /\ UNCHANGED <<db, rows, cur, gat, new, frm, seen, inp, past>>

\* request_player_roll: cancel what is open, then contract, check and gate
RequestRoll(p) ==
    /\ Jump(p, "tools", "cancel_checks") /\ ToolCall /\ rows < MaxRows
    /\ back' = [back EXCEPT ![p] = "tools"]
    /\ UNCHANGED <<db, rows, cur, gat, new, frm, seen, inp, past>>

\* Faulty variant: a status no query knows
CancelChecksAs(p) ==
    /\ Jump(p, "cancel_checks", "cancel_gates")
    /\ checks' = SetAll(checks, {k \in Rows : checks[k].status = "open"}, "cancelled")
    /\ UNCHANGED <<gen, frames, gates, contracts, results, applied, counts, locals, past>>

CancelChecks(p) ==
    /\ Jump(p, "cancel_checks", "cancel_gates")
    /\ checks' = SetAll(checks, {k \in Rows : checks[k].status = "open"}, "superseded")
    /\ UNCHANGED <<gen, frames, gates, contracts, results, applied, counts, locals, past>>

CancelGates(p) ==
    /\ Jump(p, "cancel_gates", "mint")
    /\ gates' = SetAll(gates, {k \in Rows : gates[k].status = "open"}, "superseded")
    /\ UNCHANGED <<gen, frames, checks, contracts, results, applied, counts, locals, past>>

MintContract(p) ==
    /\ Jump(p, "mint", "read_check")
    /\ rows < MaxRows /\ rows' = rows + 1 /\ new' = [new EXCEPT ![p] = rows + 1]
    /\ \E kind \in {"skill", "san"} : contracts' = [contracts EXCEPT ![rows + 1] = kind]
    /\ UNCHANGED <<gen, frames, checks, gates, results, applied, calls,
                   cur, gat, frm, seen, inp, back, past>>

\* insert_pending_check and insert_interaction_gate read the generation, then insert
ReadForInsert(p) ==
    /\ \/ Jump(p, "read_check", "put_check")
       \/ Jump(p, "read_gate", "put_gate")
       \/ Jump(p, "attach_read", "attach")
    /\ seen' = [seen EXCEPT ![p] = gen]
    /\ UNCHANGED <<db, counts, cur, gat, new, frm, inp, back, past>>

\* The owner of an effect check is its first actor snapshot: the target of the attack
PutCheck(p) ==
    /\ Jump(p, "put_check", "read_gate")
    /\ checks' = [checks EXCEPT ![new[p]] =
                    [status |-> "open", gen |-> seen[p],
                     owner |-> IF contracts[new[p]] = "effect" THEN Actor ELSE None]]
    /\ UNCHANGED <<gen, frames, gates, contracts, results, applied, counts, locals, past>>

\* request_player_roll is over with its gate; a choice gate is attached to its frame
AfterGate(p) ==
    CASE contracts[new[p]] = "none"   -> "attach_read"
      [] contracts[new[p]] = "effect" -> "result"
      [] OTHER                        -> "idle"

PutGate(p) ==
    /\ Jump(p, "put_gate", AfterGate(p))
    /\ gates' = [gates EXCEPT ![new[p]] =
                    [status |-> "open", gen |-> seen[p],
                     owner |-> IF contracts[new[p]] = "none" THEN frm[p] ELSE None]]
    /\ UNCHANGED <<gen, frames, checks, contracts, results, applied, counts, locals, past>>

\* enter_mode and open_combat_frame: arm the live frame or open a new one
OpenFrame(p) ==
    /\ Jump(p, "tools", "frame_put") /\ ToolCall
    /\ \E f \in Frames :
          /\ \/ Live(f)
             \/ (\A g \in Frames : ~Live(g)) /\ frames[f] = "none"
          /\ frm' = [frm EXCEPT ![p] = f]
    /\ back' = [back EXCEPT ![p] = "tools"]
    /\ UNCHANGED <<db, rows, cur, gat, new, seen, inp, past>>

\* upsert_state_frame writes the status of the copy read before
AfterFrame(p) == IF back[p] = "conflict" THEN "idle" ELSE "tools"

PutFrame(p) ==
    /\ Jump(p, "frame_put", AfterFrame(p))
    /\ frames' = [frames EXCEPT ![frm[p]] = "live"]
    /\ UNCHANGED <<gen, checks, gates, contracts, results, applied, counts, locals, past>>

\* close_frame and exit_mode: the cascade, then the next generation
CloseFrame(p) ==
    /\ Jump(p, "tools", "close_gates") /\ ToolCall
    /\ \E f \in Frames : Live(f) /\ frm' = [frm EXCEPT ![p] = f]
    /\ back' = [back EXCEPT ![p] = "tools"]
    /\ UNCHANGED <<db, rows, cur, gat, new, seen, inp, past>>

\* Faulty variant: the cascade forgets the gates
CascadeNoGates(p) ==
    /\ Jump(p, "close_gates", "close_checks") /\ UNCHANGED <<db, counts, locals, past>>

CascadeGates(p) ==
    /\ Jump(p, "close_gates", "close_checks")
    /\ gates' = SetAll(gates, {k \in Rows : gates[k].status = "open" /\ gates[k].owner = frm[p]},
                    "superseded")
    /\ UNCHANGED <<gen, frames, checks, contracts, results, applied, counts, locals, past>>

CascadeChecks(p) ==
    /\ Jump(p, "close_checks", "close_frame")
    /\ checks' = SetAll(checks, {k \in Rows : checks[k].status = "open" /\ checks[k].owner = frm[p]},
                     "superseded")
    /\ UNCHANGED <<gen, frames, gates, contracts, results, applied, counts, locals, past>>

CascadeFrame(p) ==
    /\ Jump(p, "close_frame", "bump")
    /\ frames' = [frames EXCEPT ![frm[p]] = "closed"]
    /\ UNCHANGED <<gen, checks, gates, contracts, results, applied, counts, locals, past>>

\* Faulty variant: a frame is closed within the generation
BumpForgotten(p) ==
    /\ Jump(p, "bump", AfterFrame(p))
    /\ left' = left \cup {k \in Rows : checks[k].status # "none"}
    /\ UNCHANGED <<db, counts, locals, overlapped, faults, hit>>

Bump(p) ==
    /\ Jump(p, "bump", AfterFrame(p))
    /\ gen' = gen + 1
    /\ left' = left \cup {k \in Rows : checks[k].status # "none"}
    /\ UNCHANGED <<frames, checks, gates, contracts, results, applied, counts, locals,
                   overlapped, faults, hit>>

-----------------------------------------------------------------------------
\* POST /api/conflict/start (CombatAgent::handle_turn)

FindFrame(p) ==
    /\ \E f \in Frames :
          /\ frm' = [frm EXCEPT ![p] = f]
          /\ \/ /\ Live(f) /\ Jump(p, "conflict", "conflict_act")
                /\ UNCHANGED <<frames, inp>>
             \/ /\ \A g \in Frames : ~Live(g)
                /\ Jump(p, "conflict", "frame_new")
                /\ frames[f] = "none" /\ frames' = [frames EXCEPT ![f] = "live"]
                /\ inp' = [inp EXCEPT ![p] = "opened"]
    /\ UNCHANGED <<gen, checks, gates, contracts, results, applied, counts,
                   cur, gat, new, seen, back, past>>

\* A new frame is stored again with the event of its creation
PutNewFrame(p) ==
    /\ Jump(p, "frame_new", "conflict_act")
    /\ frames' = [frames EXCEPT ![frm[p]] = "live"]
    /\ UNCHANGED <<gen, checks, gates, contracts, results, applied, counts, locals, past>>

\* No situation to frame, or no frame left within the bound
NotHandled(p) == Jump(p, "conflict", "idle") /\ UNCHANGED <<db, counts, locals, past>>

OpenChoiceGate(p) ==
    /\ Jump(p, "conflict_act", "read_gate")
    /\ rows < MaxRows /\ rows' = rows + 1 /\ new' = [new EXCEPT ![p] = rows + 1]
    /\ UNCHANGED <<db, calls, cur, gat, frm, seen, inp, back, past>>

\* attach_gate_to_frame
AttachGate(p) ==
    /\ Jump(p, "attach", "frame_put")
    /\ gates' = [gates EXCEPT ![new[p]].owner = frm[p], ![new[p]].gen = seen[p]]
    /\ UNCHANGED <<gen, frames, checks, contracts, results, applied, counts, locals, past>>

DeclareAction(p) ==
    /\ Jump(p, "conflict_act", "frame_put")
    /\ \/ UNCHANGED <<contracts, rows>>
       \/ /\ rows < MaxRows /\ rows' = rows + 1
          /\ \E kind \in {"skill", "attack"} : contracts' = [contracts EXCEPT ![rows + 1] = kind]
    /\ UNCHANGED <<gen, frames, checks, gates, results, applied, calls, locals, past>>

\* An exit that closes the frame writes its status, then runs the cascade
ExitFrame(p) ==
    /\ inp[p] # "opened" /\ Jump(p, "conflict_act", "close_gates")
    /\ frames' = [frames EXCEPT ![frm[p]] = "closed"]
    /\ UNCHANGED <<gen, checks, gates, contracts, results, applied, counts, locals, past>>

-----------------------------------------------------------------------------
\* POST /api/checks/resolve (handle_open_interaction_gate)

ApiGate(p) ==
    LET g == Latest(OpenGates) IN
    /\ Jump(p, "api_gate", IF g # None /\ inp[p] = "cancel" THEN "sup_gate" ELSE "api_check")
    /\ gat' = [gat EXCEPT ![p] = g]
    /\ UNCHANGED <<db, counts, cur, new, frm, seen, inp, back, past>>

AfterDrop(p) == IF back[p] = "drop" THEN "idle" ELSE "sup_check"

SupersedeGate(p) ==
    /\ Jump(p, "sup_gate", AfterDrop(p))
    /\ gates' = SetIfOpen(gates, gat[p], "superseded")
    /\ UNCHANGED <<gen, frames, checks, contracts, results, applied, counts, locals, past>>

SupersedeCheck(p) ==
    /\ Jump(p, "sup_check", "idle")
    /\ checks' = SetIfOpen(checks, gat[p], "superseded")
    /\ UNCHANGED <<gen, frames, gates, contracts, results, applied, counts, locals, past>>

\* No check waits: dice bind to the newest contract without a result
ApiContract(p) ==
    /\ Answerable = {} /\ inp[p] = "roll" /\ Unresolved # {}
    /\ Jump(p, "api_check", "roll")
    /\ cur' = [cur EXCEPT ![p] = Latest(Unresolved)]
    /\ UNCHANGED <<db, counts, gat, new, frm, seen, inp, back, past>>

ApiNoCheck(p) ==
    /\ Answerable = {} /\ ~(inp[p] = "roll" /\ Unresolved # {})
    /\ Jump(p, "api_check", IF gat[p] # None /\ contracts[gat[p]] = "none" THEN "choice" ELSE "idle")
    /\ UNCHANGED <<db, counts, locals, past>>

\* handle_choice_or_nonroll_gate: an option is recognised, or the player is asked again
Choose(p) ==
    /\ Jump(p, "choice", "idle")
    /\ \E s \in {"resolved", "open"} : gates' = Set(gates, gat[p], s)
    /\ UNCHANGED <<gen, frames, checks, contracts, results, applied, counts, locals, past>>

ApiCheck(p) ==
    /\ Answerable # {}
    /\ Jump(p, "api_check", CASE inp[p] = "roll"   -> "roll"
                              [] inp[p] = "cancel" -> "drop_check"
                              [] inp[p] = "ask"    -> "reopen"
                              [] OTHER             -> "abandon_check")
    /\ cur' = [cur EXCEPT ![p] = Latest(Answerable)]
    /\ gat' = [gat EXCEPT ![p] = IF @ = None THEN Latest(Answerable) ELSE @]
    /\ back' = [back EXCEPT ![p] = IF inp[p] = "cancel" THEN "drop" ELSE "answer"]
    /\ UNCHANGED <<db, counts, new, frm, seen, inp, past>>

\* update_pending_check_status and update_interaction_gate_status do not ask for the old status
CloseAskedCheck(p) ==
    /\ \/ Jump(p, "drop_check", "sup_gate") /\ checks' = Set(checks, cur[p], "superseded")
       \/ Jump(p, "abandon_check", "abandon_gate") /\ checks' = Set(checks, cur[p], "abandoned")
    /\ UNCHANGED <<gen, frames, gates, contracts, results, applied, counts, locals, past>>

AnswerWithoutDice(p) ==
    /\ \/ Jump(p, "reopen", "idle") /\ gates' = Set(gates, gat[p], "open")
       \/ Jump(p, "abandon_gate", "idle") /\ gates' = Set(gates, gat[p], "abandoned")
    /\ UNCHANGED <<gen, frames, checks, contracts, results, applied, counts, locals, past>>

-----------------------------------------------------------------------------
\* Failures

Hit(p) ==
    /\ faults < MaxFaults /\ faults' = faults + 1
    /\ hit' = hit \cup {p}
    /\ UNCHANGED <<left, overlapped>>

\* The error ends the request; its future is dropped; the server goes down
Abort(p) ==
    /\ pc[p] # "idle" /\ Jump(p, pc[p], "idle") /\ Hit(p)
    /\ UNCHANGED <<db, counts, locals>>

\* A turn folds the error of a tool, or of the gate phase, into what its model is told
FailTool(p) ==
    /\ \/ back[p] = "turn" /\ pc[p] = "gate_phase"
       \/ back[p] = "gate" /\ pc[p] \in {"roll", "result"}
       \/ back[p] \in {"tools", "bundle", "effect"}
          /\ pc[p] \in {"roll", "result", "followup", "cancel_checks", "mint", "put_check",
                       "put_gate", "frame_put"}
    /\ pc' = [pc EXCEPT ![p] = IF back[p] \in {"turn", "gate"} THEN "reconcile" ELSE "tools"]
    /\ back' = [back EXCEPT ![p] = IF @ = "turn" THEN "gate" ELSE @]
    /\ Hit(p)
    /\ UNCHANGED <<db, counts, cur, gat, new, frm, seen, inp>>

\* ensure_interaction_generation ... unwrap_or(0)
ReadLost(p) ==
    /\ \/ Jump(p, "reconcile", "stale_gates")
       \/ Jump(p, "read_check", "put_check")
       \/ Jump(p, "read_gate", "put_gate")
       \/ Jump(p, "attach_read", "attach")
    /\ seen' = [seen EXCEPT ![p] = 0]
    /\ Hit(p)
    /\ UNCHANGED <<db, counts, cur, gat, new, frm, inp, back>>

BlockedUnrecorded(p) == Blocked(p) /\ Hit(p) /\ UNCHANGED results

\* Where a request is after a statement whose error is ignored; where no error is, it stays
Onward(p) ==
    LET at    == pc[p]
        asked == contracts[new[p]] \notin {"none", "effect"}
    IN CASE at = "stale_gates"                          -> "stale_checks"
         [] at = "stale_checks"                         -> AfterReconcile(p)
         [] at = "post"                                 -> "result"
         [] at = "close_check" /\ back[p] # "answer"    -> "close_gate"
         [] at = "close_gate"                           -> "close_open"
         [] at = "close_open"                           -> AfterResolve(p)
         [] at = "effect_done"                          -> "tools"
         [] at = "cancel_gates"                         -> "mint"
         [] at = "put_check" /\ ~asked                  -> "read_gate"
         [] at = "put_gate" /\ ~asked                   -> AfterGate(p)
         [] at = "attach"                               -> "frame_put"
         [] at = "close_gates"                          -> "close_checks"
         [] at = "close_checks"                         -> "close_frame"
         [] at = "close_frame"                          -> "bump"
         [] at = "bump"                                 -> AfterFrame(p)
         [] at = "sup_gate"                             -> AfterDrop(p)
         [] at = "drop_check"                           -> "sup_gate"
         [] at \in {"answer_gate", "sup_check", "abandon_gate", "reopen"} -> "idle"
         [] OTHER                                       -> at

Skip(p) ==
    /\ Onward(p) # pc[p] /\ Jump(p, pc[p], Onward(p)) /\ Hit(p)
    /\ UNCHANGED <<db, counts, locals>>

-----------------------------------------------------------------------------
Request(p)  == StartTurn(p) \/ StartResolve(p) \/ StartConflict(p)
Reconcile(p) == ReadGeneration(p) \/ SupersedeStaleGates(p) \/ SupersedeStaleChecks(p)
Resolve(p)  ==
    \/ RollRefused(p) \/ RollBlocked(p) \/ Roll(p) \/ ApplyEffects(p) \/ InsertResult(p)
    \/ CloseCheck(p) \/ CloseGate(p) \/ CloseOpenGate(p) \/ AnswerGate(p)
    \/ FollowUp(p) \/ EffectDone(p)
Tool(p) ==
    \/ GatePhase(p) \/ EndTurn(p) \/ RollCheck(p) \/ RequestRoll(p) \/ CancelChecks(p)
    \/ CancelGates(p) \/ MintContract(p) \/ ReadForInsert(p) \/ PutCheck(p) \/ PutGate(p)
Frame(p) ==
    \/ OpenFrame(p) \/ PutFrame(p) \/ CloseFrame(p) \/ CascadeGates(p) \/ CascadeChecks(p)
    \/ CascadeFrame(p) \/ Bump(p) \/ FindFrame(p) \/ PutNewFrame(p) \/ NotHandled(p) \/ OpenChoiceGate(p)
    \/ AttachGate(p) \/ DeclareAction(p) \/ ExitFrame(p)
Api(p) ==
    \/ ApiGate(p) \/ SupersedeGate(p) \/ SupersedeCheck(p) \/ ApiContract(p) \/ ApiNoCheck(p)
    \/ Choose(p) \/ ApiCheck(p) \/ CloseAskedCheck(p) \/ AnswerWithoutDice(p)

Fault(p) == Abort(p) \/ FailTool(p) \/ ReadLost(p) \/ BlockedUnrecorded(p) \/ Skip(p)

Next == \E p \in Callers :
    Request(p) \/ Reconcile(p) \/ Resolve(p) \/ Tool(p) \/ Frame(p) \/ Api(p) \/ Fault(p)

Spec == Init /\ [][Next]_vars

-----------------------------------------------------------------------------
\* Properties

Quiet == \A p \in Callers : pc[p] = "idle"

\* A stale generation cannot capture player input (interaction_lifecycle_kernel_v1_5.md):
\* whatever the requests interleave and whatever fails, a check that was there when a frame
\* closed its generation is never taken up again as the waiting check, by a turn, by the API or
\* as a follow-up.
StaleNeverAnswers ==
    [][\A p \in Callers :
          (pc[p] \in {"gate_phase", "api_check", "followup"} /\ pc'[p] = "roll" /\ Answerable # {})
             => cur'[p] \notin left]_vars

\* request_player_roll cancels before it inserts "so that no session piles up open pending
\* checks" (check.rs:793): between requests that did not overlap, at most one check can be
\* answered, and whatever failed at most one that the next reconcile leaves open.  (Within a
\* turn there may be two: the effect check of a hit that the system rolls stands beside the
\* check the player was asked for until the bundle has rolled it; if that fails it stays, and
\* its owner is none.)
OneAnswerable ==
    (~overlapped /\ Quiet) =>
        /\ faults = 0 => Cardinality(Answerable) <= 1
        /\ Cardinality({k \in Answerable : ~Stale(checks[k], gen)}) <= 1

\* While requests do not overlap, a check is resolved once and its effects are applied once,
\* by whichever of the three paths takes it up; and every further time is the price of a
\* failure, which has left the check open after its effects or its result.
SettledOnce == ~overlapped => \A k \in Rows : results[k] <= 1 + faults /\ applied[k] <= 1 + faults

\* What the reconcile at the head of a request promises: input is routed only when no open
\* check or gate is of an old generation or owned by something that is not live, whatever
\* failed in the requests before.
CleanBeforeInput ==
    ~overlapped => \A p \in Callers \ hit : pc[p] \in {"gate_phase", "api_gate"} =>
        \A k \in Rows : ~Stale(checks[k], gen) /\ ~Stale(gates[k], gen)

\* A closed frame implies that its child gates and checks are terminal
\* (interaction_lifecycle_kernel_v1_5.md), whenever no request is in flight and no statement of
\* the cascade has failed.
ClosedFrameChildless ==
    (~overlapped /\ faults = 0 /\ Quiet) => \A f \in Frames : frames[f] = "closed" =>
        \A k \in Rows : \A row \in {checks[k], gates[k]} : row.owner = f => row.status # "open"

\* A check that was closed without a roll is not resolved by a later roll: "closes abandoned
\* gates so stale rolls cannot resolve old checks later" (trpg-runtime/src/lib.rs:1724).
ClosedNeverRolled ==
    [][\A k \in Rows : results'[k] > results[k] => checks[k].status \notin {"abandoned", "superseded"}]_vars
=============================================================================
