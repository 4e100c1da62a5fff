---------------------------- MODULE Obligations ----------------------------
(***************************************************************************)
(* What the rules still owe before a turn may be narrated.                 *)
(*                                                                         *)
(* A mechanic of the ruleset names the engine's hooks that call for it.    *)
(* When one fires, or a model finds that the player's words call for the   *)
(* mechanic, a due is issued: a row of mechanic_dues.  A due whose key     *)
(* (mechanic, hook) is open, waived for the scene or resolved is not       *)
(* issued again.  A track that crosses a threshold issues a due without a  *)
(* key.  The head of a turn takes the open rows into a ledger of its own,  *)
(* in memory, beside contracts without a result, an engagement that booked *)
(* no effect, and debts found in the narration.  While the ledger is not   *)
(* clear, what the game master writes is held back and it has to roll or   *)
(* to waive; after the last round it may narrate all the same, and what is *)
(* left is told to the next turn.                                          *)
(*                                                                         *)
(* The rows outlive the turn, the ledger does not: every request builds it *)
(* anew.  Rounds, tools and models' answers are choices; two turns may     *)
(* overlap in any way.  The exit obligations of a mode are left out.       *)
(***************************************************************************)
EXTENDS Naturals, FiniteSets

CONSTANTS
    Hooks,      \* hooks of the catalog's mechanics
    Key,        \* due_key of a hook's due: two calendar hooks of a mechanic share theirs
    Mech,       \* mechanic_id of a hook's due
    Event,      \* the event a hook waits for
    Crossing,   \* the due of a threshold
    Check,      \* a check contract without a result
    Cluster,    \* an engagement with settled checks and no effect
    Retro,      \* what the verifier misses in the narration
    Tight,      \* tempo.effect_closure_per_cluster of the active mode
    MaxTurns,   \* bound: turns of the session
    MaxRounds,  \* max_tool_rounds
    MaxTools,   \* bound: calls of the session that change something
    MaxFaults   \* bound: failing statements, turns that die, turns that overlap another

Events == {"turn_start", "stimulus", "scene_enter", "time_advance"}

ASSUME CatalogAssumption ==
    /\ Event \in [Hooks -> Events]
    /\ Crossing \notin Hooks
    /\ {Check, Cluster, Retro} \cap (Hooks \cup {Crossing}) = {}
    /\ Check # Cluster /\ Check # Retro /\ Cluster # Retro
    /\ Tight \in BOOLEAN
ASSUME BoundsAssumption ==
    /\ MaxTurns \in Nat /\ MaxRounds \in Nat
    /\ MaxTools \in Nat /\ MaxFaults \in Nat

Turns == 1..MaxTurns
\* A bound: a turn issues the due of a hook, and that of a crossing, at most once
Dues  == Turns \X (Hooks \cup {Crossing})
Owed  == Turns \X (Hooks \cup {Crossing, Check, Cluster, Retro})
Scopes == {"turn", "scene"}

VARIABLES
    row,        \* mechanic_dues: status, for a waived row its scope
    pc,         \* where a turn is
    event, held, cand,  \* the call of admit_dues a turn is in: event, suppressed keys, candidates
    pending,    \* ctx.pending_dues
    ledger,     \* dues, open_check_ids, open_cluster, retro_debts; of a turn that is done, what was left
    waivers,    \* waivers of the ledger
    facts,      \* what the turn's checks and effects came to
    blocked,    \* text of this round is held back
    called,     \* saw_tool
    rounds,     \* rounds begun
    tools,      \* calls that changed something
    write,      \* rows to be written, and with what
    memo,       \* what carry-over memories tell the next turn
    failed,     \* history: the statements that failed
    faults,     \* faults so far
    knew,       \* history: rows that were open when a turn loaded its debts
    reopened,   \* history: rows reopened since
    free,       \* history: turns just narrated without being forced
    overlapped  \* history: two turns have been in flight at once

admission == <<event, held, cand>>
memory    == <<pending, ledger, waivers, facts, blocked, called, rounds, write>>
past      == <<tools, failed, faults, knew, reopened, free, overlapped>>
vars      == <<row, pc, admission, memory, memo, past>>

Over   == {"done", "dropped"}
Labels == {"idle", "start", "waived", "resolved", "insert", "stimulus", "load", "round", "tools",
           "write", "verify", "carry"} \cup Over
Keys   == {Key[h] : h \in Hooks}

\* Every variable keeps its type; in particular a turn is between two statements of an admission
\* only while it has candidates, and has rows to write only while it is at the write.
TypeOK ==
    /\ row \in [Dues -> {"none", "open", "resolved"} \cup Scopes]
    /\ pc \in [Turns -> Labels]
    /\ event \in [Turns -> Events] /\ held \in [Turns -> SUBSET Keys]
    /\ cand \in [Turns -> SUBSET Hooks]
    /\ pending \in [Turns -> SUBSET Dues] /\ ledger \in [Turns -> SUBSET Owed]
    /\ waivers \in [Turns -> SUBSET (Owed \X Scopes)]
    /\ facts \in [Turns -> SUBSET {"hung", "rolled", "booked"}]
    /\ blocked \in [Turns -> BOOLEAN] /\ called \in [Turns -> BOOLEAN]
    /\ rounds \in [Turns -> 0..MaxRounds] /\ tools \in 0..MaxTools
    /\ write \in [Turns -> [rows : SUBSET Dues, as : {"resolved"} \cup Scopes]]
    /\ memo \subseteq Owed
    /\ failed \subseteq {"list", "scope", "insert", "load", "write", "carry"}
    /\ faults \in 0..MaxFaults
    /\ knew \in [Turns -> SUBSET Dues] /\ reopened \in [Turns -> SUBSET Dues]
    /\ free \subseteq Turns /\ overlapped \in BOOLEAN
    /\ \A t \in Turns : /\ pc[t] \in {"waived", "resolved", "insert"} => cand[t] # {}
                        /\ write[t].rows # {} => pc[t] = "write"

Init ==
    /\ row = [d \in Dues |-> "none"]
    /\ pc = [t \in Turns |-> "idle"]
    /\ event = [t \in Turns |-> "turn_start"] /\ held = [t \in Turns |-> {}]
    /\ cand = [t \in Turns |-> {}]
    /\ pending = [t \in Turns |-> {}] /\ ledger = [t \in Turns |-> {}]
    /\ waivers = [t \in Turns |-> {}] /\ facts = [t \in Turns |-> {}]
    /\ blocked = [t \in Turns |-> FALSE] /\ called = [t \in Turns |-> FALSE]
    /\ rounds = [t \in Turns |-> 0] /\ tools = 0
    /\ write = [t \in Turns |-> [rows |-> {}, as |-> "resolved"]]
    /\ memo = {}
    /\ failed = {} /\ faults = 0
    /\ knew = [t \in Turns |-> {}] /\ reopened = [t \in Turns |-> {}]
    /\ free = {} /\ overlapped = FALSE

-----------------------------------------------------------------------------
\* The ledger and the rows

Open == {d \in Dues : row[d] = "open"}
WithStatus(status) == {d \in Dues : row[d] = status}
\* due_key: a due without a mechanic or a hook has none
KeysOf(dues) == {Key[d[2]] : d \in {e \in dues : e[2] \in Hooks}}

Waived(t, o) == \E s \in Scopes : <<o, s>> \in waivers[t]
Blocking(t) == {o \in ledger[t] : ~Waived(t, o)}

Jump(t, from, to) == pc[t] = from /\ pc' = [pc EXCEPT ![t] = to]
Fault(statement) ==
    /\ faults < MaxFaults /\ faults' = faults + 1
    /\ failed' = failed \cup {statement}
NoFault == UNCHANGED <<faults, failed>>

Others(t) == {u \in Turns : u # t /\ pc[u] \notin {"idle"} \cup Over}

\* What a turn holds in memory goes with it
Forget(t) ==
    /\ held' = [held EXCEPT ![t] = {}] /\ cand' = [cand EXCEPT ![t] = {}]
    /\ event' = [event EXCEPT ![t] = "turn_start"]
    /\ pending' = [pending EXCEPT ![t] = {}]
    /\ facts' = [facts EXCEPT ![t] = {}]
    /\ blocked' = [blocked EXCEPT ![t] = FALSE] /\ called' = [called EXCEPT ![t] = FALSE]
    /\ rounds' = [rounds EXCEPT ![t] = 0]
    /\ write' = [write EXCEPT ![t].rows = {}, ![t].as = "resolved"]
    /\ knew' = [knew EXCEPT ![t] = {}] /\ reopened' = [reopened EXCEPT ![t] = {}]

-----------------------------------------------------------------------------
\* admit_dues: three queries, then the inserts

After(e) == IF e = "turn_start" THEN "stimulus" ELSE IF e = "stimulus" THEN "load" ELSE "tools"

\* Faulty variant: also when nothing fired
AskAlways(t, e, fired, open) ==
    /\ pc' = [pc EXCEPT ![t] = "waived"]
    /\ event' = [event EXCEPT ![t] = e] /\ cand' = [cand EXCEPT ![t] = fired]
    /\ held' = [held EXCEPT ![t] = KeysOf(open)]
    /\ NoFault
\* The first query, which finds the keys of open, or none when nothing fired; an error leaves the
\* caller without dues
Ask(t, e, fired, open) ==
    \/ /\ fired # {}
       /\ pc' = [pc EXCEPT ![t] = "waived"]
       /\ event' = [event EXCEPT ![t] = e] /\ cand' = [cand EXCEPT ![t] = fired]
       /\ held' = [held EXCEPT ![t] = KeysOf(open)]
       /\ NoFault
    \/ /\ fired = {} /\ pc' = [pc EXCEPT ![t] = After(e)]
       /\ NoFault /\ UNCHANGED admission
    \/ /\ pc' = [pc EXCEPT ![t] = After(e)]
       /\ Fault("list") /\ UNCHANGED admission

EndAdmission(t) ==
    /\ pc' = [pc EXCEPT ![t] = After(event[t])]
    /\ event' = [event EXCEPT ![t] = "turn_start"]
    /\ held' = [held EXCEPT ![t] = {}] /\ cand' = [cand EXCEPT ![t] = {}]

\* Faulty variant: what is waived may be called for again
ListNoWaived(t) ==
    /\ Jump(t, "waived", "resolved")
    /\ UNCHANGED <<row, admission, memory, memo, past>>
\* The waived rows, then the scope of each: a scope that cannot be read counts as "turn"
ListWaived(t) ==
    /\ pc[t] = "waived"
    /\ \/ /\ Jump(t, "waived", "resolved") /\ NoFault
          /\ held' = [held EXCEPT ![t] = @ \cup KeysOf(WithStatus("scene"))]
          /\ UNCHANGED <<event, cand>>
       \/ Jump(t, "waived", "resolved") /\ Fault("scope") /\ UNCHANGED admission
       \/ EndAdmission(t) /\ Fault("list")
    /\ UNCHANGED <<row, memory, memo, tools, knew, reopened, free, overlapped>>

\* Faulty variant: what is resolved may be called for again
ListNoResolved(t) ==
    /\ Jump(t, "resolved", "insert")
    /\ UNCHANGED <<row, admission, memory, memo, past>>
ListResolved(t) ==
    /\ pc[t] = "resolved"
    /\ \/ /\ Jump(t, "resolved", "insert") /\ NoFault
          /\ held' = [held EXCEPT ![t] = @ \cup KeysOf(WithStatus("resolved"))]
          /\ UNCHANGED <<event, cand>>
       \/ EndAdmission(t) /\ Fault("list")
    /\ UNCHANGED <<row, memory, memo, tools, knew, reopened, free, overlapped>>

\* admit_candidates
Admitted(t) == {<<t, h>> : h \in {g \in cand[t] : Key[g] \notin held[t]}}

\* An insert that fails is not reported: the due is returned all the same.  Only the head of the
\* turn keeps what is returned, a tool shows it to the model.
Insert(t) ==
    /\ pc[t] = "insert"
    /\ EndAdmission(t)
    /\ \E lost \in {{}} \cup {{d} : d \in Admitted(t)} :
          /\ row' = [d \in Dues |-> IF d \in Admitted(t) \ lost THEN "open" ELSE row[d]]
          /\ IF lost = {} THEN NoFault ELSE Fault("insert")
    /\ pending' = IF event[t] \in {"turn_start", "stimulus"}
                  THEN [pending EXCEPT ![t] = @ \cup Admitted(t)] ELSE pending
    /\ UNCHANGED <<ledger, waivers, facts, blocked, called, rounds, tools, write, memo,
                   knew, reopened, free, overlapped>>

Fired(t, e) == {h \in Hooks : Event[h] = e /\ row[<<t, h>>] = "none"}

-----------------------------------------------------------------------------
\* The head of a turn

Begin(t) ==
    /\ Jump(t, "idle", "start")
    /\ \A u \in Turns : u < t => pc[u] # "idle"
    /\ overlapped' = (overlapped \/ Others(t) # {})
    /\ faults' = faults + (IF Others(t) = {} THEN 0 ELSE 1) /\ faults' <= MaxFaults
    /\ UNCHANGED <<row, admission, memory, memo, tools, failed, knew, reopened, free>>

StartHooks(t) ==
    /\ pc[t] = "start" /\ Ask(t, "turn_start", Fired(t, "turn_start"), Open)
    /\ UNCHANGED <<row, memory, memo, tools, knew, reopened, free, overlapped>>

Stimulus(t) ==
    /\ pc[t] = "stimulus"
    /\ \E hits \in SUBSET Fired(t, "stimulus") : Ask(t, "stimulus", hits, Open)
    /\ UNCHANGED <<row, memory, memo, tools, knew, reopened, free, overlapped>>

\* Faulty variant: only what this turn issued
LoadPending(t) ==
    /\ Jump(t, "load", "round")
    /\ ledger' = [ledger EXCEPT ![t] = pending[t]]
    /\ pending' = [pending EXCEPT ![t] = {}] /\ knew' = [knew EXCEPT ![t] = Open]
    /\ UNCHANGED <<row, admission, waivers, facts, blocked, called, rounds, tools, write, memo,
                   failed, faults, reopened, free, overlapped>>
\* phase_debt_load; rows that cannot be read are none
Load(t) ==
    /\ Jump(t, "load", "round")
    /\ \/ ledger' = [ledger EXCEPT ![t] = Open \cup pending[t]] /\ NoFault
       \/ ledger' = [ledger EXCEPT ![t] = pending[t]] /\ Fault("load")
    /\ pending' = [pending EXCEPT ![t] = {}]
    /\ knew' = [knew EXCEPT ![t] = Open] /\ reopened' = [reopened EXCEPT ![t] = {}]
    /\ UNCHANGED <<row, admission, waivers, facts, blocked, called, rounds, tools, write, memo,
                   free, overlapped>>

-----------------------------------------------------------------------------
\* The rounds of the agent loop

Mine(t, kind) == {<<t, kind>>}
\* The accounting of a round: contracts without a result, and the engagement that booked nothing
Accounted(t) ==
    (ledger[t] \ {<<t, Check>>, <<t, Cluster>>})
    \cup (IF "hung" \in facts[t] THEN Mine(t, Check) ELSE {})
    \cup (IF Tight /\ "rolled" \in facts[t] /\ "booked" \notin facts[t]
          THEN Mine(t, Cluster) ELSE {})

Round(t) ==
    /\ rounds[t] < MaxRounds
    /\ Jump(t, "round", "tools")
    /\ rounds' = [rounds EXCEPT ![t] = @ + 1]
    /\ called' = [called EXCEPT ![t] = FALSE]
    /\ ledger' = [ledger EXCEPT ![t] = Accounted(t)]
    /\ blocked' = [blocked EXCEPT ![t] = \E o \in Accounted(t) : ~Waived(t, o)]
    /\ UNCHANGED <<row, admission, pending, waivers, facts, tools, write, memo, past>>

\* The stream ends.  After tools, or with its text held back, the next round begins
NextRound(t) ==
    /\ called[t] \/ blocked[t]
    /\ Jump(t, "tools", "round")
    /\ UNCHANGED <<row, admission, memory, memo, past>>
Narrate(t) ==
    /\ ~called[t] /\ ~blocked[t]
    /\ Jump(t, "tools", "verify")
    /\ free' = free \cup {t}
    /\ UNCHANGED <<row, admission, memory, memo, tools, failed, faults, knew, reopened, overlapped>>

\* No round is left, or the model does not answer: one more call, without tools, and no text of it
\* is held back
Forced(t) ==
    /\ Jump(t, "round", "verify")
    /\ UNCHANGED <<row, admission, memory, memo, past>>

-----------------------------------------------------------------------------
\* Tools

Call(t) == pc[t] = "tools" /\ called' = [called EXCEPT ![t] = TRUE]
Change(t) == Call(t) /\ tools < MaxTools /\ tools' = tools + 1

\* A tool that leaves all this alone, or fails before it changes anything
Look(t) ==
    /\ Call(t)
    /\ UNCHANGED <<row, pc, admission, pending, ledger, waivers, facts, blocked, rounds, tools,
                   write, memo, past>>

Writing(t, dues, status) ==
    /\ pc' = [pc EXCEPT ![t] = IF dues = {} THEN "tools" ELSE "write"]
    /\ write' = IF dues = {} THEN write
                ELSE [write EXCEPT ![t].rows = dues, ![t].as = status]

\* waive_obligation: what blocks, in the ledger; for a due the row follows
Waive(t) ==
    /\ Change(t)
    /\ \E o \in Blocking(t), s \in Scopes :
          /\ waivers' = [waivers EXCEPT ![t] = @ \cup {<<o, s>>}]
          /\ Writing(t, {o} \cap Dues, s)
    /\ UNCHANGED <<row, admission, pending, ledger, facts, blocked, rounds, memo, failed, faults,
                   knew, reopened, free, overlapped>>

\* detect_threshold_dues: the row of a crossing, for the next turn; a failing insert is ignored
Cross(t) ==
    \/ UNCHANGED row /\ NoFault
    \/ /\ row[<<t, Crossing>>] = "none"
       /\ \/ row' = [row EXCEPT ![<<t, Crossing>>] = "open"] /\ NoFault
          \/ UNCHANGED row /\ Fault("insert")

Of(t, m) == {o \in ledger[t] : o[2] \in Hooks /\ Mech[o[2]] = m}

\* roll_check for a mechanic: a passive one is resolved without a roll, else a contract is
\* inserted and executed, with or without an effect.  Then the dues of the mechanic go.
Roll(t) ==
    /\ Change(t)
    /\ \E m \in {Mech[h] : h \in Hooks}, came \in {{}, {"rolled"}, {"rolled", "booked"}} :
          /\ facts' = [facts EXCEPT ![t] = @ \cup came]
          /\ ledger' = [ledger EXCEPT ![t] = @ \ Of(t, m)]
          /\ Writing(t, Of(t, m) \cap Dues, "resolved")
          /\ IF came = {} THEN UNCHANGED row /\ NoFault ELSE Cross(t)
    /\ UNCHANGED <<admission, pending, waivers, blocked, rounds, memo,
                   knew, reopened, free, overlapped>>
\* The contract is there and its execution fails
RollFails(t) ==
    /\ Change(t) /\ Fault("list")
    /\ facts' = [facts EXCEPT ![t] = @ \cup {"hung"}]
    /\ UNCHANGED <<row, pc, admission, pending, ledger, waivers, blocked, rounds, write, memo,
                   knew, reopened, free, overlapped>>

ApplyEffect(t) ==
    /\ Change(t) /\ Cross(t)
    /\ facts' = [facts EXCEPT ![t] = @ \cup {"booked"}]
    /\ UNCHANGED <<pc, admission, pending, ledger, waivers, blocked, rounds, write, memo,
                   knew, reopened, free, overlapped>>

\* update_mechanic_due_status, whatever the row says; an error is ignored
WriteRows(t) ==
    /\ Jump(t, "write", "tools")
    /\ \E lost \in {{}} \cup {{d} : d \in write[t].rows} :
          /\ row' = [d \in Dues |->
                        IF d \in write[t].rows \ lost /\ row[d] # "none"
                        THEN write[t].as ELSE row[d]]
          /\ IF lost = {} THEN NoFault ELSE Fault("write")
    /\ write' = [write EXCEPT ![t].rows = {}, ![t].as = "resolved"]
    /\ UNCHANGED <<admission, pending, ledger, waivers, facts, blocked, called, rounds, tools, memo,
                   knew, reopened, free, overlapped>>

\* Faulty variant: whatever is settled
ReopeningAll == {d \in Dues : row[d] \notin {"none", "open"}}
Reopening == {d \in Dues : row[d] = "scene"}
ReopenRows(dues) ==
    /\ row' = [d \in Dues |-> IF d \in dues THEN "open" ELSE row[d]]
    /\ reopened' = [t \in Turns |->
                       IF pc[t] \in {"round", "tools", "write", "verify", "waived", "resolved", "insert"}
                       THEN reopened[t] \cup dues ELSE reopened[t]]

\* navigate_scene: the rows waived for the scene are reopened, then the ledger's waivers
\* go, then the hooks of the new scene are asked.  A failing update ends the call.
Navigate(t) ==
    /\ Change(t)
    /\ \/ /\ ReopenRows(Reopening)
          /\ waivers' = [waivers EXCEPT ![t] = {w \in @ : w[2] # "scene"}]
          /\ Ask(t, "scene_enter", Fired(t, "scene_enter"), Open \cup Reopening)
       \/ Fault("write") /\ UNCHANGED <<row, reopened, waivers, pc, admission>>
    /\ UNCHANGED <<pending, ledger, facts, blocked, rounds, write, memo, knew, free, overlapped>>

\* advance_time: the hooks that the advance crosses
AdvanceTime(t) ==
    /\ Change(t)
    /\ \E hooks \in SUBSET Fired(t, "time_advance") : Ask(t, "time_advance", hooks, Open)
    /\ UNCHANGED <<row, pending, ledger, waivers, facts, blocked, rounds, write, memo,
                   knew, reopened, free, overlapped>>

-----------------------------------------------------------------------------
\* The end of a turn

\* What the verifier misses in the narration is a debt
Verify(t) ==
    /\ Jump(t, "verify", "carry")
    /\ \E debts \in {{}, Mine(t, Retro)} : ledger' = [ledger EXCEPT ![t] = @ \cup debts]
    /\ Forget(t)
    /\ free' = free \ {t}
    /\ UNCHANGED <<row, waivers, memo, tools, failed, faults, overlapped>>

\* Faulty variant: decided before the narration was verified
CarryOld(t) ==
    /\ Jump(t, "carry", "done")
    /\ memo' = IF \E o \in Blocking(t) : o[2] # Retro THEN memo \cup Blocking(t) ELSE memo
    /\ ledger' = [ledger EXCEPT ![t] = Blocking(t)] /\ waivers' = [waivers EXCEPT ![t] = {}]
    /\ UNCHANGED <<row, admission, pending, facts, blocked, called, rounds, write, past>>
\* phase_carryover_debt
Carry(t) ==
    /\ Jump(t, "carry", "done")
    /\ \/ memo' = memo \cup Blocking(t) /\ NoFault
       \/ Blocking(t) # {} /\ Fault("carry") /\ UNCHANGED memo
    /\ ledger' = [ledger EXCEPT ![t] = Blocking(t)] /\ waivers' = [waivers EXCEPT ![t] = {}]
    /\ UNCHANGED <<row, admission, pending, facts, blocked, called, rounds, tools, write,
                   knew, reopened, free, overlapped>>

\* The loop waits for the player's dice or is cancelled: nothing is carried over
Leave(t) ==
    /\ Jump(t, "round", "dropped") \/ Jump(t, "tools", "dropped")
    /\ Forget(t)
    /\ ledger' = [ledger EXCEPT ![t] = {}] /\ waivers' = [waivers EXCEPT ![t] = {}]
    /\ UNCHANGED <<row, memo, tools, failed, faults, free, overlapped>>

Die(t) ==
    /\ pc[t] \notin {"idle"} \cup Over
    /\ pc' = [pc EXCEPT ![t] = "dropped"]
    /\ faults < MaxFaults /\ faults' = faults + 1
    /\ Forget(t)
    /\ ledger' = [ledger EXCEPT ![t] = {}] /\ waivers' = [waivers EXCEPT ![t] = {}]
    /\ UNCHANGED <<row, memo, tools, failed, free, overlapped>>

Loop(t) == Round(t) \/ NextRound(t) \/ Narrate(t) \/ Forced(t)
Tool(t) ==
    \/ Look(t) \/ Waive(t) \/ Roll(t) \/ RollFails(t) \/ ApplyEffect(t) \/ WriteRows(t)
    \/ Navigate(t) \/ AdvanceTime(t)
Step(t) ==
    \/ Begin(t) \/ StartHooks(t) \/ Stimulus(t) \/ ListWaived(t) \/ ListResolved(t)
    \/ Insert(t) \/ Load(t) \/ Loop(t) \/ Tool(t) \/ Verify(t) \/ Carry(t)
    \/ Leave(t) \/ Die(t)
Next == \E t \in Turns : Step(t)
Spec == Init /\ [][Next]_vars

-----------------------------------------------------------------------------
\* Properties

\* A turn that was narrated of its own accord, not forced, has dealt with every due that was open
\* when it began: it is resolved or waived, or a change of scene reopened it since.  However turns
\* overlap; not claimed when the rows could not be read or written.
EarlierDuesHandled ==
    failed \cap {"load", "write"} = {} =>
        \A t \in free : pc[t] = "verify" => knew[t] \cap Open \subseteq reopened[t]

\* While turns do not overlap, a hook never has two open dues, through waivers, changes of scene and
\* rolls of any order: admit_dues "guards against flooding with debts".  Not claimed when the scope
\* of a waiver could not be read.
OneOpenPerHook ==
    \/ overlapped \/ "scope" \in failed
    \/ \A d, e \in Open : d[2] \in Hooks /\ d[2] = e[2] => d = e

\* While turns do not overlap, a resolved due stays resolved: no waiver and no change of scene takes
\* it up again.  The statements that write a row ask nothing of the state it is in.
SettledStays ==
    [][~overlapped' => \A d \in Dues : row[d] = "resolved" => row'[d] = "resolved"]_vars

\* A mechanic whose due was resolved is not called for again through the same key, while turns do not
\* overlap: "a settled mechanic is not nominated again by the tail of the fight" (watcher.rs).
NotCalledAgain ==
    [][~overlapped' =>
         \A d \in Dues : row[d] = "none" /\ row'[d] = "open" /\ d[2] \in Hooks
                            => Key[d[2]] \notin KeysOf(WithStatus("resolved"))]_vars

\* What still blocks at the end of a narrated turn is told to the next one, also what was found
\* after the narration, unless the memory could not be saved.
CarriedOver ==
    "carry" \in failed \/ \A t \in Turns : pc[t] = "done" => Blocking(t) \subseteq memo

=============================================================================
