---------------------------- MODULE StagedParse ----------------------------
(***************************************************************************)
(* The staged parse of a ruleset.                                          *)
(*                                                                         *)
(* A request to ingest a ruleset starts a task that works in three stages: *)
(* the identity of the game, the character sheet, and the rules. Each      *)
(* stage asks a model and then writes the kernel, one row of the ruleset   *)
(* that every stage of every parse replaces as a whole. The progress goes  *)
(* to the row of the job, which the client follows as a stream. Nothing    *)
(* keeps a ruleset from being ingested again while a parse of it runs.     *)
(*                                                                         *)
(* A value read is known by the parse that read it. The notes that a stage *)
(* reports between its begin and its end repeat the status and the         *)
(* progress and are left out, as are the files beside the rows.            *)
(***************************************************************************)
EXTENDS Naturals, FiniteSets

CONSTANTS
    Parses,    \* requests to ingest the ruleset
    Short,     \* those with stage1_only
    None,      \* an empty part of the kernel, or no pack
    MaxFaults  \* bound: failing statements, dropped requests and crashes

ASSUME ParsesAssumption == Short \subseteq Parses /\ None \notin Parses
ASSUME BoundAssumption  == MaxFaults \in Nat

VARIABLES
    kernel,  \* rule_kernels.content_json
    pack,    \* character_onboarding_packs: whose sheet the pack is made for
    row,     \* background_jobs, a row for every parse
    pc,      \* where a parse is
    st,      \* its JobStatus
    copy,    \* the kernel it is about to write
    stream,  \* ingest_events: the stream of a client that follows a parse
    vague,   \* history: parses for which a model gave no identity of the game
    lost,    \* history: parses of which a statement on the kernel or the pack failed
    raced,   \* history: a parse began while another ran
    faults   \* faults so far

past == <<vague, lost, raced>>
vars == <<kernel, pack, row, pc, st, copy, stream, past, faults>>

Stages   == {"identity", "character", "deep"}
Progress == {0, 5, 35, 100}
Whose    == Parses \cup {None}
Kernel   == [identity : Whose, sheet : Whose, rules : Whose]
Reports  == {"begin_identity", "end_identity", "begin_character", "end_character",
             "begin_deep", "end_deep", "verdict"}
Upserts  == {"upsert_identity", "upsert_character", "upsert_deep"}
Labels   == Reports \cup Upserts \cup {"idle", "plan", "read", "load", "pack", "rules", "starter",
                                       "over"}

\* Every variable keeps its type.
TypeOK ==
    /\ kernel \in Kernel /\ pack \in Whose
    /\ row \in [Parses -> [status : {"none", "queued", "running", "done", "failed"},
                           stage : Stages, progress : Progress]]
    /\ pc \in [Parses -> Labels]
    /\ st \in [Parses -> [stage : Stages, progress : Progress, error : {"none", "character"}]]
    /\ copy \in [Parses -> Kernel]
    /\ stream \in [Parses -> {"none", "open", "ended"}]
    /\ vague \subseteq Parses /\ lost \subseteq Parses /\ raced \in BOOLEAN
    /\ faults \in 0..MaxFaults

Empty == [identity |-> None, sheet |-> None, rules |-> None]

Init ==
    /\ kernel = Empty /\ pack = None
    /\ row = [p \in Parses |-> [status |-> "none", stage |-> "identity", progress |-> 0]]
    /\ pc = [p \in Parses |-> "idle"]
    /\ st = [p \in Parses |-> [stage |-> "identity", progress |-> 0, error |-> "none"]]
    /\ copy = [p \in Parses |-> Empty]
    /\ stream = [p \in Parses |-> "none"]
    /\ vague = {} /\ lost = {} /\ raced = FALSE /\ faults = 0

Jump(p, from, to) == pc[p] = from /\ pc' = [pc EXCEPT ![p] = to]
Fault == faults < MaxFaults /\ faults' = faults + 1
Busy  == {p \in Parses : pc[p] \notin {"idle", "over"}}

-----------------------------------------------------------------------------
\* The job and its row

\* insert_background_job under a fresh id, and the spawn
Ingest(p) ==
    /\ Jump(p, "idle", "begin_identity")
    /\ row' = [row EXCEPT ![p].status = "queued"]
    /\ raced' = (raced \/ Busy # {})
    /\ UNCHANGED <<kernel, pack, st, copy, stream, vague, lost, faults>>
\* The statement fails, or the request is dropped while it waits for it: nothing is spawned
IngestLost(p) ==
    /\ Fault /\ Jump(p, "idle", "over")
    /\ \/ row' = [row EXCEPT ![p].status = "queued"]
       \/ UNCHANGED row
    /\ UNCHANGED <<kernel, pack, st, copy, stream, past>>

\* What a parse does once it has reported
After(p) ==
    [r \in Reports |->
        CASE r = "begin_identity"  -> "plan"
          [] r = "end_identity"    -> "begin_character"
          [] r = "begin_character" -> "read"
          [] r = "end_character"   -> IF p \in Short THEN "verdict" ELSE "begin_deep"
          [] r = "begin_deep"      -> "rules"
          [] r = "end_deep"        -> "verdict"
          [] r = "verdict"         -> "over"]

Begin(p) ==
    CASE pc[p] = "end_identity" -> [st EXCEPT ![p].stage = "character"]
      [] pc[p] = "end_character" /\ p \notin Short -> [st EXCEPT ![p].stage = "deep"]
      [] OTHER -> st

\* Faulty variant: the shares of the stages are added up
FinishAdded(p, stage) ==
    st' = [st EXCEPT ![p].progress = @ + CASE stage = "identity"  -> 5
                                           [] stage = "character" -> 35
                                           [] stage = "deep"      -> 100]
\* The share of the whole that is done once the stage is
Finish(p, stage) ==
    st' = [st EXCEPT ![p].progress = CASE stage = "identity"  -> 5
                                       [] stage = "character" -> 35
                                       [] stage = "deep"      -> 100]

\* Faulty variant: a failed parse ends like any other
StatusDone(p) == IF pc[p] = "verdict" THEN "done" ELSE "running"
\* The status of a report: an error counts as long as there is no sheet
Status(p) ==
    IF pc[p] # "verdict" THEN "running"
    ELSE IF st[p].error # "none" /\ st[p].progress < 35 THEN "failed" ELSE "done"

\* Faulty variant: the end of the parse is not reported
ReportBut(p) ==
    /\ pc[p] \in Reports /\ pc' = [pc EXCEPT ![p] = After(p)[pc[p]]]
    /\ row' = IF pc[p] = "verdict" THEN row
              ELSE [row EXCEPT ![p] = [status |-> Status(p), stage |-> st[p].stage,
                                       progress |-> st[p].progress]]
    /\ st' = Begin(p)
    /\ UNCHANGED <<kernel, pack, copy, stream, past, faults>>
\* update_background_job, and on; an error of the statement is ignored
Report(p) ==
    /\ pc[p] \in Reports /\ pc' = [pc EXCEPT ![p] = After(p)[pc[p]]]
    /\ \/ /\ row' = [row EXCEPT ![p] = [status |-> Status(p), stage |-> st[p].stage,
                                        progress |-> st[p].progress]]
          /\ UNCHANGED faults
       \/ Fault /\ UNCHANGED row
    /\ st' = Begin(p)
    /\ UNCHANGED <<kernel, pack, copy, stream, past>>

\* ingest_events: a client begins to follow the parse it has the id of
Follow(p) ==
    /\ stream[p] = "none" /\ row[p].status # "none"
    /\ stream' = [stream EXCEPT ![p] = "open"]
    /\ UNCHANGED <<kernel, pack, row, pc, st, copy, past, faults>>
\* A look at the row that ends the stream; any other sends a snapshot and looks again
Look(p) ==
    /\ stream[p] = "open" /\ row[p].status \in {"done", "failed"}
    /\ stream' = [stream EXCEPT ![p] = "ended"]
    /\ UNCHANGED <<kernel, pack, row, pc, st, copy, past, faults>>
LookFails(p) ==
    /\ Fault /\ stream[p] = "open"
    /\ stream' = [stream EXCEPT ![p] = "ended"]
    /\ UNCHANGED <<kernel, pack, row, pc, st, copy, past>>

-----------------------------------------------------------------------------
\* The stages

Or(cond, p) == IF cond THEN p ELSE None
Vague(p, said) == vague' = IF said THEN vague ELSE vague \cup {p}

\* plan_phase: without an answer the plan is empty. The kernel is a new one
Plan(p) ==
    /\ Jump(p, "plan", "upsert_identity")
    /\ \E said \in BOOLEAN :
          /\ copy' = [copy EXCEPT ![p] = [Empty EXCEPT !.identity = Or(said, p)]]
          /\ Vague(p, said)
    /\ UNCHANGED <<kernel, pack, row, st, stream, lost, raced, faults>>

\* upsert_rule_kernel; an error is ignored, or noted
Upserted(p) ==
    \/ kernel' = copy[p] /\ UNCHANGED <<lost, faults>>
    \/ Fault /\ lost' = lost \cup {p} /\ UNCHANGED kernel
UpsertKernel(p) ==
    /\ \/ Jump(p, "upsert_identity", "end_identity") /\ Finish(p, "identity")
       \/ Jump(p, "upsert_character", "pack") /\ UNCHANGED st
       \/ Jump(p, "upsert_deep", "starter") /\ UNCHANGED st
    /\ Upserted(p)
    /\ UNCHANGED <<pack, row, copy, stream, vague, raced>>

\* read_character_slice; without a slice the parse has failed
ReadSheet(p) ==
    /\ \/ Jump(p, "read", "load") /\ UNCHANGED st
       \/ Jump(p, "read", "verdict") /\ st' = [st EXCEPT ![p].error = "character"]
    /\ UNCHANGED <<kernel, pack, row, copy, stream, past, faults>>

\* Faulty variant: the sheet goes into a kernel of its own
LoadNothing(p) ==
    /\ Jump(p, "load", "upsert_character")
    /\ copy' = [copy EXCEPT ![p] = [Empty EXCEPT !.sheet = p]]
    /\ UNCHANGED <<kernel, pack, row, st, stream, past, faults>>
\* load_rule_kernel, or a new kernel if that fails, with the sheet
LoadKernel(p) ==
    /\ Jump(p, "load", "upsert_character")
    /\ \/ /\ copy' = [copy EXCEPT ![p] = [kernel EXCEPT !.sheet = p]]
          /\ UNCHANGED <<lost, faults>>
       \/ /\ copy' = [copy EXCEPT ![p] = [Empty EXCEPT !.sheet = p]]
          /\ Fault /\ lost' = lost \cup {p}
    /\ UNCHANGED <<kernel, pack, row, st, stream, vague, raced>>

\* upsert_character_onboarding_pack, of stage 1 or with the starter characters of stage 2
UpsertPack(p) ==
    /\ \/ Jump(p, "pack", "end_character") /\ Finish(p, "character")
       \/ Jump(p, "starter", "end_deep") /\ Finish(p, "deep")
    /\ \/ pack' = p /\ UNCHANGED <<lost, faults>>
       \/ Fault /\ lost' = lost \cup {p} /\ UNCHANGED pack
    /\ UNCHANGED <<kernel, row, copy, stream, vague, raced>>

\* Faulty variant: the sheet is left to the pack
ReadRulesBare(p) ==
    /\ Jump(p, "rules", "upsert_deep")
    /\ \E read \in BOOLEAN, said \in BOOLEAN :
          /\ said => read
          /\ copy' = [copy EXCEPT ![p] = [identity |-> Or(said, p), sheet |-> None,
                                          rules |-> Or(read, p)]]
          /\ Vague(p, said)
    /\ UNCHANGED <<kernel, pack, row, st, stream, lost, raced, faults>>
\* read_resolution_and_gm, and the kernel made of what it read: the sheet it has from stage 1,
\* the identity only from here
ReadRules(p) ==
    /\ Jump(p, "rules", "upsert_deep")
    /\ \E read \in BOOLEAN, said \in BOOLEAN :
          /\ said => read
          /\ copy' = [copy EXCEPT ![p] = [identity |-> Or(said, p), sheet |-> p,
                                          rules |-> Or(read, p)]]
          /\ Vague(p, said)
    /\ UNCHANGED <<kernel, pack, row, st, stream, lost, raced, faults>>

-----------------------------------------------------------------------------
\* The server dies: every parse is gone, and every stream
Crash ==
    /\ Fault
    /\ pc' = [p \in Parses |-> IF pc[p] = "idle" THEN "idle" ELSE "over"]
    /\ stream' = [p \in Parses |-> "none"]
    /\ UNCHANGED <<kernel, pack, row, st, copy, past>>

ParseStep(p) ==
    Report(p) \/ Plan(p) \/ UpsertKernel(p) \/ ReadSheet(p) \/ LoadKernel(p) \/ UpsertPack(p)
        \/ ReadRules(p)

Next ==
    \/ \E p \in Parses : Ingest(p) \/ IngestLost(p) \/ ParseStep(p)
    \/ \E p \in Parses : Follow(p) \/ Look(p) \/ LookFails(p)
    \/ Crash

Spec == Init /\ [][Next]_vars

\* Models answer or time out, statements return, and the stream looks at the row every 750 ms
Fairness == \A p \in Parses : WF_vars(ParseStep(p)) /\ WF_vars(Look(p))
FairSpec == Spec /\ Fairness

-----------------------------------------------------------------------------
\* Properties

\* p has put its new kernel in the place of the old one and has no sheet for it yet
Replaced(p) ==
    st[p].progress < 35 /\ pc[p] \notin {"idle", "begin_identity", "plan", "upsert_identity"}

\* Once a job has reported 35 percent, /character-template has a sheet, whatever later stages
\* and models do and however parses overlap. It goes only to a later parse that has
\* replaced the kernel and has not come to its own sheet, or to failing statements.
SheetServed ==
    (\E p \in Parses : row[p].progress >= 35) =>
        kernel.sheet # None \/ lost # {} \/ \E q \in Parses : Replaced(q)

\* Once a job has reported 5 percent, /identity has one, through every overlap, unless a
\* model gave none or a statement failed.
IdentityServed ==
    (\E p \in Parses : row[p].progress >= 5) =>
        kernel.identity # None \/ vague # {} \/ lost # {}

Parts(k) == {k.identity, k.sheet, k.rules} \ {None}

\* The kernel is of one reading of the book: parses that follow each other leave nothing of the
\* earlier one in it, be it complete or given up. (Parses that overlap may mix.)
OneSource == ~raced /\ lost = {} => Cardinality(Parts(kernel)) <= 1

\* The sheet of the kernel and the pack a character is made with are of the same reading, but
\* for the moment between the two statements, in which the server may die. (Parses that overlap may leave them apart.)
PackOfSheet ==
    ~raced /\ lost = {} =>
        \/ kernel.sheet \in {None, pack}
        \/ \E p \in Parses :
              p = kernel.sheet /\ (pc[p] = "pack" \/ (pc[p] = "over" /\ st[p].progress < 35))

\* The verdict is about the sheet: a job that failed has written neither a sheet nor a pack, and
\* one that is done has got as far as its sheet, even if the stage after it came to nothing.
VerdictTrue ==
    \A p \in Parses :
        /\ row[p].status = "failed" => kernel.sheet # p /\ pack # p
        /\ row[p].status = "done" => row[p].progress >= 35 /\ (p \notin lost => pack # None)

\* The stream of a client comes to an end, unless something has failed.
StreamEnds ==
    \A p \in Parses : stream[p] = "open" ~> (stream[p] = "ended" \/ faults > 0)
=============================================================================
