-------------------------- MODULE ModuleExtraction --------------------------
(***************************************************************************)
(* The graph of a module's scenes, and the tasks that fill it in.          *)
(*                                                                         *)
(* The parse of a module leaves a graph in which most scenes are stubs.    *)
(* Two background jobs and the tail of every turn that moved the party     *)
(* complete it: extract/continue reads every stub, skeleton/complete adds  *)
(* stubs for scenes the first pass missed, and a turn reads the scene the  *)
(* party has come to and then the exits of that scene. Each of them loads  *)
(* the whole bundle, works on the copy for as long as its model takes, and *)
(* writes the whole bundle back. Nothing locks the row. A request for a    *)
(* job looks at the status of the last one first, and the status is all    *)
(* that is left of a job when the server dies.                             *)
(*                                                                         *)
(* What a model returns for a scene is a choice: nothing, links alone, or  *)
(* a text. A second parse of the module and the navigate tool of the       *)
(* command line, which reads a scene in the turn itself, are left out.     *)
(***************************************************************************)
EXTENDS Naturals, FiniteSets

CONSTANTS
    Scenes,       \* node ids: those of the parsed module and those its contents name
    Parsed,       \* scenes the parse found
    Entry,        \* the scene the parse read in full, where the party is
    Exits,        \* the links that a reading of a scene finds
    Named, Told,  \* the entities that the stub of a scene and that its text refer to
    Extractors,   \* requests for extract/continue
    Completers,   \* requests for skeleton/complete
    Turns,        \* turns that may move the party
    Casts,        \* bound: which of these tasks may be asked for in one life of the module
    MaxPrefetch,  \* FRONTIER_PREFETCH_MAX
    MaxFaults     \* bound: failing statements, dropped requests and crashes

ASSUME GraphAssumption ==
    /\ IsFiniteSet(Scenes) /\ Parsed \subseteq Scenes /\ Entry \in Parsed
    /\ Exits \in [Scenes -> SUBSET Scenes]
ASSUME TasksAssumption ==
    /\ Extractors \cap Completers = {} /\ Extractors \cap Turns = {} /\ Completers \cap Turns = {}
    /\ Casts \subseteq SUBSET (Extractors \cup Completers \cup Turns)
ASSUME BoundsAssumption == MaxPrefetch \in Nat /\ MaxFaults \in Nat

Jobs  == Extractors \cup Completers
Tasks == Jobs \cup Turns
Kinds == {"module_extract_continue", "module_skeleton_complete"}
Kind(t) == IF t \in Extractors THEN "module_extract_continue" ELSE "module_skeleton_complete"

VARIABLES
    graph,     \* parsed_bundles.content_json -> module_graph
    status,    \* background_jobs.status of the module's two jobs
    party,     \* sessions.current_scene_id
    pc,        \* where a task is
    copy,      \* the bundle a task has loaded
    wanted,    \* the scenes an extraction is to read
    left,      \* exits that a turn has yet to read
    target,    \* the scene a turn moved the party to
    cut,       \* history: the turn found more exits than it may read
    refused,   \* history: scenes of which a reading got no text
    stale,     \* history: tasks whose copy another task has since overtaken
    overtaken, \* history: such a copy was written back
    raced,     \* history: jobs of which two requests were let through at once
    orphaned,  \* history: jobs whose end was not recorded
    faults     \* faults so far

locals == <<copy, wanted, left, target>>
past   == <<cut, refused, overtaken, raced, orphaned>>
vars   == <<graph, status, party, pc, locals, stale, past, faults>>

Graph    == [present : SUBSET Scenes, deep : SUBSET Scenes, links : [Scenes -> SUBSET Scenes]]
Labels   == {"idle", "insert", "start", "arrive", "load", "work", "save", "frontier", "exits",
             "done", "error", "over"}
Statuses == {"none", "queued", "running", "done", "error"}

\* Every variable keeps its type, and no turn has more exits to read than it may.
TypeOK ==
    /\ graph \in Graph
    /\ status \in [Kinds -> Statuses]
    /\ party \in Scenes
    /\ pc \in [Tasks -> Labels]
    /\ copy \in [Tasks -> Graph]
    /\ wanted \in [Tasks -> SUBSET Scenes] /\ left \in [Turns -> SUBSET Scenes]
    /\ \A t \in Turns : Cardinality(left[t]) <= MaxPrefetch
    /\ target \in [Turns -> SUBSET Scenes]
    /\ cut \subseteq Turns /\ refused \subseteq Scenes /\ stale \subseteq Tasks
    /\ overtaken \in BOOLEAN /\ raced \subseteq Kinds /\ orphaned \subseteq Kinds
    /\ faults \in 0..MaxFaults

NoGraph == [present |-> {}, deep |-> {}, links |-> [s \in Scenes |-> {}]]

Init ==
    /\ graph = [present |-> Parsed, deep |-> {Entry},
                links |-> [s \in Scenes |-> IF s = Entry THEN Exits[s] \cap Parsed ELSE {}]]
    /\ status = [k \in Kinds |-> "none"]
    /\ party = Entry
    /\ \E cast \in Casts : pc = [t \in Tasks |-> IF t \in cast THEN "idle" ELSE "over"]
    /\ copy = [t \in Tasks |-> NoGraph]
    /\ wanted = [t \in Tasks |-> IF t \in Jobs THEN Scenes ELSE {}] /\ left = [t \in Turns |-> {}]
    /\ target = [t \in Turns |-> {}]
    /\ cut = {} /\ refused = {} /\ stale = {} /\ overtaken = FALSE
    /\ raced = {} /\ orphaned = {} /\ faults = 0

Jump(t, from, to) == pc[t] = from /\ pc' = [pc EXCEPT ![t] = to]
Fault == faults < MaxFaults /\ faults' = faults + 1

-----------------------------------------------------------------------------
\* The request for a job

Rivals(t) == {u \in Jobs : u # t /\ Kind(u) = Kind(t)}

\* background_job_status: a running job is left to run
Check(t) ==
    /\ Jump(t, "idle", IF status[Kind(t)] = "running" THEN "over" ELSE "insert")
    /\ raced' = IF status[Kind(t)] # "running" /\ \E u \in Rivals(t) : pc[u] \in {"insert", "start"}
                THEN raced \cup {Kind(t)} ELSE raced
    /\ UNCHANGED <<graph, status, party, locals, stale, cut, refused, overtaken, orphaned, faults>>

\* insert_background_job, which queues the row again that is there, and the spawn
Insert(t) ==
    /\ Jump(t, "insert", "start")
    /\ status' = [status EXCEPT ![Kind(t)] = "queued"]
    /\ UNCHANGED <<graph, party, locals, stale, past, faults>>
\* The statement fails, or the request is dropped while it waits for it: no job is spawned
InsertLost(t) ==
    /\ Fault /\ Jump(t, "insert", "over")
    /\ \/ status' = [status EXCEPT ![Kind(t)] = "queued"]
       \/ UNCHANGED status
    /\ UNCHANGED <<graph, party, locals, stale, past>>

Start(t) ==
    /\ Jump(t, "start", "load")
    /\ \/ /\ status' = [status EXCEPT ![Kind(t)] = "running"]
          /\ UNCHANGED <<raced, faults>>
       \/ /\ Fault /\ raced' = raced \cup {Kind(t)}
          /\ UNCHANGED status
    /\ UNCHANGED <<graph, party, locals, stale, cut, refused, overtaken, orphaned>>

\* Faulty variant: nothing is reported
ReportNothing(t) ==
    /\ pc[t] \in {"done", "error"} /\ pc' = [pc EXCEPT ![t] = "over"]
    /\ UNCHANGED <<graph, status, party, locals, stale, past, faults>>
Report(t) ==
    /\ pc[t] \in {"done", "error"} /\ pc' = [pc EXCEPT ![t] = "over"]
    /\ \/ /\ status' = [status EXCEPT ![Kind(t)] = pc[t]]
          /\ UNCHANGED <<orphaned, faults>>
       \/ /\ Fault /\ orphaned' = orphaned \cup {Kind(t)}
          /\ UNCHANGED status
    /\ UNCHANGED <<graph, party, locals, stale, cut, refused, overtaken, raced>>

-----------------------------------------------------------------------------
\* Load, work on the copy, write back

\* Where a task goes when an extraction has ended
Onward(t, outcome) ==
    IF t \in Jobs THEN outcome
    ELSE IF wanted[t] = target[t] THEN "frontier" ELSE "exits"

\* What there is to do: the stubs to be read, or the scenes that are missing
Targets(t, g) ==
    IF t \in Completers THEN Scenes \ g.present ELSE wanted[t] \cap (g.present \ g.deep)

\* load_module_bundle_for_continue
Load(t) ==
    /\ IF Targets(t, graph) = {}
       THEN Jump(t, "load", Onward(t, "done")) /\ UNCHANGED copy
       ELSE /\ Jump(t, "load", "work")
            /\ copy' = [copy EXCEPT ![t] = graph]
    /\ UNCHANGED <<graph, status, party, wanted, left, target, stale, past, faults>>
LoadFails(t) ==
    /\ Fault /\ Jump(t, "load", Onward(t, "error"))
    /\ UNCHANGED <<graph, status, party, locals, stale, past>>

\* Faulty variant: links to scenes that are not in the graph are kept
SubmittedAny(g, s) == g.links[s] \cup Exits[s]
\* The links of s after a submission: those it had, and those to known scenes
Submitted(g, s) == g.links[s] \cup (Exits[s] \cap g.present)

\* apply_bridge_edges: the other scenes that refer to an entity that s refers to
Entities(deep, s) == IF s \in deep THEN Told[s] ELSE Named[s]
Bridges(present, deep, s) ==
    {r \in present \ {s} : s \in present /\ Entities(deep, r) \cap Entities(deep, s) # {}}

\* The graph after submissions for the scenes of read, with a text for those of full
WithRead(g, read, full) ==
    LET deep == g.deep \cup full
    IN  [present |-> g.present, deep |-> deep,
         links |-> [s \in Scenes |-> (IF s \in read THEN Submitted(g, s) ELSE g.links[s])
                                       \cup Bridges(g.present, deep, s)]]

\* Faulty variant: the scenes are those that the second reading of the contents names
WithStubsOnly(g, new) == [g EXCEPT !.present = new]
\* complete_skeleton_stubs: scenes are added, none is touched
WithStubs(g, new) == [g EXCEPT !.present = g.present \cup new]

Give(t, g) == Jump(t, "work", "save") /\ copy' = [copy EXCEPT ![t] = g] /\ UNCHANGED stale
GiveUp(t) ==
    /\ Jump(t, "work", Onward(t, "done")) /\ copy' = [copy EXCEPT ![t] = NoGraph]
    /\ stale' = stale \ {t}

ReadScenes(t) ==
    \E read \in SUBSET Targets(t, copy[t]) : \E full \in SUBSET read :
        /\ refused' = refused \cup (Targets(t, copy[t]) \ full)
        /\ IF full = {} THEN GiveUp(t) ELSE Give(t, WithRead(copy[t], read, full))
AddStubs(t) ==
    /\ \E new \in SUBSET Targets(t, copy[t]) :
          IF new = {} THEN GiveUp(t) ELSE Give(t, WithStubs(copy[t], new))
    /\ UNCHANGED refused

\* The model is asked, scene by scene or round by round; the row is not looked at meanwhile
Work(t) ==
    /\ IF t \in Completers THEN AddStubs(t) ELSE ReadScenes(t)
    /\ UNCHANGED <<graph, status, party, wanted, left, target, cut, overtaken, raced, orphaned,
                   faults>>

Holders == {u \in Tasks : pc[u] \in {"work", "save"}}

Written(t) ==
    /\ graph' = copy[t]
    /\ stale' = (stale \cup Holders) \ {t}
    /\ overtaken' = (overtaken \/ t \in stale)

\* upsert_module_bundle: the row, and then the blocks and the index, which may fail after it
Save(t) ==
    /\ pc[t] = "save" /\ copy' = [copy EXCEPT ![t] = NoGraph]
    /\ \/ Jump(t, "save", Onward(t, "done")) /\ Written(t) /\ UNCHANGED faults
       \/ Jump(t, "save", Onward(t, "error")) /\ Written(t) /\ Fault
       \/ /\ Jump(t, "save", Onward(t, "error")) /\ Fault
          /\ stale' = stale \ {t} /\ UNCHANGED <<graph, overtaken>>
    /\ UNCHANGED <<status, party, wanted, left, target, cut, refused, raced, orphaned>>

-----------------------------------------------------------------------------
\* A turn that moves the party

\* load_module_graph, from which the destination is chosen
ReadMap(t) ==
    /\ Jump(t, "idle", "arrive")
    /\ copy' = [copy EXCEPT ![t] = graph]
    /\ UNCHANGED <<graph, status, party, wanted, left, target, stale, past, faults>>

\* set_session_scene to a scene of the graph that was read, and, after a move of the
\* navigator, the reading of that scene in the tail of the turn
Arrive(t) ==
    /\ \E s \in copy[t].present \ {party} :
          /\ party' = s
          /\ \/ Jump(t, "arrive", "over") /\ UNCHANGED <<wanted, target>>
             \/ /\ Jump(t, "arrive", "load")
                /\ target' = [target EXCEPT ![t] = {s}] /\ wanted' = [wanted EXCEPT ![t] = {s}]
    /\ copy' = [copy EXCEPT ![t] = NoGraph]
    /\ UNCHANGED <<graph, status, left, stale, past, faults>>

\* Faulty variant: the exits that are read already
StubsBeyondRead(s) == (graph.links[s] \cap graph.deep) \ {s}
\* The exits of s that are stubs of the graph
StubsBeyond(s) == (graph.links[s] \cap (graph.present \ graph.deep)) \ {s}

\* Faulty variant: all of them are read
FrontierAll(t) ==
    /\ Jump(t, "frontier", "exits")
    /\ \E s \in target[t] : left' = [left EXCEPT ![t] = StubsBeyond(s)]
    /\ UNCHANGED <<graph, status, party, copy, wanted, target, stale, past, faults>>
\* prefetch_frontier: the graph is read again, for the links the reading has found
Frontier(t) ==
    /\ Jump(t, "frontier", "exits")
    /\ \E s \in target[t] : \E some \in SUBSET StubsBeyond(s) :
          /\ \/ some = StubsBeyond(s) /\ Cardinality(some) <= MaxPrefetch /\ UNCHANGED cut
             \/ /\ some # StubsBeyond(s) /\ Cardinality(some) = MaxPrefetch
                /\ cut' = cut \cup {t}
          /\ left' = [left EXCEPT ![t] = some]
    /\ UNCHANGED <<graph, status, party, copy, wanted, target, stale, refused, overtaken, raced,
                   orphaned, faults>>
FrontierFails(t) ==
    /\ Fault /\ Jump(t, "frontier", "over")
    /\ UNCHANGED <<graph, status, party, locals, stale, past>>

NextExit(t) ==
    /\ IF left[t] = {} THEN /\ Jump(t, "exits", "over")
            /\ wanted' = [wanted EXCEPT ![t] = {}] /\ UNCHANGED left
       ELSE \E e \in left[t] :
                /\ Jump(t, "exits", "load")
                /\ wanted' = [wanted EXCEPT ![t] = {e}] /\ left' = [left EXCEPT ![t] = @ \ {e}]
    /\ UNCHANGED <<graph, status, party, copy, target, stale, past, faults>>

-----------------------------------------------------------------------------
\* The server dies: every task is gone, and nothing at the start looks for jobs
Crash ==
    /\ Fault
    /\ pc' = [t \in Tasks |-> IF pc[t] = "idle" THEN "idle" ELSE "over"]
    /\ copy' = [t \in Tasks |-> NoGraph] /\ stale' = {}
    /\ orphaned' = Kinds
    /\ UNCHANGED <<graph, status, party, wanted, left, target, cut, refused, overtaken, raced>>

JobStep(t)  == Insert(t) \/ Start(t) \/ Report(t)
Extract(t)  == Load(t) \/ Work(t) \/ Save(t)
TurnStep(t) == Arrive(t) \/ Frontier(t) \/ NextExit(t)

Next ==
    \/ \E t \in Jobs : Check(t) \/ InsertLost(t) \/ JobStep(t)
    \/ \E t \in Turns : ReadMap(t) \/ TurnStep(t) \/ FrontierFails(t)
    \/ \E t \in Tasks : Extract(t) \/ LoadFails(t)
    \/ Crash

Spec == Init /\ [][Next]_vars

\* Models answer or time out, and statements return
Fairness ==
    /\ \A t \in Jobs : WF_vars(JobStep(t))
    /\ \A t \in Turns : WF_vars(TurnStep(t))
    /\ \A t \in Tasks : WF_vars(Extract(t))
FairSpec == Spec /\ Fairness

-----------------------------------------------------------------------------
\* Properties

Within(g, h) ==
    g.present \subseteq h.present /\ g.deep \subseteq h.deep
        /\ \A s \in Scenes : g.links[s] \subseteq h.links[s]

Closed(g) ==
    /\ g.deep \subseteq g.present
    /\ \A s \in Scenes : g.links[s] \subseteq g.present
    /\ \A s \in Scenes \ g.present : g.links[s] = {}

\* However the tasks overlap and whatever fails, the row is one whole graph: a link leads from a
\* scene of it to a scene of it, and only a scene of it has a text.
LinksClosed == Closed(graph)

\* The row loses a scene, a text or a link only to a copy that another task had overtaken. So
\* extraction adds and never takes away, a job that is asked for again does no harm, and a failed
\* write leaves the row as it was or complete.
WorkKept == [][~overtaken' => Within(graph, graph')]_vars

\* As long as no task has written an overtaken copy, the party is in a scene of the graph, also
\* when the map it chose from is older than the graph.
PartyOnMap == ~overtaken => party \in graph.present

Running == {"load", "work", "save", "done", "error"}
Runners(k) == {t \in Jobs : Kind(t) = k /\ pc[t] \in Running}

\* One job of a kind runs at a time, unless two requests were let through before either had
\* marked the row: the window that module_extract_continue speaks of is the only one.
OneRunner == \A k \in Kinds \ raced : \A t, u \in Runners(k) : t = u

\* A row that says running has a job behind it, unless the end of one was not recorded. (Else the
\* endpoint answers already_running from then on, and the module is never completed.)
RunningHasRunner == \A k \in Kinds \ orphaned : status[k] = "running" => Runners(k) # {}

\* When the tail of a turn has ended without a fault or a lost write, the scene the party came
\* to has its text, and so has every exit of it that was a scene of the parsed module, but for
\* the scenes that were read in vain and for a frontier larger than the limit.
ReadyAround ==
    \A t \in Turns : \A s \in target[t] :
        pc[t] = "over" /\ faults = 0 /\ ~overtaken =>
            \/ s \in refused
            \/ /\ s \in graph.deep
               /\ t \in cut \/ (Exits[s] \cap Parsed) \ {s} \subseteq graph.deep \cup refused

\* A job that was queued is reported done, or failed, unless something has failed: also when it
\* has been queued twice.
JobAnswered ==
    \A k \in Kinds :
        status[k] \in {"queued", "running"} ~> (status[k] \in {"done", "error"} \/ faults > 0)

=============================================================================
