----------------------- MODULE ModuleExtractionProofs -----------------------
(***************************************************************************)
(* What holds of ModuleExtraction for any graph of scenes and any number   *)
(* of tasks and faults: its types; that the row is always a whole graph;   *)
(* that only an overtaken copy takes anything from it, so that the party   *)
(* stays on the map; what the status of a job says of its runners; that    *)
(* the tail of a turn reads what lies around the party; and that every     *)
(* step leaves less to do, and no job is left without a task.              *)
(***************************************************************************)
EXTENDS ModuleExtraction, FiniteSetTheorems, TLAPS

-----------------------------------------------------------------------------
\* Graphs

\* What a reading makes of a graph is a graph, closed if it was, that has lost nothing.
LEMMA ReadGraph ==
  ASSUME NEW g \in Graph, NEW read \in SUBSET g.present, NEW full \in SUBSET read
  PROVE  /\ WithRead(g, read, full) \in Graph
         /\ Within(g, WithRead(g, read, full))
         /\ Closed(g) => Closed(WithRead(g, read, full))
<1> DEFINE deep == g.deep \cup full
           h    == WithRead(g, read, full)
<1>1. /\ g.present \in SUBSET Scenes /\ g.deep \in SUBSET Scenes
      /\ g.links \in [Scenes -> SUBSET Scenes]
  BY DEF Graph
<1>2. /\ h.present = g.present /\ h.deep = deep
      /\ \A s \in Scenes : h.links[s] = (IF s \in read THEN Submitted(g, s) ELSE g.links[s])
                                            \cup Bridges(g.present, deep, s)
  BY DEF WithRead
<1>3. \A s \in Scenes : Submitted(g, s) \subseteq Scenes /\ g.links[s] \subseteq Submitted(g, s)
  BY <1>1 DEF Submitted
<1>4. \A s \in Scenes : Bridges(g.present, deep, s) \subseteq g.present
  BY DEF Bridges
<1>5. h \in Graph
  <2>1. deep \subseteq Scenes
    BY <1>1
  <2>2. \A s \in Scenes : (IF s \in read THEN Submitted(g, s) ELSE g.links[s])
                              \cup Bridges(g.present, deep, s) \in SUBSET Scenes
    BY <1>1, <1>3, <1>4, <2>1
  <2> QED
    BY <1>1, <2>1, <2>2 DEF WithRead, Graph
<1>6. Within(g, h)
  BY <1>2, <1>3 DEF Within
<1>7. ASSUME Closed(g) PROVE Closed(h)
  <2>1. deep \subseteq g.present
    BY <1>7 DEF Closed
  <2>2. \A s \in Scenes : Submitted(g, s) \subseteq g.present /\ g.links[s] \subseteq g.present
    BY <1>7 DEF Closed, Submitted
  <2>3. ASSUME NEW s \in Scenes \ g.present PROVE h.links[s] = {}
    <3>1. s \notin read
      BY <2>3
    <3>2. Bridges(g.present, deep, s) = {} /\ g.links[s] = {}
      BY <1>7, <2>3 DEF Bridges, Closed
    <3> QED
      BY <1>2, <3>1, <3>2
  <2>4. ASSUME NEW s \in Scenes PROVE h.links[s] \subseteq g.present
    <3>1. Bridges(g.present, deep, s) \subseteq g.present
      BY <1>4
    <3>2. h.links[s] = (IF s \in read THEN Submitted(g, s) ELSE g.links[s])
                         \cup Bridges(g.present, deep, s)
      BY <1>2
    <3> HIDE DEF h
    <3> QED
      BY <2>2, <3>1, <3>2
  <2> HIDE DEF h
  <2> QED
    BY <1>2, <2>1, <2>3, <2>4 DEF Closed
<1> QED
  BY <1>5, <1>6, <1>7

\* The same of the stubs that are added.
LEMMA StubGraph ==
  ASSUME NEW g \in Graph, NEW new \in SUBSET Scenes
  PROVE  /\ WithStubs(g, new) \in Graph
         /\ Within(g, WithStubs(g, new))
         /\ Closed(g) => Closed(WithStubs(g, new))
BY DEF WithStubs, Graph, Within, Closed

LEMMA EmptyGraph == NoGraph \in Graph /\ Closed(NoGraph)
BY DEF NoGraph, Graph, Closed

LEMMA WithinTransitive ==
  ASSUME NEW f \in Graph, NEW g \in Graph, NEW h \in Graph, Within(f, g), Within(g, h)
  PROVE  Within(f, h)
<1>1. \A s \in Scenes : f.links[s] \subseteq h.links[s]
  BY DEF Within
<1> QED
  BY <1>1 DEF Within

\* What a model may be asked for is in the graph, or is a scene that is not.
LEMMA TargetScenes ==
  ASSUME TypeOK, NEW t \in Tasks, NEW g \in Graph
  PROVE  /\ Targets(t, g) \subseteq Scenes
         /\ t \notin Completers => Targets(t, g) \subseteq g.present
BY DEF Targets, TypeOK, Graph

-----------------------------------------------------------------------------
\* Types

LEMMA InitTypes == Init => TypeOK
<1> SUFFICES ASSUME Init PROVE TypeOK
  OBVIOUS
<1>1. graph \in Graph
  BY GraphAssumption DEF Init, Graph
<1>2. NoGraph \in Graph
  BY EmptyGraph
<1>3. Cardinality({}) = 0
  BY FS_EmptySet
<1>4. pc \in [Tasks -> Labels]
  BY DEF Init, Labels
<1>5. \A t \in Turns : Cardinality(left[t]) <= MaxPrefetch
  BY <1>3, BoundsAssumption DEF Init
<1>6. /\ wanted \in [Tasks -> SUBSET Scenes] /\ left \in [Turns -> SUBSET Scenes]
      /\ target \in [Turns -> SUBSET Scenes] /\ copy \in [Tasks -> Graph]
  BY <1>2 DEF Init
<1>7. status \in [Kinds -> Statuses] /\ party \in Scenes /\ faults \in 0..MaxFaults
  BY GraphAssumption, BoundsAssumption DEF Init, Statuses
<1> QED
  BY <1>1, <1>4, <1>5, <1>6, <1>7 DEF Init, TypeOK

LEMMA OnwardLabel ==
  ASSUME NEW t \in Tasks, NEW o \in {"done", "error"}
  PROVE  Onward(t, o) \in Labels
BY DEF Onward, Labels

LEMMA KindOf == \A t \in Tasks : Kind(t) \in Kinds
BY DEF Kind, Kinds

LEMMA GiveTypes ==
  ASSUME TypeOK, NEW t \in Tasks, NEW g \in Graph, Give(t, g) \/ GiveUp(t)
  PROVE  /\ pc' \in [Tasks -> Labels] /\ copy' \in [Tasks -> Graph]
         /\ stale' \subseteq Tasks
BY OnwardLabel, EmptyGraph DEF Give, GiveUp, TypeOK, Jump, Labels

LEMMA WorkTypes == ASSUME TypeOK, NEW t \in Tasks, Work(t) PROVE TypeOK'
<1>0. copy[t] \in Graph
  BY DEF TypeOK
<1>1. /\ pc' \in [Tasks -> Labels] /\ copy' \in [Tasks -> Graph]
      /\ stale' \subseteq Tasks /\ refused' \subseteq Scenes
  <2>1. CASE t \in Completers
    <3>1. AddStubs(t)
      BY <2>1 DEF Work
    <3>2. PICK new \in SUBSET Targets(t, copy[t]) :
              IF new = {} THEN GiveUp(t) ELSE Give(t, WithStubs(copy[t], new))
      BY <3>1 DEF AddStubs
    <3>3. WithStubs(copy[t], new) \in Graph
      BY <1>0, TargetScenes, StubGraph
    <3>4. refused' = refused
      BY <3>1 DEF AddStubs
    <3> QED
      BY <3>2, <3>3, <3>4, GiveTypes DEF TypeOK
  <2>2. CASE t \notin Completers
    <3>1. ReadScenes(t)
      BY <2>2 DEF Work
    <3>2. PICK read \in SUBSET Targets(t, copy[t]) : \E full \in SUBSET read :
              /\ refused' = refused \cup (Targets(t, copy[t]) \ full)
              /\ IF full = {} THEN GiveUp(t) ELSE Give(t, WithRead(copy[t], read, full))
      BY <3>1 DEF ReadScenes
    <3>3. PICK full \in SUBSET read :
              /\ refused' = refused \cup (Targets(t, copy[t]) \ full)
              /\ IF full = {} THEN GiveUp(t) ELSE Give(t, WithRead(copy[t], read, full))
      BY <3>2
    <3>4. WithRead(copy[t], read, full) \in Graph
      BY <1>0, <2>2, TargetScenes, ReadGraph
    <3>5. refused' \subseteq Scenes
      BY <1>0, <3>3, TargetScenes DEF TypeOK
    <3> QED
      BY <3>3, <3>4, <3>5, GiveTypes
  <2> QED
    BY <2>1, <2>2
<1> QED
  BY <1>1 DEF Work, TypeOK

LEMMA SaveTypes == ASSUME TypeOK, NEW t \in Tasks, Save(t) PROVE TypeOK'
<1>1. pc' \in [Tasks -> Labels]
  BY OnwardLabel DEF Save, Jump, TypeOK
<1>2. copy' \in [Tasks -> Graph]
  BY EmptyGraph DEF Save, TypeOK
<1>3. graph' \in Graph /\ stale' \subseteq Tasks /\ overtaken' \in BOOLEAN
  BY DEF Save, Written, Holders, TypeOK
<1>4. faults' \in 0..MaxFaults
  BY BoundsAssumption DEF Save, Fault, TypeOK
<1> QED
  BY <1>1, <1>2, <1>3, <1>4 DEF Save, TypeOK

LEMMA FrontierTypes ==
  ASSUME TypeOK, NEW t \in Turns, Frontier(t) \/ NextExit(t)
  PROVE  TypeOK'
<1>0. t \in Tasks
  BY DEF Tasks
<1>1. CASE Frontier(t)
  <2>0. PICK s \in target[t] : \E some \in SUBSET StubsBeyond(s) :
            /\ Cardinality(some) <= MaxPrefetch \/ Cardinality(some) = MaxPrefetch
            /\ cut' \in {cut, cut \cup {t}}
            /\ left' = [left EXCEPT ![t] = some]
    BY <1>1 DEF Frontier
  <2>1. PICK some \in SUBSET StubsBeyond(s) :
            /\ Cardinality(some) <= MaxPrefetch \/ Cardinality(some) = MaxPrefetch
            /\ cut' \in {cut, cut \cup {t}}
            /\ left' = [left EXCEPT ![t] = some]
    BY <2>0
  <2>2. some \subseteq Scenes
    BY <2>1 DEF StubsBeyond, TypeOK, Graph
  <2>3. IsFiniteSet(some) /\ Cardinality(some) <= MaxPrefetch
    BY <2>1, <2>2, GraphAssumption, BoundsAssumption, FS_Subset
  <2>4. /\ left' \in [Turns -> SUBSET Scenes] /\ cut' \subseteq Turns
        /\ \A u \in Turns : Cardinality(left'[u]) <= MaxPrefetch
    BY <2>1, <2>2, <2>3 DEF TypeOK
  <2>5. pc' \in [Tasks -> Labels]
    BY <1>0, <1>1 DEF Frontier, Jump, TypeOK, Labels
  <2> QED
    BY <1>1, <2>4, <2>5 DEF Frontier, TypeOK
<1>2. CASE NextExit(t)
  <2>1. pc' \in [Tasks -> Labels]
    BY <1>0, <1>2 DEF NextExit, Jump, TypeOK, Labels
  <2>2. wanted' \in [Tasks -> SUBSET Scenes]
    BY <1>0, <1>2 DEF NextExit, TypeOK
  <2>3. /\ left' \in [Turns -> SUBSET Scenes]
        /\ \A u \in Turns : left'[u] \subseteq left[u]
    BY <1>2 DEF NextExit, TypeOK
  <2>4. ASSUME NEW u \in Turns PROVE Cardinality(left'[u]) <= MaxPrefetch
    <3>1. IsFiniteSet(left[u])
      BY GraphAssumption, FS_Subset DEF TypeOK
    <3>2. /\ Cardinality(left'[u]) <= Cardinality(left[u])
          /\ Cardinality(left'[u]) \in Nat /\ Cardinality(left[u]) \in Nat
      BY <2>3, <3>1, FS_Subset, FS_CardinalityType
    <3> QED
      BY <3>2, BoundsAssumption DEF TypeOK
  <2> QED
    BY <1>2, <2>1, <2>2, <2>3, <2>4 DEF NextExit, TypeOK, past
<1> QED
  BY <1>1, <1>2

LEMMA TypeStep == TypeOK /\ [Next]_vars => TypeOK'
<1> SUFFICES ASSUME TypeOK, [Next]_vars PROVE TypeOK'
  OBVIOUS
<1> USE KindOf, BoundsAssumption
<1> USE DEF Jump, Fault, locals, past
<1>0. \A t \in Jobs \cup Turns : t \in Tasks
  BY DEF Tasks
<1>1. ASSUME NEW t \in Jobs, Check(t) PROVE TypeOK'
  BY <1>0, <1>1 DEF Check, TypeOK, Labels
<1>2. ASSUME NEW t \in Jobs, Insert(t) PROVE TypeOK'
  BY <1>0, <1>2 DEF Insert, TypeOK, Labels, Statuses
<1>3. ASSUME NEW t \in Jobs, InsertLost(t) PROVE TypeOK'
  BY <1>0, <1>3 DEF InsertLost, TypeOK, Labels, Statuses
<1>4. ASSUME NEW t \in Jobs, Start(t) PROVE TypeOK'
  BY <1>0, <1>4 DEF Start, TypeOK, Labels, Statuses
<1>5. ASSUME NEW t \in Jobs, Report(t) PROVE TypeOK'
  BY <1>0, <1>5 DEF Report, TypeOK, Labels, Statuses
<1>6. ASSUME NEW t \in Turns, ReadMap(t) PROVE TypeOK'
  BY <1>0, <1>6 DEF ReadMap, TypeOK, Labels
<1>7. ASSUME NEW t \in Turns, Arrive(t) PROVE TypeOK'
  <2>1. copy[t].present \subseteq Scenes
    BY <1>0 DEF TypeOK, Graph
  <2> QED
    BY <1>0, <1>7, <2>1, EmptyGraph DEF Arrive, TypeOK, Labels
<1>8. ASSUME NEW t \in Turns, Frontier(t) \/ NextExit(t) PROVE TypeOK'
  BY <1>8, FrontierTypes
<1>9. ASSUME NEW t \in Turns, FrontierFails(t) PROVE TypeOK'
  BY <1>0, <1>9 DEF FrontierFails, TypeOK, Labels
<1>10. ASSUME NEW t \in Tasks, Load(t) PROVE TypeOK'
  BY <1>10, OnwardLabel DEF Load, TypeOK, Labels
<1>11. ASSUME NEW t \in Tasks, LoadFails(t) PROVE TypeOK'
  BY <1>11, OnwardLabel DEF LoadFails, TypeOK
<1>12. ASSUME NEW t \in Tasks, Work(t) \/ Save(t) PROVE TypeOK'
  BY <1>12, WorkTypes, SaveTypes
<1>13. CASE Crash
  BY <1>13, EmptyGraph DEF Crash, TypeOK, Labels
<1>14. CASE UNCHANGED vars
  BY <1>14 DEF vars, TypeOK
<1> QED
  BY <1>1, <1>2, <1>3, <1>4, <1>5, <1>6, <1>7, <1>8, <1>9, <1>10, <1>11, <1>12, <1>13, <1>14
     DEF Next, JobStep, Extract, TurnStep

\* Types: every variable keeps its type, and no turn has more exits to read than it may.
THEOREM TypeCorrect == Spec => []TypeOK
BY InitTypes, TypeStep, PTL DEF Spec

-----------------------------------------------------------------------------
\* The row and its copies

\* A copy that is worked on holds all that the row holds, until another task writes the row.
Busy(t) == pc[t] \in {"work", "save"}
Current == \A t \in Tasks : Busy(t) /\ t \notin stale => Within(graph, copy[t])
CopiesClosed == \A t \in Tasks : Closed(copy[t])
\* A map that a turn has read shows no scene that the row does not have.
MapsHold == \A t \in Turns : pc[t] = "arrive" => copy[t].present \subseteq graph.present

RowInv == LinksClosed /\ CopiesClosed /\ Current /\ (~overtaken => MapsHold) /\ PartyOnMap

LEMMA InitRow == Init => RowInv
<1> SUFFICES ASSUME Init PROVE RowInv
  OBVIOUS
<1>1. \A t \in Tasks : pc[t] \in {"idle", "over"}
  BY DEF Init
<1>2. Closed(graph)
  <2>1. graph.present = Parsed /\ graph.deep = {Entry} /\ Entry \in Parsed
    BY GraphAssumption DEF Init
  <2>2. \A s \in Scenes : graph.links[s] = IF s = Entry THEN Exits[s] \cap Parsed ELSE {}
    BY DEF Init
  <2> QED
    BY <2>1, <2>2 DEF Closed
<1>3. CopiesClosed
  BY EmptyGraph DEF Init, CopiesClosed
<1>4. PartyOnMap
  BY GraphAssumption DEF Init, PartyOnMap
<1>5. MapsHold
  BY <1>1 DEF MapsHold, Tasks
<1>6. Current
  BY <1>1 DEF Current, Busy
<1> QED
  BY <1>2, <1>3, <1>4, <1>5, <1>6 DEF RowInv, LinksClosed

\* Most steps leave the row alone, and give no task a copy to work on.
Aside ==
    /\ graph' = graph /\ overtaken' = overtaken
    /\ \A t \in Tasks :
          /\ Busy(t)' => Busy(t) /\ copy'[t] = copy[t] /\ (t \in stale => t \in stale')
          /\ copy'[t] \in {copy[t], NoGraph}

LEMMA AsideRow ==
  ASSUME TypeOK, RowInv, Aside,
         \A t \in Turns : pc'[t] = "arrive" => pc[t] = "arrive" /\ copy'[t] = copy[t],
         party' = party \/ \E t \in Turns : pc[t] = "arrive" /\ party' \in copy[t].present
  PROVE  RowInv'
<1>0. graph' = graph /\ overtaken' = overtaken
  BY DEF Aside
<1>1. LinksClosed'
  BY <1>0 DEF RowInv, LinksClosed, Closed
<1>2. CopiesClosed'
  BY EmptyGraph DEF RowInv, CopiesClosed, Aside, Closed
<1>3. Current'
  BY <1>0 DEF RowInv, Current, Aside, Busy, Within
<1>4. ~overtaken' => MapsHold'
  BY <1>0 DEF RowInv, MapsHold
<1>5. PartyOnMap'
  BY <1>0 DEF RowInv, MapsHold, PartyOnMap
<1> QED
  BY <1>1, <1>2, <1>3, <1>4, <1>5 DEF RowInv

\* A task gets a new copy: the row itself, or what it has made of a copy that it had.
LEMMA CopyRow ==
  ASSUME TypeOK, RowInv, NEW t \in Tasks, NEW g \in Graph,
         graph' = graph, overtaken' = overtaken, party' = party, stale' = stale,
         copy' = [copy EXCEPT ![t] = g], Closed(g),
         \/ g = graph
         \/ Busy(t) /\ Within(copy[t], g) /\ pc'[t] # "arrive",
         \A u \in Tasks \ {t} : pc'[u] = pc[u]
  PROVE  RowInv'
<1>0. copy'[t] = g /\ \A u \in Tasks \ {t} : copy'[u] = copy[u]
  BY DEF TypeOK
<1>1. LinksClosed' /\ PartyOnMap'
  BY DEF RowInv, LinksClosed, PartyOnMap, Closed
<1>2. CopiesClosed'
  BY <1>0 DEF RowInv, CopiesClosed, Closed
<1>3. Within(graph, graph)
  BY DEF Within
<1>4. ASSUME NEW u \in Tasks, Busy(u)', u \notin stale PROVE Within(graph, copy'[u])
  <2>1. CASE u # t
    BY <1>0, <1>4, <2>1 DEF RowInv, Current, Busy
  <2>2. CASE u = t /\ g = graph
    BY <1>0, <1>3, <2>2
  <2>3. CASE u = t /\ Busy(t) /\ Within(copy[t], g)
    <3>1. Within(graph, copy[t])
      BY <1>4, <2>3 DEF RowInv, Current
    <3>2. graph \in Graph /\ copy[t] \in Graph
      BY DEF TypeOK
    <3> QED
      BY <1>0, <2>3, <3>1, <3>2, WithinTransitive
  <2> QED
    BY <2>1, <2>2, <2>3
<1>5. Current'
  BY <1>4 DEF Current, Busy, Within
<1>6. ASSUME ~overtaken' PROVE MapsHold'
  <2>1. ASSUME NEW u \in Turns, pc'[u] = "arrive" PROVE copy'[u].present \subseteq graph.present
    <3>1. u \in Tasks
      BY DEF Tasks
    <3>2. CASE u # t
      BY <1>0, <1>6, <2>1, <3>1, <3>2 DEF RowInv, MapsHold
    <3>3. CASE u = t
      BY <1>0, <2>1, <3>3
    <3> QED
      BY <3>2, <3>3
  <2> QED
    BY <2>1 DEF MapsHold
<1> QED
  BY <1>1, <1>2, <1>5, <1>6 DEF RowInv

\* A task writes its copy: every other copy is overtaken, and unless it was itself the row only
\* grows.
LEMMA WriteRow ==
  ASSUME TypeOK, RowInv, NEW t \in Tasks, pc[t] = "save", Written(t),
         copy' = [copy EXCEPT ![t] = NoGraph], party' = party,
         pc'[t] \notin {"work", "save", "arrive"}, \A u \in Tasks \ {t} : pc'[u] = pc[u]
  PROVE  RowInv' /\ (~overtaken' => Within(graph, graph'))
<1>0. /\ graph' = copy[t] /\ stale' = (stale \cup Holders) \ {t}
      /\ overtaken' = (overtaken \/ t \in stale)
  BY DEF Written
<1>1. copy'[t] = NoGraph /\ \A u \in Tasks \ {t} : copy'[u] = copy[u]
  BY DEF TypeOK
<1>2. LinksClosed'
  BY <1>0 DEF RowInv, LinksClosed, CopiesClosed, Closed
<1>3. CopiesClosed'
  BY <1>1, EmptyGraph DEF RowInv, CopiesClosed, Closed
<1>4. Current'
  BY <1>0 DEF Current, Busy, Holders
<1>5. ASSUME ~overtaken' PROVE Within(graph, graph')
  BY <1>0, <1>5 DEF RowInv, Current, Busy
<1>6. ASSUME ~overtaken' PROVE MapsHold'
  <2>1. graph.present \subseteq graph'.present /\ ~overtaken
    BY <1>0, <1>5, <1>6 DEF Within
  <2> QED
    BY <1>1, <2>1 DEF RowInv, MapsHold, Tasks
<1>7. PartyOnMap'
  <2>1. ASSUME ~overtaken' PROVE party \in graph'.present
    BY <1>0, <1>5, <2>1 DEF Within, RowInv, PartyOnMap
  <2> QED
    BY <2>1 DEF PartyOnMap
<1> QED
  BY <1>2, <1>3, <1>4, <1>5, <1>6, <1>7 DEF RowInv

LEMMA AsideSteps ==
  ASSUME TypeOK, RowInv, NEW t \in Tasks,
         \/ t \in Jobs /\ (Check(t) \/ Insert(t) \/ InsertLost(t) \/ Start(t) \/ Report(t))
         \/ t \in Turns /\ (Frontier(t) \/ FrontierFails(t) \/ NextExit(t) \/ Arrive(t))
         \/ LoadFails(t)
         \/ Load(t) /\ Targets(t, graph) = {}
  PROVE  RowInv' /\ graph' = graph
<1> USE DEF Jump, locals, past
<1>1. graph' = graph /\ overtaken' = overtaken /\ stale' = stale
  <2>1. CASE t \in Jobs /\ (Check(t) \/ Insert(t) \/ InsertLost(t) \/ Start(t) \/ Report(t))
    BY <2>1 DEF Check, Insert, InsertLost, Start, Report
  <2>2. CASE t \in Turns /\ (Frontier(t) \/ FrontierFails(t))
    BY <2>2 DEF Frontier, FrontierFails
  <2>3. CASE t \in Turns /\ (NextExit(t) \/ Arrive(t))
    BY <2>3 DEF NextExit, Arrive
  <2>4. CASE LoadFails(t) \/ (Load(t) /\ Targets(t, graph) = {})
    BY <2>4 DEF LoadFails, Load
  <2> QED
    BY <2>1, <2>2, <2>3, <2>4
<1>2. copy' = copy \/ copy' = [copy EXCEPT ![t] = NoGraph]
  <2>1. CASE t \in Jobs /\ (Check(t) \/ Insert(t) \/ InsertLost(t) \/ Start(t) \/ Report(t))
    BY <2>1 DEF Check, Insert, InsertLost, Start, Report
  <2>2. CASE t \in Turns /\ (Frontier(t) \/ FrontierFails(t))
    BY <2>2 DEF Frontier, FrontierFails
  <2>3. CASE t \in Turns /\ (NextExit(t) \/ Arrive(t))
    BY <2>3 DEF NextExit, Arrive
  <2>4. CASE LoadFails(t) \/ (Load(t) /\ Targets(t, graph) = {})
    BY <2>4 DEF LoadFails, Load
  <2> QED
    BY <2>1, <2>2, <2>3, <2>4
<1>3. /\ \A u \in Tasks \ {t} : pc'[u] = pc[u]
      /\ pc'[t] \notin {"work", "save", "arrive"}
  <2>1. CASE t \in Jobs /\ (Check(t) \/ Insert(t) \/ InsertLost(t) \/ Start(t) \/ Report(t))
    BY <2>1 DEF Check, Insert, InsertLost, Start, Report, Onward, TypeOK
  <2>2. CASE t \in Turns /\ (Frontier(t) \/ FrontierFails(t))
    BY <2>2 DEF Frontier, FrontierFails, Onward, TypeOK
  <2>3. CASE t \in Turns /\ (NextExit(t) \/ Arrive(t))
    BY <2>3 DEF NextExit, Arrive, Onward, TypeOK
  <2>4. CASE LoadFails(t) \/ (Load(t) /\ Targets(t, graph) = {})
    BY <2>4 DEF LoadFails, Load, Onward, TypeOK
  <2> QED
    BY <2>1, <2>2, <2>3, <2>4
<1>4. party' = party \/ (t \in Turns /\ pc[t] = "arrive" /\ party' \in copy[t].present)
  <2>1. CASE t \in Jobs /\ (Check(t) \/ Insert(t) \/ InsertLost(t) \/ Start(t) \/ Report(t))
    BY <2>1 DEF Check, Insert, InsertLost, Start, Report
  <2>2. CASE t \in Turns /\ (Frontier(t) \/ FrontierFails(t))
    BY <2>2 DEF Frontier, FrontierFails
  <2>3. CASE t \in Turns /\ (NextExit(t) \/ Arrive(t))
    BY <2>3 DEF NextExit, Arrive
  <2>4. CASE LoadFails(t) \/ (Load(t) /\ Targets(t, graph) = {})
    BY <2>4 DEF LoadFails, Load
  <2> QED
    BY <2>1, <2>2, <2>3, <2>4
<1>5. Aside
  BY <1>1, <1>2, <1>3 DEF Aside, Busy, TypeOK
<1>6. \A u \in Turns : pc'[u] = "arrive" => pc[u] = "arrive" /\ copy'[u] = copy[u]
  BY <1>2, <1>3 DEF TypeOK, Tasks
<1> QED
  BY <1>1, <1>4, <1>5, <1>6, AsideRow

LEMMA WorkRow == ASSUME TypeOK, RowInv, NEW t \in Tasks, Work(t) PROVE RowInv' /\ graph' = graph
<1> USE DEF Jump
<1>0. /\ graph' = graph /\ overtaken' = overtaken /\ party' = party
      /\ copy[t] \in Graph /\ Closed(copy[t])
  BY DEF Work, TypeOK, RowInv, CopiesClosed
<1>1. GiveUp(t) \/ \E g \in Graph : Give(t, g) /\ Within(copy[t], g) /\ Closed(g)
  <2>1. CASE t \in Completers
    BY <1>0, <2>1, TargetScenes, StubGraph DEF Work, AddStubs
  <2>2. CASE t \notin Completers
    <3>1. PICK read \in SUBSET Targets(t, copy[t]) : \E full \in SUBSET read :
              IF full = {} THEN GiveUp(t) ELSE Give(t, WithRead(copy[t], read, full))
      BY <2>2 DEF Work, ReadScenes
    <3> QED
      BY <1>0, <2>2, <3>1, TargetScenes, ReadGraph
  <2> QED
    BY <2>1, <2>2
<1>2. CASE GiveUp(t)
  <2>1. /\ \A u \in Tasks \ {t} : pc'[u] = pc[u] /\ copy'[u] = copy[u]
        /\ pc'[t] \notin {"work", "save", "arrive"} /\ copy'[t] = NoGraph /\ pc[t] = "work"
        /\ stale' = stale \ {t}
    BY <1>2 DEF GiveUp, Onward, TypeOK
  <2>2. Aside
    BY <1>0, <2>1 DEF Aside, Busy
  <2>3. \A u \in Turns : pc'[u] = "arrive" => pc[u] = "arrive" /\ copy'[u] = copy[u]
    BY <2>1 DEF Tasks
  <2> QED
    BY <1>0, <2>2, <2>3, AsideRow
<1>3. CASE \E g \in Graph : Give(t, g) /\ Within(copy[t], g) /\ Closed(g)
  <2>1. PICK g \in Graph : Give(t, g) /\ Within(copy[t], g) /\ Closed(g)
    BY <1>3
  <2>2. /\ stale' = stale /\ copy' = [copy EXCEPT ![t] = g] /\ Busy(t)
        /\ pc'[t] # "arrive" /\ \A u \in Tasks \ {t} : pc'[u] = pc[u]
    BY <2>1 DEF Give, Busy, TypeOK
  <2> QED
    BY <1>0, <2>1, <2>2, CopyRow
<1> QED
  BY <1>1, <1>2, <1>3

LEMMA SaveRow ==
  ASSUME TypeOK, RowInv, NEW t \in Tasks, Save(t)
  PROVE  RowInv' /\ (~overtaken' => Within(graph, graph'))
<1> USE DEF Jump
<1>1. /\ pc[t] = "save" /\ copy' = [copy EXCEPT ![t] = NoGraph] /\ party' = party
      /\ pc'[t] \notin {"work", "save", "arrive"} /\ \A u \in Tasks \ {t} : pc'[u] = pc[u]
  BY DEF Save, Onward, TypeOK
<1>2. CASE Written(t)
  BY <1>1, <1>2, WriteRow
<1>3. CASE ~Written(t)
  <2>1. graph' = graph /\ overtaken' = overtaken /\ stale' = stale \ {t}
    BY <1>3 DEF Save
  <2>2. copy'[t] = NoGraph /\ \A u \in Tasks \ {t} : copy'[u] = copy[u]
    BY <1>1 DEF TypeOK
  <2>3. Aside
    BY <1>1, <2>1, <2>2 DEF Aside, Busy
  <2>4. \A u \in Turns : pc'[u] = "arrive" => pc[u] = "arrive" /\ copy'[u] = copy[u]
    BY <1>1, <2>2 DEF Tasks
  <2> QED
    BY <1>1, <2>1, <2>3, <2>4, AsideRow DEF Within
<1> QED
  BY <1>2, <1>3

LEMMA RowStep ==
  ASSUME TypeOK, RowInv, [Next]_vars
  PROVE  RowInv' /\ (~overtaken' => Within(graph, graph'))
<1>0. graph' = graph => Within(graph, graph')
  BY DEF Within
<1>a. \A t \in Jobs \cup Turns : t \in Tasks
  BY DEF Tasks
<1>1. ASSUME NEW t \in Jobs,
             Check(t) \/ Insert(t) \/ InsertLost(t) \/ Start(t) \/ Report(t)
      PROVE  RowInv' /\ graph' = graph
  BY <1>a, <1>1, AsideSteps
<1>2. ASSUME NEW t \in Turns, Frontier(t) \/ FrontierFails(t) \/ NextExit(t) \/ Arrive(t)
      PROVE  RowInv' /\ graph' = graph
  BY <1>a, <1>2, AsideSteps
<1>3. ASSUME NEW t \in Tasks, LoadFails(t) \/ (Load(t) /\ Targets(t, graph) = {})
      PROVE  RowInv' /\ graph' = graph
  BY <1>3, AsideSteps
<1>4. ASSUME NEW t \in Tasks,
             (Load(t) /\ Targets(t, graph) # {}) \/ (t \in Turns /\ ReadMap(t))
      PROVE  RowInv' /\ graph' = graph
  <2>1. /\ graph' = graph /\ overtaken' = overtaken /\ party' = party /\ stale' = stale
        /\ copy' = [copy EXCEPT ![t] = graph] /\ \A u \in Tasks \ {t} : pc'[u] = pc[u]
    BY <1>4 DEF Load, ReadMap, Jump, TypeOK, past
  <2>2. Closed(graph) /\ graph \in Graph
    BY DEF RowInv, LinksClosed, TypeOK
  <2> QED
    BY <2>1, <2>2, CopyRow
<1>5. ASSUME NEW t \in Tasks, Work(t) PROVE RowInv' /\ graph' = graph
  BY <1>5, WorkRow
<1>6. ASSUME NEW t \in Tasks, Save(t) PROVE RowInv' /\ (~overtaken' => Within(graph, graph'))
  BY <1>6, SaveRow
<1>7. CASE Crash
  <2>1. /\ graph' = graph /\ overtaken' = overtaken /\ party' = party
        /\ \A t \in Tasks : pc'[t] \in {"idle", "over"} /\ copy'[t] = NoGraph
    BY <1>7 DEF Crash
  <2>2. LinksClosed' /\ CopiesClosed' /\ PartyOnMap'
    BY <2>1, EmptyGraph DEF RowInv, LinksClosed, CopiesClosed, PartyOnMap, Closed
  <2>3. Current' /\ MapsHold'
    BY <2>1 DEF Current, MapsHold, Busy, Tasks
  <2> QED
    BY <1>0, <2>1, <2>2, <2>3 DEF RowInv
<1>8. CASE UNCHANGED vars
  BY <1>0, <1>8 DEF vars, locals, past, RowInv, LinksClosed, CopiesClosed, Current, MapsHold,
                    PartyOnMap, Closed, Busy, Within
<1> QED
  BY <1>0, <1>a, <1>1, <1>2, <1>3, <1>4, <1>5, <1>6, <1>7, <1>8
     DEF Next, JobStep, Extract, TurnStep

LEMMA RowSound == Spec => [](TypeOK /\ RowInv)
<1>1. TypeOK /\ RowInv /\ [Next]_vars => (TypeOK /\ RowInv)'
  BY TypeStep, RowStep
<1> QED
  BY InitTypes, InitRow, <1>1, PTL DEF Spec

\* However the tasks overlap and whatever fails, the row is one whole graph.
THEOREM RowClosed == Spec => []LinksClosed
<1>1. RowInv => LinksClosed
  BY DEF RowInv
<1> QED
  BY RowSound, <1>1, PTL

\* The row loses something only to a copy that another task had overtaken.
THEOREM KeepsWork == Spec => WorkKept
<1>1. TypeOK /\ RowInv /\ [Next]_vars => [~overtaken' => Within(graph, graph')]_vars
  BY RowStep
<1> QED
  BY RowSound, <1>1, PTL DEF Spec, WorkKept

\* As long as no overtaken copy was written, the party is in a scene of the graph.
THEOREM PartyStays == Spec => []PartyOnMap
<1>1. RowInv => PartyOnMap
  BY DEF RowInv
<1> QED
  BY RowSound, <1>1, PTL

-----------------------------------------------------------------------------
\* Jobs and their status

\* A request that was let through, up to the end of its job
Active(t) == pc[t] \in {"insert", "start"} \cup Running

\* Unless two requests were let through at once, there is one of a kind, and while its job runs
\* the row says so: that is why the next request is not let through.
JobInv ==
    \A k \in Kinds \ raced :
        /\ \A t, u \in Jobs : Kind(t) = k /\ Kind(u) = k /\ Active(t) /\ Active(u) => t = u
        /\ \A t \in Jobs : Kind(t) = k /\ pc[t] \in Running => status[k] = "running"

LEMMA InitJobs == Init => JobInv /\ RunningHasRunner
BY DEF Init, JobInv, RunningHasRunner, Active, Running, Jobs, Tasks, Kinds

\* A step by which no job becomes active, none that was let through begins to run and the row
\* of no other kind changes.
LEMMA JobsEnd ==
  ASSUME TypeOK, JobInv, NEW t \in Jobs, raced \subseteq raced',
         pc' = [pc EXCEPT ![t] = "over"],
         \A k \in Kinds \ {Kind(t)} : status'[k] = status[k],
         Active(t) \/ status' = status
  PROVE  JobInv'
<1>1. ASSUME NEW u \in Jobs PROVE (Active(u)' => Active(u) /\ u # t) /\ (u # t => pc'[u] = pc[u])
  BY DEF Active, Running, TypeOK, Tasks
<1>2. pc'[t] = "over"
  BY DEF TypeOK, Tasks
<1>3. ASSUME NEW k \in Kinds \ raced',
             NEW u \in Jobs, NEW v \in Jobs, Kind(u) = k, Kind(v) = k, Active(u)', Active(v)'
      PROVE  u = v
  <2>1. Active(u) /\ Active(v) /\ k \in Kinds \ raced
    BY <1>1, <1>3
  <2> QED
    BY <1>3, <2>1 DEF JobInv
<1>4. ASSUME NEW k \in Kinds \ raced', NEW u \in Jobs, Kind(u) = k, pc'[u] \in Running
      PROVE  status'[k] = "running"
  <2>1. u # t
    BY <1>2, <1>4 DEF Running
  <2>2. pc[u] \in Running /\ status[k] = "running"
    BY <1>1, <1>4, <2>1 DEF JobInv
  <2>3. CASE k # Kind(t)
    BY <2>2, <2>3
  <2>4. CASE k = Kind(t) /\ Active(t)
    <3>1. Active(u)
      BY <2>2 DEF Active
    <3> QED
      BY <1>4, <2>1, <2>4, <3>1 DEF JobInv
  <2>5. CASE status' = status
    BY <2>2, <2>5
  <2> QED
    BY <2>3, <2>4, <2>5
<1> QED
  BY <1>3, <1>4 DEF JobInv

\* A step that leaves what jobs are active, which of them run and their rows as they were.
JobsStay ==
    /\ raced \subseteq raced' /\ status' = status
    /\ \A t \in Jobs : (Active(t)' => Active(t)) /\ (pc'[t] \in Running <=> pc[t] \in Running)

LEMMA StayJobs == ASSUME JobInv, JobsStay PROVE JobInv'
BY DEF JobInv, JobsStay

LEMMA StayRunning ==
  ASSUME RunningHasRunner, JobsStay, orphaned' = orphaned
  PROVE  RunningHasRunner'
BY DEF RunningHasRunner, JobsStay, Runners

\* A request is let through, queued or started.
LEMMA RequestJobs ==
  ASSUME TypeOK, JobInv, RunningHasRunner, NEW t \in Jobs, Check(t) \/ Insert(t) \/ Start(t)
  PROVE  JobInv' /\ RunningHasRunner'
<1> USE DEF Jump, past
<1>a. t \in Tasks /\ Kind(t) \in Kinds /\ "insert" \notin Running /\ "start" \notin Running
  BY KindOf DEF Tasks, Running
<1>1. CASE Check(t) /\ status[Kind(t)] = "running"
  <2>1. /\ pc' = [pc EXCEPT ![t] = "over"] /\ raced' = raced /\ status' = status
        /\ orphaned' = orphaned /\ pc[t] = "idle"
    BY <1>1 DEF Check
  <2>2. JobInv'
    BY <2>1, JobsEnd
  <2>3. JobsStay
    BY <1>a, <2>1 DEF JobsStay, Active, Running, TypeOK, Jobs, Tasks
  <2> QED
    BY <2>1, <2>2, <2>3, StayRunning
<1>2. CASE Check(t) /\ status[Kind(t)] # "running"
  <2>1. /\ pc' = [pc EXCEPT ![t] = "insert"] /\ status' = status /\ orphaned' = orphaned
        /\ pc[t] = "idle" /\ raced \subseteq raced'
        /\ (\E u \in Rivals(t) : pc[u] \in {"insert", "start"}) => Kind(t) \in raced'
    BY <1>2 DEF Check
  <2>2. /\ pc'[t] = "insert"
        /\ \A u \in Jobs : u # t => pc'[u] = pc[u]
    BY <1>a, <2>1 DEF TypeOK, Jobs, Tasks
  <2>3. RunningHasRunner'
    BY <1>a, <2>1, <2>2 DEF RunningHasRunner, Runners, Running
  <2>4. ASSUME NEW u \in Jobs, u # t, Kind(u) = Kind(t), Kind(t) \notin raced'
        PROVE  ~Active(u)
    <3>1. pc[u] \notin {"insert", "start"}
      BY <2>1, <2>4 DEF Rivals
    <3>2. pc[u] \notin Running
      BY <1>2, <1>a, <2>1, <2>4 DEF JobInv
    <3> QED
      BY <3>1, <3>2 DEF Active
  <2>5. ASSUME NEW k \in Kinds \ raced',
               NEW u \in Jobs, NEW v \in Jobs, Kind(u) = k, Kind(v) = k, Active(u)', Active(v)'
        PROVE  u = v
    <3>1. \A w \in Jobs : w # t /\ Active(w)' => Active(w)
      BY <2>2 DEF Active, Running
    <3>2. CASE u # t /\ v # t
      BY <2>1, <2>5, <3>1, <3>2 DEF JobInv
    <3> QED
      BY <2>4, <2>5, <3>1, <3>2
  <2>6. ASSUME NEW k \in Kinds \ raced', NEW u \in Jobs, Kind(u) = k, pc'[u] \in Running
        PROVE  status'[k] = "running"
    BY <1>a, <2>1, <2>2, <2>6 DEF JobInv
  <2> QED
    BY <2>3, <2>5, <2>6 DEF JobInv
<1>3. CASE Insert(t) \/ Start(t)
  <2>1. /\ pc' = [pc EXCEPT ![t] = IF Insert(t) THEN "start" ELSE "load"] /\ raced \subseteq raced'
        /\ orphaned' = orphaned /\ pc[t] = IF Insert(t) THEN "insert" ELSE "start"
        /\ \A k \in Kinds \ {Kind(t)} : status'[k] = status[k]
    BY <1>3 DEF Insert, Start, TypeOK
  <2>2. /\ pc'[t] = IF Insert(t) THEN "start" ELSE "load"
        /\ \A u \in Jobs : u # t => pc'[u] = pc[u]
    BY <1>a, <2>1 DEF TypeOK, Jobs, Tasks
  <2>3. Active(t) /\ \A u \in Jobs : Active(u)' => Active(u)
    BY <2>1, <2>2 DEF Active, Running
  <2>4. ASSUME NEW k \in Kinds \ raced', NEW u \in Jobs, Kind(u) = k, pc'[u] \in Running
        PROVE  status'[k] = "running"
    <3>1. CASE u # t
      <4>1. pc[u] \in Running /\ Active(u) /\ status[k] = "running"
        BY <2>1, <2>2, <2>4, <3>1 DEF JobInv, Active
      <4>2. k # Kind(t)
        BY <2>1, <2>3, <2>4, <3>1, <4>1 DEF JobInv
      <4> QED
        BY <2>1, <4>1, <4>2
    <3>2. CASE u = t
      <4>1. Start(t)
        BY <1>3, <1>a, <2>2, <2>4, <3>2
      <4> QED
        BY <1>a, <2>4, <3>2, <4>1 DEF Start, TypeOK
    <3> QED
      BY <3>1, <3>2
  <2>5. JobInv'
    <3>1. \A k \in Kinds \ raced' : \A u, v \in Jobs :
              Kind(u) = k /\ Kind(v) = k /\ Active(u)' /\ Active(v)' => u = v
      BY <2>1, <2>3 DEF JobInv
    <3> QED
      BY <2>4, <3>1 DEF JobInv
  <2>6. ASSUME NEW k \in Kinds \ orphaned', status'[k] = "running" PROVE Runners(k)' # {}
    <3>1. CASE k # Kind(t)
      <4>1. PICK u \in Runners(k) : TRUE
        BY <2>1, <2>6, <3>1 DEF RunningHasRunner
      <4>2. u \in Jobs /\ Kind(u) = k /\ u # t /\ pc'[u] \in Running
        BY <2>2, <3>1, <4>1 DEF Runners
      <4> QED
        BY <4>2 DEF Runners
    <3>2. CASE k = Kind(t) /\ Start(t) /\ ~Insert(t)
      <4>1. pc'[t] \in Running
        BY <2>2, <3>2 DEF Running
      <4> QED
        BY <3>2, <4>1 DEF Runners
    <3>3. CASE k = Kind(t) /\ Insert(t)
      BY <1>a, <2>6, <3>3 DEF Insert, TypeOK
    <3> QED
      BY <1>3, <3>1, <3>2, <3>3
  <2> QED
    BY <2>5, <2>6 DEF RunningHasRunner
<1> QED
  BY <1>1, <1>2, <1>3

\* A request is lost, or the end of a job is reported or not.
LEMMA EndJobs ==
  ASSUME TypeOK, JobInv, RunningHasRunner, NEW t \in Jobs, InsertLost(t) \/ Report(t)
  PROVE  JobInv' /\ RunningHasRunner'
<1>a. t \in Tasks /\ Kind(t) \in Kinds
  BY KindOf DEF Tasks
<1>1. /\ pc' = [pc EXCEPT ![t] = "over"] /\ raced' = raced /\ Active(t)
      /\ \A k \in Kinds \ {Kind(t)} : status'[k] = status[k]
      /\ \/ status'[Kind(t)] # "running" /\ orphaned' = orphaned
         \/ status' = status /\ orphaned' = orphaned /\ pc[t] = "insert"
         \/ Kind(t) \in orphaned' /\ orphaned \subseteq orphaned'
  BY <1>a DEF InsertLost, Report, Jump, TypeOK, past, Active, Running
<1>2. JobInv'
  BY <1>1, JobsEnd
<1>3. ASSUME NEW k \in Kinds \ orphaned', status'[k] = "running" PROVE Runners(k)' # {}
  <2>1. orphaned \subseteq orphaned' /\ status[k] = "running"
    BY <1>1, <1>3
  <2>2. PICK u \in Runners(k) : TRUE
    BY <1>3, <2>1 DEF RunningHasRunner
  <2>3. u # t
    BY <1>1, <1>3, <2>2 DEF Runners, Running
  <2>4. u \in Runners(k)'
    BY <1>1, <2>2, <2>3 DEF Runners, TypeOK, Tasks
  <2> QED
    BY <2>4
<1> QED
  BY <1>2, <1>3 DEF RunningHasRunner

\* An extraction that goes on, or a step of a turn
LEMMA ExtractStays ==
  ASSUME TypeOK, NEW t \in Tasks,
         \/ Load(t) \/ LoadFails(t) \/ Work(t) \/ Save(t)
         \/ t \in Turns /\ (ReadMap(t) \/ TurnStep(t) \/ FrontierFails(t))
  PROVE  JobsStay /\ orphaned' = orphaned
<1>1. status' = status /\ raced' = raced /\ orphaned' = orphaned
  <2>1. CASE Load(t) \/ LoadFails(t) \/ Work(t) \/ Save(t)
    BY <2>1 DEF Load, LoadFails, Work, Save, past
  <2>2. CASE ReadMap(t) \/ TurnStep(t) \/ FrontierFails(t)
    BY <2>2 DEF ReadMap, TurnStep, Arrive, Frontier, NextExit, FrontierFails, past
  <2> QED
    BY <2>1, <2>2
<1>2. /\ \A u \in Tasks \ {t} : pc'[u] = pc[u]
      /\ t \in Jobs => pc[t] \in Running /\ pc'[t] \in Running
  <2>1. CASE Load(t) \/ LoadFails(t) \/ Save(t)
    BY <2>1 DEF Load, LoadFails, Save, Jump, Onward, Running, TypeOK
  <2>2. CASE Work(t)
    BY <2>2 DEF Work, AddStubs, ReadScenes, Give, GiveUp, Jump, Onward, Running, TypeOK
  <2>3. CASE t \in Turns /\ (ReadMap(t) \/ TurnStep(t) \/ FrontierFails(t))
    <3>1. t \notin Jobs
      BY <2>3, TasksAssumption DEF Jobs
    <3> QED
      BY <2>3, <3>1 DEF ReadMap, TurnStep, Arrive, Frontier, NextExit, FrontierFails, Jump, TypeOK
  <2> QED
    BY <2>1, <2>2, <2>3
<1> QED
  BY <1>1, <1>2 DEF JobsStay, Active, Tasks

LEMMA JobStepInv ==
  ASSUME TypeOK, JobInv, RunningHasRunner, [Next]_vars
  PROVE  JobInv' /\ RunningHasRunner'
<1>1. CASE \E t \in Jobs : Check(t) \/ Insert(t) \/ Start(t)
  BY <1>1, RequestJobs
<1>2. CASE \E t \in Jobs : InsertLost(t) \/ Report(t)
  BY <1>2, EndJobs
<1>3. CASE \/ \E t \in Tasks : Extract(t) \/ LoadFails(t)
           \/ \E t \in Turns : ReadMap(t) \/ TurnStep(t) \/ FrontierFails(t)
  BY <1>3, ExtractStays, StayJobs, StayRunning DEF Extract, Tasks
<1>4. CASE Crash
  <2>1. raced' = raced /\ orphaned' = Kinds /\ \A t \in Jobs : ~Active(t)' /\ pc'[t] \notin Running
    BY <1>4 DEF Crash, Active, Running, Tasks
  <2> QED
    BY <2>1 DEF JobInv, RunningHasRunner
<1>5. CASE UNCHANGED vars
  BY <1>5 DEF vars, past, JobInv, RunningHasRunner, Runners, Active
<1> QED
  BY <1>1, <1>2, <1>3, <1>4, <1>5 DEF Next, JobStep

\* One job of a kind runs at a time, unless two requests were let through before either had
\* marked the row.
THEOREM OneRuns == Spec => []OneRunner
<1>1. JobInv => OneRunner
  BY DEF JobInv, OneRunner, Runners, Active
<1>2. TypeOK /\ (JobInv /\ RunningHasRunner) /\ [Next]_vars => (JobInv /\ RunningHasRunner)'
  BY JobStepInv
<1> QED
  BY <1>1, <1>2, InitJobs, TypeCorrect, PTL DEF Spec

\* A row that says running has a job behind it, unless the end of one was not recorded.
THEOREM RunningIsRun == Spec => []RunningHasRunner
<1>1. TypeOK /\ (JobInv /\ RunningHasRunner) /\ [Next]_vars => (JobInv /\ RunningHasRunner)'
  BY JobStepInv
<1> QED
  BY <1>1, InitJobs, TypeCorrect, PTL DEF Spec

-----------------------------------------------------------------------------
\* Ready around the party

\* A graph has the scenes of the parse, and a scene that has its text has its exits among them.
Good(g) == Parsed \subseteq g.present /\ \A s \in g.deep : Exits[s] \cap Parsed \subseteq g.links[s]
GoodInv == Good(graph) /\ \A t \in Tasks : Busy(t) => Good(copy[t])

Reading(t) == pc[t] \in {"load", "work", "save"}
Tried == graph.deep \cup refused

\* What is read, or known to be in vain, around the scene s that a turn came to, when it has still
\* to read the scenes of rest
Around(t, s, rest) ==
    \/ s \in refused
    \/ s \in graph.deep /\ (t \in cut \/ (Exits[s] \cap Parsed) \ {s} \subseteq Tried \cup rest)

\* Where a turn is in its tail: it reads one scene of the graph at a time, first the one the party
\* came to and then those of left.
ReadsOne(t) ==
    /\ Reading(t) => \E x \in graph.present : wanted[t] = {x}
    /\ pc[t] = "work" => wanted[t] \subseteq Targets(t, copy[t])
    /\ pc[t] = "save" => wanted[t] \subseteq copy[t].deep
    /\ left[t] \subseteq graph.present
    /\ pc[t] \in {"idle", "arrive"} => left[t] = {} /\ target[t] = {}
    /\ Reading(t) \/ pc[t] \in {"frontier", "exits"} => \E s \in Scenes : target[t] = {s}
Arrival(t) ==
    \A s \in target[t] :
        /\ s \notin left[t]
        /\ pc[t] \notin {"insert", "start", "done", "error"}
        /\ pc[t] = "frontier" => s \in Tried
        /\ Reading(t) /\ wanted[t] # {s} => Around(t, s, left[t] \cup wanted[t])
        /\ pc[t] = "exits" => Around(t, s, left[t])
        /\ pc[t] = "over" => Around(t, s, {})
ArrivalInv == faults # 0 \/ overtaken \/ \A t \in Turns : ReadsOne(t) /\ Arrival(t)

LEMMA GoodGraphs ==
  ASSUME NEW g \in Graph, Good(g)
  PROVE  /\ \A read \in SUBSET g.present : \A full \in SUBSET read : Good(WithRead(g, read, full))
         /\ \A new \in SUBSET Scenes : Good(WithStubs(g, new))
<1>1. ASSUME NEW read \in SUBSET g.present, NEW full \in SUBSET read
      PROVE  Good(WithRead(g, read, full))
  <2> DEFINE h == WithRead(g, read, full)
  <2>1. h.present = g.present /\ h.deep = g.deep \cup full /\ h.deep \subseteq Scenes
    BY DEF WithRead, Graph
  <2>2. \A s \in Scenes : (IF s \in read THEN Submitted(g, s) ELSE g.links[s]) \subseteq h.links[s]
    BY DEF WithRead
  <2>3. \A s \in Scenes : g.links[s] \subseteq Submitted(g, s)
    BY DEF Submitted
  <2>4. ASSUME NEW s \in h.deep PROVE Exits[s] \cap Parsed \subseteq h.links[s]
    <3>1. CASE s \in g.deep
      BY <2>1, <2>2, <2>3, <3>1 DEF Good
    <3>2. CASE s \in full
      <4>1. Exits[s] \cap Parsed \subseteq Submitted(g, s)
        BY DEF Good, Submitted
      <4> QED
        BY <2>1, <2>2, <3>2, <4>1
    <3> QED
      BY <2>1, <3>1, <3>2
  <2>5. Good(h)
    <3> HIDE DEF h
    <3> QED
      BY <2>1, <2>4 DEF Good
  <2> QED
    BY <2>5
<1>2. ASSUME NEW new \in SUBSET Scenes PROVE Good(WithStubs(g, new))
  BY DEF Good, WithStubs, Graph
<1> QED
  BY <1>1, <1>2

\* A step of one task
StepOf(t) ==
    \/ t \in Jobs /\ (Check(t) \/ Insert(t) \/ InsertLost(t) \/ Start(t) \/ Report(t))
    \/ t \in Turns /\ (ReadMap(t) \/ Arrive(t) \/ Frontier(t) \/ NextExit(t) \/ FrontierFails(t))
    \/ Load(t) \/ LoadFails(t) \/ Work(t) \/ Save(t)

LEMMA NextSteps == Next => Crash \/ \E t \in Tasks : StepOf(t)
BY DEF Next, StepOf, JobStep, TurnStep, Extract, Tasks

\* It leaves the other tasks alone and forgets neither what was read in vain nor what was cut.
LEMMA OthersStay ==
  ASSUME TypeOK, NEW t \in Tasks, StepOf(t)
  PROVE  /\ \A u \in Tasks \ {t} : pc'[u] = pc[u] /\ copy'[u] = copy[u] /\ wanted'[u] = wanted[u]
         /\ \A u \in Turns \ {t} : left'[u] = left[u] /\ target'[u] = target[u]
         /\ refused \subseteq refused' /\ cut \subseteq cut' /\ (overtaken => overtaken')
         /\ faults' = faults \/ Fault
<1> USE DEF Jump, locals, past, TypeOK
<1>1. CASE t \in Jobs /\ (Check(t) \/ Insert(t) \/ InsertLost(t) \/ Start(t) \/ Report(t))
  BY <1>1 DEF Check, Insert, InsertLost, Start, Report
<1>2. CASE t \in Turns /\ (ReadMap(t) \/ FrontierFails(t))
  BY <1>2 DEF ReadMap, FrontierFails
<1>3. CASE t \in Turns /\ Arrive(t)
  BY <1>3 DEF Arrive
<1>4. CASE t \in Turns /\ Frontier(t)
  BY <1>4 DEF Frontier
<1>5. CASE t \in Turns /\ NextExit(t)
  BY <1>5 DEF NextExit
<1>6. CASE Load(t) \/ LoadFails(t)
  BY <1>6 DEF Load, LoadFails
<1>7. CASE Work(t)
  BY <1>7 DEF Work, AddStubs, ReadScenes, Give, GiveUp
<1>8. CASE Save(t)
  BY <1>8 DEF Save, Written
<1> QED
  BY <1>1, <1>2, <1>3, <1>4, <1>5, <1>6, <1>7, <1>8 DEF StepOf

\* What a task has in its hands after a reading: one of the graphs of GoodGraphs, or nothing.
LEMMA WorkGives ==
  ASSUME TypeOK, NEW t \in Tasks, Work(t), Good(copy[t])
  PROVE  GiveUp(t) \/ \E g \in Graph : Give(t, g) /\ Good(g)
<1>0. copy[t] \in Graph
  BY DEF TypeOK
<1>1. CASE t \in Completers
  <2>1. PICK new \in SUBSET Targets(t, copy[t]) :
            IF new = {} THEN GiveUp(t) ELSE Give(t, WithStubs(copy[t], new))
    BY <1>1 DEF Work, AddStubs
  <2>2. new \in SUBSET Scenes
    BY <1>0, TargetScenes
  <2> QED
    BY <1>0, <2>1, <2>2, GoodGraphs, StubGraph
<1>2. CASE t \notin Completers
  <2>1. PICK read \in SUBSET Targets(t, copy[t]) : \E full \in SUBSET read :
            IF full = {} THEN GiveUp(t) ELSE Give(t, WithRead(copy[t], read, full))
    BY <1>2 DEF Work, ReadScenes
  <2>2. read \in SUBSET copy[t].present
    BY <1>0, <1>2, TargetScenes
  <2> QED
    BY <1>0, <2>1, <2>2, GoodGraphs, ReadGraph
<1> QED
  BY <1>1, <1>2

LEMMA InitGood == Init => GoodInv
<1> SUFFICES ASSUME Init PROVE GoodInv
  OBVIOUS
<1>1. Good(graph)
  BY GraphAssumption DEF Init, Good
<1>2. \A t \in Tasks : ~Busy(t)
  BY DEF Init, Busy
<1> QED
  BY <1>1, <1>2 DEF GoodInv

LEMMA GoodStep == TypeOK /\ GoodInv /\ [Next]_vars => GoodInv'
<1> SUFFICES ASSUME TypeOK, GoodInv, [Next]_vars PROVE GoodInv'
  OBVIOUS
<1>1. CASE UNCHANGED vars
  BY <1>1 DEF vars, locals, GoodInv, Good, Busy
<1>2. CASE Crash
  BY <1>2 DEF Crash, GoodInv, Good, Busy
<1>3. ASSUME NEW t \in Tasks, StepOf(t) PROVE GoodInv'
  <2>1. Good(graph)'
    <3>1. graph' = graph \/ (Save(t) /\ graph' = copy[t] /\ Busy(t))
      BY <1>3 DEF StepOf, Check, Insert, InsertLost, Start, Report, ReadMap, Arrive, Frontier,
         NextExit, FrontierFails, Load, LoadFails, Work, Save, Written, Busy
    <3> QED
      BY <3>1 DEF GoodInv, Good
  <2>2. ASSUME Busy(t)' PROVE Good(copy[t])'
    <3> USE DEF Jump
    <3>1. CASE Load(t)
      BY <2>2, <3>1 DEF Load, GoodInv, Good, Busy, Onward, TypeOK
    <3>2. CASE Work(t)
      <4>1. Good(copy[t])
        BY <3>2 DEF Work, AddStubs, ReadScenes, Give, GiveUp, GoodInv, Busy
      <4>2. PICK g \in Graph : Give(t, g) /\ Good(g)
        BY <2>2, <3>2, <4>1, WorkGives DEF GiveUp, Onward, Busy, TypeOK
      <4> QED
        BY <4>2 DEF Give, Good, TypeOK
    <3>3. ~Load(t) /\ ~Work(t) => ~Busy(t)'
      BY <1>3 DEF StepOf, Check, Insert, InsertLost, Start, Report, ReadMap, Arrive, Frontier,
         NextExit, FrontierFails, LoadFails, Save, Onward, Busy, TypeOK
    <3> QED
      BY <2>2, <3>1, <3>2, <3>3
  <2>3. \A u \in Tasks \ {t} : Busy(u)' => Good(copy[u])'
    BY <1>3, OthersStay DEF GoodInv, Good, Busy
  <2> QED
    BY <2>1, <2>2, <2>3 DEF GoodInv
<1> QED
  BY <1>1, <1>2, <1>3, NextSteps

LEMMA TurnTask == \A t \in Turns : t \in Tasks /\ t \notin Jobs /\ t \notin Completers
BY TasksAssumption DEF Tasks, Jobs

\* Nothing that was read is forgotten while the row only grows.
LEMMA AroundStays ==
  ASSUME graph.deep \subseteq graph'.deep, refused \subseteq refused', cut \subseteq cut',
         NEW t, NEW s, NEW rest, NEW more, Around(t, s, rest), rest \subseteq more \cup Tried'
  PROVE  \/ s \in refused'
         \/ /\ s \in graph'.deep
            /\ t \in cut' \/ (Exits[s] \cap Parsed) \ {s} \subseteq Tried' \cup more
BY DEF Around, Tried

\* A turn that has done with one scene goes on to the exits, or to the next of them.
LEMMA DoneReading ==
  ASSUME TypeOK, NEW t \in Turns, Reading(t), ReadsOne(t), Arrival(t),
         graph'.present \in SUBSET Scenes, graph.present \subseteq graph'.present,
         graph.deep \subseteq graph'.deep, refused \subseteq refused', cut' = cut,
         wanted' = wanted, left' = left, target' = target,
         pc'[t] = Onward(t, "done"), wanted[t] \subseteq Tried'
  PROVE  ReadsOne(t)' /\ Arrival(t)'
<1>1. PICK s \in Scenes : target[t] = {s}
  BY DEF ReadsOne
<1>2. pc'[t] = IF wanted[t] = {s} THEN "frontier" ELSE "exits"
  BY <1>1, TurnTask DEF Onward
<1>3. ReadsOne(t)'
  BY <1>1, <1>2 DEF ReadsOne, Reading
<1>4. CASE wanted[t] = {s}
  <2>1. pc'[t] = "frontier" /\ target'[t] = {s} /\ s \notin left'[t] /\ s \in Tried'
    BY <1>1, <1>2, <1>4 DEF Arrival
  <2> QED
    BY <1>3, <2>1 DEF Arrival, Reading
<1>5. CASE wanted[t] # {s}
  <2>1. Around(t, s, left[t] \cup wanted[t]) /\ s \notin left[t]
    BY <1>1, <1>5 DEF Arrival
  <2>2. \/ s \in refused'
        \/ /\ s \in graph'.deep
           /\ t \in cut' \/ (Exits[s] \cap Parsed) \ {s} \subseteq Tried' \cup left[t]
    BY <2>1, AroundStays
  <2>3. /\ pc'[t] = "exits" /\ target'[t] = {s} /\ s \notin left'[t]
        /\ \/ s \in refused'
           \/ /\ s \in graph'.deep
              /\ t \in cut' \/ (Exits[s] \cap Parsed) \ {s} \subseteq Tried' \cup left'[t]
    BY <1>1, <1>2, <1>5, <2>1, <2>2
  <2> QED
    BY <1>3, <2>3 DEF Arrival, Reading, Around
<1> QED
  BY <1>3, <1>4, <1>5

\* A turn that goes on with what it was doing, or that another task leaves alone.
LEMMA ArrivalStays ==
  ASSUME TypeOK, NEW t \in Turns, ReadsOne(t), Arrival(t),
         graph.present \subseteq graph'.present, graph.deep \subseteq graph'.deep,
         refused \subseteq refused', cut \subseteq cut',
         pc'[t] = pc[t], copy'[t] = copy[t], wanted'[t] = wanted[t], left'[t] = left[t],
         target'[t] = target[t]
  PROVE  ReadsOne(t)' /\ Arrival(t)'
<1>1. ReadsOne(t)'
  <2>1. Targets(t, copy[t])' = Targets(t, copy[t])
    BY TurnTask DEF Targets
  <2> QED
    BY <2>1 DEF ReadsOne, Reading
<1>2. Tried \subseteq Tried'
  BY DEF Tried
<1>3. ASSUME NEW s \in target[t]
      PROVE  /\ s \notin left'[t]
             /\ pc'[t] \notin {"insert", "start", "done", "error"}
             /\ pc'[t] = "frontier" => s \in Tried'
             /\ Reading(t)' /\ wanted'[t] # {s} => Around(t, s, left[t] \cup wanted[t])'
             /\ pc'[t] = "exits" => Around(t, s, left[t])'
             /\ pc'[t] = "over" => Around(t, s, {})'
  <2>1. ASSUME NEW rest, NEW more, Around(t, s, rest), rest \subseteq more
        PROVE  \/ s \in refused'
               \/ /\ s \in graph'.deep
                  /\ t \in cut' \/ (Exits[s] \cap Parsed) \ {s} \subseteq Tried' \cup more
    BY <1>2, <2>1, AroundStays
  <2>2. Reading(t)' /\ wanted'[t] # {s} => Around(t, s, left[t] \cup wanted[t])'
    <3> SUFFICES ASSUME Reading(t)', wanted'[t] # {s} PROVE Around(t, s, left[t] \cup wanted[t])'
      OBVIOUS
    <3>1. Around(t, s, left[t] \cup wanted[t])
      BY <1>3 DEF Arrival, Reading
    <3>2. \/ s \in refused'
          \/ /\ s \in graph'.deep
             /\ \/ t \in cut'
                \/ (Exits[s] \cap Parsed) \ {s} \subseteq Tried' \cup (left[t] \cup wanted[t])
      BY <2>1, <3>1
    <3> QED
      BY <3>2 DEF Around
  <2>3. pc'[t] = "exits" => Around(t, s, left[t])'
    BY <1>3, <2>1 DEF Arrival, Around
  <2>4. pc'[t] = "over" => Around(t, s, {})'
    BY <1>3, <2>1 DEF Arrival, Around
  <2> QED
    BY <1>2, <1>3, <2>2, <2>3, <2>4 DEF Arrival
<1> QED
  BY <1>1, <1>3 DEF Arrival

\* The reading of one scene: it is found to have its text, it is read or tried in vain, or the copy in
\* which it has its text is written.
LEMMA ReadingStep ==
  ASSUME TypeOK, RowInv, RowInv', NEW t \in Turns, ReadsOne(t), Arrival(t),
         Load(t) \/ Work(t) \/ Save(t), faults' = 0, faults = 0, Within(graph, graph'), graph' \in Graph
  PROVE  ReadsOne(t)' /\ Arrival(t)'
<1> USE DEF Jump
<1>a. t \in Tasks /\ t \notin Completers /\ t \notin Jobs /\ graph \in Graph /\ copy[t] \in Graph
  BY TurnTask DEF TypeOK
<1>b. /\ graph'.present \in SUBSET Scenes /\ graph.present \subseteq graph'.present
      /\ graph.deep \subseteq graph'.deep
  BY DEF Within, Graph
<1>c. Reading(t)
  BY DEF Load, Work, AddStubs, ReadScenes, Give, GiveUp, Save, Reading
<1>d. PICK x \in graph.present : wanted[t] = {x}
  BY <1>c DEF ReadsOne
<1>e. /\ wanted' = wanted /\ left' = left /\ target' = target /\ cut' = cut
      /\ refused \subseteq refused'
  BY DEF Load, Work, AddStubs, ReadScenes, Give, GiveUp, Save, past
<1>f. faults' = 0 /\ faults = 0 => ~Fault
  BY DEF Fault
<1>1. ASSUME pc'[t] = Onward(t, "done"), wanted[t] \subseteq Tried' PROVE ReadsOne(t)' /\ Arrival(t)'
  BY <1>1, <1>b, <1>c, <1>e, DoneReading
<1>2. ASSUME pc'[t] \in {"work", "save"},
             pc'[t] = "work" => wanted[t] \subseteq Targets(t, copy'[t]),
             pc'[t] = "save" => wanted[t] \subseteq copy'[t].deep
      PROVE  ReadsOne(t)' /\ Arrival(t)'
  <2>1. ReadsOne(t)'
    BY <1>a, <1>b, <1>c, <1>d, <1>e, <1>2 DEF ReadsOne, Reading, Targets
  <2>2. PICK s \in Scenes : target[t] = {s}
    BY <1>c DEF ReadsOne
  <2>3. wanted[t] # {s} =>
            \/ s \in refused'
            \/ /\ s \in graph'.deep
               /\ t \in cut' \/ (Exits[s] \cap Parsed) \ {s} \subseteq Tried' \cup (left[t] \cup wanted[t])
    <3> SUFFICES ASSUME wanted[t] # {s}
                 PROVE  \/ s \in refused'
                        \/ /\ s \in graph'.deep
                           /\ \/ t \in cut'
                              \/ (Exits[s] \cap Parsed) \ {s}
                                    \subseteq Tried' \cup (left[t] \cup wanted[t])
      OBVIOUS
    <3>1. Around(t, s, left[t] \cup wanted[t])
      BY <1>c, <2>2 DEF Arrival
    <3> QED
      <4> DEFINE rest == left[t] \cup wanted[t]
      <4>1. /\ graph.deep \subseteq graph'.deep /\ refused \subseteq refused' /\ cut \subseteq cut'
            /\ Around(t, s, rest) /\ rest \subseteq rest \cup Tried'
        BY <1>b, <1>e, <3>1
      <4> HIDE DEF rest
      <4>2. \/ s \in refused'
            \/ /\ s \in graph'.deep
               /\ t \in cut' \/ (Exits[s] \cap Parsed) \ {s} \subseteq Tried' \cup rest
        BY <4>1, AroundStays
      <4> QED
        BY <4>2 DEF rest
  <2>4. s \notin left[t]
    BY <2>2 DEF Arrival
  <2> QED
    BY <1>2, <1>e, <2>1, <2>2, <2>3, <2>4 DEF Arrival, Around, Reading
<1>3. CASE Load(t)
  <2>1. CASE Targets(t, graph) = {}
    <3>1. x \in graph'.deep
      BY <1>a, <1>b, <1>d, <2>1 DEF Targets
    <3>2. pc'[t] = Onward(t, "done")
      BY <1>a, <1>3, <2>1 DEF Load, TypeOK
    <3> QED
      BY <1>1, <1>d, <3>1, <3>2 DEF Tried
  <2>2. CASE Targets(t, graph) # {}
    <3>1. pc'[t] = "work" /\ copy'[t] = graph
      BY <1>a, <1>3, <2>2 DEF Load, TypeOK
    <3>2. wanted[t] \subseteq Targets(t, graph)
      BY <1>a, <1>d, <2>2 DEF Targets
    <3> QED
      BY <1>2, <3>1, <3>2
  <2> QED
    BY <2>1, <2>2
<1>4. CASE Work(t)
  <2>0. pc[t] = "work" /\ wanted[t] \subseteq Targets(t, copy[t])
    BY <1>4 DEF Work, AddStubs, ReadScenes, Give, GiveUp, ReadsOne
  <2>1. PICK read \in SUBSET Targets(t, copy[t]) : \E full \in SUBSET read :
            /\ refused' = refused \cup (Targets(t, copy[t]) \ full)
            /\ IF full = {} THEN GiveUp(t) ELSE Give(t, WithRead(copy[t], read, full))
    BY <1>a, <1>4 DEF Work, ReadScenes
  <2>2. PICK full \in SUBSET read :
            /\ refused' = refused \cup (Targets(t, copy[t]) \ full)
            /\ IF full = {} THEN GiveUp(t) ELSE Give(t, WithRead(copy[t], read, full))
    BY <2>1
  <2>3. CASE full = {}
    <3>1. pc'[t] = Onward(t, "done")
      BY <1>a, <2>2, <2>3 DEF GiveUp, TypeOK
    <3>2. wanted[t] \subseteq Tried'
      BY <2>0, <2>2, <2>3 DEF Tried
    <3> QED
      BY <1>1, <3>1, <3>2
  <2>4. CASE full # {}
    <3>1. pc'[t] = "save" /\ copy'[t] = WithRead(copy[t], read, full)
      BY <1>a, <2>2, <2>4 DEF Give, TypeOK
    <3>2. Targets(t, copy[t]) \subseteq {x}
      BY <1>a, <1>d DEF Targets
    <3>3. x \in full
      BY <2>4, <3>2
    <3>4. x \in copy'[t].deep
      BY <3>1, <3>3 DEF WithRead
    <3> QED
      BY <1>2, <1>d, <3>1, <3>4
  <2> QED
    BY <2>3, <2>4
<1>5. CASE Save(t)
  <2>1. pc[t] = "save" /\ pc'[t] = Onward(t, "done") /\ graph' = copy[t]
    BY <1>a, <1>f, <1>5 DEF Save, Written, TypeOK
  <2>2. wanted[t] \subseteq graph'.deep
    BY <2>1 DEF ReadsOne
  <2> QED
    BY <1>1, <2>1, <2>2 DEF Tried
<1> QED
  BY <1>3, <1>4, <1>5

\* The other steps of a turn: the move, the choice of exits and the next of them
LEMMA ExitStep ==
  ASSUME TypeOK, RowInv, GoodInv, ~overtaken, NEW t \in Turns, ReadsOne(t), Arrival(t),
         ReadMap(t) \/ Arrive(t) \/ Frontier(t) \/ NextExit(t)
  PROVE  ReadsOne(t)' /\ Arrival(t)'
<1> USE DEF Jump
<1>a. t \in Tasks /\ t \notin Completers /\ graph \in Graph /\ copy[t] \in Graph
  BY TurnTask DEF TypeOK
<1>b. graph.present \subseteq Scenes /\ graph.deep \subseteq Scenes
  BY <1>a DEF Graph
<1>1. CASE ReadMap(t)
  <2>1. /\ pc[t] = "idle" /\ pc'[t] = "arrive" /\ graph' = graph
        /\ left' = left /\ target' = target
    BY <1>a, <1>1 DEF ReadMap, TypeOK
  <2> QED
    BY <2>1 DEF ReadsOne, Arrival, Reading
<1>2. CASE Arrive(t)
  <2>0. pc[t] = "arrive" /\ left[t] = {} /\ target[t] = {} /\ graph' = graph /\ left' = left
    BY <1>2 DEF Arrive, ReadsOne
  <2>1. CASE pc'[t] = "over" /\ target' = target
    BY <2>0, <2>1 DEF ReadsOne, Arrival, Reading
  <2>2. CASE \E s \in copy[t].present :
                 pc'[t] = "load" /\ target'[t] = {s} /\ wanted'[t] = {s}
    <3>1. PICK s \in copy[t].present : pc'[t] = "load" /\ target'[t] = {s} /\ wanted'[t] = {s}
      BY <2>2
    <3>2. s \in graph.present /\ s \in Scenes
      BY <1>a, <1>b, <2>0, <3>1 DEF RowInv, MapsHold
    <3> QED
      BY <2>0, <3>1, <3>2 DEF ReadsOne, Arrival, Reading
  <2>3. \/ pc'[t] = "over" /\ target' = target
        \/ \E s \in copy[t].present : pc'[t] = "load" /\ target'[t] = {s} /\ wanted'[t] = {s}
    BY <1>a, <1>2 DEF Arrive, TypeOK
  <2> QED
    BY <2>1, <2>2, <2>3
<1>3. CASE Frontier(t)
  <2>0. /\ pc[t] = "frontier" /\ pc'[t] = "exits" /\ graph' = graph /\ refused' = refused
        /\ target' = target
    BY <1>a, <1>3 DEF Frontier, TypeOK
  <2>1. PICK s \in Scenes : target[t] = {s}
    BY <2>0 DEF ReadsOne
  <2>2. PICK some \in SUBSET StubsBeyond(s) :
            /\ (some = StubsBeyond(s) /\ cut' = cut) \/ cut' = cut \cup {t}
            /\ left' = [left EXCEPT ![t] = some]
    BY <1>3, <2>1 DEF Frontier
  <2>3. left'[t] = some /\ some \subseteq graph.present /\ s \notin some
    BY <2>2 DEF StubsBeyond, TypeOK
  <2>4. s \in Tried
    BY <2>0, <2>1 DEF Arrival
  <2>5. \/ s \in refused'
        \/ /\ s \in graph'.deep
           /\ t \in cut' \/ (Exits[s] \cap Parsed) \ {s} \subseteq Tried' \cup left'[t]
    <3>1. SUFFICES ASSUME s \in graph.deep, t \notin cut'
                   PROVE  (Exits[s] \cap Parsed) \ {s} \subseteq Tried' \cup left'[t]
      BY <2>0, <2>4 DEF Tried
    <3>2. some = StubsBeyond(s)
      BY <2>2, <3>1
    <3>3. Exits[s] \cap Parsed \subseteq graph.links[s] /\ Parsed \subseteq graph.present
      BY <3>1 DEF GoodInv, Good
    <3> QED
      BY <2>0, <2>3, <3>2, <3>3 DEF StubsBeyond, Tried
  <2>6. ReadsOne(t)'
    BY <2>0, <2>1, <2>3 DEF ReadsOne, Reading
  <2> QED
    BY <2>0, <2>1, <2>3, <2>5, <2>6 DEF Arrival, Around, Reading
<1>4. CASE NextExit(t)
  <2>0. /\ pc[t] = "exits" /\ graph' = graph /\ refused' = refused /\ cut' = cut
        /\ target' = target
    BY <1>4 DEF NextExit, past
  <2>1. PICK s \in Scenes : target[t] = {s}
    BY <2>0 DEF ReadsOne
  <2>2. Around(t, s, left[t]) /\ s \notin left[t] /\ left[t] \subseteq graph.present
    BY <2>0, <2>1 DEF Arrival, ReadsOne
  <2>3. CASE left[t] = {}
    <3>1. pc'[t] = "over" /\ left' = left
      BY <1>a, <1>4, <2>3 DEF NextExit, TypeOK
    <3>2. ReadsOne(t)'
      BY <2>0, <2>3, <3>1 DEF ReadsOne, Reading
    <3> QED
      BY <2>0, <2>1, <2>2, <2>3, <3>1, <3>2 DEF Arrival, Around, Tried, Reading
  <2>4. CASE left[t] # {}
    <3>1. PICK e \in left[t] :
              pc'[t] = "load" /\ wanted'[t] = {e} /\ left'[t] = left[t] \ {e}
      BY <1>a, <1>4, <2>4 DEF NextExit, TypeOK
    <3>2. ReadsOne(t)'
      BY <2>0, <2>1, <2>2, <3>1 DEF ReadsOne, Reading
    <3>3. left'[t] \cup wanted'[t] = left[t]
      BY <3>1
    <3>4. Around(t, s, left'[t] \cup wanted'[t])
      BY <2>2, <3>3
    <3> QED
      BY <2>0, <2>1, <2>2, <3>1, <3>2, <3>4 DEF Arrival, Around, Tried, Reading
  <2> QED
    BY <2>3, <2>4
<1> QED
  BY <1>1, <1>2, <1>3, <1>4

LEMMA ArrivalStep ==
  ASSUME TypeOK, RowInv, GoodInv, ArrivalInv, TypeOK', RowInv', [Next]_vars
  PROVE  ArrivalInv'
<1> SUFFICES ASSUME faults' = 0, ~overtaken' PROVE \A u \in Turns : ReadsOne(u)' /\ Arrival(u)'
  BY DEF ArrivalInv
<1>0. Within(graph, graph') /\ graph' \in Graph
  BY RowStep DEF TypeOK
<1>1. CASE UNCHANGED vars
  <2>1. \A u \in Turns : ReadsOne(u) /\ Arrival(u)
    BY <1>1 DEF vars, past, ArrivalInv
  <2>2. /\ pc' = pc /\ copy' = copy /\ wanted' = wanted /\ left' = left /\ target' = target
        /\ cut' = cut /\ refused' = refused
    BY <1>1 DEF vars, locals, past
  <2> QED
    BY <1>0, <2>1, <2>2, ArrivalStays DEF Within
<1>2. CASE Crash
  BY <1>2, BoundsAssumption DEF Crash, Fault, TypeOK
<1>3. ASSUME NEW t \in Tasks, StepOf(t) PROVE \A u \in Turns : ReadsOne(u)' /\ Arrival(u)'
  <2>1. /\ refused \subseteq refused' /\ cut \subseteq cut' /\ ~overtaken
        /\ faults' = faults \/ Fault
    BY <1>3, OthersStay
  <2>2. faults = 0 /\ ~Fault
    BY <2>1, BoundsAssumption DEF Fault, TypeOK
  <2>3. \A u \in Turns : ReadsOne(u) /\ Arrival(u)
    BY <2>1, <2>2 DEF ArrivalInv
  <2>4. ASSUME NEW u \in Turns, u # t PROVE ReadsOne(u)' /\ Arrival(u)'
    <3>1. /\ pc'[u] = pc[u] /\ copy'[u] = copy[u] /\ wanted'[u] = wanted[u]
          /\ left'[u] = left[u] /\ target'[u] = target[u]
      BY <1>3, <2>4, OthersStay, TurnTask
    <3> QED
      BY <1>0, <2>1, <2>3, <3>1, ArrivalStays DEF Within
  <2>5. ASSUME t \in Turns PROVE ReadsOne(t)' /\ Arrival(t)'
    <3>1. CASE Load(t) \/ Work(t) \/ Save(t)
      BY <1>0, <2>2, <2>3, <2>5, <3>1, ReadingStep
    <3>2. CASE ReadMap(t) \/ Arrive(t) \/ Frontier(t) \/ NextExit(t)
      BY <2>1, <2>3, <2>5, <3>2, ExitStep
    <3>3. ~FrontierFails(t) /\ ~LoadFails(t) /\ t \notin Jobs
      BY <2>2, <2>5, TurnTask DEF FrontierFails, LoadFails
    <3> QED
      BY <1>3, <3>1, <3>2, <3>3 DEF StepOf
  <2> QED
    BY <2>4, <2>5
<1> QED
  BY <1>1, <1>2, <1>3, NextSteps

\* When the tail of a turn has ended without a fault or a lost write, the scene the party came to
\* and its exits have been read, but for those read in vain and a frontier that is too large.
THEOREM ReadyAroundAlways == Spec => []ReadyAround
<1>1. Init => ArrivalInv
  <2> SUFFICES ASSUME Init PROVE \A t \in Turns : ReadsOne(t) /\ Arrival(t)
    BY DEF ArrivalInv
  <2>1. \A t \in Turns : pc[t] \in {"idle", "over"} /\ left[t] = {} /\ target[t] = {}
    BY TurnTask DEF Init
  <2> QED
    BY <2>1 DEF ReadsOne, Arrival, Reading
<1>2. ArrivalInv => ReadyAround
  BY DEF ArrivalInv, Arrival, Around, Tried, ReadyAround
<1>3. TypeOK /\ RowInv /\ TypeOK' /\ RowInv' /\ (GoodInv /\ ArrivalInv) /\ [Next]_vars
        => (GoodInv /\ ArrivalInv)'
  BY GoodStep, ArrivalStep
<1> QED
  BY <1>1, <1>2, <1>3, InitGood, RowSound, PTL DEF Spec

-----------------------------------------------------------------------------
\* Every task comes to an end

ReadPart(l) == CASE l = "load" -> 3 [] l = "work" -> 2 [] l = "save" -> 1 [] OTHER -> 0

JobWork(l) ==
    CASE l = "idle"              -> 7
      [] l = "insert"            -> 6
      [] l = "start"             -> 5
      [] l = "load"              -> 4
      [] l = "work"              -> 3
      [] l = "save"              -> 2
      [] l \in {"done", "error"} -> 1
      [] OTHER                   -> 0

\* What follows the reading a turn is at: the frontier, when it reads the scene the party has
\* come to, or the rest of the exits.
Ahead(t) == IF wanted[t] = target[t] THEN 4 * MaxPrefetch + 1 ELSE 4 * Cardinality(left[t])

TurnWork(t) ==
    CASE pc[t] = "idle"                     -> 4 * MaxPrefetch + 7
      [] pc[t] = "arrive"                   -> 4 * MaxPrefetch + 6
      [] pc[t] \in {"load", "work", "save"} -> Ahead(t) + 1 + ReadPart(pc[t])
      [] pc[t] = "frontier"                 -> 4 * MaxPrefetch + 2
      [] pc[t] = "exits"                    -> 4 * Cardinality(left[t]) + 1
      [] OTHER                              -> 0

\* How many steps a task can take at most.
WorkOf(t) == IF t \in Jobs THEN JobWork(pc[t]) ELSE TurnWork(t)

\* A turn has moved the party to one scene, and reads no exit that leads back to it.
LeftInv == \A t \in Turns :
    /\ left[t] \cap target[t] = {} /\ \A r, s \in target[t] : r = s
    /\ pc[t] \in {"idle", "arrive"} => left[t] = {}

LEMMA LeftStep == TypeOK /\ LeftInv /\ [Next]_vars => LeftInv'
<1> SUFFICES ASSUME TypeOK, LeftInv, [Next]_vars PROVE LeftInv'
  OBVIOUS
<1>1. CASE UNCHANGED vars
  BY <1>1 DEF vars, locals, LeftInv
<1>2. CASE Crash
  BY <1>2 DEF Crash, LeftInv, TypeOK, Tasks
<1>3. ASSUME NEW t \in Tasks, StepOf(t) PROVE LeftInv'
  <2>1. SUFFICES ASSUME t \in Turns
                 PROVE  /\ left'[t] \cap target'[t] = {} /\ \A r, s \in target'[t] : r = s
                        /\ pc'[t] \in {"idle", "arrive"} => left'[t] = {}
    BY <1>3, OthersStay, TurnTask DEF LeftInv, Tasks
  <2>t. /\ t \notin Jobs /\ t \in Tasks
        /\ left[t] \cap target[t] = {} /\ \A r, s \in target[t] : r = s
        /\ pc[t] \in {"idle", "arrive"} => left[t] = {}
    BY <2>1, TurnTask DEF LeftInv
  <2> USE DEF Jump, TypeOK
  <2>2. CASE ReadMap(t)
    BY <2>t, <2>2 DEF ReadMap
  <2>3. CASE Arrive(t)
    <3>1. left' = left /\ left[t] = {} /\ pc'[t] \in {"over", "load"}
      BY <2>t, <2>3 DEF Arrive
    <3>2. \/ target' = target
          \/ \E s \in Scenes : target' = [target EXCEPT ![t] = {s}]
      BY <2>3 DEF Arrive, Graph
    <3> QED
      BY <2>1, <2>t, <3>1, <3>2
  <2>4. CASE Frontier(t)
    <3>1. PICK s \in target[t] : \E some \in SUBSET StubsBeyond(s) :
              left' = [left EXCEPT ![t] = some]
      BY <2>4 DEF Frontier
    <3>2. pc'[t] = "exits" /\ target' = target
      BY <2>t, <2>4 DEF Frontier
    <3>3. left'[t] \subseteq StubsBeyond(s)
      BY <2>1, <3>1
    <3>4. s \notin left'[t]
      BY <3>3 DEF StubsBeyond
    <3> QED
      BY <2>t, <3>1, <3>2, <3>4
  <2>5. CASE NextExit(t)
    BY <2>1, <2>t, <2>5 DEF NextExit
  <2>6. CASE FrontierFails(t)
    BY <2>t, <2>6 DEF FrontierFails, locals
  <2>7. CASE Load(t) \/ LoadFails(t)
    BY <2>t, <2>7 DEF Load, LoadFails, locals, Onward
  <2>8. CASE Work(t)
    BY <2>t, <2>8 DEF Work, AddStubs, ReadScenes, Give, GiveUp, Onward
  <2>9. CASE Save(t)
    BY <2>t, <2>9 DEF Save, Onward
  <2> QED
    BY <1>3, <2>t, <2>1, <2>2, <2>3, <2>4, <2>5, <2>6, <2>7, <2>8, <2>9 DEF StepOf
<1> QED
  BY <1>1, <1>2, <1>3, NextSteps

\* A step of an extraction goes on to the next part of it, or onward.
LEMMA ReadingGoesOn ==
  ASSUME TypeOK, NEW t \in Tasks, Load(t) \/ LoadFails(t) \/ Work(t) \/ Save(t)
  PROVE  /\ wanted' = wanted /\ left' = left /\ target' = target
         /\ \/ <<pc[t], pc'[t]>> \in {<<"load", "work">>, <<"work", "save">>}
            \/ /\ pc[t] \in {"load", "work", "save"}
               /\ pc'[t] \in {Onward(t, "done"), Onward(t, "error")}
<1> USE DEF Jump, TypeOK
<1>1. CASE Load(t) \/ LoadFails(t)
  BY <1>1 DEF Load, LoadFails, locals
<1>2. CASE Work(t)
  BY <1>2 DEF Work, AddStubs, ReadScenes, Give, GiveUp
<1>3. CASE Save(t)
  BY <1>3 DEF Save
<1> QED
  BY <1>1, <1>2, <1>3

LEMMA LeftSizes ==
  ASSUME TypeOK, NEW t \in Turns
  PROVE  /\ IsFiniteSet(left[t]) /\ Cardinality(left[t]) \in 0 .. MaxPrefetch
         /\ \A e \in left[t] : Cardinality(left[t] \ {e}) = Cardinality(left[t]) - 1
<1>1. IsFiniteSet(left[t])
  BY GraphAssumption, FS_Subset DEF TypeOK
<1>2. Cardinality(left[t]) \in Nat /\ Cardinality(left[t]) <= MaxPrefetch
  BY <1>1, FS_CardinalityType DEF TypeOK
<1>3. \A e \in left[t] : Cardinality(left[t] \ {e}) = Cardinality(left[t]) - 1
  BY <1>1, FS_RemoveElement
<1> QED
  BY <1>1, <1>2, <1>3, BoundsAssumption

LEMMA WorkBounds ==
  ASSUME TypeOK, NEW t \in Tasks
  PROVE  WorkOf(t) \in 0 .. 4 * MaxPrefetch + 7
<1>m. MaxPrefetch \in Nat
  BY BoundsAssumption
<1>1. CASE t \in Jobs
  <2>1. JobWork(pc[t]) \in 0 .. 7
    BY DEF JobWork
  <2> QED
    BY <1>m, <1>1, <2>1 DEF WorkOf
<1>2. CASE t \notin Jobs
  <2> DEFINE c == Cardinality(left[t])
             a == Ahead(t)
             r == ReadPart(pc[t])
  <2>1. c \in 0 .. MaxPrefetch
    BY <1>2, LeftSizes DEF Tasks
  <2> HIDE DEF c
  <2>2. a \in 0 .. 4 * MaxPrefetch + 1
    <3>1. a \in {4 * MaxPrefetch + 1, 4 * c}
      BY DEF Ahead, c
    <3> QED
      BY <1>m, <2>1, <3>1
  <2>3. r \in 0 .. 3
    BY DEF ReadPart
  <2>4. TurnWork(t) \in {0, 4 * MaxPrefetch + 7, 4 * MaxPrefetch + 6, a + 1 + r,
                         4 * MaxPrefetch + 2, 4 * c + 1}
    BY DEF TurnWork, c
  <2> HIDE DEF a, r
  <2>5. TurnWork(t) \in 0 .. 4 * MaxPrefetch + 7
    BY <1>m, <2>1, <2>2, <2>3, <2>4
  <2> QED
    BY <1>2, <2>5 DEF WorkOf
<1> QED
  BY <1>1, <1>2

\* A task's own step leaves it with less to do.
LEMMA JobNears ==
  ASSUME TypeOK, NEW t \in Jobs, StepOf(t)
  PROVE  JobWork(pc'[t]) < JobWork(pc[t])
<1>t. t \in Tasks /\ t \notin Turns
  BY TasksAssumption DEF Tasks, Jobs
<1>1. CASE Check(t) \/ Insert(t) \/ InsertLost(t) \/ Start(t) \/ Report(t)
  <2>1. <<pc[t], pc'[t]>> \in {<<"idle", "over">>, <<"idle", "insert">>, <<"insert", "start">>,
                               <<"insert", "over">>, <<"start", "load">>, <<"done", "over">>,
                               <<"error", "over">>}
    BY <1>t, <1>1 DEF Check, Insert, InsertLost, Start, Report, Jump, TypeOK
  <2> QED
    BY <2>1 DEF JobWork
<1>2. CASE Load(t) \/ LoadFails(t) \/ Work(t) \/ Save(t)
  <2>1. \/ <<pc[t], pc'[t]>> \in {<<"load", "work">>, <<"work", "save">>}
        \/ pc[t] \in {"load", "work", "save"} /\ pc'[t] \in {"done", "error"}
    BY <1>t, <1>2, ReadingGoesOn DEF Onward
  <2> QED
    BY <2>1 DEF JobWork
<1> QED
  BY <1>t, <1>1, <1>2 DEF StepOf

LEMMA TurnNears ==
  ASSUME TypeOK, TypeOK', LeftInv, NEW t \in Turns, StepOf(t)
  PROVE  TurnWork(t)' < TurnWork(t)
<1>t. t \in Tasks /\ t \notin Jobs
  BY TurnTask
<1>m. MaxPrefetch \in Nat
  BY BoundsAssumption
<1> DEFINE c == Cardinality(left[t])   c1 == Cardinality(left'[t])
           w == TurnWork(t)            w1 == TurnWork(t)'
<1>c. c \in 0 .. MaxPrefetch /\ \A e \in left[t] : Cardinality(left[t] \ {e}) = c - 1
  BY LeftSizes
<1>d. c1 \in 0 .. MaxPrefetch
  <2>1. left'[t] \in SUBSET Scenes /\ Cardinality(left'[t]) <= MaxPrefetch
    BY DEF TypeOK
  <2>2. IsFiniteSet(left'[t])
    BY <2>1, GraphAssumption, FS_Subset
  <2>3. Cardinality(left'[t]) \in Nat
    BY <2>2, FS_CardinalityType
  <2> QED
    BY <1>m, <2>1, <2>3
<1>w. /\ pc[t] = "idle" => w = 4 * MaxPrefetch + 7
      /\ pc[t] = "arrive" => w = 4 * MaxPrefetch + 6
      /\ pc[t] = "frontier" => w = 4 * MaxPrefetch + 2
      /\ pc[t] = "exits" => w = 4 * c + 1
      /\ pc[t] = "load" => w = (IF wanted[t] = target[t] THEN 4 * MaxPrefetch + 1 ELSE 4 * c) + 1 + 3
      /\ pc[t] = "work" => w = (IF wanted[t] = target[t] THEN 4 * MaxPrefetch + 1 ELSE 4 * c) + 1 + 2
      /\ pc[t] = "save" => w = (IF wanted[t] = target[t] THEN 4 * MaxPrefetch + 1 ELSE 4 * c) + 1 + 1
  BY DEF TurnWork, Ahead, ReadPart
<1>v. /\ pc'[t] = "arrive" => w1 = 4 * MaxPrefetch + 6
      /\ pc'[t] = "frontier" => w1 = 4 * MaxPrefetch + 2
      /\ pc'[t] = "exits" => w1 = 4 * c1 + 1
      /\ pc'[t] = "load" => w1 = (IF wanted'[t] = target'[t] THEN 4 * MaxPrefetch + 1
                                  ELSE 4 * c1) + 1 + 3
      /\ pc'[t] = "work" => w1 = (IF wanted'[t] = target'[t] THEN 4 * MaxPrefetch + 1
                                  ELSE 4 * c1) + 1 + 2
      /\ pc'[t] = "save" => w1 = (IF wanted'[t] = target'[t] THEN 4 * MaxPrefetch + 1
                                  ELSE 4 * c1) + 1 + 1
      /\ pc'[t] = "over" => w1 = 0
  BY DEF TurnWork, Ahead, ReadPart
<1>l. left' = left => c1 = c
  OBVIOUS
<1> HIDE DEF c, c1, w, w1
<1> SUFFICES w1 < w
  BY DEF w, w1
<1>1. CASE ReadMap(t)
  <2>1. pc[t] = "idle" /\ pc'[t] = "arrive"
    BY <1>t, <1>1 DEF ReadMap, Jump, TypeOK
  <2> QED
    BY <1>m, <1>w, <1>v, <2>1
<1>2. CASE Arrive(t)
  <2>1. /\ pc[t] = "arrive"
        /\ \/ pc'[t] = "over"
           \/ pc'[t] = "load" /\ wanted'[t] = target'[t]
    BY <1>t, <1>2 DEF Arrive, Jump, TypeOK
  <2> QED
    BY <1>m, <1>w, <1>v, <2>1
<1>3. CASE Frontier(t) \/ FrontierFails(t)
  <2>1. pc[t] = "frontier" /\ pc'[t] \in {"exits", "over"}
    BY <1>t, <1>3 DEF Frontier, FrontierFails, Jump, TypeOK
  <2> QED
    BY <1>m, <1>d, <1>w, <1>v, <2>1
<1>4. CASE NextExit(t)
  <2>1. CASE left[t] = {}
    <3>1. pc[t] = "exits" /\ pc'[t] = "over"
      BY <1>t, <1>4, <2>1 DEF NextExit, Jump, TypeOK
    <3> QED
      BY <1>c, <1>w, <1>v, <3>1
  <2>2. CASE left[t] # {}
    <3>1. PICK e \in left[t] : /\ wanted' = [wanted EXCEPT ![t] = {e}]
                               /\ left' = [left EXCEPT ![t] = @ \ {e}]
      BY <1>4, <2>2 DEF NextExit
    <3>2. /\ pc[t] = "exits" /\ pc'[t] = "load" /\ wanted'[t] = {e} /\ left'[t] = left[t] \ {e}
          /\ target' = target
      BY <1>t, <1>4, <2>2, <3>1 DEF NextExit, Jump, TypeOK
    <3>3. wanted'[t] # target'[t]
      BY <3>1, <3>2 DEF LeftInv
    <3>4. c1 = c - 1
      BY <1>c, <3>2 DEF c1
    <3> QED
      BY <1>c, <1>w, <1>v, <3>2, <3>3, <3>4
  <2> QED
    BY <2>1, <2>2
<1>5. CASE Load(t) \/ LoadFails(t) \/ Work(t) \/ Save(t)
  <2>1. /\ wanted' = wanted /\ target' = target /\ c1 = c
        /\ \/ <<pc[t], pc'[t]>> \in {<<"load", "work">>, <<"work", "save">>}
           \/ /\ pc[t] \in {"load", "work", "save"}
              /\ pc'[t] = IF wanted[t] = target[t] THEN "frontier" ELSE "exits"
    BY <1>t, <1>l, <1>5, ReadingGoesOn DEF Onward
  <2>2. CASE wanted[t] = target[t]
    BY <1>m, <1>w, <1>v, <2>1, <2>2
  <2>3. CASE wanted[t] # target[t]
    BY <1>c, <1>w, <1>v, <2>1, <2>3
  <2> QED
    BY <2>2, <2>3
<1> QED
  BY <1>t, <1>1, <1>2, <1>3, <1>4, <1>5 DEF StepOf

\* A crash leaves no task with more to do.
LEMMA CrashNears ==
  ASSUME TypeOK, Crash, NEW t \in Tasks
  PROVE  WorkOf(t)' = WorkOf(t) \/ WorkOf(t)' = 0
<1>1. CASE pc[t] = "idle"
  <2>1. pc'[t] = "idle"
    BY <1>1 DEF Crash
  <2> QED
    BY <1>1, <2>1 DEF WorkOf, JobWork, TurnWork
<1>2. CASE pc[t] # "idle"
  <2>1. pc'[t] = "over"
    BY <1>2 DEF Crash
  <2> QED
    BY <2>1 DEF WorkOf, JobWork, TurnWork
<1> QED
  BY <1>1, <1>2

\* Every step leaves one task with less to do and no other with more, whatever the models find
\* and whatever fails; only a crash may find no task at work, and each of those uses up a fault.
\* So extraction comes to an end: n tasks take at most n * (4 * MaxPrefetch + 7) steps, beside
\* the crashes (module_extract_continue, complete_module_skeleton, prefetch_frontier).
TasksNear ==
    [][\/ \E t \in Tasks : /\ WorkOf(t)' < WorkOf(t)
                           /\ \A u \in Tasks \ {t} : WorkOf(u)' = WorkOf(u)
       \/ Crash /\ \A t \in Tasks : WorkOf(t)' <= WorkOf(t)]_vars

\* There is a measure of what a task has left to do, and every step lowers it.
THEOREM EveryStepNears ==
  Spec => TasksNear /\ [](\A t \in Tasks : WorkOf(t) \in 0 .. 4 * MaxPrefetch + 7)
<1>1. Init => LeftInv
  BY DEF Init, LeftInv
<1>2. TypeOK /\ TypeOK' /\ LeftInv /\ [Next]_vars
        => [\/ \E t \in Tasks : /\ WorkOf(t)' < WorkOf(t)
                                /\ \A u \in Tasks \ {t} : WorkOf(u)' = WorkOf(u)
            \/ Crash /\ \A t \in Tasks : WorkOf(t)' <= WorkOf(t)]_vars
  <2>1. ASSUME TypeOK, TypeOK', LeftInv, NEW t \in Tasks, StepOf(t)
        PROVE  /\ WorkOf(t)' < WorkOf(t)
               /\ \A u \in Tasks \ {t} : WorkOf(u)' = WorkOf(u)
    <3>1. WorkOf(t)' < WorkOf(t)
      <4>1. CASE t \in Jobs
        BY <2>1, <4>1, JobNears DEF WorkOf
      <4>2. CASE t \notin Jobs
        BY <2>1, <4>2, TurnNears DEF WorkOf, Tasks
      <4> QED
        BY <4>1, <4>2
    <3>2. ASSUME NEW u \in Tasks \ {t} PROVE WorkOf(u)' = WorkOf(u)
      BY <2>1, OthersStay DEF WorkOf, TurnWork, Ahead, Tasks
    <3> QED
      BY <3>1, <3>2
  <2>2. ASSUME TypeOK, Crash PROVE \A t \in Tasks : WorkOf(t)' <= WorkOf(t)
    BY <2>2, CrashNears, WorkBounds, BoundsAssumption
  <2> QED
    BY <2>1, <2>2, NextSteps
<1>3. TypeOK => \A t \in Tasks : WorkOf(t) \in 0 .. 4 * MaxPrefetch + 7
  BY WorkBounds
<1> QED
  BY <1>1, <1>2, <1>3, LeftStep, TypeCorrect, PTL DEF Spec, TasksNear

\* Unless something has failed, a job that is queued or running has a task that was spawned for
\* it and is not through: also when the job was queued twice and when its first task ends before
\* the second begins. None of the places such a task can be at has to wait for another task, so
\* that with EveryStepNears the job is reported in the end.
JobsAtWork == faults = 0 =>
    \A k \in Kinds : status[k] \in {"queued", "running"} =>
        \E t \in Jobs : Kind(t) = k /\ pc[t] \in {"start"} \cup Running

\* Without failures a job whose row promises an end has a task on its way there.
THEOREM NoJobIsForgotten == Spec => []JobsAtWork
<1>1. Init => JobsAtWork
  BY DEF Init, JobsAtWork
<1>2. ASSUME TypeOK, JobsAtWork, [Next]_vars PROVE JobsAtWork'
  <2> DEFINE At(t, k) == Kind(t) = k /\ pc[t] \in {"start"} \cup Running
  <2> SUFFICES ASSUME faults' = 0, NEW k \in Kinds, status'[k] \in {"queued", "running"}
               PROVE  \E t \in Jobs : Kind(t) = k /\ pc'[t] \in {"start"} \cup Running
    BY DEF JobsAtWork
  <2>1. CASE UNCHANGED vars
    BY <1>2, <2>1 DEF vars, JobsAtWork
  <2>2. ASSUME Crash PROVE FALSE
    BY <1>2, <2>2 DEF Crash, Fault, TypeOK
  <2>3. ASSUME NEW t \in Tasks, StepOf(t)
        PROVE  \E u \in Jobs : Kind(u) = k /\ pc'[u] \in {"start"} \cup Running
    <3>f. faults = 0 /\ ~Fault
      BY <1>2, <2>3, OthersStay DEF Fault, TypeOK
    <3>w. status[k] \in {"queued", "running"} => \E u \in Jobs : At(u, k)
      BY <1>2, <3>f DEF JobsAtWork
    <3>o. \A u \in Jobs \ {t} : At(u, k) => pc'[u] \in {"start"} \cup Running
      BY <1>2, <2>3, OthersStay DEF Tasks
    <3>1. CASE t \in Jobs /\ (Insert(t) \/ Start(t))
      <4>1. /\ pc'[t] \in {"start"} \cup Running
            /\ k # Kind(t) => status'[k] = status[k]
        BY <1>2, <3>1, <3>f DEF Insert, Start, Jump, TypeOK, Running, Tasks
      <4> QED
        BY <3>1, <3>w, <3>o, <4>1
    <3>2. CASE t \in Jobs /\ Report(t)
      <4>1. status' = [status EXCEPT ![Kind(t)] = pc[t]] /\ pc[t] \in {"done", "error"}
        BY <3>2, <3>f DEF Report
      <4>2. k # Kind(t) /\ status'[k] = status[k]
        BY <1>2, <4>1 DEF TypeOK
      <4> QED
        BY <3>w, <3>o, <4>2
    <3>3. CASE t \in Jobs /\ Check(t)
      <4>1. status' = status /\ pc[t] = "idle"
        BY <3>3 DEF Check, Jump
      <4> QED
        BY <3>w, <3>o, <4>1 DEF Running
    <3>4. ASSUME t \in Jobs, InsertLost(t) PROVE FALSE
      BY <3>4, <3>f DEF InsertLost
    <3>5. CASE \/ Load(t) \/ LoadFails(t) \/ Work(t) \/ Save(t)
               \/ t \in Turns /\ (ReadMap(t) \/ Arrive(t) \/ Frontier(t) \/ NextExit(t)
                                  \/ FrontierFails(t))
      <4>1. JobsStay
        BY <1>2, <3>5, ExtractStays DEF TurnStep
      <4>2. \A u \in Jobs : u = t => pc[t] # "start"
        BY <3>5, TasksAssumption DEF Load, LoadFails, Work, AddStubs, ReadScenes, Give, GiveUp,
           Save, Jump, Jobs
      <4> QED
        BY <3>w, <3>o, <4>1, <4>2 DEF JobsStay
    <3> QED
      BY <2>3, <3>1, <3>2, <3>3, <3>4, <3>5 DEF StepOf
  <2> QED
    BY <1>2, <2>1, <2>2, <2>3, NextSteps
<1> QED
  BY <1>1, <1>2, TypeCorrect, PTL DEF Spec

=============================================================================
