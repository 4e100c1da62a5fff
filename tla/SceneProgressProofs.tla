------------------------ MODULE SceneProgressProofs ------------------------
(***************************************************************************)
(* What holds of SceneProgress for any module, any number of turns in      *)
(* flight and of faults, and any limit: its types; that only an earned     *)
(* unlock moves the party; that, while turns do not overlap, it does so    *)
(* once unless the log did not take the move; that, when moreover nothing  *)
(* fails, the way on is taken and the log follows the party; and the order *)
(* of evidence, resolution, unlock and move in the log, whatever overlaps  *)
(* or fails.                                                               *)
(***************************************************************************)
EXTENDS SceneProgress, TLAPS, WellFoundedInduction

-----------------------------------------------------------------------------
\* The log

LEMMA LogIndex ==
  ASSUME log \in Seq(Event), NEW i \in 1..Len(log)
  PROVE  log[i] \in Event
OBVIOUS

\* What append_domain_event does to the log: nothing, or one event more at its end.
LEMMA ExtendedLog ==
  ASSUME log \in Seq(Event), NEW e \in Event
  PROVE  /\ Extended(e) \in Seq(Event)
         /\ Extended(e) = log \/ Extended(e) = Append(log, e)
         /\ Extended(e) = log => Known(e)
<1>1. Append(log, e) \in Seq(Event) /\ Append(log, e) # log
  <2>1. Len(Append(log, e)) = Len(log) + 1 /\ Len(log) \in Nat
    OBVIOUS
  <2> QED
    BY <2>1
<1> QED
  BY <1>1 DEF Extended

LEMMA AppendedLog ==
  ASSUME log \in Seq(Event), NEW e \in Event, log' = Append(log, e)
  PROVE  /\ Len(log') = Len(log) + 1
         /\ \A i \in 1..Len(log) : log'[i] = log[i]
         /\ log'[Len(log) + 1] = e
OBVIOUS

\* A set of indices of the log has a greatest one.
LEMMA LastIndex ==
  ASSUME NEW n \in Nat, NEW S \in SUBSET (1..n), S # {}
  PROVE  \E i \in S : \A j \in S : j <= i
<1> DEFINE T    == {n - k : k \in S}
           Less == {ss \in Nat \X Nat : ss[1] < ss[2]}
<1>0. \A k \in S : k \in Nat /\ k <= n /\ n - k \in Nat
  OBVIOUS
<1>1. T \subseteq Nat /\ T # {}
  BY <1>0
<1>2. IsWellFoundedOn(Less, Nat)
  BY NatLessThanWellFounded DEF OpToRel
<1>3. PICK x \in T : \A y \in T : ~(<<y, x>> \in Less)
  <2> HIDE DEF T, Less
  <2> QED
    BY <1>1, <1>2, WFMin
<1>4. ASSUME NEW y \in T PROVE x <= y
  <2>1. x \in Nat /\ y \in Nat
    BY <1>1
  <2>2. ~(y < x)
    BY <1>3, <2>1
  <2> QED
    BY <2>1, <2>2
<1>5. PICK i \in S : x = n - i
  OBVIOUS
<1>6. ASSUME NEW j \in S PROVE j <= i
  <2>1. n - j \in T /\ j \in Int /\ i \in Int
    BY <1>0
  <2>2. n - i <= n - j
    BY <2>1, <1>4, <1>5
  <2> QED
    BY <2>1, <2>2
<1> QED
  BY <1>6

\* What pending_unlock_target returns: the target of a listed unlock of the scene, and no listed
\* event moves the party there from this scene.
LEMMA PendingUnlock ==
  ASSUME log \in Seq(Event), NEW s, Pending(s) # NoScene
  PROVE  /\ \E i \in 1..Len(log) :
               log[i].kind = "unlocked" /\ log[i].from = s /\ log[i].to = Pending(s)
         /\ \A i \in 1..Len(log) : i <= Limit => ~Took(i, s, Pending(s))
<1>1. Unlocks(s) # {} /\ Unlocks(s) \in SUBSET (1..Len(log)) /\ Len(log) \in Nat
  BY DEF Pending, Unlocks, Listed
<1> DEFINE u == CHOOSE i \in Unlocks(s) : \A j \in Unlocks(s) : j <= i
<1>2. u \in Unlocks(s)
  BY <1>1, LastIndex
<1>3. Pending(s) = log[u].to /\ ~ \E i \in Listed : Took(i, s, log[u].to)
  BY <1>1 DEF Pending
<1> HIDE DEF u
<1> QED
  BY <1>2, <1>3 DEF Unlocks, Listed

-----------------------------------------------------------------------------
\* The invariant

InFlight(t) == pc[t] \notin {"idle"} \cup Over

\* An unlock in the log was earned, and names the scene that follows.
LogOK ==
    \A i \in 1..Len(log) :
        log[i].kind = "unlocked" =>
            /\ log[i].from \in earned
            /\ log[i].to = Next_Scene[log[i].from]

\* What the locals of a turn hold when they are used.
LocalsOK ==
    \A t \in Turns :
        /\ pc[t] \in {"progress", "unlock"} => mine[t] \in earned
        /\ pc[t] \in {"pre_set", "pre_append", "decide", "set", "append"} => cur[t] \in Scenes
        /\ pc[t] \in {"pre_set", "pre_append", "set", "append"} => tgt[t] \in Scenes
        /\ pc[t] \notin {"set", "append"} \cup Over => ~gate[t]

IInv == TypeOK /\ LogOK /\ LocalsOK /\ Earned

\* A new session satisfies the invariant.
THEOREM Initial == Init => IInv
<1> SUFFICES ASSUME Init PROVE IInv
  OBVIOUS
<1>1. TypeOK
  <2>1. log \in Seq(Event)
    BY DEF Init
  <2>2. /\ pc \in [Turns -> Labels] /\ scene \in Scenes /\ faults \in 0..MaxFaults
        /\ mine \in [Turns -> SceneIds] /\ cur \in [Turns -> SceneIds]
        /\ tgt \in [Turns -> SceneIds] /\ due \in [Turns -> SceneIds]
    BY SceneAssumption, BoundsAssumption DEF Init, SceneIds, Labels
  <2>3. /\ gate \in [Turns -> BOOLEAN] /\ overlapped \in BOOLEAN
        /\ toured \subseteq Turns /\ earned \subseteq Scenes
        /\ unlogged \subseteq Scenes \X Scenes \X BOOLEAN /\ moves \in [Scenes -> Nat]
    BY DEF Init
  <2> QED
    BY <2>1, <2>2, <2>3 DEF TypeOK
<1>2. LogOK
  BY DEF Init, LogOK
<1>3. LocalsOK /\ Earned
  BY DEF Init, LocalsOK, Earned, Over
<1> QED
  BY <1>1, <1>2, <1>3 DEF IInv

-----------------------------------------------------------------------------
\* Events that the steps append, and the types they keep

LEMMA EventType ==
  ASSUME NEW t \in Turns, NEW x \in Scenes, NEW y \in Scenes
  PROVE  /\ Moved(t, x, y) \in Event /\ Resolved(t, x) \in Event
         /\ Unlocked(t, x) \in Event
BY SceneAssumption DEF Moved, Resolved, Unlocked, Event, SceneIds

LEMMA JumpType ==
  ASSUME TypeOK, NEW t \in Turns, NEW from, NEW to \in Labels, Jump(t, from, to)
  PROVE  /\ pc' \in [Turns -> Labels]
         /\ pc[t] = from /\ pc'[t] = to /\ \A u \in Turns \ {t} : pc'[u] = pc[u]
BY DEF TypeOK, Jump

LEMMA DropType ==
  ASSUME TypeOK, NEW t \in Turns
  PROVE  /\ DropMove(t) => /\ cur' \in [Turns -> SceneIds] /\ tgt' \in [Turns -> SceneIds]
                           /\ gate' \in [Turns -> BOOLEAN]
         /\ Drop(t) => DropMove(t) /\ mine' \in [Turns -> SceneIds]
BY DEF TypeOK, DropMove, Drop, SceneIds

\* A step is of one turn: the others keep their place and their locals.  What was earned, what the log
\* did not take and that turns overlapped is not forgotten.
LEMMA StepFrame ==
  ASSUME TypeOK, NEW t \in Turns, Step(t)
  PROVE  /\ \A u \in Turns \ {t} : /\ pc'[u] = pc[u] /\ mine'[u] = mine[u] /\ gate'[u] = gate[u]
                                    /\ cur'[u] = cur[u] /\ tgt'[u] = tgt[u]
         /\ earned \subseteq earned' /\ unlogged \subseteq unlogged'
         /\ overlapped => overlapped'
<1>1. \A u \in Turns \ {t} : pc'[u] = pc[u]
  BY DEF Step, Jump, TypeOK, Start, NameScene, NameNone, Assemble, PreSet, PreAppend, Tour, EndLoop,
     Narrate, Earn, ResolveObjective, UnlockScene, ReadScene, TakeUnlock, AskModel, SetScene,
     AppendMove, Die
<1>2. \A u \in Turns \ {t} : mine'[u] = mine[u] /\ gate'[u] = gate[u]
  BY DEF Step, TypeOK, locals, Drop, DropMove,
     Start, NameScene, NameNone, Assemble, PreSet, PreAppend, Tour,
     EndLoop, Narrate, Earn, ResolveObjective, UnlockScene, ReadScene, TakeUnlock, AskModel,
     SetScene, AppendMove, Die
<1>3. \A u \in Turns \ {t} : cur'[u] = cur[u] /\ tgt'[u] = tgt[u]
  BY DEF Step, TypeOK, locals, Drop, DropMove,
     Start, NameScene, NameNone, Assemble, PreSet, PreAppend, Tour,
     EndLoop, Narrate, Earn, ResolveObjective, UnlockScene, ReadScene, TakeUnlock, AskModel,
     SetScene, AppendMove, Die
<1>4. earned \subseteq earned'
  BY DEF Step, past, Start, NameScene, NameNone, Assemble, PreSet, PreAppend, Tour, EndLoop,
     Narrate, Earn, ResolveObjective, UnlockScene, ReadScene, TakeUnlock, AskModel, SetScene,
     AppendMove, Die
<1>5. unlogged \subseteq unlogged'
  BY DEF Step, past, Forgotten, Start, NameScene, NameNone, Assemble, PreSet, PreAppend, Tour,
     EndLoop, Narrate, Earn, ResolveObjective, UnlockScene, ReadScene, TakeUnlock, AskModel,
     SetScene, AppendMove, Die
<1>6. overlapped => overlapped'
  BY DEF Step, past, Start, NameScene, NameNone, Assemble, PreSet, PreAppend, Tour, EndLoop,
     Narrate, Earn, ResolveObjective, UnlockScene, ReadScene, TakeUnlock, AskModel, SetScene,
     AppendMove, Die
<1> QED
  BY <1>1, <1>2, <1>3, <1>4, <1>5, <1>6

LEMMA FaultsType ==
  ASSUME TypeOK, UNCHANGED faults \/ Fault
  PROVE  faults' \in 0..MaxFaults
BY BoundsAssumption DEF TypeOK, Fault

\* The types are inductive with what LocalsOK says of a turn's locals when they are used.
LEMMA TypeStep ==
  ASSUME TypeOK, LocalsOK, LogOK, NEW t \in Turns, Step(t)
  PROVE  TypeOK'
<1> USE DEF Labels, Over
<1>1. CASE Start(t)
  <2>1. pc' \in [Turns -> Labels] /\ faults' \in 0..MaxFaults
    BY <1>1, JumpType, FaultsType DEF Start
  <2>2. mine' \in [Turns -> SceneIds] /\ overlapped' \in BOOLEAN
    BY <1>1 DEF Start, TypeOK, SceneIds
  <2> QED
    BY <1>1, <2>1, <2>2 DEF Start, TypeOK, locals, past
<1>2. CASE NameScene(t)
  BY <1>2, JumpType DEF NameScene, TypeOK, locals, past, SceneIds
<1>3. CASE NameNone(t)
  BY <1>3, JumpType DEF NameNone, TypeOK, locals, past, SceneIds
<1>4. CASE PreSet(t)
  <2>1. pc' \in [Turns -> Labels] /\ faults' \in 0..MaxFaults
    BY <1>4, JumpType, FaultsType DEF PreSet
  <2>2. scene' \in Scenes /\ mine' \in [Turns -> SceneIds]
    BY <1>4 DEF PreSet, Jump, TypeOK, LocalsOK, SceneIds
  <2> QED
    BY <1>4, <2>1, <2>2, DropType DEF PreSet, TypeOK, locals, past
<1>5. CASE PreAppend(t)
  <2>1. pc' \in [Turns -> Labels] /\ faults' \in 0..MaxFaults
    BY <1>5, JumpType, FaultsType DEF PreAppend
  <2>2. cur[t] \in Scenes /\ tgt[t] \in Scenes
    BY <1>5 DEF PreAppend, Jump, LocalsOK
  <2>3. log' \in Seq(Event)
    BY <1>5, <2>2, EventType, ExtendedLog DEF PreAppend, TypeOK
  <2> QED
    BY <1>5, <2>1, <2>2, <2>3, DropType DEF PreAppend, TypeOK, locals, past
<1>6. CASE Tour(t)
  BY <1>6, JumpType DEF Tour, TypeOK, locals, past, SceneIds
<1>7. CASE EndLoop(t)
  BY <1>7, JumpType, DropType DEF EndLoop, TypeOK, locals, past, SceneIds
<1>8. CASE Narrate(t)
  BY <1>8, JumpType DEF Narrate, TypeOK, locals, past, SceneIds
<1>9. CASE Earn(t)
  <2>1. pc' \in [Turns -> Labels]
    BY <1>9, JumpType DEF Earn
  <2>2. earned' \subseteq Scenes
    BY <1>9, SceneAssumption DEF Earn, TypeOK
  <2> QED
    BY <1>9, <2>1, <2>2 DEF Earn, TypeOK, locals, past
<1>10. CASE ResolveObjective(t)
  <2>1. pc' \in [Turns -> Labels] /\ faults' \in 0..MaxFaults
    BY <1>10, JumpType, FaultsType DEF ResolveObjective
  <2>2. mine[t] \in Scenes
    BY <1>10 DEF ResolveObjective, Jump, LocalsOK, TypeOK
  <2>3. log' \in Seq(Event)
    BY <1>10, <2>2, EventType, ExtendedLog DEF ResolveObjective, TypeOK
  <2> QED
    BY <1>10, <2>1, <2>2, <2>3 DEF ResolveObjective, TypeOK, locals, past
<1>11. CASE UnlockScene(t)
  <2>1. pc' \in [Turns -> Labels] /\ faults' \in 0..MaxFaults
    BY <1>11, JumpType, FaultsType DEF UnlockScene
  <2>2. mine[t] \in Scenes
    BY <1>11 DEF UnlockScene, Jump, LocalsOK, TypeOK
  <2>3. log' \in Seq(Event)
    BY <1>11, <2>2, EventType, ExtendedLog DEF UnlockScene, TypeOK
  <2>4. due' \in [Turns -> SceneIds]
    BY <1>11, <2>2 DEF UnlockScene, TypeOK, SceneIds
  <2> QED
    BY <1>11, <2>1, <2>2, <2>3, <2>4 DEF UnlockScene, TypeOK, locals, past
<1>12. CASE ReadScene(t)
  <2>1. pc' \in [Turns -> Labels] /\ faults' \in 0..MaxFaults
    BY <1>12, JumpType, FaultsType DEF ReadScene
  <2>2. cur' \in [Turns -> SceneIds]
    BY <1>12, DropType DEF ReadScene, TypeOK, SceneIds
  <2> QED
    BY <1>12, <2>1, <2>2, DropType DEF ReadScene, TypeOK, locals, past
<1>13. CASE TakeUnlock(t)
  <2>1. pc' \in [Turns -> Labels]
    BY <1>13, JumpType DEF TakeUnlock
  <2>2. Pending(cur[t]) \in SceneIds
    <3>1. PICK i \in 1..Len(log) : log[i].to = Pending(cur[t])
      BY <1>13, PendingUnlock DEF TakeUnlock, TypeOK
    <3>2. log[i] \in Event
      BY LogIndex DEF TypeOK
    <3> QED
      BY <3>1, <3>2 DEF Event
  <2>3. tgt' \in [Turns -> SceneIds] /\ gate' \in [Turns -> BOOLEAN]
    BY <1>13, <2>2 DEF TakeUnlock, TypeOK
  <2> QED
    BY <1>13, <2>1, <2>2, <2>3 DEF TakeUnlock, TypeOK, locals, past
<1>14. CASE AskModel(t)
  <2>1. pc' \in [Turns -> Labels] /\ faults' \in 0..MaxFaults
    BY <1>14, JumpType, FaultsType DEF AskModel
  <2>2. tgt' \in [Turns -> SceneIds]
    BY <1>14, DropType DEF AskModel, TypeOK, SceneIds
  <2> QED
    BY <1>14, <2>1, <2>2, DropType DEF AskModel, TypeOK, locals, past
<1>15. CASE SetScene(t)
  <2>1. pc' \in [Turns -> Labels] /\ faults' \in 0..MaxFaults
    BY <1>15, JumpType, FaultsType DEF SetScene
  <2>2. cur[t] \in Scenes /\ tgt[t] \in Scenes
    BY <1>15 DEF SetScene, Jump, LocalsOK
  <2>3. scene' \in Scenes
    BY <1>15, <2>2 DEF SetScene, TypeOK
  <2>4. moves[cur[t]] + 1 \in Nat
    BY <2>2 DEF TypeOK
  <2>5. moves' \in [Scenes -> Nat]
    BY <1>15, <2>4 DEF SetScene, TypeOK
  <2> QED
    BY <1>15, <2>1, <2>2, <2>3, <2>5, DropType DEF SetScene, TypeOK, locals, past
<1>16. CASE AppendMove(t)
  <2>1. pc' \in [Turns -> Labels] /\ faults' \in 0..MaxFaults
    BY <1>16, JumpType, FaultsType DEF AppendMove
  <2>2. cur[t] \in Scenes /\ tgt[t] \in Scenes
    BY <1>16 DEF AppendMove, Jump, LocalsOK
  <2>3. log' \in Seq(Event)
    BY <1>16, <2>2, EventType, ExtendedLog DEF AppendMove, TypeOK
  <2>4. Forgotten(t) \subseteq Scenes \X Scenes \X BOOLEAN
    BY <1>16, <2>2 DEF Forgotten, TypeOK
  <2>5. unlogged' \subseteq Scenes \X Scenes \X BOOLEAN
    BY <1>16, <2>4 DEF AppendMove, TypeOK
  <2> QED
    BY <1>16, <2>1, <2>2, <2>3, <2>4, <2>5, DropType DEF AppendMove, TypeOK, locals, past
<1>17. CASE Die(t)
  <2>1. pc' \in [Turns -> Labels] /\ faults' \in 0..MaxFaults
    BY <1>17, FaultsType DEF Die, TypeOK
  <2>2. pc[t] = "append" => Forgotten(t) \subseteq Scenes \X Scenes \X BOOLEAN
    BY <1>17 DEF Forgotten, TypeOK, LocalsOK
  <2>3. unlogged' \subseteq Scenes \X Scenes \X BOOLEAN
    BY <1>17, <2>2 DEF Die, TypeOK
  <2> QED
    BY <1>17, <2>1, <2>2, <2>3, DropType DEF Die, TypeOK, locals, past
<1>18. CASE Assemble(t)
  <2>1. pc' \in [Turns -> Labels] /\ faults' \in 0..MaxFaults
    BY <1>18, JumpType, FaultsType DEF Assemble
  <2>2. scene' \in Scenes
    BY <1>18, SceneAssumption DEF Assemble, TypeOK
  <2> QED
    BY <1>18, <2>1, <2>2 DEF Assemble, TypeOK, locals, past
<1> QED
  BY <1>1, <1>2, <1>3, <1>4, <1>5, <1>6, <1>7, <1>8, <1>9, <1>10, <1>11, <1>12, <1>13, <1>14, <1>15,
     <1>16, <1>17, <1>18
     DEF Step

-----------------------------------------------------------------------------
\* Earned unlocks

\* A log that keeps its earned unlocks when it grows by an event that is no unlock or an earned one.
LEMMA LogGrows ==
  ASSUME TypeOK, LogOK, NEW e \in Event, log' = log \/ log' = Append(log, e),
         earned \subseteq earned',
         e.kind = "unlocked" => e.from \in earned /\ e.to = Next_Scene[e.from]
  PROVE  LogOK'
<1>1. CASE log' = log
  BY <1>1 DEF LogOK
<1>2. CASE log' = Append(log, e)
  <2>1. /\ Len(log') = Len(log) + 1 /\ Len(log) \in Nat
        /\ \A i \in 1..Len(log) : log'[i] = log[i]
        /\ log'[Len(log) + 1] = e
    BY <1>2, AppendedLog DEF TypeOK
  <2>2. ASSUME NEW i \in 1..Len(log'), log'[i].kind = "unlocked"
        PROVE  log'[i].from \in earned' /\ log'[i].to = Next_Scene[log'[i].from]
    <3>1. CASE i \in 1..Len(log)
      BY <2>1, <2>2, <3>1 DEF LogOK
    <3>2. CASE i = Len(log) + 1
      BY <2>1, <2>2, <3>2
    <3> QED
      BY <2>1, <3>1, <3>2
  <2> QED
    BY <2>2 DEF LogOK
<1> QED
  BY <1>1, <1>2

\* The log keeps only earned unlocks: UnlockScene alone appends one, of the scene whose evidence
\* has just been admitted.
LEMMA LogStep ==
  ASSUME TypeOK, LocalsOK, LogOK, NEW t \in Turns, Step(t)
  PROVE  LogOK'
<1>1. CASE PreAppend(t)
  <2>1. cur[t] \in Scenes /\ tgt[t] \in Scenes /\ UNCHANGED earned
    BY <1>1 DEF PreAppend, Jump, LocalsOK, past
  <2>2. Moved(t, cur[t], tgt[t]) \in Event /\ Moved(t, cur[t], tgt[t]).kind # "unlocked"
    BY <2>1, EventType DEF Moved
  <2>3. log' = log \/ log' = Append(log, Moved(t, cur[t], tgt[t]))
    BY <1>1 DEF PreAppend, Extended
  <2> QED
    BY <2>1, <2>2, <2>3, LogGrows
<1>2. CASE ResolveObjective(t)
  <2>1. mine[t] \in Scenes /\ UNCHANGED earned
    BY <1>2 DEF ResolveObjective, Jump, LocalsOK, TypeOK, past
  <2>2. Resolved(t, mine[t]) \in Event /\ Resolved(t, mine[t]).kind # "unlocked"
    BY <2>1, EventType DEF Resolved
  <2>3. log' = log \/ log' = Append(log, Resolved(t, mine[t]))
    BY <1>2 DEF ResolveObjective, Extended
  <2> QED
    BY <2>1, <2>2, <2>3, LogGrows
<1>3. CASE UnlockScene(t)
  <2>1. mine[t] \in earned /\ mine[t] \in Scenes /\ UNCHANGED earned
    BY <1>3 DEF UnlockScene, Jump, LocalsOK, TypeOK
  <2>2. /\ Unlocked(t, mine[t]) \in Event /\ Unlocked(t, mine[t]).from = mine[t]
        /\ Unlocked(t, mine[t]).to = Next_Scene[mine[t]]
    BY <2>1, EventType DEF Unlocked
  <2>3. log' = log \/ log' = Append(log, Unlocked(t, mine[t]))
    BY <1>3 DEF UnlockScene, Extended
  <2> QED
    BY <2>1, <2>2, <2>3, LogGrows
<1>4. CASE AppendMove(t)
  <2>1. cur[t] \in Scenes /\ tgt[t] \in Scenes /\ UNCHANGED earned
    BY <1>4 DEF AppendMove, Jump, LocalsOK
  <2>2. Moved(t, cur[t], tgt[t]) \in Event /\ Moved(t, cur[t], tgt[t]).kind # "unlocked"
    BY <2>1, EventType DEF Moved
  <2>3. log' = log \/ log' = Append(log, Moved(t, cur[t], tgt[t]))
    BY <1>4 DEF AppendMove, Extended
  <2> QED
    BY <2>1, <2>2, <2>3, LogGrows
<1>5. ASSUME UNCHANGED log, earned \subseteq earned' PROVE LogOK'
  BY <1>5 DEF LogOK
<1>6. \/ PreAppend(t) \/ ResolveObjective(t) \/ UnlockScene(t) \/ AppendMove(t)
      \/ UNCHANGED log /\ earned \subseteq earned'
  BY DEF Step, past, Start, NameScene, NameNone, Assemble, PreSet, Tour, EndLoop, Narrate, Earn,
     ReadScene, TakeUnlock, AskModel, SetScene, Die
<1> QED
  BY <1>1, <1>2, <1>3, <1>4, <1>5, <1>6

\* An unlock that can be taken was earned in this scene and leads to the one that follows it.
LEMMA PendingEarned ==
  ASSUME TypeOK, LogOK, NEW s, Pending(s) # NoScene
  PROVE  s \in earned /\ Pending(s) = Next_Scene[s] /\ Pending(s) \in Scenes
<1>1. PICK i \in 1..Len(log) :
         log[i].kind = "unlocked" /\ log[i].from = s /\ log[i].to = Pending(s)
  BY PendingUnlock DEF TypeOK
<1>2. log[i] \in Event
  BY LogIndex DEF TypeOK
<1> QED
  BY <1>1, <1>2 DEF LogOK, Event, SceneIds

\* What a turn's locals hold when they are used; a step touches those of its own turn only.
LEMMA LocalsStep ==
  ASSUME TypeOK, LocalsOK, LogOK, NEW t \in Turns, Step(t)
  PROVE  LocalsOK'
<1> DEFINE Own(u) ==
        /\ pc[u] \in {"progress", "unlock"} => mine[u] \in earned
        /\ pc[u] \in {"pre_set", "pre_append", "decide", "set", "append"} => cur[u] \in Scenes
        /\ pc[u] \in {"pre_set", "pre_append", "set", "append"} => tgt[u] \in Scenes
        /\ pc[u] \notin {"set", "append"} \cup Over => ~gate[u]
<1>1. Own(t)
  BY DEF LocalsOK
<1>2. Own(t)'
  <2> USE <1>1 DEF Jump, Over
  <2>1. CASE Start(t)
    BY <2>1 DEF Start, TypeOK, locals, past
  <2>2. CASE NameScene(t)
    BY <2>2 DEF NameScene, TypeOK, locals, past
  <2>3. CASE NameNone(t)
    BY <2>3 DEF NameNone, TypeOK, locals, past
  <2>4. CASE PreSet(t)
    BY <2>4 DEF PreSet, DropMove, TypeOK, locals, past
  <2>5. CASE PreAppend(t)
    BY <2>5 DEF PreAppend, DropMove, TypeOK, locals, past
  <2>6. CASE Tour(t)
    BY <2>6 DEF Tour, TypeOK, locals, past
  <2>7. CASE EndLoop(t)
    BY <2>7 DEF EndLoop, TypeOK, locals, past
  <2>8. CASE Narrate(t)
    BY <2>8 DEF Narrate, TypeOK, locals, past
  <2>9. CASE Earn(t)
    BY <2>9 DEF Earn, TypeOK, locals, past
  <2>10. CASE ResolveObjective(t)
    BY <2>10 DEF ResolveObjective, TypeOK, locals, past
  <2>11. CASE UnlockScene(t)
    BY <2>11 DEF UnlockScene, TypeOK, locals, past
  <2>12. CASE ReadScene(t)
    BY <2>12 DEF ReadScene, TypeOK, locals, past
  <2>13. CASE TakeUnlock(t)
    <3>1. Pending(cur[t]) \in Scenes
      BY <2>13, PendingEarned DEF TakeUnlock, TypeOK
    <3> QED
      BY <2>13, <3>1 DEF TakeUnlock, TypeOK, locals, past
  <2>14. CASE AskModel(t)
    BY <2>14 DEF AskModel, TypeOK, locals, past
  <2>15. CASE SetScene(t)
    BY <2>15 DEF SetScene, TypeOK, locals, past
  <2>16. CASE AppendMove(t)
    BY <2>16 DEF AppendMove, TypeOK, locals, past
  <2>17. CASE Die(t)
    BY <2>17 DEF Die, TypeOK, locals, past
  <2>18. CASE Assemble(t)
    BY <2>18 DEF Assemble, TypeOK, locals, past
  <2> QED
    BY <2>1, <2>2, <2>3, <2>4, <2>5, <2>6, <2>7, <2>8, <2>9, <2>10, <2>11, <2>12, <2>13, <2>14,
       <2>15, <2>16, <2>17, <2>18
       DEF Step
<1>3. ASSUME NEW u \in Turns, u # t PROVE Own(u)'
  <2>1. /\ pc'[u] = pc[u] /\ mine'[u] = mine[u] /\ gate'[u] = gate[u]
        /\ cur'[u] = cur[u] /\ tgt'[u] = tgt[u] /\ earned \subseteq earned'
    BY <1>3, StepFrame
  <2> QED
    BY <2>1 DEF LocalsOK
<1> QED
  BY <1>2, <1>3 DEF LocalsOK

LEMMA EarnedStep ==
  ASSUME TypeOK, LocalsOK, LogOK, Earned, NEW t \in Turns, Step(t)
  PROVE  Earned'
<1>1. earned \subseteq earned'
  BY StepFrame
<1>2. ASSUME NEW u \in Turns, pc'[u] \in {"set", "append"}, gate'[u]
      PROVE  cur'[u] \in earned' /\ tgt'[u] = Next_Scene[cur'[u]]
  <2>1. CASE u # t
    <3>1. /\ pc'[u] = pc[u] /\ gate'[u] = gate[u]
          /\ cur'[u] = cur[u] /\ tgt'[u] = tgt[u]
      BY <2>1, StepFrame
    <3> QED
      BY <1>1, <1>2, <3>1 DEF Earned
  <2>2. CASE u = t /\ TakeUnlock(t)
    <3>1. cur[t] \in earned /\ Pending(cur[t]) = Next_Scene[cur[t]]
      BY <2>2, PendingEarned DEF TakeUnlock
    <3> QED
      BY <1>1, <2>2, <3>1 DEF TakeUnlock, TypeOK
  <2>3. CASE u = t /\ SetScene(t)
    BY <1>1, <1>2, <2>3 DEF SetScene, Jump, Earned, TypeOK, locals
  <2>4. u = t => TakeUnlock(t) \/ SetScene(t)
    BY <1>2 DEF Step, Jump, TypeOK, LocalsOK, Over, locals, Start, NameScene, NameNone, Assemble,
       PreSet, PreAppend, Tour, EndLoop, Narrate, Earn, ResolveObjective, UnlockScene, ReadScene,
       AskModel, AppendMove, Die
  <2> QED
    BY <2>1, <2>2, <2>3, <2>4
<1>3. ASSUME NEW s \in Scenes, moves'[s] > 0 PROVE s \in earned'
  <2>1. CASE moves'[s] = moves[s]
    BY <1>1, <1>3, <2>1 DEF Earned
  <2>2. CASE moves'[s] # moves[s]
    <3>1. SetScene(t) /\ gate[t] /\ s = cur[t] /\ pc[t] = "set"
      BY <2>2 DEF Step, SetScene, Jump, TypeOK, past, Start, NameScene, NameNone, Assemble, PreSet,
         PreAppend, Tour, EndLoop, Narrate, Earn, ResolveObjective, UnlockScene, ReadScene,
         TakeUnlock, AskModel, AppendMove, Die
    <3> QED
      BY <1>1, <3>1 DEF Earned
  <2> QED
    BY <2>1, <2>2
<1> QED
  BY <1>2, <1>3 DEF Earned

\* Every step of a turn and every fault keeps the invariant.
THEOREM Inductive == IInv /\ [Next]_vars => IInv'
<1> SUFFICES ASSUME IInv, [Next]_vars PROVE IInv'
  OBVIOUS
<1>1. CASE UNCHANGED vars
  BY <1>1 DEF IInv, TypeOK, LogOK, LocalsOK, Earned, vars, locals, past
<1>2. ASSUME NEW t \in Turns, Step(t) PROVE IInv'
  BY <1>2, TypeStep, LogStep, LocalsStep, EarnedStep DEF IInv
<1> QED
  BY <1>1, <1>2 DEF Next

\* Types, for every module and any number of turns.
THEOREM TypeCorrect == Spec => []TypeOK
<1>1. IInv => TypeOK
  BY DEF IInv
<1> QED
  BY Initial, Inductive, <1>1, PTL DEF Spec

\* Only what was earned moves the party by itself, however turns overlap and whatever fails.
THEOREM EarnedAlways == Spec => []Earned
<1>1. IInv => Earned
  BY DEF IInv
<1> QED
  BY Initial, Inductive, <1>1, PTL DEF Spec

-----------------------------------------------------------------------------
\* Once

\* Unless turns have overlapped, at most one is in flight.
Alone == overlapped \/ \A t, u \in Turns : InFlight(t) /\ InFlight(u) => t = u

\* The way on from s: recorded in the log, being taken, or taken without a record
Recorded(s) == \E i \in 1..Len(log) : Took(i, s, Next_Scene[s])
Leaving(s)  == \E t \in Turns : pc[t] = "append" /\ gate[t] /\ cur[t] = s
Lost(s)     == <<s, Next_Scene[s], TRUE>> \in unlogged

\* A scene that was left through its unlock has a record of it, or is being left, or its record was
\* lost.
LeftOnce ==
    \A s \in Scenes : moves[s] = 0 \/ Lost(s) \/ (moves[s] = 1 /\ (Recorded(s) \/ Leaving(s)))

\* A turn that is about to leave a scene through its unlock is the first to do so.
FirstOut ==
    \A t \in Turns, s \in Scenes :
        pc[t] = "set" /\ gate[t] /\ cur[t] = s => moves[s] = 0 \/ Lost(s)

OnceInv == overlapped \/ Len(log) > Limit \/ (LeftOnce /\ FirstOut)

LEMMA AloneStep ==
  ASSUME TypeOK, Alone, NEW t \in Turns, Step(t)
  PROVE  Alone'
<1> SUFFICES ASSUME ~overlapped' PROVE \A u, v \in Turns : InFlight(u)' /\ InFlight(v)' => u = v
  BY DEF Alone
<1>1. ~overlapped
  BY StepFrame
<1>2. \A u \in Turns \ {t} : pc'[u] = pc[u]
  BY StepFrame
<1>3. CASE Start(t)
  <2>1. Others(t) = {}
    BY <1>3 DEF Start
  <2>2. \A u \in Turns \ {t} : ~InFlight(u)
    BY <2>1 DEF Others, InFlight
  <2> QED
    BY <1>2, <2>2 DEF InFlight
<1>4. CASE ~Start(t)
  <2>1. InFlight(t)
    BY <1>4 DEF Step, Jump, InFlight, Over, NameScene, NameNone, Assemble, PreSet, PreAppend, Tour,
       EndLoop, Narrate, Earn, ResolveObjective, UnlockScene, ReadScene, TakeUnlock, AskModel,
       SetScene, AppendMove, Die
  <2> QED
    BY <1>1, <1>2, <2>1 DEF Alone, InFlight
<1> QED
  BY <1>3, <1>4

\* A step appends to the log or leaves it alone.
LEMMA LogStays ==
  ASSUME TypeOK, LocalsOK, NEW t \in Turns, Step(t)
  PROVE  /\ Len(log) \in Nat /\ Len(log') \in Nat /\ Len(log) <= Len(log')
         /\ \A i \in 1..Len(log) : log'[i] = log[i]
<1>1. log' = log \/ \E e \in Event : log' = Append(log, e)
  <2>1. CASE PreAppend(t)
    BY <2>1, EventType DEF PreAppend, Extended, Jump, LocalsOK
  <2>2. CASE ResolveObjective(t)
    BY <2>2, EventType DEF ResolveObjective, Extended, Jump, LocalsOK, TypeOK
  <2>3. CASE UnlockScene(t)
    BY <2>3, EventType DEF UnlockScene, Extended, Jump, LocalsOK, TypeOK
  <2>4. CASE AppendMove(t)
    BY <2>4, EventType DEF AppendMove, Extended, Jump, LocalsOK
  <2> QED
    BY <2>1, <2>2, <2>3, <2>4 DEF Step, Start, NameScene, NameNone, Assemble, PreSet, Tour, EndLoop,
       Narrate, Earn, ReadScene, TakeUnlock, AskModel, SetScene, Die
<1>2. CASE log' = log
  BY <1>2 DEF TypeOK
<1>3. ASSUME NEW e \in Event, log' = Append(log, e)
      PROVE  /\ Len(log) \in Nat /\ Len(log') \in Nat /\ Len(log) <= Len(log')
             /\ \A i \in 1..Len(log) : log'[i] = log[i]
  BY <1>3, AppendedLog DEF TypeOK
<1> QED
  BY <1>1, <1>2, <1>3

LEMMA OnceStep ==
  ASSUME IInv, Alone, OnceInv, NEW t \in Turns, Step(t)
  PROVE  OnceInv'
<1> SUFFICES ASSUME ~overlapped', ~(Len(log') > Limit)
             PROVE  LeftOnce' /\ FirstOut'
  BY DEF OnceInv
<1>1. TypeOK /\ LocalsOK /\ LogOK /\ Earned
  BY DEF IInv
<1>2. /\ ~overlapped /\ Len(log) \in Nat /\ Len(log) <= Limit
      /\ unlogged \subseteq unlogged'
      /\ Len(log') \in Nat /\ Len(log) <= Len(log')
      /\ \A i \in 1..Len(log) : log'[i] = log[i]
  BY <1>1, StepFrame, LogStays, BoundsAssumption
<1>3. LeftOnce /\ FirstOut
  BY <1>2, BoundsAssumption DEF OnceInv
<1>4. \A u, v \in Turns : InFlight(u) /\ InFlight(v) => u = v
  BY <1>2 DEF Alone
<1>5. /\ \A s \in Scenes : Lost(s) => Lost(s)'
      /\ \A s \in Scenes : Recorded(s) => Recorded(s)'
  <2>1. ASSUME NEW s \in Scenes, Recorded(s) PROVE Recorded(s)'
    <3>1. PICK i \in 1..Len(log) : Took(i, s, Next_Scene[s])
      BY <2>1 DEF Recorded
    <3>2. i \in 1..Len(log') /\ log'[i] = log[i]
      BY <1>2
    <3> QED
      BY <3>1, <3>2 DEF Recorded, Took
  <2> QED
    BY <1>2, <2>1 DEF Lost
<1>6. \A u \in Turns \ {t} :
         pc'[u] = pc[u] /\ gate'[u] = gate[u] /\ cur'[u] = cur[u]
  BY <1>1, StepFrame
<1>7. ASSUME NEW s \in Scenes, moves'[s] # moves[s]
      PROVE  /\ SetScene(t) /\ gate[t] /\ s = cur[t] /\ pc[t] = "set" /\ pc'[t] = "append"
             /\ moves'[s] = moves[s] + 1
  <2>1. SetScene(t)
    BY <1>7 DEF Step, past, Start, NameScene, NameNone, Assemble, PreSet, PreAppend, Tour, EndLoop,
       Narrate, Earn, ResolveObjective, UnlockScene, ReadScene, TakeUnlock, AskModel, AppendMove,
       Die
  <2> QED
    BY <1>1, <1>7, <2>1 DEF SetScene, Jump, TypeOK
<1>8. ASSUME NEW s \in Scenes, moves'[s] # moves[s]
      PROVE  Lost(s)' \/ (moves'[s] = 1 /\ Leaving(s)')
  <2>1. moves[s] = 0 \/ Lost(s)
    BY <1>3, <1>7, <1>8 DEF FirstOut
  <2>2. Leaving(s)'
    BY <1>1, <1>7, <1>8 DEF Leaving, SetScene, locals
  <2> QED
    BY <1>5, <1>7, <1>8, <2>1, <2>2
<1>9. ASSUME NEW s \in Scenes, Leaving(s), moves'[s] = moves[s]
      PROVE  Leaving(s)' \/ Recorded(s)' \/ Lost(s)'
  <2>1. PICK u \in Turns : pc[u] = "append" /\ gate[u] /\ cur[u] = s
    BY <1>9 DEF Leaving
  <2>2. CASE u # t
    BY <1>6, <2>1, <2>2 DEF Leaving
  <2>3. CASE u = t
    <3>1. tgt[t] = Next_Scene[s] /\ s = cur[t] /\ gate[t] = TRUE /\ tgt[t] \in Scenes
      BY <1>1, <2>1, <2>3 DEF Earned, TypeOK, LocalsOK
    <3>2. Forgotten(t) \subseteq unlogged' => Lost(s)'
      BY <3>1 DEF Forgotten, Lost
    <3>3. CASE AppendMove(t)
      <4>1. CASE unlogged' = Forgotten(t)
        BY <3>2, <4>1
      <4>2. CASE unlogged' # Forgotten(t)
        <5> DEFINE e == Moved(t, cur[t], tgt[t])
        <5>1. log' = Append(log, e)
          BY <3>3, <4>2 DEF AppendMove, Extended
        <5>2. e \in Event
          BY <3>1, EventType
        <5>3. Len(log') = Len(log) + 1 /\ log'[Len(log) + 1] = e
          BY <1>1, <5>1, <5>2, AppendedLog DEF TypeOK
        <5>4. e.kind = "moved" /\ e.from = s /\ e.to = Next_Scene[s]
          BY <3>1 DEF Moved
        <5> HIDE DEF e
        <5> QED
          BY <1>2, <5>3, <5>4 DEF Recorded, Took
      <4> QED
        BY <4>1, <4>2
    <3>4. CASE Die(t)
      BY <2>1, <2>3, <3>2, <3>4 DEF Die
    <3>5. AppendMove(t) \/ Die(t)
      BY <2>1, <2>3 DEF Step, Jump, Start, NameScene, NameNone, Assemble, PreSet, PreAppend, Tour,
         EndLoop, Narrate, Earn, ResolveObjective, UnlockScene, ReadScene, TakeUnlock, AskModel,
         SetScene
    <3> QED
      BY <3>3, <3>4, <3>5
  <2> QED
    BY <2>2, <2>3
<1>10. ASSUME NEW s \in Scenes
       PROVE  \/ moves'[s] = 0 \/ Lost(s)'
              \/ moves'[s] = 1 /\ (Recorded(s)' \/ Leaving(s)')
  <2>1. CASE moves'[s] # moves[s]
    BY <1>8, <2>1
  <2>2. CASE moves'[s] = moves[s]
    BY <1>3, <1>5, <1>9, <2>2 DEF LeftOnce
  <2> QED
    BY <2>1, <2>2
<1>11. ASSUME NEW u \in Turns, NEW s \in Scenes, pc'[u] = "set", gate'[u], cur'[u] = s
       PROVE  moves'[s] = 0 \/ Lost(s)'
  <2>1. CASE u # t
    <3>1. pc[u] = "set" /\ gate[u] /\ cur[u] = s
      BY <1>6, <1>11, <2>1
    <3>2. moves'[s] = moves[s]
      <4> SUFFICES ASSUME moves'[s] # moves[s] PROVE FALSE
        OBVIOUS
      <4>1. InFlight(t) /\ InFlight(u)
        BY <1>7, <3>1 DEF InFlight, Over
      <4> QED
        BY <1>4, <2>1, <4>1
    <3>3. moves[s] = 0 \/ Lost(s)
      BY <1>3, <3>1 DEF FirstOut
    <3> QED
      BY <1>5, <3>2, <3>3
  <2>2. CASE u = t
    <3>1. TakeUnlock(t)
      BY <1>1, <1>11, <2>2 DEF Step, Jump, TypeOK, LocalsOK, Over, locals, Start, NameScene,
         NameNone, Assemble, PreSet, PreAppend, Tour, EndLoop, Narrate, Earn, ResolveObjective,
         UnlockScene, ReadScene, AskModel, SetScene, AppendMove, Die
    <3>2. pc[t] = "decide" /\ cur[t] = s /\ Pending(s) # NoScene /\ moves' = moves
      BY <1>1, <1>11, <2>2, <3>1 DEF TakeUnlock, Jump, past
    <3>3. ~Recorded(s)
      <4>1. Pending(s) = Next_Scene[s]
        BY <1>1, <3>2, PendingEarned
      <4>2. \A i \in 1..Len(log) : ~Took(i, s, Pending(s))
        BY <1>1, <1>2, <3>2, PendingUnlock, BoundsAssumption DEF TypeOK
      <4> QED
        BY <4>1, <4>2 DEF Recorded
    <3>4. ~Leaving(s)
      BY <1>4, <3>2 DEF Leaving, InFlight, Over
    <3>5. moves[s] = 0 \/ Lost(s)
      BY <1>3, <3>2, <3>3, <3>4 DEF LeftOnce
    <3> QED
      BY <1>5, <3>2, <3>5
  <2> QED
    BY <2>1, <2>2
<1> QED
  BY <1>10, <1>11 DEF LeftOnce, FirstOut

\* While turns do not overlap, an unlock moves the party once, except where the log did not take the
\* move or is longer than the query.
THEOREM UnlockOnceAlways == Spec => []UnlockOnce
<1>1. Init => Alone /\ OnceInv
  <2> SUFFICES ASSUME Init PROVE Alone /\ OnceInv
    OBVIOUS
  <2>1. Alone
    BY DEF Init, Alone, InFlight
  <2>2. LeftOnce /\ FirstOut
    BY DEF Init, LeftOnce, FirstOut
  <2> QED
    BY <2>1, <2>2 DEF OnceInv
<1>2. IInv /\ Alone /\ OnceInv /\ [Next]_vars => Alone' /\ OnceInv'
  <2> SUFFICES ASSUME IInv, Alone, OnceInv, [Next]_vars PROVE Alone' /\ OnceInv'
    OBVIOUS
  <2>1. CASE UNCHANGED vars
    BY <2>1 DEF Alone, OnceInv, LeftOnce, FirstOut, InFlight, Lost, Recorded, Leaving, Took, vars,
               locals, past
  <2>2. ASSUME NEW t \in Turns, Step(t) PROVE Alone' /\ OnceInv'
    BY <2>2, AloneStep, OnceStep DEF IInv
  <2> QED
    BY <2>1, <2>2 DEF Next
<1>3. OnceInv => UnlockOnce
  <2>1. LeftOnce => \A s \in Scenes : moves[s] <= 1 \/ Lost(s)
    BY DEF LeftOnce
  <2> QED
    BY <2>1 DEF OnceInv, UnlockOnce, Lost
<1> QED
  BY Initial, Inductive, <1>1, <1>2, <1>3, PTL DEF Spec

-----------------------------------------------------------------------------
\* The way on is taken

\* What AdvanceTaken does not claim anything about.
Disturbed == overlapped \/ faults # 0 \/ Len(log) > Limit

Unlocking(s) == \E i \in 1..Len(log) : log[i].kind = "unlocked" /\ log[i].from = s

\* An undisturbed turn plays the scene that the party is in, until its navigator reads it.
PlaysScene ==
    \A t \in Turns :
        /\ pc[t] # "context" /\ (pc[t] \in {"idle", "head"} => t \notin toured)
        /\ pc[t] = "pre_append" => scene = tgt[t]
        /\ pc[t] \in {"head", "pre_append", "loop", "progress", "unlock", "navigate"} /\ t \notin toured
             => mine[t] = scene

\* A turn whose unlock is in the log has finished with the objectives and, unless the tool moved the
\* party, is on its way out of that scene, or the log has the move.
OnItsWay ==
    \A t \in Turns : due[t] # NoScene =>
        /\ due[t] \in Scenes /\ Next_Scene[due[t]] # NoScene /\ Unlocking(due[t])
        /\ pc[t] \in {"navigate", "decide", "set", "append"} \cup Over
        /\ t \notin toured =>
             /\ pc[t] = "navigate" => mine[t] = due[t]
             /\ pc[t] = "decide"   => cur[t] = due[t]
             /\ pc[t] \in {"set", "append"} => Recorded(due[t]) \/ (gate[t] /\ cur[t] = due[t])
             /\ pc[t] = "narrated" => Recorded(due[t]) \/ Lost(due[t])

WayInv == Disturbed \/ (PlaysScene /\ OnItsWay)

\* What the navigator finds in a log that it reads to the end: the way on, or its use.
LEMMA UnlockSeen ==
  ASSUME TypeOK, LogOK, NEW s \in Scenes, Unlocking(s), Len(log) <= Limit,
         Next_Scene[s] # NoScene, Pending(s) = NoScene
  PROVE  Recorded(s)
<1>1. Unlocks(s) # {} /\ Unlocks(s) \in SUBSET (1..Len(log)) /\ Len(log) \in Nat
  BY BoundsAssumption DEF Unlocks, Listed, Unlocking, TypeOK
<1> DEFINE u == CHOOSE i \in Unlocks(s) : \A j \in Unlocks(s) : j <= i
<1>2. u \in Unlocks(s)
  BY <1>1, LastIndex
<1>3. Pending(s) = IF \E i \in Listed : Took(i, s, log[u].to) THEN NoScene ELSE log[u].to
  BY <1>1 DEF Pending
<1> HIDE DEF u
<1>4. log[u].to = Next_Scene[s]
  BY <1>1, <1>2 DEF LogOK, Unlocks
<1> QED
  BY <1>3, <1>4 DEF Recorded, Listed

\* A step leaves a disturbance as it is.
LEMMA Undisturbed ==
  ASSUME TypeOK, LocalsOK, NEW t \in Turns, Step(t), ~Disturbed'
  PROVE  ~Disturbed /\ UNCHANGED faults
<1>1. UNCHANGED faults \/ Fault
  BY DEF Step, Start, NameScene, NameNone, Assemble, PreSet, PreAppend, Tour, EndLoop, Narrate, Earn,
     ResolveObjective, UnlockScene, ReadScene, TakeUnlock, AskModel, SetScene, AppendMove, Die
<1>2. faults' = 0 /\ faults \in Nat
  BY BoundsAssumption DEF Disturbed, TypeOK
<1>3. UNCHANGED faults
  BY <1>1, <1>2 DEF Fault
<1> QED
  BY <1>2, <1>3, StepFrame, LogStays, BoundsAssumption DEF Disturbed

LEMMA NoFault ==
  ASSUME TypeOK, UNCHANGED faults
  PROVE  ~Fault
BY BoundsAssumption DEF TypeOK, Fault

\* Nobody else is in flight when an undisturbed turn takes a step.
LEMMA OthersRest ==
  ASSUME TypeOK, Alone, NEW t \in Turns, Step(t), ~overlapped'
  PROVE  \A u \in Turns \ {t} : ~InFlight(u)
<1>1. ~overlapped
  BY StepFrame
<1>2. CASE Start(t)
  BY <1>2 DEF Start, Others, InFlight
<1>3. CASE ~Start(t)
  <2>1. InFlight(t)
    BY <1>3 DEF Step, Jump, InFlight, Over, NameScene, NameNone, Assemble, PreSet, PreAppend, Tour,
       EndLoop, Narrate, Earn, ResolveObjective, UnlockScene, ReadScene, TakeUnlock, AskModel,
       SetScene, AppendMove, Die
  <2> QED
    BY <1>1, <2>1 DEF Alone
<1> QED
  BY <1>2, <1>3

LEMMA PlaysStep ==
  ASSUME TypeOK, LocalsOK, PlaysScene, NEW t \in Turns, Step(t), UNCHANGED faults,
         \A u \in Turns \ {t} : ~InFlight(u)
  PROVE  PlaysScene'
<1> DEFINE Own(u) ==
        /\ pc[u] # "context" /\ (pc[u] \in {"idle", "head"} => u \notin toured)
        /\ pc[u] = "pre_append" => scene = tgt[u]
        /\ pc[u] \in {"head", "pre_append", "loop", "progress", "unlock", "navigate"} /\ u \notin toured
             => mine[u] = scene
<1>1. Own(t)
  BY DEF PlaysScene
<1>2. ~Fault
  BY NoFault
<1>3. Own(t)'
  <2> USE <1>1, <1>2 DEF Jump
  <2>1. CASE Start(t)
    BY <2>1 DEF Start, TypeOK, locals, past
  <2>2. CASE NameScene(t)
    BY <2>2 DEF NameScene, TypeOK, locals, past
  <2>3. CASE NameNone(t)
    BY <2>3, SceneAssumption DEF NameNone, TypeOK, locals, past
  <2>4. CASE PreSet(t)
    BY <2>4 DEF PreSet, DropMove, TypeOK, locals, past
  <2>5. CASE PreAppend(t)
    BY <2>5 DEF PreAppend, DropMove, TypeOK, locals, past
  <2>6. CASE Tour(t)
    BY <2>6 DEF Tour, TypeOK, locals, past
  <2>7. CASE EndLoop(t)
    BY <2>7 DEF EndLoop, TypeOK, locals, past
  <2>8. CASE Narrate(t)
    BY <2>8 DEF Narrate, TypeOK, locals, past
  <2>9. CASE Earn(t)
    BY <2>9 DEF Earn, TypeOK, locals, past
  <2>10. CASE ResolveObjective(t)
    BY <2>10 DEF ResolveObjective, TypeOK, locals, past
  <2>11. CASE UnlockScene(t)
    BY <2>11 DEF UnlockScene, TypeOK, locals, past
  <2>12. CASE ReadScene(t)
    BY <2>12 DEF ReadScene, TypeOK, locals, past
  <2>13. CASE TakeUnlock(t)
    BY <2>13 DEF TakeUnlock, TypeOK, locals, past
  <2>14. CASE AskModel(t)
    BY <2>14 DEF AskModel, TypeOK, locals, past
  <2>15. CASE SetScene(t)
    BY <2>15 DEF SetScene, TypeOK, locals, past
  <2>16. CASE AppendMove(t)
    BY <2>16 DEF AppendMove, TypeOK, locals, past
  <2>17. CASE Die(t)
    BY <2>17 DEF Die
  <2>18. CASE Assemble(t)
    BY <2>18 DEF Assemble
  <2> QED
    BY <2>1, <2>2, <2>3, <2>4, <2>5, <2>6, <2>7, <2>8, <2>9, <2>10, <2>11, <2>12, <2>13, <2>14,
       <2>15, <2>16, <2>17, <2>18
       DEF Step
<1>4. ASSUME NEW u \in Turns, u # t PROVE Own(u)'
  <2>1. ~InFlight(u) /\ pc'[u] = pc[u]
    BY <1>4, StepFrame
  <2>2. u \notin toured => u \notin toured'
    BY <1>4 DEF Step, past, Start, NameScene, NameNone, Assemble, PreSet, PreAppend, Tour, EndLoop,
       Narrate, Earn, ResolveObjective, UnlockScene, ReadScene, TakeUnlock, AskModel, SetScene,
       AppendMove, Die
  <2> QED
    BY <2>1, <2>2 DEF PlaysScene, InFlight, Over
<1> QED
  BY <1>3, <1>4 DEF PlaysScene

LEMMA WayStep ==
  ASSUME IInv, PlaysScene, OnItsWay, NEW t \in Turns, Step(t), UNCHANGED faults, Len(log) <= Limit
  PROVE  OnItsWay'
<1> DEFINE Own(u) ==
        due[u] # NoScene =>
            /\ due[u] \in Scenes /\ Next_Scene[due[u]] # NoScene /\ Unlocking(due[u])
            /\ pc[u] \in {"navigate", "decide", "set", "append"} \cup Over
            /\ u \notin toured =>
                 /\ pc[u] = "navigate" => mine[u] = due[u]
                 /\ pc[u] = "decide"   => cur[u] = due[u]
                 /\ pc[u] \in {"set", "append"} => Recorded(due[u]) \/ (gate[u] /\ cur[u] = due[u])
                 /\ pc[u] = "narrated" => Recorded(due[u]) \/ Lost(due[u])
<1>1. TypeOK /\ LocalsOK /\ LogOK /\ Earned /\ ~Fault
  BY NoFault DEF IInv
<1>2. /\ \A s \in Scenes : Lost(s) => Lost(s)'
      /\ \A s \in Scenes : Unlocking(s) => Unlocking(s)'
      /\ \A s \in Scenes : Recorded(s) => Recorded(s)'
  <2>1. /\ Len(log) \in Nat /\ Len(log') \in Nat /\ Len(log) <= Len(log')
        /\ \A i \in 1..Len(log) : log'[i] = log[i]
    BY <1>1, LogStays
  <2>2. \A i \in 1..Len(log) : i \in 1..Len(log')
    BY <2>1
  <2>3. unlogged \subseteq unlogged'
    BY <1>1, StepFrame
  <2> QED
    BY <2>1, <2>2, <2>3 DEF Lost, Unlocking, Recorded, Took
<1>3. \A u \in Turns : u \notin toured' => u \notin toured
  BY DEF Step, past, Start, NameScene, NameNone, Assemble, PreSet, PreAppend, Tour, EndLoop,
     Narrate, Earn, ResolveObjective, UnlockScene, ReadScene, TakeUnlock, AskModel, SetScene,
     AppendMove, Die
<1>4. ASSUME NEW u \in Turns, due'[u] = due[u], pc'[u] = pc[u], mine'[u] = mine[u],
             cur'[u] = cur[u], gate'[u] = gate[u]
      PROVE  Own(u)'
  BY <1>2, <1>3, <1>4 DEF OnItsWay, Over
<1>5. CASE UnlockScene(t) /\ due' # due
  <2>1. /\ due' = [due EXCEPT ![t] = mine[t]] /\ log' # log
        /\ log' = Extended(Unlocked(t, mine[t])) /\ Next_Scene[mine[t]] # NoScene
    BY <1>1, <1>5 DEF UnlockScene
  <2>2. mine[t] \in Scenes /\ pc[t] = "unlock" /\ pc'[t] = "navigate" /\ UNCHANGED locals
    BY <1>1, <1>5 DEF UnlockScene, Jump, LocalsOK, TypeOK
  <2>3. Unlocking(mine[t])'
    <3> DEFINE e == Unlocked(t, mine[t])
    <3>1. e \in Event /\ e.kind = "unlocked" /\ e.from = mine[t] /\ log' = Append(log, e)
      BY <2>1, <2>2, EventType DEF Unlocked, Extended
    <3>2. Len(log') = Len(log) + 1 /\ Len(log) \in Nat /\ log'[Len(log) + 1] = e
      BY <1>1, <3>1, AppendedLog DEF TypeOK
    <3> HIDE DEF e
    <3>3. Len(log) + 1 \in 1..Len(log')
      BY <3>2
    <3>4. mine' = mine
      BY <2>2 DEF locals
    <3> QED
      BY <3>1, <3>2, <3>3, <3>4 DEF Unlocking
  <2>4. Own(t)'
    BY <1>1, <2>1, <2>2, <2>3 DEF TypeOK, locals
  <2>5. ASSUME NEW u \in Turns, u # t PROVE Own(u)'
    BY <1>1, <1>4, <2>1, <2>5, StepFrame DEF TypeOK
  <2> QED
    BY <2>4, <2>5 DEF OnItsWay
<1>6. CASE due' = due
  <2>1. SUFFICES ASSUME due[t] # NoScene PROVE Own(t)'
    BY <1>1, <1>4, <1>6, StepFrame DEF OnItsWay
  <2>0. PICK d \in Scenes : d = due[t]
    BY <2>1 DEF OnItsWay
  <2>2. /\ Next_Scene[d] # NoScene /\ Unlocking(d) /\ Unlocking(d)'
        /\ pc[t] \in {"navigate", "decide", "set", "append"} \cup Over
    BY <1>2, <2>0, <2>1 DEF OnItsWay
  <2>3. pc'[t] \in {"decide", "set", "append"} \cup Over
    BY <1>1, <2>2 DEF Step, Jump, TypeOK, Over, Start, NameScene, NameNone, Assemble, PreSet,
       PreAppend, Tour, EndLoop, Narrate, Earn, ResolveObjective, UnlockScene, ReadScene,
       TakeUnlock, AskModel, SetScene, AppendMove, Die
  <2>4. SUFFICES ASSUME t \notin toured'
                 PROVE  /\ pc'[t] = "decide" => cur'[t] = d
                        /\ pc'[t] \in {"set", "append"} => Recorded(d)' \/ (gate'[t] /\ cur'[t] = d)
                        /\ pc'[t] = "narrated" => Recorded(d)' \/ Lost(d)'
    BY <1>6, <2>0, <2>2, <2>3 DEF Over
  <2>5. /\ t \notin toured
        /\ pc[t] = "navigate" => mine[t] = d /\ mine[t] = scene
        /\ pc[t] = "decide" => cur[t] = d
        /\ pc[t] \in {"set", "append"} => Recorded(d) \/ (gate[t] /\ cur[t] = d)
        /\ pc[t] = "narrated" => Recorded(d) \/ Lost(d)
    BY <1>3, <2>0, <2>1, <2>4 DEF OnItsWay, PlaysScene
  <2>6. CASE EndLoop(t)
    BY <1>1, <2>6 DEF EndLoop, Jump, TypeOK
  <2>7. CASE ReadScene(t)
    BY <1>1, <2>5, <2>7 DEF ReadScene, Jump, TypeOK
  <2>8. CASE TakeUnlock(t)
    BY <1>1, <2>5, <2>8 DEF TakeUnlock, Jump, TypeOK
  <2>9. CASE AskModel(t)
    <3>1. pc[t] = "decide" /\ Pending(d) = NoScene
      BY <1>1, <2>5, <2>9 DEF AskModel, Jump
    <3>2. Recorded(d)'
      BY <1>1, <1>2, <2>2, <3>1, UnlockSeen
    <3> QED
      BY <1>1, <3>2, <2>9 DEF AskModel, Jump, TypeOK
  <2>10. CASE SetScene(t)
    BY <1>1, <1>2, <2>5, <2>10 DEF SetScene, Jump, TypeOK, locals
  <2>11. CASE AppendMove(t)
    <3>1. pc[t] = "append" /\ pc'[t] = "narrated"
      BY <1>1, <2>11 DEF AppendMove, Jump, TypeOK
    <3>2. SUFFICES ASSUME ~Recorded(d) PROVE Recorded(d)' \/ Lost(d)'
      BY <1>2, <3>1
    <3>3. gate[t] = TRUE /\ cur[t] = d /\ tgt[t] = Next_Scene[d] /\ tgt[t] \in Scenes
      BY <1>1, <2>5, <3>1, <3>2 DEF Earned, LocalsOK, TypeOK
    <3>4. Forgotten(t) \subseteq unlogged' => Lost(d)'
      BY <3>3 DEF Forgotten, Lost
    <3>5. CASE log' = Append(log, Moved(t, cur[t], tgt[t]))
      <4> DEFINE e == Moved(t, cur[t], tgt[t])
      <4>1. e \in Event /\ e.kind = "moved" /\ e.from = d /\ e.to = Next_Scene[d]
        BY <2>2, <3>3, EventType DEF Moved
      <4>2. Len(log') = Len(log) + 1 /\ Len(log) \in Nat /\ log'[Len(log) + 1] = e
        BY <1>1, <3>5, <4>1, AppendedLog DEF TypeOK
      <4> HIDE DEF e
      <4>3. Len(log) + 1 \in 1..Len(log')
        BY <4>2
      <4> QED
        BY <4>1, <4>2, <4>3 DEF Recorded, Took
    <3>6. CASE log' = log
      BY <1>1, <2>11, <3>4, <3>6 DEF AppendMove
    <3> QED
      BY <1>1, <2>11, <3>5, <3>6 DEF AppendMove, Extended
  <2>12. EndLoop(t) \/ ReadScene(t) \/ TakeUnlock(t) \/ AskModel(t) \/ SetScene(t) \/ AppendMove(t)
    BY <1>1, <2>2 DEF Step, Jump, Over, Start, NameScene, NameNone, Assemble, PreSet, PreAppend, Tour,
       Narrate, Earn, ResolveObjective, UnlockScene, Die
  <2> QED
    BY <2>6, <2>7, <2>8, <2>9, <2>10, <2>11, <2>12
<1>7. due' = due \/ UnlockScene(t)
  BY DEF Step, past, Start, NameScene, NameNone, Assemble, PreSet, PreAppend, Tour, EndLoop,
     Narrate, Earn, ResolveObjective, ReadScene, TakeUnlock, AskModel, SetScene, AppendMove, Die
<1> QED
  BY <1>5, <1>6, <1>7

\* An undisturbed turn that unlocks the way on has a record of the party having taken it when it
\* ends, or has lost the record of that very move.
THEOREM AdvanceTakenAlways == Spec => []AdvanceTaken
<1>1. Init => Alone /\ WayInv
  <2> SUFFICES ASSUME Init PROVE Alone /\ WayInv
    OBVIOUS
  <2>1. Alone
    BY DEF Init, Alone, InFlight
  <2>2. PlaysScene /\ OnItsWay
    BY DEF Init, PlaysScene, OnItsWay
  <2> QED
    BY <2>1, <2>2 DEF WayInv
<1>2. IInv /\ Alone /\ WayInv /\ [Next]_vars => Alone' /\ WayInv'
  <2> SUFFICES ASSUME IInv, Alone, WayInv, [Next]_vars PROVE Alone' /\ WayInv'
    OBVIOUS
  <2>1. CASE UNCHANGED vars
    BY <2>1 DEF Alone, WayInv, Disturbed, PlaysScene, OnItsWay, InFlight, Lost, Recorded, Unlocking,
               Took, vars, locals, past
  <2>2. ASSUME NEW t \in Turns, Step(t) PROVE Alone' /\ WayInv'
    <3>1. TypeOK /\ LocalsOK /\ Alone'
      BY <2>2, AloneStep DEF IInv
    <3>2. SUFFICES ASSUME ~Disturbed' PROVE PlaysScene' /\ OnItsWay'
      BY <3>1 DEF WayInv
    <3>3. ~Disturbed /\ UNCHANGED faults
      BY <2>2, <3>1, <3>2, Undisturbed
    <3>4. PlaysScene /\ OnItsWay /\ Len(log) <= Limit
      BY <3>1, <3>3, BoundsAssumption DEF WayInv, Disturbed, TypeOK
    <3>5. \A u \in Turns \ {t} : ~InFlight(u)
      BY <2>2, <3>1, <3>2, OthersRest DEF Disturbed
    <3> QED
      BY <2>2, <3>1, <3>3, <3>4, <3>5, PlaysStep, WayStep
  <2> QED
    BY <2>1, <2>2 DEF Next
<1>3. TypeOK /\ WayInv => AdvanceTaken
  <2> SUFFICES ASSUME TypeOK, WayInv, NEW t \in Turns, pc[t] = "narrated", due[t] # NoScene,
                      t \notin toured, ~overlapped, faults = 0, Len(log) <= Limit
               PROVE  Recorded(due[t]) \/ Lost(due[t])
    BY DEF AdvanceTaken, Recorded, Lost
  <2>1. ~Disturbed
    BY BoundsAssumption DEF Disturbed, TypeOK
  <2> QED
    BY <2>1 DEF WayInv, OnItsWay
<1>4. IInv => TypeOK
  BY DEF IInv
<1> QED
  BY Initial, Inductive, <1>1, <1>2, <1>3, <1>4, PTL DEF Spec

-----------------------------------------------------------------------------
\* The log follows the party

\* A move that the party has made and the log has not taken yet
Owing == {t \in Turns : pc[t] \in {"pre_append", "append"}}

\* An undisturbed turn starts its move from where the party is; once the party moved, the log still
\* leads to where the move started.
Following ==
    /\ Connected
    /\ Owing = {} => LedTo(Len(log) + 1, scene)
    /\ \A t \in Turns :
         /\ pc[t] \in {"pre_set", "decide", "set"} => cur[t] = scene
         /\ pc[t] \in {"pre_append", "append"} => scene = tgt[t] /\ LedTo(Len(log) + 1, cur[t])
         /\ pc[t] \in {"idle", "head", "pre_set", "pre_append"}
              => \A i \in 1..Len(log) : log[i].kind = "moved" => log[i].turn # t

Astray == overlapped \/ faults # 0 \/ toured # {} \/ unlogged # {}
FollowInv == Astray \/ (PlaysScene /\ Following)

\* An event at the end of the log disturbs no earlier place; a move leads to its target, another
\* event nowhere.
LEMMA LeadOn ==
  ASSUME TypeOK, Connected, NEW e \in Event, log' = Append(log, e),
         e.kind = "moved" => LedTo(Len(log) + 1, e.from)
  PROVE  /\ Connected'
         /\ e.kind # "moved" => \A s \in Scenes : LedTo(Len(log) + 1, s) => LedTo(Len(log) + 1, s)'
         /\ e.kind = "moved" => LedTo(Len(log) + 1, e.to)'
<1>1. /\ Len(log) \in Nat /\ Len(log') = Len(log) + 1
      /\ \A i \in 1..Len(log) : log'[i] = log[i]
      /\ log'[Len(log) + 1] = e
  BY AppendedLog DEF TypeOK
<1>2. ASSUME NEW i \in 1..(Len(log) + 1)
      PROVE  /\ MovesBefore(i)' = MovesBefore(i)
             /\ MovesBefore(i) \subseteq 1..Len(log)
  BY <1>1 DEF MovesBefore
<1>3. ASSUME NEW i \in 1..(Len(log) + 1), NEW s, LedTo(i, s)
      PROVE  \/ MovesBefore(i)' = {} /\ s = Entry
             \/ \E j \in MovesBefore(i)' : log'[j].to = s /\ \A k \in MovesBefore(i)' : k <= j
  BY <1>1, <1>2, <1>3 DEF LedTo
<1>4. Connected'
  <2>1. ASSUME NEW i \in 1..Len(log'), log'[i].kind = "moved"
        PROVE  \/ MovesBefore(i)' = {} /\ log'[i].from = Entry
               \/ \E j \in MovesBefore(i)' :
                     log'[j].to = log'[i].from /\ \A k \in MovesBefore(i)' : k <= j
    <3>1. LedTo(i, log'[i].from)
      <4>1. CASE i = Len(log) + 1
        BY <1>1, <2>1, <4>1
      <4>2. CASE i \in 1..Len(log)
        BY <1>1, <2>1, <4>2 DEF Connected
      <4> QED
        BY <1>1, <4>1, <4>2
    <3> QED
      BY <1>1, <1>3, <3>1
  <2> QED
    BY <2>1 DEF Connected, LedTo
<1>5. Len(log') + 1 = Len(log) + 2
  BY <1>1
<1>6. ASSUME e.kind # "moved"
      PROVE  {j \in 1..(Len(log') + 1 - 1) : log'[j].kind = "moved"} = MovesBefore(Len(log) + 1)
  BY <1>1, <1>6 DEF MovesBefore
<1>7. ASSUME e.kind = "moved"
      PROVE  /\ Len(log) + 1 \in {j \in 1..(Len(log') + 1 - 1) : log'[j].kind = "moved"}
             /\ \A k \in {j \in 1..(Len(log') + 1 - 1) : log'[j].kind = "moved"} : k <= Len(log) + 1
  BY <1>1, <1>7
<1>8. ASSUME e.kind # "moved", NEW s \in Scenes, LedTo(Len(log) + 1, s)
      PROVE  LedTo(Len(log) + 1, s)'
  BY <1>1, <1>2, <1>6, <1>8 DEF LedTo, MovesBefore
<1>9. e.kind = "moved" => LedTo(Len(log) + 1, e.to)'
  BY <1>1, <1>7 DEF LedTo, MovesBefore
<1> QED
  BY <1>4, <1>8, <1>9

\* A step that leaves the log alone: what has to hold of its own turn.
LEMMA FollowQuiet ==
  ASSUME TypeOK, Following, NEW t \in Turns, Step(t), \A u \in Turns \ {t} : ~InFlight(u),
         UNCHANGED log,
         pc'[t] \notin {"pre_append", "append"} => UNCHANGED scene /\ pc[t] \notin {"pre_append", "append"},
         pc'[t] \in {"pre_set", "decide", "set"} => cur'[t] = scene',
         pc'[t] \in {"pre_append", "append"} =>
             pc[t] \in {"pre_set", "set"} /\ scene' = tgt'[t] /\ cur'[t] = scene,
         pc'[t] \in {"idle", "head", "pre_set", "pre_append"} => pc[t] \in {"idle", "head", "pre_set"}
  PROVE  Following'
<1>1. \A u \in Turns \ {t} : pc'[u] = pc[u] /\ pc'[u] \in {"idle"} \cup Over
  BY StepFrame DEF InFlight
<1>2. Connected' /\ \A s : LedTo(Len(log) + 1, s)' <=> LedTo(Len(log) + 1, s)
  BY DEF Following, Connected, LedTo, MovesBefore
<1>3. pc[t] \notin {"pre_append", "append"} => LedTo(Len(log) + 1, scene)
  BY DEF Following, Owing, InFlight, Over
<1>4. Owing' = {} => pc'[t] \notin {"pre_append", "append"}
  BY DEF Owing
<1>5. Owing' = {} => LedTo(Len(log) + 1, scene)'
  BY <1>3, <1>4 DEF LedTo, MovesBefore
<1> QED
  BY <1>1, <1>2, <1>3, <1>5 DEF Following, Over

\* A step that appends an event of its own turn and owes no move afterwards.
LEMMA FollowAppend ==
  ASSUME TypeOK, Following, NEW t \in Turns, Step(t), \A u \in Turns \ {t} : ~InFlight(u),
         NEW e \in Event, log' = Append(log, e), e.turn = t, UNCHANGED scene,
         e.kind = "moved" => pc[t] \in {"pre_append", "append"} /\ e.from = cur[t] /\ e.to = tgt[t],
         e.kind # "moved" => pc[t] \notin {"pre_append", "append"},
         pc'[t] \notin {"idle", "head", "pre_set", "pre_append", "decide", "set", "append"}
  PROVE  Following'
<1>1. \A u \in Turns \ {t} : pc'[u] = pc[u] /\ pc'[u] \in {"idle"} \cup Over
  BY StepFrame DEF InFlight
<1>2. e.kind = "moved" => LedTo(Len(log) + 1, e.from) /\ e.to = scene
  BY DEF Following
<1>3. Connected'
  BY <1>2, LeadOn DEF Following
<1>4. e.kind # "moved" => LedTo(Len(log) + 1, scene)
  BY DEF Following, Owing, InFlight, Over
<1>5. LedTo(Len(log) + 1, scene)'
  BY <1>2, <1>4, LeadOn DEF Following, TypeOK
<1>6. /\ Len(log') = Len(log) + 1 /\ Len(log) \in Nat
      /\ \A i \in 1..Len(log) : log'[i] = log[i]
      /\ log'[Len(log) + 1] = e
  BY AppendedLog DEF TypeOK
<1>7. ASSUME NEW u \in Turns \ {t}, pc'[u] \in {"idle", "head", "pre_set", "pre_append"},
             NEW i \in 1..Len(log'), log'[i].kind = "moved"
      PROVE  log'[i].turn # u
  <2>1. CASE i \in 1..Len(log)
    BY <1>1, <1>6, <1>7, <2>1 DEF Following
  <2>2. CASE i = Len(log) + 1
    BY <1>6, <1>7, <2>2
  <2> QED
    BY <1>6, <2>1, <2>2
<1> QED
  BY <1>1, <1>3, <1>5, <1>7 DEF Following, Over

LEMMA FollowStep ==
  ASSUME IInv, PlaysScene, Following, NEW t \in Turns, Step(t), UNCHANGED faults,
         toured' = {}, unlogged' = {}, \A u \in Turns \ {t} : ~InFlight(u)
  PROVE  Following'
<1>1. TypeOK /\ LocalsOK /\ ~Fault
  BY NoFault DEF IInv
<1> USE <1>1 DEF Jump
<1>2. CASE Start(t)
  BY <1>2, FollowQuiet DEF Start, TypeOK
<1>3. CASE NameScene(t)
  BY <1>3, FollowQuiet DEF NameScene, TypeOK
<1>4. CASE NameNone(t)
  BY <1>4, FollowQuiet DEF NameNone, TypeOK
<1>5. CASE PreSet(t)
  <2>1. cur[t] = scene
    BY <1>5 DEF PreSet, Following
  <2> QED
    BY <1>5, <2>1, FollowQuiet DEF PreSet, TypeOK
<1>6. CASE PreAppend(t)
  <2> DEFINE e == Moved(t, cur[t], tgt[t])
  <2>1. pc[t] = "pre_append" /\ pc'[t] = "loop" /\ UNCHANGED scene /\ log' = Extended(e)
    BY <1>6 DEF PreAppend, TypeOK
  <2>2. e \in Event /\ e.kind = "moved" /\ e.turn = t /\ e.from = cur[t] /\ e.to = tgt[t]
    BY <2>1, EventType DEF Moved, LocalsOK
  <2>3. ~Known(e)
    BY <2>1, <2>2 DEF Known, SameId, Following
  <2> HIDE DEF e
  <2>4. log' = Append(log, e)
    BY <2>1, <2>3 DEF Extended
  <2> QED
    BY <2>1, <2>2, <2>4, FollowAppend
<1>7. CASE EndLoop(t)
  BY <1>7, FollowQuiet DEF EndLoop, TypeOK
<1>8. CASE Narrate(t)
  BY <1>8, FollowQuiet DEF Narrate, TypeOK
<1>9. CASE Earn(t)
  BY <1>9, FollowQuiet DEF Earn, TypeOK
<1>10. CASE ResolveObjective(t)
  <2> DEFINE e == Resolved(t, mine[t])
  <2>1. pc[t] = "progress" /\ pc'[t] = "unlock" /\ UNCHANGED scene /\ log' = Extended(e)
    BY <1>10 DEF ResolveObjective, TypeOK
  <2>2. e \in Event /\ e.kind # "moved" /\ e.turn = t
    BY <2>1, EventType DEF Resolved, LocalsOK, TypeOK
  <2> HIDE DEF e
  <2>3. CASE log' = log
    BY <1>10, <2>1, <2>3, FollowQuiet
  <2>4. CASE log' = Append(log, e)
    BY <2>1, <2>2, <2>4, FollowAppend
  <2> QED
    BY <2>1, <2>3, <2>4 DEF Extended
<1>11. CASE UnlockScene(t)
  <2> DEFINE e == Unlocked(t, mine[t])
  <2>1. pc[t] = "unlock" /\ pc'[t] = "navigate" /\ UNCHANGED scene /\ (log' = log \/ log' = Extended(e))
    BY <1>11 DEF UnlockScene, TypeOK
  <2>2. e \in Event /\ e.kind # "moved" /\ e.turn = t
    BY <2>1, EventType DEF Unlocked, LocalsOK, TypeOK
  <2> HIDE DEF e
  <2>3. CASE log' = log
    BY <1>11, <2>1, <2>3, FollowQuiet
  <2>4. CASE log' = Append(log, e)
    BY <2>1, <2>2, <2>4, FollowAppend
  <2> QED
    BY <2>1, <2>3, <2>4 DEF Extended
<1>12. CASE ReadScene(t)
  BY <1>12, FollowQuiet DEF ReadScene, TypeOK
<1>13. CASE TakeUnlock(t)
  BY <1>13, FollowQuiet DEF TakeUnlock, TypeOK, Following
<1>14. CASE AskModel(t)
  <2>1. cur[t] = scene
    BY <1>14 DEF AskModel, Following
  <2> QED
    BY <1>14, <2>1, FollowQuiet DEF AskModel, TypeOK
<1>15. CASE SetScene(t)
  <2>1. cur[t] = scene
    BY <1>15 DEF SetScene, Following
  <2> QED
    BY <1>15, <2>1, FollowQuiet DEF SetScene, TypeOK, locals
<1>16. CASE AppendMove(t)
  <2> DEFINE e == Moved(t, cur[t], tgt[t])
  <2>1. pc[t] = "append" /\ pc'[t] = "narrated" /\ UNCHANGED scene /\ log' = Extended(e)
    BY <1>16 DEF AppendMove, TypeOK
  <2>2. e \in Event /\ e.kind = "moved" /\ e.turn = t /\ e.from = cur[t] /\ e.to = tgt[t]
    BY <2>1, EventType DEF Moved, LocalsOK
  <2>3. log' # log
    BY <1>16 DEF AppendMove, Forgotten
  <2> HIDE DEF e
  <2> QED
    BY <2>1, <2>2, <2>3, FollowAppend DEF Extended
<1>17. CASE Tour(t)
  BY <1>17 DEF Tour
<1>18. CASE Die(t)
  BY <1>18 DEF Die
<1>19. CASE Assemble(t)
  BY <1>19 DEF Assemble, PlaysScene
<1> QED
  BY <1>2, <1>3, <1>4, <1>5, <1>6, <1>7, <1>8, <1>9, <1>10, <1>11, <1>12, <1>13, <1>14, <1>15,
     <1>16, <1>17, <1>18, <1>19
     DEF Step

\* While turns do not overlap, nothing fails, the tool is not used and the log takes every move, the
\* log leads to where the party is, for any module and any number of turns.
THEOREM LogFollowsPartyAlways == Spec => []LogFollowsParty
<1>1. Init => Alone /\ FollowInv
  <2> SUFFICES ASSUME Init PROVE Alone /\ FollowInv
    OBVIOUS
  <2>1. Alone
    BY DEF Init, Alone, InFlight
  <2>2. PlaysScene /\ Connected /\ LedTo(Len(log) + 1, scene)
    BY DEF Init, PlaysScene, Connected, LedTo, MovesBefore
  <2>3. Following
    BY <2>2 DEF Init, Following
  <2> QED
    BY <2>1, <2>2, <2>3 DEF FollowInv
<1>2. IInv /\ Alone /\ FollowInv /\ [Next]_vars => Alone' /\ FollowInv'
  <2> SUFFICES ASSUME IInv, Alone, FollowInv, [Next]_vars PROVE Alone' /\ FollowInv'
    OBVIOUS
  <2>1. CASE UNCHANGED vars
    BY <2>1 DEF Alone, FollowInv, Astray, PlaysScene, Following, Connected, LedTo, MovesBefore, Owing,
               InFlight, vars, locals, past
  <2>2. ASSUME NEW t \in Turns, Step(t) PROVE Alone' /\ FollowInv'
    <3>1. TypeOK /\ LocalsOK /\ Alone'
      BY <2>2, AloneStep DEF IInv
    <3>2. SUFFICES ASSUME ~Astray' PROVE PlaysScene' /\ Following'
      BY <3>1 DEF FollowInv
    <3>3. UNCHANGED faults \/ Fault
      BY <2>2 DEF Step, Start, NameScene, NameNone, Assemble, PreSet, PreAppend, Tour, EndLoop,
         Narrate, Earn, ResolveObjective, UnlockScene, ReadScene, TakeUnlock, AskModel, SetScene,
         AppendMove, Die
    <3>4. UNCHANGED faults
      BY <3>1, <3>2, <3>3, BoundsAssumption DEF Fault, Astray, TypeOK
    <3>5. toured \subseteq toured'
      BY <2>2 DEF Step, past, Start, NameScene, NameNone, Assemble, PreSet, PreAppend, Tour, EndLoop,
         Narrate, Earn, ResolveObjective, UnlockScene, ReadScene, TakeUnlock, AskModel, SetScene,
         AppendMove, Die
    <3>6. ~Astray
      BY <2>2, <3>1, <3>2, <3>4, <3>5, StepFrame DEF Astray
    <3>7. \A u \in Turns \ {t} : ~InFlight(u)
      BY <2>2, <3>1, <3>2, OthersRest DEF Astray
    <3> QED
      BY <2>2, <3>1, <3>2, <3>4, <3>6, <3>7, PlaysStep, FollowStep DEF FollowInv, Astray
  <2> QED
    BY <2>1, <2>2 DEF Next
<1>3. FollowInv => LogFollowsParty
  <2> SUFFICES ASSUME FollowInv, ~Astray, \A t \in Turns : pc[t] \in Over \cup {"idle"}
               PROVE  Connected /\ LedTo(Len(log) + 1, scene)
    BY DEF LogFollowsParty, Astray
  <2>1. Owing = {}
    BY DEF Owing, Over
  <2> QED
    BY <2>1 DEF FollowInv, Following
<1> QED
  BY Initial, Inductive, <1>1, <1>2, <1>3, PTL DEF Spec

-----------------------------------------------------------------------------
\* The chain of progress, under any overlap and any failure

\* A log holds, before its i-th event, one of a kind about a scene.
Tells(l, kind, s, i) == \E j \in 1..(i - 1) : l[j].kind = kind /\ l[j].from = s
InLog(l, kind, s) == Tells(l, kind, s, Len(l) + 1)

\* However turns overlap and whatever fails: no event is in the log twice; a scene that is resolved had
\* its evidence admitted; a way on is unlocked after its scene was resolved, unless a statement failed
\* (an append that fails is only warned of, and the unlock follows all the same); and a scene that the
\* party left through its unlock has that unlock in the log (apply_witnessed_progression,
\* scene_navigate_critical).
ChainOfProgress ==
    /\ \A i, j \in 1..Len(log) : SameId(log[i], log[j]) => i = j
    /\ \A i \in 1..Len(log) : log[i].kind = "resolved" => log[i].from \in earned
    /\ \A i \in 1..Len(log) : log[i].kind = "unlocked" =>
                                 faults > 0 \/ Tells(log, "resolved", log[i].from, i)
    /\ \A s \in Scenes : moves[s] > 0 => InLog(log, "unlocked", s)

\* What turns that are under way have done for it.
ChainAhead ==
    \A t \in Turns :
        /\ pc[t] = "unlock" => faults > 0 \/ InLog(log, "resolved", mine[t])
        /\ pc[t] \in {"set", "append"} /\ gate[t] => InLog(log, "unlocked", cur[t])

ChainInv == ChainOfProgress /\ ChainAhead

\* A step leaves the log alone or appends one event that is not there yet.
LEMMA NewEvent ==
  ASSUME TypeOK, LocalsOK, NEW t \in Turns, Step(t), log' # log
  PROVE  \E e \in Event :
           /\ log' = Append(log, e) /\ ~Known(e)
           /\ e.kind = "resolved" => e.from \in earned
           /\ e.kind = "unlocked" => pc[t] = "unlock" /\ e.from = mine[t]
<1>1. CASE PreAppend(t)
  <2>1. Moved(t, cur[t], tgt[t]) \in Event
    BY <1>1, EventType DEF PreAppend, Jump, LocalsOK
  <2> QED
    BY <1>1, <2>1 DEF PreAppend, Extended, Moved
<1>2. CASE ResolveObjective(t)
  <2>1. Resolved(t, mine[t]) \in Event /\ mine[t] \in earned
    BY <1>2, EventType DEF ResolveObjective, Jump, LocalsOK, TypeOK
  <2> QED
    BY <1>2, <2>1 DEF ResolveObjective, Extended, Resolved
<1>3. CASE UnlockScene(t)
  <2>1. Unlocked(t, mine[t]) \in Event /\ pc[t] = "unlock"
    BY <1>3, EventType DEF UnlockScene, Jump, LocalsOK, TypeOK
  <2> QED
    BY <1>3, <2>1 DEF UnlockScene, Extended, Unlocked
<1>4. CASE AppendMove(t)
  <2>1. Moved(t, cur[t], tgt[t]) \in Event
    BY <1>4, EventType DEF AppendMove, Jump, LocalsOK
  <2> QED
    BY <1>4, <2>1 DEF AppendMove, Extended, Moved
<1> QED
  BY <1>1, <1>2, <1>3, <1>4 DEF Step, Start, NameScene, NameNone, Assemble, PreSet, Tour, EndLoop,
     Narrate, Earn, ReadScene, TakeUnlock, AskModel, SetScene, Die

\* What the log tells, it goes on telling.
LEMMA ToldStays ==
  ASSUME TypeOK, LocalsOK, NEW t \in Turns, Step(t), NEW kind, NEW s, NEW i \in 1..(Len(log) + 1),
         Tells(log, kind, s, i)
  PROVE  Tells(log', kind, s, i) /\ InLog(log', kind, s)
<1>1. /\ Len(log) \in Nat /\ Len(log') \in Nat /\ Len(log) <= Len(log')
      /\ \A j \in 1..Len(log) : log'[j] = log[j]
  BY LogStays
<1>2. PICK j \in 1..(i - 1) : log[j].kind = kind /\ log[j].from = s
  BY DEF Tells
<1>3. j \in 1..Len(log)
  BY <1>1
<1>4. log'[j] = log[j]
  BY <1>1, <1>3
<1>5. j \in 1..((Len(log') + 1) - 1)
  BY <1>1, <1>3
<1> QED
  BY <1>2, <1>4, <1>5 DEF Tells, InLog

\* Faults are not taken back.
LEMMA FaultsStay ==
  ASSUME TypeOK, NEW t \in Turns, Step(t)
  PROVE  faults > 0 => faults' > 0
<1>1. UNCHANGED faults \/ faults' = faults + 1
  BY DEF Step, Fault, past, Start, NameScene, NameNone, Assemble, PreSet, PreAppend, Tour, EndLoop,
     Narrate, Earn, ResolveObjective, UnlockScene, ReadScene, TakeUnlock, AskModel, SetScene,
     AppendMove, Die
<1> QED
  BY <1>1, BoundsAssumption DEF TypeOK

LEMMA ChainLog ==
  ASSUME TypeOK, LocalsOK, ChainInv, NEW t \in Turns, Step(t)
  PROVE  /\ \A i, j \in 1..Len(log') : SameId(log'[i], log'[j]) => i = j
         /\ \A i \in 1..Len(log') : log'[i].kind = "resolved" => log'[i].from \in earned'
         /\ \A i \in 1..Len(log') : log'[i].kind = "unlocked" =>
                                       faults' > 0 \/ Tells(log', "resolved", log'[i].from, i)
<1>0. earned \subseteq earned' /\ (faults > 0 => faults' > 0)
  BY StepFrame, FaultsStay
<1>1. CASE log' = log
  BY <1>0, <1>1 DEF ChainInv, ChainOfProgress, Tells
<1>2. CASE log' # log
  <2>1. PICK e \in Event :
           /\ log' = Append(log, e) /\ ~Known(e)
           /\ e.kind = "resolved" => e.from \in earned
           /\ e.kind = "unlocked" => pc[t] = "unlock" /\ e.from = mine[t]
    BY <1>2, NewEvent
  <2>2. /\ Len(log') = Len(log) + 1 /\ Len(log) \in Nat
        /\ \A i \in 1..Len(log) : log'[i] = log[i]
        /\ log'[Len(log) + 1] = e
    BY <2>1, AppendedLog DEF TypeOK
  <2>3. \A i \in 1..Len(log') : i \in 1..Len(log) \/ i = Len(log) + 1
    BY <2>2
  <2>4. \A i \in 1..Len(log) : ~SameId(log[i], e) /\ ~SameId(e, log[i])
    BY <2>1 DEF Known, SameId
  <2>5. \A i, j \in 1..Len(log') : SameId(log'[i], log'[j]) => i = j
    BY <2>2, <2>3, <2>4 DEF ChainInv, ChainOfProgress
  <2>6. \A i \in 1..Len(log') : log'[i].kind = "resolved" => log'[i].from \in earned'
    BY <1>0, <2>1, <2>2, <2>3 DEF ChainInv, ChainOfProgress
  <2>7. ASSUME NEW i \in 1..Len(log'), log'[i].kind = "unlocked"
        PROVE  faults' > 0 \/ Tells(log', "resolved", log'[i].from, i)
    <3>1. CASE i \in 1..Len(log)
      <4>1. faults > 0 \/ Tells(log, "resolved", log[i].from, i)
        BY <2>2, <2>7, <3>1 DEF ChainInv, ChainOfProgress
      <4>2. i \in 1..(Len(log) + 1) /\ log'[i] = log[i]
        BY <2>2, <3>1
      <4> QED
        BY <1>0, <4>1, <4>2, ToldStays
    <3>2. CASE i = Len(log) + 1
      <4>1. faults > 0 \/ Tells(log, "resolved", mine[t], i)
        BY <2>1, <2>2, <2>7, <3>2 DEF ChainInv, ChainAhead, InLog
      <4>2. log'[i].from = mine[t] /\ i \in 1..(Len(log) + 1)
        BY <2>1, <2>2, <2>7, <3>2
      <4> QED
        BY <1>0, <4>1, <4>2, ToldStays
    <3> QED
      BY <2>3, <3>1, <3>2
  <2> QED
    BY <2>5, <2>6, <2>7
<1> QED
  BY <1>1, <1>2

LEMMA ChainAheadStep ==
  ASSUME TypeOK, LocalsOK, ChainInv, NEW t \in Turns, Step(t)
  PROVE  ChainAhead'
<1>0. faults > 0 => faults' > 0
  BY FaultsStay
<1>1. Len(log) \in Nat /\ Len(log) + 1 \in 1..(Len(log) + 1)
  BY DEF TypeOK
<1>2. \A kind, s : InLog(log, kind, s) => InLog(log', kind, s)
  BY <1>1, ToldStays DEF InLog
<1>3. ASSUME NEW u \in Turns, pc'[u] = "unlock"
      PROVE  faults' > 0 \/ InLog(log', "resolved", mine'[u])
  <2>1. CASE u # t \/ ~ResolveObjective(t)
    <3>1. pc[u] = "unlock" /\ mine'[u] = mine[u]
      <4>1. CASE u # t
        BY <1>3, <4>1, StepFrame
      <4>2. CASE u = t
        BY <1>3, <2>1, <4>2 DEF Step, Jump, TypeOK, Over, locals, Start, NameScene, NameNone,
           Assemble, PreSet, PreAppend, Tour, EndLoop, Narrate, Earn, UnlockScene, ReadScene,
           TakeUnlock, AskModel, SetScene, AppendMove, Die
      <4> QED
        BY <4>1, <4>2
    <3>2. faults > 0 \/ InLog(log, "resolved", mine[u])
      BY <3>1 DEF ChainInv, ChainAhead
    <3> QED
      BY <1>0, <1>2, <3>1, <3>2
  <2>2. CASE u = t /\ ResolveObjective(t)
    <3>1. mine'[t] = mine[t] /\ Resolved(t, mine[t]) \in Event
      BY <2>2, EventType DEF ResolveObjective, Jump, LocalsOK, TypeOK, locals
    <3>2. CASE Fault
      BY <3>2 DEF Fault, TypeOK
    <3>3. CASE log' = Extended(Resolved(t, mine[t])) /\ Known(Resolved(t, mine[t]))
      <4>1. PICK i \in 1..Len(log) : log[i].kind = "resolved" /\ log[i].from = mine[t]
        BY <3>3 DEF Known, SameId, Resolved
      <4>2. InLog(log, "resolved", mine[t])
        BY <1>1, <4>1 DEF InLog, Tells
      <4> QED
        BY <1>2, <2>2, <3>1, <4>2
    <3>4. CASE log' = Extended(Resolved(t, mine[t])) /\ ~Known(Resolved(t, mine[t]))
      <4>1. log' = Append(log, Resolved(t, mine[t]))
        BY <3>4 DEF Extended
      <4>2. Len(log') = Len(log) + 1 /\ log'[Len(log) + 1] = Resolved(t, mine[t])
        BY <3>1, <4>1, AppendedLog DEF TypeOK
      <4>3. Len(log) + 1 \in 1..((Len(log') + 1) - 1)
        BY <1>1, <4>2
      <4> QED
        BY <2>2, <3>1, <4>2, <4>3 DEF InLog, Tells, Resolved
    <3> QED
      BY <2>2, <3>2, <3>3, <3>4 DEF ResolveObjective
  <2> QED
    BY <2>1, <2>2
<1>4. ASSUME NEW u \in Turns, pc'[u] \in {"set", "append"}, gate'[u]
      PROVE  InLog(log', "unlocked", cur'[u])
  <2>1. CASE u # t \/ ~TakeUnlock(t)
    <3>1. pc[u] \in {"set", "append"} /\ gate[u] /\ cur'[u] = cur[u]
      <4>1. CASE u # t
        BY <1>4, <4>1, StepFrame
      <4>2. CASE u = t /\ SetScene(t)
        BY <1>4, <4>2 DEF SetScene, Jump, TypeOK, locals
      <4>3. CASE u = t /\ ~SetScene(t)
        BY <1>4, <2>1, <4>3 DEF Step, Jump, TypeOK, LocalsOK, Over, locals, Start, NameScene,
           NameNone, Assemble, PreSet, PreAppend, Tour, EndLoop, Narrate, Earn, ResolveObjective,
           UnlockScene, ReadScene, AskModel, AppendMove, Die
      <4> QED
        BY <4>1, <4>2, <4>3
    <3> QED
      BY <1>2, <3>1 DEF ChainInv, ChainAhead
  <2>2. CASE u = t /\ TakeUnlock(t)
    <3>1. PICK i \in 1..Len(log) : log[i].kind = "unlocked" /\ log[i].from = cur[t]
      BY <2>2, PendingUnlock DEF TakeUnlock, TypeOK
    <3>2. InLog(log, "unlocked", cur[t])
      BY <1>1, <3>1 DEF InLog, Tells
    <3> QED
      BY <1>2, <2>2, <3>2 DEF TakeUnlock
  <2> QED
    BY <2>1, <2>2
<1> QED
  BY <1>3, <1>4 DEF ChainAhead

LEMMA ChainStep ==
  ASSUME TypeOK, LocalsOK, ChainInv, NEW t \in Turns, Step(t)
  PROVE  ChainInv'
<1>1. Len(log) \in Nat /\ Len(log) + 1 \in 1..(Len(log) + 1)
  BY DEF TypeOK
<1>2. ASSUME NEW s \in Scenes, moves'[s] > 0 PROVE InLog(log', "unlocked", s)
  <2>1. InLog(log, "unlocked", s)
    <3>1. CASE moves'[s] = moves[s]
      BY <1>2, <3>1 DEF ChainInv, ChainOfProgress
    <3>2. CASE moves'[s] # moves[s]
      <4>1. SetScene(t) /\ gate[t] /\ s = cur[t] /\ pc[t] = "set"
        BY <3>2 DEF Step, SetScene, Jump, TypeOK, past, Start, NameScene, NameNone, Assemble,
           PreSet, PreAppend, Tour, EndLoop, Narrate, Earn, ResolveObjective, UnlockScene,
           ReadScene, TakeUnlock, AskModel, AppendMove, Die
      <4> QED
        BY <4>1 DEF ChainInv, ChainAhead
    <3> QED
      BY <3>1, <3>2
  <2> QED
    BY <1>1, <2>1, ToldStays DEF InLog
<1> QED
  BY <1>2, ChainLog, ChainAheadStep DEF ChainInv, ChainOfProgress

\* Evidence, resolution, unlock, move: however turns overlap and whatever fails, each stands on the one
\* before it, and none is told twice.
THEOREM ProgressInOrder == Spec => []ChainOfProgress
<1>1. Init => ChainInv
  BY DEF Init, ChainInv, ChainOfProgress, ChainAhead
<1>2. IInv /\ ChainInv /\ [Next]_vars => ChainInv'
  <2> SUFFICES ASSUME IInv, ChainInv, [Next]_vars PROVE ChainInv'
    OBVIOUS
  <2>1. CASE UNCHANGED vars
    BY <2>1 DEF vars, locals, past, ChainInv, ChainOfProgress, ChainAhead, InLog, Tells
  <2> QED
    BY <2>1, ChainStep DEF Next, IInv
<1>3. ChainInv => ChainOfProgress
  BY DEF ChainInv
<1> QED
  BY Initial, Inductive, <1>1, <1>2, <1>3, PTL DEF Spec

=============================================================================
