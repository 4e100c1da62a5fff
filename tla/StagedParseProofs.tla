------------------------- MODULE StagedParseProofs -------------------------
(***************************************************************************)
(* What holds of StagedParse for any number of parses and faults: its      *)
(* types, that the verdict of a job is about the sheet, that the sheet and *)
(* the identity are served from their stage on, and, as long as no two     *)
(* parses overlap, that the kernel and the pack come from one reading;     *)
(* that the row of a job only advances, that every step leaves less to do, *)
(* and that no stream is left without a parse.                             *)
(***************************************************************************)
EXTENDS StagedParse, FiniteSetTheorems, TLAPS

Status_  == {"none", "queued", "running", "done", "failed"}
Rows     == [status : Status_, stage : Stages, progress : Progress]
Statuses == [stage : Stages, progress : Progress, error : {"none", "character"}]

-----------------------------------------------------------------------------
\* Steps, one parse at a time

\* Where a report leads.
LEMMA AfterReport ==
  ASSUME NEW p \in Parses, NEW r \in Reports
  PROVE  /\ After(p)[r] \in Labels
         /\ r = "begin_identity"  => After(p)[r] = "plan"
         /\ r = "end_identity"    => After(p)[r] = "begin_character"
         /\ r = "begin_character" => After(p)[r] = "read"
         /\ r = "end_character"   => After(p)[r] \in {"verdict", "begin_deep"}
         /\ r = "begin_deep"      => After(p)[r] = "rules"
         /\ r = "end_deep"        => After(p)[r] = "verdict"
         /\ r = "verdict"         => After(p)[r] = "over"
<1>1. r = "begin_identity" => After(p)[r] = "plan"
  BY DEF After, Reports
<1>2. r = "end_identity" => After(p)[r] = "begin_character"
  BY DEF After, Reports
<1>3. r = "begin_character" => After(p)[r] = "read"
  BY DEF After, Reports
<1>4. r = "end_character" => After(p)[r] \in {"verdict", "begin_deep"}
  BY DEF After, Reports
<1>5. r = "begin_deep" => After(p)[r] = "rules"
  BY DEF After, Reports
<1>6. r = "end_deep" => After(p)[r] = "verdict"
  BY DEF After, Reports
<1>7. r = "verdict" => After(p)[r] = "over"
  BY DEF After, Reports
<1> QED
  BY <1>1, <1>2, <1>3, <1>4, <1>5, <1>6, <1>7 DEF Reports, Labels

\* A report moves its parse on and changes neither progress nor error.
LEMMA ReportStep ==
  ASSUME TypeOK, NEW p \in Parses, Report(p)
  PROVE  /\ pc[p] \in Reports /\ pc' = [pc EXCEPT ![p] = After(p)[pc[p]]]
         /\ \/ row' = [row EXCEPT ![p] = [status |-> Status(p), stage |-> st[p].stage,
                                          progress |-> st[p].progress]]
            \/ row' = row
         /\ st' \in [Parses -> Statuses] /\ faults' \in 0..MaxFaults
         /\ \A q \in Parses : st'[q].progress = st[q].progress /\ st'[q].error = st[q].error
         /\ UNCHANGED <<kernel, pack, copy, stream, past>>
<1>1. st \in [Parses -> Statuses]
  BY DEF TypeOK, Statuses
<1>2. st' = [st EXCEPT ![p].stage = "character"] \/ st' = [st EXCEPT ![p].stage = "deep"]
        \/ st' = st
  BY DEF Report, Begin
<1>3. /\ st' \in [Parses -> Statuses]
      /\ \A q \in Parses : st'[q].progress = st[q].progress /\ st'[q].error = st[q].error
  BY <1>1, <1>2 DEF Statuses, Stages
<1>4. faults' \in 0..MaxFaults
  BY BoundAssumption DEF Report, Fault, TypeOK
<1> QED
  BY <1>3, <1>4 DEF Report

\* The end of a stage sets the progress of its parse alone.
LEMMA FinishStep ==
  ASSUME st \in [Parses -> Statuses], NEW p \in Parses, NEW s \in Stages, Finish(p, s)
  PROVE  /\ st' \in [Parses -> Statuses]
         /\ st'[p].error = st[p].error
         /\ s = "identity" => st'[p].progress = 5
         /\ s = "character" => st'[p].progress = 35
         /\ s = "deep" => st'[p].progress = 100
         /\ \A q \in Parses \ {p} : st'[q] = st[q]
<1>1. CASE s = "identity"
  <2>1. st' = [st EXCEPT ![p].progress = 5]
    BY <1>1 DEF Finish
  <2> QED
    BY <1>1, <2>1 DEF Statuses, Progress
<1>2. CASE s = "character"
  <2>1. st' = [st EXCEPT ![p].progress = 35]
    BY <1>2 DEF Finish
  <2> QED
    BY <1>2, <2>1 DEF Statuses, Progress
<1>3. CASE s = "deep"
  <2>1. st' = [st EXCEPT ![p].progress = 100]
    BY <1>3 DEF Finish
  <2> QED
    BY <1>3, <2>1 DEF Statuses, Progress
<1> QED
  BY <1>1, <1>2, <1>3 DEF Stages

-----------------------------------------------------------------------------
\* Types

LEMMA InitTypes == Init => TypeOK
<1> SUFFICES ASSUME Init PROVE TypeOK
  OBVIOUS
<1>1. kernel \in Kernel /\ pack \in Whose /\ copy \in [Parses -> Kernel]
  BY DEF Init, Empty, Kernel, Whose
<1>2. pc \in [Parses -> Labels]
  BY DEF Init, Labels
<1>3. row \in [Parses -> Rows] /\ st \in [Parses -> Statuses]
  BY DEF Init, Rows, Status_, Statuses, Stages, Progress
<1>4. faults \in 0..MaxFaults
  BY BoundAssumption DEF Init
<1> QED
  BY <1>1, <1>2, <1>3, <1>4 DEF Init, TypeOK, Rows, Status_, Statuses

LEMMA FaultTypes ==
  ASSUME faults \in 0..MaxFaults, Fault
  PROVE  faults' \in 0..MaxFaults
BY BoundAssumption DEF Fault

LEMMA StepTypes == TypeOK /\ [Next]_vars => TypeOK'
<1> SUFFICES ASSUME TypeOK, [Next]_vars PROVE TypeOK'
  OBVIOUS
<1>0. /\ row \in [Parses -> Rows] /\ st \in [Parses -> Statuses] /\ pc \in [Parses -> Labels]
      /\ copy \in [Parses -> Kernel] /\ kernel \in Kernel /\ Empty \in Kernel /\ None \in Whose
      /\ Parses \subseteq Whose /\ faults \in 0..MaxFaults
  BY DEF TypeOK, Rows, Status_, Statuses, Kernel, Whose, Empty
<1>1. ASSUME NEW p \in Parses, Ingest(p) PROVE TypeOK'
  BY <1>0, <1>1 DEF TypeOK, Ingest, Jump, Labels, Reports, Rows, Status_, Busy
<1>2. ASSUME NEW p \in Parses, IngestLost(p) PROVE TypeOK'
  <2>1. row' \in [Parses -> Rows]
    BY <1>0, <1>2 DEF IngestLost, Rows, Status_
  <2>2. pc' \in [Parses -> Labels] /\ faults' \in 0..MaxFaults
    BY <1>0, <1>2, FaultTypes DEF IngestLost, Jump, Labels
  <2> QED
    BY <1>2, <2>1, <2>2 DEF TypeOK, IngestLost, Rows, Status_, past
<1>3. ASSUME NEW p \in Parses, Report(p) PROVE TypeOK'
  <2>1. row' \in [Parses -> Rows]
    <3>1. Status(p) \in Status_
      BY DEF Status, Status_
    <3>2. st[p].stage \in Stages /\ st[p].progress \in Progress
      BY <1>0 DEF Statuses
    <3>3. [status |-> Status(p), stage |-> st[p].stage, progress |-> st[p].progress] \in Rows
      BY <3>1, <3>2 DEF Rows
    <3> QED
      BY <1>0, <1>3, <3>3, ReportStep
  <2>2. pc' \in [Parses -> Labels]
    BY <1>0, <1>3, ReportStep, AfterReport
  <2> QED
    BY <1>3, <2>1, <2>2, ReportStep DEF TypeOK, Rows, Status_, Statuses, past
<1>4. ASSUME NEW p \in Parses, Plan(p) PROVE TypeOK'
  <2>1. copy' \in [Parses -> Kernel] /\ vague' \subseteq Parses
    <3>1. PICK said \in BOOLEAN :
             copy' = [copy EXCEPT ![p] = [Empty EXCEPT !.identity = Or(said, p)]] /\ Vague(p, said)
      BY <1>4 DEF Plan
    <3>2. [Empty EXCEPT !.identity = Or(said, p)] \in Kernel
      BY <1>0 DEF Kernel, Empty, Or
    <3> QED
      BY <1>0, <3>1, <3>2 DEF Vague, TypeOK
  <2> QED
    BY <1>0, <1>4, <2>1 DEF TypeOK, Plan, Jump, Labels, Upserts
<1>5. ASSUME NEW p \in Parses, UpsertKernel(p) PROVE TypeOK'
  <2>1. pc' \in [Parses -> Labels] /\ st' \in [Parses -> Statuses]
    <3>1. "identity" \in Stages
      BY DEF Stages
    <3>2. CASE Jump(p, "upsert_identity", "end_identity") /\ Finish(p, "identity")
      BY <1>0, <3>1, <3>2, FinishStep DEF Jump, Labels, Reports
    <3>3. CASE Jump(p, "upsert_character", "pack") /\ UNCHANGED st
      BY <1>0, <3>3 DEF Jump, Labels
    <3>4. CASE Jump(p, "upsert_deep", "starter") /\ UNCHANGED st
      BY <1>0, <3>4 DEF Jump, Labels
    <3> QED
      BY <1>5, <3>2, <3>3, <3>4 DEF UpsertKernel
  <2>2. kernel' \in Kernel /\ lost' \subseteq Parses /\ faults' \in 0..MaxFaults
    <3>1. Upserted(p) /\ lost \subseteq Parses
      BY <1>5 DEF UpsertKernel, TypeOK
    <3>2. CASE kernel' = copy[p] /\ UNCHANGED <<lost, faults>>
      BY <1>0, <3>1, <3>2
    <3>3. CASE Fault /\ lost' = lost \cup {p} /\ UNCHANGED kernel
      BY <1>0, <3>1, <3>3, FaultTypes
    <3> QED
      BY <3>1, <3>2, <3>3 DEF Upserted
  <2> QED
    BY <1>5, <2>1, <2>2 DEF TypeOK, UpsertKernel, Statuses
<1>6. ASSUME NEW p \in Parses, ReadSheet(p) PROVE TypeOK'
  <2>1. st' \in [Parses -> Statuses]
    BY <1>0, <1>6 DEF ReadSheet, Statuses
  <2> QED
    BY <1>0, <1>6, <2>1 DEF TypeOK, ReadSheet, Jump, Labels, Reports, past, Statuses
<1>7. ASSUME NEW p \in Parses, LoadKernel(p) PROVE TypeOK'
  <2>1. [kernel EXCEPT !.sheet = p] \in Kernel /\ [Empty EXCEPT !.sheet = p] \in Kernel
    BY <1>0 DEF Kernel, Empty
  <2>2. copy' \in [Parses -> Kernel] /\ lost' \subseteq Parses /\ faults' \in 0..MaxFaults
    <3>1. lost \subseteq Parses
      BY DEF TypeOK
    <3>2. faults' \in 0..MaxFaults
      BY <1>0, <1>7, FaultTypes DEF LoadKernel
    <3> QED
      BY <1>0, <1>7, <2>1, <3>1, <3>2 DEF LoadKernel
  <2> QED
    BY <1>0, <1>7, <2>2 DEF TypeOK, LoadKernel, Jump, Labels, Upserts
<1>8. ASSUME NEW p \in Parses, UpsertPack(p) PROVE TypeOK'
  <2>1. pc' \in [Parses -> Labels] /\ st' \in [Parses -> Statuses]
    <3>1. "character" \in Stages /\ "deep" \in Stages
      BY DEF Stages
    <3>2. CASE Jump(p, "pack", "end_character") /\ Finish(p, "character")
      BY <1>0, <3>1, <3>2, FinishStep DEF Jump, Labels, Reports
    <3>3. CASE Jump(p, "starter", "end_deep") /\ Finish(p, "deep")
      BY <1>0, <3>1, <3>3, FinishStep DEF Jump, Labels, Reports
    <3> QED
      BY <1>8, <3>2, <3>3 DEF UpsertPack
  <2>2. pack' \in Whose /\ lost' \subseteq Parses /\ faults' \in 0..MaxFaults
    BY <1>0, <1>8, FaultTypes DEF UpsertPack, TypeOK
  <2> QED
    BY <1>8, <2>1, <2>2 DEF TypeOK, UpsertPack, Statuses
<1>9. ASSUME NEW p \in Parses, ReadRules(p) PROVE TypeOK'
  <2>1. copy' \in [Parses -> Kernel] /\ vague' \subseteq Parses
    <3>1. PICK read \in BOOLEAN, said \in BOOLEAN :
             /\ copy' = [copy EXCEPT ![p] = [identity |-> Or(said, p), sheet |-> p,
                                             rules |-> Or(read, p)]]
             /\ Vague(p, said)
      BY <1>9 DEF ReadRules
    <3>2. [identity |-> Or(said, p), sheet |-> p, rules |-> Or(read, p)] \in Kernel
      BY <1>0 DEF Kernel, Or
    <3> QED
      BY <1>0, <3>1, <3>2 DEF Vague, TypeOK
  <2> QED
    BY <1>0, <1>9, <2>1 DEF TypeOK, ReadRules, Jump, Labels, Upserts
<1>10. ASSUME NEW p \in Parses, Follow(p) \/ Look(p) \/ LookFails(p) PROVE TypeOK'
  BY <1>0, <1>10, FaultTypes DEF TypeOK, Follow, Look, LookFails, past
<1>11. ASSUME Crash PROVE TypeOK'
  BY <1>0, <1>11, FaultTypes DEF TypeOK, Crash, Labels, past
<1>12. ASSUME UNCHANGED vars PROVE TypeOK'
  BY <1>12 DEF TypeOK, vars, past
<1> QED
  BY <1>1, <1>2, <1>3, <1>4, <1>5, <1>6, <1>7, <1>8, <1>9, <1>10, <1>11, <1>12
  DEF Next, ParseStep

\* Every variable keeps its type.
THEOREM TypeCorrect == Spec => []TypeOK
BY InitTypes, StepTypes, PTL DEF Spec

-----------------------------------------------------------------------------
\* Where a parse is and how far it has got

Early  == {"idle", "begin_identity", "plan", "upsert_identity"}
Middle == {"end_identity", "begin_character", "read", "load", "upsert_character", "pack"}
Deep   == {"end_character", "begin_deep", "rules", "upsert_deep", "starter"}
Made   == Deep \cup {"pack", "end_deep", "verdict", "over"}

\* The progress of p follows from its place, its error is that of the character stage, and the
\* row says nothing that is ahead of it.
Placed(p) ==
    /\ st[p].progress = 0 => row[p].progress = 0
    /\ st[p].progress = 5 => row[p].progress \in {0, 5}
    /\ st[p].progress = 35 => row[p].progress \in {0, 5, 35}
    /\ pc[p] \in Early => st[p].progress = 0 /\ st[p].error = "none"
    /\ pc[p] \in Middle => st[p].progress = 5 /\ st[p].error = "none"
    /\ pc[p] \in Deep => st[p].progress = 35 /\ st[p].error = "none"
    /\ pc[p] = "end_deep" => st[p].progress = 100 /\ st[p].error = "none"
    /\ pc[p] = "verdict" => st[p].progress # 0
    /\ pc[p] = "verdict" /\ st[p].error = "none" => st[p].progress \in {35, 100}
    /\ st[p].error # "none" => st[p].progress = 5 /\ pc[p] \in {"verdict", "over"}
    /\ row[p].status = "failed" => st[p].error # "none"
    /\ row[p].status = "done" => row[p].progress \in {35, 100}

\* What p is about to write is its own, but for what it found in the kernel.
Own(p) ==
    /\ pc[p] = "upsert_identity" =>
          copy[p].sheet = None /\ copy[p].rules = None /\ copy[p].identity \in {p, None}
    /\ pc[p] \in {"upsert_character", "upsert_deep"} => copy[p].sheet = p
    /\ pc[p] = "upsert_deep" => copy[p].identity \in {p, None} /\ copy[p].rules \in {p, None}

\* Only a parse that has read a sheet has written one.
Author(p) ==
    /\ kernel.sheet = p \/ pack = p => pc[p] \in Made /\ st[p].error = "none"
    /\ st[p].progress \in {35, 100} /\ p \notin lost => pack # None

Ordered == \A p \in Parses : Placed(p) /\ Own(p) /\ Author(p)

LEMMA InitOrdered == Init => Ordered
BY ParsesAssumption
DEF Init, Ordered, Placed, Own, Author, Empty, Early, Middle, Deep, Made

\* A parse whose row, place, state and copy stay is as it was.
LEMMA Unmoved ==
  ASSUME NEW q \in Parses, Placed(q), Own(q), row'[q] = row[q], pc'[q] = pc[q], st'[q] = st[q],
         copy'[q] = copy[q]
  PROVE  Placed(q)' /\ Own(q)'
BY DEF Placed, Own

\* The work of a stage.
LEMMA StageOrdered ==
  ASSUME TypeOK, Ordered, NEW p \in Parses,
         Plan(p) \/ ReadSheet(p) \/ LoadKernel(p) \/ ReadRules(p)
  PROVE  Ordered'
<1>0. /\ st \in [Parses -> Statuses] /\ pc \in [Parses -> Labels] /\ copy \in [Parses -> Kernel]
      /\ None \notin Parses
  BY ParsesAssumption DEF TypeOK, Statuses
<1>1. /\ kernel' = kernel /\ pack' = pack /\ row' = row /\ lost \subseteq lost'
  BY DEF Plan, ReadSheet, LoadKernel, ReadRules, past
<1>2. ASSUME NEW q \in Parses \ {p} PROVE Placed(q)' /\ Own(q)' /\ Author(q)'
  <2>1. pc'[q] = pc[q] /\ st'[q] = st[q] /\ copy'[q] = copy[q] /\ row'[q] = row[q]
    BY <1>0, <1>1 DEF Plan, ReadSheet, LoadKernel, ReadRules, Jump
  <2>2. Placed(q) /\ Own(q) /\ Author(q)
    BY DEF Ordered
  <2> QED
    BY <1>1, <2>1, <2>2, Unmoved DEF Author
<1>3. Placed(p) /\ Own(p) /\ Author(p)
  BY DEF Ordered
<1>4. Placed(p)' /\ Own(p)' /\ Author(p)'
  <2>1. CASE Plan(p)
    <3>1. PICK said \in BOOLEAN :
             copy' = [copy EXCEPT ![p] = [Empty EXCEPT !.identity = Or(said, p)]]
      BY <2>1 DEF Plan
    <3>2. /\ copy'[p].sheet = None /\ copy'[p].rules = None /\ copy'[p].identity \in {p, None}
          /\ pc[p] = "plan" /\ pc'[p] = "upsert_identity" /\ st' = st
      BY <1>0, <2>1, <3>1 DEF Plan, Jump, Empty, Or
    <3> QED
      BY <1>1, <1>3, <3>2 DEF Placed, Own, Author, Early, Middle, Deep, Made
  <2>2. CASE ReadSheet(p)
    <3>1. /\ pc[p] = "read" /\ copy' = copy
          /\ \/ pc'[p] = "load" /\ st' = st
             \/ /\ pc'[p] = "verdict" /\ st'[p].error = "character"
                /\ st'[p].progress = st[p].progress
      BY <1>0, <2>2 DEF ReadSheet, Jump, Statuses
    <3> QED
      BY <1>1, <1>3, <3>1 DEF Placed, Own, Author, Early, Middle, Deep, Made
  <2>3. CASE LoadKernel(p)
    <3>1. /\ copy'[p].sheet = p /\ st' = st
          /\ pc[p] = "load" /\ pc'[p] = "upsert_character"
      BY <1>0, <2>3 DEF LoadKernel, Jump, Empty, TypeOK, Kernel
    <3> QED
      BY <1>1, <1>3, <3>1 DEF Placed, Own, Author, Early, Middle, Deep, Made
  <2>4. CASE ReadRules(p)
    <3>1. PICK read \in BOOLEAN, said \in BOOLEAN :
             copy' = [copy EXCEPT ![p] = [identity |-> Or(said, p), sheet |-> p,
                                          rules |-> Or(read, p)]]
      BY <2>4 DEF ReadRules
    <3>2. /\ copy'[p].sheet = p /\ copy'[p].identity \in {p, None} /\ copy'[p].rules \in {p, None}
          /\ pc[p] = "rules" /\ pc'[p] = "upsert_deep" /\ st' = st
      BY <1>0, <2>4, <3>1 DEF ReadRules, Jump, Or
    <3> QED
      BY <1>1, <1>3, <3>2 DEF Placed, Own, Author, Early, Middle, Deep, Made
  <2> QED
    BY <2>1, <2>2, <2>3, <2>4
<1> QED
  BY <1>2, <1>4 DEF Ordered

\* The writes of a stage.
LEMMA UpsertOrdered ==
  ASSUME TypeOK, Ordered, NEW p \in Parses, UpsertKernel(p) \/ UpsertPack(p)
  PROVE  Ordered'
<1>0. /\ st \in [Parses -> Statuses] /\ pc \in [Parses -> Labels] /\ copy \in [Parses -> Kernel]
      /\ None \notin Parses
      /\ "identity" \in Stages /\ "character" \in Stages /\ "deep" \in Stages
  BY ParsesAssumption DEF TypeOK, Statuses, Stages
<1>1. row' = row /\ copy' = copy /\ lost \subseteq lost'
  BY DEF UpsertKernel, UpsertPack, Upserted
<1>2. Placed(p) /\ Own(p) /\ Author(p)
  BY DEF Ordered
<1>3. /\ kernel' = kernel \/ kernel' = copy[p]
      /\ pack' = pack \/ pack' = p
      /\ kernel' # kernel => pc[p] \in Upserts
      /\ pack' # pack => pc[p] \in {"pack", "starter"}
  BY DEF UpsertKernel, UpsertPack, Upserted, Jump, Upserts
<1>4. kernel' # kernel => kernel'.sheet \in {p, None}
  BY <1>2, <1>3 DEF Own, Upserts
<1>5. /\ pc' = [pc EXCEPT ![p] = pc'[p]] /\ \A q \in Parses \ {p} : st'[q] = st[q]
  <2>1. CASE UpsertKernel(p)
    BY <1>0, <2>1, FinishStep DEF UpsertKernel, Jump
  <2>2. CASE UpsertPack(p)
    BY <1>0, <2>2, FinishStep DEF UpsertPack, Jump
  <2> QED
    BY <2>1, <2>2
<1>6. ASSUME NEW q \in Parses \ {p} PROVE Placed(q)' /\ Own(q)' /\ Author(q)'
  <2>1. pc'[q] = pc[q] /\ st'[q] = st[q] /\ copy'[q] = copy[q] /\ row'[q] = row[q]
    BY <1>0, <1>1, <1>5
  <2>2. Placed(q) /\ Own(q) /\ Author(q)
    BY DEF Ordered
  <2>3. kernel'.sheet = q \/ pack' = q => kernel.sheet = q \/ pack = q
    BY <1>0, <1>3, <1>4
  <2>4. Author(q)'
    BY <1>0, <1>1, <1>3, <2>1, <2>2, <2>3 DEF Author
  <2> QED
    BY <2>1, <2>2, <2>4, Unmoved
<1>7. Placed(p)' /\ Own(p)' /\ Author(p)'
  <2>1. CASE Jump(p, "upsert_identity", "end_identity") /\ Finish(p, "identity") /\ Upserted(p)
                /\ pack' = pack
    <3>1. /\ pc[p] = "upsert_identity" /\ pc'[p] = "end_identity"
          /\ st'[p].progress = 5 /\ st'[p].error = st[p].error
      BY <1>0, <2>1, FinishStep DEF Jump
    <3>2. kernel.sheet # p /\ pack # p
      BY <1>2, <3>1 DEF Author, Made, Deep
    <3>3. kernel'.sheet # p
      BY <1>0, <1>2, <1>3, <3>1, <3>2 DEF Own
    <3> QED
      BY <1>1, <1>2, <2>1, <3>1, <3>2, <3>3 DEF Placed, Own, Author, Early, Middle, Deep, Made
  <2>2. CASE \/ Jump(p, "upsert_character", "pack") /\ UNCHANGED st /\ pack' = pack
             \/ Jump(p, "upsert_deep", "starter") /\ UNCHANGED st /\ pack' = pack
    <3>1. /\ \/ pc[p] = "upsert_character" /\ pc'[p] = "pack"
             \/ pc[p] = "upsert_deep" /\ pc'[p] = "starter"
          /\ st' = st /\ pack' = pack
      BY <1>0, <2>2 DEF Jump
    <3> QED
      BY <1>1, <1>2, <3>1 DEF Placed, Own, Author, Early, Middle, Deep, Made
  <2>3. CASE UpsertPack(p)
    <3>1. /\ st'[p].error = st[p].error
          /\ \/ pc[p] = "pack" /\ pc'[p] = "end_character" /\ st'[p].progress = 35
             \/ pc[p] = "starter" /\ pc'[p] = "end_deep" /\ st'[p].progress = 100
      BY <1>0, <2>3, FinishStep DEF UpsertPack, Jump
    <3>2. p \notin lost' => pack' = p
      BY <2>3 DEF UpsertPack
    <3> QED
      BY <1>0, <1>1, <1>2, <3>1, <3>2 DEF Placed, Own, Author, Early, Middle, Deep, Made
  <2> QED
    BY <2>1, <2>2, <2>3 DEF UpsertKernel
<1> QED
  BY <1>6, <1>7 DEF Ordered

\* A report.
LEMMA ReportOrdered ==
  ASSUME TypeOK, Ordered, NEW p \in Parses, Report(p)
  PROVE  Ordered'
<1>0. /\ row \in [Parses -> Rows] /\ st \in [Parses -> Statuses] /\ pc \in [Parses -> Labels]
  BY DEF TypeOK, Statuses, Rows, Status_
<1>1. /\ pc[p] \in Reports /\ pc'[p] = After(p)[pc[p]]
      /\ \/ row'[p] = [status |-> Status(p), stage |-> st[p].stage, progress |-> st[p].progress]
         \/ row'[p] = row[p]
      /\ \A q \in Parses : st'[q].progress = st[q].progress /\ st'[q].error = st[q].error
      /\ kernel' = kernel /\ pack' = pack /\ copy' = copy /\ lost' = lost
  BY <1>0, ReportStep DEF past
<1>2. ASSUME NEW q \in Parses \ {p} PROVE Placed(q)' /\ Own(q)' /\ Author(q)'
  <2>1. pc'[q] = pc[q] /\ row'[q] = row[q]
    BY <1>0, ReportStep
  <2>2. Placed(q) /\ Own(q) /\ Author(q)
    BY DEF Ordered
  <2> QED
    BY <1>1, <2>1, <2>2 DEF Placed, Own, Author
<1>3. Placed(p) /\ Own(p) /\ Author(p) /\ st[p] \in Statuses
  BY <1>0 DEF Ordered
<1>4. /\ pc[p] = "begin_identity" => pc'[p] = "plan"
      /\ pc[p] = "end_identity" => pc'[p] = "begin_character"
      /\ pc[p] = "begin_character" => pc'[p] = "read"
      /\ pc[p] = "end_character" => pc'[p] \in {"verdict", "begin_deep"}
      /\ pc[p] = "begin_deep" => pc'[p] = "rules"
      /\ pc[p] = "end_deep" => pc'[p] = "verdict"
      /\ pc[p] = "verdict" => pc'[p] = "over"
  BY <1>1, AfterReport
<1>5. Placed(p)'
  <2>0. st[p].progress \in Progress /\ row[p].progress \in Progress
    BY <1>0 DEF Rows, Statuses
  <2>1. /\ row'[p].status = "failed" => row[p].status = "failed" \/ st[p].error # "none"
        /\ row'[p].status = "done" => row'[p].progress \in {35, 100}
        /\ row'[p].progress \in {row[p].progress, st[p].progress}
    <3>1. CASE row'[p] = [status |-> Status(p), stage |-> st[p].stage,
                          progress |-> st[p].progress]
      <4>1. row'[p].status = Status(p) /\ row'[p].progress = st[p].progress
        BY <3>1
      <4>2. Status(p) = "failed" => st[p].error # "none"
        BY DEF Status
      <4>3. Status(p) = "done" => st[p].progress \in {35, 100}
        <5>1. Status(p) = "done" =>
                 pc[p] = "verdict" /\ (st[p].error = "none" \/ ~(st[p].progress < 35))
          BY DEF Status
        <5>2. ~(st[p].progress < 35) => st[p].progress \in {35, 100}
          BY <2>0 DEF Progress
        <5>3. pc[p] = "verdict" /\ st[p].error = "none" => st[p].progress \in {35, 100}
          BY <1>3 DEF Placed
        <5> QED
          BY <5>1, <5>2, <5>3
      <4> QED
        BY <4>1, <4>2, <4>3
    <3>2. CASE row'[p] = row[p]
      BY <1>3, <3>2 DEF Placed
    <3> QED
      BY <1>1, <3>1, <3>2
  <2> QED
    BY <1>1, <1>3, <1>4, <2>1 DEF Placed, Reports, Early, Middle, Deep
<1>6. Own(p)' /\ Author(p)'
  BY <1>1, <1>3, <1>4 DEF Own, Author, Reports, Made, Deep
<1> QED
  BY <1>2, <1>5, <1>6 DEF Ordered

LEMMA StepOrdered == TypeOK /\ Ordered /\ [Next]_vars => Ordered'
<1> SUFFICES ASSUME TypeOK, Ordered, [Next]_vars PROVE Ordered'
  OBVIOUS
<1>0. /\ row \in [Parses -> Rows] /\ pc \in [Parses -> Labels]
  BY DEF TypeOK, Rows, Status_
<1>1. ASSUME NEW p \in Parses, Ingest(p) \/ IngestLost(p) PROVE Ordered'
  <2>1. /\ pc[p] = "idle" /\ pc'[p] \in {"begin_identity", "over"}
        /\ row'[p].progress = row[p].progress
        /\ row'[p].status = "queued" \/ row'[p].status = row[p].status
        /\ \A q \in Parses \ {p} : pc'[q] = pc[q] /\ row'[q] = row[q]
        /\ UNCHANGED <<kernel, pack, st, copy, lost>>
    BY <1>0, <1>1 DEF Ingest, IngestLost, Jump, Rows, past
  <2>2. ASSUME NEW q \in Parses PROVE Placed(q) /\ Own(q) /\ Author(q)
    BY DEF Ordered
  <2>3. ASSUME NEW q \in Parses \ {p} PROVE Placed(q)' /\ Own(q)' /\ Author(q)'
    BY <2>1, <2>2, Unmoved DEF Author
  <2>4. Placed(p)' /\ Own(p)' /\ Author(p)'
    BY <2>1, <2>2 DEF Placed, Own, Author, Early, Middle, Deep, Made
  <2> QED
    BY <2>3, <2>4 DEF Ordered
<1>2. ASSUME NEW p \in Parses, Follow(p) \/ Look(p) \/ LookFails(p) PROVE Ordered'
  BY <1>2 DEF Ordered, Placed, Own, Author, Follow, Look, LookFails, past
<1>3. ASSUME Crash PROVE Ordered'
  <2>1. /\ \A q \in Parses : pc'[q] = pc[q] \/ pc'[q] = "over"
        /\ UNCHANGED <<kernel, pack, row, st, copy, lost>>
    BY <1>0, <1>3 DEF Crash, past
  <2>2. ASSUME NEW q \in Parses PROVE Placed(q) /\ Own(q) /\ Author(q)
    BY DEF Ordered
  <2>3. ASSUME NEW q \in Parses PROVE Placed(q)' /\ Own(q)' /\ Author(q)'
    BY <2>1, <2>2 DEF Placed, Own, Author, Early, Middle, Deep, Made
  <2> QED
    BY <2>3 DEF Ordered
<1>4. ASSUME UNCHANGED vars PROVE Ordered'
  BY <1>4 DEF Ordered, Placed, Own, Author, vars, past
<1> QED
  BY <1>1, <1>2, <1>3, <1>4, StageOrdered, UpsertOrdered, ReportOrdered DEF Next, ParseStep

\* The verdict of a job is about its sheet (run): a failed job has written none, and a job that
\* is done has got as far as its sheet.
THEOREM VerdictHolds == Spec => []VerdictTrue
<1>1. TypeOK /\ Ordered => VerdictTrue
  <2> SUFFICES ASSUME TypeOK, Ordered, NEW p \in Parses
               PROVE  /\ row[p].status = "failed" => kernel.sheet # p /\ pack # p
                      /\ row[p].status = "done" =>
                            row[p].progress >= 35 /\ (p \notin lost => pack # None)
    BY DEF VerdictTrue
  <2>1. Placed(p) /\ Author(p)
    BY DEF Ordered
  <2>2. row[p].status = "failed" => kernel.sheet # p /\ pack # p
    BY <2>1 DEF Placed, Author
  <2>3. ASSUME row[p].status = "done" PROVE row[p].progress \in {35, 100}
    BY <2>1, <2>3 DEF Placed
  <2>4. row[p].progress \in {35, 100} => st[p].progress \in {35, 100}
    <3>1. st[p].progress \in Progress
      BY DEF TypeOK
    <3> QED
      BY <2>1, <3>1 DEF Placed, Progress
  <2> QED
    BY <2>1, <2>2, <2>3, <2>4 DEF Author
<1> QED
  BY <1>1, InitTypes, StepTypes, InitOrdered, StepOrdered, PTL DEF Spec

-----------------------------------------------------------------------------
\* What is served

\* Which rows and parts a step may touch: the kernel is written by a parse at an upsert, and what
\* it is about to write, its place and its state are changed by itself, or by a crash.
LEMMA Writers ==
  ASSUME TypeOK, NEW p \in Parses, Ingest(p) \/ IngestLost(p) \/ ParseStep(p)
  PROVE  /\ \A q \in Parses \ {p} : pc'[q] = pc[q] /\ copy'[q] = copy[q]
                                      /\ st'[q].progress = st[q].progress
         /\ vague \subseteq vague' /\ lost \subseteq lost'
         /\ kernel' = kernel \/ (pc[p] \in Upserts /\ kernel' = copy[p])
<1>1. /\ pc \in [Parses -> Labels] /\ st \in [Parses -> Statuses] /\ copy \in [Parses -> Kernel]
      /\ "identity" \in Stages /\ "character" \in Stages /\ "deep" \in Stages
  BY DEF TypeOK, Statuses, Stages
<1>2. CASE Ingest(p) \/ IngestLost(p)
  BY <1>1, <1>2 DEF Ingest, IngestLost, Jump, past
<1>3. CASE Report(p)
  BY <1>1, <1>3, ReportStep DEF past
<1>4. CASE Plan(p) \/ ReadSheet(p) \/ LoadKernel(p) \/ ReadRules(p)
  <2>1. vague \subseteq vague' /\ lost \subseteq lost' /\ kernel' = kernel
    BY <1>4 DEF Plan, ReadSheet, LoadKernel, ReadRules, Vague, past
  <2> QED
    BY <1>1, <1>4, <2>1 DEF Plan, ReadSheet, LoadKernel, ReadRules, Jump
<1>5. CASE UpsertKernel(p)
  <2>1. \A q \in Parses \ {p} : st'[q].progress = st[q].progress
    BY <1>1, <1>5, FinishStep DEF UpsertKernel
  <2> QED
    BY <1>1, <1>5, <2>1 DEF UpsertKernel, Upserted, Jump, Upserts
<1>6. CASE UpsertPack(p)
  <2>1. \A q \in Parses \ {p} : st'[q].progress = st[q].progress
    BY <1>1, <1>6, FinishStep DEF UpsertPack
  <2> QED
    BY <1>1, <1>6, <2>1 DEF UpsertPack, Jump
<1> QED
  BY <1>2, <1>3, <1>4, <1>5, <1>6 DEF ParseStep

\* How far a parse gets in one of its steps.
LEMMA OwnProgress ==
  ASSUME TypeOK, NEW p \in Parses, Ingest(p) \/ IngestLost(p) \/ ParseStep(p)
  PROVE  \/ st'[p].progress = st[p].progress
         \/ pc[p] = "upsert_identity" /\ pc'[p] = "end_identity" /\ Upserted(p)
              /\ st'[p].progress = 5
         \/ pc[p] = "pack" /\ st'[p].progress = 35 /\ kernel' = kernel
         \/ pc[p] = "starter" /\ st'[p].progress = 100 /\ kernel' = kernel
<1>1. /\ pc \in [Parses -> Labels] /\ st \in [Parses -> Statuses]
      /\ "identity" \in Stages /\ "character" \in Stages /\ "deep" \in Stages
  BY DEF TypeOK, Statuses, Stages
<1>2. CASE Ingest(p) \/ IngestLost(p)
  BY <1>2 DEF Ingest, IngestLost
<1>3. CASE Report(p)
  BY <1>3, ReportStep
<1>4. CASE Plan(p) \/ ReadSheet(p) \/ LoadKernel(p) \/ ReadRules(p)
  BY <1>1, <1>4 DEF Plan, ReadSheet, LoadKernel, ReadRules, Statuses
<1>5. CASE UpsertKernel(p)
  BY <1>1, <1>5, FinishStep DEF UpsertKernel, Jump
<1>6. CASE UpsertPack(p)
  BY <1>1, <1>6, FinishStep DEF UpsertPack, Jump
<1> QED
  BY <1>2, <1>3, <1>4, <1>5, <1>6 DEF ParseStep

\* The steps of clients, crashes and stutters write nothing.
LEMMA Others ==
  ASSUME TypeOK, [Next]_vars
  PROVE  \/ \E p \in Parses : Ingest(p) \/ IngestLost(p) \/ ParseStep(p)
         \/ /\ UNCHANGED <<kernel, pack, row, st, copy, past>>
            /\ \A q \in Parses : pc'[q] = pc[q] \/ (pc[q] # "idle" /\ pc'[q] = "over")
BY DEF Next, Follow, Look, LookFails, Crash, vars, TypeOK

\* As long as every model has given an identity and every statement has worked, the kernel has an
\* identity from the first stage of a parse on, and so has what is written over it.
Identified ==
    vague = {} /\ lost = {} =>
        \A p \in Parses :
            /\ st[p].progress # 0 => kernel.identity # None
            /\ pc[p] \in Upserts => copy[p].identity # None

LEMMA InitIdentified == Init => Identified
BY DEF Init, Identified, Upserts

LEMMA StepIdentified == TypeOK /\ Ordered /\ Identified /\ [Next]_vars => Identified'
<1> SUFFICES ASSUME TypeOK, Ordered, Identified, [Next]_vars, vague' = {}, lost' = {}
             PROVE  \A p \in Parses : /\ st'[p].progress # 0 => kernel'.identity # None
                                      /\ pc'[p] \in Upserts => copy'[p].identity # None
  BY DEF Identified
<1>0. /\ pc \in [Parses -> Labels] /\ st \in [Parses -> Statuses] /\ copy \in [Parses -> Kernel]
      /\ None \notin Parses
  BY ParsesAssumption DEF TypeOK, Statuses
<1>1. ASSUME NEW p \in Parses, Ingest(p) \/ IngestLost(p) \/ ParseStep(p), NEW q \in Parses
      PROVE  /\ st'[q].progress # 0 => kernel'.identity # None
             /\ pc'[q] \in Upserts => copy'[q].identity # None
  <2>1. vague = {} /\ lost = {}
    BY <1>1, Writers
  <2>2. \A r \in Parses : /\ st[r].progress # 0 => kernel.identity # None
                          /\ pc[r] \in Upserts => copy[r].identity # None
    BY <2>1 DEF Identified
  <2>3. kernel'.identity = kernel.identity \/ kernel'.identity # None
    BY <1>1, <2>2, Writers
  <2>4. st'[q].progress # 0 => kernel'.identity # None
    <3>1. CASE q # p
      BY <1>1, <2>2, <2>3, <3>1, Writers
    <3>2. CASE q = p
      <4>1. CASE pc[p] = "upsert_identity" /\ Upserted(p)
        BY <2>2, <4>1 DEF Upserted, Upserts
      <4>2. CASE pc[p] \in {"pack", "starter"} /\ kernel' = kernel
        BY <2>2, <4>2 DEF Ordered, Placed, Middle, Deep
      <4> QED
        BY <1>1, <2>2, <2>3, <3>2, <4>1, <4>2, OwnProgress
    <3> QED
      BY <3>1, <3>2
  <2>5. pc'[q] \in Upserts => copy'[q].identity # None
    <3>1. CASE q # p
      BY <1>1, <2>2, <3>1, Writers
    <3>2. CASE q = p /\ Plan(p)
      <4>1. PICK said \in BOOLEAN :
               copy' = [copy EXCEPT ![p] = [Empty EXCEPT !.identity = Or(said, p)]]
                 /\ Vague(p, said)
        BY <3>2 DEF Plan
      <4>2. said = TRUE
        BY <4>1 DEF Vague
      <4> QED
        BY <1>0, <3>2, <4>1, <4>2 DEF Empty, Or
    <3>3. CASE q = p /\ LoadKernel(p)
      <4>1. copy' = [copy EXCEPT ![p] = [kernel EXCEPT !.sheet = p]] /\ pc[p] = "load"
        BY <3>3 DEF LoadKernel, Jump
      <4>2. kernel.identity # None
        BY <2>2, <4>1 DEF Ordered, Placed, Middle
      <4> QED
        BY <1>0, <3>3, <4>1, <4>2 DEF TypeOK, Kernel
    <3>4. CASE q = p /\ ReadRules(p)
      <4>1. PICK read \in BOOLEAN, said \in BOOLEAN :
               copy' = [copy EXCEPT ![p] = [identity |-> Or(said, p), sheet |-> p,
                                            rules |-> Or(read, p)]]
                 /\ Vague(p, said)
        BY <3>4 DEF ReadRules
      <4>2. said = TRUE
        BY <4>1 DEF Vague
      <4> QED
        BY <1>0, <3>4, <4>1, <4>2 DEF Or
    <3>5. CASE q = p /\ Report(p)
      <4>1. pc[p] \in Reports /\ pc'[p] = After(p)[pc[p]]
        BY <1>0, <3>5, ReportStep
      <4>2. pc'[p] \notin Upserts
        BY <4>1, AfterReport DEF Reports, Upserts
      <4> QED
        BY <3>5, <4>2
    <3>6. CASE q = p /\ (Ingest(p) \/ IngestLost(p) \/ UpsertKernel(p) \/ ReadSheet(p)
                           \/ UpsertPack(p))
      <4>1. pc'[p] \notin Upserts
        BY <1>0, <3>6 DEF Ingest, IngestLost, UpsertKernel, ReadSheet, UpsertPack, Jump, Upserts
      <4> QED
        BY <3>6, <4>1
    <3> QED
      BY <1>1, <3>1, <3>2, <3>3, <3>4, <3>5, <3>6 DEF ParseStep
  <2> QED
    BY <2>4, <2>5
<1>2. ASSUME UNCHANGED <<kernel, pack, row, st, copy, past>>,
             \A q \in Parses : pc'[q] = pc[q] \/ (pc[q] # "idle" /\ pc'[q] = "over"),
             NEW q \in Parses
      PROVE  /\ st'[q].progress # 0 => kernel'.identity # None
             /\ pc'[q] \in Upserts => copy'[q].identity # None
  BY <1>2 DEF Identified, Upserts, past
<1> QED
  BY <1>1, <1>2, Others

\* From 5 percent on the identity is served (run), through every overlap of parses.
THEOREM IdentityKept == Spec => []IdentityServed
<1>1. TypeOK /\ Ordered /\ Identified => IdentityServed
  <2> SUFFICES ASSUME TypeOK, Ordered, Identified, NEW p \in Parses, row[p].progress >= 5,
                      vague = {}, lost = {}
               PROVE  kernel.identity # None
    BY DEF IdentityServed
  <2>1. row[p].progress \in Progress /\ Placed(p)
    BY DEF TypeOK, Ordered
  <2>2. row[p].progress # 0
    BY <2>1
  <2>3. st[p].progress # 0
    BY <2>1, <2>2 DEF Placed
  <2> QED
    BY <2>3 DEF Identified
<1> QED
  BY <1>1, InitTypes, StepTypes, InitOrdered, StepOrdered, InitIdentified, StepIdentified, PTL
  DEF Spec

\* s has replaced the kernel and has not come to its sheet.
Bare(s) == st[s].progress \in {0, 5} /\ pc[s] \notin Early \cup {"pack"}

\* As long as every statement has worked, a sheet that was reached is there, unless a later parse
\* has replaced the kernel and has not come to its own.
Sheeted ==
    lost = {} /\ (\E p \in Parses : st[p].progress \in {35, 100} \/ pc[p] = "pack") =>
        kernel.sheet # None \/ \E s \in Parses : Bare(s)

LEMMA InitSheeted == Init => Sheeted
BY DEF Init, Sheeted

\* A step of a parse other than the writing of the kernel leads neither back nor to "pack".
LEMMA Onwards ==
  ASSUME TypeOK, NEW p \in Parses, Ingest(p) \/ IngestLost(p) \/ ParseStep(p), ~UpsertKernel(p)
  PROVE  /\ pc'[p] # "pack"
         /\ pc[p] \notin Early => pc'[p] \notin Early
<1>0. pc \in [Parses -> Labels]
  BY DEF TypeOK
<1>1. CASE Report(p)
  <2>1. pc[p] \in Reports /\ pc'[p] = After(p)[pc[p]]
    BY <1>0, <1>1, ReportStep
  <2> QED
    BY <2>1, AfterReport DEF Reports, Early
<1>2. CASE ~Report(p)
  BY <1>0, <1>2 DEF Ingest, IngestLost, ParseStep, Plan, ReadSheet, LoadKernel, ReadRules,
                    UpsertPack, Jump, Early
<1> QED
  BY <1>1, <1>2

LEMMA StepSheeted == TypeOK /\ Ordered /\ Sheeted /\ [Next]_vars => Sheeted'
<1> SUFFICES ASSUME TypeOK, Ordered, Sheeted, [Next]_vars, lost' = {},
                    NEW q \in Parses, st'[q].progress \in {35, 100} \/ pc'[q] = "pack"
             PROVE  kernel'.sheet # None \/ \E s \in Parses : Bare(s)'
  BY DEF Sheeted
<1>0. pc \in [Parses -> Labels] /\ None \notin Parses
  BY ParsesAssumption DEF TypeOK
<1>1. ASSUME NEW p \in Parses, UpsertKernel(p)
      PROVE  kernel'.sheet # None \/ \E s \in Parses : Bare(s)'
  <2>1. kernel' = copy[p]
    BY <1>1 DEF UpsertKernel, Upserted
  <2>2. CASE pc[p] = "upsert_identity"
    <3>1. st'[p].progress = 5 /\ pc'[p] = "end_identity"
      <4>1. Finish(p, "identity") /\ "identity" \in Stages
        BY <1>0, <1>1, <2>2 DEF UpsertKernel, Jump, Stages
      <4>2. st \in [Parses -> Statuses]
        BY DEF TypeOK, Statuses
      <4> QED
        BY <1>0, <1>1, <2>2, <4>1, <4>2, FinishStep DEF UpsertKernel, Jump
    <3> QED
      BY <3>1 DEF Bare, Early
  <2>3. CASE pc[p] \in {"upsert_character", "upsert_deep"}
    BY <1>0, <2>1, <2>3 DEF Ordered, Own
  <2> QED
    BY <1>1, <2>2, <2>3 DEF UpsertKernel, Jump
<1>2. ASSUME NEW p \in Parses, Ingest(p) \/ IngestLost(p) \/ ParseStep(p), ~UpsertKernel(p)
      PROVE  kernel'.sheet # None \/ \E s \in Parses : Bare(s)'
  <2>1. lost = {} /\ kernel' = kernel
    <3>1. kernel' = kernel
      BY <1>2 DEF Ingest, IngestLost, ParseStep, Report, Plan, ReadSheet, LoadKernel, ReadRules,
                  UpsertPack
    <3> QED
      BY <1>2, <3>1, Writers
  <2>2. st[q].progress \in {35, 100} \/ pc[q] = "pack"
    <3>1. CASE q # p
      BY <1>2, <3>1, Writers
    <3>2. CASE q = p
      <4>1. pc[p] = "starter" => st[p].progress = 35
        BY DEF Ordered, Placed, Deep
      <4>2. pc'[p] # "pack"
        BY <1>2, Onwards
      <4>3. ~(pc[p] = "upsert_identity" /\ st'[p].progress = 5)
        BY <3>2, <4>2
      <4> QED
        BY <1>2, <3>2, <4>1, <4>2, <4>3, OwnProgress
    <3> QED
      BY <3>1, <3>2
  <2>3. ASSUME NEW s \in Parses, Bare(s) PROVE Bare(s)'
    <3>1. CASE s # p
      BY <1>2, <2>3, <3>1, Writers DEF Bare
    <3>2. CASE s = p
      <4>1. pc'[p] \notin Early \cup {"pack"}
        BY <1>2, <2>3, <3>2, Onwards DEF Bare
      <4>2. st'[p].progress = st[p].progress
        <5>1. pc[p] \notin {"upsert_identity", "pack"}
          BY <2>3, <3>2 DEF Bare, Early
        <5>2. pc[p] # "starter"
          BY <2>3, <3>2 DEF Bare, Ordered, Placed, Deep
        <5> QED
          BY <1>2, <5>1, <5>2, OwnProgress
      <4> QED
        BY <2>3, <3>2, <4>1, <4>2 DEF Bare
    <3> QED
      BY <3>1, <3>2
  <2> QED
    BY <2>1, <2>2, <2>3 DEF Sheeted
<1>3. ASSUME UNCHANGED <<kernel, pack, row, st, copy, past>>,
             \A r \in Parses : pc'[r] = pc[r] \/ (pc[r] # "idle" /\ pc'[r] = "over"),
             \A r \in Parses : Bare(r) => Bare(r)'
      PROVE  kernel'.sheet # None \/ \E s \in Parses : Bare(s)'
  BY <1>3 DEF Sheeted, past
<1>4. ASSUME UNCHANGED <<kernel, pack, row, st, copy, past>>,
             \A r \in Parses : pc'[r] = pc[r] \/ (pc[r] # "idle" /\ pc'[r] = "over")
      PROVE  \A r \in Parses : Bare(r) => Bare(r)'
  BY <1>4 DEF Bare, Early
<1> QED
  BY <1>1, <1>2, <1>3, <1>4, Others

\* From 35 percent on a sheet is served (run), except where a later parse replaced the kernel.
THEOREM SheetKept == Spec => []SheetServed
<1>1. TypeOK /\ Ordered /\ Sheeted => SheetServed
  <2> SUFFICES ASSUME TypeOK, Ordered, Sheeted, NEW p \in Parses, row[p].progress >= 35, lost = {}
               PROVE  kernel.sheet # None \/ \E q \in Parses : Replaced(q)
    BY DEF SheetServed
  <2>1. row[p].progress \in Progress /\ st[p].progress \in Progress /\ Placed(p)
    BY DEF TypeOK, Ordered
  <2>2. row[p].progress \in {35, 100}
    BY <2>1 DEF Progress
  <2>3. st[p].progress \in {35, 100}
    BY <2>1, <2>2 DEF Placed, Progress
  <2>4. \A s \in Parses : Bare(s) => Replaced(s)
    BY DEF Bare, Replaced, Early
  <2> QED
    BY <2>3, <2>4 DEF Sheeted
<1> QED
  BY <1>1, InitTypes, StepTypes, InitOrdered, StepOrdered, InitSheeted, StepSheeted, PTL DEF Spec

-----------------------------------------------------------------------------
\* One reading

\* The kernel and the pack while p works alone.
Alone(p) ==
    /\ pc[p] \in Middle \cup Deep \cup {"end_deep"} => Parts(kernel) \subseteq {p}
    /\ pc[p] \in Middle \ {"pack"} => kernel.sheet = None
    /\ pc[p] = "pack" => kernel.sheet = p
    /\ pc[p] \in Deep \cup {"end_deep"} => kernel.sheet = p /\ pack = p
    /\ pc[p] = "upsert_character" => Parts(copy[p]) \subseteq {p}

Paired ==
    \/ kernel.sheet \in {None, pack}
    \/ \E p \in Parses :
          p = kernel.sheet /\ (pc[p] = "pack" \/ (pc[p] = "over" /\ st[p].progress \in {0, 5}))

Sourced ==
    raced = FALSE /\ lost = {} =>
        /\ \A p, q \in Busy : p = q
        /\ \E w \in Whose : Parts(kernel) \subseteq {w}
        /\ \A p \in Parses : Alone(p)
        /\ Paired

LEMMA InitSourced == Init => Sourced
BY DEF Init, Sourced, Busy, Parts, Empty, Whose, Alone, Paired, Middle, Deep

\* A parse that works alone leaves one reading behind.
LEMMA AloneStep ==
  ASSUME TypeOK, Ordered, NEW p \in Parses, ParseStep(p), lost' = {}, lost = {},
         \A q \in Busy : q = p, Alone(p), Paired, \E w \in Whose : Parts(kernel) \subseteq {w}
  PROVE  /\ \E w \in Whose : Parts(kernel') \subseteq {w}
         /\ Alone(p)' /\ Paired'
<1>0. /\ pc \in [Parses -> Labels] /\ st \in [Parses -> Statuses] /\ copy \in [Parses -> Kernel]
      /\ None \notin Parses /\ Parses \subseteq Whose /\ Placed(p) /\ Own(p) /\ Author(p)
  BY ParsesAssumption DEF TypeOK, Statuses, Whose, Ordered
<1>1. CASE UpsertKernel(p)
  <2>1. kernel' = copy[p] /\ pack' = pack /\ copy' = copy
    BY <1>1 DEF UpsertKernel, Upserted
  <2>2. Parts(copy[p]) \subseteq {p}
    BY <1>0, <1>1 DEF UpsertKernel, Jump, Alone, Own, Parts
  <2>3. \/ pc[p] = "upsert_identity" /\ pc'[p] = "end_identity" /\ kernel'.sheet = None
        \/ pc[p] = "upsert_character" /\ pc'[p] = "pack" /\ kernel'.sheet = p
        \/ pc[p] = "upsert_deep" /\ pc'[p] = "starter" /\ kernel'.sheet = p /\ pack' = p
    BY <1>0, <1>1, <2>1 DEF UpsertKernel, Jump, Own, Alone, Deep
  <2>4. Alone(p)'
    BY <2>1, <2>2, <2>3 DEF Alone, Middle, Deep, Parts
  <2>5. Paired'
    BY <2>3 DEF Paired
  <2> QED
    BY <1>0, <2>1, <2>2, <2>4, <2>5
<1>2. CASE UpsertPack(p)
  <2>1. /\ kernel' = kernel /\ pack' = p /\ copy' = copy /\ kernel.sheet = p
        /\ pc[p] \in {"pack", "starter"} /\ pc'[p] \in {"end_character", "end_deep"}
        /\ Parts(kernel) \subseteq {p}
    BY <1>0, <1>2 DEF UpsertPack, Jump, Alone, Middle, Deep
  <2>2. Alone(p)'
    BY <2>1 DEF Alone, Middle, Deep, Parts
  <2>3. Paired'
    BY <2>1 DEF Paired
  <2> QED
    BY <1>0, <2>1, <2>2, <2>3
<1>3. CASE LoadKernel(p)
  <2>1. /\ copy' = [copy EXCEPT ![p] = [kernel EXCEPT !.sheet = p]] /\ kernel' = kernel
        /\ pack' = pack /\ pc[p] = "load" /\ pc' = [pc EXCEPT ![p] = "upsert_character"] /\ st' = st
    BY <1>3 DEF LoadKernel, Jump
  <2>2. Parts(kernel) \subseteq {p} /\ kernel.sheet = None
    BY <2>1 DEF Alone, Middle
  <2>3. copy'[p] = [kernel EXCEPT !.sheet = p] /\ kernel \in Kernel
    BY <1>0, <2>1 DEF TypeOK
  <2>4. copy'[p].identity = kernel.identity /\ copy'[p].rules = kernel.rules /\ copy'[p].sheet = p
    BY <2>3 DEF Kernel
  <2>5. Parts(copy'[p]) \subseteq {p}
    BY <2>2, <2>4 DEF Parts
  <2>6. pc'[p] = "upsert_character"
    BY <1>0, <2>1
  <2>7. Alone(p)'
    BY <2>1, <2>2, <2>5, <2>6 DEF Alone, Middle, Deep, Parts
  <2> QED
    BY <1>0, <2>1, <2>2, <2>7 DEF Paired
<1>4. CASE Plan(p) \/ ReadSheet(p) \/ ReadRules(p) \/ Report(p)
  <2>1. kernel' = kernel /\ pack' = pack
    BY <1>4 DEF Plan, ReadSheet, ReadRules, Report
  <2>2. \/ pc[p] \in Early /\ pc'[p] \in Early
        \/ /\ pc[p] \in Middle \ {"pack"}
           /\ pc'[p] \in (Middle \ {"pack", "upsert_character"}) \cup {"verdict"}
        \/ pc[p] \in Deep \cup {"end_deep"} /\ pc'[p] \in Deep \cup {"verdict"}
        \/ pc[p] = "verdict" /\ pc'[p] = "over"
    <3>1. CASE Report(p)
      <4>1. pc[p] \in Reports /\ pc'[p] = After(p)[pc[p]]
        BY <1>0, <3>1, ReportStep
      <4> QED
        BY <4>1, AfterReport DEF Reports, Early, Middle, Deep
    <3>2. CASE Plan(p) \/ ReadSheet(p) \/ ReadRules(p)
      BY <1>0, <3>2 DEF Plan, ReadSheet, ReadRules, Jump, Early, Middle, Deep
    <3> QED
      BY <1>4, <3>1, <3>2
  <2>3. Alone(p)'
    BY <2>1, <2>2 DEF Alone, Early, Middle, Deep, Parts
  <2>4. Paired'
    <3>1. CASE kernel.sheet \in {None, pack}
      BY <2>1, <3>1 DEF Paired
    <3>2. ASSUME NEW r \in Parses, r = kernel.sheet,
                 pc[r] = "pack" \/ (pc[r] = "over" /\ st[r].progress \in {0, 5})
          PROVE Paired'
      <4>1. r # p
        BY <2>2, <3>2 DEF Early, Middle, Deep
      <4>2. pc'[r] = pc[r] /\ st'[r].progress = st[r].progress
        BY <4>1, Writers
      <4> QED
        BY <2>1, <3>2, <4>2 DEF Paired
    <3> QED
      BY <3>1, <3>2 DEF Paired
  <2> QED
    BY <2>1, <2>3, <2>4
<1> QED
  BY <1>1, <1>2, <1>3, <1>4 DEF ParseStep

LEMMA StepSourced == TypeOK /\ Ordered /\ Sourced /\ [Next]_vars => Sourced'
<1> SUFFICES ASSUME TypeOK, Ordered, Sourced, [Next]_vars, raced' = FALSE, lost' = {}
             PROVE  /\ \A p, q \in Busy' : p = q
                    /\ \E w \in Whose : Parts(kernel') \subseteq {w}
                    /\ \A p \in Parses : Alone(p)'
                    /\ Paired'
  BY DEF Sourced
<1>0. /\ pc \in [Parses -> Labels] /\ Busy = {p \in Parses : pc[p] \notin {"idle", "over"}}
      /\ Busy' = {p \in Parses : pc'[p] \notin {"idle", "over"}}
  BY DEF TypeOK, Busy
<1>a. raced \in BOOLEAN
  BY DEF TypeOK
<1>1. ASSUME NEW p \in Parses, Ingest(p) \/ IngestLost(p)
      PROVE  /\ \A r, q \in Busy' : r = q
             /\ \E w \in Whose : Parts(kernel') \subseteq {w}
             /\ \A q \in Parses : Alone(q)'
             /\ Paired'
  <2>1. /\ UNCHANGED <<kernel, pack, st, copy, lost>>
        /\ \/ pc' = [pc EXCEPT ![p] = "begin_identity"] /\ Busy = {}
           \/ pc' = [pc EXCEPT ![p] = "over"]
        /\ pc[p] = "idle"
    <3>1. CASE Ingest(p)
      <4>1. raced' = (raced \/ Busy # {})
        BY <3>1 DEF Ingest
      <4>2. Busy = {}
        BY <4>1, Zenon
      <4> QED
        BY <3>1, <4>2 DEF Ingest, Jump
    <3>2. CASE IngestLost(p)
      BY <3>2 DEF IngestLost, Jump, past
    <3> QED
      BY <1>1, <3>1, <3>2
  <2>2. raced = FALSE
    <3>1. CASE Ingest(p)
      <4>1. raced' = (raced \/ Busy # {})
        BY <3>1 DEF Ingest
      <4> QED
        BY <1>a, <4>1, Zenon
    <3>2. CASE IngestLost(p)
      BY <3>2 DEF IngestLost, past
    <3> QED
      BY <1>1, <3>1, <3>2
  <2>3. /\ \A r, q \in Busy : r = q
        /\ \E w \in Whose : Parts(kernel) \subseteq {w}
        /\ \A q \in Parses : Alone(q)
        /\ Paired
    BY <2>1, <2>2 DEF Sourced
  <2>4. \A r, q \in Busy' : r = q
    BY <1>0, <2>1, <2>3
  <2>5. ASSUME NEW q \in Parses PROVE Alone(q)'
    BY <1>0, <2>1, <2>3 DEF Alone, Middle, Deep, Parts
  <2>6. Paired'
    BY <1>0, <2>1, <2>3 DEF Paired
  <2> QED
    BY <2>1, <2>3, <2>4, <2>5, <2>6
<1>2. ASSUME NEW p \in Parses, ParseStep(p)
      PROVE  /\ \A r, q \in Busy' : r = q
             /\ \E w \in Whose : Parts(kernel') \subseteq {w}
             /\ \A q \in Parses : Alone(q)'
             /\ Paired'
  <2>1. raced' = raced
    BY <1>2, ReportStep DEF ParseStep, Plan, UpsertKernel, ReadSheet, LoadKernel, UpsertPack,
                            ReadRules, past
  <2>2. lost = {}
    BY <1>2, Writers
  <2>3. /\ \A r, q \in Busy : r = q
        /\ \E w \in Whose : Parts(kernel) \subseteq {w}
        /\ \A q \in Parses : Alone(q)
        /\ Paired
    BY <2>1, <2>2 DEF Sourced
  <2>4. pc[p] \notin {"idle", "over"}
    BY <1>2 DEF ParseStep, Report, Plan, UpsertKernel, ReadSheet, LoadKernel, UpsertPack,
                ReadRules, Jump, Reports
  <2>5. \A q \in Busy : q = p
    BY <1>0, <2>3, <2>4
  <2>6. \A q \in Parses \ {p} : pc[q] \in {"idle", "over"} /\ pc'[q] = pc[q]
    BY <1>0, <1>2, <2>5, Writers
  <2>7. \A q \in Parses \ {p} : Alone(q)'
    BY <2>6 DEF Alone, Middle, Deep
  <2> QED
    BY <1>0, <1>2, <2>2, <2>3, <2>5, <2>6, <2>7, AloneStep
<1>3. ASSUME UNCHANGED <<kernel, pack, row, st, copy, past>>,
             \A r \in Parses : pc'[r] = pc[r] \/ (pc[r] # "idle" /\ pc'[r] = "over")
      PROVE  /\ \A r, q \in Busy' : r = q
             /\ \E w \in Whose : Parts(kernel') \subseteq {w}
             /\ \A q \in Parses : Alone(q)'
             /\ Paired'
  <2>1. raced = FALSE /\ lost = {}
    BY <1>3 DEF past
  <2>2. /\ \A r, q \in Busy : r = q
        /\ \E w \in Whose : Parts(kernel) \subseteq {w}
        /\ \A q \in Parses : Alone(q)
        /\ Paired
    BY <2>1 DEF Sourced
  <2>3. \A r, q \in Busy' : r = q
    BY <1>0, <1>3, <2>2
  <2>4. ASSUME NEW q \in Parses PROVE Alone(q)'
    BY <1>3, <2>2 DEF Alone, Middle, Deep, Parts
  <2>5. Paired'
    <3>1. \A r \in Parses : pc[r] = "pack" => st[r].progress \in {0, 5}
      BY DEF Ordered, Placed, Middle
    <3> QED
      BY <1>3, <2>2, <3>1 DEF Paired
  <2> QED
    BY <1>3, <2>2, <2>3, <2>4, <2>5
<1> QED
  BY <1>1, <1>2, <1>3, Others

\* Parses that follow each other leave a kernel of one reading (run).
THEOREM ReadOnce == Spec => []OneSource
<1>1. Sourced => OneSource
  <2> SUFFICES ASSUME Sourced, ~raced, lost = {} PROVE Cardinality(Parts(kernel)) <= 1
    BY DEF OneSource
  <2>1. PICK w \in Whose : Parts(kernel) \subseteq {w}
    BY DEF Sourced
  <2>2. Cardinality({w}) = 1 /\ IsFiniteSet({w})
    BY FS_Singleton
  <2>3. Cardinality(Parts(kernel)) <= Cardinality({w})
    BY <2>1, <2>2, FS_Subset
  <2> QED
    BY <2>2, <2>3
<1> QED
  BY <1>1, InitTypes, StepTypes, InitOrdered, StepOrdered, InitSourced, StepSourced, PTL DEF Spec

\* The sheet of the kernel and the pack are of the same reading (run).
THEOREM PackFollows == Spec => []PackOfSheet
<1>1. TypeOK /\ Sourced => PackOfSheet
  <2> SUFFICES ASSUME TypeOK, Sourced, ~raced, lost = {}
               PROVE  \/ kernel.sheet \in {None, pack}
                      \/ \E p \in Parses :
                            /\ p = kernel.sheet
                            /\ pc[p] = "pack" \/ (pc[p] = "over" /\ st[p].progress < 35)
    BY DEF PackOfSheet
  <2>1. Paired
    BY DEF Sourced
  <2> QED
    BY <2>1 DEF Paired
<1> QED
  BY <1>1, InitTypes, StepTypes, InitOrdered, StepOrdered, InitSourced, StepSourced, PTL DEF Spec

-----------------------------------------------------------------------------
\* Every parse comes to an end, and every stream

Distance(l) ==
    CASE l = "idle"             -> 17
      [] l = "begin_identity"   -> 16
      [] l = "plan"             -> 15
      [] l = "upsert_identity"  -> 14
      [] l = "end_identity"     -> 13
      [] l = "begin_character"  -> 12
      [] l = "read"             -> 11
      [] l = "load"             -> 10
      [] l = "upsert_character" -> 9
      [] l = "pack"             -> 8
      [] l = "end_character"    -> 7
      [] l = "begin_deep"       -> 6
      [] l = "rules"            -> 5
      [] l = "upsert_deep"      -> 4
      [] l = "starter"          -> 3
      [] l = "end_deep"         -> 2
      [] l = "verdict"          -> 1
      [] OTHER                  -> 0

Ahead(s) == CASE s = "none" -> 2 [] s = "open" -> 1 [] OTHER -> 0

\* How many steps a parse and its stream can take at most.
WorkOf(p) == Distance(pc[p]) + Ahead(stream[p])

\* The places a parse can go to, in the order of the stages.
Path ==
    {<<"idle", "begin_identity">>, <<"idle", "over">>, <<"begin_identity", "plan">>,
     <<"plan", "upsert_identity">>, <<"upsert_identity", "end_identity">>,
     <<"end_identity", "begin_character">>, <<"begin_character", "read">>, <<"read", "load">>,
     <<"read", "verdict">>, <<"load", "upsert_character">>, <<"upsert_character", "pack">>,
     <<"pack", "end_character">>, <<"end_character", "begin_deep">>,
     <<"end_character", "verdict">>, <<"begin_deep", "rules">>, <<"rules", "upsert_deep">>,
     <<"upsert_deep", "starter">>, <<"starter", "end_deep">>, <<"end_deep", "verdict">>,
     <<"verdict", "over">>}

LEMMA ParsePath ==
  ASSUME TypeOK, NEW p \in Parses, Ingest(p) \/ IngestLost(p) \/ ParseStep(p)
  PROVE  /\ <<pc[p], pc'[p]>> \in Path /\ \A q \in Parses \ {p} : pc'[q] = pc[q]
         /\ stream' = stream
<1>t. pc \in [Parses -> Labels]
  BY DEF TypeOK
<1>1. CASE Ingest(p) \/ IngestLost(p)
  BY <1>t, <1>1 DEF Ingest, IngestLost, Jump, Path
<1>2. CASE Report(p)
  <2>1. pc[p] \in Reports /\ pc' = [pc EXCEPT ![p] = After(p)[pc[p]]] /\ stream' = stream
    BY <1>2 DEF Report
  <2>2. pc'[p] = After(p)[pc[p]] /\ \A q \in Parses \ {p} : pc'[q] = pc[q]
    BY <1>t, <2>1
  <2>3. <<pc[p], After(p)[pc[p]]>> \in Path
    BY <2>1, AfterReport DEF Reports, Path
  <2> QED
    BY <2>1, <2>2, <2>3
<1>3. CASE Plan(p) \/ UpsertKernel(p)
  BY <1>t, <1>3 DEF Plan, UpsertKernel, Jump, Path
<1>4. CASE ReadSheet(p) \/ LoadKernel(p)
  BY <1>t, <1>4 DEF ReadSheet, LoadKernel, Jump, Path
<1>5. CASE UpsertPack(p) \/ ReadRules(p)
  BY <1>t, <1>5 DEF UpsertPack, ReadRules, Jump, Path
<1> QED
  BY <1>1, <1>2, <1>3, <1>4, <1>5 DEF ParseStep

LEMMA PathNears == \A l, m : <<l, m>> \in Path => Distance(m) < Distance(l)
BY DEF Path, Distance

LEMMA WorkBounds ==
  /\ \A l : Distance(l) \in 0 .. 17
  /\ \A s : Ahead(s) \in 0 .. 2
BY DEF Distance, Ahead

\* Every step but a crash leaves one parse and its stream with less to do and no other with
\* more, whatever models give and however parses overlap; a crash ends the parses and uses up a
\* fault. So between two crashes n parses take at most 19 * n steps (run, ingest_events).
ParsesNear ==
    [][\/ \E p \in Parses : /\ WorkOf(p)' < WorkOf(p)
                            /\ \A q \in Parses \ {p} : WorkOf(q)' = WorkOf(q)
       \/ Crash /\ \A p \in Parses : Distance(pc[p])' <= Distance(pc[p])]_vars

\* There is a measure of what is left of a parse and its stream, and every step lowers it.
THEOREM EveryStepNears == Spec => ParsesNear
<1>1. ASSUME TypeOK, [Next]_vars
      PROVE  [\/ \E p \in Parses : /\ WorkOf(p)' < WorkOf(p)
                                   /\ \A q \in Parses \ {p} : WorkOf(q)' = WorkOf(q)
              \/ Crash /\ \A p \in Parses : Distance(pc[p])' <= Distance(pc[p])]_vars
  <2>1. ASSUME NEW p \in Parses, Ingest(p) \/ IngestLost(p) \/ ParseStep(p)
        PROVE  WorkOf(p)' < WorkOf(p) /\ \A q \in Parses \ {p} : WorkOf(q)' = WorkOf(q)
    <3>1. Distance(pc'[p]) < Distance(pc[p]) /\ stream' = stream
      BY <1>1, <2>1, ParsePath, PathNears
    <3>2. WorkOf(p)' < WorkOf(p)
      BY <3>1, WorkBounds DEF WorkOf
    <3> QED
      BY <1>1, <2>1, <3>2, ParsePath DEF WorkOf
  <2>2. ASSUME NEW p \in Parses, Follow(p) \/ Look(p) \/ LookFails(p)
        PROVE  WorkOf(p)' < WorkOf(p) /\ \A q \in Parses \ {p} : WorkOf(q)' = WorkOf(q)
    <3>t. stream \in [Parses -> {"none", "open", "ended"}]
      BY <1>1 DEF TypeOK
    <3>1. /\ pc' = pc /\ <<stream[p], stream'[p]>> \in {<<"none", "open">>, <<"open", "ended">>}
          /\ \A q \in Parses \ {p} : stream'[q] = stream[q]
      BY <3>t, <2>2 DEF Follow, Look, LookFails
    <3>2. Ahead(stream'[p]) < Ahead(stream[p])
      BY <3>1 DEF Ahead
    <3>3. WorkOf(p)' < WorkOf(p)
      BY <3>1, <3>2, WorkBounds DEF WorkOf
    <3> QED
      BY <3>1, <3>3 DEF WorkOf
  <2>3. ASSUME Crash PROVE \A p \in Parses : Distance(pc[p])' <= Distance(pc[p])
    <3>1. \A p \in Parses : pc'[p] = pc[p] \/ pc'[p] = "over"
      BY <2>3 DEF Crash
    <3>2. Distance("over") = 0
      BY DEF Distance
    <3> QED
      BY <3>1, <3>2, WorkBounds
  <2> QED
    BY <1>1, <2>1, <2>2, <2>3 DEF Next
<1> QED
  BY <1>1, InitTypes, StepTypes, PTL DEF Spec, ParsesNear

-----------------------------------------------------------------------------
\* What the client sees of a parse

StageRank(s)  == CASE s = "identity" -> 0 [] s = "character" -> 1 [] OTHER -> 2
StatusRank(s) == CASE s = "none" -> 0 [] s = "queued" -> 1 [] s = "running" -> 2 [] OTHER -> 3

First  == {"idle", "begin_identity", "plan", "upsert_identity", "end_identity"}
Second == {"begin_character", "read", "load", "upsert_character", "pack", "end_character"}

\* Where a parse is, what it says of itself and what its row says of it; f is whether something
\* has failed.
Said(l, s, r, f) ==
    /\ l \in First => s.stage = "identity"
    /\ l \in Second => s.stage = "character"
    /\ l = "idle" => r.status = "none"
    /\ r.status \in {"done", "failed"} => l = "over"
    /\ l = "over" /\ ~f => r.status \in {"done", "failed"}
    /\ StageRank(r.stage) <= StageRank(s.stage)

SaidInv == \A p \in Parses : /\ Said(pc[p], st[p], row[p], faults # 0)
                             /\ stream[p] # "none" => row[p].status # "none"

\* A row that goes on, or stays.
Onward(r, s) ==
    /\ r.status \in {"done", "failed"} => s = r
    /\ StatusRank(r.status) <= StatusRank(s.status)
    /\ StageRank(r.stage) <= StageRank(s.stage)
    /\ r.progress <= s.progress

LEMMA Same == ASSUME NEW r \in Rows PROVE Onward(r, r)
BY DEF Onward, Rows, StatusRank, StageRank, Stages, Progress

\* The work of a stage leaves the row alone, and what the parse says of itself but for its
\* progress and its error.
LEMMA StageSays ==
  ASSUME TypeOK, NEW p \in Parses,
         \/ Plan(p) \/ UpsertKernel(p) \/ ReadSheet(p) \/ LoadKernel(p) \/ UpsertPack(p)
         \/ ReadRules(p)
  PROVE  row' = row /\ \A q \in Parses : st'[q].stage = st[q].stage
<1>t. st \in [Parses -> Statuses]
  BY DEF TypeOK, Statuses
<1>1. row' = row
  BY DEF Plan, UpsertKernel, ReadSheet, LoadKernel, UpsertPack, ReadRules
<1>2. \/ st' = st
      \/ \E n \in Progress : st' = [st EXCEPT ![p].progress = n]
      \/ st' = [st EXCEPT ![p].error = "character"]
  BY DEF Plan, UpsertKernel, ReadSheet, LoadKernel, UpsertPack, ReadRules, Finish, Progress
<1>3. \A q \in Parses : st'[q].stage = st[q].stage
  BY <1>t, <1>2 DEF Statuses
<1> QED
  BY <1>1, <1>3

LEMMA StageGoesOn ==
  ASSUME TypeOK, SaidInv, NEW p \in Parses,
         \/ Plan(p) \/ UpsertKernel(p) \/ ReadSheet(p) \/ LoadKernel(p) \/ UpsertPack(p)
         \/ ReadRules(p)
  PROVE  Said(pc'[p], st'[p], row'[p], faults' # 0)
<1>1. /\ row' = row /\ st'[p].stage = st[p].stage /\ Said(pc[p], st[p], row[p], faults # 0)
  BY StageSays DEF SaidInv
<1>2. /\ pc'[p] \in First => pc[p] \in First
      /\ pc'[p] \in Second => pc[p] \in Second
      /\ pc'[p] # "idle" /\ pc[p] # "over" /\ pc'[p] # "over"
  BY DEF Plan, UpsertKernel, ReadSheet, LoadKernel, UpsertPack, ReadRules, Jump, TypeOK, First,
     Second
<1> QED
  BY <1>1, <1>2 DEF Said

LEMMA ReportGoesOn ==
  ASSUME TypeOK, Ordered, SaidInv, NEW p \in Parses, Report(p)
  PROVE  Said(pc'[p], st'[p], row'[p], faults' # 0) /\ Onward(row[p], row'[p])
<1>t. /\ st[p] \in Statuses /\ st'[p] \in Statuses /\ row[p] \in Rows /\ pc \in [Parses -> Labels]
      /\ st \in [Parses -> Statuses] /\ row \in [Parses -> Rows]
      /\ faults \in Nat
  <2>1. st' \in [Parses -> Statuses]
    BY ReportStep
  <2> QED
    BY <2>1, BoundAssumption DEF TypeOK, Statuses, Rows, Status_
<1>i. Said(pc[p], st[p], row[p], faults # 0) /\ Placed(p)
  BY DEF SaidInv, Ordered
<1>1. /\ pc[p] \in Reports /\ pc'[p] = After(p)[pc[p]]
      /\ row'[p] = [status |-> Status(p), stage |-> st[p].stage, progress |-> st[p].progress]
            \/ (row'[p] = row[p] /\ faults' # 0)
  <2>1. pc[p] \in Reports /\ pc'[p] = After(p)[pc[p]]
    BY <1>t DEF Report
  <2> DEFINE new == [status |-> Status(p), stage |-> st[p].stage, progress |-> st[p].progress]
  <2>2. row' = [row EXCEPT ![p] = new] \/ (row' = row /\ faults' = faults + 1)
    BY DEF Report, Fault
  <2> HIDE DEF new
  <2>3. row'[p] = new \/ (row'[p] = row[p] /\ faults' # 0)
    BY <1>t, <2>2
  <2> QED
    BY <2>1, <2>3 DEF new
<1>2. /\ pc[p] \notin {"end_identity", "end_character"} => st'[p].stage = st[p].stage
      /\ pc[p] = "end_identity" => st'[p].stage = "character"
      /\ pc[p] = "end_character" => st'[p].stage \in {"deep", st[p].stage}
      /\ pc[p] = "end_character" /\ pc'[p] # "verdict" => st'[p].stage = "deep"
  BY <1>t, <1>1, AfterReport DEF Report, Begin, Statuses, After
<1>3. /\ pc[p] # "verdict" => Status(p) = "running"
      /\ pc[p] = "verdict" => Status(p) \in {"done", "failed"}
  BY DEF Status
<1>4. row[p].status \notin {"done", "failed"} /\ pc[p] # "idle"
  BY <1>i, <1>1 DEF Said, Reports
<1>5. StageRank(st[p].stage) <= StageRank(st'[p].stage)
  BY <1>i, <1>t, <1>1, <1>2 DEF Said, First, Second, StageRank, Statuses, Stages
<1>6. <<pc[p], pc'[p]>> \in Path
  BY ParsePath DEF ParseStep
<1>7. pc[p] # "verdict" => pc'[p] # "over"
  BY <1>1, <1>6 DEF Path, Reports
<1>8. /\ pc'[p] \in First => st'[p].stage = "identity"
      /\ pc'[p] \in Second => st'[p].stage = "character"
      /\ pc'[p] # "idle"
  BY <1>i, <1>1, <1>2, <1>6 DEF Said, First, Second, Path, Reports
<1>9. row[p].progress <= st[p].progress
  BY <1>i, <1>t DEF Placed, Statuses, Rows, Progress
<1>10. CASE row'[p] = row[p] /\ faults' # 0
  <2>1. StageRank(row[p].stage) <= StageRank(st'[p].stage)
    BY <1>i, <1>5 DEF Said, StageRank
  <2> QED
    BY <1>t, <1>4, <1>8, <1>10, <2>1, Same DEF Said
<1>11. CASE row'[p] = [status |-> Status(p), stage |-> st[p].stage, progress |-> st[p].progress]
  <2>1. /\ row'[p].status = Status(p) /\ row'[p].stage = st[p].stage
        /\ row'[p].progress = st[p].progress
    BY <1>11
  <2>2. StatusRank(row[p].status) <= StatusRank(row'[p].status)
    BY <1>t, <1>3, <1>4, <2>1 DEF StatusRank, Rows, Status_
  <2>3. pc[p] = "verdict" => pc'[p] = "over"
    BY <1>1, AfterReport DEF Reports
  <2>4. Onward(row[p], row'[p])
    BY <1>4, <1>9, <1>i, <2>1, <2>2 DEF Onward, Said
  <2>5. Said(pc'[p], st'[p], row'[p], faults' # 0)
    BY <1>3, <1>5, <1>7, <1>8, <2>1, <2>3 DEF Said
  <2> QED
    BY <2>4, <2>5
<1> QED
  BY <1>1, <1>10, <1>11

LEMMA SaidStep ==
  ASSUME TypeOK, Ordered, SaidInv, [Next]_vars
  PROVE  SaidInv' /\ \A p \in Parses : Onward(row[p], row'[p])
<1>t. /\ st \in [Parses -> Statuses] /\ row \in [Parses -> Rows] /\ pc \in [Parses -> Labels]
      /\ stream \in [Parses -> {"none", "open", "ended"}] /\ faults \in Nat
  BY BoundAssumption DEF TypeOK, Statuses, Rows, Status_
<1>s. \A p \in Parses : Onward(row[p], row[p])
  BY <1>t, Same
<1>f. faults' = faults \/ faults' = faults + 1
  BY DEF Next, Ingest, IngestLost, ParseStep, Report, Plan, UpsertKernel, Upserted, ReadSheet,
     LoadKernel, UpsertPack, ReadRules, Follow, Look, LookFails, Crash, Fault, vars
\* A parse that takes no step.
<1>o. ASSUME NEW q \in Parses, row'[q] = row[q], st'[q].stage = st[q].stage, pc'[q] = pc[q]
      PROVE  Said(pc'[q], st'[q], row'[q], faults' # 0) /\ Onward(row[q], row'[q])
  BY <1>o, <1>f, <1>s, <1>t DEF SaidInv, Said
<1>r. SUFFICES /\ \A p \in Parses : /\ Said(pc'[p], st'[p], row'[p], faults' # 0)
                                    /\ Onward(row[p], row'[p])
               /\ \A p \in Parses : stream'[p] # "none" =>
                      stream[p] # "none" \/ row[p].status # "none"
  <2> SUFFICES ASSUME NEW p \in Parses, Onward(row[p], row'[p]), stream'[p] # "none",
                      stream[p] # "none" \/ row[p].status # "none"
               PROVE  row'[p].status # "none"
    BY <1>r DEF SaidInv
  <2>1. row[p].status # "none" /\ row[p].status \in Status_
    BY <1>t DEF SaidInv, Rows
  <2> QED
    BY <2>1 DEF Onward, StatusRank, Status_
<1>1. ASSUME NEW p \in Parses, Ingest(p) \/ IngestLost(p)
      PROVE  /\ \A q \in Parses : /\ Said(pc'[q], st'[q], row'[q], faults' # 0)
                                  /\ Onward(row[q], row'[q])
             /\ stream' = stream
  <2>1. /\ st' = st /\ stream' = stream
        /\ \A q \in Parses \ {p} : row'[q] = row[q] /\ pc'[q] = pc[q]
    BY <1>t, <1>1 DEF Ingest, IngestLost, Jump
  <2>2. /\ pc[p] = "idle" /\ row[p].status = "none" /\ st[p].stage = "identity"
        /\ StageRank(row[p].stage) <= StageRank(st[p].stage)
    BY <1>1 DEF Ingest, IngestLost, Jump, SaidInv, Said, First
  <2>3. /\ pc'[p] = "begin_identity" \/ (pc'[p] = "over" /\ faults' # 0)
        /\ row'[p].status \in {"queued", row[p].status}
        /\ row'[p].stage = row[p].stage /\ row'[p].progress = row[p].progress
    BY <1>t, <1>1 DEF Ingest, IngestLost, Jump, Fault, Rows
  <2>4. Said(pc'[p], st'[p], row'[p], faults' # 0)
    BY <2>1, <2>2, <2>3 DEF Said, First, Second
  <2>5. Onward(row[p], row'[p])
    BY <1>t, <2>2, <2>3 DEF Onward, StatusRank, StageRank, Rows, Progress
  <2> QED
    BY <1>o, <2>1, <2>4, <2>5
<1>2. ASSUME NEW p \in Parses, Report(p)
      PROVE  /\ \A q \in Parses : /\ Said(pc'[q], st'[q], row'[q], faults' # 0)
                                  /\ Onward(row[q], row'[q])
             /\ stream' = stream
  <2>1. /\ \A q \in Parses \ {p} : row'[q] = row[q] /\ pc'[q] = pc[q] /\ st'[q] = st[q]
        /\ stream' = stream
    BY <1>t, <1>2 DEF Report, Begin
  <2> QED
    BY <1>o, <1>2, <2>1, ReportGoesOn
<1>3. ASSUME NEW p \in Parses,
             \/ Plan(p) \/ UpsertKernel(p) \/ ReadSheet(p) \/ LoadKernel(p) \/ UpsertPack(p)
             \/ ReadRules(p)
      PROVE  /\ \A q \in Parses : /\ Said(pc'[q], st'[q], row'[q], faults' # 0)
                                  /\ Onward(row[q], row'[q])
             /\ stream' = stream
  <2>1. /\ row' = row /\ \A q \in Parses : st'[q].stage = st[q].stage
        /\ \A q \in Parses \ {p} : pc'[q] = pc[q]
        /\ stream' = stream
    BY <1>3, StageSays, ParsePath DEF ParseStep
  <2> QED
    BY <1>o, <1>s, <1>3, <2>1, StageGoesOn
<1>4. ASSUME NEW p \in Parses, Follow(p) \/ Look(p) \/ LookFails(p)
      PROVE  /\ \A q \in Parses : /\ Said(pc'[q], st'[q], row'[q], faults' # 0)
                                  /\ Onward(row[q], row'[q])
             /\ \A q \in Parses : stream'[q] # "none" =>
                    stream[q] # "none" \/ row[q].status # "none"
  BY <1>t, <1>o, <1>4 DEF Follow, Look, LookFails
<1>5. ASSUME Crash
      PROVE  /\ \A q \in Parses : /\ Said(pc'[q], st'[q], row'[q], faults' # 0)
                                  /\ Onward(row[q], row'[q])
             /\ \A q \in Parses : stream'[q] = "none"
  <2>1. /\ \A q \in Parses : pc'[q] = pc[q] \/ (pc'[q] = "over" /\ faults' # 0)
        /\ row' = row /\ st' = st /\ \A q \in Parses : stream'[q] = "none"
    BY <1>t, <1>5 DEF Crash, Fault
  <2>2. ASSUME NEW q \in Parses, pc'[q] = "over", faults' # 0
        PROVE  Said(pc'[q], st'[q], row'[q], faults' # 0)
    BY <2>1, <2>2 DEF Said, SaidInv, First, Second
  <2> QED
    BY <1>o, <1>s, <2>1, <2>2
<1>6. CASE UNCHANGED vars
  BY <1>6, <1>o DEF vars
<1> QED
  BY <1>1, <1>2, <1>3, <1>4, <1>5, <1>6 DEF Next, ParseStep

\* What the stream of a job shows never goes back, and what it ended with stays: status, stage
\* and progress of a row only advance, whatever fails and however parses of the ruleset overlap,
\* and a verdict is the last thing the row says (JobStatus, update_background_job).
RowOnward == [][\A p \in Parses : Onward(row[p], row'[p])]_vars

\* The row of a job only advances, whatever fails and however parses overlap.
THEOREM RowNeverBack == Spec => RowOnward
<1>1. Init => SaidInv
  BY DEF Init, SaidInv, Said, First, Second, StageRank
<1>2. TypeOK /\ Ordered /\ SaidInv /\ [Next]_vars
        => SaidInv' /\ [\A p \in Parses : Onward(row[p], row'[p])]_vars
  BY SaidStep
<1> QED
  BY <1>1, <1>2, InitTypes, StepTypes, InitOrdered, StepOrdered, PTL DEF Spec, RowOnward

\* As long as nothing has failed, a client that follows a job either finds its verdict at the
\* next look, or the parse is at a place from which it goes on by itself: every one of them has
\* a step that waits for nobody. With EveryStepNears the stream ends.
Followed == faults = 0 =>
    \A p \in Parses : stream[p] = "open" =>
        row[p].status \in {"done", "failed"} \/ pc[p] \notin {"idle", "over"}

\* Without failures a client that listens is waiting for a parse that goes on.
THEOREM NoStreamWaitsInVain == Spec => []Followed
<1>1. Init => SaidInv
  BY DEF Init, SaidInv, Said, First, Second, StageRank
<1>2. TypeOK /\ Ordered /\ SaidInv /\ [Next]_vars => SaidInv'
  BY SaidStep
<1>3. SaidInv => Followed
  BY DEF SaidInv, Said, Followed
<1> QED
  BY <1>1, <1>2, <1>3, InitTypes, StepTypes, InitOrdered, StepOrdered, PTL DEF Spec

=============================================================================
