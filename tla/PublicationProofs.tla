------------------------- MODULE PublicationProofs --------------------------
(***************************************************************************)
(* Proofs about DatasetPublication for any datasets, meetings and          *)
(* operators.  What holds however commands overlap: the two publication    *)
(* columns agree, an empty version is never current, readers are never     *)
(* left without a version.  Then, what holds when commands are run one     *)
(* after the other.                                                        *)
(***************************************************************************)
EXTENDS DatasetPublication, TLAPS

(***************************************************************************)
(* The call records that commands start from and step through.             *)
(***************************************************************************)
LEMMA IdleType == Idle \in Call
BY DEF Idle, Call, Step, State

\* A command starts with the row's state as it finds it.
LEMMA StartedType ==
  ASSUME TypeOK, NEW o \in Operator, NEW c \in Build \cup {"rebuild", "activate"},
         NEW d \in Dataset, NEW s \in Step, Started(o, c, d, s)
  PROVE  /\ op' \in [Operator -> Call]
         /\ \A p \in Operator \ {o} : op'[p] = op[p]
         /\ op'[o].step = s /\ op'[o].command = c /\ op'[o].ds = d
         /\ op'[o].saw = row[d].state
<1> DEFINE call == [Idle EXCEPT !.step = s, !.command = c, !.ds = d, !.saw = row[d].state]
<1>1. /\ call.step = s /\ call.command = c /\ call.ds = d /\ call.saw = row[d].state
      /\ call \in Call
  BY DEF Idle, Call, TypeOK, Row
<1>2. op' = [op EXCEPT ![o] = call]
  BY DEF Started
<1> HIDE DEF call
<1>3. QED
  BY <1>1, <1>2 DEF TypeOK

\* A step that only moves on keeps what the call knows.
LEMMA GotoType ==
  ASSUME TypeOK, NEW o \in Operator, NEW s \in Step, Goto(o, s)
  PROVE  /\ op' \in [Operator -> Call]
         /\ \A p \in Operator \ {o} : op'[p] = op[p]
         /\ op'[o].step = s /\ op'[o].command = op[o].command /\ op'[o].ds = op[o].ds
         /\ op'[o].saw = op[o].saw
         /\ op'[o].targets = op[o].targets /\ op'[o].retired = op[o].retired
BY DEF Goto, TypeOK, Call

\* A command that ends leaves an idle operator.
LEMMA ExitType ==
  ASSUME TypeOK, NEW o \in Operator, Exit(o)
  PROVE  /\ op' \in [Operator -> Call]
         /\ \A p \in Operator \ {o} : op'[p] = op[p]
         /\ op'[o] = Idle
         /\ lock' \in [Dataset -> Operator \cup {Nobody}]
BY IdleType DEF Exit, TypeOK

\* validate_dataset's read refreshes what was seen.
LEMMA ValidateReadCall ==
  ASSUME TypeOK, NEW o \in Operator, row[op[o].ds].state \in State, ValidateRead(o)
  PROVE  /\ op' \in [Operator -> Call]
         /\ \A p \in Operator \ {o} : op'[p] = op[p]
         /\ op'[o].step = "validated" /\ op'[o].saw = row[op[o].ds].state
         /\ op'[o].ds = op[o].ds /\ op'[o].command = op[o].command
<1> DEFINE call == [op[o] EXCEPT !.step = "validated", !.saw = row[op[o].ds].state]
<1>1. op' = [op EXCEPT ![o] = call]
  BY DEF ValidateRead
<1>2. /\ call \in Call /\ call.step = "validated" /\ call.saw = row[op[o].ds].state
      /\ call.ds = op[o].ds /\ call.command = op[o].command
  BY DEF TypeOK, Call, Step
<1> HIDE DEF call
<1>3. QED
  BY <1>1, <1>2 DEF TypeOK

\* The UPDATE's snapshot is a set of datasets.
LEMMA SnapshotCall ==
  ASSUME TypeOK, NEW o \in Operator, ActivateSnapshot(o)
  PROVE  /\ op' \in [Operator -> Call]
         /\ \A p \in Operator \ {o} : op'[p] = op[p]
         /\ op'[o].step = "updating"
         /\ op'[o].targets = {d \in Dataset : row[d].is_active}
         /\ op'[o].retired = op[o].retired /\ op'[o].saw = op[o].saw
         /\ op'[o].ds = op[o].ds /\ op'[o].command = op[o].command
<1> DEFINE targets == {d \in Dataset : row[d].is_active}
           call == [op[o] EXCEPT !.step = "updating", !.targets = targets]
<1>1. op' = [op EXCEPT ![o] = call]
  BY DEF ActivateSnapshot
<1>2. targets \in SUBSET Dataset
  OBVIOUS
<1> HIDE DEF targets
<1>3. /\ call \in Call /\ call.step = "updating" /\ call.targets = targets
      /\ call.retired = op[o].retired /\ call.saw = op[o].saw
      /\ call.ds = op[o].ds /\ call.command = op[o].command
  BY <1>2 DEF TypeOK, Call, Step
<1> HIDE DEF call
<1>4. QED
  BY <1>1, <1>3 DEF TypeOK, targets

\* Visiting a row keeps the rest of the call.
LEMMA RetireCall ==
  ASSUME TypeOK, NEW o \in Operator, NEW d \in Dataset, ActivateRetire(o, d)
  PROVE  /\ op' \in [Operator -> Call]
         /\ \A p \in Operator \ {o} : op'[p] = op[p]
         /\ op'[o].step = op[o].step /\ op'[o].saw = op[o].saw
         /\ op'[o].ds = op[o].ds /\ op'[o].command = op[o].command
         /\ op'[o].targets = op[o].targets \ {d}
         /\ op'[o].retired = IF row[d].is_active THEN op[o].retired \cup {d}
                             ELSE op[o].retired
<1> DEFINE retired == IF row[d].is_active THEN op[o].retired \cup {d} ELSE op[o].retired
           targets == op[o].targets \ {d}
           call == [op[o] EXCEPT !.targets = targets, !.retired = retired]
<1>1. retired \in SUBSET Dataset /\ targets \in SUBSET Dataset
  BY DEF TypeOK, Call
<1>2. op' = [op EXCEPT ![o] = call]
  <2>1. CASE row[d].is_active
    BY <2>1 DEF ActivateRetire
  <2>2. CASE ~row[d].is_active
    <3>1. call = [op[o] EXCEPT !.targets = targets]
      BY <2>2 DEF TypeOK, Call
    <3> HIDE DEF call, targets
    <3>2. QED
      BY <2>2, <3>1 DEF ActivateRetire, targets
  <2>3. QED
    BY <2>1, <2>2
<1> HIDE DEF retired, targets
<1>3. /\ call \in Call /\ call.step = op[o].step /\ call.saw = op[o].saw
      /\ call.ds = op[o].ds /\ call.command = op[o].command
      /\ call.targets = targets /\ call.retired = retired
  BY <1>1 DEF TypeOK, Call
<1> HIDE DEF call
<1>4. QED
  BY <1>2, <1>3 DEF TypeOK, targets, retired

(***************************************************************************)
(* The rows that commands write.                                           *)
(***************************************************************************)
LEMMA ValidatedType ==
  ASSUME TypeOK, NEW d \in Dataset, NEW s \in State
  PROVE  /\ Validated(d, s) \in [Dataset -> Row]
         /\ \A e \in Dataset \ {d} : Validated(d, s)[e] = row[e]
         /\ Validated(d, s)[d].state \in {row[d].state, "validated"}
         /\ s # "validated" => Validated(d, s)[d].state = "validated"
         /\ Validated(d, s)[d].is_active = row[d].is_active
BY DEF Validated, TypeOK, Row, State

\* The committed activation is a table.
LEMMA ActivatedType ==
  ASSUME TypeOK, NEW o \in Operator
  PROVE  Activated(o) \in [Dataset -> Row]
BY DEF Activated, TypeOK, Row, State

\* Marking a candidate as building touches its state only.
LEMMA MarkType ==
  ASSUME TypeOK, NEW o \in Operator, op[o].ds \in Dataset, Mark(o)
  PROVE  /\ row' \in [Dataset -> Row]
         /\ \A e \in Dataset \ {op[o].ds} : row'[e] = row[e]
         /\ row'[op[o].ds].state \in {row[op[o].ds].state, "building"}
         /\ row'[op[o].ds].is_active = row[op[o].ds].is_active
<1> DEFINE d == op[o].ds
           new(old) ==
              CASE op[o].saw \notin {"absent", "building"} -> "building"
                [] op[o].saw = "absent" /\ old = "absent"
                   /\ op[o].command = "ingest" -> "building"
                [] OTHER -> old
<1>1. row' = [row EXCEPT ![d].state = new(row[d].state)]
  BY DEF Mark, TypeOK
<1>2. new(row[d].state) \in {row[d].state, "building"}
  OBVIOUS
<1> HIDE DEF new
<1>3. QED
  BY <1>1, <1>2 DEF TypeOK, Row, State

\* So does storing a meeting, of a row that was not there.
LEMMA IngestType ==
  ASSUME TypeOK, NEW o \in Operator, op[o].ds \in Dataset, NEW m \in Meeting,
         IngestMeeting(o, m)
  PROVE  /\ row' \in [Dataset -> Row]
         /\ stored' \in [Dataset -> Content]
         /\ \A e \in Dataset \ {op[o].ds} : row'[e] = row[e] /\ stored'[e] = stored[e]
         /\ row'[op[o].ds].state = row[op[o].ds].state
            \/ (row[op[o].ds].state = "absent" /\ row'[op[o].ds].state = "building")
         /\ row'[op[o].ds].is_active = row[op[o].ds].is_active
         /\ Filled(stored[op[o].ds]) => Filled(stored'[op[o].ds])
         /\ op' \in [Operator -> Call]
         /\ \A p \in Operator \ {o} : op'[p] = op[p]
         /\ op'[o].step = "ingest" /\ op'[o].command = op[o].command
         /\ op'[o].ds = op[o].ds /\ op'[o].saw = op[o].saw
<1> DEFINE d == op[o].ds
<1>1. PICK fitness \in {"unfit", "fit"}, tally \in Tally :
         /\ tally.listed >= stored[d].tally.listed
         /\ stored' = [stored EXCEPT
              ![d] = [meeting |-> [@.meeting EXCEPT ![m] = fitness], tally |-> tally]]
  BY DEF IngestMeeting
<1>2. PICK passed \in {op[o].passed, FALSE} :
         op' = [op EXCEPT ![o].passed = passed, ![o].taken = @ \cup {m}]
  BY DEF IngestMeeting
<1>3. row' = [row EXCEPT ![d].state = IF row[d].state = "absent" THEN "building" ELSE row[d].state]
  BY DEF IngestMeeting, TypeOK
<1>4. /\ stored' \in [Dataset -> Content]
      /\ \A e \in Dataset \ {d} : stored'[e] = stored[e]
      /\ Filled(stored[d]) => Filled(stored'[d])
  <2> DEFINE meetings == [stored[d].meeting EXCEPT ![m] = fitness]
             content == [meeting |-> meetings, tally |-> tally]
  <2>1. stored \in [Dataset -> Content] /\ stored[d] \in Content
    BY DEF TypeOK
  <2>2. /\ stored[d].meeting \in [Meeting -> Fitness]
        /\ stored[d].tally.listed \in Nat /\ tally.listed \in Nat
    BY <2>1, PublicationAssumption DEF Content
  <2>3. meetings \in [Meeting -> Fitness]
    BY <2>2 DEF Fitness
  <2>4. content \in Content
    BY <2>3 DEF Content
  <2>5. stored' = [stored EXCEPT ![d] = content]
    BY <1>1, <2>1
  <2>6. \A n \in Meeting : stored[d].meeting[n] # "absent" => content.meeting[n] # "absent"
    BY <2>2
  <2> HIDE DEF content
  <2>7. stored'[d] = content
    BY <2>1, <2>5
  <2>8. Filled(stored[d]) => Filled(content)
    BY <1>1, <2>2, <2>6 DEF Filled, Holds, content
  <2>9. QED
    BY <2>1, <2>4, <2>5, <2>7, <2>8
<1>5. /\ op' \in [Operator -> Call]
      /\ \A p \in Operator \ {o} : op'[p] = op[p]
      /\ op'[o].step = op[o].step /\ op'[o].command = op[o].command
      /\ op'[o].ds = op[o].ds /\ op'[o].saw = op[o].saw
  <2> DEFINE taken == op[o].taken \cup {m}
             call == [op[o] EXCEPT !.passed = passed, !.taken = taken]
  <2>1. op[o] \in Call /\ taken \in SUBSET Meeting /\ passed \in BOOLEAN
    BY DEF TypeOK, Call
  <2>2. op' = [op EXCEPT ![o] = call]
    BY <1>2
  <2> HIDE DEF taken
  <2>3. /\ call \in Call /\ call.step = op[o].step /\ call.command = op[o].command
        /\ call.ds = op[o].ds /\ call.saw = op[o].saw
    BY <2>1 DEF Call
  <2> HIDE DEF call
  <2>4. QED
    BY <2>2, <2>3 DEF TypeOK
<1>6. op[o].step = "ingest"
  BY DEF IngestMeeting, At
<1>7. /\ row' \in [Dataset -> Row]
      /\ \A e \in Dataset \ {d} : row'[e] = row[e]
      /\ row'[d].state = IF row[d].state = "absent" THEN "building" ELSE row[d].state
      /\ row'[d].is_active = row[d].is_active
  BY <1>3 DEF TypeOK, Row, State
<1>8. QED
  BY <1>4, <1>5, <1>6, <1>7

(***************************************************************************)
(* Type correctness, and that a command under way has a dataset.           *)
(***************************************************************************)
Typed == TypeOK /\ CallInv

\* It holds when nothing was published yet.
LEMMA TypedInit == Init => Typed
<1> SUFFICES ASSUME Init PROVE Typed
  OBVIOUS
<1>1. [state |-> "absent", is_active |-> FALSE] \in Row
  BY DEF Row, State
<1>2. row \in [Dataset -> Row]
  BY <1>1 DEF Init
<1>3. stored \in [Dataset -> Content]
  <2>1. Nothing \in Content
    BY PublicationAssumption DEF Nothing, Content, Fitness
  <2>2. QED
    BY <2>1 DEF Init
<1>4. lock \in [Dataset -> Operator \cup {Nobody}]
  BY DEF Init
<1>5. op \in [Operator -> Call] /\ \A o \in Operator : op[o].step = "idle"
  BY IdleType DEF Init, Idle
<1>6. QED
  BY <1>2, <1>3, <1>4, <1>5 DEF Typed, TypeOK, CallInv, At

\* Every step keeps it.
LEMMA TypedStep == Typed /\ [Next]_vars => Typed'
<1> SUFFICES ASSUME TypeOK, CallInv, [Next]_vars PROVE Typed'
  BY DEF Typed
<1> USE DEF Typed, CallInv, At
<1>0. \A o \in Operator : Idle.step = "idle"
  BY DEF Idle
<1>1. ASSUME NEW o \in Operator, NEW c \in Build, NEW d \in Dataset, StartBuild(o, c, d)
      PROVE  Typed'
  BY <1>1, StartedType DEF StartBuild, TypeOK, Step
<1>2. ASSUME NEW o \in Operator, Mark(o)
      PROVE  Typed'
  <2>1. row' \in [Dataset -> Row]
    BY <1>2, MarkType DEF Mark
  <2>2. QED
    BY <1>2, <2>1, GotoType DEF Mark, TypeOK, Step
<1>3. ASSUME NEW o \in Operator, NEW m \in Meeting, IngestMeeting(o, m)
      PROVE  Typed'
  <2>1. op[o].ds \in Dataset /\ UNCHANGED lock
    BY <1>3 DEF IngestMeeting
  <2>2. QED
    BY <1>3, <2>1, IngestType DEF TypeOK
<1>4. ASSUME NEW o \in Operator, FinishIngest(o)
      PROVE  Typed'
  BY <1>4, GotoType DEF FinishIngest, TypeOK, Step
<1>5. ASSUME NEW o \in Operator, ValidateRead(o)
      PROVE  Typed'
  <2>1. row[op[o].ds].state \in State /\ op[o].ds \in Dataset
    BY <1>5 DEF ValidateRead, TypeOK, Row
  <2>2. QED
    BY <1>5, <2>1, ValidateReadCall DEF ValidateRead, TypeOK
<1>6. ASSUME NEW o \in Operator, ValidateCommit(o)
      PROVE  Typed'
  <2>1. row' \in [Dataset -> Row]
    BY <1>6, ValidatedType DEF ValidateCommit, TypeOK, Call
  <2>2. CASE Goto(o, "activate") /\ UNCHANGED lock
    BY <1>6, <2>1, <2>2, GotoType DEF ValidateCommit, TypeOK, Step
  <2>3. CASE Exit(o)
    BY <1>6, <2>1, <2>3, <1>0, ExitType DEF ValidateCommit, TypeOK
  <2>4. QED
    BY <1>6, <2>2, <2>3 DEF ValidateCommit
<1>7. ASSUME NEW o \in Operator, NEW d \in Dataset, StartRebuild(o, d)
      PROVE  Typed'
  <2>1. "rebuild" \in Step /\ "rebuild" \in Build \cup {"rebuild", "activate"}
    BY DEF Step
  <2>2. Started(o, "rebuild", d, "rebuild") /\ UNCHANGED <<row, stored, lock>>
    BY <1>7 DEF StartRebuild
  <2>3. op' \in [Operator -> Call] /\ op'[o].ds = d /\ \A p \in Operator \ {o} : op'[p] = op[p]
    BY <2>1, <2>2, StartedType
  <2>4. QED
    BY <2>2, <2>3 DEF TypeOK
<1>8. ASSUME NEW o \in Operator, RebuildCommit(o)
      PROVE  Typed'
  <2>1. row' \in [Dataset -> Row]
    BY <1>8, ValidatedType DEF RebuildCommit, TypeOK, Call
  <2>2. QED
    BY <1>8, <2>1, <1>0, ExitType DEF RebuildCommit, TypeOK
<1>9. ASSUME NEW o \in Operator, NEW d \in Dataset, StartActivate(o, d)
      PROVE  Typed'
  <2>1. "assess" \in Step /\ "activate" \in Build \cup {"rebuild", "activate"}
    BY DEF Step
  <2>2. Started(o, "activate", d, "assess") /\ UNCHANGED <<row, stored, lock>>
    BY <1>9 DEF StartActivate
  <2>3. op' \in [Operator -> Call] /\ op'[o].ds = d /\ \A p \in Operator \ {o} : op'[p] = op[p]
    BY <2>1, <2>2, StartedType
  <2>4. QED
    BY <2>2, <2>3 DEF TypeOK
<1>10. ASSUME NEW o \in Operator, Assess(o)
      PROVE  Typed'
  <2>1. CASE Goto(o, "activate") /\ UNCHANGED lock
    BY <1>10, <2>1, GotoType DEF Assess, TypeOK, Step
  <2>2. CASE Exit(o)
    BY <1>10, <2>2, <1>0, ExitType DEF Assess, TypeOK
  <2>3. QED
    BY <1>10, <2>1, <2>2 DEF Assess
<1>11. ASSUME NEW o \in Operator, ActivateLock(o)
      PROVE  Typed'
  <2>1. CASE lock' = [lock EXCEPT ![op[o].ds] = o] /\ Goto(o, "update")
    BY <1>11, <2>1, GotoType DEF ActivateLock, TypeOK, Step
  <2>2. CASE Exit(o)
    BY <1>11, <2>2, <1>0, ExitType DEF ActivateLock, TypeOK
  <2>3. QED
    BY <1>11, <2>1, <2>2 DEF ActivateLock
<1>12. ASSUME NEW o \in Operator, ActivateSnapshot(o)
      PROVE  Typed'
  BY <1>12, SnapshotCall DEF ActivateSnapshot, TypeOK
<1>13. ASSUME NEW o \in Operator, NEW d \in Dataset, ActivateRetire(o, d)
      PROVE  Typed'
  <2>1. lock' \in [Dataset -> Operator \cup {Nobody}]
    BY <1>13 DEF ActivateRetire, TypeOK
  <2>2. UNCHANGED <<row, stored>> /\ op[o].step = "updating"
    BY <1>13 DEF ActivateRetire
  <2>3. QED
    BY <1>13, <2>1, <2>2, RetireCall DEF TypeOK
<1>14. ASSUME NEW o \in Operator, ActivateCommit(o)
      PROVE  Typed'
  <2>1. row' \in [Dataset -> Row]
    BY <1>14, ActivatedType DEF ActivateCommit
  <2>2. QED
    BY <1>14, <2>1, <1>0, ExitType DEF ActivateCommit, TypeOK
<1>15. ASSUME NEW o \in Operator, Abort(o)
      PROVE  Typed'
  BY <1>15, <1>0, ExitType DEF Abort, TypeOK
<1>16. CASE UNCHANGED vars
  BY <1>16 DEF vars, TypeOK
<1>17. QED
  BY <1>1, <1>2, <1>3, <1>4, <1>5, <1>6, <1>7, <1>8, <1>9, <1>10, <1>11, <1>12, <1>13,
     <1>14, <1>15, <1>16 DEF Next, Building, Rebuilding, Activating

\* The dataset_versions table, its locks and the commands' records are well-formed
\* in every reachable state, however commands overlap.
THEOREM TypeCorrect == Spec => []TypeOK
<1>1. Spec => []Typed
  BY TypedInit, TypedStep, PTL DEF Spec
<1>2. QED
  BY <1>1, PTL DEF Typed

\* The same with the dataset of the call.
LEMMA TypedCorrect == Spec => []Typed
BY TypedInit, TypedStep, PTL DEF Spec

(***************************************************************************)
(* Only the commit of an activation touches the published flag; any other  *)
(* step leaves each row's state or makes it building or validated.         *)
(***************************************************************************)
RowsKept ==
    \A d \in Dataset :
        /\ row'[d].is_active = row[d].is_active
        /\ row'[d].state \in {row[d].state, "building", "validated"}

\* Every step but the commit of an activation keeps all flags.
LEMMA RowStep ==
  ASSUME Typed, [Next]_vars
  PROVE  RowsKept \/ \E o \in Operator : ActivateCommit(o)
<1> USE DEF Typed, CallInv, At
<1>1. ASSUME NEW o \in Operator, Mark(o)
      PROVE  RowsKept
  BY <1>1, MarkType DEF Mark, RowsKept
<1>2. ASSUME NEW o \in Operator, NEW m \in Meeting, IngestMeeting(o, m)
      PROVE  RowsKept
  <2>1. op[o].ds \in Dataset
    BY <1>2 DEF IngestMeeting
  <2>2. QED
    BY <1>2, <2>1, IngestType DEF RowsKept
<1>3. ASSUME NEW o \in Operator, ValidateCommit(o) \/ RebuildCommit(o)
      PROVE  RowsKept
  <2>1. op[o].ds \in Dataset /\ op[o].saw \in State /\ row' = Validated(op[o].ds, op[o].saw)
    BY <1>3 DEF ValidateCommit, RebuildCommit, TypeOK, Call
  <2>2. QED
    BY <2>1, ValidatedType DEF RowsKept
<1>4. CASE UNCHANGED row
  BY <1>4 DEF RowsKept
<1>5. QED
  BY <1>1, <1>2, <1>3, <1>4
     DEF Next, vars, Building, Rebuilding, Activating, StartBuild, FinishIngest, ValidateRead,
         StartRebuild, StartActivate, Assess, ActivateLock, ActivateSnapshot, ActivateRetire,
         Abort

\* The commit of an activation publishes its candidate.
LEMMA CommitStep ==
  ASSUME Typed, NEW o \in Operator, ActivateCommit(o)
  PROVE  /\ op[o].ds \in Dataset /\ At(o, "updating")
         /\ row'[op[o].ds] = [state |-> "active", is_active |-> TRUE]
         /\ \A d \in Dataset \ {op[o].ds} :
              row'[d] = IF d \in op[o].retired
                        THEN [state |-> "superseded", is_active |-> FALSE] ELSE row[d]
BY DEF Typed, CallInv, At, ActivateCommit, Activated

(***************************************************************************)
(* State and flag agree, however commands overlap.                         *)
(***************************************************************************)
THEOREM FlagsAgree == Spec => []StateMatchesFlag
<1>1. Init => StateMatchesFlag
  BY DEF Init, StateMatchesFlag
<1>2. Typed /\ StateMatchesFlag /\ [Next]_vars => StateMatchesFlag'
  <2> SUFFICES ASSUME Typed, StateMatchesFlag, [Next]_vars PROVE StateMatchesFlag'
    OBVIOUS
  <2>1. CASE RowsKept
    BY <2>1 DEF RowsKept, StateMatchesFlag
  <2>2. ASSUME NEW o \in Operator, ActivateCommit(o) PROVE StateMatchesFlag'
    BY <2>2, CommitStep DEF StateMatchesFlag
  <2>3. QED
    BY <2>1, <2>2, RowStep
<1>3. QED
  BY <1>1, <1>2, TypedCorrect, PTL DEF Spec

(***************************************************************************)
(* Readers are never left without a version.                               *)
(***************************************************************************)
THEOREM AlwaysPublished == Spec => NeverUnpublished
<1>1. Typed /\ [Next]_vars => [Active # {} => Active' # {}]_vars
  <2> SUFFICES ASSUME Typed, [Next]_vars, Active # {} PROVE Active' # {}
    OBVIOUS
  <2>1. CASE RowsKept
    BY <2>1 DEF RowsKept, Active
  <2>2. ASSUME NEW o \in Operator, ActivateCommit(o) PROVE Active' # {}
    BY <2>2, CommitStep DEF Active
  <2>3. QED
    BY <2>1, <2>2, RowStep
<1>2. QED
  BY <1>1, TypedCorrect, PTL DEF Spec, NeverUnpublished

(***************************************************************************)
(* Neither meetings nor TDocs are ever removed from a dataset.             *)
(***************************************************************************)
LEMMA StoredStep ==
  ASSUME Typed, [Next]_vars, NEW d \in Dataset, NonEmpty(d)
  PROVE  NonEmpty(d)'
<1>1. ASSUME NEW o \in Operator, NEW m \in Meeting, IngestMeeting(o, m)
      PROVE  NonEmpty(d)'
  <2>1. op[o].ds \in Dataset
    BY <1>1 DEF IngestMeeting, Typed, CallInv, At
  <2>2. QED
    BY <1>1, <2>1, IngestType DEF NonEmpty, Typed
<1>2. CASE UNCHANGED stored
  BY <1>2 DEF NonEmpty
<1>3. QED
  BY <1>1, <1>2
     DEF Next, vars, Building, Rebuilding, Activating, StartBuild, Mark, FinishIngest,
         ValidateRead, ValidateCommit, StartRebuild, RebuildCommit, StartActivate, Assess,
         ActivateLock, ActivateSnapshot, ActivateRetire, ActivateCommit, Abort

(***************************************************************************)
(* No empty version is current, however commands overlap: a state that a   *)
(* command read and kept too long may be out of date, but it was only ever *)
(* "validated" for a dataset with meetings and TDocs, and these stay.      *)
(***************************************************************************)
EvidenceRows ==
    \A d \in Dataset :
        row[d].state \in {"validated", "active"} \/ row[d].is_active => NonEmpty(d)

EvidenceCall(o) ==
    At(o, "validated") \/ At(o, "update") \/ At(o, "updating")
      \/ (~At(o, "idle") /\ op[o].saw = "validated")
    => NonEmpty(op[o].ds)

\* A call that keeps its dataset and stays within what it knew keeps its part.
LEMMA EvidenceCallKept ==
  ASSUME Typed, [Next]_vars, NEW o \in Operator, EvidenceCall(o),
         op'[o].ds = op[o].ds, ~At(o, "idle"),
         \/ op'[o].step \in {"validated", "update", "updating"} /\ NonEmpty(op[o].ds)
         \/ op'[o].step \notin {"validated", "update", "updating"} /\ op'[o].saw = op[o].saw
  PROVE  EvidenceCall(o)'
<1>1. op[o].ds \in Dataset
  BY DEF Typed, CallInv
<1>2. NonEmpty(op[o].ds) => NonEmpty(op[o].ds)'
  BY <1>1, StoredStep DEF NonEmpty
<1>3. QED
  BY <1>2 DEF EvidenceCall, At

\* Every step keeps the invariant: what was once seen to hold meetings and TDocs does.
LEMMA EvidenceStep == Typed /\ EvidenceInv /\ [Next]_vars => EvidenceInv'
<1> SUFFICES ASSUME Typed, EvidenceInv, [Next]_vars PROVE EvidenceInv'
  OBVIOUS
<1>a. EvidenceRows /\ \A o \in Operator : EvidenceCall(o)
  BY DEF EvidenceInv, EvidenceRows, EvidenceCall
<1>b. SUFFICES EvidenceRows' /\ \A o \in Operator : EvidenceCall(o)'
  BY DEF EvidenceInv, EvidenceRows, EvidenceCall
<1>c. \A d \in Dataset : NonEmpty(d) => NonEmpty(d)'
  BY StoredStep
<1>d. /\ TypeOK
      /\ \A o \in Operator : ~At(o, "idle") => op[o].ds \in Dataset
  BY DEF Typed, CallInv
\* An operator's call changes in its own steps only.
<1>e. ASSUME NEW o \in Operator, op'[o] = op[o] PROVE EvidenceCall(o)'
  BY <1>a, <1>c, <1>d, <1>e DEF EvidenceCall, At, NonEmpty
<1>f. ASSUME NEW o \in Operator, op'[o] = Idle PROVE EvidenceCall(o)'
  BY <1>f DEF EvidenceCall, At, Idle
<1>g. ASSUME UNCHANGED row PROVE EvidenceRows'
  BY <1>a, <1>c, <1>g DEF EvidenceRows
<1>1. ASSUME NEW o \in Operator, NEW c \in Build \cup {"rebuild", "activate"},
             NEW d \in Dataset, NEW s \in {"mark", "rebuild", "assess"},
             Started(o, c, d, s), UNCHANGED <<row, stored>>
      PROVE  EvidenceRows' /\ \A p \in Operator : EvidenceCall(p)'
  <2>1. s \in Step
    BY DEF Step
  <2>2. /\ \A p \in Operator \ {o} : op'[p] = op[p]
        /\ op'[o].step = s /\ op'[o].ds = d /\ op'[o].saw = row[d].state
    BY <1>1, <1>d, <2>1, StartedType
  <2>3. EvidenceCall(o)'
    BY <1>1, <1>a, <1>c, <2>2 DEF EvidenceCall, EvidenceRows, At, NonEmpty
  <2>4. QED
    BY <1>1, <1>e, <1>g, <2>2, <2>3
<1>2. ASSUME NEW o \in Operator, Mark(o)
      PROVE  EvidenceRows' /\ \A p \in Operator : EvidenceCall(p)'
  <2>1. op[o].ds \in Dataset /\ ~At(o, "idle") /\ Goto(o, "ingest")
    BY <1>2, <1>d DEF Mark, At
  <2>2. EvidenceRows'
    BY <1>2, <1>a, <1>c, <1>d, <2>1, MarkType DEF EvidenceRows
  <2>3. EvidenceCall(o)' /\ \A p \in Operator \ {o} : op'[p] = op[p]
    BY <1>a, <1>d, <2>1, GotoType, EvidenceCallKept DEF Step
  <2>4. QED
    BY <1>e, <2>2, <2>3
<1>3. ASSUME NEW o \in Operator, NEW m \in Meeting, IngestMeeting(o, m)
      PROVE  EvidenceRows' /\ \A p \in Operator : EvidenceCall(p)'
  <2>1. op[o].ds \in Dataset /\ ~At(o, "idle")
    BY <1>3, <1>d DEF IngestMeeting, At
  <2>2. EvidenceRows'
    BY <1>3, <1>a, <1>c, <1>d, <2>1, IngestType DEF EvidenceRows
  <2>3. EvidenceCall(o)' /\ \A p \in Operator \ {o} : op'[p] = op[p]
    BY <1>3, <1>a, <1>d, <2>1, IngestType, EvidenceCallKept
  <2>4. QED
    BY <1>e, <2>2, <2>3
<1>4. ASSUME NEW o \in Operator, NEW s \in {"validate", "activate"}, ~At(o, "idle"),
             Goto(o, s), UNCHANGED row
      PROVE  EvidenceRows' /\ \A p \in Operator : EvidenceCall(p)'
  BY <1>4, <1>a, <1>d, <1>e, <1>g, GotoType, EvidenceCallKept DEF Step
<1>5. ASSUME NEW o \in Operator, ValidateRead(o)
      PROVE  EvidenceRows' /\ \A p \in Operator : EvidenceCall(p)'
  <2>1. op[o].ds \in Dataset /\ ~At(o, "idle") /\ NonEmpty(op[o].ds) /\ UNCHANGED row
    BY <1>5, <1>d DEF ValidateRead, At
  <2>2. row[op[o].ds].state \in State
    BY <1>d, <2>1 DEF TypeOK, Row
  <2>3. EvidenceCall(o)' /\ \A p \in Operator \ {o} : op'[p] = op[p]
    BY <1>5, <1>a, <1>d, <2>1, <2>2, ValidateReadCall, EvidenceCallKept
  <2>4. QED
    BY <1>e, <1>g, <2>1, <2>3
<1>6. ASSUME NEW o \in Operator, ~At(o, "idle"), NonEmpty(op[o].ds),
             row' = Validated(op[o].ds, op[o].saw)
      PROVE  EvidenceRows'
  <2>1. op[o].ds \in Dataset /\ op[o].saw \in State
    BY <1>6, <1>d DEF TypeOK, Call
  <2>2. QED
    BY <1>6, <1>a, <1>c, <1>d, <2>1, ValidatedType DEF EvidenceRows
<1>7. ASSUME NEW o \in Operator, ValidateCommit(o)
      PROVE  EvidenceRows' /\ \A p \in Operator : EvidenceCall(p)'
  <2>1. ~At(o, "idle") /\ NonEmpty(op[o].ds)
    BY <1>7, <1>a DEF ValidateCommit, At, EvidenceCall
  <2>2. EvidenceRows'
    BY <1>6, <1>7, <2>1 DEF ValidateCommit
  <2>3. CASE Exit(o)
    BY <1>d, <1>e, <1>f, <2>2, <2>3, ExitType
  <2>4. CASE Goto(o, "activate")
    BY <1>a, <1>d, <1>e, <2>1, <2>2, <2>4, GotoType, EvidenceCallKept DEF Step
  <2>5. QED
    BY <1>7, <2>3, <2>4 DEF ValidateCommit
<1>8. ASSUME NEW o \in Operator, RebuildCommit(o)
      PROVE  EvidenceRows' /\ \A p \in Operator : EvidenceCall(p)'
  <2>1. EvidenceRows'
    BY <1>6, <1>8 DEF RebuildCommit, At
  <2>2. QED
    BY <1>8, <1>d, <1>e, <1>f, <2>1, ExitType DEF RebuildCommit
<1>9. ASSUME NEW o \in Operator, ActivateLock(o)
      PROVE  EvidenceRows' /\ \A p \in Operator : EvidenceCall(p)'
  <2>1. op[o].ds \in Dataset /\ ~At(o, "idle") /\ UNCHANGED row
    BY <1>9, <1>d DEF ActivateLock, At
  <2>2. CASE Exit(o)
    BY <1>d, <1>e, <1>f, <1>g, <2>1, <2>2, ExitType
  <2>3. ASSUME ~Exit(o)
        PROVE  Goto(o, "update") /\ NonEmpty(op[o].ds)
    BY <1>9, <1>a, <2>1, <2>3 DEF ActivateLock, EvidenceCall, EvidenceRows
  <2>4. ASSUME ~Exit(o)
        PROVE  EvidenceCall(o)' /\ \A p \in Operator \ {o} : op'[p] = op[p]
    BY <1>a, <1>d, <2>1, <2>3, <2>4, GotoType, EvidenceCallKept DEF Step
  <2>5. QED
    BY <1>e, <1>g, <2>1, <2>2, <2>4
<1>10. ASSUME NEW o \in Operator, ActivateSnapshot(o)
      PROVE  EvidenceRows' /\ \A p \in Operator : EvidenceCall(p)'
  <2>1. op[o].ds \in Dataset /\ ~At(o, "idle") /\ NonEmpty(op[o].ds) /\ UNCHANGED row
    BY <1>10, <1>a, <1>d DEF ActivateSnapshot, At, EvidenceCall
  <2>2. QED
    BY <1>10, <1>a, <1>d, <1>e, <1>g, <2>1, SnapshotCall, EvidenceCallKept
<1>11. ASSUME NEW o \in Operator, NEW d \in Dataset, ActivateRetire(o, d)
      PROVE  EvidenceRows' /\ \A p \in Operator : EvidenceCall(p)'
  <2>1. op[o].step = "updating" /\ ~At(o, "idle") /\ NonEmpty(op[o].ds) /\ UNCHANGED row
    BY <1>11, <1>a DEF ActivateRetire, At, EvidenceCall
  <2>2. QED
    BY <1>11, <1>a, <1>d, <1>e, <1>g, <2>1, RetireCall, EvidenceCallKept
<1>12. ASSUME NEW o \in Operator, ActivateCommit(o)
      PROVE  EvidenceRows' /\ \A p \in Operator : EvidenceCall(p)'
  <2>1. NonEmpty(op[o].ds)
    BY <1>12, <1>a, CommitStep DEF EvidenceCall
  <2>2. EvidenceRows'
    BY <1>12, <1>a, <1>c, <2>1, CommitStep DEF EvidenceRows
  <2>3. QED
    BY <1>12, <1>d, <1>e, <1>f, <2>2, ExitType DEF ActivateCommit
<1>13. ASSUME NEW o \in Operator, Exit(o), UNCHANGED row
      PROVE  EvidenceRows' /\ \A p \in Operator : EvidenceCall(p)'
  BY <1>13, <1>d, <1>e, <1>f, <1>g, ExitType
<1>14. CASE UNCHANGED vars
  BY <1>14, <1>e, <1>g DEF vars
<1>15. ASSUME NEW o \in Operator, NEW d \in Dataset, StartRebuild(o, d) \/ StartActivate(o, d)
      PROVE  EvidenceRows' /\ \A p \in Operator : EvidenceCall(p)'
  BY <1>15, <1>1 DEF StartRebuild, StartActivate
<1>16. ASSUME NEW o \in Operator, NEW c \in Build, NEW d \in Dataset, StartBuild(o, c, d)
      PROVE  EvidenceRows' /\ \A p \in Operator : EvidenceCall(p)'
  BY <1>16, <1>1 DEF StartBuild
<1>17. ASSUME NEW o \in Operator, FinishIngest(o) \/ Assess(o) \/ Abort(o)
      PROVE  EvidenceRows' /\ \A p \in Operator : EvidenceCall(p)'
  BY <1>17, <1>4, <1>13 DEF FinishIngest, Assess, Abort, At
<1>18. QED
  BY <1>2, <1>3, <1>5, <1>7, <1>8, <1>9, <1>10, <1>11, <1>12, <1>14, <1>15, <1>16, <1>17
     DEF Next, Building, Rebuilding, Activating

\* A version that is current holds a meeting, although activate_dataset may compare
\* a state that is out of date.
THEOREM NoEmptyVersion == Spec => []PublishedNonEmpty
<1>1. Init => EvidenceInv
  BY DEF Init, EvidenceInv, At, Idle
<1>2. EvidenceInv => PublishedNonEmpty
  BY DEF EvidenceInv, PublishedNonEmpty, Active
<1>3. QED
  BY <1>1, <1>2, EvidenceStep, TypedCorrect, PTL DEF Spec

-----------------------------------------------------------------------------
(***************************************************************************)
(* What holds of DatasetPublication when commands are run one after the    *)
(* other and versions are activated by activate-dataset only: readers have *)
(* one version, it is complete and immutable, and the tables implement     *)
(* AtomicPublication, for any datasets, meetings and operators.            *)
(***************************************************************************)
Gated == Serial /\ "backfill_activate" \notin Command

Serialized == SerialInv /\ GateInv

(***************************************************************************)
(* A step is one operator's; every other operator is idle and stays so.    *)
(***************************************************************************)
Turn(o) == \A p \in Operator \ {o} : At(p, "idle") /\ op'[p] = op[p]

\* A command that is under way is alone.
LEMMA TurnGoing ==
  ASSUME SerialInv, NEW o \in Operator, ~At(o, "idle"),
         \A p \in Operator \ {o} : op'[p] = op[p]
  PROVE  Turn(o)
BY DEF SerialInv, Turn

\* So is a command that starts.
LEMMA TurnStarting ==
  ASSUME Serial, NEW o \in Operator, NEW c, MayStart(o, c),
         \A p \in Operator \ {o} : op'[p] = op[p]
  PROVE  Turn(o)
BY DEF MayStart, Turn

\* What has to be shown of a turn.
LEMMA TurnKeeps ==
  ASSUME Serialized, NEW o \in Operator, Turn(o), SerialCall(o)', GateCall(o)',
         \A d \in Active' : row'[d].state = "active"
  PROVE  Serialized'
<1>1. ASSUME NEW p \in Operator \ {o} PROVE SerialCall(p)' /\ GateCall(p)'
  <2>1. op'[p].step = "idle" /\ op'[p].command # "backfill_activate"
    BY DEF Turn, At, Serialized, GateInv, GateCall
  <2>2. QED
    BY <2>1 DEF SerialCall, GateCall, At
<1>2. \A p, q \in Operator : ~At(p, "idle")' /\ ~At(q, "idle")' => p = q
  BY DEF Turn, At
<1>3. QED
  BY <1>1, <1>2 DEF Serialized, SerialInv, GateInv

\* The command returns, raises or is killed, and the published rows are sound.
LEMMA ExitKeeps ==
  ASSUME Typed, Serialized, NEW o \in Operator, ~At(o, "idle"), Exit(o),
         \A d \in Active' : row'[d].state = "active"
  PROVE  Serialized'
<1>1. op'[o] = Idle /\ Turn(o)
  BY ExitType, TurnGoing DEF Typed, Serialized
<1>2. SerialCall(o)' /\ GateCall(o)'
  BY <1>1 DEF SerialCall, GateCall, At, Idle
<1>3. QED
  BY <1>1, <1>2, TurnKeeps

\* A step that changes no published row.
LEMMA ActiveRowsKept ==
  ASSUME Typed, SerialInv, RowsKept,
         \A d \in Active : row'[d] = row[d]
  PROVE  \A d \in Active' : row'[d].state = "active"
BY DEF RowsKept, Active, SerialInv

(***************************************************************************)
(* The commands that build leave what is current alone, and change the     *)
(* contents of one dataset.                                                *)
(***************************************************************************)
BuiltBeside ==
    \/ UNCHANGED stored
    \/ \E d \in Dataset \ Active : \A e \in Dataset \ {d} : stored'[e] = stored[e]

\* Building and rebuilding keep the invariant.
LEMMA BuildingKeeps ==
  ASSUME Gated, Typed, Serialized, NEW o \in Operator, Building(o) \/ Rebuilding(o)
  PROVE  /\ Serialized'
         /\ RowsKept
         /\ BuiltBeside
         /\ \A d \in Active : row'[d] = row[d] /\ stored'[d] = stored[d]
<1> DEFINE Kept == /\ Serialized'
                   /\ RowsKept
                   /\ BuiltBeside
                   /\ \A d \in Active : row'[d] = row[d] /\ stored'[d] = stored[d]
<1>a. /\ TypeOK
      /\ ~At(o, "idle") => op[o].ds \in Dataset /\ op[o].saw \in State
  BY DEF Typed, CallInv, TypeOK, Call
<1>b. SerialInv /\ GateInv /\ SerialCall(o) /\ GateCall(o)
  BY DEF Serialized, SerialInv, GateInv
\* A command that builds or rebuilds starts.
<1>1. ASSUME NEW c \in Build \cup {"rebuild", "activate"}, NEW d \in Dataset,
             NEW s \in {"mark", "rebuild"}, MayStart(o, c), ~row[d].is_active,
             Started(o, c, d, s), UNCHANGED <<row, stored, lock>>
      PROVE  Kept
  <2>1. s \in Step
    BY DEF Step
  <2>2. /\ \A p \in Operator \ {o} : op'[p] = op[p]
        /\ op'[o].step = s /\ op'[o].ds = d /\ op'[o].command = c
    BY <1>1, <1>a, <2>1, StartedType
  <2>3. Turn(o)
    BY <1>1, <2>2, TurnStarting DEF Gated
  <2>4. SerialCall(o)' /\ GateCall(o)'
    BY <1>1, <2>2 DEF SerialCall, GateCall, At, Gated, MayStart
  <2>5. RowsKept /\ \A e \in Active' : row'[e].state = "active"
    BY <1>1, <1>b DEF RowsKept, SerialInv, Active
  <2>6. QED
    BY <1>1, <2>3, <2>4, <2>5, TurnKeeps DEF BuiltBeside
\* A command goes on: it is alone, and its dataset is not current.
<1>2. ASSUME ~At(o, "idle"), ~row[op[o].ds].is_active, RowsKept,
             \A p \in Operator \ {o} : op'[p] = op[p],
             op'[o].ds = op[o].ds, op'[o].command = op[o].command,
             op'[o].step \in {"ingest", "validate", "validated"},
             \A e \in Dataset \ {op[o].ds} : row'[e] = row[e] /\ stored'[e] = stored[e]
      PROVE  Kept
  <2>1. BuiltBeside /\ \A d \in Active : row'[d] = row[d] /\ stored'[d] = stored[d]
    BY <1>2, <1>a DEF Active, BuiltBeside
  <2>2. Turn(o)
    BY <1>2, <1>b, TurnGoing
  <2>3. SerialCall(o)' /\ GateCall(o)'
    BY <1>2, <1>a, <1>b DEF SerialCall, GateCall, At, RowsKept
  <2>4. QED
    BY <1>2, <1>b, <2>1, <2>2, <2>3, ActiveRowsKept, TurnKeeps
<1>3. ASSUME NEW c \in Build, NEW d \in Dataset, StartBuild(o, c, d)
      PROVE  Kept
  BY <1>1, <1>3 DEF StartBuild
<1>4. ASSUME NEW d \in Dataset, StartRebuild(o, d)
      PROVE  Kept
  BY <1>1, <1>4 DEF StartRebuild
<1>5. CASE Mark(o)
  <2>1. op[o].ds \in Dataset /\ ~At(o, "idle") /\ ~row[op[o].ds].is_active
    BY <1>5, <1>a, <1>b DEF Mark, At, SerialCall
  <2>2. Goto(o, "ingest") /\ UNCHANGED stored /\ "ingest" \in Step
    BY <1>5 DEF Mark, Step
  <2>3. /\ \A e \in Dataset \ {op[o].ds} : row'[e] = row[e]
        /\ RowsKept
    BY <1>5, <1>a, <2>1, MarkType DEF RowsKept
  <2>4. QED
    BY <1>2, <1>a, <2>1, <2>2, <2>3, GotoType
<1>6. ASSUME NEW m \in Meeting, IngestMeeting(o, m)
      PROVE  Kept
  <2>1. op[o].ds \in Dataset /\ ~At(o, "idle") /\ ~row[op[o].ds].is_active
    BY <1>6, <1>a, <1>b DEF IngestMeeting, At, SerialCall
  <2>2. RowsKept
    BY <1>6, <1>a, <2>1, IngestType DEF RowsKept
  <2>3. QED
    BY <1>2, <1>6, <1>a, <2>1, <2>2, IngestType
<1>7. CASE FinishIngest(o)
  <2>1. ~At(o, "idle") /\ ~row[op[o].ds].is_active
    BY <1>7, <1>b DEF FinishIngest, At, SerialCall
  <2>2. Goto(o, "validate") /\ UNCHANGED <<row, stored>> /\ "validate" \in Step /\ RowsKept
    BY <1>7 DEF FinishIngest, Step, RowsKept
  <2>3. QED
    BY <1>2, <1>a, <2>1, <2>2, GotoType
<1>8. CASE ValidateRead(o)
  <2>1. op[o].ds \in Dataset /\ ~At(o, "idle") /\ ~row[op[o].ds].is_active
    BY <1>8, <1>a, <1>b DEF ValidateRead, At, SerialCall
  <2>2. UNCHANGED <<row, stored>> /\ RowsKept /\ row[op[o].ds].state \in State
    BY <1>8, <1>a, <2>1 DEF ValidateRead, RowsKept, TypeOK, Row
  <2>3. QED
    BY <1>2, <1>8, <1>a, <2>1, <2>2, ValidateReadCall
\* The state is set to validated and the command ends.
<1>9. ASSUME ~At(o, "idle"), ~row[op[o].ds].is_active,
             row' = Validated(op[o].ds, op[o].saw), Exit(o), UNCHANGED stored
      PROVE  Kept
  <2>1. RowsKept /\ \A d \in Active : row'[d] = row[d]
    BY <1>9, <1>a, ValidatedType DEF RowsKept, Active
  <2>2. QED
    BY <1>9, <1>b, <2>1, ActiveRowsKept, ExitKeeps DEF Active, BuiltBeside
<1>10. CASE ValidateCommit(o)
  <2>1. ~At(o, "idle") /\ ~row[op[o].ds].is_active /\ op[o].command # "backfill_activate"
    BY <1>10, <1>b DEF ValidateCommit, At, SerialCall, GateCall
  <2>2. QED
    BY <1>9, <1>10, <2>1 DEF ValidateCommit
<1>11. CASE RebuildCommit(o)
  <2>1. ~At(o, "idle") /\ ~row[op[o].ds].is_active
    BY <1>11, <1>b DEF RebuildCommit, At, SerialCall
  <2>2. QED
    BY <1>9, <1>11, <2>1 DEF RebuildCommit
<1>12. QED
  BY <1>3, <1>4, <1>5, <1>6, <1>7, <1>8, <1>10, <1>11 DEF Building, Rebuilding

(***************************************************************************)
(* The activation up to its commit changes nothing that readers see.       *)
(***************************************************************************)
LEMMA ActivatingKeeps ==
  ASSUME Gated, Typed, Serialized, NEW o \in Operator, Activating(o), ~ActivateCommit(o)
  PROVE  Serialized' /\ UNCHANGED <<row, stored>>
<1> DEFINE Kept == Serialized' /\ UNCHANGED <<row, stored>>
<1>a. /\ TypeOK
      /\ ~At(o, "idle") => op[o].ds \in Dataset /\ op[o].saw \in State
  BY DEF Typed, CallInv, TypeOK, Call
<1>b. SerialInv /\ GateInv /\ SerialCall(o) /\ GateCall(o)
  BY DEF Serialized, SerialInv, GateInv
<1>c. ASSUME UNCHANGED row PROVE \A d \in Active' : row'[d].state = "active"
  BY <1>b, <1>c DEF SerialInv, Active
<1>1. ASSUME NEW d \in Dataset, StartActivate(o, d)
      PROVE  Kept
  <2>1. "assess" \in Step /\ "activate" \in Build \cup {"rebuild", "activate"}
    BY DEF Step
  <2>2. MayStart(o, "activate") /\ UNCHANGED <<row, stored>> /\ Started(o, "activate", d, "assess")
    BY <1>1 DEF StartActivate
  <2>3. /\ \A p \in Operator \ {o} : op'[p] = op[p]
        /\ op'[o].step = "assess" /\ op'[o].ds = d /\ op'[o].command = "activate"
        /\ op'[o].saw = row[d].state
    BY <1>a, <2>1, <2>2, StartedType
  <2>4. Turn(o)
    BY <2>2, <2>3, TurnStarting DEF Gated
  <2>5. SerialCall(o)' /\ GateCall(o)'
    BY <2>2, <2>3 DEF SerialCall, GateCall, At
  <2>6. QED
    BY <1>c, <2>2, <2>4, <2>5, TurnKeeps
\* The command goes on with what it saw.
<1>2. ASSUME ~At(o, "idle"), UNCHANGED <<row, stored>>,
             \A p \in Operator \ {o} : op'[p] = op[p],
             op'[o].ds = op[o].ds, op'[o].command = op[o].command, op'[o].saw = op[o].saw,
             op'[o].step \in {"activate", "update", "updating"},
             op[o].saw = row[op[o].ds].state, op[o].saw = "validated", Complete(stored[op[o].ds]),
             op'[o].step = "updating" => Active \subseteq op'[o].targets \cup op'[o].retired
      PROVE  Kept
  <2>1. Turn(o)
    BY <1>2, <1>b, TurnGoing
  <2>2. SerialCall(o)' /\ GateCall(o)'
    <3>1. Active' = Active
      BY <1>2 DEF Active
    <3>2. GateCall(o)'
      BY <1>2, <1>b DEF GateCall
    <3>3. QED
      BY <1>2, <3>1, <3>2 DEF SerialCall, At
  <2>3. QED
    BY <1>2, <1>c, <2>1, <2>2, TurnKeeps
<1>3. ASSUME ~At(o, "idle"), Exit(o), UNCHANGED <<row, stored>>
      PROVE  Kept
  BY <1>3, <1>c, ExitKeeps
<1>4. CASE Assess(o)
  <2>1. ~At(o, "idle") /\ UNCHANGED <<row, stored>> /\ op[o].saw = row[op[o].ds].state
    BY <1>4, <1>b DEF Assess, At, SerialCall
  <2>2. CASE Ready(o) /\ Goto(o, "activate")
    <3>1. op[o].saw = "validated" /\ Complete(stored[op[o].ds]) /\ "activate" \in Step
      BY <2>2 DEF Ready, Step
    <3>2. QED
      BY <1>2, <1>a, <2>1, <2>2, <3>1, GotoType
  <2>3. CASE Exit(o)
    BY <1>3, <2>1, <2>3
  <2>4. QED
    BY <1>4, <2>2, <2>3 DEF Assess
<1>5. ASSUME op[o].step \in {"activate", "update", "updating"}
      PROVE  /\ ~At(o, "idle") /\ Complete(stored[op[o].ds])
             /\ op[o].saw = row[op[o].ds].state /\ op[o].saw = "validated"
  BY <1>5, <1>b DEF At, SerialCall, GateCall
<1>6. CASE ActivateLock(o)
  <2>1. op[o].step = "activate" /\ UNCHANGED <<row, stored>>
    BY <1>6 DEF ActivateLock, At
  <2>2. CASE Exit(o)
    BY <1>3, <1>5, <2>1, <2>2
  <2>3. CASE Goto(o, "update")
    <3>1. "update" \in Step
      BY DEF Step
    <3>2. QED
      BY <1>2, <1>5, <1>a, <2>1, <2>3, <3>1, GotoType
  <2>4. QED
    BY <1>6, <2>2, <2>3 DEF ActivateLock
<1>7. CASE ActivateSnapshot(o)
  <2>1. op[o].step = "update" /\ UNCHANGED <<row, stored>>
    BY <1>7 DEF ActivateSnapshot, At
  <2>2. op'[o].targets = Active
    BY <1>7, <1>a, SnapshotCall DEF Active
  <2>3. QED
    BY <1>2, <1>5, <1>7, <1>a, <2>1, <2>2, SnapshotCall
<1>8. ASSUME NEW d \in Dataset, ActivateRetire(o, d)
      PROVE  Kept
  <2>1. op[o].step = "updating" /\ UNCHANGED <<row, stored>>
    BY <1>8 DEF ActivateRetire, At
  <2>2. Active \subseteq op[o].targets \cup op[o].retired
    BY <1>b, <2>1 DEF SerialCall, At
  <2>3. Active \subseteq op'[o].targets \cup op'[o].retired
    BY <1>8, <1>a, <2>2, RetireCall, ZenonT(40) DEF Active
  <2>4. QED
    BY <1>2, <1>5, <1>8, <1>a, <2>1, <2>3, RetireCall
<1>9. QED
  BY <1>1, <1>4, <1>6, <1>7, <1>8 DEF Activating

(***************************************************************************)
(* The commit publishes a complete candidate and retires all that was      *)
(* current, which the candidate was not.                                   *)
(***************************************************************************)
LEMMA CommitKeeps ==
  ASSUME Typed, Serialized, NEW o \in Operator, ActivateCommit(o)
  PROVE  /\ Serialized'
         /\ UNCHANGED stored
         /\ op[o].ds \in Dataset \ Active
         /\ Active' = {op[o].ds}
         /\ Complete(stored[op[o].ds])
<1>1. /\ op[o].ds \in Dataset /\ At(o, "updating") /\ ~At(o, "idle")
      /\ op[o].targets = {} /\ Exit(o) /\ UNCHANGED stored
  BY CommitStep DEF ActivateCommit, At
<1>2. /\ Complete(stored[op[o].ds]) /\ Active \subseteq op[o].retired
      /\ row[op[o].ds].state = "validated"
  BY <1>1 DEF Serialized, SerialInv, SerialCall, GateInv, GateCall, At
<1>3. op[o].ds \notin Active
  BY <1>2 DEF Serialized, SerialInv
<1>4. Active' = {op[o].ds} /\ row'[op[o].ds].state = "active"
  BY <1>1, <1>2, CommitStep DEF Active
<1>5. Serialized'
  BY <1>1, <1>4, ExitKeeps
<1>6. QED
  BY <1>1, <1>2, <1>3, <1>4, <1>5

(***************************************************************************)
(* Every step, as readers see it: a build of what is not current, nothing, *)
(* or a publication.                                                       *)
(***************************************************************************)
Published(d) ==
    /\ UNCHANGED stored
    /\ d \in Dataset \ Active
    /\ Active' = {d}
    /\ Complete(stored[d])

Unpublished ==
    /\ Active' = Active
    /\ BuiltBeside
    /\ \A d \in Active : row'[d] = row[d] /\ stored'[d] = stored[d]

\* Every step keeps the invariant.
LEMMA SerialStep ==
  ASSUME Gated, Typed, Serialized, [Next]_vars
  PROVE  Serialized' /\ (Unpublished \/ \E d \in Dataset : Published(d))
<1>1. ASSUME NEW o \in Operator, Building(o) \/ Rebuilding(o)
      PROVE  Serialized' /\ Unpublished
  BY <1>1, BuildingKeeps DEF Unpublished, RowsKept, Active
<1>2. ASSUME NEW o \in Operator, Activating(o), ~ActivateCommit(o)
      PROVE  Serialized' /\ Unpublished
  BY <1>2, ActivatingKeeps DEF Unpublished, Active, BuiltBeside
<1>3. ASSUME NEW o \in Operator, ActivateCommit(o)
      PROVE  Serialized' /\ \E d \in Dataset : Published(d)
  BY <1>3, CommitKeeps DEF Published
<1>4. ASSUME NEW o \in Operator, Abort(o)
      PROVE  Serialized' /\ Unpublished
  <2>1. ~At(o, "idle") /\ Exit(o) /\ UNCHANGED <<row, stored>>
    BY <1>4 DEF Abort
  <2>2. \A d \in Active' : row'[d].state = "active"
    BY <2>1 DEF Active, Serialized, SerialInv
  <2>3. QED
    BY <2>1, <2>2, ExitKeeps DEF Unpublished, Active, BuiltBeside
<1>5. CASE UNCHANGED vars
  BY <1>5 DEF vars, BuiltBeside, Unpublished, Serialized, SerialInv, SerialCall, GateInv, GateCall, Active,
              At
<1>6. QED
  BY <1>1, <1>2, <1>3, <1>4, <1>5 DEF Next

\* It holds initially.
LEMMA SerializedInit == Init => Serialized
BY DEF Init, Idle, Serialized, SerialInv, SerialCall, GateInv, GateCall, Active, At

\* So it holds in every reachable state.
LEMMA SerialCorrect ==
  ASSUME Gated
  PROVE  Spec => [](Typed /\ Serialized)
<1>1. Typed /\ Serialized /\ [Next]_vars => Serialized'
  BY SerialStep
<1>2. QED
  BY <1>1, SerializedInit, TypedCorrect, PTL DEF Spec

(***************************************************************************)
(* Readers have one version to choose from.                                *)
(***************************************************************************)
THEOREM OneVersion ==
  ASSUME Gated
  PROVE  Spec => []AtMostOneActive
<1>1. Init => AtMostOneActive
  BY DEF Init, AtMostOneActive, Active
<1>2. Typed /\ Serialized /\ AtMostOneActive /\ [Next]_vars => AtMostOneActive'
  <2> SUFFICES ASSUME Typed, Serialized, AtMostOneActive, [Next]_vars
               PROVE  AtMostOneActive'
    OBVIOUS
  <2>1. Unpublished \/ \E d \in Dataset : Published(d)
    BY SerialStep
  <2>2. QED
    BY <2>1 DEF AtMostOneActive, Unpublished, Published
<1>3. QED
  BY <1>1, <1>2, SerialCorrect, PTL DEF Spec

(***************************************************************************)
(* What is current has passed the gate: its meetings are fit, and at least *)
(* 99.5 % of the actionable TDocs of the whole version are covered, ...    *)
(***************************************************************************)
THEOREM OnlyCompleteVersions ==
  ASSUME Gated
  PROVE  Spec => []PublishedComplete
<1>1. Init => PublishedComplete
  BY DEF Init, PublishedComplete, Active
<1>2. Typed /\ Serialized /\ PublishedComplete /\ [Next]_vars => PublishedComplete'
  <2> SUFFICES ASSUME Typed, Serialized, PublishedComplete, [Next]_vars
               PROVE  PublishedComplete'
    OBVIOUS
  <2>1. Unpublished \/ \E d \in Dataset : Published(d)
    BY SerialStep
  <2>2. QED
    BY <2>1 DEF PublishedComplete, Unpublished, Published
<1>3. QED
  BY <1>1, <1>2, SerialCorrect, PTL DEF Spec

(***************************************************************************)
(* ... and does not change as long as it is current.                       *)
(***************************************************************************)
THEOREM VersionsImmutable ==
  ASSUME Gated
  PROVE  Spec => ActiveImmutable
<1>1. Typed /\ Serialized /\ [Next]_vars =>
        [\A d \in Active \cap Active' : stored'[d] = stored[d] /\ row'[d] = row[d]]_vars
  <2> SUFFICES ASSUME Typed, Serialized, [Next]_vars, NEW d \in Active \cap Active'
               PROVE  stored'[d] = stored[d] /\ row'[d] = row[d]
    OBVIOUS
  <2>1. Unpublished \/ \E e \in Dataset : Published(e)
    BY SerialStep
  <2>2. QED
    BY <2>1 DEF Unpublished, Published
<1>2. QED
  BY <1>1, SerialCorrect, PTL DEF Spec, ActiveImmutable

(***************************************************************************)
(* The tables implement atomic publication: a build of what is not current *)
(* maps to Build, the commit of an activation to Publish, and every other  *)
(* step to a stuttering step.                                              *)
(***************************************************************************)
LEMMA CurrentIsActive ==
  (Current = NoDataset /\ Active = {}) \/ Current \in Active
BY DEF Current

\* Nothing is published initially, in both specifications.
LEMMA InitRefines == Init => Publication!Init
<1> SUFFICES ASSUME Init PROVE Publication!Init
  OBVIOUS
<1>1. Active = {}
  BY DEF Init, Active
<1>2. QED
  BY <1>1, CurrentIsActive DEF Init, Publication!Init

\* Every step of a command is a step of publication or leaves it alone.
LEMMA StepRefines ==
  ASSUME Gated, Typed, Typed', Serialized, [Next]_vars
  PROVE  [Publication!Next]_<<Current, stored>>
<1>1. Unpublished \/ \E d \in Dataset : Published(d)
  BY SerialStep
<1>2. CASE Unpublished
  <2>1. Current' = Current
    BY <1>2 DEF Unpublished, Current
  <2>2. ASSUME NEW d \in Dataset \ Active,
               \A e \in Dataset \ {d} : stored'[e] = stored[e]
        PROVE  Publication!Build(d)
    <3>1. d # Current
      BY CurrentIsActive, PublicationAssumption
    <3>2. stored \in [Dataset -> Content] /\ stored' \in [Dataset -> Content]
      BY DEF Typed, TypeOK
    <3>3. stored' = [stored EXCEPT ![d] = stored'[d]] /\ stored'[d] \in Content
      BY <2>2, <3>2
    <3>4. QED
      BY <2>1, <3>1, <3>3 DEF Publication!Build
  <2>3. QED
    BY <1>2, <2>1, <2>2 DEF Unpublished, BuiltBeside, Publication!Next
<1>3. ASSUME NEW d \in Dataset, Published(d)
      PROVE  Publication!Publish(d)
  <2>1. Current' = d
    BY <1>3 DEF Published, Current
  <2>2. stored[d] \in {content \in Content : Complete(content)}
    BY <1>3 DEF Published, Typed, TypeOK
  <2>3. QED
    BY <1>3, <2>1, <2>2 DEF Published, Publication!Publish
<1>4. QED
  BY <1>1, <1>2, <1>3 DEF Publication!Next

\* Serial commands whose activations are assessed implement atomic publication.
THEOREM Refinement ==
  ASSUME Gated
  PROVE  Spec => PublicationIsAtomic
<1>1. Typed /\ Serialized /\ Typed' /\ [Next]_vars => [Publication!Next]_<<Current, stored>>
  BY StepRefines
<1>2. QED
  BY <1>1, InitRefines, SerialCorrect, PTL DEF Spec, PublicationIsAtomic, Publication!Spec
=============================================================================
