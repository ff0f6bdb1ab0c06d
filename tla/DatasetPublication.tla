------------------------- MODULE DatasetPublication -------------------------
(***************************************************************************)
(* The life cycle of dataset versions: operators run the commands of       *)
(* cli.py against one PostgreSQL database, several at a time.              *)
(*                                                                         *)
(*   backfill, ingest   mark the candidate as building, store meetings in  *)
(*                      many transactions, validate                        *)
(*   backfill_activate  the same, then activate (backfill --activate)      *)
(*   rebuild            rewrite the graph of a candidate and validate it   *)
(*   activate           assess the candidate's readiness, then activate    *)
(*                                                                         *)
(* Transactions run at READ COMMITTED, the engine's default.  A command    *)
(* reads a row in one step and writes it in a later one; what it read is   *)
(* kept in "saw", as the session's identity map keeps it.                  *)
(***************************************************************************)
EXTENDS FiniteSets, Naturals

CONSTANTS
    Dataset,    \* dataset version identifiers
    Meeting,    \* meetings that can be ingested
    Operator,   \* people and jobs that run commands
    Command,    \* the commands they run
    Tally,      \* counts of TDocs that a version can reach
    Serial      \* TRUE: a command is started only when no other is running

Build == {"backfill", "backfill_activate", "ingest"}

Nobody == "nobody"
NoDataset == "no dataset"
NoTDocs == [listed |-> 0, actionable |-> 0, archived |-> 0, handled |-> 0]

ASSUME PublicationAssumption ==
    /\ Command \subseteq Build \cup {"rebuild", "activate"}
    /\ Serial \in BOOLEAN
    /\ Nobody \notin Operator
    /\ NoDataset \notin Dataset
    /\ Tally \subseteq [listed : Nat, actionable : Nat, archived : Nat, handled : Nat]
    /\ NoTDocs \in Tally

VARIABLES
    row,        \* the dataset_versions table, as committed
    stored,     \* what each dataset holds, as committed
    lock,       \* the operator whose open transaction locks the row
    op          \* what each operator's command is doing

vars == <<row, stored, lock, op>>

-----------------------------------------------------------------------------
\* "absent" stands for no row.
State == {"absent", "building", "validated", "active", "superseded"}

Row == [state : State, is_active : BOOLEAN]

\* A meeting is fit when it is dated, has a parsed report, and no artifact of it
\* has an invalid parse status.
Fitness == {"absent", "unfit", "fit"}

\* TDocs are counted over the whole dataset: those listed; of these, those that
\* are not reserved, withdrawn, revised or not pursued; of the latter, those with
\* an archive, and those with a body that is parsed or quarantined.
Content == [meeting : [Meeting -> Fitness], tally : Tally]

Nothing == [meeting |-> [m \in Meeting |-> "absent"], tally |-> NoTDocs]

Step == {"idle", "mark", "ingest", "validate", "validated", "rebuild",
         "assess", "activate", "update", "updating"}

Call == [step : Step,
         command : Build \cup {"rebuild", "activate", "none"},
         ds : Dataset \cup {NoDataset},
         saw : State,               \* the row's state, as last read
         taken : SUBSET Meeting,    \* the meetings of this run
         passed : BOOLEAN,          \* every meeting of this run passed its own check
         targets : SUBSET Dataset,  \* active rows the UPDATE still has to visit
         retired : SUBSET Dataset]  \* rows it has set to superseded, uncommitted

Idle == [step |-> "idle", command |-> "none", ds |-> NoDataset, saw |-> "absent",
         taken |-> {}, passed |-> TRUE, targets |-> {}, retired |-> {}]

TypeOK ==
    /\ row \in [Dataset -> Row]
    /\ stored \in [Dataset -> Content]
    /\ lock \in [Dataset -> Operator \cup {Nobody}]
    /\ op \in [Operator -> Call]

Holds(content, m) == content.meeting[m] # "absent"

\* There are meetings, and there are TDocs.
Filled(content) == (\E m \in Meeting : Holds(content, m)) /\ content.tally.listed > 0

NonEmpty(d) == Filled(stored[d])

\* At least 99.5 % of the actionable TDocs, which no count of none is.
Covered(count, tally) == tally.actionable > 0 /\ 1000 * count >= 995 * tally.actionable

\* The gate: every meeting is fit, the dataset as a whole is covered.  A meeting
\* without archives or bodies does not count by itself.
Complete(content) ==
    /\ Filled(content)
    /\ \A m \in Meeting : content.meeting[m] # "unfit"
    /\ Covered(content.tally.archived, content.tally)
    /\ Covered(content.tally.handled, content.tally)

Init ==
    /\ row = [d \in Dataset |-> [state |-> "absent", is_active |-> FALSE]]
    /\ stored = [d \in Dataset |-> Nothing]
    /\ lock = [d \in Dataset |-> Nobody]
    /\ op = [o \in Operator |-> Idle]

-----------------------------------------------------------------------------
At(o, step) == op[o].step = step

Goto(o, step) == op' = [op EXCEPT ![o].step = step]

\* The command returns or raises; a transaction it has open is rolled back.
Exit(o) ==
    /\ op' = [op EXCEPT ![o] = Idle]
    /\ lock' = [d \in Dataset |-> IF lock[d] = o THEN Nobody ELSE lock[d]]

MayStart(o, command) ==
    /\ command \in Command
    /\ At(o, "idle")
    /\ Serial => \A other \in Operator : At(other, "idle")

Started(o, command, d, step) ==
    op' = [op EXCEPT ![o] = [Idle EXCEPT !.step = step, !.command = command, !.ds = d,
                                         !.saw = row[d].state]]

-----------------------------------------------------------------------------
(* run_backfill and ingest_local_manifests.                                 *)

\* mutant: the candidate is not asked whether it is active
StartBuildOfAny(o, command, d) ==
    /\ command \in Build
    /\ MayStart(o, command)
    /\ Started(o, command, d, "mark")
    /\ UNCHANGED <<row, stored, lock>>

\* An active dataset is refused; this is the only time is_active is looked at.
StartBuild(o, command, d) ==
    /\ command \in Build
    /\ MayStart(o, command)
    /\ ~row[d].is_active
    /\ Started(o, command, d, "mark")
    /\ UNCHANGED <<row, stored, lock>>

\* The candidate found is set to building (no UPDATE is sent when it was seen
\* building); the one not found is created here by ingest, and by backfill
\* with its first meeting.
Mark(o) ==
    LET d == op[o].ds IN
    /\ At(o, "mark")
    /\ op[o].saw \in {"absent", "building"} \/ lock[d] = Nobody
    /\ row' = [row EXCEPT ![d].state =
                 CASE op[o].saw \notin {"absent", "building"} -> "building"
                   [] op[o].saw = "absent" /\ @ = "absent"
                      /\ op[o].command = "ingest" -> "building"
                   [] OTHER -> @]
    /\ Goto(o, "ingest")
    /\ UNCHANGED <<stored, lock>>

\* One transaction of _ingest_meeting or _ingest_local_meeting: it adds to the
\* meeting, or leaves it with a failed artifact; no TDoc is ever deleted.
IngestMeeting(o, m) ==
    LET d == op[o].ds IN
    /\ At(o, "ingest")
    /\ \E fitness \in {"unfit", "fit"}, tally \in Tally :
         /\ tally.listed >= stored[d].tally.listed
         /\ stored' = [stored EXCEPT
              ![d] = [meeting |-> [@.meeting EXCEPT ![m] = fitness], tally |-> tally]]
    /\ \E passed \in {op[o].passed, FALSE} :
         op' = [op EXCEPT ![o].passed = passed, ![o].taken = @ \cup {m}]
    /\ row' = [row EXCEPT ![d].state = IF @ = "absent" THEN "building" ELSE @]
    /\ UNCHANGED lock

\* A backfill takes at least one meeting.  _validate_activation_readiness looks
\* at the meetings of this run only, and at neither their dates nor whether they
\* have a report.
FinishIngest(o) ==
    /\ At(o, "ingest")
    /\ op[o].command # "ingest" => op[o].taken # {}
    /\ op[o].command = "backfill_activate" => op[o].passed
    /\ Goto(o, "validate")
    /\ UNCHANGED <<row, stored, lock>>

\* mutant: an empty dataset passes
ValidateReadOfEmpty(o) ==
    LET d == op[o].ds IN
    /\ At(o, "validate")
    /\ op' = [op EXCEPT ![o].step = "validated", ![o].saw = row[d].state]
    /\ UNCHANGED <<row, stored, lock>>

\* validate_dataset reads the row, counts and checks the graph, ...
ValidateRead(o) ==
    LET d == op[o].ds IN
    /\ At(o, "validate")
    /\ NonEmpty(d)
    /\ op' = [op EXCEPT ![o].step = "validated", ![o].saw = row[d].state]
    /\ UNCHANGED <<row, stored, lock>>

\* mutant: a state the schema does not know
ValidatedAsReady(d, saw) ==
    [row EXCEPT ![d].state = IF saw # "validated" THEN "ready" ELSE @]

Validated(d, saw) ==
    [row EXCEPT ![d].state = IF saw # "validated" THEN "validated" ELSE @]

\* ... then sets the state, whatever the row has become in the meantime.
ValidateCommit(o) ==
    LET d == op[o].ds IN
    /\ At(o, "validated")
    /\ lock[d] = Nobody
    /\ row' = Validated(d, op[o].saw)
    /\ IF op[o].command = "backfill_activate"
       THEN Goto(o, "activate") /\ UNCHANGED lock
       ELSE Exit(o)
    /\ UNCHANGED stored

-----------------------------------------------------------------------------
(* rebuild_graph: one transaction around the new graph and its validation.  *)

StartRebuild(o, d) ==
    /\ MayStart(o, "rebuild")
    /\ row[d].state # "absent" /\ ~row[d].is_active
    /\ Started(o, "rebuild", d, "rebuild")
    /\ UNCHANGED <<row, stored, lock>>

RebuildCommit(o) ==
    LET d == op[o].ds IN
    /\ At(o, "rebuild")
    /\ NonEmpty(d)
    /\ lock[d] = Nobody
    /\ row' = Validated(d, op[o].saw)
    /\ Exit(o)
    /\ UNCHANGED stored

-----------------------------------------------------------------------------
(* assess_activation_readiness and activate_dataset.                        *)

StartActivate(o, d) ==
    /\ MayStart(o, "activate")
    /\ row[d].state # "absent"
    /\ Started(o, "activate", d, "assess")
    /\ UNCHANGED <<row, stored, lock>>

\* mutant: the state alone decides
ReadyByState(o) == op[o].saw = "validated"

\* mutant: bodies are not counted
ReadyWithoutBodies(o) ==
    LET content == stored[op[o].ds] IN
    /\ op[o].saw = "validated"
    /\ Complete([content EXCEPT !.tally.handled = content.tally.actionable])

Ready(o) == op[o].saw = "validated" /\ Complete(stored[op[o].ds])

Assess(o) ==
    /\ At(o, "assess")
    /\ IF Ready(o) THEN Goto(o, "activate") /\ UNCHANGED lock ELSE Exit(o)
    /\ UNCHANGED <<row, stored>>

\* SELECT ... FOR UPDATE.  The session of the activate command has loaded the
\* row before, so the state it compares is the one it saw when it assessed.
ActivateLock(o) ==
    LET d == op[o].ds
        state == IF op[o].command = "activate" THEN op[o].saw ELSE row[d].state
    IN
    /\ At(o, "activate")
    /\ lock[d] = Nobody
    /\ IF state = "validated"
       THEN lock' = [lock EXCEPT ![d] = o] /\ Goto(o, "update")
       ELSE Exit(o)
    /\ UNCHANGED <<row, stored>>

\* UPDATE ... WHERE is_active: the statement's snapshot fixes the rows it visits;
ActivateSnapshot(o) ==
    /\ At(o, "update")
    /\ op' = [op EXCEPT ![o].step = "updating",
                        ![o].targets = {d \in Dataset : row[d].is_active}]
    /\ UNCHANGED <<row, stored, lock>>

\* mutant: each row is committed as it is updated
ActivateRetireCommitted(o, d) ==
    /\ At(o, "updating")
    /\ d \in op[o].targets
    /\ lock[d] \in {Nobody, o}
    /\ op' = [op EXCEPT ![o].targets = @ \ {d}]
    /\ row' = [row EXCEPT ![d] = [state |-> "superseded", is_active |-> FALSE]]
    /\ UNCHANGED <<lock, stored>>

\* it waits for the lock of each, and skips one that is no longer active.
ActivateRetire(o, d) ==
    /\ At(o, "updating")
    /\ d \in op[o].targets
    /\ lock[d] \in {Nobody, o}
    /\ IF row[d].is_active
       THEN /\ lock' = [lock EXCEPT ![d] = o]
            /\ op' = [op EXCEPT ![o].targets = @ \ {d}, ![o].retired = @ \cup {d}]
       ELSE /\ op' = [op EXCEPT ![o].targets = @ \ {d}]
            /\ UNCHANGED lock
    /\ UNCHANGED <<row, stored>>

\* mutant: the old version is left as it is
ActivatedBeside(o) ==
    [d \in Dataset |->
        IF d = op[o].ds THEN [state |-> "active", is_active |-> TRUE] ELSE row[d]]

\* mutant: the old version's state is changed, its flag is forgotten
ActivatedKeepingFlag(o) ==
    [d \in Dataset |->
        IF d = op[o].ds THEN [state |-> "active", is_active |-> TRUE]
        ELSE IF d \in op[o].retired THEN [row[d] EXCEPT !.state = "superseded"]
        ELSE row[d]]

\* The candidate's own row is written last; then everything commits at once.
Activated(o) ==
    [d \in Dataset |->
        IF d = op[o].ds THEN [state |-> "active", is_active |-> TRUE]
        ELSE IF d \in op[o].retired THEN [state |-> "superseded", is_active |-> FALSE]
        ELSE row[d]]

ActivateCommit(o) ==
    /\ At(o, "updating")
    /\ op[o].targets = {}
    /\ row' = Activated(o)
    /\ Exit(o)
    /\ UNCHANGED stored

-----------------------------------------------------------------------------
\* A download fails, a check raises, the process is killed, or the database
\* aborts the transaction as the victim of a deadlock.
Abort(o) ==
    /\ ~At(o, "idle")
    /\ Exit(o)
    /\ UNCHANGED <<row, stored>>

Building(o) ==
    \/ \E command \in Build, d \in Dataset : StartBuild(o, command, d)
    \/ Mark(o)
    \/ \E m \in Meeting : IngestMeeting(o, m)
    \/ FinishIngest(o) \/ ValidateRead(o) \/ ValidateCommit(o)

Rebuilding(o) == RebuildCommit(o) \/ \E d \in Dataset : StartRebuild(o, d)

Activating(o) ==
    \/ \E d \in Dataset : StartActivate(o, d) \/ ActivateRetire(o, d)
    \/ Assess(o) \/ ActivateLock(o) \/ ActivateSnapshot(o) \/ ActivateCommit(o)

Next == \E o \in Operator : Building(o) \/ Rebuilding(o) \/ Activating(o) \/ Abort(o)

Spec == Init /\ [][Next]_vars

-----------------------------------------------------------------------------
(* Safety, whatever commands run at the same time.                          *)

Active == {d \in Dataset : row[d].is_active}

\* The two columns that record publication do not contradict each other: what
\* the state calls active is what readers are served, and a superseded version
\* is not (activate_dataset writes both columns of both rows).
StateMatchesFlag ==
    \A d \in Dataset :
        /\ row[d].state = "active" => row[d].is_active
        /\ row[d].state \in {"absent", "superseded"} => ~row[d].is_active

\* Once a version is current readers always find one, through any mix of
\* activations that overlap, deadlock or die half-way.
NeverUnpublished == [][Active # {} => Active' # {}]_vars

\* No version without meetings or without TDocs is ever current, although the state
\* that the activation compares may be out of date.
PublishedNonEmpty == \A d \in Active : NonEmpty(d)

-----------------------------------------------------------------------------
(* Safety when commands run one after the other.                            *)

\* Readers have one version to choose from.
AtMostOneActive == \A d, e \in Active : d = e

\* A current version is immutable: backfill and local ingestion refuse it and
\* rebuild-graph is restricted to inactive datasets.
ActiveImmutable ==
    [][\A d \in Active \cap Active' :
         stored'[d] = stored[d] /\ row'[d] = row[d]]_vars

\* A current version is complete as the gate has it: every meeting dated, reported
\* and without invalid artifacts, the actionable TDocs of the whole version covered
\* ("Activation validates completeness before making the candidate dataset
\* current", README.md).
PublishedComplete == \A d \in Active : Complete(stored[d])

\* What the same sentence says of meetings that other runs have stored: a version
\* is not made current while one of them is unfit, whichever command activates it.
OthersAssessed ==
    [][\A o \in Operator, d \in Active' \ Active :
         At(o, "updating") /\ op[o].ds = d =>
             \A m \in Meeting \ op[o].taken : stored[d].meeting[m] # "unfit"]_vars

\* The version a reader finds.
Current == IF Active = {} THEN NoDataset ELSE CHOOSE d \in Active : TRUE

Publication ==
    INSTANCE AtomicPublication WITH
        current <- Current, contents <- stored,
        Publishable <- {content \in Content : Complete(content)}

\* Serial commands without backfill --activate implement atomic publication.
PublicationIsAtomic == Publication!Spec

-----------------------------------------------------------------------------
(* The inductive invariants.                                                *)

\* A command under way works on a dataset.
CallInv == \A o \in Operator : ~At(o, "idle") => op[o].ds \in Dataset

\* Behind PublishedNonEmpty: whoever believes a dataset validated, the table or
\* a command, is right that it holds a meeting and a TDoc.
EvidenceInv ==
    /\ \A d \in Dataset :
         row[d].state \in {"validated", "active"} \/ row[d].is_active => NonEmpty(d)
    /\ \A o \in Operator :
         At(o, "validated") \/ At(o, "update") \/ At(o, "updating")
           \/ (~At(o, "idle") /\ op[o].saw = "validated")
         => NonEmpty(op[o].ds)

\* Behind the serial properties: one command at a time; a command that builds
\* does not build what is current; an activation knows its candidate's state
\* and will retire all that is current.
SerialCall(o) ==
    /\ op[o].step \in {"mark", "ingest", "validate", "validated", "rebuild"} =>
         ~row[op[o].ds].is_active
    /\ op[o].step \in {"assess", "activate", "update", "updating"} =>
         op[o].saw = row[op[o].ds].state
    /\ op[o].step \in {"activate", "update", "updating"} => op[o].saw = "validated"
    /\ At(o, "updating") => Active \subseteq op[o].targets \cup op[o].retired

SerialInv ==
    /\ \A o, p \in Operator : ~At(o, "idle") /\ ~At(p, "idle") => o = p
    /\ \A d \in Active : row[d].state = "active"
    /\ \A o \in Operator : SerialCall(o)

\* Behind PublishedComplete: the assessment still holds when its candidate is
\* activated, and no other command activates.
GateCall(o) ==
    /\ op[o].command # "backfill_activate"
    /\ op[o].step \in {"activate", "update", "updating"} => Complete(stored[op[o].ds])

GateInv == \A o \in Operator : GateCall(o)

=============================================================================
