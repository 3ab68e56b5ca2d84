------------------------------- MODULE AutoLot -------------------------------
(***************************************************************************)
(* Automatic grouping of deployments into lots: src/src/lib/autoLot.ts,    *)
(* run after each ingestion (lib/ingest.ts, lib/ingestDeployment.ts) and   *)
(* by the sweep (api/v1/lots/auto-group), against the people who set lots  *)
(* by hand (lib/deployLot.ts assignLot, lib/events.ts setEventLot).        *)
(*                                                                         *)
(* attachToAutoLot reads the event, counts, reads its neighbours, counts   *)
(* for each, and at last updates by identifier all it kept: every await is *)
(* a step here.  All deployments are of one company and one environment,   *)
(* and recent enough for the sweep; none changes its date.                 *)
(***************************************************************************)
EXTENDS Integers, FiniteSets

CONSTANTS Recent,         \* deployments of one company and environment
          Handlers,       \* ingestion requests running at once
          Sweeps,         \* runs of the sweep at once
          At,             \* At[d]: its occurredAt
          Window,         \* autoLotWindowMinutes
          Masters,        \* deployments of a main service
          NamedByMaster,  \* the company's autoLotNaming is "master"
          Lots,           \* labels that bodies and people give
          MaxEdits        \* bound: edits by hand, PUTs and failures

ASSUME LotAssumption ==
    /\ IsFiniteSet(Recent)
    /\ Handlers \cap Sweeps = {}
    /\ {"settled", "none"} \cap Sweeps = {}
    /\ At \in [Recent -> Nat \ {0}]
    /\ Window \in Nat
    /\ Masters \subseteq Recent
    /\ NamedByMaster \in BOOLEAN
    /\ MaxEdits \in Nat

Times == {At[d] : d \in Recent}

VARIABLES row,    \* row[d]: the columns of Event that matter here
          task,   \* task[w]: the attachToAutoLot that w is running
          queue,  \* queue[s]: identifiers the sweep s has still to attach
          edits,
          calm    \* history: the sweep that has run alone since it began,
                  \* "settled" once one ended that way, "none" otherwise

lotVars == << row, task, queue, edits, calm >>

Workers == Handlers \cup Sweeps

\* A label: a name given by people, or a stem and the date of an anchor.
NoLot == << "null", 0 >>

given(l) == << l, 0 >>

Labels == {NoLot} \cup {given(l) : l \in Lots}
              \cup (({"LOT-AUTO"} \cup Masters) \X Times)

absentDeployment == [at |-> 0, lot |-> NoLot, auto |-> FALSE, live |-> FALSE]

deployment(d, lot, auto) == [at |-> At[d], lot |-> lot, auto |-> auto, live |-> TRUE]

live == {d \in Recent : row[d].live}

\* What a query returned of a row.
Cand == [id : Recent, at : Times, lot : Labels, auto : BOOLEAN]

cand(d) == [id |-> d, at |-> row[d].at, lot |-> row[d].lot, auto |-> row[d].auto]

(***************************************************************************)
(* attachToAutoLot between two of its awaits.                              *)
(*   "attach"  : called, nothing read        "counting": counts its own lot*)
(*   "searching": looks for neighbours       "sifting" : counts for each   *)
(***************************************************************************)
NoTask == [pc |-> "idle"]

attaching(d) == [pc |-> "attach", ev |-> d, seen |-> {}, cands |-> {}]

LotInit ==
    /\ row = [d \in Recent |-> absentDeployment]
    /\ task = [w \in Workers |-> NoTask]
    /\ queue = [s \in Sweeps |-> {}]
    /\ edits = 0
    /\ calm = "none"

-----------------------------------------------------------------------------
earliest(C) == {c \in C : \A e \in C : c.at <= e.at}

isMultiMember(lot) ==
    lot # NoLot /\ Cardinality({d \in live : row[d].lot = lot}) > 1

to(w, pc) == task' = [task EXCEPT ![w].pc = pc]

findEvent(w) ==
    /\ task[w].pc = "attach"
    /\ LET c == cand(task[w].ev)
       IN  task' = [task EXCEPT ![w].seen = {c},
                       ![w].pc = IF ~c.auto /\ c.lot # NoLot THEN "counting" ELSE "searching"]
    /\ UNCHANGED << row, queue, edits, calm >>

\* A member of a lot that somebody made by hand is left alone.
countOwn(w) ==
    /\ task[w].pc = "counting"
    /\ \E c \in task[w].seen :
          IF isMultiMember(c.lot) THEN task' = [task EXCEPT ![w] = NoTask]
                                  ELSE to(w, "searching")
    /\ UNCHANGED << row, queue, edits, calm >>

\* Mutant: whatever the table holds.
neighboursEver(d) == {e \in Recent : row[e].at - row[d].at \in -Window..Window}

neighbours(d) == {e \in live : row[e].at - row[d].at \in -Window..Window}

findNeighbours(w) ==
    /\ task[w].pc = "searching"
    /\ task' = [task EXCEPT ![w].pc = "sifting",
                            ![w].seen = {cand(e) : e \in neighbours(task[w].ev)}]
    /\ UNCHANGED << row, queue, edits, calm >>

\* Mutant: everything in the window is grouped.
eligibleAnyway(c) == TRUE

\* Mutant: nothing is added to a lot that has members.
eligibleAlone(c) == ~isMultiMember(c.lot)

eligible(c) == c.auto \/ ~isMultiMember(c.lot)

sift(w) ==
    /\ task[w].pc = "sifting"
    /\ \E c \in earliest(task[w].seen) :
          task' = [task EXCEPT ![w].seen = @ \ {c},
                               ![w].cands = IF eligible(c) THEN @ \cup {c} ELSE @]
    /\ UNCHANGED << row, queue, edits, calm >>

\* Mutant: a group always gets a name of its own.
newName(C) == {<< "LOT-AUTO", c.at >> : c \in earliest(C)}

\* The lot of the first candidate that has an automatic one, else a new label
\* for the date of the first; rows of one date come in any order.
lotFor(C) ==
    LET grouped == {c \in C : c.auto /\ c.lot # NoLot}
        masters == {c \in C : c.id \in Masters}
        anchor == CHOOSE t \in Times : \A c \in earliest(C) : c.at = t
    IN  IF grouped # {} THEN {c.lot : c \in earliest(grouped)}
        ELSE IF NamedByMaster /\ masters # {}
             THEN {<< c.id, anchor >> : c \in earliest(masters)}
             ELSE {<< "LOT-AUTO", anchor >>}

\* Mutant: two neighbours are not enough.
enoughOfThree(C) == Cardinality(C) > 2

enough(C) == Cardinality(C) > 1

\* updateMany by identifier: whatever those rows have become meanwhile.
group(w) ==
    /\ task[w].pc = "sifting"
    /\ task[w].seen = {}
    /\ LET C == task[w].cands
           ids == {c.id : c \in C}
       IN  IF ~enough(C) THEN row' = row
           ELSE \E lot \in lotFor(C) :
                   row' = [d \in Recent |->
                              IF d \in ids THEN deployment(d, lot, TRUE) ELSE row[d]]
    /\ task' = [task EXCEPT ![w] = NoTask]
    /\ UNCHANGED << queue, edits, calm >>

-----------------------------------------------------------------------------
idle(w) == task[w] = NoTask /\ (w \in Sweeps => queue[w] = {})

\* No lot is shared by deployments grouped by the code and others.
unmixed ==
    \A d, e \in live :
        row[d].lot = row[e].lot /\ row[d].lot # NoLot => row[d].auto = row[e].auto

\* sweepAutoLots lists the deployments by date ...
sweepAutoLots(s) ==
    /\ idle(s)
    /\ live # {}
    /\ queue' = [queue EXCEPT ![s] = live]
    /\ calm' = IF calm = "settled" THEN calm
               ELSE IF unmixed /\ \A w \in Workers : idle(w) THEN s ELSE "none"
    /\ UNCHANGED << row, task, edits >>

\* ... and attaches one after the other.
sweepNext(s) ==
    /\ task[s] = NoTask
    /\ \E c \in earliest({cand(d) : d \in queue[s]}) :
          /\ queue' = [queue EXCEPT ![s] = @ \ {c.id}]
          /\ task' = [task EXCEPT ![s] = attaching(c.id)]
    /\ UNCHANGED << row, edits, calm >>

sweepEnds(s) ==
    /\ calm = s
    /\ idle(s)
    /\ calm' = "settled"
    /\ UNCHANGED << row, task, queue, edits >>

-----------------------------------------------------------------------------
\* POST, ingest: the row, and then the attachment, in the same request.
ingest(h, d, l) ==
    /\ idle(h)
    /\ ~row[d].live
    /\ row' = [row EXCEPT ![d] = deployment(d, given(l), FALSE)]
    /\ task' = [task EXCEPT ![h] = attaching(d)]
    /\ calm' = "none"
    /\ UNCHANGED << queue, edits >>

edit ==
    /\ edits < MaxEdits
    /\ edits' = edits + 1
    /\ calm' = "none"

\* PUT by externalId rewrites the lot and leaves autoLot, and attaches too.
overwrite(h, d, l) ==
    /\ idle(h)
    /\ row[d].live
    /\ row' = [row EXCEPT ![d].lot = given(l)]
    /\ task' = [task EXCEPT ![h] = attaching(d)]
    /\ edit
    /\ UNCHANGED queue

\* One date and one lot for all, and no attachment.
createLotAction(D, l) ==
    /\ D # {}
    /\ D \cap live = {}
    /\ \A d, e \in D : At[d] = At[e]
    /\ row' = [d \in Recent |-> IF d \in D THEN deployment(d, given(l), FALSE) ELSE row[d]]
    /\ calm' = "none"
    /\ UNCHANGED << task, queue, edits >>

\* createLotFromExistingAction: by hand, and no longer automatic.
assignLot(D, l) ==
    /\ row' = [d \in Recent |->
                  IF d \in D \cap live THEN deployment(d, given(l), FALSE) ELSE row[d]]
    /\ edit
    /\ UNCHANGED << task, queue >>

\* updateEventLotAction: the label, or none, and autoLot as it was.
setEventLot(d, lot) ==
    /\ row[d].live
    /\ row' = [row EXCEPT ![d].lot = lot]
    /\ edit
    /\ UNCHANGED << task, queue >>

\* An await throws: ingestion goes on without, a sweep ends there.
fail(w) ==
    /\ ~idle(w)
    /\ task' = [task EXCEPT ![w] = NoTask]
    /\ queue' = [s \in Sweeps |-> IF s = w THEN {} ELSE queue[s]]
    /\ edit
    /\ UNCHANGED row

-----------------------------------------------------------------------------
attachToAutoLot(w) ==
    findEvent(w) \/ countOwn(w) \/ findNeighbours(w) \/ sift(w) \/ group(w)

sweep(s) == sweepAutoLots(s) \/ sweepNext(s) \/ sweepEnds(s) \/ attachToAutoLot(s)

byHand ==
    \E l \in Lots :
        \/ \E D \in SUBSET Recent :
              assignLot(D, l) \/ createLotAction(D, l)
        \/ \E d \in Recent, lot \in {given(l), NoLot} : setEventLot(d, lot)

LotNext ==
    \/ \E h \in Handlers :
          \/ attachToAutoLot(h)
          \/ \E d \in Recent, l \in Lots :
                overwrite(h, d, l) \/ ingest(h, d, l)
    \/ \E s \in Sweeps : sweep(s)
    \/ byHand
    \/ \E w \in Workers : fail(w)

LotSpec == LotInit /\ [][LotNext]_lotVars

\* The sweep is called again and again, and requests go on.
LotFairness ==
    /\ \A s \in Sweeps : WF_lotVars(sweep(s))
    /\ \A h \in Handlers : WF_lotVars(attachToAutoLot(h))

FairLotSpec == LotSpec /\ LotFairness

-----------------------------------------------------------------------------
LotTypeOK ==
    /\ row \in [Recent -> [at : Times \cup {0}, lot : Labels, auto : BOOLEAN, live : BOOLEAN]]
    /\ \A w \in Workers :
          task[w] # NoTask => /\ task[w].ev \in live
                              /\ task[w].seen \cup task[w].cands \subseteq Cand
    /\ queue \in [Sweeps -> SUBSET live]

\* Somebody made this lot: several deployments, none of them grouped by the code.
manualLot(lot) ==
    /\ isMultiMember(lot)
    /\ \A d \in live : row[d].lot = lot => ~row[d].auto

groups(w) == task[w] # NoTask /\ task[w].pc = "sifting" /\ task'[w] = NoTask

\* A sweep that nothing disturbs leaves the lots made by hand as they are.
CalmSweepSparesManualLots ==
    [][\A d \in live : calm' # "none" /\ manualLot(row[d].lot) => row'[d] = row[d]]_lotVars

\* After one such sweep there is nothing left to do: sweeping again, by any
\* number of runs at once, changes no row until somebody does.
SweepSettles ==
    [][calm = "settled" /\ calm' = "settled" => UNCHANGED row]_lotVars

free(d) == row[d].auto \/ ~isMultiMember(row[d].lot)

grouped ==
    \A d, e \in live :
        d # e /\ e \in neighbours(d) /\ free(d) /\ free(e)
            => row[d].auto /\ row[e].auto /\ row[d].lot = row[e].lot

\* ... and deployments near each other are in one lot.
SettledIsGrouped == calm = "settled" => grouped

\* Whatever raced, the sweep brings the neighbours together in the end.
NeighboursMeet == <>[]grouped

\* What the test "leaves a manual multi-member lot untouched" says.
ManualLotUntouched ==
    [][\A w \in Workers : groups(w) =>
          \A d \in live : manualLot(row[d].lot) => row'[d] = row[d]]_lotVars

=============================================================================
