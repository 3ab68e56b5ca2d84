----------------------------- MODULE EventRecords -----------------------------
(***************************************************************************)
(* The rows of Event and who writes them: the REST routes and the ingest   *)
(* endpoint (src/src/lib/ingest.ts, lib/ingestDeployment.ts), the session  *)
(* actions (app/actions/events.ts over lib/events.ts), and the import and  *)
(* export of workbooks (app/actions/excel.ts).                             *)
(*                                                                         *)
(* A session action reads, decides, and writes some columns of the row     *)
(* later, by identifier alone: each query is a step.  A request of the API *)
(* is one step, what it reads (services, environments) is not edited here. *)
(* A status moves in one step here; DeployStatus has its queries.         *)
(***************************************************************************)
EXTENDS EventBody

CONSTANTS Ids,          \* the identifiers of rows, in the order they are given
          Services,
          ActiveEnvs,
          Bodies,       \* requests that carry an event: << how, type, body >>
          Sources,      \* sources of the ingest endpoint: [scope, service, services, defaultEnvironment]
          Edits,        \* requests about one that is there: << operation, value >>
          Sessions,     \* session actions running at once
          MaxClock,     \* bound: instants
          MaxEdits      \* bound: requests that write to a row that is there

\* A date that a request has is one or is no date; requests that are refused for
\* their own values, whatever the rows, are not among the edits.
datesAreTold(b) == \A key \in DateColumns \cap DOMAIN b : b[key] \in (Nat \ {NoDate}) \cup {BadDate}

isEdit(op, v) ==
    /\ op = "date" => v \in Nat \ {NoDate}
    /\ op = "move" => v \in Statuses
    /\ op = "incident" =>
          /\ v.status \in IncidentStatuses
          /\ v.resolvedAt \in Nat
          /\ "startedAt" \in DOMAIN v => v.startedAt \in Nat \ {NoDate}

ASSUME RecordsAssumption ==
    /\ Ids \in Seq({Ids[k] : k \in DOMAIN Ids})
    /\ \A j, k \in DOMAIN Ids : Ids[j] = Ids[k] => j = k
    /\ NoText \notin Services \cup ActiveEnvs \cup {Ids[k] : k \in DOMAIN Ids}
    /\ \A e \in Bodies : datesAreTold(e[3])
    /\ \A e \in Edits : isEdit(e[1], e[2])
    /\ MaxClock \in Nat \ {0}
    /\ MaxEdits \in Nat

VARIABLES rows,      \* rows[i]: the row, emptyRow when there is none
          notes,     \* notes[i]: annotations: who put what on the event
          job,       \* job[s]: the session action s is in, and what it has read
          sheet,     \* sheet: the rows of the last workbook exported
          clock,
          edits,
          redated,   \* history: rows whose date, version or place was changed
          byApi      \* history: rows the API or a workbook wrote

recordVars == << rows, notes, job, sheet, clock, edits, redated, byApi >>

Idle == [pc |-> "idle"]

live == {i \in DOMAIN rows : rows[i].type # NoText}

deployments == {i \in live : rows[i].type = "DEPLOYMENT"}

nextId == Ids[Cardinality(live) + 1]

QuietInit ==
    /\ job = [s \in Sessions |-> Idle]
    /\ sheet = {}
    /\ clock = 1
    /\ edits = 0
    /\ redated = {}
    /\ byApi = {}

RecordsInit ==
    /\ rows = [i \in {Ids[k] : k \in DOMAIN Ids} |-> emptyRow]
    /\ notes = [i \in DOMAIN rows |-> {}]
    /\ QuietInit

-----------------------------------------------------------------------------
\* Mutant: any environment will do.
storableAnywhere(row) ==
    /\ row.service \in Services
    /\ row.parentId \in live \cup {NoText}

storable(row) ==
    /\ row.service \in Services
    /\ row.environment \in ActiveEnvs
    /\ row.parentId \in live \cup {NoText}

insertable(row) ==
    /\ Cardinality(live) < Len(Ids)
    /\ storable(row)
    /\ row.externalId = NoText \/ \A i \in live : rows[i].externalId # row.externalId

knownTo(b) == {i \in live : rows[i].externalId = text(b, "externalId")}

annotation(kind, to) == [kind |-> kind, to |-> to, at |-> clock]

insert(row) ==
    /\ insertable(row)
    /\ rows' = [rows EXCEPT ![nextId] = row]

\* The entry of the trail that a creation writes, and an upsert does not.
creationNotes(row) ==
    IF row.deployStatus = NoText THEN {} ELSE {annotation("status", row.deployStatus)}

createEvent(row) ==
    /\ insert(row)
    /\ notes' = [notes EXCEPT ![nextId] = creationNotes(row)]

standsWhere(row) == << row.service, row.environment, row.occurredAt, row.version >>

asked == edits < MaxEdits /\ edits' = edits + 1

overwrite(i, row) ==
    /\ rows' = [rows EXCEPT ![i] = row]
    /\ redated' = IF standsWhere(row) = standsWhere(rows[i]) THEN redated ELSE redated \cup {i}

\* POST: persistValidated.
post(type, b) ==
    /\ validBody(type, b)
    /\ createEvent(newRow(type, b, clock))
    /\ byApi' = byApi \cup {nextId}
    /\ UNCHANGED << job, sheet, clock, edits, redated >>

\* PUT by externalId: the same columns, of the row that has it or of a new one.
put(type, b) ==
    /\ validBody(type, b)
    /\ IF knownTo(b) = {}
       THEN /\ insert(newRow(type, b, clock))
            /\ byApi' = byApi \cup {nextId}
            /\ UNCHANGED << edits, redated >>
       ELSE /\ asked
            /\ storable(newRow(type, b, clock))
            /\ \E i \in knownTo(b) : overwrite(i, updatedRow(rows[i], type, b, clock))
            /\ byApi' = byApi \cup knownTo(b)
    /\ UNCHANGED << notes, job, sheet, clock >>

\* The ingest endpoint: the token's source stands for the service, or bounds it, and
\* has the environment of who names none.
sourced(source, b) ==
    LET whole == onto(b, [environment |-> source.defaultEnvironment])
    IN  IF source.scope = "SERVICE" THEN onto([service |-> source.service], whole) ELSE whole

ingestDeployment(source, b) ==
    LET body == sourced(source, b)
    IN  /\ validateIngestBody(body)
        /\ body.service \in source.services
        /\ createEvent(ingestedRow(body, clock))
        /\ byApi' = byApi \cup {nextId}
        /\ UNCHANGED << job, sheet, clock, edits, redated >>

-----------------------------------------------------------------------------
onItsSide(changeType, at, parentAt) ==
    /\ changeType = "PRE_MEP" => at < parentAt
    /\ changeType = "POST_MEP" => at > parentAt

start(s, j) ==
    /\ job[s] = Idle
    /\ job' = [job EXCEPT ![s] = j]
    /\ UNCHANGED << rows, notes, sheet, clock, redated, byApi >>

\* createEventAction: a phase reads its parent, takes its environment, and is
\* dated before or after it ...
createEventAction(s, type, b) ==
    /\ validBody(type, b)
    /\ UNCHANGED edits
    /\ LET row == newRow(type, b, clock)
       IN  IF isPhase(row.changeType)
           THEN /\ row.parentId \in live
                /\ onItsSide(row.changeType, row.occurredAt, rows[row.parentId].occurredAt)
                /\ start(s, [pc |-> "create",
                             row |-> [row EXCEPT !.environment = rows[row.parentId].environment]])
           ELSE start(s, [pc |-> "create", row |-> row])

\* ... and is inserted some queries later.
create(s) ==
    /\ job[s].pc = "create"
    /\ job' = [job EXCEPT ![s] = Idle]
    /\ IF insertable(job[s].row) THEN createEvent(job[s].row) ELSE UNCHANGED << rows, notes >>
    /\ UNCHANGED << sheet, clock, edits, redated, byApi >>

\* updateEventDateAction: reads the event, then its parent, then writes.
updateEventDateAction(s, i, at) ==
    /\ i \in live
    /\ asked
    /\ start(s, [pc |-> "dating", id |-> i, at |-> at, changeType |-> rows[i].changeType,
                 parentId |-> IF isPhase(rows[i].changeType) THEN rows[i].parentId ELSE NoText])

\* Mutant: the parent is not looked at.
dateUnasked(s) ==
    /\ job[s].pc = "dating"
    /\ job' = [job EXCEPT ![s] = [pc |-> "write", id |-> job[s].id, put |-> [occurredAt |-> job[s].at]]]
    /\ UNCHANGED << rows, notes, sheet, clock, edits, redated, byApi >>

checkParent(s) ==
    /\ job[s].pc = "dating"
    /\ LET j == job[s]
           accepted == \/ j.parentId = NoText
                       \/ onItsSide(j.changeType, j.at, rows[j.parentId].occurredAt)
       IN  job' = [job EXCEPT ![s] = IF accepted
                                     THEN [pc |-> "write", id |-> j.id, put |-> [occurredAt |-> j.at]]
                                     ELSE Idle]
    /\ UNCHANGED << rows, notes, sheet, clock, edits, redated, byApi >>

\* The columns an edit of a deployment writes, when its value is accepted.
deploymentColumns(op, v) ==
    CASE op = "lot"        -> {[lot |-> v]}
      [] op = "changeType" -> {[changeType |-> t] : t \in {v} \cap {"POSTMEP_SQL", "HOTFIX", "NORMAL"}}
      [] op = "hourType"   -> {[hourType |-> h] : h \in {v} \cap {"HO", "HNO", NoText}}
      [] OTHER -> {}

\* Those of any event.
eventColumns(op, v) ==
    CASE op = "comment" -> {[comment |-> v]}
      [] op = "tags"    -> {[tags |-> v \ {NoText}]}
      [] OTHER -> {}

\* updateIncidentAction: RESOLVED carries an end, given or now; nothing else has one.
incidentColumns(v) ==
    LET end == IF v.status # "RESOLVED" THEN NoDate
               ELSE IF v.resolvedAt = NoDate THEN clock ELSE v.resolvedAt
        columns == [incidentStatus |-> v.status, resolvedAt |-> end]
    IN  IF "startedAt" \notin DOMAIN v THEN {columns}
        ELSE IF end # NoDate /\ end < v.startedAt THEN {}
        ELSE {onto([startedAt |-> v.startedAt], columns)}

\* setEventLot, setEventChangeType, setEventHourType, updateIncident: the type is
\* read first, setEventComment and setEventTags ask nothing.
edit(s, i, op, v) ==
    /\ i \in live
    /\ asked
    /\ \E columns \in CASE rows[i].type = "DEPLOYMENT" -> deploymentColumns(op, v) \cup eventColumns(op, v)
                        [] rows[i].type = "INCIDENT" /\ op = "incident" -> incidentColumns(v)
                        [] OTHER -> eventColumns(op, v) :
          start(s, [pc |-> "write", id |-> i, put |-> columns])

write(s) ==
    /\ job[s].pc = "write"
    /\ job' = [job EXCEPT ![s] = Idle]
    /\ overwrite(job[s].id, onto(job[s].put, rows[job[s].id]))
    /\ UNCHANGED << notes, sheet, clock, edits, byApi >>

statusOf(row) == IF row.deployStatus = NoText THEN NoStatus ELSE row.deployStatus

step(i, to) ==
    /\ asked
    /\ overwrite(i, [rows[i] EXCEPT !.deployStatus = to])
    /\ notes' = [notes EXCEPT ![i] = @ \cup {annotation("status", to)}]
    /\ UNCHANGED << job, sheet, clock, byApi >>

\* A status moves as the workflow has it, forward or back, with a row of its trail.
movable(i, to) == i \in deployments /\ legal(statusOf(rows[i]), to)

move(i, to) == movable(i, to) /\ step(i, to)

undoable(i) ==
    /\ i \in deployments
    /\ rows[i].deployStatus # NoText
    /\ previousStatus(rows[i].deployStatus) # NoStatus

undo(i) == undoable(i) /\ step(i, previousStatus(rows[i].deployStatus))

-----------------------------------------------------------------------------
\* addRollback, addQaValidation, addObservation read the type and insert;
\* addEventComment only inserts.
annotate(i, kind) ==
    /\ i \in IF kind = "comment" THEN live ELSE deployments
    /\ notes' = [notes EXCEPT ![i] = @ \cup {annotation(kind, NoText)}]
    /\ UNCHANGED << rows, job, sheet, clock, edits, redated, byApi >>

\* Mutant: the deployment itself counts.
earlierOrSame(i, at) ==
    {d \in deployments : /\ rows[d].service = rows[i].service
                         /\ rows[d].environment = rows[i].environment
                         /\ rows[d].occurredAt <= at}

before(i, at) ==
    {d \in live : /\ rows[d].service = rows[i].service
                  /\ rows[d].environment = rows[i].environment
                  /\ rows[d].occurredAt < at}

earlier(i, at) == deployments \cap before(i, at)

latest(D) == {d \in D : \A e \in D : rows[e].occurredAt <= rows[d].occurredAt}

\* createRollbackAction: the deployment, then the one before it, then the row.
createRollbackAction(s, i) ==
    /\ i \in deployments
    /\ UNCHANGED edits
    /\ start(s, [pc |-> "target", id |-> i, at |-> rows[i].occurredAt])

rollbackToPreviousVersion(s) ==
    /\ job[s].pc = "target"
    /\ job' = [job EXCEPT ![s] = Idle]
    /\ LET E == earlier(job[s].id, job[s].at)
       IN  \E version \in IF E = {} THEN {NoText} ELSE {rows[d].version : d \in latest(E)} :
              notes' = [notes EXCEPT ![job[s].id] = @ \cup {annotation("rollback", version)}]
    /\ UNCHANGED << rows, sheet, clock, edits, redated, byApi >>

-----------------------------------------------------------------------------
\* exportEventsXlsx, with the filter on types.
exportEventsXlsx(types) ==
    /\ sheet' = {rowToBody(rows[i]) : i \in {k \in live : rows[k].type \in types}}
    /\ UNCHANGED << rows, notes, job, clock, edits, redated, byApi >>

\* Somebody adds a row to the workbook (with an externalId no other row has).
fillIn(type, b) ==
    /\ "externalId" \in DOMAIN b => \A r \in sheet : text(r, "externalId") # b.externalId
    /\ sheet' = sheet \cup {onto([type |-> type], b)}
    /\ UNCHANGED << rows, notes, job, clock, edits, redated, byApi >>

one(S) == CHOOSE x \in S : TRUE

\* importEventsXlsx: every row is good, or none is written; one whose externalId is
\* known overwrites its event, any other is a new event, in the order of place.
importEventsXlsx(place) ==
    LET fresh == DOMAIN place
        source(i) == {b \in sheet : IF b \in fresh THEN place[b] = i ELSE i \in knownTo(b)}
    IN  /\ sheet # {}
        /\ asked
        /\ \A b \in sheet : /\ validBody(b.type, b)
                            /\ b.environment \in ActiveEnvs
                            /\ b.service \in Services
        /\ rows' = [i \in DOMAIN rows |->
                      IF source(i) = {} THEN rows[i]
                      ELSE updatedRow(rows[i], one(source(i)).type, one(source(i)), clock)]
        /\ redated' = redated \cup {i \in live : standsWhere(rows'[i]) # standsWhere(rows[i])}
        /\ notes' = [i \in DOMAIN rows |->
                       IF \E b \in source(i) : text(b, "externalId") = NoText
                       THEN creationNotes(rows'[i]) ELSE notes[i]]
        /\ byApi' = byApi \cup {i \in DOMAIN rows : source(i) # {}}
        /\ UNCHANGED << job, sheet, clock >>

importSheet ==
    LET fresh == {b \in sheet : text(b, "externalId") = NoText \/ knownTo(b) = {}}
        first == Cardinality(live)
    IN  /\ first + Cardinality(fresh) <= Len(Ids)
        /\ \E place \in [fresh -> {Ids[first + k] : k \in 1..Cardinality(fresh)}] :
              /\ \A b, c \in fresh : place[b] = place[c] => b = c
              /\ importEventsXlsx(place)

tick ==
    /\ clock < MaxClock
    /\ clock' = clock + 1
    /\ UNCHANGED << rows, notes, job, sheet, edits, redated, byApi >>

-----------------------------------------------------------------------------
apiStep(how, type, b) ==
    \/ how = "post" /\ post(type, b)
    \/ how = "put" /\ put(type, b)
    \/ how = "ingest" /\ \E source \in Sources : ingestDeployment(source, b)

editStep(s, i, op, v) ==
    IF op = "date" THEN updateEventDateAction(s, i, v) ELSE edit(s, i, op, v)

RecordsStep(B, E) ==
    \/ \E e \in B : apiStep(e[1], e[2], e[3])
    \/ \E e \in B, s \in Sessions : e[1] = "session" /\ createEventAction(s, e[2], e[3])
    \/ \E e \in B : e[1] = "sheet" /\ fillIn(e[2], e[3])
    \/ \E e \in E, i \in live, s \in Sessions : editStep(s, i, e[1], e[2])
    \/ \E e \in E, i \in live, s \in Sessions : e[1] = "rollback" /\ createRollbackAction(s, i)
    \/ \E e \in E, i \in live : e[1] = "move" /\ move(i, e[2])
    \/ \E e \in E, i \in live : e[1] = "undo" /\ undo(i)
    \/ \E e \in E, i \in live : e[1] = "annotate" /\ annotate(i, e[2])
    \/ \E e \in E : e[1] = "export" /\ exportEventsXlsx(e[2])
    \/ \E s \in Sessions : create(s)
    \/ \E s \in Sessions : checkParent(s)
    \/ \E s \in Sessions : write(s)
    \/ \E s \in Sessions : rollbackToPreviousVersion(s)
    \/ importSheet
    \/ tick

RecordsSpec == RecordsInit /\ [][RecordsStep(Bodies, Edits)]_recordVars

-----------------------------------------------------------------------------
RecordsTypeOK ==
    /\ \A i \in DOMAIN rows :
          /\ DOMAIN rows[i] = DOMAIN emptyRow
          /\ rows[i].type \in EventTypes \cup {NoText}
          /\ \A c \in DateColumns : rows[i][c] \in Nat
          /\ i \in live => rows[i].service \in Services /\ rows[i].environment \in ActiveEnvs
    /\ \A i, k \in live : rows[i].externalId = rows[k].externalId => i = k \/ rows[i].externalId = NoText
    /\ \A s \in Sessions : job[s].pc \in {"idle", "create", "dating", "write", "target"}
    /\ redated \cup byApi \subseteq live

\* A PRE_MEP that people created and dated comes before its deployment and a POST_MEP
\* after it, however creations and edits of both interleave, as long as the deployment
\* stays where it was (createEventAction, updateEventDateAction): its own date may be
\* moved without a look at its phases, and the API takes any date.
PhasesOnTheirSide ==
    \A i \in live \ byApi :
        LET row == rows[i]
        IN  isPhase(row.changeType) /\ row.parentId \notin redated =>
               onItsSide(row.changeType, row.occurredAt, rows[row.parentId].occurredAt)

\* What an export says of an event is what an import of it writes back: nothing of the
\* row changes but the columns the workbook lacks, a lot or a status it had none of, and
\* the date of an incident or a maintenance, which is its start.  Phases, SCHEDULED deployments and a
\* phase made a deployment (no version) are refused (lib/excel.ts, lib/eventValidation.ts).
ExportRoundTrips ==
    \A i \in live :
        LET row == rows[i]
            again == updatedRow(row, row.type, rowToBody(row), clock)
            spared == {"scheduledAt", "parentId", "hourType"} \cup
                      {c \in {"lot", "deployStatus", "incidentStatus"} : row[c] = NoText} \cup
                      (IF row.type # "DEPLOYMENT" THEN {"occurredAt"} ELSE {})
        IN  IF importable(row)
            THEN \A c \in DOMAIN row \ spared : again[c] = row[c]
            ELSE /\ row.type = "DEPLOYMENT"
                 /\ \/ isPhase(row.changeType)
                    \/ row.version = NoText
                    \/ row.deployStatus = "SCHEDULED"

\* A recorded rollback goes back: the version it names is the one of an earlier
\* deployment of the service in that environment (rollbackToPreviousVersion), unless
\* one of the two was moved by an edit; a PUT of its externalId may have made an
\* incident of that deployment since.
RollbackGoesBack ==
    \A i \in deployments \ redated : \A n \in notes[i] :
        n.kind = "rollback" /\ n.to # NoText =>
            \E d \in live \ {i} :
                \/ d \in redated
                \/ /\ d \in before(i, rows[i].occurredAt)
                   /\ rows[d].version = n.to
                   /\ d \in deployments \cup byApi
=============================================================================
