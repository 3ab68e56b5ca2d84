-------------------------- MODULE EventRecordsProofs --------------------------
(***************************************************************************)
(* Theorems about EventRecords, for every set of requests, services,       *)
(* environments and sessions, every number of rows and every bound.        *)
(*                                                                         *)
(* A session action writes by identifier what it decided on some queries   *)
(* earlier.  The invariant says what that is worth by then: a row that was *)
(* read is still there, and stands where it stood unless the history says  *)
(* that it was moved; a phase that only people wrote has the deployment it *)
(* was made for.                                                           *)
(***************************************************************************)
EXTENDS EventRecords, FiniteSetTheorems, FunctionTheorems, TLAPS

AllIds == {Ids[k] : k \in DOMAIN Ids}

(***************************************************************************)
(* Rows.  What the validators asked of each type holds whatever was edited *)
(* since, and whatever type the event had before.                          *)
(***************************************************************************)
Shaped(r) ==
    /\ DOMAIN r = ALL_COLUMNS
    /\ \A c \in DateColumns : r[c] \in Nat
    /\ r.deployStatus \in Statuses \cup {NoText}
    /\ r.incidentStatus \in IncidentStatuses \cup {NoText}

Told(r) ==
    /\ Shaped(r)
    /\ r.type \in EventTypes
    /\ r.occurredAt # NoDate
    /\ r.type = "DEPLOYMENT" => r.changeType \in ChangeTypes /\ r.requester # NoText
    /\ r.type = "INCIDENT" => r.incidentType # NoText /\ r.startedAt # NoDate
    /\ r.type = "MAINTENANCE" =>
          r.windowStart # NoDate /\ r.windowEnd # NoDate /\ r.windowStart <= r.windowEnd

Stored(r) == Told(r) /\ r.service \in Services /\ r.environment \in ActiveEnvs

RowsTyped ==
    /\ rows = [i \in AllIds |-> rows[i]]
    /\ \A i \in AllIds : Shaped(rows[i])
    /\ \A i \in live : Stored(rows[i])

\* Identifiers are given in order.
LiveComeFirst == \E n \in 0..Len(Ids) : live = {Ids[k] : k \in 1..n}

ExternalIdsDiffer ==
    \A i, k \in live : rows[i].externalId = rows[k].externalId => i = k \/ rows[i].externalId = NoText

NotesTyped ==
    /\ notes = [i \in AllIds |-> notes[i]]
    /\ \A i \in AllIds \ live : notes[i] = {}

\* Two rows of a workbook are not of one event.
SheetTyped ==
    /\ IsFiniteSet(sheet)
    /\ \A b \in sheet : datesAreTold(b)
    /\ \A b, c \in sheet :
          text(b, "externalId") = text(c, "externalId") => b = c \/ text(b, "externalId") = NoText

HistoryTyped == clock \in Nat \ {0} /\ redated \cup byApi \subseteq live

TypesInv == RowsTyped /\ LiveComeFirst /\ ExternalIdsDiffer /\ NotesTyped /\ SheetTyped /\ HistoryTyped

(***************************************************************************)
(* What session actions remember.                                          *)
(***************************************************************************)
\* A phase has its deployment, and is on its side of it unless that one was moved.
OnSide(changeType, parentId, at) ==
    isPhase(changeType) =>
        /\ parentId \in live
        /\ parentId \in redated \/ onItsSide(changeType, at, rows[parentId].occurredAt)

Placed(r) == OnSide(r.changeType, r.parentId, r.occurredAt)

\* The columns that an edit writes.
Written == {"occurredAt", "lot", "changeType", "hourType", "comment", "tags",
            "incidentStatus", "resolvedAt", "startedAt"}

IsPut(p) ==
    /\ DOMAIN p \subseteq Written
    /\ "occurredAt" \in DOMAIN p => p.occurredAt \in Nat \ {NoDate}
    /\ "changeType" \in DOMAIN p => p.changeType \in {"POSTMEP_SQL", "HOTFIX", "NORMAL"}
    /\ "incidentStatus" \in DOMAIN p => p.incidentStatus \in IncidentStatuses
    /\ "resolvedAt" \in DOMAIN p => p.resolvedAt \in Nat
    /\ "startedAt" \in DOMAIN p => p.startedAt \in Nat \ {NoDate}

CreateInv(j) == Told(j.row) /\ Placed(j.row)

DatingInv(j) ==
    /\ j.id \in live
    /\ j.at \in Nat \ {NoDate}
    /\ j.id \in byApi \/ (isPhase(rows[j.id].changeType) =>
                             /\ j.changeType = rows[j.id].changeType
                             /\ j.parentId = rows[j.id].parentId)

WriteInv(j) ==
    /\ j.id \in live
    /\ IsPut(j.put)
    /\ j.id \in byApi \/ ("occurredAt" \in DOMAIN j.put =>
                              OnSide(rows[j.id].changeType, rows[j.id].parentId, j.put.occurredAt))

TargetInv(j) == j.id \in live /\ (j.id \in redated \/ j.at = rows[j.id].occurredAt)

JobInv(j) ==
    \/ j = Idle
    \/ j.pc = "create" /\ CreateInv(j)
    \/ j.pc = "dating" /\ DatingInv(j)
    \/ j.pc = "write" /\ WriteInv(j)
    \/ j.pc = "target" /\ TargetInv(j)

JobsInv == job = [s \in Sessions |-> job[s]] /\ \A s \in Sessions : JobInv(job[s])

PhasesPlaced == \A i \in live \ byApi : Placed(rows[i])

GoesBack(i, n) ==
    n.kind = "rollback" /\ n.to # NoText =>
        \E d \in live \ {i} :
            \/ d \in redated
            \/ /\ d \in before(i, rows[i].occurredAt)
               /\ rows[d].version = n.to
               /\ d \in deployments \cup byApi

RollbacksGoBack == \A i \in live \ redated : \A n \in notes[i] : GoesBack(i, n)

RecordsInv == TypesInv /\ JobsInv /\ PhasesPlaced /\ RollbacksGoBack

-------------------------------------------------------------------------------
(***************************************************************************)
(* Identifiers.                                                            *)
(***************************************************************************)
\* The first n of them are n.
LEMMA FirstIds ==
    ASSUME NEW n \in 0..Len(Ids)
    PROVE  /\ IsFiniteSet({Ids[k] : k \in 1..n})
           /\ Cardinality({Ids[k] : k \in 1..n}) = n
           /\ {Ids[k] : k \in 1..n} \subseteq AllIds
<1>1. DOMAIN Ids = 1..Len(Ids) /\ Len(Ids) \in Nat
  BY RecordsAssumption
<1>2. 1..n \subseteq DOMAIN Ids
  BY <1>1
<1>3. PICK T : T = {Ids[k] : k \in 1..n}
  OBVIOUS
<1>4. PICK f : f = [k \in 1..n |-> Ids[k]]
  OBVIOUS
<1>5. f \in Injection(1..n, T)
  <2>1. f \in [1..n -> T]
    BY <1>3, <1>4
  <2>2. \A j, k \in 1..n : f[j] = f[k] => j = k
    BY <1>2, <1>4, RecordsAssumption
  <2>3. QED
    BY <2>1, <2>2, Fun_IsInj
<1>6. f \in Surjection(1..n, T)
  <2>1. f \in [1..n -> T]
    BY <1>3, <1>4
  <2>2. \A t \in T : \E k \in 1..n : f[k] = t
    BY <1>3, <1>4
  <2>3. QED
    BY <2>1, <2>2, Fun_IsSurj
<1>7. IsFiniteSet(1..n) /\ Cardinality(1..n) = n
  BY FS_Interval
<1>8. IsFiniteSet(T) /\ Cardinality(T) = n
  BY <1>5, <1>6, <1>7, FS_Surjection
<1>9. QED
  BY <1>2, <1>3, <1>8 DEF AllIds

\* The rows that are there are finitely many, and come first.
LEMMA LiveIsFinite ==
    ASSUME LiveComeFirst
    PROVE  /\ IsFiniteSet(live)
           /\ Cardinality(live) \in 0..Len(Ids)
           /\ live = {Ids[k] : k \in 1..Cardinality(live)}
           /\ live \subseteq AllIds
<1>1. PICK n \in 0..Len(Ids) : live = {Ids[k] : k \in 1..n}
  BY DEF LiveComeFirst
<1>2. QED
  BY <1>1, FirstIds

\* The next identifiers are those of no row.
LEMMA NextIds ==
    ASSUME LiveComeFirst, NEW k \in 1..Len(Ids), Cardinality(live) < k
    PROVE  Ids[k] \in AllIds \ live
<1>1. DOMAIN Ids = 1..Len(Ids) /\ Len(Ids) \in Nat
  BY RecordsAssumption
<1>2. Ids[k] \in AllIds
  BY <1>1 DEF AllIds
<1>3. PICK n : n = Cardinality(live)
  OBVIOUS
<1>4. n \in 0..Len(Ids) /\ live = {Ids[j] : j \in 1..n}
  BY <1>3, LiveIsFinite
<1>5. \A j \in 1..n : j \in DOMAIN Ids /\ j # k
  BY <1>1, <1>3, <1>4
<1>6. QED
  BY <1>1, <1>2, <1>4, <1>5, RecordsAssumption

LEMMA NextId ==
    ASSUME LiveComeFirst, Cardinality(live) < Len(Ids)
    PROVE  /\ nextId \in AllIds \ live
           /\ \E n \in 0..Len(Ids) : live \cup {nextId} = {Ids[k] : k \in 1..n}
<1>1. PICK n : n = Cardinality(live)
  OBVIOUS
<1>2. n \in 0..Len(Ids) /\ live = {Ids[k] : k \in 1..n} /\ Len(Ids) \in Nat
  BY <1>1, LiveIsFinite, RecordsAssumption
<1>3. n + 1 \in 1..Len(Ids) /\ nextId = Ids[n + 1]
  BY <1>1, <1>2 DEF nextId
<1>4. nextId \in AllIds \ live
  <2>1. PICK m \in 1..Len(Ids) : m = n + 1
    BY <1>3
  <2>2. n \in Int /\ n < m
    BY <1>2, <2>1
  <2>3. Cardinality(live) < m
    BY <1>1, <2>2
  <2>4. Ids[m] \in AllIds \ live
    BY <2>3, NextIds
  <2>5. QED
    BY <1>3, <2>1, <2>4
<1>5. 1..(n + 1) = 1..n \cup {n + 1}
  BY <1>2
<1>6. live \cup {nextId} = {Ids[k] : k \in 1..(n + 1)}
  BY <1>2, <1>3, <1>5
<1>7. QED
  BY <1>3, <1>4, <1>6
-------------------------------------------------------------------------------
(***************************************************************************)
(* What a body becomes.                                                    *)
(***************************************************************************)
LEMMA OntoIs ==
    ASSUME NEW d, NEW r
    PROVE  /\ DOMAIN onto(d, r) = DOMAIN d \cup DOMAIN r
           /\ \A c \in DOMAIN d : onto(d, r)[c] = d[c]
           /\ \A c \in DOMAIN r \ DOMAIN d : onto(d, r)[c] = r[c]
  BY DEF onto

Envelope == {"type", "service", "environment", "occurredAt", "externalId", "tags"}

\* The columns that every type has.
Enveloped(d, type, b, now) ==
    /\ d.type = type
    /\ d.service = b.service
    /\ d.environment = b.environment
    /\ d.occurredAt = occurredAt(type, b, now)
    /\ d.externalId = text(b, "externalId")
    /\ d.tags = IF "tags" \in DOMAIN b THEN b.tags ELSE {}

LEMMA DataIs ==
    ASSUME NEW type, NEW b, NEW now, DOMAIN fieldsOf(type, b) \cap Envelope = {}
    PROVE  LET d == toCreateData(type, b, now)
           IN  /\ DOMAIN d = DOMAIN fieldsOf(type, b) \cup Envelope
               /\ Enveloped(d, type, b, now)
               /\ \A c \in DOMAIN fieldsOf(type, b) : d[c] = fieldsOf(type, b)[c]
<1>0. PICK d : d = toCreateData(type, b, now)
  OBVIOUS
<1>1. PICK e : e = [type |-> type, service |-> b.service, environment |-> b.environment,
                    occurredAt |-> occurredAt(type, b, now), externalId |-> text(b, "externalId"),
                    tags |-> IF "tags" \in DOMAIN b THEN b.tags ELSE {}]
  OBVIOUS
<1>2. DOMAIN e = Envelope /\ Enveloped(e, type, b, now)
  BY <1>1 DEF Envelope, Enveloped
<1>3. PICK f : f = fieldsOf(type, b)
  OBVIOUS
<1>4. d = onto(f, e)
  BY <1>0, <1>1, <1>3 DEF toCreateData
<1>5. DOMAIN d = DOMAIN f \cup Envelope /\ \A c \in DOMAIN f : d[c] = f[c]
  <2>1. DOMAIN onto(f, e) = DOMAIN f \cup DOMAIN e /\ \A c \in DOMAIN f : onto(f, e)[c] = f[c]
    BY OntoIs
  <2>2. QED
    BY <1>2, <1>4, <2>1
<1>6. \A c \in Envelope : d[c] = e[c]
  <2>1. \A c \in DOMAIN e \ DOMAIN f : onto(f, e)[c] = e[c]
    BY OntoIs
  <2>2. QED
    BY <1>2, <1>3, <1>4, <2>1
<1>7. Enveloped(d, type, b, now)
  BY <1>2, <1>6 DEF Envelope, Enveloped
<1>8. QED
  BY <1>0, <1>3, <1>5, <1>7

DeploymentColumns ==
    {"version", "comment", "lot", "requester", "changeType", "deployStatus", "scheduledAt", "parentId", "hourType"}

LEMMA DeploymentData ==
    ASSUME NEW b, NEW now
    PROVE  LET d == toCreateData("DEPLOYMENT", b, now)
           IN  /\ DOMAIN d = DeploymentColumns \cup Envelope
               /\ Enveloped(d, "DEPLOYMENT", b, now)
               /\ d.version = text(b, "version")
               /\ d.comment = text(b, "comment")
               /\ d.lot = orElse(text(b, "lot"), text(b, "version"))
               /\ d.requester = b.requester
               /\ d.changeType = b.changeType
               /\ d.deployStatus = statusOr(b, "PENDING")
               /\ d.scheduledAt = date(b, "scheduledAt")
               /\ d.parentId = text(b, "parentId")
<1>1. PICK f : f = deploymentFields(b)
  OBVIOUS
<1>2. fieldsOf("DEPLOYMENT", b) = f
  BY <1>1 DEF fieldsOf
<1>3. DOMAIN f = DeploymentColumns
  BY <1>1 DEF deploymentFields, DeploymentColumns
<1>4. /\ f.version = text(b, "version")
      /\ f.comment = text(b, "comment")
      /\ f.lot = orElse(text(b, "lot"), text(b, "version"))
      /\ f.requester = b.requester
      /\ f.changeType = b.changeType
      /\ f.deployStatus = statusOr(b, "PENDING")
      /\ f.scheduledAt = date(b, "scheduledAt")
      /\ f.parentId = text(b, "parentId")
  BY <1>1 DEF deploymentFields
<1>5. DeploymentColumns \cap Envelope = {}
  BY DEF DeploymentColumns, Envelope
<1>6. PICK d : d = toCreateData("DEPLOYMENT", b, now)
  OBVIOUS
<1>7. DOMAIN d = DeploymentColumns \cup Envelope /\ Enveloped(d, "DEPLOYMENT", b, now)
      /\ \A c \in DeploymentColumns : d[c] = f[c]
  <2>1. DOMAIN fieldsOf("DEPLOYMENT", b) \cap Envelope = {}
    BY <1>2, <1>3, <1>5
  <2>2. /\ DOMAIN d = DOMAIN fieldsOf("DEPLOYMENT", b) \cup Envelope
        /\ Enveloped(d, "DEPLOYMENT", b, now)
        /\ \A c \in DOMAIN fieldsOf("DEPLOYMENT", b) : d[c] = fieldsOf("DEPLOYMENT", b)[c]
    BY <1>6, <2>1, DataIs
  <2>3. QED
    BY <1>2, <1>3, <2>2
<1>8. QED
  BY <1>4, <1>6, <1>7 DEF DeploymentColumns

IncidentColumns == {"incidentType", "incidentStatus", "startedAt", "resolvedAt", "comment"}

LEMMA IncidentData ==
    ASSUME NEW b, NEW now
    PROVE  LET d == toCreateData("INCIDENT", b, now)
           IN  /\ DOMAIN d = IncidentColumns \cup Envelope
               /\ Enveloped(d, "INCIDENT", b, now)
               /\ d.incidentType = b.incidentType
               /\ d.incidentStatus = orElse(text(b, "incidentStatus"),
                                         IF date(b, "resolvedAt") # NoDate THEN "RESOLVED" ELSE "INVESTIGATING")
               /\ d.startedAt = b.startedAt
               /\ d.resolvedAt = date(b, "resolvedAt")
               /\ d.comment = text(b, "comment")
<1>1. PICK f : f = incidentFields(b)
  OBVIOUS
<1>2. fieldsOf("INCIDENT", b) = f
  BY <1>1 DEF fieldsOf
<1>3. DOMAIN f = IncidentColumns
  BY <1>1 DEF incidentFields, IncidentColumns
<1>4. /\ f.incidentType = b.incidentType
      /\ f.incidentStatus = orElse(text(b, "incidentStatus"),
                                IF date(b, "resolvedAt") # NoDate THEN "RESOLVED" ELSE "INVESTIGATING")
      /\ f.startedAt = b.startedAt
      /\ f.resolvedAt = date(b, "resolvedAt")
      /\ f.comment = text(b, "comment")
  BY <1>1 DEF incidentFields
<1>5. IncidentColumns \cap Envelope = {}
  BY DEF IncidentColumns, Envelope
<1>6. PICK d : d = toCreateData("INCIDENT", b, now)
  OBVIOUS
<1>7. DOMAIN d = IncidentColumns \cup Envelope /\ Enveloped(d, "INCIDENT", b, now)
      /\ \A c \in IncidentColumns : d[c] = f[c]
  <2>1. DOMAIN fieldsOf("INCIDENT", b) \cap Envelope = {}
    BY <1>2, <1>3, <1>5
  <2>2. /\ DOMAIN d = DOMAIN fieldsOf("INCIDENT", b) \cup Envelope
        /\ Enveloped(d, "INCIDENT", b, now)
        /\ \A c \in DOMAIN fieldsOf("INCIDENT", b) : d[c] = fieldsOf("INCIDENT", b)[c]
    BY <1>6, <2>1, DataIs
  <2>3. QED
    BY <1>2, <1>3, <2>2
<1>8. QED
  BY <1>4, <1>6, <1>7 DEF IncidentColumns

MaintenanceColumns == {"version", "windowStart", "windowEnd"}

LEMMA MaintenanceData ==
    ASSUME NEW b, NEW now
    PROVE  LET d == toCreateData("MAINTENANCE", b, now)
           IN  /\ DOMAIN d = MaintenanceColumns \cup Envelope
               /\ Enveloped(d, "MAINTENANCE", b, now)
               /\ d.version = text(b, "version")
               /\ d.windowStart = b.windowStart
               /\ d.windowEnd = b.windowEnd
<1>1. PICK f : f = maintenanceFields(b)
  OBVIOUS
<1>2. fieldsOf("MAINTENANCE", b) = f
  BY <1>1 DEF fieldsOf
<1>3. DOMAIN f = MaintenanceColumns
  BY <1>1 DEF maintenanceFields, MaintenanceColumns
<1>4. /\ f.version = text(b, "version")
      /\ f.windowStart = b.windowStart
      /\ f.windowEnd = b.windowEnd
  BY <1>1 DEF maintenanceFields
<1>5. MaintenanceColumns \cap Envelope = {}
  BY DEF MaintenanceColumns, Envelope
<1>6. PICK d : d = toCreateData("MAINTENANCE", b, now)
  OBVIOUS
<1>7. DOMAIN d = MaintenanceColumns \cup Envelope /\ Enveloped(d, "MAINTENANCE", b, now)
      /\ \A c \in MaintenanceColumns : d[c] = f[c]
  <2>1. DOMAIN fieldsOf("MAINTENANCE", b) \cap Envelope = {}
    BY <1>2, <1>3, <1>5
  <2>2. /\ DOMAIN d = DOMAIN fieldsOf("MAINTENANCE", b) \cup Envelope
        /\ Enveloped(d, "MAINTENANCE", b, now)
        /\ \A c \in DOMAIN fieldsOf("MAINTENANCE", b) : d[c] = fieldsOf("MAINTENANCE", b)[c]
    BY <1>6, <2>1, DataIs
  <2>3. QED
    BY <1>2, <1>3, <2>2
<1>8. QED
  BY <1>4, <1>6, <1>7 DEF MaintenanceColumns

\* A date that is asked for is one, when it is none of the two that are not.
LEMMA DateIs ==
    ASSUME NEW b, datesAreTold(b), NEW key \in DateColumns, date(b, key) # BadDate
    PROVE  date(b, key) \in Nat /\ (key \in DOMAIN b => b[key] \in Nat \ {NoDate})
  BY DEF datesAreTold, date, NoDate, BadDate

LEMMA StatusesAre ==
    Statuses = {"SCHEDULED", "GO_CONFIRMED", "PENDING", "IN_PROGRESS", "DEPLOYED", "TESTING", "VALIDATE"}
<1>1. /\ DEPLOY_ORDER[1] = "SCHEDULED" /\ DEPLOY_ORDER[2] = "GO_CONFIRMED" /\ DEPLOY_ORDER[3] = "PENDING"
      /\ DEPLOY_ORDER[4] = "IN_PROGRESS" /\ DEPLOY_ORDER[5] = "DEPLOYED" /\ DEPLOY_ORDER[6] = "TESTING"
      /\ DEPLOY_ORDER[7] = "VALIDATE"
  BY DEF DEPLOY_ORDER
<1>2. QED
  BY <1>1 DEF Statuses

LEMMA NoTextIsNone == NoText \notin Statuses
  BY StatusesAre DEF NoText

\* The row that a body is written onto, whatever it was, is what the validators asked.
LEMMA Renewed ==
    ASSUME NEW r, Shaped(r), NEW type, NEW b, datesAreTold(b), validBody(type, b), NEW now \in Nat \ {0}
    PROVE  LET q == updatedRow(r, type, b, now)
           IN  /\ Told(q)
               /\ q.type = type
               /\ q.service = b.service
               /\ q.environment = b.environment
               /\ q.externalId = text(b, "externalId")
               /\ r.deployStatus # NoText => q.deployStatus # NoText
<1>1. PICK d : d = toCreateData(type, b, now)
  OBVIOUS
<1>2. PICK q : q = updatedRow(r, type, b, now)
  OBVIOUS
<1>3. /\ DOMAIN q = DOMAIN d \cup DOMAIN r
      /\ \A c \in DOMAIN d : q[c] = d[c]
      /\ \A c \in DOMAIN r \ DOMAIN d : q[c] = r[c]
  <2>1. q = onto(d, r)
    BY <1>1, <1>2 DEF updatedRow
  <2>2. /\ DOMAIN onto(d, r) = DOMAIN d \cup DOMAIN r
        /\ \A c \in DOMAIN d : onto(d, r)[c] = d[c]
        /\ \A c \in DOMAIN r \ DOMAIN d : onto(d, r)[c] = r[c]
    BY OntoIs
  <2>3. QED
    BY <2>1, <2>2
<1>4. /\ DOMAIN r = ALL_COLUMNS
      /\ \A c \in DateColumns : r[c] \in Nat
      /\ r.deployStatus \in Statuses \cup {NoText}
      /\ r.incidentStatus \in IncidentStatuses \cup {NoText}
  BY DEF Shaped
<1>5. ASSUME Enveloped(d, type, b, now), Envelope \subseteq DOMAIN d
      PROVE  /\ q.type = type /\ q.service = b.service /\ q.environment = b.environment
             /\ q.externalId = text(b, "externalId") /\ q.occurredAt = occurredAt(type, b, now)
  BY <1>3, <1>5 DEF Envelope, Enveloped
<1>6. ASSUME DOMAIN d \subseteq ALL_COLUMNS, \A c \in DateColumns \cap DOMAIN d : d[c] \in Nat,
             "deployStatus" \in DOMAIN d => d.deployStatus \in Statuses,
             "incidentStatus" \in DOMAIN d => d.incidentStatus \in IncidentStatuses
      PROVE  Shaped(q) /\ (r.deployStatus # NoText => q.deployStatus # NoText)
  <2>1. DOMAIN q = ALL_COLUMNS
    BY <1>3, <1>4, <1>6
  <2>2. \A c \in DateColumns : c \in ALL_COLUMNS
    BY DEF ALL_COLUMNS
  <2>3. \A c \in DateColumns : q[c] \in Nat
    BY <1>3, <1>4, <1>6, <2>2
  <2>4. "deployStatus" \in ALL_COLUMNS /\ "incidentStatus" \in ALL_COLUMNS
    BY DEF ALL_COLUMNS, TextColumns
  <2>5. /\ q.deployStatus \in Statuses \cup {NoText}
        /\ r.deployStatus # NoText => q.deployStatus # NoText
    BY <1>3, <1>4, <1>6, <2>4, NoTextIsNone
  <2>6. q.incidentStatus \in IncidentStatuses \cup {NoText}
    BY <1>3, <1>4, <1>6, <2>4
  <2>7. QED
    BY <2>1, <2>3, <2>5, <2>6 DEF Shaped
<1>7. CASE type = "DEPLOYMENT"
  <2>1. validateDeploymentBody(b)
    BY <1>7 DEF validBody
  <2>2. /\ DOMAIN d = DeploymentColumns \cup Envelope
        /\ Enveloped(d, type, b, now)
        /\ d.requester = b.requester
        /\ d.changeType = b.changeType
        /\ d.deployStatus = statusOr(b, "PENDING")
        /\ d.scheduledAt = date(b, "scheduledAt")
    BY <1>1, <1>7, DeploymentData
  <2>3. date(b, "scheduledAt") \in Nat
    BY <2>1, DateIs DEF validateDeploymentBody, plannedIfScheduled, DateColumns
  <2>4. occurredAt(type, b, now) \in Nat \ {NoDate}
    BY <1>7, <2>1, DateIs DEF validateDeploymentBody, occurredAt, DateColumns, NoDate
  <2>5. \A c \in DateColumns \cap DOMAIN d : d[c] \in Nat
    BY <2>2, <2>3, <2>4 DEF DateColumns, DeploymentColumns, Envelope, Enveloped
  <2>6. DOMAIN d \subseteq ALL_COLUMNS
    BY <2>2 DEF DeploymentColumns, Envelope, ALL_COLUMNS, TextColumns, DateColumns
  <2>10. statusOr(b, "PENDING") \in Statuses
    BY <2>1 DEF validateDeploymentBody, oneOf, statusOr, orElse, text, Statuses, DEPLOY_ORDER
  <2>7. Shaped(q) /\ (r.deployStatus # NoText => q.deployStatus # NoText)
    <3>1. "incidentStatus" \notin DOMAIN d
      BY <2>2 DEF DeploymentColumns, Envelope
    <3>2. QED
      BY <1>6, <2>2, <2>5, <2>6, <2>10, <3>1
  <2>8. q.requester = b.requester /\ q.changeType = b.changeType /\ q.deployStatus = statusOr(b, "PENDING")
    BY <1>3, <2>2 DEF DeploymentColumns
  <2>9. b.requester # NoText /\ b.changeType \in ChangeTypes
    BY <2>1 DEF validateDeploymentBody, text, NoText, ChangeTypes
  <2>11. QED
    BY <1>2, <1>5, <1>7, <2>2, <2>4, <2>7, <2>8, <2>9 DEF Told, EventTypes
<1>8. CASE type = "INCIDENT"
  <2>1. validateIncidentBody(b)
    BY <1>8 DEF validBody
  <2>2. /\ DOMAIN d = IncidentColumns \cup Envelope
        /\ Enveloped(d, type, b, now)
        /\ d.incidentType = b.incidentType
        /\ d.incidentStatus = orElse(text(b, "incidentStatus"),
                                  IF date(b, "resolvedAt") # NoDate THEN "RESOLVED" ELSE "INVESTIGATING")
        /\ d.startedAt = b.startedAt
        /\ d.resolvedAt = date(b, "resolvedAt")
    BY <1>1, <1>8, IncidentData
  <2>3. date(b, "resolvedAt") \in Nat
    BY <2>1, DateIs DEF validateIncidentBody, DateColumns
  <2>4. b.startedAt \in Nat \ {NoDate}
    BY <2>1 DEF validateIncidentBody, DateColumns, datesAreTold, date
  <2>5. occurredAt(type, b, now) = b.startedAt
    BY <1>8 DEF occurredAt
  <2>6. \A c \in DateColumns \cap DOMAIN d : d[c] \in Nat
    BY <2>2, <2>3, <2>4, <2>5 DEF DateColumns, IncidentColumns, Envelope, Enveloped
  <2>7. DOMAIN d \subseteq ALL_COLUMNS
    BY <2>2 DEF IncidentColumns, Envelope, ALL_COLUMNS, TextColumns, DateColumns
  <2>10. d.incidentStatus \in IncidentStatuses
    BY <2>1, <2>2 DEF validateIncidentBody, oneOf, orElse, text, IncidentStatuses
  <2>8. Shaped(q) /\ (r.deployStatus # NoText => q.deployStatus # NoText)
    <3>1. "deployStatus" \notin DOMAIN d
      BY <2>2 DEF IncidentColumns, Envelope
    <3>2. QED
      BY <1>6, <2>6, <2>7, <2>10, <3>1
  <2>9. q.incidentType = d.incidentType /\ q.incidentStatus = d.incidentStatus /\ q.startedAt = d.startedAt
    BY <1>3, <2>2 DEF IncidentColumns
  <2>11. b.incidentType # NoText
    BY <2>1 DEF validateIncidentBody, text
  <2>12. QED
    BY <1>2, <1>5, <1>8, <2>2, <2>4, <2>5, <2>8, <2>9, <2>11 DEF Told, EventTypes
<1>9. CASE type = "MAINTENANCE"
  <2>1. validateMaintenanceBody(b)
    BY <1>9 DEF validBody
  <2>2. /\ DOMAIN d = MaintenanceColumns \cup Envelope
        /\ Enveloped(d, type, b, now)
        /\ d.windowStart = b.windowStart
        /\ d.windowEnd = b.windowEnd
    BY <1>1, <1>9, MaintenanceData
  <2>3. b.windowStart \in Nat \ {NoDate} /\ b.windowEnd \in Nat \ {NoDate} /\ b.windowStart <= b.windowEnd
    BY <2>1 DEF validateMaintenanceBody, DateColumns, datesAreTold, date
  <2>4. occurredAt(type, b, now) = b.windowStart
    BY <1>9 DEF occurredAt
  <2>5. \A c \in DateColumns \cap DOMAIN d : d[c] \in Nat
    BY <2>2, <2>3, <2>4 DEF DateColumns, MaintenanceColumns, Envelope, Enveloped
  <2>6. DOMAIN d \subseteq ALL_COLUMNS
    BY <2>2 DEF MaintenanceColumns, Envelope, ALL_COLUMNS, TextColumns, DateColumns
  <2>7. Shaped(q) /\ (r.deployStatus # NoText => q.deployStatus # NoText)
    <3>1. "deployStatus" \notin DOMAIN d /\ "incidentStatus" \notin DOMAIN d
      BY <2>2 DEF MaintenanceColumns, Envelope
    <3>2. QED
      BY <1>6, <2>5, <2>6, <3>1
  <2>8. q.windowStart = d.windowStart /\ q.windowEnd = d.windowEnd
    BY <1>3, <2>2 DEF MaintenanceColumns
  <2>9. QED
    BY <1>2, <1>5, <1>9, <2>2, <2>3, <2>4, <2>7, <2>8 DEF Told, EventTypes
<1>10. type \in {"DEPLOYMENT", "INCIDENT", "MAINTENANCE"}
  BY DEF validBody
<1>11. QED
  BY <1>7, <1>8, <1>9, <1>10

LEMMA EmptyIsShaped == Shaped(emptyRow) /\ emptyRow.type = NoText
  BY DEF Shaped, emptyRow, ALL_COLUMNS, DateColumns, TextColumns, NoDate, NoText

LEMMA NewRow ==
    ASSUME NEW type, NEW b, datesAreTold(b), validBody(type, b), NEW now \in Nat \ {0}
    PROVE  LET q == newRow(type, b, now)
           IN  /\ Told(q)
               /\ q.type = type
               /\ q.service = b.service
               /\ q.environment = b.environment
               /\ q.externalId = text(b, "externalId")
<1>1. newRow(type, b, now) = updatedRow(emptyRow, type, b, now)
  BY DEF newRow, updatedRow
<1>2. QED
  BY <1>1, EmptyIsShaped, Renewed

\* So is a row of the ingest endpoint.
LEMMA Ingested ==
    ASSUME NEW b, datesAreTold(b), validateIngestBody(b), NEW now \in Nat \ {0}
    PROVE  LET q == ingestedRow(b, now)
           IN  /\ Told(q)
               /\ q.service = b.service
               /\ q.environment = b.environment
               /\ q.externalId = NoText
<1>1. PICK q : q = ingestedRow(b, now)
  OBVIOUS
<1>2. PICK e : e = emptyRow
  OBVIOUS
<1>3. DOMAIN e = ALL_COLUMNS /\ (\A c \in DateColumns : e[c] = NoDate) /\ e.externalId = NoText
  BY <1>2 DEF emptyRow, ALL_COLUMNS, TextColumns, DateColumns
<1>4. DOMAIN q = ALL_COLUMNS
  BY <1>1, <1>2, <1>3 DEF ingestedRow
<1>5. /\ q.type = "DEPLOYMENT"
      /\ q.service = b.service
      /\ q.environment = b.environment
      /\ q.occurredAt = now
      /\ q.requester = orElse(text(b, "requester"), "ci")
      /\ q.changeType = orElse(text(b, "changeType"), "NORMAL")
      /\ q.deployStatus = statusOr(b, "DEPLOYED")
      /\ q.scheduledAt = date(b, "scheduledAt")
      /\ q.externalId = NoText
  BY <1>1, <1>2, <1>3 DEF ingestedRow, ALL_COLUMNS, TextColumns, DateColumns
<1>6. \A c \in {"startedAt", "resolvedAt", "windowStart", "windowEnd"} : q[c] = NoDate
  BY <1>1, <1>2, <1>3 DEF ingestedRow, ALL_COLUMNS, DateColumns
<1>7. q.scheduledAt \in Nat
  BY <1>5, DateIs DEF validateIngestBody, plannedIfScheduled, DateColumns
<1>8. Shaped(q)
  <2>1. q.incidentStatus = NoText
    BY <1>1, <1>2, <1>3 DEF ingestedRow, emptyRow, ALL_COLUMNS, TextColumns, DateColumns
  <2>2. q.deployStatus \in Statuses
    BY <1>5 DEF validateIngestBody, oneOf, orElse, statusOr, text, Statuses, DEPLOY_ORDER
  <2>3. QED
    BY <1>4, <1>5, <1>6, <1>7, <2>1, <2>2 DEF Shaped, DateColumns, NoDate
<1>9. q.requester # NoText
  BY <1>5 DEF orElse, NoText
<1>10. q.changeType \in ChangeTypes
  BY <1>5 DEF validateIngestBody, oneOf, orElse, text, ChangeTypes
<1>11. QED
  BY <1>1, <1>5, <1>8, <1>9, <1>10 DEF Told, EventTypes, NoDate

\* A source of the endpoint adds texts to a body, and no date.
LEMMA Sourced ==
    ASSUME NEW source, NEW b, datesAreTold(b)
    PROVE  datesAreTold(sourced(source, b))
<1>1. PICK w : w = onto(b, [environment |-> source.defaultEnvironment])
  OBVIOUS
<1>2. datesAreTold(w)
  <2>1. PICK e : e = [environment |-> source.defaultEnvironment]
    OBVIOUS
  <2>2. DOMAIN e \cap DateColumns = {}
    BY <2>1 DEF DateColumns
  <2>3. w = onto(b, e)
    BY <1>1, <2>1
  <2>4. DOMAIN w = DOMAIN b \cup DOMAIN e /\ \A c \in DOMAIN b : w[c] = b[c]
    BY <2>3, OntoIs
  <2>5. QED
    BY <2>2, <2>4 DEF datesAreTold
<1>3. datesAreTold(onto([service |-> source.service], w))
  <2>1. PICK e : e = [service |-> source.service]
    OBVIOUS
  <2>2. DOMAIN e \cap DateColumns = {}
    BY <2>1 DEF DateColumns
  <2>3. PICK v : v = onto(e, w)
    OBVIOUS
  <2>4. DOMAIN v = DOMAIN e \cup DOMAIN w /\ \A c \in DOMAIN w \ DOMAIN e : v[c] = w[c]
    <3>1. /\ DOMAIN onto(e, w) = DOMAIN e \cup DOMAIN w
          /\ \A c \in DOMAIN w \ DOMAIN e : onto(e, w)[c] = w[c]
      BY OntoIs
    <3>2. QED
      BY <2>3, <3>1
  <2>5. datesAreTold(v)
    BY <1>2, <2>2, <2>4 DEF datesAreTold
  <2>6. QED
    BY <2>1, <2>3, <2>5
<1>4. QED
  BY <1>1, <1>2, <1>3 DEF sourced

-------------------------------------------------------------------------------
(***************************************************************************)
(* Workbooks.                                                              *)
(***************************************************************************)
\* A workbook says what the row says, of the columns that it has.
LEMMA SheetTells ==
    ASSUME NEW r, Shaped(r)
    PROVE  LET b == rowToBody(r)
           IN  /\ \A c \in TextColumns \cap EXCEL_COLUMNS : text(b, c) = r[c]
               /\ \A c \in DateColumns \cap EXCEL_COLUMNS : date(b, c) = r[c]
               /\ \A c \in DOMAIN b : c \in EXCEL_COLUMNS /\ b[c] = r[c] /\ filled(r, c)
               /\ \A c \in DOMAIN b \cap TextColumns : r[c] # NoText
               /\ \A c \in EXCEL_COLUMNS : filled(r, c) => c \in DOMAIN b
               /\ datesAreTold(b)
<1>1. PICK b : b = rowToBody(r)
  OBVIOUS
<1>2. DOMAIN b = {k \in EXCEL_COLUMNS : filled(r, k)} /\ \A c \in DOMAIN b : b[c] = r[c]
  BY <1>1 DEF rowToBody
<1>3. TextColumns \cap DateColumns = {}
  BY DEF TextColumns, DateColumns
<1>4. \A c \in TextColumns : filled(r, c) <=> r[c] # NoText
  BY <1>3 DEF filled
<1>5. \A c \in DateColumns : filled(r, c) <=> r[c] # NoDate
  BY <1>3 DEF filled
<1>6. \A c \in TextColumns \cap EXCEL_COLUMNS : text(b, c) = r[c]
  BY <1>2, <1>4 DEF text
<1>7. \A c \in DateColumns \cap EXCEL_COLUMNS : date(b, c) = r[c]
  BY <1>2, <1>5 DEF date
<1>8. datesAreTold(b)
  BY <1>2, <1>5 DEF datesAreTold, Shaped
<1>9. \A c \in DOMAIN b \cap TextColumns : r[c] # NoText
  BY <1>2, <1>4
<1>10. QED
  BY <1>1, <1>2, <1>6, <1>7, <1>8, <1>9

Spared(r) ==
    {"scheduledAt", "parentId", "hourType"} \cup
    {c \in {"lot", "deployStatus", "incidentStatus"} : r[c] = NoText} \cup
    (IF r.type # "DEPLOYMENT" THEN {"occurredAt"} ELSE {})

\* What comes back of a row is the row.
LEMMA ComesBack ==
    ASSUME NEW r, Stored(r), importable(r), NEW now \in Nat \ {0}, NEW c \in DOMAIN r \ Spared(r)
    PROVE  updatedRow(r, r.type, rowToBody(r), now)[c] = r[c]
<1>1. PICK b : b = rowToBody(r)
  OBVIOUS
<1>2. /\ \A k \in TextColumns \cap EXCEL_COLUMNS : text(b, k) = r[k]
      /\ \A k \in DateColumns \cap EXCEL_COLUMNS : date(b, k) = r[k]
      /\ \A k \in DOMAIN b : b[k] = r[k] /\ filled(r, k)
      /\ \A k \in EXCEL_COLUMNS : filled(r, k) => k \in DOMAIN b
  BY <1>1, SheetTells DEF Stored, Told
<1>3. PICK d : d = toCreateData(r.type, b, now)
  OBVIOUS
<1>4. updatedRow(r, r.type, b, now) = onto(d, r)
  BY <1>3 DEF updatedRow
<1>5. (c \in DOMAIN d => onto(d, r)[c] = d[c]) /\ (c \notin DOMAIN d => onto(d, r)[c] = r[c])
  <2>1. /\ \A k \in DOMAIN d : onto(d, r)[k] = d[k]
        /\ \A k \in DOMAIN r \ DOMAIN d : onto(d, r)[k] = r[k]
    BY OntoIs
  <2>2. QED
    BY <2>1
<1>6. validBody(r.type, b)
  BY <1>1 DEF importable
<1>7. /\ r.type # NoText /\ r.service # NoText /\ r.environment # NoText /\ r.occurredAt # NoDate
      /\ c \in ALL_COLUMNS
  BY RecordsAssumption DEF Stored, Told, EventTypes, NoText, Shaped
<1>8. b.service = r.service /\ b.environment = r.environment
  <2>1. {"service", "environment"} \subseteq EXCEL_COLUMNS \cap TextColumns
    BY DEF EXCEL_COLUMNS, ALL_COLUMNS, TextColumns
  <2>2. filled(r, "service") /\ filled(r, "environment")
    BY <1>7 DEF filled, TextColumns, DateColumns
  <2>3. QED
    BY <1>2, <2>1, <2>2
<1>9. "occurredAt" \in DOMAIN b /\ b.occurredAt = r.occurredAt
  BY <1>2, <1>7 DEF filled, EXCEL_COLUMNS, ALL_COLUMNS, TextColumns, DateColumns
<1>10. (IF "tags" \in DOMAIN b THEN b.tags ELSE {}) = r.tags
  BY <1>2 DEF filled, EXCEL_COLUMNS, ALL_COLUMNS, TextColumns, DateColumns
<1>11. text(b, "externalId") = r.externalId
  BY <1>2 DEF EXCEL_COLUMNS, ALL_COLUMNS, TextColumns
<1>12. ASSUME Enveloped(d, r.type, b, now), c \in Envelope PROVE d[c] = r[c]
  <2>1. CASE c = "occurredAt"
    <3>1. r.type = "DEPLOYMENT"
      BY <2>1 DEF Spared
    <3>2. QED
      BY <1>9, <1>12, <2>1, <3>1 DEF Enveloped, occurredAt
  <2>2. CASE c # "occurredAt"
    BY <1>8, <1>10, <1>11, <1>12, <2>2 DEF Enveloped, Envelope
  <2>3. QED
    BY <2>1, <2>2
<1>13. CASE r.type = "DEPLOYMENT"
  <2>1. /\ DOMAIN d = DeploymentColumns \cup Envelope
        /\ Enveloped(d, r.type, b, now)
        /\ d.version = text(b, "version")
        /\ d.comment = text(b, "comment")
        /\ d.lot = orElse(text(b, "lot"), text(b, "version"))
        /\ d.requester = b.requester
        /\ d.changeType = b.changeType
        /\ d.deployStatus = statusOr(b, "PENDING")
    BY <1>3, <1>13, DeploymentData
  <2>2. /\ text(b, "version") = r.version /\ text(b, "comment") = r.comment /\ text(b, "lot") = r.lot
        /\ text(b, "deployStatus") = r.deployStatus
    BY <1>2 DEF EXCEL_COLUMNS, ALL_COLUMNS, TextColumns
  <2>3. b.requester = r.requester /\ b.changeType = r.changeType
    <3>1. text(b, "requester") # NoText /\ text(b, "changeType") \in ChangeTypes
      BY <1>6, <1>13 DEF validBody, validateDeploymentBody
    <3>2. "requester" \in DOMAIN b /\ "changeType" \in DOMAIN b
      BY <3>1 DEF text, ChangeTypes, NoText
    <3>3. QED
      BY <1>2, <3>2
  <2>4. c \in DeploymentColumns => d[c] = r[c]
    BY <2>1, <2>2, <2>3 DEF DeploymentColumns, Spared, orElse, statusOr
  <2>5. QED
    BY <1>1, <1>4, <1>5, <1>12, <2>1, <2>4
<1>14. CASE r.type = "INCIDENT"
  <2>1. /\ DOMAIN d = IncidentColumns \cup Envelope
        /\ Enveloped(d, r.type, b, now)
        /\ d.incidentType = b.incidentType
        /\ d.incidentStatus = orElse(text(b, "incidentStatus"),
                                  IF date(b, "resolvedAt") # NoDate THEN "RESOLVED" ELSE "INVESTIGATING")
        /\ d.startedAt = b.startedAt
        /\ d.resolvedAt = date(b, "resolvedAt")
        /\ d.comment = text(b, "comment")
    BY <1>3, <1>14, IncidentData
  <2>2. /\ text(b, "incidentStatus") = r.incidentStatus /\ text(b, "comment") = r.comment
        /\ date(b, "resolvedAt") = r.resolvedAt
    BY <1>2 DEF EXCEL_COLUMNS, ALL_COLUMNS, TextColumns, DateColumns
  <2>3. b.incidentType = r.incidentType /\ b.startedAt = r.startedAt
    <3>1. text(b, "incidentType") # NoText /\ date(b, "startedAt") # NoDate
      BY <1>6, <1>14 DEF validBody, validateIncidentBody
    <3>2. "incidentType" \in DOMAIN b /\ "startedAt" \in DOMAIN b
      BY <3>1 DEF text, date
    <3>3. QED
      BY <1>2, <3>2
  <2>4. c = "incidentStatus" => r.incidentStatus # NoText
    BY DEF Spared
  <2>5. c \in IncidentColumns => d[c] = r[c]
    BY <2>1, <2>2, <2>3, <2>4 DEF IncidentColumns, orElse
  <2>6. QED
    BY <1>1, <1>4, <1>5, <1>12, <2>1, <2>5
<1>15. CASE r.type = "MAINTENANCE"
  <2>1. /\ DOMAIN d = MaintenanceColumns \cup Envelope
        /\ Enveloped(d, r.type, b, now)
        /\ d.version = text(b, "version")
        /\ d.windowStart = b.windowStart
        /\ d.windowEnd = b.windowEnd
    BY <1>3, <1>15, MaintenanceData
  <2>2. text(b, "version") = r.version
    BY <1>2 DEF EXCEL_COLUMNS, ALL_COLUMNS, TextColumns
  <2>3. b.windowStart = r.windowStart /\ b.windowEnd = r.windowEnd
    <3>1. date(b, "windowStart") # NoDate /\ date(b, "windowEnd") # NoDate
      BY <1>6, <1>15 DEF validBody, validateMaintenanceBody
    <3>2. "windowStart" \in DOMAIN b /\ "windowEnd" \in DOMAIN b
      BY <3>1 DEF date
    <3>3. QED
      BY <1>2, <3>2
  <2>4. c \in MaintenanceColumns => d[c] = r[c]
    BY <2>1, <2>2, <2>3 DEF MaintenanceColumns
  <2>5. QED
    BY <1>1, <1>4, <1>5, <1>12, <2>1, <2>4
<1>16. QED
  BY <1>13, <1>14, <1>15 DEF Stored, Told, EventTypes

\* Only deployments are refused, and for what a workbook has no column for, or is
\* not there.
LEMMA RefusedIs ==
    ASSUME NEW r, Stored(r), ~importable(r)
    PROVE  /\ r.type = "DEPLOYMENT"
           /\ \/ isPhase(r.changeType)
              \/ r.version = NoText
              \/ r.deployStatus = "SCHEDULED"
<1>1. PICK b : b = rowToBody(r)
  OBVIOUS
<1>2. /\ \A k \in TextColumns \cap EXCEL_COLUMNS : text(b, k) = r[k]
      /\ \A k \in DateColumns \cap EXCEL_COLUMNS : date(b, k) = r[k]
      /\ \A k \in DOMAIN b : k \in EXCEL_COLUMNS /\ b[k] = r[k]
      /\ \A k \in DOMAIN b \cap TextColumns : r[k] # NoText
  BY <1>1, SheetTells DEF Stored, Told
<1>3. Told(r) /\ (\A k \in DateColumns : r[k] \in Nat)
  BY DEF Stored, Told, Shaped
<1>4. parseEnvelope(b)
  BY <1>2, RecordsAssumption DEF Stored, parseEnvelope, EXCEL_COLUMNS, ALL_COLUMNS, TextColumns
<1>5. \A k \in DateColumns \cap EXCEL_COLUMNS : date(b, k) # BadDate
  BY <1>2, <1>3 DEF BadDate
<1>6. CASE r.type = "INCIDENT"
  <2>1. text(b, "incidentType") # NoText /\ date(b, "startedAt") \notin {NoDate, BadDate}
    BY <1>2, <1>3, <1>5, <1>6 DEF Told, EXCEL_COLUMNS, ALL_COLUMNS, TextColumns, DateColumns
  <2>2. date(b, "resolvedAt") # BadDate
    BY <1>5 DEF EXCEL_COLUMNS, ALL_COLUMNS, TextColumns, DateColumns
  <2>3. oneOf(b, "incidentStatus", IncidentStatuses)
    BY <1>2, <1>3, <1>6 DEF Told, Shaped, oneOf, TextColumns
  <2>4. validateIncidentBody(b)
    BY <1>4, <2>1, <2>2, <2>3 DEF validateIncidentBody
  <2>5. QED
    BY <1>1, <1>6, <2>4 DEF importable, validBody
<1>7. CASE r.type = "MAINTENANCE"
  <2>1. \A k \in {"windowStart", "windowEnd"} : date(b, k) \notin {NoDate, BadDate} /\ date(b, k) = r[k]
    BY <1>2, <1>3, <1>5, <1>7 DEF Told, EXCEL_COLUMNS, ALL_COLUMNS, TextColumns, DateColumns
  <2>2. b.windowStart = r.windowStart /\ b.windowEnd = r.windowEnd
    BY <2>1 DEF date
  <2>3. validateMaintenanceBody(b)
    BY <1>3, <1>4, <1>7, <2>1, <2>2 DEF validateMaintenanceBody, Told
  <2>4. QED
    BY <1>1, <1>7, <2>3 DEF importable, validBody
<1>8. ASSUME r.type = "DEPLOYMENT", ~isPhase(r.changeType), r.version # NoText, r.deployStatus # "SCHEDULED"
      PROVE  FALSE
  <2>1. /\ text(b, "changeType") = r.changeType /\ text(b, "version") = r.version
        /\ text(b, "requester") = r.requester /\ text(b, "deployStatus") = r.deployStatus
    BY <1>2 DEF EXCEL_COLUMNS, ALL_COLUMNS, TextColumns
  <2>2. r.changeType \in ChangeTypes /\ r.requester # NoText /\ r.deployStatus \in Statuses \cup {NoText}
    BY <1>3, <1>8 DEF Told, Shaped
  <2>3. b.changeType = r.changeType
    BY <2>1, <2>2 DEF text, ChangeTypes, NoText
  <2>4. oneOf(b, "deployStatus", Statuses)
    BY <1>2, <2>2 DEF oneOf, TextColumns
  <2>5. date(b, "scheduledAt") = NoDate
    BY <1>2 DEF date, EXCEL_COLUMNS
  <2>6. date(b, "occurredAt") # BadDate
    BY <1>5 DEF EXCEL_COLUMNS, ALL_COLUMNS, TextColumns, DateColumns
  <2>7. statusOr(b, "PENDING") # "SCHEDULED"
    BY <1>8, <2>1 DEF statusOr, orElse
  <2>8. plannedIfScheduled(b, "PENDING")
    BY <2>5, <2>7 DEF plannedIfScheduled, NoDate, BadDate
  <2>9. validateDeploymentBody(b)
    BY <1>4, <1>8, <2>1, <2>2, <2>3, <2>4, <2>6, <2>8 DEF validateDeploymentBody
  <2>10. QED
    BY <1>1, <1>8, <2>9 DEF importable, validBody
<1>9. QED
  BY <1>3, <1>6, <1>7, <1>8 DEF Told, EventTypes
-------------------------------------------------------------------------------
(***************************************************************************)
(* What a step may do to what was read.  Rows stay, and so does the        *)
(* history; a row that moves is in the history, and so is one whose type   *)
(* changes or that becomes a phase, or the phase of another deployment.    *)
(* A status may move, and is never lost.                                   *)
(***************************************************************************)
Steady ==
    /\ live \subseteq live'
    /\ redated \subseteq redated'
    /\ byApi \subseteq byApi'
    /\ \A i \in live : i \in redated' \/ standsWhere(rows'[i]) = standsWhere(rows[i])
    /\ \A i \in live : rows[i].deployStatus # NoText => rows'[i].deployStatus # NoText
    /\ \A i \in live \ byApi' :
          /\ rows'[i].type = rows[i].type
          /\ isPhase(rows'[i].changeType) => /\ rows'[i].changeType = rows[i].changeType
                                             /\ rows'[i].parentId = rows[i].parentId

LEMMA StandsStill ==
    ASSUME Steady, NEW i \in live, i \notin redated'
    PROVE  /\ rows'[i].service = rows[i].service
           /\ rows'[i].environment = rows[i].environment
           /\ rows'[i].occurredAt = rows[i].occurredAt
           /\ rows'[i].version = rows[i].version
  BY DEF Steady, standsWhere

LEMMA OnSideStays ==
    ASSUME Steady, NEW changeType, NEW parentId, NEW at, OnSide(changeType, parentId, at)
    PROVE  OnSide(changeType, parentId, at)'
<1>1. SUFFICES ASSUME isPhase(changeType), parentId \notin redated'
               PROVE  parentId \in live' /\ onItsSide(changeType, at, rows'[parentId].occurredAt)
  <2>1. CASE isPhase(changeType) /\ parentId \in redated'
    BY <2>1 DEF OnSide, Steady
  <2>2. CASE ~isPhase(changeType)
    BY <2>2 DEF OnSide
  <2>3. QED
    BY <1>1, <2>1, <2>2 DEF OnSide
<1>2. parentId \in live /\ parentId \notin redated
  BY <1>1 DEF OnSide, Steady
<1>3. onItsSide(changeType, at, rows[parentId].occurredAt)
  BY <1>1, <1>2 DEF OnSide
<1>4. rows'[parentId].occurredAt = rows[parentId].occurredAt
  BY <1>1, <1>2, StandsStill
<1>5. QED
  BY <1>2, <1>3, <1>4 DEF Steady

LEMMA GoesBackStays ==
    ASSUME Steady, NEW i \in live, i \notin redated', NEW n, GoesBack(i, n)
    PROVE  GoesBack(i, n)'
<1>1. SUFFICES ASSUME n.kind = "rollback", n.to # NoText
               PROVE  \E d \in live' \ {i} :
                         \/ d \in redated'
                         \/ /\ d \in before(i, rows[i].occurredAt)'
                            /\ rows'[d].version = n.to
                            /\ d \in (deployments \cup byApi)'
  BY DEF GoesBack
<1>2. PICK d \in live \ {i} : \/ d \in redated
                              \/ /\ d \in before(i, rows[i].occurredAt)
                                 /\ rows[d].version = n.to
                                 /\ d \in deployments \cup byApi
  BY <1>1 DEF GoesBack
<1>3. d \in live' \ {i} /\ (d \in redated => d \in redated')
  BY <1>2 DEF Steady
<1>4. ASSUME d \notin redated'
      PROVE  /\ d \in before(i, rows[i].occurredAt)'
             /\ rows'[d].version = n.to
             /\ d \in (deployments \cup byApi)'
  <2>1. /\ d \in before(i, rows[i].occurredAt)
        /\ rows[d].version = n.to
        /\ d \in deployments \cup byApi
    BY <1>2, <1>3, <1>4
  <2>2. /\ rows'[i].service = rows[i].service
        /\ rows'[i].environment = rows[i].environment
        /\ rows'[i].occurredAt = rows[i].occurredAt
    BY StandsStill
  <2>3. /\ rows'[d].service = rows[d].service
        /\ rows'[d].environment = rows[d].environment
        /\ rows'[d].occurredAt = rows[d].occurredAt
        /\ rows'[d].version = rows[d].version
    BY <1>2, <1>4, StandsStill
  <2>4. d \in before(i, rows[i].occurredAt)'
    BY <1>3, <2>1, <2>2, <2>3 DEF before
  <2>5. d \in byApi' \/ rows'[d].type = rows[d].type
    BY <1>2 DEF Steady
  <2>6. d \in (deployments \cup byApi)'
    BY <1>3, <2>1, <2>5 DEF deployments, Steady
  <2>7. QED
    BY <2>1, <2>3, <2>4, <2>6
<1>5. QED
  BY <1>3, <1>4

LEMMA JobStays ==
    ASSUME Steady, NEW j, JobInv(j)
    PROVE  JobInv(j)'
<1>1. CASE j = Idle
  BY <1>1 DEF JobInv
<1>2. CASE j.pc = "create" /\ CreateInv(j)
  <2>1. Placed(j.row)'
    BY <1>2, OnSideStays DEF CreateInv, Placed
  <2>2. QED
    BY <1>2, <2>1 DEF JobInv, CreateInv
<1>3. CASE j.pc = "dating" /\ DatingInv(j)
  BY <1>3 DEF JobInv, DatingInv, Steady
<1>4. CASE j.pc = "write" /\ WriteInv(j)
  <2>1. j.id \in live /\ j.id \in live' /\ IsPut(j.put)
    BY <1>4 DEF WriteInv, Steady
  <2>2. ASSUME j.id \notin byApi', "occurredAt" \in DOMAIN j.put
        PROVE  OnSide(rows[j.id].changeType, rows[j.id].parentId, j.put.occurredAt)'
    <3>1. PICK c, p, at : c = rows[j.id].changeType /\ p = rows[j.id].parentId /\ at = j.put.occurredAt
      OBVIOUS
    <3>2. OnSide(c, p, at)
      BY <1>4, <2>2, <3>1 DEF WriteInv, Steady
    <3>3. OnSide(c, p, at)'
      BY <3>2, OnSideStays
    <3>4. isPhase(rows'[j.id].changeType) => rows'[j.id].changeType = c /\ rows'[j.id].parentId = p
      BY <2>1, <2>2, <3>1 DEF Steady
    <3>5. QED
      BY <3>1, <3>3, <3>4 DEF OnSide
  <2>3. QED
    BY <1>4, <2>1, <2>2 DEF JobInv, WriteInv
<1>5. CASE j.pc = "target" /\ TargetInv(j)
  <2>1. j.id \in live /\ j.id \in live'
    BY <1>5 DEF TargetInv, Steady
  <2>2. ASSUME j.id \notin redated' PROVE j.at = rows'[j.id].occurredAt
    BY <1>5, <2>1, <2>2, StandsStill DEF TargetInv, Steady
  <2>3. QED
    BY <1>5, <2>1, <2>2 DEF JobInv, TargetInv
<1>6. QED
  BY <1>1, <1>2, <1>3, <1>4, <1>5 DEF JobInv

\* A row that stays where it was, or is put on its side of its deployment.
LEMMA PlacedStays ==
    ASSUME Steady, NEW i \in live', i \notin byApi',
           \/ i \in live /\ Placed(rows[i]) /\ rows'[i].occurredAt = rows[i].occurredAt
           \/ OnSide(rows'[i].changeType, rows'[i].parentId, rows'[i].occurredAt)
    PROVE  Placed(rows[i])'
<1>1. PICK c, p, at : c = rows'[i].changeType /\ p = rows'[i].parentId /\ at = rows'[i].occurredAt
  OBVIOUS
<1>2. isPhase(c) => OnSide(c, p, at)
  BY <1>1 DEF Placed, OnSide, Steady
<1>3. OnSide(c, p, at)
  BY <1>2 DEF OnSide
<1>4. OnSide(c, p, at)'
  BY <1>3, OnSideStays
<1>5. QED
  BY <1>1, <1>4 DEF Placed, OnSide

\* With that, a step keeps the invariant if what it writes is as it should be.
LEMMA Preserved ==
    ASSUME RecordsInv, TypesInv', Steady,
           job' = [s \in Sessions |-> job'[s]],
           \A s \in Sessions : job'[s] = job[s] \/ JobInv(job'[s]),
           \A i \in live' \ byApi' :
              \/ i \in live /\ rows'[i].occurredAt = rows[i].occurredAt
              \/ OnSide(rows'[i].changeType, rows'[i].parentId, rows'[i].occurredAt),
           \A i \in live' \ redated' : \A n \in notes'[i] :
              \/ n.kind # "rollback"
              \/ i \in live /\ (n \in notes[i] \/ GoesBack(i, n))
    PROVE  RecordsInv' /\ Steady
<1>1. JobsInv'
  <2>1. ASSUME NEW s \in Sessions PROVE JobInv(job[s])'
    <3>1. PICK j : j = job'[s]
      OBVIOUS
    <3>2. JobInv(j)
      BY <3>1 DEF RecordsInv, JobsInv
    <3>3. JobInv(j)'
      BY <3>2, JobStays
    <3>4. QED
      BY <3>1, <3>3
  <2>2. QED
    BY <2>1 DEF JobsInv
<1>2. PhasesPlaced'
  <2>1. ASSUME NEW i \in live', i \notin byApi' PROVE Placed(rows[i])'
    <3>1. i \in live => Placed(rows[i])
      BY <2>1 DEF RecordsInv, PhasesPlaced, Steady
    <3>2. QED
      BY <2>1, <3>1, PlacedStays
  <2>2. QED
    BY <2>1 DEF PhasesPlaced
<1>3. RollbacksGoBack'
  <2>1. ASSUME NEW i \in live', i \notin redated', NEW n \in notes'[i] PROVE GoesBack(i, n)'
    <3>1. CASE n.kind # "rollback"
      BY <3>1 DEF GoesBack
    <3>2. CASE i \in live /\ (n \in notes[i] \/ GoesBack(i, n))
      <4>1. GoesBack(i, n)
        BY <2>1, <3>2 DEF RecordsInv, RollbacksGoBack, Steady
      <4>2. QED
        BY <2>1, <3>2, <4>1, GoesBackStays
    <3>3. QED
      BY <2>1, <3>1, <3>2
  <2>2. QED
    BY <2>1 DEF RollbacksGoBack
<1>4. QED
  BY <1>1, <1>2, <1>3 DEF RecordsInv
-------------------------------------------------------------------------------
(***************************************************************************)
(* Three kinds of steps: those that write no row, those that write one     *)
(* that is there, and those that write a new one.                          *)
(***************************************************************************)
JobsKeep == job' = [s \in Sessions |-> job'[s]] /\ \A s \in Sessions : job'[s] = job[s] \/ JobInv(job'[s])

LEMMA JobsWait ==
    ASSUME RecordsInv, UNCHANGED job
    PROVE  JobsKeep
  BY DEF JobsKeep, RecordsInv, JobsInv

LEMMA JobBegins ==
    ASSUME RecordsInv, NEW s \in Sessions, NEW j, JobInv(j), job' = [job EXCEPT ![s] = j]
    PROVE  JobsKeep
  BY DEF JobsKeep, RecordsInv, JobsInv

LEMMA JobEnds ==
    ASSUME RecordsInv, NEW s \in Sessions, job' = [job EXCEPT ![s] = Idle]
    PROVE  JobsKeep
<1>1. JobInv(Idle)
  BY DEF JobInv
<1>2. QED
  BY <1>1 DEF JobsKeep, RecordsInv, JobsInv

LEMMA QuietKeeps ==
    ASSUME RecordsInv, JobsKeep, UNCHANGED << rows, redated, byApi >>,
           SheetTyped', clock' \in Nat \ {0}, NotesTyped',
           \A i \in live \ redated : \A n \in notes'[i] :
              n \in notes[i] \/ n.kind # "rollback" \/ GoesBack(i, n)
    PROVE  RecordsInv' /\ Steady
<1>1. live' = live
  BY DEF live
<1>2. Steady
  BY <1>1 DEF Steady
<1>3. TypesInv'
  <2>1. RowsTyped'
    BY <1>1 DEF RecordsInv, TypesInv, RowsTyped
  <2>2. LiveComeFirst'
    BY <1>1 DEF RecordsInv, TypesInv, LiveComeFirst
  <2>3. ExternalIdsDiffer'
    BY <1>1 DEF RecordsInv, TypesInv, ExternalIdsDiffer
  <2>4. HistoryTyped'
    BY <1>1 DEF RecordsInv, TypesInv, HistoryTyped
  <2>5. QED
    BY <2>1, <2>2, <2>3, <2>4 DEF TypesInv
<1>4. \A i \in live' \ redated' : \A n \in notes'[i] :
         \/ n.kind # "rollback"
         \/ i \in live /\ (n \in notes[i] \/ GoesBack(i, n))
  BY <1>1
<1>5. \A i \in live' \ byApi' : i \in live /\ rows'[i].occurredAt = rows[i].occurredAt
  BY <1>1
<1>6. QED
  BY <1>2, <1>3, <1>4, <1>5, Preserved DEF JobsKeep

LEMMA Overwritten ==
    ASSUME TypesInv, NEW i \in live, NEW row, Stored(row), row.externalId = rows[i].externalId,
           overwrite(i, row)
    PROVE  /\ live' = live
           /\ rows'[i] = row
           /\ \A k \in live \ {i} : rows'[k] = rows[k]
           /\ RowsTyped' /\ LiveComeFirst' /\ ExternalIdsDiffer'
           /\ redated \subseteq redated' /\ redated' \subseteq live
           /\ i \in redated' \/ standsWhere(row) = standsWhere(rows[i])
<1>1. /\ rows = [k \in AllIds |-> rows[k]]
      /\ \A k \in AllIds : Shaped(rows[k])
      /\ \A k \in live : Stored(rows[k])
  BY DEF TypesInv, RowsTyped
<1>2. live = {k \in AllIds : rows[k].type # NoText} /\ i \in AllIds
  BY <1>1 DEF live
<1>3. rows' = [k \in AllIds |-> IF k = i THEN row ELSE rows[k]]
  BY <1>1 DEF overwrite
<1>4. row.type # NoText /\ Shaped(row)
  BY DEF Stored, Told, EventTypes, NoText
<1>5. live' = live
  BY <1>2, <1>3, <1>4 DEF live
<1>6. RowsTyped'
  <2>1. rows' = [k \in AllIds |-> rows'[k]]
    BY <1>3
  <2>2. \A k \in AllIds : rows'[k] = IF k = i THEN row ELSE rows[k]
    BY <1>3
  <2>3. (\A k \in AllIds : Shaped(rows'[k])) /\ (\A k \in live' : Stored(rows'[k]))
    BY <1>1, <1>2, <1>4, <1>5, <2>2
  <2>4. QED
    BY <2>1, <2>3 DEF RowsTyped
<1>7. LiveComeFirst'
  BY <1>5 DEF TypesInv, LiveComeFirst
<1>8. ExternalIdsDiffer'
  <2>1. \A k \in live : rows'[k].externalId = rows[k].externalId
    BY <1>2, <1>3
  <2>2. QED
    BY <1>5, <2>1 DEF TypesInv, ExternalIdsDiffer
<1>9. QED
  BY <1>2, <1>3, <1>5, <1>6, <1>7, <1>8 DEF overwrite, TypesInv, HistoryTyped

LEMMA OverwriteKeeps ==
    ASSUME RecordsInv, JobsKeep,
           NEW i \in live, NEW row, Stored(row), row.externalId = rows[i].externalId, overwrite(i, row),
           \/ i \in byApi'
           \/ /\ row.type = rows[i].type
              /\ isPhase(row.changeType) => /\ row.changeType = rows[i].changeType
                                            /\ row.parentId = rows[i].parentId
              /\ \/ row.occurredAt = rows[i].occurredAt
                 \/ OnSide(row.changeType, row.parentId, row.occurredAt),
           rows[i].deployStatus # NoText => row.deployStatus # NoText,
           UNCHANGED << sheet, clock >>,
           byApi \subseteq byApi', byApi' \subseteq live,
           NotesTyped', \A k \in live : \A n \in notes'[k] : n \in notes[k] \/ n.kind # "rollback"
    PROVE  RecordsInv' /\ Steady
<1>1. TypesInv
  BY DEF RecordsInv
<1>2. /\ live' = live
      /\ rows'[i] = row
      /\ \A k \in live \ {i} : rows'[k] = rows[k]
      /\ RowsTyped' /\ LiveComeFirst' /\ ExternalIdsDiffer'
      /\ redated \subseteq redated' /\ redated' \subseteq live
      /\ i \in redated' \/ standsWhere(row) = standsWhere(rows[i])
  BY <1>1, Overwritten
<1>3. TypesInv'
  BY <1>1, <1>2 DEF TypesInv, SheetTyped, HistoryTyped
<1>4. Steady
  BY <1>2 DEF Steady
<1>5. \A k \in live' \ byApi' :
         \/ k \in live /\ rows'[k].occurredAt = rows[k].occurredAt
         \/ OnSide(rows'[k].changeType, rows'[k].parentId, rows'[k].occurredAt)
  BY <1>2
<1>6. \A k \in live' \ redated' : \A n \in notes'[k] :
         \/ n.kind # "rollback"
         \/ k \in live /\ (n \in notes[k] \/ GoesBack(k, n))
  BY <1>2
<1>7. QED
  BY <1>3, <1>4, <1>5, <1>6, Preserved DEF JobsKeep

LEMMA Inserted ==
    ASSUME TypesInv, NEW row, Told(row), insert(row)
    PROVE  /\ nextId \in AllIds \ live
           /\ live' = live \cup {nextId}
           /\ rows'[nextId] = row
           /\ \A k \in live : rows'[k] = rows[k]
           /\ RowsTyped' /\ LiveComeFirst' /\ ExternalIdsDiffer'
<1>1. /\ rows = [k \in AllIds |-> rows[k]]
      /\ \A k \in AllIds : Shaped(rows[k])
      /\ \A k \in live : Stored(rows[k])
  BY DEF TypesInv, RowsTyped
<1>2. live = {k \in AllIds : rows[k].type # NoText}
  BY <1>1 DEF live
<1>3. PICK i : i = nextId
  OBVIOUS
<1>4. /\ i \in AllIds \ live
      /\ \E n \in 0..Len(Ids) : live \cup {i} = {Ids[k] : k \in 1..n}
  BY <1>3, NextId DEF insert, insertable, TypesInv
<1>5. rows' = [k \in AllIds |-> IF k = i THEN row ELSE rows[k]]
  BY <1>1, <1>3 DEF insert
<1>6. row.type # NoText /\ Shaped(row) /\ Stored(row)
  BY DEF insert, insertable, storable, Stored, Told, EventTypes, NoText
<1>7. live' = live \cup {i}
  BY <1>2, <1>4, <1>5, <1>6 DEF live
<1>8. RowsTyped'
  <2>1. rows' = [k \in AllIds |-> rows'[k]]
    BY <1>5
  <2>2. \A k \in AllIds : rows'[k] = IF k = i THEN row ELSE rows[k]
    BY <1>5
  <2>3. (\A k \in AllIds : Shaped(rows'[k])) /\ (\A k \in live' : Stored(rows'[k]))
    BY <1>1, <1>2, <1>4, <1>6, <1>7, <2>2
  <2>4. QED
    BY <2>1, <2>3 DEF RowsTyped
<1>9. LiveComeFirst'
  BY <1>4, <1>7 DEF LiveComeFirst
<1>10. ExternalIdsDiffer'
  <2>1. \A k \in live : rows'[k] = rows[k]
    BY <1>2, <1>4, <1>5
  <2>2. row.externalId = NoText \/ \A k \in live : rows[k].externalId # row.externalId
    BY DEF insert, insertable
  <2>3. QED
    BY <1>4, <1>5, <1>7, <2>1, <2>2 DEF TypesInv, ExternalIdsDiffer
<1>11. QED
  BY <1>2, <1>3, <1>4, <1>5, <1>7, <1>8, <1>9, <1>10

LEMMA InsertKeeps ==
    ASSUME RecordsInv, JobsKeep, NEW row, Told(row), insert(row),
           UNCHANGED << sheet, clock, redated >>,
           \/ byApi' = byApi \cup {nextId}
           \/ byApi' = byApi /\ Placed(row),
           UNCHANGED notes \/ notes' = [notes EXCEPT ![nextId] = creationNotes(row)]
    PROVE  RecordsInv' /\ Steady
<1>1. TypesInv
  BY DEF RecordsInv
<1>2. PICK i : i = nextId
  OBVIOUS
<1>3. /\ i \in AllIds \ live
      /\ live' = live \cup {i}
      /\ rows'[i] = row
      /\ \A k \in live : rows'[k] = rows[k]
      /\ RowsTyped' /\ LiveComeFirst' /\ ExternalIdsDiffer'
  BY <1>1, <1>2, Inserted
<1>4. /\ notes = [k \in AllIds |-> notes[k]]
      /\ \A k \in AllIds \ live : notes[k] = {}
  BY <1>1 DEF TypesInv, NotesTyped
<1>5. /\ notes' = [k \in AllIds |-> notes'[k]]
      /\ \A k \in AllIds \ {i} : notes'[k] = notes[k]
      /\ notes'[i] \in {{}, creationNotes(row)}
  BY <1>2, <1>3, <1>4
<1>6. TypesInv'
  <2>1. NotesTyped'
    BY <1>3, <1>4, <1>5 DEF NotesTyped
  <2>2. SheetTyped' /\ HistoryTyped'
    BY <1>1, <1>2, <1>3 DEF TypesInv, SheetTyped, HistoryTyped
  <2>3. QED
    BY <1>3, <2>1, <2>2 DEF TypesInv
<1>7. Steady
  BY <1>2, <1>3 DEF Steady
<1>8. \A k \in live' \ byApi' :
         \/ k \in live /\ rows'[k].occurredAt = rows[k].occurredAt
         \/ OnSide(rows'[k].changeType, rows'[k].parentId, rows'[k].occurredAt)
  BY <1>2, <1>3 DEF Placed
<1>9. \A n \in creationNotes(row) : n.kind # "rollback"
  BY DEF creationNotes, annotation
<1>10. \A k \in live' \ redated' : \A n \in notes'[k] :
         \/ n.kind # "rollback"
         \/ k \in live /\ (n \in notes[k] \/ GoesBack(k, n))
  <2>1. ASSUME NEW k \in live', NEW n \in notes'[k]
        PROVE  n.kind # "rollback" \/ (k \in live /\ n \in notes[k])
    <3>1. CASE k = i
      BY <1>5, <1>9, <2>1, <3>1
    <3>2. CASE k # i
      <4>1. k \in live /\ k \in AllIds
        BY <1>1, <1>3, <2>1, <3>2, LiveIsFinite DEF TypesInv
      <4>2. QED
        BY <1>5, <2>1, <3>2, <4>1
    <3>3. QED
      BY <3>1, <3>2
  <2>2. QED
    BY <2>1
<1>11. QED
  BY <1>6, <1>7, <1>8, <1>10, Preserved DEF JobsKeep
-------------------------------------------------------------------------------
(***************************************************************************)
(* Requests of the API.                                                    *)
(***************************************************************************)
LEMMA PostKeeps ==
    ASSUME RecordsInv, NEW type, NEW b, datesAreTold(b), post(type, b)
    PROVE  RecordsInv' /\ Steady
<1>1. PICK row : row = newRow(type, b, clock)
  OBVIOUS
<1>2. Told(row)
  BY <1>1, NewRow DEF post, RecordsInv, TypesInv, HistoryTyped
<1>3. /\ insert(row)
      /\ notes' = [notes EXCEPT ![nextId] = creationNotes(row)]
      /\ byApi' = byApi \cup {nextId}
      /\ UNCHANGED << job, sheet, clock, redated >>
  BY <1>1 DEF post, createEvent
<1>4. QED
  BY <1>2, <1>3, JobsWait, InsertKeeps

LEMMA PutKeeps ==
    ASSUME RecordsInv, NEW type, NEW b, datesAreTold(b), put(type, b)
    PROVE  RecordsInv' /\ Steady
<1>1. /\ validBody(type, b)
      /\ UNCHANGED << notes, job, sheet, clock >>
      /\ clock \in Nat \ {0}
  BY DEF put, RecordsInv, TypesInv, HistoryTyped
<1>2. JobsKeep
  BY <1>1, JobsWait
<1>3. CASE knownTo(b) = {}
  <2>1. PICK row : row = newRow(type, b, clock)
    OBVIOUS
  <2>2. Told(row)
    BY <1>1, <2>1, NewRow
  <2>3. insert(row) /\ byApi' = byApi \cup {nextId} /\ UNCHANGED redated
    BY <1>3, <2>1 DEF put
  <2>4. QED
    BY <1>1, <1>2, <2>2, <2>3, InsertKeeps
<1>4. CASE knownTo(b) # {}
  <2>1. /\ storable(newRow(type, b, clock))
        /\ byApi' = byApi \cup knownTo(b)
    BY <1>4 DEF put
  <2>2. PICK i \in knownTo(b) : overwrite(i, updatedRow(rows[i], type, b, clock))
    BY <1>4 DEF put
  <2>3. knownTo(b) \subseteq live /\ i \in live /\ rows[i].externalId = text(b, "externalId")
    BY <2>2 DEF knownTo
  <2>4. i \in AllIds /\ Shaped(rows[i])
    BY <2>3, LiveIsFinite DEF RecordsInv, TypesInv, RowsTyped
  <2>5. PICK row : row = updatedRow(rows[i], type, b, clock)
    OBVIOUS
  <2>6. /\ Told(row) /\ row.service = b.service /\ row.environment = b.environment
        /\ row.externalId = text(b, "externalId")
        /\ rows[i].deployStatus # NoText => row.deployStatus # NoText
    BY <1>1, <2>4, <2>5, Renewed
  <2>7. b.service \in Services /\ b.environment \in ActiveEnvs
    BY <1>1, <2>1, NewRow DEF storable
  <2>8. Stored(row) /\ row.externalId = rows[i].externalId
    BY <2>3, <2>6, <2>7 DEF Stored
  <2>9. byApi \subseteq byApi' /\ byApi' \subseteq live /\ i \in byApi'
    BY <2>1, <2>2, <2>3 DEF RecordsInv, TypesInv, HistoryTyped
  <2>10. overwrite(i, row)
    BY <2>2, <2>5
  <2>11. live' = live
    BY <2>3, <2>8, <2>10, Overwritten DEF RecordsInv
  <2>12. NotesTyped' /\ \A k \in live : \A n \in notes'[k] : n \in notes[k]
    BY <1>1, <2>11 DEF RecordsInv, TypesInv, NotesTyped
  <2>13. QED
    BY <1>1, <1>2, <2>3, <2>6, <2>8, <2>9, <2>10, <2>12, OverwriteKeeps
<1>5. QED
  BY <1>3, <1>4

LEMMA IngestKeeps ==
    ASSUME RecordsInv, NEW source, NEW b, datesAreTold(b), ingestDeployment(source, b)
    PROVE  RecordsInv' /\ Steady
<1>1. PICK body : body = sourced(source, b)
  OBVIOUS
<1>2. datesAreTold(body) /\ validateIngestBody(body)
  BY <1>1, Sourced DEF ingestDeployment
<1>3. PICK row : row = ingestedRow(body, clock)
  OBVIOUS
<1>4. Told(row)
  BY <1>2, <1>3, Ingested DEF RecordsInv, TypesInv, HistoryTyped
<1>5. /\ insert(row)
      /\ notes' = [notes EXCEPT ![nextId] = creationNotes(row)]
      /\ byApi' = byApi \cup {nextId}
      /\ UNCHANGED << job, sheet, clock, redated >>
  BY <1>1, <1>3 DEF ingestDeployment, createEvent
<1>6. QED
  BY <1>4, <1>5, JobsWait, InsertKeeps

-------------------------------------------------------------------------------
(***************************************************************************)
(* Session actions.                                                        *)
(***************************************************************************)
\* A step that only begins an action.
LEMMA StartKeeps ==
    ASSUME RecordsInv, NEW s \in Sessions, NEW j, JobInv(j), start(s, j)
    PROVE  RecordsInv' /\ Steady
<1>1. JobsKeep
  BY JobBegins DEF start
<1>2. UNCHANGED << rows, notes, sheet, clock, redated, byApi >>
  BY DEF start
<1>3. SheetTyped' /\ clock' \in Nat \ {0}
  BY <1>2 DEF RecordsInv, TypesInv, SheetTyped, HistoryTyped
<1>4. NotesTyped'
  BY <1>2 DEF RecordsInv, TypesInv, NotesTyped, live
<1>5. QED
  BY <1>1, <1>2, <1>3, <1>4, QuietKeeps

LEMMA CreateBegins ==
    ASSUME RecordsInv, NEW s \in Sessions, NEW type, NEW b, datesAreTold(b), createEventAction(s, type, b)
    PROVE  RecordsInv' /\ Steady
<1>1. PICK row : row = newRow(type, b, clock)
  OBVIOUS
<1>2. Told(row)
  BY <1>1, NewRow DEF createEventAction, RecordsInv, TypesInv, HistoryTyped
<1>3. CASE ~isPhase(row.changeType)
  <2>1. PICK j : j = [pc |-> "create", row |-> row]
    OBVIOUS
  <2>2. JobInv(j)
    BY <1>2, <1>3, <2>1 DEF JobInv, CreateInv, Placed, OnSide
  <2>3. start(s, j)
    BY <1>1, <1>3, <2>1 DEF createEventAction
  <2>4. QED
    BY <2>2, <2>3, StartKeeps
<1>4. CASE isPhase(row.changeType)
  <2>1. PICK r : r = [row EXCEPT !.environment = rows[row.parentId].environment]
    OBVIOUS
  <2>2. PICK j : j = [pc |-> "create", row |-> r]
    OBVIOUS
  <2>3. /\ row.parentId \in live
        /\ onItsSide(row.changeType, row.occurredAt, rows[row.parentId].occurredAt)
        /\ start(s, j)
    BY <1>1, <1>4, <2>1, <2>2 DEF createEventAction
  <2>4. DOMAIN r = DOMAIN row /\ \A c \in DOMAIN row \ {"environment"} : r[c] = row[c]
    BY <2>1
  <2>5. DOMAIN row = ALL_COLUMNS
    BY <1>2 DEF Told, Shaped
  <2>6. \A c \in DateColumns : r[c] = row[c]
    BY <2>4, <2>5 DEF ALL_COLUMNS, DateColumns
  <2>7. \A c \in TextColumns \ {"environment"} : r[c] = row[c]
    BY <2>4, <2>5 DEF ALL_COLUMNS, TextColumns
  <2>8. /\ r.type = row.type /\ r.changeType = row.changeType /\ r.parentId = row.parentId
        /\ r.requester = row.requester /\ r.deployStatus = row.deployStatus
        /\ r.incidentType = row.incidentType /\ r.incidentStatus = row.incidentStatus
    BY <2>7 DEF TextColumns
  <2>9. /\ r.occurredAt = row.occurredAt /\ r.startedAt = row.startedAt
        /\ r.windowStart = row.windowStart /\ r.windowEnd = row.windowEnd
    BY <2>6 DEF DateColumns
  <2>10. Told(r)
    BY <1>2, <2>4, <2>6, <2>8, <2>9 DEF Told, Shaped
  <2>11. Placed(r)
    BY <2>3, <2>8, <2>9 DEF Placed, OnSide
  <2>12. JobInv(j)
    BY <2>2, <2>10, <2>11 DEF JobInv, CreateInv
  <2>13. QED
    BY <2>3, <2>12, StartKeeps
<1>5. QED
  BY <1>3, <1>4

LEMMA DatingBegins ==
    ASSUME RecordsInv, NEW s \in Sessions, NEW i, NEW at \in Nat \ {NoDate}, updateEventDateAction(s, i, at)
    PROVE  RecordsInv' /\ Steady
<1>1. PICK j : j = [pc |-> "dating", id |-> i, at |-> at, changeType |-> rows[i].changeType,
                    parentId |-> IF isPhase(rows[i].changeType) THEN rows[i].parentId ELSE NoText]
  OBVIOUS
<1>2. i \in live /\ start(s, j)
  BY <1>1 DEF updateEventDateAction
<1>3. JobInv(j)
  BY <1>1, <1>2 DEF JobInv, DatingInv
<1>4. QED
  BY <1>2, <1>3, StartKeeps

LEMMA RollbackBegins ==
    ASSUME RecordsInv, NEW s \in Sessions, NEW i, createRollbackAction(s, i)
    PROVE  RecordsInv' /\ Steady
<1>1. PICK j : j = [pc |-> "target", id |-> i, at |-> rows[i].occurredAt]
  OBVIOUS
<1>2. i \in live /\ start(s, j)
  BY <1>1 DEF createRollbackAction, deployments
<1>3. JobInv(j)
  BY <1>1, <1>2 DEF JobInv, TargetInv
<1>4. QED
  BY <1>2, <1>3, StartKeeps

\* The columns of an edit are among those that may be written, and no date is.
LEMMA ColumnsArePuts ==
    ASSUME NEW op, NEW v, isEdit(op, v), clock \in Nat,
           NEW columns \in deploymentColumns(op, v) \cup eventColumns(op, v)
                           \cup (IF op = "incident" THEN incidentColumns(v) ELSE {})
    PROVE  IsPut(columns) /\ "occurredAt" \notin DOMAIN columns
<1>1. CASE columns \in deploymentColumns(op, v)
  BY <1>1 DEF deploymentColumns, IsPut, Written
<1>2. CASE columns \in eventColumns(op, v)
  BY <1>2 DEF eventColumns, IsPut, Written
<1>3. CASE op = "incident" /\ columns \in incidentColumns(v)
  <2>1. PICK end : end = IF v.status # "RESOLVED" THEN NoDate
                         ELSE IF v.resolvedAt = NoDate THEN clock ELSE v.resolvedAt
    OBVIOUS
  <2>2. end \in Nat /\ v.status \in IncidentStatuses
    BY <1>3, <2>1 DEF isEdit, NoDate
  <2>3. PICK c : c = [incidentStatus |-> v.status, resolvedAt |-> end]
    OBVIOUS
  <2>4. CASE columns = c
    BY <2>2, <2>3, <2>4 DEF IsPut, Written
  <2>5. CASE "startedAt" \in DOMAIN v /\ columns = onto([startedAt |-> v.startedAt], c)
    <3>1. PICK e : e = [startedAt |-> v.startedAt]
      OBVIOUS
    <3>2. /\ DOMAIN onto(e, c) = DOMAIN e \cup DOMAIN c
          /\ \A k \in DOMAIN e : onto(e, c)[k] = e[k]
          /\ \A k \in DOMAIN c \ DOMAIN e : onto(e, c)[k] = c[k]
      BY OntoIs
    <3>3. columns = onto(e, c)
      BY <2>5, <3>1
    <3>4. DOMAIN e = {"startedAt"} /\ DOMAIN c = {"incidentStatus", "resolvedAt"}
      BY <2>3, <3>1
    <3>5. /\ DOMAIN columns = {"startedAt", "incidentStatus", "resolvedAt"}
          /\ columns["startedAt"] = v.startedAt
          /\ columns["incidentStatus"] = v.status
          /\ columns["resolvedAt"] = end
      BY <2>3, <3>1, <3>2, <3>3, <3>4
    <3>6. v.startedAt \in Nat \ {NoDate}
      BY <1>3, <2>5 DEF isEdit
    <3>7. QED
      BY <2>2, <3>5, <3>6 DEF IsPut, Written
  <2>6. QED
    BY <1>3, <2>1, <2>3, <2>4, <2>5 DEF incidentColumns
<1>4. QED
  BY <1>1, <1>2, <1>3

LEMMA EditBegins ==
    ASSUME RecordsInv, NEW s \in Sessions, NEW i, NEW op, NEW v, isEdit(op, v), edit(s, i, op, v)
    PROVE  RecordsInv' /\ Steady
<1>1. PICK columns \in deploymentColumns(op, v) \cup eventColumns(op, v)
                       \cup (IF op = "incident" THEN incidentColumns(v) ELSE {}) :
         start(s, [pc |-> "write", id |-> i, put |-> columns])
  BY DEF edit
<1>2. PICK j : j = [pc |-> "write", id |-> i, put |-> columns]
  OBVIOUS
<1>3. IsPut(columns) /\ "occurredAt" \notin DOMAIN columns
  BY ColumnsArePuts DEF RecordsInv, TypesInv, HistoryTyped
<1>4. i \in live
  BY DEF edit
<1>5. JobInv(j)
  BY <1>2, <1>3, <1>4 DEF JobInv, WriteInv
<1>6. QED
  BY <1>1, <1>2, <1>5, StartKeeps
\* A job that an action finds is of its kind.
LEMMA JobIs ==
    ASSUME RecordsInv, NEW s \in Sessions
    PROVE  /\ job[s].pc = "create" => CreateInv(job[s])
           /\ job[s].pc = "dating" => DatingInv(job[s])
           /\ job[s].pc = "write" => WriteInv(job[s])
           /\ job[s].pc = "target" => TargetInv(job[s])
<1>1. JobInv(job[s])
  BY DEF RecordsInv, JobsInv
<1>2. Idle.pc = "idle"
  BY DEF Idle
<1>3. QED
  BY <1>1, <1>2 DEF JobInv

LEMMA CreateKeeps ==
    ASSUME RecordsInv, NEW s \in Sessions, create(s)
    PROVE  RecordsInv' /\ Steady
<1>1. PICK row : row = job[s].row
  OBVIOUS
<1>2. Told(row) /\ Placed(row)
  BY <1>1, JobIs DEF create, CreateInv
<1>3. JobsKeep /\ UNCHANGED << sheet, clock, redated, byApi >>
  BY JobEnds DEF create
<1>4. CASE insertable(row)
  BY <1>1, <1>2, <1>3, <1>4, InsertKeeps DEF create, createEvent
<1>5. CASE ~insertable(row)
  <2>1. UNCHANGED << rows, notes >>
    BY <1>1, <1>5 DEF create
  <2>2. SheetTyped' /\ clock' \in Nat \ {0} /\ NotesTyped'
    BY <1>3, <2>1 DEF RecordsInv, TypesInv, SheetTyped, HistoryTyped, NotesTyped, live
  <2>3. QED
    BY <1>3, <2>1, <2>2, QuietKeeps
<1>6. QED
  BY <1>4, <1>5

\* The date is on its side of the deployment when it is found to be.
LEMMA ParentChecked ==
    ASSUME RecordsInv, NEW s \in Sessions, checkParent(s)
    PROVE  RecordsInv' /\ Steady
<1>1. PICK j : j = job[s]
  OBVIOUS
<1>2. j.pc = "dating" /\ DatingInv(j)
  BY <1>1, JobIs DEF checkParent
<1>3. PICK w : w = [pc |-> "write", id |-> j.id, put |-> [occurredAt |-> j.at]]
  OBVIOUS
<1>4. JobsKeep
  <2>1. CASE j.parentId = NoText \/ onItsSide(j.changeType, j.at, rows[j.parentId].occurredAt)
    <3>1. IsPut(w.put)
      BY <1>2, <1>3 DEF DatingInv, IsPut, Written
    <3>2. ASSUME j.id \notin byApi, isPhase(rows[j.id].changeType)
          PROVE  OnSide(rows[j.id].changeType, rows[j.id].parentId, j.at)
      <4>1. j.id \in live /\ j.changeType = rows[j.id].changeType /\ j.parentId = rows[j.id].parentId
        BY <1>2, <3>2 DEF DatingInv
      <4>2. j.parentId \in live
        BY <3>2, <4>1 DEF RecordsInv, PhasesPlaced, Placed, OnSide
      <4>3. j.parentId # NoText
        BY <4>2, LiveIsFinite, RecordsAssumption DEF AllIds, RecordsInv, TypesInv
      <4>4. QED
        BY <2>1, <4>1, <4>2, <4>3 DEF OnSide
    <3>3. WriteInv(w)
      BY <1>2, <1>3, <3>1, <3>2 DEF WriteInv, DatingInv, OnSide
    <3>4. JobInv(w)
      BY <1>3, <3>3 DEF JobInv
    <3>5. job' = [job EXCEPT ![s] = w]
      BY <1>1, <1>3, <2>1 DEF checkParent
    <3>6. QED
      BY <3>4, <3>5, JobBegins
  <2>2. CASE ~(j.parentId = NoText \/ onItsSide(j.changeType, j.at, rows[j.parentId].occurredAt))
    <3>1. job' = [job EXCEPT ![s] = Idle]
      BY <1>1, <2>2 DEF checkParent
    <3>2. QED
      BY <3>1, JobEnds
  <2>3. QED
    BY <2>1, <2>2
<1>5. UNCHANGED << rows, notes, sheet, clock, redated, byApi >>
  BY DEF checkParent
<1>6. SheetTyped' /\ clock' \in Nat \ {0} /\ NotesTyped'
  BY <1>5 DEF RecordsInv, TypesInv, SheetTyped, HistoryTyped, NotesTyped, live
<1>7. QED
  BY <1>4, <1>5, <1>6, QuietKeeps

\* What an edit may write leaves a row as it should be.
LEMMA PutOnto ==
    ASSUME NEW p, IsPut(p), NEW r, Stored(r)
    PROVE  LET q == onto(p, r)
           IN  /\ Stored(q)
               /\ q.type = r.type
               /\ q.externalId = r.externalId
               /\ isPhase(q.changeType) => q.changeType = r.changeType /\ q.parentId = r.parentId
               /\ q.occurredAt = IF "occurredAt" \in DOMAIN p THEN p.occurredAt ELSE r.occurredAt
               /\ q.deployStatus = r.deployStatus
<1>1. PICK q : q = onto(p, r)
  OBVIOUS
<1>2. DOMAIN r = ALL_COLUMNS /\ \A c \in DateColumns : r[c] \in Nat
  BY DEF Stored, Told, Shaped
<1>3. DOMAIN p \subseteq ALL_COLUMNS
  BY DEF IsPut, Written, ALL_COLUMNS, TextColumns, DateColumns
<1>4. /\ DOMAIN q = ALL_COLUMNS
      /\ \A c \in DOMAIN p : q[c] = p[c]
      /\ \A c \in ALL_COLUMNS \ DOMAIN p : q[c] = r[c]
  <2>1. /\ DOMAIN onto(p, r) = DOMAIN p \cup DOMAIN r
        /\ \A c \in DOMAIN p : onto(p, r)[c] = p[c]
        /\ \A c \in DOMAIN r \ DOMAIN p : onto(p, r)[c] = r[c]
    BY OntoIs
  <2>2. QED
    BY <1>1, <1>2, <1>3, <2>1
<1>5. /\ q.type = r.type /\ q.service = r.service /\ q.environment = r.environment
      /\ q.externalId = r.externalId /\ q.requester = r.requester /\ q.deployStatus = r.deployStatus
      /\ q.parentId = r.parentId /\ q.incidentType = r.incidentType
      /\ q.windowStart = r.windowStart /\ q.windowEnd = r.windowEnd /\ q.scheduledAt = r.scheduledAt
  BY <1>4 DEF IsPut, Written, ALL_COLUMNS, TextColumns, DateColumns
<1>6. /\ q.occurredAt = IF "occurredAt" \in DOMAIN p THEN p.occurredAt ELSE r.occurredAt
      /\ q.changeType = IF "changeType" \in DOMAIN p THEN p.changeType ELSE r.changeType
      /\ q.incidentStatus = IF "incidentStatus" \in DOMAIN p THEN p.incidentStatus ELSE r.incidentStatus
      /\ q.resolvedAt = IF "resolvedAt" \in DOMAIN p THEN p.resolvedAt ELSE r.resolvedAt
      /\ q.startedAt = IF "startedAt" \in DOMAIN p THEN p.startedAt ELSE r.startedAt
  BY <1>4 DEF ALL_COLUMNS, TextColumns, DateColumns
<1>7. isPhase(q.changeType) => q.changeType = r.changeType
  BY <1>6 DEF isPhase, PhaseTypes, IsPut
<1>8. Shaped(q)
  <2>1. Shaped(r)
    BY <1>2 DEF Stored, Told
  <2>2. q.deployStatus \in Statuses \cup {NoText} /\ q.incidentStatus \in IncidentStatuses \cup {NoText}
    BY <1>5, <1>6, <2>1 DEF Shaped, IsPut
  <2>3. QED
    BY <1>2, <1>4, <1>5, <1>6, <2>1, <2>2 DEF Shaped, DateColumns, IsPut
<1>9. Told(q)
  BY <1>5, <1>6, <1>8 DEF Stored, Told, IsPut, ChangeTypes
<1>10. QED
  BY <1>1, <1>5, <1>6, <1>7, <1>9 DEF Stored

LEMMA WriteKeeps ==
    ASSUME RecordsInv, NEW s \in Sessions, write(s)
    PROVE  RecordsInv' /\ Steady
<1>1. PICK j : j = job[s]
  OBVIOUS
<1>2. j.pc = "write" /\ WriteInv(j)
  BY <1>1, JobIs DEF write
<1>3. PICK i, p, row : i = j.id /\ p = j.put /\ row = onto(p, rows[i])
  OBVIOUS
<1>4. i \in live /\ IsPut(p) /\ Stored(rows[i])
  BY <1>2, <1>3 DEF WriteInv, RecordsInv, TypesInv, RowsTyped
<1>5. /\ Stored(row)
      /\ row.type = rows[i].type
      /\ row.externalId = rows[i].externalId
      /\ isPhase(row.changeType) => row.changeType = rows[i].changeType /\ row.parentId = rows[i].parentId
      /\ row.occurredAt = IF "occurredAt" \in DOMAIN p THEN p.occurredAt ELSE rows[i].occurredAt
      /\ row.deployStatus = rows[i].deployStatus
  BY <1>3, <1>4, PutOnto
<1>6. overwrite(i, row) /\ UNCHANGED << notes, sheet, clock, byApi >> /\ JobsKeep
  BY <1>1, <1>3, JobEnds DEF write
<1>7. \/ i \in byApi'
      \/ row.occurredAt = rows[i].occurredAt
      \/ OnSide(row.changeType, row.parentId, row.occurredAt)
  BY <1>2, <1>3, <1>5, <1>6 DEF WriteInv, OnSide
<1>8. live' = live
  BY <1>4, <1>5, <1>6, Overwritten DEF RecordsInv
<1>9. NotesTyped' /\ byApi' \subseteq live
  BY <1>6, <1>8 DEF RecordsInv, TypesInv, NotesTyped, HistoryTyped
<1>10. QED
  BY <1>4, <1>5, <1>6, <1>7, <1>9, OverwriteKeeps

\* A status moves, with an entry of the trail.
LEMMA StepKeeps ==
    ASSUME RecordsInv, NEW i \in live, NEW to \in Statuses, step(i, to)
    PROVE  RecordsInv' /\ Steady
<1>1. PICK row : row = [rows[i] EXCEPT !.deployStatus = to]
  OBVIOUS
<1>2. Stored(rows[i]) /\ i \in AllIds
  BY LiveIsFinite DEF RecordsInv, TypesInv, RowsTyped
<1>3. /\ DOMAIN row = ALL_COLUMNS
      /\ \A c \in ALL_COLUMNS \ {"deployStatus"} : row[c] = rows[i][c]
      /\ row.deployStatus = to
  BY <1>1, <1>2 DEF Stored, Told, Shaped, ALL_COLUMNS, TextColumns
<1>4. \A c \in DateColumns : row[c] = rows[i][c]
  BY <1>3 DEF ALL_COLUMNS, DateColumns
<1>5. /\ row.type = rows[i].type /\ row.service = rows[i].service /\ row.environment = rows[i].environment
      /\ row.externalId = rows[i].externalId /\ row.requester = rows[i].requester
      /\ row.changeType = rows[i].changeType /\ row.parentId = rows[i].parentId
      /\ row.incidentType = rows[i].incidentType /\ row.incidentStatus = rows[i].incidentStatus
  BY <1>3 DEF ALL_COLUMNS, TextColumns
<1>6. /\ row.occurredAt = rows[i].occurredAt /\ row.startedAt = rows[i].startedAt
      /\ row.windowStart = rows[i].windowStart /\ row.windowEnd = rows[i].windowEnd
  BY <1>4 DEF DateColumns
<1>7. Stored(row)
  BY <1>2, <1>3, <1>4, <1>5, <1>6 DEF Stored, Told, Shaped
<1>8. overwrite(i, row) /\ UNCHANGED << job, sheet, clock, byApi >>
      /\ notes' = [notes EXCEPT ![i] = @ \cup {annotation("status", to)}]
  BY <1>1 DEF step
<1>9. live' = live
  BY <1>5, <1>7, <1>8, Overwritten DEF RecordsInv
<1>10. NotesTyped' /\ \A k \in live : \A n \in notes'[k] : n \in notes[k] \/ n.kind # "rollback"
  <2>1. notes = [k \in AllIds |-> notes[k]] /\ \A k \in AllIds \ live : notes[k] = {}
    BY DEF RecordsInv, TypesInv, NotesTyped
  <2>2. notes' = [k \in AllIds |-> IF k = i THEN notes[k] \cup {annotation("status", to)} ELSE notes[k]]
    BY <1>8, <2>1
  <2>3. NotesTyped'
    <3>1. notes' = [k \in AllIds |-> notes'[k]]
      BY <2>2
    <3>2. \A k \in AllIds \ live' : notes'[k] = {}
      BY <1>9, <2>1, <2>2
    <3>3. QED
      BY <3>1, <3>2 DEF NotesTyped
  <2>4. annotation("status", to).kind # "rollback"
    BY DEF annotation
  <2>5. live \subseteq AllIds
    BY LiveIsFinite DEF RecordsInv, TypesInv
  <2>6. QED
    BY <2>2, <2>3, <2>4, <2>5
<1>11. byApi' \subseteq live
  BY <1>8 DEF RecordsInv, TypesInv, HistoryTyped
<1>12. row.deployStatus # NoText
  BY <1>3, NoTextIsNone
<1>13. QED
  BY <1>5, <1>6, <1>7, <1>8, <1>10, <1>11, <1>12, JobsWait, OverwriteKeeps

LEMMA UndoKeeps ==
    ASSUME RecordsInv, NEW i, undo(i)
    PROVE  RecordsInv' /\ Steady
<1>1. PICK to : to = previousStatus(rows[i].deployStatus)
  OBVIOUS
<1>2. i \in live /\ step(i, to) /\ to # NoStatus
  BY <1>1 DEF undo, undoable, deployments
<1>3. i \in deployments /\ rows[i].deployStatus \in Statuses
  BY <1>2 DEF undo, undoable, RecordsInv, TypesInv, RowsTyped, Stored, Told, Shaped, deployments
<1>4. indexOf(rows[i].deployStatus) \in 1..7
  BY <1>3 DEF indexOf, Statuses
<1>5. indexOf(rows[i].deployStatus) > 1 /\ to = DEPLOY_ORDER[indexOf(rows[i].deployStatus) - 1]
  BY <1>1, <1>2 DEF previousStatus
<1>6. PICK k : k = indexOf(rows[i].deployStatus) - 1
  OBVIOUS
<1>7. k \in 1..7 /\ to = DEPLOY_ORDER[k]
  BY <1>4, <1>5, <1>6
<1>8. to \in Statuses
  BY <1>7 DEF Statuses
<1>9. QED
  BY <1>2, <1>8, StepKeeps
LEMMA AnnotateKeeps ==
    ASSUME RecordsInv, NEW i, NEW kind, annotate(i, kind)
    PROVE  RecordsInv' /\ Steady
<1>1. PICK n : n = annotation(kind, NoText)
  OBVIOUS
<1>2. /\ i \in live
      /\ notes' = [notes EXCEPT ![i] = @ \cup {n}]
      /\ UNCHANGED << rows, job, sheet, clock, redated, byApi >>
  BY <1>1 DEF annotate, deployments
<1>3. live' = live
  BY <1>2 DEF live
<1>4. notes = [k \in AllIds |-> notes[k]] /\ (\A k \in AllIds \ live : notes[k] = {}) /\ live \subseteq AllIds
  BY LiveIsFinite DEF RecordsInv, TypesInv, NotesTyped
<1>5. notes' = [k \in AllIds |-> IF k = i THEN notes[k] \cup {n} ELSE notes[k]]
  BY <1>2, <1>4
<1>6. NotesTyped'
  <2>1. notes' = [k \in AllIds |-> notes'[k]] /\ \A k \in AllIds \ live' : notes'[k] = {}
    BY <1>2, <1>3, <1>4, <1>5
  <2>2. QED
    BY <2>1 DEF NotesTyped
<1>7. \A k : GoesBack(k, n)
  BY <1>1 DEF GoesBack, annotation
<1>8. \A k \in live \ redated : \A m \in notes'[k] : m \in notes[k] \/ m.kind # "rollback" \/ GoesBack(k, m)
  BY <1>4, <1>5, <1>7
<1>9. SheetTyped' /\ clock' \in Nat \ {0}
  BY <1>2 DEF RecordsInv, TypesInv, SheetTyped, HistoryTyped
<1>10. QED
  BY <1>2, <1>6, <1>8, <1>9, JobsWait, QuietKeeps

\* The version that a rollback names was that of an earlier row when it was read.
LEMMA RollbackKeeps ==
    ASSUME RecordsInv, NEW s \in Sessions, rollbackToPreviousVersion(s)
    PROVE  RecordsInv' /\ Steady
<1>1. PICK j : j = job[s]
  OBVIOUS
<1>2. j.pc = "target" /\ TargetInv(j)
  BY <1>1, JobIs DEF rollbackToPreviousVersion
<1>3. PICK i : i = j.id
  OBVIOUS
<1>4. PICK E : E = earlier(i, j.at)
  OBVIOUS
<1>5. PICK version \in IF E = {} THEN {NoText} ELSE {rows[d].version : d \in latest(E)} :
         notes' = [notes EXCEPT ![i] = @ \cup {annotation("rollback", version)}]
  BY <1>1, <1>3, <1>4 DEF rollbackToPreviousVersion
<1>6. PICK n : n = annotation("rollback", version)
  OBVIOUS
<1>7. JobsKeep /\ UNCHANGED << rows, sheet, clock, redated, byApi >>
  BY JobEnds DEF rollbackToPreviousVersion
<1>8. live' = live
  BY <1>7 DEF live
<1>9. /\ notes = [k \in AllIds |-> notes[k]]
      /\ \A k \in AllIds \ live : notes[k] = {}
      /\ live \subseteq AllIds
      /\ i \in live
  BY <1>2, <1>3, LiveIsFinite DEF RecordsInv, TypesInv, NotesTyped, TargetInv
<1>10. notes' = [k \in AllIds |-> IF k = i THEN notes[k] \cup {n} ELSE notes[k]]
  BY <1>5, <1>6, <1>9
<1>11. NotesTyped'
  <2>1. notes' = [k \in AllIds |-> notes'[k]] /\ \A k \in AllIds \ live' : notes'[k] = {}
    BY <1>8, <1>9, <1>10
  <2>2. QED
    BY <2>1 DEF NotesTyped
<1>12. i \in redated \/ GoesBack(i, n)
  <2>1. SUFFICES ASSUME i \notin redated, n.to # NoText PROVE GoesBack(i, n)
    BY DEF GoesBack
  <2>2. n.to = version
    BY <1>6 DEF annotation
  <2>3. PICK d \in E : rows[d].version = version
    BY <1>5, <2>1, <2>2 DEF latest
  <2>4. j.at = rows[i].occurredAt
    BY <1>2, <1>3, <2>1 DEF TargetInv
  <2>5. d \in deployments /\ d \in before(i, rows[i].occurredAt)
    BY <1>4, <2>3, <2>4 DEF earlier
  <2>6. d \in live /\ rows[d].occurredAt < rows[i].occurredAt
    BY <2>5 DEF before
  <2>7. rows[i].occurredAt \in Nat
    BY <1>9 DEF RecordsInv, TypesInv, RowsTyped, Shaped, DateColumns
  <2>8. d # i
    BY <2>6, <2>7
  <2>9. QED
    BY <2>2, <2>3, <2>5, <2>6, <2>8 DEF GoesBack
<1>13. \A k \in live \ redated : \A m \in notes'[k] : m \in notes[k] \/ m.kind # "rollback" \/ GoesBack(k, m)
  BY <1>9, <1>10, <1>12
<1>14. SheetTyped' /\ clock' \in Nat \ {0}
  BY <1>7 DEF RecordsInv, TypesInv, SheetTyped, HistoryTyped
<1>15. QED
  BY <1>7, <1>11, <1>13, <1>14, QuietKeeps

-------------------------------------------------------------------------------
(***************************************************************************)
(* The workbook.                                                           *)
(***************************************************************************)
\* A step that only writes the workbook, or lets time pass.
LEMMA SheetKeeps ==
    ASSUME RecordsInv, UNCHANGED << rows, notes, job, redated, byApi >>,
           SheetTyped', clock' \in Nat \ {0}
    PROVE  RecordsInv' /\ Steady
<1>1. NotesTyped'
  BY DEF RecordsInv, TypesInv, NotesTyped, live
<1>2. QED
  BY <1>1, JobsWait, QuietKeeps

LEMMA ExportKeeps ==
    ASSUME RecordsInv, NEW types, exportEventsXlsx(types)
    PROVE  RecordsInv' /\ Steady
<1>1. PICK K : K = {k \in live : rows[k].type \in types}
  OBVIOUS
<1>2. sheet' = {rowToBody(rows[k]) : k \in K} /\ UNCHANGED << rows, notes, job, clock, redated, byApi >>
  BY <1>1 DEF exportEventsXlsx
<1>3. IsFiniteSet(sheet')
  <2>1. IsFiniteSet(K)
    BY <1>1, LiveIsFinite, FS_Subset DEF RecordsInv, TypesInv
  <2>2. PICK f : f = [k \in K |-> rowToBody(rows[k])]
    OBVIOUS
  <2>3. f \in [K -> sheet'] /\ \A b \in sheet' : \E k \in K : f[k] = b
    BY <1>2, <2>2
  <2>4. f \in Surjection(K, sheet')
    BY <2>3, Fun_IsSurj
  <2>5. QED
    BY <2>1, <2>4, FS_Surjection
<1>4. \A k \in K : datesAreTold(rowToBody(rows[k])) /\ text(rowToBody(rows[k]), "externalId") = rows[k].externalId
  <2>1. ASSUME NEW k \in K
        PROVE  datesAreTold(rowToBody(rows[k])) /\ text(rowToBody(rows[k]), "externalId") = rows[k].externalId
    <3>1. PICK r : r = rows[k]
      OBVIOUS
    <3>2. Shaped(r)
      BY <1>1, <3>1 DEF RecordsInv, TypesInv, RowsTyped, Stored, Told
    <3>3. datesAreTold(rowToBody(r)) /\ \A c \in TextColumns \cap EXCEL_COLUMNS : text(rowToBody(r), c) = r[c]
      BY <3>2, SheetTells
    <3>4. "externalId" \in TextColumns \cap EXCEL_COLUMNS
      BY DEF EXCEL_COLUMNS, ALL_COLUMNS, TextColumns
    <3>5. QED
      BY <3>1, <3>3, <3>4
  <2>2. QED
    BY <2>1
<1>5. \A b \in sheet' : datesAreTold(b)
  BY <1>2, <1>4
<1>6. ASSUME NEW b \in sheet', NEW c \in sheet', text(b, "externalId") = text(c, "externalId")
      PROVE  b = c \/ text(b, "externalId") = NoText
  <2>1. PICK k \in K : b = rowToBody(rows[k])
    BY <1>2
  <2>2. PICK l \in K : c = rowToBody(rows[l])
    BY <1>2
  <2>3. rows[k].externalId = rows[l].externalId /\ text(b, "externalId") = rows[k].externalId
    BY <1>4, <1>6, <2>1, <2>2
  <2>4. k = l \/ rows[k].externalId = NoText
    BY <1>1, <2>3 DEF RecordsInv, TypesInv, ExternalIdsDiffer
  <2>5. QED
    BY <2>1, <2>2, <2>3, <2>4
<1>7. SheetTyped'
  BY <1>3, <1>5, <1>6 DEF SheetTyped
<1>8. clock' \in Nat \ {0}
  BY <1>2 DEF RecordsInv, TypesInv, HistoryTyped
<1>9. QED
  BY <1>2, <1>7, <1>8, SheetKeeps

LEMMA FillInKeeps ==
    ASSUME RecordsInv, NEW type, NEW b, datesAreTold(b), fillIn(type, b)
    PROVE  RecordsInv' /\ Steady
<1>1. PICK e, r : e = [type |-> type] /\ r = onto(e, b)
  OBVIOUS
<1>2. /\ sheet' = sheet \cup {r}
      /\ "externalId" \in DOMAIN b => \A c \in sheet : text(c, "externalId") # b.externalId
      /\ UNCHANGED << rows, notes, job, clock, redated, byApi >>
  BY <1>1 DEF fillIn
<1>3. DOMAIN e = {"type"}
  BY <1>1
<1>4. DOMAIN r = {"type"} \cup DOMAIN b /\ \A k \in DOMAIN b \ {"type"} : r[k] = b[k]
  <2>1. /\ DOMAIN onto(e, b) = DOMAIN e \cup DOMAIN b
        /\ \A k \in DOMAIN b \ DOMAIN e : onto(e, b)[k] = b[k]
    BY OntoIs
  <2>2. QED
    BY <1>1, <1>3, <2>1
<1>5. datesAreTold(r)
  BY <1>4 DEF datesAreTold, DateColumns
<1>6. text(r, "externalId") = text(b, "externalId")
  BY <1>4 DEF text
<1>7. \A c \in sheet : text(c, "externalId") = text(r, "externalId") => text(r, "externalId") = NoText
  BY <1>2, <1>6 DEF text
<1>8. IsFiniteSet(sheet) /\ (\A c \in sheet : datesAreTold(c))
      /\ \A c, d \in sheet : text(c, "externalId") = text(d, "externalId") => c = d \/ text(c, "externalId") = NoText
  BY DEF RecordsInv, TypesInv, SheetTyped
<1>9. IsFiniteSet(sheet')
  BY <1>2, <1>8, FS_AddElement
<1>10. \A c, d \in sheet' : text(c, "externalId") = text(d, "externalId") => c = d \/ text(c, "externalId") = NoText
  BY <1>2, <1>7, <1>8
<1>11. SheetTyped'
  BY <1>2, <1>5, <1>8, <1>9, <1>10 DEF SheetTyped
<1>12. clock' \in Nat \ {0}
  BY <1>2 DEF RecordsInv, TypesInv, HistoryTyped
<1>13. QED
  BY <1>2, <1>11, <1>12, SheetKeeps

LEMMA TickKeeps ==
    ASSUME RecordsInv, tick
    PROVE  RecordsInv' /\ Steady
<1>1. UNCHANGED << rows, notes, job, sheet, redated, byApi >> /\ clock' = clock + 1
  BY DEF tick
<1>2. SheetTyped' /\ clock' \in Nat \ {0}
  BY <1>1 DEF RecordsInv, TypesInv, SheetTyped, HistoryTyped
<1>3. QED
  BY <1>1, <1>2, SheetKeeps
\* The next m identifiers are m, of no row, and follow those of rows.
LEMMA NewIds ==
    ASSUME LiveComeFirst, NEW m \in Nat, Cardinality(live) + m <= Len(Ids),
           NEW N, N = {Ids[Cardinality(live) + k] : k \in 1..m}
    PROVE  /\ IsFiniteSet(N)
           /\ Cardinality(N) = m
           /\ N \subseteq AllIds \ live
           /\ \E n \in 0..Len(Ids) : live \cup N = {Ids[k] : k \in 1..n}
<1>1. PICK c : c = Cardinality(live)
  OBVIOUS
<1>2. c \in 0..Len(Ids) /\ live = {Ids[k] : k \in 1..c} /\ Len(Ids) \in Nat /\ c + m \in 0..Len(Ids)
  BY <1>1, LiveIsFinite, RecordsAssumption
<1>3. DOMAIN Ids = 1..Len(Ids)
  BY RecordsAssumption
<1>4. \A k \in 1..m : c + k \in 1..Len(Ids) /\ c < c + k
  BY <1>1, <1>2
<1>5. PICK f : f = [k \in 1..m |-> Ids[c + k]]
  OBVIOUS
<1>6. f \in [1..m -> N] /\ \A i \in N : \E k \in 1..m : f[k] = i
  BY <1>1, <1>5
<1>7. \A j, k \in 1..m : f[j] = f[k] => j = k
  <2>1. ASSUME NEW j \in 1..m, NEW k \in 1..m, f[j] = f[k] PROVE j = k
    <3>1. Ids[c + j] = Ids[c + k] /\ c + j \in DOMAIN Ids /\ c + k \in DOMAIN Ids
      BY <1>3, <1>4, <1>5, <2>1
    <3>2. c + j = c + k
      BY <3>1, RecordsAssumption
    <3>3. QED
      BY <1>2, <3>2
  <2>2. QED
    BY <2>1
<1>8. IsFiniteSet(N) /\ Cardinality(N) = m
  <2>1. f \in Injection(1..m, N) /\ f \in Surjection(1..m, N)
    BY <1>6, <1>7, Fun_IsInj, Fun_IsSurj
  <2>2. IsFiniteSet(1..m) /\ Cardinality(1..m) = m
    BY FS_Interval
  <2>3. QED
    BY <2>1, <2>2, FS_Surjection
<1>9. N \subseteq AllIds \ live
  <2>1. ASSUME NEW k \in 1..m PROVE Ids[c + k] \in AllIds \ live
    <3>1. PICK l \in 1..Len(Ids) : l = c + k
      BY <1>4
    <3>2. Cardinality(live) < l
      BY <1>1, <1>4, <3>1
    <3>3. QED
      BY <3>1, <3>2, NextIds
  <2>2. QED
    BY <1>1, <2>1
<1>10. live \cup N = {Ids[k] : k \in 1..(c + m)}
  <2>1. \A k \in 1..(c + m) : k \in 1..c \/ k - c \in 1..m
    BY <1>2
  <2>2. \A k \in 1..(c + m) : Ids[k] \in live \cup N
    <3>1. ASSUME NEW k \in 1..(c + m) PROVE Ids[k] \in live \cup N
      <4>1. CASE k \in 1..c
        BY <1>2, <4>1
      <4>2. CASE k - c \in 1..m
        <5>1. Ids[c + (k - c)] \in N
          BY <1>1, <4>2
        <5>2. c + (k - c) = k
          BY <1>2
        <5>3. QED
          BY <5>1, <5>2
      <4>3. QED
        BY <2>1, <4>1, <4>2
    <3>2. QED
      BY <3>1
  <2>3. live \cup N \subseteq {Ids[k] : k \in 1..(c + m)}
    <3>1. \A k \in 1..c : k \in 1..(c + m)
      BY <1>2
    <3>2. \A k \in 1..m : c + k \in 1..(c + m)
      BY <1>2
    <3>3. QED
      BY <1>1, <1>2, <3>1, <3>2
  <2>4. QED
    BY <2>2, <2>3
<1>11. QED
  BY <1>2, <1>8, <1>9, <1>10

\* The rows of the workbook that are written to i.
From(place, i) == {b \in sheet : IF b \in DOMAIN place THEN place[b] = i ELSE i \in knownTo(b)}

LEMMA ImportKeeps ==
    ASSUME RecordsInv, importSheet
    PROVE  RecordsInv' /\ Steady
<1>1. /\ TypesInv
      /\ rows = [i \in AllIds |-> rows[i]]
      /\ \A i \in AllIds : Shaped(rows[i])
      /\ \A i \in live : Stored(rows[i])
      /\ live = {i \in AllIds : rows[i].type # NoText}
  BY DEF RecordsInv, TypesInv, RowsTyped, live
<1>2. PICK fresh : fresh = {b \in sheet : text(b, "externalId") = NoText \/ knownTo(b) = {}}
  OBVIOUS
<1>3. PICK m : m = Cardinality(fresh)
  OBVIOUS
<1>4. IsFiniteSet(fresh) /\ m \in Nat
  <2>1. IsFiniteSet(sheet) /\ fresh \in SUBSET sheet
    BY <1>1, <1>2 DEF TypesInv, SheetTyped
  <2>2. QED
    BY <1>3, <2>1, FS_Subset, FS_CardinalityType
<1>5. PICK N : N = {Ids[Cardinality(live) + k] : k \in 1..m}
  OBVIOUS
<1>6. PICK place \in [fresh -> N] : (\A b, c \in fresh : place[b] = place[c] => b = c) /\ importEventsXlsx(place)
  BY <1>2, <1>3, <1>5 DEF importSheet
<1>7. /\ IsFiniteSet(N)
      /\ Cardinality(N) = m
      /\ N \subseteq AllIds \ live
      /\ \E n \in 0..Len(Ids) : live \cup N = {Ids[k] : k \in 1..n}
  <2>1. Cardinality(live) + m <= Len(Ids)
    BY <1>2, <1>3 DEF importSheet
  <2>2. QED
    BY <1>1, <1>4, <1>5, <2>1, NewIds DEF TypesInv
<1>8. \A i \in N : \E b \in fresh : place[b] = i
  <2>1. place \in Injection(fresh, N)
    BY <1>6, Fun_IsInj
  <2>2. place \in Surjection(fresh, N)
    BY <1>3, <1>7, <2>1, FS_Injection
  <2>3. QED
    BY <2>2 DEF Surjection
<1>9. /\ \A b \in sheet : validBody(b.type, b) /\ b.environment \in ActiveEnvs /\ b.service \in Services
      /\ rows' = [i \in DOMAIN rows |->
                    IF From(place, i) = {} THEN rows[i]
                    ELSE updatedRow(rows[i], one(From(place, i)).type, one(From(place, i)), clock)]
      /\ redated' = redated \cup {i \in live : standsWhere(rows'[i]) # standsWhere(rows[i])}
      /\ notes' = [i \in DOMAIN rows |->
                     IF \E b \in From(place, i) : text(b, "externalId") = NoText
                     THEN creationNotes(rows'[i]) ELSE notes[i]]
      /\ byApi' = byApi \cup {i \in DOMAIN rows : From(place, i) # {}}
      /\ UNCHANGED << job, sheet, clock >>
  BY <1>6 DEF importEventsXlsx, From
<1>10. DOMAIN place = fresh /\ fresh \subseteq sheet /\ DOMAIN rows = AllIds /\ live \subseteq AllIds
  BY <1>1, <1>2, <1>6
\* A row of the workbook is of a new event, or of one that is there and has its externalId.
<1>11. ASSUME NEW i \in AllIds, NEW b \in From(place, i)
       PROVE  /\ b \in sheet
              /\ \/ b \in fresh /\ place[b] = i /\ i \in N
                 \/ /\ b \notin fresh /\ i \in live
                    /\ rows[i].externalId = text(b, "externalId") /\ text(b, "externalId") # NoText
  BY <1>2, <1>6, <1>10, <1>11 DEF From, knownTo
<1>12. ASSUME NEW i \in AllIds, NEW b \in From(place, i), NEW c \in From(place, i)
       PROVE  b = c
  <2>1. CASE i \in live
    <3>1. text(b, "externalId") = text(c, "externalId") /\ text(b, "externalId") # NoText /\ b \in sheet /\ c \in sheet
      BY <1>7, <1>11, <2>1
    <3>2. QED
      BY <1>1, <3>1 DEF TypesInv, SheetTyped
  <2>2. CASE i \notin live
    BY <1>6, <1>11, <2>2
  <2>3. QED
    BY <2>1, <2>2
<1>13. ASSUME NEW i \in AllIds, NEW b \in From(place, i)
       PROVE  /\ Stored(rows'[i])
              /\ rows'[i].externalId = text(b, "externalId")
              /\ rows[i].deployStatus # NoText => rows'[i].deployStatus # NoText
  <2>1. one(From(place, i)) = b
    BY <1>12, <1>13 DEF one
  <2>2. rows'[i] = updatedRow(rows[i], b.type, b, clock)
    BY <1>9, <1>10, <1>13, <2>1
  <2>3. PICK r, type, now : r = rows[i] /\ type = b.type /\ now = clock
    OBVIOUS
  <2>4. Shaped(r) /\ datesAreTold(b) /\ validBody(type, b) /\ now \in Nat \ {0}
    BY <1>1, <1>9, <1>11, <1>13, <2>3 DEF TypesInv, SheetTyped, HistoryTyped
  <2>5. PICK q : q = updatedRow(r, type, b, now)
    OBVIOUS
  <2>6. /\ Told(q) /\ q.service = b.service /\ q.environment = b.environment
        /\ q.externalId = text(b, "externalId")
        /\ r.deployStatus # NoText => q.deployStatus # NoText
    BY <2>4, <2>5, Renewed
  <2>7. b.environment \in ActiveEnvs /\ b.service \in Services
    BY <1>9, <1>11, <1>13
  <2>8. rows'[i] = q
    BY <2>2, <2>3, <2>5
  <2>9. QED
    BY <2>3, <2>6, <2>7, <2>8 DEF Stored
<1>14. ASSUME NEW i \in AllIds, From(place, i) = {}
       PROVE  rows'[i] = rows[i] /\ i \notin N
  <2>1. rows'[i] = rows[i]
    BY <1>9, <1>10, <1>14
  <2>2. i \notin N
    BY <1>8, <1>10, <1>14 DEF From
  <2>3. QED
    BY <2>1, <2>2
<1>15. live' = live \cup N
  <2>1. rows' = [i \in AllIds |-> rows'[i]]
    BY <1>9, <1>10
  <2>2. live' = {i \in AllIds : rows'[i].type # NoText}
    BY <2>1 DEF live
  <2>3. \A r : Stored(r) => r.type # NoText
    BY DEF Stored, Told, EventTypes, NoText
  <2>4. ASSUME NEW i \in AllIds PROVE rows'[i].type # NoText <=> i \in live \cup N
    <3>1. CASE From(place, i) = {}
      BY <1>1, <1>14, <2>4, <3>1
    <3>2. CASE From(place, i) # {}
      <4>1. PICK b \in From(place, i) : TRUE
        BY <3>2
      <4>2. i \in live \cup N
        BY <1>11, <2>4, <4>1
      <4>3. QED
        BY <1>13, <2>3, <2>4, <4>1, <4>2
    <3>3. QED
      BY <3>1, <3>2
  <2>5. QED
    BY <1>7, <1>10, <2>2, <2>4
<1>16. RowsTyped'
  <2>1. rows' = [i \in AllIds |-> rows'[i]]
    BY <1>9, <1>10
  <2>2. ASSUME NEW i \in AllIds PROVE Shaped(rows'[i]) /\ (i \in live' => Stored(rows'[i]))
    <3>1. CASE From(place, i) = {}
      BY <1>1, <1>14, <1>15, <2>2, <3>1
    <3>2. CASE From(place, i) # {}
      BY <1>13, <2>2, <3>2 DEF Stored, Told
    <3>3. QED
      BY <3>1, <3>2
  <2>3. live' \subseteq AllIds
    BY <1>7, <1>10, <1>15
  <2>4. QED
    BY <2>1, <2>2, <2>3 DEF RowsTyped
<1>17. LiveComeFirst'
  BY <1>7, <1>15 DEF LiveComeFirst
<1>18. ExternalIdsDiffer'
  <2>1. ASSUME NEW i \in live', NEW k \in live', rows'[i].externalId = rows'[k].externalId,
               rows'[i].externalId # NoText, From(place, i) # {}
        PROVE  i = k
    <3>1. i \in AllIds /\ k \in AllIds
      BY <1>7, <1>10, <1>15
    <3>2. PICK b \in From(place, i) : rows'[i].externalId = text(b, "externalId")
      BY <1>13, <2>1, <3>1
    <3>3. CASE From(place, k) # {}
      <4>1. PICK c \in From(place, k) : rows'[k].externalId = text(c, "externalId")
        BY <1>13, <3>1, <3>3
      <4>2. b = c
        BY <1>1, <1>11, <2>1, <3>1, <3>2, <4>1 DEF TypesInv, SheetTyped
      <4>3. CASE b \in fresh
        BY <1>11, <3>1, <3>2, <4>1, <4>2, <4>3
      <4>4. CASE b \notin fresh
        <5>1. /\ i \in live /\ rows[i].externalId = text(b, "externalId")
              /\ k \in live /\ rows[k].externalId = text(b, "externalId")
              /\ text(b, "externalId") # NoText
          BY <1>11, <3>1, <3>2, <4>1, <4>2, <4>4
        <5>2. QED
          BY <1>1, <5>1 DEF TypesInv, ExternalIdsDiffer
      <4>5. QED
        BY <4>3, <4>4
    <3>4. CASE From(place, k) = {}
      <4>1. k \in live /\ rows[k].externalId = text(b, "externalId")
        BY <1>14, <1>15, <2>1, <3>1, <3>2, <3>4
      <4>2. k \in knownTo(b)
        BY <4>1 DEF knownTo
      <4>3. b \in sheet /\ b \notin fresh
        BY <1>2, <1>11, <2>1, <3>1, <3>2, <4>2
      <4>4. QED
        BY <1>10, <3>4, <4>2, <4>3 DEF From
    <3>5. QED
      BY <3>3, <3>4
  <2>2. ASSUME NEW i \in live', NEW k \in live', rows'[i].externalId = rows'[k].externalId,
               rows'[i].externalId # NoText, From(place, i) = {}, From(place, k) = {}
        PROVE  i = k
    <3>1. /\ i \in live /\ k \in live
          /\ rows'[i] = rows[i] /\ rows'[k] = rows[k]
      BY <1>7, <1>10, <1>14, <1>15, <2>2
    <3>2. QED
      BY <1>1, <2>2, <3>1 DEF TypesInv, ExternalIdsDiffer
  <2>3. QED
    BY <2>1, <2>2 DEF ExternalIdsDiffer
<1>19. /\ notes = [i \in AllIds |-> notes[i]]
       /\ \A i \in AllIds \ live : notes[i] = {}
  BY <1>1 DEF TypesInv, NotesTyped
<1>20. \A i \in AllIds \ live' : notes'[i] = {}
  <2>1. ASSUME NEW i \in AllIds, i \notin live' PROVE notes'[i] = {}
    <3>1. From(place, i) = {}
      BY <1>11, <1>15, <2>1
    <3>2. QED
      BY <1>9, <1>10, <1>15, <1>19, <2>1, <3>1
  <2>2. QED
    BY <2>1
<1>21. NotesTyped'
  <2>1. notes' = [i \in AllIds |-> notes'[i]]
    BY <1>9, <1>10
  <2>2. QED
    BY <1>20, <2>1 DEF NotesTyped
<1>22. TypesInv'
  <2>1. byApi' \subseteq live'
    <3>1. \A i \in AllIds : From(place, i) # {} => i \in live \cup N
      BY <1>11
    <3>2. QED
      BY <1>1, <1>9, <1>10, <1>15, <3>1 DEF TypesInv, HistoryTyped
  <2>2. SheetTyped' /\ HistoryTyped'
    BY <1>1, <1>9, <1>15, <2>1 DEF TypesInv, SheetTyped, HistoryTyped
  <2>3. QED
    BY <1>16, <1>17, <1>18, <1>21, <2>2 DEF TypesInv
<1>23. Steady
  <2>1. \A i \in live \ byApi' : rows'[i] = rows[i]
    BY <1>9, <1>10, <1>14
  <2>2. \A i \in live : rows[i].deployStatus # NoText => rows'[i].deployStatus # NoText
    BY <1>10, <1>13, <1>14
  <2>3. QED
    BY <1>9, <1>15, <2>1, <2>2 DEF Steady
<1>24. \A i \in live' \ byApi' : i \in live /\ rows'[i].occurredAt = rows[i].occurredAt
  <2>1. \A i \in live' \ byApi' : i \in AllIds /\ From(place, i) = {}
    BY <1>7, <1>9, <1>10, <1>15
  <2>2. QED
    BY <1>14, <1>15, <2>1
<1>25. \A i \in live' \ redated' : \A n \in notes'[i] :
          \/ n.kind # "rollback"
          \/ i \in live /\ (n \in notes[i] \/ GoesBack(i, n))
  <2>1. ASSUME NEW i \in live', NEW n \in notes'[i], n.kind = "rollback" PROVE i \in live /\ n \in notes[i]
    <3>1. i \in AllIds
      BY <1>7, <1>10, <1>15
    <3>2. n \notin creationNotes(rows'[i])
      BY <2>1 DEF creationNotes, annotation
    <3>3. n \in notes[i]
      BY <1>9, <1>10, <2>1, <3>1, <3>2
    <3>4. QED
      BY <1>19, <3>1, <3>3
  <2>2. QED
    BY <2>1
<1>26. JobsKeep
  BY <1>9, JobsWait
<1>27. QED
  BY <1>22, <1>23, <1>24, <1>25, <1>26, Preserved DEF JobsKeep
-------------------------------------------------------------------------------
LEMMA RecordsBegin ==
    ASSUME RecordsInit
    PROVE  RecordsInv
<1>1. /\ rows = [i \in AllIds |-> emptyRow]
      /\ notes = [i \in AllIds |-> {}]
      /\ job = [s \in Sessions |-> Idle]
      /\ sheet = {} /\ clock = 1 /\ redated = {} /\ byApi = {}
  BY DEF RecordsInit, QuietInit, AllIds
<1>2. live = {}
  BY <1>1, EmptyIsShaped DEF live
<1>3. RowsTyped
  <2>1. rows = [i \in AllIds |-> rows[i]] /\ \A i \in AllIds : rows[i] = emptyRow
    BY <1>1
  <2>2. QED
    BY <1>2, <2>1, EmptyIsShaped DEF RowsTyped
<1>4. LiveComeFirst
  <2>1. 0 \in 0..Len(Ids) /\ {Ids[k] : k \in 1..0} = {}
    BY RecordsAssumption
  <2>2. QED
    BY <1>2, <2>1 DEF LiveComeFirst
<1>5. NotesTyped
  BY <1>1 DEF NotesTyped
<1>6. ExternalIdsDiffer /\ SheetTyped /\ HistoryTyped
  BY <1>1, <1>2, FS_EmptySet DEF ExternalIdsDiffer, SheetTyped, HistoryTyped
<1>7. JobsInv /\ PhasesPlaced /\ RollbacksGoBack
  BY <1>1, <1>2 DEF JobsInv, JobInv, PhasesPlaced, RollbacksGoBack
<1>8. QED
  BY <1>3, <1>4, <1>5, <1>6, <1>7 DEF RecordsInv, TypesInv

LEMMA EditStepKeeps ==
    ASSUME RecordsInv, NEW s \in Sessions, NEW i, NEW op, NEW v, isEdit(op, v), editStep(s, i, op, v)
    PROVE  RecordsInv' /\ Steady
<1>1. CASE op = "date"
  BY <1>1, DatingBegins DEF editStep, isEdit
<1>2. CASE op # "date"
  BY <1>2, EditBegins DEF editStep
<1>3. QED
  BY <1>1, <1>2

LEMMA RecordsNext ==
    ASSUME RecordsInv, RecordsStep(Bodies, Edits)
    PROVE  RecordsInv' /\ Steady
<1>1. \A e \in Bodies : datesAreTold(e[3])
  BY RecordsAssumption
<1>2. \A e \in Edits : isEdit(e[1], e[2])
  BY RecordsAssumption
<1>3. ASSUME NEW e \in Bodies, apiStep(e[1], e[2], e[3]) PROVE RecordsInv' /\ Steady
  BY <1>1, <1>3, PostKeeps, PutKeeps, IngestKeeps DEF apiStep
<1>4. ASSUME NEW e \in Bodies, NEW s \in Sessions, createEventAction(s, e[2], e[3]) PROVE RecordsInv' /\ Steady
  BY <1>1, <1>4, CreateBegins
<1>5. ASSUME NEW e \in Bodies, fillIn(e[2], e[3]) PROVE RecordsInv' /\ Steady
  BY <1>1, <1>5, FillInKeeps
<1>6. ASSUME NEW e \in Edits, NEW i \in live, NEW s \in Sessions, editStep(s, i, e[1], e[2]) PROVE RecordsInv' /\ Steady
  BY <1>2, <1>6, EditStepKeeps
<1>7. ASSUME NEW i \in live, NEW s \in Sessions, createRollbackAction(s, i) PROVE RecordsInv' /\ Steady
  BY <1>7, RollbackBegins
<1>8. ASSUME NEW e \in Edits, NEW i \in live, e[1] = "move", move(i, e[2]) PROVE RecordsInv' /\ Steady
  BY <1>2, <1>8, StepKeeps DEF move, isEdit
<1>9. ASSUME NEW i \in live, undo(i) PROVE RecordsInv' /\ Steady
  BY <1>9, UndoKeeps
<1>10. ASSUME NEW e \in Edits, NEW i \in live, annotate(i, e[2]) PROVE RecordsInv' /\ Steady
  BY <1>10, AnnotateKeeps
<1>11. ASSUME NEW e \in Edits, exportEventsXlsx(e[2]) PROVE RecordsInv' /\ Steady
  BY <1>11, ExportKeeps
<1>12. ASSUME NEW s \in Sessions, create(s) PROVE RecordsInv' /\ Steady
  BY <1>12, CreateKeeps
<1>13. ASSUME NEW s \in Sessions, checkParent(s) PROVE RecordsInv' /\ Steady
  BY <1>13, ParentChecked
<1>14. ASSUME NEW s \in Sessions, write(s) PROVE RecordsInv' /\ Steady
  BY <1>14, WriteKeeps
<1>15. ASSUME NEW s \in Sessions, rollbackToPreviousVersion(s) PROVE RecordsInv' /\ Steady
  BY <1>15, RollbackKeeps
<1>16. CASE importSheet
  BY <1>16, ImportKeeps
<1>17. CASE tick
  BY <1>17, TickKeeps
<1>18. QED
  BY <1>3, <1>4, <1>5, <1>6, <1>7, <1>8, <1>9, <1>10, <1>11, <1>12, <1>13, <1>14, <1>15, <1>16, <1>17
     DEF RecordsStep

LEMMA RecordsStutter ==
    ASSUME RecordsInv, UNCHANGED recordVars
    PROVE  RecordsInv' /\ Steady
<1>1. UNCHANGED << rows, notes, job, sheet, clock, redated, byApi >>
  BY DEF recordVars
<1>2. SheetTyped' /\ clock' \in Nat \ {0}
  BY <1>1 DEF RecordsInv, TypesInv, SheetTyped, HistoryTyped
<1>3. QED
  BY <1>1, <1>2, SheetKeeps

\* Rows are whole and on their side, and what an action has read of a row is so still, or
\* the row is known to have been edited since (lib/events.ts, actions/events.ts).
THEOREM RecordsInvariant == RecordsSpec => []RecordsInv
<1>1. RecordsInit => RecordsInv
  BY RecordsBegin
<1>2. RecordsInv /\ [RecordsStep(Bodies, Edits)]_recordVars => RecordsInv'
  BY RecordsNext, RecordsStutter
<1>3. QED
  BY <1>1, <1>2, PTL DEF RecordsSpec

-------------------------------------------------------------------------------
\* What is true of the rows at any time gives them their types.
LEMMA RecordsAreTyped ==
    ASSUME RecordsInv
    PROVE  RecordsTypeOK
<1>1. DOMAIN rows = AllIds /\ (\A i \in AllIds : Shaped(rows[i])) /\ (\A i \in live : Stored(rows[i]))
  BY DEF RecordsInv, TypesInv, RowsTyped
<1>2. DOMAIN emptyRow = ALL_COLUMNS
  BY EmptyIsShaped DEF Shaped
<1>3. \A i \in DOMAIN rows : rows[i].type \in EventTypes \cup {NoText}
  BY <1>1 DEF live, Stored, Told
<1>4. \A s \in Sessions : job[s].pc \in {"idle", "create", "dating", "write", "target"}
  BY DEF RecordsInv, JobsInv, JobInv, Idle
<1>5. QED
  BY <1>1, <1>2, <1>3, <1>4
     DEF RecordsTypeOK, Shaped, Stored, RecordsInv, TypesInv, ExternalIdsDiffer, HistoryTyped

(***************************************************************************)
(* Every row that is there is whole, of a service and in an environment    *)
(* that there are, no two have an externalId in common, and what sessions  *)
(* do is one of five things (the columns of Event; lib/ingest.ts).         *)
(***************************************************************************)
THEOREM RowsHaveTheirTypes == RecordsSpec => []RecordsTypeOK
<1>1. RecordsInv => RecordsTypeOK
  BY RecordsAreTyped
<1>2. QED
  BY <1>1, RecordsInvariant, PTL

(***************************************************************************)
(* However creations and edits of a deployment and of its phases are       *)
(* interleaved, a phase that people wrote is on its side of its deployment *)
(* unless that one was moved (createEventAction, updateEventDateAction).   *)
(***************************************************************************)
THEOREM PhasesStayOnTheirSide == RecordsSpec => []PhasesOnTheirSide
<1>1. RecordsInv => PhasesOnTheirSide
  BY DEF RecordsInv, PhasesPlaced, Placed, OnSide, PhasesOnTheirSide
<1>2. QED
  BY <1>1, RecordsInvariant, PTL

(***************************************************************************)
(* What an export says of an event, its import writes back: whatever was   *)
(* edited since, and whatever type the event had before, nothing that the  *)
(* workbook has a column for changes; and only deployments are refused     *)
(* (exportEventsXlsx, importEventsXlsx).                                   *)
(***************************************************************************)
THEOREM ExportsRoundTrip == RecordsSpec => []ExportRoundTrips
<1>1. RecordsInv => ExportRoundTrips
  <2>1. SUFFICES ASSUME RecordsInv PROVE ExportRoundTrips
    OBVIOUS
  <2>2. ASSUME NEW i \in live
        PROVE  IF importable(rows[i])
               THEN \A c \in DOMAIN rows[i] \ Spared(rows[i]) :
                       updatedRow(rows[i], rows[i].type, rowToBody(rows[i]), clock)[c] = rows[i][c]
               ELSE /\ rows[i].type = "DEPLOYMENT"
                    /\ \/ isPhase(rows[i].changeType)
                       \/ rows[i].version = NoText
                       \/ rows[i].deployStatus = "SCHEDULED"
    <3>1. PICK r, now : r = rows[i] /\ now = clock
      OBVIOUS
    <3>2. Stored(r) /\ now \in Nat \ {0}
      BY <2>1, <3>1 DEF RecordsInv, TypesInv, RowsTyped, HistoryTyped
    <3>3. importable(r) => \A c \in DOMAIN r \ Spared(r) : updatedRow(r, r.type, rowToBody(r), now)[c] = r[c]
      BY <3>2, ComesBack
    <3>4. ~importable(r) => /\ r.type = "DEPLOYMENT"
                            /\ isPhase(r.changeType) \/ r.version = NoText \/ r.deployStatus = "SCHEDULED"
      BY <3>2, RefusedIs
    <3>5. QED
      BY <3>1, <3>3, <3>4
  <2>3. QED
    BY <2>2 DEF ExportRoundTrips, Spared
<1>2. QED
  BY <1>1, RecordsInvariant, PTL

(***************************************************************************)
(* The version that a rollback names is that of an earlier deployment, as  *)
(* long as neither was moved (rollbackToPreviousVersion).                  *)
(***************************************************************************)
THEOREM RollbacksNameAnEarlierOne == RecordsSpec => []RollbackGoesBack
<1>1. RecordsInv => RollbackGoesBack
  BY DEF RecordsInv, RollbacksGoBack, GoesBack, RollbackGoesBack, deployments
<1>2. QED
  BY <1>1, RecordsInvariant, PTL

-------------------------------------------------------------------------------
(***************************************************************************)
(* Every entry of a trail, rollback and annotation has a date: the time at *)
(* which it was written (addRollback, transitionDeployStatus, importing).  *)
(***************************************************************************)
NotesDated == \A i \in AllIds : \A n \in notes[i] : n.at \in Nat

\* A note more, with its date.
LEMMA OneMoreNote ==
    ASSUME RecordsInv, NotesDated, NEW i, NEW n, n.at \in Nat, notes' = [notes EXCEPT ![i] = @ \cup {n}]
    PROVE  NotesDated'
<1>1. DOMAIN notes = AllIds
  BY DEF RecordsInv, TypesInv, NotesTyped
<1>2. \A k \in AllIds : notes'[k] = notes[k] \/ notes'[k] = notes[k] \cup {n}
  BY <1>1
<1>3. QED
  BY <1>2 DEF NotesDated, AllIds

\* A note is dated when it is written.
LEMMA NotedNow ==
    ASSUME RecordsInv
    PROVE  /\ \A kind, to : annotation(kind, to).at \in Nat
           /\ \A row : \A n \in creationNotes(row) : n.at \in Nat
<1>1. clock \in Nat
  BY DEF RecordsInv, TypesInv, HistoryTyped
<1>2. QED
  BY <1>1 DEF annotation, creationNotes

\* The trail of an event that is created ...
LEMMA CreationIsDated ==
    ASSUME RecordsInv, NotesDated, NEW row, createEvent(row)
    PROVE  NotesDated'
<1>1. DOMAIN notes = AllIds
  BY DEF RecordsInv, TypesInv, NotesTyped
<1>2. notes' = [notes EXCEPT ![nextId] = creationNotes(row)]
  BY DEF createEvent
<1>3. \A k \in AllIds : notes'[k] = notes[k] \/ notes'[k] = creationNotes(row)
  BY <1>1, <1>2
<1>4. QED
  BY <1>3, NotedNow DEF NotesDated, AllIds

\* ... of one that moves ...
LEMMA StepIsDated ==
    ASSUME RecordsInv, NotesDated, NEW i, NEW to, step(i, to)
    PROVE  NotesDated'
<1>1. PICK n : n = annotation("status", to)
  OBVIOUS
<1>2. n.at \in Nat /\ notes' = [notes EXCEPT ![i] = @ \cup {n}]
  BY <1>1, NotedNow DEF step
<1>3. QED
  BY <1>2, OneMoreNote

\* ... its annotations ...
LEMMA AnnotationIsDated ==
    ASSUME RecordsInv, NotesDated, NEW i, NEW kind, annotate(i, kind)
    PROVE  NotesDated'
<1>1. PICK n : n = annotation(kind, NoText)
  OBVIOUS
<1>2. n.at \in Nat /\ notes' = [notes EXCEPT ![i] = @ \cup {n}]
  BY <1>1, NotedNow DEF annotate
<1>3. QED
  BY <1>2, OneMoreNote

\* ... its rollbacks ...
LEMMA RollbackIsDated ==
    ASSUME RecordsInv, NotesDated, NEW s, rollbackToPreviousVersion(s)
    PROVE  NotesDated'
<1>1. PICK version : notes' = [notes EXCEPT ![job[s].id] = @ \cup {annotation("rollback", version)}]
  BY DEF rollbackToPreviousVersion
<1>2. PICK n, i : n = annotation("rollback", version) /\ i = job[s].id
  OBVIOUS
<1>3. n.at \in Nat /\ notes' = [notes EXCEPT ![i] = @ \cup {n}]
  BY <1>1, <1>2, NotedNow
<1>4. QED
  BY <1>3, OneMoreNote

\* ... and the trails of those that are imported.
LEMMA ImportIsDated ==
    ASSUME RecordsInv, NotesDated, importSheet
    PROVE  NotesDated'
<1>1. PICK place : importEventsXlsx(place)
  BY DEF importSheet
<1>2. DOMAIN rows = AllIds
  BY DEF RecordsInv, TypesInv, RowsTyped
<1>3. \A i \in AllIds : notes'[i] = notes[i] \/ notes'[i] = creationNotes(rows'[i])
  BY <1>1, <1>2 DEF importEventsXlsx
<1>4. QED
  BY <1>3, NotedNow DEF NotesDated, AllIds

\* Whatever else is done notes nothing.
LEMMA SameNotes ==
    ASSUME NotesDated, UNCHANGED notes
    PROVE  NotesDated'
  BY DEF NotesDated, AllIds

\* An edit notes nothing.
LEMMA EditNotesNothing ==
    ASSUME NEW s, NEW i, NEW op, NEW v, editStep(s, i, op, v)
    PROVE  UNCHANGED notes
  BY DEF editStep, updateEventDateAction, edit, start

\* Whoever does what.
LEMMA NotesStayDated ==
    ASSUME RecordsInv, NotesDated, NEW B, NEW E, RecordsStep(B, E)
    PROVE  NotesDated'
<1>1. ASSUME NEW e \in B, apiStep(e[1], e[2], e[3]) PROVE NotesDated'
  <2>1. CASE post(e[2], e[3])
    BY <2>1, CreationIsDated DEF post
  <2>2. CASE put(e[2], e[3])
    BY <2>2, SameNotes DEF put
  <2>3. ASSUME NEW source, ingestDeployment(source, e[3]) PROVE NotesDated'
    BY <2>3, CreationIsDated DEF ingestDeployment
  <2>4. QED
    BY <1>1, <2>1, <2>2, <2>3 DEF apiStep
<1>2. ASSUME NEW e \in B, NEW s \in Sessions, createEventAction(s, e[2], e[3]) PROVE NotesDated'
  BY <1>2, SameNotes DEF createEventAction, start
<1>3. ASSUME NEW e \in B, fillIn(e[2], e[3]) PROVE NotesDated'
  BY <1>3, SameNotes DEF fillIn
<1>4. ASSUME NEW e \in E, NEW i \in live, NEW s \in Sessions, editStep(s, i, e[1], e[2]) PROVE NotesDated'
  BY <1>4, SameNotes, EditNotesNothing
<1>5. ASSUME NEW i \in live, NEW s \in Sessions, createRollbackAction(s, i) PROVE NotesDated'
  BY <1>5, SameNotes DEF createRollbackAction, start
<1>6. ASSUME NEW e \in E, NEW i \in live, move(i, e[2]) PROVE NotesDated'
  BY <1>6, StepIsDated DEF move
<1>7. ASSUME NEW i \in live, undo(i) PROVE NotesDated'
  BY <1>7, StepIsDated DEF undo
<1>8. ASSUME NEW e \in E, NEW i \in live, annotate(i, e[2]) PROVE NotesDated'
  BY <1>8, AnnotationIsDated
<1>9. ASSUME NEW e \in E, exportEventsXlsx(e[2]) PROVE NotesDated'
  BY <1>9, SameNotes DEF exportEventsXlsx
<1>10. ASSUME NEW s \in Sessions, create(s) PROVE NotesDated'
  <2>1. createEvent(job[s].row) \/ UNCHANGED notes
    BY <1>10 DEF create
  <2>2. QED
    BY <2>1, CreationIsDated, SameNotes
<1>11. ASSUME NEW s \in Sessions, checkParent(s) \/ write(s) PROVE NotesDated'
  BY <1>11, SameNotes DEF checkParent, write
<1>12. ASSUME NEW s \in Sessions, rollbackToPreviousVersion(s) PROVE NotesDated'
  BY <1>12, RollbackIsDated
<1>13. CASE importSheet
  BY <1>13, ImportIsDated
<1>14. CASE tick
  BY <1>14, SameNotes DEF tick
<1>15. QED
  BY <1>1, <1>2, <1>3, <1>4, <1>5, <1>6, <1>7, <1>8, <1>9, <1>10, <1>11, <1>12, <1>13, <1>14 DEF RecordsStep

\* Whatever is done to the rows, what was noted of them has its date.
LEMMA NotesAreDated == RecordsSpec => []NotesDated
<1>1. RecordsInit => NotesDated
  BY DEF RecordsInit, NotesDated, AllIds
<1>2. RecordsInv /\ NotesDated /\ [RecordsStep(Bodies, Edits)]_recordVars => NotesDated'
  BY NotesStayDated, SameNotes DEF recordVars
<1>3. QED
  BY <1>1, <1>2, RecordsInvariant, PTL DEF RecordsSpec

===============================================================================
