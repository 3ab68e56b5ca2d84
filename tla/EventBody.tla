------------------------------ MODULE EventBody ------------------------------
(***************************************************************************)
(* What a request or a row of a workbook says of an event, and the columns *)
(* it becomes: the validators (src/src/lib/eventValidation.ts), the body   *)
(* of the ingest endpoint (lib/ingestDeployment.ts), the columns that a    *)
(* creation and an upsert write (lib/events.ts), and the sheet of an       *)
(* export (lib/excel.ts).                                                  *)
(*                                                                         *)
(* A body is a function from the keys it has.  Texts are compared, never   *)
(* taken apart; NoText stands for null and for blank ones.  A service is   *)
(* one text for its three slugs.  Left out: metadata, links, requesters of *)
(* history, messages.                                                      *)
(***************************************************************************)
EXTENDS DeployWorkflow, FiniteSets

NoText == ""

NoDate == 0

BadDate == -1       \* a key is there, and its value is no date

ChangeTypes == {"NORMAL", "HOTFIX", "PRE_MEP", "POST_MEP", "POSTMEP_SQL"}

PhaseTypes == {"PRE_MEP", "POST_MEP"}

IncidentStatuses == {"INVESTIGATING", "IDENTIFIED", "MONITORING", "RESOLVED"}

EventTypes == {"DEPLOYMENT", "INCIDENT", "MAINTENANCE"}

TextColumns == {"type", "service", "environment", "externalId", "version", "lot",
                "requester", "changeType", "deployStatus", "parentId", "hourType",
                "comment", "incidentType", "incidentStatus"}

DateColumns == {"occurredAt", "scheduledAt", "startedAt", "resolvedAt",
                "windowStart", "windowEnd"}

ALL_COLUMNS == TextColumns \cup DateColumns \cup {"tags"}

\* A row of Event before anything is written to it.
emptyRow ==
    [c \in ALL_COLUMNS |-> IF c \in TextColumns THEN NoText ELSE IF c \in DateColumns THEN NoDate ELSE {}]

\* What is written, over what was there.
onto(data, row) ==
    [c \in DOMAIN data \cup DOMAIN row |-> IF c \in DOMAIN data THEN data[c] ELSE row[c]]

-----------------------------------------------------------------------------
text(b, key) == IF key \in DOMAIN b THEN b[key] ELSE NoText

date(b, key) == IF key \in DOMAIN b THEN b[key] ELSE NoDate

oneOf(b, key, values) == key \in DOMAIN b => b[key] \in values

orElse(value, default) == IF value = NoText THEN default ELSE value

parseEnvelope(b) == text(b, "service") # NoText /\ text(b, "environment") # NoText

isPhase(changeType) == changeType \in PhaseTypes

statusOr(b, default) == orElse(text(b, "deployStatus"), default)

plannedIfScheduled(b, default) ==
    /\ date(b, "scheduledAt") # BadDate
    /\ statusOr(b, default) = "SCHEDULED" => date(b, "scheduledAt") # NoDate

validateDeploymentBody(b) ==
    /\ parseEnvelope(b)
    /\ text(b, "changeType") \in ChangeTypes
    /\ IF isPhase(b.changeType)
       THEN text(b, "parentId") # NoText /\ text(b, "comment") # NoText
       ELSE text(b, "version") # NoText
    /\ text(b, "requester") # NoText
    /\ oneOf(b, "deployStatus", Statuses)
    /\ date(b, "occurredAt") # BadDate
    /\ plannedIfScheduled(b, "PENDING")

deploymentFields(b) ==
    [version      |-> text(b, "version"),
     comment      |-> text(b, "comment"),
     lot          |-> orElse(text(b, "lot"), text(b, "version")),
     requester    |-> b.requester,
     changeType   |-> b.changeType,
     deployStatus |-> statusOr(b, "PENDING"),
     scheduledAt  |-> date(b, "scheduledAt"),
     parentId     |-> text(b, "parentId"),
     hourType     |-> IF text(b, "hourType") \in {"HO", "HNO"} THEN b.hourType ELSE NoText]

validateIncidentBody(b) ==
    /\ parseEnvelope(b)
    /\ text(b, "incidentType") # NoText
    /\ date(b, "startedAt") \notin {NoDate, BadDate}
    /\ date(b, "resolvedAt") # BadDate
    /\ oneOf(b, "incidentStatus", IncidentStatuses)

incidentFields(b) ==
    [incidentType   |-> b.incidentType,
     incidentStatus |-> orElse(text(b, "incidentStatus"),
                            IF date(b, "resolvedAt") # NoDate THEN "RESOLVED" ELSE "INVESTIGATING"),
     startedAt      |-> b.startedAt,
     resolvedAt     |-> date(b, "resolvedAt"),
     comment        |-> text(b, "comment")]

validateMaintenanceBody(b) ==
    /\ parseEnvelope(b)
    /\ \A key \in {"windowStart", "windowEnd"} : date(b, key) \notin {NoDate, BadDate}
    /\ b.windowStart <= b.windowEnd

maintenanceFields(b) ==
    [version |-> text(b, "version"), windowStart |-> b.windowStart, windowEnd |-> b.windowEnd]

validBody(type, b) ==
    CASE type = "DEPLOYMENT"  -> validateDeploymentBody(b)
      [] type = "INCIDENT"    -> validateIncidentBody(b)
      [] type = "MAINTENANCE" -> validateMaintenanceBody(b)
      [] OTHER -> FALSE

fieldsOf(type, b) ==
    CASE type = "DEPLOYMENT" -> deploymentFields(b)
      [] type = "INCIDENT"   -> incidentFields(b)
      [] OTHER               -> maintenanceFields(b)

occurredAt(type, b, now) ==
    CASE type = "DEPLOYMENT" -> IF "occurredAt" \in DOMAIN b THEN b.occurredAt ELSE now
      [] type = "INCIDENT"   -> b.startedAt
      [] OTHER               -> b.windowStart

-----------------------------------------------------------------------------
\* The columns a creation writes; an upsert writes the same, and no other.
toCreateData(type, b, now) ==
    onto(fieldsOf(type, b),
         [type |-> type, service |-> b.service, environment |-> b.environment,
          occurredAt |-> occurredAt(type, b, now),
          externalId |-> text(b, "externalId"),
          tags |-> IF "tags" \in DOMAIN b THEN b.tags ELSE {}])

newRow(type, b, now) == onto(toCreateData(type, b, now), emptyRow)

updatedRow(row, type, b, now) == onto(toCreateData(type, b, now), row)

\* The generic endpoint: the source of the token names the service, and the rest
\* has defaults.
validateIngestBody(b) ==
    /\ text(b, "version") # NoText
    /\ text(b, "service") # NoText
    /\ text(b, "environment") # NoText
    /\ oneOf(b, "changeType", ChangeTypes)
    /\ oneOf(b, "deployStatus", Statuses)
    /\ plannedIfScheduled(b, "DEPLOYED")

ingestedRow(b, now) ==
    [emptyRow EXCEPT
        !.type = "DEPLOYMENT", !.service = b.service, !.environment = b.environment,
        !.occurredAt = now, !.version = b.version,
        !.requester = orElse(text(b, "requester"), "ci"),
        !.changeType = orElse(text(b, "changeType"), "NORMAL"),
        !.deployStatus = statusOr(b, "DEPLOYED"),
        !.lot = orElse(text(b, "lot"), b.version),
        !.comment = text(b, "comment"),
        !.scheduledAt = date(b, "scheduledAt")]

-----------------------------------------------------------------------------
\* Mutant: nor one for the status of an incident.
EXCEL_COLUMNS_LESS ==
    ALL_COLUMNS \ {"scheduledAt", "parentId", "hourType", "incidentStatus"}

\* A workbook has no column for scheduledAt, parentId and hourType.
EXCEL_COLUMNS ==
    ALL_COLUMNS \ {"scheduledAt", "parentId", "hourType"}

filled(row, c) ==
    CASE c \in TextColumns -> row[c] # NoText
      [] c \in DateColumns -> row[c] # NoDate
      [] OTHER             -> row[c] # {}

\* An exported row, read again: empty cells are absent keys.
rowToBody(row) == [c \in {k \in EXCEL_COLUMNS : filled(row, k)} |-> row[c]]

importable(row) == validBody(row.type, rowToBody(row))
=============================================================================
