-------------------------------- MODULE Reading --------------------------------
(***************************************************************************)
(* What readers make of the events of a service: the page's list           *)
(* (src/src/lib/eventTimeline.ts, components/DetailPane.tsx), the drawer   *)
(* (components/EventDrawer.tsx, lib/releaseTrace.ts, lib/deployTimeline.ts),*)
(* the lots (lib/deployLot.ts), the delivery metrics (lib/dora.ts) and the *)
(* versions in place (lib/derive.ts).  All pure.                           *)
(*                                                                         *)
(* An event here is a row with its identifier, its rollbacks and its trail *)
(* (both as their notes), and what is derived from it; a list has the      *)
(* newest first.  A day is the unit of time, MonthLength days are a month. *)
(* Left out: free texts, colours, links, the number of decimals.           *)
(***************************************************************************)
EXTENDS EventBody, SequencesExt

CONSTANT MonthLength

ASSUME ReadingAssumption == MonthLength \in Nat \ {0}

CATEGORIES == {"DEPLOY", "HOTFIX", "INCIDENT", "MAINTENANCE"}

\* The filter's toggles split the deployments by phase.
FILTER_KEYS == CATEGORIES \cup {"PRE", "POST"}

LIVE == {"DEPLOYED", "TESTING", "VALIDATE"}

\* Mutant: a GO that was given needs no warning any more.
STATUS_LE_PENDING_LESS == {"SCHEDULED", "PENDING"}

STATUS_LE_PENDING == {"SCHEDULED", "GO_CONFIRMED", "PENDING"}

lowest(S) == CHOOSE x \in S : \A y \in S : x <= y

-----------------------------------------------------------------------------
\* filter and sort, which is stable: the places K of a list, those with the lowest keys
\* first, and those with equal keys as they stood.  What goes to a place has that many
\* before it.  (SelectSeq and SortSeq are recursive; this one can be reasoned about.)
arranged(list, K, key) ==
    LET ahead(k) == {l \in K : key[l] < key[k] \/ (key[l] = key[k] /\ l < k)}
    IN  [m \in 1..Cardinality(K) |-> list[CHOOSE k \in K : Cardinality(ahead(k)) = m - 1]]

kept(list, K) == arranged(list, K, [k \in K |-> 0])

newestFirst(list, K) == arranged(list, K, [k \in K |-> -list[k].at])

oldestFirst(list, K) == arranged(list, K, [k \in K |-> list[k].occurredAt])

-----------------------------------------------------------------------------
\* lib/derive.ts and deriveFor
maintenanceStatus(start, end, now) ==
    IF now < start THEN "Upcoming" ELSE IF now > end THEN "Complete" ELSE "InProgress"

incidentDuration(startedAt, resolvedAt, now) ==
    LET end == IF resolvedAt = NoDate THEN now ELSE resolvedAt
    IN  [days |-> IF end < startedAt THEN 0 ELSE end - startedAt, open |-> resolvedAt = NoDate]

deriveFor(e, now) ==
    CASE e.type = "MAINTENANCE" /\ e.windowStart # NoDate /\ e.windowEnd # NoDate ->
            [status |-> maintenanceStatus(e.windowStart, e.windowEnd, now)]
      [] e.type = "INCIDENT" /\ e.startedAt # NoDate ->
            incidentDuration(e.startedAt, e.resolvedAt, now)
      [] OTHER -> [nothing |-> TRUE]

toClientEvent(i, row, notes, now) ==
    onto([id |-> i, derived |-> deriveFor(row, now),
          rollbacks |-> {n.at : n \in {m \in notes : m.kind = "rollback"}},
          statusTransitions |-> {n \in notes : n.kind = "status"}], row)

-----------------------------------------------------------------------------
(***************************************************************************)
(* The list.                                                               *)
(***************************************************************************)
deployment(e) == e.type = "DEPLOYMENT"

mayHavePhases(e) == deployment(e) /\ e.changeType \in {"NORMAL", "HOTFIX"}

notYetStarted(e) == e.deployStatus \in STATUS_LE_PENDING \cup {NoText}

preOf(events, e) == {p \in ToSet(events) : p.changeType = "PRE_MEP" /\ p.parentId = e.id}

warnPre(events, e) ==
    /\ mayHavePhases(e)
    /\ notYetStarted(e)
    /\ \E p \in preOf(events, e) : p.deployStatus # "VALIDATE"

category(e) ==
    IF ~deployment(e) THEN e.type ELSE IF e.changeType = "HOTFIX" THEN "HOTFIX" ELSE "DEPLOY"

phase(e) ==
    CASE e.changeType = "PRE_MEP"  -> "PRE"
      [] e.changeType = "POST_MEP" -> "POST"
      [] OTHER                     -> NoText

windowClosed(e, now) == (IF e.windowEnd = NoDate THEN e.occurredAt ELSE e.windowEnd) < now

resolved(e) == e.incidentStatus = "RESOLVED" \/ e.resolvedAt # NoDate

finished(e, now) ==
    CASE e.type = "MAINTENANCE" -> windowClosed(e, now)
      [] e.type = "INCIDENT"    -> resolved(e)
      [] OTHER                  -> FALSE

finishedAt(e) == IF e.type = "MAINTENANCE" THEN e.windowEnd ELSE e.resolvedAt

reached(e, S) == {t.at : t \in {u \in e.statusTransitions : u.to \in S}}

\* How long a deployment took: from IN_PROGRESS, or its own date, until it was live or
\* rolled back; NoDuration when neither is known, or the dates are out of order.
NoDuration == -1

duration(e) ==
    LET begun == IF reached(e, {"IN_PROGRESS"}) = {} THEN e.occurredAt
                 ELSE lowest(reached(e, {"IN_PROGRESS"}))
        ends == IF e.rollbacks # {} THEN e.rollbacks
                ELSE IF reached(e, LIVE) # {} THEN reached(e, LIVE)
                ELSE IF e.deployStatus \in LIVE THEN {e.occurredAt} ELSE {}
    IN  IF ends = {} \/ lowest(ends) < begun THEN NoDuration ELSE lowest(ends) - begun

timelineEntry(events, e, now) ==
    LET done == finished(e, now)
    IN  [eventId      |-> e.id,
         category     |-> category(e),
         environment  |-> e.environment,
         at           |-> e.occurredAt,
         done         |-> done,
         endAt        |-> IF done THEN finishedAt(e) ELSE NoDate,
         deployStatus |-> e.deployStatus,
         rolledBack   |-> deployment(e) /\ e.rollbacks # {},
         durationMs   |-> IF deployment(e) THEN duration(e) ELSE NoDuration,
         phase        |-> phase(e),
         warnPre      |-> warnPre(events, e),
         lot          |-> e.lot]

\* What is to come or under way is pinned above the history.
pinned(x) == x.category = "MAINTENANCE" /\ ~x.done

buildServiceTimeline(events, now) ==
    LET entries == [k \in DOMAIN events |-> timelineEntry(events, events[k], now)]
        onTop == {k \in DOMAIN entries : pinned(entries[k])}
        history == newestFirst(entries, DOMAIN entries \ onTop)
        count(c) == Cardinality({m \in DOMAIN history : history[m].category = c})
    IN  [history      |-> history,
         maintenances |-> newestFirst(entries, onTop),
         counters     |-> [deploy      |-> count("DEPLOY"),
                           hotfix      |-> count("HOTFIX"),
                           incident    |-> count("INCIDENT"),
                           maintenance |-> Cardinality({k \in DOMAIN events : events[k].type = "MAINTENANCE"})]]

entrySeverity(x) ==
    CASE x.category = "MAINTENANCE" -> "none"
      [] x.category = "INCIDENT"    -> IF x.done THEN "none" ELSE "red"
      [] OTHER -> IF x.rolledBack THEN "red"
                  ELSE IF x.warnPre \/ x.deployStatus = "PENDING" THEN "orange" ELSE "none"

entryFilterKey(x) ==
    IF x.category = "DEPLOY" /\ x.phase # NoText THEN x.phase ELSE x.category

month(at) == at \div MonthLength

groupByMonth(entries) ==
    LET months == {month(x.at) : x \in ToSet(entries)}
        keys == arranged([k \in months |-> k], months, [k \in months |-> -k])
    IN  [g \in DOMAIN keys |->
            [key |-> keys[g],
             entries |-> kept(entries, {m \in DOMAIN entries : month(entries[m].at) = keys[g]})]]

\* A filter: environments (all of them, one, or those of a group), tags of which one is
\* enough, an hour type, first and last day (NoDate: open), and the toggles that are on.
inScope(f, e) ==
    /\ e.environment \in f.envs
    /\ f.tags # {} => f.tags \cap e.tags # {}
    /\ f.hourType # NoText => e.hourType = f.hourType
    /\ f.from # NoDate => e.occurredAt >= f.from
    /\ f.to # NoDate => e.occurredAt <= f.to

scopedEvents(events, f) == kept(events, {k \in DOMAIN events : inScope(f, events[k])})

listed(entries, f) == kept(entries, {k \in DOMAIN entries : entryFilterKey(entries[k]) \in f.active})

historyToShow(events, f, now) ==
    listed(buildServiceTimeline(scopedEvents(events, f), now).history, f)

maintenancesToShow(events, f, now) ==
    listed(buildServiceTimeline(scopedEvents(events, f), now).maintenances, f)

-----------------------------------------------------------------------------
(***************************************************************************)
(* The drawer, which has all the events of the page, filtered or not.      *)
(***************************************************************************)
phases(events, e) == {p \in ToSet(events) : p.parentId = e.id /\ isPhase(p.changeType)}

parentEvent(events, e) == {p \in ToSet(events) : p.id = e.parentId}

preWarn(events, e) ==
    /\ mayHavePhases(e)
    /\ e.deployStatus \in {NoText, "SCHEDULED", "GO_CONFIRMED", "PENDING"}
    /\ \E p \in phases(events, e) : p.changeType = "PRE_MEP" /\ p.deployStatus # "VALIDATE"

\* The stepper: SCHEDULED comes next for who has no status.
nextStep(e) == IF e.deployStatus = NoText THEN "SCHEDULED" ELSE nextStatus(e.deployStatus)

stepState(e, s) ==
    IF s = e.deployStatus THEN "current"
    ELSE IF s = nextStep(e) THEN "next"
    ELSE IF e.deployStatus # NoText /\ indexOf(s) < indexOf(e.deployStatus) THEN "done" ELSE "future"

hasPrevious(e) == e.deployStatus # NoText /\ previousStatus(e.deployStatus) # NoStatus

\* One release across the environments: where it was first, and in which order.
buildsOf(events, version) ==
    {k \in DOMAIN events : deployment(events[k]) /\ events[k].version = version}

buildMeps(events, version) == oldestFirst(events, buildsOf(events, version))

\* Of the places of an environment's deployments: the oldest, the first of those that
\* are equal.
firstIn(events, places) ==
    events[lowest({k \in places : \A l \in places : events[k].occurredAt <= events[l].occurredAt})]

\* One step in each environment; of equal dates, the environment the list has first.
releaseSteps(events, builds) ==
    LET alike(k) == {l \in builds : events[l].environment = events[k].environment}
        firsts == {k \in builds : k = lowest(alike(k))}
    IN  oldestFirst([k \in firsts |-> firstIn(events, alike(k))], firsts)

\* indexOf
position(workflow, env) ==
    IF env \in ToSet(workflow) THEN lowest({k \in DOMAIN workflow : workflow[k] = env}) ELSE 0

\* A step is out of order when one before it was further on, and an environment is
\* skipped when one after it was reached.
traceRelease(events, version, workflow) ==
    LET steps == releaseSteps(events, buildsOf(events, version))
        at == [n \in DOMAIN steps |-> position(workflow, steps[n].environment)]
        outOfOrder == {n \in DOMAIN steps : at[n] # 0 /\ \E m \in 1..(n - 1) : at[n] < at[m]}
        skipped == {k \in DOMAIN workflow :
                        /\ \E n \in DOMAIN steps : k <= at[n]
                        /\ \A n \in DOMAIN steps : steps[n].environment # workflow[k]}
    IN  [steps  |-> steps,
         issues |-> {<< "out of order", steps[n].environment >> : n \in outOfOrder}
                      \cup {<< "skipped", workflow[k] >> : k \in skipped}]

respected(events, version, workflow) == traceRelease(events, version, workflow).issues = {}

-----------------------------------------------------------------------------
(***************************************************************************)
(* Lots: the deployments of all services that share one in an environment. *)
(***************************************************************************)
lotKey(e) == << e.environment, e.lot >>

siblings(members, self) == kept(members, {k \in DOMAIN members : members[k].id # self})

\* The first member of a main service speaks for the lot.
lotRollbackGap(members, masters) ==
    LET ofMain == {k \in DOMAIN members : members[k].service \in masters}
    IN  IF ofMain = {} \/ members[lowest(ofMain)].rollbacks = {} THEN {}
        ELSE {m.service : m \in {n \in ToSet(members) : n.service \notin masters /\ n.rollbacks = {}}}

lotRollbackWarnings(lots, masters) ==
    LET gaps == [key \in DOMAIN lots |-> lotRollbackGap(lots[key], masters)]
    IN  [key \in {k \in DOMAIN lots : gaps[k] # {}} |-> gaps[key]]

-----------------------------------------------------------------------------
(***************************************************************************)
(* Metrics and versions.                                                   *)
(***************************************************************************)
\* Twice the median, so that it is an integer.
doubledMedian(values) ==
    LET s == arranged(values, DOMAIN values, values)
        mid == Len(s) \div 2
    IN  CASE DOMAIN values = {} -> NoDuration
          [] Len(s) % 2 = 1     -> 2 * s[mid + 1]
          [] OTHER              -> s[mid] + s[mid + 1]

leadTime(e) == lowest(reached(e, {"DEPLOYED"})) - e.occurredAt

\* queryDoraData and computeDora, over the events since a day, by their places.
computeDora(events, from) ==
    LET recent == {k \in DOMAIN events : events[k].occurredAt >= from}
        deploys == {k \in recent : deployment(events[k])}
        tracked == {k \in deploys : reached(events[k], {"DEPLOYED"}) # {}}
        ended == {k \in recent : events[k].type = "INCIDENT" /\ events[k].resolvedAt # NoDate}
        leads == [k \in tracked |-> leadTime(events[k])]
        restores == [k \in ended |-> events[k].resolvedAt - events[k].startedAt]
    IN  [count    |-> Cardinality(deploys),
         failures |-> Cardinality({k \in deploys : events[k].rollbacks # {}}),
         leadTime |-> [samples |-> leads, median |-> doubledMedian(leads)],
         mttr     |-> [samples |-> restores, median |-> doubledMedian(restores)]]

\* The oldest come first here, and only a later one replaces what was seen.
replacing(seen, d) ==
    IF d.environment \in DOMAIN seen /\ d.occurredAt <= seen[d.environment].occurredAt
    THEN seen
    ELSE [env \in DOMAIN seen \cup {d.environment} |-> IF env = d.environment THEN d ELSE seen[env]]

currentByEnvironment(deployments) ==
    LET seen[n \in 0..Len(deployments)] ==
            IF n = 0 THEN << >> ELSE replacing(seen[n - 1], deployments[n])
    IN  seen[Len(deployments)]

currentVersions(events) ==
    currentByEnvironment(Reverse(kept(events, {k \in DOMAIN events : deployment(events[k])})))
=============================================================================
