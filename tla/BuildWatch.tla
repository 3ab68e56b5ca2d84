------------------------------ MODULE BuildWatch ------------------------------
(***************************************************************************)
(* What the application concludes from the builds of one service in one    *)
(* environment: a BUILD_DRIFT incident when a machine runs another build   *)
(* than the last one DEPLOYED (src/src/lib/runtimeDrift.ts), and the tag   *)
(* "rollback" on a deployment that a lower build follows                   *)
(* (lib/rollbackDetect.ts).  Each query is a step; reports of several      *)
(* machines, ingestions, edits and a restart interleave.                   *)
(***************************************************************************)
EXTENDS Integers, FiniteSets, Sequences

CONSTANTS Deployments,
          Builds,       \* build numbers
          Dates,
          Machines,     \* each reports what it runs
          Incidents,    \* places for BUILD_DRIFT incidents; resolved ones give theirs up
          Take,         \* candidates that the detection looks at (10 in the code)
          MaxChanges    \* bound: edits, rollouts, restarts

ASSUME WatchAssumption ==
    /\ Builds \subseteq Nat
    /\ Dates \subseteq Nat
    /\ Take \in Nat \ {0}
    /\ MaxChanges \in Nat
    /\ "no one" \notin Incidents

NoBuild == -1      \* a version that is no number: the blank one of a PRE_MEP or POST_MEP

NoOne == "no one"

VARIABLES deployment,  \* deployment[d]: [there, build, at, status, tags]
          detection,   \* detection[d]: the detection that the ingestion of d runs
          machine,     \* machine[m]: the build it runs
          report,      \* report[m]: the handler of its report
          incident,    \* incident[k]: "none" or incidentStatus; RESOLVED is ended
          changes,
          crowded,     \* history: two reports overlapped, or an incident was reopened
          jostled,     \* history: two detections overlapped
          edited       \* history: deployments whose build, date or tags were edited

watchVars == << deployment, detection, machine, report, incident, changes, crowded, jostled, edited >>

Off == [pc |-> "off"]

there == {d \in Deployments : deployment[d].there}

open == {k \in Incidents : incident[k] \notin {"none", "RESOLVED"}}

WatchInit ==
    /\ deployment \in [Deployments -> [there : {FALSE}, build : Builds \cup {NoBuild}, at : Dates,
                                       status : {"DEPLOYED"}, tags : {<< >>}]]
    /\ detection = [d \in Deployments |-> Off]
    /\ machine \in [Machines -> Builds]
    /\ report = [m \in Machines |-> Off]
    /\ incident = [k \in Incidents |-> "none"]
    /\ changes = 0
    /\ crowded = FALSE
    /\ jostled = FALSE
    /\ edited = {}

change == changes < MaxChanges /\ changes' = changes + 1

-----------------------------------------------------------------------------
newest(D) == {d \in D : \A e \in D : deployment[e].at <= deployment[d].at}

\* The builds that findFirst may answer for the last DEPLOYED one.
expected ==
    LET D == {d \in there : deployment[d].status = "DEPLOYED"}
    IN  {deployment[d].build : d \in newest(D)}

reporting(m) == report[m].pc # "off"

\* POST of ingest/runtime: the upsert of RuntimeState ...
reportRuntimeBuild(m) ==
    /\ ~reporting(m)
    /\ report' = [report EXCEPT ![m] = [pc |-> "expect", build |-> machine[m]]]
    /\ crowded' = (crowded \/ \E n \in Machines : reporting(n))
    /\ UNCHANGED << deployment, detection, machine, incident, changes, jostled, edited >>

\* ... the last deployment whose status is DEPLOYED ...
findExpected(m) ==
    /\ report[m].pc = "expect"
    /\ \E drift \in IF expected = {} THEN {FALSE}
                   ELSE {b # report[m].build : b \in expected} :
          report' = [report EXCEPT ![m] = [pc |-> "open", drift |-> drift]]
    /\ UNCHANGED << deployment, detection, machine, incident, changes, crowded, jostled, edited >>

\* Mutant: an incident that people took on is not looked for.
openDriftsNew == {k \in open : incident[k] = "INVESTIGATING"}

openDrifts == open

\* ... an open incident ...
findOpenDrift(m) ==
    /\ report[m].pc = "open"
    /\ \E k \in IF openDrifts = {} THEN {NoOne} ELSE openDrifts :
          report' = [report EXCEPT ![m] = [pc |-> "act", drift |-> @.drift, found |-> k]]
    /\ UNCHANGED << deployment, detection, machine, incident, changes, crowded, jostled, edited >>

\* Mutant: what was found does not matter.
opensAnyway(r) == r.drift

opens(r) == r.drift /\ r.found = NoOne

\* ... and a new one, or the end of the one found.
openOrResolve(m) ==
    /\ report[m].pc = "act"
    /\ report' = [report EXCEPT ![m] = Off]
    /\ IF opens(report[m])
       THEN \E k \in Incidents \ open : incident' = [incident EXCEPT ![k] = "INVESTIGATING"]
       ELSE IF ~report[m].drift /\ report[m].found # NoOne
       THEN incident' = [incident EXCEPT ![report[m].found] = "RESOLVED"]
       ELSE UNCHANGED incident
    /\ UNCHANGED << deployment, detection, machine, changes, crowded, jostled, edited >>

\* People move the incident by hand (bound: one is reopened only while a place is left
\* for every report under way).
updateIncident(k, status) ==
    /\ change
    /\ incident[k] \notin {"none", status}
    /\ incident[k] = "RESOLVED" => Cardinality(Incidents \ open) > Cardinality(Machines)
    /\ incident' = [incident EXCEPT ![k] = status]
    /\ crowded' = (crowded \/ incident[k] = "RESOLVED")
    /\ UNCHANGED << deployment, detection, machine, report, jostled, edited >>

rollout(m, build) ==
    /\ change
    /\ machine' = [machine EXCEPT ![m] = build]
    /\ UNCHANGED << deployment, detection, report, incident, crowded, jostled, edited >>

-----------------------------------------------------------------------------
detect(d) ==
    /\ detection' = [detection EXCEPT ![d] = [pc |-> "self"]]
    /\ jostled' = (jostled \/ \E e \in Deployments : detection[e] # Off)

ingest(d) ==
    /\ d \notin there
    /\ deployment' = [deployment EXCEPT ![d].there = TRUE]
    /\ detect(d)
    /\ UNCHANGED << machine, report, incident, changes, crowded, edited >>

\* The grouping into lots failed first, or the row came by another way than ingestion.
ingestUndetected(d) ==
    /\ d \notin there
    /\ deployment' = [deployment EXCEPT ![d].there = TRUE]
    /\ UNCHANGED << detection, machine, report, incident, changes, crowded, jostled, edited >>

\* PUT: another version, and the tags of the body, then the detection again.
put(d, build) ==
    /\ change
    /\ d \in there
    /\ detection[d] = Off
    /\ deployment' = [deployment EXCEPT ![d].build = build, ![d].tags = << >>]
    /\ edited' = edited \cup {d}
    /\ detect(d)
    /\ UNCHANGED << machine, report, incident, crowded >>

setEventOccurredAt(d, at) ==
    /\ change
    /\ d \in there
    /\ deployment' = [deployment EXCEPT ![d].at = at]
    /\ edited' = edited \cup {d}
    /\ UNCHANGED << detection, machine, report, incident, crowded, jostled >>

\* DEPLOYED goes to TESTING, and back by an undo.
moveOn(d) ==
    /\ change
    /\ d \in there
    /\ deployment' = [deployment EXCEPT ![d].status = IF @ = "DEPLOYED" THEN "TESTING" ELSE "DEPLOYED"]
    /\ UNCHANGED << detection, machine, report, incident, crowded, jostled, edited >>

ends(d) == detection' = [detection EXCEPT ![d] = Off]

\* detectRollbackOnIngest: its own row ...
findSelf(d) ==
    /\ detection[d].pc = "self"
    /\ IF deployment[d].build \notin Builds
       THEN ends(d)
       ELSE detection' = [detection EXCEPT ![d] = [pc |-> "previous", build |-> deployment[d].build,
                                                   at |-> deployment[d].at]]
    /\ UNCHANGED << deployment, machine, report, incident, changes, crowded, jostled, edited >>

\* The last Take before that date, in any order that goes back in time.
candidates(at) ==
    LET D == {e \in there : deployment[e].at < at}
        n == IF Cardinality(D) < Take THEN Cardinality(D) ELSE Take
    IN  {s \in [1..n -> D] :
            /\ \A i, j \in 1..n : i < j => s[i] # s[j] /\ deployment[s[i]].at >= deployment[s[j]].at
            /\ \A e \in D : \A i \in 1..n : deployment[e].at > deployment[s[i]].at =>
                                                \E j \in 1..n : s[j] = e}

numeric(s) == {i \in DOMAIN s : deployment[s[i]].build # NoBuild}

\* Mutant: an equal build goes back too.
wasHigherOrSame(e, build) == deployment[e].build >= build

wasHigher(e, build) == deployment[e].build > build

\* Mutant: the tag is not looked for.
untaggedAnyway(e) == TRUE

untagged(e) == deployment[e].tags = << >>

\* ... the first of the earlier ones with a number, and its tags ...
findPrevious(d) ==
    /\ detection[d].pc = "previous"
    /\ \E s \in candidates(detection[d].at) :
          LET first == {i \in numeric(s) : \A j \in numeric(s) : i <= j}
              reverted == {s[i] : i \in first}
          IN  IF \E e \in reverted : wasHigher(e, detection[d].build) /\ untagged(e)
              THEN detection' = [detection EXCEPT ![d] = [pc |-> "push", tag |-> CHOOSE e \in reverted : TRUE]]
              ELSE ends(d)
    /\ UNCHANGED << deployment, machine, report, incident, changes, crowded, jostled, edited >>

\* ... and the tag pushed.
pushTag(d) ==
    /\ detection[d].pc = "push"
    /\ ends(d)
    /\ deployment' = [deployment EXCEPT ![detection[d].tag].tags = Append(@, "rollback")]
    /\ UNCHANGED << machine, report, incident, changes, crowded, jostled, edited >>

\* The process restarts: reports and detections under way are lost.
restart ==
    /\ change
    /\ report' = [m \in Machines |-> Off]
    /\ detection' = [d \in Deployments |-> Off]
    /\ UNCHANGED << deployment, machine, incident, crowded, jostled, edited >>

-----------------------------------------------------------------------------
reportStep(m) == reportRuntimeBuild(m) \/ findExpected(m) \/ findOpenDrift(m) \/ openOrResolve(m)

detectionStep(d) == findSelf(d) \/ findPrevious(d) \/ pushTag(d)

driftStep ==
    \/ \E m \in Machines : reportStep(m)
    \/ \E m \in Machines, build \in Builds : rollout(m, build)
    \/ \E d \in Deployments : ingestUndetected(d)
    \/ \E d \in Deployments : moveOn(d)
    \/ \E k \in Incidents, status \in {"INVESTIGATING", "MONITORING", "RESOLVED"} : updateIncident(k, status)
    \/ restart

rollbackStep ==
    \/ \E d \in Deployments : ingest(d)
    \/ \E d \in Deployments : detectionStep(d)
    \/ \E d \in Deployments, build \in Builds : put(d, build)
    \/ \E d \in Deployments, at \in Dates : setEventOccurredAt(d, at)
    \/ restart

WatchNext == driftStep \/ rollbackStep

WatchSpec == WatchInit /\ [][WatchNext]_watchVars

\* Machines report again and again.
WatchFairness == \A m \in Machines : WF_watchVars(reportStep(m))

WatchFairSpec == WatchSpec /\ WatchFairness

-----------------------------------------------------------------------------
\* A drift is one incident (runtimeDrift.ts: "open a BUILD_DRIFT incident (once)")
\* while reports come one at a time and nobody reopens an old one, whatever the
\* deployments, the machines, the people who move the incident and a restart do.
OneOpenDrift == ~crowded => Cardinality(open) <= 1

\* The same of any reports, as the comment has it.
DriftOpensOnce == Cardinality(open) <= 1

\* Once every machine runs what was last DEPLOYED, and stays there, no incident is left
\* open, though reports overlapped and several were opened, or people moved them on.
DriftHeals == <>[](\A m \in Machines : expected \subseteq {machine[m]}) => <>[](open = {})

\* Who bears the tag was followed by a lower build, unless an edit moved one of the two
\* since (rollbackDetect.ts), in whatever order they arrived.
TaggedWasReverted ==
    \A e \in there \ edited : deployment[e].tags # << >> =>
        \E d \in there : \/ d \in edited
                         \/ /\ deployment[d].at > deployment[e].at
                            /\ deployment[d].build \in 0 .. deployment[e].build - 1

\* The tag comes once ("won't re-add the tag"), as long as detections do not overlap.
TaggedOnce == ~jostled => \A d \in there : Len(deployment[d].tags) <= 1
=============================================================================
