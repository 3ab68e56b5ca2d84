--------------------------- MODULE BuildWatchProofs ---------------------------
(***************************************************************************)
(* Theorems about BuildWatch, for every set of deployments, builds, dates, *)
(* machines and incidents, every number of candidates and every bound.     *)
(***************************************************************************)
EXTENDS BuildWatch, FiniteSetTheorems, TLAPS

(***************************************************************************)
(* Drift.  While reports come one at a time, a report that found no open   *)
(* incident is right until it acts: only a report opens one.               *)
(***************************************************************************)
Statuses == {"none", "INVESTIGATING", "MONITORING", "RESOLVED"}

DriftTyped ==
    /\ incident \in [Incidents -> Statuses]
    /\ report = [m \in Machines |-> report[m]]
    /\ \A m \in Machines : report[m].pc \in {"off", "expect", "open", "act"}
    /\ crowded \in BOOLEAN

OneReports == \A m, n \in Machines : reporting(m) /\ reporting(n) => m = n

FoundNone(r) == r.pc = "act" /\ r.found = NoOne

WhatWasFoundHolds == \A m \in Machines : FoundNone(report[m]) => open = {}

OneIsOpen == \A k, l \in open : k = l

DriftInv == DriftTyped /\ (~crowded => OneReports /\ WhatWasFoundHolds /\ OneIsOpen)

(***************************************************************************)
(* Rollbacks.  A detection remembers its deployment as it is, unless it    *)
(* was edited; what it is about to tag was followed by a lower build.      *)
(***************************************************************************)
Deployment == [there : BOOLEAN, build : Builds \cup {NoBuild}, at : Dates,
               status : {"DEPLOYED", "TESTING"}, tags : Seq({"rollback"})]

Detection == {Off} \cup [pc : {"self"}] \cup [pc : {"previous"}, build : Builds, at : Dates]
             \cup [pc : {"push"}, tag : Deployments]

TagTyped ==
    /\ deployment \in [Deployments -> Deployment]
    /\ detection \in [Deployments -> Detection]
    /\ \A d \in Deployments : detection[d] # Off => d \in there
    /\ edited \subseteq Deployments
    /\ jostled \in BOOLEAN

SelfIsKnown ==
    \A d \in Deployments : detection[d].pc = "previous" =>
        \/ d \in edited
        \/ detection[d].build = deployment[d].build /\ detection[d].at = deployment[d].at

Reverted(e) ==
    \/ e \in edited
    \/ \E d \in there : \/ d \in edited
                        \/ /\ deployment[d].at > deployment[e].at
                           /\ deployment[d].build \in 0 .. deployment[e].build - 1

TagsAreRight ==
    /\ \A e \in Deployments : deployment[e].tags # << >> => Reverted(e)
    /\ \A d \in Deployments : detection[d].pc = "push" => Reverted(detection[d].tag)

OneDetects == \A d, e \in Deployments : detection[d] # Off /\ detection[e] # Off => d = e

TagsAreFew ==
    /\ \A d \in Deployments : Len(deployment[d].tags) <= 1
    /\ \A d \in Deployments : detection[d].pc = "push" => deployment[detection[d].tag].tags = << >>

TagInv == TagTyped /\ SelfIsKnown /\ TagsAreRight /\ (~jostled => OneDetects /\ TagsAreFew)

WatchInv == DriftInv /\ TagInv

-------------------------------------------------------------------------------
(***************************************************************************)
(* Drift.                                                                  *)
(***************************************************************************)
\* A step of the report of m, after which it is r.
Reports(m, r) ==
    /\ report' = [report EXCEPT ![m] = r]
    /\ r.pc \in {"off", "expect", "open", "act"}

\* A report that moves leaves the others where they are.
LEMMA ReportMoves ==
    ASSUME DriftTyped, NEW m \in Machines, NEW r, Reports(m, r), incident' \in [Incidents -> Statuses], crowded' \in BOOLEAN
    PROVE  /\ DriftTyped'
           /\ report'[m] = r
           /\ \A n \in Machines \ {m} : report'[n] = report[n]
BY DEF DriftTyped, Reports

\* A report that goes on, or ends, and neither finds nothing nor opens anything.
LEMMA ReportGoesOn ==
    ASSUME DriftInv, NEW m \in Machines, NEW r, Reports(m, r), reporting(m),
           FoundNone(r) => open' = {},
           incident' \in [Incidents -> Statuses], open' \subseteq open, UNCHANGED crowded
    PROVE  DriftInv'
<1>1. DriftTyped' /\ report'[m] = r /\ \A n \in Machines \ {m} : report'[n] = report[n]
  BY ReportMoves DEF DriftInv, DriftTyped
<1>2. ASSUME ~crowded' PROVE OneReports' /\ WhatWasFoundHolds' /\ OneIsOpen'
  <2>1. OneReports /\ WhatWasFoundHolds /\ OneIsOpen
    BY <1>2 DEF DriftInv
  <2>2. OneReports'
    BY <1>1, <2>1 DEF OneReports, reporting
  <2>3. WhatWasFoundHolds'
    BY <1>1, <2>1 DEF WhatWasFoundHolds, FoundNone
  <2>4. OneIsOpen'
    BY <2>1 DEF OneIsOpen
  <2>5. QED
    BY <2>2, <2>3, <2>4
<1>3. QED
  BY <1>1, <1>2 DEF DriftInv

LEMMA IncidentsStay ==
    ASSUME DriftTyped, UNCHANGED incident
    PROVE  incident' \in [Incidents -> Statuses] /\ open' = open
BY DEF DriftTyped, open

\* A report begins, and crowds another one that is under way.
LEMMA ReportBegins ==
    ASSUME DriftInv, NEW m \in Machines, reportRuntimeBuild(m)
    PROVE  DriftInv'
<1>1. PICK r : r = [pc |-> "expect", build |-> machine[m]]
  OBVIOUS
<1>2. Reports(m, r) /\ r.pc = "expect" /\ UNCHANGED incident
  BY <1>1 DEF reportRuntimeBuild, Reports
<1>3. crowded' = (crowded \/ \E n \in Machines : reporting(n))
  BY DEF reportRuntimeBuild
<1>4. crowded' \in BOOLEAN /\ (~crowded' => ~crowded /\ \A n \in Machines : ~reporting(n))
  BY <1>3
<1>5. DriftTyped' /\ report'[m] = r /\ (\A n \in Machines \ {m} : report'[n] = report[n]) /\ open' = open
  <2>1. DriftTyped
    BY DEF DriftInv
  <2>2. incident' \in [Incidents -> Statuses] /\ open' = open
    BY <1>2, <2>1, IncidentsStay
  <2>3. QED
    BY <1>2, <1>4, <2>1, <2>2, ReportMoves
<1>6. ASSUME ~crowded' PROVE OneReports' /\ WhatWasFoundHolds' /\ OneIsOpen'
  BY <1>2, <1>4, <1>5, <1>6 DEF DriftInv, OneReports, WhatWasFoundHolds, FoundNone, OneIsOpen, reporting
<1>7. QED
  BY <1>5, <1>6 DEF DriftInv

LEMMA ReportActs ==
    ASSUME DriftInv, NEW m \in Machines, openOrResolve(m)
    PROVE  DriftInv'
<1>1. report[m].pc = "act" /\ reporting(m) /\ UNCHANGED crowded
      /\ Reports(m, Off) /\ Off.pc = "off" /\ ~FoundNone(Off)
  BY DEF openOrResolve, reporting, Off, FoundNone, Reports
<1>2. incident \in [Incidents -> Statuses] /\ crowded' \in BOOLEAN
  BY <1>1 DEF DriftInv, DriftTyped
<1>3. CASE opens(report[m])
  <2>1. PICK k \in Incidents \ open : incident' = [incident EXCEPT ![k] = "INVESTIGATING"]
    BY <1>3 DEF openOrResolve
  <2>2. incident' \in [Incidents -> Statuses] /\ open' = open \cup {k}
    BY <1>2, <2>1 DEF Statuses, open
  <2>3. DriftTyped' /\ report'[m] = Off /\ \A n \in Machines \ {m} : report'[n] = report[n]
    BY <1>1, <1>2, <2>2, ReportMoves DEF DriftInv
  <2>4. ASSUME ~crowded' PROVE OneReports' /\ WhatWasFoundHolds' /\ OneIsOpen'
    <3>1. OneReports /\ WhatWasFoundHolds
      BY <1>1, <2>4 DEF DriftInv
    <3>2. \A n \in Machines : ~reporting(n)'
      BY <1>1, <2>3, <3>1 DEF OneReports, reporting
    <3>3. OneReports' /\ WhatWasFoundHolds'
      BY <3>2 DEF OneReports, WhatWasFoundHolds, FoundNone, reporting
    <3>4. open' = {k}
      BY <1>1, <1>3, <2>2, <3>1 DEF WhatWasFoundHolds, FoundNone, opens
    <3>5. QED
      BY <3>3, <3>4 DEF OneIsOpen
  <2>5. QED
    BY <2>3, <2>4 DEF DriftInv
<1>4. CASE ~opens(report[m])
  <2>1. UNCHANGED incident \/ \E k : incident' = [incident EXCEPT ![k] = "RESOLVED"]
    BY <1>4 DEF openOrResolve
  <2>2. incident' \in [Incidents -> Statuses] /\ open' \subseteq open
    BY <1>2, <2>1 DEF Statuses, open
  <2>3. QED
    BY <1>1, <2>2, ReportGoesOn
<1>5. QED
  BY <1>3, <1>4

LEMMA ReportStep ==
    ASSUME DriftInv, NEW m \in Machines, reportStep(m)
    PROVE  DriftInv'
<1>0. UNCHANGED incident => incident' \in [Incidents -> Statuses] /\ open' = open
  BY IncidentsStay DEF DriftInv
<1>1. CASE reportRuntimeBuild(m)
  BY <1>1, ReportBegins
<1>2. CASE findExpected(m)
  <2>1. PICK drift : report' = [report EXCEPT ![m] = [pc |-> "open", drift |-> drift]]
    BY <1>2 DEF findExpected
  <2>2. PICK r : r = [pc |-> "open", drift |-> drift]
    OBVIOUS
  <2>3. Reports(m, r) /\ r.pc = "open" /\ ~FoundNone(r) /\ reporting(m)
        /\ UNCHANGED << incident, crowded >>
    BY <1>2, <2>1, <2>2 DEF findExpected, FoundNone, reporting, Reports
  <2>4. QED
    BY <2>3, <1>0, ReportGoesOn
<1>3. CASE findOpenDrift(m)
  <2>1. PICK k \in IF openDrifts = {} THEN {NoOne} ELSE openDrifts :
           report' = [report EXCEPT ![m] = [pc |-> "act", drift |-> @.drift, found |-> k]]
    BY <1>3 DEF findOpenDrift
  <2>2. PICK r : r = [pc |-> "act", drift |-> report[m].drift, found |-> k]
    OBVIOUS
  <2>3. Reports(m, r) /\ r.pc = "act" /\ r.found = k /\ reporting(m)
        /\ UNCHANGED << incident, crowded >>
    BY <1>3, <2>1, <2>2 DEF findOpenDrift, reporting, Reports, DriftInv, DriftTyped
  <2>4. FoundNone(r) => open = {}
    BY <2>1, <2>3, WatchAssumption DEF FoundNone, openDrifts, open, NoOne
  <2>5. QED
    BY <2>3, <2>4, <1>0, ReportGoesOn
<1>4. CASE openOrResolve(m)
  BY <1>4, ReportActs
<1>5. QED
  BY <1>1, <1>2, <1>3, <1>4 DEF reportStep

LEMMA DriftStep ==
    ASSUME DriftInv, [WatchNext]_watchVars
    PROVE  DriftInv'
<1>1. ASSUME NEW m \in Machines, reportStep(m) PROVE DriftInv'
  BY <1>1, ReportStep
<1>2. ASSUME NEW k \in Incidents, NEW status \in {"INVESTIGATING", "MONITORING", "RESOLVED"},
             updateIncident(k, status)
      PROVE  DriftInv'
  <2>1. /\ incident' = [incident EXCEPT ![k] = status] /\ UNCHANGED report
        /\ crowded' = (crowded \/ incident[k] = "RESOLVED")
        /\ incident[k] # "none"
    BY <1>2 DEF updateIncident
  <2>2. crowded' \in BOOLEAN /\ (~crowded' => ~crowded /\ incident[k] # "RESOLVED")
    BY <2>1
  <2>3. DriftTyped'
    BY <2>1, <2>2 DEF DriftInv, DriftTyped, Statuses
  <2>4. ASSUME ~crowded' PROVE open' \subseteq open
    BY <2>1, <2>2, <2>4 DEF open, DriftInv, DriftTyped
  <2>5. QED
    BY <2>1, <2>2, <2>3, <2>4 DEF DriftInv, OneReports, WhatWasFoundHolds, FoundNone, OneIsOpen, reporting
<1>3. CASE restart
  <2>1. report' = [m \in Machines |-> Off] /\ UNCHANGED << incident, crowded >> /\ Off.pc = "off"
    BY <1>3 DEF restart, Off
  <2>2. QED
    BY <2>1, IncidentsStay DEF DriftInv, DriftTyped, OneReports, WhatWasFoundHolds, FoundNone, OneIsOpen, reporting
<1>4. CASE UNCHANGED << report, incident, crowded >>
  BY <1>4, IncidentsStay DEF DriftInv, DriftTyped, OneReports, WhatWasFoundHolds, FoundNone, OneIsOpen, reporting
<1>5. CASE \/ \E m \in Machines, build \in Builds : rollout(m, build)
           \/ \E d \in Deployments : \/ ingestUndetected(d) \/ moveOn(d) \/ ingest(d) \/ detectionStep(d)
                                     \/ \E build \in Builds : put(d, build)
                                     \/ \E at \in Dates : setEventOccurredAt(d, at)
  <2>1. UNCHANGED << report, incident, crowded >>
    BY <1>5 DEF rollout, ingestUndetected, moveOn, ingest, detectionStep, findSelf, findPrevious, pushTag,
                put, setEventOccurredAt
  <2>2. QED
    BY <1>4, <2>1
<1>6. QED
  BY <1>1, <1>2, <1>3, <1>4, <1>5 DEF WatchNext, driftStep, rollbackStep, watchVars

-------------------------------------------------------------------------------
(***************************************************************************)
(* Rollbacks.                                                              *)
(***************************************************************************)
LEMMA DetectionShape ==
    ASSUME NEW q \in Detection
    PROVE  /\ q.pc \in {"off", "self", "previous", "push"}
           /\ q.pc = "off" <=> q = Off
           /\ q.pc = "previous" => q.build \in Builds /\ q.at \in Dates
           /\ q.pc = "push" => q.tag \in Deployments
BY DEF Detection, Off

\* What has no edit stays where it is in time, with its build.
Keeps ==
    /\ edited \subseteq edited' /\ edited' \subseteq Deployments
    /\ deployment' \in [Deployments -> Deployment]
    /\ there \subseteq there'
    /\ \A d \in Deployments \ edited' : /\ deployment'[d].at = deployment[d].at
                                        /\ deployment'[d].build = deployment[d].build

LEMMA RevertedStays ==
    ASSUME Keeps, NEW e \in Deployments, Reverted(e)
    PROVE  Reverted(e)'
<1>1. CASE e \in edited'
  BY <1>1 DEF Reverted
<1>2. CASE e \notin edited'
  <2>1. PICK d \in there : \/ d \in edited
                           \/ /\ deployment[d].at > deployment[e].at
                              /\ deployment[d].build \in 0 .. deployment[e].build - 1
    BY <1>2 DEF Reverted, Keeps
  <2>2. d \in there' /\ d \in Deployments
    BY <2>1 DEF Keeps, there
  <2>3. CASE d \in edited'
    BY <2>2, <2>3 DEF Reverted
  <2>4. CASE d \notin edited'
    BY <1>2, <2>1, <2>2, <2>4 DEF Reverted, Keeps
  <2>5. QED
    BY <2>3, <2>4
<1>3. QED
  BY <1>1, <1>2

\* What a step does to the detection of d.
Detects(d, r) ==
    /\ detection' = [detection EXCEPT ![d] = r]
    /\ r \in Detection

LEMMA DetectionMoves ==
    ASSUME TagTyped, NEW d \in Deployments, NEW r, Detects(d, r)
    PROVE  /\ detection' \in [Deployments -> Detection]
           /\ detection'[d] = r
           /\ \A x \in Deployments \ {d} : detection'[x] = detection[x]
BY DEF TagTyped, Detects

\* A step that leaves tags and detections.
LEMMA DeploymentMoves ==
    ASSUME TagInv, Keeps, UNCHANGED << detection, jostled >>,
           \A d \in Deployments : deployment'[d].tags = deployment[d].tags
    PROVE  TagInv'
<1>1. TagTyped'
  BY DEF TagInv, TagTyped, Keeps
<1>2. SelfIsKnown'
  BY DEF TagInv, SelfIsKnown, Keeps
<1>3. TagsAreRight'
  <2>1. \A e \in Deployments : deployment'[e].tags # << >> => Reverted(e)'
    BY RevertedStays DEF TagInv, TagsAreRight
  <2>2. ASSUME NEW d \in Deployments, detection[d].pc = "push" PROVE Reverted(detection[d].tag)'
    <3>1. PICK e \in Deployments : e = detection[d].tag
      BY <2>2, DetectionShape DEF TagInv, TagTyped
    <3>2. Reverted(e)'
      BY <2>2, <3>1, RevertedStays DEF TagInv, TagsAreRight
    <3>3. QED
      BY <3>1, <3>2
  <2>3. QED
    BY <2>1, <2>2 DEF TagsAreRight
<1>4. ~jostled' => OneDetects' /\ TagsAreFew'
  <2>1. \A d \in Deployments : detection[d].pc = "push" => detection[d].tag \in Deployments
    BY DetectionShape DEF TagInv, TagTyped
  <2>2. QED
    BY <2>1 DEF TagInv, OneDetects, TagsAreFew
<1>5. QED
  BY <1>1, <1>2, <1>3, <1>4 DEF TagInv

\* A step of one detection under way that leaves the deployments: what it knows is so,
\* and what it is about to tag is right and bears no tag.
LEMMA DetectionGoesOn ==
    ASSUME TagInv, NEW d \in Deployments, NEW r, Detects(d, r), detection[d] # Off,
           r.pc = "previous" => d \in edited \/ (r.build = deployment[d].build /\ r.at = deployment[d].at),
           r.pc = "push" => Reverted(r.tag) /\ deployment[r.tag].tags = << >>,
           UNCHANGED << deployment, edited, jostled >>
    PROVE  TagInv'
<1>1. /\ detection' \in [Deployments -> Detection]
      /\ detection'[d] = r
      /\ \A x \in Deployments \ {d} : detection'[x] = detection[x]
  BY DetectionMoves DEF TagInv
<1>2. TagTyped'
  BY <1>1 DEF TagInv, TagTyped, there
<1>3. SelfIsKnown'
  BY <1>1 DEF TagInv, SelfIsKnown
<1>4. \A e : Reverted(e) => Reverted(e)'
  BY DEF Reverted, there
<1>5. TagsAreRight'
  BY <1>1, <1>4 DEF TagInv, TagsAreRight
<1>6. ~jostled' => OneDetects' /\ TagsAreFew'
  BY <1>1 DEF TagInv, OneDetects, TagsAreFew
<1>7. QED
  BY <1>2, <1>3, <1>5, <1>6 DEF TagInv

LEMMA SelfStep ==
    ASSUME TagInv, NEW d \in Deployments, findSelf(d)
    PROVE  TagInv'
<1>1. detection[d].pc = "self" /\ detection[d] # Off /\ UNCHANGED << deployment, edited, jostled >>
  BY DEF findSelf, Off
<1>2. CASE deployment[d].build \notin Builds
  <2>1. Detects(d, Off) /\ Off.pc = "off"
    BY <1>2 DEF findSelf, ends, Detects, Detection, Off
  <2>2. QED
    BY <1>1, <2>1, DetectionGoesOn
<1>3. CASE deployment[d].build \in Builds
  <2>1. PICK r : r = [pc |-> "previous", build |-> deployment[d].build, at |-> deployment[d].at]
    OBVIOUS
  <2>2. r.pc = "previous" /\ r.build = deployment[d].build /\ r.at = deployment[d].at
    BY <2>1
  <2>3. deployment[d].at \in Dates
    BY DEF TagInv, TagTyped, Deployment
  <2>4. Detects(d, r)
    BY <1>3, <2>1, <2>3 DEF findSelf, Detects, Detection
  <2>5. QED
    BY <1>1, <2>2, <2>4, DetectionGoesOn
<1>4. QED
  BY <1>2, <1>3

\* The first of the candidates with a number is one deployment, earlier than the detected.
LEMMA PreviousStep ==
    ASSUME TagInv, NEW d \in Deployments, findPrevious(d)
    PROVE  TagInv'
<1>1. detection[d].pc = "previous" /\ detection[d] # Off /\ UNCHANGED << deployment, edited, jostled >>
  BY DEF findPrevious, Off
<1>2. PICK b, t : b = detection[d].build /\ t = detection[d].at
  OBVIOUS
<1>3. b \in Builds /\ t \in Dates /\ Builds \subseteq Nat /\ Dates \subseteq Nat
  BY <1>1, <1>2, DetectionShape, WatchAssumption DEF TagInv, TagTyped
<1>4. PICK s \in candidates(t) :
         LET first == {i \in numeric(s) : \A j \in numeric(s) : i <= j}
             reverted == {s[i] : i \in first}
         IN  IF \E e \in reverted : wasHigher(e, b) /\ untagged(e)
             THEN detection' = [detection EXCEPT ![d] = [pc |-> "push", tag |-> CHOOSE e \in reverted : TRUE]]
             ELSE ends(d)
  BY <1>2 DEF findPrevious
<1>5. PICK first, reverted : /\ first = {i \in numeric(s) : \A j \in numeric(s) : i <= j}
                             /\ reverted = {s[i] : i \in first}
  OBVIOUS
<1>6. CASE ~\E e \in reverted : wasHigher(e, b) /\ untagged(e)
  <2>1. Detects(d, Off) /\ Off.pc = "off"
    BY <1>4, <1>5, <1>6 DEF ends, Detects, Detection, Off
  <2>2. QED
    BY <1>1, <2>1, DetectionGoesOn
<1>7. ASSUME NEW e \in reverted, wasHigher(e, b), untagged(e)
      PROVE  TagInv'
  <2>1. PICK n : s \in [1..n -> {x \in there : deployment[x].at < t}]
    BY <1>4 DEF candidates
  <2>2. first \subseteq 1..n /\ \A i, j \in first : i <= j
    BY <1>5, <2>1 DEF numeric
  <2>3. \A i, j \in first : i = j
    BY <2>2
  <2>4. \A x \in reverted : x = e
    BY <1>5, <1>7, <2>3
  <2>5. (CHOOSE x \in reverted : TRUE) = e
    BY <1>7, <2>4
  <2>6. e \in there /\ deployment[e].at < t
    BY <1>5, <1>7, <2>1, <2>2
  <2>7. PICK r : r = [pc |-> "push", tag |-> e]
    OBVIOUS
  <2>8. r.pc = "push" /\ r.tag = e
    BY <2>7
  <2>9. Detects(d, r)
    <3>1. detection' = [detection EXCEPT ![d] = [pc |-> "push", tag |-> CHOOSE x \in reverted : TRUE]]
      BY <1>4, <1>5, <1>7
    <3>2. detection' = [detection EXCEPT ![d] = r]
      BY <2>5, <2>7, <3>1
    <3>3. QED
      BY <2>6, <2>7, <3>2 DEF Detects, Detection, there
  <2>10. Reverted(e)
    <3>1. d \in there
      BY <1>1 DEF TagInv, TagTyped
    <3>2. CASE d \in edited
      BY <3>1, <3>2 DEF Reverted
    <3>3. CASE d \notin edited
      <4>1. b = deployment[d].build /\ t = deployment[d].at
        BY <1>1, <1>2, <3>3 DEF TagInv, SelfIsKnown
      <4>2. deployment[e].build \in Int /\ deployment[e].at \in Nat
        <5>1. deployment[e] \in Deployment
          BY <2>6 DEF TagInv, TagTyped, there
        <5>2. deployment[e].build \in Builds \cup {NoBuild} /\ deployment[e].at \in Dates
          BY <5>1 DEF Deployment
        <5>3. NoBuild \in Int
          BY DEF NoBuild
        <5>4. (\A x \in Builds : x \in Int) /\ (\A x \in Dates : x \in Nat)
          BY <1>3
        <5>5. QED
          BY <5>2, <5>3, <5>4, Zenon
      <4>3. deployment[d].at > deployment[e].at /\ deployment[d].build \in 0 .. deployment[e].build - 1
        BY <1>3, <1>7, <2>6, <4>1, <4>2 DEF wasHigher
      <4>4. QED
        BY <3>1, <4>3 DEF Reverted
    <3>4. QED
      BY <3>2, <3>3
  <2>11. QED
    BY <1>1, <1>7, <2>8, <2>9, <2>10, DetectionGoesOn DEF untagged
<1>8. QED
  BY <1>6, <1>7

LEMMA PushStep ==
    ASSUME TagInv, NEW d \in Deployments, pushTag(d)
    PROVE  TagInv'
<1>1. /\ detection[d].pc = "push" /\ Off.pc = "off" /\ Detects(d, Off) /\ detection[d] # Off
      /\ UNCHANGED << edited, jostled >>
  BY DEF pushTag, ends, Detects, Detection, Off
<1>2. PICK e \in Deployments : e = detection[d].tag
  BY <1>1, DetectionShape DEF TagInv, TagTyped
<1>3. /\ detection' \in [Deployments -> Detection]
      /\ detection'[d] = Off
      /\ \A x \in Deployments \ {d} : detection'[x] = detection[x]
  BY <1>1, DetectionMoves DEF TagInv
<1>4. deployment \in [Deployments -> Deployment] /\ deployment[e].tags \in Seq({"rollback"})
  BY DEF TagInv, TagTyped, Deployment
<1>5. PICK w : w = Append(deployment[e].tags, "rollback")
  OBVIOUS
<1>6. w \in Seq({"rollback"}) /\ Len(w) = Len(deployment[e].tags) + 1 /\ Len(deployment[e].tags) \in Nat
  BY <1>4, <1>5
<1>7. deployment' = [deployment EXCEPT ![e].tags = w]
  BY <1>2, <1>5 DEF pushTag
<1>8. /\ deployment' \in [Deployments -> Deployment]
      /\ deployment'[e].tags = w
      /\ \A x \in Deployments \ {e} : deployment'[x] = deployment[x]
      /\ \A x \in Deployments : /\ deployment'[x].there = deployment[x].there
                                /\ deployment'[x].at = deployment[x].at
                                /\ deployment'[x].build = deployment[x].build
  BY <1>4, <1>6, <1>7 DEF Deployment
<1>9. there' = there
  BY <1>8 DEF there
<1>10. Keeps
  BY <1>1, <1>8, <1>9 DEF Keeps, TagInv, TagTyped
<1>11. TagTyped'
  BY <1>1, <1>3, <1>8, <1>9 DEF TagInv, TagTyped
<1>12. SelfIsKnown'
  BY <1>1, <1>3, <1>8 DEF TagInv, SelfIsKnown
<1>13. Reverted(e)
  BY <1>1, <1>2 DEF TagInv, TagsAreRight
<1>14. TagsAreRight'
  <2>1. ASSUME NEW x \in Deployments, deployment'[x].tags # << >> PROVE Reverted(x)'
    <3>1. Reverted(x)
      BY <1>8, <1>13, <2>1 DEF TagInv, TagsAreRight
    <3>2. QED
      BY <1>10, <3>1, RevertedStays
  <2>2. ASSUME NEW x \in Deployments, detection'[x].pc = "push" PROVE Reverted(detection[x].tag)'
    <3>1. x # d /\ detection'[x] = detection[x]
      BY <1>1, <1>3, <2>2
    <3>2. PICK y \in Deployments : y = detection[x].tag
      BY <2>2, <3>1, DetectionShape DEF TagInv, TagTyped
    <3>3. Reverted(y)'
      BY <1>10, <2>2, <3>1, <3>2, RevertedStays DEF TagInv, TagsAreRight
    <3>4. QED
      BY <3>1, <3>2, <3>3
  <2>3. QED
    BY <2>1, <2>2 DEF TagsAreRight
<1>15. ASSUME ~jostled' PROVE OneDetects' /\ TagsAreFew'
  <2>1. OneDetects /\ TagsAreFew
    BY <1>1, <1>15 DEF TagInv
  <2>2. \A x \in Deployments : detection'[x] = Off
    BY <1>1, <1>3, <2>1 DEF OneDetects
  <2>3. OneDetects'
    BY <2>2 DEF OneDetects
  <2>4. deployment[e].tags = << >>
    BY <1>1, <1>2, <2>1 DEF TagsAreFew
  <2>5. Len(w) <= 1
    BY <1>6, <2>4
  <2>6. \A x \in Deployments : Len(deployment'[x].tags) <= 1
    BY <1>8, <2>1, <2>5 DEF TagsAreFew
  <2>7. TagsAreFew'
    BY <1>1, <2>2, <2>6 DEF TagsAreFew
  <2>8. QED
    BY <2>3, <2>7
<1>16. QED
  BY <1>11, <1>12, <1>14, <1>15 DEF TagInv

\* A detection begins anew, on a deployment that is there; it jostles those under way.
LEMMA DetectBegins ==
    ASSUME TagInv, NEW d \in Deployments, detect(d), Keeps, d \in there',
           d \in there => detection[d] = Off,
           \A x \in Deployments : deployment'[x].tags \in {deployment[x].tags, << >>}
    PROVE  TagInv'
<1>1. PICK r : r = [pc |-> "self"]
  OBVIOUS
<1>2. Detects(d, r) /\ r.pc = "self"
  BY <1>1 DEF detect, Detects, Detection
<1>3. /\ detection' \in [Deployments -> Detection]
      /\ detection'[d] = r
      /\ \A x \in Deployments \ {d} : detection'[x] = detection[x]
  BY <1>2, DetectionMoves DEF TagInv
<1>4. jostled' = (jostled \/ \E e \in Deployments : detection[e] # Off)
  BY DEF detect
<1>5. jostled' \in BOOLEAN /\ (~jostled' => ~jostled /\ \A e \in Deployments : detection[e] = Off)
  BY <1>4
<1>6. TagTyped'
  BY <1>3, <1>5 DEF TagInv, TagTyped, Keeps
<1>7. SelfIsKnown'
  BY <1>2, <1>3 DEF TagInv, SelfIsKnown, Keeps
<1>8. TagsAreRight'
  <2>1. \A e \in Deployments : deployment'[e].tags # << >> => Reverted(e)'
    BY RevertedStays DEF TagInv, TagsAreRight
  <2>2. ASSUME NEW x \in Deployments, detection'[x].pc = "push" PROVE Reverted(detection[x].tag)'
    <3>1. x # d /\ detection'[x] = detection[x]
      BY <1>2, <1>3, <2>2
    <3>2. PICK y \in Deployments : y = detection[x].tag
      BY <2>2, <3>1, DetectionShape DEF TagInv, TagTyped
    <3>3. Reverted(y)'
      BY <2>2, <3>1, <3>2, RevertedStays DEF TagInv, TagsAreRight
    <3>4. QED
      BY <3>1, <3>2, <3>3
  <2>3. QED
    BY <2>1, <2>2 DEF TagsAreRight
<1>9. ASSUME ~jostled' PROVE OneDetects' /\ TagsAreFew'
  <2>1. \A x \in Deployments : x # d => detection'[x] = Off
    BY <1>3, <1>5, <1>9
  <2>2. \A x \in Deployments : detection'[x].pc # "push"
    BY <1>2, <1>3, <2>1 DEF Off
  <2>3. \A x \in Deployments : Len(deployment[x].tags) <= 1 /\ Len(<< >>) <= 1
    BY <1>5, <1>9 DEF TagInv, TagsAreFew
  <2>4. \A x \in Deployments : Len(deployment'[x].tags) <= 1
    BY <2>3
  <2>5. QED
    BY <2>1, <2>2, <2>4 DEF OneDetects, TagsAreFew
<1>10. QED
  BY <1>6, <1>7, <1>8, <1>9 DEF TagInv

\* What an edit, an arrival or a change of status does to the row.
Edits(d, q) ==
    /\ deployment' = [deployment EXCEPT ![d] = q]
    /\ q \in Deployment
    /\ deployment[d].there => q.there
    /\ edited' \in {edited, edited \cup {d}}
    /\ d \in edited' \/ (q.at = deployment[d].at /\ q.build = deployment[d].build)

LEMMA EditKeeps ==
    ASSUME TagInv, NEW d \in Deployments, NEW q, Edits(d, q)
    PROVE  /\ Keeps
           /\ deployment'[d] = q
           /\ \A x \in Deployments \ {d} : deployment'[x] = deployment[x]
           /\ d \in there' <=> q.there
BY DEF TagInv, TagTyped, Edits, Keeps, there

LEMMA TagStep ==
    ASSUME TagInv, [WatchNext]_watchVars
    PROVE  TagInv'
<1>0. deployment \in [Deployments -> Deployment]
  BY DEF TagInv, TagTyped
<1>1. ASSUME NEW d \in Deployments, ingest(d) PROVE TagInv'
  <2>1. PICK q : q = [deployment[d] EXCEPT !.there = TRUE]
    OBVIOUS
  <2>2. q \in Deployment /\ q.there /\ q.tags = deployment[d].tags /\ q.at = deployment[d].at
        /\ q.build = deployment[d].build
    BY <1>0, <2>1 DEF Deployment
  <2>3. Edits(d, q) /\ detect(d) /\ d \notin there
    BY <1>1, <2>1, <2>2 DEF ingest, Edits
  <2>4. /\ Keeps /\ d \in there'
        /\ \A x \in Deployments : deployment'[x].tags = deployment[x].tags
    BY <2>2, <2>3, EditKeeps
  <2>5. QED
    BY <2>3, <2>4, DetectBegins
<1>2. ASSUME NEW d \in Deployments, ingestUndetected(d) \/ moveOn(d) PROVE TagInv'
  <2>1. PICK q :
           q = IF ingestUndetected(d) THEN [deployment[d] EXCEPT !.there = TRUE]
               ELSE [deployment[d] EXCEPT !.status = IF deployment[d].status = "DEPLOYED" THEN "TESTING" ELSE "DEPLOYED"]
    OBVIOUS
  <2>2. q \in Deployment /\ q.tags = deployment[d].tags /\ q.at = deployment[d].at
        /\ q.build = deployment[d].build /\ (deployment[d].there => q.there)
    BY <1>0, <2>1 DEF Deployment
  <2>3. Edits(d, q) /\ UNCHANGED << detection, jostled >>
    BY <1>2, <2>1, <2>2 DEF ingestUndetected, moveOn, Edits
  <2>4. /\ Keeps
        /\ \A x \in Deployments : deployment'[x].tags = deployment[x].tags
    BY <2>2, <2>3, EditKeeps
  <2>5. QED
    BY <2>3, <2>4, DeploymentMoves
<1>3. ASSUME NEW d \in Deployments, NEW at \in Dates, setEventOccurredAt(d, at) PROVE TagInv'
  <2>1. PICK q : q = [deployment[d] EXCEPT !.at = at]
    OBVIOUS
  <2>2. q \in Deployment /\ q.tags = deployment[d].tags /\ (deployment[d].there => q.there)
    BY <1>0, <2>1 DEF Deployment
  <2>3. Edits(d, q) /\ UNCHANGED << detection, jostled >>
    BY <1>3, <2>1, <2>2 DEF setEventOccurredAt, Edits
  <2>4. /\ Keeps
        /\ \A x \in Deployments : deployment'[x].tags = deployment[x].tags
    BY <2>2, <2>3, EditKeeps
  <2>5. QED
    BY <2>3, <2>4, DeploymentMoves
<1>4. ASSUME NEW d \in Deployments, NEW build \in Builds, put(d, build) PROVE TagInv'
  <2>1. PICK none, q : none = << >> /\ q = [deployment[d] EXCEPT !.build = build, !.tags = none]
    OBVIOUS
  <2>2. q \in Deployment /\ q.tags = << >> /\ (deployment[d].there => q.there)
    <3>1. none \in Seq({"rollback"})
      BY <2>1
    <3>2. q \in Deployment /\ q.tags = none /\ (deployment[d].there => q.there)
      BY <1>0, <2>1, <3>1 DEF Deployment
    <3>3. QED
      BY <2>1, <3>2
  <2>3. Edits(d, q) /\ detect(d) /\ d \in there /\ detection[d] = Off
    BY <1>0, <1>4, <2>1, <2>2 DEF put, Edits
  <2>4. /\ Keeps /\ d \in there'
        /\ \A x \in Deployments : deployment'[x].tags \in {deployment[x].tags, << >>}
    <3>1. deployment[d].there
      BY <2>3 DEF there
    <3>2. QED
      BY <2>2, <2>3, <3>1, EditKeeps
  <2>5. QED
    BY <2>3, <2>4, DetectBegins
<1>5. ASSUME NEW d \in Deployments, detectionStep(d) PROVE TagInv'
  BY <1>5, SelfStep, PreviousStep, PushStep DEF detectionStep
<1>6. CASE restart
  <2>1. detection' = [d \in Deployments |-> Off] /\ UNCHANGED << deployment, edited, jostled >> /\ Off.pc = "off"
    BY <1>6 DEF restart, Off
  <2>2. \A e : Reverted(e) => Reverted(e)'
    BY <2>1 DEF Reverted, there
  <2>3. TagTyped' /\ SelfIsKnown' /\ TagsAreRight'
    BY <2>1, <2>2 DEF TagInv, TagTyped, SelfIsKnown, TagsAreRight, Detection, there
  <2>4. ~jostled' => OneDetects' /\ TagsAreFew'
    BY <2>1 DEF TagInv, OneDetects, TagsAreFew
  <2>5. QED
    BY <2>3, <2>4 DEF TagInv
<1>7. CASE UNCHANGED << deployment, detection, edited, jostled >>
  <2>1. Keeps
    BY <1>7 DEF Keeps, TagInv, TagTyped, there
  <2>2. QED
    BY <1>7, <2>1, DeploymentMoves
<1>8. CASE \/ \E m \in Machines : reportStep(m) \/ \E build \in Builds : rollout(m, build)
           \/ \E k \in Incidents, status \in {"INVESTIGATING", "MONITORING", "RESOLVED"} : updateIncident(k, status)
  <2>1. UNCHANGED << deployment, detection, edited, jostled >>
    BY <1>8 DEF reportStep, reportRuntimeBuild, findExpected, findOpenDrift, openOrResolve, rollout, updateIncident
  <2>2. QED
    BY <1>7, <2>1
<1>9. QED
  BY <1>1, <1>2, <1>3, <1>4, <1>5, <1>6, <1>7, <1>8 DEF WatchNext, driftStep, rollbackStep, watchVars

-------------------------------------------------------------------------------
LEMMA WatchStarts ==
    ASSUME WatchInit
    PROVE  WatchInv
<1>1. DriftInv
  BY DEF WatchInit, DriftInv, DriftTyped, Statuses, Off, OneReports, WhatWasFoundHolds, FoundNone, OneIsOpen,
         reporting, open
<1>2. \A d \in Deployments : deployment[d].tags = << >> /\ detection[d] = Off /\ Off.pc = "off"
  BY DEF WatchInit, Off
<1>3. TagTyped
  <2>1. << >> \in Seq({"rollback"})
    OBVIOUS
  <2>2. deployment \in [Deployments -> Deployment]
    BY <2>1 DEF WatchInit, Deployment
  <2>3. QED
    BY <2>2 DEF WatchInit, TagTyped, Detection
<1>4. SelfIsKnown /\ TagsAreRight /\ OneDetects /\ TagsAreFew
  BY <1>2 DEF SelfIsKnown, TagsAreRight, OneDetects, TagsAreFew
<1>5. QED
  BY <1>1, <1>3, <1>4 DEF WatchInv, TagInv

\* A report that found no incident is right until it acts, if it is alone, and a detection
\* tags only what a lower build followed.
THEOREM WatchInvariant == WatchSpec => []WatchInv
<1>1. WatchInit => WatchInv
  BY WatchStarts
<1>2. WatchInv /\ [WatchNext]_watchVars => WatchInv'
  BY DriftStep, TagStep DEF WatchInv
<1>3. QED
  BY <1>1, <1>2, PTL DEF WatchSpec

\* While reports do not overlap and nobody reopens an old incident, a drift has one open.
THEOREM DriftIsOne == WatchSpec => []OneOpenDrift
<1>1. WatchInv => OneOpenDrift
  <2>1. SUFFICES ASSUME WatchInv, ~crowded PROVE Cardinality(open) <= 1
    BY DEF OneOpenDrift
  <2>2. OneIsOpen
    BY <2>1 DEF WatchInv, DriftInv
  <2>3. CASE open = {}
    BY <2>3, FS_EmptySet
  <2>4. ASSUME NEW k \in open PROVE Cardinality(open) <= 1
    <3>1. open = {k}
      BY <2>2, <2>4 DEF OneIsOpen
    <3>2. Cardinality({k}) = 1
      BY FS_Singleton
    <3>3. QED
      BY <3>1, <3>2
  <2>5. QED
    BY <2>3, <2>4
<1>2. QED
  BY <1>1, WatchInvariant, PTL

\* Whatever the order of arrivals, edits and detections: who bears the tag was followed by
\* a lower build, or one of the two was edited.
THEOREM TagsAreEarned == WatchSpec => []TaggedWasReverted
<1>1. WatchInv => TaggedWasReverted
  BY DEF WatchInv, TagInv, TagsAreRight, Reverted, TaggedWasReverted, there
<1>2. QED
  BY <1>1, WatchInvariant, PTL

\* The tag comes once while detections do not overlap, though they run again after each edit.
THEOREM TagsComeOnce == WatchSpec => []TaggedOnce
<1>1. WatchInv => TaggedOnce
  BY DEF WatchInv, TagInv, TagsAreFew, TaggedOnce, there
<1>2. QED
  BY <1>1, WatchInvariant, PTL
===============================================================================
