--------------------------- MODULE MCAdministration ---------------------------
(***************************************************************************)
(* Hierarchy, Settings, Access, Visibility and Dialogs on small instances. *)
(* Nothing of one is read by another: a behaviour plays one scene, the     *)
(* rest stands still.                                                      *)
(***************************************************************************)
EXTENDS Hierarchy, Settings, Access, Visibility, Dialogs

VARIABLE scene

mcVars == << hierarchyVars, settingsVars, accessVars, visibilityVars, dialogVars, scene >>

mcSlugs == {<< "x" >>, << "x", 2 >>}

\* "Bug" and "bug" share a slug.
mcSlugOf == [Bug |-> "bug", bug |-> "bug", Fix |-> "fix"]

mcRoleOf == [admins |-> "admin"]

mcUserOf == [k1 |-> "ann", k2 |-> "ann"]

mcCompanyOf == [app |-> "acme"]

mcProductOf == [svc |-> "app", api |-> "app"]

\* One of each kind for each service, the deployments in one lot, and an older one without.
mcEntries ==
    {[service |-> s, type |-> t, environment |-> e, lot |-> IF t = "DEPLOYMENT" THEN "L1" ELSE NoLot, at |-> 2] :
        s \in Services, t \in Types, e \in Environments}
    \cup {[service |-> "svc", type |-> "DEPLOYMENT", environment |-> "prod", lot |-> NoLot, at |-> 1]}

mcFeeds == {[service |-> Whichever, environment |-> "prod", types |-> {}]}

mcTree ==
    << "acme", "app", "svc" >> :> "svc" @@
    << "acme", "crm", "api" >> :> "api" @@
    << "bell", "web", "www" >> :> "www"

mcHere == << "acme", "app", "svc" >>

mcOrder == << "prod", "qa" >>

mcIds == << "d1", "d2", "d3", "d4" >>

deployed(e, d) ==
    [emptyRow EXCEPT !.type = "DEPLOYMENT", !.service = "svc", !.environment = e,
                     !.version = "0", !.lot = "0", !.requester = "bob", !.occurredAt = d,
                     !.changeType = "NORMAL", !.deployStatus = "DEPLOYED"]

\* What is there: a parent for phases, or two deployments to group.
mcEvents ==
    CASE scene = "event"    -> "d1" :> deployed("prod", 2)
      [] scene = "existing" -> "d1" :> deployed("prod", 2) @@ "d2" :> deployed("qa", 3)
      [] OTHER              -> << >>

mcTyped ==
    [event    |-> {<< "version", "1" >>, << "changeType", "POST_MEP" >>, << "parentId", "d1" >>,
                   << "comment", "c" >>, << "occurredAt", 2 >>, << "occurredAt", 4 >>,
                   << "incidentType", "latency" >>, << "startedAt", 2 >>,
                   << "windowStart", 2 >>, << "windowEnd", 4 >>},
     lot      |-> {<< "version", "1" >>},
     existing |-> {<< "lot", "L" >>}]

MaxFilled == 7  \* inputs of a form for an event that have a value

MaxGiven == 5   \* choices of a company or a product in a form for a lot

MaxAsked == 2   \* lists on their way for its lines

ofTheForm(F) == {f \in F : f.line = 0}

\* While a request is on its way, the person closes, opens and waits, and others may write.
mcDialogs(kind, kinds) ==
    /\ DOMAIN events = DOMAIN mcEvents
    /\ DialogsStep(mcTyped[kind])
    /\ dialog'.kind \in kinds
    /\ \/ NoPost \in {posted, posted'}
       \/ dialog' = dialog
       \/ dialog'.kind # dialog.kind
       \/ fetching' # fetching /\ fetching' \subseteq fetching

meddledInFlight ==
    /\ meddled' # meddled => posted # NoPost
    /\ posted = NoPost => meddled = 0

\* The type is chosen before what is particular to it.
mcEvent ==
    /\ mcDialogs("event", {"none", "event"})
    /\ meddledInFlight
    /\ dialog'.kind = "event" => Cardinality(DOMAIN dialog'.fields) <= MaxFilled
    /\ {dialog.kind, dialog'.kind} = {"event"} =>
          \/ dialog'.type = dialog.type
          \/ DOMAIN dialog.fields \subseteq {"requester", "version"} \cup DOMAIN proposed(dialog.defaults)

\* A form for a lot gets its own lists, then its environment, then its lines, each with
\* its version last; the second line, of a lot in prod, asks one thing at a time.
mcLot ==
    /\ mcDialogs("lot", {"none", "lot", "broken"})
    /\ meddledInFlight
    /\ Cardinality(given') <= MaxGiven
    /\ Cardinality(fetching' \ ofTheForm(fetching')) <= MaxAsked
    /\ \A f \in fetching' : f.line > 1 => fetching' = {f}
    /\ ofTheForm(fetching) # {} /\ dialog'.kind # "none" => ofTheForm(fetching \ fetching') # {}
    /\ {dialog.kind, dialog'.kind} = {"lot"} =>
          /\ dialog'.environment = dialog.environment \/ given = {}
          /\ dialog'.next > 2 => dialog'.environment \in {NoText, "prod"}
          /\ \A l \in ToSet(dialog'.lines) : l.version # NoText => l.service # NoText

mcExisting ==
    /\ mcDialogs("existing", {"none", "existing", "lot"})
    /\ dialog'.kind = "lot" => dialog' = lotForm /\ posted' = NoPost

\* Requests, jobs, attempts and syncs have the same names: one scene has but one of them.
symmetry == Permutations(Parents) \cup Permutations(Requests)

\* Nodes are interchangeable, so they are taken in order, and so are the displays of the first two.
nodesInOrder(f) ==
    {n \in Nodes : f[n].parent # Nowhere} \in {{}, {"n1"}, {"n1", "n2"}, {"n1", "n2", "n3"}}

MCInit ==
    /\ scene \in {"hierarchy", "environments", "tags", "login", "session", "directory", "visibility",
                  "event", "lot", "existing"}
    /\ HierarchyInit /\ Cardinality(there) <= IF scene = "hierarchy" THEN 2 ELSE 0
    /\ nodesInOrder(node) /\ ("n2" \in there => node["n1"].order <= node["n2"].order)
    /\ SettingsInit
    /\ scene # "tags" => tags = [v \in Events |-> << >>] /\ config = [s \in slugs |-> NoConfig]
    /\ AccessInit
    /\ scene # "directory" => directoryUser = [u \in Users |-> Nobody]
    /\ scene \in {"login", "session"} => people = [u \in Users |-> IF u = "ann" THEN {"admins"} ELSE Nobody]
    /\ scene \notin {"login", "session"} => people = [u \in Users |-> {}]
    /\ VisibilityInit
    /\ Cardinality(Flagged \ public) <= IF scene = "visibility" THEN 1 ELSE 0
    /\ feeds = Feeds
    /\ DialogsInit(mcEvents)

MCNext ==
    \/ /\ scene = "hierarchy"
       /\ HierarchyNext
       /\ nodesInOrder(node')
       /\ UNCHANGED << settingsVars, accessVars, visibilityVars, dialogVars, scene >>
    \/ /\ \/ scene = "environments" /\ environmentStep
          \/ scene = "tags" /\ tagStep
       /\ UNCHANGED << hierarchyVars, accessVars, visibilityVars, dialogVars, scene >>
    \/ /\ \/ scene = "login" /\ (loginStep \/ restart)
          \/ scene = "session" /\ (loginStep \/ directoryStep \/ restart) /\ attempts' <= 2
          \/ scene = "directory" /\ (syncStep \/ directoryStep \/ restart)
       /\ UNCHANGED << hierarchyVars, settingsVars, visibilityVars, dialogVars, scene >>
    \/ /\ scene = "visibility"
       /\ VisibilityNext
       /\ UNCHANGED << hierarchyVars, settingsVars, accessVars, dialogVars, scene >>
    \/ /\ \/ scene = "event" /\ mcEvent
          \/ scene = "lot" /\ mcLot
          \/ scene = "existing" /\ mcExisting
       /\ UNCHANGED << hierarchyVars, settingsVars, accessVars, visibilityVars, scene >>

\* Types, keys and unique slugs of the five modules.
AdministrationTypeOK ==
    /\ HierarchyTypeOK
    /\ SettingsTypeOK
    /\ AccessTypeOK
    /\ VisibilityTypeOK
    /\ DialogsTypeOK

MCSpec == MCInit /\ [][MCNext]_mcVars

\* Visitors alone, while administrators change what is public.
VisitorsSpec == MCInit /\ scene = "visibility" /\ [][MCNext]_mcVars
=============================================================================
