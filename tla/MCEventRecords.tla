---------------------------- MODULE MCEventRecords ----------------------------
(***************************************************************************)
(* TLC instances of EventRecords, alone or under the page of a service, and *)
(* of HookDispatch.  A scene fixes what requests carry and what sessions    *)
(* ask for, so that each is small.                                         *)
(*   phases, sheets, rollbacks: the records; phases around a deployment, a *)
(*       workbook that goes out and comes back, rollbacks                  *)
(*   editing, dating, moving: a page at work, on rows others write too     *)
(*   turning: a page at work on an event that becomes one of another type  *)
(*   reading: a page over many histories                                   *)
(*   hooks: notifications, two hooks, of three kinds                       *)
(*   targets: notifications whose hooks share a target                     *)
(***************************************************************************)
EXTENDS ServicePage, HookDispatch

VARIABLE scene

Named(x) == [service |-> "svc", environment |-> "prod", externalId |-> x]

Deploy(version, status) ==
    [service |-> "svc", environment |-> "prod", version |-> version, requester |-> "ana",
     changeType |-> "NORMAL", deployStatus |-> status]

Phase(changeType, at) ==
    [service |-> "svc", environment |-> "qual", requester |-> "ana", changeType |-> changeType,
     parentId |-> "e1", comment |-> "why", occurredAt |-> at]

Incident == [incidentType |-> "DOWN", startedAt |-> 2] @@ Named("i1")

Maintenance == [windowStart |-> 1, windowEnd |-> 2] @@ Named("m1")

via(how, type, B) == {<< how, type, b >> : b \in B}

BodiesOf ==
    [phases    |-> via("session", "DEPLOYMENT",
                       {[occurredAt |-> 2] @@ Deploy("1", "PENDING"), Phase("PRE_MEP", 1),
                        Phase("PRE_MEP", 3)})
                   \cup via("put", "DEPLOYMENT", {[externalId |-> "x1", occurredAt |-> 1] @@ Deploy("2", "TESTING")}),
     sheets    |-> via("post", "INCIDENT", {Incident, [resolvedAt |-> 1, tags |-> {"db"}, externalId |-> "i2"] @@ Incident})
                   \cup via("post", "MAINTENANCE", {Maintenance})
                   \cup via("post", "DEPLOYMENT",
                            {[scheduledAt |-> 2, hourType |-> "HO"] @@ Deploy("1", "SCHEDULED"),
                             [environment |-> "prod"] @@ Phase("PRE_MEP", 1), Phase("POST_MEP", 3)})
                   \cup via("sheet", "DEPLOYMENT", {Deploy("1", "TESTING")}),
     rollbacks |-> via("post", "DEPLOYMENT",
                       {[occurredAt |-> 1] @@ Deploy(v, "DEPLOYED") : v \in {"1", "2"}}
                       \cup {[occurredAt |-> 2] @@ Deploy("2", "DEPLOYED")}
                       \cup {[occurredAt |-> 1, externalId |-> "i1"] @@ Deploy("1", "DEPLOYED")})
                   \cup via("put", "INCIDENT", {[Incident EXCEPT !.startedAt = 1]})
                   \cup via("ingest", "DEPLOYMENT", {[version |-> "3"]})]

EditsOf ==
    [phases    |-> {"date"} \X {1, 3} \cup {<< "changeType", "HOTFIX" >>, << "annotate", "qa" >>},
     sheets    |-> {"incident"} \X {[status |-> "RESOLVED", resolvedAt |-> NoDate],
                                    [status |-> "RESOLVED", resolvedAt |-> 1, startedAt |-> 1],
                                    [status |-> "MONITORING", resolvedAt |-> NoDate]}
                   \cup {<< "tags", {"db", NoText} >>, << "lot", NoText >>, << "date", 1 >>,
                         << "move", "GO_CONFIRMED" >>, << "undo", NoText >>,
                         << "hourType", "HNO" >>, << "comment", "c" >>}
                   \cup {"export"} \X {EventTypes, {"DEPLOYMENT"}},
     rollbacks |-> {<< "date", 2 >>, << "rollback", NoText >>},
     editing   |-> {<< "lot", "L3" >>, << "changeType", "HOTFIX" >>},
     dating    |-> {<< "date", 1 >>},
     moving    |-> {<< "undo", NoText >>} \cup {"move"} \X {"GO_CONFIRMED", "TESTING", "VALIDATE"},
     turning   |-> {},
     reading   |-> {}]

RecordScenes == DOMAIN BodiesOf

\* What a PUT makes of the event of a page.
turns == via("put", "INCIDENT", {Incident})
         \cup via("put", "DEPLOYMENT", {[externalId |-> "i1", tags |-> {"api"}] @@ Deploy("1", "TESTING")})

everyBody == UNION {BodiesOf[x] : x \in DOMAIN BodiesOf} \cup turns

everyEdit == UNION {EditsOf[x] : x \in DOMAIN EditsOf}

\* The bounds of the records alone: two sessions, two rows, of two annotations each, and
\* one edit.
within ==
    /\ Cardinality(live') <= 2
    /\ \A i \in live' : Cardinality(notes'[i]) <= 2
    /\ edits' <= 1
    /\ job'[Me] = Idle

threeIds == << "e1", "e2", "e3" >>

ci == {[scope |-> "SERVICE", service |-> "svc", services |-> {"svc"}, defaultEnvironment |-> "prod"]}

testThenProd == << "test", "prod" >>

published == {<< "DEPLOYMENT", "prod" >>, << "MAINTENANCE", "prod" >>}

everyday == [envs |-> ActiveEnvs, tags |-> {}, hourType |-> NoText, from |-> NoDate, to |-> NoDate,
             active |-> FILTER_KEYS]

filterSettings ==
    {everyday, [everyday EXCEPT !.envs = {"test"}], [everyday EXCEPT !.from = 2],
     [everyday EXCEPT !.active = @ \ {"PRE"}], [everyday EXCEPT !.tags = {"db"}]}

TypedOf ==
    [editing |-> {<< "lot", "L2" >>, << "hourType", "HO" >>, << "status", "RESOLVED" >>, << "end", 2 >>},
     dating  |-> {<< "date", 2 >>, << "tags", {"db"} >>},
     moving  |-> {<< "comment", NoText >>},
     turning |-> {<< "tags", {"db"} >>, << "hourType", "HO" >>, << "status", "RESOLVED" >>},
     reading |-> {}]

everyTyped == UNION {TypedOf[x] : x \in DOMAIN TypedOf}

-----------------------------------------------------------------------------
\* The rows of the page's scenes: e1, e2 and e3, or fewer.
event(type, b) == newRow(type, b, 1)

written(r1, r2, r3) ==
    /\ rows = ("e1" :> r1 @@ "e2" :> r2 @@ "e3" :> r3)
    /\ notes = [i \in DOMAIN rows |-> {}]

pre == event("DEPLOYMENT", [occurredAt |-> 1, environment |-> "prod"] @@ Phase("PRE_MEP", 1))

EditingInit ==
    /\ written(event("DEPLOYMENT", [lot |-> "L1", occurredAt |-> 2] @@ Deploy("1", "PENDING")), pre,
               event("INCIDENT", Incident))
    /\ \E linked \in {NoText, "e1"} :
          /\ scene = "dating" => linked = "e1"
          /\ PageInit({"devops"}, linked, everyday)

MovingInit ==
    /\ \E s \in {NoText, "SCHEDULED", "DEPLOYED", "TESTING"} :
          written([event("DEPLOYMENT", Deploy("1", "PENDING")) EXCEPT !.deployStatus = s],
                  emptyRow, emptyRow)
    /\ \E roles \in {{"admin"}, {"devops"}, {"qa", "devops"}} : PageInit(roles, "e1", everyday)

\* An event that a PUT may turn.
TurningInit ==
    /\ written(event("DEPLOYMENT", [externalId |-> "i1"] @@ Deploy("1", "PENDING")), emptyRow, emptyRow)
    /\ PageInit({"devops"}, "e1", everyday)

\* e1: the deployment of a release; e2: its phase, its deployment elsewhere, or another
\* event; e3: a member of its lot, of the main service.
FirstRows ==
    {event("DEPLOYMENT", [occurredAt |-> 2, changeType |-> x[1], lot |-> "L1", tags |-> {"db"}] @@ Deploy("1", x[2])) :
        x \in {"NORMAL"} \X {"GO_CONFIRMED", "PENDING", "DEPLOYED"} \cup {<< "HOTFIX", "PENDING" >>}}

SecondRows ==
    {[pre EXCEPT !.deployStatus = s] : s \in {"PENDING", "VALIDATE"}}
    \cup {event("DEPLOYMENT", [environment |-> "test", occurredAt |-> at] @@ Deploy("1", "DEPLOYED")) : at \in 1..3}
    \cup {event("MAINTENANCE", Maintenance), event("MAINTENANCE", [windowEnd |-> 1] @@ Maintenance)}
    \cup {event("INCIDENT", b @@ Incident) :
            b \in {[incidentStatus |-> "RESOLVED"], [resolvedAt |-> 3], [startedAt |-> 1]}}

ThirdRows ==
    {emptyRow}
    \cup {event("DEPLOYMENT", [service |-> "api", environment |-> env, lot |-> "L1", occurredAt |-> 1]
                                @@ Deploy("1", "DEPLOYED")) : env \in {"prod", "test"}}
    \cup {event("DEPLOYMENT", [occurredAt |-> 3] @@ Deploy("2", "DEPLOYED"))}

rollbackAt(at) == [kind |-> "rollback", to |-> NoText, at |-> at]

statusAt(s, at) == [kind |-> "status", to |-> s, at |-> at]

Histories == {{}, {statusAt("IN_PROGRESS", 2), statusAt("DEPLOYED", 3)}, {statusAt("DEPLOYED", 2), rollbackAt(3)}}

ReadingInit ==
    /\ \E r1 \in FirstRows, r2 \in SecondRows, r3 \in ThirdRows :
          rows = ("e1" :> r1 @@ "e2" :> r2 @@ "e3" :> r3)
    /\ \E h \in Histories, k \in {{}, {rollbackAt(2)}} :
          notes = ("e1" :> h @@ "e2" :> {} @@ "e3" :> (IF rows["e3"].type = NoText THEN {} ELSE k))
    /\ \E roles \in {{"qa"}, Anonymous} : PageInit(roles, NoText, everyday)

-----------------------------------------------------------------------------
all == [events |-> Kinds, transitions |-> {}, target |-> Inline, enabled |-> TRUE]

shared == [all EXCEPT !.target = "t1"]

aimed == [events |-> {"deploy.status_changed", "deploy.created"},
          transitions |-> { << "DEPLOYED", "TESTING" >> }, target |-> Inline, enabled |-> TRUE]

disabled == [all EXCEPT !.enabled = FALSE]

EverySubscription == {all, shared, aimed, disabled}

\* The bounds of the notifications: no two hooks subscribe to the same; in the scene
\* "hooks" one of two dispatches is a status_changed, in the scene "targets" there is
\* one dispatch, and the hooks differ in their target.
unlike ==
    /\ \A g, h \in Hooks : hook'[g].live /\ hook'[h].live /\ g # h => hook'[g].sub # hook'[h].sub
    /\ Len(dispatch') = MaxDispatches =>
          \E i \in DOMAIN dispatch' : dispatch'[i].kind = "deploy.status_changed"
    /\ scene = "hooks" => targetRow' = targetRow
    /\ scene = "targets" =>
          /\ Len(dispatch') <= 1
          /\ \A h \in Hooks : hook'[h].live => hook'[h].sub \in {all, shared}

HookScenes == {"hooks", "targets"}

NoRecords == rows = << >> /\ notes = << >> /\ QuietInit

MCInit ==
    /\ HookInit
    /\ scene \in RecordScenes \cup DOMAIN TypedOf \cup HookScenes
    /\ CASE scene = "editing" -> EditingInit
         [] scene = "dating"  -> EditingInit
         [] scene = "moving"  -> MovingInit
         [] scene = "turning" -> TurningInit
         [] scene = "reading" -> ReadingInit
         [] OTHER             -> /\ IF scene \in HookScenes THEN NoRecords ELSE RecordsInit
                                 /\ pane = arrival(Anonymous, NoText, everyday)
                                 /\ known = {}

recordsStep ==
    /\ scene \in RecordScenes
    /\ RecordsStep(BodiesOf[scene], EditsOf[scene])
    /\ within
    /\ UNCHANGED << pane, known >>

pageStep ==
    /\ scene \in DOMAIN TypedOf
    /\ \/ PageStep(TypedOf[scene], IF scene = "reading" THEN filterSettings ELSE {})
       \/ elsewhere(IF scene = "turning" THEN turns ELSE {}, EditsOf[scene])
    /\ scene \in {"editing", "moving", "turning"} => clock' = clock
    /\ scene = "reading" => pane'.selected = NoText /\ (clock' = 1 \/ pane'.filter = everyday)
    /\ scene \in {"editing", "dating"} => pane'.modal = NoModal

MCNext ==
    /\ \/ (recordsStep \/ pageStep) /\ UNCHANGED hookVars
       \/ scene \in HookScenes /\ HookNext /\ unlike /\ UNCHANGED pageVars
    /\ UNCHANGED scene

mcVars == << pageVars, hookVars, scene >>

MCSpec == MCInit /\ [][MCNext]_mcVars

Interchangeable == Permutations(Hooks)

\* Every part has its types.
TypesOK == RecordsTypeOK /\ PageTypeOK /\ HookTypeOK
=============================================================================
