------------------------------- MODULE Dialogs -------------------------------
(***************************************************************************)
(* The dialogs of a service page that create: src/src/components/          *)
(* EventModal.tsx, EventForm.tsx, LotModal.tsx, LotForm.tsx, the part of   *)
(* DetailPane.tsx that opens them, and createEventAction, createLotAction, *)
(* createLotFromExistingAction of app/actions/events.ts.                   *)
(*                                                                         *)
(* A form fetches its lists when it is mounted and when a select changes; *)
(* answers come in any order, each with what the database holds then, and  *)
(* those of a form that is gone change nothing.  A submit is one request,  *)
(* served in one step (DeployStatus has its awaits), while the person goes *)
(* on.  Left out: a second request queued behind it, tags, links, zones,   *)
(* the 90 days and 300 rows of candidates, messages.                       *)
(***************************************************************************)
EXTENDS EventBody, SequencesExt

CONSTANTS Tree,       \* << company, product, service >> -> the service, as rows name it
          Here,       \* the path of the page
          Order,      \* the environments, in their order
          User,       \* the name in the session
          Ids,        \* the ids of events, as they are given: no request gets one that is not there
          Now,
          MaxLines,   \* lines that a form for a lot ever has
          MaxMeddling \* what others do meanwhile

ASSUME DialogsAssumption ==
    /\ Ids \in Seq({Ids[k] : k \in DOMAIN Ids})
    /\ \A j, k \in DOMAIN Ids : Ids[j] = Ids[k] => j = k

VARIABLES dialog,    \* the form that is open
          fetching,  \* its questions on their way
          posted,    \* the request of a form
          events,    \* id -> row
          active,    \* environments that are not deleted
          meddled,
          given      \* history: << line, company >>, << line, company, product >> chosen in this form

dialogVars == << dialog, fetching, posted, events, active, meddled, given >>

NoDialog == [kind |-> "none"]

Broken == [kind |-> "broken"]   \* an exception while rendering: the page is gone

NoPost == [op |-> "none"]

NoDefaults == [changeType |-> NoText, parentId |-> NoText, environment |-> NoText, date |-> NoDate]

noLists == [line \in {} |-> {}]

put(F, key, value) == onto([k \in {key} |-> value], F)

DialogsInit(E) ==
    /\ dialog = NoDialog
    /\ fetching = {}
    /\ posted = NoPost
    /\ events = E
    /\ active = ToSet(Order)
    /\ meddled = 0
    /\ given = {}

-----------------------------------------------------------------------------
(***************************************************************************)
(* Opening and closing.                                                    *)
(***************************************************************************)
asking(what) == [what |-> what, line |-> 0, path |-> << >>]

deployDefaults == [deployStatus |-> "SCHEDULED", scheduledAt |-> Now]

\* The date proposed for a phase is an hour before, or after, its parent's.
proposed(d) ==
    IF d = NoDefaults THEN deployDefaults
    ELSE onto([changeType |-> d.changeType, parentId |-> d.parentId,
               occurredAt |-> d.date + (IF d.changeType = "PRE_MEP" THEN -1 ELSE 1)], deployDefaults)

eventForm(d) ==
    [kind |-> "event", defaults |-> d, type |-> "DEPLOYMENT", envs |-> << >>,
     environment |-> orElse(d.environment, "PROD"), fields |-> proposed(d)]

emptyItem(n) ==
    [id |-> n, company |-> NoText, product |-> NoText, service |-> NoText, version |-> NoText]

lotForm ==
    [kind |-> "lot", envs |-> << >>, environment |-> NoText, companies |-> {},
     fields |-> onto([changeType |-> "NORMAL", lot |-> "LOT"], deployDefaults),
     lines |-> << emptyItem(1) >>, next |-> 2, products |-> noLists, services |-> noLists]

existingLot ==
    [kind |-> "existing", envs |-> << >>, environment |-> NoText,
     fields |-> [lot |-> NoText], cands |-> {}, sel |-> {}]

mount(form, questions) ==
    /\ dialog' = form
    /\ fetching' = {asking(what) : what \in questions}
    /\ given' = {}
    /\ UNCHANGED << posted, events, active, meddled >>

isMep(i) ==
    /\ events[i].type = "DEPLOYMENT"
    /\ events[i].service = Tree[Here]
    /\ events[i].changeType \in {"NORMAL", "HOTFIX"}

mepCandidates == {i \in DOMAIN events : isMep(i)}

openEvent == dialog = NoDialog /\ mount(eventForm(NoDefaults), {"environments", "me"})

openPhase(changeType, i) ==
    /\ dialog = NoDialog
    /\ i \in mepCandidates
    /\ mount(eventForm([changeType |-> changeType, parentId |-> i,
                        environment |-> events[i].environment, date |-> events[i].occurredAt]),
             {"environments", "me"})

newLot == mount(lotForm, {"companies", "environments", "me"})

openLot == dialog = NoDialog /\ newLot

tabExisting == dialog.kind = "lot" /\ mount(existingLot, {"environments"})

tabNew == dialog.kind = "existing" /\ newLot

dismiss == dialog # NoDialog /\ mount(NoDialog, {})

-----------------------------------------------------------------------------
(***************************************************************************)
(* Inputs.                                                                 *)
(***************************************************************************)
here(form) == dialog' = form /\ UNCHANGED << posted, events, active, meddled >>

changed(form) == here(form) /\ UNCHANGED << fetching, given >>

setType(type) ==
    /\ dialog.kind = "event"
    /\ type # dialog.type
    /\ changed([dialog EXCEPT !.type = type])

planned == IF text(dialog.fields, "deployStatus") = "SCHEDULED" THEN {"scheduledAt"} ELSE {}

inputsOf(type) ==
    CASE type = "DEPLOYMENT" ->
            {"version", "requester", "changeType", "deployStatus", "hourType", "occurredAt", "comment"}
            \cup planned
            \cup IF isPhase(text(dialog.fields, "changeType")) THEN {"parentId"} ELSE {}
      [] type = "INCIDENT"    -> {"incidentType", "incidentStatus", "startedAt", "resolvedAt", "comment"}
      [] type = "MAINTENANCE" -> {"windowStart", "windowEnd", "version"}

inputs ==
    CASE dialog.kind = "event"    -> inputsOf(dialog.type)
      [] dialog.kind = "lot"      -> {"requester", "changeType", "deployStatus", "lot", "occurredAt"} \cup planned
      [] dialog.kind = "existing" -> {"lot"}
      [] OTHER -> {}

choosable(f, v) ==
    /\ f = "parentId" => v \in mepCandidates \cup {NoText}
    /\ f = "changeType" => v \in IF dialog.kind = "lot" THEN {"NORMAL", "HOTFIX", "POSTMEP_SQL"}
                                 ELSE {"NORMAL", "HOTFIX", "PRE_MEP", "POST_MEP"}
    /\ f = "deployStatus" => v # "GO_CONFIRMED"

\* Back to SCHEDULED, a planned date that was cleared is now.
fill(f, v) ==
    /\ f \in inputs
    /\ choosable(f, v)
    /\ LET F == put(dialog.fields, f, v)
           replan == f = "deployStatus" /\ v = "SCHEDULED" /\ date(F, "scheduledAt") = NoDate
       IN  changed([dialog EXCEPT !.fields = IF replan THEN [F EXCEPT !["scheduledAt"] = Now] ELSE F])

\* Of a phase it is its parent's; of a lot of what exists, it says what may be ticked.
chooseEnvironment(e) ==
    /\ dialog.kind \in {"event", "lot", "existing"}
    /\ e # dialog.environment
    /\ e \in ToSet(dialog.envs) \cup IF dialog.kind = "existing" THEN {NoText} ELSE {}
    /\ CASE dialog.kind = "event" ->
                dialog.defaults = NoDefaults /\ changed([dialog EXCEPT !.environment = e])
         [] dialog.kind = "lot" -> changed([dialog EXCEPT !.environment = e])
         [] dialog.kind = "existing" ->
                /\ here([dialog EXCEPT !.environment = e, !.cands = {}, !.sel = {}])
                /\ fetching' = fetching \cup
                      IF e = NoText THEN {} ELSE {[what |-> "candidates", line |-> 0, path |-> << e >>]}
                /\ UNCHANGED given

toggle(i) ==
    /\ dialog.kind = "existing"
    /\ i \in dialog.cands
    /\ changed([dialog EXCEPT !.sel = IF i \in @ THEN @ \ {i} ELSE @ \cup {i}])

-----------------------------------------------------------------------------
(***************************************************************************)
(* The lines of a lot: each select empties those after it, and asks for    *)
(* the next list, which is kept under the id of the line.                  *)
(***************************************************************************)
line(k) == dialog.kind = "lot" /\ k \in DOMAIN dialog.lines

at(k) == dialog.lines[k].id

options(list, id) == IF id \in DOMAIN list THEN list[id] ELSE {}

addRow ==
    /\ dialog.kind = "lot"
    /\ dialog.next <= MaxLines
    /\ changed([dialog EXCEPT !.lines = Append(@, emptyItem(dialog.next)), !.next = @ + 1])

without(list, id) == [n \in DOMAIN list \ {id} |-> list[n]]

removeRow(k) ==
    /\ line(k)
    /\ Len(dialog.lines) > 1
    /\ changed([dialog EXCEPT !.lines = RemoveAt(@, k),
                              !.products = without(@, at(k)), !.services = without(@, at(k))])

fetch(what, id, path) ==
    /\ fetching' = fetching \cup {[what |-> what, line |-> id, path |-> path]}
    /\ given' = given \cup {<< id >> \o path}

onCompanyChange(k, c) ==
    /\ line(k)
    /\ c \in dialog.companies \ {dialog.lines[k].company}
    /\ here([dialog EXCEPT !.lines[k] = [@ EXCEPT !.company = c, !.product = NoText, !.service = NoText],
                           !.products = put(@, at(k), {}), !.services = put(@, at(k), {})])
    /\ fetch("products", at(k), << c >>)

onProductChange(k, p) ==
    /\ line(k)
    /\ dialog.lines[k].company # NoText
    /\ p \in options(dialog.products, at(k)) \ {dialog.lines[k].product}
    /\ here([dialog EXCEPT !.lines[k] = [@ EXCEPT !.product = p, !.service = NoText],
                           !.services = put(@, at(k), {})])
    /\ fetch("services", at(k), << dialog.lines[k].company, p >>)

setService(k, s) ==
    /\ line(k)
    /\ dialog.lines[k].product # NoText
    /\ s \in options(dialog.services, at(k)) \ {dialog.lines[k].service}
    /\ changed([dialog EXCEPT !.lines[k] = [@ EXCEPT !.service = s]])

setVersion(k, v) ==
    /\ line(k)
    /\ v # dialog.lines[k].version
    /\ changed([dialog EXCEPT !.lines[k] = [@ EXCEPT !.version = v]])

-----------------------------------------------------------------------------
(***************************************************************************)
(* Answers.                                                                *)
(***************************************************************************)
companies == {p[1] : p \in DOMAIN Tree}

productsOf(path) == {p[2] : p \in {q \in DOMAIN Tree : q[1] = path[1]}}

servicesOf(path) == {p[3] : p \in {q \in DOMAIN Tree : << q[1], q[2] >> = path}}

lotSize(e, l) == Cardinality({i \in DOMAIN events : events[i].environment = e /\ events[i].lot = l})

companyOf(service) == {p[1] : p \in {q \in DOMAIN Tree : Tree[q] = service}}

\* Deployments of the company there whose lot is empty or their own.
listLotCandidates(e) ==
    {i \in DOMAIN events :
        LET r == events[i]
        IN  /\ r.type = "DEPLOYMENT"
            /\ r.environment = e
            /\ Here[1] \in companyOf(r.service)
            /\ r.lot = NoText \/ lotSize(e, r.lot) <= 1}

\* The form for an event had PROD and may not offer it; the one for a lot had none.
withEnvironments(form) ==
    LET offered == SelectSeq(Order, LAMBDA e : e \in active)
        unset == CASE form.kind = "event" -> form.defaults = NoDefaults /\ form.environment \notin active
                   [] form.kind = "lot"   -> form.environment = NoText
                   [] OTHER               -> FALSE
    IN  [form EXCEPT !.envs = offered,
                     !.environment = IF unset /\ offered # << >> THEN Head(offered) ELSE @]

withRequester(form) ==
    IF text(form.fields, "requester") # NoText THEN form
    ELSE [form EXCEPT !.fields = put(@, "requester", User)]

withProducts(form, f) == [form EXCEPT !.products = put(@, f.line, productsOf(f.path))]

\* There is no list for a product that is not of that company: the answer is an error,
\* and a line that is there is rendered from it.
withServices(form, f) ==
    LET S == servicesOf(f.path)
    IN  IF S # {} THEN [form EXCEPT !.services = put(@, f.line, S)]
        ELSE IF f.line \in {form.lines[k].id : k \in DOMAIN form.lines} THEN Broken ELSE form

landed(form, f) ==
    CASE f.what = "environments" -> withEnvironments(form)
      [] f.what = "me"           -> withRequester(form)
      [] f.what = "companies"    -> [form EXCEPT !.companies = companies]
      [] f.what = "products"     -> withProducts(form, f)
      [] f.what = "services"     -> withServices(form, f)
      [] f.what = "candidates"   -> [form EXCEPT !.cands = listLotCandidates(f.path[1])]

arrive(f) ==
    /\ f \in fetching
    /\ here(landed(dialog, f))
    /\ fetching' = IF dialog' = Broken THEN {} ELSE fetching \ {f}
    /\ UNCHANGED given

-----------------------------------------------------------------------------
(***************************************************************************)
(* Submits.                                                                *)
(***************************************************************************)
entered(keys) ==
    LET F == dialog.fields
    IN  [k \in {c \in keys \cap DOMAIN F : filled(F, c)} |-> F[k]]

\* Blank inputs are absent, hidden ones are not: a parent stays when the type is no longer
\* a phase.
bodyOf(form) ==
    onto([service |-> Tree[Here], environment |-> form.environment],
    CASE form.type = "DEPLOYMENT" ->
            onto(entered({"version", "requester", "changeType", "deployStatus", "hourType", "occurredAt",
                          "comment", "parentId"} \cup planned),
                 [changeType |-> "NORMAL", deployStatus |-> "SCHEDULED"])
      [] form.type = "INCIDENT" ->
            onto(entered({"incidentType", "incidentStatus", "startedAt", "resolvedAt", "comment"}),
                 [incidentStatus |-> "INVESTIGATING"])
      [] form.type = "MAINTENANCE" -> entered({"windowStart", "windowEnd", "version"}))

\* The bounds of a phase's date input, which the browser checks: the parent's date is in.
withinBounds(form) ==
    LET d == date(form.fields, "occurredAt")
    IN  form.type = "DEPLOYMENT" /\ d # NoDate =>
            CASE form.defaults.changeType = "PRE_MEP"  -> d <= form.defaults.date
              [] form.defaults.changeType = "POST_MEP" -> d >= form.defaults.date
              [] OTHER -> TRUE

\* Which state of the page a dialog hangs on: an answer sets it, whatever hangs there now.
flagOf(form) ==
    CASE form.kind = "event" -> IF form.defaults = NoDefaults THEN "modal" ELSE "phaseDefaults"
      [] form.kind \in {"lot", "existing"} -> "lotModal"
      [] OTHER -> form.kind

post(request) ==
    /\ posted = NoPost
    /\ posted' = onto(request, [flag |-> flagOf(dialog)])
    /\ UNCHANGED << dialog, fetching, events, active, meddled, given >>

submitEvent ==
    /\ dialog.kind = "event"
    /\ withinBounds(dialog)
    /\ post([op |-> "event", type |-> dialog.type, body |-> bodyOf(dialog)])

complete(l) == NoText \notin {l.company, l.product, l.service, l.version}

\* Lines that are not complete are left out, and nobody is told.
submitLot ==
    /\ dialog.kind = "lot"
    /\ dialog.environment # NoText
    /\ LET valid == SelectSeq(dialog.lines, complete)
       IN  /\ valid # << >>
           /\ post([op |-> "lot", items |-> valid,
                    common |-> onto([environment |-> dialog.environment],
                               entered({"requester", "changeType", "deployStatus", "lot", "occurredAt"} \cup planned))])

submitExisting ==
    /\ dialog.kind = "existing"
    /\ dialog.fields.lot # NoText
    /\ dialog.sel # {}
    /\ post([op |-> "existing", ids |-> dialog.sel, lot |-> dialog.fields.lot])

-----------------------------------------------------------------------------
(***************************************************************************)
(* What the server makes of them.                                          *)
(***************************************************************************)
known(path) == path \in DOMAIN Tree

lotBody(common, item) ==
    onto([service |-> Tree[<< item.company, item.product, item.service >>], version |-> item.version], common)

accepts(common, item) ==
    /\ known(<< item.company, item.product, item.service >>)
    /\ validateDeploymentBody(lotBody(common, item))

\* createLotAction: every row is validated before the first is written.
lotRows(q) ==
    IF \A k \in 1..Len(q.items) : accepts(q.common, q.items[k])
    THEN [k \in 1..Len(q.items) |-> newRow("DEPLOYMENT", lotBody(q.common, q.items[k]), Now)]
    ELSE << >>

\* createEventAction: a phase goes where its parent is, on its side of it.
phaseOf(q) == q.type = "DEPLOYMENT" /\ isPhase(q.body.changeType)

parentOf(q) == events[q.body.parentId]

\* Mutant: the date of the parent itself will do.
onItsSideOrThere(q) ==
    LET when == occurredAt("DEPLOYMENT", q.body, Now)
    IN  IF q.body.changeType = "PRE_MEP" THEN when <= parentOf(q).occurredAt
        ELSE when >= parentOf(q).occurredAt

onItsSide(q) ==
    LET when == occurredAt("DEPLOYMENT", q.body, Now)
    IN  IF q.body.changeType = "PRE_MEP" THEN when < parentOf(q).occurredAt
        ELSE when > parentOf(q).occurredAt

inherited(q) ==
    IF phaseOf(q) THEN put(q.body, "environment", parentOf(q).environment) ELSE q.body

eventRows(q) ==
    IF /\ validBody(q.type, q.body)
       /\ phaseOf(q) => onItsSide(q)
    THEN << newRow(q.type, inherited(q), Now) >>
    ELSE << >>

created(q) ==
    LET R == IF q.op = "lot" THEN lotRows(q) ELSE eventRows(q)
    IN  IF \A r \in ToSet(R) : r.environment \in active THEN R ELSE << >>

assignLot(q) ==
    [i \in DOMAIN events |-> IF i \in q.ids /\ events[i].type = "DEPLOYMENT"
                             THEN [events[i] EXCEPT !.lot = q.lot] ELSE events[i]]

nextIds(n) == LET used == Cardinality(DOMAIN events) IN [k \in 1..n |-> Ids[used + k]]

with(R) == LET id == nextIds(Len(R))
           IN  onto(events, [i \in ToSet(id) |-> R[CHOOSE k \in DOMAIN id : id[k] = i]])

\* Accepted, the dialog that hangs on the flag goes; refused, the form stays.
served ==
    IF flagOf(dialog) = posted.flag
    THEN dialog' = NoDialog /\ fetching' = {} /\ given' = {}
    ELSE UNCHANGED << dialog, fetching, given >>

serve ==
    /\ posted # NoPost
    /\ posted' = NoPost
    /\ IF posted.op = "existing" THEN events' = assignLot(posted) /\ served
       ELSE LET R == created(posted)
            IN  /\ Cardinality(DOMAIN events) + Len(R) <= Len(Ids)
                /\ events' = with(R)
                /\ IF R # << >> THEN served ELSE UNCHANGED << dialog, fetching, given >>
    /\ UNCHANGED << active, meddled >>

\* Meanwhile: an environment is deleted, somebody writes a lot on a deployment.
other ==
    /\ meddled < MaxMeddling
    /\ meddled' = meddled + 1
    /\ UNCHANGED << dialog, fetching, posted, given >>

closeEnvironment(e) ==
    /\ e \in active
    /\ other
    /\ active' = active \ {e}
    /\ UNCHANGED events

setLot(i, l) ==
    /\ events[i].type = "DEPLOYMENT"
    /\ l # events[i].lot
    /\ other
    /\ events' = [events EXCEPT ![i].lot = l]
    /\ UNCHANGED active

-----------------------------------------------------------------------------
Numbers == 1..MaxLines

\* What people enter (<< input, value >>) is little.
DialogsStep(Typed) ==
    \/ openEvent
    \/ \E t \in PhaseTypes, i \in DOMAIN events : openPhase(t, i)
    \/ openLot
    \/ tabExisting
    \/ tabNew
    \/ dismiss
    \/ \E t \in EventTypes : setType(t)
    \/ \E t \in Typed : fill(t[1], t[2])
    \/ \E e \in ToSet(Order) \cup {NoText} : chooseEnvironment(e)
    \/ \E i \in DOMAIN events : toggle(i)
    \/ addRow
    \/ \E k \in Numbers : removeRow(k)
    \/ \E k \in Numbers, c \in companies : onCompanyChange(k, c)
    \/ \E k \in Numbers, path \in DOMAIN Tree : onProductChange(k, path[2])
    \/ \E k \in Numbers, path \in DOMAIN Tree : setService(k, path[3])
    \/ \E k \in Numbers, t \in Typed : t[1] = "version" /\ setVersion(k, t[2])
    \/ \E f \in fetching : arrive(f)
    \/ submitEvent
    \/ submitLot
    \/ submitExisting
    \/ serve
    \/ \E e \in ToSet(Order) : closeEnvironment(e)
    \/ \E i \in DOMAIN events, t \in Typed : t[1] = "lot" /\ setLot(i, t[2])

\* Ids of lines are never used twice, and a list that a line shows answers a choice of
\* that very line, whichever lines went meanwhile.
DialogsTypeOK ==
    /\ dialog.kind \in {"none", "broken", "event", "lot", "existing"}
    /\ dialog.kind \in {"none", "broken"} => fetching = {}
    /\ dialog.kind = "lot" =>
          /\ IsInjective([k \in DOMAIN dialog.lines |-> at(k)])
          /\ \A k \in DOMAIN dialog.lines :
                LET P == options(dialog.products, at(k))
                    S == options(dialog.services, at(k))
                IN  /\ P # {} => \E g \in given : Len(g) = 2 /\ g[1] = at(k) /\ productsOf(<< g[2] >>) = P
                    /\ S # {} => \E g \in given : Len(g) = 3 /\ g[1] = at(k) /\ servicesOf(<< g[2], g[3] >>) = S

-----------------------------------------------------------------------------
rowsOf(I) == {<< events'[i].service, events'[i].version >> : i \in I}

wholeLot(q, new) ==
    /\ Cardinality(new) = Len(q.items)
    /\ rowsOf(new) = {<< Tree[<< q.items[k].company, q.items[k].product, q.items[k].service >>],
                          q.items[k].version >> : k \in 1..Len(q.items)}
    /\ \A i, j \in new : events'[i].environment = events'[j].environment
    /\ "lot" \in DOMAIN q.common => \A i \in new : events'[i].lot = q.common.lot

phasesStandBesideTheirParents(new) ==
    \A i \in new :
        LET r == events'[i]
        IN  isPhase(r.changeType) =>
                /\ r.parentId \in DOMAIN events
                /\ r.environment = events[r.parentId].environment
                /\ IF r.changeType = "PRE_MEP" THEN r.occurredAt < events[r.parentId].occurredAt
                   ELSE r.occurredAt > events[r.parentId].occurredAt

\* What a form's request writes, it writes whole or not at all, whatever lists came late,
\* whichever environment is gone and whoever wrote meanwhile: a lot has one deployment
\* for each complete line, of the service that line names, in one environment that is
\* still there; a phase stands in its parent's environment, on its side; a lot of what
\* exists changes the lot of what was ticked, and nothing else.
FormsWriteWhole ==
    [][posted # NoPost /\ posted' = NoPost /\ events' # events =>
          LET new == DOMAIN events' \ DOMAIN events
              old == {i \in DOMAIN events : events'[i] # events[i]}
          IN  IF posted.op = "existing"
              THEN new = {} /\ old \subseteq posted.ids /\ \A i \in old : events'[i] = [events[i] EXCEPT !.lot = posted.lot]
              ELSE /\ old = {}
                   /\ \A i \in new : events'[i].environment \in active
                   /\ posted.op = "lot" => wholeLot(posted, new)
                   /\ phasesStandBesideTheirParents(new)
      ]_dialogVars
=============================================================================
