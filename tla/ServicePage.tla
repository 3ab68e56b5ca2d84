----------------------------- MODULE ServicePage -----------------------------
(***************************************************************************)
(* The page of a service in one browser, beside everybody else's work on   *)
(* its events: src/src/app/[company]/[product]/[service]/page.tsx,         *)
(* components/DetailPane.tsx, EventDrawer.tsx, DeployTimeline.tsx and      *)
(* their dialogs, lib/useAutoRefresh.ts and lib/useModalDismiss.ts.        *)
(*                                                                         *)
(* The page holds a copy of the events, replaced by refreshes; the drawer  *)
(* holds inputs, filled when it is mounted.  A save or a confirmed dialog  *)
(* is a request that EventRecords serves, as a session of its own, while   *)
(* the person goes on.  Left out: a second request queued behind one in    *)
(* flight, the forms for new events, errors' wording.                      *)
(***************************************************************************)
EXTENDS EventRecords, Reading

CONSTANTS Me,         \* the session of this page
          Service,    \* the one the page is about
          Masters,    \* main services of their products
          Workflow,   \* the order of environments in force for the service
          Public,     \* << type, environment >> that who has no session may see
          Typed,      \* what is typed or chosen: << input, value >>
          Filters     \* the filters that are set

\* A control for a date holds one or none, a list one of its own.
isInput(f, v) ==
    /\ f \in {"date", "end"} => v \in Nat
    /\ f = "status" => v \in IncidentStatuses

ASSUME PageAssumption ==
    /\ Me \in Sessions
    /\ Service \in Services
    /\ Masters \subseteq Services
    /\ \A t \in Typed : isInput(t[1], t[2])
    /\ Workflow \in Seq(ToSet(Workflow))

VARIABLES pane,   \* the state of the page
          known   \* history: << input, value >> the open drawer was filled with, or was given

pageVars == << recordVars, pane, known >>

Anonymous == {"anonymous"}

NoModal == [kind |-> "none"]

Free == [kind |-> "free", mounted |-> FALSE]

NoDraft == [none |-> NoText]

canWrite(roles) == roles \cap {"admin", "devops"} # {}

-----------------------------------------------------------------------------
\* page.tsx: what the server renders, of the rows R and their notes N.
newestOrder(q, R) ==
    \A m, n \in DOMAIN q : m < n => q[m] # q[n] /\ R[q[m]].occurredAt >= R[q[n]].occurredAt

newest(R, N, I) ==
    LET order == CHOOSE q \in [1..Cardinality(I) -> I] : newestOrder(q, R)
    IN  [n \in 1..Cardinality(I) |-> toClientEvent(order[n], R[order[n]], N[order[n]], clock)]

shownTo(roles, row) == roles = Anonymous => << row.type, row.environment >> \in Public

listServiceEvents(R, N, roles) ==
    newest(R, N, {i \in DOMAIN R : /\ R[i].type # NoText
                                   /\ R[i].service = Service
                                   /\ shownTo(roles, R[i])})

\* lib/deployLot.ts: of every service, and in whichever environments they are.
getLotMembers(R, N, lots) ==
    LET members == {i \in DOMAIN R : deployment(R[i]) /\ R[i].lot \in lots}
    IN  [key \in {lotKey(R[i]) : i \in members} |-> newest(R, N, {i \in members : lotKey(R[i]) = key})]

lotsOf(R, N, events) == getLotMembers(R, N, {e.lot : e \in ToSet(events)} \ {NoText})

ids(p) == {e.id : e \in ToSet(p.events)}

eventOf(p, i) == CHOOSE e \in ToSet(p.events) : e.id = i

\* The event whose drawer is open.
drawerOf(p) == IF p.selected \in ids(p) THEN p.selected ELSE NoText

shown == eventOf(pane, drawerOf(pane))

filledFrom(e) ==
    [tags |-> e.tags, date |-> e.occurredAt, hourType |-> e.hourType, lot |-> e.lot,
     changeType |-> orElse(e.changeType, "NORMAL"),
     status |-> orElse(e.incidentStatus, IF e.resolvedAt = NoDate THEN "INVESTIGATING" ELSE "RESOLVED"),
     end |-> e.resolvedAt]

filling(p) == IF drawerOf(p) = NoText THEN NoDraft ELSE filledFrom(eventOf(p, drawerOf(p)))

\* Mutant: the drawer has no key, and stays mounted from one event to another.
remountedUnkeyed(p, q) ==
    IF drawerOf(p) # NoText /\ drawerOf(q) # NoText THEN q
    ELSE [q EXCEPT !.draft = filling(q), !.modal = NoModal, !.sent.mounted = FALSE]

\* A PUT may have made another type of event of the one that is open: what is drawn of
\* a deployment and of any other event are two trees, with their own dialogs and inputs.
turned(p, q) ==
    /\ drawerOf(p) = drawerOf(q)
    /\ drawerOf(q) # NoText
    /\ deployment(eventOf(p, drawerOf(p))) # deployment(eventOf(q, drawerOf(q)))

ofTheTree == {"tags", "date", "hourType"}

\* The inputs that are filled as the page turns from p to q.
refilled(p, q) ==
    IF drawerOf(p) # drawerOf(q) THEN DOMAIN filling(q)
    ELSE IF turned(p, q) THEN ofTheTree ELSE {}

\* The drawer's key is the event: inputs and dialogs go with it.
remounted(p, q) ==
    IF drawerOf(p) = drawerOf(q) /\ ~turned(p, q) THEN q
    ELSE [q EXCEPT !.draft = [f \in DOMAIN filling(q) |->
                                IF f \in refilled(p, q) THEN filling(q)[f] ELSE q.draft[f]],
                   !.modal = NoModal, !.sent.mounted = FALSE]

opened(p, i) == remounted(p, [p EXCEPT !.selected = i])

\* A refresh brings new events; who came by a link to an event is taken to it again.
refreshed(p, R, N) ==
    LET events == listServiceEvents(R, N, p.roles)
        q == remounted(p, [p EXCEPT !.events = events, !.lots = lotsOf(R, N, events), !.at = clock])
    IN  IF p.linked \in ids(q) THEN opened(q, p.linked) ELSE q

becomes(q) ==
    /\ pane' = q
    /\ known' = (IF drawerOf(q) = drawerOf(pane) THEN known ELSE {})
                  \cup {<< f, filling(q)[f] >> : f \in refilled(pane, q)}

arrival(roles, linked, filter) ==
    refreshed([roles |-> roles, linked |-> linked, filter |-> filter, events |-> << >>,
               lots |-> << >>, at |-> clock, selected |-> NoText, draft |-> NoDraft,
               modal |-> NoModal, sent |-> Free], rows, notes)

\* The page is opened on rows that are there, whatever others are doing.
PageOpens(roles, linked, filter) ==
    /\ job[Me] = Idle
    /\ pane = arrival(roles, linked, filter)
    /\ known = {<< f, filling(pane)[f] >> : f \in DOMAIN filling(pane)}

PageInit(roles, linked, filter) == QuietInit /\ PageOpens(roles, linked, filter)

-----------------------------------------------------------------------------
here(q) == becomes(q) /\ UNCHANGED recordVars

\* useAutoRefresh: on an interval, on focus, when the tab is visible again.
refresh == here(refreshed(pane, rows, notes))

undisturbed == drawerOf(pane) = NoText

setFilter(f) == undisturbed /\ here([pane EXCEPT !.filter = f])

rowsShown ==
    {x.eventId : x \in ToSet(historyToShow(pane.events, pane.filter, pane.at))
                       \cup ToSet(maintenancesToShow(pane.events, pane.filter, pane.at))}

select(i) == undisturbed /\ i \in rowsShown /\ here(opened(pane, i))

\* The drawer leads to the phases of its event, or to the event of its phase.
linkedTo(e) ==
    CASE isPhase(e.changeType) -> parentEvent(pane.events, e)
      [] mayHavePhases(e)      -> phases(pane.events, e)
      [] OTHER                 -> {}

onOpenEvent(i) ==
    /\ ~undisturbed
    /\ pane.modal = NoModal
    /\ i \in {e.id : e \in linkedTo(shown)}
    /\ here(opened(pane, i))

\* By the cross, beside the panel, or by Escape, which the drawer hears even under a
\* dialog, and even while its request is on its way.
close == ~undisturbed /\ here(opened(pane, NoText))

-----------------------------------------------------------------------------
editable == ~undisturbed /\ canWrite(pane.roles) /\ pane.modal = NoModal

inputs(e) ==
    {"tags", "date"} \cup
    CASE deployment(e)        -> {"hourType", "lot"} \cup (IF isPhase(e.changeType) THEN {} ELSE {"changeType"})
      [] e.type = "INCIDENT"  -> {"status"} \cup (IF pane.draft.status = "RESOLVED" THEN {"end"} ELSE {})
      [] OTHER -> {}

entered(f, v) ==
    /\ editable
    /\ f \in inputs(shown)
    /\ known' = known \cup {<< f, v >>}

sentAtOnce == {"hourType", "changeType"}

enter(f, v) ==
    /\ f \notin sentAtOnce
    /\ entered(f, v)
    /\ pane' = [pane EXCEPT !.draft[f] = v]
    /\ UNCHANGED recordVars

\* updateIncidentAction(status, end): the end typed or now, and none unless RESOLVED.
toSave(op) ==
    IF op # "incident" THEN pane.draft[op]
    ELSE [status |-> pane.draft.status,
          resolvedAt |-> IF pane.draft.status # "RESOLVED" THEN NoDate
                         ELSE IF pane.draft.end = NoDate THEN clock ELSE pane.draft.end]

saving(op, v) ==
    [kind |-> "edit", op |-> op, id |-> drawerOf(pane), value |-> v, mounted |-> TRUE]

\* Which buttons are there and not disabled.
savable(op) ==
    CASE op = "tags"     -> pane.draft.tags # shown.tags
      [] op = "date"     -> pane.draft.date \notin {NoDate, shown.occurredAt}
      [] op = "lot"      -> deployment(shown)
      [] op = "incident" -> shown.type = "INCIDENT"

save(op) ==
    /\ editable
    /\ pane.sent = Free
    /\ savable(op)
    /\ editStep(Me, drawerOf(pane), op, toSave(op))
    /\ pane' = [pane EXCEPT !.sent = saving(op, toSave(op))]
    /\ UNCHANGED known

\* HourEdit and the type in the header: a choice is sent at once, unless the page shows
\* just that; the type may be chosen while an earlier choice is on its way.  It is
\* refused, and stays in the drawer, if the event is no deployment any more.
pickShown(f, v) ==
    /\ entered(f, v)
    /\ v = filledFrom(shown)[f]
    /\ f = "hourType" => pane.sent = Free
    /\ pane' = [pane EXCEPT !.draft[f] = v]
    /\ UNCHANGED recordVars

pickOther(f, v) ==
    /\ entered(f, v)
    /\ v # filledFrom(shown)[f]
    /\ pane.sent = Free
    /\ IF drawerOf(pane) \in deployments
       THEN /\ editStep(Me, drawerOf(pane), f, v)
            /\ pane' = [pane EXCEPT !.draft[f] = v, !.sent = saving(f, v)]
       ELSE /\ pane' = [pane EXCEPT !.draft[f] = v]
            /\ UNCHANGED recordVars

pick(f, v) == f \in sentAtOnce /\ (pickShown(f, v) \/ pickOther(f, v))

\* The answer: the page is refreshed, the tags are those saved, and the drawer that is
\* open is closed after an incident's, whichever it is.  A refused date changes nothing.
answer ==
    /\ pane.sent.kind = "edit"
    /\ job[Me] = Idle
    /\ LET sent == pane.sent
           p == [pane EXCEPT !.sent = Free]
           q == IF sent.op = "tags" /\ sent.mounted THEN [p EXCEPT !.draft.tags = sent.value] ELSE p
           r == refreshed(q, rows, notes)
       IN  \/ here(IF sent.op = "incident" THEN opened(r, NoText) ELSE r)
           \/ sent.op = "date" /\ here(p)

\* Comments: sent, inserted, and the page refreshed.
addEventComment ==
    /\ editable
    /\ pane.sent = Free
    /\ annotate(drawerOf(pane), "comment")
    /\ becomes(refreshed(pane, rows, notes'))

-----------------------------------------------------------------------------
(***************************************************************************)
(* The stepper and its dialogs.                                            *)
(***************************************************************************)
offered ==
    IF editable /\ deployment(shown)
    THEN {s \in Statuses : stepState(shown, s) = "next"}
    ELSE {}

ask(kind, to) ==
    here([pane EXCEPT !.modal = [kind |-> kind, to |-> to, from |-> statusOf(shown)]])

openMove(s) == s \in offered /\ ask("move", s)

openUndo == editable /\ deployment(shown) /\ hasPrevious(shown) /\ ask("undo", NoStatus)

openRollback == editable /\ deployment(shown) /\ ask("rollback", NoStatus)

cancel ==
    /\ pane.modal # NoModal
    /\ pane.sent = Free
    /\ here([pane EXCEPT !.modal = NoModal])

\* Mutant: the dialog sends what comes next now, not what it was opened for.
targetNow(modal) == IF modal.kind = "move" THEN nextStep(shown) ELSE modal.to

target(modal) == modal.to

confirm ==
    /\ pane.modal # NoModal
    /\ pane.sent = Free
    /\ pane' = [pane EXCEPT !.sent = [kind |-> pane.modal.kind, id |-> drawerOf(pane),
                                      to |-> target(pane.modal), from |-> pane.modal.from,
                                      mounted |-> TRUE]]
    /\ IF pane.modal.kind = "rollback"
       THEN createRollbackAction(Me, drawerOf(pane))
       ELSE UNCHANGED recordVars
    /\ UNCHANGED known

\* Its answer: the dialog goes, if it is still there, and the page is refreshed.
done(R, N) ==
    LET p == IF pane.sent.mounted THEN [pane EXCEPT !.modal = NoModal] ELSE pane
    IN  refreshed([p EXCEPT !.sent = Free], R, N)

allowed(sent) ==
    IF sent.kind = "move" THEN pane.roles \cap {"admin", roleGroup(sent.to)} # {}
    ELSE canWrite(pane.roles)

accepted(sent) ==
    /\ allowed(sent)
    /\ IF sent.kind = "move" THEN movable(sent.id, sent.to) ELSE undoable(sent.id)

\* transitionDeployStatusAction and undoDeployStatusAction, with their answer: refused,
\* the dialog stays with the error.
serve ==
    /\ pane.sent.kind \in {"move", "undo"}
    /\ IF accepted(pane.sent)
       THEN /\ IF pane.sent.kind = "move" THEN move(pane.sent.id, pane.sent.to) ELSE undo(pane.sent.id)
            /\ becomes(done(rows', notes'))
       ELSE here([pane EXCEPT !.sent = Free])

rollbackAnswered ==
    /\ pane.sent.kind = "rollback"
    /\ job[Me] = Idle
    /\ here(done(rows, notes))

-----------------------------------------------------------------------------
\* Everybody else, and what the server goes on doing for this page.
elsewhere(B, E) ==
    /\ RecordsStep(B, E)
    /\ job[Me] = Idle => job'[Me] = Idle
    /\ UNCHANGED << pane, known >>

PageStep(T, F) ==
    \/ refresh
    \/ \E f \in F : setFilter(f)
    \/ \E i \in live : select(i)
    \/ \E i \in live : onOpenEvent(i)
    \/ close
    \/ \E t \in T : enter(t[1], t[2])
    \/ \E t \in T : pick(t[1], t[2])
    \/ \E op \in {"tags", "date", "lot", "incident"} : save(op)
    \/ answer
    \/ \E t \in T : t[1] = "comment" /\ addEventComment
    \/ \E s \in Statuses : openMove(s)
    \/ openUndo
    \/ openRollback
    \/ cancel
    \/ confirm
    \/ serve
    \/ rollbackAnswered

PageNext == PageStep(Typed, Filters) \/ elsewhere(Bodies, Edits)

-----------------------------------------------------------------------------
PageTypeOK ==
    /\ pane.draft = NoDraft <=> drawerOf(pane) = NoText
    /\ pane.modal # NoModal => drawerOf(pane) # NoText /\ deployment(shown)
    /\ pane.sent.kind \in {"free", "edit", "move", "undo", "rollback"}
    /\ pane.sent.kind # "free" => pane.sent.id \in live
    /\ job[Me] # Idle => pane.sent.kind \in {"edit", "rollback"}

\* What is saved to an event is what its own drawer was filled with or was given, never
\* what was entered for the event that was open before it, whichever way the drawer went
\* from one to the other: a click, a link followed again by a refresh, a phase.
SavesAreOfThatEvent ==
    [][pane.sent.kind = "free" /\ pane'.sent.kind = "edit" =>
          LET v == pane'.sent.value
          IN  /\ pane'.sent.id = drawerOf(pane')
              /\ IF pane'.sent.op # "incident" THEN << pane'.sent.op, v >> \in known'
                 ELSE /\ << "status", v.status >> \in known'
                      /\ v.resolvedAt \in {NoDate, clock} \/ << "end", v.resolvedAt >> \in known'
      ]_pageVars

\* A move that is accepted is the one its dialog was opened for, from the status the
\* drawer showed then, whatever happened to the deployment and to the drawer meanwhile;
\* and one is refused only if the status is another by now, if there was none, if the
\* event is no deployment any more, or if the role is not there.
ConfirmedMoveIsShown ==
    [][pane.sent.kind = "move" /\ pane'.sent.kind = "free" =>
          LET sent == pane.sent
              at == statusOf(rows[sent.id])
          IN  IF rows'[sent.id] # rows[sent.id]
              THEN at = sent.from /\ rows'[sent.id].deployStatus = sent.to
              ELSE ~allowed(sent) \/ sent.id \notin deployments \/ at # sent.from \/ at = NoStatus
      ]_pageVars

-----------------------------------------------------------------------------
(***************************************************************************)
(* Readers of the same events do not contradict each other.                *)
(***************************************************************************)
scoped == scopedEvents(pane.events, pane.filter)

entries == [k \in DOMAIN scoped |-> timelineEntry(scoped, scoped[k], pane.at)]

everything == buildServiceTimeline(pane.events, pane.at)

rowsWarnLikeDrawers ==
    \A k \in DOMAIN scoped :
        /\ entries[k].warnPre => preWarn(pane.events, scoped[k])
        /\ preWarn(pane.events, scoped[k]) /\ preOf(pane.events, scoped[k]) \subseteq ToSet(scoped)
              => entries[k].warnPre /\ entrySeverity(entries[k]) # "none"

endedIsDerived ==
    \A k \in DOMAIN scoped :
        LET e == scoped[k]
        IN  /\ "status" \in DOMAIN e.derived => (entries[k].done <=> e.derived.status = "Complete")
            /\ "open" \in DOMAIN e.derived /\ ~e.derived.open => entries[k].done

metricsCountTheList ==
    LET dora == computeDora(pane.events, NoDate)
        timeline == everything
        history == timeline.history
        counters == timeline.counters
        within(m) == DOMAIN m.samples # {} =>
                        \E k, l \in DOMAIN m.samples : 2 * m.samples[k] <= m.median /\ m.median <= 2 * m.samples[l]
    IN  /\ dora.count = counters.deploy + counters.hotfix
        /\ dora.failures = Cardinality({m \in DOMAIN history : history[m].rolledBack})
        /\ within(dora.leadTime) /\ within(dora.mttr)

monthsKeepTheOrder ==
    LET history == everything.history
        groups == groupByMonth(history)
    IN  \E passed \in [1..(Len(groups) + 1) -> 0..Len(history)] :
            /\ passed[1] = 0 /\ passed[Len(groups) + 1] = Len(history)
            /\ \A g \in DOMAIN groups :
                  passed[g] < passed[g + 1] /\ groups[g].entries = SubSeq(history, passed[g] + 1, passed[g + 1])

topmostIsCurrent ==
    LET current == currentVersions(pane.events)
    IN  \A env \in DOMAIN current :
            \A e \in ToSet(pane.events) :
                deployment(e) /\ e.environment = env => e.occurredAt <= current[env].occurredAt

\* A release respects the workflow when it went through a prefix of it, in order; dates
\* that are equal are judged either way.
tracesFollowTheWorkflow ==
    \A version \in {d.version : d \in {e \in ToSet(pane.events) : deployment(e)}} \ {NoText} :
        LET steps == ToSet(traceRelease(pane.events, version, Workflow).steps)
            first(env) == {x.occurredAt : x \in steps \cap {y \in ToSet(pane.events) : y.environment = env}}
            reachedEnvs == {k \in DOMAIN Workflow : first(Workflow[k]) # {} /\ k = position(Workflow, Workflow[k])}
            prefix == \A k \in reachedEnvs : \A j \in 1..k : first(Workflow[j]) # {}
            day(k) == lowest(first(Workflow[k]))
        IN  /\ respected(pane.events, version, Workflow) =>
                  prefix /\ \A j, k \in reachedEnvs : j < k => day(j) <= day(k)
            /\ prefix /\ (\A j, k \in reachedEnvs : j < k => day(j) < day(k))
                  => respected(pane.events, version, Workflow)

\* A warning about a lot names members that stayed, of a lot whose main service went
\* back in that environment; with one main service, there always is one then.
lotsWarnOfTheirOwn ==
    LET warnings == lotRollbackWarnings(pane.lots, Masters)
    IN  \A key \in DOMAIN pane.lots :
            LET members == ToSet(pane.lots[key])
                main == {m \in members : m.service \in Masters}
                stayed == {m.service : m \in {n \in members \ main : n.rollbacks = {}}}
            IN  /\ key \in DOMAIN warnings => warnings[key] = stayed /\ \E m \in main : m.rollbacks # {}
                /\ Cardinality(main) = 1 /\ (\A m \in main : m.rollbacks # {}) /\ stayed # {}
                      => key \in DOMAIN warnings

\* The list, the drawer, the metrics and the lots tell one story of what the page holds:
\* a row warns when its drawer does (unless the filter hides the phase), what is over is
\* over for both, counters and metrics count the same deployments, months keep the order
\* of the list, the version in place is the topmost, a trace is judged by its dates, and
\* a lot warns of its own environment.
ReadersAgree ==
    /\ rowsWarnLikeDrawers
    /\ endedIsDerived
    /\ metricsCountTheList
    /\ monthsKeepTheOrder
    /\ topmostIsCurrent
    /\ tracesFollowTheWorkflow
    /\ lotsWarnOfTheirOwn
=============================================================================
