---------------------------- MODULE DeployStatus ----------------------------
(***************************************************************************)
(* The life of deployments in the database: requests create them, sessions *)
(* advance and undo their status, one-click links and the cron advance     *)
(* them, PUT rewrites those that have an externalId.  A request reads the  *)
(* row, decides, and commits later with a compare-and-set on deployStatus; *)
(* any other request may run in between, and the server may restart.       *)
(*                                                                         *)
(* src/src/lib/events.ts, app/actions/events.ts, lib/ingest.ts,            *)
(* lib/scheduledPromote.ts, lib/actionToken.ts, lib/actionTokenUse.ts,     *)
(* app/api/go/[token]/route.ts and the minting of lib/hooks/dispatch.ts.   *)
(***************************************************************************)
EXTENDS DeployWorkflow, FiniteSets

CONSTANTS Deployments,    \* identifiers of the rows of Event
          ApiKeyed,       \* those with an externalId
          Requests,       \* request handlers running at once
          Crons,          \* runs of promote-scheduled at once
          Tokens,         \* jti values of one-click links
          Roles,          \* roles held by sessions
          FirstStatuses,  \* statuses that bodies carry
          MaxRows,        \* bound: rows of a trail after which sessions stop
          MaxEmits,       \* bound: notifications of a deployment in flight
          MaxRestarts     \* bound: restarts of the server

ASSUME DataAssumption ==
    /\ ApiKeyed \subseteq Deployments
    /\ Requests \cap Crons = {}
    /\ NoToken \notin Tokens
    /\ "none" \notin Deployments
    /\ Roles \subseteq {"admin", "devops", "qa", "viewer"}
    /\ FirstStatuses \subseteq Statuses

ASSUME BoundAssumption ==
    /\ MaxRows \in Nat
    /\ MaxEmits \in Nat
    /\ MaxRestarts \in Nat

VARIABLES event,    \* event[d]: the row of Event
          history,  \* history[d]: its rows of StatusTransition
          job,      \* job[p]: what the handler p has read and will write
          todo,     \* todo[c]: deployments the cron run c has still to promote
          emitted,  \* emitted[d]: dispatches of d not yet run
          link,     \* link[t]: the claim of the link t
          used,     \* ActionTokenUse
          audited,  \* links with an ok row "deploy.one_click" in AuditLog
          restarts

vars == << event, history, job, todo, emitted, link, used, audited, restarts >>

-----------------------------------------------------------------------------
Processes == Requests \cup Crons

\* scheduledAt against the cutoff now + scheduledLeadMinutes
Schedules == {"none", "later", "due"}

EventRow == [type : {"absent", "DEPLOYMENT", "INCIDENT"},
             status : StatusOrNone, sched : Schedules]

absentRow == [type |-> "absent", status |-> NoStatus, sched |-> "none"]

deploymentRow(s, sched) == [type |-> "DEPLOYMENT", status |-> s, sched |-> sched]

Actors == {"admin", "devops", "qa", "viewer", "creation", "lien", "scheduler"}

Entry == [from : StatusOrNone, to : Statuses, by : Actors, comment : BOOLEAN,
          jti : Tokens \cup {NoToken}]

(***************************************************************************)
(* A handler between two of its awaits.                                    *)
(*   "created": Event inserted, its first StatusTransition not yet         *)
(*   "clicked": the link is consumed, the deployment not yet read          *)
(*   "read"   : the row read and the move found legal, nothing written     *)
(*   "audit"  : a click went through, its audit row and hooks still to come*)
(***************************************************************************)
NoJob == [pc |-> "idle"]

Job == {NoJob} \cup [pc : {"created", "clicked", "read", "audit"},
                     ev : Deployments, row : Entry]

at(p, pc) == job[p].pc = pc

claim(d, to) == [ev |-> d, to |-> to]

NoLink == [ev |-> "none"]

Init ==
    /\ event \in [Deployments -> {absentRow}
                     \cup {deploymentRow(s, "none") : s \in FirstStatuses \cup {NoStatus}}]
    /\ history = [d \in Deployments |-> << >>]
    /\ job = [p \in Processes |-> NoJob]
    /\ todo = [c \in Crons |-> {}]
    /\ emitted = [d \in Deployments |-> 0]
    /\ link = [t \in Tokens |-> NoLink]
    /\ used = {}
    /\ audited = {}
    /\ restarts = 0

-----------------------------------------------------------------------------
\* emitHooks: the dispatch starts now and reads the event some time later.
emit(D) ==
    emitted' = [d \in Deployments |->
                   IF d \in D /\ emitted[d] < MaxEmits THEN emitted[d] + 1
                                                       ELSE emitted[d]]

\* validateDeploymentBody: a SCHEDULED deployment has a date.
validBody(s, sched) == s = "SCHEDULED" => sched # "none"

\* POST, server action or ingest, without a transaction: the event first ...
createEvent(p, d, s, sched) ==
    /\ at(p, "idle")
    /\ event[d] = absentRow
    /\ validBody(s, sched)
    /\ event' = [event EXCEPT ![d] = deploymentRow(s, sched)]
    /\ job' = [job EXCEPT ![p] = [pc |-> "created", ev |-> d, row |-> creationEntry(s)]]
    /\ UNCHANGED << history, todo, emitted, link, used, audited, restarts >>

\* ... then its first row of history, then the hooks.
recordCreation(p) ==
    /\ at(p, "created")
    /\ history' = [history EXCEPT ![job[p].ev] = Append(@, job[p].row)]
    /\ job' = [job EXCEPT ![p] = NoJob]
    /\ emit({job[p].ev})
    /\ UNCHANGED << event, todo, link, used, audited, restarts >>

\* createLotAction: every event and its first row in one transaction.
createLot(p, D, s, sched) ==
    /\ at(p, "idle")
    /\ D # {}
    /\ \A d \in D : event[d] = absentRow /\ d \notin ApiKeyed
    /\ validBody(s, sched)
    /\ event' = [d \in Deployments |->
                    IF d \in D THEN deploymentRow(s, sched) ELSE event[d]]
    /\ history' = [d \in Deployments |->
                    IF d \in D THEN << creationEntry(s) >> ELSE history[d]]
    /\ emit(D)
    /\ UNCHANGED << job, todo, link, used, audited, restarts >>

\* PUT /deployments/{externalId}: one statement creates or rewrites the row.
upsertDeployment(p, d, s, sched) ==
    /\ at(p, "idle")
    /\ d \in ApiKeyed
    /\ Len(history[d]) < MaxRows
    /\ validBody(s, sched)
    /\ event' = [event EXCEPT ![d] = deploymentRow(s, sched)]
    /\ emit({d})
    /\ UNCHANGED << history, job, todo, link, used, audited, restarts >>

\* PUT /incidents/{externalId} under the same identifier: the deployment's
\* own columns stay as they were.
upsertIncident(p, d) ==
    /\ at(p, "idle")
    /\ d \in ApiKeyed
    /\ event' = [event EXCEPT ![d].type = "INCIDENT"]
    /\ emit({d})
    /\ UNCHANGED << history, job, todo, link, used, audited, restarts >>

-----------------------------------------------------------------------------
\* The read half of transitionDeployStatus: it answers null, throws
\* DeployTransitionError, or goes on to write.
\* Mutant: an illegal move answers null instead of throwing.
noLegalDeployment(d, to) ==
    event[d].type # "DEPLOYMENT" \/ ~legal(event[d].status, to)

noDeployment(d, to) == event[d].type # "DEPLOYMENT"

refused(d, to) == event[d].type = "DEPLOYMENT" /\ ~legal(event[d].status, to)

readRow(p, d, to, by, comment, jti) ==
    /\ event[d].type = "DEPLOYMENT"
    /\ legal(event[d].status, to)
    /\ job' = [job EXCEPT ![p] =
                  [pc |-> "read", ev |-> d,
                   row |-> entry(event[d].status, to, by, comment, jti)]]

\* Mutant: any role with a group of its own may move anything.
mayTransitionAny(role, to) == role \in {"admin", "devops", "qa"}

mayTransition(role, to) == role = "admin" \/ role = roleGroup(to)

transitionDeployStatusAction(p, d, to, role, comment) ==
    /\ at(p, "idle")
    /\ Len(history[d]) < MaxRows
    /\ mayTransition(role, to)
    /\ commentRequired(to) => comment
    /\ readRow(p, d, to, role, comment, NoToken)
    /\ UNCHANGED << event, history, todo, emitted, link, used, audited, restarts >>

\* The read half of undoDeployStatus, behind its action's checks.
undoDeployStatusAction(p, d, role) ==
    /\ at(p, "idle")
    /\ Len(history[d]) < MaxRows
    /\ role \in {"admin", "devops"}
    /\ event[d].type = "DEPLOYMENT"
    /\ event[d].status # NoStatus
    /\ previousStatus(event[d].status) # NoStatus
    /\ job' = [job EXCEPT ![p] =
                  [pc |-> "read", ev |-> d,
                   row |-> entry(event[d].status, previousStatus(event[d].status),
                                 role, TRUE, NoToken)]]
    /\ UNCHANGED << event, history, todo, emitted, link, used, audited, restarts >>

\* Mutant: the update does not compare.
stillThereBlind(d, from) == TRUE

stillThere(d, from) == event[d].status = from

\* The transaction both end in: updateMany where deployStatus = from, and the
\* row.  When somebody else moved first the count is 0 and nothing is written.
commit(p) ==
    /\ at(p, "read")
    /\ LET d == job[p].ev
           won == stillThere(d, job[p].row.from)
           clicked == job[p].row.by = "lien"
       IN  /\ event' = IF won THEN [event EXCEPT ![d].status = job[p].row.to] ELSE event
           /\ history' = IF won THEN [history EXCEPT ![d] = Append(@, job[p].row)]
                                ELSE history
           /\ job' = [job EXCEPT ![p] = IF won /\ clicked THEN [@ EXCEPT !.pc = "audit"]
                                                          ELSE NoJob]
           /\ emit(IF won /\ ~clicked THEN {d} ELSE {})
    /\ UNCHANGED << todo, link, used, audited, restarts >>

-----------------------------------------------------------------------------
\* Mutant: a link is minted whatever the status.
hasNextAlways(d) == event[d].type = "DEPLOYMENT" /\ event[d].status # NoStatus

hasNext(d) ==
    /\ event[d].type = "DEPLOYMENT"
    /\ event[d].status # NoStatus
    /\ nextStatus(event[d].status) # NoStatus

\* dispatchHooks mints a link for the status that follows the current one.
\* A link nobody will open is as good as none.
dispatchHooks(d, t) ==
    /\ emitted[d] > 0
    /\ link[t] = NoLink
    /\ hasNext(d)
    /\ link' = [link EXCEPT ![t] = claim(d, nextStatus(event[d].status))]
    /\ emitted' = [emitted EXCEPT ![d] = @ - 1]
    /\ UNCHANGED << event, history, job, todo, used, audited, restarts >>

dispatchUnread(d) ==
    /\ emitted[d] > 0
    /\ emitted' = [emitted EXCEPT ![d] = @ - 1]
    /\ UNCHANGED << event, history, job, todo, link, used, audited, restarts >>

\* Mutant: the jti is not unique.
neverSpent(t) == TRUE

unspent(t) == t \notin used

\* POST /api/go/[token]: the insert of the jti is the lock.  A link that has
\* expired, or that was spent, is refused and nothing is written.
consumeActionToken(p, t) ==
    /\ at(p, "idle")
    /\ link[t] # NoLink
    /\ unspent(t)
    /\ used' = used \cup {t}
    /\ job' = [job EXCEPT ![p] =
                  [pc |-> "clicked", ev |-> link[t].ev,
                   row |-> entry(NoStatus, link[t].to, "lien", FALSE, t)]]
    /\ UNCHANGED << event, history, todo, emitted, link, audited, restarts >>

\* transitionDeployStatus answers null for what is no longer a deployment, and
\* the route takes that for success.
confirmGo(p) ==
    /\ at(p, "clicked")
    /\ LET d == job[p].ev
           row == job[p].row
       IN  \/ readRow(p, d, row.to, "lien", FALSE, row.jti)
           \/ /\ noDeployment(d, row.to)
              /\ job' = [job EXCEPT ![p].pc = "audit"]
           \/ /\ refused(d, row.to)
              /\ job' = [job EXCEPT ![p] = NoJob]
    /\ UNCHANGED << event, history, todo, emitted, link, used, audited, restarts >>

auditClick(p) ==
    /\ at(p, "audit")
    /\ audited' = audited \cup {job[p].row.jti}
    /\ emit({job[p].ev})
    /\ job' = [job EXCEPT ![p] = NoJob]
    /\ UNCHANGED << event, history, todo, link, used, restarts >>

-----------------------------------------------------------------------------
\* Mutant: the query forgets the date.
isDueAnyDate(d) ==
    event[d].type = "DEPLOYMENT" /\ event[d].status = "GO_CONFIRMED"

\* Mutant: the query looks for the status before the GO.
isDueUnconfirmed(d) ==
    event[d].type = "DEPLOYMENT" /\ event[d].status = "SCHEDULED" /\ event[d].sched = "due"

isDue(d) ==
    /\ event[d].type = "DEPLOYMENT"
    /\ event[d].status = "GO_CONFIRMED"
    /\ event[d].sched = "due"

\* promoteScheduledDeployments: one query lists the due deployments ...
promoteScheduledDeployments(c) ==
    /\ at(c, "idle")
    /\ todo[c] = {}
    /\ todo' = [todo EXCEPT ![c] = {d \in Deployments : isDue(d)}]
    /\ UNCHANGED << event, history, job, emitted, link, used, audited, restarts >>

\* ... and each is then read again; one that moved meanwhile is skipped, one
\* that is no deployment any more counts as promoted.
promoteNext(c, d) ==
    /\ at(c, "idle")
    /\ d \in todo[c]
    /\ todo' = [todo EXCEPT ![c] = @ \ {d}]
    /\ \/ /\ readRow(c, d, "PENDING", "scheduler", FALSE, NoToken)
          /\ emit({})
       \/ /\ noDeployment(d, "PENDING")
          /\ emit({d})
          /\ job' = job
       \/ /\ refused(d, "PENDING")
          /\ emit({})
          /\ job' = job
    /\ UNCHANGED << event, history, link, used, audited, restarts >>

\* Time passes: the date of a deployment comes within the lead window.
comesDue(d) ==
    /\ event[d].sched = "later"
    /\ event' = [event EXCEPT ![d].sched = "due"]
    /\ UNCHANGED << history, job, todo, emitted, link, used, audited, restarts >>

\* The process dies with everything it had in memory.
restart ==
    /\ restarts < MaxRestarts
    /\ restarts' = restarts + 1
    /\ job' = [p \in Processes |-> NoJob]
    /\ todo' = [c \in Crons |-> {}]
    /\ emitted' = [d \in Deployments |-> 0]
    /\ UNCHANGED << event, history, link, used, audited >>

-----------------------------------------------------------------------------
creation(p) ==
    \/ \E s \in FirstStatuses, sched \in Schedules :
          \/ \E d \in Deployments : createEvent(p, d, s, sched)
          \/ \E D \in SUBSET Deployments : createLot(p, D, s, sched)
          \/ \E d \in ApiKeyed : upsertDeployment(p, d, s, sched)
    \/ \E d \in ApiKeyed : upsertIncident(p, d)
    \/ recordCreation(p)

session(p) ==
    \E d \in Deployments, role \in Roles :
        \/ \E to \in Statuses, comment \in BOOLEAN :
              transitionDeployStatusAction(p, d, to, role, comment)
        \/ undoDeployStatusAction(p, d, role)

click(p) ==
    \/ \E t \in Tokens : consumeActionToken(p, t)
    \/ confirmGo(p)
    \/ auditClick(p)

promotion(c) ==
    \/ promoteScheduledDeployments(c)
    \/ \E d \in Deployments : promoteNext(c, d)
    \/ commit(c)

Next ==
    \/ \E p \in Requests : creation(p) \/ session(p) \/ click(p) \/ commit(p)
    \/ \E c \in Crons : promotion(c)
    \/ \E d \in Deployments :
          comesDue(d) \/ dispatchUnread(d) \/ \E t \in Tokens : dispatchHooks(d, t)
    \/ restart

Spec == Init /\ [][Next]_vars

\* The cron is run again and again, and a run that started goes on until it
\* ends or the server restarts.  Nothing obliges people to act.
Fairness == \A c \in Crons : WF_vars(promotion(c))

FairSpec == Spec /\ Fairness

-----------------------------------------------------------------------------
TypeOK ==
    /\ event \in [Deployments -> EventRow]
    /\ history \in [Deployments -> Seq(Entry)]
    /\ job \in [Processes -> Job]
    /\ todo \in [Crons -> SUBSET Deployments]
    /\ emitted \in [Deployments -> Nat]
    /\ link \in [Tokens -> {NoLink} \cup [ev : Deployments, to : Statuses]]
    /\ used \subseteq Tokens
    /\ audited \subseteq Tokens
    /\ restarts \in Nat

-----------------------------------------------------------------------------
(***************************************************************************)
(* Properties.                                                             *)
(***************************************************************************)
statusOf(row) == IF row.type = "absent" THEN "absent" ELSE row.status

Trail == INSTANCE StatusTrail
            WITH st <- [d \in Deployments |-> statusOf(event[d])], trail <- history

\* The handlers, interleaved and restarted anyhow, implement a register with a
\* log: every change of a status is one atomic step that appends its own row,
\* one notch away and by somebody entitled to it, and nothing is ever recorded
\* that did not happen (transitionDeployStatus: "append a StatusTransition row
\* and update Event.deployStatus, atomically").
ImplementsTrail == Trail!TrailSpec

\* The rows of a deployment no PUT can reach tell its life: each move starts
\* where the previous one ended, the last ends at its present status, and the
\* row of its creation, even when other requests moved it before that row was
\* written, is unique and names the status the first move left.
HistoryIsTrail ==
    \A d \in Deployments \ ApiKeyed :
        /\ Trail!Chained(history[d])
        /\ Trail!EndsAt(history[d], event[d].status)
        /\ Trail!Entered(history[d], event[d].status)

\* A one-click link causes at most one move, of the deployment and to the
\* status it was minted for, and is spent by then, however many clicks race.
LinkMovesOnce ==
    \A d, e \in Deployments : \A i \in DOMAIN history[d], j \in DOMAIN history[e] :
        LET t == history[d][i].jti
        IN  t # NoToken =>
               /\ t \in used
               /\ link[t] = claim(d, history[d][i].to)
               /\ t = history[e][j].jti => d = e /\ i = j

\* An ok row "deploy.one_click" in the audit log is a move that did take place.
AuditedClickMoved ==
    \A t \in audited :
        link[t].ev \notin ApiKeyed => \E i \in DOMAIN history[link[t].ev] :
                                         history[link[t].ev][i].jti = t

\* The cron moves a deployment only out of GO_CONFIRMED and only when its date
\* is within the lead window, however long after the query it gets to it.
PromotedWhenDue ==
    [][\A d \in Deployments \ ApiKeyed, c \in Crons :
          (event'[d].status # event[d].status /\ at(c, "read") /\ job[c].ev = d
             /\ job'[c] # job[c])
             => event[d].status = "GO_CONFIRMED" /\ event[d].sched = "due"]_vars

\* A confirmed deployment whose date has come does not wait for ever.
awaitsPromotion(d, s) == event[d] = deploymentRow(s, "due")

DueIsPromoted ==
    \A d \in Deployments :
        awaitsPromotion(d, "GO_CONFIRMED") ~> ~awaitsPromotion(d, "GO_CONFIRMED")

\* What README.md says of a planned deployment created SCHEDULED.
ScheduledIsPromoted ==
    \A d \in Deployments :
        awaitsPromotion(d, "SCHEDULED") ~> ~awaitsPromotion(d, "SCHEDULED")

\* What README.md and deployWorkflow.ts say of the move to VALIDATE.
ValidateHasComment ==
    \A d \in Deployments : \A i \in DOMAIN history[d] :
        LET row == history[d][i]
        IN  row.from = "TESTING" /\ row.to = "VALIDATE" => row.comment

=============================================================================
