------------------------- MODULE DeployStatusProofs -------------------------
(***************************************************************************)
(* Theorems about DeployStatus, for every set of deployments, handlers,    *)
(* cron runs and links, and every value of the bounds.                     *)
(***************************************************************************)
EXTENDS DeployStatus, TLAPS

(***************************************************************************)
(* The workflow order.                                                     *)
(***************************************************************************)
LEMMA IndexOf ==
    ASSUME NEW s \in Statuses
    PROVE  indexOf(s) \in 1..7 /\ DEPLOY_ORDER[indexOf(s)] = s
<1>1. PICK i \in 1..7 : DEPLOY_ORDER[i] = s
  BY DEF Statuses
<1>2. QED
  BY <1>1 DEF indexOf

LEMMA StepTypes ==
    ASSUME NEW s \in Statuses
    PROVE  nextStatus(s) \in StatusOrNone /\ previousStatus(s) \in StatusOrNone
<1>1. indexOf(s) \in 1..7
  BY IndexOf
<1>2. \A i \in 1..7 : DEPLOY_ORDER[i] \in Statuses
  BY DEF Statuses
<1>3. nextStatus(s) \in StatusOrNone
  BY <1>1, <1>2 DEF nextStatus, StatusOrNone
<1>4. previousStatus(s) \in StatusOrNone
  BY <1>1, <1>2 DEF previousStatus, StatusOrNone
<1>5. QED
  BY <1>3, <1>4

LEMMA NoStatusIsNone == NoStatus \notin Statuses
  BY DEF NoStatus, Statuses, DEPLOY_ORDER

(***************************************************************************)
(* Type correctness.                                                       *)
(***************************************************************************)
LEMMA EntryTypes ==
    /\ \A from \in StatusOrNone, to \in Statuses, by \in Actors, comment \in BOOLEAN,
          jti \in Tokens \cup {NoToken} : entry(from, to, by, comment, jti) \in Entry
    /\ \A s \in Statuses : creationEntry(s) \in Entry
BY NoStatusIsNone DEF Entry, entry, creationEntry, Actors, StatusOrNone

LEMMA RowTypes ==
    /\ absentRow \in EventRow
    /\ \A s \in StatusOrNone, sched \in Schedules : deploymentRow(s, sched) \in EventRow
BY DEF absentRow, deploymentRow, EventRow, StatusOrNone, Schedules

LEMMA EmitType ==
    ASSUME emitted \in [Deployments -> Nat], NEW D, emit(D)
    PROVE  emitted' \in [Deployments -> Nat]
BY BoundAssumption DEF emit

\* A handler that is not idle holds a deployment and an entry.
LEMMA JobShape ==
    ASSUME job \in [Processes -> Job], NEW p \in Processes, ~at(p, "idle")
    PROVE  /\ job[p] \in [pc : {"created", "clicked", "read", "audit"},
                          ev : Deployments, row : Entry]
           /\ job[p].ev \in Deployments
           /\ job[p].row \in Entry
BY DEF at, Job, NoJob

LEMMA InitType == Init => TypeOK
<1>1. SUFFICES ASSUME Init PROVE TypeOK
  OBVIOUS
<1>2. event \in [Deployments -> EventRow]
  <2>1. FirstStatuses \cup {NoStatus} \subseteq StatusOrNone
    BY DataAssumption DEF StatusOrNone
  <2>2. {absentRow} \cup {deploymentRow(s, "none") : s \in FirstStatuses \cup {NoStatus}}
           \subseteq EventRow
    BY <2>1, RowTypes DEF Schedules
  <2>3. QED
    BY <1>1, <2>2 DEF Init
<1>3. QED
  BY <1>1, <1>2 DEF Init, TypeOK, Job

(***************************************************************************)
(* The inductive invariant.  What a handler holds between two awaits says  *)
(* enough about the database to make the write it is about to do safe.     *)
(***************************************************************************)
busy(p) == ~at(p, "idle")

\* What the entry of a busy handler looks like, by the point it is at.
JobsKnowTheirMove ==
    \A p \in Processes : busy(p) =>
        LET row == job[p].row
        IN  /\ row.by = "lien" <=> row.jti # NoToken
            /\ job[p].pc \in {"clicked", "audit"} => row.by = "lien"
            /\ at(p, "created") => row = creationEntry(row.to)
            /\ at(p, "read") => Trail!ForwardEntry(row) \/ Trail!BackwardEntry(row)

\* Nothing refers to a deployment that does not exist, and only a PUT makes
\* an incident of one.
AbsentIsUnknown ==
    \A d \in Deployments :
        /\ event[d].type = "absent" =>
              /\ history[d] = << >>
              /\ \A p \in Processes : busy(p) => job[p].ev # d
              /\ \A t \in Tokens : link[t].ev # d
              /\ \A c \in Crons : d \notin todo[c]
        /\ d \notin ApiKeyed => event[d].type # "INCIDENT"

\* A link in use was minted for the move its handler makes, is spent, and has
\* one handler; until that handler has committed, no row bears it.
LinksHaveOneHolder ==
    \A p \in Processes : busy(p) /\ job[p].row.jti # NoToken =>
        LET t == job[p].row.jti
        IN  /\ t \in used
            /\ link[t] = claim(job[p].ev, job[p].row.to)
            /\ \A q \in Processes : busy(q) /\ job[q].row.jti = t => p = q
            /\ ~at(p, "audit") =>
                  \A d \in Deployments : \A i \in DOMAIN history[d] : history[d][i].jti # t

moved(t) == \E i \in DOMAIN history[link[t].ev] : history[link[t].ev][i].jti = t

\* A spent link has been minted, and a click on its way to the audit log has
\* moved its deployment.
SpentIsMinted ==
    /\ \A t \in used : link[t] # NoLink
    /\ audited \subseteq used
    /\ \A p \in Processes : at(p, "audit") /\ job[p].ev \notin ApiKeyed => moved(job[p].row.jti)

\* The creation row that a handler has still to write will find a trail of
\* moves that started from the status it names.
CreationIsOrigin ==
    \A p \in Processes : at(p, "created") /\ job[p].ev \notin ApiKeyed =>
        LET d == job[p].ev
        IN  /\ Trail!moves(history[d]) = DOMAIN history[d]
            /\ Trail!HasOrigin(history[d], event[d].status, job[p].row.to)
            /\ event[d].status # NoStatus
            /\ \A q \in Processes : at(q, "created") /\ job[q].ev = d => p = q

\* What the cron has listed, or read, stays due.
ListedIsDue ==
    \A c \in Crons, d \in Deployments \ ApiKeyed :
        /\ d \in todo[c] => event[d].sched = "due" /\ event[d].status # NoStatus
        /\ at(c, "read") /\ job[c].ev = d =>
              event[d].sched = "due" /\ job[c].row.from = "GO_CONFIRMED"

\* A deployment without a status has no row yet.
NullIsUntold ==
    \A d \in Deployments \ ApiKeyed : event[d].status = NoStatus => history[d] = << >>

IInv ==
    /\ TypeOK
    /\ JobsKnowTheirMove
    /\ AbsentIsUnknown
    /\ LinksHaveOneHolder
    /\ SpentIsMinted
    /\ LinkMovesOnce
    /\ AuditedClickMoved
    /\ CreationIsOrigin
    /\ NullIsUntold
    /\ HistoryIsTrail
    /\ ListedIsDue

\* Every handler that reads a row holds a well-formed entry afterwards.
LEMMA ReadRowType ==
    ASSUME TypeOK, NEW p \in Processes, NEW d \in Deployments, NEW to \in Statuses,
           NEW by \in Actors, NEW comment \in BOOLEAN, NEW jti \in Tokens \cup {NoToken},
           readRow(p, d, to, by, comment, jti)
    PROVE  job' \in [Processes -> Job]
<1>1. event[d].status \in StatusOrNone
  BY DEF TypeOK, EventRow
<1>2. entry(event[d].status, to, by, comment, jti) \in Entry
  BY <1>1, EntryTypes
<1>3. QED
  BY <1>2 DEF readRow, TypeOK, Job

LEMMA StepType == TypeOK /\ JobsKnowTheirMove /\ [Next]_vars => TypeOK'
<1> SUFFICES ASSUME TypeOK, JobsKnowTheirMove, [Next]_vars PROVE TypeOK'
  OBVIOUS
<1> USE DEF TypeOK
<1>1. ASSUME NEW p \in Requests, creation(p) PROVE TypeOK'
  <2>1. ASSUME NEW s \in FirstStatuses, NEW sched \in Schedules, NEW d \in Deployments,
               createEvent(p, d, s, sched)
        PROVE  TypeOK'
    <3>1. s \in Statuses
      BY DataAssumption
    <3>2. deploymentRow(s, sched) \in EventRow /\ creationEntry(s) \in Entry
      BY <3>1, RowTypes, EntryTypes DEF StatusOrNone
    <3>3. QED
      BY <2>1, <3>2 DEF createEvent, Job, Processes
  <2>2. ASSUME NEW s \in FirstStatuses, NEW sched \in Schedules, NEW D \in SUBSET Deployments,
               createLot(p, D, s, sched)
        PROVE  TypeOK'
    <3>1. s \in Statuses
      BY DataAssumption
    <3>2. deploymentRow(s, sched) \in EventRow /\ creationEntry(s) \in Entry
      BY <3>1, RowTypes, EntryTypes DEF StatusOrNone
    <3>3. emitted' \in [Deployments -> Nat]
      BY <2>2, EmitType DEF createLot
    <3>4. << creationEntry(s) >> \in Seq(Entry)
      BY <3>2
    <3>5. history' \in [Deployments -> Seq(Entry)] /\ event' \in [Deployments -> EventRow]
      BY <2>2, <3>2, <3>4 DEF createLot
    <3>6. QED
      BY <2>2, <3>3, <3>5 DEF createLot
  <2>3. ASSUME NEW s \in FirstStatuses, NEW sched \in Schedules, NEW d \in ApiKeyed,
               upsertDeployment(p, d, s, sched)
        PROVE  TypeOK'
    <3>1. deploymentRow(s, sched) \in EventRow
      BY DataAssumption, RowTypes DEF StatusOrNone
    <3>2. emitted' \in [Deployments -> Nat]
      BY <2>3, EmitType DEF upsertDeployment
    <3>3. QED
      BY <2>3, <3>1, <3>2 DEF upsertDeployment
  <2>4. ASSUME NEW d \in ApiKeyed, upsertIncident(p, d) PROVE TypeOK'
    <3>1. d \in Deployments
      BY DataAssumption
    <3>2. event' \in [Deployments -> EventRow]
      BY <2>4, <3>1 DEF upsertIncident, EventRow
    <3>3. emitted' \in [Deployments -> Nat]
      BY <2>4, EmitType DEF upsertIncident
    <3>4. QED
      BY <2>4, <3>2, <3>3 DEF upsertIncident
  <2>5. ASSUME recordCreation(p) PROVE TypeOK'
    <3>1. job[p].ev \in Deployments /\ job[p].row \in Entry
      BY <2>5, JobShape DEF recordCreation, at, Processes
    <3>2. emitted' \in [Deployments -> Nat]
      BY <2>5, EmitType DEF recordCreation
    <3>3. history' \in [Deployments -> Seq(Entry)]
      BY <2>5, <3>1 DEF recordCreation
    <3>4. QED
      BY <2>5, <3>2, <3>3 DEF recordCreation, Job
  <2>6. QED
    BY <1>1, <2>1, <2>2, <2>3, <2>4, <2>5 DEF creation
<1>2. ASSUME NEW p \in Requests, session(p) PROVE TypeOK'
  <2>1. ASSUME NEW d \in Deployments, NEW role \in Roles, NEW to \in Statuses,
               NEW comment \in BOOLEAN, transitionDeployStatusAction(p, d, to, role, comment)
        PROVE  TypeOK'
    <3>1. role \in Actors /\ p \in Processes
      BY DataAssumption DEF Actors, Processes
    <3>2. job' \in [Processes -> Job]
      BY <2>1, <3>1, ReadRowType DEF transitionDeployStatusAction
    <3>3. QED
      BY <2>1, <3>2 DEF transitionDeployStatusAction
  <2>2. ASSUME NEW d \in Deployments, NEW role \in Roles, undoDeployStatusAction(p, d, role)
        PROVE  TypeOK'
    <3> DEFINE row == entry(event[d].status, previousStatus(event[d].status), role, TRUE, NoToken)
    <3>1. event[d].status \in Statuses
      BY <2>2 DEF undoDeployStatusAction, EventRow, StatusOrNone
    <3>2. previousStatus(event[d].status) \in Statuses
      BY <2>2, <3>1, StepTypes DEF undoDeployStatusAction, StatusOrNone
    <3>3. role \in Actors
      BY DataAssumption DEF Actors
    <3>4. row \in Entry
      BY <3>1, <3>2, <3>3, EntryTypes DEF StatusOrNone
    <3>5. QED
      BY <2>2, <3>4 DEF undoDeployStatusAction, Job, Processes
  <2>3. QED
    BY <1>2, <2>1, <2>2 DEF session
<1>3. ASSUME NEW p \in Requests, click(p) PROVE TypeOK'
  <2>1. ASSUME NEW t \in Tokens, consumeActionToken(p, t) PROVE TypeOK'
    <3>1. link[t].ev \in Deployments /\ link[t].to \in Statuses
      BY <2>1 DEF consumeActionToken, NoLink
    <3>2. entry(NoStatus, link[t].to, "lien", FALSE, t) \in Entry
      BY <3>1, EntryTypes DEF StatusOrNone, Actors
    <3>3. QED
      BY <2>1, <3>1, <3>2 DEF consumeActionToken, Job, Processes
  <2>2. ASSUME confirmGo(p) PROVE TypeOK'
    <3>1. /\ job[p] \in [pc : {"created", "clicked", "read", "audit"},
                          ev : Deployments, row : Entry]
          /\ job[p].ev \in Deployments
          /\ job[p].row \in Entry
      BY <2>2, JobShape DEF confirmGo, at, Processes
    <3>2. /\ job[p].row.to \in Statuses
          /\ job[p].row.jti \in Tokens \cup {NoToken}
      BY <3>1 DEF Entry
    <3>3. CASE readRow(p, job[p].ev, job[p].row.to, "lien", FALSE, job[p].row.jti)
      <4>1. job' \in [Processes -> Job]
        BY <3>1, <3>2, <3>3, ReadRowType DEF Actors, Processes
      <4>2. QED
        BY <2>2, <4>1 DEF confirmGo
    <3>4. CASE job' = [job EXCEPT ![p].pc = "audit"]
      BY <2>2, <3>1, <3>4 DEF confirmGo, Job
    <3>5. CASE job' = [job EXCEPT ![p] = NoJob]
      BY <2>2, <3>5 DEF confirmGo, Job
    <3>6. QED
      BY <2>2, <3>3, <3>4, <3>5 DEF confirmGo
  <2>3. ASSUME auditClick(p) PROVE TypeOK'
    <3>1. job[p].ev \in Deployments /\ job[p].row \in Entry
      BY <2>3, JobShape DEF auditClick, at, Processes
    <3>2. job[p].row.jti \in Tokens
      BY <2>3, <3>1 DEF auditClick, at, JobsKnowTheirMove, busy, Entry, Processes
    <3>3. emitted' \in [Deployments -> Nat]
      BY <2>3, EmitType DEF auditClick
    <3>4. QED
      BY <2>3, <3>2, <3>3 DEF auditClick, Job
  <2>4. QED
    BY <1>3, <2>1, <2>2, <2>3 DEF click
<1>4. ASSUME NEW p \in Processes, commit(p) PROVE TypeOK'
  <2> DEFINE d == job[p].ev
  <2>1. /\ job[p] \in [pc : {"created", "clicked", "read", "audit"},
                        ev : Deployments, row : Entry]
        /\ d \in Deployments
        /\ job[p].row \in Entry
    BY <1>4, JobShape DEF commit, at
  <2>2. job[p].row.to \in StatusOrNone
    BY <2>1 DEF Entry, StatusOrNone
  <2>3. event' \in [Deployments -> EventRow]
    <3>1. \/ event' = event
          \/ event' = [event EXCEPT ![d].status = job[p].row.to]
      BY <1>4 DEF commit
    <3>2. event \in [Deployments -> EventRow]
      BY DEF TypeOK
    <3>3. CASE event' = [event EXCEPT ![d].status = job[p].row.to]
      BY <2>1, <2>2, <3>2, <3>3 DEF EventRow
    <3>4. QED
      BY <3>1, <3>2, <3>3
  <2>4. history' \in [Deployments -> Seq(Entry)]
    BY <1>4, <2>1 DEF commit
  <2>5. job' \in [Processes -> Job]
    BY <1>4, <2>1 DEF commit, Job
  <2>6. emitted' \in [Deployments -> Nat]
    BY <1>4, EmitType DEF commit
  <2>7. QED
    BY <1>4, <2>3, <2>4, <2>5, <2>6 DEF commit
<1>5. ASSUME NEW c \in Crons, promotion(c) PROVE TypeOK'
  <2>1. CASE promoteScheduledDeployments(c)
    BY <2>1 DEF promoteScheduledDeployments
  <2>2. ASSUME NEW d \in Deployments, promoteNext(c, d) PROVE TypeOK'
    <3>1. emitted' \in [Deployments -> Nat]
      BY <2>2, EmitType DEF promoteNext
    <3>2. "PENDING" \in Statuses
      BY DEF Statuses, DEPLOY_ORDER
    <3>3. job' \in [Processes -> Job]
      BY <2>2, <3>2, ReadRowType DEF promoteNext, Processes, Actors
    <3>4. QED
      BY <2>2, <3>1, <3>3 DEF promoteNext
  <2>3. QED
    BY <1>4, <1>5, <2>1, <2>2 DEF promotion, Processes
<1>6. ASSUME NEW d \in Deployments, comesDue(d) PROVE TypeOK'
  BY <1>6 DEF comesDue, EventRow, Schedules
<1>7. ASSUME NEW d \in Deployments, dispatchUnread(d) PROVE TypeOK'
  BY <1>7 DEF dispatchUnread
<1>8. ASSUME NEW d \in Deployments, NEW t \in Tokens, dispatchHooks(d, t) PROVE TypeOK'
  <2>1. event[d].status \in Statuses
    BY <1>8 DEF dispatchHooks, hasNext, EventRow, StatusOrNone
  <2>2. nextStatus(event[d].status) \in Statuses
    BY <1>8, <2>1, StepTypes DEF dispatchHooks, hasNext, StatusOrNone
  <2>3. QED
    BY <1>8, <2>2 DEF dispatchHooks, claim
<1>9. CASE restart
  BY <1>9 DEF restart, Job
<1>10. CASE UNCHANGED vars
  BY <1>10 DEF vars
<1>11. QED
  BY <1>1, <1>2, <1>3, <1>4, <1>5, <1>6, <1>7, <1>8, <1>9, <1>10 DEF Next, Processes

(***************************************************************************)
(* The workflow operators of the abstract specification are the same ones. *)
(***************************************************************************)
LEMMA SameWorkflow ==
    /\ Trail!Statuses = Statuses
    /\ Trail!NoStatus = NoStatus
    /\ Trail!StatusOrNone = StatusOrNone
    /\ \A s : Trail!roleGroup(s) = roleGroup(s)
    /\ \A s : Trail!commentRequired(s) = commentRequired(s)
    /\ \A s : Trail!nextStatus(s) = nextStatus(s)
    /\ \A s : Trail!previousStatus(s) = previousStatus(s)
    /\ \A s : Trail!creationEntry(s) = creationEntry(s)
    /\ \A f, t : Trail!legal(f, t) = legal(f, t)
<1>1. Trail!DEPLOY_ORDER = DEPLOY_ORDER /\ Trail!NoStatus = NoStatus /\ Trail!NoToken = NoToken
  BY DEF Trail!DEPLOY_ORDER, DEPLOY_ORDER, Trail!NoStatus, NoStatus, Trail!NoToken, NoToken
<1>2. Trail!Statuses = Statuses
  BY <1>1 DEF Trail!Statuses, Statuses
<1>3. \A s : Trail!indexOf(s) = indexOf(s)
  BY <1>1 DEF Trail!indexOf, indexOf
<1>4. /\ \A s : Trail!nextStatus(s) = nextStatus(s)
      /\ \A s : Trail!previousStatus(s) = previousStatus(s)
  BY <1>1, <1>3 DEF Trail!nextStatus, nextStatus, Trail!previousStatus, previousStatus
<1>5. \A f, t : Trail!legal(f, t) = legal(f, t)
  BY <1>1, <1>4 DEF Trail!legal, legal, Trail!canTransition, canTransition
<1>6. \A s : /\ Trail!roleGroup(s) = roleGroup(s)
             /\ Trail!commentRequired(s) = commentRequired(s)
             /\ Trail!creationEntry(s) = creationEntry(s)
  BY <1>1 DEF Trail!roleGroup, roleGroup, Trail!commentRequired, commentRequired,
              Trail!creationEntry, creationEntry, Trail!entry, entry
<1>7. Trail!StatusOrNone = StatusOrNone
  BY <1>1, <1>2 DEF Trail!StatusOrNone, StatusOrNone
<1>8. QED
  BY <1>1, <1>2, <1>4, <1>5, <1>6, <1>7

(***************************************************************************)
(* What each read leaves in a handler.                                     *)
(***************************************************************************)
LEMMA ReadJob ==
    ASSUME TypeOK, NEW p \in Processes, NEW d, NEW to, NEW by, NEW comment, NEW jti,
           readRow(p, d, to, by, comment, jti)
    PROVE  /\ job'[p].pc = "read"
           /\ job'[p].ev = d
           /\ job'[p].row = entry(event[d].status, to, by, comment, jti)
           /\ \A q \in Processes : q # p => job'[q] = job[q]
BY DEF readRow, TypeOK

LEMMA ForwardRead ==
    ASSUME NEW from \in StatusOrNone, NEW to \in Statuses, NEW by, NEW comment, NEW jti,
           legal(from, to),
           \/ by \in {"admin", roleGroup(to)} /\ (commentRequired(to) => comment)
           \/ by = "lien"
           \/ by = "scheduler" /\ to = "PENDING"
    PROVE  Trail!ForwardEntry(entry(from, to, by, comment, jti))
BY SameWorkflow DEF Trail!ForwardEntry, entry

LEMMA BackwardRead ==
    ASSUME NEW from \in Statuses, previousStatus(from) \in Statuses,
           NEW by \in {"admin", "devops"}, NEW jti
    PROVE  Trail!BackwardEntry(entry(from, previousStatus(from), by, TRUE, jti))
BY SameWorkflow DEF Trail!BackwardEntry, entry

LEMMA MovesKept == IInv /\ [Next]_vars => JobsKnowTheirMove'
<1> SUFFICES ASSUME IInv, [Next]_vars PROVE JobsKnowTheirMove'
  OBVIOUS
<1>t. TypeOK /\ JobsKnowTheirMove
  BY DEF IInv
<1> DEFINE Knows(j) ==
      j.pc # "idle" =>
          /\ j.row.by = "lien" <=> j.row.jti # NoToken
          /\ j.pc \in {"clicked", "audit"} => j.row.by = "lien"
          /\ j.pc = "created" => j.row = creationEntry(j.row.to)
          /\ j.pc = "read" => Trail!ForwardEntry(j.row) \/ Trail!BackwardEntry(j.row)
<1>k. \A q \in Processes : Knows(job[q])
  BY <1>t DEF JobsKnowTheirMove, busy, at
<1>s. SUFFICES \A q \in Processes : Knows(job'[q])
  BY DEF JobsKnowTheirMove, busy, at
<1>i. Knows(NoJob)
  BY DEF NoJob
<1> HIDE DEF Knows
<1>1. ASSUME NEW p \in Requests, creation(p) PROVE \A q \in Processes : Knows(job'[q])
  <2>1. ASSUME NEW s \in FirstStatuses, NEW sched \in Schedules, NEW d \in Deployments,
               createEvent(p, d, s, sched)
        PROVE  \A q \in Processes : Knows(job'[q])
    <3>1. Knows([pc |-> "created", ev |-> d, row |-> creationEntry(s)])
      BY DEF Knows, creationEntry, entry
    <3>2. QED
      BY <2>1, <3>1, <1>k, <1>t DEF createEvent, TypeOK
  <2>2. CASE recordCreation(p)
    BY <2>2, <1>i, <1>k, <1>t DEF recordCreation, TypeOK
  <2>3. CASE UNCHANGED job
    BY <2>3, <1>k
  <2>4. QED
    BY <1>1, <2>1, <2>2, <2>3 DEF creation, createLot, upsertDeployment, upsertIncident
<1>2. ASSUME NEW p \in Requests, session(p) PROVE \A q \in Processes : Knows(job'[q])
  <2>1. ASSUME NEW d \in Deployments, NEW role \in Roles, NEW to \in Statuses,
               NEW comment \in BOOLEAN, transitionDeployStatusAction(p, d, to, role, comment)
        PROVE  \A q \in Processes : Knows(job'[q])
    <3> DEFINE row == entry(event[d].status, to, role, comment, NoToken)
    <3>1. event[d].status \in StatusOrNone
      BY <1>t DEF TypeOK, EventRow
    <3>2. Trail!ForwardEntry(row)
      BY <2>1, <3>1, ForwardRead DEF transitionDeployStatusAction, readRow, mayTransition
    <3>3. role # "lien"
      BY DataAssumption
    <3>4. Knows([pc |-> "read", ev |-> d, row |-> row])
      BY <3>2, <3>3 DEF Knows, entry
    <3>5. QED
      BY <2>1, <3>4, <1>k, <1>t DEF transitionDeployStatusAction, readRow, TypeOK
  <2>2. ASSUME NEW d \in Deployments, NEW role \in Roles, undoDeployStatusAction(p, d, role)
        PROVE  \A q \in Processes : Knows(job'[q])
    <3> DEFINE row == entry(event[d].status, previousStatus(event[d].status), role, TRUE, NoToken)
    <3>1. event[d].status \in Statuses
      BY <2>2, <1>t DEF undoDeployStatusAction, TypeOK, EventRow, StatusOrNone
    <3>2. previousStatus(event[d].status) \in Statuses
      BY <2>2, <3>1, StepTypes DEF undoDeployStatusAction, StatusOrNone
    <3>3. Trail!BackwardEntry(row)
      BY <2>2, <3>1, <3>2, BackwardRead DEF undoDeployStatusAction
    <3>4. Knows([pc |-> "read", ev |-> d, row |-> row])
      BY <2>2, <3>3 DEF Knows, entry, undoDeployStatusAction
    <3>5. QED
      BY <2>2, <3>4, <1>k, <1>t DEF undoDeployStatusAction, TypeOK
  <2>3. QED
    BY <1>2, <2>1, <2>2 DEF session
<1>3. ASSUME NEW p \in Requests, click(p) PROVE \A q \in Processes : Knows(job'[q])
  <2>1. ASSUME NEW t \in Tokens, consumeActionToken(p, t) PROVE \A q \in Processes : Knows(job'[q])
    <3>1. t # NoToken
      BY DataAssumption
    <3>2. Knows([pc |-> "clicked", ev |-> link[t].ev,
                 row |-> entry(NoStatus, link[t].to, "lien", FALSE, t)])
      BY <3>1 DEF Knows, entry
    <3>3. QED
      BY <2>1, <3>2, <1>k, <1>t DEF consumeActionToken, TypeOK
  <2>2. CASE confirmGo(p)
    <3> DEFINE d == job[p].ev
               row == job[p].row
    <3>1. /\ job[p] \in [pc : {"created", "clicked", "read", "audit"},
                          ev : Deployments, row : Entry]
          /\ row.to \in Statuses /\ d \in Deployments
          /\ event[d].status \in StatusOrNone
      BY <2>2, <1>t, JobShape DEF confirmGo, at, Processes, Entry, TypeOK, EventRow
    <3>2. row.by = "lien" /\ row.jti # NoToken
      BY <2>2, <1>t DEF confirmGo, JobsKnowTheirMove, busy, at, Processes
    <3>3. CASE readRow(p, d, row.to, "lien", FALSE, row.jti)
      <4>1. Trail!ForwardEntry(entry(event[d].status, row.to, "lien", FALSE, row.jti))
        BY <3>1, <3>3, ForwardRead DEF readRow
      <4>2. Knows([pc |-> "read", ev |-> d,
                   row |-> entry(event[d].status, row.to, "lien", FALSE, row.jti)])
        BY <4>1, <3>2 DEF Knows, entry
      <4>3. QED
        BY <3>3, <4>2, <1>k, <1>t DEF readRow, TypeOK
    <3>4. CASE job' = [job EXCEPT ![p].pc = "audit"]
      <4>1. Knows([job[p] EXCEPT !.pc = "audit"])
        BY <3>1, <3>2 DEF Knows
      <4>2. QED
        BY <3>4, <4>1, <1>k, <1>t DEF TypeOK
    <3>5. CASE job' = [job EXCEPT ![p] = NoJob]
      BY <3>5, <1>i, <1>k, <1>t DEF TypeOK
    <3>6. QED
      BY <2>2, <3>3, <3>4, <3>5 DEF confirmGo
  <2>3. CASE auditClick(p)
    BY <2>3, <1>i, <1>k, <1>t DEF auditClick, TypeOK
  <2>4. QED
    BY <1>3, <2>1, <2>2, <2>3 DEF click
<1>4. ASSUME NEW p \in Processes, commit(p) PROVE \A q \in Processes : Knows(job'[q])
  <2>1. job[p] \in [pc : {"created", "clicked", "read", "audit"},
                    ev : Deployments, row : Entry]
    BY <1>4, <1>t, JobShape DEF commit, at, TypeOK
  <2>2. job[p].row.by = "lien" => Knows([job[p] EXCEPT !.pc = "audit"])
    BY <2>1, <1>4, <1>k DEF commit, at, Knows
  <2>3. QED
    BY <1>4, <2>2, <1>i, <1>k, <1>t DEF commit, TypeOK
<1>5. ASSUME NEW c \in Crons, promotion(c) PROVE \A q \in Processes : Knows(job'[q])
  <2>1. CASE promoteScheduledDeployments(c)
    BY <2>1, <1>k DEF promoteScheduledDeployments
  <2>2. ASSUME NEW d \in Deployments, promoteNext(c, d) PROVE \A q \in Processes : Knows(job'[q])
    <3> DEFINE row == entry(event[d].status, "PENDING", "scheduler", FALSE, NoToken)
    <3>1. event[d].status \in StatusOrNone /\ "PENDING" \in Statuses
      BY <1>t DEF TypeOK, EventRow, Statuses, DEPLOY_ORDER
    <3>2. CASE readRow(c, d, "PENDING", "scheduler", FALSE, NoToken)
      <4>1. Trail!ForwardEntry(row)
        BY <3>1, <3>2, ForwardRead DEF readRow
      <4>2. Knows([pc |-> "read", ev |-> d, row |-> row])
        BY <4>1 DEF Knows, entry
      <4>3. QED
        BY <3>2, <4>2, <1>k, <1>t DEF readRow, TypeOK
    <3>3. CASE job' = job
      BY <3>3, <1>k
    <3>4. QED
      BY <2>2, <3>2, <3>3 DEF promoteNext
  <2>3. CASE commit(c)
    BY <2>3, <1>4 DEF Processes
  <2>4. QED
    BY <1>5, <2>1, <2>2, <2>3 DEF promotion
<1>6. CASE restart
  BY <1>6, <1>i DEF restart
<1>7. CASE UNCHANGED job
  BY <1>7, <1>k
<1>8. QED
  BY <1>1, <1>2, <1>3, <1>4, <1>5, <1>6, <1>7
  DEF Next, vars, Processes, comesDue, dispatchUnread, dispatchHooks

(***************************************************************************)
(* Nothing refers to a deployment that does not exist.                     *)
(***************************************************************************)
LEMMA AbsentKept == IInv /\ [Next]_vars => AbsentIsUnknown'
<1> SUFFICES ASSUME IInv, [Next]_vars PROVE AbsentIsUnknown'
  OBVIOUS
<1>t. TypeOK /\ AbsentIsUnknown
  BY DEF IInv
<1>a. \A d \in Deployments : event[d].type = "absent" =>
         /\ history[d] = << >>
         /\ \A q \in Processes : job[q].pc # "idle" => job[q].ev # d
         /\ \A t \in Tokens : link[t].ev # d
         /\ \A c \in Crons : d \notin todo[c]
  BY <1>t DEF AbsentIsUnknown, busy, at
<1>b. \A d \in Deployments \ ApiKeyed : event[d].type # "INCIDENT"
  BY <1>t DEF AbsentIsUnknown
<1>s. SUFFICES ASSUME NEW d \in Deployments
               PROVE  /\ event'[d].type = "absent" =>
                            /\ history'[d] = << >>
                            /\ \A q \in Processes : job'[q].pc # "idle" => job'[q].ev # d
                            /\ \A t \in Tokens : link'[t].ev # d
                            /\ \A c \in Crons : d \notin todo'[c]
                      /\ d \notin ApiKeyed => event'[d].type # "INCIDENT"
  BY DEF AbsentIsUnknown, busy, at
<1> DEFINE Unknown ==
      /\ event'[d].type = "absent" =>
            /\ history'[d] = << >>
            /\ \A q \in Processes : job'[q].pc # "idle" => job'[q].ev # d
            /\ \A t \in Tokens : link'[t].ev # d
            /\ \A c \in Crons : d \notin todo'[c]
      /\ d \notin ApiKeyed => event'[d].type # "INCIDENT"
<1>1. ASSUME NEW p \in Requests, creation(p) PROVE Unknown
  <2>1. ASSUME NEW s \in FirstStatuses, NEW sched \in Schedules, NEW e \in Deployments,
               createEvent(p, e, s, sched)
        PROVE  Unknown
    BY <2>1, <1>a, <1>b, <1>t DEF createEvent, TypeOK, deploymentRow
  <2>2. ASSUME NEW s \in FirstStatuses, NEW sched \in Schedules, NEW D \in SUBSET Deployments,
               createLot(p, D, s, sched)
        PROVE  Unknown
    BY <2>2, <1>a, <1>b, <1>t DEF createLot, TypeOK, deploymentRow
  <2>3. ASSUME NEW s \in FirstStatuses, NEW sched \in Schedules, NEW e \in ApiKeyed,
               upsertDeployment(p, e, s, sched)
        PROVE  Unknown
    BY <2>3, <1>a, <1>b, <1>t DEF upsertDeployment, TypeOK, deploymentRow
  <2>4. ASSUME NEW e \in ApiKeyed, upsertIncident(p, e) PROVE Unknown
    <3>1. event'[d].type = "absent" => event[d].type = "absent"
      BY <2>4, <1>t DEF upsertIncident, TypeOK, EventRow
    <3>2. d \notin ApiKeyed => event'[d] = event[d]
      BY <2>4, <1>t DEF upsertIncident, TypeOK
    <3>3. QED
      BY <2>4, <3>1, <3>2, <1>a, <1>b DEF upsertIncident
  <2>5. CASE recordCreation(p)
    BY <2>5, <1>a, <1>b, <1>t DEF recordCreation, at, NoJob, TypeOK, Processes
  <2>6. QED
    BY <1>1, <2>1, <2>2, <2>3, <2>4, <2>5 DEF creation
<1>2. ASSUME NEW p \in Requests, session(p) PROVE Unknown
  <2>1. ASSUME NEW e \in Deployments, NEW role \in Roles, NEW to \in Statuses,
               NEW comment \in BOOLEAN, transitionDeployStatusAction(p, e, to, role, comment)
        PROVE  Unknown
    BY <2>1, <1>a, <1>b, <1>t, ReadJob DEF transitionDeployStatusAction, readRow, Processes
  <2>2. ASSUME NEW e \in Deployments, NEW role \in Roles, undoDeployStatusAction(p, e, role)
        PROVE  Unknown
    BY <2>2, <1>a, <1>b, <1>t DEF undoDeployStatusAction, TypeOK
  <2>3. QED
    BY <1>2, <2>1, <2>2 DEF session
<1>3. ASSUME NEW p \in Requests, click(p) PROVE Unknown
  <2>1. ASSUME NEW t \in Tokens, consumeActionToken(p, t) PROVE Unknown
    BY <2>1, <1>a, <1>b, <1>t DEF consumeActionToken, TypeOK
  <2>2. CASE confirmGo(p)
    <3>1. \A q \in Processes : job'[q].pc # "idle" => job'[q].ev = job[q].ev /\ job[q].pc # "idle"
      <4>1. CASE readRow(p, job[p].ev, job[p].row.to, "lien", FALSE, job[p].row.jti)
        BY <2>2, <4>1, <1>t, ReadJob DEF confirmGo, at, Processes
      <4>2. CASE job' = [job EXCEPT ![p].pc = "audit"]
        <5>1. job[p] \in [pc : {"created", "clicked", "read", "audit"}, ev : Deployments, row : Entry]
          BY <2>2, <1>t, JobShape DEF confirmGo, at, Processes, TypeOK
        <5>2. QED
          BY <2>2, <4>2, <5>1, <1>t DEF confirmGo, at, TypeOK
      <4>3. CASE job' = [job EXCEPT ![p] = NoJob]
        BY <4>3, <1>t DEF NoJob, TypeOK
      <4>4. QED
        BY <2>2, <4>1, <4>2, <4>3 DEF confirmGo
    <3>2. QED
      BY <2>2, <3>1, <1>a, <1>b DEF confirmGo
  <2>3. CASE auditClick(p)
    BY <2>3, <1>a, <1>b, <1>t DEF auditClick, NoJob, TypeOK
  <2>4. QED
    BY <1>3, <2>1, <2>2, <2>3 DEF click
<1>4. ASSUME NEW p \in Processes, commit(p) PROVE Unknown
  <2>1. /\ job[p] \in [pc : {"created", "clicked", "read", "audit"}, ev : Deployments, row : Entry]
        /\ job[p].pc # "idle"
    BY <1>4, <1>t, JobShape DEF commit, at, TypeOK
  <2>2. event'[d].type = event[d].type
    BY <1>4, <2>1, <1>t DEF commit, TypeOK, EventRow
  <2>3. \A q \in Processes : job'[q].pc # "idle" => job'[q].ev = job[q].ev /\ job[q].pc # "idle"
    BY <1>4, <2>1, <1>t DEF commit, NoJob, TypeOK
  <2>4. history'[d] # history[d] => job[p].ev = d
    BY <1>4, <2>1, <1>t DEF commit, TypeOK
  <2>5. QED
    BY <1>4, <2>1, <2>2, <2>3, <2>4, <1>a, <1>b DEF commit
<1>5. ASSUME NEW c \in Crons, promotion(c) PROVE Unknown
  <2>1. CASE promoteScheduledDeployments(c)
    BY <2>1, <1>a, <1>b, <1>t DEF promoteScheduledDeployments, isDue, TypeOK
  <2>2. ASSUME NEW e \in Deployments, promoteNext(c, e) PROVE Unknown
    <3>1. \A q \in Processes : job'[q].pc # "idle" =>
             \/ job'[q] = job[q]
             \/ job'[q].ev = e /\ event[e].type # "absent"
      <4>1. CASE readRow(c, e, "PENDING", "scheduler", FALSE, NoToken)
        BY <4>1, <1>t DEF readRow, TypeOK, Processes
      <4>2. CASE job' = job
        BY <4>2
      <4>3. QED
        BY <2>2, <4>1, <4>2 DEF promoteNext
    <3>2. QED
      BY <2>2, <3>1, <1>a, <1>b, <1>t DEF promoteNext, TypeOK
  <2>3. CASE commit(c)
    BY <2>3, <1>4 DEF Processes
  <2>4. QED
    BY <1>5, <2>1, <2>2, <2>3 DEF promotion
<1>6. ASSUME NEW e \in Deployments, comesDue(e) PROVE Unknown
  <2>1. event'[d].type = event[d].type
    BY <1>6, <1>t DEF comesDue, TypeOK, EventRow
  <2>2. QED
    BY <1>6, <2>1, <1>a, <1>b DEF comesDue
<1>7. ASSUME NEW e \in Deployments, dispatchUnread(e) PROVE Unknown
  BY <1>7, <1>a, <1>b DEF dispatchUnread
<1>8. ASSUME NEW e \in Deployments, NEW t \in Tokens, dispatchHooks(e, t) PROVE Unknown
  <2>1. event[e].type # "absent"
    BY <1>8 DEF dispatchHooks, hasNext
  <2>2. \A u \in Tokens : link'[u] = link[u] \/ link'[u].ev = e
    BY <1>8, <1>t DEF dispatchHooks, claim, TypeOK
  <2>3. QED
    BY <1>8, <2>1, <2>2, <1>a, <1>b DEF dispatchHooks
<1>9. CASE restart
  BY <1>9, <1>a, <1>b DEF restart, NoJob
<1>10. CASE UNCHANGED vars
  BY <1>10, <1>a, <1>b DEF vars
<1>11. QED
  BY <1>1, <1>2, <1>3, <1>4, <1>5, <1>6, <1>7, <1>8, <1>9, <1>10 DEF Next, Processes

(***************************************************************************)
(* Rows are never lost, and most steps do nothing to the links.            *)
(***************************************************************************)
HistoryGrows ==
    \A d \in Deployments : \A i \in DOMAIN history[d] :
        i \in DOMAIN history'[d] /\ history'[d][i] = history[d][i]

LEMMA AppendKeeps ==
    ASSUME NEW S, NEW tr \in Seq(S), NEW e \in S
    PROVE  /\ Append(tr, e) \in Seq(S)
           /\ DOMAIN tr = 1..Len(tr) /\ Len(tr) \in Nat
           /\ DOMAIN Append(tr, e) = 1..(Len(tr) + 1)
           /\ \A i \in 1..Len(tr) : Append(tr, e)[i] = tr[i]
           /\ Append(tr, e)[Len(tr) + 1] = e
OBVIOUS

LEMMA GrowStep == IInv /\ [Next]_vars => HistoryGrows
<1> SUFFICES ASSUME IInv, [Next]_vars PROVE HistoryGrows
  OBVIOUS
<1>t. TypeOK /\ AbsentIsUnknown
  BY DEF IInv
<1>1. CASE UNCHANGED history
  BY <1>1 DEF HistoryGrows
<1>2. ASSUME NEW p \in Processes, recordCreation(p) \/ commit(p) PROVE HistoryGrows
  <2>1. job[p].ev \in Deployments /\ job[p].row \in Entry
    BY <1>2, <1>t, JobShape DEF recordCreation, commit, at, TypeOK
  <2>2. \/ history' = history
        \/ history' = [history EXCEPT ![job[p].ev] = Append(@, job[p].row)]
    BY <1>2 DEF recordCreation, commit
  <2>3. history[job[p].ev] \in Seq(Entry)
    BY <2>1, <1>t DEF TypeOK
  <2>4. \A i \in DOMAIN history[job[p].ev] :
           /\ i \in DOMAIN Append(history[job[p].ev], job[p].row)
           /\ Append(history[job[p].ev], job[p].row)[i] = history[job[p].ev][i]
    BY <2>1, <2>3, AppendKeeps
  <2>5. CASE history' = history
    BY <2>5 DEF HistoryGrows
  <2>6. CASE history' = [history EXCEPT ![job[p].ev] = Append(@, job[p].row)]
    <3>1. \A d \in Deployments : history'[d] = IF d = job[p].ev
                                                  THEN Append(history[job[p].ev], job[p].row)
                                                  ELSE history[d]
      BY <2>6, <1>t DEF TypeOK
    <3>2. QED
      BY <3>1, <2>4 DEF HistoryGrows
  <2>7. QED
    BY <2>2, <2>5, <2>6
<1>3. ASSUME NEW p \in Requests, NEW D \in SUBSET Deployments, NEW s, NEW sched,
             createLot(p, D, s, sched)
      PROVE  HistoryGrows
  <2>1. \A d \in D : history[d] = << >>
    BY <1>3, <1>t DEF createLot, AbsentIsUnknown, absentRow
  <2>2. \A d \in Deployments : d \notin D => history'[d] = history[d]
    BY <1>3 DEF createLot
  <2>3. QED
    BY <2>1, <2>2 DEF HistoryGrows
<1>4. ASSUME NEW p \in Requests, creation(p) PROVE HistoryGrows
  BY <1>4, <1>1, <1>2, <1>3
  DEF creation, createEvent, upsertDeployment, upsertIncident, Processes
<1>5. ASSUME NEW p \in Requests, session(p) \/ click(p) PROVE HistoryGrows
  BY <1>5, <1>1 DEF session, click, transitionDeployStatusAction, undoDeployStatusAction,
                    consumeActionToken, confirmGo, auditClick
<1>6. ASSUME NEW c \in Crons, promotion(c) PROVE HistoryGrows
  BY <1>6, <1>1, <1>2 DEF promotion, promoteScheduledDeployments, promoteNext, Processes
<1>7. ASSUME NEW d \in Deployments,
             comesDue(d) \/ dispatchUnread(d) \/ \E t \in Tokens : dispatchHooks(d, t)
      PROVE  HistoryGrows
  BY <1>7, <1>1 DEF comesDue, dispatchUnread, dispatchHooks
<1>8. CASE restart \/ UNCHANGED vars
  BY <1>8, <1>1 DEF restart, vars
<1>9. QED
  BY <1>2, <1>4, <1>5, <1>6, <1>7, <1>8 DEF Next, Processes

\* A step that hands no link out, spends none and writes no row by one.
LinksQuiet ==
    /\ \A p \in Processes : busy(p)' /\ job'[p].row.jti # NoToken =>
          /\ busy(p)
          /\ job'[p].ev = job[p].ev
          /\ job'[p].row.jti = job[p].row.jti
          /\ job'[p].row.to = job[p].row.to
          /\ at(p, "audit") => at(p, "audit")'
    /\ \A d \in Deployments : \A i \in DOMAIN history'[d] :
          history'[d][i].jti # NoToken =>
              i \in DOMAIN history[d] /\ history'[d][i] = history[d][i]
    /\ used' = used
    /\ \A t \in used : link'[t] = link[t]

LEMMA QuietOrClick ==
    IInv /\ [Next]_vars =>
        \/ LinksQuiet
        \/ \E p \in Processes : commit(p)
        \/ \E p \in Requests, t \in Tokens : consumeActionToken(p, t)
<1> SUFFICES ASSUME IInv, [Next]_vars
             PROVE  \/ LinksQuiet
                    \/ \E p \in Processes : commit(p)
                    \/ \E p \in Requests, t \in Tokens : consumeActionToken(p, t)
  OBVIOUS
<1>t. TypeOK /\ JobsKnowTheirMove /\ AbsentIsUnknown /\ SpentIsMinted
  BY DEF IInv
<1>1. ASSUME NEW p \in Requests, creation(p) PROVE LinksQuiet
  <2>1. ASSUME NEW s \in FirstStatuses, NEW sched \in Schedules, NEW d \in Deployments,
               createEvent(p, d, s, sched)
        PROVE  LinksQuiet
    BY <2>1, <1>t DEF createEvent, LinksQuiet, TypeOK, busy, at, creationEntry, entry
  <2>2. ASSUME NEW s \in FirstStatuses, NEW sched \in Schedules, NEW D \in SUBSET Deployments,
               createLot(p, D, s, sched)
        PROVE  LinksQuiet
    <3>1. \A d \in D : history'[d] = << creationEntry(s) >>
      BY <2>2 DEF createLot
    <3>2. creationEntry(s).jti = NoToken
      BY DEF creationEntry, entry
    <3>3. \A d \in D : \A i \in DOMAIN history'[d] : history'[d][i].jti = NoToken
      BY <3>1, <3>2
    <3>4. \A d \in Deployments : d \notin D => history'[d] = history[d]
      BY <2>2 DEF createLot
    <3>5. QED
      BY <2>2, <3>3, <3>4 DEF createLot, LinksQuiet, busy, at
  <2>3. ASSUME recordCreation(p) PROVE LinksQuiet
    <3>1. /\ job[p].ev \in Deployments /\ job[p].row \in Entry
          /\ history[job[p].ev] \in Seq(Entry)
      BY <2>3, <1>t, JobShape DEF recordCreation, at, TypeOK, Processes
    <3>2. job[p].row.jti = NoToken
      <4>1. \A s : creationEntry(s).jti = NoToken
        BY DEF creationEntry, entry
      <4>2. job[p].row = creationEntry(job[p].row.to)
        BY <2>3, <1>t DEF recordCreation, JobsKnowTheirMove, busy, at, Processes
      <4>3. QED
        BY <4>1, <4>2
    <3>3. \A d \in Deployments : \A i \in DOMAIN history'[d] :
              history'[d][i].jti # NoToken =>
                  i \in DOMAIN history[d] /\ history'[d][i] = history[d][i]
      BY <2>3, <3>1, <3>2, <1>t, AppendKeeps DEF recordCreation, TypeOK
    <3>4. QED
      BY <2>3, <3>3, <1>t DEF recordCreation, LinksQuiet, busy, at, NoJob, TypeOK
  <2>4. CASE UNCHANGED << history, job, link, used >>
    BY <2>4 DEF LinksQuiet, busy, at
  <2>5. QED
    BY <1>1, <2>1, <2>2, <2>3, <2>4 DEF creation, upsertDeployment, upsertIncident
<1>2. ASSUME NEW p \in Requests, session(p) PROVE LinksQuiet
  <2>1. ASSUME NEW d \in Deployments, NEW role, NEW to, NEW comment,
               transitionDeployStatusAction(p, d, to, role, comment)
        PROVE  LinksQuiet
    BY <2>1, <1>t DEF transitionDeployStatusAction, readRow, LinksQuiet, TypeOK, busy, at, entry
  <2>2. ASSUME NEW d \in Deployments, NEW role, undoDeployStatusAction(p, d, role)
        PROVE  LinksQuiet
    BY <2>2, <1>t DEF undoDeployStatusAction, LinksQuiet, TypeOK, busy, at, entry
  <2>3. QED
    BY <1>2, <2>1, <2>2 DEF session
<1>3. ASSUME NEW p \in Requests, confirmGo(p) PROVE LinksQuiet
  <2>1. job[p] \in [pc : {"created", "clicked", "read", "audit"}, ev : Deployments, row : Entry]
    BY <1>3, <1>t, JobShape DEF confirmGo, at, TypeOK, Processes
  <2>2. CASE readRow(p, job[p].ev, job[p].row.to, "lien", FALSE, job[p].row.jti)
    BY <1>3, <2>2, <1>t DEF confirmGo, readRow, LinksQuiet, TypeOK, busy, at, entry
  <2>3. CASE job' = [job EXCEPT ![p].pc = "audit"]
    BY <1>3, <2>1, <2>3, <1>t DEF confirmGo, LinksQuiet, TypeOK, busy, at
  <2>4. CASE job' = [job EXCEPT ![p] = NoJob]
    BY <1>3, <2>4, <1>t DEF confirmGo, LinksQuiet, TypeOK, busy, at, NoJob
  <2>5. QED
    BY <1>3, <2>2, <2>3, <2>4 DEF confirmGo
<1>4. ASSUME NEW p \in Requests, auditClick(p) PROVE LinksQuiet
  BY <1>4, <1>t DEF auditClick, LinksQuiet, TypeOK, busy, at, NoJob
<1>5. ASSUME NEW c \in Crons, NEW d \in Deployments, promoteNext(c, d) PROVE LinksQuiet
  BY <1>5, <1>t DEF promoteNext, readRow, LinksQuiet, TypeOK, busy, at, entry, Processes
<1>6. ASSUME NEW d \in Deployments, NEW t \in Tokens, dispatchHooks(d, t) PROVE LinksQuiet
  BY <1>6, <1>t DEF dispatchHooks, LinksQuiet, SpentIsMinted, TypeOK, busy, at
<1>7. CASE restart
  BY <1>7 DEF restart, LinksQuiet, busy, at, NoJob
<1>8. CASE UNCHANGED << history, job, link, used >>
  BY <1>8 DEF LinksQuiet, busy, at
<1>9. QED
  BY <1>1, <1>2, <1>3, <1>4, <1>5, <1>6, <1>7, <1>8
  DEF Next, vars, Processes, click, promotion, promoteScheduledDeployments, comesDue, dispatchUnread

\* What commit does, by its outcome.
LEMMA CommitCases ==
    ASSUME TypeOK, NEW p \in Processes, commit(p)
    PROVE  LET d == job[p].ev
               row == job[p].row
           IN  /\ job[p] \in [pc : {"created", "clicked", "read", "audit"},
                              ev : Deployments, row : Entry]
               /\ d \in Deployments /\ row \in Entry /\ at(p, "read")
               /\ history[d] \in Seq(Entry)
               /\ \A q \in Processes : q # p => job'[q] = job[q]
               /\ \/ /\ event' = event /\ history' = history
                     /\ job'[p] = NoJob
                  \/ /\ event[d].status = row.from
                     /\ event'[d] = [event[d] EXCEPT !.status = row.to]
                     /\ \A e \in Deployments : e # d => event'[e] = event[e]
                     /\ history'[d] = Append(history[d], row)
                     /\ \A e \in Deployments : e # d => history'[e] = history[e]
                     /\ \/ row.by # "lien" /\ job'[p] = NoJob
                        \/ /\ row.by = "lien"
                           /\ job'[p].pc = "audit" /\ job'[p].ev = d /\ job'[p].row = row
<1> DEFINE d == job[p].ev
           row == job[p].row
<1>1. /\ job[p] \in [pc : {"created", "clicked", "read", "audit"}, ev : Deployments, row : Entry]
      /\ d \in Deployments /\ row \in Entry /\ at(p, "read")
  BY JobShape DEF commit, at, TypeOK
<1>2. history[d] \in Seq(Entry)
  BY <1>1 DEF TypeOK
<1>3. \A q \in Processes : q # p => job'[q] = job[q]
  BY DEF commit, TypeOK
<1>4. CASE ~stillThere(d, row.from)
  <2>1. event' = event /\ history' = history
    BY <1>4 DEF commit
  <2>2. job'[p] = NoJob
    BY <1>4 DEF commit, TypeOK
  <2>3. QED
    BY <1>1, <1>2, <1>3, <2>1, <2>2
<1>5. CASE stillThere(d, row.from)
  <2>1. event[d].status = row.from
    BY <1>5 DEF stillThere
  <2>2. event' = [event EXCEPT ![d] = [event[d] EXCEPT !.status = row.to]]
    BY <1>5 DEF commit
  <2>3. history' = [history EXCEPT ![d] = Append(history[d], row)]
    BY <1>5 DEF commit
  <2>4. row.by # "lien" => job'[p] = NoJob
    BY <1>5 DEF commit, TypeOK
  <2>5. row.by = "lien" => job'[p] = [job[p] EXCEPT !.pc = "audit"]
    BY <1>5 DEF commit, TypeOK
  <2>6. row.by = "lien" => job'[p].pc = "audit" /\ job'[p].ev = d /\ job'[p].row = row
    BY <1>1, <2>5
  <2>7. /\ event'[d] = [event[d] EXCEPT !.status = row.to]
        /\ \A e \in Deployments : e # d => event'[e] = event[e]
    BY <1>1, <2>2 DEF TypeOK
  <2>8. /\ history'[d] = Append(history[d], row)
        /\ \A e \in Deployments : e # d => history'[e] = history[e]
    BY <1>1, <2>3 DEF TypeOK
  <2>9. QED
    BY <1>1, <1>2, <1>3, <2>1, <2>4, <2>6, <2>7, <2>8
<1>6. QED
  BY <1>4, <1>5

(***************************************************************************)
(* Links.                                                                  *)
(***************************************************************************)
LinksTold ==
    /\ LinksHaveOneHolder
    /\ LinkMovesOnce
    /\ \A t \in used : link[t] # NoLink

LEMMA QuietKeepsLinks == IInv /\ LinksQuiet => LinksTold'
<1> SUFFICES ASSUME IInv, LinksQuiet PROVE LinksTold'
  OBVIOUS
<1>t. LinksHaveOneHolder /\ LinkMovesOnce /\ SpentIsMinted
  BY DEF IInv
<1>1. LinksHaveOneHolder'
  BY <1>t DEF LinksHaveOneHolder, LinksQuiet
<1>2. LinkMovesOnce'
  BY <1>t DEF LinkMovesOnce, LinksQuiet
<1>3. \A t \in used' : link'[t] # NoLink
  BY <1>t DEF SpentIsMinted, LinksQuiet
<1>4. QED
  BY <1>1, <1>2, <1>3 DEF LinksTold, NoLink

LEMMA LinksKept == IInv /\ [Next]_vars => LinksTold'
<1> SUFFICES ASSUME IInv, [Next]_vars PROVE LinksTold'
  OBVIOUS
<1>t. TypeOK /\ JobsKnowTheirMove /\ LinksHaveOneHolder /\ LinkMovesOnce /\ SpentIsMinted
  BY DEF IInv
<1>1. CASE LinksQuiet
  BY <1>1, QuietKeepsLinks
<1>2. ASSUME NEW p \in Processes, commit(p) PROVE LinksTold'
  <2> DEFINE d == job[p].ev
             row == job[p].row
             t == row.jti
  <2>c. /\ d \in Deployments /\ row \in Entry /\ at(p, "read") /\ busy(p)
        /\ history[d] \in Seq(Entry)
        /\ \A q \in Processes : q # p => job'[q] = job[q]
    BY <1>2, <1>t, CommitCases DEF busy, at
  <2>u. used' = used /\ link' = link
    BY <1>2 DEF commit
  <2>1. CASE history' = history /\ job'[p] = NoJob
    <3>1. LinksQuiet
      BY <2>1, <2>c, <2>u DEF LinksQuiet, busy, at, NoJob
    <3>2. QED
      BY <3>1, QuietKeepsLinks
  <2>2. CASE /\ history'[d] = Append(history[d], row)
             /\ \A e \in Deployments : e # d => history'[e] = history[e]
             /\ row.by # "lien" /\ job'[p] = NoJob
    <3>1. t = NoToken
      BY <2>2, <2>c, <1>t DEF JobsKnowTheirMove
    <3>2. \A e \in Deployments : \A i \in DOMAIN history'[e] :
              history'[e][i].jti # NoToken =>
                  i \in DOMAIN history[e] /\ history'[e][i] = history[e][i]
      <4>1. \A e \in Deployments : \A i \in DOMAIN history'[e] :
                \/ i \in DOMAIN history[e] /\ history'[e][i] = history[e][i]
                \/ e = d /\ i = Len(history[d]) + 1 /\ history'[e][i] = row
        <5>1. /\ history'[d] = Append(history[d], row)
              /\ \A e \in Deployments : e # d => history'[e] = history[e]
          BY <2>2
        <5>2. /\ DOMAIN history[d] = 1..Len(history[d])
              /\ DOMAIN history'[d] = 1..(Len(history[d]) + 1)
              /\ \A i \in 1..Len(history[d]) : history'[d][i] = history[d][i]
              /\ history'[d][Len(history[d]) + 1] = row
              /\ Len(history[d]) \in Nat
          BY <5>1, <2>c, AppendKeeps
        <5>3. ASSUME NEW e \in Deployments, NEW i \in DOMAIN history'[e]
              PROVE  \/ i \in DOMAIN history[e] /\ history'[e][i] = history[e][i]
                     \/ e = d /\ i = Len(history[d]) + 1 /\ history'[e][i] = row
          <6>1. CASE e # d
            BY <5>1, <6>1
          <6>2. CASE e = d /\ i \in 1..Len(history[d])
            BY <5>2, <6>2
          <6>3. CASE e = d /\ i = Len(history[d]) + 1
            BY <5>2, <6>3
          <6>4. e = d => i \in 1..(Len(history[d]) + 1)
            BY <5>2
          <6>5. QED
            BY <5>2, <6>1, <6>2, <6>3, <6>4
        <5>4. QED
          BY <5>3
      <4>2. QED
        BY <3>1, <4>1
    <3>3. LinksQuiet
      BY <3>2, <2>2, <2>c, <2>u DEF LinksQuiet, busy, at, NoJob
    <3>4. QED
      BY <3>3, QuietKeepsLinks
  <2>3. CASE /\ history'[d] = Append(history[d], row)
             /\ \A e \in Deployments : e # d => history'[e] = history[e]
             /\ row.by = "lien"
             /\ job'[p].pc = "audit" /\ job'[p].ev = d /\ job'[p].row = row
    <3>1. t # NoToken
      BY <2>3, <2>c, <1>t DEF JobsKnowTheirMove
    <3>2. /\ t \in used
          /\ link[t] = claim(d, row.to)
          /\ \A q \in Processes : busy(q) /\ job[q].row.jti = t => p = q
          /\ \A e \in Deployments : \A i \in DOMAIN history[e] : history[e][i].jti # t
      BY <3>1, <2>c, <1>t DEF LinksHaveOneHolder, at
    <3> DEFINE n == Len(history[d]) + 1
    <3>3. \A e \in Deployments : \A i \in DOMAIN history'[e] :
              \/ i \in DOMAIN history[e] /\ history'[e][i] = history[e][i]
              \/ e = d /\ i = n /\ history'[e][i] = row
      BY <2>3, <2>c, AppendKeeps
    <3>4. LinkMovesOnce'
      <4>1. SUFFICES ASSUME NEW e \in Deployments, NEW f \in Deployments,
                            NEW i \in DOMAIN history'[e], NEW j \in DOMAIN history'[f],
                            history'[e][i].jti # NoToken
                     PROVE  /\ history'[e][i].jti \in used'
                            /\ link'[history'[e][i].jti] = claim(e, history'[e][i].to)
                            /\ history'[e][i].jti = history'[f][j].jti => e = f /\ i = j
        BY DEF LinkMovesOnce, claim
      <4>2. CASE i \in DOMAIN history[e] /\ history'[e][i] = history[e][i]
        <5>1. /\ history[e][i].jti \in used
              /\ link[history[e][i].jti] = claim(e, history[e][i].to)
          BY <4>1, <4>2, <1>t DEF LinkMovesOnce
        <5>2. ASSUME j \in DOMAIN history[f], history'[f][j] = history[f][j],
                     history'[e][i].jti = history'[f][j].jti
              PROVE  e = f /\ i = j
          BY <4>1, <4>2, <5>2, <1>t DEF LinkMovesOnce
        <5>3. QED
          BY <4>2, <5>1, <5>2, <3>2, <3>3, <2>u
      <4>3. CASE e = d /\ i = n /\ history'[e][i] = row
        BY <4>3, <3>2, <3>3, <2>u
      <4>4. QED
        BY <3>3, <4>2, <4>3
    <3>5. LinksHaveOneHolder'
      <4>1. SUFFICES ASSUME NEW q \in Processes, job'[q].pc # "idle", job'[q].row.jti # NoToken
                     PROVE  /\ job'[q].row.jti \in used'
                            /\ link'[job'[q].row.jti] = claim(job'[q].ev, job'[q].row.to)
                            /\ \A r \in Processes :
                                  job'[r].pc # "idle" /\ job'[r].row.jti = job'[q].row.jti => q = r
                            /\ job'[q].pc # "audit" =>
                                  \A e \in Deployments : \A i \in DOMAIN history'[e] :
                                      history'[e][i].jti # job'[q].row.jti
        BY DEF LinksHaveOneHolder, busy, at, claim
      <4>2. CASE q = p
        BY <4>1, <4>2, <3>1, <3>2, <2>3, <2>c, <2>u DEF busy, at
      <4>3. CASE q # p
        <5>1. job'[q] = job[q] /\ busy(q) /\ job[q].row.jti # t
          BY <4>1, <4>3, <3>2, <2>c DEF busy, at
        <5>2. /\ job[q].row.jti \in used
              /\ link[job[q].row.jti] = claim(job[q].ev, job[q].row.to)
              /\ \A r \in Processes : busy(r) /\ job[r].row.jti = job[q].row.jti => q = r
              /\ ~at(q, "audit") => \A e \in Deployments : \A i \in DOMAIN history[e] :
                                        history[e][i].jti # job[q].row.jti
          BY <4>1, <5>1, <1>t DEF LinksHaveOneHolder
        <5>3. \A r \in Processes :
                  job'[r].pc # "idle" /\ job'[r].row.jti = job'[q].row.jti => q = r
          BY <5>1, <5>2, <2>3, <2>c DEF busy, at
        <5>4. QED
          BY <5>1, <5>2, <5>3, <3>3, <2>u DEF at
      <4>4. QED
        BY <4>2, <4>3
    <3>6. QED
      BY <3>4, <3>5, <2>u, <1>t DEF LinksTold, SpentIsMinted, NoLink
  <2>4. QED
    BY <2>1, <2>2, <2>3, <1>2, <1>t, CommitCases
<1>3. ASSUME NEW p \in Requests, NEW t \in Tokens, consumeActionToken(p, t) PROVE LinksTold'
  <2>1. p \in Processes /\ t \notin used /\ used' = used \cup {t} /\ link' = link /\ history' = history
    BY <1>3 DEF consumeActionToken, unspent, Processes
  <2>2. /\ job'[p] = [pc |-> "clicked", ev |-> link[t].ev,
                      row |-> entry(NoStatus, link[t].to, "lien", FALSE, t)]
        /\ \A q \in Processes : q # p => job'[q] = job[q]
    BY <1>3, <1>t DEF consumeActionToken, Processes, TypeOK
  <2>3. /\ job'[p].pc = "clicked" /\ job'[p].ev = link[t].ev
        /\ job'[p].row.to = link[t].to /\ job'[p].row.jti = t
    BY <2>2 DEF entry
  <2>4. link[t] = claim(link[t].ev, link[t].to) /\ link[t] # NoLink
    BY <1>3, <1>t DEF consumeActionToken, TypeOK, claim
  <2>5. \A d \in Deployments : \A i \in DOMAIN history[d] : history[d][i].jti # t
    BY <2>1, <1>t, DataAssumption DEF LinkMovesOnce
  <2>6. \A q \in Processes : busy(q) => job[q].row.jti # t
    BY <2>1, <1>t, DataAssumption DEF LinksHaveOneHolder
  <2>7. LinksHaveOneHolder'
    <3>1. SUFFICES ASSUME NEW q \in Processes, job'[q].pc # "idle", job'[q].row.jti # NoToken
                   PROVE  /\ job'[q].row.jti \in used'
                          /\ link'[job'[q].row.jti] = claim(job'[q].ev, job'[q].row.to)
                          /\ \A r \in Processes :
                                job'[r].pc # "idle" /\ job'[r].row.jti = job'[q].row.jti => q = r
                          /\ job'[q].pc # "audit" =>
                                \A e \in Deployments : \A i \in DOMAIN history'[e] :
                                    history'[e][i].jti # job'[q].row.jti
      BY DEF LinksHaveOneHolder, busy, at, claim
    <3>2. CASE q = p
      BY <3>2, <2>1, <2>2, <2>3, <2>4, <2>5, <2>6 DEF busy, at
    <3>3. CASE q # p
      <4>1. job'[q] = job[q] /\ busy(q) /\ job[q].row.jti # t
        BY <3>1, <3>3, <2>2, <2>6 DEF busy, at
      <4>2. /\ job[q].row.jti \in used
            /\ link[job[q].row.jti] = claim(job[q].ev, job[q].row.to)
            /\ \A r \in Processes : busy(r) /\ job[r].row.jti = job[q].row.jti => q = r
            /\ ~at(q, "audit") => \A e \in Deployments : \A i \in DOMAIN history[e] :
                                      history[e][i].jti # job[q].row.jti
        BY <3>1, <4>1, <1>t DEF LinksHaveOneHolder
      <4>3. \A r \in Processes :
               job'[r].pc # "idle" /\ job'[r].row.jti = job'[q].row.jti => q = r
        <5>1. job'[p].row.jti = t /\ job'[q].row.jti = job[q].row.jti /\ job[q].row.jti # t
          BY <4>1, <2>3
        <5>2. QED
          BY <4>1, <4>2, <5>1, <2>2 DEF busy, at
      <4>4. QED
        BY <4>1, <4>2, <4>3, <2>1, <2>2, <2>3, <3>1 DEF busy, at
    <3>4. QED
      BY <3>2, <3>3
  <2>8. LinkMovesOnce'
    BY <2>1, <1>t DEF LinkMovesOnce
  <2>9. QED
    BY <2>1, <2>4, <2>7, <2>8, <1>t DEF LinksTold, SpentIsMinted, NoLink
<1>4. QED
  BY <1>1, <1>2, <1>3, QuietOrClick

(***************************************************************************)
(* The audit log.                                                          *)
(***************************************************************************)
LEMMA SpentStays ==
    IInv /\ [Next]_vars => \A t \in used : t \in used' /\ link'[t] = link[t]
<1>1. CASE LinksQuiet
  BY <1>1 DEF LinksQuiet
<1>2. ASSUME NEW p \in Processes, commit(p)
      PROVE  \A t \in used : t \in used' /\ link'[t] = link[t]
  BY <1>2 DEF commit
<1>3. ASSUME NEW p \in Requests, NEW t \in Tokens, consumeActionToken(p, t)
      PROVE  \A u \in used : u \in used' /\ link'[u] = link[u]
  BY <1>3 DEF consumeActionToken
<1>4. QED
  BY <1>1, <1>2, <1>3, QuietOrClick

\* A handler gets to the audit by committing, or by finding no deployment.
LEMMA WhoAudits ==
    ASSUME IInv, [Next]_vars, NEW q \in Processes, job'[q].pc = "audit"
    PROVE  \/ job'[q] = job[q]
           \/ commit(q)
           \/ q \in Requests /\ confirmGo(q) /\ noDeployment(job[q].ev, job[q].row.to)
<1>t. TypeOK
  BY DEF IInv
<1> DEFINE Same == job'[q] = job[q]
<1>1. ASSUME NEW p \in Requests, creation(p) PROVE Same
  <2>1. ASSUME NEW d \in Deployments, NEW s, NEW sched, createEvent(p, d, s, sched) PROVE Same
    BY <2>1, <1>t DEF createEvent, TypeOK
  <2>2. CASE recordCreation(p)
    BY <2>2, <1>t DEF recordCreation, NoJob, TypeOK
  <2>3. CASE UNCHANGED job
    BY <2>3
  <2>4. QED
    BY <1>1, <2>1, <2>2, <2>3 DEF creation, createLot, upsertDeployment, upsertIncident
<1>2. ASSUME NEW p \in Requests, session(p) PROVE Same
  <2>1. ASSUME NEW d \in Deployments, NEW role, NEW to, NEW comment,
               transitionDeployStatusAction(p, d, to, role, comment)
        PROVE  Same
    BY <2>1, <1>t DEF transitionDeployStatusAction, readRow, TypeOK
  <2>2. ASSUME NEW d \in Deployments, NEW role, undoDeployStatusAction(p, d, role)
        PROVE  Same
    BY <2>2, <1>t DEF undoDeployStatusAction, TypeOK
  <2>3. QED
    BY <1>2, <2>1, <2>2 DEF session
<1>3. ASSUME NEW p \in Requests, NEW t \in Tokens, consumeActionToken(p, t) PROVE Same
  BY <1>3, <1>t DEF consumeActionToken, TypeOK
<1>4. ASSUME NEW p \in Requests, confirmGo(p)
      PROVE  Same \/ (q = p /\ noDeployment(job[p].ev, job[p].row.to))
  <2>1. CASE readRow(p, job[p].ev, job[p].row.to, "lien", FALSE, job[p].row.jti)
    BY <2>1, <1>t DEF readRow, TypeOK
  <2>2. CASE noDeployment(job[p].ev, job[p].row.to) /\ job' = [job EXCEPT ![p].pc = "audit"]
    BY <2>2, <1>t DEF TypeOK
  <2>3. CASE job' = [job EXCEPT ![p] = NoJob]
    BY <2>3, <1>t DEF NoJob, TypeOK
  <2>4. QED
    BY <1>4, <2>1, <2>2, <2>3 DEF confirmGo
<1>5. ASSUME NEW p \in Requests, auditClick(p) PROVE Same
  BY <1>5, <1>t DEF auditClick, NoJob, TypeOK
<1>6. ASSUME NEW p \in Processes, commit(p) PROVE Same \/ q = p
  BY <1>6, <1>t, CommitCases
<1>7. ASSUME NEW c \in Crons, NEW d \in Deployments, promoteNext(c, d) PROVE Same
  <2>1. CASE readRow(c, d, "PENDING", "scheduler", FALSE, NoToken)
    BY <2>1, <1>t DEF readRow, TypeOK
  <2>2. QED
    BY <1>7, <2>1 DEF promoteNext
<1>8. CASE restart
  BY <1>8 DEF restart, NoJob
<1>9. CASE UNCHANGED job
  BY <1>9
<1>10. QED
  BY <1>1, <1>2, <1>3, <1>4, <1>5, <1>6, <1>7, <1>8, <1>9
  DEF Next, vars, click, promotion, promoteScheduledDeployments, comesDue, dispatchUnread,
      dispatchHooks, Processes

LEMMA AuditKept == IInv /\ [Next]_vars => SpentIsMinted' /\ AuditedClickMoved'
<1> SUFFICES ASSUME IInv, [Next]_vars PROVE SpentIsMinted' /\ AuditedClickMoved'
  OBVIOUS
<1>t. /\ TypeOK /\ JobsKnowTheirMove /\ AbsentIsUnknown /\ LinksHaveOneHolder
      /\ SpentIsMinted /\ AuditedClickMoved
  BY DEF IInv
<1> DEFINE movedNext(t) == \E i \in DOMAIN history'[link'[t].ev] : history'[link'[t].ev][i].jti = t
<1>m. ASSUME NEW t \in used, moved(t) PROVE movedNext(t)
  <2>1. link[t].ev \in Deployments
    BY <1>t DEF SpentIsMinted, TypeOK
  <2>2. t \in used' /\ link'[t] = link[t]
    BY SpentStays
  <2>3. \A i \in DOMAIN history[link[t].ev] :
            /\ i \in DOMAIN history'[link[t].ev]
            /\ history'[link[t].ev][i] = history[link[t].ev][i]
    BY <2>1, GrowStep DEF HistoryGrows
  <2>4. QED
    BY <1>m, <2>2, <2>3 DEF moved
<1>h. ASSUME NEW p \in Processes, at(p, "audit") \/ at(p, "read"), job[p].row.by = "lien"
      PROVE  job[p].row.jti \in used /\ link[job[p].row.jti].ev = job[p].ev
  <2>1. busy(p)
    BY <1>h DEF busy, at
  <2>2. job[p].row.jti # NoToken
    BY <1>h, <2>1, <1>t DEF JobsKnowTheirMove
  <2>3. job[p].row.jti \in used /\ link[job[p].row.jti] = claim(job[p].ev, job[p].row.to)
    BY <2>1, <2>2, <1>t DEF LinksHaveOneHolder
  <2>4. QED
    BY <2>3 DEF claim
<1>l. \A p \in Processes : at(p, "audit") => job[p].row.by = "lien"
  BY <1>t DEF JobsKnowTheirMove, busy, at
<1>1. \A t \in audited' : t \in audited \/ \E p \in Requests : auditClick(p) /\ t = job[p].row.jti
  <2>1. CASE audited' = audited
    BY <2>1
  <2>2. ASSUME NEW p \in Requests, auditClick(p)
        PROVE  \A t \in audited' : t \in audited \/ t = job[p].row.jti
    BY <2>2 DEF auditClick
  <2>3. audited' = audited \/ \E p \in Requests : auditClick(p)
    <3>1. ASSUME NEW p \in Requests, creation(p) \/ session(p) \/ commit(p) PROVE audited' = audited
      BY <3>1 DEF creation, session, commit, createEvent, createLot, upsertDeployment,
                  upsertIncident, recordCreation, transitionDeployStatusAction,
                  undoDeployStatusAction
    <3>2. ASSUME NEW p \in Requests, click(p) PROVE audited' = audited \/ auditClick(p)
      BY <3>2 DEF click, consumeActionToken, confirmGo
    <3>3. ASSUME NEW c \in Crons, promotion(c) PROVE audited' = audited
      BY <3>3 DEF promotion, promoteScheduledDeployments, promoteNext, commit
    <3>4. QED
      BY <3>1, <3>2, <3>3 DEF Next, vars, comesDue, dispatchUnread, dispatchHooks, restart
  <2>4. QED
    BY <2>1, <2>2, <2>3
<1>2. ASSUME NEW p \in Requests, auditClick(p)
      PROVE  /\ job[p].row.jti \in used
             /\ link[job[p].row.jti].ev = job[p].ev
             /\ job[p].ev \notin ApiKeyed => moved(job[p].row.jti)
  BY <1>2, <1>h, <1>l, <1>t DEF auditClick, Processes, SpentIsMinted
<1>3. AuditedClickMoved'
  <2>1. SUFFICES ASSUME NEW t \in audited', link'[t].ev \notin ApiKeyed
                 PROVE  movedNext(t)
    BY DEF AuditedClickMoved
  <2>2. CASE t \in audited
    <3>1. t \in used
      BY <2>2, <1>t DEF SpentIsMinted
    <3>2. link[t].ev \notin ApiKeyed
      BY <2>1, <3>1, SpentStays
    <3>3. moved(t)
      BY <2>2, <3>2, <1>t DEF AuditedClickMoved, moved
    <3>4. QED
      BY <3>1, <3>3, <1>m
  <2>3. ASSUME NEW p \in Requests, auditClick(p), t = job[p].row.jti PROVE movedNext(t)
    <3>1. t \in used /\ link[t].ev \notin ApiKeyed
      BY <2>1, <2>3, <1>2, SpentStays
    <3>2. moved(t)
      BY <2>3, <3>1, <1>2
    <3>3. QED
      BY <3>1, <3>2, <1>m
  <2>4. QED
    BY <2>2, <2>3, <1>1
<1>4. ASSUME NEW q \in Processes, job'[q].pc = "audit", job'[q].ev \notin ApiKeyed
      PROVE  movedNext(job'[q].row.jti)
  <2>1. CASE job'[q] = job[q]
    <3>1. at(q, "audit") /\ job[q].ev \notin ApiKeyed
      BY <1>4, <2>1 DEF at
    <3>2. job[q].row.jti \in used /\ moved(job[q].row.jti)
      BY <3>1, <1>h, <1>l, <1>t DEF SpentIsMinted
    <3>3. QED
      BY <2>1, <3>2, <1>m
  <2>2. CASE commit(q)
    <3> DEFINE d == job[q].ev
               row == job[q].row
    <3>1. /\ d \in Deployments /\ row \in Entry /\ at(q, "read") /\ history[d] \in Seq(Entry)
          /\ row.by = "lien" /\ history'[d] = Append(history[d], row) /\ job'[q].row = row
      <4>1. job'[q] # NoJob
        BY <1>4 DEF NoJob
      <4>2. QED
        BY <4>1, <2>2, <1>t, CommitCases
    <3>2. row.jti \in used /\ link[row.jti].ev = d
      BY <3>1, <1>h
    <3>3. link'[row.jti].ev = d
      BY <3>2, SpentStays
    <3>4. /\ Len(history[d]) + 1 \in DOMAIN history'[d]
          /\ history'[d][Len(history[d]) + 1] = row
      BY <3>1, AppendKeeps
    <3>5. \E i \in DOMAIN history'[d] : history'[d][i].jti = row.jti
      BY <3>4
    <3>6. QED
      BY <3>1, <3>3, <3>5 DEF moved
  <2>3. CASE q \in Requests /\ confirmGo(q) /\ noDeployment(job[q].ev, job[q].row.to)
    <3>1. job[q].ev \in Deployments /\ busy(q) /\ ~at(q, "idle")
      BY <2>3, <1>t, JobShape DEF confirmGo, at, busy, TypeOK
    <3>2. event[job[q].ev].type = "INCIDENT"
      <4>1. event[job[q].ev].type # "absent"
        BY <3>1, <1>t DEF AbsentIsUnknown
      <4>2. QED
        BY <2>3, <3>1, <4>1, <1>t DEF noDeployment, TypeOK, EventRow
    <3>3. job[q].ev \in ApiKeyed
      BY <3>1, <3>2, <1>t DEF AbsentIsUnknown
    <3>4. job'[q].ev = job[q].ev
      <4>1. event[job[q].ev].type # "DEPLOYMENT"
        BY <3>2
      <4>2. \/ job' = [job EXCEPT ![q].pc = "audit"]
            \/ job' = [job EXCEPT ![q] = NoJob]
        BY <2>3, <4>1 DEF confirmGo, readRow
      <4>3. job[q] \in [pc : {"created", "clicked", "read", "audit"},
                        ev : Deployments, row : Entry]
        BY <3>1, <1>t, JobShape DEF TypeOK
      <4>4. QED
        BY <1>4, <4>2, <4>3, <1>t DEF TypeOK, NoJob
    <3>5. QED
      BY <1>4, <3>3, <3>4
  <2>4. QED
    BY <1>4, <2>1, <2>2, <2>3, WhoAudits
<1>5. audited' \subseteq used'
  BY <1>1, <1>2, <1>t, SpentStays DEF SpentIsMinted
<1>6. \A t \in used' : link'[t] # NoLink
  BY LinksKept DEF LinksTold, NoLink
<1>7. SpentIsMinted'
  BY <1>4, <1>5, <1>6 DEF SpentIsMinted, at, NoLink, moved
<1>8. QED
  BY <1>3, <1>7

(***************************************************************************)
(* What a step does to a deployment that no PUT can reach.                 *)
(***************************************************************************)
Untouched(d) ==
    /\ event'[d].type = event[d].type
    /\ event'[d].status = event[d].status
    /\ history'[d] = history[d]

Born(d) ==
    /\ event[d].type = "absent"
    /\ event'[d].type = "DEPLOYMENT"
    /\ event'[d].status \in Statuses
    /\ history'[d] \in {<< >>, << creationEntry(event'[d].status) >>}

RecordedBy(p, d) ==
    /\ at(p, "created")
    /\ job[p].ev = d
    /\ event'[d] = event[d]
    /\ history'[d] = Append(history[d], job[p].row)
    /\ job'[p] = NoJob

MovedBy(p, d) ==
    /\ at(p, "read")
    /\ job[p].ev = d
    /\ event[d].status = job[p].row.from
    /\ event'[d].status = job[p].row.to
    /\ event'[d].type = event[d].type
    /\ event'[d].sched = event[d].sched
    /\ history'[d] = Append(history[d], job[p].row)
    /\ job'[p].pc # "created"
    /\ \A q \in Processes : q # p => job'[q] = job[q]

LEMMA RowStep ==
    ASSUME IInv, [Next]_vars, NEW d \in Deployments \ ApiKeyed
    PROVE  /\ \/ Untouched(d)
              \/ Born(d)
              \/ \E p \in Processes : RecordedBy(p, d) \/ MovedBy(p, d)
           /\ event[d].sched = "due" /\ event[d].type # "absent" => event'[d].sched = "due"
<1>t. TypeOK /\ AbsentIsUnknown
  BY DEF IInv
<1> DEFINE Goal == /\ \/ Untouched(d)
                      \/ Born(d)
                      \/ \E p \in Processes : RecordedBy(p, d) \/ MovedBy(p, d)
                   /\ event[d].sched = "due" /\ event[d].type # "absent"
                         => event'[d].sched = "due"
<1>0. ASSUME event'[d] = event[d], history'[d] = history[d] PROVE Goal
  BY <1>0 DEF Untouched
<1>1. ASSUME NEW p \in Requests, creation(p) PROVE Goal
  <2>1. ASSUME NEW s \in FirstStatuses, NEW sched \in Schedules, NEW e \in Deployments,
               createEvent(p, e, s, sched)
        PROVE  Goal
    <3>1. CASE e = d
      <4>1. event[d].type = "absent"
        BY <2>1, <3>1 DEF createEvent, absentRow
      <4>2. event'[d] = deploymentRow(s, sched) /\ history'[d] = history[d]
        BY <2>1, <3>1, <1>t DEF createEvent, TypeOK
      <4>3. history[d] = << >> /\ s \in Statuses
        BY <4>1, <1>t, DataAssumption DEF AbsentIsUnknown
      <4>4. QED
        BY <4>1, <4>2, <4>3 DEF Born, deploymentRow
    <3>2. CASE e # d
      BY <2>1, <3>2, <1>0, <1>t DEF createEvent, TypeOK
    <3>3. QED
      BY <3>1, <3>2
  <2>2. ASSUME NEW s \in FirstStatuses, NEW sched \in Schedules, NEW D \in SUBSET Deployments,
               createLot(p, D, s, sched)
        PROVE  Goal
    <3>1. CASE d \in D
      <4>1. event[d].type = "absent"
        BY <2>2, <3>1 DEF createLot, absentRow
      <4>2. event'[d] = deploymentRow(s, sched) /\ history'[d] = << creationEntry(s) >>
        BY <2>2, <3>1 DEF createLot
      <4>3. s \in Statuses
        BY DataAssumption
      <4>4. QED
        BY <4>1, <4>2, <4>3 DEF Born, deploymentRow
    <3>2. CASE d \notin D
      BY <2>2, <3>2, <1>0 DEF createLot
    <3>3. QED
      BY <3>1, <3>2
  <2>3. ASSUME NEW s \in FirstStatuses, NEW sched \in Schedules, NEW e \in ApiKeyed,
               upsertDeployment(p, e, s, sched)
        PROVE  Goal
    BY <2>3, <1>0, <1>t DEF upsertDeployment, TypeOK
  <2>4. ASSUME NEW e \in ApiKeyed, upsertIncident(p, e) PROVE Goal
    <3>1. event' = [event EXCEPT ![e] = [event[e] EXCEPT !.type = "INCIDENT"]]
      BY <2>4 DEF upsertIncident
    <3>2. QED
      BY <2>4, <3>1, <1>0, <1>t DEF upsertIncident, TypeOK
  <2>5. CASE recordCreation(p)
    <3>1. CASE job[p].ev = d
      <4>1. RecordedBy(p, d)
        BY <2>5, <3>1, <1>t DEF recordCreation, RecordedBy, TypeOK, Processes
      <4>2. QED
        BY <4>1 DEF RecordedBy, Processes
    <3>2. CASE job[p].ev # d
      BY <2>5, <3>2, <1>0, <1>t DEF recordCreation, TypeOK
    <3>3. QED
      BY <3>1, <3>2
  <2>6. QED
    BY <1>1, <2>1, <2>2, <2>3, <2>4, <2>5 DEF creation
<1>2. ASSUME NEW p \in Requests, session(p) PROVE Goal
  BY <1>2, <1>0 DEF session, transitionDeployStatusAction, undoDeployStatusAction
<1>3. ASSUME NEW p \in Requests, click(p) PROVE Goal
  BY <1>3, <1>0 DEF click, consumeActionToken, confirmGo, auditClick
<1>4. ASSUME NEW p \in Processes, commit(p) PROVE Goal
  <2> DEFINE e == job[p].ev
             row == job[p].row
  <2>1. CASE event' = event /\ history' = history
    BY <2>1, <1>0
  <2>2. CASE /\ event[e].status = row.from
             /\ event'[e] = [event[e] EXCEPT !.status = row.to]
             /\ \A f \in Deployments : f # e => event'[f] = event[f]
             /\ history'[e] = Append(history[e], row)
             /\ \A f \in Deployments : f # e => history'[f] = history[f]
             /\ job'[p].pc \in {"idle", "audit"}
             /\ \A q \in Processes : q # p => job'[q] = job[q]
    <3>1. CASE e = d
      <4>1. event[d] \in EventRow
        BY <1>t DEF TypeOK
      <4>2. /\ event'[d].status = row.to
            /\ event'[d].type = event[d].type
            /\ event'[d].sched = event[d].sched
        BY <2>2, <3>1, <4>1 DEF EventRow
      <4>3. MovedBy(p, d)
        BY <2>2, <3>1, <4>2, <1>4 DEF MovedBy, commit
      <4>4. QED
        BY <4>2, <4>3
    <3>2. CASE e # d
      BY <2>2, <3>2, <1>0
    <3>3. QED
      BY <3>1, <3>2
  <2>3. NoJob.pc = "idle"
    BY DEF NoJob
  <2>4. QED
    BY <1>4, <1>t, <2>1, <2>2, <2>3, CommitCases
<1>5. ASSUME NEW c \in Crons, promotion(c) PROVE Goal
  BY <1>5, <1>0, <1>4 DEF promotion, promoteScheduledDeployments, promoteNext, Processes
<1>6. ASSUME NEW e \in Deployments, comesDue(e) PROVE Goal
  <2>1. event' = [event EXCEPT ![e] = [event[e] EXCEPT !.sched = "due"]] /\ history' = history
    BY <1>6 DEF comesDue
  <2>2. CASE e = d
    <3>1. event'[d] = [event[d] EXCEPT !.sched = "due"] /\ event[d] \in EventRow
      BY <2>1, <2>2, <1>t DEF TypeOK
    <3>2. QED
      BY <2>1, <3>1 DEF EventRow, Untouched
  <2>3. CASE e # d
    BY <2>1, <2>3, <1>0, <1>t DEF TypeOK
  <2>4. QED
    BY <2>2, <2>3
<1>7. ASSUME NEW e \in Deployments,
             dispatchUnread(e) \/ \E t \in Tokens : dispatchHooks(e, t)
      PROVE  Goal
  BY <1>7, <1>0 DEF dispatchUnread, dispatchHooks
<1>8. CASE restart \/ UNCHANGED vars
  BY <1>8, <1>0 DEF restart, vars
<1>9. QED
  BY <1>1, <1>2, <1>3, <1>4, <1>5, <1>6, <1>7, <1>8 DEF Next, Processes

(***************************************************************************)
(* Trails, one row at a time.                                              *)
(***************************************************************************)
LEMMA MovesOfAppend ==
    ASSUME NEW tr \in Seq(Entry), NEW e \in Entry
    PROVE  /\ Len(tr) \in Nat
           /\ Trail!moves(tr) \subseteq 1..Len(tr)
           /\ DOMAIN Append(tr, e) = DOMAIN tr \cup {Len(tr) + 1}
           /\ Trail!moves(Append(tr, e)) =
                 Trail!moves(tr) \cup (IF e.from # NoStatus THEN {Len(tr) + 1} ELSE {})
           /\ \A i \in DOMAIN tr : i < Len(tr) + 1 /\ Append(tr, e)[i] = tr[i]
           /\ Append(tr, e)[Len(tr) + 1] = e
<1>1. /\ DOMAIN tr = 1..Len(tr) /\ Len(tr) \in Nat
      /\ DOMAIN Append(tr, e) = 1..(Len(tr) + 1)
      /\ \A i \in 1..Len(tr) : Append(tr, e)[i] = tr[i]
      /\ Append(tr, e)[Len(tr) + 1] = e
  BY AppendKeeps
<1>2. DOMAIN Append(tr, e) = DOMAIN tr \cup {Len(tr) + 1}
  BY <1>1
<1>3. \A x : Trail!moves(x) = {i \in DOMAIN x : x[i].from # NoStatus}
  BY SameWorkflow DEF Trail!moves
<1>4. Trail!moves(Append(tr, e)) =
          Trail!moves(tr) \cup (IF e.from # NoStatus THEN {Len(tr) + 1} ELSE {})
  <2>1. Trail!moves(tr) = {i \in 1..Len(tr) : tr[i].from # NoStatus}
    BY <1>1, <1>3
  <2>2. Trail!moves(Append(tr, e)) = {i \in 1..(Len(tr) + 1) : Append(tr, e)[i].from # NoStatus}
    BY <1>1, <1>3
  <2>3. QED
    BY <1>1, <2>1, <2>2
<1>5. Trail!moves(tr) \subseteq 1..Len(tr)
  BY <1>1, <1>3
<1>6. \A i \in DOMAIN tr : i < Len(tr) + 1
  BY <1>1
<1>7. QED
  BY <1>1, <1>2, <1>4, <1>5, <1>6

\* A move leaves alone what the deployment was before its first move.
LEMMA MoveKeepsOrigin ==
    ASSUME NEW tr \in Seq(Entry), NEW e \in Entry, e.from # NoStatus,
           NEW o, Trail!HasOrigin(tr, e.from, o)
    PROVE  Trail!HasOrigin(Append(tr, e), e.to, o)
<1> DEFINE M == Trail!moves(tr)
           n == Len(tr) + 1
<1>1. /\ n \in Nat /\ M \subseteq 1..Len(tr) /\ M \subseteq DOMAIN tr
      /\ Trail!moves(Append(tr, e)) = M \cup {n}
      /\ \A i \in M : i < n /\ Append(tr, e)[i] = tr[i]
      /\ Append(tr, e)[n] = e
  BY MovesOfAppend DEF Trail!moves
<1>2. SUFFICES ASSUME NEW j \in M \cup {n}, \A k \in M \cup {n} : j <= k
               PROVE  Append(tr, e)[j].from = o
  BY <1>1 DEF Trail!HasOrigin
<1>3. CASE j \in M
  BY <1>1, <1>2, <1>3 DEF Trail!HasOrigin
<1>4. CASE j = n
  <2>1. M = {}
    BY <1>1, <1>2, <1>4
  <2>2. QED
    BY <1>1, <1>4, <2>1 DEF Trail!HasOrigin
<1>5. QED
  BY <1>3, <1>4

LEMMA MoveTold ==
    ASSUME NEW tr \in Seq(Entry), NEW e \in Entry, e.from # NoStatus,
           Trail!Chained(tr), Trail!EndsAt(tr, e.from), Trail!Entered(tr, e.from)
    PROVE  /\ Trail!Chained(Append(tr, e))
           /\ Trail!EndsAt(Append(tr, e), e.to)
           /\ Trail!Entered(Append(tr, e), e.to)
<1> DEFINE M == Trail!moves(tr)
           n == Len(tr) + 1
           told == Append(tr, e)
<1>1. /\ n \in Nat /\ M \subseteq 1..Len(tr) /\ M \subseteq DOMAIN tr
      /\ DOMAIN told = DOMAIN tr \cup {n}
      /\ Trail!moves(told) = M \cup {n}
      /\ \A i \in DOMAIN tr : i < n /\ told[i] = tr[i]
      /\ told[n] = e
  BY MovesOfAppend DEF Trail!moves
<1>2. Trail!Chained(told)
  <2>1. SUFFICES ASSUME NEW i \in M \cup {n}, NEW j \in M \cup {n}, i < j,
                        \A k \in M \cup {n} : k <= i \/ j <= k
                 PROVE  told[j].from = told[i].to
    BY <1>1 DEF Trail!Chained
  <2>2. i \in M
    BY <1>1, <2>1
  <2>3. CASE j \in M
    BY <1>1, <2>1, <2>2, <2>3 DEF Trail!Chained
  <2>4. CASE j = n
    <3>1. \A k \in M : k <= i
      BY <1>1, <2>1, <2>4
    <3>2. tr[i].to = e.from
      BY <2>2, <3>1 DEF Trail!EndsAt
    <3>3. QED
      BY <1>1, <2>2, <2>4, <3>2
  <2>5. QED
    BY <2>3, <2>4
<1>3. Trail!EndsAt(told, e.to)
  <2>1. SUFFICES ASSUME NEW i \in M \cup {n}, \A k \in M \cup {n} : k <= i
                 PROVE  told[i].to = e.to
    BY <1>1 DEF Trail!EndsAt
  <2>2. i = n
    BY <1>1, <2>1
  <2>3. QED
    BY <1>1, <2>2
<1>4. Trail!Entered(told, e.to)
  <2>1. SUFFICES ASSUME NEW i \in DOMAIN tr \ M
                 PROVE  /\ Trail!HasOrigin(told, e.to, told[i].to)
                        /\ \A j \in DOMAIN tr \ M : i = j
    <3>1. DOMAIN told \ Trail!moves(told) = DOMAIN tr \ M
      BY <1>1
    <3>2. QED
      BY <2>1, <3>1 DEF Trail!Entered
  <2>2. Trail!HasOrigin(tr, e.from, tr[i].to) /\ \A j \in DOMAIN tr \ M : i = j
    BY DEF Trail!Entered
  <2>3. QED
    BY <1>1, <2>2, MoveKeepsOrigin
<1>5. QED
  BY <1>2, <1>3, <1>4

\* The row that enters the first status may come last.
LEMMA EntryTold ==
    ASSUME NEW tr \in Seq(Entry), NEW e \in Entry, e.from = NoStatus, NEW s,
           Trail!Chained(tr), Trail!EndsAt(tr, s),
           Trail!moves(tr) = DOMAIN tr, Trail!HasOrigin(tr, s, e.to)
    PROVE  /\ Trail!Chained(Append(tr, e))
           /\ Trail!EndsAt(Append(tr, e), s)
           /\ Trail!Entered(Append(tr, e), s)
<1> DEFINE M == Trail!moves(tr)
           n == Len(tr) + 1
           told == Append(tr, e)
<1>1. /\ n \in Nat /\ M \subseteq 1..Len(tr)
      /\ DOMAIN told = M \cup {n}
      /\ Trail!moves(told) = M
      /\ \A i \in M : i < n /\ told[i] = tr[i]
      /\ told[n] = e
  <2>1. M = DOMAIN tr
    OBVIOUS
  <2>2. /\ Len(tr) \in Nat /\ M \subseteq 1..Len(tr)
        /\ DOMAIN told = DOMAIN tr \cup {n}
        /\ Trail!moves(told) = M \cup {}
        /\ \A i \in DOMAIN tr : i < n /\ told[i] = tr[i]
        /\ told[n] = e
    BY MovesOfAppend
  <2>3. n \in Nat
    BY <2>2
  <2>4. QED
    BY <2>1, <2>2, <2>3
<1>2. Trail!Chained(told)
  BY <1>1 DEF Trail!Chained
<1>3. Trail!EndsAt(told, s)
  BY <1>1 DEF Trail!EndsAt
<1>4. Trail!HasOrigin(told, s, e.to)
  BY <1>1 DEF Trail!HasOrigin
<1>5. DOMAIN told \ Trail!moves(told) = {n}
  BY <1>1
<1>6. QED
  BY <1>1, <1>2, <1>3, <1>4, <1>5 DEF Trail!Entered

LEMMA NothingTold ==
    ASSUME NEW s
    PROVE  /\ Trail!moves(<< >>) = {} /\ DOMAIN << >> = {}
           /\ Trail!Chained(<< >>) /\ Trail!EndsAt(<< >>, s) /\ Trail!Entered(<< >>, s)
           /\ Trail!HasOrigin(<< >>, s, s)
<1>1. DOMAIN << >> = {}
  <2>1. << >> \in Seq({}) /\ Len(<< >>) = 0
    OBVIOUS
  <2>2. \A tr \in Seq({}) : DOMAIN tr = 1..Len(tr)
    OBVIOUS
  <2>3. DOMAIN << >> = 1..0
    BY <2>1, <2>2
  <2>4. QED
    BY <2>3
<1>2. Trail!moves(<< >>) = {}
  BY <1>1, Zenon DEF Trail!moves
<1>3. QED
  BY <1>1, <1>2 DEF Trail!Chained, Trail!EndsAt, Trail!Entered, Trail!HasOrigin

(***************************************************************************)
(* Histories are trails.                                                   *)
(***************************************************************************)
LEMMA EntryOfRead ==
    ASSUME IInv, NEW p \in Processes, at(p, "read")
    PROVE  /\ job[p].ev \in Deployments /\ job[p].row \in Entry
           /\ Trail!ForwardEntry(job[p].row) \/ Trail!BackwardEntry(job[p].row)
           /\ event[job[p].ev].type # "absent"
<1>1. TypeOK /\ JobsKnowTheirMove /\ AbsentIsUnknown
  BY DEF IInv
<1>2. busy(p) /\ ~at(p, "idle")
  BY DEF busy, at
<1>3. job[p].ev \in Deployments /\ job[p].row \in Entry
  BY <1>1, <1>2, JobShape DEF TypeOK
<1>4. Trail!ForwardEntry(job[p].row) \/ Trail!BackwardEntry(job[p].row)
  BY <1>1, <1>2 DEF JobsKnowTheirMove
<1>5. event[job[p].ev].type # "absent"
  BY <1>1, <1>2, <1>3 DEF AbsentIsUnknown
<1>6. QED
  BY <1>3, <1>4, <1>5

LEMMA TrailKept == IInv /\ [Next]_vars => HistoryIsTrail' /\ NullIsUntold'
<1> SUFFICES ASSUME IInv, [Next]_vars, NEW d \in Deployments \ ApiKeyed
             PROVE  /\ Trail!Chained(history'[d])
                    /\ Trail!EndsAt(history'[d], event'[d].status)
                    /\ Trail!Entered(history'[d], event'[d].status)
                    /\ event'[d].status = NoStatus => history'[d] = << >>
  BY DEF HistoryIsTrail, NullIsUntold, Trail!Chained, Trail!EndsAt, Trail!Entered,
         Trail!HasOrigin, Trail!moves
<1> DEFINE tr == history[d]
           s == event[d].status
<1>t. /\ TypeOK /\ JobsKnowTheirMove /\ CreationIsOrigin /\ tr \in Seq(Entry)
      /\ s = NoStatus => tr = << >>
      /\ Trail!Chained(tr) /\ Trail!EndsAt(tr, s) /\ Trail!Entered(tr, s)
  BY DEF IInv, TypeOK, HistoryIsTrail, NullIsUntold
<1>1. CASE Untouched(d)
  BY <1>1, <1>t DEF Untouched
<1>2. CASE Born(d)
  <2> DEFINE f == event'[d].status
             e == creationEntry(f)
  <2>1. f \in Statuses /\ f # NoStatus
    BY <1>2, NoStatusIsNone DEF Born
  <2>2. CASE history'[d] = << >>
    BY <2>1, <2>2, NothingTold
  <2>3. CASE history'[d] = << e >>
    <3>1. e \in Entry /\ e.from = NoStatus /\ e.to = f
      BY <2>1, EntryTypes DEF creationEntry, entry
    <3>2. << >> \in Seq(Entry) /\ Append(<< >>, e) = << e >>
      BY <3>1
    <3>3. /\ Trail!Chained(<< e >>)
          /\ Trail!EndsAt(<< e >>, f)
          /\ Trail!Entered(<< e >>, f)
      BY <3>1, <3>2, NothingTold, EntryTold
    <3>4. QED
      BY <2>1, <2>3, <3>3
  <2>4. QED
    BY <1>2, <2>2, <2>3 DEF Born
<1>3. ASSUME NEW p \in Processes, RecordedBy(p, d)
      PROVE  /\ Trail!Chained(history'[d])
             /\ Trail!EndsAt(history'[d], event'[d].status)
             /\ Trail!Entered(history'[d], event'[d].status)
             /\ event'[d].status # NoStatus
  <2> DEFINE e == job[p].row
  <2>1. busy(p) /\ e \in Entry
    BY <1>3, <1>t, JobShape DEF RecordedBy, busy, at, TypeOK
  <2>2. e.from = NoStatus
    <3>1. \A x : creationEntry(x).from = NoStatus
      BY DEF creationEntry, entry
    <3>2. e = creationEntry(e.to)
      BY <1>3, <2>1, <1>t DEF RecordedBy, JobsKnowTheirMove
    <3>3. QED
      BY <3>1, <3>2
  <2>3. Trail!moves(tr) = DOMAIN tr /\ Trail!HasOrigin(tr, s, e.to) /\ s # NoStatus
    BY <1>3, <1>t DEF RecordedBy, CreationIsOrigin
  <2>4. history'[d] = Append(tr, e) /\ event'[d].status = s
    BY <1>3 DEF RecordedBy
  <2>5. QED
    BY <2>1, <2>2, <2>3, <2>4, <1>t, EntryTold
<1>4. ASSUME NEW p \in Processes, MovedBy(p, d)
      PROVE  /\ Trail!Chained(history'[d])
             /\ Trail!EndsAt(history'[d], event'[d].status)
             /\ Trail!Entered(history'[d], event'[d].status)
             /\ event'[d].status # NoStatus
  <2> DEFINE e == job[p].row
  <2>1. e \in Entry /\ (Trail!ForwardEntry(e) \/ Trail!BackwardEntry(e))
    BY <1>4, EntryOfRead DEF MovedBy
  <2>2. s = e.from /\ event'[d].status = e.to /\ history'[d] = Append(tr, e)
    BY <1>4 DEF MovedBy
  <2>3. e.to # NoStatus
    BY <2>1, NoStatusIsNone DEF Entry
  <2>4. CASE e.from # NoStatus
    BY <2>1, <2>2, <2>3, <2>4, <1>t, MoveTold
  <2>5. CASE e.from = NoStatus
    <3>1. tr = << >> /\ << >> \in Seq(Entry)
      BY <2>2, <2>5, <1>t
    <3>2. /\ Trail!Chained(Append(<< >>, e))
          /\ Trail!EndsAt(Append(<< >>, e), e.to)
          /\ Trail!Entered(Append(<< >>, e), e.to)
      BY <2>1, <2>5, <3>1, NothingTold, EntryTold
    <3>3. QED
      BY <2>2, <2>3, <3>1, <3>2
  <2>6. QED
    BY <2>4, <2>5
<1>5. QED
  BY <1>1, <1>2, <1>3, <1>4, RowStep

(***************************************************************************)
(* The creation row that is still to come.                                 *)
(***************************************************************************)
LEMMA WhoCreates ==
    ASSUME IInv, [Next]_vars, NEW q \in Processes, job'[q].pc = "created"
    PROVE  \/ job'[q] = job[q]
           \/ \E s \in FirstStatuses, sched \in Schedules, d \in Deployments :
                 createEvent(q, d, s, sched)
<1>t. TypeOK
  BY DEF IInv
<1> DEFINE Same == job'[q] = job[q]
<1>1. ASSUME NEW p \in Requests, creation(p)
      PROVE  \/ Same
             \/ \E s \in FirstStatuses, sched \in Schedules, d \in Deployments :
                   createEvent(q, d, s, sched)
  <2>1. ASSUME NEW d \in Deployments, NEW s \in FirstStatuses, NEW sched \in Schedules,
               createEvent(p, d, s, sched)
        PROVE  Same \/ q = p
    BY <2>1, <1>t DEF createEvent, TypeOK
  <2>2. CASE recordCreation(p)
    BY <2>2, <1>t DEF recordCreation, NoJob, TypeOK
  <2>3. CASE UNCHANGED job
    BY <2>3
  <2>4. QED
    BY <1>1, <2>1, <2>2, <2>3 DEF creation, createLot, upsertDeployment, upsertIncident
<1>2. ASSUME NEW p \in Requests, session(p) PROVE Same
  <2>1. ASSUME NEW d \in Deployments, NEW role, NEW to, NEW comment,
               transitionDeployStatusAction(p, d, to, role, comment)
        PROVE  Same
    BY <2>1, <1>t DEF transitionDeployStatusAction, readRow, TypeOK
  <2>2. ASSUME NEW d \in Deployments, NEW role, undoDeployStatusAction(p, d, role)
        PROVE  Same
    BY <2>2, <1>t DEF undoDeployStatusAction, TypeOK
  <2>3. QED
    BY <1>2, <2>1, <2>2 DEF session
<1>3. ASSUME NEW p \in Requests, NEW t \in Tokens, consumeActionToken(p, t) PROVE Same
  BY <1>3, <1>t DEF consumeActionToken, TypeOK
<1>4. ASSUME NEW p \in Requests, confirmGo(p) PROVE Same
  <2>1. CASE readRow(p, job[p].ev, job[p].row.to, "lien", FALSE, job[p].row.jti)
    BY <2>1, <1>t DEF readRow, TypeOK
  <2>2. CASE job' = [job EXCEPT ![p].pc = "audit"]
    <3>1. job[p] \in [pc : {"created", "clicked", "read", "audit"}, ev : Deployments, row : Entry]
      BY <1>4, <1>t, JobShape DEF confirmGo, at, TypeOK, Processes
    <3>2. QED
      BY <2>2, <3>1, <1>t DEF TypeOK
  <2>3. CASE job' = [job EXCEPT ![p] = NoJob]
    BY <2>3, <1>t DEF NoJob, TypeOK
  <2>4. QED
    BY <1>4, <2>1, <2>2, <2>3 DEF confirmGo
<1>5. ASSUME NEW p \in Requests, auditClick(p) PROVE Same
  BY <1>5, <1>t DEF auditClick, NoJob, TypeOK
<1>6. ASSUME NEW p \in Processes, commit(p) PROVE Same
  <2>1. NoJob.pc # "created"
    BY DEF NoJob
  <2>2. QED
    BY <1>6, <2>1, <1>t, CommitCases
<1>7. ASSUME NEW c \in Crons, NEW d \in Deployments, promoteNext(c, d) PROVE Same
  <2>1. CASE readRow(c, d, "PENDING", "scheduler", FALSE, NoToken)
    BY <2>1, <1>t DEF readRow, TypeOK
  <2>2. QED
    BY <1>7, <2>1 DEF promoteNext
<1>8. CASE restart
  BY <1>8 DEF restart, NoJob
<1>9. CASE UNCHANGED job
  BY <1>9
<1>10. QED
  BY <1>1, <1>2, <1>3, <1>4, <1>5, <1>6, <1>7, <1>8, <1>9
  DEF Next, vars, click, promotion, promoteScheduledDeployments, comesDue, dispatchUnread,
      dispatchHooks, Processes

LEMMA OriginKept == IInv /\ [Next]_vars => CreationIsOrigin'
<1> SUFFICES ASSUME IInv, [Next]_vars PROVE CreationIsOrigin'
  OBVIOUS
<1>t. TypeOK /\ AbsentIsUnknown /\ CreationIsOrigin
  BY DEF IInv
<1> SUFFICES ASSUME NEW p \in Processes, job'[p].pc = "created", job'[p].ev \notin ApiKeyed
             PROVE  LET d == job'[p].ev
                    IN  /\ Trail!moves(history'[d]) = DOMAIN history'[d]
                        /\ Trail!HasOrigin(history'[d], event'[d].status, job'[p].row.to)
                        /\ event'[d].status # NoStatus
                        /\ \A q \in Processes : job'[q].pc = "created" /\ job'[q].ev = d => p = q
  BY DEF CreationIsOrigin, at, Trail!moves, Trail!HasOrigin
<1> DEFINE d == job'[p].ev
           o == job'[p].row.to
           Origin == /\ Trail!moves(history'[d]) = DOMAIN history'[d]
                     /\ Trail!HasOrigin(history'[d], event'[d].status, o)
                     /\ event'[d].status # NoStatus
                     /\ \A q \in Processes : job'[q].pc = "created" /\ job'[q].ev = d => p = q
<1>1. CASE job'[p] = job[p]
  <2>1. at(p, "created") /\ busy(p) /\ ~at(p, "idle") /\ job[p].ev = d /\ job[p].row.to = o
    BY <1>1 DEF at, busy
  <2>2. d \in Deployments \ ApiKeyed
    BY <2>1, <1>t, JobShape DEF TypeOK
  <2>3. /\ Trail!moves(history[d]) = DOMAIN history[d]
        /\ Trail!HasOrigin(history[d], event[d].status, o)
        /\ event[d].status # NoStatus
        /\ \A q \in Processes : at(q, "created") /\ job[q].ev = d => p = q
    BY <2>1, <2>2, <1>t DEF CreationIsOrigin
  <2>4. event[d].type # "absent"
    BY <2>1, <2>2, <1>t DEF AbsentIsUnknown
  <2>5. \A q \in Processes : job'[q].pc = "created" /\ job'[q].ev = d => p = q
    <3>1. SUFFICES ASSUME NEW q \in Processes, job'[q].pc = "created", job'[q].ev = d
                   PROVE  p = q
      OBVIOUS
    <3>2. CASE job'[q] = job[q]
      BY <3>1, <3>2, <2>3 DEF at
    <3>3. ASSUME NEW s \in FirstStatuses, NEW sched \in Schedules, NEW e \in Deployments,
                 createEvent(q, e, s, sched)
          PROVE  p = q
      <4>1. e = d
        BY <3>1, <3>3, <1>t DEF createEvent, TypeOK
      <4>2. event[d].type = "absent"
        BY <3>3, <4>1 DEF createEvent, absentRow
      <4>3. QED
        BY <4>2, <2>4
    <3>4. QED
      BY <3>1, <3>2, <3>3, WhoCreates
  <2>6. CASE Untouched(d)
    BY <2>3, <2>5, <2>6 DEF Untouched
  <2>7. CASE Born(d)
    BY <2>4, <2>7 DEF Born
  <2>8. ASSUME NEW q \in Processes, RecordedBy(q, d) PROVE Origin
    <3>1. q = p
      BY <2>3, <2>8 DEF RecordedBy
    <3>2. QED
      BY <2>8, <3>1 DEF RecordedBy, NoJob
  <2>9. ASSUME NEW q \in Processes, MovedBy(q, d) PROVE Origin
    <3> DEFINE e == job[q].row
    <3>1. e \in Entry /\ history[d] \in Seq(Entry)
      BY <2>2, <2>9, <1>t, EntryOfRead DEF MovedBy, TypeOK
    <3>2. e.from = event[d].status /\ event'[d].status = e.to
          /\ history'[d] = Append(history[d], e)
      BY <2>9 DEF MovedBy
    <3>3. e.from # NoStatus /\ e.to # NoStatus
      BY <2>3, <3>1, <3>2, NoStatusIsNone DEF Entry
    <3>4. Trail!HasOrigin(history'[d], event'[d].status, o)
      BY <2>3, <3>1, <3>2, <3>3, MoveKeepsOrigin
    <3>5. Trail!moves(history'[d]) = DOMAIN history'[d]
      <4>1. Trail!moves(Append(history[d], e)) = Trail!moves(history[d]) \cup {Len(history[d]) + 1}
        BY <3>1, <3>3, MovesOfAppend
      <4>2. DOMAIN Append(history[d], e) = DOMAIN history[d] \cup {Len(history[d]) + 1}
        BY <3>1, MovesOfAppend
      <4>3. QED
        BY <2>3, <3>2, <4>1, <4>2
    <3>6. QED
      BY <2>5, <3>2, <3>3, <3>4, <3>5
  <2>10. QED
    BY <2>2, <2>6, <2>7, <2>8, <2>9, RowStep
<1>2. ASSUME NEW s \in FirstStatuses, NEW sched \in Schedules, NEW e \in Deployments,
             createEvent(p, e, s, sched)
      PROVE  Origin
  <2>1. /\ job'[p] = [pc |-> "created", ev |-> e, row |-> creationEntry(s)]
        /\ event'[e] = deploymentRow(s, sched)
        /\ history' = history
        /\ \A q \in Processes : q # p => job'[q] = job[q]
    BY <1>2, <1>t DEF createEvent, TypeOK
  <2>2. e = d /\ o = s /\ event'[d].status = s
    BY <2>1 DEF creationEntry, entry, deploymentRow
  <2>3. event[d].type = "absent"
    BY <1>2, <2>2 DEF createEvent, absentRow
  <2>4. history[d] = << >> /\ \A q \in Processes : busy(q) => job[q].ev # d
    BY <1>2, <2>2, <2>3, <1>t DEF AbsentIsUnknown
  <2>5. s # NoStatus
    BY DataAssumption, NoStatusIsNone
  <2>6. \A q \in Processes : job'[q].pc = "created" /\ job'[q].ev = d => p = q
    BY <2>1, <2>4 DEF busy, at
  <2>7. QED
    BY <2>1, <2>2, <2>4, <2>5, <2>6, NothingTold
<1>3. QED
  BY <1>1, <1>2, WhoCreates

(***************************************************************************)
(* The cron.                                                               *)
(***************************************************************************)
LEMMA OnlyConfirmedIsNext ==
    ASSUME NEW s \in Statuses, legal(s, "PENDING")
    PROVE  s = "GO_CONFIRMED"
<1>1. indexOf(s) \in 1..7 /\ DEPLOY_ORDER[indexOf(s)] = s
  BY IndexOf
<1>2. s # NoStatus
  BY NoStatusIsNone
<1>3. nextStatus(s) = "PENDING"
  BY <1>2 DEF legal, canTransition
<1>4. indexOf(s) < 7 /\ DEPLOY_ORDER[indexOf(s) + 1] = "PENDING"
  BY <1>3 DEF nextStatus, NoStatus
<1>5. indexOf(s) = 2
  BY <1>1, <1>4 DEF DEPLOY_ORDER
<1>6. QED
  BY <1>1, <1>5 DEF DEPLOY_ORDER

\* A cron run reads one of the deployments it had listed.
LEMMA WhoPromotes ==
    ASSUME IInv, [Next]_vars, NEW c \in Crons
    PROVE  /\ \A d \in Deployments : d \in todo'[c] => d \in todo[c] \/ isDue(d)
           /\ \/ job'[c].pc # "read"
              \/ job'[c] = job[c]
              \/ \E d \in Deployments : /\ d \in todo[c]
                                        /\ readRow(c, d, "PENDING", "scheduler", FALSE, NoToken)
<1>t. TypeOK /\ c \in Processes /\ c \notin Requests
  BY DataAssumption DEF IInv, Processes
<1> DEFINE Listed == \A d \in Deployments : d \in todo'[c] => d \in todo[c] \/ isDue(d)
           Read == \/ job'[c].pc # "read"
                   \/ job'[c] = job[c]
                   \/ \E d \in Deployments :
                         /\ d \in todo[c]
                         /\ readRow(c, d, "PENDING", "scheduler", FALSE, NoToken)
<1>0. ASSUME todo' = todo, job'[c] = job[c] PROVE Listed /\ Read
  BY <1>0
<1>1. ASSUME NEW p \in Requests, creation(p) PROVE Listed /\ Read
  <2>1. ASSUME NEW d \in Deployments, NEW s, NEW sched, createEvent(p, d, s, sched)
        PROVE  Listed /\ Read
    BY <2>1, <1>0, <1>t DEF createEvent, TypeOK
  <2>2. CASE recordCreation(p)
    BY <2>2, <1>0, <1>t DEF recordCreation, TypeOK
  <2>3. CASE UNCHANGED << todo, job >>
    BY <2>3, <1>0
  <2>4. QED
    BY <1>1, <2>1, <2>2, <2>3 DEF creation, createLot, upsertDeployment, upsertIncident
<1>2. ASSUME NEW p \in Requests, session(p) PROVE Listed /\ Read
  <2>1. ASSUME NEW d \in Deployments, NEW role, NEW to, NEW comment,
               transitionDeployStatusAction(p, d, to, role, comment)
        PROVE  Listed /\ Read
    BY <2>1, <1>0, <1>t DEF transitionDeployStatusAction, readRow, TypeOK
  <2>2. ASSUME NEW d \in Deployments, NEW role, undoDeployStatusAction(p, d, role)
        PROVE  Listed /\ Read
    BY <2>2, <1>0, <1>t DEF undoDeployStatusAction, TypeOK
  <2>3. QED
    BY <1>2, <2>1, <2>2 DEF session
<1>3. ASSUME NEW p \in Requests, click(p) PROVE Listed /\ Read
  <2>1. ASSUME NEW t \in Tokens, consumeActionToken(p, t) PROVE Listed /\ Read
    BY <2>1, <1>0, <1>t DEF consumeActionToken, TypeOK
  <2>2. CASE confirmGo(p)
    BY <2>2, <1>0, <1>t DEF confirmGo, readRow, TypeOK
  <2>3. CASE auditClick(p)
    BY <2>3, <1>0, <1>t DEF auditClick, TypeOK
  <2>4. QED
    BY <1>3, <2>1, <2>2, <2>3 DEF click
<1>4. ASSUME NEW p \in Processes, commit(p) PROVE Listed /\ Read
  <2>1. job'[c].pc # "read" \/ job'[c] = job[c]
    <3>1. NoJob.pc # "read"
      BY DEF NoJob
    <3>2. QED
      BY <1>4, <1>t, <3>1, CommitCases
  <2>2. QED
    BY <1>4, <2>1 DEF commit
<1>5. ASSUME NEW k \in Crons, promoteScheduledDeployments(k) PROVE Listed /\ Read
  BY <1>5, <1>t DEF promoteScheduledDeployments, TypeOK
<1>6. ASSUME NEW k \in Crons, NEW e \in Deployments, promoteNext(k, e) PROVE Listed /\ Read
  <2>1. Listed /\ e \in todo[k]
    BY <1>6, <1>t DEF promoteNext, TypeOK
  <2>2. CASE job' = job
    BY <2>1, <2>2
  <2>3. CASE readRow(k, e, "PENDING", "scheduler", FALSE, NoToken)
    <3>1. CASE k = c
      BY <2>1, <2>3, <3>1
    <3>2. CASE k # c
      BY <2>1, <2>3, <3>2, <1>t DEF readRow, TypeOK
    <3>3. QED
      BY <3>1, <3>2
  <2>4. QED
    BY <1>6, <2>2, <2>3 DEF promoteNext
<1>7. CASE restart
  BY <1>7, <1>t DEF restart, NoJob
<1>8. CASE UNCHANGED << todo, job >>
  BY <1>8, <1>0
<1>9. QED
  BY <1>1, <1>2, <1>3, <1>4, <1>5, <1>6, <1>7, <1>8
  DEF Next, vars, promotion, comesDue, dispatchUnread, dispatchHooks, Processes

LEMMA DueKept == IInv /\ [Next]_vars => ListedIsDue'
<1> SUFFICES ASSUME IInv, [Next]_vars, NEW c \in Crons, NEW d \in Deployments \ ApiKeyed
             PROVE  /\ d \in todo'[c] => event'[d].sched = "due" /\ event'[d].status # NoStatus
                    /\ job'[c].pc = "read" /\ job'[c].ev = d =>
                          event'[d].sched = "due" /\ job'[c].row.from = "GO_CONFIRMED"
  BY DEF ListedIsDue, at
<1>t. TypeOK /\ AbsentIsUnknown /\ ListedIsDue /\ CreationIsOrigin /\ c \in Processes
  BY DEF IInv, Processes
<1>1. event[d].sched = "due" /\ event[d].type # "absent" => event'[d].sched = "due"
  BY RowStep
<1>2. event[d].type # "absent" /\ event[d].status # NoStatus => event'[d].status # NoStatus
  <2>1. ASSUME NEW p \in Processes, MovedBy(p, d) PROVE event'[d].status # NoStatus
    BY <2>1, EntryOfRead, NoStatusIsNone DEF MovedBy, Entry
  <2>2. QED
    BY <2>1, RowStep DEF Untouched, Born, RecordedBy
<1>3. ASSUME d \in todo'[c]
      PROVE  event'[d].sched = "due" /\ event'[d].status # NoStatus
  <2>1. /\ event[d].type # "absent"
        /\ event[d].sched = "due"
        /\ event[d].status # NoStatus
    <3>1. CASE d \in todo[c]
      BY <3>1, <1>t DEF ListedIsDue, AbsentIsUnknown
    <3>2. CASE isDue(d)
      BY <3>2 DEF isDue, NoStatus
    <3>3. QED
      BY <1>3, <3>1, <3>2, WhoPromotes
  <2>2. QED
    BY <2>1, <1>1, <1>2
<1>4. ASSUME job'[c].pc = "read", job'[c].ev = d
      PROVE  event'[d].sched = "due" /\ job'[c].row.from = "GO_CONFIRMED"
  <2>1. CASE job'[c] = job[c]
    <3>1. at(c, "read") /\ busy(c) /\ job[c].ev = d
      BY <1>4, <2>1 DEF at, busy
    <3>2. event[d].type # "absent"
      BY <3>1, <1>t DEF AbsentIsUnknown
    <3>3. QED
      BY <2>1, <3>1, <3>2, <1>1, <1>t DEF ListedIsDue
  <2>2. ASSUME NEW e \in Deployments, e \in todo[c],
               readRow(c, e, "PENDING", "scheduler", FALSE, NoToken)
        PROVE  event'[d].sched = "due" /\ job'[c].row.from = "GO_CONFIRMED"
    <3>1. e = d /\ job'[c].row.from = event[d].status
      <4>1. job'[c] = [pc |-> "read", ev |-> e,
                       row |-> entry(event[e].status, "PENDING", "scheduler", FALSE, NoToken)]
        BY <2>2, <1>t DEF readRow, TypeOK
      <4>2. QED
        BY <1>4, <4>1 DEF entry
    <3>2. event[d].type # "absent" /\ legal(event[d].status, "PENDING")
      BY <2>2, <3>1 DEF readRow
    <3>3. event[d].sched = "due" /\ event[d].status \in Statuses
      BY <2>2, <3>1, <1>t DEF ListedIsDue, TypeOK, EventRow, StatusOrNone
    <3>4. QED
      BY <3>1, <3>2, <3>3, <1>1, OnlyConfirmedIsNext
  <2>3. QED
    BY <1>4, <2>1, <2>2, WhoPromotes
<1>5. QED
  BY <1>3, <1>4

(***************************************************************************)
(* The inductive invariant holds, and with it the invariants of the runs.  *)
(***************************************************************************)
LEMMA InitInv == Init => IInv
<1> SUFFICES ASSUME Init PROVE IInv
  OBVIOUS
<1>1. TypeOK
  BY InitType
<1>2. /\ \A d \in Deployments : history[d] = << >> /\ event[d].type # "INCIDENT"
      /\ \A p \in Processes : ~busy(p) /\ job[p].pc = "idle"
      /\ \A t \in Tokens : link[t] = NoLink
      /\ \A c \in Crons : todo[c] = {}
      /\ used = {} /\ audited = {}
  <2>1. \A s \in FirstStatuses \cup {NoStatus} : deploymentRow(s, "none").type = "DEPLOYMENT"
    BY DEF deploymentRow
  <2>2. absentRow.type = "absent"
    BY DEF absentRow
  <2>3. \A d \in Deployments : event[d].type # "INCIDENT"
    BY <2>1, <2>2 DEF Init
  <2>4. QED
    BY <2>3 DEF Init, NoJob, busy, at
<1>3. \A d \in Deployments : DOMAIN history[d] = {}
  BY <1>2, NothingTold
<1>4. \A t \in Tokens : link[t].ev \notin Deployments
  BY <1>2, DataAssumption DEF NoLink
<1>5. JobsKnowTheirMove /\ LinksHaveOneHolder /\ CreationIsOrigin
  BY <1>2 DEF JobsKnowTheirMove, LinksHaveOneHolder, CreationIsOrigin, busy, at
<1>6. SpentIsMinted /\ AuditedClickMoved /\ LinkMovesOnce
  <2>1. SpentIsMinted
    BY <1>2 DEF SpentIsMinted, at
  <2>2. AuditedClickMoved
    BY <1>2 DEF AuditedClickMoved
  <2>3. LinkMovesOnce
    BY <1>3, Zenon DEF LinkMovesOnce
  <2>4. QED
    BY <2>1, <2>2, <2>3
<1>7. HistoryIsTrail /\ NullIsUntold /\ ListedIsDue
  <2>1. HistoryIsTrail
    BY <1>2, NothingTold DEF HistoryIsTrail
  <2>2. NullIsUntold
    BY <1>2 DEF NullIsUntold
  <2>3. ListedIsDue
    BY <1>2 DEF ListedIsDue, at, Processes
  <2>4. QED
    BY <2>1, <2>2, <2>3
<1>8. AbsentIsUnknown
  BY <1>2, <1>4 DEF AbsentIsUnknown
<1>9. QED
  BY <1>1, <1>5, <1>6, <1>7, <1>8 DEF IInv

LEMMA StepInv == IInv /\ [Next]_vars => IInv'
<1> SUFFICES ASSUME IInv, [Next]_vars PROVE IInv'
  OBVIOUS
<1>1. TypeOK'
  BY StepType DEF IInv
<1>2. LinksHaveOneHolder' /\ LinkMovesOnce'
  BY LinksKept DEF LinksTold
<1>3. QED
  BY <1>1, <1>2, MovesKept, AbsentKept, AuditKept, OriginKept, TrailKept, DueKept DEF IInv

LEMMA Inductive == Spec => []IInv
BY InitInv, StepInv, PTL DEF Spec

(***************************************************************************)
(* Theorems.                                                               *)
(***************************************************************************)

\* Every row, entry, job and link is well formed, whatever the interleaving.
THEOREM TypeCorrect == Spec => []TypeOK
<1>1. IInv => TypeOK
  BY DEF IInv
<1>2. QED
  BY <1>1, Inductive, PTL

\* Racing clicks of any number of links, holders and restarts: a link causes
\* at most one move, the one it was minted for (consumeActionToken's insert).
THEOREM OneMovePerLink == Spec => []LinkMovesOnce
<1>1. IInv => LinkMovesOnce
  BY DEF IInv
<1>2. QED
  BY <1>1, Inductive, PTL

\* A success in the audit log of one-click links stands for a row of history.
THEOREM AuditIsTrue == Spec => []AuditedClickMoved
<1>1. IInv => AuditedClickMoved
  BY DEF IInv
<1>2. QED
  BY <1>1, Inductive, PTL

\* The history of a deployment no PUT can reach chains, ends at its status and
\* has one beginning, although rows are written long after what they tell.
THEOREM HistoryTellsTheLife == Spec => []HistoryIsTrail
<1>1. IInv => HistoryIsTrail
  BY DEF IInv
<1>2. QED
  BY <1>1, Inductive, PTL

\* However old the list it works through, the cron promotes only what is
\* confirmed and due at the moment it writes.
THEOREM PromotionIsTimely == Spec => PromotedWhenDue
<1> DEFINE Timely == \A d \in Deployments \ ApiKeyed, c \in Crons :
                        (event'[d].status # event[d].status /\ at(c, "read") /\ job[c].ev = d
                           /\ job'[c] # job[c])
                           => event[d].status = "GO_CONFIRMED" /\ event[d].sched = "due"
<1>1. IInv /\ [Next]_vars => [Timely]_vars
  <2>1. SUFFICES ASSUME IInv, [Next]_vars, NEW d \in Deployments \ ApiKeyed, NEW c \in Crons,
                        event'[d].status # event[d].status, at(c, "read"), job[c].ev = d,
                        job'[c] # job[c]
                 PROVE  event[d].status = "GO_CONFIRMED" /\ event[d].sched = "due"
    OBVIOUS
  <2>2. c \in Processes /\ busy(c)
    BY <2>1 DEF Processes, busy, at
  <2>3. event[d].type # "absent"
    BY <2>1, <2>2 DEF IInv, AbsentIsUnknown
  <2>4. event[d].sched = "due" /\ job[c].row.from = "GO_CONFIRMED"
    BY <2>1 DEF IInv, ListedIsDue
  <2>5. \E p \in Processes : MovedBy(p, d)
    BY <2>1, <2>3, RowStep DEF Untouched, Born, RecordedBy
  <2>6. MovedBy(c, d)
    BY <2>1, <2>2, <2>5 DEF MovedBy
  <2>7. QED
    BY <2>4, <2>6 DEF MovedBy
<1>2. QED
  BY <1>1, Inductive, PTL DEF Spec, PromotedWhenDue

(***************************************************************************)
(* The handlers implement the abstract trail.                              *)
(***************************************************************************)
seen == [d \in Deployments |-> statusOf(event[d])]

LEMMA SeenInit == Init => Trail!TrailInit
<1> SUFFICES ASSUME Init PROVE Trail!TrailInit
  OBVIOUS
<1>1. TypeOK
  BY InitType
<1>2. seen \in [Deployments -> StatusOrNone \cup {"absent"}]
  BY <1>1 DEF seen, statusOf, TypeOK, EventRow
<1>3. QED
  BY <1>2, SameWorkflow DEF Init, Trail!TrailInit, seen

\* Nothing a reader of the trail can see.
LEMMA SeenStutter ==
    ASSUME history' = history,
           \A d \in Deployments : event'[d].type = event[d].type /\ event'[d].status = event[d].status
    PROVE  UNCHANGED Trail!trailVars
<1>1. \A d \in Deployments : statusOf(event'[d]) = statusOf(event[d])
  BY DEF statusOf
<1>2. [d \in Deployments |-> statusOf(event'[d])] = [d \in Deployments |-> statusOf(event[d])]
  BY <1>1
<1>3. QED
  BY <1>2 DEF Trail!trailVars

\* One row of Event changes.
LEMMA SeenOne ==
    ASSUME TypeOK, NEW d \in Deployments, NEW r, event' = [event EXCEPT ![d] = r]
    PROVE  [e \in Deployments |-> statusOf(event'[e])] = [seen EXCEPT ![d] = statusOf(r)]
<1>1. \A e \in Deployments : event'[e] = IF e = d THEN r ELSE event[e]
  BY DEF TypeOK
<1>2. \A e \in Deployments : statusOf(event'[e]) = IF e = d THEN statusOf(r) ELSE seen[e]
  BY <1>1 DEF seen
<1>3. seen = [e \in Deployments |-> seen[e]]
  BY DEF seen
<1>4. QED
  BY <1>2, <1>3

LEMMA SeenStep == IInv /\ [Next]_vars => [Trail!TrailNext]_(Trail!trailVars)
<1> SUFFICES ASSUME IInv, [Next]_vars PROVE Trail!TrailNext \/ UNCHANGED Trail!trailVars
  OBVIOUS
<1> DEFINE Goal == Trail!TrailNext \/ UNCHANGED Trail!trailVars
<1>t. TypeOK /\ CreationIsOrigin /\ AbsentIsUnknown
  BY DEF IInv
<1>0. ASSUME event' = event, history' = history PROVE Goal
  BY <1>0, SeenStutter
<1>1. ASSUME NEW p \in Requests, creation(p) PROVE Goal
  <2>1. ASSUME NEW s \in FirstStatuses, NEW sched \in Schedules, NEW d \in Deployments,
               createEvent(p, d, s, sched)
        PROVE  Goal
    <3>1. s \in StatusOrNone
      BY DataAssumption DEF StatusOrNone
    <3>2. statusOf(deploymentRow(s, sched)) = s
      BY DEF statusOf, deploymentRow
    <3>3. [e \in Deployments |-> statusOf(event'[e])] = [seen EXCEPT ![d] = s]
      BY <2>1, <3>2, <1>t, SeenOne DEF createEvent
    <3>4. seen[d] = "absent"
      BY <2>1 DEF createEvent, seen, statusOf, absentRow
    <3>5. Trail!Appear(d, s)
      BY <2>1, <3>3, <3>4 DEF Trail!Appear, createEvent, seen
    <3>6. QED
      BY <3>1, <3>5, SameWorkflow DEF Trail!TrailNext
  <2>2. ASSUME NEW s \in FirstStatuses, NEW sched \in Schedules, NEW D \in SUBSET Deployments,
               createLot(p, D, s, sched)
        PROVE  Goal
    <3>1. s \in Statuses
      BY DataAssumption
    <3>2. statusOf(deploymentRow(s, sched)) = s /\ statusOf(absentRow) = "absent"
      BY DEF statusOf, deploymentRow, absentRow
    <3>3. \A d \in Deployments : statusOf(event'[d]) = IF d \in D THEN s ELSE seen[d]
      BY <2>2, <3>2 DEF createLot, seen
    <3>4. \A d \in D : seen[d] = "absent"
      BY <2>2, <3>2 DEF createLot, seen
    <3>5. history' = [d \in Deployments |->
                         IF d \in D THEN << Trail!creationEntry(s) >> ELSE history[d]]
      BY <2>2, SameWorkflow DEF createLot
    <3>6. Trail!AppearRecorded(D, s)
      BY <3>3, <3>4, <3>5 DEF Trail!AppearRecorded, seen
    <3>7. QED
      BY <3>1, <3>6, SameWorkflow DEF Trail!TrailNext
  <2>3. ASSUME NEW s \in FirstStatuses, NEW sched \in Schedules, NEW d \in ApiKeyed,
               upsertDeployment(p, d, s, sched)
        PROVE  Goal
    <3>1. s \in Statuses /\ d \in Deployments
      BY DataAssumption
    <3>2. statusOf(deploymentRow(s, sched)) = s
      BY DEF statusOf, deploymentRow
    <3>3. [e \in Deployments |-> statusOf(event'[e])] = [seen EXCEPT ![d] = s]
      BY <2>3, <3>1, <3>2, <1>t, SeenOne DEF upsertDeployment
    <3>4. Trail!Overwrite(d, s)
      BY <2>3, <3>3 DEF Trail!Overwrite, upsertDeployment, seen
    <3>5. QED
      BY <3>1, <3>4, SameWorkflow DEF Trail!TrailNext
  <2>4. ASSUME NEW d \in ApiKeyed, upsertIncident(p, d) PROVE Goal
    <3> DEFINE r == [event[d] EXCEPT !.type = "INCIDENT"]
    <3>1. d \in Deployments /\ event[d] \in EventRow
      BY DataAssumption, <1>t DEF TypeOK
    <3>2. event' = [event EXCEPT ![d] = r] /\ history' = history
      BY <2>4 DEF upsertIncident
    <3>3. r.type = "INCIDENT" /\ r.status = event[d].status
      BY <3>1 DEF EventRow
    <3>4. statusOf(r) = event[d].status
      BY <3>3 DEF statusOf
    <3>5. [e \in Deployments |-> statusOf(event'[e])] = [seen EXCEPT ![d] = event[d].status]
      BY <3>1, <3>2, <3>4, <1>t, SeenOne
    <3>6. Trail!Appear(d, event[d].status) \/ UNCHANGED Trail!trailVars
      <4>1. CASE event[d].type = "absent"
        <5>1. seen[d] = "absent"
          BY <3>1, <4>1 DEF seen, statusOf
        <5>2. QED
          BY <3>2, <3>5, <5>1 DEF Trail!Appear, seen
      <4>2. CASE event[d].type # "absent"
        <5>1. seen[d] = event[d].status
          BY <3>1, <4>2 DEF seen, statusOf
        <5>2. [seen EXCEPT ![d] = event[d].status] = seen
          BY <3>1, <5>1 DEF seen
        <5>3. QED
          BY <3>2, <3>5, <5>2 DEF Trail!trailVars, seen
      <4>3. QED
        BY <4>1, <4>2
    <3>7. event[d].status \in StatusOrNone
      BY <3>1 DEF EventRow
    <3>8. QED
      BY <3>1, <3>6, <3>7, SameWorkflow DEF Trail!TrailNext
  <2>5. CASE recordCreation(p)
    <3> DEFINE d == job[p].ev
               s == job[p].row.to
    <3>1. /\ busy(p) /\ at(p, "created") /\ p \in Processes
          /\ d \in Deployments /\ job[p].row \in Entry
      BY <2>5, <1>t, JobShape DEF recordCreation, busy, at, TypeOK, Processes
    <3>2. job[p].row = Trail!creationEntry(s) /\ s \in Statuses
      BY <3>1, SameWorkflow DEF IInv, JobsKnowTheirMove, Entry
    <3>3. d \notin ApiKeyed => /\ Trail!moves(history[d]) = DOMAIN history[d]
                               /\ Trail!HasOrigin(history[d], event[d].status, s)
      BY <3>1, <1>t DEF CreationIsOrigin
    <3>4. seen[d] = event[d].status
      BY <3>1, <1>t DEF seen, statusOf, AbsentIsUnknown
    <3>5. history' = [history EXCEPT ![d] = Append(@, Trail!creationEntry(s))] /\ event' = event
      BY <2>5, <3>2 DEF recordCreation
    <3>6. Trail!RecordCreation(d, s)
      BY <3>3, <3>4, <3>5 DEF Trail!RecordCreation, seen
    <3>7. QED
      BY <3>1, <3>2, <3>6, SameWorkflow DEF Trail!TrailNext
  <2>6. QED
    BY <1>1, <2>1, <2>2, <2>3, <2>4, <2>5 DEF creation
<1>2. ASSUME NEW p \in Requests, session(p) PROVE Goal
  BY <1>2, <1>0 DEF session, transitionDeployStatusAction, undoDeployStatusAction
<1>3. ASSUME NEW p \in Requests, click(p) PROVE Goal
  BY <1>3, <1>0 DEF click, consumeActionToken, confirmGo, auditClick
<1>4. ASSUME NEW p \in Processes, commit(p) PROVE Goal
  <2> DEFINE d == job[p].ev
             row == job[p].row
  <2>1. /\ d \in Deployments /\ row \in Entry /\ history[d] \in Seq(Entry)
        /\ event[d].type # "absent" /\ event[d] \in EventRow
        /\ Trail!ForwardEntry(row) \/ Trail!BackwardEntry(row)
    <3>1. at(p, "read")
      BY <1>4 DEF commit
    <3>2. QED
      BY <3>1, <1>t, EntryOfRead DEF TypeOK
  <2>2. CASE stillThere(d, row.from)
    <3>1. /\ event' = [event EXCEPT ![d] = [event[d] EXCEPT !.status = row.to]]
          /\ history' = [history EXCEPT ![d] = Append(@, row)]
          /\ event[d].status = row.from
      BY <1>4, <2>2 DEF commit, stillThere
    <3>2. statusOf([event[d] EXCEPT !.status = row.to]) = row.to
      BY <2>1 DEF statusOf, EventRow
    <3>3. [e \in Deployments |-> statusOf(event'[e])] = [seen EXCEPT ![d] = row.to]
      <4> DEFINE r == [event[d] EXCEPT !.status = row.to]
      <4>1. event' = [event EXCEPT ![d] = r] /\ statusOf(r) = row.to
        BY <3>1, <3>2
      <4>2. d \in Deployments /\ TypeOK
        BY <2>1, <1>t
      <4> HIDE DEF r
      <4>3. QED
        BY <4>1, <4>2, SeenOne
    <3>4. seen[d] = row.from
      BY <2>1, <3>1 DEF seen, statusOf
    <3>5. Trail!Move(d, row)
      BY <2>1, <3>1, <3>3, <3>4 DEF Trail!Move, seen
    <3>6. /\ Len(history'[d]) = Len(history[d]) + 1
          /\ history'[d][Len(history[d]) + 1] = row
      <4>1. history'[d] = Append(history[d], row)
        BY <2>1, <3>1, <1>t DEF TypeOK
      <4>2. QED
        BY <2>1, <4>1
    <3>7. QED
      BY <2>1, <3>5, <3>6 DEF Trail!TrailNext
  <2>3. CASE ~stillThere(d, row.from)
    BY <1>4, <2>3, <1>0 DEF commit
  <2>4. QED
    BY <2>2, <2>3
<1>5. ASSUME NEW c \in Crons, promotion(c) PROVE Goal
  BY <1>5, <1>0, <1>4 DEF promotion, promoteScheduledDeployments, promoteNext, Processes
<1>6. ASSUME NEW e \in Deployments, comesDue(e) PROVE Goal
  <2>1. event' = [event EXCEPT ![e] = [event[e] EXCEPT !.sched = "due"]] /\ history' = history
    BY <1>6 DEF comesDue
  <2>2. \A d \in Deployments : event[d] \in EventRow
    BY <1>t DEF TypeOK
  <2>3. \A d \in Deployments : event'[d] = IF d = e THEN [event[d] EXCEPT !.sched = "due"] ELSE event[d]
    BY <2>1, <1>t DEF TypeOK
  <2>4. \A d \in Deployments : event'[d].type = event[d].type /\ event'[d].status = event[d].status
    BY <2>2, <2>3 DEF EventRow
  <2>5. QED
    BY <2>1, <2>4, SeenStutter
<1>7. ASSUME NEW e \in Deployments,
             dispatchUnread(e) \/ \E t \in Tokens : dispatchHooks(e, t)
      PROVE  Goal
  BY <1>7, <1>0 DEF dispatchUnread, dispatchHooks
<1>8. CASE restart \/ UNCHANGED vars
  BY <1>8, <1>0 DEF restart, vars
<1>9. QED
  BY <1>1, <1>2, <1>3, <1>4, <1>5, <1>6, <1>7, <1>8 DEF Next, Processes

\* Requests that read, decide and commit apart implement a register with a
\* log, whose every change is one atomic, legal and entitled move.
THEOREM HandlersImplementTrail == Spec => ImplementsTrail
<1>1. Init => Trail!TrailInit
  BY SeenInit
<1>2. IInv /\ [Next]_vars => [Trail!TrailNext]_(Trail!trailVars)
  BY SeenStep
<1>3. QED
  BY <1>1, <1>2, Inductive, PTL DEF Spec, ImplementsTrail, Trail!TrailSpec

=============================================================================
