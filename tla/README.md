# Release Chronicle in TLA+

Release Chronicle records what happens to services: deployments with a
workflow, incidents, maintenances. It is a Next.js 15 application over
PostgreSQL (Prisma, READ COMMITTED). Each HTTP request or server action is a
handler that reads, awaits, and writes, concurrently with the others; very
little runs in a transaction, hooks are started and not awaited, and crons are
HTTP calls that may overlap and repeat. In the browser a page holds a copy of
what it read, and forms fetch lists whose answers come in any order. The
interesting errors are therefore between two awaits, and that is what these
modules are about: **where another handler can act between two queries, each
query is a step of its own.**

Paths below are relative to the repository's `src/` application unless they say
otherwise: `lib/x` is `src/lib/x`, `README.md` is the repository's.

## 1. The system

| Component | State | Operations | Interacts with | Hard behaviour | What makes it correct |
|---|---|---|---|---|---|
| Deployment workflow (`lib/events.ts`, `lib/deployWorkflow.ts`, `app/actions/events.ts`) | `Event.deployStatus`, rows of `StatusTransition` | create, transition, undo, PUT | everything below | read and decide outside the transaction; compare-and-set inside | the history tells how the status came to be what it is |
| Scheduled promotion (`lib/scheduledPromote.ts`) | none of its own | list due, promote each | workflow, hooks | stale list; overlapping runs | due ones are promoted, and nothing else |
| One-click links (`lib/actionToken.ts`, `lib/actionTokenUse.ts`, `app/api/go/[token]`) | `ActionTokenUse`, links in mailboxes | mint, consume, confirm, audit | hooks mint, workflow moves | clicks race; old links; crash after consuming | a link moves once, what is audited happened |
| Hooks (`lib/hooks/`) | `Hook`, `NotificationTarget`, `HookDelivery` | dispatch, create and delete hooks and targets | every request emits | runs after the response; many queries; lost at a restart | who asked is told of what took place, once, and it is logged |
| Lots (`lib/autoLot.ts`, `lib/deployLot.ts`) | `Event.lot`, `Event.autoLot` | attach on ingestion, sweep, set by hand, forms | ingestion | long read-then-write against people | neighbours end in one lot, lots made by hand stay |
| Ingestion (`lib/ingest.ts`, `lib/ingestDeployment.ts`, `lib/eventValidation.ts`) | `Event` | POST, PUT by `externalId`, CI endpoint | workflow, lots, drift, hooks | PUT rewrites beside the workflow | what is stored is what was said, nothing half stored |
| Excel (`app/actions/excel.ts`, `lib/excel.ts`) | `Event` | import (all or nothing), export | ingestion | columns the sheet lacks | what goes out comes back |
| Runtime drift (`lib/runtimeDrift.ts`) | `RuntimeState`, `BUILD_DRIFT` incidents | report | ingestion | look up, then create | one open incident exactly while there is drift |
| Rollbacks (`lib/rollbackDetect.ts`, `rollbackToPreviousVersion`) | `Rollback`, tag `rollback` | detect, record | ingestion | look up, then push | each reverted deployment tagged once |
| Incidents, annotations | columns of `Event`, `QaValidation`, `Observation`, `EventComment` | update, add, date | | PRE and POST around their parent | a phase is on its side of its deployment |
| Hierarchy (`lib/hierarchy.ts`, `lib/slug.ts`) | `Company`, `Product`, `Service` | create, update, move, order | all | check, then write | slugs unique, one main service per product |
| Environments, tags (`lib/environment.ts`, `lib/envWorkflow.ts`, `lib/tags.ts`) | `EnvironmentConfig`, `TagConfig` | create, order, rename, delete | ingestion | several statements | a tag and its configuration go together |
| Sign-in (`lib/auth/`, `app/api/auth/login`), rate limit (`lib/rateLimit.ts`) | cookie, windows in memory | login, check, fail, reset | directory | check, await, count | attempts are limited, roles end |
| Directory sync (`lib/auth/ldapSync.ts`) | `DirectoryUser` | sync | LDAP | overlapping runs, failures | the table is some listing |
| Visibility (`lib/visibility.ts`, `lib/apiVisibility.ts`), calendars (`lib/calendarQuery.ts`) | public flags, public types, feed tokens | set, read by each door | every door | several queries while flags change; one rule written at each door | nothing private is shown, nothing public is missed |
| Read models (`lib/eventTimeline.ts`, `lib/releaseTrace.ts`, `lib/dora.ts`, `lib/derive.ts`) | none | pure functions | the page | filters, boundaries | readers tell one story |
| The page of a service (`components/`) | a copy of the events, a drawer, dialogs, forms | refresh, select, type, save, confirm, create | all session actions | refreshes under an open drawer; late answers | what is written is what was shown |
| Audit (`lib/audit.ts`) | `AuditLog` | append, best effort | | written beside what it tells | what it says happened |

Interaction in one line: a request writes `Event`, ingestion goes on with the
lot and the rollback detection, then a dispatch is started; the dispatch mints a
link for the next status and sends it to hooks; the link, a session or the cron
makes the next move, which starts a dispatch; pages refresh and show it.

## 2. The modules

| Module | Models | Begin with |
|---|---|---|
| `DeployWorkflow` | `lib/deployWorkflow.ts` as operators, the shape of a row of history | `DEPLOY_ORDER`, `legal` |
| `StatusTrail` | the abstract specification: a status with a log, each change one atomic step | `Move`, `TrailNext` |
| `DeployStatus` | creation, PUT, transition, undo, links, cron, restart, await by await | `commit`, `Next` |
| `DeployStatusProofs` | theorems about it | `IInv` |
| `HookDispatch` | dispatches and the administration of hooks, over `StatusTrail` | `dispatchHooks`, `log` |
| `HookDispatchProofs` | theorems about it | `HookInv` |
| `AutoLot` | attachment, sweep and edits of lots | `attachToAutoLot`, `group` |
| `AutoLotProofs` | theorems about it | `LotInv` |
| `EventBody` | validators, columns, the sheet of an export | `validateDeploymentBody`, `rowToBody` |
| `EventRecords` | the rows of events and who writes them | `RecordsStep` |
| `EventRecordsProofs` | theorems about it, and about `EventBody` | `RecordsInv`, `NotesDated` |
| `Reading` | what readers make of the events of a service: pure operators | `timelineEntry` |
| `ServicePage` | the page of a service: copy, drawer, dialogs | `PageStep` |
| `ServicePageProofs` | theorems about it and about `Reading`, on those of `EventRecordsProofs`; the types of all of `records` | `ServicePageInv`, `PageFits`, `Legible` |
| `Dialogs` | the forms that create events and lots | `DialogsStep` |
| `BuildWatch` | drift of builds and detected rollbacks | `driftStep`, `rollbackStep` |
| `BuildWatchProofs` | theorems about it | `WatchInv` |
| `Hierarchy` | companies, products and services as nodes | `HierarchyNext` |
| `Settings` | environments, tags, and what names them | `environmentStep`, `tagStep` |
| `AdministrationProofs` | theorems about `Hierarchy`, `Settings` and `Dialogs`; the types of all of `administration` | `HierarchyInv`, `SettingsInv`, `DialogsInv` |
| `Access` | sign-in, limiter, sessions, directory sync | `loginStep`, `syncStep` |
| `Visibility` | what visitors are shown, door by door | `turns`, `answer` |
| `AccessProofs` | theorems about `Access` and `Visibility` | `AccessInv`, `VisibilityInv` |
| `MCDeployStatus`, `MCHookDispatch`, `MCAutoLot`, `MCJobs`, `MCBuildWatch`, `MCEventRecords`, `MCAdministration` | values, scenes, symmetry for TLC | |

How they compose:

    DeployWorkflow <- StatusTrail <- DeployStatus (implements it) <- DeployStatusProofs
                           ^----- HookDispatch --------------.
    DeployWorkflow <- EventBody <- EventRecords <- ServicePage <- MCEventRecords
                          ^------- Reading -----------^
                          ^------- Dialogs -----------.
    Hierarchy, Settings, Access, Visibility <--------- MCAdministration
    M <- MProofs; Access, Visibility <- AccessProofs
    MCAdministration, AccessProofs <- AdministrationProofs
    MCEventRecords, EventRecordsProofs, HookDispatchProofs <- ServicePageProofs

`HookDispatch` stands on `StatusTrail` and not on `DeployStatus`: since the
handlers implement the atomic register with a log, a dispatch can be studied
against the register, with far fewer states. For the same reason
`EventRecords` moves a status in one step. `ServicePage` sends its requests to the
very session actions of `EventRecords`, and shows through the operators of `Reading`.

### DeployStatus

`event[d]` has the columns of `Event` that the workflow reads: type, status, and
`scheduledAt` as none, later than the lead window, or due. `history[d]` is the
rows of `StatusTransition`, oldest first; the row also bears the link used, which
the table does not, for the properties to speak of. `job[p]` is what handler `p`
remembers between two awaits:

| `pc` | The handler is | Next step |
|---|---|---|
| `created` | in `createEvent` (`lib/events.ts:38`), after the event, before its first row | `recordCreation` |
| `read` | in `transitionDeployStatus` or `undoDeployStatus`, after the read, before the transaction | `commit` |
| `clicked` | in the one-click route, after `consumeActionToken` | `confirmGo` |
| `audit` | after the move, before the audit row and the hooks | `auditClick` |

`todo[c]` is the rest of the list a cron run read. `emitted[d]` counts
dispatches that have not read the event yet; when one runs it mints a link if
there is a next status. `restart` empties `job`, `todo` and `emitted`, and keeps
the tables. A failing database call is the same to the other handlers as a
restart of that one handler, and adds no write.

What is abstracted: actors are the role they acted under; a comment is given or
not; a refused request (422, 403, 409) changes nothing and so is a step not
taken; a link that has expired is one nobody clicks; a lot is created with one
status for all, as its form does; `Init` allows rows with no status or no
history, which older data has. Dates that leave the lead window again, and
audit rows of failed clicks, are left out. Bodies carry the statuses
`FirstStatuses` only.

### HookDispatch

A dispatch goes `emitted`, `hooked` (event and hooks read), `read` (their targets too), `sending` (latest
transition read, hooks filtered), `sent` and back to `sending` for each hook,
and may end `thrown` or `lost`. It keeps the row its request committed, which
the code does not give it. A hook created with `"*"` lists every kind. Hooks
are all of one product. A deleted hook keeps its subscription in the model for
the dispatches that hold a copy of it. `targetRow[t]` is the configuration of a shared target,
numbered as they come; `aims` is the configuration a dispatch read for each hook, 0 being the hook's own, and `since` (history)
those there were when it was emitted. An unknown connector is a failed attempt.

### AutoLot

`attachToAutoLot` is `attach`, `counting`, `searching`, `sifting` and the final
update, one step per await (a row that is automatic is sifted without one; the
extra step reads and writes nothing shared). A label is a name given by people,
or a stem (`LOT-AUTO`, or a main service) with the date of the anchor. Dates are
constants: editing one is not modelled. `calm` is a history variable.

### EventBody and EventRecords

A body is a function from the keys it has to texts and dates; a key that is absent,
blank (`NoText`) or no date (`BadDate`) is told apart, since the validators do. A row has
all columns of `Event` that a request can set but metadata and links. Services are one text for
their three slugs.

`rows[i]` is the row with identifier `i`; `notes[i]` its annotations, transitions
and rollbacks; `job[s]` what a session action has read so far; `sheet` the last
workbook exported. `api`, `ingestDeployment` and the import are one step each: the
first two because what they read between their awaits is not edited here, the
last because the code has it in one transaction. A session action is one
step per query. `redated` and `byApi` remember which rows were edited, for
the properties that except them. `clock` is a bounded number of instants.

### Reading and ServicePage

`Reading` has one operator per function of `lib/eventTimeline.ts`, `lib/releaseTrace.ts`,
`lib/deployTimeline.ts`, `lib/dora.ts`, `lib/derive.ts` and the readers of `lib/deployLot.ts`. A list has the
newest first. A day is the unit of time, and `MonthLength` days a month.

`pane` is the state of one browser: the copy of the events, the filter, what is
selected, the drawer's inputs, the dialog that is open, the request in flight (`sent`),
the roles of the session. The drawer is mounted with a key: its inputs are filled
then and by nothing later, while `refresh` replaces the copy at any time. Only when a PUT makes another
type of event of the one that is open (`turned`) are some inputs mounted anew, and the dialogs dropped: a deployment and
any other event are drawn as two trees. `Typed` is what may be typed or chosen, `Filters` what may be shown. A save or a
confirmed dialog is a job of session `Me` in `EventRecords`; everyone else works meanwhile
(`elsewhere`). `known` is the history of what the open drawer was filled with or given. A
second request queued behind one in flight is left out.

### Dialogs

`dialog` is the form that is open (`event`, `lot`, `existing`, none, or `broken` when
rendering threw), with its inputs, its lists and, for a lot, its lines. `fetching` is the set
of questions on their way, each with the path it was asked for: an answer takes any of
them, with what the database holds then, and one of a form that is gone changes nothing.
`posted` is the request of the form; the action serves it in one step while the person
goes on. `Tree` is what the list routes answer from; `active` the environments that are
not deleted; `events` the rows. `given` remembers which companies and products a form chose.

### BuildWatch

`deployment[d]` has build, date, status and tags; a version that is no number is
`NoBuild`. `report[m]` is the handler of the report of machine `m`: it reads what is
expected, looks for an open incident, then creates, resolves or leaves. `detection[d]` is
what the ingestion of `d` runs: it reads at most `Take` earlier deployments, then tags one. `crowded`,
`jostled` and `edited` are history: overlapping reports or a reopened incident,
overlapping detections, deployments that were edited.

### Hierarchy

A node is a service, or what a product is to its company: the code differs only
in `isMaster`. A creation is `uniqueSlug`'s first look, its count upward, and the insert; a move is a count and an
update; naming a main service is a transaction that demotes what it sees, holding the rows it wrote.
A screen of the administration exchanges two orders by two requests
sent at once, computed from the list it shows, either of which may be lost.
`marred` and `jumbled` name the parents where something raced.

### Settings

`env[e].row` is the row that bears slug `e`, or 0; deletion only deactivates it.
`refers[f]` is what a group, a workflow or an event names, with the row it was checked
against. `tags[v]` is the array of an event, `config[slug]` a `TagConfig`. A rename is the
update of the events, the look for the configuration, the look for a free slug, the write and the color, each a step; `cut` ends a job
anywhere.

### Access

`windows[k]` is the limiter's window of a key; an attempt reads the clock and asks it,
binds, reads the groups, and tells it the outcome with the clock it read at first. `session[u]` is the
cookie with the roles it was signed with. `people` is the directory (outside `src/`), which changes at any time;
`directoryUser` the table a sync copies to, empty at first or as an earlier sync left it: list, groups and upsert account by account, delete the rest.
`failures` and `heldUntil` are history.

### Visibility

`public` is the set of names (companies, products, services, environments, event types)
that are public, `feeds` the feeds with a token. `turns(door)` gives each query of a door its turn,
the same one to those of a `Promise.all`, which end in any order; `queries(door, anonymous)` are those a visitor
with or without a session needs, and `answer` is what each gives. The page reads the service's `history` before the public
types and environments, lists what they let through (`onPage`), and at last reads the `members` of the lots of its list,
whichever their service, which it sends `beside` the list. `visit[v]` also remembers all that was public since it came (`been`,
`had`) and whether anything changed (`calm`). A console is a page of public settings, which sends the whole list it shows.

## 3. What is checked

Runs that hold:

| Run | Question | Instance |
|---|---|---|
| `deploy_status` | do handlers, links, cron and a restart keep history, links and audit true, and implement `StatusTrail`? | 1 deployment, 2 handlers, 1 cron run, 2 links, 3 rows, 1 restart |
| `jobs` | what does a sweep of lots achieve alone, does it spare lots made by hand, do neighbours meet in the end; is a due, confirmed deployment promoted in the end, though PUTs rewrite it? | a scene each: 3 deployments in a chain, 1 ingestion, 1 sweep, 1 edit; 2 deployments, one with an `externalId`, 2 handlers, 1 cron run, 1 restart |
| `records` | what do concurrent sessions, imports and a page with open drawers and dialogs make of the rows; who is told of moves? | 10 scenes, see below |
| `builds` | one incident per drift, healed in the end; tags on what was reverted | 3 deployments, 2 machines, 2 builds, 3 dates |
| `administration` | what do concurrent administrators, sign-ins, syncs, visitors and forms do? | 10 scenes, see below |

All but the first play *scenes*: a behaviour picks one at the start and keeps to it, so that one
run answers for parts that share no state, each at a size of its own.

`deploy_status`:

- `ImplementsTrail`: interleaved in any way, the handlers look to a reader of the
  tables like atomic steps. Each change of status appends its own row, by
  somebody entitled to it, one notch away; no row says what did not happen.
- `HistoryIsTrail`: for a deployment no PUT reaches, each move starts where the
  previous one ended, the last ends at the present status, and the creation
  row, even when it lands after moves, names the status they started from.
- `LinkMovesOnce`, `AuditedClickMoved`: a link accounts for at most one row, of its
  deployment and to its status; an ok audit row has its move. The second leaves
  out deployments with an `externalId`: when a PUT to `/incidents` turned one into
  an incident, the route takes the null answer for success.
- `PromotedWhenDue`: however old its list, the cron moves a deployment out of
  `GO_CONFIRMED` only, and only when due. Deployments with an `externalId` are
  left out: a PUT may give them a new date under the cron's feet.

`jobs`:

- `DueIsPromoted`: liveness of the cron.
- `SettledIsGrouped`, `SweepSettles`, `CalmSweepSparesManualLots`: after a sweep that
  nothing disturbed, over lots that are not shared by automatic and other
  deployments, neighbours that may be grouped are, sweeping again changes
  nothing, and lots made by hand were left. With a mixed lot one sweep is not
  enough: taking its automatic member frees the other one, after the sweep has
  passed the neighbours of that one. `NeighboursMeet`: in the end they are
  together anyway, whatever raced.

`records`:

- `PhasesOnTheirSide`: a PRE_MEP that people made or dated is before its
  deployment, a POST_MEP after, as long as nobody moved the deployment itself: the code does not look at the phases then.
- `ExportRoundTrips`: what a workbook says of an event is what importing it writes
  back, but for the columns the sheet lacks; and it says which rows cannot come back.
- `RollbackGoesBack`: the version a recorded rollback names is that of an earlier deployment of the service
  there, unless one of the two was moved since, or the API made something else of the earlier one.
- `TellsNoOlderMove`: a `status_changed` notification tells its own move or a
  later one. `EachMatchIsTried`: a dispatch that ran to its end left exactly one
  row for each hook it matched; one cut short, at most one. `SendsFollowTheTarget`:
  a hook is sent where its shared target pointed when the change was committed or later, and nowhere only if
  the hook was deleted, and then its target, between two queries of the dispatch.
- `SavesAreOfThatEvent`: what a save writes is, input by input, what the drawer was filled with for that
  event or what the person typed into it, whatever was selected or refreshed meanwhile.
- `ConfirmedMoveIsShown`: a move that is accepted is the one its dialog was
  opened for; one that is refused was overtaken, not allowed, or of an event of which a PUT has made no deployment.
- `ReadersAgree`: list, drawer, metrics, versions in place, traces and lots,
  computed by different functions from one copy, do not contradict each other (seven named conjuncts).

`builds`:

- `OneOpenDrift`: at most one open incident unless reports overlapped or one was
  reopened; `DriftHeals`: once all machines run what is expected for good, none stays open,
  however many there were. `TaggedWasReverted`: who bears the tag was followed by a lower
  build, in any order of arrival; `TaggedOnce`: once, unless detections overlapped.

`administration`:

- `OneMainService`, `ConflictMeansRace`, `OrdersStayDistinct`: each says exactly which race is
  needed to break it, and that without it it holds. A promotion that nothing disturbed repairs the first.
- `ReferencesKeepTheirMeaning`: a slug names one environment for ever. `RenameIsComplete`: an undisturbed rename
  finishes the work, also of an earlier one that was cut short.
- `RefusalIsEarned`: the limiter refuses nobody without `LIMIT` failures of his own
  within the window; `GuessesAreBounded`: requests under way add at most their number to it. `RolesEndWithTheSession`: a
  role that is taken away works for one `TTL` from the sign-in at most.
- `CalmSyncCopies`, `AccountsStay`: an undisturbed sync leaves the directory's image whatever was left
  half done before; accounts are deleted only by a listing that lacked them.
- `OnlyPublicIsShown`: each flag an event needs was on at some time since the request came,
  though not all at once. `needs` is the documented rule (`README.md:372-378`, `lib/apiVisibility.ts:7-11`); `asksOf` is what a
  door asks of it: all, at a service's events, at the list of its page and in the calendar. `current` and `dora` leave out the type,
  against what is documented of them (`api_types`, below); the sidebar promises types only (`lib/tree.ts:15-16`).
- `CalmDoorsShowAll`: an undisturbed door misses nothing that the documented rule lets it show, and shows nothing
  else where it asks the whole rule or there is a session.
- `FormsWriteWhole`: what a form's request writes it writes whole, of the services its lines name, in an
  environment that is still there, phases on their side, whatever lists came late and whoever wrote meanwhile.

### Bounds

`deploy_status`: one deployment is enough where handlers meet, since they share nothing else;
two appear where a list (the cron) or an index (`externalId`) tells them apart.
Two handlers are the least that race, and one compare-and-set decides between
any two. Two links make an old and a new one; three rows (`MaxRows`) let a
deployment advance, go back and advance again, which is when an old link
matters. `MaxRows` stops sessions, PUTs and, in `HookDispatch`, all moves; clicks
and the cron may go beyond. `MaxEmits` bounds dispatches of one deployment in
flight, and is a loss of notifications when exceeded, which the code may have
too (a restart). PUTs are in `jobs` and, for every other property of the handlers, in the proofs of
section 4, which need none of these bounds.

`jobs`: three deployments in a chain are the least where windows overlap and
the groups of the two ends differ; `MaxEdits` bounds edits by hand, PUTs and
failures together. People give one label, next to those of the code: two lots made by hand are in the proofs of
section 4, for every property of the sweep but `NeighboursMeet`. The promotion has a PUT, a link and a restart beside the cron.

`records`: scenes `phases`, `sheets`, `rollbacks` have two sessions, two rows of two annotations, and one
edit: a race is two requests about one row and its parent, or the deployment before it; in `rollbacks` a PUT may also make an
incident of the deployment before. `editing`, `dating`, `moving` have a page
and another session over three rows (the page's event, its phase, another event), two edits (`MaxEdits`): one
under the open drawer and one after; in `turning` that one is a PUT that makes an incident of the open deployment, or a
deployment of the open incident. `reading` has the 4 x 10 x 4 combinations of rows (each kind, date order and
status a reader tells apart), with histories and rollbacks, and five filters. `hooks` has two dispatches
(`MaxDispatches`: two suffice for one to overtake the other), two hooks of three sorts, two rows, restarts; `targets`
has one dispatch, a target with two configurations (`MaxConfigs`: one before and one after an edit), and hooks with and without it. `MaxClock`
is two instants, one for before and one for after.

`builds`: two machines and two builds are a drift and its healing; three deployments and dates are what
precedes, what is reverted and what arrives late; two places for incidents are the least to
have one too many. `Take` is 2, so that a candidate can be out of reach.

`administration`: two requests, three nodes under two parents (a move needs both),
two starts. The slugs are one and its first suffix. Three names of tags of which two share a slug. Two
keys of one user; `LIMIT`, `WINDOW`, `TTL` of 2, where the boundary instant exists; four attempts, of which two may
pass while one awaits. Three syncs, one of them after two that overlapped. Two
services of one product with a lot between them and an older deployment out of it, one visitor and one console, two changes of flags: one between two queries and one back. Forms: two lines for a
lot, so that the list of one line comes late for the other; `MaxFilled`, `MaxGiven`, `MaxAsked` bound what is filled in,
chosen and asked at once; one creating request per behaviour, while which the person
may close, open and wait but types nothing, and others write once (`MaxMeddling`).

Handlers, links, hooks, labels and requests are interchangeable, and safety runs
use that symmetry (nodes of the hierarchy too, by taking them in order). Runs with a liveness property do not.
Deadlock is not checked where an instance stops when its requests are used up.

### Fairness

`Fairness` is `WF` of each cron run: the route is called for ever, and a run that
has something to do goes on. Nothing obliges people to click or move, and the
number of restarts is finite (`MaxRestarts`): with one restart in every run of
the cron nothing would be promoted. `LotFairness` is `WF` of the sweep and of
ingestion requests that are under way; edits are finite. With two sweeps at once
for ever, each could write back a label the other has just replaced, so the
liveness run has one. `SceneFairSpec` of `MCBuildWatch` is `WF` of the reports of each machine, which
its agent sends for ever; changes are finite.

### Where the repository says otherwise

Each of these runs ends in a counterexample.

| Run | Property | What happens | What is said |
|---|---|---|---|
| `scheduled_promotion` | `ScheduledIsPromoted` | the cron selects `GO_CONFIRMED`; a `SCHEDULED` deployment waits for ever | `README.md:263-265`, `lib/deployConfig.ts:5` |
| `validate_comment` | `ValidateHasComment` | a one-click link records `TESTING -> VALIDATE` without a comment | `README.md:259-260`, `lib/deployWorkflow.ts:40` |
| `aimed_hook` | `AimedHookIsTold` | two moves commit before the first dispatch reads: both report the second, and a hook aimed at the first hears nothing | `README.md:52-53`, `README.md:312` |
| `deleted_hook` | `DeletedHookIsGone` | a hook with deliveries cannot be deleted (foreign key); the route swallows it, audits `hook.deleted` and answers ok | `tests/api/hooks.test.ts:61`, `lib/audit.ts:5-6` |
| `manual_lot` | `ManualLotUntouched` | an attachment updates by identifier rows that were put in a manual lot after it had judged them | `tests/lib/autoLot.test.ts:55` |
| `api_types` | `ApiKeepsThePublicRule` | metrics and current versions ask the environment and not the type: incidents, private by default, are counted (`doraQuery.ts:24`), and versions are shown while deployments are private (`services/[slug]/current/route.ts:20`) | `README.md:372-378`, `lib/apiVisibility.ts:6-11` |
| `page_lots` | `PageSendsPublicOnly` | the page reads the members of its lots by lot alone and sends them: a private service's deployment comes with a public one's page | `lib/visibility.ts:9` |

Also seen while modelling, with no run of their own:

- the comment above `undoDeployStatus` says `PENDING` has no predecessor, and the code goes back to
  `GO_CONFIRMED`, from where a due deployment is promoted again;
- "open a BUILD_DRIFT incident (once)" (`lib/runtimeDrift.ts`) and "Master is exclusive per product"
  (`lib/hierarchy.ts`) hold without races only (`DriftOpensOnce`, `MasterIsExclusive` state them whole);
- in the form for a lot, a list asked for another company may arrive last; an error object in its place is rendered as a
  list and breaks the page (`components/LotForm.tsx:129`, the kind `broken` of `Dialogs`);
- a lot whose number is left blank gives each row its version as its lot, though the comment of `createLotAction`
  says that all share it;
- the sidebar counts the events of private environments of a public service: its own comment promises public types only
  (`lib/tree.ts:15-16`), the rule of public mode says more;
- candidates of two environments may be ticked together when the lists come late (`components/LotModal.tsx:59`);
- the answer to a form that was closed closes the one that is open now;
- the page's stepper asks `canWrite` (`lib/visibility.ts:5-7`), which a session with the role `qa` alone lacks: the role that
  validates (`README.md:116-118`, `README.md:209-210`) is offered no step, and a devops one that is refused.

## 4. What is proved

Every theorem is for all values of the constants of its module, the bounds included, from the assumptions that the
module names and nothing else. TLC agrees on the instances of section 3; the proofs need none of their
smallness. Each module of theorems begins with the inductive invariant, in named parts, and proves that the initial
states have it and that every action keeps it; what a run checks then follows. None of the properties is inductive,
for one reason: **a handler acts on what it read some queries earlier.** The invariants therefore say, for
each place where a handler can be, what its memory is worth there: what of it cannot have changed, what the history
variables record when it has, and what the write that comes next may rely on.

| Module | Theorem | States |
|---|---|---|
| `DeployStatusProofs` | `TypeCorrect` | `Spec => []TypeOK` |
| | `OneMovePerLink` | `Spec => []LinkMovesOnce` |
| | `AuditIsTrue` | `Spec => []AuditedClickMoved` |
| | `HistoryTellsTheLife` | `Spec => []HistoryIsTrail` |
| | `PromotionIsTimely` | `Spec => PromotedWhenDue` |
| | `HandlersImplementTrail` | `Spec => ImplementsTrail`, by the mapping `st <- statusOf(event)`, `trail <- history` |
| `HookDispatchProofs` | `TypesHold` | `HookSpec => []HookTypeOK` |
| | `TellsTheTruth` | `HookSpec => []TellsNoOlderMove` |
| | `MatchesAreTried` | `HookSpec => []EachMatchIsTried` |
| | `AimsAreCurrent` | `HookSpec => []SendsFollowTheTarget` |
| `EventRecordsProofs` | `RowsHaveTheirTypes` | `RecordsSpec => []RecordsTypeOK` |
| | `PhasesStayOnTheirSide` | `RecordsSpec => []PhasesOnTheirSide` |
| | `ExportsRoundTrip` | `RecordsSpec => []ExportRoundTrips` |
| | `RollbacksNameAnEarlierOne` | `RecordsSpec => []RollbackGoesBack` |
| `ServicePageProofs` | `NothingIsSavedToAnother` | `PageSpec => SavesAreOfThatEvent` |
| | `MovesAreAsConfirmed` | `PageSpec => ConfirmedMoveIsShown` |
| | `PagesHaveTheirTypes` | `PageSpec => []PageTypeOK` |
| | `ReadersTellOneStory` | `PageSpec => []ReadersAgree` |
| | `TypesOfRecordsAndHooks` | `PageSpec /\ HookSpec => []TypesOK` |
| `AutoLotProofs` | `TypesHold` | `LotSpec => []LotTypeOK` |
| | `SettledGroups` | `LotSpec => []SettledIsGrouped` |
| | `SweepsSettle` | `LotSpec => SweepSettles` |
| | `ManualLotsStay` | `LotSpec => CalmSweepSparesManualLots` |
| `BuildWatchProofs` | `DriftIsOne` | `WatchSpec => []OneOpenDrift` |
| | `TagsAreEarned` | `WatchSpec => []TaggedWasReverted` |
| | `TagsComeOnce` | `WatchSpec => []TaggedOnce` |
| `AdministrationProofs` | `HierarchyTypesHold` | `HierarchySpec => []HierarchyTypeOK` |
| | `MainIsOne` | `HierarchySpec => []OneMainService` |
| | `ConflictsAreRaces` | `HierarchySpec => []ConflictMeansRace` |
| | `OrdersKeepApart` | `HierarchySpec => []OrdersStayDistinct` |
| | `MeaningIsKept` | `SettingsSpec => []ReferencesKeepTheirMeaning` |
| | `ConfigurationsStayApart` | `SettingsSpec => []SettingsTypeOK`: a `TagConfig` is under the slug of its name, a row under one slug |
| | `RenamesAreWhole` | `SettingsSpec => RenameIsComplete` |
| | `ListsBelongToTheirLines` | `DialogsSpec => []DialogsTypeOK` |
| | `FormsAreWhole` | `DialogsSpec => FormsWriteWhole` |
| | `TypesOfAll` | `HierarchySpec /\ SettingsSpec /\ AccessSpec /\ VisibilitySpec /\ DialogsSpec => []AdministrationTypeOK` |
| `AccessProofs` | `TypesHold` | `AccessSpec => []AccessTypeOK` |
| | `GuessesStayBounded` | `AccessSpec => []GuessesAreBounded` |
| | `RefusalsAreEarned` | `AccessSpec => []RefusalIsEarned` |
| | `RolesRunOut` | `AccessSpec => []RolesEndWithTheSession` |
| | `AccountsAreKept` | `AccessSpec => AccountsStay` |
| | `CalmSyncsCopy` | `AccessSpec => CalmSyncCopies` |
| | `VisitsHaveTheirTypes` | `VisibilitySpec => []VisibilityTypeOK` |
| | `OnlyPublicShows` | `VisibilitySpec => []OnlyPublicIsShown` |
| | `CalmShowsAll` | `VisibilitySpec => []CalmDoorsShowAll` |

### DeployStatus: `IInv`

- `JobsKnowTheirMove`: a handler that has read holds a legal entry, of its kind.
  Legality does not go stale, for it is a fact about the pair of statuses; that
  `from` is still the status is what the compare-and-set establishes.
- `AbsentIsUnknown`: nothing refers to a deployment that does not exist, so its
  creation finds no history; and only a PUT makes an incident.
- `LinksHaveOneHolder`, `SpentIsMinted`: a link in use is spent, was minted for the
  move in hand, and is in one hand; no row bears it before that handler commits.
  This carries `LinkMovesOnce`, and with the audit step `AuditedClickMoved`.
- `CreationIsOrigin`: a creation row still to be written finds only moves, which
  started from the status it names, however many there are by then.
- `NullIsUntold`: a deployment with no status has no history, so its first move
  may enter the order.
- `ListedIsDue`: what a cron run listed or read stays due.

The argument per action is `StepInv`; each conjunct has a lemma of its own
(`MovesKept`, `AbsentKept`, `LinksKept`, `AuditKept`, `TrailKept`, `OriginKept`,
`DueKept`). `SeenStep` shows that each step is one step of `StatusTrail` or a
stutter.

### HookDispatch: `HookInv`

A dispatch is `Sound`: its row is in the trail (`RowIsThere`), the move it will tell is that row's or a later one's
(`TellsLater`, since trails only grow), where a hook is aimed is a configuration its target had since the dispatch was
emitted (`AimsFollow`, from `SinceIsPast`), and what it matched is divided between its queue and what was
served (`MatchIsDivided`). `LogTells` ties the second part to the log: the deliveries of a dispatch are of its served hooks, one for
each. `EachMatchIsTried` is that division with an empty queue. `SendsFollowTheTarget` has its exception because of
`DeletionsAreLogged`: the target of a live hook cannot be gone, so a missing configuration means the hook went first.

### EventRecords: `RecordsInv`

`JobInv` says what a session action remembers at each `pc`. A row about to be inserted is complete (`Told`) and on its side of a
parent that is there (`CreateInv`); a new date in hand was compared with the parent, or the row is the API's
(`DatingInv`, `WriteInv`); a rollback under way has the date its deployment still has, unless it was moved (`TargetInv`). `Steady`
is what a step may do to rows that were read: keep them, or enter them in `redated` or `byApi`. `Preserved` derives all of
the invariant from `Steady` and a few facts about the written rows, so that each action only shows these
(`QuietKeeps`, `OverwriteKeeps`, `InsertKeeps`, `ImportKeeps`). `Told` is what makes `ExportRoundTrips` true: it
follows a row from the validators through every edit, including a PUT that changes its type.
The proof of `RollbackGoesBack` failed at first: a PUT may make an incident of the deployment that a rollback named, which no scene of
the run did. The property now says so, and the scene has such a PUT.

### ServicePage: `ServicePageInv`

`PageSpec` opens a page at any moment: on any rows and notes that satisfy `RecordsInv` and `NotesDated`, with any action of the others
under way; `RecordsInvariant` and `NotesAreDated` say that these are true at any moment of `RecordsSpec`. `RecordsInv`
goes on holding, for the page writes through the session actions, and `Steady` tells what others may do to a row meanwhile.
`DrawerHolds`: each input of the open drawer holds a value that `known` has of that input, and so do tags that are on their way and
come back to a drawer that is still mounted. Every action of the page is shown to lead to such a state by way of what it does to the drawer: it keeps
it (`with`), types into it (`typedIn`), or mounts another or part of it (`heldOn`, from `remounted`); `SavesAreOfThatEvent` then needs
only that what is sent is what an input holds (`KnownTyped` that it is of its kind). `MovesInv`: a dialog that is
open, or a request that it sent, is for the next status of one the event had, and the event still has some status. What was
shown was copied from rows (`Copied`), and a status that was set is never lost, not even by a PUT (`Steady`); so a refusal has
one of the reasons that `ConfirmedMoveIsShown` lists. Here too the proof failed at first, at a PUT that turns the open event: the
model lacked that the drawer is drawn anew under it and that moves are refused after it, and no scene had one.
`PageFits`: a dialog that is open is over a deployment, a request on its way is about an event that is there, and the server is at work
for the page only while the page waits for it (`ServedFits`). It needs `ServicePageInv` of the next state too, since which dialogs a
refresh leaves depends on what it brings. TLC finds `PageInv`, `Copied`, `KnownTyped` and `MovesInv` true in all states of `records`.

### Reading: `Legible`

`ReadersAgree` is about one state, but what it says is computed by a dozen functions from a list of events. What they need of it is little:
`Legible` says that the time of the copy is a number, that the copy is a list, that each event has the fields of its type with dates where
dates belong (`Readable`, from `Told`), that its trail is dated (`NotesDated`: whoever writes a note dates it), and that what is derived
from its dates was derived at the time of the copy. No action of the page touches the copy but a refresh, which brings what
the rows and notes tell then (`Telling`). The end of an incident or a window is what makes the last part matter: list and drawer
agree because both look from one moment, that of the refresh.

A filter or a stable sort is `arranged`: the places of a list that stay, those with lower keys first. The place that comes m-th is the one
with m - 1 places ahead of it; that there is exactly one is proved by taking a least counterexample, and `ArrangedIs` then says what a reader
needs: each place goes to one place, in order of keys, with equal keys as they stood. Each conjunct of `ReadersAgree` follows from it:

- `MonthsKeep`: a month is a run of the history, since it is sorted by date and months grow with dates (`MonthAfterMonth`);
- `MetricsCount`: the history has each entry once, and as many as the metrics' places; half of the places of a sorted list are on each side
  of its middle, so the median is between two samples (`MedianIsBetween`);
- `TopmostCurrent`: of the deployments that were passed, the latest of each environment was kept (`CurrentIsLatest`, deployment after deployment);
- `TracesFollow`: a trace has one step for each environment that was reached, the oldest (`StepsAre`), so that a step is before another when
  its date is earlier, or equal and its environment stood first;
- `RowsWarn`, `EndsAreDerived`, `LotsWarn`: by cases of the event.

TLC finds `Legible` and `NotesDated` true in all states of `records`. Two things about `Reading` came out of the proof. A hotfix that a PUT
turned into an incident keeps its type of change, and two arms of `category` held of it: the incident comes first, as in the code. And steps of a
release with equal dates were in any order; they are in the order in which the list has their environments first, that of the code's `Map`.

### AutoLot: `LotInv`

While a sweep is alone (`calm`), what it has passed is grouped for good: each deployment passed is in one lot with all its
neighbours that may be grouped (`Sweeping`). A later group may take some of those, and then takes its name from the earliest member, so
that no neighbour is left behind (`GroupMeets`); that the sweep goes by date is what the order of `ahead` says. `Fresh`: what its attachment has read
is as it is. When it ends, `ahead` is empty and all meet, which is `SettledIsGrouped`; another sweep then renames nothing (`SweepSettles`).

### BuildWatch: `WatchInv`

`WhatWasFoundHolds`: while reports come one at a time, one that found no open incident is right until it acts, and only a report opens
one. `TagsAreRight`: a detection about to tag knows a deployment that was followed by a lower build, and only an edit can
make that false (`SelfIsKnown`); `TagsAreFew` while detections do not overlap.

### Hierarchy and Settings: `HierarchyInv`, `SettingsInv`

A request that nobody raced knows all other main services (`KnowsMains`), that its derived slug is free (`KnowsFree`) and which
order is last (`KnowsLast`). `SlugsApart` needs no such premise: it is the constraint of the table. A screen's
exchange is two updates, so between them orders may be equal; `HalvesComplete` says that the other half makes them distinct
again, and `OrdersApart` is claimed of parents with no half-done exchange.
`ReferredIsMeant`: a slug once given a row keeps it, for what is referred to and for what a request is about to refer to. A rename that
nobody disturbed finds things as it left them, query after query (`UndisturbedIsFound`); that a row it writes by identifier is the one it read
needs `NumbersDiffer`. What is left of a list is `picked`: the places that stay, in their order, whose existence is `WalkExists`;
so an event has a list of names after every rename and removal (`TagsKeep`).

### Dialogs: `DialogsInv`

`DialogsSpec` begins with any rows. What a form writes was filled in long before: so `linesAnswered` says that lines have numbers
below the next one and that a list answers a choice made in its line (`productsAnswer`, `servicesAnswer`), and `waits` that a question
on its way is about a choice that was made (`given` keeps those of lines that went). A number is never used twice, hence no list
reaches a line that came later. `fieldsThere`: the parent a form proposes is there, since rows are never deleted, and a lot is never
of phases; `PostedThere` says the same of a request on its way. `idsInOrder`: the ids in use are the first of `Ids`, so that a creation
adds exactly its rows (`wholeLot` counts them). `FormsWriteWhole` then follows from the one action that serves a request (`serve`).

### Access: `AccessInv`

`CountsAreFew` counts: failures in a window plus requests that passed the limiter and have not told their outcome
are at most `LIMIT - 1` plus the number of requests, by cardinality lemmas for one more and one less under way. `CountsAreEarned`: what a
window counts was told since it began. `RolesWereHeld`: roles in hand or in a cookie are held, or were when the request began.
`CalmIsTrue`: of a sync that nothing met, what was copied is what the directory says, account by account.

### Visibility: `VisibilityInv`

`Remembers`: what is public now was public since the request came, and is exactly that if nothing changed. `HasRead`
gives each query of a door its worth: flags read were public then, and are all of them if the request is calm; what a page read of its service's history was behind an open gate.
`ShowsAllowed` and `ShowsAll` then follow for each door from the answers that its last query combines, whatever
the order within a `Promise.all`. `Allowed` is by what a door asks; `DueIsAllowed` puts the documented rule beside it. Of the members of
lots that a page sends beside its list only the type is proved: the run `page_lots` shows that they need not be public.

### Assumptions

Sets of identifiers do not contain the values that stand for none (`"none"`, `"nobody"`, `"no one"`, `Unset`, `NoText`, `Nowhere`, `"settled"`);
requests (`Attempts`) and deployments of a sweep are finitely many, which is what counting and passing them needs; numbers are natural, limits positive.
Identifiers of rows are a sequence without repetition, dates in a request's body are dates or no date, and edits carry known
statuses (`RecordsAssumption`): others are refused by the routes before anything is read. Ids that forms are given are such a sequence too (`DialogsAssumption`). A configuration has a number from 1 (`MaxConfigs`). The
workflow of environments is a list (`PageAssumption`).

### Side by side

`TypesOK` and `AdministrationTypeOK` are each one property of a run whose parts share no state (the page and the rows do, the hooks
share none with them). `TypesOfRecordsAndHooks` and `TypesOfAll` are about the conjunction of the parts' specifications: whatever each does and in
whichever order, one at a time or at once. A scene plays one of the parts while the others stand still.

### Only model-checked

- Liveness (`DueIsPromoted`, `NeighboursMeet`, `DriftHeals`): it rests on fairness and `ENABLED`, which the prover does not reason about.
- The runs that end in a counterexample.

## 5. What is not modelled, and the plan

Modelling that is left:

- a grouped deployment whose date is edited, and the seven-day limit of the sweep;
- metadata, links between events, zones of dates.

Left out for good: connectors and templates (formatting and network; a send is an outcome),
the text of `.ics` and `.xlsx` files and of the API's description (`lib/openapi.ts`), password hashing and the signature of cookies,
layout and translations, the monthly calendar's cells, the shell, the pages and routes that only list companies, products, services and environments, seeds and the
demonstration loop. The soft deletion of hierarchy nodes has no caller.

## 6. Running

    tlc -workers 2 -config DeployStatus.cfg MCDeployStatus.tla
    tlc -workers 2 -config Administration.cfg MCAdministration.tla
    tlapm DeployStatusProofs.tla

and so each module of theorems. Each `.cfg` names a specification and its properties; `PROJECT.json` pairs it with
its module, and lists for each property a mutation of a definition that the run
detects. `administration` is the largest run (about 920,000 states, two minutes).
