------------------------------ MODULE Visibility ------------------------------
(***************************************************************************)
(* What a visitor without a session is shown.  Companies, products,        *)
(* services and environments carry a public flag, event types are public   *)
(* or not (src/src/lib/visibility.ts), and every door to events reads      *)
(* them itself, query by query, while administrators change them:          *)
(*   events, current  a service's routes (lib/apiVisibility.ts);           *)
(*   page             its page (app/[company]/[product]/[service]);        *)
(*   calendar, dora   the filters of calendarQuery.ts and doraQuery.ts;    *)
(*   tree             the sidebar with its counts (lib/tree.ts);           *)
(*   feed             a calendar an administrator gave a token.            *)
(* Names of different kinds differ.  Events stand still.  What a page      *)
(* lists comes with the members of its lots, of whichever services.        *)
(***************************************************************************)
EXTENDS Naturals

CONSTANTS Companies,
          Products,
          Services,
          CompanyOf,    \* of a product
          ProductOf,    \* of a service
          Environments,
          Lots,         \* names of lots
          Entries,      \* events: [service, type, environment, lot, at], at their dates
          Feeds,        \* what a feed may ask for: [service, environment, types]
          Visitors,     \* requests under way at once
          Consoles,     \* pages of public settings
          MaxVisits,    \* bound: requests
          MaxSettings   \* bound: changes by administrators

Types == {"DEPLOYMENT", "INCIDENT", "MAINTENANCE"}

DEFAULT_PUBLIC_TYPES == {"DEPLOYMENT", "MAINTENANCE"}

DEFAULT_TYPES == {"DEPLOYMENT", "MAINTENANCE"}

Whichever == "any"

NoLot == "none"

ASSUME VisibilityAssumption ==
    /\ CompanyOf \in [Products -> Companies]
    /\ ProductOf \in [Services -> Products]
    /\ Entries \subseteq [service : Services, type : Types, environment : Environments, lot : Lots \cup {NoLot}, at : Nat]
    /\ Feeds \subseteq [service : Services \cup {Whichever}, environment : Environments \cup {Whichever}, types : SUBSET Types]
    /\ {MaxVisits, MaxSettings} \subseteq Nat

VARIABLES public,  \* the names that are public
          feeds,   \* the feeds that have a token
          console, \* console[c]: the types that the page shows as public
          visit,   \* visit[v]: a request: its door, what it asks, what it read so far
          visits,
          settings

visibilityVars == << public, feeds, console, visit, visits, settings >>

Flagged == Companies \cup Products \cup Services \cup Environments

NoVisit == [todo |-> {}, door |-> Whichever]

VisibilityInit ==
    /\ \E names \in SUBSET Flagged : public = names \cup DEFAULT_PUBLIC_TYPES
    /\ feeds \in SUBSET Feeds
    /\ console = [c \in Consoles |-> DEFAULT_PUBLIC_TYPES]
    /\ visit = [v \in Visitors |-> NoVisit]
    /\ visits = 0
    /\ settings = 0

-----------------------------------------------------------------------------
hierarchyOf(s) == {s, ProductOf[s], CompanyOf[ProductOf[s]]}

\* isServicePublic, serviceVisible, and the filters on service, product and company.
\* Mutant: the company is not asked.
publicInItsProduct(s) == {s, ProductOf[s]} \subseteq public

serviceVisible(s) == hierarchyOf(s) \subseteq public

getPublicEventTypes == public \cap Types

getPublicEnvSlugs == public \cap Environments

matches(e, ask) ==
    /\ ask.service \in {e.service, Whichever}
    /\ ask.environment \in {e.environment, Whichever}

\* Without types, or with none that is one, a calendar has the usual ones.
calendarTypes(ask) == IF ask.types = {} THEN DEFAULT_TYPES ELSE ask.types

\* currentByEnvironment: the latest deployment of a service in an environment.
inPlace(e) ==
    /\ e.type = "DEPLOYMENT"
    /\ \A other \in Entries :
          << other.service, other.type, other.environment >> = << e.service, e.type, e.environment >> => other.at <= e.at

\* The deployments of these lots, whichever their service and environment.
getLotMembers(lots) == {e \in Entries : e.type = "DEPLOYMENT" /\ e.lot \in lots}

\* When a door asks each of its queries; those of one turn are not ordered (Promise.all).
\* Behind a closed gate the rest finds nothing.
turns(door) ==
    CASE door \in {"events", "current"} -> [types |-> 1, envs |-> 1, gate |-> 2, rows |-> 3]
      [] door = "page"     -> [gate |-> 1, history |-> 2, types |-> 3, envs |-> 3, members |-> 4]
      [] door = "calendar" -> [types |-> 1, envs |-> 1, joined |-> 2]
      [] door = "dora"     -> [types |-> 1, envs |-> 1, deployments |-> 2, incidents |-> 3]
      [] door = "tree"     -> [types |-> 1, companies |-> 2, products |-> 3, services |-> 4, counts |-> 5]
      [] door = "feed"     -> [feed |-> 1, joined |-> 2]

\* With a session it only reads the events.
queries(door, anonymous) == DOMAIN turns(door) \ (IF anonymous THEN {} ELSE {"types", "envs", "gate"})

\* These two ask for the environment alone of what they read in the scope.
asksType(door) == door \notin {"current", "dora"}

\* Mutant: who asks for an environment gets it.
inEnvsAsked(v, e) == visit[v].ask.environment = e.environment \/ e.environment \in visit[v].got.envs

inEnvs(v, e) == e.environment \in visit[v].got.envs

\* What the scope that was read lets through.
inScope(v, e) ==
    visit[v].anonymous =>
        /\ asksType(visit[v].door) => e.type \in visit[v].got.types
        /\ inEnvs(v, e)

asked(v) == {e \in Entries : matches(e, visit[v].ask)}

\* A query that asks for public services, whatever it counts.
ofPublic(v, T) ==
    {e \in asked(v) : e.type \in T /\ inScope(v, e) /\ (visit[v].anonymous => serviceVisible(e.service))}

\* What a page lists of what it read.
onPage(v) == {e \in visit[v].got.history : inScope(v, e)}

flag(v, names) == IF visit[v].anonymous THEN names \cap public ELSE names

\* What a query answers.
answer(v, query) ==
    LET got == visit[v].got
        ask == visit[v].ask
    IN  CASE query = "types" -> getPublicEventTypes
          [] query = "envs"  -> getPublicEnvSlugs
          [] query = "gate"  -> serviceVisible(ask.service)
          [] query = "rows"  ->
                {e \in asked(v) : /\ inScope(v, e)
                                  /\ visit[v].anonymous => got.gate
                                  /\ visit[v].door = "current" => inPlace(e)}
          [] query = "history" -> {e \in asked(v) : visit[v].anonymous => got.gate}
          [] query = "members" -> getLotMembers({e.lot : e \in onPage(v)} \ {NoLot})
          [] query = "feed"   -> ask \in feeds
          [] query = "joined" ->
                IF visit[v].door = "feed"
                THEN {e \in asked(v) : got.feed /\ e.type \in calendarTypes(ask)}
                ELSE ofPublic(v, DEFAULT_TYPES)
          [] query = "deployments" -> ofPublic(v, {"DEPLOYMENT"})
          [] query = "incidents"   -> ofPublic(v, {"INCIDENT"})
          [] query = "companies"   -> flag(v, Companies)
          [] query = "products"    -> {p \in flag(v, Products) : CompanyOf[p] \in got.companies}
          [] query = "services"    -> {s \in flag(v, Services) : ProductOf[s] \in got.products}
          [] query = "counts"      ->
                {e \in Entries : e.service \in got.services /\ (visit[v].anonymous => e.type \in got.types)}

-----------------------------------------------------------------------------
enter(v, door, anonymous, ask) ==
    /\ visit[v].todo = {}
    /\ visits < MaxVisits
    /\ visits' = visits + 1
    /\ visit' = [visit EXCEPT ![v] =
                    [todo |-> queries(door, anonymous), door |-> door, anonymous |-> anonymous, ask |-> ask,
                     got |-> << >>, shown |-> {}, beside |-> {}, been |-> public, had |-> feeds, calm |-> TRUE]]
    /\ UNCHANGED << public, feeds, console, settings >>

doors == {"events", "current", "page", "calendar", "dora", "tree"}

\* A route of a service names it; the tree asks for everything.
mayAsk(door, ask) ==
    /\ door \in {"events", "current", "page"} => ask.service # Whichever
    /\ door \in {"current", "page", "tree"} => ask.environment = Whichever
    /\ door = "tree" => ask.service = Whichever

visitDoor(v) ==
    \/ \E door \in doors, anonymous \in BOOLEAN, s \in Services \cup {Whichever}, e \in Environments \cup {Whichever} :
          LET ask == [service |-> s, environment |-> e, types |-> {}]
          IN  mayAsk(door, ask) /\ enter(v, door, anonymous, ask)
    \/ \E f \in Feeds : enter(v, "feed", TRUE, f)

finals == {"rows", "members", "joined", "deployments", "incidents", "counts"}

\* The events that a door shows or counts with the answer to one of these.
showsWith(v, query) == IF query = "members" THEN onPage(v) ELSE answer(v, query)

isNext(q, query) == query \in q.todo /\ \A other \in q.todo : turns(q.door)[query] <= turns(q.door)[other]

withAnswer(got, query, a) == [p \in DOMAIN got \cup {query} |-> IF p = query THEN a ELSE got[p]]

\* The request after a query: the first answers are kept until the last one is there.
turned(v, query) ==
    LET q == visit[v]
        todo == q.todo \ {query}
    IN  [q EXCEPT !.todo = todo,
                  !.got = IF todo = {} THEN << >> ELSE withAnswer(q.got, query, answer(v, query)),
                  !.shown = IF query \in finals THEN q.shown \cup showsWith(v, query) ELSE q.shown,
                  !.beside = IF query = "members" THEN answer(v, query) ELSE q.beside]

readNext(v) ==
    /\ \E query \in visit[v].todo : isNext(visit[v], query) /\ visit' = [visit EXCEPT ![v] = turned(v, query)]
    /\ UNCHANGED << public, feeds, console, visits, settings >>

\* An administrator changes something (what changes nothing is only a refresh of the page);
\* the visits under way know what was public meanwhile.
set(names, with) ==
    /\ settings < MaxSettings
    /\ << names, with >> # << public, feeds >>
    /\ settings' = settings + 1
    /\ public' = names
    /\ feeds' = with
    /\ visit' = [v \in Visitors |-> IF visit[v].todo = {} THEN visit[v]
                                    ELSE [visit[v] EXCEPT !.been = @ \cup names, !.had = @ \cup with, !.calm = FALSE]]
    /\ UNCHANGED visits

patch(name) ==
    /\ \/ set(public \cup {name}, feeds)
       \/ set(public \ {name}, feeds)
    /\ UNCHANGED console

setPublicEventTypes(T) == set((public \ Types) \cup T, feeds)

\* The page sends all the types that it shows, and keeps them: others do not reach it.
toggleType(c, type) ==
    LET next == IF type \in console[c] THEN console[c] \ {type} ELSE console[c] \cup {type}
    IN  /\ setPublicEventTypes(next)
        /\ console' = [console EXCEPT ![c] = next]

openConsole(c) ==
    /\ console[c] # getPublicEventTypes
    /\ console' = [console EXCEPT ![c] = getPublicEventTypes]
    /\ UNCHANGED << public, feeds, visit, visits, settings >>

createCalendarFeed(f) == f \notin feeds /\ set(public, feeds \cup {f}) /\ UNCHANGED console

deleteCalendarFeed(f) == f \in feeds /\ set(public, feeds \ {f}) /\ UNCHANGED console

VisibilityNext ==
    \/ \E v \in Visitors : visitDoor(v) \/ readNext(v)
    \/ \E name \in Flagged : patch(name)
    \/ \E c \in Consoles : openConsole(c) \/ \E type \in Types : toggleType(c, type)
    \/ \E f \in Feeds : createCalendarFeed(f) \/ deleteCalendarFeed(f)

VisibilitySpec == VisibilityInit /\ [][VisibilityNext]_visibilityVars

-----------------------------------------------------------------------------
visited == {v \in Visitors : visit[v].door # Whichever}

VisibilityTypeOK ==
    /\ public \subseteq Flagged \cup Types
    /\ feeds \subseteq Feeds
    /\ \A v \in visited : visit[v].shown \cup visit[v].beside \subseteq Entries

\* The documented rule: what must be public for an event to be shown without a session.
needs(e) == hierarchyOf(e.service) \cup {e.type, e.environment}

\* What a door asks of it.  The tree promises types alone; the other two ask less than the
\* rule, against what is documented of them: ApiKeepsThePublicRule.
asksOf(door, e) ==
    CASE door \in {"current", "dora"} -> hierarchyOf(e.service) \cup {e.environment}
      [] door = "tree" -> hierarchyOf(e.service) \cup {e.type}
      [] OTHER -> needs(e)

\* Whatever administrators change while a door reads flag after flag, each thing that must
\* be public for an event was so at some time since the request came: by the whole rule
\* (lib/apiVisibility.ts, lib/visibility.ts) at a service's events, its page's list and
\* the calendar, by what they ask at the other doors; a feed shows while it had a token.
OnlyPublicIsShown ==
    \A v \in visited : visit[v].anonymous =>
        \A e \in visit[v].shown :
            IF visit[v].door = "feed" THEN visit[v].ask \in visit[v].had
            ELSE asksOf(visit[v].door, e) \subseteq visit[v].been

\* The events a door is about.
about(door, ask) ==
    CASE door = "current"  -> {e \in Entries : inPlace(e)}
      [] door = "dora"     -> {e \in Entries : e.type \in {"DEPLOYMENT", "INCIDENT"}}
      [] door = "calendar" -> {e \in Entries : e.type \in DEFAULT_TYPES}
      [] door = "feed"     -> {e \in Entries : e.type \in calendarTypes(ask)}
      [] OTHER -> Entries

\* A request that no change disturbed loses nothing: it shows all it is about and asks for
\* that the documented rule lets it show, and with a session, or at a door that asks the
\* whole rule, nothing else; asking for something narrower never widens it.
CalmDoorsShowAll ==
    \A v \in visited : visit[v].todo = {} /\ visit[v].calm =>
        LET q == visit[v]
            due == {e \in asked(v) : /\ e \in about(q.door, q.ask)
                                     /\ q.anonymous => IF q.door = "feed" THEN q.ask \in q.had
                                                       ELSE needs(e) \subseteq q.been}
        IN  /\ due \subseteq q.shown
            /\ ~q.anonymous \/ q.door \notin {"current", "dora", "tree"} => q.shown \subseteq due

\* "Without a session the API applies exactly the rules of the public mode", the type of the
\* event among them, at the routes that README.md:372-378 names: what they show or count is
\* of a public type.  A service's current versions (services/[slug]/current/route.ts:18-20)
\* and the metrics (doraQuery.ts:20-30) ask the environments alone.
ApiKeepsThePublicRule ==
    \A v \in visited : visit[v].anonymous /\ visit[v].door \in {"events", "current", "calendar", "dora"} =>
        \A e \in visit[v].shown : needs(e) \subseteq visit[v].been

\* "Public visitor, read-only + public-only data" (lib/visibility.ts:9): what a page
\* sends beside its list, the members of its lots, is public (page.tsx:36-39 asks nothing).
PageSendsPublicOnly ==
    \A v \in visited : visit[v].anonymous =>
        \A e \in visit[v].beside : needs(e) \subseteq visit[v].been
=============================================================================
