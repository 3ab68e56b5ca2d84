-------------------------------- MODULE Access --------------------------------
(***************************************************************************)
(* Who gets in: the login route with its limiter of failures               *)
(* (src/src/app/api/auth/login/route.ts, lib/rateLimit.ts), the roles a    *)
(* session carries (lib/auth), and the table of accounts that a sync       *)
(* copies from the directory (lib/auth/ldapSync.ts).                       *)
(*                                                                         *)
(* An attempt reads the clock and asks the limiter, then awaits the        *)
(* directory, then tells the limiter, with the clock it read at first.     *)
(* The directory (outside src/) changes at any time and may fail to        *)
(* answer.  A password is right or wrong.  Syncs exclude nobody.           *)
(***************************************************************************)
EXTENDS Integers, FiniteSets, Sequences, TLC

CONSTANTS Users,
          Groups,       \* of the directory
          RoleOf,       \* groupRoles: the role a group gives; a group may give none
          Keys,         \* a client address and a user name
          UserOf,       \* the user name of a key
          Attempts,     \* login requests under way at once
          Syncs,        \* syncs under way at once
          LIMIT,
          WINDOW,
          TTL,          \* of a session
          MaxNow,       \* bound: the clock
          MaxAttempts,  \* bound: login requests
          MaxSyncs,     \* bound: syncs
          MaxChanges    \* bound: changes of the directory

ASSUME AccessAssumption ==
    /\ UserOf \in [Keys -> Users]
    /\ DOMAIN RoleOf \subseteq Groups
    /\ "nobody" \notin Groups \cup {RoleOf[g] : g \in DOMAIN RoleOf}
    /\ IsFiniteSet(Attempts)
    /\ {LIMIT, WINDOW, TTL} \subseteq Nat \ {0}
    /\ {MaxNow, MaxAttempts, MaxSyncs, MaxChanges} \subseteq Nat

VARIABLES now,
          windows,    \* of the limiter
          attempt,    \* attempt[a]: where it is, its key, the clock it read
          attempts,
          failures,   \* history: when the failures of a key since its last success were told
          session,    \* session[u]: what the cookie of u's browser says
          heldUntil,  \* history: when the directory last gave u a role
          people,     \* the directory: the groups of each account it has
          directoryUser, \* the table
          sync,
          syncs,
          changes

loginVars == << windows, attempt, attempts, failures, session >>

directoryVars == << people, heldUntil, changes >>

syncVars == << directoryUser, sync, syncs >>

accessVars == << now, loginVars, directoryVars, syncVars >>

Nobody == {"nobody"}

Roles == {RoleOf[g] : g \in DOMAIN RoleOf}

NoWindow == [count |-> 0, startedAt |-> 0]

NoAttempt == [pc |-> "idle"]

NoSession == [signed |-> -1]

NoSync == [pc |-> "idle", calm |-> FALSE]

mapGroupsToRoles(groups) == {RoleOf[g] : g \in groups \cap DOMAIN RoleOf}

copied(u) == IF people[u] = Nobody THEN Nobody ELSE mapGroupsToRoles(people[u])

\* The table is empty, or what a sync left.
AccessInit ==
    /\ now = 0
    /\ windows = [k \in Keys |-> NoWindow]
    /\ attempt = [a \in Attempts |-> NoAttempt]
    /\ attempts = 0
    /\ failures = [k \in Keys |-> << >>]
    /\ session = [u \in Users |-> NoSession]
    /\ people \in [Users -> (SUBSET Groups) \cup {Nobody}]
    /\ heldUntil = [u \in Users |-> [role \in Roles |-> -1]]
    /\ directoryUser \in {[u \in Users |-> Nobody], [u \in Users |-> copied(u)]}
    /\ sync = [s \in Syncs |-> NoSync]
    /\ syncs = 0
    /\ changes = 0

-----------------------------------------------------------------------------
listed == {u \in Users : people[u] # Nobody}

holdsRole(u, role) == u \in listed /\ role \in mapGroupsToRoles(people[u])

\* The directory takes an account in or out, or changes its groups: no sync is calm then.
change(u, groups) ==
    /\ changes < MaxChanges
    /\ groups # people[u]
    /\ changes' = changes + 1
    /\ people' = [people EXCEPT ![u] = groups]
    /\ heldUntil' = [heldUntil EXCEPT ![u] = [role \in Roles |-> IF holdsRole(u, role) THEN now ELSE @[role]]]
    /\ sync' = [s \in Syncs |-> [sync[s] EXCEPT !.calm = FALSE]]
    /\ UNCHANGED << now, loginVars, directoryUser, syncs >>

tick ==
    /\ now < MaxNow
    /\ now' = now + 1
    /\ UNCHANGED << loginVars, directoryVars, syncVars >>

-----------------------------------------------------------------------------
\* Mutant: a window lasts an instant longer.
liveAtItsEnd(w, t) == w.count > 0 /\ t - w.startedAt <= WINDOW

live(w, t) == w.count > 0 /\ t - w.startedAt < WINDOW

\* Mutant: one failure too many.
checkOneMore(k, t) == ~live(windows[k], t) \/ windows[k].count <= LIMIT

check(k, t) == ~live(windows[k], t) \/ windows[k].count < LIMIT

dropped(k, t) == [windows EXCEPT ![k] = IF live(@, t) THEN @ ELSE NoWindow]

\* fail sweeps every key first, at the clock that the attempt read.
failed(k, t) ==
    [x \in Keys |-> LET w == windows[x]
                    IN  IF x # k THEN IF live(w, t) THEN w ELSE NoWindow
                        ELSE IF live(w, t) THEN [w EXCEPT !.count = @ + 1]
                        ELSE [count |-> 1, startedAt |-> t]]

\* Mutant: a success is not told to the limiter.
resetNothing(k) == windows

reset(k) == [windows EXCEPT ![k] = NoWindow]

submit(a, k) ==
    /\ attempt[a] = NoAttempt
    /\ attempts < MaxAttempts
    /\ attempts' = attempts + 1
    /\ windows' = dropped(k, now)
    /\ attempt' = IF check(k, now)
                  THEN [attempt EXCEPT ![a] = [pc |-> "bind", key |-> k, now |-> now]]
                  ELSE attempt
    /\ UNCHANGED << now, failures, session, directoryVars, syncVars >>

step(a, q) ==
    /\ attempt' = [attempt EXCEPT ![a] = q]
    /\ UNCHANGED << now, windows, attempts, failures, session, directoryVars, syncVars >>

\* authenticate: the account is found and takes the password, or no ...
bind(a) ==
    /\ attempt[a].pc = "bind"
    /\ \/ UserOf[attempt[a].key] \in listed /\ step(a, [attempt[a] EXCEPT !.pc = "groups"])
       \/ step(a, [attempt[a] EXCEPT !.pc = "fail"])

\* ... and its groups give the roles; an error is a failure like a wrong password.
groupsOf(a) ==
    /\ attempt[a].pc = "groups"
    /\ \/ LET u == UserOf[attempt[a].key]
          IN  step(a, [pc |-> "reset", key |-> attempt[a].key, now |-> attempt[a].now,
                       roles |-> IF people[u] = Nobody THEN {} ELSE mapGroupsToRoles(people[u])])
       \/ step(a, [attempt[a] EXCEPT !.pc = "fail"])

loginFailed(a) ==
    /\ attempt[a].pc = "fail"
    /\ windows' = failed(attempt[a].key, attempt[a].now)
    /\ failures' = [failures EXCEPT ![attempt[a].key] = Append(@, now)]
    /\ attempt' = [attempt EXCEPT ![a] = NoAttempt]
    /\ UNCHANGED << now, attempts, session, directoryVars, syncVars >>

loginSucceeded(a) ==
    /\ attempt[a].pc = "reset"
    /\ windows' = reset(attempt[a].key)
    /\ failures' = [failures EXCEPT ![attempt[a].key] = << >>]
    /\ attempt' = [attempt EXCEPT ![a].pc = "sign"]
    /\ UNCHANGED << now, attempts, session, directoryVars, syncVars >>

\* The audit line is written in between; the cookie replaces the one before.
signSession(a) ==
    /\ attempt[a].pc = "sign"
    /\ session' = [session EXCEPT ![UserOf[attempt[a].key]] =
                      [signed |-> now, began |-> attempt[a].now, roles |-> attempt[a].roles]]
    /\ attempt' = [attempt EXCEPT ![a] = NoAttempt]
    /\ UNCHANGED << now, windows, attempts, failures, directoryVars, syncVars >>

logout(u) ==
    /\ session[u] # NoSession
    /\ session' = [session EXCEPT ![u] = NoSession]
    /\ UNCHANGED << now, windows, attempt, attempts, failures, directoryVars, syncVars >>

\* The limiter is in the memory of the process.
restart ==
    /\ windows' = [k \in Keys |-> NoWindow]
    /\ attempt' = [a \in Attempts |-> NoAttempt]
    /\ sync' = [s \in Syncs |-> NoSync]
    /\ << windows', attempt', sync' >> # << windows, attempt, sync >>
    /\ UNCHANGED << now, attempts, failures, session, directoryVars, directoryUser, syncs >>

\* Mutant: a token has no end.
verifySessionForever(u) == session[u] # NoSession

verifySession(u) == session[u] # NoSession /\ now < session[u].signed + TTL

\* requireSessionRole: 401 without a session, 403 without the role.
actsAs(u, role) == verifySession(u) /\ role \in session[u].roles

-----------------------------------------------------------------------------
\* syncLdapUsers: one listing, then each account of it in turn, then the rest goes.
startSync(s) ==
    /\ sync[s].pc = "idle"
    /\ syncs < MaxSyncs
    /\ syncs' = syncs + 1
    /\ sync' = [x \in Syncs |-> IF x = s
                                THEN [pc |-> "users", listing |-> listed, todo |-> listed, seen |-> {},
                                      calm |-> \A y \in Syncs : sync[y].pc = "idle"]
                                ELSE [sync[x] EXCEPT !.calm = FALSE]]
    /\ UNCHANGED << now, loginVars, directoryVars, directoryUser >>

searchGroups(s, u) ==
    /\ sync[s].pc = "users"
    /\ u \in sync[s].todo
    /\ sync' = [sync EXCEPT ![s] = [pc |-> "upsert", listing |-> @.listing, todo |-> @.todo \ {u}, seen |-> @.seen,
                                    calm |-> @.calm, user |-> u, groups |-> people[u]]]
    /\ UNCHANGED << now, loginVars, directoryVars, directoryUser, syncs >>

\* Mutant: the account keeps the roles it had.
upsertedOnce(u, groups) ==
    [directoryUser EXCEPT ![u] = IF @ = Nobody THEN mapGroupsToRoles(groups) ELSE @]

upserted(u, groups) ==
    [directoryUser EXCEPT ![u] = IF groups = Nobody THEN {} ELSE mapGroupsToRoles(groups)]

upsert(s) ==
    /\ sync[s].pc = "upsert"
    /\ directoryUser' = upserted(sync[s].user, sync[s].groups)
    /\ sync' = [sync EXCEPT ![s] = [pc |-> "users", listing |-> @.listing, todo |-> @.todo,
                                    seen |-> @.seen \cup {@.user}, calm |-> @.calm]]
    /\ UNCHANGED << now, loginVars, directoryVars, syncs >>

\* Mutant: an account whose groups do not come is passed over.
passedOver(q) == IF q.pc = "upsert" THEN [q EXCEPT !.pc = "users"] ELSE NoSync

stopped(q) == NoSync

\* The directory or the database fails: the sync answers an error and stops there.
failSync(s) ==
    /\ sync[s].pc # "idle"
    /\ sync' = [sync EXCEPT ![s] = stopped(@)]
    /\ UNCHANGED << now, loginVars, directoryVars, directoryUser, syncs >>

deleteMany(s) ==
    /\ sync[s].pc = "users"
    /\ sync[s].todo = {}
    /\ directoryUser' = [u \in Users |-> IF u \in sync[s].seen THEN directoryUser[u] ELSE Nobody]
    /\ sync' = [sync EXCEPT ![s] = NoSync]
    /\ UNCHANGED << now, loginVars, directoryVars, syncs >>

-----------------------------------------------------------------------------
loginStep ==
    \/ \E a \in Attempts, k \in Keys : submit(a, k)
    \/ \E a \in Attempts :
          \/ bind(a)
          \/ groupsOf(a)
          \/ loginFailed(a)
          \/ loginSucceeded(a)
          \/ signSession(a)
    \/ \E u \in Users : logout(u)
    \/ tick

syncStep ==
    \E s \in Syncs :
       \/ startSync(s)
       \/ \E u \in Users : searchGroups(s, u)
       \/ upsert(s)
       \/ failSync(s)
       \/ deleteMany(s)

directoryStep == \E u \in Users, groups \in (SUBSET Groups) \cup {Nobody} : change(u, groups)

AccessNext == loginStep \/ syncStep \/ directoryStep \/ restart

AccessSpec == AccessInit /\ [][AccessNext]_accessVars

-----------------------------------------------------------------------------
AccessTypeOK ==
    /\ \A k \in Keys : windows[k].count \in 0..MaxAttempts /\ windows[k].startedAt \in 0..now
    /\ \A u \in Users : directoryUser[u] # Nobody => directoryUser[u] \subseteq Roles
    /\ \A s \in Syncs : sync[s].pc = "users" => sync[s].todo \cup sync[s].seen = sync[s].listing

\* The limiter refuses a key only after LIMIT failures of its own, told within the last
\* WINDOW and not followed by a success: neither the failures of other keys, nor the
\* sweep with an old clock, nor a window that has just ended refuses anybody.
RefusalIsEarned ==
    \A k \in Keys : ~check(k, now) =>
        Cardinality({i \in DOMAIN failures[k] : failures[k][i] > now - WINDOW}) >= LIMIT

\* Attempts that passed the limiter while others awaited the directory add at most the
\* requests under way to what a window lets through.
GuessesAreBounded ==
    \A k \in Keys :
        windows[k].count + Cardinality({a \in Attempts : attempt[a].pc \in {"bind", "groups", "fail"}
                                                         /\ attempt[a].key = k})
           <= LIMIT - 1 + Cardinality(Attempts)

\* Who acts by a role was in the directory when he signed in or later, and a session
\* outlives that by TTL at most, counted from the end of the sign-in: a role or an
\* account taken away works until then, and no longer.
RolesEndWithTheSession ==
    \A u \in Users, role \in Roles :
        actsAs(u, role) =>
            \/ holdsRole(u, role)
            \/ /\ heldUntil[u][role] >= session[u].began
               /\ now - heldUntil[u][role] < TTL + session[u].signed - session[u].began

\* A sync that ends well and met neither another sync nor a change of the directory
\* leaves the table as the directory is, whatever the syncs before it left half done.
CalmSyncCopies ==
    [][\A s \in Syncs :
          deleteMany(s) /\ sync[s].calm =>
              \A u \in Users : directoryUser'[u] = copied(u)]_accessVars

\* An account in the directory is deleted from the table only by a sync that listed the
\* directory before the account came: never because a query for it failed.
AccountsStay ==
    [][\A u \in Users : directoryUser[u] # Nobody /\ directoryUser'[u] = Nobody =>
          \E s \in Syncs : deleteMany(s) /\ u \notin sync[s].listing]_accessVars
=============================================================================
