----------------------------- MODULE StatusTrail -----------------------------
(***************************************************************************)
(* What the workflow promises to a reader of the database, with no request *)
(* in sight: every deployment is a status and the trail of its rows of     *)
(* StatusTransition, and each change of the one is a single atomic step    *)
(* that extends the other.  DeployStatus, where requests read, decide and  *)
(* commit in separate steps, implements this specification.                *)
(***************************************************************************)
EXTENDS DeployWorkflow

CONSTANTS Deployments,  \* the identifiers of the rows of Event
          ApiKeyed      \* those with an externalId, which a PUT may rewrite

VARIABLES st,           \* st[d]: Event.deployStatus, or "absent"
          trail         \* trail[d]: the StatusTransition rows of d, oldest first

trailVars == << st, trail >>

\* A forward entry: legal, and by somebody entitled to it.  The holder of a
\* one-click link and the cron are entitled without a session or a comment.
ForwardEntry(e) ==
    /\ e.from \in StatusOrNone
    /\ e.to \in Statuses
    /\ legal(e.from, e.to)
    /\ \/ /\ e.by \in {"admin", roleGroup(e.to)}
          /\ commentRequired(e.to) => e.comment
       \/ e.by = "lien"
       \/ e.by = "scheduler" /\ e.to = "PENDING"

\* A backward entry: exactly one notch, by devops or admin, with a comment.
BackwardEntry(e) ==
    /\ e.from \in Statuses
    /\ e.to \in Statuses
    /\ e.to = previousStatus(e.from)
    /\ e.by \in {"admin", "devops"}
    /\ e.comment

\* The entries of a trail that left a status, as against the one that entered
\* the first: the creation row, or the first move of a row with no status.
moves(tr) == { i \in DOMAIN tr : tr[i].from # NoStatus }

\* What a deployment with status s and trail tr was before its first move.
HasOrigin(tr, s, origin) ==
    /\ moves(tr) = {} => s = origin
    /\ \A j \in moves(tr) :
          (\A k \in moves(tr) : j <= k) => tr[j].from = origin

-----------------------------------------------------------------------------
TrailInit ==
    /\ st \in [Deployments -> StatusOrNone \cup {"absent"}]
    /\ trail = [d \in Deployments |-> << >>]

Appear(d, s) ==
    /\ st[d] = "absent"
    /\ st' = [st EXCEPT ![d] = s]
    /\ trail' = trail

\* Several deployments and their creation rows at once: a lot.
AppearRecorded(D, s) ==
    /\ \A d \in D : st[d] = "absent"
    /\ st' = [d \in Deployments |-> IF d \in D THEN s ELSE st[d]]
    /\ trail' = [d \in Deployments |->
                    IF d \in D THEN << creationEntry(s) >> ELSE trail[d]]

\* The row of a creation may land after the first moves, but only once, and
\* it names the status those moves started from.
RecordCreation(d, s) ==
    /\ d \notin ApiKeyed => /\ moves(trail[d]) = DOMAIN trail[d]
                            /\ HasOrigin(trail[d], st[d], s)
    /\ trail' = [trail EXCEPT ![d] = Append(@, creationEntry(s))]
    /\ st' = st

Move(d, e) ==
    /\ e.from = st[d]
    /\ ForwardEntry(e) \/ BackwardEntry(e)
    /\ st' = [st EXCEPT ![d] = e.to]
    /\ trail' = [trail EXCEPT ![d] = Append(@, e)]

\* PUT by externalId rewrites the status and leaves no row.
Overwrite(d, s) ==
    /\ d \in ApiKeyed
    /\ st' = [st EXCEPT ![d] = s]
    /\ trail' = trail

TrailNext ==
    \/ \E d \in Deployments :
          \/ \E s \in StatusOrNone : Appear(d, s)
          \/ \E s \in Statuses : RecordCreation(d, s) \/ Overwrite(d, s)
          \/ /\ Len(trail'[d]) = Len(trail[d]) + 1
             /\ Move(d, trail'[d][Len(trail[d]) + 1])
    \/ \E D \in SUBSET Deployments, s \in Statuses : AppearRecorded(D, s)

TrailSpec == TrailInit /\ [][TrailNext]_trailVars

-----------------------------------------------------------------------------
\* Each move starts where the previous one ended.
Chained(tr) ==
    \A i, j \in moves(tr) :
        (i < j /\ \A k \in moves(tr) : k <= i \/ j <= k) => tr[j].from = tr[i].to

\* The last move ends at the status of the deployment.
EndsAt(tr, s) ==
    \A i \in moves(tr) : (\A k \in moves(tr) : k <= i) => tr[i].to = s

\* At most one entry enters the first status, and it names it.
Entered(tr, s) ==
    \A i \in DOMAIN tr \ moves(tr) :
        /\ HasOrigin(tr, s, tr[i].to)
        /\ \A j \in DOMAIN tr \ moves(tr) : i = j

=============================================================================
