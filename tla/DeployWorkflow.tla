--------------------------- MODULE DeployWorkflow ---------------------------
(***************************************************************************)
(* The deployment workflow as pure operators: src/src/lib/deployWorkflow.ts.*)
(* A status is a string; NoStatus is the null of the database column and   *)
(* the null nextStatus and previousStatus answer at an end of the order.   *)
(***************************************************************************)
EXTENDS Integers, Sequences

DEPLOY_ORDER == << "SCHEDULED", "GO_CONFIRMED", "PENDING", "IN_PROGRESS",
                   "DEPLOYED", "TESTING", "VALIDATE" >>

Statuses == { DEPLOY_ORDER[i] : i \in 1..7 }

NoStatus == "null"

StatusOrNone == Statuses \cup {NoStatus}

indexOf(s) == CHOOSE i \in 1..7 : DEPLOY_ORDER[i] = s

nextStatus(s) ==
    IF indexOf(s) < 7 THEN DEPLOY_ORDER[indexOf(s) + 1] ELSE NoStatus

previousStatus(s) ==
    IF indexOf(s) > 1 THEN DEPLOY_ORDER[indexOf(s) - 1] ELSE NoStatus

canTransition(from, to) == nextStatus(from) = to

\* The legality test of transitionDeployStatus: a row with no status may only
\* enter the workflow at PENDING.
legal(from, to) ==
    IF from = NoStatus THEN to = "PENDING" ELSE canTransition(from, to)

roleGroup(s) == IF s \in {"TESTING", "VALIDATE"} THEN "qa" ELSE "devops"

commentRequired(s) == s = "VALIDATE"

-----------------------------------------------------------------------------
(***************************************************************************)
(* A row of StatusTransition.  by stands for the actor: the role a session *)
(* acted under, "lien" (one-click link), "scheduler" (cron), or "creation";*)
(* comment says whether one was given; jti is the link used, for           *)
(* properties only (the table has no such column).                         *)
(***************************************************************************)
NoToken == "no token"

entry(from, to, by, comment, jti) ==
    [from |-> from, to |-> to, by |-> by, comment |-> comment, jti |-> jti]

creationEntry(s) == entry(NoStatus, s, "creation", FALSE, NoToken)

=============================================================================
