---------------------------- MODULE HookDispatch ----------------------------
(***************************************************************************)
(* Notifications: src/src/lib/hooks/dispatch.ts, its filter transitions.ts *)
(* and the administration of hooks and of the targets they share           *)
(* (hooks/config.ts, notificationTarget.ts and the routes over them).      *)
(*                                                                         *)
(* The deployments behind it are those of StatusTrail: they move in atomic *)
(* steps, and each request, once its step is committed, starts a dispatch  *)
(* it does not wait for.  A dispatch reads the event and the hooks of the  *)
(* product, then their targets, then the latest transition, then sends to  *)
(* each hook in turn and logs the attempt, while moves, other dispatches   *)
(* and administrators go on.  All hooks here belong to the product of all  *)
(* the deployments.                                                        *)
(***************************************************************************)
EXTENDS StatusTrail, FiniteSets

CONSTANTS Hooks,          \* identifiers of the rows of Hook
          Targets,        \* identifiers of the rows of NotificationTarget
          Subscriptions,  \* what administrators create hooks with
          FirstStatuses,  \* statuses that bodies carry
          MaxRows,        \* bound: rows of a trail
          MaxConfigs,     \* bound: configurations that a target ever has
          MaxDispatches   \* bound: dispatches ever started

Kinds == {"deploy.created", "deploy.status_changed", "deploy.status_undone",
          "deploy.rolled_back"}

Inline == "inline"  \* for a target: the hook has a configuration of its own

\* A set of kinds ("*" is all of them), a set of transitions, a target, enabled or not.
Subscription == [events : SUBSET Kinds,
                 transitions : SUBSET (Statuses \X Statuses),
                 target : Targets \cup {Inline},
                 enabled : BOOLEAN]

ASSUME HookAssumption ==
    /\ Subscriptions \subseteq Subscription
    /\ FirstStatuses \subseteq Statuses
    /\ MaxRows \in Nat
    /\ MaxConfigs \in Nat \ {0}
    /\ MaxDispatches \in Nat
    /\ "none" \notin Hooks

VARIABLES hook,      \* hook[h]: the row of Hook; what a deleted one was is kept,
                     \* for the dispatches that still hold a copy of it
          targetRow, \* targetRow[t]: its configuration, numbered as they come
          dispatch,  \* the dispatches, in the order they were started
          delivery,  \* the rows of HookDelivery, oldest first
          deleted    \* hooks with a row "hook.deleted" in AuditLog

hookVars == << trailVars, hook, targetRow, dispatch, delivery, deleted >>

NoHook == [live |-> FALSE]

hookRow(sub) == [live |-> TRUE, sub |-> sub]

NoTarget == [live |-> FALSE, config |-> 0]

(***************************************************************************)
(* A dispatch.  row is the entry of the trail its request committed (0 for *)
(* a kind without one); move is the transition it read; hooks are the rows *)
(* it read, aims the configurations of their targets (0: the hook's own),  *)
(* queue those it has still to serve; since, which the code does not keep, *)
(* is the configurations there were when it started.                       *)
(*   "emitted": nothing read yet       "hooked": the event and hooks read  *)
(*   "read"   : their targets too                                          *)
(*   "sending": in the loop, over when queue is empty                      *)
(*   "sent"   : an attempt made, not yet logged                            *)
(*   "thrown" : ended by an error      "lost": by a restart                *)
(***************************************************************************)
NoMove == << NoStatus, NoStatus >>

\* Mutant: the two columns swapped.
moveSwapped(e) == << e.to, e.from >>

moveOf(e) == << e.from, e.to >>

Dispatch == [pc : {"emitted", "hooked", "read", "sending", "sent", "thrown", "lost"},
             kind : Kinds, ev : Deployments, row : Nat,
             move : (StatusOrNone \X Statuses) \cup {NoMove},
             hooks : SUBSET Hooks, aims : [Hooks -> 0..MaxConfigs],
             since : [Targets -> 0..MaxConfigs], matched : SUBSET Hooks, queue : SUBSET Hooks,
             current : Hooks \cup {"none"}, ok : BOOLEAN]

HookInit ==
    /\ st = [d \in Deployments |-> "absent"]
    /\ trail = [d \in Deployments |-> << >>]
    /\ hook = [h \in Hooks |-> NoHook]
    /\ targetRow = [t \in Targets |-> NoTarget]
    /\ dispatch = << >>
    /\ delivery = << >>
    /\ deleted = {}

-----------------------------------------------------------------------------
\* emitHooks: the promise is started and not awaited.
emitHooks(d, kind, row) ==
    /\ Len(dispatch) < MaxDispatches
    /\ dispatch' = Append(dispatch,
          [pc |-> "emitted", kind |-> kind, ev |-> d, row |-> row,
           move |-> NoMove, hooks |-> {}, aims |-> [h \in Hooks |-> 0],
           since |-> [t \in Targets |-> targetRow[t].config], matched |-> {}, queue |-> {},
           current |-> "none", ok |-> FALSE])
    /\ UNCHANGED << hook, targetRow, delivery, deleted >>

\* The requests.  A creation notifies once its row is in, a PUT says "created"
\* each time, a move or an undo, whoever makes it, notifies once committed, a
\* rollback leaves the status alone.
appear(d) ==
    /\ \E s \in FirstStatuses : Appear(d, s)
    /\ UNCHANGED << hook, targetRow, dispatch, delivery, deleted >>

created(d) ==
    /\ Len(trail[d]) < MaxRows
    /\ st[d] # "absent"
    /\ \E s \in FirstStatuses : RecordCreation(d, s)
    /\ emitHooks(d, "deploy.created", 0)

overwritten(d) ==
    /\ \E s \in FirstStatuses : Overwrite(d, s)
    /\ emitHooks(d, "deploy.created", 0)

statusChanged(d) ==
    /\ Len(trail[d]) < MaxRows
    /\ st[d] \in Statuses
    /\ nextStatus(st[d]) # NoStatus
    /\ Move(d, entry(st[d], nextStatus(st[d]), "admin", TRUE, NoToken))
    /\ emitHooks(d, "deploy.status_changed", Len(trail[d]) + 1)

statusUndone(d) ==
    /\ Len(trail[d]) < MaxRows
    /\ st[d] \in Statuses
    /\ previousStatus(st[d]) # NoStatus
    /\ Move(d, entry(st[d], previousStatus(st[d]), "admin", TRUE, NoToken))
    /\ emitHooks(d, "deploy.status_undone", 0)

rolledBack(d) ==
    /\ st[d] # "absent"
    /\ emitHooks(d, "deploy.rolled_back", 0)
    /\ UNCHANGED trailVars

-----------------------------------------------------------------------------
\* dispatchHooks, first query: the event with the hooks of its product.
readEvent(i) ==
    /\ dispatch[i].pc = "emitted"
    /\ dispatch' = [dispatch EXCEPT ![i].pc = "hooked",
                                    ![i].hooks = {h \in Hooks : hook[h].live}]
    /\ UNCHANGED << trailVars, hook, targetRow, delivery, deleted >>

\* h.target ? h.target.config : h.config
configOf(h) ==
    LET t == hook[h].sub.target
    IN  IF t # Inline /\ targetRow[t].live THEN targetRow[t].config ELSE 0

\* Second query: the targets that the rows of hooks refer to.
readTargets(i) ==
    /\ dispatch[i].pc = "hooked"
    /\ dispatch' = [dispatch EXCEPT ![i].pc = "read",
                                    ![i].aims = [h \in Hooks |-> IF h \in dispatch[i].hooks THEN configOf(h) ELSE 0]]
    /\ UNCHANGED << trailVars, hook, targetRow, delivery, deleted >>

\* Mutant: the first transition instead of the latest.
firstMove(d) == moveOf(trail[d][1])

latestMove(d) == moveOf(trail[d][Len(trail[d])])

\* An empty filter lets everything through, another only what it lists.
matches(sub, kind, move) ==
    /\ sub.enabled
    /\ kind \in sub.events
    /\ kind = "deploy.status_changed" /\ sub.transitions # {} => move \in sub.transitions

\* Third query, for status_changed only; then the filter, over the rows read.
readTransition(i) ==
    /\ dispatch[i].pc = "read"
    /\ LET d == dispatch[i]
           move == IF d.kind = "deploy.status_changed" THEN latestMove(d.ev) ELSE NoMove
           served == {h \in d.hooks : matches(hook[h].sub, d.kind, move)}
       IN  dispatch' = [dispatch EXCEPT ![i].pc = "sending", ![i].move = move,
                                        ![i].matched = served, ![i].queue = served]
    /\ UNCHANGED << trailVars, hook, targetRow, delivery, deleted >>

\* A connector answers, or throws, which counts as a failed attempt.
send(i, h) ==
    /\ dispatch[i].pc = "sending"
    /\ h \in dispatch[i].queue
    /\ \E ok \in BOOLEAN :
          dispatch' = [dispatch EXCEPT ![i].pc = "sent", ![i].current = h, ![i].ok = ok]
    /\ UNCHANGED << trailVars, hook, targetRow, delivery, deleted >>

\* Mutant: a failed attempt ends the loop.
servedStopping(d) == IF d.ok THEN d.queue \ {d.current} ELSE {}

stillToServe(d) == d.queue \ {d.current}

\* The attempt is logged and the loop goes on; but the row refers to the hook,
\* and when that has gone the insert throws and ends the dispatch.
log(i) ==
    /\ dispatch[i].pc = "sent"
    /\ LET d == dispatch[i]
       IN  \/ /\ hook[d.current].live
              /\ delivery' = Append(delivery, [by |-> i, to |-> d.current, ok |-> d.ok])
              /\ dispatch' = [dispatch EXCEPT ![i].pc = "sending",
                                              ![i].queue = stillToServe(d),
                                              ![i].current = "none", ![i].ok = FALSE]
           \/ /\ ~hook[d.current].live
              /\ dispatch' = [dispatch EXCEPT ![i].pc = "thrown"]
              /\ UNCHANGED delivery
    /\ UNCHANGED << trailVars, hook, targetRow, deleted >>

-----------------------------------------------------------------------------
\* POST /products/{slug}/hooks: the target must be there, the constraint has the last word.
createHook(h, sub) ==
    /\ hook[h] = NoHook
    /\ sub.target # Inline => targetRow[sub.target].live
    /\ hook' = [hook EXCEPT ![h] = hookRow(sub)]
    /\ UNCHANGED << trailVars, targetRow, dispatch, delivery, deleted >>

deletable(h) == \A k \in DOMAIN delivery : delivery[k].to # h

\* DELETE /products/{slug}/hooks/{hookId}.  Rows of HookDelivery refer to the
\* hook and the database refuses; the route answers and audits a deletion.
deleteHook(h) ==
    /\ hook[h] # NoHook
    /\ hook' = IF deletable(h) THEN [hook EXCEPT ![h].live = FALSE] ELSE hook
    /\ deleted' = deleted \cup {h}
    /\ UNCHANGED << trailVars, targetRow, dispatch, delivery >>

\* /notification-targets: a new one, a new configuration, and the end of one that no
\* hook uses (ON DELETE RESTRICT, answered 409).
setTarget(t, row) ==
    /\ targetRow' = [targetRow EXCEPT ![t] = row]
    /\ UNCHANGED << trailVars, hook, dispatch, delivery, deleted >>

createTarget(t) == targetRow[t] = NoTarget /\ setTarget(t, [live |-> TRUE, config |-> 1])

updateTarget(t) ==
    /\ targetRow[t].live
    /\ targetRow[t].config < MaxConfigs
    /\ setTarget(t, [targetRow[t] EXCEPT !.config = @ + 1])

\* Mutant: hooks are set free of it, as the first migration of targets had it.
unusedOrNot(t) == TRUE

unused(t) == \A h \in Hooks : hook[h].live => hook[h].sub.target # t

deleteTarget(t) ==
    /\ targetRow[t].live
    /\ unused(t)
    /\ setTarget(t, [targetRow[t] EXCEPT !.live = FALSE])

complete(d) == d.pc = "sending" /\ d.queue = {}

over(d) == complete(d) \/ d.pc \in {"thrown", "lost"}

\* The process restarts: what was in flight is lost.
restart ==
    /\ \E i \in DOMAIN dispatch : ~over(dispatch[i])
    /\ dispatch' = [i \in DOMAIN dispatch |->
                       IF over(dispatch[i]) THEN dispatch[i]
                                            ELSE [dispatch[i] EXCEPT !.pc = "lost"]]
    /\ UNCHANGED << trailVars, hook, targetRow, delivery, deleted >>

-----------------------------------------------------------------------------
request(d) ==
    \/ appear(d)
    \/ created(d)
    \/ overwritten(d)
    \/ statusChanged(d)
    \/ statusUndone(d)
    \/ rolledBack(d)

dispatchHooks(i) ==
    \/ readEvent(i)
    \/ readTargets(i)
    \/ readTransition(i)
    \/ \E h \in Hooks : send(i, h)
    \/ log(i)

HookNext ==
    \/ \E d \in Deployments : request(d)
    \/ \E i \in DOMAIN dispatch : dispatchHooks(i)
    \/ \E h \in Hooks : deleteHook(h) \/ \E sub \in Subscriptions : createHook(h, sub)
    \/ \E t \in Targets : createTarget(t) \/ updateTarget(t) \/ deleteTarget(t)
    \/ restart

HookSpec == HookInit /\ [][HookNext]_hookVars

-----------------------------------------------------------------------------
\* Types, and what refers to a row finds it.
HookTypeOK ==
    /\ st \in [Deployments -> StatusOrNone \cup {"absent"}]
    /\ hook \in [Hooks -> {NoHook} \cup [live : BOOLEAN, sub : Subscriptions]]
    /\ dispatch \in Seq(Dispatch)
    /\ delivery \in Seq([by : 1..MaxDispatches, to : Hooks, ok : BOOLEAN])
    /\ targetRow \in [Targets -> [live : BOOLEAN, config : 0..MaxConfigs]]
    /\ deleted \subseteq Hooks
    /\ \A k \in DOMAIN delivery : hook[delivery[k].to].live
    /\ \A h \in Hooks : hook[h].live /\ hook[h].sub.target # Inline => targetRow[hook[h].sub.target].live

-----------------------------------------------------------------------------
(***************************************************************************)
(* Properties.                                                             *)
(***************************************************************************)
dispatched(i, kind) == dispatch[i].kind = kind /\ dispatch[i].pc \in {"sending", "sent", "thrown"}

\* A status_changed notification tells of a move that did take place, its own
\* request's or a later one, never of an older one.
TellsNoOlderMove ==
    \A i \in DOMAIN dispatch :
        dispatched(i, "deploy.status_changed") =>
            \E k \in dispatch[i].row..Len(trail[dispatch[i].ev]) :
                dispatch[i].move = moveOf(trail[dispatch[i].ev][k])

attempts(i, h) == {k \in DOMAIN delivery : delivery[k].by = i /\ delivery[k].to = h}

\* Each hook that asked for what happened gets one attempt, and nobody else
\* does, whatever becomes of the other attempts: a dispatch that ran to its end
\* left one row of HookDelivery for each hook it matched, one that was cut
\* short at most one, and a cut is a restart or a hook deleted under it.
EachMatchIsTried ==
    \A i \in DOMAIN dispatch : \A h \in Hooks :
        LET d == dispatch[i]
        IN  /\ Cardinality(attempts(i, h)) <= 1
            /\ attempts(i, h) # {} => matches(hook[h].sub, d.kind, d.move)
            /\ complete(d) /\ h \in d.hooks
                  => (attempts(i, h) # {} <=> matches(hook[h].sub, d.kind, d.move))
            /\ d.pc = "thrown" => d.current \in deleted /\ attempts(i, d.current) = {}

\* A hook that shares a target is tried where the target pointed when the change was
\* committed, or later, however slow the sends before it are: never at an older
\* configuration, and at the hook's own, which is empty, only if the hook itself was
\* deleted, and then its target, between the queries of the dispatch.
SendsFollowTheTarget ==
    \A i \in DOMAIN dispatch : \A h \in Hooks :
        LET d == dispatch[i]
            t == hook[h].sub.target
        IN  attempts(i, h) # {} \/ d.current = h =>
               IF t = Inline THEN d.aims[h] = 0
               ELSE IF d.aims[h] # 0 THEN d.aims[h] \in d.since[t]..targetRow[t].config
               ELSE h \in deleted

\* What README.md says of hooks aimed at a transition: a hook that was there
\* when a deployment made that transition is told of it, even with nothing
\* lost and nothing deleted.
AimedHookIsTold ==
    (\A j \in DOMAIN dispatch : complete(dispatch[j])) =>
        \A i \in DOMAIN dispatch : \A h \in dispatch[i].hooks :
            LET d == dispatch[i]
                made == moveOf(trail[d.ev][d.row])
            IN  (d.row # 0 /\ matches(hook[h].sub, d.kind, made)) =>
                    \E k \in DOMAIN delivery :
                        delivery[k].to = h /\ dispatch[delivery[k].by].move = made

\* What the route's answer and its audit row say: the hook is gone.
DeletedHookIsGone == \A h \in deleted : ~hook[h].live

=============================================================================
