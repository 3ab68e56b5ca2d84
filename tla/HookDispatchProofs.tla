------------------------- MODULE HookDispatchProofs -------------------------
(***************************************************************************)
(* Theorems about HookDispatch, for every set of deployments, hooks,       *)
(* targets and subscriptions, and every value of the bounds.               *)
(***************************************************************************)
EXTENDS HookDispatch, FiniteSetTheorems, TLAPS

(***************************************************************************)
(* The inductive invariant.  A dispatch goes on with what it read while    *)
(* trails, hooks and targets move on; the first parts say what of that     *)
(* stays true, the last ones that what was matched is divided between what *)
(* is queued and what the log tells.                                       *)
(***************************************************************************)
Row == [from : StatusOrNone, to : Statuses, by : {"admin", "creation"}, comment : BOOLEAN, jti : {NoToken}]

TrailsAreTyped == trail \in [Deployments -> Seq(Row)]

\* The deletion of a hook that is gone was logged.
DeletionsAreLogged == \A h \in Hooks : hook[h] # NoHook /\ ~hook[h].live => h \in deleted

\* Configurations are numbered upward from one.
ConfigsCount == \A t \in Targets : targetRow[t].live => targetRow[t].config # 0

\* A hook that a dispatch read is still known, though it may be deleted.
ReadIsKnown(i) == \A h \in dispatch[i].hooks : hook[h] # NoHook

\* Only status_changed has a row, which is in the trail.
RowIsThere(i) ==
    dispatch[i].kind = "deploy.status_changed" => dispatch[i].row \in 1..Len(trail[dispatch[i].ev])

SinceIsPast(i) == \A t \in Targets : dispatch[i].since[t] <= targetRow[t].config

\* Where a hook that was read is aimed at, once the targets were read.
AimedAt(i, h) ==
    LET d == dispatch[i]
        t == hook[h].sub.target
    IN  IF t = Inline THEN d.aims[h] = 0
        ELSE IF d.aims[h] = 0 THEN h \in deleted
        ELSE d.aims[h] \in d.since[t]..targetRow[t].config

AimsFollow(i) ==
    LET d == dispatch[i]
    IN  /\ d.pc \in {"read", "sending", "sent", "thrown"} => \A h \in d.hooks : AimedAt(i, h)
        /\ \A h \in d.matched : AimedAt(i, h)

\* What was matched, and of it what is still to be served.
wanted(i) == {h \in dispatch[i].hooks : matches(hook[h].sub, dispatch[i].kind, dispatch[i].move)}

MatchIsDivided(i) ==
    LET d == dispatch[i]
    IN  /\ d.queue \subseteq d.matched
        /\ d.matched \subseteq wanted(i)
        /\ d.pc \in {"emitted", "hooked", "read"} => d.matched = {}
        /\ d.pc \in {"sending", "sent", "thrown"} => d.matched = wanted(i)
        /\ d.pc \in {"emitted", "hooked", "read", "sending"} => d.current = "none"
        /\ d.pc \in {"sent", "thrown"} => d.current # "none"
        /\ d.current # "none" => d.current \in d.queue
        /\ d.pc = "thrown" => ~hook[d.current].live

TellsLater(i) ==
    dispatched(i, "deploy.status_changed") =>
        \E k \in dispatch[i].row..Len(trail[dispatch[i].ev]) :
            dispatch[i].move = moveOf(trail[dispatch[i].ev][k])

\* What a dispatch holds is good, whatever it was read from has become.
Sound(i) ==
    /\ ReadIsKnown(i)
    /\ RowIsThere(i)
    /\ SinceIsPast(i)
    /\ AimsFollow(i)
    /\ MatchIsDivided(i)
    /\ TellsLater(i)

\* The log has the hooks served, each once.
served(i) == dispatch[i].matched \ dispatch[i].queue

LogTells ==
    /\ \A k \in DOMAIN delivery :
          \E i \in DOMAIN dispatch : delivery[k].by = i /\ delivery[k].to \in served(i)
    /\ \A i \in DOMAIN dispatch : \A h \in served(i) :
          \E k \in DOMAIN delivery : delivery[k].by = i /\ delivery[k].to = h
    /\ \A k, l \in DOMAIN delivery :
          delivery[k].by = delivery[l].by /\ delivery[k].to = delivery[l].to => k = l

HookInv ==
    /\ HookTypeOK
    /\ Len(dispatch) <= MaxDispatches
    /\ TrailsAreTyped
    /\ DeletionsAreLogged
    /\ ConfigsCount
    /\ \A i \in DOMAIN dispatch : Sound(i)
    /\ LogTells

-----------------------------------------------------------------------------
(***************************************************************************)
(* Lemmas about the operators.                                             *)
(***************************************************************************)
LEMMA StepTypes ==
    ASSUME NEW s \in Statuses
    PROVE  nextStatus(s) \in StatusOrNone /\ previousStatus(s) \in StatusOrNone
<1>1. PICK i \in 1..7 : DEPLOY_ORDER[i] = s
  BY DEF Statuses
<1>2. indexOf(s) \in 1..7
  BY <1>1 DEF indexOf
<1>3. \A j \in 1..7 : DEPLOY_ORDER[j] \in Statuses
  BY DEF Statuses
<1>4. nextStatus(s) \in StatusOrNone
  BY <1>2, <1>3 DEF nextStatus, StatusOrNone
<1>5. previousStatus(s) \in StatusOrNone
  BY <1>2, <1>3 DEF previousStatus, StatusOrNone
<1>6. QED
  BY <1>4, <1>5

LEMMA RowTypes ==
    /\ \A from \in StatusOrNone, to \in Statuses :
          entry(from, to, "admin", TRUE, NoToken) \in Row
    /\ \A s \in Statuses : creationEntry(s) \in Row
    /\ \A r \in Row : moveOf(r) \in StatusOrNone \X Statuses
<1>1. \A from \in StatusOrNone, to \in Statuses :
         entry(from, to, "admin", TRUE, NoToken) \in Row
  BY DEF Row, entry
<1>2. \A s \in Statuses : creationEntry(s) \in Row
  <2>1. NoStatus \in StatusOrNone
    BY DEF StatusOrNone
  <2>2. QED
    BY <2>1 DEF Row, entry, creationEntry
<1>3. \A r \in Row : moveOf(r) \in StatusOrNone \X Statuses
  BY DEF Row, moveOf
<1>4. QED
  BY <1>1, <1>2, <1>3

LEMMA AppendKeeps ==
    ASSUME NEW S, NEW tr \in Seq(S), NEW e \in S
    PROVE  /\ Append(tr, e) \in Seq(S)
           /\ DOMAIN tr = 1..Len(tr) /\ Len(tr) \in Nat
           /\ Len(Append(tr, e)) = Len(tr) + 1
           /\ DOMAIN Append(tr, e) = 1..(Len(tr) + 1)
           /\ \A i \in 1..Len(tr) : Append(tr, e)[i] = tr[i]
           /\ Append(tr, e)[Len(tr) + 1] = e
OBVIOUS

LEMMA Element ==
    ASSUME NEW S, NEW q \in Seq(S), NEW k \in DOMAIN q
    PROVE  q[k] \in S /\ DOMAIN q = 1..Len(q) /\ Len(q) \in Nat
OBVIOUS

\* One dispatch changes, the others do not.
LEMMA OneDispatch ==
    ASSUME dispatch \in Seq(Dispatch), NEW i \in DOMAIN dispatch, NEW d \in Dispatch,
           dispatch' = [dispatch EXCEPT ![i] = d]
    PROVE  /\ dispatch' \in Seq(Dispatch)
           /\ Len(dispatch') = Len(dispatch)
           /\ DOMAIN dispatch' = DOMAIN dispatch
           /\ dispatch'[i] = d
           /\ \A j \in DOMAIN dispatch \ {i} : dispatch'[j] = dispatch[j]
OBVIOUS

\* A hook that is not NoHook has a subscription.
LEMMA KnownHook ==
    ASSUME HookTypeOK, NEW h \in Hooks, hook[h] # NoHook
    PROVE  /\ hook[h] \in [live : BOOLEAN, sub : Subscriptions]
           /\ hook[h].sub.target \in Targets \cup {Inline}
           /\ hook[h].live \in BOOLEAN
BY HookAssumption DEF HookTypeOK, Subscription

LEMMA LiveIsKnown ==
    ASSUME HookTypeOK, NEW h \in Hooks, hook[h].live
    PROVE  hook[h] # NoHook
BY DEF NoHook

LEMMA Delivered ==
    ASSUME HookTypeOK, NEW k \in DOMAIN delivery
    PROVE  delivery[k].to \in Hooks /\ hook[delivery[k].to].live
<1>1. delivery[k] \in [by : 1..MaxDispatches, to : Hooks, ok : BOOLEAN]
  BY Element DEF HookTypeOK
<1>2. QED
  BY <1>1 DEF HookTypeOK

(***************************************************************************)
(* What a step does around the dispatches.                                 *)
(***************************************************************************)
fresh(d, kind, row) ==
    [pc |-> "emitted", kind |-> kind, ev |-> d, row |-> row,
     move |-> NoMove, hooks |-> {}, aims |-> [h \in Hooks |-> 0],
     since |-> [t \in Targets |-> targetRow[t].config], matched |-> {}, queue |-> {},
     current |-> "none", ok |-> FALSE]

Starts ==
    /\ \E d \in Deployments, kind \in Kinds, row \in Nat :
          /\ kind = "deploy.status_changed" => row \in 1..Len(trail'[d])
          /\ dispatch' = Append(dispatch, fresh(d, kind, row))
    /\ Len(dispatch) < MaxDispatches
    /\ delivery' = delivery

StillAround == UNCHANGED << dispatch, delivery >>

TrailsGrow ==
    \A d \in Deployments : /\ Len(trail[d]) <= Len(trail'[d])
                           /\ \A k \in 1..Len(trail[d]) : trail'[d][k] = trail[d][k]

HooksStay ==
    \A h \in Hooks : hook[h] # NoHook => /\ hook'[h] # NoHook
                                         /\ hook'[h].sub = hook[h].sub
                                         /\ hook'[h].live => hook[h].live

TargetsAdvance == \A t \in Targets : targetRow[t].config <= targetRow'[t].config

StatusTyped == st \in [Deployments -> StatusOrNone \cup {"absent"}]

LEMMA EmitStarts ==
    ASSUME NEW d \in Deployments, NEW kind \in Kinds, NEW row \in Nat, emitHooks(d, kind, row),
           kind = "deploy.status_changed" => row \in 1..Len(trail'[d])
    PROVE  Starts /\ UNCHANGED << hook, targetRow, deleted >>
BY DEF emitHooks, Starts, fresh

LEMMA OneMove ==
    ASSUME HookInv, NEW d \in Deployments, NEW e \in Row, Move(d, e)
    PROVE  /\ StatusTyped' /\ TrailsAreTyped' /\ TrailsGrow
           /\ Len(trail'[d]) = Len(trail[d]) + 1
<1>1. StatusTyped /\ trail \in [Deployments -> Seq(Row)]
  BY DEF HookInv, HookTypeOK, StatusTyped, TrailsAreTyped
<1>2. st' = [st EXCEPT ![d] = e.to] /\ trail' = [trail EXCEPT ![d] = Append(@, e)]
  BY DEF Move
<1>3. e.to \in Statuses
  BY DEF Row
<1>4. StatusTyped'
  BY <1>1, <1>2, <1>3 DEF StatusTyped, StatusOrNone
<1>5. TrailsAreTyped' /\ TrailsGrow /\ Len(trail'[d]) = Len(trail[d]) + 1
  BY <1>1, <1>2, AppendKeeps DEF TrailsAreTyped, TrailsGrow
<1>6. QED
  BY <1>4, <1>5

LEMMA RequestDoes ==
    ASSUME HookInv, NEW d \in Deployments, request(d)
    PROVE  /\ StatusTyped' /\ TrailsAreTyped' /\ TrailsGrow
           /\ UNCHANGED << hook, targetRow, deleted >>
           /\ StillAround \/ Starts
<1>1. StatusTyped /\ trail \in [Deployments -> Seq(Row)] /\ FirstStatuses \subseteq Statuses
  BY HookAssumption DEF HookInv, HookTypeOK, StatusTyped, TrailsAreTyped
<1>0. TrailsAreTyped /\ (trail' = trail => TrailsGrow /\ TrailsAreTyped')
  <2>1. \A x \in Deployments : Len(trail[x]) \in Nat
    BY <1>1
  <2>2. QED
    BY <1>1, <2>1 DEF TrailsAreTyped, TrailsGrow
<1>2. CASE appear(d)
  BY <1>0, <1>1, <1>2 DEF appear, Appear, StatusTyped, StatusOrNone, StillAround
<1>3. CASE created(d)
  <2>1. PICK s \in FirstStatuses : RecordCreation(d, s)
    BY <1>3 DEF created
  <2>2. creationEntry(s) \in Row
    BY <1>1, RowTypes
  <2>3. TrailsAreTyped' /\ TrailsGrow
    BY <1>1, <2>1, <2>2, AppendKeeps DEF RecordCreation, TrailsAreTyped, TrailsGrow
  <2>4. StatusTyped'
    BY <1>1, <2>1 DEF RecordCreation, StatusTyped
  <2>5. QED
    BY <1>3, <2>3, <2>4, EmitStarts DEF created, Kinds
<1>4. CASE overwritten(d)
  <2>1. StatusTyped' /\ trail' = trail
    BY <1>1, <1>4 DEF overwritten, Overwrite, StatusTyped, StatusOrNone
  <2>2. emitHooks(d, "deploy.created", 0)
    BY <1>4 DEF overwritten
  <2>3. QED
    BY <1>0, <2>1, <2>2, EmitStarts DEF Kinds
<1>5. CASE statusChanged(d)
  <2> DEFINE e == entry(st[d], nextStatus(st[d]), "admin", TRUE, NoToken)
  <2>1. st[d] \in Statuses /\ nextStatus(st[d]) # NoStatus
    BY <1>5 DEF statusChanged
  <2>2. e \in Row
    BY <2>1, StepTypes, RowTypes DEF StatusOrNone
  <2>3. Move(d, e)
    BY <1>5 DEF statusChanged
  <2> HIDE DEF e
  <2>4. StatusTyped' /\ TrailsAreTyped' /\ TrailsGrow /\ Len(trail'[d]) = Len(trail[d]) + 1
    BY <2>2, <2>3, OneMove
  <2>5. Len(trail[d]) + 1 \in Nat /\ Len(trail[d]) + 1 \in 1..Len(trail'[d])
    BY <1>1, <2>4
  <2>6. emitHooks(d, "deploy.status_changed", Len(trail[d]) + 1)
    BY <1>5 DEF statusChanged
  <2>7. QED
    BY <2>4, <2>5, <2>6, EmitStarts DEF Kinds
<1>6. CASE statusUndone(d)
  <2> DEFINE e == entry(st[d], previousStatus(st[d]), "admin", TRUE, NoToken)
  <2>1. st[d] \in Statuses /\ previousStatus(st[d]) # NoStatus
    BY <1>6 DEF statusUndone
  <2>2. e \in Row
    BY <2>1, StepTypes, RowTypes DEF StatusOrNone
  <2>3. Move(d, e)
    BY <1>6 DEF statusUndone
  <2> HIDE DEF e
  <2>4. StatusTyped' /\ TrailsAreTyped' /\ TrailsGrow
    BY <2>2, <2>3, OneMove
  <2>5. emitHooks(d, "deploy.status_undone", 0)
    BY <1>6 DEF statusUndone
  <2>6. QED
    BY <2>4, <2>5, EmitStarts DEF Kinds
<1>7. CASE rolledBack(d)
  <2>1. UNCHANGED trailVars /\ emitHooks(d, "deploy.rolled_back", 0)
    BY <1>7 DEF rolledBack
  <2>2. QED
    BY <1>0, <1>1, <2>1, EmitStarts DEF trailVars, Kinds, StatusTyped
<1>8. QED
  BY <1>2, <1>3, <1>4, <1>5, <1>6, <1>7 DEF request

HooksTyped == hook \in [Hooks -> {NoHook} \cup [live : BOOLEAN, sub : Subscriptions]]

TargetsTyped == targetRow \in [Targets -> [live : BOOLEAN, config : 0..MaxConfigs]]

LoggedHooksLive == \A k \in DOMAIN delivery : hook[delivery[k].to].live

UsedTargetsLive ==
    \A h \in Hooks : hook[h].live /\ hook[h].sub.target # Inline => targetRow[hook[h].sub.target].live

Administered ==
    /\ HooksTyped' /\ HooksStay /\ TargetsTyped' /\ TargetsAdvance
    /\ deleted \subseteq deleted' /\ (deleted \subseteq Hooks)'
    /\ DeletionsAreLogged' /\ ConfigsCount' /\ UsedTargetsLive'

LEMMA HooksUnchanged ==
    ASSUME HookInv, UNCHANGED << hook, targetRow, deleted >>
    PROVE  Administered
<1>1. HooksStay /\ HooksTyped'
  BY DEF HookInv, HookTypeOK, HooksStay, HooksTyped
<1>2. TargetsAdvance /\ TargetsTyped'
  BY HookAssumption DEF HookInv, HookTypeOK, TargetsAdvance, TargetsTyped
<1>3. (deleted \subseteq Hooks)' /\ DeletionsAreLogged' /\ ConfigsCount' /\ UsedTargetsLive'
  BY DEF HookInv, HookTypeOK, DeletionsAreLogged, ConfigsCount, UsedTargetsLive
<1>4. QED
  BY <1>1, <1>2, <1>3 DEF Administered

LEMMA CreateHookDoes ==
    ASSUME HookInv, NEW h \in Hooks, NEW sub \in Subscriptions, createHook(h, sub)
    PROVE  Administered /\ LoggedHooksLive'
<1>1. /\ HookTypeOK /\ hook[h] = NoHook /\ hook' = [hook EXCEPT ![h] = hookRow(sub)]
      /\ UNCHANGED << targetRow, delivery, deleted >>
      /\ sub.target # Inline => targetRow[sub.target].live
  BY DEF HookInv, createHook
<1>2. hook'[h] = hookRow(sub) /\ \A g \in Hooks \ {h} : hook'[g] = hook[g]
  BY <1>1 DEF HookTypeOK
<1>3. hookRow(sub) \in [live : BOOLEAN, sub : Subscriptions] /\ hookRow(sub).live /\ hookRow(sub).sub = sub
  BY DEF hookRow
<1>4. HooksTyped'
  BY <1>1, <1>3 DEF HooksTyped, HookTypeOK
<1>5. HooksStay
  BY <1>1, <1>2 DEF HooksStay
<1>6. DeletionsAreLogged'
  BY <1>1, <1>2, <1>3 DEF DeletionsAreLogged, HookInv
<1>7. UsedTargetsLive'
  BY <1>1, <1>2, <1>3 DEF UsedTargetsLive, HookTypeOK
<1>8. TargetsAdvance /\ TargetsTyped' /\ ConfigsCount'
  BY <1>1, HooksUnchanged, HookAssumption DEF HookInv, HookTypeOK, TargetsAdvance, TargetsTyped, ConfigsCount
<1>9. LoggedHooksLive'
  <2>1. \A k \in DOMAIN delivery : delivery[k].to \in Hooks /\ hook[delivery[k].to].live
    BY <1>1, Delivered
  <2>2. QED
    BY <1>1, <1>2, <1>3, <2>1 DEF LoggedHooksLive
<1>10. QED
  BY <1>1, <1>4, <1>5, <1>6, <1>7, <1>8, <1>9 DEF Administered, HookTypeOK

LEMMA DeleteHookDoes ==
    ASSUME HookInv, NEW h \in Hooks, deleteHook(h)
    PROVE  Administered /\ LoggedHooksLive'
<1>1. /\ HookTypeOK /\ hook[h] # NoHook /\ deleted' = deleted \cup {h}
      /\ UNCHANGED << targetRow, delivery >>
      /\ hook' = IF deletable(h) THEN [hook EXCEPT ![h].live = FALSE] ELSE hook
  BY DEF HookInv, deleteHook
<1>2. /\ \A g \in Hooks \ {h} : hook'[g] = hook[g]
      /\ hook'[h] \in [live : BOOLEAN, sub : Subscriptions]
      /\ hook'[h].sub = hook[h].sub
      /\ hook'[h].live => hook[h].live /\ ~deletable(h)
      /\ ~deletable(h) => hook' = hook
  BY <1>1, KnownHook DEF HookTypeOK
<1>3. hook'[h] # NoHook
  BY <1>2 DEF NoHook
<1>4. HooksTyped'
  BY <1>1, <1>2 DEF HooksTyped, HookTypeOK
<1>5. HooksStay
  BY <1>1, <1>2, <1>3 DEF HooksStay
<1>6. DeletionsAreLogged'
  BY <1>1, <1>2 DEF DeletionsAreLogged, HookInv
<1>7. UsedTargetsLive'
  BY <1>1, <1>2 DEF UsedTargetsLive, HookTypeOK
<1>8. TargetsAdvance /\ TargetsTyped' /\ ConfigsCount'
  BY <1>1, HookAssumption DEF HookInv, HookTypeOK, TargetsAdvance, TargetsTyped, ConfigsCount
<1>9. LoggedHooksLive'
  <2>1. \A k \in DOMAIN delivery : delivery[k].to \in Hooks /\ hook[delivery[k].to].live
    BY <1>1, Delivered
  <2>2. QED
    BY <1>1, <1>2, <2>1 DEF LoggedHooksLive, deletable
<1>10. QED
  BY <1>1, <1>4, <1>5, <1>6, <1>7, <1>8, <1>9 DEF Administered, HookTypeOK

LEMMA TargetDoes ==
    ASSUME HookInv, NEW t \in Targets, createTarget(t) \/ updateTarget(t) \/ deleteTarget(t)
    PROVE  Administered /\ LoggedHooksLive'
<1>1. HookTypeOK /\ UNCHANGED << hook, delivery, deleted >>
  BY DEF HookInv, createTarget, updateTarget, deleteTarget, setTarget
<1>2. PICK row \in [live : BOOLEAN, config : 0..MaxConfigs] :
         /\ targetRow' = [targetRow EXCEPT ![t] = row]
         /\ targetRow[t].config <= row.config
         /\ row.live => row.config # 0
         /\ ~row.live => unused(t)
  <2> DEFINE old == targetRow[t]
             Becomes(row) ==
                /\ targetRow' = [targetRow EXCEPT ![t] = row]
                /\ old.config <= row.config
                /\ row.live => row.config # 0
                /\ ~row.live => unused(t)
  <2>1. old \in [live : BOOLEAN, config : 0..MaxConfigs] /\ MaxConfigs \in Nat \ {0}
    BY <1>1, HookAssumption DEF HookTypeOK
  <2>2. CASE createTarget(t)
    <3> DEFINE r == [live |-> TRUE, config |-> 1]
    <3>1. targetRow' = [targetRow EXCEPT ![t] = r] /\ old = NoTarget
      BY <2>2 DEF createTarget, setTarget
    <3>2. r \in [live : BOOLEAN, config : 0..MaxConfigs] /\ old.config = 0
      BY <2>1, <3>1 DEF NoTarget
    <3>3. Becomes(r)
      BY <3>1, <3>2
    <3>4. QED
      BY <3>2, <3>3
  <2>3. CASE updateTarget(t)
    <3> DEFINE r == [old EXCEPT !.config = @ + 1]
    <3>1. targetRow' = [targetRow EXCEPT ![t] = r] /\ old.live /\ old.config < MaxConfigs
      BY <2>3 DEF updateTarget, setTarget
    <3>2. r.live = old.live /\ r.config = old.config + 1
      BY <2>1
    <3>3. r \in [live : BOOLEAN, config : 0..MaxConfigs]
      BY <2>1, <3>1
    <3>4. Becomes(r)
      <4> HIDE DEF r, old
      <4>1. QED
        BY <2>1, <3>1, <3>2
    <3>5. QED
      BY <3>3, <3>4
  <2>4. CASE deleteTarget(t)
    <3> DEFINE r == [old EXCEPT !.live = FALSE]
    <3>1. targetRow' = [targetRow EXCEPT ![t] = r] /\ unused(t)
      BY <2>4 DEF deleteTarget, setTarget
    <3>2. ~r.live /\ r.config = old.config
      BY <2>1
    <3>3. r \in [live : BOOLEAN, config : 0..MaxConfigs]
      BY <2>1
    <3>4. Becomes(r)
      <4> HIDE DEF r, old
      <4>1. QED
        BY <2>1, <3>1, <3>2
    <3>5. QED
      BY <3>3, <3>4
  <2>5. QED
    BY <2>2, <2>3, <2>4
<1>3. /\ targetRow'[t] = row /\ \A u \in Targets \ {t} : targetRow'[u] = targetRow[u]
      /\ \A u \in Targets : targetRow[u].config \in Int
  BY <1>1, <1>2, HookAssumption DEF HookTypeOK
<1>4. TargetsTyped'
  BY <1>1, <1>2 DEF TargetsTyped, HookTypeOK
<1>5. TargetsAdvance /\ ConfigsCount'
  BY <1>2, <1>3 DEF TargetsAdvance, ConfigsCount, HookInv
<1>6. UsedTargetsLive'
  <2>1. \A h \in Hooks : hook[h].live => hook[h].sub.target \in Targets \cup {Inline}
    BY <1>1, KnownHook, LiveIsKnown
  <2>2. SUFFICES ASSUME NEW h \in Hooks, hook[h].live, hook[h].sub.target # Inline
                 PROVE  targetRow'[hook[h].sub.target].live
    BY <1>1 DEF UsedTargetsLive
  <2>3. CASE hook[h].sub.target = t
    BY <1>2, <1>3, <2>2, <2>3 DEF unused
  <2>4. CASE hook[h].sub.target # t
    BY <1>1, <1>3, <2>1, <2>2, <2>4 DEF HookTypeOK
  <2>5. QED
    BY <2>3, <2>4
<1>7. HooksTyped' /\ HooksStay /\ DeletionsAreLogged' /\ LoggedHooksLive'
  BY <1>1 DEF HookInv, HookTypeOK, HooksTyped, HooksStay, DeletionsAreLogged, LoggedHooksLive
<1>8. QED
  BY <1>1, <1>4, <1>5, <1>6, <1>7 DEF Administered, HookTypeOK

\* Everything but dispatches and their log.
Around == StatusTyped' /\ TrailsAreTyped' /\ TrailsGrow /\ Administered

LEMMA TrailUnchanged ==
    ASSUME HookInv, UNCHANGED trailVars
    PROVE  StatusTyped' /\ TrailsAreTyped' /\ TrailsGrow
<1>1. StatusTyped /\ TrailsAreTyped /\ \A d \in Deployments : Len(trail[d]) \in Nat
  BY DEF HookInv, HookTypeOK, StatusTyped, TrailsAreTyped
<1>2. QED
  BY <1>1 DEF trailVars, StatusTyped, TrailsAreTyped, TrailsGrow

LEMMA StepCases ==
    ASSUME HookInv, [HookNext]_hookVars
    PROVE  /\ Around
           /\ \/ StillAround /\ LoggedHooksLive'
              \/ Starts /\ hook' = hook
              \/ \E i \in DOMAIN dispatch : dispatchHooks(i) /\ hook' = hook
              \/ restart /\ hook' = hook
<1>0. LoggedHooksLive
  BY DEF HookInv, HookTypeOK, LoggedHooksLive
<1>1. ASSUME NEW d \in Deployments, request(d)
      PROVE  Around /\ ((StillAround /\ LoggedHooksLive') \/ (Starts /\ hook' = hook))
  <2>1. UNCHANGED << hook, targetRow, deleted >> /\ StatusTyped' /\ TrailsAreTyped' /\ TrailsGrow
    BY <1>1, RequestDoes
  <2>2. StillAround \/ Starts
    BY <1>1, RequestDoes
  <2>3. Around
    BY <2>1, HooksUnchanged DEF Around
  <2>4. QED
    BY <1>0, <2>1, <2>2, <2>3 DEF LoggedHooksLive, StillAround
<1>2. ASSUME NEW i \in DOMAIN dispatch, dispatchHooks(i) PROVE Around /\ hook' = hook
  <2>1. UNCHANGED << trailVars, hook, targetRow, deleted >>
    BY <1>2 DEF dispatchHooks, readEvent, readTargets, readTransition, send, log
  <2>2. QED
    BY <2>1, TrailUnchanged, HooksUnchanged DEF Around
<1>3. ASSUME NEW h \in Hooks, deleteHook(h) \/ \E sub \in Subscriptions : createHook(h, sub)
      PROVE  Around /\ StillAround /\ LoggedHooksLive'
  <2>1. UNCHANGED << trailVars, dispatch, delivery >>
    BY <1>3 DEF deleteHook, createHook
  <2>2. Administered /\ LoggedHooksLive'
    BY <1>3, DeleteHookDoes, CreateHookDoes
  <2>3. QED
    BY <2>1, <2>2, TrailUnchanged DEF Around, StillAround
<1>4. ASSUME NEW t \in Targets, createTarget(t) \/ updateTarget(t) \/ deleteTarget(t)
      PROVE  Around /\ StillAround /\ LoggedHooksLive'
  <2>1. UNCHANGED << trailVars, dispatch, delivery >>
    BY <1>4 DEF createTarget, updateTarget, deleteTarget, setTarget
  <2>2. Administered /\ LoggedHooksLive'
    BY <1>4, TargetDoes
  <2>3. QED
    BY <2>1, <2>2, TrailUnchanged DEF Around, StillAround
<1>5. CASE restart
  BY <1>5, TrailUnchanged, HooksUnchanged DEF restart, Around
<1>6. CASE UNCHANGED hookVars
  BY <1>0, <1>6, TrailUnchanged, HooksUnchanged DEF hookVars, Around, StillAround, LoggedHooksLive
<1>7. QED
  BY <1>1, <1>2, <1>3, <1>4, <1>5, <1>6 DEF HookNext

(***************************************************************************)
(* What a step does to a dispatch.                                         *)
(***************************************************************************)
LEMMA DispatchTyped ==
    ASSUME HookTypeOK, NEW i \in DOMAIN dispatch
    PROVE  /\ dispatch[i] \in Dispatch
           /\ dispatch[i].hooks \subseteq Hooks /\ dispatch[i].matched \subseteq Hooks
           /\ dispatch[i].queue \subseteq Hooks /\ dispatch[i].ev \in Deployments
           /\ dispatch[i].aims \in [Hooks -> 0..MaxConfigs]
           /\ dispatch[i].since \in [Targets -> 0..MaxConfigs]
           /\ dispatch[i].kind \in Kinds /\ dispatch[i].row \in Nat
           /\ DOMAIN dispatch = 1..Len(dispatch) /\ Len(dispatch) \in Nat
<1>1. dispatch[i] \in Dispatch /\ DOMAIN dispatch = 1..Len(dispatch) /\ Len(dispatch) \in Nat
  BY Element DEF HookTypeOK
<1>2. QED
  BY <1>1 DEF Dispatch

\* A dispatch that a step leaves alone, or that a restart ends.
LeftAlone(i) ==
    /\ dispatch'[i].pc \in {dispatch[i].pc, "lost"}
    /\ dispatch'[i] = [dispatch[i] EXCEPT !.pc = dispatch'[i].pc]

LEMMA LeftAloneFields ==
    ASSUME HookTypeOK, NEW i \in DOMAIN dispatch, LeftAlone(i)
    PROVE  /\ dispatch'[i] \in Dispatch
           /\ dispatch'[i].kind = dispatch[i].kind /\ dispatch'[i].ev = dispatch[i].ev
           /\ dispatch'[i].row = dispatch[i].row /\ dispatch'[i].move = dispatch[i].move
           /\ dispatch'[i].hooks = dispatch[i].hooks /\ dispatch'[i].aims = dispatch[i].aims
           /\ dispatch'[i].since = dispatch[i].since /\ dispatch'[i].matched = dispatch[i].matched
           /\ dispatch'[i].queue = dispatch[i].queue /\ dispatch'[i].current = dispatch[i].current
<1>1. dispatch[i] \in Dispatch
  BY DispatchTyped
<1>2. dispatch'[i].pc \in {"emitted", "hooked", "read", "sending", "sent", "thrown", "lost"}
  BY <1>1 DEF LeftAlone, Dispatch
<1> DEFINE pc == dispatch'[i].pc
<1>3. dispatch'[i] = [dispatch[i] EXCEPT !.pc = pc]
  BY DEF LeftAlone
<1> HIDE DEF pc
<1>4. [dispatch[i] EXCEPT !.pc = pc] \in Dispatch
  BY <1>1, <1>2 DEF Dispatch, pc
<1>5. QED
  BY <1>1, <1>3, <1>4 DEF Dispatch

LEMMA SameIsLeftAlone ==
    ASSUME HookTypeOK, NEW i \in DOMAIN dispatch, dispatch'[i] = dispatch[i]
    PROVE  LeftAlone(i)
<1>1. dispatch[i] \in Dispatch
  BY DispatchTyped
<1>2. dispatch[i] = [dispatch[i] EXCEPT !.pc = dispatch[i].pc]
  BY <1>1 DEF Dispatch
<1>3. QED
  BY <1>2 DEF LeftAlone

\* What a dispatch holds stays good while the world moves on.
LEMMA SoundKept ==
    ASSUME HookInv, Around, NEW i \in DOMAIN dispatch, LeftAlone(i)
    PROVE  Sound(i)'
<1> DEFINE d == dispatch[i]
           e == dispatch'[i]
<1>1. HookTypeOK /\ Sound(i)
  BY DEF HookInv
<1>2. /\ d.hooks \subseteq Hooks /\ d.matched \subseteq Hooks /\ d.queue \subseteq Hooks
      /\ d.ev \in Deployments /\ d.row \in Nat
      /\ d.aims \in [Hooks -> 0..MaxConfigs] /\ d.since \in [Targets -> 0..MaxConfigs]
  BY <1>1, DispatchTyped
<1>3. /\ e.kind = d.kind /\ e.ev = d.ev /\ e.row = d.row /\ e.move = d.move
      /\ e.hooks = d.hooks /\ e.aims = d.aims /\ e.since = d.since
      /\ e.matched = d.matched /\ e.queue = d.queue /\ e.current = d.current
      /\ e.pc \in {d.pc, "lost"}
  BY <1>1, LeftAloneFields DEF LeftAlone
<1>4. \A h \in d.hooks : hook[h] # NoHook /\ hook'[h] # NoHook /\ hook'[h].sub = hook[h].sub
  BY <1>1, <1>2 DEF Sound, ReadIsKnown, Around, Administered, HooksStay
<1> HIDE DEF d, e
<1>5. ReadIsKnown(i)'
  BY <1>3, <1>4 DEF ReadIsKnown, e
<1>6. RowIsThere(i)'
  <2>1. d.kind = "deploy.status_changed" => d.row \in 1..Len(trail[d.ev])
    BY <1>1 DEF Sound, RowIsThere, d
  <2>2. Len(trail[d.ev]) <= Len(trail'[d.ev]) /\ Len(trail[d.ev]) \in Nat /\ Len(trail'[d.ev]) \in Nat
    BY <1>2 DEF Around, TrailsGrow, HookInv, TrailsAreTyped
  <2>3. QED
    BY <1>2, <1>3, <2>1, <2>2 DEF RowIsThere, e
<1>7. SinceIsPast(i)'
  <2>1. \A t \in Targets : /\ d.since[t] <= targetRow[t].config /\ targetRow[t].config <= targetRow'[t].config
                           /\ d.since[t] \in Int /\ targetRow[t].config \in Int /\ targetRow'[t].config \in Int
    <3>1. \A t \in Targets : d.since[t] <= targetRow[t].config
      BY <1>1 DEF Sound, SinceIsPast, d
    <3>2. \A t \in Targets : /\ targetRow[t].config <= targetRow'[t].config
                             /\ targetRow[t].config \in Int /\ targetRow'[t].config \in Int
      BY <1>1, HookAssumption DEF Around, Administered, TargetsAdvance, TargetsTyped, HookTypeOK
    <3>3. QED
      BY <1>2, <3>1, <3>2, HookAssumption
  <2>2. QED
    BY <1>3, <2>1 DEF SinceIsPast, e
<1>8. ASSUME NEW h \in d.hooks, AimedAt(i, h) PROVE AimedAt(i, h)'
  <2> DEFINE t == hook[h].sub.target
  <2>1. t \in Targets \cup {Inline} /\ hook'[h].sub = hook[h].sub
    BY <1>1, <1>2, <1>4, KnownHook
  <2>2. /\ t = Inline => d.aims[h] = 0
        /\ t # Inline /\ d.aims[h] = 0 => h \in deleted
        /\ t # Inline /\ d.aims[h] # 0 => d.aims[h] \in d.since[t]..targetRow[t].config
    BY <1>8 DEF AimedAt, d
  <2>3. t # Inline => targetRow[t].config <= targetRow'[t].config
    BY <2>1 DEF Around, Administered, TargetsAdvance
  <2>4. /\ d.aims[h] \in Int
        /\ t # Inline => d.since[t] \in Int /\ targetRow[t].config \in Int /\ targetRow'[t].config \in Int
    BY <1>1, <1>2, <2>1, HookAssumption DEF Around, Administered, TargetsTyped, HookTypeOK
  <2>5. deleted \subseteq deleted'
    BY DEF Around, Administered
  <2> HIDE DEF t
  <2>6. t # Inline /\ d.aims[h] # 0 => d.aims[h] \in d.since[t]..targetRow'[t].config
    BY <2>2, <2>3, <2>4
  <2>7. hook'[h].sub.target = t
    BY <2>1 DEF t
  <2>8. QED
    BY <1>3, <2>2, <2>5, <2>6, <2>7 DEF AimedAt, e
<1>9. AimsFollow(i)'
  <2>1. /\ d.pc \in {"read", "sending", "sent", "thrown"} => \A h \in d.hooks : AimedAt(i, h)
        /\ \A h \in d.matched : AimedAt(i, h) /\ h \in d.hooks
    BY <1>1 DEF Sound, AimsFollow, MatchIsDivided, wanted, d
  <2>2. QED
    BY <1>3, <1>8, <2>1 DEF AimsFollow, e
<1>10. wanted(i)' = wanted(i)
  <2>1. \A h \in d.hooks : matches(hook'[h].sub, e.kind, e.move) <=> matches(hook[h].sub, d.kind, d.move)
    BY <1>3, <1>4
  <2>2. QED
    BY <1>3, <2>1 DEF wanted, d, e
<1>11. MatchIsDivided(i)'
  <2>1. /\ d.queue \subseteq d.matched
        /\ d.matched \subseteq wanted(i)
        /\ d.pc \in {"emitted", "hooked", "read"} => d.matched = {}
        /\ d.pc \in {"sending", "sent", "thrown"} => d.matched = wanted(i)
        /\ d.pc \in {"emitted", "hooked", "read", "sending"} => d.current = "none"
        /\ d.pc \in {"sent", "thrown"} => d.current # "none"
        /\ d.current # "none" => d.current \in d.queue
        /\ d.pc = "thrown" => ~hook[d.current].live
    BY <1>1 DEF Sound, MatchIsDivided, d
  <2>2. d.pc = "thrown" => ~hook'[d.current].live
    <3>1. d.pc = "thrown" => d.current \in d.hooks
      BY <2>1 DEF wanted, d
    <3>2. d.pc = "thrown" => d.current \in Hooks /\ hook[d.current] # NoHook
      BY <1>2, <1>4, <3>1
    <3>3. QED
      BY <2>1, <3>2 DEF Around, Administered, HooksStay
  <2>3. QED
    BY <1>3, <1>10, <2>1, <2>2 DEF MatchIsDivided, e
<1>12. TellsLater(i)'
  <2>1. SUFFICES ASSUME dispatched(i, "deploy.status_changed")'
                 PROVE  \E k \in e.row..Len(trail'[e.ev]) : e.move = moveOf(trail'[e.ev][k])
    BY DEF TellsLater, e
  <2>2. d.kind = "deploy.status_changed" /\ d.pc \in {"sending", "sent", "thrown"}
    BY <1>3, <2>1 DEF dispatched, e
  <2>3. PICK k \in d.row..Len(trail[d.ev]) : d.move = moveOf(trail[d.ev][k])
    BY <1>1, <2>2 DEF Sound, TellsLater, dispatched, d
  <2>4. d.row \in 1..Len(trail[d.ev])
    BY <1>1, <2>2 DEF Sound, RowIsThere, d
  <2>5. /\ Len(trail[d.ev]) <= Len(trail'[d.ev]) /\ Len(trail[d.ev]) \in Nat /\ Len(trail'[d.ev]) \in Nat
        /\ \A j \in 1..Len(trail[d.ev]) : trail'[d.ev][j] = trail[d.ev][j]
    BY <1>2 DEF Around, TrailsGrow, HookInv, TrailsAreTyped
  <2>6. k \in d.row..Len(trail'[d.ev]) /\ k \in 1..Len(trail[d.ev])
    BY <1>2, <2>3, <2>4, <2>5
  <2>7. QED
    BY <1>3, <2>3, <2>5, <2>6
<1>13. QED
  BY <1>5, <1>6, <1>7, <1>9, <1>11, <1>12 DEF Sound

\* A dispatch takes a step of its own, to r.
Takes(i, r) ==
    /\ r \in Dispatch
    /\ dispatch' = [dispatch EXCEPT ![i] = r]
    /\ r.kind = dispatch[i].kind /\ r.ev = dispatch[i].ev /\ r.row = dispatch[i].row
    /\ r.since = dispatch[i].since

LEMMA ReadEventIs ==
    ASSUME HookInv, NEW i \in DOMAIN dispatch, readEvent(i)
    PROVE  /\ \E r \in Dispatch : Takes(i, r)
           /\ dispatch[i].pc = "emitted" /\ dispatch'[i].pc = "hooked"
           /\ dispatch'[i].hooks = {h \in Hooks : hook[h].live}
           /\ dispatch'[i].matched = dispatch[i].matched /\ dispatch'[i].queue = dispatch[i].queue
           /\ dispatch'[i].current = dispatch[i].current
<1> DEFINE r == [dispatch[i] EXCEPT !.pc = "hooked", !.hooks = {h \in Hooks : hook[h].live}]
<1>1. dispatch[i] \in Dispatch /\ dispatch \in Seq(Dispatch)
  BY DispatchTyped DEF HookInv, HookTypeOK
<1>2. dispatch[i].pc = "emitted" /\ dispatch' = [dispatch EXCEPT ![i] = r]
  BY <1>1 DEF readEvent
<1>3. r \in Dispatch
  BY <1>1 DEF Dispatch
<1>4. /\ r.kind = dispatch[i].kind /\ r.ev = dispatch[i].ev /\ r.row = dispatch[i].row
      /\ r.since = dispatch[i].since /\ r.pc = "hooked" /\ r.hooks = {h \in Hooks : hook[h].live}
      /\ r.matched = dispatch[i].matched /\ r.queue = dispatch[i].queue /\ r.current = dispatch[i].current
  BY <1>1 DEF Dispatch
<1> HIDE DEF r
<1>5. dispatch'[i] = r
  BY <1>1, <1>2, <1>3, OneDispatch
<1>6. QED
  BY <1>2, <1>3, <1>4, <1>5 DEF Takes

aimsRead(i) == [h \in Hooks |-> IF h \in dispatch[i].hooks THEN configOf(h) ELSE 0]

LEMMA ConfigTyped ==
    ASSUME HookInv, NEW h \in Hooks, hook[h] # NoHook
    PROVE  /\ configOf(h) \in 0..MaxConfigs
           /\ hook[h].sub.target = Inline => configOf(h) = 0
           /\ hook[h].sub.target # Inline =>
                 /\ hook[h].sub.target \in Targets
                 /\ IF targetRow[hook[h].sub.target].live
                    THEN configOf(h) = targetRow[hook[h].sub.target].config /\ configOf(h) # 0
                    ELSE configOf(h) = 0
<1> DEFINE t == hook[h].sub.target
<1>1. t \in Targets \cup {Inline}
  BY KnownHook DEF HookInv
<1>2. t \in Targets => targetRow[t].config \in 0..MaxConfigs /\ (targetRow[t].live => targetRow[t].config # 0)
  BY DEF HookInv, HookTypeOK, ConfigsCount
<1>3. configOf(h) = IF t # Inline /\ targetRow[t].live THEN targetRow[t].config ELSE 0
  BY DEF configOf
<1> HIDE DEF t
<1>4. 0 \in 0..MaxConfigs
  BY HookAssumption
<1>5. QED
  BY <1>1, <1>2, <1>3, <1>4 DEF t

LEMMA ReadTargetsIs ==
    ASSUME HookInv, NEW i \in DOMAIN dispatch, readTargets(i)
    PROVE  /\ \E r \in Dispatch : Takes(i, r)
           /\ dispatch[i].pc = "hooked" /\ dispatch'[i].pc = "read"
           /\ dispatch'[i].hooks = dispatch[i].hooks /\ dispatch'[i].aims = aimsRead(i)
           /\ dispatch'[i].matched = dispatch[i].matched /\ dispatch'[i].queue = dispatch[i].queue
           /\ dispatch'[i].current = dispatch[i].current
<1> DEFINE r == [dispatch[i] EXCEPT !.pc = "read", !.aims = aimsRead(i)]
<1>1. dispatch[i] \in Dispatch /\ dispatch \in Seq(Dispatch) /\ dispatch[i].hooks \subseteq Hooks
  BY DispatchTyped DEF HookInv, HookTypeOK
<1>2. dispatch[i].pc = "hooked" /\ dispatch' = [dispatch EXCEPT ![i] = r]
  BY <1>1 DEF readTargets, aimsRead
<1>3. aimsRead(i) \in [Hooks -> 0..MaxConfigs]
  <2>1. \A h \in dispatch[i].hooks : configOf(h) \in 0..MaxConfigs
    BY <1>1, ConfigTyped DEF HookInv, Sound, ReadIsKnown
  <2>2. QED
    BY <2>1, HookAssumption DEF aimsRead
<1>4. r \in Dispatch
  BY <1>1, <1>3 DEF Dispatch
<1>5. /\ r.kind = dispatch[i].kind /\ r.ev = dispatch[i].ev /\ r.row = dispatch[i].row
      /\ r.since = dispatch[i].since /\ r.pc = "read" /\ r.hooks = dispatch[i].hooks
      /\ r.aims = aimsRead(i) /\ r.matched = dispatch[i].matched
      /\ r.queue = dispatch[i].queue /\ r.current = dispatch[i].current
  BY <1>1 DEF Dispatch
<1> HIDE DEF r
<1>6. dispatch'[i] = r
  BY <1>1, <1>2, <1>4, OneDispatch
<1>7. QED
  BY <1>2, <1>4, <1>5, <1>6 DEF Takes

LEMMA ReadTransitionIs ==
    ASSUME HookInv, NEW i \in DOMAIN dispatch, readTransition(i), hook' = hook
    PROVE  /\ \E r \in Dispatch : Takes(i, r)
           /\ dispatch[i].pc = "read" /\ dispatch'[i].pc = "sending"
           /\ dispatch'[i].hooks = dispatch[i].hooks /\ dispatch'[i].aims = dispatch[i].aims
           /\ dispatch[i].kind = "deploy.status_changed" => dispatch'[i].move = latestMove(dispatch[i].ev)
           /\ dispatch'[i].matched = wanted(i)' /\ dispatch'[i].queue = wanted(i)'
           /\ dispatch'[i].current = dispatch[i].current
<1> DEFINE d == dispatch[i]
           move == IF d.kind = "deploy.status_changed" THEN latestMove(d.ev) ELSE NoMove
           now == {h \in d.hooks : matches(hook[h].sub, d.kind, move)}
           r == [d EXCEPT !.pc = "sending", !.move = move, !.matched = now, !.queue = now]
<1>1. d \in Dispatch /\ dispatch \in Seq(Dispatch) /\ d.hooks \subseteq Hooks /\ d.ev \in Deployments
  BY DispatchTyped DEF HookInv, HookTypeOK
<1>2. d.pc = "read" /\ dispatch' = [dispatch EXCEPT ![i] = r]
  BY <1>1 DEF readTransition
<1>3. move \in (StatusOrNone \X Statuses) \cup {NoMove}
  <2>1. CASE d.kind # "deploy.status_changed"
    BY <2>1
  <2>2. CASE d.kind = "deploy.status_changed"
    <3>1. d.row \in 1..Len(trail[d.ev]) /\ trail[d.ev] \in Seq(Row)
      BY <1>1, <2>2 DEF HookInv, Sound, RowIsThere, TrailsAreTyped
    <3>2. trail[d.ev][Len(trail[d.ev])] \in Row
      BY <3>1
    <3>3. latestMove(d.ev) \in StatusOrNone \X Statuses
      BY <3>2, RowTypes DEF latestMove
    <3>4. QED
      BY <2>2, <3>3
  <2>3. QED
    BY <2>1, <2>2
<1>4. now \subseteq Hooks
  BY <1>1
<1> HIDE DEF move, now
<1>5. r \in Dispatch
  BY <1>1, <1>3, <1>4 DEF Dispatch
<1>6. /\ r.kind = d.kind /\ r.ev = d.ev /\ r.row = d.row /\ r.since = d.since
      /\ r.pc = "sending" /\ r.hooks = d.hooks /\ r.aims = d.aims /\ r.move = move
      /\ r.matched = now /\ r.queue = now /\ r.current = d.current
  BY <1>1 DEF Dispatch
<1> HIDE DEF r
<1>7. dispatch'[i] = r
  BY <1>1, <1>2, <1>5, OneDispatch
<1>8. wanted(i)' = now
  BY <1>6, <1>7 DEF wanted, now
<1>9. d.kind = "deploy.status_changed" => move = latestMove(d.ev)
  BY DEF move
<1>10. QED
  BY <1>2, <1>5, <1>6, <1>7, <1>8, <1>9 DEF Takes

LEMMA SendIs ==
    ASSUME HookInv, NEW i \in DOMAIN dispatch, NEW h \in Hooks, send(i, h)
    PROVE  /\ \E r \in Dispatch : Takes(i, r)
           /\ dispatch[i].pc = "sending" /\ dispatch'[i].pc = "sent"
           /\ dispatch'[i].hooks = dispatch[i].hooks /\ dispatch'[i].aims = dispatch[i].aims
           /\ dispatch'[i].move = dispatch[i].move
           /\ dispatch'[i].matched = dispatch[i].matched /\ dispatch'[i].queue = dispatch[i].queue
           /\ dispatch'[i].current = h /\ h \in dispatch[i].queue
<1>1. dispatch[i] \in Dispatch /\ dispatch \in Seq(Dispatch)
  BY DispatchTyped DEF HookInv, HookTypeOK
<1>2. PICK ok \in BOOLEAN :
         dispatch' = [dispatch EXCEPT ![i].pc = "sent", ![i].current = h, ![i].ok = ok]
  BY DEF send
<1> DEFINE r == [dispatch[i] EXCEPT !.pc = "sent", !.current = h, !.ok = ok]
<1>3. dispatch[i].pc = "sending" /\ h \in dispatch[i].queue /\ dispatch' = [dispatch EXCEPT ![i] = r]
  BY <1>1, <1>2 DEF send
<1>4. r \in Dispatch
  BY <1>1 DEF Dispatch
<1>5. /\ r.kind = dispatch[i].kind /\ r.ev = dispatch[i].ev /\ r.row = dispatch[i].row
      /\ r.since = dispatch[i].since /\ r.pc = "sent" /\ r.hooks = dispatch[i].hooks
      /\ r.aims = dispatch[i].aims /\ r.move = dispatch[i].move /\ r.matched = dispatch[i].matched
      /\ r.queue = dispatch[i].queue /\ r.current = h
  BY <1>1 DEF Dispatch
<1> HIDE DEF r
<1>6. dispatch'[i] = r
  BY <1>1, <1>3, <1>4, OneDispatch
<1>7. QED
  BY <1>3, <1>4, <1>5, <1>6 DEF Takes

\* An attempt is logged, or its dispatch ends there.
LEMMA LogIs ==
    ASSUME HookInv, NEW i \in DOMAIN dispatch, log(i)
    PROVE  /\ \E r \in Dispatch : Takes(i, r)
           /\ dispatch[i].pc = "sent"
           /\ dispatch'[i].hooks = dispatch[i].hooks /\ dispatch'[i].aims = dispatch[i].aims
           /\ dispatch'[i].move = dispatch[i].move /\ dispatch'[i].matched = dispatch[i].matched
           /\ \/ /\ dispatch'[i].pc = "sending" /\ dispatch'[i].current = "none"
                 /\ dispatch'[i].queue = dispatch[i].queue \ {dispatch[i].current}
                 /\ hook[dispatch[i].current].live
                 /\ delivery' = Append(delivery, [by |-> i, to |-> dispatch[i].current, ok |-> dispatch[i].ok])
              \/ /\ dispatch'[i].pc = "thrown" /\ dispatch'[i].current = dispatch[i].current
                 /\ dispatch'[i].queue = dispatch[i].queue
                 /\ ~hook[dispatch[i].current].live
                 /\ delivery' = delivery
<1> DEFINE d == dispatch[i]
<1>1. d \in Dispatch /\ dispatch \in Seq(Dispatch) /\ d.pc = "sent"
  BY DispatchTyped DEF HookInv, HookTypeOK, log
<1>2. CASE /\ hook[d.current].live
           /\ delivery' = Append(delivery, [by |-> i, to |-> d.current, ok |-> d.ok])
           /\ dispatch' = [dispatch EXCEPT ![i].pc = "sending", ![i].queue = stillToServe(d),
                                           ![i].current = "none", ![i].ok = FALSE]
  <2> DEFINE q == stillToServe(d)
             r == [d EXCEPT !.pc = "sending", !.queue = q, !.current = "none", !.ok = FALSE]
  <2>1. dispatch' = [dispatch EXCEPT ![i] = r]
    BY <1>1, <1>2
  <2>2. q = d.queue \ {d.current} /\ q \subseteq Hooks
    BY <1>1 DEF stillToServe, Dispatch
  <2> HIDE DEF q
  <2>3. r \in Dispatch
    BY <1>1, <2>2 DEF Dispatch
  <2>4. /\ r.kind = d.kind /\ r.ev = d.ev /\ r.row = d.row /\ r.since = d.since
        /\ r.pc = "sending" /\ r.hooks = d.hooks /\ r.aims = d.aims /\ r.move = d.move
        /\ r.matched = d.matched /\ r.queue = q /\ r.current = "none"
    BY <1>1 DEF Dispatch
  <2> HIDE DEF r
  <2>5. dispatch'[i] = r
    BY <1>1, <2>1, <2>3, OneDispatch
  <2>6. QED
    BY <1>1, <1>2, <2>1, <2>2, <2>3, <2>4, <2>5 DEF Takes
<1>3. CASE /\ ~hook[d.current].live
           /\ dispatch' = [dispatch EXCEPT ![i].pc = "thrown"]
           /\ UNCHANGED delivery
  <2> DEFINE r == [d EXCEPT !.pc = "thrown"]
  <2>1. dispatch' = [dispatch EXCEPT ![i] = r]
    BY <1>1, <1>3
  <2>2. r \in Dispatch
    BY <1>1 DEF Dispatch
  <2>3. /\ r.kind = d.kind /\ r.ev = d.ev /\ r.row = d.row /\ r.since = d.since
        /\ r.pc = "thrown" /\ r.hooks = d.hooks /\ r.aims = d.aims /\ r.move = d.move
        /\ r.matched = d.matched /\ r.queue = d.queue /\ r.current = d.current
    BY <1>1 DEF Dispatch
  <2> HIDE DEF r
  <2>4. dispatch'[i] = r
    BY <1>1, <2>1, <2>2, OneDispatch
  <2>5. QED
    BY <1>1, <1>3, <2>1, <2>2, <2>3, <2>4 DEF Takes
<1>4. QED
  BY <1>2, <1>3 DEF log

LEMMA TakesKeeps ==
    ASSUME HookInv, NEW i \in DOMAIN dispatch, NEW r \in Dispatch, Takes(i, r), UNCHANGED << trail, targetRow >>
    PROVE  /\ dispatch' \in Seq(Dispatch) /\ DOMAIN dispatch' = DOMAIN dispatch
           /\ Len(dispatch') = Len(dispatch)
           /\ \A j \in DOMAIN dispatch \ {i} : LeftAlone(j)
           /\ dispatch'[i].kind = dispatch[i].kind /\ dispatch'[i].ev = dispatch[i].ev
           /\ dispatch'[i].row = dispatch[i].row /\ dispatch'[i].since = dispatch[i].since
           /\ RowIsThere(i)' /\ SinceIsPast(i)'
<1>1. dispatch \in Seq(Dispatch) /\ HookTypeOK
  BY DEF HookInv, HookTypeOK
<1>2. /\ dispatch' \in Seq(Dispatch) /\ DOMAIN dispatch' = DOMAIN dispatch
      /\ Len(dispatch') = Len(dispatch)
      /\ \A j \in DOMAIN dispatch \ {i} : dispatch'[j] = dispatch[j]
      /\ dispatch'[i] = r
  BY <1>1, OneDispatch DEF Takes
<1>3. \A j \in DOMAIN dispatch \ {i} : LeftAlone(j)
  BY <1>1, <1>2, SameIsLeftAlone
<1>4. /\ dispatch'[i].kind = dispatch[i].kind /\ dispatch'[i].ev = dispatch[i].ev
      /\ dispatch'[i].row = dispatch[i].row /\ dispatch'[i].since = dispatch[i].since
  BY <1>2 DEF Takes
<1>5. RowIsThere(i) /\ SinceIsPast(i)
  BY DEF HookInv, Sound
<1>6. RowIsThere(i)' /\ SinceIsPast(i)'
  BY <1>4, <1>5 DEF RowIsThere, SinceIsPast
<1>7. QED
  BY <1>2, <1>3, <1>4, <1>6

LEMMA SoundStep ==
    ASSUME HookInv, NEW i \in DOMAIN dispatch, dispatchHooks(i)
    PROVE  /\ dispatch' \in Seq(Dispatch) /\ DOMAIN dispatch' = DOMAIN dispatch
           /\ Len(dispatch') = Len(dispatch)
           /\ \A j \in DOMAIN dispatch \ {i} : LeftAlone(j)
           /\ Sound(i)'
<1>1. UNCHANGED << trail, hook, targetRow, deleted >>
  BY DEF dispatchHooks, readEvent, readTargets, readTransition, send, log, trailVars
<1>2. HookTypeOK /\ Sound(i)
  BY DEF HookInv
<1> DEFINE d == dispatch[i]
           e == dispatch'[i]
<1>3. d.hooks \subseteq Hooks /\ d.queue \subseteq Hooks /\ d.ev \in Deployments /\ "none" \notin Hooks
  BY <1>2, DispatchTyped, HookAssumption
<1>4. /\ dispatch' \in Seq(Dispatch) /\ DOMAIN dispatch' = DOMAIN dispatch
      /\ Len(dispatch') = Len(dispatch)
      /\ \A j \in DOMAIN dispatch \ {i} : LeftAlone(j)
      /\ e.kind = d.kind /\ e.ev = d.ev /\ e.row = d.row /\ e.since = d.since
      /\ RowIsThere(i)' /\ SinceIsPast(i)'
  <2>1. \E r \in Dispatch : Takes(i, r)
    BY <1>1, ReadEventIs, ReadTargetsIs, ReadTransitionIs, SendIs, LogIs DEF dispatchHooks
  <2>2. QED
    BY <1>1, <2>1, TakesKeeps
<1>5. /\ d.pc \in {"read", "sending", "sent", "thrown"} => \A h \in d.hooks : AimedAt(i, h)
      /\ \A h \in d.matched : AimedAt(i, h)
      /\ \A h \in d.hooks : hook[h] # NoHook
      /\ d.queue \subseteq d.matched
      /\ d.matched \subseteq wanted(i) /\ wanted(i) \subseteq d.hooks
      /\ d.pc \in {"emitted", "hooked", "read"} => d.matched = {}
      /\ d.pc \in {"sending", "sent", "thrown"} => d.matched = wanted(i)
      /\ d.pc \in {"emitted", "hooked", "read", "sending"} => d.current = "none"
      /\ d.pc \in {"sent", "thrown"} => d.current # "none"
      /\ d.current # "none" => d.current \in d.queue
  BY <1>2 DEF Sound, ReadIsKnown, AimsFollow, MatchIsDivided, wanted
<1>6. d.kind = "deploy.status_changed" /\ d.pc \in {"sending", "sent"} =>
         \E k \in d.row..Len(trail[d.ev]) : d.move = moveOf(trail[d.ev][k])
  BY <1>2 DEF Sound, TellsLater, dispatched
<1>7. ASSUME e.hooks = d.hooks, e.move = d.move PROVE wanted(i)' = wanted(i)
  BY <1>1, <1>4, <1>7 DEF wanted
<1>8. ASSUME NEW h, e.aims = d.aims, AimedAt(i, h) PROVE AimedAt(i, h)'
  BY <1>1, <1>4, <1>8 DEF AimedAt
<1> HIDE DEF d, e
<1>9. SUFFICES ReadIsKnown(i)' /\ AimsFollow(i)' /\ MatchIsDivided(i)' /\ TellsLater(i)'
  BY <1>4 DEF Sound
<1>10. CASE readEvent(i)
  <2>1. /\ d.pc = "emitted" /\ e.pc = "hooked" /\ e.hooks = {h \in Hooks : hook[h].live}
        /\ e.matched = d.matched /\ e.queue = d.queue /\ e.current = d.current
    BY <1>10, ReadEventIs DEF d, e
  <2>2. d.matched = {} /\ d.queue = {} /\ d.current = "none"
    BY <1>5, <2>1
  <2>3. ReadIsKnown(i)'
    BY <1>1, <1>2, <2>1, LiveIsKnown DEF ReadIsKnown, e
  <2>4. AimsFollow(i)' /\ MatchIsDivided(i)' /\ TellsLater(i)'
    BY <2>1, <2>2 DEF AimsFollow, MatchIsDivided, TellsLater, dispatched, e
  <2>5. QED
    BY <2>3, <2>4
<1>11. CASE readTargets(i)
  <2>1. /\ d.pc = "hooked" /\ e.pc = "read" /\ e.hooks = d.hooks /\ e.aims = aimsRead(i)
        /\ e.matched = d.matched /\ e.queue = d.queue /\ e.current = d.current
    BY <1>11, ReadTargetsIs DEF d, e
  <2>2. d.matched = {} /\ d.queue = {} /\ d.current = "none"
    BY <1>5, <2>1
  <2>3. ReadIsKnown(i)'
    BY <1>1, <1>5, <2>1 DEF ReadIsKnown, e
  <2>4. ASSUME NEW h \in d.hooks PROVE AimedAt(i, h)'
    <3> DEFINE t == hook[h].sub.target
    <3>1. h \in Hooks /\ hook[h] # NoHook
      BY <1>3, <1>5
    <3>2. e.aims[h] = configOf(h)
      BY <2>1, <3>1 DEF aimsRead, d
    <3>3. CASE t = Inline
      <4>1. configOf(h) = 0
        BY <3>1, <3>3, ConfigTyped
      <4>2. QED
        BY <1>1, <3>2, <3>3, <4>1 DEF AimedAt, e
    <3>4. CASE t # Inline /\ targetRow[t].live
      <4>1. t \in Targets /\ configOf(h) = targetRow[t].config /\ configOf(h) # 0
        BY <3>1, <3>4, ConfigTyped
      <4>2. d.since[t] <= targetRow[t].config /\ d.since[t] \in Int /\ targetRow[t].config \in Int
        <5>1. d.since \in [Targets -> 0..MaxConfigs]
          BY <1>2, DispatchTyped DEF d
        <5>2. QED
          BY <1>2, <4>1, <5>1, HookAssumption DEF Sound, SinceIsPast, HookTypeOK, d
      <4>3. targetRow[t].config \in e.since[t]..targetRow[t].config
        BY <1>4, <4>2
      <4>4. QED
        BY <1>1, <3>2, <3>4, <4>1, <4>3 DEF AimedAt, e
    <3>5. CASE t # Inline /\ ~targetRow[t].live
      <4>1. configOf(h) = 0
        BY <3>1, <3>5, ConfigTyped
      <4>2. ~hook[h].live
        BY <1>2, <3>1, <3>5 DEF HookTypeOK
      <4>3. h \in deleted
        BY <3>1, <4>2 DEF HookInv, DeletionsAreLogged
      <4>4. QED
        BY <1>1, <3>2, <3>5, <4>1, <4>3 DEF AimedAt, e
    <3>6. QED
      BY <3>3, <3>4, <3>5
  <2>5. AimsFollow(i)'
    BY <2>1, <2>2, <2>4 DEF AimsFollow, e
  <2>6. MatchIsDivided(i)' /\ TellsLater(i)'
    BY <2>1, <2>2 DEF MatchIsDivided, TellsLater, dispatched, e
  <2>7. QED
    BY <2>3, <2>5, <2>6
<1>12. CASE readTransition(i)
  <2>1. /\ d.pc = "read" /\ e.pc = "sending" /\ e.hooks = d.hooks /\ e.aims = d.aims
        /\ d.kind = "deploy.status_changed" => e.move = latestMove(d.ev)
        /\ e.matched = wanted(i)' /\ e.queue = wanted(i)' /\ e.current = d.current
    BY <1>1, <1>12, ReadTransitionIs DEF d, e
  <2>2. ReadIsKnown(i)'
    BY <1>1, <1>5, <2>1 DEF ReadIsKnown, e
  <2>3. wanted(i)' \subseteq d.hooks
    BY <2>1 DEF wanted, e
  <2>4. AimsFollow(i)'
    BY <1>5, <1>8, <2>1, <2>3 DEF AimsFollow, e
  <2>5. MatchIsDivided(i)'
    BY <1>5, <2>1 DEF MatchIsDivided, e
  <2>6. TellsLater(i)'
    <3>1. SUFFICES ASSUME d.kind = "deploy.status_changed"
                   PROVE  \E k \in e.row..Len(trail[e.ev]) : e.move = moveOf(trail[e.ev][k])
      BY <1>1, <1>4 DEF TellsLater, dispatched, e
    <3>2. d.row \in 1..Len(trail[d.ev]) /\ Len(trail[d.ev]) \in Nat
      BY <1>2, <1>3, <3>1 DEF Sound, RowIsThere, HookInv, TrailsAreTyped, d
    <3>3. Len(trail[d.ev]) \in d.row..Len(trail[d.ev])
      BY <3>2
    <3>4. QED
      BY <1>4, <2>1, <3>1, <3>3 DEF latestMove
  <2>7. QED
    BY <2>2, <2>4, <2>5, <2>6
<1>13. ASSUME NEW h \in Hooks, send(i, h)
       PROVE  ReadIsKnown(i)' /\ AimsFollow(i)' /\ MatchIsDivided(i)' /\ TellsLater(i)'
  <2>1. /\ d.pc = "sending" /\ e.pc = "sent" /\ e.hooks = d.hooks /\ e.aims = d.aims /\ e.move = d.move
        /\ e.matched = d.matched /\ e.queue = d.queue /\ e.current = h /\ h \in d.queue
    BY <1>13, SendIs DEF d, e
  <2>2. ReadIsKnown(i)'
    BY <1>1, <1>5, <2>1 DEF ReadIsKnown, e
  <2>3. AimsFollow(i)'
    BY <1>5, <1>8, <2>1 DEF AimsFollow, e
  <2>4. MatchIsDivided(i)'
    BY <1>3, <1>5, <1>7, <2>1 DEF MatchIsDivided, e
  <2>5. TellsLater(i)'
    BY <1>1, <1>4, <1>6, <2>1 DEF TellsLater, dispatched, e
  <2>6. QED
    BY <2>2, <2>3, <2>4, <2>5
<1>14. CASE log(i)
  <2>1. /\ d.pc = "sent" /\ e.hooks = d.hooks /\ e.aims = d.aims /\ e.move = d.move
        /\ e.matched = d.matched
        /\ \/ e.pc = "sending" /\ e.current = "none" /\ e.queue = d.queue \ {d.current}
           \/ e.pc = "thrown" /\ e.current = d.current /\ e.queue = d.queue /\ ~hook[d.current].live
    BY <1>14, LogIs DEF d, e
  <2>2. ReadIsKnown(i)'
    BY <1>1, <1>5, <2>1 DEF ReadIsKnown, e
  <2>3. AimsFollow(i)'
    BY <1>5, <1>8, <2>1 DEF AimsFollow, e
  <2>4. MatchIsDivided(i)'
    BY <1>1, <1>5, <1>7, <2>1 DEF MatchIsDivided, e
  <2>5. TellsLater(i)'
    BY <1>1, <1>4, <1>6, <2>1 DEF TellsLater, dispatched, e
  <2>6. QED
    BY <2>2, <2>3, <2>4, <2>5
<1>15. QED
  BY <1>10, <1>11, <1>12, <1>13, <1>14 DEF dispatchHooks

LEMMA FreshIsSound ==
    ASSUME HookInv, Around, Starts, NEW n \in Nat, n = Len(dispatch) + 1
    PROVE  /\ dispatch' \in Seq(Dispatch)
           /\ Len(dispatch') = n /\ DOMAIN dispatch' = 1..n
           /\ \A i \in DOMAIN dispatch : LeftAlone(i)
           /\ Sound(n)' /\ served(n)' = {}
<1>1. PICK d \in Deployments, kind \in Kinds, row \in Nat :
         /\ kind = "deploy.status_changed" => row \in 1..Len(trail'[d])
         /\ dispatch' = Append(dispatch, fresh(d, kind, row))
  BY DEF Starts
<1> DEFINE f == fresh(d, kind, row)
<1>2. HookTypeOK /\ dispatch \in Seq(Dispatch)
  BY DEF HookInv, HookTypeOK
<1>3. [t \in Targets |-> targetRow[t].config] \in [Targets -> 0..MaxConfigs]
  BY <1>2 DEF HookTypeOK
<1>4. f \in Dispatch
  <2>1. [h \in Hooks |-> 0] \in [Hooks -> 0..MaxConfigs]
    BY HookAssumption
  <2>2. QED
    BY <1>3, <2>1 DEF fresh, Dispatch
<1>5. /\ f.pc = "emitted" /\ f.kind = kind /\ f.ev = d /\ f.row = row /\ f.hooks = {}
      /\ f.since = [t \in Targets |-> targetRow[t].config] /\ f.matched = {} /\ f.queue = {}
      /\ f.current = "none"
  BY DEF fresh
<1> HIDE DEF f
<1>6. /\ dispatch' \in Seq(Dispatch) /\ DOMAIN dispatch = 1..Len(dispatch) /\ Len(dispatch) \in Nat
      /\ Len(dispatch') = n /\ DOMAIN dispatch' = 1..n
      /\ \A i \in 1..Len(dispatch) : dispatch'[i] = dispatch[i]
      /\ dispatch'[n] = f
  BY <1>1, <1>2, <1>4, AppendKeeps DEF f
<1>7. \A i \in DOMAIN dispatch : LeftAlone(i)
  BY <1>2, <1>6, SameIsLeftAlone
<1>8. ReadIsKnown(n)' /\ AimsFollow(n)' /\ MatchIsDivided(n)' /\ TellsLater(n)' /\ served(n)' = {}
  BY <1>5, <1>6 DEF ReadIsKnown, AimsFollow, MatchIsDivided, TellsLater, dispatched, served
<1>9. RowIsThere(n)'
  BY <1>1, <1>5, <1>6 DEF RowIsThere
<1>10. SinceIsPast(n)'
  BY <1>5, <1>6 DEF SinceIsPast, Around, Administered, TargetsAdvance
<1>11. QED
  BY <1>6, <1>7, <1>8, <1>9, <1>10 DEF Sound

LEMMA RestartLeaves ==
    ASSUME HookInv, restart
    PROVE  /\ dispatch' \in Seq(Dispatch) /\ DOMAIN dispatch' = DOMAIN dispatch
           /\ Len(dispatch') = Len(dispatch)
           /\ \A i \in DOMAIN dispatch : LeftAlone(i)
<1>1. HookTypeOK /\ dispatch \in Seq(Dispatch) /\ DOMAIN dispatch = 1..Len(dispatch) /\ Len(dispatch) \in Nat
  BY DEF HookInv, HookTypeOK
<1>2. dispatch' = [i \in 1..Len(dispatch) |->
                      IF over(dispatch[i]) THEN dispatch[i] ELSE [dispatch[i] EXCEPT !.pc = "lost"]]
  BY <1>1 DEF restart
<1>3. ASSUME NEW i \in DOMAIN dispatch PROVE LeftAlone(i) /\ dispatch'[i] \in Dispatch
  <2>1. dispatch[i] \in Dispatch
    BY <1>1, DispatchTyped
  <2>2. CASE over(dispatch[i])
    BY <1>1, <1>2, <2>1, <2>2, SameIsLeftAlone
  <2>3. CASE ~over(dispatch[i])
    <3>1. dispatch'[i] = [dispatch[i] EXCEPT !.pc = "lost"]
      BY <1>1, <1>2, <2>3
    <3>2. dispatch'[i].pc = "lost" /\ dispatch'[i] \in Dispatch
      BY <2>1, <3>1 DEF Dispatch
    <3>3. QED
      BY <3>1, <3>2 DEF LeftAlone
  <2>4. QED
    BY <2>2, <2>3
<1>4. dispatch' \in [1..Len(dispatch) -> Dispatch]
  BY <1>1, <1>2, <1>3
<1>5. dispatch' \in Seq(Dispatch) /\ Len(dispatch') = Len(dispatch)
  BY <1>1, <1>4
<1>6. QED
  BY <1>1, <1>3, <1>4, <1>5

\* Every dispatch stays sound, whatever step is taken.
LEMMA DispatchesStaySound ==
    ASSUME HookInv, [HookNext]_hookVars
    PROVE  /\ dispatch' \in Seq(Dispatch)
           /\ (Len(dispatch) <= MaxDispatches)'
           /\ (\A i \in DOMAIN dispatch : Sound(i))'
<1>1. Around
  BY StepCases
<1>2. \A i \in DOMAIN dispatch : LeftAlone(i) => Sound(i)'
  BY <1>1, SoundKept
<1>3. /\ HookTypeOK /\ dispatch \in Seq(Dispatch) /\ Len(dispatch) <= MaxDispatches
      /\ DOMAIN dispatch = 1..Len(dispatch) /\ Len(dispatch) \in Nat /\ MaxDispatches \in Nat
  BY HookAssumption DEF HookInv, HookTypeOK
<1>4. CASE StillAround
  <2>1. \A i \in DOMAIN dispatch : LeftAlone(i)
    BY <1>3, <1>4, SameIsLeftAlone DEF StillAround
  <2>2. \A i \in DOMAIN dispatch : Sound(i)'
    BY <1>2, <2>1
  <2>3. DOMAIN dispatch' = DOMAIN dispatch /\ dispatch' = dispatch
    BY <1>4 DEF StillAround
  <2>4. (\A i \in DOMAIN dispatch : Sound(i))'
    BY <2>2, <2>3
  <2>5. QED
    BY <1>3, <2>3, <2>4
<1>5. CASE Starts
  <2>0. PICK n \in Nat : n = Len(dispatch) + 1
    BY <1>3
  <2>1. /\ dispatch' \in Seq(Dispatch) /\ Len(dispatch') = n /\ DOMAIN dispatch' = 1..n
        /\ \A i \in DOMAIN dispatch : Sound(i)'
        /\ Sound(n)'
    BY <1>1, <1>2, <1>5, <2>0, FreshIsSound
  <2>2. \A i \in DOMAIN dispatch' : i \in DOMAIN dispatch \/ i = n
    BY <1>3, <2>0, <2>1
  <2>3. (\A i \in DOMAIN dispatch : Sound(i))'
    BY <2>1, <2>2
  <2>4. Len(dispatch) < MaxDispatches
    BY <1>5 DEF Starts
  <2>5. QED
    BY <1>3, <2>0, <2>1, <2>3, <2>4
<1>6. ASSUME NEW i \in DOMAIN dispatch, dispatchHooks(i)
      PROVE  /\ dispatch' \in Seq(Dispatch) /\ (Len(dispatch) <= MaxDispatches)'
             /\ (\A j \in DOMAIN dispatch : Sound(j))'
  <2>1. /\ dispatch' \in Seq(Dispatch) /\ DOMAIN dispatch' = DOMAIN dispatch
        /\ Len(dispatch') = Len(dispatch)
        /\ \A j \in DOMAIN dispatch \ {i} : LeftAlone(j)
        /\ Sound(i)'
    BY <1>6, SoundStep
  <2>2. \A j \in DOMAIN dispatch : Sound(j)'
    BY <1>2, <2>1
  <2>3. (\A j \in DOMAIN dispatch : Sound(j))'
    BY <2>1, <2>2
  <2>4. QED
    BY <1>3, <2>1, <2>3
<1>7. CASE restart
  <2>1. /\ dispatch' \in Seq(Dispatch) /\ DOMAIN dispatch' = DOMAIN dispatch
        /\ Len(dispatch') = Len(dispatch) /\ \A i \in DOMAIN dispatch : LeftAlone(i)
    BY <1>7, RestartLeaves
  <2>2. (\A j \in DOMAIN dispatch : Sound(j))'
    BY <1>2, <2>1
  <2>3. QED
    BY <1>3, <2>1, <2>2
<1>8. QED
  BY <1>4, <1>5, <1>6, <1>7, StepCases

(***************************************************************************)
(* The log.                                                                *)
(***************************************************************************)
DeliveryTyped == delivery \in Seq([by : 1..MaxDispatches, to : Hooks, ok : BOOLEAN])

\* The log goes on telling what was served when nothing is served or logged.
LEMMA LogKept ==
    ASSUME HookInv, delivery' = delivery, DOMAIN dispatch \subseteq DOMAIN dispatch',
           \A i \in DOMAIN dispatch : served(i)' = served(i),
           \A i \in DOMAIN dispatch' \ DOMAIN dispatch : served(i)' = {}
    PROVE  DeliveryTyped' /\ LogTells'
<1>1. DeliveryTyped'
  BY DEF HookInv, HookTypeOK, DeliveryTyped
<1>2. /\ \A k \in DOMAIN delivery :
            \E i \in DOMAIN dispatch : delivery[k].by = i /\ delivery[k].to \in served(i)
      /\ \A i \in DOMAIN dispatch : \A h \in served(i) :
            \E k \in DOMAIN delivery : delivery[k].by = i /\ delivery[k].to = h
      /\ \A k, l \in DOMAIN delivery :
            delivery[k].by = delivery[l].by /\ delivery[k].to = delivery[l].to => k = l
  BY DEF HookInv, LogTells
<1>3. \A k \in DOMAIN delivery' :
         \E i \in DOMAIN dispatch' : delivery'[k].by = i /\ delivery'[k].to \in served(i)'
  BY <1>2
<1>4. \A i \in DOMAIN dispatch' : \A h \in served(i)' :
         \E k \in DOMAIN delivery' : delivery'[k].by = i /\ delivery'[k].to = h
  <2>1. SUFFICES ASSUME NEW i \in DOMAIN dispatch', NEW h \in served(i)'
                 PROVE  \E k \in DOMAIN delivery' : delivery'[k].by = i /\ delivery'[k].to = h
    OBVIOUS
  <2>2. i \in DOMAIN dispatch /\ h \in served(i)
    BY <2>1
  <2>3. QED
    BY <1>2, <2>2
<1>5. \A k, l \in DOMAIN delivery' :
         delivery'[k].by = delivery'[l].by /\ delivery'[k].to = delivery'[l].to => k = l
  BY <1>2
<1>6. LogTells'
  BY <1>3, <1>4, <1>5, Zenon DEF LogTells
<1>7. QED
  BY <1>1, <1>6

LEMMA ServedAlone ==
    ASSUME HookInv, NEW i \in DOMAIN dispatch, LeftAlone(i)
    PROVE  served(i)' = served(i)
<1>1. dispatch'[i].matched = dispatch[i].matched /\ dispatch'[i].queue = dispatch[i].queue
  BY LeftAloneFields DEF HookInv
<1>2. QED
  BY <1>1 DEF served

\* One attempt is logged, of a hook that was queued.
LEMMA LogGrows ==
    ASSUME HookInv, NEW i \in DOMAIN dispatch, NEW ok \in BOOLEAN, NEW h \in dispatch[i].queue,
           delivery' = Append(delivery, [by |-> i, to |-> h, ok |-> ok]),
           DOMAIN dispatch' = DOMAIN dispatch,
           served(i)' = served(i) \cup {h},
           \A j \in DOMAIN dispatch \ {i} : served(j)' = served(j)
    PROVE  DeliveryTyped' /\ LogTells'
<1> DEFINE R == [by : 1..MaxDispatches, to : Hooks, ok : BOOLEAN]
           a == [by |-> i, to |-> h, ok |-> ok]
           n == Len(delivery)
<1>1. HookTypeOK /\ delivery \in Seq(R)
  BY DEF HookInv, HookTypeOK
<1>2. i \in 1..MaxDispatches
  BY <1>1, DispatchTyped, HookAssumption DEF HookInv
<1>3. a \in R
  BY <1>1, <1>2, DispatchTyped
<1>4. a.by = i /\ a.to = h
  OBVIOUS
<1> HIDE DEF a, R
<1>5. /\ delivery' \in Seq(R) /\ DOMAIN delivery = 1..n /\ n \in Nat /\ DOMAIN delivery' = 1..(n + 1)
      /\ \A k \in 1..n : delivery'[k] = delivery[k]
      /\ delivery'[n + 1] = a
  BY <1>1, <1>3, AppendKeeps DEF a
<1> HIDE DEF n
<1>6. /\ \A k \in 1..n :
            \E j \in DOMAIN dispatch : delivery[k].by = j /\ delivery[k].to \in served(j)
      /\ \A j \in DOMAIN dispatch : \A g \in served(j) :
            \E k \in 1..n : delivery[k].by = j /\ delivery[k].to = g
      /\ \A k, l \in 1..n :
            delivery[k].by = delivery[l].by /\ delivery[k].to = delivery[l].to => k = l
  <2>1. LogTells
    BY DEF HookInv
  <2>2. DOMAIN delivery = 1..n
    BY <1>5
  <2>3. QED
    <3>1. \A k \in 1..n :
             \E j \in DOMAIN dispatch : delivery[k].by = j /\ delivery[k].to \in served(j)
      BY <2>1, <2>2 DEF LogTells
    <3>2. \A j \in DOMAIN dispatch : \A g \in served(j) :
             \E k \in 1..n : delivery[k].by = j /\ delivery[k].to = g
      BY <2>1, <2>2 DEF LogTells
    <3>3. \A k, l \in 1..n :
             delivery[k].by = delivery[l].by /\ delivery[k].to = delivery[l].to => k = l
      BY <2>1, <2>2 DEF LogTells
    <3>4. QED
      BY <3>1, <3>2, <3>3, Zenon
<1>7. h \notin served(i)
  BY DEF served
<1>8. \A k \in 1..(n + 1) : k \in 1..n \/ k = n + 1
  BY <1>5
<1>9. 1..n \subseteq 1..(n + 1) /\ n + 1 \in 1..(n + 1)
  BY <1>5
<1>10. \A k \in DOMAIN delivery' :
          \E j \in DOMAIN dispatch' : delivery'[k].by = j /\ delivery'[k].to \in served(j)'
  <2>1. SUFFICES ASSUME NEW k \in 1..(n + 1)
                 PROVE  \E j \in DOMAIN dispatch : delivery'[k].by = j /\ delivery'[k].to \in served(j)'
    BY <1>5
  <2>2. CASE k = n + 1
    BY <1>4, <1>5, <2>2
  <2>3. CASE k \in 1..n
    <3>1. PICK j \in DOMAIN dispatch : delivery[k].by = j /\ delivery[k].to \in served(j)
      BY <1>6, <2>3
    <3>2. served(j) \subseteq served(j)'
      BY <3>1
    <3>3. QED
      BY <1>5, <2>3, <3>1, <3>2
  <2>4. QED
    BY <1>8, <2>2, <2>3
<1>11. \A j \in DOMAIN dispatch' : \A g \in served(j)' :
         \E k \in DOMAIN delivery' : delivery'[k].by = j /\ delivery'[k].to = g
  <2>1. SUFFICES ASSUME NEW j \in DOMAIN dispatch, NEW g \in served(j)'
                 PROVE  \E k \in 1..(n + 1) : delivery'[k].by = j /\ delivery'[k].to = g
    BY <1>5
  <2>2. CASE j = i /\ g = h
    BY <1>4, <1>5, <1>9, <2>2
  <2>3. CASE ~(j = i /\ g = h)
    <3>1. g \in served(j)
      BY <2>1, <2>3
    <3>2. PICK k \in 1..n : delivery[k].by = j /\ delivery[k].to = g
      BY <1>6, <3>1
    <3>3. QED
      BY <1>5, <1>9, <3>2
  <2>4. QED
    BY <2>2, <2>3
<1>12. \A k, l \in DOMAIN delivery' :
         delivery'[k].by = delivery'[l].by /\ delivery'[k].to = delivery'[l].to => k = l
  <2>1. \A k \in 1..n : ~(delivery[k].by = i /\ delivery[k].to = h)
    BY <1>6, <1>7
  <2>2. SUFFICES ASSUME NEW k \in 1..(n + 1), NEW l \in 1..(n + 1),
                        delivery'[k].by = delivery'[l].by, delivery'[k].to = delivery'[l].to
                 PROVE  k = l
    BY <1>5
  <2>3. CASE k \in 1..n /\ l \in 1..n
    BY <1>5, <1>6, <2>2, <2>3
  <2>4. CASE k = n + 1 /\ l \in 1..n
    BY <1>4, <1>5, <2>1, <2>2, <2>4
  <2>5. CASE k \in 1..n /\ l = n + 1
    BY <1>4, <1>5, <2>1, <2>2, <2>5
  <2>6. QED
    BY <1>8, <2>3, <2>4, <2>5
<1>13. LogTells'
  BY <1>10, <1>11, <1>12, Zenon DEF LogTells
<1>14. QED
  BY <1>5, <1>13 DEF DeliveryTyped, R

\* Whatever step is taken, the log goes on telling what was served.
LEMMA LogGoesOn ==
    ASSUME HookInv, [HookNext]_hookVars
    PROVE  DeliveryTyped' /\ LogTells' /\ LoggedHooksLive'
<1>1. Around /\ HookTypeOK /\ LoggedHooksLive /\ dispatch \in Seq(Dispatch)
  BY StepCases DEF HookInv, HookTypeOK, LoggedHooksLive
<1>2. \A i \in DOMAIN dispatch : LeftAlone(i) => served(i)' = served(i)
  BY ServedAlone
<1>3. \A i \in DOMAIN dispatch : MatchIsDivided(i)
  BY DEF HookInv, Sound
<1>4. CASE StillAround /\ LoggedHooksLive'
  <2>1. DOMAIN dispatch = DOMAIN dispatch' /\ delivery' = delivery
    BY <1>4 DEF StillAround
  <2>2. \A i \in DOMAIN dispatch : served(i)' = served(i)
    BY <1>4 DEF StillAround, served
  <2>3. QED
    BY <1>4, <2>1, <2>2, LogKept
<1>5. CASE Starts /\ hook' = hook
  <2>1. delivery' = delivery
    BY <1>5 DEF Starts
  <2>2. PICK n \in Nat : n = Len(dispatch) + 1
    BY <1>1
  <2>3. DOMAIN dispatch' = 1..n /\ DOMAIN dispatch = 1..Len(dispatch) /\ Len(dispatch) \in Nat
    BY <1>1, <1>5, <2>2, FreshIsSound
  <2>4. (\A i \in DOMAIN dispatch : served(i)' = served(i)) /\ served(n)' = {}
    BY <1>1, <1>2, <1>5, <2>2, FreshIsSound
  <2>5. DOMAIN dispatch \subseteq DOMAIN dispatch' /\ \A i \in DOMAIN dispatch' \ DOMAIN dispatch : i = n
    BY <2>2, <2>3
  <2>6. LoggedHooksLive'
    BY <1>1, <1>5, <2>1 DEF LoggedHooksLive
  <2>7. QED
    BY <2>1, <2>4, <2>5, <2>6, LogKept
<1>6. ASSUME NEW i \in DOMAIN dispatch, dispatchHooks(i), hook' = hook
      PROVE  DeliveryTyped' /\ LogTells' /\ LoggedHooksLive'
  <2>1. /\ DOMAIN dispatch' = DOMAIN dispatch
        /\ \A j \in DOMAIN dispatch \ {i} : served(j)' = served(j)
    BY <1>2, <1>6, SoundStep
  <2>2. DOMAIN dispatch \subseteq DOMAIN dispatch' /\ DOMAIN dispatch' \ DOMAIN dispatch = {}
    BY <2>1
  <2>3. ASSUME delivery' = delivery, served(i)' = served(i)
        PROVE  DeliveryTyped' /\ LogTells' /\ LoggedHooksLive'
    <3>1. \A j \in DOMAIN dispatch : served(j)' = served(j)
      BY <2>1, <2>3
    <3>2. LoggedHooksLive'
      BY <1>1, <1>6, <2>3 DEF LoggedHooksLive
    <3>3. QED
      BY <2>2, <2>3, <3>1, <3>2, LogKept
  <2>4. CASE readEvent(i)
    <3>1. delivery' = delivery
      BY <2>4 DEF readEvent
    <3>2. served(i)' = served(i)
      BY <1>1, <2>4, ReadEventIs DEF served
    <3>3. QED
      BY <2>3, <3>1, <3>2
  <2>5. CASE readTargets(i)
    <3>1. delivery' = delivery
      BY <2>5 DEF readTargets
    <3>2. served(i)' = served(i)
      BY <1>1, <2>5, ReadTargetsIs DEF served
    <3>3. QED
      BY <2>3, <3>1, <3>2
  <2>6. CASE readTransition(i)
    <3>1. delivery' = delivery
      BY <2>6 DEF readTransition
    <3>2. dispatch[i].matched = {} /\ dispatch'[i].matched = dispatch'[i].queue
      BY <1>1, <1>3, <1>6, <2>6, ReadTransitionIs DEF MatchIsDivided
    <3>3. served(i)' = {} /\ served(i) = {}
      BY <3>2 DEF served
    <3>4. QED
      BY <2>3, <3>1, <3>3
  <2>7. ASSUME NEW h \in Hooks, send(i, h) PROVE DeliveryTyped' /\ LogTells' /\ LoggedHooksLive'
    <3>1. delivery' = delivery
      BY <2>7 DEF send
    <3>2. served(i)' = served(i)
      BY <1>1, <2>7, SendIs DEF served
    <3>3. QED
      BY <2>3, <3>1, <3>2
  <2>8. CASE log(i)
    <3> DEFINE h == dispatch[i].current
    <3>1. h \in dispatch[i].queue /\ dispatch[i].queue \subseteq dispatch[i].matched
      BY <1>3, <2>8 DEF MatchIsDivided, log
    <3>2. CASE hook[h].live
      <4>0. delivery' = Append(delivery, [by |-> i, to |-> h, ok |-> dispatch[i].ok])
        BY <2>8, <3>2 DEF log
      <4>1. dispatch[i].ok \in BOOLEAN /\ h \in Hooks
        BY <1>1, <3>1, DispatchTyped DEF Dispatch
      <4>2. dispatch'[i].matched = dispatch[i].matched /\ dispatch'[i].queue = dispatch[i].queue \ {h}
        BY <1>1, <2>8, <3>2, LogIs
      <4>3. served(i)' = served(i) \cup {h}
        BY <3>1, <4>2 DEF served
      <4>4. DeliveryTyped' /\ LogTells'
        <5> HIDE DEF h
        <5>1. PICK ok \in BOOLEAN : ok = dispatch[i].ok
          BY <4>1
        <5>2. PICK g \in dispatch[i].queue : g = h
          BY <3>1
        <5>3. delivery' = Append(delivery, [by |-> i, to |-> g, ok |-> ok]) /\ served(i)' = served(i) \cup {g}
          BY <4>0, <4>3, <5>1, <5>2
        <5>4. QED
          BY <2>1, <5>3, LogGrows
      <4>5. LoggedHooksLive'
        <5> DEFINE a == [by |-> i, to |-> h, ok |-> dispatch[i].ok]
                   S == [by : 1..MaxDispatches, to : Hooks, ok : BOOLEAN]
        <5>1. a.to = h /\ a \in S /\ delivery \in Seq(S)
          BY <1>1, <4>1, DispatchTyped, HookAssumption DEF HookInv, HookTypeOK
        <5> HIDE DEF a, S, h
        <5>2. delivery' = Append(delivery, a)
          BY <4>0 DEF a
        <5>3. /\ DOMAIN delivery = 1..Len(delivery) /\ Len(delivery) \in Nat
              /\ DOMAIN delivery' = 1..(Len(delivery) + 1)
              /\ \A k \in 1..Len(delivery) : delivery'[k] = delivery[k]
              /\ delivery'[Len(delivery) + 1] = a
          BY <5>1, <5>2, AppendKeeps
        <5>4. \A k \in DOMAIN delivery' : k \in DOMAIN delivery \/ k = Len(delivery) + 1
          BY <5>3
        <5>5. QED
          BY <1>1, <1>6, <3>2, <5>1, <5>3, <5>4 DEF LoggedHooksLive
      <4>6. QED
        BY <4>4, <4>5
    <3>3. CASE ~hook[h].live
      <4>1. delivery' = delivery
        BY <2>8, <3>3 DEF log
      <4>2. served(i)' = served(i)
        BY <1>1, <2>8, <3>3, LogIs DEF served
      <4>3. QED
        BY <2>3, <4>1, <4>2
    <3>4. QED
      BY <3>2, <3>3
  <2>9. QED
    BY <1>6, <2>4, <2>5, <2>6, <2>7, <2>8 DEF dispatchHooks
<1>7. CASE restart /\ hook' = hook
  <2>1. delivery' = delivery
    BY <1>7 DEF restart
  <2>2. DOMAIN dispatch' = DOMAIN dispatch /\ \A i \in DOMAIN dispatch : served(i)' = served(i)
    BY <1>2, <1>7, RestartLeaves
  <2>3. LoggedHooksLive'
    BY <1>1, <1>7, <2>1 DEF LoggedHooksLive
  <2>4. QED
    BY <2>1, <2>2, <2>3, LogKept
<1>8. QED
  BY <1>4, <1>5, <1>6, <1>7, StepCases

(***************************************************************************)
(* The invariant is inductive.                                             *)
(***************************************************************************)
LEMMA InvInit ==
    ASSUME HookInit
    PROVE  HookInv
<1>1. HookTypeOK
  BY HookAssumption DEF HookInit, HookTypeOK, NoHook, NoTarget, StatusOrNone
<1>2. TrailsAreTyped /\ DeletionsAreLogged /\ ConfigsCount
  BY DEF HookInit, TrailsAreTyped, DeletionsAreLogged, ConfigsCount, NoTarget
<1>3. Len(dispatch) <= MaxDispatches /\ DOMAIN dispatch = {} /\ DOMAIN delivery = {}
  BY HookAssumption DEF HookInit
<1>4. LogTells
  BY <1>3, Zenon DEF LogTells
<1>5. QED
  BY <1>1, <1>2, <1>3, <1>4 DEF HookInv

LEMMA InvStep ==
    ASSUME HookInv, [HookNext]_hookVars
    PROVE  HookInv'
<1>1. Around
  BY StepCases
<1>2. /\ dispatch' \in Seq(Dispatch)
      /\ (Len(dispatch) <= MaxDispatches)'
      /\ (\A i \in DOMAIN dispatch : Sound(i))'
  BY DispatchesStaySound
<1>3. DeliveryTyped' /\ LogTells' /\ LoggedHooksLive'
  BY LogGoesOn
<1>4. HookTypeOK'
  BY <1>1, <1>2, <1>3 DEF HookTypeOK, Around, Administered, StatusTyped, HooksTyped, TargetsTyped,
                          UsedTargetsLive, DeliveryTyped, LoggedHooksLive
<1>5. QED
  BY <1>1, <1>2, <1>3, <1>4 DEF HookInv, Around, Administered

LEMMA HookInvariant == HookSpec => []HookInv
<1>1. HookInit => HookInv
  BY InvInit
<1>2. HookInv /\ [HookNext]_hookVars => HookInv'
  BY InvStep
<1>3. QED
  BY <1>1, <1>2, PTL DEF HookSpec

(***************************************************************************)
(* The theorems.                                                           *)
(***************************************************************************)
\* Types, for every reachable state: among others, a row of the log refers to a hook that is
\* there, and a hook in use to a target that is.
THEOREM TypesHold == HookSpec => []HookTypeOK
<1>1. HookInv => HookTypeOK
  BY DEF HookInv
<1>2. QED
  BY <1>1, HookInvariant, PTL

\* Whatever moves are made while a dispatch of a move is under way, what it tells of is
\* the move of its own request or a later one.
THEOREM TellsTheTruth == HookSpec => []TellsNoOlderMove
<1>1. HookInv => TellsNoOlderMove
  BY DEF HookInv, Sound, TellsLater, TellsNoOlderMove
<1>2. QED
  BY <1>1, HookInvariant, PTL

\* The log has a row for a hook and a dispatch when the dispatch served it, and just one.
LEMMA AttemptsTell ==
    ASSUME HookInv, NEW i \in DOMAIN dispatch, NEW h \in Hooks
    PROVE  /\ attempts(i, h) # {} <=> h \in served(i)
           /\ Cardinality(attempts(i, h)) <= 1
<1>1. /\ \A k \in DOMAIN delivery :
            \E j \in DOMAIN dispatch : delivery[k].by = j /\ delivery[k].to \in served(j)
      /\ \A g \in served(i) : \E k \in DOMAIN delivery : delivery[k].by = i /\ delivery[k].to = g
      /\ \A k, l \in DOMAIN delivery :
            delivery[k].by = delivery[l].by /\ delivery[k].to = delivery[l].to => k = l
  BY DEF HookInv, LogTells
<1>2. attempts(i, h) # {} <=> h \in served(i)
  BY <1>1 DEF attempts
<1>3. Cardinality(attempts(i, h)) <= 1
  <2>1. CASE attempts(i, h) = {}
    BY <2>1, FS_EmptySet
  <2>2. CASE attempts(i, h) # {}
    <3>1. PICK k \in attempts(i, h) : TRUE
      BY <2>2
    <3>2. \A l \in attempts(i, h) : l = k
      BY <1>1, <3>1 DEF attempts
    <3>3. attempts(i, h) = {k}
      BY <3>1, <3>2
    <3>4. Cardinality({k}) = 1
      BY FS_Singleton
    <3>5. QED
      BY <3>3, <3>4
  <2>3. QED
    BY <2>1, <2>2
<1>4. QED
  BY <1>2, <1>3

\* A hook that asked for what happened gets one attempt of the dispatch and nobody else
\* gets any, for every order of sends, failures, deletions and restarts.
THEOREM MatchesAreTried == HookSpec => []EachMatchIsTried
<1>1. ASSUME HookInv PROVE EachMatchIsTried
  <2>1. SUFFICES ASSUME NEW i \in DOMAIN dispatch, NEW h \in Hooks
                 PROVE  LET d == dispatch[i]
                        IN  /\ Cardinality(attempts(i, h)) <= 1
                            /\ attempts(i, h) # {} => matches(hook[h].sub, d.kind, d.move)
                            /\ complete(d) /\ h \in d.hooks
                                  => (attempts(i, h) # {} <=> matches(hook[h].sub, d.kind, d.move))
                            /\ d.pc = "thrown" => d.current \in deleted /\ attempts(i, d.current) = {}
    BY DEF EachMatchIsTried
  <2> DEFINE d == dispatch[i]
  <2>2. MatchIsDivided(i) /\ ReadIsKnown(i) /\ HookTypeOK
    BY <1>1 DEF HookInv, Sound
  <2>3. \A g \in Hooks : /\ attempts(i, g) # {} <=> g \in served(i)
                         /\ Cardinality(attempts(i, g)) <= 1
    BY <1>1, AttemptsTell
  <2>4. served(i) \subseteq wanted(i)
    BY <2>2 DEF served, MatchIsDivided
  <2>5. attempts(i, h) # {} => matches(hook[h].sub, d.kind, d.move)
    BY <2>3, <2>4 DEF wanted
  <2>6. ASSUME complete(d), h \in d.hooks, matches(hook[h].sub, d.kind, d.move)
        PROVE  attempts(i, h) # {}
    <3>1. h \in wanted(i) /\ d.pc = "sending" /\ d.queue = {}
      BY <2>6 DEF wanted, complete
    <3>2. h \in served(i)
      BY <2>2, <3>1 DEF MatchIsDivided, served
    <3>3. QED
      BY <2>3, <3>2
  <2>7. ASSUME d.pc = "thrown"
        PROVE  d.current \in deleted /\ attempts(i, d.current) = {}
    <3>1. /\ d.current \in d.queue /\ d.queue \subseteq d.matched /\ d.matched \subseteq d.hooks
          /\ ~hook[d.current].live
      BY <2>2, <2>7 DEF MatchIsDivided, wanted
    <3>2. d.current \in Hooks /\ hook[d.current] # NoHook
      BY <2>2, <3>1, DispatchTyped DEF ReadIsKnown
    <3>3. d.current \in deleted
      BY <1>1, <3>1, <3>2 DEF HookInv, DeletionsAreLogged
    <3>4. d.current \notin served(i)
      BY <3>1 DEF served
    <3>5. QED
      BY <2>3, <3>2, <3>3, <3>4
  <2>8. QED
    BY <2>3, <2>5, <2>6, <2>7
<1>2. QED
  BY <1>1, HookInvariant, PTL

\* A hook that shares a target is tried where the target pointed when the change was
\* committed or later, whatever administrators do while it is under way.
THEOREM AimsAreCurrent == HookSpec => []SendsFollowTheTarget
<1>1. ASSUME HookInv PROVE SendsFollowTheTarget
  <2>1. SUFFICES ASSUME NEW i \in DOMAIN dispatch, NEW h \in Hooks,
                        attempts(i, h) # {} \/ dispatch[i].current = h
                 PROVE  LET d == dispatch[i]
                            t == hook[h].sub.target
                        IN  IF t = Inline THEN d.aims[h] = 0
                            ELSE IF d.aims[h] # 0 THEN d.aims[h] \in d.since[t]..targetRow[t].config
                            ELSE h \in deleted
    BY DEF SendsFollowTheTarget
  <2> DEFINE d == dispatch[i]
  <2>2. MatchIsDivided(i) /\ AimsFollow(i) /\ HookTypeOK
    BY <1>1 DEF HookInv, Sound
  <2>3. h \in d.matched
    <3>1. CASE attempts(i, h) # {}
      <4>1. h \in served(i)
        BY <1>1, <3>1, AttemptsTell
      <4>2. QED
        BY <4>1 DEF served
    <3>2. CASE d.current = h
      <4>1. d.current # "none"
        BY <3>2, HookAssumption
      <4>2. QED
        BY <2>2, <3>2, <4>1 DEF MatchIsDivided
    <3>3. QED
      BY <2>1, <3>1, <3>2
  <2>4. AimedAt(i, h)
    BY <2>2, <2>3 DEF AimsFollow
  <2>5. QED
    BY <2>4 DEF AimedAt
<1>2. QED
  BY <1>1, HookInvariant, PTL

=============================================================================
