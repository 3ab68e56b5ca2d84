-------------------------- MODULE ServicePageProofs --------------------------
(***************************************************************************)
(* Theorems about ServicePage, for every set of rows, requests, services,  *)
(* environments and sessions, whatever is typed, whoever looks, and every  *)
(* bound.                                                                  *)
(*                                                                         *)
(* The page may be opened at any moment in the life of the rows, while     *)
(* others are at work on them.                                             *)
(***************************************************************************)
EXTENDS MCEventRecords, EventRecordsProofs, HookDispatchProofs, WellFoundedInduction

\* RecordsInv and NotesDated are what is true of the rows at any time (RecordsInvariant,
\* NotesAreDated).
PageSpec ==
    /\ RecordsInv
    /\ NotesDated
    /\ \E roles, linked, filter : PageOpens(roles, linked, filter)
    /\ [][PageNext]_pageVars

(***************************************************************************)
(* What a page is made of, and what its inputs hold.                       *)
(***************************************************************************)
Inputs == {"tags", "date", "hourType", "lot", "changeType", "status", "end"}

DialogKinds == {"move", "undo", "rollback"}

IsModal(m) ==
    \/ m = NoModal
    \/ m.kind \in DialogKinds /\ m = [kind |-> m.kind, to |-> m.to, from |-> m.from]

IsSent(r) ==
    \/ r = Free
    \/ r.kind = "edit" /\ r = [kind |-> r.kind, op |-> r.op, id |-> r.id, value |-> r.value, mounted |-> r.mounted]
    \/ r.kind \in DialogKinds /\ r = [kind |-> r.kind, id |-> r.id, to |-> r.to, from |-> r.from, mounted |-> r.mounted]

IsPage(q) ==
    /\ q = [roles |-> q.roles, linked |-> q.linked, filter |-> q.filter, events |-> q.events,
            lots |-> q.lots, at |-> q.at, selected |-> q.selected, draft |-> q.draft,
            modal |-> q.modal, sent |-> q.sent]
    /\ IsModal(q.modal)
    /\ IsSent(q.sent)

pairs(q, F) == {<< f, filling(q)[f] >> : f \in F}

\* No input holds what is not in K, and tags on their way come back to the inputs they
\* were taken from.
DrawerHolds(q, K) ==
    /\ IF drawerOf(q) = NoText THEN q.draft = NoDraft
       ELSE /\ q.draft = [f \in Inputs |-> q.draft[f]]
            /\ \A f \in Inputs : << f, q.draft[f] >> \in K
    /\ q.sent.kind = "edit" /\ q.sent.op = "tags" /\ q.sent.mounted =>
          drawerOf(q) # NoText /\ << "tags", q.sent.value >> \in K

\* The request that is on its way, and the dialog that is open, if there is one still.
SameRequest(s, t) ==
    /\ t.kind = s.kind
    /\ s.kind \in DialogKinds => t.id = s.id /\ t.to = s.to /\ t.from = s.from

Carries(p, q) ==
    /\ q.modal = NoModal \/ (q.modal = p.modal /\ drawerOf(q) = drawerOf(p))
    /\ SameRequest(p.sent, q.sent)

\* What the inputs of q may hold, if those of p may hold K.
heldOn(p, q, K) == (IF drawerOf(q) = drawerOf(p) THEN K ELSE {}) \cup pairs(q, refilled(p, q))

PageInv == IsPage(pane) /\ DrawerHolds(pane, known)

-------------------------------------------------------------------------------
LEMMA FillingIs ==
    ASSUME NEW q
    PROVE  /\ drawerOf(q) = NoText => filling(q) = NoDraft
           /\ drawerOf(q) # NoText => filling(q) = [f \in Inputs |-> filling(q)[f]]
  BY DEF filling, filledFrom, Inputs

LEMMA SameDrawing ==
    ASSUME NEW p, NEW q, p.events = q.events, drawerOf(p) = drawerOf(q)
    PROVE  /\ filling(p) = filling(q)
           /\ ~turned(p, q)
           /\ \A r : turned(r, p) = turned(r, q) /\ refilled(r, p) = refilled(r, q)
<1>1. \A i : eventOf(p, i) = eventOf(q, i)
  BY DEF eventOf
<1>2. filling(p) = filling(q)
  BY <1>1 DEF filling
<1>3. \A r : turned(r, p) = turned(r, q)
  BY <1>1 DEF turned
<1>4. \A r : refilled(r, p) = refilled(r, q)
  BY <1>2, <1>3 DEF refilled
<1>5. QED
  BY <1>1, <1>2, <1>3, <1>4 DEF turned

\* Inputs that are mounted are filled, and those that stay hold what they held.
LEMMA Remounted ==
    ASSUME NEW K, NEW p, IsPage(p), DrawerHolds(p, K),
           NEW q, IsPage(q), q.draft = p.draft, q.sent = p.sent
    PROVE  LET r == remounted(p, q)
           IN  /\ IsPage(r)
               /\ r.events = q.events /\ r.selected = q.selected /\ r.linked = q.linked /\ r.roles = q.roles
               /\ drawerOf(r) = drawerOf(q)
               /\ DrawerHolds(r, heldOn(p, r, K))
               /\ drawerOf(r) # drawerOf(p) => r.draft = filling(r) /\ ~r.sent.mounted
               /\ SameRequest(p.sent, r.sent)
               /\ r.modal = NoModal \/ (r.modal = q.modal /\ drawerOf(r) = drawerOf(p))
<1>1. PICK r : r = remounted(p, q)
  OBVIOUS
<1>2. CASE drawerOf(p) = drawerOf(q) /\ ~turned(p, q)
  <2>1. r = q
    BY <1>1, <1>2 DEF remounted
  <2>2. K \subseteq heldOn(p, r, K)
    BY <1>2, <2>1 DEF heldOn
  <2>3. DrawerHolds(r, heldOn(p, r, K))
    BY <1>2, <2>1, <2>2 DEF DrawerHolds
  <2>4. QED
    BY <1>1, <1>2, <2>1, <2>3 DEF SameRequest
<1>3. CASE ~(drawerOf(p) = drawerOf(q) /\ ~turned(p, q))
  <2> DEFINE draft == [f \in DOMAIN filling(q) |-> IF f \in refilled(p, q) THEN filling(q)[f] ELSE q.draft[f]]
  <2>1. r = [q EXCEPT !.draft = draft, !.modal = NoModal, !.sent.mounted = FALSE]
    BY <1>1, <1>3 DEF remounted
  <2>2. r = [roles |-> q.roles, linked |-> q.linked, filter |-> q.filter, events |-> q.events,
             lots |-> q.lots, at |-> q.at, selected |-> q.selected, draft |-> draft,
             modal |-> NoModal, sent |-> [q.sent EXCEPT !.mounted = FALSE]]
    BY <2>1 DEF IsPage
  <2>3. /\ IsSent(r.sent) /\ ~r.sent.mounted /\ SameRequest(q.sent, r.sent)
    <3>1. PICK s, t : s = q.sent /\ t = [s EXCEPT !.mounted = FALSE]
      OBVIOUS
    <3>2. IsSent(s) /\ r.sent = t
      BY <2>2, <3>1 DEF IsPage
    <3>3. CASE s = Free
      <4>0. s = [kind |-> s.kind, mounted |-> s.mounted] /\ s.kind = "free"
        BY <3>3 DEF Free
      <4>1. t = Free
        BY <3>1, <4>0 DEF Free
      <4>2. ~t.mounted /\ t.kind = s.kind
        BY <3>3, <4>1 DEF Free
      <4>3. QED
        BY <3>1, <3>2, <4>0, <4>1, <4>2 DEF IsSent, SameRequest, DialogKinds
    <3>4. CASE s.kind = "edit" /\ s = [kind |-> s.kind, op |-> s.op, id |-> s.id, value |-> s.value, mounted |-> s.mounted]
      <4>1. t = [kind |-> s.kind, op |-> s.op, id |-> s.id, value |-> s.value, mounted |-> FALSE]
        BY <3>1, <3>4
      <4>2. QED
        BY <3>1, <3>2, <3>4, <4>1 DEF IsSent, SameRequest, DialogKinds
    <3>5. CASE s.kind \in DialogKinds /\ s = [kind |-> s.kind, id |-> s.id, to |-> s.to, from |-> s.from, mounted |-> s.mounted]
      <4>1. t = [kind |-> s.kind, id |-> s.id, to |-> s.to, from |-> s.from, mounted |-> FALSE]
        BY <3>1, <3>5
      <4>2. QED
        BY <3>1, <3>2, <3>5, <4>1 DEF IsSent, SameRequest
    <3>6. \/ s = Free
          \/ s.kind = "edit" /\ s = [kind |-> s.kind, op |-> s.op, id |-> s.id, value |-> s.value, mounted |-> s.mounted]
          \/ s.kind \in DialogKinds /\ s = [kind |-> s.kind, id |-> s.id, to |-> s.to, from |-> s.from, mounted |-> s.mounted]
      BY <3>2 DEF IsSent
    <3>7. QED
      BY <3>3, <3>4, <3>5, <3>6
  <2>4. IsPage(r)
    BY <2>2, <2>3 DEF IsPage, IsModal
  <2>5. drawerOf(r) = drawerOf(q)
    BY <2>2 DEF drawerOf, ids
  <2>6. filling(r) = filling(q) /\ refilled(p, r) = refilled(p, q)
    BY <2>2, <2>5, SameDrawing
  <2>7. drawerOf(q) # drawerOf(p) => draft = filling(q)
    <3>1. CASE drawerOf(q) = NoText
      BY <3>1, FillingIs DEF refilled, NoDraft
    <3>2. CASE drawerOf(q) # NoText
      BY <3>2, FillingIs DEF refilled
    <3>3. QED
      BY <3>1, <3>2
  <2>8. DrawerHolds(r, heldOn(p, r, K))
    <3>1. CASE drawerOf(r) = NoText
      <4>1. drawerOf(q) # drawerOf(p)
        BY <1>3, <2>5, <3>1 DEF turned
      <4>2. r.draft = NoDraft
        BY <2>2, <2>5, <2>7, <3>1, <4>1, FillingIs
      <4>3. QED
        BY <2>3, <3>1, <4>2 DEF DrawerHolds
    <3>2. CASE drawerOf(r) # NoText
      <4>1. draft = [f \in Inputs |-> draft[f]]
        BY <2>5, <3>2, FillingIs
      <4>2. ASSUME NEW f \in Inputs PROVE << f, draft[f] >> \in heldOn(p, r, K)
        <5>1. CASE f \in refilled(p, q)
          BY <2>5, <2>6, <3>2, <5>1, FillingIs DEF heldOn, pairs
        <5>2. CASE f \notin refilled(p, q)
          <6>1. drawerOf(q) = drawerOf(p) /\ draft[f] = p.draft[f]
            BY <2>5, <3>2, <5>2, FillingIs DEF refilled
          <6>2. << f, p.draft[f] >> \in K
            BY <2>5, <3>2, <6>1 DEF DrawerHolds
          <6>3. QED
            BY <2>5, <6>1, <6>2 DEF heldOn
        <5>3. QED
          BY <5>1, <5>2
      <4>3. QED
        BY <2>2, <2>3, <3>2, <4>1, <4>2 DEF DrawerHolds
    <3>3. QED
      BY <3>1, <3>2
  <2>9. QED
    BY <1>1, <2>2, <2>3, <2>4, <2>5, <2>6, <2>7, <2>8
<1>4. QED
  BY <1>2, <1>3
\* The page as q is what steps from p made of it.
Follows(p, q, K) == IsPage(q) /\ DrawerHolds(q, heldOn(p, q, K)) /\ q.roles = p.roles /\ q.linked = p.linked

LEMMA Opened ==
    ASSUME NEW K, NEW p, NEW q, Follows(p, q, K), NEW i,
           \/ i = NoText
           \/ i \in ids(q) /\ i # drawerOf(p)
           \/ drawerOf(q) = drawerOf(p)
    PROVE  LET r == opened(q, i)
           IN  Follows(p, r, K) /\ r.events = q.events /\ Carries(q, r)
<1>1. PICK c : c = [q EXCEPT !.selected = i]
  OBVIOUS
<1>2. PICK r : r = opened(q, i)
  OBVIOUS
<1>3. r = remounted(q, c)
  BY <1>1, <1>2 DEF opened
<1>4. c = [roles |-> q.roles, linked |-> q.linked, filter |-> q.filter, events |-> q.events,
           lots |-> q.lots, at |-> q.at, selected |-> i, draft |-> q.draft,
           modal |-> q.modal, sent |-> q.sent]
  BY <1>1 DEF Follows, IsPage
<1>5. IsPage(c) /\ c.draft = q.draft /\ c.sent = q.sent /\ c.events = q.events
  BY <1>4 DEF Follows, IsPage
<1>6. PICK H : H = heldOn(p, q, K)
  OBVIOUS
<1>7. IsPage(q) /\ DrawerHolds(q, H)
  BY <1>6 DEF Follows
<1>8. /\ IsPage(r) /\ r.events = q.events /\ r.linked = q.linked /\ r.roles = q.roles
      /\ Carries(q, r)
      /\ DrawerHolds(r, heldOn(q, r, H))
      /\ drawerOf(r) = drawerOf(c)
      /\ drawerOf(r) # drawerOf(q) => r.draft = filling(r) /\ ~r.sent.mounted
  BY <1>3, <1>4, <1>5, <1>7, Remounted DEF Carries
<1>9. CASE drawerOf(r) = drawerOf(q)
  <2>1. /\ filling(r) = filling(q) /\ ~turned(q, r)
        /\ refilled(p, r) = refilled(p, q)
    BY <1>8, <1>9, SameDrawing
  <2>2. refilled(q, r) = {}
    BY <1>9, <2>1 DEF refilled
  <2>3. heldOn(q, r, H) = H /\ heldOn(p, r, K) = H
    BY <1>6, <1>9, <2>1, <2>2 DEF heldOn, pairs
  <2>4. QED
    BY <1>2, <1>8, <2>3 DEF Follows
<1>10. CASE drawerOf(r) # drawerOf(q) /\ drawerOf(r) = NoText
  <2>1. r.draft = NoDraft /\ ~r.sent.mounted
    BY <1>8, <1>10, FillingIs
  <2>2. QED
    BY <1>2, <1>8, <1>10, <2>1 DEF Follows, DrawerHolds
<1>11. CASE drawerOf(r) # drawerOf(q) /\ drawerOf(r) # NoText
  <2>1. drawerOf(r) = i /\ i # NoText
    BY <1>4, <1>8, <1>11 DEF drawerOf, ids
  <2>2. drawerOf(r) # drawerOf(p)
    BY <1>11, <2>1
  <2>3. r.draft = filling(r) /\ ~r.sent.mounted /\ filling(r) = [f \in Inputs |-> filling(r)[f]]
    BY <1>8, <1>11, FillingIs
  <2>4. refilled(p, r) = Inputs
    BY <2>2, <2>3 DEF refilled
  <2>5. \A f \in Inputs : << f, r.draft[f] >> \in heldOn(p, r, K)
    BY <2>3, <2>4 DEF heldOn, pairs
  <2>6. QED
    BY <1>2, <1>8, <1>11, <2>3, <2>5 DEF Follows, DrawerHolds
<1>12. QED
  BY <1>9, <1>10, <1>11

LEMMA Refreshed ==
    ASSUME NEW K, NEW p, IsPage(p), DrawerHolds(p, K), NEW R, NEW N
    PROVE  LET r == refreshed(p, R, N)
           IN  /\ Follows(p, r, K)
               /\ r.events = listServiceEvents(R, N, p.roles)
               /\ Carries(p, r)
<1>1. PICK events, lots : events = listServiceEvents(R, N, p.roles) /\ lots = lotsOf(R, N, events)
  OBVIOUS
<1>2. PICK c : c = [p EXCEPT !.events = events, !.lots = lots, !.at = clock]
  OBVIOUS
<1>3. c = [roles |-> p.roles, linked |-> p.linked, filter |-> p.filter, events |-> events,
           lots |-> lots, at |-> clock, selected |-> p.selected, draft |-> p.draft,
           modal |-> p.modal, sent |-> p.sent]
  BY <1>2 DEF IsPage
<1>4. IsPage(c) /\ c.draft = p.draft /\ c.sent = p.sent
  BY <1>3 DEF IsPage
<1>5. PICK q : q = remounted(p, c)
  OBVIOUS
<1>6. /\ IsPage(q) /\ q.events = events /\ q.selected = p.selected /\ q.linked = p.linked /\ q.roles = p.roles
      /\ Carries(p, q)
      /\ DrawerHolds(q, heldOn(p, q, K))
      /\ drawerOf(q) # drawerOf(p) => q.draft = filling(q) /\ ~q.sent.mounted
  BY <1>3, <1>4, <1>5, Remounted DEF Carries
<1>7. PICK r : r = refreshed(p, R, N)
  OBVIOUS
<1>8. r = IF p.linked \in ids(q) THEN opened(q, p.linked) ELSE q
  BY <1>1, <1>2, <1>5, <1>7 DEF refreshed
<1>9. CASE p.linked \notin ids(q)
  BY <1>1, <1>6, <1>7, <1>8, <1>9 DEF Follows
<1>10. CASE p.linked \in ids(q)
  <2>1. Follows(p, q, K)
    BY <1>6 DEF Follows
  <2>2. \/ drawerOf(q) = drawerOf(p)
        \/ p.linked # drawerOf(p)
        \/ p.linked = NoText
    BY <1>6, <1>10 DEF drawerOf
  <2>3. r = opened(q, p.linked)
    BY <1>8, <1>10
  <2>4. Follows(p, r, K) /\ r.events = q.events /\ Carries(q, r)
    BY <1>6, <1>10, <2>1, <2>2, <2>3, Opened
  <2>5. Carries(p, r)
    BY <1>6, <2>4 DEF Carries, SameRequest
  <2>6. QED
    BY <1>1, <1>6, <1>7, <2>4, <2>5
<1>11. QED
  BY <1>9, <1>10

\* The inputs are kept, as the page becomes what steps made of it.
LEMMA Becomes ==
    ASSUME NEW q, Follows(pane, q, known), becomes(q)
    PROVE  PageInv'
<1>1. pane' = q /\ known' = heldOn(pane, q, known)
  BY DEF becomes, heldOn, pairs
<1>2. PICK K : K = heldOn(pane, q, known)
  OBVIOUS
<1>3. DrawerHolds(q, K)
  BY <1>2 DEF Follows
<1>4. DrawerHolds(pane, known)'
  BY <1>1, <1>2, <1>3 DEF DrawerHolds, drawerOf, ids
<1>5. IsPage(pane)'
  BY <1>1 DEF Follows, IsPage, IsModal, IsSent
<1>6. QED
  BY <1>4, <1>5 DEF PageInv

\* A page that changes, but for what its drawer shows.
LEMMA SameDrawer ==
    ASSUME NEW K, NEW p, NEW q, IsPage(q), q.events = p.events, drawerOf(q) = drawerOf(p),
           DrawerHolds(q, K), q.roles = p.roles, q.linked = p.linked
    PROVE  Follows(p, q, K) /\ heldOn(p, q, K) = K
<1>1. ~turned(p, q)
  BY SameDrawing DEF turned
<1>2. refilled(p, q) = {}
  BY <1>1 DEF refilled
<1>3. heldOn(p, q, K) = K
  BY <1>2 DEF heldOn, pairs
<1>4. QED
  BY <1>3 DEF Follows

\* A page that stays, with its inputs as they were.
with(p, modal, sent) == [p EXCEPT !.modal = modal, !.sent = sent]

LEMMA WithIs ==
    ASSUME NEW p, IsPage(p), NEW modal, NEW sent
    PROVE  LET q == with(p, modal, sent)
           IN  /\ q = [roles |-> p.roles, linked |-> p.linked, filter |-> p.filter, events |-> p.events,
                       lots |-> p.lots, at |-> p.at, selected |-> p.selected, draft |-> p.draft,
                       modal |-> modal, sent |-> sent]
               /\ q.events = p.events /\ q.draft = p.draft /\ q.roles = p.roles /\ q.linked = p.linked
               /\ q.modal = modal /\ q.sent = sent
               /\ drawerOf(q) = drawerOf(p)
<1>1. PICK q : q = with(p, modal, sent)
  OBVIOUS
<1>2. q = [roles |-> p.roles, linked |-> p.linked, filter |-> p.filter, events |-> p.events,
           lots |-> p.lots, at |-> p.at, selected |-> p.selected, draft |-> p.draft,
           modal |-> modal, sent |-> sent]
  BY <1>1 DEF IsPage, with
<1>3. drawerOf(q) = drawerOf(p)
  BY <1>2 DEF drawerOf, ids
<1>4. QED
  BY <1>1, <1>2, <1>3

LEMMA Staying ==
    ASSUME NEW K, NEW p, IsPage(p), DrawerHolds(p, K),
           NEW modal, IsModal(modal), NEW sent, IsSent(sent),
           sent.kind = "edit" /\ sent.op = "tags" /\ sent.mounted =>
              \/ sent = p.sent
              \/ drawerOf(p) # NoText /\ << "tags", sent.value >> \in K
    PROVE  Follows(p, with(p, modal, sent), K) /\ DrawerHolds(with(p, modal, sent), K)
<1>1. PICK q : q = with(p, modal, sent)
  OBVIOUS
<1>2. /\ q = [roles |-> p.roles, linked |-> p.linked, filter |-> p.filter, events |-> p.events,
              lots |-> p.lots, at |-> p.at, selected |-> p.selected, draft |-> p.draft,
              modal |-> modal, sent |-> sent]
      /\ drawerOf(q) = drawerOf(p)
  BY <1>1, WithIs
<1>3. IsPage(q)
  BY <1>2 DEF IsPage
<1>4. DrawerHolds(q, K)
  BY <1>2 DEF DrawerHolds
<1>5. QED
  BY <1>1, <1>2, <1>3, <1>4, SameDrawer

-------------------------------------------------------------------------------
(***************************************************************************)
(* What the page has of the rows: copies, as old as its last refresh.  An  *)
(* event stays, and so does a status, if not the one that is shown.        *)
(***************************************************************************)
Copied(events, R) ==
    \A e \in ToSet(events) :
        /\ e.id \in DOMAIN R /\ R[e.id].type # NoText
        /\ e.occurredAt \in Nat /\ e.resolvedAt \in Nat
        /\ e.deployStatus \in Statuses \cup {NoText}
        /\ e.incidentStatus \in IncidentStatuses \cup {NoText}
        /\ e.deployStatus # NoText => R[e.id].deployStatus # NoText

\* Dates are compared, so there is an oldest.
LEMMA Oldest ==
    ASSUME NEW R, NEW I, I # {}, \A i \in I : R[i].occurredAt \in Nat
    PROVE  \E j \in I : \A i \in I : R[i].occurredAt >= R[j].occurredAt
<1>1. PICK D : D = {R[i].occurredAt : i \in I}
  OBVIOUS
<1>2. D \subseteq Nat /\ D # {}
  BY <1>1
<1>3. PICK d \in D : \A e \in D : << e, d >> \notin OpToRel(<, Nat)
  BY <1>2, NatLessThanWellFounded, WFMin
<1>4. \A e \in D : e >= d
  <2>1. \A e \in D : ~(e < d) /\ e \in Nat /\ d \in Nat
    BY <1>2, <1>3 DEF OpToRel
  <2>2. QED
    BY <2>1
<1>5. PICK j \in I : R[j].occurredAt = d
  BY <1>1
<1>6. QED
  BY <1>1, <1>4, <1>5

\* Rows can be put in order, the newest first.
LEMMA Sorted ==
    ASSUME NEW R, NEW S, IsFiniteSet(S), \A i \in S : R[i].occurredAt \in Nat,
           NEW I, I \subseteq S
    PROVE  \E q \in [1..Cardinality(I) -> I] : newestOrder(q, R)
<1> DEFINE Hard(J) == \A q \in [1..Cardinality(J) -> J] : ~newestOrder(q, R)
<1>1. SUFFICES ASSUME Hard(I) PROVE FALSE
  OBVIOUS
<1>2. \A J \in SUBSET S : IsFiniteSet(J) /\ Cardinality(J) \in Nat
  BY FS_Subset, FS_CardinalityType
<1>3. PICK T : T = {Cardinality(J) : J \in {K \in SUBSET S : Hard(K)}}
  OBVIOUS
<1>4. T \subseteq Nat /\ T # {}
  BY <1>1, <1>2, <1>3
<1>5. PICK n \in T : \A m \in T : << m, n >> \notin OpToRel(<, Nat)
  BY <1>4, NatLessThanWellFounded, WFMin
<1>6. PICK J \in SUBSET S : Hard(J) /\ Cardinality(J) = n
  BY <1>3, <1>5
<1>7. n \in Nat /\ \A m \in T : m \in Nat /\ ~(m < n)
  BY <1>4, <1>5 DEF OpToRel
<1>8. CASE n = 0
  <2>1. 1..Cardinality(J) = {}
    BY <1>6, <1>8
  <2>2. PICK q : q = [k \in 1..Cardinality(J) |-> k]
    OBVIOUS
  <2>3. q \in [1..Cardinality(J) -> J] /\ DOMAIN q = {}
    BY <2>1, <2>2
  <2>4. newestOrder(q, R)
    BY <2>3 DEF newestOrder
  <2>5. QED
    BY <1>6, <2>3, <2>4
<1>9. CASE n # 0
  <2>1. J # {}
    BY <1>2, <1>6, <1>9, FS_EmptySet
  <2>2. PICK j \in J : \A i \in J : R[i].occurredAt >= R[j].occurredAt
    BY <2>1, Oldest
  <2>3. PICK K : K = J \ {j}
    OBVIOUS
  <2>4. K \in SUBSET S /\ Cardinality(K) = n - 1
    BY <1>2, <1>6, <2>2, <2>3, FS_RemoveElement
  <2>5. PICK p \in [1..(n - 1) -> K] : newestOrder(p, R)
    <3>1. n - 1 \notin T
      BY <1>7, <1>9
    <3>2. ~Hard(K)
      BY <1>3, <2>4, <3>1
    <3>3. QED
      BY <2>4, <3>2
  <2>6. PICK q : q = [k \in 1..n |-> IF k = n THEN j ELSE p[k]]
    OBVIOUS
  <2>7. \A k \in 1..n : q[k] = (IF k = n THEN j ELSE p[k]) /\ (k # n => k \in 1..(n - 1) /\ p[k] \in K)
    BY <1>7, <2>5, <2>6
  <2>8. q \in [1..n -> J]
    BY <2>3, <2>6, <2>7
  <2>9. ASSUME NEW k \in 1..n, NEW l \in 1..n, k < l
        PROVE  q[k] # q[l] /\ R[q[k]].occurredAt >= R[q[l]].occurredAt
    <3>1. k # n /\ k \in 1..(n - 1)
      BY <1>7, <2>9
    <3>2. CASE l = n
      BY <2>2, <2>3, <2>7, <3>1, <3>2
    <3>3. CASE l # n
      <4>1. l \in 1..(n - 1) /\ DOMAIN p = 1..(n - 1)
        BY <2>5, <2>7, <3>3
      <4>2. p[k] # p[l] /\ R[p[k]].occurredAt >= R[p[l]].occurredAt
        BY <2>5, <2>9, <3>1, <4>1 DEF newestOrder
      <4>3. QED
        BY <2>7, <3>1, <3>3, <4>2
    <3>4. QED
      BY <3>2, <3>3
  <2>10. newestOrder(q, R)
    BY <2>6, <2>9 DEF newestOrder
  <2>11. QED
    BY <1>6, <2>8, <2>10
<1>10. QED
  BY <1>8, <1>9

\* A list is of the rows, as they are.
LEMMA ListTold ==
    ASSUME NEW R, DOMAIN R = AllIds, \A i \in AllIds : Shaped(R[i]), NEW N, NEW roles
    PROVE  Copied(listServiceEvents(R, N, roles), R)
<1>1. PICK I : I = {i \in DOMAIN R : /\ R[i].type # NoText
                                    /\ R[i].service = Service
                                    /\ shownTo(roles, R[i])}
  OBVIOUS
<1>2. IsFiniteSet(AllIds)
  <2>1. Len(Ids) \in 0..Len(Ids) /\ DOMAIN Ids = 1..Len(Ids)
    BY RecordsAssumption
  <2>2. QED
    BY <2>1, FirstIds DEF AllIds
<1>3. \A i \in AllIds : R[i].occurredAt \in Nat /\ R[i].resolvedAt \in Nat
  BY DEF Shaped, DateColumns
<1>4. PICK order : order = CHOOSE q \in [1..Cardinality(I) -> I] : newestOrder(q, R)
  OBVIOUS
<1>5. order \in [1..Cardinality(I) -> I]
  <2>1. \E q \in [1..Cardinality(I) -> I] : newestOrder(q, R)
    BY <1>1, <1>2, <1>3, Sorted
  <2>2. QED
    BY <1>4, <2>1
<1>6. PICK events : events = listServiceEvents(R, N, roles)
  OBVIOUS
<1>7. events = [n \in 1..Cardinality(I) |-> toClientEvent(order[n], R[order[n]], N[order[n]], clock)]
  BY <1>1, <1>4, <1>6 DEF listServiceEvents, newest
<1>8. ASSUME NEW i \in I, NEW n
      PROVE  LET e == toClientEvent(i, R[i], n, clock)
             IN  /\ e.id = i
                 /\ e.occurredAt = R[i].occurredAt /\ e.resolvedAt = R[i].resolvedAt
                 /\ e.deployStatus = R[i].deployStatus /\ e.incidentStatus = R[i].incidentStatus
  <2>1. PICK r, d : /\ r = R[i]
                    /\ d = [id |-> i, derived |-> deriveFor(r, clock),
                            rollbacks |-> {x.at : x \in {m \in n : m.kind = "rollback"}},
                            statusTransitions |-> {x \in n : x.kind = "status"}]
    OBVIOUS
  <2>2. DOMAIN r = ALL_COLUMNS
    BY <1>1, <2>1 DEF Shaped
  <2>3. DOMAIN d = {"id", "derived", "rollbacks", "statusTransitions"} /\ d.id = i
    BY <2>1
  <2>4. PICK e : e = toClientEvent(i, r, n, clock)
    OBVIOUS
  <2>5. e = onto(d, r)
    BY <2>1, <2>4 DEF toClientEvent
  <2>6. (\A c \in DOMAIN d : e[c] = d[c]) /\ (\A c \in DOMAIN r \ DOMAIN d : e[c] = r[c])
    <3>1. (\A c \in DOMAIN d : onto(d, r)[c] = d[c]) /\ (\A c \in DOMAIN r \ DOMAIN d : onto(d, r)[c] = r[c])
      BY OntoIs
    <3>2. QED
      BY <2>5, <3>1
  <2>7. \A c \in ALL_COLUMNS \ {"id", "derived", "rollbacks", "statusTransitions"} : e[c] = r[c]
    BY <2>2, <2>3, <2>6
  <2>8. {"occurredAt", "resolvedAt", "deployStatus", "incidentStatus"} \subseteq
           ALL_COLUMNS \ {"id", "derived", "rollbacks", "statusTransitions"}
    BY DEF ALL_COLUMNS, TextColumns, DateColumns
  <2>9. QED
    BY <2>1, <2>3, <2>4, <2>6, <2>7, <2>8
<1>9. \A e \in ToSet(events) : \E i \in I : \E n : e = toClientEvent(i, R[i], n, clock)
  BY <1>5, <1>7 DEF ToSet
<1>10. ASSUME NEW e \in ToSet(events)
       PROVE  /\ e.id \in DOMAIN R /\ R[e.id].type # NoText
              /\ e.occurredAt \in Nat /\ e.resolvedAt \in Nat
              /\ e.deployStatus \in Statuses \cup {NoText}
              /\ e.incidentStatus \in IncidentStatuses \cup {NoText}
              /\ e.deployStatus # NoText => R[e.id].deployStatus # NoText
  <2>1. PICK i \in I : \E n : e = toClientEvent(i, R[i], n, clock)
    BY <1>9
  <2>2. PICK n : e = toClientEvent(i, R[i], n, clock)
    BY <2>1
  <2>3. /\ e.id = i
        /\ e.occurredAt = R[i].occurredAt /\ e.resolvedAt = R[i].resolvedAt
        /\ e.deployStatus = R[i].deployStatus /\ e.incidentStatus = R[i].incidentStatus
    BY <1>8, <2>2
  <2>4. i \in DOMAIN R /\ R[i].type # NoText /\ Shaped(R[i])
    BY <1>1
  <2>5. QED
    BY <1>3, <2>3, <2>4 DEF Shaped
<1>11. QED
  BY <1>6, <1>10 DEF Copied

(***************************************************************************)
(* The invariant.                                                          *)
(***************************************************************************)
KnownTyped == \A x \in known : isInput(x[1], x[2])

\* A move that was offered is the next of a status that the event had; and it has one
\* since.
MoveOf(i, from, to) ==
    /\ i \in live
    /\ to \in Statuses
    /\ IF from = NoStatus THEN to = "SCHEDULED"
       ELSE from \in Statuses /\ nextStatus(from) = to /\ rows[i].deployStatus # NoText

MovesInv ==
    /\ pane.modal.kind = "move" => MoveOf(drawerOf(pane), pane.modal.from, pane.modal.to)
    /\ pane.sent.kind = "move" => MoveOf(pane.sent.id, pane.sent.from, pane.sent.to)

ServicePageInv == RecordsInv /\ PageInv /\ Copied(pane.events, rows) /\ KnownTyped /\ MovesInv

LEMMA CopiesStay ==
    ASSUME RecordsInv, RecordsInv', Steady, NEW events, Copied(events, rows)
    PROVE  Copied(events, rows')
<1>1. DOMAIN rows = AllIds /\ DOMAIN rows' = AllIds
  BY DEF RecordsInv, TypesInv, RowsTyped
<1>2. /\ live = {i \in AllIds : rows[i].type # NoText}
      /\ live' = {i \in AllIds : rows'[i].type # NoText}
  BY <1>1 DEF live
<1>3. live \subseteq live' /\ \A i \in live : rows[i].deployStatus # NoText => rows'[i].deployStatus # NoText
  BY DEF Steady
<1>4. QED
  BY <1>1, <1>2, <1>3 DEF Copied

LEMMA MovesStay ==
    ASSUME Steady, NEW i, NEW from, NEW to, MoveOf(i, from, to)
    PROVE  MoveOf(i, from, to)'
  BY DEF MoveOf, Steady

LEMMA ShownIs ==
    ASSUME NEW q, drawerOf(q) # NoText
    PROVE  LET e == eventOf(q, drawerOf(q))
           IN  e \in ToSet(q.events) /\ e.id = drawerOf(q)
<1>1. drawerOf(q) \in ids(q)
  BY DEF drawerOf
<1>2. \E e \in ToSet(q.events) : e.id = drawerOf(q)
  BY <1>1 DEF ids
<1>3. QED
  BY <1>2 DEF eventOf

\* What inputs are filled with is of their kind.
LEMMA Filled ==
    ASSUME NEW p, NEW q, NEW R, Copied(q.events, R), NEW x \in pairs(q, refilled(p, q))
    PROVE  isInput(x[1], x[2])
<1>1. PICK f \in refilled(p, q) : x = << f, filling(q)[f] >>
  BY DEF pairs
<1>2. CASE drawerOf(q) = NoText
  <2>1. f = "none"
    BY <1>1, <1>2, FillingIs DEF refilled, turned, NoDraft
  <2>2. QED
    BY <1>1, <2>1 DEF isInput
<1>3. CASE drawerOf(q) # NoText
  <2>1. PICK e \in ToSet(q.events) : e = eventOf(q, drawerOf(q))
    BY <1>3, ShownIs
  <2>2. filling(q) = filledFrom(e)
    BY <1>3, <2>1 DEF filling
  <2>3. /\ filledFrom(e).date = e.occurredAt
        /\ filledFrom(e).end = e.resolvedAt
        /\ filledFrom(e).status = orElse(e.incidentStatus,
                                      IF e.resolvedAt = NoDate THEN "INVESTIGATING" ELSE "RESOLVED")
    BY DEF filledFrom
  <2>4. filledFrom(e).date \in Nat /\ filledFrom(e).end \in Nat
    BY <2>1, <2>3 DEF Copied
  <2>5. filledFrom(e).status \in IncidentStatuses
    BY <2>1, <2>3 DEF Copied, orElse, IncidentStatuses
  <2>6. QED
    BY <1>1, <2>2, <2>4, <2>5 DEF isInput
<1>4. QED
  BY <1>2, <1>3

\* What the two properties ask of a step.
SaveIsItsOwn ==
    pane.sent.kind = "free" /\ pane'.sent.kind = "edit" =>
        LET v == pane'.sent.value
        IN  /\ pane'.sent.id = drawerOf(pane')
            /\ IF pane'.sent.op # "incident" THEN << pane'.sent.op, v >> \in known'
               ELSE /\ << "status", v.status >> \in known'
                    /\ v.resolvedAt \in {NoDate, clock} \/ << "end", v.resolvedAt >> \in known'

MoveIsItsOwn ==
    pane.sent.kind = "move" /\ pane'.sent.kind = "free" =>
        LET sent == pane.sent
            at == statusOf(rows[sent.id])
        IN  IF rows'[sent.id] # rows[sent.id]
            THEN at = sent.from /\ rows'[sent.id].deployStatus = sent.to
            ELSE ~allowed(sent) \/ sent.id \notin deployments \/ at # sent.from \/ at = NoStatus

\* The page turns: what is on its way goes on, or is answered.
LEMMA Turns ==
    ASSUME ServicePageInv, RecordsInv', Steady,
           NEW q, Follows(pane, q, known), becomes(q),
           q.modal = NoModal \/ (q.modal = pane.modal /\ drawerOf(q) = drawerOf(pane)),
           q.sent.kind = "free" \/ SameRequest(pane.sent, q.sent),
           q.events = pane.events \/ Copied(q.events, rows')
    PROVE  /\ ServicePageInv'
           /\ SaveIsItsOwn
           /\ pane' = q
<1>1. pane' = q /\ known' = heldOn(pane, q, known) /\ drawerOf(pane)' = drawerOf(q)
  BY DEF becomes, heldOn, pairs, drawerOf, ids
<1>2. PageInv'
  BY Becomes
<1>3. Copied(q.events, rows')
  BY CopiesStay DEF ServicePageInv
<1>4. Copied(pane.events, rows)'
  BY <1>1, <1>3 DEF Copied
<1>5. KnownTyped'
  <2>1. \A x \in known' : x \in known \/ x \in pairs(q, refilled(pane, q))
    BY <1>1 DEF heldOn
  <2>2. \A x \in pairs(q, refilled(pane, q)) : isInput(x[1], x[2])
    BY <1>3, Filled
  <2>3. QED
    BY <2>1, <2>2 DEF ServicePageInv, KnownTyped
<1>6. NoModal.kind # "move" /\ Free.kind = "free"
  BY DEF NoModal, Free
<1>7. MovesInv'
  <2>1. ASSUME q.modal.kind = "move" PROVE MoveOf(drawerOf(q), q.modal.from, q.modal.to)'
    <3>1. MoveOf(drawerOf(q), q.modal.from, q.modal.to)
      BY <1>6, <2>1 DEF ServicePageInv, MovesInv
    <3>2. QED
      BY <3>1, MovesStay
  <2>2. ASSUME q.sent.kind = "move" PROVE MoveOf(q.sent.id, q.sent.from, q.sent.to)'
    <3>1. SameRequest(pane.sent, q.sent)
      BY <1>6, <2>2
    <3>2. MoveOf(q.sent.id, q.sent.from, q.sent.to)
      BY <2>2, <3>1 DEF ServicePageInv, MovesInv, SameRequest, DialogKinds
    <3>3. QED
      BY <3>2, MovesStay
  <2>3. QED
    BY <1>1, <2>1, <2>2 DEF MovesInv, MoveOf, live
<1>8. SaveIsItsOwn
  BY <1>1, <1>6 DEF SaveIsItsOwn, SameRequest
<1>9. QED
  BY <1>1, <1>2, <1>4, <1>5, <1>7, <1>8 DEF ServicePageInv

-------------------------------------------------------------------------------
(***************************************************************************)
(* The page by itself.                                                     *)
(***************************************************************************)
Kept == ServicePageInv' /\ SaveIsItsOwn /\ MoveIsItsOwn

LEMMA PageIs ==
    ASSUME ServicePageInv
    PROVE  /\ IsPage(pane) /\ DrawerHolds(pane, known)
           /\ Follows(pane, pane, known) /\ Carries(pane, pane)
           /\ DOMAIN rows = AllIds /\ \A i \in AllIds : Shaped(rows[i])
<1>1. IsPage(pane) /\ DrawerHolds(pane, known)
  BY DEF ServicePageInv, PageInv
<1>2. Follows(pane, pane, known)
  BY <1>1, SameDrawer
<1>3. Carries(pane, pane)
  BY DEF Carries, SameRequest
<1>4. DOMAIN rows = AllIds /\ \A i \in AllIds : Shaped(rows[i])
  BY DEF ServicePageInv, RecordsInv, TypesInv, RowsTyped
<1>5. QED
  BY <1>1, <1>2, <1>3, <1>4

LEMMA HereKeeps ==
    ASSUME ServicePageInv, NEW q, here(q), Follows(pane, q, known),
           q.modal = NoModal \/ (q.modal = pane.modal /\ drawerOf(q) = drawerOf(pane)),
           q.sent.kind = "free" \/ SameRequest(pane.sent, q.sent),
           q.events = pane.events \/ Copied(q.events, rows)
    PROVE  /\ ServicePageInv'
           /\ SaveIsItsOwn
           /\ pane' = q /\ rows' = rows
           /\ pane.sent.kind # "move" \/ q.sent.kind # "free" => Kept
<1>1. becomes(q) /\ UNCHANGED recordVars
  BY DEF here
<1>2. RecordsInv' /\ Steady
  BY <1>1, RecordsStutter DEF ServicePageInv
<1>3. rows' = rows
  BY <1>1 DEF recordVars
<1>4. /\ ServicePageInv'
      /\ SaveIsItsOwn
      /\ pane' = q
  BY <1>1, <1>2, <1>3, Turns
<1>5. QED
  BY <1>3, <1>4 DEF Kept, MoveIsItsOwn

LEMMA RefreshKeeps ==
    ASSUME ServicePageInv, refresh
    PROVE  Kept
<1>1. PICK q : q = refreshed(pane, rows, notes)
  OBVIOUS
<1>2. here(q)
  BY <1>1 DEF refresh
<1>3. Follows(pane, q, known) /\ Carries(pane, q) /\ q.events = listServiceEvents(rows, notes, pane.roles)
  BY <1>1, PageIs, Refreshed
<1>4. Copied(q.events, rows)
  BY <1>3, PageIs, ListTold
<1>5. QED
  BY <1>2, <1>3, <1>4, HereKeeps DEF Carries, SameRequest

LEMMA OpenKeeps ==
    ASSUME ServicePageInv, NEW i, here(opened(pane, i))
    PROVE  Kept
<1>1. PICK q : q = opened(pane, i)
  OBVIOUS
<1>2. Follows(pane, q, known) /\ Carries(pane, q) /\ q.events = pane.events
  BY <1>1, PageIs, Opened
<1>3. QED
  BY <1>1, <1>2, HereKeeps DEF Carries, SameRequest

LEMMA FilterKeeps ==
    ASSUME ServicePageInv, NEW f, setFilter(f)
    PROVE  Kept
<1>1. PICK q : q = [pane EXCEPT !.filter = f]
  OBVIOUS
<1>2. q = [roles |-> pane.roles, linked |-> pane.linked, filter |-> f, events |-> pane.events,
           lots |-> pane.lots, at |-> pane.at, selected |-> pane.selected, draft |-> pane.draft,
           modal |-> pane.modal, sent |-> pane.sent]
  BY <1>1, PageIs DEF IsPage
<1>3. IsPage(q)
  BY <1>2, PageIs DEF IsPage
<1>4. drawerOf(q) = drawerOf(pane)
  BY <1>2 DEF drawerOf, ids
<1>5. DrawerHolds(q, known)
  BY <1>2, <1>4, PageIs DEF DrawerHolds
<1>6. Follows(pane, q, known)
  BY <1>2, <1>3, <1>4, <1>5, SameDrawer
<1>7. here(q)
  BY <1>1 DEF setFilter
<1>8. QED
  BY <1>2, <1>4, <1>6, <1>7, HereKeeps DEF SameRequest

\* The page stays where it is.
LEMMA Stays ==
    ASSUME ServicePageInv, RecordsInv', Steady, KnownTyped',
           NEW q, pane' = q, IsPage(q), DrawerHolds(q, known'),
           q.events = pane.events, drawerOf(q) = drawerOf(pane),
           q.modal.kind = "move" => MoveOf(drawerOf(q), q.modal.from, q.modal.to),
           q.sent.kind = "move" => MoveOf(q.sent.id, q.sent.from, q.sent.to)
    PROVE  ServicePageInv'
<1>1. drawerOf(pane)' = drawerOf(q)
  BY DEF drawerOf, ids
<1>2. PageInv'
  <2>1. PICK K : K = known'
    OBVIOUS
  <2>2. DrawerHolds(pane, known)'
    BY <1>1, <2>1 DEF DrawerHolds, drawerOf, ids
  <2>3. IsPage(pane)'
    BY DEF IsPage, IsModal, IsSent
  <2>4. QED
    BY <2>2, <2>3 DEF PageInv
<1>3. Copied(pane.events, rows)'
  <2>1. Copied(q.events, rows')
    BY CopiesStay DEF ServicePageInv
  <2>2. QED
    BY <2>1 DEF Copied
<1>4. MovesInv'
  <2>1. q.modal.kind = "move" => MoveOf(drawerOf(q), q.modal.from, q.modal.to)'
    BY MovesStay
  <2>2. q.sent.kind = "move" => MoveOf(q.sent.id, q.sent.from, q.sent.to)'
    BY MovesStay
  <2>3. QED
    BY <1>1, <2>1, <2>2 DEF MovesInv, MoveOf, live
<1>5. QED
  BY <1>2, <1>3, <1>4 DEF ServicePageInv

-------------------------------------------------------------------------------
(***************************************************************************)
(* Inputs, and what is saved of them.                                      *)
(***************************************************************************)
typedIn(p, f, v) == [p EXCEPT !.draft[f] = v]

LEMMA TypedInIs ==
    ASSUME NEW K, NEW p, IsPage(p), DrawerHolds(p, K), drawerOf(p) # NoText,
           NEW f \in Inputs, NEW v, << f, v >> \in K
    PROVE  LET q == typedIn(p, f, v)
           IN  /\ IsPage(q) /\ DrawerHolds(q, K)
               /\ q.events = p.events /\ drawerOf(q) = drawerOf(p)
               /\ q.modal = p.modal /\ q.sent = p.sent
               /\ q.roles = p.roles /\ q.linked = p.linked
<1>1. PICK q : q = typedIn(p, f, v)
  OBVIOUS
<1>2. PICK draft : draft = [p.draft EXCEPT ![f] = v]
  OBVIOUS
<1>3. q = [roles |-> p.roles, linked |-> p.linked, filter |-> p.filter, events |-> p.events,
           lots |-> p.lots, at |-> p.at, selected |-> p.selected, draft |-> draft,
           modal |-> p.modal, sent |-> p.sent]
  BY <1>1, <1>2 DEF IsPage, typedIn
<1>4. IsPage(q)
  BY <1>3 DEF IsPage
<1>5. drawerOf(q) = drawerOf(p)
  BY <1>3 DEF drawerOf, ids
<1>6. p.draft = [g \in Inputs |-> p.draft[g]] /\ \A g \in Inputs : << g, p.draft[g] >> \in K
  BY DEF DrawerHolds
<1>7. draft = [g \in Inputs |-> IF g = f THEN v ELSE p.draft[g]]
  BY <1>2, <1>6
<1>8. draft = [g \in Inputs |-> draft[g]] /\ \A g \in Inputs : << g, draft[g] >> \in K
  BY <1>6, <1>7
<1>9. DrawerHolds(q, K)
  BY <1>3, <1>5, <1>8 DEF DrawerHolds
<1>10. QED
  BY <1>1, <1>3, <1>4, <1>5, <1>9

LEMMA InputsAre ==
    ASSUME NEW e
    PROVE  inputs(e) \subseteq Inputs
  BY DEF inputs, Inputs

\* What is typed is of its input's kind.
LEMMA TypedIsKnown ==
    ASSUME ServicePageInv, NEW f, NEW v, isInput(f, v), entered(f, v)
    PROVE  /\ KnownTyped' /\ known' = known \cup {<< f, v >>}
           /\ DrawerHolds(pane, known') /\ drawerOf(pane) # NoText /\ f \in Inputs
<1>1. known' = known \cup {<< f, v >>} /\ drawerOf(pane) # NoText /\ f \in Inputs
  BY InputsAre DEF entered, editable, undisturbed
<1>2. DrawerHolds(pane, known')
  BY <1>1, PageIs DEF DrawerHolds
<1>3. KnownTyped'
  BY <1>1 DEF ServicePageInv, KnownTyped
<1>4. QED
  BY <1>1, <1>2, <1>3

\* Typed in, and nothing sent.
LEMMA TypingKeeps ==
    ASSUME ServicePageInv, NEW f, NEW v, isInput(f, v), entered(f, v),
           pane' = [pane EXCEPT !.draft[f] = v], UNCHANGED recordVars
    PROVE  Kept
<1>1. /\ KnownTyped' /\ known' = known \cup {<< f, v >>}
      /\ DrawerHolds(pane, known') /\ drawerOf(pane) # NoText /\ f \in Inputs
  BY TypedIsKnown
<1>2. PICK q, K : q = typedIn(pane, f, v) /\ K = known'
  OBVIOUS
<1>3. /\ IsPage(pane) /\ DrawerHolds(pane, K) /\ drawerOf(pane) # NoText
      /\ f \in Inputs /\ << f, v >> \in K
  BY <1>1, <1>2, PageIs
<1>4. /\ IsPage(q) /\ DrawerHolds(q, K)
      /\ q.events = pane.events /\ drawerOf(q) = drawerOf(pane)
      /\ q.modal = pane.modal /\ q.sent = pane.sent
  BY <1>2, <1>3, TypedInIs
<1>5. RecordsInv' /\ Steady
  BY RecordsStutter DEF ServicePageInv
<1>6. DrawerHolds(q, known') /\ pane' = q
  BY <1>2, <1>4 DEF typedIn
<1>7. ServicePageInv'
  BY <1>1, <1>4, <1>5, <1>6, Stays DEF ServicePageInv, MovesInv
<1>8. QED
  BY <1>4, <1>6, <1>7 DEF Kept, SaveIsItsOwn, MoveIsItsOwn

LEMMA SavingIs ==
    ASSUME NEW op, NEW v
    PROVE  /\ IsSent(saving(op, v))
           /\ saving(op, v).kind = "edit" /\ saving(op, v).op = op
           /\ saving(op, v).id = drawerOf(pane) /\ saving(op, v).value = v
  BY DEF saving, IsSent

Chosen(f, v, s) == [pane EXCEPT !.draft[f] = v, !.sent = s]

\* A choice is typed in and sent at once.
LEMMA ChosenIs ==
    ASSUME NEW f, NEW v, NEW s, IsPage(pane), NEW p, p = typedIn(pane, f, v),
           NEW q, q = Chosen(f, v, s)
    PROVE  q = with(p, p.modal, s)
<1>1. PICK draft : draft = [pane.draft EXCEPT ![f] = v]
  OBVIOUS
<1>2. p = [roles |-> pane.roles, linked |-> pane.linked, filter |-> pane.filter, events |-> pane.events,
           lots |-> pane.lots, at |-> pane.at, selected |-> pane.selected,
           draft |-> draft, modal |-> pane.modal, sent |-> pane.sent]
  BY <1>1 DEF IsPage, typedIn
<1>3. IsPage(p) /\ p.roles = pane.roles /\ p.linked = pane.linked /\ p.filter = pane.filter
      /\ p.events = pane.events /\ p.lots = pane.lots /\ p.at = pane.at
      /\ p.selected = pane.selected /\ p.draft = draft /\ p.modal = pane.modal
  BY <1>2 DEF IsPage
<1>4. with(p, p.modal, s) =
          [roles |-> p.roles, linked |-> p.linked, filter |-> p.filter, events |-> p.events,
           lots |-> p.lots, at |-> p.at, selected |-> p.selected, draft |-> p.draft,
           modal |-> p.modal, sent |-> s]
  BY <1>3, WithIs
<1>5. q = [roles |-> pane.roles, linked |-> pane.linked, filter |-> pane.filter, events |-> pane.events,
           lots |-> pane.lots, at |-> pane.at, selected |-> pane.selected,
           draft |-> [pane.draft EXCEPT ![f] = v], modal |-> pane.modal, sent |-> s]
  BY DEF IsPage, Chosen
<1>6. q = [roles |-> pane.roles, linked |-> pane.linked, filter |-> pane.filter, events |-> pane.events,
           lots |-> pane.lots, at |-> pane.at, selected |-> pane.selected,
           draft |-> draft, modal |-> pane.modal, sent |-> s]
  BY <1>1, <1>5
<1>7. QED
  BY <1>3, <1>4, <1>6

\* A choice, which is sent.
LEMMA ChoiceKeeps ==
    ASSUME ServicePageInv, NEW f \in sentAtOnce, NEW v, isInput(f, v), pickOther(f, v)
    PROVE  Kept
<1>1. entered(f, v) /\ pane.sent = Free
  BY DEF pickOther
<1>2. /\ KnownTyped' /\ known' = known \cup {<< f, v >>}
      /\ DrawerHolds(pane, known') /\ drawerOf(pane) # NoText /\ f \in Inputs
  BY <1>1, TypedIsKnown
<1>3. CASE drawerOf(pane) \in deployments
  <2>1. /\ editStep(Me, drawerOf(pane), f, v)
        /\ pane' = [pane EXCEPT !.draft[f] = v, !.sent = saving(f, v)]
    BY <1>3 DEF pickOther
  <2>2. PICK p, q, K, s : /\ p = typedIn(pane, f, v) /\ K = known'
                          /\ s = saving(f, v) /\ q = with(p, p.modal, s)
    OBVIOUS
  <2>3. /\ IsPage(pane) /\ DrawerHolds(pane, K) /\ drawerOf(pane) # NoText
        /\ f \in Inputs /\ << f, v >> \in K
    BY <1>2, <2>2, PageIs
  <2>4. /\ IsPage(p) /\ DrawerHolds(p, K)
        /\ p.events = pane.events /\ drawerOf(p) = drawerOf(pane)
        /\ p.modal = pane.modal /\ p.sent = pane.sent
    BY <2>2, <2>3, TypedInIs
  <2>5. IsSent(s) /\ s.kind = "edit" /\ s.op = f /\ s.id = drawerOf(pane) /\ s.value = v
    BY <2>2, SavingIs
  <2>6. f # "tags" /\ f # "incident" /\ f # "date" /\ f # "move"
    BY DEF sentAtOnce
  <2>7. /\ IsPage(q) /\ DrawerHolds(q, K)
        /\ q.events = pane.events /\ drawerOf(q) = drawerOf(pane)
        /\ q.modal = pane.modal /\ q.sent = s
    <3>1. IsModal(p.modal)
      BY <2>4 DEF IsPage
    <3>2. s.op # "tags"
      BY <2>5, <2>6
    <3>3. Follows(p, q, K) /\ DrawerHolds(q, K)
      BY <2>2, <2>4, <2>5, <3>1, <3>2, Staying
    <3>4. q.events = p.events /\ drawerOf(q) = drawerOf(p) /\ q.modal = p.modal /\ q.sent = s
      BY <2>2, <2>4, WithIs
    <3>5. QED
      BY <2>4, <3>3, <3>4 DEF Follows
  <2>8. pane' = q
    <3>1. PICK r : r = pane'
      OBVIOUS
    <3>2. r = Chosen(f, v, s)
      BY <2>1, <2>2, <3>1 DEF Chosen
    <3>3. r = q
      BY <2>2, <2>3, <3>2, ChosenIs
    <3>4. QED
      BY <3>1, <3>3
  <2>9. RecordsInv' /\ Steady
    <3>1. isEdit(f, v) /\ Me \in Sessions
      BY <2>6, PageAssumption DEF isEdit
    <3>2. QED
      BY <2>1, <3>1, EditStepKeeps DEF ServicePageInv
  <2>10. DrawerHolds(q, known')
    BY <2>2, <2>7
  <2>11. ServicePageInv'
    BY <1>2, <2>5, <2>7, <2>8, <2>9, <2>10, Stays DEF ServicePageInv, MovesInv
  <2>12. SaveIsItsOwn
    <3>1. drawerOf(pane') = drawerOf(pane)
      BY <2>7, <2>8
    <3>2. QED
      BY <1>2, <2>5, <2>6, <2>7, <2>8, <3>1 DEF SaveIsItsOwn
  <2>13. QED
    BY <1>1, <2>11, <2>12 DEF Kept, MoveIsItsOwn, Free
<1>4. CASE drawerOf(pane) \notin deployments
  <2>1. pane' = [pane EXCEPT !.draft[f] = v] /\ UNCHANGED recordVars
    BY <1>4 DEF pickOther
  <2>2. QED
    BY <1>1, <2>1, TypingKeeps
<1>5. QED
  BY <1>3, <1>4

LEMMA SaveKeeps ==
    ASSUME ServicePageInv, NEW op \in {"tags", "date", "lot", "incident"}, save(op)
    PROVE  Kept
<1>1. PICK v, s, q : v = toSave(op) /\ s = saving(op, v) /\ q = with(pane, pane.modal, s)
  OBVIOUS
<1>2. /\ drawerOf(pane) # NoText /\ pane.sent = Free /\ savable(op)
      /\ editStep(Me, drawerOf(pane), op, v)
      /\ pane' = [pane EXCEPT !.sent = s]
      /\ UNCHANGED known
  BY <1>1 DEF save, editable, undisturbed
<1>3. IsPage(pane) /\ DrawerHolds(pane, known)
  BY PageIs
<1>4. \A f \in Inputs : << f, pane.draft[f] >> \in known /\ isInput(f, pane.draft[f])
  BY <1>2, <1>3 DEF DrawerHolds, ServicePageInv, KnownTyped
<1>5. IsSent(s) /\ s.kind = "edit" /\ s.op = op /\ s.id = drawerOf(pane) /\ s.value = v
  BY <1>1, SavingIs
<1>6. op # "incident" => op \in Inputs /\ v = pane.draft[op]
  BY <1>1 DEF toSave, Inputs
<1>7. op = "incident" =>
         /\ v = [status |-> v.status, resolvedAt |-> v.resolvedAt]
         /\ v.status = pane.draft.status
         /\ v.resolvedAt \in {NoDate, clock, pane.draft.end}
  BY <1>1 DEF toSave
<1>8. isEdit(op, v)
  <2>1. CASE op = "incident"
    <3>1. isInput("status", pane.draft.status) /\ isInput("end", pane.draft.end)
      BY <1>4 DEF Inputs
    <3>2. pane.draft.status \in IncidentStatuses /\ pane.draft.end \in Nat
      BY <3>1 DEF isInput
    <3>3. clock \in Nat
      BY DEF ServicePageInv, RecordsInv, TypesInv, HistoryTyped
    <3>4. "startedAt" \notin DOMAIN v
      BY <1>7, <2>1
    <3>5. QED
      BY <1>7, <2>1, <3>2, <3>3, <3>4 DEF isEdit, NoDate
  <2>2. CASE op = "date"
    <3>1. pane.draft.date # NoDate
      BY <1>2, <2>2 DEF savable
    <3>2. isInput("date", pane.draft.date)
      BY <1>4 DEF Inputs
    <3>3. QED
      BY <1>6, <2>2, <3>1, <3>2 DEF isEdit, isInput
  <2>3. CASE op \in {"tags", "lot"}
    BY <2>3 DEF isEdit
  <2>4. QED
    BY <2>1, <2>2, <2>3
<1>9. RecordsInv' /\ Steady
  BY <1>2, <1>8, EditStepKeeps, PageAssumption DEF ServicePageInv
<1>10. /\ IsPage(q) /\ DrawerHolds(q, known)
       /\ q.events = pane.events /\ drawerOf(q) = drawerOf(pane)
       /\ q.modal = pane.modal /\ q.sent = s
  <2>1. PICK K : K = known
    OBVIOUS
  <2>2. s.op = "tags" => << "tags", s.value >> \in K
    BY <1>4, <1>5, <1>6, <2>1
  <2>3. IsModal(pane.modal)
    BY <1>3 DEF IsPage
  <2>4. Follows(pane, q, K) /\ DrawerHolds(q, K)
    BY <1>1, <1>2, <1>3, <1>5, <2>1, <2>2, <2>3, Staying
  <2>5. q.events = pane.events /\ drawerOf(q) = drawerOf(pane) /\ q.modal = pane.modal /\ q.sent = s
    BY <1>1, <1>3, WithIs
  <2>6. QED
    BY <2>1, <2>4, <2>5 DEF Follows
<1>11. pane' = q
  BY <1>1, <1>2, <1>3 DEF IsPage, with
<1>12. KnownTyped' /\ DrawerHolds(q, known')
  BY <1>2, <1>10 DEF ServicePageInv, KnownTyped
<1>13. ServicePageInv'
  BY <1>5, <1>9, <1>10, <1>11, <1>12, Stays DEF ServicePageInv, MovesInv
<1>14. SaveIsItsOwn
  <2>1. drawerOf(pane') = drawerOf(pane)
    BY <1>10, <1>11
  <2>2. op = "incident" => << "status", v.status >> \in known
                           /\ (v.resolvedAt \in {NoDate, clock} \/ << "end", v.resolvedAt >> \in known)
    BY <1>4, <1>7 DEF Inputs
  <2>3. op # "incident" => << op, v >> \in known
    BY <1>4, <1>6
  <2>4. QED
    BY <1>2, <1>5, <1>10, <1>11, <2>1, <2>2, <2>3 DEF SaveIsItsOwn
<1>15. QED
  BY <1>2, <1>13, <1>14 DEF Kept, MoveIsItsOwn, Free

LEMMA FollowsFrom ==
    ASSUME NEW K, NEW p, NEW q, q.events = p.events, drawerOf(q) = drawerOf(p),
           q.roles = p.roles, q.linked = p.linked, NEW r, Follows(q, r, K)
    PROVE  Follows(p, r, K)
<1>1. \A i : eventOf(p, i) = eventOf(q, i)
  BY DEF eventOf
<1>2. turned(p, r) <=> turned(q, r)
  BY <1>1 DEF turned
<1>3. refilled(p, r) = refilled(q, r)
  BY <1>2 DEF refilled
<1>4. heldOn(p, r, K) = heldOn(q, r, K)
  BY <1>3 DEF heldOn, pairs
<1>5. QED
  BY <1>4 DEF Follows

\* What is answered is on its way no longer.
LEMMA AnswerKeeps ==
    ASSUME ServicePageInv, answer
    PROVE  Kept
<1>1. PICK sent, p, q, r :
         /\ sent = pane.sent
         /\ p = with(pane, pane.modal, Free)
         /\ q = IF sent.op = "tags" /\ sent.mounted THEN typedIn(p, "tags", sent.value) ELSE p
         /\ r = refreshed(q, rows, notes)
  OBVIOUS
<1>2. PICK K : K = known
  OBVIOUS
<1>3. IsPage(pane) /\ DrawerHolds(pane, K) /\ sent.kind = "edit"
  BY <1>1, <1>2, PageIs DEF answer
<1>4. p = [pane EXCEPT !.sent = Free]
  BY <1>1, <1>3 DEF with, IsPage
<1>5. \/ here(IF sent.op = "incident" THEN opened(r, NoText) ELSE r)
      \/ here(p)
  <2>1. q = IF sent.op = "tags" /\ sent.mounted THEN [p EXCEPT !.draft.tags = sent.value] ELSE p
    BY <1>1 DEF typedIn
  <2>2. QED
    BY <1>1, <1>4, <2>1 DEF answer
<1>6. /\ Follows(pane, p, K) /\ DrawerHolds(p, K) /\ IsPage(p)
      /\ p.events = pane.events /\ drawerOf(p) = drawerOf(pane)
      /\ p.modal = pane.modal /\ p.sent = Free
      /\ p.roles = pane.roles /\ p.linked = pane.linked
  <2>1. IsModal(pane.modal) /\ IsSent(Free) /\ Free.kind # "edit"
    BY <1>3 DEF IsPage, IsSent, Free
  <2>2. Follows(pane, p, K) /\ DrawerHolds(p, K)
    BY <1>1, <1>3, <2>1, Staying
  <2>3. /\ p.events = pane.events /\ drawerOf(p) = drawerOf(pane)
        /\ p.modal = pane.modal /\ p.sent = Free
        /\ p.roles = pane.roles /\ p.linked = pane.linked
    BY <1>1, <1>3, WithIs
  <2>4. QED
    BY <2>2, <2>3 DEF Follows
<1>7. /\ IsPage(q) /\ DrawerHolds(q, K)
      /\ q.events = pane.events /\ drawerOf(q) = drawerOf(pane)
      /\ q.modal = pane.modal /\ q.sent = Free
      /\ q.roles = pane.roles /\ q.linked = pane.linked
  <2>1. CASE sent.op = "tags" /\ sent.mounted
    <3>1. drawerOf(p) # NoText /\ << "tags", sent.value >> \in K /\ "tags" \in Inputs
      BY <1>1, <1>3, <1>6, <2>1 DEF DrawerHolds, Inputs
    <3>2. q = typedIn(p, "tags", sent.value)
      BY <1>1, <2>1
    <3>3. /\ IsPage(q) /\ DrawerHolds(q, K)
          /\ q.events = p.events /\ drawerOf(q) = drawerOf(p)
          /\ q.modal = p.modal /\ q.sent = p.sent
          /\ q.roles = p.roles /\ q.linked = p.linked
      BY <1>6, <3>1, <3>2, TypedInIs
    <3>4. QED
      BY <1>6, <3>3
  <2>2. CASE ~(sent.op = "tags" /\ sent.mounted)
    BY <1>1, <1>6, <2>2
  <2>3. QED
    BY <2>1, <2>2
<1>8. /\ Follows(pane, r, K) /\ Carries(q, r)
      /\ Copied(r.events, rows)
  <2>1. Follows(q, r, K) /\ Carries(q, r) /\ r.events = listServiceEvents(rows, notes, q.roles)
    BY <1>1, <1>7, Refreshed
  <2>2. Copied(r.events, rows)
    BY <2>1, PageIs, ListTold
  <2>3. QED
    BY <1>7, <2>1, <2>2, FollowsFrom
<1>9. /\ r.modal = NoModal \/ (r.modal = pane.modal /\ drawerOf(r) = drawerOf(pane))
      /\ r.sent.kind = "free"
  BY <1>7, <1>8 DEF Carries, SameRequest, Free
<1>10. sent.kind # "move"
  BY <1>3
<1>11. CASE here(p)
  BY <1>1, <1>2, <1>6, <1>10, <1>11, HereKeeps DEF Free
<1>12. CASE here(r)
  BY <1>1, <1>2, <1>8, <1>9, <1>10, <1>12, HereKeeps
<1>13. CASE here(opened(r, NoText))
  <2>1. PICK s : s = opened(r, NoText)
    OBVIOUS
  <2>2. Follows(pane, s, K) /\ s.events = r.events /\ Carries(r, s)
    BY <1>8, <2>1, Opened
  <2>3. /\ s.modal = NoModal \/ (s.modal = pane.modal /\ drawerOf(s) = drawerOf(pane))
        /\ s.sent.kind = "free"
    BY <1>9, <2>2 DEF Carries, SameRequest
  <2>4. QED
    BY <1>1, <1>2, <1>8, <1>10, <1>13, <2>1, <2>2, <2>3, HereKeeps
<1>14. QED
  BY <1>5, <1>11, <1>12, <1>13

LEMMA CommentKeeps ==
    ASSUME ServicePageInv, addEventComment
    PROVE  Kept
<1>1. PICK q : q = refreshed(pane, rows, notes')
  OBVIOUS
<1>2. becomes(q) /\ pane.sent = Free /\ annotate(drawerOf(pane), "comment")
  BY <1>1 DEF addEventComment
<1>3. RecordsInv' /\ Steady
  BY <1>2, AnnotateKeeps DEF ServicePageInv
<1>4. Follows(pane, q, known) /\ Carries(pane, q) /\ q.events = listServiceEvents(rows, notes', pane.roles)
  BY <1>1, PageIs, Refreshed
<1>5. Copied(q.events, rows')
  <2>1. Copied(q.events, rows)
    BY <1>4, PageIs, ListTold
  <2>2. QED
    BY <1>2, <2>1 DEF annotate
<1>6. ServicePageInv' /\ SaveIsItsOwn
  BY <1>2, <1>3, <1>4, <1>5, Turns DEF Carries
<1>7. QED
  BY <1>2, <1>6 DEF Kept, MoveIsItsOwn, Free

-------------------------------------------------------------------------------
(***************************************************************************)
(* The stepper and its dialogs.                                            *)
(***************************************************************************)
LEMMA PlaceOf ==
    ASSUME NEW s \in Statuses
    PROVE  indexOf(s) \in 1..7 /\ DEPLOY_ORDER[indexOf(s)] = s /\ s # NoStatus
<1>1. \E i \in 1..7 : DEPLOY_ORDER[i] = s
  BY DEF Statuses
<1>2. s # NoStatus
  BY StatusesAre DEF NoStatus
<1>3. QED
  BY <1>1, <1>2 DEF indexOf

\* A status comes next of one other, and SCHEDULED of none.
LEMMA NextOfOne ==
    ASSUME NEW a \in Statuses, NEW b \in Statuses, NEW c \in Statuses, nextStatus(a) = c, nextStatus(b) = c
    PROVE  a = b /\ c # a /\ c # "SCHEDULED"
<1>1. \A i, j \in 1..7 : DEPLOY_ORDER[i] = DEPLOY_ORDER[j] => i = j
  BY DEF DEPLOY_ORDER
<1>2. /\ indexOf(a) \in 1..7 /\ DEPLOY_ORDER[indexOf(a)] = a
      /\ indexOf(b) \in 1..7 /\ DEPLOY_ORDER[indexOf(b)] = b
      /\ c # NoStatus
  BY PlaceOf
<1>3. /\ indexOf(a) + 1 \in 1..7 /\ DEPLOY_ORDER[indexOf(a) + 1] = c
      /\ indexOf(b) + 1 \in 1..7 /\ DEPLOY_ORDER[indexOf(b) + 1] = c
  BY <1>2 DEF nextStatus
<1>4. indexOf(a) = indexOf(b)
  BY <1>1, <1>2, <1>3
<1>5. c # a
  BY <1>1, <1>2, <1>3
<1>6. DEPLOY_ORDER[1] = "SCHEDULED"
  BY DEF DEPLOY_ORDER
<1>7. c # "SCHEDULED"
  BY <1>1, <1>2, <1>3, <1>6
<1>8. QED
  BY <1>2, <1>4, <1>5, <1>7

\* A dialog opens or goes, and nothing else.
LEMMA DialogKeeps ==
    ASSUME ServicePageInv, NEW modal, IsModal(modal), here([pane EXCEPT !.modal = modal]),
           modal.kind = "move" => MoveOf(drawerOf(pane), modal.from, modal.to)
    PROVE  Kept
<1>1. PICK q, K : q = with(pane, modal, pane.sent) /\ K = known
  OBVIOUS
<1>2. IsPage(pane) /\ DrawerHolds(pane, K) /\ IsSent(pane.sent)
  BY <1>1, PageIs DEF IsPage
<1>3. q = [pane EXCEPT !.modal = modal]
  BY <1>1, <1>2 DEF IsPage, with
<1>4. here(q)
  BY <1>3
<1>5. Follows(pane, q, K) /\ DrawerHolds(q, K)
  BY <1>1, <1>2, Staying
<1>6. q.events = pane.events /\ drawerOf(q) = drawerOf(pane) /\ q.modal = modal /\ q.sent = pane.sent
  BY <1>1, <1>2, WithIs
<1>7. pane' = q /\ known' = K /\ UNCHANGED recordVars
  <2>1. pane' = q /\ known' = heldOn(pane, q, K) /\ UNCHANGED recordVars
    BY <1>1, <1>4 DEF here, becomes, heldOn, pairs
  <2>2. IsPage(q) /\ q.roles = pane.roles /\ q.linked = pane.linked
    BY <1>5 DEF Follows
  <2>3. heldOn(pane, q, K) = K
    BY <1>5, <1>6, <2>2, SameDrawer
  <2>4. QED
    BY <2>1, <2>3
<1>8. RecordsInv' /\ Steady
  BY <1>7, RecordsStutter DEF ServicePageInv
<1>9. KnownTyped' /\ DrawerHolds(q, known') /\ IsPage(q)
  BY <1>1, <1>5, <1>7 DEF ServicePageInv, KnownTyped, Follows
<1>10. q.sent.kind = "move" => MoveOf(q.sent.id, q.sent.from, q.sent.to)
  BY <1>6 DEF ServicePageInv, MovesInv
<1>11. ServicePageInv'
  BY <1>6, <1>7, <1>8, <1>9, <1>10, Stays
<1>12. QED
  BY <1>6, <1>7, <1>11 DEF Kept, SaveIsItsOwn, MoveIsItsOwn

LEMMA AskKeeps ==
    ASSUME ServicePageInv, NEW kind \in DialogKinds, NEW to, ask(kind, to),
           kind = "move" => MoveOf(drawerOf(pane), statusOf(shown), to)
    PROVE  Kept
<1>1. PICK modal : modal = [kind |-> kind, to |-> to, from |-> statusOf(shown)]
  OBVIOUS
<1>2. here([pane EXCEPT !.modal = modal])
  BY <1>1 DEF ask
<1>3. modal.kind = kind /\ modal.to = to /\ modal.from = statusOf(shown)
  BY <1>1
<1>4. IsModal(modal)
  BY <1>1, <1>3 DEF IsModal
<1>5. QED
  BY <1>2, <1>3, <1>4, DialogKeeps

\* The stepper offers what comes next of the status that is shown.
LEMMA OpenMoveKeeps ==
    ASSUME ServicePageInv, NEW s \in Statuses, openMove(s)
    PROVE  Kept
<1>1. s \in offered /\ ask("move", s)
  BY DEF openMove
<1>2. PICK e : e = shown
  OBVIOUS
<1>3. drawerOf(pane) # NoText /\ stepState(e, s) = "next"
  BY <1>1, <1>2 DEF offered, editable, undisturbed
<1>4. e \in ToSet(pane.events) /\ e.id = drawerOf(pane)
  BY <1>2, <1>3, ShownIs DEF shown
<1>5. /\ e.id \in live
      /\ e.deployStatus \in Statuses \cup {NoText}
      /\ e.deployStatus # NoText => rows[e.id].deployStatus # NoText
  BY <1>4 DEF ServicePageInv, Copied, live
<1>6. s = nextStep(e)
  BY <1>3 DEF stepState
<1>7. e.deployStatus = NoText => MoveOf(drawerOf(pane), statusOf(shown), s)
  BY <1>2, <1>4, <1>5, <1>6 DEF nextStep, statusOf, MoveOf
<1>8. e.deployStatus # NoText => MoveOf(drawerOf(pane), statusOf(shown), s)
  <2>1. SUFFICES ASSUME e.deployStatus # NoText PROVE MoveOf(drawerOf(pane), statusOf(shown), s)
    OBVIOUS
  <2>2. e.deployStatus \in Statuses /\ nextStatus(e.deployStatus) = s /\ statusOf(e) = e.deployStatus
    BY <1>5, <1>6, <2>1 DEF nextStep, statusOf
  <2>3. e.deployStatus # NoStatus
    BY <2>2, PlaceOf
  <2>4. QED
    BY <1>2, <1>4, <1>5, <2>1, <2>2, <2>3 DEF MoveOf
<1>9. QED
  BY <1>1, <1>7, <1>8, AskKeeps DEF DialogKinds

LEMMA CancelKeeps ==
    ASSUME ServicePageInv, cancel
    PROVE  Kept
<1>1. here([pane EXCEPT !.modal = NoModal])
  BY DEF cancel
<1>2. IsModal(NoModal) /\ NoModal.kind # "move"
  BY DEF IsModal, NoModal
<1>3. QED
  BY <1>1, <1>2, DialogKeeps

\* What is confirmed is sent as the dialog was opened.
LEMMA ConfirmKeeps ==
    ASSUME ServicePageInv, confirm
    PROVE  Kept
<1>1. PICK m, s, q, K :
         /\ m = pane.modal
         /\ s = [kind |-> m.kind, id |-> drawerOf(pane), to |-> m.to, from |-> m.from, mounted |-> TRUE]
         /\ q = with(pane, m, s)
         /\ K = known
  OBVIOUS
<1>2. /\ m # NoModal /\ pane.sent = Free
      /\ pane' = [pane EXCEPT !.sent = s]
      /\ IF m.kind = "rollback" THEN createRollbackAction(Me, drawerOf(pane)) ELSE UNCHANGED recordVars
      /\ UNCHANGED known
  BY <1>1 DEF confirm, target
<1>3. IsPage(pane) /\ DrawerHolds(pane, K) /\ IsModal(m)
  BY <1>1, PageIs DEF IsPage
<1>4. m.kind \in DialogKinds
  BY <1>2, <1>3 DEF IsModal
<1>5. /\ s = [kind |-> s.kind, id |-> s.id, to |-> s.to, from |-> s.from, mounted |-> s.mounted]
      /\ s.kind = m.kind /\ s.id = drawerOf(pane) /\ s.to = m.to /\ s.from = m.from
  BY <1>1
<1>6. IsSent(s) /\ s.kind # "edit" /\ s.kind # "free"
  BY <1>4, <1>5 DEF IsSent, DialogKinds
<1>7. Follows(pane, q, K) /\ DrawerHolds(q, K)
  BY <1>1, <1>3, <1>6, Staying
<1>8. q.events = pane.events /\ drawerOf(q) = drawerOf(pane) /\ q.modal = m /\ q.sent = s
  BY <1>1, <1>3, WithIs
<1>9. pane' = q
  BY <1>1, <1>2, <1>3 DEF IsPage, with
<1>10. RecordsInv' /\ Steady
  BY <1>2, RecordsStutter, RollbackBegins, PageAssumption DEF ServicePageInv
<1>11. KnownTyped' /\ DrawerHolds(q, known') /\ IsPage(q)
  BY <1>1, <1>2, <1>7 DEF ServicePageInv, KnownTyped, Follows
<1>12. m.kind = "move" => MoveOf(drawerOf(pane), m.from, m.to)
  BY <1>1 DEF ServicePageInv, MovesInv
<1>13. ServicePageInv'
  BY <1>5, <1>8, <1>9, <1>10, <1>11, <1>12, Stays
<1>14. QED
  BY <1>2, <1>6, <1>8, <1>9, <1>13 DEF Kept, SaveIsItsOwn, MoveIsItsOwn, Free

\* The page after an answer: nothing is on its way.
LEMMA DoneIs ==
    ASSUME ServicePageInv, NEW R, NEW N
    PROVE  LET q == done(R, N)
           IN  /\ Follows(pane, q, known)
               /\ q.modal = NoModal \/ (q.modal = pane.modal /\ drawerOf(q) = drawerOf(pane))
               /\ q.sent.kind = "free"
               /\ q.events = listServiceEvents(R, N, pane.roles)
<1>1. PICK m, p, q, K :
         /\ m = IF pane.sent.mounted THEN NoModal ELSE pane.modal
         /\ p = with(pane, m, Free)
         /\ q = refreshed(p, R, N)
         /\ K = known
  OBVIOUS
<1>2. IsPage(pane) /\ DrawerHolds(pane, K) /\ IsModal(m)
  BY <1>1, PageIs DEF IsPage, IsModal
<1>3. p = [[pane EXCEPT !.modal = m] EXCEPT !.sent = Free]
  BY <1>1, <1>2 DEF with, IsPage
<1>4. q = done(R, N)
  <2>1. CASE pane.sent.mounted
    BY <1>1, <1>3, <2>1 DEF done
  <2>2. CASE ~pane.sent.mounted
    <3>1. [pane EXCEPT !.modal = m] = pane
      BY <1>1, <1>2, <2>2 DEF IsPage
    <3>2. QED
      BY <1>1, <1>3, <2>2, <3>1 DEF done
  <2>3. QED
    BY <2>1, <2>2
<1>5. IsSent(Free) /\ Free.kind # "edit" /\ Free.kind = "free"
  BY DEF IsSent, Free
<1>6. Follows(pane, p, K) /\ DrawerHolds(p, K)
  BY <1>1, <1>2, <1>5, Staying
<1>7. /\ p.events = pane.events /\ drawerOf(p) = drawerOf(pane)
      /\ p.modal = m /\ p.sent = Free
      /\ p.roles = pane.roles /\ p.linked = pane.linked
  BY <1>1, <1>2, WithIs
<1>8. Follows(p, q, K) /\ Carries(p, q) /\ q.events = listServiceEvents(R, N, pane.roles)
  <2>1. IsPage(p)
    BY <1>6 DEF Follows
  <2>2. QED
    BY <1>1, <1>6, <1>7, <2>1, Refreshed
<1>9. Follows(pane, q, K)
  BY <1>7, <1>8, FollowsFrom
<1>10. /\ q.modal = NoModal \/ (q.modal = pane.modal /\ drawerOf(q) = drawerOf(pane))
       /\ q.sent.kind = "free"
  BY <1>1, <1>5, <1>7, <1>8 DEF Carries, SameRequest
<1>11. QED
  BY <1>1, <1>4, <1>8, <1>9, <1>10

LEMMA RollbackAnsweredKeeps ==
    ASSUME ServicePageInv, rollbackAnswered
    PROVE  Kept
<1>1. PICK q : q = done(rows, notes)
  OBVIOUS
<1>2. here(q) /\ pane.sent.kind = "rollback"
  BY <1>1 DEF rollbackAnswered
<1>3. /\ Follows(pane, q, known)
      /\ q.modal = NoModal \/ (q.modal = pane.modal /\ drawerOf(q) = drawerOf(pane))
      /\ q.sent.kind = "free"
      /\ q.events = listServiceEvents(rows, notes, pane.roles)
  BY <1>1, DoneIs
<1>4. Copied(q.events, rows)
  BY <1>3, PageIs, ListTold
<1>5. QED
  BY <1>2, <1>3, <1>4, HereKeeps

\* A move that is accepted is the one that was confirmed, from where it was.
LEMMA AcceptedIsIt ==
    ASSUME ServicePageInv, pane.sent.kind = "move", movable(pane.sent.id, pane.sent.to)
    PROVE  /\ statusOf(rows[pane.sent.id]) = pane.sent.from
           /\ pane.sent.to \in Statuses
           /\ pane.sent.id \in live
<1>1. PICK s, at : s = pane.sent /\ at = statusOf(rows[s.id])
  OBVIOUS
<1>2. s.id \in deployments /\ legal(at, s.to)
  BY <1>1 DEF movable
<1>3. /\ s.id \in live /\ s.to \in Statuses
      /\ IF s.from = NoStatus THEN s.to = "SCHEDULED"
         ELSE s.from \in Statuses /\ nextStatus(s.from) = s.to /\ rows[s.id].deployStatus # NoText
  BY <1>1 DEF ServicePageInv, MovesInv, MoveOf
<1>4. rows[s.id].deployStatus \in Statuses \cup {NoText}
  <2>1. s.id \in AllIds
    BY <1>3, PageIs DEF live
  <2>2. QED
    BY <2>1, PageIs DEF Shaped
<1>5. CASE rows[s.id].deployStatus = NoText
  <2>1. at = NoStatus /\ s.to = "PENDING" /\ s.from = NoStatus
    BY <1>1, <1>2, <1>3, <1>5 DEF statusOf, legal
  <2>2. QED
    BY <1>3, <2>1
<1>6. CASE rows[s.id].deployStatus # NoText
  <2>1. at \in Statuses /\ at = rows[s.id].deployStatus
    BY <1>1, <1>4, <1>6 DEF statusOf
  <2>2. nextStatus(at) = s.to
    BY <1>2, <2>1, PlaceOf DEF legal, canTransition
  <2>3. s.to # "SCHEDULED"
    BY <1>3, <2>1, <2>2, NextOfOne
  <2>4. s.from \in Statuses /\ nextStatus(s.from) = s.to
    BY <1>3, <2>3
  <2>5. at = s.from
    BY <1>3, <2>1, <2>2, <2>4, NextOfOne
  <2>6. QED
    BY <1>1, <1>3, <2>5
<1>7. QED
  BY <1>5, <1>6

LEMMA ServeKeeps ==
    ASSUME ServicePageInv, serve
    PROVE  Kept
<1>1. PICK s, q : s = pane.sent /\ q = done(rows', notes')
  OBVIOUS
<1>2. s.kind \in {"move", "undo"}
  BY <1>1 DEF serve
<1>3. CASE accepted(s)
  <2>1. /\ becomes(q)
        /\ IF s.kind = "move" THEN move(s.id, s.to) ELSE undo(s.id)
    BY <1>1, <1>3 DEF serve
  <2>2. s.kind = "move" => /\ step(s.id, s.to)
                           /\ statusOf(rows[s.id]) = s.from
                           /\ s.to \in Statuses
                           /\ s.id \in live
    BY <1>1, <2>1, AcceptedIsIt DEF move
  <2>3. RecordsInv' /\ Steady
    BY <1>2, <2>1, <2>2, StepKeeps, UndoKeeps DEF ServicePageInv
  <2>4. /\ Follows(pane, q, known)
        /\ q.modal = NoModal \/ (q.modal = pane.modal /\ drawerOf(q) = drawerOf(pane))
        /\ q.sent.kind = "free"
        /\ q.events = listServiceEvents(rows', notes', pane.roles)
    BY <1>1, DoneIs
  <2>5. Copied(q.events, rows')
    <3>1. DOMAIN rows' = AllIds /\ \A i \in AllIds : Shaped(rows'[i])
      BY <2>3 DEF RecordsInv, TypesInv, RowsTyped
    <3>2. QED
      BY <2>4, <3>1, ListTold
  <2>6. ServicePageInv' /\ SaveIsItsOwn
    BY <2>1, <2>3, <2>4, <2>5, Turns
  <2>7. s.kind = "move" => rows'[s.id].deployStatus = s.to /\ rows'[s.id] # rows[s.id]
    <3>1. SUFFICES ASSUME s.kind = "move" PROVE rows'[s.id].deployStatus = s.to /\ rows'[s.id] # rows[s.id]
      OBVIOUS
    <3>2. rows = [i \in AllIds |-> rows[i]] /\ s.id \in AllIds /\ Shaped(rows[s.id])
      BY <2>2, <3>1, LiveIsFinite DEF ServicePageInv, RecordsInv, TypesInv, RowsTyped
    <3>3. rows' = [rows EXCEPT ![s.id] = [rows[s.id] EXCEPT !.deployStatus = s.to]]
      BY <2>2, <3>1 DEF step, overwrite
    <3>4. "deployStatus" \in DOMAIN rows[s.id]
      BY <3>2 DEF Shaped, ALL_COLUMNS, TextColumns
    <3>5. rows'[s.id].deployStatus = s.to
      BY <3>2, <3>3, <3>4
    <3>6. rows[s.id].deployStatus # s.to
      <4>1. PICK own : own = rows[s.id].deployStatus
        OBVIOUS
      <4>2. own \in Statuses \cup {NoText} /\ legal(statusOf(rows[s.id]), s.to)
        BY <2>1, <3>1, <3>2, <4>1 DEF Shaped, move, movable
      <4>3. own \in Statuses => nextStatus(own) = s.to
        BY <4>1, <4>2, PlaceOf, NoTextIsNone DEF statusOf, legal, canTransition
      <4>4. QED
        BY <2>2, <3>1, <4>1, <4>2, <4>3, NextOfOne, NoTextIsNone
    <3>7. QED
      BY <3>5, <3>6
  <2>8. MoveIsItsOwn
    BY <1>1, <2>2, <2>7 DEF MoveIsItsOwn
  <2>9. QED
    BY <2>6, <2>8 DEF Kept
<1>4. CASE ~accepted(s)
  <2>1. here([pane EXCEPT !.sent = Free])
    BY <1>1, <1>4 DEF serve
  <2>2. PICK p, K : p = with(pane, pane.modal, Free) /\ K = known
    OBVIOUS
  <2>3. IsPage(pane) /\ DrawerHolds(pane, K) /\ IsModal(pane.modal) /\ IsSent(Free) /\ Free.kind = "free"
    BY <2>2, PageIs DEF IsPage, IsSent, Free
  <2>4. p = [pane EXCEPT !.sent = Free]
    BY <2>2, <2>3 DEF with, IsPage
  <2>5. Follows(pane, p, K)
    BY <2>2, <2>3, Staying
  <2>6. p.events = pane.events /\ drawerOf(p) = drawerOf(pane) /\ p.modal = pane.modal /\ p.sent = Free
    BY <2>2, <2>3, WithIs
  <2>7. ServicePageInv' /\ SaveIsItsOwn /\ rows' = rows
    <3>1. here(p)
      BY <2>1, <2>4
    <3>2. QED
      BY <2>2, <2>3, <2>5, <2>6, <3>1, HereKeeps
  <2>8. MoveIsItsOwn
    <3>1. SUFFICES ASSUME s.kind = "move"
                   PROVE  \/ ~allowed(s) \/ s.id \notin deployments
                          \/ statusOf(rows[s.id]) # s.from \/ statusOf(rows[s.id]) = NoStatus
      BY <1>1, <2>7 DEF MoveIsItsOwn
    <3>2. IF s.from = NoStatus THEN s.to = "SCHEDULED" ELSE nextStatus(s.from) = s.to
      BY <1>1, <3>1 DEF ServicePageInv, MovesInv, MoveOf
    <3>3. QED
      BY <1>1, <1>4, <3>1, <3>2 DEF accepted, movable, legal, canTransition
  <2>9. QED
    BY <2>7, <2>8 DEF Kept
<1>5. QED
  BY <1>3, <1>4

-------------------------------------------------------------------------------
LEMMA PageBegins ==
    ASSUME RecordsInv, NEW roles, NEW linked, NEW filter, PageOpens(roles, linked, filter)
    PROVE  ServicePageInv
<1>1. PICK b, q :
         /\ b = [roles |-> roles, linked |-> linked, filter |-> filter, events |-> << >>,
                 lots |-> << >>, at |-> clock, selected |-> NoText, draft |-> NoDraft,
                 modal |-> NoModal, sent |-> Free]
         /\ q = refreshed(b, rows, notes)
  OBVIOUS
<1>2. pane = q /\ known = {<< f, filling(q)[f] >> : f \in DOMAIN filling(q)}
  BY <1>1 DEF PageOpens, arrival
<1>3. /\ b = [roles |-> b.roles, linked |-> b.linked, filter |-> b.filter, events |-> b.events,
              lots |-> b.lots, at |-> b.at, selected |-> b.selected, draft |-> b.draft,
              modal |-> b.modal, sent |-> b.sent]
      /\ b.modal = NoModal /\ b.sent = Free /\ b.draft = NoDraft /\ b.selected = NoText
  BY <1>1
<1>4. IsPage(b)
  BY <1>3 DEF IsPage, IsModal, IsSent
<1>5. drawerOf(b) = NoText
  BY <1>3 DEF drawerOf
<1>6. DrawerHolds(b, {})
  BY <1>3, <1>5 DEF DrawerHolds, Free
<1>7. Follows(b, q, {}) /\ Carries(b, q) /\ q.events = listServiceEvents(rows, notes, b.roles)
  BY <1>1, <1>4, <1>6, Refreshed
<1>8. q.sent.kind = "free" /\ q.modal.kind = "none"
  BY <1>3, <1>7 DEF Carries, SameRequest, Free, NoModal
<1>9. Copied(q.events, rows)
  BY <1>7, ListTold DEF RecordsInv, TypesInv, RowsTyped
<1>10. known = pairs(q, DOMAIN filling(q))
  BY <1>2 DEF pairs
<1>11. CASE drawerOf(q) = NoText
  <2>1. q.draft = NoDraft
    BY <1>7, <1>11 DEF Follows, DrawerHolds
  <2>2. DrawerHolds(pane, known)
    BY <1>2, <1>8, <1>11, <2>1 DEF DrawerHolds
  <2>3. \A x \in known : x[1] = "none"
    BY <1>10, <1>11, FillingIs DEF pairs, NoDraft
  <2>4. KnownTyped
    BY <2>3 DEF KnownTyped, isInput
  <2>5. PageInv
    BY <1>2, <1>7, <2>2 DEF PageInv, Follows
  <2>6. QED
    BY <1>2, <1>8, <1>9, <2>4, <2>5 DEF ServicePageInv, MovesInv
<1>12. CASE drawerOf(q) # NoText
  <2>1. refilled(b, q) = DOMAIN filling(q)
    BY <1>5, <1>12 DEF refilled
  <2>2. known = heldOn(b, q, {})
    BY <1>5, <1>10, <1>12, <2>1 DEF heldOn
  <2>3. DrawerHolds(pane, known)
    BY <1>2, <1>7, <2>2 DEF Follows
  <2>4. KnownTyped
    BY <1>9, <1>10, <2>1, Filled DEF KnownTyped
  <2>5. PageInv
    BY <1>2, <1>7, <2>3 DEF PageInv, Follows
  <2>6. QED
    BY <1>2, <1>8, <1>9, <2>4, <2>5 DEF ServicePageInv, MovesInv
<1>13. QED
  BY <1>11, <1>12

\* Others go on, or nobody does.
LEMMA OthersKeep ==
    ASSUME ServicePageInv, RecordsInv', Steady, UNCHANGED << pane, known >>
    PROVE  Kept
<1>1. PICK q : q = pane
  OBVIOUS
<1>2. pane' = q /\ IsPage(q) /\ DrawerHolds(q, known') /\ KnownTyped'
  BY <1>1, PageIs DEF ServicePageInv, KnownTyped
<1>3. ServicePageInv'
  BY <1>1, <1>2, Stays DEF ServicePageInv, MovesInv
<1>4. QED
  BY <1>3 DEF Kept, SaveIsItsOwn, MoveIsItsOwn

LEMMA PageSteps ==
    ASSUME ServicePageInv, PageStep(Typed, Filters)
    PROVE  Kept
<1>1. \A t \in Typed : isInput(t[1], t[2])
  BY PageAssumption
<1>2. ASSUME NEW f \in Filters, setFilter(f) PROVE Kept
  BY <1>2, FilterKeeps
<1>3. ASSUME NEW i \in live, select(i) PROVE Kept
  BY <1>3, OpenKeeps DEF select
<1>4. ASSUME NEW i \in live, onOpenEvent(i) PROVE Kept
  BY <1>4, OpenKeeps DEF onOpenEvent
<1>5. CASE close
  BY <1>5, OpenKeeps DEF close
<1>6. ASSUME NEW t \in Typed, enter(t[1], t[2]) PROVE Kept
  <2>1. PICK f, v : f = t[1] /\ v = t[2]
    OBVIOUS
  <2>2. isInput(f, v) /\ enter(f, v)
    BY <1>1, <1>6, <2>1
  <2>3. QED
    BY <2>2, TypingKeeps DEF enter
<1>7. ASSUME NEW t \in Typed, pick(t[1], t[2]) PROVE Kept
  <2>1. PICK f, v : f = t[1] /\ v = t[2]
    OBVIOUS
  <2>2. isInput(f, v) /\ f \in sentAtOnce /\ (pickShown(f, v) \/ pickOther(f, v))
    BY <1>1, <1>7, <2>1 DEF pick
  <2>3. CASE pickShown(f, v)
    BY <2>2, <2>3, TypingKeeps DEF pickShown
  <2>4. CASE pickOther(f, v)
    BY <2>2, <2>4, ChoiceKeeps
  <2>5. QED
    BY <2>2, <2>3, <2>4
<1>8. ASSUME NEW op \in {"tags", "date", "lot", "incident"}, save(op) PROVE Kept
  BY <1>8, SaveKeeps
<1>9. CASE \E t \in Typed : t[1] = "comment" /\ addEventComment
  BY <1>9, CommentKeeps
<1>10. ASSUME NEW s \in Statuses, openMove(s) PROVE Kept
  BY <1>10, OpenMoveKeeps
<1>11. CASE openUndo
  BY <1>11, AskKeeps DEF openUndo, DialogKinds
<1>12. CASE openRollback
  BY <1>12, AskKeeps DEF openRollback, DialogKinds
<1>13. QED
  BY <1>2, <1>3, <1>4, <1>5, <1>6, <1>7, <1>8, <1>9, <1>10, <1>11, <1>12,
     RefreshKeeps, AnswerKeeps, CancelKeeps, ConfirmKeeps, ServeKeeps, RollbackAnsweredKeeps DEF PageStep

LEMMA PageGoesOn ==
    ASSUME ServicePageInv, [PageNext]_pageVars
    PROVE  Kept
<1>1. CASE PageStep(Typed, Filters)
  BY <1>1, PageSteps
<1>2. CASE elsewhere(Bodies, Edits)
  <2>1. RecordsInv' /\ Steady
    BY <1>2, RecordsNext DEF elsewhere, ServicePageInv
  <2>2. QED
    BY <1>2, <2>1, OthersKeep DEF elsewhere
<1>3. CASE UNCHANGED pageVars
  <2>1. UNCHANGED recordVars /\ UNCHANGED << pane, known >>
    BY <1>3 DEF pageVars
  <2>2. RecordsInv' /\ Steady
    BY <2>1, RecordsStutter DEF ServicePageInv
  <2>3. QED
    BY <2>1, <2>2, OthersKeep
<1>4. QED
  BY <1>1, <1>2, <1>3 DEF PageNext

\* Whatever is shown, typed, sent and written by others: the drawer's inputs hold what is
\* known of them, the copy is of events that are there, and a move that is asked for or
\* on its way is the next of a status that the event had.
THEOREM PageInvariant == PageSpec => []ServicePageInv
<1>1. RecordsInv /\ (\E roles, linked, filter : PageOpens(roles, linked, filter)) => ServicePageInv
  BY PageBegins
<1>2. ServicePageInv /\ [PageNext]_pageVars => ServicePageInv'
  BY PageGoesOn DEF Kept
<1>3. QED
  BY <1>1, <1>2, PTL DEF PageSpec

-------------------------------------------------------------------------------
(***************************************************************************)
(* What is saved to an event is what its own drawer was filled with or was *)
(* given, whichever way the drawer went from one event to another          *)
(* (EventDrawer.tsx, the key of the drawer and the inputs it mounts).      *)
(***************************************************************************)
THEOREM NothingIsSavedToAnother == PageSpec => SavesAreOfThatEvent
<1>1. ServicePageInv /\ [PageNext]_pageVars => SaveIsItsOwn
  BY PageGoesOn DEF Kept
<1>2. ServicePageInv /\ [PageNext]_pageVars => [SaveIsItsOwn]_pageVars
  BY <1>1
<1>3. PageSpec => [][SaveIsItsOwn]_pageVars
  BY <1>2, PageInvariant, PTL DEF PageSpec
<1>4. QED
  BY <1>3 DEF SaveIsItsOwn, SavesAreOfThatEvent

(***************************************************************************)
(* A move that is accepted is the one its dialog was opened for, from the  *)
(* status that was shown, whatever happened to the deployment and to the   *)
(* drawer since; and one is refused only for a reason that can be told     *)
(* (TransitionModal, transitionDeployStatusAction).                        *)
(***************************************************************************)
THEOREM MovesAreAsConfirmed == PageSpec => ConfirmedMoveIsShown
<1>1. ServicePageInv /\ [PageNext]_pageVars => MoveIsItsOwn
  BY PageGoesOn DEF Kept
<1>2. ServicePageInv /\ [PageNext]_pageVars => [MoveIsItsOwn]_pageVars
  BY <1>1
<1>3. PageSpec => [][MoveIsItsOwn]_pageVars
  BY <1>2, PageInvariant, PTL DEF PageSpec
<1>4. QED
  BY <1>3 DEF MoveIsItsOwn, ConfirmedMoveIsShown

-------------------------------------------------------------------------------
(***************************************************************************)
(* What is open and what is on its way fit what is shown: a dialog is over *)
(* a deployment, a request is about an event that is there, and the server *)
(* works for this page only while the page waits for it.                   *)
(***************************************************************************)
Fit(q, L) ==
    /\ q.modal # NoModal => drawerOf(q) # NoText /\ deployment(eventOf(q, drawerOf(q)))
    /\ q.sent.kind # "free" => q.sent.id \in L

ServedFits == job[Me] # Idle => pane.sent.kind \in {"edit", "rollback"}

PageFits == Fit(pane, live) /\ ServedFits

\* A page on which only inputs, filters and lots are others is as fit.
LEMMA SameFits ==
    ASSUME NEW L, NEW p, Fit(p, L), NEW q, q.events = p.events, drawerOf(q) = drawerOf(p),
           q.modal \in {p.modal, NoModal}, q.sent \in {p.sent, Free}
    PROVE  Fit(q, L)
<1>1. \A i : eventOf(q, i) = eventOf(p, i)
  BY DEF eventOf
<1>2. Free.kind = "free"
  BY DEF Free
<1>3. QED
  BY <1>1, <1>2 DEF Fit

\* A dialog that stays is over the event that it was over, a deployment still.
LEMMA RemountedFits ==
    ASSUME NEW L, NEW p, Fit(p, L),
           NEW q, IsPage(q), q.modal = p.modal, q.sent = p.sent
    PROVE  LET r == remounted(p, q)
           IN  IsPage(r) /\ Fit(r, L) /\ r.sent.kind = p.sent.kind /\ r.events = q.events
<1>1. PICK r : r = remounted(p, q)
  OBVIOUS
<1>2. CASE drawerOf(p) = drawerOf(q) /\ ~turned(p, q)
  <2>1. r = q
    BY <1>1, <1>2 DEF remounted
  <2>2. q.modal # NoModal => drawerOf(q) # NoText /\ deployment(eventOf(q, drawerOf(q)))
    BY <1>2 DEF Fit, turned
  <2>3. QED
    BY <1>1, <2>1, <2>2 DEF Fit
<1>3. CASE ~(drawerOf(p) = drawerOf(q) /\ ~turned(p, q))
  <2> DEFINE draft == [f \in DOMAIN filling(q) |-> IF f \in refilled(p, q) THEN filling(q)[f] ELSE q.draft[f]]
  <2>1. PICK s, t : s = q.sent /\ t = [s EXCEPT !.mounted = FALSE]
    OBVIOUS
  <2>2. r = [roles |-> q.roles, linked |-> q.linked, filter |-> q.filter, events |-> q.events,
             lots |-> q.lots, at |-> q.at, selected |-> q.selected, draft |-> draft,
             modal |-> NoModal, sent |-> t]
    BY <1>1, <1>3, <2>1 DEF IsPage, remounted
  <2>3. IsSent(s)
    BY <2>1 DEF IsPage
  <2>4. /\ t.kind = s.kind /\ IsSent(t)
        /\ s.kind # "free" => t.id = s.id
    <3>1. CASE s = Free
      <4>1. s = [kind |-> "free", mounted |-> FALSE]
        BY <3>1 DEF Free
      <4>2. t = [s EXCEPT !.mounted = FALSE] /\ DOMAIN s = {"kind", "mounted"}
            /\ s.kind = "free" /\ s.mounted = FALSE
        BY <2>1, <4>1
      <4>2a. t = [kind |-> "free", mounted |-> FALSE]
        BY <4>2
      <4>3. QED
        BY <2>3, <3>1, <4>1, <4>2a
    <3>2. CASE s.kind = "edit" /\ s = [kind |-> s.kind, op |-> s.op, id |-> s.id, value |-> s.value, mounted |-> s.mounted]
      <4>1. t = [kind |-> s.kind, op |-> s.op, id |-> s.id, value |-> s.value, mounted |-> FALSE]
        BY <2>1, <3>2
      <4>2. QED
        BY <3>2, <4>1 DEF IsSent
    <3>3. CASE s.kind \in DialogKinds /\ s = [kind |-> s.kind, id |-> s.id, to |-> s.to, from |-> s.from, mounted |-> s.mounted]
      <4>1. t = [kind |-> s.kind, id |-> s.id, to |-> s.to, from |-> s.from, mounted |-> FALSE]
        BY <2>1, <3>3
      <4>2. QED
        BY <3>3, <4>1 DEF IsSent
    <3>4. QED
      BY <2>3, <3>1, <3>2, <3>3 DEF IsSent
  <2>5. r.modal = NoModal /\ r.sent = t /\ r.events = q.events
    BY <2>2
  <2>6. IsPage(r)
    BY <2>2, <2>4 DEF IsPage, IsModal
  <2>7. Fit(r, L)
    BY <2>1, <2>4, <2>5 DEF Fit
  <2>8. QED
    BY <1>1, <2>1, <2>4, <2>5, <2>6, <2>7
<1>4. QED
  BY <1>2, <1>3

LEMMA OpenedFits ==
    ASSUME NEW L, NEW q, IsPage(q), Fit(q, L), NEW i
    PROVE  LET r == opened(q, i)
           IN  IsPage(r) /\ Fit(r, L) /\ r.sent.kind = q.sent.kind
<1>1. PICK c : c = [q EXCEPT !.selected = i]
  OBVIOUS
<1>2. c = [roles |-> q.roles, linked |-> q.linked, filter |-> q.filter, events |-> q.events,
           lots |-> q.lots, at |-> q.at, selected |-> i, draft |-> q.draft,
           modal |-> q.modal, sent |-> q.sent]
  BY <1>1 DEF IsPage
<1>3. IsPage(c) /\ c.modal = q.modal /\ c.sent = q.sent
  BY <1>2 DEF IsPage
<1>4. opened(q, i) = remounted(q, c)
  BY <1>1 DEF opened
<1>5. QED
  BY <1>3, <1>4, RemountedFits

LEMMA RefreshedFits ==
    ASSUME NEW L, NEW p, IsPage(p), Fit(p, L), NEW R, NEW N
    PROVE  LET r == refreshed(p, R, N)
           IN  IsPage(r) /\ Fit(r, L) /\ r.sent.kind = p.sent.kind
<1>1. PICK events, lots : events = listServiceEvents(R, N, p.roles) /\ lots = lotsOf(R, N, events)
  OBVIOUS
<1>2. PICK c : c = [p EXCEPT !.events = events, !.lots = lots, !.at = clock]
  OBVIOUS
<1>3. c = [roles |-> p.roles, linked |-> p.linked, filter |-> p.filter, events |-> events,
           lots |-> lots, at |-> clock, selected |-> p.selected, draft |-> p.draft,
           modal |-> p.modal, sent |-> p.sent]
  BY <1>2 DEF IsPage
<1>4. IsPage(c) /\ c.modal = p.modal /\ c.sent = p.sent
  BY <1>3 DEF IsPage
<1>5. PICK q : q = remounted(p, c)
  OBVIOUS
<1>6. IsPage(q) /\ Fit(q, L) /\ q.sent.kind = p.sent.kind
  BY <1>4, <1>5, RemountedFits
<1>7. refreshed(p, R, N) \in {q, opened(q, p.linked)}
  BY <1>1, <1>2, <1>5 DEF refreshed
<1>8. QED
  BY <1>6, <1>7, OpenedFits

\* A step that turns the page, and asks nothing of the server.
LEMMA TurnFits ==
    ASSUME PageFits, NEW q, becomes(q), UNCHANGED << rows, job >>, Fit(q, live),
           \/ q.sent.kind = pane.sent.kind
           \/ q.sent.kind = "free" /\ (job[Me] = Idle \/ pane.sent.kind \notin {"edit", "rollback"})
    PROVE  PageFits'
<1>1. pane' = q /\ live' = live /\ job' = job
  BY DEF becomes, live
<1>2. PICK L : L = live
  OBVIOUS
<1>3. Fit(pane, live)'
  BY <1>1, <1>2 DEF Fit, drawerOf, ids, eventOf
<1>4. ServedFits'
  BY <1>1 DEF PageFits, ServedFits
<1>5. QED
  BY <1>3, <1>4 DEF PageFits

\* A request that is sent is about the event whose drawer is open.
LEMMA SendingFits ==
    ASSUME ServicePageInv', NEW q, pane' = q, NEW s, q.sent = s, s.id = drawerOf(q), drawerOf(q) # NoText,
           q.modal # NoModal => deployment(eventOf(q, drawerOf(q))),
           job'[Me] = Idle \/ s.kind \in {"edit", "rollback"}
    PROVE  PageFits'
<1>1. PICK e : e = eventOf(q, drawerOf(q))
  OBVIOUS
<1>2. e \in ToSet(q.events) /\ e.id = drawerOf(q)
  BY <1>1, ShownIs
<1>3. Copied(q.events, rows')
  BY DEF ServicePageInv, Copied
<1>4. s.id \in live'
  BY <1>2, <1>3 DEF Copied, live
<1>5. PICK L : L = live'
  OBVIOUS
<1>6. Fit(q, L)
  BY <1>4, <1>5 DEF Fit
<1>7. Fit(pane, live)'
  BY <1>5, <1>6 DEF Fit, drawerOf, ids, eventOf
<1>8. ServedFits'
  BY DEF ServedFits
<1>9. QED
  BY <1>7, <1>8 DEF PageFits

LEMMA HereFits ==
    ASSUME PageFits, NEW q, here(q), Fit(q, live),
           \/ q.sent.kind = pane.sent.kind
           \/ q.sent.kind = "free" /\ (job[Me] = Idle \/ pane.sent.kind \notin {"edit", "rollback"})
    PROVE  PageFits'
<1>1. becomes(q) /\ UNCHANGED << rows, job >>
  BY DEF here, recordVars
<1>2. QED
  BY <1>1, TurnFits

LEMMA LookingFits ==
    ASSUME ServicePageInv, PageFits,
           refresh \/ (\E f : setFilter(f)) \/ (\E i : here(opened(pane, i)))
    PROVE  PageFits'
<1>1. PICK L : L = live
  OBVIOUS
<1>2. IsPage(pane) /\ Fit(pane, L)
  BY <1>1, PageIs DEF PageFits
<1>3. CASE refresh
  <2>1. PICK q : q = refreshed(pane, rows, notes)
    OBVIOUS
  <2>2. Fit(q, L) /\ q.sent.kind = pane.sent.kind /\ here(q)
    BY <1>2, <1>3, <2>1, RefreshedFits DEF refresh
  <2>3. QED
    BY <1>1, <2>2, HereFits
<1>4. ASSUME NEW i, here(opened(pane, i)) PROVE PageFits'
  <2>1. PICK q : q = opened(pane, i)
    OBVIOUS
  <2>2. Fit(q, L) /\ q.sent.kind = pane.sent.kind /\ here(q)
    BY <1>2, <1>4, <2>1, OpenedFits
  <2>3. QED
    BY <1>1, <2>2, HereFits
<1>5. ASSUME NEW f, setFilter(f) PROVE PageFits'
  <2>1. PICK q : q = [pane EXCEPT !.filter = f]
    OBVIOUS
  <2>2. q = [roles |-> pane.roles, linked |-> pane.linked, filter |-> f, events |-> pane.events,
             lots |-> pane.lots, at |-> pane.at, selected |-> pane.selected, draft |-> pane.draft,
             modal |-> pane.modal, sent |-> pane.sent]
    BY <1>2, <2>1 DEF IsPage
  <2>3. drawerOf(q) = drawerOf(pane) /\ q.events = pane.events /\ q.modal = pane.modal /\ q.sent = pane.sent
    BY <2>2 DEF drawerOf, ids
  <2>4. Fit(q, L)
    BY <1>2, <2>3, SameFits
  <2>5. here(q)
    BY <1>5, <2>1 DEF setFilter
  <2>6. QED
    BY <1>1, <2>3, <2>4, <2>5, HereFits
<1>6. QED
  BY <1>3, <1>4, <1>5

LEMMA TypingFits ==
    ASSUME ServicePageInv, PageFits, NEW f, NEW v, isInput(f, v), entered(f, v),
           pane' = [pane EXCEPT !.draft[f] = v], UNCHANGED recordVars
    PROVE  PageFits'
<1>1. /\ known' = known \cup {<< f, v >>}
      /\ DrawerHolds(pane, known') /\ drawerOf(pane) # NoText /\ f \in Inputs
  BY TypedIsKnown
<1>2. PICK q, K : q = typedIn(pane, f, v) /\ K = known'
  OBVIOUS
<1>3. /\ IsPage(pane) /\ DrawerHolds(pane, K) /\ drawerOf(pane) # NoText
      /\ f \in Inputs /\ << f, v >> \in K
  BY <1>1, <1>2, PageIs
<1>4. /\ IsPage(q) /\ DrawerHolds(q, K)
      /\ q.events = pane.events /\ drawerOf(q) = drawerOf(pane)
      /\ q.modal = pane.modal /\ q.sent = pane.sent
  BY <1>2, <1>3, TypedInIs
<1>5. PICK L : L = live
  OBVIOUS
<1>6. pane' = q /\ live' = L /\ job' = job
  BY <1>2, <1>5 DEF typedIn, recordVars, live
<1>6a. Fit(pane, L)
  BY <1>5 DEF PageFits
<1>6b. Fit(q, L)
  BY <1>4, <1>6a, SameFits
<1>7. Fit(pane, live)'
  BY <1>6, <1>6b DEF Fit, drawerOf, ids, eventOf
<1>8. ServedFits'
  BY <1>4, <1>6 DEF PageFits, ServedFits
<1>9. QED
  BY <1>7, <1>8 DEF PageFits

\* A choice or a save: the inputs can be edited under no dialog.
LEMMA SavingFits ==
    ASSUME ServicePageInv, PageFits, ServicePageInv', NEW op, NEW v, editable, NEW p,
           IsPage(p), p.events = pane.events, drawerOf(p) = drawerOf(pane), p.modal = pane.modal,
           pane' = with(p, p.modal, saving(op, v))
    PROVE  PageFits'
<1>1. PICK q, s : s = saving(op, v) /\ q = with(p, p.modal, s)
  OBVIOUS
<1>2. s.kind = "edit" /\ s.id = drawerOf(pane)
  BY <1>1, SavingIs
<1>3. drawerOf(q) = drawerOf(pane) /\ q.modal = pane.modal /\ q.sent = s
  BY <1>1, WithIs
<1>4. drawerOf(pane) # NoText /\ pane.modal = NoModal
  BY DEF editable, undisturbed
<1>5. pane' = q
  BY <1>1
<1>6. QED
  BY <1>2, <1>3, <1>4, <1>5, SendingFits

LEMMA ChoiceFits ==
    ASSUME ServicePageInv, PageFits, ServicePageInv', NEW f, NEW v, isInput(f, v), pickOther(f, v)
    PROVE  PageFits'
<1>1. entered(f, v) /\ editable
  BY DEF pickOther, entered
<1>2. CASE drawerOf(pane) \in deployments
  <2>1. /\ known' = known \cup {<< f, v >>}
        /\ DrawerHolds(pane, known') /\ drawerOf(pane) # NoText /\ f \in Inputs
    BY <1>1, TypedIsKnown
  <2>2. PICK p, q, K, s : /\ p = typedIn(pane, f, v) /\ K = known'
                          /\ s = saving(f, v) /\ q = with(p, p.modal, s)
    OBVIOUS
  <2>3. /\ IsPage(pane) /\ DrawerHolds(pane, K) /\ drawerOf(pane) # NoText
        /\ f \in Inputs /\ << f, v >> \in K
    BY <2>1, <2>2, PageIs
  <2>4. /\ IsPage(p) /\ DrawerHolds(p, K)
        /\ p.events = pane.events /\ drawerOf(p) = drawerOf(pane)
        /\ p.modal = pane.modal /\ p.sent = pane.sent
    BY <2>2, <2>3, TypedInIs
  <2>5. pane' = [pane EXCEPT !.draft[f] = v, !.sent = saving(f, v)]
    BY <1>2 DEF pickOther
  <2>6. pane' = q
    <3>1. PICK r : r = pane'
      OBVIOUS
    <3>2. r = Chosen(f, v, s)
      BY <2>2, <2>5, <3>1 DEF Chosen
    <3>3. r = q
      BY <2>2, <2>3, <3>2, ChosenIs
    <3>4. QED
      BY <3>1, <3>3
  <2>7. pane' = with(p, p.modal, saving(f, v))
    BY <2>2, <2>6
  <2>8. QED
    BY <1>1, <2>4, <2>7, SavingFits
<1>3. CASE drawerOf(pane) \notin deployments
  BY <1>1, <1>3, TypingFits DEF pickOther
<1>4. QED
  BY <1>2, <1>3

LEMMA SaveFits ==
    ASSUME ServicePageInv, PageFits, ServicePageInv', NEW op, save(op)
    PROVE  PageFits'
<1>1. PICK s, v : v = toSave(op) /\ s = saving(op, v)
  OBVIOUS
<1>2. editable /\ pane' = [pane EXCEPT !.sent = s] /\ IsPage(pane)
  BY <1>1, PageIs DEF save
<1>3. pane' = with(pane, pane.modal, s)
  BY <1>2 DEF IsPage, with
<1>4. QED
  BY <1>1, <1>2, <1>3, SavingFits

\* A page on which nothing is on its way any more.
LEMMA FreedFits ==
    ASSUME NEW L, NEW p, IsPage(p), Fit(p, L), NEW modal \in {p.modal, NoModal}
    PROVE  LET q == with(p, modal, Free)
           IN  IsPage(q) /\ Fit(q, L) /\ q.sent.kind = "free" /\ drawerOf(q) = drawerOf(p) /\ q.draft = p.draft
                         /\ q.events = p.events
<1>1. PICK q : q = with(p, modal, Free)
  OBVIOUS
<1>2. /\ q = [roles |-> p.roles, linked |-> p.linked, filter |-> p.filter, events |-> p.events,
              lots |-> p.lots, at |-> p.at, selected |-> p.selected, draft |-> p.draft,
              modal |-> modal, sent |-> Free]
      /\ drawerOf(q) = drawerOf(p)
  BY <1>1, WithIs
<1>3. IsPage(q)
  BY <1>2 DEF IsPage, IsModal, IsSent
<1>4. q.events = p.events /\ q.modal = modal /\ q.sent = Free /\ q.draft = p.draft
  BY <1>2
<1>5. Fit(q, L)
  BY <1>2, <1>4, SameFits
<1>6. Free.kind = "free"
  BY DEF Free
<1>7. QED
  BY <1>1, <1>2, <1>3, <1>4, <1>5, <1>6

LEMMA AnswerFits ==
    ASSUME ServicePageInv, PageFits, answer
    PROVE  PageFits'
<1>1. PICK sent, p, q, r :
         /\ sent = pane.sent
         /\ p = with(pane, pane.modal, Free)
         /\ q = IF sent.op = "tags" /\ sent.mounted THEN typedIn(p, "tags", sent.value) ELSE p
         /\ r = refreshed(q, rows, notes)
  OBVIOUS
<1>2. PICK K, L : K = known /\ L = live
  OBVIOUS
<1>3. IsPage(pane) /\ DrawerHolds(pane, K) /\ Fit(pane, L) /\ sent.kind = "edit" /\ job[Me] = Idle
  BY <1>1, <1>2, PageIs DEF answer, PageFits
<1>4. p = [pane EXCEPT !.sent = Free]
  BY <1>1, <1>3 DEF with, IsPage
<1>5. \/ here(IF sent.op = "incident" THEN opened(r, NoText) ELSE r)
      \/ here(p)
  <2>1. q = IF sent.op = "tags" /\ sent.mounted THEN [p EXCEPT !.draft.tags = sent.value] ELSE p
    BY <1>1 DEF typedIn
  <2>2. QED
    BY <1>1, <1>4, <2>1 DEF answer
<1>6. /\ IsPage(p) /\ Fit(p, L) /\ p.sent.kind = "free" /\ drawerOf(p) = drawerOf(pane) /\ p.draft = pane.draft
      /\ p.events = pane.events
  BY <1>1, <1>3, FreedFits
<1>7. DrawerHolds(p, K)
  BY <1>3, <1>6 DEF DrawerHolds
<1>8. IsPage(q) /\ Fit(q, L) /\ q.sent.kind = "free"
  <2>1. CASE sent.op = "tags" /\ sent.mounted
    <3>1. drawerOf(p) # NoText /\ << "tags", sent.value >> \in K /\ "tags" \in Inputs
      BY <1>1, <1>3, <1>6, <2>1 DEF DrawerHolds, Inputs
    <3>2. q = typedIn(p, "tags", sent.value)
      BY <1>1, <2>1
    <3>3. /\ IsPage(q) /\ q.events = p.events /\ drawerOf(q) = drawerOf(p)
          /\ q.modal = p.modal /\ q.sent = p.sent
      BY <1>6, <1>7, <3>1, <3>2, TypedInIs
    <3>4. QED
      BY <1>6, <3>3, SameFits
  <2>2. CASE ~(sent.op = "tags" /\ sent.mounted)
    BY <1>1, <1>6, <2>2
  <2>3. QED
    BY <2>1, <2>2
<1>9. IsPage(r) /\ Fit(r, L) /\ r.sent.kind = "free"
  BY <1>1, <1>8, RefreshedFits
<1>10. PICK s : s = opened(r, NoText)
  OBVIOUS
<1>11. Fit(s, L) /\ s.sent.kind = "free"
  BY <1>9, <1>10, OpenedFits
<1>12. here(p) \/ here(r) \/ here(s)
  BY <1>5, <1>10
<1>13. QED
  BY <1>2, <1>3, <1>6, <1>9, <1>11, <1>12, HereFits

LEMMA CommentFits ==
    ASSUME ServicePageInv, PageFits, addEventComment
    PROVE  PageFits'
<1>1. PICK q, L : q = refreshed(pane, rows, notes') /\ L = live
  OBVIOUS
<1>2. becomes(q) /\ UNCHANGED << rows, job >>
  BY <1>1 DEF addEventComment, annotate
<1>3. IsPage(pane) /\ Fit(pane, L)
  BY <1>1, PageIs DEF PageFits
<1>4. Fit(q, L) /\ q.sent.kind = pane.sent.kind
  BY <1>1, <1>3, RefreshedFits
<1>5. QED
  BY <1>1, <1>2, <1>4, TurnFits

LEMMA AskFits ==
    ASSUME ServicePageInv, PageFits, NEW kind, NEW to, ask(kind, to),
           drawerOf(pane) # NoText, deployment(shown)
    PROVE  PageFits'
<1>1. PICK modal, q, L : /\ modal = [kind |-> kind, to |-> to, from |-> statusOf(shown)]
                         /\ q = with(pane, modal, pane.sent) /\ L = live
  OBVIOUS
<1>2. IsPage(pane) /\ Fit(pane, L)
  BY <1>1, PageIs DEF PageFits
<1>3. q = [pane EXCEPT !.modal = modal]
  BY <1>1, <1>2 DEF IsPage, with
<1>4. here(q)
  BY <1>1, <1>3 DEF ask
<1>5. q.events = pane.events /\ drawerOf(q) = drawerOf(pane) /\ q.sent = pane.sent
  BY <1>1, <1>2, WithIs
<1>6. eventOf(q, drawerOf(q)) = shown
  BY <1>5 DEF eventOf, shown
<1>7. Fit(q, L)
  BY <1>2, <1>5, <1>6 DEF Fit
<1>8. QED
  BY <1>1, <1>4, <1>5, <1>7, HereFits

LEMMA CancelFits ==
    ASSUME ServicePageInv, PageFits, cancel
    PROVE  PageFits'
<1>1. PICK q, L : q = with(pane, NoModal, pane.sent) /\ L = live
  OBVIOUS
<1>2. IsPage(pane) /\ Fit(pane, L)
  BY <1>1, PageIs DEF PageFits
<1>3. q = [pane EXCEPT !.modal = NoModal]
  BY <1>1, <1>2 DEF IsPage, with
<1>4. here(q)
  BY <1>3 DEF cancel
<1>5. q.events = pane.events /\ drawerOf(q) = drawerOf(pane) /\ q.sent = pane.sent /\ q.modal = NoModal
  BY <1>1, <1>2, WithIs
<1>6. Fit(q, L)
  BY <1>2, <1>5, SameFits
<1>7. QED
  BY <1>1, <1>4, <1>5, <1>6, HereFits

\* The server works for a confirmed dialog only if it is about a rollback.
LEMMA ConfirmFits ==
    ASSUME ServicePageInv, PageFits, ServicePageInv', confirm
    PROVE  PageFits'
<1>1. PICK m, s, q :
         /\ m = pane.modal
         /\ s = [kind |-> m.kind, id |-> drawerOf(pane), to |-> m.to, from |-> m.from, mounted |-> TRUE]
         /\ q = with(pane, m, s)
  OBVIOUS
<1>2. /\ m # NoModal /\ pane.sent = Free
      /\ pane' = [pane EXCEPT !.sent = s]
      /\ m.kind # "rollback" => UNCHANGED recordVars
  BY <1>1 DEF confirm, target
<1>3. IsPage(pane)
  BY PageIs
<1>4. pane' = q
  BY <1>1, <1>2, <1>3 DEF IsPage, with
<1>5. q.events = pane.events /\ drawerOf(q) = drawerOf(pane) /\ q.sent = s /\ q.modal = m
  BY <1>1, <1>3, WithIs
<1>6. drawerOf(pane) # NoText /\ deployment(eventOf(pane, drawerOf(pane)))
  BY <1>1, <1>2 DEF PageFits, Fit
<1>7. eventOf(q, drawerOf(q)) = eventOf(pane, drawerOf(pane))
  BY <1>5 DEF eventOf
<1>8. s.kind = m.kind /\ s.id = drawerOf(pane)
  BY <1>1
<1>9. s.kind # "rollback" => job'[Me] = Idle
  BY <1>2, <1>8 DEF PageFits, ServedFits, Free, recordVars
<1>10. QED
  BY <1>4, <1>5, <1>6, <1>7, <1>8, <1>9, SendingFits

LEMMA DoneFits ==
    ASSUME ServicePageInv, PageFits, NEW R, NEW N
    PROVE  LET q == done(R, N)
           IN  Fit(q, live) /\ q.sent.kind = "free"
<1>1. PICK m, p, q, L :
         /\ m = IF pane.sent.mounted THEN NoModal ELSE pane.modal
         /\ p = with(pane, m, Free)
         /\ q = refreshed(p, R, N)
         /\ L = live
  OBVIOUS
<1>2. IsPage(pane) /\ Fit(pane, L) /\ m \in {pane.modal, NoModal}
  BY <1>1, PageIs DEF PageFits
<1>3. p = [[pane EXCEPT !.modal = m] EXCEPT !.sent = Free]
  BY <1>1, <1>2 DEF with, IsPage
<1>4. q = done(R, N)
  <2>1. CASE pane.sent.mounted
    BY <1>1, <1>3, <2>1 DEF done
  <2>2. CASE ~pane.sent.mounted
    <3>1. [pane EXCEPT !.modal = m] = pane
      BY <1>1, <1>2, <2>2 DEF IsPage
    <3>2. QED
      BY <1>1, <1>3, <2>2, <3>1 DEF done
  <2>3. QED
    BY <2>1, <2>2
<1>5. IsPage(p) /\ Fit(p, L) /\ p.sent.kind = "free"
  BY <1>1, <1>2, FreedFits
<1>6. Fit(q, L) /\ q.sent.kind = "free"
  BY <1>1, <1>5, RefreshedFits
<1>7. QED
  BY <1>1, <1>4, <1>6

LEMMA ServeFits ==
    ASSUME ServicePageInv, PageFits, serve
    PROVE  PageFits'
<1>1. pane.sent.kind \notin {"edit", "rollback"} /\ job[Me] = Idle
  BY DEF serve, PageFits, ServedFits
<1>2. CASE accepted(pane.sent)
  <2>1. PICK q : q = done(rows', notes')
    OBVIOUS
  <2>2. becomes(q) /\ job' = job
    BY <1>2, <2>1 DEF serve, move, undo, step
  <2>3. Fit(q, live) /\ q.sent.kind = "free"
    BY <2>1, DoneFits
  <2>4. pane' = q
    BY <2>2 DEF becomes
  <2>5. PICK L : L = live'
    OBVIOUS
  <2>6. Fit(q, L)
    BY <2>3 DEF Fit
  <2>7. Fit(pane, live)'
    BY <2>4, <2>5, <2>6 DEF Fit, drawerOf, ids, eventOf
  <2>8. ServedFits'
    BY <1>1, <2>2 DEF ServedFits
  <2>9. QED
    BY <2>7, <2>8 DEF PageFits
<1>3. CASE ~accepted(pane.sent)
  <2>1. PICK p, L : p = with(pane, pane.modal, Free) /\ L = live
    OBVIOUS
  <2>2. IsPage(pane) /\ Fit(pane, L)
    BY <2>1, PageIs DEF PageFits
  <2>3. p = [pane EXCEPT !.sent = Free]
    BY <2>1, <2>2 DEF with, IsPage
  <2>4. Fit(p, L) /\ p.sent.kind = "free"
    BY <2>1, <2>2, FreedFits
  <2>5. here(p)
    BY <1>3, <2>3 DEF serve
  <2>6. QED
    BY <1>1, <2>1, <2>4, <2>5, HereFits
<1>4. QED
  BY <1>2, <1>3

LEMMA RollbackAnsweredFits ==
    ASSUME ServicePageInv, PageFits, rollbackAnswered
    PROVE  PageFits'
<1>1. PICK q : q = done(rows, notes)
  OBVIOUS
<1>2. here(q) /\ job[Me] = Idle
  BY <1>1 DEF rollbackAnswered
<1>3. Fit(q, live) /\ q.sent.kind = "free"
  BY <1>1, DoneFits
<1>4. QED
  BY <1>2, <1>3, HereFits

LEMMA OthersFit ==
    ASSUME PageFits, live \subseteq live', job[Me] = Idle => job'[Me] = Idle, pane' = pane
    PROVE  PageFits'
<1>1. PICK q, L, M : q = pane /\ L = live /\ M = live'
  OBVIOUS
<1>2. Fit(q, M)
  BY <1>1 DEF PageFits, Fit
<1>3. Fit(pane, live)'
  BY <1>1, <1>2 DEF Fit, drawerOf, ids, eventOf
<1>4. ServedFits'
  BY DEF PageFits, ServedFits
<1>5. QED
  BY <1>3, <1>4 DEF PageFits

LEMMA PageStaysFit ==
    ASSUME ServicePageInv, PageFits, [PageNext]_pageVars
    PROVE  PageFits'
<1>1. ServicePageInv'
  BY PageGoesOn DEF Kept
<1>2. CASE PageStep(Typed, Filters)
  <2>1. \A t \in Typed : isInput(t[1], t[2])
    BY PageAssumption
  <2>2. CASE \/ refresh \/ close \/ \E f \in Filters : setFilter(f)
             \/ \E i \in live : select(i) \/ onOpenEvent(i)
    BY <2>2, LookingFits DEF close, select, onOpenEvent
  <2>3. ASSUME NEW t \in Typed, enter(t[1], t[2]) PROVE PageFits'
    <3>1. PICK f, v : f = t[1] /\ v = t[2]
      OBVIOUS
    <3>2. isInput(f, v) /\ enter(f, v)
      BY <2>1, <2>3, <3>1
    <3>3. QED
      BY <3>2, TypingFits DEF enter
  <2>4. ASSUME NEW t \in Typed, pick(t[1], t[2]) PROVE PageFits'
    <3>1. PICK f, v : f = t[1] /\ v = t[2]
      OBVIOUS
    <3>2. isInput(f, v) /\ (pickShown(f, v) \/ pickOther(f, v))
      BY <2>1, <2>4, <3>1 DEF pick
    <3>3. CASE pickShown(f, v)
      BY <3>2, <3>3, TypingFits DEF pickShown
    <3>4. CASE pickOther(f, v)
      BY <1>1, <3>2, <3>4, ChoiceFits
    <3>5. QED
      BY <3>2, <3>3, <3>4
  <2>5. CASE \E op \in {"tags", "date", "lot", "incident"} : save(op)
    BY <1>1, <2>5, SaveFits
  <2>6. CASE \E s \in Statuses : openMove(s)
    BY <2>6, AskFits DEF openMove, offered, editable, undisturbed
  <2>7. CASE openUndo \/ openRollback
    BY <2>7, AskFits DEF openUndo, openRollback, editable, undisturbed
  <2>8. CASE answer \/ addEventComment \/ cancel \/ serve \/ rollbackAnswered
    BY <2>8, AnswerFits, CommentFits, CancelFits, ServeFits, RollbackAnsweredFits
  <2>9. CASE confirm
    BY <1>1, <2>9, ConfirmFits
  <2>10. QED
    BY <1>2, <2>2, <2>3, <2>4, <2>5, <2>6, <2>7, <2>8, <2>9 DEF PageStep
<1>3. CASE elsewhere(Bodies, Edits)
  <2>1. Steady
    BY <1>3, RecordsNext DEF elsewhere, ServicePageInv
  <2>2. QED
    BY <1>3, <2>1, OthersFit DEF elsewhere, Steady
<1>4. CASE UNCHANGED pageVars
  BY <1>4, OthersFit DEF pageVars, recordVars, live
<1>5. QED
  BY <1>2, <1>3, <1>4 DEF PageNext

LEMMA PageBeginsFit ==
    ASSUME NEW roles, NEW linked, NEW filter, PageOpens(roles, linked, filter)
    PROVE  PageFits
<1>1. PICK b, L :
         /\ b = [roles |-> roles, linked |-> linked, filter |-> filter, events |-> << >>,
                 lots |-> << >>, at |-> clock, selected |-> NoText, draft |-> NoDraft,
                 modal |-> NoModal, sent |-> Free]
         /\ L = live
  OBVIOUS
<1>2. pane = refreshed(b, rows, notes) /\ job[Me] = Idle
  BY <1>1 DEF PageOpens, arrival
<1>3. /\ b = [roles |-> b.roles, linked |-> b.linked, filter |-> b.filter, events |-> b.events,
              lots |-> b.lots, at |-> b.at, selected |-> b.selected, draft |-> b.draft,
              modal |-> b.modal, sent |-> b.sent]
      /\ b.modal = NoModal /\ b.sent = Free
  BY <1>1
<1>4. IsPage(b) /\ Fit(b, L)
  BY <1>3 DEF IsPage, IsModal, IsSent, Fit, Free
<1>5. Fit(pane, L)
  BY <1>2, <1>4, RefreshedFits
<1>6. QED
  BY <1>1, <1>2, <1>5 DEF PageFits, ServedFits

\* Whatever others do to the events meanwhile, and whichever way the drawer goes: inputs
\* are there with a drawer, a dialog only over a deployment, a request that is on its way
\* is about an event that is there, and the server is at work for the page only while it
\* waits (DetailPane.tsx, EventDrawer.tsx).
THEOREM PagesHaveTheirTypes == PageSpec => []PageTypeOK
<1>1. RecordsInv /\ (\E roles, linked, filter : PageOpens(roles, linked, filter)) => PageFits
  BY PageBeginsFit
<1>2. ServicePageInv /\ PageFits /\ [PageNext]_pageVars => PageFits'
  BY PageStaysFit
<1>3. ServicePageInv /\ PageFits => PageTypeOK
  <2>1. SUFFICES ASSUME ServicePageInv, PageFits PROVE PageTypeOK
    OBVIOUS
  <2>2. IsSent(pane.sent) /\ DrawerHolds(pane, known)
    BY <2>1, PageIs DEF IsPage
  <2>3. pane.sent.kind \in {"free", "edit", "move", "undo", "rollback"}
    BY <2>2 DEF IsSent, Free, DialogKinds
  <2>4. pane.draft = NoDraft <=> drawerOf(pane) = NoText
    <3>1. CASE drawerOf(pane) # NoText
      <4>1. DOMAIN pane.draft = Inputs /\ DOMAIN NoDraft = {"none"}
        BY <2>2, <3>1 DEF DrawerHolds, NoDraft
      <4>2. "tags" \in Inputs
        BY DEF Inputs
      <4>3. QED
        BY <3>1, <4>1, <4>2
    <3>2. QED
      BY <2>2, <3>1 DEF DrawerHolds
  <2>5. QED
    BY <2>1, <2>3, <2>4 DEF PageFits, Fit, ServedFits, PageTypeOK, shown
<1>4. QED
  BY <1>1, <1>2, <1>3, PageInvariant, PTL DEF PageSpec

-------------------------------------------------------------------------------
\* The records, the page over them and the notifications together: whatever is written,
\* shown and sent, what is kept has its type (the columns of Event, Annotation, Hook and
\* HookDelivery, the state of PageShell, the queue of a dispatch).  The rows are typed
\* under a page as they are without it, and the two share no variable with the hooks.
THEOREM TypesOfRecordsAndHooks == PageSpec /\ HookSpec => []TypesOK
<1>1. ServicePageInv => RecordsTypeOK
  BY RecordsAreTyped DEF ServicePageInv
<1>2. RecordsTypeOK /\ PageTypeOK /\ HookTypeOK => TypesOK
  BY DEF TypesOK
<1>3. QED
  BY <1>1, <1>2, PageInvariant, PagesHaveTheirTypes, TypesHold, PTL

-------------------------------------------------------------------------------
(***************************************************************************)
(* Readers.  A list is reasoned about by its places: what is filtered and  *)
(* sorted has each of the places that are kept, once, in the order of the  *)
(* keys (ArrangedIs); a fact about a prefix is proved of the lowest place  *)
(* where it would fail.                                                    *)
(***************************************************************************)
\* What is not empty has a lowest number.
LEMMA LowestIs ==
    ASSUME NEW S, S \subseteq Nat, S # {}
    PROVE  lowest(S) \in S /\ \A y \in S : lowest(S) <= y
<1>1. PICK d \in S : \A e \in S : << e, d >> \notin OpToRel(<, Nat)
  BY NatLessThanWellFounded, WFMin
<1>2. \A e \in S : ~(e < d) /\ e \in Nat /\ d \in Nat
  BY <1>1 DEF OpToRel
<1>3. \A e \in S : d <= e
  BY <1>2
<1>4. QED
  BY <1>1, <1>3 DEF lowest

\* k goes before l.
Ahead(key, k, l) == key[k] < key[l] \/ (key[k] = key[l] /\ k < l)

Lined(q, K, key) ==
    /\ q \in [1..Cardinality(K) -> K]
    /\ \A k \in K : \E m \in 1..Cardinality(K) : q[m] = k
    /\ \A m, n \in 1..Cardinality(K) : m < n => Ahead(key, q[m], q[n])

\* s has what list has at these places.
Taken(s, list, q, K) == s = [m \in 1..Cardinality(K) |-> list[q[m]]]

\* Sorting keeps each place once, in the order of the keys: as many are ahead of a place
\* as come before it.
LEMMA ArrangedIs ==
    ASSUME NEW list, NEW K, K \subseteq Int, IsFiniteSet(K), NEW key, \A k \in K : key[k] \in Int
    PROVE  \E q : Lined(q, K, key) /\ Taken(arranged(list, K, key), list, q, K)
<1> DEFINE ahead(k) == {l \in K : key[l] < key[k] \/ (key[l] = key[k] /\ l < k)}
           N == Cardinality(K)
<1>1. N \in Nat
  BY FS_CardinalityType
<1>2. ASSUME NEW k \in K PROVE IsFiniteSet(ahead(k)) /\ Cardinality(ahead(k)) \in 0..(N - 1)
  <2>1. PICK J : J = K \ {k}
    OBVIOUS
  <2>2. IsFiniteSet(J) /\ Cardinality(J) = N - 1
    BY <2>1, FS_RemoveElement
  <2>3. PICK A : A = ahead(k)
    OBVIOUS
  <2>4. k \in Int /\ key[k] \in Int
    OBVIOUS
  <2>5. k \notin A
    BY <2>3, <2>4
  <2>6. A \in SUBSET J
    BY <2>1, <2>3, <2>5
  <2>7. IsFiniteSet(A) /\ Cardinality(A) <= N - 1
    BY <2>2, <2>6, FS_Subset
  <2>8. Cardinality(A) \in Nat
    BY <2>7, FS_CardinalityType
  <2>9. QED
    BY <1>1, <2>3, <2>7, <2>8
<1>3. ASSUME NEW k \in K, NEW l \in K, Ahead(key, k, l)
      PROVE  Cardinality(ahead(k)) < Cardinality(ahead(l))
  <2>1. PICK A, B : A = ahead(k) /\ B = ahead(l)
    OBVIOUS
  <2>2. /\ IsFiniteSet(A) /\ Cardinality(A) \in Int /\ IsFiniteSet(B) /\ Cardinality(B) \in Int
    BY <1>1, <1>2, <2>1
  <2>3. \A m \in K : m \in Int /\ key[m] \in Int
    OBVIOUS
  <2>4. A \in SUBSET B
    <3>1. key[k] \in Int /\ key[l] \in Int /\ k \in Int /\ l \in Int
      BY <2>3
    <3>2. key[k] < key[l] \/ (key[k] = key[l] /\ k < l)
      BY <1>3 DEF Ahead
    <3>3. ASSUME NEW m \in A PROVE m \in K /\ (key[m] < key[k] \/ (key[m] = key[k] /\ m < k))
      BY <2>1
    <3>4. ASSUME NEW m \in A PROVE key[m] < key[l] \/ (key[m] = key[l] /\ m < l)
      <4>1. m \in Int /\ key[m] \in Int
        BY <2>3, <3>3
      <4>2. QED
        BY <3>1, <3>2, <3>3, <4>1
    <3>5. QED
      BY <2>1, <3>3, <3>4
  <2>5. k \in B /\ k \notin A
    BY <1>3, <2>1, <2>3 DEF Ahead
  <2>6. Cardinality(A) <= Cardinality(B) /\ Cardinality(A) # Cardinality(B)
    BY <2>2, <2>4, <2>5, FS_Subset
  <2>7. QED
    BY <2>1, <2>2, <2>6
<1>4. \A k, l \in K : k = l \/ Ahead(key, k, l) \/ Ahead(key, l, k)
  BY DEF Ahead
<1>5. PICK r : r = [k \in K |-> Cardinality(ahead(k))]
  OBVIOUS
<1>6. /\ r \in [K -> 0..(N - 1)]
      /\ \A k, l \in K : Ahead(key, k, l) => r[k] < r[l]
  BY <1>2, <1>3, <1>5
<1>7. \A k, l \in K : r[k] = r[l] => k = l
  BY <1>4, <1>6
<1>8. r \in Injection(K, 0..(N - 1))
  BY <1>6, <1>7 DEF Injection, IsInjective
<1>9. IsFiniteSet(0..(N - 1)) /\ Cardinality(0..(N - 1)) = N
  <2>1. PICK n : n = N - 1
    OBVIOUS
  <2>2. n \in Int /\ (IF 0 > n THEN 0 ELSE n - 0 + 1) = N
    BY <1>1, <2>1
  <2>3. IsFiniteSet(0..n) /\ Cardinality(0..n) = IF 0 > n THEN 0 ELSE n - 0 + 1
    BY <2>2, FS_Interval
  <2>4. QED
    BY <2>1, <2>2, <2>3
<1>10. r \in Surjection(K, 0..(N - 1))
  BY <1>8, <1>9, FS_Injection
<1>11. \A m \in 1..N : \E k \in K : r[k] = m - 1
  <2>1. \A j \in 0..(N - 1) : \E k \in K : r[k] = j
    BY <1>10 DEF Surjection
  <2>2. \A m \in 1..N : m - 1 \in 0..(N - 1)
    BY <1>1
  <2>3. QED
    BY <2>1, <2>2
<1>12. PICK q : q = [m \in 1..N |-> CHOOSE k \in K : Cardinality(ahead(k)) = m - 1]
  OBVIOUS
<1>13. \A m \in 1..N : q[m] \in K /\ r[q[m]] = m - 1
  BY <1>5, <1>11, <1>12
<1>14. \A k \in K : \E m \in 1..N : q[m] = k
  <2>1. SUFFICES ASSUME NEW k \in K PROVE \E m \in 1..N : q[m] = k
    OBVIOUS
  <2>2. r[k] + 1 \in 1..N /\ r[k] = (r[k] + 1) - 1
    BY <1>1, <1>6
  <2>3. q[r[k] + 1] = k
    BY <1>7, <1>13, <2>2
  <2>4. QED
    BY <2>2, <2>3
<1>15. ASSUME NEW m \in 1..N, NEW n \in 1..N, m < n PROVE Ahead(key, q[m], q[n])
  <2>1. PICK k, l : k = q[m] /\ l = q[n]
    OBVIOUS
  <2>2. k \in K /\ l \in K /\ r[k] = m - 1 /\ r[l] = n - 1
    BY <1>13, <2>1
  <2>3. ~(r[l] < r[k]) /\ k # l
    BY <1>15, <2>2
  <2>4. Ahead(key, k, l)
    BY <1>4, <1>6, <2>2, <2>3
  <2>5. QED
    BY <2>1, <2>4
<1>16. q \in [1..N -> K]
  BY <1>12, <1>13
<1>17. Lined(q, K, key)
  BY <1>14, <1>15, <1>16 DEF Lined
<1>18. Taken(arranged(list, K, key), list, q, K)
  BY <1>12 DEF arranged, Taken
<1>19. QED
  BY <1>17, <1>18

\* A later day is not of an earlier month.
LEMMA MonthsInOrder ==
    ASSUME NEW a \in Int, NEW b \in Int, a <= b
    PROVE  month(a) \in Int /\ month(b) \in Int /\ month(a) <= month(b)
<1>1. MonthLength \in Nat /\ MonthLength > 0
  BY ReadingAssumption
<1>2. QED
  BY <1>1 DEF month

Increasing(q, K) ==
    /\ q \in [1..Cardinality(K) -> K]
    /\ \A k \in K : \E m \in 1..Cardinality(K) : q[m] = k
    /\ \A m, n \in 1..Cardinality(K) : m < n => q[m] < q[n]

\* Filtering keeps the order.
LEMMA KeptIs ==
    ASSUME NEW list, NEW K, K \subseteq Int, IsFiniteSet(K)
    PROVE  \E q : Increasing(q, K) /\ Taken(kept(list, K), list, q, K)
<1>1. PICK key : key = [k \in K |-> 0]
  OBVIOUS
<1>2. \A k \in K : key[k] = 0 /\ key[k] \in Int
  BY <1>1
<1>3. PICK q : Lined(q, K, key) /\ Taken(arranged(list, K, key), list, q, K)
  BY <1>2, ArrangedIs
<1>4. q \in [1..Cardinality(K) -> K] /\ \A k \in K : \E m \in 1..Cardinality(K) : q[m] = k
  BY <1>3 DEF Lined
<1>5. ASSUME NEW m \in 1..Cardinality(K), NEW n \in 1..Cardinality(K), m < n PROVE q[m] < q[n]
  <2>1. Ahead(key, q[m], q[n]) /\ q[m] \in K /\ q[n] \in K
    BY <1>3, <1>4, <1>5 DEF Lined
  <2>2. key[q[m]] = 0 /\ key[q[n]] = 0
    BY <1>2, <2>1
  <2>3. QED
    BY <2>1, <2>2 DEF Ahead
<1>6. Increasing(q, K)
  BY <1>4, <1>5 DEF Increasing
<1>7. Taken(kept(list, K), list, q, K)
  BY <1>1, <1>3 DEF kept
<1>8. QED
  BY <1>6, <1>7

\* Nothing is lost or comes twice.
LEMMA KeptHolds ==
    ASSUME NEW list, NEW K, K \subseteq Int, IsFiniteSet(K)
    PROVE  /\ DOMAIN kept(list, K) = 1..Cardinality(K)
           /\ ToSet(kept(list, K)) = {list[k] : k \in K}
<1>1. PICK s : s = kept(list, K)
  OBVIOUS
<1>2. PICK q : Increasing(q, K) /\ Taken(s, list, q, K)
  BY <1>1, KeptIs
<1>3. /\ DOMAIN s = 1..Cardinality(K)
      /\ \A m \in 1..Cardinality(K) : s[m] = list[q[m]] /\ q[m] \in K
      /\ \A k \in K : \E m \in 1..Cardinality(K) : q[m] = k
  BY <1>2 DEF Increasing, Taken
<1>4. ASSUME NEW x \in ToSet(s) PROVE x \in {list[k] : k \in K}
  BY <1>3 DEF ToSet
<1>5. ASSUME NEW k \in K PROVE list[k] \in ToSet(s)
  <2>1. PICK m \in DOMAIN s : s[m] = list[k]
    BY <1>3
  <2>2. QED
    BY <2>1 DEF ToSet
<1>6. ToSet(s) = {list[k] : k \in K}
  BY <1>4, <1>5
<1>7. QED
  BY <1>1, <1>3, <1>6

\* Where the places of A went.
Where(q, K, A) == {m \in 1..Cardinality(K) : q[m] \in A}

Keyed(K, key) == K \subseteq Int /\ IsFiniteSet(K) /\ \A k \in K : key[k] \in Int

\* They are as many.
LEMMA Counted ==
    ASSUME NEW K, NEW key, Keyed(K, key), NEW q, Lined(q, K, key), NEW A, A \subseteq K
    PROVE  Cardinality(Where(q, K, A)) = Cardinality(A)
<1>1. PICK B : B = {m \in 1..Cardinality(K) : q[m] \in A}
  OBVIOUS
<1>2. IsFiniteSet(A) /\ Cardinality(K) \in Nat
  BY FS_Subset, FS_CardinalityType DEF Keyed
<1>3. q \in [1..Cardinality(K) -> K] /\ \A k \in K : \E m \in 1..Cardinality(K) : q[m] = k
  BY DEF Lined
<1>4. ASSUME NEW m \in B, NEW n \in B, q[m] = q[n] PROVE m = n
  <2>1. m \in 1..Cardinality(K) /\ n \in 1..Cardinality(K) /\ q[m] \in K
    BY <1>1, <1>3
  <2>2. ~Ahead(key, q[m], q[n]) /\ ~Ahead(key, q[n], q[m])
    <3>1. q[m] \in Int /\ key[q[m]] \in Int
      BY <2>1 DEF Keyed
    <3>2. QED
      BY <1>4, <3>1 DEF Ahead
  <2>3. ~(m < n) /\ ~(n < m)
    BY <2>1, <2>2 DEF Lined
  <2>4. QED
    BY <1>2, <2>1, <2>3
<1>5. PICK f : f = [m \in B |-> q[m]]
  OBVIOUS
<1>6. f \in [B -> A] /\ \A a \in A : \E m \in B : f[m] = a
  BY <1>1, <1>3, <1>5
<1>7. f \in Surjection(B, A) /\ f \in Injection(B, A)
  BY <1>4, <1>5, <1>6 DEF Surjection, Injection, IsInjective
<1>8. IsFiniteSet(1..Cardinality(K))
  BY <1>2, FS_Interval
<1>9. IsFiniteSet(B)
  BY <1>1, <1>8, FS_Subset
<1>10. Cardinality(A) = Cardinality(B)
  BY <1>7, <1>9, FS_Surjection
<1>11. QED
  BY <1>1, <1>10 DEF Where

-------------------------------------------------------------------------------
(***************************************************************************)
(* What readers are given.                                                 *)
(***************************************************************************)
Readable(e, now) ==
    /\ e.type \in EventTypes
    /\ e.occurredAt \in Nat /\ e.startedAt \in Nat /\ e.resolvedAt \in Nat
    /\ e.type = "MAINTENANCE" =>
          /\ e.windowStart \in Nat \ {NoDate} /\ e.windowEnd \in Nat \ {NoDate}
          /\ e.windowStart <= e.windowEnd
    /\ e.type = "INCIDENT" => e.startedAt # NoDate
    /\ \A t \in e.statusTransitions : t.at \in Nat
    /\ e.derived = deriveFor(e, now)

Listed(s) == Len(s) \in Nat /\ DOMAIN s = 1..Len(s)

ReadInv ==
    /\ pane.at \in Nat
    /\ Listed(pane.events)
    /\ \A k \in DOMAIN pane.events : Readable(pane.events[k], pane.at)
    /\ \A key \in DOMAIN pane.lots : \E n \in Nat : DOMAIN pane.lots[key] = 1..n

\* What the list makes of an event.
LEMMA EntryIs ==
    ASSUME NEW events, NEW e, NEW now
    PROVE  LET x == timelineEntry(events, e, now)
           IN  /\ x.category = category(e) /\ x.at = e.occurredAt /\ x.done = finished(e, now)
               /\ x.deployStatus = e.deployStatus /\ x.warnPre = warnPre(events, e)
               /\ x.rolledBack = (deployment(e) /\ e.rollbacks # {})
  BY DEF timelineEntry

\* Places of a list can be counted.
LEMMA PlacesAreFinite ==
    ASSUME NEW s, Listed(s), NEW K, K \subseteq DOMAIN s
    PROVE  K \subseteq Nat /\ K \subseteq Int /\ IsFiniteSet(K) /\ Cardinality(K) \in Nat
<1>1. IsFiniteSet(1..Len(s))
  BY FS_Interval DEF Listed
<1>2. IsFiniteSet(K)
  BY <1>1, FS_Subset DEF Listed
<1>3. QED
  BY <1>2, FS_CardinalityType DEF Listed

\* What is in scope is of the list.
LEMMA ScopedIs ==
    ASSUME ReadInv
    PROVE  /\ ToSet(scoped) \subseteq ToSet(pane.events)
           /\ \A k \in DOMAIN scoped : Readable(scoped[k], pane.at) /\ scoped[k] \in ToSet(scoped)
           /\ DOMAIN entries = DOMAIN scoped
           /\ \A k \in DOMAIN scoped : entries[k] = timelineEntry(scoped, scoped[k], pane.at)
<1>1. PICK s, K : s = pane.events /\ K = {k \in DOMAIN s : inScope(pane.filter, s[k])}
  OBVIOUS
<1>2. Listed(s) /\ \A k \in DOMAIN s : Readable(s[k], pane.at)
  BY <1>1 DEF ReadInv
<1>3. K \subseteq Int /\ IsFiniteSet(K)
  BY <1>1, <1>2, PlacesAreFinite
<1>4. scoped = kept(s, K)
  BY <1>1 DEF scoped, scopedEvents
<1>5. ToSet(scoped) = {s[k] : k \in K}
  BY <1>3, <1>4, KeptHolds
<1>6. ToSet(scoped) \subseteq ToSet(s)
  BY <1>1, <1>5 DEF ToSet
<1>7. \A k \in DOMAIN scoped : scoped[k] \in ToSet(scoped)
  BY DEF ToSet
<1>8. \A k \in DOMAIN scoped : Readable(scoped[k], pane.at)
  BY <1>1, <1>2, <1>5, <1>7
<1>9. QED
  BY <1>1, <1>6, <1>7, <1>8 DEF entries

\* A row warns when its drawer does: the drawer looks at more phases, never at fewer.
LEMMA RowsWarn == ReadInv => rowsWarnLikeDrawers
<1> SUFFICES ASSUME ReadInv, NEW k \in DOMAIN scoped
             PROVE  /\ entries[k].warnPre => preWarn(pane.events, scoped[k])
                    /\ preWarn(pane.events, scoped[k]) /\ preOf(pane.events, scoped[k]) \subseteq ToSet(scoped)
                          => entries[k].warnPre /\ entrySeverity(entries[k]) # "none"
  BY DEF rowsWarnLikeDrawers
<1>1. PICK e, x, S, E : e = scoped[k] /\ x = entries[k] /\ S = scoped /\ E = pane.events
  OBVIOUS
<1>2. ToSet(S) \subseteq ToSet(E) /\ x = timelineEntry(S, e, pane.at)
  BY <1>1, ScopedIs
<1>3. /\ x.category = category(e) /\ x.warnPre = warnPre(S, e)
  BY <1>2, EntryIs
<1>4. ASSUME x.warnPre PROVE preWarn(E, e)
  <2>1. mayHavePhases(e) /\ notYetStarted(e) /\ \E p \in preOf(S, e) : p.deployStatus # "VALIDATE"
    BY <1>3, <1>4 DEF warnPre
  <2>2. PICK p \in preOf(S, e) : p.deployStatus # "VALIDATE"
    BY <2>1
  <2>3. p \in phases(E, e) /\ p.changeType = "PRE_MEP"
    BY <1>2, <2>2 DEF preOf, phases, isPhase, PhaseTypes
  <2>4. QED
    BY <2>1, <2>2, <2>3 DEF preWarn, notYetStarted, STATUS_LE_PENDING
<1>5. ASSUME preWarn(E, e), preOf(E, e) \subseteq ToSet(S) PROVE x.warnPre /\ entrySeverity(x) # "none"
  <2>1. PICK p \in phases(E, e) : p.changeType = "PRE_MEP" /\ p.deployStatus # "VALIDATE"
    BY <1>5 DEF preWarn
  <2>2. p \in preOf(E, e)
    BY <2>1 DEF preOf, phases
  <2>3. p \in preOf(S, e)
    BY <1>5, <2>2 DEF preOf
  <2>4. mayHavePhases(e) /\ notYetStarted(e)
    BY <1>5 DEF preWarn, notYetStarted, STATUS_LE_PENDING
  <2>5. x.warnPre
    BY <1>3, <2>1, <2>3, <2>4 DEF warnPre
  <2>6. x.category \in {"DEPLOY", "HOTFIX"}
    BY <1>3, <2>4 DEF category, mayHavePhases
  <2>7. QED
    BY <2>5, <2>6 DEF entrySeverity
<1>6. QED
  BY <1>1, <1>4, <1>5

\* A window that is closed, and an incident that has an end, are over for both.
LEMMA EndsAreDerived == ReadInv => endedIsDerived
<1> SUFFICES ASSUME ReadInv, NEW k \in DOMAIN scoped
             PROVE  LET e == scoped[k]
                    IN  /\ "status" \in DOMAIN e.derived => (entries[k].done <=> e.derived.status = "Complete")
                        /\ "open" \in DOMAIN e.derived /\ ~e.derived.open => entries[k].done
  BY DEF endedIsDerived
<1>1. PICK e, d, now : e = scoped[k] /\ d = e.derived /\ now = pane.at
  OBVIOUS
<1>2. Readable(e, now) /\ now \in Nat /\ d = deriveFor(e, now) /\ entries[k].done = finished(e, now)
  BY <1>1, ScopedIs, EntryIs DEF Readable, ReadInv
<1>3. CASE e.type = "MAINTENANCE"
  <2>1. d = [status |-> maintenanceStatus(e.windowStart, e.windowEnd, now)]
    BY <1>2, <1>3 DEF Readable, deriveFor
  <2>2. finished(e, now) <=> e.windowEnd < now
    BY <1>2, <1>3 DEF finished, windowClosed, Readable
  <2>3. maintenanceStatus(e.windowStart, e.windowEnd, now) = "Complete" <=> e.windowEnd < now
    BY <1>2, <1>3 DEF Readable, maintenanceStatus
  <2>4. "open" \notin DOMAIN d /\ d.status = maintenanceStatus(e.windowStart, e.windowEnd, now)
    BY <2>1
  <2>5. QED
    BY <1>1, <1>2, <2>2, <2>3, <2>4
<1>4. CASE e.type = "INCIDENT"
  <2>1. d = incidentDuration(e.startedAt, e.resolvedAt, now)
    BY <1>2, <1>4 DEF Readable, deriveFor
  <2>2. DOMAIN d = {"days", "open"} /\ (d.open <=> e.resolvedAt = NoDate)
    BY <2>1 DEF incidentDuration
  <2>3. finished(e, now) <=> resolved(e)
    BY <1>4 DEF finished
  <2>4. QED
    BY <1>1, <1>2, <2>2, <2>3 DEF resolved
<1>5. CASE e.type = "DEPLOYMENT"
  <2>1. d = [nothing |-> TRUE]
    BY <1>2, <1>5 DEF deriveFor
  <2>2. DOMAIN d = {"nothing"}
    BY <2>1
  <2>3. QED
    BY <1>1, <2>2
<1>6. QED
  BY <1>2, <1>3, <1>4, <1>5 DEF Readable, EventTypes

\* A median is between two samples.
LEMMA MedianIsBetween ==
    ASSUME NEW values, NEW D, DOMAIN values = D, D \subseteq Int, IsFiniteSet(D), D # {},
           \A k \in D : values[k] \in Int
    PROVE  \E k, l \in D : 2 * values[k] <= doubledMedian(values) /\ doubledMedian(values) <= 2 * values[l]
<1>1. PICK s, N : s = arranged(values, D, values) /\ N = Cardinality(D)
  OBVIOUS
<1>2. PICK q : Lined(q, D, values) /\ Taken(s, values, q, D)
  BY <1>1, ArrangedIs
<1>3. N \in Nat /\ N # 0
  BY <1>1, FS_CardinalityType, FS_EmptySet
<1>4. s = [m \in 1..N |-> values[q[m]]] /\ \A m \in 1..N : q[m] \in D
  BY <1>1, <1>2 DEF Taken, Lined
<1>5. \A m \in 1..N : s[m] = values[q[m]] /\ q[m] \in D /\ s[m] \in Int
  BY <1>4
<1>6. s \in [1..N -> Int]
  BY <1>4, <1>5
<1>7. Len(s) = N
  BY <1>3, <1>6
<1>8. PICK mid : mid = N \div 2
  OBVIOUS
<1>9. mid \in Nat /\ (N % 2 = 1 => N = 2 * mid + 1) /\ (N % 2 # 1 => N = 2 * mid)
  BY <1>3, <1>8
<1>10. doubledMedian(values) = IF N % 2 = 1 THEN 2 * s[mid + 1] ELSE s[mid] + s[mid + 1]
  BY <1>1, <1>7, <1>8 DEF doubledMedian
<1>11. CASE N % 2 = 1
  <2>1. mid + 1 \in 1..N
    BY <1>3, <1>9, <1>11
  <2>2. PICK k \in D : k = q[mid + 1]
    BY <1>5, <2>1
  <2>3. doubledMedian(values) = 2 * values[k] /\ values[k] \in Int
    BY <1>5, <1>10, <1>11, <2>1, <2>2
  <2>4. QED
    BY <2>3
<1>12. CASE N % 2 # 1
  <2>1. mid \in 1..N /\ mid + 1 \in 1..N /\ mid < mid + 1
    BY <1>3, <1>9, <1>12
  <2>2. PICK k, l \in D : k = q[mid] /\ l = q[mid + 1]
    BY <1>5, <2>1
  <2>3. s[mid] = values[k] /\ s[mid + 1] = values[l] /\ values[k] \in Int /\ values[l] \in Int
    BY <1>5, <2>1, <2>2
  <2>4. Ahead(values, k, l)
    BY <1>1, <1>2, <2>1, <2>2 DEF Lined
  <2>5. values[k] <= values[l]
    BY <2>3, <2>4 DEF Ahead
  <2>6. doubledMedian(values) = values[k] + values[l]
    BY <1>10, <1>12, <2>3
  <2>7. 2 * values[k] <= doubledMedian(values) /\ doubledMedian(values) <= 2 * values[l]
    BY <2>3, <2>5, <2>6
  <2>8. QED
    BY <2>7
<1>13. QED
  BY <1>11, <1>12

\* The history is made of the entries that are not pinned, the newest first.
OfEvent(en, E, now) == en = [k \in DOMAIN E |-> timelineEntry(E, E[k], now)]

Below(en, K) == [k \in K |-> -en[k].at]

HistoryOf(h, en, q, K) == Lined(q, K, Below(en, K)) /\ Taken(h, en, q, K)

\* The history has what is not pinned, the newest first.
LEMMA HistoryIs ==
    ASSUME ReadInv
    PROVE  \E en, q : LET K == {k \in DOMAIN pane.events : ~pinned(en[k])}
                      IN  /\ OfEvent(en, pane.events, pane.at)
                          /\ HistoryOf(everything.history, en, q, K)
                          /\ Keyed(K, Below(en, K))
<1>1. PICK E, en : E = pane.events /\ en = [k \in DOMAIN E |-> timelineEntry(E, E[k], pane.at)]
  OBVIOUS
<1>2. PICK K : K = {k \in DOMAIN E : ~pinned(en[k])}
  OBVIOUS
<1>3. Listed(E) /\ \A k \in DOMAIN E : Readable(E[k], pane.at)
  BY <1>1 DEF ReadInv
<1>4. K \subseteq Int /\ IsFiniteSet(K)
  BY <1>2, <1>3, PlacesAreFinite
<1>5. \A k \in DOMAIN E : en[k].at = E[k].occurredAt /\ en[k].at \in Nat
  BY <1>1, <1>3, EntryIs DEF Readable
<1>6. \A k \in K : Below(en, K)[k] \in Int
  BY <1>2, <1>5 DEF Below
<1>7. DOMAIN en = DOMAIN E
  BY <1>1
<1>8. DOMAIN en \ {k \in DOMAIN en : pinned(en[k])} = K
  BY <1>2, <1>7
<1>9. everything.history = newestFirst(en, DOMAIN en \ {k \in DOMAIN en : pinned(en[k])})
  BY <1>1 DEF everything, buildServiceTimeline
<1>10. everything.history = arranged(en, K, Below(en, K))
  BY <1>8, <1>9 DEF newestFirst, Below
<1>11. PICK key : key = Below(en, K)
  OBVIOUS
<1>12. PICK q : Lined(q, K, key) /\ Taken(arranged(en, K, key), en, q, K)
  BY <1>4, <1>6, <1>11, ArrangedIs
<1>13. HistoryOf(everything.history, en, q, K)
  BY <1>10, <1>11, <1>12 DEF HistoryOf
<1>14. OfEvent(en, E, pane.at)
  BY <1>1 DEF OfEvent
<1>15. Keyed(K, Below(en, K))
  BY <1>4, <1>6 DEF Keyed
<1>16. QED
  BY <1>1, <1>2, <1>13, <1>14, <1>15

\* Metrics count what the history has.
LEMMA MetricsCount == ReadInv => metricsCountTheList
<1> SUFFICES ASSUME ReadInv PROVE metricsCountTheList
  OBVIOUS
<1>1. PICK E, now : E = pane.events /\ now = pane.at
  OBVIOUS
<1>2. Listed(E) /\ \A k \in DOMAIN E : Readable(E[k], now)
  BY <1>1 DEF ReadInv
<1>3. PICK en, q : LET K == {k \in DOMAIN E : ~pinned(en[k])}
                   IN  /\ OfEvent(en, E, now)
                       /\ HistoryOf(everything.history, en, q, K)
                       /\ Keyed(K, Below(en, K))
  BY <1>1, HistoryIs
<1>4. PICK h, K : h = everything.history /\ K = {k \in DOMAIN E : ~pinned(en[k])}
  OBVIOUS
<1>5. /\ OfEvent(en, E, now) /\ HistoryOf(h, en, q, K)
      /\ Keyed(K, Below(en, K))
  BY <1>3, <1>4
<1>6. /\ DOMAIN h = 1..Cardinality(K) /\ \A m \in DOMAIN h : h[m] = en[q[m]] /\ q[m] \in K
  BY <1>5 DEF HistoryOf, Taken, Lined
<1>7. \A k \in DOMAIN E : /\ en[k].category = category(E[k])
                          /\ en[k].rolledBack = (deployment(E[k]) /\ E[k].rollbacks # {})
  BY <1>5, EntryIs DEF OfEvent
<1>8. PICK D, F, A, B : /\ D = {k \in DOMAIN E : deployment(E[k])}
                        /\ F = {k \in DOMAIN E : deployment(E[k]) /\ E[k].rollbacks # {}}
                        /\ A = {k \in K : en[k].category = "DEPLOY"}
                        /\ B = {k \in K : en[k].category = "HOTFIX"}
  OBVIOUS
<1>9. \A k \in DOMAIN E : E[k].type \in EventTypes /\ E[k].occurredAt \in Nat
  BY <1>2 DEF Readable
<1>10. \A k \in DOMAIN E : deployment(E[k]) <=> category(E[k]) \in {"DEPLOY", "HOTFIX"}
  <2>1. SUFFICES ASSUME NEW k \in DOMAIN E
                 PROVE  deployment(E[k]) <=> category(E[k]) \in {"DEPLOY", "HOTFIX"}
    OBVIOUS
  <2>2. PICK e : e = E[k] /\ e.type \in EventTypes
    BY <1>9
  <2>3. CASE e.type = "DEPLOYMENT"
    BY <2>2, <2>3 DEF deployment, category
  <2>4. CASE e.type \in {"INCIDENT", "MAINTENANCE"}
    <3>1. ~deployment(e)
      BY <2>4 DEF deployment
    <3>2. category(e) = e.type
      BY <3>1 DEF category
    <3>3. QED
      BY <2>2, <2>4, <3>1, <3>2
  <2>5. QED
    BY <2>2, <2>3, <2>4 DEF EventTypes
<1>11. \A k \in DOMAIN E : deployment(E[k]) => k \in K
  BY <1>4, <1>7, <1>10 DEF pinned
<1>12. A \cup B = D /\ A \cap B = {} /\ F \subseteq K /\ K \subseteq DOMAIN E
  BY <1>4, <1>7, <1>8, <1>10, <1>11
<1>13. IsFiniteSet(A) /\ IsFiniteSet(B) /\ Cardinality(A) \in Nat /\ Cardinality(B) \in Nat
  BY <1>2, <1>8, <1>12, PlacesAreFinite
<1>14. Cardinality(D) = Cardinality(A) + Cardinality(B)
  <2>1. Cardinality(A \cup B) = Cardinality(A) + Cardinality(B) - Cardinality(A \cap B)
    BY <1>13, FS_Union
  <2>2. Cardinality(A \cap B) = 0
    BY <1>12, FS_EmptySet
  <2>3. QED
    BY <1>12, <1>13, <2>1, <2>2
<1>15. Cardinality({m \in DOMAIN h : h[m].category = "DEPLOY"}) = Cardinality(A)
  <2>1. PICK M : M = {m \in DOMAIN h : h[m].category = "DEPLOY"}
    OBVIOUS
  <2>2. \A m \in DOMAIN h : h[m].category = "DEPLOY" <=> q[m] \in A
    BY <1>6, <1>7, <1>8, <1>12
  <2>3. M = Where(q, K, A) /\ A \subseteq K
    BY <1>6, <1>8, <1>12, <2>1, <2>2 DEF Where
  <2>4. Cardinality(Where(q, K, A)) = Cardinality(A)
    BY <1>5, <2>3, Counted DEF HistoryOf
  <2>5. QED
    BY <2>1, <2>3, <2>4
<1>16. Cardinality({m \in DOMAIN h : h[m].category = "HOTFIX"}) = Cardinality(B)
  <2>1. PICK M : M = {m \in DOMAIN h : h[m].category = "HOTFIX"}
    OBVIOUS
  <2>2. \A m \in DOMAIN h : h[m].category = "HOTFIX" <=> q[m] \in B
    BY <1>6, <1>7, <1>8, <1>12
  <2>3. M = Where(q, K, B) /\ B \subseteq K
    BY <1>6, <1>8, <1>12, <2>1, <2>2 DEF Where
  <2>4. Cardinality(Where(q, K, B)) = Cardinality(B)
    BY <1>5, <2>3, Counted DEF HistoryOf
  <2>5. QED
    BY <2>1, <2>3, <2>4
<1>17. Cardinality({m \in DOMAIN h : h[m].rolledBack}) = Cardinality(F)
  <2>1. PICK M : M = {m \in DOMAIN h : h[m].rolledBack}
    OBVIOUS
  <2>2. \A m \in DOMAIN h : h[m].rolledBack <=> q[m] \in F
    BY <1>6, <1>7, <1>8, <1>12
  <2>3. M = Where(q, K, F) /\ F \subseteq K
    BY <1>6, <1>8, <1>12, <2>1, <2>2 DEF Where
  <2>4. Cardinality(Where(q, K, F)) = Cardinality(F)
    BY <1>5, <2>3, Counted DEF HistoryOf
  <2>5. QED
    BY <2>1, <2>3, <2>4
<1>18. /\ everything.counters.deploy = Cardinality({m \in DOMAIN h : h[m].category = "DEPLOY"})
       /\ everything.counters.hotfix = Cardinality({m \in DOMAIN h : h[m].category = "HOTFIX"})
  BY <1>4 DEF everything, buildServiceTimeline
<1>19. PICK leads, restores, T, R :
          /\ T = {k \in D : reached(E[k], {"DEPLOYED"}) # {}}
          /\ R = {k \in DOMAIN E : E[k].type = "INCIDENT" /\ E[k].resolvedAt # NoDate}
          /\ leads = [k \in T |-> leadTime(E[k])]
          /\ restores = [k \in R |-> E[k].resolvedAt - E[k].startedAt]
  OBVIOUS
<1>20. PICK dora : dora = computeDora(E, NoDate)
  OBVIOUS
<1>21. {k \in DOMAIN E : E[k].occurredAt >= NoDate} = DOMAIN E
  BY <1>9 DEF NoDate
<1>22. /\ dora.count = Cardinality(D) /\ dora.failures = Cardinality(F)
       /\ dora.leadTime = [samples |-> leads, median |-> doubledMedian(leads)]
       /\ dora.mttr = [samples |-> restores, median |-> doubledMedian(restores)]
  <2>1. {k \in D : E[k].rollbacks # {}} = F
    BY <1>8
  <2>2. QED
    BY <1>8, <1>19, <1>20, <1>21, <2>1 DEF computeDora
<1>23. ASSUME DOMAIN leads # {}
       PROVE  \E k, l \in DOMAIN leads : 2 * leads[k] <= doubledMedian(leads) /\ doubledMedian(leads) <= 2 * leads[l]
  <2>1. T \subseteq DOMAIN E /\ DOMAIN leads = T
    BY <1>8, <1>19
  <2>2. T \subseteq Int /\ IsFiniteSet(T)
    BY <1>2, <2>1, PlacesAreFinite
  <2>3. ASSUME NEW k \in T PROVE leads[k] \in Int
    <3>1. PICK S : S = reached(E[k], {"DEPLOYED"})
      OBVIOUS
    <3>2. S # {} /\ S \subseteq Nat
      BY <1>2, <1>19, <2>1, <3>1 DEF reached, Readable
    <3>3. lowest(S) \in Nat
      BY <3>2, LowestIs
    <3>4. E[k].occurredAt \in Nat /\ leads[k] = lowest(S) - E[k].occurredAt
      BY <1>9, <1>19, <2>1, <3>1 DEF leadTime
    <3>5. QED
      BY <3>3, <3>4
  <2>4. QED
    BY <1>23, <2>1, <2>2, <2>3, MedianIsBetween
<1>24. ASSUME DOMAIN restores # {}
       PROVE  \E k, l \in DOMAIN restores :
                  2 * restores[k] <= doubledMedian(restores) /\ doubledMedian(restores) <= 2 * restores[l]
  <2>1. R \subseteq DOMAIN E /\ DOMAIN restores = R
    BY <1>19
  <2>2. R \subseteq Int /\ IsFiniteSet(R)
    BY <1>2, <2>1, PlacesAreFinite
  <2>3. \A k \in R : restores[k] \in Int
    BY <1>2, <1>19, <2>1 DEF Readable
  <2>4. QED
    BY <1>24, <2>1, <2>2, <2>3, MedianIsBetween
<1>25. QED
  BY <1>1, <1>4, <1>14, <1>15, <1>16, <1>17, <1>18, <1>20, <1>22, <1>23, <1>24 DEF metricsCountTheList

\* What has all that comes before each of its members is the first few.
LEMMA FromTheFirst ==
    ASSUME NEW n \in Nat, NEW S, S \subseteq 1..n, \A m \in S : \A l \in 1..m : l \in S
    PROVE  Cardinality(S) \in 0..n /\ S = 1..Cardinality(S)
<1>1. PICK T : T = {l \in 1..(n + 1) : l \notin S}
  OBVIOUS
<1>2. n + 1 \in T /\ T \subseteq Nat
  BY <1>1
<1>3. PICK d : d = lowest(T)
  OBVIOUS
<1>4. d \in T /\ \A l \in T : d <= l
  BY <1>2, <1>3, LowestIs
<1>5. d \in 1..(n + 1) /\ d \notin S
  BY <1>1, <1>4
<1>6. \A l \in 1..(d - 1) : l \in S
  <2>1. SUFFICES ASSUME NEW l \in 1..(d - 1), l \notin S PROVE FALSE
    OBVIOUS
  <2>2. l \in 1..(n + 1) /\ ~(d <= l)
    BY <1>5, <2>1
  <2>3. QED
    BY <1>1, <1>4, <2>1, <2>2
<1>7. \A m \in S : m \in 1..(d - 1)
  <2>1. SUFFICES ASSUME NEW m \in S, m \notin 1..(d - 1) PROVE FALSE
    OBVIOUS
  <2>2. d \in 1..m
    BY <1>5, <2>1
  <2>3. QED
    BY <1>5, <2>2
<1>8. PICK b : b = d - 1 /\ b \in 0..n
  BY <1>5
<1>9. S = 1..b
  BY <1>6, <1>7, <1>8
<1>10. Cardinality(1..b) = IF 1 > b THEN 0 ELSE b - 1 + 1
  <2>1. 1 \in Int /\ b \in Int
    BY <1>8
  <2>2. QED
    BY <2>1, FS_Interval
<1>11. Cardinality(1..b) = b
  BY <1>8, <1>10
<1>12. QED
  BY <1>8, <1>9, <1>11

\* Places that follow each other are a part of the list.
LEMMA KeptRun ==
    ASSUME NEW list, NEW a \in Nat, NEW b \in Nat, a <= b
    PROVE  kept(list, (a + 1)..b) = [m \in 1..(b - a) |-> list[a + m]]
<1>1. PICK K, key : K = (a + 1)..b /\ key = [k \in K |-> 0]
  OBVIOUS
<1> DEFINE ahead(k) == {l \in K : key[l] < key[k] \/ (key[l] = key[k] /\ l < k)}
<1>2. Cardinality(K) = b - a
  <2>1. a + 1 \in Int /\ b \in Int
    OBVIOUS
  <2>2. Cardinality((a + 1)..b) = IF a + 1 > b THEN 0 ELSE b - (a + 1) + 1
    BY <2>1, FS_Interval
  <2>3. QED
    BY <1>1, <2>2
<1>3. ASSUME NEW k \in K PROVE Cardinality(ahead(k)) = k - 1 - a
  <2>1. \A l \in K : key[l] = 0 /\ l \in Int
    BY <1>1
  <2>2. PICK j : j = k - 1 /\ j \in Int /\ j >= a /\ j < b
    BY <1>1
  <2>3. ahead(k) = (a + 1)..j
    BY <1>1, <2>1, <2>2
  <2>4. a + 1 \in Int /\ j \in Int
    BY <2>2
  <2>5. Cardinality((a + 1)..j) = IF a + 1 > j THEN 0 ELSE j - (a + 1) + 1
    BY <2>4, FS_Interval
  <2>6. Cardinality((a + 1)..j) = j - a
    BY <2>2, <2>5
  <2>7. QED
    BY <2>2, <2>3, <2>6
<1>4. ASSUME NEW m \in 1..(b - a) PROVE (CHOOSE k \in K : Cardinality(ahead(k)) = m - 1) = a + m
  <2>1. a + m \in K /\ Cardinality(ahead(a + m)) = m - 1
    BY <1>1, <1>3
  <2>2. \A k \in K : Cardinality(ahead(k)) = m - 1 => k = a + m
    BY <1>1, <1>3
  <2>3. QED
    BY <2>1, <2>2
<1>5. kept(list, K) = [m \in 1..Cardinality(K) |-> list[CHOOSE k \in K : Cardinality(ahead(k)) = m - 1]]
  BY <1>1 DEF kept, arranged
<1>6. QED
  BY <1>1, <1>2, <1>4, <1>5

\* A list whose dates go down is of one month after the other.
LEMMA MonthAfterMonth ==
    ASSUME NEW h, Listed(h), \A m \in DOMAIN h : h[m].at \in Int,
           \A m, l \in DOMAIN h : m < l => h[m].at >= h[l].at
    PROVE  LET groups == groupByMonth(h)
           IN  \E passed \in [1..(Len(groups) + 1) -> 0..Len(h)] :
                   /\ passed[1] = 0 /\ passed[Len(groups) + 1] = Len(h)
                   /\ \A g \in DOMAIN groups :
                         passed[g] < passed[g + 1] /\ groups[g].entries = SubSeq(h, passed[g] + 1, passed[g + 1])
<1>1. PICK n, mon : n = Len(h) /\ mon = [m \in 1..n |-> month(h[m].at)]
  OBVIOUS
<1>2. n \in Nat /\ DOMAIN h = 1..n
  BY <1>1 DEF Listed
<1>3. \A m \in 1..n : mon[m] = month(h[m].at) /\ mon[m] \in Int
  <2>1. SUFFICES ASSUME NEW m \in 1..n PROVE mon[m] = month(h[m].at) /\ mon[m] \in Int
    OBVIOUS
  <2>2. h[m].at \in Int /\ h[m].at <= h[m].at
    BY <1>2
  <2>3. QED
    BY <1>1, <2>2, MonthsInOrder
<1>4. ASSUME NEW m \in 1..n, NEW l \in 1..n, m <= l PROVE mon[l] <= mon[m]
  <2>1. h[l].at <= h[m].at /\ h[l].at \in Int /\ h[m].at \in Int
    BY <1>2, <1>4
  <2>2. QED
    BY <1>3, <2>1, MonthsInOrder
<1>5. PICK months : months = {month(x.at) : x \in ToSet(h)}
  OBVIOUS
<1>6. (\A m \in 1..n : mon[m] \in months) /\ \A k \in months : \E m \in 1..n : mon[m] = k
  BY <1>2, <1>3, <1>5 DEF ToSet
<1>7. IsFiniteSet(months)
  <2>1. mon \in Surjection(1..n, months)
    BY <1>1, <1>6 DEF Surjection
  <2>2. IsFiniteSet(1..n)
    <3>1. 1 \in Int /\ n \in Int
      BY <1>2
    <3>2. QED
      BY <3>1, FS_Interval
  <2>3. QED
    BY <2>1, <2>2, FS_Surjection
<1>8. months \subseteq Int
  BY <1>3, <1>6
<1>9. PICK self, key, G : self = [k \in months |-> k] /\ key = [k \in months |-> -k] /\ G = Cardinality(months)
  OBVIOUS
<1>10. \A k \in months : key[k] \in Int
  BY <1>8, <1>9
<1>11. PICK q : Lined(q, months, key) /\ Taken(arranged(self, months, key), self, q, months)
  BY <1>7, <1>8, <1>10, ArrangedIs
<1>12. PICK keys : keys = arranged(self, months, key)
  OBVIOUS
<1>13. G \in Nat
  BY <1>7, <1>9, FS_CardinalityType
<1>14. DOMAIN keys = 1..G /\ \A g \in 1..G : keys[g] \in months /\ keys[g] \in Int
  BY <1>8, <1>9, <1>11, <1>12 DEF Taken, Lined
<1>15. \A k \in months : \E g \in 1..G : keys[g] = k
  BY <1>9, <1>11, <1>12 DEF Taken, Lined
<1>16. ASSUME NEW a \in 1..G, NEW b \in 1..G, a < b PROVE keys[a] > keys[b]
  <2>1. PICK k, l : k = q[a] /\ l = q[b]
    OBVIOUS
  <2>2. Ahead(key, k, l) /\ k \in months /\ l \in months
    BY <1>9, <1>11, <1>16, <2>1 DEF Lined
  <2>3. keys[a] = k /\ keys[b] = l
    BY <1>9, <1>11, <1>12, <2>1, <2>2 DEF Taken
  <2>4. k \in Int /\ l \in Int /\ key[k] = -k /\ key[l] = -l
    BY <1>8, <1>9, <2>2
  <2>5. QED
    BY <2>2, <2>3, <2>4 DEF Ahead
<1>17. PICK groups : groups = groupByMonth(h)
  OBVIOUS
<1>18. groups = [g \in 1..G |-> [key |-> keys[g], entries |-> kept(h, {m \in 1..n : mon[m] = keys[g]})]]
  <2>1. \A g : {m \in DOMAIN h : month(h[m].at) = keys[g]} = {m \in 1..n : mon[m] = keys[g]}
    BY <1>2, <1>3
  <2>2. groups = [g \in DOMAIN keys |-> [key |-> keys[g],
                      entries |-> kept(h, {m \in DOMAIN h : month(h[m].at) = keys[g]})]]
    BY <1>5, <1>9, <1>12, <1>17 DEF groupByMonth
  <2>3. QED
    BY <1>14, <2>1, <2>2
<1>19. DOMAIN groups = 1..G /\ \A g \in 1..G : groups[g].entries = kept(h, {m \in 1..n : mon[m] = keys[g]})
  BY <1>18
<1>20. Len(groups) = G
  BY <1>13, <1>18
<1> DEFINE Later(k) == {m \in 1..n : mon[m] > k}
<1>21. ASSUME NEW k \in Int PROVE Cardinality(Later(k)) \in 0..n /\ Later(k) = 1..Cardinality(Later(k))
  <2>1. PICK S : S = Later(k)
    OBVIOUS
  <2>2. ASSUME NEW m \in S, NEW l \in 1..m PROVE l \in S
    <3>1. m \in 1..n /\ l \in 1..n /\ l <= m
      BY <1>2, <2>1
    <3>2. mon[m] <= mon[l] /\ mon[m] > k /\ mon[m] \in Int /\ mon[l] \in Int
      BY <1>3, <1>4, <2>1, <3>1
    <3>3. QED
      BY <2>1, <3>1, <3>2
  <2>3. S \subseteq 1..n
    BY <2>1
  <2>4. QED
    BY <1>2, <2>1, <2>2, <2>3, FromTheFirst
<1>22. PICK passed : passed = [g \in 1..(G + 1) |-> IF g = G + 1 THEN n ELSE Cardinality(Later(keys[g]))]
  OBVIOUS
<1>23. \A g \in 1..G : passed[g] = Cardinality(Later(keys[g])) /\ passed[g] \in 0..n
  <2>1. \A g \in 1..G : g \in 1..(G + 1) /\ g # G + 1
    BY <1>13
  <2>2. \A g \in 1..G : Cardinality(Later(keys[g])) \in 0..n
    BY <1>14, <1>21
  <2>3. QED
    BY <1>22, <2>1, <2>2
<1>24. passed[G + 1] = n /\ passed \in [1..(G + 1) -> 0..n]
  <2>1. G + 1 \in 1..(G + 1) /\ \A g \in 1..(G + 1) : g = G + 1 \/ g \in 1..G
    BY <1>13
  <2>2. n \in 0..n
    BY <1>2
  <2>3. passed[G + 1] = n
    BY <1>22, <2>1
  <2>4. \A g \in 1..(G + 1) : passed[g] \in 0..n
    BY <1>23, <2>1, <2>2, <2>3
  <2>5. QED
    BY <1>22, <2>3, <2>4
<1>25. passed[1] = 0
  <2>1. CASE G = 0
    <3>1. months = {}
      BY <1>7, <1>9, <2>1, FS_EmptySet
    <3>2. n = 0
      BY <1>2, <1>6, <3>1
    <3>3. QED
      BY <1>24, <2>1, <3>2
  <2>2. CASE G # 0
    <3>1. 1 \in 1..G
      BY <1>13, <2>2
    <3>2. ASSUME NEW m \in 1..n, mon[m] > keys[1] PROVE FALSE
      <4>1. PICK b \in 1..G : keys[b] = mon[m]
        BY <1>6, <1>15
      <4>2. b = 1 \/ 1 < b
        BY <1>13
      <4>3. ~(keys[b] > keys[1])
        BY <1>14, <1>16, <3>1, <4>1, <4>2
      <4>4. QED
        BY <3>2, <4>1, <4>3
    <3>3. Later(keys[1]) = {}
      BY <3>2
    <3>4. QED
      BY <1>23, <3>1, <3>3, FS_EmptySet
  <2>3. QED
    BY <2>1, <2>2
<1>26. ASSUME NEW g \in 1..G
       PROVE  passed[g] < passed[g + 1] /\ groups[g].entries = SubSeq(h, passed[g] + 1, passed[g + 1])
  <2>1. PICK a, b, C : a = passed[g] /\ b = passed[g + 1] /\ C = {m \in 1..n : mon[m] = keys[g]}
    OBVIOUS
  <2>2. a \in 0..n /\ b \in 0..n
    BY <1>13, <1>23, <1>24, <2>1
  <2>3. Later(keys[g]) = 1..a
    BY <1>14, <1>21, <1>23, <2>1
  <2>4. {m \in 1..n : mon[m] >= keys[g]} = 1..b
    <3>1. CASE g = G
      <4>1. \A m \in 1..n : mon[m] >= keys[g]
        <5>1. SUFFICES ASSUME NEW m \in 1..n PROVE mon[m] >= keys[g]
          OBVIOUS
        <5>2. PICK c \in 1..G : keys[c] = mon[m]
          BY <1>6, <1>15
        <5>3. c = g \/ c < g
          BY <1>13, <3>1
        <5>4. QED
          BY <1>14, <1>16, <5>2, <5>3
      <4>2. b = n
        BY <1>24, <2>1, <3>1
      <4>3. QED
        BY <4>1, <4>2
    <3>2. CASE g # G
      <4>1. g + 1 \in 1..G
        BY <1>13, <3>2
      <4>2. ASSUME NEW m \in 1..n PROVE mon[m] >= keys[g] <=> mon[m] > keys[g + 1]
        <5>1. PICK c \in 1..G : keys[c] = mon[m]
          BY <1>6, <1>15
        <5>2. c < g \/ c = g \/ c = g + 1 \/ c > g + 1
          BY <1>13
        <5>3. keys[g] > keys[g + 1]
          BY <1>13, <1>16, <4>1
        <5>4. /\ c < g => keys[c] > keys[g]
              /\ c > g + 1 => keys[g + 1] > keys[c]
          BY <1>16, <4>1
        <5>5. keys[c] \in Int /\ keys[g] \in Int /\ keys[g + 1] \in Int
          BY <1>14, <4>1
        <5>6. QED
          BY <5>1, <5>2, <5>3, <5>4, <5>5
      <4>3. {m \in 1..n : mon[m] >= keys[g]} = Later(keys[g + 1])
        BY <4>2
      <4>4. Later(keys[g + 1]) = 1..b
        BY <1>14, <1>21, <1>23, <2>1, <4>1
      <4>5. QED
        BY <4>3, <4>4
    <3>3. QED
      BY <3>1, <3>2
  <2>5. \A m \in 1..n : (m \in 1..a <=> mon[m] > keys[g]) /\ (m \in 1..b <=> mon[m] >= keys[g])
    BY <2>3, <2>4
  <2>6. \A m \in 1..n : mon[m] \in Int /\ keys[g] \in Int
    BY <1>3, <1>14
  <2>7. C = (a + 1)..b
    <3>1. \A m \in 1..n : mon[m] = keys[g] <=> m \in 1..b /\ m \notin 1..a
      BY <2>5, <2>6
    <3>2. QED
      BY <1>2, <2>1, <2>2, <3>1
  <2>8. C # {}
    BY <1>6, <1>14, <2>1
  <2>9. a < b
    BY <2>2, <2>7, <2>8
  <2>10. groups[g].entries = kept(h, (a + 1)..b)
    BY <1>19, <2>1, <2>7
  <2>11. kept(h, (a + 1)..b) = [m \in 1..(b - a) |-> h[a + m]]
    <3>1. a \in Nat /\ b \in Nat /\ a <= b
      BY <2>2, <2>9
    <3>2. \A x, y \in Nat : x <= y => kept(h, (x + 1)..y) = [m \in 1..(y - x) |-> h[x + m]]
      BY ONLY KeptRun
    <3>3. QED
      BY <3>1, <3>2
  <2>12. SubSeq(h, a + 1, b) = [m \in 1..(b - a) |-> h[a + m]]
    <3>1. a \in Nat /\ b \in Nat
      BY <2>2
    <3>2. SubSeq(h, a + 1, b) = [m \in 1..(b - (a + 1) + 1) |-> h[(a + 1) + m - 1]]
      BY <3>1
    <3>3. b - (a + 1) + 1 = b - a /\ \A m \in 1..(b - a) : (a + 1) + m - 1 = a + m
      BY <3>1
    <3>4. QED
      BY <3>2, <3>3
  <2>13. QED
    BY <2>1, <2>9, <2>10, <2>11, <2>12
<1>27. QED
  BY <1>1, <1>17, <1>19, <1>20, <1>24, <1>25, <1>26

\* Months put together are the history.
LEMMA MonthsKeep == ReadInv => monthsKeepTheOrder
<1> SUFFICES ASSUME ReadInv PROVE monthsKeepTheOrder
  OBVIOUS
<1>1. PICK E, now, h : E = pane.events /\ now = pane.at /\ h = everything.history
  OBVIOUS
<1>2. \A k \in DOMAIN E : Readable(E[k], now)
  BY <1>1 DEF ReadInv
<1>3. PICK en, q : LET K == {k \in DOMAIN E : ~pinned(en[k])}
                   IN  OfEvent(en, E, now) /\ HistoryOf(h, en, q, K) /\ Keyed(K, Below(en, K))
  BY <1>1, HistoryIs
<1>4. PICK K : K = {k \in DOMAIN E : ~pinned(en[k])}
  OBVIOUS
<1>5. OfEvent(en, E, now) /\ HistoryOf(h, en, q, K) /\ Keyed(K, Below(en, K)) /\ K \subseteq DOMAIN E
  BY <1>3, <1>4
<1>6. \A k \in K : en[k].at \in Int
  BY <1>2, <1>5, EntryIs DEF OfEvent, Readable
<1>7. h = [m \in 1..Cardinality(K) |-> en[q[m]]] /\ Cardinality(K) \in Nat
  BY <1>5, FS_CardinalityType DEF HistoryOf, Taken, Keyed
<1>8. Listed(h)
  BY <1>7 DEF Listed
<1>9. \A m \in DOMAIN h : h[m] = en[q[m]] /\ q[m] \in K /\ h[m].at \in Int
  BY <1>5, <1>6, <1>7 DEF HistoryOf, Lined
<1>10. ASSUME NEW m \in DOMAIN h, NEW l \in DOMAIN h, m < l PROVE h[m].at >= h[l].at
  <2>1. PICK a, b : a = q[m] /\ b = q[l]
    OBVIOUS
  <2>2. Ahead(Below(en, K), a, b) /\ a \in K /\ b \in K
    BY <1>5, <1>7, <1>9, <1>10, <2>1 DEF HistoryOf, Lined
  <2>3. Below(en, K)[a] = -en[a].at /\ Below(en, K)[b] = -en[b].at
    BY <2>2 DEF Below
  <2>4. en[a].at \in Int /\ en[b].at \in Int
    BY <1>6, <2>2
  <2>5. en[a].at >= en[b].at
    BY <2>2, <2>3, <2>4 DEF Ahead
  <2>6. QED
    BY <1>9, <2>1, <2>5
<1>11. LET groups == groupByMonth(h)
       IN  \E passed \in [1..(Len(groups) + 1) -> 0..Len(h)] :
               /\ passed[1] = 0 /\ passed[Len(groups) + 1] = Len(h)
               /\ \A g \in DOMAIN groups :
                     passed[g] < passed[g + 1] /\ groups[g].entries = SubSeq(h, passed[g] + 1, passed[g + 1])
  BY <1>8, <1>9, <1>10, MonthAfterMonth
<1>12. QED
  BY <1>1, <1>11 DEF monthsKeepTheOrder

-------------------------------------------------------------------------------
\* The versions in place, deployment by deployment.
SeenBy(f, n, D) == f = [m \in 0..n |-> IF m = 0 THEN << >> ELSE replacing(f[m - 1], D[m])]

\* currentByEnvironment, step by step.
LEMMA SeenIs ==
    ASSUME NEW D, Listed(D)
    PROVE  \E f : SeenBy(f, Len(D), D) /\ currentByEnvironment(D) = f[Len(D)]
<1>1. PICK N : N = Len(D) /\ N \in Nat
  BY DEF Listed
<1>2. PICK T : T = {n \in 0..N : ~ \E f : SeenBy(f, n, D)}
  OBVIOUS
<1>3. T = {}
  <2>1. SUFFICES ASSUME T # {} PROVE FALSE
    OBVIOUS
  <2>2. T \subseteq Nat
    BY <1>2
  <2>3. PICK n : n = lowest(T)
    OBVIOUS
  <2>4. n \in T /\ \A m \in T : n <= m
    BY <2>1, <2>2, <2>3, LowestIs
  <2>5. n \in 0..N
    BY <1>2, <2>4
  <2>6. CASE n = 0
    <3>1. PICK f : f = [m \in 0..0 |-> << >>]
      OBVIOUS
    <3>2. \A m \in 0..0 : m = 0
      OBVIOUS
    <3>3. SeenBy(f, 0, D)
      BY <3>1, <3>2 DEF SeenBy
    <3>4. QED
      BY <1>2, <2>4, <2>6, <3>3
  <2>7. CASE n # 0
    <3>1. n - 1 \in 0..N /\ ~(n <= n - 1)
      BY <1>1, <2>5, <2>7
    <3>2. n - 1 \notin T
      BY <2>4, <3>1
    <3>3. PICK g : SeenBy(g, n - 1, D)
      BY <1>2, <3>1, <3>2
    <3>4. PICK f : f = [m \in 0..n |-> IF m = n THEN replacing(g[n - 1], D[n]) ELSE g[m]]
      OBVIOUS
    <3>5. \A m \in 0..(n - 1) : f[m] = g[m]
      BY <2>5, <2>7, <3>4
    <3>6. \A m \in 0..(n - 1) : g[m] = IF m = 0 THEN << >> ELSE replacing(g[m - 1], D[m])
      BY <3>3 DEF SeenBy
    <3>7. ASSUME NEW m \in 0..n PROVE f[m] = IF m = 0 THEN << >> ELSE replacing(f[m - 1], D[m])
      <4>1. CASE m = n
        <5>1. n - 1 \in 0..(n - 1)
          BY <2>5, <2>7
        <5>2. f[n] = replacing(g[n - 1], D[n]) /\ f[n - 1] = g[n - 1]
          BY <2>5, <3>4, <3>5, <5>1
        <5>3. QED
          BY <2>7, <4>1, <5>2
      <4>2. CASE m # n
        <5>1. m \in 0..(n - 1) /\ (m # 0 => m - 1 \in 0..(n - 1))
          BY <2>5, <4>2
        <5>2. QED
          BY <3>5, <3>6, <5>1
      <4>3. QED
        BY <4>1, <4>2
    <3>8. SeenBy(f, n, D)
      BY <3>4, <3>7 DEF SeenBy
    <3>9. QED
      BY <1>2, <2>4, <3>8
  <2>8. QED
    BY <2>6, <2>7
<1>4. \E f : SeenBy(f, N, D)
  BY <1>1, <1>2, <1>3
<1>5. PICK f : f = CHOOSE g : SeenBy(g, N, D)
  OBVIOUS
<1>6. SeenBy(f, N, D)
  BY <1>4, <1>5
<1>7. f = CHOOSE g : g = [m \in 0..N |-> IF m = 0 THEN << >> ELSE replacing(g[m - 1], D[m])]
  BY <1>5 DEF SeenBy
<1>8. currentByEnvironment(D) = f[N]
  BY <1>1, <1>7 DEF currentByEnvironment
<1>9. QED
  BY <1>1, <1>6, <1>8

\* What was seen of the first n: nothing is later.
LatestOf(seen, D, n) ==
    /\ \A env \in DOMAIN seen : seen[env].occurredAt \in Int
    /\ \A i \in 1..n : /\ D[i].environment \in DOMAIN seen
                       /\ D[i].occurredAt <= seen[D[i].environment].occurredAt

\* The next deployment replaces one that is not newer.
LEMMA ReplacingIs ==
    ASSUME NEW D, NEW n \in Nat, \A i \in 1..(n + 1) : D[i].occurredAt \in Int,
           NEW seen, LatestOf(seen, D, n)
    PROVE  LatestOf(replacing(seen, D[n + 1]), D, n + 1)
<1>1. PICK d, s : d = D[n + 1] /\ s = replacing(seen, d)
  OBVIOUS
<1>2. d.occurredAt \in Int
  BY <1>1
<1>3. CASE d.environment \in DOMAIN seen /\ d.occurredAt <= seen[d.environment].occurredAt
  <2>1. s = seen
    BY <1>1, <1>3 DEF replacing
  <2>2. \A i \in 1..(n + 1) : i \in 1..n \/ D[i] = d
    BY <1>1
  <2>3. QED
    BY <1>1, <1>3, <2>1, <2>2 DEF LatestOf
<1>4. CASE ~(d.environment \in DOMAIN seen /\ d.occurredAt <= seen[d.environment].occurredAt)
  <2>1. s = [env \in DOMAIN seen \cup {d.environment} |-> IF env = d.environment THEN d ELSE seen[env]]
    BY <1>1, <1>4 DEF replacing
  <2>2. /\ d.environment \in DOMAIN s /\ s[d.environment] = d
        /\ \A env \in DOMAIN seen : env \in DOMAIN s /\ (env # d.environment => s[env] = seen[env])
        /\ \A env \in DOMAIN s : env = d.environment \/ env \in DOMAIN seen
    BY <2>1
  <2>3. \A env \in DOMAIN s : s[env].occurredAt \in Int
    BY <1>2, <2>2 DEF LatestOf
  <2>4. ASSUME NEW i \in 1..(n + 1)
        PROVE  D[i].environment \in DOMAIN s /\ D[i].occurredAt <= s[D[i].environment].occurredAt
    <3>1. CASE D[i] = d
      BY <1>2, <2>2, <3>1
    <3>2. CASE D[i] # d
      <4>1. i \in 1..n
        BY <1>1, <3>2
      <4>2. PICK env, x : env = D[i].environment /\ x = D[i].occurredAt
        OBVIOUS
      <4>3. env \in DOMAIN seen /\ x <= seen[env].occurredAt /\ x \in Int /\ seen[env].occurredAt \in Int
        BY <4>1, <4>2 DEF LatestOf
      <4>4. CASE env # d.environment
        BY <2>2, <4>2, <4>3, <4>4
      <4>5. CASE env = d.environment
        <5>1. seen[env].occurredAt < d.occurredAt
          BY <1>2, <1>4, <4>3, <4>5
        <5>2. x <= d.occurredAt
          BY <1>2, <4>3, <5>1
        <5>3. QED
          BY <2>2, <4>2, <4>5, <5>2
      <4>6. QED
        BY <4>4, <4>5
    <3>3. QED
      BY <3>1, <3>2
  <2>5. QED
    BY <1>1, <2>3, <2>4 DEF LatestOf
<1>5. QED
  BY <1>3, <1>4

\* None of an environment is newer than the one in place.
LEMMA CurrentIsLatest ==
    ASSUME NEW D, Listed(D), \A i \in DOMAIN D : D[i].occurredAt \in Int
    PROVE  LatestOf(currentByEnvironment(D), D, Len(D))
<1>1. PICK N : N = Len(D) /\ N \in Nat /\ DOMAIN D = 1..N
  BY DEF Listed
<1>2. PICK f : SeenBy(f, N, D) /\ currentByEnvironment(D) = f[N]
  BY <1>1, SeenIs
<1>3. PICK T : T = {n \in 0..N : ~LatestOf(f[n], D, n)}
  OBVIOUS
<1>4. T = {}
  <2>1. SUFFICES ASSUME T # {} PROVE FALSE
    OBVIOUS
  <2>2. T \subseteq Nat
    BY <1>3
  <2>3. PICK n : n = lowest(T)
    OBVIOUS
  <2>4. n \in T /\ \A m \in T : n <= m
    BY <2>1, <2>2, <2>3, LowestIs
  <2>5. n \in 0..N
    BY <1>3, <2>4
  <2>6. CASE n = 0
    <3>1. f[0] = << >>
      BY <1>1, <1>2 DEF SeenBy
    <3>2. DOMAIN f[0] = {} /\ 1..0 = {}
      BY <3>1
    <3>3. LatestOf(f[0], D, 0)
      BY <3>2 DEF LatestOf
    <3>4. QED
      BY <1>3, <2>4, <2>6, <3>3
  <2>7. CASE n # 0
    <3>1. PICK m : m = n - 1 /\ m \in Nat /\ m \in 0..N /\ n = m + 1 /\ ~(n <= m)
      BY <1>1, <2>5, <2>7
    <3>2. LatestOf(f[m], D, m)
      BY <1>3, <2>4, <3>1
    <3>3. \A i \in 1..(m + 1) : D[i].occurredAt \in Int
      BY <1>1, <2>5, <3>1
    <3>4. f[n] = replacing(f[m], D[m + 1])
      BY <1>2, <2>5, <2>7, <3>1 DEF SeenBy
    <3>5. LatestOf(f[n], D, n)
      BY <3>1, <3>2, <3>3, <3>4, ReplacingIs
    <3>6. QED
      BY <1>3, <2>4, <3>5
  <2>8. QED
    BY <2>6, <2>7
<1>5. QED
  BY <1>1, <1>2, <1>3, <1>4

\* The version in place is the topmost of its environment.
LEMMA TopmostCurrent == ReadInv => topmostIsCurrent
<1> SUFFICES ASSUME ReadInv, NEW env \in DOMAIN currentVersions(pane.events),
                    NEW e \in ToSet(pane.events), deployment(e), e.environment = env
             PROVE  e.occurredAt <= currentVersions(pane.events)[env].occurredAt
  BY DEF topmostIsCurrent
<1>1. PICK E, K : E = pane.events /\ K = {k \in DOMAIN E : deployment(E[k])}
  OBVIOUS
<1>2. Listed(E) /\ \A k \in DOMAIN E : E[k].occurredAt \in Nat
  BY <1>1 DEF ReadInv, Readable
<1>3. K \subseteq Int /\ IsFiniteSet(K) /\ Cardinality(K) \in Nat /\ K \subseteq DOMAIN E
  BY <1>1, <1>2, PlacesAreFinite
<1>4. PICK s, N : s = kept(E, K) /\ N = Cardinality(K)
  OBVIOUS
<1>5. DOMAIN s = 1..N /\ ToSet(s) = {E[k] : k \in K}
  BY <1>3, <1>4, KeptHolds
<1>6. PICK q : Taken(s, E, q, K)
  BY <1>3, <1>4, KeptIs
<1>7. s = [m \in 1..N |-> E[q[m]]] /\ N \in Nat
  BY <1>3, <1>4, <1>6 DEF Taken
<1>8. Len(s) = N
  BY <1>7
<1>9. PICK D : D = Reverse(s)
  OBVIOUS
<1>10. D = [i \in 1..N |-> s[(N - i) + 1]]
  BY <1>8, <1>9 DEF Reverse
<1>11. Listed(D) /\ Len(D) = N
  BY <1>7, <1>10 DEF Listed
<1>12. \A i \in DOMAIN D : D[i].occurredAt \in Int
  <2>1. SUFFICES ASSUME NEW i \in DOMAIN D PROVE D[i].occurredAt \in Int
    OBVIOUS
  <2>2. D[i] \in ToSet(s)
    BY <1>5, <1>7, <1>10 DEF ToSet
  <2>3. QED
    BY <1>2, <1>3, <1>5, <2>2
<1>13. LatestOf(currentByEnvironment(D), D, N)
  BY <1>11, <1>12, CurrentIsLatest
<1>14. currentVersions(E) = currentByEnvironment(D)
  BY <1>1, <1>4, <1>9 DEF currentVersions
<1>15. \E i \in 1..N : D[i] = e
  <2>1. e \in ToSet(s)
    BY <1>1, <1>5 DEF ToSet
  <2>2. PICK m \in 1..N : s[m] = e
    BY <1>5, <2>1 DEF ToSet
  <2>3. (N - m) + 1 \in 1..N /\ (N - ((N - m) + 1)) + 1 = m
    BY <1>7, <2>2
  <2>4. D[(N - m) + 1] = e
    BY <1>10, <2>2, <2>3
  <2>5. QED
    BY <2>3, <2>4
<1>16. QED
  BY <1>1, <1>13, <1>14, <1>15 DEF LatestOf

\* A lot warns of members that stayed when its main service went back.
LEMMA LotsWarn == ReadInv => lotsWarnOfTheirOwn
<1> SUFFICES ASSUME ReadInv, NEW key \in DOMAIN pane.lots
             PROVE  LET warnings == lotRollbackWarnings(pane.lots, Masters)
                        members == ToSet(pane.lots[key])
                        main == {m \in members : m.service \in Masters}
                        stayed == {m.service : m \in {n \in members \ main : n.rollbacks = {}}}
                    IN  /\ key \in DOMAIN warnings => warnings[key] = stayed /\ \E m \in main : m.rollbacks # {}
                        /\ Cardinality(main) = 1 /\ (\A m \in main : m.rollbacks # {}) /\ stayed # {}
                              => key \in DOMAIN warnings
  BY DEF lotsWarnOfTheirOwn
<1>1. PICK L, list, gap, warnings : /\ L = pane.lots /\ list = L[key]
                                    /\ gap = lotRollbackGap(list, Masters)
                                    /\ warnings = lotRollbackWarnings(L, Masters)
  OBVIOUS
<1>2. PICK n \in Nat : DOMAIN list = 1..n
  BY <1>1 DEF ReadInv
<1>3. (key \in DOMAIN warnings <=> gap # {}) /\ (key \in DOMAIN warnings => warnings[key] = gap)
  BY <1>1 DEF lotRollbackWarnings
<1>4. PICK members, main, stayed, ofMain :
          /\ members = ToSet(list)
          /\ main = {m \in members : m.service \in Masters}
          /\ stayed = {m.service : m \in {x \in members \ main : x.rollbacks = {}}}
          /\ ofMain = {k \in DOMAIN list : list[k].service \in Masters}
  OBVIOUS
<1>5. {m.service : m \in {x \in members : x.service \notin Masters /\ x.rollbacks = {}}} = stayed
  <2>1. {x \in members : x.service \notin Masters /\ x.rollbacks = {}} = {x \in members \ main : x.rollbacks = {}}
    BY <1>4
  <2>2. QED
    BY <1>4, <2>1
<1>6. gap = IF ofMain = {} \/ list[lowest(ofMain)].rollbacks = {} THEN {} ELSE stayed
  BY <1>1, <1>4, <1>5 DEF lotRollbackGap
<1>7. ofMain # {} => lowest(ofMain) \in ofMain
  BY <1>2, <1>4, LowestIs
<1>8. ofMain # {} => list[lowest(ofMain)] \in main
  BY <1>4, <1>7 DEF ToSet
<1>9. ASSUME key \in DOMAIN warnings PROVE warnings[key] = stayed /\ \E m \in main : m.rollbacks # {}
  BY <1>3, <1>6, <1>8, <1>9
<1>10. ASSUME Cardinality(main) = 1, \A m \in main : m.rollbacks # {}, stayed # {}
       PROVE  key \in DOMAIN warnings
  <2>1. main # {}
    BY <1>10, FS_EmptySet
  <2>2. ofMain # {}
    BY <1>4, <2>1 DEF ToSet
  <2>3. gap = stayed
    BY <1>6, <1>8, <1>10, <2>2
  <2>4. QED
    BY <1>3, <1>10, <2>3
<1>11. QED
  BY <1>1, <1>4, <1>9, <1>10

-------------------------------------------------------------------------------
\* The steps of a release: one in each environment it went to, in the order of their dates.
StepsOf(steps, E) ==
    /\ Listed(steps)
    /\ \A n \in DOMAIN steps : steps[n] \in ToSet(E) /\ steps[n].occurredAt \in Nat
    /\ \A m, n \in DOMAIN steps : steps[m].environment = steps[n].environment => m = n
    /\ \A m, n \in DOMAIN steps : m < n => steps[m].occurredAt <= steps[n].occurredAt

\* The first of some builds is one of them, and the oldest.
LEMMA FirstInIs ==
    ASSUME NEW E, \A k \in DOMAIN E : E[k].occurredAt \in Nat,
           NEW P, P \subseteq DOMAIN E, P \subseteq Nat, P # {}
    PROVE  \E k \in P : firstIn(E, P) = E[k]
<1>1. PICK O : O = {E[k].occurredAt : k \in P}
  OBVIOUS
<1>2. O \subseteq Nat /\ O # {}
  BY <1>1
<1>3. lowest(O) \in O /\ \A x \in O : lowest(O) <= x
  BY <1>2, LowestIs
<1>4. PICK k \in P : E[k].occurredAt = lowest(O)
  BY <1>1, <1>3
<1>5. PICK M : M = {m \in P : \A l \in P : E[m].occurredAt <= E[l].occurredAt}
  OBVIOUS
<1>6. k \in M
  BY <1>1, <1>3, <1>4, <1>5
<1>7. lowest(M) \in M
  BY <1>5, <1>6, LowestIs
<1>8. QED
  BY <1>5, <1>7 DEF firstIn

\* A release has one step in each environment it reached, the oldest first.
LEMMA StepsAre ==
    ASSUME NEW E, Listed(E), \A k \in DOMAIN E : E[k].occurredAt \in Nat,
           NEW B, B \subseteq DOMAIN E
    PROVE  StepsOf(releaseSteps(E, B), E)
<1> DEFINE alike(k) == {l \in B : E[l].environment = E[k].environment}
<1>1. PICK F, list : F = {k \in B : k = lowest(alike(k))} /\ list = [k \in F |-> firstIn(E, alike(k))]
  OBVIOUS
<1>2. B \subseteq Nat /\ F \subseteq Int /\ IsFiniteSet(F) /\ Cardinality(F) \in Nat
  BY <1>1, PlacesAreFinite
<1>3. ASSUME NEW k \in F
      PROVE  \E l \in B : list[k] = E[l] /\ E[l].environment = E[k].environment
  <2>1. PICK P : P = alike(k)
    OBVIOUS
  <2>2. P \subseteq DOMAIN E /\ P \subseteq Nat /\ k \in P
    BY <1>1, <1>2, <2>1
  <2>3. PICK l \in P : firstIn(E, P) = E[l]
    BY <2>2, FirstInIs
  <2>4. QED
    BY <1>1, <2>1, <2>3
<1>4. \A k \in F : list[k].environment = E[k].environment /\ list[k] \in ToSet(E) /\ list[k].occurredAt \in Nat
  BY <1>3 DEF ToSet
<1>5. ASSUME NEW k \in F, NEW l \in F, E[k].environment = E[l].environment PROVE k = l
  <2>1. alike(k) = alike(l)
    BY <1>5
  <2>2. QED
    BY <1>1, <2>1
<1>6. PICK key : key = [k \in F |-> list[k].occurredAt]
  OBVIOUS
<1>7. \A k \in F : key[k] \in Int /\ key[k] = list[k].occurredAt
  BY <1>4, <1>6
<1>8. PICK steps : steps = arranged(list, F, key)
  OBVIOUS
<1>9. steps = releaseSteps(E, B)
  BY <1>1, <1>6, <1>8 DEF releaseSteps, oldestFirst
<1>10. PICK q : Lined(q, F, key) /\ Taken(steps, list, q, F)
  BY <1>2, <1>7, <1>8, ArrangedIs
<1>11. PICK N : N = Cardinality(F) /\ N \in Nat
  BY <1>2
<1>12. steps = [m \in 1..N |-> list[q[m]]] /\ \A m \in 1..N : q[m] \in F
  BY <1>10, <1>11 DEF Lined, Taken
<1>13. Listed(steps) /\ DOMAIN steps = 1..N
  BY <1>11, <1>12 DEF Listed
<1>14. \A m \in 1..N : steps[m] = list[q[m]] /\ q[m] \in F
  BY <1>12
<1>15. \A m \in 1..N : steps[m] \in ToSet(E) /\ steps[m].occurredAt \in Nat
  BY <1>4, <1>14
<1>16. ASSUME NEW m \in 1..N, NEW n \in 1..N, m < n
       PROVE  steps[m].occurredAt <= steps[n].occurredAt /\ q[m] # q[n]
  <2>1. PICK a, b : a = q[m] /\ b = q[n]
    OBVIOUS
  <2>2. Ahead(key, a, b) /\ a \in F /\ b \in F
    BY <1>10, <1>11, <1>14, <1>16, <2>1 DEF Lined
  <2>3. key[a] \in Int /\ key[b] \in Int /\ a \in Int /\ b \in Int
    BY <1>2, <1>7, <2>2
  <2>4. key[a] <= key[b] /\ a # b
    BY <2>2, <2>3 DEF Ahead
  <2>5. QED
    BY <1>7, <1>14, <2>1, <2>2, <2>4
<1>17. ASSUME NEW m \in 1..N, NEW n \in 1..N, steps[m].environment = steps[n].environment PROVE m = n
  <2>1. q[m] = q[n]
    BY <1>4, <1>5, <1>14, <1>17
  <2>2. ~(m < n) /\ ~(n < m)
    BY <1>16, <2>1
  <2>3. QED
    BY <1>11, <2>2
<1>18. StepsOf(steps, E)
  BY <1>13, <1>15, <1>16, <1>17 DEF StepsOf
<1>19. QED
  BY <1>9, <1>18

\* Where an environment is in the workflow, if it is.
LEMMA PositionIs ==
    ASSUME NEW W, Listed(W), NEW env
    PROVE  /\ position(W, env) \in 0..Len(W)
           /\ position(W, env) # 0 => W[position(W, env)] = env
           /\ position(W, env) = 0 => \A k \in DOMAIN W : W[k] # env
<1>1. PICK S : S = {k \in DOMAIN W : W[k] = env}
  OBVIOUS
<1>2. S \subseteq Nat /\ DOMAIN W = 1..Len(W) /\ Len(W) \in Nat
  BY <1>1 DEF Listed
<1>3. CASE env \in ToSet(W)
  <2>1. S # {}
    BY <1>1, <1>3 DEF ToSet
  <2>2. lowest(S) \in S
    BY <1>2, <2>1, LowestIs
  <2>3. position(W, env) = lowest(S)
    BY <1>1, <1>3 DEF position
  <2>4. QED
    BY <1>1, <1>2, <2>2, <2>3
<1>4. CASE env \notin ToSet(W)
  <2>1. position(W, env) = 0
    BY <1>4 DEF position
  <2>2. QED
    BY <1>2, <1>4, <2>1 DEF ToSet
<1>5. QED
  BY <1>3, <1>4

\* A release that is judged to respect the workflow went through a prefix of it, in order;
\* and one that did, on days that differ, is judged to.
LEMMA TraceFollows ==
    ASSUME ReadInv, NEW version
    PROVE  LET steps == ToSet(traceRelease(pane.events, version, Workflow).steps)
               first(env) == {x.occurredAt : x \in steps \cap {y \in ToSet(pane.events) : y.environment = env}}
               reachedEnvs == {k \in DOMAIN Workflow : first(Workflow[k]) # {} /\ k = position(Workflow, Workflow[k])}
               prefix == \A k \in reachedEnvs : \A j \in 1..k : first(Workflow[j]) # {}
               day(k) == lowest(first(Workflow[k]))
           IN  /\ respected(pane.events, version, Workflow) =>
                     prefix /\ \A j, k \in reachedEnvs : j < k => day(j) <= day(k)
               /\ prefix /\ (\A j, k \in reachedEnvs : j < k => day(j) < day(k))
                     => respected(pane.events, version, Workflow)
<1> DEFINE W == Workflow
           E == pane.events
           first(env) == {x.occurredAt : x \in ToSet(traceRelease(E, version, W).steps)
                                                 \cap {y \in ToSet(E) : y.environment = env}}
           reachedEnvs == {k \in DOMAIN W : first(W[k]) # {} /\ k = position(W, W[k])}
           prefix == \A k \in reachedEnvs : \A j \in 1..k : first(W[j]) # {}
           day(k) == lowest(first(W[k]))
<1>1. Listed(E) /\ \A k \in DOMAIN E : E[k].occurredAt \in Nat
  BY DEF ReadInv, Readable
<1>2. PICK steps : steps = releaseSteps(E, buildsOf(E, version))
  OBVIOUS
<1>3. StepsOf(steps, E)
  <2>1. buildsOf(E, version) \subseteq DOMAIN E
    BY DEF buildsOf
  <2>2. QED
    BY <1>1, <1>2, <2>1, StepsAre
<1>4. PICK tr : tr = traceRelease(E, version, W)
  OBVIOUS
<1>5. PICK at : at = [n \in DOMAIN steps |-> position(W, steps[n].environment)]
  OBVIOUS
<1>6. PICK outOfOrder, skipped :
          /\ outOfOrder = {n \in DOMAIN steps : at[n] # 0 /\ \E m \in 1..(n - 1) : at[n] < at[m]}
          /\ skipped = {k \in DOMAIN W : /\ \E n \in DOMAIN steps : k <= at[n]
                                         /\ \A n \in DOMAIN steps : steps[n].environment # W[k]}
  OBVIOUS
<1>7. /\ tr.steps = steps
      /\ tr.issues = {<< "out of order", steps[n].environment >> : n \in outOfOrder}
                       \cup {<< "skipped", W[k] >> : k \in skipped}
  BY <1>2, <1>4, <1>5, <1>6 DEF traceRelease
<1>8. respected(E, version, W) <=> outOfOrder = {} /\ skipped = {}
  BY <1>4, <1>7 DEF respected
<1>9. Listed(W) /\ DOMAIN W \subseteq Nat
  BY PageAssumption DEF Listed
<1>10. /\ DOMAIN steps \subseteq Nat
       /\ \A n \in DOMAIN steps : at[n] = position(W, steps[n].environment) /\ at[n] \in Nat
       /\ \A n \in DOMAIN steps : at[n] # 0 => at[n] \in DOMAIN W /\ W[at[n]] = steps[n].environment
  <2>1. \A n \in DOMAIN steps : at[n] = position(W, steps[n].environment)
    BY <1>5
  <2>2. DOMAIN steps \subseteq Nat
    BY <1>3 DEF StepsOf, Listed
  <2>3. DOMAIN W = 1..Len(W) /\ Len(W) \in Nat
    BY <1>9 DEF Listed
  <2>4. ASSUME NEW n \in DOMAIN steps
        PROVE  at[n] \in Nat /\ (at[n] # 0 => at[n] \in DOMAIN W /\ W[at[n]] = steps[n].environment)
    <3>1. at[n] \in 0..Len(W) /\ (at[n] # 0 => W[at[n]] = steps[n].environment)
      BY <1>9, <2>1, PositionIs
    <3>2. QED
      BY <2>3, <3>1
  <2>5. QED
    BY <2>1, <2>2, <2>4
<1>11. ASSUME NEW env PROVE first(env) # {} <=> \E n \in DOMAIN steps : steps[n].environment = env
  <2>1. first(env) = {x.occurredAt : x \in ToSet(steps) \cap {y \in ToSet(E) : y.environment = env}}
    BY <1>4, <1>7
  <2>2. \A n \in DOMAIN steps : steps[n] \in ToSet(E)
    BY <1>3 DEF StepsOf
  <2>3. QED
    BY <2>1, <2>2 DEF ToSet
<1>12. ASSUME NEW n \in DOMAIN steps PROVE lowest(first(steps[n].environment)) = steps[n].occurredAt
  <2>1. PICK env, S : env = steps[n].environment /\ S = first(env)
    OBVIOUS
  <2>2. S = {x.occurredAt : x \in ToSet(steps) \cap {y \in ToSet(E) : y.environment = env}}
    BY <1>4, <1>7, <2>1
  <2>3. \A x \in ToSet(steps) : x.environment = env => x = steps[n]
    BY <1>3, <2>1 DEF StepsOf, ToSet
  <2>4. steps[n] \in ToSet(steps) /\ steps[n] \in ToSet(E) /\ steps[n].occurredAt \in Nat
    BY <1>3 DEF StepsOf, ToSet
  <2>5. S = {steps[n].occurredAt}
    BY <2>1, <2>2, <2>3, <2>4
  <2>6. lowest(S) \in S
    BY <2>4, <2>5, LowestIs
  <2>7. QED
    BY <2>1, <2>5, <2>6
<1>13. ASSUME NEW k \in reachedEnvs PROVE \E n \in DOMAIN steps : steps[n].environment = W[k] /\ at[n] = k
  <2>1. k \in DOMAIN W /\ first(W[k]) # {} /\ k = position(W, W[k])
    OBVIOUS
  <2>2. PICK n \in DOMAIN steps : steps[n].environment = W[k]
    BY <1>11, <2>1
  <2>3. QED
    BY <1>10, <2>1, <2>2
<1>14. ASSUME NEW n \in DOMAIN steps, at[n] # 0 PROVE at[n] \in reachedEnvs /\ day(at[n]) = steps[n].occurredAt
  <2>1. at[n] \in DOMAIN W /\ W[at[n]] = steps[n].environment /\ at[n] = position(W, W[at[n]])
    BY <1>10, <1>14
  <2>2. first(W[at[n]]) # {}
    BY <1>11, <2>1
  <2>3. QED
    BY <1>12, <2>1, <2>2
<1>15. \A m, n \in DOMAIN steps : m < n => steps[m].occurredAt <= steps[n].occurredAt
  BY <1>3 DEF StepsOf
<1>16. \A n \in DOMAIN steps : steps[n].occurredAt \in Nat
  BY <1>3 DEF StepsOf
<1>17. \A n \in DOMAIN steps : \A m \in 1..(n - 1) : m \in DOMAIN steps /\ m < n
  BY <1>3 DEF StepsOf, Listed
<1>18. ASSUME outOfOrder = {}, skipped = {}
       PROVE  prefix /\ \A j, k \in reachedEnvs : j < k => day(j) <= day(k)
  <2>1. ASSUME NEW k \in reachedEnvs, NEW j \in 1..k PROVE first(W[j]) # {}
    <3>1. PICK n \in DOMAIN steps : at[n] = k
      BY <1>13
    <3>2. k \in DOMAIN W /\ j \in DOMAIN W /\ j <= at[n]
      BY <1>9, <3>1 DEF Listed
    <3>3. \E m \in DOMAIN steps : steps[m].environment = W[j]
      BY <1>6, <1>18, <3>1, <3>2
    <3>4. QED
      BY <1>11, <3>3
  <2>2. ASSUME NEW j \in reachedEnvs, NEW k \in reachedEnvs, j < k PROVE day(j) <= day(k)
    <3>1. PICK m \in DOMAIN steps : at[m] = j
      BY <1>13
    <3>2. PICK n \in DOMAIN steps : at[n] = k
      BY <1>13
    <3>3. j \in Nat /\ k \in Nat /\ j # 0 /\ k # 0
      BY <1>9 DEF Listed
    <3>4. day(j) = steps[m].occurredAt /\ day(k) = steps[n].occurredAt
      BY <1>14, <3>1, <3>2, <3>3
    <3>5. ~(n < m)
      <4>1. SUFFICES ASSUME n < m PROVE FALSE
        OBVIOUS
      <4>2. n \in 1..(m - 1)
        BY <1>3, <4>1 DEF StepsOf, Listed
      <4>3. m \in outOfOrder
        BY <1>6, <2>2, <3>1, <3>2, <3>3, <4>2
      <4>4. QED
        BY <1>18, <4>3
    <3>6. m # n /\ m \in Nat /\ n \in Nat
      BY <1>10, <2>2, <3>1, <3>2, <3>3
    <3>7. m < n
      BY <3>5, <3>6
    <3>8. QED
      BY <1>15, <3>4, <3>7
  <2>3. QED
    BY <2>1, <2>2
<1>19. ASSUME prefix, \A j, k \in reachedEnvs : j < k => day(j) < day(k)
       PROVE  outOfOrder = {} /\ skipped = {}
  <2>1. ASSUME NEW n \in outOfOrder PROVE FALSE
    <3>1. n \in DOMAIN steps /\ at[n] # 0
      BY <1>6
    <3>2. PICK m \in 1..(n - 1) : at[n] < at[m]
      BY <1>6
    <3>3. m \in DOMAIN steps /\ m < n
      BY <1>17, <3>1
    <3>4. at[m] # 0 /\ at[n] \in Nat /\ at[m] \in Nat
      BY <1>10, <3>1, <3>2, <3>3
    <3>5. /\ at[n] \in reachedEnvs /\ day(at[n]) = steps[n].occurredAt
          /\ at[m] \in reachedEnvs /\ day(at[m]) = steps[m].occurredAt
      BY <1>14, <3>1, <3>3, <3>4
    <3>6. day(at[n]) < day(at[m])
      BY <1>19, <3>2, <3>5
    <3>7. steps[m].occurredAt <= steps[n].occurredAt
      BY <1>15, <3>1, <3>3
    <3>8. QED
      BY <1>16, <3>1, <3>3, <3>5, <3>6, <3>7
  <2>2. ASSUME NEW k \in skipped PROVE FALSE
    <3>1. k \in DOMAIN W /\ \A n \in DOMAIN steps : steps[n].environment # W[k]
      BY <1>6
    <3>2. PICK n \in DOMAIN steps : k <= at[n]
      BY <1>6
    <3>3. k \in Nat /\ k # 0 /\ at[n] \in Nat
      BY <1>9, <1>10, <3>1 DEF Listed
    <3>4. at[n] # 0 /\ k \in 1..at[n]
      BY <3>2, <3>3
    <3>5. at[n] \in reachedEnvs
      BY <1>14, <3>4
    <3>6. first(W[k]) # {}
      BY <1>19, <3>4, <3>5
    <3>7. QED
      BY <1>11, <3>1, <3>6
  <2>3. QED
    BY <2>1, <2>2
<1>20. QED
  BY <1>8, <1>18, <1>19

\* All of them.
LEMMA TracesFollow == ReadInv => tracesFollowTheWorkflow
<1> SUFFICES ASSUME ReadInv PROVE tracesFollowTheWorkflow
  OBVIOUS
<1>1. QED
  BY TraceFollows DEF tracesFollowTheWorkflow

\* What is readable is read as one story.
LEMMA ReadersSee == ReadInv => ReadersAgree
  BY RowsWarn, EndsAreDerived, MetricsCount, MonthsKeep, TopmostCurrent, TracesFollow, LotsWarn
  DEF ReadersAgree

\* What a reader is given.
Legible(p) ==
    /\ {"events", "lots", "at"} \subseteq DOMAIN p
    /\ p.at \in Nat
    /\ Listed(p.events)
    /\ \A k \in DOMAIN p.events : Readable(p.events[k], p.at)
    /\ \A key \in DOMAIN p.lots : \E n \in Nat : DOMAIN p.lots[key] = 1..n

\* What was given can be read.
LEMMA LegibleIs == Legible(pane) => ReadInv
  BY DEF Legible, ReadInv

\* Only these three are read.
LEMMA AsLegible ==
    ASSUME NEW p, Legible(p), NEW q, DOMAIN q = DOMAIN p,
           q.events = p.events, q.lots = p.lots, q.at = p.at
    PROVE  Legible(q)
  BY DEF Legible

\* Anything else may change.
LEMMA ChangedIs ==
    ASSUME NEW p, Legible(p), NEW f, f \notin {"events", "lots", "at"}, NEW v
    PROVE  Legible([p EXCEPT ![f] = v])
<1>1. PICK q : q = [p EXCEPT ![f] = v]
  OBVIOUS
<1>2. DOMAIN q = DOMAIN p /\ \A x \in DOMAIN p \ {f} : q[x] = p[x]
  BY <1>1
<1>3. q.events = p.events /\ q.lots = p.lots /\ q.at = p.at
  BY <1>2 DEF Legible
<1>4. QED
  BY <1>1, <1>2, <1>3, AsLegible

\* A drawer that is mounted again changes nothing of what is read.
LEMMA RemountedLegible ==
    ASSUME NEW p, NEW q, Legible(q)
    PROVE  Legible(remounted(p, q))
<1>1. PICK d : d = [f \in DOMAIN filling(q) |-> IF f \in refilled(p, q) THEN filling(q)[f] ELSE q.draft[f]]
  OBVIOUS
<1>2. PICK r : r = [q EXCEPT !.draft = d, !.modal = NoModal, !.sent.mounted = FALSE]
  OBVIOUS
<1>3. DOMAIN r = DOMAIN q /\ \A x \in DOMAIN q \ {"draft", "modal", "sent"} : r[x] = q[x]
  BY <1>2
<1>4. r.events = q.events /\ r.lots = q.lots /\ r.at = q.at
  BY <1>3 DEF Legible
<1>5. Legible(r)
  BY <1>3, <1>4, AsLegible
<1>6. remounted(p, q) \in {q, r}
  BY <1>1, <1>2 DEF remounted
<1>7. QED
  BY <1>5, <1>6

\* Nor does one that is opened.
LEMMA OpenedLegible ==
    ASSUME NEW p, Legible(p), NEW i
    PROVE  Legible(opened(p, i))
<1>1. Legible([p EXCEPT !.selected = i])
  BY ChangedIs
<1>2. QED
  BY <1>1, RemountedLegible DEF opened

(***************************************************************************)
(* What is brought by a refresh.                                           *)
(***************************************************************************)
Telling(R, N) ==
    /\ DOMAIN R = AllIds
    /\ \A i \in AllIds : Shaped(R[i]) /\ (R[i].type # NoText => Told(R[i]))
    /\ \A i \in AllIds : \A n \in N[i] : n.at \in Nat

\* An event is told from its row and its notes.
LEMMA EventIsReadable ==
    ASSUME NEW i, NEW r, Told(r), NEW notesOfIt, \A n \in notesOfIt : n.at \in Nat, NEW now
    PROVE  Readable(toClientEvent(i, r, notesOfIt, now), now)
<1>1. PICK d : d = [id |-> i, derived |-> deriveFor(r, now),
                    rollbacks |-> {x.at : x \in {m \in notesOfIt : m.kind = "rollback"}},
                    statusTransitions |-> {x \in notesOfIt : x.kind = "status"}]
  OBVIOUS
<1>2. PICK e : e = toClientEvent(i, r, notesOfIt, now)
  OBVIOUS
<1>3. e = onto(d, r)
  BY <1>1, <1>2 DEF toClientEvent
<1>4. DOMAIN d = {"id", "derived", "rollbacks", "statusTransitions"} /\ d.derived = deriveFor(r, now)
      /\ d.statusTransitions = {x \in notesOfIt : x.kind = "status"}
  BY <1>1
<1>5. (\A c \in DOMAIN d : e[c] = d[c]) /\ (\A c \in DOMAIN r \ DOMAIN d : e[c] = r[c])
  <2>1. (\A c \in DOMAIN d : onto(d, r)[c] = d[c]) /\ (\A c \in DOMAIN r \ DOMAIN d : onto(d, r)[c] = r[c])
    BY OntoIs
  <2>2. QED
    BY <1>3, <2>1
<1>6. DOMAIN r = ALL_COLUMNS /\ \A c \in DateColumns : r[c] \in Nat
  BY DEF Told, Shaped
<1>7. \A c \in ALL_COLUMNS \ {"id", "derived", "rollbacks", "statusTransitions"} : e[c] = r[c]
  BY <1>4, <1>5, <1>6
<1>8. {"type", "occurredAt", "resolvedAt", "startedAt", "windowStart", "windowEnd"} \subseteq
         ALL_COLUMNS \ {"id", "derived", "rollbacks", "statusTransitions"}
  BY DEF ALL_COLUMNS, TextColumns, DateColumns
<1>9. /\ e.type = r.type /\ e.occurredAt = r.occurredAt /\ e.resolvedAt = r.resolvedAt
      /\ e.startedAt = r.startedAt /\ e.windowStart = r.windowStart /\ e.windowEnd = r.windowEnd
  BY <1>7, <1>8
<1>10. /\ r.occurredAt \in Nat /\ r.resolvedAt \in Nat /\ r.startedAt \in Nat
       /\ r.windowStart \in Nat /\ r.windowEnd \in Nat
  BY <1>6 DEF DateColumns
<1>11. e.derived = deriveFor(r, now) /\ e.statusTransitions = {x \in notesOfIt : x.kind = "status"}
  BY <1>4, <1>5
<1>12. deriveFor(r, now) = deriveFor(e, now)
  BY <1>9 DEF deriveFor
<1>13. /\ e.type \in EventTypes
       /\ e.type = "MAINTENANCE" => /\ e.windowStart \in Nat \ {NoDate} /\ e.windowEnd \in Nat \ {NoDate}
                                    /\ e.windowStart <= e.windowEnd
       /\ e.type = "INCIDENT" => e.startedAt # NoDate
  BY <1>9, <1>10 DEF Told
<1>14. QED
  BY <1>2, <1>9, <1>10, <1>11, <1>12, <1>13 DEF Readable

\* A list that is fetched is of such events.
LEMMA NewestIs ==
    ASSUME NEW R, NEW N, Telling(R, N), NEW I, I \subseteq {i \in DOMAIN R : R[i].type # NoText}
    PROVE  LET s == newest(R, N, I)
           IN  Listed(s) /\ \A k \in DOMAIN s : Readable(s[k], clock)
<1>1. IsFiniteSet(AllIds)
  <2>1. Len(Ids) \in 0..Len(Ids) /\ DOMAIN Ids = 1..Len(Ids)
    BY RecordsAssumption
  <2>2. QED
    BY <2>1, FirstIds DEF AllIds
<1>2. \A i \in AllIds : R[i].occurredAt \in Nat
  BY DEF Telling, Shaped, DateColumns
<1>3. I \subseteq AllIds
  BY DEF Telling
<1>4. PICK order : order = CHOOSE q \in [1..Cardinality(I) -> I] : newestOrder(q, R)
  OBVIOUS
<1>5. order \in [1..Cardinality(I) -> I]
  <2>1. \E q \in [1..Cardinality(I) -> I] : newestOrder(q, R)
    BY <1>1, <1>2, <1>3, Sorted
  <2>2. QED
    BY <1>4, <2>1
<1>6. PICK s, c : s = newest(R, N, I) /\ c = Cardinality(I)
  OBVIOUS
<1>7. s = [n \in 1..c |-> toClientEvent(order[n], R[order[n]], N[order[n]], clock)]
  BY <1>4, <1>6 DEF newest
<1>8. c \in Nat
  <2>1. IsFiniteSet(I)
    BY <1>1, <1>3, FS_Subset
  <2>2. QED
    BY <1>6, <2>1, FS_CardinalityType
<1>9. DOMAIN s = 1..c /\ Len(s) = c
  <2>1. DOMAIN s = 1..c
    BY <1>7
  <2>2. s = [n \in 1..c |-> s[n]]
    BY <1>7
  <2>3. s \in Seq(ToSet(s))
    BY <1>8, <2>1, <2>2 DEF ToSet
  <2>4. QED
    BY <1>8, <2>1, <2>3
<1>10. ASSUME NEW k \in DOMAIN s PROVE Readable(s[k], clock)
  <2>1. PICK i, note : i = order[k] /\ note = N[i]
    OBVIOUS
  <2>2. i \in I /\ i \in AllIds
    BY <1>3, <1>5, <1>6, <1>9, <2>1
  <2>3. Told(R[i]) /\ \A n \in note : n.at \in Nat
    BY <2>1, <2>2 DEF Telling
  <2>4. s[k] = toClientEvent(i, R[i], note, clock)
    BY <1>7, <1>9, <2>1
  <2>5. QED
    BY <2>3, <2>4, EventIsReadable
<1>11. QED
  BY <1>6, <1>8, <1>9, <1>10 DEF Listed

\* A refresh brings events, lots and the time together.
LEMMA RefreshedLegible ==
    ASSUME clock \in Nat, NEW R, NEW N, Telling(R, N), NEW p, {"events", "lots", "at"} \subseteq DOMAIN p
    PROVE  Legible(refreshed(p, R, N))
<1>1. PICK events, lots : events = listServiceEvents(R, N, p.roles) /\ lots = lotsOf(R, N, events)
  OBVIOUS
<1>2. PICK c : c = [p EXCEPT !.events = events, !.lots = lots, !.at = clock]
  OBVIOUS
<1>3. Listed(events) /\ \A k \in DOMAIN events : Readable(events[k], clock)
  <2>1. PICK I : I = {i \in DOMAIN R : /\ R[i].type # NoText
                                      /\ R[i].service = Service
                                      /\ shownTo(p.roles, R[i])}
    OBVIOUS
  <2>2. events = newest(R, N, I)
    BY <1>1, <2>1 DEF listServiceEvents
  <2>3. I \subseteq {i \in DOMAIN R : R[i].type # NoText}
    BY <2>1
  <2>4. QED
    BY <2>2, <2>3, NewestIs
<1>4. \A key \in DOMAIN lots : \E n \in Nat : DOMAIN lots[key] = 1..n
  <2>1. PICK L : L = {e.lot : e \in ToSet(events)} \ {NoText}
    OBVIOUS
  <2>2. PICK M : M = {i \in DOMAIN R : deployment(R[i]) /\ R[i].lot \in L}
    OBVIOUS
  <2>3. lots = getLotMembers(R, N, L)
    BY <1>1, <2>1 DEF lotsOf
  <2>4. ASSUME NEW key \in DOMAIN lots PROVE \E n \in Nat : DOMAIN lots[key] = 1..n
    <3>1. PICK I : I = {i \in M : lotKey(R[i]) = key}
      OBVIOUS
    <3>2. lots[key] = newest(R, N, I)
      BY <2>2, <2>3, <2>4, <3>1 DEF getLotMembers
    <3>3. I \subseteq {i \in DOMAIN R : R[i].type # NoText}
      BY <2>2, <3>1 DEF deployment, NoText
    <3>4. Listed(lots[key])
      BY <3>2, <3>3, NewestIs
    <3>5. QED
      BY <3>4 DEF Listed
  <2>5. QED
    BY <2>4
<1>5. DOMAIN c = DOMAIN p /\ c.events = events /\ c.lots = lots /\ c.at = clock
  BY <1>2
<1>6. Legible(c)
  BY <1>3, <1>4, <1>5 DEF Legible
<1>7. PICK q : q = remounted(p, c)
  OBVIOUS
<1>8. Legible(q)
  BY <1>6, <1>7, RemountedLegible
<1>9. refreshed(p, R, N) \in {q, opened(q, p.linked)}
  BY <1>1, <1>2, <1>7 DEF refreshed
<1>10. QED
  BY <1>8, <1>9, OpenedLegible


(***************************************************************************)
(* Whatever the page does, what it holds is what it was given at once.     *)
(***************************************************************************)
\* Rows and notes tell at any time ...
LEMMA TellingNow ==
    ASSUME RecordsInv, NotesDated
    PROVE  clock \in Nat /\ Telling(rows, notes)
<1>1. clock \in Nat /\ DOMAIN rows = AllIds /\ (\A i \in AllIds : Shaped(rows[i])) /\ (\A i \in live : Told(rows[i]))
  BY DEF RecordsInv, TypesInv, HistoryTyped, RowsTyped, Stored
<1>2. QED
  BY <1>1 DEF Telling, NotesDated, live

\* ... and at the next.
LEMMA TellingNext ==
    ASSUME RecordsInv', NotesDated'
    PROVE  Telling(rows', notes')
<1>1. DOMAIN rows' = AllIds /\ (\A i \in AllIds : Shaped(rows'[i])) /\ (\A i \in live' : Told(rows'[i]))
  BY DEF RecordsInv, TypesInv, RowsTyped, Stored
<1>2. live' = {i \in AllIds : rows'[i].type # NoText}
  BY <1>1 DEF live
<1>3. \A i \in AllIds : \A n \in notes'[i] : n.at \in Nat
  BY DEF NotesDated, AllIds
<1>4. QED
  BY <1>1, <1>2, <1>3 DEF Telling

\* The answer to a confirmed dialog is a refresh.
LEMMA DoneLegible ==
    ASSUME clock \in Nat, Legible(pane), NEW R, NEW N, Telling(R, N)
    PROVE  Legible(done(R, N))
<1>1. PICK p : p = IF pane.sent.mounted THEN [pane EXCEPT !.modal = NoModal] ELSE pane
  OBVIOUS
<1>2. Legible(p)
  BY <1>1, ChangedIs
<1>3. Legible([p EXCEPT !.sent = Free])
  BY <1>2, ChangedIs
<1>4. {"events", "lots", "at"} \subseteq DOMAIN [p EXCEPT !.sent = Free]
  BY <1>3 DEF Legible
<1>5. Legible(refreshed([p EXCEPT !.sent = Free], R, N))
  BY <1>4, RefreshedLegible
<1>6. QED
  BY <1>1, <1>5 DEF done

\* An input that is given a value.
LEMMA TypedLegible ==
    ASSUME NEW p, Legible(p), NEW f, NEW v
    PROVE  Legible([p EXCEPT !.draft[f] = v])
<1>1. PICK d, q : d = [p.draft EXCEPT ![f] = v] /\ q = [p EXCEPT !.draft = d]
  OBVIOUS
<1>2. Legible(q)
  BY <1>1, ChangedIs
<1>3. q = [p EXCEPT !.draft[f] = v]
  BY <1>1
<1>4. QED
  BY <1>2, <1>3

\* A choice that is sent is an input and a request.
LEMMA ChoiceLegible ==
    ASSUME Legible(pane), NEW f, NEW v, pickOther(f, v)
    PROVE  Legible(pane')
<1>1. PICK s : s = saving(f, v)
  OBVIOUS
<1>2. PICK q : q = [pane EXCEPT !.draft[f] = v]
  OBVIOUS
<1>3. Legible(q)
  BY <1>2, TypedLegible
<1>4. PICK r : r = [pane EXCEPT !.draft[f] = v, !.sent = s]
  OBVIOUS
<1>5. r = [q EXCEPT !.sent = s]
  BY <1>2, <1>4
<1>6. Legible(r)
  BY <1>3, <1>5, ChangedIs
<1>7. pane' \in {q, r}
  BY <1>1, <1>2, <1>4 DEF pickOther
<1>8. QED
  BY <1>3, <1>6, <1>7

\* An answer refreshes the page, or leaves it.
LEMMA AnswerLegible ==
    ASSUME clock \in Nat, Telling(rows, notes), Legible(pane), answer
    PROVE  Legible(pane')
<1>1. PICK p : p = [pane EXCEPT !.sent = Free]
  OBVIOUS
<1>2. PICK q : q = IF pane.sent.op = "tags" /\ pane.sent.mounted THEN [p EXCEPT !.draft.tags = pane.sent.value] ELSE p
  OBVIOUS
<1>3. PICK r : r = refreshed(q, rows, notes)
  OBVIOUS
<1>4. Legible(p)
  BY <1>1, ChangedIs
<1>5. Legible([p EXCEPT !.draft.tags = pane.sent.value])
  BY <1>4, TypedLegible
<1>6. Legible(q)
  BY <1>2, <1>4, <1>5
<1>7. Legible(r)
  BY <1>3, <1>6, RefreshedLegible DEF Legible
<1>8. Legible(opened(r, NoText))
  BY <1>7, OpenedLegible
<1>9. pane' \in {opened(r, NoText), r, p}
  BY <1>1, <1>2, <1>3 DEF answer, here, becomes
<1>10. QED
  BY <1>4, <1>7, <1>8, <1>9

\* Whatever is done on the page.
LEMMA StepLegible ==
    ASSUME RecordsInv, NotesDated, RecordsInv', NotesDated', Legible(pane), NEW T, NEW F, PageStep(T, F)
    PROVE  Legible(pane')
<1>1. clock \in Nat /\ Telling(rows, notes) /\ Telling(rows', notes')
  BY TellingNow, TellingNext
<1>2. {"events", "lots", "at"} \subseteq DOMAIN pane
  BY DEF Legible
<1>3. CASE refresh
  BY <1>1, <1>2, <1>3, RefreshedLegible DEF refresh, here, becomes
<1>4. ASSUME NEW f \in F, setFilter(f) PROVE Legible(pane')
  BY <1>4, ChangedIs DEF setFilter, here, becomes
<1>5. ASSUME NEW i, select(i) \/ onOpenEvent(i) PROVE Legible(pane')
  BY <1>5, OpenedLegible DEF select, onOpenEvent, here, becomes
<1>6. CASE close
  BY <1>6, OpenedLegible DEF close, here, becomes
<1>7. ASSUME NEW t \in T, enter(t[1], t[2]) PROVE Legible(pane')
  BY <1>7, TypedLegible DEF enter
<1>8. ASSUME NEW t \in T, pick(t[1], t[2]) PROVE Legible(pane')
  <2>1. pickShown(t[1], t[2]) \/ pickOther(t[1], t[2])
    BY <1>8 DEF pick
  <2>2. QED
    BY <2>1, TypedLegible, ChoiceLegible DEF pickShown
<1>9. ASSUME NEW op \in {"tags", "date", "lot", "incident"}, save(op) PROVE Legible(pane')
  BY <1>9, ChangedIs DEF save
<1>10. CASE answer
  BY <1>1, <1>10, AnswerLegible
<1>11. CASE addEventComment
  <2>1. rows' = rows
    BY <1>11 DEF addEventComment, annotate
  <2>2. Telling(rows, notes')
    BY <1>1, <2>1
  <2>3. QED
    BY <1>1, <1>2, <1>11, <2>2, RefreshedLegible DEF addEventComment, becomes
<1>12. ASSUME NEW kind, NEW to, ask(kind, to) PROVE Legible(pane')
  BY <1>12, ChangedIs DEF ask, here, becomes
<1>13. CASE cancel
  BY <1>13, ChangedIs DEF cancel, here, becomes
<1>14. CASE confirm
  BY <1>14, ChangedIs DEF confirm
<1>15. CASE serve
  <2>1. Legible(done(rows', notes'))
    BY <1>1, DoneLegible
  <2>2. Legible([pane EXCEPT !.sent = Free])
    BY ChangedIs
  <2>3. QED
    BY <1>15, <2>1, <2>2 DEF serve, here, becomes
<1>16. CASE rollbackAnswered
  BY <1>1, <1>16, DoneLegible DEF rollbackAnswered, here, becomes
<1>17. QED
  BY <1>3, <1>4, <1>5, <1>6, <1>7, <1>8, <1>9, <1>10, <1>11, <1>12, <1>13, <1>14, <1>15, <1>16
     DEF PageStep, openMove, openUndo, openRollback

\* Whatever the page asks for, notes have their dates.
LEMMA PageNotesDated ==
    ASSUME RecordsInv, NotesDated, NEW T, NEW F, PageStep(T, F)
    PROVE  NotesDated'
<1>1. ASSUME NEW q, here(q) PROVE NotesDated'
  BY <1>1, SameNotes DEF here, recordVars
<1>2. CASE refresh \/ (\E f \in F : setFilter(f)) \/ (\E i \in live : select(i) \/ onOpenEvent(i)) \/ close
  BY <1>1, <1>2 DEF refresh, setFilter, select, onOpenEvent, close
<1>3. ASSUME NEW f, NEW v, enter(f, v) \/ pick(f, v) PROVE NotesDated'
  BY <1>3, SameNotes, EditNotesNothing DEF enter, pick, pickShown, pickOther, recordVars
<1>4. ASSUME NEW op, save(op) PROVE NotesDated'
  BY <1>4, SameNotes, EditNotesNothing DEF save
<1>5. CASE answer
  BY <1>1, <1>5 DEF answer
<1>6. CASE addEventComment
  BY <1>6, AnnotationIsDated DEF addEventComment
<1>7. CASE (\E kind, to : ask(kind, to)) \/ cancel \/ rollbackAnswered
  BY <1>1, <1>7 DEF ask, cancel, rollbackAnswered
<1>8. CASE confirm
  BY <1>8, SameNotes DEF confirm, createRollbackAction, start, recordVars
<1>9. CASE serve
  <2>1. \/ here([pane EXCEPT !.sent = Free])
        \/ \E i, to : step(i, to)
    BY <1>9 DEF serve, move, undo
  <2>2. QED
    BY <1>1, <2>1, StepIsDated
<1>10. QED
  BY <1>2, <1>3, <1>4, <1>5, <1>6, <1>7, <1>8, <1>9 DEF PageStep, openMove, openUndo, openRollback

\* The page that is opened.
LEMMA ArrivesLegible ==
    ASSUME RecordsInv, NotesDated, NEW roles, NEW linked, NEW filter, PageOpens(roles, linked, filter)
    PROVE  Legible(pane)
<1>1. PICK b : b = [roles |-> roles, linked |-> linked, filter |-> filter, events |-> << >>,
                    lots |-> << >>, at |-> clock, selected |-> NoText, draft |-> NoDraft,
                    modal |-> NoModal, sent |-> Free]
  OBVIOUS
<1>2. pane = refreshed(b, rows, notes)
  BY <1>1 DEF PageOpens, arrival
<1>3. {"events", "lots", "at"} \subseteq DOMAIN b
  BY <1>1
<1>4. QED
  BY <1>2, <1>3, TellingNow, RefreshedLegible

(***************************************************************************)
(* Whatever is written to the events of a service, by whomever, and        *)
(* whenever the page was refreshed, what it makes of the events it holds   *)
(* is one story (lib/eventTimeline.ts, lib/dora.ts, lib/derive.ts,         *)
(* lib/releaseTrace.ts, lib/deployLot.ts, DetailPane.tsx): the list warns  *)
(* when the drawer does, what is over is over for both, metrics count what *)
(* the list counts, months keep its order, the version in place is the     *)
(* topmost, a trace is judged by its dates, and a lot warns of its own.    *)
(***************************************************************************)
THEOREM ReadersTellOneStory == PageSpec => []ReadersAgree
<1>1. RecordsInv /\ NotesDated /\ (\E roles, linked, filter : PageOpens(roles, linked, filter)) => Legible(pane)
  BY ArrivesLegible
<1>2. ServicePageInv /\ NotesDated /\ Legible(pane) /\ [PageNext]_pageVars => NotesDated' /\ Legible(pane)'
  <2>1. SUFFICES ASSUME ServicePageInv, NotesDated, Legible(pane), [PageNext]_pageVars
                 PROVE  NotesDated' /\ Legible(pane)'
    OBVIOUS
  <2>2. RecordsInv /\ RecordsInv'
    BY <2>1, PageGoesOn DEF Kept, ServicePageInv
  <2>3. CASE PageStep(Typed, Filters)
    <3>1. NotesDated'
      BY <2>1, <2>2, <2>3, PageNotesDated
    <3>2. Legible(pane')
      BY <2>1, <2>2, <2>3, <3>1, StepLegible
    <3>3. QED
      BY <3>1, <3>2
  <2>4. CASE elsewhere(Bodies, Edits)
    BY <2>1, <2>2, <2>4, NotesStayDated DEF elsewhere
  <2>5. CASE UNCHANGED pageVars
    BY <2>1, <2>5, SameNotes DEF pageVars, recordVars
  <2>6. QED
    BY <2>1, <2>3, <2>4, <2>5 DEF PageNext
<1>3. Legible(pane) => ReadersAgree
  BY LegibleIs, ReadersSee
<1>4. QED
  BY <1>1, <1>2, <1>3, PageInvariant, PTL DEF PageSpec

=============================================================================
