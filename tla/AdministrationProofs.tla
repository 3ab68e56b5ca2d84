-------------------------- MODULE AdministrationProofs --------------------------
(***************************************************************************)
(* Theorems about what an administrator edits and what people enter on     *)
(* screens: Hierarchy, for any number of nodes, parents, requests and      *)
(* screens; Settings, for every set of environments, references, events,   *)
(* names of tags and requests; Dialogs, for any hierarchy, environments    *)
(* and events, and whatever is entered.  The last theorem is about all     *)
(* that the administration run has side by side, Access and Visibility     *)
(* with them.                                                              *)
(***************************************************************************)
EXTENDS MCAdministration, AccessProofs, FunctionTheorems, WellFoundedInduction

-------------------------------------------------------------------------------
(***************************************************************************)
(* HIERARCHY.  A property of the hierarchy speaks of what its rows are; it *)
(* holds since what a request has read is still so when it writes, or else *)
(* the request was raced, and the history says so.  The invariant states   *)
(* what each request and each screen under way knows as long as nobody     *)
(* raced it.                                                               *)
(***************************************************************************)
AnySlug == Slugs \cup {<< >>} \cup {candidate(base, k) : base \in Slugs, k \in Nat \ {0}}

Row == [parent : Parents \cup {Nowhere}, slug : AnySlug, main : BOOLEAN, order : Nat]

Idling == [pc : {"idle"}, answer : {"none", "exists", "created", "clash", "moved", "error", "promoted", "rolled back"},
           raced : BOOLEAN]

Probing == [pc : {"probe"}, parent : Parents, base : Slugs, k : Nat \ {0}, raced : BOOLEAN]

Ranking == [pc : {"rank"}, parent : Parents, slug : AnySlug, raced : BOOLEAN]

Inserting == [pc : {"insert"}, parent : Parents, slug : AnySlug, order : Nat, raced : BOOLEAN]

Moving == [pc : {"clash", "place"}, node : Nodes, to : Parents, slug : AnySlug, raced : BOOLEAN]

Seeking == [pc : {"siblings"}, node : Nodes, parent : Parents, raced : BOOLEAN]

Demoting == [pc : {"demote"}, node : Nodes, parent : Parents, found : SUBSET Nodes, raced : BOOLEAN]

Setting == [pc : {"set"}, node : Nodes, demoted : SUBSET Nodes, raced : BOOLEAN]

Request == Idling \cup Probing \cup Ranking \cup Inserting \cup Moving \cup Seeking \cup Demoting \cup Setting

Orders == UNION {[S -> Nat] : S \in SUBSET Nodes}

Listed == [pc : {"listed"}, parent : Parents, raced : BOOLEAN, shown : Orders]

Swapping == [pc : {"swap"}, parent : Parents, raced : BOOLEAN, put : Orders]

NodesTyped == node \in [Nodes -> Row]

RequestsTyped == request \in [Requests -> Request]

ScreensTyped == screen \in [Screens -> {NoScreen} \cup Listed \cup Swapping]

HistoryTyped == marred \in SUBSET Parents /\ jumbled \in SUBSET Parents /\ starts \in Nat

\* Orders are below some number: the last one exists.
OrdersEnd == \E last \in Nat : \A n \in Nodes : node[n].order <= last

MainsAreThere == \A n \in Nodes : node[n].main => n \in there

TypesInv ==
    /\ NodesTyped
    /\ RequestsTyped
    /\ ScreensTyped
    /\ HistoryTyped
    /\ OrdersEnd
    /\ MainsAreThere

(***************************************************************************)
(* What a request under way knows.  It found the row it names, and no row  *)
(* leaves.  As long as nobody raced it: a promotion knows all the other    *)
(* main services, the slug that a creation derived is free, the one of a   *)
(* moved row is free where it goes, and a creation is about to come last.  *)
(***************************************************************************)
NamesRow(q) == q.pc \in {"clash", "place", "siblings", "demote", "set"} => q.node \in there

KnowsMains(q) ==
    /\ q.pc = "siblings" => q.parent = node[q.node].parent
    /\ q.pc = "demote" => q.parent = node[q.node].parent /\ q.found = mains(q.parent) \ {q.node}
    /\ q.pc = "set" => q.demoted = mains(node[q.node].parent) \ {q.node}

KnowsFree(q) ==
    /\ q.pc \in {"rank", "insert"} => ~exists(q.parent, q.slug)
    /\ q.pc = "place" => \A n \in under(q.to) \ {q.node} : node[n].slug # q.slug

KnowsLast(q) == q.pc = "insert" => \A n \in under(q.parent) : node[n].order < q.order

\* The slug of a row stays its own, raced or not.
KnowsSlug(q) == q.pc \in {"clash", "place"} => q.slug = node[q.node].slug

FailsRaced(q) == q.pc = "idle" /\ q.answer \in {"exists", "error"} => q.raced

Knows(q) ==
    /\ NamesRow(q)
    /\ KnowsSlug(q)
    /\ FailsRaced(q)
    /\ ~q.raced => KnowsMains(q) /\ KnowsFree(q) /\ KnowsLast(q)

RequestsInv == \A r \in Requests : Knows(request[r])

OneMain == \A p \in Parents \ marred : \A n, m \in mains(p) : n = m

SlugsApart == \A n, m \in there : node[n].parent = node[m].parent /\ node[n].slug = node[m].slug => n = m

(***************************************************************************)
(* Screens.  A list that nobody raced is as the rows are.  An exchange is  *)
(* either ahead, and then knows the orders of its two rows, or half done,  *)
(* and then its other half makes the orders of the siblings distinct.      *)
(***************************************************************************)
HalfDone(s, p) == screen[s].pc = "swap" /\ screen[s].parent = p /\ \E n \in Nodes : DOMAIN screen[s].put = {n}

Exchanges(q, n, m) ==
    /\ n # m
    /\ n \in under(q.parent) /\ m \in under(q.parent)
    /\ DOMAIN q.put = {n, m}
    /\ q.put[n] = node[m].order
    /\ q.put[m] = node[n].order

KnowsOrders(q) ==
    /\ q.pc = "listed" /\ ~q.raced => q.shown = [n \in under(q.parent) |-> node[n].order]
    /\ q.pc = "swap" /\ ~q.raced => \/ DOMAIN q.put = {}
                                    \/ \E n \in Nodes : DOMAIN q.put = {n}
                                    \/ \E n, m \in Nodes : Exchanges(q, n, m)

ScreensKnow == \A s \in Screens : KnowsOrders(screen[s])

Apart(p) == \A n, m \in under(p) : node[n].order = node[m].order => n = m

OrdersApart == \A p \in Parents \ jumbled : (\A s \in Screens : ~HalfDone(s, p)) => Apart(p)

\* The siblings keep apart once the row that is left has its order.
Completes(q, l) ==
    /\ \A n \in under(q.parent) \ {l} : node[n].order # q.put[l]
    /\ \A n, m \in under(q.parent) \ {l} : node[n].order = node[m].order => n = m

HalvesComplete ==
    \A s \in Screens : \A l \in Nodes :
        /\ screen[s].pc = "swap"
        /\ ~screen[s].raced
        /\ DOMAIN screen[s].put = {l}
        /\ screen[s].parent \notin jumbled
        /\ \A x \in Screens \ {s} : ~HalfDone(x, screen[s].parent)
        => Completes(screen[s], l)

OrdersInv == ScreensKnow /\ OrdersApart /\ HalvesComplete

HierarchyInv == TypesInv /\ RequestsInv /\ OneMain /\ SlugsApart /\ OrdersInv

-----------------------------------------------------------------------------
(***************************************************************************)
(* Helpers.                                                                *)
(***************************************************************************)
\* A request is one of its kinds, by where it is.
LEMMA RequestShape ==
    ASSUME NEW q \in Request
    PROVE  /\ q.pc = "idle" => q \in Idling
           /\ q.pc = "probe" => q \in Probing
           /\ q.pc = "rank" => q \in Ranking
           /\ q.pc = "insert" => q \in Inserting
           /\ q.pc \in {"clash", "place"} => q \in Moving
           /\ q.pc = "siblings" => q \in Seeking
           /\ q.pc = "demote" => q \in Demoting
           /\ q.pc = "set" => q \in Setting
           /\ q.pc \in {"idle", "probe", "rank", "insert", "clash", "place", "siblings", "demote", "set"}
           /\ q.raced \in BOOLEAN
BY DEF Request, Idling, Probing, Ranking, Inserting, Moving, Seeking, Demoting, Setting

\* A request that learns of a race keeps the rest.
LEMMA RacedRequest ==
    ASSUME NEW q \in Request, NEW v, v = [q EXCEPT !.raced = TRUE]
    PROVE  /\ v \in Request
           /\ v.raced
           /\ v.pc = q.pc
           /\ q.pc \in {"clash", "place", "siblings", "demote", "set"} => v.node = q.node
           /\ q.pc \in {"clash", "place"} => v.slug = q.slug
<1>1. CASE q \in Idling \cup Probing \cup Ranking
  BY <1>1 DEF Request, Idling, Probing, Ranking
<1>2. CASE q \in Inserting
  BY <1>2 DEF Request, Inserting
<1>3. CASE q \in Moving
  BY <1>3 DEF Request, Moving
<1>4. CASE q \in Seeking \cup Demoting \cup Setting
  BY <1>4 DEF Request, Seeking, Demoting, Setting
<1>5. QED
  BY <1>1, <1>2, <1>3, <1>4 DEF Request

\* So does a screen.
LEMMA RacedScreen ==
    ASSUME NEW q \in Listed \cup Swapping, NEW v, v = [q EXCEPT !.raced = TRUE]
    PROVE  /\ v \in Listed \cup Swapping
           /\ v.raced
           /\ v.pc = q.pc
           /\ v.parent = q.parent
           /\ q.pc = "swap" => v.put = q.put
BY DEF Listed, Swapping

LEMMA ScreenShape ==
    ASSUME NEW q \in {NoScreen} \cup Listed \cup Swapping
    PROVE  /\ q.pc = "off" => q = NoScreen
           /\ q.pc = "listed" => q \in Listed
           /\ q.pc = "swap" => q \in Swapping
           /\ q.pc \in {"off", "listed", "swap"}
           /\ q.pc # "off" => q \in Listed \cup Swapping
BY DEF NoScreen, Listed, Swapping

LEMMA OrdersAre ==
    ASSUME NEW f \in Orders
    PROVE  \E S \in SUBSET Nodes : f \in [S -> Nat] /\ DOMAIN f = S
BY DEF Orders

LEMMA AreOrders ==
    ASSUME NEW S \in SUBSET Nodes, NEW f \in [S -> Nat]
    PROVE  f \in Orders
BY DEF Orders

\* The order of a new row is above those of its siblings: it is one more than the last.
LEMMA NextIsLast ==
    ASSUME NodesTyped, OrdersEnd, NEW p
    PROVE  /\ nextOrder(p) \in Nat
           /\ \A n \in under(p) : node[n].order < nextOrder(p)
<1>1. CASE under(p) = {}
  BY <1>1 DEF nextOrder
<1>2. CASE under(p) # {}
  <2>1. orders(p) \subseteq Nat /\ orders(p) # {}
    BY <1>2 DEF NodesTyped, Row, orders, under
  <2> DEFINE Above == {b \in Nat : \A o \in orders(p) : o <= b}
             Less == OpToRel(<, Nat)
  <2>2. Above \subseteq Nat /\ Above # {}
    <3>1. PICK last \in Nat : \A n \in Nodes : node[n].order <= last
      BY DEF OrdersEnd
    <3>2. last \in Above
      BY <3>1 DEF orders, under
    <3>3. QED
      BY <3>2
  <2>3. PICK x \in Above : \A y \in Above : << y, x >> \notin Less
    <3> HIDE DEF Above, Less
    <3>1. IsWellFoundedOn(Less, Nat)
      BY NatLessThanWellFounded DEF Less
    <3>2. QED
      BY <2>2, <3>1, WFMin
  <2>4. \A y \in Above : x <= y
    <3>1. SUFFICES ASSUME NEW y \in Above PROVE x <= y
      OBVIOUS
    <3>2. x \in Nat /\ y \in Nat
      BY <2>2
    <3>3. << y, x >> \notin Less
      BY <2>3
    <3>4. << y, x >> \in Nat \X Nat /\ << y, x >>[1] = y /\ << y, x >>[2] = x
      BY <3>2
    <3>5. ~(y < x)
      BY <3>3, <3>4 DEF OpToRel
    <3>6. QED
      BY <3>2, <3>5
  <2>5. x \in orders(p)
    <3>1. SUFFICES ASSUME x \notin orders(p) PROVE FALSE
      OBVIOUS
    <3>2. \A o \in orders(p) : o <= x - 1 /\ x - 1 \in Nat
      BY <2>1, <3>1
    <3>3. x - 1 \in Above
      BY <2>1, <3>2
    <3>4. x <= x - 1 /\ x \in Nat
      BY <2>4, <3>3
    <3>5. QED
      BY <3>4
  <2>6. \E o \in orders(p) : \A q \in orders(p) : q <= o
    BY <2>5
  <2> DEFINE top == CHOOSE o \in orders(p) : \A q \in orders(p) : q <= o
  <2>7. top \in orders(p) /\ \A q \in orders(p) : q <= top
    BY <2>6
  <2>8. nextOrder(p) = 1 + top
    BY <1>2 DEF nextOrder
  <2>9. top \in Nat
    BY <2>1, <2>7
  <2> HIDE DEF top
  <2>10. \A n \in under(p) : node[n].order \in Nat /\ node[n].order <= top
    BY <2>1, <2>7 DEF orders
  <2>11. QED
    BY <2>8, <2>9, <2>10
<1>3. QED
  BY <1>1, <1>2

-----------------------------------------------------------------------------
(***************************************************************************)
(* Who learns what.  A step that writes rows races every request under     *)
(* way, and what a raced one has to know is little.                        *)
(***************************************************************************)
\* What a request that was under way, or just ended, has after others learn of a write.
Learns(q, v) ==
    \/ v.pc = "idle" /\ FailsRaced(v)
    \/ /\ v.raced
       /\ v.pc = q.pc
       /\ v.pc # "idle"
       /\ q.pc \in {"clash", "place", "siblings", "demote", "set"} => v.node = q.node
       /\ q.pc \in {"clash", "place"} => v.slug = q.slug

RequestsLearn == \A x \in Requests : Learns(request[x], request'[x])

RowsStay == \A n \in there : node'[n].parent # Nowhere /\ node'[n].slug = node[n].slug

LEMMA LearnedRequests ==
    ASSUME RequestsInv, RequestsLearn, RowsStay
    PROVE  RequestsInv'
<1>1. SUFFICES ASSUME NEW x \in Requests PROVE Knows(request[x])'
  BY DEF RequestsInv
<1> DEFINE q == request[x]
           v == request'[x]
<1>2. Knows(q) /\ Learns(q, v)
  BY DEF RequestsInv, RequestsLearn
<1>3. CASE v.pc = "idle" /\ FailsRaced(v)
  BY <1>3 DEF Knows, NamesRow, KnowsMains, KnowsFree, KnowsLast, KnowsSlug, FailsRaced
<1>4. CASE /\ v.raced /\ v.pc = q.pc /\ v.pc # "idle"
           /\ q.pc \in {"clash", "place", "siblings", "demote", "set"} => v.node = q.node
           /\ q.pc \in {"clash", "place"} => v.slug = q.slug
  <2>1. NamesRow(request[x])'
    BY <1>2, <1>4 DEF Knows, NamesRow, RowsStay, there
  <2>2. KnowsSlug(request[x])'
    BY <1>2, <1>4 DEF Knows, NamesRow, KnowsSlug, RowsStay
  <2>3. QED
    BY <1>4, <2>1, <2>2 DEF Knows, FailsRaced
<1>5. QED
  BY <1>2, <1>3, <1>4 DEF Learns

LEMMA RacedRequests ==
    ASSUME NEW f \in [Requests -> Request], NEW mine, request' = raced(f, mine),
           \A x \in Requests : FailsRaced(f[x]),
           \A x \in Requests : f[x] = request[x] \/ f[x].pc = "idle",
           \A x \in mine \cap Requests : f[x].pc = "idle"
    PROVE  RequestsTyped' /\ RequestsLearn
<1>2. ASSUME NEW x \in Requests PROVE request'[x] \in Request /\ Learns(request[x], request'[x])
  <2>1. f[x].pc \notin {"off"}
    BY RequestShape
  <2>2. request'[x] = IF f[x].pc = "idle" THEN f[x] ELSE [f[x] EXCEPT !.raced = TRUE]
    BY <2>1 DEF raced
  <2>3. CASE f[x].pc = "idle"
    BY <2>2, <2>3 DEF Learns
  <2>4. CASE f[x].pc # "idle"
    <3>1. f[x] = request[x] /\ f[x] \in Request
      BY <2>4
    <3>2. PICK v : v = [request[x] EXCEPT !.raced = TRUE]
      OBVIOUS
    <3>3. request'[x] = v
      BY <2>2, <2>4, <3>1, <3>2
    <3>4. QED
      BY <2>4, <3>1, <3>2, <3>3, RacedRequest DEF Learns
  <2>5. QED
    BY <2>3, <2>4
<1>3. request' = [x \in Requests |-> request'[x]]
  BY DEF raced
<1>4. QED
  BY <1>2, <1>3 DEF RequestsTyped, RequestsLearn

\* What a screen has after others learn of a write.
ScreenLearns(q, v) ==
    /\ v.pc = q.pc
    /\ q.pc # "off" => v.raced /\ v.parent = q.parent
    /\ q.pc = "swap" => v.put = q.put

LEMMA RacedScreens ==
    ASSUME NEW f \in [Screens -> {NoScreen} \cup Listed \cup Swapping], NEW mine, screen' = raced(f, mine)
    PROVE  /\ ScreensTyped'
           /\ \A x \in Screens : x \in mine => screen'[x] = f[x]
           /\ \A x \in Screens : x \notin mine => ScreenLearns(f[x], screen'[x])
<1>1. ASSUME NEW x \in Screens
      PROVE  /\ screen'[x] \in {NoScreen} \cup Listed \cup Swapping
             /\ x \in mine => screen'[x] = f[x]
             /\ x \notin mine => ScreenLearns(f[x], screen'[x])
  <2>1. f[x].pc # "idle"
    BY ScreenShape
  <2>2. screen'[x] = IF x \in mine \/ f[x].pc = "off" THEN f[x] ELSE [f[x] EXCEPT !.raced = TRUE]
    BY <2>1 DEF raced
  <2>3. CASE x \in mine \/ f[x].pc = "off"
    BY <2>2, <2>3 DEF ScreenLearns, NoScreen
  <2>4. CASE ~(x \in mine \/ f[x].pc = "off")
    <3>1. f[x] \in Listed \cup Swapping
      BY <2>4, ScreenShape
    <3>2. PICK v : v = [f[x] EXCEPT !.raced = TRUE]
      OBVIOUS
    <3>3. screen'[x] = v
      BY <2>2, <2>4, <3>2
    <3>4. QED
      BY <2>4, <3>1, <3>2, <3>3, RacedScreen DEF ScreenLearns
  <2>5. QED
    BY <2>3, <2>4
<1>2. screen' = [x \in Screens |-> screen'[x]]
  BY DEF raced
<1>3. QED
  BY <1>1, <1>2 DEF ScreensTyped

\* A write leaves every other request and every screen raced, whatever they were at.
AllLearn ==
    /\ RequestsTyped'
    /\ RequestsLearn
    /\ ScreensTyped'
    /\ \A x \in Screens : ScreenLearns(screen[x], screen'[x])

LEMMA CommitLearns ==
    ASSUME TypesInv, RequestsInv, NEW r \in Requests, NEW reply \in {"created", "moved", "promoted"}, NEW nodes,
           commit(r, reply, nodes), busy(r)
    PROVE  AllLearn
<1>1. PICK q : q = [pc |-> "idle", answer |-> reply, raced |-> request[r].raced]
  OBVIOUS
<1>2. q \in Request /\ q.pc = "idle" /\ FailsRaced(q)
  <2>1. request[r].raced \in BOOLEAN
    BY RequestShape DEF TypesInv, RequestsTyped
  <2>2. QED
    BY <1>1, <2>1 DEF Request, Idling, FailsRaced
<1>3. PICK f : f = [request EXCEPT ![r] = q]
  OBVIOUS
<1>4. /\ f \in [Requests -> Request]
      /\ f[r] = q
      /\ \A x \in Requests : x # r => f[x] = request[x]
  BY <1>2, <1>3 DEF TypesInv, RequestsTyped
<1>5. request' = raced(f, {r})
  BY <1>1, <1>3 DEF commit, end
<1>6. \A x \in Requests : FailsRaced(f[x]) /\ (f[x] = request[x] \/ f[x].pc = "idle")
  BY <1>2, <1>4 DEF RequestsInv, Knows
<1>7. RequestsTyped' /\ RequestsLearn
  BY <1>2, <1>4, <1>5, <1>6, RacedRequests
<1>8. ScreensTyped' /\ \A x \in Screens : ScreenLearns(screen[x], screen'[x])
  BY RacedScreens DEF commit, TypesInv, ScreensTyped
<1>9. QED
  BY <1>7, <1>8 DEF AllLearn

LEMMA OthersLearn ==
    ASSUME TypesInv, RequestsInv, request' = raced(request, {})
    PROVE  RequestsTyped' /\ RequestsLearn
<1>1. request \in [Requests -> Request]
  BY DEF TypesInv, RequestsTyped
<1>2. \A x \in Requests : FailsRaced(request[x])
  BY DEF RequestsInv, Knows
<1>3. QED
  BY <1>1, <1>2, RacedRequests

-----------------------------------------------------------------------------
(***************************************************************************)
(* Steps that read: one request or one screen goes on.                     *)
(***************************************************************************)
Turns(r, q) ==
    /\ request' = [request EXCEPT ![r] = q]
    /\ UNCHANGED << node, screen, marred, jumbled >>
    /\ starts' \in Nat

LEMMA TurnKeeps ==
    ASSUME HierarchyInv, NEW r \in Requests, NEW q \in Request, Turns(r, q), Knows(q)
    PROVE  HierarchyInv'
<1>1. /\ request' \in [Requests -> Request]
      /\ \A x \in Requests : request'[x] = IF x = r THEN q ELSE request[x]
      /\ node' = node /\ screen' = screen /\ marred' = marred /\ jumbled' = jumbled
  BY DEF Turns, HierarchyInv, TypesInv, RequestsTyped
<1>2. TypesInv'
  BY <1>1 DEF Turns, HierarchyInv, TypesInv, NodesTyped, RequestsTyped, ScreensTyped, HistoryTyped, OrdersEnd,
              MainsAreThere, there
<1>3. RequestsInv'
  <2>1. SUFFICES ASSUME NEW x \in Requests PROVE Knows(request[x])'
    BY DEF RequestsInv
  <2>2. Knows(request'[x])
    BY <1>1 DEF HierarchyInv, RequestsInv
  <2> DEFINE v == request'[x]
  <2>3. NamesRow(request[x])' /\ KnowsSlug(request[x])' /\ FailsRaced(request[x])'
    BY <1>1, <2>2 DEF Knows, NamesRow, KnowsSlug, FailsRaced, there
  <2>4. ASSUME ~v.raced PROVE KnowsMains(request[x])' /\ KnowsFree(request[x])' /\ KnowsLast(request[x])'
    <3>1. KnowsMains(request[x])'
      BY <1>1, <2>2, <2>4 DEF Knows, KnowsMains, mains, under
    <3>2. KnowsFree(request[x])'
      BY <1>1, <2>2, <2>4 DEF Knows, KnowsFree, exists, under
    <3>3. KnowsLast(request[x])'
      BY <1>1, <2>2, <2>4 DEF Knows, KnowsLast, under
    <3>4. QED
      BY <3>1, <3>2, <3>3
  <2>5. QED
    BY <2>3, <2>4 DEF Knows
<1>4. OneMain' /\ SlugsApart'
  BY <1>1 DEF HierarchyInv, OneMain, SlugsApart, mains, under, there
<1>5. ScreensKnow'
  BY <1>1 DEF HierarchyInv, OrdersInv, ScreensKnow, KnowsOrders, Exchanges, under
<1>6. OrdersApart'
  BY <1>1 DEF HierarchyInv, OrdersInv, OrdersApart, Apart, HalfDone, under
<1>7. HalvesComplete'
  BY <1>1 DEF HierarchyInv, OrdersInv, HalvesComplete, Completes, HalfDone, under
<1>8. QED
  BY <1>2, <1>3, <1>4, <1>5, <1>6, <1>7 DEF HierarchyInv, OrdersInv

LEMMA BeginsTurns ==
    ASSUME HierarchyInv, NEW r \in Requests, NEW q, begin(r, q)
    PROVE  Turns(r, q)
BY HierarchyAssumption DEF begin, Turns, HierarchyInv, TypesInv, HistoryTyped

LEMMA GoesOnTurns ==
    ASSUME HierarchyInv, NEW r \in Requests, NEW q, goOn(r, q)
    PROVE  Turns(r, q)
BY DEF goOn, Turns, HierarchyInv, TypesInv, HistoryTyped

\* What a refusal leaves: the answer, and whether the request was raced.
LEMMA RefusalKeeps ==
    ASSUME HierarchyInv, NEW r \in Requests, NEW reply \in {"exists", "clash", "error", "rolled back"},
           refuse(r, reply), reply \in {"exists", "error"} => request[r].raced
    PROVE  HierarchyInv'
<1>1. PICK q : q = [pc |-> "idle", answer |-> reply, raced |-> request[r].raced]
  OBVIOUS
<1>2. q \in Request /\ q.pc = "idle" /\ FailsRaced(q)
  <2>1. request[r].raced \in BOOLEAN
    BY RequestShape DEF HierarchyInv, TypesInv, RequestsTyped
  <2>2. QED
    BY <1>1, <2>1 DEF Request, Idling, FailsRaced
<1>3. Knows(q)
  BY <1>2 DEF Knows, NamesRow, KnowsMains, KnowsFree, KnowsLast, KnowsSlug
<1>4. Turns(r, q)
  BY <1>1 DEF refuse, end, Turns, HierarchyInv, TypesInv, HistoryTyped
<1>5. QED
  BY <1>2, <1>3, <1>4, TurnKeeps

LEMMA CreationReads ==
    ASSUME HierarchyInv, NEW r \in Requests,
           \/ \E p \in Parents, base \in Slugs : create(r, p, base)
           \/ uniqueSlug(r)
           \/ rank(r)
    PROVE  HierarchyInv'
<1>1. ASSUME NEW p \in Parents, NEW base \in Slugs, create(r, p, base) PROVE HierarchyInv'
  <2>1. PICK q : q = [pc |-> "probe", parent |-> p, base |-> base, k |-> 1, raced |-> FALSE]
    OBVIOUS
  <2>2. q \in Request /\ Knows(q)
    BY <2>1 DEF Request, Probing, Knows, NamesRow, KnowsMains, KnowsFree, KnowsLast, KnowsSlug, FailsRaced
  <2>3. begin(r, q)
    BY <1>1, <2>1 DEF create
  <2>4. QED
    BY <2>2, <2>3, BeginsTurns, TurnKeeps
<1>2. CASE uniqueSlug(r)
  <2> DEFINE q == request[r]
  <2>1. q \in Probing
    BY <1>2, RequestShape DEF uniqueSlug, HierarchyInv, TypesInv, RequestsTyped
  <2>2. CASE taken(q)
    <3>1. PICK v : v = [q EXCEPT !.k = @ + 1]
      OBVIOUS
    <3>2. v \in Probing
      <4>1. q.k \in Nat \ {0} /\ q.k + 1 \in Nat \ {0}
        BY <2>1 DEF Probing
      <4>2. QED
        BY <2>1, <3>1, <4>1 DEF Probing
    <3>3. v \in Request /\ Knows(v)
      BY <3>2 DEF Request, Probing, Knows, NamesRow, KnowsMains, KnowsFree, KnowsLast, KnowsSlug, FailsRaced
    <3>4. goOn(r, v)
      BY <1>2, <2>2, <3>1 DEF uniqueSlug
    <3>5. QED
      BY <3>3, <3>4, GoesOnTurns, TurnKeeps
  <2>3. CASE ~taken(q)
    <3>1. PICK v : v = [pc |-> "rank", parent |-> q.parent, slug |-> candidate(q.base, q.k), raced |-> q.raced]
      OBVIOUS
    <3>2. v \in Ranking /\ ~exists(v.parent, v.slug)
      <4>1. q.base \in Slugs /\ q.k \in Nat \ {0} /\ q.parent \in Parents /\ q.raced \in BOOLEAN
        BY <2>1 DEF Probing
      <4>2. candidate(q.base, q.k) \in AnySlug
        BY <4>1 DEF AnySlug
      <4>3. ~exists(q.parent, candidate(q.base, q.k))
        BY <2>3 DEF taken
      <4>4. QED
        BY <3>1, <4>1, <4>2, <4>3 DEF Ranking
    <3>3. v \in Request /\ Knows(v)
      BY <3>2 DEF Request, Ranking, Knows, NamesRow, KnowsMains, KnowsFree, KnowsLast, KnowsSlug, FailsRaced
    <3>4. goOn(r, v)
      BY <1>2, <2>3, <3>1 DEF uniqueSlug
    <3>5. QED
      BY <3>3, <3>4, GoesOnTurns, TurnKeeps
  <2>4. QED
    BY <2>2, <2>3
<1>3. CASE rank(r)
  <2> DEFINE q == request[r]
  <2>1. q \in Ranking /\ Knows(q)
    BY <1>3, RequestShape DEF rank, HierarchyInv, TypesInv, RequestsTyped, RequestsInv
  <2>2. PICK v : v = [pc |-> "insert", parent |-> q.parent, slug |-> q.slug, order |-> nextOrder(q.parent),
                      raced |-> q.raced]
    OBVIOUS
  <2>3. nextOrder(q.parent) \in Nat /\ \A n \in under(q.parent) : node[n].order < nextOrder(q.parent)
    BY NextIsLast DEF HierarchyInv, TypesInv
  <2>4. v \in Inserting
    BY <2>1, <2>2, <2>3 DEF Ranking, Inserting
  <2>5. ~v.raced => ~exists(v.parent, v.slug) /\ \A n \in under(v.parent) : node[n].order < v.order
    BY <2>1, <2>2, <2>3 DEF Ranking, Knows, KnowsFree
  <2>6. v \in Request /\ Knows(v)
    BY <2>4, <2>5 DEF Request, Inserting, Knows, NamesRow, KnowsMains, KnowsFree, KnowsLast, KnowsSlug, FailsRaced
  <2>7. goOn(r, v)
    BY <1>3, <2>2 DEF rank
  <2>8. QED
    BY <2>6, <2>7, GoesOnTurns, TurnKeeps
<1>4. QED
  BY <1>1, <1>2, <1>3

LEMMA MoveReads ==
    ASSUME HierarchyInv, NEW r \in Requests,
           \/ \E n \in Nodes, p \in Parents : move(r, n, p)
           \/ clash(r)
    PROVE  HierarchyInv'
<1>1. ASSUME NEW n \in Nodes, NEW p \in Parents, move(r, n, p) PROVE HierarchyInv'
  <2>1. PICK q : q = [pc |-> "clash", node |-> n, to |-> p, slug |-> node[n].slug, raced |-> FALSE]
    OBVIOUS
  <2>2. n \in there /\ begin(r, q)
    BY <1>1, <2>1 DEF move
  <2>3. node[n].slug \in AnySlug
    BY DEF HierarchyInv, TypesInv, NodesTyped, Row
  <2>4. q \in Request /\ Knows(q)
    BY <2>1, <2>2, <2>3
       DEF Request, Moving, Knows, NamesRow, KnowsMains, KnowsFree, KnowsLast, KnowsSlug, FailsRaced
  <2>5. QED
    BY <2>2, <2>4, BeginsTurns, TurnKeeps
<1>2. CASE clash(r)
  <2> DEFINE q == request[r]
  <2>1. q \in Moving /\ q.pc = "clash" /\ Knows(q)
    BY <1>2, RequestShape DEF clash, HierarchyInv, TypesInv, RequestsTyped, RequestsInv
  <2>2. CASE \E n \in under(q.to) \ {q.node} : node[n].slug = q.slug
    <3>1. refuse(r, "clash")
      BY <1>2, <2>2 DEF clash
    <3>2. QED
      BY <3>1, RefusalKeeps
  <2>3. CASE ~\E n \in under(q.to) \ {q.node} : node[n].slug = q.slug
    <3>1. PICK v : v = [q EXCEPT !.pc = "place"]
      OBVIOUS
    <3>2. v \in Moving /\ v.pc = "place" /\ v.node = q.node /\ v.slug = q.slug /\ v.to = q.to
      BY <2>1, <3>1 DEF Moving
    <3>3. v \in Request /\ Knows(v)
      BY <2>1, <2>3, <3>2 DEF Request, Knows, NamesRow, KnowsMains, KnowsFree, KnowsLast, KnowsSlug, FailsRaced
    <3>4. goOn(r, v)
      BY <1>2, <2>3, <3>1 DEF clash
    <3>5. QED
      BY <3>3, <3>4, GoesOnTurns, TurnKeeps
  <2>4. QED
    BY <2>2, <2>3
<1>3. QED
  BY <1>1, <1>2

LEMMA PromotionReads ==
    ASSUME HierarchyInv, NEW r \in Requests,
           \/ \E n \in Nodes : promote(r, n)
           \/ findSiblings(r)
           \/ demote(r)
           \/ rollBack(r)
    PROVE  HierarchyInv'
<1>1. ASSUME NEW n \in Nodes, promote(r, n) PROVE HierarchyInv'
  <2>1. PICK q : q = [pc |-> "siblings", node |-> n, parent |-> node[n].parent, raced |-> FALSE]
    OBVIOUS
  <2>2. n \in there /\ begin(r, q)
    BY <1>1, <2>1 DEF promote
  <2>3. node[n].parent \in Parents
    BY <2>2 DEF HierarchyInv, TypesInv, NodesTyped, Row, there
  <2>4. q \in Request /\ Knows(q)
    BY <2>1, <2>2, <2>3
       DEF Request, Seeking, Knows, NamesRow, KnowsMains, KnowsFree, KnowsLast, KnowsSlug, FailsRaced
  <2>5. QED
    BY <2>2, <2>4, BeginsTurns, TurnKeeps
<1>2. CASE findSiblings(r)
  <2> DEFINE q == request[r]
  <2>1. q \in Seeking /\ q.pc = "siblings" /\ Knows(q)
    BY <1>2, RequestShape DEF findSiblings, HierarchyInv, TypesInv, RequestsTyped, RequestsInv
  <2>2. PICK v : v = [pc |-> "demote", node |-> q.node, parent |-> q.parent, found |-> siblings(q), raced |-> q.raced]
    OBVIOUS
  <2>3. siblings(q) = mains(q.parent) \ {q.node} /\ siblings(q) \subseteq Nodes
    BY DEF siblings, mains, under
  <2>4. v \in Demoting /\ v.pc = "demote"
    BY <2>1, <2>2, <2>3 DEF Seeking, Demoting
  <2>5. v \in Request /\ Knows(v)
    BY <2>1, <2>2, <2>3, <2>4
       DEF Request, Knows, NamesRow, KnowsMains, KnowsFree, KnowsLast, KnowsSlug, FailsRaced
  <2>6. goOn(r, v)
    BY <1>2, <2>2 DEF findSiblings
  <2>7. QED
    BY <2>5, <2>6, GoesOnTurns, TurnKeeps
<1>3. CASE demote(r)
  <2> DEFINE q == request[r]
  <2>1. q \in Demoting /\ q.pc = "demote" /\ Knows(q)
    BY <1>3, RequestShape DEF demote, HierarchyInv, TypesInv, RequestsTyped, RequestsInv
  <2>2. PICK v : v = [pc |-> "set", node |-> q.node, demoted |-> q.found \cap mains(q.parent), raced |-> q.raced]
    OBVIOUS
  <2>3. v \in Setting /\ v.pc = "set"
    BY <2>1, <2>2 DEF Demoting, Setting
  <2>4. ~v.raced => v.demoted = mains(node[v.node].parent) \ {v.node}
    <3>1. SUFFICES ASSUME ~q.raced PROVE q.found \cap mains(q.parent) = mains(node[q.node].parent) \ {q.node}
      BY <2>2
    <3>2. q.parent = node[q.node].parent /\ q.found = mains(q.parent) \ {q.node}
      BY <2>1, <3>1 DEF Knows, KnowsMains
    <3>3. QED
      BY <3>2
  <2>5. v \in Request /\ Knows(v)
    BY <2>1, <2>2, <2>3, <2>4
       DEF Request, Knows, NamesRow, KnowsMains, KnowsFree, KnowsLast, KnowsSlug, FailsRaced
  <2>6. goOn(r, v)
    BY <1>3, <2>2 DEF demote
  <2>7. QED
    BY <2>5, <2>6, GoesOnTurns, TurnKeeps
<1>4. CASE rollBack(r)
  BY <1>4, RefusalKeeps DEF rollBack
<1>5. QED
  BY <1>1, <1>2, <1>3, <1>4

-----------------------------------------------------------------------------
(***************************************************************************)
(* Steps that write rows: what is left to see is that the rows stay right. *)
(***************************************************************************)
LEMMA WriteKeeps ==
    ASSUME HierarchyInv, AllLearn, RowsStay,
           NodesTyped', HistoryTyped', OrdersEnd', MainsAreThere', OneMain', SlugsApart',
           \A p \in Parents \ jumbled' : (\A s \in Screens : ~HalfDone(s, p)) => Apart(p)'
    PROVE  HierarchyInv'
<1>1. TypesInv'
  BY DEF AllLearn, TypesInv
<1>2. RequestsInv'
  BY LearnedRequests DEF AllLearn, HierarchyInv
<1>3. \A s \in Screens : screen'[s].pc # "off" => screen'[s].raced
  BY DEF AllLearn, ScreenLearns
<1>4. \A p : \A s \in Screens : HalfDone(s, p) => HalfDone(s, p)'
  BY DEF AllLearn, ScreenLearns, HalfDone
<1>5. ScreensKnow'
  BY <1>3 DEF ScreensKnow, KnowsOrders
<1>6. OrdersApart'
  BY <1>4 DEF OrdersApart
<1>7. HalvesComplete'
  BY <1>3 DEF HalvesComplete
<1>8. QED
  BY <1>1, <1>2, <1>5, <1>6, <1>7 DEF HierarchyInv, OrdersInv

LEMMA InsertStep ==
    ASSUME HierarchyInv, NEW r \in Requests, insert(r)
    PROVE  HierarchyInv'
<1> DEFINE q == request[r]
<1>1. q \in Inserting /\ q.pc = "insert" /\ Knows(q)
  BY RequestShape DEF insert, HierarchyInv, TypesInv, RequestsTyped, RequestsInv
<1>2. /\ q.parent \in Parents /\ q.parent # Nowhere
      /\ q.slug \in AnySlug
      /\ q.order \in Nat
  BY <1>1, HierarchyAssumption DEF Inserting
<1>3. CASE exists(q.parent, q.slug)
  <2>1. refuse(r, "exists")
    BY <1>3 DEF insert
  <2>2. q.raced
    BY <1>1, <1>3 DEF Knows, KnowsFree
  <2>3. QED
    BY <2>1, <2>2, RefusalKeeps
<1>4. CASE ~exists(q.parent, q.slug)
  <2>0. PICK row : row = [parent |-> q.parent, slug |-> q.slug, main |-> FALSE, order |-> q.order]
    OBVIOUS
  <2>1. PICK n \in Nodes \ there :
           /\ commit(r, "created", [node EXCEPT ![n] = row])
           /\ jumbled' = IF q.raced THEN jumbled \cup {q.parent} ELSE jumbled
           /\ marred' = marred
    BY <1>4, <2>0 DEF insert
  <2>2. node \in [Nodes -> Row] /\ node[n].parent = Nowhere /\ ~node[n].main
    BY <2>1 DEF HierarchyInv, TypesInv, NodesTyped, Row, there, MainsAreThere
  <2>3. /\ row \in Row
        /\ row.parent = q.parent /\ row.slug = q.slug /\ ~row.main /\ row.order = q.order
    BY <1>2, <2>0 DEF Row
  <2>4. /\ node' \in [Nodes -> Row]
        /\ node'[n] = row
        /\ \A m \in Nodes : m # n => node'[m] = node[m]
        /\ starts' = starts
    BY <2>1, <2>2, <2>3 DEF commit
  <2>5. AllLearn
    BY <1>1, <2>1, CommitLearns DEF HierarchyInv, busy
  <2>6. RowsStay
    BY <2>1, <2>4 DEF RowsStay, there
  <2>7. NodesTyped' /\ HistoryTyped'
    BY <1>2, <2>1, <2>4 DEF NodesTyped, HistoryTyped, HierarchyInv, TypesInv
  <2>8. OrdersEnd'
    <3>1. PICK last \in Nat : \A m \in Nodes : node[m].order <= last
      BY DEF HierarchyInv, TypesInv, OrdersEnd
    <3>2. last + q.order \in Nat
      BY <1>2
    <3>3. ASSUME NEW m \in Nodes PROVE node'[m].order <= last + q.order
      <4>1. node[m].order \in Nat
        BY <2>2 DEF Row
      <4>2. QED
        BY <1>2, <2>3, <2>4, <3>1, <4>1
    <3>4. QED
      BY <3>2, <3>3 DEF OrdersEnd
  <2>9. \A p : mains(p)' = mains(p)
    BY <2>2, <2>3, <2>4 DEF mains, under
  <2>10. MainsAreThere'
    BY <2>1, <2>3, <2>4, <2>6 DEF MainsAreThere, HierarchyInv, TypesInv, RowsStay, there
  <2>11. OneMain'
    BY <2>1, <2>9 DEF OneMain, HierarchyInv
  <2>12. SlugsApart'
    <3>1. SUFFICES ASSUME NEW k \in there', NEW m \in there',
                          node'[k].parent = node'[m].parent, node'[k].slug = node'[m].slug, k # m
                   PROVE  FALSE
      BY DEF SlugsApart
    <3>2. k \in Nodes /\ m \in Nodes
      BY DEF there
    <3>3. CASE k # n /\ m # n
      <4>1. k \in there /\ m \in there
        BY <2>4, <3>2, <3>3 DEF there
      <4>2. QED
        BY <2>4, <3>1, <3>2, <3>3, <4>1 DEF HierarchyInv, SlugsApart
    <3>4. CASE k = n
      BY <1>4, <2>3, <2>4, <3>1, <3>2, <3>4 DEF exists, under
    <3>5. CASE m = n
      BY <1>4, <2>3, <2>4, <3>1, <3>2, <3>5 DEF exists, under
    <3>6. QED
      BY <3>3, <3>4, <3>5
  <2>13. ASSUME NEW p \in Parents \ jumbled', \A s \in Screens : ~HalfDone(s, p)
         PROVE  Apart(p)'
    <3>1. Apart(p)
      BY <2>1, <2>13 DEF HierarchyInv, OrdersInv, OrdersApart
    <3>2. SUFFICES ASSUME NEW k \in under(p)', NEW m \in under(p)', node'[k].order = node'[m].order, k # m
                   PROVE  FALSE
      BY DEF Apart
    <3>3. k \in Nodes /\ m \in Nodes
      BY DEF under
    <3>4. CASE k # n /\ m # n
      <4>1. k \in under(p) /\ m \in under(p)
        BY <2>4, <3>3, <3>4 DEF under
      <4>2. QED
        BY <2>4, <3>1, <3>2, <3>3, <3>4, <4>1 DEF Apart
    <3>5. ASSUME NEW l \in Nodes, l # n, l \in under(p)', n \in under(p)', node'[l].order = q.order PROVE FALSE
      <4>1. p = q.parent
        BY <2>3, <2>4, <3>5 DEF under
      <4>2. ~q.raced
        BY <2>1, <2>13, <4>1
      <4>3. l \in under(q.parent)
        BY <2>4, <3>5, <4>1 DEF under
      <4>4. node[l].order < q.order
        BY <1>1, <4>2, <4>3 DEF Knows, KnowsLast
      <4>5. node[l].order = q.order
        BY <2>4, <3>5
      <4>6. QED
        BY <1>2, <4>4, <4>5
    <3>6. CASE k = n
      BY <2>3, <2>4, <3>2, <3>3, <3>5, <3>6
    <3>7. CASE m = n
      BY <2>3, <2>4, <3>2, <3>3, <3>5, <3>7
    <3>8. QED
      BY <3>4, <3>6, <3>7
  <2>14. QED
    BY <2>5, <2>6, <2>7, <2>8, <2>10, <2>11, <2>12, <2>13, WriteKeeps
<1>5. QED
  BY <1>3, <1>4

LEMMA PlaceStep ==
    ASSUME HierarchyInv, NEW r \in Requests, place(r)
    PROVE  HierarchyInv'
<1> DEFINE q == request[r]
           n == q.node
           to == q.to
<1>1. q \in Moving /\ q.pc = "place" /\ Knows(q)
  BY RequestShape DEF place, HierarchyInv, TypesInv, RequestsTyped, RequestsInv
<1>2. to \in Parents /\ to # Nowhere /\ n \in there /\ n \in Nodes /\ q.slug = node[n].slug
  BY <1>1, HierarchyAssumption DEF Moving, Knows, NamesRow, KnowsSlug
<1>3. CASE \E m \in under(to) \ {n} : node[m].slug = node[n].slug
  <2>1. refuse(r, "error")
    BY <1>3 DEF place
  <2>2. q.raced
    BY <1>1, <1>2, <1>3 DEF Knows, KnowsFree
  <2>3. QED
    BY <2>1, <2>2, RefusalKeeps
<1>4. CASE ~\E m \in under(to) \ {n} : node[m].slug = node[n].slug
  <2>1. /\ commit(r, "moved", [node EXCEPT ![n].parent = to])
        /\ jumbled' = jumbled \cup {to}
        /\ marred' = IF node[n].main THEN marred \cup {to} ELSE marred
    BY <1>4 DEF place
  <2>2. node \in [Nodes -> Row]
    BY DEF HierarchyInv, TypesInv, NodesTyped
  <2>3. /\ node' \in [Nodes -> Row]
        /\ \A m \in Nodes : /\ node'[m].parent = IF m = n THEN to ELSE node[m].parent
                            /\ node'[m].slug = node[m].slug
                            /\ node'[m].main = node[m].main
                            /\ node'[m].order = node[m].order
        /\ starts' = starts
    BY <1>2, <2>1, <2>2 DEF commit, Row
  <2>4. AllLearn
    BY <1>1, <2>1, CommitLearns DEF HierarchyInv, busy
  <2>5. RowsStay
    BY <1>2, <2>3 DEF RowsStay, there
  <2>6. NodesTyped' /\ HistoryTyped'
    BY <1>2, <2>1, <2>3 DEF NodesTyped, HistoryTyped, HierarchyInv, TypesInv
  <2>7. OrdersEnd'
    BY <2>3 DEF HierarchyInv, TypesInv, OrdersEnd
  <2>8. MainsAreThere'
    BY <2>3, <2>5 DEF MainsAreThere, HierarchyInv, TypesInv, RowsStay, there
  <2>9. OneMain'
    <3>1. SUFFICES ASSUME NEW p \in Parents \ marred', NEW k \in mains(p)', NEW m \in mains(p)' PROVE k = m
      BY DEF OneMain
    <3>2. p \notin marred
      BY <2>1
    <3>3. \A l \in mains(p)' : l \in mains(p)
      BY <2>1, <2>3 DEF mains, under
    <3>4. QED
      BY <3>2, <3>3 DEF HierarchyInv, OneMain
  <2>10. SlugsApart'
    <3>1. SUFFICES ASSUME NEW k \in there', NEW m \in there',
                          node'[k].parent = node'[m].parent, node'[k].slug = node'[m].slug, k # m
                   PROVE  FALSE
      BY DEF SlugsApart
    <3>2. k \in Nodes /\ m \in Nodes
      BY DEF there
    <3>3. CASE k # n /\ m # n
      <4>1. k \in there /\ m \in there
        BY <2>3, <3>2, <3>3 DEF there
      <4>2. QED
        BY <2>3, <3>1, <3>2, <3>3, <4>1 DEF HierarchyInv, SlugsApart
    <3>4. CASE k = n
      BY <1>4, <2>3, <3>1, <3>2, <3>4 DEF under
    <3>5. CASE m = n
      BY <1>4, <2>3, <3>1, <3>2, <3>5 DEF under
    <3>6. QED
      BY <3>3, <3>4, <3>5
  <2>11. ASSUME NEW p \in Parents \ jumbled', \A s \in Screens : ~HalfDone(s, p)
         PROVE  Apart(p)'
    <3>1. Apart(p)
      BY <2>1, <2>11 DEF HierarchyInv, OrdersInv, OrdersApart
    <3>2. p # to
      BY <2>1
    <3>3. \A k \in under(p)' : k \in under(p) /\ node'[k].order = node[k].order
      BY <2>3, <3>2 DEF under
    <3>4. QED
      BY <3>1, <3>3 DEF Apart
  <2>12. QED
    BY <2>4, <2>5, <2>6, <2>7, <2>8, <2>9, <2>10, <2>11, WriteKeeps
<1>5. QED
  BY <1>3, <1>4

\* A write that changes no parent, slug or order leaves what is about them.
LEMMA MainsChange ==
    ASSUME HierarchyInv, node' \in [Nodes -> Row], jumbled' = jumbled,
           \A m \in Nodes : /\ node'[m].parent = node[m].parent
                            /\ node'[m].slug = node[m].slug
                            /\ node'[m].order = node[m].order
    PROVE  /\ RowsStay /\ NodesTyped' /\ OrdersEnd' /\ SlugsApart'
           /\ \A p \in Parents \ jumbled' : (\A s \in Screens : ~HalfDone(s, p)) => Apart(p)'
<1>1. there' = there /\ \A p : under(p)' = under(p)
  BY DEF there, under
<1>2. RowsStay /\ NodesTyped' /\ OrdersEnd'
  BY DEF RowsStay, NodesTyped, OrdersEnd, HierarchyInv, TypesInv, there
<1>3. SlugsApart'
  BY <1>1 DEF SlugsApart, HierarchyInv, there
<1>4. ASSUME NEW p \in Parents \ jumbled', \A s \in Screens : ~HalfDone(s, p)
      PROVE  Apart(p)'
  BY <1>1, <1>4 DEF HierarchyInv, OrdersInv, OrdersApart, Apart, under
<1>5. QED
  BY <1>2, <1>3, <1>4

LEMMA SetMainStep ==
    ASSUME HierarchyInv, NEW r \in Requests, setMain(r)
    PROVE  HierarchyInv'
<1> DEFINE q == request[r]
           n == q.node
           p == node[n].parent
<1>1. q \in Setting /\ q.pc = "set" /\ Knows(q)
  BY RequestShape DEF setMain, HierarchyInv, TypesInv, RequestsTyped, RequestsInv
<1>2. n \in Nodes /\ n \in there /\ p \in Parents
  BY <1>1 DEF Setting, Knows, NamesRow, there, HierarchyInv, TypesInv, NodesTyped, Row
<1>3. PICK nodes :
         /\ nodes = [m \in Nodes |-> IF m = n THEN [node[m] EXCEPT !.main = TRUE]
                                     ELSE IF m \in q.demoted THEN [node[m] EXCEPT !.main = FALSE]
                                     ELSE node[m]]
         /\ commit(r, "promoted", nodes)
         /\ marred' = IF q.raced THEN marred \cup {p} ELSE marred \ {p}
         /\ jumbled' = jumbled
  BY DEF setMain
<1>4. node \in [Nodes -> Row] /\ \A m \in Nodes : node[m] \in Row
  BY DEF HierarchyInv, TypesInv, NodesTyped
<1>5. ASSUME NEW m \in Nodes
      PROVE  /\ node'[m] \in Row
             /\ node'[m].parent = node[m].parent
             /\ node'[m].slug = node[m].slug
             /\ node'[m].order = node[m].order
             /\ node'[m].main => m = n \/ (node[m].main /\ m \notin q.demoted)
  <2>1. node'[m] = IF m = n THEN [node[m] EXCEPT !.main = TRUE]
                   ELSE IF m \in q.demoted THEN [node[m] EXCEPT !.main = FALSE]
                   ELSE node[m]
    BY <1>3 DEF commit
  <2>2. QED
    BY <1>4, <2>1 DEF Row
<1>6. node' \in [Nodes -> Row] /\ starts' = starts
  BY <1>3, <1>5 DEF commit
<1>7. AllLearn
  BY <1>1, <1>3, CommitLearns DEF HierarchyInv, busy
<1>8. /\ RowsStay /\ NodesTyped' /\ OrdersEnd' /\ SlugsApart'
      /\ \A x \in Parents \ jumbled' : (\A s \in Screens : ~HalfDone(s, x)) => Apart(x)'
  BY <1>3, <1>5, <1>6, MainsChange
<1>9. HistoryTyped'
  BY <1>2, <1>3, <1>6 DEF HistoryTyped, HierarchyInv, TypesInv
<1>10. MainsAreThere'
  BY <1>2, <1>5 DEF MainsAreThere, HierarchyInv, TypesInv, there
<1>11. OneMain'
  <2>1. SUFFICES ASSUME NEW x \in Parents \ marred', NEW k \in mains(x)', NEW m \in mains(x)' PROVE k = m
    BY DEF OneMain
  <2>2. CASE x = p
    <3>1. ~q.raced
      BY <1>3, <2>2
    <3>2. q.demoted = mains(p) \ {n}
      BY <1>1, <3>1 DEF Knows, KnowsMains
    <3>3. \A l \in mains(x)' : l = n
      BY <1>5, <2>2, <3>2 DEF mains, under
    <3>4. QED
      BY <3>3
  <2>3. CASE x # p
    <3>1. x \notin marred
      BY <1>3, <2>3
    <3>2. \A l \in mains(x)' : l \in mains(x)
      BY <1>5, <2>3 DEF mains, under
    <3>3. QED
      BY <3>1, <3>2 DEF HierarchyInv, OneMain
  <2>4. QED
    BY <2>2, <2>3
<1>12. QED
  BY <1>7, <1>8, <1>9, <1>10, <1>11, WriteKeeps

LEMMA UnsetMainStep ==
    ASSUME HierarchyInv, NEW n \in Nodes, unsetMain(n)
    PROVE  HierarchyInv'
<1>1. node \in [Nodes -> Row] /\ node' = [node EXCEPT ![n].main = FALSE]
  BY DEF unsetMain, HierarchyInv, TypesInv, NodesTyped
<1>2. /\ node' \in [Nodes -> Row]
      /\ \A m \in Nodes : /\ node'[m].parent = node[m].parent
                          /\ node'[m].slug = node[m].slug
                          /\ node'[m].order = node[m].order
                          /\ node'[m].main => node[m].main
  BY <1>1 DEF Row
<1>3. RequestsTyped' /\ RequestsLearn
  BY OthersLearn DEF unsetMain, HierarchyInv
<1>4. ScreensTyped' /\ \A x \in Screens : ScreenLearns(screen[x], screen'[x])
  BY RacedScreens DEF unsetMain, HierarchyInv, TypesInv, ScreensTyped
<1>5. AllLearn
  BY <1>3, <1>4 DEF AllLearn
<1>6. /\ RowsStay /\ NodesTyped' /\ OrdersEnd' /\ SlugsApart'
      /\ \A p \in Parents \ jumbled' : (\A s \in Screens : ~HalfDone(s, p)) => Apart(p)'
  BY <1>2, MainsChange DEF unsetMain
<1>7. HistoryTyped'
  BY HierarchyAssumption DEF unsetMain, HistoryTyped, HierarchyInv, TypesInv
<1>8. MainsAreThere'
  BY <1>2 DEF MainsAreThere, HierarchyInv, TypesInv, there
<1>9. OneMain'
  BY <1>2 DEF OneMain, HierarchyInv, mains, under, unsetMain
<1>10. QED
  BY <1>5, <1>6, <1>7, <1>8, <1>9, WriteKeeps

-----------------------------------------------------------------------------
(***************************************************************************)
(* Screens.  A list and an exchange that is lost or over write no row.     *)
(***************************************************************************)
ScreenTurns(s, q) ==
    /\ screen' = [screen EXCEPT ![s] = q]
    /\ UNCHANGED << node, request, marred >>
    /\ starts' \in Nat

LEMMA ScreenKeeps ==
    ASSUME HierarchyInv, NEW s \in Screens, NEW q \in {NoScreen} \cup Listed \cup Swapping,
           ScreenTurns(s, q), KnowsOrders(q),
           jumbled' \in SUBSET Parents, jumbled \subseteq jumbled',
           \A p \in Parents \ jumbled' : ~HalfDone(s, p) /\ ~HalfDone(s, p)'
    PROVE  HierarchyInv'
<1>1. /\ screen' \in [Screens -> {NoScreen} \cup Listed \cup Swapping]
      /\ screen'[s] = q
      /\ \A x \in Screens : x # s => screen'[x] = screen[x]
      /\ node' = node /\ request' = request /\ marred' = marred
  BY DEF ScreenTurns, HierarchyInv, TypesInv, ScreensTyped
<1>2. TypesInv'
  BY <1>1 DEF ScreenTurns, HierarchyInv, TypesInv, NodesTyped, RequestsTyped, ScreensTyped, HistoryTyped, OrdersEnd,
              MainsAreThere, there
<1>3. RequestsInv'
  BY <1>1 DEF HierarchyInv, RequestsInv, Knows, NamesRow, KnowsSlug, FailsRaced, KnowsMains, KnowsFree, KnowsLast,
              exists, mains, under, there
<1>4. OneMain' /\ SlugsApart'
  BY <1>1 DEF HierarchyInv, OneMain, SlugsApart, mains, under, there
<1>5. ScreensKnow'
  <2>1. ASSUME NEW x \in Screens PROVE KnowsOrders(screen[x])'
    <3>1. KnowsOrders(screen'[x])
      BY <1>1 DEF HierarchyInv, OrdersInv, ScreensKnow
    <3>2. QED
      BY <1>1, <3>1 DEF KnowsOrders, Exchanges, under
  <2>2. QED
    BY <2>1 DEF ScreensKnow
<1>6. \A p \in Parents \ jumbled' : \A x \in Screens : HalfDone(x, p) <=> HalfDone(x, p)'
  <2>1. ASSUME NEW p \in Parents \ jumbled', NEW x \in Screens, x # s PROVE HalfDone(x, p) <=> HalfDone(x, p)'
    <3>1. screen'[x] = screen[x]
      BY <1>1, <2>1
    <3>2. QED
      BY <3>1 DEF HalfDone
  <2>2. QED
    BY <2>1
<1>7. OrdersApart'
  BY <1>1, <1>6 DEF HierarchyInv, OrdersInv, OrdersApart, Apart, under
<1>8. HalvesComplete'
  <2>1. SUFFICES ASSUME NEW x \in Screens, NEW l \in Nodes,
                        screen'[x].pc = "swap", ~screen'[x].raced, DOMAIN screen'[x].put = {l},
                        screen'[x].parent \notin jumbled',
                        \A y \in Screens \ {x} : ~HalfDone(y, screen[x].parent)'
                 PROVE  Completes(screen[x], l)'
    BY DEF HalvesComplete
  <2>2. screen'[x].parent \in Parents
    BY <1>1, <2>1, ScreenShape DEF Swapping
  <2>3. x # s
    BY <2>1, <2>2 DEF HalfDone
  <2>4. screen'[x] = screen[x]
    BY <1>1, <2>3
  <2>5. \A y \in Screens \ {x} : ~HalfDone(y, screen[x].parent)
    BY <1>6, <2>1, <2>2, <2>4
  <2>6. Completes(screen[x], l)
    BY <2>1, <2>4, <2>5 DEF HierarchyInv, OrdersInv, HalvesComplete
  <2>7. QED
    BY <1>1, <2>4, <2>6 DEF Completes, under
<1>9. QED
  BY <1>2, <1>3, <1>4, <1>5, <1>7, <1>8 DEF HierarchyInv, OrdersInv

LEMMA ListStep ==
    ASSUME HierarchyInv, NEW s \in Screens, NEW p \in Parents, list(s, p)
    PROVE  HierarchyInv'
<1>1. PICK orderOf : orderOf = [n \in under(p) |-> node[n].order]
  OBVIOUS
<1>2. PICK q : q = [pc |-> "listed", parent |-> p, raced |-> FALSE, shown |-> orderOf]
  OBVIOUS
<1>3. orderOf \in Orders
  <2>1. under(p) \in SUBSET Nodes /\ orderOf \in [under(p) -> Nat]
    BY <1>1 DEF under, HierarchyInv, TypesInv, NodesTyped, Row
  <2>2. QED
    BY <2>1, AreOrders
<1>4. q \in Listed /\ q.pc = "listed" /\ KnowsOrders(q)
  BY <1>1, <1>2, <1>3 DEF Listed, KnowsOrders
<1>5. ScreenTurns(s, q) /\ jumbled' = jumbled
  BY <1>1, <1>2 DEF list, ScreenTurns, HierarchyInv, TypesInv, HistoryTyped
<1>6. screen'[s] = q /\ screen[s].pc = "off"
  BY <1>5 DEF list, ScreenTurns, HierarchyInv, TypesInv, ScreensTyped
<1>7. \A x : ~HalfDone(s, x) /\ ~HalfDone(s, x)'
  BY <1>4, <1>6 DEF HalfDone
<1>8. QED
  BY <1>4, <1>5, <1>7, ScreenKeeps DEF HierarchyInv, TypesInv, HistoryTyped

LEMMA MoveOrderStep ==
    ASSUME HierarchyInv, NEW s \in Screens, NEW n \in Nodes, NEW m \in Nodes, moveServiceOrder(s, n, m)
    PROVE  HierarchyInv'
<1> DEFINE q == screen[s]
           shown == q.shown
<1>1. q \in Listed /\ q.pc = "listed" /\ KnowsOrders(q)
  BY ScreenShape DEF moveServiceOrder, HierarchyInv, TypesInv, ScreensTyped, OrdersInv, ScreensKnow
<1>2. n # m /\ n \in DOMAIN shown /\ m \in DOMAIN shown
  BY DEF moveServiceOrder, neighbours
<1>3. shown[n] \in Nat /\ shown[m] \in Nat
  <2>1. shown \in Orders
    BY <1>1 DEF Listed
  <2>2. PICK S \in SUBSET Nodes : shown \in [S -> Nat] /\ DOMAIN shown = S
    BY <2>1, OrdersAre
  <2>3. QED
    BY <1>2, <2>2
<1>4. PICK orderOf : orderOf = [l \in {n, m} |-> shown[IF l = n THEN m ELSE n]]
  OBVIOUS
<1>5. DOMAIN orderOf = {n, m} /\ orderOf[n] = shown[m] /\ orderOf[m] = shown[n] /\ orderOf \in [{n, m} -> Nat]
  BY <1>2, <1>3, <1>4
<1>6. PICK v : v = [pc |-> "swap", parent |-> q.parent, raced |-> q.raced, put |-> orderOf]
  OBVIOUS
<1>7. v \in Swapping /\ v.pc = "swap"
  <2>1. orderOf \in Orders
    BY <1>5, AreOrders
  <2>2. QED
    BY <1>1, <1>6, <2>1 DEF Listed, Swapping
<1>8. KnowsOrders(v)
  <2>1. SUFFICES ASSUME ~q.raced PROVE Exchanges(v, n, m)
    BY <1>6 DEF KnowsOrders
  <2>2. shown = [l \in under(q.parent) |-> node[l].order]
    BY <1>1, <2>1 DEF KnowsOrders
  <2>3. /\ n \in under(q.parent) /\ m \in under(q.parent)
        /\ shown[n] = node[n].order /\ shown[m] = node[m].order
    BY <1>2, <2>2
  <2>4. QED
    BY <1>2, <1>5, <1>6, <2>3 DEF Exchanges
<1>9. ScreenTurns(s, v) /\ jumbled' = jumbled
  BY <1>4, <1>6, HierarchyAssumption DEF moveServiceOrder, ScreenTurns, HierarchyInv, TypesInv, HistoryTyped
<1>10. screen'[s] = v
  BY <1>9 DEF ScreenTurns, HierarchyInv, TypesInv, ScreensTyped
<1>11. \A x : ~HalfDone(s, x) /\ ~HalfDone(s, x)'
  <2>1. \A l : DOMAIN v.put # {l}
    BY <1>2, <1>5, <1>6
  <2>2. QED
    BY <1>1, <1>10, <2>1 DEF HalfDone
<1>12. QED
  BY <1>7, <1>8, <1>9, <1>11, ScreenKeeps DEF HierarchyInv, TypesInv, HistoryTyped

LEMMA ReloadStep ==
    ASSUME HierarchyInv, NEW s \in Screens, reload(s)
    PROVE  HierarchyInv'
<1>1. NoScreen.pc = "off" /\ KnowsOrders(NoScreen)
  BY DEF NoScreen, KnowsOrders
<1>2. ScreenTurns(s, NoScreen) /\ jumbled' = jumbled
  BY DEF reload, ScreenTurns, HierarchyInv, TypesInv, HistoryTyped
<1>3. screen'[s] = NoScreen
  BY <1>2 DEF ScreenTurns, HierarchyInv, TypesInv, ScreensTyped
<1>4. \A x : ~HalfDone(s, x) /\ ~HalfDone(s, x)'
  BY <1>1, <1>3 DEF HalfDone, reload
<1>5. QED
  BY <1>1, <1>2, <1>4, ScreenKeeps DEF HierarchyInv, TypesInv, HistoryTyped

Drops(s, n, v) == v = [screen[s] EXCEPT !.put = rest(s, n)]

\* What is left of an exchange is what was left, less one row.
LEMMA RestOf ==
    ASSUME TypesInv, NEW s \in Screens, NEW n, screen[s].pc = "swap", n \in DOMAIN screen[s].put,
           NEW v, Drops(s, n, v)
    PROVE  /\ screen[s] \in Swapping
           /\ v \in Swapping /\ v.pc = "swap"
           /\ v.parent = screen[s].parent /\ v.parent \in Parents
           /\ v.raced = screen[s].raced
           /\ DOMAIN v.put = DOMAIN screen[s].put \ {n}
           /\ \A m \in DOMAIN v.put : v.put[m] = screen[s].put[m]
           /\ n \in Nodes
           /\ screen[s].put[n] \in Nat
<1> DEFINE q == screen[s]
<1>1. q \in Swapping
  BY ScreenShape DEF TypesInv, ScreensTyped
<1>2. PICK S \in SUBSET Nodes : q.put \in [S -> Nat] /\ DOMAIN q.put = S
  BY <1>1, OrdersAre DEF Swapping
<1>3. PICK left : left = rest(s, n)
  OBVIOUS
<1>4. /\ left \in [S \ {n} -> Nat]
      /\ DOMAIN left = S \ {n}
      /\ \A m \in S \ {n} : left[m] = q.put[m]
  BY <1>2, <1>3 DEF rest
<1>5. left \in Orders
  BY <1>4, AreOrders
<1>6. v = [q EXCEPT !.put = left]
  BY <1>3 DEF Drops
<1>7. v \in Swapping /\ v.pc = "swap" /\ v.parent = q.parent /\ v.parent \in Parents /\ v.raced = q.raced /\ v.put = left
  BY <1>1, <1>5, <1>6 DEF Swapping
<1>8. QED
  BY <1>1, <1>2, <1>4, <1>7

LEMMA LoseStep ==
    ASSUME HierarchyInv, NEW s \in Screens, NEW n \in Nodes, loseOrder(s, n)
    PROVE  HierarchyInv'
<1> DEFINE q == screen[s]
<1>1. PICK v : Drops(s, n, v)
  BY DEF Drops
<1>2. TypesInv /\ q.pc = "swap" /\ n \in DOMAIN q.put
  BY DEF loseOrder, HierarchyInv
<1>3. /\ v \in Swapping /\ v.pc = "swap"
      /\ v.parent = q.parent /\ v.parent \in Parents
      /\ v.raced = q.raced
      /\ DOMAIN v.put = DOMAIN q.put \ {n}
  BY <1>1, <1>2, RestOf
<1>4. ScreenTurns(s, v) /\ jumbled' = jumbled \cup {q.parent}
  BY <1>1 DEF loseOrder, Drops, ScreenTurns, HierarchyInv, TypesInv, HistoryTyped
<1>5. screen'[s] = v
  BY <1>4 DEF ScreenTurns, HierarchyInv, TypesInv, ScreensTyped
<1>6. \A p \in Parents \ jumbled' : ~HalfDone(s, p) /\ ~HalfDone(s, p)'
  BY <1>3, <1>4, <1>5 DEF HalfDone
<1>7. KnowsOrders(v)
  <2>1. SUFFICES ASSUME ~q.raced
                 PROVE  DOMAIN v.put = {} \/ \E m \in Nodes : DOMAIN v.put = {m}
    BY <1>3 DEF KnowsOrders
  <2>2. \/ DOMAIN q.put = {}
        \/ \E k \in Nodes : DOMAIN q.put = {k}
        \/ \E k, m \in Nodes : DOMAIN q.put = {k, m}
    BY <1>2, <2>1 DEF HierarchyInv, OrdersInv, ScreensKnow, KnowsOrders, Exchanges
  <2>3. QED
    BY <1>2, <1>3, <2>2
<1>8. QED
  BY <1>3, <1>4, <1>6, <1>7, ScreenKeeps DEF HierarchyInv, TypesInv, HistoryTyped

\* The screen that writes goes on to its other half, all others learn of it.
LEMMA PutLearns ==
    ASSUME HierarchyInv, NEW s \in Screens, NEW n, putOrder(s, n), NEW v, Drops(s, n, v), v \in Swapping
    PROVE  /\ RequestsTyped' /\ RequestsLearn
           /\ ScreensTyped'
           /\ screen'[s] = v
           /\ \A x \in Screens : x # s => ScreenLearns(screen[x], screen'[x])
<1>1. RequestsTyped' /\ RequestsLearn
  BY OthersLearn DEF putOrder, HierarchyInv
<1>2. PICK f : f = [screen EXCEPT ![s] = v]
  OBVIOUS
<1>3. /\ f \in [Screens -> {NoScreen} \cup Listed \cup Swapping]
      /\ f[s] = v
      /\ \A x \in Screens : x # s => f[x] = screen[x]
  BY <1>2 DEF HierarchyInv, TypesInv, ScreensTyped
<1>4. screen' = raced(f, {s})
  BY <1>2 DEF putOrder, Drops
<1>5. /\ ScreensTyped'
      /\ \A x \in Screens : x \in {s} => screen'[x] = f[x]
      /\ \A x \in Screens : x \notin {s} => ScreenLearns(f[x], screen'[x])
  BY <1>3, <1>4, RacedScreens
<1>6. QED
  BY <1>1, <1>3, <1>5

LEMMA PutOrderStep ==
    ASSUME HierarchyInv, NEW s \in Screens, NEW n \in Nodes, putOrder(s, n)
    PROVE  HierarchyInv'
<1> DEFINE q == screen[s]
<1>0. PICK p : p = q.parent
  OBVIOUS
<1>1. PICK v : Drops(s, n, v)
  BY DEF Drops
<1>2. TypesInv /\ q.pc = "swap" /\ n \in DOMAIN q.put
  BY DEF putOrder, HierarchyInv
<1>3. /\ v \in Swapping /\ v.pc = "swap"
      /\ v.parent = p /\ p \in Parents
      /\ v.raced = q.raced
      /\ DOMAIN v.put = DOMAIN q.put \ {n}
      /\ \A m \in DOMAIN v.put : v.put[m] = q.put[m]
      /\ q.put[n] \in Nat
  BY <1>0, <1>1, <1>2, RestOf
<1>4. /\ RequestsTyped' /\ RequestsLearn
      /\ ScreensTyped'
      /\ screen'[s] = v
      /\ \A x \in Screens : x # s => ScreenLearns(screen[x], screen'[x])
  BY <1>1, <1>3, PutLearns
<1>5. /\ node' \in [Nodes -> Row]
      /\ \A m \in Nodes : /\ node'[m].parent = node[m].parent
                          /\ node'[m].slug = node[m].slug
                          /\ node'[m].main = node[m].main
                          /\ m # n \/ n \notin under(p) => node'[m].order = node[m].order
      /\ n \in under(p) => node'[n].order = q.put[n]
  <2>1. node \in [Nodes -> Row]
    BY DEF HierarchyInv, TypesInv, NodesTyped
  <2>2. CASE n \in under(p)
    <3>1. node' = [node EXCEPT ![n].order = q.put[n]]
      BY <1>0, <2>2 DEF putOrder, under
    <3>2. QED
      BY <1>3, <2>1, <2>2, <3>1 DEF Row
  <2>3. CASE n \notin under(p)
    <3>1. node' = node
      BY <1>0, <2>3 DEF putOrder, under
    <3>2. QED
      BY <2>1, <2>3, <3>1
  <2>4. QED
    BY <2>2, <2>3
<1>6. /\ jumbled \subseteq jumbled' /\ jumbled' \subseteq jumbled \cup {p}
      /\ p \notin jumbled' => ~q.raced /\ n \in under(p)
      /\ marred' = marred /\ starts' = starts
  BY <1>0 DEF putOrder, under
<1>7. there' = there /\ \A x : under(x)' = under(x) /\ mains(x)' = mains(x)
  BY <1>5 DEF there, under, mains
<1>8. RequestsInv'
  <2>1. RowsStay
    BY <1>5 DEF RowsStay, there
  <2>2. QED
    BY <1>4, <2>1, LearnedRequests DEF HierarchyInv
<1>9. TypesInv'
  <2>1. OrdersEnd'
    <3>1. PICK last \in Nat : \A m \in Nodes : node[m].order <= last
      BY DEF HierarchyInv, TypesInv, OrdersEnd
    <3>2. last + q.put[n] \in Nat
      BY <1>3
    <3>3. ASSUME NEW m \in Nodes PROVE node'[m].order <= last + q.put[n]
      <4>1. node[m].order \in Nat
        BY DEF HierarchyInv, TypesInv, NodesTyped, Row
      <4>2. node'[m].order = node[m].order \/ node'[m].order = q.put[n]
        BY <1>5
      <4>3. QED
        BY <1>3, <3>1, <4>1, <4>2
    <3>4. QED
      BY <3>2, <3>3 DEF OrdersEnd
  <2>2. MainsAreThere'
    BY <1>5, <1>7 DEF MainsAreThere, HierarchyInv, TypesInv
  <2>3. NodesTyped' /\ HistoryTyped'
    BY <1>3, <1>5, <1>6 DEF NodesTyped, HistoryTyped, HierarchyInv, TypesInv
  <2>4. QED
    BY <1>4, <2>1, <2>2, <2>3 DEF TypesInv
<1>10. OneMain'
  BY <1>6, <1>7 DEF OneMain, HierarchyInv
<1>11. SlugsApart'
  BY <1>5, <1>7 DEF SlugsApart, HierarchyInv, there
<1>12. ~q.raced => DOMAIN q.put = {n} \/ \E m \in Nodes : Exchanges(q, n, m)
  <2>1. SUFFICES ASSUME ~q.raced, DOMAIN q.put # {n} PROVE \E m \in Nodes : Exchanges(q, n, m)
    OBVIOUS
  <2>2. PICK k, m \in Nodes : Exchanges(q, k, m)
    BY <1>2, <2>1 DEF HierarchyInv, OrdersInv, ScreensKnow, KnowsOrders
  <2>3. Exchanges(q, m, k)
    BY <2>2 DEF Exchanges
  <2>4. n = k \/ n = m
    BY <1>2, <2>2 DEF Exchanges
  <2>5. QED
    BY <2>2, <2>3, <2>4
<1>13. ScreensKnow'
  <2>1. KnowsOrders(screen[s])'
    <3>1. ~q.raced => DOMAIN v.put = {} \/ \E m \in Nodes : DOMAIN v.put = {m}
      BY <1>3, <1>12 DEF Exchanges
    <3>2. QED
      BY <1>3, <1>4, <3>1 DEF KnowsOrders
  <2>2. ASSUME NEW x \in Screens, x # s PROVE KnowsOrders(screen[x])'
    <3>1. screen'[x].pc # "off" => screen'[x].raced
      BY <1>4, <2>2 DEF ScreenLearns
    <3>2. QED
      BY <3>1 DEF KnowsOrders
  <2>3. QED
    BY <2>1, <2>2 DEF ScreensKnow
<1>14. \A x \in Screens \ {s} : \A k : HalfDone(x, k) => HalfDone(x, k)'
  BY <1>4 DEF ScreenLearns, HalfDone
<1>15. \A k : k # p => ~HalfDone(s, k)
  BY <1>0 DEF HalfDone
\* The second half: the orders are as HalvesComplete has it.
<1>16. ASSUME p \notin jumbled', DOMAIN q.put = {n}, \A x \in Screens \ {s} : ~HalfDone(x, p)
       PROVE  Apart(p)'
  <2>1. ~q.raced /\ n \in under(p) /\ p \notin jumbled
    BY <1>6, <1>16
  <2>2. Completes(q, n)
    BY <1>0, <1>2, <1>16, <2>1 DEF HierarchyInv, OrdersInv, HalvesComplete
  <2>3. SUFFICES ASSUME NEW k \in under(p), NEW m \in under(p), node'[k].order = node'[m].order, k # m
                 PROVE  FALSE
    BY <1>7 DEF Apart
  <2>4. k \in Nodes /\ m \in Nodes
    BY DEF under
  <2>5. CASE k # n /\ m # n
    BY <1>0, <1>5, <2>2, <2>3, <2>4, <2>5 DEF Completes
  <2>6. CASE k = n
    BY <1>0, <1>5, <2>1, <2>2, <2>3, <2>4, <2>6 DEF Completes
  <2>7. CASE m = n
    BY <1>0, <1>5, <2>1, <2>2, <2>3, <2>4, <2>7 DEF Completes
  <2>8. QED
    BY <2>5, <2>6, <2>7
\* The first half: the row has the order of the one that is left.
<1>17. ASSUME p \notin jumbled', NEW m \in Nodes, Exchanges(q, n, m), \A x \in Screens \ {s} : ~HalfDone(x, p)
       PROVE  Completes(screen[s], m)'
  <2>1. /\ n # m /\ n \in under(p) /\ m \in under(p)
        /\ DOMAIN q.put = {n, m}
        /\ q.put[n] = node[m].order
        /\ q.put[m] = node[n].order
    BY <1>0, <1>17 DEF Exchanges
  <2>2. ~HalfDone(s, p)
    BY <2>1 DEF HalfDone
  <2>3. Apart(p)
    BY <1>3, <1>6, <1>17, <2>2 DEF HierarchyInv, OrdersInv, OrdersApart
  <2>4. v.put[m] = node[n].order
    BY <1>3, <2>1
  <2>5. \A k \in under(p) \ {m} : node'[k].order = IF k = n THEN node[m].order ELSE node[k].order
    BY <1>5, <2>1 DEF under
  <2>6. ASSUME NEW k \in under(p) \ {m} PROVE node'[k].order # v.put[m]
    BY <2>1, <2>3, <2>4, <2>5 DEF Apart
  <2>7. ASSUME NEW k \in under(p) \ {m}, NEW l \in under(p) \ {m}, node'[k].order = node'[l].order PROVE k = l
    BY <2>1, <2>3, <2>5, <2>7 DEF Apart
  <2>8. QED
    BY <1>3, <1>4, <1>7, <2>6, <2>7 DEF Completes
<1>18. OrdersApart'
  <2>1. SUFFICES ASSUME NEW k \in Parents \ jumbled', \A x \in Screens : ~HalfDone(x, k)'
                 PROVE  Apart(k)'
    BY DEF OrdersApart
  <2>2. \A x \in Screens \ {s} : ~HalfDone(x, k)
    BY <1>14, <2>1
  <2>3. CASE k # p
    <3>1. Apart(k)
      BY <1>6, <1>15, <2>2, <2>3 DEF HierarchyInv, OrdersInv, OrdersApart
    <3>2. \A m \in under(k) : node'[m].order = node[m].order
      BY <1>5, <2>3 DEF under
    <3>3. QED
      BY <1>7, <3>1, <3>2 DEF Apart
  <2>4. CASE k = p
    <3>1. ~q.raced
      BY <1>6, <2>4
    <3>2. DOMAIN q.put = {n}
      <4>1. SUFFICES ASSUME NEW m \in Nodes, Exchanges(q, n, m) PROVE FALSE
        BY <1>12, <3>1
      <4>2. DOMAIN v.put = {m}
        BY <1>3, <4>1 DEF Exchanges
      <4>3. HalfDone(s, p)'
        BY <1>3, <1>4, <4>2 DEF HalfDone
      <4>4. QED
        BY <2>1, <2>4, <4>3
    <3>3. QED
      BY <1>16, <2>2, <2>4, <3>2
  <2>5. QED
    BY <2>3, <2>4
<1>19. HalvesComplete'
  <2>1. SUFFICES ASSUME NEW x \in Screens, NEW l \in Nodes,
                        screen'[x].pc = "swap", ~screen'[x].raced, DOMAIN screen'[x].put = {l},
                        screen'[x].parent \notin jumbled',
                        \A y \in Screens \ {x} : ~HalfDone(y, screen[x].parent)'
                 PROVE  Completes(screen[x], l)'
    BY DEF HalvesComplete
  <2>2. x = s
    BY <1>4, <2>1 DEF ScreenLearns
  <2>3. p \notin jumbled' /\ DOMAIN v.put = {l}
    BY <1>3, <1>4, <2>1, <2>2
  <2>4. \A y \in Screens \ {s} : ~HalfDone(y, p)
    <3>1. screen'[x].parent = p
      BY <1>3, <1>4, <2>2
    <3>2. \A y \in Screens \ {s} : ~HalfDone(y, p)'
      BY <2>1, <2>2, <3>1 DEF HalfDone
    <3>3. QED
      BY <1>14, <3>2
  <2>5. Exchanges(q, n, l)
    <3>1. DOMAIN q.put \ {n} = {l}
      BY <1>3, <2>3
    <3>2. PICK m \in Nodes : Exchanges(q, n, m)
      BY <1>6, <1>12, <2>3, <3>1
    <3>3. m = l
      BY <3>1, <3>2 DEF Exchanges
    <3>4. QED
      BY <3>2, <3>3
  <2>6. QED
    BY <1>17, <2>2, <2>3, <2>4, <2>5
<1>20. QED
  BY <1>8, <1>9, <1>10, <1>11, <1>13, <1>18, <1>19 DEF HierarchyInv, OrdersInv

-----------------------------------------------------------------------------
LEMMA HierarchyStep ==
    ASSUME HierarchyInv, [HierarchyNext]_hierarchyVars
    PROVE  HierarchyInv'
<1>1. ASSUME NEW r \in Requests, requestStep(r) PROVE HierarchyInv'
  BY <1>1, CreationReads, MoveReads, PromotionReads, InsertStep, PlaceStep, SetMainStep DEF requestStep
<1>2. ASSUME NEW s \in Screens, screenStep(s) PROVE HierarchyInv'
  BY <1>2, ListStep, MoveOrderStep, PutOrderStep, LoseStep, ReloadStep DEF screenStep
<1>3. CASE UNCHANGED hierarchyVars
  <2>1. /\ node' = node /\ request' = request /\ screen' = screen
        /\ starts' = starts /\ marred' = marred /\ jumbled' = jumbled
    BY <1>3 DEF hierarchyVars
  <2>2. TypesInv' /\ OneMain' /\ SlugsApart'
    BY <2>1 DEF HierarchyInv, TypesInv, NodesTyped, RequestsTyped, ScreensTyped, HistoryTyped, OrdersEnd,
                MainsAreThere, OneMain, SlugsApart, mains, under, there
  <2>3. RequestsInv'
    BY <2>1 DEF HierarchyInv, RequestsInv, Knows, NamesRow, KnowsSlug, FailsRaced, KnowsMains, KnowsFree, KnowsLast,
                exists, mains, under, there
  <2>4. OrdersInv'
    <3>1. ScreensKnow'
      BY <2>1 DEF HierarchyInv, OrdersInv, ScreensKnow, KnowsOrders, Exchanges, under
    <3>2. OrdersApart'
      BY <2>1 DEF HierarchyInv, OrdersInv, OrdersApart, Apart, HalfDone, under
    <3>3. HalvesComplete'
      BY <2>1 DEF HierarchyInv, OrdersInv, HalvesComplete, Completes, HalfDone, under
    <3>4. QED
      BY <3>1, <3>2, <3>3 DEF OrdersInv
  <2>5. QED
    BY <2>2, <2>3, <2>4 DEF HierarchyInv
<1>4. QED
  BY <1>1, <1>2, <1>3, UnsetMainStep DEF HierarchyNext

LEMMA HierarchyStarts ==
    ASSUME HierarchyInit
    PROVE  HierarchyInv
<1>1. \A n \in Nodes : /\ node[n] \in Row
                       /\ node[n].order <= 1
                       /\ node[n].main => n \in there
  <2>1. SUFFICES ASSUME NEW n \in Nodes
                 PROVE  node[n] \in Row /\ node[n].order <= 1 /\ (node[n].main => n \in there)
    OBVIOUS
  <2>2. CASE node[n] \in [parent : Parents, slug : Slugs, main : BOOLEAN, order : 0..1]
    <3>1. /\ node[n].parent \in Parents /\ node[n].parent # Nowhere
          /\ node[n].slug \in AnySlug
          /\ node[n].order \in 0..1
      BY <2>2, HierarchyAssumption DEF AnySlug
    <3>2. QED
      BY <2>2, <3>1 DEF Row, there
  <2>3. CASE node[n] = [parent |-> Nowhere, slug |-> << >>, main |-> FALSE, order |-> 0]
    <3>1. << >> \in AnySlug
      BY DEF AnySlug
    <3>2. QED
      BY <2>3, <3>1 DEF Row
  <2>4. QED
    BY <2>2, <2>3 DEF HierarchyInit
<1>2. node \in [Nodes -> Row]
  BY <1>1 DEF HierarchyInit
<1>3. Idle \in Request /\ Knows(Idle)
  BY DEF Idle, Request, Idling, Knows, NamesRow, KnowsMains, KnowsFree, KnowsLast, KnowsSlug, FailsRaced
<1>4. TypesInv
  BY <1>1, <1>2, <1>3 DEF HierarchyInit, TypesInv, NodesTyped, RequestsTyped, ScreensTyped, HistoryTyped, OrdersEnd,
                          MainsAreThere
<1>5. RequestsInv
  BY <1>3 DEF HierarchyInit, RequestsInv
<1>6. \A p \in Parents : \A n \in under(p) : n \in there /\ node[n].parent = p
  BY HierarchyAssumption DEF under, there
<1>7. OneMain /\ SlugsApart
  BY <1>6 DEF HierarchyInit, OneMain, SlugsApart, mains
<1>8. NoScreen.pc = "off"
  BY DEF NoScreen
<1>9. OrdersInv
  BY <1>6, <1>8 DEF HierarchyInit, OrdersInv, ScreensKnow, KnowsOrders, OrdersApart, Apart, HalvesComplete
<1>10. QED
  BY <1>4, <1>5, <1>7, <1>9 DEF HierarchyInv

\* What requests and screens know as long as nobody raced them is so, in every state.
THEOREM HierarchyInvariant == HierarchySpec => []HierarchyInv
<1>1. HierarchyInit => HierarchyInv
  BY HierarchyStarts
<1>2. HierarchyInv /\ [HierarchyNext]_hierarchyVars => HierarchyInv'
  BY HierarchyStep
<1>3. QED
  BY <1>1, <1>2, PTL DEF HierarchySpec

\* Rows are typed, a main service exists, and siblings have slugs of their own, which the
\* database promises and no request that reads before it writes breaks.
THEOREM HierarchyTypesHold == HierarchySpec => []HierarchyTypeOK
<1>1. HierarchyInv => HierarchyTypeOK
  <2>1. SUFFICES ASSUME HierarchyInv PROVE HierarchyTypeOK
    OBVIOUS
  <2>2. \A n \in Nodes : /\ node[n].parent \in Parents \cup {Nowhere}
                         /\ node[n].order \in Nat
                         /\ node[n].main => n \in there
    BY <2>1 DEF HierarchyInv, TypesInv, NodesTyped, Row, MainsAreThere
  <2>3. \A r \in Requests : request[r].pc \in
           {"idle", "probe", "rank", "insert", "clash", "place", "siblings", "demote", "set"}
    BY <2>1, RequestShape DEF HierarchyInv, TypesInv, RequestsTyped
  <2>4. marred \cup jumbled \subseteq Parents
    BY <2>1 DEF HierarchyInv, TypesInv, HistoryTyped
  <2>5. QED
    BY <2>1, <2>2, <2>3, <2>4 DEF HierarchyTypeOK, HierarchyInv, SlugsApart
<1>2. QED
  BY <1>1, HierarchyInvariant, PTL

\* A product has one main service at most, unless a promotion raced other requests or a
\* main service was moved in since the last promotion that nothing disturbed.
THEOREM MainIsOne == HierarchySpec => []OneMainService
<1>1. HierarchyInv => OneMainService
  <2>1. SUFFICES ASSUME HierarchyInv, NEW p \in Parents \ marred PROVE Cardinality(mains(p)) <= 1
    BY DEF OneMainService
  <2>2. \A n, m \in mains(p) : n = m
    BY <2>1 DEF HierarchyInv, OneMain
  <2>3. mains(p) = {} \/ \E n : mains(p) = {n}
    BY <2>2
  <2>4. Cardinality(mains(p)) \in {0, 1}
    BY <2>3, FS_EmptySet, FS_Singleton
  <2>5. QED
    BY <2>4
<1>2. QED
  BY <1>1, HierarchyInvariant, PTL

\* A creation answers that the name exists, and a move fails on the constraint, only when
\* another request wrote in the meantime.
THEOREM ConflictsAreRaces == HierarchySpec => []ConflictMeansRace
<1>1. HierarchyInv => ConflictMeansRace
  BY DEF HierarchyInv, RequestsInv, Knows, FailsRaced, ConflictMeansRace
<1>2. QED
  BY <1>1, HierarchyInvariant, PTL

\* Siblings keep orders of their own, unless a creation or an exchange raced or lost a
\* request, or a node was moved in.
THEOREM OrdersKeepApart == HierarchySpec => []OrdersStayDistinct
<1>1. HierarchyInv => OrdersStayDistinct
  BY DEF HierarchyInv, OrdersInv, OrdersApart, Apart, HalfDone, OrdersStayDistinct
<1>2. QED
  BY <1>1, HierarchyInvariant, PTL

-------------------------------------------------------------------------------
(***************************************************************************)
(* SETTINGS.                                                               *)
(***************************************************************************)
(***************************************************************************)
(* Requests, and what each remembers.                                      *)
(***************************************************************************)
Renaming == {"events", "find", "free", "config", "color"}

Removing == {"remove", "removeConfig"}

ReadyJob == [pc : {"ready"}, done : {"nothing", "referred", "renamed", "failed", "deleted", "cut"}]

ReferJob == [pc : {"refer"}, of : References, to : SUBSET (EnvSlugs \X Nat), disturbed : BOOLEAN]

RenameJob == [pc : Renaming, old : Names, new : Names, color : Colors \cup {Unset}, number : Nat,
              id : (slugs \X Nat) \cup {<< Unset, 0 >>}, was : Colors \cup {Unset},
              disturbed : BOOLEAN]

RemoveJob == [pc : Removing, old : Names, disturbed : BOOLEAN]

JobsTyped == job \in [Jobs -> ReadyJob \cup ReferJob \cup RenameJob \cup RemoveJob]

(***************************************************************************)
(* Environments.  What is referred to has its row, and so has what a       *)
(* request is about to refer to: a row never goes.                         *)
(***************************************************************************)
EnvTyped == /\ env \in [EnvSlugs -> [row : Nat, active : BOOLEAN]]
            /\ rows \in Nat
            /\ \A e \in EnvSlugs : env[e].row <= rows /\ (env[e].active => env[e].row # 0)

Meant(r) == r[1] \in EnvSlugs /\ r[2] # 0 /\ env[r[1]].row = r[2]

ReferredIsMeant ==
    /\ refers \in [References -> SUBSET (EnvSlugs \X Nat)]
    /\ \A f \in References : \A r \in refers[f] : Meant(r)
    /\ \A j \in Jobs : job[j].pc = "refer" => \A r \in job[j].to : Meant(r)

(***************************************************************************)
(* Tags.  The rows of configurations have numbers of their own, and a      *)
(* rename that nobody disturbs finds things as it left them.               *)
(***************************************************************************)
ConfigRow == [id : slugs \X Nat, name : Names, color : Colors]

ConfigTyped ==
    /\ config \in [slugs -> {NoConfig} \cup ConfigRow]
    /\ \A s \in slugs : config[s] # NoConfig => SlugOf[config[s].name] = s

IdsDiffer == \A s, t \in slugs : config[s].id = config[t].id => s = t \/ config[s] = NoConfig

NumbersDiffer ==
    /\ jobs \in Nat
    /\ \A s \in slugs : config[s] # NoConfig => config[s].id[2] <= jobs
    /\ \A j \in Jobs : job[j].pc \in Renaming =>
          /\ job[j].number \in 1..jobs
          /\ \A s \in slugs : config[s] # NoConfig => config[s].id[2] # job[j].number
          /\ \A k \in Jobs \ {j} : job[k].pc \in Renaming => job[k].number # job[j].number

OldIsGone(q) == \A v \in Events : q.old \notin ToSet(tags[v])

\* The row of the old slug is the one the rename found, or that was there.
RowIsFound(q) ==
    LET c == config[SlugOf[q.old]]
    IN  c # NoConfig /\ c.id = q.id /\ c.color = q.was

Found(q) ==
    /\ q.old # q.new
    /\ q.pc \in {"events", "find"} => config[SlugOf[q.old]].color = q.was
    /\ q.pc \in {"find", "free", "config", "color"} => OldIsGone(q)
    /\ q.pc \in {"free", "config"} => RowIsFound(q)
    /\ q.pc = "free" => SlugOf[q.new] # SlugOf[q.old]
    /\ q.pc = "config" => SlugOf[q.new] = SlugOf[q.old] \/ config[SlugOf[q.new]] = NoConfig
    /\ q.pc = "color" =>
          /\ \A s \in slugs : config[s].name # q.old
          /\ q.was # Unset => config[SlugOf[q.new]].color = q.was /\ config[SlugOf[q.new]].name = q.new

UndisturbedIsFound ==
    \A j \in Jobs, q \in RenameJob : job[j] = q /\ ~q.disturbed => Found(q)

\* The identifier that a rename looks for is that of a row, disturbed or not.
IdsAreKnown == \A j \in Jobs : job[j].pc \in {"free", "config"} => job[j].id # NoConfig.id

RenameInv == ConfigTyped /\ IdsDiffer /\ NumbersDiffer /\ IdsAreKnown /\ UndisturbedIsFound

SettingsInv == JobsTyped /\ EnvTyped /\ ReferredIsMeant /\ RenameInv

-------------------------------------------------------------------------------
(***************************************************************************)
(* Lemmas about requests.                                                  *)
(***************************************************************************)
AnyJob == ReadyJob \cup ReferJob \cup RenameJob \cup RemoveJob

\* The place a request has reached says what it remembers.
LEMMA JobShape ==
    ASSUME NEW q \in AnyJob
    PROVE  /\ q.pc \in {"ready", "refer"} \cup Renaming \cup Removing
           /\ q.pc = "ready" => q \in ReadyJob
           /\ q.pc = "refer" => q \in ReferJob
           /\ q.pc \in Renaming => q \in RenameJob
           /\ q.pc \in Removing => q \in RemoveJob
BY DEF AnyJob, ReadyJob, ReferJob, RenameJob, RemoveJob, Renaming, Removing

\* A request that another one disturbs keeps all it remembers.
LEMMA DisturbedJobIs ==
    ASSUME NEW q \in AnyJob, q.pc # "ready"
    PROVE  /\ [q EXCEPT !.disturbed = TRUE] \in AnyJob
           /\ [q EXCEPT !.disturbed = TRUE].pc = q.pc
           /\ [q EXCEPT !.disturbed = TRUE].disturbed
           /\ q.pc = "refer" => [q EXCEPT !.disturbed = TRUE].to = q.to
           /\ q.pc \in Renaming => [q EXCEPT !.disturbed = TRUE].number = q.number
<1>1. CASE q \in ReferJob
  BY <1>1 DEF AnyJob, ReferJob, Renaming
<1>2. CASE q \in RenameJob
  BY <1>2 DEF AnyJob, RenameJob, Renaming
<1>3. CASE q \in RemoveJob
  BY <1>3 DEF AnyJob, RemoveJob, Renaming, Removing
<1>4. QED
  BY <1>1, <1>2, <1>3 DEF AnyJob, ReadyJob

\* What a step does to a request that is not its own.
Left(k) ==
    \/ job'[k] = job[k]
    \/ job[k].pc # "ready" /\ job'[k] = [job[k] EXCEPT !.disturbed = TRUE]

LEMMA LeftIs ==
    ASSUME JobsTyped, NEW k \in Jobs, Left(k)
    PROVE  /\ job'[k] \in AnyJob /\ job'[k].pc = job[k].pc
           /\ job[k].pc = "refer" => job'[k].to = job[k].to
           /\ job[k].pc \in Renaming => job'[k].number = job[k].number
<1>1. job[k] \in AnyJob
  BY DEF JobsTyped, AnyJob
<1>2. QED
  BY <1>1, DisturbedJobIs DEF Left

\* A step of request j, after which it is r.
Acts(j, r) ==
    /\ job' \in [Jobs -> AnyJob]
    /\ job'[j] = r
    /\ \A k \in Jobs \ {j} : Left(k)

\* The others do not notice, or they all do.
Hushed(j) == \A k \in Jobs \ {j} : job'[k] = job[k]

Stirring(j) == \A k \in Jobs \ {j} : job[k].pc # "ready" => job'[k].disturbed

LEMMA OneActs ==
    ASSUME JobsTyped, NEW j \in Jobs, NEW r \in AnyJob
    PROVE  /\ job' = [job EXCEPT ![j] = r] => Acts(j, r) /\ Hushed(j)
           /\ job' = stir([job EXCEPT ![j] = r], {j}) => Acts(j, r) /\ Stirring(j)
<1>1. job \in [Jobs -> AnyJob]
  BY DEF JobsTyped, AnyJob
<1>2. ASSUME job' = [job EXCEPT ![j] = r] PROVE Acts(j, r) /\ Hushed(j)
  BY <1>1, <1>2 DEF Acts, Hushed, Left
<1>3. ASSUME job' = stir([job EXCEPT ![j] = r], {j}) PROVE Acts(j, r) /\ Stirring(j)
  <2>1. \A k \in Jobs : job'[k] = IF k = j THEN r ELSE IF job[k].pc = "ready" THEN job[k]
                                                     ELSE [job[k] EXCEPT !.disturbed = TRUE]
    BY <1>1, <1>3 DEF stir
  <2>2. \A k \in Jobs : job[k].pc # "ready" => /\ [job[k] EXCEPT !.disturbed = TRUE] \in AnyJob
                                               /\ [job[k] EXCEPT !.disturbed = TRUE].disturbed
    BY <1>1, DisturbedJobIs
  <2>3. job' = [k \in Jobs |-> job'[k]]
    BY <1>3 DEF stir
  <2>4. \A k \in Jobs : job'[k] \in AnyJob
    BY <1>1, <2>1, <2>2
  <2>5. job' \in [Jobs -> AnyJob]
    BY <2>3, <2>4
  <2>6. QED
    BY <2>1, <2>2, <2>5 DEF Acts, Stirring, Left
<1>4. QED
  BY <1>2, <1>3

\* A step of somebody without a request.
LEMMA AllStir ==
    ASSUME JobsTyped, job' = stir(job, {})
    PROVE  /\ job' \in [Jobs -> AnyJob]
           /\ \A k \in Jobs : Left(k) /\ (job[k].pc # "ready" => job'[k].disturbed)
<1>1. job \in [Jobs -> AnyJob]
  BY DEF JobsTyped, AnyJob
<1>2. \A k \in Jobs : job'[k] = IF job[k].pc = "ready" THEN job[k] ELSE [job[k] EXCEPT !.disturbed = TRUE]
  BY <1>1 DEF stir
<1>3. \A k \in Jobs : job[k].pc # "ready" => /\ [job[k] EXCEPT !.disturbed = TRUE] \in AnyJob
                                             /\ [job[k] EXCEPT !.disturbed = TRUE].disturbed
  BY <1>1, DisturbedJobIs
<1>4. job' = [k \in Jobs |-> job'[k]]
  BY DEF stir
<1>5. \A k \in Jobs : job'[k] \in AnyJob
  BY <1>1, <1>2, <1>3
<1>6. job' \in [Jobs -> AnyJob]
  BY <1>4, <1>5
<1>7. QED
  BY <1>2, <1>3, <1>6 DEF Left

\* A rename goes on: it has a new place, and may have found an identifier.
LEMMA GoesOn ==
    ASSUME NEW q \in RenameJob, NEW pc \in Renaming
    PROVE  /\ [q EXCEPT !.pc = pc] \in RenameJob
           /\ \A id \in (slugs \X Nat) \cup {<< Unset, 0 >>} : [q EXCEPT !.pc = pc, !.id = id] \in RenameJob
BY DEF RenameJob

(***************************************************************************)
(* Environments.                                                           *)
(***************************************************************************)
LEMMA EnvironmentsStay ==
    ASSUME SettingsInv, NEW e \in EnvSlugs, createEnvironment(e) \/ softDeleteEnvironment(e)
    PROVE  EnvTyped' /\ ReferredIsMeant'
<1>1. EnvTyped /\ ReferredIsMeant
  BY DEF SettingsInv
<1>2. job' = job /\ refers' = refers
  BY DEF createEnvironment, softDeleteEnvironment
<1>3. EnvTyped' /\ \A r : Meant(r) => Meant(r)'
  <2>1. CASE createEnvironment(e)
    BY <1>1, <2>1 DEF createEnvironment, EnvTyped, Meant
  <2>2. CASE softDeleteEnvironment(e)
    BY <1>1, <2>2 DEF softDeleteEnvironment, deleted, EnvTyped, Meant
  <2>3. QED
    BY <2>1, <2>2
<1>4. QED
  BY <1>1, <1>2, <1>3 DEF ReferredIsMeant

\* Requests about tags refer to nothing.
LEMMA MeaningKept ==
    ASSUME SettingsInv, UNCHANGED envVars,
           \A k \in Jobs : job'[k].pc = "refer" => job[k].pc = "refer" /\ job'[k].to = job[k].to
    PROVE  EnvTyped' /\ ReferredIsMeant'
<1>1. EnvTyped /\ ReferredIsMeant /\ env' = env /\ rows' = rows /\ refers' = refers
  BY DEF SettingsInv, envVars
<1>2. EnvTyped' /\ \A r : Meant(r) => Meant(r)'
  BY <1>1 DEF EnvTyped, Meant
<1>3. QED
  BY <1>1, <1>2 DEF ReferredIsMeant

LEMMA ReferDoes ==
    ASSUME SettingsInv, NEW j \in Jobs, NEW f \in References, NEW S \in SUBSET EnvSlugs, refer(j, f, S)
    PROVE  JobsTyped' /\ EnvTyped' /\ ReferredIsMeant' /\ Hushed(j) /\ job'[j].pc = "refer"
<1> DEFINE to == {<< e, env[e].row >> : e \in S}
           r == [pc |-> "refer", of |-> f, to |-> to, disturbed |-> FALSE]
<1>1. JobsTyped /\ EnvTyped /\ ReferredIsMeant
  BY DEF SettingsInv
<1>2. job' = [job EXCEPT ![j] = r] /\ UNCHANGED envVars /\ S \subseteq getActiveEnvSlugs
  BY DEF refer, accept
<1>3. \A x \in to : x \in EnvSlugs \X Nat /\ Meant(x)
  BY <1>1, <1>2 DEF EnvTyped, Meant, getActiveEnvSlugs
<1>4. PICK q \in SUBSET (EnvSlugs \X Nat) : q = to
  BY <1>3
<1>5. r.pc = "refer" /\ r.to = q /\ r \in ReferJob
  BY <1>4 DEF ReferJob
<1> HIDE DEF r, to
<1>6. r \in AnyJob
  BY <1>5 DEF AnyJob
<1>7. Acts(j, r) /\ Hushed(j)
  BY <1>1, <1>2, <1>6, OneActs
<1>8. EnvTyped' /\ \A x : Meant(x) => Meant(x)'
  BY <1>1, <1>2 DEF envVars, EnvTyped, Meant
<1>9. ReferredIsMeant'
  <2>1. refers' = refers
    BY <1>2 DEF envVars
  <2>2. \A k \in Jobs : job'[k].pc = "refer" => \A x \in job'[k].to : Meant(x)
    BY <1>1, <1>3, <1>4, <1>5, <1>7 DEF Acts, Hushed, ReferredIsMeant
  <2>3. QED
    BY <1>1, <1>8, <2>1, <2>2 DEF ReferredIsMeant
<1>10. QED
  BY <1>5, <1>7, <1>8, <1>9 DEF Acts, JobsTyped, AnyJob

LEMMA WriteDoes ==
    ASSUME SettingsInv, NEW j \in Jobs, writeReference(j)
    PROVE  JobsTyped' /\ EnvTyped' /\ ReferredIsMeant' /\ Hushed(j) /\ job'[j].pc = "ready"
<1> DEFINE r == [pc |-> "ready", done |-> "referred"]
<1>1. JobsTyped /\ EnvTyped /\ ReferredIsMeant
  BY DEF SettingsInv
<1>2. /\ job[j].pc = "refer" /\ job' = [job EXCEPT ![j] = r]
      /\ refers' = [refers EXCEPT ![job[j].of] = job[j].to]
      /\ env' = env /\ rows' = rows
  BY DEF writeReference, finish
<1>3. r \in AnyJob /\ r.pc = "ready"
  BY DEF AnyJob, ReadyJob
<1> HIDE DEF r
<1>4. Acts(j, r) /\ Hushed(j)
  BY <1>1, <1>2, <1>3, OneActs
<1>5. job[j] \in ReferJob
  BY <1>1, <1>2, JobShape DEF JobsTyped, AnyJob
<1>6. job[j].of \in References /\ job[j].to \in SUBSET (EnvSlugs \X Nat) /\ \A x \in job[j].to : Meant(x)
  BY <1>1, <1>2, <1>5 DEF ReferJob, ReferredIsMeant
<1>7. EnvTyped' /\ \A x : Meant(x) => Meant(x)'
  BY <1>1, <1>2 DEF EnvTyped, Meant
<1>8. refers' \in [References -> SUBSET (EnvSlugs \X Nat)] /\ \A g \in References : \A x \in refers'[g] : Meant(x)
  BY <1>1, <1>2, <1>6 DEF ReferredIsMeant
<1>9. \A k \in Jobs : job'[k].pc = "refer" => job'[k] = job[k]
  BY <1>3, <1>4 DEF Acts, Hushed
<1>10. ReferredIsMeant'
  BY <1>1, <1>7, <1>8, <1>9 DEF ReferredIsMeant
<1>11. QED
  BY <1>3, <1>4, <1>7, <1>10 DEF Acts, JobsTyped, AnyJob

(***************************************************************************)
(* Tags: steps that leave them alone.                                      *)
(***************************************************************************)
LEMMA QuietTags ==
    ASSUME SettingsInv, UNCHANGED tagVars, jobs' \in {jobs, jobs + 1},
           \A k \in Jobs : job'[k].pc \in Renaming => job'[k] = job[k]
    PROVE  RenameInv'
<1>1. /\ ConfigTyped /\ IdsDiffer /\ NumbersDiffer /\ IdsAreKnown /\ UndisturbedIsFound
      /\ tags' = tags /\ config' = config /\ jobs \in Nat
  BY DEF SettingsInv, RenameInv, tagVars, NumbersDiffer
<1>2. ConfigTyped' /\ IdsDiffer'
  BY <1>1 DEF ConfigTyped, IdsDiffer
<1>3. \A s \in slugs : config[s] # NoConfig => config[s].id[2] \in Nat
  BY <1>1 DEF ConfigTyped, ConfigRow
<1>4. NumbersDiffer'
  BY <1>1, <1>3 DEF NumbersDiffer
<1>5. IdsAreKnown'
  BY <1>1 DEF IdsAreKnown, Renaming
<1>6. \A q \in RenameJob : Found(q)' <=> Found(q)
  BY <1>1 DEF Found, OldIsGone, RowIsFound
<1>7. \A q \in RenameJob : q.pc \in Renaming
  BY DEF RenameJob
<1>8. UndisturbedIsFound'
  BY <1>1, <1>6, <1>7 DEF UndisturbedIsFound
<1>9. QED
  BY <1>2, <1>4, <1>5, <1>8 DEF RenameInv

\* A slug is not what stands for none.
LEMMA SlugIsSet ==
    ASSUME ConfigTyped, NEW s \in slugs
    PROVE  /\ s # Unset
           /\ config[s] # NoConfig => config[s].id \in slugs \X Nat /\ config[s].id # NoConfig.id
<1>1. s # Unset /\ \A u \in slugs : u # Unset
  BY UnsetAssumption DEF slugs
<1>2. config[s] # NoConfig => config[s].id \in slugs \X Nat
  BY DEF ConfigTyped, ConfigRow
<1>3. \A x \in slugs \X Nat : x # << Unset, 0 >>
  BY <1>1
<1>4. QED
  BY <1>1, <1>2, <1>3 DEF NoConfig

\* After a step that every other request notices, only the one that took it need be looked at.
LEMMA OnlyItsOwn ==
    ASSUME SettingsInv, NEW j \in Jobs, NEW r \in AnyJob, Acts(j, r), Stirring(j),
           r \in RenameJob /\ ~r.disturbed => Found(r)',
           r.pc \in {"free", "config"} => r.id # NoConfig.id
    PROVE  UndisturbedIsFound' /\ IdsAreKnown'
<1>1. JobsTyped /\ IdsAreKnown
  BY DEF SettingsInv, RenameInv
<1>2. \A k \in Jobs \ {j} : job[k].pc # "ready" => job'[k].disturbed
  BY DEF Stirring
<1>3. \A k \in Jobs \ {j} : job[k].pc = job'[k].pc
  BY <1>1, LeftIs DEF Acts
<1>4. \A q \in RenameJob : q.pc # "ready"
  BY DEF RenameJob, Renaming
<1>5. UndisturbedIsFound'
  BY <1>2, <1>3, <1>4 DEF UndisturbedIsFound, Acts
<1>6. ASSUME NEW k \in Jobs \ {j}, job[k].pc \in {"free", "config"}
      PROVE  job'[k].id = job[k].id
  <2>1. job[k] \in AnyJob /\ Left(k)
    BY <1>1 DEF JobsTyped, AnyJob, Acts
  <2>2. job[k] \in RenameJob
    BY <1>6, <2>1, JobShape DEF Renaming
  <2>3. [job[k] EXCEPT !.disturbed = TRUE].id = job[k].id
    BY <2>2 DEF RenameJob
  <2>4. QED
    BY <2>1, <2>3 DEF Left
<1>7. IdsAreKnown'
  BY <1>1, <1>3, <1>6 DEF IdsAreKnown, Acts
<1>8. QED
  BY <1>5, <1>7

\* Numbers stay apart when a step brings no new row.
LEMMA NumbersKept ==
    ASSUME SettingsInv, jobs' \in {jobs, jobs + 1},
           \A k \in Jobs : job'[k].pc \in Renaming => job[k].pc \in Renaming /\ job'[k].number = job[k].number,
           \A s \in slugs : config'[s] # NoConfig =>
              \E u \in slugs : config[u] # NoConfig /\ config'[s].id = config[u].id
    PROVE  NumbersDiffer'
<1>1. NumbersDiffer /\ ConfigTyped
  BY DEF SettingsInv, RenameInv
<1>2. \A s \in slugs : config[s] # NoConfig => config[s].id[2] \in Nat
  BY <1>1 DEF ConfigTyped, ConfigRow
<1>3. \A s \in slugs : config'[s] # NoConfig =>
         /\ config'[s].id[2] <= jobs
         /\ \A j \in Jobs : job[j].pc \in Renaming => config'[s].id[2] # job[j].number
  BY <1>1 DEF NumbersDiffer
<1>4. \A s \in slugs : config'[s] # NoConfig => config'[s].id[2] \in Nat
  BY <1>2
<1>5. jobs' \in Nat /\ jobs <= jobs'
  BY <1>1 DEF NumbersDiffer
<1>6. QED
  BY <1>1, <1>3, <1>4, <1>5 DEF NumbersDiffer

\* A color that is set: the row of the slug keeps its identifier, a new one has the number given.
LEMMA ColoredIs ==
    ASSUME SettingsInv, NEW name \in Names, NEW color \in Colors, NEW n \in Nat,
           \A s \in slugs : config[s] # NoConfig => config[s].id[2] # n,
           config' = colored(name, color, n)
    PROVE  /\ ConfigTyped' /\ IdsDiffer'
           /\ config'[SlugOf[name]].color = color /\ config'[SlugOf[name]].name = name
           /\ \A s \in slugs \ {SlugOf[name]} : config'[s] = config[s]
           /\ \A s \in slugs : config'[s] # NoConfig =>
                 \/ config'[s].id[2] = n
                 \/ \E u \in slugs : config[u] # NoConfig /\ config'[s].id = config[u].id
<1> DEFINE s0 == SlugOf[name]
           old == config[s0]
           row == [id |-> IF old = NoConfig THEN << s0, n >> ELSE old.id, name |-> name, color |-> color]
<1>1. ConfigTyped /\ IdsDiffer /\ s0 \in slugs
  BY DEF SettingsInv, RenameInv, slugs
<1>2. config' = [config EXCEPT ![s0] = row]
  BY DEF colored
<1>3. \A s \in slugs : config[s] # NoConfig => config[s].id \in slugs \X Nat /\ config[s].id # NoConfig.id
  BY <1>1, SlugIsSet
<1>4. row \in ConfigRow /\ row.name = name /\ row.color = color
  BY <1>1, <1>3 DEF ConfigRow
<1>5. \/ old = NoConfig /\ row.id = << s0, n >>
      \/ old # NoConfig /\ row.id = old.id
  OBVIOUS
<1>6. row.id # NoConfig.id
  <2>1. s0 # Unset
    BY <1>1, SlugIsSet
  <2>2. QED
    BY <1>1, <1>3, <1>5, <2>1 DEF NoConfig
<1> HIDE DEF row, s0
<1>7. config'[s0] = row /\ \A s \in slugs \ {s0} : config'[s] = config[s]
  BY <1>1, <1>2 DEF ConfigTyped
<1>8. ConfigTyped'
  BY <1>1, <1>2, <1>4, <1>7 DEF ConfigTyped, s0
<1>9. \A s \in slugs \ {s0} : row.id # config[s].id \/ config[s] = NoConfig
  <2>1. SUFFICES ASSUME NEW s \in slugs \ {s0}, config[s] # NoConfig, row.id = config[s].id
                 PROVE  FALSE
    OBVIOUS
  <2>2. config[s].id[2] # n
    BY <2>1
  <2>3. old # NoConfig /\ row.id = old.id
    BY <1>5, <2>1, <2>2
  <2>4. QED
    BY <1>1, <2>1, <2>3 DEF IdsDiffer
<1>10. \A s \in slugs : config[s] = NoConfig => config[s].id = NoConfig.id
  OBVIOUS
<1>11. IdsDiffer'
  BY <1>1, <1>6, <1>7, <1>9, <1>10 DEF IdsDiffer
<1>12. \A s \in slugs : config'[s] # NoConfig =>
          config'[s].id[2] = n \/ \E u \in slugs : config[u] # NoConfig /\ config'[s].id = config[u].id
  BY <1>1, <1>5, <1>7
<1>13. QED
  BY <1>4, <1>7, <1>8, <1>11, <1>12 DEF s0

LEMMA ColorDoes ==
    ASSUME SettingsInv, NEW name \in Names, NEW color \in Colors, setTagColor(name, color)
    PROVE  JobsTyped' /\ RenameInv' /\ \A k \in Jobs : Left(k)
<1>1. JobsTyped /\ NumbersDiffer /\ ConfigTyped /\ IdsAreKnown /\ jobs \in Nat
  BY DEF SettingsInv, RenameInv, NumbersDiffer
<1>2. jobs' = jobs + 1 /\ config' = colored(name, color, jobs + 1) /\ job' = stir(job, {})
  BY DEF setTagColor
<1>3. JobsTyped' /\ \A k \in Jobs : Left(k) /\ (job[k].pc # "ready" => job'[k].disturbed)
  BY <1>1, <1>2, AllStir DEF JobsTyped, AnyJob
<1>4. \A k \in Jobs : /\ job'[k].pc = job[k].pc
                      /\ job[k].pc \in Renaming => job'[k].number = job[k].number
  BY <1>1, <1>3, LeftIs
<1>5. PICK n \in Nat : n = jobs + 1
  BY <1>1
<1>6. \A s \in slugs : config[s] # NoConfig => config[s].id[2] \in Nat /\ config[s].id[2] < n
  BY <1>1, <1>5 DEF NumbersDiffer, ConfigTyped, ConfigRow
<1>7. /\ ConfigTyped' /\ IdsDiffer'
      /\ \A s \in slugs : config'[s] # NoConfig =>
            \/ config'[s].id[2] = n
            \/ \E u \in slugs : config[u] # NoConfig /\ config'[s].id = config[u].id
  BY <1>2, <1>5, <1>6, ColoredIs
<1>8. NumbersDiffer'
  <2>1. \A s \in slugs : config'[s] # NoConfig =>
           /\ config'[s].id[2] <= n
           /\ \A j \in Jobs : job[j].pc \in Renaming => config'[s].id[2] # job[j].number
    BY <1>1, <1>5, <1>6, <1>7 DEF NumbersDiffer
  <2>2. QED
    BY <1>1, <1>2, <1>4, <1>5, <2>1 DEF NumbersDiffer
<1>9. UndisturbedIsFound'
  <2>1. \A q \in RenameJob : q.pc # "ready"
    BY DEF RenameJob, Renaming
  <2>2. QED
    BY <1>3, <1>4, <2>1 DEF UndisturbedIsFound
<1>10. IdsAreKnown'
  <2>1. ASSUME NEW k \in Jobs, job[k].pc \in {"free", "config"} PROVE job'[k].id = job[k].id
    <3>1. job[k] \in RenameJob
      BY <1>1, <2>1, JobShape DEF JobsTyped, AnyJob, Renaming
    <3>2. [job[k] EXCEPT !.disturbed = TRUE].id = job[k].id
      BY <3>1 DEF RenameJob
    <3>3. QED
      BY <1>3, <3>2 DEF Left
  <2>2. QED
    BY <1>1, <1>4, <2>1 DEF IdsAreKnown
<1>11. QED
  BY <1>3, <1>7, <1>8, <1>9, <1>10 DEF RenameInv

LEMMA PageDoes ==
    ASSUME SettingsInv, NEW v \in Events, NEW said \in lists, setEventTags(v, said)
    PROVE  JobsTyped' /\ RenameInv' /\ \A k \in Jobs : Left(k)
<1>1. /\ JobsTyped /\ NumbersDiffer /\ ConfigTyped /\ IdsDiffer /\ IdsAreKnown /\ jobs \in Nat
  BY DEF SettingsInv, RenameInv, NumbersDiffer
<1>2. jobs' = jobs + 1 /\ config' = config /\ job' = stir(job, {})
  BY Zenon DEF setEventTags
<1>3. JobsTyped' /\ \A k \in Jobs : Left(k) /\ (job[k].pc # "ready" => job'[k].disturbed)
  BY <1>1, <1>2, AllStir DEF JobsTyped, AnyJob
<1>4. \A k \in Jobs : /\ job'[k].pc = job[k].pc
                      /\ job[k].pc \in Renaming => job'[k].number = job[k].number
  BY <1>1, <1>3, LeftIs
<1>5. NumbersDiffer'
  BY <1>2, <1>4, NumbersKept
<1>6. ConfigTyped' /\ IdsDiffer'
  BY <1>1, <1>2 DEF ConfigTyped, IdsDiffer
<1>7. UndisturbedIsFound'
  <2>1. \A q \in RenameJob : q.pc # "ready"
    BY DEF RenameJob, Renaming
  <2>2. QED
    BY <1>3, <1>4, <2>1 DEF UndisturbedIsFound
<1>8. IdsAreKnown'
  <2>1. ASSUME NEW k \in Jobs, job[k].pc \in {"free", "config"} PROVE job'[k].id = job[k].id
    <3>1. job[k] \in RenameJob
      BY <1>1, <2>1, JobShape DEF JobsTyped, AnyJob, Renaming
    <3>2. [job[k] EXCEPT !.disturbed = TRUE].id = job[k].id
      BY <3>1 DEF RenameJob
    <3>3. QED
      BY <1>3, <3>2 DEF Left
  <2>2. QED
    BY <1>1, <1>4, <2>1 DEF IdsAreKnown
<1>9. QED
  BY <1>3, <1>5, <1>6, <1>7, <1>8 DEF RenameInv

(***************************************************************************)
(* Tags: the steps of a rename.                                            *)
(***************************************************************************)
LEMMA RenameStarts ==
    ASSUME SettingsInv, NEW j \in Jobs, NEW old \in Names, NEW new \in Names,
           NEW color \in Colors \cup {Unset}, renameTag(j, old, new, color)
    PROVE  \E r \in RenameJob : Acts(j, r) /\ Hushed(j) /\ r.pc = "events" /\ RenameInv'
<1>1. /\ JobsTyped /\ NumbersDiffer /\ ConfigTyped /\ IdsDiffer /\ IdsAreKnown /\ UndisturbedIsFound
      /\ jobs \in Nat
  BY DEF SettingsInv, RenameInv, NumbersDiffer
<1> DEFINE was == config[SlugOf[old]].color
<1>2. was \in Colors \cup {Unset}
  BY <1>1 DEF ConfigTyped, ConfigRow, NoConfig, slugs
<1>3. PICK r \in RenameJob :
         /\ job' = [job EXCEPT ![j] = r] /\ r.pc = "events" /\ r.number = jobs + 1
         /\ r.old = old /\ r.new = new /\ r.was = was
  <2> DEFINE s == [pc |-> "events", old |-> old, new |-> new, color |-> color,
                   number |-> jobs + 1, id |-> << Unset, 0 >>, was |-> was, disturbed |-> FALSE]
  <2>1. s \in RenameJob
    BY <1>1, <1>2 DEF RenameJob, Renaming
  <2>2. job' = [job EXCEPT ![j] = s]
    BY DEF renameTag, accept
  <2>3. s.pc = "events" /\ s.number = jobs + 1 /\ s.old = old /\ s.new = new /\ s.was = was
    OBVIOUS
  <2> HIDE DEF s
  <2>4. QED
    BY <2>1, <2>2, <2>3
<1>4. jobs' = jobs + 1 /\ config' = config /\ tags' = tags /\ old # new
  BY DEF renameTag, accept, tagVars
<1>5. Acts(j, r) /\ Hushed(j)
  BY <1>1, <1>3, OneActs DEF AnyJob
<1>6. ConfigTyped' /\ IdsDiffer'
  BY <1>1, <1>4 DEF ConfigTyped, IdsDiffer
<1>7. \A s \in slugs : config[s] # NoConfig => config[s].id[2] \in Nat
  BY <1>1 DEF ConfigTyped, ConfigRow
<1>8. NumbersDiffer'
  BY <1>1, <1>3, <1>4, <1>5, <1>7 DEF NumbersDiffer, Acts, Hushed
<1>9. IdsAreKnown'
  BY <1>1, <1>3, <1>5 DEF IdsAreKnown, Acts, Hushed
<1>10. Found(r)'
  BY <1>3, <1>4 DEF Found
<1>11. \A q \in RenameJob : Found(q)' <=> Found(q)
  BY <1>4 DEF Found, OldIsGone, RowIsFound
<1>12. UndisturbedIsFound'
  BY <1>1, <1>5, <1>10, <1>11 DEF UndisturbedIsFound, Acts, Hushed
<1>13. QED
  BY <1>3, <1>5, <1>6, <1>8, <1>9, <1>12 DEF RenameInv

\* What a step of a rename starts from.
LEMMA AtWork ==
    ASSUME SettingsInv, NEW j \in Jobs, job[j].pc \in Renaming
    PROVE  /\ job[j] \in RenameJob /\ (~job[j].disturbed => Found(job[j]))
           /\ job[j].old \in Names /\ job[j].new \in Names
           /\ SlugOf[job[j].old] \in slugs /\ SlugOf[job[j].new] \in slugs
           /\ job \in [Jobs -> AnyJob]
<1>1. job[j] \in RenameJob
  BY JobShape DEF SettingsInv, JobsTyped, AnyJob
<1>2. QED
  BY <1>1 DEF SettingsInv, RenameInv, UndisturbedIsFound, RenameJob, slugs, JobsTyped, AnyJob

LEMMA EventsAreRenamed ==
    ASSUME SettingsInv, NEW j \in Jobs, renameOnEvents(j)
    PROVE  \E r \in RenameJob : Acts(j, r) /\ Stirring(j) /\ r.pc = "find" /\ RenameInv'
<1>1. job[j].pc = "events"
  BY DEF renameOnEvents
<1>2. PICK q \in RenameJob : job[j] = q /\ (~q.disturbed => Found(q)) /\ job \in [Jobs -> AnyJob]
  BY <1>1, AtWork DEF Renaming
<1>3. PICK r \in RenameJob : r = [q EXCEPT !.pc = "find"]
  BY GoesOn DEF Renaming
<1>4. /\ r.pc = "find" /\ r.old = q.old /\ r.new = q.new /\ r.was = q.was /\ r.number = q.number
      /\ r.disturbed = q.disturbed
  BY <1>3 DEF RenameJob
<1>5. /\ job' = stir([job EXCEPT ![j] = r], {j}) /\ config' = config /\ jobs' = jobs
      /\ tags' = [v \in Events |-> replaced(v, q.old, q.new)]
  BY <1>2, <1>3 DEF renameOnEvents, next
<1>6. Acts(j, r) /\ Stirring(j)
  BY <1>5, OneActs DEF AnyJob, SettingsInv
<1>7. ASSUME ~r.disturbed PROVE Found(r)'
  <2>1. Found(q)
    BY <1>2, <1>4, <1>7
  <2>2. \A v \in Events : tags'[v] = [i \in DOMAIN tags[v] |-> IF tags[v][i] = q.old THEN q.new ELSE tags[v][i]]
    BY <1>5 DEF replaced
  <2>3. \A v \in Events : \A i \in DOMAIN tags'[v] : tags'[v][i] # q.old
    <3>1. q.old # q.new
      BY <2>1 DEF Found
    <3>2. SUFFICES ASSUME NEW v \in Events, NEW i \in DOMAIN tags'[v]
                   PROVE  tags'[v][i] # q.old
      OBVIOUS
    <3>3. i \in DOMAIN tags[v] /\ tags'[v][i] = IF tags[v][i] = q.old THEN q.new ELSE tags[v][i]
      <4>1. tags'[v] = [k \in DOMAIN tags[v] |-> IF tags[v][k] = q.old THEN q.new ELSE tags[v][k]]
        BY <2>2
      <4>2. QED
        BY <3>2, <4>1
    <3>4. QED
      BY <3>1, <3>3
  <2>4. OldIsGone(r)'
    BY <1>4, <2>3 DEF OldIsGone, ToSet
  <2>5. QED
    BY <1>2, <1>1, <1>4, <1>5, <2>1, <2>4 DEF Found
<1>8. UndisturbedIsFound' /\ IdsAreKnown'
  BY <1>4, <1>6, <1>7, OnlyItsOwn DEF AnyJob
<1>9. ConfigTyped' /\ IdsDiffer'
  BY <1>5 DEF SettingsInv, RenameInv, ConfigTyped, IdsDiffer
<1>10. NumbersDiffer'
  <2>1. \A k \in Jobs : job'[k].pc \in Renaming => job[k].pc \in Renaming /\ job'[k].number = job[k].number
    BY <1>1, <1>2, <1>4, <1>6, LeftIs DEF Acts, Renaming, SettingsInv
  <2>2. QED
    BY <1>5, <2>1, NumbersKept
<1>11. QED
  BY <1>4, <1>6, <1>8, <1>9, <1>10 DEF RenameInv

LEMMA ConfigIsFound ==
    ASSUME SettingsInv, NEW j \in Jobs, findConfig(j)
    PROVE  \E r \in RenameJob : Acts(j, r) /\ Hushed(j) /\ r.pc \in {"color", "config", "free"} /\ RenameInv'
<1>1. job[j].pc = "find"
  BY DEF findConfig
<1>2. PICK q \in RenameJob :
         /\ job[j] = q /\ (~q.disturbed => Found(q)) /\ job \in [Jobs -> AnyJob]
         /\ SlugOf[q.old] \in slugs /\ SlugOf[q.new] \in slugs
  BY <1>1, AtWork DEF Renaming
<1>3. ConfigTyped /\ IdsDiffer /\ IdsAreKnown /\ UndisturbedIsFound /\ JobsTyped /\ NumbersDiffer
  BY DEF SettingsInv, RenameInv
<1> DEFINE c == config[SlugOf[q.old]]
           pc == IF c = NoConfig THEN "color"
                 ELSE IF SlugOf[q.new] = SlugOf[q.old] THEN "config" ELSE "free"
<1>4. c.id \in (slugs \X Nat) \cup {<< Unset, 0 >>} /\ (c # NoConfig => c.id # NoConfig.id)
  BY <1>2, <1>3, SlugIsSet DEF NoConfig
<1>5. /\ pc \in {"color", "config", "free"}
      /\ pc = "color" => c = NoConfig
      /\ pc = "config" => SlugOf[q.new] = SlugOf[q.old]
      /\ pc # "color" => c # NoConfig
      /\ pc = "free" => SlugOf[q.new] # SlugOf[q.old]
  OBVIOUS
<1>6. job' = [job EXCEPT ![j] = [q EXCEPT !.pc = pc, !.id = c.id]]
  <2>1. job' = [[job EXCEPT ![j].pc = pc] EXCEPT ![j].id = c.id]
    BY <1>2, Zenon DEF findConfig, next
  <2> HIDE DEF pc, c
  <2>2. QED
    BY <1>2, <2>1
<1>7. config' = config /\ jobs' = jobs /\ tags' = tags
  BY DEF findConfig, tagVars
<1> HIDE DEF pc
<1>8. PICK r \in RenameJob : r = [q EXCEPT !.pc = pc, !.id = c.id]
  BY <1>4, <1>5, GoesOn DEF Renaming
<1>9. /\ r.pc = pc /\ r.old = q.old /\ r.new = q.new /\ r.was = q.was /\ r.number = q.number
      /\ r.disturbed = q.disturbed /\ r.id = c.id
  BY <1>8 DEF RenameJob
<1>10. Acts(j, r) /\ Hushed(j)
  BY <1>3, <1>6, <1>8, OneActs DEF AnyJob
<1>11. ASSUME ~r.disturbed PROVE Found(r)
  <2>1. Found(q) /\ q.pc = "find"
    BY <1>1, <1>2, <1>9, <1>11
  <2>2. OldIsGone(r) /\ r.old # r.new /\ c.color = r.was
    BY <1>9, <2>1 DEF Found, OldIsGone
  <2>3. r.pc \in {"free", "config"} => RowIsFound(r)
    BY <1>5, <1>9, <2>2 DEF RowIsFound
  <2>4. ASSUME r.pc = "color" PROVE r.was = Unset /\ \A s \in slugs : config[s].name # r.old
    <3>1. c = NoConfig
      BY <1>5, <1>9, <2>4
    <3>2. Unset \notin Names /\ q.old \in Names
      BY UnsetAssumption DEF RenameJob
    <3>3. \A s \in slugs : config[s].name = q.old => s = SlugOf[q.old]
      BY <1>3, <3>2 DEF ConfigTyped, NoConfig
    <3>4. QED
      BY <1>9, <2>2, <3>1, <3>2, <3>3 DEF NoConfig
  <2>5. QED
    BY <1>5, <1>9, <2>2, <2>3, <2>4 DEF Found
<1>12. \A x \in RenameJob : Found(x)' <=> Found(x)
  BY <1>7 DEF Found, OldIsGone, RowIsFound
<1>13. UndisturbedIsFound'
  BY <1>3, <1>10, <1>11, <1>12 DEF UndisturbedIsFound, Acts, Hushed
<1>14. IdsAreKnown'
  BY <1>3, <1>4, <1>5, <1>9, <1>10 DEF IdsAreKnown, Acts, Hushed
<1>15. ConfigTyped' /\ IdsDiffer'
  BY <1>3, <1>7 DEF ConfigTyped, IdsDiffer
<1>16. NumbersDiffer'
  <2>1. \A k \in Jobs : job'[k].pc \in Renaming => job[k].pc \in Renaming /\ job'[k].number = job[k].number
    BY <1>1, <1>2, <1>9, <1>10 DEF Acts, Hushed, Renaming
  <2>2. QED
    BY <1>7, <2>1, NumbersKept
<1>17. QED
  BY <1>5, <1>9, <1>10, <1>13, <1>14, <1>15, <1>16 DEF RenameInv

\* A row removed: the others stay as they are.
LEMMA RowGoes ==
    ASSUME SettingsInv, NEW s0 \in slugs, config' = [config EXCEPT ![s0] = NoConfig]
    PROVE  /\ ConfigTyped' /\ IdsDiffer'
           /\ config'[s0] = NoConfig /\ \A s \in slugs \ {s0} : config'[s] = config[s]
           /\ \A s \in slugs : config'[s] # NoConfig =>
                 \E u \in slugs : config[u] # NoConfig /\ config'[s].id = config[u].id
<1>1. ConfigTyped /\ IdsDiffer
  BY DEF SettingsInv, RenameInv
<1>2. config'[s0] = NoConfig /\ \A s \in slugs \ {s0} : config'[s] = config[s]
  BY <1>1 DEF ConfigTyped
<1>3. ConfigTyped'
  BY <1>1, <1>2 DEF ConfigTyped
<1>4. \A s \in slugs : config[s] # NoConfig => config[s].id # NoConfig.id
  BY <1>1, SlugIsSet
<1>5. \A s \in slugs : config[s] = NoConfig => config[s].id = NoConfig.id
  OBVIOUS
<1>6. IdsDiffer'
  BY <1>1, <1>2, <1>4, <1>5 DEF IdsDiffer
<1>7. QED
  BY <1>2, <1>3, <1>6

LEMMA SlugIsFreed ==
    ASSUME SettingsInv, NEW j \in Jobs, freeSlug(j)
    PROVE  \E r \in RenameJob : Acts(j, r) /\ Stirring(j) /\ r.pc = "config" /\ RenameInv'
<1>1. job[j].pc = "free"
  BY DEF freeSlug
<1>2. PICK q \in RenameJob :
         /\ job[j] = q /\ (~q.disturbed => Found(q)) /\ job \in [Jobs -> AnyJob]
         /\ SlugOf[q.old] \in slugs /\ SlugOf[q.new] \in slugs
  BY <1>1, AtWork DEF Renaming
<1>3. PICK r \in RenameJob : r = [q EXCEPT !.pc = "config"]
  BY GoesOn DEF Renaming
<1>4. /\ r.pc = "config" /\ r.old = q.old /\ r.new = q.new /\ r.was = q.was /\ r.number = q.number
      /\ r.disturbed = q.disturbed /\ r.id = q.id
  BY <1>3 DEF RenameJob
<1>5. /\ job' = stir([job EXCEPT ![j] = r], {j}) /\ tags' = tags /\ jobs' = jobs
      /\ config' = [config EXCEPT ![SlugOf[q.new]] = NoConfig]
  BY <1>2, <1>3 DEF freeSlug, next
<1>6. Acts(j, r) /\ Stirring(j)
  BY <1>5, OneActs DEF AnyJob, SettingsInv
<1>7. /\ ConfigTyped' /\ IdsDiffer'
      /\ config'[SlugOf[q.new]] = NoConfig /\ \A s \in slugs \ {SlugOf[q.new]} : config'[s] = config[s]
      /\ \A s \in slugs : config'[s] # NoConfig =>
            \E u \in slugs : config[u] # NoConfig /\ config'[s].id = config[u].id
  BY <1>2, <1>5, RowGoes
<1>8. ASSUME ~r.disturbed PROVE Found(r)'
  <2>1. Found(q) /\ q.pc = "free"
    BY <1>1, <1>2, <1>4, <1>8
  <2>2. config'[SlugOf[q.old]] = config[SlugOf[q.old]]
    BY <1>2, <1>7, <2>1 DEF Found
  <2>3. RowIsFound(r)'
    BY <1>4, <2>1, <2>2 DEF Found, RowIsFound
  <2>4. OldIsGone(r)'
    BY <1>4, <1>5, <2>1 DEF Found, OldIsGone
  <2>5. QED
    BY <1>4, <1>7, <2>1, <2>3, <2>4 DEF Found
<1>9. r.id # NoConfig.id
  BY <1>1, <1>2, <1>4 DEF SettingsInv, RenameInv, IdsAreKnown
<1>10. UndisturbedIsFound' /\ IdsAreKnown'
  BY <1>6, <1>8, <1>9, OnlyItsOwn DEF AnyJob
<1>11. NumbersDiffer'
  <2>1. \A k \in Jobs : job'[k].pc \in Renaming => job[k].pc \in Renaming /\ job'[k].number = job[k].number
    BY <1>1, <1>2, <1>4, <1>6, LeftIs DEF Acts, Renaming, SettingsInv
  <2>2. QED
    BY <1>5, <1>7, <2>1, NumbersKept
<1>12. QED
  BY <1>4, <1>6, <1>7, <1>10, <1>11 DEF RenameInv

\* The row that a rename found takes the new name and its slug.
LEMMA MovedIs ==
    ASSUME SettingsInv, NEW q \in RenameJob, q.id # NoConfig.id,
           NEW s0 \in slugs, config[s0].id = q.id,
           config' = movedConfig(q)
    PROVE  /\ ConfigTyped' /\ IdsDiffer'
           /\ config'[SlugOf[q.new]].name = q.new
           /\ config'[SlugOf[q.new]].color = config[s0].color
           /\ \A s \in slugs \ {SlugOf[q.new]} :
                 config'[s] # NoConfig => config'[s] = config[s] /\ config[s].id # q.id
           /\ \A s \in slugs : config'[s] # NoConfig =>
                 \E u \in slugs : config[u] # NoConfig /\ config'[s].id = config[u].id
<1> DEFINE new == SlugOf[q.new]
           c == CHOOSE c \in {config[s] : s \in slugs} : c.id = q.id
           moved == [c EXCEPT !.name = q.new]
<1>1. ConfigTyped /\ IdsDiffer /\ new \in slugs /\ q.new \in Names
  BY DEF SettingsInv, RenameInv, slugs, RenameJob
<1>2. config[s0] # NoConfig
  OBVIOUS
<1>3. c = config[s0]
  <2>1. c \in {config[s] : s \in slugs} /\ c.id = q.id
    OBVIOUS
  <2>2. PICK s \in slugs : c = config[s]
    BY <2>1
  <2>3. s = s0
    BY <1>1, <1>2, <2>1, <2>2 DEF IdsDiffer
  <2>4. QED
    BY <2>2, <2>3
<1>4. config' = [s \in slugs |-> IF s = new THEN moved ELSE IF holds(s, q) THEN NoConfig ELSE config[s]]
  BY DEF movedConfig
<1> HIDE DEF c, new
<1>5. c \in ConfigRow
  BY <1>1, <1>2, <1>3 DEF ConfigTyped
<1>6. /\ moved \in ConfigRow /\ moved.name = q.new /\ moved.id = q.id /\ moved.color = config[s0].color
      /\ moved # NoConfig
  <2>1. moved \in ConfigRow /\ moved.name = q.new /\ moved.id = c.id /\ moved.color = c.color
    BY <1>1, <1>5 DEF ConfigRow
  <2> HIDE DEF moved
  <2>2. QED
    BY <1>3, <2>1
<1> HIDE DEF moved
<1>7. /\ config'[new] = moved
      /\ \A s \in slugs \ {new} : config'[s] = IF config[s].id = q.id THEN NoConfig ELSE config[s]
  BY <1>1, <1>4 DEF holds
<1>8. ConfigTyped'
  <2>1. \A s \in slugs : config'[s] \in {NoConfig} \cup ConfigRow
    BY <1>1, <1>6, <1>7 DEF ConfigTyped
  <2>2. config' \in [slugs -> {NoConfig} \cup ConfigRow]
    BY <1>4, <2>1
  <2>3. \A s \in slugs : config'[s] # NoConfig => SlugOf[config'[s].name] = s
    BY <1>1, <1>6, <1>7 DEF ConfigTyped, new
  <2>4. QED
    BY <2>2, <2>3 DEF ConfigTyped
<1>9. \A s \in slugs \ {new} : config'[s] # NoConfig => config'[s] = config[s] /\ config[s].id # q.id
  BY <1>7
<1>10. \A s \in slugs : config'[s] = NoConfig => config'[s].id = NoConfig.id
  OBVIOUS
<1>11. \A s \in slugs : config[s] # NoConfig => config[s].id # NoConfig.id
  BY <1>1, SlugIsSet
<1>12. IdsDiffer'
  BY <1>1, <1>6, <1>7, <1>9, <1>10, <1>11 DEF IdsDiffer
<1>13. \A s \in slugs : config'[s] # NoConfig =>
          \E u \in slugs : config[u] # NoConfig /\ config'[s].id = config[u].id
  BY <1>2, <1>6, <1>7, <1>9
<1>14. QED
  BY <1>6, <1>7, <1>8, <1>9, <1>12, <1>13 DEF new

\* A request ends: it is ready again.
LEMMA Ends ==
    ASSUME SettingsInv, NEW j \in Jobs,
           NEW result \in {"nothing", "referred", "renamed", "failed", "deleted", "cut"}
    PROVE  \E r \in ReadyJob :
              /\ r.done = result
              /\ job' = finish(j, result) => Acts(j, r) /\ Hushed(j)
              /\ job' = stir(finish(j, result), {j}) => Acts(j, r) /\ Stirring(j)
<1> DEFINE r == [pc |-> "ready", done |-> result]
<1>1. r \in ReadyJob /\ r.done = result
  BY DEF ReadyJob
<1>2. finish(j, result) = [job EXCEPT ![j] = r]
  BY DEF finish
<1> HIDE DEF r
<1>3. /\ job' = finish(j, result) => Acts(j, r) /\ Hushed(j)
      /\ job' = stir(finish(j, result), {j}) => Acts(j, r) /\ Stirring(j)
  BY <1>1, <1>2, OneActs DEF AnyJob, SettingsInv
<1>4. QED
  BY <1>1, <1>3

\* Once it has ended, and everybody noticed, there is nothing to say of it.
LEMMA EndsWell ==
    ASSUME SettingsInv, NEW j \in Jobs, NEW r \in ReadyJob, Acts(j, r), Stirring(j)
    PROVE  UndisturbedIsFound' /\ IdsAreKnown'
<1>1. r \in AnyJob /\ r.pc = "ready" /\ r \notin RenameJob
  BY DEF ReadyJob, RenameJob, AnyJob, Renaming
<1>2. QED
  BY <1>1, OnlyItsOwn

LEMMA ConfigIsRenamed ==
    ASSUME SettingsInv, NEW j \in Jobs, renameConfig(j)
    PROVE  /\ RenameInv'
           /\ \/ \E r \in RenameJob : Acts(j, r) /\ r.pc = "color"
              \/ \E r \in ReadyJob : Acts(j, r) /\ r.done = "failed"
<1>1. job[j].pc = "config"
  BY DEF renameConfig
<1>2. PICK q \in RenameJob :
         /\ job[j] = q /\ (~q.disturbed => Found(q)) /\ job \in [Jobs -> AnyJob]
         /\ SlugOf[q.old] \in slugs /\ SlugOf[q.new] \in slugs
  BY <1>1, AtWork DEF Renaming
<1>3. tags' = tags /\ jobs' = jobs
  BY DEF renameConfig
<1> DEFINE kept == \E s \in slugs : holds(s, q)
           room == config[SlugOf[q.new]] = NoConfig \/ holds(SlugOf[q.new], q)
<1>4. CASE kept /\ room
  <2>1. PICK s0 \in slugs : config[s0].id = q.id
    BY <1>4 DEF holds
  <2>2. config' = movedConfig(q) /\ job' = stir(next(j, "color"), {j})
    BY <1>2, <1>4 DEF renameConfig
  <2>3. q.id # NoConfig.id
    BY <1>1, <1>2 DEF SettingsInv, RenameInv, IdsAreKnown
  <2>4. PICK r \in RenameJob : r = [q EXCEPT !.pc = "color"]
    BY GoesOn DEF Renaming
  <2>5. /\ r.pc = "color" /\ r.old = q.old /\ r.new = q.new /\ r.was = q.was /\ r.number = q.number
        /\ r.disturbed = q.disturbed
    BY <2>4 DEF RenameJob
  <2>6. Acts(j, r) /\ Stirring(j)
    BY <1>2, <2>2, <2>4, OneActs DEF AnyJob, SettingsInv, next
  <2>7. /\ ConfigTyped' /\ IdsDiffer'
        /\ config'[SlugOf[q.new]].name = q.new
        /\ config'[SlugOf[q.new]].color = config[s0].color
        /\ \A s \in slugs \ {SlugOf[q.new]} :
              config'[s] # NoConfig => config'[s] = config[s] /\ config[s].id # q.id
        /\ \A s \in slugs : config'[s] # NoConfig =>
              \E u \in slugs : config[u] # NoConfig /\ config'[s].id = config[u].id
    BY <2>1, <2>2, <2>3, MovedIs
  <2>8. ASSUME ~r.disturbed PROVE Found(r)'
    <3>1. Found(q) /\ q.pc = "config"
      BY <1>1, <1>2, <2>5, <2>8
    <3>2. q.old # q.new /\ RowIsFound(q) /\ OldIsGone(q)
      BY <3>1 DEF Found
    <3>3. s0 = SlugOf[q.old]
      BY <1>2, <2>1, <3>2 DEF SettingsInv, RenameInv, IdsDiffer, RowIsFound
    <3>4. config'[SlugOf[q.new]].color = q.was
      BY <2>7, <3>2, <3>3 DEF RowIsFound
    <3>5. \A s \in slugs : config'[s].name # q.old
      <4>1. SUFFICES ASSUME NEW s \in slugs, config'[s].name = q.old PROVE FALSE
        OBVIOUS
      <4>2. s # SlugOf[q.new]
        BY <2>7, <3>2, <4>1
      <4>3. config'[s] # NoConfig
        BY <4>1, UnsetAssumption DEF NoConfig, RenameJob
      <4>4. config[s].name = q.old /\ config[s].id # q.id /\ config[s] # NoConfig
        BY <2>7, <4>1, <4>2, <4>3
      <4>5. s = SlugOf[q.old]
        BY <4>4 DEF SettingsInv, RenameInv, ConfigTyped
      <4>6. QED
        BY <2>1, <3>3, <4>4, <4>5
    <3>6. OldIsGone(r)'
      BY <1>3, <2>5, <3>2 DEF OldIsGone
    <3>7. QED
      BY <2>5, <2>7, <3>2, <3>4, <3>5, <3>6 DEF Found
  <2>9. UndisturbedIsFound' /\ IdsAreKnown'
    BY <2>5, <2>6, <2>8, OnlyItsOwn DEF AnyJob
  <2>10. NumbersDiffer'
    <3>1. \A k \in Jobs : job'[k].pc \in Renaming => job[k].pc \in Renaming /\ job'[k].number = job[k].number
      BY <1>1, <1>2, <2>5, <2>6, LeftIs DEF Acts, Renaming, SettingsInv
    <3>2. QED
      BY <1>3, <2>7, <3>1, NumbersKept
  <2>11. QED
    BY <2>5, <2>6, <2>7, <2>9, <2>10 DEF RenameInv
<1>5. CASE ~(kept /\ room)
  <2>1. config' = config /\ job' = finish(j, "failed")
    BY <1>2, <1>5 DEF renameConfig
  <2>2. PICK r \in ReadyJob : Acts(j, r) /\ Hushed(j) /\ r.done = "failed"
    BY <2>1, Ends
  <2>3. \A k \in Jobs : job'[k].pc \in Renaming => job'[k] = job[k]
    BY <2>2 DEF Acts, Hushed, ReadyJob, Renaming
  <2>4. RenameInv'
    BY <1>3, <2>1, <2>3, QuietTags DEF tagVars
  <2>5. QED
    BY <2>2, <2>4
<1>6. QED
  BY <1>4, <1>5

LEMMA ColorIsSet ==
    ASSUME SettingsInv, NEW j \in Jobs, recolor(j)
    PROVE  /\ RenameInv'
           /\ \E r \in ReadyJob : Acts(j, r) /\ Stirring(j)
           /\ job[j].color = Unset => config' = config
           /\ job[j].color # Unset =>
                 /\ config'[SlugOf[job[j].new]].color = job[j].color
                 /\ config'[SlugOf[job[j].new]].name = job[j].new
                 /\ \A s \in slugs \ {SlugOf[job[j].new]} : config'[s] = config[s]
<1>1. job[j].pc = "color"
  BY DEF recolor
<1>2. PICK q \in RenameJob : job[j] = q /\ job \in [Jobs -> AnyJob]
  BY <1>1, AtWork DEF Renaming
<1>3. /\ tags' = tags /\ jobs' = jobs /\ job' = stir(finish(j, "renamed"), {j})
      /\ q.color = Unset => config' = config
      /\ q.color # Unset => config' = colored(q.new, q.color, q.number)
  BY <1>2 DEF recolor
<1>4. PICK r \in ReadyJob : Acts(j, r) /\ Stirring(j)
  BY <1>3, Ends
<1>5. UndisturbedIsFound' /\ IdsAreKnown'
  BY <1>4, EndsWell
<1>6. ConfigTyped /\ IdsDiffer /\ NumbersDiffer /\ JobsTyped
  BY DEF SettingsInv, RenameInv
<1>7. \A k \in Jobs : job'[k].pc \in Renaming =>
         k # j /\ job[k].pc \in Renaming /\ job'[k].number = job[k].number
  BY <1>4, <1>6, LeftIs DEF Acts, ReadyJob, Renaming
<1>8. CASE q.color = Unset
  <2>1. ConfigTyped' /\ IdsDiffer'
    BY <1>3, <1>6, <1>8 DEF ConfigTyped, IdsDiffer
  <2>2. NumbersDiffer'
    BY <1>3, <1>7, <1>8, NumbersKept
  <2>3. QED
    BY <1>2, <1>3, <1>4, <1>5, <1>8, <2>1, <2>2 DEF RenameInv
<1>9. CASE q.color # Unset
  <2>1. /\ q.new \in Names /\ q.color \in Colors /\ q.number \in 1..jobs /\ jobs \in Nat
        /\ \A s \in slugs : config[s] # NoConfig => config[s].id[2] # q.number
    BY <1>1, <1>2, <1>6, <1>9 DEF RenameJob, NumbersDiffer, Renaming
  <2>2. PICK n \in Nat : n = q.number
    BY <2>1
  <2>3. /\ ConfigTyped' /\ IdsDiffer'
        /\ config'[SlugOf[q.new]].color = q.color /\ config'[SlugOf[q.new]].name = q.new
        /\ \A s \in slugs \ {SlugOf[q.new]} : config'[s] = config[s]
        /\ \A s \in slugs : config'[s] # NoConfig =>
              \/ config'[s].id[2] = n
              \/ \E u \in slugs : config[u] # NoConfig /\ config'[s].id = config[u].id
    BY <1>3, <1>9, <2>1, <2>2, ColoredIs
  <2>4. \A s \in slugs : config'[s] # NoConfig =>
           /\ config'[s].id[2] <= jobs
           /\ \A k \in Jobs \ {j} : job[k].pc \in Renaming => config'[s].id[2] # job[k].number
    BY <1>1, <1>2, <1>6, <2>1, <2>2, <2>3 DEF NumbersDiffer, Renaming
  <2>5. NumbersDiffer'
    <3>1. \A k \in Jobs : job'[k].pc \in Renaming =>
             /\ job'[k].number \in 1..jobs
             /\ \A s \in slugs : config'[s] # NoConfig => config'[s].id[2] # job'[k].number
      BY <1>6, <1>7, <2>4 DEF NumbersDiffer
    <3>2. \A k \in Jobs : \A l \in Jobs \ {k} :
             job'[k].pc \in Renaming /\ job'[l].pc \in Renaming => job'[l].number # job'[k].number
      BY <1>6, <1>7 DEF NumbersDiffer
    <3>3. QED
      BY <1>3, <2>1, <2>4, <3>1, <3>2 DEF NumbersDiffer
  <2>6. QED
    BY <1>2, <1>4, <1>5, <1>9, <2>3, <2>5 DEF RenameInv
<1>10. QED
  BY <1>8, <1>9

(***************************************************************************)
(* Tags: the steps of a deletion, and what cuts a request short.           *)
(***************************************************************************)
LEMMA DeletionStarts ==
    ASSUME SettingsInv, NEW j \in Jobs, NEW name \in Names, deleteTagEverywhere(j, name)
    PROVE  RenameInv' /\ \E r \in RemoveJob : Acts(j, r) /\ Hushed(j)
<1> DEFINE r == [pc |-> "remove", old |-> name, disturbed |-> FALSE]
<1>1. r \in RemoveJob /\ r \in AnyJob /\ r.pc \notin Renaming
  BY DEF RemoveJob, Removing, AnyJob, Renaming
<1>2. job' = [job EXCEPT ![j] = r] /\ jobs' = jobs + 1 /\ UNCHANGED tagVars
  BY DEF deleteTagEverywhere, accept
<1> HIDE DEF r
<1>3. Acts(j, r) /\ Hushed(j)
  BY <1>1, <1>2, OneActs DEF SettingsInv
<1>4. \A k \in Jobs : job'[k].pc \in Renaming => job'[k] = job[k]
  BY <1>1, <1>3 DEF Acts, Hushed
<1>5. RenameInv'
  BY <1>2, <1>4, QuietTags
<1>6. QED
  BY <1>1, <1>3, <1>5

LEMMA EventsLoseTag ==
    ASSUME SettingsInv, NEW j \in Jobs, removeFromEvents(j)
    PROVE  RenameInv' /\ \E r \in RemoveJob : Acts(j, r) /\ Stirring(j)
<1>1. job[j].pc = "remove" /\ config' = config /\ jobs' = jobs
  BY DEF removeFromEvents
<1>2. job[j] \in RemoveJob /\ job \in [Jobs -> AnyJob]
  BY <1>1, JobShape DEF SettingsInv, JobsTyped, AnyJob, Removing
<1> DEFINE r == [job[j] EXCEPT !.pc = "removeConfig"]
<1>3. r \in RemoveJob /\ r \in AnyJob /\ r.pc = "removeConfig" /\ r \notin RenameJob
  BY <1>2 DEF RemoveJob, Removing, AnyJob, RenameJob, Renaming
<1>4. job' = stir([job EXCEPT ![j] = r], {j})
  BY <1>2, Zenon DEF removeFromEvents, next
<1> HIDE DEF r
<1>5. Acts(j, r) /\ Stirring(j)
  BY <1>3, <1>4, OneActs DEF SettingsInv
<1>6. UndisturbedIsFound' /\ IdsAreKnown'
  BY <1>3, <1>5, OnlyItsOwn
<1>7. ConfigTyped' /\ IdsDiffer'
  BY <1>1 DEF SettingsInv, RenameInv, ConfigTyped, IdsDiffer
<1>8. NumbersDiffer'
  <2>1. \A k \in Jobs : job'[k].pc \in Renaming => job[k].pc \in Renaming /\ job'[k].number = job[k].number
    BY <1>3, <1>5, LeftIs DEF Acts, Renaming, SettingsInv
  <2>2. QED
    BY <1>1, <2>1, NumbersKept
<1>9. QED
  BY <1>3, <1>5, <1>6, <1>7, <1>8 DEF RenameInv

LEMMA ConfigGoes ==
    ASSUME SettingsInv, NEW j \in Jobs, removeConfig(j)
    PROVE  RenameInv' /\ \E r \in ReadyJob : Acts(j, r) /\ Stirring(j) /\ r.done = "deleted"
<1>1. /\ job[j].pc = "removeConfig" /\ jobs' = jobs /\ job' = stir(finish(j, "deleted"), {j})
      /\ config' = [config EXCEPT ![SlugOf[job[j].old]] = NoConfig]
  BY DEF removeConfig
<1>2. job[j] \in RemoveJob
  BY <1>1, JobShape DEF SettingsInv, JobsTyped, AnyJob, Removing
<1>3. SlugOf[job[j].old] \in slugs
  BY <1>2 DEF RemoveJob, slugs
<1>4. PICK r \in ReadyJob : Acts(j, r) /\ Stirring(j) /\ r.done = "deleted"
  BY <1>1, Ends
<1>5. UndisturbedIsFound' /\ IdsAreKnown'
  BY <1>4, EndsWell
<1>6. /\ ConfigTyped' /\ IdsDiffer'
      /\ \A s \in slugs : config'[s] # NoConfig =>
            \E u \in slugs : config[u] # NoConfig /\ config'[s].id = config[u].id
  BY <1>1, <1>3, RowGoes
<1>7. NumbersDiffer'
  <2>1. \A k \in Jobs : job'[k].pc \in Renaming => job[k].pc \in Renaming /\ job'[k].number = job[k].number
    BY <1>4, LeftIs DEF Acts, Renaming, SettingsInv, ReadyJob
  <2>2. QED
    BY <1>1, <1>6, <2>1, NumbersKept
<1>8. QED
  BY <1>4, <1>5, <1>6, <1>7 DEF RenameInv

LEMMA CutEnds ==
    ASSUME SettingsInv, NEW j \in Jobs, cut(j)
    PROVE  RenameInv' /\ \E r \in ReadyJob : Acts(j, r) /\ Hushed(j) /\ r.done = "cut"
<1>1. job' = finish(j, "cut") /\ UNCHANGED tagVars /\ jobs' = jobs
  BY DEF cut
<1>2. PICK r \in ReadyJob : Acts(j, r) /\ Hushed(j) /\ r.done = "cut"
  BY <1>1, Ends
<1>3. \A k \in Jobs : job'[k].pc \in Renaming => job'[k] = job[k]
  BY <1>2 DEF Acts, Hushed, ReadyJob, Renaming
<1>4. QED
  BY <1>1, <1>2, <1>3, QuietTags

(***************************************************************************)
(* The invariant is inductive.                                             *)
(***************************************************************************)
\* A step about tags, or one that cuts a request short, refers to nothing.
LEMMA TagsMeanNothing ==
    ASSUME SettingsInv, UNCHANGED envVars, NEW j \in Jobs, NEW r \in ReadyJob \cup RenameJob \cup RemoveJob,
           Acts(j, r)
    PROVE  JobsTyped' /\ EnvTyped' /\ ReferredIsMeant'
<1>1. r.pc # "refer"
  BY DEF ReadyJob, RenameJob, RemoveJob, Renaming, Removing
<1>2. \A k \in Jobs : job'[k].pc = "refer" => job[k].pc = "refer" /\ job'[k].to = job[k].to
  BY <1>1, LeftIs DEF Acts, SettingsInv
<1>3. QED
  BY <1>2, MeaningKept DEF Acts, JobsTyped, AnyJob

LEMMA SettingsInvStep ==
    ASSUME SettingsInv, [SettingsNext]_settingsVars
    PROVE  SettingsInv'
<1>1. ASSUME NEW e \in EnvSlugs, createEnvironment(e) \/ softDeleteEnvironment(e)
      PROVE  SettingsInv'
  <2>1. job' = job /\ jobs' = jobs /\ UNCHANGED tagVars
    BY <1>1 DEF createEnvironment, softDeleteEnvironment
  <2>2. RenameInv'
    BY <2>1, QuietTags
  <2>3. QED
    BY <1>1, <2>1, <2>2, EnvironmentsStay DEF SettingsInv, JobsTyped
<1>2. ASSUME NEW j \in Jobs, NEW f \in References, NEW S \in SUBSET EnvSlugs, refer(j, f, S)
      PROVE  SettingsInv'
  <2>1. JobsTyped' /\ EnvTyped' /\ ReferredIsMeant' /\ Hushed(j) /\ job'[j].pc = "refer"
    BY <1>2, ReferDoes
  <2>2. UNCHANGED tagVars /\ jobs' = jobs + 1
    BY <1>2 DEF refer, accept
  <2>3. RenameInv'
    BY <2>1, <2>2, QuietTags DEF Hushed, Renaming
  <2>4. QED
    BY <2>1, <2>3 DEF SettingsInv
<1>3. ASSUME NEW j \in Jobs, writeReference(j)
      PROVE  SettingsInv'
  <2>1. JobsTyped' /\ EnvTyped' /\ ReferredIsMeant' /\ Hushed(j) /\ job'[j].pc = "ready"
    BY <1>3, WriteDoes
  <2>2. UNCHANGED tagVars /\ jobs' = jobs
    BY <1>3 DEF writeReference
  <2>3. RenameInv'
    BY <2>1, <2>2, QuietTags DEF Hushed, Renaming
  <2>4. QED
    BY <2>1, <2>3 DEF SettingsInv
<1>4. ASSUME NEW j \in Jobs, cut(j) PROVE SettingsInv'
  <2>1. UNCHANGED envVars
    BY <1>4 DEF cut
  <2>2. RenameInv' /\ \E r \in ReadyJob : Acts(j, r)
    BY <1>4, CutEnds
  <2>3. QED
    BY <2>1, <2>2, TagsMeanNothing DEF SettingsInv
<1>5. ASSUME NEW v \in Events, NEW said \in lists, setEventTags(v, said)
      PROVE  SettingsInv'
  <2>1. JobsTyped' /\ RenameInv' /\ \A k \in Jobs : Left(k)
    BY <1>5, PageDoes
  <2>2. UNCHANGED envVars
    BY <1>5, Zenon DEF setEventTags
  <2>3. \A k \in Jobs : job'[k].pc = "refer" => job[k].pc = "refer" /\ job'[k].to = job[k].to
    BY <2>1, LeftIs DEF SettingsInv
  <2>4. QED
    BY <2>1, <2>2, <2>3, MeaningKept DEF SettingsInv
<1>6. ASSUME NEW name \in Names, NEW color \in Colors, setTagColor(name, color)
      PROVE  SettingsInv'
  <2>1. JobsTyped' /\ RenameInv' /\ \A k \in Jobs : Left(k)
    BY <1>6, ColorDoes
  <2>2. UNCHANGED envVars
    BY <1>6 DEF setTagColor
  <2>3. \A k \in Jobs : job'[k].pc = "refer" => job[k].pc = "refer" /\ job'[k].to = job[k].to
    BY <2>1, LeftIs DEF SettingsInv
  <2>4. QED
    BY <2>1, <2>2, <2>3, MeaningKept DEF SettingsInv
<1>7. ASSUME NEW j \in Jobs, tagJob(j) PROVE SettingsInv'
  <2>1. UNCHANGED envVars
    BY <1>7, Zenon DEF tagJob, renameTag, deleteTagEverywhere, renameOnEvents, findConfig, freeSlug, renameConfig,
                       recolor, removeFromEvents, removeConfig
  <2>2. RenameInv' /\ \E r \in ReadyJob \cup RenameJob \cup RemoveJob : Acts(j, r)
    BY <1>7, RenameStarts, DeletionStarts, EventsAreRenamed, ConfigIsFound, SlugIsFreed, ConfigIsRenamed,
       ColorIsSet, EventsLoseTag, ConfigGoes DEF tagJob
  <2>3. QED
    BY <2>1, <2>2, TagsMeanNothing DEF SettingsInv
<1>8. CASE UNCHANGED settingsVars
  <2>1. job' = job /\ jobs' = jobs /\ UNCHANGED tagVars /\ UNCHANGED envVars
    BY <1>8 DEF settingsVars, tagVars, envVars
  <2>2. RenameInv'
    BY <2>1, QuietTags
  <2>3. EnvTyped' /\ ReferredIsMeant'
    BY <2>1, MeaningKept
  <2>4. QED
    BY <2>1, <2>2, <2>3 DEF SettingsInv, JobsTyped
<1>9. QED
  BY <1>1, <1>2, <1>3, <1>4, <1>5, <1>6, <1>7, <1>8
  DEF SettingsNext, environmentStep, environmentJob, tagStep

LEMMA SettingsInvInit ==
    ASSUME SettingsInit
    PROVE  SettingsInv
<1>1. /\ env = [e \in EnvSlugs |-> [row |-> 0, active |-> FALSE]] /\ rows = 0
      /\ refers = [f \in References |-> {}] /\ job = [j \in Jobs |-> Ready] /\ jobs = 0
      /\ config \in [slugs -> {NoConfig} \cup [id : slugs \X {0}, name : Names, color : Colors]]
      /\ \A s \in slugs : config[s] # NoConfig => config[s].id[1] = s /\ SlugOf[config[s].name] = s
  BY Zenon DEF SettingsInit
<1>2. Ready \in ReadyJob /\ Ready.pc = "ready"
  BY DEF Ready, ReadyJob
<1>3. JobsTyped /\ \A j \in Jobs : job[j].pc = "ready"
  BY <1>1, <1>2 DEF JobsTyped
<1>4. EnvTyped
  BY <1>1 DEF EnvTyped
<1>5. ReferredIsMeant
  BY <1>1, <1>3 DEF ReferredIsMeant
<1>6. ConfigTyped
  BY <1>1 DEF ConfigTyped, ConfigRow
<1>7. IdsDiffer
  <2>1. SUFFICES ASSUME NEW s \in slugs, NEW u \in slugs, config[s].id = config[u].id, config[s] # NoConfig
                 PROVE  s = u
    BY DEF IdsDiffer
  <2>2. config[u] # NoConfig
    BY <1>6, <2>1, SlugIsSet
  <2>3. QED
    BY <1>1, <2>1, <2>2
<1>8. NumbersDiffer
  BY <1>1, <1>3 DEF NumbersDiffer, Renaming
<1>9. IdsAreKnown
  BY <1>3 DEF IdsAreKnown
<1>10. UndisturbedIsFound
  BY <1>3 DEF UndisturbedIsFound, RenameJob, Renaming
<1>11. QED
  BY <1>3, <1>4, <1>5, <1>6, <1>7, <1>8, <1>9, <1>10 DEF SettingsInv, RenameInv

LEMMA SettingsInvariant == SettingsSpec => []SettingsInv
<1>1. SettingsInit => SettingsInv
  BY SettingsInvInit
<1>2. SettingsInv /\ [SettingsNext]_settingsVars => SettingsInv'
  BY SettingsInvStep
<1>3. QED
  BY <1>1, <1>2, PTL DEF SettingsSpec

(***************************************************************************)
(* The theorems.                                                           *)
(***************************************************************************)
\* Whatever environments are created and deleted between the check of a reference and its
\* writing, or after it, a slug goes on meaning the environment it was checked against.
THEOREM MeaningIsKept == SettingsSpec => []ReferencesKeepTheirMeaning
<1>1. SettingsInv => ReferencesKeepTheirMeaning
  BY DEF SettingsInv, ReferredIsMeant, Meant, ReferencesKeepTheirMeaning
<1>2. QED
  BY <1>1, SettingsInvariant, PTL

\* A set of places of a list can be walked in their order (picked).
Walks(walk, I) == /\ walk \in [1..Cardinality(I) -> I]
                  /\ \A i, k \in 1..Cardinality(I) : i < k => walk[i] < walk[k]

LEMMA WalkExists ==
    ASSUME NEW n \in Nat
    PROVE  \A I \in SUBSET (1..n) : \E walk : Walks(walk, I)
<1> DEFINE Stuck == {m \in Nat : \E I \in SUBSET (1..m) : ~ \E walk : Walks(walk, I)}
           Less == OpToRel(<, Nat)
<1>1. SUFFICES ASSUME Stuck # {} PROVE FALSE
  OBVIOUS
<1>2. PICK m \in Stuck : \A k \in Stuck : << k, m >> \notin Less
  <2>1. IsWellFoundedOn(Less, Nat)
    BY NatLessThanWellFounded DEF Less
  <2>2. Stuck \subseteq Nat
    OBVIOUS
  <2> HIDE DEF Stuck, Less
  <2>3. QED
    BY <1>1, <2>1, <2>2, WFMin
<1>3. m \in Nat /\ \A k \in Nat : k < m => k \notin Stuck
  BY <1>2 DEF OpToRel
<1>4. PICK I \in SUBSET (1..m) : ~ \E walk : Walks(walk, I)
  BY <1>2
<1>5. IsFiniteSet(I) /\ Cardinality(I) \in Nat
  <2>1. IsFiniteSet(1..m)
    BY <1>3, FS_Interval
  <2>2. I \subseteq 1..m
    OBVIOUS
  <2>3. IsFiniteSet(I)
    BY <2>1, <2>2, FS_Subset
  <2>4. QED
    BY <2>3, FS_CardinalityType
<1>6. CASE m = 0
  <2>1. I = {} /\ Cardinality(I) = 0
    <3>1. 1..m = {}
      BY <1>6
    <3>2. I = {}
      BY <3>1
    <3>3. QED
      BY <3>2, FS_EmptySet
  <2>2. Walks([k \in 1..0 |-> k], I)
    BY <2>1 DEF Walks
  <2>3. QED
    BY <1>4, <2>2
<1>7. CASE m # 0
  <2> DEFINE J == I \ {m}
  <2>1. m - 1 \in Nat /\ J \in SUBSET (1..(m - 1)) /\ m - 1 < m
    BY <1>3, <1>7
  <2>2. PICK walk : Walks(walk, J)
    BY <1>3, <2>1
  <2>3. m \in I
    <3>1. SUFFICES ASSUME m \notin I PROVE FALSE
      OBVIOUS
    <3>2. I = J
      BY <3>1
    <3>3. QED
      BY <1>4, <2>2, <3>2
  <2>4. IsFiniteSet(J) /\ Cardinality(J) \in Nat /\ Cardinality(I) = Cardinality(J) + 1
    <3>1. IsFiniteSet(J) /\ Cardinality(J) \in Nat
      BY <1>5, FS_Subset, FS_CardinalityType
    <3>2. J \cup {m} = I /\ m \notin J
      BY <2>3
    <3>3. QED
      BY <3>1, <3>2, FS_AddElement
  <2>5. PICK c \in Nat : c = Cardinality(J) /\ Cardinality(I) = c + 1
    BY <2>4
  <2>6. walk \in [1..c -> J] /\ \A i, k \in 1..c : i < k => walk[i] < walk[k]
    BY <2>2, <2>5 DEF Walks
  <2> DEFINE on == [k \in 1..(c + 1) |-> IF k = c + 1 THEN m ELSE walk[k]]
  <2>7. \A k \in 1..(c + 1) : k \in 1..c \/ k = c + 1
    BY <2>5
  <2>8. \A k \in 1..c : on[k] = walk[k] /\ walk[k] \in J /\ k \in 1..(c + 1) /\ walk[k] < m
    <3>1. ASSUME NEW k \in 1..c PROVE on[k] = walk[k] /\ walk[k] \in J /\ k \in 1..(c + 1) /\ walk[k] < m
      <4>1. walk[k] \in J /\ walk[k] \in 1..(m - 1)
        BY <2>1, <2>6
      <4>2. k \in 1..(c + 1) /\ k # c + 1
        BY <2>5
      <4>3. walk[k] < m
        BY <1>3, <4>1
      <4>4. QED
        BY <4>1, <4>2, <4>3
    <3>2. QED
      BY <3>1
  <2>9. on[c + 1] = m
    BY <2>5
  <2>10. on \in [1..(c + 1) -> I]
    BY <2>3, <2>6, <2>7, <2>8
  <2>11. ASSUME NEW i \in 1..(c + 1), NEW k \in 1..(c + 1), i < k PROVE on[i] < on[k]
    <3>1. i \in 1..c
      BY <2>5, <2>11
    <3>2. QED
      BY <2>6, <2>7, <2>8, <2>9, <2>11, <3>1
  <2>12. Walks(on, I)
    BY <2>5, <2>10, <2>11 DEF Walks
  <2>13. QED
    BY <1>4, <2>12
<1>8. QED
  BY <1>6, <1>7

\* What is picked of a list of names is a list of names.
LEMMA PickedIsList ==
    ASSUME NEW names \in Seq(Names), NEW I \in SUBSET DOMAIN names
    PROVE  picked(names, I) \in Seq(Names)
<1>1. Len(names) \in Nat /\ DOMAIN names = 1..Len(names) /\ \A i \in DOMAIN names : names[i] \in Names
  OBVIOUS
<1>2. \E walk : Walks(walk, I)
  BY <1>1, WalkExists
<1>3. Walks(inOrder(I), I)
  BY <1>2 DEF Walks, inOrder
<1>4. \A k \in 1..Cardinality(I) : names[inOrder(I)[k]] \in Names
  BY <1>1, <1>3 DEF Walks
<1>5. Cardinality(I) \in Nat
  <2>1. IsFiniteSet(DOMAIN names)
    BY <1>1, FS_Interval
  <2>2. IsFiniteSet(I)
    BY <2>1, FS_Subset
  <2>3. QED
    BY <2>2, FS_CardinalityType
<1>6. QED
  BY <1>4, <1>5 DEF picked

LEMMA ListsAreSequences == \A said \in lists : said \in Seq(Names)
<1>1. ASSUME NEW said \in lists PROVE said \in Seq(Names)
  <2>1. PICK k \in 0..2 : said \in [1..k -> Names]
    BY <1>1 DEF lists
  <2>2. QED
    BY <2>1
<1>2. QED
  BY <1>1

TagsTyped == tags \in [Events -> Seq(Names)]

LEMMA TagsKeep ==
    ASSUME SettingsInv, TagsTyped, [SettingsNext]_settingsVars
    PROVE  TagsTyped'
<1>1. ASSUME tags' = tags PROVE TagsTyped'
  BY <1>1 DEF TagsTyped
<1>2. ASSUME NEW v \in Events, NEW said \in lists, setEventTags(v, said) PROVE TagsTyped'
  <2>1. said \in Seq(Names)
    BY ListsAreSequences
  <2>2. onlyOnce(said) \in Seq(Names)
    BY <2>1, PickedIsList DEF onlyOnce
  <2>3. tags' = [tags EXCEPT ![v] = onlyOnce(said)]
    BY <1>2 DEF setEventTags
  <2>4. QED
    BY <2>2, <2>3 DEF TagsTyped
<1>3. ASSUME NEW j \in Jobs, renameOnEvents(j) PROVE TagsTyped'
  <2>1. PICK q \in RenameJob : job[j] = q
    BY <1>3, AtWork DEF renameOnEvents, Renaming
  <2>2. q.new \in Names
    BY DEF RenameJob
  <2>3. \A v \in Events : replaced(v, q.old, q.new) \in Seq(Names)
    <3>1. ASSUME NEW v \in Events PROVE replaced(v, q.old, q.new) \in Seq(Names)
      <4>1. PICK names \in Seq(Names) : names = tags[v]
        BY DEF TagsTyped
      <4>2. Len(names) \in Nat /\ DOMAIN names = 1..Len(names) /\ \A i \in DOMAIN names : names[i] \in Names
        OBVIOUS
      <4>3. replaced(v, q.old, q.new) \in [1..Len(names) -> Names]
        BY <2>2, <4>1, <4>2 DEF replaced
      <4>4. QED
        BY <4>2, <4>3
    <3>2. QED
      BY <3>1
  <2>4. tags' = [v \in Events |-> replaced(v, q.old, q.new)]
    BY <1>3, <2>1 DEF renameOnEvents
  <2>5. QED
    BY <2>3, <2>4 DEF TagsTyped
<1>4. ASSUME NEW j \in Jobs, removeFromEvents(j) PROVE TagsTyped'
  <2>1. \A v \in Events : untagged(tags[v], job[j].old) \in Seq(Names)
    BY PickedIsList DEF untagged, TagsTyped
  <2>2. tags' = [v \in Events |-> untagged(tags[v], job[j].old)]
    BY <1>4 DEF removeFromEvents
  <2>3. QED
    BY <2>1, <2>2 DEF TagsTyped
<1>5. ASSUME environmentStep PROVE tags' = tags
  BY <1>5 DEF environmentStep, createEnvironment, softDeleteEnvironment, environmentJob, refer, writeReference, cut,
     tagVars
<1>6. ASSUME NEW name \in Names, NEW color \in Colors, setTagColor(name, color) PROVE tags' = tags
  BY <1>6 DEF setTagColor
<1>7. ASSUME NEW j \in Jobs, tagJob(j) \/ cut(j), ~renameOnEvents(j), ~removeFromEvents(j) PROVE tags' = tags
  BY <1>7 DEF tagJob, cut, renameTag, deleteTagEverywhere, findConfig, freeSlug, renameConfig, recolor, removeConfig,
     tagVars
<1>8. CASE UNCHANGED settingsVars
  BY <1>1, <1>8 DEF settingsVars
<1>9. QED
  BY <1>1, <1>2, <1>3, <1>4, <1>5, <1>6, <1>7, <1>8 DEF SettingsNext, tagStep

\* Environments have rows that were created, an event has a list of names of tags, and a
\* configuration is under the slug of its name, no row under two (lib/tags.ts, environment.ts).
THEOREM ConfigurationsStayApart == SettingsSpec => []SettingsTypeOK
<1>1. SettingsInit => TagsTyped
  BY ListsAreSequences DEF SettingsInit, TagsTyped
<1>2. SettingsInv /\ TagsTyped /\ [SettingsNext]_settingsVars => TagsTyped'
  BY TagsKeep
<1>3. SettingsInv /\ TagsTyped => SettingsTypeOK
  BY DEF SettingsInv, RenameInv, EnvTyped, TagsTyped, ConfigTyped, ConfigRow, IdsDiffer, SettingsTypeOK
<1>4. QED
  BY <1>1, <1>2, <1>3, SettingsInvariant, PTL DEF SettingsSpec

\* A rename is said to be done by its last step only.
LEMMA DoneByRecolor ==
    ASSUME SettingsInv, [SettingsNext]_settingsVars, NEW j \in Jobs,
           job[j].pc = "color", job'[j].pc = "ready", job'[j].done = "renamed"
    PROVE  recolor(j)
<1>1. \A k \in Jobs : Left(k) => job'[k].pc = job[k].pc
  BY LeftIs DEF SettingsInv
<1>2. ~Left(j)
  BY <1>1
<1>3. job' # job
  BY <1>2 DEF Left
<1>4. ~environmentStep \/ cut(j)
  <2>1. ASSUME NEW e \in EnvSlugs, createEnvironment(e) \/ softDeleteEnvironment(e) PROVE FALSE
    BY <1>3, <2>1 DEF createEnvironment, softDeleteEnvironment
  <2>2. ASSUME NEW k \in Jobs, environmentJob(k) PROVE FALSE
    <3>1. Hushed(k) /\ job[k].pc # "color"
      BY <2>2, ReferDoes, WriteDoes DEF environmentJob, refer, accept, writeReference
    <3>2. QED
      BY <1>2, <3>1 DEF Hushed, Left
  <2>3. ASSUME NEW k \in Jobs \ {j}, cut(k) PROVE FALSE
    BY <1>2, <2>3, CutEnds DEF Acts
  <2>4. QED
    BY <2>1, <2>2, <2>3 DEF environmentStep
<1>5. ~cut(j)
  BY CutEnds DEF Acts
<1>6. tagStep
  BY <1>3, <1>4, <1>5 DEF SettingsNext, settingsVars
<1>7. PICK k \in Jobs : tagJob(k) \/ cut(k)
  BY <1>2, <1>6, PageDoes, ColorDoes DEF tagStep
<1>8. \E r : Acts(k, r)
  BY <1>7, RenameStarts, DeletionStarts, EventsAreRenamed, ConfigIsFound, SlugIsFreed, ConfigIsRenamed,
     ColorIsSet, EventsLoseTag, ConfigGoes, CutEnds DEF tagJob
<1>9. k = j
  BY <1>2, <1>8 DEF Acts
<1>10. QED
  BY <1>5, <1>7, <1>9, Zenon DEF tagJob, renameTag, deleteTagEverywhere, accept, renameOnEvents, findConfig, freeSlug,
     renameConfig, removeFromEvents, removeConfig

\* However requests interleave and whichever were cut short before, a rename that nobody
\* disturbed leaves the old name nowhere, and its color with the new one.
THEOREM RenamesAreWhole == SettingsSpec => RenameIsComplete
<1> DEFINE Whole(j) ==
              LET q == job[j]
                  color == IF q.color # Unset THEN q.color ELSE q.was
              IN  q.pc = "color" /\ job'[j].pc = "ready" /\ job'[j].done = "renamed" /\ ~q.disturbed =>
                     /\ q.old \notin tagNames'
                     /\ color # Unset => config'[SlugOf[q.new]].color = color /\ q.new \in tagNames'
<1>1. ASSUME SettingsInv, [SettingsNext]_settingsVars, NEW j \in Jobs PROVE Whole(j)
  <2>1. SUFFICES ASSUME job[j].pc = "color", job'[j].pc = "ready", job'[j].done = "renamed", ~job[j].disturbed
                 PROVE  LET q == job[j]
                            color == IF q.color # Unset THEN q.color ELSE q.was
                        IN  /\ q.old \notin tagNames'
                            /\ color # Unset => config'[SlugOf[q.new]].color = color /\ q.new \in tagNames'
    OBVIOUS
  <2>2. recolor(j)
    BY <1>1, <2>1, DoneByRecolor
  <2>3. PICK q \in RenameJob :
           /\ q = job[j] /\ Found(q) /\ q.pc = "color" /\ q.old \in Names /\ q.new \in Names
           /\ SlugOf[q.new] \in slugs
    BY <1>1, <2>1, AtWork DEF Renaming
  <2>4. tags' = tags
    BY <2>2 DEF recolor
  <2>5. /\ q.color = Unset => config' = config
        /\ q.color # Unset => /\ config'[SlugOf[q.new]].color = q.color /\ config'[SlugOf[q.new]].name = q.new
                             /\ \A s \in slugs \ {SlugOf[q.new]} : config'[s] = config[s]
    BY <1>1, <2>2, <2>3, ColorIsSet
  <2>6. /\ OldIsGone(q) /\ q.old # q.new /\ \A s \in slugs : config[s].name # q.old
        /\ q.was # Unset => config[SlugOf[q.new]].color = q.was /\ config[SlugOf[q.new]].name = q.new
    BY <2>3 DEF Found
  <2>7. q.old \notin tagNames'
    BY <2>4, <2>5, <2>6 DEF tagNames, OldIsGone
  <2>8. \A s \in slugs : config'[s].name = q.new => q.new \in tagNames'
    BY <2>3 DEF tagNames
  <2>9. CASE q.color # Unset
    BY <2>3, <2>5, <2>7, <2>8, <2>9
  <2>10. CASE q.color = Unset
    BY <2>3, <2>5, <2>6, <2>7, <2>8, <2>10
  <2>11. QED
    BY <2>9, <2>10
<1>2. SettingsInv /\ [SettingsNext]_settingsVars => [\A j \in Jobs : Whole(j)]_settingsVars
  BY <1>1
<1>3. QED
  BY <1>2, SettingsInvariant, PTL DEF SettingsSpec, RenameIsComplete

-------------------------------------------------------------------------------
(***************************************************************************)
(* DIALOGS.  What a request writes depends on what was asked long before:  *)
(* the invariant says what each form has on the screen, what it may still  *)
(* be told, and what a request on its way was filled with.                 *)
(***************************************************************************)
EventKeys == {"kind", "defaults", "type", "envs", "environment", "fields"}

LotKeys == {"kind", "envs", "environment", "companies", "fields", "lines", "next", "products", "services"}

ExistingKeys == {"kind", "envs", "environment", "fields", "cands", "sel"}

formShaped(form) ==
    /\ form.kind \in {"none", "broken", "event", "lot", "existing"}
    /\ form.kind = "event" => DOMAIN form = EventKeys
    /\ form.kind = "lot" => DOMAIN form = LotKeys
    /\ form.kind = "existing" => DOMAIN form = ExistingKeys

LineKeys == {"id", "company", "product", "service", "version"}

\* Lines have numbers of their own, below the next one.
numbered(lines, last) ==
    /\ Len(lines) \in Nat
    /\ DOMAIN lines = 1..Len(lines)
    /\ lines \in Seq({lines[k] : k \in DOMAIN lines})
    /\ last \in Nat \ {0}
    /\ \A k \in DOMAIN lines : DOMAIN lines[k] = LineKeys /\ lines[k].id \in 1..(last - 1)
    /\ \A j, k \in DOMAIN lines : lines[j].id = lines[k].id => j = k

\* A list answers a choice that was made in its line, whoever sits there now.
productsAnswer(products, G) ==
    \A id \in DOMAIN products :
        products[id] = {} \/ \E c : << id, c >> \in G /\ products[id] = productsOf(<< c >>)

servicesAnswer(services, G) ==
    \A id \in DOMAIN services :
        services[id] = {} \/ \E c, p : << id, c, p >> \in G /\ services[id] = servicesOf(<< c, p >>)

linesAnswered(form, G) ==
    form.kind = "lot" =>
        /\ numbered(form.lines, form.next)
        /\ productsAnswer(form.products, G)
        /\ servicesAnswer(form.services, G)

ofForms == {"environments", "me", "companies", "candidates"}

productsAsked(f, G) ==
    f.what = "products" /\ \E id, c : f.line = id /\ f.path = << c >> /\ << id, c >> \in G

servicesAsked(f, G) ==
    f.what = "services" /\ \E id, c, p : f.line = id /\ f.path = << c, p >> /\ << id, c, p >> \in G

\* A form that is gone waits for nothing, and lists of lines are asked by a form for a lot.
waits(form, sought, G) ==
    /\ form.kind \in {"none", "broken"} => sought = {}
    /\ \A f \in sought :
          \/ f.what \in ofForms
          \/ form.kind = "lot" /\ (productsAsked(f, G) \/ servicesAsked(f, G))

parentThere(b) == text(b, "parentId") \in DOMAIN events \cup {NoText}

noPhase(b) == ~ isPhase(text(b, "changeType"))

\* A parent that a form proposes is there; no lot is of phases.
fieldsThere(form) ==
    /\ form.kind = "event" => parentThere(form.fields)
    /\ form.kind = "lot" => noPhase(form.fields)

formSound(form, sought, G) ==
    /\ formShaped(form)
    /\ linesAnswered(form, G)
    /\ waits(form, sought, G)
    /\ fieldsThere(form)

PostedThere ==
    posted # NoPost =>
        /\ posted.op = "event" /\ posted.type = "DEPLOYMENT" => parentThere(posted.body)
        /\ posted.op \notin {"event", "existing"} =>
              /\ posted.op = "lot"
              /\ noPhase(posted.common)
              /\ "lot" \in DOMAIN posted.common => posted.common.lot # NoText

\* Rows are kept by id, and ids are given one after the other.
idsInOrder(stored) ==
    /\ stored = [i \in DOMAIN stored |-> stored[i]]
    /\ \E n \in 0..Len(Ids) : DOMAIN stored = {Ids[k] : k \in 1..n}

DialogsInv ==
    /\ formSound(dialog, fetching, given)
    /\ PostedThere
    /\ idsInOrder(events)

DialogsSpec ==
    /\ \E E : idsInOrder(E) /\ DialogsInit(E)
    /\ [][\E Typed : DialogsStep(Typed)]_dialogVars

-------------------------------------------------------------------------------
\* What was put is there, and the rest is as it was.
LEMMA PutIs ==
    ASSUME NEW F, NEW key, NEW value
    PROVE  /\ DOMAIN put(F, key, value) = DOMAIN F \cup {key}
           /\ put(F, key, value)[key] = value
           /\ \A k \in DOMAIN F \ {key} : put(F, key, value)[k] = F[k]
BY DEF put, onto

LEMMA OntoText ==
    ASSUME NEW D, NEW F, NEW k
    PROVE  text(onto(D, F), k) = IF k \in DOMAIN D THEN D[k] ELSE text(F, k)
BY DEF text, onto

LEMMA PutText ==
    ASSUME NEW F, NEW key, NEW value, NEW k
    PROVE  text(put(F, key, value), k) = IF k = key THEN value ELSE text(F, k)
<1>1. put(F, key, value) = onto([x \in {key} |-> value], F)
  BY DEF put
<1>2. PICK D : D = [x \in {key} |-> value]
  OBVIOUS
<1>3. text(put(F, key, value), k) = IF k \in DOMAIN D THEN D[k] ELSE text(F, k)
  BY <1>1, <1>2, OntoText
<1>4. QED
  BY <1>2, <1>3

\* What a form leaves alone is sound when the form is.
LEMMA FormSteps ==
    ASSUME DialogsInv, NEW form, dialog' = form, UNCHANGED << posted, events >>,
           formSound(form, fetching', given')
    PROVE  DialogsInv'
<1>1. PostedThere'
  BY DEF DialogsInv, PostedThere, parentThere
<1>2. idsInOrder(events)'
  BY DEF DialogsInv, idsInOrder
<1>3. formSound(dialog, fetching, given)'
  BY DEF formSound, fieldsThere, parentThere
<1>4. QED
  BY <1>1, <1>2, <1>3 DEF DialogsInv

LEMMA MountSteps ==
    ASSUME DialogsInv, NEW form, NEW questions, mount(form, questions),
           questions \subseteq ofForms, form.kind = "none" => questions = {},
           formShaped(form), form.kind # "broken", linesAnswered(form, {}), fieldsThere(form)
    PROVE  DialogsInv'
<1>1. fetching' = {asking(what) : what \in questions} /\ given' = {} /\ dialog' = form
  BY DEF mount
<1>2. \A f \in fetching' : f.what \in ofForms
  BY <1>1 DEF asking
<1>3. waits(form, fetching', given')
  BY <1>1, <1>2 DEF waits
<1>4. QED
  BY <1>1, <1>3, FormSteps DEF mount, formSound

\* ... OpenEvent
LEMMA EventFormIs ==
    ASSUME NEW d
    PROVE  /\ eventForm(d).kind = "event"
           /\ eventForm(d).fields = proposed(d)
           /\ DOMAIN eventForm(d) = EventKeys
BY DEF eventForm, EventKeys

LEMMA EventFormSound ==
    ASSUME NEW d, d = NoDefaults \/ d.parentId \in DOMAIN events
    PROVE  formShaped(eventForm(d)) /\ linesAnswered(eventForm(d), {}) /\ fieldsThere(eventForm(d))
<1>1. parentThere(proposed(d))
  <2>1. CASE d = NoDefaults
    BY <2>1 DEF proposed, parentThere, deployDefaults, text
  <2>2. CASE d # NoDefaults
    <3>1. PICK D : D = [changeType |-> d.changeType, parentId |-> d.parentId,
               occurredAt |-> d.date + (IF d.changeType = "PRE_MEP" THEN -1 ELSE 1)]
      OBVIOUS
    <3>2. "parentId" \in DOMAIN D /\ D["parentId"] = d.parentId
      BY <3>1
    <3>3. proposed(d) = onto(D, deployDefaults)
      BY <2>2, <3>1 DEF proposed
    <3>4. text(proposed(d), "parentId") = d.parentId
      BY <3>2, <3>3, OntoText
    <3>5. QED
      BY <2>2, <3>4 DEF parentThere
  <2>3. QED
    BY <2>1, <2>2
<1>2. QED
  BY <1>1, EventFormIs DEF formShaped, linesAnswered, fieldsThere

LEMMA OpenEventSteps ==
    ASSUME DialogsInv, openEvent
    PROVE  DialogsInv'
<1>1. PICK form : form = eventForm(NoDefaults)
  OBVIOUS
<1>2. mount(form, {"environments", "me"})
  BY <1>1 DEF openEvent
<1>3. form.kind = "event" /\ formShaped(form) /\ linesAnswered(form, {}) /\ fieldsThere(form)
  BY <1>1, EventFormIs, EventFormSound
<1>4. QED
  BY <1>2, <1>3, MountSteps DEF ofForms

LEMMA OpenPhaseSteps ==
    ASSUME DialogsInv, NEW t, NEW i \in DOMAIN events, openPhase(t, i)
    PROVE  DialogsInv'
<1>1. PICK d : d = [changeType |-> t, parentId |-> i,
                    environment |-> events[i].environment, date |-> events[i].occurredAt]
  OBVIOUS
<1>2. PICK form : form = eventForm(d)
  OBVIOUS
<1>3. mount(form, {"environments", "me"})
  BY <1>1, <1>2 DEF openPhase
<1>4. d.parentId \in DOMAIN events
  BY <1>1
<1>5. form.kind = "event" /\ formShaped(form) /\ linesAnswered(form, {}) /\ fieldsThere(form)
  BY <1>2, <1>4, EventFormIs, EventFormSound
<1>6. QED
  BY <1>3, <1>5, MountSteps DEF ofForms

LEMMA LotFormIs ==
    /\ lotForm.kind = "lot"
    /\ DOMAIN lotForm = LotKeys
    /\ lotForm.lines = << emptyItem(1) >> /\ lotForm.next = 2
    /\ lotForm.products = noLists /\ lotForm.services = noLists
    /\ lotForm.fields = onto([changeType |-> "NORMAL", lot |-> "LOT"], deployDefaults)
BY DEF lotForm, LotKeys

LEMMA EmptyItemIs ==
    ASSUME NEW n
    PROVE  DOMAIN emptyItem(n) = LineKeys /\ emptyItem(n).id = n
BY DEF emptyItem, LineKeys

LEMMA LotFormSound ==
    formShaped(lotForm) /\ linesAnswered(lotForm, {}) /\ fieldsThere(lotForm)
<1>1. numbered(<< emptyItem(1) >>, 2)
  <2>1. PICK l : l = emptyItem(1)
    OBVIOUS
  <2>2. DOMAIN l = LineKeys /\ l.id = 1
    BY <2>1, EmptyItemIs
  <2>3. PICK s : s = << l >>
    OBVIOUS
  <2>4. Len(s) = 1 /\ DOMAIN s = 1..1 /\ s[1] = l /\ s \in Seq({l})
    BY <2>3
  <2>5. {s[k] : k \in DOMAIN s} = {l}
    BY <2>4
  <2>6. QED
    BY <2>1, <2>2, <2>3, <2>4, <2>5 DEF numbered
<1>2. productsAnswer(noLists, {}) /\ servicesAnswer(noLists, {})
  BY DEF productsAnswer, servicesAnswer, noLists
<1>3. noPhase(lotForm.fields)
  <2>1. PICK D : D = [changeType |-> "NORMAL", lot |-> "LOT"]
    OBVIOUS
  <2>2. "changeType" \in DOMAIN D /\ D["changeType"] = "NORMAL"
    BY <2>1
  <2>3. text(lotForm.fields, "changeType") = "NORMAL"
    BY <2>1, <2>2, OntoText, LotFormIs
  <2>4. QED
    BY <2>3 DEF noPhase, isPhase, PhaseTypes
<1>4. QED
  BY <1>1, <1>2, <1>3, LotFormIs DEF formShaped, linesAnswered, fieldsThere

LEMMA NewLotSteps ==
    ASSUME DialogsInv, newLot
    PROVE  DialogsInv'
<1>1. PICK form : form = lotForm
  OBVIOUS
<1>2. mount(form, {"companies", "environments", "me"})
  BY <1>1 DEF newLot
<1>3. form.kind = "lot" /\ formShaped(form) /\ linesAnswered(form, {}) /\ fieldsThere(form)
  BY <1>1, LotFormIs, LotFormSound
<1>4. QED
  BY <1>2, <1>3, MountSteps DEF ofForms

LEMMA TabExistingSteps ==
    ASSUME DialogsInv, tabExisting
    PROVE  DialogsInv'
<1>1. PICK form : form = existingLot
  OBVIOUS
<1>2. mount(form, {"environments"})
  BY <1>1 DEF tabExisting
<1>3. form.kind = "existing" /\ DOMAIN form = ExistingKeys
  BY <1>1 DEF existingLot, ExistingKeys
<1>4. formShaped(form) /\ linesAnswered(form, {}) /\ fieldsThere(form)
  BY <1>3 DEF formShaped, linesAnswered, fieldsThere
<1>5. QED
  BY <1>2, <1>3, <1>4, MountSteps DEF ofForms

LEMMA DismissSteps ==
    ASSUME DialogsInv, dismiss
    PROVE  DialogsInv'
<1>1. PICK form : form = NoDialog
  OBVIOUS
<1>2. mount(form, {})
  BY <1>1 DEF dismiss
<1>3. form.kind = "none"
  BY <1>1 DEF NoDialog
<1>4. formShaped(form) /\ linesAnswered(form, {}) /\ fieldsThere(form)
  BY <1>3 DEF formShaped, linesAnswered, fieldsThere
<1>5. QED
  BY <1>2, <1>3, <1>4, MountSteps DEF ofForms

-------------------------------------------------------------------------------
(***************************************************************************)
(* Inputs: what is not a line stays what it was, or is what its select     *)
(* offers.                                                                 *)
(***************************************************************************)
\* A form of the same kind with the same lines is as sound as it was.
LEMMA InputSteps ==
    ASSUME DialogsInv, NEW form, dialog' = form, UNCHANGED << posted, events, fetching, given >>,
           form.kind = dialog.kind, DOMAIN form = DOMAIN dialog,
           form.kind = "lot" => /\ form.lines = dialog.lines /\ form.next = dialog.next
                                /\ form.products = dialog.products /\ form.services = dialog.services,
           fieldsThere(form)
    PROVE  DialogsInv'
<1>1. formSound(dialog, fetching, given)
  BY DEF DialogsInv
<1>2. formShaped(form)
  BY <1>1 DEF formSound, formShaped
<1>3. linesAnswered(form, given)
  BY <1>1 DEF formSound, linesAnswered
<1>4. waits(form, fetching, given)
  BY <1>1 DEF formSound, waits
<1>5. QED
  BY <1>2, <1>3, <1>4, FormSteps DEF formSound

LEMMA SetTypeSteps ==
    ASSUME DialogsInv, NEW t, setType(t)
    PROVE  DialogsInv'
<1>1. PICK form : form = [dialog EXCEPT !.type = t]
  OBVIOUS
<1>2. dialog' = form /\ UNCHANGED << posted, events, fetching, given >> /\ dialog.kind = "event"
  BY <1>1 DEF setType, changed, here
<1>3. DOMAIN form = DOMAIN dialog /\ form.kind = dialog.kind /\ form.fields = dialog.fields
  BY <1>1
<1>4. fieldsThere(form)
  BY <1>2, <1>3 DEF DialogsInv, formSound, fieldsThere
<1>5. QED
  BY <1>2, <1>3, <1>4, InputSteps

LEMMA FillSteps ==
    ASSUME DialogsInv, NEW f, NEW v, fill(f, v)
    PROVE  DialogsInv'
<1>1. PICK F : F = put(dialog.fields, f, v)
  OBVIOUS
<1>2. PICK G : /\ G = F \/ G = [F EXCEPT !["scheduledAt"] = Now]
               /\ dialog' = [dialog EXCEPT !.fields = G]
               /\ UNCHANGED << posted, events, fetching, given >>
  BY <1>1 DEF fill, changed, here
<1>3. PICK form : form = [dialog EXCEPT !.fields = G]
  OBVIOUS
<1>4. dialog.kind \in {"event", "lot", "existing"} /\ choosable(f, v)
  BY DEF fill, inputs
<1>5. formShaped(dialog) /\ fieldsThere(dialog)
  BY DEF DialogsInv, formSound
<1>6. "fields" \in DOMAIN dialog
  BY <1>4, <1>5 DEF formShaped, EventKeys, LotKeys, ExistingKeys
<1>7. /\ DOMAIN form = DOMAIN dialog /\ form.kind = dialog.kind /\ form.fields = G
      /\ form.lines = dialog.lines /\ form.next = dialog.next
      /\ form.products = dialog.products /\ form.services = dialog.services
  BY <1>3, <1>6
<1>8. \A k : k # "scheduledAt" => text(G, k) = IF k = f THEN v ELSE text(dialog.fields, k)
  <2>1. \A k : text(F, k) = IF k = f THEN v ELSE text(dialog.fields, k)
    BY <1>1, PutText
  <2>2. \A k : k # "scheduledAt" => text(G, k) = text(F, k)
    <3>1. CASE G = F
      BY <3>1
    <3>2. CASE G = [F EXCEPT !["scheduledAt"] = Now]
      BY <3>2 DEF text
    <3>3. QED
      BY <1>2, <3>1, <3>2
  <2>3. QED
    BY <2>1, <2>2
<1>9. ASSUME dialog.kind = "event"
      PROVE  parentThere(G)
  <2>1. parentThere(dialog.fields)
    BY <1>5, <1>9 DEF fieldsThere
  <2>2. f = "parentId" => v \in DOMAIN events \cup {NoText}
    BY <1>4 DEF choosable, mepCandidates
  <2>3. text(G, "parentId") = IF "parentId" = f THEN v ELSE text(dialog.fields, "parentId")
    BY <1>8
  <2>4. QED
    BY <2>1, <2>2, <2>3 DEF parentThere
<1>10. ASSUME dialog.kind = "lot"
       PROVE  noPhase(G)
  <2>1. noPhase(dialog.fields)
    BY <1>5, <1>10 DEF fieldsThere
  <2>2. f = "changeType" => v \in {"NORMAL", "HOTFIX", "POSTMEP_SQL"}
    BY <1>4, <1>10 DEF choosable
  <2>3. text(G, "changeType") = IF "changeType" = f THEN v ELSE text(dialog.fields, "changeType")
    BY <1>8
  <2>4. QED
    BY <2>1, <2>2, <2>3 DEF noPhase, isPhase, PhaseTypes
<1>11. fieldsThere(form)
  BY <1>7, <1>9, <1>10 DEF fieldsThere
<1>12. QED
  BY <1>2, <1>3, <1>7, <1>11, InputSteps

LEMMA ChooseEnvironmentSteps ==
    ASSUME DialogsInv, NEW e, chooseEnvironment(e)
    PROVE  DialogsInv'
<1>1. formSound(dialog, fetching, given) /\ dialog.kind \in {"event", "lot", "existing"}
  BY DEF DialogsInv, chooseEnvironment
<1>2. fieldsThere(dialog)
  BY <1>1 DEF formSound
<1>3. CASE dialog.kind \in {"event", "lot"}
  <2>1. PICK form : form = [dialog EXCEPT !.environment = e]
    OBVIOUS
  <2>2. dialog' = form /\ UNCHANGED << posted, events, fetching, given >>
    BY <1>3, <2>1 DEF chooseEnvironment, changed, here
  <2>3. /\ DOMAIN form = DOMAIN dialog /\ form.kind = dialog.kind /\ form.fields = dialog.fields
        /\ form.lines = dialog.lines /\ form.next = dialog.next
        /\ form.products = dialog.products /\ form.services = dialog.services
    BY <2>1
  <2>4. fieldsThere(form)
    BY <1>2, <2>3 DEF fieldsThere
  <2>5. QED
    BY <2>2, <2>3, <2>4, InputSteps
<1>4. CASE dialog.kind = "existing"
  <2>1. PICK form : form = [dialog EXCEPT !.environment = e, !.cands = {}, !.sel = {}]
    OBVIOUS
  <2>2. PICK Q : /\ dialog' = form /\ fetching' = fetching \cup Q
                 /\ UNCHANGED << posted, events, given >>
                 /\ \A f \in Q : f.what = "candidates"
    <3>1. PICK q : q = [what |-> "candidates", line |-> 0, path |-> << e >>]
      OBVIOUS
    <3>2. q.what = "candidates"
      BY <3>1
    <3>3. fetching' = fetching \cup IF e = NoText THEN {} ELSE {q}
      BY <1>4, <3>1 DEF chooseEnvironment
    <3>4. dialog' = form /\ UNCHANGED << posted, events, given >>
      BY <1>4, <2>1 DEF chooseEnvironment, here
    <3>5. PICK Q : Q = IF e = NoText THEN {} ELSE {q}
      OBVIOUS
    <3>6. \A f \in Q : f.what = "candidates"
      BY <3>2, <3>5
    <3>7. QED
      BY <3>3, <3>4, <3>5, <3>6
  <2>3. DOMAIN form = DOMAIN dialog /\ form.kind = "existing"
    BY <1>4, <2>1
  <2>4. formShaped(form)
    BY <1>1, <1>4, <2>3 DEF formSound, formShaped
  <2>5. linesAnswered(form, given') /\ fieldsThere(form)
    BY <2>3 DEF linesAnswered, fieldsThere
  <2>6. waits(form, fetching', given')
    <3>1. \A f \in fetching' : f.what \in ofForms
      BY <1>1, <1>4, <2>2 DEF formSound, waits, ofForms
    <3>2. QED
      BY <2>3, <3>1 DEF waits
  <2>7. QED
    BY <2>2, <2>4, <2>5, <2>6, FormSteps DEF formSound
<1>5. QED
  BY <1>1, <1>3, <1>4

LEMMA ToggleSteps ==
    ASSUME DialogsInv, NEW i, toggle(i)
    PROVE  DialogsInv'
<1>1. PICK S : dialog' = [dialog EXCEPT !.sel = S] /\ UNCHANGED << posted, events, fetching, given >>
  BY DEF toggle, changed, here
<1>2. PICK form : form = [dialog EXCEPT !.sel = S]
  OBVIOUS
<1>3. DOMAIN form = DOMAIN dialog /\ form.kind = dialog.kind /\ dialog.kind = "existing"
  BY <1>2 DEF toggle
<1>4. fieldsThere(form)
  BY <1>3 DEF fieldsThere
<1>5. QED
  BY <1>1, <1>2, <1>3, <1>4, InputSteps

-------------------------------------------------------------------------------
(***************************************************************************)
(* Lines.                                                                  *)
(***************************************************************************)
\* A list of a line is emptied, or is one its line asked for; the others stay.
LEMMA ProductsPut ==
    ASSUME NEW L, NEW G, NEW H, productsAnswer(L, G), G \subseteq H, NEW id, NEW S,
           S = {} \/ \E c : << id, c >> \in H /\ S = productsOf(<< c >>)
    PROVE  productsAnswer(put(L, id, S), H)
<1>1. PICK N : N = put(L, id, S)
  OBVIOUS
<1>2. DOMAIN N = DOMAIN L \cup {id} /\ N[id] = S /\ \A k \in DOMAIN L \ {id} : N[k] = L[k]
  <2>2. DOMAIN put(L, id, S) = DOMAIN L \cup {id}
    BY DEF put, onto
  <2>3. put(L, id, S)[id] = S
    BY DEF put, onto
  <2>4. \A k \in DOMAIN L \ {id} : put(L, id, S)[k] = L[k]
    BY DEF put, onto
  <2>5. QED
    BY <1>1, <2>2, <2>3, <2>4
<1>3. ASSUME NEW k \in DOMAIN N
      PROVE  N[k] = {} \/ \E c : << k, c >> \in H /\ N[k] = productsOf(<< c >>)
  <2>1. CASE k = id
    BY <1>2, <2>1
  <2>2. CASE k # id
    <3>1. k \in DOMAIN L /\ N[k] = L[k]
      BY <1>2, <2>2
    <3>2. QED
      BY <3>1 DEF productsAnswer
  <2>3. QED
    BY <2>1, <2>2
<1>4. QED
  BY <1>1, <1>3 DEF productsAnswer

LEMMA ServicesPut ==
    ASSUME NEW L, NEW G, NEW H, servicesAnswer(L, G), G \subseteq H, NEW id, NEW S,
           S = {} \/ \E c, p : << id, c, p >> \in H /\ S = servicesOf(<< c, p >>)
    PROVE  servicesAnswer(put(L, id, S), H)
<1>1. PICK N : N = put(L, id, S)
  OBVIOUS
<1>2. DOMAIN N = DOMAIN L \cup {id} /\ N[id] = S /\ \A k \in DOMAIN L \ {id} : N[k] = L[k]
  <2>2. DOMAIN put(L, id, S) = DOMAIN L \cup {id}
    BY DEF put, onto
  <2>3. put(L, id, S)[id] = S
    BY DEF put, onto
  <2>4. \A k \in DOMAIN L \ {id} : put(L, id, S)[k] = L[k]
    BY DEF put, onto
  <2>5. QED
    BY <1>1, <2>2, <2>3, <2>4
<1>3. ASSUME NEW k \in DOMAIN N
      PROVE  N[k] = {} \/ \E c, p : << k, c, p >> \in H /\ N[k] = servicesOf(<< c, p >>)
  <2>1. CASE k = id
    BY <1>2, <2>1
  <2>2. CASE k # id
    <3>1. k \in DOMAIN L /\ N[k] = L[k]
      BY <1>2, <2>2
    <3>2. QED
      BY <3>1 DEF servicesAnswer
  <2>3. QED
    BY <2>1, <2>2
<1>4. QED
  BY <1>1, <1>3 DEF servicesAnswer

LEMMA ListsGo ==
    ASSUME NEW L, NEW G, NEW id
    PROVE  /\ productsAnswer(L, G) => productsAnswer(without(L, id), G)
           /\ servicesAnswer(L, G) => servicesAnswer(without(L, id), G)
<1>1. PICK N : N = without(L, id)
  OBVIOUS
<1>2. DOMAIN N = DOMAIN L \ {id} /\ \A k \in DOMAIN N : N[k] = L[k]
  BY <1>1 DEF without
<1>3. QED
  BY <1>1, <1>2 DEF productsAnswer, servicesAnswer

\* More choices are known: what was asked and answered still is.
LEMMA MoreGiven ==
    ASSUME NEW G, NEW H, G \subseteq H
    PROVE  /\ \A L : productsAnswer(L, G) => productsAnswer(L, H)
           /\ \A L : servicesAnswer(L, G) => servicesAnswer(L, H)
           /\ \A form, sought : waits(form, sought, G) => waits(form, sought, H)
<1>1. \A L : productsAnswer(L, G) => productsAnswer(L, H)
  BY DEF productsAnswer
<1>2. \A L : servicesAnswer(L, G) => servicesAnswer(L, H)
  BY DEF servicesAnswer
<1>3. \A f : (productsAsked(f, G) => productsAsked(f, H)) /\ (servicesAsked(f, G) => servicesAsked(f, H))
  BY DEF productsAsked, servicesAsked
<1>4. \A form, sought : waits(form, sought, G) => waits(form, sought, H)
  BY <1>3 DEF waits
<1>5. QED
  BY <1>1, <1>2, <1>4

\* A sequence is one of what it has.
LEMMA OfItsOwn ==
    ASSUME NEW S, NEW s \in Seq(S)
    PROVE  /\ Len(s) \in Nat /\ DOMAIN s = 1..Len(s)
           /\ s \in Seq({s[k] : k \in DOMAIN s})
<1>1. Len(s) \in Nat /\ DOMAIN s = 1..Len(s)
  OBVIOUS
<1>2. PICK T : T = {s[k] : k \in DOMAIN s}
  OBVIOUS
<1>3. s \in [1..Len(s) -> T]
  <2>1. s = [k \in 1..Len(s) |-> s[k]]
    OBVIOUS
  <2>2. \A k \in 1..Len(s) : s[k] \in T
    BY <1>1, <1>2
  <2>3. QED
    BY <2>1, <2>2
<1>4. s \in Seq(T)
  BY <1>1, <1>3
<1>5. QED
  BY <1>1, <1>2, <1>4

LEMMA SeqEdited ==
    ASSUME NEW S, NEW s \in Seq(S), NEW k \in DOMAIN s, NEW x
    PROVE  [s EXCEPT ![k] = x] \in Seq(S \cup {x})
<1>1. Len(s) \in Nat /\ DOMAIN s = 1..Len(s)
  OBVIOUS
<1>2. s \in [1..Len(s) -> S]
  OBVIOUS
<1>3. [s EXCEPT ![k] = x] \in [1..Len(s) -> S \cup {x}]
  BY <1>1, <1>2
<1>4. QED
  BY <1>1, <1>3

LEMMA LineEdited ==
    ASSUME NEW lines, NEW last, numbered(lines, last), NEW k \in DOMAIN lines, NEW l,
           DOMAIN l = LineKeys, l.id = lines[k].id
    PROVE  numbered([lines EXCEPT ![k] = l], last)
<1>1. PICK N : N = [lines EXCEPT ![k] = l]
  OBVIOUS
<1>2. N \in Seq({lines[j] : j \in DOMAIN lines} \cup {l})
  BY <1>1, SeqEdited DEF numbered
<1>3. Len(N) \in Nat /\ DOMAIN N = 1..Len(N) /\ N \in Seq({N[j] : j \in DOMAIN N})
  BY <1>2, OfItsOwn
<1>4. DOMAIN N = DOMAIN lines /\ N[k] = l /\ \A j \in DOMAIN lines \ {k} : N[j] = lines[j]
  BY <1>1
<1>5. \A j \in DOMAIN N : DOMAIN N[j] = LineKeys /\ N[j].id = lines[j].id
  <2> SUFFICES ASSUME NEW j \in DOMAIN N
               PROVE  DOMAIN N[j] = LineKeys /\ N[j].id = lines[j].id
    OBVIOUS
  <2>1. CASE j = k
    BY <1>4, <2>1
  <2>2. CASE j # k
    BY <1>4, <2>2 DEF numbered
  <2>3. QED
    BY <2>1, <2>2
<1>6. numbered(N, last)
  BY <1>3, <1>4, <1>5 DEF numbered
<1>7. QED
  BY <1>1, <1>6

LEMMA LineAdded ==
    ASSUME NEW lines, NEW last, numbered(lines, last)
    PROVE  numbered(Append(lines, emptyItem(last)), last + 1)
<1>1. PICK l : l = emptyItem(last)
  OBVIOUS
<1>2. DOMAIN l = LineKeys /\ l.id = last
  BY <1>1, EmptyItemIs
<1>3. PICK N : N = Append(lines, l)
  OBVIOUS
<1>4. PICK T : T = {lines[j] : j \in DOMAIN lines}
  OBVIOUS
<1>5. lines \in Seq(T) /\ Len(lines) \in Nat /\ DOMAIN lines = 1..Len(lines) /\ last \in Nat \ {0}
  BY <1>4 DEF numbered
<1>6. /\ N \in Seq(T \cup {l}) /\ Len(N) = Len(lines) + 1
      /\ \A j \in 1..Len(lines) : N[j] = lines[j]
      /\ N[Len(lines) + 1] = l
  BY <1>3, <1>5
<1>7. Len(N) \in Nat /\ DOMAIN N = 1..Len(N) /\ N \in Seq({N[j] : j \in DOMAIN N})
  BY <1>6, OfItsOwn
<1>8. PICK n : n = Len(lines)
  OBVIOUS
<1>9. DOMAIN N = DOMAIN lines \cup {n + 1} /\ N[n + 1] = l /\ \A j \in DOMAIN lines : N[j] = lines[j]
  BY <1>5, <1>6, <1>7, <1>8
<1>10. \A j \in DOMAIN lines : DOMAIN lines[j] = LineKeys /\ lines[j].id \in 1..(last - 1)
  BY DEF numbered
<1>11. \A j \in DOMAIN N : DOMAIN N[j] = LineKeys /\ N[j].id \in 1..last
  <2> SUFFICES ASSUME NEW j \in DOMAIN N
               PROVE  DOMAIN N[j] = LineKeys /\ N[j].id \in 1..last
    OBVIOUS
  <2>1. CASE j \in DOMAIN lines
    <3>1. N[j] = lines[j] /\ DOMAIN lines[j] = LineKeys /\ lines[j].id \in 1..(last - 1)
      BY <1>9, <1>10, <2>1
    <3>2. QED
      BY <1>5, <3>1
  <2>2. CASE j = n + 1
    BY <1>2, <1>5, <1>9, <2>2
  <2>3. QED
    BY <1>9, <2>1, <2>2
<1>12. \A i, j \in DOMAIN N : N[i].id = N[j].id => i = j
  <2> SUFFICES ASSUME NEW i \in DOMAIN N, NEW j \in DOMAIN N, N[i].id = N[j].id
               PROVE  i = j
    OBVIOUS
  <2>1. \A h \in DOMAIN lines : N[h].id \in 1..(last - 1) /\ N[h].id # last
    BY <1>5, <1>9, <1>10
  <2>2. N[n + 1].id = last
    BY <1>2, <1>9
  <2>3. CASE i \in DOMAIN lines /\ j \in DOMAIN lines
    BY <1>9, <2>3 DEF numbered
  <2>4. CASE i \in DOMAIN lines /\ j = n + 1
    BY <2>1, <2>2, <2>4
  <2>5. CASE i = n + 1 /\ j \in DOMAIN lines
    BY <2>1, <2>2, <2>5
  <2>6. QED
    BY <1>9, <2>3, <2>4, <2>5
<1>13. last + 1 \in Nat \ {0} /\ last + 1 - 1 = last
  BY <1>5
<1>14. numbered(N, last + 1)
  BY <1>7, <1>11, <1>12, <1>13 DEF numbered
<1>15. QED
  BY <1>1, <1>3, <1>14

LEMMA Joined ==
    ASSUME NEW T, NEW b \in Seq(T), NEW a \in Seq(T)
    PROVE  /\ b \o a \in Seq(T)
           /\ Len(b) \in Nat /\ Len(a) \in Nat /\ Len(b \o a) = Len(b) + Len(a)
           /\ \A j \in 1..Len(b) : (b \o a)[j] = b[j]
           /\ \A j \in 1..Len(a) : (b \o a)[Len(b) + j] = a[j]
OBVIOUS

\* A choice is kept with the line it was made in.
LEMMA LineAndPath ==
    ASSUME NEW id, NEW path, NEW P, path \in Seq(P)
    PROVE  /\ << id >> \o path \in Seq(P \cup {id})
           /\ Len(<< id >> \o path) = Len(path) + 1
           /\ (<< id >> \o path)[1] = id
           /\ \A j \in 1..Len(path) : (<< id >> \o path)[j + 1] = path[j]
<1>1. PICK T, s : T = P \cup {id} /\ s = << id >>
  OBVIOUS
<1>2. s \in Seq(T)
  BY <1>1
<1>3. path \in Seq(T)
  BY <1>1
<1>4. s \o path \in Seq(T) /\ Len(path) \in Nat /\ Len(s \o path) = Len(s) + Len(path)
  BY <1>2, <1>3
<1>5. \A j \in 1..Len(s) : (s \o path)[j] = s[j]
  BY <1>2, <1>3
<1>6. \A j \in 1..Len(path) : (s \o path)[Len(s) + j] = path[j]
  BY <1>2, <1>3
<1>7. Len(s) = 1 /\ s[1] = id
  BY <1>1
<1>8. Len(s \o path) = Len(path) + 1 /\ (s \o path)[1] = id
  BY <1>4, <1>5, <1>7
<1>9. \A j \in 1..Len(path) : (s \o path)[j + 1] = path[j]
  BY <1>4, <1>6, <1>7
<1>10. QED
  BY <1>1, <1>4, <1>8, <1>9

LEMMA CompanyChosen ==
    ASSUME NEW id, NEW c
    PROVE  << id >> \o << c >> = << id, c >>
<1>1. PICK S : S = {id, c}
  OBVIOUS
<1>2. PICK t, u, r : t = << c >> /\ u = << id, c >> /\ r = << id >> \o t
  OBVIOUS
<1>3. t \in Seq({c}) /\ u \in Seq(S) /\ Len(t) = 1 /\ Len(u) = 2 /\ t[1] = c /\ u[1] = id /\ u[2] = c
  BY <1>1, <1>2
<1>4. r \in Seq({c} \cup {id}) /\ Len(r) = 2 /\ r[1] = id /\ \A j \in 1..Len(t) : r[j + 1] = t[j]
  BY <1>2, <1>3, LineAndPath
<1>5. r[2] = c /\ r \in Seq(S)
  BY <1>1, <1>3, <1>4
<1>6. r = u
  BY <1>3, <1>4, <1>5
<1>7. QED
  BY <1>2, <1>6

LEMMA ProductChosen ==
    ASSUME NEW id, NEW c, NEW p
    PROVE  << id >> \o << c, p >> = << id, c, p >>
<1>1. PICK S : S = {id, c, p}
  OBVIOUS
<1>2. PICK t, u, r : t = << c, p >> /\ u = << id, c, p >> /\ r = << id >> \o t
  OBVIOUS
<1>3. t \in Seq({c, p}) /\ u \in Seq(S) /\ Len(t) = 2 /\ Len(u) = 3 /\ t[1] = c /\ t[2] = p /\ u[1] = id /\ u[2] = c /\ u[3] = p
  BY <1>1, <1>2
<1>4. r \in Seq({c, p} \cup {id}) /\ Len(r) = 3 /\ r[1] = id /\ \A j \in 1..Len(t) : r[j + 1] = t[j]
  BY <1>2, <1>3, LineAndPath
<1>5. r[2] = c /\ r[3] = p /\ r \in Seq(S)
  BY <1>1, <1>3, <1>4
<1>6. r = u
  BY <1>3, <1>4, <1>5
<1>7. QED
  BY <1>2, <1>6

LEMMA LineRemoved ==
    ASSUME NEW lines, NEW last, numbered(lines, last), NEW k \in DOMAIN lines
    PROVE  numbered(RemoveAt(lines, k), last)
<1>1. PICK N : N = RemoveAt(lines, k)
  OBVIOUS
<1>2. PICK T : T = {lines[j] : j \in DOMAIN lines}
  OBVIOUS
<1>3. lines \in Seq(T) /\ Len(lines) \in Nat /\ DOMAIN lines = 1..Len(lines)
  BY <1>2 DEF numbered
<1>4. k \in 1..Len(lines)
  BY <1>3
<1>5. PICK B, A : B = SubSeq(lines, 1, k - 1) /\ A = SubSeq(lines, k + 1, Len(lines))
  OBVIOUS
<1>6. B \in Seq(T) /\ Len(B) = k - 1 /\ \A j \in 1..(k - 1) : B[j] = lines[j]
  BY <1>3, <1>4, <1>5
<1>7. A \in Seq(T) /\ Len(A) = Len(lines) - k /\ \A j \in 1..(Len(lines) - k) : A[j] = lines[k + j]
  BY <1>3, <1>4, <1>5
<1>8. N = B \o A
  BY <1>1, <1>5 DEF RemoveAt
<1>9. N \in Seq(T) /\ Len(N) = Len(lines) - 1
  <2>1. N \in Seq(T) /\ Len(N) = Len(B) + Len(A)
    BY <1>6, <1>7, <1>8, Joined
  <2>2. QED
    BY <1>3, <1>4, <1>6, <1>7, <2>1
<1>10. Len(N) \in Nat /\ DOMAIN N = 1..Len(N) /\ N \in Seq({N[j] : j \in DOMAIN N})
  BY <1>9, OfItsOwn
<1>11. \A j \in DOMAIN N : N[j] = IF j < k THEN lines[j] ELSE lines[j + 1]
  <2> SUFFICES ASSUME NEW j \in DOMAIN N
               PROVE  N[j] = IF j < k THEN lines[j] ELSE lines[j + 1]
    OBVIOUS
  <2>1. /\ \A h \in 1..Len(B) : N[h] = B[h]
        /\ \A h \in 1..Len(A) : N[Len(B) + h] = A[h]
    <3>1. \A h \in 1..Len(B) : (B \o A)[h] = B[h]
      BY <1>6, <1>7
    <3>2. \A h \in 1..Len(A) : (B \o A)[Len(B) + h] = A[h]
      BY <1>6, <1>7
    <3>3. QED
      BY <1>8, <3>1, <3>2
  <2>2. PICK n \in Nat : n = Len(lines)
    BY <1>3
  <2>3. k \in 1..n /\ j \in 1..(n - 1)
    BY <1>4, <1>9, <1>10, <2>2
  <2>4. CASE j < k
    <3>1. j \in 1..(k - 1) /\ j \in 1..Len(B)
      BY <1>6, <2>3, <2>4
    <3>2. N[j] = B[j] /\ B[j] = lines[j]
      BY <1>6, <2>1, <3>1
    <3>3. QED
      BY <2>4, <3>2
  <2>5. CASE ~ (j < k)
    <3>1. PICK h \in Int : h = j - (k - 1)
      BY <2>3
    <3>2. h \in 1..(n - k) /\ Len(B) + h = j /\ k + h = j + 1
      BY <1>6, <2>3, <2>5, <3>1
    <3>3. h \in 1..Len(A) /\ A[h] = lines[k + h]
      BY <1>7, <2>2, <3>2
    <3>4. N[Len(B) + h] = A[h]
      BY <2>1, <3>3
    <3>5. N[j] = lines[j + 1]
      BY <3>2, <3>3, <3>4
    <3>6. QED
      BY <2>5, <3>5
  <2>6. QED
    BY <2>4, <2>5
<1>12. \A j \in DOMAIN N : j \in Nat /\ j \in DOMAIN lines /\ j + 1 \in DOMAIN lines
  BY <1>3, <1>9, <1>10
<1>13. \A j \in DOMAIN N : \E h \in DOMAIN lines : N[j] = lines[h] /\ h = IF j < k THEN j ELSE j + 1
  BY <1>11, <1>12
<1>14. \A j \in DOMAIN N : DOMAIN N[j] = LineKeys /\ N[j].id \in 1..(last - 1)
  BY <1>13 DEF numbered
<1>15. \A i, j \in DOMAIN N : N[i].id = N[j].id => i = j
  <2> SUFFICES ASSUME NEW i \in DOMAIN N, NEW j \in DOMAIN N, N[i].id = N[j].id
               PROVE  i = j
    OBVIOUS
  <2>1. PICK g \in DOMAIN lines : N[i] = lines[g] /\ g = IF i < k THEN i ELSE i + 1
    BY <1>13
  <2>2. PICK h \in DOMAIN lines : N[j] = lines[h] /\ h = IF j < k THEN j ELSE j + 1
    BY <1>13
  <2>3. g = h
    BY <2>1, <2>2 DEF numbered
  <2>4. i \in Nat /\ j \in Nat /\ k \in Nat
    BY <1>4, <1>12
  <2>5. QED
    BY <2>1, <2>2, <2>3, <2>4
<1>16. last \in Nat \ {0}
  BY DEF numbered
<1>17. numbered(N, last)
  BY <1>10, <1>14, <1>15, <1>16 DEF numbered
<1>18. QED
  BY <1>1, <1>17

\* A form for a lot whose lines, and lists, are as they should be is sound.
LEMMA LineSteps ==
    ASSUME DialogsInv, NEW form, dialog' = form, UNCHANGED << posted, events >>, dialog.kind = "lot",
           form.kind = "lot", DOMAIN form = DOMAIN dialog, form.fields = dialog.fields,
           numbered(form.lines, form.next),
           productsAnswer(form.products, given'), servicesAnswer(form.services, given'),
           given \subseteq given',
           \A f \in fetching' : f \in fetching \/ productsAsked(f, given') \/ servicesAsked(f, given')
    PROVE  DialogsInv'
<1>1. formSound(dialog, fetching, given)
  BY DEF DialogsInv
<1>2. formShaped(form) /\ fieldsThere(form)
  BY <1>1 DEF formSound, formShaped, fieldsThere
<1>3. linesAnswered(form, given')
  BY DEF linesAnswered
<1>4. waits(dialog, fetching, given')
  BY <1>1, MoreGiven DEF formSound
<1>5. waits(form, fetching', given')
  BY <1>4 DEF waits
<1>6. QED
  BY <1>2, <1>3, <1>5, FormSteps DEF formSound

LEMMA LotIs ==
    ASSUME DialogsInv, dialog.kind = "lot"
    PROVE  /\ DOMAIN dialog = LotKeys
           /\ numbered(dialog.lines, dialog.next)
           /\ productsAnswer(dialog.products, given)
           /\ servicesAnswer(dialog.services, given)
           /\ \A k \in DOMAIN dialog.lines : DOMAIN dialog.lines[k] = LineKeys
BY DEF DialogsInv, formSound, formShaped, linesAnswered, numbered

LEMMA AddRowSteps ==
    ASSUME DialogsInv, addRow
    PROVE  DialogsInv'
<1>1. PICK L, n : L = Append(dialog.lines, emptyItem(dialog.next)) /\ n = dialog.next + 1
  OBVIOUS
<1>2. PICK form : form = [dialog EXCEPT !.lines = L, !.next = n]
  OBVIOUS
<1>3. dialog.kind = "lot" /\ dialog' = form /\ UNCHANGED << posted, events, fetching, given >>
  BY <1>1, <1>2 DEF addRow, changed, here
<1>4. DOMAIN dialog = LotKeys
  BY <1>3, LotIs
<1>5. /\ DOMAIN form = DOMAIN dialog /\ form.kind = "lot" /\ form.fields = dialog.fields
      /\ form.lines = L /\ form.next = n
      /\ form.products = dialog.products /\ form.services = dialog.services
  BY <1>2, <1>3, <1>4 DEF LotKeys
<1>6. numbered(L, n)
  BY <1>1, <1>3, LotIs, LineAdded
<1>7. productsAnswer(form.products, given') /\ servicesAnswer(form.services, given')
  BY <1>3, <1>5, LotIs
<1>8. QED
  BY <1>3, <1>5, <1>6, <1>7, LineSteps

LEMMA RemoveRowSteps ==
    ASSUME DialogsInv, NEW k, removeRow(k)
    PROVE  DialogsInv'
<1>1. PICK L, P, S : /\ L = RemoveAt(dialog.lines, k)
                     /\ P = without(dialog.products, at(k)) /\ S = without(dialog.services, at(k))
  OBVIOUS
<1>2. PICK form : form = [dialog EXCEPT !.lines = L, !.products = P, !.services = S]
  OBVIOUS
<1>3. /\ dialog.kind = "lot" /\ k \in DOMAIN dialog.lines
      /\ dialog' = form /\ UNCHANGED << posted, events, fetching, given >>
  BY <1>1, <1>2 DEF removeRow, line, changed, here
<1>4. DOMAIN dialog = LotKeys
  BY <1>3, LotIs
<1>5. /\ DOMAIN form = DOMAIN dialog /\ form.kind = "lot" /\ form.fields = dialog.fields
      /\ form.lines = L /\ form.next = dialog.next /\ form.products = P /\ form.services = S
  BY <1>2, <1>3, <1>4 DEF LotKeys
<1>6. numbered(form.lines, form.next)
  BY <1>1, <1>3, <1>5, LotIs, LineRemoved
<1>7. productsAnswer(form.products, given') /\ servicesAnswer(form.services, given')
  BY <1>1, <1>3, <1>5, LotIs, ListsGo
<1>8. QED
  BY <1>3, <1>5, <1>6, <1>7, LineSteps

\* An edited line is still that line.
LEMMA LineKept ==
    ASSUME DialogsInv, dialog.kind = "lot", NEW k \in DOMAIN dialog.lines, NEW l,
           DOMAIN l = DOMAIN dialog.lines[k], l.id = at(k)
    PROVE  numbered([dialog.lines EXCEPT ![k] = l], dialog.next)
<1>1. numbered(dialog.lines, dialog.next) /\ DOMAIN dialog.lines[k] = LineKeys
  BY LotIs
<1>2. DOMAIN l = LineKeys /\ l.id = dialog.lines[k].id
  BY <1>1 DEF at
<1>3. QED
  BY <1>1, <1>2, LineEdited

LEMMA CompanySteps ==
    ASSUME DialogsInv, NEW k, NEW c, onCompanyChange(k, c)
    PROVE  DialogsInv'
<1>1. /\ dialog.kind = "lot" /\ k \in DOMAIN dialog.lines /\ UNCHANGED << posted, events >>
  BY DEF onCompanyChange, line, here
<1>2. DOMAIN dialog = LotKeys /\ DOMAIN dialog.lines[k] = LineKeys
  BY <1>1, LotIs
<1>3. PICK l : l = [dialog.lines[k] EXCEPT !.company = c, !.product = NoText, !.service = NoText]
  OBVIOUS
<1>4. PICK L, P, S : /\ L = [dialog.lines EXCEPT ![k] = l]
                     /\ P = put(dialog.products, at(k), {}) /\ S = put(dialog.services, at(k), {})
  OBVIOUS
<1>5. PICK form : form = [dialog EXCEPT !.lines = L, !.products = P, !.services = S]
  OBVIOUS
<1>6. dialog' = form
  BY <1>3, <1>4, <1>5 DEF onCompanyChange, here
<1>7. /\ DOMAIN form = DOMAIN dialog /\ form.kind = "lot" /\ form.fields = dialog.fields
      /\ form.lines = L /\ form.next = dialog.next /\ form.products = P /\ form.services = S
  BY <1>1, <1>2, <1>5 DEF LotKeys
<1>8. PICK f, g : /\ f = [what |-> "products", line |-> at(k), path |-> << c >>]
                  /\ g = << at(k), c >>
  OBVIOUS
<1>9. fetching' = fetching \cup {f} /\ given' = given \cup {g}
  <2>1. << at(k) >> \o << c >> = << at(k), c >>
    BY CompanyChosen
  <2>2. QED
    BY <1>8, <2>1 DEF onCompanyChange, fetch
<1>10. productsAsked(f, given')
  BY <1>8, <1>9 DEF productsAsked
<1>11. numbered(form.lines, form.next)
  <2>1. DOMAIN l = DOMAIN dialog.lines[k] /\ l.id = at(k)
    BY <1>3 DEF at
  <2>2. QED
    BY <1>1, <1>4, <1>7, <2>1, LineKept
<1>12. given \subseteq given'
  BY <1>9
<1>13. productsAnswer(form.products, given')
  <2>1. productsAnswer(dialog.products, given)
    BY <1>1, LotIs
  <2>2. QED
    BY <1>4, <1>7, <1>12, <2>1, ProductsPut
<1>14. servicesAnswer(form.services, given')
  <2>1. servicesAnswer(dialog.services, given)
    BY <1>1, LotIs
  <2>2. QED
    BY <1>4, <1>7, <1>12, <2>1, ServicesPut
<1>15. \A q \in fetching' : q \in fetching \/ productsAsked(q, given') \/ servicesAsked(q, given')
  BY <1>9, <1>10
<1>16. QED
  BY <1>1, <1>6, <1>7, <1>11, <1>12, <1>13, <1>14, <1>15, LineSteps

LEMMA ProductSteps ==
    ASSUME DialogsInv, NEW k, NEW p, onProductChange(k, p)
    PROVE  DialogsInv'
<1>1. /\ dialog.kind = "lot" /\ k \in DOMAIN dialog.lines /\ UNCHANGED << posted, events >>
  BY DEF onProductChange, line, here
<1>2. DOMAIN dialog = LotKeys /\ DOMAIN dialog.lines[k] = LineKeys
  BY <1>1, LotIs
<1>3. PICK l : l = [dialog.lines[k] EXCEPT !.product = p, !.service = NoText]
  OBVIOUS
<1>4. PICK L, S : L = [dialog.lines EXCEPT ![k] = l] /\ S = put(dialog.services, at(k), {})
  OBVIOUS
<1>5. PICK form : form = [dialog EXCEPT !.lines = L, !.services = S]
  OBVIOUS
<1>6. dialog' = form
  BY <1>3, <1>4, <1>5 DEF onProductChange, here
<1>7. /\ DOMAIN form = DOMAIN dialog /\ form.kind = "lot" /\ form.fields = dialog.fields
      /\ form.lines = L /\ form.next = dialog.next
      /\ form.products = dialog.products /\ form.services = S
  BY <1>1, <1>2, <1>5 DEF LotKeys
<1>8. PICK c, f, g : /\ c = dialog.lines[k].company
                     /\ f = [what |-> "services", line |-> at(k), path |-> << c, p >>]
                     /\ g = << at(k), c, p >>
  OBVIOUS
<1>9. fetching' = fetching \cup {f} /\ given' = given \cup {g}
  <2>1. << at(k) >> \o << c, p >> = << at(k), c, p >>
    BY ProductChosen
  <2>2. QED
    BY <1>8, <2>1 DEF onProductChange, fetch
<1>10. servicesAsked(f, given')
  BY <1>8, <1>9 DEF servicesAsked
<1>11. numbered(form.lines, form.next)
  <2>1. DOMAIN l = DOMAIN dialog.lines[k] /\ l.id = at(k)
    BY <1>3 DEF at
  <2>2. QED
    BY <1>1, <1>4, <1>7, <2>1, LineKept
<1>12. given \subseteq given'
  BY <1>9
<1>13. productsAnswer(form.products, given')
  <2>1. productsAnswer(dialog.products, given)
    BY <1>1, LotIs
  <2>2. QED
    BY <1>7, <1>12, <2>1, MoreGiven
<1>14. servicesAnswer(form.services, given')
  <2>1. servicesAnswer(dialog.services, given)
    BY <1>1, LotIs
  <2>2. QED
    BY <1>4, <1>7, <1>12, <2>1, ServicesPut
<1>15. \A q \in fetching' : q \in fetching \/ productsAsked(q, given') \/ servicesAsked(q, given')
  BY <1>9, <1>10
<1>16. QED
  BY <1>1, <1>6, <1>7, <1>11, <1>12, <1>13, <1>14, <1>15, LineSteps

\* The service and the version of a line ask nothing.
LEMMA LastSteps ==
    ASSUME DialogsInv, NEW k, NEW l, line(k), DOMAIN l = DOMAIN dialog.lines[k], l.id = at(k),
           changed([dialog EXCEPT !.lines[k] = l])
    PROVE  DialogsInv'
<1>1. /\ dialog.kind = "lot" /\ k \in DOMAIN dialog.lines
      /\ UNCHANGED << posted, events, fetching, given >>
  BY DEF line, changed, here
<1>2. DOMAIN dialog = LotKeys
  BY <1>1, LotIs
<1>3. PICK L : L = [dialog.lines EXCEPT ![k] = l]
  OBVIOUS
<1>4. PICK form : form = [dialog EXCEPT !.lines = L]
  OBVIOUS
<1>5. dialog' = form
  BY <1>3, <1>4 DEF changed, here
<1>6. /\ DOMAIN form = DOMAIN dialog /\ form.kind = "lot" /\ form.fields = dialog.fields
      /\ form.lines = L /\ form.next = dialog.next
      /\ form.products = dialog.products /\ form.services = dialog.services
  BY <1>1, <1>2, <1>4 DEF LotKeys
<1>7. numbered(form.lines, form.next)
  BY <1>1, <1>3, <1>6, LineKept
<1>8. productsAnswer(form.products, given') /\ servicesAnswer(form.services, given')
  BY <1>1, <1>6, LotIs
<1>9. QED
  BY <1>1, <1>5, <1>6, <1>7, <1>8, LineSteps

LEMMA ServiceSteps ==
    ASSUME DialogsInv, NEW k, NEW s, setService(k, s)
    PROVE  DialogsInv'
<1>1. PICK l : l = [dialog.lines[k] EXCEPT !.service = s]
  OBVIOUS
<1>2. line(k) /\ changed([dialog EXCEPT !.lines[k] = l])
  BY <1>1 DEF setService
<1>3. DOMAIN l = DOMAIN dialog.lines[k] /\ l.id = at(k)
  BY <1>1 DEF at
<1>4. QED
  BY <1>2, <1>3, LastSteps

LEMMA VersionSteps ==
    ASSUME DialogsInv, NEW k, NEW v, setVersion(k, v)
    PROVE  DialogsInv'
<1>1. PICK l : l = [dialog.lines[k] EXCEPT !.version = v]
  OBVIOUS
<1>2. line(k) /\ changed([dialog EXCEPT !.lines[k] = l])
  BY <1>1 DEF setVersion
<1>3. DOMAIN l = DOMAIN dialog.lines[k] /\ l.id = at(k)
  BY <1>1 DEF at
<1>4. QED
  BY <1>2, <1>3, LastSteps

-------------------------------------------------------------------------------
(***************************************************************************)
(* Answers.                                                                *)
(***************************************************************************)
\* A form for a lot that got its environments, its user or its companies has the lines it had.
LEMMA LandedSteps ==
    ASSUME DialogsInv, NEW f \in fetching, NEW form, dialog' = form, UNCHANGED << posted, events, given >>,
           fetching' = fetching \ {f},
           form.kind = dialog.kind, DOMAIN form = DOMAIN dialog,
           form.kind = "lot" => /\ form.lines = dialog.lines /\ form.next = dialog.next
                                /\ form.products = dialog.products /\ form.services = dialog.services,
           fieldsThere(form)
    PROVE  DialogsInv'
<1>1. formSound(dialog, fetching, given)
  BY DEF DialogsInv
<1>2. formShaped(form)
  BY <1>1 DEF formSound, formShaped
<1>3. linesAnswered(form, given)
  BY <1>1 DEF formSound, linesAnswered
<1>4. waits(form, fetching', given)
  BY <1>1 DEF formSound, waits
<1>5. QED
  BY <1>2, <1>3, <1>4, FormSteps DEF formSound

\* The user's name is put under a key that says nothing of parents and types.
LEMMA RequesterSound ==
    ASSUME NEW form, fieldsThere(form), formShaped(form)
    PROVE  /\ fieldsThere(withRequester(form))
           /\ withRequester(form).kind = form.kind /\ DOMAIN withRequester(form) = DOMAIN form
           /\ withRequester(form).lines = form.lines /\ withRequester(form).next = form.next
           /\ withRequester(form).products = form.products /\ withRequester(form).services = form.services
<1>1. PICK F : F = put(form.fields, "requester", User)
  OBVIOUS
<1>2. PICK new : new = [form EXCEPT !.fields = F]
  OBVIOUS
<1>3. withRequester(form) = form \/ withRequester(form) = new
  BY <1>1, <1>2 DEF withRequester
<1>4. /\ new.kind = form.kind /\ DOMAIN new = DOMAIN form
      /\ new.lines = form.lines /\ new.next = form.next
      /\ new.products = form.products /\ new.services = form.services
  BY <1>2
<1>5. form.kind \in {"event", "lot"} => new.fields = F
  BY <1>2 DEF formShaped, EventKeys, LotKeys
<1>6. text(F, "parentId") = text(form.fields, "parentId") /\ text(F, "changeType") = text(form.fields, "changeType")
  BY <1>1, PutText
<1>7. fieldsThere(new)
  BY <1>4, <1>5, <1>6 DEF fieldsThere, parentThere, noPhase
<1>8. QED
  BY <1>3, <1>4, <1>7

LEMMA EnvironmentsSound ==
    ASSUME NEW form, fieldsThere(form)
    PROVE  /\ fieldsThere(withEnvironments(form))
           /\ withEnvironments(form).kind = form.kind /\ DOMAIN withEnvironments(form) = DOMAIN form
           /\ withEnvironments(form).lines = form.lines /\ withEnvironments(form).next = form.next
           /\ withEnvironments(form).products = form.products /\ withEnvironments(form).services = form.services
<1>1. PICK O, e : withEnvironments(form) = [form EXCEPT !.envs = O, !.environment = e]
  BY DEF withEnvironments
<1>2. PICK new : new = [form EXCEPT !.envs = O, !.environment = e]
  OBVIOUS
<1>3. /\ new.kind = form.kind /\ DOMAIN new = DOMAIN form /\ new.fields = form.fields
      /\ new.lines = form.lines /\ new.next = form.next
      /\ new.products = form.products /\ new.services = form.services
  BY <1>2
<1>4. fieldsThere(new)
  BY <1>3 DEF fieldsThere
<1>5. QED
  BY <1>1, <1>2, <1>3, <1>4

LEMMA ProductsArrive ==
    ASSUME DialogsInv, NEW f \in fetching, dialog.kind = "lot", productsAsked(f, given),
           dialog' = withProducts(dialog, f), fetching' = fetching \ {f},
           UNCHANGED << posted, events, given >>
    PROVE  DialogsInv'
<1>1. DOMAIN dialog = LotKeys
  BY LotIs
<1>2. PICK P : P = put(dialog.products, f.line, productsOf(f.path))
  OBVIOUS
<1>3. PICK form : form = [dialog EXCEPT !.products = P]
  OBVIOUS
<1>4. dialog' = form
  BY <1>2, <1>3 DEF withProducts
<1>5. /\ DOMAIN form = DOMAIN dialog /\ form.kind = "lot" /\ form.fields = dialog.fields
      /\ form.lines = dialog.lines /\ form.next = dialog.next
      /\ form.products = P /\ form.services = dialog.services
  BY <1>1, <1>3 DEF LotKeys
<1>6. \E c : << f.line, c >> \in given /\ productsOf(f.path) = productsOf(<< c >>)
  BY DEF productsAsked
<1>7. productsAnswer(P, given)
  <2>1. productsAnswer(dialog.products, given)
    BY LotIs
  <2>2. QED
    BY <1>2, <1>6, <2>1, ProductsPut
<1>8. numbered(form.lines, form.next) /\ servicesAnswer(form.services, given)
  BY <1>5, LotIs
<1>9. QED
  BY <1>4, <1>5, <1>7, <1>8, LineSteps

LEMMA ServicesArrive ==
    ASSUME DialogsInv, NEW f \in fetching, dialog.kind = "lot", servicesAsked(f, given),
           dialog' = withServices(dialog, f), dialog' # Broken, fetching' = fetching \ {f},
           UNCHANGED << posted, events, given >>
    PROVE  DialogsInv'
<1>1. DOMAIN dialog = LotKeys
  BY LotIs
<1>2. PICK L : L = put(dialog.services, f.line, servicesOf(f.path))
  OBVIOUS
<1>3. PICK form : form = [dialog EXCEPT !.services = L]
  OBVIOUS
<1>4. dialog' = form \/ dialog' = dialog
  BY <1>2, <1>3 DEF withServices
<1>5. /\ DOMAIN form = DOMAIN dialog /\ form.kind = "lot" /\ form.fields = dialog.fields
      /\ form.lines = dialog.lines /\ form.next = dialog.next
      /\ form.products = dialog.products /\ form.services = L
  BY <1>1, <1>3 DEF LotKeys
<1>6. \E c, p : << f.line, c, p >> \in given /\ servicesOf(f.path) = servicesOf(<< c, p >>)
  BY DEF servicesAsked
<1>7. servicesAnswer(L, given)
  <2>1. servicesAnswer(dialog.services, given)
    BY LotIs
  <2>2. QED
    BY <1>2, <1>6, <2>1, ServicesPut
<1>8. CASE dialog' = form
  <2>1. numbered(form.lines, form.next) /\ productsAnswer(form.products, given)
    BY <1>5, LotIs
  <2>2. QED
    BY <1>5, <1>7, <1>8, <2>1, LineSteps
<1>9. CASE dialog' = dialog
  <2>1. /\ numbered(dialog.lines, dialog.next)
        /\ productsAnswer(dialog.products, given) /\ servicesAnswer(dialog.services, given)
    BY LotIs
  <2>2. QED
    BY <1>9, <2>1, LineSteps
<1>10. QED
  BY <1>4, <1>8, <1>9

\* The page is gone: nothing is awaited.
LEMMA BreakSteps ==
    ASSUME DialogsInv, dialog' = Broken, fetching' = {}, UNCHANGED << posted, events >>
    PROVE  DialogsInv'
<1>1. Broken.kind = "broken"
  BY DEF Broken
<1>2. formSound(Broken, {}, given')
  BY <1>1 DEF formSound, formShaped, linesAnswered, waits, fieldsThere
<1>3. PICK form : form = Broken
  OBVIOUS
<1>4. QED
  BY <1>2, <1>3, FormSteps

LEMMA ArriveSteps ==
    ASSUME DialogsInv, NEW f \in fetching, arrive(f)
    PROVE  DialogsInv'
<1>1. formShaped(dialog) /\ fieldsThere(dialog) /\ waits(dialog, fetching, given)
  BY DEF DialogsInv, formSound
<1>2. dialog' = landed(dialog, f) /\ UNCHANGED << posted, events, given >>
  BY DEF arrive, here
<1>3. CASE dialog' = Broken
  BY <1>2, <1>3, BreakSteps DEF arrive
<1>4. CASE dialog' # Broken
  <2>1. fetching' = fetching \ {f}
    BY <1>4 DEF arrive
  <2>2. CASE f.what = "environments"
    <3>1. dialog' = withEnvironments(dialog)
      BY <1>2, <2>2 DEF landed
    <3>2. PICK form : form = withEnvironments(dialog)
      OBVIOUS
    <3>3. /\ fieldsThere(form) /\ form.kind = dialog.kind /\ DOMAIN form = DOMAIN dialog
          /\ form.lines = dialog.lines /\ form.next = dialog.next
          /\ form.products = dialog.products /\ form.services = dialog.services
      BY <1>1, <3>2, EnvironmentsSound
    <3>4. QED
      BY <1>2, <2>1, <3>1, <3>2, <3>3, LandedSteps
  <2>3. CASE f.what = "me"
    <3>1. dialog' = withRequester(dialog)
      BY <1>2, <2>3 DEF landed
    <3>2. PICK form : form = withRequester(dialog)
      OBVIOUS
    <3>3. /\ fieldsThere(form) /\ form.kind = dialog.kind /\ DOMAIN form = DOMAIN dialog
          /\ form.lines = dialog.lines /\ form.next = dialog.next
          /\ form.products = dialog.products /\ form.services = dialog.services
      BY <1>1, <3>2, RequesterSound
    <3>4. QED
      BY <1>2, <2>1, <3>1, <3>2, <3>3, LandedSteps
  <2>4. CASE f.what \in {"companies", "candidates"}
    <3>1. PICK form, C : /\ dialog' = form
                         /\ form = [dialog EXCEPT !.companies = C] \/ form = [dialog EXCEPT !.cands = C]
      BY <1>2, <2>4 DEF landed
    <3>2. /\ form.kind = dialog.kind /\ DOMAIN form = DOMAIN dialog /\ form.fields = dialog.fields
          /\ form.lines = dialog.lines /\ form.next = dialog.next
          /\ form.products = dialog.products /\ form.services = dialog.services
      <4>1. CASE form = [dialog EXCEPT !.companies = C]
        BY <4>1
      <4>2. CASE form = [dialog EXCEPT !.cands = C]
        BY <4>2
      <4>3. QED
        BY <3>1, <4>1, <4>2
    <3>3. fieldsThere(form)
      BY <1>1, <3>2 DEF fieldsThere
    <3>4. QED
      BY <1>2, <2>1, <3>1, <3>2, <3>3, LandedSteps
  <2>5. CASE f.what \notin ofForms
    <3>1. dialog.kind = "lot" /\ (productsAsked(f, given) \/ servicesAsked(f, given))
      BY <1>1, <2>5 DEF waits
    <3>2. CASE productsAsked(f, given)
      <4>1. dialog' = withProducts(dialog, f)
        BY <1>2, <3>2 DEF landed, productsAsked
      <4>2. QED
        BY <1>2, <2>1, <3>1, <3>2, <4>1, ProductsArrive
    <3>3. CASE servicesAsked(f, given)
      <4>1. dialog' = withServices(dialog, f)
        BY <1>2, <3>3 DEF landed, servicesAsked
      <4>2. QED
        BY <1>2, <1>4, <2>1, <3>1, <3>3, <4>1, ServicesArrive
    <3>4. QED
      BY <3>1, <3>2, <3>3
  <2>6. QED
    BY <2>2, <2>3, <2>4, <2>5 DEF ofForms
<1>5. QED
  BY <1>3, <1>4

-------------------------------------------------------------------------------
(***************************************************************************)
(* Submits.                                                                *)
(***************************************************************************)
\* Of what was entered a request says no more, and nothing that is blank.
LEMMA EnteredTextIs ==
    ASSUME NEW keys, NEW k
    PROVE  /\ k \in DOMAIN entered(keys) => /\ k \in keys /\ k \in DOMAIN dialog.fields
                                           /\ entered(keys)[k] = dialog.fields[k] /\ filled(dialog.fields, k)
           /\ text(entered(keys), k) \in {text(dialog.fields, k), NoText}
<1>1. PICK D : D = {c \in keys \cap DOMAIN dialog.fields : filled(dialog.fields, c)}
  OBVIOUS
<1>2. entered(keys) = [c \in D |-> dialog.fields[c]]
  BY <1>1 DEF entered
<1>3. DOMAIN entered(keys) = D /\ (k \in D => entered(keys)[k] = dialog.fields[k])
  BY <1>2
<1>4. k \in D => k \in keys /\ k \in DOMAIN dialog.fields /\ filled(dialog.fields, k)
  BY <1>1
<1>5. text(entered(keys), k) \in {text(dialog.fields, k), NoText}
  BY <1>3, <1>4 DEF text
<1>6. QED
  BY <1>3, <1>4, <1>5

\* A request on its way is the form's, and which of the page's flags it will set.
LEMMA PostIs ==
    ASSUME NEW q, post(q)
    PROVE  /\ posted' = onto(q, [flag |-> flagOf(dialog)])
           /\ \A k \in DOMAIN q : k \in DOMAIN posted' /\ posted'[k] = q[k]
           /\ UNCHANGED << dialog, fetching, events, given >>
BY DEF post, onto

LEMMA PostSteps ==
    ASSUME DialogsInv, UNCHANGED << dialog, fetching, events, given >>, PostedThere'
    PROVE  DialogsInv'
<1>1. formSound(dialog, fetching, given)'
  BY DEF DialogsInv, formSound, fieldsThere, parentThere
<1>2. idsInOrder(events)'
  BY DEF DialogsInv, idsInOrder
<1>3. QED
  BY <1>1, <1>2 DEF DialogsInv

LEMMA SubmitEventSteps ==
    ASSUME DialogsInv, submitEvent
    PROVE  DialogsInv'
<1>1. PICK r : r = [op |-> "event", type |-> dialog.type, body |-> bodyOf(dialog)]
  OBVIOUS
<1>2. post(r) /\ dialog.kind = "event"
  BY <1>1 DEF submitEvent
<1>3. posted'.op = "event" /\ posted'.type = dialog.type /\ posted'.body = bodyOf(dialog)
  <2>1. {"op", "type", "body"} \subseteq DOMAIN r /\ r["op"] = "event" /\ r["type"] = dialog.type
        /\ r["body"] = bodyOf(dialog)
    BY <1>1
  <2>2. \A k \in DOMAIN r : posted'[k] = r[k]
    BY <1>2, PostIs
  <2>3. posted'["op"] = "event" /\ posted'["type"] = dialog.type /\ posted'["body"] = bodyOf(dialog)
    BY <2>1, <2>2
  <2>4. QED
    BY <2>3
<1>4. ASSUME dialog.type = "DEPLOYMENT"
      PROVE  parentThere(bodyOf(dialog))
  <2>1. PICK keys : keys = {"version", "requester", "changeType", "deployStatus", "hourType", "occurredAt",
                            "comment", "parentId"} \cup planned
    OBVIOUS
  <2>2. PICK S, T, B : /\ S = [service |-> Tree[Here], environment |-> dialog.environment]
                       /\ T = [changeType |-> "NORMAL", deployStatus |-> "SCHEDULED"]
                       /\ B = onto(entered(keys), T)
    OBVIOUS
  <2>3. bodyOf(dialog) = onto(S, B)
    BY <1>4, <2>1, <2>2 DEF bodyOf
  <2>4. "parentId" \notin DOMAIN S /\ "parentId" \notin DOMAIN T
    BY <2>2
  <2>5. text(bodyOf(dialog), "parentId") = text(B, "parentId")
    BY <2>3, <2>4, OntoText
  <2>6. text(B, "parentId") \in {text(entered(keys), "parentId"), NoText}
    <3>1. text(B, "parentId") = IF "parentId" \in DOMAIN entered(keys) THEN entered(keys)["parentId"]
                                ELSE text(T, "parentId")
      BY <2>2, OntoText
    <3>2. text(T, "parentId") = NoText
      BY <2>4 DEF text
    <3>3. QED
      BY <3>1, <3>2 DEF text
  <2>7. text(B, "parentId") \in {text(dialog.fields, "parentId"), NoText}
    BY <2>6, EnteredTextIs
  <2>8. parentThere(dialog.fields)
    BY <1>2 DEF DialogsInv, formSound, fieldsThere
  <2>9. QED
    BY <2>5, <2>7, <2>8 DEF parentThere
<1>5. UNCHANGED << dialog, fetching, events, given >>
  BY <1>2, PostIs
<1>6. PostedThere'
  BY <1>3, <1>4, <1>5 DEF PostedThere, parentThere
<1>7. QED
  BY <1>5, <1>6, PostSteps

LEMMA SubmitLotSteps ==
    ASSUME DialogsInv, submitLot
    PROVE  DialogsInv'
<1>1. PICK keys : keys = {"requester", "changeType", "deployStatus", "lot", "occurredAt"} \cup planned
  OBVIOUS
<1>2. PICK I, C, S : /\ I = SelectSeq(dialog.lines, complete)
                     /\ S = [environment |-> dialog.environment]
                     /\ C = onto(S, entered(keys))
  OBVIOUS
<1>3. PICK r : r = [op |-> "lot", items |-> I, common |-> C]
  OBVIOUS
<1>4. post(r) /\ dialog.kind = "lot"
  BY <1>1, <1>2, <1>3 DEF submitLot
<1>5. posted'.op = "lot" /\ posted'.common = C
  <2>1. {"op", "common"} \subseteq DOMAIN r /\ r["op"] = "lot" /\ r["common"] = C
    BY <1>3
  <2>2. \A k \in DOMAIN r : posted'[k] = r[k]
    BY <1>4, PostIs
  <2>3. posted'["op"] = "lot" /\ posted'["common"] = C
    BY <2>1, <2>2
  <2>4. QED
    BY <2>3
<1>6. noPhase(C)
  <2>1. text(C, "changeType") = text(entered(keys), "changeType")
    BY <1>2, OntoText
  <2>2. text(C, "changeType") \in {text(dialog.fields, "changeType"), NoText}
    BY <2>1, EnteredTextIs
  <2>3. noPhase(dialog.fields)
    BY <1>4 DEF DialogsInv, formSound, fieldsThere
  <2>4. QED
    BY <2>2, <2>3 DEF noPhase, isPhase, PhaseTypes, NoText
<1>7. ASSUME "lot" \in DOMAIN C
      PROVE  C.lot # NoText
  <2>1. "lot" \in DOMAIN entered(keys) /\ C["lot"] = entered(keys)["lot"]
    BY <1>2, <1>7 DEF onto
  <2>2. entered(keys)["lot"] = dialog.fields["lot"] /\ filled(dialog.fields, "lot")
    BY <2>1, EnteredTextIs
  <2>3. dialog.fields["lot"] # NoText
    BY <2>2 DEF filled, TextColumns, DateColumns
  <2>4. C["lot"] # NoText
    BY <2>1, <2>2, <2>3
  <2>5. QED
    BY <2>4
<1>8. UNCHANGED << dialog, fetching, events, given >>
  BY <1>4, PostIs
<1>9. PostedThere'
  BY <1>5, <1>6, <1>7, <1>8 DEF PostedThere, parentThere, noPhase
<1>10. QED
  BY <1>8, <1>9, PostSteps

LEMMA SubmitExistingSteps ==
    ASSUME DialogsInv, submitExisting
    PROVE  DialogsInv'
<1>1. PICK r : r = [op |-> "existing", ids |-> dialog.sel, lot |-> dialog.fields.lot]
  OBVIOUS
<1>2. post(r)
  BY <1>1 DEF submitExisting
<1>3. posted'["op"] = "existing"
  BY <1>1, <1>2, PostIs
<1>4. UNCHANGED << dialog, fetching, events, given >>
  BY <1>2, PostIs
<1>5. PostedThere'
  BY <1>3 DEF PostedThere
<1>6. QED
  BY <1>4, <1>5, PostSteps

-------------------------------------------------------------------------------
(***************************************************************************)
(* What the server writes.                                                 *)
(***************************************************************************)
newIds(n) == {Ids[Cardinality(DOMAIN events) + k] : k \in 1..n}

\* The first n ids are n, whatever n is.
LEMMA FirstIdsAre ==
    ASSUME NEW n \in 0..Len(Ids), NEW m \in 0..Len(Ids), m <= n
    PROVE  /\ IsFiniteSet({Ids[k] : k \in (m + 1)..n})
           /\ Cardinality({Ids[k] : k \in (m + 1)..n}) = n - m
<1>1. DOMAIN Ids = 1..Len(Ids) /\ Len(Ids) \in Nat
  BY DialogsAssumption
<1>2. (m + 1)..n \subseteq DOMAIN Ids
  BY <1>1
<1>3. PICK T : T = {Ids[k] : k \in (m + 1)..n}
  OBVIOUS
<1>4. PICK f : f = [k \in (m + 1)..n |-> Ids[k]]
  OBVIOUS
<1>5. f \in Injection((m + 1)..n, T)
  <2>1. f \in [(m + 1)..n -> T]
    BY <1>3, <1>4
  <2>2. \A j, k \in (m + 1)..n : f[j] = f[k] => j = k
    BY <1>2, <1>4, DialogsAssumption
  <2>3. QED
    BY <2>1, <2>2, Fun_IsInj
<1>6. f \in Surjection((m + 1)..n, T)
  <2>1. f \in [(m + 1)..n -> T]
    BY <1>3, <1>4
  <2>2. \A t \in T : \E k \in (m + 1)..n : f[k] = t
    BY <1>3, <1>4
  <2>3. QED
    BY <2>1, <2>2, Fun_IsSurj
<1>7. IsFiniteSet((m + 1)..n) /\ Cardinality((m + 1)..n) = n - m
  <2>1. m + 1 \in Int /\ n \in Int
    BY <1>1
  <2>2. IsFiniteSet((m + 1)..n) /\ Cardinality((m + 1)..n) = IF m + 1 > n THEN 0 ELSE n - (m + 1) + 1
    BY <2>1, FS_Interval
  <2>3. QED
    BY <1>1, <2>2
<1>8. IsFiniteSet(T) /\ Cardinality(T) = n - m
  BY <1>5, <1>6, <1>7, FS_Surjection
<1>9. QED
  BY <1>3, <1>8

\* As many ids as there are rows are taken; those that follow are nobody's.
LEMMA NewIdsAreNew ==
    ASSUME idsInOrder(events), NEW n \in Nat, Cardinality(DOMAIN events) + n <= Len(Ids)
    PROVE  /\ newIds(n) \cap DOMAIN events = {}
           /\ Cardinality(newIds(n)) = n
           /\ \E m \in 0..Len(Ids) : DOMAIN events \cup newIds(n) = {Ids[k] : k \in 1..m}
           /\ \A j, k \in 1..n : Ids[Cardinality(DOMAIN events) + j] = Ids[Cardinality(DOMAIN events) + k] => j = k
<1>1. PICK m \in 0..Len(Ids) : DOMAIN events = {Ids[k] : k \in 1..m}
  BY DEF idsInOrder
<1>2. DOMAIN Ids = 1..Len(Ids) /\ Len(Ids) \in Nat
  BY DialogsAssumption
<1>3. Cardinality(DOMAIN events) = m
  <2>1. 0 \in 0..Len(Ids) /\ 0 <= m /\ 0 + 1 = 1 /\ m - 0 = m
    BY <1>2
  <2>2. Cardinality({Ids[k] : k \in (0 + 1)..m}) = m - 0
    BY <2>1, FirstIdsAre
  <2>3. QED
    BY <1>1, <2>1, <2>2
<1>4. PICK l \in 0..Len(Ids) : l = m + n
  BY <1>2, <1>3
<1>5. newIds(n) = {Ids[m + k] : k \in 1..n}
  BY <1>3 DEF newIds
<1>6. newIds(n) = {Ids[k] : k \in (m + 1)..l}
  <2>1. ASSUME NEW k \in 1..n
        PROVE  m + k \in (m + 1)..l
    BY <1>2, <1>4
  <2>2. ASSUME NEW k \in (m + 1)..l
        PROVE  k - m \in 1..n /\ m + (k - m) = k
    BY <1>2, <1>4
  <2>3. {Ids[m + k] : k \in 1..n} \subseteq {Ids[k] : k \in (m + 1)..l}
    BY <2>1
  <2>4. {Ids[k] : k \in (m + 1)..l} \subseteq {Ids[m + k] : k \in 1..n}
    BY <2>2
  <2>5. QED
    BY <1>5, <2>3, <2>4
<1>7. Cardinality(newIds(n)) = n
  <2>1. m <= l /\ l - m = n
    BY <1>2, <1>4
  <2>2. QED
    BY <1>6, <2>1, FirstIdsAre
<1>8. newIds(n) \cap DOMAIN events = {}
  <2>1. \A j \in 1..m, k \in (m + 1)..l : j \in DOMAIN Ids /\ k \in DOMAIN Ids /\ j # k
    BY <1>2
  <2>2. \A j \in 1..m, k \in (m + 1)..l : Ids[j] # Ids[k]
    BY <2>1, DialogsAssumption
  <2>3. QED
    BY <1>1, <1>6, <2>2
<1>9. DOMAIN events \cup newIds(n) = {Ids[k] : k \in 1..l}
  <2>1. 1..l = (1..m) \cup ((m + 1)..l)
    BY <1>2, <1>4
  <2>2. QED
    BY <1>1, <1>6, <2>1
<1>10. ASSUME NEW j \in 1..n, NEW k \in 1..n, Ids[m + j] = Ids[m + k]
       PROVE  j = k
  <2>1. m + j \in DOMAIN Ids /\ m + k \in DOMAIN Ids
    BY <1>2, <1>4
  <2>2. m + j = m + k
    BY <1>10, <2>1, DialogsAssumption
  <2>3. QED
    BY <1>2, <2>2
<1>11. QED
  BY <1>3, <1>7, <1>8, <1>9, <1>10

\* What is written stands under the new ids, in order, and the rest is untouched.
LEMMA WithIs ==
    ASSUME idsInOrder(events), NEW n \in Nat, NEW R, DOMAIN R = 1..n, Len(R) = n,
           Cardinality(DOMAIN events) + n <= Len(Ids)
    PROVE  /\ DOMAIN with(R) = DOMAIN events \cup newIds(n)
           /\ \A i \in DOMAIN events : with(R)[i] = events[i]
           /\ \A k \in 1..n : with(R)[Ids[Cardinality(DOMAIN events) + k]] = R[k]
<1>1. PICK used : used = Cardinality(DOMAIN events)
  OBVIOUS
<1>2. PICK id : id = [k \in 1..n |-> Ids[used + k]]
  OBVIOUS
<1>3. nextIds(Len(R)) = id
  BY <1>1, <1>2 DEF nextIds
<1>4. DOMAIN id = 1..n /\ \A k \in 1..n : id[k] = Ids[used + k]
  BY <1>2
<1>5. ToSet(id) = newIds(n)
  BY <1>1, <1>4 DEF ToSet, newIds
<1>6. PICK W : W = [i \in newIds(n) |-> R[CHOOSE k \in 1..n : id[k] = i]]
  OBVIOUS
<1>7. with(R) = onto(events, W)
  BY <1>3, <1>4, <1>5, <1>6 DEF with
<1>8. DOMAIN W = newIds(n)
  BY <1>6
<1>9. DOMAIN with(R) = DOMAIN events \cup newIds(n)
  BY <1>7, <1>8 DEF onto
<1>10. \A i \in DOMAIN events : with(R)[i] = events[i]
  BY <1>7 DEF onto
<1>11. ASSUME NEW k \in 1..n
       PROVE  with(R)[Ids[used + k]] = R[k]
  <2>1. PICK i : i = Ids[used + k] /\ i = id[k]
    BY <1>4
  <2>2. i \in newIds(n) /\ i \notin DOMAIN events
    BY <1>1, <2>1, NewIdsAreNew DEF newIds
  <2>3. with(R)[i] = W[i]
    BY <1>7, <1>8, <2>2 DEF onto
  <2>4. W[i] = R[CHOOSE h \in 1..n : id[h] = i]
    BY <1>6, <2>2
  <2>5. \A h \in 1..n : id[h] = i => h = k
    BY <1>1, <1>4, <2>1, NewIdsAreNew
  <2>6. (CHOOSE h \in 1..n : id[h] = i) = k
    BY <2>1, <2>5
  <2>7. QED
    BY <2>1, <2>3, <2>4, <2>6
<1>12. QED
  BY <1>1, <1>9, <1>10, <1>11

\* Rows to write are a sequence: one for each line of a lot, one for an event, or none.
LEMMA CreatedIs ==
    ASSUME NEW q
    PROVE  \E n \in Nat : DOMAIN created(q) = 1..n /\ Len(created(q)) = n
<1>1. PICK R : R = IF q.op = "lot" THEN lotRows(q) ELSE eventRows(q)
  OBVIOUS
<1>2. created(q) = R \/ created(q) = << >>
  BY <1>1 DEF created
<1>3. Len(q.items) \in Nat
  OBVIOUS
<1>4. PICK n, L : n \in Nat /\ n = Len(q.items) /\ L = [k \in 1..n |-> newRow("DEPLOYMENT", lotBody(q.common, q.items[k]), Now)]
  BY <1>3
<1>5. DOMAIN L = 1..n /\ Len(L) = n
  BY <1>4
<1>6. lotRows(q) = L \/ lotRows(q) = << >>
  BY <1>4 DEF lotRows
<1>7. PICK r, one, none : /\ one = << r >> /\ none = << >>
                          /\ eventRows(q) = one \/ eventRows(q) = none
  BY DEF eventRows
<1>8. DOMAIN one = 1..1 /\ Len(one) = 1 /\ DOMAIN none = 1..0 /\ Len(none) = 0
  BY <1>7
<1>9. created(q) \in {L, one, none}
  BY <1>1, <1>2, <1>6, <1>7
<1>10. 0 \in Nat /\ 1 \in Nat
  OBVIOUS
<1>11. CASE created(q) = L
  BY <1>4, <1>5, <1>11
<1>12. CASE created(q) = one
  BY <1>8, <1>10, <1>12
<1>13. CASE created(q) = none
  BY <1>8, <1>10, <1>13
<1>14. QED
  BY <1>9, <1>11, <1>12, <1>13

\* The form that asked goes, or stays as it was.
LEMMA ServedForm ==
    ASSUME DialogsInv, served \/ UNCHANGED << dialog, fetching, given >>, DOMAIN events \subseteq DOMAIN events'
    PROVE  formSound(dialog, fetching, given)'
<1>1. CASE UNCHANGED << dialog, fetching, given >>
  BY <1>1 DEF DialogsInv, formSound, fieldsThere, parentThere
<1>2. CASE dialog' = NoDialog /\ fetching' = {} /\ given' = {}
  <2>1. NoDialog.kind = "none"
    BY DEF NoDialog
  <2>2. QED
    BY <1>2, <2>1 DEF formSound, formShaped, linesAnswered, waits, fieldsThere
<1>3. QED
  BY <1>1, <1>2 DEF served

LEMMA ServeSteps ==
    ASSUME DialogsInv, serve
    PROVE  DialogsInv'
<1>1. PostedThere'
  BY DEF serve, PostedThere
<1>2. CASE posted.op = "existing"
  <2>1. events' = assignLot(posted) /\ served
    BY <1>2 DEF serve
  <2>2. DOMAIN events' = DOMAIN events
    BY <2>1 DEF assignLot
  <2>3. idsInOrder(events)'
    <3>1. events' = [i \in DOMAIN events' |-> events'[i]]
      BY <2>1 DEF assignLot
    <3>2. QED
      BY <2>2, <3>1 DEF DialogsInv, idsInOrder
  <2>4. formSound(dialog, fetching, given)'
    BY <2>1, <2>2, ServedForm
  <2>5. QED
    BY <1>1, <2>3, <2>4 DEF DialogsInv
<1>3. CASE posted.op # "existing"
  <2>1. PICK R : R = created(posted)
    OBVIOUS
  <2>2. /\ Cardinality(DOMAIN events) + Len(R) <= Len(Ids)
        /\ events' = with(R)
        /\ served \/ UNCHANGED << dialog, fetching, given >>
    BY <1>3, <2>1 DEF serve
  <2>3. PICK n \in Nat : DOMAIN R = 1..n /\ Len(R) = n
    BY <2>1, CreatedIs
  <2>4. idsInOrder(events)
    BY DEF DialogsInv
  <2>5. DOMAIN events' = DOMAIN events \cup newIds(n)
    BY <2>2, <2>3, <2>4, WithIs
  <2>6. idsInOrder(events)'
    <3>1. events' = [i \in DOMAIN events' |-> events'[i]]
      BY <2>2 DEF with, onto
    <3>2. \E m \in 0..Len(Ids) : DOMAIN events' = {Ids[k] : k \in 1..m}
      BY <2>2, <2>3, <2>4, <2>5, NewIdsAreNew
    <3>3. QED
      BY <3>1, <3>2 DEF idsInOrder
  <2>7. formSound(dialog, fetching, given)'
    BY <2>2, <2>5, ServedForm
  <2>8. QED
    BY <1>1, <2>6, <2>7 DEF DialogsInv
<1>4. QED
  BY <1>2, <1>3

LEMMA OtherSteps ==
    ASSUME DialogsInv, UNCHANGED << dialog, fetching, posted, given >>,
           DOMAIN events' = DOMAIN events, events' = [i \in DOMAIN events' |-> events'[i]]
    PROVE  DialogsInv'
<1>1. idsInOrder(events)'
  BY DEF DialogsInv, idsInOrder
<1>2. formSound(dialog, fetching, given)' /\ PostedThere'
  BY DEF DialogsInv, formSound, fieldsThere, PostedThere, parentThere
<1>3. QED
  BY <1>1, <1>2 DEF DialogsInv

LEMMA DialogsInvStep ==
    ASSUME DialogsInv, [\E Typed : DialogsStep(Typed)]_dialogVars
    PROVE  DialogsInv'
<1>1. CASE UNCHANGED dialogVars
  BY <1>1, OtherSteps DEF dialogVars, DialogsInv, idsInOrder
<1>2. CASE \E Typed : DialogsStep(Typed)
  <2>1. PICK Typed : DialogsStep(Typed)
    BY <1>2
  <2>2. CASE openEvent
    BY <2>2, OpenEventSteps
  <2>3. CASE \E t \in PhaseTypes, i \in DOMAIN events : openPhase(t, i)
    BY <2>3, OpenPhaseSteps
  <2>4. CASE openLot \/ tabNew
    BY <2>4, NewLotSteps DEF openLot, tabNew
  <2>5. CASE tabExisting
    BY <2>5, TabExistingSteps
  <2>6. CASE dismiss
    BY <2>6, DismissSteps
  <2>7. CASE \E t \in EventTypes : setType(t)
    BY <2>7, SetTypeSteps
  <2>8. CASE \E t \in Typed : fill(t[1], t[2])
    BY <2>8, FillSteps
  <2>9. CASE \E e \in ToSet(Order) \cup {NoText} : chooseEnvironment(e)
    BY <2>9, ChooseEnvironmentSteps
  <2>10. CASE \E i \in DOMAIN events : toggle(i)
    BY <2>10, ToggleSteps
  <2>11. CASE addRow
    BY <2>11, AddRowSteps
  <2>12. CASE \E k \in Numbers : removeRow(k)
    BY <2>12, RemoveRowSteps
  <2>13. CASE \E k \in Numbers, c \in companies : onCompanyChange(k, c)
    BY <2>13, CompanySteps
  <2>14. CASE \E k \in Numbers, path \in DOMAIN Tree : onProductChange(k, path[2])
    BY <2>14, ProductSteps
  <2>15. CASE \E k \in Numbers, path \in DOMAIN Tree : setService(k, path[3])
    BY <2>15, ServiceSteps
  <2>16. CASE \E k \in Numbers, t \in Typed : t[1] = "version" /\ setVersion(k, t[2])
    BY <2>16, VersionSteps
  <2>17. CASE \E f \in fetching : arrive(f)
    BY <2>17, ArriveSteps
  <2>18. CASE submitEvent
    BY <2>18, SubmitEventSteps
  <2>19. CASE submitLot
    BY <2>19, SubmitLotSteps
  <2>20. CASE submitExisting
    BY <2>20, SubmitExistingSteps
  <2>21. CASE serve
    BY <2>21, ServeSteps
  <2>22. CASE \E e \in ToSet(Order) : closeEnvironment(e)
    BY <2>22, OtherSteps DEF closeEnvironment, other, DialogsInv, idsInOrder
  <2>23. CASE \E i \in DOMAIN events, t \in Typed : t[1] = "lot" /\ setLot(i, t[2])
    <3>1. PICK i \in DOMAIN events, t \in Typed : setLot(i, t[2])
      BY <2>23
    <3>2. PICK r : events' = [events EXCEPT ![i] = r]
      BY <3>1 DEF setLot
    <3>3. DOMAIN events' = DOMAIN events /\ events' = [j \in DOMAIN events' |-> events'[j]]
      BY <3>2
    <3>4. QED
      BY <3>1, <3>3, OtherSteps DEF setLot, other
  <2>24. QED
    BY <2>1, <2>2, <2>3, <2>4, <2>5, <2>6, <2>7, <2>8, <2>9, <2>10, <2>11, <2>12, <2>13,
       <2>14, <2>15, <2>16, <2>17, <2>18, <2>19, <2>20, <2>21, <2>22, <2>23 DEF DialogsStep
<1>3. QED
  BY <1>1, <1>2

LEMMA DialogsInvInit ==
    ASSUME NEW E, idsInOrder(E), DialogsInit(E)
    PROVE  DialogsInv
<1>1. idsInOrder(events)
  BY DEF DialogsInit
<1>2. PostedThere
  BY DEF DialogsInit, PostedThere
<1>3. NoDialog.kind = "none"
  BY DEF NoDialog
<1>4. formSound(dialog, fetching, given)
  BY <1>3 DEF DialogsInit, formSound, formShaped, linesAnswered, waits, fieldsThere
<1>5. QED
  BY <1>1, <1>2, <1>4 DEF DialogsInv

LEMMA DialogsInvariant == DialogsSpec => []DialogsInv
<1>1. ASSUME \E E : idsInOrder(E) /\ DialogsInit(E)
      PROVE  DialogsInv
  BY <1>1, DialogsInvInit
<1>2. DialogsInv /\ [\E Typed : DialogsStep(Typed)]_dialogVars => DialogsInv'
  BY DialogsInvStep
<1>3. QED
  BY <1>1, <1>2, PTL DEF DialogsSpec

-------------------------------------------------------------------------------
(***************************************************************************)
(* What the invariant says.                                                *)
(***************************************************************************)
LEMMA TypesFollow ==
    ASSUME DialogsInv
    PROVE  DialogsTypeOK
<1>1. formSound(dialog, fetching, given)
  BY DEF DialogsInv
<1>2. dialog.kind \in {"none", "broken", "event", "lot", "existing"}
  BY <1>1 DEF formSound, formShaped
<1>3. dialog.kind \in {"none", "broken"} => fetching = {}
  BY <1>1 DEF formSound, waits
<1>4. ASSUME dialog.kind = "lot"
      PROVE  /\ IsInjective([k \in DOMAIN dialog.lines |-> at(k)])
             /\ \A k \in DOMAIN dialog.lines :
                   LET P == options(dialog.products, at(k))
                       S == options(dialog.services, at(k))
                   IN  /\ P # {} => \E g \in given : Len(g) = 2 /\ g[1] = at(k) /\ productsOf(<< g[2] >>) = P
                       /\ S # {} => \E g \in given : Len(g) = 3 /\ g[1] = at(k) /\ servicesOf(<< g[2], g[3] >>) = S
  <2>1. /\ numbered(dialog.lines, dialog.next)
        /\ productsAnswer(dialog.products, given) /\ servicesAnswer(dialog.services, given)
    BY <1>4, LotIs
  <2>2. PICK I : I = [k \in DOMAIN dialog.lines |-> at(k)]
    OBVIOUS
  <2>3. IsInjective(I)
    BY <2>1, <2>2 DEF IsInjective, numbered, at
  <2>4. ASSUME NEW id, options(dialog.products, id) # {}
        PROVE  \E g \in given : Len(g) = 2 /\ g[1] = id /\ productsOf(<< g[2] >>) = options(dialog.products, id)
    <3>1. id \in DOMAIN dialog.products /\ options(dialog.products, id) = dialog.products[id]
      BY <2>4 DEF options
    <3>2. PICK c : << id, c >> \in given /\ dialog.products[id] = productsOf(<< c >>)
      BY <2>1, <2>4, <3>1 DEF productsAnswer
    <3>3. PICK g : g = << id, c >>
      OBVIOUS
    <3>4. Len(g) = 2 /\ g[1] = id /\ g[2] = c
      BY <3>3
    <3>5. QED
      BY <3>1, <3>2, <3>3, <3>4
  <2>5. ASSUME NEW id, options(dialog.services, id) # {}
        PROVE  \E g \in given : Len(g) = 3 /\ g[1] = id /\ servicesOf(<< g[2], g[3] >>) = options(dialog.services, id)
    <3>1. id \in DOMAIN dialog.services /\ options(dialog.services, id) = dialog.services[id]
      BY <2>5 DEF options
    <3>2. PICK c, p : << id, c, p >> \in given /\ dialog.services[id] = servicesOf(<< c, p >>)
      BY <2>1, <2>5, <3>1 DEF servicesAnswer
    <3>3. PICK g : g = << id, c, p >>
      OBVIOUS
    <3>4. Len(g) = 3 /\ g[1] = id /\ g[2] = c /\ g[3] = p
      BY <3>3
    <3>5. QED
      BY <3>1, <3>2, <3>3, <3>4
  <2>6. QED
    BY <2>2, <2>3, <2>4, <2>5
<1>5. QED
  BY <1>2, <1>3, <1>4 DEF DialogsTypeOK

\* The numbers of the lines of a form for a lot stay their own, whichever were removed,
\* and what a line offers is what was asked for a choice made in it, in whatever order
\* the answers came; a form that is gone waits for none (LotForm.tsx).
THEOREM ListsBelongToTheirLines == DialogsSpec => []DialogsTypeOK
BY DialogsInvariant, TypesFollow, PTL

-------------------------------------------------------------------------------
\* Only the server ends a request.
LEMMA OnlyServeEnds ==
    ASSUME [\E Typed : DialogsStep(Typed)]_dialogVars, posted # NoPost, posted' = NoPost
    PROVE  serve
<1>1. posted' # posted
  OBVIOUS
<1>2. PICK Typed : DialogsStep(Typed)
  BY <1>1 DEF dialogVars
<1>3. SUFFICES ASSUME ~ serve
               PROVE  FALSE
  OBVIOUS
<1>4. UNCHANGED posted \/ posted = NoPost
  <2>1. openEvent => UNCHANGED posted
    BY DEF openEvent, mount
  <2>2. (\E t \in PhaseTypes, i \in DOMAIN events : openPhase(t, i)) => UNCHANGED posted
    BY DEF openPhase, mount
  <2>3. openLot \/ tabNew \/ tabExisting \/ dismiss => UNCHANGED posted
    BY DEF openLot, tabNew, newLot, tabExisting, dismiss, mount
  <2>4. (\E t \in EventTypes : setType(t)) => UNCHANGED posted
    BY DEF setType, changed, here
  <2>5. (\E t \in Typed : fill(t[1], t[2])) => UNCHANGED posted
    BY DEF fill, changed, here
  <2>6. (\E e \in ToSet(Order) \cup {NoText} : chooseEnvironment(e)) => UNCHANGED posted
    BY DEF chooseEnvironment, changed, here
  <2>7. (\E i \in DOMAIN events : toggle(i)) => UNCHANGED posted
    BY DEF toggle, changed, here
  <2>8. addRow \/ (\E k \in Numbers : removeRow(k)) => UNCHANGED posted
    BY DEF addRow, removeRow, changed, here
  <2>9. (\E k \in Numbers, c \in companies : onCompanyChange(k, c)) => UNCHANGED posted
    BY DEF onCompanyChange, here
  <2>10. (\E k \in Numbers, path \in DOMAIN Tree : onProductChange(k, path[2])) => UNCHANGED posted
    BY DEF onProductChange, here
  <2>11. (\E k \in Numbers, path \in DOMAIN Tree : setService(k, path[3])) => UNCHANGED posted
    BY DEF setService, changed, here
  <2>12. (\E k \in Numbers, t \in Typed : t[1] = "version" /\ setVersion(k, t[2])) => UNCHANGED posted
    BY DEF setVersion, changed, here
  <2>13. (\E f \in fetching : arrive(f)) => UNCHANGED posted
    BY DEF arrive, here
  <2>14. submitEvent \/ submitLot \/ submitExisting => posted = NoPost
    BY DEF submitEvent, submitLot, submitExisting, post
  <2>15. (\E e \in ToSet(Order) : closeEnvironment(e)) => UNCHANGED posted
    BY DEF closeEnvironment, other
  <2>16. (\E i \in DOMAIN events, t \in Typed : t[1] = "lot" /\ setLot(i, t[2])) => UNCHANGED posted
    BY DEF setLot, other
  <2>17. QED
    BY <1>2, <1>3, <2>1, <2>2, <2>3, <2>4, <2>5, <2>6, <2>7, <2>8, <2>9, <2>10, <2>11, <2>12,
       <2>13, <2>14, <2>15, <2>16 DEF DialogsStep
<1>5. QED
  BY <1>1, <1>4

-------------------------------------------------------------------------------
(***************************************************************************)
(* What a request becomes.                                                 *)
(***************************************************************************)
Named == {"type", "service", "environment", "occurredAt", "externalId", "tags"}

\* Whatever is created says what its body says of where and when it is.
LEMMA PlacedIs ==
    ASSUME NEW type, NEW b, DOMAIN fieldsOf(type, b) \cap Named = {}
    PROVE  LET r == newRow(type, b, Now)
           IN  /\ r.service = b.service /\ r.environment = b.environment
               /\ r.occurredAt = occurredAt(type, b, Now)
               /\ \A c \in DOMAIN fieldsOf(type, b) : r[c] = fieldsOf(type, b)[c]
               /\ "changeType" \notin DOMAIN fieldsOf(type, b) => r.changeType = NoText
<1>1. PICK F, D : /\ F = fieldsOf(type, b)
                  /\ D = [type |-> type, service |-> b.service, environment |-> b.environment,
                          occurredAt |-> occurredAt(type, b, Now), externalId |-> text(b, "externalId"),
                          tags |-> IF "tags" \in DOMAIN b THEN b.tags ELSE {}]
  OBVIOUS
<1>2. PICK C, r : C = onto(F, D) /\ r = newRow(type, b, Now)
  OBVIOUS
<1>3. r = onto(C, emptyRow)
  BY <1>1, <1>2 DEF newRow, toCreateData
<1>4. DOMAIN D = Named /\ D["service"] = b.service /\ D["environment"] = b.environment
      /\ D["occurredAt"] = occurredAt(type, b, Now)
  BY <1>1 DEF Named
<1>5. /\ DOMAIN C = DOMAIN F \cup Named
      /\ \A c \in DOMAIN F : C[c] = F[c]
      /\ \A c \in Named : C[c] = D[c]
  <2>1. \A c \in Named : c \in DOMAIN D \ DOMAIN F
    BY <1>1, <1>4
  <2>2. QED
    BY <1>2, <1>4, <2>1 DEF onto
<1>6. \A c \in DOMAIN C : r[c] = C[c]
  BY <1>3 DEF onto
<1>7. r["service"] = b.service /\ r["environment"] = b.environment /\ r["occurredAt"] = occurredAt(type, b, Now)
  BY <1>4, <1>5, <1>6 DEF Named
<1>8. \A c \in DOMAIN F : r[c] = F[c]
  BY <1>5, <1>6
<1>9. ASSUME "changeType" \notin DOMAIN F
      PROVE  r["changeType"] = NoText
  <2>1. "changeType" \notin DOMAIN C
    BY <1>5, <1>9 DEF Named
  <2>2. "changeType" \in DOMAIN emptyRow /\ emptyRow["changeType"] = NoText
    BY DEF emptyRow, ALL_COLUMNS, TextColumns, DateColumns
  <2>3. r["changeType"] = emptyRow["changeType"]
    BY <1>3, <2>1, <2>2 DEF onto
  <2>4. QED
    BY <2>2, <2>3
<1>10. QED
  BY <1>1, <1>2, <1>7, <1>8, <1>9

LEMMA DeploymentIs ==
    ASSUME NEW b
    PROVE  LET r == newRow("DEPLOYMENT", b, Now)
           IN  /\ r.service = b.service /\ r.environment = b.environment
               /\ r.occurredAt = occurredAt("DEPLOYMENT", b, Now)
               /\ r.version = text(b, "version") /\ r.lot = orElse(text(b, "lot"), text(b, "version"))
               /\ r.changeType = b.changeType /\ r.parentId = text(b, "parentId")
<1>1. PICK F, r : F = deploymentFields(b) /\ r = newRow("DEPLOYMENT", b, Now)
  OBVIOUS
<1>2. fieldsOf("DEPLOYMENT", b) = F
  BY <1>1 DEF fieldsOf
<1>3. /\ DOMAIN F = {"version", "comment", "lot", "requester", "changeType", "deployStatus",
                     "scheduledAt", "parentId", "hourType"}
      /\ F["version"] = text(b, "version") /\ F["lot"] = orElse(text(b, "lot"), text(b, "version"))
      /\ F["changeType"] = b.changeType /\ F["parentId"] = text(b, "parentId")
  BY <1>1 DEF deploymentFields
<1>4. DOMAIN F \cap Named = {}
  BY <1>3 DEF Named
<1>5. /\ r.service = b.service /\ r.environment = b.environment
      /\ r.occurredAt = occurredAt("DEPLOYMENT", b, Now)
      /\ \A c \in DOMAIN F : r[c] = F[c]
  BY <1>1, <1>2, <1>4, PlacedIs
<1>6. /\ r["version"] = F["version"] /\ r["lot"] = F["lot"]
      /\ r["changeType"] = F["changeType"] /\ r["parentId"] = F["parentId"]
  BY <1>3, <1>5
<1>7. QED
  BY <1>1, <1>3, <1>5, <1>6

\* An incident and a maintenance are no phases.
LEMMA NoPhaseOfTheirs ==
    ASSUME NEW type \in {"INCIDENT", "MAINTENANCE"}, NEW b
    PROVE  ~ isPhase(newRow(type, b, Now).changeType)
<1>1. PICK F : F = fieldsOf(type, b)
  OBVIOUS
<1>2. DOMAIN F \cap Named = {} /\ "changeType" \notin DOMAIN F
  <2>1. CASE type = "INCIDENT"
    <3>1. F = incidentFields(b)
      BY <1>1, <2>1 DEF fieldsOf
    <3>2. DOMAIN F = {"incidentType", "incidentStatus", "startedAt", "resolvedAt", "comment"}
      BY <3>1 DEF incidentFields
    <3>3. QED
      BY <3>2 DEF Named
  <2>2. CASE type = "MAINTENANCE"
    <3>1. F = maintenanceFields(b)
      BY <1>1, <2>2 DEF fieldsOf
    <3>2. DOMAIN F = {"version", "windowStart", "windowEnd"}
      BY <3>1 DEF maintenanceFields
    <3>3. QED
      BY <3>2 DEF Named
  <2>3. QED
    BY <2>1, <2>2
<1>3. newRow(type, b, Now).changeType = NoText
  BY <1>1, <1>2, PlacedIs
<1>4. QED
  BY <1>3 DEF isPhase, PhaseTypes, NoText

\* What a validator let pass has a type of change.
LEMMA ChangeTypeIsGiven ==
    ASSUME NEW b, validateDeploymentBody(b)
    PROVE  /\ b.changeType = text(b, "changeType")
           /\ isPhase(b.changeType) => text(b, "parentId") # NoText
<1>1. text(b, "changeType") \in ChangeTypes
  BY DEF validateDeploymentBody
<1>2. NoText \notin ChangeTypes
  BY DEF ChangeTypes, NoText
<1>3. "changeType" \in DOMAIN b
  BY <1>1, <1>2 DEF text
<1>4. QED
  BY <1>3 DEF text, validateDeploymentBody

LEMMA LotRowIs ==
    ASSUME NEW common, NEW item, accepts(common, item), noPhase(common),
           "lot" \in DOMAIN common => common.lot # NoText
    PROVE  LET r == newRow("DEPLOYMENT", lotBody(common, item), Now)
           IN  /\ r.service = Tree[<< item.company, item.product, item.service >>]
               /\ r.version = item.version
               /\ r.environment = common.environment
               /\ "lot" \in DOMAIN common => r.lot = common.lot
               /\ ~ isPhase(r.changeType)
<1>1. PICK D, b, r : /\ D = [service |-> Tree[<< item.company, item.product, item.service >>],
                             version |-> item.version]
                     /\ b = onto(D, common)
                     /\ r = newRow("DEPLOYMENT", b, Now)
  OBVIOUS
<1>2. b = lotBody(common, item) /\ validateDeploymentBody(b)
  BY <1>1 DEF accepts, lotBody
<1>3. /\ DOMAIN D = {"service", "version"}
      /\ D["service"] = Tree[<< item.company, item.product, item.service >>] /\ D["version"] = item.version
  BY <1>1
<1>4. b["service"] = D["service"] /\ text(b, "version") = D["version"]
  <2>1. \A c \in DOMAIN D : c \in DOMAIN b /\ b[c] = D[c]
    BY <1>1 DEF onto
  <2>2. QED
    BY <1>3, <2>1 DEF text
<1>5. \A k \in {"environment", "lot", "changeType"} : text(b, k) = text(common, k)
  BY <1>1, <1>3, OntoText
<1>6. b["environment"] = common["environment"]
  <2>1. text(b, "environment") # NoText
    BY <1>2 DEF validateDeploymentBody, parseEnvelope
  <2>2. QED
    BY <1>5, <2>1 DEF text
<1>7. /\ r.service = b.service /\ r.environment = b.environment
      /\ r.version = text(b, "version") /\ r.lot = orElse(text(b, "lot"), text(b, "version"))
      /\ r.changeType = b.changeType
  BY <1>1, DeploymentIs
<1>8. ASSUME "lot" \in DOMAIN common
      PROVE  r.lot = common.lot
  <2>1. text(b, "lot") = common.lot /\ common.lot # NoText
    BY <1>5, <1>8 DEF text
  <2>2. QED
    BY <1>7, <2>1 DEF orElse
<1>9. ~ isPhase(r.changeType)
  <2>1. r.changeType = text(common, "changeType")
    BY <1>2, <1>5, <1>7, ChangeTypeIsGiven
  <2>2. QED
    BY <2>1 DEF noPhase
<1>10. QED
  BY <1>1, <1>2, <1>3, <1>4, <1>6, <1>7, <1>8, <1>9

\* A phase is written where its parent is, on its side of it.
LEMMA EventRowIs ==
    ASSUME NEW q, validBody(q.type, q.body), phaseOf(q) => onItsSide(q),
           q.type = "DEPLOYMENT" => parentThere(q.body)
    PROVE  LET r == newRow(q.type, inherited(q), Now)
           IN  isPhase(r.changeType) =>
                 /\ r.parentId \in DOMAIN events
                 /\ r.environment = events[r.parentId].environment
                 /\ IF r.changeType = "PRE_MEP" THEN r.occurredAt < events[r.parentId].occurredAt
                    ELSE r.occurredAt > events[r.parentId].occurredAt
<1>1. q.type \in {"DEPLOYMENT", "INCIDENT", "MAINTENANCE"}
  BY DEF validBody
<1>2. CASE q.type \in {"INCIDENT", "MAINTENANCE"}
  BY <1>2, NoPhaseOfTheirs
<1>3. CASE q.type = "DEPLOYMENT"
  <2>1. PICK b, r : b = inherited(q) /\ r = newRow("DEPLOYMENT", b, Now)
    OBVIOUS
  <2>2. validateDeploymentBody(q.body)
    BY <1>3 DEF validBody
  <2>3. /\ r.environment = b.environment /\ r.occurredAt = occurredAt("DEPLOYMENT", b, Now)
        /\ r.changeType = b.changeType /\ r.parentId = text(b, "parentId")
    BY <2>1, DeploymentIs
  <2>4. CASE isPhase(q.body.changeType)
    <3>1. phaseOf(q) /\ onItsSide(q)
      BY <1>3, <2>4 DEF phaseOf
    <3>2. PICK e : e = parentOf(q).environment /\ b = put(q.body, "environment", e)
      BY <2>1, <3>1 DEF inherited
    <3>3. /\ DOMAIN b = DOMAIN q.body \cup {"environment"} /\ b["environment"] = e
          /\ \A k \in DOMAIN q.body \ {"environment"} : b[k] = q.body[k]
      BY <3>2 DEF put, onto
    <3>4. text(b, "parentId") = text(q.body, "parentId") /\ text(q.body, "parentId") \in DOMAIN events
      <4>1. text(q.body, "parentId") # NoText
        BY <2>2, <2>4, ChangeTypeIsGiven
      <4>2. QED
        BY <1>3, <3>3, <4>1 DEF text, parentThere
    <3>5. q.body["parentId"] = text(q.body, "parentId")
      <4>1. text(q.body, "parentId") # NoText
        BY <2>2, <2>4, ChangeTypeIsGiven
      <4>2. QED
        BY <4>1 DEF text
    <3>6. b["changeType"] = q.body["changeType"]
      <4>1. text(q.body, "changeType") \in ChangeTypes /\ NoText \notin ChangeTypes
        BY <2>2 DEF validateDeploymentBody, ChangeTypes, NoText
      <4>2. "changeType" \in DOMAIN q.body
        BY <4>1 DEF text
      <4>3. QED
        BY <3>3, <4>2
    <3>7. occurredAt("DEPLOYMENT", b, Now) = occurredAt("DEPLOYMENT", q.body, Now)
      BY <3>3 DEF occurredAt
    <3>8. r.parentId = q.body.parentId /\ parentOf(q) = events[r.parentId] /\ r.parentId \in DOMAIN events
      BY <2>3, <3>4, <3>5 DEF parentOf
    <3>9. r.environment = events[r.parentId].environment
      BY <2>3, <3>2, <3>3, <3>8
    <3>10. IF r.changeType = "PRE_MEP" THEN r.occurredAt < events[r.parentId].occurredAt
           ELSE r.occurredAt > events[r.parentId].occurredAt
      BY <2>3, <3>1, <3>6, <3>7, <3>8 DEF onItsSide
    <3>11. QED
      BY <1>3, <2>1, <3>8, <3>9, <3>10
  <2>5. CASE ~ isPhase(q.body.changeType)
    <3>1. b = q.body
      BY <2>1, <2>5 DEF inherited, phaseOf
    <3>2. ~ isPhase(r.changeType)
      BY <2>3, <2>5, <3>1
    <3>3. QED
      BY <1>3, <2>1, <3>2
  <2>6. QED
    BY <2>4, <2>5
<1>4. QED
  BY <1>1, <1>2, <1>3

-------------------------------------------------------------------------------
(***************************************************************************)
(* Whole, or not at all.                                                   *)
(***************************************************************************)
Written == DOMAIN events' \ DOMAIN events

Changed == {i \in DOMAIN events : events'[i] # events[i]}

\* Rows that are created are all of them in environments that are there.
LEMMA CreatedAre ==
    ASSUME NEW q, NEW n \in Nat, DOMAIN created(q) = 1..n
    PROVE  /\ \A k \in 1..n : created(q)[k].environment \in active
           /\ n # 0 => created(q) = IF q.op = "lot" THEN lotRows(q) ELSE eventRows(q)
<1>1. PICK R : R = IF q.op = "lot" THEN lotRows(q) ELSE eventRows(q)
  OBVIOUS
<1>2. created(q) = IF \A r \in ToSet(R) : r.environment \in active THEN R ELSE << >>
  BY <1>1 DEF created
<1>3. CASE \A r \in ToSet(R) : r.environment \in active
  <2>1. created(q) = R /\ ToSet(R) = {R[k] : k \in 1..n}
    BY <1>2, <1>3 DEF ToSet
  <2>2. QED
    BY <1>1, <1>3, <2>1
<1>4. CASE ~ \A r \in ToSet(R) : r.environment \in active
  <2>1. PICK none : none = << >> /\ created(q) = none
    BY <1>2, <1>4
  <2>2. DOMAIN none = 1..0
    BY <2>1
  <2>3. n = 0
    BY <2>1, <2>2
  <2>4. QED
    BY <2>3
<1>5. QED
  BY <1>3, <1>4

LEMMA GroupIsWhole ==
    ASSUME serve, posted.op = "existing"
    PROVE  /\ Written = {} /\ Changed \subseteq posted.ids
           /\ \A i \in Changed : events'[i] = [events[i] EXCEPT !.lot = posted.lot]
<1>1. events' = assignLot(posted)
  BY DEF serve
<1>2. DOMAIN events' = DOMAIN events
  BY <1>1 DEF assignLot
<1>3. Written = {}
  BY <1>2 DEF Written
<1>4. ASSUME NEW i \in Changed
      PROVE  i \in posted.ids /\ events'[i] = [events[i] EXCEPT !.lot = posted.lot]
  <2>1. i \in DOMAIN events /\ events'[i] # events[i]
    BY DEF Changed
  <2>2. PICK e : e = [events[i] EXCEPT !.lot = posted.lot]
    OBVIOUS
  <2>3. events'[i] = IF i \in posted.ids /\ events[i].type = "DEPLOYMENT" THEN e ELSE events[i]
    BY <1>1, <2>1, <2>2 DEF assignLot
  <2>4. QED
    BY <2>1, <2>2, <2>3
<1>5. QED
  BY <1>3, <1>4

\* One row for each line of a lot, in the order of the lines.
LEMMA LotRowsAre ==
    ASSUME NEW q, NEW n \in Nat, n # 0, DOMAIN lotRows(q) = 1..n
    PROVE  /\ n = Len(q.items)
           /\ \A k \in 1..n : /\ accepts(q.common, q.items[k])
                             /\ lotRows(q)[k] = newRow("DEPLOYMENT", lotBody(q.common, q.items[k]), Now)
<1>0. Len(q.items) \in Nat
  OBVIOUS
<1>1. PICK m : m \in Nat /\ m = Len(q.items)
  BY <1>0
<1>2. CASE \A k \in 1..m : accepts(q.common, q.items[k])
  <2>1. lotRows(q) = [k \in 1..m |-> newRow("DEPLOYMENT", lotBody(q.common, q.items[k]), Now)]
    BY <1>1, <1>2 DEF lotRows
  <2>2. 1..m = 1..n
    BY <2>1
  <2>3. m = n
    BY <1>1, <2>2
  <2>4. QED
    BY <1>1, <1>2, <2>1, <2>3
<1>3. CASE ~ \A k \in 1..m : accepts(q.common, q.items[k])
  <2>1. PICK none : none = << >> /\ lotRows(q) = none
    BY <1>1, <1>3 DEF lotRows
  <2>2. DOMAIN none = 1..0
    BY <2>1
  <2>3. QED
    BY <2>1, <2>2
<1>4. QED
  BY <1>2, <1>3

LEMMA EventRowsAre ==
    ASSUME NEW q, NEW n \in Nat, n # 0, DOMAIN eventRows(q) = 1..n
    PROVE  /\ validBody(q.type, q.body) /\ (phaseOf(q) => onItsSide(q))
           /\ \A k \in 1..n : eventRows(q)[k] = newRow(q.type, inherited(q), Now)
<1>1. PICK r, one, none : /\ r = newRow(q.type, inherited(q), Now)
                          /\ one = << r >> /\ none = << >>
  OBVIOUS
<1>2. DOMAIN one = 1..1 /\ one[1] = r /\ DOMAIN none = 1..0
  BY <1>1
<1>3. eventRows(q) # none
  BY <1>2
<1>4. validBody(q.type, q.body) /\ (phaseOf(q) => onItsSide(q)) /\ eventRows(q) = one
  BY <1>1, <1>3 DEF eventRows
<1>5. \A k \in 1..n : k = 1
  <2>1. 1..n = 1..1
    BY <1>2, <1>4
  <2>2. QED
    BY <2>1
<1>6. QED
  BY <1>1, <1>2, <1>4, <1>5

LEMMA CreatedWhole ==
    ASSUME DialogsInv, serve, posted # NoPost, posted.op # "existing", events' # events
    PROVE  /\ Changed = {}
           /\ \A i \in Written : events'[i].environment \in active
           /\ posted.op = "lot" => wholeLot(posted, Written)
           /\ phasesStandBesideTheirParents(Written)
<1>1. PICK R : R = created(posted)
  OBVIOUS
<1>2. Cardinality(DOMAIN events) + Len(R) <= Len(Ids) /\ events' = with(R)
  BY <1>1 DEF serve
<1>3. PICK n \in Nat : DOMAIN R = 1..n /\ Len(R) = n
  BY <1>1, CreatedIs
<1>4. PICK used : used = Cardinality(DOMAIN events)
  OBVIOUS
<1>5. idsInOrder(events) /\ PostedThere
  BY DEF DialogsInv
<1>6. /\ DOMAIN events' = DOMAIN events \cup newIds(n)
      /\ \A i \in DOMAIN events : events'[i] = events[i]
      /\ \A k \in 1..n : events'[Ids[used + k]] = R[k]
  <2>1. DOMAIN with(R) = DOMAIN events \cup newIds(n)
    BY <1>2, <1>3, <1>5, WithIs
  <2>2. \A i \in DOMAIN events : with(R)[i] = events[i]
    BY <1>2, <1>3, <1>5, WithIs
  <2>3. \A k \in 1..n : with(R)[Ids[Cardinality(DOMAIN events) + k]] = R[k]
    BY <1>2, <1>3, <1>5, WithIs
  <2>4. QED
    BY <1>2, <1>4, <2>1, <2>2, <2>3
<1>7. newIds(n) \cap DOMAIN events = {} /\ Cardinality(newIds(n)) = n
  BY <1>2, <1>3, <1>5, NewIdsAreNew
<1>8. Written = newIds(n) /\ Changed = {}
  BY <1>6, <1>7 DEF Written, Changed
<1>9. Written = {Ids[used + k] : k \in 1..n}
  BY <1>4, <1>8 DEF newIds
<1>10. \A k \in 1..n : R[k].environment \in active
  BY <1>1, <1>3, CreatedAre
<1>11. \A i \in Written : events'[i].environment \in active
  BY <1>6, <1>9, <1>10
<1>12. CASE n = 0
  <2>1. Written = {}
    BY <1>9, <1>12
  <2>2. DOMAIN events' = DOMAIN events
    BY <1>6, <1>8, <2>1
  <2>3. events = [i \in DOMAIN events |-> events[i]] /\ events' = [i \in DOMAIN events' |-> events'[i]]
    BY <1>2, <1>5 DEF idsInOrder, with, onto
  <2>4. events' = events
    BY <1>6, <2>2, <2>3
  <2>5. QED
    BY <2>4
<1>13. CASE n # 0
  <2>1. R = IF posted.op = "lot" THEN lotRows(posted) ELSE eventRows(posted)
    BY <1>1, <1>3, <1>13, CreatedAre
  <2>2. CASE posted.op = "lot"
    <3>1. R = lotRows(posted)
      BY <2>1, <2>2
    <3>2. PICK q, I, C : q = posted /\ I = posted.items /\ C = posted.common
      OBVIOUS
    <3>3. /\ n = Len(I)
          /\ \A k \in 1..n : accepts(C, I[k]) /\ R[k] = newRow("DEPLOYMENT", lotBody(C, I[k]), Now)
      BY <1>3, <1>13, <3>1, <3>2, LotRowsAre
    <3>4. noPhase(C) /\ ("lot" \in DOMAIN C => C.lot # NoText)
      BY <1>5, <2>2, <3>2 DEF PostedThere
    <3>5. \A k \in 1..n :
            /\ R[k].service = Tree[<< I[k].company, I[k].product, I[k].service >>]
            /\ R[k].version = I[k].version
            /\ R[k].environment = C.environment
            /\ "lot" \in DOMAIN C => R[k].lot = C.lot
            /\ ~ isPhase(R[k].changeType)
      BY <3>3, <3>4, LotRowIs
    <3>6. rowsOf(Written) = {<< Tree[<< I[k].company, I[k].product, I[k].service >>], I[k].version >> : k \in 1..Len(I)}
      <4>1. \A k \in 1..n : << R[k].service, R[k].version >>
                           = << Tree[<< I[k].company, I[k].product, I[k].service >>], I[k].version >>
        BY <3>5
      <4>2. rowsOf(Written) = {<< R[k].service, R[k].version >> : k \in 1..n}
        <5>1. PICK ev : ev = events'
          OBVIOUS
        <5>2. rowsOf(Written) = {<< ev[i].service, ev[i].version >> : i \in Written}
          BY <5>1 DEF rowsOf
        <5>3. \A i \in Written : \E k \in 1..n : ev[i] = R[k]
          BY <1>6, <1>9, <5>1
        <5>4. \A k \in 1..n : \E i \in Written : ev[i] = R[k]
          BY <1>6, <1>9, <5>1
        <5>5. QED
          BY <5>2, <5>3, <5>4
      <4>3. QED
        BY <3>3, <4>1, <4>2
    <3>7. \A i \in Written : \E k \in 1..n : events'[i] = R[k]
      BY <1>6, <1>9
    <3>8. \A i \in Written : events'[i].environment = C.environment
      BY <3>5, <3>7
    <3>9. "lot" \in DOMAIN C => \A i \in Written : events'[i].lot = C.lot
      BY <3>5, <3>7
    <3>10. wholeLot(posted, Written)
      BY <1>7, <1>8, <3>2, <3>3, <3>6, <3>8, <3>9 DEF wholeLot
    <3>11. phasesStandBesideTheirParents(Written)
      BY <3>5, <3>7 DEF phasesStandBesideTheirParents
    <3>12. QED
      BY <1>8, <1>11, <3>10, <3>11
  <2>3. CASE posted.op # "lot"
    <3>1. R = eventRows(posted) /\ posted.op = "event"
      BY <1>5, <2>1, <2>3 DEF PostedThere
    <3>2. PICK r : r = newRow(posted.type, inherited(posted), Now)
      OBVIOUS
    <3>3. /\ validBody(posted.type, posted.body) /\ (phaseOf(posted) => onItsSide(posted))
          /\ \A k \in 1..n : R[k] = r
      BY <1>3, <1>13, <3>1, <3>2, EventRowsAre
    <3>4. posted.type = "DEPLOYMENT" => parentThere(posted.body)
      BY <1>5, <3>1 DEF PostedThere
    <3>5. isPhase(r.changeType) =>
              /\ r.parentId \in DOMAIN events
              /\ r.environment = events[r.parentId].environment
              /\ IF r.changeType = "PRE_MEP" THEN r.occurredAt < events[r.parentId].occurredAt
                 ELSE r.occurredAt > events[r.parentId].occurredAt
      BY <3>2, <3>3, <3>4, EventRowIs
    <3>6. \A i \in Written : events'[i] = r
      BY <1>6, <1>9, <3>3
    <3>7. phasesStandBesideTheirParents(Written)
      BY <3>5, <3>6 DEF phasesStandBesideTheirParents
    <3>8. QED
      BY <1>8, <1>11, <2>3, <3>7
  <2>4. QED
    BY <2>2, <2>3
<1>14. QED
  BY <1>12, <1>13

\* What a form's request writes, it writes whole or not at all, for any hierarchy, any
\* events and whatever anybody enters: a lot has a row for each complete line, of the
\* service it names, all of them in one environment that is still there; a phase stands
\* beside a parent that is there, on its side; a lot of what exists changes the lot of
\* what was ticked (createLotAction, createEventAction, createLotFromExistingAction).
THEOREM FormsAreWhole == DialogsSpec => FormsWriteWhole
<1>1. ASSUME DialogsInv, [\E Typed : DialogsStep(Typed)]_dialogVars,
             posted # NoPost, posted' = NoPost, events' # events
      PROVE  LET new == DOMAIN events' \ DOMAIN events
                 old == {i \in DOMAIN events : events'[i] # events[i]}
             IN  IF posted.op = "existing"
                 THEN /\ new = {} /\ old \subseteq posted.ids
                      /\ \A i \in old : events'[i] = [events[i] EXCEPT !.lot = posted.lot]
                 ELSE /\ old = {}
                      /\ \A i \in new : events'[i].environment \in active
                      /\ posted.op = "lot" => wholeLot(posted, new)
                      /\ phasesStandBesideTheirParents(new)
  <2>1. serve
    BY <1>1, OnlyServeEnds
  <2>2. CASE posted.op = "existing"
    BY <2>1, <2>2, GroupIsWhole DEF Written, Changed
  <2>3. CASE posted.op # "existing"
    BY <1>1, <2>1, <2>3, CreatedWhole DEF Written, Changed
  <2>4. QED
    BY <2>2, <2>3
<1>2. DialogsInv /\ [\E Typed : DialogsStep(Typed)]_dialogVars
        => [posted # NoPost /\ posted' = NoPost /\ events' # events =>
              LET new == DOMAIN events' \ DOMAIN events
                  old == {i \in DOMAIN events : events'[i] # events[i]}
              IN  IF posted.op = "existing"
                  THEN new = {} /\ old \subseteq posted.ids /\ \A i \in old : events'[i] = [events[i] EXCEPT !.lot = posted.lot]
                  ELSE /\ old = {}
                       /\ \A i \in new : events'[i].environment \in active
                       /\ posted.op = "lot" => wholeLot(posted, new)
                       /\ phasesStandBesideTheirParents(new)]_dialogVars
  BY <1>1
<1>3. QED
  BY <1>2, DialogsInvariant, PTL DEF DialogsSpec, FormsWriteWhole

-------------------------------------------------------------------------------
\* While the hierarchy, the settings, the sign-ins and the directory, the visitors and the
\* dialogs each do what theirs do, at any time and in any order, all their states stay
\* well typed, keys and slugs unique.
THEOREM TypesOfAll ==
    HierarchySpec /\ SettingsSpec /\ AccessSpec /\ VisibilitySpec /\ DialogsSpec => []AdministrationTypeOK
<1>1. HierarchySpec => []HierarchyTypeOK
  BY HierarchyTypesHold
<1>2. SettingsSpec => []SettingsTypeOK
  BY ConfigurationsStayApart
<1>3. AccessSpec => []AccessTypeOK
  BY TypesHold
<1>4. VisibilitySpec => []VisibilityTypeOK
  BY VisitsHaveTheirTypes
<1>5. DialogsSpec => []DialogsTypeOK
  BY ListsBelongToTheirLines
<1>6. HierarchyTypeOK /\ SettingsTypeOK /\ AccessTypeOK /\ VisibilityTypeOK /\ DialogsTypeOK => AdministrationTypeOK
  BY DEF AdministrationTypeOK
<1>7. QED
  BY <1>1, <1>2, <1>3, <1>4, <1>5, <1>6, PTL
================================================================================
