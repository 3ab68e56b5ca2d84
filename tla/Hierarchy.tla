------------------------------- MODULE Hierarchy -------------------------------
(***************************************************************************)
(* The nodes of the hierarchy under concurrent requests of administrators  *)
(* (src/src/lib/hierarchy.ts, lib/slug.ts and the routes over them): the   *)
(* slug a creation derives, query by query, moves under another parent,    *)
(* the main service of a product, and the display order that a screen of   *)
(* the administration (app/admin/page.tsx) exchanges by two requests.      *)
(*                                                                         *)
(* A node is a service, or what a product is to its company: the code is   *)
(* the same but for isMaster.  Companies have one parent, the application. *)
(* Nodes are not deleted: no route does.  A transaction holds the rows it  *)
(* wrote; a query reads what is committed.                                 *)
(***************************************************************************)
EXTENDS Integers, FiniteSets, Sequences, TLC

CONSTANTS Nodes,
          Parents,
          Slugs,       \* what the names people give become (slugify)
          Requests,    \* requests under way at once
          Screens,     \* administration pages open at once
          MaxStarts    \* bound: requests

Nowhere == "nowhere"

ASSUME HierarchyAssumption == MaxStarts \in Nat /\ Nowhere \notin Parents

NoNode == "none"

VARIABLES node,      \* node[n]: [parent, slug, main, order]
          request,   \* request[r]: where it is, and what it has read
          screen,    \* screen[s]: the list it shows, and the exchange it is about
          starts,
          marred,    \* history: parents where a promotion raced, or a main service came in
          jumbled    \* history: parents where an exchange or a creation raced or was
                     \* lost, or a node came in

hierarchyVars == << node, request, screen, starts, marred, jumbled >>

there == {n \in Nodes : node[n].parent # Nowhere}

under(p) == {n \in Nodes : node[n].parent = p}

mains(p) == {n \in under(p) : node[n].main}

orders(p) == {node[n].order : n \in under(p)}

\* Mutant: the rows are counted.
nextOrderCounted(p) == Cardinality(under(p))

nextOrder(p) == IF under(p) = {} THEN 0 ELSE 1 + CHOOSE o \in orders(p) : \A q \in orders(p) : q <= o

Idle == [pc |-> "idle", answer |-> "none", raced |-> FALSE]

NoScreen == [pc |-> "off"]

\* What earlier requests may have left.
HierarchyInit ==
    /\ node \in [Nodes -> [parent : Parents, slug : Slugs, main : BOOLEAN, order : 0..1]
                          \cup {[parent |-> Nowhere, slug |-> << >>, main |-> FALSE, order |-> 0]}]
    /\ \A n, m \in there : n # m /\ node[n].parent = node[m].parent =>
          /\ node[n].slug # node[m].slug
          /\ node[n].order # node[m].order
          /\ ~(node[n].main /\ node[m].main)
    /\ request = [r \in Requests |-> Idle]
    /\ screen = [s \in Screens |-> NoScreen]
    /\ starts = 0
    /\ marred = {}
    /\ jumbled = {}

-----------------------------------------------------------------------------
busy(r) == request[r].pc # "idle"

\* Requests and screens under way learn that another one wrote.
raced(f, mine) == [x \in DOMAIN f |-> IF x \in mine \/ f[x].pc \in {"idle", "off"} THEN f[x]
                                      ELSE [f[x] EXCEPT !.raced = TRUE]]

begin(r, q) ==
    /\ ~busy(r)
    /\ starts < MaxStarts
    /\ starts' = starts + 1
    /\ request' = [request EXCEPT ![r] = q]
    /\ UNCHANGED << node, screen, marred, jumbled >>

goOn(r, q) ==
    /\ request' = [request EXCEPT ![r] = q]
    /\ UNCHANGED << node, screen, starts, marred, jumbled >>

end(r, answer) == [request EXCEPT ![r] = [pc |-> "idle", answer |-> answer, raced |-> @.raced]]

refuse(r, answer) ==
    /\ request' = end(r, answer)
    /\ UNCHANGED << node, screen, starts, marred, jumbled >>

commit(r, answer, nodes) ==
    /\ node' = nodes
    /\ request' = raced(end(r, answer), {r})
    /\ screen' = raced(screen, {})
    /\ UNCHANGED starts

before(n, m) == node[n].order < node[m].order

\* Rows that a transaction under way has written.
held(r) == IF request[r].pc = "set" THEN request[r].demoted ELSE {}

free(n, r) == \A q \in Requests \ {r} : n \notin held(q)

-----------------------------------------------------------------------------
candidate(base, k) == IF k = 1 THEN base ELSE Append(base, k)

\* Mutant: a creation may take the slug of another node.
existsNot(p, slug) == FALSE

exists(p, slug) == \E n \in under(p) : node[n].slug = slug

\* createCompany, createProduct, createService: a free slug, the last order, the row.
create(r, p, base) == begin(r, [pc |-> "probe", parent |-> p, base |-> base, k |-> 1, raced |-> FALSE])

\* Mutant: the first candidate is not looked for.
takenFromTwo(q) == q.k > 1 /\ exists(q.parent, candidate(q.base, q.k))

taken(q) == exists(q.parent, candidate(q.base, q.k))

uniqueSlug(r) ==
    /\ request[r].pc = "probe"
    /\ LET q == request[r]
       IN  IF taken(q)
           THEN goOn(r, [q EXCEPT !.k = @ + 1])
           ELSE goOn(r, [pc |-> "rank", parent |-> q.parent, slug |-> candidate(q.base, q.k), raced |-> q.raced])

rank(r) ==
    /\ request[r].pc = "rank"
    /\ LET q == request[r]
       IN  goOn(r, [pc |-> "insert", parent |-> q.parent, slug |-> q.slug, order |-> nextOrder(q.parent),
                    raced |-> q.raced])

\* The unique constraint has the last word.
insert(r) ==
    /\ request[r].pc = "insert"
    /\ LET q == request[r]
       IN  IF exists(q.parent, q.slug)
           THEN refuse(r, "exists")
           ELSE \E n \in Nodes \ there :
                   /\ commit(r, "created", [node EXCEPT ![n] = [parent |-> q.parent, slug |-> q.slug,
                                                                main |-> FALSE, order |-> q.order]])
                   /\ jumbled' = IF q.raced THEN jumbled \cup {q.parent} ELSE jumbled
                   /\ UNCHANGED marred

\* moveService, moveProduct: the row, the clash, the update.
move(r, n, p) ==
    /\ n \in there
    /\ begin(r, [pc |-> "clash", node |-> n, to |-> p, slug |-> node[n].slug, raced |-> FALSE])

clash(r) ==
    /\ request[r].pc = "clash"
    /\ IF \E n \in under(request[r].to) \ {request[r].node} : node[n].slug = request[r].slug
       THEN refuse(r, "clash")
       ELSE goOn(r, [request[r] EXCEPT !.pc = "place"])

place(r) ==
    /\ request[r].pc = "place"
    /\ LET q == request[r]
       IN  /\ free(q.node, r)
           /\ IF \E n \in under(q.to) \ {q.node} : node[n].slug = node[q.node].slug
              THEN refuse(r, "error")
              ELSE /\ commit(r, "moved", [node EXCEPT ![q.node].parent = q.to])
                   /\ jumbled' = jumbled \cup {q.to}
                   /\ marred' = IF node[q.node].main THEN marred \cup {q.to} ELSE marred

-----------------------------------------------------------------------------
\* updateService with isMaster: the product is read before the transaction ...
promote(r, n) ==
    /\ n \in there
    /\ begin(r, [pc |-> "siblings", node |-> n, parent |-> node[n].parent, raced |-> FALSE])

\* Mutant: a service that was created later is left the main one.
siblingsAbove(q) == {n \in mains(q.parent) : before(n, q.node)}

siblings(q) == mains(q.parent) \ {q.node}

\* ... updateMany finds the main ones, waits for those another transaction holds, and
\* demotes what still is one ...
findSiblings(r) ==
    /\ request[r].pc = "siblings"
    /\ LET q == request[r]
       IN  goOn(r, [pc |-> "demote", node |-> q.node, parent |-> q.parent, found |-> siblings(q), raced |-> q.raced])

demote(r) ==
    /\ request[r].pc = "demote"
    /\ LET q == request[r]
       IN  /\ \A n \in q.found : free(n, r)
           /\ goOn(r, [pc |-> "set", node |-> q.node, demoted |-> q.found \cap mains(q.parent), raced |-> q.raced])

\* ... and the service itself is made the main one, with the other columns of the body.
setMain(r) ==
    /\ request[r].pc = "set"
    /\ LET q == request[r]
           p == node[q.node].parent
       IN  /\ free(q.node, r)
           /\ marred' = IF q.raced THEN marred \cup {p} ELSE marred \ {p}
           /\ UNCHANGED jumbled
           /\ commit(r, "promoted", [n \in Nodes |-> IF n = q.node THEN [node[n] EXCEPT !.main = TRUE]
                                                     ELSE IF n \in q.demoted THEN [node[n] EXCEPT !.main = FALSE]
                                                     ELSE node[n]])

\* A transaction is rolled back: a deadlock, a time-out.
rollBack(r) ==
    /\ request[r].pc \in {"demote", "set"}
    /\ refuse(r, "rolled back")

\* updateService without isMaster = true: one update.
unsetMain(n) ==
    /\ n \in there
    /\ node[n].main
    /\ starts < MaxStarts
    /\ starts' = starts + 1
    /\ \A r \in Requests : n \notin held(r)
    /\ node' = [node EXCEPT ![n].main = FALSE]
    /\ request' = raced(request, {})
    /\ screen' = raced(screen, {})
    /\ UNCHANGED << marred, jumbled >>

-----------------------------------------------------------------------------
\* A screen lists p, by sortOrder ...
list(s, p) ==
    /\ screen[s].pc = "off"
    /\ screen' = [screen EXCEPT ![s] = [pc |-> "listed", parent |-> p, raced |-> FALSE,
                                        shown |-> [n \in under(p) |-> node[n].order]]]
    /\ UNCHANGED << node, request, starts, marred, jumbled >>

neighbours(shown, n, m) ==
    /\ n # m
    /\ {n, m} \subseteq DOMAIN shown
    /\ shown[n] <= shown[m]
    /\ \A l \in DOMAIN shown \ {n, m} : ~(shown[n] <= shown[l] /\ shown[l] <= shown[m])

\* ... an arrow of it sends two requests at once, with the orders it shows ...
moveServiceOrder(s, n, m) ==
    /\ screen[s].pc = "listed"
    /\ starts < MaxStarts
    /\ starts' = starts + 1
    /\ LET shown == screen[s].shown
       IN  /\ neighbours(shown, n, m)
           /\ screen' = [screen EXCEPT ![s] = [pc |-> "swap", parent |-> @.parent, raced |-> @.raced,
                                               put |-> [l \in {n, m} |-> shown[IF l = n THEN m ELSE n]]]]
    /\ UNCHANGED << node, request, marred, jumbled >>

rest(s, n) == [m \in DOMAIN screen[s].put \ {n} |-> screen[s].put[m]]

\* ... each of which finds its row by its slugs or does not, or is lost ...
putOrder(s, n) ==
    /\ screen[s].pc = "swap"
    /\ n \in DOMAIN screen[s].put
    /\ \A r \in Requests : n \notin held(r)
    /\ screen' = raced([screen EXCEPT ![s].put = rest(s, n)], {s})
    /\ IF node[n].parent = screen[s].parent
       THEN /\ node' = [node EXCEPT ![n].order = screen[s].put[n]]
            /\ jumbled' = jumbled \cup (IF screen[s].raced THEN {screen[s].parent} ELSE {})
       ELSE /\ UNCHANGED node
            /\ jumbled' = jumbled \cup {screen[s].parent}
    /\ request' = raced(request, {})
    /\ UNCHANGED << starts, marred >>

loseOrder(s, n) ==
    /\ screen[s].pc = "swap"
    /\ n \in DOMAIN screen[s].put
    /\ screen' = [screen EXCEPT ![s].put = rest(s, n)]
    /\ jumbled' = jumbled \cup {screen[s].parent}
    /\ UNCHANGED << node, request, starts, marred >>

\* ... and the list is loaded again.
reload(s) ==
    /\ screen[s].pc = "swap"
    /\ DOMAIN screen[s].put = {}
    /\ screen' = [screen EXCEPT ![s] = NoScreen]
    /\ UNCHANGED << node, request, starts, marred, jumbled >>

-----------------------------------------------------------------------------
requestStep(r) ==
    \/ \E p \in Parents, base \in Slugs : create(r, p, base)
    \/ \E n \in Nodes, p \in Parents : move(r, n, p)
    \/ \E n \in Nodes : promote(r, n)
    \/ uniqueSlug(r)
    \/ rank(r)
    \/ insert(r)
    \/ clash(r)
    \/ place(r)
    \/ findSiblings(r)
    \/ demote(r)
    \/ setMain(r)
    \/ rollBack(r)

screenStep(s) ==
    \/ \E p \in Parents : list(s, p)
    \/ \E n, m \in Nodes : moveServiceOrder(s, n, m)
    \/ \E n \in Nodes : putOrder(s, n) \/ loseOrder(s, n)
    \/ reload(s)

HierarchyNext ==
    \/ \E r \in Requests : requestStep(r)
    \/ \E s \in Screens : screenStep(s)
    \/ \E n \in Nodes : unsetMain(n)

HierarchySpec == HierarchyInit /\ [][HierarchyNext]_hierarchyVars

-----------------------------------------------------------------------------
HierarchyTypeOK ==
    /\ \A n \in Nodes : /\ node[n].parent \in Parents \cup {Nowhere}
                        /\ node[n].order \in Nat
                        /\ node[n].main => n \in there
    /\ \A n, m \in there : node[n].parent = node[m].parent /\ node[n].slug = node[m].slug => n = m
    /\ \A r \in Requests : request[r].pc \in
          {"idle", "probe", "rank", "insert", "clash", "place", "siblings", "demote", "set"}
    /\ marred \cup jumbled \subseteq Parents

\* A product has at most one main service (updateService: "Master is exclusive per
\* product") unless a promotion raced other requests, or a main service was moved in,
\* since the last promotion that nothing disturbed: that one demotes them all.
OneMainService == \A p \in Parents \ marred : Cardinality(mains(p)) <= 1

\* A creation answers that the name exists, and a move fails on the constraint, only
\* when another request wrote in the meantime: the slug of a creation counts up until it
\* is free, a move asks first (uniqueSlug, moveService).
ConflictMeansRace ==
    \A r \in Requests : request[r].pc = "idle" /\ request[r].answer \in {"exists", "error"} => request[r].raced

\* Siblings have orders of their own, so that an arrow can exchange them, as long as
\* creations and exchanges did not race or lose a request, and no node was moved in:
\* it keeps the order it had elsewhere.
OrdersStayDistinct ==
    \A p \in Parents \ jumbled :
        (\A s \in Screens : screen[s].pc = "swap" => screen[s].parent # p) =>
            \A n, m \in under(p) : node[n].order = node[m].order => n = m

\* As the comment has it, whatever was moved.
MasterIsExclusive == \A p \in Parents : Cardinality(mains(p)) <= 1
=============================================================================
