---------------------------- MODULE AutoLotProofs ----------------------------
(***************************************************************************)
(* Theorems about AutoLot, for every number of deployments, dates, sweeps  *)
(* and requests, every window and either naming.                           *)
(*                                                                         *)
(* A sweep that runs alone goes by date.  The invariant says that what it  *)
(* has passed is grouped for good: a deployment that it passed is in one   *)
(* lot with all its neighbours, and a later group that takes some of them  *)
(* takes its name from the earliest, so that no neighbour is left behind.  *)
(***************************************************************************)
EXTENDS AutoLot, FiniteSetTheorems, FunctionTheorems, TLAPS

IsTask(t) ==
    /\ t = [pc |-> t.pc, ev |-> t.ev, seen |-> t.seen, cands |-> t.cands]
    /\ t.pc \in {"attach", "counting", "searching", "sifting"}
    /\ t.ev \in live
    /\ t.seen \cup t.cands \subseteq Cand
    /\ t.pc # "sifting" => t.cands = {}

\* What is not grouped by the code has no label of the code's.
RowsTyped ==
    /\ row \in [Recent -> [at : Times \cup {0}, lot : Labels, auto : BOOLEAN, live : BOOLEAN]]
    /\ \A d \in live : row[d].at = At[d] /\ (~row[d].auto => row[d].lot[2] = 0)

TasksTyped ==
    /\ task = [w \in Workers |-> task[w]]
    /\ \A w \in Workers : task[w] = NoTask \/ IsTask(task[w])
    /\ queue \in [Sweeps -> SUBSET live]
    /\ calm \in Sweeps \cup {"settled", "none"}

Together(d, e) ==
    row[d].auto /\ row[e].auto /\ row[d].lot = row[e].lot /\ row[d].lot # NoLot

Meets(d, e) == d # e /\ e \in neighbours(d) /\ free(d) /\ free(e) => Together(d, e)

\* What an attachment has read is as it is.
Fresh(t) ==
    /\ t.pc = "counting" => t.seen = {cand(t.ev)} /\ ~row[t.ev].auto
    /\ t.pc \in {"searching", "sifting"} => free(t.ev)
    /\ t.pc = "sifting" =>
          /\ t.seen \cup t.cands \subseteq {cand(e) : e \in neighbours(t.ev)}
          /\ \A e \in neighbours(t.ev) : free(e) => cand(e) \in t.seen \cup t.cands
          /\ \A e \in live : cand(e) \in t.cands => free(e)

\* What the sweep has still to pass, the attachment under way included.
ahead(s) == queue[s] \cup (IF task[s] = NoTask THEN {} ELSE {task[s].ev})

Sweeping(s) ==
    /\ \A d \in live \ ahead(s), e \in ahead(s) : row[d].at <= row[e].at
    /\ task[s] # NoTask =>
          /\ task[s].ev \notin queue[s]
          /\ \A e \in queue[s] : row[task[s].ev].at <= row[e].at
    /\ \A d \in live \ ahead(s), e \in live : Meets(d, e)

CalmInv ==
    /\ calm # "none" => unmixed /\ \A w \in Workers : task[w] # NoTask => Fresh(task[w])
    /\ calm \in Sweeps => Sweeping(calm) /\ \A w \in Workers \ {calm} : idle(w)
    /\ calm = "settled" => \A d, e \in live : Meets(d, e)

LotInv == RowsTyped /\ TasksTyped /\ CalmInv

-----------------------------------------------------------------------------
(***************************************************************************)
(* Counting.                                                               *)
(***************************************************************************)
LEMMA TwoMembers ==
    ASSUME NEW S, IsFiniteSet(S)
    PROVE  Cardinality(S) > 1 <=> \E x, y \in S : x # y
<1>1. Cardinality(S) \in Nat
  BY FS_CardinalityType
<1>2. ASSUME NEW x \in S, NEW y \in S, x # y PROVE Cardinality(S) > 1
  <2>1. IsFiniteSet({x, y}) /\ Cardinality({x, y}) = 2
    <3>1. IsFiniteSet({x}) /\ Cardinality({x}) = 1
      BY FS_Singleton
    <3>2. {x} \cup {y} = {x, y} /\ y \notin {x}
      BY <1>2
    <3>3. QED
      BY <3>1, <3>2, FS_AddElement
  <2>2. {x, y} \subseteq S
    BY <1>2
  <2>3. Cardinality({x, y}) <= Cardinality(S)
    BY <2>2, FS_Subset
  <2>4. QED
    BY <1>1, <2>1, <2>3
<1>3. ASSUME ~ \E x, y \in S : x # y PROVE Cardinality(S) <= 1
  <2>1. CASE S = {}
    BY <2>1, FS_EmptySet
  <2>2. CASE S # {}
    <3>1. PICK x : S = {x}
      BY <1>3, <2>2
    <3>2. QED
      BY <3>1, FS_Singleton
  <2>3. QED
    BY <2>1, <2>2
<1>4. QED
  BY <1>1, <1>2, <1>3

\* A lot with several members.
holders(l) == {d \in live : row[d].lot = l}

LEMMA MultiIs ==
    ASSUME NEW l
    PROVE  /\ isMultiMember(l) <=> l # NoLot /\ \E d, e \in holders(l) : d # e
           /\ isMultiMember(l)' <=> l # NoLot /\ \E d, e \in holders(l)' : d # e
<1>1. holders(l) \subseteq Recent /\ holders(l)' \subseteq Recent
  BY DEF holders, live
<1>2. IsFiniteSet(holders(l)) /\ IsFiniteSet(holders(l)')
  BY <1>1, LotAssumption, FS_Subset
<1>3. Cardinality(holders(l)) > 1 <=> \E d, e \in holders(l) : d # e
  BY <1>2, TwoMembers
<1>4. PICK H : H = holders(l)'
  OBVIOUS
<1>5. Cardinality(H) > 1 <=> \E d, e \in H : d # e
  BY <1>2, <1>4, TwoMembers
<1>6. isMultiMember(l) <=> l # NoLot /\ Cardinality(holders(l)) > 1
  BY DEF isMultiMember, holders
<1>7. isMultiMember(l)' <=> l # NoLot /\ Cardinality(H) > 1
  BY <1>4 DEF isMultiMember, holders, NoLot
<1>8. QED
  BY <1>3, <1>4, <1>5, <1>6, <1>7

\* What a query returned of some rows, and the identifiers in it.
LEMMA CandsAre ==
    ASSUME NEW D \in SUBSET live, NEW C \in SUBSET {cand(e) : e \in D}
    PROVE  /\ IsFiniteSet(C)
           /\ \A c \in C : c.id \in D /\ c = cand(c.id)
           /\ \A e \in live : e \in {c.id : c \in C} <=> cand(e) \in C
           /\ {c.id : c \in C} \subseteq D
<1>1. \A e : cand(e).id = e
  BY DEF cand
<1>2. \A c \in C : c.id \in D /\ c = cand(c.id)
  BY <1>1
<1>3. IsFiniteSet({c.id : c \in C})
  <2>1. {c.id : c \in C} \subseteq Recent
    BY <1>2 DEF live
  <2>2. QED
    BY <2>1, LotAssumption, FS_Subset
<1>4. IsFiniteSet(C)
  <2>1. PICK f : f = [c \in C |-> c.id]
    OBVIOUS
  <2>2. PICK I : I = {c.id : c \in C}
    OBVIOUS
  <2>3. f \in [C -> I] /\ \A b, c \in C : f[b] = f[c] => b = c
    BY <1>2, <2>1, <2>2
  <2>4. f \in Injection(C, I)
    BY <2>3, Fun_IsInj
  <2>5. QED
    BY <1>3, <2>2, <2>4, FS_Injection
<1>5. QED
  BY <1>1, <1>2, <1>4

-----------------------------------------------------------------------------
(***************************************************************************)
(* The lot of a group.                                                     *)
(***************************************************************************)
\* It is the lot of the first of them that the code had grouped, or a label of the
\* code's when it had grouped none.
Names(lot, C) ==
    \/ \E c \in C : /\ c.auto /\ c.lot = lot /\ lot # NoLot
                     /\ \A e \in C : e.auto /\ e.lot # NoLot => c.at <= e.at
    \/ lot[2] # 0 /\ \A e \in C : ~(e.auto /\ e.lot # NoLot)

LEMMA LotIsNamed ==
    ASSUME NEW C \in SUBSET Cand, NEW t0 \in Times, NEW lot \in lotFor(C)
    PROVE  lot \in Labels /\ lot # NoLot /\ Names(lot, C)
<1> DEFINE grouped1 == {c \in C : c.auto /\ c.lot # NoLot}
           masters1 == {c \in C : c.id \in Masters}
<1>1. PICK anchor : anchor = CHOOSE t \in Times : \A c \in earliest(C) : c.at = t
  OBVIOUS
<1>2. lot \in IF grouped1 # {} THEN {c.lot : c \in earliest(grouped1)}
             ELSE IF NamedByMaster /\ masters1 # {}
                  THEN {<< c.id, anchor >> : c \in earliest(masters1)}
                  ELSE {<< "LOT-AUTO", anchor >>}
  BY <1>1 DEF lotFor
<1>3. Times \subseteq Nat \ {0}
  BY LotAssumption DEF Times
<1>4. anchor \in Times
  <2>1. \E t \in Times : \A c \in earliest(C) : c.at = t
    <3>1. CASE earliest(C) = {}
      BY <3>1
    <3>2. CASE earliest(C) # {}
      <4>1. PICK c \in earliest(C) : TRUE
        BY <3>2
      <4>2. c \in C /\ c.at \in Times
        BY <4>1 DEF earliest, Cand
      <4>3. \A e \in earliest(C) : e.at \in Times /\ c.at <= e.at /\ e.at <= c.at
        BY <4>1, <4>2 DEF earliest, Cand
      <4>4. \A e \in earliest(C) : e.at = c.at
        <5>1. ASSUME NEW e \in earliest(C) PROVE e.at = c.at
          <6>1. e.at \in Nat /\ c.at \in Nat /\ c.at <= e.at /\ e.at <= c.at
            BY <1>3, <4>2, <4>3
          <6>2. QED
            BY <6>1
        <5>2. QED
          BY <5>1
      <4>5. QED
        BY <4>2, <4>4
    <3>3. QED
      BY <3>1, <3>2
  <2>2. QED
    BY <1>1, <2>1
<1>5. CASE grouped1 # {}
  <2>1. PICK c \in earliest(grouped1) : lot = c.lot
    BY <1>2, <1>5
  <2>2. c \in C /\ c.auto /\ c.lot # NoLot /\ \A e \in grouped1 : c.at <= e.at
    BY <2>1 DEF earliest
  <2>3. c.lot \in Labels
    BY <2>2 DEF Cand
  <2>4. QED
    BY <2>1, <2>2, <2>3 DEF Names
<1>6. CASE grouped1 = {}
  <2>1. PICK stem \in {"LOT-AUTO"} \cup Masters : lot = << stem, anchor >>
    <3>1. CASE NamedByMaster /\ masters1 # {}
      BY <1>2, <1>6, <3>1 DEF earliest
    <3>2. CASE ~(NamedByMaster /\ masters1 # {})
      BY <1>2, <1>6, <3>2
    <3>3. QED
      BY <3>1, <3>2
  <2>2. lot \in Labels
    BY <1>4, <2>1 DEF Labels
  <2>3. lot[2] = anchor /\ anchor # 0
    BY <1>3, <1>4, <2>1
  <2>4. NoLot[2] = 0
    BY DEF NoLot
  <2>5. QED
    BY <1>6, <2>2, <2>3, <2>4 DEF Names
<1>7. QED
  BY <1>5, <1>6

\* updateMany.
Regrouped(D, lot) ==
    row' = [d \in Recent |-> IF d \in D THEN deployment(d, lot, TRUE) ELSE row[d]]

LEMMA RegroupedIs ==
    ASSUME RowsTyped, NEW D \in SUBSET Recent, NEW lot \in Labels, Regrouped(D, lot)
    PROVE  /\ RowsTyped' /\ live' = live \cup D
           /\ \A d \in D : row'[d].auto /\ row'[d].lot = lot /\ row'[d].at = At[d] /\ row'[d] = deployment(d, lot, TRUE)
           /\ \A d \in Recent \ D : row'[d] = row[d]
<1>1. \A d \in Recent : row'[d] = IF d \in D THEN deployment(d, lot, TRUE) ELSE row[d]
  BY DEF Regrouped
<1>2. ASSUME NEW d \in D
      PROVE  /\ row'[d] = [at |-> At[d], lot |-> lot, auto |-> TRUE, live |-> TRUE]
             /\ row'[d].auto = TRUE /\ row'[d].lot = lot /\ row'[d].at = At[d] /\ row'[d].live = TRUE
  <2>1. row'[d] = [at |-> At[d], lot |-> lot, auto |-> TRUE, live |-> TRUE]
    BY <1>1 DEF deployment
  <2>2. PICK r : r = [at |-> At[d], lot |-> lot, auto |-> TRUE, live |-> TRUE]
    OBVIOUS
  <2>3. r.auto = TRUE /\ r.lot = lot /\ r.at = At[d] /\ r.live = TRUE
    BY <2>2
  <2>4. QED
    BY <2>1, <2>2, <2>3
<1>3. live' = live \cup D
  BY <1>1, <1>2 DEF live
<1>4. \A d \in Recent : row'[d] \in [at : Times \cup {0}, lot : Labels, auto : BOOLEAN, live : BOOLEAN]
  <2>1. ASSUME NEW d \in D PROVE row'[d] \in [at : Times \cup {0}, lot : Labels, auto : BOOLEAN, live : BOOLEAN]
    <3>1. At[d] \in Times
      BY DEF Times
    <3>2. [at |-> At[d], lot |-> lot, auto |-> TRUE, live |-> TRUE]
             \in [at : Times \cup {0}, lot : Labels, auto : BOOLEAN, live : BOOLEAN]
      BY <3>1
    <3>3. QED
      BY <1>2, <3>2
  <2>2. ASSUME NEW d \in Recent \ D
        PROVE  row'[d] \in [at : Times \cup {0}, lot : Labels, auto : BOOLEAN, live : BOOLEAN]
    BY <1>1 DEF RowsTyped
  <2>3. QED
    BY <2>1, <2>2
<1>5. row' \in [Recent -> [at : Times \cup {0}, lot : Labels, auto : BOOLEAN, live : BOOLEAN]]
  BY <1>4 DEF Regrouped
<1>6. \A d \in live' : row'[d].at = At[d] /\ (~row'[d].auto => row'[d].lot[2] = 0)
  <2>1. ASSUME NEW d \in live \ D PROVE row'[d].at = At[d] /\ (~row'[d].auto => row'[d].lot[2] = 0)
    BY <1>1 DEF RowsTyped, live
  <2>2. QED
    BY <1>2, <1>3, <2>1
<1>7. QED
  BY <1>1, <1>2, <1>3, <1>5, <1>6 DEF RowsTyped

-----------------------------------------------------------------------------
(***************************************************************************)
(* A group by an attachment that read what is still so.                    *)
(***************************************************************************)
LEMMA FreeIs ==
    /\ \A d \in live : free(d) <=> \/ row[d].auto \/ row[d].lot = NoLot
                                    \/ \A x \in live : x # d => row[x].lot # row[d].lot
    /\ \A d \in live' : free(d)' <=> \/ row'[d].auto \/ row'[d].lot = NoLot
                                      \/ \A x \in live' : x # d => row'[x].lot # row'[d].lot
<1>1. ASSUME NEW d \in live
      PROVE  free(d) <=> \/ row[d].auto \/ row[d].lot = NoLot
                         \/ \A x \in live : x # d => row[x].lot # row[d].lot
  <2>1. free(d) <=> row[d].auto \/ ~isMultiMember(row[d].lot)
    BY DEF free
  <2>2. isMultiMember(row[d].lot) <=> row[d].lot # NoLot /\ \E x, y \in holders(row[d].lot) : x # y
    BY MultiIs
  <2>3. d \in holders(row[d].lot) /\ \A x : x \in holders(row[d].lot) <=> x \in live /\ row[x].lot = row[d].lot
    BY DEF holders
  <2>4. QED
    BY <2>1, <2>2, <2>3
<1>2. ASSUME NEW d \in live'
      PROVE  free(d)' <=> \/ row'[d].auto \/ row'[d].lot = NoLot
                          \/ \A x \in live' : x # d => row'[x].lot # row'[d].lot
  <2>1. PICK l : l = row'[d].lot
    OBVIOUS
  <2>2. free(d)' <=> row'[d].auto \/ ~isMultiMember(l)'
    BY <2>1 DEF free, isMultiMember, NoLot
  <2>3. isMultiMember(l)' <=> l # NoLot /\ \E x, y \in holders(l)' : x # y
    BY MultiIs
  <2>4. d \in holders(l)' /\ \A x : x \in holders(l)' <=> x \in live' /\ row'[x].lot = l
    BY <2>1 DEF holders
  <2>5. QED
    BY <2>1, <2>2, <2>3, <2>4
<1>3. QED
  BY <1>1, <1>2

\* The lot of a group of deployments that are there.
Takes(D, lot) ==
    /\ lot # NoLot
    /\ \/ \E c \in D : /\ row[c].auto /\ row[c].lot = lot
                        /\ \A e \in D : row[e].auto /\ row[e].lot # NoLot => row[c].at <= row[e].at
       \/ lot[2] # 0 /\ \A e \in D : ~(row[e].auto /\ row[e].lot # NoLot)

LEMMA LotStaysApart ==
    ASSUME RowsTyped, unmixed, NEW D \in SUBSET live, NEW lot, Takes(D, lot), NEW z \in live, row[z].lot = lot
    PROVE  row[z].auto
<1>1. CASE \E c \in D : row[c].auto /\ row[c].lot = lot
  BY <1>1 DEF unmixed, Takes, live, RowsTyped
<1>2. CASE lot[2] # 0
  BY <1>2 DEF RowsTyped
<1>3. QED
  BY <1>1, <1>2 DEF Takes

\* Who was free stays free and nobody else becomes it, and lots stay unmixed.
LEMMA GroupKeepsFree ==
    ASSUME RowsTyped, unmixed, NEW D \in SUBSET live, NEW lot \in Labels, Takes(D, lot), Regrouped(D, lot),
           \A d \in D : free(d)
    PROVE  /\ live' = live /\ RowsTyped' /\ unmixed'
           /\ \A d \in live : free(d)' <=> free(d)
           /\ \A d \in live : neighbours(d)' = neighbours(d)
           /\ \A d \in live : row'[d].at = row[d].at
<1>1. D \in SUBSET Recent /\ live \subseteq Recent
  BY DEF live
<1>2. /\ RowsTyped' /\ live' = live \cup D
      /\ \A d \in D : row'[d].auto /\ row'[d].lot = lot /\ row'[d].at = At[d] /\ row'[d] = deployment(d, lot, TRUE)
      /\ \A d \in Recent \ D : row'[d] = row[d]
  BY <1>1, RegroupedIs
<1>3. live' = live
  BY <1>2
<1>4. \A d \in live : row'[d].at = row[d].at
  BY <1>1, <1>2 DEF RowsTyped
<1>5. \A d \in live : neighbours(d)' = neighbours(d)
  BY <1>3, <1>4 DEF neighbours
<1>6. \A d \in live \ D : row'[d].lot = lot => row'[d].auto
  BY <1>1, <1>2, LotStaysApart
<1>7. unmixed'
  <2>1. ASSUME NEW d \in live, NEW e \in live, row'[d].lot = row'[e].lot, row'[d].lot # NoLot
        PROVE  row'[d].auto = row'[e].auto
    <3>1. row'[d].auto \in BOOLEAN /\ row'[e].auto \in BOOLEAN
      BY <1>1, <1>2 DEF RowsTyped
    <3>2. CASE d \in D \/ e \in D
      BY <1>2, <1>6, <2>1, <3>1, <3>2
    <3>3. CASE d \notin D /\ e \notin D
      BY <1>1, <1>2, <2>1, <3>3 DEF unmixed
    <3>4. QED
      BY <3>2, <3>3
  <2>2. QED
    BY <1>3, <2>1 DEF unmixed
<1>8. ASSUME NEW d \in live PROVE free(d)' <=> free(d)
  <2>1. CASE d \in D
    BY <1>2, <2>1 DEF free
  <2>2. CASE d \notin D /\ row[d].auto
    BY <1>1, <1>2, <2>2 DEF free
  <2>3. CASE d \notin D /\ ~row[d].auto
    <3>1. row'[d] = row[d]
      BY <1>1, <1>2, <2>3
    <3>2. row[d].lot # lot
      BY <2>3, LotStaysApart
    <3>3. ASSUME row[d].lot # NoLot, NEW x \in live, x # d
          PROVE  row[x].lot = row[d].lot <=> row'[x].lot = row'[d].lot
      <4>1. CASE x \notin D
        BY <1>1, <1>2, <3>1, <4>1
      <4>2. CASE x \in D
        <5>1. row'[x].lot # row'[d].lot
          BY <1>2, <3>1, <3>2, <4>2
        <5>2. ASSUME row[x].lot = row[d].lot PROVE FALSE
          <6>1. row[x].auto = row[d].auto
            BY <3>3, <5>2 DEF unmixed
          <6>2. ~free(x)
            BY <2>3, <3>3, <5>2, <6>1, FreeIs
          <6>3. QED
            BY <4>2, <6>2
        <5>3. QED
          BY <5>1, <5>2
      <4>3. QED
        BY <4>1, <4>2
    <3>4. QED
      BY <1>3, <2>3, <3>1, <3>3, FreeIs
  <2>4. QED
    BY <2>1, <2>2, <2>3
<1>9. QED
  BY <1>2, <1>3, <1>4, <1>5, <1>7, <1>8

LEMMA NearIs ==
    ASSUME RowsTyped, NEW d \in live, NEW e \in live
    PROVE  /\ row[d].at \in Nat /\ row[e].at \in Nat /\ Window \in Nat
           /\ e \in neighbours(d) <=> row[e].at <= row[d].at + Window /\ row[d].at <= row[e].at + Window
<1>1. row[d].at = At[d] /\ row[e].at = At[e] /\ d \in Recent /\ e \in Recent
  BY DEF RowsTyped, live
<1>2. At[d] \in Nat /\ At[e] \in Nat /\ Window \in Nat
  BY <1>1, LotAssumption
<1>3. e \in neighbours(d) <=> row[e].at - row[d].at \in -Window..Window
  BY DEF neighbours
<1>4. At[e] - At[d] \in -Window..Window <=> At[e] <= At[d] + Window /\ At[d] <= At[e] + Window
  BY <1>2
<1>5. QED
  BY <1>1, <1>2, <1>3, <1>4

\* The group of ev, when all that is earlier has been passed: nobody passed is parted
\* from a neighbour, because the group has the lot of the first that had one.
LEMMA GroupMeets ==
    ASSUME RowsTyped, unmixed, NEW ev \in live, free(ev), NEW P \in SUBSET live,
           \A d \in P : row[d].at <= row[ev].at,
           \A d \in live \ P : d # ev => row[ev].at <= row[d].at,
           \A d \in P, e \in live : Meets(d, e),
           NEW D \in SUBSET live, D \subseteq neighbours(ev), \A d \in D : free(d),
           \A e \in neighbours(ev) : free(e) => e \in D,
           NEW lot \in Labels, Takes(D, lot), Regrouped(D, lot)
    PROVE  \A d \in P \cup {ev}, e \in live : Meets(d, e)'
<1>1. /\ live' = live /\ RowsTyped' /\ unmixed'
      /\ \A d \in live : free(d)' <=> free(d)
      /\ \A d \in live : neighbours(d)' = neighbours(d)
      /\ \A d \in live : row'[d].at = row[d].at
  BY GroupKeepsFree
<1>2. D \in SUBSET Recent
  BY DEF live
<1>3. /\ RowsTyped' /\ live' = live \cup D
      /\ \A d \in D : row'[d].auto /\ row'[d].lot = lot /\ row'[d].at = At[d] /\ row'[d] = deployment(d, lot, TRUE)
      /\ \A d \in Recent \ D : row'[d] = row[d]
  BY <1>2, RegroupedIs
<1>4. lot # NoLot
  BY DEF Takes
<1>5. SUFFICES ASSUME NEW d \in P \cup {ev}, NEW e \in live, d # e, e \in neighbours(d), free(d), free(e)
               PROVE  row'[d].auto /\ row'[e].auto /\ row'[d].lot = row'[e].lot /\ row'[d].lot # NoLot
  BY <1>1 DEF Meets, Together
<1>6. d \in live /\ ev \in live /\ d \in Recent /\ e \in Recent
  BY <1>5 DEF live
<1>7. ev \in D
  <2>1. ev \in neighbours(ev)
    <3>1. row[ev].at \in Nat /\ Window \in Nat
      BY NearIs
    <3>2. row[ev].at <= row[ev].at + Window
      BY <3>1
    <3>3. QED
      BY <3>2, NearIs
  <2>2. QED
    BY <2>1
<1>8. row[d].at <= row[ev].at
  <2>1. row[ev].at \in Nat
    BY NearIs
  <2>2. QED
    BY <1>5, <2>1
<1>9. ASSUME d # ev
      PROVE  d \in P /\ row[d].auto /\ row[e].auto /\ row[d].lot = row[e].lot /\ row[d].lot # NoLot
  BY <1>5, <1>9 DEF Meets, Together
<1>10. \A x \in live : free(x) /\ x \notin D => x \notin neighbours(ev)
  OBVIOUS
<1>11. CASE d \in D /\ e \in D
  BY <1>3, <1>4, <1>11
<1>12. CASE d \notin D /\ e \notin D
  BY <1>3, <1>6, <1>7, <1>9, <1>12
<1>13. ASSUME NEW x \in D, row[x].auto, row[x].lot # NoLot
       PROVE  \E c \in D : /\ row[c].auto /\ row[c].lot = lot
                           /\ \A y \in D : row[y].auto /\ row[y].lot # NoLot => row[c].at <= row[y].at
  BY <1>13 DEF Takes
<1>14. CASE d \in D /\ e \notin D
  <2>1. d # ev
    BY <1>5, <1>10, <1>14
  <2>2. PICK c \in D : /\ row[c].auto /\ row[c].lot = lot
                       /\ \A y \in D : row[y].auto /\ row[y].lot # NoLot => row[c].at <= row[y].at
    BY <1>9, <1>13, <1>14, <2>1
  <2>3. row[c].at <= row[d].at
    BY <1>9, <1>14, <2>1, <2>2
  <2>4. e \notin neighbours(ev) /\ c \in neighbours(ev) /\ c \in live
    BY <1>5, <1>10, <1>14, <2>2
  <2>5. /\ row[e].at < row[ev].at
        /\ c \in neighbours(e)
    <3>1. /\ row[d].at \in Nat /\ row[e].at \in Nat /\ row[ev].at \in Nat /\ row[c].at \in Nat /\ Window \in Nat
      BY <1>6, <2>4, NearIs
    <3>2. row[e].at <= row[d].at + Window /\ row[d].at <= row[e].at + Window
      BY <1>5, <1>6, NearIs
    <3>3. ~(row[e].at <= row[ev].at + Window /\ row[ev].at <= row[e].at + Window)
      BY <1>6, <2>4, NearIs
    <3>4. row[c].at <= row[ev].at + Window /\ row[ev].at <= row[c].at + Window
      BY <1>6, <2>4, NearIs
    <3>5. row[e].at < row[ev].at /\ row[c].at <= row[e].at + Window /\ row[e].at <= row[c].at + Window
      BY <1>8, <2>3, <3>1, <3>2, <3>3, <3>4
    <3>6. QED
      BY <1>6, <2>4, <3>5, NearIs
  <2>6. e \in P
    <3>1. row[e].at \in Nat /\ row[ev].at \in Nat
      BY <1>6, NearIs
    <3>2. ~(row[ev].at <= row[e].at)
      BY <2>5, <3>1
    <3>3. e # ev
      BY <1>7, <1>14
    <3>4. QED
      BY <3>2, <3>3
  <2>7. Together(e, c)
    <3>1. e # c /\ free(c)
      BY <1>14, <2>2
    <3>2. Meets(e, c)
      BY <2>4, <2>6
    <3>3. QED
      BY <1>5, <2>5, <3>1, <3>2 DEF Meets
  <2>8. row[e].auto /\ row[e].lot = lot
    BY <2>2, <2>7 DEF Together
  <2>9. QED
    BY <1>3, <1>4, <1>6, <1>14, <2>8
<1>15. CASE d \notin D /\ e \in D
  <2>1. d # ev
    BY <1>7, <1>15
  <2>2. PICK c \in D : /\ row[c].auto /\ row[c].lot = lot
                       /\ \A y \in D : row[y].auto /\ row[y].lot # NoLot => row[c].at <= row[y].at
    BY <1>9, <1>13, <1>15, <2>1
  <2>3. row[c].at <= row[e].at
    BY <1>9, <1>15, <2>1, <2>2
  <2>4. d \notin neighbours(ev) /\ c \in neighbours(ev) /\ c \in live
    BY <1>5, <1>6, <1>10, <1>15, <2>2
  <2>5. c \in neighbours(d)
    <3>1. /\ row[d].at \in Nat /\ row[e].at \in Nat /\ row[ev].at \in Nat /\ row[c].at \in Nat /\ Window \in Nat
      BY <1>6, <2>4, NearIs
    <3>2. row[e].at <= row[d].at + Window /\ row[d].at <= row[e].at + Window
      BY <1>5, <1>6, NearIs
    <3>3. ~(row[d].at <= row[ev].at + Window /\ row[ev].at <= row[d].at + Window)
      BY <1>6, <2>4, NearIs
    <3>4. row[c].at <= row[ev].at + Window /\ row[ev].at <= row[c].at + Window
      BY <1>6, <2>4, NearIs
    <3>5. row[c].at <= row[d].at + Window /\ row[d].at <= row[c].at + Window
      BY <1>8, <2>3, <3>1, <3>2, <3>3, <3>4
    <3>6. QED
      BY <1>6, <2>4, <3>5, NearIs
  <2>6. Together(d, c)
    <3>1. d # c /\ free(c)
      BY <1>15, <2>2
    <3>2. Meets(d, c)
      BY <1>9, <2>1, <2>4
    <3>3. QED
      BY <1>5, <2>5, <3>1, <3>2 DEF Meets
  <2>7. row[d].auto /\ row[d].lot = lot
    BY <2>2, <2>6 DEF Together
  <2>8. QED
    BY <1>3, <1>4, <1>6, <1>15, <2>7
<1>16. QED
  BY <1>11, <1>12, <1>14, <1>15

\* When neighbours are together already, a group changes nothing.
LEMMA GroupSettled ==
    ASSUME RowsTyped, unmixed, NEW ev \in live, free(ev), \A e \in live : Meets(ev, e),
           NEW D \in SUBSET live, D \subseteq neighbours(ev), \A d \in D : free(d),
           \E x, y \in D : x # y, ev \in D,
           NEW lot \in Labels, Takes(D, lot), Regrouped(D, lot)
    PROVE  row' = row
<1>1. PICK y \in D : y # ev
  OBVIOUS
<1>2. Together(ev, y)
  BY <1>1 DEF Meets
<1>3. \A x \in D : row[x].auto /\ row[x].lot = row[ev].lot /\ row[ev].lot # NoLot
  <2>1. ASSUME NEW x \in D, x # ev PROVE Together(ev, x)
    BY <2>1 DEF Meets
  <2>2. QED
    BY <1>2, <2>1 DEF Together
<1>4. lot = row[ev].lot
  BY <1>3 DEF Takes
<1>5. ASSUME NEW d \in Recent PROVE (IF d \in D THEN deployment(d, lot, TRUE) ELSE row[d]) = row[d]
  <2>1. CASE d \notin D
    BY <2>1
  <2>2. CASE d \in D
    <3>1. row[d] \in [at : Times \cup {0}, lot : Labels, auto : BOOLEAN, live : BOOLEAN]
      BY DEF RowsTyped
    <3>2. row[d].at = At[d] /\ row[d].lot = lot /\ row[d].auto = TRUE /\ row[d].live = TRUE
      BY <1>3, <1>4, <2>2, <3>1 DEF RowsTyped, live
    <3>3. row[d] = [at |-> At[d], lot |-> lot, auto |-> TRUE, live |-> TRUE]
      BY <3>1, <3>2
    <3>4. QED
      BY <2>2, <3>3 DEF deployment
  <2>3. QED
    BY <2>1, <2>2
<1>6. row = [d \in Recent |-> row[d]]
  BY DEF RowsTyped
<1>7. QED
  BY <1>5, <1>6 DEF Regrouped

-----------------------------------------------------------------------------
(***************************************************************************)
(* Steps of attachments.                                                   *)
(***************************************************************************)
\* What depends on the rows alone.
LEMMA RowsStay ==
    ASSUME row' = row
    PROVE  /\ live' = live /\ (RowsTyped' <=> RowsTyped) /\ (unmixed' <=> unmixed)
           /\ \A t : IsTask(t)' <=> IsTask(t)
           /\ \A t : Fresh(t)' <=> Fresh(t)
           /\ \A d, e : Meets(d, e)' <=> Meets(d, e)
<1>1. live' = live
  BY DEF live
<1>2. (RowsTyped' <=> RowsTyped) /\ (unmixed' <=> unmixed)
  BY <1>1 DEF RowsTyped, unmixed
<1>3. \A t : IsTask(t)' <=> IsTask(t)
  BY <1>1 DEF IsTask
<1>4. \A d : neighbours(d)' = neighbours(d)
  BY <1>1 DEF neighbours
<1>5. \A d : free(d)' <=> free(d)
  BY <1>1 DEF free, isMultiMember
<1>6. \A d : cand(d)' = cand(d)
  BY DEF cand
<1>7. \A t : Fresh(t)' <=> Fresh(t)
  BY <1>1, <1>4, <1>5, <1>6 DEF Fresh
<1>8. \A d, e : Meets(d, e)' <=> Meets(d, e)
  BY <1>4, <1>5 DEF Meets, Together
<1>9. QED
  BY <1>1, <1>2, <1>3, <1>7, <1>8

Moves(w, t) == task' = [task EXCEPT ![w] = t]

LEMMA MovesIs ==
    ASSUME TasksTyped, NEW w \in Workers, NEW t, Moves(w, t)
    PROVE  /\ task' = [x \in Workers |-> task'[x]]
           /\ task'[w] = t
           /\ \A x \in Workers : x # w => task'[x] = task[x]
BY DEF TasksTyped, Moves

LEMMA WhoWorks ==
    ASSUME LotInv, NEW w \in Workers, task[w] # NoTask
    PROVE  /\ IsTask(task[w])
           /\ calm # "none" => Fresh(task[w])
           /\ calm \in Sweeps => w = calm
BY DEF LotInv, TasksTyped, CalmInv, idle

LEMMA SweepsWork ==
    Sweeps \subseteq Workers /\ \A s \in Sweeps : s # "none" /\ s # "settled"
BY LotAssumption DEF Workers

LEMMA TaskMoves ==
    ASSUME LotInv, NEW w \in Workers, task[w] # NoTask, NEW t, Moves(w, t),
           row' = row, queue' = queue, calm' = calm,
           t # NoTask => IsTask(t) /\ t.ev = task[w].ev,
           t # NoTask /\ calm # "none" => Fresh(t),
           t = NoTask /\ calm \in Sweeps => \A e \in live : Meets(task[w].ev, e)
    PROVE  LotInv'
<1>1. /\ task' = [x \in Workers |-> task'[x]]
      /\ task'[w] = t
      /\ \A x \in Workers : x # w => task'[x] = task[x]
  BY MovesIs DEF LotInv
<1>2. /\ live' = live /\ (RowsTyped' <=> RowsTyped) /\ (unmixed' <=> unmixed)
      /\ \A u : IsTask(u)' <=> IsTask(u)
      /\ \A u : Fresh(u)' <=> Fresh(u)
      /\ \A d, e : Meets(d, e)' <=> Meets(d, e)
  BY RowsStay
<1>3. RowsTyped'
  BY <1>2 DEF LotInv
<1>4. TasksTyped'
  <2>1. \A x \in Workers : task'[x] = NoTask \/ IsTask(task'[x])
    BY <1>1 DEF LotInv, TasksTyped
  <2>2. ASSUME NEW x \in Workers PROVE task'[x] = NoTask \/ IsTask(task[x])'
    BY <1>2, <2>1 DEF IsTask
  <2>3. QED
    BY <1>1, <1>2, <2>2 DEF LotInv, TasksTyped
<1>5. CalmInv'
  <2>1. ASSUME calm # "none", NEW x \in Workers, task'[x] # NoTask PROVE Fresh(task[x])'
    <3>1. Fresh(task'[x])
      BY <1>1, <2>1 DEF LotInv, CalmInv
    <3>2. PICK u : u = task'[x]
      OBVIOUS
    <3>3. Fresh(u)'
      BY <1>2, <3>1, <3>2
    <3>4. QED
      BY <3>2, <3>3 DEF Fresh
  <2>2. ASSUME calm \in Sweeps PROVE Sweeping(calm)'
    <3>1. w = calm /\ calm \in Workers
      BY <2>2, WhoWorks, SweepsWork
    <3>2. /\ \A d \in live \ ahead(w), e \in ahead(w) : row[d].at <= row[e].at
          /\ task[w].ev \notin queue[w]
          /\ \A e \in queue[w] : row[task[w].ev].at <= row[e].at
          /\ \A d \in live \ ahead(w), e \in live : Meets(d, e)
      BY <2>2, <3>1 DEF LotInv, CalmInv, Sweeping
    <3>3. CASE t # NoTask
      <4>1. ahead(w)' = ahead(w) /\ task'[w].ev = task[w].ev
        BY <1>1, <3>3 DEF ahead
      <4>2. QED
        BY <1>1, <1>2, <3>1, <3>2, <3>3, <4>1 DEF Sweeping
    <3>4. CASE t = NoTask
      <4>1. ahead(w)' = queue[w] /\ ahead(w) = queue[w] \cup {task[w].ev}
        BY <1>1, <3>4 DEF ahead
      <4>2. \A d \in live \ queue[w], e \in queue[w] : row[d].at <= row[e].at
        BY <3>2, <4>1
      <4>3. \A d \in live \ queue[w], e \in live : Meets(d, e)
        BY <2>2, <3>2, <3>4, <4>1
      <4>4. QED
        BY <1>1, <1>2, <3>1, <3>4, <4>1, <4>2, <4>3 DEF Sweeping
    <3>5. QED
      BY <3>3, <3>4
  <2>3. ASSUME calm \in Sweeps, NEW x \in Workers, x # calm PROVE idle(x)'
    <3>1. w = calm
      BY <2>3, WhoWorks
    <3>2. idle(x)
      BY <2>3 DEF LotInv, CalmInv
    <3>3. QED
      BY <1>1, <2>3, <3>1, <3>2 DEF idle
  <2>4. calm # "none" => unmixed'
    BY <1>2 DEF LotInv, CalmInv
  <2>5. ASSUME calm = "settled" PROVE (\A d, e \in live : Meets(d, e))'
    BY <1>2, <2>5 DEF LotInv, CalmInv
  <2>6. QED
    BY <2>1, <2>2, <2>3, <2>4, <2>5 DEF CalmInv
<1>6. QED
  BY <1>3, <1>4, <1>5 DEF LotInv

LEMMA CandIs ==
    ASSUME RowsTyped, NEW d \in live
    PROVE  /\ cand(d) \in Cand
           /\ cand(d).id = d /\ cand(d).at = row[d].at /\ cand(d).lot = row[d].lot /\ cand(d).auto = row[d].auto
<1>1. d \in Recent /\ row[d].at = At[d]
  BY DEF live, RowsTyped
<1>2. At[d] \in Times
  BY <1>1 DEF Times
<1>3. QED
  BY <1>1, <1>2 DEF cand, Cand, RowsTyped

\* A task, its fields written anew.
Task(pc, ev, seen, cands, t) == t = [pc |-> pc, ev |-> ev, seen |-> seen, cands |-> cands]

LEMMA TaskIs ==
    ASSUME NEW pc \in {"attach", "counting", "searching", "sifting"}, NEW ev \in live, NEW seen \in SUBSET Cand,
           NEW cands \in SUBSET Cand, pc # "sifting" => cands = {}, NEW t, Task(pc, ev, seen, cands, t)
    PROVE  /\ IsTask(t) /\ t # NoTask
           /\ t.pc = pc /\ t.ev = ev /\ t.seen = seen /\ t.cands = cands
<1>1. t.pc = pc /\ t.ev = ev /\ t.seen = seen /\ t.cands = cands
  BY DEF Task
<1>2. t = [pc |-> t.pc, ev |-> t.ev, seen |-> t.seen, cands |-> t.cands]
  BY <1>1 DEF Task
<1>3. t # NoTask
  <2>1. NoTask.pc = "idle"
    BY DEF NoTask
  <2>2. QED
    BY <1>1, <2>1
<1>4. QED
  BY <1>1, <1>2, <1>3 DEF IsTask

LEMMA TaskAt ==
    ASSUME LotInv, NEW w \in Workers, task[w].pc # "idle"
    PROVE  /\ task[w] # NoTask /\ IsTask(task[w])
           /\ task[w] = [pc |-> task[w].pc, ev |-> task[w].ev, seen |-> task[w].seen, cands |-> task[w].cands]
           /\ task[w].ev \in live
           /\ task = [x \in Workers |-> task[x]]
<1>1. NoTask.pc = "idle"
  BY DEF NoTask
<1>2. QED
  BY <1>1 DEF LotInv, TasksTyped, IsTask

LEMMA FindEventStep ==
    ASSUME LotInv, NEW w \in Workers, findEvent(w)
    PROVE  LotInv'
<1> DEFINE q == task[w]
<1>1. q.pc = "attach" /\ UNCHANGED << row, queue, calm >>
  BY DEF findEvent
<1>2. /\ q # NoTask /\ IsTask(q) /\ q.ev \in live /\ q.cands = {}
      /\ q = [pc |-> q.pc, ev |-> q.ev, seen |-> q.seen, cands |-> q.cands]
      /\ task = [x \in Workers |-> task[x]]
  BY <1>1, TaskAt DEF IsTask
<1>3. /\ cand(q.ev) \in Cand
      /\ cand(q.ev).lot = row[q.ev].lot /\ cand(q.ev).auto = row[q.ev].auto
  BY <1>2, CandIs DEF LotInv
<1>4. PICK pc \in {"counting", "searching"} :
         pc = IF ~cand(q.ev).auto /\ cand(q.ev).lot # NoLot THEN "counting" ELSE "searching"
  OBVIOUS
<1>5. PICK t : Task(pc, q.ev, {cand(q.ev)}, {}, t)
  BY DEF Task
<1>6. Moves(w, t)
  <2>1. task' = [task EXCEPT ![w].seen = {cand(q.ev)}, ![w].pc = pc]
    BY <1>4 DEF findEvent
  <2>2. task' = [x \in Workers |-> IF x = w THEN [task[w] EXCEPT !.seen = {cand(q.ev)}, !.pc = pc] ELSE task[x]]
    BY <1>2, <2>1
  <2>3. [task[w] EXCEPT !.seen = {cand(q.ev)}, !.pc = pc] = [pc |-> pc, ev |-> q.ev, seen |-> {cand(q.ev)}, cands |-> q.cands]
    <3>1. PICK r : r = task[w]
      OBVIOUS
    <3>2. r = [pc |-> r.pc, ev |-> r.ev, seen |-> r.seen, cands |-> r.cands]
      BY <1>2, <3>1
    <3>3. [r EXCEPT !.seen = {cand(q.ev)}, !.pc = pc] = [pc |-> pc, ev |-> r.ev, seen |-> {cand(q.ev)}, cands |-> r.cands]
      <4>1. PICK u : u = [r EXCEPT !.seen = {cand(q.ev)}, !.pc = pc]
        OBVIOUS
      <4>2. /\ u = [pc |-> u.pc, ev |-> u.ev, seen |-> u.seen, cands |-> u.cands]
            /\ u.pc = pc /\ u.ev = r.ev /\ u.seen = {cand(q.ev)} /\ u.cands = r.cands
        BY <3>2, <4>1
      <4>3. QED
        BY <4>1, <4>2
    <3>4. QED
      BY <3>1, <3>3
  <2>4. [task EXCEPT ![w] = t] = [x \in Workers |-> IF x = w THEN t ELSE task[x]]
    BY <1>2
  <2>5. QED
    BY <1>1, <1>2, <2>2, <2>3, <2>4, <1>5 DEF Task, Moves
<1>7. IsTask(t) /\ t # NoTask /\ t.pc = pc /\ t.ev = q.ev /\ t.seen = {cand(q.ev)} /\ t.cands = {}
  BY <1>2, <1>3, <1>5, TaskIs
<1>8. Fresh(t)
  <2>1. row[q.ev].auto \in BOOLEAN
    BY <1>2 DEF LotInv, RowsTyped, live
  <2>2. pc = "counting" => ~row[q.ev].auto
    BY <1>3, <1>4, <2>1
  <2>3. pc = "searching" => free(q.ev)
    BY <1>2, <1>3, <1>4, <2>1, FreeIs
  <2>4. QED
    BY <1>4, <1>7, <2>2, <2>3 DEF Fresh
<1>9. QED
  BY <1>1, <1>2, <1>6, <1>7, <1>8, TaskMoves

LEMMA CountOwnStep ==
    ASSUME LotInv, NEW w \in Workers, countOwn(w)
    PROVE  LotInv'
<1> DEFINE q == task[w]
<1>1. q.pc = "counting" /\ UNCHANGED << row, queue, calm >>
  BY DEF countOwn
<1>2. /\ q # NoTask /\ IsTask(q) /\ q.ev \in live /\ q.cands = {} /\ q.seen \subseteq Cand
      /\ q = [pc |-> q.pc, ev |-> q.ev, seen |-> q.seen, cands |-> q.cands]
      /\ task = [x \in Workers |-> task[x]]
  BY <1>1, TaskAt DEF IsTask
<1>3. PICK c \in q.seen : IF isMultiMember(c.lot) THEN task' = [task EXCEPT ![w] = NoTask] ELSE to(w, "searching")
  BY DEF countOwn
<1>4. calm # "none" => c.lot = row[q.ev].lot /\ ~row[q.ev].auto
  BY <1>1, <1>2, <1>3, WhoWorks, CandIs DEF Fresh, LotInv
<1>5. calm # "none" => (free(q.ev) <=> ~isMultiMember(c.lot))
  BY <1>4 DEF free
<1>6. CASE isMultiMember(c.lot)
  <2>1. Moves(w, NoTask)
    BY <1>3, <1>6 DEF Moves
  <2>2. calm \in Sweeps => \A e \in live : Meets(q.ev, e)
    BY <1>5, <1>6, SweepsWork DEF Meets
  <2>3. QED
    BY <1>1, <1>2, <2>1, <2>2, TaskMoves
<1>7. CASE ~isMultiMember(c.lot)
  <2>1. PICK t : Task("searching", q.ev, q.seen, {}, t)
    BY DEF Task
  <2>2. Moves(w, t)
    BY <1>2, <1>3, <1>7, <2>1 DEF to, Task, Moves
  <2>3. IsTask(t) /\ t # NoTask /\ t.pc = "searching" /\ t.ev = q.ev
    BY <1>2, <2>1, TaskIs
  <2>4. calm # "none" => Fresh(t)
    BY <1>5, <1>7, <2>3 DEF Fresh
  <2>5. QED
    BY <1>1, <1>2, <2>2, <2>3, <2>4, TaskMoves
<1>8. QED
  BY <1>6, <1>7

LEMMA FindNeighboursStep ==
    ASSUME LotInv, NEW w \in Workers, findNeighbours(w)
    PROVE  LotInv'
<1> DEFINE q == task[w]
<1>1. q.pc = "searching" /\ UNCHANGED << row, queue, calm >>
  BY DEF findNeighbours
<1>2. /\ q # NoTask /\ IsTask(q) /\ q.ev \in live /\ q.cands = {}
      /\ q = [pc |-> q.pc, ev |-> q.ev, seen |-> q.seen, cands |-> q.cands]
      /\ task = [x \in Workers |-> task[x]]
  BY <1>1, TaskAt DEF IsTask
<1>3. PICK S : S = {cand(e) : e \in neighbours(q.ev)}
  OBVIOUS
<1>4. neighbours(q.ev) \subseteq live
  BY DEF neighbours
<1>5. S \subseteq Cand
  BY <1>3, <1>4, CandIs DEF LotInv
<1>6. PICK t : Task("sifting", q.ev, S, {}, t)
  BY DEF Task
<1>7. Moves(w, t)
  <2>1. task' = [task EXCEPT ![w].pc = "sifting", ![w].seen = S]
    BY <1>3 DEF findNeighbours
  <2>2. task' = [x \in Workers |-> IF x = w THEN [task[w] EXCEPT !.pc = "sifting", !.seen = S] ELSE task[x]]
    BY <1>2, <2>1
  <2>3. [task[w] EXCEPT !.pc = "sifting", !.seen = S] = [pc |-> "sifting", ev |-> q.ev, seen |-> S, cands |-> q.cands]
    <3>1. PICK r : r = task[w]
      OBVIOUS
    <3>2. r = [pc |-> r.pc, ev |-> r.ev, seen |-> r.seen, cands |-> r.cands]
      BY <1>2, <3>1
    <3>3. [r EXCEPT !.pc = "sifting", !.seen = S] = [pc |-> "sifting", ev |-> r.ev, seen |-> S, cands |-> r.cands]
      <4>1. PICK u : u = [r EXCEPT !.pc = "sifting", !.seen = S]
        OBVIOUS
      <4>2. /\ u = [pc |-> u.pc, ev |-> u.ev, seen |-> u.seen, cands |-> u.cands]
            /\ u.pc = "sifting" /\ u.ev = r.ev /\ u.seen = S /\ u.cands = r.cands
        BY <3>2, <4>1
      <4>3. QED
        BY <4>1, <4>2
    <3>4. QED
      BY <3>1, <3>3
  <2>4. [task EXCEPT ![w] = t] = [x \in Workers |-> IF x = w THEN t ELSE task[x]]
    BY <1>2
  <2>5. QED
    BY <1>1, <1>2, <2>2, <2>3, <2>4, <1>6 DEF Task, Moves
<1>8. IsTask(t) /\ t # NoTask /\ t.pc = "sifting" /\ t.ev = q.ev /\ t.seen = S /\ t.cands = {}
  BY <1>2, <1>5, <1>6, TaskIs
<1>9. calm # "none" => Fresh(t)
  <2>1. calm # "none" => free(q.ev)
    BY <1>1, <1>2, WhoWorks DEF Fresh
  <2>2. QED
    BY <1>3, <1>8, <2>1 DEF Fresh
<1>10. QED
  BY <1>1, <1>2, <1>7, <1>8, <1>9, TaskMoves

LEMMA SiftStep ==
    ASSUME LotInv, NEW w \in Workers, sift(w)
    PROVE  LotInv'
<1> DEFINE q == task[w]
<1>1. q.pc = "sifting" /\ UNCHANGED << row, queue, calm >>
  BY DEF sift
<1>2. /\ q # NoTask /\ IsTask(q) /\ q.ev \in live /\ q.seen \subseteq Cand /\ q.cands \subseteq Cand
      /\ q = [pc |-> q.pc, ev |-> q.ev, seen |-> q.seen, cands |-> q.cands]
      /\ task = [x \in Workers |-> task[x]]
  BY <1>1, TaskAt DEF IsTask
<1>3. PICK c \in q.seen : task' = [task EXCEPT ![w].seen = @ \ {c},
                                             ![w].cands = IF eligible(c) THEN @ \cup {c} ELSE @]
  BY DEF sift, earliest
<1>4. PICK S, C : S = q.seen \ {c} /\ C = IF eligible(c) THEN q.cands \cup {c} ELSE q.cands
  OBVIOUS
<1>5. S \subseteq Cand /\ C \subseteq Cand
  BY <1>2, <1>3, <1>4
<1>6. PICK t : Task("sifting", q.ev, S, C, t)
  BY DEF Task
<1>7. Moves(w, t)
  <2>1. task' = [task EXCEPT ![w].seen = S, ![w].cands = C]
    BY <1>3, <1>4
  <2>2. task' = [x \in Workers |-> IF x = w THEN [task[w] EXCEPT !.seen = S, !.cands = C] ELSE task[x]]
    BY <1>2, <2>1
  <2>3. [task[w] EXCEPT !.seen = S, !.cands = C] = [pc |-> q.pc, ev |-> q.ev, seen |-> S, cands |-> C]
    <3>1. PICK r : r = task[w]
      OBVIOUS
    <3>2. r = [pc |-> r.pc, ev |-> r.ev, seen |-> r.seen, cands |-> r.cands]
      BY <1>2, <3>1
    <3>3. [r EXCEPT !.seen = S, !.cands = C] = [pc |-> r.pc, ev |-> r.ev, seen |-> S, cands |-> C]
      <4>1. PICK u : u = [r EXCEPT !.seen = S, !.cands = C]
        OBVIOUS
      <4>2. /\ u = [pc |-> u.pc, ev |-> u.ev, seen |-> u.seen, cands |-> u.cands]
            /\ u.pc = r.pc /\ u.ev = r.ev /\ u.seen = S /\ u.cands = C
        BY <3>2, <4>1
      <4>3. QED
        BY <4>1, <4>2
    <3>4. QED
      BY <3>1, <3>3
  <2>4. [task EXCEPT ![w] = t] = [x \in Workers |-> IF x = w THEN t ELSE task[x]]
    BY <1>2
  <2>5. QED
    BY <1>1, <1>2, <2>2, <2>3, <2>4, <1>6 DEF Task, Moves
<1>8. IsTask(t) /\ t # NoTask /\ t.pc = "sifting" /\ t.ev = q.ev /\ t.seen = S /\ t.cands = C
  BY <1>2, <1>5, <1>6, TaskIs
<1>9. ASSUME calm # "none" PROVE Fresh(t)
  <2>1. /\ free(q.ev)
        /\ q.seen \cup q.cands \subseteq {cand(e) : e \in neighbours(q.ev)}
        /\ \A e \in neighbours(q.ev) : free(e) => cand(e) \in q.seen \cup q.cands
        /\ \A e \in live : cand(e) \in q.cands => free(e)
    BY <1>1, <1>2, <1>9, WhoWorks DEF Fresh
  <2>2. PICK x \in neighbours(q.ev) : c = cand(x)
    BY <1>3, <2>1
  <2>3. x \in live /\ neighbours(q.ev) \subseteq live
    BY DEF neighbours
  <2>4. eligible(c) <=> free(x)
    BY <2>2, <2>3, CandIs DEF eligible, free, LotInv
  <2>5. \A e \in live : cand(e) = c => e = x
    BY <2>2, <2>3, CandIs DEF LotInv
  <2>6. S \cup C \subseteq {cand(e) : e \in neighbours(q.ev)}
    BY <1>3, <1>4, <2>1
  <2>7. \A e \in neighbours(q.ev) : free(e) => cand(e) \in S \cup C
    BY <1>4, <2>1, <2>3, <2>4, <2>5
  <2>8. \A e \in live : cand(e) \in C => free(e)
    BY <1>4, <2>1, <2>4, <2>5
  <2>9. QED
    BY <1>8, <2>1, <2>6, <2>7, <2>8 DEF Fresh
<1>10. QED
  BY <1>1, <1>2, <1>7, <1>8, <1>9, TaskMoves

idsOf(C) == {c.id : c \in C}

\* What a calm attachment groups: ev and all its free neighbours.
LEMMA GroupIs ==
    ASSUME LotInv, NEW w \in Workers, task[w].pc = "sifting", task[w].seen = {}, calm # "none"
    PROVE  LET ev == task[w].ev
               C == task[w].cands
               D == idsOf(C)
           IN  /\ ev \in live /\ free(ev) /\ ev \in D
               /\ D \in SUBSET live /\ D \subseteq neighbours(ev) /\ (\A d \in D : free(d))
               /\ \A e \in neighbours(ev) : free(e) => e \in D
               /\ enough(C) <=> \E x, y \in D : x # y
               /\ \A lot : lot # NoLot /\ Names(lot, C) => Takes(D, lot)
<1> DEFINE ev == task[w].ev
           C == task[w].cands
           D == idsOf(C)
<1>1. task[w] # NoTask /\ ev \in live
  BY TaskAt
<1>2. /\ free(ev)
      /\ C \subseteq {cand(e) : e \in neighbours(ev)}
      /\ \A e \in neighbours(ev) : free(e) => cand(e) \in C
      /\ \A e \in live : cand(e) \in C => free(e)
  BY <1>1, WhoWorks DEF Fresh
<1>3. neighbours(ev) \in SUBSET live
  BY DEF neighbours
<1>4. /\ IsFiniteSet(C)
      /\ \A c \in C : c.id \in neighbours(ev) /\ c = cand(c.id)
      /\ \A e \in live : e \in D <=> cand(e) \in C
      /\ D \subseteq neighbours(ev)
  <2>1. PICK B : B = C
    OBVIOUS
  <2>2. PICK N : N = neighbours(ev)
    OBVIOUS
  <2>3. N \in SUBSET live /\ B \in SUBSET {cand(e) : e \in N}
    BY <1>2, <1>3, <2>1, <2>2
  <2>4. /\ IsFiniteSet(B)
        /\ \A c \in B : c.id \in N /\ c = cand(c.id)
        /\ \A e \in live : e \in {c.id : c \in B} <=> cand(e) \in B
        /\ {c.id : c \in B} \subseteq N
    BY <2>3, CandsAre
  <2>5. D = {c.id : c \in B}
    BY <2>1 DEF idsOf
  <2>6. QED
    BY <2>1, <2>2, <2>4, <2>5
<1>5. D \in SUBSET live /\ \A d \in D : free(d)
  <2> HIDE DEF D, C
  <2>1. D \in SUBSET live
    BY <1>3, <1>4
  <2>2. \A d \in D : d \in live /\ cand(d) \in C
    BY <2>1, <1>4
  <2>3. QED
    BY <1>2, <2>1, <2>2
<1>6. \A e \in neighbours(ev) : free(e) => e \in D
  <2> HIDE DEF D, C
  <2>1. \A e \in neighbours(ev) : e \in live
    BY <1>3
  <2>2. QED
    BY <1>2, <1>4, <2>1
<1>7. ev \in D
  <2>1. row[ev].at \in Nat /\ Window \in Nat
    BY <1>1, NearIs DEF LotInv
  <2>2. row[ev].at <= row[ev].at + Window
    BY <2>1
  <2>3. ev \in neighbours(ev)
    BY <1>1, <2>2, NearIs DEF LotInv
  <2>4. QED
    BY <1>2, <1>6, <2>3
<1>8. enough(C) <=> \E x, y \in D : x # y
  <2>1. enough(C) <=> \E b, c \in C : b # c
    BY <1>4, TwoMembers DEF enough
  <2>2. ASSUME NEW b \in C, NEW c \in C, b # c PROVE b.id \in D /\ c.id \in D /\ b.id # c.id
    BY <1>4, <2>2 DEF idsOf
  <2>3. ASSUME NEW x \in D, NEW y \in D, x # y PROVE cand(x) \in C /\ cand(y) \in C /\ cand(x) # cand(y)
    <3>1. cand(x).id = x /\ cand(y).id = y
      BY DEF cand
    <3>2. QED
      BY <1>4, <1>5, <2>3, <3>1
  <2>4. QED
    BY <2>1, <2>2, <2>3
<1>9. ASSUME NEW lot, lot # NoLot, Names(lot, C) PROVE Takes(D, lot)
  <2>1. \A c \in C : c.id \in D /\ c.auto = row[c.id].auto /\ c.lot = row[c.id].lot /\ c.at = row[c.id].at
    BY <1>3, <1>4, CandIs DEF idsOf, LotInv
  <2>2. \A e \in D : \E c \in C : c.id = e
    BY DEF idsOf
  <2>3. CASE \E c \in C : /\ c.auto /\ c.lot = lot
                          /\ \A e \in C : e.auto /\ e.lot # NoLot => c.at <= e.at
    <3>1. PICK c \in C : c.auto /\ c.lot = lot /\ \A e \in C : e.auto /\ e.lot # NoLot => c.at <= e.at
      BY <2>3
    <3>2. \A e \in D : row[e].auto /\ row[e].lot # NoLot => row[c.id].at <= row[e].at
      BY <2>1, <2>2, <3>1
    <3>3. c.id \in D /\ row[c.id].auto /\ row[c.id].lot = lot
      BY <2>1, <3>1
    <3>4. QED
      BY <1>9, <3>2, <3>3 DEF Takes
  <2>4. CASE lot[2] # 0 /\ \A e \in C : ~(e.auto /\ e.lot # NoLot)
    BY <1>9, <2>1, <2>2, <2>4 DEF Takes
  <2>5. QED
    BY <1>9, <2>3, <2>4 DEF Names
<1>10. QED
  BY <1>1, <1>2, <1>4, <1>5, <1>6, <1>7, <1>8, <1>9

LEMMA GroupDoes ==
    ASSUME LotInv, NEW w \in Workers, group(w)
    PROVE  /\ task[w].pc = "sifting" /\ task[w].seen = {}
           /\ task[w] # NoTask /\ IsTask(task[w]) /\ task[w].ev \in live /\ task[w].cands \in SUBSET Cand
           /\ Moves(w, NoTask) /\ queue' = queue /\ calm' = calm /\ edits' = edits
           /\ \/ ~enough(task[w].cands) /\ row' = row
              \/ enough(task[w].cands) /\ \E lot \in Labels : /\ lot # NoLot /\ Names(lot, task[w].cands)
                                                            /\ Regrouped(idsOf(task[w].cands), lot)
<1> DEFINE C == task[w].cands
<1>1. /\ task[w].pc = "sifting" /\ task[w].seen = {}
      /\ Moves(w, NoTask) /\ queue' = queue /\ calm' = calm /\ edits' = edits
  BY DEF group, Moves
<1>2. task[w] # NoTask /\ IsTask(task[w]) /\ task[w].ev \in live /\ C \in SUBSET Cand
  BY <1>1, TaskAt DEF IsTask
<1>3. CASE ~enough(C)
  BY <1>1, <1>2, <1>3 DEF group
<1>4. CASE enough(C)
  <2>1. PICK lot \in lotFor(C) : Regrouped(idsOf(C), lot)
    BY <1>4 DEF group, Regrouped, idsOf
  <2>2. At[task[w].ev] \in Times
    BY <1>2 DEF Times, live
  <2>3. lot \in Labels /\ lot # NoLot /\ Names(lot, C)
    BY <1>2, <2>1, <2>2, LotIsNamed
  <2>4. QED
    BY <1>1, <1>2, <1>4, <2>1, <2>3
<1>5. QED
  BY <1>3, <1>4

\* After a settled sweep a group changes no row.
LEMMA GroupLeaves ==
    ASSUME LotInv, NEW w \in Workers, group(w), calm = "settled"
    PROVE  row' = row
<1> DEFINE ev == task[w].ev
           C == task[w].cands
           D == idsOf(C)
<1>1. /\ task[w].pc = "sifting" /\ task[w].seen = {}
      /\ \/ row' = row
         \/ enough(C) /\ \E lot \in Labels : lot # NoLot /\ Names(lot, C) /\ Regrouped(D, lot)
  BY GroupDoes
<1>2. CASE enough(C) /\ \E lot \in Labels : lot # NoLot /\ Names(lot, C) /\ Regrouped(D, lot)
  <2>1. PICK lot \in Labels : lot # NoLot /\ Names(lot, C) /\ Regrouped(D, lot)
    BY <1>2
  <2>2. /\ ev \in live /\ free(ev) /\ ev \in D
        /\ D \in SUBSET live /\ D \subseteq neighbours(ev) /\ (\A d \in D : free(d))
        /\ \E x, y \in D : x # y
        /\ Takes(D, lot)
    BY <1>1, <1>2, <2>1, GroupIs
  <2>3. RowsTyped /\ unmixed /\ \A e \in live : Meets(ev, e)
    BY <2>2 DEF LotInv, CalmInv
  <2>4. QED
    BY <2>1, <2>2, <2>3, GroupSettled
<1>3. QED
  BY <1>1, <1>2

LEMMA GroupStep ==
    ASSUME LotInv, NEW w \in Workers, group(w)
    PROVE  LotInv'
<1> DEFINE ev == task[w].ev
           C == task[w].cands
           D == idsOf(C)
<1>1. /\ task[w].pc = "sifting" /\ task[w].seen = {}
      /\ task[w] # NoTask /\ IsTask(task[w]) /\ ev \in live /\ C \in SUBSET Cand
      /\ Moves(w, NoTask) /\ queue' = queue /\ calm' = calm
  BY GroupDoes
<1>2. \/ ~enough(C) /\ row' = row
      \/ enough(C) /\ \E lot \in Labels : lot # NoLot /\ Names(lot, C) /\ Regrouped(D, lot)
  BY GroupDoes
<1>3. CASE row' = row /\ (calm \in Sweeps => ~enough(C))
  <2>1. ASSUME calm \in Sweeps, NEW e \in live PROVE Meets(ev, e)
    <3>1. calm # "none"
      BY <2>1, SweepsWork
    <3>2. /\ ev \in D /\ \A x \in neighbours(ev) : free(x) => x \in D
          /\ enough(C) <=> \E x, y \in D : x # y
      BY <1>1, <3>1, GroupIs
    <3>3. QED
      BY <1>3, <2>1, <3>2 DEF Meets
  <2>2. QED
    BY <1>1, <1>3, <2>1, TaskMoves
<1>4. ASSUME NEW lot \in Labels, lot # NoLot, Names(lot, C), Regrouped(D, lot),
             calm # "settled", enough(C)
      PROVE  LotInv'
  <2>1. D \in SUBSET Recent
    BY <1>1 DEF idsOf, Cand
  <2>2. /\ RowsTyped' /\ live' = live \cup D
        /\ \A d \in D : row'[d].auto /\ row'[d].lot = lot /\ row'[d].at = At[d] /\ row'[d] = deployment(d, lot, TRUE)
        /\ \A d \in Recent \ D : row'[d] = row[d]
    BY <1>4, <2>1, RegroupedIs DEF LotInv
  <2>3. /\ task' = [x \in Workers |-> task'[x]]
        /\ task'[w] = NoTask
        /\ \A x \in Workers : x # w => task'[x] = task[x]
    BY <1>1, MovesIs DEF LotInv
  <2>4. TasksTyped'
    <3>1. ASSUME NEW x \in Workers, task'[x] # NoTask PROVE IsTask(task[x])'
      <4>1. IsTask(task[x]) /\ task'[x] = task[x]
        BY <2>3, <3>1, WhoWorks
      <4>2. QED
        BY <2>2, <4>1 DEF IsTask
    <3>2. QED
      BY <1>1, <2>2, <2>3, <3>1 DEF LotInv, TasksTyped
  <2>5. CASE calm = "none"
    BY <1>1, <2>2, <2>4, <2>5, SweepsWork DEF LotInv, CalmInv
  <2>6. CASE calm \in Sweeps
    <3>1. w = calm /\ calm # "none" /\ calm # "settled" /\ \A x \in Workers \ {w} : idle(x)
      BY <1>1, <2>6, WhoWorks, SweepsWork DEF LotInv, CalmInv
    <3>2. /\ ev \in live /\ free(ev) /\ ev \in D
          /\ D \in SUBSET live /\ D \subseteq neighbours(ev) /\ (\A d \in D : free(d))
          /\ \A e \in neighbours(ev) : free(e) => e \in D
          /\ Takes(D, lot)
      BY <1>1, <1>4, <3>1, GroupIs
    <3>3. /\ RowsTyped /\ unmixed
          /\ \A d \in live \ ahead(w), e \in ahead(w) : row[d].at <= row[e].at
          /\ ev \notin queue[w]
          /\ \A e \in queue[w] : row[ev].at <= row[e].at
          /\ \A d \in live \ ahead(w), e \in live : Meets(d, e)
      BY <1>1, <2>6, <3>1 DEF LotInv, CalmInv, Sweeping
    <3>4. ahead(w) = queue[w] \cup {ev} /\ ahead(w)' = queue[w]
      BY <1>1, <2>3 DEF ahead
    <3>5. queue[w] \subseteq live
      BY <2>6, <3>1 DEF LotInv, TasksTyped
    <3>6. PICK P : P = live \ ahead(w)
      OBVIOUS
    <3>7. /\ P \in SUBSET live
          /\ \A d \in P : row[d].at <= row[ev].at
          /\ \A d \in live \ P : d # ev => row[ev].at <= row[d].at
          /\ \A d \in P, e \in live : Meets(d, e)
          /\ live \ queue[w] = P \cup {ev}
      BY <3>2, <3>3, <3>4, <3>5, <3>6
    <3>8. \A d \in P \cup {ev}, e \in live : Meets(d, e)'
      BY <1>4, <3>2, <3>3, <3>7, GroupMeets
    <3>9. /\ live' = live /\ RowsTyped' /\ unmixed'
          /\ \A d \in live : free(d)' <=> free(d)
          /\ \A d \in live : neighbours(d)' = neighbours(d)
          /\ \A d \in live : row'[d].at = row[d].at
      BY <1>4, <3>2, <3>3, GroupKeepsFree
    <3>10. \A d \in live \ queue[w], e \in queue[w] : row'[d].at <= row'[e].at
      BY <3>3, <3>4, <3>5, <3>7, <3>9
    <3>11. Sweeping(w)'
      BY <1>1, <2>3, <3>4, <3>7, <3>8, <3>9, <3>10 DEF Sweeping
    <3>12. \A x \in Workers : task'[x] = NoTask
      BY <2>3, <3>1 DEF idle
    <3>13. \A x \in Workers \ {w} : idle(x)'
      BY <1>1, <3>1, <3>12 DEF idle
    <3>14. CalmInv'
      BY <1>1, <3>1, <3>9, <3>11, <3>12, <3>13 DEF CalmInv
    <3>15. QED
      BY <2>2, <2>4, <3>14 DEF LotInv
  <2>7. QED
    BY <1>4, <2>5, <2>6 DEF LotInv, TasksTyped
<1>5. CASE calm = "settled"
  <2>1. row' = row
    BY <1>5, GroupLeaves
  <2>2. QED
    BY <1>3, <1>5, <2>1, SweepsWork
<1>6. QED
  BY <1>2, <1>3, <1>4, <1>5

-----------------------------------------------------------------------------
(***************************************************************************)
(* Steps of the sweep.                                                     *)
(***************************************************************************)
LEMMA SweepStarts ==
    ASSUME LotInv, NEW s \in Sweeps, sweepAutoLots(s)
    PROVE  LotInv'
<1>1. /\ idle(s) /\ queue' = [queue EXCEPT ![s] = live] /\ UNCHANGED << row, task >>
      /\ calm' = IF calm = "settled" THEN calm
                 ELSE IF unmixed /\ \A w \in Workers : idle(w) THEN s ELSE "none"
  BY DEF sweepAutoLots
<1>2. /\ live' = live /\ (RowsTyped' <=> RowsTyped) /\ (unmixed' <=> unmixed)
      /\ \A t : IsTask(t)' <=> IsTask(t)
      /\ \A t : Fresh(t)' <=> Fresh(t)
      /\ \A d, e : Meets(d, e)' <=> Meets(d, e)
  BY <1>1, RowsStay
<1>3. queue' \in [Sweeps -> SUBSET live]
  BY <1>1 DEF LotInv, TasksTyped
<1>4. \A x \in Workers : task[x] = NoTask \/ IsTask(task[x])'
  BY <1>1, <1>2 DEF LotInv, TasksTyped, IsTask
<1>5. TasksTyped'
  BY <1>1, <1>2, <1>3, <1>4 DEF LotInv, TasksTyped
<1>6. CASE calm = "settled"
  <2>1. \A x \in Workers : task[x] # NoTask => Fresh(task[x])'
    BY <1>1, <1>2, <1>6 DEF LotInv, CalmInv, Fresh
  <2>2. (\A d, e \in live : Meets(d, e))' /\ unmixed'
    BY <1>2, <1>6 DEF LotInv, CalmInv
  <2>3. QED
    BY <1>1, <1>2, <1>5, <1>6, <2>1, <2>2, SweepsWork DEF LotInv, CalmInv
<1>7. CASE calm # "settled" /\ unmixed /\ \A w \in Workers : idle(w)
  <2>1. calm' = s /\ s \in Workers /\ s # "settled" /\ s # "none"
    BY <1>1, <1>7, SweepsWork
  <2>2. \A x \in Workers : task'[x] = NoTask
    BY <1>1, <1>7 DEF idle
  <2>3. queue'[s] = live /\ \A x \in Sweeps : x # s => queue'[x] = {}
    BY <1>1, <1>7, SweepsWork DEF idle, LotInv, TasksTyped
  <2>4. ahead(s)' = live
    BY <2>1, <2>2, <2>3 DEF ahead
  <2>5. Sweeping(s)'
    BY <1>2, <2>1, <2>2, <2>4 DEF Sweeping
  <2>6. \A x \in Workers \ {s} : idle(x)'
    BY <2>2, <2>3 DEF idle
  <2>7. QED
    BY <1>2, <1>5, <1>7, <2>1, <2>2, <2>5, <2>6 DEF LotInv, CalmInv
<1>8. CASE calm' = "none"
  BY <1>2, <1>5, <1>8, SweepsWork DEF LotInv, CalmInv
<1>9. QED
  BY <1>1, <1>6, <1>7, <1>8

LEMMA SweepGoesOn ==
    ASSUME LotInv, NEW s \in Sweeps, sweepNext(s)
    PROVE  LotInv'
<1>1. task[s] = NoTask /\ UNCHANGED << row, calm >>
  BY DEF sweepNext
<1>2. s \in Workers /\ queue[s] \subseteq live
  BY SweepsWork DEF LotInv, TasksTyped
<1>3. PICK d \in queue[s] : /\ \A e \in queue[s] : row[d].at <= row[e].at
                            /\ queue' = [queue EXCEPT ![s] = @ \ {d}]
                            /\ task' = [task EXCEPT ![s] = attaching(d)]
  <2>1. PICK c \in earliest({cand(d) : d \in queue[s]}) : /\ queue' = [queue EXCEPT ![s] = @ \ {c.id}]
                                                         /\ task' = [task EXCEPT ![s] = attaching(c.id)]
    BY DEF sweepNext
  <2>2. PICK d \in queue[s] : c = cand(d)
    BY <2>1 DEF earliest
  <2>3. cand(d).id = d /\ \A e \in queue[s] : cand(d).at <= cand(e).at
    BY <2>1, <2>2 DEF earliest, cand
  <2>4. QED
    BY <2>1, <2>2, <2>3 DEF cand
<1>4. PICK t : Task("attach", d, {}, {}, t)
  BY DEF Task
<1>5. IsTask(t) /\ t # NoTask /\ t.pc = "attach" /\ t.ev = d
  BY <1>2, <1>3, <1>4, TaskIs
<1>6. Moves(s, t)
  BY <1>3, <1>4 DEF Moves, Task, attaching
<1>7. /\ task' = [x \in Workers |-> task'[x]]
      /\ task'[s] = t
      /\ \A x \in Workers : x # s => task'[x] = task[x]
  BY <1>2, <1>6, MovesIs DEF LotInv
<1>8. /\ live' = live /\ (RowsTyped' <=> RowsTyped) /\ (unmixed' <=> unmixed)
      /\ \A u : IsTask(u)' <=> IsTask(u)
      /\ \A u : Fresh(u)' <=> Fresh(u)
      /\ \A x, y : Meets(x, y)' <=> Meets(x, y)
  BY <1>1, RowsStay
<1>9. queue' \in [Sweeps -> SUBSET live] /\ queue'[s] = queue[s] \ {d} /\ \A x \in Sweeps : x # s => queue'[x] = queue[x]
  BY <1>3 DEF LotInv, TasksTyped
<1>10. TasksTyped'
  <2>1. \A x \in Workers : task'[x] = NoTask \/ IsTask(task'[x])
    BY <1>5, <1>7 DEF LotInv, TasksTyped
  <2>2. \A x \in Workers : task'[x] = NoTask \/ IsTask(task[x])'
    BY <1>8, <2>1 DEF IsTask
  <2>3. QED
    BY <1>1, <1>7, <1>8, <1>9, <2>2 DEF LotInv, TasksTyped
<1>11. CalmInv'
  <2>1. ASSUME calm # "none", NEW x \in Workers, task'[x] # NoTask PROVE Fresh(task[x])'
    <3>1. Fresh(task'[x])
      <4>1. CASE x = s
        BY <1>5, <1>7, <4>1 DEF Fresh
      <4>2. CASE x # s
        BY <1>7, <2>1, <4>2 DEF LotInv, CalmInv
      <4>3. QED
        BY <4>1, <4>2
    <3>2. PICK u : u = task'[x]
      OBVIOUS
    <3>3. Fresh(u)'
      BY <1>8, <3>1, <3>2
    <3>4. QED
      BY <3>2, <3>3 DEF Fresh
  <2>2. ASSUME calm \in Sweeps PROVE calm = s
    <3>1. \A x \in Workers \ {calm} : idle(x)
      BY <2>2 DEF LotInv, CalmInv
    <3>2. ~idle(s)
      BY <1>3 DEF idle
    <3>3. QED
      BY <1>2, <3>1, <3>2
  <2>3. ASSUME calm = s PROVE Sweeping(calm)'
    <3>1. /\ \A x \in live \ queue[s], e \in queue[s] : row[x].at <= row[e].at
          /\ \A x \in live \ queue[s], e \in live : Meets(x, e)
      BY <1>1, <2>3 DEF LotInv, CalmInv, Sweeping, ahead
    <3>2. ahead(s)' = queue[s]
      BY <1>3, <1>5, <1>7, <1>9 DEF ahead
    <3>3. QED
      BY <1>1, <1>2, <1>3, <1>5, <1>7, <1>8, <1>9, <2>3, <3>1, <3>2 DEF Sweeping
  <2>4. ASSUME calm = s, NEW x \in Workers, x # s PROVE idle(x)'
    <3>1. idle(x)
      BY <2>4 DEF LotInv, CalmInv
    <3>2. QED
      BY <1>7, <1>9, <2>4, <3>1 DEF idle
  <2>5. calm # "none" => unmixed'
    BY <1>8 DEF LotInv, CalmInv
  <2>6. ASSUME calm = "settled" PROVE (\A x, y \in live : Meets(x, y))'
    BY <1>8, <2>6 DEF LotInv, CalmInv
  <2>7. QED
    BY <1>1, <2>1, <2>2, <2>3, <2>4, <2>5, <2>6 DEF CalmInv
<1>12. QED
  BY <1>8, <1>10, <1>11 DEF LotInv

LEMMA SweepStops ==
    ASSUME LotInv, NEW s \in Sweeps, sweepEnds(s)
    PROVE  LotInv'
<1>1. calm = s /\ idle(s) /\ calm' = "settled" /\ UNCHANGED << row, task, queue >>
  BY DEF sweepEnds
<1>2. /\ live' = live /\ (RowsTyped' <=> RowsTyped) /\ (unmixed' <=> unmixed)
      /\ \A t : IsTask(t)' <=> IsTask(t)
      /\ \A t : Fresh(t)' <=> Fresh(t)
      /\ \A d, e : Meets(d, e)' <=> Meets(d, e)
  BY <1>1, RowsStay
<1>3. TasksTyped'
  <2>1. \A x \in Workers : task[x] = NoTask \/ IsTask(task[x])'
    BY <1>1, <1>2 DEF LotInv, TasksTyped, IsTask
  <2>2. QED
    BY <1>1, <1>2, <2>1 DEF LotInv, TasksTyped
<1>4. calm \in Sweeps /\ s \in Workers /\ calm # "none"
  BY <1>1, SweepsWork
<1>5. \A x \in Workers : task[x] = NoTask
  BY <1>1, <1>4 DEF LotInv, CalmInv, idle
<1>6. ahead(s) = {}
  BY <1>1 DEF ahead, idle
<1>7. \A d, e \in live : Meets(d, e)
  BY <1>1, <1>4, <1>6 DEF LotInv, CalmInv, Sweeping
<1>8. CalmInv'
  BY <1>1, <1>2, <1>4, <1>5, <1>7, SweepsWork DEF LotInv, CalmInv
<1>9. QED
  BY <1>2, <1>3, <1>8 DEF LotInv

-----------------------------------------------------------------------------
(***************************************************************************)
(* Steps of people and of requests: nothing is calm after them.            *)
(***************************************************************************)
\* A row as it was, written by somebody, or with another lot.
Written(d, r) ==
    \/ r = row[d]
    \/ \E l \in Lots : r = deployment(d, given(l), FALSE)
    \/ d \in live /\ \E lot \in {given(l) : l \in Lots} \cup {NoLot} : r = [row[d] EXCEPT !.lot = lot]

LEMMA LabelsGiven ==
    ASSUME NEW lot \in {given(l) : l \in Lots} \cup {NoLot}
    PROVE  lot \in Labels /\ lot[2] = 0
BY DEF given, NoLot, Labels

LEMMA WrittenIs ==
    ASSUME RowsTyped, row' = [d \in Recent |-> row'[d]], \A d \in Recent : Written(d, row'[d])
    PROVE  RowsTyped' /\ live \subseteq live'
<1> DEFINE Row == [at : Times \cup {0}, lot : Labels, auto : BOOLEAN, live : BOOLEAN]
<1>1. ASSUME NEW d \in Recent
      PROVE  /\ row'[d] \in Row
             /\ row'[d].live => row'[d].at = At[d] /\ (~row'[d].auto => row'[d].lot[2] = 0)
             /\ row[d].live => row'[d].live
  <2>1. /\ row[d] \in Row
        /\ row[d].live => row[d].at = At[d] /\ (~row[d].auto => row[d].lot[2] = 0)
    BY DEF RowsTyped, live
  <2>2. CASE row'[d] = row[d]
    BY <2>1, <2>2
  <2>3. CASE \E l \in Lots : row'[d] = deployment(d, given(l), FALSE)
    <3>1. PICK l \in Lots : row'[d] = deployment(d, given(l), FALSE)
      BY <2>3
    <3>2. PICK lot : lot = given(l)
      OBVIOUS
    <3>3. lot \in Labels /\ lot[2] = 0
      BY <3>2, LabelsGiven
    <3>4. At[d] \in Times
      BY DEF Times
    <3>5. PICK r : r = [at |-> At[d], lot |-> lot, auto |-> FALSE, live |-> TRUE]
      OBVIOUS
    <3>6. r \in Row /\ r.at = At[d] /\ r.lot[2] = 0 /\ r.live = TRUE
      BY <3>3, <3>4, <3>5
    <3>7. row'[d] = r
      BY <3>1, <3>2, <3>5 DEF deployment
    <3>8. QED
      BY <3>6, <3>7
  <2>4. CASE d \in live /\ \E lot \in {given(l) : l \in Lots} \cup {NoLot} : row'[d] = [row[d] EXCEPT !.lot = lot]
    <3>1. PICK lot \in {given(l) : l \in Lots} \cup {NoLot} : row'[d] = [row[d] EXCEPT !.lot = lot]
      BY <2>4
    <3>2. lot \in Labels /\ lot[2] = 0
      BY <3>1, LabelsGiven
    <3>3. PICK q, r : q = row[d] /\ r = [q EXCEPT !.lot = lot]
      OBVIOUS
    <3>4. q \in Row
      BY <2>1, <3>3
    <3>5. r \in Row /\ r.at = q.at /\ r.lot = lot /\ r.live = q.live
      BY <3>2, <3>3, <3>4
    <3>6. row'[d] = r /\ q.live /\ q.at = At[d]
      BY <2>1, <2>4, <3>1, <3>3 DEF live
    <3>7. QED
      BY <3>2, <3>5, <3>6
  <2>5. QED
    BY <2>2, <2>3, <2>4 DEF Written
<1>2. row' \in [Recent -> Row]
  BY <1>1
<1>3. \A d \in live' : row'[d].at = At[d] /\ (~row'[d].auto => row'[d].lot[2] = 0)
  BY <1>1 DEF live
<1>4. live \subseteq live'
  BY <1>1 DEF live
<1>5. QED
  BY <1>2, <1>3, <1>4 DEF RowsTyped

LEMMA TaskStays ==
    ASSUME live \subseteq live', NEW t, IsTask(t)
    PROVE  IsTask(t)'
BY DEF IsTask

LEMMA PeopleStep ==
    ASSUME LotInv, row' = [d \in Recent |-> row'[d]], \A d \in Recent : Written(d, row'[d]),
           task' = [w \in Workers |-> task'[w]],
           \A w \in Workers : \/ task'[w] = task[w] \/ task'[w] = NoTask
                              \/ \E d \in live' : task'[w] = attaching(d),
           queue' \in [Sweeps -> SUBSET live], calm' = "none"
    PROVE  LotInv'
<1>1. RowsTyped' /\ live \subseteq live'
  BY WrittenIs DEF LotInv
<1>2. ASSUME NEW w \in Workers, task'[w] # NoTask PROVE IsTask(task[w])'
  <2>1. PICK t : t = task'[w]
    OBVIOUS
  <2>2. CASE task'[w] = task[w]
    <3>1. IsTask(t)
      BY <1>2, <2>1, <2>2 DEF LotInv, TasksTyped
    <3>2. QED
      BY <1>1, <2>1, <3>1, TaskStays DEF IsTask
  <2>3. CASE \E d \in live' : task'[w] = attaching(d)
    <3>1. PICK d \in live' : t = attaching(d)
      BY <2>1, <2>3
    <3>2. t = [pc |-> t.pc, ev |-> t.ev, seen |-> t.seen, cands |-> t.cands]
          /\ t.pc = "attach" /\ t.ev = d /\ t.seen = {} /\ t.cands = {}
      BY <3>1 DEF attaching
    <3>3. QED
      BY <2>1, <3>2 DEF IsTask
  <2>4. QED
    BY <1>2, <2>2, <2>3
<1>3. queue' \in [Sweeps -> SUBSET live']
  BY <1>1
<1>4. TasksTyped'
  BY <1>2, <1>3 DEF TasksTyped
<1>5. CalmInv'
  BY SweepsWork DEF CalmInv
<1>6. QED
  BY <1>1, <1>4, <1>5 DEF LotInv

LEMMA RequestsStep ==
    ASSUME LotInv, NEW h \in Handlers, NEW d \in Recent, NEW l \in Lots, ingest(h, d, l) \/ overwrite(h, d, l)
    PROVE  LotInv'
<1>1. /\ task' = [task EXCEPT ![h] = attaching(d)] /\ queue' = queue /\ calm' = "none"
  BY DEF ingest, overwrite, edit
<1>2. /\ row = [x \in Recent |-> row[x]] /\ task = [x \in Workers |-> task[x]]
      /\ queue \in [Sweeps -> SUBSET live] /\ h \in Workers
  BY DEF LotInv, RowsTyped, TasksTyped, Workers
<1>3. /\ task' = [x \in Workers |-> task'[x]]
      /\ task'[h] = attaching(d) /\ \A x \in Workers : x # h => task'[x] = task[x]
  BY <1>1, <1>2
<1>4. CASE ingest(h, d, l)
  <2>1. row' = [row EXCEPT ![d] = deployment(d, given(l), FALSE)]
    BY <1>4 DEF ingest
  <2>2. /\ row' = [x \in Recent |-> row'[x]]
        /\ row'[d] = deployment(d, given(l), FALSE) /\ \A x \in Recent : x # d => row'[x] = row[x]
    BY <1>2, <2>1
  <2>3. \A x \in Recent : Written(x, row'[x])
    BY <2>2 DEF Written
  <2>4. d \in live'
    BY <2>2 DEF live, deployment
  <2>5. QED
    BY <1>1, <1>2, <1>3, <2>2, <2>3, <2>4, PeopleStep
<1>5. CASE overwrite(h, d, l)
  <2>1. row' = [row EXCEPT ![d].lot = given(l)] /\ d \in live
    BY <1>5 DEF overwrite, live
  <2>2. /\ row' = [x \in Recent |-> row'[x]]
        /\ row'[d] = [row[d] EXCEPT !.lot = given(l)] /\ \A x \in Recent : x # d => row'[x] = row[x]
    BY <1>2, <2>1
  <2>3. \A x \in Recent : Written(x, row'[x])
    BY <2>1, <2>2 DEF Written
  <2>4. d \in live'
    BY <2>1, <2>2, <2>3, WrittenIs DEF LotInv
  <2>5. QED
    BY <1>1, <1>2, <1>3, <2>2, <2>3, <2>4, PeopleStep
<1>6. QED
  BY <1>4, <1>5

LEMMA ByHandStep ==
    ASSUME LotInv, byHand
    PROVE  LotInv'
<1>1. /\ row = [x \in Recent |-> row[x]] /\ task = [x \in Workers |-> task[x]]
      /\ queue \in [Sweeps -> SUBSET live]
  BY DEF LotInv, RowsTyped, TasksTyped
<1>2. /\ task' = task /\ queue' = queue /\ calm' = "none"
  BY DEF byHand, assignLot, createLotAction, setEventLot, edit
<1>3. /\ row' = [x \in Recent |-> row'[x]]
      /\ \A x \in Recent : Written(x, row'[x])
  <2>1. CASE \E l \in Lots, D \in SUBSET Recent : assignLot(D, l) \/ createLotAction(D, l)
    <3>1. PICK l \in Lots, D \in SUBSET Recent :
             row' = [d \in Recent |-> IF d \in D THEN deployment(d, given(l), FALSE) ELSE row[d]]
      <4>1. PICK l \in Lots, D \in SUBSET Recent : assignLot(D, l) \/ createLotAction(D, l)
        BY <2>1
      <4>2. CASE createLotAction(D, l)
        BY <4>2 DEF createLotAction
      <4>3. CASE assignLot(D, l)
        <5>1. row' = [d \in Recent |-> IF d \in D \cap live THEN deployment(d, given(l), FALSE) ELSE row[d]]
          BY <4>3 DEF assignLot
        <5>2. D \cap live \in SUBSET Recent
          OBVIOUS
        <5>3. QED
          BY <5>1, <5>2
      <4>4. QED
        BY <4>1, <4>2, <4>3
    <3>2. \A x \in Recent : row'[x] = IF x \in D THEN deployment(x, given(l), FALSE) ELSE row[x]
      BY <3>1
    <3>3. QED
      BY <3>1, <3>2 DEF Written
  <2>2. CASE \E d \in Recent, lot \in {given(l) : l \in Lots} \cup {NoLot} : setEventLot(d, lot)
    <3>1. PICK d \in Recent, lot \in {given(l) : l \in Lots} \cup {NoLot} : setEventLot(d, lot)
      BY <2>2
    <3>2. row' = [row EXCEPT ![d].lot = lot] /\ d \in live
      BY <3>1 DEF setEventLot, live
    <3>3. /\ row' = [x \in Recent |-> row'[x]]
          /\ row'[d] = [row[d] EXCEPT !.lot = lot] /\ \A x \in Recent : x # d => row'[x] = row[x]
      BY <1>1, <3>2
    <3>4. lot \in {given(k) : k \in Lots} \cup {NoLot}
      BY <3>1
    <3>5. QED
      BY <3>2, <3>3, <3>4 DEF Written
  <2>3. QED
    BY <2>1, <2>2 DEF byHand
<1>4. QED
  BY <1>1, <1>2, <1>3, PeopleStep

LEMMA FailStep ==
    ASSUME LotInv, NEW w \in Workers, fail(w)
    PROVE  LotInv'
<1>1. /\ task' = [task EXCEPT ![w] = NoTask] /\ queue' = [s \in Sweeps |-> IF s = w THEN {} ELSE queue[s]]
      /\ row' = row /\ calm' = "none"
  BY DEF fail, edit
<1>2. /\ row = [x \in Recent |-> row[x]] /\ task = [x \in Workers |-> task[x]]
      /\ queue \in [Sweeps -> SUBSET live]
  BY DEF LotInv, RowsTyped, TasksTyped
<1>3. task' = [x \in Workers |-> task'[x]] /\ \A x \in Workers : task'[x] = task[x] \/ task'[x] = NoTask
  BY <1>1, <1>2
<1>4. queue' \in [Sweeps -> SUBSET live]
  BY <1>1, <1>2
<1>5. row' = [x \in Recent |-> row'[x]] /\ \A x \in Recent : Written(x, row'[x])
  BY <1>1, <1>2 DEF Written
<1>6. QED
  BY <1>1, <1>3, <1>4, <1>5, PeopleStep

-----------------------------------------------------------------------------
(***************************************************************************)
(* The invariant.                                                          *)
(***************************************************************************)
LEMMA LotInitInv ==
    ASSUME LotInit
    PROVE  LotInv
<1>1. \A d \in Recent : row[d] = [at |-> 0, lot |-> NoLot, auto |-> FALSE, live |-> FALSE]
  BY DEF LotInit, absentDeployment
<1>2. PICK r : r = [at |-> 0, lot |-> NoLot, auto |-> FALSE, live |-> FALSE]
  OBVIOUS
<1>3. r \in [at : Times \cup {0}, lot : Labels, auto : BOOLEAN, live : BOOLEAN] /\ r.live = FALSE
  BY <1>2 DEF Labels
<1>4. live = {}
  BY <1>1, <1>2, <1>3 DEF live
<1>5. row \in [Recent -> [at : Times \cup {0}, lot : Labels, auto : BOOLEAN, live : BOOLEAN]]
  BY <1>1, <1>2, <1>3 DEF LotInit
<1>6. RowsTyped
  BY <1>4, <1>5 DEF RowsTyped
<1>7. TasksTyped
  BY DEF LotInit, TasksTyped
<1>8. CalmInv
  BY SweepsWork DEF LotInit, CalmInv
<1>9. QED
  BY <1>6, <1>7, <1>8 DEF LotInv

LEMMA LotStep ==
    ASSUME LotInv, [LotNext]_lotVars
    PROVE  LotInv'
<1>1. CASE UNCHANGED lotVars
  <2>1. UNCHANGED << row, task, queue, calm >>
    BY <1>1 DEF lotVars
  <2>2. /\ live' = live /\ (RowsTyped' <=> RowsTyped) /\ (unmixed' <=> unmixed)
        /\ \A t : IsTask(t)' <=> IsTask(t)
        /\ \A t : Fresh(t)' <=> Fresh(t)
        /\ \A d, e : Meets(d, e)' <=> Meets(d, e)
    BY <2>1, RowsStay
  <2>3. TasksTyped'
    <3>1. \A x \in Workers : task[x] = NoTask \/ IsTask(task[x])'
      BY <2>1, <2>2 DEF LotInv, TasksTyped, IsTask
    <3>2. QED
      BY <2>1, <2>2, <3>1 DEF LotInv, TasksTyped
  <2>4. CalmInv'
    <3>1. calm # "none" => \A x \in Workers : task[x] # NoTask => Fresh(task[x])'
      BY <2>1, <2>2 DEF LotInv, CalmInv, Fresh
    <3>2. calm \in Sweeps => Sweeping(calm)' /\ \A x \in Workers \ {calm} : idle(x)'
      BY <2>1, <2>2 DEF LotInv, CalmInv, Sweeping, ahead, idle
    <3>3. calm = "settled" => (\A d, e \in live : Meets(d, e))'
      BY <2>2 DEF LotInv, CalmInv
    <3>4. QED
      BY <2>1, <2>2, <3>1, <3>2, <3>3 DEF LotInv, CalmInv
  <2>5. QED
    BY <2>2, <2>3, <2>4 DEF LotInv
<1>2. ASSUME NEW w \in Workers, attachToAutoLot(w) PROVE LotInv'
  BY <1>2, FindEventStep, CountOwnStep, FindNeighboursStep, SiftStep, GroupStep DEF attachToAutoLot
<1>3. ASSUME NEW s \in Sweeps, sweep(s) PROVE LotInv'
  BY <1>2, <1>3, SweepStarts, SweepGoesOn, SweepStops, SweepsWork DEF sweep
<1>4. CASE LotNext
  <2>1. ASSUME NEW h \in Handlers, attachToAutoLot(h) PROVE LotInv'
    BY <1>2, <2>1 DEF Workers
  <2>2. QED
    BY <1>3, <1>4, <2>1, RequestsStep, ByHandStep, FailStep DEF LotNext
<1>5. QED
  BY <1>1, <1>4

\* What a sweep that is alone has passed is grouped, and what it has read is as it read it
\* (lib/autoLot.ts).
THEOREM LotInvariant == LotSpec => []LotInv
<1>1. LotInit => LotInv
  BY LotInitInv
<1>2. LotInv /\ [LotNext]_lotVars => LotInv'
  BY LotStep
<1>3. QED
  BY <1>1, <1>2, PTL DEF LotSpec

-----------------------------------------------------------------------------
(***************************************************************************)
(* What follows.                                                           *)
(***************************************************************************)
\* Rows, attachments and queues are well typed; who is attached or queued is there.
THEOREM TypesHold == LotSpec => []LotTypeOK
<1>1. LotInv => LotTypeOK
  BY DEF LotInv, RowsTyped, TasksTyped, IsTask, LotTypeOK
<1>2. QED
  BY <1>1, LotInvariant, PTL

\* After a sweep that nothing disturbed, deployments near each other that nobody
\* grouped by hand are in one lot of the code's (lib/autoLot.ts sweepAutoLots), for any
\* number of them: the order by date is what makes one pass enough.
THEOREM SettledGroups == LotSpec => []SettledIsGrouped
<1>1. LotInv => SettledIsGrouped
  BY DEF LotInv, CalmInv, Meets, Together, SettledIsGrouped, grouped
<1>2. QED
  BY <1>1, LotInvariant, PTL

\* Only a group changes rows while something is calm, and then all it takes is free.
LEMMA CalmRows ==
    ASSUME LotInv, [LotNext]_lotVars, calm' # "none"
    PROVE  \/ row' = row
           \/ /\ calm # "none" /\ calm' = calm
              /\ \E w \in Workers : group(w)
<1>1. CASE UNCHANGED lotVars
  BY <1>1 DEF lotVars
<1>2. ASSUME NEW w \in Workers, attachToAutoLot(w) PROVE row' = row \/ (calm' = calm /\ group(w))
  BY <1>2 DEF attachToAutoLot, findEvent, countOwn, findNeighbours, sift, group
<1>3. ASSUME NEW s \in Sweeps, sweep(s) PROVE row' = row \/ (calm' = calm /\ group(s))
  BY <1>2, <1>3, SweepsWork DEF sweep, sweepAutoLots, sweepNext, sweepEnds
<1>4. CASE LotNext
  <2>1. ~byHand
    BY DEF byHand, assignLot, createLotAction, setEventLot, edit
  <2>2. \A h \in Handlers, d \in Recent, l \in Lots : ~overwrite(h, d, l) /\ ~ingest(h, d, l)
    BY DEF overwrite, ingest, edit
  <2>3. \A w \in Workers : ~fail(w)
    BY DEF fail, edit
  <2>4. \/ \E h \in Handlers : attachToAutoLot(h)
        \/ \E s \in Sweeps : sweep(s)
    BY <1>4, <2>1, <2>2, <2>3 DEF LotNext
  <2>5. QED
    BY <1>2, <1>3, <2>4 DEF Workers
<1>5. QED
  BY <1>1, <1>4

\* Once a calm sweep ended, any number of sweeps at once change no row until somebody
\* does (lib/autoLot.ts): attaching again gives every group the lot it has.
THEOREM SweepsSettle == LotSpec => SweepSettles
<1>1. LotInv /\ [LotNext]_lotVars => [calm = "settled" /\ calm' = "settled" => UNCHANGED row]_lotVars
  <2>1. SUFFICES ASSUME LotInv, [LotNext]_lotVars, calm = "settled", calm' = "settled" PROVE row' = row
    OBVIOUS
  <2>2. QED
    BY <2>1, CalmRows, GroupLeaves
<1>2. QED
  BY <1>1, LotInvariant, PTL DEF LotSpec, SweepSettles

\* A sweep that nothing disturbs changes no member of a lot that somebody made: who is
\* in one is not free, and a group takes who is free (lib/autoLot.ts isMultiMember).
THEOREM ManualLotsStay == LotSpec => CalmSweepSparesManualLots
<1>1. LotInv /\ [LotNext]_lotVars =>
         [\A d \in live : calm' # "none" /\ manualLot(row[d].lot) => row'[d] = row[d]]_lotVars
  <2>1. SUFFICES ASSUME LotInv, [LotNext]_lotVars, NEW d \in live, calm' # "none", manualLot(row[d].lot)
                 PROVE  row'[d] = row[d]
    OBVIOUS
  <2>2. ASSUME NEW w \in Workers, group(w), calm # "none" PROVE row'[d] = row[d]
    <3>1. /\ task[w].pc = "sifting" /\ task[w].seen = {}
          /\ \/ row' = row
             \/ \E lot \in Labels : Regrouped(idsOf(task[w].cands), lot)
      BY <2>1, <2>2, GroupDoes
    <3>2. \A x \in idsOf(task[w].cands) : free(x)
      BY <2>1, <2>2, <3>1, GroupIs
    <3>3. ~free(d)
      BY <2>1 DEF free, manualLot
    <3>4. d \in Recent
      BY <2>1 DEF live
    <3>5. QED
      BY <3>1, <3>2, <3>3, <3>4 DEF Regrouped
  <2>3. QED
    BY <2>1, <2>2, CalmRows
<1>2. QED
  BY <1>1, LotInvariant, PTL DEF LotSpec, CalmSweepSparesManualLots

=============================================================================
