----------------------------- MODULE AccessProofs -----------------------------
(***************************************************************************)
(* Theorems about Access, for every set of users, groups, keys, requests   *)
(* and syncs, every limit, window and life of a session, and every bound;  *)
(* and, in the second part, about Visibility: who gets in, and what is     *)
(* shown to those who do not.                                              *)
(***************************************************************************)
EXTENDS Access, Visibility, FiniteSetTheorems, TLAPS

(***************************************************************************)
(* The limiter.  Every failure that a window counts was told since it      *)
(* began; a request that passed the check is under way until it tells.     *)
(***************************************************************************)
Pending == {"bind", "groups", "fail"}

PendingAttempt == [pc : Pending, key : Keys, now : Nat]

KnownAttempt == [pc : {"reset", "sign"}, key : Keys, now : Nat, roles : SUBSET Roles]

ClockTyped == now \in Nat

AttemptsTyped ==
    /\ attempt \in [Attempts -> {NoAttempt} \cup PendingAttempt \cup KnownAttempt]
    /\ \A a \in Attempts : attempt[a] # NoAttempt => attempt[a].now <= now

WindowsTyped ==
    /\ windows \in [Keys -> [count : Nat, startedAt : Nat]]
    /\ \A k \in Keys : windows[k].startedAt <= now

underWay(q, k) == {a \in Attempts : q[a].pc \in Pending /\ q[a].key = k}

CountsAreFew ==
    /\ attempts \in 0..MaxAttempts
    /\ \A k \in Keys :
          /\ windows[k].count + Cardinality(underWay(attempt, k)) <= attempts
          /\ windows[k].count + Cardinality(underWay(attempt, k)) <= LIMIT - 1 + Cardinality(Attempts)

toldSince(f, t) == {i \in DOMAIN f : f[i] >= t}

CountsAreEarned ==
    /\ failures \in [Keys -> Seq(Nat)]
    /\ \A k \in Keys : windows[k].count <= Cardinality(toldSince(failures[k], windows[k].startedAt))

LimiterInv == ClockTyped /\ AttemptsTyped /\ WindowsTyped /\ CountsAreFew /\ CountsAreEarned

(***************************************************************************)
(* Sessions.  A role that a request or a session carries is one that its   *)
(* user has, or had when the request began or later.                       *)
(***************************************************************************)
Session == [signed : Nat, began : Nat, roles : SUBSET Roles]

PeopleTyped ==
    /\ people \in [Users -> (SUBSET Groups) \cup {Nobody}]
    /\ heldUntil \in [Users -> [Roles -> Int]]

HeldSince(u, role, t) == holdsRole(u, role) \/ heldUntil[u][role] >= t

SessionTyped ==
    /\ session \in [Users -> {NoSession} \cup Session]
    /\ \A u \in Users, q \in Session : session[u] = q => q.began <= now

RolesWereHeld ==
    /\ \A a \in Attempts, q \in KnownAttempt :
          attempt[a] = q => \A role \in q.roles : HeldSince(UserOf[q.key], role, q.now)
    /\ \A u \in Users, q \in Session :
          session[u] = q => \A role \in q.roles : HeldSince(u, role, q.began)

SessionInv == PeopleTyped /\ SessionTyped /\ RolesWereHeld

(***************************************************************************)
(* Syncs.  What a sync listed is what it has to do, has done and does; a   *)
(* calm one is alone, and what it has done is as the directory is.         *)
(***************************************************************************)
UsersSync ==
    {q \in [pc : {"users"}, listing : SUBSET Users, todo : SUBSET Users, seen : SUBSET Users, calm : BOOLEAN] :
        q.todo \cup q.seen = q.listing}

UpsertSync ==
    {q \in [pc : {"upsert"}, listing : SUBSET Users, todo : SUBSET Users, seen : SUBSET Users, calm : BOOLEAN,
            user : Users, groups : (SUBSET Groups) \cup {Nobody}] :
        q.todo \cup q.seen \cup {q.user} = q.listing}

SyncsTyped == sync \in [Syncs -> {NoSync} \cup UsersSync \cup UpsertSync]

TableTyped == directoryUser \in [Users -> (SUBSET Roles) \cup {Nobody}]

CalmIsAlone == \A s, y \in Syncs : sync[s].calm /\ y # s => sync[y] = NoSync

Faithful(q) ==
    /\ q.listing = listed
    /\ \A u \in q.seen : directoryUser[u] = copied(u)
    /\ q.pc = "upsert" => q.groups = people[q.user]

CalmIsTrue == \A s \in Syncs : sync[s].calm => Faithful(sync[s])

SyncInv == SyncsTyped /\ TableTyped /\ CalmIsAlone /\ CalmIsTrue

AccessInv == LimiterInv /\ SessionInv /\ SyncInv

-------------------------------------------------------------------------------
(***************************************************************************)
(* The limiter.                                                            *)
(***************************************************************************)
\* The requests under way of a key are finitely many, as all requests are.
LEMMA UnderWayIsFinite ==
    ASSUME NEW q, NEW k
    PROVE  /\ IsFiniteSet(underWay(q, k))
           /\ Cardinality(underWay(q, k)) \in Nat
           /\ Cardinality(Attempts) \in Nat
           /\ Cardinality(underWay(q, k)) <= Cardinality(Attempts)
<1>1. underWay(q, k) \subseteq Attempts
  BY DEF underWay
<1>2. IsFiniteSet(Attempts)
  BY AccessAssumption
<1>3. QED
  BY <1>1, <1>2, FS_Subset, FS_CardinalityType

\* A request that passes the check is one more under way for its key, and for no other.
LEMMA OneMoreUnderWay ==
    ASSUME AttemptsTyped, NEW a \in Attempts, NEW r, attempt' = [attempt EXCEPT ![a] = r],
           attempt[a].pc \notin Pending, r.pc \in Pending, NEW k
    PROVE  /\ k = r.key => Cardinality(underWay(attempt', k)) = Cardinality(underWay(attempt, k)) + 1
           /\ k # r.key => underWay(attempt', k) = underWay(attempt, k)
<1>1. k # r.key => underWay(attempt', k) = underWay(attempt, k)
  BY DEF underWay, AttemptsTyped
<1>2. ASSUME k = r.key
      PROVE  Cardinality(underWay(attempt', k)) = Cardinality(underWay(attempt, k)) + 1
  <2>1. underWay(attempt', k) = underWay(attempt, k) \cup {a} /\ a \notin underWay(attempt, k)
    BY <1>2 DEF underWay, AttemptsTyped
  <2>2. QED
    BY <2>1, UnderWayIsFinite, FS_AddElement
<1>3. QED
  BY <1>1, <1>2

\* One that fails, or has its roles, is under way no more.
LEMMA OneLessUnderWay ==
    ASSUME AttemptsTyped, NEW a \in Attempts, NEW r, attempt' = [attempt EXCEPT ![a] = r],
           attempt[a].pc \in Pending, r.pc \notin Pending, NEW k
    PROVE  /\ k = attempt[a].key => Cardinality(underWay(attempt', k)) = Cardinality(underWay(attempt, k)) - 1
           /\ k # attempt[a].key => underWay(attempt', k) = underWay(attempt, k)
<1>1. k # attempt[a].key => underWay(attempt', k) = underWay(attempt, k)
  BY DEF underWay, AttemptsTyped
<1>2. ASSUME k = attempt[a].key
      PROVE  Cardinality(underWay(attempt', k)) = Cardinality(underWay(attempt, k)) - 1
  <2>1. underWay(attempt', k) = underWay(attempt, k) \ {a} /\ a \in underWay(attempt, k)
    BY <1>2 DEF underWay, AttemptsTyped
  <2>2. QED
    BY <2>1, UnderWayIsFinite, FS_RemoveElement
<1>3. QED
  BY <1>1, <1>2

\* One that waits for its next answer, or goes past the limiter, adds nobody to those under way.
LEMMA NoMoreUnderWay ==
    ASSUME AttemptsTyped, NEW a \in Attempts, NEW r, attempt' = [attempt EXCEPT ![a] = r],
           r.pc \in Pending => attempt[a].pc \in Pending /\ r.key = attempt[a].key,
           NEW k
    PROVE  Cardinality(underWay(attempt', k)) <= Cardinality(underWay(attempt, k))
<1>1. underWay(attempt', k) \subseteq underWay(attempt, k)
  BY DEF underWay, AttemptsTyped
<1>2. QED
  BY <1>1, UnderWayIsFinite, FS_Subset

LEMMA ToldIsFinite ==
    ASSUME NEW f \in Seq(Nat), NEW t \in Nat
    PROVE  IsFiniteSet(toldSince(f, t)) /\ Cardinality(toldSince(f, t)) \in Nat
<1>1. toldSince(f, t) \subseteq 1..Len(f)
  BY DEF toldSince
<1>2. IsFiniteSet(1..Len(f))
  BY FS_Interval
<1>3. QED
  BY <1>1, <1>2, FS_Subset, FS_CardinalityType

\* A failure that is told now counts for every window that began before.
LEMMA OneMoreTold ==
    ASSUME NEW f \in Seq(Nat), NEW t \in Nat, NEW x \in Nat, t <= x
    PROVE  Cardinality(toldSince(Append(f, x), t)) = Cardinality(toldSince(f, t)) + 1
<1>1. toldSince(Append(f, x), t) = toldSince(f, t) \cup {Len(f) + 1}
  BY DEF toldSince
<1>2. Len(f) + 1 \notin toldSince(f, t)
  BY DEF toldSince
<1>3. QED
  <2>1. IsFiniteSet(toldSince(f, t)) /\ Cardinality(toldSince(f, t)) \in Nat
    BY ToldIsFinite
  <2>2. QED
    BY <1>1, <1>2, <2>1, FS_AddElement

-------------------------------------------------------------------------------
AnyAttempt == {NoAttempt} \cup PendingAttempt \cup KnownAttempt

\* How far a request is says what it remembers.
LEMMA AttemptShape ==
    ASSUME NEW q \in AnyAttempt
    PROVE  /\ q.pc \in Pending <=> q \in PendingAttempt
           /\ q.pc \in {"reset", "sign"} <=> q \in KnownAttempt
           /\ q # NoAttempt <=> q.pc # "idle"
           /\ q # NoAttempt => q.key \in Keys /\ q.now \in Nat
BY DEF AnyAttempt, NoAttempt, PendingAttempt, KnownAttempt, Pending

\* A step of request a, after which it is r.
Becomes(a, r) ==
    /\ attempt' = [attempt EXCEPT ![a] = r]
    /\ r \in AnyAttempt
    /\ r # NoAttempt => r.now <= now
    /\ now' = now

LEMMA BecomesTyped ==
    ASSUME LimiterInv, NEW a \in Attempts, NEW r, Becomes(a, r)
    PROVE  ClockTyped' /\ AttemptsTyped'
BY DEF Becomes, LimiterInv, ClockTyped, AttemptsTyped, AnyAttempt

\* What the limiter has of a key when the window is dropped, or stays.  The history of
\* its failures stays too, or ends with the window.
KeepsOrDrops(k) ==
    \/ windows'[k] = windows[k] /\ failures'[k] = failures[k]
    \/ windows'[k] = NoWindow

\* A window that has gone counts nothing; one that stays counts what it counted.
LEMMA EarnedStays ==
    ASSUME LimiterInv, NEW k \in Keys, failures'[k] \in Seq(Nat), KeepsOrDrops(k)
    PROVE  /\ windows'[k].count <= Cardinality(toldSince(failures'[k], windows'[k].startedAt))
           /\ windows'[k].count \in Nat
           /\ windows'[k].count <= windows[k].count
           /\ windows'[k].startedAt <= now
<1>1. windows[k] \in [count : Nat, startedAt : Nat] /\ windows[k].startedAt <= now /\ now \in Nat
  BY DEF LimiterInv, WindowsTyped, ClockTyped
<1>2. CASE windows'[k] = windows[k] /\ failures'[k] = failures[k]
  BY <1>1, <1>2 DEF LimiterInv, CountsAreEarned
<1>3. CASE windows'[k] = NoWindow
  <2>1. Cardinality(toldSince(failures'[k], 0)) \in Nat
    BY ToldIsFinite
  <2>2. windows'[k].count = 0 /\ windows'[k].startedAt = 0
    BY <1>3 DEF NoWindow
  <2>3. QED
    BY <1>1, <2>1, <2>2
<1>4. QED
  BY <1>2, <1>3 DEF KeepsOrDrops

\* A key that has no more of both than it had is within what it may have.
LEMMA RoomIsLeft ==
    ASSUME LimiterInv, NEW k \in Keys, NEW w \in Nat, NEW c \in Nat,
           w + c <= windows[k].count + Cardinality(underWay(attempt, k))
    PROVE  w + c <= attempts /\ w + c <= LIMIT - 1 + Cardinality(Attempts)
<1>1. windows[k].count \in Nat
  BY DEF LimiterInv, WindowsTyped
<1>2. Cardinality(underWay(attempt, k)) \in Nat /\ Cardinality(Attempts) \in Nat
  BY UnderWayIsFinite
<1>3. /\ windows[k].count + Cardinality(underWay(attempt, k)) <= attempts
      /\ windows[k].count + Cardinality(underWay(attempt, k)) <= LIMIT - 1 + Cardinality(Attempts)
      /\ attempts \in Nat
  BY DEF LimiterInv, CountsAreFew
<1>4. LIMIT \in Nat
  BY AccessAssumption
<1>5. QED
  BY <1>1, <1>2, <1>3, <1>4

\* Windows that are dropped or stay while nobody joins those under way.
LEMMA DropsKeepInv ==
    ASSUME LimiterInv,
           windows' \in [Keys -> [count : Nat, startedAt : Nat]],
           failures' \in [Keys -> Seq(Nat)],
           \A k \in Keys : KeepsOrDrops(k),
           \A k \in Keys : Cardinality(underWay(attempt', k)) <= Cardinality(underWay(attempt, k)),
           ClockTyped', now' >= now, AttemptsTyped', UNCHANGED attempts
    PROVE  LimiterInv'
<1>1. ASSUME NEW k \in Keys
      PROVE  /\ windows'[k].count <= Cardinality(toldSince(failures'[k], windows'[k].startedAt))
             /\ windows'[k].count \in Nat
             /\ windows'[k].count <= windows[k].count
             /\ windows'[k].startedAt <= now
  BY EarnedStays
<1>2. WindowsTyped'
  BY <1>1 DEF WindowsTyped, LimiterInv, ClockTyped
<1>3. CountsAreEarned'
  BY <1>1 DEF CountsAreEarned
<1>4. ASSUME NEW k \in Keys
      PROVE  /\ windows'[k].count + Cardinality(underWay(attempt', k)) <= attempts
             /\ windows'[k].count + Cardinality(underWay(attempt', k)) <= LIMIT - 1 + Cardinality(Attempts)
  <2>1. windows'[k].count \in Nat /\ windows[k].count \in Nat /\ windows'[k].count <= windows[k].count
    BY <1>1 DEF LimiterInv, WindowsTyped
  <2>2. Cardinality(underWay(attempt', k)) \in Nat /\ Cardinality(underWay(attempt, k)) \in Nat
    BY UnderWayIsFinite
  <2>3. Cardinality(underWay(attempt', k)) <= Cardinality(underWay(attempt, k))
    OBVIOUS
  <2>4. windows'[k].count + Cardinality(underWay(attempt', k)) <= windows[k].count + Cardinality(underWay(attempt, k))
    BY <2>1, <2>2, <2>3
  <2>5. QED
    BY <2>1, <2>2, <2>4, RoomIsLeft
<1>5. CountsAreFew'
  BY <1>4 DEF CountsAreFew, LimiterInv
<1>6. QED
  BY <1>2, <1>3, <1>5 DEF LimiterInv

LEMMA DroppedDoes ==
    ASSUME LimiterInv, NEW k0 \in Keys, NEW t, windows' = dropped(k0, t), UNCHANGED failures
    PROVE  /\ windows' \in [Keys -> [count : Nat, startedAt : Nat]]
           /\ \A k \in Keys : KeepsOrDrops(k)
           /\ check(k0, t) => windows'[k0].count < LIMIT
<1>1. windows \in [Keys -> [count : Nat, startedAt : Nat]]
  BY DEF LimiterInv, WindowsTyped
<1>2. NoWindow \in [count : Nat, startedAt : Nat] /\ NoWindow.count = 0
  BY DEF NoWindow
<1>3. windows' \in [Keys -> [count : Nat, startedAt : Nat]]
  BY <1>1, <1>2 DEF dropped
<1>4. \A k \in Keys : KeepsOrDrops(k)
  BY <1>1 DEF dropped, KeepsOrDrops
<1>5. LIMIT \in Nat \ {0}
  BY AccessAssumption
<1>6. windows'[k0] = IF live(windows[k0], t) THEN windows[k0] ELSE NoWindow
  BY <1>1 DEF dropped
<1>7. check(k0, t) => windows'[k0].count < LIMIT
  BY <1>2, <1>5, <1>6 DEF check
<1>8. QED
  BY <1>3, <1>4, <1>7

\* A request is refused, or is one more under way in a window that counts less than LIMIT.
LEMMA SubmitStep ==
    ASSUME LimiterInv, NEW a \in Attempts, NEW k0 \in Keys, submit(a, k0)
    PROVE  LimiterInv'
<1>0. AttemptsTyped
  BY DEF LimiterInv
<1>1. /\ attempt \in [Attempts -> AnyAttempt] /\ now \in Nat /\ attempts \in Nat /\ MaxAttempts \in Nat
      /\ failures \in [Keys -> Seq(Nat)]
  BY AccessAssumption DEF LimiterInv, AttemptsTyped, AnyAttempt, ClockTyped, CountsAreFew, CountsAreEarned
<1>2. /\ attempt[a] = NoAttempt /\ attempts' = attempts + 1 /\ attempts < MaxAttempts
      /\ windows' = dropped(k0, now) /\ now' = now /\ failures' = failures
  BY DEF submit
<1>3. /\ windows' \in [Keys -> [count : Nat, startedAt : Nat]]
      /\ \A k \in Keys : KeepsOrDrops(k)
      /\ check(k0, now) => windows'[k0].count < LIMIT
      /\ \A k \in Keys : failures'[k] \in Seq(Nat)
  BY <1>1, <1>2, DroppedDoes
<1>4. WindowsTyped'
  BY <1>1, <1>2, <1>3, EarnedStays DEF WindowsTyped
<1>5. CountsAreEarned'
  BY <1>1, <1>2, <1>3, EarnedStays DEF CountsAreEarned
<1>6. ASSUME NEW k \in Keys, Cardinality(underWay(attempt', k)) = Cardinality(underWay(attempt, k))
      PROVE  /\ windows'[k].count + Cardinality(underWay(attempt', k)) <= attempts'
             /\ windows'[k].count + Cardinality(underWay(attempt', k)) <= LIMIT - 1 + Cardinality(Attempts)
  <2>1. windows'[k].count \in Nat /\ windows[k].count \in Nat /\ windows'[k].count <= windows[k].count
    BY <1>2, <1>3, EarnedStays DEF LimiterInv, WindowsTyped
  <2>2. Cardinality(underWay(attempt', k)) \in Nat
    BY UnderWayIsFinite
  <2>3. windows'[k].count + Cardinality(underWay(attempt', k)) <= windows[k].count + Cardinality(underWay(attempt, k))
    BY <1>6, <2>1, <2>2
  <2>4. /\ windows'[k].count + Cardinality(underWay(attempt', k)) <= attempts
        /\ windows'[k].count + Cardinality(underWay(attempt', k)) <= LIMIT - 1 + Cardinality(Attempts)
    BY <2>1, <2>2, <2>3, RoomIsLeft
  <2>5. attempts \in Nat /\ attempts' = attempts + 1
    BY <1>1, <1>2
  <2>6. QED
    BY <2>1, <2>2, <2>4, <2>5
<1>7. CASE ~check(k0, now)
  <2>1. attempt' = attempt
    BY <1>7 DEF submit
  <2>2. ClockTyped' /\ AttemptsTyped'
    BY <1>2, <2>1 DEF LimiterInv, ClockTyped, AttemptsTyped
  <2>3. \A k \in Keys : Cardinality(underWay(attempt', k)) = Cardinality(underWay(attempt, k))
    BY <2>1
  <2>4. CountsAreFew'
    BY <1>1, <1>2, <1>6, <2>3 DEF CountsAreFew
  <2>5. QED
    BY <1>4, <1>5, <2>2, <2>4 DEF LimiterInv
<1>8. CASE check(k0, now)
  <2>1. PICK r : r = [pc |-> "bind", key |-> k0, now |-> now]
    OBVIOUS
  <2>2. attempt' = [attempt EXCEPT ![a] = r]
    BY <1>8, <2>1 DEF submit
  <2>3. r \in AnyAttempt /\ r.pc \in Pending /\ r.key = k0 /\ r.now = now
    BY <1>1, <2>1 DEF AnyAttempt, PendingAttempt, Pending
  <2>4. ClockTyped' /\ AttemptsTyped'
    <3>1. Becomes(a, r)
      BY <1>1, <1>2, <2>2, <2>3 DEF Becomes
    <3>2. QED
      BY <3>1, BecomesTyped
  <2>5. attempt[a].pc \notin Pending
    BY <1>2 DEF NoAttempt, Pending
  <2>6. ASSUME NEW k \in Keys
        PROVE  /\ windows'[k].count + Cardinality(underWay(attempt', k)) <= attempts'
               /\ windows'[k].count + Cardinality(underWay(attempt', k)) <= LIMIT - 1 + Cardinality(Attempts)
    <3>1. CASE k # k0
      <4>1. underWay(attempt', k) = underWay(attempt, k)
        BY <1>0, <2>2, <2>3, <2>5, <3>1, OneMoreUnderWay
      <4>2. Cardinality(underWay(attempt', k)) = Cardinality(underWay(attempt, k))
        BY <4>1
      <4>3. QED
        BY <1>6, <4>2
    <3>2. CASE k = k0
      <4>2. Cardinality(underWay(attempt', k)) = Cardinality(underWay(attempt, k)) + 1
        BY <1>0, <2>2, <2>3, <2>5, <3>2, OneMoreUnderWay
      <4>3. /\ Cardinality(underWay(attempt', k)) <= Cardinality(Attempts)
            /\ Cardinality(underWay(attempt', k)) \in Nat /\ Cardinality(underWay(attempt, k)) \in Nat
            /\ Cardinality(Attempts) \in Nat
        BY UnderWayIsFinite
      <4>4. windows'[k].count \in Nat /\ windows'[k].count < LIMIT /\ LIMIT \in Nat
        BY <1>3, <1>8, <3>2, AccessAssumption
      <4>5. windows'[k].count + Cardinality(underWay(attempt', k)) <= LIMIT - 1 + Cardinality(Attempts)
        BY <4>3, <4>4
      <4>6. windows[k].count \in Nat /\ windows'[k].count <= windows[k].count
        BY <1>2, <1>3, EarnedStays DEF LimiterInv, WindowsTyped
      <4>7. windows'[k].count + Cardinality(underWay(attempt, k)) <= attempts
        BY <4>3, <4>4, <4>6, RoomIsLeft
      <4>8. attempts \in Nat /\ attempts' = attempts + 1
        BY <1>1, <1>2
      <4>9. QED
        BY <4>2, <4>3, <4>4, <4>5, <4>7, <4>8
    <3>3. QED
      BY <3>1, <3>2
  <2>7. CountsAreFew'
    BY <1>1, <1>2, <2>6 DEF CountsAreFew
  <2>8. QED
    BY <1>4, <1>5, <2>4, <2>7 DEF LimiterInv
<1>9. QED
  BY <1>7, <1>8

\* A request that waits for its next answer, or goes past the limiter, while windows go or stay.
LEMMA MovesAlone ==
    ASSUME LimiterInv, NEW a \in Attempts, NEW r, Becomes(a, r),
           r.pc \in Pending => attempt[a].pc \in Pending /\ r.key = attempt[a].key,
           windows' \in [Keys -> [count : Nat, startedAt : Nat]],
           failures' \in [Keys -> Seq(Nat)],
           \A k \in Keys : KeepsOrDrops(k),
           UNCHANGED attempts
    PROVE  LimiterInv'
<1>1. ClockTyped' /\ AttemptsTyped'
  BY BecomesTyped
<1>2. now' >= now
  BY DEF Becomes, LimiterInv, ClockTyped
<1>3. \A k \in Keys : Cardinality(underWay(attempt', k)) <= Cardinality(underWay(attempt, k))
  BY NoMoreUnderWay DEF LimiterInv, Becomes
<1>4. QED
  BY <1>1, <1>2, <1>3, DropsKeepInv

\* A failure is told: it is under way no more, and its window, or the one that it begins,
\* counts one more.  Windows that have ended at the clock of the request go.
LEMMA FailedStep ==
    ASSUME LimiterInv, NEW a \in Attempts, loginFailed(a)
    PROVE  LimiterInv'
<1>0. AttemptsTyped
  BY DEF LimiterInv
<1>1. /\ attempt \in [Attempts -> AnyAttempt] /\ now \in Nat /\ attempts \in Nat
      /\ failures \in [Keys -> Seq(Nat)]
      /\ windows \in [Keys -> [count : Nat, startedAt : Nat]]
      /\ \A k \in Keys : windows[k].startedAt <= now
  BY DEF LimiterInv, AttemptsTyped, AnyAttempt, ClockTyped, CountsAreFew, CountsAreEarned, WindowsTyped
<1>2. attempt[a].pc = "fail" /\ attempt[a].pc \in Pending
  BY DEF loginFailed, Pending
<1>3. PICK k0, t : k0 = attempt[a].key /\ t = attempt[a].now
  OBVIOUS
<1>4. k0 \in Keys /\ t \in Nat /\ t <= now
  <2>1. attempt[a] # NoAttempt
    BY <1>2 DEF NoAttempt
  <2>2. QED
    BY <1>1, <1>3, <2>1, AttemptShape DEF LimiterInv, AttemptsTyped
<1>5. /\ windows' = failed(k0, t)
      /\ failures' = [failures EXCEPT ![k0] = Append(@, now)]
      /\ attempt' = [attempt EXCEPT ![a] = NoAttempt]
      /\ now' = now /\ attempts' = attempts
  BY <1>3 DEF loginFailed
<1>6. NoAttempt.pc \notin Pending
  BY DEF NoAttempt, Pending
<1>7. ClockTyped' /\ AttemptsTyped'
  <2>1. Becomes(a, NoAttempt)
    BY <1>5 DEF Becomes, AnyAttempt
  <2>2. QED
    BY <2>1, BecomesTyped
<1>8. NoWindow \in [count : Nat, startedAt : Nat]
  BY DEF NoWindow
<1>9. windows' \in [Keys -> [count : Nat, startedAt : Nat]]
  BY <1>1, <1>4, <1>5, <1>8 DEF failed
<1>10. failures' \in [Keys -> Seq(Nat)]
  BY <1>1, <1>4, <1>5
<1>11. ASSUME NEW k \in Keys, k # k0
       PROVE  KeepsOrDrops(k) /\ failures'[k] = failures[k] /\ underWay(attempt', k) = underWay(attempt, k)
  <2>1. KeepsOrDrops(k)
    BY <1>1, <1>5, <1>11 DEF failed, KeepsOrDrops
  <2>2. failures'[k] = failures[k]
    BY <1>1, <1>5, <1>11
  <2>3. underWay(attempt', k) = underWay(attempt, k)
    BY <1>0, <1>2, <1>3, <1>5, <1>6, <1>11, OneLessUnderWay
  <2>4. QED
    BY <2>1, <2>2, <2>3
<1>12. \/ windows'[k0].count = windows[k0].count + 1 /\ windows'[k0].startedAt = windows[k0].startedAt
       \/ windows'[k0].count = 1 /\ windows'[k0].startedAt = t
  <2>1. windows'[k0] = IF live(windows[k0], t) THEN [windows[k0] EXCEPT !.count = @ + 1]
                       ELSE [count |-> 1, startedAt |-> t]
    BY <1>4, <1>5 DEF failed
  <2>2. QED
    BY <1>1, <1>4, <2>1
<1>13. windows[k0].count \in Nat /\ windows[k0].startedAt \in Nat /\ windows[k0].startedAt <= now
  BY <1>1, <1>4
<1>14. WindowsTyped'
  <2>1. ASSUME NEW k \in Keys PROVE windows'[k].startedAt <= now
    <3>1. CASE k = k0
      BY <1>1, <1>4, <1>12, <1>13, <3>1
    <3>2. CASE k # k0
      BY <1>10, <1>11, <3>2, EarnedStays
    <3>3. QED
      BY <3>1, <3>2
  <2>2. QED
    BY <1>5, <1>9, <2>1 DEF WindowsTyped
<1>15. CountsAreEarned'
  <2>1. failures[k0] \in Seq(Nat) /\ failures'[k0] = Append(failures[k0], now)
    BY <1>1, <1>4, <1>5
  <2>2. windows'[k0].count <= Cardinality(toldSince(failures'[k0], windows'[k0].startedAt))
    <3>1. CASE windows'[k0].count = windows[k0].count + 1 /\ windows'[k0].startedAt = windows[k0].startedAt
      <4>1. windows[k0].count <= Cardinality(toldSince(failures[k0], windows[k0].startedAt))
        BY <1>4 DEF LimiterInv, CountsAreEarned
      <4>2. Cardinality(toldSince(failures'[k0], windows[k0].startedAt))
               = Cardinality(toldSince(failures[k0], windows[k0].startedAt)) + 1
        BY <1>1, <1>13, <2>1, OneMoreTold
      <4>3. Cardinality(toldSince(failures[k0], windows[k0].startedAt)) \in Nat
        BY <1>13, <2>1, ToldIsFinite
      <4>4. QED
        BY <1>13, <3>1, <4>1, <4>2, <4>3
    <3>2. CASE windows'[k0].count = 1 /\ windows'[k0].startedAt = t
      <4>1. Cardinality(toldSince(failures'[k0], t)) = Cardinality(toldSince(failures[k0], t)) + 1
        BY <1>1, <1>4, <2>1, OneMoreTold
      <4>2. Cardinality(toldSince(failures[k0], t)) \in Nat
        BY <1>4, <2>1, ToldIsFinite
      <4>3. QED
        BY <3>2, <4>1, <4>2
    <3>3. QED
      BY <1>12, <3>1, <3>2
  <2>3. ASSUME NEW k \in Keys
        PROVE  windows'[k].count <= Cardinality(toldSince(failures'[k], windows'[k].startedAt))
    BY <1>10, <1>11, <2>2, <2>3, EarnedStays
  <2>4. QED
    BY <1>10, <2>3 DEF CountsAreEarned
<1>16. ASSUME NEW k \in Keys
       PROVE  /\ windows'[k].count + Cardinality(underWay(attempt', k)) <= attempts
              /\ windows'[k].count + Cardinality(underWay(attempt', k)) <= LIMIT - 1 + Cardinality(Attempts)
  <2>1. Cardinality(underWay(attempt', k)) \in Nat /\ Cardinality(underWay(attempt, k)) \in Nat
    BY UnderWayIsFinite
  <2>2. windows'[k].count \in Nat /\ windows[k].count \in Nat
    BY <1>1, <1>9
  <2>3. windows'[k].count + Cardinality(underWay(attempt', k)) <= windows[k].count + Cardinality(underWay(attempt, k))
    <3>1. CASE k = k0
      <4>1. Cardinality(underWay(attempt', k)) = Cardinality(underWay(attempt, k)) - 1
        BY <1>0, <1>2, <1>3, <1>5, <1>6, <3>1, OneLessUnderWay
      <4>3. windows'[k].count <= windows[k].count + 1
        BY <1>12, <1>13, <3>1
      <4>4. QED
        BY <2>1, <2>2, <4>1, <4>3
    <3>2. CASE k # k0
      <4>1. underWay(attempt', k) = underWay(attempt, k) /\ windows'[k].count <= windows[k].count
        BY <1>10, <1>11, <3>2, EarnedStays
      <4>2. QED
        BY <2>1, <2>2, <4>1
    <3>3. QED
      BY <3>1, <3>2
  <2>4. QED
    BY <2>1, <2>2, <2>3, RoomIsLeft
<1>17. CountsAreFew'
  BY <1>5, <1>16 DEF CountsAreFew, LimiterInv
<1>18. QED
  BY <1>7, <1>14, <1>15, <1>17 DEF LimiterInv

LEMMA PendingIs ==
    ASSUME LimiterInv, NEW a \in Attempts, attempt[a].pc \in Pending
    PROVE  /\ attempt[a] \in PendingAttempt /\ attempt[a].now <= now
           /\ \A p \in Pending : LET r == [attempt[a] EXCEPT !.pc = p]
                                 IN  r \in PendingAttempt /\ r.pc = p /\ r.key = attempt[a].key
                                     /\ r.now = attempt[a].now
<1>1. attempt[a] \in AnyAttempt
  BY DEF LimiterInv, AttemptsTyped, AnyAttempt
<1>2. attempt[a] \in PendingAttempt /\ attempt[a] # NoAttempt
  BY <1>1, AttemptShape DEF NoAttempt, Pending
<1>3. attempt[a].now <= now
  BY <1>2 DEF LimiterInv, AttemptsTyped
<1>4. QED
  BY <1>2, <1>3 DEF PendingAttempt

LEMMA LimiterStays ==
    ASSUME LimiterInv, UNCHANGED << windows, failures >>
    PROVE  /\ windows' \in [Keys -> [count : Nat, startedAt : Nat]]
           /\ failures' \in [Keys -> Seq(Nat)]
           /\ \A k \in Keys : KeepsOrDrops(k)
BY DEF LimiterInv, WindowsTyped, CountsAreEarned, KeepsOrDrops

\* The directory answers: the account, its roles, or neither.
LEMMA AnswerStep ==
    ASSUME LimiterInv, NEW a \in Attempts, bind(a) \/ groupsOf(a)
    PROVE  /\ LimiterInv'
           /\ UNCHANGED << now, session, directoryVars, syncVars >>
           /\ \/ attempt'[a] \in PendingAttempt
              \/ /\ attempt'[a] \in KnownAttempt
                 /\ attempt'[a].roles = IF people[UserOf[attempt'[a].key]] = Nobody THEN {}
                                        ELSE mapGroupsToRoles(people[UserOf[attempt'[a].key]])
           /\ \E r : attempt' = [attempt EXCEPT ![a] = r]
<1>1. attempt[a].pc \in Pending
  BY DEF bind, groupsOf, Pending
<1>2. attempt[a] \in PendingAttempt /\ attempt[a].now <= now /\ attempt[a].key \in Keys
  BY <1>1, PendingIs DEF PendingAttempt
<1>3. UNCHANGED << now, windows, failures, attempts, session, directoryVars, syncVars >>
  BY DEF bind, groupsOf, step
<1>4. attempt \in [Attempts -> AnyAttempt]
  BY DEF LimiterInv, AttemptsTyped, AnyAttempt
<1>5. ASSUME NEW p \in {"groups", "fail"}, attempt' = [attempt EXCEPT ![a] = [attempt[a] EXCEPT !.pc = p]]
      PROVE  LimiterInv' /\ attempt'[a] \in PendingAttempt
  <2>1. PICK r : r = [attempt[a] EXCEPT !.pc = p]
    OBVIOUS
  <2>2. r \in PendingAttempt /\ r.pc \in Pending /\ r.key = attempt[a].key /\ r.now = attempt[a].now
    BY <1>1, <2>1, PendingIs DEF Pending
  <2>3. Becomes(a, r)
    BY <1>2, <1>3, <1>5, <2>1, <2>2 DEF Becomes, AnyAttempt
  <2>4. LimiterInv'
    BY <1>1, <1>3, <2>2, <2>3, LimiterStays, MovesAlone
  <2>5. attempt'[a] = r
    BY <1>4, <2>3 DEF Becomes
  <2>6. QED
    BY <2>2, <2>4, <2>5
<1>6. ASSUME NEW r,
             r = [pc |-> "reset", key |-> attempt[a].key, now |-> attempt[a].now,
                  roles |-> IF people[UserOf[attempt[a].key]] = Nobody THEN {}
                            ELSE mapGroupsToRoles(people[UserOf[attempt[a].key]])],
             attempt' = [attempt EXCEPT ![a] = r]
      PROVE  /\ LimiterInv' /\ attempt'[a] \in KnownAttempt
             /\ attempt'[a].roles = IF people[UserOf[attempt'[a].key]] = Nobody THEN {}
                                    ELSE mapGroupsToRoles(people[UserOf[attempt'[a].key]])
  <2>1. r \in KnownAttempt
    <3>1. \A g : mapGroupsToRoles(g) \subseteq Roles
      BY DEF mapGroupsToRoles, Roles
    <3>2. attempt[a].key \in Keys /\ attempt[a].now \in Nat
      BY <1>2 DEF PendingAttempt
    <3>3. r.roles \subseteq Roles
      BY <1>6, <3>1
    <3>4. QED
      BY <1>6, <3>2, <3>3 DEF KnownAttempt
  <2>2. r.pc \notin Pending /\ r.now = attempt[a].now /\ r.key = attempt[a].key
    BY <1>6 DEF Pending
  <2>3. Becomes(a, r)
    BY <1>2, <1>3, <1>6, <2>1, <2>2 DEF Becomes, AnyAttempt
  <2>4. LimiterInv'
    BY <1>3, <2>2, <2>3, LimiterStays, MovesAlone
  <2>5. attempt'[a] = r
    BY <1>4, <1>6
  <2>6. QED
    BY <1>6, <2>1, <2>2, <2>4, <2>5
<1>7. CASE bind(a)
  <2>1. PICK p \in {"groups", "fail"} : attempt' = [attempt EXCEPT ![a] = [attempt[a] EXCEPT !.pc = p]]
    BY <1>7 DEF bind, step
  <2>2. QED
    BY <1>3, <1>5, <2>1
<1>8. CASE groupsOf(a)
  <2>1. CASE attempt' = [attempt EXCEPT ![a] = [attempt[a] EXCEPT !.pc = "fail"]]
    BY <1>3, <1>5, <2>1
  <2>2. CASE attempt' # [attempt EXCEPT ![a] = [attempt[a] EXCEPT !.pc = "fail"]]
    <3>1. PICK r : /\ r = [pc |-> "reset", key |-> attempt[a].key, now |-> attempt[a].now,
                           roles |-> IF people[UserOf[attempt[a].key]] = Nobody THEN {}
                                     ELSE mapGroupsToRoles(people[UserOf[attempt[a].key]])]
                   /\ attempt' = [attempt EXCEPT ![a] = r]
      BY <1>8, <2>2 DEF groupsOf, step
    <3>2. QED
      BY <1>3, <1>6, <3>1
  <2>3. QED
    BY <2>1, <2>2
<1>9. QED
  BY <1>7, <1>8

LEMMA SucceededStep ==
    ASSUME LimiterInv, NEW a \in Attempts, loginSucceeded(a)
    PROVE  LimiterInv' /\ attempt'[a] \in KnownAttempt /\ attempt' = [attempt EXCEPT ![a].pc = "sign"]
           /\ attempt[a] \in KnownAttempt
<1>1. attempt[a] \in AnyAttempt /\ attempt \in [Attempts -> AnyAttempt]
  BY DEF LimiterInv, AttemptsTyped, AnyAttempt
<1>2. attempt[a].pc = "reset" /\ attempt' = [attempt EXCEPT ![a].pc = "sign"]
      /\ now' = now /\ attempts' = attempts
  BY DEF loginSucceeded
<1>3. attempt[a] \in KnownAttempt /\ attempt[a] # NoAttempt
  BY <1>1, <1>2, AttemptShape DEF NoAttempt
<1>4. PICK r : r = [attempt[a] EXCEPT !.pc = "sign"]
  OBVIOUS
<1>5. r \in KnownAttempt /\ r.pc \notin Pending /\ r.now = attempt[a].now
  BY <1>3, <1>4 DEF KnownAttempt, Pending
<1>6. attempt[a].now <= now
  BY <1>3 DEF LimiterInv, AttemptsTyped
<1>7. Becomes(a, r)
  BY <1>1, <1>2, <1>4, <1>5, <1>6 DEF Becomes, AnyAttempt
<1>8. PICK k0 \in Keys : k0 = attempt[a].key
  BY <1>3 DEF KnownAttempt
<1>9. windows' = [windows EXCEPT ![k0] = NoWindow] /\ failures' = [failures EXCEPT ![k0] = << >>]
  BY <1>8 DEF loginSucceeded, reset
<1>10. /\ windows' \in [Keys -> [count : Nat, startedAt : Nat]]
       /\ failures' \in [Keys -> Seq(Nat)]
       /\ \A k \in Keys : KeepsOrDrops(k)
  <2>1. windows \in [Keys -> [count : Nat, startedAt : Nat]] /\ failures \in [Keys -> Seq(Nat)]
    BY DEF LimiterInv, WindowsTyped, CountsAreEarned
  <2>2. NoWindow \in [count : Nat, startedAt : Nat] /\ << >> \in Seq(Nat)
    BY DEF NoWindow
  <2>3. QED
    BY <1>9, <2>1, <2>2 DEF KeepsOrDrops
<1>11. LimiterInv'
  BY <1>2, <1>5, <1>7, <1>10, MovesAlone
<1>12. attempt'[a] = r
  BY <1>1, <1>7 DEF Becomes
<1>13. QED
  BY <1>2, <1>3, <1>5, <1>11, <1>12

LEMMA SignedStep ==
    ASSUME LimiterInv, NEW a \in Attempts, signSession(a)
    PROVE  LimiterInv' /\ attempt[a] \in KnownAttempt /\ attempt[a].now <= now
<1>1. attempt[a] \in AnyAttempt
  BY DEF LimiterInv, AttemptsTyped, AnyAttempt
<1>2. attempt[a] \in KnownAttempt /\ attempt[a] # NoAttempt
  BY <1>1, AttemptShape DEF NoAttempt, signSession
<1>3. attempt[a].now <= now
  BY <1>2 DEF LimiterInv, AttemptsTyped
<1>4. Becomes(a, NoAttempt) /\ UNCHANGED << windows, failures, attempts >>
  BY DEF Becomes, AnyAttempt, signSession
<1>5. NoAttempt.pc \notin Pending
  BY DEF NoAttempt, Pending
<1>6. LimiterInv'
  BY <1>4, <1>5, LimiterStays, MovesAlone
<1>7. QED
  BY <1>2, <1>3, <1>6

\* A step of anybody else, or of the clock, or none.
LEMMA OthersStep ==
    ASSUME LimiterInv, UNCHANGED << windows, attempt, attempts, failures >>,
           now' = now \/ now' = now + 1
    PROVE  LimiterInv'
<1>1. ClockTyped' /\ now' >= now
  BY DEF LimiterInv, ClockTyped
<1>2. AttemptsTyped'
  <2>1. now \in Nat /\ \A a \in Attempts : attempt[a] # NoAttempt => attempt[a].now \in Nat /\ attempt[a].now <= now
    BY AttemptShape DEF LimiterInv, AttemptsTyped, AnyAttempt, ClockTyped
  <2>2. QED
    BY <1>1, <2>1 DEF AttemptsTyped, LimiterInv, ClockTyped
<1>3. \A k \in Keys : Cardinality(underWay(attempt', k)) <= Cardinality(underWay(attempt, k))
  BY UnderWayIsFinite
<1>4. QED
  BY <1>1, <1>2, <1>3, LimiterStays, DropsKeepInv

\* The process starts anew: it counts nothing, and nothing is under way.
LEMMA RestartStep ==
    ASSUME LimiterInv, restart
    PROVE  LimiterInv'
<1>1. /\ windows' = [k \in Keys |-> NoWindow] /\ attempt' = [a \in Attempts |-> NoAttempt]
      /\ UNCHANGED << now, attempts, failures >>
  BY DEF restart
<1>2. ClockTyped' /\ now' >= now /\ AttemptsTyped'
  BY <1>1 DEF LimiterInv, ClockTyped, AttemptsTyped
<1>3. ASSUME NEW k \in Keys
      PROVE  Cardinality(underWay(attempt', k)) <= Cardinality(underWay(attempt, k))
  <2>1. underWay(attempt', k) \subseteq underWay(attempt, k)
    BY <1>1 DEF underWay, NoAttempt, Pending
  <2>2. QED
    BY <2>1, UnderWayIsFinite, FS_Subset
<1>4. /\ windows' \in [Keys -> [count : Nat, startedAt : Nat]]
      /\ failures' \in [Keys -> Seq(Nat)]
      /\ \A k \in Keys : KeepsOrDrops(k)
  BY <1>1 DEF LimiterInv, CountsAreEarned, KeepsOrDrops, NoWindow
<1>5. QED
  BY <1>1, <1>2, <1>3, <1>4, DropsKeepInv

-------------------------------------------------------------------------------
(***************************************************************************)
(* Sessions.                                                               *)
(***************************************************************************)
\* The directory stays, or changes one account.
DirectoryMoves ==
    \/ UNCHANGED << people, heldUntil >>
    \/ \E u \in Users, groups \in (SUBSET Groups) \cup {Nobody} : change(u, groups)

\* A role that was held since some time has been, whatever the directory does now.
LEMMA HeldStays ==
    ASSUME PeopleTyped, DirectoryMoves, ClockTyped, NEW u \in Users, NEW role \in Roles,
           NEW t \in Nat, t <= now, HeldSince(u, role, t)
    PROVE  HeldSince(u, role, t)'
<1>1. CASE UNCHANGED << people, heldUntil >>
  BY <1>1 DEF HeldSince, holdsRole, listed
<1>2. ASSUME NEW v \in Users, NEW groups \in (SUBSET Groups) \cup {Nobody}, change(v, groups)
      PROVE  HeldSince(u, role, t)'
  <2>1. /\ people' = [people EXCEPT ![v] = groups]
        /\ heldUntil' = [heldUntil EXCEPT ![v] = [x \in Roles |-> IF holdsRole(v, x) THEN now ELSE @[x]]]
    BY <1>2 DEF change
  <2>2. CASE u = v
    <3>1. heldUntil'[u][role] = IF holdsRole(u, role) THEN now ELSE heldUntil[u][role]
      BY <2>1, <2>2 DEF PeopleTyped
    <3>2. heldUntil'[u][role] >= t
      BY <3>1 DEF HeldSince, ClockTyped
    <3>3. QED
      BY <3>2 DEF HeldSince
  <2>3. CASE u # v
    <3>1. people'[u] = people[u] /\ heldUntil'[u] = heldUntil[u]
      BY <2>1, <2>3 DEF PeopleTyped
    <3>2. QED
      BY <3>1 DEF HeldSince, holdsRole, listed
  <2>4. QED
    BY <2>2, <2>3
<1>3. QED
  BY <1>1, <1>2 DEF DirectoryMoves

LEMMA PeopleStep ==
    ASSUME PeopleTyped, ClockTyped, DirectoryMoves
    PROVE  PeopleTyped'
<1>1. CASE UNCHANGED << people, heldUntil >>
  BY <1>1 DEF PeopleTyped
<1>2. ASSUME NEW v \in Users, NEW groups \in (SUBSET Groups) \cup {Nobody}, change(v, groups)
      PROVE  PeopleTyped'
  <2>1. people' \in [Users -> (SUBSET Groups) \cup {Nobody}]
    BY <1>2 DEF PeopleTyped, change
  <2>2. heldUntil' \in [Users -> [Roles -> Int]]
    <3>1. PICK f : f = [x \in Roles |-> IF holdsRole(v, x) THEN now ELSE heldUntil[v][x]]
      OBVIOUS
    <3>2. f \in [Roles -> Int]
      BY <3>1 DEF PeopleTyped, ClockTyped
    <3>3. heldUntil' = [heldUntil EXCEPT ![v] = f]
      BY <1>2, <3>1 DEF change
    <3>4. QED
      BY <3>2, <3>3 DEF PeopleTyped
  <2>3. QED
    BY <2>1, <2>2 DEF PeopleTyped
<1>3. QED
  BY <1>1, <1>2 DEF DirectoryMoves

\* Where the roles of a request come from: it had them, or its user has them now.
RolesOfAttempt(a) ==
    \A q \in KnownAttempt : attempt'[a] = q =>
        \/ \E p \in KnownAttempt :
              attempt[a] = p /\ p.key = q.key /\ p.now = q.now /\ p.roles = q.roles
        \/ q.now <= now /\ \A role \in q.roles : holdsRole(UserOf[q.key], role)

\* Where those of a session come from: it had them, or a request of the user did.
RolesOfSession(u) ==
    \A q \in Session : session'[u] = q =>
        \/ session[u] = q
        \/ \E a \in Attempts, p \in KnownAttempt :
              attempt[a] = p /\ UserOf[p.key] = u /\ p.now = q.began /\ p.roles = q.roles

LEMMA SessionStep ==
    ASSUME LimiterInv, SessionInv, DirectoryMoves, now' \in Nat, now <= now',
           \A a \in Attempts : RolesOfAttempt(a),
           \A u \in Users : RolesOfSession(u),
           session' \in [Users -> {NoSession} \cup Session]
    PROVE  SessionInv'
<1>1. PeopleTyped /\ ClockTyped
  BY DEF SessionInv, LimiterInv
<1>2. PeopleTyped'
  BY <1>1, PeopleStep
<1>3. \A a \in Attempts, p \in KnownAttempt : attempt[a] = p => p.now <= now
  BY DEF LimiterInv, AttemptsTyped, KnownAttempt, NoAttempt
<1>4. \A k \in Keys : UserOf[k] \in Users
  BY AccessAssumption
<1>5. SessionTyped'
  <2>1. ASSUME NEW u \in Users, NEW q \in Session, session'[u] = q
        PROVE  q.began <= now'
    <3>1. q.began <= now
      BY <1>3, <2>1 DEF RolesOfSession, SessionInv, SessionTyped
    <3>2. q.began \in Nat /\ now \in Nat
      BY <1>1 DEF Session, ClockTyped
    <3>3. QED
      BY <3>1, <3>2
  <2>2. QED
    BY <2>1 DEF SessionTyped
<1>6. ASSUME NEW a \in Attempts, NEW q \in KnownAttempt, attempt'[a] = q, NEW role \in q.roles
      PROVE  HeldSince(UserOf[q.key], role, q.now)'
  <2>1. q.now \in Nat /\ role \in Roles /\ q.key \in Keys
    BY <1>6 DEF KnownAttempt
  <2>2. PICK u, w : u = UserOf[q.key] /\ w = q.now
    OBVIOUS
  <2>3. w <= now /\ HeldSince(u, role, w)
    <3>1. CASE w <= now /\ holdsRole(u, role)
      BY <3>1 DEF HeldSince
    <3>2. ASSUME NEW p \in KnownAttempt, attempt[a] = p, p.key = q.key, p.now = q.now, p.roles = q.roles
          PROVE  w <= now /\ HeldSince(u, role, w)
      <4>1. HeldSince(UserOf[p.key], role, p.now)
        BY <1>6, <3>2 DEF SessionInv, RolesWereHeld
      <4>2. QED
        BY <1>3, <2>2, <3>2, <4>1
    <3>3. QED
      BY <1>6, <2>2, <3>1, <3>2 DEF RolesOfAttempt
  <2>4. HeldSince(u, role, w)'
    BY <1>1, <1>4, <2>1, <2>2, <2>3, HeldStays
  <2>5. QED
    BY <2>2, <2>4
<1>7. ASSUME NEW u \in Users, NEW q \in Session, session'[u] = q, NEW role \in q.roles
      PROVE  HeldSince(u, role, q.began)'
  <2>1. q.began \in Nat /\ role \in Roles
    BY <1>7 DEF Session
  <2>2. PICK w : w = q.began
    OBVIOUS
  <2>3. w <= now /\ HeldSince(u, role, w)
    <3>1. CASE session[u] = q
      BY <1>7, <2>2, <3>1 DEF SessionInv, SessionTyped, RolesWereHeld
    <3>2. ASSUME NEW a \in Attempts, NEW p \in KnownAttempt,
                 attempt[a] = p, UserOf[p.key] = u, p.now = q.began, p.roles = q.roles
          PROVE  w <= now /\ HeldSince(u, role, w)
      <4>1. HeldSince(UserOf[p.key], role, p.now)
        BY <1>7, <3>2 DEF SessionInv, RolesWereHeld
      <4>2. QED
        BY <1>3, <2>2, <3>2, <4>1
    <3>3. QED
      BY <1>7, <3>1, <3>2 DEF RolesOfSession
  <2>4. HeldSince(u, role, w)'
    BY <1>1, <2>1, <2>2, <2>3, HeldStays
  <2>5. QED
    BY <2>2, <2>4
<1>8. RolesWereHeld'
  BY <1>6, <1>7 DEF RolesWereHeld
<1>9. QED
  BY <1>2, <1>5, <1>8 DEF SessionInv

LEMMA SessionsStay ==
    ASSUME SessionInv, UNCHANGED session
    PROVE  /\ \A u \in Users : RolesOfSession(u)
           /\ session' \in [Users -> {NoSession} \cup Session]
BY DEF SessionInv, SessionTyped, RolesOfSession

LEMMA AttemptsStay ==
    ASSUME NEW a \in Attempts, attempt'[a] = attempt[a] \/ attempt'[a] \notin KnownAttempt
    PROVE  RolesOfAttempt(a)
BY DEF RolesOfAttempt

\* A step of one request leaves the others.
LEMMA OtherAttemptsStay ==
    ASSUME LimiterInv, NEW a \in Attempts, NEW r, attempt' = [attempt EXCEPT ![a] = r],
           NEW b \in Attempts, b # a
    PROVE  RolesOfAttempt(b)
<1>1. attempt'[b] = attempt[b]
  BY DEF LimiterInv, AttemptsTyped
<1>2. QED
  BY <1>1, AttemptsStay

LEMMA OwnAttempt ==
    ASSUME LimiterInv, NEW a \in Attempts, NEW r, attempt' = [attempt EXCEPT ![a] = r]
    PROVE  attempt'[a] = r
BY DEF LimiterInv, AttemptsTyped

LEMMA UnknownAttempts ==
    /\ NoAttempt \notin KnownAttempt
    /\ \A q \in PendingAttempt : q \notin KnownAttempt
BY DEF NoAttempt, PendingAttempt, KnownAttempt, Pending

LoginInv == LimiterInv /\ SessionInv

LEMMA LoginStep ==
    ASSUME LoginInv, [AccessNext]_accessVars
    PROVE  LoginInv'
<1> USE DEF LoginInv
<1>0. now \in Nat
  BY DEF LimiterInv, ClockTyped
<1>1. ASSUME NEW a \in Attempts, NEW k \in Keys, submit(a, k) PROVE LoginInv'
  <2>1. LimiterInv'
    BY <1>1, SubmitStep
  <2>2. UNCHANGED << now, session, people, heldUntil >>
    BY <1>1 DEF submit, directoryVars
  <2>3. \A b \in Attempts : RolesOfAttempt(b)
    <3>1. CASE attempt' = attempt
      BY <3>1, AttemptsStay
    <3>2. ASSUME NEW r, r = [pc |-> "bind", key |-> k, now |-> now], attempt' = [attempt EXCEPT ![a] = r]
          PROVE  \A b \in Attempts : RolesOfAttempt(b)
      <4>1. r \notin KnownAttempt
        BY <3>2 DEF KnownAttempt
      <4>2. RolesOfAttempt(a)
        BY <3>2, <4>1, OwnAttempt, AttemptsStay
      <4>3. QED
        BY <3>2, <4>2, OtherAttemptsStay
    <3>3. QED
      BY <1>1, <3>1, <3>2 DEF submit
  <2>4. SessionInv'
    BY <1>0, <2>2, <2>3, SessionsStay, SessionStep DEF DirectoryMoves
  <2>5. QED
    BY <2>1, <2>4
<1>2. ASSUME NEW a \in Attempts, bind(a) \/ groupsOf(a) PROVE LoginInv'
  <2>1. /\ LimiterInv'
        /\ UNCHANGED << now, session, people, heldUntil >>
        /\ \/ attempt'[a] \in PendingAttempt
           \/ /\ attempt'[a] \in KnownAttempt
              /\ attempt'[a].roles = IF people[UserOf[attempt'[a].key]] = Nobody THEN {}
                                     ELSE mapGroupsToRoles(people[UserOf[attempt'[a].key]])
        /\ \E r : attempt' = [attempt EXCEPT ![a] = r]
    BY <1>2, AnswerStep DEF directoryVars
  <2>2. RolesOfAttempt(a)
    <3>1. CASE attempt'[a] \in PendingAttempt
      BY <3>1, UnknownAttempts, AttemptsStay
    <3>2. ASSUME NEW q \in KnownAttempt, attempt'[a] = q
          PROVE  q.now <= now /\ \A role \in q.roles : holdsRole(UserOf[q.key], role)
      <4>1. UserOf[q.key] \in Users
        BY AccessAssumption DEF KnownAttempt
      <4>2. q.roles = IF people[UserOf[q.key]] = Nobody THEN {} ELSE mapGroupsToRoles(people[UserOf[q.key]])
        BY <2>1, <3>2, UnknownAttempts
      <4>3. \A role \in q.roles : holdsRole(UserOf[q.key], role)
        BY <4>1, <4>2 DEF holdsRole, listed
      <4>4. q.now <= now
        BY <2>1, <3>2, UnknownAttempts DEF LimiterInv, AttemptsTyped
      <4>5. QED
        BY <4>3, <4>4
    <3>3. QED
      BY <3>2 DEF RolesOfAttempt
  <2>3. \A b \in Attempts : RolesOfAttempt(b)
    BY <2>1, <2>2, OtherAttemptsStay
  <2>4. SessionInv'
    BY <1>0, <2>1, <2>3, SessionsStay, SessionStep DEF DirectoryMoves
  <2>5. QED
    BY <2>1, <2>4
<1>3. ASSUME NEW a \in Attempts, loginFailed(a) PROVE LoginInv'
  <2>1. LimiterInv'
    BY <1>3, FailedStep
  <2>2. UNCHANGED << now, session, people, heldUntil >> /\ attempt' = [attempt EXCEPT ![a] = NoAttempt]
    BY <1>3 DEF loginFailed, directoryVars
  <2>3. RolesOfAttempt(a)
    BY <2>2, OwnAttempt, UnknownAttempts, AttemptsStay
  <2>4. \A b \in Attempts : RolesOfAttempt(b)
    BY <2>2, <2>3, OtherAttemptsStay
  <2>5. SessionInv'
    BY <1>0, <2>2, <2>4, SessionsStay, SessionStep DEF DirectoryMoves
  <2>6. QED
    BY <2>1, <2>5
<1>4. ASSUME NEW a \in Attempts, loginSucceeded(a) PROVE LoginInv'
  <2>1. /\ LimiterInv' /\ attempt' = [attempt EXCEPT ![a].pc = "sign"] /\ attempt[a] \in KnownAttempt
        /\ UNCHANGED << now, session, people, heldUntil >>
    BY <1>4, SucceededStep DEF loginSucceeded, directoryVars
  <2>2. PICK r : r = [attempt[a] EXCEPT !.pc = "sign"]
    OBVIOUS
  <2>3. r.key = attempt[a].key /\ r.now = attempt[a].now /\ r.roles = attempt[a].roles
    BY <2>1, <2>2 DEF KnownAttempt
  <2>4. attempt' = [attempt EXCEPT ![a] = r]
    BY <2>1, <2>2
  <2>5. RolesOfAttempt(a)
    BY <2>1, <2>3, <2>4, OwnAttempt DEF RolesOfAttempt
  <2>6. \A b \in Attempts : RolesOfAttempt(b)
    BY <2>4, <2>5, OtherAttemptsStay
  <2>7. SessionInv'
    BY <1>0, <2>1, <2>6, SessionsStay, SessionStep DEF DirectoryMoves
  <2>8. QED
    BY <2>1, <2>7
<1>5. ASSUME NEW a \in Attempts, signSession(a) PROVE LoginInv'
  <2>1. LimiterInv' /\ attempt[a] \in KnownAttempt
    BY <1>5, SignedStep
  <2>2. UNCHANGED << now, people, heldUntil >> /\ attempt' = [attempt EXCEPT ![a] = NoAttempt]
    BY <1>5 DEF signSession, directoryVars
  <2>3. RolesOfAttempt(a)
    BY <2>2, OwnAttempt, UnknownAttempts, AttemptsStay
  <2>4. \A b \in Attempts : RolesOfAttempt(b)
    BY <2>2, <2>3, OtherAttemptsStay
  <2>5. PICK p \in KnownAttempt : p = attempt[a]
    BY <2>1
  <2>6. PICK v, q : v = UserOf[p.key] /\ q = [signed |-> now, began |-> p.now, roles |-> p.roles]
    OBVIOUS
  <2>7. v \in Users /\ q \in Session
    BY <1>0, <2>6, AccessAssumption DEF KnownAttempt, Session
  <2>8. session' = [session EXCEPT ![v] = q]
    BY <1>5, <2>5, <2>6 DEF signSession
  <2>9. session' \in [Users -> {NoSession} \cup Session]
    BY <2>7, <2>8 DEF SessionInv, SessionTyped
  <2>10. ASSUME NEW u \in Users PROVE RolesOfSession(u)
    <3>1. CASE u = v
      BY <2>5, <2>6, <2>7, <2>8, <3>1 DEF RolesOfSession, SessionInv, SessionTyped
    <3>2. CASE u # v
      BY <2>8, <3>2 DEF RolesOfSession, SessionInv, SessionTyped
    <3>3. QED
      BY <3>1, <3>2
  <2>11. SessionInv'
    BY <1>0, <2>2, <2>4, <2>9, <2>10, SessionStep DEF DirectoryMoves
  <2>12. QED
    BY <2>1, <2>11
<1>6. ASSUME NEW v \in Users, logout(v) PROVE LoginInv'
  <2>1. UNCHANGED << now, windows, attempt, attempts, failures, people, heldUntil >>
        /\ session' = [session EXCEPT ![v] = NoSession]
    BY <1>6 DEF logout, directoryVars
  <2>2. LimiterInv'
    BY <2>1, OthersStep
  <2>3. NoSession \notin Session
    BY DEF NoSession, Session
  <2>4. session' \in [Users -> {NoSession} \cup Session] /\ \A u \in Users : RolesOfSession(u)
    BY <2>1, <2>3 DEF RolesOfSession, SessionInv, SessionTyped
  <2>5. \A b \in Attempts : RolesOfAttempt(b)
    BY <2>1, AttemptsStay
  <2>6. SessionInv'
    BY <1>0, <2>1, <2>4, <2>5, SessionStep DEF DirectoryMoves
  <2>7. QED
    BY <2>2, <2>6
<1>7. ASSUME UNCHANGED << windows, attempt, attempts, failures, session >>,
             now' = now \/ now' = now + 1, DirectoryMoves
      PROVE  LoginInv'
  <2>1. LimiterInv'
    BY <1>7, OthersStep
  <2>2. \A b \in Attempts : RolesOfAttempt(b)
    BY <1>7, AttemptsStay
  <2>3. SessionInv'
    BY <1>0, <1>7, <2>2, SessionsStay, SessionStep
  <2>4. QED
    BY <2>1, <2>3
<1>8. CASE tick
  BY <1>7, <1>8 DEF tick, loginVars, directoryVars, DirectoryMoves
<1>9. CASE syncStep
  <2>1. UNCHANGED << now, loginVars, directoryVars >>
    BY <1>9 DEF syncStep, startSync, searchGroups, upsert, failSync, deleteMany
  <2>2. QED
    BY <1>7, <2>1 DEF loginVars, directoryVars, DirectoryMoves
<1>10. CASE directoryStep
  <2>1. DirectoryMoves /\ UNCHANGED << now, loginVars >>
    BY <1>10 DEF directoryStep, DirectoryMoves, change
  <2>2. QED
    BY <1>7, <2>1 DEF loginVars
<1>11. CASE restart
  <2>1. LimiterInv'
    BY <1>11, RestartStep
  <2>2. UNCHANGED << now, session, people, heldUntil >> /\ attempt' = [a \in Attempts |-> NoAttempt]
    BY <1>11 DEF restart, directoryVars
  <2>3. \A b \in Attempts : RolesOfAttempt(b)
    BY <2>2, UnknownAttempts, AttemptsStay
  <2>4. SessionInv'
    BY <1>0, <2>2, <2>3, SessionsStay, SessionStep DEF DirectoryMoves
  <2>5. QED
    BY <2>1, <2>4
<1>12. CASE UNCHANGED accessVars
  BY <1>7, <1>12 DEF accessVars, loginVars, directoryVars, DirectoryMoves
<1>13. QED
  BY <1>1, <1>2, <1>3, <1>4, <1>5, <1>6, <1>8, <1>9, <1>10, <1>11, <1>12 DEF AccessNext, loginStep

-------------------------------------------------------------------------------
(***************************************************************************)
(* Syncs.                                                                  *)
(***************************************************************************)
AnySync == {NoSync} \cup UsersSync \cup UpsertSync

LEMMA SyncShape ==
    ASSUME NEW q \in AnySync
    PROVE  /\ q.pc = "users" <=> q \in UsersSync
           /\ q.pc = "upsert" <=> q \in UpsertSync
           /\ q.pc = "idle" <=> q = NoSync
           /\ q.calm \in BOOLEAN /\ (q.calm => q # NoSync)
<1>1. \A p \in UsersSync : p.pc = "users" /\ p.calm \in BOOLEAN
  BY DEF UsersSync
<1>2. \A p \in UpsertSync : p.pc = "upsert" /\ p.calm \in BOOLEAN
  BY DEF UpsertSync
<1>3. NoSync.pc = "idle" /\ NoSync.calm = FALSE
  BY DEF NoSync
<1>4. q = NoSync \/ q \in UsersSync \/ q \in UpsertSync
  BY DEF AnySync
<1>5. CASE q = NoSync
  BY <1>1, <1>2, <1>3, <1>5
<1>6. CASE q \in UsersSync
  BY <1>1, <1>2, <1>3, <1>6
<1>7. CASE q \in UpsertSync
  BY <1>1, <1>2, <1>3, <1>7
<1>8. QED
  BY <1>4, <1>5, <1>6, <1>7

\* A sync that somebody else meets is calm no more, and goes on.
LEMMA DisturbedSync ==
    ASSUME NEW q \in AnySync
    PROVE  /\ [q EXCEPT !.calm = FALSE] \in AnySync
           /\ [q EXCEPT !.calm = FALSE].calm = FALSE
           /\ q = NoSync => [q EXCEPT !.calm = FALSE] = NoSync
<1>1. PICK r : r = [q EXCEPT !.calm = FALSE]
  OBVIOUS
<1>2. CASE q = NoSync
  <2>1. r = NoSync /\ r.calm = FALSE
    BY <1>1, <1>2 DEF NoSync
  <2>2. QED
    BY <1>1, <2>1 DEF AnySync
<1>3. CASE q \in UsersSync
  <2>1. r \in UsersSync /\ r.calm = FALSE
    BY <1>1, <1>3 DEF UsersSync
  <2>2. q # NoSync
    BY <1>3 DEF UsersSync, NoSync
  <2>3. QED
    BY <1>1, <2>1, <2>2 DEF AnySync
<1>4. CASE q \in UpsertSync
  <2>1. r \in UpsertSync /\ r.calm = FALSE
    BY <1>1, <1>4 DEF UpsertSync
  <2>2. q # NoSync
    BY <1>4 DEF UpsertSync, NoSync
  <2>3. QED
    BY <1>1, <2>1, <2>2 DEF AnySync
<1>5. QED
  BY <1>2, <1>3, <1>4 DEF AnySync

\* A step of one sync under way: the others are not calm.
LEMMA OneSyncMoves ==
    ASSUME SyncInv, NEW s \in Syncs, sync[s] # NoSync,
           NEW r \in AnySync, sync' = [sync EXCEPT ![s] = r],
           TableTyped', r.calm => sync[s].calm /\ Faithful(r)'
    PROVE  SyncInv'
<1>1. sync \in [Syncs -> AnySync]
  BY DEF SyncInv, SyncsTyped, AnySync
<1>2. sync' \in [Syncs -> AnySync] /\ sync'[s] = r /\ \A x \in Syncs \ {s} : sync'[x] = sync[x]
  BY <1>1
<1>3. \A x \in Syncs \ {s} : ~sync[x].calm
  BY DEF SyncInv, CalmIsAlone
<1>4. CalmIsAlone'
  BY <1>2, <1>3 DEF SyncInv, CalmIsAlone
<1>5. CalmIsTrue'
  <2>1. ASSUME NEW x \in Syncs, sync'[x].calm PROVE Faithful(sync[x])'
    <3>1. x = s
      BY <1>2, <1>3, <2>1
    <3>2. r.calm /\ Faithful(r)'
      BY <1>2, <2>1, <3>1
    <3>3. QED
      BY <1>2, <3>1, <3>2 DEF Faithful
  <2>2. QED
    BY <2>1 DEF CalmIsTrue
<1>6. QED
  BY <1>2, <1>4, <1>5 DEF SyncInv, SyncsTyped, AnySync

\* A listing begins: calm if it is alone.
LEMMA StartStep ==
    ASSUME SyncInv, PeopleTyped, NEW s \in Syncs, startSync(s)
    PROVE  SyncInv'
<1>1. sync \in [Syncs -> AnySync]
  BY DEF SyncInv, SyncsTyped, AnySync
<1>2. PICK c : c = (\A y \in Syncs : sync[y].pc = "idle")
  OBVIOUS
<1>3. c \in BOOLEAN
  BY <1>2
<1>4. PICK r : r = [pc |-> "users", listing |-> listed, todo |-> listed, seen |-> {}, calm |-> c]
  OBVIOUS
<1>5. sync' = [x \in Syncs |-> IF x = s THEN r ELSE [sync[x] EXCEPT !.calm = FALSE]]
      /\ UNCHANGED << directoryUser, people >>
  BY <1>2, <1>4 DEF startSync, directoryVars
<1>6. r \in UsersSync /\ r.listing = listed' /\ r.seen = {} /\ r.pc = "users" /\ r.calm = c
  BY <1>3, <1>4, <1>5 DEF UsersSync, listed
<1>7. /\ sync'[s] = r
      /\ \A x \in Syncs \ {s} : sync'[x] \in AnySync /\ sync'[x].calm = FALSE
                                /\ (sync[x] = NoSync => sync'[x] = NoSync)
  BY <1>1, <1>5, DisturbedSync
<1>8. SyncsTyped' /\ TableTyped'
  <2>1. \A x \in Syncs : sync'[x] \in AnySync
    BY <1>6, <1>7 DEF AnySync
  <2>2. sync' \in [Syncs -> AnySync]
    BY <1>5, <2>1
  <2>3. QED
    BY <1>5, <2>2 DEF SyncsTyped, AnySync, TableTyped, SyncInv
<1>9. CalmIsAlone'
  <2>1. ASSUME NEW x \in Syncs, NEW y \in Syncs, sync'[x].calm, y # x PROVE sync'[y] = NoSync
    <3>1. x = s /\ c
      BY <1>6, <1>7, <2>1
    <3>2. sync[y] = NoSync
      BY <1>1, <1>2, <3>1, SyncShape
    <3>3. QED
      BY <1>7, <2>1, <3>1, <3>2
  <2>2. QED
    BY <2>1 DEF CalmIsAlone
<1>10. CalmIsTrue'
  <2>1. \A x \in Syncs : sync'[x].calm => x = s
    BY <1>7
  <2>2. Faithful(sync[s])'
    BY <1>6, <1>7 DEF Faithful
  <2>3. QED
    BY <2>1, <2>2 DEF CalmIsTrue
<1>11. QED
  BY <1>8, <1>9, <1>10 DEF SyncInv

LEMMA SearchStep ==
    ASSUME SyncInv, PeopleTyped, NEW s \in Syncs, NEW u \in Users, searchGroups(s, u)
    PROVE  SyncInv'
<1>1. sync[s] \in AnySync
  BY DEF SyncInv, SyncsTyped, AnySync
<1>2. PICK q : q = sync[s]
  OBVIOUS
<1>3. q \in UsersSync /\ sync[s] # NoSync /\ u \in q.todo
  BY <1>1, <1>2, SyncShape DEF searchGroups, NoSync
<1>4. PICK r : r = [pc |-> "upsert", listing |-> q.listing, todo |-> q.todo \ {u}, seen |-> q.seen,
                    calm |-> q.calm, user |-> u, groups |-> people[u]]
  OBVIOUS
<1>5. sync' = [sync EXCEPT ![s] = r] /\ UNCHANGED << directoryUser, people >>
  BY <1>2, <1>4 DEF searchGroups, directoryVars, SyncInv, SyncsTyped
<1>6. r \in UpsertSync
  BY <1>3, <1>4 DEF UsersSync, UpsertSync, PeopleTyped
<1>7. r.calm => sync[s].calm /\ Faithful(r)'
  BY <1>2, <1>4, <1>5 DEF Faithful, SyncInv, CalmIsTrue, listed, copied
<1>8. TableTyped'
  BY <1>5 DEF SyncInv, TableTyped
<1>9. QED
  BY <1>3, <1>5, <1>6, <1>7, <1>8, OneSyncMoves DEF AnySync

LEMMA RolesOfGroups ==
    ASSUME NEW groups
    PROVE  mapGroupsToRoles(groups) \in SUBSET Roles
BY DEF mapGroupsToRoles, Roles

LEMMA UpsertStep ==
    ASSUME SyncInv, NEW s \in Syncs, upsert(s)
    PROVE  SyncInv'
<1>1. sync[s] \in AnySync
  BY DEF SyncInv, SyncsTyped, AnySync
<1>2. PICK q : q = sync[s]
  OBVIOUS
<1>3. q \in UpsertSync /\ sync[s] # NoSync
  BY <1>1, <1>2, SyncShape DEF upsert, NoSync
<1>4. PICK r : r = [pc |-> "users", listing |-> q.listing, todo |-> q.todo,
                    seen |-> q.seen \cup {q.user}, calm |-> q.calm]
  OBVIOUS
<1>5. /\ sync' = [sync EXCEPT ![s] = r]
      /\ directoryUser' = upserted(q.user, q.groups)
      /\ UNCHANGED people
  BY <1>2, <1>4 DEF upsert, directoryVars, SyncInv, SyncsTyped
<1>6. r \in UsersSync
  BY <1>3, <1>4 DEF UsersSync, UpsertSync
<1>7. directoryUser' = [directoryUser EXCEPT ![q.user] =
                           IF q.groups = Nobody THEN {} ELSE mapGroupsToRoles(q.groups)]
  BY <1>5 DEF upserted
<1>8. TableTyped'
  BY <1>7, RolesOfGroups DEF SyncInv, TableTyped
<1>9. r.calm => sync[s].calm /\ Faithful(r)'
  <2>1. SUFFICES ASSUME q.calm PROVE Faithful(r)'
    BY <1>2, <1>4
  <2>2. Faithful(q) /\ q.pc = "upsert"
    BY <1>2, <1>3, <2>1 DEF SyncInv, CalmIsTrue, UpsertSync
  <2>3. q.groups = people[q.user] /\ people[q.user] # Nobody
    BY <1>3, <2>2 DEF Faithful, UpsertSync, listed
  <2>4. directoryUser'[q.user] = copied(q.user)
    BY <1>3, <1>7, <2>3 DEF copied, SyncInv, TableTyped, UpsertSync
  <2>5. \A u \in q.seen : directoryUser'[u] = copied(u)
    BY <1>3, <1>7, <2>2, <2>4 DEF Faithful, SyncInv, TableTyped, UpsertSync
  <2>6. \A u \in r.seen : directoryUser'[u] = copied(u)
    BY <1>4, <2>4, <2>5
  <2>7. r.listing = listed' /\ r.pc = "users" /\ \A u \in r.seen : copied(u)' = copied(u)
    BY <1>4, <1>5, <2>2 DEF Faithful, listed, copied
  <2>8. QED
    BY <2>6, <2>7 DEF Faithful
<1>10. QED
  BY <1>3, <1>5, <1>6, <1>8, <1>9, OneSyncMoves DEF AnySync

LEMMA EndStep ==
    ASSUME SyncInv, NEW s \in Syncs, failSync(s) \/ deleteMany(s)
    PROVE  SyncInv'
<1>1. sync[s].pc # "idle" /\ sync' = [sync EXCEPT ![s] = NoSync]
  BY DEF failSync, deleteMany, stopped
<1>2. sync[s] # NoSync /\ ~NoSync.calm
  BY <1>1 DEF NoSync
<1>3. TableTyped'
  <2>1. CASE failSync(s)
    BY <2>1 DEF SyncInv, TableTyped, failSync
  <2>2. CASE deleteMany(s)
    BY <2>2 DEF SyncInv, TableTyped, deleteMany
  <2>3. QED
    BY <2>1, <2>2
<1>4. QED
  BY <1>1, <1>2, <1>3, OneSyncMoves DEF AnySync

LEMMA SyncStep ==
    ASSUME SyncInv, PeopleTyped, [AccessNext]_accessVars
    PROVE  SyncInv'
<1>1. CASE syncStep
  BY <1>1, StartStep, SearchStep, UpsertStep, EndStep DEF syncStep
<1>2. CASE directoryStep
  <2>1. sync' = [s \in Syncs |-> [sync[s] EXCEPT !.calm = FALSE]] /\ UNCHANGED directoryUser
    BY <1>2 DEF directoryStep, change
  <2>2. \A s \in Syncs : sync[s] \in AnySync
    BY DEF SyncInv, SyncsTyped, AnySync
  <2>3. \A s \in Syncs : sync'[s] \in AnySync /\ sync'[s].calm = FALSE
    BY <2>1, <2>2, DisturbedSync
  <2>4. SyncsTyped'
    BY <2>1, <2>3 DEF SyncsTyped, AnySync
  <2>5. QED
    BY <2>1, <2>3, <2>4 DEF SyncInv, TableTyped, CalmIsAlone, CalmIsTrue
<1>3. CASE restart
  <2>1. sync' = [s \in Syncs |-> NoSync] /\ UNCHANGED directoryUser
    BY <1>3 DEF restart
  <2>2. QED
    BY <2>1 DEF SyncInv, SyncsTyped, TableTyped, CalmIsAlone, CalmIsTrue, NoSync
<1>4. CASE UNCHANGED << sync, directoryUser, people >>
  BY <1>4 DEF SyncInv, SyncsTyped, TableTyped, CalmIsAlone, CalmIsTrue, Faithful, listed, copied
<1>5. CASE loginStep
  <2>1. UNCHANGED << directoryVars, syncVars >>
    BY <1>5 DEF loginStep, submit, bind, groupsOf, step, loginFailed, loginSucceeded, signSession, logout, tick
  <2>2. QED
    BY <1>4, <2>1 DEF directoryVars, syncVars
<1>6. CASE UNCHANGED accessVars
  BY <1>4, <1>6 DEF accessVars, directoryVars, syncVars
<1>7. QED
  BY <1>1, <1>2, <1>3, <1>5, <1>6 DEF AccessNext

-------------------------------------------------------------------------------
(***************************************************************************)
(* The inductive invariant.                                                *)
(***************************************************************************)
LEMMA AccessStarts ==
    ASSUME AccessInit
    PROVE  AccessInv
<1>1. ClockTyped /\ AttemptsTyped /\ WindowsTyped
  BY DEF AccessInit, ClockTyped, AttemptsTyped, WindowsTyped, NoWindow
<1>2. CountsAreFew
  <2>1. ASSUME NEW k \in Keys PROVE windows[k].count = 0 /\ Cardinality(underWay(attempt, k)) = 0
    <3>1. underWay(attempt, k) = {}
      BY DEF AccessInit, underWay, NoAttempt, Pending
    <3>2. QED
      BY <3>1, FS_EmptySet DEF AccessInit, NoWindow
  <2>2. Cardinality(Attempts) \in Nat
    BY UnderWayIsFinite
  <2>3. QED
    BY <2>1, <2>2, AccessAssumption DEF CountsAreFew, AccessInit
<1>3. CountsAreEarned
  <2>1. failures \in [Keys -> Seq(Nat)]
    BY DEF AccessInit
  <2>2. ASSUME NEW k \in Keys
        PROVE  windows[k].count <= Cardinality(toldSince(failures[k], windows[k].startedAt))
    <3>1. Cardinality(toldSince(failures[k], 0)) \in Nat
      BY <2>1, ToldIsFinite
    <3>2. windows[k].count = 0 /\ windows[k].startedAt = 0
      BY DEF AccessInit, NoWindow
    <3>3. QED
      BY <3>1, <3>2
  <2>3. QED
    BY <2>1, <2>2 DEF CountsAreEarned
<1>4. SessionInv
  <2>1. PeopleTyped
    BY DEF AccessInit, PeopleTyped
  <2>2. NoSession \notin Session
    BY DEF NoSession, Session
  <2>3. SessionTyped /\ RolesWereHeld
    BY <2>2, UnknownAttempts DEF AccessInit, SessionTyped, RolesWereHeld
  <2>4. QED
    BY <2>1, <2>3 DEF SessionInv
<1>5. SyncInv
  <2>1. \A u \in Users : copied(u) \in (SUBSET Roles) \cup {Nobody}
    BY RolesOfGroups DEF copied
  <2>2. TableTyped
    BY <2>1 DEF AccessInit, TableTyped
  <2>3. ~NoSync.calm
    BY DEF NoSync
  <2>4. QED
    BY <2>2, <2>3 DEF AccessInit, SyncInv, SyncsTyped, CalmIsAlone, CalmIsTrue
<1>6. QED
  BY <1>1, <1>2, <1>3, <1>4, <1>5 DEF AccessInv, LimiterInv

\* What a limiter counts was told, who acts by a role had it, and a calm sync has done
\* what it has done right, in every state.
THEOREM AccessInvariant == AccessSpec => []AccessInv
<1>1. AccessInit => AccessInv
  BY AccessStarts
<1>2. AccessInv /\ [AccessNext]_accessVars => AccessInv'
  BY LoginStep, SyncStep DEF AccessInv, LoginInv, SessionInv
<1>3. QED
  BY <1>1, <1>2, PTL DEF AccessSpec

-------------------------------------------------------------------------------
(***************************************************************************)
(* What the runs check.                                                    *)
(***************************************************************************)
\* No window counts more than the requests there have been, nor begins later than now; the
\* table has roles that a group gives; a sync between two accounts has done and has to do
\* all that it listed.
THEOREM TypesHold == AccessSpec => []AccessTypeOK
<1>1. AccessInv => AccessTypeOK
  <2>1. SUFFICES ASSUME AccessInv PROVE AccessTypeOK
    OBVIOUS
  <2>2. ASSUME NEW k \in Keys
        PROVE  windows[k].count \in 0..MaxAttempts /\ windows[k].startedAt \in 0..now
    <3>1. windows[k].count \in Nat /\ windows[k].startedAt \in Nat /\ windows[k].startedAt <= now /\ now \in Nat
      BY <2>1 DEF AccessInv, LimiterInv, WindowsTyped, ClockTyped
    <3>2. Cardinality(underWay(attempt, k)) \in Nat
      BY UnderWayIsFinite
    <3>3. windows[k].count + Cardinality(underWay(attempt, k)) <= attempts /\ attempts \in 0..MaxAttempts
      BY <2>1 DEF AccessInv, LimiterInv, CountsAreFew
    <3>4. MaxAttempts \in Nat
      BY AccessAssumption
    <3>5. QED
      BY <3>1, <3>2, <3>3, <3>4
  <2>3. \A u \in Users : directoryUser[u] # Nobody => directoryUser[u] \subseteq Roles
    BY <2>1 DEF AccessInv, SyncInv, TableTyped
  <2>4. ASSUME NEW s \in Syncs, sync[s].pc = "users"
        PROVE  sync[s].todo \cup sync[s].seen = sync[s].listing
    <3>1. sync[s] \in UsersSync
      BY <2>1, <2>4, SyncShape DEF AccessInv, SyncInv, SyncsTyped, AnySync
    <3>2. QED
      BY <3>1 DEF UsersSync
  <2>5. QED
    BY <2>2, <2>3, <2>4 DEF AccessTypeOK
<1>2. QED
  BY <1>1, AccessInvariant, PTL

\* Requests that passed the limiter while others awaited the directory add at most the
\* requests under way to the failures that a window lets through.
THEOREM GuessesStayBounded == AccessSpec => []GuessesAreBounded
<1>1. AccessInv => GuessesAreBounded
  BY DEF AccessInv, LimiterInv, CountsAreFew, GuessesAreBounded, underWay, Pending
<1>2. QED
  BY <1>1, AccessInvariant, PTL

\* Whoever the limiter refuses has failed LIMIT times within the last WINDOW, without a
\* success since: not because of others, of a sweep with an old clock, nor of a window past.
THEOREM RefusalsAreEarned == AccessSpec => []RefusalIsEarned
<1>1. AccessInv => RefusalIsEarned
  <2>1. SUFFICES ASSUME AccessInv, NEW k \in Keys, ~check(k, now)
                 PROVE  Cardinality({i \in DOMAIN failures[k] : failures[k][i] > now - WINDOW}) >= LIMIT
    BY DEF RefusalIsEarned
  <2>2. /\ windows[k] \in [count : Nat, startedAt : Nat] /\ now \in Nat /\ failures[k] \in Seq(Nat)
        /\ windows[k].count <= Cardinality(toldSince(failures[k], windows[k].startedAt))
    BY <2>1 DEF AccessInv, LimiterInv, WindowsTyped, ClockTyped, CountsAreEarned
  <2>3. LIMIT \in Nat /\ WINDOW \in Nat
    BY AccessAssumption
  <2>4. windows[k].count >= LIMIT /\ windows[k].startedAt > now - WINDOW
    BY <2>1, <2>2, <2>3 DEF check, live
  <2>5. PICK w : w = windows[k].startedAt
    OBVIOUS
  <2>6. PICK f \in Seq(Nat) : f = failures[k]
    BY <2>2
  <2>7. PICK S : S = {i \in DOMAIN f : f[i] > now - WINDOW}
    OBVIOUS
  <2>8. toldSince(f, w) \subseteq S
    BY <2>2, <2>3, <2>4, <2>5, <2>7 DEF toldSince
  <2>9. IsFiniteSet(S)
    <3>1. S \subseteq 1..Len(f) /\ IsFiniteSet(1..Len(f))
      BY <2>7, FS_Interval
    <3>2. QED
      BY <3>1, FS_Subset
  <2>10. Cardinality(toldSince(f, w)) <= Cardinality(S) /\ Cardinality(S) \in Nat
         /\ Cardinality(toldSince(f, w)) \in Nat
    BY <2>8, <2>9, FS_Subset, FS_CardinalityType
  <2>11. windows[k].count \in Nat /\ windows[k].count <= Cardinality(toldSince(f, w))
    BY <2>2, <2>5, <2>6
  <2>12. Cardinality(S) >= LIMIT
    BY <2>3, <2>4, <2>10, <2>11
  <2>13. QED
    BY <2>6, <2>7, <2>12
<1>2. QED
  BY <1>1, AccessInvariant, PTL

\* A role that somebody acts by is one he has in the directory, or had when his sign-in
\* began or later, and then for no longer than the life of a session from its end.
THEOREM RolesRunOut == AccessSpec => []RolesEndWithTheSession
<1>1. AccessInv => RolesEndWithTheSession
  <2>1. SUFFICES ASSUME AccessInv, NEW u \in Users, NEW role \in Roles, actsAs(u, role), ~holdsRole(u, role)
                 PROVE  /\ heldUntil[u][role] >= session[u].began
                        /\ now - heldUntil[u][role] < TTL + session[u].signed - session[u].began
    BY DEF RolesEndWithTheSession
  <2>2. session[u] \in Session /\ role \in session[u].roles /\ now < session[u].signed + TTL
    BY <2>1 DEF actsAs, verifySession, AccessInv, SessionInv, SessionTyped
  <2>3. heldUntil[u][role] >= session[u].began
    BY <2>1, <2>2 DEF AccessInv, SessionInv, RolesWereHeld, HeldSince
  <2>4. heldUntil[u][role] \in Int /\ session[u].began \in Nat /\ session[u].signed \in Nat
        /\ now \in Nat /\ TTL \in Nat
    BY <2>1, <2>2, AccessAssumption DEF AccessInv, SessionInv, PeopleTyped, LimiterInv, ClockTyped, Session
  <2>5. QED
    BY <2>2, <2>3, <2>4
<1>2. QED
  BY <1>1, AccessInvariant, PTL

\* An account leaves the table only by the end of a sync whose listing did not have it.
THEOREM AccountsAreKept == AccessSpec => AccountsStay
<1>1. ASSUME AccessInv, [AccessNext]_accessVars, NEW u \in Users,
             directoryUser[u] # Nobody, directoryUser'[u] = Nobody
      PROVE  \E s \in Syncs : deleteMany(s) /\ u \notin sync[s].listing
  <2>1. directoryUser' # directoryUser
    BY <1>1
  <2>2. ASSUME NEW s \in Syncs, upsert(s) PROVE FALSE
    <3>1. Nobody \notin SUBSET Roles
      BY AccessAssumption DEF Nobody, Roles
    <3>2. PICK v, g : directoryUser' = upserted(v, g)
      BY <2>2 DEF upsert
    <3>3. directoryUser'[u] = directoryUser[u] \/ directoryUser'[u] \in SUBSET Roles
      BY <1>1, <3>2, RolesOfGroups DEF upserted, AccessInv, SyncInv, TableTyped
    <3>4. QED
      BY <1>1, <3>1, <3>3
  <2>3. ASSUME NEW s \in Syncs, deleteMany(s) PROVE u \notin sync[s].listing
    <3>1. sync[s] \in UsersSync
      BY <1>1, <2>3, SyncShape DEF AccessInv, SyncInv, SyncsTyped, AnySync, deleteMany
    <3>2. u \notin sync[s].seen /\ sync[s].todo = {}
      BY <1>1, <2>3 DEF deleteMany
    <3>3. QED
      BY <3>1, <3>2 DEF UsersSync
  <2>4. \E s \in Syncs : deleteMany(s)
    <3>1. syncStep
      BY <1>1, <2>1 DEF AccessNext, accessVars, syncVars, loginStep, submit, bind, groupsOf, step,
                        loginFailed, loginSucceeded, signSession, logout, tick, directoryStep, change, restart
    <3>2. QED
      BY <2>1, <2>2, <3>1 DEF syncStep, startSync, searchGroups, failSync
  <2>5. QED
    BY <2>3, <2>4
<1>2. AccessInv /\ [AccessNext]_accessVars =>
         [\A u \in Users : directoryUser[u] # Nobody /\ directoryUser'[u] = Nobody =>
             \E s \in Syncs : deleteMany(s) /\ u \notin sync[s].listing]_accessVars
  BY <1>1
<1>3. QED
  BY <1>2, AccessInvariant, PTL DEF AccessSpec, AccountsStay

\* A sync that ends well, and that no other sync and no change of the directory met,
\* leaves the table as the directory is.
THEOREM CalmSyncsCopy == AccessSpec => CalmSyncCopies
<1>1. ASSUME AccessInv, NEW s \in Syncs, deleteMany(s), sync[s].calm, NEW u \in Users
      PROVE  directoryUser'[u] = copied(u)
  <2>1. sync[s] \in UsersSync
    BY <1>1, SyncShape DEF AccessInv, SyncInv, SyncsTyped, AnySync, deleteMany
  <2>2. sync[s].seen = listed /\ \A v \in sync[s].seen : directoryUser[v] = copied(v)
    BY <1>1, <2>1 DEF deleteMany, UsersSync, AccessInv, SyncInv, CalmIsTrue, Faithful
  <2>3. directoryUser'[u] = IF u \in listed THEN copied(u) ELSE Nobody
    BY <1>1, <2>2 DEF deleteMany
  <2>4. QED
    BY <2>3 DEF listed, copied
<1>2. AccessInv /\ [AccessNext]_accessVars =>
         [\A s \in Syncs : deleteMany(s) /\ sync[s].calm =>
             \A u \in Users : directoryUser'[u] = copied(u)]_accessVars
  BY <1>1
<1>3. QED
  BY <1>2, AccessInvariant, PTL DEF AccessSpec, CalmSyncCopies

-----------------------------------------------------------------------------
(***************************************************************************)
(* Visibility, for every hierarchy, every set of events, feeds, visitors   *)
(* and administrators, and every number of changes.                        *)
(*                                                                         *)
(* What a door shows follows from flags that it read one after another.    *)
(* The invariant says what each flag that was read is worth as long as the *)
(* door still reads: it was public at some time since the request came,    *)
(* and, if nothing changed meanwhile, it says exactly what is public.      *)
(***************************************************************************)
Doors == doors \cup {"feed"}

Asks == [service : Services \cup {Whichever}, environment : Environments \cup {Whichever}, types : SUBSET Types]

\* The query that ends a visit.
lastOf(door) ==
    CASE door \in {"events", "current"} -> "rows"
      [] door = "page" -> "members"
      [] door \in {"calendar", "feed"} -> "joined"
      [] door = "dora" -> "incidents"
      [] door = "tree" -> "counts"

\* What a request is, whatever it has read.
IsVisit(q) ==
    /\ q = [todo |-> q.todo, door |-> q.door, anonymous |-> q.anonymous, ask |-> q.ask, got |-> q.got,
            shown |-> q.shown, beside |-> q.beside, been |-> q.been, had |-> q.had, calm |-> q.calm]
    /\ q.door \in Doors
    /\ q.anonymous \in BOOLEAN
    /\ q.calm \in BOOLEAN
    /\ q.ask \in Asks
    /\ q.todo \subseteq queries(q.door, q.anonymous)
    /\ q.shown \subseteq Entries /\ q.beside \subseteq Entries
    /\ q.door \in {"events", "current", "page"} => q.ask.service # Whichever
    /\ q.door = "feed" => q.anonymous
    /\ q.todo # {} => lastOf(q.door) \in q.todo
    /\ q.door = "tree" => q.ask.service = Whichever /\ q.ask.environment = Whichever

\* A request under way knows what was public since it came; one that nothing disturbed
\* knows what is.
Remembers(q) ==
    q.todo # {} => /\ public \subseteq q.been /\ feeds \subseteq q.had
                   /\ q.calm => q.been = public /\ q.had = feeds

done(q) == queries(q.door, q.anonymous) \ q.todo

Given(q, s) == q.anonymous => s \subseteq q.been

HasRead(q) ==
    q.todo # {} =>
        /\ DOMAIN q.got = done(q)
        /\ "types" \in done(q) => /\ q.got["types"] \subseteq q.been
                                  /\ q.calm => q.got["types"] = q.been \cap Types
        /\ "envs" \in done(q) => /\ q.got["envs"] \subseteq q.been
                                 /\ q.calm => q.got["envs"] = q.been \cap Environments
        /\ "gate" \in done(q) => /\ q.got["gate"] => hierarchyOf(q.ask.service) \subseteq q.been
                                 /\ q.calm /\ hierarchyOf(q.ask.service) \subseteq q.been => q.got["gate"]
        /\ "feed" \in done(q) => /\ q.got["feed"] => q.ask \in q.had
                                 /\ q.calm /\ q.ask \in q.had => q.got["feed"]
        /\ "history" \in done(q) =>
              /\ q.got["history"] \subseteq Entries
              /\ \A e \in q.got["history"] : matches(e, q.ask) /\ Given(q, hierarchyOf(e.service))
              /\ q.calm => \A e \in Entries :
                    matches(e, q.ask) /\ Given(q, hierarchyOf(e.service)) => e \in q.got["history"]
        /\ "companies" \in done(q) =>
              /\ \A c \in q.got["companies"] : Given(q, {c})
              /\ q.calm => \A c \in Companies : Given(q, {c}) => c \in q.got["companies"]
        /\ "products" \in done(q) =>
              /\ \A p \in q.got["products"] : Given(q, {p, CompanyOf[p]})
              /\ q.calm => \A p \in Products : Given(q, {p, CompanyOf[p]}) => p \in q.got["products"]
        /\ "services" \in done(q) =>
              /\ \A s \in q.got["services"] : Given(q, hierarchyOf(s))
              /\ q.calm => \A s \in Services : Given(q, hierarchyOf(s)) => s \in q.got["services"]

\* What a door may show without a session, by what it asks.
Allowed(q, e) ==
    q.anonymous => IF q.door = "feed" THEN q.ask \in q.had ELSE asksOf(q.door, e) \subseteq q.been

ShowsAllowed(q) == \A e \in q.shown : Allowed(q, e)

aboutOf(q) == about(q.door, q.ask)

OfType(type) == {e \in Entries : e.type = type}

\* What it shows while it reads and in the end, if nothing disturbed it.
shownSoFar(q) ==
    IF q.todo = {} THEN aboutOf(q) ELSE IF "deployments" \in done(q) THEN OfType("DEPLOYMENT") ELSE {}

ShowsAll(q) ==
    q.calm => \A e \in Entries : matches(e, q.ask) /\ e \in shownSoFar(q) /\ Allowed(q, e) <=> e \in q.shown

VisitInv(q) == IsVisit(q) /\ Remembers(q) /\ HasRead(q) /\ ShowsAllowed(q) /\ ShowsAll(q)

FlagsTyped ==
    /\ public \subseteq Flagged \cup Types
    /\ feeds \subseteq Feeds
    /\ console \in [Consoles -> SUBSET Types]

VisibilityInv ==
    /\ FlagsTyped
    /\ visit = [v \in Visitors |-> visit[v]]
    /\ \A v \in Visitors : visit[v] = NoVisit \/ VisitInv(visit[v])

-----------------------------------------------------------------------------
(***************************************************************************)
(* The queries of each door, and what was asked before each of them.       *)
(***************************************************************************)
LEMMA QueriesAre ==
    ASSUME NEW door \in Doors
    PROVE  /\ door \in {"events", "current"} => queries(door, TRUE) = {"types", "envs", "gate", "rows"}
           /\ door = "page" => /\ queries(door, TRUE) = {"gate", "history", "types", "envs", "members"}
                               /\ queries(door, FALSE) = {"history", "members"}
           /\ door \in {"events", "current"} => queries(door, FALSE) = {"rows"}
           /\ door = "calendar" => /\ queries(door, TRUE) = {"types", "envs", "joined"}
                                   /\ queries(door, FALSE) = {"joined"}
           /\ door = "dora" => /\ queries(door, TRUE) = {"types", "envs", "deployments", "incidents"}
                               /\ queries(door, FALSE) = {"deployments", "incidents"}
           /\ door = "tree" => /\ queries(door, TRUE) = {"types", "companies", "products", "services", "counts"}
                               /\ queries(door, FALSE) = {"companies", "products", "services", "counts"}
           /\ door = "feed" => queries(door, TRUE) = {"feed", "joined"}
BY DEF queries, turns, Doors, doors

\* What is asked next by then, and what is not to be asked any more.
Ripe(q, query) ==
    /\ query = "rows" => q.door \in {"events", "current"} /\ q.todo = {query}
    /\ query = "members" => q.door = "page" /\ q.todo = {query}
    /\ query = "history" => q.door = "page" /\ "gate" \notin q.todo
    /\ query = "joined" => q.door \in {"calendar", "feed"} /\ q.todo = {query}
    /\ query = "counts" => q.door = "tree" /\ q.todo = {query}
    /\ query = "incidents" => q.door = "dora" /\ q.todo = {query}
    /\ query = "deployments" => q.door = "dora" /\ q.todo \subseteq {query, "incidents"}
    /\ query = "services" => q.door = "tree" /\ "products" \notin q.todo
    /\ query = "products" => q.door = "tree" /\ "companies" \notin q.todo
    /\ query = "companies" => q.door = "tree"
    /\ query = "feed" => q.door = "feed"
    /\ query = "gate" => q.door \in {"events", "current", "page"}
    /\ query \in finals \cup {"types", "envs", "gate", "history", "feed", "companies", "products", "services"}

LEMMA NextIsRipe ==
    ASSUME NEW q, q.door \in Doors, q.anonymous \in BOOLEAN, q.door = "feed" => q.anonymous,
           q.todo \subseteq queries(q.door, q.anonymous), NEW query, isNext(q, query)
    PROVE  Ripe(q, query)
<1>1. query \in q.todo /\ \A other \in q.todo : turns(q.door)[query] <= turns(q.door)[other]
  BY DEF isNext
<1>2. q.todo \subseteq queries(q.door, TRUE)
  BY DEF queries
<1>3. CASE q.door \in {"events", "current"}
  <2>1. q.todo \subseteq {"types", "envs", "gate", "rows"}
    BY <1>2, <1>3, QueriesAre
  <2>2. turns(q.door) = [types |-> 1, envs |-> 1, gate |-> 2, rows |-> 3]
    BY <1>3 DEF turns
  <2>3. QED
    BY <1>1, <1>3, <2>1, <2>2 DEF Ripe, finals
<1>4. CASE q.door = "page"
  <2>1. q.todo \subseteq {"gate", "history", "types", "envs", "members"}
    BY <1>2, <1>4, QueriesAre
  <2>2. turns(q.door) = [gate |-> 1, history |-> 2, types |-> 3, envs |-> 3, members |-> 4]
    BY <1>4 DEF turns
  <2>3. QED
    BY <1>1, <1>4, <2>1, <2>2 DEF Ripe, finals
<1>5. CASE q.door = "calendar"
  <2>1. q.todo \subseteq {"types", "envs", "joined"}
    BY <1>2, <1>5, QueriesAre
  <2>2. turns(q.door) = [types |-> 1, envs |-> 1, joined |-> 2]
    BY <1>5 DEF turns
  <2>3. QED
    BY <1>1, <1>5, <2>1, <2>2 DEF Ripe, finals
<1>6. CASE q.door = "dora"
  <2>1. q.todo \subseteq {"types", "envs", "deployments", "incidents"}
    BY <1>2, <1>6, QueriesAre
  <2>2. turns(q.door) = [types |-> 1, envs |-> 1, deployments |-> 2, incidents |-> 3]
    BY <1>6 DEF turns
  <2>3. QED
    BY <1>1, <1>6, <2>1, <2>2 DEF Ripe, finals
<1>7. CASE q.door = "tree"
  <2>1. q.todo \subseteq {"types", "companies", "products", "services", "counts"}
    BY <1>2, <1>7, QueriesAre
  <2>2. turns(q.door) = [types |-> 1, companies |-> 2, products |-> 3, services |-> 4, counts |-> 5]
    BY <1>7 DEF turns
  <2>3. QED
    BY <1>1, <1>7, <2>1, <2>2 DEF Ripe, finals
<1>8. CASE q.door = "feed"
  <2>1. q.todo \subseteq {"feed", "joined"}
    BY <1>2, <1>8, QueriesAre
  <2>2. turns(q.door) = [feed |-> 1, joined |-> 2]
    BY <1>8 DEF turns
  <2>3. QED
    BY <1>1, <1>8, <2>1, <2>2 DEF Ripe, finals
<1>9. QED
  BY <1>3, <1>4, <1>5, <1>6, <1>7, <1>8 DEF Doors, doors

-----------------------------------------------------------------------------
(***************************************************************************)
(* What each query answers is worth: of a flag, what has to be known of it *)
(* as long as the door reads; of the last ones, what may be shown, and     *)
(* exactly that if nothing disturbed the request.                          *)
(***************************************************************************)
LEMMA EntriesAre ==
    ASSUME NEW e \in Entries
    PROVE  e.service \in Services /\ e.type \in Types /\ e.environment \in Environments
BY VisibilityAssumption

LEMMA FlagsAreRead ==
    ASSUME NEW v \in Visitors, VisitInv(visit[v]), visit[v].todo # {}
    PROVE  LET q == visit[v]
           IN  /\ answer(v, "types") \subseteq q.been
               /\ q.calm => answer(v, "types") = q.been \cap Types
               /\ answer(v, "envs") \subseteq q.been
               /\ q.calm => answer(v, "envs") = q.been \cap Environments
               /\ answer(v, "gate") => hierarchyOf(q.ask.service) \subseteq q.been
               /\ q.calm /\ hierarchyOf(q.ask.service) \subseteq q.been => answer(v, "gate")
               /\ answer(v, "feed") => q.ask \in q.had
               /\ q.calm /\ q.ask \in q.had => answer(v, "feed")
<1> DEFINE q == visit[v]
<1>1. public \subseteq q.been /\ feeds \subseteq q.had /\ (q.calm => q.been = public /\ q.had = feeds)
  BY DEF VisitInv, Remembers
<1>2. answer(v, "types") = public \cap Types /\ answer(v, "envs") = public \cap Environments
  BY DEF answer, getPublicEventTypes, getPublicEnvSlugs
<1>3. answer(v, "gate") <=> hierarchyOf(q.ask.service) \subseteq public
  BY DEF answer, serviceVisible
<1>4. answer(v, "feed") <=> q.ask \in feeds
  BY DEF answer
<1>5. QED
  BY <1>1, <1>2, <1>3, <1>4

LEMMA TreeIsRead ==
    ASSUME NEW v \in Visitors, VisitInv(visit[v]), visit[v].todo # {}
    PROVE  LET q == visit[v]
           IN  /\ \A c \in answer(v, "companies") : Given(q, {c})
               /\ q.calm => \A c \in Companies : Given(q, {c}) => c \in answer(v, "companies")
               /\ "companies" \in done(q) =>
                     /\ \A p \in answer(v, "products") : Given(q, {p, CompanyOf[p]})
                     /\ q.calm => \A p \in Products : Given(q, {p, CompanyOf[p]}) => p \in answer(v, "products")
               /\ "products" \in done(q) =>
                     /\ \A s \in answer(v, "services") : Given(q, hierarchyOf(s))
                     /\ q.calm => \A s \in Services : Given(q, hierarchyOf(s)) => s \in answer(v, "services")
<1> DEFINE q == visit[v]
<1>1. public \subseteq q.been /\ (q.calm => q.been = public)
  BY DEF VisitInv, Remembers
<1>2. q.anonymous \in BOOLEAN
  BY DEF VisitInv, IsVisit
<1>3. /\ answer(v, "companies") = flag(v, Companies)
      /\ answer(v, "products") = {p \in flag(v, Products) : CompanyOf[p] \in q.got.companies}
      /\ answer(v, "services") = {s \in flag(v, Services) : ProductOf[s] \in q.got.products}
  BY DEF answer
<1>4. \A names : flag(v, names) = IF q.anonymous THEN names \cap public ELSE names
  BY DEF flag
<1>5. /\ \A c \in answer(v, "companies") : Given(q, {c})
      /\ q.calm => \A c \in Companies : Given(q, {c}) => c \in answer(v, "companies")
  BY <1>1, <1>2, <1>3, <1>4 DEF Given
<1>6. ASSUME "companies" \in done(q)
      PROVE  /\ \A p \in answer(v, "products") : Given(q, {p, CompanyOf[p]})
             /\ q.calm => \A p \in Products : Given(q, {p, CompanyOf[p]}) => p \in answer(v, "products")
  <2>1. /\ \A c \in q.got.companies : Given(q, {c})
        /\ q.calm => \A c \in Companies : Given(q, {c}) => c \in q.got.companies
    BY <1>6 DEF VisitInv, HasRead
  <2>2. ASSUME NEW p \in answer(v, "products") PROVE Given(q, {p, CompanyOf[p]})
    BY <1>1, <1>2, <1>3, <1>4, <2>1, <2>2 DEF Given
  <2>3. ASSUME q.calm, NEW p \in Products, Given(q, {p, CompanyOf[p]}) PROVE p \in answer(v, "products")
    <3>1. CompanyOf[p] \in Companies
      BY VisibilityAssumption
    <3>2. QED
      BY <1>1, <1>2, <1>3, <1>4, <2>1, <2>3, <3>1 DEF Given
  <2>4. QED
    BY <2>2, <2>3
<1>7. ASSUME "products" \in done(q)
      PROVE  /\ \A s \in answer(v, "services") : Given(q, hierarchyOf(s))
             /\ q.calm => \A s \in Services : Given(q, hierarchyOf(s)) => s \in answer(v, "services")
  <2>1. /\ \A p \in q.got.products : Given(q, {p, CompanyOf[p]})
        /\ q.calm => \A p \in Products : Given(q, {p, CompanyOf[p]}) => p \in q.got.products
    BY <1>7 DEF VisitInv, HasRead
  <2>2. ASSUME NEW s \in answer(v, "services") PROVE Given(q, hierarchyOf(s))
    BY <1>1, <1>2, <1>3, <1>4, <2>1, <2>2 DEF Given, hierarchyOf
  <2>3. ASSUME q.calm, NEW s \in Services, Given(q, hierarchyOf(s)) PROVE s \in answer(v, "services")
    <3>1. ProductOf[s] \in Products
      BY VisibilityAssumption
    <3>2. QED
      BY <1>1, <1>2, <1>3, <1>4, <2>1, <2>3, <3>1 DEF Given, hierarchyOf
  <2>4. QED
    BY <2>2, <2>3
<1>8. QED
  BY <1>5, <1>6, <1>7

\* What one of the last queries adds of the events it asks for.
Answers(q, a, E) ==
    /\ a \subseteq Entries
    /\ \A e \in a : Allowed(q, e)
    /\ q.calm => \A e \in Entries : matches(e, q.ask) /\ e \in E /\ Allowed(q, e) <=> e \in a

LEMMA RowsAreAllowed ==
    ASSUME NEW v \in Visitors, VisitInv(visit[v]), visit[v].todo = {"rows"},
           visit[v].door \in {"events", "current"}
    PROVE  Answers(visit[v], answer(v, "rows"), aboutOf(visit[v]))
<1> DEFINE q == visit[v]
           a == answer(v, "rows")
<1>1. /\ q.anonymous \in BOOLEAN /\ q.calm \in BOOLEAN
      /\ q.ask.service # Whichever
      /\ q.door \in Doors
  BY DEF VisitInv, IsVisit, Doors, doors
<1>2. a = {e \in asked(v) : /\ inScope(v, e)
                            /\ q.anonymous => q.got.gate
                            /\ q.door = "current" => inPlace(e)}
  BY DEF answer
<1>3. asked(v) = {e \in Entries : matches(e, q.ask)}
  BY DEF asked
<1>4. \A e \in asked(v) : e.service = q.ask.service
  BY <1>1, <1>3 DEF matches
<1>5. ASSUME q.anonymous
      PROVE  /\ q.got.types \subseteq q.been /\ (q.calm => q.got.types = q.been \cap Types)
             /\ q.got.envs \subseteq q.been /\ (q.calm => q.got.envs = q.been \cap Environments)
             /\ q.got.gate => hierarchyOf(q.ask.service) \subseteq q.been
             /\ q.calm /\ hierarchyOf(q.ask.service) \subseteq q.been => q.got.gate
  <2>1. queries(q.door, q.anonymous) = {"types", "envs", "gate", "rows"}
    BY <1>1, <1>5, QueriesAre
  <2>2. "types" \in done(q) /\ "envs" \in done(q) /\ "gate" \in done(q)
    BY <2>1 DEF done
  <2>3. QED
    BY <2>2 DEF VisitInv, HasRead
<1>6. /\ asksType(q.door) <=> q.door # "current"
      /\ \A e : asksOf(q.door, e) \subseteq q.been
                   <=> /\ hierarchyOf(e.service) \subseteq q.been
                       /\ q.door # "current" => e.type \in q.been
                       /\ e.environment \in q.been
  <2>1. CASE q.door = "current"
    BY <2>1 DEF asksType, asksOf
  <2>2. CASE q.door = "events"
    BY <2>2 DEF asksType, asksOf, needs
  <2>3. QED
    BY <2>1, <2>2
<1>7. ASSUME NEW e \in asked(v), q.anonymous
      PROVE  /\ inScope(v, e) <=> (q.door # "current" => e.type \in q.got.types) /\ e.environment \in q.got.envs
             /\ Allowed(q, e) <=> /\ hierarchyOf(q.ask.service) \subseteq q.been
                                  /\ q.door # "current" => e.type \in q.been
                                  /\ e.environment \in q.been
  <2>1. e.service = q.ask.service
    BY <1>4
  <2>2. QED
    BY <1>6, <1>7, <2>1 DEF inScope, inEnvs, Allowed
<1>8. ASSUME NEW e \in a PROVE Allowed(q, e)
  <2>1. CASE q.anonymous
    BY <1>2, <1>5, <1>7, <1>8, <2>1
  <2>2. CASE ~q.anonymous
    BY <2>2 DEF Allowed
  <2>3. QED
    BY <1>1, <2>1, <2>2
<1>9. ASSUME q.calm, NEW e \in Entries
      PROVE  matches(e, q.ask) /\ e \in aboutOf(q) /\ Allowed(q, e) <=> e \in a
  <2>1. e.type \in Types /\ e.environment \in Environments
    BY EntriesAre
  <2>2. e \in aboutOf(q) <=> (q.door = "current" => inPlace(e))
    BY <1>9 DEF aboutOf, about
  <2>3. CASE q.anonymous
    BY <1>2, <1>3, <1>5, <1>7, <1>8, <1>9, <2>1, <2>2, <2>3
  <2>4. CASE ~q.anonymous
    <3>1. inScope(v, e) /\ Allowed(q, e)
      BY <2>4 DEF inScope, Allowed
    <3>2. QED
      BY <1>2, <1>3, <2>2, <2>4, <3>1
  <2>5. QED
    BY <1>1, <2>3, <2>4
<1>10. a \subseteq Entries
  BY <1>2, <1>3
<1>11. QED
  BY <1>8, <1>9, <1>10 DEF Answers

\* What a page read of its service's events.
LEMMA HistoryIsRead ==
    ASSUME NEW v \in Visitors, VisitInv(visit[v]), visit[v].todo # {}, visit[v].door = "page", "gate" \notin visit[v].todo
    PROVE  LET q == visit[v]
           IN  /\ answer(v, "history") \subseteq Entries
               /\ \A e \in answer(v, "history") : matches(e, q.ask) /\ Given(q, hierarchyOf(e.service))
               /\ q.calm => \A e \in Entries :
                     matches(e, q.ask) /\ Given(q, hierarchyOf(e.service)) => e \in answer(v, "history")
<1> DEFINE q == visit[v]
<1>1. q.anonymous \in BOOLEAN /\ q.ask.service # Whichever /\ q.door \in Doors
  BY DEF VisitInv, IsVisit, Doors, doors
<1>2. answer(v, "history") = {e \in asked(v) : q.anonymous => q.got.gate}
  BY DEF answer
<1>3. asked(v) = {e \in Entries : matches(e, q.ask)} /\ \A e \in asked(v) : e.service = q.ask.service
  BY <1>1 DEF asked, matches
<1>4. q.anonymous => /\ q.got.gate => hierarchyOf(q.ask.service) \subseteq q.been
                     /\ q.calm /\ hierarchyOf(q.ask.service) \subseteq q.been => q.got.gate
  <2>1. q.anonymous => queries(q.door, q.anonymous) = {"gate", "history", "types", "envs", "members"}
    BY <1>1, QueriesAre
  <2>2. q.anonymous => "gate" \in done(q)
    BY <2>1 DEF done
  <2>3. QED
    BY <2>2 DEF VisitInv, HasRead
<1>5. \A e \in asked(v) : Given(q, hierarchyOf(e.service)) <=> (q.anonymous => hierarchyOf(q.ask.service) \subseteq q.been)
  BY <1>3 DEF Given
<1>6. QED
  BY <1>2, <1>3, <1>4, <1>5

LEMMA ListIsAllowed ==
    ASSUME NEW v \in Visitors, VisitInv(visit[v]), visit[v].todo = {"members"}, visit[v].door = "page"
    PROVE  Answers(visit[v], onPage(v), aboutOf(visit[v]))
<1> DEFINE q == visit[v]
           a == onPage(v)
<1>1. q.anonymous \in BOOLEAN /\ q.door \in Doors
  BY DEF VisitInv, IsVisit, Doors, doors
<1>2. "history" \in done(q) /\ (q.anonymous => {"types", "envs"} \subseteq done(q))
  <2>1. CASE q.anonymous
    <3>1. queries(q.door, q.anonymous) = {"gate", "history", "types", "envs", "members"}
      BY <1>1, <2>1, QueriesAre
    <3>2. QED
      BY <3>1 DEF done
  <2>2. CASE ~q.anonymous
    <3>1. queries(q.door, q.anonymous) = {"history", "members"}
      BY <1>1, <2>2, QueriesAre
    <3>2. QED
      BY <2>2, <3>1 DEF done
  <2>3. QED
    BY <1>1, <2>1, <2>2
<1>3. /\ q.got.history \subseteq Entries
      /\ \A e \in q.got.history : matches(e, q.ask) /\ Given(q, hierarchyOf(e.service))
      /\ q.calm => \A e \in Entries : matches(e, q.ask) /\ Given(q, hierarchyOf(e.service)) => e \in q.got.history
  BY <1>2 DEF VisitInv, HasRead
<1>4. q.anonymous => /\ q.got.types \subseteq q.been /\ (q.calm => q.got.types = q.been \cap Types)
                     /\ q.got.envs \subseteq q.been /\ (q.calm => q.got.envs = q.been \cap Environments)
  BY <1>2 DEF VisitInv, HasRead
<1>5. a = {e \in q.got.history : inScope(v, e)}
  BY DEF onPage
<1>6. asksType(q.door) /\ aboutOf(q) = Entries /\ \A e : asksOf(q.door, e) = needs(e)
  BY DEF asksType, aboutOf, about, asksOf
<1>7. \A e : /\ inScope(v, e) <=> (q.anonymous => e.type \in q.got.types /\ e.environment \in q.got.envs)
             /\ Allowed(q, e) <=> /\ Given(q, hierarchyOf(e.service))
                                  /\ q.anonymous => e.type \in q.been /\ e.environment \in q.been
  BY <1>6 DEF inScope, inEnvs, Allowed, Given, needs
<1>8. ASSUME NEW e \in a PROVE Allowed(q, e)
  BY <1>3, <1>4, <1>5, <1>7, <1>8
<1>9. ASSUME q.calm, NEW e \in Entries, matches(e, q.ask), Allowed(q, e) PROVE e \in a
  <2>1. e.type \in Types /\ e.environment \in Environments
    BY EntriesAre
  <2>2. QED
    BY <1>3, <1>4, <1>5, <1>7, <1>9, <2>1
<1>10. a \subseteq Entries /\ \A e \in a : matches(e, q.ask)
  BY <1>3, <1>5
<1>11. QED
  BY <1>6, <1>8, <1>9, <1>10 DEF Answers

LEMMA PublicIsAllowed ==
    ASSUME NEW v \in Visitors, VisitInv(visit[v]), visit[v].todo # {}, visit[v].door \in {"calendar", "dora"},
           visit[v].anonymous => {"types", "envs"} \subseteq done(visit[v]),
           NEW T \in SUBSET Types
    PROVE  Answers(visit[v], ofPublic(v, T), {e \in Entries : e.type \in T})
<1> DEFINE q == visit[v]
           a == ofPublic(v, T)
<1>1. q.anonymous \in BOOLEAN /\ public \subseteq q.been /\ (q.calm => q.been = public)
  BY DEF VisitInv, IsVisit, Remembers
<1>2. a = {e \in asked(v) : e.type \in T /\ inScope(v, e) /\ (q.anonymous => serviceVisible(e.service))}
  BY DEF ofPublic
<1>3. asked(v) = {e \in Entries : matches(e, q.ask)}
  BY DEF asked
<1>4. ASSUME q.anonymous
      PROVE  /\ q.got.types \subseteq q.been /\ (q.calm => q.got.types = q.been \cap Types)
             /\ q.got.envs \subseteq q.been /\ (q.calm => q.got.envs = q.been \cap Environments)
  BY <1>4 DEF VisitInv, HasRead
<1>5. /\ asksType(q.door) <=> q.door = "calendar"
      /\ \A e : asksOf(q.door, e) \subseteq q.been
                   <=> /\ hierarchyOf(e.service) \subseteq q.been
                       /\ q.door = "calendar" => e.type \in q.been
                       /\ e.environment \in q.been
  <2>1. CASE q.door = "dora"
    BY <2>1 DEF asksType, asksOf
  <2>2. CASE q.door = "calendar"
    BY <2>2 DEF asksType, asksOf, needs
  <2>3. QED
    BY <2>1, <2>2
<1>6. ASSUME NEW e \in Entries, q.anonymous
      PROVE  /\ inScope(v, e) <=> (q.door = "calendar" => e.type \in q.got.types) /\ e.environment \in q.got.envs
             /\ Allowed(q, e) <=> /\ hierarchyOf(e.service) \subseteq q.been
                                  /\ q.door = "calendar" => e.type \in q.been
                                  /\ e.environment \in q.been
             /\ serviceVisible(e.service) => hierarchyOf(e.service) \subseteq q.been
             /\ q.calm /\ hierarchyOf(e.service) \subseteq q.been => serviceVisible(e.service)
  <2>1. /\ serviceVisible(e.service) => hierarchyOf(e.service) \subseteq q.been
        /\ q.calm /\ hierarchyOf(e.service) \subseteq q.been => serviceVisible(e.service)
    BY <1>1 DEF serviceVisible
  <2>2. QED
    BY <1>5, <1>6, <2>1 DEF inScope, inEnvs, Allowed
<1>7. ASSUME NEW e \in a PROVE Allowed(q, e)
  <2>1. CASE q.anonymous
    BY <1>2, <1>3, <1>4, <1>6, <1>7, <2>1
  <2>2. CASE ~q.anonymous
    BY <2>2 DEF Allowed
  <2>3. QED
    BY <1>1, <2>1, <2>2
<1>8. ASSUME q.calm, NEW e \in Entries
      PROVE  matches(e, q.ask) /\ e.type \in T /\ Allowed(q, e) <=> e \in a
  <2>1. e.type \in Types /\ e.environment \in Environments
    BY EntriesAre
  <2>2. CASE q.anonymous
    BY <1>2, <1>3, <1>4, <1>6, <1>7, <1>8, <2>1, <2>2
  <2>3. CASE ~q.anonymous
    <3>1. inScope(v, e) /\ Allowed(q, e)
      BY <2>3 DEF inScope, Allowed
    <3>2. QED
      BY <1>2, <1>3, <2>3, <3>1
  <2>4. QED
    BY <1>1, <2>2, <2>3
<1>9. a \subseteq Entries
  BY <1>2, <1>3
<1>10. QED
  BY <1>7, <1>8, <1>9 DEF Answers

LEMMA FeedIsAllowed ==
    ASSUME NEW v \in Visitors, VisitInv(visit[v]), visit[v].todo = {"joined"}, visit[v].door = "feed"
    PROVE  Answers(visit[v], answer(v, "joined"), aboutOf(visit[v]))
<1> DEFINE q == visit[v]
           a == answer(v, "joined")
<1>1. q.anonymous
  BY DEF VisitInv, IsVisit
<1>2. "feed" \in done(q)
  <2>1. queries(q.door, q.anonymous) = {"feed", "joined"}
    BY <1>1, QueriesAre DEF VisitInv, IsVisit
  <2>2. QED
    BY <2>1 DEF done
<1>3. (q.got.feed => q.ask \in q.had) /\ (q.calm /\ q.ask \in q.had => q.got.feed)
  BY <1>2 DEF VisitInv, HasRead
<1>4. a = {e \in asked(v) : q.got.feed /\ e.type \in calendarTypes(q.ask)}
  BY DEF answer
<1>5. asked(v) = {e \in Entries : matches(e, q.ask)}
  BY DEF asked
<1>6. aboutOf(q) = {e \in Entries : e.type \in calendarTypes(q.ask)}
  BY DEF aboutOf, about
<1>7. \A e : Allowed(q, e) <=> q.ask \in q.had
  BY <1>1 DEF Allowed
<1>8. QED
  BY <1>3, <1>4, <1>5, <1>6, <1>7 DEF Answers

LEMMA CountsAreAllowed ==
    ASSUME NEW v \in Visitors, VisitInv(visit[v]), visit[v].todo = {"counts"}, visit[v].door = "tree"
    PROVE  Answers(visit[v], answer(v, "counts"), aboutOf(visit[v]))
<1> DEFINE q == visit[v]
           a == answer(v, "counts")
<1>1. /\ q.anonymous \in BOOLEAN
      /\ q.ask.service = Whichever /\ q.ask.environment = Whichever
      /\ q.door \in Doors
  BY DEF VisitInv, IsVisit, Doors, doors
<1>2. "services" \in done(q) /\ (q.anonymous => "types" \in done(q))
  <2>1. CASE q.anonymous
    <3>1. queries(q.door, q.anonymous) = {"types", "companies", "products", "services", "counts"}
      BY <1>1, <2>1, QueriesAre
    <3>2. QED
      BY <3>1 DEF done
  <2>2. CASE ~q.anonymous
    <3>1. queries(q.door, q.anonymous) = {"companies", "products", "services", "counts"}
      BY <1>1, <2>2, QueriesAre
    <3>2. QED
      BY <2>2, <3>1 DEF done
  <2>3. QED
    BY <1>1, <2>1, <2>2
<1>3. /\ \A s \in q.got.services : Given(q, hierarchyOf(s))
      /\ q.calm => \A s \in Services : Given(q, hierarchyOf(s)) => s \in q.got.services
  BY <1>2 DEF VisitInv, HasRead
<1>4. q.anonymous => q.got.types \subseteq q.been /\ (q.calm => q.got.types = q.been \cap Types)
  BY <1>2 DEF VisitInv, HasRead
<1>5. a = {e \in Entries : e.service \in q.got.services /\ (q.anonymous => e.type \in q.got.types)}
  BY DEF answer
<1>6. aboutOf(q) = Entries /\ \A e : asksOf(q.door, e) = hierarchyOf(e.service) \cup {e.type}
  BY DEF aboutOf, about, asksOf
<1>7. \A e : Allowed(q, e) <=> (q.anonymous => hierarchyOf(e.service) \subseteq q.been /\ e.type \in q.been)
  BY <1>6 DEF Allowed
<1>8. \A e \in Entries : matches(e, q.ask) /\ e.service \in Services /\ e.type \in Types
  BY <1>1, EntriesAre DEF matches
<1>9. ASSUME NEW e \in a PROVE Allowed(q, e)
  BY <1>3, <1>4, <1>5, <1>7, <1>9 DEF Given
<1>10. ASSUME q.calm, NEW e \in Entries, Allowed(q, e) PROVE e \in a
  BY <1>3, <1>4, <1>5, <1>7, <1>8, <1>10 DEF Given
<1>11. a \subseteq Entries
  BY <1>5
<1>12. QED
  BY <1>6, <1>8, <1>9, <1>10, <1>11 DEF Answers

\* What the last queries of each door add.
added(q, query) ==
    IF query = "deployments" THEN OfType("DEPLOYMENT") ELSE IF query = "incidents" THEN OfType("INCIDENT") ELSE aboutOf(q)

LEMMA FinalsAreAllowed ==
    ASSUME NEW v \in Visitors, VisitInv(visit[v]), NEW query \in finals, isNext(visit[v], query),
           Ripe(visit[v], query)
    PROVE  Answers(visit[v], showsWith(v, query), added(visit[v], query))
<1> DEFINE q == visit[v]
<1>1. q.anonymous \in BOOLEAN /\ q.door \in Doors /\ query \in q.todo
  BY DEF VisitInv, IsVisit, isNext
<1>2. CASE query = "rows"
  BY <1>2, RowsAreAllowed DEF Ripe, added, showsWith
<1>3. CASE query = "counts"
  BY <1>3, CountsAreAllowed DEF Ripe, added, showsWith
<1>4. CASE query = "joined"
  <2>1. q.todo = {"joined"} /\ q.door \in {"calendar", "feed"}
    BY <1>4 DEF Ripe
  <2>2. CASE q.door = "feed"
    <3>1. added(q, query) = aboutOf(q) /\ showsWith(v, query) = answer(v, query)
      BY <1>4 DEF added, showsWith
    <3>2. QED
      BY <1>4, <2>1, <2>2, <3>1, FeedIsAllowed
  <2>3. CASE q.door = "calendar"
    <3>1. q.anonymous => {"types", "envs"} \subseteq done(q)
      <4>1. q.anonymous => queries(q.door, q.anonymous) = {"types", "envs", "joined"}
        BY <1>1, <2>3, QueriesAre
      <4>2. QED
        BY <2>1, <4>1 DEF done
    <3>2. /\ showsWith(v, query) = ofPublic(v, DEFAULT_TYPES)
          /\ added(q, query) = {e \in Entries : e.type \in DEFAULT_TYPES}
      BY <1>4, <2>3 DEF answer, added, aboutOf, about, showsWith
    <3>3. DEFAULT_TYPES \in SUBSET Types
      BY DEF DEFAULT_TYPES, Types
    <3>4. QED
      BY <2>1, <2>3, <3>1, <3>2, <3>3, PublicIsAllowed
  <2>4. QED
    BY <2>1, <2>2, <2>3
<1>5. CASE query \in {"deployments", "incidents"}
  <2>1. q.door = "dora" /\ q.todo \subseteq {"deployments", "incidents"} /\ q.todo # {}
    BY <1>1, <1>5 DEF Ripe
  <2>2. q.anonymous => {"types", "envs"} \subseteq done(q)
    <3>1. q.anonymous => queries(q.door, q.anonymous) = {"types", "envs", "deployments", "incidents"}
      BY <1>1, <2>1, QueriesAre
    <3>2. QED
      BY <2>1, <3>1 DEF done
  <2>3. PICK type \in Types : /\ showsWith(v, query) = ofPublic(v, {type})
                              /\ added(q, query) = {e \in Entries : e.type \in {type}}
    BY <1>5 DEF answer, added, OfType, Types, showsWith
  <2>4. Answers(q, ofPublic(v, {type}), {e \in Entries : e.type \in {type}})
    BY <2>1, <2>2, PublicIsAllowed
  <2>5. QED
    BY <2>3, <2>4
<1>6. CASE query = "members"
  BY <1>6, ListIsAllowed DEF Ripe, added, showsWith
<1>7. QED
  BY <1>2, <1>3, <1>4, <1>5, <1>6 DEF finals

-----------------------------------------------------------------------------
(***************************************************************************)
(* Steps.                                                                  *)
(***************************************************************************)
\* What a visit knows stays true while nothing changes.
LEMMA VisitStays ==
    ASSUME NEW v \in Visitors, VisitInv(visit[v]), visit'[v] = visit[v], public' = public, feeds' = feeds
    PROVE  VisitInv(visit[v])'
BY DEF VisitInv, IsVisit, Remembers, HasRead, ShowsAllowed, ShowsAll, Given, Allowed, shownSoFar, aboutOf, done

\* The fields of a request, and what a query adds to them.
HasFields(w) ==
    w = [todo |-> w.todo, door |-> w.door, anonymous |-> w.anonymous, ask |-> w.ask, got |-> w.got,
         shown |-> w.shown, beside |-> w.beside, been |-> w.been, had |-> w.had, calm |-> w.calm]

LEMMA TurnedIs ==
    ASSUME NEW v \in Visitors, NEW query, IsVisit(visit[v]), NEW w, w = turned(v, query)
    PROVE  LET q == visit[v]
           IN  /\ HasFields(w)
               /\ w.todo = q.todo \ {query}
               /\ w.door = q.door /\ w.anonymous = q.anonymous /\ w.ask = q.ask
               /\ w.been = q.been /\ w.had = q.had /\ w.calm = q.calm
               /\ w.todo # {} => w.got = withAnswer(q.got, query, answer(v, query))
               /\ query \in finals => w.shown = q.shown \cup showsWith(v, query)
               /\ query \notin finals => w.shown = q.shown
               /\ w.beside = IF query = "members" THEN answer(v, query) ELSE q.beside
BY DEF IsVisit, turned, HasFields

LEMMA ReadStep ==
    ASSUME VisibilityInv, NEW v \in Visitors, readNext(v)
    PROVE  VisibilityInv'
<1> DEFINE q == visit[v]
<1>1. PICK query \in q.todo : isNext(q, query) /\ visit' = [visit EXCEPT ![v] = turned(v, query)]
  BY DEF readNext
<1>2. VisitInv(q) /\ IsVisit(q)
  <2>1. q.todo # {}
    BY <1>1
  <2>2. q # NoVisit
    BY <2>1 DEF NoVisit
  <2>3. QED
    BY <2>2 DEF VisibilityInv, VisitInv
<1>3. visit = [x \in Visitors |-> visit[x]]
  BY DEF VisibilityInv
<1>4. PICK w : w = turned(v, query)
  OBVIOUS
<1>5. visit' = [visit EXCEPT ![v] = w]
  BY <1>1, <1>4
<1>6. visit'[v] = w /\ \A x \in Visitors : x # v => visit'[x] = visit[x]
  BY <1>3, <1>5
<1>7. /\ HasFields(w)
      /\ w.todo = q.todo \ {query}
      /\ w.door = q.door /\ w.anonymous = q.anonymous /\ w.ask = q.ask
      /\ w.been = q.been /\ w.had = q.had /\ w.calm = q.calm
      /\ w.todo # {} => w.got = withAnswer(q.got, query, answer(v, query))
      /\ query \in finals => w.shown = q.shown \cup showsWith(v, query)
      /\ query \notin finals => w.shown = q.shown
      /\ w.beside = IF query = "members" THEN answer(v, query) ELSE q.beside
  BY <1>2, <1>4, TurnedIs
<1>8. Ripe(q, query)
  BY <1>1, <1>2, NextIsRipe DEF IsVisit
<1>9. query \in finals => Answers(q, showsWith(v, query), added(q, query))
  BY <1>1, <1>2, <1>8, FinalsAreAllowed
<1>10. public' = public /\ feeds' = feeds /\ console' = console
  BY DEF readNext
<1>11. query # lastOf(q.door) \/ q.todo = {query}
  BY <1>2, <1>8 DEF lastOf, Ripe, IsVisit, Doors, doors
<1>12. IsVisit(w)
  <2>1. w = [todo |-> w.todo, door |-> w.door, anonymous |-> w.anonymous, ask |-> w.ask, got |-> w.got,
             shown |-> w.shown, beside |-> w.beside, been |-> w.been, had |-> w.had, calm |-> w.calm]
    BY <1>7 DEF HasFields
  <2>2. w.shown \subseteq Entries /\ w.beside \subseteq Entries
    <3>1. answer(v, "members") \subseteq Entries
      BY DEF answer, getLotMembers
    <3>2. QED
      BY <1>2, <1>7, <1>9, <3>1 DEF IsVisit, Answers
  <2>3. w.todo # {} => lastOf(w.door) \in w.todo
    BY <1>2, <1>7, <1>11 DEF IsVisit
  <2>4. QED
    BY <1>2, <1>7, <2>1, <2>2, <2>3 DEF IsVisit
<1>13. Remembers(visit[v])'
  BY <1>1, <1>2, <1>6, <1>7, <1>10 DEF VisitInv, Remembers
<1>14. done(w) = done(q) \cup {query}
  BY <1>1, <1>2, <1>7 DEF done, IsVisit
<1>15. HasRead(w)
  <2>1. SUFFICES ASSUME w.todo # {} PROVE HasRead(w)
    BY DEF HasRead
  <2>2. q.todo # {}
    BY <1>1
  <2>3. /\ DOMAIN w.got = done(w)
        /\ w.got[query] = answer(v, query)
        /\ \A k \in done(w) : k # query => k \in done(q) /\ w.got[k] = q.got[k]
    <3>1. DOMAIN q.got = done(q)
      BY <1>2, <2>2 DEF VisitInv, HasRead
    <3>2. QED
      BY <1>7, <1>14, <2>1, <3>1 DEF withAnswer
  <2>4. /\ "types" \in done(w) => /\ w.got["types"] \subseteq w.been
                                  /\ w.calm => w.got["types"] = w.been \cap Types
        /\ "envs" \in done(w) => /\ w.got["envs"] \subseteq w.been
                                 /\ w.calm => w.got["envs"] = w.been \cap Environments
    <3>1. /\ answer(v, "types") \subseteq q.been /\ (q.calm => answer(v, "types") = q.been \cap Types)
          /\ answer(v, "envs") \subseteq q.been /\ (q.calm => answer(v, "envs") = q.been \cap Environments)
      BY <1>2, <2>2, FlagsAreRead
    <3>2. /\ "types" \in done(q) => /\ q.got["types"] \subseteq q.been
                                    /\ q.calm => q.got["types"] = q.been \cap Types
          /\ "envs" \in done(q) => /\ q.got["envs"] \subseteq q.been
                                   /\ q.calm => q.got["envs"] = q.been \cap Environments
      BY <1>2, <2>2 DEF VisitInv, HasRead
    <3>3. w.been = q.been /\ w.calm = q.calm
      BY <1>7
    <3>4. ASSUME "types" \in done(w)
          PROVE  w.got["types"] \subseteq w.been /\ (w.calm => w.got["types"] = w.been \cap Types)
      BY <2>3, <3>1, <3>2, <3>3, <3>4
    <3>5. ASSUME "envs" \in done(w)
          PROVE  w.got["envs"] \subseteq w.been /\ (w.calm => w.got["envs"] = w.been \cap Environments)
      BY <2>3, <3>1, <3>2, <3>3, <3>5
    <3>6. QED
      BY <3>4, <3>5
  <2>5. "gate" \in done(w) => /\ w.got["gate"] => hierarchyOf(w.ask.service) \subseteq w.been
                              /\ w.calm /\ hierarchyOf(w.ask.service) \subseteq w.been => w.got["gate"]
    <3>1. /\ answer(v, "gate") => hierarchyOf(q.ask.service) \subseteq q.been
          /\ q.calm /\ hierarchyOf(q.ask.service) \subseteq q.been => answer(v, "gate")
      BY <1>2, <2>2, FlagsAreRead
    <3>2. "gate" \in done(q) => /\ q.got["gate"] => hierarchyOf(q.ask.service) \subseteq q.been
                                /\ q.calm /\ hierarchyOf(q.ask.service) \subseteq q.been => q.got["gate"]
      BY <1>2, <2>2 DEF VisitInv, HasRead
    <3>3. w.been = q.been /\ w.calm = q.calm /\ w.ask = q.ask
      BY <1>7
    <3>4. QED
      BY <2>3, <3>1, <3>2, <3>3
  <2>6. "feed" \in done(w) => /\ w.got["feed"] => w.ask \in w.had
                              /\ w.calm /\ w.ask \in w.had => w.got["feed"]
    <3>1. (answer(v, "feed") => q.ask \in q.had) /\ (q.calm /\ q.ask \in q.had => answer(v, "feed"))
      BY <1>2, <2>2, FlagsAreRead
    <3>2. "feed" \in done(q) => /\ q.got["feed"] => q.ask \in q.had
                                /\ q.calm /\ q.ask \in q.had => q.got["feed"]
      BY <1>2, <2>2 DEF VisitInv, HasRead
    <3>3. w.had = q.had /\ w.calm = q.calm /\ w.ask = q.ask
      BY <1>7
    <3>4. QED
      BY <2>3, <3>1, <3>2, <3>3
  <2>7. \A s : Given(w, s) <=> Given(q, s)
    BY <1>7 DEF Given
  <2>8. "companies" \in done(w) =>
              /\ \A x \in w.got["companies"] : Given(w, {x})
              /\ w.calm => \A x \in Companies : Given(w, {x}) => x \in w.got["companies"]
    <3>1. CASE query = "companies"
      <4>1. /\ \A x \in answer(v, "companies") : Given(q, {x})
            /\ q.calm => \A x \in Companies : Given(q, {x}) => x \in answer(v, "companies")
        BY <1>2, <2>2, TreeIsRead
      <4>2. w.calm = q.calm /\ w.got["companies"] = answer(v, "companies")
        BY <1>7, <2>3, <3>1
      <4>3. QED
        BY <2>7, <4>1, <4>2
    <3>2. CASE query # "companies"
      <4>1. SUFFICES ASSUME "companies" \in done(w)
                     PROVE  /\ \A x \in w.got["companies"] : Given(w, {x})
                            /\ w.calm => \A x \in Companies : Given(w, {x}) => x \in w.got["companies"]
        OBVIOUS
      <4>2. /\ \A x \in q.got["companies"] : Given(q, {x})
            /\ q.calm => \A x \in Companies : Given(q, {x}) => x \in q.got["companies"]
        BY <1>2, <2>2, <2>3, <3>2, <4>1 DEF VisitInv, HasRead
      <4>3. w.calm = q.calm /\ w.got["companies"] = q.got["companies"]
        BY <1>7, <2>3, <3>2, <4>1
      <4>4. QED
        BY <2>7, <4>2, <4>3
    <3>3. QED
      BY <3>1, <3>2
  <2>9. query = "products" => "companies" \in done(q)
    <3>1. SUFFICES ASSUME query = "products" PROVE "companies" \in done(q)
      OBVIOUS
    <3>2. q.door = "tree" /\ "companies" \notin q.todo /\ q.anonymous \in BOOLEAN
      BY <1>2, <1>8, <3>1 DEF Ripe, IsVisit
    <3>3. "companies" \in queries("tree", TRUE) /\ "companies" \in queries("tree", FALSE)
      BY QueriesAre DEF Doors, doors
    <3>4. QED
      BY <3>2, <3>3 DEF done
  <2>10. query = "services" => "products" \in done(q)
    <3>1. SUFFICES ASSUME query = "services" PROVE "products" \in done(q)
      OBVIOUS
    <3>2. q.door = "tree" /\ "products" \notin q.todo /\ q.anonymous \in BOOLEAN
      BY <1>2, <1>8, <3>1 DEF Ripe, IsVisit
    <3>3. "products" \in queries("tree", TRUE) /\ "products" \in queries("tree", FALSE)
      BY QueriesAre DEF Doors, doors
    <3>4. QED
      BY <3>2, <3>3 DEF done
  <2>11. "products" \in done(w) =>
              /\ \A x \in w.got["products"] : Given(w, {x, CompanyOf[x]})
              /\ w.calm => \A x \in Products : Given(w, {x, CompanyOf[x]}) => x \in w.got["products"]
    <3>1. CASE query = "products"
      <4>1. /\ \A x \in answer(v, "products") : Given(q, {x, CompanyOf[x]})
            /\ q.calm => \A x \in Products : Given(q, {x, CompanyOf[x]}) => x \in answer(v, "products")
        BY <1>2, <2>2, <2>9, <3>1, TreeIsRead
      <4>2. w.calm = q.calm /\ w.got["products"] = answer(v, "products")
        BY <1>7, <2>3, <3>1
      <4>3. QED
        BY <2>7, <4>1, <4>2
    <3>2. CASE query # "products"
      <4>1. SUFFICES ASSUME "products" \in done(w)
                     PROVE  /\ \A x \in w.got["products"] : Given(w, {x, CompanyOf[x]})
                            /\ w.calm => \A x \in Products : Given(w, {x, CompanyOf[x]}) => x \in w.got["products"]
        OBVIOUS
      <4>2. /\ \A x \in q.got["products"] : Given(q, {x, CompanyOf[x]})
            /\ q.calm => \A x \in Products : Given(q, {x, CompanyOf[x]}) => x \in q.got["products"]
        BY <1>2, <2>2, <2>3, <3>2, <4>1 DEF VisitInv, HasRead
      <4>3. w.calm = q.calm /\ w.got["products"] = q.got["products"]
        BY <1>7, <2>3, <3>2, <4>1
      <4>4. QED
        BY <2>7, <4>2, <4>3
    <3>3. QED
      BY <3>1, <3>2
  <2>12. "services" \in done(w) =>
              /\ \A x \in w.got["services"] : Given(w, hierarchyOf(x))
              /\ w.calm => \A x \in Services : Given(w, hierarchyOf(x)) => x \in w.got["services"]
    <3>1. CASE query = "services"
      <4>1. /\ \A x \in answer(v, "services") : Given(q, hierarchyOf(x))
            /\ q.calm => \A x \in Services : Given(q, hierarchyOf(x)) => x \in answer(v, "services")
        BY <1>2, <2>2, <2>10, <3>1, TreeIsRead
      <4>2. w.calm = q.calm /\ w.got["services"] = answer(v, "services")
        BY <1>7, <2>3, <3>1
      <4>3. QED
        BY <2>7, <4>1, <4>2
    <3>2. CASE query # "services"
      <4>1. SUFFICES ASSUME "services" \in done(w)
                     PROVE  /\ \A x \in w.got["services"] : Given(w, hierarchyOf(x))
                            /\ w.calm => \A x \in Services : Given(w, hierarchyOf(x)) => x \in w.got["services"]
        OBVIOUS
      <4>2. /\ \A x \in q.got["services"] : Given(q, hierarchyOf(x))
            /\ q.calm => \A x \in Services : Given(q, hierarchyOf(x)) => x \in q.got["services"]
        BY <1>2, <2>2, <2>3, <3>2, <4>1 DEF VisitInv, HasRead
      <4>3. w.calm = q.calm /\ w.got["services"] = q.got["services"]
        BY <1>7, <2>3, <3>2, <4>1
      <4>4. QED
        BY <2>7, <4>2, <4>3
    <3>3. QED
      BY <3>1, <3>2
  <2>13. "history" \in done(w) =>
              /\ w.got["history"] \subseteq Entries
              /\ \A e \in w.got["history"] : matches(e, w.ask) /\ Given(w, hierarchyOf(e.service))
              /\ w.calm => \A e \in Entries :
                    matches(e, w.ask) /\ Given(w, hierarchyOf(e.service)) => e \in w.got["history"]
    <3>1. CASE query = "history"
      <4>1. /\ answer(v, "history") \subseteq Entries
            /\ \A e \in answer(v, "history") : matches(e, q.ask) /\ Given(q, hierarchyOf(e.service))
            /\ q.calm => \A e \in Entries :
                  matches(e, q.ask) /\ Given(q, hierarchyOf(e.service)) => e \in answer(v, "history")
        BY <1>2, <1>8, <2>2, <3>1, HistoryIsRead DEF Ripe
      <4>2. w.calm = q.calm /\ w.ask = q.ask /\ w.got["history"] = answer(v, "history")
        BY <1>7, <2>3, <3>1
      <4>3. QED
        BY <2>7, <4>1, <4>2
    <3>2. CASE query # "history"
      <4>1. SUFFICES ASSUME "history" \in done(w)
                     PROVE  /\ w.got["history"] \subseteq Entries
                            /\ \A e \in w.got["history"] : matches(e, w.ask) /\ Given(w, hierarchyOf(e.service))
                            /\ w.calm => \A e \in Entries :
                                  matches(e, w.ask) /\ Given(w, hierarchyOf(e.service)) => e \in w.got["history"]
        OBVIOUS
      <4>2. /\ q.got["history"] \subseteq Entries
            /\ \A e \in q.got["history"] : matches(e, q.ask) /\ Given(q, hierarchyOf(e.service))
            /\ q.calm => \A e \in Entries :
                  matches(e, q.ask) /\ Given(q, hierarchyOf(e.service)) => e \in q.got["history"]
        BY <1>2, <2>2, <2>3, <3>2, <4>1 DEF VisitInv, HasRead
      <4>3. w.calm = q.calm /\ w.ask = q.ask /\ w.got["history"] = q.got["history"]
        BY <1>7, <2>3, <3>2, <4>1
      <4>4. QED
        BY <2>7, <4>2, <4>3
    <3>3. QED
      BY <3>1, <3>2
  <2>14. QED
    BY <2>3, <2>4, <2>5, <2>6, <2>8, <2>11, <2>12, <2>13 DEF HasRead
<1>16. \A e : Allowed(w, e) <=> Allowed(q, e)
  BY <1>7 DEF Allowed
<1>17. ShowsAllowed(w)
  BY <1>2, <1>7, <1>9, <1>16 DEF VisitInv, ShowsAllowed, Answers
<1>18. shownSoFar(w) = shownSoFar(q) \cup (IF query \in finals THEN added(q, query) ELSE {})
  <2>1. aboutOf(w) = aboutOf(q)
    BY <1>7 DEF aboutOf
  <2>2. CASE query \notin finals
    <3>1. query # "deployments" /\ query # lastOf(q.door)
      BY <1>2, <2>2 DEF finals, lastOf, IsVisit, Doors, doors
    <3>2. w.todo # {} /\ q.todo # {}
      BY <1>1, <1>2, <1>7, <3>1 DEF IsVisit
    <3>3. QED
      BY <1>14, <2>2, <3>1, <3>2 DEF shownSoFar
  <2>3. CASE query = "deployments"
    <3>1. q.door = "dora" /\ "incidents" \in q.todo
      BY <1>1, <1>2, <1>8, <2>3 DEF IsVisit, Ripe, lastOf
    <3>2. w.todo # {} /\ "deployments" \in done(w) /\ "deployments" \notin done(q) /\ q.todo # {}
      <4>1. "incidents" \in w.todo
        BY <1>7, <2>3, <3>1
      <4>2. query \in q.todo
        BY <1>1
      <4>3. "deployments" \in done(w)
        BY <1>14, <2>3
      <4>4. "deployments" \notin done(q)
        BY <2>3, <4>2 DEF done
      <4>5. QED
        BY <4>1, <4>2, <4>3, <4>4
    <3>3. QED
      BY <2>3, <3>2 DEF shownSoFar, added, finals
  <2>4. CASE query = "incidents"
    <3>1. q.door = "dora" /\ q.todo = {query}
      BY <1>8, <2>4 DEF Ripe
    <3>2. "deployments" \in done(q)
      <4>1. q.door \in Doors /\ q.anonymous \in BOOLEAN
        BY <1>2 DEF IsVisit
      <4>2. "deployments" \in queries(q.door, q.anonymous)
        BY <3>1, <4>1, QueriesAre
      <4>3. QED
        BY <2>4, <3>1, <4>2 DEF done
    <3>3. aboutOf(q) = OfType("DEPLOYMENT") \cup OfType("INCIDENT")
      BY <3>1 DEF aboutOf, about, OfType
    <3>4. QED
      BY <1>7, <2>1, <2>4, <3>1, <3>2, <3>3 DEF shownSoFar, added, finals
  <2>5. CASE query \in {"rows", "members", "joined", "counts"}
    <3>1. q.door # "dora" /\ q.todo = {query}
      BY <1>8, <2>5 DEF Ripe
    <3>2. "deployments" \notin done(q)
      <4>1. q.door \in Doors
        BY <1>2 DEF IsVisit
      <4>2. "deployments" \notin queries(q.door, TRUE)
        <5>1. CASE q.door \in {"events", "current"}
          <6>1. queries(q.door, TRUE) = {"types", "envs", "gate", "rows"}
            BY <4>1, <5>1, QueriesAre
          <6>2. QED
            BY <6>1
        <5>2. CASE q.door = "calendar"
          <6>1. queries(q.door, TRUE) = {"types", "envs", "joined"}
            BY <4>1, <5>2, QueriesAre
          <6>2. QED
            BY <6>1
        <5>3. CASE q.door = "tree"
          <6>1. queries(q.door, TRUE) = {"types", "companies", "products", "services", "counts"}
            BY <4>1, <5>3, QueriesAre
          <6>2. QED
            BY <6>1
        <5>4. CASE q.door = "feed"
          <6>1. queries(q.door, TRUE) = {"feed", "joined"}
            BY <4>1, <5>4, QueriesAre
          <6>2. QED
            BY <6>1
        <5>5. CASE q.door = "page"
          <6>1. queries(q.door, TRUE) = {"gate", "history", "types", "envs", "members"}
            BY <4>1, <5>5, QueriesAre
          <6>2. QED
            BY <6>1
        <5>6. QED
          BY <3>1, <4>1, <5>1, <5>2, <5>3, <5>4, <5>5 DEF Doors, doors
      <4>3. queries(q.door, q.anonymous) \subseteq queries(q.door, TRUE)
        BY DEF queries
      <4>4. QED
        BY <4>2, <4>3 DEF done
    <3>3. QED
      BY <1>7, <2>1, <2>5, <3>1, <3>2 DEF shownSoFar, added, finals
  <2>6. QED
    BY <2>2, <2>3, <2>4, <2>5 DEF finals
<1>19. ShowsAll(w)
  <2>1. SUFFICES ASSUME q.calm, NEW e \in Entries
                 PROVE  matches(e, w.ask) /\ e \in shownSoFar(w) /\ Allowed(w, e) <=> e \in w.shown
    BY <1>7 DEF ShowsAll
  <2>2. matches(e, q.ask) /\ e \in shownSoFar(q) /\ Allowed(q, e) <=> e \in q.shown
    BY <1>2, <2>1 DEF VisitInv, ShowsAll
  <2>3. CASE query \in finals
    <3>1. matches(e, q.ask) /\ e \in added(q, query) /\ Allowed(q, e) <=> e \in showsWith(v, query)
      BY <1>9, <2>1, <2>3 DEF Answers
    <3>2. QED
      BY <1>7, <1>16, <1>18, <2>2, <2>3, <3>1
  <2>4. CASE query \notin finals
    BY <1>7, <1>16, <1>18, <2>2, <2>4
  <2>5. QED
    BY <2>3, <2>4
<1>20. VisitInv(visit[v])'
  <2>1. IsVisit(visit[v])'
    BY <1>6, <1>12 DEF IsVisit
  <2>2. HasRead(visit[v])'
    BY <1>6, <1>15 DEF HasRead, Given, done
  <2>3. ShowsAllowed(visit[v])' /\ ShowsAll(visit[v])'
    BY <1>6, <1>17, <1>19 DEF ShowsAllowed, ShowsAll, Allowed, shownSoFar, aboutOf, done
  <2>4. QED
    BY <1>13, <2>1, <2>2, <2>3 DEF VisitInv
<1>21. ASSUME NEW x \in Visitors, x # v PROVE visit'[x] = NoVisit \/ VisitInv(visit[x])'
  BY <1>6, <1>10, <1>21, VisitStays DEF VisibilityInv
<1>22. visit' = [x \in Visitors |-> visit'[x]]
  BY <1>5, <1>3
<1>23. QED
  BY <1>10, <1>20, <1>21, <1>22 DEF VisibilityInv, FlagsTyped

LEMMA NoVisitIs == NoVisit.todo = {} /\ NoVisit.door = Whichever
BY DEF NoVisit

\* A request comes: nothing is read yet, everything is to be asked.
Entered(door, anonymous, ask, w) ==
    w = [todo |-> queries(door, anonymous), door |-> door, anonymous |-> anonymous, ask |-> ask,
         got |-> << >>, shown |-> {}, beside |-> {}, been |-> public, had |-> feeds, calm |-> TRUE]

LEMMA LastIsAsked ==
    ASSUME NEW door \in Doors, NEW anonymous \in BOOLEAN
    PROVE  lastOf(door) \in queries(door, anonymous)
<1>1. ASSUME NEW T, T = {"types", "envs", "gate"}, NEW D, queries(door, TRUE) = D, lastOf(door) \in D, lastOf(door) \notin T
      PROVE  lastOf(door) \in queries(door, anonymous)
  BY <1>1 DEF queries
<1>2. lastOf(door) \notin {"types", "envs", "gate"}
  BY DEF lastOf, Doors, doors
<1>3. lastOf(door) \in queries(door, TRUE)
  <2>1. CASE door \in {"events", "current"}
    <3>1. lastOf(door) = "rows" /\ queries(door, TRUE) = {"types", "envs", "gate", "rows"}
      BY <2>1, QueriesAre DEF lastOf
    <3>2. QED
      BY <3>1
  <2>2. CASE door = "calendar"
    <3>1. lastOf(door) = "joined" /\ queries(door, TRUE) = {"types", "envs", "joined"}
      BY <2>2, QueriesAre DEF lastOf
    <3>2. QED
      BY <3>1
  <2>3. CASE door = "feed"
    <3>1. lastOf(door) = "joined" /\ queries(door, TRUE) = {"feed", "joined"}
      BY <2>3, QueriesAre DEF lastOf
    <3>2. QED
      BY <3>1
  <2>4. CASE door = "dora"
    <3>1. lastOf(door) = "incidents" /\ queries(door, TRUE) = {"types", "envs", "deployments", "incidents"}
      BY <2>4, QueriesAre DEF lastOf
    <3>2. QED
      BY <3>1
  <2>5. CASE door = "tree"
    <3>1. lastOf(door) = "counts" /\ queries(door, TRUE) = {"types", "companies", "products", "services", "counts"}
      BY <2>5, QueriesAre DEF lastOf
    <3>2. QED
      BY <3>1
  <2>6. CASE door = "page"
    <3>1. lastOf(door) = "members" /\ queries(door, TRUE) = {"gate", "history", "types", "envs", "members"}
      BY <2>6, QueriesAre DEF lastOf
    <3>2. QED
      BY <3>1
  <2>7. QED
    BY <2>1, <2>2, <2>3, <2>4, <2>5, <2>6 DEF Doors, doors
<1>4. QED
  BY <1>1, <1>2, <1>3

LEMMA EnteredIs ==
    ASSUME FlagsTyped, NEW door \in Doors, NEW anonymous \in BOOLEAN, NEW ask \in Asks,
           door \in {"events", "current", "page"} => ask.service # Whichever,
           door = "feed" => anonymous,
           door = "tree" => ask.service = Whichever /\ ask.environment = Whichever,
           NEW w, Entered(door, anonymous, ask, w)
    PROVE  VisitInv(w)
<1>1. /\ HasFields(w)
      /\ w.todo = queries(door, anonymous) /\ w.door = door /\ w.anonymous = anonymous /\ w.ask = ask
      /\ w.got = << >> /\ w.shown = {} /\ w.beside = {} /\ w.been = public /\ w.had = feeds /\ w.calm = TRUE
  BY DEF Entered, HasFields
<1>2. done(w) = {}
  BY <1>1 DEF done
<1>3. IsVisit(w)
  <2>1. lastOf(w.door) \in w.todo
    BY <1>1, LastIsAsked
  <2>2. QED
    BY <1>1, <2>1 DEF IsVisit, HasFields
<1>4. Remembers(w)
  BY <1>1 DEF Remembers
<1>5. HasRead(w)
  BY <1>1, <1>2 DEF HasRead
<1>6. ShowsAllowed(w)
  BY <1>1 DEF ShowsAllowed
<1>7. ShowsAll(w)
  <2>1. w.todo # {}
    BY <1>3, <1>1, LastIsAsked
  <2>2. shownSoFar(w) = {}
    BY <1>2, <2>1 DEF shownSoFar
  <2>3. QED
    BY <1>1, <2>2 DEF ShowsAll
<1>8. QED
  BY <1>3, <1>4, <1>5, <1>6, <1>7 DEF VisitInv

LEMMA EnterStep ==
    ASSUME VisibilityInv, NEW v \in Visitors, visitDoor(v)
    PROVE  VisibilityInv'
<1>1. PICK door \in Doors, anonymous \in BOOLEAN, ask \in Asks :
         /\ enter(v, door, anonymous, ask)
         /\ door \in {"events", "current", "page"} => ask.service # Whichever
         /\ door = "feed" => anonymous
         /\ door = "tree" => ask.service = Whichever /\ ask.environment = Whichever
  <2>1. CASE \E f \in Feeds : enter(v, "feed", TRUE, f)
    <3>1. PICK f \in Feeds : enter(v, "feed", TRUE, f)
      BY <2>1
    <3>2. f \in Asks /\ "feed" \in Doors
      BY VisibilityAssumption DEF Asks, Doors
    <3>3. QED
      BY <3>1, <3>2
  <2>2. CASE \E door \in doors, anonymous \in BOOLEAN, s \in Services \cup {Whichever}, e \in Environments \cup {Whichever} :
               LET ask == [service |-> s, environment |-> e, types |-> {}]
               IN  mayAsk(door, ask) /\ enter(v, door, anonymous, ask)
    <3>1. PICK door \in doors, anonymous \in BOOLEAN, s \in Services \cup {Whichever}, e \in Environments \cup {Whichever} :
             mayAsk(door, [service |-> s, environment |-> e, types |-> {}])
             /\ enter(v, door, anonymous, [service |-> s, environment |-> e, types |-> {}])
      BY <2>2
    <3>2. PICK ask : ask = [service |-> s, environment |-> e, types |-> {}]
      OBVIOUS
    <3>3. ask \in Asks /\ door \in Doors /\ door # "feed"
      BY <3>2 DEF Asks, Doors, doors
    <3>4. mayAsk(door, ask) /\ enter(v, door, anonymous, ask)
      BY <3>1, <3>2
    <3>5. QED
      BY <3>3, <3>4 DEF mayAsk
  <2>3. QED
    BY <2>1, <2>2 DEF visitDoor
<1>2. PICK w : Entered(door, anonymous, ask, w)
  BY DEF Entered
<1>3. visit' = [visit EXCEPT ![v] = w] /\ UNCHANGED << public, feeds, console >>
  BY <1>1, <1>2 DEF enter, Entered
<1>4. VisitInv(w)
  BY <1>1, <1>2, EnteredIs DEF VisibilityInv
<1>5. visit = [x \in Visitors |-> visit[x]]
  BY DEF VisibilityInv
<1>6. visit'[v] = w /\ \A x \in Visitors : x # v => visit'[x] = visit[x]
  BY <1>3, <1>5
<1>7. VisitInv(visit[v])'
  BY <1>3, <1>4, <1>6 DEF VisitInv, IsVisit, Remembers, HasRead, ShowsAllowed, ShowsAll, Given, Allowed, shownSoFar, aboutOf, done
<1>8. ASSUME NEW x \in Visitors, x # v PROVE visit'[x] = NoVisit \/ VisitInv(visit[x])'
  BY <1>3, <1>6, <1>8, VisitStays DEF VisibilityInv
<1>9. visit' = [x \in Visitors |-> visit'[x]]
  BY <1>3, <1>5
<1>10. QED
  BY <1>3, <1>7, <1>8, <1>9 DEF VisibilityInv, FlagsTyped

\* A change: a request under way knows what was public in between.
Disturbed(v, names, with, w) ==
    w = [visit[v] EXCEPT !.been = @ \cup names, !.had = @ \cup with, !.calm = FALSE]

LEMMA DisturbedIs ==
    ASSUME NEW v \in Visitors, VisitInv(visit[v]), visit[v].todo # {}, NEW names, NEW with,
           NEW w, Disturbed(v, names, with, w)
    PROVE  /\ IsVisit(w) /\ HasRead(w) /\ ShowsAllowed(w) /\ ShowsAll(w)
           /\ names \subseteq w.been /\ with \subseteq w.had /\ ~w.calm
<1> DEFINE q == visit[v]
<1>1. /\ HasFields(w)
      /\ w.todo = q.todo /\ w.door = q.door /\ w.anonymous = q.anonymous /\ w.ask = q.ask
      /\ w.got = q.got /\ w.shown = q.shown /\ w.beside = q.beside
      /\ w.been = q.been \cup names /\ w.had = q.had \cup with /\ w.calm = FALSE
  <2>1. IsVisit(q)
    BY DEF VisitInv
  <2>2. QED
    BY <2>1 DEF IsVisit, Disturbed, HasFields
<1>2. done(w) = done(q)
  BY <1>1 DEF done
<1>3. IsVisit(w)
  <2>1. IsVisit(q)
    BY DEF VisitInv
  <2>2. QED
    BY <1>1, <2>1 DEF IsVisit, HasFields
<1>4. \A s : Given(q, s) => Given(w, s)
  BY <1>1 DEF Given
<1>5. HasRead(w)
  <2>1. /\ DOMAIN q.got = done(q)
        /\ "types" \in done(q) => q.got["types"] \subseteq q.been
        /\ "envs" \in done(q) => q.got["envs"] \subseteq q.been
        /\ "gate" \in done(q) => (q.got["gate"] => hierarchyOf(q.ask.service) \subseteq q.been)
        /\ "feed" \in done(q) => (q.got["feed"] => q.ask \in q.had)
        /\ "history" \in done(q) =>
              /\ q.got["history"] \subseteq Entries
              /\ \A e \in q.got["history"] : matches(e, q.ask) /\ Given(q, hierarchyOf(e.service))
        /\ "companies" \in done(q) => \A c \in q.got["companies"] : Given(q, {c})
        /\ "products" \in done(q) => \A p \in q.got["products"] : Given(q, {p, CompanyOf[p]})
        /\ "services" \in done(q) => \A s \in q.got["services"] : Given(q, hierarchyOf(s))
    BY DEF VisitInv, HasRead
  <2>2. /\ DOMAIN w.got = done(w)
        /\ "types" \in done(w) => w.got["types"] \subseteq w.been
        /\ "envs" \in done(w) => w.got["envs"] \subseteq w.been
        /\ "gate" \in done(w) => (w.got["gate"] => hierarchyOf(w.ask.service) \subseteq w.been)
        /\ "feed" \in done(w) => (w.got["feed"] => w.ask \in w.had)
    BY <1>1, <1>2, <2>1
  <2>3. /\ "history" \in done(w) =>
              /\ w.got["history"] \subseteq Entries
              /\ \A e \in w.got["history"] : matches(e, w.ask) /\ Given(w, hierarchyOf(e.service))
        /\ "companies" \in done(w) => \A c \in w.got["companies"] : Given(w, {c})
        /\ "products" \in done(w) => \A p \in w.got["products"] : Given(w, {p, CompanyOf[p]})
        /\ "services" \in done(w) => \A s \in w.got["services"] : Given(w, hierarchyOf(s))
    BY <1>1, <1>2, <1>4, <2>1
  <2>4. ~w.calm
    BY <1>1
  <2>5. QED
    BY <2>2, <2>3, <2>4 DEF HasRead
<1>6. \A e : Allowed(q, e) => Allowed(w, e)
  BY <1>1 DEF Allowed
<1>7. ShowsAllowed(w)
  BY <1>1, <1>6 DEF VisitInv, ShowsAllowed
<1>8. ShowsAll(w)
  BY <1>1 DEF ShowsAll
<1>9. QED
  BY <1>1, <1>3, <1>5, <1>7, <1>8

LEMMA SetStep ==
    ASSUME VisibilityInv, NEW names \in SUBSET (Flagged \cup Types), NEW with \in SUBSET Feeds, set(names, with),
           console' \in [Consoles -> SUBSET Types]
    PROVE  VisibilityInv'
<1>1. public' = names /\ feeds' = with
  BY DEF set
<1>2. visit' = [v \in Visitors |-> visit'[v]]
  BY DEF set
<1>3. ASSUME NEW v \in Visitors PROVE visit'[v] = NoVisit \/ VisitInv(visit[v])'
  <2>1. CASE visit[v].todo = {}
    <3>1. visit'[v] = visit[v]
      BY <2>1 DEF set
    <3>2. ASSUME VisitInv(visit[v]) PROVE VisitInv(visit[v])'
      BY <2>1, <3>1, <3>2
         DEF VisitInv, IsVisit, Remembers, HasRead, ShowsAllowed, ShowsAll, Given, Allowed, shownSoFar, aboutOf, done
    <3>3. QED
      BY <3>1, <3>2 DEF VisibilityInv
  <2>2. CASE visit[v].todo # {}
    <3>1. VisitInv(visit[v])
      BY <2>2 DEF VisibilityInv, NoVisit
    <3>2. PICK w : Disturbed(v, names, with, w)
      BY DEF Disturbed
    <3>3. visit'[v] = w
      BY <2>2, <3>2 DEF set, Disturbed
    <3>4. /\ IsVisit(w) /\ HasRead(w) /\ ShowsAllowed(w) /\ ShowsAll(w)
          /\ names \subseteq w.been /\ with \subseteq w.had /\ ~w.calm
      BY <2>2, <3>1, <3>2, DisturbedIs
    <3>5. IsVisit(visit[v])' /\ HasRead(visit[v])' /\ ShowsAllowed(visit[v])' /\ ShowsAll(visit[v])'
      BY <3>3, <3>4 DEF IsVisit, HasRead, ShowsAllowed, ShowsAll, Given, Allowed, shownSoFar, aboutOf, done
    <3>6. Remembers(visit[v])'
      BY <1>1, <3>3, <3>4 DEF Remembers
    <3>7. QED
      BY <3>5, <3>6 DEF VisitInv
  <2>3. QED
    BY <2>1, <2>2
<1>4. FlagsTyped'
  BY <1>1 DEF FlagsTyped
<1>5. QED
  BY <1>2, <1>3, <1>4 DEF VisibilityInv

-----------------------------------------------------------------------------
(***************************************************************************)
(* The invariant.                                                          *)
(***************************************************************************)
LEMMA VisibilityInitInv ==
    ASSUME VisibilityInit
    PROVE  VisibilityInv
<1>1. public \subseteq Flagged \cup Types
  BY DEF VisibilityInit, DEFAULT_PUBLIC_TYPES, Types
<1>2. console \in [Consoles -> SUBSET Types]
  BY DEF VisibilityInit, DEFAULT_PUBLIC_TYPES, Types
<1>3. QED
  BY <1>1, <1>2 DEF VisibilityInit, VisibilityInv, FlagsTyped

LEMMA VisibilityStep ==
    ASSUME VisibilityInv, [VisibilityNext]_visibilityVars
    PROVE  VisibilityInv'
<1>1. public \subseteq Flagged \cup Types /\ feeds \subseteq Feeds /\ console \in [Consoles -> SUBSET Types]
  BY DEF VisibilityInv, FlagsTyped
<1>2. CASE UNCHANGED visibilityVars
  BY <1>2 DEF visibilityVars, VisibilityInv, FlagsTyped, VisitInv, IsVisit, Remembers, HasRead, ShowsAllowed, ShowsAll,
              Given, Allowed, shownSoFar, aboutOf, done
<1>3. ASSUME NEW v \in Visitors, visitDoor(v) PROVE VisibilityInv'
  BY <1>3, EnterStep
<1>4. ASSUME NEW v \in Visitors, readNext(v) PROVE VisibilityInv'
  BY <1>4, ReadStep
<1>5. ASSUME NEW name \in Flagged, patch(name) PROVE VisibilityInv'
  <2>1. PICK names \in SUBSET (Flagged \cup Types) : set(names, feeds)
    BY <1>1, <1>5 DEF patch
  <2>2. console' = console
    BY <1>5 DEF patch
  <2>3. QED
    BY <1>1, <2>1, <2>2, SetStep
<1>6. ASSUME NEW c \in Consoles, openConsole(c) PROVE VisibilityInv'
  <2>1. console' \in [Consoles -> SUBSET Types]
    BY <1>1, <1>6 DEF openConsole, getPublicEventTypes
  <2>2. UNCHANGED << public, feeds, visit >>
    BY <1>6 DEF openConsole
  <2>3. QED
    BY <2>1, <2>2 DEF VisibilityInv, FlagsTyped, VisitInv, IsVisit, Remembers, HasRead, ShowsAllowed, ShowsAll,
              Given, Allowed, shownSoFar, aboutOf, done
<1>7. ASSUME NEW c \in Consoles, NEW type \in Types, toggleType(c, type) PROVE VisibilityInv'
  <2>1. PICK next \in SUBSET Types : /\ setPublicEventTypes(next)
                                     /\ console' = [console EXCEPT ![c] = next]
    BY <1>1, <1>7 DEF toggleType
  <2>2. set((public \ Types) \cup next, feeds)
    BY <2>1 DEF setPublicEventTypes
  <2>3. (public \ Types) \cup next \in SUBSET (Flagged \cup Types)
    BY <1>1
  <2>4. console' \in [Consoles -> SUBSET Types]
    BY <1>1, <2>1
  <2>5. QED
    BY <1>1, <2>2, <2>3, <2>4, SetStep
<1>8. ASSUME NEW f \in Feeds, createCalendarFeed(f) \/ deleteCalendarFeed(f) PROVE VisibilityInv'
  <2>1. PICK with \in SUBSET Feeds : set(public, with)
    BY <1>1, <1>8 DEF createCalendarFeed, deleteCalendarFeed
  <2>2. console' = console
    BY <1>8 DEF createCalendarFeed, deleteCalendarFeed
  <2>3. QED
    BY <1>1, <2>1, <2>2, SetStep
<1>9. QED
  BY <1>2, <1>3, <1>4, <1>5, <1>6, <1>7, <1>8 DEF VisibilityNext

\* However changes fall between its queries, what a request has read is worth what its
\* door makes of it (lib/visibility.ts, lib/apiVisibility.ts).
THEOREM VisibilityInvariant == VisibilitySpec => []VisibilityInv
<1>1. VisibilityInit => VisibilityInv
  BY VisibilityInitInv
<1>2. VisibilityInv /\ [VisibilityNext]_visibilityVars => VisibilityInv'
  BY VisibilityStep
<1>3. QED
  BY <1>1, <1>2, PTL DEF VisibilitySpec

LEMMA VisitedHolds ==
    ASSUME VisibilityInv, NEW v \in visited
    PROVE  v \in Visitors /\ VisitInv(visit[v])
BY NoVisitIs DEF VisibilityInv, visited

\* The types of the variables and what each request shows (the events of the program).
THEOREM VisitsHaveTheirTypes == VisibilitySpec => []VisibilityTypeOK
<1>1. ASSUME VisibilityInv PROVE VisibilityTypeOK
  <2>1. \A v \in visited : visit[v].shown \cup visit[v].beside \subseteq Entries
    BY <1>1, VisitedHolds DEF VisitInv, IsVisit
  <2>2. QED
    BY <1>1, <2>1 DEF VisibilityInv, FlagsTyped, VisibilityTypeOK
<1>2. QED
  BY <1>1, VisibilityInvariant, PTL

\* However the administrators' changes fall between the queries of a door, without a session
\* it shows no event of which something it must ask was not public at some time since the
\* request came: the whole documented rule at a service's events, at the list of its page
\* and in the calendar (lib/apiVisibility.ts, page.tsx, calendarQuery.ts), and at the others
\* what they do ask.
THEOREM OnlyPublicShows == VisibilitySpec => []OnlyPublicIsShown
<1>1. ASSUME VisibilityInv PROVE OnlyPublicIsShown
  <2>1. ASSUME NEW v \in visited, visit[v].anonymous, NEW e \in visit[v].shown
        PROVE  IF visit[v].door = "feed" THEN visit[v].ask \in visit[v].had
               ELSE asksOf(visit[v].door, e) \subseteq visit[v].been
    <3>1. VisitInv(visit[v])
      BY <1>1, VisitedHolds
    <3>2. Allowed(visit[v], e)
      BY <2>1, <3>1 DEF VisitInv, ShowsAllowed
    <3>3. QED
      BY <2>1, <3>2 DEF Allowed
  <2>2. \A v \in visited : v \in Visitors
    BY DEF visited
  <2>3. QED
    BY <2>1, <2>2 DEF OnlyPublicIsShown
<1>2. QED
  BY <1>1, VisibilityInvariant, PTL

\* What the documented rule lets a door show.
Due(q, e) == q.anonymous => IF q.door = "feed" THEN q.ask \in q.had ELSE needs(e) \subseteq q.been

LEMMA DueIsAllowed ==
    /\ \A q, e : Due(q, e) => Allowed(q, e)
    /\ \A q, e : ~q.anonymous \/ q.door \notin {"current", "dora", "tree"} => (Allowed(q, e) => Due(q, e))
<1>1. /\ \A door, e : asksOf(door, e) \subseteq needs(e)
      /\ \A door, e : door \notin {"current", "dora", "tree"} => asksOf(door, e) = needs(e)
  BY DEF asksOf, needs
<1>2. QED
  BY <1>1 DEF Due, Allowed

\* A request that no change disturbed misses nothing that the documented rule lets its door
\* show of what it asks; and with a session, or where the whole rule is asked, it shows
\* nothing else (lib/apiVisibility.ts, page.tsx, calendarQuery.ts, doraQuery.ts, tree.ts).
THEOREM CalmShowsAll == VisibilitySpec => []CalmDoorsShowAll
<1>1. ASSUME VisibilityInv, NEW v \in visited, visit[v].todo = {}, visit[v].calm
      PROVE  visit[v].shown = {e \in asked(v) : e \in aboutOf(visit[v]) /\ Allowed(visit[v], e)}
  <2>1. VisitInv(visit[v])
    BY <1>1, VisitedHolds
  <2>2. visit[v].shown \subseteq Entries /\ shownSoFar(visit[v]) = aboutOf(visit[v])
    BY <1>1, <2>1 DEF VisitInv, IsVisit, shownSoFar
  <2>3. \A e \in Entries : matches(e, visit[v].ask) /\ e \in aboutOf(visit[v]) /\ Allowed(visit[v], e)
                              <=> e \in visit[v].shown
    BY <1>1, <2>1, <2>2 DEF VisitInv, ShowsAll
  <2>4. asked(v) = {e \in Entries : matches(e, visit[v].ask)}
    BY DEF asked
  <2>5. QED
    BY <2>2, <2>3, <2>4
<1>2. ASSUME VisibilityInv, NEW v \in visited, visit[v].todo = {}, visit[v].calm
      PROVE  LET q == visit[v]
                 due == {e \in asked(v) : e \in about(q.door, q.ask) /\ Due(q, e)}
             IN  /\ due \subseteq q.shown
                 /\ ~q.anonymous \/ q.door \notin {"current", "dora", "tree"} => q.shown \subseteq due
  <2> DEFINE q == visit[v]
  <2>1. q.shown = {e \in asked(v) : e \in about(q.door, q.ask) /\ Allowed(q, e)}
    BY <1>1, <1>2 DEF aboutOf
  <2>2. QED
    BY <2>1, DueIsAllowed
<1>3. ASSUME VisibilityInv PROVE CalmDoorsShowAll
  BY <1>2, <1>3 DEF CalmDoorsShowAll, Due
<1>4. QED
  BY <1>3, VisibilityInvariant, PTL

================================================================================
