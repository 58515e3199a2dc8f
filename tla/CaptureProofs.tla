---------------------------- MODULE CaptureProofs ----------------------------
(***************************************************************************)
(* What a capture promises, for every server it may find, whatever the     *)
(* user does to it meanwhile: its rows always fold, its graph is the       *)
(* server as it was listed, what it lacks of a pane is gone, and what is   *)
(* saved of it is what is read back, whatever the disk does to the file.   *)
(* The text it keeps of a pane is that pane's, even if it was read before. *)
(***************************************************************************)
EXTENDS SaveAndLoad, FormatProofs

(***************************************************************************)
(* The inductive invariant.                                                *)
(***************************************************************************)
Held == looked[1]

\* The connection is to this server or to an earlier one.
LinkedToOne ==
    link # None =>
        /\ link = Some(link[1]) /\ link[1] \in [pid : Nat, start : Nat]
        /\ link[1].pid <= server.id.pid

\* The rows are those of the server the capture is connected to.
LookedOnce ==
    looked # None =>
        /\ looked = Some(Held) /\ IsServer(Held)
        /\ rows = ListPanes(Held) /\ link = Some(Held.id)

\* A pane of then that is there now was there all along, and its process is
\* the same unless it counts more turns.
SameSince(then, now, p) ==
    /\ p \in DOMAIN then.panes
    /\ then.panes[p].process.turns <= now.panes[p].process.turns
    /\ then.panes[p].process.turns = now.panes[p].process.turns
          => then.panes[p].process = now.panes[p].process

IsLater(then, now) ==
    /\ then.fresh <= now.fresh
    /\ \A p \in DOMAIN now.panes : p < then.fresh => SameSince(then, now, p)

NothingComesBack == looked # None /\ IsConnected => IsLater(Held, server)

IsUndisturbed(p) == server.panes[p].process = Held.panes[p].process

IsFound(p) == IsConnected /\ p \in DOMAIN server.panes

SeenRightly(p, foreground) ==
    IsUndisturbed(p) => foreground \in {ForegroundSeen(server.panes[p].process),
                                        Unrecovered("Os")}

\* What was read of a pane that is still there.
ReadWell(p) ==
    IsFound(p) =>
        /\ reads[p].content.is # "not captured"
        /\ SeenRightly(p, reads[p].foreground)

PaneStages == {"group", "leader", "scrollback", "visible"}

IdsOf(listing) == {row.pane_id : row \in ToSet(listing)}

\* Every pane listed is read, or is still to be.
ReadInTurn ==
    looked # None =>
        /\ DOMAIN reads \subseteq DOMAIN Held.panes
        /\ \A p \in DOMAIN reads : ReadWell(p)
        /\ stage \in PaneStages =>
              /\ todo \in Seq(ToSet(rows))
              /\ IdsOf(rows) \subseteq DOMAIN reads \cup IdsOf(todo)

\* How far it has come with a pane.
PaneAtStage ==
    /\ stage = "group" => pane = Unread
    /\ stage \in {"leader", "scrollback", "visible"} => todo # <<>>
    /\ stage \in {"leader", "scrollback"} => pane.failed = FALSE
    /\ stage = "leader" =>
          /\ pane.group.holder \notin {"dead", "nobody"}
          /\ IsFound(Here) /\ IsUndisturbed(Here) => pane.group = Process
    /\ stage \in {"scrollback", "visible"} /\ IsFound(Here) =>
          SeenRightly(Here, pane.foreground)
    /\ stage = "visible" /\ IsFound(Here) => pane.failed = FALSE
    /\ stage \in PaneStages => DOMAIN pane = DOMAIN Unread

\* A snapshot is the fold of what was listed and read.
IsOutcome(s) ==
    /\ looked # None /\ IdsOf(rows) \subseteq DOMAIN reads
    /\ Fold(rows, reads) # None
    /\ s.windows = Fold(rows, reads)[1].windows
    /\ s.sessions = Fold(rows, reads)[1].sessions
    /\ s.clients = clients
    /\ IsSnapshot(s.windows, s.sessions, s.clients)

SnapshotAtLast ==
    snapshot # None =>
        stage = "over" /\ snapshot = Some(snapshot[1]) /\ IsOutcome(snapshot[1])

InStages ==
    /\ stage \in {"idle", "panes"} =>
          /\ looked = None /\ reads = <<>> /\ pane = Unread /\ failure = "none"
    /\ stage \in {"clients", "mark", "id"} =>
          looked # None /\ reads = <<>> /\ pane = Unread
    /\ stage \in PaneStages => looked # None

IInv ==
    /\ TypeOK
    /\ IsServer(server)
    /\ LinkedToOne /\ LookedOnce /\ NothingComesBack
    /\ InStages /\ ReadInTurn /\ PaneAtStage /\ SnapshotAtLast

-----------------------------------------------------------------------------
(***************************************************************************)
(* Sets in order, and the elements of a sequence at some places.           *)
(***************************************************************************)
\* A strict order that compares any two elements.
IsTotalOrder(S, before) ==
    /\ \A x \in S : <<x, x>> \notin before
    /\ \A x, y, z \in S :
          <<x, y>> \in before /\ <<y, z>> \in before => <<x, z>> \in before
    /\ \A x, y \in S : x # y => <<x, y>> \in before \/ <<y, x>> \in before

\* f lists each element of S once.
Enumerates(f, S) ==
    /\ f \in [1 .. Cardinality(S) -> S]
    /\ \A x \in S : \E k \in 1 .. Cardinality(S) : f[k] = x
    /\ \A j, k \in 1 .. Cardinality(S) : f[j] = f[k] => j = k

\* A finite set in order is the set, each element once, the earlier first:
\* as many elements have fewer than k before them as there are numbers to k.
LEMMA InOrderFacts ==
    ASSUME NEW S, IsFiniteSet(S), NEW before, IsTotalOrder(S, before)
    PROVE  /\ Cardinality(S) \in Nat
           /\ Enumerates(InOrder(S, before), S)
           /\ \A j, k \in 1 .. Cardinality(S) :
                 <<InOrder(S, before)[j], InOrder(S, before)[k]>> \in before => j < k
  <1> DEFINE n == Cardinality(S)
             Under(x) == {y \in S : <<y, x>> \in before}
             rank == [x \in S |-> Cardinality(Under(x))]
             order == InOrder(S, before)
  <1>1. n \in Nat
    BY FS_CardinalityType
  <1>2. ASSUME NEW x \in S
        PROVE  IsFiniteSet(Under(x)) /\ Cardinality(Under(x)) \in 0 .. n - 1
    <2>1. Under(x) \in SUBSET S /\ Under(x) # S
      BY DEF IsTotalOrder
    <2> HIDE DEF Under
    <2>2. IsFiniteSet(Under(x)) /\ Cardinality(Under(x)) <= n /\ Cardinality(Under(x)) # n
      BY <2>1, FS_Subset
    <2>3. Cardinality(Under(x)) \in Nat
      BY <2>2, FS_CardinalityType
    <2> QED
      BY <1>1, <2>2, <2>3
  <1>3. ASSUME NEW x \in S, NEW y \in S, <<x, y>> \in before
        PROVE  rank[x] < rank[y]
    <2>1. x \notin Under(x) /\ Under(x) \cup {x} \in SUBSET Under(y)
      BY <1>3 DEF IsTotalOrder
    <2>2. rank[x] = Cardinality(Under(x)) /\ rank[y] = Cardinality(Under(y))
      OBVIOUS
    <2> HIDE DEF Under, rank
    <2>3. Cardinality(Under(x) \cup {x}) = Cardinality(Under(x)) + 1
      BY <1>2, <2>1, FS_AddElement
    <2>4. Cardinality(Under(x) \cup {x}) <= Cardinality(Under(y))
      BY <1>2, <2>1, FS_Subset
    <2>5. Cardinality(Under(x)) \in Nat /\ Cardinality(Under(y)) \in Nat
      BY <1>2
    <2> QED
      BY <2>2, <2>3, <2>4, <2>5
  <1>4. rank \in Injection(S, 0 .. n - 1)
    <2>1. rank \in [S -> 0 .. n - 1]
      BY <1>2
    <2>2. ASSUME NEW x \in S, NEW y \in S, rank[x] = rank[y]
          PROVE  x = y
      <3>1. rank[x] \in Nat
        BY <2>1
      <3> HIDE DEF rank
      <3>2. <<x, y>> \notin before /\ <<y, x>> \notin before
        BY <1>3, <2>2, <3>1
      <3> QED
        BY <3>2 DEF IsTotalOrder
    <2> HIDE DEF rank
    <2> QED
      BY <2>1, <2>2 DEF Injection, IsInjective
  <1>5. IsFiniteSet(0 .. n - 1) /\ Cardinality(0 .. n - 1) = n
    <2> HIDE DEF n
    <2>1. 0 \in Int /\ n - 1 \in Int
      BY <1>1
    <2>2. Cardinality(0 .. n - 1) = IF 0 > n - 1 THEN 0 ELSE n - 1 - 0 + 1
      BY <2>1, FS_Interval
    <2> QED
      BY <1>1, <2>1, <2>2, FS_Interval
  <1>6. rank \in Surjection(S, 0 .. n - 1)
    <2> HIDE DEF rank, n
    <2>1. Cardinality(S) = Cardinality(0 .. n - 1)
      BY <1>5 DEF n
    <2> QED
      BY <1>4, <1>5, <2>1, FS_Injection
  <1>7. ASSUME NEW k \in 1..n
        PROVE  order[k] \in S /\ rank[order[k]] = k - 1
    <2>1. k - 1 \in 0 .. n - 1
      BY <1>1
    <2>2. \E x \in S : rank[x] = k - 1
      <3> HIDE DEF rank
      <3> QED
        BY <1>6, <2>1 DEF Surjection
    <2>3. \E x \in S : Cardinality(Under(x)) = k - 1
      BY <2>2
    <2>4. order[k] = CHOOSE x \in S : Cardinality(Under(x)) = k - 1
      BY DEF InOrder
    <2> HIDE DEF order, Under
    <2>5. order[k] \in S /\ Cardinality(Under(order[k])) = k - 1
      BY <2>3, <2>4
    <2> QED
      BY <2>5
  <1>8. order \in [1..n -> S]
    <2> DEFINE Pick(k) == CHOOSE x \in S : Cardinality(Under(x)) = k - 1
    <2>1. order = [k \in 1..n |-> Pick(k)]
      BY DEF InOrder
    <2> HIDE DEF order, Pick, n
    <2> QED
      BY <1>7, <2>1
  <1> HIDE DEF order, rank
  <1>9. ASSUME NEW x \in S
        PROVE  \E k \in 1..n : order[k] = x
    <2>1. rank[x] \in 0 .. n - 1
      BY <1>4 DEF Injection
    <2>2. PICK k \in 1..n : rank[x] = k - 1
      <3>1. rank[x] + 1 \in 1..n /\ rank[x] = (rank[x] + 1) - 1
        BY <1>1, <2>1
      <3> QED
        BY <3>1
    <2>3. rank[order[k]] = rank[x] /\ order[k] \in S
      BY <1>7, <2>2
    <2> QED
      BY <1>4, <2>3 DEF Injection, IsInjective
  <1>10. ASSUME NEW j \in 1..n, NEW k \in 1..n, order[j] = order[k]
         PROVE  j = k
    <2>1. j - 1 = k - 1
      BY <1>7, <1>10
    <2> QED
      BY <2>1
  <1>11. ASSUME NEW j \in 1..n, NEW k \in 1..n, <<order[j], order[k]>> \in before
         PROVE  j < k
    <2>1. rank[order[j]] < rank[order[k]]
      BY <1>3, <1>7, <1>11
    <2>2. j - 1 < k - 1
      BY <1>7, <2>1
    <2> QED
      BY <2>2
  <1> QED
    BY <1>1, <1>8, <1>9, <1>10, <1>11 DEF Enumerates, order

\* Numbers in order come smallest first.
LEMMA AscendingFacts ==
    ASSUME NEW S \in SUBSET Nat, IsFiniteSet(S)
    PROVE  /\ Cardinality(S) \in Nat
           /\ Enumerates(Ascending(S), S)
           /\ \A j, k \in 1 .. Cardinality(S) :
                 j < k => Ascending(S)[j] < Ascending(S)[k]
  <1> DEFINE before == {p \in S \X S : p[1] < p[2]}
             order == InOrder(S, before)
  <1>1. \A x, y \in S : <<x, y>> \in before <=> x < y
    OBVIOUS
  <1>2. order = Ascending(S)
    BY DEF Ascending
  <1>3. \A p \in before : p = <<p[1], p[2]>> /\ p[1] \in S /\ p[2] \in S
    OBVIOUS
  <1> HIDE DEF before
  <1>4. IsTotalOrder(S, before)
    BY <1>1 DEF IsTotalOrder
  <1>5. /\ Cardinality(S) \in Nat
        /\ Enumerates(order, S)
        /\ \A j, k \in 1 .. Cardinality(S) : <<order[j], order[k]>> \in before => j < k
    BY <1>4, InOrderFacts
  <1> HIDE DEF order
  <1>6. ASSUME NEW j \in 1 .. Cardinality(S), NEW k \in 1 .. Cardinality(S), j < k
        PROVE  order[j] < order[k]
    <2>1. order[j] \in S /\ order[k] \in S /\ order[j] # order[k]
      BY <1>5, <1>6 DEF Enumerates
    <2>2. ~ order[k] < order[j]
      <3> SUFFICES ASSUME order[k] < order[j]
                   PROVE  FALSE
        OBVIOUS
      <3>1. <<order[k], order[j]>> \in before
        BY <1>1, <2>1
      <3>2. k < j
        BY <1>5, <3>1
      <3>3. j \in Nat /\ k \in Nat
        BY <1>5
      <3> QED
        BY <1>6, <3>2, <3>3
    <2>3. order[j] \in Nat /\ order[k] \in Nat
      BY <2>1
    <2> QED
      BY <2>1, <2>2, <2>3
  <1> QED
    BY <1>2, <1>5, <1>6

\* A function on 1..m is a sequence of that length.
LEMMA FunctionIsSeq ==
    ASSUME NEW m \in Nat, NEW T, NEW f \in [1..m -> T]
    PROVE  f \in Seq(T) /\ Len(f) = m /\ DOMAIN f = 1..m
  OBVIOUS

\* Picks the elements of s at the places that e lists, in order.
Picks(e, s, places, picked) ==
    /\ Enumerates(e, places)
    /\ \A j, k \in 1 .. Cardinality(places) : j < k => e[j] < e[k]
    /\ picked = [k \in 1 .. Cardinality(places) |-> s[e[k]]]

\* At returns the elements at those places, each once.
LEMMA AtFacts ==
    ASSUME NEW T, NEW s \in Seq(T), NEW places \in SUBSET DOMAIN s
    PROVE  /\ IsFiniteSet(places) /\ Cardinality(places) \in Nat
           /\ At(s, places) \in Seq(T) /\ Len(At(s, places)) = Cardinality(places)
           /\ \E e : Picks(e, s, places, At(s, places))
  <1> DEFINE order == Ascending(places)
             n == Cardinality(places)
  <1>1. IsFiniteSet(DOMAIN s) /\ DOMAIN s \in SUBSET Nat
    <2>1. DOMAIN s = 1 .. Len(s) /\ Len(s) \in Nat
      OBVIOUS
    <2> QED
      BY <2>1, FS_Interval
  <1>2. IsFiniteSet(places) /\ places \in SUBSET Nat
    BY <1>1, FS_Subset
  <1>3. /\ n \in Nat /\ Enumerates(order, places)
        /\ \A j, k \in 1..n : j < k => order[j] < order[k]
    BY <1>2, AscendingFacts
  <1>4. DOMAIN order = 1..n /\ \A k \in 1..n : order[k] \in DOMAIN s
    BY <1>3 DEF Enumerates
  <1>5. At(s, places) = [k \in 1..n |-> s[order[k]]]
    BY <1>4 DEF At
  <1>6. \A k \in 1..n : s[order[k]] \in T
    BY <1>4
  <1> HIDE DEF order
  <1>7. At(s, places) \in [1..n -> T]
    BY <1>5, <1>6
  <1>8. At(s, places) \in Seq(T) /\ Len(At(s, places)) = n
    BY <1>3, <1>7, FunctionIsSeq
  <1>9. Picks(order, s, places, At(s, places))
    BY <1>3, <1>5 DEF Picks
  <1> QED
    BY <1>2, <1>3, <1>8, <1>9

\* The places of the rows that have what row i has in some fields.
Alike(listing, fields, i) ==
    {j \in DOMAIN listing : Key(listing[j], fields) = Key(listing[i], fields)}

\* Each group holds the rows alike, and begins with the first of them.
GroupsBy(first, listing, fields, groups) ==
    /\ groups = [g \in 1 .. Len(groups) |-> At(listing, Alike(listing, fields, first[g]))]
    /\ \A g \in 1 .. Len(groups) :
          /\ first[g] \in DOMAIN listing
          /\ \A j \in Alike(listing, fields, first[g]) : first[g] <= j
    /\ \A i \in DOMAIN listing :
          \E g \in 1 .. Len(groups) : first[g] \in Alike(listing, fields, i)
    /\ \A g, h \in 1 .. Len(groups) :
          first[g] \in Alike(listing, fields, first[h]) => g = h

\* Rows are in one group if they are alike, in another if they are not.
LEMMA GroupByFacts ==
    ASSUME NEW T, NEW listing \in Seq(T), NEW fields
    PROVE  /\ Len(GroupBy(listing, fields)) \in Nat
           /\ \E first : GroupsBy(first, listing, fields, GroupBy(listing, fields))
  <1> DEFINE Like(i) == Alike(listing, fields, i)
             firsts == {i \in DOMAIN listing : \A j \in Like(i) : i <= j}
             order == Ascending(firsts)
             n == Cardinality(firsts)
             groups == GroupBy(listing, fields)
  <1>1. DOMAIN listing = 1 .. Len(listing) /\ Len(listing) \in Nat
    OBVIOUS
  <1>2. firsts \in SUBSET Nat /\ IsFiniteSet(firsts)
    <2>1. IsFiniteSet(DOMAIN listing)
      BY <1>1, FS_Interval
    <2>2. firsts \in SUBSET DOMAIN listing
      OBVIOUS
    <2> HIDE DEF firsts
    <2> QED
      BY <1>1, <2>1, <2>2, FS_Subset
  <1>3. n \in Nat /\ Enumerates(order, firsts)
    <2> HIDE DEF firsts
    <2> QED
      BY <1>2, AscendingFacts
  <1>4. groups = [g \in DOMAIN order |-> At(listing, Like(order[g]))]
    BY DEF GroupBy, Alike
  <1>5. DOMAIN order = 1..n /\ \A g \in 1..n : order[g] \in firsts
    BY <1>3 DEF Enumerates
  <1> HIDE DEF order, groups
  <1>6. groups = [g \in 1..n |-> At(listing, Like(order[g]))]
    BY <1>4, <1>5
  <1>7. ASSUME NEW g \in 1..n
        PROVE  At(listing, Like(order[g])) \in Seq(T)
    <2>1. Like(order[g]) \in SUBSET DOMAIN listing
      BY DEF Alike
    <2> QED
      BY <2>1, AtFacts
  <1>8. Len(groups) = n
    <2>1. groups \in [1..n -> Seq(T)]
      <3> HIDE DEF n, Like
      <3> QED
        BY <1>6, <1>7
    <2> HIDE DEF n
    <2> QED
      BY <1>3, <2>1, FunctionIsSeq
  <1>9. ASSUME NEW i \in DOMAIN listing
        PROVE  \E g \in 1..n : order[g] \in Like(i)
    <2>1. Like(i) \in SUBSET Nat /\ i \in Like(i)
      BY <1>1 DEF Alike
    <2> HIDE DEF Like
    <2>2. PICK m \in Like(i) : \A j \in Like(i) : m <= j
      BY <2>1, LeastElement
    <2>3. m \in firsts
      BY <2>2 DEF Like, Alike
    <2>4. PICK g \in 1..n : order[g] = m
      BY <1>3, <2>3 DEF Enumerates
    <2> QED
      BY <2>2, <2>4
  <1>10. ASSUME NEW g \in 1..n, NEW h \in 1..n, order[g] \in Like(order[h])
         PROVE  g = h
    <2>1. order[g] \in firsts /\ order[h] \in firsts
      BY <1>5
    <2>2. order[h] \in Like(order[g])
      BY <1>10, <2>1 DEF Alike
    <2>3. order[g] <= order[h] /\ order[h] <= order[g]
      BY <1>10, <2>1, <2>2
    <2>4. order[g] \in Nat /\ order[h] \in Nat
      BY <1>1, <2>1
    <2>5. order[g] = order[h]
      BY <2>3, <2>4
    <2> QED
      BY <1>3, <2>5 DEF Enumerates
  <1>11. GroupsBy(order, listing, fields, groups)
    <2>1. \A g \in 1..n : order[g] \in DOMAIN listing /\ \A j \in Like(order[g]) : order[g] <= j
      BY <1>5
    <2> HIDE DEF n, firsts
    <2> QED
      BY <1>6, <1>8, <1>9, <1>10, <2>1 DEF GroupsBy
  <1> QED
    BY <1>3, <1>8, <1>11 DEF groups

\* A set that n numbers list, each element once, has n elements.
LEMMA Counted ==
    ASSUME NEW n \in Nat, NEW S, NEW f \in [1..n -> S],
           \A x \in S : \E k \in 1..n : f[k] = x,
           \A j, k \in 1..n : f[j] = f[k] => j = k
    PROVE  IsFiniteSet(S) /\ Cardinality(S) = n /\ Enumerates(f, S)
  <1>1. f \in Bijection(1..n, S)
    BY DEF Bijection, Injection, Surjection, IsInjective
  <1>2. ExistsBijection(1..n, S)
    BY <1>1 DEF ExistsBijection
  <1>3. IsFiniteSet(1..n) /\ Cardinality(1..n) = n
    <2>1. Cardinality(1..n) = IF 1 > n THEN 0 ELSE n - 1 + 1
      BY FS_Interval
    <2> QED
      BY <2>1, FS_Interval
  <1>4. IsFiniteSet(S) /\ Cardinality(S) = n
    BY <1>2, <1>3, FS_Bijection
  <1> QED
    BY <1>4 DEF Enumerates

\* From what b lists, each once, e picks at some places.
PicksFrom(n, b, e, places, picked, Q) ==
    /\ \A j, k \in 1..n : b[j] = b[k] => j = k
    /\ places \in SUBSET 1..n /\ IsFiniteSet(places) /\ Enumerates(e, places)
    /\ \A x \in Q : \E i \in places : b[i] = x
    /\ picked \in [1 .. Cardinality(places) -> Q]
    /\ \A k \in 1 .. Cardinality(places) : picked[k] = b[e[k]]

\* The elements picked are as many as the places.
LEMMA PickedAreCounted ==
    ASSUME NEW n, NEW b, NEW e, NEW places, NEW picked, NEW Q,
           PicksFrom(n, b, e, places, picked, Q)
    PROVE  IsFiniteSet(Q) /\ Cardinality(Q) = Cardinality(places) /\ Enumerates(picked, Q)
  <1> DEFINE m == Cardinality(places)
  <1>1. m \in Nat
    BY FS_CardinalityType DEF PicksFrom
  <1>2. /\ \A k \in 1..m : e[k] \in places
        /\ \A x \in places : \E k \in 1..m : e[k] = x
        /\ \A j, k \in 1..m : e[j] = e[k] => j = k
    BY DEF PicksFrom, Enumerates
  <1>3. /\ picked \in [1..m -> Q] /\ \A k \in 1..m : picked[k] = b[e[k]]
        /\ \A x \in Q : \E i \in places : b[i] = x
    BY DEF PicksFrom
  <1> HIDE DEF m
  <1>4. \A x \in Q : \E k \in 1..m : picked[k] = x
    BY <1>2, <1>3
  <1>5. ASSUME NEW j \in 1..m, NEW k \in 1..m, picked[j] = picked[k]
        PROVE  j = k
    <2>1. b[e[j]] = b[e[k]] /\ e[j] \in places /\ e[k] \in places
      BY <1>2, <1>3, <1>5
    <2>2. e[j] = e[k]
      BY <2>1 DEF PicksFrom
    <2> QED
      BY <1>2, <2>2
  <1>6. IsFiniteSet(Q) /\ Cardinality(Q) = m /\ Enumerates(picked, Q)
    BY <1>1, <1>3, <1>4, <1>5, Counted
  <1> QED
    BY <1>6 DEF m

-----------------------------------------------------------------------------
(***************************************************************************)
(* Listings: rows that say each of some places of a server once, in some   *)
(* order.  `h` is the server.                                              *)
(***************************************************************************)
ListsBy(b, listing, h, P) ==
    /\ IsFiniteSet(P) /\ Cardinality(P) \in Nat /\ Enumerates(b, P)
    /\ listing = [k \in 1 .. Cardinality(P) |-> RowOf(h, b[k])]

IsListing(listing, h, P) == \E b : ListsBy(b, listing, h, P)

\* The places whose rows have what the row of place p has in some fields.
Like(h, P, fields, p) ==
    {q \in P : Key(RowOf(h, q), fields) = Key(RowOf(h, p), fields)}

RowsAt(h, P) == {RowOf(h, p) : p \in P}

\* A listing is a sequence of those rows.
LEMMA ListingIsSeq ==
    ASSUME NEW listing, NEW h, NEW P, IsListing(listing, h, P)
    PROVE  /\ IsFiniteSet(P) /\ Cardinality(P) \in Nat
           /\ listing \in Seq(RowsAt(h, P)) /\ Len(listing) = Cardinality(P)
           /\ ToSet(listing) = RowsAt(h, P)
  <1>1. PICK b : ListsBy(b, listing, h, P)
    BY DEF IsListing
  <1> DEFINE n == Cardinality(P)
             R == RowsAt(h, P)
  <1>2. n \in Nat /\ listing = [k \in 1..n |-> RowOf(h, b[k])]
    BY <1>1 DEF ListsBy
  <1>3. /\ \A k \in 1..n : b[k] \in P
        /\ \A p \in P : \E k \in 1..n : b[k] = p
    BY <1>1 DEF ListsBy, Enumerates
  <1>4. \A k \in 1..n : RowOf(h, b[k]) \in R
    BY <1>3 DEF RowsAt
  <1> HIDE DEF n
  <1>5. \A row \in R : \E k \in 1..n : RowOf(h, b[k]) = row
    BY <1>3 DEF RowsAt
  <1> HIDE DEF R
  <1>6. listing \in [1..n -> R]
    BY <1>2, <1>4
  <1>7. listing \in Seq(R) /\ Len(listing) = n /\ DOMAIN listing = 1..n
    BY <1>2, <1>6, FunctionIsSeq
  <1>8. ToSet(listing) = R
    BY <1>2, <1>4, <1>5, <1>7 DEF ToSet
  <1> QED
    BY <1>1, <1>7, <1>8 DEF ListsBy, n, R

\* The groups of a listing are listings of the places alike; each begins
\* with the row of a place of its own, whose key no other group has.
Heading(w, groups, h, P, fields) ==
    /\ groups = [g \in 1 .. Len(groups) |-> groups[g]]
    /\ \A g \in 1 .. Len(groups) :
          /\ w[g] \in P
          /\ IsListing(groups[g], h, Like(h, P, fields, w[g]))
          /\ groups[g][1] = RowOf(h, w[g])
    /\ \A p \in P : \E g \in 1 .. Len(groups) : w[g] \in Like(h, P, fields, p)
    /\ \A f, g \in 1 .. Len(groups) : w[f] \in Like(h, P, fields, w[g]) => f = g

LEMMA GroupsOfListing ==
    ASSUME NEW listing, NEW h, NEW P, IsListing(listing, h, P), NEW fields
    PROVE  /\ Len(GroupBy(listing, fields)) \in Nat
           /\ \E w : Heading(w, GroupBy(listing, fields), h, P, fields)
  <1> DEFINE n == Cardinality(P)
             groups == GroupBy(listing, fields)
             m == Len(groups)
             Same(i) == Alike(listing, fields, i)
  <1>1. PICK b : ListsBy(b, listing, h, P)
    BY DEF IsListing
  <1>2. /\ listing \in Seq(RowsAt(h, P)) /\ n \in Nat /\ Len(listing) = n
        /\ DOMAIN listing = 1..n
    BY ListingIsSeq
  <1>3. PICK first : GroupsBy(first, listing, fields, groups)
    BY <1>2, GroupByFacts
  <1>4. m \in Nat
    BY <1>2, GroupByFacts
  <1>5. /\ b \in [1..n -> P]
        /\ \A p \in P : \E k \in 1..n : b[k] = p
        /\ \A j, k \in 1..n : b[j] = b[k] => j = k
        /\ \A k \in 1..n : listing[k] = RowOf(h, b[k])
    BY <1>1 DEF ListsBy, Enumerates
  <1>6. /\ groups = [g \in 1..m |-> At(listing, Same(first[g]))]
        /\ \A g \in 1..m : first[g] \in 1..n /\ \A j \in Same(first[g]) : first[g] <= j
        /\ \A i \in 1..n : \E g \in 1..m : first[g] \in Same(i)
        /\ \A g, f \in 1..m : first[g] \in Same(first[f]) => g = f
    BY <1>2, <1>3 DEF GroupsBy
  <1> DEFINE w == [g \in 1..m |-> b[first[g]]]
  <1> HIDE DEF groups, m, n
  <1>7. ASSUME NEW i \in 1..n
        PROVE  /\ Same(i) \in SUBSET 1..n
               /\ Like(h, P, fields, b[i]) = {b[j] : j \in Same(i)}
    <2>1. Same(i) \in SUBSET 1..n
      BY <1>2 DEF Alike
    <2>2. ASSUME NEW j \in 1..n
          PROVE  j \in Same(i) <=> b[j] \in Like(h, P, fields, b[i])
      BY <1>2, <1>5 DEF Alike, Like
    <2>3. \A q \in Like(h, P, fields, b[i]) : \E j \in 1..n : b[j] = q
      BY <1>5 DEF Like
    <2> HIDE DEF Same
    <2> QED
      BY <2>1, <2>2, <2>3
  <1>8. ASSUME NEW g \in 1..m
        PROVE  /\ w[g] \in P
               /\ IsListing(groups[g], h, Like(h, P, fields, w[g]))
               /\ groups[g][1] = RowOf(h, w[g])
    <2> DEFINE i == first[g]
               Q == Like(h, P, fields, b[i])
               size == Cardinality(Same(i))
    <2>1. i \in 1..n /\ w[g] = b[i] /\ groups[g] = At(listing, Same(i))
      BY <1>6
    <2>2. Same(i) \in SUBSET DOMAIN listing /\ Q = {b[j] : j \in Same(i)}
      BY <1>2, <1>7, <2>1
    <2>3. IsFiniteSet(Same(i)) /\ size \in Nat
      BY <1>2, <2>2, AtFacts
    <2>4. PICK e : Picks(e, listing, Same(i), At(listing, Same(i)))
      BY <1>2, <2>2, AtFacts
    <2>5. /\ Enumerates(e, Same(i))
          /\ \A j, k \in 1..size : j < k => e[j] < e[k]
          /\ groups[g] = [k \in 1..size |-> listing[e[k]]]
      BY <2>1, <2>4 DEF Picks
    <2> DEFINE c == [k \in 1..size |-> b[e[k]]]
    <2> HIDE DEF i, size, Same
    <2>6. Same(i) \in SUBSET 1..n
      BY <1>7, <2>1
    <2>7. IsFiniteSet(Q) /\ Cardinality(Q) = size /\ Enumerates(c, Q)
      <3> DEFINE places == Same(i)
      <3>1. places \in SUBSET 1..n /\ IsFiniteSet(places) /\ Enumerates(e, places)
        BY <2>3, <2>5, <2>6
      <3>2. size = Cardinality(places) /\ \A k \in 1..size : e[k] \in places
        BY <2>5 DEF size, Enumerates
      <3>7. /\ \A q \in Q : \E j \in places : b[j] = q
            /\ \A j \in places : b[j] \in Q
        BY <2>2
      <3> HIDE DEF places, Q
      <3>3. /\ c \in [1 .. Cardinality(places) -> Q]
            /\ \A k \in 1 .. Cardinality(places) : c[k] = b[e[k]]
        BY <3>2, <3>7
      <3>5. \A j, k \in 1..n : b[j] = b[k] => j = k
        BY <1>5
      <3> HIDE DEF Q, c
      <3>8. PicksFrom(n, b, e, places, c, Q)
        BY <3>1, <3>3, <3>5, <3>7 DEF PicksFrom
      <3>6. IsFiniteSet(Q) /\ Cardinality(Q) = Cardinality(places) /\ Enumerates(c, Q)
        BY <3>8, PickedAreCounted
      <3> QED
        BY <3>2, <3>6
    <2>8. \A k \in 1..size : e[k] \in Same(i)
      BY <2>5 DEF Enumerates, size
    <2>9. groups[g] = [k \in 1..size |-> RowOf(h, c[k])]
      BY <1>5, <2>5, <2>6, <2>8
    <2>10. IsListing(groups[g], h, Q)
      <3> HIDE DEF c, Q
      <3>1. ListsBy(c, groups[g], h, Q)
        BY <2>3, <2>7, <2>9 DEF ListsBy
      <3> QED
        BY <3>1 DEF IsListing
    <2>11. i \in Same(i)
      BY <1>2, <2>1 DEF Same, Alike
    <2>12. PICK k \in 1..size : e[k] = i
      BY <2>5, <2>11 DEF Enumerates, size
    <2>13. e[1] = i
      <3>1. 1 \in 1..size /\ k \in Nat
        BY <2>3
      <3>2. e[1] \in Same(i) /\ i <= e[1]
        BY <1>6, <2>8, <3>1 DEF i
      <3>3. e[1] \in Nat /\ i \in Nat
        BY <2>1, <2>6, <3>2
      <3>4. CASE k = 1
        BY <2>12, <3>4
      <3>5. CASE k # 1
        <4>1. e[1] < e[k]
          BY <2>5, <3>1, <3>5
        <4> QED
          BY <2>12, <3>2, <3>3, <4>1
      <3> QED
        BY <3>4, <3>5
    <2>14. groups[g][1] = RowOf(h, b[i])
      BY <1>5, <2>1, <2>3, <2>5, <2>12, <2>13
    <2> QED
      BY <1>5, <2>1, <2>10, <2>14
  <1>9. ASSUME NEW p \in P
        PROVE  \E g \in 1..m : w[g] \in Like(h, P, fields, p)
    <2>1. PICK i \in 1..n : b[i] = p
      BY <1>5
    <2>2. PICK g \in 1..m : first[g] \in Same(i)
      BY <1>6
    <2>3. b[first[g]] \in Like(h, P, fields, p)
      BY <1>7, <2>1, <2>2
    <2> QED
      BY <2>3
  <1>10. ASSUME NEW f \in 1..m, NEW g \in 1..m, w[f] \in Like(h, P, fields, w[g])
         PROVE  f = g
    <2>1. first[f] \in 1..n /\ first[g] \in 1..n
      BY <1>6
    <2>2. PICK j \in Same(first[g]) : b[j] = b[first[f]]
      BY <1>7, <1>10, <2>1
    <2>3. j = first[f]
      BY <1>5, <1>7, <2>1, <2>2
    <2> QED
      BY <1>6, <2>3
  <1>11. groups = [g \in 1..m |-> groups[g]]
    BY <1>6
  <1>12. Heading(w, groups, h, P, fields)
    <2> HIDE DEF w
    <2> QED
      BY <1>8, <1>9, <1>10, <1>11 DEF Heading, m
  <1> QED
    BY <1>4, <1>12 DEF groups, m

-----------------------------------------------------------------------------
(***************************************************************************)
(* What list-panes lists of a server.                                      *)
(***************************************************************************)
WindowAt(h, p) == h.sessions[p[1]].links[p[2]]
PaneAt(h, p) == h.windows[WindowAt(h, p)].panes[p[3]]

IsPlace(h, p) ==
    /\ p = <<p[1], p[2], p[3]>>
    /\ p[1] \in DOMAIN h.sessions /\ p[2] \in DOMAIN h.sessions[p[1]].links
    /\ p[3] \in DOMAIN h.windows[WindowAt(h, p)].panes

\* The union of finitely many finite sets is finite.
LEMMA UnionOfFinite ==
    ASSUME NEW S, IsFiniteSet(S), NEW g, DOMAIN g = S,
           \A x \in S : IsFiniteSet(g[x])
    PROVE  IsFiniteSet(UNION {g[x] : x \in S})
  <1> DEFINE T == {g[x] : x \in S}
             image == [x \in S |-> g[x]]
  <1>1. image \in Surjection(S, T)
    BY DEF Surjection
  <1>2. \A U \in T : IsFiniteSet(U)
    OBVIOUS
  <1> HIDE DEF T, image
  <1>3. IsFiniteSet(T)
    BY <1>1, FS_Surjection
  <1>4. IsFiniteSet(UNION T)
    BY <1>2, <1>3, FS_UNION
  <1> QED
    BY <1>4 DEF T

\* The places of a server are its winlinks' panes.
LEMMA PlacesAre ==
    ASSUME NEW h
    PROVE  \A p : p \in Places(h) <=> IsPlace(h, p)
  <1> DEFINE PanesAt(name, index) == h.windows[h.sessions[name].links[index]].panes
             Under(name, index) == {<<name, index, place>> : place \in DOMAIN PanesAt(name, index)}
             In(name) == UNION {Under(name, index) : index \in DOMAIN h.sessions[name].links}
  <1>1. Places(h) = UNION {In(name) : name \in DOMAIN h.sessions}
    BY DEF Places
  <1>2. ASSUME NEW p
        PROVE  p \in Places(h) <=>
                  \E name \in DOMAIN h.sessions :
                     \E index \in DOMAIN h.sessions[name].links : p \in Under(name, index)
    BY <1>1
  <1>3. ASSUME NEW p, NEW name, NEW index
        PROVE  p \in Under(name, index) <=>
                  p[1] = name /\ p[2] = index /\ p = <<p[1], p[2], p[3]>>
                     /\ p[3] \in DOMAIN PanesAt(name, index)
    OBVIOUS
  <1> HIDE DEF Under
  <1>4. ASSUME NEW p
        PROVE  p \in Places(h) <=> IsPlace(h, p)
    BY <1>2, <1>3 DEF IsPlace, WindowAt
  <1> QED
    BY <1>4

LEMMA PlacesAreFinite ==
    ASSUME NEW h, IsServer(h)
    PROVE  IsFiniteSet(Places(h))
  <1> DEFINE PanesAt(name, index) == h.windows[h.sessions[name].links[index]].panes
             Under(name, index) == {<<name, index, place>> : place \in DOMAIN PanesAt(name, index)}
             In(name) == UNION {Under(name, index) : index \in DOMAIN h.sessions[name].links}
  <1>1. Places(h) = UNION {In(name) : name \in DOMAIN h.sessions}
    BY DEF Places
  <1>2. ASSUME NEW name \in DOMAIN h.sessions, NEW index \in DOMAIN h.sessions[name].links
        PROVE  IsFiniteSet(Under(name, index))
    <2>1. h.sessions[name].links[index] \in DOMAIN h.windows
      BY DEF IsServer, IsSessionOf, Range
    <2>2. PanesAt(name, index) \in Seq(DOMAIN h.panes)
      BY <2>1 DEF IsServer, IsWindowOf
    <2> DEFINE places == DOMAIN PanesAt(name, index)
               g == [place \in places |-> <<name, index, place>>]
    <2>3. places = 1 .. Len(PanesAt(name, index)) /\ Len(PanesAt(name, index)) \in Nat
      BY <2>2
    <2>4. IsFiniteSet(places)
      <3> HIDE DEF places, PanesAt
      <3> QED
        BY <2>3, FS_Interval
    <2>5. g \in Surjection(places, Under(name, index))
      BY DEF Surjection
    <2> HIDE DEF g, places, Under
    <2> QED
      BY <2>4, <2>5, FS_Surjection
  <1>3. ASSUME NEW name \in DOMAIN h.sessions
        PROVE  IsFiniteSet(In(name))
    <2> DEFINE L == DOMAIN h.sessions[name].links
               g == [index \in L |-> Under(name, index)]
    <2>1. IsFiniteSet(L)
      BY DEF IsServer, IsSessionOf
    <2>2. DOMAIN g = L /\ \A x \in L : IsFiniteSet(g[x])
      BY <1>2
    <2>3. In(name) = UNION {g[x] : x \in L}
      BY ZenonT(40)
    <2> HIDE DEF g, L, In
    <2>4. IsFiniteSet(UNION {g[x] : x \in L})
      BY <2>1, <2>2, UnionOfFinite
    <2> QED
      BY <2>3, <2>4
  <1> DEFINE N == DOMAIN h.sessions
             all == [name \in N |-> In(name)]
  <1> HIDE DEF In
  <1>4. IsFiniteSet(N)
    BY DEF IsServer
  <1>5. DOMAIN all = N /\ \A x \in N : IsFiniteSet(all[x])
    BY <1>3
  <1>6. Places(h) = UNION {all[x] : x \in N}
    BY <1>1
  <1> HIDE DEF all, N
  <1>7. IsFiniteSet(UNION {all[x] : x \in N})
    BY <1>4, <1>5, UnionOfFinite
  <1> QED
    BY <1>6, <1>7

\* Every name, index and place is a number.
LEMMA PlaceFacts ==
    ASSUME NEW h, IsServer(h), NEW p \in Places(h)
    PROVE  /\ p = <<p[1], p[2], p[3]>>
           /\ p[1] \in Nat /\ p[2] \in Nat /\ p[3] \in Nat /\ p[3] > 0
           /\ p[1] \in DOMAIN h.sessions /\ p[2] \in DOMAIN h.sessions[p[1]].links
           /\ WindowAt(h, p) \in DOMAIN h.windows
           /\ p[3] \in DOMAIN h.windows[WindowAt(h, p)].panes
           /\ PaneAt(h, p) \in DOMAIN h.panes
  <1>1. /\ p = <<p[1], p[2], p[3]>>
        /\ p[1] \in DOMAIN h.sessions /\ p[2] \in DOMAIN h.sessions[p[1]].links
        /\ p[3] \in DOMAIN h.windows[WindowAt(h, p)].panes
    BY PlacesAre DEF IsPlace
  <1>2. WindowAt(h, p) \in DOMAIN h.windows
    <2>1. Range(h.sessions[p[1]].links) \subseteq DOMAIN h.windows
      BY <1>1 DEF IsServer, IsSessionOf
    <2> QED
      BY <1>1, <2>1 DEF Range, WindowAt
  <1>3. h.windows[WindowAt(h, p)].panes \in Seq(DOMAIN h.panes)
    BY <1>2 DEF IsServer, IsWindowOf
  <1>4. p[1] \in Nat /\ p[2] \in Nat
    BY <1>1 DEF IsServer, IsSessionOf
  <1>5. p[3] \in Nat /\ p[3] > 0 /\ PaneAt(h, p) \in DOMAIN h.panes
    <2> DEFINE s == h.windows[WindowAt(h, p)].panes
    <2>1. s \in Seq(DOMAIN h.panes) /\ p[3] \in DOMAIN s
      BY <1>1, <1>3
    <2> HIDE DEF s
    <2>2. p[3] \in 1 .. Len(s) /\ Len(s) \in Nat /\ s[p[3]] \in DOMAIN h.panes
      BY <2>1
    <2> QED
      BY <2>2 DEF s, PaneAt
  <1> QED
    BY <1>1, <1>2, <1>4, <1>5

\* list-panes says each place once.
LEMMA ListPanesFacts ==
    ASSUME NEW h, IsServer(h)
    PROVE  IsListing(ListPanes(h), h, Places(h))
  <1> DEFINE P == Places(h)
             before == {p \in P \X P : IsListedBefore(p[1], p[2])}
             order == InOrder(P, before)
  <1>1. IsFiniteSet(P)
    BY PlacesAreFinite
  <1>2. ListPanes(h) = [k \in DOMAIN order |-> RowOf(h, order[k])]
    BY DEF ListPanes
  <1>3. \A p \in P : p = <<p[1], p[2], p[3]>> /\ p[1] \in Nat /\ p[2] \in Nat /\ p[3] \in Nat
    BY PlaceFacts
  <1> HIDE DEF P
  <1>4. \A x, y \in P : <<x, y>> \in before <=> IsListedBefore(x, y)
    OBVIOUS
  <1>5. \A x \in P : ~ IsListedBefore(x, x)
    BY <1>3 DEF IsListedBefore
  <1>6. \A x, y, z \in P :
           IsListedBefore(x, y) /\ IsListedBefore(y, z) => IsListedBefore(x, z)
    BY <1>3 DEF IsListedBefore
  <1>7. \A x, y \in P : x # y => IsListedBefore(x, y) \/ IsListedBefore(y, x)
    <2> SUFFICES ASSUME NEW x \in P, NEW y \in P,
                        ~ IsListedBefore(x, y), ~ IsListedBefore(y, x)
                 PROVE  x = y
      OBVIOUS
    <2>1. x[1] = y[1] /\ x[2] = y[2] /\ x[3] = y[3]
      BY <1>3 DEF IsListedBefore
    <2> QED
      BY <1>3, <2>1
  <1> HIDE DEF before
  <1>8. IsTotalOrder(P, before)
    BY <1>4, <1>5, <1>6, <1>7 DEF IsTotalOrder
  <1>9. Cardinality(P) \in Nat /\ Enumerates(order, P)
    BY <1>1, <1>8, InOrderFacts
  <1>10. DOMAIN order = 1 .. Cardinality(P)
    BY <1>9 DEF Enumerates
  <1> HIDE DEF order
  <1>11. ListsBy(order, ListPanes(h), h, P)
    BY <1>1, <1>2, <1>9, <1>10 DEF ListsBy
  <1> QED
    BY <1>11 DEF IsListing, P

\* What a row says of its place.
LEMMA RowFacts ==
    ASSUME NEW h, NEW p
    PROVE  LET row == RowOf(h, p)
               session == h.sessions[p[1]]
               window == h.windows[WindowAt(h, p)]
           IN  /\ row.session = p[1] /\ row.group = session.group
               /\ row.window_index = p[2] /\ row.window_id = WindowAt(h, p)
               /\ row.window_name = window.name /\ row.window_layout = window.layout
               /\ row.window_active = (session.active = p[2])
               /\ row.window_last = (session.last = Some(p[2]))
               /\ row.window_zoomed = window.zoomed /\ row.made = window.made
               /\ row.pane_index = p[3] - 1 /\ row.pane_id = PaneAt(h, p)
               /\ row.cwd = h.panes[PaneAt(h, p)].cwd
               /\ row.pane_active = (window.active = PaneAt(h, p))
  BY DEF RowOf, WindowAt, PaneAt

OfSession(h, n) == {p \in Places(h) : p[1] = n}
OfWindow(h, w) == {p \in Places(h) : WindowAt(h, p) = w}
OfLink(h, P, p) == {q \in P : q[1] = p[1] /\ q[2] = p[2]}
OfPane(h, P, p) == {q \in P : PaneAt(h, q) = PaneAt(h, p)}

\* Two rows agree in one field, or in two, if their keys are the same.
LEMMA KeyFacts ==
    ASSUME NEW r, NEW s
    PROVE  /\ Key(r, {"session"}) = Key(s, {"session"}) <=> r.session = s.session
           /\ Key(r, {"window_id"}) = Key(s, {"window_id"}) <=> r.window_id = s.window_id
           /\ Key(r, {"window_index"}) = Key(s, {"window_index"})
                 <=> r.window_index = s.window_index
           /\ Key(r, {"pane_id"}) = Key(s, {"pane_id"}) <=> r.pane_id = s.pane_id
           /\ Key(r, {"session", "window_index"}) = Key(s, {"session", "window_index"})
                 <=> r.session = s.session /\ r.window_index = s.window_index
  BY DEF Key

LEMMA LikeAre ==
    ASSUME NEW h, NEW P, NEW p
    PROVE  /\ Like(h, P, {"session"}, p) = {q \in P : q[1] = p[1]}
           /\ Like(h, P, {"window_id"}, p) = {q \in P : WindowAt(h, q) = WindowAt(h, p)}
           /\ Like(h, P, {"window_index"}, p) = {q \in P : q[2] = p[2]}
           /\ Like(h, P, {"pane_id"}, p) = OfPane(h, P, p)
           /\ Like(h, P, {"session", "window_index"}, p) = OfLink(h, P, p)
  <1>1. \A q \in P : /\ RowOf(h, q).session = q[1]
                     /\ RowOf(h, q).window_id = WindowAt(h, q)
                     /\ RowOf(h, q).window_index = q[2]
                     /\ RowOf(h, q).pane_id = PaneAt(h, q)
    BY RowFacts
  <1>2. /\ RowOf(h, p).session = p[1]
        /\ RowOf(h, p).window_id = WindowAt(h, p)
        /\ RowOf(h, p).window_index = p[2]
        /\ RowOf(h, p).pane_id = PaneAt(h, p)
    BY RowFacts
  <1> QED
    BY <1>1, <1>2, KeyFacts DEF Like, OfPane, OfLink

\* One row is flagged, or none is.
IsOnlyFlagged(listing, flag, g) ==
    /\ g \in DOMAIN listing /\ DOMAIN listing \in SUBSET Nat
    /\ \A i \in DOMAIN listing : listing[i][flag] = (i = g)

NoneFlagged(listing, flag) == \A i \in DOMAIN listing : listing[i][flag] = FALSE

\* The only flagged row is the last.
LEMMA LastFlaggedFacts ==
    ASSUME NEW listing, NEW flag, NEW field
    PROVE  /\ \A g : IsOnlyFlagged(listing, flag, g)
                       => LastFlagged(listing, flag, field) = Some(listing[g][field])
           /\ NoneFlagged(listing, flag) => LastFlagged(listing, flag, field) = None
  <1> DEFINE flagged == {i \in DOMAIN listing : listing[i][flag]}
  <1>1. LastFlagged(listing, flag, field) =
           IF flagged = {} THEN None ELSE Some(listing[Max(flagged)][field])
    BY DEF LastFlagged
  <1>2. ASSUME NEW g, IsOnlyFlagged(listing, flag, g)
        PROVE  LastFlagged(listing, flag, field) = Some(listing[g][field])
    <2>1. flagged = {g} /\ g \in Nat
      BY <1>2 DEF IsOnlyFlagged
    <2> HIDE DEF flagged
    <2>2. Max(flagged) = g
      BY <2>1 DEF Max
    <2> QED
      BY <1>1, <2>1, <2>2
  <1>3. ASSUME NoneFlagged(listing, flag)
        PROVE  LastFlagged(listing, flag, field) = None
    BY <1>1, <1>3 DEF NoneFlagged
  <1> QED
    BY <1>2, <1>3

\* Each group's first row, as FoldSession and FoldWindow use them.
HeadsBy(w, heads, h, P, fields) ==
    /\ heads = [g \in 1 .. Len(heads) |-> RowOf(h, w[g])]
    /\ \A g \in 1 .. Len(heads) : w[g] \in P
    /\ \A p \in P : \E g \in 1 .. Len(heads) : w[g] \in Like(h, P, fields, p)
    /\ \A f, g \in 1 .. Len(heads) : w[f] \in Like(h, P, fields, w[g]) => f = g

LEMMA HeadsOfListing ==
    ASSUME NEW listing, NEW h, NEW P, IsListing(listing, h, P), NEW fields
    PROVE  /\ Len(Heads(GroupBy(listing, fields))) \in Nat
           /\ \E w : HeadsBy(w, Heads(GroupBy(listing, fields)), h, P, fields)
  <1> DEFINE groups == GroupBy(listing, fields)
             heads == Heads(groups)
             m == Len(groups)
  <1>1. m \in Nat
    BY GroupsOfListing
  <1>2. PICK w : Heading(w, groups, h, P, fields)
    BY GroupsOfListing
  <1> HIDE DEF groups
  <1>3. DOMAIN groups = 1..m
    BY <1>2 DEF Heading
  <1>4. \A g \in 1..m : groups[g][1] = RowOf(h, w[g])
    BY <1>2 DEF Heading
  <1>5. heads = [g \in 1..m |-> RowOf(h, w[g])]
    BY <1>3, <1>4 DEF Heads
  <1> HIDE DEF heads
  <1>6. Len(heads) = m
    <2> DEFINE T == {RowOf(h, w[g]) : g \in 1..m}
    <2> HIDE DEF m
    <2>1. heads \in [1..m -> T]
      BY <1>5
    <2> HIDE DEF T
    <2> QED
      BY <1>1, <2>1, FunctionIsSeq
  <1>7. HeadsBy(w, heads, h, P, fields)
    BY <1>2, <1>5, <1>6 DEF Heading, HeadsBy
  <1> QED
    BY <1>1, <1>6, <1>7 DEF heads, groups

LEMMA FirstRow ==
    ASSUME NEW listing, NEW h, NEW P, IsListing(listing, h, P), P # {}
    PROVE  listing # <<>> /\ \E p \in P : listing[1] = RowOf(h, p)
  <1>1. PICK b : ListsBy(b, listing, h, P)
    BY DEF IsListing
  <1> DEFINE n == Cardinality(P)
  <1>2. n \in Nat /\ n # 0
    BY <1>1, FS_EmptySet DEF ListsBy
  <1>3. 1 \in 1..n
    BY <1>2
  <1>4. listing = [k \in 1..n |-> RowOf(h, b[k])] /\ b[1] \in P
    BY <1>1, <1>3 DEF ListsBy, Enumerates
  <1> HIDE DEF n
  <1>5. listing[1] = RowOf(h, b[1]) /\ 1 \in DOMAIN listing
    BY <1>3, <1>4
  <1>6. DOMAIN <<>> = {}
    OBVIOUS
  <1> QED
    BY <1>4, <1>5, <1>6

\* Each winlink of each session is among the places.
LEMMA EachLinkIsListed ==
    ASSUME NEW h, IsServer(h),
           NEW n \in DOMAIN h.sessions, NEW i \in DOMAIN h.sessions[n].links
    PROVE  /\ h.sessions[n].links[i] \in DOMAIN h.windows
           /\ \A k \in DOMAIN h.windows[h.sessions[n].links[i]].panes :
                 /\ <<n, i, k>> \in Places(h)
                 /\ WindowAt(h, <<n, i, k>>) = h.sessions[n].links[i]
                 /\ PaneAt(h, <<n, i, k>>) = h.windows[h.sessions[n].links[i]].panes[k]
           /\ 1 \in DOMAIN h.windows[h.sessions[n].links[i]].panes
  <1> DEFINE w == h.sessions[n].links[i]
             s == h.windows[w].panes
  <1>1. w \in DOMAIN h.windows
    BY DEF IsServer, IsSessionOf, Range
  <1>2. s \in Seq(DOMAIN h.panes) /\ ToSet(s) # {}
    BY <1>1 DEF IsServer, IsWindowOf
  <1>3. 1 \in DOMAIN s
    <2> HIDE DEF s
    <2>1. DOMAIN s = 1 .. Len(s) /\ Len(s) \in Nat /\ DOMAIN s # {}
      BY <1>2 DEF ToSet
    <2> QED
      BY <2>1
  <1>4. ASSUME NEW k \in DOMAIN s
        PROVE  /\ <<n, i, k>> \in Places(h)
               /\ WindowAt(h, <<n, i, k>>) = w
               /\ PaneAt(h, <<n, i, k>>) = s[k]
    <2> DEFINE p == <<n, i, k>>
    <2>1. p[1] = n /\ p[2] = i /\ p[3] = k
      OBVIOUS
    <2>2. WindowAt(h, p) = w /\ PaneAt(h, p) = s[k]
      BY <2>1 DEF WindowAt, PaneAt
    <2>3. IsPlace(h, p)
      BY <2>1, <2>2 DEF IsPlace
    <2> QED
      BY <2>2, <2>3, PlacesAre
  <1> QED
    BY <1>1, <1>3, <1>4

-----------------------------------------------------------------------------
(***************************************************************************)
(* The rows of one session fold into it.                                   *)
(***************************************************************************)
IsSessionHeld(h, n, s) ==
    /\ s.name = n /\ s.group = h.sessions[n].group
    /\ {<<l.index, l.window>> : l \in ToSet(s.links)}
          = {<<i, h.sessions[n].links[i]>> : i \in DOMAIN h.sessions[n].links}
    /\ {l.window : l \in ToSet(s.links)} = Range(h.sessions[n].links)
    /\ s.active = h.sessions[n].active /\ s.last = h.sessions[n].last

LEMMA SessionFolds ==
    ASSUME NEW h, IsServer(h), NEW n \in DOMAIN h.sessions,
           NEW listing, IsListing(listing, h, OfSession(h, n))
    PROVE  \E s : FoldSession(listing) = Some(s) /\ IsSessionHeld(h, n, s)
  <1> DEFINE P == OfSession(h, n)
             session == h.sessions[n]
             heads == Heads(GroupBy(listing, {"window_index"}))
             m == Len(heads)
  <1>1. IsSessionOf(h, session) /\ n \in Nat
    BY DEF IsServer
  <1>2. \A p \in P : p[1] = n /\ p[2] \in DOMAIN session.links /\ p[2] \in Nat
                       /\ WindowAt(h, p) = session.links[p[2]]
    BY PlaceFacts DEF OfSession, WindowAt
  <1>3. \A i \in DOMAIN session.links : \E p \in P : p[2] = i
    <2> SUFFICES ASSUME NEW i \in DOMAIN session.links
                 PROVE  \E p \in P : p[2] = i
      OBVIOUS
    <2>1. <<n, i, 1>> \in Places(h)
      BY EachLinkIsListed
    <2>2. <<n, i, 1>>[1] = n /\ <<n, i, 1>>[2] = i
      OBVIOUS
    <2> QED
      BY <2>1, <2>2 DEF OfSession
  <1>4. m \in Nat
    BY HeadsOfListing
  <1>5. PICK w : HeadsBy(w, heads, h, P, {"window_index"})
    BY HeadsOfListing
  <1> HIDE DEF P, heads
  <1>6. /\ heads = [g \in 1..m |-> RowOf(h, w[g])]
        /\ \A g \in 1..m : w[g] \in P
        /\ \A p \in P : \E g \in 1..m : w[g][2] = p[2]
        /\ \A f, g \in 1..m : w[f][2] = w[g][2] => f = g
    <2>1. \A p : Like(h, P, {"window_index"}, p) = {q \in P : q[2] = p[2]}
      BY LikeAre
    <2> QED
      BY <1>5, <2>1 DEF HeadsBy
  <1> HIDE DEF m
  <1>7. \A g \in 1..m : /\ heads[g] = RowOf(h, w[g])
                        /\ w[g][1] = n /\ w[g][2] \in DOMAIN session.links
                        /\ WindowAt(h, w[g]) = session.links[w[g][2]]
    BY <1>2, <1>6
  <1>8. DOMAIN heads = 1..m
    BY <1>6
  <1>9. \A g \in 1..m : /\ heads[g].window_index = w[g][2]
                        /\ heads[g].window_id = session.links[w[g][2]]
                        /\ heads[g].window_active = (session.active = w[g][2])
                        /\ heads[g].window_last = (session.last = Some(w[g][2]))
    <2> SUFFICES ASSUME NEW g \in 1..m
                 PROVE  /\ heads[g].window_index = w[g][2]
                        /\ heads[g].window_id = session.links[w[g][2]]
                        /\ heads[g].window_active = (session.active = w[g][2])
                        /\ heads[g].window_last = (session.last = Some(w[g][2]))
      OBVIOUS
    <2>1. /\ RowOf(h, w[g]).window_index = w[g][2]
          /\ RowOf(h, w[g]).window_id = WindowAt(h, w[g])
          /\ RowOf(h, w[g]).window_active = (h.sessions[w[g][1]].active = w[g][2])
          /\ RowOf(h, w[g]).window_last = (h.sessions[w[g][1]].last = Some(w[g][2]))
      BY RowFacts
    <2> QED
      BY <1>7, <2>1
  <1>10. \A i \in DOMAIN session.links : \E g \in 1..m : w[g][2] = i
    <2> SUFFICES ASSUME NEW i \in DOMAIN session.links
                 PROVE  \E g \in 1..m : w[g][2] = i
      OBVIOUS
    <2>1. PICK p \in P : p[2] = i
      BY <1>3
    <2> QED
      BY <1>6, <2>1
  <1> DEFINE active == LastFlagged(heads, "window_active", "window_index")
             last == LastFlagged(heads, "window_last", "window_index")
             links == [i \in DOMAIN heads |-> [index |-> heads[i].window_index,
                                               window |-> heads[i].window_id]]
  <1>11. 1..m \in SUBSET Nat
    BY <1>4
  <1>12. active = Some(session.active)
    <2>1. PICK g \in 1..m : w[g][2] = session.active
      BY <1>1, <1>10 DEF IsSessionOf
    <2>2. ASSUME NEW i \in DOMAIN heads
          PROVE  heads[i]["window_active"] = (i = g)
      <3>1. i \in 1..m /\ heads[i].window_active = (session.active = w[i][2])
        BY <1>8, <1>9
      <3>2. session.active = w[i][2] <=> i = g
        BY <1>6, <2>1, <3>1
      <3> QED
        BY <3>1, <3>2
    <2>3. IsOnlyFlagged(heads, "window_active", g)
      BY <1>8, <1>11, <2>2 DEF IsOnlyFlagged
    <2>4. active = Some(heads[g]["window_index"])
      BY <2>3, LastFlaggedFacts
    <2> QED
      BY <1>9, <2>1, <2>4
  <1>13. last = session.last
    <2>1. CASE session.last = None
      <3>1. ASSUME NEW i \in DOMAIN heads
            PROVE  heads[i]["window_last"] = FALSE
        <4>1. heads[i].window_last = (session.last = Some(w[i][2]))
          BY <1>8, <1>9
        <4>2. session.last # Some(w[i][2])
          BY <2>1 DEF None, Some
        <4> QED
          BY <4>1, <4>2
      <3>2. NoneFlagged(heads, "window_last")
        BY <3>1 DEF NoneFlagged
      <3> QED
        BY <2>1, <3>2, LastFlaggedFacts
    <2>2. CASE session.last # None
      <3>1. PICK j \in DOMAIN session.links : session.last = Some(j)
        BY <1>1, <2>2 DEF IsSessionOf
      <3>2. PICK g \in 1..m : w[g][2] = j
        BY <1>10
      <3>3. \A x : Some(x) = Some(j) <=> x = j
        BY DEF Some
      <3>4. ASSUME NEW i \in DOMAIN heads
            PROVE  heads[i]["window_last"] = (i = g)
        <4>1. i \in 1..m /\ heads[i].window_last = (session.last = Some(w[i][2]))
          BY <1>8, <1>9
        <4>2. session.last = Some(w[i][2]) <=> i = g
          BY <1>6, <3>1, <3>2, <3>3, <4>1
        <4> QED
          BY <4>1, <4>2
      <3>5. IsOnlyFlagged(heads, "window_last", g)
        BY <1>8, <1>11, <3>4 DEF IsOnlyFlagged
      <3>6. last = Some(heads[g]["window_index"])
        BY <3>5, LastFlaggedFacts
      <3> QED
        BY <1>9, <3>1, <3>2, <3>6
    <2> QED
      BY <2>1, <2>2
  <1> HIDE DEF active, last
  <1>14. /\ links = [g \in 1..m |-> links[g]]
         /\ \A g \in 1..m : /\ links[g].index = w[g][2]
                            /\ links[g].window = session.links[w[g][2]]
    BY <1>8, <1>9
  <1> HIDE DEF links
  <1>15. Indexes(links) = [g \in 1..m |-> w[g][2]]
    <2>1. DOMAIN links = 1..m
      BY <1>14
    <2> QED
      BY <1>14, <2>1 DEF Indexes
  <1>16. ToSet(links) = {links[g] : g \in 1..m}
    BY <1>14 DEF ToSet
  <1>17. ToSet(Indexes(links)) = DOMAIN session.links
    BY <1>7, <1>10, <1>15 DEF ToSet
  <1>18. ~ HasDuplicate(Indexes(links))
    <2> DEFINE indexes == Indexes(links)
    <2>1. \A f, g \in 1..m : f < g => w[f][2] # w[g][2]
      BY <1>6, <1>11
    <2>2. DOMAIN indexes = 1..m /\ \A g \in 1..m : indexes[g] = w[g][2]
      BY <1>15
    <2> HIDE DEF indexes
    <2>3. ~ HasDuplicate(indexes)
      BY <2>1, <2>2 DEF HasDuplicate
    <2> QED
      BY <2>3 DEF indexes
  <1>19. links # <<>>
    <2>1. 1..m # {}
      BY <1>1, <1>10 DEF IsSessionOf
    <2>2. DOMAIN links = 1..m
      BY <1>14
    <2>3. DOMAIN <<>> = {}
      OBVIOUS
    <2> QED
      BY <2>1, <2>2, <2>3
  <1>20. P # {}
    BY <1>1, <1>3 DEF IsSessionOf
  <1>21. listing[1].session = n /\ listing[1].group = session.group
    <2>1. PICK p \in P : listing[1] = RowOf(h, p)
      BY <1>20, FirstRow DEF P
    <2> QED
      BY <1>2, <2>1, RowFacts
  <1> DEFINE s == [name |-> listing[1].session, group |-> listing[1].group,
                   links |-> links,
                   active |-> IF active = None THEN -1 ELSE active[1],
                   last |-> last]
  <1>22. FoldSession(listing) = IF active # None /\ IsSession(s) THEN Some(s) ELSE None
    BY DEF FoldSession, LinkKey, active, last, links, heads
  <1>23. active # None /\ active[1] = session.active
    BY <1>12 DEF Some, None
  <1>24. s.name = n /\ s.group = session.group /\ s.links = links
           /\ s.active = session.active /\ s.last = session.last
    BY <1>13, <1>21, <1>23
  <1> HIDE DEF s
  <1>25. IsSession(s)
    <2>1. ToSet(session.last) \subseteq DOMAIN session.links
      BY <1>1 DEF IsSessionOf, ToSet, None, Some
    <2>2. session.active \in DOMAIN session.links
      BY <1>1 DEF IsSessionOf
    <2> QED
      BY <1>17, <1>18, <1>19, <1>24, <2>1, <2>2 DEF IsSession
  <1>26. \A l \in ToSet(links) : l.index \in DOMAIN session.links
                                   /\ l.window = session.links[l.index]
    BY <1>7, <1>14, <1>16
  <1>27. ASSUME NEW i \in DOMAIN session.links
         PROVE  \E l \in ToSet(links) : l.index = i /\ l.window = session.links[i]
    <2>1. PICK g \in 1..m : w[g][2] = i
      BY <1>10
    <2>2. links[g] \in ToSet(links) /\ links[g].index = i /\ links[g].window = session.links[i]
      BY <1>14, <1>16, <2>1
    <2> QED
      BY <2>2
  <1>28. /\ {<<l.index, l.window>> : l \in ToSet(links)}
              = {<<i, session.links[i]>> : i \in DOMAIN session.links}
         /\ {l.window : l \in ToSet(links)} = Range(session.links)
    BY <1>26, <1>27 DEF Range
  <1>29. IsSessionHeld(h, n, s)
    BY <1>24, <1>28 DEF IsSessionHeld
  <1> QED
    BY <1>22, <1>23, <1>25, <1>29

-----------------------------------------------------------------------------
(***************************************************************************)
(* The rows of one window fold into it: none is torn.                      *)
(***************************************************************************)
\* The places of a window are its panes under each winlink to it.
LEMMA WindowPlaces ==
    ASSUME NEW h, IsServer(h), NEW w \in DOMAIN h.windows
    PROVE  LET P == OfWindow(h, w)
               s == h.windows[w].panes
           IN  /\ \A p \in P : /\ p = <<p[1], p[2], p[3]>>
                               /\ p[3] \in DOMAIN s /\ PaneAt(h, p) = s[p[3]]
               /\ \A p \in P, k \in DOMAIN s : <<p[1], p[2], k>> \in P
               /\ \A k \in DOMAIN s : \E p \in P : p[3] = k
               /\ P # {}
               /\ \A j, k \in DOMAIN s : s[j] = s[k] => j = k
               /\ DOMAIN s = 1 .. Len(s) /\ Len(s) \in Nat
  <1> DEFINE P == OfWindow(h, w)
             s == h.windows[w].panes
  <1>1. IsWindowOf(h, w, h.windows[w])
    BY DEF IsServer
  <1>2. s \in Seq(DOMAIN h.panes) /\ IsInjective(s)
    BY <1>1 DEF IsWindowOf
  <1>3. \A p \in P : /\ p \in Places(h) /\ WindowAt(h, p) = w
                     /\ p = <<p[1], p[2], p[3]>> /\ p[1] \in DOMAIN h.sessions
                     /\ p[2] \in DOMAIN h.sessions[p[1]].links
                     /\ p[3] \in DOMAIN s /\ PaneAt(h, p) = s[p[3]]
    <2> SUFFICES ASSUME NEW p \in P
                 PROVE  /\ p \in Places(h) /\ WindowAt(h, p) = w
                        /\ p = <<p[1], p[2], p[3]>> /\ p[1] \in DOMAIN h.sessions
                        /\ p[2] \in DOMAIN h.sessions[p[1]].links
                        /\ p[3] \in DOMAIN s /\ PaneAt(h, p) = s[p[3]]
      OBVIOUS
    <2>1. p \in Places(h) /\ WindowAt(h, p) = w
      BY DEF OfWindow
    <2>2. PaneAt(h, p) = s[p[3]]
      BY <2>1 DEF PaneAt
    <2> QED
      BY <2>1, <2>2, PlaceFacts
  <1>4. ASSUME NEW n \in DOMAIN h.sessions, NEW i \in DOMAIN h.sessions[n].links,
               h.sessions[n].links[i] = w, NEW k \in DOMAIN s
        PROVE  <<n, i, k>> \in P
    <2>1. <<n, i, k>> \in Places(h) /\ WindowAt(h, <<n, i, k>>) = w
      <3>1. \A j \in DOMAIN h.windows[h.sessions[n].links[i]].panes :
               /\ <<n, i, j>> \in Places(h)
               /\ WindowAt(h, <<n, i, j>>) = h.sessions[n].links[i]
        BY <1>4, EachLinkIsListed
      <3> QED
        BY <1>4, <3>1
    <2> QED
      BY <2>1 DEF OfWindow
  <1>5. \A p \in P, k \in DOMAIN s : <<p[1], p[2], k>> \in P
    <2> SUFFICES ASSUME NEW p \in P, NEW k \in DOMAIN s
                 PROVE  <<p[1], p[2], k>> \in P
      OBVIOUS
    <2>1. h.sessions[p[1]].links[p[2]] = w
      BY <1>3 DEF WindowAt
    <2> QED
      BY <1>3, <1>4, <2>1
  <1>6. \A k \in DOMAIN s : \E p \in P : p[3] = k
    <2> SUFFICES ASSUME NEW k \in DOMAIN s
                 PROVE  \E p \in P : p[3] = k
      OBVIOUS
    <2>1. PICK n \in DOMAIN h.sessions : w \in Range(h.sessions[n].links)
      BY <1>1 DEF IsWindowOf
    <2>2. PICK i \in DOMAIN h.sessions[n].links : h.sessions[n].links[i] = w
      BY <2>1 DEF Range
    <2>3. <<n, i, k>> \in P /\ <<n, i, k>>[3] = k
      BY <1>4, <2>2
    <2> QED
      BY <2>3
  <1>7. P # {}
    <2>1. h.windows[w].active \in ToSet(s)
      BY <1>1 DEF IsWindowOf
    <2>2. PICK k \in DOMAIN s : TRUE
      BY <2>1 DEF ToSet
    <2> QED
      BY <1>6, <2>2
  <1>8. \A j, k \in DOMAIN s : s[j] = s[k] => j = k
    BY <1>2 DEF IsInjective
  <1>9. DOMAIN s = 1 .. Len(s) /\ Len(s) \in Nat
    <2> HIDE DEF s
    <2> QED
      BY <1>2
  <1> HIDE DEF P, s
  <1> QED
    BY <1>3, <1>5, <1>6, <1>7, <1>8, <1>9 DEF P, s

\* Each pane of a window is listed once for each winlink.
LEMMA NoneIsTorn ==
    ASSUME NEW h, IsServer(h), NEW w \in DOMAIN h.windows,
           NEW listing, IsListing(listing, h, OfWindow(h, w))
    PROVE  ~ IsTorn(listing)
  <1> DEFINE P == OfWindow(h, w)
             s == h.windows[w].panes
             byLink == GroupBy(listing, {"session", "window_index"})
             byPane == GroupBy(listing, {"pane_id"})
             m == Len(byLink)
  <1>1. /\ \A p \in P : /\ p = <<p[1], p[2], p[3]>>
                        /\ p[3] \in DOMAIN s /\ PaneAt(h, p) = s[p[3]]
        /\ \A p \in P, k \in DOMAIN s : <<p[1], p[2], k>> \in P
        /\ \A j, k \in DOMAIN s : s[j] = s[k] => j = k
    BY WindowPlaces
  <1>2. PICK u : Heading(u, byLink, h, P, {"session", "window_index"})
    BY GroupsOfListing
  <1>3. PICK v : Heading(v, byPane, h, P, {"pane_id"})
    BY GroupsOfListing
  <1>4. m \in Nat
    BY GroupsOfListing
  <1> HIDE DEF P, s, byLink, byPane
  <1>5. /\ \A g \in 1..m : u[g] \in P
        /\ \A p \in P : \E g \in 1..m : u[g][1] = p[1] /\ u[g][2] = p[2]
        /\ \A f, g \in 1..m : u[f][1] = u[g][1] /\ u[f][2] = u[g][2] => f = g
    <2>1. \A p : Like(h, P, {"session", "window_index"}, p) = OfLink(h, P, p)
      BY LikeAre
    <2> QED
      BY <1>2, <2>1 DEF Heading, OfLink
  <1> HIDE DEF m
  <1>6. ASSUME NEW p \in P
        PROVE  Cardinality(OfPane(h, P, p)) = m
    <2> DEFINE Q == OfPane(h, P, p)
               at == [k \in 1..m |-> <<u[k][1], u[k][2], p[3]>>]
    <2>1. \A q : q \in Q <=> q \in P /\ q[3] = p[3]
      BY <1>1 DEF OfPane
    <2>2. ASSUME NEW k \in 1..m
          PROVE  at[k] \in Q /\ at[k][1] = u[k][1] /\ at[k][2] = u[k][2]
      <3>1. u[k] \in P /\ p[3] \in DOMAIN s
        BY <1>1, <1>5
      <3>2. <<u[k][1], u[k][2], p[3]>> \in P
        BY <1>1, <3>1
      <3> QED
        BY <2>1, <3>2
    <2>3. at \in [1..m -> Q]
      BY <2>2
    <2>4. ASSUME NEW q \in Q
          PROVE  \E k \in 1..m : at[k] = q
      <3>1. q \in P /\ q = <<q[1], q[2], p[3]>>
        BY <1>1, <2>1
      <3>2. PICK k \in 1..m : u[k][1] = q[1] /\ u[k][2] = q[2]
        BY <1>5, <3>1
      <3> QED
        BY <3>1, <3>2
    <2>5. \A j, k \in 1..m : at[j] = at[k] => j = k
      BY <1>5, <2>2
    <2> HIDE DEF Q, at
    <2>6. Cardinality(Q) = m
      BY <1>4, <2>3, <2>4, <2>5, Counted
    <2> QED
      BY <2>6 DEF Q
  <1>7. ASSUME NEW group \in ToSet(byPane)
        PROVE  Len(group) = m
    <2>1. PICK g \in 1 .. Len(byPane) : group = byPane[g]
      BY <1>3 DEF Heading, ToSet
    <2>2. v[g] \in P /\ IsListing(group, h, Like(h, P, {"pane_id"}, v[g]))
      BY <1>3, <2>1 DEF Heading
    <2>3. IsListing(group, h, OfPane(h, P, v[g]))
      BY <2>2, LikeAre
    <2> QED
      BY <1>6, <2>2, <2>3, ListingIsSeq
  <1> QED
    BY <1>7 DEF IsTorn, LinksOfWindow, m, byLink, byPane

\* The first rows of a window's panes.
PaneHeads(v, heads, h, w) ==
    LET s == h.windows[w].panes
    IN  /\ heads = [g \in 1 .. Len(heads) |-> RowOf(h, v[g])]
        /\ Len(heads) \in Nat
        /\ \A g \in 1 .. Len(heads) : /\ v[g] \in OfWindow(h, w) /\ v[g][3] \in DOMAIN s
                                      /\ PaneAt(h, v[g]) = s[v[g][3]]
        /\ \A k \in DOMAIN s : \E g \in 1 .. Len(heads) : v[g][3] = k
        /\ \A f, g \in 1 .. Len(heads) : v[f][3] = v[g][3] => f = g

LEMMA HeadsOfWindow ==
    ASSUME NEW h, IsServer(h), NEW w \in DOMAIN h.windows,
           NEW listing, IsListing(listing, h, OfWindow(h, w))
    PROVE  \E v : PaneHeads(v, Heads(GroupBy(listing, {"pane_id"})), h, w)
  <1> DEFINE P == OfWindow(h, w)
             s == h.windows[w].panes
             heads == Heads(GroupBy(listing, {"pane_id"}))
             m == Len(heads)
  <1>1. /\ \A p \in P : p[3] \in DOMAIN s /\ PaneAt(h, p) = s[p[3]]
        /\ \A k \in DOMAIN s : \E p \in P : p[3] = k
        /\ \A j, k \in DOMAIN s : s[j] = s[k] => j = k
    BY WindowPlaces
  <1>2. PICK v : HeadsBy(v, heads, h, P, {"pane_id"})
    BY HeadsOfListing
  <1>3. m \in Nat
    BY HeadsOfListing
  <1> HIDE DEF P, s, heads
  <1>4. /\ heads = [g \in 1..m |-> RowOf(h, v[g])]
        /\ \A g \in 1..m : v[g] \in P
        /\ \A p \in P : \E g \in 1..m : v[g] \in OfPane(h, P, p)
        /\ \A f, g \in 1..m : v[f] \in OfPane(h, P, v[g]) => f = g
    <2>1. \A p : Like(h, P, {"pane_id"}, p) = OfPane(h, P, p)
      BY LikeAre
    <2> QED
      BY <1>2, <2>1 DEF HeadsBy
  <1> HIDE DEF m
  <1>5. \A p, q \in P : q \in OfPane(h, P, p) <=> q[3] = p[3]
    BY <1>1 DEF OfPane
  <1>6. ASSUME NEW k \in DOMAIN s
        PROVE  \E g \in 1..m : v[g][3] = k
    <2>1. PICK p \in P : p[3] = k
      BY <1>1
    <2>2. PICK g \in 1..m : v[g] \in OfPane(h, P, p)
      BY <1>4
    <2> QED
      BY <1>4, <1>5, <2>1, <2>2
  <1>7. \A f, g \in 1..m : v[f][3] = v[g][3] => f = g
    BY <1>4, <1>5
  <1>8. \A g \in 1..m : v[g] \in P /\ v[g][3] \in DOMAIN s /\ PaneAt(h, v[g]) = s[v[g][3]]
    BY <1>1, <1>4
  <1>9. PaneHeads(v, heads, h, w)
    BY <1>3, <1>4, <1>6, <1>7, <1>8 DEF PaneHeads, m, P, s
  <1> QED
    BY <1>9 DEF heads

IsWindowHeld(h, w, read, x) ==
    LET window == h.windows[w]
    IN  /\ x.id = w /\ x.made = window.made /\ x.name = window.name
        /\ x.layout = window.layout /\ x.zoomed = window.zoomed
        /\ {<<p.index, p.id, p.cwd>> : p \in ToSet(x.panes)}
              = {<<i - 1, window.panes[i], h.panes[window.panes[i]].cwd>> :
                    i \in DOMAIN window.panes}
        /\ (CHOOSE p \in ToSet(x.panes) : p.index = x.active).id = window.active
        /\ \A p \in ToSet(x.panes) :
              /\ p.id \in ToSet(window.panes)
              /\ p.foreground = read[p.id].foreground /\ p.content = read[p.id].content

LEMMA WindowFolds ==
    ASSUME NEW h, IsServer(h), NEW w \in DOMAIN h.windows, NEW read,
           NEW listing, IsListing(listing, h, OfWindow(h, w))
    PROVE  \E x : FoldWindow(listing, read) = Some(x) /\ IsWindowHeld(h, w, read, x)
  <1> DEFINE P == OfWindow(h, w)
             window == h.windows[w]
             s == window.panes
             heads == Heads(GroupBy(listing, {"pane_id"}))
             m == Len(heads)
  <1>1. IsWindowOf(h, w, window)
    BY DEF IsServer
  <1>2. /\ \A p \in P : p[3] \in DOMAIN s /\ PaneAt(h, p) = s[p[3]]
        /\ P # {}
        /\ \A j, k \in DOMAIN s : s[j] = s[k] => j = k
        /\ DOMAIN s = 1 .. Len(s) /\ Len(s) \in Nat
    BY WindowPlaces
  <1>3. PICK v : PaneHeads(v, heads, h, w)
    BY HeadsOfWindow
  <1> HIDE DEF heads
  <1>4. /\ heads = [g \in 1..m |-> RowOf(h, v[g])] /\ m \in Nat
        /\ \A g \in 1..m : /\ v[g] \in P /\ v[g][3] \in DOMAIN s
                           /\ PaneAt(h, v[g]) = s[v[g][3]]
        /\ \A k \in DOMAIN s : \E g \in 1..m : v[g][3] = k
        /\ \A f, g \in 1..m : v[f][3] = v[g][3] => f = g
    BY <1>3 DEF PaneHeads
  <1> HIDE DEF m
  <1>5. DOMAIN heads = 1..m /\ 1..m \in SUBSET Nat
    BY <1>4
  <1>6. ASSUME NEW g \in 1..m
        PROVE  /\ heads[g].pane_id = s[v[g][3]]
               /\ heads[g].pane_index = v[g][3] - 1
               /\ heads[g].cwd = h.panes[s[v[g][3]]].cwd
               /\ heads[g].pane_active = (window.active = s[v[g][3]])
    <2>1. heads[g] = RowOf(h, v[g]) /\ PaneAt(h, v[g]) = s[v[g][3]] /\ WindowAt(h, v[g]) = w
      BY <1>4 DEF OfWindow
    <2>2. /\ RowOf(h, v[g]).pane_id = PaneAt(h, v[g])
          /\ RowOf(h, v[g]).pane_index = v[g][3] - 1
          /\ RowOf(h, v[g]).cwd = h.panes[PaneAt(h, v[g])].cwd
          /\ RowOf(h, v[g]).pane_active = (h.windows[WindowAt(h, v[g])].active = PaneAt(h, v[g]))
      BY RowFacts
    <2> QED
      BY <2>1, <2>2
  <1> DEFINE active == LastFlagged(heads, "pane_active", "pane_index")
             panes == [i \in DOMAIN heads |->
                          [id |-> heads[i].pane_id, index |-> heads[i].pane_index,
                           cwd |-> heads[i].cwd,
                           foreground |-> read[heads[i].pane_id].foreground,
                           content |-> read[heads[i].pane_id].content]]
  <1>7. PICK a \in 1..m : window.active = s[v[a][3]]
    <2>1. PICK k \in DOMAIN s : s[k] = window.active
      BY <1>1 DEF IsWindowOf, ToSet
    <2>2. PICK g \in 1..m : v[g][3] = k
      BY <1>4
    <2> HIDE DEF s, window
    <2> QED
      BY <2>1, <2>2
  <1>8. active = Some(v[a][3] - 1)
    <2>1. ASSUME NEW i \in DOMAIN heads
          PROVE  heads[i]["pane_active"] = (i = a)
      <3>1. i \in 1..m /\ heads[i].pane_active = (window.active = s[v[i][3]])
        BY <1>5, <1>6
      <3>2. i = a => window.active = s[v[i][3]]
        BY <1>7
      <3>3. window.active = s[v[i][3]] => i = a
        <4>1. v[i][3] \in DOMAIN s /\ v[a][3] \in DOMAIN s
          BY <1>4, <3>1
        <4>2. s[v[i][3]] = s[v[a][3]] => v[i][3] = v[a][3]
          BY <1>2, <4>1
        <4>3. v[i][3] = v[a][3] => i = a
          BY <1>4, <3>1
        <4> QED
          BY <1>7, <4>2, <4>3
      <3> QED
        BY <3>1, <3>2, <3>3
    <2>2. IsOnlyFlagged(heads, "pane_active", a)
      BY <1>5, <2>1 DEF IsOnlyFlagged
    <2>3. active = Some(heads[a]["pane_index"])
      BY <2>2, LastFlaggedFacts
    <2> QED
      BY <1>6, <2>3
  <1>9. /\ DOMAIN panes = 1..m
        /\ \A g \in 1..m : /\ panes[g].id = s[v[g][3]] /\ panes[g].index = v[g][3] - 1
                           /\ panes[g].cwd = h.panes[s[v[g][3]]].cwd
                           /\ panes[g].foreground = read[s[v[g][3]]].foreground
                           /\ panes[g].content = read[s[v[g][3]]].content
    BY <1>5, <1>6
  <1> HIDE DEF panes, active
  <1>10. \A g \in 1..m : v[g][3] \in Nat /\ v[g][3] \in DOMAIN s
    BY <1>2, <1>4
  <1>11. \A f, g \in 1..m : panes[f].index = panes[g].index => f = g
    <2> SUFFICES ASSUME NEW f \in 1..m, NEW g \in 1..m, panes[f].index = panes[g].index
                 PROVE  f = g
      OBVIOUS
    <2>1. v[f][3] - 1 = v[g][3] - 1
      <3>1. panes[f].index = v[f][3] - 1 /\ panes[g].index = v[g][3] - 1
        BY <1>9
      <3> QED
        BY <3>1
    <2>2. v[f][3] = v[g][3]
      <3>1. v[f][3] \in Nat /\ v[g][3] \in Nat
        BY <1>10
      <3> QED
        BY <2>1, <3>1
    <2> QED
      BY <1>4, <2>2
  <1>12. ToSet(panes) = {panes[g] : g \in 1..m}
    BY <1>9 DEF ToSet
  <1> DEFINE indexes == Indexes(panes)
  <1>13. DOMAIN indexes = 1..m /\ \A g \in 1..m : indexes[g] = panes[g].index
    BY <1>9 DEF Indexes
  <1> HIDE DEF indexes
  <1>14. ~ HasDuplicate(indexes)
    <2>1. \A f, g \in 1..m : f < g => indexes[f] # indexes[g]
      BY <1>5, <1>11, <1>13
    <2> QED
      BY <1>13, <2>1 DEF HasDuplicate
  <1>15. v[a][3] - 1 \in ToSet(indexes)
    <2>1. indexes[a] = v[a][3] - 1
      BY <1>7, <1>9, <1>13
    <2>2. a \in DOMAIN indexes
      BY <1>7, <1>13
    <2> QED
      BY <2>1, <2>2 DEF ToSet
  <1>16. panes # <<>>
    <2>1. DOMAIN <<>> = {}
      OBVIOUS
    <2> QED
      BY <1>9, <2>1
  <1>17. /\ listing[1].window_id = w /\ listing[1].made = window.made
         /\ listing[1].window_name = window.name
         /\ listing[1].window_layout = window.layout
         /\ listing[1].window_zoomed = window.zoomed
    <2>1. PICK p \in P : listing[1] = RowOf(h, p)
      BY <1>2, FirstRow
    <2>2. WindowAt(h, p) = w
      BY DEF OfWindow
    <2> QED
      BY <2>1, <2>2, RowFacts
  <1> DEFINE x == [id |-> listing[1].window_id, made |-> listing[1].made,
                   name |-> listing[1].window_name, layout |-> listing[1].window_layout,
                   zoomed |-> listing[1].window_zoomed, panes |-> panes,
                   active |-> IF active = None THEN -1 ELSE active[1]]
  <1>18. FoldWindow(listing, read) =
            IF ~ IsTorn(listing) /\ active # None /\ IsWindow(x) THEN Some(x) ELSE None
    BY DEF FoldWindow, active, panes, heads
  <1>19. active # None /\ active[1] = v[a][3] - 1
    BY <1>8 DEF Some, None
  <1>20. /\ x.id = w /\ x.made = window.made /\ x.name = window.name
         /\ x.layout = window.layout /\ x.zoomed = window.zoomed
         /\ x.panes = panes /\ x.active = v[a][3] - 1
    BY <1>17, <1>19
  <1> HIDE DEF x
  <1>21. IsWindow(x)
    BY <1>14, <1>15, <1>16, <1>20 DEF IsWindow, indexes
  <1>22. (CHOOSE p \in ToSet(x.panes) : p.index = x.active).id = window.active
    <2> DEFINE chosen == CHOOSE p \in ToSet(x.panes) : p.index = x.active
    <2>1. \E p \in ToSet(x.panes) : p.index = x.active
      <3>1. panes[a] \in ToSet(x.panes)
        BY <1>7, <1>12, <1>20
      <3>2. panes[a].index = x.active
        BY <1>7, <1>9, <1>20
      <3> QED
        BY <3>1, <3>2
    <2>2. chosen \in ToSet(x.panes) /\ chosen.index = x.active
      BY <2>1
    <2> HIDE DEF chosen
    <2>3. PICK g \in 1..m : chosen = panes[g]
      BY <1>12, <1>20, <2>2
    <2>4. panes[g].index = panes[a].index
      BY <1>9, <1>20, <2>2, <2>3
    <2>5. chosen.id = window.active
      BY <1>7, <1>9, <1>11, <2>3, <2>4
    <2> QED
      BY <2>5 DEF chosen
  <1>23. \A p \in ToSet(panes) : \E i \in DOMAIN s :
            /\ p.index = i - 1 /\ p.id = s[i] /\ p.cwd = h.panes[s[i]].cwd
            /\ p.foreground = read[s[i]].foreground /\ p.content = read[s[i]].content
    <2> SUFFICES ASSUME NEW g \in 1..m
                 PROVE  \E i \in DOMAIN s :
                           /\ panes[g].index = i - 1 /\ panes[g].id = s[i]
                           /\ panes[g].cwd = h.panes[s[i]].cwd
                           /\ panes[g].foreground = read[s[i]].foreground
                           /\ panes[g].content = read[s[i]].content
      BY <1>12
    <2> QED
      BY <1>9, <1>10
  <1>24. ASSUME NEW i \in DOMAIN s
         PROVE  \E p \in ToSet(panes) :
                   p.index = i - 1 /\ p.id = s[i] /\ p.cwd = h.panes[s[i]].cwd
    <2>1. PICK g \in 1..m : v[g][3] = i
      BY <1>4
    <2>2. /\ panes[g].index = i - 1 /\ panes[g].id = s[i]
          /\ panes[g].cwd = h.panes[s[i]].cwd /\ panes[g] \in ToSet(panes)
      BY <1>9, <1>12, <2>1
    <2> QED
      BY <2>2
  <1>25. {<<p.index, p.id, p.cwd>> : p \in ToSet(panes)}
            = {<<i - 1, s[i], h.panes[s[i]].cwd>> : i \in DOMAIN s}
    BY <1>23, <1>24
  <1>26. \A p \in ToSet(panes) :
            /\ p.id \in ToSet(s)
            /\ p.foreground = read[p.id].foreground /\ p.content = read[p.id].content
    BY <1>23 DEF ToSet
  <1>27. IsWindowHeld(h, w, read, x)
    BY <1>20, <1>22, <1>25, <1>26 DEF IsWindowHeld
  <1> QED
    BY <1>18, <1>19, <1>21, <1>27, NoneIsTorn

-----------------------------------------------------------------------------
(***************************************************************************)
(* A listing always folds, into the server that was listed.                *)
(***************************************************************************)
\* names tells which session, or which window, each group is.
Sorts(names, groups, all) ==
    /\ Len(groups) \in Nat /\ groups = [g \in 1 .. Len(groups) |-> groups[g]]
    /\ \A g \in 1 .. Len(groups) : names[g] \in all
    /\ \A x \in all : \E g \in 1 .. Len(groups) : names[g] = x
    /\ \A f, g \in 1 .. Len(groups) : names[f] = names[g] => f = g

LEMMA BySession ==
    ASSUME NEW h, IsServer(h)
    PROVE  LET groups == GroupBy(ListPanes(h), {"session"})
           IN  \E n : /\ Sorts(n, groups, DOMAIN h.sessions)
                      /\ \A g \in 1 .. Len(groups) :
                            IsListing(groups[g], h, OfSession(h, n[g]))
  <1> DEFINE P == Places(h)
             groups == GroupBy(ListPanes(h), {"session"})
             m == Len(groups)
             names == DOMAIN h.sessions
  <1>1. IsListing(ListPanes(h), h, P)
    BY ListPanesFacts
  <1>2. PICK u : Heading(u, groups, h, P, {"session"})
    BY <1>1, GroupsOfListing
  <1>3. m \in Nat
    BY <1>1, GroupsOfListing
  <1>4. \A p : Like(h, P, {"session"}, p) = OfSession(h, p[1])
    BY LikeAre DEF OfSession
  <1>5. \A p \in P : p[1] \in names
    BY PlaceFacts
  <1>6. \A x \in names : \E p \in P : p[1] = x
    <2> SUFFICES ASSUME NEW x \in names
                 PROVE  \E p \in P : p[1] = x
      OBVIOUS
    <2>1. PICK i \in DOMAIN h.sessions[x].links : TRUE
      BY DEF IsServer, IsSessionOf
    <2>2. <<x, i, 1>> \in P /\ <<x, i, 1>>[1] = x
      BY EachLinkIsListed
    <2> QED
      BY <2>2
  <1> HIDE DEF P, groups, names
  <1>7. /\ groups = [g \in 1..m |-> groups[g]]
        /\ \A g \in 1..m : u[g] \in P /\ IsListing(groups[g], h, OfSession(h, u[g][1]))
        /\ \A p \in P : \E g \in 1..m : u[g] \in OfSession(h, p[1])
        /\ \A f, g \in 1..m : u[f] \in OfSession(h, u[g][1]) => f = g
    BY <1>2, <1>4 DEF Heading
  <1> HIDE DEF m
  <1>8. \A p \in P : \A x : p \in OfSession(h, x) <=> p[1] = x
    BY DEF OfSession, P
  <1> DEFINE n == [g \in 1..m |-> u[g][1]]
  <1>9. \A g \in 1..m : n[g] = u[g][1] /\ n[g] \in names
    BY <1>5, <1>7
  <1> HIDE DEF n
  <1>10. ASSUME NEW x \in names
         PROVE  \E g \in 1..m : n[g] = x
    <2>1. PICK p \in P : p[1] = x
      BY <1>6
    <2>2. PICK g \in 1..m : u[g] \in OfSession(h, p[1])
      BY <1>7
    <2> QED
      BY <1>7, <1>8, <1>9, <2>1, <2>2
  <1>11. \A f, g \in 1..m : n[f] = n[g] => f = g
    BY <1>7, <1>8, <1>9
  <1>12. Sorts(n, groups, names)
    BY <1>3, <1>7, <1>9, <1>10, <1>11 DEF Sorts, m
  <1>13. \A g \in 1..m : IsListing(groups[g], h, OfSession(h, n[g]))
    BY <1>7, <1>9
  <1> QED
    BY <1>12, <1>13 DEF m, groups, names

LEMMA ByWindow ==
    ASSUME NEW h, IsServer(h)
    PROVE  LET groups == GroupBy(ListPanes(h), {"window_id"})
           IN  \E n : /\ Sorts(n, groups, DOMAIN h.windows)
                      /\ \A g \in 1 .. Len(groups) :
                            IsListing(groups[g], h, OfWindow(h, n[g]))
  <1> DEFINE P == Places(h)
             groups == GroupBy(ListPanes(h), {"window_id"})
             m == Len(groups)
             ids == DOMAIN h.windows
  <1>1. IsListing(ListPanes(h), h, P)
    BY ListPanesFacts
  <1>2. PICK u : Heading(u, groups, h, P, {"window_id"})
    BY <1>1, GroupsOfListing
  <1>3. m \in Nat
    BY <1>1, GroupsOfListing
  <1>4. \A p : Like(h, P, {"window_id"}, p) = OfWindow(h, WindowAt(h, p))
    BY LikeAre DEF OfWindow
  <1>5. \A p \in P : WindowAt(h, p) \in ids
    BY PlaceFacts
  <1>6. \A x \in ids : \E p \in P : WindowAt(h, p) = x
    <2> SUFFICES ASSUME NEW x \in ids
                 PROVE  \E p \in P : WindowAt(h, p) = x
      OBVIOUS
    <2>1. OfWindow(h, x) # {}
      BY WindowPlaces
    <2> QED
      BY <2>1 DEF OfWindow
  <1> HIDE DEF P, groups, ids
  <1>7. /\ groups = [g \in 1..m |-> groups[g]]
        /\ \A g \in 1..m : u[g] \in P /\ IsListing(groups[g], h, OfWindow(h, WindowAt(h, u[g])))
        /\ \A p \in P : \E g \in 1..m : u[g] \in OfWindow(h, WindowAt(h, p))
        /\ \A f, g \in 1..m : u[f] \in OfWindow(h, WindowAt(h, u[g])) => f = g
    BY <1>2, <1>4 DEF Heading
  <1> HIDE DEF m
  <1>8. \A p \in P : \A x : p \in OfWindow(h, x) <=> WindowAt(h, p) = x
    BY DEF OfWindow, P
  <1> DEFINE n == [g \in 1..m |-> WindowAt(h, u[g])]
  <1>9. \A g \in 1..m : n[g] = WindowAt(h, u[g]) /\ n[g] \in ids
    BY <1>5, <1>7
  <1> HIDE DEF n
  <1>10. ASSUME NEW x \in ids
         PROVE  \E g \in 1..m : n[g] = x
    <2>1. PICK p \in P : WindowAt(h, p) = x
      BY <1>6
    <2>2. PICK g \in 1..m : u[g] \in OfWindow(h, WindowAt(h, p))
      BY <1>7
    <2> QED
      BY <1>7, <1>8, <1>9, <2>1, <2>2
  <1>11. \A f, g \in 1..m : n[f] = n[g] => f = g
    BY <1>7, <1>8, <1>9
  <1>12. Sorts(n, groups, ids)
    BY <1>3, <1>7, <1>9, <1>10, <1>11 DEF Sorts, m
  <1>13. \A g \in 1..m : IsListing(groups[g], h, OfWindow(h, n[g]))
    BY <1>7, <1>9
  <1> QED
    BY <1>12, <1>13 DEF m, groups, ids

\* The panes listed are those of the windows.
LEMMA ListedPanes ==
    ASSUME NEW h, IsServer(h)
    PROVE  /\ IdsOf(ListPanes(h)) \subseteq DOMAIN h.panes
           /\ \A w \in DOMAIN h.windows :
                 ToSet(h.windows[w].panes) \subseteq IdsOf(ListPanes(h))
  <1>1. ToSet(ListPanes(h)) = RowsAt(h, Places(h))
    BY ListPanesFacts, ListingIsSeq
  <1>2. \A p \in Places(h) : RowOf(h, p).pane_id = PaneAt(h, p)
                               /\ PaneAt(h, p) \in DOMAIN h.panes
    BY PlaceFacts, RowFacts
  <1>3. IdsOf(ListPanes(h)) = {PaneAt(h, p) : p \in Places(h)}
    BY <1>1, <1>2 DEF IdsOf, RowsAt
  <1>4. ASSUME NEW w \in DOMAIN h.windows, NEW id0 \in ToSet(h.windows[w].panes)
        PROVE  id0 \in IdsOf(ListPanes(h))
    <2>1. PICK k \in DOMAIN h.windows[w].panes : h.windows[w].panes[k] = id0
      BY DEF ToSet
    <2>2. PICK p \in OfWindow(h, w) : p[3] = k
      BY WindowPlaces
    <2>3. p \in Places(h) /\ PaneAt(h, p) = id0
      BY <2>1, <2>2, WindowPlaces DEF OfWindow
    <2> QED
      BY <1>3, <2>3
  <1> QED
    BY <1>2, <1>3, <1>4

\* m records, each of one of the sessions, each session's once.
EachSession(m, n, fs, h) ==
    /\ m \in Nat /\ fs = [g \in 1..m |-> fs[g]]
    /\ \A g \in 1..m : n[g] \in DOMAIN h.sessions /\ IsSessionHeld(h, n[g], fs[g])
    /\ \A x \in DOMAIN h.sessions : \E g \in 1..m : n[g] = x
    /\ \A f, g \in 1..m : n[f] = n[g] => f = g

EachWindow(m, n, fs, h, read) ==
    /\ m \in Nat /\ fs = [g \in 1..m |-> fs[g]]
    /\ \A g \in 1..m : n[g] \in DOMAIN h.windows /\ IsWindowHeld(h, n[g], read, fs[g])
    /\ \A x \in DOMAIN h.windows : \E g \in 1..m : n[g] = x
    /\ \A f, g \in 1..m : n[f] = n[g] => f = g

\* What a list of sessions says of those it was made from.
SessionsAre(fs, h) ==
    /\ {[name |-> session.name, group |-> session.group,
         links |-> {<<l.index, l.window>> : l \in ToSet(session.links)},
         active |-> session.active, last |-> session.last] :
           session \in ToSet(fs)} = SessionsHeld(h)
    /\ fs # <<>> /\ ~ HasDuplicate(Names(fs))
    /\ ToSet(Names(fs)) = DOMAIN h.sessions
    /\ Linked(fs) = DOMAIN h.windows

LEMMA SessionsKeptAreHeld ==
    ASSUME NEW h, IsServer(h), NEW m, NEW n, NEW fs, EachSession(m, n, fs, h)
    PROVE  SessionsAre(fs, h)
  <1> DEFINE kept(s) == [name |-> s.name, group |-> s.group,
                         links |-> {<<l.index, l.window>> : l \in ToSet(s.links)},
                         active |-> s.active, last |-> s.last]
             held(x) == [name |-> x, group |-> h.sessions[x].group,
                         links |-> {<<i, h.sessions[x].links[i]>> :
                                       i \in DOMAIN h.sessions[x].links},
                         active |-> h.sessions[x].active, last |-> h.sessions[x].last]
             names == Names(fs)
  <1>1. /\ m \in Nat /\ DOMAIN fs = 1..m
        /\ \A g \in 1..m : n[g] \in DOMAIN h.sessions /\ IsSessionHeld(h, n[g], fs[g])
        /\ \A x \in DOMAIN h.sessions : \E g \in 1..m : n[g] = x
        /\ \A f, g \in 1..m : n[f] = n[g] => f = g
    BY DEF EachSession
  <1>2. ASSUME NEW g \in 1..m
        PROVE  kept(fs[g]) = held(n[g])
    <2>1. IsSessionHeld(h, n[g], fs[g])
      BY <1>1
    <2> QED
      BY <2>1 DEF IsSessionHeld
  <1>3. ToSet(fs) = {fs[g] : g \in 1..m}
    BY <1>1 DEF ToSet
  <1>4. SessionsHeld(h) = {held(x) : x \in DOMAIN h.sessions}
    BY DEF SessionsHeld
  <1> HIDE DEF kept, held
  <1>5. {kept(s) : s \in ToSet(fs)} = SessionsHeld(h)
    BY <1>1, <1>2, <1>3, <1>4
  <1>6. fs # <<>> /\ 1..m # {}
    <2>1. PICK x \in DOMAIN h.sessions : TRUE
      BY DEF IsServer
    <2>2. PICK g \in 1..m : n[g] = x
      BY <1>1
    <2>3. DOMAIN <<>> = {}
      OBVIOUS
    <2> QED
      BY <1>1, <2>2, <2>3
  <1>7. DOMAIN names = 1..m /\ \A g \in 1..m : names[g] = n[g]
    <2>1. \A g \in 1..m : fs[g].name = n[g]
      BY <1>1 DEF IsSessionHeld
    <2> QED
      BY <1>1, <2>1 DEF Names
  <1> HIDE DEF names
  <1>8. ~ HasDuplicate(names)
    <2>1. \A f, g \in 1..m : f < g => n[f] # n[g]
      BY <1>1
    <2> QED
      BY <1>7, <2>1 DEF HasDuplicate
  <1>9. ToSet(names) = DOMAIN h.sessions
    BY <1>1, <1>7 DEF ToSet
  <1>10. Linked(fs) = DOMAIN h.windows
    <2> DEFINE windows(s) == {l.window : l \in ToSet(s.links)}
    <2>1. \A g \in 1..m : windows(fs[g]) = Range(h.sessions[n[g]].links)
      BY <1>1 DEF IsSessionHeld
    <2>2. Linked(fs) = UNION {windows(s) : s \in ToSet(fs)}
      BY DEF Linked
    <2> HIDE DEF windows
    <2>3. ASSUME NEW x
          PROVE  x \in Linked(fs) <=> \E g \in 1..m : x \in Range(h.sessions[n[g]].links)
      BY <1>3, <2>1, <2>2
    <2>4. ASSUME NEW x \in DOMAIN h.windows
          PROVE  \E g \in 1..m : x \in Range(h.sessions[n[g]].links)
      <3>1. PICK name \in DOMAIN h.sessions : x \in Range(h.sessions[name].links)
        BY DEF IsServer, IsWindowOf
      <3>2. PICK g \in 1..m : n[g] = name
        BY <1>1
      <3> QED
        BY <3>1, <3>2
    <2>5. \A g \in 1..m : Range(h.sessions[n[g]].links) \subseteq DOMAIN h.windows
      BY <1>1 DEF IsServer, IsSessionOf
    <2> QED
      BY <2>3, <2>4, <2>5
  <1> QED
    BY <1>5, <1>6, <1>8, <1>9, <1>10 DEF SessionsAre, names, kept

\* What a list of windows says of those it was made from.
WindowsAre(fs, h, read) ==
    /\ {[id |-> w.id, made |-> w.made, name |-> w.name, layout |-> w.layout,
         zoomed |-> w.zoomed,
         panes |-> {<<p.index, p.id, p.cwd>> : p \in ToSet(w.panes)},
         active |-> (CHOOSE p \in ToSet(w.panes) : p.index = w.active).id] :
           w \in ToSet(fs)} = WindowsHeld(h)
    /\ Len(fs) = Cardinality(DOMAIN h.windows)
    /\ fs # <<>> /\ ~ HasDuplicate(Ids(fs))
    /\ ToSet(Ids(fs)) = DOMAIN h.windows
    /\ \A p \in UNION {ToSet(w.panes) : w \in ToSet(fs)} :
          /\ p.id \in IdsOf(ListPanes(h))
          /\ p.foreground = read[p.id].foreground /\ p.content = read[p.id].content

LEMMA WindowsKeptAreHeld ==
    ASSUME NEW h, IsServer(h), NEW read, NEW m, NEW n, NEW fs,
           EachWindow(m, n, fs, h, read)
    PROVE  WindowsAre(fs, h, read)
  <1> DEFINE kept(w) ==
                [id |-> w.id, made |-> w.made, name |-> w.name, layout |-> w.layout,
                 zoomed |-> w.zoomed,
                 panes |-> {<<p.index, p.id, p.cwd>> : p \in ToSet(w.panes)},
                 active |-> (CHOOSE p \in ToSet(w.panes) : p.index = w.active).id]
             held(w) ==
                [id |-> w, made |-> h.windows[w].made, name |-> h.windows[w].name,
                 layout |-> h.windows[w].layout, zoomed |-> h.windows[w].zoomed,
                 panes |-> {<<i - 1, h.windows[w].panes[i],
                              h.panes[h.windows[w].panes[i]].cwd>> :
                                 i \in DOMAIN h.windows[w].panes},
                 active |-> h.windows[w].active]
             ids == Ids(fs)
  <1>1. /\ m \in Nat /\ DOMAIN fs = 1..m
        /\ \A g \in 1..m : n[g] \in DOMAIN h.windows /\ IsWindowHeld(h, n[g], read, fs[g])
        /\ \A x \in DOMAIN h.windows : \E g \in 1..m : n[g] = x
        /\ \A f, g \in 1..m : n[f] = n[g] => f = g
    BY DEF EachWindow
  <1>2. ASSUME NEW g \in 1..m
        PROVE  kept(fs[g]) = held(n[g])
    <2>1. IsWindowHeld(h, n[g], read, fs[g])
      BY <1>1
    <2> QED
      BY <2>1 DEF IsWindowHeld
  <1>3. ToSet(fs) = {fs[g] : g \in 1..m}
    BY <1>1 DEF ToSet
  <1>4. WindowsHeld(h) = {held(x) : x \in DOMAIN h.windows}
    BY DEF WindowsHeld
  <1> HIDE DEF kept, held
  <1>5. {kept(s) : s \in ToSet(fs)} = WindowsHeld(h)
    BY <1>1, <1>2, <1>3, <1>4
  <1>6. 1..m # {}
    <2>1. PICK x \in DOMAIN h.sessions : TRUE
      BY DEF IsServer
    <2>2. PICK i \in DOMAIN h.sessions[x].links : TRUE
      BY DEF IsServer, IsSessionOf
    <2>3. h.sessions[x].links[i] \in DOMAIN h.windows
      BY EachLinkIsListed
    <2> QED
      BY <1>1, <2>3
  <1>7. fs # <<>>
    <2>1. DOMAIN <<>> = {}
      OBVIOUS
    <2> QED
      BY <1>1, <1>6, <2>1
  <1>8. DOMAIN ids = 1..m /\ \A g \in 1..m : ids[g] = n[g]
    <2>1. \A g \in 1..m : fs[g].id = n[g]
      BY <1>1 DEF IsWindowHeld
    <2> QED
      BY <1>1, <2>1 DEF Ids
  <1> HIDE DEF ids
  <1>9. ~ HasDuplicate(ids)
    <2>1. \A f, g \in 1..m : f < g => n[f] # n[g]
      BY <1>1
    <2> QED
      BY <1>8, <2>1 DEF HasDuplicate
  <1>10. ToSet(ids) = DOMAIN h.windows
    <2>1. ToSet(ids) = {n[g] : g \in 1..m}
      BY <1>8 DEF ToSet
    <2> QED
      BY <1>1, <2>1
  <1>11. Cardinality(DOMAIN h.windows) = m
    <2> DEFINE S == DOMAIN h.windows
               f == [g \in 1..m |-> n[g]]
    <2>1. f \in [1..m -> S] /\ \A g \in 1..m : f[g] = n[g]
      BY <1>1
    <2> HIDE DEF f
    <2>2. /\ \A x \in S : \E g \in 1..m : f[g] = x
          /\ \A j, k \in 1..m : f[j] = f[k] => j = k
      BY <1>1, <2>1
    <2> HIDE DEF S
    <2>3. Cardinality(S) = m
      BY <1>1, <2>1, <2>2, Counted
    <2> QED
      BY <2>3 DEF S
  <1>12. fs \in Seq(ToSet(fs)) /\ Len(fs) = m
    <2> DEFINE T == ToSet(fs)
    <2>1. \A g \in 1..m : fs[g] \in T
      BY <1>3
    <2>2. fs = [g \in 1..m |-> fs[g]]
      BY DEF EachWindow
    <2> HIDE DEF T
    <2>3. fs \in [1..m -> T]
      BY <2>1, <2>2
    <2>4. fs \in Seq(T) /\ Len(fs) = m
      BY <1>1, <2>3, FunctionIsSeq
    <2> QED
      BY <2>4 DEF T
  <1>13. ASSUME NEW p \in UNION {ToSet(w.panes) : w \in ToSet(fs)}
         PROVE  /\ p.id \in IdsOf(ListPanes(h))
                /\ p.foreground = read[p.id].foreground /\ p.content = read[p.id].content
    <2>1. PICK g \in 1..m : p \in ToSet(fs[g].panes)
      BY <1>3
    <2>2. /\ p.id \in ToSet(h.windows[n[g]].panes) /\ n[g] \in DOMAIN h.windows
          /\ p.foreground = read[p.id].foreground /\ p.content = read[p.id].content
      <3>1. n[g] \in DOMAIN h.windows /\ IsWindowHeld(h, n[g], read, fs[g])
        BY <1>1
      <3> QED
        BY <2>1, <3>1 DEF IsWindowHeld
    <2> QED
      BY <2>2, ListedPanes
  <1> QED
    BY <1>5, <1>7, <1>9, <1>10, <1>11, <1>12, <1>13 DEF WindowsAre, ids, kept

FoldsTo(f, h, read) == SessionsAre(f.sessions, h) /\ WindowsAre(f.windows, h, read)

\* Whatever was read of the panes, the rows of a listing fold, into the
\* server that was listed and into what was read.
THEOREM ListingsFold ==
    ASSUME NEW h, IsServer(h), NEW read
    PROVE  \E f : Fold(ListPanes(h), read) = Some(f) /\ FoldsTo(f, h, read)
  <1> DEFINE listing == ListPanes(h)
             bySession == GroupBy(listing, {"session"})
             byWindow == GroupBy(listing, {"window_id"})
             sessions == [i \in DOMAIN bySession |-> FoldSession(bySession[i])]
             windows == [i \in DOMAIN byWindow |-> FoldWindow(byWindow[i], read)]
             j == Len(bySession)
             k == Len(byWindow)
             ss == [i \in DOMAIN sessions |-> sessions[i][1]]
             ws == [i \in DOMAIN windows |-> windows[i][1]]
  <1>1. PICK n : /\ Sorts(n, bySession, DOMAIN h.sessions)
                 /\ \A g \in 1..j : IsListing(bySession[g], h, OfSession(h, n[g]))
    BY BySession
  <1>2. PICK v : /\ Sorts(v, byWindow, DOMAIN h.windows)
                 /\ \A g \in 1..k : IsListing(byWindow[g], h, OfWindow(h, v[g]))
    BY ByWindow
  <1> HIDE DEF bySession, byWindow
  <1>3. /\ j \in Nat /\ DOMAIN bySession = 1..j
        /\ \A g \in 1..j : n[g] \in DOMAIN h.sessions
        /\ \A x \in DOMAIN h.sessions : \E g \in 1..j : n[g] = x
        /\ \A f, g \in 1..j : n[f] = n[g] => f = g
    BY <1>1 DEF Sorts
  <1>4. /\ k \in Nat /\ DOMAIN byWindow = 1..k
        /\ \A g \in 1..k : v[g] \in DOMAIN h.windows
        /\ \A x \in DOMAIN h.windows : \E g \in 1..k : v[g] = x
        /\ \A f, g \in 1..k : v[f] = v[g] => f = g
    BY <1>2 DEF Sorts
  <1> HIDE DEF j, k
  <1>5. \A x, y : Some(x) = Some(y) => x = y
    BY DEF Some
  <1>6. \A x : Some(x)[1] = x /\ Some(x) # None
    BY DEF Some, None
  <1>7. ASSUME NEW g \in 1..j
        PROVE  sessions[g] # None /\ IsSessionHeld(h, n[g], ss[g])
    <2>1. PICK s : FoldSession(bySession[g]) = Some(s) /\ IsSessionHeld(h, n[g], s)
      BY <1>1, <1>3, SessionFolds DEF j
    <2>2. sessions[g] = Some(s)
      BY <1>3, <2>1
    <2>3. ss[g] = sessions[g][1]
      BY <1>3
    <2> HIDE DEF sessions, ss
    <2> QED
      BY <1>6, <2>1, <2>2, <2>3
  <1>8. ASSUME NEW g \in 1..k
        PROVE  windows[g] # None /\ IsWindowHeld(h, v[g], read, ws[g])
    <2>1. PICK x : FoldWindow(byWindow[g], read) = Some(x) /\ IsWindowHeld(h, v[g], read, x)
      BY <1>2, <1>4, WindowFolds DEF k
    <2>2. windows[g] = Some(x)
      BY <1>4, <2>1
    <2>3. ws[g] = windows[g][1]
      BY <1>4
    <2> HIDE DEF windows, ws
    <2> QED
      BY <1>6, <2>1, <2>2, <2>3
  <1>9. DOMAIN sessions = 1..j /\ DOMAIN windows = 1..k
    BY <1>3, <1>4
  <1>10. ss = [g \in 1..j |-> ss[g]] /\ ws = [g \in 1..k |-> ws[g]]
    BY <1>9
  <1> DEFINE f == [sessions |-> ss, windows |-> ws]
  <1>11. Fold(listing, read) =
            IF listing = <<>> \/ None \in ToSet(sessions) \cup ToSet(windows)
            THEN None ELSE Some(f)
    BY DEF Fold, bySession, byWindow
  <1>12. f.sessions = ss /\ f.windows = ws
    OBVIOUS
  <1> HIDE DEF sessions, windows, ss, ws, f
  <1>13. None \notin ToSet(sessions) \cup ToSet(windows)
    BY <1>7, <1>8, <1>9 DEF ToSet
  <1>14. listing # <<>>
    <2>1. PICK x \in DOMAIN h.sessions : TRUE
      BY DEF IsServer
    <2>2. PICK i \in DOMAIN h.sessions[x].links : TRUE
      BY DEF IsServer, IsSessionOf
    <2>3. Places(h) # {}
      BY EachLinkIsListed
    <2> QED
      BY <2>3, ListPanesFacts, FirstRow
  <1>15. EachSession(j, n, ss, h)
    BY <1>3, <1>7, <1>10 DEF EachSession
  <1>16. EachWindow(k, v, ws, h, read)
    BY <1>4, <1>8, <1>10 DEF EachWindow
  <1>17. SessionsAre(ss, h) /\ WindowsAre(ws, h, read)
    BY <1>15, <1>16, SessionsKeptAreHeld, WindowsKeptAreHeld
  <1> QED
    BY <1>11, <1>12, <1>13, <1>14, <1>17 DEF FoldsTo

-----------------------------------------------------------------------------
(***************************************************************************)
(* The order in which panes are read has every pane that was listed.       *)
(***************************************************************************)
LEMMA ConcatFacts ==
    ASSUME NEW T, NEW s \in Seq(T), NEW t \in Seq(T)
    PROVE  s \o t \in Seq(T) /\ ToSet(s \o t) = ToSet(s) \cup ToSet(t)
  <1>1. /\ s \o t \in Seq(T) /\ Len(s \o t) = Len(s) + Len(t)
        /\ Len(s) \in Nat /\ Len(t) \in Nat
        /\ DOMAIN s = 1 .. Len(s) /\ DOMAIN t = 1 .. Len(t)
        /\ DOMAIN (s \o t) = 1 .. Len(s) + Len(t)
    OBVIOUS
  <1>2. \A i \in 1 .. Len(s) + Len(t) :
           (s \o t)[i] = IF i <= Len(s) THEN s[i] ELSE t[i - Len(s)]
    OBVIOUS
  <1> DEFINE st == s \o t
  <1> HIDE DEF st
  <1>3. ASSUME NEW i \in DOMAIN st
        PROVE  st[i] \in ToSet(s) \cup ToSet(t)
    <2>1. i \in 1 .. Len(s) + Len(t)
      BY <1>1 DEF st
    <2>2. CASE i <= Len(s)
      <3>1. i \in DOMAIN s /\ st[i] = s[i]
        BY <1>1, <1>2, <2>1, <2>2 DEF st
      <3> QED
        BY <3>1 DEF ToSet
    <2>3. CASE ~ i <= Len(s)
      <3>1. i - Len(s) \in 1 .. Len(t)
        BY <1>1, <2>1, <2>3
      <3>2. i - Len(s) \in DOMAIN t /\ st[i] = t[i - Len(s)]
        BY <1>1, <1>2, <2>1, <2>3, <3>1 DEF st
      <3> QED
        BY <3>2 DEF ToSet
    <2> QED
      BY <2>2, <2>3
  <1>4. ASSUME NEW i \in DOMAIN s
        PROVE  \E j \in DOMAIN st : st[j] = s[i]
    <2>1. i \in 1 .. Len(s) + Len(t) /\ i <= Len(s)
      BY <1>1
    <2> QED
      BY <1>1, <1>2, <2>1 DEF st
  <1>5. ASSUME NEW i \in DOMAIN t
        PROVE  \E j \in DOMAIN st : st[j] = t[i]
    <2>1. i + Len(s) \in 1 .. Len(s) + Len(t) /\ ~ i + Len(s) <= Len(s)
            /\ (i + Len(s)) - Len(s) = i
      BY <1>1
    <2>2. st[i + Len(s)] = t[(i + Len(s)) - Len(s)]
      BY <1>2, <2>1 DEF st
    <2> QED
      BY <1>1, <2>1, <2>2 DEF st
  <1>6. ToSet(st) = ToSet(s) \cup ToSet(t)
    BY <1>3, <1>4, <1>5 DEF ToSet
  <1> QED
    BY <1>1, <1>6 DEF st

LEMMA FlattenFacts ==
    ASSUME NEW T, NEW seqs \in Seq(Seq(T))
    PROVE  /\ FlattenSeq(seqs) \in Seq(T)
           /\ ToSet(FlattenSeq(seqs)) = UNION {ToSet(seqs[i]) : i \in DOMAIN seqs}
  <1> DEFINE n == Len(seqs)
             flatten[i \in 1..n] == IF i = 1 THEN seqs[i] ELSE flatten[i - 1] \o seqs[i]
             Upto(k) == UNION {ToSet(seqs[j]) : j \in 1..k}
  <1>1. n \in Nat /\ DOMAIN seqs = 1..n /\ \A i \in 1..n : seqs[i] \in Seq(T)
    OBVIOUS
  <1>2. FlattenSeq(seqs) = IF n = 0 THEN seqs ELSE flatten[n]
    BY DEF FlattenSeq
  <1> HIDE DEF n
  <1>3. CASE n = 0
    <2>1. 1..n = {}
      BY <1>3
    <2>2. seqs = <<>>
      BY <1>1, <1>3 DEF n
    <2>3. FlattenSeq(seqs) = <<>> /\ DOMAIN seqs = {} /\ DOMAIN <<>> = {}
      BY <1>1, <1>2, <1>3, <2>1, <2>2
    <2> QED
      BY <2>3 DEF ToSet
  <1>4. CASE n # 0
    <2>1. flatten = [i \in 1..n |-> IF i = 1 THEN seqs[i] ELSE flatten[i - 1] \o seqs[i]]
      <3>1. \E f : Flattens(f, n, seqs)
        BY <1>1, FlattenIsDefined
      <3> QED
        BY <3>1 DEF Flattens
    <2> HIDE DEF flatten
    <2> DEFINE S == {k \in Nat : k + 1 \in 1..n =>
                        flatten[k + 1] \in Seq(T) /\ ToSet(flatten[k + 1]) = Upto(k + 1)}
    <2>2. S \in SUBSET Nat
      OBVIOUS
    <2>3. 0 \in S
      <3>1. flatten[1] = seqs[1] /\ seqs[1] \in Seq(T)
        BY <1>1, <1>4, <2>1
      <3>2. 1..1 = {1}
        OBVIOUS
      <3>3. Upto(1) = ToSet(seqs[1])
        BY <3>2
      <3> QED
        BY <3>1, <3>3
    <2>4. ASSUME NEW k \in S
          PROVE  k + 1 \in S
      <3>1. k \in Nat
        OBVIOUS
      <3> SUFFICES ASSUME (k + 1) + 1 \in 1..n
                   PROVE  /\ flatten[(k + 1) + 1] \in Seq(T)
                          /\ ToSet(flatten[(k + 1) + 1]) = Upto((k + 1) + 1)
        BY <3>1
      <3> DEFINE m == (k + 1) + 1
      <3>2. m \in 1..n /\ m # 1 /\ m - 1 = k + 1 /\ k + 1 \in 1..n
        BY <1>1, <3>1
      <3>3. flatten[k + 1] \in Seq(T) /\ ToSet(flatten[k + 1]) = Upto(k + 1)
        BY <3>2
      <3>4. flatten[m] = flatten[k + 1] \o seqs[m]
        BY <2>1, <3>2
      <3>5. seqs[m] \in Seq(T)
        BY <1>1, <3>2
      <3>6. 1..m = 1 .. (k + 1) \cup {m}
        BY <3>1
      <3> HIDE DEF m, S
      <3>7. Upto(m) = Upto(k + 1) \cup ToSet(seqs[m])
        BY <3>6
      <3> HIDE DEF Upto
      <3>8. /\ flatten[k + 1] \o seqs[m] \in Seq(T)
            /\ ToSet(flatten[k + 1] \o seqs[m]) = ToSet(flatten[k + 1]) \cup ToSet(seqs[m])
        BY <3>3, <3>5, ConcatFacts
      <3>9. flatten[m] \in Seq(T) /\ ToSet(flatten[m]) = Upto(m)
        BY <3>3, <3>4, <3>7, <3>8
      <3> QED
        BY <3>9 DEF m
    <2> HIDE DEF S
    <2>5. S = Nat
      BY <2>2, <2>3, <2>4, Induction
    <2>6. n - 1 \in Nat /\ (n - 1) + 1 = n /\ n \in 1..n
      BY <1>1, <1>4
    <2>7. flatten[n] \in Seq(T) /\ ToSet(flatten[n]) = Upto(n)
      <3>1. n - 1 \in S
        BY <2>5, <2>6
      <3> HIDE DEF Upto
      <3> QED
        BY <2>6, <3>1 DEF S
    <2> QED
      BY <1>1, <1>2, <1>4, <2>7
  <1> QED
    BY <1>3, <1>4

\* Rows of the listing, among them one of each pane.
LEMMA ReadingOrderFacts ==
    ASSUME NEW h, IsServer(h)
    PROVE  /\ ReadingOrder(ListPanes(h)) \in Seq(ToSet(ListPanes(h)))
           /\ IdsOf(ListPanes(h)) \subseteq IdsOf(ReadingOrder(ListPanes(h)))
  <1> DEFINE listing == ListPanes(h)
             R == ToSet(listing)
             groups == GroupBy(listing, {"window_id"})
             m == Len(groups)
             heads(i) == Heads(GroupBy(groups[i], {"pane_id"}))
             seqs == [i \in DOMAIN groups |-> heads(i)]
  <1>1. PICK n : /\ Sorts(n, groups, DOMAIN h.windows)
                 /\ \A g \in 1..m : IsListing(groups[g], h, OfWindow(h, n[g]))
    BY ByWindow
  <1>2. R = RowsAt(h, Places(h))
    BY ListPanesFacts, ListingIsSeq
  <1>3. ReadingOrder(listing) = FlattenSeq(seqs)
    BY DEF ReadingOrder
  <1> HIDE DEF groups, listing
  <1>4. /\ m \in Nat /\ DOMAIN groups = 1..m
        /\ \A g \in 1..m : n[g] \in DOMAIN h.windows
        /\ \A x \in DOMAIN h.windows : \E g \in 1..m : n[g] = x
    BY <1>1 DEF Sorts
  <1> HIDE DEF m, R
  <1>5. ASSUME NEW g \in 1..m
        PROVE  /\ heads(g) \in Seq(R)
               /\ \A p \in OfWindow(h, n[g]) :
                     \E row \in ToSet(heads(g)) : row.pane_id = PaneAt(h, p)
    <2> DEFINE s == heads(g)
               w == n[g]
    <2>1. w \in DOMAIN h.windows /\ IsListing(groups[g], h, OfWindow(h, w))
      BY <1>1, <1>4 DEF m
    <2>2. PICK v : PaneHeads(v, s, h, w)
      BY <2>1, HeadsOfWindow
    <2> HIDE DEF s
    <2> DEFINE size == Len(s)
    <2>3. /\ s = [k \in 1..size |-> RowOf(h, v[k])] /\ size \in Nat
          /\ \A k \in 1..size : v[k] \in OfWindow(h, w)
                                  /\ PaneAt(h, v[k]) = h.windows[w].panes[v[k][3]]
          /\ \A k \in DOMAIN h.windows[w].panes : \E j \in 1..size : v[j][3] = k
      BY <2>2 DEF PaneHeads
    <2> HIDE DEF size
    <2>4. \A k \in 1..size : RowOf(h, v[k]) \in R
      BY <1>2, <2>3 DEF OfWindow, RowsAt
    <2>5. s \in [1..size -> R]
      BY <2>3, <2>4
    <2>6. s \in Seq(R)
      BY <2>3, <2>5, FunctionIsSeq
    <2>7. ASSUME NEW p \in OfWindow(h, w)
          PROVE  \E row \in ToSet(s) : row.pane_id = PaneAt(h, p)
      <3>1. p[3] \in DOMAIN h.windows[w].panes
              /\ PaneAt(h, p) = h.windows[w].panes[p[3]]
        BY <2>1, WindowPlaces
      <3>2. PICK j \in 1..size : v[j][3] = p[3]
        BY <2>3, <3>1
      <3>3. s[j] = RowOf(h, v[j]) /\ PaneAt(h, v[j]) = PaneAt(h, p) /\ s[j] \in ToSet(s)
        BY <2>3, <3>1, <3>2 DEF ToSet
      <3>4. s[j].pane_id = PaneAt(h, p)
        BY <3>3, RowFacts
      <3> QED
        BY <3>3, <3>4
    <2> QED
      BY <2>6, <2>7 DEF s
  <1> HIDE DEF heads
  <1>6. /\ seqs = [g \in 1..m |-> seqs[g]] /\ \A g \in 1..m : seqs[g] = heads(g)
        /\ DOMAIN seqs = 1..m
    BY <1>4
  <1> HIDE DEF seqs
  <1>7. seqs \in Seq(Seq(R))
    <2>1. seqs \in [1..m -> Seq(R)]
      BY <1>5, <1>6
    <2> QED
      BY <1>4, <2>1, FunctionIsSeq
  <1>8. /\ FlattenSeq(seqs) \in Seq(R)
        /\ ToSet(FlattenSeq(seqs)) = UNION {ToSet(seqs[i]) : i \in 1..m}
    BY <1>6, <1>7, FlattenFacts
  <1>9. ASSUME NEW row \in R
        PROVE  row.pane_id \in IdsOf(ReadingOrder(listing))
    <2>1. PICK p \in Places(h) : row = RowOf(h, p)
      BY <1>2 DEF RowsAt
    <2>2. row.pane_id = PaneAt(h, p) /\ WindowAt(h, p) \in DOMAIN h.windows
      BY <2>1, PlaceFacts, RowFacts
    <2>3. PICK g \in 1..m : n[g] = WindowAt(h, p)
      BY <1>4, <2>2
    <2>4. p \in OfWindow(h, n[g])
      BY <2>3 DEF OfWindow
    <2>5. PICK other \in ToSet(seqs[g]) : other.pane_id = row.pane_id
      BY <1>5, <1>6, <2>2, <2>4
    <2>6. other \in ToSet(ReadingOrder(listing))
      BY <1>3, <1>8, <2>5
    <2> QED
      BY <2>5, <2>6 DEF IdsOf
  <1> QED
    BY <1>3, <1>8, <1>9 DEF IdsOf, R, listing

-----------------------------------------------------------------------------
(***************************************************************************)
(* Whatever the user does leaves a server, and what is gone stays gone.    *)
(***************************************************************************)
\* next is the same server, later, or another that took its socket.
MovesOn(now, next) ==
    /\ IsServer(next)
    /\ \/ next.id = now.id /\ IsLater(now, next)
       \/ next.id.pid = now.id.pid + 1

\* A session and a window stay what they are in a server that has as much.
LEMMA SessionsStay ==
    ASSUME NEW h, NEW g, NEW s, IsSessionOf(h, s),
           DOMAIN h.windows \subseteq DOMAIN g.windows
    PROVE  IsSessionOf(g, s)
  BY DEF IsSessionOf

LEMMA WindowsStay ==
    ASSUME NEW h, NEW g, NEW w, NEW x, IsWindowOf(h, w, x),
           ToSet(x.panes) \subseteq DOMAIN g.panes,
           \E name \in DOMAIN g.sessions : w \in Range(g.sessions[name].links)
    PROVE  IsWindowOf(g, w, x)
  <1>1. x.panes \in Seq(DOMAIN g.panes)
    <2> DEFINE s == x.panes
    <2>1. s \in Seq(DOMAIN h.panes) /\ ToSet(s) \subseteq DOMAIN g.panes
      BY DEF IsWindowOf
    <2> HIDE DEF s
    <2>2. \A i \in 1 .. Len(s) : s[i] \in DOMAIN g.panes
      BY <2>1 DEF ToSet
    <2>3. s \in Seq(DOMAIN g.panes)
      BY <2>1, <2>2
    <2> QED
      BY <2>3 DEF s
  <1> QED
    BY <1>1 DEF IsWindowOf

\* Nothing of a server changes but its panes, and each stays a pane.
LEMMA PanesChange ==
    ASSUME NEW h, IsServer(h), NEW p \in DOMAIN h.panes, NEW new,
           DOMAIN new = {"cwd", "process", "text"}, new.process.turns \in Nat,
           h.panes[p].process.turns <= new.process.turns,
           h.panes[p].process.turns = new.process.turns
              => h.panes[p].process = new.process
    PROVE  MovesOn(h, [h EXCEPT !.panes = Put(@, p, new)])
  <1> DEFINE panes == Put(h.panes, p, new)
             g == [h EXCEPT !.panes = panes]
  <1>1. /\ DOMAIN panes = DOMAIN h.panes /\ panes[p] = new
        /\ \A q \in DOMAIN h.panes : q # p => panes[q] = h.panes[q]
    BY DEF Put
  <1> HIDE DEF panes
  <1>2. DOMAIN h = {"id", "mark", "version", "fresh", "sessions", "windows",
                    "panes", "clients"}
    BY DEF IsServer
  <1>3. /\ DOMAIN g = DOMAIN h /\ g.id = h.id /\ g.mark = h.mark /\ g.fresh = h.fresh
        /\ g.sessions = h.sessions /\ g.windows = h.windows /\ g.panes = panes
    BY <1>2
  <1> HIDE DEF g
  <1>4. \A name \in DOMAIN g.sessions : IsSessionOf(g, g.sessions[name])
    BY <1>3, SessionsStay DEF IsServer
  <1>5. \A w \in DOMAIN g.windows : IsWindowOf(g, w, g.windows[w])
    BY <1>1, <1>3 DEF IsServer, IsWindowOf
  <1>6. \A q \in DOMAIN g.panes :
           DOMAIN g.panes[q] = {"cwd", "process", "text"} /\ g.panes[q].process.turns \in Nat
    BY <1>1, <1>3 DEF IsServer
  <1>7. IsServer(g)
    BY <1>1, <1>3, <1>4, <1>5, <1>6 DEF IsServer
  <1>8. IsLater(h, g)
    <2>1. g.fresh = h.fresh /\ h.fresh \in Nat
      BY <1>3 DEF IsServer
    <2>2. ASSUME NEW q \in DOMAIN g.panes
          PROVE  SameSince(h, g, q)
      <3>1. q \in DOMAIN h.panes /\ h.panes[q].process.turns \in Nat
        BY <1>1, <1>3 DEF IsServer
      <3>2. CASE q = p
        BY <1>1, <1>3, <3>1, <3>2 DEF SameSince
      <3>3. CASE q # p
        <4>1. g.panes[q] = h.panes[q]
          BY <1>1, <1>3, <3>1, <3>3
        <4> QED
          BY <3>1, <4>1 DEF SameSince
      <3> QED
        BY <3>2, <3>3
    <2> QED
      BY <2>1, <2>2 DEF IsLater
  <1>9. MovesOn(h, g)
    BY <1>3, <1>7, <1>8 DEF MovesOn
  <1> QED
    BY <1>9 DEF g, panes

LEMMA WriteTextMoves ==
    ASSUME IsServer(server), NEW p \in DOMAIN server.panes, NEW text, WriteText(p, text)
    PROVE  MovesOn(server, server')
  <1> DEFINE old == server.panes[p]
             new == [old EXCEPT !.text = text]
  <1>1. DOMAIN old = {"cwd", "process", "text"} /\ old.process.turns \in Nat
    BY DEF IsServer
  <1>2. server' = [server EXCEPT !.panes = Put(@, p, new)]
    BY DEF WriteText
  <1>3. DOMAIN new = {"cwd", "process", "text"} /\ new.process = old.process
    BY <1>1
  <1>4. old.process.turns <= old.process.turns
    BY <1>1
  <1> HIDE DEF new
  <1> QED
    BY <1>1, <1>2, <1>3, <1>4, PanesChange

LEMMA RunInMoves ==
    ASSUME IsServer(server), NEW p \in DOMAIN server.panes, NEW holder, NEW led,
           RunIn(p, holder, led)
    PROVE  MovesOn(server, server')
  <1> DEFINE old == server.panes[p]
             process == [holder |-> holder, led |-> led, turns |-> old.process.turns + 1]
             new == [old EXCEPT !.process = process]
  <1>1. DOMAIN old = {"cwd", "process", "text"} /\ old.process.turns \in Nat
    BY DEF IsServer
  <1>2. server' = [server EXCEPT !.panes = Put(@, p, new)]
    BY DEF RunIn
  <1>3. DOMAIN new = {"cwd", "process", "text"} /\ new.process = process
    BY <1>1
  <1>4. process.turns = old.process.turns + 1
    OBVIOUS
  <1> HIDE DEF new, process
  <1>5. /\ new.process.turns \in Nat /\ old.process.turns <= new.process.turns
        /\ old.process.turns # new.process.turns
    BY <1>1, <1>3, <1>4
  <1> QED
    BY <1>1, <1>2, <1>3, <1>5, PanesChange

\* Nothing of a server changes but its windows' and sessions' records.
LEMMA RecordsChange ==
    ASSUME NEW h, IsServer(h), NEW g,
           DOMAIN g = DOMAIN h, g.id = h.id, g.fresh = h.fresh, g.panes = h.panes,
           Len(g.mark) <= 1 \/ g.mark = <<0, 0>>,
           DOMAIN g.sessions = DOMAIN h.sessions, DOMAIN g.windows = DOMAIN h.windows,
           \A name \in DOMAIN g.sessions :
              /\ IsSessionOf(h, g.sessions[name])
              /\ Range(h.sessions[name].links) \subseteq Range(g.sessions[name].links),
           \A w \in DOMAIN g.windows :
              IsWindowOf(h, w, g.windows[w]) /\ g.windows[w].panes = h.windows[w].panes
    PROVE  MovesOn(h, g)
  <1>1. \A name \in DOMAIN g.sessions : IsSessionOf(g, g.sessions[name])
    BY SessionsStay
  <1>2. ASSUME NEW w \in DOMAIN g.windows
        PROVE  IsWindowOf(g, w, g.windows[w])
    <2>1. \E name \in DOMAIN g.sessions : w \in Range(g.sessions[name].links)
      BY DEF IsWindowOf
    <2>2. ToSet(g.windows[w].panes) \subseteq DOMAIN g.panes
      <3> DEFINE s == g.windows[w].panes
      <3>1. s \in Seq(DOMAIN g.panes)
        BY DEF IsWindowOf
      <3> HIDE DEF s
      <3>2. ToSet(s) \subseteq DOMAIN g.panes
        BY <3>1 DEF ToSet
      <3> QED
        BY <3>2 DEF s
    <2> QED
      BY <2>1, <2>2, WindowsStay
  <1>3. \A w \in DOMAIN g.windows : \A v \in DOMAIN g.windows \ {w} :
           ToSet(g.windows[v].panes) \cap ToSet(g.windows[w].panes) = {}
    BY DEF IsServer
  <1>4. IsServer(g)
    BY <1>1, <1>2, <1>3 DEF IsServer
  <1>5. IsLater(h, g)
    BY DEF IsServer, IsLater, SameSince
  <1> QED
    BY <1>4, <1>5 DEF MovesOn

\* A set of numbers that is finite and has one has a greatest.
LEMMA GreatestElement ==
    ASSUME NEW S \in SUBSET Nat, IsFiniteSet(S), S # {}
    PROVE  Max(S) \in S /\ \A n \in S : n <= Max(S)
  <1> DEFINE n == Cardinality(S)
             order == Ascending(S)
  <1>1. /\ n \in Nat /\ Enumerates(order, S)
        /\ \A j, k \in 1..n : j < k => order[j] < order[k]
    BY AscendingFacts
  <1>2. n # 0
    BY FS_EmptySet
  <1>3. n \in 1..n
    BY <1>1, <1>2
  <1>4. order[n] \in S
    BY <1>1, <1>3 DEF Enumerates
  <1>5. ASSUME NEW x \in S
        PROVE  order[n] >= x
    <2>1. PICK k \in 1..n : order[k] = x
      BY <1>1 DEF Enumerates
    <2>2. k = n \/ k < n
      BY <1>1
    <2>3. order[n] \in Nat /\ x \in Nat
      BY <1>4
    <2> HIDE DEF n, order
    <2> QED
      BY <1>1, <1>3, <2>1, <2>2, <2>3
  <1>6. \E x \in S : \A y \in S : x >= y
    BY <1>4, <1>5
  <1>7. Max(S) \in S /\ \A y \in S : Max(S) >= y
    BY <1>6 DEF Max
  <1> QED
    BY <1>7

LEMMA LinkWindowMoves ==
    ASSUME IsServer(server), NEW name \in DOMAIN server.sessions,
           NEW w \in DOMAIN server.windows, LinkWindow(name, w)
    PROVE  MovesOn(server, server')
  <1> DEFINE h == server
             g == server'
             session == h.sessions[name]
             next == Max(DOMAIN session.links) + 1
             links == Put(session.links, next, w)
             new == [session EXCEPT !.links = links]
             sessions == Put(h.sessions, name, new)
  <1>1. IsSessionOf(h, session)
    BY DEF IsServer
  <1>2. next \in Nat /\ \A i \in DOMAIN session.links : i < next
    <2> DEFINE S == DOMAIN session.links
    <2>1. S \in SUBSET Nat /\ IsFiniteSet(S) /\ S # {}
      BY <1>1 DEF IsSessionOf
    <2> HIDE DEF S
    <2>2. Max(S) \in Nat /\ \A n \in S : n <= Max(S) /\ n \in Nat
      BY <2>1, GreatestElement
    <2> QED
      BY <2>2 DEF S
  <1>3. g = [h EXCEPT !.sessions = sessions]
    BY DEF LinkWindow
  <1>4. /\ DOMAIN links = DOMAIN session.links \cup {next} /\ links[next] = w
        /\ \A i \in DOMAIN session.links : links[i] = session.links[i]
    BY <1>2 DEF Put
  <1> HIDE DEF links, next
  <1>5. DOMAIN new = DOMAIN session /\ new.links = links /\ new.active = session.active
          /\ new.last = session.last
    BY <1>1 DEF IsSessionOf
  <1>6. DOMAIN sessions = DOMAIN h.sessions /\ sessions[name] = new
          /\ \A n \in DOMAIN h.sessions : n # name => sessions[n] = h.sessions[n]
    BY DEF Put
  <1> HIDE DEF new, sessions
  <1>7. /\ DOMAIN g = DOMAIN h /\ g.id = h.id /\ g.mark = h.mark /\ g.fresh = h.fresh
        /\ g.sessions = sessions /\ g.windows = h.windows /\ g.panes = h.panes
    BY <1>3 DEF IsServer
  <1>8. /\ Range(session.links) \subseteq Range(new.links)
        /\ Range(new.links) \subseteq DOMAIN h.windows
    BY <1>1, <1>4, <1>5 DEF Range, IsSessionOf
  <1>9. IsSessionOf(h, new)
    <2>1. DOMAIN new.links \in SUBSET Nat /\ IsFiniteSet(DOMAIN new.links)
      BY <1>1, <1>2, <1>4, <1>5, FS_AddElement DEF IsSessionOf
    <2>2. new.active \in DOMAIN new.links
      BY <1>1, <1>4, <1>5 DEF IsSessionOf
    <2>3. new.last \in {None} \cup {Some(i) : i \in DOMAIN new.links}
      BY <1>1, <1>4, <1>5 DEF IsSessionOf
    <2>4. DOMAIN new = {"group", "links", "active", "last"}
      BY <1>1, <1>5 DEF IsSessionOf
    <2> QED
      BY <1>8, <2>1, <2>2, <2>3, <2>4 DEF IsSessionOf
  <1>10. \A n \in DOMAIN g.sessions :
            /\ IsSessionOf(h, g.sessions[n])
            /\ Range(h.sessions[n].links) \subseteq Range(g.sessions[n].links)
    BY <1>6, <1>7, <1>8, <1>9 DEF IsServer
  <1>11. \A v \in DOMAIN g.windows :
            IsWindowOf(h, v, g.windows[v]) /\ g.windows[v].panes = h.windows[v].panes
    BY <1>7 DEF IsServer
  <1>12. Len(g.mark) <= 1 \/ g.mark = <<0, 0>>
    BY <1>7 DEF IsServer
  <1>13. DOMAIN g.sessions = DOMAIN h.sessions /\ DOMAIN g.windows = DOMAIN h.windows
    BY <1>6, <1>7
  <1> HIDE DEF h, g
  <1> QED
    BY <1>7, <1>10, <1>11, <1>12, <1>13, RecordsChange DEF g, h

LEMMA SelectWindowMoves ==
    ASSUME IsServer(server), NEW name \in DOMAIN server.sessions,
           NEW index \in DOMAIN server.sessions[name].links, SelectWindow(name, index)
    PROVE  MovesOn(server, server')
  <1> DEFINE h == server
             g == server'
             session == h.sessions[name]
             before == Some(session.active)
             new == [session EXCEPT !.active = index, !.last = before]
             sessions == Put(h.sessions, name, new)
  <1>1. IsSessionOf(h, session)
    BY DEF IsServer
  <1>2. g = [h EXCEPT !.sessions = sessions]
    BY DEF SelectWindow
  <1>3. before \in {Some(i) : i \in DOMAIN session.links}
    BY <1>1 DEF IsSessionOf
  <1> HIDE DEF before
  <1>4. DOMAIN new = DOMAIN session /\ new.links = session.links /\ new.active = index
          /\ new.last = before
    BY <1>1 DEF IsSessionOf
  <1>5. DOMAIN sessions = DOMAIN h.sessions /\ sessions[name] = new
          /\ \A n \in DOMAIN h.sessions : n # name => sessions[n] = h.sessions[n]
    BY DEF Put
  <1> HIDE DEF new, sessions
  <1>6. /\ DOMAIN g = DOMAIN h /\ g.id = h.id /\ g.mark = h.mark /\ g.fresh = h.fresh
        /\ g.sessions = sessions /\ g.windows = h.windows /\ g.panes = h.panes
    BY <1>2 DEF IsServer
  <1>7. IsSessionOf(h, new)
    BY <1>1, <1>3, <1>4 DEF IsSessionOf
  <1>8. \A n \in DOMAIN g.sessions :
           /\ IsSessionOf(h, g.sessions[n])
           /\ Range(h.sessions[n].links) \subseteq Range(g.sessions[n].links)
    BY <1>4, <1>5, <1>6, <1>7 DEF IsServer
  <1>9. \A v \in DOMAIN g.windows :
           IsWindowOf(h, v, g.windows[v]) /\ g.windows[v].panes = h.windows[v].panes
    BY <1>6 DEF IsServer
  <1>10. Len(g.mark) <= 1 \/ g.mark = <<0, 0>>
    BY <1>6 DEF IsServer
  <1>11. DOMAIN g.sessions = DOMAIN h.sessions /\ DOMAIN g.windows = DOMAIN h.windows
    BY <1>5, <1>6
  <1> HIDE DEF h, g
  <1> QED
    BY <1>6, <1>8, <1>9, <1>10, <1>11, RecordsChange DEF g, h

LEMMA MarkServerMoves ==
    ASSUME IsServer(server), NEW mark \in {Some(1), <<0, 0>>}, MarkServer(mark)
    PROVE  MovesOn(server, server')
  <1> DEFINE h == server
             g == server'
  <1>1. g = [h EXCEPT !.mark = mark]
    BY DEF MarkServer
  <1>2. /\ DOMAIN g = DOMAIN h /\ g.id = h.id /\ g.mark = mark /\ g.fresh = h.fresh
        /\ g.sessions = h.sessions /\ g.windows = h.windows /\ g.panes = h.panes
    BY <1>1 DEF IsServer
  <1>3. Len(g.mark) <= 1 \/ g.mark = <<0, 0>>
    <2>1. Len(<<1>>) = 1 /\ 1 <= 1
      OBVIOUS
    <2>2. mark = <<1>> \/ mark = <<0, 0>>
      BY DEF Some
    <2> QED
      BY <1>2, <2>1, <2>2
  <1>4. \A n \in DOMAIN g.sessions :
           /\ IsSessionOf(h, g.sessions[n])
           /\ Range(h.sessions[n].links) \subseteq Range(g.sessions[n].links)
    BY <1>2 DEF IsServer
  <1>5. \A v \in DOMAIN g.windows :
           IsWindowOf(h, v, g.windows[v]) /\ g.windows[v].panes = h.windows[v].panes
    BY <1>2 DEF IsServer
  <1> HIDE DEF h, g
  <1> QED
    BY <1>2, <1>3, <1>4, <1>5, RecordsChange DEF g, h

LEMMA MarkWindowMoves ==
    ASSUME IsServer(server), NEW w \in DOMAIN server.windows,
           NEW made \in {<<1, w>>, << 0 >>}, MarkWindow(w, made)
    PROVE  MovesOn(server, server')
  <1> DEFINE h == server
             g == server'
             window == h.windows[w]
             new == [window EXCEPT !.made = made]
             windows == Put(h.windows, w, new)
  <1>1. IsWindowOf(h, w, window)
    BY DEF IsServer
  <1>2. g = [h EXCEPT !.windows = windows]
    BY DEF MarkWindow
  <1>3. Len(made) = 1 => made = <<0>>
    OBVIOUS
  <1>4. DOMAIN new = DOMAIN window /\ new.panes = window.panes /\ new.made = made
          /\ new.active = window.active
    BY <1>1 DEF IsWindowOf
  <1>5. DOMAIN windows = DOMAIN h.windows /\ windows[w] = new
          /\ \A n \in DOMAIN h.windows : n # w => windows[n] = h.windows[n]
    BY DEF Put
  <1> HIDE DEF new, windows
  <1>6. /\ DOMAIN g = DOMAIN h /\ g.id = h.id /\ g.mark = h.mark /\ g.fresh = h.fresh
        /\ g.sessions = h.sessions /\ g.windows = windows /\ g.panes = h.panes
    BY <1>2 DEF IsServer
  <1>7. IsWindowOf(h, w, new)
    BY <1>1, <1>3, <1>4 DEF IsWindowOf
  <1>8. \A n \in DOMAIN g.sessions :
           /\ IsSessionOf(h, g.sessions[n])
           /\ Range(h.sessions[n].links) \subseteq Range(g.sessions[n].links)
    BY <1>6 DEF IsServer
  <1>9. \A v \in DOMAIN g.windows :
           IsWindowOf(h, v, g.windows[v]) /\ g.windows[v].panes = h.windows[v].panes
    BY <1>4, <1>5, <1>6, <1>7 DEF IsServer
  <1>10. Len(g.mark) <= 1 \/ g.mark = <<0, 0>>
    BY <1>6 DEF IsServer
  <1>11. DOMAIN g.sessions = DOMAIN h.sessions /\ DOMAIN g.windows = DOMAIN h.windows
    BY <1>5, <1>6
  <1> HIDE DEF h, g
  <1> QED
    BY <1>6, <1>8, <1>9, <1>10, <1>11, RecordsChange DEF g, h

\* Ids that were not handed out yet are no window's and no pane's.
LEMMA FreshIsFree ==
    ASSUME NEW h, IsServer(h)
    PROVE  /\ h.fresh \in Nat
           /\ \A p \in DOMAIN h.windows \cup DOMAIN h.panes : p \in Nat /\ p < h.fresh
           /\ DOMAIN h.windows \cup DOMAIN h.panes \cup {h.fresh}
                 \subseteq 0 .. (h.fresh + 1) - 1
  <1>1. h.fresh \in Nat /\ DOMAIN h.windows \cup DOMAIN h.panes \subseteq 0 .. h.fresh - 1
    BY DEF IsServer
  <1>2. \A p \in 0 .. h.fresh - 1 : p \in Nat /\ p < h.fresh
    BY <1>1
  <1>3. \A p \in Nat : p <= h.fresh => p \in 0 .. (h.fresh + 1) - 1
    BY <1>1
  <1> QED
    BY <1>1, <1>2, <1>3

\* The panes of a window are panes.
LEMMA WindowsPanes ==
    ASSUME NEW h, IsServer(h), NEW w \in DOMAIN h.windows
    PROVE  ToSet(h.windows[w].panes) \subseteq DOMAIN h.panes
  <1> DEFINE s == h.windows[w].panes
  <1>1. s \in Seq(DOMAIN h.panes)
    BY DEF IsServer, IsWindowOf
  <1> HIDE DEF s
  <1>2. ToSet(s) \subseteq DOMAIN h.panes
    BY <1>1 DEF ToSet
  <1> QED
    BY <1>2 DEF s

\* A sequence with an element more, which it did not have.
LEMMA AppendFacts ==
    ASSUME NEW T, NEW s \in Seq(T), IsInjective(s), NEW x, x \notin ToSet(s)
    PROVE  /\ Append(s, x) \in Seq(T \cup {x}) /\ IsInjective(Append(s, x))
           /\ ToSet(Append(s, x)) = ToSet(s) \cup {x}
  <1> DEFINE n == Len(s)
             t == Append(s, x)
  <1>1. /\ n \in Nat /\ DOMAIN s = 1..n /\ DOMAIN t = 1 .. n + 1
        /\ t[n + 1] = x /\ \A i \in 1..n : t[i] = s[i]
        /\ t \in Seq(T \cup {x})
    OBVIOUS
  <1> HIDE DEF t, n
  <1>2. \A i \in 1 .. n + 1 : i = n + 1 \/ i \in 1..n
    BY <1>1
  <1>3. n + 1 \in 1 .. n + 1 /\ \A i \in 1..n : i \in 1 .. n + 1
    BY <1>1
  <1>4. ToSet(t) = ToSet(s) \cup {x}
    BY <1>1, <1>2, <1>3 DEF ToSet
  <1>5. \A i \in 1..n : s[i] # x
    BY <1>1 DEF ToSet
  <1>6. IsInjective(t)
    BY <1>1, <1>2, <1>5 DEF IsInjective
  <1> QED
    BY <1>1, <1>4, <1>6 DEF t

LEMMA SplitWindowMoves ==
    ASSUME IsServer(server), NEW w \in DOMAIN server.windows, SplitWindow(w)
    PROVE  MovesOn(server, server')
  <1> DEFINE h == server
             g == server'
             window == h.windows[w]
             s == Append(window.panes, h.fresh)
             x == [window EXCEPT !.panes = s, !.active = h.fresh]
             windows == Put(h.windows, w, x)
             panes == Put(h.panes, h.fresh, NewPane)
  <1>1. IsWindowOf(h, w, window)
    BY DEF IsServer
  <1>2. g = [h EXCEPT !.windows = windows, !.panes = panes, !.fresh = @ + 1]
    BY DEF SplitWindow
  <1>3. /\ h.fresh \in Nat /\ h.fresh \notin DOMAIN h.panes
        /\ DOMAIN h.windows \cup DOMAIN h.panes \cup {h.fresh} \subseteq 0 .. (h.fresh + 1) - 1
        /\ \A p \in DOMAIN h.panes : p \in Nat /\ p < h.fresh
    BY FreshIsFree
  <1>4. /\ s \in Seq(DOMAIN h.panes \cup {h.fresh}) /\ IsInjective(s)
        /\ ToSet(s) = ToSet(window.panes) \cup {h.fresh}
    <2>1. window.panes \in Seq(DOMAIN h.panes) /\ IsInjective(window.panes)
      BY <1>1 DEF IsWindowOf
    <2>2. h.fresh \notin ToSet(window.panes)
      BY <1>3, WindowsPanes
    <2> DEFINE t == window.panes
               T == DOMAIN h.panes
    <2> HIDE DEF t, T
    <2>3. /\ Append(t, h.fresh) \in Seq(T \cup {h.fresh}) /\ IsInjective(Append(t, h.fresh))
          /\ ToSet(Append(t, h.fresh)) = ToSet(t) \cup {h.fresh}
      BY <2>1, <2>2, AppendFacts DEF t, T
    <2> QED
      BY <2>3 DEF t, T
  <1> HIDE DEF s
  <1>5. DOMAIN x = DOMAIN window /\ x.panes = s /\ x.active = h.fresh /\ x.made = window.made
    BY <1>1 DEF IsWindowOf
  <1>6. /\ DOMAIN windows = DOMAIN h.windows /\ windows[w] = x
        /\ \A v \in DOMAIN h.windows : v # w => windows[v] = h.windows[v]
    BY DEF Put
  <1>7. /\ DOMAIN panes = DOMAIN h.panes \cup {h.fresh} /\ panes[h.fresh] = NewPane
        /\ \A p \in DOMAIN h.panes : panes[p] = h.panes[p]
    BY <1>3 DEF Put
  <1>8. DOMAIN NewPane = {"cwd", "process", "text"} /\ NewPane.process.turns \in Nat
    BY DEF NewPane
  <1> HIDE DEF x, windows, panes
  <1>9. /\ DOMAIN g = DOMAIN h /\ g.id = h.id /\ g.mark = h.mark /\ g.fresh = h.fresh + 1
        /\ g.sessions = h.sessions /\ g.windows = windows /\ g.panes = panes
    BY <1>2 DEF IsServer
  <1>10. DOMAIN h = {"id", "mark", "version", "fresh", "sessions", "windows",
                     "panes", "clients"}
    BY DEF IsServer
  <1> HIDE DEF g
  <1>11. \A n \in DOMAIN g.sessions : IsSessionOf(g, g.sessions[n])
    BY <1>6, <1>9, SessionsStay DEF IsServer
  <1>13. ASSUME NEW v \in DOMAIN g.windows
         PROVE  IsWindowOf(g, v, g.windows[v])
    <2>1. \E n \in DOMAIN g.sessions : v \in Range(g.sessions[n].links)
      BY <1>6, <1>9 DEF IsServer, IsWindowOf
    <2>2. CASE v = w
      <3>1. x.active \in ToSet(x.panes)
        BY <1>4, <1>5
      <3>2. x.panes \in Seq(DOMAIN g.panes) /\ IsInjective(x.panes)
        BY <1>4, <1>5, <1>7, <1>9
      <3> QED
        BY <1>1, <1>5, <1>6, <1>9, <2>1, <2>2, <3>1, <3>2 DEF IsWindowOf
    <2>3. CASE v # w
      <3>1. g.windows[v] = h.windows[v] /\ v \in DOMAIN h.windows
        BY <1>6, <1>9, <2>3
      <3>2. ToSet(h.windows[v].panes) \subseteq DOMAIN g.panes
        BY <1>7, <1>9, <3>1, WindowsPanes
      <3>3. IsWindowOf(h, v, h.windows[v])
        BY <3>1 DEF IsServer
      <3> QED
        BY <2>1, <3>1, <3>2, <3>3, WindowsStay
    <2> QED
      BY <2>2, <2>3
  <1>14. ASSUME NEW v \in DOMAIN g.windows, NEW u \in DOMAIN g.windows \ {v}
         PROVE  ToSet(g.windows[u].panes) \cap ToSet(g.windows[v].panes) = {}
    <2>1. u \in DOMAIN h.windows /\ v \in DOMAIN h.windows
      BY <1>6, <1>9
    <2>2. ToSet(h.windows[u].panes) \cap ToSet(h.windows[v].panes) = {}
      BY <2>1 DEF IsServer
    <2>3. h.fresh \notin ToSet(h.windows[u].panes) /\ h.fresh \notin ToSet(h.windows[v].panes)
      BY <1>3, <2>1, WindowsPanes
    <2>4. /\ ToSet(g.windows[u].panes) = IF u = w THEN ToSet(h.windows[u].panes) \cup {h.fresh}
                                         ELSE ToSet(h.windows[u].panes)
          /\ ToSet(g.windows[v].panes) = IF v = w THEN ToSet(h.windows[v].panes) \cup {h.fresh}
                                         ELSE ToSet(h.windows[v].panes)
      BY <1>4, <1>5, <1>6, <1>9, <2>1
    <2> QED
      BY <2>2, <2>3, <2>4
  <1>15. \A p \in DOMAIN g.panes :
            DOMAIN g.panes[p] = {"cwd", "process", "text"} /\ g.panes[p].process.turns \in Nat
    <2>1. \A p \in DOMAIN h.panes :
             DOMAIN h.panes[p] = {"cwd", "process", "text"} /\ h.panes[p].process.turns \in Nat
      BY DEF IsServer
    <2> HIDE DEF h
    <2> QED
      BY <1>7, <1>8, <1>9, <2>1
  <1>16. DOMAIN g.windows \cup DOMAIN g.panes \subseteq 0 .. g.fresh - 1
    BY <1>3, <1>6, <1>7, <1>9
  <1>17. IsServer(g)
    <2>1. /\ h.id \in [pid : Nat, start : Nat]
          /\ Len(h.mark) <= 1 \/ h.mark = <<0, 0>>
          /\ DOMAIN h.sessions # {} /\ DOMAIN h.sessions \subseteq Nat
          /\ IsFiniteSet(DOMAIN h.sessions)
      BY DEF IsServer
    <2>2. g.fresh \in Nat
      BY <1>3, <1>9
    <2> HIDE DEF h
    <2> QED
      BY <1>9, <1>10, <1>11, <1>13, <1>14, <1>15, <1>16, <2>1, <2>2 DEF IsServer
  <1>18. IsLater(h, g)
    <2>1. \A p \in DOMAIN g.panes : p < h.fresh => p \in DOMAIN h.panes
      BY <1>3, <1>7, <1>9
    <2>2. \A p \in DOMAIN h.panes : h.panes[p].process.turns \in Nat
      BY DEF IsServer
    <2>3. \A p \in DOMAIN g.panes : p < h.fresh => SameSince(h, g, p)
      BY <1>7, <1>9, <2>1, <2>2 DEF SameSince
    <2> QED
      BY <1>3, <1>9, <2>3 DEF IsLater
  <1> QED
    BY <1>9, <1>17, <1>18 DEF MovesOn, g

\* Some elements of a sequence, each once.
LEMMA AtIsInjective ==
    ASSUME NEW T, NEW s \in Seq(T), IsInjective(s), NEW places \in SUBSET DOMAIN s
    PROVE  /\ At(s, places) \in Seq(T) /\ IsInjective(At(s, places))
           /\ ToSet(At(s, places)) = {s[i] : i \in places}
           /\ At(s, places) # <<>> => At(s, places)[1] \in ToSet(At(s, places))
  <1> DEFINE t == At(s, places)
             n == Cardinality(places)
  <1>1. t \in Seq(T) /\ Len(t) = n /\ n \in Nat
    BY AtFacts
  <1>2. PICK e : Picks(e, s, places, t)
    BY AtFacts
  <1> HIDE DEF t, n
  <1>3. /\ \A k \in 1..n : e[k] \in places
        /\ \A i \in places : \E k \in 1..n : e[k] = i
        /\ \A j, k \in 1..n : e[j] = e[k] => j = k
        /\ t = [k \in 1..n |-> s[e[k]]]
    BY <1>2 DEF Picks, Enumerates, n
  <1>4. DOMAIN t = 1..n /\ \A k \in 1..n : t[k] = s[e[k]]
    BY <1>3
  <1>5. ToSet(t) = {s[i] : i \in places}
    BY <1>3, <1>4 DEF ToSet
  <1>6. \A i, j \in DOMAIN s : s[i] = s[j] => i = j
    BY DEF IsInjective
  <1>7. IsInjective(t)
    <2>1. \A j, k \in 1..n : t[j] = t[k] => j = k
      BY <1>3, <1>4, <1>6
    <2> QED
      BY <1>4, <2>1 DEF IsInjective
  <1>8. t # <<>> => t[1] \in ToSet(t)
    <2>1. t # <<>> => 1 \in DOMAIN t
      BY <1>1
    <2> QED
      BY <2>1 DEF ToSet
  <1> QED
    BY <1>1, <1>5, <1>7, <1>8 DEF t

\* Panes are gone, and the rest are as they were.
LEMMA FewerIsLater ==
    ASSUME NEW h, IsServer(h), NEW g, g.fresh = h.fresh,
           DOMAIN g.panes \subseteq DOMAIN h.panes,
           \A q \in DOMAIN g.panes : g.panes[q] = h.panes[q]
    PROVE  IsLater(h, g)
  <1>1. h.fresh \in Nat /\ \A p \in DOMAIN h.panes : h.panes[p].process.turns \in Nat
    BY DEF IsServer
  <1> QED
    BY <1>1 DEF IsLater, SameSince

LEMMA KillPaneMoves ==
    ASSUME IsServer(server), NEW w \in DOMAIN server.windows,
           NEW p \in ToSet(server.windows[w].panes), KillPane(w, p)
    PROVE  MovesOn(server, server')
  <1> DEFINE h == server
             g == server'
             window == h.windows[w]
             places == {i \in DOMAIN window.panes : window.panes[i] # p}
             left == At(window.panes, places)
             active == IF window.active = p THEN left[1] ELSE window.active
             x == [window EXCEPT !.panes = left, !.active = active]
             windows == Put(h.windows, w, x)
             panes == [q \in DOMAIN h.panes \ {p} |-> h.panes[q]]
  <1>1. IsWindowOf(h, w, window)
    BY DEF IsServer
  <1>2. left # <<>> /\ g = [h EXCEPT !.panes = panes, !.windows = windows]
    BY DEF KillPane, WithoutPanes
  <1>3. /\ left \in Seq(DOMAIN h.panes) /\ IsInjective(left)
        /\ ToSet(left) = {window.panes[i] : i \in places}
        /\ left # <<>> => left[1] \in ToSet(left)
    <2>1. window.panes \in Seq(DOMAIN h.panes) /\ IsInjective(window.panes)
      BY <1>1 DEF IsWindowOf
    <2>2. places \in SUBSET DOMAIN window.panes
      OBVIOUS
    <2> DEFINE t == window.panes
    <2> HIDE DEF t, places
    <2>3. /\ At(t, places) \in Seq(DOMAIN h.panes) /\ IsInjective(At(t, places))
          /\ ToSet(At(t, places)) = {t[i] : i \in places}
          /\ At(t, places) # <<>> => At(t, places)[1] \in ToSet(At(t, places))
      BY <2>1, <2>2, AtIsInjective DEF t
    <2> QED
      BY <2>3 DEF t
  <1>4. ToSet(left) = ToSet(window.panes) \ {p}
    BY <1>3 DEF ToSet
  <1> HIDE DEF left
  <1>5. active \in ToSet(left)
    <2>1. window.active \in ToSet(window.panes)
      BY <1>1 DEF IsWindowOf
    <2> QED
      BY <1>2, <1>3, <1>4, <2>1
  <1> HIDE DEF active
  <1>6. DOMAIN x = DOMAIN window /\ x.panes = left /\ x.active = active /\ x.made = window.made
    BY <1>1 DEF IsWindowOf
  <1>7. /\ DOMAIN windows = DOMAIN h.windows /\ windows[w] = x
        /\ \A v \in DOMAIN h.windows : v # w => windows[v] = h.windows[v]
    BY DEF Put
  <1>8. DOMAIN panes = DOMAIN h.panes \ {p} /\ \A q \in DOMAIN panes : panes[q] = h.panes[q]
    OBVIOUS
  <1> HIDE DEF x, windows, panes
  <1>9. DOMAIN h = {"id", "mark", "version", "fresh", "sessions", "windows",
                    "panes", "clients"}
    BY DEF IsServer
  <1>10. /\ DOMAIN g = DOMAIN h /\ g.id = h.id /\ g.mark = h.mark /\ g.fresh = h.fresh
         /\ g.sessions = h.sessions /\ g.windows = windows /\ g.panes = panes
    BY <1>2, <1>9
  <1> HIDE DEF g
  <1>11. \A n \in DOMAIN g.sessions : IsSessionOf(g, g.sessions[n])
    BY <1>7, <1>10, SessionsStay DEF IsServer
  <1>12. ASSUME NEW v \in DOMAIN g.windows
         PROVE  /\ ToSet(g.windows[v].panes) \subseteq ToSet(h.windows[v].panes)
                /\ ToSet(g.windows[v].panes) \subseteq DOMAIN g.panes
    <2>1. v \in DOMAIN h.windows
      BY <1>7, <1>10
    <2>2. ToSet(h.windows[v].panes) \subseteq DOMAIN h.panes
      BY <2>1, WindowsPanes
    <2>3. CASE v = w
      BY <1>4, <1>6, <1>7, <1>8, <1>10, <2>2, <2>3
    <2>4. CASE v # w
      <3>1. g.windows[v] = h.windows[v]
        BY <1>7, <1>10, <2>1, <2>4
      <3>2. ToSet(h.windows[v].panes) \cap ToSet(h.windows[w].panes) = {}
        BY <2>1, <2>4 DEF IsServer
      <3> QED
        BY <1>8, <1>10, <2>2, <3>1, <3>2
    <2> QED
      BY <2>3, <2>4
  <1>13. ASSUME NEW v \in DOMAIN g.windows
         PROVE  IsWindowOf(g, v, g.windows[v])
    <2>1. \E n \in DOMAIN g.sessions : v \in Range(g.sessions[n].links)
      BY <1>7, <1>10 DEF IsServer, IsWindowOf
    <2>2. CASE v = w
      <3>1. IsWindowOf(h, w, x)
        BY <1>1, <1>3, <1>5, <1>6 DEF IsWindowOf
      <3> QED
        BY <1>7, <1>10, <1>12, <2>1, <2>2, <3>1, WindowsStay
    <2>3. CASE v # w
      <3>1. g.windows[v] = h.windows[v] /\ v \in DOMAIN h.windows
        BY <1>7, <1>10, <2>3
      <3>2. IsWindowOf(h, v, h.windows[v])
        BY <3>1 DEF IsServer
      <3>3. ToSet(h.windows[v].panes) \subseteq DOMAIN g.panes
        BY <1>12, <3>1
      <3> QED
        BY <2>1, <3>1, <3>2, <3>3, WindowsStay
    <2> QED
      BY <2>2, <2>3
  <1>14. ASSUME NEW v \in DOMAIN g.windows, NEW u \in DOMAIN g.windows \ {v}
         PROVE  ToSet(g.windows[u].panes) \cap ToSet(g.windows[v].panes) = {}
    <2>1. u \in DOMAIN h.windows /\ v \in DOMAIN h.windows
      BY <1>7, <1>10
    <2>2. ToSet(h.windows[u].panes) \cap ToSet(h.windows[v].panes) = {}
      BY <2>1 DEF IsServer
    <2> QED
      BY <1>12, <2>2
  <1>15. \A q \in DOMAIN g.panes :
            DOMAIN g.panes[q] = {"cwd", "process", "text"} /\ g.panes[q].process.turns \in Nat
    BY <1>8, <1>10 DEF IsServer
  <1>16. DOMAIN g.windows \cup DOMAIN g.panes \subseteq 0 .. g.fresh - 1 /\ g.fresh \in Nat
    BY <1>7, <1>8, <1>10 DEF IsServer
  <1>17. IsServer(g)
    <2>1. /\ h.id \in [pid : Nat, start : Nat]
          /\ Len(h.mark) <= 1 \/ h.mark = <<0, 0>>
          /\ DOMAIN h.sessions # {} /\ DOMAIN h.sessions \subseteq Nat
          /\ IsFiniteSet(DOMAIN h.sessions)
      BY DEF IsServer
    <2> HIDE DEF h
    <2> QED
      BY <1>9, <1>10, <1>11, <1>13, <1>14, <1>15, <1>16, <2>1 DEF IsServer
  <1>18. IsLater(h, g)
    BY <1>8, <1>10, FewerIsLater
  <1> QED
    BY <1>10, <1>17, <1>18 DEF MovesOn, g

LEMMA KillSessionMoves ==
    ASSUME IsServer(server), NEW name \in DOMAIN server.sessions, KillSession(name)
    PROVE  MovesOn(server, server')
  <1> DEFINE h == server
             g == server'
             others == DOMAIN h.sessions \ {name}
             LinkedBy(n) == {h.sessions[n].links[i] : i \in DOMAIN h.sessions[n].links}
             left == UNION {LinkedBy(n) : n \in others}
             gone == UNION {ToSet(h.windows[w].panes) : w \in DOMAIN h.windows \ left}
             sessions == [n \in others |-> h.sessions[n]]
             windows == [w \in left |-> h.windows[w]]
             panes == [q \in DOMAIN h.panes \ gone |-> h.panes[q]]
             clients0 == [c \in {d \in DOMAIN h.clients : h.clients[d] # name} |-> h.clients[c]]
  <1>1. /\ others # {}
        /\ g = [h EXCEPT !.sessions = sessions, !.windows = windows, !.panes = panes,
                         !.clients = clients0]
    BY DEF KillSession, WithoutPanes
  <1>2. \A n \in others : LinkedBy(n) = Range(h.sessions[n].links)
    BY DEF Range
  <1> HIDE DEF LinkedBy
  <1>3. left \subseteq DOMAIN h.windows
    BY <1>2 DEF IsServer, IsSessionOf
  <1>4. \A n \in others : Range(h.sessions[n].links) \subseteq left
    BY <1>2
  <1>5. \A w \in left : \E n \in others : w \in Range(h.sessions[n].links)
    BY <1>2
  <1> HIDE DEF left
  <1>6. \A w \in left : ToSet(h.windows[w].panes) \cap gone = {}
    <2> SUFFICES ASSUME NEW w \in left, NEW v \in DOMAIN h.windows \ left
                 PROVE  ToSet(h.windows[w].panes) \cap ToSet(h.windows[v].panes) = {}
      OBVIOUS
    <2> QED
      BY <1>3 DEF IsServer
  <1> HIDE DEF gone
  <1>7. /\ DOMAIN sessions = others /\ \A n \in others : sessions[n] = h.sessions[n]
        /\ DOMAIN windows = left /\ \A w \in left : windows[w] = h.windows[w]
        /\ DOMAIN panes = DOMAIN h.panes \ gone
        /\ \A q \in DOMAIN panes : panes[q] = h.panes[q]
    OBVIOUS
  <1>8. others \subseteq DOMAIN h.sessions
    OBVIOUS
  <1> HIDE DEF sessions, windows, panes, clients0, others
  <1>9. DOMAIN h = {"id", "mark", "version", "fresh", "sessions", "windows",
                    "panes", "clients"}
    BY DEF IsServer
  <1>10. /\ DOMAIN g = DOMAIN h /\ g.id = h.id /\ g.mark = h.mark /\ g.fresh = h.fresh
         /\ g.sessions = sessions /\ g.windows = windows /\ g.panes = panes
    BY <1>1, <1>9
  <1> HIDE DEF g
  <1>11. ASSUME NEW n \in DOMAIN g.sessions
         PROVE  IsSessionOf(g, g.sessions[n])
    <2>1. n \in others /\ g.sessions[n] = h.sessions[n]
      BY <1>7, <1>10
    <2>2. IsSessionOf(h, h.sessions[n])
      BY <1>8, <2>1 DEF IsServer
    <2>3. Range(h.sessions[n].links) \subseteq DOMAIN g.windows
      BY <1>4, <1>7, <1>10, <2>1
    <2> QED
      BY <2>1, <2>2, <2>3 DEF IsSessionOf
  <1>12. \A v \in DOMAIN g.windows :
            /\ v \in left /\ v \in DOMAIN h.windows /\ g.windows[v] = h.windows[v]
    BY <1>3, <1>7, <1>10
  <1>13. ASSUME NEW v \in DOMAIN g.windows
         PROVE  IsWindowOf(g, v, g.windows[v])
    <2>1. \E n \in DOMAIN g.sessions : v \in Range(g.sessions[n].links)
      BY <1>5, <1>7, <1>10, <1>12
    <2>2. ToSet(h.windows[v].panes) \subseteq DOMAIN g.panes
      BY <1>6, <1>7, <1>10, <1>12, WindowsPanes
    <2>3. IsWindowOf(h, v, h.windows[v])
      BY <1>12 DEF IsServer
    <2> QED
      BY <1>12, <2>1, <2>2, <2>3, WindowsStay
  <1>14. ASSUME NEW v \in DOMAIN g.windows, NEW u \in DOMAIN g.windows \ {v}
         PROVE  ToSet(g.windows[u].panes) \cap ToSet(g.windows[v].panes) = {}
    BY <1>12 DEF IsServer
  <1>15. \A q \in DOMAIN g.panes :
            DOMAIN g.panes[q] = {"cwd", "process", "text"} /\ g.panes[q].process.turns \in Nat
    BY <1>7, <1>10 DEF IsServer
  <1>16. DOMAIN g.windows \cup DOMAIN g.panes \subseteq 0 .. g.fresh - 1 /\ g.fresh \in Nat
    BY <1>3, <1>7, <1>10 DEF IsServer
  <1>17. IsServer(g)
    <2>1. /\ h.id \in [pid : Nat, start : Nat]
          /\ Len(h.mark) <= 1 \/ h.mark = <<0, 0>>
          /\ DOMAIN h.sessions \subseteq Nat /\ IsFiniteSet(DOMAIN h.sessions)
      BY DEF IsServer
    <2>2. IsFiniteSet(others) /\ others \subseteq Nat
      BY <1>8, <2>1, FS_Subset
    <2> HIDE DEF h
    <2>3. /\ DOMAIN g.sessions # {} /\ DOMAIN g.sessions \subseteq Nat
          /\ IsFiniteSet(DOMAIN g.sessions)
      BY <1>1, <1>7, <1>10, <2>2
    <2>4. g.id \in [pid : Nat, start : Nat] /\ (Len(g.mark) <= 1 \/ g.mark = <<0, 0>>)
      BY <1>10, <2>1
    <2>5. DOMAIN g = {"id", "mark", "version", "fresh", "sessions", "windows",
                      "panes", "clients"}
      BY <1>9, <1>10
    <2> QED
      BY <1>11, <1>13, <1>14, <1>15, <1>16, <2>3, <2>4, <2>5 DEF IsServer
  <1>18. IsLater(h, g)
    <2>1. DOMAIN g.panes \subseteq DOMAIN h.panes
      BY <1>7, <1>10
    <2> QED
      BY <1>7, <1>10, <2>1, FewerIsLater
  <1> QED
    BY <1>10, <1>17, <1>18 DEF MovesOn, g

LEMMA OpenSessionMoves ==
    ASSUME IsServer(server), NEW name \in Nat, NEW attached \in BOOLEAN,
           OpenSession(name, attached)
    PROVE  MovesOn(server, server')
  <1> DEFINE h == server
             g == server'
             k == h.fresh
             session == [group |-> None, links |-> [i \in {0} |-> k],
                         active |-> 0, last |-> None]
             x == [made |-> None, name |-> 1, layout |-> 1, zoomed |-> FALSE,
                   panes |-> <<k>>, active |-> k]
             sessions == Put(h.sessions, name, session)
             windows == Put(h.windows, k, x)
             panes == Put(h.panes, k, NewPane)
             clients0 == IF attached THEN [c \in DOMAIN h.clients |-> name] ELSE h.clients
  <1>1. /\ name \notin DOMAIN h.sessions
        /\ g = [h EXCEPT !.sessions = sessions, !.windows = windows, !.panes = panes,
                         !.clients = clients0, !.fresh = @ + 1]
    BY DEF OpenSession
  <1>2. /\ k \in Nat /\ k \notin DOMAIN h.panes /\ k \notin DOMAIN h.windows
        /\ DOMAIN h.windows \cup DOMAIN h.panes \cup {k} \subseteq 0 .. (k + 1) - 1
    BY FreshIsFree
  <1>3. /\ DOMAIN session = {"group", "links", "active", "last"}
        /\ DOMAIN session.links = {0} /\ Range(session.links) = {k}
        /\ session.active = 0 /\ session.last = None
    BY DEF Range
  <1>4. /\ DOMAIN x = {"made", "name", "layout", "zoomed", "panes", "active"}
        /\ x.panes = <<k>> /\ x.active = k /\ x.made = None
    OBVIOUS
  <1>5. /\ DOMAIN sessions = DOMAIN h.sessions \cup {name} /\ sessions[name] = session
        /\ \A n \in DOMAIN h.sessions : sessions[n] = h.sessions[n]
    BY <1>1 DEF Put
  <1>6. /\ DOMAIN windows = DOMAIN h.windows \cup {k} /\ windows[k] = x
        /\ \A v \in DOMAIN h.windows : windows[v] = h.windows[v]
    BY <1>2 DEF Put
  <1>7. /\ DOMAIN panes = DOMAIN h.panes \cup {k} /\ panes[k] = NewPane
        /\ \A q \in DOMAIN h.panes : panes[q] = h.panes[q]
    BY <1>2 DEF Put
  <1>8. DOMAIN NewPane = {"cwd", "process", "text"} /\ NewPane.process.turns \in Nat
    BY DEF NewPane
  <1> HIDE DEF session, x, sessions, windows, panes, clients0
  <1>9. DOMAIN h = {"id", "mark", "version", "fresh", "sessions", "windows",
                    "panes", "clients"}
    BY DEF IsServer
  <1>10. /\ DOMAIN g = DOMAIN h /\ g.id = h.id /\ g.mark = h.mark /\ g.fresh = k + 1
         /\ g.sessions = sessions /\ g.windows = windows /\ g.panes = panes
    BY <1>1, <1>9
  <1> HIDE DEF g, k
  <1>11. ASSUME NEW n \in DOMAIN g.sessions
         PROVE  IsSessionOf(g, g.sessions[n])
    <2>1. CASE n = name
      <3>1. DOMAIN session.links \in SUBSET Nat /\ IsFiniteSet(DOMAIN session.links)
        BY <1>3, FS_Singleton
      <3> QED
        BY <1>3, <1>5, <1>6, <1>10, <2>1, <3>1 DEF IsSessionOf
    <2>2. CASE n # name
      <3>1. n \in DOMAIN h.sessions /\ g.sessions[n] = h.sessions[n]
        BY <1>5, <1>10, <2>2
      <3> QED
        BY <1>6, <1>10, <3>1, SessionsStay DEF IsServer
    <2> QED
      BY <2>1, <2>2
  <1>12. \A n \in DOMAIN h.sessions : n \in DOMAIN g.sessions /\ g.sessions[n] = h.sessions[n]
    BY <1>5, <1>10
  <1>13. <<k>> \in Seq({k}) /\ IsInjective(<<k>>) /\ ToSet(<<k>>) = {k}
    BY DEF IsInjective, ToSet
  <1>14. ASSUME NEW v \in DOMAIN g.windows
         PROVE  IsWindowOf(g, v, g.windows[v])
    <2>1. CASE v = k
      <3>1. k \in Range(session.links) /\ name \in DOMAIN g.sessions
              /\ g.sessions[name] = session
        BY <1>3, <1>5, <1>10
      <3>2. <<k>> \in Seq(DOMAIN g.panes)
        <4>1. \A i \in 1..1 : <<k>>[i] \in DOMAIN g.panes
          BY <1>7, <1>10
        <4> QED
          BY <1>7, <1>10
      <3>3. g.windows[v] = x
        BY <1>6, <1>10, <2>1
      <3>4. Len(x.made) = 1 => x.made = <<0>>
        <4>1. Len(<<>>) # 1
          OBVIOUS
        <4> QED
          BY <1>4, <4>1 DEF None
      <3> QED
        BY <1>4, <1>13, <2>1, <3>1, <3>2, <3>3, <3>4 DEF IsWindowOf
    <2>2. CASE v # k
      <3>1. v \in DOMAIN h.windows /\ g.windows[v] = h.windows[v]
        BY <1>6, <1>10, <2>2
      <3>2. IsWindowOf(h, v, h.windows[v])
        BY <3>1 DEF IsServer
      <3>3. \E n \in DOMAIN g.sessions : v \in Range(g.sessions[n].links)
        BY <1>12, <3>2 DEF IsWindowOf
      <3>4. ToSet(h.windows[v].panes) \subseteq DOMAIN g.panes
        BY <1>7, <1>10, <3>1, WindowsPanes
      <3> QED
        BY <3>1, <3>2, <3>3, <3>4, WindowsStay
    <2> QED
      BY <2>1, <2>2
  <1>15. ASSUME NEW v \in DOMAIN g.windows, NEW u \in DOMAIN g.windows \ {v}
         PROVE  ToSet(g.windows[u].panes) \cap ToSet(g.windows[v].panes) = {}
    <2>1. ASSUME NEW t \in DOMAIN h.windows
          PROVE  ToSet(g.windows[t].panes) = ToSet(h.windows[t].panes)
                   /\ k \notin ToSet(h.windows[t].panes)
      BY <1>2, <1>6, <1>10, WindowsPanes
    <2>2. ToSet(g.windows[k].panes) = {k}
      BY <1>4, <1>6, <1>10, <1>13
    <2>3. u \in DOMAIN h.windows \cup {k} /\ v \in DOMAIN h.windows \cup {k}
      BY <1>6, <1>10
    <2>4. u \in DOMAIN h.windows /\ v \in DOMAIN h.windows
            => ToSet(h.windows[u].panes) \cap ToSet(h.windows[v].panes) = {}
      BY DEF IsServer
    <2> QED
      BY <2>1, <2>2, <2>3, <2>4
  <1>16. \A q \in DOMAIN g.panes :
            DOMAIN g.panes[q] = {"cwd", "process", "text"} /\ g.panes[q].process.turns \in Nat
    BY <1>7, <1>8, <1>10 DEF IsServer
  <1>17. DOMAIN g.windows \cup DOMAIN g.panes \subseteq 0 .. g.fresh - 1 /\ g.fresh \in Nat
    BY <1>2, <1>6, <1>7, <1>10
  <1>18. IsServer(g)
    <2>1. /\ h.id \in [pid : Nat, start : Nat]
          /\ Len(h.mark) <= 1 \/ h.mark = <<0, 0>>
          /\ DOMAIN h.sessions \subseteq Nat /\ IsFiniteSet(DOMAIN h.sessions)
      BY DEF IsServer
    <2>2. IsFiniteSet(DOMAIN sessions) /\ DOMAIN sessions \subseteq Nat /\ DOMAIN sessions # {}
      BY <1>5, <2>1, FS_AddElement
    <2> HIDE DEF h
    <2> QED
      BY <1>9, <1>10, <1>11, <1>14, <1>15, <1>16, <1>17, <2>1, <2>2 DEF IsServer
  <1>19. IsLater(h, g)
    <2>1. h.fresh = k /\ \A p \in DOMAIN h.panes : h.panes[p].process.turns \in Nat
      BY DEF IsServer, k
    <2>2. \A p \in DOMAIN g.panes : p < k => p \in DOMAIN h.panes
      BY <1>2, <1>7, <1>10
    <2>3. \A p \in DOMAIN g.panes : p < k => SameSince(h, g, p)
      BY <1>7, <1>10, <2>1, <2>2 DEF SameSince
    <2> QED
      BY <1>2, <1>10, <2>1, <2>3 DEF IsLater
  <1> QED
    BY <1>10, <1>18, <1>19 DEF MovesOn, g

LEMMA RestartMoves ==
    ASSUME IsServer(server), given \in Scenarios, Restart
    PROVE  MovesOn(server, server')
  <1> DEFINE h == given.server
             g == server'
             new == [pid |-> server.id.pid + 1, start |-> server.id.start + 1]
             Text(p) == [h.panes[p].text EXCEPT !.server = server.id.pid + 1]
             panes == [p \in DOMAIN h.panes |->
                          [h.panes[p] EXCEPT !.text.server = server.id.pid + 1]]
  <1>1. IsServer(h)
    BY ScenarioAssumption
  <1>2. g = [h EXCEPT !.id = new, !.panes = panes]
    BY DEF Restart
  <1>3. /\ DOMAIN panes = DOMAIN h.panes
        /\ \A p \in DOMAIN h.panes : /\ DOMAIN panes[p] = DOMAIN h.panes[p]
                                     /\ panes[p].process = h.panes[p].process
    BY <1>1 DEF IsServer
  <1>4. new \in [pid : Nat, start : Nat] /\ new.pid = server.id.pid + 1
    BY DEF IsServer
  <1> HIDE DEF new, panes
  <1>5. DOMAIN h = {"id", "mark", "version", "fresh", "sessions", "windows",
                    "panes", "clients"}
    BY <1>1 DEF IsServer
  <1>6. /\ DOMAIN g = DOMAIN h /\ g.id = new /\ g.mark = h.mark /\ g.fresh = h.fresh
        /\ g.sessions = h.sessions /\ g.windows = h.windows /\ g.panes = panes
    BY <1>2, <1>5
  <1> HIDE DEF g, h
  <1>7. \A n \in DOMAIN g.sessions : IsSessionOf(g, g.sessions[n])
    BY <1>1, <1>6, SessionsStay DEF IsServer
  <1>8. ASSUME NEW v \in DOMAIN g.windows
        PROVE  IsWindowOf(g, v, g.windows[v])
    <2>1. IsWindowOf(h, v, h.windows[v])
      BY <1>1, <1>6 DEF IsServer
    <2>2. DOMAIN g.panes = DOMAIN h.panes
      BY <1>3, <1>6
    <2> QED
      BY <1>6, <2>1, <2>2 DEF IsWindowOf
  <1>9. \A v \in DOMAIN g.windows : \A u \in DOMAIN g.windows \ {v} :
           ToSet(g.windows[u].panes) \cap ToSet(g.windows[v].panes) = {}
    BY <1>1, <1>6 DEF IsServer
  <1>10. \A q \in DOMAIN g.panes :
            DOMAIN g.panes[q] = {"cwd", "process", "text"} /\ g.panes[q].process.turns \in Nat
    BY <1>1, <1>3, <1>6 DEF IsServer
  <1>11. DOMAIN g.windows \cup DOMAIN g.panes \subseteq 0 .. g.fresh - 1 /\ g.fresh \in Nat
    BY <1>1, <1>3, <1>6 DEF IsServer
  <1>12. IsServer(g)
    <2>1. /\ Len(h.mark) <= 1 \/ h.mark = <<0, 0>>
          /\ DOMAIN h.sessions # {} /\ DOMAIN h.sessions \subseteq Nat
          /\ IsFiniteSet(DOMAIN h.sessions)
      BY <1>1 DEF IsServer
    <2> QED
      BY <1>4, <1>5, <1>6, <1>7, <1>8, <1>9, <1>10, <1>11, <2>1 DEF IsServer
  <1> QED
    BY <1>4, <1>6, <1>12 DEF MovesOn, g

\* Whatever the user does.
LEMMA UserMovesOn ==
    ASSUME IsServer(server), given \in Scenarios, UserMoves
    PROVE  MovesOn(server, server') /\ \E kind : May(kind)
  <1>1. ASSUME NEW w \in DOMAIN server.windows, SplitWindow(w)
        PROVE  MovesOn(server, server') /\ \E kind : May(kind)
    BY <1>1, SplitWindowMoves DEF SplitWindow
  <1>2. ASSUME NEW w \in DOMAIN server.windows,
               NEW p \in ToSet(server.windows[w].panes), KillPane(w, p)
        PROVE  MovesOn(server, server') /\ \E kind : May(kind)
    BY <1>2, KillPaneMoves DEF KillPane
  <1>3. ASSUME NEW w \in DOMAIN server.windows, NEW name \in DOMAIN server.sessions,
               LinkWindow(name, w)
        PROVE  MovesOn(server, server') /\ \E kind : May(kind)
    BY <1>3, LinkWindowMoves DEF LinkWindow
  <1>4. ASSUME NEW w \in DOMAIN server.windows, NEW made \in {<<1, w>>, << 0 >>},
               MarkWindow(w, made)
        PROVE  MovesOn(server, server') /\ \E kind : May(kind)
    BY <1>4, MarkWindowMoves DEF MarkWindow
  <1>5. ASSUME NEW attached \in BOOLEAN, OpenSession(9, attached)
        PROVE  MovesOn(server, server') /\ \E kind : May(kind)
    <2>1. 9 \in Nat
      OBVIOUS
    <2> QED
      BY <1>5, <2>1, OpenSessionMoves DEF OpenSession
  <1>6. ASSUME NEW name \in DOMAIN server.sessions, KillSession(name)
        PROVE  MovesOn(server, server') /\ \E kind : May(kind)
    BY <1>6, KillSessionMoves DEF KillSession
  <1>7. ASSUME NEW name \in DOMAIN server.sessions,
               NEW index \in DOMAIN server.sessions[name].links, SelectWindow(name, index)
        PROVE  MovesOn(server, server') /\ \E kind : May(kind)
    BY <1>7, SelectWindowMoves DEF SelectWindow
  <1>8. ASSUME NEW p \in DOMAIN server.panes, NEW text, WriteText(p, text)
        PROVE  MovesOn(server, server') /\ \E kind : May(kind)
    BY <1>8, WriteTextMoves DEF WriteText
  <1>9. ASSUME NEW p \in DOMAIN server.panes, NEW holder, NEW led, RunIn(p, holder, led)
        PROVE  MovesOn(server, server') /\ \E kind : May(kind)
    BY <1>9, RunInMoves DEF RunIn
  <1>10. ASSUME NEW mark \in {Some(1), <<0, 0>>}, MarkServer(mark)
         PROVE  MovesOn(server, server') /\ \E kind : May(kind)
    BY <1>10, MarkServerMoves DEF MarkServer
  <1>11. ASSUME Restart
         PROVE  MovesOn(server, server') /\ \E kind : May(kind)
    BY <1>11, RestartMoves DEF Restart
  <1> QED
    BY <1>1, <1>2, <1>3, <1>4, <1>5, <1>6, <1>7, <1>8, <1>9, <1>10, <1>11, Zenon
       DEF UserMoves

-----------------------------------------------------------------------------
(***************************************************************************)
(* The user moves, and a capture keeps what it knows.                      *)
(***************************************************************************)
LEMMA LaterStill ==
    ASSUME NEW a, NEW b, NEW c, IsServer(a), IsServer(b), IsServer(c),
           IsLater(a, b), IsLater(b, c)
    PROVE  IsLater(a, c)
  <1>1. a.fresh \in Nat /\ b.fresh \in Nat /\ c.fresh \in Nat
    BY DEF IsServer
  <1>2. a.fresh <= b.fresh /\ b.fresh <= c.fresh
    BY DEF IsLater
  <1>3. ASSUME NEW p \in DOMAIN c.panes, p < a.fresh
        PROVE  SameSince(a, c, p)
    <2>1. p \in Nat
      BY <1>1 DEF IsServer
    <2>2. p < b.fresh
      BY <1>1, <1>2, <1>3, <2>1
    <2>3. SameSince(b, c, p)
      BY <2>2 DEF IsLater
    <2>4. p \in DOMAIN b.panes /\ SameSince(a, b, p)
      BY <1>3, <2>3 DEF IsLater, SameSince
    <2>5. p \in DOMAIN a.panes
      BY <2>4 DEF SameSince
    <2>6. /\ a.panes[p].process.turns \in Nat
          /\ b.panes[p].process.turns \in Nat
          /\ c.panes[p].process.turns \in Nat
      BY <2>4, <2>5 DEF IsServer
    <2> QED
      BY <2>3, <2>4, <2>5, <2>6 DEF SameSince
  <1> QED
    BY <1>1, <1>2, <1>3 DEF IsLater

LEMMA NotEarlier ==
    ASSUME NEW h, IsServer(h)
    PROVE  MovesOn(h, h)
  <1>1. h.fresh \in Nat /\ \A p \in DOMAIN h.panes : h.panes[p].process.turns \in Nat
    BY DEF IsServer
  <1>2. IsLater(h, h)
    BY <1>1 DEF IsLater, SameSince
  <1> QED
    BY <1>2 DEF MovesOn

\* A server that is still the one the capture is connected to has gone on.
LEMMA StillConnected ==
    ASSUME IsServer(server), LinkedToOne, MovesOn(server, server'), UNCHANGED link,
           IsConnected'
    PROVE  IsConnected /\ IsLater(server, server')
  <1>1. link # None /\ link[1] = server'.id
    BY DEF IsConnected, Some, None
  <1>2. server.id.pid \in Nat /\ link[1].pid <= server.id.pid
    BY <1>1 DEF IsServer, LinkedToOne
  <1>3. server'.id.pid # server.id.pid + 1
    BY <1>1, <1>2
  <1>4. server'.id = server.id /\ IsLater(server, server')
    BY <1>3 DEF MovesOn
  <1> QED
    BY <1>4 DEF IsConnected

\* A pane of the listing that is found now was found before, and has not
\* changed between if it has not changed since the listing.
LEMMA StillFound ==
    ASSUME IsServer(server), IsServer(Held), looked # None, LinkedToOne,
           NothingComesBack, MovesOn(server, server'), UNCHANGED <<link, looked>>,
           NEW p \in DOMAIN Held.panes, IsFound(p)'
    PROVE  /\ IsFound(p)
           /\ IsUndisturbed(p)' =>
                 IsUndisturbed(p) /\ server'.panes[p].process = server.panes[p].process
  <1>1. IsConnected /\ IsLater(server, server') /\ p \in DOMAIN server'.panes
    BY StillConnected DEF IsFound
  <1>2. IsLater(Held, server)
    BY <1>1 DEF NothingComesBack
  <1>3. p \in Nat /\ p < Held.fresh /\ Held.fresh \in Nat /\ server.fresh \in Nat
    BY DEF IsServer
  <1>4. p < server.fresh
    BY <1>2, <1>3 DEF IsLater
  <1>5. SameSince(server, server', p)
    BY <1>1, <1>4 DEF IsLater
  <1>6. p \in DOMAIN server.panes
    BY <1>5 DEF SameSince
  <1>7. SameSince(Held, server, p)
    BY <1>2, <1>3, <1>6 DEF IsLater
  <1>8. IsUndisturbed(p)' => server'.panes[p].process = Held.panes[p].process
    BY DEF IsUndisturbed, Held
  <1>9. IsServer(server')
    BY DEF MovesOn
  <1>10. /\ server.panes[p].process.turns \in Nat
         /\ server'.panes[p].process.turns \in Nat
         /\ Held.panes[p].process.turns \in Nat
    BY <1>1, <1>6, <1>9 DEF IsServer
  <1>11. IsUndisturbed(p)' =>
            /\ server.panes[p].process = Held.panes[p].process
            /\ server'.panes[p].process = server.panes[p].process
    BY <1>5, <1>7, <1>8, <1>10 DEF SameSince
  <1> QED
    BY <1>1, <1>6, <1>11 DEF IsFound, IsUndisturbed

\* The pane that is read next is one of the listing.
LEMMA HereIsHeld ==
    ASSUME LookedOnce, InStages, ReadInTurn, stage \in PaneStages, todo # <<>>
    PROVE  /\ looked # None /\ IsServer(Held)
           /\ Here \in DOMAIN Held.panes
  <1>1. looked # None
    BY DEF InStages
  <1>2. IsServer(Held) /\ rows = ListPanes(Held) /\ todo \in Seq(ToSet(rows))
    BY <1>1 DEF LookedOnce, ReadInTurn
  <1>3. todo[1] \in ToSet(rows)
    BY <1>2
  <1>4. todo[1].pane_id \in IdsOf(rows)
    BY <1>3 DEF IdsOf
  <1>5. IdsOf(rows) \subseteq DOMAIN Held.panes
    BY <1>2, ListedPanes
  <1> QED
    BY <1>1, <1>2, <1>4, <1>5 DEF Here

\* What is seen of a pane rightly stays right.
LEMMA SeenStays ==
    ASSUME IsServer(server), IsServer(Held), looked # None, LinkedToOne,
           NothingComesBack, MovesOn(server, server'), UNCHANGED <<link, looked>>,
           NEW p \in DOMAIN Held.panes, NEW foreground,
           IsFound(p) => SeenRightly(p, foreground),
           IsFound(p)'
    PROVE  IsUndisturbed(p)' =>
              foreground \in {ForegroundSeen(server'.panes[p].process), Unrecovered("Os")}
  <1> SUFFICES ASSUME IsUndisturbed(p)'
               PROVE  foreground \in {ForegroundSeen(server'.panes[p].process),
                                      Unrecovered("Os")}
    OBVIOUS
  <1>1. /\ IsFound(p) /\ IsUndisturbed(p)
        /\ server'.panes[p].process = server.panes[p].process
    BY StillFound
  <1> QED
    BY <1>1 DEF SeenRightly

\* Nothing of the capture changes while the server moves on.
LEMMA CaptureStays ==
    ASSUME IInv, MovesOn(server, server'), UNCHANGED <<capturing>>, TypeOK'
    PROVE  IInv'
  <1>1. /\ UNCHANGED <<stage, link, previous, looked, rows, clients, touched, id,
                       todo, pane, reads, snapshot, failure>>
        /\ UNCHANGED <<link, looked>>
    BY DEF capturing, listed, reading
  <1>2. /\ IsServer(server) /\ LinkedToOne /\ LookedOnce /\ NothingComesBack
        /\ InStages /\ ReadInTurn /\ PaneAtStage /\ SnapshotAtLast
    BY DEF IInv
  <1>3. IsServer(server')
    BY DEF MovesOn
  <1>4. LinkedToOne'
    <2>1. server.id.pid \in Nat /\ server'.id.pid \in Nat
      BY <1>2, <1>3 DEF IsServer
    <2>2. server.id.pid <= server'.id.pid
      <3>1. server'.id = server.id \/ server'.id.pid = server.id.pid + 1
        BY DEF MovesOn
      <3> QED
        BY <2>1, <3>1
    <2> SUFFICES ASSUME link # None
                 PROVE  /\ link = Some(link[1]) /\ link[1] \in [pid : Nat, start : Nat]
                        /\ link[1].pid <= server'.id.pid
      BY <1>1 DEF LinkedToOne
    <2>3. /\ link = Some(link[1]) /\ link[1] \in [pid : Nat, start : Nat]
          /\ link[1].pid <= server.id.pid
      BY <1>2 DEF LinkedToOne
    <2>4. link[1].pid \in Nat
      BY <2>3
    <2> QED
      BY <2>1, <2>2, <2>3, <2>4
  <1>5. LookedOnce'
    BY <1>1, <1>2 DEF LookedOnce, Held
  <1>6. NothingComesBack'
    <2> SUFFICES ASSUME looked # None, IsConnected'
                 PROVE  IsLater(Held, server')
      BY <1>1 DEF NothingComesBack, Held
    <2>1. IsConnected /\ IsLater(server, server')
      BY <1>1, <1>2, StillConnected
    <2>2. IsLater(Held, server) /\ IsServer(Held)
      BY <1>2, <2>1 DEF NothingComesBack, LookedOnce
    <2> QED
      BY <1>2, <1>3, <2>1, <2>2, LaterStill
  <1>7. InStages'
    BY <1>1, <1>2 DEF InStages
  <1>8. ReadInTurn'
    <2> SUFFICES ASSUME looked # None
                 PROVE  /\ DOMAIN reads \subseteq DOMAIN Held.panes
                        /\ \A p \in DOMAIN reads : ReadWell(p)'
                        /\ stage \in PaneStages =>
                              /\ todo \in Seq(ToSet(rows))
                              /\ IdsOf(rows) \subseteq DOMAIN reads \cup IdsOf(todo)
      BY <1>1 DEF ReadInTurn, Held
    <2>1. /\ DOMAIN reads \subseteq DOMAIN Held.panes
          /\ \A p \in DOMAIN reads : ReadWell(p)
          /\ stage \in PaneStages =>
                /\ todo \in Seq(ToSet(rows))
                /\ IdsOf(rows) \subseteq DOMAIN reads \cup IdsOf(todo)
      BY <1>2 DEF ReadInTurn
    <2>2. IsServer(Held)
      BY <1>2 DEF LookedOnce
    <2>3. ASSUME NEW p \in DOMAIN reads
          PROVE  ReadWell(p)'
      <3> SUFFICES ASSUME IsFound(p)'
                   PROVE  /\ reads[p].content.is # "not captured"
                          /\ SeenRightly(p, reads[p].foreground)'
        BY <1>1 DEF ReadWell
      <3>1. p \in DOMAIN Held.panes
        BY <2>1
      <3>2. IsFound(p)
        BY <1>1, <1>2, <2>2, <3>1, StillFound
      <3>3. reads[p].content.is # "not captured" /\ SeenRightly(p, reads[p].foreground)
        BY <2>1, <3>2 DEF ReadWell
      <3>4. IsUndisturbed(p)' => reads[p].foreground \in
                {ForegroundSeen(server'.panes[p].process), Unrecovered("Os")}
        BY <1>1, <1>2, <2>2, <3>1, <3>3, SeenStays
      <3> QED
        BY <1>1, <3>3, <3>4 DEF SeenRightly
    <2> QED
      BY <2>1, <2>3
  <1>9. PaneAtStage'
    <2>1. stage \in {"leader", "scrollback", "visible"} => todo # <<>>
      BY <1>2 DEF PaneAtStage
    <2>2. ASSUME stage \in {"leader", "scrollback", "visible"}
          PROVE  /\ looked # None /\ IsServer(Held) /\ Here \in DOMAIN Held.panes
                 /\ Here' = Here
      BY <1>1, <1>2, <2>1, <2>2, HereIsHeld DEF PaneStages, Here
    <2>3. ASSUME stage \in {"leader", "scrollback", "visible"}, IsFound(Here)'
          PROVE  /\ IsFound(Here)
                 /\ IsUndisturbed(Here)' =>
                       IsUndisturbed(Here) /\ Process' = Process
      <3> DEFINE p == Here
      <3>1. p' = p /\ p \in DOMAIN Held.panes
        BY <2>2, <2>3
      <3>2. Process = server.panes[p].process /\ Process' = server'.panes[p].process
        BY <3>1 DEF Process
      <3> HIDE DEF p
      <3>3. IsFound(p)' /\ (IsUndisturbed(p)' <=> IsUndisturbed(Here)')
        BY <2>3 DEF p
      <3>4. server'.panes[p] = server'.panes[p'] /\ p \in DOMAIN server'.panes /\ IsConnected'
        BY <3>1, <3>3 DEF IsFound
      <3> QED
        BY <1>1, <1>2, <2>2, <2>3, <3>1, <3>2, <3>3, StillFound DEF p
    <2>4. ASSUME stage \in {"scrollback", "visible"}, IsFound(Here)'
          PROVE  SeenRightly(Here, pane.foreground)'
      <3>1. IsFound(Here) => SeenRightly(Here, pane.foreground)
        BY <1>2, <2>4 DEF PaneAtStage
      <3> QED
        BY <1>1, <2>2, <2>3, <2>4, <3>1 DEF SeenRightly, Process
    <2>5. stage = "leader" /\ IsFound(Here)' /\ IsUndisturbed(Here)' => pane.group = Process'
      BY <1>2, <2>3 DEF PaneAtStage
    <2>6. stage = "visible" /\ IsFound(Here)' => pane.failed = FALSE
      BY <1>2, <2>3 DEF PaneAtStage
    <2> QED
      BY <1>1, <1>2, <2>4, <2>5, <2>6 DEF PaneAtStage
  <1>10. SnapshotAtLast'
    BY <1>1, <1>2 DEF SnapshotAtLast, IsOutcome
  <1> QED
    BY <1>3, <1>4, <1>5, <1>6, <1>7, <1>8, <1>9, <1>10 DEF IInv

-----------------------------------------------------------------------------
(***************************************************************************)
(* What each step of a capture keeps.                                      *)
(***************************************************************************)
Steady == UNCHANGED <<given, saves, disk>> /\ moves' \in 0 .. given.moves

\* Of what the types say, a step of the capture touches four parts.
LEMMA TypesStay ==
    ASSUME TypeOK, Steady, stage' \in Stages,
           \/ snapshot' = snapshot
           \/ snapshot' = None
           \/ /\ snapshot' = Some(snapshot'[1])
              /\ IsSnapshot(snapshot'[1].windows, snapshot'[1].sessions,
                            snapshot'[1].clients),
           failure' \in {"none", "Connection", "MalformedRow", "MalformedServerMark",
                         "Fold", "Snapshot"}
    PROVE  TypeOK'
  <1>1. UNCHANGED <<given, saves, damaged, blobs>>
    BY DEF Steady, disk
  <1>2. /\ given' \in Scenarios
        /\ moves' \in 0 .. given'.moves /\ saves' \in 0 .. given'.saves
        /\ damaged' \in BOOLEAN
        /\ \A text \in DOMAIN blobs' : blobs'[text] \in {"whole", "cut"}
    BY <1>1 DEF TypeOK, Steady
  <1>3. \A s \in Kept' : IsSnapshot(s.windows, s.sessions, s.clients)
    <2>1. CASE snapshot' = snapshot
      BY <2>1 DEF Kept, TypeOK
    <2>2. CASE snapshot' = None
      <3>1. ToSet(<<>>) = {}
        BY DEF ToSet
      <3> QED
        BY <2>2, <3>1 DEF Kept, None
    <2>3. CASE /\ snapshot' = Some(snapshot'[1])
               /\ IsSnapshot(snapshot'[1].windows, snapshot'[1].sessions,
                             snapshot'[1].clients)
      <3>1. \A x : ToSet(<<x>>) = {x}
        BY DEF ToSet
      <3>2. Kept' = {snapshot'[1]}
        BY <2>3, <3>1 DEF Kept, Some
      <3> QED
        BY <2>3, <3>2
    <2> QED
      BY <2>1, <2>2, <2>3
  <1> QED
    BY <1>2, <1>3 DEF TypeOK

\* A step among the stages of a pane that only moves on with it.
LEMMA ReadingGoesOn ==
    ASSUME IInv, Steady, stage \in PaneStages, stage' \in PaneStages,
           UNCHANGED <<server, link, listed, todo, reads, snapshot, failure>>,
           PaneAtStage'
    PROVE  IInv'
  <1>1. UNCHANGED <<looked, rows, clients, touched, id>>
    BY DEF listed
  <1>2. /\ TypeOK /\ IsServer(server) /\ LinkedToOne /\ LookedOnce /\ NothingComesBack
        /\ InStages /\ ReadInTurn /\ PaneAtStage /\ SnapshotAtLast
    BY DEF IInv
  <1>3. stage' \in Stages
    BY DEF PaneStages, Stages
  <1>4. TypeOK'
    <2>1. failure \in {"none", "Connection", "MalformedRow", "MalformedServerMark",
                       "Fold", "Snapshot"}
      BY <1>2 DEF TypeOK
    <2> QED
      BY <1>2, <1>3, <2>1, TypesStay
  <1>5. IsServer(server')
    BY <1>2
  <1>6. LinkedToOne' /\ LookedOnce' /\ NothingComesBack'
    BY <1>1, <1>2 DEF LinkedToOne, LookedOnce, NothingComesBack, Held, IsConnected
  <1>7. InStages'
    BY <1>1, <1>2 DEF InStages, PaneStages
  <1>8. ReadInTurn'
    BY <1>1, <1>2 DEF ReadInTurn, ReadWell, IsFound, IsConnected, SeenRightly,
                      IsUndisturbed, Held
  <1>9. SnapshotAtLast'
    BY <1>1, <1>2 DEF SnapshotAtLast, PaneStages
  <1> QED
    BY <1>4, <1>5, <1>6, <1>7, <1>8, <1>9 DEF IInv

\* A capture is over, with a snapshot of what was listed and read or none.
LEMMA OverKeeps ==
    ASSUME IInv, Steady, stage' = "over",
           UNCHANGED <<server, link, listed, reading>>,
           \/ snapshot' = None
           \/ snapshot' = Some(snapshot'[1]) /\ IsOutcome(snapshot'[1]),
           failure' \in {"none", "Connection", "MalformedRow", "MalformedServerMark",
                         "Fold", "Snapshot"}
    PROVE  IInv'
  <1>1. UNCHANGED <<looked, rows, clients, touched, id, todo, pane, reads>>
    BY DEF listed, reading
  <1>2. /\ TypeOK /\ IsServer(server) /\ LinkedToOne /\ LookedOnce /\ NothingComesBack
        /\ InStages /\ ReadInTurn /\ PaneAtStage /\ SnapshotAtLast
    BY DEF IInv
  <1>3. TypeOK'
    <2>1. stage' \in Stages
      BY DEF Stages
    <2>2. IsOutcome(snapshot'[1]) =>
             IsSnapshot(snapshot'[1].windows, snapshot'[1].sessions, snapshot'[1].clients)
      BY DEF IsOutcome
    <2> QED
      BY <1>2, <2>1, <2>2, TypesStay
  <1>4. IsServer(server')
    BY <1>2
  <1>5. LinkedToOne' /\ LookedOnce' /\ NothingComesBack'
    BY <1>1, <1>2 DEF LinkedToOne, LookedOnce, NothingComesBack, Held, IsConnected
  <1>6. InStages' /\ PaneAtStage'
    BY DEF InStages, PaneAtStage, PaneStages
  <1>7. ReadInTurn'
    BY <1>1, <1>2 DEF ReadInTurn, ReadWell, IsFound, IsConnected, SeenRightly,
                      IsUndisturbed, Held, PaneStages
  <1>8. SnapshotAtLast'
    <2>1. IsOutcome(snapshot'[1]) => IsOutcome(snapshot[1])'
      BY <1>1 DEF IsOutcome
    <2> QED
      BY <2>1 DEF SnapshotAtLast
  <1> QED
    BY <1>3, <1>4, <1>5, <1>6, <1>7, <1>8 DEF IInv

\* A step of the capture, which counts as a move if the kernel refuses a read.
AtMostAMove ==
    /\ UNCHANGED <<given, saves, disk>>
    /\ moves' # moves => moves < given.moves /\ moves' = moves + 1

LEMMA MovesAreBounded ==
    ASSUME TypeOK, AtMostAMove
    PROVE  Steady
  <1>1. given \in Scenarios /\ moves \in 0 .. given.moves
    BY DEF TypeOK
  <1>2. given.moves \in Nat
    BY <1>1, ScenarioAssumption
  <1>3. moves' \in 0 .. given.moves
    BY <1>1, <1>2 DEF AtMostAMove
  <1> QED
    BY <1>3 DEF Steady, AtMostAMove

\* Reading what is there of a pane's process, and a refusal to be read.
LEMMA ForegroundIsSeen ==
    ASSUME IInv, stage \in {"group", "leader"}, todo # <<>>,
           UNCHANGED <<server, link, looked, todo>>, stage' = "scrollback",
           NEW foreground, pane' = [pane EXCEPT !.foreground = foreground],
           IsFound(Here) => SeenRightly(Here, foreground)
    PROVE  PaneAtStage'
  <1>1. DOMAIN Unread = {"group", "foreground", "scrollback", "failed"}
          /\ Unread.failed = FALSE
    BY DEF Unread
  <1>2. PaneAtStage /\ stage \in PaneStages
    BY DEF IInv, PaneStages
  <1>3. DOMAIN pane = DOMAIN Unread /\ pane.failed = FALSE
    <2>1. stage = "group" => pane = Unread
      BY <1>2 DEF PaneAtStage
    <2>2. stage = "leader" => pane.failed = FALSE
      BY <1>2 DEF PaneAtStage
    <2>3. DOMAIN pane = DOMAIN Unread
      BY <1>2 DEF PaneAtStage
    <2> QED
      BY <1>1, <2>1, <2>2, <2>3
  <1>4. /\ DOMAIN pane' = DOMAIN Unread /\ pane'.failed = FALSE
        /\ pane'.foreground = foreground
    BY <1>1, <1>3
  <1>5. IsFound(Here)' => SeenRightly(Here, foreground)'
    BY DEF IsFound, IsConnected, SeenRightly, IsUndisturbed, Held, Here
  <1>6. IsFound(Here)' => SeenRightly(Here, pane.foreground)'
    BY <1>4, <1>5 DEF SeenRightly
  <1> QED
    BY <1>4, <1>6 DEF PaneAtStage, PaneStages

LEMMA GroupIsRead ==
    ASSUME IInv, ReadGroup, UNCHANGED <<saves, disk>>
    PROVE  IInv'
  <1>1. stage = "group" /\ todo # <<>> /\ IsConnected /\ TypeOK /\ PaneAtStage
    BY DEF ReadGroup, IInv
  <1> DEFINE p == Here
  <1>2. ASSUME NEW reason, Unrecoverable(reason),
               IsFound(p) => ForegroundSeen(server.panes[p].process) = Unrecovered(reason)
        PROVE  IInv'
    <2>1. /\ UNCHANGED <<given, server, moves, listed, todo, reads, snapshot, failure,
                         link, previous>>
          /\ stage' = "scrollback"
          /\ pane' = [pane EXCEPT !.foreground = Unrecovered(reason)]
      BY <1>2 DEF Unrecoverable, Reading, Goto
    <2>2. IsFound(p) => SeenRightly(p, Unrecovered(reason))
      BY <1>2 DEF SeenRightly
    <2>3. UNCHANGED looked
      BY <2>1 DEF listed
    <2>4. PaneAtStage'
      BY <1>1, <2>1, <2>2, <2>3, ForegroundIsSeen
    <2>5. AtMostAMove
      BY <2>1 DEF AtMostAMove
    <2>6. Steady
      BY <1>1, <2>5, MovesAreBounded
    <2> QED
      BY <1>1, <2>1, <2>4, <2>6, ReadingGoesOn DEF PaneStages
  <1>3. ASSUME ~ IsThere \/ Process.holder = "dead", Unrecoverable("ShellGone")
        PROVE  IInv'
    <2>1. IsFound(p) => ForegroundSeen(server.panes[p].process) = Unrecovered("ShellGone")
      BY <1>3 DEF IsFound, IsThere, Process, ForegroundSeen
    <2> QED
      BY <1>2, <1>3, <2>1
  <1>4. ASSUME Process.holder = "nobody", Unrecoverable("NoTerminal")
        PROVE  IInv'
    <2>1. IsFound(p) => ForegroundSeen(server.panes[p].process) = Unrecovered("NoTerminal")
      BY <1>4 DEF Process, ForegroundSeen
    <2> QED
      BY <1>2, <1>4, <2>1
  <1>5. ASSUME Process.holder \notin {"dead", "nobody"},
               Reading("leader", [pane EXCEPT !.group = Process])
        PROVE  IInv'
    <2>1. /\ UNCHANGED <<given, server, moves, listed, todo, reads, snapshot, failure,
                         link, previous>>
          /\ stage' = "leader" /\ pane' = [pane EXCEPT !.group = Process]
      BY <1>5 DEF Reading, Goto
    <2>2. pane = Unread
      BY <1>1 DEF PaneAtStage
    <2>3. /\ DOMAIN Unread = {"group", "foreground", "scrollback", "failed"}
          /\ Unread.failed = FALSE
      BY DEF Unread
    <2>4. /\ DOMAIN pane' = DOMAIN Unread /\ pane'.failed = FALSE
          /\ pane'.group = Process
      BY <2>1, <2>2, <2>3
    <2>5. Process' = Process
      BY <2>1 DEF Process, Here
    <2>6. PaneAtStage'
      BY <1>1, <1>5, <2>1, <2>4, <2>5 DEF PaneAtStage, PaneStages
    <2>7. AtMostAMove
      BY <2>1 DEF AtMostAMove
    <2>8. Steady
      BY <1>1, <2>7, MovesAreBounded
    <2> QED
      BY <1>1, <2>1, <2>6, <2>8, ReadingGoesOn DEF PaneStages
  <1>6. ASSUME Refused
        PROVE  IInv'
    <2>1. /\ UNCHANGED <<given, server, listed, todo, reads, snapshot, failure,
                         link, previous>>
          /\ stage' = "scrollback"
          /\ pane' = [pane EXCEPT !.foreground = Unrecovered("Os")]
          /\ moves < given.moves /\ moves' = moves + 1
      BY <1>6 DEF Refused, Goto
    <2>2. IsFound(p) => SeenRightly(p, Unrecovered("Os"))
      BY DEF SeenRightly
    <2>3. UNCHANGED looked
      BY <2>1 DEF listed
    <2>4. PaneAtStage'
      BY <1>1, <2>1, <2>2, <2>3, ForegroundIsSeen
    <2>5. AtMostAMove
      BY <2>1 DEF AtMostAMove
    <2>6. Steady
      BY <1>1, <2>5, MovesAreBounded
    <2> QED
      BY <1>1, <2>1, <2>4, <2>6, ReadingGoesOn DEF PaneStages
  <1> QED
    BY <1>3, <1>4, <1>5, <1>6 DEF ReadGroup

LEMMA LeaderIsRead ==
    ASSUME IInv, ReadLeader, UNCHANGED <<saves, disk>>
    PROVE  IInv'
  <1>1. stage = "leader" /\ IsConnected /\ TypeOK /\ PaneAtStage
    BY DEF ReadLeader, IInv
  <1> DEFINE p == Here
  <1>2. /\ todo # <<>> /\ pane.group.holder \notin {"dead", "nobody"}
        /\ IsFound(p) /\ IsUndisturbed(p) => pane.group = Process
    BY <1>1 DEF PaneAtStage
  <1>3. ASSUME NEW foreground, IsFound(p) => SeenRightly(p, foreground),
               pane' = [pane EXCEPT !.foreground = foreground], stage' = "scrollback",
               UNCHANGED <<server, listed, todo, reads, snapshot, failure, link>>,
               AtMostAMove
        PROVE  IInv'
    <2>1. UNCHANGED looked
      BY <1>3 DEF listed
    <2>2. PaneAtStage'
      BY <1>1, <1>2, <1>3, <2>1, ForegroundIsSeen
    <2>3. Steady
      BY <1>1, <1>3, MovesAreBounded
    <2> QED
      BY <1>1, <1>3, <2>2, <2>3, ReadingGoesOn DEF PaneStages
  <1>4. ASSUME NEW argv \in ArgvOfLeader
        PROVE  /\ argv = 0 /\ IsFound(p) => SeenRightly(p, Unrecovered("LeaderGone"))
               /\ argv # 0 /\ IsFound(p) =>
                     SeenRightly(p, ForegroundOf(pane.group.holder = "own", argv))
    <2> SUFFICES ASSUME IsFound(p), IsUndisturbed(p)
                 PROVE  ForegroundSeen(server.panes[p].process) =
                           IF argv = 0 THEN Unrecovered("LeaderGone")
                           ELSE ForegroundOf(pane.group.holder = "own", argv)
      BY DEF SeenRightly
    <2>1. pane.group = Process /\ Process = server.panes[p].process /\ IsThere
      BY <1>2 DEF Process, IsFound, IsThere
    <2>2. Process.holder # "dead" /\ Process.holder # "nobody"
      BY <1>2, <2>1
    <2>3. argv = Process.led
      BY <2>1, <2>2 DEF ArgvOfLeader
    <2> QED
      BY <2>1, <2>2, <2>3 DEF ForegroundSeen, ForegroundOf
  <1>5. ASSUME NEW argv \in ArgvOfLeader, argv = 0, Unrecoverable("LeaderGone")
        PROVE  IInv'
    <2>1. /\ UNCHANGED <<given, server, moves, listed, todo, reads, snapshot, failure,
                         link, previous>>
          /\ stage' = "scrollback"
          /\ pane' = [pane EXCEPT !.foreground = Unrecovered("LeaderGone")]
      BY <1>5 DEF Unrecoverable, Reading, Goto
    <2>2. AtMostAMove
      BY <2>1 DEF AtMostAMove
    <2>3. IsFound(p) => SeenRightly(p, Unrecovered("LeaderGone"))
      BY <1>4, <1>5
    <2> QED
      BY <1>3, <2>1, <2>2, <2>3
  <1>6. ASSUME NEW argv \in ArgvOfLeader, argv # 0,
               Reading("scrollback", [pane EXCEPT !.foreground =
                          ForegroundOf(pane.group.holder = "own", argv)])
        PROVE  IInv'
    <2>1. /\ UNCHANGED <<given, server, moves, listed, todo, reads, snapshot, failure,
                         link, previous>>
          /\ stage' = "scrollback"
          /\ pane' = [pane EXCEPT !.foreground =
                         ForegroundOf(pane.group.holder = "own", argv)]
      BY <1>6 DEF Reading, Goto
    <2>2. AtMostAMove
      BY <2>1 DEF AtMostAMove
    <2>3. IsFound(p) => SeenRightly(p, ForegroundOf(pane.group.holder = "own", argv))
      BY <1>4, <1>6
    <2> QED
      BY <1>3, <2>1, <2>2, <2>3
  <1>7. ASSUME Refused
        PROVE  IInv'
    <2>1. /\ UNCHANGED <<given, server, listed, todo, reads, snapshot, failure,
                         link, previous>>
          /\ stage' = "scrollback"
          /\ pane' = [pane EXCEPT !.foreground = Unrecovered("Os")]
          /\ moves < given.moves /\ moves' = moves + 1
      BY <1>7 DEF Refused, Goto
    <2>2. IsFound(p) => SeenRightly(p, Unrecovered("Os"))
      BY DEF SeenRightly
    <2>3. AtMostAMove
      BY <2>1 DEF AtMostAMove
    <2> QED
      BY <1>3, <2>1, <2>2, <2>3
  <1> QED
    BY <1>5, <1>6, <1>7 DEF ReadLeader

LEMMA ScrollbackIsRead ==
    ASSUME IInv, ReadScrollback, UNCHANGED <<saves, disk>>
    PROVE  IInv'
  <1>1. stage = "scrollback" /\ IsConnected /\ TypeOK /\ PaneAtStage
    BY DEF ReadScrollback, IInv
  <1>2. /\ todo # <<>> /\ pane.failed = FALSE /\ DOMAIN pane = DOMAIN Unread
        /\ IsFound(Here) => SeenRightly(Here, pane.foreground)
    BY <1>1 DEF PaneAtStage, PaneStages
  <1>3. DOMAIN Unread = {"group", "foreground", "scrollback", "failed"}
    BY DEF Unread
  <1>4. /\ UNCHANGED <<given, server, moves, listed, todo, reads, snapshot, failure,
                       link, previous>>
        /\ stage' = "visible"
    BY DEF ReadScrollback, Reading, Goto
  <1>5. \/ \E text : pane' = [pane EXCEPT !.scrollback = text]
        \/ pane' = [pane EXCEPT !.failed = TRUE] /\ ~ IsThere
    BY DEF ReadScrollback, Reading
  <1>6. /\ DOMAIN pane' = DOMAIN Unread /\ pane'.foreground = pane.foreground
        /\ IsThere => pane'.failed = FALSE
    BY <1>2, <1>3, <1>5
  <1>7. UNCHANGED looked
    BY <1>4 DEF listed
  <1>8. IsFound(Here)' => IsThere /\ IsFound(Here)
    BY <1>4 DEF IsFound, IsThere, IsConnected, Here
  <1>9. IsFound(Here)' => SeenRightly(Here, pane.foreground)'
    BY <1>2, <1>4, <1>6, <1>7, <1>8 DEF SeenRightly, IsUndisturbed, Held, Here
  <1>10. PaneAtStage'
    BY <1>2, <1>4, <1>6, <1>8, <1>9 DEF PaneAtStage, PaneStages
  <1>11. AtMostAMove
    BY <1>4 DEF AtMostAMove
  <1>12. Steady
    BY <1>1, <1>11, MovesAreBounded
  <1> QED
    BY <1>1, <1>4, <1>10, <1>12, ReadingGoesOn DEF PaneStages

LEMMA HeadAndTail ==
    ASSUME NEW R, NEW s \in Seq(R), s # <<>>
    PROVE  Tail(s) \in Seq(R) /\ IdsOf(s) \subseteq {s[1].pane_id} \cup IdsOf(Tail(s))
  <1>1. /\ Tail(s) \in Seq(R) /\ Len(s) \in Nat /\ Len(s) # 0
        /\ DOMAIN s = 1 .. Len(s) /\ DOMAIN Tail(s) = 1 .. Len(s) - 1
        /\ \A i \in 1 .. Len(s) - 1 : Tail(s)[i] = s[i + 1]
    OBVIOUS
  <1>2. ASSUME NEW i \in DOMAIN s, i # 1
        PROVE  s[i] \in ToSet(Tail(s))
    <2>1. i - 1 \in 1 .. Len(s) - 1 /\ (i - 1) + 1 = i
      BY <1>1, <1>2
    <2>2. Tail(s)[i - 1] = s[i]
      BY <1>1, <2>1
    <2> QED
      BY <1>1, <2>1, <2>2 DEF ToSet
  <1>3. ASSUME NEW row \in ToSet(s)
        PROVE  row.pane_id \in {s[1].pane_id} \cup IdsOf(Tail(s))
    <2>1. PICK i \in DOMAIN s : row = s[i]
      BY DEF ToSet
    <2> QED
      BY <1>2, <2>1 DEF IdsOf
  <1> QED
    BY <1>1, <1>3 DEF IdsOf

LEMMA VisibleIsRead ==
    ASSUME IInv, ReadVisible, UNCHANGED <<saves, disk>>
    PROVE  IInv'
  <1> DEFINE p == Here
             read == [foreground |-> pane.foreground, content |-> ContentRead]
  <1>1. /\ stage = "visible" /\ IsConnected /\ stage' = "group"
        /\ reads' = Put(reads, p, read)
        /\ todo' = Tail(todo) /\ pane' = Unread
        /\ UNCHANGED <<given, server, moves, listed, snapshot, failure, link, previous>>
    BY DEF ReadVisible, Goto
  <1>2. UNCHANGED <<looked, rows, clients, touched, id>>
    BY <1>1 DEF listed
  <1>3. /\ TypeOK /\ IsServer(server) /\ LinkedToOne /\ LookedOnce /\ NothingComesBack
        /\ InStages /\ ReadInTurn /\ PaneAtStage /\ SnapshotAtLast
    BY DEF IInv
  <1>4. /\ todo # <<>> /\ stage \in PaneStages
        /\ IsFound(p) => pane.failed = FALSE /\ SeenRightly(p, pane.foreground)
    BY <1>1, <1>3 DEF PaneAtStage, PaneStages
  <1>5. looked # None /\ p \in DOMAIN Held.panes
    BY <1>3, <1>4, HereIsHeld
  <1>6. AtMostAMove
    BY <1>1 DEF AtMostAMove
  <1>7. Steady
    BY <1>3, <1>6, MovesAreBounded
  <1>8. TypeOK'
    <2>1. stage' \in Stages /\ failure' = failure /\ snapshot' = snapshot
      BY <1>1 DEF Stages
    <2>2. failure' \in {"none", "Connection", "MalformedRow", "MalformedServerMark",
                        "Fold", "Snapshot"}
      BY <1>3, <2>1 DEF TypeOK
    <2> QED
      BY <1>3, <1>7, <2>1, <2>2, TypesStay
  <1>9. IsServer(server')
    BY <1>1, <1>3
  <1>10. LinkedToOne' /\ LookedOnce' /\ NothingComesBack'
    BY <1>1, <1>2, <1>3 DEF LinkedToOne, LookedOnce, NothingComesBack, Held, IsConnected
  <1>11. InStages' /\ PaneAtStage'
    BY <1>1, <1>2, <1>5 DEF InStages, PaneAtStage, PaneStages
  <1>12. SnapshotAtLast'
    BY <1>1, <1>3 DEF SnapshotAtLast
  <1>13. /\ DOMAIN reads' = DOMAIN reads \cup {p} /\ reads'[p] = read
         /\ \A q \in DOMAIN reads : q # p => reads'[q] = reads[q]
    BY <1>1 DEF Put
  <1>14. ReadInTurn'
    <2>1. /\ DOMAIN reads \subseteq DOMAIN Held.panes
          /\ \A q \in DOMAIN reads : ReadWell(q)
          /\ todo \in Seq(ToSet(rows))
          /\ IdsOf(rows) \subseteq DOMAIN reads \cup IdsOf(todo)
      BY <1>3, <1>4, <1>5 DEF ReadInTurn
    <2>2. todo' \in Seq(ToSet(rows)) /\ IdsOf(todo) \subseteq {p} \cup IdsOf(todo')
      BY <1>1, <1>4, <2>1, HeadAndTail DEF Here
    <2>3. ASSUME NEW q \in DOMAIN reads'
          PROVE  ReadWell(q)'
      <3>1. CASE q = p
        <4> SUFFICES ASSUME IsFound(q)
                     PROVE  /\ ContentRead.is # "not captured"
                            /\ SeenRightly(q, pane.foreground)
          <5>1. /\ reads'[q].content = ContentRead
                /\ reads'[q].foreground = pane.foreground
            <6>1. read.foreground = pane.foreground /\ read.content = ContentRead
              OBVIOUS
            <6> HIDE DEF read, p
            <6> QED
              BY <1>13, <3>1, <6>1
          <5> HIDE DEF read, p
          <5>2. IsFound(q)' = IsFound(q)
            BY <1>1 DEF IsFound, IsConnected
          <5>3. SeenRightly(q, pane.foreground) =>
                   (IsUndisturbed(q)' => reads'[q].foreground \in
                       {ForegroundSeen(server'.panes[q].process), Unrecovered("Os")})
            BY <1>1, <1>2, <5>1 DEF SeenRightly, IsUndisturbed, Held
          <5> QED
            BY <5>1, <5>2, <5>3 DEF ReadWell, SeenRightly
        <4>1. pane.failed = FALSE /\ IsThere /\ SeenRightly(q, pane.foreground)
          BY <1>4, <3>1 DEF IsFound, IsThere
        <4>2. ContentRead.is = "captured"
          BY <4>1 DEF ContentRead, Captured
        <4> QED
          BY <4>1, <4>2
      <3>2. CASE q # p
        <4>1. q \in DOMAIN reads /\ reads'[q] = reads[q] /\ ReadWell(q)
          BY <1>13, <2>1, <3>2
        <4> HIDE DEF p
        <4> QED
          BY <1>1, <1>2, <4>1
             DEF ReadWell, IsFound, IsConnected, SeenRightly, IsUndisturbed, Held
      <3> QED
        BY <3>1, <3>2
    <2>4. DOMAIN reads' \subseteq DOMAIN Held.panes
      BY <1>5, <1>13, <2>1
    <2>5. IdsOf(rows) \subseteq DOMAIN reads' \cup IdsOf(todo')
      BY <1>13, <2>1, <2>2
    <2>6. rows' = rows /\ Held' = Held /\ IdsOf(todo)' = IdsOf(todo') /\ IdsOf(rows)' = IdsOf(rows)
      BY <1>2 DEF Held, IdsOf
    <2> QED
      BY <2>2, <2>3, <2>4, <2>5, <2>6 DEF ReadInTurn
  <1> QED
    BY <1>8, <1>9, <1>10, <1>11, <1>12, <1>14 DEF IInv

LEMMA ConnectionIsLost ==
    ASSUME IInv, ConnectionLost, UNCHANGED <<saves, disk>>
    PROVE  IInv'
  <1>1. /\ stage' = "over" /\ snapshot' = None /\ failure' = "Connection"
        /\ UNCHANGED <<given, server, moves, link, listed, reading>>
    BY DEF ConnectionLost, Fail, Over
  <1>2. AtMostAMove
    BY <1>1 DEF AtMostAMove
  <1>3. Steady
    BY <1>2, MovesAreBounded DEF IInv
  <1> QED
    BY <1>1, <1>3, OverKeeps

\* A step between two commands that answer for the whole server.
LEMMA SurveyGoesOn ==
    ASSUME IInv, AtMostAMove, stage \in {"panes", "clients", "mark"},
           stage' \in {"clients", "mark", "id"},
           UNCHANGED <<server, link, reading, snapshot, failure>>,
           \/ stage # "panes" /\ UNCHANGED <<looked, rows>>
           \/ IsConnected /\ looked' = Some(server) /\ rows' = ListPanes(server)
    PROVE  IInv'
  <1>1. UNCHANGED <<todo, pane, reads>>
    BY DEF reading
  <1>2. /\ TypeOK /\ IsServer(server) /\ LinkedToOne /\ LookedOnce /\ NothingComesBack
        /\ InStages /\ ReadInTurn /\ PaneAtStage /\ SnapshotAtLast
    BY DEF IInv
  <1>3. reads = <<>> /\ pane = Unread
    BY <1>2 DEF InStages
  <1>4. Steady
    BY <1>2, MovesAreBounded
  <1>5. TypeOK'
    <2>1. stage' \in Stages /\ failure' = failure /\ snapshot' = snapshot
      BY DEF Stages
    <2>2. failure' \in {"none", "Connection", "MalformedRow", "MalformedServerMark",
                        "Fold", "Snapshot"}
      BY <1>2, <2>1 DEF TypeOK
    <2> QED
      BY <1>2, <1>4, <2>1, <2>2, TypesStay
  <1>6. IsServer(server') /\ LinkedToOne'
    BY <1>2 DEF LinkedToOne
  <1>7. looked' # None /\ LookedOnce' /\ NothingComesBack'
    <2>1. CASE stage # "panes" /\ UNCHANGED <<looked, rows>>
      <3>1. looked # None
        BY <1>2, <2>1 DEF InStages
      <3> QED
        BY <1>2, <2>1, <3>1 DEF LookedOnce, NothingComesBack, Held, IsConnected
    <2>2. CASE IsConnected /\ looked' = Some(server) /\ rows' = ListPanes(server)
      <3>1. looked' # None /\ Held' = server
        BY <2>2 DEF Held, Some, None
      <3>2. IsLater(server, server)
        <4>1. IsLater(server, server) \/ server.id.pid = server.id.pid + 1
          BY <1>2, NotEarlier DEF MovesOn
        <4>2. server.id.pid \in Nat
          BY <1>2 DEF IsServer
        <4> QED
          BY <4>1, <4>2
      <3>3. LookedOnce'
        BY <1>2, <2>2, <3>1 DEF LookedOnce, IsConnected
      <3>4. NothingComesBack'
        BY <3>1, <3>2 DEF NothingComesBack
      <3> QED
        BY <3>1, <3>3, <3>4
    <2> QED
      BY <2>1, <2>2
  <1>8. InStages' /\ PaneAtStage'
    BY <1>1, <1>3, <1>7 DEF InStages, PaneAtStage, PaneStages
  <1>9. ReadInTurn'
    <2>1. DOMAIN <<>> = {} /\ reads' = <<>> /\ stage' \notin PaneStages
      BY <1>1, <1>3 DEF PaneStages
    <2> QED
      BY <2>1 DEF ReadInTurn
  <1>10. SnapshotAtLast'
    BY <1>2 DEF SnapshotAtLast
  <1> QED
    BY <1>5, <1>6, <1>7, <1>8, <1>9, <1>10 DEF IInv

LEMMA PanesAreListed ==
    ASSUME IInv, ReadPanes, UNCHANGED <<saves, disk>>
    PROVE  IInv'
  <1>1. stage = "panes" /\ IsConnected /\ UNCHANGED <<given, server, moves>>
    BY DEF ReadPanes
  <1>2. AtMostAMove
    BY <1>1 DEF AtMostAMove
  <1>3. CASE \A row \in ToSet(ListPanes(server)) : Parses(row)
    <2>1. /\ rows' = ListPanes(server) /\ looked' = Some(server) /\ stage' = "clients"
          /\ UNCHANGED <<link, reading, snapshot, failure>>
      BY <1>3 DEF ReadPanes, Goto
    <2> QED
      BY <1>1, <1>2, <2>1, SurveyGoesOn
  <1>4. CASE ~ \A row \in ToSet(ListPanes(server)) : Parses(row)
    <2>1. /\ stage' = "over" /\ snapshot' = None /\ failure' = "MalformedRow"
          /\ UNCHANGED <<link, listed, reading>>
      BY <1>4 DEF ReadPanes, Fail, Over
    <2>2. Steady
      BY <1>2, MovesAreBounded DEF IInv
    <2> QED
      BY <1>1, <2>1, <2>2, OverKeeps
  <1> QED
    BY <1>3, <1>4

LEMMA ClientsAreListed ==
    ASSUME IInv, ReadClients, UNCHANGED <<saves, disk>>
    PROVE  IInv'
  <1>1. /\ stage = "clients" /\ stage' = "mark"
        /\ UNCHANGED <<given, server, moves, looked, rows, link, reading, snapshot, failure>>
    BY DEF ReadClients, Goto
  <1>2. AtMostAMove
    BY <1>1 DEF AtMostAMove
  <1> QED
    BY <1>1, <1>2, SurveyGoesOn

LEMMA MarkIsRead ==
    ASSUME IInv, ReadMark, UNCHANGED <<saves, disk>>
    PROVE  IInv'
  <1>1. stage = "mark" /\ UNCHANGED <<given, server, moves>>
    BY DEF ReadMark
  <1>2. AtMostAMove
    BY <1>1 DEF AtMostAMove
  <1>3. CASE Len(server.mark) <= 1
    <2>1. /\ stage' = "id"
          /\ UNCHANGED <<looked, rows, link, reading, snapshot, failure>>
      BY <1>3 DEF ReadMark, Goto
    <2> QED
      BY <1>1, <1>2, <2>1, SurveyGoesOn
  <1>4. CASE ~ Len(server.mark) <= 1
    <2>1. /\ stage' = "over" /\ snapshot' = None /\ failure' = "MalformedServerMark"
          /\ UNCHANGED <<link, listed, reading>>
      BY <1>4 DEF ReadMark, Fail, Over
    <2>2. Steady
      BY <1>2, MovesAreBounded DEF IInv
    <2> QED
      BY <1>1, <2>1, <2>2, OverKeeps
  <1> QED
    BY <1>3, <1>4

LEMMA IdIsRead ==
    ASSUME IInv, ReadId, UNCHANGED <<saves, disk>>
    PROVE  IInv'
  <1>1. /\ stage = "id" /\ stage' = "group" /\ todo' = ReadingOrder(rows)
        /\ UNCHANGED <<given, server, moves, link, looked, rows, clients, touched, pane,
                       reads, snapshot, failure>>
    BY DEF ReadId, Goto
  <1>2. /\ TypeOK /\ IsServer(server) /\ LinkedToOne /\ LookedOnce /\ NothingComesBack
        /\ InStages /\ ReadInTurn /\ PaneAtStage /\ SnapshotAtLast
    BY DEF IInv
  <1>3. looked # None /\ reads = <<>> /\ pane = Unread
    BY <1>1, <1>2 DEF InStages
  <1>4. AtMostAMove
    BY <1>1 DEF AtMostAMove
  <1>5. Steady
    BY <1>2, <1>4, MovesAreBounded
  <1>6. TypeOK'
    <2>1. stage' \in Stages /\ failure' = failure /\ snapshot' = snapshot
      BY <1>1 DEF Stages
    <2>2. failure' \in {"none", "Connection", "MalformedRow", "MalformedServerMark",
                        "Fold", "Snapshot"}
      BY <1>2, <2>1 DEF TypeOK
    <2> QED
      BY <1>2, <1>5, <2>1, <2>2, TypesStay
  <1>7. IsServer(server') /\ LinkedToOne' /\ LookedOnce' /\ NothingComesBack'
    BY <1>1, <1>2 DEF LinkedToOne, LookedOnce, NothingComesBack, Held, IsConnected
  <1>8. InStages' /\ PaneAtStage'
    BY <1>1, <1>3 DEF InStages, PaneAtStage, PaneStages
  <1>9. ReadInTurn'
    <2>1. IsServer(Held) /\ rows = ListPanes(Held)
      BY <1>2, <1>3 DEF LookedOnce
    <2>2. todo' \in Seq(ToSet(rows)) /\ IdsOf(rows) \subseteq IdsOf(todo')
      BY <1>1, <2>1, ReadingOrderFacts
    <2>3. DOMAIN <<>> = {} /\ reads' = <<>> /\ rows' = rows
      BY <1>1, <1>3
    <2>4. IdsOf(rows)' = IdsOf(rows) /\ IdsOf(todo)' = IdsOf(todo')
      BY <2>3 DEF IdsOf
    <2> QED
      BY <2>2, <2>3, <2>4 DEF ReadInTurn
  <1>10. SnapshotAtLast'
    BY <1>1, <1>2 DEF SnapshotAtLast
  <1> QED
    BY <1>6, <1>7, <1>8, <1>9, <1>10 DEF IInv

\* The rows always fold, so what a capture is over with is the fold or nothing.
LEMMA FoldsAtLast ==
    ASSUME IInv, stage = "group"
    PROVE  /\ looked # None /\ rows = ListPanes(Held) /\ Fold(rows, reads) # None
           /\ Fold(rows, reads) = Some(Fold(rows, reads)[1])
           /\ FoldsTo(Fold(rows, reads)[1], Held, reads)
  <1>1. looked # None /\ IsServer(Held) /\ rows = ListPanes(Held)
    BY DEF IInv, InStages, LookedOnce, PaneStages
  <1>2. PICK f : Fold(ListPanes(Held), reads) = Some(f) /\ FoldsTo(f, Held, reads)
    BY <1>1, ListingsFold
  <1>3. Some(f) # None /\ Some(f)[1] = f
    BY DEF Some, None
  <1> QED
    BY <1>1, <1>2, <1>3

LEMMA CaptureFinishes ==
    ASSUME IInv, NEW clock, Finish(clock), UNCHANGED <<saves, disk>>
    PROVE  IInv'
  <1> DEFINE folded == Fold(rows, reads)
             s == [origin |-> id, touched |-> touched, captured_at |-> clock,
                   tmux_version |-> server.version, windows |-> folded[1].windows,
                   sessions |-> folded[1].sessions, clients |-> clients]
  <1>1. /\ stage = "group" /\ todo = <<>> /\ stage' = "over"
        /\ UNCHANGED <<given, server, moves, link, listed, reading>>
    BY DEF Finish, Over
  <1>2. AtMostAMove
    BY <1>1 DEF AtMostAMove
  <1>3. Steady
    BY <1>2, MovesAreBounded DEF IInv
  <1>4. looked # None /\ folded # None
    BY <1>1, FoldsAtLast
  <1>5. \/ snapshot' = None /\ failure' = "Snapshot"
        \/ ~ IsRefused(folded[1]) /\ snapshot' = Some(s) /\ failure' = "none"
    BY <1>4 DEF Finish, Over
  <1>6. CASE snapshot' = None /\ failure' = "Snapshot"
    BY <1>1, <1>3, <1>6, OverKeeps
  <1>7. CASE ~ IsRefused(folded[1]) /\ snapshot' = Some(s) /\ failure' = "none"
    <2>1. /\ s.windows = folded[1].windows /\ s.sessions = folded[1].sessions
          /\ s.clients = clients
      OBVIOUS
    <2>2. IdsOf(rows) \subseteq DOMAIN reads
      <3>1. IdsOf(rows) \subseteq DOMAIN reads \cup IdsOf(todo)
        BY <1>1, <1>4 DEF IInv, ReadInTurn, PaneStages
      <3>2. DOMAIN <<>> = {}
        OBVIOUS
      <3>3. IdsOf(todo) = {}
        BY <1>1, <3>2 DEF IdsOf, ToSet
      <3> QED
        BY <3>1, <3>3
    <2> HIDE DEF s
    <2>3. IsSnapshot(s.windows, s.sessions, s.clients)
      BY <1>7, <2>1 DEF IsRefused
    <2>4. IsOutcome(s)
      BY <1>4, <2>1, <2>2, <2>3 DEF IsOutcome
    <2>5. snapshot'[1] = s /\ snapshot' = Some(snapshot'[1])
      BY <1>7 DEF Some
    <2>6. IsOutcome(snapshot'[1])
      BY <2>4, <2>5
    <2> QED
      BY <1>1, <1>3, <1>7, <2>5, <2>6, OverKeeps
  <1> QED
    BY <1>5, <1>6, <1>7

LEMMA CaptureStepKeeps ==
    ASSUME IInv, NEW clock, CaptureStep(clock), UNCHANGED <<disk, saves>>
    PROVE  IInv'
  BY PanesAreListed, ClientsAreListed, MarkIsRead, IdIsRead, GroupIsRead, LeaderIsRead,
     ScrollbackIsRead, VisibleIsRead, CaptureFinishes, ConnectionIsLost, Zenon
     DEF CaptureStep

-----------------------------------------------------------------------------
(***************************************************************************)
(* The invariant of the whole.                                             *)
(***************************************************************************)
Blank ==
    /\ looked = None /\ stage \in {"idle", "panes"} /\ reads = <<>> /\ pane = Unread
    /\ snapshot = None /\ failure = "none"

Vacuous ==
    /\ LookedOnce /\ NothingComesBack /\ InStages /\ ReadInTurn
    /\ PaneAtStage /\ SnapshotAtLast
    /\ \A s \in Kept : IsSnapshot(s.windows, s.sessions, s.clients)
    /\ stage \in Stages

\* With nothing listed there is little to know.
LEMMA NothingIsKnown ==
    Blank => Vacuous
  <1> SUFFICES ASSUME Blank
               PROVE  Vacuous
    OBVIOUS
  <1>1. ToSet(<<>>) = {}
    BY DEF ToSet
  <1>2. \A s \in Kept : IsSnapshot(s.windows, s.sessions, s.clients)
    BY <1>1 DEF Kept, None, Blank
  <1> QED
    BY <1>2 DEF Blank, Vacuous, LookedOnce, NothingComesBack, InStages, ReadInTurn,
                PaneAtStage, SnapshotAtLast, PaneStages, Stages

LEMMA InitHolds ==
    Init => IInv
  <1> SUFFICES ASSUME Init
               PROVE  IInv
    OBVIOUS
  <1>1. /\ given \in Scenarios /\ server = given.server /\ moves = 0 /\ saves = 0
        /\ looked = None /\ stage = "idle" /\ reads = <<>> /\ pane = Unread
        /\ snapshot = None /\ failure = "none" /\ link = None
        /\ blobs = given.blobs /\ damaged = FALSE
    BY DEF Init, InitCapture, NoCapture
  <1>2. /\ IsServer(server) /\ given.moves \in Nat /\ given.saves \in Nat
        /\ \A text \in DOMAIN blobs : blobs[text] \in {"whole", "cut"}
    BY <1>1, ScenarioAssumption
  <1>3. Vacuous
    BY <1>1, NothingIsKnown DEF Blank
  <1>4. TypeOK
    <2>1. 0 \in 0 .. given.moves /\ 0 \in 0 .. given.saves
      BY <1>2
    <2> QED
      BY <1>1, <1>2, <1>3, <2>1 DEF TypeOK, Vacuous
  <1>5. LinkedToOne
    BY <1>1 DEF LinkedToOne
  <1> QED
    BY <1>2, <1>3, <1>4, <1>5 DEF IInv, Vacuous

LEMMA UserKeeps ==
    ASSUME IInv, UserMoves, UNCHANGED <<disk, saves>>
    PROVE  IInv'
  <1>1. TypeOK /\ IsServer(server) /\ given \in Scenarios
    BY DEF IInv, TypeOK
  <1>2. MovesOn(server, server') /\ \E kind : May(kind)
    BY <1>1, UserMovesOn
  <1>3. moves < given.moves /\ moves' = moves + 1 /\ UNCHANGED <<given, capturing>>
    BY <1>2 DEF May
  <1>4. AtMostAMove
    BY <1>3 DEF AtMostAMove
  <1>5. Steady
    BY <1>1, <1>4, MovesAreBounded
  <1>6. TypeOK'
    <2>1. UNCHANGED <<stage, snapshot, failure>>
      BY <1>3 DEF capturing
    <2>2. stage' \in Stages /\ snapshot' = snapshot
            /\ failure' \in {"none", "Connection", "MalformedRow", "MalformedServerMark",
                             "Fold", "Snapshot"}
      BY <1>1, <2>1 DEF TypeOK
    <2> QED
      BY <1>1, <1>5, <2>2, TypesStay
  <1> QED
    BY <1>2, <1>3, <1>6, CaptureStays

\* The disk, and a server that stays as it is.
LEMMA ServerStays ==
    ASSUME IInv, UNCHANGED <<server, capturing>>, TypeOK'
    PROVE  IInv'
  <1>1. MovesOn(server, server')
    BY NotEarlier DEF IInv
  <1> QED
    BY <1>1, CaptureStays

LEMMA DamageKeeps ==
    ASSUME IInv, Damage
    PROVE  IInv'
  <1>1. /\ TypeOK /\ given \in Scenarios
        /\ \A text \in DOMAIN blobs : blobs[text] \in {"whole", "cut"}
    BY DEF IInv, TypeOK
  <1>2. /\ moves < given.moves /\ moves' = moves + 1 /\ UNCHANGED <<given, capturing>>
        /\ UNCHANGED <<server, saves>> /\ damaged' = TRUE
    BY DEF Damage, May
  <1>3. given.moves \in Nat /\ moves \in 0 .. given.moves
    BY <1>1, ScenarioAssumption DEF TypeOK
  <1>4. moves' \in 0 .. given.moves
    BY <1>2, <1>3
  <1>5. \A text \in DOMAIN blobs' : blobs'[text] \in {"whole", "cut"}
    <2>1. CASE UNCHANGED blobs
      BY <1>1, <2>1
    <2>2. CASE \E text \in DOMAIN blobs : blobs' = [blobs EXCEPT ![text] = "cut"]
      BY <1>1, <2>2
    <2>3. CASE \E text \in DOMAIN blobs : blobs' = [t \in DOMAIN blobs \ {text} |-> blobs[t]]
      BY <1>1, <2>3
    <2> QED
      BY <2>1, <2>2, <2>3 DEF Damage
  <1>6. UNCHANGED <<stage, snapshot, failure>>
    BY <1>2 DEF capturing
  <1>7. TypeOK'
    BY <1>1, <1>2, <1>4, <1>5, <1>6 DEF TypeOK, Kept
  <1> QED
    BY <1>2, <1>7, ServerStays

LEMMA SaveBegins ==
    ASSUME IInv, RunSave
    PROVE  IInv'
  <1>1. TypeOK /\ IsServer(server) /\ given \in Scenarios /\ InStages /\ SnapshotAtLast
    BY DEF IInv, TypeOK
  <1>2. /\ stage = "idle" /\ stage' = "panes" /\ link' = Some(server.id)
        /\ saves < given.saves /\ saves' = saves + 1
        /\ UNCHANGED <<given, server, moves, listed, reading, snapshot, failure, disk>>
    BY DEF RunSave, Begin
  <1>3. UNCHANGED <<looked, pane, reads, blobs, damaged>>
    BY <1>2 DEF listed, reading, disk
  <1>4. looked = None /\ reads = <<>> /\ pane = Unread /\ failure = "none" /\ snapshot = None
    BY <1>1, <1>2 DEF InStages, SnapshotAtLast
  <1>5. Vacuous'
    <2>1. Blank'
      BY <1>2, <1>3, <1>4 DEF Blank
    <2> QED
      BY <2>1, NothingIsKnown, PTL
  <1>6. TypeOK'
    <2>1. given.saves \in Nat /\ saves \in 0 .. given.saves
      BY <1>1, ScenarioAssumption DEF TypeOK
    <2>2. saves' \in 0 .. given.saves
      BY <1>2, <2>1
    <2> QED
      BY <1>1, <1>2, <1>3, <1>5, <2>2 DEF TypeOK, Vacuous
  <1>7. LinkedToOne'
    <2>1. server.id \in [pid : Nat, start : Nat]
      BY <1>1 DEF IsServer
    <2>2. link'[1] = server.id
      BY <1>2 DEF Some
    <2>3. server.id.pid <= server.id.pid
      BY <2>1
    <2> QED
      BY <1>2, <2>1, <2>2, <2>3 DEF LinkedToOne
  <1> QED
    BY <1>1, <1>2, <1>5, <1>6, <1>7 DEF IInv, Vacuous

LEMMA IdleKeeps ==
    ASSUME IInv, Idle, damaged' \in BOOLEAN,
           \A text \in DOMAIN blobs' : blobs'[text] \in {"whole", "cut"}
    PROVE  IInv'
  <1>1. TypeOK /\ IsServer(server)
    BY DEF IInv
  <1>2. /\ looked' = None /\ stage' = "idle" /\ reads' = <<>> /\ pane' = Unread
        /\ snapshot' = None /\ failure' = "none" /\ link' = None
        /\ UNCHANGED <<given, server, moves, saves>>
    BY DEF Idle
  <1>3. Vacuous'
    <2>1. Blank'
      BY <1>2 DEF Blank
    <2> QED
      BY <2>1, NothingIsKnown, PTL
  <1>4. TypeOK'
    BY <1>1, <1>2, <1>3 DEF TypeOK, Vacuous
  <1>5. LinkedToOne'
    BY <1>2 DEF LinkedToOne
  <1> QED
    BY <1>1, <1>2, <1>3, <1>4, <1>5 DEF IInv, Vacuous

LEMMA IInvIsInductive ==
    IInv /\ [Next]_vars => IInv'
  <1> SUFFICES ASSUME IInv, [Next]_vars
               PROVE  IInv'
    OBVIOUS
  <1>1. /\ TypeOK /\ damaged \in BOOLEAN
        /\ \A text \in DOMAIN blobs : blobs[text] \in {"whole", "cut"}
    BY DEF IInv, TypeOK
  <1>2. ASSUME Load
        PROVE  IInv'
    <2>1. UNCHANGED <<given, server, moves, capturing, saves, damaged, blobs>>
      BY <1>2 DEF Load
    <2>2. UNCHANGED <<stage, snapshot, failure>>
      BY <2>1 DEF capturing
    <2>3. TypeOK'
      BY <1>1, <2>1, <2>2 DEF TypeOK, Kept
    <2> QED
      BY <2>1, <2>3, ServerStays
  <1>3. ASSUME NotSaved
        PROVE  IInv'
    <2>1. Idle /\ UNCHANGED <<damaged, blobs>>
      BY <1>3 DEF NotSaved, disk
    <2> QED
      BY <1>1, <2>1, IdleKeeps
  <1>4. ASSUME Publish
        PROVE  IInv'
    <2>1. Idle /\ damaged' \in BOOLEAN
      BY <1>4 DEF Publish
    <2>2. \A text \in DOMAIN blobs' : blobs'[text] \in {"whole", "cut"}
      BY <1>1, <1>4 DEF Publish
    <2> QED
      BY <2>1, <2>2, IdleKeeps
  <1>5. ASSUME UNCHANGED vars
        PROVE  IInv'
    <2>1. UNCHANGED <<given, server, moves, capturing, saves, damaged, blobs>>
      BY <1>5 DEF vars, disk
    <2>2. UNCHANGED <<stage, snapshot, failure>>
      BY <2>1 DEF capturing
    <2>3. TypeOK'
      BY <1>1, <2>1, <2>2 DEF TypeOK, Kept
    <2> QED
      BY <2>1, <2>3, ServerStays
  <1> QED
    BY <1>2, <1>3, <1>4, <1>5, SaveBegins, DamageKeeps, UserKeeps, CaptureStepKeeps
       DEF Next

LEMMA IInvHolds ==
    Spec => []IInv
  BY InitHolds, IInvIsInductive, PTL DEF Spec

\* The records keep their types, and a snapshot that is kept resolves: its
\* windows and sessions are told apart, each winlink has its window, each
\* window a winlink, and each client its session.
THEOREM TypeCorrect ==
    Spec => []TypeOK
  <1>1. IInv => TypeOK
    BY DEF IInv
  <1> QED
    BY <1>1, IInvHolds, PTL

\* What is kept of a capture is what `fold` made of one listing.
LEMMA KeptIsFolded ==
    ASSUME IInv, NEW s \in Kept
    PROVE  /\ looked # None /\ IsServer(Held)
           /\ IdsOf(ListPanes(Held)) \subseteq DOMAIN reads
           /\ SessionsAre(s.sessions, Held) /\ WindowsAre(s.windows, Held, reads)
  <1>1. snapshot # None
    <2>1. ToSet(<<>>) = {}
      BY DEF ToSet
    <2> QED
      BY <2>1 DEF Kept, None
  <1>2. snapshot = Some(snapshot[1]) /\ IsOutcome(snapshot[1])
    BY <1>1 DEF IInv, SnapshotAtLast
  <1>3. s = snapshot[1]
    <2>1. \A x : ToSet(<<x>>) = {x}
      BY DEF ToSet
    <2> QED
      BY <1>2, <2>1 DEF Kept, Some
  <1>4. /\ looked # None /\ IdsOf(rows) \subseteq DOMAIN reads
        /\ s.windows = Fold(rows, reads)[1].windows
        /\ s.sessions = Fold(rows, reads)[1].sessions
    BY <1>2, <1>3 DEF IsOutcome
  <1>5. IsServer(Held) /\ rows = ListPanes(Held)
    BY <1>4 DEF IInv, LookedOnce
  <1>6. PICK f : Fold(rows, reads) = Some(f) /\ FoldsTo(f, Held, reads)
    BY <1>5, ListingsFold
  <1>7. Fold(rows, reads)[1] = f
    BY <1>6 DEF Some
  <1> QED
    BY <1>4, <1>5, <1>6, <1>7 DEF FoldsTo

\* However the user works between its commands, the graph a capture keeps is
\* the server as it stood when the panes were listed.
THEOREM OneLookIsRecorded ==
    Spec => []RecordsOneLook
  <1>1. IInv => RecordsOneLook
    <2> SUFFICES ASSUME IInv, NEW s \in Kept
                 PROVE  /\ SessionsKept(s) = SessionsHeld(Held)
                        /\ WindowsKept(s) = WindowsHeld(Held)
                        /\ Len(s.windows) = Cardinality(DOMAIN Held.windows)
      BY DEF RecordsOneLook, Held
    <2>1. SessionsAre(s.sessions, Held) /\ WindowsAre(s.windows, Held, reads)
      BY KeptIsFolded
    <2>2. SessionsKept(s) = SessionsHeld(Held)
      BY <2>1 DEF SessionsAre, SessionsKept
    <2>3. WindowsKept(s) = WindowsHeld(Held)
      BY <2>1 DEF WindowsAre, WindowsKept
    <2>4. Len(s.windows) = Cardinality(DOMAIN Held.windows)
      BY <2>1 DEF WindowsAre
    <2> QED
      BY <2>2, <2>3, <2>4
  <1> QED
    BY <1>1, IInvHolds, PTL

\* What is missing of a pane is missing because the pane is gone, was changed
\* meanwhile or was refused by the kernel.
THEOREM OnlyGoneIsDegraded ==
    Spec => []DegradedOnlyIfGone
  <1>1. IInv => DegradedOnlyIfGone
    <2> SUFFICES ASSUME IInv, IsConnected, NEW s \in Kept, NEW p \in PanesOf(s),
                        p.id \in DOMAIN server.panes
                 PROVE  /\ <<"content", p.id>> \notin Degradations(s)
                        /\ server.panes[p.id].process = Held.panes[p.id].process =>
                              p.foreground \in
                                 {ForegroundSeen(server.panes[p.id].process),
                                  Unrecovered("Os")}
      BY DEF DegradedOnlyIfGone, Held
    <2>1. /\ looked # None /\ IdsOf(ListPanes(Held)) \subseteq DOMAIN reads
          /\ WindowsAre(s.windows, Held, reads)
      BY KeptIsFolded
    <2>2. \A q \in PanesOf(s) :
             /\ q.id \in DOMAIN reads
             /\ q.foreground = reads[q.id].foreground
             /\ q.content = reads[q.id].content
      BY <2>1 DEF WindowsAre, PanesOf
    <2>3. ReadWell(p.id)
      BY <2>1, <2>2 DEF IInv, ReadInTurn
    <2>4. IsFound(p.id)
      BY DEF IsFound
    <2>5. reads[p.id].content.is # "not captured" /\ SeenRightly(p.id, reads[p.id].foreground)
      BY <2>3, <2>4 DEF ReadWell
    <2>6. <<"content", p.id>> \notin Degradations(s)
      <3> SUFFICES ASSUME <<"content", p.id>> \in Degradations(s)
                   PROVE  FALSE
        OBVIOUS
      <3> DEFINE i == p.id
      <3> HIDE DEF i
      <3>1. PICK q \in PanesOf(s) : q.id = i /\ q.content.is = "not captured"
        BY DEF Degradations, i
      <3>2. q.content = reads[i].content
        BY <2>2, <3>1
      <3> QED
        BY <2>5, <3>1, <3>2 DEF i
    <2>7. server.panes[p.id].process = Held.panes[p.id].process =>
             p.foreground \in {ForegroundSeen(server.panes[p.id].process),
                               Unrecovered("Os")}
      BY <2>2, <2>5 DEF SeenRightly, IsUndisturbed
    <2> QED
      BY <2>6, <2>7
  <1> QED
    BY <1>1, IInvHolds, PTL

\* A row that does not parse is that of a window with a mark of its own.
LEMMA OnlyMarksDoNotParse ==
    ASSUME NEW h, IsServer(h), NEW row \in ToSet(ListPanes(h)), ~ Parses(row)
    PROVE  \E w \in DOMAIN h.windows : h.windows[w].made = <<0>>
  <1>1. PICK p \in Places(h) : row = RowOf(h, p)
    <2>1. ToSet(ListPanes(h)) = RowsAt(h, Places(h))
      BY ListPanesFacts, ListingIsSeq
    <2> QED
      BY <2>1 DEF RowsAt
  <1>2. row.made = h.windows[WindowAt(h, p)].made
    BY <1>1, RowFacts
  <1>3. WindowAt(h, p) \in DOMAIN h.windows
    BY <1>1, PlaceFacts
  <1>4. Len(row.made) = 1
    BY DEF Parses
  <1> QED
    BY <1>2, <1>3, <1>4 DEF IsServer, IsWindowOf

\* A fold is refused for a client only.
LEMMA OnlyClientsAreRefused ==
    ASSUME IInv, stage = "group", IsRefused(Fold(rows, reads)[1])
    PROVE  \E c \in ToSet(clients) : c.session \notin DOMAIN Held.sessions
  <1> DEFINE f == Fold(rows, reads)[1]
  <1>1. SessionsAre(f.sessions, Held) /\ WindowsAre(f.windows, Held, reads)
    BY FoldsAtLast DEF FoldsTo
  <1>2. ~ IsSnapshot(f.windows, f.sessions, clients)
    BY DEF IsRefused
  <1> HIDE DEF f
  <1> QED
    BY <1>1, <1>2 DEF IsSnapshot, SessionsAre, WindowsAre

\* A capture fails for what the user did to it, and never because its rows
\* would not fold.
THEOREM FailsOnlyForTheUser ==
    Spec => FailsOnlyIfDisturbed
  <1> DEFINE Excuse ==
               \/ failure' = "none"
               \/ failure' = "Connection" /\ link # Some(server.id)
               \/ failure' = "Snapshot"
                  /\ \E c \in ToSet(clients) :
                        c.session \notin DOMAIN looked[1].sessions
               \/ failure' = "MalformedServerMark" /\ server.mark = <<0, 0>>
               \/ failure' = "MalformedRow"
                  /\ \E w \in DOMAIN server.windows : server.windows[w].made = <<0>>
  <1>1. IInv /\ [Next]_vars => (failure' # failure => Excuse)
    <2> SUFFICES ASSUME IInv, [Next]_vars, failure' # failure
                 PROVE  Excuse
      OBVIOUS
    <2>1. IsServer(server) /\ given \in Scenarios
      BY DEF IInv, TypeOK
    <2>2. \/ NotSaved \/ Publish
          \/ ReadPanes \/ ReadMark \/ ConnectionLost
          \/ Finish(saves)
      <3>1. ~ UserMoves
        <4> SUFFICES ASSUME UserMoves PROVE FALSE
          OBVIOUS
        <4>1. UNCHANGED capturing
          BY <2>1, UserMovesOn DEF May
        <4> QED
          BY <4>1 DEF capturing
      <3>2. ~ Damage /\ ~ Load /\ ~ UNCHANGED vars
        BY DEF Damage, May, Load, vars, capturing
      <3>3. ~ RunSave
        BY DEF RunSave, Begin
      <3>4. ~ ReadClients /\ ~ ReadId /\ ~ ReadVisible
        BY DEF ReadClients, ReadId, ReadVisible
      <3>5. ~ ReadGroup /\ ~ ReadLeader /\ ~ ReadScrollback
        BY DEF ReadGroup, ReadLeader, ReadScrollback, Unrecoverable, Reading, Refused
      <3> QED
        BY <3>1, <3>2, <3>3, <3>4, <3>5, Zenon DEF Next, CaptureStep
    <2>3. CASE NotSaved \/ Publish
      BY <2>3 DEF NotSaved, Publish, Idle
    <2>4. CASE ConnectionLost
      BY <2>4 DEF ConnectionLost, IsConnected, Fail, Over
    <2>5. CASE ReadPanes
      <3>1. /\ failure' = "MalformedRow"
            /\ ~ \A row \in ToSet(ListPanes(server)) : Parses(row)
        BY <2>5 DEF ReadPanes, Fail, Over
      <3> QED
        BY <2>1, <3>1, OnlyMarksDoNotParse
    <2>6. CASE ReadMark
      <3>1. failure' = "MalformedServerMark" /\ ~ Len(server.mark) <= 1
        BY <2>6 DEF ReadMark, Fail, Over
      <3> QED
        BY <2>1, <3>1 DEF IsServer
    <2>7. CASE Finish(saves)
      <3>1. stage = "group" /\ Fold(rows, reads) # None
        BY <2>7, FoldsAtLast DEF Finish
      <3>2. \/ failure' = "none"
            \/ failure' = "Snapshot" /\ IsRefused(Fold(rows, reads)[1])
        BY <2>7, <3>1 DEF Finish, Over
      <3> QED
        BY <3>1, <3>2, OnlyClientsAreRefused DEF Held
    <2> QED
      BY <2>2, <2>3, <2>4, <2>5, <2>6, <2>7
  <1>2. IInv /\ [Next]_vars =>
           [failure' # failure => Excuse]_<<given, server, moves, capturing>>
    BY <1>1
  <1> QED
    BY <1>2, IInvHolds, PTL DEF Spec, FailsOnlyIfDisturbed

-----------------------------------------------------------------------------
(***************************************************************************)
(* What a server holds is of the forms a snapshot has, and stays so.       *)
(***************************************************************************)
AreSessionsFilled(sessions) ==
    0 \notin DOMAIN sessions /\ \A name \in DOMAIN sessions : IsUnsetOrNamed(sessions[name].group)
AreWindowsFilled(windows) == \A w \in DOMAIN windows : IsWindowFilled(windows[w])
ArePanesFilled(panes) == \A p \in DOMAIN panes : IsUnsetOrNamed(panes[p].cwd)
AreClientsFilled(who) ==
    /\ DOMAIN who \subseteq Nat \ {0} /\ IsFiniteSet(DOMAIN who)
    /\ \A client \in DOMAIN who : who[client] # 0
IsMarkFilled(mark) == mark # None /\ Len(mark) <= 1 => mark = Some(mark[1])

LEMMA FilledInParts ==
    ASSUME NEW h
    PROVE  IsFilled(h) <=> /\ IsMarkFilled(h.mark) /\ AreSessionsFilled(h.sessions)
                           /\ AreWindowsFilled(h.windows) /\ ArePanesFilled(h.panes)
                           /\ AreClientsFilled(h.clients)
  BY DEF IsFilled, IsMarkFilled, AreSessionsFilled, AreWindowsFilled, IsWindowFilled,
         ArePanesFilled, AreClientsFilled

LEMMA OnePaneIsPut ==
    ASSUME NEW panes, ArePanesFilled(panes), NEW p, NEW new, IsUnsetOrNamed(new.cwd)
    PROVE  ArePanesFilled(Put(panes, p, new))
  BY DEF ArePanesFilled, Put

LEMMA OneWindowIsPut ==
    ASSUME NEW windows, AreWindowsFilled(windows), NEW w, NEW new, IsWindowFilled(new)
    PROVE  AreWindowsFilled(Put(windows, w, new))
  BY DEF AreWindowsFilled, Put

LEMMA OneSessionIsPut ==
    ASSUME NEW sessions, AreSessionsFilled(sessions), NEW name, name # 0,
           NEW new, IsUnsetOrNamed(new.group)
    PROVE  AreSessionsFilled(Put(sessions, name, new))
  BY DEF AreSessionsFilled, Put

LEMMA PlainServer ==
    ASSUME NEW h, IsServer(h), IsFilled(h)
    PROVE  /\ DOMAIN h = {"id", "mark", "version", "fresh", "sessions", "windows",
                          "panes", "clients"}
           /\ IsMarkFilled(h.mark) /\ AreSessionsFilled(h.sessions)
           /\ AreWindowsFilled(h.windows) /\ ArePanesFilled(h.panes)
           /\ AreClientsFilled(h.clients)
           /\ \A name \in DOMAIN h.sessions :
                 /\ DOMAIN h.sessions[name] = {"group", "links", "active", "last"}
                 /\ IsUnsetOrNamed(h.sessions[name].group) /\ name # 0
           /\ \A w \in DOMAIN h.windows :
                 /\ DOMAIN h.windows[w] = {"made", "name", "layout", "zoomed", "panes",
                                           "active"}
                 /\ IsWindowFilled(h.windows[w])
           /\ \A p \in DOMAIN h.panes :
                 /\ DOMAIN h.panes[p] = {"cwd", "process", "text"}
                 /\ IsUnsetOrNamed(h.panes[p].cwd)
  <1>1. /\ IsMarkFilled(h.mark) /\ AreSessionsFilled(h.sessions)
        /\ AreWindowsFilled(h.windows) /\ ArePanesFilled(h.panes)
        /\ AreClientsFilled(h.clients)
    BY FilledInParts
  <1> QED
    BY <1>1 DEF IsServer, IsSessionOf, IsWindowOf, AreSessionsFilled, AreWindowsFilled,
                ArePanesFilled

LEMMA NewPaneIsFilled ==
    IsUnsetOrNamed(NewPane.cwd)
  BY DEF NewPane, IsUnsetOrNamed, Some, None

LEMMA SplitIsFilled ==
    ASSUME IsServer(server), IsFilled(server), NEW w \in DOMAIN server.windows,
           SplitWindow(w)
    PROVE  IsFilled(server')
  <1> DEFINE h == server
             window == h.windows[w]
             x == [window EXCEPT !.panes = Append(window.panes, h.fresh),
                                 !.active = h.fresh]
             windows == Put(h.windows, w, x)
             panes == Put(h.panes, h.fresh, NewPane)
  <1>1. server' = [h EXCEPT !.windows = windows, !.panes = panes, !.fresh = @ + 1]
    BY DEF SplitWindow
  <1>2. IsWindowFilled(x)
    BY PlainServer DEF IsWindowFilled
  <1>3. AreWindowsFilled(windows) /\ ArePanesFilled(panes)
    BY <1>2, PlainServer, OneWindowIsPut, OnePaneIsPut, NewPaneIsFilled
  <1> HIDE DEF windows, panes
  <1>4. /\ server'.mark = h.mark /\ server'.sessions = h.sessions
        /\ server'.windows = windows /\ server'.panes = panes
        /\ server'.clients = h.clients
    BY <1>1, PlainServer
  <1> QED
    BY <1>3, <1>4, PlainServer, FilledInParts

LEMMA KillPaneIsFilled ==
    ASSUME IsServer(server), IsFilled(server), NEW w \in DOMAIN server.windows, NEW p,
           KillPane(w, p)
    PROVE  IsFilled(server')
  <1> DEFINE h == server
             window == h.windows[w]
             left == At(window.panes, {i \in DOMAIN window.panes : window.panes[i] # p})
             x == [window EXCEPT !.panes = left, !.active = IF @ = p THEN left[1] ELSE @]
             windows == Put(h.windows, w, x)
             panes == WithoutPanes({p})
  <1>1. server' = [h EXCEPT !.panes = panes, !.windows = windows]
    BY DEF KillPane
  <1>2. IsWindowFilled(x)
    BY PlainServer DEF IsWindowFilled
  <1>3. AreWindowsFilled(windows)
    BY <1>2, PlainServer, OneWindowIsPut
  <1>4. ArePanesFilled(panes)
    BY PlainServer DEF WithoutPanes, ArePanesFilled
  <1> HIDE DEF windows, panes
  <1>5. /\ server'.mark = h.mark /\ server'.sessions = h.sessions
        /\ server'.windows = windows /\ server'.panes = panes
        /\ server'.clients = h.clients
    BY <1>1, PlainServer
  <1> QED
    BY <1>3, <1>4, <1>5, PlainServer, FilledInParts

LEMMA KillSessionIsFilled ==
    ASSUME IsServer(server), IsFilled(server), NEW name \in DOMAIN server.sessions,
           KillSession(name)
    PROVE  IsFilled(server')
  <1> DEFINE h == server
             others == DOMAIN h.sessions \ {name}
             LinkedBy(n) == {h.sessions[n].links[i] : i \in DOMAIN h.sessions[n].links}
             left == UNION {LinkedBy(n) : n \in others}
             gone == UNION {ToSet(h.windows[w].panes) : w \in DOMAIN h.windows \ left}
             sessions == [n \in others |-> h.sessions[n]]
             windows == [w \in left |-> h.windows[w]]
             panes == WithoutPanes(gone)
             stay == {d \in DOMAIN h.clients : h.clients[d] # name}
             who == [c \in stay |-> h.clients[c]]
  <1>1. server' = [h EXCEPT !.sessions = sessions, !.windows = windows, !.panes = panes,
                            !.clients = who]
    BY DEF KillSession
  <1>2. AreSessionsFilled(sessions)
    BY PlainServer DEF AreSessionsFilled
  <1>3. left \subseteq DOMAIN h.windows
    BY DEF IsServer, IsSessionOf, Range
  <1>4. AreWindowsFilled(windows)
    <2> HIDE DEF left
    <2> QED
      BY <1>3, PlainServer DEF AreWindowsFilled
  <1>5. ArePanesFilled(panes)
    BY PlainServer DEF WithoutPanes, ArePanesFilled
  <1>6. AreClientsFilled(who)
    <2>1. IsFiniteSet(stay)
      BY PlainServer, FS_Subset DEF AreClientsFilled
    <2> QED
      BY <2>1, PlainServer DEF AreClientsFilled
  <1> HIDE DEF sessions, windows, panes, who
  <1>7. /\ server'.mark = h.mark /\ server'.sessions = sessions
        /\ server'.windows = windows /\ server'.panes = panes
        /\ server'.clients = who
    BY <1>1, PlainServer
  <1> QED
    BY <1>2, <1>4, <1>5, <1>6, <1>7, PlainServer, FilledInParts

LEMMA OpenSessionIsFilled ==
    ASSUME IsServer(server), IsFilled(server), NEW name, name # 0,
           NEW attached \in BOOLEAN, OpenSession(name, attached)
    PROVE  IsFilled(server')
  <1> DEFINE h == server
             k == h.fresh
             session == [group |-> None, links |-> [i \in {0} |-> k],
                         active |-> 0, last |-> None]
             x == [made |-> None, name |-> 1, layout |-> 1, zoomed |-> FALSE,
                   panes |-> <<k>>, active |-> k]
             sessions == Put(h.sessions, name, session)
             windows == Put(h.windows, k, x)
             panes == Put(h.panes, k, NewPane)
             who == IF attached THEN [c \in DOMAIN h.clients |-> name] ELSE h.clients
  <1>1. server' = [h EXCEPT !.sessions = sessions, !.windows = windows, !.panes = panes,
                            !.clients = who, !.fresh = @ + 1]
    BY DEF OpenSession
  <1>2. IsWindowFilled(x)
    BY DEF IsWindowFilled
  <1>3. IsUnsetOrNamed(session.group)
    BY DEF IsUnsetOrNamed
  <1>4. AreSessionsFilled(sessions) /\ AreWindowsFilled(windows) /\ ArePanesFilled(panes)
    BY <1>2, <1>3, PlainServer, OneWindowIsPut, OnePaneIsPut, OneSessionIsPut,
       NewPaneIsFilled
  <1>5. AreClientsFilled(who)
    BY PlainServer DEF AreClientsFilled
  <1> HIDE DEF sessions, windows, panes, who
  <1>6. /\ server'.mark = h.mark /\ server'.sessions = sessions
        /\ server'.windows = windows /\ server'.panes = panes
        /\ server'.clients = who
    BY <1>1, PlainServer
  <1> QED
    BY <1>4, <1>5, <1>6, PlainServer, FilledInParts

LEMMA SessionsAreFilled ==
    ASSUME IsServer(server), IsFilled(server), NEW name \in DOMAIN server.sessions,
           NEW new, new.group = server.sessions[name].group,
           server' = [server EXCEPT !.sessions = Put(@, name, new)]
    PROVE  IsFilled(server')
  <1> DEFINE sessions == Put(server.sessions, name, new)
  <1>1. AreSessionsFilled(sessions)
    BY PlainServer, OneSessionIsPut
  <1>2. server' = [server EXCEPT !.sessions = sessions]
    OBVIOUS
  <1> HIDE DEF sessions
  <1>3. /\ server'.mark = server.mark /\ server'.sessions = sessions
        /\ server'.windows = server.windows /\ server'.panes = server.panes
        /\ server'.clients = server.clients
    BY <1>2, PlainServer
  <1> QED
    BY <1>1, <1>3, PlainServer, FilledInParts

LEMMA PanesAreFilled ==
    ASSUME IsServer(server), IsFilled(server), NEW p \in DOMAIN server.panes,
           NEW new, new.cwd = server.panes[p].cwd,
           server' = [server EXCEPT !.panes = Put(@, p, new)]
    PROVE  IsFilled(server')
  <1> DEFINE panes == Put(server.panes, p, new)
  <1>1. ArePanesFilled(panes)
    BY PlainServer, OnePaneIsPut
  <1>2. server' = [server EXCEPT !.panes = panes]
    OBVIOUS
  <1> HIDE DEF panes
  <1>3. /\ server'.mark = server.mark /\ server'.sessions = server.sessions
        /\ server'.windows = server.windows /\ server'.panes = panes
        /\ server'.clients = server.clients
    BY <1>2, PlainServer
  <1> QED
    BY <1>1, <1>3, PlainServer, FilledInParts

LEMMA MarksAreFilled ==
    ASSUME IsServer(server), IsFilled(server),
           \/ \E mark \in {Some(1), <<0, 0>>} : MarkServer(mark)
           \/ \E w \in DOMAIN server.windows : \E made :
                 made = <<made[1], made[2]>> /\ MarkWindow(w, made)
           \/ \E w \in DOMAIN server.windows : MarkWindow(w, << 0 >>)
    PROVE  IsFilled(server')
  <1>1. ASSUME NEW mark \in {Some(1), <<0, 0>>}, MarkServer(mark)
        PROVE  IsFilled(server')
    <2>1. IsMarkFilled(mark)
      <3>1. Some(1)[1] = 1 /\ Len(<<0, 0>>) = 2
        BY DEF Some
      <3> QED
        BY <1>1, <3>1 DEF IsMarkFilled
    <2>2. /\ server'.mark = mark /\ server'.sessions = server.sessions
          /\ server'.windows = server.windows /\ server'.panes = server.panes
          /\ server'.clients = server.clients
      BY <1>1, PlainServer DEF MarkServer
    <2> QED
      BY <2>1, <2>2, PlainServer, FilledInParts
  <1>2. ASSUME NEW w \in DOMAIN server.windows, NEW made, MarkWindow(w, made),
               made = << 0 >> \/ made = <<made[1], made[2]>>
        PROVE  IsFilled(server')
    <2> DEFINE x == [server.windows[w] EXCEPT !.made = made]
               windows == Put(server.windows, w, x)
    <2>1. IsWindowFilled(x)
      BY <1>2, PlainServer DEF IsWindowFilled
    <2>2. AreWindowsFilled(windows)
      BY <2>1, PlainServer, OneWindowIsPut
    <2>3. server' = [server EXCEPT !.windows = windows]
      BY <1>2 DEF MarkWindow
    <2> HIDE DEF windows
    <2>4. /\ server'.mark = server.mark /\ server'.sessions = server.sessions
          /\ server'.windows = windows /\ server'.panes = server.panes
          /\ server'.clients = server.clients
      BY <2>3, PlainServer
    <2> QED
      BY <2>2, <2>4, PlainServer, FilledInParts
  <1> QED
    BY <1>1, <1>2

LEMMA RestartIsFilled ==
    ASSUME given \in Scenarios, Restart
    PROVE  IsFilled(server')
  <1> DEFINE h == given.server
             new == [pid |-> server.id.pid + 1, start |-> server.id.start + 1]
             panes == [p \in DOMAIN h.panes |->
                          [h.panes[p] EXCEPT !.text.server = server.id.pid + 1]]
  <1>1. IsServer(h) /\ IsFilled(h)
    BY ScenarioAssumption
  <1>2. server' = [h EXCEPT !.id = new, !.panes = panes]
    BY DEF Restart
  <1> HIDE DEF h
  <1>3. ArePanesFilled(panes)
    <2>1. ASSUME NEW p \in DOMAIN h.panes
          PROVE  IsUnsetOrNamed(panes[p].cwd)
      <3>1. DOMAIN h.panes[p] = {"cwd", "process", "text"} /\ IsUnsetOrNamed(h.panes[p].cwd)
        BY <1>1, PlainServer
      <3>2. panes[p].cwd = h.panes[p].cwd
        BY <3>1
      <3> QED
        BY <3>1, <3>2
    <2> QED
      BY <2>1 DEF ArePanesFilled
  <1> HIDE DEF panes, new
  <1>4. /\ server'.mark = h.mark /\ server'.sessions = h.sessions
        /\ server'.windows = h.windows /\ server'.panes = panes
        /\ server'.clients = h.clients
    BY <1>1, <1>2, PlainServer
  <1> QED
    BY <1>1, <1>3, <1>4, PlainServer, FilledInParts

LEMMA UserMovesFill ==
    ASSUME IsServer(server), IsFilled(server), given \in Scenarios, UserMoves
    PROVE  IsFilled(server')
  <1>1. ASSUME NEW w \in DOMAIN server.windows, SplitWindow(w)
        PROVE  IsFilled(server')
    BY <1>1, SplitIsFilled
  <1>2. ASSUME NEW w \in DOMAIN server.windows,
               NEW p \in ToSet(server.windows[w].panes), KillPane(w, p)
        PROVE  IsFilled(server')
    BY <1>2, KillPaneIsFilled
  <1>3. ASSUME NEW w \in DOMAIN server.windows, NEW name \in DOMAIN server.sessions,
               LinkWindow(name, w)
        PROVE  IsFilled(server')
    <2> DEFINE session == server.sessions[name]
               next == Max(DOMAIN session.links) + 1
               new == [session EXCEPT !.links = Put(@, next, w)]
    <2>1. server' = [server EXCEPT !.sessions = Put(@, name, new)]
      BY <1>3 DEF LinkWindow
    <2>2. new.group = server.sessions[name].group
      BY PlainServer
    <2> HIDE DEF new
    <2> QED
      BY <2>1, <2>2, SessionsAreFilled
  <1>4. ASSUME NEW w \in DOMAIN server.windows, NEW made \in {<<1, w>>, << 0 >>},
               MarkWindow(w, made)
        PROVE  IsFilled(server')
    <2>1. made = << 0 >> \/ made = <<made[1], made[2]>>
      OBVIOUS
    <2> QED
      BY <1>4, <2>1, MarksAreFilled
  <1>5. ASSUME NEW attached \in BOOLEAN, OpenSession(9, attached)
        PROVE  IsFilled(server')
    <2>1. 9 # 0
      OBVIOUS
    <2> QED
      BY <1>5, <2>1, OpenSessionIsFilled
  <1>6. ASSUME NEW name \in DOMAIN server.sessions, KillSession(name)
        PROVE  IsFilled(server')
    BY <1>6, KillSessionIsFilled
  <1>7. ASSUME NEW name \in DOMAIN server.sessions,
               NEW index \in DOMAIN server.sessions[name].links, SelectWindow(name, index)
        PROVE  IsFilled(server')
    <2> DEFINE session == server.sessions[name]
               new == [session EXCEPT !.active = index, !.last = Some(session.active)]
    <2>1. server' = [server EXCEPT !.sessions = Put(@, name, new)]
      BY <1>7 DEF SelectWindow
    <2>2. new.group = server.sessions[name].group
      BY PlainServer
    <2> HIDE DEF new
    <2> QED
      BY <2>1, <2>2, SessionsAreFilled
  <1>8. ASSUME NEW p \in DOMAIN server.panes, NEW text, WriteText(p, text)
        PROVE  IsFilled(server')
    <2> DEFINE new == [server.panes[p] EXCEPT !.text = text]
    <2>1. server' = [server EXCEPT !.panes = Put(@, p, new)]
      BY <1>8 DEF WriteText
    <2>2. new.cwd = server.panes[p].cwd
      BY PlainServer
    <2> HIDE DEF new
    <2> QED
      BY <2>1, <2>2, PanesAreFilled
  <1>9. ASSUME NEW p \in DOMAIN server.panes, NEW holder, NEW led, RunIn(p, holder, led)
        PROVE  IsFilled(server')
    <2> DEFINE process == [holder |-> holder, led |-> led,
                           turns |-> server.panes[p].process.turns + 1]
               new == [server.panes[p] EXCEPT !.process = process]
    <2>1. server' = [server EXCEPT !.panes = Put(@, p, new)]
      BY <1>9 DEF RunIn
    <2>2. new.cwd = server.panes[p].cwd
      BY PlainServer
    <2> HIDE DEF new
    <2> QED
      BY <2>1, <2>2, PanesAreFilled
  <1>10. ASSUME NEW mark \in {Some(1), <<0, 0>>}, MarkServer(mark)
         PROVE  IsFilled(server')
    BY <1>10, MarksAreFilled
  <1>11. ASSUME Restart
         PROVE  IsFilled(server')
    BY <1>11, RestartIsFilled
  <1> QED
    BY <1>1, <1>2, <1>3, <1>4, <1>5, <1>6, <1>7, <1>8, <1>9, <1>10, <1>11, Zenon
       DEF UserMoves

-----------------------------------------------------------------------------
(***************************************************************************)
(* What is folded of such a server is of the forms a file can hold.        *)
(***************************************************************************)
IsRead(read) == IsForeground(read.foreground) /\ IsContent(read.content)

\* Rows of a server that holds what a snapshot may, each of which parsed.
IsWellListed(h) ==
    IsServer(h) /\ IsFilled(h) /\ \A row \in ToSet(ListPanes(h)) : Parses(row)

LEMMA MadeIsStamp ==
    ASSUME NEW h, IsWellListed(h), NEW w \in DOMAIN h.windows
    PROVE  IsStamp(h.windows[w].made)
  <1> DEFINE made == h.windows[w].made
  <1>1. \/ made \in {None, << 0 >>}
        \/ made = <<made[1], made[2]>>
    BY PlainServer DEF IsWellListed, IsWindowFilled
  <1>2. made # << 0 >>
    <2>1. PICK p \in OfWindow(h, w) : TRUE
      BY WindowPlaces DEF IsWellListed
    <2>2. p \in Places(h) /\ WindowAt(h, p) = w
      BY <2>1 DEF OfWindow
    <2>3. RowOf(h, p) \in ToSet(ListPanes(h))
      <3>1. ToSet(ListPanes(h)) = RowsAt(h, Places(h))
        BY ListPanesFacts, ListingIsSeq DEF IsWellListed
      <3> QED
        BY <2>2, <3>1 DEF RowsAt
    <2>4. Len(made) # 1
      BY <2>2, <2>3, RowFacts DEF IsWellListed, Parses
    <2> QED
      BY <2>4
  <1> QED
    BY <1>1, <1>2 DEF IsStamp

LEMMA ListIsFields ==
    ASSUME NEW n \in Nat, NEW f, f = [i \in 1..n |-> f[i]]
    PROVE  IsFields(f) /\ DOMAIN f = 1..n
  <1> DEFINE T == {f[i] : i \in 1..n}
  <1>1. f \in [1..n -> T]
    OBVIOUS
  <1> HIDE DEF T
  <1>2. f \in Seq(T)
    BY <1>1, FunctionIsSeq
  <1> QED
    BY <1>2 DEF IsFields

LEMMA FlaggedIsOption ==
    ASSUME NEW listing, NEW flag, NEW field
    PROVE  IsOption(LastFlagged(listing, flag, field))
  BY DEF LastFlagged, IsOption, Some, None

LEMMA SessionIsOfForm ==
    ASSUME NEW h, IsServer(h), IsFilled(h), NEW n \in DOMAIN h.sessions,
           NEW listing, IsListing(listing, h, OfSession(h, n)),
           FoldSession(listing) # None
    PROVE  IsSessionData(FoldSession(listing)[1])
  <1> DEFINE heads == Heads(GroupBy(listing, LinkKey))
             m == Len(heads)
             active == LastFlagged(heads, "window_active", "window_index")
             last == LastFlagged(heads, "window_last", "window_index")
             links == [i \in DOMAIN heads |->
                          [index |-> heads[i].window_index,
                           window |-> heads[i].window_id]]
             s == [name |-> listing[1].session, group |-> listing[1].group,
                   links |-> links,
                   active |-> IF active = None THEN -1 ELSE active[1],
                   last |-> last]
  <1>1. FoldSession(listing) = IF active # None /\ IsSession(s) THEN Some(s) ELSE None
    BY DEF FoldSession
  <1>2. m \in Nat /\ \E w : HeadsBy(w, heads, h, OfSession(h, n), LinkKey)
    BY HeadsOfListing
  <1>3. DOMAIN heads = 1..m
    BY <1>2 DEF HeadsBy
  <1>4. listing[1].session # 0 /\ IsNamed(listing[1].group)
    <2>1. OfSession(h, n) # {}
      <3>1. PICK i \in DOMAIN h.sessions[n].links : TRUE
        BY DEF IsServer, IsSessionOf
      <3> DEFINE p == <<n, i, 1>>
      <3>2. p \in Places(h)
        BY <3>1, EachLinkIsListed
      <3>3. p[1] = n
        OBVIOUS
      <3> QED
        BY <3>2, <3>3 DEF OfSession
    <2>2. PICK p \in OfSession(h, n) : listing[1] = RowOf(h, p)
      BY <2>1, FirstRow
    <2>3. listing[1].session = n /\ listing[1].group = h.sessions[n].group
      BY <2>2, RowFacts DEF OfSession
    <2>4. IsUnsetOrNamed(h.sessions[n].group) /\ n # 0
      BY PlainServer
    <2> QED
      BY <2>3, <2>4 DEF IsUnsetOrNamed, IsNamed, IsOption
  <1> HIDE DEF heads, m
  <1>5. AreLinks(links)
    <2>1. IsFields(links) /\ DOMAIN links = 1..m
      BY <1>2, <1>3, ListIsFields
    <2>2. ASSUME NEW i \in DOMAIN links
          PROVE  IsLink(links[i])
      <3>1. links[i] = [index |-> heads[i].window_index, window |-> heads[i].window_id]
        BY <1>3, <2>1
      <3>2. ToSet(LinkFields) = {"index", "window"}
        BY DEF LinkFields, ToSet
      <3> QED
        BY <3>1, <3>2 DEF IsLink, HasFields
    <2> QED
      BY <2>1, <2>2 DEF AreLinks
  <1>6. IsOption(last)
    BY FlaggedIsOption
  <1> HIDE DEF links, last
  <1>7. HasFields(s, SessionFields)
    <2>1. ToSet(SessionFields) = {"name", "group", "links", "active", "last"}
      BY DEF SessionFields, ToSet
    <2> QED
      BY <2>1 DEF HasFields
  <1>8. /\ s.name = listing[1].session /\ s.group = listing[1].group
        /\ s.links = links /\ s.last = last
    OBVIOUS
  <1> HIDE DEF s
  <1>9. FoldSession(listing) = Some(s) /\ IsSession(s)
    BY <1>1
  <1>10. FoldSession(listing)[1] = s
    BY <1>9 DEF Some
  <1> QED
    BY <1>4, <1>5, <1>6, <1>7, <1>8, <1>9, <1>10 DEF IsSessionData

LEMMA WindowIsOfForm ==
    ASSUME NEW h, IsWellListed(h), NEW w \in DOMAIN h.windows, NEW read,
           \A p \in ToSet(h.windows[w].panes) : IsRead(read[p]),
           NEW listing, IsListing(listing, h, OfWindow(h, w)),
           FoldWindow(listing, read) # None
    PROVE  IsWindowData(FoldWindow(listing, read)[1])
  <1> DEFINE heads == Heads(GroupBy(listing, {"pane_id"}))
             m == Len(heads)
             active == LastFlagged(heads, "pane_active", "pane_index")
             Pane(row) == [id |-> row.pane_id, index |-> row.pane_index, cwd |-> row.cwd,
                           foreground |-> read[row.pane_id].foreground,
                           content |-> read[row.pane_id].content]
             panes == [i \in DOMAIN heads |->
                          [id |-> heads[i].pane_id, index |-> heads[i].pane_index,
                           cwd |-> heads[i].cwd,
                           foreground |-> read[heads[i].pane_id].foreground,
                           content |-> read[heads[i].pane_id].content]]
             x == [id |-> listing[1].window_id, made |-> listing[1].made,
                   name |-> listing[1].window_name, layout |-> listing[1].window_layout,
                   zoomed |-> listing[1].window_zoomed, panes |-> panes,
                   active |-> IF active = None THEN -1 ELSE active[1]]
  <1>1. FoldWindow(listing, read) =
           IF ~ IsTorn(listing) /\ active # None /\ IsWindow(x) THEN Some(x) ELSE None
    BY DEF FoldWindow
  <1>2. IsServer(h) /\ IsFilled(h)
    BY DEF IsWellListed
  <1>3. PICK v : PaneHeads(v, heads, h, w)
    BY <1>2, HeadsOfWindow
  <1>4. /\ m \in Nat /\ DOMAIN heads = 1..m
        /\ \A i \in 1..m : /\ heads[i] = RowOf(h, v[i]) /\ v[i][3] \in DOMAIN h.windows[w].panes
                           /\ PaneAt(h, v[i]) = h.windows[w].panes[v[i][3]]
    BY <1>3 DEF PaneHeads
  <1>5. /\ listing[1].made = h.windows[w].made /\ listing[1].window_name = h.windows[w].name
        /\ listing[1].window_layout = h.windows[w].layout
        /\ listing[1].window_zoomed = h.windows[w].zoomed
    <2>1. OfWindow(h, w) # {}
      BY <1>2, WindowPlaces
    <2>2. PICK p \in OfWindow(h, w) : listing[1] = RowOf(h, p)
      BY <2>1, FirstRow
    <2>3. WindowAt(h, p) = w
      BY <2>2 DEF OfWindow
    <2> QED
      BY <2>2, <2>3, RowFacts
  <1>6. /\ IsStamp(h.windows[w].made) /\ IsWindowFilled(h.windows[w])
    BY <1>2, MadeIsStamp, PlainServer
  <1> HIDE DEF heads, m
  <1>7. ArePanes(panes)
    <2>1. IsFields(panes) /\ DOMAIN panes = 1..m
      <3>1. panes = [i \in 1..m |-> panes[i]]
        BY <1>4
      <3> HIDE DEF panes
      <3> QED
        BY <1>4, <3>1, ListIsFields
    <2>2. ASSUME NEW i \in DOMAIN panes
          PROVE  IsPane(panes[i])
      <3>1. panes[i] = Pane(heads[i])
        BY <1>4, <2>1
      <3> DEFINE row == heads[i]
                 p == h.windows[w].panes[v[i][3]]
      <3>2. row.pane_id = p /\ row.cwd = h.panes[p].cwd
        <4>1. heads[i] = RowOf(h, v[i]) /\ PaneAt(h, v[i]) = p
          BY <1>4, <2>1
        <4>2. /\ RowOf(h, v[i]).pane_id = PaneAt(h, v[i])
              /\ RowOf(h, v[i]).cwd = h.panes[PaneAt(h, v[i])].cwd
          BY RowFacts
        <4> QED
          BY <4>1, <4>2
      <3>3. p \in ToSet(h.windows[w].panes)
        BY <1>4, <2>1 DEF ToSet
      <3>4. p \in DOMAIN h.panes
        BY <1>2, <3>3, WindowsPanes
      <3>5. IsUnsetOrNamed(row.cwd) /\ IsRead(read[row.pane_id])
        BY <1>2, <3>2, <3>3, <3>4, PlainServer
      <3> HIDE DEF row, p
      <3>6. ToSet(PaneFields) = {"id", "index", "cwd", "foreground", "content"}
        BY DEF PaneFields, ToSet
      <3>7. /\ HasFields(Pane(row), PaneFields) /\ Pane(row).cwd = row.cwd
            /\ Pane(row).foreground = read[row.pane_id].foreground
            /\ Pane(row).content = read[row.pane_id].content
        BY <3>6 DEF HasFields
      <3>8. panes[i] = Pane(row)
        BY <3>1 DEF row
      <3> HIDE DEF Pane, panes
      <3> QED
        BY <3>5, <3>7, <3>8 DEF IsPane, IsRead, IsUnsetOrNamed, IsNamed, IsOption
    <2> QED
      BY <2>1, <2>2 DEF ArePanes
  <1> HIDE DEF panes
  <1>8. HasFields(x, WindowFields)
    <2>1. ToSet(WindowFields) = {"id", "made", "name", "layout", "zoomed", "panes", "active"}
      BY DEF WindowFields, ToSet
    <2> QED
      BY <2>1 DEF HasFields
  <1>9. /\ x.made = listing[1].made /\ x.name = listing[1].window_name
        /\ x.layout = listing[1].window_layout /\ x.zoomed = listing[1].window_zoomed
        /\ x.panes = panes
    OBVIOUS
  <1> HIDE DEF x
  <1>10. FoldWindow(listing, read) = Some(x) /\ IsWindow(x)
    BY <1>1
  <1>11. FoldWindow(listing, read)[1] = x
    BY <1>10 DEF Some
  <1> QED
    BY <1>5, <1>6, <1>7, <1>8, <1>9, <1>10, <1>11 DEF IsWindowData, IsWindowFilled

LEMMA FoldIsOfForm ==
    ASSUME NEW h, IsWellListed(h), NEW read,
           \A p \in IdsOf(ListPanes(h)) : IsRead(read[p])
    PROVE  LET f == Fold(ListPanes(h), read)[1]
           IN  AreWindows(f.windows) /\ AreSessions(f.sessions)
  <1> DEFINE listing == ListPanes(h)
             bySession == GroupBy(listing, {"session"})
             byWindow == GroupBy(listing, {"window_id"})
             sessions == [i \in DOMAIN bySession |-> FoldSession(bySession[i])]
             windows == [i \in DOMAIN byWindow |-> FoldWindow(byWindow[i], read)]
             j == Len(bySession)
             k == Len(byWindow)
             ss == [i \in DOMAIN sessions |-> sessions[i][1]]
             ws == [i \in DOMAIN windows |-> windows[i][1]]
             f == [sessions |-> ss, windows |-> ws]
  <1>1. IsServer(h) /\ IsFilled(h)
    BY DEF IsWellListed
  <1>2. PICK n : /\ Sorts(n, bySession, DOMAIN h.sessions)
                 /\ \A g \in 1..j : IsListing(bySession[g], h, OfSession(h, n[g]))
    BY <1>1, BySession
  <1>3. PICK v : /\ Sorts(v, byWindow, DOMAIN h.windows)
                 /\ \A g \in 1..k : IsListing(byWindow[g], h, OfWindow(h, v[g]))
    BY <1>1, ByWindow
  <1>4. \A w \in DOMAIN h.windows : \A p \in ToSet(h.windows[w].panes) : IsRead(read[p])
    BY <1>1, ListedPanes
  <1>5. Fold(listing, read) # None
    <2>1. PICK g : Fold(listing, read) = Some(g)
      BY <1>1, ListingsFold
    <2> QED
      BY <2>1 DEF Some, None
  <1>6. Fold(listing, read) =
            IF listing = <<>> \/ None \in ToSet(sessions) \cup ToSet(windows)
            THEN None ELSE Some(f)
    BY DEF Fold
  <1> HIDE DEF bySession, byWindow
  <1>7. /\ j \in Nat /\ DOMAIN bySession = 1..j
        /\ \A g \in 1..j : n[g] \in DOMAIN h.sessions
    BY <1>2 DEF Sorts
  <1>8. /\ k \in Nat /\ DOMAIN byWindow = 1..k
        /\ \A g \in 1..k : v[g] \in DOMAIN h.windows
    BY <1>3 DEF Sorts
  <1> HIDE DEF j, k
  <1>9. Fold(listing, read) = Some(f) /\ None \notin ToSet(sessions) \cup ToSet(windows)
    <2> HIDE DEF f, sessions, windows, listing
    <2> QED
      BY <1>5, <1>6
  <1>10. Fold(listing, read)[1] = f
    <2> HIDE DEF f, listing
    <2> QED
      BY <1>9 DEF Some
  <1>11. f.sessions = ss /\ f.windows = ws
    OBVIOUS
  <1> HIDE DEF f
  <1>12. DOMAIN sessions = 1..j /\ DOMAIN windows = 1..k
    BY <1>7, <1>8
  <1>13. ASSUME NEW g \in 1..j
         PROVE  IsSessionData(ss[g])
    <2>1. sessions[g] = FoldSession(bySession[g])
      BY <1>7
    <2>2. sessions[g] # None
      <3> HIDE DEF sessions
      <3> QED
        BY <1>9, <1>12 DEF ToSet
    <2>3. ss[g] = sessions[g][1]
      BY <1>12
    <2>4. n[g] \in DOMAIN h.sessions /\ IsListing(bySession[g], h, OfSession(h, n[g]))
      BY <1>2, <1>7 DEF j
    <2>5. FoldSession(bySession[g]) # None
      <3> HIDE DEF sessions
      <3> QED
        BY <2>1, <2>2
    <2>6. IsSessionData(FoldSession(bySession[g])[1])
      BY <1>1, <2>4, <2>5, SessionIsOfForm
    <2> HIDE DEF sessions, ss
    <2> QED
      BY <2>1, <2>3, <2>6
  <1>14. ASSUME NEW g \in 1..k
         PROVE  IsWindowData(ws[g])
    <2>1. windows[g] = FoldWindow(byWindow[g], read)
      BY <1>8
    <2>2. windows[g] # None
      <3> HIDE DEF windows
      <3> QED
        BY <1>9, <1>12 DEF ToSet
    <2>3. ws[g] = windows[g][1]
      BY <1>12
    <2>4. v[g] \in DOMAIN h.windows /\ IsListing(byWindow[g], h, OfWindow(h, v[g]))
      BY <1>3, <1>8 DEF k
    <2>5. FoldWindow(byWindow[g], read) # None
      <3> HIDE DEF windows
      <3> QED
        BY <2>1, <2>2
    <2>6. IsWindowData(FoldWindow(byWindow[g], read)[1])
      BY <1>4, <2>4, <2>5, WindowIsOfForm
    <2> HIDE DEF windows, ws
    <2> QED
      BY <2>1, <2>3, <2>6
  <1>15. ss = [g \in 1..j |-> ss[g]] /\ ws = [g \in 1..k |-> ws[g]]
    BY <1>12
  <1> HIDE DEF ss, ws, sessions, windows
  <1>16. IsFields(ss) /\ DOMAIN ss = 1..j /\ IsFields(ws) /\ DOMAIN ws = 1..k
    BY <1>7, <1>8, <1>15, ListIsFields
  <1>17. AreSessions(ss) /\ AreWindows(ws)
    BY <1>13, <1>14, <1>16 DEF AreSessions, AreWindows
  <1> QED
    BY <1>10, <1>11, <1>17

LEMMA ClientsAreOfForm ==
    ASSUME NEW h, IsServer(h), IsFilled(h)
    PROVE  AreClients(ListClients(h))
  <1> DEFINE S == DOMAIN h.clients
             names == Ascending(S)
             listing == ListClients(h)
  <1>1. /\ S \in SUBSET Nat /\ IsFiniteSet(S) /\ 0 \notin S
        /\ \A c \in S : h.clients[c] # 0
    BY PlainServer DEF AreClientsFilled
  <1>2. listing = [i \in DOMAIN names |->
                      [name |-> names[i], session |-> h.clients[names[i]]]]
    BY DEF ListClients
  <1> HIDE DEF S
  <1>3. /\ Cardinality(S) \in Nat /\ DOMAIN names = 1 .. Cardinality(S)
        /\ \A i \in DOMAIN names : names[i] \in S
    <2>1. Cardinality(S) \in Nat /\ Enumerates(names, S)
      BY <1>1, AscendingFacts
    <2> HIDE DEF names
    <2> QED
      BY <2>1 DEF Enumerates
  <1> HIDE DEF names, listing
  <1>4. listing = [i \in 1 .. Cardinality(S) |-> listing[i]]
    BY <1>2, <1>3
  <1>5. IsFields(listing) /\ DOMAIN listing = DOMAIN names
    BY <1>3, <1>4, ListIsFields
  <1>6. ASSUME NEW i \in DOMAIN listing
        PROVE  IsClient(listing[i])
    <2>1. listing[i] = [name |-> names[i], session |-> h.clients[names[i]]]
      BY <1>2, <1>5
    <2>2. names[i] # 0 /\ h.clients[names[i]] # 0
      BY <1>1, <1>3, <1>5 DEF S
    <2>3. ToSet(ClientFields) = {"name", "session"}
      BY DEF ClientFields, ToSet
    <2> QED
      BY <2>1, <2>2, <2>3 DEF IsClient, HasFields
  <1>7. AreClients(listing)
    BY <1>5, <1>6 DEF AreClients
  <1> QED
    BY <1>7 DEF listing

-----------------------------------------------------------------------------
(***************************************************************************)
(* What is captured, saved and loaded.                                     *)
(***************************************************************************)
ListedWell == looked # None => IsWellListed(Held)

HeadIsRead == AreClients(clients) /\ IsOption(touched) /\ IsOrigin(id)

PanesAreRead ==
    /\ IsForeground(pane.foreground)
    /\ \A p \in DOMAIN reads : IsRead(reads[p])

\* The file is what was saved, or what the disk has made of it since.
FileIsSaved ==
    saved # None =>
        /\ IsSnapshotData(saved[1]) /\ file # None
        /\ ~ damaged => /\ file[1] = EncodeFile(saved[1], None)
                        /\ TextsOf(saved[1]) \subseteq DOMAIN blobs
        /\ \/ file[1] = EncodeFile(saved[1], None)
           \/ IsDamaged(file[1], EncodeFile(saved[1], None), NoText)

LoadedIsFile == loaded # None => loaded = Some(DecodeFile(file[1], blobs))

DataInv ==
    /\ IsFilled(server) /\ ListedWell /\ HeadIsRead /\ PanesAreRead
    /\ snapshot # None => IsSnapshotData(snapshot[1])
    /\ FileIsSaved /\ LoadedIsFile

OnDisk == FileIsSaved /\ LoadedIsFile

LEMMA DataAtFirst ==
    Init => DataInv
  <1> SUFFICES ASSUME Init
               PROVE  DataInv
    OBVIOUS
  <1>1. /\ given \in Scenarios /\ server = given.server
        /\ looked = None /\ clients = <<>> /\ touched = None /\ id = None
        /\ pane = Unread /\ reads = <<>> /\ snapshot = None
        /\ loaded = None /\ saved = None
    BY DEF Init, InitCapture, NoCapture
  <1>2. IsFilled(server)
    BY <1>1, ScenarioAssumption
  <1>3. HeadIsRead
    <2>1. IsFields(<<>>) /\ DOMAIN <<>> = {}
      <3>1. <<>> \in Seq({})
        OBVIOUS
      <3> QED
        BY <3>1 DEF IsFields
    <2> QED
      BY <1>1, <2>1 DEF HeadIsRead, AreClients, IsOption, IsOrigin
  <1>4. PanesAreRead
    <2>1. DOMAIN <<>> = {}
      OBVIOUS
    <2> QED
      BY <1>1, <2>1 DEF PanesAreRead, Unread, IsForeground
  <1> QED
    BY <1>1, <1>2, <1>3, <1>4 DEF DataInv, ListedWell, FileIsSaved, LoadedIsFile

LEMMA DiskStays ==
    ASSUME OnDisk, UNCHANGED disk
    PROVE  OnDisk'
  BY DEF OnDisk, FileIsSaved, LoadedIsFile, disk

\* A step of a capture that reads something of a pane.
LEMMA PaneGoesOn ==
    ASSUME DataInv, UNCHANGED <<server, listed, reads, snapshot, disk>>,
           IsForeground(pane'.foreground)
    PROVE  DataInv'
  <1>1. UNCHANGED <<looked, clients, touched, id>>
    BY DEF listed
  <1>2. OnDisk'
    BY DiskStays DEF DataInv, OnDisk
  <1>3. ListedWell' /\ HeadIsRead'
    BY <1>1 DEF DataInv, ListedWell, HeadIsRead, Held
  <1>4. PanesAreRead'
    BY DEF DataInv, PanesAreRead
  <1> QED
    BY <1>2, <1>3, <1>4 DEF DataInv, OnDisk

LEMMA ReasonsAre ==
    /\ RecoveryFailures[1] = "ShellGone" /\ RecoveryFailures[2] = "NoTerminal"
    /\ RecoveryFailures[3] = "LeaderGone" /\ RecoveryFailures[4] = "Os"
    /\ ContentFailures[1] = "CapturePane"
  BY DEF RecoveryFailures, ContentFailures

LEMMA ReasonIsForeground ==
    ASSUME NEW reason \in {"ShellGone", "NoTerminal", "LeaderGone", "Os"}
    PROVE  IsForeground(Unrecovered(reason))
  <1>1. \E i \in 1..5 : reason = RecoveryFailures[i]
    <2>1. 1 \in 1..5 /\ 2 \in 1..5 /\ 3 \in 1..5 /\ 4 \in 1..5
      OBVIOUS
    <2> QED
      BY <2>1, ReasonsAre
  <1> QED
    BY <1>1 DEF IsForeground

LEMMA ForegroundIsSet ==
    ASSUME IInv, stage \in PaneStages, NEW foreground, IsForeground(foreground),
           pane' = [pane EXCEPT !.foreground = foreground]
    PROVE  IsForeground(pane'.foreground)
  <1>1. "foreground" \in DOMAIN pane
    BY DEF IInv, PaneAtStage, Unread
  <1> QED
    BY <1>1

LEMMA PaneStepKeepsData ==
    ASSUME IInv, DataInv, UNCHANGED disk, ReadGroup \/ ReadLeader \/ ReadScrollback
    PROVE  DataInv'
  <1>1. /\ UNCHANGED <<server, listed, reads, snapshot>> /\ stage \in PaneStages
    BY DEF ReadGroup, ReadLeader, ReadScrollback, Unrecoverable, Reading, Refused,
           PaneStages
  <1>2. IsForeground(pane.foreground) /\ DOMAIN pane = DOMAIN Unread
    BY <1>1 DEF DataInv, PanesAreRead, IInv, PaneAtStage
  <1>3. DOMAIN Unread = {"group", "foreground", "scrollback", "failed"}
    BY DEF Unread
  <1>4. ASSUME NEW reason \in {"ShellGone", "NoTerminal", "LeaderGone", "Os"},
               pane' = [pane EXCEPT !.foreground = Unrecovered(reason)]
        PROVE  IsForeground(pane'.foreground)
    BY <1>1, <1>4, ReasonIsForeground, ForegroundIsSet
  <1>5. CASE ReadGroup
    <2>1. \/ \E reason \in {"ShellGone", "NoTerminal", "LeaderGone", "Os"} :
                pane' = [pane EXCEPT !.foreground = Unrecovered(reason)]
          \/ pane' = [pane EXCEPT !.group = Process]
      BY <1>5 DEF ReadGroup, Unrecoverable, Reading, Refused
    <2>2. pane' = [pane EXCEPT !.group = Process] => pane'.foreground = pane.foreground
      BY <1>2, <1>3
    <2> QED
      BY <1>1, <1>2, <1>4, <2>1, <2>2, PaneGoesOn
  <1>6. CASE ReadLeader
    <2>1. \/ \E reason \in {"LeaderGone", "Os"} :
                pane' = [pane EXCEPT !.foreground = Unrecovered(reason)]
          \/ \E own, argv : pane' = [pane EXCEPT !.foreground = ForegroundOf(own, argv)]
      BY <1>6 DEF ReadLeader, Unrecoverable, Reading, Refused
    <2>2. \A own, argv : IsForeground(ForegroundOf(own, argv))
      BY DEF ForegroundOf, IsForeground
    <2>3. ASSUME NEW own, NEW argv,
                 pane' = [pane EXCEPT !.foreground = ForegroundOf(own, argv)]
          PROVE  IsForeground(pane'.foreground)
      BY <1>1, <2>2, <2>3, ForegroundIsSet
    <2> QED
      BY <1>1, <1>4, <2>1, <2>3, PaneGoesOn
  <1>7. CASE ReadScrollback
    <2>1. \/ \E text : pane' = [pane EXCEPT !.scrollback = text]
          \/ pane' = [pane EXCEPT !.failed = TRUE]
      BY <1>7 DEF ReadScrollback, Reading
    <2>2. pane'.foreground = pane.foreground
      BY <1>2, <1>3, <2>1
    <2> QED
      BY <1>1, <1>2, <2>2, PaneGoesOn
  <1> QED
    BY <1>5, <1>6, <1>7

LEMMA VisibleKeepsData ==
    ASSUME IInv, DataInv, UNCHANGED disk, ReadVisible
    PROVE  DataInv'
  <1> DEFINE read == [foreground |-> pane.foreground, content |-> ContentRead]
  <1>1. /\ UNCHANGED <<server, listed, snapshot>> /\ pane' = Unread
        /\ reads' = Put(reads, Here, read)
    BY DEF ReadVisible
  <1>2. UNCHANGED <<looked, clients, touched, id>>
    BY <1>1 DEF listed
  <1>3. OnDisk'
    BY DiskStays DEF DataInv, OnDisk
  <1>4. ListedWell' /\ HeadIsRead'
    BY <1>2 DEF DataInv, ListedWell, HeadIsRead, Held
  <1>5. IsContent(ContentRead)
    <2>1. 1 \in 1..2
      OBVIOUS
    <2> QED
      BY <2>1, ReasonsAre DEF ContentRead, IsContent
  <1>6. IsRead(read)
    <2>1. read.foreground = pane.foreground /\ read.content = ContentRead
      OBVIOUS
    <2> HIDE DEF read
    <2> QED
      BY <1>5, <2>1 DEF IsRead, DataInv, PanesAreRead
  <1>7. PanesAreRead'
    <2> HIDE DEF read
    <2>1. \A p \in DOMAIN reads' : IsRead(reads'[p])
      BY <1>1, <1>6 DEF Put, DataInv, PanesAreRead
    <2>2. IsForeground(Unread.foreground)
      BY DEF Unread, IsForeground
    <2> QED
      BY <1>1, <2>1, <2>2 DEF PanesAreRead
  <1> QED
    BY <1>1, <1>3, <1>4, <1>7 DEF DataInv, OnDisk

LEMMA SurveyKeepsData ==
    ASSUME IInv, DataInv, UNCHANGED disk, ReadPanes \/ ReadClients \/ ReadMark \/ ReadId
    PROVE  DataInv'
  <1>1. IsServer(server) /\ IsFilled(server)
    BY DEF IInv, DataInv
  <1>2. /\ UNCHANGED <<server, pane, reads>>
        /\ snapshot' = snapshot \/ snapshot' = None
    BY DEF ReadPanes, ReadClients, ReadMark, ReadId, reading, Fail, Over
  <1> DEFINE parses == \A row \in ToSet(ListPanes(server)) : Parses(row)
  <1>3. /\ looked' = looked \/ (looked' = Some(server) /\ parses)
        /\ clients' = clients \/ clients' = ListClients(server)
        /\ touched' = touched \/ (touched' = server.mark /\ Len(server.mark) <= 1)
        /\ id' = id \/ id' = Some(server.id)
    <2> HIDE DEF parses
    <2>1. CASE ReadPanes
      <3>1. CASE parses
        BY <2>1, <3>1 DEF ReadPanes, parses
      <3>2. CASE ~ parses
        BY <2>1, <3>2 DEF ReadPanes, parses, Fail, listed
      <3> QED
        BY <3>1, <3>2
    <2>2. CASE ReadClients
      BY <2>2 DEF ReadClients
    <2>3. CASE ReadMark
      BY <2>3 DEF ReadMark, Fail, listed
    <2>4. CASE ReadId
      BY <2>4 DEF ReadId
    <2> QED
      BY <2>1, <2>2, <2>3, <2>4
  <1>7. ListedWell'
    <2>1. CASE looked' = looked
      BY <2>1 DEF DataInv, ListedWell, Held
    <2>2. CASE looked' = Some(server) /\ parses
      <3>1. Held' = server
        BY <2>2 DEF Held, Some
      <3>2. IsWellListed(server)
        BY <1>1, <2>2 DEF IsWellListed
      <3> QED
        BY <3>1, <3>2 DEF ListedWell
    <2> QED
      BY <1>3, <2>1, <2>2
  <1> HIDE DEF parses
  <1>4. HeadIsRead'
    <2>1. clients' = clients \/ clients' = ListClients(server)
      BY <1>3
    <2>2. touched' = touched \/ (touched' = server.mark /\ Len(server.mark) <= 1)
      BY <1>3
    <2>3. id' = id \/ id' = Some(server.id)
      BY <1>3
    <2>4. AreClients(clients')
      BY <1>1, <2>1, ClientsAreOfForm DEF DataInv, HeadIsRead
    <2>5. IsOption(touched')
      BY <1>1, <2>2, PlainServer DEF DataInv, HeadIsRead, IsMarkFilled, IsOption
    <2>6. IsOrigin(id')
      <3>1. IsOrigin(Some(server.id))
        <4>1. server.id \in [pid : Nat, start : Nat]
          BY <1>1 DEF IsServer
        <4>2. Some(server.id)[1] = server.id
          BY DEF Some
        <4> QED
          BY <4>1, <4>2 DEF IsOrigin, IsOption
      <3> QED
        BY <2>3, <3>1 DEF DataInv, HeadIsRead
    <2> QED
      BY <2>4, <2>5, <2>6 DEF HeadIsRead
  <1>5. PanesAreRead'
    BY <1>2 DEF DataInv, PanesAreRead
  <1>6. OnDisk'
    BY DiskStays DEF DataInv, OnDisk
  <1> QED
    BY <1>1, <1>2, <1>7, <1>4, <1>5, <1>6 DEF DataInv, OnDisk

LEMMA FinishKeepsData ==
    ASSUME IInv, DataInv, UNCHANGED disk, NEW clock, Finish(clock)
    PROVE  DataInv'
  <1> DEFINE folded == Fold(rows, reads)
             s == [origin |-> id, touched |-> touched, captured_at |-> clock,
                   tmux_version |-> server.version, windows |-> folded[1].windows,
                   sessions |-> folded[1].sessions, clients |-> clients]
  <1>1. /\ stage = "group" /\ todo = <<>>
        /\ UNCHANGED <<server, listed, reading>>
    BY DEF Finish
  <1>2. UNCHANGED <<looked, clients, touched, id, pane, reads>>
    BY <1>1 DEF listed, reading
  <1>3. looked # None /\ rows = ListPanes(Held) /\ folded # None
    BY <1>1, FoldsAtLast
  <1>4. \/ snapshot' = None
        \/ snapshot' = Some(s) /\ ~ IsRefused(folded[1])
    BY <1>3 DEF Finish, Over
  <1>5. AreWindows(folded[1].windows) /\ AreSessions(folded[1].sessions)
    <2>1. IsWellListed(Held)
      BY <1>3 DEF DataInv, ListedWell
    <2>2. IdsOf(rows) \subseteq DOMAIN reads
      <3>1. IdsOf(rows) \subseteq DOMAIN reads \cup IdsOf(todo)
        BY <1>1, <1>3 DEF IInv, ReadInTurn, PaneStages
      <3>2. DOMAIN <<>> = {}
        OBVIOUS
      <3>3. IdsOf(todo) = {}
        BY <1>1, <3>2 DEF IdsOf, ToSet
      <3> QED
        BY <3>1, <3>3
    <2>3. \A p \in IdsOf(rows) : IsRead(reads[p])
      BY <2>2 DEF DataInv, PanesAreRead
    <2> QED
      BY <1>3, <2>1, <2>3, FoldIsOfForm
  <1>6. ASSUME ~ IsRefused(folded[1])
        PROVE  IsSnapshotData(s)
    <2>1. /\ s.windows = folded[1].windows /\ s.sessions = folded[1].sessions
          /\ s.clients = clients /\ s.touched = touched /\ s.origin = id
          /\ s.captured_at = clock /\ s.tmux_version = server.version
      OBVIOUS
    <2>2. s = [tmux_version |-> s.tmux_version, touched |-> s.touched,
               windows |-> s.windows, sessions |-> s.sessions, clients |-> s.clients,
               origin |-> s.origin, captured_at |-> s.captured_at]
      OBVIOUS
    <2> HIDE DEF s, folded
    <2>3. IsGraph(s)
      BY <1>6, <2>1 DEF IsRefused, IsGraph
    <2> QED
      BY <1>5, <2>1, <2>2, <2>3 DEF IsSnapshotData, DataInv, HeadIsRead
  <1> HIDE DEF s, folded
  <1>7. snapshot' # None => IsSnapshotData(snapshot'[1])
    BY <1>4, <1>6 DEF Some
  <1>8. OnDisk'
    BY DiskStays DEF DataInv, OnDisk
  <1>9. ListedWell' /\ HeadIsRead' /\ PanesAreRead'
    BY <1>2 DEF DataInv, ListedWell, HeadIsRead, PanesAreRead, Held
  <1> QED
    BY <1>1, <1>7, <1>8, <1>9 DEF DataInv, OnDisk

LEMMA CaptureKeepsData ==
    ASSUME IInv, DataInv, UNCHANGED disk, NEW clock, CaptureStep(clock)
    PROVE  DataInv'
  <1>1. CASE ConnectionLost
    <2>1. /\ UNCHANGED <<server, listed, reading>> /\ snapshot' = None
      BY <1>1 DEF ConnectionLost, Fail, Over
    <2>2. UNCHANGED <<looked, clients, touched, id, pane, reads>>
      BY <2>1 DEF listed, reading
    <2>3. OnDisk'
      BY DiskStays DEF DataInv, OnDisk
    <2>4. ListedWell' /\ HeadIsRead' /\ PanesAreRead'
      BY <2>2 DEF DataInv, ListedWell, HeadIsRead, PanesAreRead, Held
    <2> QED
      BY <2>1, <2>3, <2>4 DEF DataInv, OnDisk
  <1> QED
    BY <1>1, SurveyKeepsData, PaneStepKeepsData, VisibleKeepsData, FinishKeepsData, Zenon
       DEF CaptureStep

LEMMA UserKeepsData ==
    ASSUME IInv, DataInv, UserMoves, UNCHANGED disk
    PROVE  DataInv'
  <1>1. IsServer(server) /\ given \in Scenarios
    BY DEF IInv, TypeOK
  <1>2. \E kind : May(kind)
    BY <1>1, UserMovesOn
  <1>3. UNCHANGED <<looked, clients, touched, id, pane, reads, snapshot>>
    BY <1>2 DEF May, capturing, listed, reading
  <1>4. IsFilled(server')
    BY <1>1, UserMovesFill DEF DataInv
  <1>5. OnDisk'
    BY DiskStays DEF DataInv, OnDisk
  <1>6. ListedWell' /\ HeadIsRead' /\ PanesAreRead'
    BY <1>3 DEF DataInv, ListedWell, HeadIsRead, PanesAreRead, Held
  <1> QED
    BY <1>3, <1>4, <1>5, <1>6 DEF DataInv, OnDisk

LEMMA CapturingStays ==
    ASSUME DataInv, UNCHANGED <<server, listed, reading, snapshot>>, OnDisk'
    PROVE  DataInv'
  <1>1. UNCHANGED <<looked, clients, touched, id, pane, reads>>
    BY DEF listed, reading
  <1>2. ListedWell' /\ HeadIsRead' /\ PanesAreRead'
    BY <1>1 DEF DataInv, ListedWell, HeadIsRead, PanesAreRead, Held
  <1> QED
    BY <1>2 DEF DataInv, OnDisk

LEMMA IdleKeepsData ==
    ASSUME DataInv, Idle, OnDisk'
    PROVE  DataInv'
  <1>1. /\ UNCHANGED server
        /\ looked' = None /\ clients' = <<>> /\ touched' = None /\ id' = None
        /\ pane' = Unread /\ reads' = <<>> /\ snapshot' = None
    BY DEF Idle
  <1>2. HeadIsRead'
    <2>1. IsFields(<<>>) /\ DOMAIN <<>> = {}
      <3>1. <<>> \in Seq({})
        OBVIOUS
      <3> QED
        BY <3>1 DEF IsFields
    <2> QED
      BY <1>1, <2>1 DEF HeadIsRead, AreClients, IsOption, IsOrigin
  <1>3. PanesAreRead'
    <2>1. DOMAIN <<>> = {}
      OBVIOUS
    <2> QED
      BY <1>1, <2>1 DEF PanesAreRead, Unread, IsForeground
  <1> QED
    BY <1>1, <1>2, <1>3 DEF DataInv, ListedWell, OnDisk

LEMMA DamageKeepsData ==
    ASSUME DataInv, Damage
    PROVE  DataInv'
  <1>1. /\ UNCHANGED <<server, listed, reading, snapshot, saved>>
        /\ ~ damaged /\ damaged' = TRUE /\ loaded' = None /\ file # None
    BY DEF Damage, May, capturing
  <1>2. UNCHANGED file \/ file' \in {Some(f) : f \in Damaged(file[1]) \ {file[1]}}
    BY DEF Damage
  <1>3. ASSUME saved # None
        PROVE  /\ IsSnapshotData(saved[1]) /\ file' # None
               /\ \/ file'[1] = EncodeFile(saved[1], None)
                  \/ IsDamaged(file'[1], EncodeFile(saved[1], None), NoText)
    <2>1. /\ IsSnapshotData(saved[1])
          /\ file[1] = EncodeFile(saved[1], None)
      BY <1>1, <1>3 DEF DataInv, FileIsSaved
    <2>2. CASE UNCHANGED file
      BY <1>1, <2>1, <2>2
    <2>3. CASE file' \in {Some(f) : f \in Damaged(file[1]) \ {file[1]}}
      <3>1. PICK f \in Damaged(file[1]) : file' = Some(f)
        BY <2>3
      <3>2. file'[1] = f /\ file' # None
        BY <3>1 DEF Some, None
      <3>3. IsDamaged(f, file[1], NoText)
        BY <3>1 DEF Damaged, IsDamaged, IsAltered
      <3> QED
        BY <2>1, <3>2, <3>3
    <2> QED
      BY <1>2, <2>2, <2>3
  <1>4. OnDisk'
    BY <1>1, <1>3 DEF OnDisk, FileIsSaved, LoadedIsFile
  <1> QED
    BY <1>1, <1>4, CapturingStays

LEMMA PublishKeepsData ==
    ASSUME DataInv, Publish
    PROVE  DataInv'
  <1>1. /\ Idle /\ snapshot # None /\ IsSnapshotData(snapshot[1])
        /\ file' = Some(EncodeFile(snapshot[1], None))
        /\ loaded' = None /\ saved' = snapshot
        /\ TextsOf(snapshot[1]) \subseteq DOMAIN blobs'
    BY DEF Publish, DataInv
  <1>2. file' # None /\ file'[1] = EncodeFile(snapshot[1], None)
    BY <1>1 DEF Some, None
  <1>3. OnDisk'
    BY <1>1, <1>2 DEF OnDisk, FileIsSaved, LoadedIsFile
  <1> QED
    BY <1>1, <1>3, IdleKeepsData

LEMMA DataInvIsInductive ==
    IInv /\ DataInv /\ [Next]_vars => DataInv'
  <1> SUFFICES ASSUME IInv, DataInv, [Next]_vars
               PROVE  DataInv'
    OBVIOUS
  <1>1. ASSUME Load
        PROVE  DataInv'
    <2>1. /\ UNCHANGED <<server, capturing, file, blobs, saved, damaged>>
          /\ loaded' = Some(DecodeFile(file[1], blobs))
      BY <1>1 DEF Load
    <2>2. OnDisk'
      BY <2>1 DEF OnDisk, FileIsSaved, LoadedIsFile, DataInv
    <2> QED
      BY <2>1, <2>2, CapturingStays DEF capturing
  <1>2. ASSUME RunSave
        PROVE  DataInv'
    <2>1. UNCHANGED <<server, listed, reading, snapshot, disk>>
      BY <1>2 DEF RunSave, Begin
    <2>2. OnDisk'
      BY <2>1, DiskStays DEF OnDisk, DataInv
    <2> QED
      BY <2>1, <2>2, CapturingStays
  <1>3. ASSUME NotSaved
        PROVE  DataInv'
    <2>1. Idle /\ UNCHANGED disk
      BY <1>3 DEF NotSaved
    <2>2. OnDisk'
      BY <2>1, DiskStays DEF OnDisk, DataInv
    <2> QED
      BY <2>1, <2>2, IdleKeepsData
  <1>4. ASSUME UNCHANGED vars
        PROVE  DataInv'
    <2>1. UNCHANGED <<server, capturing, disk>>
      BY <1>4 DEF vars
    <2>2. OnDisk'
      BY <2>1, DiskStays DEF OnDisk, DataInv
    <2> QED
      BY <2>1, <2>2, CapturingStays DEF capturing
  <1> QED
    BY <1>1, <1>2, <1>3, <1>4, PublishKeepsData, DamageKeepsData, UserKeepsData,
       CaptureKeepsData DEF Next

LEMMA DataInvHolds ==
    Spec => [](IInv /\ DataInv)
  <1>1. Init => IInv /\ DataInv
    BY InitHolds, DataAtFirst
  <1>2. (IInv /\ DataInv) /\ [Next]_vars => (IInv /\ DataInv)'
    BY IInvIsInductive, DataInvIsInductive
  <1> QED
    BY <1>1, <1>2, PTL DEF Spec

\* Whatever was read of a file differs from what was saved in its header only.
LEMMA LatestIsSaved ==
    ASSUME IInv, DataInv, IsReadable, saved # None
    PROVE  \E o, t : /\ IsNear(o, saved[1].origin)
                     /\ Latest.value = Headed(saved[1], o, t)
                     /\ damaged \/ Latest.value = saved[1]
  <1> DEFINE s == saved[1]
             other == NoText
  <1>1. /\ IsSnapshotData(s)
        /\ ~ damaged => file[1] = EncodeFile(s, None)
        /\ \/ file[1] = EncodeFile(s, None)
           \/ IsDamaged(file[1], EncodeFile(s, None), other)
    BY DEF DataInv, FileIsSaved
  <1>2. Latest = DecodeFile(file[1], blobs) /\ Runs(Latest)
    <2>1. loaded # None /\ loaded = Some(DecodeFile(file[1], blobs)) /\ Runs(Latest)
      BY DEF DataInv, LoadedIsFile, IsReadable
    <2> QED
      BY <2>1 DEF Latest, Some
  <1> HIDE DEF s, other
  <1>3. CASE file[1] = EncodeFile(s, None)
    <2>1. IsNamed(None)
      BY DEF IsNamed, IsOption
    <2>2. Latest.value = s
      BY <1>1, <1>2, <1>3, <2>1, FileReadsBack
    <2>3. s = Headed(s, s.origin, s.captured_at) /\ IsNear(s.origin, s.origin)
      BY <1>1 DEF IsSnapshotData, Headed, IsNear
    <2> QED
      BY <2>2, <2>3 DEF s
  <1>4. CASE ~ file[1] = EncodeFile(s, None)
    <2>1. damaged /\ IsDamaged(file[1], EncodeFile(s, None), other)
      BY <1>1, <1>4
    <2>2. \E o, t : IsNear(o, s.origin) /\ Latest.value = Headed(s, o, t)
      BY <1>1, <1>2, <2>1, DamagedIsTheSame DEF IsTheSame
    <2> QED
      BY <2>1, <2>2 DEF s
  <1> QED
    BY <1>3, <1>4

\* What is read of a generation that a save wrote is what it was saved from,
\* in all but its header if the disk has changed it since, and if it was not,
\* it is refused for a blob that was cut before and for nothing else.
LEMMA SavedIsReadBack ==
    ASSUME IInv, DataInv, saved # None
    PROVE  ReadsBackAsSaved
  <1> SUFFICES ASSUME loaded # None
               PROVE  IF IsReadable
                      THEN /\ SameBody(Latest.value, saved[1])
                           /\ damaged \/ Latest.value = saved[1]
                      ELSE damaged \/ "cut" \in {blobs[t] : t \in TextsOf(saved[1])}
    BY DEF ReadsBackAsSaved
  <1> DEFINE s == saved[1]
  <1>1. IsSnapshotData(s)
    BY DEF DataInv, FileIsSaved
  <1>2. CASE IsReadable
    <2>1. PICK o, t : /\ Latest.value = Headed(s, o, t)
                      /\ damaged \/ Latest.value = s
      BY <1>2, LatestIsSaved
    <2>2. SameBody(Headed(s, o, t), s)
      <3> HIDE DEF s
      <3>1. s = SnapshotOf(s.tmux_version, s.touched, s.windows, s.sessions, s.clients,
                           s.origin, s.captured_at)
        BY <1>1 DEF IsSnapshotData, SnapshotOf
      <3>2. PICK a, b, c, d, e, f, g : s = SnapshotOf(a, b, c, d, e, f, g)
        BY <3>1
      <3>3. Headed(s, o, t) = SnapshotOf(a, b, c, d, e, o, t)
        BY <3>2, SnapshotIsChanged
      <3>4. Headed(Headed(s, o, t), None, 0) = SnapshotOf(a, b, c, d, e, None, 0)
        BY <3>3, SnapshotIsChanged
      <3>5. Headed(s, None, 0) = SnapshotOf(a, b, c, d, e, None, 0)
        BY <3>2, SnapshotIsChanged
      <3> QED
        BY <3>4, <3>5 DEF SameBody, Headed
    <2> QED
      BY <1>2, <2>1, <2>2
  <1>3. CASE ~ IsReadable
    <2> SUFFICES ASSUME ~ damaged
                 PROVE  \E t \in TextsOf(s) : blobs[t] = "cut"
      BY <1>3
    <2>1. /\ file[1] = EncodeFile(s, None) /\ TextsOf(s) \subseteq DOMAIN blobs
          /\ loaded = Some(DecodeFile(file[1], blobs))
      BY DEF DataInv, FileIsSaved, LoadedIsFile
    <2>2. ~ Runs(DecodeFile(EncodeFile(s, None), blobs))
      BY <1>3, <2>1 DEF IsReadable, Latest, Some
    <2> HIDE DEF s
    <2>3. IsNamed(None)
      BY DEF IsNamed, IsOption
    <2>4. PICK t \in TextsOf(s) : ~ IsWhole(t, blobs)
      BY <1>1, <2>2, <2>3, FileReadsBack
    <2>5. t \in DOMAIN blobs /\ blobs[t] # "whole"
      BY <2>1, <2>4 DEF IsWhole
    <2> QED
      BY <2>4, <2>5 DEF IInv, TypeOK
  <1> QED
    BY <1>2, <1>3

-----------------------------------------------------------------------------
(***************************************************************************)
(* The generation that was there before any save.                          *)
(***************************************************************************)
\* Until a save wrote one, the file is the one that was found, or what the
\* disk has made of it since.
FileIsFound ==
    saved = None /\ file # None =>
        /\ given.file # None
        /\ ~ damaged => file = given.file /\ blobs = given.blobs
        /\ \/ file[1] = given.file[1]
           \/ IsDamaged(file[1], given.file[1], NoText)

FoundInv == FileIsFound /\ (loaded # None => file # None)

LEMMA FoundStays ==
    ASSUME FoundInv, UNCHANGED <<given, disk>>
    PROVE  FoundInv'
  BY DEF FoundInv, FileIsFound, disk

LEMMA FoundInvIsInductive ==
    IInv /\ FoundInv /\ [Next]_vars => FoundInv'
  <1> SUFFICES ASSUME IInv, FoundInv, [Next]_vars
               PROVE  FoundInv'
    OBVIOUS
  <1>1. CASE Load
    <2>1. UNCHANGED <<given, file, blobs, saved, damaged>> /\ file # None
      BY <1>1 DEF Load
    <2> QED
      BY <2>1 DEF FoundInv, FileIsFound
  <1>2. CASE RunSave
    BY <1>2, FoundStays DEF RunSave, Begin
  <1>3. CASE NotSaved
    BY <1>3, FoundStays DEF NotSaved, Idle
  <1>4. CASE Publish
    <2>1. saved' # None /\ loaded' = None
      BY <1>4 DEF Publish
    <2> QED
      BY <2>1 DEF FoundInv, FileIsFound
  <1>5. CASE CaptureStep(saves) /\ UNCHANGED <<disk, saves>>
    <2>1. UNCHANGED given
      <3>1. ReadPanes \/ ReadClients \/ ReadMark \/ ReadId => UNCHANGED given
        BY DEF ReadPanes, ReadClients, ReadMark, ReadId, Fail, Over
      <3>2. ReadGroup \/ ReadLeader => UNCHANGED given
        BY DEF ReadGroup, ReadLeader, Unrecoverable, Reading, Refused
      <3>3. ReadScrollback \/ ReadVisible => UNCHANGED given
        BY DEF ReadScrollback, ReadVisible, Reading
      <3>4. ConnectionLost => UNCHANGED given
        BY DEF ConnectionLost, Fail, Over
      <3>5. \A clock : Finish(clock) => UNCHANGED given
        BY DEF Finish
      <3> QED
        BY <1>5, <3>1, <3>2, <3>3, <3>4, <3>5 DEF CaptureStep
    <2> QED
      BY <1>5, <2>1, FoundStays
  <1>6. CASE UserMoves /\ UNCHANGED <<disk, saves>>
    <2>3. IsServer(server) /\ given \in Scenarios
      BY DEF IInv, TypeOK
    <2>1. \E kind : May(kind)
      BY <1>6, <2>3, UserMovesOn
    <2>2. UNCHANGED given
      BY <2>1 DEF May
    <2> QED
      BY <1>6, <2>2, FoundStays
  <1>7. CASE Damage
    <2>1. /\ UNCHANGED <<given, saved>> /\ file # None /\ ~ damaged
          /\ damaged' = TRUE /\ loaded' = None
      BY <1>7 DEF Damage, May
    <2>2. UNCHANGED file \/ file' \in {Some(f) : f \in Damaged(file[1]) \ {file[1]}}
      BY <1>7 DEF Damage
    <2>3. ASSUME saved = None
          PROVE  /\ given.file # None
                 /\ \/ file'[1] = given.file[1]
                    \/ IsDamaged(file'[1], given.file[1], NoText)
      <3>1. given.file # None /\ file = given.file
        BY <2>1, <2>3 DEF FoundInv, FileIsFound
      <3>2. CASE UNCHANGED file
        BY <3>1, <3>2
      <3>3. CASE file' \in {Some(f) : f \in Damaged(file[1]) \ {file[1]}}
        <4>1. PICK f \in Damaged(file[1]) : file' = Some(f)
          BY <3>3
        <4>2. file'[1] = f
          BY <4>1 DEF Some
        <4>3. IsDamaged(f, file[1], NoText)
          BY <4>1 DEF Damaged, IsDamaged, IsAltered
        <4> QED
          BY <3>1, <4>2, <4>3
      <3> QED
        BY <2>2, <3>2, <3>3
    <2> QED
      BY <2>1, <2>3 DEF FoundInv, FileIsFound
  <1>8. CASE UNCHANGED vars
    BY <1>8, FoundStays DEF vars, disk
  <1> QED
    BY <1>1, <1>2, <1>3, <1>4, <1>5, <1>6, <1>7, <1>8 DEF Next

LEMMA FoundInvHolds ==
    Spec => [](IInv /\ DataInv /\ FoundInv)
  <1>1. Init => IInv /\ DataInv /\ FoundInv
    <2>1. Init => FoundInv
      BY DEF Init, FoundInv, FileIsFound
    <2> QED
      BY <2>1, InitHolds, DataAtFirst
  <1>2. (IInv /\ DataInv /\ FoundInv) /\ [Next]_vars => (IInv /\ DataInv /\ FoundInv)'
    BY IInvIsInductive, DataInvIsInductive, FoundInvIsInductive
  <1> QED
    BY <1>1, <1>2, PTL DEF Spec

\* What is read of it is the tree it was of, and of no server.
LEMMA FoundIsTheTree ==
    ASSUME IInv, DataInv, FoundInv, saved = None, IsReadable
    PROVE  IsTreeOf(given.tree, Latest.value) /\ Latest.value.origin = None
  <1> DEFINE tree == given.tree
             was == EncodeFileV1(tree)
             other == NoText
  <1>1. loaded # None /\ Runs(Latest) /\ file # None
    BY DEF IsReadable, FoundInv
  <1>2. /\ given \in Scenarios /\ given.file # None
        /\ file[1] = given.file[1] \/ IsDamaged(file[1], given.file[1], other)
    BY <1>1 DEF IInv, TypeOK, FoundInv, FileIsFound
  <1>3. given.file = Some(was) /\ IsTree(tree)
    BY <1>2, FileAssumption
  <1> HIDE DEF was
  <1>4. given.file[1] = was
    BY <1>3 DEF Some
  <1>5. Latest = DecodeFile(file[1], blobs)
    BY <1>1 DEF DataInv, LoadedIsFile, Latest, Some
  <1> HIDE DEF tree, other
  <1>6. CASE file[1] = was
    BY <1>1, <1>3, <1>5, <1>6, OldFileReadsBack DEF was, tree
  <1>7. CASE IsDamaged(file[1], was, other)
    BY <1>1, <1>3, <1>5, <1>7, OldDamageIsNoticed DEF was, tree
  <1> QED
    BY <1>2, <1>4, <1>6, <1>7

\* It is refused only if the disk did something to it.
LEMMA FoundIsReadBack ==
    ASSUME IInv, DataInv, FoundInv, saved = None
    PROVE  ReadsBackAsSaved
  <1> SUFFICES ASSUME loaded # None
               PROVE  IF IsReadable THEN IsTreeOf(given.tree, Latest.value) ELSE damaged
    BY DEF ReadsBackAsSaved
  <1>1. CASE IsReadable
    BY <1>1, FoundIsTheTree
  <1>2. CASE ~ IsReadable
    <2> SUFFICES ASSUME ~ damaged
                 PROVE  FALSE
      BY <1>2
    <2> DEFINE was == EncodeFileV1(given.tree)
    <2>1. /\ given \in Scenarios /\ given.file # None /\ file = given.file
          /\ blobs = given.blobs
      BY DEF IInv, TypeOK, FoundInv, FileIsFound
    <2>2. /\ given.file = Some(was) /\ IsTree(given.tree)
          /\ \A text \in TextsOfTree(given.tree) : IsWhole(text, blobs)
      BY <2>1, FileAssumption DEF IsWhole
    <2>3. Runs(DecodeFile(was, blobs))
      BY <2>2, OldFileReadsBack
    <2> HIDE DEF was
    <2>4. file[1] = was
      BY <2>1, <2>2 DEF Some
    <2>5. Latest = DecodeFile(file[1], blobs)
      BY DEF DataInv, LoadedIsFile, Latest, Some
    <2> QED
      BY <1>2, <2>3, <2>4, <2>5 DEF IsReadable
  <1> QED
    BY <1>1, <1>2

\* A generation is read back as what it was written from, whichever format it
\* has and whatever the disk did to it: as the very snapshot that was saved, in
\* all but its header if the file was damaged, or as the tree of an older
\* phoenix; and it is refused only if the disk did something to it, or to a
\* text it shares with an earlier one (store.rs `load`, codec.rs, header.rs).
THEOREM GenerationsReadBack ==
    Spec => []ReadsBackAsSaved
  <1>1. IInv /\ DataInv /\ FoundInv => ReadsBackAsSaved
    BY SavedIsReadBack, FoundIsReadBack
  <1> QED
    BY <1>1, FoundInvHolds, PTL

-----------------------------------------------------------------------------
(***************************************************************************)
(* What is read of a pane is of that pane, and no older than the listing.  *)
(***************************************************************************)
\* A text of a pane that was printed after another: nothing is unprinted.
HasGrown(then, now) ==
    now.clears >= then.clears /\ now.last >= then.last /\ now.drawn >= then.drawn

\* Every server takes one process id and one second more than the one before.
IsInStep(server_id) ==
    /\ server_id \in [pid : Nat, start : Nat]
    /\ server_id.pid - server_id.start = given.server.id.pid - given.server.id.start

\* A scrollback of pane p of the server with this process id that has at least
\* the lines its indicator counts.
IsOwn(scrollback, indicator, pid, p) ==
    /\ scrollback.server = pid /\ scrollback.pane = p
    /\ scrollback.last \in Nat /\ indicator \in Int /\ scrollback.last >= indicator

IsOwnSnapshot(s) ==
    /\ s.origin # None /\ IsInStep(s.origin[1])
    /\ \A p \in PanesOf(s) : p.content.is = "captured" =>
          IsOwn(p.content.scrollback, p.content.indicator, s.origin[1].pid, p.id)

ServerIsPrinted == ArePrinted(server) /\ IsInStep(server.id)

LinkIsInStep == link # None => link = Some(link[1]) /\ IsInStep(link[1])

HeldIsPrinted ==
    looked # None =>
        /\ ArePrinted(Held)
        /\ \A p \in DOMAIN Held.panes : IsFound(p) =>
              HasGrown(Held.panes[p].text, server.panes[p].text)

\* What a capture may reuse is of the server it is connected to.
PreviousIsOwn ==
    link # None /\ previous.origin = link =>
        \A p \in DOMAIN previous.panes :
            IsOwn(previous.panes[p].scrollback, previous.panes[p].indicator,
                  link[1].pid, p)

IdIsLink == stage \in PaneStages => id = link

ScrollbackIsOwn ==
    stage = "visible" /\ ~ pane.failed =>
        IsOwn(pane.scrollback[1], todo[1].indicator, link[1].pid, Here)

IsReadOwn(p) ==
    LET content == reads[p].content
        then == Held.panes[p].text
    IN  content.is = "captured" =>
            /\ content.indicator = IndicatorOf(then)
            /\ IsOwn(content.scrollback, content.indicator, link[1].pid, p)
            /\ HasGrown(then, content.visible)

ReadsAreOwn == looked # None => \A p \in DOMAIN reads : IsReadOwn(p)

KeptIsOfLink == snapshot # None => link # None /\ snapshot[1].origin = link

SavedIsOwn == saved # None => IsOwnSnapshot(saved[1])

TextInv ==
    /\ ServerIsPrinted /\ LinkIsInStep /\ HeldIsPrinted
    /\ PreviousIsOwn /\ IdIsLink /\ ScrollbackIsOwn /\ ReadsAreOwn
    /\ KeptIsOfLink /\ SavedIsOwn

-----------------------------------------------------------------------------
(***************************************************************************)
(* The user moves, and what is printed stays printed.                      *)
(***************************************************************************)
\* next is the same server, whose panes have printed on, or the one after it.
TextsMoveOn(now, next) ==
    /\ ArePrinted(next)
    /\ \/ /\ next.id = now.id
          /\ \A p \in DOMAIN now.panes \cap DOMAIN next.panes :
                HasGrown(now.panes[p].text, next.panes[p].text)
       \/ next.id = [pid |-> now.id.pid + 1, start |-> now.id.start + 1]

NewText(h, p) ==
    [server |-> h.id.pid, pane |-> p, first |-> 0, last |-> 0, clears |-> 0, drawn |-> 0]

LEMMA TextFacts ==
    ASSUME NEW text, NEW pid, NEW p, IsTextOf(text, pid, p)
    PROVE  /\ text.server = pid /\ text.pane = p
           /\ text.first \in Nat /\ text.last \in Nat /\ text.clears \in Nat
           /\ text.drawn \in Nat /\ text.first <= text.last
           /\ HasGrown(text, text)
           /\ IndicatorOf(text) \in Int /\ IndicatorOf(text) <= text.last
           /\ text.first = 0 => IndicatorOf(text) = text.last
  <1>1. /\ text.server = pid /\ text.pane = p
        /\ text.first \in Nat /\ text.last \in Nat /\ text.clears \in Nat
        /\ text.drawn \in Nat /\ text.first <= text.last
    BY DEF IsTextOf
  <1> QED
    BY <1>1 DEF HasGrown, IndicatorOf

LEMMA GrownStill ==
    ASSUME NEW a, NEW b, NEW c, NEW i, NEW j, NEW k, NEW p, NEW q, NEW r,
           IsTextOf(a, i, p), IsTextOf(b, j, q), IsTextOf(c, k, r),
           HasGrown(a, b), HasGrown(b, c)
    PROVE  HasGrown(a, c)
  BY TextFacts DEF HasGrown

\* A server whose panes keep their texts, but for those that are new.
LEMMA TextsStay ==
    ASSUME NEW h, ArePrinted(h), NEW g, g.id = h.id, h.id.pid \in Nat,
           \A p \in DOMAIN g.panes :
              IF p \in DOMAIN h.panes THEN g.panes[p].text = h.panes[p].text
              ELSE g.panes[p].text = NewText(h, p)
    PROVE  TextsMoveOn(h, g)
  <1>1. \A p : IsTextOf(NewText(h, p), h.id.pid, p)
    BY DEF NewText, IsTextOf
  <1>2. ArePrinted(g)
    BY <1>1 DEF ArePrinted
  <1>3. \A p \in DOMAIN h.panes \cap DOMAIN g.panes :
           HasGrown(h.panes[p].text, g.panes[p].text)
    BY TextFacts DEF ArePrinted
  <1> QED
    BY <1>2, <1>3 DEF TextsMoveOn

\* What a user move leaves of a server's panes.
LEMMA ServerFields ==
    ASSUME NEW h, IsServer(h)
    PROVE  /\ DOMAIN h = {"id", "mark", "version", "fresh", "sessions", "windows",
                          "panes", "clients"}
           /\ h.id \in [pid : Nat, start : Nat] /\ h.id.pid \in Nat /\ h.id.start \in Nat
           /\ \A p \in DOMAIN h.panes : DOMAIN h.panes[p] = {"cwd", "process", "text"}
           /\ h.fresh \notin DOMAIN h.panes
  <1>1. h.fresh \notin DOMAIN h.panes
    BY FreshIsFree
  <1> QED
    BY <1>1 DEF IsServer

LEMMA NewPaneIsBlank ==
    ASSUME IsServer(server)
    PROVE  NewPane.text = NewText(server, server.fresh)
  BY DEF NewPane, NewText

LEMMA FreshIsPut ==
    ASSUME IsServer(server), ArePrinted(server), NEW g, g.id = server.id,
           g.panes = Put(server.panes, server.fresh, NewPane)
    PROVE  TextsMoveOn(server, g)
  <1> DEFINE h == server
             k == server.fresh
             new == NewPane
  <1>1. k \notin DOMAIN h.panes /\ new.text = NewText(h, k) /\ h.id.pid \in Nat
    BY ServerFields, NewPaneIsBlank
  <1> HIDE DEF h, k, new
  <1>2. g.panes = Put(h.panes, k, new) /\ g.id = h.id /\ ArePrinted(h)
    BY DEF h, k, new
  <1>3. ASSUME NEW p \in DOMAIN g.panes
        PROVE  IF p \in DOMAIN h.panes THEN g.panes[p].text = h.panes[p].text
               ELSE g.panes[p].text = NewText(h, p)
    BY <1>1, <1>2 DEF Put
  <1>4. TextsMoveOn(h, g)
    BY <1>1, <1>2, <1>3, TextsStay
  <1> QED
    BY <1>4 DEF h

\* The moves after which some panes are gone and the others are as they were.
LEMMA FewerPanes ==
    ASSUME IsServer(server), ArePrinted(server), NEW g, g.id = server.id,
           NEW gone, g.panes = WithoutPanes(gone) \/ g.panes = server.panes
    PROVE  TextsMoveOn(server, g)
  <1>1. server.id.pid \in Nat
    BY ServerFields
  <1>2. \A p \in DOMAIN g.panes :
           p \in DOMAIN server.panes /\ g.panes[p] = server.panes[p]
    BY DEF WithoutPanes
  <1> QED
    BY <1>1, <1>2, TextsStay

LEMMA TextIsWritten ==
    ASSUME IsServer(server), ArePrinted(server), NEW p \in DOMAIN server.panes,
           NEW text \in TextsAfter(server.panes[p].text), WriteText(p, text)
    PROVE  TextsMoveOn(server, server')
  <1> DEFINE h == server
             old == h.panes[p].text
             new == [h.panes[p] EXCEPT !.text = text]
             panes == Put(h.panes, p, new)
  <1>1. server' = [h EXCEPT !.panes = panes]
    BY DEF WriteText
  <1>2. new.text = text
    BY ServerFields
  <1>3. IsTextOf(old, h.id.pid, p)
    BY DEF ArePrinted
  <1>4. IsTextOf(text, h.id.pid, p) /\ HasGrown(old, text)
    <2> DEFINE pid == h.id.pid
    <2> HIDE DEF old, pid
    <2>1. old \in [server : {pid}, pane : {p}, first : Nat, last : Nat,
                   clears : Nat, drawn : Nat]
          /\ old.first <= old.last
      BY <1>3 DEF IsTextOf, pid
    <2> DEFINE dropped == [old EXCEPT !.first = @ + 1]
    <2>2. \/ text = [old EXCEPT !.last = @ + 1]
          \/ text = [dropped EXCEPT !.last = @ + 1]
          \/ text = [old EXCEPT !.drawn = @ + 1]
          \/ text = [old EXCEPT !.first = old.last, !.clears = @ + 1]
      BY DEF TextsAfter, old
    <2>3. CASE text = [old EXCEPT !.last = @ + 1]
      <3>1. text \in [server : {pid}, pane : {p}, first : Nat, last : Nat,
                      clears : Nat, drawn : Nat]
        BY <2>1, <2>3
      <3>2. /\ text.first = old.first /\ text.last = old.last + 1
            /\ text.clears = old.clears /\ text.drawn = old.drawn
        BY <2>1, <2>3
      <3> QED
        BY <2>1, <3>1, <3>2 DEF IsTextOf, HasGrown, pid
    <2>4. CASE text = [dropped EXCEPT !.last = @ + 1]
      <3>1. /\ dropped \in [server : {pid}, pane : {p}, first : Nat, last : Nat,
                            clears : Nat, drawn : Nat]
            /\ dropped.first = old.first + 1 /\ dropped.last = old.last
            /\ dropped.clears = old.clears /\ dropped.drawn = old.drawn
        BY <2>1
      <3> HIDE DEF dropped
      <3>2. text \in [server : {pid}, pane : {p}, first : Nat, last : Nat,
                      clears : Nat, drawn : Nat]
        BY <2>4, <3>1
      <3>3. /\ text.first = old.first + 1 /\ text.last = old.last + 1
            /\ text.clears = old.clears /\ text.drawn = old.drawn
        BY <2>4, <3>1
      <3> QED
        BY <2>1, <3>2, <3>3 DEF IsTextOf, HasGrown, pid
    <2>5. CASE text = [old EXCEPT !.drawn = @ + 1]
      <3>1. text \in [server : {pid}, pane : {p}, first : Nat, last : Nat,
                      clears : Nat, drawn : Nat]
        BY <2>1, <2>5
      <3>2. /\ text.first = old.first /\ text.last = old.last
            /\ text.clears = old.clears /\ text.drawn = old.drawn + 1
        BY <2>1, <2>5
      <3> QED
        BY <2>1, <3>1, <3>2 DEF IsTextOf, HasGrown, pid
    <2>6. CASE text = [old EXCEPT !.first = old.last, !.clears = @ + 1]
      <3> DEFINE mid == [old EXCEPT !.first = old.last]
      <3>3. mid \in [server : {pid}, pane : {p}, first : Nat, last : Nat,
                     clears : Nat, drawn : Nat]
        BY <2>1
      <3>4. text = [mid EXCEPT !.clears = @ + 1]
        BY <2>6
      <3> HIDE DEF mid
      <3>1. text \in [server : {pid}, pane : {p}, first : Nat, last : Nat,
                      clears : Nat, drawn : Nat]
        BY <3>3, <3>4
      <3>2. /\ text.first = old.last /\ text.last = old.last
            /\ text.clears = old.clears + 1 /\ text.drawn = old.drawn
        BY <2>1, <2>6
      <3> QED
        BY <2>1, <3>1, <3>2 DEF IsTextOf, HasGrown, pid
    <2> QED
      BY <2>2, <2>3, <2>4, <2>5, <2>6
  <1> HIDE DEF new, old
  <1>5. /\ DOMAIN panes = DOMAIN h.panes
        /\ panes[p].text = text
        /\ \A q \in DOMAIN h.panes : q # p => panes[q] = h.panes[q]
    BY <1>2 DEF Put
  <1> HIDE DEF panes
  <1>6. server'.panes = panes /\ server'.id = h.id
    BY <1>1, ServerFields
  <1>7. ArePrinted(server')
    BY <1>4, <1>5, <1>6 DEF ArePrinted
  <1>8. ASSUME NEW q \in DOMAIN h.panes
        PROVE  HasGrown(h.panes[q].text, server'.panes[q].text)
    <2>1. CASE q = p
      BY <1>4, <1>5, <1>6, <2>1 DEF old
    <2>2. CASE q # p
      BY <1>5, <1>6, <2>2, TextFacts DEF ArePrinted
    <2> QED
      BY <2>1, <2>2
  <1> QED
    BY <1>5, <1>6, <1>7, <1>8 DEF TextsMoveOn

LEMMA RunInPrintsNothing ==
    ASSUME IsServer(server), ArePrinted(server), NEW p \in DOMAIN server.panes,
           NEW holder, NEW led, RunIn(p, holder, led)
    PROVE  TextsMoveOn(server, server')
  <1> DEFINE h == server
             process == [holder |-> holder, led |-> led,
                         turns |-> h.panes[p].process.turns + 1]
             new == [h.panes[p] EXCEPT !.process = process]
             panes == Put(h.panes, p, new)
  <1>1. server' = [h EXCEPT !.panes = panes]
    BY DEF RunIn
  <1>2. new.text = h.panes[p].text
    BY ServerFields
  <1> HIDE DEF new
  <1>3. /\ DOMAIN panes = DOMAIN h.panes
        /\ \A q \in DOMAIN h.panes : panes[q].text = h.panes[q].text
    BY <1>2 DEF Put
  <1> HIDE DEF panes
  <1>4. server'.panes = panes /\ server'.id = h.id /\ h.id.pid \in Nat
    BY <1>1, ServerFields
  <1> QED
    BY <1>3, <1>4, TextsStay

LEMMA RestartPrintsAnew ==
    ASSUME IsServer(server), given \in Scenarios, Restart
    PROVE  TextsMoveOn(server, server')
  <1> DEFINE h == given.server
             pid == server.id.pid + 1
             new == [pid |-> pid, start |-> server.id.start + 1]
             panes == [p \in DOMAIN h.panes |-> [h.panes[p] EXCEPT !.text.server = pid]]
  <1>1. IsServer(h) /\ ArePrinted(h)
    BY ScenarioAssumption
  <1>2. server' = [h EXCEPT !.id = new, !.panes = panes]
    BY DEF Restart
  <1>3. ASSUME NEW p \in DOMAIN h.panes
        PROVE  IsTextOf(panes[p].text, pid, p)
    <2> DEFINE old == h.panes[p].text
    <2>1. panes[p].text = [old EXCEPT !.server = pid]
      BY <1>1, ServerFields
    <2>2. old \in [server : {h.id.pid}, pane : {p}, first : Nat, last : Nat,
                   clears : Nat, drawn : Nat]
          /\ old.first <= old.last
      BY <1>1 DEF ArePrinted, IsTextOf
    <2> HIDE DEF old, pid
    <2>3. IsTextOf([old EXCEPT !.server = pid], pid, p)
      BY <2>2 DEF IsTextOf
    <2> QED
      BY <2>1, <2>3
  <1>4. DOMAIN panes = DOMAIN h.panes
    OBVIOUS
  <1> HIDE DEF panes, h
  <1>5. server'.panes = panes /\ server'.id = new
    BY <1>1, <1>2, ServerFields
  <1>6. ArePrinted(server')
    BY <1>3, <1>4, <1>5 DEF ArePrinted
  <1> QED
    BY <1>5, <1>6 DEF TextsMoveOn

LEMMA UserMovesPrint ==
    ASSUME IsServer(server), ArePrinted(server), given \in Scenarios, UserMoves
    PROVE  TextsMoveOn(server, server')
  <1>1. ASSUME NEW w \in DOMAIN server.windows, SplitWindow(w)
        PROVE  TextsMoveOn(server, server')
    <2>1. /\ server'.id = server.id
          /\ server'.panes = Put(server.panes, server.fresh, NewPane)
      BY <1>1, ServerFields DEF SplitWindow
    <2> QED
      BY <2>1, FreshIsPut
  <1>2. ASSUME NEW w \in DOMAIN server.windows,
               NEW p \in ToSet(server.windows[w].panes), KillPane(w, p)
        PROVE  TextsMoveOn(server, server')
    <2>1. server'.id = server.id /\ server'.panes = WithoutPanes({p})
      BY <1>2, ServerFields DEF KillPane
    <2> QED
      BY <2>1, FewerPanes
  <1>3. ASSUME NEW w \in DOMAIN server.windows, NEW name \in DOMAIN server.sessions,
               LinkWindow(name, w)
        PROVE  TextsMoveOn(server, server')
    <2>1. server'.id = server.id /\ server'.panes = server.panes
      BY <1>3, ServerFields DEF LinkWindow
    <2> QED
      BY <2>1, FewerPanes
  <1>4. ASSUME NEW w \in DOMAIN server.windows, NEW made, MarkWindow(w, made)
        PROVE  TextsMoveOn(server, server')
    <2>1. server'.id = server.id /\ server'.panes = server.panes
      BY <1>4, ServerFields DEF MarkWindow
    <2> QED
      BY <2>1, FewerPanes
  <1>5. ASSUME NEW name, NEW attached, OpenSession(name, attached)
        PROVE  TextsMoveOn(server, server')
    <2>1. /\ server'.id = server.id
          /\ server'.panes = Put(server.panes, server.fresh, NewPane)
      BY <1>5, ServerFields DEF OpenSession
    <2> QED
      BY <2>1, FreshIsPut
  <1>6. ASSUME NEW name \in DOMAIN server.sessions, KillSession(name)
        PROVE  TextsMoveOn(server, server')
    <2>1. \E gone : server'.id = server.id /\ server'.panes = WithoutPanes(gone)
      BY <1>6, ServerFields DEF KillSession
    <2> QED
      BY <2>1, FewerPanes
  <1>7. ASSUME NEW name \in DOMAIN server.sessions,
               NEW index \in DOMAIN server.sessions[name].links, SelectWindow(name, index)
        PROVE  TextsMoveOn(server, server')
    <2>1. server'.id = server.id /\ server'.panes = server.panes
      BY <1>7, ServerFields DEF SelectWindow
    <2> QED
      BY <2>1, FewerPanes
  <1>8. ASSUME NEW mark, MarkServer(mark)
        PROVE  TextsMoveOn(server, server')
    <2>1. server'.id = server.id /\ server'.panes = server.panes
      BY <1>8, ServerFields DEF MarkServer
    <2> QED
      BY <2>1, FewerPanes
  <1> QED
    BY <1>1, <1>2, <1>3, <1>4, <1>5, <1>6, <1>7, <1>8, TextIsWritten, RunInPrintsNothing,
       RestartPrintsAnew, Zenon DEF UserMoves

-----------------------------------------------------------------------------
(***************************************************************************)
(* A capture reads, and what it reads is the pane's.                       *)
(***************************************************************************)
\* Two servers of one process id, or of one second, are the same.
LEMMA InStepIsOne ==
    ASSUME NEW a, NEW b, IsInStep(a), IsInStep(b), a.pid = b.pid \/ a.start = b.start
    PROVE  a = b
  <1>1. /\ a.pid \in Nat /\ a.start \in Nat /\ b.pid \in Nat /\ b.start \in Nat
        /\ a.pid - a.start = b.pid - b.start
    BY DEF IsInStep
  <1>2. a.pid = b.pid /\ a.start = b.start
    BY <1>1
  <1> QED
    BY <1>2 DEF IsInStep

\* What a row says of its pane's text.
LEMMA RowsIndicator ==
    ASSUME NEW h, IsServer(h), NEW row \in ToSet(ListPanes(h))
    PROVE  row.indicator = IndicatorOf(h.panes[row.pane_id].text)
  <1>1. PICK p \in Places(h) : row = RowOf(h, p)
    <2>1. ToSet(ListPanes(h)) = RowsAt(h, Places(h))
      BY ListPanesFacts, ListingIsSeq
    <2> QED
      BY <2>1 DEF RowsAt
  <1>2. /\ row.pane_id = PaneAt(h, p)
        /\ row.indicator = IndicatorOf(h.panes[PaneAt(h, p)].text)
    BY <1>1 DEF RowOf, PaneAt, WindowAt
  <1> QED
    BY <1>2

\* What is known of the pane that is read next.
LEMMA HereIsPrinted ==
    ASSUME IInv, TextInv, stage \in PaneStages, todo # <<>>
    PROVE  /\ looked # None /\ Here \in DOMAIN Held.panes
           /\ IsTextOf(Held.panes[Here].text, link[1].pid, Here)
           /\ todo[1].indicator = IndicatorOf(Held.panes[Here].text)
           /\ id = link /\ link[1] = Held.id
  <1>1. looked # None /\ IsServer(Held) /\ Here \in DOMAIN Held.panes
    BY HereIsHeld DEF IInv
  <1>2. rows = ListPanes(Held) /\ link = Some(Held.id) /\ todo \in Seq(ToSet(rows))
    BY <1>1 DEF IInv, LookedOnce, ReadInTurn
  <1>3. todo[1] \in ToSet(ListPanes(Held))
    BY <1>2
  <1>4. todo[1].indicator = IndicatorOf(Held.panes[Here].text)
    BY <1>1, <1>3, RowsIndicator DEF Here
  <1>5. link[1] = Held.id /\ id = link
    BY <1>2 DEF Some, TextInv, IdIsLink
  <1>6. ArePrinted(Held)
    BY <1>1 DEF TextInv, HeldIsPrinted
  <1> QED
    BY <1>1, <1>4, <1>5, <1>6 DEF ArePrinted

\* A pane of the listing that is there now has printed on since.
LEMMA HereHasGrown ==
    ASSUME IInv, TextInv, stage \in PaneStages, todo # <<>>, IsConnected, IsThere
    PROVE  /\ HasGrown(Held.panes[Here].text, server.panes[Here].text)
           /\ IsTextOf(server.panes[Here].text, link[1].pid, Here)
           /\ IsOwn(server.panes[Here].text, todo[1].indicator, link[1].pid, Here)
  <1> DEFINE then == Held.panes[Here].text
             now == server.panes[Here].text
             pid == link[1].pid
  <1>1. /\ looked # None /\ Here \in DOMAIN Held.panes /\ IsTextOf(then, pid, Here)
        /\ todo[1].indicator = IndicatorOf(then)
    BY HereIsPrinted
  <1>2. HasGrown(then, now)
    BY <1>1 DEF TextInv, HeldIsPrinted, IsFound, IsThere
  <1>3. IsTextOf(now, pid, Here)
    <2>1. IsTextOf(now, server.id.pid, Here)
      BY DEF TextInv, ServerIsPrinted, ArePrinted, IsThere
    <2>2. link[1] = server.id
      BY DEF IsConnected, Some
    <2> QED
      BY <2>1, <2>2
  <1> HIDE DEF then, now, pid
  <1>4. IsOwn(now, todo[1].indicator, pid, Here)
    <2>1. now.server = pid /\ now.pane = Here /\ now.last \in Nat
      BY <1>3, TextFacts
    <2>2. IndicatorOf(then) \in Int /\ IndicatorOf(then) <= then.last /\ then.last \in Nat
      BY <1>1, TextFacts
    <2>3. now.last >= then.last
      BY <1>2 DEF HasGrown
    <2> QED
      BY <1>1, <2>1, <2>2, <2>3 DEF IsOwn
  <1> QED
    BY <1>2, <1>3, <1>4 DEF then, now, pid

\* A step that reads no text, or none that is kept yet.
LEMMA TextsWait ==
    ASSUME TextInv, UNCHANGED <<given, server, link, previous, looked, id, reads, saved>>,
           stage' \in PaneStages => stage \in PaneStages,
           ScrollbackIsOwn', KeptIsOfLink'
    PROVE  TextInv'
  <1>1. ServerIsPrinted' /\ LinkIsInStep'
    BY DEF TextInv, ServerIsPrinted, LinkIsInStep, IsInStep
  <1>2. HeldIsPrinted'
    BY DEF TextInv, HeldIsPrinted, Held, IsFound, IsConnected
  <1>3. PreviousIsOwn' /\ IdIsLink'
    BY DEF TextInv, PreviousIsOwn, IdIsLink
  <1>4. ReadsAreOwn'
    BY DEF TextInv, ReadsAreOwn, IsReadOwn, Held
  <1>5. SavedIsOwn'
    BY DEF TextInv, SavedIsOwn, IsOwnSnapshot, IsInStep
  <1> QED
    BY <1>1, <1>2, <1>3, <1>4, <1>5 DEF TextInv

LEMMA UserKeepsTexts ==
    ASSUME IInv, TextInv, UserMoves, UNCHANGED disk
    PROVE  TextInv'
  <1>1. /\ IsServer(server) /\ given \in Scenarios /\ LinkedToOne /\ NothingComesBack
        /\ ServerIsPrinted /\ ArePrinted(server)
    BY DEF IInv, TypeOK, TextInv, ServerIsPrinted
  <1>2. MovesOn(server, server') /\ \E kind : May(kind)
    BY <1>1, UserMovesOn
  <1>3. TextsMoveOn(server, server')
    BY <1>1, UserMovesPrint
  <1>4. UNCHANGED <<given, stage, link, previous, looked, rows, id, todo, pane, reads,
                    snapshot, saved>>
    BY <1>2 DEF May, capturing, listed, reading, disk
  <1>5. ServerIsPrinted'
    <2>1. IsServer(server') /\ ArePrinted(server')
      BY <1>2, <1>3 DEF MovesOn, TextsMoveOn
    <2>2. server'.id \in [pid : Nat, start : Nat]
      BY <2>1 DEF IsServer
    <2>3. \/ server'.id = server.id
          \/ server'.id = [pid |-> server.id.pid + 1, start |-> server.id.start + 1]
      BY <1>3 DEF TextsMoveOn
    <2>4. /\ server.id.pid \in Nat /\ server.id.start \in Nat
          /\ server.id.pid - server.id.start = given.server.id.pid - given.server.id.start
      BY <1>1 DEF ServerIsPrinted, IsInStep
    <2>5. server'.id.pid - server'.id.start = server.id.pid - server.id.start
      <3>1. CASE server'.id = server.id
        BY <3>1
      <3>2. CASE server'.id = [pid |-> server.id.pid + 1, start |-> server.id.start + 1]
        <4>1. server'.id.pid = server.id.pid + 1 /\ server'.id.start = server.id.start + 1
          BY <3>2
        <4> QED
          BY <2>4, <4>1
      <3> QED
        BY <2>3, <3>1, <3>2
    <2> QED
      BY <1>4, <2>1, <2>2, <2>4, <2>5 DEF ServerIsPrinted, IsInStep
  <1>6. HeldIsPrinted'
    <2> SUFFICES ASSUME looked # None
                 PROVE  /\ ArePrinted(Held)
                        /\ \A p \in DOMAIN Held.panes : IsFound(p)' =>
                              HasGrown(Held.panes[p].text, server'.panes[p].text)
      BY <1>4 DEF HeldIsPrinted, Held
    <2>1. IsServer(Held) /\ ArePrinted(Held)
      BY DEF IInv, LookedOnce, TextInv, HeldIsPrinted
    <2>2. ASSUME NEW p \in DOMAIN Held.panes, IsFound(p)'
          PROVE  HasGrown(Held.panes[p].text, server'.panes[p].text)
      <3>1. IsFound(p)
        BY <1>1, <1>2, <1>4, <2>1, <2>2, StillFound
      <3>2. p \in DOMAIN server.panes /\ p \in DOMAIN server'.panes
        BY <2>2, <3>1 DEF IsFound
      <3>3. server'.id = server.id
        <4>1. link[1] = server.id
          BY <3>1 DEF IsFound, IsConnected, Some
        <4>2. link'[1] = server'.id
          BY <2>2 DEF IsFound, IsConnected, Some
        <4> QED
          BY <1>4, <4>1, <4>2
      <3>4. HasGrown(Held.panes[p].text, server.panes[p].text)
        BY <3>1 DEF TextInv, HeldIsPrinted
      <3>5. HasGrown(server.panes[p].text, server'.panes[p].text)
        <4>1. server'.id # [pid |-> server.id.pid + 1, start |-> server.id.start + 1]
          <5>1. server.id.pid \in Nat
            BY <1>1 DEF IsServer
          <5>2. server.id.pid # server.id.pid + 1
            BY <5>1
          <5> QED
            BY <3>3, <5>2
        <4> QED
          BY <1>3, <3>2, <4>1 DEF TextsMoveOn
      <3>6. /\ IsTextOf(Held.panes[p].text, Held.id.pid, p)
            /\ IsTextOf(server.panes[p].text, server.id.pid, p)
            /\ IsTextOf(server'.panes[p].text, server'.id.pid, p)
        BY <1>1, <1>3, <2>1, <3>2 DEF ArePrinted, TextsMoveOn
      <3> QED
        BY <3>4, <3>5, <3>6, GrownStill
    <2> QED
      BY <2>1, <2>2
  <1>7. LinkIsInStep' /\ PreviousIsOwn' /\ IdIsLink' /\ KeptIsOfLink'
    BY <1>4 DEF TextInv, LinkIsInStep, IsInStep, PreviousIsOwn, IdIsLink, KeptIsOfLink
  <1>8. ScrollbackIsOwn' /\ ReadsAreOwn'
    BY <1>4 DEF TextInv, ScrollbackIsOwn, Here, ReadsAreOwn, IsReadOwn, Held
  <1>9. SavedIsOwn'
    BY <1>4 DEF TextInv, SavedIsOwn, IsOwnSnapshot, IsInStep
  <1> QED
    BY <1>5, <1>6, <1>7, <1>8, <1>9 DEF TextInv

LEMMA SurveyKeepsTexts ==
    ASSUME IInv, TextInv, UNCHANGED disk, ReadPanes \/ ReadClients \/ ReadMark \/ ReadId
    PROVE  TextInv'
  <1>1. /\ UNCHANGED <<given, server, link, previous, reads, saved>>
        /\ snapshot' = snapshot \/ snapshot' = None
    BY DEF ReadPanes, ReadClients, ReadMark, ReadId, Goto, Fail, Over, reading, disk
  <1>2. KeptIsOfLink'
    BY <1>1 DEF TextInv, KeptIsOfLink
  <1>3. CASE UNCHANGED <<looked, id>> /\ stage' \notin PaneStages
    <2>1. ScrollbackIsOwn'
      BY <1>3 DEF ScrollbackIsOwn, PaneStages
    <2> QED
      BY <1>1, <1>2, <1>3, <2>1, TextsWait
  <1>4. CASE ReadPanes
    <2>1. CASE \A row \in ToSet(ListPanes(server)) : Parses(row)
      <3>1. /\ looked' = Some(server) /\ stage = "panes" /\ stage' = "clients"
            /\ UNCHANGED id /\ IsConnected
        BY <1>4, <2>1 DEF ReadPanes, Goto
      <3>2. Held' = server
        BY <3>1 DEF Held, Some
      <3>3. HeldIsPrinted'
        <4>1. ArePrinted(server)
          BY DEF TextInv, ServerIsPrinted
        <4>2. \A p \in DOMAIN server.panes :
                 HasGrown(server.panes[p].text, server.panes[p].text)
          BY <4>1, TextFacts DEF ArePrinted
        <4> QED
          BY <1>1, <3>2, <4>1, <4>2 DEF HeldIsPrinted
      <3>4. reads' = <<>> /\ DOMAIN <<>> = {}
        BY <1>1, <3>1 DEF IInv, InStages
      <3>5. ReadsAreOwn'
        BY <3>4 DEF ReadsAreOwn
      <3>6. IdIsLink' /\ ScrollbackIsOwn'
        BY <3>1 DEF IdIsLink, ScrollbackIsOwn, PaneStages
      <3>7. ServerIsPrinted' /\ LinkIsInStep' /\ PreviousIsOwn'
        BY <1>1 DEF TextInv, ServerIsPrinted, LinkIsInStep, IsInStep, PreviousIsOwn
      <3>8. SavedIsOwn'
        BY <1>1 DEF TextInv, SavedIsOwn, IsOwnSnapshot, IsInStep
      <3> QED
        BY <1>2, <3>3, <3>5, <3>6, <3>7, <3>8 DEF TextInv
    <2>2. CASE ~ \A row \in ToSet(ListPanes(server)) : Parses(row)
      <3>1. UNCHANGED <<looked, id>> /\ stage' \notin PaneStages
        BY <1>4, <2>2 DEF ReadPanes, Fail, Over, listed, PaneStages
      <3> QED
        BY <1>3, <3>1
    <2> QED
      BY <2>1, <2>2
  <1>5. CASE ReadClients
    <2>1. UNCHANGED <<looked, id>> /\ stage' \notin PaneStages
      BY <1>5 DEF ReadClients, Goto, PaneStages
    <2> QED
      BY <1>3, <2>1
  <1>6. CASE ReadMark
    <2>1. UNCHANGED <<looked, id>> /\ stage' \notin PaneStages
      BY <1>6 DEF ReadMark, Goto, Fail, Over, listed, PaneStages
    <2> QED
      BY <1>3, <2>1
  <1>7. CASE ReadId
    <2>1. /\ id' = Some(server.id) /\ stage' = "group" /\ IsConnected /\ UNCHANGED looked
      BY <1>7 DEF ReadId, Goto
    <2>2. IdIsLink' /\ ScrollbackIsOwn'
      BY <1>1, <2>1 DEF IdIsLink, ScrollbackIsOwn, IsConnected
    <2>3. ServerIsPrinted' /\ LinkIsInStep' /\ PreviousIsOwn'
      BY <1>1 DEF TextInv, ServerIsPrinted, LinkIsInStep, IsInStep, PreviousIsOwn
    <2>4. HeldIsPrinted' /\ ReadsAreOwn'
      BY <1>1, <2>1 DEF TextInv, HeldIsPrinted, ReadsAreOwn, IsReadOwn, Held, IsFound,
                        IsConnected
    <2>5. SavedIsOwn'
      BY <1>1 DEF TextInv, SavedIsOwn, IsOwnSnapshot, IsInStep
    <2> QED
      BY <1>2, <2>2, <2>3, <2>4, <2>5 DEF TextInv
  <1> QED
    BY <1>4, <1>5, <1>6, <1>7

LEMMA PaneStepKeepsTexts ==
    ASSUME IInv, TextInv, UNCHANGED disk, ReadGroup \/ ReadLeader \/ ReadScrollback
    PROVE  TextInv'
  <1>1. /\ UNCHANGED <<given, server, link, previous, listed, todo, reads, snapshot>>
        /\ stage \in PaneStages
    <2>1. ReadGroup => /\ UNCHANGED <<given, server, link, previous, listed, todo, reads, snapshot>>
                       /\ stage \in PaneStages
      BY DEF ReadGroup, Unrecoverable, Reading, Refused, Goto, PaneStages
    <2>2. ReadLeader => /\ UNCHANGED <<given, server, link, previous, listed, todo, reads, snapshot>>
                        /\ stage \in PaneStages
      BY DEF ReadLeader, Unrecoverable, Reading, Refused, Goto, PaneStages
    <2>3. ReadScrollback => /\ UNCHANGED <<given, server, link, previous, listed, todo, reads, snapshot>>
                            /\ stage \in PaneStages
      BY DEF ReadScrollback, Reading, Goto, PaneStages
    <2> QED
      BY <2>1, <2>2, <2>3
  <1>2. UNCHANGED <<looked, id, saved>> /\ KeptIsOfLink'
    BY <1>1 DEF listed, disk, TextInv, KeptIsOfLink
  <1>3. CASE ReadGroup \/ ReadLeader
    <2>1. stage' # "visible"
      BY <1>3 DEF ReadGroup, ReadLeader, Unrecoverable, Reading, Refused, Goto
    <2>2. ScrollbackIsOwn'
      BY <2>1 DEF ScrollbackIsOwn
    <2> QED
      BY <1>1, <1>2, <2>2, TextsWait
  <1>4. CASE ReadScrollback
    <2>1. /\ stage = "scrollback" /\ IsConnected
      BY <1>4 DEF ReadScrollback
    <2>2. todo # <<>> /\ pane.failed = FALSE /\ DOMAIN pane = DOMAIN Unread
      BY <1>1, <2>1 DEF IInv, PaneAtStage
    <2>3. DOMAIN Unread = {"group", "foreground", "scrollback", "failed"}
      BY DEF Unread
    <2>4. /\ id = link /\ link[1] = Held.id /\ looked # None
      BY <1>1, <2>2, HereIsPrinted
    <2>5. ASSUME NEW text, pane' = [pane EXCEPT !.scrollback = Some(text)],
                 IsOwn(text, todo[1].indicator, link[1].pid, Here)
          PROVE  ScrollbackIsOwn'
      <3>1. pane'.scrollback[1] = text
        BY <2>2, <2>3, <2>5 DEF Some
      <3> QED
        BY <1>1, <2>5, <3>1 DEF ScrollbackIsOwn, Here
    <2>6. CASE Reusable(Here, todo[1].indicator)
      <3>1. pane' = [pane EXCEPT !.scrollback = Some(previous.panes[Here].scrollback)]
        BY <1>4, <2>6 DEF ReadScrollback, Reading
      <3>2. /\ Here \in DOMAIN previous.panes /\ previous.origin = link /\ link # None
            /\ previous.panes[Here].indicator = todo[1].indicator
        BY <2>1, <2>4, <2>6 DEF Reusable, IsConnected, Some, None
      <3>3. IsOwn(previous.panes[Here].scrollback, todo[1].indicator, link[1].pid, Here)
        BY <3>2 DEF TextInv, PreviousIsOwn
      <3> QED
        BY <1>1, <1>2, <2>5, <3>1, <3>3, TextsWait
    <2>7. CASE ~ Reusable(Here, todo[1].indicator) /\ IsThere
      <3>1. pane' = [pane EXCEPT !.scrollback = Some(server.panes[Here].text)]
        BY <1>4, <2>7 DEF ReadScrollback, Reading
      <3>2. IsOwn(server.panes[Here].text, todo[1].indicator, link[1].pid, Here)
        BY <1>1, <2>1, <2>2, <2>7, HereHasGrown
      <3> QED
        BY <1>1, <1>2, <2>5, <3>1, <3>2, TextsWait
    <2>8. CASE ~ Reusable(Here, todo[1].indicator) /\ ~ IsThere
      <3>1. pane' = [pane EXCEPT !.failed = TRUE]
        BY <1>4, <2>8 DEF ReadScrollback, Reading
      <3>2. pane'.failed = TRUE
        BY <2>2, <2>3, <3>1
      <3>3. ScrollbackIsOwn'
        BY <3>2 DEF ScrollbackIsOwn
      <3> QED
        BY <1>1, <1>2, <3>3, TextsWait
    <2> QED
      BY <2>6, <2>7, <2>8
  <1> QED
    BY <1>3, <1>4

LEMMA VisibleKeepsTexts ==
    ASSUME IInv, TextInv, UNCHANGED disk, ReadVisible
    PROVE  TextInv'
  <1> DEFINE p == Here
             read == [foreground |-> pane.foreground, content |-> ContentRead]
  <1>1. /\ UNCHANGED <<given, server, link, previous, listed, snapshot>>
        /\ stage = "visible" /\ IsConnected /\ stage' = "group"
        /\ reads' = Put(reads, p, read)
    BY DEF ReadVisible, Goto
  <1>2. UNCHANGED <<looked, id, saved>>
    BY <1>1 DEF listed, disk
  <1>3. stage \in PaneStages /\ todo # <<>>
    BY <1>1 DEF PaneStages, IInv, PaneAtStage
  <1>4. /\ looked # None /\ p \in DOMAIN Held.panes
        /\ todo[1].indicator = IndicatorOf(Held.panes[p].text)
    BY <1>3, HereIsPrinted
  <1>5. ContentRead.is = "captured" =>
            /\ ContentRead.indicator = IndicatorOf(Held.panes[p].text)
            /\ IsOwn(ContentRead.scrollback, ContentRead.indicator, link[1].pid, p)
            /\ HasGrown(Held.panes[p].text, ContentRead.visible)
    <2>1. CASE pane.failed \/ ~ IsThere
      <3>1. ContentRead.is = "not captured"
        BY <2>1 DEF ContentRead, NotCaptured
      <3> QED
        BY <3>1
    <2>2. CASE ~ pane.failed /\ IsThere
      <3>1. /\ ContentRead.indicator = todo[1].indicator
            /\ ContentRead.scrollback = pane.scrollback[1]
            /\ ContentRead.visible = server.panes[Here].text
        BY <2>2 DEF ContentRead, Captured, IndicatorListed
      <3>2. IsOwn(pane.scrollback[1], todo[1].indicator, link[1].pid, Here)
        BY <1>1, <2>2 DEF TextInv, ScrollbackIsOwn
      <3>3. HasGrown(Held.panes[Here].text, server.panes[Here].text)
        BY <1>1, <1>3, <2>2, HereHasGrown
      <3> QED
        BY <1>4, <3>1, <3>2, <3>3
    <2> QED
      BY <2>1, <2>2
  <1>6. reads'[p].content = ContentRead /\ \A q \in DOMAIN reads' : q = p \/
            (q \in DOMAIN reads /\ reads'[q] = reads[q])
    <2>1. read.content = ContentRead
      OBVIOUS
    <2> HIDE DEF read, p
    <2> QED
      BY <1>1, <2>1 DEF Put
  <1> HIDE DEF read
  <1>7. ReadsAreOwn'
    <2> SUFFICES ASSUME NEW q \in DOMAIN reads'
                 PROVE  IsReadOwn(q)'
      BY DEF ReadsAreOwn
    <2>1. Held' = Held /\ link' = link
      BY <1>1, <1>2 DEF Held
    <2>2. CASE q = p
      BY <1>5, <1>6, <2>1, <2>2 DEF IsReadOwn
    <2>3. CASE q # p
      <3>1. q \in DOMAIN reads /\ reads'[q] = reads[q]
        BY <1>6, <2>3
      <3>2. IsReadOwn(q)
        BY <1>4, <3>1 DEF TextInv, ReadsAreOwn
      <3> HIDE DEF p
      <3> QED
        BY <2>1, <3>1, <3>2 DEF IsReadOwn
    <2> QED
      BY <2>2, <2>3
  <1> HIDE DEF p
  <1>8. HeldIsPrinted'
    BY <1>1, <1>2 DEF TextInv, HeldIsPrinted, Held, IsFound, IsConnected
  <1>9. ServerIsPrinted' /\ LinkIsInStep' /\ PreviousIsOwn'
    BY <1>1 DEF TextInv, ServerIsPrinted, LinkIsInStep, IsInStep, PreviousIsOwn
  <1>10. IdIsLink' /\ ScrollbackIsOwn' /\ KeptIsOfLink'
    BY <1>1, <1>2, <1>3 DEF TextInv, IdIsLink, ScrollbackIsOwn, KeptIsOfLink
  <1>11. SavedIsOwn'
    BY <1>1, <1>2 DEF TextInv, SavedIsOwn, IsOwnSnapshot, IsInStep
  <1> QED
    BY <1>7, <1>8, <1>9, <1>10, <1>11 DEF TextInv

LEMMA FinishKeepsTexts ==
    ASSUME IInv, TextInv, UNCHANGED disk, NEW clock, Finish(clock)
    PROVE  TextInv'
  <1>1. /\ UNCHANGED <<given, server, link, previous, listed, reading>>
        /\ stage = "group" /\ stage' = "over"
    BY DEF Finish, Over
  <1>2. UNCHANGED <<looked, id, reads, saved>>
    BY <1>1 DEF listed, reading, disk
  <1>3. looked # None /\ link = Some(Held.id) /\ id = link
    <2>1. looked # None
      BY <1>1, FoldsAtLast
    <2> QED
      BY <1>1, <2>1 DEF IInv, LookedOnce, TextInv, IdIsLink, PaneStages
  <1>4. snapshot' # None => snapshot'[1].origin = id
    BY DEF Finish, Over, Some
  <1>5. KeptIsOfLink'
    BY <1>1, <1>3, <1>4 DEF KeptIsOfLink, Some, None
  <1>6. ScrollbackIsOwn' /\ stage' \notin PaneStages
    BY <1>1 DEF ScrollbackIsOwn, PaneStages
  <1> QED
    BY <1>1, <1>2, <1>5, <1>6, TextsWait

LEMMA CaptureKeepsTexts ==
    ASSUME IInv, TextInv, UNCHANGED disk, NEW clock, CaptureStep(clock)
    PROVE  TextInv'
  <1>1. CASE ConnectionLost
    <2>1. /\ UNCHANGED <<given, server, link, previous, listed, reading>>
          /\ snapshot' = None /\ stage' = "over"
      BY <1>1 DEF ConnectionLost, Fail, Over
    <2>2. UNCHANGED <<looked, id, reads, saved>>
      BY <2>1 DEF listed, reading, disk
    <2>3. KeptIsOfLink' /\ ScrollbackIsOwn' /\ stage' \notin PaneStages
      BY <2>1 DEF KeptIsOfLink, ScrollbackIsOwn, PaneStages
    <2> QED
      BY <2>1, <2>2, <2>3, TextsWait
  <1> QED
    BY <1>1, SurveyKeepsTexts, PaneStepKeepsTexts, VisibleKeepsTexts, FinishKeepsTexts,
       Zenon DEF CaptureStep

-----------------------------------------------------------------------------
(***************************************************************************)
(* What a save may reuse, and what it writes.                              *)
(***************************************************************************)
LEMMA PreviousIsOfServer ==
    ASSUME NEW r
    PROVE  PreviousOf(r).origin = r.origin
  <1> DEFINE kept == {p \in PanesOf(r) : p.content.is = "captured"}
             Content(k) == (CHOOSE p \in kept : p.id = k).content
             panes == [k \in {p.id : p \in kept} |->
                         [indicator |-> Content(k).indicator,
                          scrollback |-> Content(k).scrollback]]
  <1>1. PreviousOf(r) = [origin |-> r.origin, panes |-> panes]
    BY DEF PreviousOf
  <1> HIDE DEF panes
  <1> QED
    BY <1>1

\* The content that is remembered of each pane of a snapshot is the pane's.
LEMMA PreviousIsOfPanes ==
    ASSUME NEW r, NEW i \in DOMAIN PreviousOf(r).panes
    PROVE  \E p \in PanesOf(r) :
              /\ p.id = i /\ p.content.is = "captured"
              /\ PreviousOf(r).panes[i].scrollback = p.content.scrollback
              /\ PreviousOf(r).panes[i].indicator = p.content.indicator
  <1> DEFINE kept == {p \in PanesOf(r) : p.content.is = "captured"}
             ids == {p.id : p \in kept}
             Content(k) == (CHOOSE p \in kept : p.id = k).content
             Memory(k) == [indicator |-> Content(k).indicator,
                           scrollback |-> Content(k).scrollback]
  <1>1. PreviousOf(r) = [origin |-> r.origin, panes |-> [k \in ids |-> Memory(k)]]
    BY DEF PreviousOf
  <1>2. PreviousOf(r).panes = [k \in ids |-> Memory(k)]
    BY <1>1
  <1>3. i \in ids /\ PreviousOf(r).panes[i] = Memory(i)
    <2> HIDE DEF ids, Memory
    <2> QED
      BY <1>2
  <1>4. \E p \in kept : p.id = i
    BY <1>3
  <1> HIDE DEF kept
  <1>5. PICK p : p = CHOOSE q \in kept : q.id = i
    OBVIOUS
  <1>6. p \in kept /\ p.id = i
    BY <1>4, <1>5
  <1>7. Memory(i).scrollback = p.content.scrollback /\ Memory(i).indicator = p.content.indicator
    BY <1>5
  <1> HIDE DEF Memory
  <1> QED
    BY <1>3, <1>6, <1>7 DEF kept

\* A file the disk has changed the header of is never taken for one of the
\* server there is, unless it is.
LEMMA LatestIsOwn ==
    ASSUME IInv, DataInv, FoundInv, TextInv, IsReadable,
           PreviousOf(Latest.value).origin = Some(server.id),
           NEW i \in DOMAIN PreviousOf(Latest.value).panes
    PROVE  IsOwn(PreviousOf(Latest.value).panes[i].scrollback,
                 PreviousOf(Latest.value).panes[i].indicator, server.id.pid, i)
  <1> DEFINE s == saved[1]
             r == Latest.value
  <1>1. r.origin = Some(server.id) /\ r.origin # None /\ r.origin[1] = server.id
    <2>1. r.origin = Some(server.id)
      BY PreviousIsOfServer
    <2> QED
      BY <2>1 DEF Some, None
  <1>2. saved # None
    BY <1>1, FoundIsTheTree
  <1>3. IsOwnSnapshot(s) /\ IsSnapshotData(s)
    BY <1>2 DEF TextInv, SavedIsOwn, DataInv, FileIsSaved
  <1>4. PICK o, t : IsNear(o, s.origin) /\ r = Headed(s, o, t)
    BY <1>2, LatestIsSaved
  <1> HIDE DEF s, r
  <1>5. r.windows = s.windows /\ r.origin = o
    <2>1. PICK a, b, c, d, e, f, g : s = SnapshotOf(a, b, c, d, e, f, g)
      BY <1>3 DEF IsSnapshotData, SnapshotOf
    <2>2. r = SnapshotOf(a, b, c, d, e, o, t)
      BY <1>4, <2>1, SnapshotIsChanged
    <2> QED
      BY <2>1, <2>2 DEF SnapshotOf
  <1>6. s.origin[1] = server.id
    <2>1. IsInStep(s.origin[1]) /\ IsInStep(server.id)
      BY <1>3 DEF IsOwnSnapshot, TextInv, ServerIsPrinted
    <2>2. \/ o = s.origin
          \/ o[1].pid = s.origin[1].pid \/ o[1].start = s.origin[1].start
      BY <1>4 DEF IsNear
    <2>3. o[1] = server.id
      BY <1>1, <1>5
    <2> QED
      BY <2>1, <2>2, <2>3, InStepIsOne
  <1>7. PICK p \in PanesOf(r) :
           /\ p.id = i /\ p.content.is = "captured"
           /\ PreviousOf(r).panes[i].scrollback = p.content.scrollback
           /\ PreviousOf(r).panes[i].indicator = p.content.indicator
    BY PreviousIsOfPanes DEF r
  <1>8. p \in PanesOf(s)
    BY <1>5, <1>7 DEF PanesOf
  <1>9. IsOwn(p.content.scrollback, p.content.indicator, server.id.pid, i)
    BY <1>3, <1>6, <1>7, <1>8 DEF IsOwnSnapshot
  <1> QED
    BY <1>7, <1>9 DEF r

LEMMA RunSaveKeepsTexts ==
    ASSUME IInv, DataInv, FoundInv, TextInv, RunSave
    PROVE  TextInv'
  <1>1. /\ UNCHANGED <<given, server, listed, reading, snapshot, disk>>
        /\ stage = "idle" /\ stage' = "panes" /\ link' = Some(server.id)
        /\ previous' = IF IsReadable THEN PreviousOf(Latest.value) ELSE Nobody
    BY DEF RunSave, Begin
  <1>2. UNCHANGED <<looked, id, reads, saved>>
    BY <1>1 DEF listed, reading, disk
  <1>3. looked' = None /\ snapshot' = None
    BY <1>1, <1>2 DEF IInv, InStages, SnapshotAtLast
  <1>4. link' # None /\ link'[1] = server.id
    BY <1>1 DEF Some, None
  <1>5. ServerIsPrinted' /\ LinkIsInStep'
    BY <1>1, <1>4 DEF TextInv, ServerIsPrinted, LinkIsInStep, IsInStep
  <1>6. PreviousIsOwn'
    <2> SUFFICES ASSUME previous'.origin = Some(server.id), NEW p \in DOMAIN previous'.panes
                 PROVE  IsOwn(previous'.panes[p].scrollback, previous'.panes[p].indicator,
                              server.id.pid, p)
      BY <1>1, <1>4 DEF PreviousIsOwn
    <2>1. CASE IsReadable
      BY <1>1, <2>1, LatestIsOwn
    <2>2. CASE ~ IsReadable
      BY <1>1, <2>2 DEF Nobody, Some, None
    <2> QED
      BY <2>1, <2>2
  <1>7. HeldIsPrinted' /\ ReadsAreOwn' /\ KeptIsOfLink' /\ IdIsLink' /\ ScrollbackIsOwn'
    BY <1>1, <1>3 DEF HeldIsPrinted, ReadsAreOwn, KeptIsOfLink, IdIsLink, ScrollbackIsOwn,
                      PaneStages
  <1>8. SavedIsOwn'
    BY <1>1, <1>2 DEF TextInv, SavedIsOwn, IsOwnSnapshot, IsInStep
  <1> QED
    BY <1>5, <1>6, <1>7, <1>8 DEF TextInv

LEMMA IdleKeepsTexts ==
    ASSUME TextInv, Idle, saved' # None => IsOwnSnapshot(saved'[1])
    PROVE  TextInv'
  <1>1. /\ UNCHANGED <<given, server>> /\ stage' = "idle" /\ link' = None
        /\ looked' = None /\ snapshot' = None
    BY DEF Idle
  <1>2. ServerIsPrinted' /\ LinkIsInStep' /\ PreviousIsOwn'
    BY <1>1 DEF TextInv, ServerIsPrinted, LinkIsInStep, IsInStep, PreviousIsOwn
  <1>3. HeldIsPrinted' /\ ReadsAreOwn' /\ KeptIsOfLink' /\ IdIsLink' /\ ScrollbackIsOwn'
    BY <1>1 DEF HeldIsPrinted, ReadsAreOwn, KeptIsOfLink, IdIsLink, ScrollbackIsOwn,
                PaneStages
  <1>4. SavedIsOwn'
    BY <1>1 DEF SavedIsOwn, IsOwnSnapshot, IsInStep
  <1> QED
    BY <1>2, <1>3, <1>4 DEF TextInv

\* What is known of the panes of a snapshot that is kept.
LEMMA KeptIsRead ==
    ASSUME IInv, TextInv, NEW s \in Kept
    PROVE  /\ looked # None /\ link = Some(Held.id) /\ s.origin = link
           /\ \A p \in PanesOf(s) :
                 /\ p.id \in DOMAIN Held.panes /\ p.content = reads[p.id].content
                 /\ IsReadOwn(p.id)
  <1>1. /\ looked # None /\ IsServer(Held)
        /\ IdsOf(ListPanes(Held)) \subseteq DOMAIN reads
        /\ WindowsAre(s.windows, Held, reads)
    BY KeptIsFolded
  <1>2. link = Some(Held.id)
    BY <1>1 DEF IInv, LookedOnce
  <1>3. s.origin = link
    <2>1. ToSet(<<>>) = {}
      BY DEF ToSet
    <2>2. snapshot # None
      BY <2>1 DEF Kept, None
    <2>3. snapshot = Some(snapshot[1])
      BY <2>2 DEF IInv, SnapshotAtLast
    <2>4. \A x : ToSet(<<x>>) = {x}
      BY DEF ToSet
    <2>5. s = snapshot[1]
      BY <2>3, <2>4 DEF Kept, Some
    <2> QED
      BY <2>2, <2>5 DEF TextInv, KeptIsOfLink
  <1>4. ASSUME NEW p \in PanesOf(s)
        PROVE  /\ p.id \in DOMAIN Held.panes /\ p.content = reads[p.id].content
               /\ IsReadOwn(p.id)
    <2>1. p.id \in IdsOf(ListPanes(Held)) /\ p.content = reads[p.id].content
      BY <1>1 DEF WindowsAre, PanesOf
    <2>2. p.id \in DOMAIN reads /\ p.id \in DOMAIN Held.panes
      BY <1>1, <2>1, ListedPanes
    <2>3. IsReadOwn(p.id)
      BY <1>1, <2>2 DEF TextInv, ReadsAreOwn
    <2> QED
      BY <2>1, <2>2, <2>3
  <1> QED
    BY <1>1, <1>2, <1>3, <1>4

LEMMA PublishKeepsTexts ==
    ASSUME IInv, TextInv, Publish
    PROVE  TextInv'
  <1> DEFINE s == snapshot[1]
  <1>1. Idle /\ snapshot # None /\ saved' = snapshot /\ UNCHANGED given
    BY DEF Publish, Idle
  <1>2. s \in Kept
    <2>1. snapshot = Some(s)
      BY <1>1 DEF IInv, SnapshotAtLast
    <2>2. \A x : ToSet(<<x>>) = {x}
      BY DEF ToSet
    <2> HIDE DEF s
    <2> QED
      BY <2>1, <2>2 DEF Kept, Some
  <1> HIDE DEF s
  <1>3. /\ looked # None /\ link = Some(Held.id) /\ s.origin = link
        /\ \A p \in PanesOf(s) : p.content = reads[p.id].content /\ IsReadOwn(p.id)
    BY <1>2, KeptIsRead
  <1>4. link # None /\ IsInStep(link[1])
    BY <1>3 DEF Some, None, TextInv, LinkIsInStep
  <1>5. \A p \in PanesOf(s) : p.content.is = "captured" =>
           IsOwn(p.content.scrollback, p.content.indicator, s.origin[1].pid, p.id)
    BY <1>3 DEF IsReadOwn
  <1>6. IsOwnSnapshot(s)
    BY <1>3, <1>4, <1>5 DEF IsOwnSnapshot
  <1> QED
    BY <1>1, <1>6, IdleKeepsTexts DEF s

LEMMA TextInvIsInductive ==
    IInv /\ DataInv /\ FoundInv /\ TextInv /\ [Next]_vars => TextInv'
  <1> SUFFICES ASSUME IInv, DataInv, FoundInv, TextInv, [Next]_vars
               PROVE  TextInv'
    OBVIOUS
  <1>1. ASSUME UNCHANGED <<given, server, capturing, saved>>
        PROVE  TextInv'
    <2>1. UNCHANGED <<stage, link, previous, looked, id, todo, pane, reads, snapshot>>
      BY <1>1 DEF capturing, listed, reading
    <2>2. ScrollbackIsOwn' /\ KeptIsOfLink'
      BY <2>1 DEF TextInv, ScrollbackIsOwn, Here, KeptIsOfLink
    <2> QED
      BY <1>1, <2>1, <2>2, TextsWait
  <1>2. CASE Load
    BY <1>1, <1>2 DEF Load
  <1>3. CASE NotSaved
    <2>1. Idle /\ UNCHANGED saved
      BY <1>3 DEF NotSaved, disk
    <2> QED
      BY <2>1, IdleKeepsTexts DEF TextInv, SavedIsOwn
  <1>4. CASE Damage
    BY <1>1, <1>4 DEF Damage, May
  <1>5. CASE UNCHANGED vars
    BY <1>1, <1>5 DEF vars, disk
  <1> QED
    BY <1>2, <1>3, <1>4, <1>5, RunSaveKeepsTexts, PublishKeepsTexts, UserKeepsTexts,
       CaptureKeepsTexts DEF Next

LEMMA TextsAtFirst ==
    Init => TextInv
  <1> SUFFICES ASSUME Init
               PROVE  TextInv
    OBVIOUS
  <1>1. /\ given \in Scenarios /\ server = given.server /\ stage = "idle"
        /\ looked = None /\ link = None /\ snapshot = None /\ saved = None
    BY DEF Init, InitCapture, NoCapture
  <1>2. IsServer(server) /\ ArePrinted(server)
    BY <1>1, ScenarioAssumption
  <1>3. ServerIsPrinted
    BY <1>1, <1>2 DEF ServerIsPrinted, IsInStep, IsServer
  <1> QED
    BY <1>1, <1>3 DEF TextInv, LinkIsInStep, HeldIsPrinted, PreviousIsOwn, IdIsLink,
                      ScrollbackIsOwn, ReadsAreOwn, KeptIsOfLink, SavedIsOwn, PaneStages

LEMMA TextInvHolds ==
    Spec => [](IInv /\ TextInv)
  <1>1. Init => IInv /\ DataInv /\ FoundInv /\ TextInv
    <2>1. Init => FoundInv
      BY DEF Init, FoundInv, FileIsFound
    <2> QED
      BY <2>1, InitHolds, DataAtFirst, TextsAtFirst
  <1>2. (IInv /\ DataInv /\ FoundInv /\ TextInv) /\ [Next]_vars
            => (IInv /\ DataInv /\ FoundInv /\ TextInv)'
    BY IInvIsInductive, DataInvIsInductive, FoundInvIsInductive, TextInvIsInductive
  <1> QED
    BY <1>1, <1>2, PTL DEF Spec

\* The text a capture keeps for a pane was printed in that pane of that server,
\* whether it was read or taken from what an earlier save kept, and whatever
\* the disk did to the file that said so (content.rs `Previous::reusable`,
\* `from_snapshot`).  It is no older than the listing where the history had
\* lost no line by then; of a history trimmed or cleared, whose indicator may
\* come again, nothing is said.
THEOREM TextIsOfItsPane ==
    Spec => []ScrollbackIsOfItsPane
  <1>1. IInv /\ TextInv => ScrollbackIsOfItsPane
    <2> SUFFICES ASSUME IInv, TextInv, NEW s \in Kept, NEW p \in PanesOf(s),
                        p.content.is = "captured"
                 PROVE  LET then == looked[1].panes[p.id].text
                            old == p.content.scrollback
                            new == p.content.visible
                        IN  /\ <<old.server, old.pane>> = <<then.server, then.pane>>
                            /\ then.first = 0 => old.last >= then.last
                            /\ new.clears >= then.clears /\ new.last >= then.last
                            /\ new.drawn >= then.drawn
      BY DEF ScrollbackIsOfItsPane
    <2> DEFINE then == Held.panes[p.id].text
               old == p.content.scrollback
               new == p.content.visible
    <2>1. /\ looked # None /\ link = Some(Held.id) /\ p.id \in DOMAIN Held.panes
          /\ p.content = reads[p.id].content /\ IsReadOwn(p.id)
      BY KeptIsRead
    <2>2. IsTextOf(then, Held.id.pid, p.id) /\ link[1] = Held.id
      BY <2>1 DEF TextInv, HeldIsPrinted, ArePrinted, Some
    <2>3. /\ p.content.indicator = IndicatorOf(then)
          /\ IsOwn(old, IndicatorOf(then), Held.id.pid, p.id)
          /\ HasGrown(then, new)
      BY <2>1, <2>2 DEF IsReadOwn
    <2> HIDE DEF then, old, new
    <2>4. then.server = Held.id.pid /\ then.pane = p.id
          /\ (then.first = 0 => IndicatorOf(then) = then.last)
      BY <2>2, TextFacts
    <2>5. /\ old.server = then.server /\ old.pane = then.pane
          /\ then.first = 0 => old.last >= then.last
          /\ new.clears >= then.clears /\ new.last >= then.last /\ new.drawn >= then.drawn
      BY <2>3, <2>4 DEF IsOwn, HasGrown
    <2> QED
      BY <2>5 DEF then, old, new, Held
  <1> QED
    BY <1>1, TextInvHolds, PTL
=============================================================================
