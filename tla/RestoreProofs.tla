----------------------------- MODULE RestoreProofs -----------------------------
(***************************************************************************)
(* What holds of the restores of any snapshots, by any number of restorers *)
(* on one server, beside a user who opens and closes windows, wherever     *)
(* they are cut: see Restore.  It rests on what `Plan` returns, for every  *)
(* snapshot and every server: the order of its steps.  `Plan` is built of  *)
(* recursive functions; what they compute is proved by induction over the  *)
(* natural numbers, as that every set of them has a least element.         *)
(***************************************************************************)
EXTENDS Restore, FiniteSetTheorems, SequenceTheorems, WellFoundedInduction, TLAPS

-----------------------------------------------------------------------------
\* A set of natural numbers has a least element.
LEMMA LeastElement ==
    ASSUME NEW S \in SUBSET Nat, S # {}
    PROVE  \E m \in S : \A n \in S : m <= n
  <1> DEFINE R == OpToRel(<, Nat)
  <1>1. IsWellFoundedOn(R, Nat)
    BY NatLessThanWellFounded
  <1>2. \A m, n \in Nat : <<n, m>> \in R <=> n < m
    BY DEF OpToRel
  <1> HIDE DEF R
  <1>3. PICK m \in S : \A n \in S : ~ <<n, m>> \in R
    BY <1>1, WFMin
  <1>4. ASSUME NEW n \in S
        PROVE  m <= n
    <2>1. m \in Nat /\ n \in Nat /\ ~ n < m
      BY <1>2, <1>3
    <2> QED
      BY <2>1
  <1> QED
    BY <1>4

\* Induction: a set with 0 and the successors of its members is all of Nat.
LEMMA Induction ==
    ASSUME NEW S \in SUBSET Nat, 0 \in S, \A n \in S : n + 1 \in S
    PROVE  S = Nat
  <1> SUFFICES ASSUME Nat \ S # {}
               PROVE  FALSE
    OBVIOUS
  <1> DEFINE T == Nat \ S
  <1>1. T \in SUBSET Nat /\ T # {}
    OBVIOUS
  <1> HIDE DEF T
  <1>2. PICK m \in T : \A n \in T : m <= n
    BY <1>1, LeastElement
  <1>3. m \in Nat /\ m # 0
    BY <1>1, <1>2 DEF T
  <1>4. m - 1 \in S
    BY <1>2, <1>3 DEF T
  <1> QED
    BY <1>2, <1>3, <1>4 DEF T

\* From a start in D, steps that stay in D can be taken one after another.
Iterates(n, D, start, F) ==
    \E f \in [0..n -> D] : f[0] = start /\ \A k \in 1..n : f[k] = F[k][f[k - 1]]

\* There are n steps of a function on D, whatever the functions.
LEMMA Iteration ==
    ASSUME NEW n \in Nat, NEW D, NEW start \in D, NEW F \in [1..n -> [D -> D]]
    PROVE  Iterates(n, D, start, F)
  <1> DEFINE Runs(m) == \E f \in [0..m -> D] :
                          f[0] = start /\ \A k \in 1..m : f[k] = F[k][f[k - 1]]
             S == {m \in Nat : m <= n => Runs(m)}
  <1>1. 0 \in S
    <2> DEFINE f == [k \in 0..0 |-> start]
    <2>1. f \in [0..0 -> D] /\ f[0] = start /\ \A k \in 1..0 : FALSE
      OBVIOUS
    <2> HIDE DEF f
    <2>2. Runs(0)
      BY <2>1
    <2> QED
      BY <2>2
  <1>2. ASSUME NEW m \in S, m + 1 <= n
        PROVE  Runs(m + 1)
    <2>1. m \in Nat /\ m <= n /\ m + 1 \in 1..n
      BY <1>2
    <2>2. PICK f \in [0..m -> D] : f[0] = start /\ \A k \in 1..m : f[k] = F[k][f[k - 1]]
      BY <2>1
    <2> DEFINE g == [k \in 0 .. m + 1 |-> IF k = m + 1 THEN F[m + 1][f[m]] ELSE f[k]]
    <2>3. g \in [0 .. m + 1 -> D]
      <3>1. f[m] \in D
        BY <2>1
      <3>2. F[m + 1][f[m]] \in D
        BY <2>1, <3>1
      <3>3. ASSUME NEW k \in 0 .. m + 1, k # m + 1
            PROVE  f[k] \in D
        <4>1. k \in 0..m
          BY <2>1, <3>3
        <4> QED
          BY <4>1
      <3> QED
        BY <3>2, <3>3
    <2>4. g[0] = start
      BY <2>1, <2>2
    <2>5. ASSUME NEW k \in 1 .. m + 1
          PROVE  g[k] = F[k][g[k - 1]]
      <3>1. k - 1 \in 0..m /\ k \in 0 .. m + 1 /\ k - 1 \in 0 .. m + 1 /\ k - 1 # m + 1
        BY <2>1
      <3>2. g[k - 1] = f[k - 1]
        BY <3>1
      <3>3. CASE k = m + 1
        <4>1. g[k] = F[k][f[m]] /\ m = k - 1
          BY <2>1, <3>1, <3>3
        <4> QED
          BY <3>2, <4>1
      <3>4. CASE k # m + 1
        <4>1. k \in 1..m /\ g[k] = f[k]
          BY <2>1, <3>1, <3>4
        <4> HIDE DEF g
        <4> QED
          BY <2>2, <3>2, <4>1
      <3> QED
        BY <3>3, <3>4
    <2> HIDE DEF g
    <2> QED
      BY <2>3, <2>4, <2>5
  <1>3. ASSUME NEW m \in S
        PROVE  m + 1 \in S
    <2>1. m \in Nat /\ m + 1 \in Nat
      OBVIOUS
    <2>2. m + 1 <= n => Runs(m + 1)
      BY <1>2
    <2> HIDE DEF Runs
    <2> QED
      BY <2>1, <2>2
  <1>4. S = Nat
    <2>1. S \in SUBSET Nat
      OBVIOUS
    <2> HIDE DEF S
    <2> QED
      BY <1>1, <1>3, <2>1, Induction
  <1>5. Runs(n)
    <2> HIDE DEF Runs
    <2> QED
      BY <1>4
  <1> QED
    BY <1>5 DEF Iterates

\* Whatever takes such steps from there stays in D.
TakesSteps(f, n, D, start, F) ==
    f[0] = start /\ \A k \in 1..n : f[k - 1] \in D => f[k] = F[k][f[k - 1]]

\* Whatever takes such steps from a member of D stays in D.
LEMMA IterationStays ==
    ASSUME NEW n \in Nat, NEW D, NEW start \in D, NEW F \in [1..n -> [D -> D]],
           NEW f, TakesSteps(f, n, D, start, F)
    PROVE  \A k \in 0..n : f[k] \in D
  <1> USE DEF TakesSteps
  <1> DEFINE S == {m \in Nat : m <= n => f[m] \in D}
  <1>1. 0 \in S
    OBVIOUS
  <1>2. ASSUME NEW m \in S
        PROVE  m + 1 \in S
    <2> SUFFICES ASSUME m + 1 <= n
                 PROVE  f[m + 1] \in D
      OBVIOUS
    <2>1. m \in Nat /\ m + 1 \in 1..n /\ (m + 1) - 1 = m /\ f[m] \in D
      OBVIOUS
    <2>2. f[m + 1] = F[m + 1][f[m]]
      BY <2>1
    <2> QED
      BY <2>1, <2>2
  <1>3. S = Nat
    <2>1. S \in SUBSET Nat
      OBVIOUS
    <2> HIDE DEF S
    <2> QED
      BY <1>1, <1>2, <2>1, Induction
  <1> QED
    BY <1>3

\* A set of numbers that is not empty has a least one.
LEMMA MinIsLeast ==
    ASSUME NEW S \in SUBSET Nat, S # {}
    PROVE  Min(S) \in S /\ \A n \in S : Min(S) <= n
  BY LeastElement DEF Min

\* The indices in order are those indices: as many have fewer than k below
\* them as there are numbers up to k.
LEMMA SortedFacts ==
    ASSUME NEW S \in SUBSET Nat, IsFiniteSet(S)
    PROVE  /\ Cardinality(S) \in Nat
           /\ Sorted(S) \in [1 .. Cardinality(S) -> S]
  <1> DEFINE n == Cardinality(S)
             Below(i) == {j \in S : j < i}
             rank == [i \in S |-> Cardinality(Below(i))]
  <1>1. n \in Nat
    BY FS_CardinalityType
  <1>2. ASSUME NEW i \in S
        PROVE  IsFiniteSet(Below(i)) /\ Cardinality(Below(i)) \in 0 .. n - 1
    <2>1. Below(i) \in SUBSET S /\ Below(i) # S
      OBVIOUS
    <2>2. IsFiniteSet(Below(i)) /\ Cardinality(Below(i)) <= n /\ Cardinality(Below(i)) # n
      BY <2>1, FS_Subset
    <2>3. Cardinality(Below(i)) \in Nat
      BY <2>2, FS_CardinalityType
    <2> QED
      BY <1>1, <2>2, <2>3
  <1>3. ASSUME NEW i \in S, NEW j \in S, i < j
        PROVE  rank[i] < rank[j]
    <2>1. i \notin Below(i) /\ Below(i) \cup {i} \in SUBSET Below(j)
      <3>1. ~ i < i /\ \A h \in S : h < i => h < j
        BY <1>3
      <3> QED
        BY <1>3, <3>1
    <2>2. Cardinality(Below(i) \cup {i}) = Cardinality(Below(i)) + 1
      BY <1>2, <2>1, FS_AddElement
    <2>3. Cardinality(Below(i) \cup {i}) <= Cardinality(Below(j))
      BY <1>2, <2>1, FS_Subset
    <2>4. Cardinality(Below(i)) \in Nat /\ Cardinality(Below(j)) \in Nat
      BY <1>2
    <2> QED
      BY <2>2, <2>3, <2>4
  <1>4. rank \in Injection(S, 0 .. n - 1)
    <2>1. rank \in [S -> 0 .. n - 1]
      BY <1>2
    <2>2. ASSUME NEW i \in S, NEW j \in S, rank[i] = rank[j]
          PROVE  i = j
      <3>1. rank[i] \in Nat
        BY <2>1
      <3> HIDE DEF rank
      <3>2. ~ i < j /\ ~ j < i
        BY <1>3, <2>2, <3>1
      <3> QED
        BY <3>2
    <2> HIDE DEF rank
    <2> QED
      BY <2>1, <2>2 DEF Injection, IsInjective
  <1>5. IsFiniteSet(0 .. n - 1) /\ Cardinality(0 .. n - 1) = n
    <2> HIDE DEF n
    <2>1. 0 \in Int /\ n - 1 \in Int
      BY <1>1
    <2>2. Cardinality(0 .. n - 1) = IF 0 > n - 1 THEN 0 ELSE n - 1 - 0 + 1
      BY <2>1, FS_Interval
    <2> QED
      BY <1>1, <2>1, <2>2, FS_Interval
  <1>6. rank \in Surjection(S, 0 .. n - 1)
    <2> HIDE DEF rank, n
    <2>1. Cardinality(S) = Cardinality(0 .. n - 1)
      BY <1>5 DEF n
    <2> QED
      BY <1>4, <1>5, <2>1, FS_Injection
  <1>7. ASSUME NEW k \in 1..n
        PROVE  \E i \in S : Cardinality(Below(i)) = k - 1
    <2>1. k - 1 \in 0 .. n - 1
      BY <1>1
    <2>2. \E i \in S : rank[i] = k - 1
      <3> HIDE DEF rank
      <3> QED
        BY <1>6, <2>1 DEF Surjection
    <2> QED
      BY <2>2
  <1> QED
    BY <1>1, <1>7 DEF Sorted

-----------------------------------------------------------------------------
\* What `Plan` takes for granted of a captured server.
IsServer(live, snap) ==
    /\ DOMAIN live.made \subseteq Nat \ {0}
    /\ \A name \in DOMAIN snap.links :
          DOMAIN live.links[name] \in SUBSET Nat /\ IsFiniteSet(DOMAIN live.links[name])

\* The live windows a plan may link: those stamped, and those of the server
\* that was saved.
KnownOf(live, snap) ==
    {y \in DOMAIN live.made : live.made[y] # 0 \/ y \in DOMAIN snap.panes}

\* What is present is known, and what is not has stamped no window.
LEMMA PresentFacts ==
    ASSUME NEW snap, NEW live, IsSnapshot(snap), IsServer(live, snap),
           NEW w \in DOMAIN snap.panes
    PROVE  /\ Present(live, w) # 0 => Present(live, w) \in KnownOf(live, snap)
           /\ Present(live, w) = 0 => \A y \in DOMAIN live.made : live.made[y] # w
  <1> DEFINE them == {x \in DOMAIN live.made :
                         live.made[x] = w \/ (live.sameServer /\ x = w)}
  <1>1. Present(live, w) = IF them = {} THEN 0 ELSE Min(them)
    BY DEF Present
  <1>2. them \in SUBSET Nat /\ 0 \notin them
    BY DEF IsServer
  <1>3. w # 0
    BY DEF IsSnapshot
  <1>4. them \in SUBSET KnownOf(live, snap)
    BY <1>3 DEF KnownOf
  <1>5. them = {} => \A y \in DOMAIN live.made : live.made[y] # w
    OBVIOUS
  <1> HIDE DEF them
  <1>6. them # {} => Min(them) \in them
    BY <1>2, MinIsLeast
  <1> QED
    BY <1>1, <1>2, <1>4, <1>5, <1>6

\* There is always an index left.
LEMMA FreeFromIsIndex ==
    ASSUME NEW from \in Nat, NEW taken, IsFiniteSet(taken)
    PROVE  FreeFrom(from, taken) \in Nat
  <1> DEFINE n == Cardinality(taken)
             range == from .. from + n
  <1>1. n \in Nat
    BY FS_CardinalityType
  <1>2. range \in SUBSET Nat
    BY <1>1
  <1>3. Cardinality(range) = n + 1
    <2> HIDE DEF n
    <2>1. from \in Int /\ from + n \in Int /\ ~ from > from + n
      BY <1>1
    <2>2. Cardinality(from .. from + n)
            = IF from > from + n THEN 0 ELSE (from + n) - from + 1
      BY <2>1, FS_Interval
    <2> QED
      BY <1>1, <2>1, <2>2
  <1> HIDE DEF range
  <1>4. range \ taken # {}
    <2> SUFFICES ASSUME range \in SUBSET taken
                 PROVE  FALSE
      OBVIOUS
    <2>1. Cardinality(range) <= n
      BY FS_Subset
    <2> HIDE DEF n
    <2> QED
      BY <1>1, <1>3, <2>1
  <1>5. Min(range \ taken) \in range \ taken
    <2>1. range \ taken \in SUBSET Nat
      BY <1>2
    <2> QED
      BY <1>4, <2>1, MinIsLeast
  <1> QED
    BY <1>2, <1>5 DEF FreeFrom, range

\* A link to make: where, and to which saved window.
Links(snap) == [at : Nat, window : DOMAIN snap.panes]

\* What is lacking is placed, each link somewhere; a session the server does
\* not have lacks a window at least.
LEMMA PlacedFacts ==
    ASSUME NEW snap, NEW live, IsSnapshot(snap), IsServer(live, snap),
           NEW name \in DOMAIN snap.links
    PROVE  /\ Placed(snap, live, name) \in Seq(Links(snap))
           /\ live.links[name] = << >> => Placed(snap, live, name) # <<>>
  <1> DEFINE S == Lacking(snap, live, name)
             lacking == Sorted(S)
             Place(done, i) ==
                LET at == IF i \in DOMAIN live.links[name]
                          THEN FreeFrom(i, done.taken) ELSE i
                IN  [links |-> Append(done.links,
                                  [at |-> at, window |-> snap.links[name][i]]),
                     taken |-> done.taken \cup {at}]
             n == Len(lacking)
             start == [links |-> <<>>, taken |-> Taken(snap, live, name)]
             placing[k \in 0..n] ==
                IF k = 0 THEN start ELSE Place(placing[k - 1], lacking[k])
  <1>1. Placed(snap, live, name) = placing[n].links
    BY DEF Placed
  <1>2. /\ S \in SUBSET Nat /\ IsFiniteSet(S) /\ S \in SUBSET DOMAIN snap.links[name]
        /\ live.links[name] = << >> => S = DOMAIN snap.links[name]
    <2>1. S \in SUBSET DOMAIN snap.links[name]
      BY DEF Lacking
    <2>2. ASSUME live.links[name] = << >>
          PROVE  S = DOMAIN snap.links[name]
      <3>1. DOMAIN live.links[name] = {}
        BY <2>2
      <3> QED
        <4> DEFINE wanted == snap.links[name]
                   held == live.links[name]
                   Exact(i) == i \in DOMAIN held /\ held[i] = Present(live, wanted[i])
                   Earlier(i) == {j \in DOMAIN wanted :
                                     j < i /\ wanted[j] = wanted[i] /\ ~ Exact(j)}
                   Spare(i) == {j \in DOMAIN held :
                                   /\ held[j] = Present(live, wanted[i])
                                   /\ ~ (j \in DOMAIN wanted /\ Exact(j))}
        <4>1. ASSUME NEW i \in DOMAIN wanted
              PROVE  ~ Exact(i) /\ Cardinality(Earlier(i)) >= Cardinality(Spare(i))
          <5>1. ~ Exact(i) /\ Spare(i) = {}
            BY <3>1
          <5>2. Earlier(i) \in SUBSET DOMAIN wanted /\ IsFiniteSet(DOMAIN wanted)
            BY DEF IsSnapshot
          <5>3. Cardinality(Earlier(i)) \in Nat
            BY <5>2, FS_Subset, FS_CardinalityType
          <5>4. Cardinality(Spare(i)) = 0
            BY <5>1, FS_EmptySet
          <5> QED
            BY <5>1, <5>3, <5>4
        <4>2. S = {i \in DOMAIN wanted :
                     ~ Exact(i) /\ Cardinality(Earlier(i)) >= Cardinality(Spare(i))}
          BY DEF Lacking
        <4> HIDE DEF Exact, Earlier, Spare, S
        <4> QED
          BY <4>1, <4>2
    <2> HIDE DEF S
    <2>3. DOMAIN snap.links[name] \in SUBSET Nat
          /\ IsFiniteSet(DOMAIN snap.links[name])
      BY DEF IsSnapshot
    <2>4. IsFiniteSet(S)
      BY <2>1, <2>3, FS_Subset
    <2> QED
      BY <2>1, <2>2, <2>3, <2>4
  <1> HIDE DEF S
  <1>3. /\ n \in Nat /\ n = Cardinality(S)
        /\ \A k \in 1..n : lacking[k] \in S
    BY <1>2, SortedFacts
  <1> HIDE DEF lacking, n, Place, start
  <1> DEFINE D == [links : Seq(Links(snap)), taken : {t \in SUBSET Nat : IsFiniteSet(t)}]
             F == [k \in 1..n |-> [d \in D |-> Place(d, lacking[k])]]
  <1>4. start \in D
    <2>1. IsFiniteSet(DOMAIN live.links[name]) /\ DOMAIN live.links[name] \in SUBSET Nat
          /\ IsFiniteSet(DOMAIN snap.links[name])
          /\ DOMAIN snap.links[name] \in SUBSET Nat
      BY DEF IsServer, IsSnapshot
    <2>2. IsFiniteSet(Taken(snap, live, name)) /\ Taken(snap, live, name) \in SUBSET Nat
      BY <2>1, FS_Union DEF Taken
    <2> QED
      BY <2>2 DEF start
  <1>5. ASSUME NEW k \in 1..n, NEW d \in D
        PROVE  Place(d, lacking[k]) \in D /\ Place(d, lacking[k]).links # <<>>
    <2> DEFINE i == lacking[k]
               at == IF i \in DOMAIN live.links[name] THEN FreeFrom(i, d.taken) ELSE i
               link == [at |-> at, window |-> snap.links[name][i]]
    <2>1. i \in Nat /\ i \in DOMAIN snap.links[name]
      BY <1>2, <1>3
    <2>2. snap.links[name][i] \in DOMAIN snap.panes
      BY <2>1 DEF IsSnapshot, Range
    <2>3. at \in Nat
      BY <2>1, FreeFromIsIndex
    <2> HIDE DEF at
    <2>4. link \in Links(snap)
      BY <2>2, <2>3 DEF Links
    <2>5. IsFiniteSet(d.taken \cup {at}) /\ d.taken \cup {at} \in SUBSET Nat
      BY <2>3, FS_AddElement
    <2>6. Place(d, i) = [links |-> Append(d.links, link), taken |-> d.taken \cup {at}]
      BY DEF Place, at
    <2> HIDE DEF i, link
    <2>7. Append(d.links, link) \in Seq(Links(snap)) /\ Append(d.links, link) # <<>>
      BY <2>4, AppendProperties
    <2> QED
      BY <2>5, <2>6, <2>7 DEF i
  <1> HIDE DEF Place, start
  <1>6. F \in [1..n -> [D -> D]]
    <2> HIDE DEF D
    <2> QED
      BY <1>5
  <1>7. PICK f \in [0..n -> D] : f[0] = start /\ \A k \in 1..n : f[k] = F[k][f[k - 1]]
    <2> HIDE DEF D, F, placing, lacking, n
    <2>1. n \in Nat
      BY <1>3
    <2>2. Iterates(n, D, start, F)
      BY <1>4, <1>6, <2>1, Iteration
    <2> QED
      BY <2>2 DEF Iterates
  <1>8. f = [k \in 0..n |-> IF k = 0 THEN start ELSE Place(f[k - 1], lacking[k])]
    <2> HIDE DEF D
    <2>1. ASSUME NEW k \in 0..n, k # 0
          PROVE  f[k] = Place(f[k - 1], lacking[k])
      <3>1. k \in 1..n /\ k - 1 \in 0..n
        BY <1>3, <2>1
      <3>2. F[k][f[k - 1]] = Place(f[k - 1], lacking[k])
        BY <1>7, <3>1
      <3> QED
        BY <1>7, <3>1, <3>2
    <2> QED
      BY <1>7, <2>1
  <1>9. placing = [k \in 0..n |-> IF k = 0 THEN start ELSE Place(placing[k - 1], lacking[k])]
    BY <1>8
  <1> HIDE DEF placing
  <1>10. \A k \in 0..n : placing[k] \in D
    <2> HIDE DEF D
    <2>1. placing[0] = start
      BY <1>3, <1>9
    <2>2. ASSUME NEW k \in 1..n, placing[k - 1] \in D
          PROVE  placing[k] = F[k][placing[k - 1]]
      <3>1. placing[k] = Place(placing[k - 1], lacking[k])
        BY <1>3, <1>9, <2>2
      <3> QED
        BY <2>2, <3>1
    <2>3. n \in Nat
      BY <1>3
    <2> HIDE DEF F, n
    <2>4. TakesSteps(placing, n, D, start, F)
      BY <2>1, <2>2 DEF TakesSteps
    <2> QED
      BY <1>4, <1>6, <2>3, <2>4, IterationStays
  <1>11. Placed(snap, live, name) \in Seq(Links(snap))
    BY <1>1, <1>3, <1>10
  <1>12. ASSUME live.links[name] = << >>
         PROVE  placing[n].links # <<>>
    <2>1. DOMAIN snap.links[name] # {}
      BY DEF IsSnapshot
    <2>2. n \in 1..n
      BY <1>2, <1>3, <1>12, <2>1, FS_EmptySet
    <2>3. n - 1 \in 0..n
      BY <2>2
    <2>4. placing[n] = Place(placing[n - 1], lacking[n])
      BY <1>9, <2>2
    <2> HIDE DEF D
    <2> QED
      BY <1>5, <1>10, <2>2, <2>3, <2>4
  <1> QED
    BY <1>1, <1>11, <1>12

-----------------------------------------------------------------------------
\* The order of a plan's steps.

Refs == Nat \ {0}

\* The steps there are, `known` being the live windows they may link.
Steps(snap, known) ==
    LET names == DOMAIN snap.links
    IN  [op : {"create"}, session : names, window : Refs]
        \cup [op : {"move", "new"}, session : names, at : Nat, window : Refs]
        \cup [op : {"link"}, session : names, at : Nat,
              source : [live : known] \cup [built : Refs], replacing : Nat]
        \cup [op : {"split", "layout", "fill"}, window : Refs]
        \cup [op : {"stamp"}, window : Refs, saved : DOMAIN snap.panes]
        \cup [op : {"switch", "mark"}, session : names]
        \cup [op : {"select"}, session : names, at : Nat]
        \cup [op : {"kill", "touch"}]

\* The references a step gives a window, and those it takes one by.
Binds(step) == IF step.op \in {"create", "new"} THEN {step.window} ELSE {}

Uses(step) ==
    IF step.op \in {"move", "split", "layout", "fill", "stamp"} THEN {step.window}
    ELSE IF step.op = "link" /\ "built" \in DOMAIN step.source THEN {step.source.built}
    ELSE {}

BoundBy(S) == UNION {Binds(S[k]) : k \in DOMAIN S}

Stamps(S) == {k \in DOMAIN S : S[k].op = "stamp"}

StampedBy(S) == {S[k].window : k \in Stamps(S)}

SavedBy(S) == {S[k].saved : k \in Stamps(S)}

\* How many steps furnish the window a step stamps, and the one that comes d
\* before the stamp.
Width(snap, stamp) == snap.panes[stamp.saved] + 1

Before(d, x) ==
    [op |-> IF d = 1 THEN "fill" ELSE IF d = 2 THEN "layout" ELSE "split",
     window |-> x]

\* A reference is used once bound, given those already bound, and bound once.
BoundFirst(S, bound) ==
    \A k \in DOMAIN S : \A x \in Uses(S[k]) :
        x \in bound \/ \E j \in 1 .. k - 1 : x \in Binds(S[j])

BoundOnce(S, bound) ==
    \A k \in DOMAIN S : \A x \in Binds(S[k]) :
        x \notin bound /\ \A j \in DOMAIN S : x \in Binds(S[j]) => j = k

\* The window a session is made with moves before anything else is done.
MovedAtOnce(S) ==
    \A k \in DOMAIN S : S[k].op = "move" /\ k > 1 =>
        /\ S[k - 1].op = "create"
        /\ S[k - 1].window = S[k].window /\ S[k - 1].session = S[k].session

\* A stamp comes right after all that furnishes its window, which is bound
\* before that and stamped this once; so is the saved window.
StampedLast(S, snap) ==
    \A k \in Stamps(S) :
        /\ \A d \in 1 .. Width(snap, S[k]) : d < k => S[k - d] = Before(d, S[k].window)
        /\ \A j \in DOMAIN S : S[k].window \in Binds(S[j]) => j + Width(snap, S[k]) < k
        /\ \A j \in Stamps(S) :
              S[j].window = S[k].window \/ S[j].saved = S[k].saved => j = k

\* Whatever furnishes a window is followed by its stamp.
StampedAll(S, snap) ==
    \A j \in DOMAIN S : S[j].op \in {"split", "layout", "fill"} =>
        \E k \in Stamps(S) :
            S[k].window = S[j].window /\ k - j \in 1 .. Width(snap, S[k])

Sound(S, bound, snap, known) ==
    /\ S \in Seq(Steps(snap, known))
    /\ BoundFirst(S, bound) /\ BoundOnce(S, bound) /\ MovedAtOnce(S)
    /\ StampedLast(S, snap) /\ StampedAll(S, snap)

\* What may come after S: it begins with no move, furnishes a window wholly or
\* not at all, and stamps no window of S.
Continues(T, S, snap, known) ==
    /\ Sound(T, BoundBy(S), snap, known)
    /\ T # <<>> => T[1].op # "move"
    /\ \A k \in Stamps(T) : /\ Width(snap, T[k]) < k
                            /\ T[k].window \notin StampedBy(S)
                            /\ T[k].saved \notin SavedBy(S)

\* A link that takes the place of a window.
Replacing(step) == step.op = "link" /\ step.replacing # 0

\* What a plan does between placing a placeholder and linking over it.
Aside == {"switch", "kill"}

\* The steps end with window p going to an index of a session, where it stays.
Ready(S, session, at, p) ==
    \E j \in DOMAIN S :
        /\ S[j] = [op |-> "move", session |-> session, at |-> at, window |-> p]
        /\ \A i \in j + 1 .. Len(S) : S[i].op \in Aside

\* A link takes the place only of a window the plan has just put there.
ReplacesOwn(S) ==
    \A k \in DOMAIN S : Replacing(S[k]) =>
        \E j \in 1 .. k - 1 :
            /\ S[j] = [op |-> "move", session |-> S[k].session, at |-> S[k].at,
                       window |-> S[k].replacing]
            /\ \A i \in j + 1 .. k - 1 : S[i].op \in Aside

\* What is where in a plan continued.
LEMMA JoinedAt ==
    ASSUME NEW X, NEW S \in Seq(X), NEW T \in Seq(X)
    PROVE  /\ S \o T \in Seq(X)
           /\ \A k \in DOMAIN S : k \in DOMAIN (S \o T) /\ (S \o T)[k] = S[k]
           /\ \A k \in DOMAIN T : /\ Len(S) + k \in DOMAIN (S \o T)
                                  /\ (S \o T)[Len(S) + k] = T[k]
           /\ \A k \in DOMAIN (S \o T) :
                 k \in DOMAIN S \/ \E j \in DOMAIN T : k = Len(S) + j
           /\ Len(S) \in Nat /\ DOMAIN S = 1 .. Len(S) /\ DOMAIN T \subseteq Nat \ {0}
  <1>1. /\ S \o T \in Seq(X) /\ Len(S) \in Nat /\ Len(T) \in Nat
        /\ DOMAIN S = 1 .. Len(S) /\ DOMAIN T = 1 .. Len(T)
        /\ DOMAIN (S \o T) = 1 .. Len(S) + Len(T)
    OBVIOUS
  <1>2. ASSUME NEW k \in DOMAIN S
        PROVE  k \in DOMAIN (S \o T) /\ (S \o T)[k] = S[k]
    BY <1>1
  <1>3. ASSUME NEW k \in DOMAIN T
        PROVE  Len(S) + k \in DOMAIN (S \o T) /\ (S \o T)[Len(S) + k] = T[k]
    BY <1>1
  <1>4. ASSUME NEW k \in DOMAIN (S \o T), k \notin DOMAIN S
        PROVE  \E j \in DOMAIN T : k = Len(S) + j
    <2>1. k - Len(S) \in DOMAIN T /\ k = Len(S) + (k - Len(S))
      BY <1>1, <1>4
    <2> QED
      BY <2>1
  <1>5. DOMAIN T \subseteq Nat \ {0}
    BY <1>1
  <1> QED
    BY <1>1, <1>2, <1>3, <1>4, <1>5

\* Steps that replace nothing, and the link over a placeholder just placed, may
\* follow; the placeholder stays until then.
LEMMA ReplacesGoOn ==
    ASSUME NEW X, NEW S \in Seq(X), NEW T \in Seq(X)
    PROVE  /\ ReplacesOwn(S) /\ (\A k \in DOMAIN T : ~ Replacing(T[k]))
                => ReplacesOwn(S \o T)
           /\ \A session, at, p :
                 Ready(S, session, at, p) /\ (\A k \in DOMAIN T : T[k].op \in Aside)
                    => Ready(S \o T, session, at, p)
           /\ \A step \in X :
                 /\ ReplacesOwn(S) /\ T = <<step>>
                 /\ Replacing(step) => Ready(S, step.session, step.at, step.replacing)
                 => ReplacesOwn(S \o T)
  <1> DEFINE U == S \o T
  <1>1. /\ U \in Seq(X) /\ Len(S) \in Nat /\ Len(T) \in Nat /\ Len(U) = Len(S) + Len(T)
        /\ DOMAIN S = 1 .. Len(S) /\ DOMAIN T = 1 .. Len(T)
        /\ DOMAIN U = 1 .. Len(U)
    OBVIOUS
  <1>2. /\ \A k \in DOMAIN S : k \in DOMAIN U /\ U[k] = S[k]
        /\ \A k \in DOMAIN T : Len(S) + k \in DOMAIN U /\ U[Len(S) + k] = T[k]
        /\ \A k \in DOMAIN U : k \in DOMAIN S \/ \E j \in DOMAIN T : k = Len(S) + j
    BY JoinedAt
  <1> HIDE DEF U
  <1>3. ASSUME ReplacesOwn(S), NEW k \in DOMAIN S, Replacing(U[k])
        PROVE  \E j \in 1 .. k - 1 :
                  /\ U[j] = [op |-> "move", session |-> U[k].session, at |-> U[k].at,
                             window |-> U[k].replacing]
                  /\ \A i \in j + 1 .. k - 1 : U[i].op \in Aside
    <2>1. U[k] = S[k] /\ \A i \in 1 .. k - 1 : U[i] = S[i]
      BY <1>1, <1>2
    <2>2. PICK j \in 1 .. k - 1 :
             /\ S[j] = [op |-> "move", session |-> S[k].session, at |-> S[k].at,
                        window |-> S[k].replacing]
             /\ \A i \in j + 1 .. k - 1 : S[i].op \in Aside
      BY <1>3, <2>1 DEF ReplacesOwn
    <2>3. j + 1 .. k - 1 \subseteq 1 .. k - 1
      BY <1>1, <2>2
    <2> QED
      BY <2>1, <2>2, <2>3
  <1>4. ASSUME ReplacesOwn(S), \A k \in DOMAIN T : ~ Replacing(T[k])
        PROVE  ReplacesOwn(U)
    <2>1. \A k \in DOMAIN U : Replacing(U[k]) => k \in DOMAIN S
      BY <1>2, <1>4
    <2> QED
      BY <1>3, <1>4, <2>1 DEF ReplacesOwn
  <1>5. ASSUME NEW session, NEW at, NEW p, Ready(S, session, at, p),
               \A k \in DOMAIN T : T[k].op \in Aside
        PROVE  Ready(U, session, at, p)
    <2>1. PICK j \in DOMAIN S :
             /\ S[j] = [op |-> "move", session |-> session, at |-> at, window |-> p]
             /\ \A i \in j + 1 .. Len(S) : S[i].op \in Aside
      BY <1>5 DEF Ready
    <2>2. j \in DOMAIN U /\ U[j] = S[j] /\ j \in Nat /\ j >= 1
      BY <1>1, <1>2, <2>1
    <2>3. ASSUME NEW i \in j + 1 .. Len(U)
          PROVE  U[i].op \in Aside
      <3>1. CASE i \in DOMAIN S
        <4>1. i \in j + 1 .. Len(S)
          BY <1>1, <2>2, <2>3, <3>1
        <4> QED
          BY <1>2, <2>1, <3>1, <4>1
      <3>2. CASE i \notin DOMAIN S
        <4>1. i \in DOMAIN U
          BY <1>1, <2>2, <2>3
        <4> QED
          BY <1>2, <1>5, <3>2, <4>1
      <3> QED
        BY <3>1, <3>2
    <2> QED
      BY <2>1, <2>2, <2>3 DEF Ready
  <1>6. ASSUME NEW step \in X, ReplacesOwn(S), T = <<step>>,
               Replacing(step) => Ready(S, step.session, step.at, step.replacing)
        PROVE  ReplacesOwn(U)
    <2>1. CASE ~ Replacing(step)
      BY <1>4, <1>6, <2>1
    <2>2. CASE Replacing(step)
      <3>1. PICK j \in DOMAIN S :
               /\ S[j] = [op |-> "move", session |-> step.session, at |-> step.at,
                          window |-> step.replacing]
               /\ \A i \in j + 1 .. Len(S) : S[i].op \in Aside
        BY <1>6, <2>2 DEF Ready
      <3>2. 1 \in DOMAIN T /\ DOMAIN T = {1} /\ T[1] = step
        BY <1>6
      <3> DEFINE k == Len(S) + 1
      <3>3. U[k] = step /\ k - 1 = Len(S) /\ j \in 1 .. k - 1 /\ U[j] = S[j]
        <4>1. U[k] = step
          BY <1>2, <3>2
        <4>2. j \in 1 .. Len(S) /\ U[j] = S[j]
          BY <1>1, <1>2
        <4>3. k - 1 = Len(S)
          BY <1>1
        <4> QED
          BY <4>1, <4>2, <4>3
      <3>4. \A i \in j + 1 .. Len(S) : i \in DOMAIN S /\ U[i] = S[i]
        <4>1. j \in 1 .. Len(S)
          BY <1>1
        <4>2. j + 1 .. Len(S) \subseteq DOMAIN S
          BY <1>1, <4>1
        <4> QED
          BY <1>2, <4>2
      <3>5. \A i \in DOMAIN U : i \in DOMAIN S \/ i = k
        BY <1>2, <3>2
      <3> HIDE DEF k
      <3>6. \E i \in 1 .. k - 1 :
               /\ U[i] = [op |-> "move", session |-> U[k].session, at |-> U[k].at,
                          window |-> U[k].replacing]
               /\ \A h \in i + 1 .. k - 1 : U[h].op \in Aside
        BY <3>1, <3>3, <3>4
      <3> QED
        BY <1>3, <1>6, <3>5, <3>6 DEF ReplacesOwn
    <2> QED
      BY <2>1, <2>2
  <1> QED
    BY <1>4, <1>5, <1>6 DEF U

\* A window that has just been moved.
LEMMA ReadyNow ==
    ASSUME NEW X, NEW S \in Seq(X), NEW a \in X, NEW b \in X,
           NEW session, NEW at, NEW p,
           b = [op |-> "move", session |-> session, at |-> at, window |-> p]
    PROVE  Ready(S \o <<a, b>>, session, at, p)
  <1> DEFINE T == <<a, b>>
             U == S \o T
             j == Len(S) + 2
  <1>1. T \in Seq(X) /\ DOMAIN T = {1, 2} /\ T[2] = b /\ Len(T) = 2
    OBVIOUS
  <1>2. Len(U) = j /\ Len(S) \in Nat
    OBVIOUS
  <1> HIDE DEF T
  <1>3. j \in DOMAIN U /\ U[j] = T[2]
    BY <1>1, JoinedAt
  <1> HIDE DEF U
  <1>4. j + 1 .. Len(U) = {}
    BY <1>2
  <1> QED
    BY <1>1, <1>3, <1>4 DEF Ready, T, U

\* A plan continued binds and stamps what its two parts do.
LEMMA JoinedBindings ==
    ASSUME NEW X, NEW S \in Seq(X), NEW T \in Seq(X)
    PROVE  /\ BoundBy(S \o T) = BoundBy(S) \cup BoundBy(T)
           /\ StampedBy(S \o T) = StampedBy(S) \cup StampedBy(T)
           /\ SavedBy(S \o T) = SavedBy(S) \cup SavedBy(T)
  <1> DEFINE U == S \o T
  <1>1. /\ \A k \in DOMAIN S : k \in DOMAIN U /\ U[k] = S[k]
        /\ \A k \in DOMAIN T : Len(S) + k \in DOMAIN U /\ U[Len(S) + k] = T[k]
        /\ \A k \in DOMAIN U : k \in DOMAIN S \/ \E j \in DOMAIN T : k = Len(S) + j
    BY JoinedAt
  <1> HIDE DEF U
  <1>2. {U[k] : k \in DOMAIN U} = {S[k] : k \in DOMAIN S} \cup {T[k] : k \in DOMAIN T}
    BY <1>1
  <1>3. BoundBy(U) = BoundBy(S) \cup BoundBy(T)
    <2>1. \A V : BoundBy(V) = UNION {Binds(s) : s \in {V[k] : k \in DOMAIN V}}
      BY DEF BoundBy
    <2>2. /\ BoundBy(U) = UNION {Binds(s) : s \in {U[k] : k \in DOMAIN U}}
          /\ BoundBy(S) = UNION {Binds(s) : s \in {S[k] : k \in DOMAIN S}}
          /\ BoundBy(T) = UNION {Binds(s) : s \in {T[k] : k \in DOMAIN T}}
      BY <2>1
    <2> QED
      BY <1>2, <2>2
  <1>4. /\ StampedBy(U) = StampedBy(S) \cup StampedBy(T)
        /\ SavedBy(U) = SavedBy(S) \cup SavedBy(T)
    <2> DEFINE stamps(V) == {t \in {V[k] : k \in DOMAIN V} : t.op = "stamp"}
    <2>1. \A V : /\ StampedBy(V) = {s.window : s \in stamps(V)}
                 /\ SavedBy(V) = {s.saved : s \in stamps(V)}
      BY DEF StampedBy, SavedBy, Stamps
    <2>2. stamps(U) = stamps(S) \cup stamps(T)
      BY <1>2
    <2>3. /\ StampedBy(U) = {s.window : s \in stamps(U)} /\ SavedBy(U) = {s.saved : s \in stamps(U)}
          /\ StampedBy(S) = {s.window : s \in stamps(S)} /\ SavedBy(S) = {s.saved : s \in stamps(S)}
          /\ StampedBy(T) = {s.window : s \in stamps(T)} /\ SavedBy(T) = {s.saved : s \in stamps(T)}
      BY <2>1
    <2> HIDE DEF stamps
    <2> QED
      BY <2>2, <2>3
  <1> QED
    BY <1>3, <1>4 DEF U

\* What a step that stamps is made of; and the references there are.
LEMMA StampShape ==
    ASSUME NEW snap, NEW known, IsSnapshot(snap),
           NEW step \in Steps(snap, known), step.op = "stamp"
    PROVE  /\ step.window \in Refs /\ step.saved \in DOMAIN snap.panes
           /\ Width(snap, step) \in Nat /\ Width(snap, step) >= 2
           /\ Binds(step) = {} /\ Uses(step) = {step.window}
  <1>1. step.window \in Refs /\ step.saved \in DOMAIN snap.panes
    BY DEF Steps
  <1>2. snap.panes[step.saved] \in Nat \ {0}
    BY <1>1 DEF IsSnapshot
  <1>3. Binds(step) = {} /\ Uses(step) = {step.window}
    BY DEF Binds, Uses
  <1> QED
    BY <1>1, <1>2, <1>3 DEF Width

\* A sound plan continued is sound.
LEMMA Joining ==
    ASSUME NEW snap, NEW known, IsSnapshot(snap),
           NEW S, NEW T, Sound(S, {}, snap, known), Continues(T, S, snap, known)
    PROVE  Sound(S \o T, {}, snap, known)
  <1> DEFINE U == S \o T
             a == Len(S)
  <1>1. S \in Seq(Steps(snap, known)) /\ T \in Seq(Steps(snap, known))
    BY DEF Sound, Continues
  <1>2. /\ U \in Seq(Steps(snap, known))
        /\ \A k \in DOMAIN S : k \in DOMAIN U /\ U[k] = S[k]
        /\ \A k \in DOMAIN T : a + k \in DOMAIN U /\ U[a + k] = T[k]
        /\ \A k \in DOMAIN U : k \in DOMAIN S \/ \E j \in DOMAIN T : k = a + j
        /\ a \in Nat /\ DOMAIN S = 1..a /\ DOMAIN T \subseteq Nat \ {0}
    BY <1>1, JoinedAt
  <1> HIDE DEF U, a
  <1>3. /\ \A k \in DOMAIN S : k \in Nat /\ k >= 1 /\ k <= a /\ S[k] \in Steps(snap, known)
        /\ \A k \in DOMAIN T : k \in Nat /\ k >= 1 /\ T[k] \in Steps(snap, known)
    BY <1>1, <1>2
  <1>4. BoundFirst(U, {})
    <2> SUFFICES ASSUME NEW k \in DOMAIN U, NEW x \in Uses(U[k])
                 PROVE  \E j \in 1 .. k - 1 : x \in Binds(U[j])
      BY DEF BoundFirst
    <2>1. CASE k \in DOMAIN S
      <3>1. PICK j \in 1 .. k - 1 : x \in Binds(S[j])
        BY <1>2, <2>1 DEF Sound, BoundFirst
      <3>2. j \in DOMAIN S
        BY <1>2, <2>1, <3>1
      <3> QED
        BY <1>2, <3>1, <3>2
    <2>2. ASSUME NEW i \in DOMAIN T, k = a + i
          PROVE  \E j \in 1 .. k - 1 : x \in Binds(U[j])
      <3>1. x \in Uses(T[i])
        BY <1>2, <2>2
      <3>2. CASE x \in BoundBy(S)
        <4>1. PICK j \in DOMAIN S : x \in Binds(S[j])
          BY <3>2 DEF BoundBy
        <4>2. j \in 1 .. k - 1
          BY <1>2, <1>3, <2>2
        <4> QED
          BY <1>2, <4>1, <4>2
      <3>3. ASSUME NEW j \in 1 .. i - 1, x \in Binds(T[j])
            PROVE  \E h \in 1 .. k - 1 : x \in Binds(U[h])
        <4>1. j \in DOMAIN T
          <5>1. DOMAIN T = 1 .. Len(T) /\ Len(T) \in Nat
            BY <1>1
          <5> QED
            BY <5>1, <3>3
        <4>2. a + j \in 1 .. k - 1
          BY <1>2, <1>3, <2>2, <3>3
        <4> QED
          BY <1>2, <3>3, <4>1, <4>2
      <3> QED
        BY <3>1, <3>2, <3>3 DEF Continues, Sound, BoundFirst
    <2> QED
      BY <1>2, <2>1, <2>2
  <1>5. BoundOnce(U, {})
    <2> SUFFICES ASSUME NEW k \in DOMAIN U, NEW x \in Binds(U[k]),
                        NEW j \in DOMAIN U, x \in Binds(U[j])
                 PROVE  j = k
      BY DEF BoundOnce
    <2>1. \A h \in DOMAIN S : x \in Binds(S[h]) => x \in BoundBy(S)
      BY DEF BoundBy
    <2>2. \A h \in DOMAIN T : x \in Binds(T[h]) => x \notin BoundBy(S)
      BY DEF Continues, Sound, BoundOnce
    <2>3. CASE k \in DOMAIN S /\ j \in DOMAIN S
      BY <1>2, <2>3 DEF Sound, BoundOnce
    <2>4. ASSUME NEW i \in DOMAIN T, NEW h \in DOMAIN T, k = a + i, j = a + h
          PROVE  j = k
      BY <1>2, <2>4 DEF Continues, Sound, BoundOnce
    <2>5. ASSUME NEW i \in DOMAIN T, k = a + i, j \in DOMAIN S
          PROVE  FALSE
      BY <1>2, <2>1, <2>2, <2>5
    <2>6. ASSUME NEW h \in DOMAIN T, j = a + h, k \in DOMAIN S
          PROVE  FALSE
      BY <1>2, <2>1, <2>2, <2>6
    <2> QED
      BY <1>2, <2>3, <2>4, <2>5, <2>6
  <1>6. MovedAtOnce(U)
    <2> SUFFICES ASSUME NEW k \in DOMAIN U, U[k].op = "move", k > 1
                 PROVE  /\ U[k - 1].op = "create"
                        /\ U[k - 1].window = U[k].window
                        /\ U[k - 1].session = U[k].session
      BY DEF MovedAtOnce
    <2>1. CASE k \in DOMAIN S
      <3>1. k - 1 \in DOMAIN S
        BY <1>2, <2>1
      <3> QED
        BY <1>2, <2>1, <3>1 DEF Sound, MovedAtOnce
    <2>2. ASSUME NEW i \in DOMAIN T, k = a + i
          PROVE  /\ U[k - 1].op = "create"
                 /\ U[k - 1].window = U[k].window
                 /\ U[k - 1].session = U[k].session
      <3>1. T[i].op = "move" /\ U[k] = T[i]
        BY <1>2, <2>2
      <3>2. i # 1
        BY <3>1, <1>1 DEF Continues
      <3>3. i > 1 /\ i - 1 \in DOMAIN T /\ a + (i - 1) = k - 1
        <4>1. DOMAIN T = 1 .. Len(T) /\ Len(T) \in Nat
          BY <1>1
        <4> QED
          BY <1>2, <2>2, <3>2, <4>1
      <3>4. U[k - 1] = T[i - 1]
        BY <1>2, <3>3
      <3> QED
        BY <3>1, <3>3, <3>4 DEF Continues, Sound, MovedAtOnce
    <2> QED
      BY <1>2, <2>1, <2>2
  <1>7. StampedLast(U, snap)
    <2> SUFFICES ASSUME NEW k \in Stamps(U)
                 PROVE  /\ \A d \in 1 .. Width(snap, U[k]) :
                              d < k => U[k - d] = Before(d, U[k].window)
                        /\ \A j \in DOMAIN U :
                              U[k].window \in Binds(U[j]) => j + Width(snap, U[k]) < k
                        /\ \A j \in Stamps(U) :
                              U[j].window = U[k].window \/ U[j].saved = U[k].saved => j = k
      BY DEF StampedLast
    <2>1. k \in DOMAIN U /\ U[k].op = "stamp"
      BY DEF Stamps
    <2>2. \A j \in Stamps(S) : S[j].window \in StampedBy(S) /\ S[j].saved \in SavedBy(S)
      BY DEF StampedBy, SavedBy
    <2>3. \A j \in Stamps(U) : j \in Stamps(S) \/ \E i \in Stamps(T) : j = a + i
      BY <1>2 DEF Stamps
    <2>4. CASE k \in DOMAIN S
      <3>1. k \in Stamps(S) /\ U[k] = S[k]
        BY <1>2, <2>1, <2>4 DEF Stamps
      <3>2. ASSUME NEW d \in 1 .. Width(snap, U[k]), d < k
            PROVE  U[k - d] = Before(d, U[k].window)
        <4>1. Width(snap, S[k]) \in Nat
          BY <1>3, <2>1, <2>4, <3>1, StampShape
        <4>2. k - d \in DOMAIN S
          BY <1>2, <2>4, <3>1, <3>2, <4>1
        <4> QED
          BY <1>2, <3>1, <3>2, <4>2 DEF Sound, StampedLast
      <3>3. ASSUME NEW j \in DOMAIN U, U[k].window \in Binds(U[j])
            PROVE  j + Width(snap, U[k]) < k
        <4>1. S[k].window \in BoundBy(S)
          <5>1. S[k].window \in Uses(S[k])
            BY <2>1, <3>1 DEF Uses
          <5>2. PICK h \in 1 .. k - 1 : S[k].window \in Binds(S[h])
            BY <2>4, <5>1 DEF Sound, BoundFirst
          <5>3. h \in DOMAIN S
            BY <1>2, <2>4
          <5> QED
            BY <5>2, <5>3 DEF BoundBy
        <4>2. \A h \in DOMAIN T : S[k].window \notin Binds(T[h])
          BY <4>1 DEF Continues, Sound, BoundOnce
        <4>3. j \in DOMAIN S
          BY <1>2, <3>1, <3>3, <4>2
        <4> QED
          BY <1>2, <3>1, <3>3, <4>3 DEF Sound, StampedLast
      <3>4. ASSUME NEW j \in Stamps(U), U[j].window = U[k].window \/ U[j].saved = U[k].saved
            PROVE  j = k
        <4>1. CASE j \in Stamps(S)
          BY <1>2, <3>1, <3>4, <4>1 DEF Sound, StampedLast, Stamps
        <4>2. ASSUME NEW i \in Stamps(T), j = a + i
              PROVE  FALSE
          <5>1. U[j] = T[i]
            BY <1>2, <4>2 DEF Stamps
          <5> QED
            BY <2>2, <3>1, <3>4, <4>2, <5>1 DEF Continues
        <4> QED
          BY <2>3, <4>1, <4>2
      <3> QED
        BY <3>2, <3>3, <3>4
    <2>5. ASSUME NEW i \in DOMAIN T, k = a + i
          PROVE  /\ \A d \in 1 .. Width(snap, U[k]) :
                       d < k => U[k - d] = Before(d, U[k].window)
                 /\ \A j \in DOMAIN U :
                       U[k].window \in Binds(U[j]) => j + Width(snap, U[k]) < k
                 /\ \A j \in Stamps(U) :
                       U[j].window = U[k].window \/ U[j].saved = U[k].saved => j = k
      <3>1. i \in Stamps(T) /\ U[k] = T[i]
        BY <1>2, <2>1, <2>5 DEF Stamps
      <3> DEFINE w == Width(snap, T[i])
      <3>2. w \in Nat /\ w < i
        <4>1. w \in Nat
          BY <1>3, <2>1, <3>1, StampShape
        <4> QED
          BY <3>1, <4>1 DEF Continues
      <3> HIDE DEF w
      <3>3. ASSUME NEW d \in 1 .. w
            PROVE  U[k - d] = Before(d, U[k].window)
        <4>1. i - d \in DOMAIN T /\ a + (i - d) = k - d /\ d < i
          <5>1. DOMAIN T = 1 .. Len(T) /\ Len(T) \in Nat
            BY <1>1
          <5> QED
            BY <1>2, <2>5, <3>2, <3>3, <5>1
        <4>2. U[k - d] = T[i - d]
          BY <1>2, <4>1
        <4>3. T[i - d] = Before(d, T[i].window)
          BY <3>1, <3>3, <4>1 DEF Continues, Sound, StampedLast, w
        <4> QED
          BY <3>1, <4>2, <4>3
      <3>4. ASSUME NEW j \in DOMAIN U, U[k].window \in Binds(U[j])
            PROVE  j + w < k
        <4>1. CASE j \in DOMAIN S
          <5>1. j \in Nat /\ j <= a /\ i \in Nat
            BY <1>3, <4>1
          <5> QED
            BY <1>2, <2>5, <3>2, <5>1
        <4>2. ASSUME NEW h \in DOMAIN T, j = a + h
              PROVE  j + w < k
          <5>1. T[i].window \in Binds(T[h])
            BY <1>2, <3>1, <3>4, <4>2
          <5>2. h + w < i
            BY <3>1, <5>1 DEF Continues, Sound, StampedLast, w
          <5>3. h \in Nat /\ i \in Nat
            BY <1>3
          <5> QED
            BY <1>2, <2>5, <3>2, <4>2, <5>2, <5>3
        <4> QED
          BY <1>2, <4>1, <4>2
      <3>5. ASSUME NEW j \in Stamps(U), U[j].window = U[k].window \/ U[j].saved = U[k].saved
            PROVE  j = k
        <4>1. CASE j \in Stamps(S)
          <5>1. U[j] = S[j]
            BY <1>2, <4>1 DEF Stamps
          <5> QED
            BY <2>2, <3>1, <3>5, <4>1, <5>1 DEF Continues
        <4>2. ASSUME NEW h \in Stamps(T), j = a + h
              PROVE  j = k
          <5>1. U[j] = T[h]
            BY <1>2, <4>2 DEF Stamps
          <5>2. h = i
            BY <3>1, <3>5, <5>1 DEF Continues, Sound, StampedLast
          <5> QED
            BY <2>5, <4>2, <5>2
        <4> QED
          BY <2>3, <4>1, <4>2
      <3>6. Width(snap, U[k]) = w
        BY <3>1 DEF w
      <3> QED
        BY <3>3, <3>4, <3>5, <3>6
    <2> QED
      BY <1>2, <2>1, <2>4, <2>5
  <1>8. StampedAll(U, snap)
    <2> SUFFICES ASSUME NEW j \in DOMAIN U, U[j].op \in {"split", "layout", "fill"}
                 PROVE  \E k \in Stamps(U) :
                           /\ U[k].window = U[j].window
                           /\ k - j \in 1 .. Width(snap, U[k])
      BY DEF StampedAll
    <2>1. CASE j \in DOMAIN S
      <3>1. PICK k \in Stamps(S) : /\ S[k].window = S[j].window
                                   /\ k - j \in 1 .. Width(snap, S[k])
        BY <1>2, <2>1 DEF Sound, StampedAll
      <3>2. k \in Stamps(U) /\ U[k] = S[k] /\ U[j] = S[j]
        BY <1>2, <2>1 DEF Stamps
      <3> QED
        BY <3>1, <3>2
    <2>2. ASSUME NEW i \in DOMAIN T, j = a + i
          PROVE  \E k \in Stamps(U) :
                    /\ U[k].window = U[j].window
                    /\ k - j \in 1 .. Width(snap, U[k])
      <3>1. U[j] = T[i]
        BY <1>2, <2>2
      <3>2. PICK h \in Stamps(T) : /\ T[h].window = T[i].window
                                   /\ h - i \in 1 .. Width(snap, T[h])
        BY <3>1 DEF Continues, Sound, StampedAll
      <3>3. a + h \in Stamps(U) /\ U[a + h] = T[h]
        BY <1>2, <3>2 DEF Stamps
      <3>4. (a + h) - j = h - i
        <4>1. h \in Nat /\ i \in Nat
          BY <1>3, <3>2 DEF Stamps
        <4> QED
          BY <1>2, <2>2, <4>1
      <3> QED
        BY <3>1, <3>2, <3>3, <3>4
    <2> QED
      BY <1>2, <2>1, <2>2
  <1> QED
    BY <1>2, <1>4, <1>5, <1>6, <1>7, <1>8 DEF Sound, U

-----------------------------------------------------------------------------
\* The pieces a plan is made of continue what comes before them.

Plain == {"link", "switch", "kill", "select", "mark", "touch"}

\* Steps that neither make nor furnish a window continue any plan.
LEMMA PlainContinues ==
    ASSUME NEW snap, NEW known, NEW S, NEW T \in Seq(Steps(snap, known)),
           \A k \in DOMAIN T : T[k].op \in Plain /\ Uses(T[k]) \subseteq BoundBy(S)
    PROVE  /\ Continues(T, S, snap, known)
           /\ BoundBy(T) = {} /\ StampedBy(T) = {} /\ SavedBy(T) = {}
  <1>1. \A k \in DOMAIN T : /\ T[k].op \notin {"create", "new", "move", "split", "layout",
                                               "fill", "stamp"}
                            /\ Binds(T[k]) = {}
    BY DEF Plain, Binds
  <1>2. Stamps(T) = {}
    BY <1>1 DEF Stamps
  <1>3. BoundBy(T) = {} /\ StampedBy(T) = {} /\ SavedBy(T) = {}
    BY <1>1, <1>2 DEF BoundBy, StampedBy, SavedBy
  <1>4. BoundFirst(T, BoundBy(S)) /\ BoundOnce(T, BoundBy(S))
    BY <1>1 DEF BoundFirst, BoundOnce
  <1>5. MovedAtOnce(T) /\ StampedLast(T, snap) /\ StampedAll(T, snap)
    BY <1>1, <1>2 DEF MovedAtOnce, StampedLast, StampedAll
  <1>6. T # <<>> => T[1].op # "move"
    <2>1. T # <<>> => 1 \in DOMAIN T
      OBVIOUS
    <2> QED
      BY <1>1, <2>1
  <1> QED
    BY <1>2, <1>3, <1>4, <1>5, <1>6 DEF Continues, Sound

\* A window made under a reference not bound yet continues a plan.
LEMMA NewContinues ==
    ASSUME NEW snap, NEW known, NEW S, NEW new \in Steps(snap, known),
           new.op = "new", new.window \notin BoundBy(S)
    PROVE  /\ Continues(<<new>>, S, snap, known)
           /\ BoundBy(<<new>>) = {new.window}
           /\ StampedBy(<<new>>) = {} /\ SavedBy(<<new>>) = {}
  <1> DEFINE T == <<new>>
  <1>1. DOMAIN T = {1} /\ T[1] = new /\ T \in Seq(Steps(snap, known)) /\ T # <<>>
    OBVIOUS
  <1> HIDE DEF T
  <1>2. Stamps(T) = {}
    BY <1>1 DEF Stamps
  <1>3. Binds(new) = {new.window} /\ Uses(new) = {}
    BY DEF Binds, Uses
  <1>4. BoundBy(T) = {new.window} /\ StampedBy(T) = {} /\ SavedBy(T) = {}
    BY <1>1, <1>2, <1>3 DEF BoundBy, StampedBy, SavedBy
  <1>5. BoundFirst(T, BoundBy(S)) /\ BoundOnce(T, BoundBy(S))
    BY <1>1, <1>3 DEF BoundFirst, BoundOnce
  <1>6. MovedAtOnce(T) /\ StampedLast(T, snap) /\ StampedAll(T, snap)
    BY <1>1, <1>2 DEF MovedAtOnce, StampedLast, StampedAll
  <1> QED
    BY <1>1, <1>2, <1>4, <1>5, <1>6 DEF Continues, Sound, T

\* A session made, and the window it is made with moved.
Makes(T) ==
    /\ Len(T) = 2 /\ T[1].op = "create" /\ T[2].op = "move"
    /\ T[2].window = T[1].window /\ T[2].session = T[1].session

\* A session made with a window under a reference not bound yet, and that
\* window moved at once, continue a plan.
LEMMA CreateContinues ==
    ASSUME NEW snap, NEW known, NEW S, NEW T \in Seq(Steps(snap, known)),
           Makes(T), T[1].window \notin BoundBy(S)
    PROVE  /\ Continues(T, S, snap, known)
           /\ BoundBy(T) = {T[1].window}
           /\ StampedBy(T) = {} /\ SavedBy(T) = {}
  <1>1. DOMAIN T = {1, 2} /\ T[1] \in Steps(snap, known) /\ T[2] \in Steps(snap, known)
    <2> DEFINE Stp == Steps(snap, known)
    <2>1. T \in Seq(Stp) /\ Len(T) = 2
      BY DEF Makes
    <2> HIDE DEF Stp
    <2>2. DOMAIN T = 1 .. 2 /\ T \in [1 .. 2 -> Stp]
      BY <2>1
    <2>3. 1 .. 2 = {1, 2}
      OBVIOUS
    <2>4. T[1] \in Stp /\ T[2] \in Stp
      BY <2>2, <2>3
    <2> QED
      BY <2>2, <2>3, <2>4 DEF Stp
  <1>2. Stamps(T) = {}
    BY <1>1 DEF Stamps, Makes
  <1>3. /\ Binds(T[1]) = {T[1].window} /\ Uses(T[1]) = {}
        /\ Binds(T[2]) = {} /\ Uses(T[2]) = {T[1].window}
    BY DEF Binds, Uses, Makes
  <1>4. BoundBy(T) = {T[1].window} /\ StampedBy(T) = {} /\ SavedBy(T) = {}
    BY <1>1, <1>2, <1>3 DEF BoundBy, StampedBy, SavedBy
  <1>5. BoundFirst(T, BoundBy(S))
    <2>1. 1 \in 1 .. 2 - 1
      OBVIOUS
    <2> QED
      BY <1>1, <1>3, <2>1 DEF BoundFirst
  <1>6. BoundOnce(T, BoundBy(S))
    BY <1>1, <1>3 DEF BoundOnce
  <1>7. MovedAtOnce(T) /\ StampedLast(T, snap) /\ StampedAll(T, snap)
    BY <1>1, <1>2 DEF MovedAtOnce, StampedLast, StampedAll, Makes
  <1>8. T[1].op # "move"
    BY DEF Makes
  <1> QED
    BY <1>2, <1>4, <1>5, <1>6, <1>7, <1>8 DEF Continues, Sound

Furnishing(snap, w, ref) == Filling(snap.panes[w], ref, w)

\* The panes, the layout, the content and the stamp of a window bound and not
\* yet stamped, in that order, continue a plan.
LEMMA FurnishingContinues ==
    ASSUME NEW snap, NEW known, IsSnapshot(snap), NEW S,
           NEW w \in DOMAIN snap.panes, NEW ref \in Refs,
           ref \in BoundBy(S), ref \notin StampedBy(S), w \notin SavedBy(S)
    PROVE  LET T == Furnishing(snap, w, ref)
           IN  /\ Continues(T, S, snap, known)
               /\ BoundBy(T) = {} /\ StampedBy(T) = {ref} /\ SavedBy(T) = {w}
  <1> DEFINE T == Furnishing(snap, w, ref)
             n == snap.panes[w]
             split == [op |-> "split", window |-> ref]
             layout == [op |-> "layout", window |-> ref]
             fill == [op |-> "fill", window |-> ref]
             stamp == [op |-> "stamp", window |-> ref, saved |-> w]
  <1>1. n \in Nat /\ n >= 1
    BY DEF IsSnapshot
  <1>2. split \in Steps(snap, known) /\ layout \in Steps(snap, known)
        /\ fill \in Steps(snap, known) /\ stamp \in Steps(snap, known)
    BY DEF Steps
  <1> HIDE DEF n
  <1>3. /\ T \in Seq(Steps(snap, known)) /\ Len(T) = n + 2
        /\ DOMAIN T = 1 .. n + 2
        /\ \A k \in 1 .. n - 1 : T[k] = split
        /\ T[n] = layout /\ T[n + 1] = fill /\ T[n + 2] = stamp
    <2> DEFINE A == [p \in 1 .. n - 1 |-> split]
               B == <<layout, fill, stamp>>
    <2>1. A \in Seq(Steps(snap, known)) /\ Len(A) = n - 1 /\ \A k \in 1 .. n - 1 : A[k] = split
      <3> HIDE DEF split
      <3> QED
        BY <1>1, <1>2
    <2>2. /\ B \in Seq(Steps(snap, known)) /\ Len(B) = 3
          /\ B[1] = layout /\ B[2] = fill /\ B[3] = stamp
      <3> HIDE DEF layout, fill, stamp
      <3> QED
        BY <1>2
    <2>3. T = A \o B
      BY DEF Furnishing, Filling, n
    <2> HIDE DEF A, B, split, layout, fill, stamp, T
    <2>4. T \in Seq(Steps(snap, known)) /\ Len(T) = n + 2
      <3>1. Len(A \o B) = Len(A) + Len(B) /\ A \o B \in Seq(Steps(snap, known))
        BY <2>1, <2>2, ConcatProperties
      <3> QED
        BY <1>1, <2>1, <2>2, <2>3, <3>1
    <2>5. DOMAIN T = 1 .. n + 2
      BY <2>4
    <2>6. \A k \in 1 .. n - 1 : T[k] = split
      BY <1>1, <2>1, <2>2, <2>3
    <2>7. T[n] = B[1] /\ T[n + 1] = B[2] /\ T[n + 2] = B[3]
      <3>1. \A k \in DOMAIN B : T[Len(A) + k] = B[k]
        BY <2>1, <2>2, <2>3, JoinedAt
      <3>2. DOMAIN B = 1..3
        BY <2>2
      <3>3. Len(A) + 1 = n /\ Len(A) + 2 = n + 1 /\ Len(A) + 3 = n + 2
        BY <1>1, <2>1
      <3>4. T[Len(A) + 1] = B[1] /\ T[Len(A) + 2] = B[2] /\ T[Len(A) + 3] = B[3]
        BY <3>1, <3>2
      <3> QED
        BY <3>3, <3>4
    <2> QED
      BY <2>2, <2>4, <2>5, <2>6, <2>7
  <1> HIDE DEF T
  <1>4. \A k \in DOMAIN T : k \in 1 .. n - 1 \/ k = n \/ k = n + 1 \/ k = n + 2
    BY <1>1, <1>3
  <1>5. Stamps(T) = {n + 2} /\ n + 2 \in DOMAIN T /\ T # <<>> /\ 1 \in DOMAIN T
    <2>1. n + 2 \in DOMAIN T /\ 1 \in DOMAIN T /\ T # <<>>
      BY <1>1, <1>3
    <2> QED
      BY <1>3, <1>4, <2>1 DEF Stamps
  <1>6. \A k \in DOMAIN T : Binds(T[k]) = {} /\ Uses(T[k]) = {ref} /\ T[k].op # "move"
                            /\ T[k].window = ref
    BY <1>3, <1>4 DEF Binds, Uses
  <1>7. BoundBy(T) = {} /\ StampedBy(T) = {ref} /\ SavedBy(T) = {w}
    BY <1>3, <1>5, <1>6 DEF BoundBy, StampedBy, SavedBy
  <1>8. BoundFirst(T, BoundBy(S)) /\ BoundOnce(T, BoundBy(S)) /\ MovedAtOnce(T)
    BY <1>6 DEF BoundFirst, BoundOnce, MovedAtOnce
  <1>9. Width(snap, T[n + 2]) = n + 1
    BY <1>3 DEF Width, n
  <1>10. StampedLast(T, snap)
    <2>1. ASSUME NEW d \in 1 .. n + 1
          PROVE  T[(n + 2) - d] = Before(d, ref)
      <3>1. CASE d = 1
        BY <1>1, <1>3, <3>1 DEF Before
      <3>2. CASE d = 2
        BY <1>1, <1>3, <3>2 DEF Before
      <3>3. CASE d # 1 /\ d # 2
        <4>1. (n + 2) - d \in 1 .. n - 1
          BY <1>1, <3>3
        <4> QED
          BY <1>3, <3>3, <4>1 DEF Before
      <3> QED
        BY <3>1, <3>2, <3>3
    <2> QED
      BY <1>3, <1>5, <1>6, <1>9, <2>1 DEF StampedLast
  <1>11. StampedAll(T, snap)
    <2> SUFFICES ASSUME NEW j \in DOMAIN T, T[j].op \in {"split", "layout", "fill"}
                 PROVE  (n + 2) - j \in 1 .. n + 1
      BY <1>5, <1>6, <1>9 DEF StampedAll
    <2>1. j # n + 2
      BY <1>3
    <2> QED
      BY <1>1, <1>3, <2>1
  <1>12. \A k \in Stamps(T) : /\ Width(snap, T[k]) < k
                              /\ T[k].window \notin StampedBy(S)
                              /\ T[k].saved \notin SavedBy(S)
    BY <1>1, <1>3, <1>5, <1>9
  <1> QED
    BY <1>3, <1>5, <1>6, <1>7, <1>8, <1>10, <1>11, <1>12 DEF Continues, Sound, T

-----------------------------------------------------------------------------
\* Drafts: their steps are in order, what was built is bound, and what was
\* stamped was neither built before nor there.

\* The references given out before a draft's next one.
Earlier(ref) == 1 .. ref - 1

Absent(snap, live) == {w \in DOMAIN snap.panes : Present(live, w) = 0}

DraftShapes(snap, live) ==
    [steps : Seq(Steps(snap, KnownOf(live, snap))),
     built : UNION {[W -> Refs] : W \in SUBSET DOMAIN snap.panes},
     refs : Refs, scratch : BOOLEAN, placeholder : Nat, unfinished : BOOLEAN]

Drafts(snap, live) ==
    {d \in DraftShapes(snap, live) :
        /\ Sound(d.steps, {}, snap, KnownOf(live, snap))
        /\ BoundBy(d.steps) \subseteq Earlier(d.refs)
        /\ \A w \in DOMAIN d.built : d.built[w] \in BoundBy(d.steps)
        /\ SavedBy(d.steps) \subseteq DOMAIN d.built \cap Absent(snap, live)}

\* What a draft is made of.
LEMMA DraftFields ==
    ASSUME NEW snap, NEW live, NEW d \in DraftShapes(snap, live)
    PROVE  /\ d.steps \in Seq(Steps(snap, KnownOf(live, snap)))
           /\ d.built \in UNION {[W -> Refs] : W \in SUBSET DOMAIN snap.panes}
           /\ d.refs \in Refs /\ d.refs \in Nat
           /\ d.scratch \in BOOLEAN /\ d.placeholder \in Nat /\ d.unfinished \in BOOLEAN
  BY DEF DraftShapes, Refs

\* What is stamped was bound.
LEMMA StampedIsBound ==
    ASSUME NEW snap, NEW live, NEW d \in Drafts(snap, live)
    PROVE  StampedBy(d.steps) \subseteq BoundBy(d.steps)
  <1> DEFINE S == d.steps
  <1>1. S \in Seq(Steps(snap, KnownOf(live, snap))) /\ BoundFirst(S, {})
    BY DEF Drafts, Sound
  <1> HIDE DEF S
  <1>2. ASSUME NEW k \in Stamps(S)
        PROVE  S[k].window \in BoundBy(S)
    <2>1. k \in DOMAIN S /\ S[k].window \in Uses(S[k])
      BY DEF Stamps, Uses
    <2>2. PICK j \in 1 .. k - 1 : S[k].window \in Binds(S[j])
      BY <1>1, <2>1 DEF BoundFirst
    <2>3. j \in DOMAIN S
      <3>1. DOMAIN S = 1 .. Len(S) /\ Len(S) \in Nat
        BY <1>1
      <3> QED
        BY <2>1, <3>1
    <2> QED
      BY <2>2, <2>3 DEF BoundBy
  <1> QED
    BY <1>2 DEF StampedBy, S

\* Draft d goes on as draft e, with steps T that continue it.
GoesOn(d, e, T, snap, live) ==
    /\ Continues(T, d.steps, snap, KnownOf(live, snap))
    /\ e \in DraftShapes(snap, live)
    /\ e.steps = d.steps \o T
    /\ DOMAIN d.built \subseteq DOMAIN e.built
    /\ \A w \in DOMAIN e.built : e.built[w] \in BoundBy(d.steps) \cup BoundBy(T)
    /\ Earlier(d.refs) \subseteq Earlier(e.refs) /\ BoundBy(T) \subseteq Earlier(e.refs)
    /\ SavedBy(T) \subseteq DOMAIN e.built \cap Absent(snap, live)

\* A draft gone on with sound steps, under references of its own, is one.
LEMMA DraftGoesOn ==
    ASSUME NEW snap, NEW live, IsSnapshot(snap),
           NEW d \in Drafts(snap, live), NEW T, NEW e, GoesOn(d, e, T, snap, live)
    PROVE  /\ e \in Drafts(snap, live)
           /\ BoundBy(e.steps) = BoundBy(d.steps) \cup BoundBy(T)
           /\ StampedBy(e.steps) = StampedBy(d.steps) \cup StampedBy(T)
  <1> DEFINE known == KnownOf(live, snap)
             Stp == Steps(snap, known)
  <1>1. /\ d \in DraftShapes(snap, live)
        /\ Sound(d.steps, {}, snap, known)
        /\ BoundBy(d.steps) \subseteq Earlier(d.refs)
        /\ SavedBy(d.steps) \subseteq DOMAIN d.built \cap Absent(snap, live)
    BY DEF Drafts
  <1> USE DEF GoesOn
  <1>2. T \in Seq(Stp)
    BY DEF Continues, Sound
  <1>3. Sound(e.steps, {}, snap, known)
    BY <1>1, Joining
  <1>4. /\ BoundBy(e.steps) = BoundBy(d.steps) \cup BoundBy(T)
        /\ StampedBy(e.steps) = StampedBy(d.steps) \cup StampedBy(T)
        /\ SavedBy(e.steps) = SavedBy(d.steps) \cup SavedBy(T)
    <2> HIDE DEF Stp
    <2>1. d.steps \in Seq(Stp)
      BY <1>1, DraftFields DEF Stp
    <2> QED
      BY <1>2, <2>1, JoinedBindings
  <1>5. BoundBy(e.steps) \subseteq Earlier(e.refs)
    BY <1>1, <1>4
  <1>6. /\ \A w \in DOMAIN e.built : e.built[w] \in BoundBy(e.steps)
        /\ SavedBy(e.steps) \subseteq DOMAIN e.built \cap Absent(snap, live)
    BY <1>1, <1>4
  <1> QED
    BY <1>3, <1>4, <1>5, <1>6 DEF Drafts, known

\* The same, when those steps bind and stamp nothing.
GoesOnPlainly(d, e, T, snap, live) ==
    /\ Continues(T, d.steps, snap, KnownOf(live, snap))
    /\ BoundBy(T) = {} /\ StampedBy(T) = {} /\ SavedBy(T) = {}
    /\ e \in DraftShapes(snap, live)
    /\ e.steps = d.steps \o T /\ e.built = d.built /\ e.refs = d.refs

\* So it is when the steps bind nothing.
LEMMA DraftGoesOnPlainly ==
    ASSUME NEW snap, NEW live, IsSnapshot(snap),
           NEW d \in Drafts(snap, live), NEW T, NEW e,
           GoesOnPlainly(d, e, T, snap, live)
    PROVE  /\ e \in Drafts(snap, live)
           /\ BoundBy(e.steps) = BoundBy(d.steps)
           /\ StampedBy(e.steps) = StampedBy(d.steps)
  <1>1. \A w \in DOMAIN e.built : e.built[w] \in BoundBy(d.steps) \cup BoundBy(T)
    BY DEF Drafts, GoesOnPlainly
  <1>2. Earlier(d.refs) \subseteq Earlier(e.refs)
    BY DEF GoesOnPlainly
  <1>3. /\ DOMAIN d.built \subseteq DOMAIN e.built
        /\ BoundBy(T) \subseteq Earlier(e.refs)
        /\ SavedBy(T) \subseteq DOMAIN e.built \cap Absent(snap, live)
    BY DEF GoesOnPlainly
  <1>4. /\ e \in Drafts(snap, live)
        /\ BoundBy(e.steps) = BoundBy(d.steps) \cup BoundBy(T)
        /\ StampedBy(e.steps) = StampedBy(d.steps) \cup StampedBy(T)
    <2>1. GoesOn(d, e, T, snap, live)
      BY <1>1, <1>2, <1>3 DEF GoesOn, GoesOnPlainly
    <2> QED
      BY <2>1, DraftGoesOn
  <1> QED
    BY <1>4 DEF GoesOnPlainly

\* The steps of a draft with some appended are steps.
LEMMA WithSteps ==
    ASSUME NEW snap, NEW live, NEW d \in DraftShapes(snap, live),
           NEW T \in Seq(Steps(snap, KnownOf(live, snap)))
    PROVE  LET e == With(d, T)
           IN  /\ e \in DraftShapes(snap, live)
               /\ e.steps = d.steps \o T /\ e.built = d.built /\ e.refs = d.refs
               /\ e.placeholder = d.placeholder
  <1>1. d.steps \o T \in Seq(Steps(snap, KnownOf(live, snap)))
    <2> DEFINE Stp == Steps(snap, KnownOf(live, snap))
    <2>1. d.steps \in Seq(Stp)
      BY DraftFields
    <2> HIDE DEF Stp
    <2>2. d.steps \o T \in Seq(Stp)
      BY <2>1 DEF Stp
    <2> QED
      BY <2>2 DEF Stp
  <1> DEFINE S == d.steps \o T
             e == [d EXCEPT !.steps = S]
             Sq == Seq(Steps(snap, KnownOf(live, snap)))
             Blt == UNION {[W -> Refs] : W \in SUBSET DOMAIN snap.panes}
  <1>2. With(d, T) = e
    BY DEF With
  <1>3. DraftShapes(snap, live)
          = [steps : Sq, built : Blt, refs : Refs, scratch : BOOLEAN,
             placeholder : Nat, unfinished : BOOLEAN]
    BY DEF DraftShapes
  <1>4. S \in Sq
    BY <1>1
  <1> HIDE DEF S, Sq, Blt
  <1>5. /\ e \in DraftShapes(snap, live)
        /\ e.steps = S /\ e.built = d.built /\ e.refs = d.refs
        /\ e.placeholder = d.placeholder
    BY <1>3, <1>4
  <1> HIDE DEF e
  <1> QED
    BY <1>2, <1>5 DEF S

\* The plan's first session that lives takes the clients over and the scratch
\* is killed: no reference is used, and a placeholder stays where it is.
LEMMA CloseScratchKeeps ==
    ASSUME NEW snap, NEW live, IsSnapshot(snap),
           NEW d \in Drafts(snap, live), NEW name \in DOMAIN snap.links
    PROVE  LET e == CloseScratch(d, name)
           IN  /\ e \in Drafts(snap, live)
               /\ e.built = d.built /\ e.refs = d.refs /\ e.placeholder = d.placeholder
               /\ BoundBy(e.steps) = BoundBy(d.steps)
               /\ StampedBy(e.steps) = StampedBy(d.steps)
               /\ ReplacesOwn(d.steps) => ReplacesOwn(e.steps)
               /\ \A session, at, p :
                     Ready(d.steps, session, at, p) => Ready(e.steps, session, at, p)
  <1> DEFINE T == ScratchSteps(name)
             f == With(d, T)
             e == [f EXCEPT !.scratch = FALSE]
             Stp == Steps(snap, KnownOf(live, snap))
  <1>1. CASE ~ d.scratch
    BY <1>1 DEF CloseScratch
  <1>2. CASE d.scratch
    <2>1. /\ T \in Seq(Stp)
          /\ \A k \in DOMAIN T : /\ T[k].op \in Plain \cap Aside
                                 /\ Uses(T[k]) \subseteq BoundBy(d.steps)
      <3> DEFINE switch == [op |-> "switch", session |-> name]
                 kill == [op |-> "kill"]
      <3>1. switch \in Stp /\ kill \in Stp
        BY DEF Steps
      <3>2. /\ switch.op \in Plain \cap Aside /\ kill.op \in Plain \cap Aside
            /\ Uses(switch) = {} /\ Uses(kill) = {}
        BY DEF Plain, Aside, Uses
      <3>3. T = <<switch, kill>>
        BY DEF ScratchSteps
      <3> HIDE DEF switch, kill, T, Stp
      <3>4. DOMAIN T = {1, 2} /\ T[1] = switch /\ T[2] = kill /\ T \in Seq(Stp)
        BY <3>1, <3>3
      <3> QED
        BY <3>2, <3>4
    <2>2. /\ Continues(T, d.steps, snap, KnownOf(live, snap))
          /\ BoundBy(T) = {} /\ StampedBy(T) = {} /\ SavedBy(T) = {}
      BY <2>1, PlainContinues
    <2>3. d \in DraftShapes(snap, live)
      BY DEF Drafts
    <2>4. e = CloseScratch(d, name)
      BY <1>2 DEF CloseScratch
    <2> HIDE DEF T
    <2>5. /\ f \in DraftShapes(snap, live)
          /\ f.steps = d.steps \o T /\ f.built = d.built /\ f.refs = d.refs
          /\ f.placeholder = d.placeholder
      BY <2>1, <2>3, WithSteps
    <2> HIDE DEF f
    <2>6. /\ e \in DraftShapes(snap, live)
          /\ e.steps = d.steps \o T /\ e.built = d.built /\ e.refs = d.refs
          /\ e.placeholder = d.placeholder
      <3> DEFINE Sq == Seq(Steps(snap, KnownOf(live, snap)))
                 Blt == UNION {[W -> Refs] : W \in SUBSET DOMAIN snap.panes}
      <3>1. DraftShapes(snap, live)
              = [steps : Sq, built : Blt, refs : Refs, scratch : BOOLEAN,
                 placeholder : Nat, unfinished : BOOLEAN]
        BY DEF DraftShapes
      <3> HIDE DEF Sq, Blt
      <3>2. e \in DraftShapes(snap, live)
        <4> DEFINE b == FALSE
        <4>1. e = [f EXCEPT !.scratch = b] /\ b \in BOOLEAN
          OBVIOUS
        <4> HIDE DEF b, e
        <4> QED
          BY <2>5, <3>1, <4>1
      <3>3. /\ e.steps = f.steps /\ e.built = f.built /\ e.refs = f.refs
            /\ e.placeholder = f.placeholder
        BY <2>5, <3>1
      <3> QED
        BY <2>5, <3>2, <3>3
    <2> HIDE DEF e
    <2>7. /\ e \in Drafts(snap, live)
          /\ BoundBy(e.steps) = BoundBy(d.steps)
          /\ StampedBy(e.steps) = StampedBy(d.steps)
      <3>1. GoesOnPlainly(d, e, T, snap, live)
        BY <2>2, <2>6 DEF GoesOnPlainly
      <3> QED
        BY <3>1, DraftGoesOnPlainly
    <2>8. \A k \in DOMAIN T : T[k].op \in Aside /\ ~ Replacing(T[k])
      BY <2>1 DEF Aside, Replacing
    <2>9. /\ ReplacesOwn(d.steps) => ReplacesOwn(e.steps)
          /\ \A session, at, p :
                Ready(d.steps, session, at, p) => Ready(e.steps, session, at, p)
      <3>1. d.steps \in Seq(Stp)
        BY <2>3, DraftFields
      <3> HIDE DEF Stp
      <3> QED
        BY <2>1, <2>6, <2>8, <3>1, ReplacesGoOn
    <2> QED
      BY <2>4, <2>6, <2>7, <2>9
  <1> QED
    BY <1>1, <1>2

\* Furnishing a window replaces none.
LEMMA FurnishingReplaces ==
    ASSUME NEW snap, IsSnapshot(snap), NEW w \in DOMAIN snap.panes, NEW ref
    PROVE  \A k \in DOMAIN Furnishing(snap, w, ref) :
              ~ Replacing(Furnishing(snap, w, ref)[k])
  <1> DEFINE n == snap.panes[w]
             splits == [p \in 1 .. n - 1 |-> [op |-> "split", window |-> ref]]
             rest == <<[op |-> "layout", window |-> ref], [op |-> "fill", window |-> ref],
                       [op |-> "stamp", window |-> ref, saved |-> w]>>
             X == {[op |-> "split", window |-> ref], [op |-> "layout", window |-> ref],
                   [op |-> "fill", window |-> ref],
                   [op |-> "stamp", window |-> ref, saved |-> w]}
  <1>1. n - 1 \in Nat
    BY DEF IsSnapshot
  <1>2. splits \in Seq(X) /\ rest \in Seq(X)
    <2> DEFINE m == n - 1
               x == [op |-> "split", window |-> ref]
    <2>1. m \in Nat /\ x \in X
      BY <1>1
    <2> HIDE DEF m, x, X
    <2>2. [p \in 1 .. m |-> x] \in Seq(X)
      BY <2>1
    <2>3. rest \in Seq(X)
      BY DEF X
    <2> QED
      BY <2>2, <2>3 DEF m, x
  <1>3. Furnishing(snap, w, ref) = splits \o rest
    BY DEF Furnishing, Filling
  <1>4. \A x \in X : ~ Replacing(x)
    BY DEF Replacing
  <1> HIDE DEF splits, rest, X
  <1>5. splits \o rest \in Seq(X)
    BY <1>2
  <1>6. \A k \in DOMAIN (splits \o rest) : (splits \o rest)[k] \in X
    BY <1>5
  <1> QED
    BY <1>3, <1>4, <1>6

\* A window built, furnished and stamped as the saved one it is built for.
LEMMA FurnishKeeps ==
    ASSUME NEW snap, NEW live, IsSnapshot(snap),
           NEW d \in Drafts(snap, live),
           NEW w \in Absent(snap, live), w \notin DOMAIN d.built,
           NEW ref \in BoundBy(d.steps), ref \notin StampedBy(d.steps)
    PROVE  LET e == Furnish(d, snap, w, ref)
           IN  /\ e \in Drafts(snap, live)
               /\ e.placeholder = d.placeholder
               /\ ReplacesOwn(d.steps) => ReplacesOwn(e.steps)
  <1> DEFINE T == Furnishing(snap, w, ref)
             f == With(d, T)
             e == [f EXCEPT !.built = Put(f.built, w, ref)]
             Built == UNION {[W -> Refs] : W \in SUBSET DOMAIN snap.panes}
  <1>1. w \in DOMAIN snap.panes /\ w \notin SavedBy(d.steps)
    BY DEF Absent, Drafts
  <1>2. d \in DraftShapes(snap, live) /\ d.refs \in Nat /\ d.built \in Built
    BY DraftFields DEF Drafts
  <1>3. ref \in Refs
    <2>1. ref \in Earlier(d.refs)
      BY DEF Drafts
    <2> QED
      BY <1>2, <2>1 DEF Refs, Earlier
  <1>4. /\ Continues(T, d.steps, snap, KnownOf(live, snap))
        /\ BoundBy(T) = {} /\ SavedBy(T) = {w}
    BY <1>1, <1>3, FurnishingContinues
  <1>5. T \in Seq(Steps(snap, KnownOf(live, snap)))
    BY <1>4 DEF Continues, Sound
  <1>6. e = Furnish(d, snap, w, ref)
    BY DEF Furnish, Furnishing
  <1> HIDE DEF T
  <1>7. /\ f \in DraftShapes(snap, live)
        /\ f.steps = d.steps \o T /\ f.built = d.built /\ f.refs = d.refs
        /\ f.placeholder = d.placeholder
    BY <1>2, <1>5, WithSteps
  <1> HIDE DEF f
  <1> DEFINE B == Put(d.built, w, ref)
  <1>8. /\ DOMAIN B = DOMAIN d.built \cup {w} /\ B[w] = ref
        /\ \A x \in DOMAIN d.built : B[x] = d.built[x]
    BY DEF Put
  <1>9. B \in Built
    <2>1. PICK W \in SUBSET DOMAIN snap.panes : d.built \in [W -> Refs]
      BY <1>2
    <2>2. B \in [W \cup {w} -> Refs]
      BY <1>3, <2>1 DEF Put
    <2>3. W \cup {w} \in SUBSET DOMAIN snap.panes
      BY <1>1
    <2> QED
      BY <2>2, <2>3
  <1> HIDE DEF B
  <1>10. e = [f EXCEPT !.built = B]
    BY <1>7 DEF B
  <1> HIDE DEF e
  <1>11. /\ e \in DraftShapes(snap, live)
         /\ e.steps = d.steps \o T /\ e.built = B /\ e.refs = d.refs
         /\ e.placeholder = d.placeholder
    <2> DEFINE Sq == Seq(Steps(snap, KnownOf(live, snap)))
    <2>1. DraftShapes(snap, live)
            = [steps : Sq, built : Built, refs : Refs, scratch : BOOLEAN,
               placeholder : Nat, unfinished : BOOLEAN]
      BY DEF DraftShapes
    <2> HIDE DEF Sq, Built
    <2> QED
      BY <1>7, <1>9, <1>10, <2>1
  <1>12. \A x \in DOMAIN e.built : e.built[x] \in BoundBy(d.steps) \cup BoundBy(T)
    BY <1>8, <1>11 DEF Drafts
  <1>13. SavedBy(T) \subseteq DOMAIN e.built \cap Absent(snap, live)
    BY <1>4, <1>8, <1>11
  <1>14. DOMAIN d.built \subseteq DOMAIN e.built
    BY <1>8, <1>11
  <1>15. BoundBy(T) \subseteq Earlier(e.refs) /\ Earlier(d.refs) \subseteq Earlier(e.refs)
    BY <1>4, <1>11
  <1>16. e \in Drafts(snap, live)
    <2>1. GoesOn(d, e, T, snap, live)
      BY <1>4, <1>11, <1>12, <1>13, <1>14, <1>15 DEF GoesOn
    <2> QED
      BY <2>1, DraftGoesOn
  <1>17. \A k \in DOMAIN T : ~ Replacing(T[k])
    BY <1>1, FurnishingReplaces DEF T
  <1>18. ReplacesOwn(d.steps) => ReplacesOwn(e.steps)
    <2> DEFINE Stp == Steps(snap, KnownOf(live, snap))
    <2>1. d.steps \in Seq(Stp) /\ T \in Seq(Stp)
      BY <1>2, <1>5, DraftFields
    <2> HIDE DEF Stp
    <2> QED
      BY <1>11, <1>17, <2>1, ReplacesGoOn
  <1> QED
    BY <1>6, <1>11, <1>16, <1>18

\* Where a window can be linked from, if there is any of it.
LEMMA ExistingFacts ==
    ASSUME NEW snap, NEW live, IsSnapshot(snap), IsServer(live, snap),
           NEW d \in Drafts(snap, live), NEW w \in DOMAIN snap.panes
    PROVE  /\ Exists(d, live, w) =>
                /\ Existing(d, live, w) \in [live : KnownOf(live, snap)] \cup [built : Refs]
                /\ "built" \in DOMAIN Existing(d, live, w) =>
                      Existing(d, live, w).built \in BoundBy(d.steps)
           /\ ~ Exists(d, live, w) => w \in Absent(snap, live) /\ w \notin DOMAIN d.built
  <1>1. CASE w \in DOMAIN d.built
    <2>1. Existing(d, live, w) = [built |-> d.built[w]]
      BY <1>1 DEF Existing
    <2>2. d.built[w] \in BoundBy(d.steps)
      BY <1>1 DEF Drafts
    <2>3. d.built[w] \in Refs
      <3>1. d.built \in UNION {[W -> Refs] : W \in SUBSET DOMAIN snap.panes}
        BY DraftFields DEF Drafts
      <3>2. PICK W \in SUBSET DOMAIN snap.panes : d.built \in [W -> Refs]
        BY <3>1
      <3> QED
        BY <1>1, <3>2
    <2> QED
      BY <2>1, <2>2, <2>3 DEF Exists
  <1>2. CASE w \notin DOMAIN d.built /\ Present(live, w) # 0
    <2>1. Existing(d, live, w) = [live |-> Present(live, w)]
      BY <1>2 DEF Existing
    <2>2. Present(live, w) \in KnownOf(live, snap)
      BY <1>2, PresentFacts
    <2> QED
      BY <2>1, <2>2 DEF Exists
  <1>3. CASE w \notin DOMAIN d.built /\ Present(live, w) = 0
    <2>1. Existing(d, live, w) = [none |-> 0]
      BY <1>3 DEF Existing
    <2> QED
      BY <1>3, <2>1 DEF Exists, Absent
  <1> QED
    BY <1>1, <1>2, <1>3

\* A draft whose last steps bind its next reference.
Bind(d, T) == [With(d, T) EXCEPT !.refs = @ + 1]

BindsNext(d, T, snap, live) ==
    /\ Continues(T, d.steps, snap, KnownOf(live, snap))
    /\ BoundBy(T) = {d.refs} /\ StampedBy(T) = {} /\ SavedBy(T) = {}

\* Draft e is d with steps T more, and with its placeholder.
Extends(e, d, T) == e.steps = d.steps \o T /\ e.placeholder = d.placeholder

\* Steps that bind the next reference.
LEMMA BindKeeps ==
    ASSUME NEW snap, NEW live, IsSnapshot(snap),
           NEW d \in Drafts(snap, live), NEW T, BindsNext(d, T, snap, live)
    PROVE  LET e == Bind(d, T)
           IN  /\ e \in Drafts(snap, live) /\ e.built = d.built
               /\ Extends(e, d, T)
               /\ BoundBy(e.steps) = BoundBy(d.steps) \cup {d.refs}
               /\ StampedBy(e.steps) = StampedBy(d.steps)
  <1> DEFINE f == With(d, T)
             e == [f EXCEPT !.refs = f.refs + 1]
             Sq == Seq(Steps(snap, KnownOf(live, snap)))
             Blt == UNION {[W -> Refs] : W \in SUBSET DOMAIN snap.panes}
  <1>1. DraftShapes(snap, live)
          = [steps : Sq, built : Blt, refs : Refs, scratch : BOOLEAN,
             placeholder : Nat, unfinished : BOOLEAN]
    BY DEF DraftShapes
  <1>2. T \in Sq
    BY DEF BindsNext, Continues, Sound
  <1>3. e = Bind(d, T)
    BY DEF Bind
  <1>4. d \in DraftShapes(snap, live)
    BY DEF Drafts
  <1>5. /\ f \in DraftShapes(snap, live)
        /\ f.steps = d.steps \o T /\ f.built = d.built /\ f.refs = d.refs
        /\ f.placeholder = d.placeholder
    BY <1>2, <1>4, WithSteps
  <1> HIDE DEF f, Sq, Blt
  <1>6. /\ e \in DraftShapes(snap, live)
        /\ e.steps = d.steps \o T /\ e.built = d.built /\ e.refs = d.refs + 1
        /\ e.placeholder = d.placeholder
    <2>1. f.refs + 1 \in Refs
      BY <1>5, DraftFields DEF Refs
    <2>2. e \in DraftShapes(snap, live)
      BY <1>1, <1>5, <2>1
    <2>3. /\ e.steps = f.steps /\ e.built = f.built /\ e.refs = f.refs + 1
          /\ e.placeholder = f.placeholder
      BY <1>1, <1>5
    <2> QED
      BY <1>5, <2>2, <2>3
  <1> HIDE DEF e
  <1>7. Earlier(e.refs) = Earlier(d.refs) \cup {d.refs}
    <2>1. d.refs \in Nat /\ d.refs >= 1
      BY <1>4, DraftFields DEF Refs
    <2> QED
      BY <1>6, <2>1 DEF Earlier
  <1>8. \A w \in DOMAIN d.built : d.built[w] \in BoundBy(d.steps)
    BY DEF Drafts
  <1>9. GoesOn(d, e, T, snap, live)
    BY <1>6, <1>7, <1>8 DEF GoesOn, BindsNext
  <1>10. /\ e \in Drafts(snap, live)
         /\ BoundBy(e.steps) = BoundBy(d.steps) \cup BoundBy(T)
         /\ StampedBy(e.steps) = StampedBy(d.steps) \cup StampedBy(T)
    BY <1>9, DraftGoesOn
  <1> QED
    BY <1>3, <1>6, <1>10 DEF BindsNext, Extends

\* A draft whose session has a placeholder to replace, or, at 0, has none.
Holding(d, b) == [d EXCEPT !.placeholder = b]

\* A placeholder more or less is nothing to the steps.
LEMMA HoldingKeeps ==
    ASSUME NEW snap, NEW live, NEW d \in Drafts(snap, live), NEW b \in Nat
    PROVE  LET e == Holding(d, b)
           IN  /\ e \in Drafts(snap, live)
               /\ e.steps = d.steps /\ e.built = d.built /\ e.placeholder = b
  <1> DEFINE e == [d EXCEPT !.placeholder = b]
             Sq == Seq(Steps(snap, KnownOf(live, snap)))
             Blt == UNION {[W -> Refs] : W \in SUBSET DOMAIN snap.panes}
  <1>1. DraftShapes(snap, live)
          = [steps : Sq, built : Blt, refs : Refs, scratch : BOOLEAN,
             placeholder : Nat, unfinished : BOOLEAN]
    BY DEF DraftShapes
  <1>2. d \in DraftShapes(snap, live)
    BY DEF Drafts
  <1> HIDE DEF Sq, Blt
  <1>3. e \in DraftShapes(snap, live)
    BY <1>1, <1>2
  <1>4. /\ e.steps = d.steps /\ e.built = d.built /\ e.refs = d.refs
        /\ e.placeholder = b
    BY <1>1, <1>2
  <1>5. e = Holding(d, b)
    BY DEF Holding
  <1> HIDE DEF e
  <1>6. e \in Drafts(snap, live)
    BY <1>3, <1>4 DEF Drafts
  <1> QED
    BY <1>4, <1>5, <1>6

\* A draft between two sessions, or with its placeholder linked over.
Tidy(d) == d.placeholder = 0 /\ ReplacesOwn(d.steps)

\* A draft whose next link, `link`, takes its placeholder's place, if it has one.
IsOwing(d, live, name, link) ==
    d.placeholder # 0 => /\ Ready(d.steps, name, link.at, d.placeholder)
                         /\ Exists(d, live, link.window)

\* The draft of a session begun, and the links it has still to place.
IsBegun(begun, live, name) ==
    /\ ReplacesOwn(begun.draft.steps)
    /\ begun.draft.placeholder # 0 => begun.rest # <<>>
    /\ begun.rest # <<>> => IsOwing(begun.draft, live, name, begun.rest[1])

\* The next reference is bound by no step yet.
LEMMA NextIsUnbound ==
    ASSUME NEW snap, NEW live, NEW d \in Drafts(snap, live)
    PROVE  d.refs \in Refs /\ d.refs \notin BoundBy(d.steps)
  <1>1. d.refs \in Nat /\ d.refs \in Refs
    BY DraftFields DEF Drafts
  <1>2. d.refs \notin Earlier(d.refs)
    BY <1>1 DEF Earlier
  <1> QED
    BY <1>1, <1>2 DEF Drafts

\* A window placed, linked where it exists and made where it does not, leaves
\* the draft sound; a link takes the place of the draft's placeholder only.
LEMMA PlaceWindowKeeps ==
    ASSUME NEW snap, NEW live, IsSnapshot(snap), IsServer(live, snap),
           NEW d \in Drafts(snap, live), NEW name \in DOMAIN snap.links,
           NEW link \in Links(snap)
    PROVE  LET e == PlaceWindow(d, snap, live, name, link)
           IN  /\ e \in Drafts(snap, live)
               /\ ReplacesOwn(d.steps) /\ IsOwing(d, live, name, link) => Tidy(e)
  <1> DEFINE Stp == Steps(snap, KnownOf(live, snap))
  <1>1. /\ d \in DraftShapes(snap, live) /\ d.placeholder \in Nat
        /\ d.refs \in Refs /\ d.refs \notin BoundBy(d.steps)
        /\ link.at \in Nat /\ link.window \in DOMAIN snap.panes
    BY DraftFields, NextIsUnbound DEF Drafts, Links
  <1>2. CASE Exists(d, live, link.window)
    <2> DEFINE source == Existing(d, live, link.window)
               s == [op |-> "link", session |-> name, at |-> link.at,
                     source |-> source, replacing |-> d.placeholder]
               T == <<s>>
               f == With(d, T)
    <2>1. /\ source \in [live : KnownOf(live, snap)] \cup [built : Refs]
          /\ "built" \in DOMAIN source => source.built \in BoundBy(d.steps)
      BY <1>1, <1>2, ExistingFacts
    <2> HIDE DEF source
    <2>2. s \in Stp
      BY <1>1, <2>1 DEF Steps
    <2>3. s.op \in Plain /\ Uses(s) \subseteq BoundBy(d.steps)
      BY <2>1 DEF Plain, Uses
    <2>9. /\ s.session = name /\ s.at = link.at
          /\ Replacing(s) => d.placeholder # 0 /\ s.replacing = d.placeholder
      BY DEF Replacing
    <2> HIDE DEF s, Stp
    <2>4. T \in Seq(Stp) /\ DOMAIN T = {1} /\ T[1] = s
      BY <2>2
    <2>5. /\ Continues(T, d.steps, snap, KnownOf(live, snap))
          /\ BoundBy(T) = {} /\ StampedBy(T) = {} /\ SavedBy(T) = {}
      BY <2>3, <2>4, PlainContinues DEF Stp
    <2> HIDE DEF T
    <2>6. /\ f \in DraftShapes(snap, live)
          /\ f.steps = d.steps \o T /\ f.built = d.built /\ f.refs = d.refs
      BY <1>1, <2>4, WithSteps DEF Stp
    <2> HIDE DEF f
    <2>7. f \in Drafts(snap, live)
      <3>1. GoesOnPlainly(d, f, T, snap, live)
        BY <2>5, <2>6 DEF GoesOnPlainly
      <3> QED
        BY <3>1, DraftGoesOnPlainly
    <2>8. PlaceWindow(d, snap, live, name, link) = Holding(f, 0)
      BY <1>2 DEF PlaceWindow, Holding, f, T, s, source
    <2>10. ReplacesOwn(d.steps) /\ IsOwing(d, live, name, link) => ReplacesOwn(f.steps)
      <3>1. d.steps \in Seq(Stp)
        BY <1>1, DraftFields DEF Stp
      <3>2. IsOwing(d, live, name, link) /\ Replacing(s)
              => Ready(d.steps, s.session, s.at, s.replacing)
        BY <2>9 DEF IsOwing
      <3> QED
        BY <2>2, <2>4, <2>6, <3>1, <3>2, ReplacesGoOn DEF T
    <2> QED
      BY <2>7, <2>8, <2>10, HoldingKeeps DEF Tidy
  <1>3. CASE ~ Exists(d, live, link.window)
    <2> DEFINE s == [op |-> "new", session |-> name, at |-> link.at, window |-> d.refs]
               T == <<s>>
               g == Bind(d, T)
    <2>1. s \in Stp
      BY <1>1 DEF Steps
    <2>2. s.op = "new" /\ s.window = d.refs /\ ~ Replacing(s)
      BY DEF Replacing
    <2>3. PlaceWindow(d, snap, live, name, link)
            = Furnish(g, snap, link.window, d.refs)
      BY <1>3 DEF PlaceWindow, Bind
    <2> HIDE DEF s
    <2>4. BindsNext(d, T, snap, live)
      <3>1. /\ Continues(<<s>>, d.steps, snap, KnownOf(live, snap))
            /\ BoundBy(<<s>>) = {s.window}
            /\ StampedBy(<<s>>) = {} /\ SavedBy(<<s>>) = {}
        BY <1>1, <2>1, <2>2, NewContinues
      <3> HIDE DEF Stp
      <3>2. /\ Continues(T, d.steps, snap, KnownOf(live, snap))
            /\ BoundBy(T) = {d.refs}
            /\ StampedBy(T) = {} /\ SavedBy(T) = {}
        BY <2>2, <3>1
      <3> HIDE DEF T
      <3> QED
        BY <3>2 DEF BindsNext
    <2>8. ReplacesOwn(d.steps) => ReplacesOwn(d.steps \o T)
      <3>1. d.steps \in Seq(Stp)
        BY <1>1, DraftFields
      <3> HIDE DEF Stp
      <3>2. T \in Seq(Stp) /\ \A k \in DOMAIN T : ~ Replacing(T[k])
        BY <2>1, <2>2
      <3> HIDE DEF T
      <3> QED
        BY <3>1, <3>2, ReplacesGoOn
    <2> HIDE DEF T
    <2>5. /\ g \in Drafts(snap, live) /\ g.built = d.built
          /\ Extends(g, d, T)
          /\ BoundBy(g.steps) = BoundBy(d.steps) \cup {d.refs}
          /\ StampedBy(g.steps) = StampedBy(d.steps)
      BY <2>4, BindKeeps
    <2> HIDE DEF g
    <2>6. link.window \in Absent(snap, live) /\ link.window \notin DOMAIN g.built
      BY <1>1, <1>3, <2>5, ExistingFacts
    <2>7. d.refs \in BoundBy(g.steps) /\ d.refs \notin StampedBy(g.steps)
      BY <1>1, <2>5, StampedIsBound
    <2>9. IsOwing(d, live, name, link) => d.placeholder = 0
      BY <1>3 DEF IsOwing
    <2>10. /\ g.placeholder = d.placeholder
           /\ ReplacesOwn(d.steps) => ReplacesOwn(g.steps)
      BY <2>5, <2>8 DEF Extends
    <2> QED
      BY <2>3, <2>5, <2>6, <2>7, <2>9, <2>10, FurnishKeeps DEF Tidy
  <1> QED
    BY <1>2, <1>3

\* A session made for the first of the windows it lacks leaves the draft sound,
\* and a placeholder where the first link goes.
LEMMA MakeSessionKeeps ==
    ASSUME NEW snap, NEW live, IsSnapshot(snap), IsServer(live, snap),
           NEW d \in Drafts(snap, live), NEW name \in DOMAIN snap.links,
           NEW missing \in Seq(Links(snap)), missing # <<>>
    PROVE  LET begun == MakeSession(d, snap, live, name, missing)
           IN  /\ begun.draft \in Drafts(snap, live)
               /\ begun.rest \in Seq(Links(snap))
               /\ Tidy(d) => IsBegun(begun, live, name)
  <1> DEFINE Stp == Steps(snap, KnownOf(live, snap))
             toBuild == {k \in DOMAIN missing : ~ Exists(d, live, missing[k].window)}
             seed == IF toBuild = {} THEN 1 ELSE Min(toBuild)
             create == [op |-> "create", session |-> name, window |-> d.refs]
             move == [op |-> "move", session |-> name, at |-> missing[seed].at,
                      window |-> d.refs]
             T == <<create, move>>
             bound == Bind(d, T)
             made == CloseScratch(bound, name)
             begun == MakeSession(d, snap, live, name, missing)
  <1>1. d.refs \in Refs /\ d.refs \notin BoundBy(d.steps)
    BY NextIsUnbound
  <1>2. begun = IF toBuild = {}
                THEN [draft |-> Holding(made, d.refs), rest |-> missing]
                ELSE [draft |-> Furnish(made, snap, missing[seed].window, d.refs),
                      rest |-> RemoveAt(missing, seed)]
    BY DEF MakeSession, Bind, Holding
  <1>3. DOMAIN missing = 1 .. Len(missing) /\ Len(missing) \in Nat /\ Len(missing) # 0
    OBVIOUS
  <1>4. toBuild # {} => seed \in toBuild
    <2>1. toBuild \in SUBSET Nat
      BY <1>3
    <2> HIDE DEF toBuild
    <2> QED
      BY <2>1, MinIsLeast
  <1>5. seed \in DOMAIN missing
    BY <1>3, <1>4
  <1>6. missing[seed].at \in Nat /\ missing[seed].window \in DOMAIN snap.panes
    <2> HIDE DEF seed
    <2>1. missing[seed] \in Links(snap)
      BY <1>5
    <2> QED
      BY <2>1 DEF Links
  <1>7. /\ toBuild # {} => ~ Exists(d, live, missing[seed].window)
        /\ toBuild = {} => seed = 1 /\ Exists(d, live, missing[1].window)
    BY <1>3, <1>4
  <1> HIDE DEF begun, toBuild, seed
  <1>8. create \in Stp /\ move \in Stp
    BY <1>1, <1>6 DEF Steps
  <1>9. Makes(T) /\ T[1] = create /\ create.window = d.refs
    BY DEF Makes
  <1>15. move = [op |-> "move", session |-> name, at |-> missing[seed].at,
                 window |-> d.refs]
         /\ ~ Replacing(create) /\ ~ Replacing(move)
    BY DEF Replacing
  <1> HIDE DEF create, move
  <1>10. BindsNext(d, T, snap, live)
    <2>1. T \in Seq(Stp)
      <3> HIDE DEF Stp
      <3> QED
        BY <1>8
    <2> HIDE DEF T
    <2>2. /\ Continues(T, d.steps, snap, KnownOf(live, snap))
          /\ BoundBy(T) = {T[1].window} /\ StampedBy(T) = {} /\ SavedBy(T) = {}
      BY <1>1, <1>9, <2>1, CreateContinues
    <2> QED
      BY <1>9, <2>2 DEF BindsNext
  <1>16. /\ Ready(d.steps \o T, name, missing[seed].at, d.refs)
         /\ ReplacesOwn(d.steps) => ReplacesOwn(d.steps \o T)
    <2>1. d.steps \in Seq(Stp)
      BY DraftFields DEF Drafts
    <2> HIDE DEF Stp
    <2>2. T \in Seq(Stp) /\ \A k \in DOMAIN T : ~ Replacing(T[k])
      BY <1>8, <1>15
    <2>3. Ready(d.steps \o T, name, missing[seed].at, d.refs)
      BY <1>8, <1>15, <2>1, ReadyNow
    <2> HIDE DEF T
    <2> QED
      BY <2>1, <2>2, <2>3, ReplacesGoOn
  <1> HIDE DEF T
  <1>11. /\ bound \in Drafts(snap, live) /\ bound.built = d.built
         /\ Extends(bound, d, T)
         /\ BoundBy(bound.steps) = BoundBy(d.steps) \cup {d.refs}
         /\ StampedBy(bound.steps) = StampedBy(d.steps)
    BY <1>10, BindKeeps
  <1> HIDE DEF bound
  <1>12. /\ made \in Drafts(snap, live) /\ made.built = bound.built
         /\ made.placeholder = bound.placeholder
         /\ ReplacesOwn(bound.steps) => ReplacesOwn(made.steps)
         /\ \A session, at, p :
               Ready(bound.steps, session, at, p) => Ready(made.steps, session, at, p)
         /\ BoundBy(made.steps) = BoundBy(bound.steps)
         /\ StampedBy(made.steps) = StampedBy(bound.steps)
    BY <1>11, CloseScratchKeeps
  <1> HIDE DEF made
  <1>17. /\ Ready(made.steps, name, missing[seed].at, d.refs)
         /\ ReplacesOwn(d.steps) => ReplacesOwn(made.steps)
         /\ made.placeholder = d.placeholder
    BY <1>11, <1>12, <1>16 DEF Extends
  <1>13. CASE toBuild = {}
    <2> DEFINE e == Holding(made, d.refs)
    <2>1. begun.draft = e /\ begun.rest = missing
      BY <1>2, <1>13
    <2>2. /\ e \in Drafts(snap, live)
          /\ e.steps = made.steps /\ e.built = made.built /\ e.placeholder = d.refs
      <3>1. d.refs \in Nat
        BY <1>1 DEF Refs
      <3>2. made \in Drafts(snap, live)
        BY <1>12
      <3>3. ASSUME NEW b \in Nat
            PROVE  LET g == Holding(made, b)
                   IN  /\ g \in Drafts(snap, live)
                       /\ g.steps = made.steps /\ g.built = made.built
                       /\ g.placeholder = b
        BY <3>2, HoldingKeeps
      <3> QED
        BY <3>1, <3>3
    <2> HIDE DEF e
    <2>3. IsOwing(e, live, name, missing[1])
      <3>1. Exists(e, live, missing[1].window)
        BY <1>7, <1>11, <1>12, <1>13, <2>2 DEF Exists, Existing
      <3> QED
        BY <1>7, <1>13, <1>17, <2>2, <3>1 DEF IsOwing
    <2>4. Tidy(d) => IsBegun(begun, live, name)
      BY <1>17, <2>1, <2>2, <2>3 DEF Tidy, IsBegun
    <2> QED
      BY <2>1, <2>2, <2>4 DEF begun
  <1>14. CASE toBuild # {}
    <2> DEFINE w == missing[seed].window
    <2>1. /\ begun.draft = Furnish(made, snap, w, d.refs)
          /\ begun.rest = RemoveAt(missing, seed)
      BY <1>2, <1>14
    <2>2. w \in DOMAIN snap.panes /\ ~ Exists(d, live, w)
      BY <1>6, <1>7, <1>14
    <2> HIDE DEF w
    <2>3. w \in Absent(snap, live) /\ w \notin DOMAIN made.built
      BY <1>11, <1>12, <2>2, ExistingFacts
    <2>4. d.refs \in BoundBy(made.steps) /\ d.refs \notin StampedBy(made.steps)
      BY <1>1, <1>11, <1>12, StampedIsBound
    <2>5. LET e == Furnish(made, snap, w, d.refs)
          IN  /\ e \in Drafts(snap, live)
              /\ e.placeholder = made.placeholder
              /\ ReplacesOwn(made.steps) => ReplacesOwn(e.steps)
      BY <1>12, <2>3, <2>4, FurnishKeeps
    <2>6. RemoveAt(missing, seed) \in Seq(Links(snap))
      <3> DEFINE L == Links(snap)
      <3>1. missing \in Seq(L) /\ seed \in 1 .. Len(missing) /\ Len(missing) \in Nat
        BY <1>3, <1>5
      <3> HIDE DEF L
      <3>2. SubSeq(missing, 1, seed - 1) \in Seq(L)
        BY <3>1
      <3>3. SubSeq(missing, seed + 1, Len(missing)) \in Seq(L)
        BY <3>1
      <3>4. RemoveAt(missing, seed) \in Seq(L)
        BY <3>2, <3>3, ConcatProperties DEF RemoveAt
      <3> QED
        BY <3>4 DEF L
    <2>7. Tidy(d) => IsBegun(begun, live, name)
      BY <1>17, <2>1, <2>5 DEF Tidy, IsBegun, IsOwing
    <2> QED
      BY <2>1, <2>5, <2>6, <2>7 DEF begun
  <1> QED
    BY <1>13, <1>14

\* All that is planned for a session leaves the draft sound, and no placeholder,
\* however many its windows are.
LEMMA SessionKeeps ==
    ASSUME NEW snap, NEW live, IsSnapshot(snap), IsServer(live, snap),
           NEW d \in Drafts(snap, live), NEW name \in DOMAIN snap.links
    PROVE  /\ Session(d, snap, live, name) \in Drafts(snap, live)
           /\ Tidy(d) => Tidy(Session(d, snap, live, name))
  <1> DEFINE Stp == Steps(snap, KnownOf(live, snap))
             D == Drafts(snap, live)
             lives == live.links[name] # << >>
             missing == Placed(snap, live, name)
             begun == IF lives THEN [draft |-> CloseScratch(d, name), rest |-> missing]
                               ELSE MakeSession(d, snap, live, name, missing)
             n == Len(begun.rest)
             start == begun.draft
             placing[k \in 0 .. n] ==
                IF k = 0 THEN start
                ELSE PlaceWindow(placing[k - 1], snap, live, name, begun.rest[k])
             placed == placing[n]
             shown == IF lives THEN <<>>
                      ELSE <<[op |-> "select", session |-> name,
                              at |-> snap.active[name]]>>
             marks == IF d.unfinished \/ Len(placed.steps \o shown) > Len(d.steps)
                       THEN <<[op |-> "mark", session |-> name]>> ELSE <<>>
             F == [k \in 1..n |-> [e \in D |->
                      PlaceWindow(e, snap, live, name, begun.rest[k])]]
  <1>1. Session(d, snap, live, name) = Holding(With(placed, shown \o marks), 0)
    BY DEF Session, Holding
  <1>2. missing \in Seq(Links(snap)) /\ (~ lives => missing # <<>>)
    BY PlacedFacts
  <1>3. /\ begun.draft \in D /\ begun.rest \in Seq(Links(snap))
        /\ Tidy(d) => IsBegun(begun, live, name)
    <2>1. CASE lives
      <3> DEFINE e == CloseScratch(d, name)
      <3>1. begun.draft = e /\ begun.rest = missing
        BY <2>1
      <3>2. /\ e \in D /\ e.placeholder = d.placeholder
            /\ ReplacesOwn(d.steps) => ReplacesOwn(e.steps)
        BY CloseScratchKeeps
      <3> HIDE DEF e, begun
      <3>3. Tidy(d) => IsBegun(begun, live, name)
        BY <3>1, <3>2 DEF Tidy, IsBegun, IsOwing
      <3> QED
        BY <1>2, <3>1, <3>2, <3>3
    <2>2. CASE ~ lives
      <3>1. begun = MakeSession(d, snap, live, name, missing)
        BY <2>2
      <3> HIDE DEF begun, missing, lives, D
      <3>2. missing # <<>>
        BY <1>2, <2>2
      <3> QED
        BY <1>2, <3>1, <3>2, MakeSessionKeeps DEF D
    <2> QED
      BY <2>1, <2>2
  <1> HIDE DEF begun
  <1>4. /\ n \in Nat
        /\ \A k \in 1..n : begun.rest[k] \in Links(snap)
    <2> DEFINE L == Links(snap)
    <2>1. begun.rest \in Seq(L)
      BY <1>3
    <2> HIDE DEF L
    <2>2. n \in Nat /\ \A k \in 1..n : begun.rest[k] \in L
      BY <2>1
    <2> QED
      BY <2>2 DEF L
  <1>5. ASSUME NEW k \in 1..n, NEW e \in D
        PROVE  LET g == PlaceWindow(e, snap, live, name, begun.rest[k])
               IN  /\ g \in D
                   /\ ReplacesOwn(e.steps) /\ IsOwing(e, live, name, begun.rest[k])
                        => Tidy(g)
    BY <1>4, PlaceWindowKeeps
  <1>6. F \in [1..n -> [D -> D]] /\ start \in D
    <2> HIDE DEF D, n
    <2> QED
      BY <1>3, <1>5
  <1>7. PICK f \in [0..n -> D] : f[0] = start /\ \A k \in 1..n : f[k] = F[k][f[k - 1]]
    <2>1. n \in Nat
      BY <1>4
    <2> HIDE DEF D, F, placing, n, start
    <2>2. Iterates(n, D, start, F)
      BY <1>6, <2>1, Iteration
    <2> QED
      BY <2>2 DEF Iterates
  <1>8. f = [k \in 0..n |-> IF k = 0 THEN start
                ELSE PlaceWindow(f[k - 1], snap, live, name, begun.rest[k])]
    <2>1. n \in Nat
      BY <1>4
    <2> HIDE DEF D, n, start
    <2>2. ASSUME NEW k \in 0..n, k # 0
          PROVE  f[k] = PlaceWindow(f[k - 1], snap, live, name, begun.rest[k])
      <3>1. k \in 1..n /\ k - 1 \in 0..n
        BY <2>1, <2>2
      <3>2. F[k][f[k - 1]] = PlaceWindow(f[k - 1], snap, live, name, begun.rest[k])
        BY <1>7, <3>1
      <3> QED
        BY <1>7, <3>1, <3>2
    <2> QED
      BY <1>7, <2>2
  <1>9. placing = [k \in 0..n |-> IF k = 0 THEN start
                ELSE PlaceWindow(placing[k - 1], snap, live, name, begun.rest[k])]
    BY <1>8
  <1> HIDE DEF placing
  <1>10. /\ \A k \in 0..n : placing[k] \in D
         /\ placed \in D
    <2>1. n \in Nat /\ n \in 0..n
      BY <1>4
    <2> HIDE DEF n, start
    <2>2. placing[0] = start
      BY <1>9, <2>1
    <2>3. ASSUME NEW k \in 1..n, placing[k - 1] \in D
          PROVE  placing[k] = F[k][placing[k - 1]]
      <3>1. k \in 0..n /\ k # 0
        BY <2>1
      <3>2. placing[k] = PlaceWindow(placing[k - 1], snap, live, name, begun.rest[k])
        BY <1>9, <3>1
      <3> HIDE DEF D
      <3> QED
        BY <2>3, <3>2
    <2> HIDE DEF F, D
    <2>4. \A k \in 0..n : placing[k] \in D
      <3>1. TakesSteps(placing, n, D, start, F)
        BY <2>2, <2>3 DEF TakesSteps
      <3> QED
        BY <1>6, <2>1, <3>1, IterationStays
    <2> QED
      BY <2>1, <2>4
  <1>16. Tidy(d) => Tidy(placed)
    <2> SUFFICES ASSUME IsBegun(begun, live, name)
                 PROVE  Tidy(placed)
      BY <1>3
    <2>1. n \in Nat /\ n \in 0..n /\ (n = 0 <=> begun.rest = <<>>)
      <3> DEFINE L == Links(snap)
      <3>1. begun.rest \in Seq(L)
        BY <1>3
      <3> HIDE DEF L
      <3> QED
        BY <3>1
    <2>2. placing[0] = begun.draft
      BY <1>9, <2>1
    <2> DEFINE Q == {k \in Nat : k + 1 \in 1..n => Tidy(placing[k + 1])}
    <2>3. ASSUME NEW k \in 0..n, k + 1 \in 1..n,
                 ReplacesOwn(placing[k].steps),
                 IsOwing(placing[k], live, name, begun.rest[k + 1])
          PROVE  Tidy(placing[k + 1])
      <3>1. k + 1 \in 0..n /\ k + 1 # 0 /\ (k + 1) - 1 = k
        BY <2>1, <2>3
      <3>2. placing[k + 1] = PlaceWindow(placing[k], snap, live, name, begun.rest[k + 1])
        BY <1>9, <3>1
      <3> HIDE DEF D, n
      <3> QED
        BY <1>5, <1>10, <2>3, <3>2
    <2>4. 0 \in Q
      <3> SUFFICES ASSUME 1 \in 1..n
                   PROVE  Tidy(placing[1])
        OBVIOUS
      <3>1. n # 0 /\ 0 \in 0..n /\ 0 + 1 = 1
        BY <2>1
      <3>2. ReplacesOwn(placing[0].steps) /\ IsOwing(placing[0], live, name, begun.rest[1])
        BY <2>1, <2>2, <3>1 DEF IsBegun
      <3> HIDE DEF n
      <3> QED
        BY <2>3, <3>1, <3>2
    <2>5. ASSUME NEW k \in Q
          PROVE  k + 1 \in Q
      <3> SUFFICES ASSUME k + 2 \in 1..n
                   PROVE  Tidy(placing[k + 2])
        OBVIOUS
      <3>1. k + 1 \in 1..n /\ k + 1 \in 0..n /\ (k + 1) + 1 = k + 2
        BY <2>1
      <3>2. Tidy(placing[k + 1])
        BY <3>1
      <3>3. /\ ReplacesOwn(placing[k + 1].steps)
            /\ IsOwing(placing[k + 1], live, name, begun.rest[(k + 1) + 1])
        BY <3>2 DEF Tidy, IsOwing
      <3> HIDE DEF n, Q
      <3> QED
        BY <2>3, <3>1, <3>3
    <2>6. Q = Nat
      <3> HIDE DEF Q
      <3>1. Q \in SUBSET Nat
        BY DEF Q
      <3> QED
        BY <2>4, <2>5, <3>1, Induction
    <2>7. CASE n = 0
      <3>1. placed = begun.draft /\ begun.rest = <<>>
        BY <2>1, <2>2, <2>7
      <3> HIDE DEF placed
      <3> QED
        BY <3>1 DEF IsBegun, Tidy
    <2>8. CASE n # 0
      <3>1. n - 1 \in Q /\ (n - 1) + 1 = n /\ n \in 1..n
        <4> HIDE DEF Q, n
        <4> QED
          BY <2>1, <2>6, <2>8
      <3> QED
        BY <3>1
    <2> QED
      BY <2>7, <2>8
  <1> HIDE DEF placed, lives
  <1> DEFINE T == shown \o marks
  <1>11. /\ T \in Seq(Stp)
         /\ \A k \in DOMAIN T : /\ T[k].op \in Plain /\ Uses(T[k]) = {}
                                /\ ~ Replacing(T[k])
    <2> DEFINE select == [op |-> "select", session |-> name, at |-> snap.active[name]]
               mark == [op |-> "mark", session |-> name]
    <2>1. select \in Stp /\ mark \in Stp
      <3>1. snap.active[name] \in Nat
        BY DEF IsSnapshot
      <3> QED
        BY <3>1 DEF Steps
    <2>2. /\ select.op \in Plain /\ mark.op \in Plain
          /\ Uses(select) = {} /\ Uses(mark) = {}
          /\ ~ Replacing(select) /\ ~ Replacing(mark)
      BY DEF Plain, Uses, Replacing
    <2>3. shown \in {<<>>, <<select>>} /\ marks \in {<<>>, <<mark>>}
      OBVIOUS
    <2> HIDE DEF select, mark, shown, marks, Stp
    <2>4. shown \in Seq(Stp) /\ marks \in Seq(Stp)
      BY <2>1, <2>3
    <2>5. /\ \A k \in DOMAIN shown : shown[k] = select
          /\ \A k \in DOMAIN marks : marks[k] = mark
      BY <2>3
    <2>6. /\ T \in Seq(Stp)
          /\ \A k \in DOMAIN shown : k \in DOMAIN T /\ T[k] = shown[k]
          /\ \A k \in DOMAIN marks : T[Len(shown) + k] = marks[k]
          /\ \A k \in DOMAIN T :
                k \in DOMAIN shown \/ \E j \in DOMAIN marks : k = Len(shown) + j
      BY <2>4, JoinedAt
    <2> HIDE DEF T
    <2>7. \A k \in DOMAIN T : T[k] = select \/ T[k] = mark
      BY <2>5, <2>6
    <2> QED
      BY <2>2, <2>6, <2>7
  <1> HIDE DEF T
  <1> DEFINE e == With(placed, T)
  <1>12. /\ Continues(T, placed.steps, snap, KnownOf(live, snap))
         /\ BoundBy(T) = {} /\ StampedBy(T) = {} /\ SavedBy(T) = {}
    BY <1>11, PlainContinues
  <1>13. /\ e \in DraftShapes(snap, live)
         /\ e.steps = placed.steps \o T /\ e.built = placed.built /\ e.refs = placed.refs
    BY <1>10, <1>11, WithSteps DEF Drafts
  <1> HIDE DEF e
  <1>14. e \in Drafts(snap, live)
    <2>1. GoesOnPlainly(placed, e, T, snap, live)
      BY <1>12, <1>13 DEF GoesOnPlainly
    <2> QED
      BY <1>10, <2>1, DraftGoesOnPlainly
  <1>15. /\ Holding(e, 0) \in Drafts(snap, live)
         /\ Holding(e, 0).steps = e.steps /\ Holding(e, 0).placeholder = 0
    BY <1>14, HoldingKeeps
  <1>17. ReplacesOwn(placed.steps) => ReplacesOwn(e.steps)
    <2>1. placed.steps \in Seq(Stp)
      BY <1>10, DraftFields DEF Drafts
    <2> HIDE DEF Stp
    <2> QED
      BY <1>11, <1>13, <2>1, ReplacesGoOn
  <1>18. Tidy(d) => Tidy(Holding(e, 0))
    BY <1>15, <1>16, <1>17 DEF Tidy
  <1> QED
    BY <1>1, <1>15, <1>18 DEF e, T

\* Whatever was saved and whatever the server holds, the steps of a plan come
\* in an order that can be relied on: what is used is bound before, a window
\* is stamped once, after all that makes it whole, no saved window that the
\* server has is stamped again, and a link takes the place only of a window
\* the plan has just put there.
THEOREM PlanIsSound ==
    ASSUME NEW snap, NEW live, IsSnapshot(snap), IsServer(live, snap),
           NEW scratch \in BOOLEAN
    PROVE  LET S == Plan(snap, live, scratch)
           IN  /\ Sound(S, {}, snap, KnownOf(live, snap))
               /\ SavedBy(S) \subseteq Absent(snap, live)
               /\ ReplacesOwn(S)
  <1> DEFINE Stp == Steps(snap, KnownOf(live, snap))
             D == Drafts(snap, live)
             blank == [steps |-> <<>>, built |-> <<>>, refs |-> 1, scratch |-> scratch,
                       placeholder |-> 0, unfinished |-> ~ live.touched]
             n == Len(snap.order)
             drafting[k \in 0 .. n] ==
                IF k = 0 THEN blank
                ELSE Session(drafting[k - 1], snap, live, snap.order[k])
             drafted == drafting[n]
             T == IF drafted.unfinished THEN <<[op |-> "touch"]>> ELSE <<>>
             F == [k \in 1..n |-> [e \in D |-> Session(e, snap, live, snap.order[k])]]
  <1>1. Plan(snap, live, scratch) = drafted.steps \o T
    BY DEF Plan
  <1>2. blank \in D /\ Tidy(blank)
    <2> DEFINE Sq == Seq(Stp)
               Blt == UNION {[W -> Refs] : W \in SUBSET DOMAIN snap.panes}
               unfinished == ~ live.touched
               no == 0
               nil == <<>>
    <2>1. DraftShapes(snap, live)
            = [steps : Sq, built : Blt, refs : Refs, scratch : BOOLEAN,
               placeholder : Nat, unfinished : BOOLEAN]
      BY DEF DraftShapes
    <2>2. nil \in Sq /\ 1 \in Refs /\ no \in Nat /\ unfinished \in BOOLEAN
      BY DEF Refs
    <2>3. nil \in Blt
      <3>1. nil \in [{} -> Refs]
        OBVIOUS
      <3> QED
        BY <3>1
    <2>4. nil = <<>> /\ DOMAIN nil = {}
      OBVIOUS
    <2>5. Sound(nil, {}, snap, KnownOf(live, snap))
      BY <2>2, <2>4 DEF Sound, BoundFirst, BoundOnce, MovedAtOnce, StampedLast, StampedAll, Stamps
    <2>6. BoundBy(nil) = {} /\ SavedBy(nil) = {}
      BY <2>4 DEF BoundBy, SavedBy, Stamps
    <2>7. blank = [steps |-> nil, built |-> nil, refs |-> 1, scratch |-> scratch,
                   placeholder |-> no, unfinished |-> unfinished]
      OBVIOUS
    <2> HIDE DEF Sq, Blt, unfinished, no, nil, blank
    <2>8. blank \in DraftShapes(snap, live)
      BY <2>1, <2>2, <2>3, <2>7
    <2>9. blank.steps = nil /\ blank.built = nil /\ blank.placeholder = no
      BY <2>7
    <2>10. Tidy(blank)
      BY <2>4, <2>9 DEF Tidy, ReplacesOwn, no
    <2> QED
      BY <2>4, <2>5, <2>6, <2>8, <2>9, <2>10 DEF Drafts
  <1> HIDE DEF blank
  <1>3. n \in Nat /\ \A k \in 1..n : snap.order[k] \in DOMAIN snap.links
    <2> DEFINE N == DOMAIN snap.links
    <2>1. snap.order \in Seq(N)
      BY DEF IsSnapshot
    <2> HIDE DEF N
    <2>2. n \in Nat /\ \A k \in 1..n : snap.order[k] \in N
      BY <2>1
    <2> QED
      BY <2>2 DEF N
  <1>4. ASSUME NEW k \in 1..n, NEW e \in D
        PROVE  /\ Session(e, snap, live, snap.order[k]) \in D
               /\ Tidy(e) => Tidy(Session(e, snap, live, snap.order[k]))
    BY <1>3, SessionKeeps
  <1>5. F \in [1..n -> [D -> D]]
    <2> HIDE DEF D, n
    <2> QED
      BY <1>4
  <1>6. PICK f \in [0..n -> D] : f[0] = blank /\ \A k \in 1..n : f[k] = F[k][f[k - 1]]
    <2>1. n \in Nat
      BY <1>3
    <2> HIDE DEF D, F, drafting, n
    <2>2. Iterates(n, D, blank, F)
      BY <1>2, <1>5, <2>1, Iteration
    <2> QED
      BY <2>2 DEF Iterates
  <1>7. f = [k \in 0..n |-> IF k = 0 THEN blank
                            ELSE Session(f[k - 1], snap, live, snap.order[k])]
    <2>1. n \in Nat
      BY <1>3
    <2> HIDE DEF D, n
    <2>2. ASSUME NEW k \in 0..n, k # 0
          PROVE  f[k] = Session(f[k - 1], snap, live, snap.order[k])
      <3>1. k \in 1..n /\ k - 1 \in 0..n
        BY <2>1, <2>2
      <3>2. F[k][f[k - 1]] = Session(f[k - 1], snap, live, snap.order[k])
        BY <1>6, <3>1
      <3> QED
        BY <1>6, <3>1, <3>2
    <2> QED
      BY <1>6, <2>2
  <1>8. drafting = [k \in 0..n |-> IF k = 0 THEN blank
                       ELSE Session(drafting[k - 1], snap, live, snap.order[k])]
    BY <1>7
  <1> HIDE DEF drafting
  <1>9. /\ \A k \in 0..n : drafting[k] \in D
        /\ drafted \in D
    <2>1. n \in Nat /\ n \in 0..n
      BY <1>3
    <2> HIDE DEF n
    <2>2. drafting[0] = blank
      BY <1>8, <2>1
    <2>3. ASSUME NEW k \in 1..n, drafting[k - 1] \in D
          PROVE  drafting[k] = F[k][drafting[k - 1]]
      <3>1. k \in 0..n /\ k # 0
        BY <2>1
      <3>2. drafting[k] = Session(drafting[k - 1], snap, live, snap.order[k])
        BY <1>8, <3>1
      <3> HIDE DEF D
      <3> QED
        BY <2>3, <3>2
    <2> HIDE DEF F, D
    <2>4. \A k \in 0..n : drafting[k] \in D
      <3>1. TakesSteps(drafting, n, D, blank, F)
        BY <2>2, <2>3 DEF TakesSteps
      <3> QED
        BY <1>2, <1>5, <2>1, <3>1, IterationStays
    <2> QED
      BY <2>1, <2>4
  <1>15. Tidy(drafted)
    <2>1. n \in Nat /\ n \in 0..n /\ drafting[0] = blank
      BY <1>3, <1>8
    <2> DEFINE Q == {k \in Nat : k \in 0..n => Tidy(drafting[k])}
    <2>2. 0 \in Q
      BY <1>2, <2>1
    <2>3. ASSUME NEW k \in Q
          PROVE  k + 1 \in Q
      <3> SUFFICES ASSUME k + 1 \in 0..n
                   PROVE  Tidy(drafting[k + 1])
        OBVIOUS
      <3>1. k \in 0..n /\ k + 1 \in 1..n /\ k + 1 # 0 /\ (k + 1) - 1 = k
        BY <2>1
      <3>2. drafting[k + 1] = Session(drafting[k], snap, live, snap.order[k + 1])
        BY <1>8, <3>1
      <3>3. Tidy(drafting[k])
        BY <3>1
      <3> HIDE DEF D, n, Q
      <3> QED
        BY <1>4, <1>9, <3>1, <3>2, <3>3
    <2>4. Q = Nat
      <3> HIDE DEF Q
      <3>1. Q \in SUBSET Nat
        BY DEF Q
      <3> QED
        BY <2>2, <2>3, <3>1, Induction
    <2>5. n \in Q
      BY <2>1, <2>4
    <2> QED
      BY <2>1, <2>5
  <1> HIDE DEF drafted
  <1>10. /\ T \in Seq(Stp)
         /\ \A k \in DOMAIN T : /\ T[k].op \in Plain /\ Uses(T[k]) = {}
                                /\ ~ Replacing(T[k])
    <2> DEFINE touch == [op |-> "touch"]
    <2>1. touch \in Stp
      BY DEF Steps
    <2>2. touch.op \in Plain /\ Uses(touch) = {} /\ ~ Replacing(touch)
      BY DEF Plain, Uses, Replacing
    <2>3. T \in {<<>>, <<touch>>}
      OBVIOUS
    <2> HIDE DEF touch, T, Stp
    <2>4. T \in Seq(Stp) /\ \A k \in DOMAIN T : T[k] = touch
      <3>1. CASE T = <<>>
        BY <3>1
      <3>2. CASE T = <<touch>>
        <4>1. <<touch>> \in Seq(Stp) /\ DOMAIN <<touch>> = 1..1
          BY <2>1
        <4> QED
          BY <3>2, <4>1
      <3> QED
        BY <2>3, <3>1, <3>2
    <2> QED
      BY <2>2, <2>4
  <1> HIDE DEF T
  <1>11. /\ Continues(T, drafted.steps, snap, KnownOf(live, snap))
         /\ SavedBy(T) = {}
    BY <1>10, PlainContinues
  <1>12. /\ Sound(drafted.steps, {}, snap, KnownOf(live, snap))
         /\ SavedBy(drafted.steps) \subseteq Absent(snap, live)
    BY <1>9 DEF Drafts
  <1>13. Sound(drafted.steps \o T, {}, snap, KnownOf(live, snap))
    BY <1>11, <1>12, Joining
  <1>14. SavedBy(drafted.steps \o T) = SavedBy(drafted.steps) \cup SavedBy(T)
    <2> HIDE DEF Stp
    <2>1. drafted.steps \in Seq(Stp)
      BY <1>12 DEF Sound, Stp
    <2> QED
      BY <1>10, <2>1, JoinedBindings
  <1>16. ReplacesOwn(drafted.steps \o T)
    <2> HIDE DEF Stp
    <2>1. drafted.steps \in Seq(Stp)
      BY <1>12 DEF Sound, Stp
    <2> QED
      BY <1>10, <1>15, <2>1, ReplacesGoOn DEF Tidy
  <1> QED
    BY <1>1, <1>11, <1>12, <1>13, <1>14, <1>16

-----------------------------------------------------------------------------
\* Steps may be read with more windows known.
LEMMA StepsGrow ==
    ASSUME NEW snap, NEW known, NEW more, known \subseteq more
    PROVE  Steps(snap, known) \subseteq Steps(snap, more)
  BY DEF Steps

\* A sound plan is sound where more windows may be linked.
LEMMA SoundGrows ==
    ASSUME NEW S, NEW bound, NEW snap, NEW known, NEW more, known \subseteq more,
           Sound(S, bound, snap, known)
    PROVE  Sound(S, bound, snap, more)
  <1> DEFINE A == Steps(snap, known)
             B == Steps(snap, more)
  <1>1. A \subseteq B
    BY StepsGrow
  <1>2. S \in Seq(A)
    BY DEF Sound
  <1> HIDE DEF A, B
  <1>3. S \in Seq(B)
    BY <1>1, <1>2
  <1> QED
    BY <1>3 DEF Sound, B

\* What is left of a sound sequence of steps, once the first is taken.
LEMMA SoundTail ==
    ASSUME NEW S, NEW bound, NEW snap, NEW known, IsSnapshot(snap),
           Sound(S, bound, snap, known), S # <<>>
    PROVE  /\ Sound(Tail(S), bound \cup Binds(Head(S)), snap, known)
           /\ Head(S) = S[1] /\ Head(S) \in Steps(snap, known)
           /\ 1 \in DOMAIN S
           /\ \A k \in DOMAIN Tail(S) :
                 k \in Nat /\ k >= 1 /\ k + 1 \in DOMAIN S /\ Tail(S)[k] = S[k + 1]
  <1> DEFINE T == Tail(S)
             A == Steps(snap, known)
  <1>1. S \in Seq(A)
    BY DEF Sound
  <1> HIDE DEF A
  <1>2. /\ T \in Seq(A) /\ Head(S) = S[1] /\ Head(S) \in A
        /\ 1 \in DOMAIN S /\ DOMAIN S \subseteq Nat
        /\ \A k \in DOMAIN T : k \in Nat /\ k >= 1 /\ k + 1 \in DOMAIN S /\ T[k] = S[k + 1]
        /\ \A k \in DOMAIN S : k # 1 => k - 1 \in DOMAIN T /\ S[k] = T[k - 1] /\ k > 1
    BY <1>1
  <1> HIDE DEF T
  <1>3. BoundFirst(T, bound \cup Binds(Head(S)))
    <2> SUFFICES ASSUME NEW k \in DOMAIN T, NEW x \in Uses(T[k]),
                        x \notin bound, x \notin Binds(S[1])
                 PROVE  \E j \in 1 .. k - 1 : x \in Binds(T[j])
      BY <1>2 DEF BoundFirst
    <2>1. k + 1 \in DOMAIN S /\ T[k] = S[k + 1] /\ k \in Nat
      BY <1>2
    <2>2. PICK j \in 1 .. (k + 1) - 1 : x \in Binds(S[j])
      BY <2>1 DEF Sound, BoundFirst
    <2>3. j # 1
      BY <2>2
    <2>4. j \in DOMAIN S
      <3>1. DOMAIN S = 1 .. Len(S) /\ Len(S) \in Nat
        BY <1>1
      <3> QED
        BY <2>1, <3>1
    <2>5. S[j] = T[j - 1] /\ j > 1
      BY <1>2, <2>3, <2>4
    <2>6. j - 1 \in 1 .. k - 1
      BY <2>1, <2>5
    <2> QED
      BY <2>2, <2>5, <2>6
  <1>4. BoundOnce(T, bound \cup Binds(Head(S)))
    <2> SUFFICES ASSUME NEW k \in DOMAIN T, NEW x \in Binds(T[k])
                 PROVE  /\ x \notin bound /\ x \notin Binds(S[1])
                        /\ \A j \in DOMAIN T : x \in Binds(T[j]) => j = k
      BY <1>2 DEF BoundOnce
    <2>1. k + 1 \in DOMAIN S /\ x \in Binds(S[k + 1]) /\ k \in Nat /\ k + 1 # 1
      BY <1>2
    <2>2. x \notin bound /\ \A j \in DOMAIN S : x \in Binds(S[j]) => j = k + 1
      BY <2>1 DEF Sound, BoundOnce
    <2>3. x \notin Binds(S[1])
      BY <1>2, <2>1, <2>2
    <2>4. ASSUME NEW j \in DOMAIN T, x \in Binds(T[j])
          PROVE  j = k
      <3>1. j + 1 = k + 1 /\ j \in Nat
        BY <1>2, <2>2, <2>4
      <3> QED
        BY <2>1, <3>1
    <2> QED
      BY <2>2, <2>3, <2>4
  <1>5. MovedAtOnce(T)
    <2> SUFFICES ASSUME NEW k \in DOMAIN T, T[k].op = "move", k > 1
                 PROVE  /\ T[k - 1].op = "create"
                        /\ T[k - 1].window = T[k].window /\ T[k - 1].session = T[k].session
      BY DEF MovedAtOnce
    <2>1. k + 1 \in DOMAIN S /\ T[k] = S[k + 1] /\ k \in Nat /\ k + 1 > 1 /\ (k + 1) - 1 = k
      BY <1>2
    <2>2. /\ S[k].op = "create"
          /\ S[k].window = S[k + 1].window /\ S[k].session = S[k + 1].session
      BY <2>1 DEF Sound, MovedAtOnce
    <2>3. k \in DOMAIN S
      <3>1. DOMAIN S = 1 .. Len(S) /\ Len(S) \in Nat
        BY <1>1
      <3> QED
        BY <2>1, <3>1
    <2>4. S[k] = T[k - 1]
      BY <1>2, <2>3
    <2> QED
      BY <2>1, <2>2, <2>4
  <1>6. \A k \in Stamps(T) : k + 1 \in Stamps(S) /\ T[k] = S[k + 1] /\ k \in Nat /\ k >= 1
    BY <1>2 DEF Stamps
  <1>7. ASSUME NEW k \in Stamps(T)
        PROVE  Width(snap, T[k]) \in Nat
    <2>1. S[k + 1] \in A /\ S[k + 1].op = "stamp"
      BY <1>1, <1>6 DEF Stamps
    <2> QED
      BY <1>6, <2>1, StampShape DEF A
  <1>8. StampedLast(T, snap)
    <2> SUFFICES ASSUME NEW k \in Stamps(T)
                 PROVE  /\ \A d \in 1 .. Width(snap, T[k]) :
                              d < k => T[k - d] = Before(d, T[k].window)
                        /\ \A j \in DOMAIN T :
                              T[k].window \in Binds(T[j]) => j + Width(snap, T[k]) < k
                        /\ \A j \in Stamps(T) :
                              T[j].window = T[k].window \/ T[j].saved = T[k].saved => j = k
      BY DEF StampedLast
    <2>1. k + 1 \in Stamps(S) /\ T[k] = S[k + 1] /\ k \in Nat /\ k >= 1
      BY <1>6
    <2> DEFINE w == Width(snap, T[k])
    <2>2. w \in Nat
      BY <1>7
    <2>3. /\ \A d \in 1..w : d < k + 1 => S[k + 1 - d] = Before(d, T[k].window)
          /\ \A j \in DOMAIN S : T[k].window \in Binds(S[j]) => j + w < k + 1
          /\ \A j \in Stamps(S) :
                S[j].window = T[k].window \/ S[j].saved = T[k].saved => j = k + 1
      BY <2>1 DEF Sound, StampedLast
    <2>4. k \in DOMAIN T
      BY DEF Stamps
    <2> HIDE DEF w
    <2>5. ASSUME NEW d \in 1..w, d < k
          PROVE  T[k - d] = Before(d, T[k].window)
      <3>1. k + 1 - d \in DOMAIN S /\ k + 1 - d # 1 /\ (k + 1 - d) - 1 = k - d
        <4>1. DOMAIN S = 1 .. Len(S) /\ Len(S) \in Nat /\ k + 1 \in DOMAIN S
          BY <1>1, <1>2, <2>4
        <4> QED
          BY <2>1, <2>2, <2>5, <4>1
      <3>2. S[k + 1 - d] = T[k - d]
        BY <1>2, <3>1
      <3>3. d < k + 1
        BY <2>1, <2>2, <2>5
      <3> QED
        BY <2>3, <3>2, <3>3
    <2>6. ASSUME NEW j \in DOMAIN T, T[k].window \in Binds(T[j])
          PROVE  j + w < k
      <3>1. j + 1 \in DOMAIN S /\ T[j] = S[j + 1] /\ j \in Nat
        BY <1>2
      <3>2. (j + 1) + w < k + 1
        BY <2>3, <2>6, <3>1
      <3> QED
        BY <2>1, <2>2, <3>1, <3>2
    <2>7. ASSUME NEW j \in Stamps(T), T[j].window = T[k].window \/ T[j].saved = T[k].saved
          PROVE  j = k
      <3>1. j + 1 \in Stamps(S) /\ T[j] = S[j + 1] /\ j \in Nat
        BY <1>6
      <3>2. j + 1 = k + 1
        BY <2>3, <2>7, <3>1
      <3> QED
        BY <2>1, <3>1, <3>2
    <2> QED
      BY <2>5, <2>6, <2>7 DEF w
  <1>9. StampedAll(T, snap)
    <2> SUFFICES ASSUME NEW j \in DOMAIN T, T[j].op \in {"split", "layout", "fill"}
                 PROVE  \E k \in Stamps(T) :
                           T[k].window = T[j].window /\ k - j \in 1 .. Width(snap, T[k])
      BY DEF StampedAll
    <2>1. j + 1 \in DOMAIN S /\ T[j] = S[j + 1] /\ j \in Nat /\ j >= 1
      BY <1>2
    <2>2. PICK k \in Stamps(S) : /\ S[k].window = S[j + 1].window
                                 /\ k - (j + 1) \in 1 .. Width(snap, S[k])
      BY <2>1 DEF Sound, StampedAll
    <2>3. k \in DOMAIN S /\ k \in Nat /\ S[k].op = "stamp"
      BY <1>2, <2>2 DEF Stamps
    <2>4. Width(snap, S[k]) \in Nat
      <3>1. S[k] \in A
        BY <1>1, <2>3
      <3> QED
        BY <2>3, <3>1, StampShape DEF A
    <2>5. k # 1 /\ (k - 1) - j = k - (j + 1)
      BY <2>1, <2>2, <2>3, <2>4
    <2>6. k - 1 \in Stamps(T) /\ T[k - 1] = S[k]
      BY <1>2, <2>3, <2>5 DEF Stamps
    <2> QED
      BY <2>1, <2>2, <2>5, <2>6
  <1> QED
    BY <1>2, <1>3, <1>4, <1>5, <1>8, <1>9 DEF Sound, T, A

-----------------------------------------------------------------------------
\* The inductive invariant.

\* The server: its windows are those its sessions link, with an id tmux gave
\* out and will not give out again, each stamped by a saved window or by none.
ServerOK ==
    /\ snapshot \in Snapshots
    /\ server = [links |-> server.links, made |-> server.made,
                 touched |-> server.touched, sameServer |-> server.sameServer]
    /\ DOMAIN server.links = AllSessions
    /\ \A s \in AllSessions : /\ DOMAIN server.links[s] \subseteq Nat
                              /\ IsFiniteSet(DOMAIN server.links[s])
    /\ DOMAIN server.made = UNION {Range(server.links[s]) : s \in AllSessions}
    /\ DOMAIN filled = DOMAIN server.made
    /\ \A w \in DOMAIN server.made : server.made[w] \in {0} \cup SavedWindows(snapshot)
    /\ nextId \in Nat \ {0}
    /\ DOMAIN server.made \subseteq 1 .. nextId - 1
    /\ SavedWindows(snapshot) \subseteq 1 .. nextId - 1
    /\ marked \subseteq {s \in SessionNames : Alive(s)}

\* The restorers: only one that applies a plan has steps left or bound ids.
RestorerOK(it) ==
    /\ it = [stage |-> it.stage, client |-> it.client, scratch |-> it.scratch,
             steps |-> it.steps, bound |-> it.bound]
    /\ it.stage \in {"idle", "creating", "opened", "applying"}
    /\ it.client \in AllSessions
    /\ it.scratch \in BOOLEAN
    /\ it.stage # "applying" => it.steps = <<>> /\ it.bound = << >>

RestorersOK ==
    /\ restore = [r \in Restorers |-> restore[r]]
    /\ around = [r \in Restorers |-> around[r]]
    /\ \A r \in Restorers : /\ RestorerOK(restore[r])
                            /\ around[r] \subseteq {"opened", "closed", "restored"}

\* An id is bound to one reference of one restorer, and was given to a window
\* opened after the snapshot was saved.
Bindings ==
    /\ \A r \in Restorers : \A x \in DOMAIN restore[r].bound :
          /\ x \in Refs
          /\ restore[r].bound[x] \in (1 .. nextId - 1) \ SavedWindows(snapshot)
    /\ \A r, q \in Restorers :
          \A x \in DOMAIN restore[r].bound, y \in DOMAIN restore[q].bound :
             restore[r].bound[x] = restore[q].bound[y] => r = q /\ x = y

IsMoving(r) == restore[r].steps # <<>> /\ Step(r).op = "move"

\* The windows a step may link: any but those still where their session was
\* made around them.
Known == (1 .. nextId - 1) \ {Bound(r) : r \in {q \in Restorers : IsMoving(q)}}

\* What is left of a plan is still sound.
PlanHolds(r) ==
    Sound(restore[r].steps, DOMAIN restore[r].bound, snapshot, Known)

\* A window about to be moved is in the session it was made in and no other.
MoveHolds(r) ==
    IsMoving(r) =>
        /\ Step(r).window \in DOMAIN restore[r].bound
        /\ \A s \in AllSessions : Bound(r) \in Range(server.links[s]) => s = Step(r).session
        /\ Bound(r) \in DOMAIN server.made => server.made[Bound(r)] = 0

\* What a window of n panes has when its stamp is k steps ahead.
FilledBefore(k, n) ==
    IF k >= n + 2 THEN Bare
    ELSE IF k >= 3 THEN [panes |-> n + 3 - k, laidOut |-> FALSE, content |-> FALSE]
    ELSE [panes |-> n, laidOut |-> TRUE, content |-> IF k = 2 THEN FALSE ELSE TRUE]

\* A window still to be stamped is unstamped and furnished this far; and the
\* server has none so stamped, unless another restore made one.
StampHolds(r) ==
    \A k \in Stamps(restore[r].steps) :
        LET stamp == restore[r].steps[k]
            w == restore[r].bound[stamp.window]
        IN  /\ stamp.window \in DOMAIN restore[r].bound /\ w \in DOMAIN server.made =>
                  /\ server.made[w] = 0
                  /\ filled[w] = FilledBefore(k, snapshot.panes[stamp.saved])
            /\ \/ "restored" \in around[r]
               \/ \A y \in DOMAIN server.made : server.made[y] # stamp.saved

RestoreHolds(r) == PlanHolds(r) /\ MoveHolds(r) /\ StampHolds(r)

IInv ==
    /\ ServerOK /\ RestorersOK /\ Bindings
    /\ \A r \in Restorers : RestoreHolds(r)
    /\ StampMeansWhole

\* The record of what a window has, with one field changed.
LEMMA Furnished ==
    ASSUME NEW n, NEW p, NEW laid, NEW content, NEW new
    PROVE  LET fill == [panes |-> n, laidOut |-> laid, content |-> content]
           IN  /\ [fill EXCEPT !.panes = p]
                  = [panes |-> p, laidOut |-> laid, content |-> content]
               /\ [fill EXCEPT !.laidOut = new]
                  = [panes |-> n, laidOut |-> new, content |-> content]
               /\ [fill EXCEPT !.content = new]
                  = [panes |-> n, laidOut |-> laid, content |-> new]
  OBVIOUS

\* Each step that furnishes a window takes it from one of these to the next.
LEMMA FilledFacts ==
    ASSUME NEW n \in Nat \ {0}
    PROVE  /\ \A k \in Nat : k >= n + 2 => FilledBefore(k, n) = Bare
           /\ FilledBefore(1, n) = [panes |-> n, laidOut |-> TRUE, content |-> TRUE]
           /\ [FilledBefore(2, n) EXCEPT !.content = TRUE] = FilledBefore(1, n)
           /\ [FilledBefore(3, n) EXCEPT !.laidOut = TRUE] = FilledBefore(2, n)
           /\ \A k \in 4 .. n + 2 :
                 [FilledBefore(k, n) EXCEPT !.panes = @ + 1] = FilledBefore(k - 1, n)
  <1>1. \A k \in Nat : k >= n + 2 => FilledBefore(k, n) = Bare
    BY DEF FilledBefore
  <1>2. FilledBefore(1, n) = [panes |-> n, laidOut |-> TRUE, content |-> TRUE]
    BY DEF FilledBefore
  <1>3. FilledBefore(2, n) = [panes |-> n, laidOut |-> TRUE, content |-> FALSE]
    BY DEF FilledBefore
  <1>4. ASSUME NEW k \in 3 .. n + 2
        PROVE  FilledBefore(k, n)
               = [panes |-> n + 3 - k, laidOut |-> FALSE, content |-> FALSE]
    <2>1. CASE k = n + 2
      <3>1. n + 3 - k = 1
        BY <2>1
      <3>2. FilledBefore(k, n) = Bare
        BY <1>1, <2>1
      <3> QED
        BY <3>1, <3>2 DEF Bare
    <2>2. CASE k < n + 2
      BY <2>2 DEF FilledBefore
    <2> QED
      BY <2>1, <2>2
  <1> DEFINE yes == TRUE
             no == FALSE
  <1>5. [FilledBefore(2, n) EXCEPT !.content = TRUE] = FilledBefore(1, n)
    <2>1. /\ FilledBefore(2, n) = [panes |-> n, laidOut |-> yes, content |-> no]
          /\ FilledBefore(1, n) = [panes |-> n, laidOut |-> yes, content |-> yes]
      BY <1>2, <1>3
    <2>0. yes = TRUE
      OBVIOUS
    <2> HIDE DEF yes, no
    <2>2. [FilledBefore(2, n) EXCEPT !.content = yes]
          = [panes |-> n, laidOut |-> yes, content |-> yes]
      BY <2>1, Furnished
    <2> QED
      BY <2>0, <2>1, <2>2
  <1>6. [FilledBefore(3, n) EXCEPT !.laidOut = TRUE] = FilledBefore(2, n)
    <2>1. 3 \in 3 .. n + 2 /\ n + 3 - 3 = n
      OBVIOUS
    <2>2. FilledBefore(3, n) = [panes |-> n, laidOut |-> FALSE, content |-> FALSE]
      BY <1>4, <2>1
    <2>3. /\ FilledBefore(2, n) = [panes |-> n, laidOut |-> yes, content |-> no]
          /\ FilledBefore(3, n) = [panes |-> n, laidOut |-> no, content |-> no]
      BY <1>3, <2>2
    <2>0. yes = TRUE
      OBVIOUS
    <2> HIDE DEF yes, no
    <2>4. [FilledBefore(3, n) EXCEPT !.laidOut = yes]
          = [panes |-> n, laidOut |-> yes, content |-> no]
      BY <2>3, Furnished
    <2> QED
      BY <2>0, <2>3, <2>4
  <1>7. ASSUME NEW k \in 4 .. n + 2
        PROVE  [FilledBefore(k, n) EXCEPT !.panes = @ + 1] = FilledBefore(k - 1, n)
    <2> DEFINE p == n + 3 - k
    <2>1. k \in 3 .. n + 2 /\ k - 1 \in 3 .. n + 2 /\ n + 3 - (k - 1) = p + 1
      OBVIOUS
    <2>2. FilledBefore(k, n) = [panes |-> p, laidOut |-> FALSE, content |-> FALSE]
      BY <1>4, <2>1
    <2>3. FilledBefore(k - 1, n) = [panes |-> p + 1, laidOut |-> FALSE, content |-> FALSE]
      BY <1>4, <2>1
    <2> HIDE DEF p
    <2>4. /\ FilledBefore(k, n) = [panes |-> p, laidOut |-> no, content |-> no]
          /\ FilledBefore(k - 1, n) = [panes |-> p + 1, laidOut |-> no, content |-> no]
      BY <2>2, <2>3
    <2> HIDE DEF no
    <2>5. FilledBefore(k, n).panes = p
      BY <2>4
    <2> DEFINE more == p + 1
    <2> HIDE DEF more
    <2>6. [FilledBefore(k, n) EXCEPT !.panes = more]
          = [panes |-> more, laidOut |-> no, content |-> no]
      BY <2>4, Furnished
    <2> QED
      BY <2>4, <2>5, <2>6 DEF more
  <1> QED
    BY <1>1, <1>2, <1>5, <1>6, <1>7

-----------------------------------------------------------------------------
\* What tmux does with windows.

\* No window is changed: one there is was there as it is, or was just opened.
Kept ==
    \A w \in DOMAIN server'.made :
        \/ /\ w \in DOMAIN server.made
           /\ server'.made[w] = server.made[w] /\ filled'[w] = filled[w]
        \/ w = nextId /\ server'.made[w] = 0 /\ filled'[w] = Bare

\* Linking afresh the windows there are keeps the server well-formed: a window
\* no session links is gone, and the others keep their stamps and contents.
LEMMA RelinkKeeps ==
    ASSUME ServerOK, NEW links, DOMAIN links = AllSessions,
           \A s \in AllSessions : /\ DOMAIN links[s] \subseteq Nat /\ IsFiniteSet(DOMAIN links[s])
                                  /\ Range(links[s]) \subseteq DOMAIN server.made,
           Relink(links, server.made, filled), UNCHANGED <<snapshot, nextId>>
    PROVE  ServerOK' /\ server'.links = links /\ Kept
  <1> DEFINE held == UNION {Range(links[s]) : s \in AllSessions}
  <1>1. /\ server' = [server EXCEPT !.links = links, !.made = Restrict(server.made, held)]
        /\ filled' = Restrict(filled, held)
        /\ marked' = {s \in marked : links[s] # << >>}
    BY DEF Relink
  <1>2. held \subseteq DOMAIN server.made
    OBVIOUS
  <1>3. /\ server'.links = links /\ server'.made = Restrict(server.made, held)
        /\ server' = [links |-> server'.links, made |-> server'.made,
                      touched |-> server'.touched, sameServer |-> server'.sameServer]
    <2> DEFINE made == Restrict(server.made, held)
    <2>1. server' = [server EXCEPT !.links = links, !.made = made]
      BY <1>1
    <2> HIDE DEF made, held
    <2>2. server' = [links |-> links, made |-> made,
                     touched |-> server.touched, sameServer |-> server.sameServer]
      BY <2>1 DEF ServerOK
    <2> QED
      BY <2>2 DEF made
  <1>4. /\ DOMAIN server'.made = held /\ DOMAIN filled' = held
        /\ \A w \in held : server'.made[w] = server.made[w] /\ filled'[w] = filled[w]
    BY <1>1, <1>3 DEF Restrict
  <1>5. held = UNION {Range(server'.links[s]) : s \in AllSessions}
    BY <1>3
  <1> HIDE DEF held
  <1>6. Kept
    BY <1>2, <1>4 DEF Kept
  <1>7. marked' \subseteq {s \in SessionNames : Alive(s)'}
    BY <1>1, <1>3 DEF ServerOK, Alive
  <1>8. ServerOK'
    <2>1. /\ (snapshot \in Snapshots)' /\ (nextId \in Nat \ {0})'
          /\ SavedWindows(snapshot)' = SavedWindows(snapshot)
      BY DEF ServerOK
    <2>2. DOMAIN server'.links = AllSessions
      BY <1>3
    <2>3. \A s \in AllSessions : /\ DOMAIN server'.links[s] \subseteq Nat
                                 /\ IsFiniteSet(DOMAIN server'.links[s])
      BY <1>3
    <2>4. \A w \in DOMAIN server'.made : server'.made[w] \in {0} \cup SavedWindows(snapshot)
      BY <1>2, <1>4 DEF ServerOK
    <2>5. DOMAIN server'.made \subseteq 1 .. nextId - 1
      BY <1>2, <1>4 DEF ServerOK
    <2>6. SavedWindows(snapshot) \subseteq 1 .. nextId - 1
      BY DEF ServerOK
    <2> QED
      BY <1>3, <1>4, <1>5, <1>7, <2>1, <2>2, <2>3, <2>4, <2>5, <2>6 DEF ServerOK
  <1> QED
    BY <1>3, <1>6, <1>8

\* What a function maps to once x is mapped to v.
LEMMA PutFacts ==
    ASSUME NEW f, NEW x, NEW v
    PROVE  /\ DOMAIN Put(f, x, v) = DOMAIN f \cup {x}
           /\ Put(f, x, v)[x] = v
           /\ \A y \in DOMAIN f : y # x => Put(f, x, v)[y] = f[y]
           /\ Range(Put(f, x, v)) \subseteq Range(f) \cup {v}
           /\ x \notin DOMAIN f => Range(Put(f, x, v)) = Range(f) \cup {v}
  <1>1. /\ DOMAIN Put(f, x, v) = DOMAIN f \cup {x}
        /\ Put(f, x, v)[x] = v
        /\ \A y \in DOMAIN f : y # x => Put(f, x, v)[y] = f[y]
    BY DEF Put
  <1> QED
    BY <1>1 DEF Range

\* The sessions link what they did, and s a new window at i.
LEMMA OpensKeeps ==
    ASSUME ServerOK, NEW s \in AllSessions, NEW i \in Nat, NewWindowAt(s, i),
           UNCHANGED snapshot
    PROVE  /\ ServerOK' /\ Kept
           /\ server'.links = [server.links EXCEPT ![s] = Put(@, i, nextId)]
           /\ nextId' = nextId + 1
  <1> DEFINE links == [server.links EXCEPT ![s] = Put(@, i, nextId)]
             made == Put(server.made, nextId, 0)
             fill == Put(filled, nextId, Bare)
             held == UNION {Range(links[t]) : t \in AllSessions}
  <1>1. Relink(links, made, fill) /\ nextId' = nextId + 1
    BY DEF NewWindowAt
  <1>2. /\ DOMAIN links = AllSessions
        /\ links[s] = Put(server.links[s], i, nextId)
        /\ \A t \in AllSessions : t # s => links[t] = server.links[t]
    BY DEF ServerOK
  <1>3. /\ server' = [server EXCEPT !.links = links, !.made = Restrict(made, held)]
        /\ filled' = Restrict(fill, held)
        /\ marked' = {t \in marked : links[t] # << >>}
    BY <1>1 DEF Relink
  <1> HIDE DEF links
  <1>4. held \subseteq DOMAIN server.made \cup {nextId}
    <2>1. ASSUME NEW t \in AllSessions
          PROVE  Range(links[t]) \subseteq DOMAIN server.made \cup {nextId}
      <3>1. Range(server.links[t]) \subseteq DOMAIN server.made
        BY DEF ServerOK
      <3>2. Range(links[s]) \subseteq Range(server.links[s]) \cup {nextId}
        <4> DEFINE before == server.links[s]
        <4>1. links[s] = Put(before, i, nextId)
          BY <1>2
        <4> HIDE DEF before
        <4>2. Range(Put(before, i, nextId)) \subseteq Range(before) \cup {nextId}
          BY PutFacts
        <4> QED
          BY <4>1, <4>2 DEF before
      <3> QED
        BY <1>2, <3>1, <3>2
    <2> QED
      BY <2>1
  <1>5. nextId \in Nat /\ nextId \notin DOMAIN server.made
        /\ DOMAIN filled = DOMAIN server.made
    BY DEF ServerOK
  <1>6. /\ DOMAIN made = DOMAIN server.made \cup {nextId} /\ made[nextId] = 0
        /\ \A w \in DOMAIN server.made : made[w] = server.made[w]
        /\ DOMAIN fill = DOMAIN server.made \cup {nextId} /\ fill[nextId] = Bare
        /\ \A w \in DOMAIN server.made : fill[w] = filled[w]
    <2>1. /\ DOMAIN made = DOMAIN server.made \cup {nextId} /\ made[nextId] = 0
          /\ \A w \in DOMAIN server.made : w # nextId => made[w] = server.made[w]
      BY DEF Put
    <2>2. /\ DOMAIN fill = DOMAIN filled \cup {nextId} /\ fill[nextId] = Bare
          /\ \A w \in DOMAIN filled : w # nextId => fill[w] = filled[w]
      BY DEF Put
    <2> HIDE DEF made, fill, held
    <2> QED
      BY <1>5, <2>1, <2>2
  <1> HIDE DEF made, fill, held
  <1>7. /\ server'.links = links /\ server'.made = Restrict(made, held)
        /\ server' = [links |-> server'.links, made |-> server'.made,
                      touched |-> server'.touched, sameServer |-> server'.sameServer]
    <2> DEFINE kept == Restrict(made, held)
    <2>1. server' = [server EXCEPT !.links = links, !.made = kept]
      BY <1>3
    <2> HIDE DEF kept
    <2>2. server' = [links |-> links, made |-> kept,
                     touched |-> server.touched, sameServer |-> server.sameServer]
      BY <2>1 DEF ServerOK
    <2> QED
      BY <2>2 DEF kept
  <1>8. /\ DOMAIN server'.made = held /\ DOMAIN filled' = held
        /\ \A w \in held : server'.made[w] = made[w] /\ filled'[w] = fill[w]
    BY <1>3, <1>7 DEF Restrict
  <1>9. Kept
    BY <1>4, <1>5, <1>6, <1>8 DEF Kept
  <1>10. held = UNION {Range(server'.links[t]) : t \in AllSessions}
    BY <1>7 DEF held
  <1>11. marked' \subseteq {t \in SessionNames : Alive(t)'}
    BY <1>3, <1>7 DEF ServerOK, Alive
  <1>12. ServerOK'
    <2>1. /\ (snapshot \in Snapshots)' /\ (nextId \in Nat \ {0})'
          /\ SavedWindows(snapshot)' = SavedWindows(snapshot)
      BY <1>1 DEF ServerOK
    <2>2. DOMAIN server'.links = AllSessions
      BY <1>2, <1>7
    <2>3. \A t \in AllSessions : /\ DOMAIN server'.links[t] \subseteq Nat
                                 /\ IsFiniteSet(DOMAIN server'.links[t])
      <3>1. /\ \A t \in AllSessions : /\ DOMAIN server.links[t] \subseteq Nat
                                      /\ IsFiniteSet(DOMAIN server.links[t])
        BY DEF ServerOK
      <3>2. /\ DOMAIN links[s] \subseteq Nat /\ IsFiniteSet(DOMAIN links[s])
        <4>1. DOMAIN links[s] = DOMAIN server.links[s] \cup {i}
          BY <1>2 DEF Put
        <4>2. IsFiniteSet(DOMAIN server.links[s] \cup {i})
          <5> DEFINE D == DOMAIN server.links[s]
          <5>1. IsFiniteSet(D)
            BY <3>1
          <5> HIDE DEF D
          <5>2. IsFiniteSet(D \cup {i})
            BY <5>1, FS_AddElement
          <5> QED
            BY <5>2 DEF D
        <4> QED
          BY <3>1, <4>1, <4>2
      <3> QED
        BY <1>2, <1>7, <3>1, <3>2
    <2>4. \A w \in DOMAIN server'.made : server'.made[w] \in {0} \cup SavedWindows(snapshot)
      BY <1>4, <1>6, <1>8 DEF ServerOK
    <2>5. DOMAIN server'.made \subseteq 1 .. nextId' - 1
      <3>1. DOMAIN server.made \subseteq 1 .. nextId - 1 /\ nextId # 0
        BY DEF ServerOK
      <3> QED
        BY <1>1, <1>4, <1>5, <1>8, <3>1
    <2>6. SavedWindows(snapshot) \subseteq 1 .. nextId' - 1
      BY <1>1, <1>5 DEF ServerOK
    <2> QED
      BY <1>7, <1>8, <1>10, <1>11, <2>1, <2>2, <2>3, <2>4, <2>5, <2>6 DEF ServerOK
  <1> QED
    BY <1>1, <1>7, <1>9, <1>12 DEF links

-----------------------------------------------------------------------------
\* The restores beside one that takes a step, and all of them when the user
\* does.

\* More window ids have been given.
LEMMA MoreNumbers ==
    ASSUME NEW m \in Nat, NEW n \in Nat, m <= n
    PROVE  1 .. m - 1 \subseteq 1 .. n - 1
  OBVIOUS

\* More and more windows may be linked.
LEMMA KnownGrows ==
    ASSUME nextId \in Nat, nextId' \in Nat, nextId <= nextId',
           \A q \in Restorers : IsMoving(q)' =>
              (IsMoving(q) /\ Bound(q)' = Bound(q)) \/ Bound(q)' \notin 1 .. nextId - 1
    PROVE  Known \subseteq Known'
  <1> SUFFICES ASSUME NEW w \in Known
               PROVE  w \in Known'
    OBVIOUS
  <1>1. w \in 1 .. nextId - 1 /\ \A q \in Restorers : IsMoving(q) => w # Bound(q)
    BY DEF Known
  <1>2. w \in 1 .. nextId' - 1
    BY <1>1, MoreNumbers
  <1>3. \A q \in Restorers : IsMoving(q)' => w # Bound(q)'
    BY <1>1
  <1> QED
    BY <1>2, <1>3 DEF Known

\* A stamp still ahead is of a saved window, and has its panes' steps before it.
LEMMA StampFacts ==
    ASSUME ServerOK, NEW r \in Restorers, PlanHolds(r), NEW k \in Stamps(restore[r].steps)
    PROVE  LET S == restore[r].steps
               n == snapshot.panes[S[k].saved]
           IN  /\ k \in DOMAIN S /\ k \in Nat \ {0} /\ S[k].op = "stamp"
               /\ S[k].window \in Refs
               /\ S[k].saved \in SavedWindows(snapshot) /\ S[k].saved # 0
               /\ n \in Nat \ {0} /\ Width(snapshot, S[k]) = n + 1
  <1> DEFINE S == restore[r].steps
             Stp == Steps(snapshot, Known)
  <1>1. S \in Seq(Stp)
    BY DEF PlanHolds, Sound
  <1>2. k \in DOMAIN S /\ S[k].op = "stamp"
    BY DEF Stamps
  <1> HIDE DEF Stp, S
  <1>3. S[k] \in Stp /\ k \in Nat \ {0}
    BY <1>1, <1>2
  <1>4. IsSnapshot(snapshot)
    BY RestoreAssumption DEF ServerOK
  <1>5. S[k].window \in Refs /\ S[k].saved \in DOMAIN snapshot.panes
    BY <1>2, <1>3, <1>4, StampShape DEF Stp
  <1>6. DOMAIN snapshot.panes \subseteq Nat \ {0}
        /\ snapshot.panes[S[k].saved] \in Nat \ {0}
    BY <1>4, <1>5 DEF IsSnapshot
  <1> QED
    BY <1>2, <1>3, <1>5, <1>6 DEF S, Width, SavedWindows

\* Window w is as it was, if it is there.
Stays(w) ==
    w \in DOMAIN server'.made =>
        /\ w \in DOMAIN server.made
        /\ server'.made[w] = server.made[w] /\ filled'[w] = filled[w]

\* No stamp is new but those of saved windows in `saved`.
StampsOnly(saved) ==
    \A y \in DOMAIN server'.made :
        \/ server'.made[y] \in {0} \cup saved
        \/ y \in DOMAIN server.made /\ server'.made[y] = server.made[y]

\* The windows bound by q are as they were, and none that moves was linked.
Untouched(q) ==
    /\ \A x \in DOMAIN restore[q].bound : Stays(restore[q].bound[x])
    /\ IsMoving(q) => \A s \in AllSessions :
          Bound(q) \in Range(server'.links[s]) => Bound(q) \in Range(server.links[s])

\* No window has been stamped since, or q is told of a restore.
NoneStamped(q) ==
    restore[q].steps # <<>> =>
        \/ "restored" \in around'[q]
        \/ "restored" \notin around[q] /\ StampsOnly({})

\* It goes on where it was.
GoesOnAs(q) ==
    restore'[q].steps = restore[q].steps /\ restore'[q].bound = restore[q].bound

\* What holds of a restore holds on while another actor takes a step that
\* leaves its windows and its steps alone.
LEMMA StillHolds ==
    ASSUME ServerOK, UNCHANGED snapshot, Known \subseteq Known',
           NEW q \in Restorers, RestoreHolds(q), GoesOnAs(q), Untouched(q), NoneStamped(q)
    PROVE  RestoreHolds(q)'
  <1> DEFINE S == restore[q].steps
             b == restore[q].bound
  <1>1. /\ restore'[q].steps = S /\ restore'[q].bound = b
        /\ PlanHolds(q) /\ MoveHolds(q) /\ StampHolds(q)
    BY DEF GoesOnAs, RestoreHolds
  <1>2. PlanHolds(q)'
    BY <1>1, SoundGrows DEF PlanHolds
  <1>3. /\ IsMoving(q)' <=> IsMoving(q)
        /\ Step(q)' = Step(q) /\ Bound(q)' = Bound(q)
    BY <1>1 DEF IsMoving, Step, Bound
  <1>4. MoveHolds(q)'
    <2> SUFFICES ASSUME IsMoving(q)
                 PROVE  /\ Step(q).window \in DOMAIN b
                        /\ \A s \in AllSessions :
                              Bound(q) \in Range(server'.links[s]) => s = Step(q).session
                        /\ Bound(q) \in DOMAIN server'.made => server'.made[Bound(q)] = 0
      BY <1>1, <1>3 DEF MoveHolds
    <2>1. /\ Step(q).window \in DOMAIN b
          /\ \A s \in AllSessions :
                Bound(q) \in Range(server.links[s]) => s = Step(q).session
          /\ Bound(q) \in DOMAIN server.made => server.made[Bound(q)] = 0
      BY <1>1 DEF MoveHolds
    <2>2. Bound(q) \in DOMAIN server'.made =>
             Bound(q) \in DOMAIN server.made /\ server'.made[Bound(q)] = server.made[Bound(q)]
      BY <2>1 DEF Untouched, Bound, Stays
    <2> QED
      BY <2>1, <2>2 DEF Untouched
  <1>5. StampHolds(q)'
    <2> SUFFICES ASSUME NEW k \in Stamps(S)
                 PROVE  /\ S[k].window \in DOMAIN b /\ b[S[k].window] \in DOMAIN server'.made =>
                              /\ server'.made[b[S[k].window]] = 0
                              /\ filled'[b[S[k].window]]
                                 = FilledBefore(k, snapshot.panes[S[k].saved])
                        /\ \/ "restored" \in around'[q]
                           \/ \A y \in DOMAIN server'.made : server'.made[y] # S[k].saved
      BY <1>1 DEF StampHolds
    <2> DEFINE w == b[S[k].window]
    <2>1. /\ S[k].window \in DOMAIN b /\ w \in DOMAIN server.made =>
                server.made[w] = 0 /\ filled[w] = FilledBefore(k, snapshot.panes[S[k].saved])
          /\ \/ "restored" \in around[q]
             \/ \A y \in DOMAIN server.made : server.made[y] # S[k].saved
      BY <1>1 DEF StampHolds
    <2>2. ASSUME S[k].window \in DOMAIN b, w \in DOMAIN server'.made
          PROVE  /\ server'.made[w] = 0
                 /\ filled'[w] = FilledBefore(k, snapshot.panes[S[k].saved])
      <3>1. w \in DOMAIN server.made /\ server'.made[w] = server.made[w]
            /\ filled'[w] = filled[w]
        BY <2>2 DEF Untouched, Stays
      <3> QED
        BY <2>1, <2>2, <3>1
    <2>3. S[k].saved # 0 /\ S # <<>>
      <3>1. S[k].saved # 0 /\ k \in DOMAIN S
        BY <1>1, StampFacts
      <3> QED
        BY <3>1
    <2>4. \/ "restored" \in around'[q]
          \/ \A y \in DOMAIN server'.made : server'.made[y] # S[k].saved
      BY <2>1, <2>3 DEF NoneStamped, StampsOnly
    <2> QED
      BY <2>2, <2>4
  <1> QED
    BY <1>2, <1>4, <1>5 DEF RestoreHolds

-----------------------------------------------------------------------------
\* The restore that takes a step.

\* The plan without its first step is sound, with the window that step made
\* bound.
LEMMA PlanAdvances ==
    ASSUME ServerOK, NEW r \in Restorers, PlanHolds(r), restore[r].steps # <<>>,
           UNCHANGED snapshot, Known \subseteq Known',
           restore'[r].steps = Tail(restore[r].steps),
           DOMAIN restore'[r].bound = DOMAIN restore[r].bound \cup Binds(Step(r))
    PROVE  PlanHolds(r)'
  <1> DEFINE S == restore[r].steps
             b == DOMAIN restore[r].bound
  <1>1. IsSnapshot(snapshot) /\ Sound(S, b, snapshot, Known) /\ Step(r) = Head(S)
    BY RestoreAssumption DEF ServerOK, PlanHolds, Step
  <1>2. S # <<>> /\ restore'[r].steps = Tail(S)
    OBVIOUS
  <1>3. DOMAIN restore'[r].bound = b \cup Binds(Head(S))
    BY <1>1
  <1> HIDE DEF S, b
  <1>4. Sound(Tail(S), b \cup Binds(Head(S)), snapshot, Known)
    BY <1>1, <1>2, SoundTail
  <1> QED
    BY <1>2, <1>3, <1>4, SoundGrows DEF PlanHolds

\* Next comes the move of a window only when its session has just been made.
LEMMA MovesNext ==
    ASSUME ServerOK, NEW r \in Restorers, PlanHolds(r), restore[r].steps # <<>>,
           restore'[r].steps = Tail(restore[r].steps), IsMoving(r)'
    PROVE  /\ Step(r).op = "create"
           /\ Step(r)'.window = Step(r).window
           /\ Step(r)'.session = Step(r).session
  <1> DEFINE S == restore[r].steps
             b == DOMAIN restore[r].bound
  <1>1. IsSnapshot(snapshot) /\ Sound(S, b, snapshot, Known) /\ Step(r) = Head(S)
    BY RestoreAssumption DEF ServerOK, PlanHolds, Step
  <1>2. S # <<>> /\ restore'[r].steps = Tail(S)
    OBVIOUS
  <1>3. /\ restore'[r].steps # <<>> /\ Head(restore'[r].steps).op = "move"
        /\ Step(r)' = Head(restore'[r].steps)
    BY DEF IsMoving, Step
  <1> HIDE DEF S, b
  <1>4. /\ Sound(Tail(S), b \cup Binds(Head(S)), snapshot, Known)
        /\ Head(S) = S[1] /\ 1 \in DOMAIN S
        /\ \A k \in DOMAIN Tail(S) :
              k \in Nat /\ k >= 1 /\ k + 1 \in DOMAIN S /\ Tail(S)[k] = S[k + 1]
    BY <1>1, <1>2, SoundTail
  <1>5. Tail(S) # <<>> /\ Tail(S) \in Seq(Steps(snapshot, Known))
    BY <1>2, <1>3, <1>4 DEF Sound
  <1>6. 1 \in DOMAIN Tail(S) /\ Head(Tail(S)) = Tail(S)[1]
    BY <1>5
  <1>7. 2 \in DOMAIN S /\ Tail(S)[1] = S[2]
    BY <1>4, <1>6
  <1>8. S[2].op = "move" /\ Step(r)' = S[2]
    BY <1>2, <1>3, <1>6, <1>7
  <1>9. /\ S[2 - 1].op = "create"
        /\ S[2 - 1].window = S[2].window /\ S[2 - 1].session = S[2].session
    BY <1>1, <1>7, <1>8 DEF Sound, MovedAtOnce
  <1> QED
    BY <1>1, <1>4, <1>8, <1>9

\* Where the step taken stands to the stamps ahead.
LEMMA StampsAhead ==
    ASSUME ServerOK, NEW r \in Restorers, PlanHolds(r), restore[r].steps # <<>>,
           NEW k \in Stamps(Tail(restore[r].steps))
    PROVE  LET stamp == Tail(restore[r].steps)[k]
               n == snapshot.panes[stamp.saved]
           IN  /\ k \in Nat \ {0} /\ k + 1 \in Stamps(restore[r].steps)
               /\ stamp = restore[r].steps[k + 1] /\ n \in Nat \ {0}
               /\ k < n + 2 => Step(r) = Before(k, stamp.window)
               /\ Step(r).op = "stamp" =>
                     stamp.window # Step(r).window /\ stamp.saved # Step(r).saved
               /\ stamp.window \in Binds(Step(r)) => k >= n + 2
               /\ Step(r).op \in {"split", "layout", "fill"}
                  /\ stamp.window = Step(r).window => k < n + 2
  <1> DEFINE S == restore[r].steps
             T == Tail(S)
             b == DOMAIN restore[r].bound
             n == snapshot.panes[T[k].saved]
  <1>1. IsSnapshot(snapshot) /\ Sound(S, b, snapshot, Known) /\ Step(r) = Head(S)
    BY RestoreAssumption DEF ServerOK, PlanHolds, Step
  <1>2. S # <<>> /\ k \in DOMAIN T /\ T[k].op = "stamp"
    BY DEF Stamps
  <1>3. /\ Head(S) = S[1] /\ 1 \in DOMAIN S
        /\ k \in Nat \ {0} /\ k + 1 \in DOMAIN S /\ T[k] = S[k + 1]
    <2> HIDE DEF S, b
    <2>1. \A j \in DOMAIN Tail(S) :
              j \in Nat /\ j >= 1 /\ j + 1 \in DOMAIN S /\ Tail(S)[j] = S[j + 1]
      BY <1>1, <1>2, SoundTail
    <2>2. Head(S) = S[1] /\ 1 \in DOMAIN S
      BY <1>1, <1>2, SoundTail
    <2> QED
      BY <1>2, <2>1, <2>2
  <1>4. k + 1 \in Stamps(S)
    BY <1>2, <1>3 DEF Stamps
  <1>5. n \in Nat \ {0} /\ Width(snapshot, S[k + 1]) = n + 1
    BY <1>3, <1>4, StampFacts
  <1> HIDE DEF S, T, b, n
  <1>6. /\ \A d \in 1 .. n + 1 : d < k + 1 => S[(k + 1) - d] = Before(d, S[k + 1].window)
        /\ \A j \in DOMAIN S : S[k + 1].window \in Binds(S[j]) => j + (n + 1) < k + 1
        /\ \A j \in Stamps(S) :
              S[j].window = S[k + 1].window \/ S[j].saved = S[k + 1].saved => j = k + 1
    BY <1>1, <1>4, <1>5 DEF Sound, StampedLast
  <1>7. k < n + 2 => Step(r) = Before(k, T[k].window)
    <2> SUFFICES ASSUME k < n + 2
                 PROVE  Step(r) = Before(k, T[k].window)
      OBVIOUS
    <2>1. k \in 1 .. n + 1 /\ k < k + 1 /\ (k + 1) - k = 1
      BY <1>3, <1>5
    <2> QED
      BY <1>1, <1>3, <1>6, <2>1
  <1>8. Step(r).op = "stamp" =>
           T[k].window # Step(r).window /\ T[k].saved # Step(r).saved
    <2>1. 1 # k + 1
      BY <1>3
    <2> QED
      BY <1>1, <1>3, <1>6, <2>1 DEF Stamps
  <1>9. T[k].window \in Binds(Step(r)) => k >= n + 2
    <2> SUFFICES ASSUME T[k].window \in Binds(Step(r))
                 PROVE  k >= n + 2
      OBVIOUS
    <2>1. 1 + (n + 1) < k + 1
      BY <1>1, <1>3, <1>6
    <2> QED
      BY <1>3, <1>5, <2>1
  <1>10. Step(r).op \in {"split", "layout", "fill"} /\ T[k].window = Step(r).window
         => k < n + 2
    <2> SUFFICES ASSUME Step(r).op \in {"split", "layout", "fill"},
                        T[k].window = Step(r).window
                 PROVE  k < n + 2
      OBVIOUS
    <2>1. PICK j \in Stamps(S) : S[j].window = S[1].window /\ j - 1 \in 1 .. Width(snapshot, S[j])
      BY <1>1, <1>3 DEF Sound, StampedAll
    <2>2. j = k + 1
      BY <1>1, <1>3, <1>6, <2>1
    <2>3. k \in 1 .. n + 1
      BY <1>3, <1>5, <2>1, <2>2
    <2> QED
      BY <1>5, <2>3
  <1> QED
    BY <1>3, <1>4, <1>5, <1>7, <1>8, <1>9, <1>10 DEF S, T, n

\* Before it is bound nothing can be done with a window.
LEMMA UsesBound ==
    ASSUME ServerOK, NEW r \in Restorers, PlanHolds(r), restore[r].steps # <<>>
    PROVE  Uses(Step(r)) \subseteq DOMAIN restore[r].bound
  <1> DEFINE S == restore[r].steps
             b == DOMAIN restore[r].bound
  <1>1. IsSnapshot(snapshot) /\ Sound(S, b, snapshot, Known) /\ Step(r) = Head(S)
    BY RestoreAssumption DEF ServerOK, PlanHolds, Step
  <1>2. S # <<>>
    OBVIOUS
  <1> HIDE DEF S, b
  <1>3. Head(S) = S[1] /\ 1 \in DOMAIN S
    BY <1>1, <1>2, SoundTail
  <1>4. \A x \in Uses(S[1]) : x \in b \/ \E j \in 1 .. 1 - 1 : x \in Binds(S[j])
    BY <1>1, <1>3 DEF Sound, BoundFirst
  <1>5. 1 .. 1 - 1 = {}
    OBVIOUS
  <1> QED
    BY <1>1, <1>3, <1>4, <1>5 DEF b

\* A window being furnished has a stamp to come, and none yet.
LEMMA FurnishedIsUnstamped ==
    ASSUME ServerOK, NEW r \in Restorers, RestoreHolds(r), restore[r].steps # <<>>,
           Step(r).op \in {"split", "layout", "fill"}, Lives(Bound(r))
    PROVE  server.made[Bound(r)] = 0
  <1> DEFINE S == restore[r].steps
             b == DOMAIN restore[r].bound
  <1>1. /\ IsSnapshot(snapshot) /\ Sound(S, b, snapshot, Known) /\ Step(r) = Head(S)
        /\ PlanHolds(r)
    BY RestoreAssumption DEF ServerOK, RestoreHolds, PlanHolds, Step
  <1>2. S # <<>>
    OBVIOUS
  <1>3. Uses(Step(r)) = {Step(r).window}
    BY DEF Uses
  <1>4. Step(r).window \in b
    BY <1>1, <1>3, UsesBound
  <1>5. PICK k \in Stamps(S) : S[k].window = Step(r).window
    <2> HIDE DEF S, b
    <2>1. Head(S) = S[1] /\ 1 \in DOMAIN S
      BY <1>1, <1>2, SoundTail
    <2> QED
      BY <1>1, <2>1 DEF Sound, StampedAll
  <1> QED
    BY <1>4, <1>5 DEF RestoreHolds, StampHolds, Bound, Lives

\* The windows to be stamped, after a step that furnishes none.
LEMMA StampsGoOn ==
    ASSUME ServerOK, Bindings, NEW r \in Restorers, RestoreHolds(r),
           restore[r].steps # <<>>, UNCHANGED snapshot,
           restore'[r].steps = Tail(restore[r].steps), around'[r] = around[r],
           Step(r).op \notin {"split", "layout", "fill"},
           \A x \in DOMAIN restore'[r].bound :
              \/ x \in DOMAIN restore[r].bound /\ restore'[r].bound[x] = restore[r].bound[x]
              \/ x \in Binds(Step(r)) /\ restore'[r].bound[x] = nextId,
           nextId \in DOMAIN server'.made =>
              server'.made[nextId] = 0 /\ filled'[nextId] = Bare,
           \A x \in DOMAIN restore[r].bound :
              (Step(r).op = "stamp" /\ x = Step(r).window) \/ Stays(restore[r].bound[x]),
           StampsOnly(IF Step(r).op = "stamp" THEN {Step(r).saved} ELSE {})
    PROVE  StampHolds(r)'
  <1> DEFINE S == restore[r].steps
             T == Tail(S)
             b == restore[r].bound
             c == restore'[r].bound
  <1>1. PlanHolds(r) /\ StampHolds(r)
    BY DEF RestoreHolds
  <1> SUFFICES ASSUME NEW k \in Stamps(T)
               PROVE  /\ T[k].window \in DOMAIN c /\ c[T[k].window] \in DOMAIN server'.made =>
                            /\ server'.made[c[T[k].window]] = 0
                            /\ filled'[c[T[k].window]]
                               = FilledBefore(k, snapshot.panes[T[k].saved])
                      /\ \/ "restored" \in around'[r]
                         \/ \A y \in DOMAIN server'.made : server'.made[y] # T[k].saved
    BY DEF StampHolds
  <1> DEFINE n == snapshot.panes[T[k].saved]
             x == T[k].window
  <1>2. /\ k \in Nat \ {0} /\ k + 1 \in Stamps(S) /\ T[k] = S[k + 1] /\ n \in Nat \ {0}
        /\ k < n + 2 => Step(r) = Before(k, x)
        /\ Step(r).op = "stamp" => x # Step(r).window /\ T[k].saved # Step(r).saved
        /\ x \in Binds(Step(r)) => k >= n + 2
    BY <1>1, StampsAhead
  <1>3. T[k].saved # 0
    BY <1>1, <1>2, StampFacts
  <1>4. /\ x \in DOMAIN b /\ b[x] \in DOMAIN server.made =>
              server.made[b[x]] = 0 /\ filled[b[x]] = FilledBefore(k + 1, n)
        /\ \/ "restored" \in around[r]
           \/ \A y \in DOMAIN server.made : server.made[y] # T[k].saved
    BY <1>1, <1>2 DEF StampHolds
  <1>5. k >= n + 2 /\ FilledBefore(k, n) = Bare /\ FilledBefore(k + 1, n) = Bare
    <2>1. k >= n + 2
      <3>1. Before(k, x).op \in {"split", "layout", "fill"}
        BY DEF Before
      <3>2. ~ k < n + 2
        BY <1>2, <3>1
      <3> HIDE DEF n
      <3> QED
        BY <1>2, <3>2
    <2> HIDE DEF n
    <2>2. k + 1 \in Nat /\ k + 1 >= n + 2
      BY <1>2, <2>1
    <2> QED
      BY <1>2, <2>1, <2>2, FilledFacts
  <1>6. ASSUME x \in DOMAIN c, c[x] \in DOMAIN server'.made
        PROVE  server'.made[c[x]] = 0 /\ filled'[c[x]] = FilledBefore(k, n)
    <2>1. CASE x \in DOMAIN b /\ c[x] = b[x]
      <3>1. Stays(b[x])
        BY <1>2, <2>1
      <3> QED
        BY <1>4, <1>5, <1>6, <2>1, <3>1 DEF Stays
    <2>2. CASE c[x] = nextId
      BY <1>5, <1>6, <2>2
    <2> QED
      BY <1>6, <2>1, <2>2
  <1>7. \/ "restored" \in around'[r]
        \/ \A y \in DOMAIN server'.made : server'.made[y] # T[k].saved
    <2> SUFFICES ASSUME \A y \in DOMAIN server.made : server.made[y] # T[k].saved,
                        NEW y \in DOMAIN server'.made
                 PROVE  server'.made[y] # T[k].saved
      BY <1>4
    <2>1. \/ server'.made[y] = 0
          \/ Step(r).op = "stamp" /\ server'.made[y] = Step(r).saved
          \/ y \in DOMAIN server.made /\ server'.made[y] = server.made[y]
      BY DEF StampsOnly
    <2> QED
      BY <1>2, <1>3, <2>1
  <1> QED
    BY <1>6, <1>7

\* And after one that furnishes a window.
LEMMA FurnishedGoOn ==
    ASSUME ServerOK, Bindings, NEW r \in Restorers, RestoreHolds(r),
           restore[r].steps # <<>>, UNCHANGED <<snapshot, server>>,
           restore'[r].steps = Tail(restore[r].steps), around'[r] = around[r],
           restore'[r].bound = restore[r].bound,
           Step(r).op \in {"split", "layout", "fill"},
           NEW fill, filled' = [filled EXCEPT ![Bound(r)] = fill],
           \A k, n \in Nat \ {0} :
              /\ k < n + 2 /\ Step(r) = Before(k, Step(r).window)
              /\ filled[Bound(r)] = FilledBefore(k + 1, n)
              => fill = FilledBefore(k, n)
    PROVE  StampHolds(r)'
  <1> DEFINE S == restore[r].steps
             T == Tail(S)
             b == restore[r].bound
  <1>1. PlanHolds(r) /\ StampHolds(r)
    BY DEF RestoreHolds
  <1> SUFFICES ASSUME NEW k \in Stamps(T)
               PROVE  /\ T[k].window \in DOMAIN b /\ b[T[k].window] \in DOMAIN server.made =>
                            /\ server.made[b[T[k].window]] = 0
                            /\ filled'[b[T[k].window]]
                               = FilledBefore(k, snapshot.panes[T[k].saved])
                      /\ \/ "restored" \in around[r]
                         \/ \A y \in DOMAIN server.made : server.made[y] # T[k].saved
    BY DEF StampHolds
  <1> DEFINE n == snapshot.panes[T[k].saved]
             x == T[k].window
  <1>2. /\ k \in Nat \ {0} /\ k + 1 \in Stamps(S) /\ T[k] = S[k + 1] /\ n \in Nat \ {0}
        /\ k < n + 2 => Step(r) = Before(k, x)
        /\ x = Step(r).window => k < n + 2
    BY <1>1, StampsAhead
  <1>3. /\ x \in DOMAIN b /\ b[x] \in DOMAIN server.made =>
              server.made[b[x]] = 0 /\ filled[b[x]] = FilledBefore(k + 1, n)
        /\ \/ "restored" \in around[r]
           \/ \A y \in DOMAIN server.made : server.made[y] # T[k].saved
    BY <1>1, <1>2 DEF StampHolds
  <1>4. ASSUME x \in DOMAIN b, b[x] \in DOMAIN server.made
        PROVE  filled'[b[x]] = FilledBefore(k, n)
    <2>1. b[x] \in DOMAIN filled /\ filled[b[x]] = FilledBefore(k + 1, n)
      BY <1>3, <1>4 DEF ServerOK
    <2>2. CASE x = Step(r).window
      <3>1. b[x] = Bound(r)
        BY <2>2 DEF Bound
      <3>2. fill = FilledBefore(k, n)
        BY <1>2, <2>1, <2>2, <3>1
      <3> QED
        BY <2>1, <3>1, <3>2
    <2>3. CASE x # Step(r).window
      <3>1. Before(k, x).window = x
        BY DEF Before
      <3>2. ~ k < n + 2
        BY <1>2, <2>3, <3>1
      <3>3. FilledBefore(k, n) = Bare /\ FilledBefore(k + 1, n) = Bare
        <4> HIDE DEF n
        <4>1. k \in Nat /\ k >= n + 2 /\ k + 1 \in Nat /\ k + 1 >= n + 2
          BY <1>2, <3>2
        <4> QED
          BY <1>2, <4>1, FilledFacts
      <3>4. Step(r).window \in DOMAIN b
        BY <1>1, UsesBound DEF Uses
      <3>5. b[x] # Bound(r)
        <4>1. \A y, z \in DOMAIN b : b[y] = b[z] => y = z
          BY DEF Bindings
        <4>2. x \in DOMAIN b
          BY <1>4
        <4> HIDE DEF b, x
        <4>3. b[x] # b[Step(r).window]
          BY <2>3, <3>4, <4>1, <4>2
        <4> QED
          BY <4>3 DEF Bound, b
      <3> QED
        BY <2>1, <3>3, <3>5
    <2> QED
      BY <2>2, <2>3
  <1> QED
    BY <1>3, <1>4

-----------------------------------------------------------------------------
\* What each step needs of the others.

\* A step that keeps the stamps and contents of all windows leaves alone those
\* of any restore, and every stamp still means a whole window.
LEMMA KeptFacts ==
    ASSUME ServerOK, Bindings, Kept
    PROVE  /\ \A q \in Restorers : \A x \in DOMAIN restore[q].bound :
                 Stays(restore[q].bound[x])
           /\ StampsOnly({})
           /\ nextId \in DOMAIN server'.made =>
                 server'.made[nextId] = 0 /\ filled'[nextId] = Bare
           /\ StampMeansWhole /\ UNCHANGED snapshot => StampMeansWhole'
  <1>1. \A q \in Restorers : \A x \in DOMAIN restore[q].bound :
           Stays(restore[q].bound[x])
    <2> SUFFICES ASSUME NEW q \in Restorers, NEW x \in DOMAIN restore[q].bound
                 PROVE  Stays(restore[q].bound[x])
      OBVIOUS
    <2>1. restore[q].bound[x] \in 1 .. nextId - 1 /\ nextId \in Nat
      BY DEF Bindings, ServerOK
    <2>2. restore[q].bound[x] # nextId
      BY <2>1
    <2> QED
      BY <2>2 DEF Kept, Stays
  <1>2. StampsOnly({})
    BY DEF Kept, StampsOnly
  <1>3. nextId \notin DOMAIN server.made
    BY DEF ServerOK
  <1>4. nextId \in DOMAIN server'.made =>
           server'.made[nextId] = 0 /\ filled'[nextId] = Bare
    BY <1>3 DEF Kept
  <1>5. StampMeansWhole /\ UNCHANGED snapshot => StampMeansWhole'
    BY DEF StampMeansWhole, Kept, Whole
  <1> QED
    BY <1>1, <1>2, <1>4, <1>5

\* A step that leaves the server alone keeps all its windows.
LEMMA SameIsKept ==
    ASSUME ServerOK, UNCHANGED <<server, filled>>
    PROVE  Kept
  BY DEF Kept

\* No binding is new.
LEMMA BindingsStay ==
    ASSUME Bindings, nextId \in Nat, nextId' \in Nat, nextId <= nextId',
           UNCHANGED snapshot,
           \A q \in Restorers : \A x \in DOMAIN restore'[q].bound :
              x \in DOMAIN restore[q].bound /\ restore'[q].bound[x] = restore[q].bound[x]
    PROVE  Bindings'
  <1>1. 1 .. nextId - 1 \subseteq 1 .. nextId' - 1
    BY MoreNumbers
  <1>2. ASSUME NEW q \in Restorers, NEW x \in DOMAIN restore'[q].bound
        PROVE  /\ x \in Refs
               /\ restore'[q].bound[x] \in (1 .. nextId' - 1) \ SavedWindows(snapshot)
    BY <1>1, <1>2 DEF Bindings
  <1>3. ASSUME NEW p \in Restorers, NEW q \in Restorers,
               NEW x \in DOMAIN restore'[p].bound, NEW y \in DOMAIN restore'[q].bound,
               restore'[p].bound[x] = restore'[q].bound[y]
        PROVE  p = q /\ x = y
    BY <1>3 DEF Bindings
  <1> QED
    BY <1>2, <1>3 DEF Bindings

\* The window opened is bound to reference X of r.
LEMMA BindingsGrow ==
    ASSUME Bindings, ServerOK, nextId' = nextId + 1, UNCHANGED snapshot,
           NEW r \in Restorers, NEW X \in Refs, X \notin DOMAIN restore[r].bound,
           \A q \in Restorers : \A x \in DOMAIN restore'[q].bound :
              \/ x \in DOMAIN restore[q].bound /\ restore'[q].bound[x] = restore[q].bound[x]
              \/ q = r /\ x = X /\ restore'[q].bound[x] = nextId
    PROVE  Bindings'
  <1>1. /\ nextId \in Nat \ {0} /\ nextId' \in Nat /\ nextId <= nextId'
        /\ nextId \in 1 .. nextId' - 1 /\ nextId \notin 1 .. nextId - 1
    BY DEF ServerOK
  <1>2. 1 .. nextId - 1 \subseteq 1 .. nextId' - 1
    BY <1>1, MoreNumbers
  <1>3. nextId \notin SavedWindows(snapshot)
    BY <1>1 DEF ServerOK
  <1>4. ASSUME NEW q \in Restorers, NEW x \in DOMAIN restore'[q].bound
        PROVE  /\ x \in Refs
               /\ restore'[q].bound[x] \in (1 .. nextId' - 1) \ SavedWindows(snapshot)
    BY <1>1, <1>2, <1>3, <1>4 DEF Bindings
  <1>5. \A q \in Restorers : \A x \in DOMAIN restore[q].bound : restore[q].bound[x] # nextId
    BY <1>1 DEF Bindings
  <1>6. ASSUME NEW p \in Restorers, NEW q \in Restorers,
               NEW x \in DOMAIN restore'[p].bound, NEW y \in DOMAIN restore'[q].bound,
               restore'[p].bound[x] = restore'[q].bound[y]
        PROVE  p = q /\ x = y
    <2>1. CASE x \in DOMAIN restore[p].bound /\ restore'[p].bound[x] = restore[p].bound[x]
               /\ y \in DOMAIN restore[q].bound /\ restore'[q].bound[y] = restore[q].bound[y]
      <3>1. restore[p].bound[x] = restore[q].bound[y]
        BY <1>6, <2>1
      <3>2. \A z \in DOMAIN restore[p].bound : \A t \in DOMAIN restore[q].bound :
               restore[p].bound[z] = restore[q].bound[t] => p = q /\ z = t
        BY DEF Bindings
      <3> QED
        BY <2>1, <3>1, <3>2
    <2>2. CASE p = r /\ x = X /\ restore'[p].bound[x] = nextId
      BY <1>5, <1>6, <2>2
    <2>3. CASE q = r /\ y = X /\ restore'[q].bound[y] = nextId
      BY <1>5, <1>6, <2>3
    <2> QED
      BY <2>1, <2>2, <2>3
  <1> QED
    BY <1>4, <1>6 DEF Bindings

\* r takes a step that binds nothing.
StepsOn(r) ==
    /\ RestorersOK'
    /\ restore[r].steps # <<>> /\ Step(r).op \notin {"create", "new"}
    /\ restore'[r].steps = Tail(restore[r].steps)
    /\ restore'[r].bound = restore[r].bound
    /\ \A q \in Restorers \ {r} : GoesOnAs(q)
    /\ around' = Others(r)
    /\ UNCHANGED <<snapshot, nextId>>

\* The others are told of it.
LEMMA OthersTold ==
    ASSUME RestorersOK, NEW r \in Restorers, around' = Others(r)
    PROVE  /\ \A q \in Restorers \ {r} : NoneStamped(q)
           /\ around'[r] = around[r]
           /\ around' = [q \in Restorers |-> around'[q]]
           /\ \A q \in Restorers : around'[q] \subseteq {"opened", "closed", "restored"}
  BY DEF RestorersOK, RestorerOK, Others, Told, NoneStamped

\* A restore that takes the first of its steps keeps the invariant, if it
\* touches no window of another restore.
LEMMA StepsOnKeeps ==
    ASSUME IInv, NEW r \in Restorers, StepsOn(r), ServerOK',
           StampHolds(r)', StampMeansWhole', \A q \in Restorers \ {r} : Untouched(q)
    PROVE  IInv'
  <1>1. /\ ServerOK /\ RestorersOK /\ Bindings /\ \A q \in Restorers : RestoreHolds(q)
        /\ PlanHolds(r)
    BY DEF IInv, RestoreHolds
  <1>2. ~ IsMoving(r)'
    BY <1>1, MovesNext DEF StepsOn
  <1>3. ASSUME NEW q \in Restorers, IsMoving(q)'
        PROVE  IsMoving(q) /\ Bound(q)' = Bound(q)
    BY <1>2, <1>3 DEF StepsOn, GoesOnAs, IsMoving, Bound, Step
  <1>4. nextId \in Nat /\ nextId' \in Nat /\ nextId <= nextId'
    BY <1>1 DEF StepsOn, ServerOK
  <1>5. Known \subseteq Known'
    BY <1>3, <1>4, KnownGrows
  <1>6. Bindings'
    BY <1>1, <1>4, BindingsStay DEF StepsOn, GoesOnAs
  <1>7. RestoreHolds(r)'
    <2>1. Binds(Step(r)) = {}
      BY DEF StepsOn, Binds
    <2>2. PlanHolds(r)'
      BY <1>1, <1>5, <2>1, PlanAdvances DEF StepsOn
    <2>3. MoveHolds(r)'
      BY <1>2 DEF MoveHolds
    <2> QED
      BY <2>2, <2>3 DEF RestoreHolds
  <1>8. ASSUME NEW q \in Restorers \ {r}
        PROVE  RestoreHolds(q)'
    <2>1. NoneStamped(q)
      BY <1>1, OthersTold DEF StepsOn
    <2> QED
      BY <1>1, <1>5, <2>1, StillHolds DEF StepsOn
  <1> QED
    BY <1>6, <1>7, <1>8 DEF IInv, StepsOn

\* A step that neither opens, furnishes nor stamps a window.
LEMMA PlainStepKeeps ==
    ASSUME IInv, NEW r \in Restorers, StepsOn(r), ServerOK', Kept,
           Step(r).op \notin {"split", "layout", "fill", "stamp"},
           \A q \in Restorers \ {r} : IsMoving(q) => \A s \in AllSessions :
              Bound(q) \in Range(server'.links[s]) => Bound(q) \in Range(server.links[s])
    PROVE  IInv'
  <1>1. /\ ServerOK /\ RestorersOK /\ Bindings /\ RestoreHolds(r) /\ StampMeansWhole
    BY DEF IInv
  <1>2. /\ \A q \in Restorers : \A x \in DOMAIN restore[q].bound :
              Stays(restore[q].bound[x])
        /\ StampsOnly({})
        /\ nextId \in DOMAIN server'.made =>
              server'.made[nextId] = 0 /\ filled'[nextId] = Bare
        /\ StampMeansWhole'
    BY <1>1, KeptFacts DEF StepsOn
  <1>3. \A q \in Restorers \ {r} : Untouched(q)
    BY <1>2 DEF Untouched
  <1>4. StampHolds(r)'
    <2>1. around'[r] = around[r]
      BY <1>1, OthersTold DEF StepsOn
    <2>2. StampsOnly(IF Step(r).op = "stamp" THEN {Step(r).saved} ELSE {})
      BY <1>2
    <2> QED
      BY <1>1, <1>2, <2>1, <2>2, StampsGoOn DEF StepsOn
  <1> QED
    BY <1>2, <1>3, <1>4, StepsOnKeeps

\* What a step at hand names: a session, an index, a window, each in its range.
LEMMA StepShape ==
    ASSUME ServerOK, NEW r \in Restorers, PlanHolds(r), restore[r].steps # <<>>
    PROVE  LET step == Step(r)
           IN  /\ step.op \in {"create", "move", "new", "link", "switch", "mark", "select"}
                  => step.session \in SessionNames
               /\ step.op \in {"move", "new", "link", "select"} => step.at \in Nat
               /\ step.op = "link" =>
                     step.source \in [live : Known] \cup [built : Refs]
               /\ step.op \in {"create", "new"} => step.window \in Refs
               /\ step.op = "stamp" => step.saved \in SavedWindows(snapshot)
  <1> DEFINE S == restore[r].steps
             b == DOMAIN restore[r].bound
  <1>1. /\ IsSnapshot(snapshot) /\ DOMAIN snapshot.links \subseteq SessionNames
        /\ Sound(S, b, snapshot, Known) /\ Step(r) = Head(S) /\ S # <<>>
    BY RestoreAssumption DEF ServerOK, PlanHolds, Step
  <1> HIDE DEF S, b
  <1>2. Step(r) \in Steps(snapshot, Known)
    BY <1>1, SoundTail
  <1> QED
    BY <1>1, <1>2 DEF Steps, SavedWindows

\* A step done that makes no window binds nothing, and is taken off the plan.
LEMMA StepDoneStepsOn ==
    ASSUME RestorersOK, NEW r \in Restorers, NEW op, Doing(r, op), op \notin {"create", "new"},
           StepDone(r), UNCHANGED nextId
    PROVE  StepsOn(r)
  <1>1. /\ restore' = [restore EXCEPT ![r].steps = Tail(@)]
        /\ around' = Others(r) /\ UNCHANGED snapshot
        /\ restore[r].stage = "applying" /\ restore[r].steps # <<>>
        /\ Step(r).op = op
    BY DEF StepDone, Doing, Step
  <1>2. /\ \A q \in Restorers \ {r} : restore'[q] = restore[q]
        /\ restore'[r] = [restore[r] EXCEPT !.steps = Tail(restore[r].steps)]
        /\ restore' = [q \in Restorers |-> restore'[q]]
    BY <1>1 DEF RestorersOK
  <1>3. restore'[r] = [stage |-> restore[r].stage, client |-> restore[r].client,
                       scratch |-> restore[r].scratch, steps |-> Tail(restore[r].steps),
                       bound |-> restore[r].bound]
    BY <1>2 DEF RestorersOK, RestorerOK
  <1>4. RestorerOK(restore'[r])
    <2> DEFINE it == restore'[r]
    <2>1. /\ it.stage = restore[r].stage /\ it.client = restore[r].client
          /\ it.scratch = restore[r].scratch
          /\ it.steps = Tail(restore[r].steps) /\ it.bound = restore[r].bound
      BY <1>3
    <2>2. /\ restore[r].client \in AllSessions /\ restore[r].scratch \in BOOLEAN
      BY DEF RestorersOK, RestorerOK
    <2>3. it = [stage |-> it.stage, client |-> it.client, scratch |-> it.scratch,
                steps |-> it.steps, bound |-> it.bound]
      BY <1>3, <2>1
    <2> HIDE DEF it
    <2>4. it.scratch \in BOOLEAN
      BY <2>1, <2>2
    <2> QED
      BY <1>1, <2>1, <2>2, <2>3, <2>4 DEF RestorerOK, it
  <1>5. RestorersOK'
    BY <1>1, <1>2, <1>4, OthersTold DEF RestorersOK
  <1> QED
    BY <1>1, <1>2, <1>3, <1>5 DEF StepsOn, GoesOnAs

\* Session s comes to link the windows of f, all of them there already.
LEMMA RelinkOne ==
    ASSUME ServerOK, NEW s \in AllSessions, NEW f,
           DOMAIN f \subseteq Nat, IsFiniteSet(DOMAIN f), Range(f) \subseteq DOMAIN server.made,
           Relink([server.links EXCEPT ![s] = f], server.made, filled),
           UNCHANGED <<snapshot, nextId>>
    PROVE  /\ ServerOK' /\ Kept /\ server'.links[s] = f
           /\ \A t \in AllSessions : t # s => server'.links[t] = server.links[t]
  <1> DEFINE links == [server.links EXCEPT ![s] = f]
  <1>1. /\ DOMAIN links = AllSessions /\ links[s] = f
        /\ \A t \in AllSessions : t # s => links[t] = server.links[t]
    BY DEF ServerOK
  <1>2. Relink(links, server.made, filled)
    OBVIOUS
  <1> HIDE DEF links
  <1>3. \A t \in AllSessions : /\ DOMAIN links[t] \subseteq Nat /\ IsFiniteSet(DOMAIN links[t])
                               /\ Range(links[t]) \subseteq DOMAIN server.made
    BY <1>1 DEF ServerOK
  <1>4. ServerOK' /\ server'.links = links /\ Kept
    BY <1>1, <1>2, <1>3, RelinkKeeps
  <1> QED
    BY <1>1, <1>4

\* The window r moves is where the step puts it.
HasPut(r) ==
    /\ Step(r).at \in DOMAIN server'.links[Step(r).session]
    /\ server'.links[Step(r).session][Step(r).at] = Bound(r)

\* MoveWindow: a window just made, linked nowhere else, goes to its index, and
\* no session loses a window by it.
LEMMA MoveKeeps ==
    ASSUME IInv, NEW r \in Restorers, MoveWindow(r)
    PROVE  /\ IInv'
           /\ \A s \in AllSessions : Range(server.links[s]) \subseteq Range(server'.links[s])
           /\ HasPut(r)
  <1> DEFINE s == Step(r).session
             at == Step(r).at
             w == Bound(r)
             from == CHOOSE i \in DOMAIN server.links[s] : server.links[s][i] = w
             kept == Restrict(server.links[s], DOMAIN server.links[s] \ {from})
             f == Put(kept, at, w)
  <1>1. /\ Doing(r, "move") /\ Lives(w) /\ LandsOn(s, at, w)
        /\ Relink([server.links EXCEPT ![s] = f], server.made, filled)
        /\ StepDone(r) /\ UNCHANGED <<snapshot, nextId>>
    BY DEF MoveWindow, StepDone
  <1>2. /\ ServerOK /\ RestorersOK /\ Bindings /\ PlanHolds(r) /\ MoveHolds(r)
        /\ \A q \in Restorers : MoveHolds(q)
    BY DEF IInv, RestoreHolds
  <1>3. StepsOn(r) /\ Step(r).op = "move" /\ restore[r].steps # <<>>
    BY <1>1, <1>2, StepDoneStepsOn DEF Doing, Step
  <1>4. IsMoving(r) /\ s \in AllSessions /\ at \in Nat
    BY <1>2, <1>3, StepShape DEF IsMoving, AllSessions
  <1>5. /\ Step(r).window \in DOMAIN restore[r].bound
        /\ \A t \in AllSessions : w \in Range(server.links[t]) => t = s
    BY <1>2, <1>4 DEF MoveHolds
  <1>6. w \in Range(server.links[s])
    <2>1. PICK t \in AllSessions : w \in Range(server.links[t])
      BY <1>1, <1>2 DEF Lives, ServerOK
    <2> QED
      BY <1>5, <2>1
  <1>7. from \in DOMAIN server.links[s] /\ server.links[s][from] = w
    <2>1. \E i \in DOMAIN server.links[s] : server.links[s][i] = w
      BY <1>6 DEF Range
    <2> QED
      BY <2>1
  <1> HIDE DEF from, s, at, w
  <1>8. /\ DOMAIN kept = DOMAIN server.links[s] \ {from}
        /\ \A i \in DOMAIN kept : kept[i] = server.links[s][i]
    BY DEF Restrict
  <1> HIDE DEF kept
  <1>9. /\ DOMAIN f = DOMAIN kept \cup {at} /\ f[at] = w
        /\ \A i \in DOMAIN kept : i # at => f[i] = kept[i]
    BY DEF Put
  <1> HIDE DEF f
  <1>10. Range(f) = Range(server.links[s])
    <2>1. Range(f) \subseteq Range(server.links[s])
      BY <1>6, <1>8, <1>9 DEF Range
    <2>2. ASSUME NEW i \in DOMAIN server.links[s]
          PROVE  \E j \in DOMAIN f : f[j] = server.links[s][i]
      <3>1. CASE i = from \/ i = at
        <4>1. server.links[s][i] = w
          BY <1>1, <1>7, <3>1 DEF LandsOn, Free
        <4> QED
          BY <1>9, <4>1
      <3>2. CASE i # from /\ i # at
        BY <1>8, <1>9, <3>2
      <3> QED
        BY <3>1, <3>2
    <2> QED
      BY <2>1, <2>2 DEF Range
  <1>11. /\ DOMAIN f \subseteq Nat /\ IsFiniteSet(DOMAIN f)
         /\ Range(f) \subseteq DOMAIN server.made
    <2> DEFINE D == DOMAIN server.links[s]
    <2>1. D \subseteq Nat /\ IsFiniteSet(D) /\ Range(server.links[s]) \subseteq DOMAIN server.made
      BY <1>2, <1>4 DEF ServerOK
    <2>2. DOMAIN f \subseteq D \cup {at}
      BY <1>8, <1>9
    <2> HIDE DEF D
    <2>3. IsFiniteSet(D \cup {at})
      BY <2>1, FS_AddElement
    <2> QED
      BY <1>4, <1>10, <2>1, <2>2, <2>3, FS_Subset
  <1>12. /\ ServerOK' /\ Kept /\ server'.links[s] = f
         /\ \A t \in AllSessions : t # s => server'.links[t] = server.links[t]
    BY <1>1, <1>2, <1>4, <1>11, RelinkOne
  <1>13. \A t \in AllSessions : Range(server'.links[t]) = Range(server.links[t])
    BY <1>10, <1>12
  <1>14. IInv'
    BY <1>3, <1>12, <1>13, PlainStepKeeps
  <1>15. HasPut(r)
    BY <1>9, <1>12 DEF HasPut, s, at, w
  <1> QED
    BY <1>13, <1>14, <1>15

\* The only window session s loses, if any, is the one where r's link goes.
LosesAt(r, s) ==
    /\ Step(r).replacing # 0 /\ s = Step(r).session
    /\ Range(server.links[s]) \ Range(server'.links[s]) \subseteq {server.links[s][Step(r).at]}

\* LinkWindow: the window linked is none that is about to be moved, and only
\* a replacing link takes a window from a session, the one where it goes.
LEMMA LinkKeeps ==
    ASSUME IInv, NEW r \in Restorers, LinkWindow(r)
    PROVE  /\ IInv'
           /\ \A s \in AllSessions : \/ Range(server.links[s]) \subseteq Range(server'.links[s])
                                     \/ LosesAt(r, s)
  <1> DEFINE s == Step(r).session
             at == Step(r).at
             w == SourceOf(r)
             f == Put(server.links[s], at, w)
  <1>1. /\ Doing(r, "link") /\ Lives(w) /\ Alive(s)
        /\ Step(r).replacing # 0 \/ Free(s, at)
        /\ Relink([server.links EXCEPT ![s] = f], server.made, filled)
        /\ StepDone(r) /\ UNCHANGED <<snapshot, nextId>>
    BY DEF LinkWindow, StepDone, Replaces
  <1>2. /\ ServerOK /\ RestorersOK /\ Bindings /\ PlanHolds(r)
        /\ \A q \in Restorers : MoveHolds(q)
    BY DEF IInv, RestoreHolds
  <1>3. StepsOn(r) /\ Step(r).op = "link" /\ restore[r].steps # <<>>
    BY <1>1, <1>2, StepDoneStepsOn DEF Doing, Step
  <1>4. /\ s \in AllSessions /\ at \in Nat
        /\ Step(r).source \in [live : Known] \cup [built : Refs]
    BY <1>2, <1>3, StepShape DEF AllSessions
  <1>5. ASSUME NEW q \in Restorers \ {r}, IsMoving(q)
        PROVE  w # Bound(q)
    <2>1. CASE Step(r).source \in [live : Known]
      <3>1. "built" \notin DOMAIN Step(r).source /\ Step(r).source.live \in Known
        BY <2>1
      <3>2. w = Step(r).source.live
        BY <3>1 DEF SourceOf
      <3> QED
        BY <1>5, <3>1, <3>2 DEF Known
    <2>2. CASE Step(r).source \in [built : Refs]
      <3>1. "built" \in DOMAIN Step(r).source
        BY <2>2
      <3>2. w = restore[r].bound[Step(r).source.built]
        BY <3>1 DEF SourceOf
      <3>3. Step(r).source.built \in DOMAIN restore[r].bound
        <4>1. Uses(Step(r)) = {Step(r).source.built}
          BY <1>3, <3>1 DEF Uses
        <4> QED
          BY <1>2, <1>3, <4>1, UsesBound
      <3>4. Step(q).window \in DOMAIN restore[q].bound
        BY <1>2, <1>5 DEF MoveHolds
      <3> QED
        BY <1>2, <3>2, <3>3, <3>4 DEF Bindings, Bound
    <2> QED
      BY <1>4, <2>1, <2>2
  <1>6. /\ DOMAIN f = DOMAIN server.links[s] \cup {at}
        /\ Range(f) \subseteq Range(server.links[s]) \cup {w}
        /\ at \notin DOMAIN server.links[s] => Range(f) = Range(server.links[s]) \cup {w}
        /\ Range(server.links[s]) \ Range(f) \subseteq {server.links[s][at]}
    <2> DEFINE g == server.links[s]
    <2> HIDE DEF g, at, w
    <2>1. /\ DOMAIN Put(g, at, w) = DOMAIN g \cup {at} /\ Put(g, at, w)[at] = w
          /\ \A i \in DOMAIN g : i # at => Put(g, at, w)[i] = g[i]
      BY DEF Put
    <2> DEFINE h == Put(g, at, w)
    <2> HIDE DEF h
    <2>2. /\ Range(h) \subseteq Range(g) \cup {w}
          /\ at \notin DOMAIN g => Range(h) = Range(g) \cup {w}
          /\ Range(g) \ Range(h) \subseteq {g[at]}
      BY <2>1 DEF Range, h
    <2> QED
      BY <2>1, <2>2 DEF g, h
  <1>7. /\ DOMAIN f \subseteq Nat /\ IsFiniteSet(DOMAIN f)
        /\ Range(f) \subseteq DOMAIN server.made
    <2> DEFINE D == DOMAIN server.links[s]
    <2>1. D \subseteq Nat /\ IsFiniteSet(D) /\ Range(server.links[s]) \subseteq DOMAIN server.made
      BY <1>2, <1>4 DEF ServerOK
    <2>2. DOMAIN f = D \cup {at}
      BY <1>6
    <2> HIDE DEF D
    <2>3. IsFiniteSet(D \cup {at})
      BY <2>1, FS_AddElement
    <2> QED
      BY <1>1, <1>4, <1>6, <2>1, <2>2, <2>3 DEF Lives
  <1> HIDE DEF f
  <1>8. /\ ServerOK' /\ Kept /\ server'.links[s] = f
        /\ \A t \in AllSessions : t # s => server'.links[t] = server.links[t]
    BY <1>1, <1>2, <1>4, <1>7, RelinkOne
  <1>9. \A q \in Restorers \ {r} : IsMoving(q) => \A t \in AllSessions :
           Bound(q) \in Range(server'.links[t]) => Bound(q) \in Range(server.links[t])
    BY <1>5, <1>6, <1>8
  <1>10. IInv'
    BY <1>3, <1>8, <1>9, PlainStepKeeps
  <1>11. Range(server.links[s]) \subseteq Range(server'.links[s]) \/ LosesAt(r, s)
    BY <1>1, <1>6, <1>8 DEF Free, LosesAt
  <1>12. \A t \in AllSessions : t # s => server'.links[t] = server.links[t]
    BY <1>8
  <1> QED
    BY <1>10, <1>11, <1>12

\* KillSession: the scratch goes, and no other session loses a window.
LEMMA KillKeeps ==
    ASSUME IInv, NEW r \in Restorers, KillSession(r)
    PROVE  /\ IInv'
           /\ \A s \in SessionNames : server'.links[s] = server.links[s]
  <1>1. /\ Doing(r, "kill")
        /\ Relink([server.links EXCEPT ![Scratch] = << >>], server.made, filled)
        /\ StepDone(r) /\ UNCHANGED <<snapshot, nextId>>
    BY DEF KillSession, StepDone
  <1>2. /\ ServerOK /\ RestorersOK
    BY DEF IInv
  <1>3. StepsOn(r) /\ Step(r).op = "kill"
    BY <1>1, <1>2, StepDoneStepsOn DEF Doing, Step
  <1>4. /\ DOMAIN << >> \subseteq Nat /\ IsFiniteSet(DOMAIN << >>)
        /\ Range(<< >>) = {}
    <2>1. DOMAIN << >> = {}
      OBVIOUS
    <2> QED
      BY <2>1, FS_EmptySet DEF Range
  <1>5. Scratch \in AllSessions /\ Scratch \notin SessionNames
    BY RestoreAssumption DEF AllSessions
  <1>6. /\ ServerOK' /\ Kept /\ server'.links[Scratch] = << >>
        /\ \A t \in AllSessions : t # Scratch => server'.links[t] = server.links[t]
    BY <1>1, <1>2, <1>4, <1>5, RelinkOne
  <1>7. \A q \in Restorers \ {r} : IsMoving(q) => \A t \in AllSessions :
           Bound(q) \in Range(server'.links[t]) => Bound(q) \in Range(server.links[t])
    BY <1>4, <1>6
  <1>8. IInv'
    BY <1>3, <1>6, <1>7, PlainStepKeeps
  <1> QED
    BY <1>5, <1>6, <1>8 DEF AllSessions

\* A server left as it was is well-formed.
LEMMA SameServer ==
    ASSUME ServerOK, UNCHANGED <<snapshot, server, filled, marked, nextId>>
    PROVE  ServerOK' /\ Kept
  <1>1. ServerOK'
    BY DEF ServerOK, Alive
  <1> QED
    BY <1>1, SameIsKept

\* SwitchClients: as for any step, and clients move to a session there is.
LEMMA SwitchKeeps ==
    ASSUME IInv, NEW r \in Restorers, SwitchClients(r)
    PROVE  IInv' /\ UNCHANGED server /\ StepsOn(r)
  <1>1. /\ Doing(r, "switch") /\ restore[r].steps # <<>> /\ Step(r).op = "switch"
        /\ around' = Others(r) /\ UNCHANGED <<snapshot, server, filled, marked, nextId>>
    BY DEF SwitchClients, Doing, Step
  <1>2. /\ ServerOK /\ RestorersOK /\ PlanHolds(r)
    BY DEF IInv, RestoreHolds
  <1>3. Step(r).session \in AllSessions
    BY <1>1, <1>2, StepShape DEF AllSessions
  <1> DEFINE To(q) == IF restore[q].client = Scratch THEN Step(r).session
                                                     ELSE restore[q].client
             Left(q) == IF q = r THEN Tail(restore[q].steps) ELSE restore[q].steps
  <1>4. ASSUME NEW q \in Restorers
        PROVE  restore'[q] = [stage |-> restore[q].stage, client |-> To(q),
                              scratch |-> restore[q].scratch, steps |-> Left(q),
                              bound |-> restore[q].bound]
    <2>1. restore'[q] = [restore[q] EXCEPT !.client = To(q), !.steps = Left(q)]
      BY DEF SwitchClients
    <2> HIDE DEF To, Left
    <2> QED
      BY <1>2, <2>1 DEF RestorersOK, RestorerOK
  <1>5. restore' = [q \in Restorers |-> restore'[q]]
    BY DEF SwitchClients
  <1>6. ASSUME NEW q \in Restorers
        PROVE  RestorerOK(restore'[q])
    <2> DEFINE it == restore'[q]
    <2>1. To(q) \in AllSessions
      BY <1>2, <1>3 DEF RestorersOK, RestorerOK
    <2>2. restore[q].stage # "applying" => Left(q) = <<>> /\ restore[q].bound = << >>
      BY <1>1, <1>2 DEF RestorersOK, RestorerOK, Doing
    <2>3. restore[q].scratch \in BOOLEAN
          /\ restore[q].stage \in {"idle", "creating", "opened", "applying"}
      BY <1>2 DEF RestorersOK, RestorerOK
    <2>0. it = [stage |-> restore[q].stage, client |-> To(q),
                scratch |-> restore[q].scratch, steps |-> Left(q),
                bound |-> restore[q].bound]
      BY <1>4
    <2> HIDE DEF To, Left, it
    <2>4. /\ it.stage = restore[q].stage /\ it.client = To(q)
          /\ it.scratch = restore[q].scratch
          /\ it.steps = Left(q) /\ it.bound = restore[q].bound
      BY <2>0
    <2>5. it = [stage |-> it.stage, client |-> it.client, scratch |-> it.scratch,
                steps |-> it.steps, bound |-> it.bound]
      BY <2>0, <2>4
    <2>6. it.scratch \in BOOLEAN
      BY <2>3, <2>4
    <2> QED
      BY <2>1, <2>2, <2>3, <2>4, <2>5, <2>6 DEF RestorerOK, it
  <1>7. RestorersOK'
    <2>1. /\ around' = [q \in Restorers |-> around'[q]]
          /\ \A q \in Restorers : around'[q] \subseteq {"opened", "closed", "restored"}
      BY <1>1, <1>2, OthersTold
    <2> QED
      BY <1>5, <1>6, <2>1 DEF RestorersOK
  <1>8. StepsOn(r)
    <2>1. ASSUME NEW q \in Restorers
          PROVE  restore'[q].steps = Left(q) /\ restore'[q].bound = restore[q].bound
      <3> DEFINE it == restore'[q]
      <3>1. it = [stage |-> restore[q].stage, client |-> To(q),
                  scratch |-> restore[q].scratch, steps |-> Left(q),
                  bound |-> restore[q].bound]
        BY <1>4
      <3> HIDE DEF To, Left, it
      <3>2. it.steps = Left(q) /\ it.bound = restore[q].bound
        BY <3>1
      <3> QED
        BY <3>2 DEF it
    <2>2. /\ restore'[r].steps = Tail(restore[r].steps)
          /\ restore'[r].bound = restore[r].bound
          /\ \A q \in Restorers \ {r} : GoesOnAs(q)
      BY <2>1 DEF GoesOnAs
    <2> QED
      BY <1>1, <1>7, <2>2 DEF StepsOn
  <1>9. ServerOK' /\ Kept
    BY <1>1, <1>2, SameServer
  <1> QED
    BY <1>1, <1>8, <1>9, PlainStepKeeps

\* SelectWindow: as for any step that leaves the windows as they are.
LEMMA SelectKeeps ==
    ASSUME IInv, NEW r \in Restorers, SelectWindow(r)
    PROVE  IInv' /\ UNCHANGED server
  <1>1. /\ Doing(r, "select") /\ StepDone(r)
        /\ UNCHANGED <<snapshot, server, filled, marked, nextId>>
    BY DEF SelectWindow, StepDone
  <1>2. /\ ServerOK /\ RestorersOK
    BY DEF IInv
  <1>3. StepsOn(r) /\ Step(r).op = "select"
    BY <1>1, <1>2, StepDoneStepsOn DEF Doing, Step
  <1>4. ServerOK' /\ Kept
    BY <1>1, <1>2, SameServer
  <1> QED
    BY <1>1, <1>3, <1>4, PlainStepKeeps

\* MarkSession: as for any step, and the session marked is alive.
LEMMA MarkKeeps ==
    ASSUME IInv, NEW r \in Restorers, MarkSession(r)
    PROVE  IInv' /\ UNCHANGED server
  <1>1. /\ Doing(r, "mark") /\ StepDone(r) /\ Alive(Step(r).session)
        /\ marked' = marked \cup {Step(r).session}
        /\ UNCHANGED <<snapshot, server, filled, nextId>>
    BY DEF MarkSession, StepDone, IsTarget
  <1>2. /\ ServerOK /\ RestorersOK /\ PlanHolds(r)
    BY DEF IInv, RestoreHolds
  <1>3. StepsOn(r) /\ Step(r).op = "mark" /\ restore[r].steps # <<>>
    BY <1>1, <1>2, StepDoneStepsOn DEF Doing, Step
  <1>4. Step(r).session \in SessionNames
    BY <1>2, <1>3, StepShape
  <1>5. ServerOK'
    BY <1>1, <1>2, <1>4 DEF ServerOK, Alive
  <1>6. Kept
    BY <1>1, <1>2, SameIsKept
  <1> QED
    BY <1>1, <1>3, <1>5, <1>6, PlainStepKeeps

\* MarkServer: as for any step that leaves the windows as they are.
LEMMA MarkServerKeeps ==
    ASSUME IInv, NEW r \in Restorers, MarkServer(r)
    PROVE  IInv' /\ server'.links = server.links
  <1> DEFINE yes == TRUE
  <1>1. /\ Doing(r, "touch") /\ StepDone(r)
        /\ server' = [server EXCEPT !.touched = yes]
        /\ UNCHANGED <<snapshot, filled, marked, nextId>>
    BY DEF MarkServer, StepDone
  <1> HIDE DEF yes
  <1>2. /\ ServerOK /\ RestorersOK
    BY DEF IInv
  <1>3. StepsOn(r) /\ Step(r).op = "touch"
    BY <1>1, <1>2, StepDoneStepsOn DEF Doing, Step
  <1>4. server' = [links |-> server.links, made |-> server.made,
                   touched |-> yes, sameServer |-> server.sameServer]
    BY <1>1, <1>2 DEF ServerOK
  <1>5. /\ server'.links = server.links /\ server'.made = server.made
        /\ server' = [links |-> server'.links, made |-> server'.made,
                      touched |-> server'.touched, sameServer |-> server'.sameServer]
    BY <1>4
  <1>6. ServerOK'
    BY <1>1, <1>2, <1>5 DEF ServerOK, Alive
  <1>7. Kept
    BY <1>1, <1>5 DEF Kept
  <1> QED
    BY <1>3, <1>5, <1>6, <1>7, PlainStepKeeps

\* How far ahead of its stamp a step that furnishes a window is.
LEMMA OpOfStep ==
    ASSUME NEW k \in Nat \ {0}, NEW r, Step(r) = Before(k, Step(r).window)
    PROVE  /\ Step(r).op = "fill" => k = 1
           /\ Step(r).op = "layout" => k = 2
           /\ Step(r).op = "split" => k >= 3
  <1>1. Step(r).op = IF k = 1 THEN "fill" ELSE IF k = 2 THEN "layout" ELSE "split"
    BY DEF Before
  <1> QED
    BY <1>1

\* A step that furnishes a window takes it as far as its place in the plan
\* says, and touches no window of another restore.
LEMMA FurnishingKeeps ==
    ASSUME IInv, NEW r \in Restorers, NEW op \in {"split", "layout", "fill"}, NEW fill,
           Doing(r, op), Furnishes(r, fill),
           \A k, n \in Nat \ {0} :
              /\ k < n + 2 /\ Step(r) = Before(k, Step(r).window)
              /\ filled[Bound(r)] = FilledBefore(k + 1, n)
              => fill = FilledBefore(k, n)
    PROVE  IInv' /\ UNCHANGED server
  <1>1. /\ Lives(Bound(r)) /\ StepDone(r)
        /\ filled' = [filled EXCEPT ![Bound(r)] = fill]
        /\ UNCHANGED <<snapshot, server, marked, nextId>>
    BY DEF Furnishes, StepDone
  <1>2. /\ ServerOK /\ RestorersOK /\ Bindings /\ RestoreHolds(r) /\ PlanHolds(r)
        /\ StampMeansWhole
    BY DEF IInv, RestoreHolds
  <1>3. /\ StepsOn(r) /\ Step(r).op = op /\ restore[r].steps # <<>>
        /\ Step(r).op \in {"split", "layout", "fill"}
    BY <1>1, <1>2, StepDoneStepsOn DEF Doing, Step
  <1>4. /\ DOMAIN filled' = DOMAIN filled
        /\ \A w \in DOMAIN filled : w # Bound(r) => filled'[w] = filled[w]
    BY <1>1
  <1>5. ServerOK'
    BY <1>1, <1>2, <1>4 DEF ServerOK, Alive
  <1>6. StampHolds(r)'
    <2>1. around'[r] = around[r]
      BY <1>2, <1>3, OthersTold DEF StepsOn
    <2> QED
      BY <1>1, <1>2, <1>3, <2>1, FurnishedGoOn DEF StepsOn
  <1>7. StampMeansWhole'
    <2>1. server.made[Bound(r)] = 0
      BY <1>1, <1>2, <1>3, FurnishedIsUnstamped
    <2> QED
      BY <1>1, <1>2, <1>4, <2>1 DEF StampMeansWhole, Whole, ServerOK
  <1>8. ASSUME NEW q \in Restorers \ {r}
        PROVE  Untouched(q)
    <2>1. Step(r).window \in DOMAIN restore[r].bound
      <3>1. Uses(Step(r)) = {Step(r).window}
        BY <1>3 DEF Uses
      <3> QED
        BY <1>2, <1>3, <3>1, UsesBound
    <2>2. ASSUME NEW x \in DOMAIN restore[q].bound
          PROVE  restore[q].bound[x] # Bound(r)
      BY <1>2, <2>1 DEF Bindings, Bound
    <2> QED
      BY <1>1, <1>2, <1>4, <2>2 DEF Untouched, Stays, ServerOK
  <1> QED
    BY <1>1, <1>3, <1>5, <1>6, <1>7, <1>8, StepsOnKeeps

\* SplitPane: the window gets one more of its panes.
LEMMA SplitKeeps ==
    ASSUME IInv, NEW r \in Restorers, SplitPane(r)
    PROVE  IInv' /\ UNCHANGED server
  <1> DEFINE fill == [filled[Bound(r)] EXCEPT !.panes = @ + 1]
  <1>1. Doing(r, "split") /\ Furnishes(r, fill) /\ Step(r).op = "split"
    BY DEF SplitPane, Doing, Step
  <1>2. ASSUME NEW k \in Nat \ {0}, NEW n \in Nat \ {0}, k < n + 2,
               Step(r) = Before(k, Step(r).window),
               filled[Bound(r)] = FilledBefore(k + 1, n)
        PROVE  fill = FilledBefore(k, n)
    <2>1. k >= 3
      BY <1>1, <1>2, OpOfStep
    <2>2. k + 1 \in 4 .. n + 2 /\ (k + 1) - 1 = k
      BY <1>2, <2>1
    <2>3. [FilledBefore(k + 1, n) EXCEPT !.panes = @ + 1] = FilledBefore((k + 1) - 1, n)
      BY <2>2, FilledFacts
    <2> QED
      BY <1>2, <2>2, <2>3
  <1> HIDE DEF fill
  <1> QED
    BY <1>1, <1>2, FurnishingKeeps

\* SelectLayout: the window, all of whose panes are there, is laid out.
LEMMA LayoutKeeps ==
    ASSUME IInv, NEW r \in Restorers, SelectLayout(r)
    PROVE  IInv' /\ UNCHANGED server
  <1> DEFINE fill == [filled[Bound(r)] EXCEPT !.laidOut = TRUE]
  <1>1. Doing(r, "layout") /\ Furnishes(r, fill) /\ Step(r).op = "layout"
    BY DEF SelectLayout, Doing, Step
  <1>2. ASSUME NEW k \in Nat \ {0}, NEW n \in Nat \ {0}, k < n + 2,
               Step(r) = Before(k, Step(r).window),
               filled[Bound(r)] = FilledBefore(k + 1, n)
        PROVE  fill = FilledBefore(k, n)
    <2>1. k = 2
      BY <1>1, <1>2, OpOfStep
    <2>2. filled[Bound(r)] = FilledBefore(3, n)
      BY <1>2, <2>1
    <2>3. [FilledBefore(3, n) EXCEPT !.laidOut = TRUE] = FilledBefore(2, n)
      BY FilledFacts
    <2> QED
      BY <2>1, <2>2, <2>3
  <1> HIDE DEF fill
  <1> QED
    BY <1>1, <1>2, FurnishingKeeps

\* Fill: the window, laid out, is filled.
LEMMA FillKeeps ==
    ASSUME IInv, NEW r \in Restorers, Fill(r)
    PROVE  IInv' /\ UNCHANGED server
  <1> DEFINE fill == [filled[Bound(r)] EXCEPT !.content = TRUE]
  <1>1. Doing(r, "fill") /\ Furnishes(r, fill) /\ Step(r).op = "fill"
    BY DEF Fill, Doing, Step
  <1>2. ASSUME NEW k \in Nat \ {0}, NEW n \in Nat \ {0}, k < n + 2,
               Step(r) = Before(k, Step(r).window),
               filled[Bound(r)] = FilledBefore(k + 1, n)
        PROVE  fill = FilledBefore(k, n)
    <2>1. k = 1
      BY <1>1, <1>2, OpOfStep
    <2>2. filled[Bound(r)] = FilledBefore(2, n)
      BY <1>2, <2>1
    <2>3. [FilledBefore(2, n) EXCEPT !.content = TRUE] = FilledBefore(1, n)
      BY FilledFacts
    <2> QED
      BY <2>1, <2>2, <2>3
  <1> HIDE DEF fill
  <1> QED
    BY <1>1, <1>2, FurnishingKeeps

\* Stamp: the window is whole by now, and was stamped by no other restore this
\* one was not told of.
LEMMA StampKeeps ==
    ASSUME IInv, NEW r \in Restorers, Stamp(r)
    PROVE  IInv' /\ server'.links = server.links
           /\ \/ "restored" \in around[r]
              \/ \A x \in DOMAIN server.made : server.made[x] # Step(r).saved
  <1> DEFINE w == Bound(r)
             saved == Step(r).saved
             S == restore[r].steps
  <1>1. /\ Doing(r, "stamp") /\ Lives(w) /\ StepDone(r)
        /\ server' = [server EXCEPT !.made[w] = saved]
        /\ UNCHANGED <<snapshot, filled, marked, nextId>>
    BY DEF Stamp, StepDone
  <1>2. /\ ServerOK /\ RestorersOK /\ Bindings /\ RestoreHolds(r) /\ PlanHolds(r)
        /\ StampHolds(r) /\ StampMeansWhole
    BY DEF IInv, RestoreHolds
  <1>3. /\ StepsOn(r) /\ Step(r).op = "stamp" /\ S # <<>>
    BY <1>1, <1>2, StepDoneStepsOn DEF Doing, Step
  <1>4. 1 \in Stamps(S) /\ S[1] = Step(r)
    <2>1. S \in Seq(Steps(snapshot, Known))
      BY <1>2 DEF PlanHolds, Sound
    <2>2. Head(S) = S[1] /\ 1 \in DOMAIN S
      BY <1>3, <2>1
    <2> QED
      BY <1>3, <2>2 DEF Stamps, Step
  <1>5. Step(r).window \in DOMAIN restore[r].bound
    <2>1. Uses(Step(r)) = {Step(r).window}
      BY <1>3 DEF Uses
    <2> QED
      BY <1>2, <1>3, <2>1, UsesBound
  <1>6. saved \in SavedWindows(snapshot) /\ saved # 0 /\ snapshot.panes[saved] \in Nat \ {0}
    BY <1>2, <1>4, StampFacts
  <1>7. /\ server.made[w] = 0
        /\ filled[w] = FilledBefore(1, snapshot.panes[saved])
        /\ \/ "restored" \in around[r]
           \/ \A x \in DOMAIN server.made : server.made[x] # saved
    BY <1>1, <1>2, <1>4, <1>5 DEF StampHolds, Bound, Lives
  <1>8. filled[w] = Whole(saved)
    <2> DEFINE n == snapshot.panes[saved]
    <2>1. n \in Nat \ {0} /\ filled[w] = FilledBefore(1, n)
      BY <1>6, <1>7
    <2> HIDE DEF n, saved, w
    <2>2. FilledBefore(1, n) = [panes |-> n, laidOut |-> TRUE, content |-> TRUE]
      BY <2>1, FilledFacts
    <2> QED
      BY <2>1, <2>2 DEF Whole, n
  <1> HIDE DEF w, saved, S
  <1>9. /\ server'.links = server.links
        /\ server' = [links |-> server'.links, made |-> server'.made,
                      touched |-> server'.touched, sameServer |-> server'.sameServer]
        /\ DOMAIN server'.made = DOMAIN server.made /\ server'.made[w] = saved
        /\ \A x \in DOMAIN server.made : x # w => server'.made[x] = server.made[x]
    <2> DEFINE made == [server.made EXCEPT ![w] = saved]
    <2>1. /\ DOMAIN made = DOMAIN server.made /\ made[w] = saved
          /\ \A x \in DOMAIN server.made : x # w => made[x] = server.made[x]
      BY <1>1 DEF Lives
    <2>2. server' = [server EXCEPT !.made = made]
      BY <1>1
    <2> HIDE DEF made
    <2>3. server' = [links |-> server.links, made |-> made,
                     touched |-> server.touched, sameServer |-> server.sameServer]
      BY <1>2, <2>2 DEF ServerOK
    <2> QED
      BY <2>1, <2>3
  <1>10. ServerOK'
    <2>1. \A x \in DOMAIN server'.made : server'.made[x] \in {0} \cup SavedWindows(snapshot)
      BY <1>2, <1>6, <1>9 DEF ServerOK
    <2> QED
      BY <1>1, <1>2, <1>9, <2>1 DEF ServerOK, Alive
  <1>11. StampMeansWhole'
    BY <1>1, <1>2, <1>8, <1>9 DEF StampMeansWhole, Whole
  <1>12. ASSUME NEW q \in Restorers, NEW x \in DOMAIN restore[q].bound,
                q # r \/ x # Step(r).window
         PROVE  Stays(restore[q].bound[x])
    <2>1. restore[q].bound[x] # w
      BY <1>2, <1>5, <1>12 DEF Bindings, Bound, w
    <2> QED
      BY <1>1, <1>9, <2>1 DEF Stays
  <1>13. \A q \in Restorers \ {r} : Untouched(q)
    BY <1>9, <1>12 DEF Untouched
  <1>14. StampHolds(r)'
    <2>1. around'[r] = around[r]
      BY <1>2, <1>3, OthersTold DEF StepsOn
    <2>2. StampsOnly(IF Step(r).op = "stamp" THEN {Step(r).saved} ELSE {})
      BY <1>3, <1>9 DEF StampsOnly, saved
    <2>3. nextId \notin DOMAIN server'.made
      BY <1>2, <1>9 DEF ServerOK
    <2> QED
      BY <1>2, <1>3, <1>12, <2>1, <2>2, <2>3, StampsGoOn DEF StepsOn, S
  <1> QED
    BY <1>3, <1>7, <1>9, <1>10, <1>11, <1>13, <1>14, StepsOnKeeps DEF saved

-----------------------------------------------------------------------------
\* Opening windows.

\* A new window is none of those that other restores have bound.
LEMMA OpensUntouched ==
    ASSUME ServerOK, Bindings, NEW q \in Restorers, MoveHolds(q),
           NEW s \in AllSessions, NEW i \in Nat, NewWindowAt(s, i), UNCHANGED snapshot
    PROVE  /\ Untouched(q)
           /\ \A t \in AllSessions : t # s => server'.links[t] = server.links[t]
           /\ Range(server'.links[s]) \subseteq Range(server.links[s]) \cup {nextId}
           /\ i \notin DOMAIN server.links[s] =>
                 Range(server.links[s]) \subseteq Range(server'.links[s])
  <1>1. /\ ServerOK' /\ Kept
        /\ server'.links = [server.links EXCEPT ![s] = Put(@, i, nextId)]
        /\ nextId' = nextId + 1
    BY OpensKeeps
  <1>2. /\ \A t \in AllSessions : t # s => server'.links[t] = server.links[t]
        /\ server'.links[s] = Put(server.links[s], i, nextId)
    BY <1>1 DEF ServerOK
  <1>3. /\ Range(server'.links[s]) \subseteq Range(server.links[s]) \cup {nextId}
        /\ i \notin DOMAIN server.links[s] =>
              Range(server.links[s]) \subseteq Range(server'.links[s])
    <2>1. ASSUME NEW f
          PROVE  /\ Range(Put(f, i, nextId)) \subseteq Range(f) \cup {nextId}
                 /\ i \notin DOMAIN f => Range(f) \subseteq Range(Put(f, i, nextId))
      <3>1. Range(Put(f, i, nextId)) \subseteq Range(f) \cup {nextId}
        BY PutFacts
      <3>2. i \notin DOMAIN f => Range(Put(f, i, nextId)) = Range(f) \cup {nextId}
        BY PutFacts
      <3> QED
        BY <3>1, <3>2
    <2> QED
      BY <1>2, <2>1
  <1>4. Untouched(q)
    <2>1. \A x \in DOMAIN restore[q].bound : Stays(restore[q].bound[x])
      BY <1>1, KeptFacts
    <2>2. IsMoving(q) => Bound(q) # nextId
      <3>1. nextId \in Nat /\ nextId \notin 1 .. nextId - 1
        BY DEF ServerOK
      <3>2. \A x \in DOMAIN restore[q].bound : restore[q].bound[x] \in 1 .. nextId - 1
        BY DEF Bindings
      <3> QED
        BY <3>1, <3>2 DEF MoveHolds, Bound
    <2> QED
      BY <1>2, <1>3, <2>1, <2>2 DEF Untouched
  <1> QED
    BY <1>2, <1>3, <1>4

\* A step that makes a window binds it to its reference: a new id that no
\* other restore knows.
LEMMA MakingKeeps ==
    ASSUME IInv, NEW r \in Restorers, NEW op \in {"create", "new"}, NEW i \in Nat,
           Doing(r, op), NewWindowAt(Step(r).session, i), StepMakes(r),
           i \notin DOMAIN server.links[Step(r).session]
    PROVE  /\ IInv'
           /\ \A s \in AllSessions : Range(server.links[s]) \subseteq Range(server'.links[s])
  <1> DEFINE s == Step(r).session
             X == Step(r).window
             b == restore[r].bound
             S == restore[r].steps
  <1>1. /\ ServerOK /\ RestorersOK /\ Bindings /\ RestoreHolds(r) /\ PlanHolds(r)
        /\ StampMeansWhole /\ \A q \in Restorers : RestoreHolds(q) /\ MoveHolds(q)
    BY DEF IInv, RestoreHolds
  <1>2. /\ Step(r).op \in {"create", "new"} /\ S # <<>> /\ restore[r].stage = "applying"
        /\ around' = Others(r) /\ UNCHANGED snapshot
    BY DEF Doing, Step, StepMakes
  <1>3. s \in SessionNames /\ s \in AllSessions /\ X \in Refs /\ Binds(Step(r)) = {X}
    BY <1>1, <1>2, StepShape DEF AllSessions, Binds
  <1>4. X \notin DOMAIN b
    <2>1. IsSnapshot(snapshot) /\ Sound(S, DOMAIN b, snapshot, Known)
      BY <1>1, RestoreAssumption DEF ServerOK, PlanHolds
    <2> HIDE DEF S, b
    <2>2. Head(S) = S[1] /\ 1 \in DOMAIN S
      BY <1>2, <2>1, SoundTail
    <2>3. X \in Binds(S[1])
      BY <1>3, <2>2 DEF Step, S
    <2> QED
      BY <2>1, <2>2, <2>3 DEF Sound, BoundOnce
  <1>5. restore'[r] = [stage |-> restore[r].stage, client |-> restore[r].client,
                       scratch |-> restore[r].scratch, steps |-> Tail(S),
                       bound |-> Put(b, X, nextId)]
        /\ restore' = [q \in Restorers |-> restore'[q]]
        /\ \A q \in Restorers \ {r} : restore'[q] = restore[q]
    <2> DEFINE bound == Put(b, X, nextId)
               it == [restore[r] EXCEPT !.steps = Tail(S), !.bound = bound]
    <2>1. restore' = [restore EXCEPT ![r] = it]
      BY DEF StepMakes
    <2> DEFINE left == Tail(S)
    <2> HIDE DEF bound, left
    <2>2. it = [stage |-> restore[r].stage, client |-> restore[r].client,
                scratch |-> restore[r].scratch, steps |-> left, bound |-> bound]
      <3>1. it = [restore[r] EXCEPT !.steps = left, !.bound = bound]
        BY DEF left
      <3>2. restore[r] = [stage |-> restore[r].stage, client |-> restore[r].client,
                          scratch |-> restore[r].scratch, steps |-> restore[r].steps,
                          bound |-> restore[r].bound]
        BY <1>1 DEF RestorersOK, RestorerOK
      <3> HIDE DEF it
      <3> QED
        BY <3>1, <3>2
    <2> HIDE DEF it
    <2> QED
      BY <1>1, <2>1, <2>2 DEF RestorersOK, bound, left
  <1>6. /\ restore'[r].stage = "applying" /\ restore'[r].client = restore[r].client
        /\ restore'[r].scratch = restore[r].scratch
        /\ restore'[r].steps = Tail(S) /\ restore'[r].bound = Put(b, X, nextId)
    BY <1>2, <1>5
  <1>7. RestorersOK'
    <2> DEFINE it == restore'[r]
    <2>1. restore[r].client \in AllSessions /\ restore[r].scratch \in BOOLEAN
      BY <1>1 DEF RestorersOK, RestorerOK
    <2>2. it = [stage |-> it.stage, client |-> it.client, scratch |-> it.scratch,
                steps |-> it.steps, bound |-> it.bound]
      BY <1>5, <1>6
    <2>3. it.stage = "applying" /\ it.client = restore[r].client
          /\ it.scratch = restore[r].scratch
      BY <1>6
    <2> HIDE DEF it
    <2>4. it.scratch \in BOOLEAN
      BY <2>1, <2>3
    <2>5. RestorerOK(it)
      BY <2>1, <2>2, <2>3, <2>4 DEF RestorerOK
    <2>6. \A q \in Restorers : RestorerOK(restore'[q])
      BY <1>1, <1>5, <2>5 DEF RestorersOK, it
    <2>7. /\ around' = [q \in Restorers |-> around'[q]]
          /\ \A q \in Restorers : around'[q] \subseteq {"opened", "closed", "restored"}
      BY <1>1, <1>2, OthersTold
    <2> QED
      BY <1>5, <2>6, <2>7 DEF RestorersOK
  <1>8. /\ ServerOK' /\ Kept /\ nextId' = nextId + 1
    BY <1>1, <1>2, <1>3, OpensKeeps
  <1>9. /\ \A q \in Restorers : Untouched(q)
        /\ \A t \in AllSessions : t # s => server'.links[t] = server.links[t]
        /\ Range(server.links[s]) \subseteq Range(server'.links[s])
    BY <1>1, <1>2, <1>3, OpensUntouched
  <1>10. /\ DOMAIN Put(b, X, nextId) = DOMAIN b \cup {X} /\ Put(b, X, nextId)[X] = nextId
         /\ \A x \in DOMAIN b : Put(b, X, nextId)[x] = b[x]
    <2> HIDE DEF b, X
    <2> QED
      BY <1>4 DEF Put
  <1>11. /\ StampMeansWhole' /\ StampsOnly({})
         /\ nextId \in DOMAIN server'.made =>
               server'.made[nextId] = 0 /\ filled'[nextId] = Bare
         /\ \A x \in DOMAIN b : Stays(b[x])
    BY <1>1, <1>2, <1>8, KeptFacts
  <1>12. ASSUME IsMoving(r)'
         PROVE  Bound(r)' = nextId /\ Step(r)'.window = X /\ Step(r)'.session = s
    <2>1. Step(r)'.window = X /\ Step(r)'.session = s
      BY <1>1, <1>2, <1>6, <1>12, MovesNext
    <2>2. Bound(r)' = restore'[r].bound[Step(r)'.window]
      BY DEF Bound
    <2> QED
      BY <1>6, <1>10, <2>1, <2>2
  <1>13. /\ nextId \in Nat /\ nextId' \in Nat /\ nextId <= nextId'
         /\ nextId \notin 1 .. nextId - 1 /\ nextId \notin DOMAIN server.made
    BY <1>1, <1>8 DEF ServerOK
  <1>14. Known \subseteq Known'
    <2>1. ASSUME NEW q \in Restorers, IsMoving(q)'
          PROVE  (IsMoving(q) /\ Bound(q)' = Bound(q)) \/ Bound(q)' \notin 1 .. nextId - 1
      <3>1. CASE q = r
        BY <1>12, <1>13, <2>1, <3>1
      <3>2. CASE q # r
        BY <1>5, <2>1, <3>2 DEF IsMoving, Bound, Step
      <3> QED
        BY <3>1, <3>2
    <2> QED
      BY <1>13, <2>1, KnownGrows
  <1>15. Bindings'
    <2>1. ASSUME NEW q \in Restorers, NEW x \in DOMAIN restore'[q].bound
          PROVE  \/ x \in DOMAIN restore[q].bound /\ restore'[q].bound[x] = restore[q].bound[x]
                 \/ q = r /\ x = X /\ restore'[q].bound[x] = nextId
      <3>1. CASE q = r
        BY <1>6, <1>10, <2>1, <3>1
      <3>2. CASE q # r
        BY <1>5, <2>1, <3>2
      <3> QED
        BY <3>1, <3>2
    <2> HIDE DEF X
    <2> QED
      BY <1>1, <1>2, <1>3, <1>4, <1>8, <2>1, BindingsGrow
  <1>16. RestoreHolds(r)'
    <2>1. PlanHolds(r)'
      <3>1. DOMAIN restore'[r].bound = DOMAIN restore[r].bound \cup Binds(Step(r))
        BY <1>3, <1>6, <1>10
      <3> QED
        BY <1>1, <1>2, <1>6, <1>14, <3>1, PlanAdvances
    <2>2. MoveHolds(r)'
      <3> SUFFICES ASSUME IsMoving(r)'
                   PROVE  /\ Step(r)'.window \in DOMAIN restore'[r].bound
                          /\ \A t \in AllSessions :
                                nextId \in Range(server'.links[t]) => t = Step(r)'.session
                          /\ nextId \in DOMAIN server'.made => server'.made[nextId] = 0
        BY <1>12 DEF MoveHolds
      <3>1. Step(r)'.window \in DOMAIN restore'[r].bound
        BY <1>6, <1>10, <1>12
      <3>2. \A t \in AllSessions : t # s => nextId \notin Range(server'.links[t])
        <4>1. \A t \in AllSessions : Range(server.links[t]) \subseteq DOMAIN server.made
          BY <1>1 DEF ServerOK
        <4> QED
          BY <1>9, <1>13, <4>1
      <3> QED
        BY <1>11, <1>12, <3>1, <3>2
    <2>3. StampHolds(r)'
      <3>1. around'[r] = around[r]
        BY <1>1, <1>2, OthersTold
      <3>2. Step(r).op \notin {"split", "layout", "fill"} /\ Step(r).op # "stamp"
        BY <1>2
      <3>3. \A x \in DOMAIN restore'[r].bound :
               \/ x \in DOMAIN restore[r].bound /\ restore'[r].bound[x] = restore[r].bound[x]
               \/ x \in Binds(Step(r)) /\ restore'[r].bound[x] = nextId
        BY <1>3, <1>6, <1>10
      <3>4. StampsOnly(IF Step(r).op = "stamp" THEN {Step(r).saved} ELSE {})
        BY <1>11, <3>2
      <3>5. /\ UNCHANGED snapshot /\ restore'[r].steps = Tail(restore[r].steps)
            /\ restore[r].steps # <<>>
        BY <1>2, <1>6
      <3> QED
        BY <1>1, <1>11, <3>1, <3>2, <3>3, <3>4, <3>5, StampsGoOn
    <2> QED
      BY <2>1, <2>2, <2>3 DEF RestoreHolds
  <1>17. ASSUME NEW q \in Restorers \ {r}
         PROVE  RestoreHolds(q)'
    <2>1. NoneStamped(q)
      BY <1>1, <1>2, OthersTold
    <2>2. GoesOnAs(q)
      BY <1>5 DEF GoesOnAs
    <2> QED
      BY <1>1, <1>2, <1>9, <1>14, <2>1, <2>2, StillHolds
  <1>18. IInv'
    BY <1>7, <1>8, <1>11, <1>15, <1>16, <1>17 DEF IInv
  <1> QED
    BY <1>9, <1>18

\* CreateSession: the session made links the window made with it, nothing else.
LEMMA CreateKeeps ==
    ASSUME IInv, NEW r \in Restorers, CreateSession(r)
    PROVE  /\ IInv'
           /\ \A s \in AllSessions : Range(server.links[s]) \subseteq Range(server'.links[s])
  <1>1. /\ Doing(r, "create") /\ server.links[Step(r).session] = << >>
        /\ NewWindowAt(Step(r).session, BaseIndex) /\ StepMakes(r)
    BY DEF CreateSession, Alive
  <1>2. BaseIndex \in Nat /\ BaseIndex \notin DOMAIN server.links[Step(r).session]
    BY <1>1, RestoreAssumption
  <1> QED
    BY <1>1, <1>2, MakingKeeps

\* NewWindow: the window is made at an index that was free.
LEMMA NewKeeps ==
    ASSUME IInv, NEW r \in Restorers, NewWindow(r)
    PROVE  /\ IInv'
           /\ \A s \in AllSessions : Range(server.links[s]) \subseteq Range(server'.links[s])
  <1>1. /\ Doing(r, "new") /\ Step(r).at \notin DOMAIN server.links[Step(r).session]
        /\ NewWindowAt(Step(r).session, Step(r).at) /\ StepMakes(r)
    BY DEF NewWindow, Free
  <1>2. Step(r).at \in Nat
    <2>1. /\ ServerOK /\ PlanHolds(r) /\ restore[r].steps # <<>> /\ Step(r).op = "new"
      BY <1>1 DEF IInv, RestoreHolds, Doing, Step
    <2> QED
      BY <2>1, StepShape
  <1> QED
    BY <1>1, <1>2, MakingKeeps

-----------------------------------------------------------------------------
\* What the user does.

\* A step of the user that keeps the stamps and contents of the windows keeps
\* the invariant.
LEMMA UserKeeps ==
    ASSUME IInv, UNCHANGED <<snapshot, restore>>, ServerOK', Kept,
           nextId' \in Nat, nextId <= nextId', \A q \in Restorers : Untouched(q),
           NEW what \in {"opened", "closed"}, around' = Witness(what)
    PROVE  IInv'
  <1>1. /\ ServerOK /\ RestorersOK /\ Bindings /\ StampMeansWhole /\ nextId \in Nat
        /\ \A q \in Restorers : RestoreHolds(q)
    BY DEF IInv, ServerOK
  <1>2. RestorersOK'
    <2>1. /\ around' = [q \in Restorers |-> around'[q]]
          /\ \A q \in Restorers : around'[q] \subseteq {"opened", "closed", "restored"}
      BY <1>1 DEF Witness, Told, RestorersOK
    <2> QED
      BY <1>1, <2>1 DEF RestorersOK
  <1>3. Known \subseteq Known'
    <2>1. \A q \in Restorers : IsMoving(q)' => IsMoving(q) /\ Bound(q)' = Bound(q)
      BY DEF IsMoving, Bound, Step
    <2> QED
      BY <1>1, <2>1, KnownGrows
  <1>4. Bindings'
    BY <1>1, BindingsStay
  <1>5. StampMeansWhole' /\ StampsOnly({})
    BY <1>1, KeptFacts
  <1>6. ASSUME NEW q \in Restorers
        PROVE  RestoreHolds(q)'
    <2>1. NoneStamped(q)
      <3> SUFFICES ASSUME restore[q].steps # <<>>
                   PROVE  \/ "restored" \in around'[q]
                          \/ "restored" \notin around[q] /\ StampsOnly({})
        BY DEF NoneStamped
      <3>1. restore[q].stage = "applying"
        BY <1>1 DEF RestorersOK, RestorerOK
      <3>2. around'[q] = around[q] \cup {what}
        BY <3>1 DEF Witness, Told
      <3> QED
        BY <1>5, <3>2
    <2>2. GoesOnAs(q)
      BY DEF GoesOnAs
    <2> QED
      BY <1>1, <1>3, <2>1, <2>2, StillHolds
  <1> QED
    BY <1>2, <1>4, <1>5, <1>6 DEF IInv

\* UserOpens: a window more, unstamped.
LEMMA UserOpensKeeps ==
    ASSUME IInv, NEW s \in AllSessions, NEW i \in 0 .. MaxIndex, UserOpens(s, i)
    PROVE  IInv'
  <1>1. /\ ServerOK /\ Bindings /\ \A q \in Restorers : MoveHolds(q)
    BY DEF IInv, RestoreHolds
  <1>2. /\ NewWindowAt(s, i) /\ UNCHANGED <<snapshot, restore>>
        /\ around' = Witness("opened") /\ i \in Nat
    BY RestoreAssumption DEF UserOpens, MayMove
  <1>3. ServerOK' /\ Kept /\ nextId' = nextId + 1
    BY <1>1, <1>2, OpensKeeps
  <1>4. nextId' \in Nat /\ nextId <= nextId'
    BY <1>1, <1>3 DEF ServerOK
  <1>5. \A q \in Restorers : Untouched(q)
    BY <1>1, <1>2, OpensUntouched
  <1> QED
    BY <1>2, <1>3, <1>4, <1>5, UserKeeps

\* UserCloses: a window fewer, the others renumbered if the user has it so.
LEMMA UserClosesKeeps ==
    ASSUME IInv, NEW s \in AllSessions, NEW i \in 0 .. MaxIndex, NEW renumber \in BOOLEAN,
           UserCloses(s, i, renumber)
    PROVE  IInv'
  <1> DEFINE left == Restrict(server.links[s], DOMAIN server.links[s] \ {i})
             order == Sorted(DOMAIN left)
             closedUp == [k \in BaseIndex .. BaseIndex + Len(order) - 1 |->
                             left[order[k - BaseIndex + 1]]]
             f == IF renumber THEN closedUp ELSE left
  <1>1. /\ ServerOK /\ Bindings /\ \A q \in Restorers : MoveHolds(q)
    BY DEF IInv, RestoreHolds
  <1>2. /\ Relink([server.links EXCEPT ![s] = f], server.made, filled)
        /\ UNCHANGED <<snapshot, restore, nextId>>
        /\ around' = Witness("closed")
    BY DEF UserCloses, MayMove
  <1>3. /\ DOMAIN server.links[s] \subseteq Nat /\ IsFiniteSet(DOMAIN server.links[s])
        /\ Range(server.links[s]) \subseteq DOMAIN server.made
    BY <1>1 DEF ServerOK
  <1>4. /\ DOMAIN left \in SUBSET Nat /\ IsFiniteSet(DOMAIN left)
        /\ DOMAIN left \subseteq DOMAIN server.links[s]
        /\ \A j \in DOMAIN left : left[j] = server.links[s][j]
    <2>1. /\ DOMAIN left = DOMAIN server.links[s] \ {i}
          /\ \A j \in DOMAIN left : left[j] = server.links[s][j]
      BY DEF Restrict
    <2> DEFINE D == DOMAIN server.links[s]
    <2>2. IsFiniteSet(D) /\ D \ {i} \subseteq D
      BY <1>3
    <2> HIDE DEF D
    <2>3. IsFiniteSet(D \ {i})
      BY <2>2, FS_Subset
    <2> QED
      BY <1>3, <2>1, <2>3 DEF D
  <1>5. Range(left) \subseteq Range(server.links[s])
    BY <1>4 DEF Range
  <1> HIDE DEF left
  <1>6. /\ DOMAIN closedUp \subseteq Nat /\ IsFiniteSet(DOMAIN closedUp)
        /\ Range(closedUp) \subseteq Range(left)
    <2> DEFINE n == Cardinality(DOMAIN left)
               b == BaseIndex
    <2>1. n \in Nat /\ order \in [1 .. n -> DOMAIN left] /\ b \in Nat
      BY <1>4, SortedFacts, RestoreAssumption
    <2> HIDE DEF n, order
    <2>2. Len(order) = n
      BY <2>1
    <2>3. IsFiniteSet(b .. b + n - 1)
      BY <2>1, FS_Interval
    <2>4. DOMAIN closedUp = b .. b + n - 1
      BY <2>2
    <2>5. \A k \in b .. b + n - 1 : k - b + 1 \in 1 .. n /\ k \in Nat
      BY <2>1
    <2>6. \A k \in b .. b + n - 1 : closedUp[k] \in Range(left)
      BY <2>1, <2>2, <2>5 DEF Range
    <2> HIDE DEF closedUp
    <2> QED
      BY <2>3, <2>4, <2>5, <2>6 DEF Range
  <1> HIDE DEF closedUp
  <1>7. /\ DOMAIN f \subseteq Nat /\ IsFiniteSet(DOMAIN f)
        /\ Range(f) \subseteq Range(server.links[s])
    BY <1>4, <1>5, <1>6
  <1> HIDE DEF f
  <1>8. /\ ServerOK' /\ Kept /\ server'.links[s] = f
        /\ \A t \in AllSessions : t # s => server'.links[t] = server.links[t]
    BY <1>1, <1>2, <1>3, <1>7, RelinkOne
  <1>9. \A q \in Restorers : Untouched(q)
    <2>1. \A q \in Restorers : \A x \in DOMAIN restore[q].bound : Stays(restore[q].bound[x])
      BY <1>1, <1>8, KeptFacts
    <2>2. \A t \in AllSessions : Range(server'.links[t]) \subseteq Range(server.links[t])
      BY <1>7, <1>8
    <2> QED
      BY <2>1, <2>2 DEF Untouched
  <1>10. nextId' \in Nat /\ nextId <= nextId'
    BY <1>1, <1>2 DEF ServerOK
  <1> QED
    BY <1>2, <1>8, <1>9, <1>10, UserKeeps

-----------------------------------------------------------------------------
\* What else a restore does.

\* With no steps left there is nothing to hold.
LEMMA NothingLeft ==
    ASSUME NEW r \in Restorers, restore'[r].steps = <<>>, DOMAIN restore'[r].bound = {}
    PROVE  ~ IsMoving(r)' /\ RestoreHolds(r)'
  <1>1. ~ IsMoving(r)' /\ MoveHolds(r)'
    BY DEF IsMoving, MoveHolds
  <1>2. DOMAIN <<>> = {} /\ \A A : <<>> \in Seq(A)
    OBVIOUS
  <1>3. PlanHolds(r)'
    <2>1. \A bound, snap, known : Sound(<<>>, bound, snap, known)
      BY <1>2 DEF Sound, BoundFirst, BoundOnce, MovedAtOnce, StampedLast, StampedAll, Stamps
    <2> QED
      BY <2>1 DEF PlanHolds
  <1>4. StampHolds(r)'
    BY <1>2 DEF StampHolds, Stamps
  <1> QED
    BY <1>1, <1>3, <1>4 DEF RestoreHolds

\* r has no plan yet, or none any more, and the others go on.
LEMMA WithoutPlanKeeps ==
    ASSUME IInv, NEW r \in Restorers, UNCHANGED snapshot, ServerOK', RestorersOK', Kept,
           nextId' \in Nat, nextId <= nextId',
           restore'[r].steps = <<>>, restore'[r].bound = << >>,
           \A q \in Restorers \ {r} :
              restore'[q] = restore[q] /\ Untouched(q) /\ NoneStamped(q)
    PROVE  IInv'
  <1>1. /\ ServerOK /\ Bindings /\ StampMeansWhole /\ nextId \in Nat
        /\ \A q \in Restorers : RestoreHolds(q)
    BY DEF IInv, ServerOK
  <1>2. DOMAIN restore'[r].bound = {}
    OBVIOUS
  <1>3. ~ IsMoving(r)' /\ RestoreHolds(r)'
    BY <1>2, NothingLeft
  <1>4. Known \subseteq Known'
    <2>1. \A q \in Restorers : IsMoving(q)' => IsMoving(q) /\ Bound(q)' = Bound(q)
      BY <1>3 DEF IsMoving, Bound, Step
    <2> QED
      BY <1>1, <2>1, KnownGrows
  <1>5. Bindings'
    <2>1. ASSUME NEW q \in Restorers, NEW x \in DOMAIN restore'[q].bound
          PROVE  x \in DOMAIN restore[q].bound /\ restore'[q].bound[x] = restore[q].bound[x]
      BY <1>2
    <2> QED
      BY <1>1, <2>1, BindingsStay
  <1>6. StampMeansWhole'
    BY <1>1, KeptFacts
  <1>7. ASSUME NEW q \in Restorers \ {r}
        PROVE  RestoreHolds(q)'
    <2>1. GoesOnAs(q)
      BY DEF GoesOnAs
    <2> QED
      BY <1>1, <1>4, <2>1, StillHolds
  <1> QED
    BY <1>3, <1>5, <1>6, <1>7 DEF IInv

\* A step that leaves the server alone touches no restore's windows.
LEMMA NothingDone ==
    ASSUME IInv, UNCHANGED <<snapshot, server, filled, marked, nextId>>,
           NEW q \in Restorers, around'[q] = around[q]
    PROVE  /\ ServerOK' /\ Kept /\ nextId' \in Nat /\ nextId <= nextId'
           /\ Untouched(q) /\ NoneStamped(q)
  <1>1. ServerOK /\ Bindings
    BY DEF IInv
  <1>2. ServerOK' /\ Kept /\ nextId' \in Nat /\ nextId <= nextId'
    BY <1>1, SameServer DEF ServerOK
  <1>3. StampsOnly({}) /\ \A x \in DOMAIN restore[q].bound : Stays(restore[q].bound[x])
    BY <1>1, <1>2, KeptFacts
  <1> QED
    BY <1>2, <1>3 DEF Untouched, NoneStamped

\* A restore without a plan is well-formed.
LEMMA IdleIsOK ==
    ASSUME NEW stage \in {"idle", "creating", "opened"}, NEW client \in AllSessions,
           NEW scratch \in BOOLEAN
    PROVE  RestorerOK([stage |-> stage, client |-> client, scratch |-> scratch,
                       steps |-> <<>>, bound |-> << >>])
  <1> DEFINE it == [stage |-> stage, client |-> client, scratch |-> scratch,
                    steps |-> <<>>, bound |-> << >>]
  <1>1. /\ it.stage = stage /\ it.client = client /\ it.scratch = scratch
        /\ it.steps = <<>> /\ it.bound = << >>
    OBVIOUS
  <1>2. it = [stage |-> it.stage, client |-> it.client, scratch |-> it.scratch,
              steps |-> it.steps, bound |-> it.bound]
    BY <1>1
  <1> HIDE DEF it
  <1>3. it.scratch \in BOOLEAN
    BY <1>1
  <1>4. RestorerOK(it)
    BY <1>1, <1>2, <1>3 DEF RestorerOK
  <1> QED
    BY <1>4 DEF it

\* r comes to have no plan while the server is left alone.
LEMMA WaitsKeeps ==
    ASSUME IInv, UNCHANGED <<snapshot, server, filled, marked, nextId>>,
           NEW r \in Restorers, NEW it, RestorerOK(it), it.steps = <<>>, it.bound = << >>,
           restore' = [restore EXCEPT ![r] = it],
           around' = [q \in Restorers |-> around'[q]],
           \A q \in Restorers : around'[q] = around[q] \/ (q = r /\ around'[q] = {})
    PROVE  IInv'
  <1>1. RestorersOK
    BY DEF IInv
  <1>2. /\ restore'[r] = it /\ restore' = [q \in Restorers |-> restore'[q]]
        /\ \A q \in Restorers \ {r} : restore'[q] = restore[q]
    BY <1>1 DEF RestorersOK
  <1>3. RestorersOK'
    BY <1>1, <1>2 DEF RestorersOK
  <1>4. ServerOK' /\ Kept /\ nextId' \in Nat /\ nextId <= nextId'
    <2>1. ServerOK
      BY DEF IInv
    <2> QED
      BY <2>1, SameServer DEF ServerOK
  <1>5. \A q \in Restorers \ {r} : Untouched(q) /\ NoneStamped(q)
    BY NothingDone
  <1> QED
    BY <1>2, <1>3, <1>4, <1>5, WithoutPlanKeeps

\* A restore that is refused, cut or finished forgets its plan.
LEMMA EndsKeeps ==
    ASSUME IInv, NEW r \in Restorers, Ends(r)
    PROVE  IInv' /\ UNCHANGED server
  <1>1. /\ restore' = [restore EXCEPT ![r] = Idle] /\ around' = [around EXCEPT ![r] = {}]
        /\ UNCHANGED <<snapshot, server, filled, marked, nextId>>
    BY DEF Ends
  <1>2. RestorerOK(Idle) /\ Idle.steps = <<>> /\ Idle.bound = << >>
    <2> DEFINE no == FALSE
    <2>1. no \in BOOLEAN /\ Scratch \in AllSessions
      BY DEF AllSessions
    <2>2. Idle = [stage |-> "idle", client |-> Scratch, scratch |-> no,
                  steps |-> <<>>, bound |-> << >>]
      BY DEF Idle
    <2> HIDE DEF no
    <2> QED
      BY <2>1, <2>2, IdleIsOK
  <1>3. /\ around' = [q \in Restorers |-> around'[q]]
        /\ \A q \in Restorers : around'[q] = around[q] \/ (q = r /\ around'[q] = {})
    BY <1>1 DEF IInv, RestorersOK
  <1> QED
    BY <1>1, <1>2, <1>3, WaitsKeeps

\* Open: a restore with no plan yet has a client.
LEMMA OpenKeeps ==
    ASSUME IInv, NEW r \in Restorers, Open(r)
    PROVE  IInv' /\ UNCHANGED server
  <1>1. /\ UNCHANGED <<snapshot, server, filled, marked, nextId, around>>
        /\ restore[r].stage = "idle"
    BY DEF Open
  <1>2. RestorersOK
    BY DEF IInv
  <1>3. /\ around' = [q \in Restorers |-> around'[q]]
        /\ \A q \in Restorers : around'[q] = around[q] \/ (q = r /\ around'[q] = {})
    BY <1>1, <1>2 DEF RestorersOK
  <1>4. PICK it : /\ RestorerOK(it) /\ it.steps = <<>> /\ it.bound = << >>
                  /\ restore' = [restore EXCEPT ![r] = it]
    <2>1. ASSUME NEW s \in AllSessions,
                 restore' = [restore EXCEPT ![r] =
                                [Idle EXCEPT !.stage = "opened", !.client = s]]
          PROVE  \E it : /\ RestorerOK(it) /\ it.steps = <<>> /\ it.bound = << >>
                         /\ restore' = [restore EXCEPT ![r] = it]
      <3> DEFINE no == FALSE
                 it == [Idle EXCEPT !.stage = "opened", !.client = s]
      <3>1. no \in BOOLEAN /\ restore' = [restore EXCEPT ![r] = it]
        BY <2>1
      <3>2. Idle = [stage |-> "idle", client |-> Scratch, scratch |-> no,
                    steps |-> <<>>, bound |-> << >>]
        BY DEF Idle
      <3> HIDE DEF no
      <3>3. it = [stage |-> "opened", client |-> s, scratch |-> no,
                  steps |-> <<>>, bound |-> << >>]
        <4> DEFINE old == Idle
        <4>1. old = [stage |-> "idle", client |-> Scratch, scratch |-> no,
                     steps |-> <<>>, bound |-> << >>]
          BY <3>2
        <4>2. it = [old EXCEPT !.stage = "opened", !.client = s]
          OBVIOUS
        <4> HIDE DEF old, it
        <4> QED
          BY <4>1, <4>2
      <3> HIDE DEF it
      <3>4. RestorerOK(it) /\ it.steps = <<>> /\ it.bound = << >>
        BY <3>1, <3>3, IdleIsOK
      <3> QED
        BY <3>1, <3>4
    <2>2. ASSUME restore' = [restore EXCEPT ![r].stage = "creating"]
          PROVE  \E it : /\ RestorerOK(it) /\ it.steps = <<>> /\ it.bound = << >>
                         /\ restore' = [restore EXCEPT ![r] = it]
      <3> DEFINE old == restore[r]
                 it == [old EXCEPT !.stage = "creating"]
      <3>1. restore' = [restore EXCEPT ![r] = it]
        BY <2>2
      <3>2. RestorerOK(old) /\ old.stage = "idle"
        BY <1>1, <1>2 DEF RestorersOK
      <3>3. old = [stage |-> old.stage, client |-> old.client, scratch |-> old.scratch,
                   steps |-> old.steps, bound |-> old.bound]
        BY <3>2 DEF RestorerOK
      <3>4. old.steps = <<>> /\ old.bound = << >> /\ old.client \in AllSessions
        BY <3>2 DEF RestorerOK
      <3>5. old.scratch \in BOOLEAN
        BY <3>2 DEF RestorerOK
      <3> HIDE DEF old
      <3>6. it = [stage |-> "creating", client |-> old.client, scratch |-> old.scratch,
                  steps |-> <<>>, bound |-> << >>]
        BY <3>3, <3>4
      <3>7. RestorerOK(it) /\ it.steps = <<>> /\ it.bound = << >>
        BY <3>4, <3>5, <3>6, IdleIsOK
      <3> HIDE DEF it
      <3> QED
        BY <3>1, <3>7
    <2> QED
      BY <2>1, <2>2 DEF Open
  <1> QED
    BY <1>1, <1>3, <1>4, WaitsKeeps

\* OpenCreates: the scratch is made, with a window that is unstamped.
LEMMA OpenCreatesKeeps ==
    ASSUME IInv, NEW r \in Restorers, OpenCreates(r)
    PROVE  /\ IInv'
           /\ \A s \in SessionNames : server'.links[s] = server.links[s]
  <1> DEFINE yes == TRUE
             it == [Idle EXCEPT !.stage = "opened", !.scratch = yes]
  <1>1. /\ NewWindowAt(Scratch, BaseIndex) /\ around' = Others(r) /\ UNCHANGED snapshot
        /\ restore' = [restore EXCEPT ![r] = it]
    BY DEF OpenCreates
  <1>2. /\ ServerOK /\ RestorersOK /\ Bindings /\ \A q \in Restorers : MoveHolds(q)
    BY DEF IInv, RestoreHolds
  <1>3. Scratch \in AllSessions /\ Scratch \notin SessionNames /\ BaseIndex \in Nat
    BY RestoreAssumption DEF AllSessions
  <1>4. RestorerOK(it) /\ it.steps = <<>> /\ it.bound = << >>
    <2> DEFINE no == FALSE
    <2>1. yes \in BOOLEAN
      OBVIOUS
    <2>2. Idle = [stage |-> "idle", client |-> Scratch, scratch |-> no,
                  steps |-> <<>>, bound |-> << >>]
      BY DEF Idle
    <2> HIDE DEF no, yes
    <2>3. it = [stage |-> "opened", client |-> Scratch, scratch |-> yes,
                steps |-> <<>>, bound |-> << >>]
      <3> DEFINE old == Idle
      <3>1. old = [stage |-> "idle", client |-> Scratch, scratch |-> no,
                   steps |-> <<>>, bound |-> << >>]
        BY <2>2
      <3>2. it = [old EXCEPT !.stage = "opened", !.scratch = yes]
        OBVIOUS
      <3> HIDE DEF old, it
      <3> QED
        BY <3>1, <3>2
    <2> HIDE DEF it
    <2> QED
      BY <1>3, <2>1, <2>3, IdleIsOK
  <1> HIDE DEF it
  <1>5. /\ restore'[r] = it /\ restore' = [q \in Restorers |-> restore'[q]]
        /\ \A q \in Restorers \ {r} : restore'[q] = restore[q]
    BY <1>1, <1>2 DEF RestorersOK
  <1>6. /\ \A q \in Restorers \ {r} : NoneStamped(q)
        /\ around' = [q \in Restorers |-> around'[q]]
        /\ \A q \in Restorers : around'[q] \subseteq {"opened", "closed", "restored"}
    BY <1>1, <1>2, OthersTold
  <1>7. RestorersOK'
    BY <1>2, <1>4, <1>5, <1>6 DEF RestorersOK
  <1>8. ServerOK' /\ Kept /\ nextId' = nextId + 1
    BY <1>1, <1>2, <1>3, OpensKeeps
  <1>9. nextId' \in Nat /\ nextId <= nextId'
    BY <1>2, <1>8 DEF ServerOK
  <1>10. /\ \A q \in Restorers \ {r} : Untouched(q)
         /\ \A s \in AllSessions : s # Scratch => server'.links[s] = server.links[s]
    BY <1>1, <1>2, <1>3, OpensUntouched
  <1>11. \A q \in Restorers \ {r} :
            restore'[q] = restore[q] /\ Untouched(q) /\ NoneStamped(q)
    BY <1>5, <1>6, <1>10
  <1>12. IInv'
    BY <1>1, <1>4, <1>5, <1>7, <1>8, <1>9, <1>11, WithoutPlanKeeps
  <1> QED
    BY <1>3, <1>10, <1>12 DEF AllSessions

\* Prepare: the plan is sound for the server captured, begins with no move,
\* and stamps what nothing there is stamped by.
LEMMA PrepareKeeps ==
    ASSUME IInv, NEW r \in Restorers, Prepare(r)
    PROVE  /\ IInv' /\ UNCHANGED <<snapshot, server, around>>
           /\ ReplacesOwn(restore'[r].steps)
           /\ \A q \in Restorers \ {r} : restore'[q] = restore[q]
  <1> DEFINE plan == Plan(snapshot, server, restore[r].scratch)
             it == [restore[r] EXCEPT !.stage = "applying", !.steps = plan]
  <1>1. /\ restore[r].stage = "opened"
        /\ restore' = [restore EXCEPT ![r] = it]
        /\ UNCHANGED <<snapshot, server, filled, marked, nextId, around>>
    BY DEF Prepare
  <1>2. /\ ServerOK /\ RestorersOK /\ Bindings /\ StampMeansWhole
        /\ \A q \in Restorers : RestoreHolds(q) /\ MoveHolds(q)
    BY DEF IInv, RestoreHolds
  <1>3. /\ RestorerOK(restore[r]) /\ restore[r].bound = << >>
        /\ restore[r].scratch \in BOOLEAN
    BY <1>1, <1>2 DEF RestorersOK, RestorerOK
  <1>4. IsSnapshot(snapshot) /\ DOMAIN snapshot.links \subseteq AllSessions
    BY <1>2, RestoreAssumption DEF ServerOK, AllSessions
  <1>5. IsServer(server, snapshot)
    BY <1>2, <1>4 DEF IsServer, ServerOK
  <1>6. /\ Sound(plan, {}, snapshot, KnownOf(server, snapshot))
        /\ SavedBy(plan) \subseteq Absent(snapshot, server)
        /\ ReplacesOwn(plan)
    <2> DEFINE scratch == restore[r].scratch
    <2>1. scratch \in BOOLEAN
      BY <1>3
    <2> HIDE DEF scratch
    <2>2. LET S == Plan(snapshot, server, scratch)
          IN  /\ Sound(S, {}, snapshot, KnownOf(server, snapshot))
              /\ SavedBy(S) \subseteq Absent(snapshot, server)
              /\ ReplacesOwn(S)
      BY <1>4, <1>5, <2>1, PlanIsSound
    <2> QED
      BY <2>2 DEF scratch
  <1> HIDE DEF plan
  <1>7. /\ it = [stage |-> "applying", client |-> restore[r].client,
                 scratch |-> restore[r].scratch, steps |-> plan, bound |-> restore[r].bound]
    <2> DEFINE old == restore[r]
    <2>1. old = [stage |-> old.stage, client |-> old.client, scratch |-> old.scratch,
                 steps |-> old.steps, bound |-> old.bound]
      BY <1>3 DEF RestorerOK
    <2>2. it = [old EXCEPT !.stage = "applying", !.steps = plan]
      OBVIOUS
    <2> HIDE DEF it, old
    <2>3. it = [stage |-> "applying", client |-> old.client,
                scratch |-> old.scratch, steps |-> plan, bound |-> old.bound]
      BY <2>1, <2>2
    <2> QED
      BY <2>3 DEF old
  <1> HIDE DEF it
  <1>8. /\ restore'[r] = it /\ restore' = [q \in Restorers |-> restore'[q]]
        /\ \A q \in Restorers \ {r} : restore'[q] = restore[q]
    BY <1>1, <1>2 DEF RestorersOK
  <1>9. /\ it.stage = "applying" /\ it.client = restore[r].client
        /\ it.scratch = restore[r].scratch /\ it.steps = plan /\ it.bound = << >>
    BY <1>3, <1>7
  <1>10. RestorersOK'
    <2>1. it = [stage |-> it.stage, client |-> it.client, scratch |-> it.scratch,
                steps |-> it.steps, bound |-> it.bound]
      BY <1>3, <1>7, <1>9
    <2>2. it.scratch \in BOOLEAN
      BY <1>3, <1>9
    <2>3. it.client \in AllSessions
      BY <1>3, <1>9 DEF RestorerOK
    <2>4. RestorerOK(it)
      BY <1>9, <2>1, <2>2, <2>3 DEF RestorerOK
    <2> QED
      BY <1>1, <1>2, <1>8, <2>4 DEF RestorersOK
  <1>11. ServerOK' /\ nextId' \in Nat /\ nextId <= nextId'
    BY <1>1, <1>2, SameServer DEF ServerOK
  <1>12. DOMAIN it.bound = {}
    BY <1>9
  <1>13. ~ IsMoving(r)'
    <2> SUFFICES ASSUME plan # <<>>, Head(plan).op = "move"
                 PROVE  FALSE
      BY <1>8, <1>9 DEF IsMoving, Step
    <2>1. Head(plan) = plan[1] /\ 1 \in DOMAIN plan
      BY <1>4, <1>6, SoundTail
    <2>2. Uses(plan[1]) = {plan[1].window}
      BY <2>1 DEF Uses
    <2>3. plan[1].window \in {} \/ \E j \in 1 .. 1 - 1 : plan[1].window \in Binds(plan[j])
      BY <1>6, <2>1, <2>2 DEF Sound, BoundFirst
    <2>4. 1 .. 1 - 1 = {}
      OBVIOUS
    <2> QED
      BY <2>3, <2>4
  <1>14. Known \subseteq Known'
    <2>1. \A q \in Restorers : IsMoving(q)' => IsMoving(q) /\ Bound(q)' = Bound(q)
      BY <1>8, <1>13 DEF IsMoving, Bound, Step
    <2> QED
      BY <1>2, <1>11, <2>1, KnownGrows DEF ServerOK
  <1>15. KnownOf(server, snapshot) \subseteq Known
    <2> SUFFICES ASSUME NEW y \in KnownOf(server, snapshot)
                 PROVE  y \in Known
      OBVIOUS
    <2>1. /\ y \in DOMAIN server.made /\ y \in 1 .. nextId - 1
          /\ server.made[y] # 0 \/ y \in SavedWindows(snapshot)
      BY <1>2 DEF KnownOf, ServerOK, SavedWindows
    <2>2. ASSUME NEW q \in Restorers, IsMoving(q)
          PROVE  y # Bound(q)
      <3>1. /\ Step(q).window \in DOMAIN restore[q].bound
            /\ Bound(q) \in DOMAIN server.made => server.made[Bound(q)] = 0
        BY <1>2, <2>2 DEF MoveHolds
      <3>2. Bound(q) \notin SavedWindows(snapshot)
        BY <1>2, <3>1 DEF Bindings, Bound
      <3> QED
        BY <2>1, <3>1, <3>2
    <2> QED
      BY <2>1, <2>2 DEF Known
  <1>16. Bindings'
    <2>1. ASSUME NEW q \in Restorers, NEW x \in DOMAIN restore'[q].bound
          PROVE  x \in DOMAIN restore[q].bound /\ restore'[q].bound[x] = restore[q].bound[x]
      BY <1>8, <1>12
    <2> QED
      BY <1>1, <1>2, <1>11, <2>1, BindingsStay DEF ServerOK
  <1>17. RestoreHolds(r)'
    <2>1. PlanHolds(r)'
      <3>1. Sound(plan, {}, snapshot, Known')
        <4>1. KnownOf(server, snapshot) \subseteq Known'
          BY <1>14, <1>15
        <4> QED
          BY <1>6, <4>1, SoundGrows
      <3> QED
        BY <1>1, <1>8, <1>9, <1>12, <3>1 DEF PlanHolds
    <2>2. MoveHolds(r)'
      BY <1>13 DEF MoveHolds
    <2>3. StampHolds(r)'
      <3> SUFFICES ASSUME NEW k \in Stamps(plan), NEW y \in DOMAIN server.made
                   PROVE  server.made[y] # plan[k].saved
        BY <1>1, <1>8, <1>9, <1>12 DEF StampHolds
      <3>1. plan[k].saved \in Absent(snapshot, server)
        BY <1>6 DEF SavedBy
      <3>2. plan[k].saved \in DOMAIN snapshot.panes /\ Present(server, plan[k].saved) = 0
        BY <3>1 DEF Absent
      <3> QED
        BY <1>4, <1>5, <3>2, PresentFacts
    <2> QED
      BY <2>1, <2>2, <2>3 DEF RestoreHolds
  <1>18. ASSUME NEW q \in Restorers \ {r}
         PROVE  RestoreHolds(q)'
    <2>1. Untouched(q) /\ NoneStamped(q)
      BY <1>1, NothingDone
    <2>2. GoesOnAs(q)
      BY <1>8 DEF GoesOnAs
    <2> QED
      BY <1>1, <1>2, <1>14, <2>1, <2>2, StillHolds
  <1>19. StampMeansWhole'
    BY <1>1, <1>2 DEF StampMeansWhole, Whole
  <1>20. IInv'
    BY <1>10, <1>11, <1>16, <1>17, <1>18, <1>19 DEF IInv
  <1> QED
    BY <1>1, <1>6, <1>8, <1>9, <1>20

-----------------------------------------------------------------------------
\* The initial states.

\* A finite set of natural numbers has a greatest element.
LEMMA MaxIsGreatest ==
    ASSUME NEW S \in SUBSET Nat, IsFiniteSet(S), S # {}
    PROVE  Max(S) \in S /\ \A x \in S : Max(S) >= x
  <1> DEFINE n == Cardinality(S)
  <1>1. n \in Nat /\ ExistsBijection(1 .. n, S)
    BY FS_CardinalityType
  <1> HIDE DEF n
  <1>2. PICK f \in [1 .. n -> S] : \A x \in S : \E k \in 1 .. n : f[k] = x
    BY <1>1 DEF ExistsBijection, Bijection, Surjection
  <1> DEFINE Bounded == {k \in Nat : \E m \in Nat : \A j \in 1 .. n : j <= k => f[j] <= m}
  <1>3. 0 \in Bounded
    OBVIOUS
  <1>4. ASSUME NEW k \in Bounded
        PROVE  k + 1 \in Bounded
    <2>1. PICK m \in Nat : \A j \in 1 .. n : j <= k => f[j] <= m
      OBVIOUS
    <2>2. k \in Nat
      OBVIOUS
    <2>3. CASE k + 1 \in 1 .. n
      <3> DEFINE v == f[k + 1]
                 top == IF m <= v THEN v ELSE m
      <3>1. v \in Nat
        BY <2>3
      <3>2. top \in Nat /\ m <= top /\ v <= top
        BY <3>1
      <3> HIDE DEF top
      <3>3. ASSUME NEW j \in 1 .. n, j <= k + 1
            PROVE  f[j] <= top
        <4>1. CASE j = k + 1
          BY <3>2, <4>1
        <4>2. CASE j # k + 1
          <5>0. f[j] \in Nat
            BY <1>2, <3>3
          <5>1. j <= k
            <6>1. j \in Int
              BY <3>3
            <6> HIDE DEF v, n
            <6> QED
              BY <2>2, <3>3, <4>2, <6>1
          <5>2. f[j] <= m
            BY <2>1, <5>1
          <5> HIDE DEF v
          <5> QED
            BY <3>2, <5>0, <5>1, <5>2
        <4> QED
          BY <4>1, <4>2
      <3> QED
        BY <2>2, <3>2, <3>3
    <2>4. CASE k + 1 \notin 1 .. n
      <3>1. \A j \in 1 .. n : j <= k + 1 => j <= k
        BY <2>2, <2>4
      <3> QED
        BY <2>1, <2>2, <3>1
    <2> QED
      BY <2>3, <2>4
  <1>5. n \in Bounded
    <2>1. Bounded \in SUBSET Nat
      OBVIOUS
    <2> HIDE DEF Bounded
    <2>2. Bounded = Nat
      BY <1>3, <1>4, <2>1, Induction
    <2> QED
      BY <1>1, <2>2
  <1>6. PICK m \in Nat : \A j \in 1 .. n : f[j] <= m
    <2>1. PICK m \in Nat : \A j \in 1 .. n : j <= n => f[j] <= m
      BY <1>5
    <2> QED
      BY <1>1, <2>1
  <1> DEFINE Over == {x \in Nat : \A y \in S : y <= x}
  <1>7. m \in Over
    BY <1>2, <1>6
  <1>8. PICK g \in Over : \A x \in Over : g <= x
    <2>1. Over \in SUBSET Nat /\ Over # {}
      BY <1>7
    <2> HIDE DEF Over
    <2> QED
      BY <2>1, LeastElement
  <1>9. g \in S
    <2> SUFFICES ASSUME g \notin S
                 PROVE  FALSE
      OBVIOUS
    <2>1. g \in Nat /\ \A y \in S : y \in Nat /\ y <= g /\ y # g
      BY <1>8
    <2>2. g - 1 \in Nat /\ \A y \in S : y <= g - 1
      <3> HIDE DEF Over, n
      <3>1. ASSUME NEW y \in S
            PROVE  y <= g - 1 /\ g - 1 \in Nat
        <4>1. g \in Nat /\ y \in Nat /\ y <= g /\ y # g
          BY <2>1, <3>1
        <4> QED
          BY <4>1
      <3> QED
        BY <3>1
    <2>3. g - 1 \in Over
      BY <2>2
    <2>4. g <= g - 1
      BY <1>8, <2>3
    <2> QED
      BY <2>1, <2>4
  <1>10. \A x \in S : g >= x
    BY <1>8
  <1> QED
    BY <1>9, <1>10 DEF Max

\* The inductive invariant holds of the first state: no restore has a plan, and
\* no window is stamped.
LEMMA InitHolds ==
    ASSUME Init
    PROVE  IInv
  <1>1. /\ snapshot \in Snapshots /\ marked = {}
        /\ nextId = Max({1} \cup SavedWindows(snapshot)) + 1
        /\ restore = [r \in Restorers |-> Idle]
        /\ around = [r \in Restorers |-> {}]
    BY DEF Init
  <1>2. /\ IsSnapshot(snapshot) /\ BaseIndex \in Nat /\ Scratch \notin SessionNames
    BY <1>1, RestoreAssumption
  <1>3. PICK sameServer \in BOOLEAN,
             links \in [AllSessions -> {<< >>, Fresh}
                          \cup {snapshot.links[s] : s \in DOMAIN snapshot.links}] :
           /\ links[Scratch] = << >>
           /\ LET held == UNION {Range(links[s]) : s \in SessionNames}
              IN  /\ server = [links |-> links, made |-> [w \in held |-> 0],
                               touched |-> FALSE, sameServer |-> sameServer]
                  /\ filled = [w \in held |-> IF sameServer THEN Whole(w) ELSE Bare]
    BY DEF Init
  <1> DEFINE held == UNION {Range(links[s]) : s \in SessionNames}
  <1>4. /\ server.links = links /\ server.made = [w \in held |-> 0]
        /\ server = [links |-> server.links, made |-> server.made,
                     touched |-> server.touched, sameServer |-> server.sameServer]
        /\ DOMAIN filled = held
    <2> DEFINE no == FALSE
               made == [w \in held |-> 0]
    <2>1. server = [links |-> links, made |-> made, touched |-> no,
                    sameServer |-> sameServer]
      BY <1>3
    <2>2. DOMAIN filled = held
      BY <1>3
    <2> HIDE DEF no, made
    <2>3. server.links = links /\ server.made = made /\ server.touched = no
      BY <2>1
    <2>4. server = [links |-> server.links, made |-> server.made,
                    touched |-> server.touched, sameServer |-> server.sameServer]
      BY <2>1
    <2> QED
      BY <2>2, <2>3, <2>4 DEF made
  <1>5. Range(<< >>) = {} /\ DOMAIN << >> = {}
    <2>1. DOMAIN << >> = {}
      OBVIOUS
    <2> QED
      BY <2>1 DEF Range
  <1>6. held = UNION {Range(links[s]) : s \in AllSessions}
    BY <1>3, <1>5 DEF AllSessions
  <1>7. ASSUME NEW s \in AllSessions
        PROVE  /\ DOMAIN links[s] \subseteq Nat /\ IsFiniteSet(DOMAIN links[s])
               /\ Range(links[s]) \subseteq {1} \cup SavedWindows(snapshot)
    <2>1. CASE links[s] = << >>
      BY <1>5, <2>1, FS_EmptySet
    <2>2. CASE links[s] = Fresh
      <3>1. DOMAIN Fresh = {BaseIndex} /\ Range(Fresh) \subseteq {1}
        BY DEF Fresh, Range
      <3> DEFINE D == DOMAIN Fresh
      <3>2. D = {BaseIndex}
        BY <3>1
      <3>3. IsFiniteSet({BaseIndex})
        BY FS_Singleton
      <3> HIDE DEF D
      <3>4. D \subseteq Nat /\ IsFiniteSet(D)
        BY <1>2, <3>2, <3>3
      <3>5. DOMAIN links[s] = D /\ Range(links[s]) \subseteq {1}
        BY <2>2, <3>1 DEF D
      <3> QED
        BY <3>4, <3>5
    <2>3. ASSUME NEW t \in DOMAIN snapshot.links, links[s] = snapshot.links[t]
          PROVE  /\ DOMAIN links[s] \subseteq Nat /\ IsFiniteSet(DOMAIN links[s])
                 /\ Range(links[s]) \subseteq {1} \cup SavedWindows(snapshot)
      <3> DEFINE there == snapshot.links[t]
      <3>1. DOMAIN there \subseteq Nat /\ IsFiniteSet(DOMAIN there)
        BY <1>2, <2>3 DEF IsSnapshot
      <3>2. Range(there) \subseteq SavedWindows(snapshot)
        BY <1>2, <2>3 DEF IsSnapshot, SavedWindows
      <3>3. links[s] = there
        BY <2>3
      <3> HIDE DEF there
      <3> QED
        BY <3>1, <3>2, <3>3
    <2> QED
      BY <1>3, <2>1, <2>2, <2>3
  <1>8. /\ nextId \in Nat \ {0}
        /\ {1} \cup SavedWindows(snapshot) \subseteq 1 .. nextId - 1
    <2> DEFINE W == {1} \cup SavedWindows(snapshot)
    <2>1. W \in SUBSET (Nat \ {0}) /\ W # {}
      BY <1>2 DEF IsSnapshot, SavedWindows
    <2>2. IsFiniteSet(W)
      <3> DEFINE V == SavedWindows(snapshot)
      <3>1. IsFiniteSet(V)
        BY <1>2 DEF IsSnapshot, SavedWindows
      <3> HIDE DEF V
      <3>2. IsFiniteSet(V \cup {1})
        BY <3>1, FS_AddElement
      <3>3. W = V \cup {1}
        BY DEF V
      <3> QED
        BY <3>2, <3>3
    <2>3. nextId = Max(W) + 1
      BY <1>1
    <2> HIDE DEF W
    <2>4. Max(W) \in W /\ \A x \in W : Max(W) >= x
      BY <2>1, <2>2, MaxIsGreatest
    <2> DEFINE top == Max(W)
    <2>5. top \in Nat \ {0} /\ nextId = top + 1 /\ \A x \in W : x \in Nat \ {0} /\ top >= x
      BY <2>1, <2>3, <2>4
    <2> HIDE DEF top
    <2>6. nextId \in Nat \ {0} /\ nextId - 1 = top
      BY <2>5
    <2>7. \A x \in W : x \in 1 .. top
      BY <2>5
    <2> QED
      BY <2>6, <2>7 DEF W
  <1>9. held \subseteq {1} \cup SavedWindows(snapshot)
    BY <1>6, <1>7
  <1> HIDE DEF held
  <1>10. DOMAIN server.made = held /\ \A w \in held : server.made[w] = 0
    BY <1>4
  <1>11. ServerOK
    <2>1. DOMAIN links = AllSessions
      BY <1>3
    <2>2. DOMAIN server.made = UNION {Range(server.links[s]) : s \in AllSessions}
      BY <1>4, <1>6, <1>10
    <2>3. \A w \in DOMAIN server.made : server.made[w] \in {0} \cup SavedWindows(snapshot)
      BY <1>10
    <2>4. /\ DOMAIN server.made \subseteq 1 .. nextId - 1
          /\ SavedWindows(snapshot) \subseteq 1 .. nextId - 1
      BY <1>8, <1>9, <1>10
    <2>5. marked \subseteq {s \in SessionNames : Alive(s)}
      BY <1>1
    <2>6. \A s \in AllSessions : /\ DOMAIN server.links[s] \subseteq Nat
                                 /\ IsFiniteSet(DOMAIN server.links[s])
      BY <1>4, <1>7
    <2> QED
      BY <1>1, <1>4, <1>8, <1>10, <2>1, <2>2, <2>3, <2>4, <2>5, <2>6 DEF ServerOK
  <1>12. /\ Idle.steps = <<>> /\ Idle.bound = << >> /\ RestorerOK(Idle)
    <2> DEFINE no == FALSE
    <2>1. no \in BOOLEAN /\ Scratch \in AllSessions
      BY DEF AllSessions
    <2>2. Idle = [stage |-> "idle", client |-> Scratch, scratch |-> no,
                  steps |-> <<>>, bound |-> << >>]
      BY DEF Idle
    <2> HIDE DEF no
    <2> QED
      BY <2>1, <2>2, IdleIsOK
  <1>13. RestorersOK
    BY <1>1, <1>12 DEF RestorersOK
  <1>14. \A r \in Restorers : restore[r].steps = <<>> /\ DOMAIN restore[r].bound = {}
    BY <1>1, <1>5, <1>12
  <1>15. Bindings
    BY <1>14 DEF Bindings
  <1>16. ASSUME NEW r \in Restorers
         PROVE  RestoreHolds(r)
    <2>1. \A bound, snap, known : Sound(<<>>, bound, snap, known)
      <3>1. \A A : <<>> \in Seq(A)
        OBVIOUS
      <3> QED
        BY <1>5, <3>1
        DEF Sound, BoundFirst, BoundOnce, MovedAtOnce, StampedLast, StampedAll, Stamps
    <2>2. PlanHolds(r)
      BY <1>14, <2>1 DEF PlanHolds
    <2>3. MoveHolds(r)
      BY <1>14 DEF MoveHolds, IsMoving
    <2>4. StampHolds(r)
      BY <1>5, <1>14 DEF StampHolds, Stamps
    <2> QED
      BY <2>2, <2>3, <2>4 DEF RestoreHolds
  <1>17. StampMeansWhole
    BY <1>10 DEF StampMeansWhole
  <1> QED
    BY <1>11, <1>13, <1>15, <1>16, <1>17 DEF IInv

-----------------------------------------------------------------------------
\* What holds of every restore.

\* What a step of a restore leaves of each session's windows.
LEMMA AppliesKeeps ==
    ASSUME IInv, NEW r \in Restorers, Applies(r)
    PROVE  /\ IInv'
           /\ \A s \in SessionNames :
                 \/ Range(server.links[s]) \subseteq Range(server'.links[s])
                 \/ Step(r).op = "link" /\ LosesAt(r, s)
  <1>1. SessionNames \subseteq AllSessions
    BY DEF AllSessions
  <1>2. CASE CreateSession(r) \/ NewWindow(r)
    BY <1>1, <1>2, CreateKeeps, NewKeeps
  <1>3. CASE MoveWindow(r)
    BY <1>1, <1>3, MoveKeeps
  <1>4. CASE LinkWindow(r)
    <2>1. Step(r).op = "link"
      BY <1>4 DEF LinkWindow, Doing, Step
    <2> QED
      BY <1>1, <1>4, <2>1, LinkKeeps
  <1>5. CASE SplitPane(r) \/ SelectLayout(r) \/ Fill(r)
    BY <1>5, SplitKeeps, LayoutKeeps, FillKeeps
  <1>6. CASE Stamp(r)
    BY <1>6, StampKeeps
  <1>7. CASE KillSession(r)
    BY <1>7, KillKeeps
  <1>8. CASE SwitchClients(r) \/ SelectWindow(r) \/ MarkSession(r)
    BY <1>8, SwitchKeeps, SelectKeeps, MarkKeeps
  <1>9. CASE MarkServer(r)
    BY <1>9, MarkServerKeeps
  <1> QED
    BY <1>2, <1>3, <1>4, <1>5, <1>6, <1>7, <1>8, <1>9 DEF Applies

\* A step that changes nothing keeps the invariant.
LEMMA StutterKeeps ==
    ASSUME IInv,
           UNCHANGED <<snapshot, server, filled, marked, nextId, restore, around>>
    PROVE  IInv'
  <1>1. /\ ServerOK /\ RestorersOK /\ Bindings /\ StampMeansWhole
        /\ \A q \in Restorers : RestoreHolds(q)
    BY DEF IInv
  <1>2. ServerOK'
    BY <1>1, SameServer
  <1>3. RestorersOK'
    BY <1>1 DEF RestorersOK
  <1>4. Bindings'
    BY <1>1 DEF Bindings
  <1>5. Known' = Known
    BY DEF Known, IsMoving, Bound, Step
  <1>6. StampMeansWhole'
    BY <1>1 DEF StampMeansWhole, Whole
  <1>7. ASSUME NEW q \in Restorers
        PROVE  RestoreHolds(q)'
    <2>1. Untouched(q) /\ NoneStamped(q)
      BY NothingDone
    <2>2. GoesOnAs(q)
      BY DEF GoesOnAs
    <2> QED
      BY <1>1, <1>5, <2>1, <2>2, StillHolds
  <1> QED
    BY <1>2, <1>3, <1>4, <1>6, <1>7 DEF IInv

\* IInv, the inductive invariant: it holds of the first state and every step
\* of a restore or of the user keeps it.
THEOREM Invariance == Spec => []IInv
  <1>1. Init => IInv
    BY InitHolds
  <1>2. IInv /\ [Next]_vars => IInv'
    <2> SUFFICES ASSUME IInv, [Next]_vars
                 PROVE  IInv'
      OBVIOUS
    <2>1. ASSUME NEW s \in AllSessions, NEW i \in 0 .. MaxIndex, UserOpens(s, i)
          PROVE  IInv'
      BY <2>1, UserOpensKeeps
    <2>2. ASSUME NEW s \in AllSessions, NEW i \in 0 .. MaxIndex, NEW renumber \in BOOLEAN,
                 UserCloses(s, i, renumber)
          PROVE  IInv'
      BY <2>2, UserClosesKeeps
    <2>3. ASSUME NEW r \in Restorers, RestoreStep(r)
          PROVE  IInv'
      <3>1. CASE Open(r) \/ OpenCreates(r) \/ Prepare(r)
        BY <3>1, OpenKeeps, OpenCreatesKeeps, PrepareKeeps
      <3>2. CASE Applies(r)
        BY <3>2, AppliesKeeps
      <3>3. CASE Refused(r) \/ Cut(r) \/ Finish(r)
        <4>1. Ends(r)
          BY <3>3 DEF Refused, Cut, Finish
        <4> QED
          BY <4>1, EndsKeeps
      <3> QED
        BY <2>3, <3>1, <3>2, <3>3 DEF RestoreStep
    <2>4. CASE UNCHANGED vars
      BY <2>4, StutterKeeps DEF vars
    <2> QED
      BY <2>1, <2>2, <2>3, <2>4 DEF Next, UserStep
  <1> QED
    BY <1>1, <1>2, PTL DEF Spec

-----------------------------------------------------------------------------
\* The places that links take.

\* The window of r's reference x is at index i of session s.
IsThere(r, s, i, x) ==
    /\ s \in SessionNames /\ i \in DOMAIN server.links[s]
    /\ server.links[s][i] = restore[r].bound[x]

\* What step k of S replaces is moved to its place by a step before it, and
\* nothing between them touches the place.
PutBefore(S, k) ==
    \E j \in 1 .. k - 1 :
        /\ S[j] = [op |-> "move", session |-> S[k].session, at |-> S[k].at,
                   window |-> S[k].replacing]
        /\ \A i \in j + 1 .. k - 1 : S[i].op \in Aside

\* What it replaces is in its place already, and stays there until then.
PutAlready(r, k) ==
    LET S == restore[r].steps
    IN  /\ \A i \in 1 .. k - 1 : S[i].op \in Aside
        /\ IsThere(r, S[k].session, S[k].at, S[k].replacing)

\* While no window was closed and no other restore ran, a link still to come
\* finds what it replaces where it goes.
PlaceHolds(r) ==
    around[r] \subseteq {"opened"} =>
        \A k \in DOMAIN restore[r].steps :
            Replacing(restore[r].steps[k]) =>
                PutAlready(r, k) \/ PutBefore(restore[r].steps, k)

PlacesHold == \A r \in Restorers : PlaceHolds(r)

\* Every window is where it was.
WindowsStay ==
    \A s \in SessionNames : \A i \in DOMAIN server.links[s] :
        i \in DOMAIN server'.links[s] /\ server'.links[s][i] = server.links[s][i]

\* A restore that waits while another actor moves no window of a session, or
\* tells it of more than windows opened.
LEMMA PlaceStays ==
    ASSUME NEW q \in Restorers, PlaceHolds(q), GoesOnAs(q),
           restore[q].steps # <<>> /\ around'[q] \subseteq {"opened"} =>
              around[q] \subseteq {"opened"} /\ WindowsStay
    PROVE  PlaceHolds(q)'
  <1> DEFINE S == restore[q].steps
  <1> SUFFICES ASSUME around'[q] \subseteq {"opened"},
                      NEW k \in DOMAIN S, Replacing(S[k])
               PROVE  PutAlready(q, k)' \/ PutBefore(S, k)
    BY DEF PlaceHolds, GoesOnAs
  <1>1. S # <<>>
    OBVIOUS
  <1>2. PutAlready(q, k) \/ PutBefore(S, k)
    BY <1>1 DEF PlaceHolds
  <1>3. PutAlready(q, k) => PutAlready(q, k)'
    BY <1>1 DEF PutAlready, IsThere, WindowsStay, GoesOnAs
  <1> QED
    BY <1>2, <1>3

\* A restore that takes a step: what it moves is where it is moved to, and
\* between that and the link it does nothing to the sessions restored.
LEMMA PlaceGoesOn ==
    ASSUME ServerOK, NEW r \in Restorers, PlanHolds(r), PlaceHolds(r), restore[r].steps # <<>>,
           restore'[r].steps = Tail(restore[r].steps), around'[r] = around[r],
           Step(r).op \in Aside \cup {"move"} => restore'[r].bound = restore[r].bound,
           Step(r).op \in Aside => \A s \in SessionNames : server'.links[s] = server.links[s],
           Step(r).op = "move" => HasPut(r)
    PROVE  PlaceHolds(r)'
  <1> DEFINE S == restore[r].steps
             T == Tail(S)
  <1>1. /\ IsSnapshot(snapshot) /\ Sound(S, DOMAIN restore[r].bound, snapshot, Known)
        /\ Step(r) = Head(S) /\ S # <<>> /\ restore'[r].steps = T
    BY RestoreAssumption DEF ServerOK, PlanHolds, Step
  <1>2. /\ Step(r) = S[1] /\ 1 \in DOMAIN S
        /\ \A k \in DOMAIN T :
              k \in Nat /\ k >= 1 /\ k + 1 \in DOMAIN S /\ T[k] = S[k + 1]
    <2> HIDE DEF S
    <2> QED
      BY <1>1, SoundTail
  <1>3. \A k \in DOMAIN T : \A i \in 1 .. k : i \in DOMAIN T
    <2> DEFINE A == Steps(snapshot, Known)
    <2>1. S \in Seq(A) /\ S # <<>>
      BY <1>1 DEF Sound
    <2> HIDE DEF S, A
    <2> QED
      BY <2>1
  <1> HIDE DEF S, T
  <1> SUFFICES ASSUME around[r] \subseteq {"opened"},
                      NEW k \in DOMAIN T, Replacing(T[k])
               PROVE  PutAlready(r, k)' \/ PutBefore(T, k)
    BY <1>1 DEF PlaceHolds
  <1>4. k \in Nat /\ k >= 1 /\ k + 1 \in DOMAIN S /\ T[k] = S[k + 1]
    BY <1>2
  <1>5. \A i \in 1 .. k - 1 : T[i] = S[i + 1] /\ i + 1 \in 2 .. k
    BY <1>2, <1>3, <1>4
  <1>6. PutAlready(r, k + 1) \/ PutBefore(S, k + 1)
    BY <1>4 DEF PlaceHolds, S
  <1>7. ASSUME PutAlready(r, k + 1)
        PROVE  PutAlready(r, k)'
    <2>1. /\ \A i \in 1 .. k : S[i].op \in Aside
          /\ IsThere(r, S[k + 1].session, S[k + 1].at, S[k + 1].replacing)
      BY <1>4, <1>7 DEF PutAlready, S
    <2>2. Step(r).op \in Aside
      BY <1>2, <1>4, <2>1
    <2>3. \A i \in 1 .. k - 1 : T[i].op \in Aside
      BY <1>4, <1>5, <2>1
    <2>4. /\ T[k].session \in SessionNames /\ T[k].at \in DOMAIN server'.links[T[k].session]
          /\ server'.links[T[k].session][T[k].at] = restore'[r].bound[T[k].replacing]
      BY <1>4, <2>1, <2>2 DEF IsThere
    <2> QED
      BY <1>1, <2>3, <2>4 DEF PutAlready, IsThere
  <1>8. ASSUME PutBefore(S, k + 1)
        PROVE  PutAlready(r, k)' \/ PutBefore(T, k)
    <2>1. PICK j \in 1 .. k :
             /\ S[j] = [op |-> "move", session |-> S[k + 1].session, at |-> S[k + 1].at,
                        window |-> S[k + 1].replacing]
             /\ \A i \in j + 1 .. k : S[i].op \in Aside
      BY <1>4, <1>8 DEF PutBefore
    <2>2. \A i \in j .. k - 1 : T[i].op \in Aside
      BY <1>4, <1>5, <2>1
    <2>3. CASE j = 1
      <3>1. /\ Step(r).op = "move" /\ Step(r).session = T[k].session
            /\ Step(r).at = T[k].at /\ Step(r).window = T[k].replacing
        BY <1>2, <1>4, <2>1, <2>3
      <3>2. Step(r).session \in SessionNames
        BY <1>1, <3>1, StepShape DEF S
      <3>3. /\ T[k].session \in SessionNames /\ T[k].at \in DOMAIN server'.links[T[k].session]
            /\ server'.links[T[k].session][T[k].at] = restore'[r].bound[T[k].replacing]
        BY <3>1, <3>2 DEF HasPut, Bound
      <3>4. \A i \in 1 .. k - 1 : T[i].op \in Aside
        BY <2>2, <2>3
      <3> QED
        BY <1>1, <3>3, <3>4 DEF PutAlready, IsThere
    <2>4. CASE j # 1
      <3>1. j - 1 \in 1 .. k - 1 /\ (j - 1) + 1 = j
        BY <1>4, <2>4
      <3>2. T[j - 1] = S[j]
        BY <1>5, <3>1
      <3> QED
        BY <1>4, <2>1, <2>2, <3>1, <3>2 DEF PutBefore
    <2> QED
      BY <2>3, <2>4
  <1> QED
    BY <1>6, <1>7, <1>8

\* Another restore that takes a step tells those that have steps left.
LEMMA OthersPlaces ==
    ASSUME RestorersOK, PlacesHold, NEW r \in Restorers, around' = Others(r),
           NEW q \in Restorers \ {r}, restore'[q].steps = restore[q].steps
    PROVE  PlaceHolds(q)'
  <1>1. CASE restore[q].steps = <<>>
    <2>1. DOMAIN restore'[q].steps = {}
      BY <1>1
    <2> QED
      BY <2>1 DEF PlaceHolds
  <1>2. CASE restore[q].steps # <<>>
    <2>1. restore[q].stage = "applying"
      BY <1>2 DEF RestorersOK, RestorerOK
    <2>2. "restored" \in around'[q]
      BY <2>1 DEF Others, Told
    <2> QED
      BY <2>2 DEF PlaceHolds
  <1> QED
    BY <1>1, <1>2

\* A step of r that binds nothing.
LEMMA PlacesStepOn ==
    ASSUME IInv, PlacesHold, NEW r \in Restorers, StepsOn(r),
           Step(r).op \in Aside => \A s \in SessionNames : server'.links[s] = server.links[s],
           Step(r).op = "move" => HasPut(r)
    PROVE  PlacesHold'
  <1>1. ServerOK /\ RestorersOK /\ PlanHolds(r) /\ PlaceHolds(r)
    BY DEF IInv, RestoreHolds, PlacesHold
  <1>2. /\ around'[r] = around[r] /\ around' = Others(r) /\ restore[r].steps # <<>>
        /\ restore'[r].steps = Tail(restore[r].steps)
        /\ restore'[r].bound = restore[r].bound
        /\ \A q \in Restorers \ {r} : restore'[q].steps = restore[q].steps
    BY <1>1, OthersTold DEF StepsOn, GoesOnAs
  <1>3. PlaceHolds(r)'
    BY <1>1, <1>2, PlaceGoesOn
  <1>4. \A q \in Restorers \ {r} : PlaceHolds(q)'
    BY <1>1, <1>2, OthersPlaces
  <1> QED
    BY <1>3, <1>4 DEF PlacesHold

\* A step of r that makes a window.
LEMMA PlacesMade ==
    ASSUME IInv, PlacesHold, NEW r \in Restorers, NEW op \in {"create", "new"},
           Doing(r, op), StepMakes(r)
    PROVE  PlacesHold'
  <1>1. ServerOK /\ RestorersOK /\ PlanHolds(r) /\ PlaceHolds(r)
    BY DEF IInv, RestoreHolds, PlacesHold
  <1>2. /\ around' = Others(r) /\ restore[r].steps # <<>> /\ Step(r).op = op
        /\ restore' = [restore EXCEPT ![r] =
              [restore[r] EXCEPT !.steps = Tail(restore[r].steps),
                                 !.bound = Put(restore[r].bound, Step(r).window, nextId)]]
    BY DEF StepMakes, Doing, Step
  <1>3. /\ restore'[r].steps = Tail(restore[r].steps)
        /\ \A q \in Restorers \ {r} : restore'[q].steps = restore[q].steps
    <2> DEFINE it == [restore[r] EXCEPT !.steps = Tail(restore[r].steps),
                               !.bound = Put(restore[r].bound, Step(r).window, nextId)]
    <2>1. it.steps = Tail(restore[r].steps)
      <3>1. restore[r] = [stage |-> restore[r].stage, client |-> restore[r].client,
                          scratch |-> restore[r].scratch, steps |-> restore[r].steps,
                          bound |-> restore[r].bound]
        BY <1>1 DEF RestorersOK, RestorerOK
      <3> QED
        BY <3>1
    <2>2. restore' = [restore EXCEPT ![r] = it]
      BY <1>2
    <2> HIDE DEF it
    <2>3. restore'[r] = it /\ \A q \in Restorers \ {r} : restore'[q] = restore[q]
      BY <1>1, <2>2 DEF RestorersOK
    <2> QED
      BY <2>1, <2>3
  <1>4. around'[r] = around[r]
    BY <1>1, <1>2, OthersTold
  <1>5. PlaceHolds(r)'
    BY <1>1, <1>2, <1>3, <1>4, PlaceGoesOn DEF Aside
  <1>6. \A q \in Restorers \ {r} : PlaceHolds(q)'
    BY <1>1, <1>2, <1>3, OthersPlaces
  <1> QED
    BY <1>5, <1>6 DEF PlacesHold

\* Whatever step a restore takes.
LEMMA PlacesApply ==
    ASSUME IInv, PlacesHold, NEW r \in Restorers, Applies(r)
    PROVE  PlacesHold'
  <1>1. RestorersOK
    BY DEF IInv
  <1>2. CASE CreateSession(r) \/ NewWindow(r)
    <2>1. PICK op \in {"create", "new"} : Doing(r, op) /\ StepMakes(r)
      BY <1>2 DEF CreateSession, NewWindow
    <2> QED
      BY <2>1, PlacesMade
  <1>3. CASE MoveWindow(r)
    <2>1. Doing(r, "move") /\ StepDone(r) /\ UNCHANGED nextId
      BY <1>3 DEF MoveWindow
    <2>2. StepsOn(r) /\ Step(r).op = "move"
      BY <1>1, <2>1, StepDoneStepsOn DEF Doing, Step
    <2>3. HasPut(r)
      BY <1>3, MoveKeeps
    <2> QED
      BY <2>2, <2>3, PlacesStepOn DEF Aside
  <1>4. CASE KillSession(r)
    <2>1. Doing(r, "kill") /\ StepDone(r) /\ UNCHANGED nextId
      BY <1>4 DEF KillSession
    <2>2. StepsOn(r) /\ Step(r).op = "kill"
      BY <1>1, <2>1, StepDoneStepsOn DEF Doing, Step
    <2>3. \A s \in SessionNames : server'.links[s] = server.links[s]
      BY <1>4, KillKeeps
    <2> QED
      BY <2>2, <2>3, PlacesStepOn
  <1>5. CASE SwitchClients(r)
    <2>1. StepsOn(r) /\ UNCHANGED server /\ Step(r).op = "switch"
      BY <1>5, SwitchKeeps DEF SwitchClients, Doing, Step
    <2> QED
      BY <2>1, PlacesStepOn
  <1>6. CASE \/ LinkWindow(r) \/ SplitPane(r) \/ SelectLayout(r) \/ Fill(r) \/ Stamp(r)
             \/ SelectWindow(r) \/ MarkSession(r) \/ MarkServer(r)
    <2>1. PICK op \in {"link", "split", "layout", "fill", "stamp", "select", "mark", "touch"} :
             Doing(r, op) /\ StepDone(r) /\ UNCHANGED nextId
      BY <1>6 DEF LinkWindow, SplitPane, SelectLayout, Fill, Stamp, Furnishes,
                  SelectWindow, MarkSession, MarkServer
    <2>2. StepsOn(r) /\ Step(r).op = op
      BY <1>1, <2>1, StepDoneStepsOn DEF Doing, Step
    <2>3. Step(r).op \notin Aside \cup {"move"}
      BY <2>2 DEF Aside
    <2> QED
      BY <2>2, <2>3, PlacesStepOn
  <1> QED
    BY <1>2, <1>3, <1>4, <1>5, <1>6 DEF Applies

\* The user opens a window, and moves none.
LEMMA PlacesOpens ==
    ASSUME IInv, PlacesHold, NEW s \in AllSessions, NEW i \in 0 .. MaxIndex, UserOpens(s, i)
    PROVE  PlacesHold'
  <1>1. ServerOK /\ RestorersOK
    BY DEF IInv
  <1>2. /\ NewWindowAt(s, i) /\ i \notin DOMAIN server.links[s] /\ i \in Nat
        /\ UNCHANGED <<snapshot, restore>> /\ around' = Witness("opened")
    BY RestoreAssumption DEF UserOpens, MayMove
  <1>3. /\ server'.links[s] = Put(server.links[s], i, nextId)
        /\ \A t \in AllSessions : t # s => server'.links[t] = server.links[t]
    <2>1. server'.links = [server.links EXCEPT ![s] = Put(@, i, nextId)]
      BY <1>1, <1>2, OpensKeeps
    <2> QED
      BY <1>1, <2>1 DEF ServerOK
  <1>4. \A y \in DOMAIN server.links[s] :
           y \in DOMAIN server'.links[s] /\ server'.links[s][y] = server.links[s][y]
    <2>1. ASSUME NEW f, NEW x, NEW v
          PROVE  \A y \in DOMAIN f : y # x =>
                    y \in DOMAIN Put(f, x, v) /\ Put(f, x, v)[y] = f[y]
      BY DEF Put
    <2>2. \A y \in DOMAIN server.links[s] : y # i
      BY <1>2
    <2> QED
      BY <1>3, <2>1, <2>2
  <1>5. WindowsStay
    BY <1>3, <1>4 DEF WindowsStay, AllSessions
  <1>6. ASSUME NEW q \in Restorers
        PROVE  PlaceHolds(q)'
    <2>1. GoesOnAs(q) /\ PlaceHolds(q)
      BY <1>2 DEF GoesOnAs, PlacesHold
    <2>2. restore[q].steps # <<>> => around'[q] = around[q] \cup {"opened"}
      BY <1>1, <1>2 DEF RestorersOK, RestorerOK, Witness, Told
    <2> QED
      BY <1>5, <2>1, <2>2, PlaceStays
  <1> QED
    BY <1>6 DEF PlacesHold

\* The user closes a window, and every restore with steps left is told.
LEMMA PlacesCloses ==
    ASSUME IInv, PlacesHold, NEW s \in AllSessions, NEW i \in 0 .. MaxIndex,
           NEW renumber \in BOOLEAN, UserCloses(s, i, renumber)
    PROVE  PlacesHold'
  <1>1. /\ RestorersOK /\ UNCHANGED restore /\ around' = Witness("closed")
    BY DEF IInv, UserCloses, MayMove
  <1>2. ASSUME NEW q \in Restorers
        PROVE  PlaceHolds(q)'
    <2>1. GoesOnAs(q) /\ PlaceHolds(q)
      BY <1>1 DEF GoesOnAs, PlacesHold
    <2>2. restore[q].steps # <<>> => "closed" \in around'[q]
      BY <1>1 DEF RestorersOK, RestorerOK, Witness, Told
    <2> QED
      BY <2>1, <2>2, PlaceStays
  <1> QED
    BY <1>2 DEF PlacesHold

\* A restore that has no steps left, or has just been handed a plan, while the
\* server and the others stay as they are.
LEMMA PlacesRest ==
    ASSUME PlacesHold, NEW r \in Restorers, PlaceHolds(r)', UNCHANGED server,
           \A q \in Restorers \ {r} : restore'[q] = restore[q] /\ around'[q] = around[q]
    PROVE  PlacesHold'
  <1>1. ASSUME NEW q \in Restorers \ {r}
        PROVE  PlaceHolds(q)'
    <2>1. GoesOnAs(q) /\ PlaceHolds(q) /\ WindowsStay
      BY DEF GoesOnAs, PlacesHold, WindowsStay
    <2> QED
      BY <2>1, PlaceStays
  <1> QED
    BY <1>1 DEF PlacesHold

\* With no steps left no place is awaited.
LEMMA NoPlace ==
    ASSUME NEW r \in Restorers, restore'[r].steps = <<>>
    PROVE  PlaceHolds(r)'
  <1>1. DOMAIN restore'[r].steps = {}
    OBVIOUS
  <1> QED
    BY <1>1 DEF PlaceHolds

\* A restore is opened, planned or ended.
LEMMA PlacesRestore ==
    ASSUME IInv, PlacesHold, NEW r \in Restorers, RestoreStep(r)
    PROVE  PlacesHold'
  <1>1. RestorersOK
    BY DEF IInv
  <1>2. Idle.steps = <<>>
    BY DEF Idle
  <1>3. CASE Open(r)
    <2>1. /\ \A q \in Restorers \ {r} : restore'[q] = restore[q]
          /\ UNCHANGED <<server, around>>
      BY <1>1, <1>3 DEF Open, RestorersOK
    <2>2. restore'[r].steps = <<>>
      <3>1. CASE \E s \in AllSessions : restore' = [restore EXCEPT ![r] =
                    [Idle EXCEPT !.stage = "opened", !.client = s]]
        BY <1>1, <3>1 DEF RestorersOK, Idle
      <3>2. CASE restore' = [restore EXCEPT ![r].stage = "creating"]
        <4>1. RestorerOK(restore[r]) /\ restore[r].stage = "idle"
          BY <1>1, <1>3 DEF RestorersOK, Open
        <4>2. restore[r].steps = <<>>
          BY <4>1 DEF RestorerOK
        <4>3. restore'[r] = [restore[r] EXCEPT !.stage = "creating"]
          BY <1>1, <3>2 DEF RestorersOK
        <4>4. restore[r] = [stage |-> restore[r].stage, client |-> restore[r].client,
                            scratch |-> restore[r].scratch, steps |-> restore[r].steps,
                            bound |-> restore[r].bound]
          BY <4>1 DEF RestorerOK
        <4> QED
          BY <4>2, <4>3, <4>4
      <3> QED
        BY <1>3, <3>1, <3>2 DEF Open
    <2> QED
      BY <2>1, <2>2, NoPlace, PlacesRest
  <1>4. CASE OpenCreates(r)
    <2>1. /\ restore' = [restore EXCEPT ![r] =
                [Idle EXCEPT !.stage = "opened", !.scratch = TRUE]]
          /\ around' = Others(r)
      BY <1>4 DEF OpenCreates
    <2>2. restore'[r].steps = <<>>
      BY <1>1, <2>1 DEF RestorersOK, Idle
    <2>3. \A q \in Restorers \ {r} : restore'[q].steps = restore[q].steps
      BY <1>1, <2>1 DEF RestorersOK
    <2>4. PlaceHolds(r)'
      BY <2>2, NoPlace
    <2>5. \A q \in Restorers \ {r} : PlaceHolds(q)'
      BY <1>1, <2>1, <2>3, OthersPlaces
    <2> QED
      BY <2>4, <2>5 DEF PlacesHold
  <1>5. CASE Prepare(r)
    <2>1. /\ UNCHANGED <<server, around>> /\ ReplacesOwn(restore'[r].steps)
          /\ \A q \in Restorers \ {r} : restore'[q] = restore[q]
      BY <1>5, PrepareKeeps
    <2>2. PlaceHolds(r)'
      BY <2>1 DEF ReplacesOwn, PlaceHolds, PutBefore
    <2> QED
      BY <2>1, <2>2, PlacesRest
  <1>6. CASE Applies(r)
    BY <1>6, PlacesApply
  <1>7. CASE Refused(r) \/ Cut(r) \/ Finish(r)
    <2>1. /\ restore' = [restore EXCEPT ![r] = Idle] /\ around' = [around EXCEPT ![r] = {}]
          /\ UNCHANGED server
      BY <1>7 DEF Refused, Cut, Finish, Ends
    <2>2. /\ restore'[r] = Idle
          /\ \A q \in Restorers \ {r} : restore'[q] = restore[q] /\ around'[q] = around[q]
      BY <1>1, <2>1 DEF RestorersOK
    <2> QED
      BY <1>2, <2>1, <2>2, NoPlace, PlacesRest
  <1> QED
    BY <1>3, <1>4, <1>5, <1>6, <1>7 DEF RestoreStep

\* Until a window is closed or another restore runs, every link to come that
\* takes a window's place finds there the one its plan put there.
THEOREM PlacesAreHeld == Spec => []PlacesHold
  <1>1. Init => PlacesHold
    <2> SUFFICES ASSUME Init, NEW r \in Restorers
                 PROVE  PlaceHolds(r)
      BY DEF PlacesHold
    <2>1. restore[r].steps = <<>>
      BY DEF Init, Idle
    <2>2. DOMAIN restore[r].steps = {}
      BY <2>1
    <2> QED
      BY <2>2 DEF PlaceHolds
  <1>2. IInv /\ PlacesHold /\ [Next]_vars => PlacesHold'
    <2> SUFFICES ASSUME IInv, PlacesHold, [Next]_vars
                 PROVE  PlacesHold'
      OBVIOUS
    <2>1. ASSUME NEW s \in AllSessions, NEW i \in 0 .. MaxIndex,
                 UserOpens(s, i) \/ \E renumber \in BOOLEAN : UserCloses(s, i, renumber)
          PROVE  PlacesHold'
      BY <2>1, PlacesOpens, PlacesCloses
    <2>2. ASSUME NEW r \in Restorers, RestoreStep(r)
          PROVE  PlacesHold'
      BY <2>2, PlacesRestore
    <2>3. CASE UNCHANGED vars
      <3>1. ASSUME NEW q \in Restorers
            PROVE  PlaceHolds(q)'
        <4>1. GoesOnAs(q) /\ PlaceHolds(q) /\ WindowsStay /\ UNCHANGED around
          BY <2>3 DEF vars, GoesOnAs, PlacesHold, WindowsStay
        <4> QED
          BY <4>1, PlaceStays
      <3> QED
        BY <3>1 DEF PlacesHold
    <2> QED
      BY <2>1, <2>2, <2>3 DEF Next, UserStep
  <1> QED
    BY <1>1, <1>2, Invariance, PTL DEF Spec

-----------------------------------------------------------------------------
\* What holds of every run.

\* Restore.TypeOK.
THEOREM TypeCorrect == Spec => []TypeOK
  <1>1. IInv => TypeOK
    <2> SUFFICES ASSUME IInv
                 PROVE  TypeOK
      OBVIOUS
    <2>1. ServerOK /\ RestorersOK
      BY DEF IInv
    <2>2. \A s \in AllSessions : \A i \in DOMAIN server.links[s] :
             i \in Nat /\ server.links[s][i] \in DOMAIN server.made
      BY <2>1 DEF ServerOK, Range
    <2>3. \A r \in Restorers :
             /\ restore[r].stage \in {"idle", "creating", "opened", "applying"}
             /\ restore[r].client \in AllSessions
             /\ around[r] \subseteq {"opened", "closed", "restored"}
      BY <2>1 DEF RestorersOK, RestorerOK
    <2> QED
      BY <2>1, <2>2, <2>3 DEF TypeOK, ServerOK
  <1> QED
    BY <1>1, Invariance, PTL

\* A stamped window is the whole of the saved one, for any snapshots and any
\* number of restores, cut where they may be and side by side, beside a user:
\* it is stamped only after its panes, layout and content, in one sequence of
\* steps none of which is another window's.
THEOREM StampsAreWhole == Spec => []StampMeansWhole
  <1>1. IInv => StampMeansWhole
    BY DEF IInv
  <1> QED
    BY <1>1, Invariance, PTL

\* No step of a restore takes a window out of a session, but the placeholder
\* its own plan put there, unless windows were closed or another restore ran
\* since it began.
THEOREM NothingLiveIsRemoved == Spec => LiveIsKept
  <1> DEFINE Lost(s) == Range(server.links[s]) \ Range(server'.links[s])
             Spared(r, s) ==
                Lost(s) # {} =>
                   /\ Step(r).op = "link" /\ Step(r).replacing # 0
                   /\ around[r] \subseteq {"opened"} =>
                         Lost(s) = {restore[r].bound[Step(r).replacing]}
  <1>1. ASSUME IInv, PlacesHold, NEW r \in Restorers, Applies(r), NEW s \in SessionNames
        PROVE  Spared(r, s)
    <2> SUFFICES ASSUME Lost(s) # {}
                 PROVE  /\ Step(r).op = "link" /\ Step(r).replacing # 0
                        /\ around[r] \subseteq {"opened"} =>
                              Lost(s) = {restore[r].bound[Step(r).replacing]}
      OBVIOUS
    <2>1. Step(r).op = "link" /\ LosesAt(r, s)
      BY <1>1, AppliesKeeps
    <2>2. ASSUME around[r] \subseteq {"opened"}
          PROVE  Lost(s) = {restore[r].bound[Step(r).replacing]}
      <3> DEFINE S == restore[r].steps
      <3>1. Step(r) = S[1] /\ 1 \in DOMAIN S
        <4>1. /\ IsSnapshot(snapshot) /\ Sound(S, DOMAIN restore[r].bound, snapshot, Known)
              /\ S # <<>> /\ Step(r) = Head(S)
          <5>1. ServerOK /\ PlanHolds(r)
            BY <1>1 DEF IInv, RestoreHolds
          <5>2. S # <<>>
            BY <1>1 DEF Applies, CreateSession, MoveWindow, NewWindow, LinkWindow, SplitPane,
                        SelectLayout, Fill, Stamp, SwitchClients, KillSession,
                        SelectWindow, MarkSession, MarkServer, Doing
          <5> QED
            BY <5>1, <5>2, RestoreAssumption DEF ServerOK, PlanHolds, Step
        <4> HIDE DEF S
        <4> QED
          BY <4>1, SoundTail
      <3>2. PutAlready(r, 1) \/ PutBefore(S, 1)
        BY <1>1, <2>1, <2>2, <3>1 DEF PlacesHold, PlaceHolds, Replacing, LosesAt
      <3>3. 1 .. 1 - 1 = {}
        OBVIOUS
      <3>4. ~ PutBefore(S, 1)
        BY <3>3 DEF PutBefore
      <3>5. IsThere(r, Step(r).session, Step(r).at, Step(r).replacing)
        BY <3>1, <3>2, <3>4 DEF PutAlready
      <3> QED
        BY <2>1, <3>5 DEF LosesAt, IsThere
    <2> QED
      BY <2>1, <2>2 DEF LosesAt
  <1>2. IInv /\ PlacesHold /\ [Next]_vars =>
           [\A r \in Restorers : Applies(r) => \A s \in SessionNames : Spared(r, s)]_vars
    BY <1>1
  <1> QED
    BY <1>2, Invariance, PlacesAreHeld, PTL DEF Spec, LiveIsKept

\* A restore that no other overlaps stamps no window as a saved one that some
\* window is stamped by already: it builds each once.
THEOREM BuiltOnlyOnce == Spec => BuiltOnce
  <1>1. IInv /\ [Next]_vars =>
           [\A r \in Restorers : Stamp(r) =>
               \/ "restored" \in around[r]
               \/ \A x \in DOMAIN server.made : server.made[x] # Step(r).saved]_vars
    BY StampKeeps
  <1> QED
    BY <1>1, Invariance, PTL DEF Spec, BuiltOnce

\* A restore never steps on a reference without a window: when a step comes to
\* run, the ids of all windows it names are bound (Bound::window's `expect`).
THEOREM ReferencesAreBound ==
    Spec => [](\A r \in Restorers : restore[r].steps # <<>> =>
                   Uses(Step(r)) \subseteq DOMAIN restore[r].bound)
  <1> DEFINE StepIsBound == \A r \in Restorers : restore[r].steps # <<>> =>
                                Uses(Step(r)) \subseteq DOMAIN restore[r].bound
  <1>1. IInv => StepIsBound
    <2> SUFFICES ASSUME IInv, NEW r \in Restorers, restore[r].steps # <<>>
                 PROVE  Uses(Step(r)) \subseteq DOMAIN restore[r].bound
      OBVIOUS
    <2> DEFINE S == restore[r].steps
               bound == DOMAIN restore[r].bound
               Stp == Steps(snapshot, Known)
    <2>1. BoundFirst(S, bound) /\ S \in Seq(Stp)
      BY DEF IInv, RestoreHolds, PlanHolds, Sound
    <2> HIDE DEF bound, Stp
    <2>2. 1 \in DOMAIN S /\ Step(r) = S[1]
      BY <2>1 DEF Step
    <2>3. \A j : j \notin 1 .. 1 - 1
      OBVIOUS
    <2>4. Uses(S[1]) \subseteq bound
      BY <2>1, <2>2, <2>3 DEF BoundFirst
    <2> QED
      BY <2>2, <2>4 DEF bound
  <1> HIDE DEF StepIsBound
  <1>2. Spec => []StepIsBound
    BY <1>1, Invariance, PTL
  <1> QED
    BY <1>2 DEF StepIsBound
=============================================================================
