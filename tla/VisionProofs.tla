---------------------------- MODULE VisionProofs ----------------------------
(***************************************************************************)
(* The two modules of the vision package.                                  *)
(*                                                                         *)
(* The top-view chain, for any places, limits and number of slots.  The    *)
(* tracks of a class are made by recursion over the detections of a frame, *)
(* so the proof begins with induction: a set of numbers up to n has a      *)
(* least element because finite sets are well founded under inclusion.     *)
(*                                                                         *)
(* The hand-over, for any line of positions, any length of the history and *)
(* any time a lock may outlive the hand.  What is called ready was seen    *)
(* lately because the frames since then are counted twice: by the node,    *)
(* from the first frame without a hand, and by the history variable; the   *)
(* two never drift apart by more than one while the lock holds.            *)
(***************************************************************************)
EXTENDS HandOver, ToolTracking, FiniteSetTheorems, WellFoundedInduction, TLAPS

----------------------------------------------------------------------------
(* Induction, from the well-foundedness of finite sets under inclusion *)

\* A set of numbers up to n has a least one.
LEMMA Least ==
  ASSUME NEW n \in Nat, NEW T, T \subseteq 0..n, T # {}
  PROVE  \E m \in T : \A k \in T : m <= k
<1> DEFINE Up  == {0..m : m \in T}
           Fin == FiniteSubsetsOf(0..n)
<1>1. Up \subseteq Fin
  <2> SUFFICES ASSUME NEW m \in T PROVE 0..m \in Fin
    OBVIOUS
  <2>1. 0..m \subseteq 0..n /\ IsFiniteSet(0..m)
    BY FS_Interval
  <2> QED BY <2>1 DEF FiniteSubsetsOf
<1>2. IsWellFoundedOn(StrictSubsetOrdering(0..n), Fin)
  BY FS_StrictSubsetOrderingWellFounded
<1>3. Up # {}
  OBVIOUS
<1> HIDE DEF Up, Fin
<1>4. PICK x \in Up : \A y \in Up : <<y, x>> \notin StrictSubsetOrdering(0..n)
  BY <1>1, <1>2, <1>3, WFMin
<1>5. PICK m \in T : x = 0..m
  BY <1>4 DEF Up
<1>6. ASSUME NEW k \in T, k < m PROVE FALSE
  <2>1. 0..k \in Up
    BY DEF Up
  <2>2. m \in 0..m /\ m \notin 0..k
    BY <1>6
  <2>3. 0..k \subseteq 0..m /\ 0..k # 0..m /\ 0..m \subseteq 0..n /\ 0..k \subseteq 0..n
    BY <2>2, <1>6
  <2>4. <<0..k, 0..m>> \in StrictSubsetOrdering(0..n)
    BY <2>3 DEF StrictSubsetOrdering
  <2> QED BY <2>1, <2>4, <1>4, <1>5
<1> QED BY <1>6

\* Induction up to n, over the set T of the numbers for which something holds.
LEMMA Induction ==
  ASSUME NEW n \in Nat, NEW T, 0 \in T, \A i \in 1..n : i - 1 \in T => i \in T
  PROVE  0..n \subseteq T
<1> DEFINE Rest == {i \in 0..n : i \notin T}
<1>1. CASE Rest = {}
  BY <1>1
<1>2. CASE Rest # {}
  <2>1. PICK m \in Rest : \A k \in Rest : m <= k
    BY <1>2, Least
  <2>2. m \in 1..n /\ m \notin T
    BY <2>1
  <2>3. m - 1 \in T
    BY <2>1, <2>2
  <2> QED BY <2>2, <2>3
<1> QED BY <1>1, <1>2

\* The steps of a recursion over S, and the function that they make of a base.
StepsOn(n, S) == [1..n -> [S -> S]]
Chain(g, n, S, base, step) ==
  g \in [0..n -> S] /\ g[0] = base /\ \A i \in 1..n : g[i] = step[i][g[i - 1]]

\* What is defined step by step exists.
LEMMA Recursion ==
  ASSUME NEW n \in Nat, NEW S, NEW base \in S, NEW step \in StepsOn(n, S)
  PROVE  \E g : Chain(g, n, S, base, step)
<1> DEFINE T == {m \in 0..n : \E g : Chain(g, m, S, base, step)}
<1>1. 0 \in T
  <2>1. Chain([i \in 0..0 |-> base], 0, S, base, step)
    BY DEF Chain
  <2> QED BY <2>1
<1>2. ASSUME NEW m \in 1..n, m - 1 \in T PROVE m \in T
  <2>1. PICK g : Chain(g, m - 1, S, base, step)
    BY <1>2
  <2> DEFINE h == [i \in 0..m |-> IF i = m THEN step[m][g[m - 1]] ELSE g[i]]
  <2>2. Chain(h, m, S, base, step)
    BY <2>1 DEF Chain, StepsOn
  <2> HIDE DEF h
  <2> QED BY <2>2
<1>3. n \in T
  <2> HIDE DEF T
  <2>1. 0..n \subseteq T
    BY <1>1, <1>2, Induction
  <2> QED BY <2>1
<1> QED BY <1>3

----------------------------------------------------------------------------
(* List comprehensions *)

\* The recursion in Only.
OnlySteps(only, s, I) ==
  only = [n \in 0..Len(s) |->
            IF n = 0 THEN <<>> ELSE IF n \in I THEN Append(only[n - 1], s[n]) ELSE only[n - 1]]

LEMMA OnlyExists ==
  ASSUME NEW S, NEW s \in Seq(S), NEW I
  PROVE  \E only : OnlySteps(only, s, I) /\ Only(s, I) = only[Len(s)]
<1> DEFINE step == [n \in 1..Len(s) |-> [x \in Seq(S) |-> IF n \in I THEN Append(x, s[n]) ELSE x]]
<1>1. <<>> \in Seq(S) /\ Len(s) \in Nat
  OBVIOUS
<1>2. step \in StepsOn(Len(s), Seq(S))
  BY DEF StepsOn
<1> HIDE DEF step
<1>3. PICK g : Chain(g, Len(s), Seq(S), <<>>, step)
  BY <1>1, <1>2, Recursion
<1>4. OnlySteps(g, s, I)
  <2>1. ASSUME NEW i \in 1..Len(s)
        PROVE  g[i] = IF i \in I THEN Append(g[i - 1], s[i]) ELSE g[i - 1]
    <3>1. g[i - 1] \in Seq(S) /\ g[i] = step[i][g[i - 1]]
      BY <1>3 DEF Chain
    <3> QED BY <3>1 DEF step
  <2>2. g = [i \in 0..Len(s) |-> g[i]] /\ g[0] = <<>>
    BY <1>3 DEF Chain
  <2>3. \A i \in 0..Len(s) : i # 0 => i \in 1..Len(s)
    OBVIOUS
  <2> QED BY <2>1, <2>2, <2>3 DEF OnlySteps
<1> DEFINE f == CHOOSE only : OnlySteps(only, s, I)
<1>6. OnlySteps(f, s, I)
  BY <1>4
<1>7. Only(s, I) = f[Len(s)]
  BY DEF Only, OnlySteps
<1> HIDE DEF f
<1> QED BY <1>6, <1>7

\* out is s at the positions of I: the positions it comes from, one by one and in order.
Selects(out, f, s, n, I) ==
  /\ f \in [1..Len(out) -> 1..n]
  /\ \A j \in 1..Len(out) : f[j] \in I /\ out[j] = s[f[j]]
  /\ \A j, k \in 1..Len(out) : j < k => f[j] < f[k]
  /\ \A i \in 1..n : i \in I => \E j \in 1..Len(out) : f[j] = i

\* Only selects: the elements at the positions of I, all of them and in order.
LEMMA OnlySelects ==
  ASSUME NEW S, NEW s \in Seq(S), NEW I
  PROVE  /\ Only(s, I) \in Seq(S) /\ Len(Only(s, I)) <= Len(s)
         /\ \E f : Selects(Only(s, I), f, s, Len(s), I)
<1>1. PICK only : OnlySteps(only, s, I) /\ Only(s, I) = only[Len(s)]
  BY OnlyExists
<1> DEFINE Good(n) == /\ only[n] \in Seq(S) /\ Len(only[n]) <= n
                      /\ \E f : Selects(only[n], f, s, n, I)
           T == {n \in 0..Len(s) : Good(n)}
<1>2. Len(s) \in Nat
  OBVIOUS
<1>3. 0 \in T
  <2>1. only[0] = <<>>
    BY <1>1, <1>2 DEF OnlySteps
  <2>2. Selects(<<>>, [j \in 1..0 |-> 0], s, 0, I)
    BY DEF Selects
  <2>3. <<>> \in Seq(S) /\ Len(<<>>) <= 0
    OBVIOUS
  <2>4. Good(0)
    BY <2>1, <2>2, <2>3
  <2> HIDE DEF Good
  <2> QED BY <1>2, <2>4
<1>4. ASSUME NEW n \in 1..Len(s), n - 1 \in T PROVE n \in T
  <2> DEFINE old == only[n - 1]
  <2>1. /\ old \in Seq(S) /\ Len(old) <= n - 1
        /\ only[n] = IF n \in I THEN Append(old, s[n]) ELSE old
    <3>1. old \in Seq(S) /\ Len(old) <= n - 1
      BY <1>4
    <3>2. n \in 0..Len(s) /\ n # 0
      BY <1>2
    <3>3. only[n] = IF n \in I THEN Append(old, s[n]) ELSE old
      BY <1>1, <3>2 DEF OnlySteps
    <3> QED BY <3>1, <3>3
  <2>2. PICK f : Selects(old, f, s, n - 1, I)
    BY <1>4
  <2>3. s[n] \in S /\ n \in Nat \ {0} /\ Len(old) \in Nat
    BY <2>1
  <2> HIDE DEF old
  <2>4. CASE n \notin I
    <3>1. Selects(old, f, s, n, I)
      BY <2>2, <2>3, <2>4 DEF Selects
    <3>2. only[n] = old
      BY <2>1, <2>4
    <3> QED BY <2>1, <2>3, <3>1, <3>2
  <2>5. CASE n \in I
    <3> DEFINE new == Append(old, s[n])
               h == [j \in 1..Len(old) + 1 |-> IF j = Len(old) + 1 THEN n ELSE f[j]]
    <3>1. /\ new \in Seq(S) /\ Len(new) = Len(old) + 1 /\ new[Len(old) + 1] = s[n]
          /\ \A j \in 1..Len(old) : new[j] = old[j]
      BY <2>1, <2>3
    <3> HIDE DEF new
    <3>2. /\ f \in [1..Len(old) -> 1..n - 1]
          /\ \A j \in 1..Len(old) : f[j] \in I /\ old[j] = s[f[j]]
          /\ \A j, k \in 1..Len(old) : j < k => f[j] < f[k]
          /\ \A i \in 1..n - 1 : i \in I => \E j \in 1..Len(old) : f[j] = i
      BY <2>2 DEF Selects
    <3>3. h[Len(old) + 1] = n /\ \A j \in 1..Len(old) : h[j] = f[j]
      BY <2>3
    <3>4. h \in [1..Len(new) -> 1..n]
      BY <2>3, <3>1, <3>2
    <3> HIDE DEF h
    <3>5. \A j \in 1..Len(new) : h[j] \in I /\ new[j] = s[h[j]]
      BY <2>3, <2>5, <3>1, <3>2, <3>3
    <3>6. \A j, k \in 1..Len(new) : j < k => h[j] < h[k]
      <4> SUFFICES ASSUME NEW j \in 1..Len(new), NEW k \in 1..Len(new), j < k
                   PROVE  h[j] < h[k]
        OBVIOUS
      <4>1. j \in 1..Len(old) /\ h[j] = f[j] /\ f[j] \in 1..n - 1
        BY <2>3, <3>1, <3>2, <3>3
      <4>2. CASE k = Len(old) + 1
        BY <4>1, <4>2, <2>3, <3>3
      <4>3. CASE k # Len(old) + 1
        <5>1. k \in 1..Len(old)
          BY <4>3, <2>3, <3>1
        <5> QED BY <4>1, <5>1, <3>2, <3>3
      <4> QED BY <4>2, <4>3
    <3>7. \A i \in 1..n : i \in I => \E j \in 1..Len(new) : h[j] = i
      <4> SUFFICES ASSUME NEW i \in 1..n, i \in I PROVE \E j \in 1..Len(new) : h[j] = i
        OBVIOUS
      <4>1. CASE i = n
        BY <4>1, <2>3, <3>1, <3>3
      <4>2. CASE i # n
        <5>1. PICK j \in 1..Len(old) : f[j] = i
          BY <4>2, <2>3, <3>2
        <5> QED BY <5>1, <2>3, <3>1, <3>3
      <4> QED BY <4>1, <4>2
    <3>8. Selects(new, h, s, n, I)
      BY <3>4, <3>5, <3>6, <3>7 DEF Selects
    <3>9. only[n] = new
      BY <2>1, <2>5 DEF new
    <3> QED BY <2>1, <2>3, <3>1, <3>8, <3>9
  <2> QED BY <2>4, <2>5
<1> HIDE DEF T
<1>5. 0..Len(s) \subseteq T
  BY <1>2, <1>3, <1>4, Induction
<1>6. Len(s) \in T
  BY <1>2, <1>5
<1> QED BY <1>1, <1>6 DEF T

\* What is left when one is selected.
LEMMA OnlyOne ==
  ASSUME NEW S, NEW s \in Seq(S), NEW I, NEW i \in 1..Len(s), i \in I,
         \A j \in 1..Len(s) : j \in I => j = i
  PROVE  Len(Only(s, I)) = 1 /\ Only(s, I)[1] = s[i]
<1>1. PICK f : Selects(Only(s, I), f, s, Len(s), I)
  BY OnlySelects
<1>2. Len(Only(s, I)) \in Nat
  BY OnlySelects
<1>3. PICK j \in 1..Len(Only(s, I)) : f[j] = i
  BY <1>1 DEF Selects
<1>4. \A k \in 1..Len(Only(s, I)) : f[k] = i /\ Only(s, I)[k] = s[i]
  BY <1>1 DEF Selects
<1>5. \A k \in 1..Len(Only(s, I)) : k = j
  <2> SUFFICES ASSUME NEW k \in 1..Len(Only(s, I)), k # j PROVE FALSE
    OBVIOUS
  <2>1. k < j \/ j < k
    BY <1>2
  <2> QED BY <2>1, <1>1, <1>4 DEF Selects
<1>6. Len(Only(s, I)) = 1
  <2> DEFINE len == Len(Only(s, I))
  <2>1. 1 \in 1..len /\ len \in 1..len
    BY <1>2
  <2>2. 1 = j /\ len = j
    BY <1>5, <2>1
  <2> QED BY <2>2
<1> QED BY <1>4, <1>6

----------------------------------------------------------------------------
(* The tracks of one class, and one detection *)

\* How far the mean still is from where the tool is detected, d before.
Nearer(d) == (7 * d + 5) \div 10

LEMMA DistType == ASSUME NEW a \in Nat, NEW b \in Nat PROVE Dist(a, b) \in Nat
BY DEF Dist

LEMMA SmoothedNears ==
  ASSUME NEW old \in Nat, NEW p \in Nat
  PROVE  /\ Smoothed(old, p) \in Nat
         /\ Dist(Smoothed(old, p), p) <= Nearer(Dist(old, p))
         /\ Dist(Smoothed(old, p), p) <= Dist(old, p)
BY DEF Smoothed, Dist, Nearer

LEMMA NearerGrows ==
  ASSUME NEW a \in Nat, NEW b \in Nat, a <= b
  PROVE  Nearer(a) \in Nat /\ Nearer(a) <= Nearer(b) /\ Nearer(a) <= a
BY DEF Nearer

LEMMA Limits ==
  /\ MinHits \in Nat /\ MinHits > 1 /\ MaxMisses \in Nat \ {0} /\ MaxDist \in Nat \ {0}
  /\ Memory \in Nat /\ Memory >= MinHits /\ Memory >= MaxMisses + 1
BY LimitsAssumption, HitsAssumption DEF Memory

LEMMA UpdatedIs ==
  ASSUME NEW k \in Track, NEW p \in Nat
  PROVE  /\ Updated(k, p) \in Track
         /\ Updated(k, p).misses = 0
         /\ Updated(k, p).at = Smoothed(k.at, p)
         /\ Updated(k, p).hits = IF k.hits < MinHits THEN k.hits + 1 ELSE MinHits
         /\ Updated(k, p).confirmed <=> k.confirmed \/ Updated(k, p).hits >= MinHits
<1>1. Smoothed(k.at, p) \in Nat
  BY SmoothedNears DEF Track
<1>2. (IF k.hits < MinHits THEN k.hits + 1 ELSE MinHits) \in 0..MinHits
  BY Limits DEF Track
<1> DEFINE h == IF k.hits < MinHits THEN k.hits + 1 ELSE MinHits
           c == k.confirmed \/ h >= MinHits
<1>3. Updated(k, p) = [at |-> Smoothed(k.at, p), hits |-> h, misses |-> 0, confirmed |-> c]
  BY DEF Updated
<1>4. c \in BOOLEAN /\ 0 \in 0..MaxMisses /\ h \in 0..MinHits
  BY <1>2, Limits
<1> HIDE DEF c, h
<1>5. Updated(k, p) \in Track
  BY <1>1, <1>3, <1>4 DEF Track
<1>6. /\ Updated(k, p).misses = 0 /\ Updated(k, p).at = Smoothed(k.at, p)
      /\ Updated(k, p).hits = h /\ Updated(k, p).confirmed = c
  BY <1>3
<1>7. Updated(k, p).confirmed <=> k.confirmed \/ Updated(k, p).hits >= MinHits
  BY <1>6 DEF c
<1> QED BY <1>5, <1>6, <1>7 DEF h

LEMMA NewTrackIs ==
  ASSUME NEW p \in Nat
  PROVE  NewTrack(p) \in Track
BY Limits DEF NewTrack, Track

LEMMA AtIsNat ==
  ASSUME NEW ts \in Seq(Track), NEW i \in 1..Len(ts)
  PROVE  ts[i] \in Track /\ ts[i].at \in Nat
<1>1. ts[i] \in Track
  OBVIOUS
<1> QED BY <1>1 DEF Track

\* Track i of ts comes before track j where the nearest to p is looked for.
Before(ts, i, j, p) ==
  \/ Dist(ts[i].at, p) < Dist(ts[j].at, p)
  \/ Dist(ts[i].at, p) = Dist(ts[j].at, p) /\ i <= j

\* Closest finds a track, and none is nearer.
LEMMA ClosestIs ==
  ASSUME NEW ts \in Seq(Track), ts # <<>>, NEW p \in Nat
  PROVE  Closest(ts, p) \in 1..Len(ts) /\ \A j \in 1..Len(ts) : Before(ts, Closest(ts, p), j, p)
<1> DEFINE d(j) == Dist(ts[j].at, p)
           Places1 == {n \in 0..d(1) : \E j \in 1..Len(ts) : d(j) = n}
<1>1. Len(ts) \in Nat /\ 1 \in 1..Len(ts) /\ DOMAIN ts = 1..Len(ts)
  OBVIOUS
<1>2. \A j \in 1..Len(ts) : d(j) \in Nat
  <2>1. \A j \in 1..Len(ts) : ts[j].at \in Nat
    BY AtIsNat
  <2> QED BY <2>1, DistType
<1> HIDE DEF d
<1>3. d(1) \in Nat /\ d(1) \in Places1
  BY <1>1, <1>2
<1>4. PICK m \in Places1 : \A n \in Places1 : m <= n
  <2> HIDE DEF Places1
  <2>1. Places1 # {} /\ Places1 \subseteq 0..d(1)
    BY <1>3 DEF Places1
  <2> QED BY <1>3, <2>1, Least
<1>5. \A j \in 1..Len(ts) : m <= d(j)
  <2> SUFFICES ASSUME NEW j \in 1..Len(ts) PROVE m <= d(j)
    OBVIOUS
  <2>1. CASE d(j) <= d(1)
    BY <1>2, <1>4, <2>1
  <2>2. CASE d(1) < d(j)
    BY <1>2, <1>3, <1>4, <2>2
  <2> QED BY <1>2, <1>3, <2>1, <2>2
<1> DEFINE first == {j \in 1..Len(ts) : d(j) = m}
<1>6. first # {} /\ first \subseteq 0..Len(ts)
  BY <1>4
<1>7. PICK i \in first : \A j \in first : i <= j
  <2> HIDE DEF first
  <2> QED BY <1>1, <1>6, Least
<1>8. i \in DOMAIN ts /\ \A j \in DOMAIN ts : d(i) < d(j) \/ (d(i) = d(j) /\ i <= j)
  <2> SUFFICES ASSUME NEW j \in DOMAIN ts PROVE d(i) < d(j) \/ (d(i) = d(j) /\ i <= j)
    BY <1>1, <1>7
  <2>1. CASE d(j) = m
    BY <1>1, <1>7, <2>1
  <2>2. CASE d(j) # m
    BY <1>1, <1>2, <1>4, <1>5, <1>7, <2>2
  <2> QED BY <2>1, <2>2
<1> DEFINE Best(k) == k \in DOMAIN ts /\ \A j \in DOMAIN ts : d(k) < d(j) \/ (d(k) = d(j) /\ k <= j)
<1>9. Closest(ts, p) = CHOOSE k \in DOMAIN ts :
                         \A j \in DOMAIN ts : d(k) < d(j) \/ (d(k) = d(j) /\ k <= j)
  BY DEF Closest, d
<1>10. Best(Closest(ts, p))
  <2> QED BY <1>8, <1>9
<1> QED BY <1>1, <1>10 DEF Before, d

\* The closest is the only track that comes before all others.
LEMMA ClosestIsOne ==
  ASSUME NEW ts \in Seq(Track), NEW p \in Nat, NEW i \in 1..Len(ts),
         \A j \in 1..Len(ts) : Before(ts, i, j, p)
  PROVE  ts # <<>> /\ Closest(ts, p) = i
<1>1. ts # <<>>
  OBVIOUS
<1> DEFINE c == Closest(ts, p)
<1>2. c \in 1..Len(ts) /\ Before(ts, c, i, p) /\ Before(ts, i, c, p)
  BY <1>1, ClosestIs
<1>3. Dist(ts[i].at, p) \in Nat /\ Dist(ts[c].at, p) \in Nat
  <2> HIDE DEF c
  <2> QED BY <1>2, AtIsNat, DistType
<1> HIDE DEF c
<1>4. c = i
  BY <1>2, <1>3 DEF Before
<1> QED BY <1>1, <1>4 DEF c

\* What the detections of a frame are associated with.
Accs == [tracks : Seq(Track), matched : SUBSET Nat]

\* What a detection at p does to the tracks and to the set of those matched: it
\* updates the nearest, near enough, or makes a new one.
Updates(acc, next, p, i) ==
  /\ acc.tracks # <<>> /\ i = Closest(acc.tracks, p) /\ i \in 1..Len(acc.tracks)
  /\ Dist(acc.tracks[i].at, p) < MaxDist
  /\ Len(next.tracks) = Len(acc.tracks)
  /\ next.tracks[i] = Updated(acc.tracks[i], p)
  /\ \A j \in 1..Len(acc.tracks) : j # i => next.tracks[j] = acc.tracks[j]
  /\ next.matched = acc.matched \cup {i}

\* It is too far from all, or there is none: a new one is made.
Adds(acc, next, p) ==
  /\ acc.tracks # <<>> => ~(Dist(acc.tracks[Closest(acc.tracks, p)].at, p) < MaxDist)
  /\ Len(next.tracks) = Len(acc.tracks) + 1
  /\ next.tracks[Len(acc.tracks) + 1] = NewTrack(p)
  /\ \A j \in 1..Len(acc.tracks) : next.tracks[j] = acc.tracks[j]
  /\ next.matched = acc.matched \cup {Len(acc.tracks) + 1}

\* A detection updates the nearest track or adds one; nothing else.
LEMMA AssociateIs ==
  ASSUME NEW acc \in Accs, NEW p \in Nat
  PROVE  /\ Associate(acc, p) \in Accs
         /\ \/ \E i \in Nat : Updates(acc, Associate(acc, p), p, i)
            \/ Adds(acc, Associate(acc, p), p)
<1> DEFINE ts == acc.tracks
           i == Closest(ts, p)
           near == ts # <<>> /\ Dist(ts[i].at, p) < MaxDist
<1>1. ts \in Seq(Track) /\ acc.matched \in SUBSET Nat /\ Len(ts) \in Nat
  BY DEF Accs
<1>2. Associate(acc, p) =
        IF near THEN [tracks |-> [ts EXCEPT ![i] = Updated(ts[i], p)], matched |-> acc.matched \cup {i}]
        ELSE [tracks |-> Append(ts, NewTrack(p)), matched |-> acc.matched \cup {Len(ts) + 1}]
  BY DEF Associate
<1>3. CASE near
  <2>1. i \in 1..Len(ts)
    BY <1>1, <1>3, ClosestIs
  <2> DEFINE new == [ts EXCEPT ![i] = Updated(ts[i], p)]
  <2>2. Associate(acc, p) = [tracks |-> new, matched |-> acc.matched \cup {i}]
    BY <1>2, <1>3
  <2>3. ts # <<>> /\ Dist(ts[i].at, p) < MaxDist
    BY <1>3
  <2>4. ts[i] \in Track /\ Updated(ts[i], p) \in Track
    BY <1>1, <2>1, AtIsNat, UpdatedIs
  <2> HIDE DEF i
  <2>5. /\ new \in Seq(Track) /\ Len(new) = Len(ts) /\ new[i] = Updated(ts[i], p)
        /\ \A j \in 1..Len(ts) : j # i => new[j] = ts[j]
    BY <1>1, <2>1, <2>4
  <2> HIDE DEF new
  <2>6. Associate(acc, p) \in Accs
    BY <1>1, <2>1, <2>2, <2>5 DEF Accs
  <2>7. Updates(acc, Associate(acc, p), p, i)
    BY <2>1, <2>2, <2>3, <2>5 DEF Updates, i
  <2>8. i \in Nat
    BY <1>1, <2>1
  <2> QED BY <2>6, <2>7, <2>8
<1>4. CASE ~near
  <2> DEFINE new == Append(ts, NewTrack(p))
  <2>1. Associate(acc, p) = [tracks |-> new, matched |-> acc.matched \cup {Len(ts) + 1}]
    BY <1>2, <1>4
  <2>2. NewTrack(p) \in Track
    BY NewTrackIs
  <2>3. /\ new \in Seq(Track) /\ Len(new) = Len(ts) + 1 /\ new[Len(ts) + 1] = NewTrack(p)
        /\ \A j \in 1..Len(ts) : new[j] = ts[j]
    BY <1>1, <2>2
  <2>4. ts # <<>> => ~(Dist(ts[i].at, p) < MaxDist)
    BY <1>4
  <2> HIDE DEF new
  <2>5. Associate(acc, p) \in Accs
    BY <1>1, <2>1, <2>3 DEF Accs
  <2>6. Adds(acc, Associate(acc, p), p)
    BY <2>1, <2>3, <2>4 DEF Adds
  <2> QED BY <2>5, <2>6
<1> QED BY <1>3, <1>4

----------------------------------------------------------------------------
(* The detections of a frame *)

\* The recursion in Associated.
AssociatedSteps(after, ts, dets) ==
  after = [n \in 0..Len(dets) |->
             IF n = 0 THEN [tracks |-> ts, matched |-> {}] ELSE Associate(after[n - 1], dets[n])]

LEMMA AssociatedExists ==
  ASSUME NEW ts \in Seq(Track), NEW dets \in Seq(Nat)
  PROVE  \E after : AssociatedSteps(after, ts, dets) /\ Associated(ts, dets) = after[Len(dets)]
<1> DEFINE step == [n \in 1..Len(dets) |-> [acc \in Accs |-> Associate(acc, dets[n])]]
           base == [tracks |-> ts, matched |-> {}]
<1>1. base \in Accs /\ Len(dets) \in Nat
  BY DEF Accs
<1>2. step \in StepsOn(Len(dets), Accs)
  BY AssociateIs DEF StepsOn
<1> HIDE DEF step, base
<1>3. PICK g : Chain(g, Len(dets), Accs, base, step)
  BY <1>1, <1>2, Recursion
<1>4. AssociatedSteps(g, ts, dets)
  <2>1. ASSUME NEW i \in 1..Len(dets)
        PROVE  g[i] = Associate(g[i - 1], dets[i])
    <3>1. i - 1 \in 0..Len(dets)
      BY <1>1
    <3>2. g[i - 1] \in Accs /\ g[i] = step[i][g[i - 1]]
      BY <1>3, <3>1 DEF Chain
    <3> QED BY <3>2 DEF step
  <2>2. g = [i \in 0..Len(dets) |-> g[i]] /\ g[0] = base
    BY <1>3 DEF Chain
  <2>3. \A i \in 0..Len(dets) : i # 0 => i \in 1..Len(dets)
    OBVIOUS
  <2> QED BY <2>1, <2>2, <2>3 DEF AssociatedSteps, base
<1> DEFINE f == CHOOSE after : AssociatedSteps(after, ts, dets)
<1>5. AssociatedSteps(f, ts, dets)
  BY <1>4
<1>6. Associated(ts, dets) = f[Len(dets)]
  BY DEF Associated, AssociatedSteps
<1> HIDE DEF f
<1> QED BY <1>5, <1>6

\* Tracks that were matched were seen near where they are; the others are the old ones.
MatchedWereSeen(acc, ts, dets) ==
  /\ acc \in Accs /\ Len(ts) <= Len(acc.tracks)
  /\ \A i \in 1..Len(acc.tracks) :
       IF i \in acc.matched
       THEN /\ acc.tracks[i].misses = 0
            /\ \E n \in 1..Len(dets) : Dist(dets[n], acc.tracks[i].at) < MaxDist
       ELSE i <= Len(ts) /\ acc.tracks[i] = ts[i]

\* Enough hits are a confirmation.
HitsConfirm(ts) == \A i \in 1..Len(ts) : ts[i].hits >= MinHits => ts[i].confirmed

LEMMA DistSymmetric == ASSUME NEW a \in Nat, NEW b \in Nat PROVE Dist(a, b) = Dist(b, a)
BY DEF Dist

LEMMA AssociateKeeps ==
  ASSUME NEW ts \in Seq(Track), NEW dets \in Seq(Nat), NEW n \in 1..Len(dets),
         NEW acc, MatchedWereSeen(acc, ts, dets), HitsConfirm(acc.tracks)
  PROVE  /\ MatchedWereSeen(Associate(acc, dets[n]), ts, dets)
         /\ HitsConfirm(Associate(acc, dets[n]).tracks)
<1> DEFINE p == dets[n]
           next == Associate(acc, p)
<1>1. /\ p \in Nat /\ acc \in Accs /\ acc.tracks \in Seq(Track)
      /\ Len(ts) \in Nat /\ Len(acc.tracks) \in Nat
  BY DEF MatchedWereSeen, Accs
<1>2. next \in Accs
  BY <1>1, AssociateIs
<1>3. ASSUME NEW i \in Nat, Updates(acc, next, p, i)
      PROVE  MatchedWereSeen(next, ts, dets) /\ HitsConfirm(next.tracks)
  <2> HIDE DEF next, p
  <2> DEFINE old == acc.tracks[i]
  <2>1. i \in 1..Len(acc.tracks) /\ Dist(old.at, p) < MaxDist /\ next.tracks[i] = Updated(old, p)
    BY <1>3 DEF Updates
  <2>2. old \in Track /\ old.at \in Nat
    BY <1>1, <2>1, AtIsNat
  <2> HIDE DEF old
  <2>3. /\ next.tracks[i].misses = 0 /\ next.tracks[i].at = Smoothed(old.at, p)
        /\ next.tracks[i].hits >= MinHits => next.tracks[i].confirmed
    BY <1>1, <2>1, <2>2, UpdatedIs
  <2>4. Smoothed(old.at, p) \in Nat /\ Dist(Smoothed(old.at, p), p) <= Dist(old.at, p)
    BY <1>1, <2>2, SmoothedNears
  <2>5. Dist(p, Smoothed(old.at, p)) < MaxDist
    <3> DEFINE q == Smoothed(old.at, p)
    <3> HIDE DEF q
    <3>1. q \in Nat /\ Dist(q, p) <= Dist(old.at, p)
      BY <2>4 DEF q
    <3>2. Dist(p, q) = Dist(q, p) /\ Dist(q, p) \in Nat /\ Dist(old.at, p) \in Nat
      BY <1>1, <2>2, <3>1, DistSymmetric, DistType
    <3>3. Dist(p, q) < MaxDist
      BY <2>1, <3>1, <3>2, Limits
    <3> QED BY <3>3 DEF q
  <2>6. \A j \in 1..Len(acc.tracks) :
          j # i => next.tracks[j] = acc.tracks[j] /\ (j \in next.matched <=> j \in acc.matched)
    BY <1>3 DEF Updates
  <2>7. Len(next.tracks) = Len(acc.tracks) /\ i \in next.matched
    BY <1>3 DEF Updates
  <2>8. MatchedWereSeen(next, ts, dets)
    <3>1. ASSUME NEW j \in 1..Len(next.tracks)
          PROVE  IF j \in next.matched
                 THEN /\ next.tracks[j].misses = 0
                      /\ \E k \in 1..Len(dets) : Dist(dets[k], next.tracks[j].at) < MaxDist
                 ELSE j <= Len(ts) /\ next.tracks[j] = ts[j]
      <4>1. CASE j = i
        BY <2>3, <2>5, <2>7, <4>1 DEF p
      <4>2. CASE j # i
        <5>1. /\ j \in 1..Len(acc.tracks) /\ next.tracks[j] = acc.tracks[j]
              /\ j \in next.matched <=> j \in acc.matched
          BY <2>6, <2>7, <4>2
        <5> QED BY <5>1 DEF MatchedWereSeen
      <4> QED BY <4>1, <4>2
    <3>2. next \in Accs /\ Len(ts) <= Len(next.tracks)
      BY <1>2, <2>7 DEF MatchedWereSeen
    <3> QED BY <3>1, <3>2 DEF MatchedWereSeen
  <2>9. HitsConfirm(next.tracks)
    BY <1>1, <2>3, <2>6, <2>7 DEF HitsConfirm
  <2> QED BY <2>8, <2>9
<1>4. ASSUME Adds(acc, next, p)
      PROVE  MatchedWereSeen(next, ts, dets) /\ HitsConfirm(next.tracks)
  <2> HIDE DEF next, p
  <2> DEFINE m == Len(acc.tracks) + 1
  <2>1. /\ Len(next.tracks) = m /\ next.tracks[m] = NewTrack(p) /\ m \in next.matched
        /\ \A j \in 1..Len(acc.tracks) :
             next.tracks[j] = acc.tracks[j] /\ (j \in next.matched <=> j \in acc.matched)
    <3>1. /\ Len(next.tracks) = m /\ next.tracks[m] = NewTrack(p)
          /\ \A j \in 1..Len(acc.tracks) : next.tracks[j] = acc.tracks[j]
          /\ next.matched = acc.matched \cup {m}
      BY <1>4 DEF Adds
    <3>2. \A j \in 1..Len(acc.tracks) : j # m
      BY <1>1
    <3> HIDE DEF m
    <3> QED BY <3>1, <3>2
  <2>2. next.tracks[m].misses = 0 /\ next.tracks[m].at = p /\ next.tracks[m].hits = 1
    BY <2>1 DEF NewTrack
  <2>3. Dist(p, p) < MaxDist
    BY <1>1, Limits DEF Dist
  <2>4. m \in Nat /\ Len(ts) <= m /\ \A j \in 1..m : j = m \/ j \in 1..Len(acc.tracks)
    <3>1. Len(ts) <= Len(acc.tracks)
      BY DEF MatchedWereSeen
    <3>2. m \in Nat /\ Len(ts) <= m
      BY <1>1, <3>1
    <3>3. \A j \in 1..m : j = m \/ j \in 1..Len(acc.tracks)
      <4> DEFINE len == Len(acc.tracks)
      <4>1. len \in Nat /\ m = len + 1
        BY <1>1
      <4> HIDE DEF len, m
      <4>2. \A j \in 1..m : j = m \/ j \in 1..len
        BY <4>1
      <4> QED BY <4>2 DEF len
    <3> QED BY <3>2, <3>3
  <2> HIDE DEF m
  <2>5. MatchedWereSeen(next, ts, dets)
    <3>1. ASSUME NEW j \in 1..m
          PROVE  IF j \in next.matched
                 THEN /\ next.tracks[j].misses = 0
                      /\ \E k \in 1..Len(dets) : Dist(dets[k], next.tracks[j].at) < MaxDist
                 ELSE j <= Len(ts) /\ next.tracks[j] = ts[j]
      <4>1. CASE j = m
        BY <4>1, <2>1, <2>2, <2>3 DEF p
      <4>2. CASE j \in 1..Len(acc.tracks)
        BY <4>2, <2>1 DEF MatchedWereSeen
      <4> QED BY <2>4, <4>1, <4>2
    <3> QED BY <1>2, <2>1, <2>4, <3>1 DEF MatchedWereSeen
  <2>6. HitsConfirm(next.tracks)
    <3>1. ASSUME NEW j \in 1..m, next.tracks[j].hits >= MinHits
          PROVE  next.tracks[j].confirmed
      <4>1. j # m
        BY <3>1, <2>2, Limits
      <4> QED BY <4>1, <3>1, <2>1, <2>4 DEF HitsConfirm
    <3> QED BY <2>1, <3>1 DEF HitsConfirm
  <2> QED BY <2>5, <2>6
<1> HIDE DEF next, p
<1>5. (\E i \in Nat : Updates(acc, next, p, i)) \/ Adds(acc, next, p)
  BY <1>1, AssociateIs DEF next
<1> QED BY <1>3, <1>4, <1>5 DEF next, p

\* So it is after all detections of a frame.
LEMMA AssociatedKeeps ==
  ASSUME NEW ts \in Seq(Track), NEW dets \in Seq(Nat), HitsConfirm(ts)
  PROVE  /\ MatchedWereSeen(Associated(ts, dets), ts, dets)
         /\ HitsConfirm(Associated(ts, dets).tracks)
<1>1. PICK after : AssociatedSteps(after, ts, dets) /\ Associated(ts, dets) = after[Len(dets)]
  BY AssociatedExists
<1> DEFINE T == {n \in 0..Len(dets) : MatchedWereSeen(after[n], ts, dets) /\ HitsConfirm(after[n].tracks)}
<1>2. Len(dets) \in Nat
  OBVIOUS
<1>3. 0 \in T
  <2>1. after[0] = [tracks |-> ts, matched |-> {}]
    BY <1>1, <1>2 DEF AssociatedSteps
  <2>2. MatchedWereSeen(after[0], ts, dets)
    BY <2>1 DEF MatchedWereSeen, Accs
  <2> QED BY <1>2, <2>1, <2>2
<1>4. ASSUME NEW n \in 1..Len(dets), n - 1 \in T PROVE n \in T
  <2>1. n \in 0..Len(dets) /\ n # 0
    BY <1>2
  <2>2. after[n] = Associate(after[n - 1], dets[n])
    BY <1>1, <2>1 DEF AssociatedSteps
  <2> QED BY <1>4, <2>1, <2>2, AssociateKeeps
<1> HIDE DEF T
<1>5. 0..Len(dets) \subseteq T
  BY <1>2, <1>3, <1>4, Induction
<1> QED BY <1>1, <1>2, <1>5 DEF T

LEMMA HitsAreNat ==
  ASSUME NEW ts \in Seq(Track), NEW i \in 1..Len(ts)
  PROVE  ts[i].hits \in 0..MinHits /\ ts[i].hits \in Nat
<1>1. ts[i] \in Track
  OBVIOUS
<1>2. ts[i].hits \in 0..MinHits
  BY <1>1 DEF Track
<1> QED BY <1>2, Limits

\* Only track i of acc was matched by the detections at p, and it is the nearest;
\* and if a track of ts was the nearest and near, it is that one.
Single(acc, ts, p, i) ==
  /\ acc.matched = {i} /\ i \in 1..Len(acc.tracks)
  /\ \A j \in 1..Len(acc.tracks) : Before(acc.tracks, i, j, p)
  /\ acc.tracks[i].hits >= 1
  /\ Dist(acc.tracks[i].at, p) <= Nearer(MaxDist - 1)
  /\ \A k \in 1..Len(ts) :
       Dist(ts[k].at, p) < MaxDist /\ (\A j \in 1..Len(ts) : Before(ts, k, j, p))
       => /\ i = k
          /\ Dist(acc.tracks[i].at, p) <= Nearer(Dist(ts[k].at, p))
          /\ acc.tracks[i].hits >= MinHits \/ acc.tracks[i].hits > ts[k].hits

\* One more detection at p leaves the nearest track the nearest.
LEMMA UpdatesKeepOrder ==
  ASSUME NEW acc \in Accs, NEW next \in Accs, NEW p \in Nat, NEW i \in Nat, Updates(acc, next, p, i)
  PROVE  /\ i \in 1..Len(next.tracks)
         /\ \A j \in 1..Len(next.tracks) : Before(next.tracks, i, j, p)
         /\ next.tracks[i].hits >= 1
         /\ next.tracks[i].hits >= MinHits \/ next.tracks[i].hits = acc.tracks[i].hits + 1
         /\ Dist(next.tracks[i].at, p) <= Nearer(Dist(acc.tracks[i].at, p))
         /\ Dist(acc.tracks[i].at, p) \in Nat /\ Dist(next.tracks[i].at, p) \in Nat
<1> DEFINE old == acc.tracks[i]
           new == next.tracks[i]
<1>1. /\ acc.tracks \in Seq(Track) /\ acc.tracks # <<>> /\ i = Closest(acc.tracks, p)
      /\ i \in 1..Len(acc.tracks) /\ Len(next.tracks) = Len(acc.tracks) /\ new = Updated(old, p)
      /\ \A j \in 1..Len(acc.tracks) : j # i => next.tracks[j] = acc.tracks[j]
  BY DEF Updates, Accs
<1>2. old \in Track /\ old.at \in Nat
  BY <1>1, AtIsNat
<1> HIDE DEF old, new
<1>3. /\ new.at = Smoothed(old.at, p)
      /\ new.hits = IF old.hits < MinHits THEN old.hits + 1 ELSE MinHits
  BY <1>1, <1>2, UpdatedIs
<1>4. /\ Smoothed(old.at, p) \in Nat
      /\ Dist(Smoothed(old.at, p), p) <= Nearer(Dist(old.at, p))
      /\ Dist(Smoothed(old.at, p), p) <= Dist(old.at, p)
  BY <1>2, SmoothedNears
<1>5. Dist(old.at, p) \in Nat /\ Dist(new.at, p) \in Nat
  BY <1>2, <1>3, <1>4, DistType
<1>6. new.hits >= 1 /\ (new.hits >= MinHits \/ new.hits = old.hits + 1)
  BY <1>2, <1>3, Limits DEF Track
<1>7. \A j \in 1..Len(acc.tracks) : Before(acc.tracks, i, j, p)
  BY <1>1, ClosestIs
<1>8. ASSUME NEW j \in 1..Len(next.tracks) PROVE Before(next.tracks, i, j, p)
  <2>1. CASE j = i
    BY <2>1, <1>1 DEF Before
  <2>2. CASE j # i
    <3>1. next.tracks[j] = acc.tracks[j] /\ Before(acc.tracks, i, j, p)
      BY <2>2, <1>1, <1>7
    <3> DEFINE d == Dist(acc.tracks[j].at, p)
    <3>2. d \in Nat
      BY <1>1, AtIsNat, DistType
    <3>3. Dist(next.tracks[j].at, p) = d
      BY <3>1
    <3>4. Dist(old.at, p) < d \/ (Dist(old.at, p) = d /\ i <= j)
      BY <3>1 DEF Before, old
    <3> HIDE DEF d
    <3>5. Dist(new.at, p) < d \/ (Dist(new.at, p) = d /\ i <= j)
      BY <1>3, <1>4, <1>5, <3>2, <3>4
    <3> QED BY <3>3, <3>5 DEF Before, new
  <2> QED BY <2>1, <2>2
<1> QED BY <1>1, <1>3, <1>4, <1>5, <1>6, <1>8 DEF old, new

\* After the first detection of the frame.
LEMMA FirstIsSingle ==
  ASSUME NEW ts \in Seq(Track), NEW p \in Nat
  PROVE  \E i : Single(Associate([tracks |-> ts, matched |-> {}], p), ts, p, i)
<1> DEFINE acc  == [tracks |-> ts, matched |-> {}]
           next == Associate(acc, p)
<1>1. acc \in Accs /\ acc.tracks = ts /\ acc.matched = {}
  BY DEF Accs
<1> HIDE DEF acc
<1>2. next \in Accs /\ ((\E i \in Nat : Updates(acc, next, p, i)) \/ Adds(acc, next, p))
  BY <1>1, AssociateIs
<1> HIDE DEF next
<1>3. ASSUME NEW i \in Nat, Updates(acc, next, p, i) PROVE Single(next, ts, p, i)
  <2>1. /\ i \in 1..Len(next.tracks) /\ \A j \in 1..Len(next.tracks) : Before(next.tracks, i, j, p)
        /\ next.tracks[i].hits >= 1
        /\ next.tracks[i].hits >= MinHits \/ next.tracks[i].hits = acc.tracks[i].hits + 1
        /\ Dist(next.tracks[i].at, p) <= Nearer(Dist(acc.tracks[i].at, p))
        /\ Dist(acc.tracks[i].at, p) \in Nat /\ Dist(next.tracks[i].at, p) \in Nat
    <3>1. acc \in Accs /\ next \in Accs
      BY <1>1, <1>2
    <3> QED BY <1>3, <3>1, UpdatesKeepOrder
  <2>2. /\ i = Closest(ts, p) /\ next.matched = {i} /\ i \in 1..Len(ts)
        /\ Dist(ts[i].at, p) < MaxDist
    BY <1>1, <1>3 DEF Updates
  <2>3. Dist(next.tracks[i].at, p) <= Nearer(MaxDist - 1)
    <3> DEFINE d == Dist(acc.tracks[i].at, p)
               e == Dist(next.tracks[i].at, p)
    <3>1. d \in Nat /\ d <= MaxDist - 1 /\ MaxDist - 1 \in Nat /\ e <= Nearer(d) /\ e \in Nat
      BY <1>1, <2>1, <2>2, Limits
    <3> HIDE DEF d, e
    <3>2. Nearer(d) <= Nearer(MaxDist - 1) /\ Nearer(d) \in Nat /\ Nearer(MaxDist - 1) \in Nat
      BY <3>1, NearerGrows
    <3>3. e <= Nearer(MaxDist - 1)
      BY <3>1, <3>2
    <3> QED BY <3>3 DEF e
  <2>4. ASSUME NEW k \in 1..Len(ts), Dist(ts[k].at, p) < MaxDist,
               \A j \in 1..Len(ts) : Before(ts, k, j, p)
        PROVE  /\ i = k
               /\ Dist(next.tracks[i].at, p) <= Nearer(Dist(ts[k].at, p))
               /\ next.tracks[i].hits >= MinHits \/ next.tracks[i].hits > ts[k].hits
    <3>1. i = k
      BY <2>2, <2>4, ClosestIsOne
    <3>2. ts[k].hits \in Nat
      BY HitsAreNat
    <3> QED BY <1>1, <2>1, <3>1, <3>2
  <2> QED BY <2>1, <2>2, <2>3, <2>4 DEF Single
<1>4. ASSUME Adds(acc, next, p) PROVE Single(next, ts, p, Len(ts) + 1)
  <2> DEFINE m == Len(ts) + 1
  <2>1. /\ Len(next.tracks) = m /\ next.tracks[m] = NewTrack(p) /\ next.matched = {m}
        /\ \A j \in 1..Len(ts) : next.tracks[j] = ts[j]
        /\ ts # <<>> => ~(Dist(ts[Closest(ts, p)].at, p) < MaxDist)
    BY <1>1, <1>4 DEF Adds
  <2>2. Len(ts) \in Nat /\ m \in 1..m /\ \A j \in 1..m : j = m \/ j \in 1..Len(ts)
    OBVIOUS
  <2>3. next.tracks[m].hits = 1 /\ Dist(next.tracks[m].at, p) = 0
    BY <2>1 DEF NewTrack, Dist
  <2>4. Nearer(MaxDist - 1) \in Nat
    BY Limits, NearerGrows
  <2>5. ASSUME NEW j \in 1..Len(ts) PROVE Dist(ts[j].at, p) \in Nat /\ Dist(ts[j].at, p) >= MaxDist
    <3> DEFINE c == Closest(ts, p)
    <3>1. ts # <<>>
      OBVIOUS
    <3>2. c \in 1..Len(ts) /\ Before(ts, c, j, p)
      BY <3>1, ClosestIs
    <3>3. ~(Dist(ts[c].at, p) < MaxDist)
      BY <2>1, <3>1
    <3> HIDE DEF c
    <3>4. Dist(ts[c].at, p) \in Nat /\ Dist(ts[j].at, p) \in Nat
      BY <3>2, AtIsNat, DistType
    <3> QED BY <3>2, <3>3, <3>4, Limits DEF Before
  <2> HIDE DEF m
  <2>6. \A j \in 1..m : Before(next.tracks, m, j, p)
    <3> SUFFICES ASSUME NEW j \in 1..m PROVE Before(next.tracks, m, j, p)
      OBVIOUS
    <3>1. CASE j = m
      BY <3>1, <2>2 DEF Before
    <3>2. CASE j \in 1..Len(ts)
      BY <3>2, <2>1, <2>3, <2>5, Limits DEF Before
    <3> QED BY <2>2, <3>1, <3>2
  <2>7. \A k \in 1..Len(ts) : ~(Dist(ts[k].at, p) < MaxDist)
    BY <2>5, Limits
  <2>8. Single(next, ts, p, m)
    BY <2>1, <2>2, <2>3, <2>4, <2>6, <2>7 DEF Single
  <2> QED BY <2>8 DEF m
<1> QED BY <1>2, <1>3, <1>4 DEF next, acc

\* After each further one at the same place.
LEMMA StaysSingle ==
  ASSUME NEW ts \in Seq(Track), NEW p \in Nat, NEW acc \in Accs, NEW i, Single(acc, ts, p, i)
  PROVE  Single(Associate(acc, p), ts, p, i)
<1> DEFINE next == Associate(acc, p)
<1>1. next \in Accs /\ ((\E j \in Nat : Updates(acc, next, p, j)) \/ Adds(acc, next, p))
  BY AssociateIs
<1> HIDE DEF next
<1>2. acc.tracks \in Seq(Track) /\ i \in 1..Len(acc.tracks) /\ i \in Nat
  BY DEF Single, Accs
<1>3. acc.tracks # <<>> /\ Closest(acc.tracks, p) = i
  BY <1>2, ClosestIsOne DEF Single
<1> DEFINE d == Dist(acc.tracks[i].at, p)
           e == Dist(next.tracks[i].at, p)
<1>4. d \in Nat /\ d <= Nearer(MaxDist - 1)
  BY <1>2, AtIsNat, DistType DEF Single
<1> HIDE DEF d
<1>5. MaxDist - 1 \in Nat /\ Nearer(MaxDist - 1) \in Nat /\ Nearer(MaxDist - 1) <= MaxDist - 1
  BY Limits, NearerGrows
<1>6. d < MaxDist
  BY <1>4, <1>5, Limits
<1>7. ~Adds(acc, next, p)
  BY <1>3, <1>6 DEF Adds, d
<1>8. PICK j \in Nat : Updates(acc, next, p, j)
  BY <1>1, <1>7
<1>9. j = i
  BY <1>3, <1>8 DEF Updates
<1>10. Updates(acc, next, p, i)
  BY <1>8, <1>9
<1>11. /\ i \in 1..Len(next.tracks) /\ \A k \in 1..Len(next.tracks) : Before(next.tracks, i, k, p)
       /\ next.tracks[i].hits >= 1
       /\ next.tracks[i].hits >= MinHits \/ next.tracks[i].hits = acc.tracks[i].hits + 1
       /\ e <= Nearer(d) /\ e \in Nat
  BY <1>1, <1>2, <1>10, UpdatesKeepOrder DEF d
<1>12. next.matched = {i}
  BY <1>10 DEF Updates, Single
<1>13. Nearer(d) \in Nat /\ Nearer(d) <= d
  BY <1>4, NearerGrows
<1> HIDE DEF e
<1>14. e <= d /\ e <= Nearer(MaxDist - 1)
  BY <1>4, <1>5, <1>11, <1>13
<1>15. acc.tracks[i].hits \in Nat
  BY <1>2, HitsAreNat
<1>16. ASSUME NEW k \in 1..Len(ts), Dist(ts[k].at, p) < MaxDist,
              \A l \in 1..Len(ts) : Before(ts, k, l, p)
       PROVE  /\ i = k
              /\ e <= Nearer(Dist(ts[k].at, p))
              /\ next.tracks[i].hits >= MinHits \/ next.tracks[i].hits > ts[k].hits
  <2>1. /\ i = k /\ d <= Nearer(Dist(ts[k].at, p))
        /\ acc.tracks[i].hits >= MinHits \/ acc.tracks[i].hits > ts[k].hits
    BY <1>16 DEF Single, d
  <2>2. Dist(ts[k].at, p) \in Nat /\ ts[k].hits \in Nat
    BY AtIsNat, DistType, HitsAreNat
  <2>3. Nearer(Dist(ts[k].at, p)) \in Nat
    BY <2>2, NearerGrows
  <2>4. e <= Nearer(Dist(ts[k].at, p))
    BY <1>4, <1>11, <1>14, <2>1, <2>3
  <2>5. next.tracks[i].hits >= MinHits \/ next.tracks[i].hits > ts[k].hits
    <3>1. CASE next.tracks[i].hits >= MinHits
      BY <3>1
    <3>2. CASE next.tracks[i].hits = acc.tracks[i].hits + 1
      BY <1>15, <2>1, <2>2, <3>2, Limits
    <3> QED BY <1>11, <3>1, <3>2
  <2> QED BY <2>1, <2>4, <2>5
<1>17. Single(next, ts, p, i)
  BY <1>11, <1>12, <1>14, <1>16 DEF Single, e
<1> QED BY <1>17 DEF next

\* All detections of the frame at p: whatever was there, one track takes them all.
LEMMA AssociatedSingle ==
  ASSUME NEW ts \in Seq(Track), NEW dets \in Seq(Nat), NEW p \in Nat, Range(dets) = {p}
  PROVE  \E i : Single(Associated(ts, dets), ts, p, i)
<1>1. PICK after : AssociatedSteps(after, ts, dets) /\ Associated(ts, dets) = after[Len(dets)]
  BY AssociatedExists
<1>2. Len(dets) \in Nat /\ Len(dets) # 0 /\ \A n \in 1..Len(dets) : dets[n] = p
  <2>1. Len(dets) \in Nat /\ DOMAIN dets = 1..Len(dets)
    OBVIOUS
  <2>2. Range(dets) = {dets[n] : n \in 1..Len(dets)}
    BY <2>1 DEF Range
  <2>3. \A n \in 1..Len(dets) : dets[n] \in {p}
    BY <2>2
  <2>4. \E n \in 1..Len(dets) : TRUE
    <3>1. p \in {dets[n] : n \in 1..Len(dets)}
      BY <2>2
    <3> QED BY <3>1
  <2> QED BY <2>1, <2>3, <2>4
<1>3. after[0] = [tracks |-> ts, matched |-> {}] /\ after[1] = Associate(after[0], p)
  <2>1. 0 \in 0..Len(dets) /\ 1 \in 0..Len(dets) /\ 1 - 1 = 0 /\ dets[1] = p
    BY <1>2
  <2>2. after[0] = [tracks |-> ts, matched |-> {}]
    BY <1>1, <2>1 DEF AssociatedSteps
  <2>3. \A n \in 0..Len(dets) : n # 0 => after[n] = Associate(after[n - 1], dets[n])
    BY <1>1 DEF AssociatedSteps
  <2> QED BY <2>1, <2>2, <2>3
<1>4. after[0] \in Accs
  BY <1>3 DEF Accs
<1>5. PICK i : Single(after[1], ts, p, i)
  BY <1>3, FirstIsSingle
<1> DEFINE T == {n \in 0..Len(dets) - 1 : after[n + 1] \in Accs /\ Single(after[n + 1], ts, p, i)}
<1>6. 0 \in T
  BY <1>2, <1>3, <1>4, <1>5, AssociateIs
<1>7. ASSUME NEW n \in 1..Len(dets) - 1, n - 1 \in T PROVE n \in T
  <2>1. n + 1 \in 0..Len(dets) /\ n + 1 # 0 /\ n + 1 \in 1..Len(dets) /\ (n + 1) - 1 = n /\ (n - 1) + 1 = n
    BY <1>2
  <2>2. after[n] \in Accs /\ Single(after[n], ts, p, i)
    BY <1>7, <2>1
  <2>3. after[n + 1] = Associate(after[n], p)
    BY <1>1, <1>2, <2>1 DEF AssociatedSteps
  <2>4. after[n + 1] \in Accs /\ Single(after[n + 1], ts, p, i)
    BY <2>2, <2>3, AssociateIs, StaysSingle
  <2> QED BY <2>4
<1> HIDE DEF T
<1>8. Len(dets) - 1 \in Nat /\ Len(dets) - 1 \in 0..Len(dets) - 1
  BY <1>2
<1>9. 0..Len(dets) - 1 \subseteq T
  BY <1>6, <1>7, <1>8, Induction
<1>10. Len(dets) - 1 \in T
  BY <1>8, <1>9
<1>11. Single(after[Len(dets)], ts, p, i)
  BY <1>2, <1>10 DEF T
<1> QED BY <1>1, <1>11

----------------------------------------------------------------------------
(* The tracks after the frame *)

\* Track j of out was seen in this frame, or is an old one that was missed once more.
Seen(out, j, dets) ==
  out[j].misses = 0 /\ \E n \in 1..Len(dets) : Dist(dets[n], out[j].at) < MaxDist
\* Track k of ts, missed once more, and not for too long.
Old(out, j, ts, k) == k \in 1..Len(ts) /\ out[j] = Missed(ts[k]) /\ Survives(out[j])

\* Tracks as they are before the old ones are dropped.
AgedTrack == [at : Nat, hits : 0..MinHits, misses : 0..MaxMisses + 1, confirmed : BOOLEAN]

\* What makes a sequence over S.
LEMMA IsSequence ==
  ASSUME NEW S, NEW n \in Nat, NEW s \in [1..n -> S]
  PROVE  s \in Seq(S) /\ Len(s) = n
<1>1. s \in Seq(S)
  OBVIOUS
<1>2. DOMAIN s = 1..n
  OBVIOUS
<1> QED BY <1>1, <1>2

LEMMA TrackIsAged ==
  ASSUME NEW k \in Track PROVE k \in AgedTrack
<1>1. 0..MaxMisses \subseteq 0..MaxMisses + 1
  BY Limits
<1> QED BY <1>1 DEF Track, AgedTrack

LEMMA MissedIs ==
  ASSUME NEW k \in Track
  PROVE  /\ Missed(k) \in AgedTrack
         /\ Missed(k).at = k.at /\ Missed(k).hits = 0 /\ Missed(k).misses = k.misses + 1
         /\ Missed(k).confirmed = k.confirmed /\ k.misses \in Nat
<1>1. k.misses \in 0..MaxMisses
  BY DEF Track
<1>2. k.misses \in Nat /\ k.misses + 1 \in 0..MaxMisses + 1 /\ 0 \in 0..MinHits
  BY <1>1, Limits
<1>3. k \in AgedTrack
  BY TrackIsAged
<1>4. Missed(k) \in AgedTrack
  BY <1>2, <1>3 DEF Missed, AgedTrack
<1>5. Missed(k).at = k.at
  BY DEF Missed, Track
<1>6. /\ Missed(k).hits = 0 /\ Missed(k).misses = k.misses + 1
      /\ Missed(k).confirmed = k.confirmed
  BY DEF Missed, Track
<1> QED BY <1>2, <1>4, <1>5, <1>6

LEMMA YoungIsTrack ==
  ASSUME NEW k \in AgedTrack, k.misses <= MaxMisses PROVE k \in Track
<1>1. k.misses \in 0..MaxMisses
  BY Limits DEF AgedTrack
<1> QED BY <1>1 DEF Track, AgedTrack

\* What a frame makes of the tracks, one by one and in their order.
AgedOf(acc, i) == IF i \in acc.matched THEN acc.tracks[i] ELSE Missed(acc.tracks[i])
Follows(out, f, acc) ==
  /\ f \in [1..Len(out) -> 1..Len(acc.tracks)]
  /\ \A j \in 1..Len(out) : out[j] = AgedOf(acc, f[j]) /\ Survives(out[j])
  /\ \A j, k \in 1..Len(out) : j < k => f[j] < f[k]
  /\ \A i \in 1..Len(acc.tracks) : Survives(AgedOf(acc, i)) => \E j \in 1..Len(out) : f[j] = i

LEMMA AdvanceFollows ==
  ASSUME NEW ts \in Seq(Track), NEW dets \in Seq(Nat), Associated(ts, dets) \in Accs
  PROVE  /\ Advance(ts, dets) \in Seq(Track)
         /\ \E f : Follows(Advance(ts, dets), f, Associated(ts, dets))
<1> DEFINE acc  == Associated(ts, dets)
           aged == [i \in DOMAIN acc.tracks |->
                      IF i \in acc.matched THEN acc.tracks[i] ELSE Missed(acc.tracks[i])]
           I    == {i \in DOMAIN aged : Survives(aged[i])}
           out  == Only(aged, I)
<1>1. Advance(ts, dets) = out
  BY DEF Advance
<1>2. acc.tracks \in Seq(Track) /\ DOMAIN acc.tracks = 1..Len(acc.tracks) /\ Len(acc.tracks) \in Nat
  BY DEF Accs
<1> HIDE DEF acc
<1>3. \A i \in 1..Len(acc.tracks) : aged[i] = AgedOf(acc, i) /\ aged[i] \in AgedTrack
  <2> SUFFICES ASSUME NEW i \in 1..Len(acc.tracks)
               PROVE  aged[i] = AgedOf(acc, i) /\ AgedOf(acc, i) \in AgedTrack
    OBVIOUS
  <2>1. acc.tracks[i] \in Track
    BY <1>2, AtIsNat
  <2>2. aged[i] = AgedOf(acc, i)
    BY <1>2 DEF AgedOf
  <2> QED BY <2>1, <2>2, MissedIs, TrackIsAged DEF AgedOf
<1>4. aged \in Seq(AgedTrack) /\ Len(aged) = Len(acc.tracks) /\ DOMAIN aged = 1..Len(acc.tracks)
  <2>1. DOMAIN aged = 1..Len(acc.tracks) /\ aged = [i \in 1..Len(acc.tracks) |-> aged[i]]
    BY <1>2
  <2> HIDE DEF aged
  <2>2. aged \in [1..Len(acc.tracks) -> AgedTrack]
    BY <1>3, <2>1
  <2> QED BY <1>2, <2>1, <2>2, IsSequence
<1> HIDE DEF aged
<1>5. /\ out \in Seq(AgedTrack) /\ \E f : Selects(out, f, aged, Len(aged), I)
  <2> HIDE DEF I
  <2> QED BY <1>4, OnlySelects
<1>6. PICK f : Selects(out, f, aged, Len(aged), I)
  BY <1>5
<1> HIDE DEF out
<1>7. Follows(out, f, acc)
  <2>1. /\ f \in [1..Len(out) -> 1..Len(acc.tracks)]
        /\ \A j, k \in 1..Len(out) : j < k => f[j] < f[k]
    BY <1>4, <1>6 DEF Selects
  <2>2. \A j \in 1..Len(out) : out[j] = AgedOf(acc, f[j]) /\ Survives(out[j])
    BY <1>3, <1>4, <1>6 DEF Selects
  <2>3. ASSUME NEW i \in 1..Len(acc.tracks), Survives(AgedOf(acc, i))
        PROVE  \E j \in 1..Len(out) : f[j] = i
    <3>1. i \in I
      BY <1>3, <1>4, <2>3
    <3> HIDE DEF I
    <3> QED BY <1>4, <1>6, <3>1 DEF Selects
  <2> QED BY <2>1, <2>2, <2>3 DEF Follows
<1>8. out \in Seq(Track)
  <2>1. ASSUME NEW j \in 1..Len(out) PROVE out[j] \in Track
    <3>1. out[j] \in AgedTrack
      BY <1>5
    <3>2. out[j].misses <= MaxMisses
      BY <1>7 DEF Follows, Survives
    <3> QED BY <3>1, <3>2, YoungIsTrack
  <2>2. out = [j \in 1..Len(out) |-> out[j]] /\ Len(out) \in Nat
    BY <1>5
  <2>3. out \in [1..Len(out) -> Track]
    BY <2>1, <2>2
  <2> QED BY <2>2, <2>3, IsSequence
<1> QED BY <1>1, <1>7, <1>8 DEF acc

\* A frame leaves tracks that were seen in it, or old ones missed once more.
LEMMA AdvanceIs ==
  ASSUME NEW ts \in Seq(Track), NEW dets \in Seq(Nat), HitsConfirm(ts)
  PROVE  /\ Advance(ts, dets) \in Seq(Track) /\ HitsConfirm(Advance(ts, dets))
         /\ \A j \in 1..Len(Advance(ts, dets)) :
              \/ Seen(Advance(ts, dets), j, dets)
              \/ \E k \in 1..Len(ts) : Old(Advance(ts, dets), j, ts, k)
<1> DEFINE acc == Associated(ts, dets)
           out == Advance(ts, dets)
<1>1. MatchedWereSeen(acc, ts, dets) /\ HitsConfirm(acc.tracks)
  BY AssociatedKeeps
<1>2. out \in Seq(Track) /\ \E f : Follows(out, f, acc)
  BY <1>1, AdvanceFollows DEF MatchedWereSeen
<1>3. PICK f : Follows(out, f, acc)
  BY <1>2
<1> HIDE DEF acc, out
<1>4. ASSUME NEW j \in 1..Len(out)
      PROVE  /\ out[j].hits >= MinHits => out[j].confirmed
             /\ Seen(out, j, dets) \/ \E k \in 1..Len(ts) : Old(out, j, ts, k)
  <2>1. f[j] \in 1..Len(acc.tracks) /\ out[j] = AgedOf(acc, f[j]) /\ Survives(out[j])
    BY <1>3 DEF Follows
  <2>2. CASE f[j] \in acc.matched
    <3>1. out[j] = acc.tracks[f[j]]
      BY <2>1, <2>2 DEF AgedOf
    <3> QED BY <1>1, <2>1, <2>2, <3>1 DEF MatchedWereSeen, HitsConfirm, Seen
  <2>3. CASE f[j] \notin acc.matched
    <3>1. /\ f[j] <= Len(ts) /\ acc.tracks[f[j]] = ts[f[j]]
          /\ out[j] = Missed(ts[f[j]])
      BY <1>1, <2>1, <2>3 DEF MatchedWereSeen, AgedOf
    <3>2. f[j] \in 1..Len(ts)
      BY <1>1, <2>1, <3>1 DEF MatchedWereSeen, Accs
    <3>3. ts[f[j]] \in Track
      BY <3>2, AtIsNat
    <3>4. out[j].hits = 0
      BY <3>1, <3>3, MissedIs
    <3>5. Old(out, j, ts, f[j])
      BY <2>1, <3>1, <3>2 DEF Old
    <3> QED BY <3>2, <3>4, <3>5, Limits
  <2> QED BY <2>2, <2>3
<1>5. HitsConfirm(out)
  BY <1>4 DEF HitsConfirm
<1> QED BY <1>2, <1>4, <1>5 DEF out

\* Track i of out is the only one seen at p, the nearest to it, and all others are old.
OnlySeen(out, ts, p, i) ==
  /\ i \in 1..Len(out)
  /\ \A j \in 1..Len(out) : Before(out, i, j, p)
  /\ out[i].hits >= 1
  /\ Dist(out[i].at, p) <= Nearer(MaxDist - 1)
  /\ \A j \in 1..Len(out) : j # i => \E k \in 1..Len(ts) : Old(out, j, ts, k)
  /\ \A l \in 1..Len(ts) :
       Dist(ts[l].at, p) < MaxDist /\ (\A j \in 1..Len(ts) : Before(ts, l, j, p))
       => /\ Dist(out[i].at, p) <= Nearer(Dist(ts[l].at, p))
          /\ out[i].hits >= MinHits \/ out[i].hits > ts[l].hits
          /\ \A j \in 1..Len(out) : j # i => \E k \in 1..Len(ts) : k # l /\ Old(out, j, ts, k)

\* A frame with detections at p only.
LEMMA AdvanceSingle ==
  ASSUME NEW ts \in Seq(Track), NEW dets \in Seq(Nat), NEW p \in Nat, HitsConfirm(ts),
         Range(dets) = {p}
  PROVE  \E i : OnlySeen(Advance(ts, dets), ts, p, i)
<1> DEFINE acc == Associated(ts, dets)
           out == Advance(ts, dets)
<1>1. MatchedWereSeen(acc, ts, dets)
  BY AssociatedKeeps
<1>2. out \in Seq(Track) /\ \E f : Follows(out, f, acc)
  BY <1>1, AdvanceFollows DEF MatchedWereSeen
<1>3. PICK f : Follows(out, f, acc)
  BY <1>2
<1>4. PICK m : Single(acc, ts, p, m)
  BY AssociatedSingle
<1> HIDE DEF acc, out
<1>5. m \in 1..Len(acc.tracks) /\ AgedOf(acc, m) = acc.tracks[m] /\ acc.tracks[m].misses = 0
  BY <1>1, <1>4 DEF Single, AgedOf, MatchedWereSeen
<1>6. Survives(AgedOf(acc, m))
  BY <1>5, Limits DEF Survives
<1>7. PICK i \in 1..Len(out) : f[i] = m
  BY <1>3, <1>5, <1>6 DEF Follows
<1>8. out[i] = acc.tracks[m]
  BY <1>3, <1>5, <1>7 DEF Follows
<1>9. acc.tracks \in Seq(Track) /\ Len(ts) \in Nat /\ Len(acc.tracks) \in Nat /\ Len(out) \in Nat
  BY <1>1, <1>2 DEF MatchedWereSeen, Accs
<1>10. ASSUME NEW j \in 1..Len(out), j # i
       PROVE  /\ f[j] \in 1..Len(ts) /\ f[j] # m /\ Old(out, j, ts, f[j])
              /\ acc.tracks[f[j]] = ts[f[j]]
  <2>1. f[j] \in 1..Len(acc.tracks) /\ out[j] = AgedOf(acc, f[j]) /\ Survives(out[j])
    BY <1>3 DEF Follows
  <2>2. f[j] # m
    <3>1. j < i \/ i < j
      BY <1>9, <1>10
    <3>2. f[j] < f[i] \/ f[i] < f[j]
      BY <1>3, <3>1 DEF Follows
    <3>3. f[j] \in Nat /\ f[i] \in Nat
      BY <1>5, <1>7, <1>9, <2>1
    <3> QED BY <1>7, <3>2, <3>3
  <2>3. f[j] \notin acc.matched
    BY <1>4, <2>2 DEF Single
  <2>4. f[j] <= Len(ts) /\ acc.tracks[f[j]] = ts[f[j]]
    BY <1>1, <2>1, <2>3 DEF MatchedWereSeen
  <2>5. out[j] = Missed(ts[f[j]]) /\ f[j] \in 1..Len(ts)
    BY <1>9, <2>1, <2>3, <2>4 DEF AgedOf
  <2> QED BY <2>1, <2>2, <2>4, <2>5 DEF Old
<1>11. ASSUME NEW j \in 1..Len(out) PROVE Before(out, i, j, p)
  <2>1. CASE j = i
    BY <2>1, <1>9 DEF Before
  <2>2. CASE j # i
    <3>1. f[j] \in 1..Len(ts) /\ out[j] = Missed(ts[f[j]]) /\ acc.tracks[f[j]] = ts[f[j]]
      BY <1>10, <2>2 DEF Old
    <3>2. out[j].at = acc.tracks[f[j]].at
      BY <3>1, AtIsNat, MissedIs
    <3>3. f[j] \in 1..Len(acc.tracks) /\ Before(acc.tracks, m, f[j], p)
      BY <1>3, <1>4 DEF Follows, Single
    <3>4. m <= f[j] => i <= j
      <4>1. j < i => f[j] < m
        BY <1>3, <1>7 DEF Follows
      <4>2. m \in Nat /\ f[j] \in Nat /\ i \in Nat /\ j \in Nat
        BY <1>5, <1>7, <1>9, <3>3
      <4> QED BY <4>1, <4>2
    <3> QED BY <1>8, <3>2, <3>3, <3>4 DEF Before
  <2> QED BY <2>1, <2>2
<1>12. ASSUME NEW l \in 1..Len(ts), Dist(ts[l].at, p) < MaxDist,
              \A j \in 1..Len(ts) : Before(ts, l, j, p)
       PROVE  /\ Dist(out[i].at, p) <= Nearer(Dist(ts[l].at, p))
              /\ out[i].hits >= MinHits \/ out[i].hits > ts[l].hits
              /\ \A j \in 1..Len(out) : j # i => \E k \in 1..Len(ts) : k # l /\ Old(out, j, ts, k)
  <2>1. /\ m = l /\ Dist(out[i].at, p) <= Nearer(Dist(ts[l].at, p))
        /\ out[i].hits >= MinHits \/ out[i].hits > ts[l].hits
    BY <1>4, <1>8, <1>12 DEF Single
  <2> QED BY <2>1, <1>10
<1>13. OnlySeen(out, ts, p, i)
  BY <1>4, <1>8, <1>10, <1>11, <1>12 DEF OnlySeen, Single
<1> QED BY <1>13 DEF out

----------------------------------------------------------------------------
(* A tool that lies still *)

\* The recursion in Off.
OffSteps(off) ==
  off = [n \in 0..MinHits |-> IF n = 0 THEN MaxDist - 1 ELSE (7 * off[n - 1] + 5) \div 10]

\* The bound on the mean shrinks with each detection and is never more than at first.
LEMMA OffIs ==
  /\ Off[0] = MaxDist - 1
  /\ \A n \in 1..MinHits : Off[n] = Nearer(Off[n - 1])
  /\ \A n \in 0..MinHits : Off[n] \in Nat /\ Off[n] <= MaxDist - 1
<1> DEFINE step == [n \in 1..MinHits |-> [d \in Nat |-> Nearer(d)]]
           base == MaxDist - 1
<1>1. base \in Nat /\ MinHits \in Nat
  BY Limits
<1>2. step \in StepsOn(MinHits, Nat)
  BY NearerGrows DEF StepsOn
<1> HIDE DEF step, base
<1>3. PICK g : Chain(g, MinHits, Nat, base, step)
  BY <1>1, <1>2, Recursion
<1>4. OffSteps(g)
  <2>1. ASSUME NEW i \in 1..MinHits PROVE g[i] = (7 * g[i - 1] + 5) \div 10
    <3>1. i - 1 \in 0..MinHits
      BY <1>1
    <3>2. g[i - 1] \in Nat /\ g[i] = step[i][g[i - 1]]
      BY <1>3, <3>1 DEF Chain
    <3> QED BY <3>2 DEF step, Nearer
  <2>2. g = [i \in 0..MinHits |-> g[i]] /\ g[0] = base
    BY <1>3 DEF Chain
  <2>3. \A i \in 0..MinHits : i # 0 => i \in 1..MinHits
    BY <1>1
  <2> QED BY <2>1, <2>2, <2>3 DEF OffSteps, base
<1>5. Off = CHOOSE off : OffSteps(off)
  BY DEF Off, OffSteps
<1>6. OffSteps(Off)
  BY <1>4, <1>5
<1>7. Off[0] = MaxDist - 1 /\ \A n \in 1..MinHits : Off[n] = Nearer(Off[n - 1])
  <2>1. 0 \in 0..MinHits /\ \A n \in 1..MinHits : n \in 0..MinHits /\ n # 0
    BY <1>1
  <2> QED BY <1>6, <2>1 DEF OffSteps, Nearer
<1> DEFINE T == {n \in 0..MinHits : Off[n] \in Nat /\ Off[n] <= MaxDist - 1}
<1>8. 0 \in T
  BY <1>1, <1>7 DEF base
<1>9. ASSUME NEW n \in 1..MinHits, n - 1 \in T PROVE n \in T
  <2>1. Off[n - 1] \in Nat /\ Off[n - 1] <= MaxDist - 1 /\ n \in 0..MinHits
    BY <1>1, <1>9
  <2>2. Off[n] = Nearer(Off[n - 1]) /\ Nearer(Off[n - 1]) \in Nat /\ Nearer(Off[n - 1]) <= Off[n - 1]
    BY <1>7, <2>1, NearerGrows
  <2>3. Off[n] \in Nat /\ Off[n] <= MaxDist - 1
    BY <2>1, <2>2, Limits
  <2> QED BY <2>1, <2>3
<1> HIDE DEF T
<1>10. 0..MinHits \subseteq T
  BY <1>1, <1>8, <1>9, Induction
<1> QED BY <1>7, <1>10 DEF T

\* Detections in a row, as far as they are counted.
Cap(k) == IF k < MinHits THEN k ELSE MinHits

\* Of the tracks one is of the tool that lay at p for k frames, and the others fade.
Settled(ts, p, k) ==
  \E i \in 1..Len(ts) :
    /\ \A j \in 1..Len(ts) : Before(ts, i, j, p)
    /\ Dist(ts[i].at, p) <= Off[Cap(k)]
    /\ ts[i].hits >= Cap(k)
    /\ \A j \in 1..Len(ts) : j # i => ts[j].misses >= k

\* The first frame with the tool at p and nowhere else.
LEMMA SettlesFirst ==
  ASSUME NEW ts \in Seq(Track), NEW dets \in Seq(Nat), NEW p \in Nat, HitsConfirm(ts),
         Range(dets) = {p}
  PROVE  Settled(Advance(ts, dets), p, 1)
<1> DEFINE out == Advance(ts, dets)
<1>1. out \in Seq(Track)
  BY AdvanceIs
<1>2. PICK i : OnlySeen(out, ts, p, i)
  BY AdvanceSingle
<1> HIDE DEF out
<1>3. Cap(1) = 1 /\ Off[1] = Nearer(MaxDist - 1)
  BY Limits, OffIs DEF Cap
<1>4. ASSUME NEW j \in 1..Len(out), j # i PROVE out[j].misses >= 1
  <2>1. PICK k \in 1..Len(ts) : Old(out, j, ts, k)
    BY <1>2, <1>4 DEF OnlySeen
  <2>2. out[j].misses = ts[k].misses + 1 /\ ts[k].misses \in Nat
    BY <2>1, AtIsNat, MissedIs DEF Old
  <2> QED BY <2>2
<1>5. Settled(out, p, 1)
  BY <1>2, <1>3, <1>4 DEF Settled, OnlySeen
<1> QED BY <1>5 DEF out

\* Each further one.
LEMMA SettlesMore ==
  ASSUME NEW ts \in Seq(Track), NEW dets \in Seq(Nat), NEW p \in Nat, HitsConfirm(ts),
         Range(dets) = {p}, NEW k \in Nat \ {0}, Settled(ts, p, k)
  PROVE  Settled(Advance(ts, dets), p, k + 1)
<1> DEFINE out == Advance(ts, dets)
<1>1. out \in Seq(Track)
  BY AdvanceIs
<1>2. PICK i : OnlySeen(out, ts, p, i)
  BY AdvanceSingle
<1> HIDE DEF out
<1>3. PICK l \in 1..Len(ts) :
        /\ \A j \in 1..Len(ts) : Before(ts, l, j, p)
        /\ Dist(ts[l].at, p) <= Off[Cap(k)]
        /\ ts[l].hits >= Cap(k)
        /\ \A j \in 1..Len(ts) : j # l => ts[j].misses >= k
  BY DEF Settled
<1> DEFINE d == Dist(ts[l].at, p)
           e == Dist(out[i].at, p)
<1>4. Cap(k) \in 1..MinHits /\ Cap(k + 1) \in 1..MinHits
  BY Limits DEF Cap
<1>5. Off[Cap(k)] \in Nat /\ Off[Cap(k)] <= MaxDist - 1 /\ Off[Cap(k + 1)] \in Nat
  <2>1. Cap(k) \in 0..MinHits /\ Cap(k + 1) \in 0..MinHits
    BY <1>4, Limits
  <2> QED BY <2>1, OffIs
<1>6. d \in Nat /\ d <= Off[Cap(k)] /\ d < MaxDist /\ ts[l].hits \in Nat
  <2>1. d \in Nat /\ d <= Off[Cap(k)]
    BY <1>3, AtIsNat, DistType
  <2> HIDE DEF d
  <2>2. ts[l].hits \in Nat
    BY <1>3, HitsAreNat
  <2> QED BY <1>5, <2>1, <2>2, Limits
<1>7. i \in 1..Len(out) /\ e \in Nat /\ out[i].hits \in 0..MinHits /\ out[i].hits \in Nat
  BY <1>1, <1>2, AtIsNat, DistType, HitsAreNat DEF OnlySeen
<1>8. /\ e <= Nearer(d)
      /\ out[i].hits >= MinHits \/ out[i].hits > ts[l].hits
      /\ \A j \in 1..Len(out) : j # i => \E m \in 1..Len(ts) : m # l /\ Old(out, j, ts, m)
  <2>1. l \in 1..Len(ts) /\ d < MaxDist /\ \A j \in 1..Len(ts) : Before(ts, l, j, p)
    BY <1>3, <1>6
  <2> QED BY <1>2, <2>1 DEF OnlySeen
<1> HIDE DEF d, e
<1>9. Nearer(d) \in Nat /\ Nearer(d) <= Nearer(Off[Cap(k)]) /\ Nearer(d) <= d
      /\ Nearer(Off[Cap(k)]) \in Nat
  <2> DEFINE o == Off[Cap(k)]
  <2>1. o \in Nat /\ d \in Nat /\ d <= o /\ o <= o
    BY <1>5, <1>6
  <2> HIDE DEF o
  <2>2. Nearer(d) \in Nat /\ Nearer(d) <= Nearer(o) /\ Nearer(d) <= d
    BY <2>1, NearerGrows
  <2>3. Nearer(o) \in Nat
    BY <2>1, NearerGrows
  <2> QED BY <2>2, <2>3 DEF o
<1>10. e <= Off[Cap(k + 1)] /\ out[i].hits >= Cap(k + 1)
  <2>1. CASE k < MinHits
    <3>1. Cap(k) = k /\ Cap(k + 1) = k + 1 /\ k + 1 \in 1..MinHits /\ (k + 1) - 1 = k
      BY <2>1, Limits DEF Cap
    <3>2. Off[k + 1] = Nearer(Off[k])
      <4>1. Off[k + 1] = Nearer(Off[(k + 1) - 1])
        BY <3>1, OffIs
      <4> QED BY <3>1, <4>1
    <3>3. e <= Off[Cap(k + 1)]
      BY <1>7, <1>8, <1>9, <3>1, <3>2
    <3>4. ts[l].hits >= k
      BY <1>3, <3>1
    <3>5. out[i].hits >= k + 1
      <4>1. CASE out[i].hits >= MinHits
        BY <1>7, <2>1, <4>1, Limits
      <4>2. CASE out[i].hits > ts[l].hits
        BY <1>6, <1>7, <3>4, <4>2
      <4> QED BY <1>8, <4>1, <4>2
    <3> QED BY <3>1, <3>3, <3>5
  <2>2. CASE ~(k < MinHits)
    <3>1. Cap(k) = MinHits /\ Cap(k + 1) = MinHits
      BY <2>2, Limits DEF Cap
    <3>2. ts[l].hits >= MinHits
      BY <1>3, <3>1
    <3>3. out[i].hits >= MinHits
      BY <1>6, <1>7, <1>8, <3>2, Limits
    <3>4. e <= Off[Cap(k + 1)]
      BY <1>5, <1>6, <1>7, <1>8, <1>9, <3>1
    <3> QED BY <3>1, <3>3, <3>4
  <2> QED BY <2>1, <2>2
<1>11. ASSUME NEW j \in 1..Len(out), j # i PROVE out[j].misses >= k + 1
  <2>1. PICK m \in 1..Len(ts) : m # l /\ Old(out, j, ts, m)
    BY <1>8, <1>11
  <2>2. ts[m].misses >= k
    BY <1>3, <2>1
  <2>3. out[j].misses = ts[m].misses + 1 /\ ts[m].misses \in Nat
    BY <2>1, AtIsNat, MissedIs DEF Old
  <2> QED BY <2>2, <2>3
<1>12. Settled(out, p, k + 1)
  BY <1>2, <1>7, <1>10, <1>11 DEF Settled, OnlySeen, e
<1> QED BY <1>12 DEF out

----------------------------------------------------------------------------
(* The frames received last *)

LEMMA MinOfTwo ==
  ASSUME NEW a \in Nat, NEW b \in Nat
  PROVE  Min({a, b}) = IF a <= b THEN a ELSE b
<1>1. ASSUME NEW m \in {a, b}, \A n \in {a, b} : m <= n PROVE Min({a, b}) = m
  <2>1. \A x \in {a, b} : (\A n \in {a, b} : x <= n) => x = m
    BY <1>1
  <2> QED BY <1>1, <2>1 DEF Min
<1> QED BY <1>1

\* The history moves on by one frame.
LEMMA RecentIs ==
  ASSUME NEW f \in Detections, recent \in Seq(Detections), Len(recent) <= Memory,
         recent' = SubSeq(<<f>> \o recent, 1, Min({Memory, Len(recent) + 1}))
  PROVE  /\ recent' \in Seq(Detections)
         /\ Len(recent') = IF Len(recent) < Memory THEN Len(recent) + 1 ELSE Memory
         /\ recent'[1] = f
         /\ \A n \in 2..Len(recent') : recent'[n] = recent[n - 1]
<1> DEFINE all == <<f>> \o recent
           m   == IF Len(recent) < Memory THEN Len(recent) + 1 ELSE Memory
<1>1. all \in Seq(Detections) /\ Len(all) = Len(recent) + 1 /\ Len(recent) \in Nat
  OBVIOUS
<1>2. all[1] = f /\ \A n \in 2..Len(recent) + 1 : all[n] = recent[n - 1]
  BY <1>1
<1>3. Min({Memory, Len(recent) + 1}) = m /\ m \in 1..Len(recent) + 1 /\ m \in Nat
  BY <1>1, MinOfTwo, Limits
<1> HIDE DEF all, m
<1>4. recent' = SubSeq(all, 1, m)
  BY <1>3 DEF all
<1>5. /\ SubSeq(all, 1, m) \in Seq(Detections) /\ Len(SubSeq(all, 1, m)) = m
      /\ \A n \in 1..m : SubSeq(all, 1, m)[n] = all[n]
  BY <1>1, <1>3
<1>6. \A n \in 2..m : n \in 2..Len(recent) + 1 /\ n \in 1..m
  BY <1>1, <1>3
<1>7. 1 \in 1..m
  BY <1>3
<1>8. recent' \in Seq(Detections) /\ Len(recent') = m
  BY <1>4, <1>5
<1>9. \A n \in 1..m : recent'[n] = all[n]
  BY <1>4, <1>5
<1>10. recent'[1] = f
  BY <1>2, <1>7, <1>9
<1>11. ASSUME NEW n \in 2..m PROVE recent'[n] = recent[n - 1]
  BY <1>2, <1>6, <1>9
<1> QED BY <1>8, <1>10, <1>11 DEF m

\* pose_node leaves detections out and adds none.
LEMMA FramesAreDetections == Frames \subseteq Detections
<1> SUFFICES ASSUME NEW d \in Detections, NEW ok PROVE WithDepth(d, ok) \in Detections
  BY DEF Frames
<1>1. ASSUME NEW t \in Tools
      PROVE  Only(d[t], {i \in DOMAIN d[t] : d[t][i] \in ok}) \in UNION {[1..n -> Places] : n \in 0..MaxDets}
  <2> DEFINE I == {i \in DOMAIN d[t] : d[t][i] \in ok}
             out == Only(d[t], I)
  <2>1. PICK n \in 0..MaxDets : d[t] \in [1..n -> Places]
    BY DEF Detections
  <2>2. n \in Nat /\ MaxDets \in Nat
    BY LimitsAssumption
  <2>3. d[t] \in Seq(Places) /\ Len(d[t]) = n
    BY <2>1, <2>2, IsSequence
  <2> HIDE DEF I
  <2>4. out \in Seq(Places) /\ Len(out) <= n
    BY <2>3, OnlySelects
  <2> HIDE DEF out
  <2>5. Len(out) \in 0..MaxDets /\ out \in [1..Len(out) -> Places]
    BY <2>2, <2>4
  <2>6. out \in UNION {[1..m -> Places] : m \in 0..MaxDets}
    BY <2>5
  <2> QED BY <2>6 DEF out, I
<1> QED BY <1>1 DEF WithDepth, Detections

LEMMA DetectionsAreSeqs ==
  ASSUME NEW f \in Detections, NEW t \in Tools
  PROVE  f[t] \in Seq(Nat)
<1>1. PICK n \in 0..MaxDets : f[t] \in [1..n -> Places]
  BY DEF Detections
<1>2. n \in Nat /\ f[t] \in [1..n -> Nat]
  <2>1. n \in Nat
    BY LimitsAssumption
  <2>2. \A i \in 1..n : f[t][i] \in Nat
    BY <1>1, PlacesAssumption
  <2>3. f[t] = [i \in 1..n |-> f[t][i]]
    BY <1>1
  <2> QED BY <2>1, <2>2, <2>3
<1> QED BY <1>2, IsSequence

----------------------------------------------------------------------------
(* What the tracks of a class remember *)

\* Each track was seen near where it is, as long ago as its misses say.
WasSeen(t) ==
  \A i \in 1..Len(tracks[t]) :
    \E n \in 1..Len(recent) :
      /\ n <= tracks[t][i].misses + 1
      /\ \E m \in 1..Len(recent[n][t]) : Dist(recent[n][t][m], tracks[t][i].at) < MaxDist

\* Where a tool lay, there is its track and no other is fresh.
Settles(t) ==
  \A p \in Nat, k \in Nat \ {0} : Lies(recent, t, p, k) => Settled(tracks[t], p, k)

\* Their types.
TracksOK == tracks \in [Tools -> Seq(Track)]
RecentOK == recent \in Seq(Detections) /\ Len(recent) <= Memory

\* The inductive invariant of the tracker.
TrackerInv ==
  /\ TracksOK /\ RecentOK /\ twins \in 0..MaxTwins
  /\ \A t \in Tools : HitsConfirm(tracks[t]) /\ WasSeen(t) /\ Settles(t)

LEMMA InitTracker == TracksInit => TrackerInv
<1> SUFFICES ASSUME TracksInit PROVE TrackerInv
  OBVIOUS
<1>1. tracks = [t \in Tools |-> <<>>] /\ recent = <<>> /\ twins = 0
  BY DEF TracksInit
<1>2. TracksOK
  BY <1>1 DEF TracksOK
<1>3. RecentOK
  BY <1>1, Limits DEF RecentOK
<1>4. twins \in 0..MaxTwins
  BY <1>1, LimitsAssumption
<1>5. ASSUME NEW t \in Tools PROVE HitsConfirm(tracks[t]) /\ WasSeen(t) /\ Settles(t)
  <2>1. Len(tracks[t]) = 0 /\ Len(recent) = 0
    BY <1>1
  <2> QED BY <2>1 DEF HitsConfirm, WasSeen, Settles, Lies
<1> QED BY <1>2, <1>3, <1>4, <1>5 DEF TrackerInv

\* A frame keeps it.
LEMMA FollowKeeps ==
  ASSUME TrackerInv, NEW f \in Detections, Follow(f), twins' \in 0..MaxTwins
  PROVE  TrackerInv'
<1>1. /\ recent' \in Seq(Detections)
      /\ Len(recent') = IF Len(recent) < Memory THEN Len(recent) + 1 ELSE Memory
      /\ recent'[1] = f
      /\ \A n \in 2..Len(recent') : recent'[n] = recent[n - 1]
  BY RecentIs DEF TrackerInv, RecentOK, Follow
<1>2. Len(recent) \in Nat /\ Len(recent) <= Memory /\ Len(recent') \in Nat /\ Len(recent') <= Memory
      /\ 1 <= Len(recent')
  BY <1>1, Limits DEF TrackerInv, RecentOK
<1>3. ASSUME NEW t \in Tools
      PROVE  /\ tracks[t] \in Seq(Track) /\ f[t] \in Seq(Nat) /\ HitsConfirm(tracks[t])
             /\ tracks'[t] = Advance(tracks[t], f[t])
  BY DetectionsAreSeqs DEF TrackerInv, TracksOK, Follow
<1>4. \A t \in Tools : tracks'[t] \in Seq(Track) /\ HitsConfirm(tracks'[t])
  BY <1>3, AdvanceIs
<1>5. TracksOK'
  <2>1. tracks' = [t \in Tools |-> tracks'[t]]
    BY DEF Follow
  <2> QED BY <1>4, <2>1 DEF TracksOK
<1>6. ASSUME NEW t \in Tools PROVE WasSeen(t)'
  <2> DEFINE ts == tracks[t]
             out == tracks'[t]
  <2>1. ts \in Seq(Track) /\ f[t] \in Seq(Nat) /\ out \in Seq(Track)
    BY <1>3, <1>4
  <2>2. \A i \in 1..Len(out) : Seen(out, i, f[t]) \/ \E k \in 1..Len(ts) : Old(out, i, ts, k)
    BY <1>3, AdvanceIs
  <2> HIDE DEF out, ts
  <2>3. ASSUME NEW i \in 1..Len(out)
        PROVE  \E n \in 1..Len(recent') :
                 /\ n <= out[i].misses + 1
                 /\ \E m \in 1..Len(recent'[n][t]) : Dist(recent'[n][t][m], out[i].at) < MaxDist
    <3>1. CASE Seen(out, i, f[t])
      <4>1. 1 \in 1..Len(recent') /\ 1 <= out[i].misses + 1
        BY <1>2, <3>1 DEF Seen
      <4> QED BY <4>1, <1>1, <3>1 DEF Seen
    <3>2. CASE \E k \in 1..Len(ts) : Old(out, i, ts, k)
      <4>1. PICK k \in 1..Len(ts) : Old(out, i, ts, k)
        BY <3>2
      <4>2. /\ out[i].at = ts[k].at /\ out[i].misses = ts[k].misses + 1
            /\ ts[k].misses \in Nat /\ out[i].misses <= MaxMisses
        BY <2>1, <4>1, AtIsNat, MissedIs DEF Old, Survives
      <4>3. PICK n \in 1..Len(recent) :
              /\ n <= ts[k].misses + 1
              /\ \E m \in 1..Len(recent[n][t]) : Dist(recent[n][t][m], ts[k].at) < MaxDist
        BY DEF TrackerInv, WasSeen, ts
      <4>4. n + 1 <= MaxMisses + 1 /\ n + 1 <= out[i].misses + 1
        <5>1. n \in Nat /\ MaxMisses \in Nat
          BY <1>2, Limits
        <5> DEFINE age == out[i].misses
        <5>2. age \in Nat /\ n <= age /\ age <= MaxMisses
          BY <4>2, <4>3
        <5> HIDE DEF age
        <5>3. n + 1 <= MaxMisses + 1 /\ n + 1 <= age + 1
          BY <5>1, <5>2
        <5> QED BY <5>3 DEF age
      <4>5. n + 1 \in 2..Len(recent') /\ n + 1 \in 1..Len(recent') /\ (n + 1) - 1 = n
        <5>1. n \in Nat /\ n <= Len(recent) /\ n >= 1
          BY <1>2
        <5>2. n + 1 <= Len(recent')
          BY <1>1, <1>2, <4>4, <5>1, Limits
        <5> QED BY <1>2, <5>1, <5>2
      <4>6. recent'[n + 1] = recent[n]
        BY <1>1, <4>5
      <4> QED BY <4>2, <4>3, <4>4, <4>5, <4>6
    <3> QED BY <2>2, <3>1, <3>2
  <2> QED BY <2>3 DEF WasSeen, out
<1>7. ASSUME NEW t \in Tools PROVE Settles(t)'
  <2> SUFFICES ASSUME NEW p \in Nat, NEW k \in Nat \ {0}, Lies(recent', t, p, k)
               PROVE  Settled(tracks'[t], p, k)
    BY DEF Settles
  <2>1. k <= Len(recent') /\ \A n \in 1..k : Range(recent'[n][t]) = {p}
    BY DEF Lies
  <2>2. Range(f[t]) = {p}
    <3>1. 1 \in 1..k
      OBVIOUS
    <3> QED BY <1>1, <2>1, <3>1
  <2>3. CASE k = 1
    BY <1>3, <2>2, <2>3, SettlesFirst
  <2>4. CASE k # 1
    <3>1. k - 1 \in Nat \ {0} /\ (k - 1) + 1 = k
      BY <2>4
    <3>2. k - 1 <= Len(recent)
      BY <1>1, <1>2, <2>1, <3>1
    <3>3. ASSUME NEW n \in 1..k - 1 PROVE Range(recent[n][t]) = {p}
      <4>1. n + 1 \in 1..k /\ n + 1 \in 2..Len(recent') /\ (n + 1) - 1 = n
        BY <1>2, <2>1, <3>1
      <4>2. recent'[n + 1] = recent[n]
        BY <1>1, <4>1
      <4> QED BY <2>1, <4>1, <4>2
    <3>4. Lies(recent, t, p, k - 1)
      BY <3>2, <3>3 DEF Lies
    <3>5. Settled(tracks[t], p, k - 1)
      BY <3>1, <3>4 DEF TrackerInv, Settles
    <3>6. Settled(tracks'[t], p, (k - 1) + 1)
      BY <1>3, <2>2, <3>1, <3>5, SettlesMore
    <3> QED BY <3>1, <3>6
  <2> QED BY <2>3, <2>4
<1> QED BY <1>1, <1>2, <1>4, <1>5, <1>6, <1>7 DEF TrackerInv, RecentOK

----------------------------------------------------------------------------
(* The slots *)

LEMMA Product ==
  ASSUME NEW a \in Nat \ {0}, NEW h \in Nat
  PROVE  a * h \in Nat /\ a * h >= h
OBVIOUS

\* The centres are a slot apart.
LEMMA CentreIs ==
  ASSUME NEW c \in 1..Cols
  PROVE  Centre(c) \in Nat /\ \A d \in 1..Cols : c # d => Dist(Centre(c), Centre(d)) >= 2 * HalfSlot
<1>1. c \in Nat \ {0} /\ HalfSlot \in Nat /\ HalfSlot > 0
  BY LimitsAssumption
<1>2. ASSUME NEW a \in Nat \ {0}, NEW b \in Nat \ {0}, a < b
      PROVE  Centre(a) \in Nat /\ Centre(b) \in Nat /\ Centre(b) - Centre(a) >= 2 * HalfSlot
  <2>1. 2 * a - 1 \in Nat \ {0} /\ 2 * b - 1 \in Nat \ {0} /\ b - a \in Nat \ {0}
    BY <1>2
  <2>2. (2 * a - 1) * HalfSlot \in Nat /\ (2 * b - 1) * HalfSlot \in Nat /\ (b - a) * HalfSlot >= HalfSlot
    BY <1>1, <2>1, Product
  <2>3. (2 * b - 1) * HalfSlot - (2 * a - 1) * HalfSlot = 2 * ((b - a) * HalfSlot)
    BY <1>1
  <2> QED BY <1>1, <2>1, <2>2, <2>3 DEF Centre
<1>3. ASSUME NEW d \in 1..Cols, c # d PROVE Dist(Centre(c), Centre(d)) >= 2 * HalfSlot
  <2>1. d \in Nat \ {0} /\ (c < d \/ d < c)
    BY <1>1, <1>3
  <2>2. CASE c < d
    <3>1. Centre(c) \in Nat /\ Centre(d) \in Nat /\ Centre(d) - Centre(c) >= 2 * HalfSlot
      BY <1>1, <1>2, <2>1, <2>2
    <3> QED BY <1>1, <3>1 DEF Dist
  <2>3. CASE d < c
    <3>1. Centre(c) \in Nat /\ Centre(d) \in Nat /\ Centre(c) - Centre(d) >= 2 * HalfSlot
      BY <1>1, <1>2, <2>1, <2>3
    <3> QED BY <1>1, <3>1 DEF Dist
  <2> QED BY <2>1, <2>2, <2>3
<1>4. Centre(c) \in Nat
  <2>1. c < c + 1 /\ c + 1 \in Nat \ {0}
    BY <1>1
  <2> QED BY <1>1, <1>2, <2>1
<1> QED BY <1>3, <1>4

\* What is within h of a is nearer to a than to anything 2h away.
LEMMA Nearby ==
  ASSUME NEW a \in Nat, NEW b \in Nat, NEW p \in Nat, NEW h \in Nat,
         Dist(a, b) >= 2 * h, Dist(a, p) < h
  PROVE  Dist(a, p) < Dist(b, p)
BY DEF Dist

\* What is nearer than half a slot to its centre is in the slot.
LEMMA AssignSlotIs ==
  ASSUME NEW c \in 1..Cols, NEW p \in Nat, Dist(Centre(c), p) < HalfSlot
  PROVE  AssignSlot(p) = c
<1> DEFINE d(x) == Dist(Centre(x), p)
           best == CHOOSE x \in Slots : \A y \in Slots : \/ d(x) < d(y)
                                                         \/ d(x) = d(y) /\ x <= y
<1>1. HalfSlot \in Nat
  BY LimitsAssumption
<1>2. \A x \in Slots : d(x) \in Nat /\ x \in Nat
  BY CentreIs, DistType DEF Slots
<1>3. \A y \in Slots : y # c => d(c) < d(y)
  <2> SUFFICES ASSUME NEW y \in Slots, y # c PROVE d(c) < d(y)
    OBVIOUS
  <2>1. Centre(c) \in Nat /\ Centre(y) \in Nat /\ Dist(Centre(c), Centre(y)) >= 2 * HalfSlot
    BY CentreIs DEF Slots
  <2> QED BY <1>1, <2>1, Nearby
<1>4. c \in Slots /\ d(c) < HalfSlot
  BY DEF Slots
<1> HIDE DEF d
<1>5. \A y \in Slots : d(c) < d(y) \/ (d(c) = d(y) /\ c <= y)
  BY <1>2, <1>3, <1>4
<1>6. \A x \in Slots : (\A y \in Slots : d(x) < d(y) \/ (d(x) = d(y) /\ x <= y)) => x = c
  <2> SUFFICES ASSUME NEW x \in Slots, x # c,
                      \A y \in Slots : d(x) < d(y) \/ (d(x) = d(y) /\ x <= y)
               PROVE  FALSE
    OBVIOUS
  <2>1. d(x) <= d(c) /\ d(c) < d(x) /\ d(x) \in Nat /\ d(c) \in Nat
    BY <1>2, <1>3, <1>4
  <2> QED BY <2>1
<1>7. best = c
  BY <1>4, <1>5, <1>6
<1>8. 2 * d(c) <= 3 * HalfSlot
  BY <1>1, <1>2, <1>4
<1>9. AssignSlot(p) = IF 2 * Dist(Centre(best), p) <= 3 * HalfSlot THEN best ELSE 0
  BY DEF AssignSlot, d
<1> HIDE DEF best
<1> QED BY <1>7, <1>8, <1>9 DEF d

----------------------------------------------------------------------------
(* What is published *)

\* The positions of the tracks that are published.
Confirmed(ts) == {i \in DOMAIN ts : ts[i].confirmed}

LEMMA ShownIs ==
  ASSUME NEW all \in [Tools -> Seq(Track)], NEW t \in Tools
  PROVE  /\ Shown(all)[t] \in Seq(Nat)
         /\ Len(Shown(all)[t]) = Len(Only(all[t], Confirmed(all[t])))
         /\ \A j \in 1..Len(Shown(all)[t]) :
              Shown(all)[t][j] = Only(all[t], Confirmed(all[t]))[j].at
<1> DEFINE ks == Only(all[t], Confirmed(all[t]))
           out == [i \in DOMAIN ks |-> ks[i].at]
<1>1. Shown(all)[t] = out
  BY DEF Shown, Confirmed
<1>2. ks \in Seq(Track)
  BY OnlySelects
<1> HIDE DEF ks
<1>3. DOMAIN ks = 1..Len(ks) /\ Len(ks) \in Nat /\ \A i \in 1..Len(ks) : ks[i].at \in Nat
  BY <1>2, AtIsNat
<1>4. out \in [1..Len(ks) -> Nat]
  BY <1>3
<1>5. out \in Seq(Nat) /\ Len(out) = Len(ks)
  <2> HIDE DEF out
  <2> QED BY <1>3, <1>4, IsSequence
<1>6. \A j \in 1..Len(ks) : out[j] = ks[j].at
  BY <1>3
<1> HIDE DEF out
<1> QED BY <1>1, <1>5, <1>6 DEF ks

\* Each confirmed track is in what is published, at its place.
LEMMA ConfirmedIsShown ==
  ASSUME NEW all \in [Tools -> Seq(Track)], NEW t \in Tools, NEW i \in 1..Len(all[t]),
         all[t][i].confirmed
  PROVE  \E j \in 1..Len(Shown(all)[t]) : Shown(all)[t][j] = all[t][i].at
<1>1. i \in Confirmed(all[t])
  BY DEF Confirmed
<1>2. PICK f : Selects(Only(all[t], Confirmed(all[t])), f, all[t], Len(all[t]), Confirmed(all[t]))
  BY OnlySelects
<1>3. PICK j \in 1..Len(Only(all[t], Confirmed(all[t]))) : f[j] = i
  BY <1>1, <1>2 DEF Selects
<1>4. Only(all[t], Confirmed(all[t]))[j] = all[t][i]
  BY <1>2, <1>3 DEF Selects
<1> QED BY <1>3, <1>4, ShownIs

\* A tool that lay at p long enough has a confirmed track near p.
LEMMA LiesIsConfirmed ==
  ASSUME TrackerInv, NEW t \in Tools, NEW p \in Nat, NEW k \in Nat, k >= MinHits,
         Lies(recent, t, p, k)
  PROVE  \E i \in 1..Len(tracks[t]) :
           /\ tracks[t][i].confirmed /\ Dist(tracks[t][i].at, p) < HalfSlot
           /\ \A j \in 1..Len(tracks[t]) : j # i => tracks[t][j].misses >= k
<1>1. k \in Nat \ {0}
  BY Limits
<1>2. tracks[t] \in Seq(Track) /\ HitsConfirm(tracks[t]) /\ Settled(tracks[t], p, k)
  BY <1>1 DEF TrackerInv, TracksOK, Settles
<1>3. PICK i \in 1..Len(tracks[t]) :
        /\ Dist(tracks[t][i].at, p) <= Off[Cap(k)]
        /\ tracks[t][i].hits >= Cap(k)
        /\ \A j \in 1..Len(tracks[t]) : j # i => tracks[t][j].misses >= k
  BY <1>2 DEF Settled
<1>4. Cap(k) = MinHits
  BY Limits DEF Cap
<1>5. Off[MinHits] \in Nat /\ Off[MinHits] < HalfSlot /\ HalfSlot \in Nat
  BY OffIs, Limits, SettlesAssumption, LimitsAssumption
<1>6. Dist(tracks[t][i].at, p) \in Nat
  BY <1>2, AtIsNat, DistType
<1>7. Dist(tracks[t][i].at, p) < HalfSlot
  BY <1>3, <1>4, <1>5, <1>6
<1>8. tracks[t][i].confirmed
  BY <1>2, <1>3, <1>4 DEF HitsConfirm
<1> QED BY <1>3, <1>7, <1>8

\* A slot in which a tool lay for MinHits frames is not empty in what is published.
LEMMA HeldIsOccupied ==
  TrackerInv => Held(recent) \subseteq Slots /\ Held(recent) \subseteq Occupied(Shown(tracks))
<1> SUFFICES ASSUME TrackerInv
             PROVE  Held(recent) \subseteq Slots /\ Held(recent) \subseteq Occupied(Shown(tracks))
  OBVIOUS
<1>1. ASSUME NEW c \in Held(recent) PROVE c \in Slots /\ c \in Occupied(Shown(tracks))
  <2>1. c \in 1..Cols
    BY DEF Held
  <2>2. PICK t \in Tools : Lies(recent, t, Centre(c), MinHits)
    BY DEF Held
  <2>3. Centre(c) \in Nat
    BY <2>1, CentreIs
  <2>4. PICK i \in 1..Len(tracks[t]) :
          tracks[t][i].confirmed /\ Dist(tracks[t][i].at, Centre(c)) < HalfSlot
    BY <2>2, <2>3, LiesIsConfirmed, Limits
  <2>5. tracks \in [Tools -> Seq(Track)] /\ tracks[t][i].at \in Nat
    <3>1. tracks \in [Tools -> Seq(Track)] /\ tracks[t] \in Seq(Track)
      BY DEF TrackerInv, TracksOK
    <3> QED BY <3>1, AtIsNat
  <2> DEFINE q == tracks[t][i].at
  <2>6. Dist(Centre(c), q) < HalfSlot
    BY <2>3, <2>4, <2>5, DistSymmetric
  <2>7. AssignSlot(q) = c
    BY <2>1, <2>5, <2>6, AssignSlotIs
  <2>8. PICK j \in 1..Len(Shown(tracks)[t]) : Shown(tracks)[t][j] = q
    BY <2>4, <2>5, ConfirmedIsShown
  <2>9. Shown(tracks)[t] \in Seq(Nat)
    BY <2>5, ShownIs
  <2>10. q \in Range(Shown(tracks)[t])
    BY <2>8, <2>9 DEF Range
  <2> HIDE DEF q
  <2>11. c \in {AssignSlot(p) : p \in Range(Shown(tracks)[t])}
    BY <2>7, <2>10
  <2>12. c \in Occupied(Shown(tracks))
    BY <2>11 DEF Occupied
  <2> QED BY <2>1, <2>12 DEF Slots
<1> QED BY <1>1

----------------------------------------------------------------------------
(* What is offered *)

\* The offer is one of the empty slots.
LEMMA MinOfSlots ==
  ASSUME NEW S, S \subseteq Slots, S # {}
  PROVE  Min(S) \in S
<1>1. Cols \in Nat /\ S \subseteq 0..Cols
  BY LimitsAssumption DEF Slots
<1>2. \E m \in S : \A k \in S : m <= k
  BY <1>1, Least
<1> QED BY <1>2 DEF Min

\* What is published knows of every slot that is held.
MessageOK(m) ==
  /\ m.shown \in [Tools -> Seq(Nat)] /\ m.held \subseteq Slots
  /\ m.held \subseteq Occupied(m.shown)

\* The inductive invariant of the message on its way and of the scene.
SceneInv ==
  /\ \A m \in tracked : MessageOK(m)
  /\ scene.shown \in [Tools -> Seq(Nat)]
  /\ scene.offer \in 0..Cols /\ scene.held \subseteq Slots
  /\ scene.offer \notin scene.held

LEMMA InitScene == TracksInit => SceneInv
<1> SUFFICES ASSUME TracksInit PROVE SceneInv
  OBVIOUS
<1>1. tracked = {} /\ scene.shown = Nothing /\ scene.offer = 0 /\ scene.held = {}
  BY DEF TracksInit
<1>2. Nothing \in [Tools -> Seq(Nat)]
  BY DEF Nothing
<1>3. 0 \in 0..Cols
  BY LimitsAssumption
<1> QED BY <1>1, <1>2, <1>3 DEF SceneInv

\* One array reaches the tracker.
LEMMA OnPosesKeeps ==
  ASSUME TrackerInv, SceneInv, OnPoses
  PROVE  TrackerInv' /\ SceneInv'
<1>1. PICK f \in Frames :
        /\ twins' = twins + (IF \E t \in Tools : Len(f[t]) > 1 THEN 1 ELSE 0)
        /\ twins' <= MaxTwins
        /\ Follow(f)
  BY DEF OnPoses
<1>2. f \in Detections
  BY FramesAreDetections
<1>3. twins' \in 0..MaxTwins
  BY <1>1, LimitsAssumption DEF TrackerInv
<1>4. TrackerInv'
  BY <1>1, <1>2, <1>3, FollowKeeps
<1>5. tracked' = {[shown |-> Shown(tracks'), held |-> Held(recent')]} /\ scene' = scene
  BY <1>1 DEF Follow
<1>6. (Held(recent) \subseteq Slots /\ Held(recent) \subseteq Occupied(Shown(tracks)))'
  BY <1>4, HeldIsOccupied, PTL
<1>7. Shown(tracks') \in [Tools -> Seq(Nat)]
  <2>1. tracks' \in [Tools -> Seq(Track)]
    BY <1>4 DEF TrackerInv, TracksOK
  <2>2. \A t \in Tools : Shown(tracks')[t] \in Seq(Nat)
    BY <2>1, ShownIs
  <2>3. Shown(tracks') = [t \in Tools |-> Shown(tracks')[t]]
    BY DEF Shown
  <2> QED BY <2>2, <2>3
<1>8. \A m \in tracked' : MessageOK(m)
  BY <1>5, <1>6, <1>7 DEF MessageOK
<1>9. SceneInv'
  BY <1>5, <1>8 DEF SceneInv, MessageOK
<1> QED BY <1>4, <1>9

\* Nothing reaches it.
LEMMA TrackerStands ==
  ASSUME TrackerInv, UNCHANGED <<tracks, recent, twins>>
  PROVE  TrackerInv'
<1>1. tracks' = tracks /\ recent' = recent /\ twins' = twins
  OBVIOUS
<1>2. TracksOK' /\ RecentOK' /\ twins' \in 0..MaxTwins
  BY <1>1 DEF TrackerInv, TracksOK, RecentOK
<1>3. ASSUME NEW t \in Tools PROVE (HitsConfirm(tracks[t]) /\ WasSeen(t) /\ Settles(t))'
  BY <1>1 DEF TrackerInv, WasSeen, Settles
<1> QED BY <1>2, <1>3 DEF TrackerInv

\* The context builder takes the message.
LEMMA BuildSceneKeeps ==
  ASSUME TrackerInv, SceneInv, BuildScene
  PROVE  TrackerInv' /\ SceneInv'
<1>1. UNCHANGED <<tracks, recent, twins>> /\ tracked' = {}
  BY DEF BuildScene
<1>2. TrackerInv'
  BY <1>1, TrackerStands
<1>3. PICK m \in tracked :
        scene' = IF Slots \ Occupied(m.shown) = {} THEN [scene EXCEPT !.shown = m.shown]
                 ELSE [shown |-> m.shown, offer |-> Min(Slots \ Occupied(m.shown)), held |-> m.held]
  BY DEF BuildScene
<1>4. MessageOK(m)
  BY DEF SceneInv
<1> DEFINE empty == Slots \ Occupied(m.shown)
<1>5. CASE empty = {}
  <2>1. scene' = [scene EXCEPT !.shown = m.shown]
    BY <1>3, <1>5
  <2>2. scene'.offer = scene.offer /\ scene'.held = scene.held
    BY <2>1
  <2>3. SceneInv'
    <3>1. scene'.shown = m.shown
      BY <2>1 DEF SceneInv
    <3> QED BY <1>1, <1>4, <2>2, <3>1 DEF SceneInv, MessageOK
  <2> QED BY <1>2, <2>3
<1>6. CASE empty # {}
  <2>1. scene'.shown = m.shown /\ scene'.offer = Min(empty) /\ scene'.held = m.held
    BY <1>3, <1>6
  <2>2. Min(empty) \in empty
    BY <1>6, MinOfSlots
  <2> HIDE DEF empty
  <2>3. Min(empty) \in 1..Cols /\ Min(empty) \notin Occupied(m.shown)
    BY <2>2 DEF empty, Slots
  <2>4. 1..Cols \subseteq 0..Cols
    BY LimitsAssumption
  <2>5. SceneInv'
    BY <1>1, <1>4, <2>1, <2>3, <2>4 DEF SceneInv, MessageOK
  <2> QED BY <1>2, <2>5
<1> QED BY <1>5, <1>6

----------------------------------------------------------------------------
(* The theorems of the chain *)

\* The inductive invariant of the chain.
TracksInv == TrackerInv /\ SceneInv

LEMMA TracksInvariance == TracksSpec => []TracksInv
<1>1. TracksInit => TracksInv
  BY InitTracker, InitScene DEF TracksInv
<1>2. TracksInv /\ [TracksNext]_tracksVars => TracksInv'
  <2> SUFFICES ASSUME TracksInv, [TracksNext]_tracksVars PROVE TracksInv'
    OBVIOUS
  <2>1. CASE OnPoses
    BY <2>1, OnPosesKeeps DEF TracksInv
  <2>2. CASE BuildScene
    BY <2>2, BuildSceneKeeps DEF TracksInv
  <2>3. CASE UNCHANGED tracksVars
    <3>1. TrackerInv'
      BY <2>3, TrackerStands DEF TracksInv, tracksVars
    <3>2. tracked' = tracked /\ scene' = scene
      BY <2>3 DEF tracksVars
    <3>3. SceneInv'
      BY <3>2 DEF TracksInv, SceneInv, MessageOK
    <3> QED BY <3>1, <3>3 DEF TracksInv
  <2> QED BY <2>1, <2>2, <2>3 DEF TracksNext
<1> QED BY <1>1, <1>2, PTL DEF TracksSpec

\* The tracks, the message and the scene have their types; the frames looked back
\* on are never more than Memory.
THEOREM TracksTypeCorrect == TracksSpec => []TracksTypeOK
<1>1. TracksInv => TracksTypeOK
  BY DEF TracksInv, TrackerInv, TracksOK, RecentOK, SceneInv, MessageOK, TracksTypeOK
<1> QED BY <1>1, TracksInvariance, PTL

\* What the tracker publishes was detected near there, in one of the last
\* max_misses + 1 frames: neither a forgotten tool nor one of another class.
THEOREM ShownIsReal == TracksSpec => []ShownWasSeen
<1>1. TracksInv => ShownWasSeen
  <2> SUFFICES ASSUME TrackerInv, NEW t \in Tools, NEW i \in DOMAIN tracks[t]
               PROVE  \E n \in 1..Min({Len(recent), MaxMisses + 1}) :
                        \E p \in Range(recent[n][t]) : Dist(p, tracks[t][i].at) < MaxDist
    BY DEF TracksInv, ShownWasSeen
  <2>1. tracks[t] \in Seq(Track) /\ recent \in Seq(Detections)
    BY DEF TrackerInv, TracksOK, RecentOK
  <2>2. i \in 1..Len(tracks[t]) /\ Len(recent) \in Nat
    BY <2>1
  <2>3. tracks[t][i] \in Track
    BY <2>1, <2>2, AtIsNat
  <2>4. tracks[t][i].misses \in 0..MaxMisses
    BY <2>3 DEF Track
  <2>5. PICK n \in 1..Len(recent) :
          /\ n <= tracks[t][i].misses + 1
          /\ \E m \in 1..Len(recent[n][t]) : Dist(recent[n][t][m], tracks[t][i].at) < MaxDist
    BY <2>2 DEF TrackerInv, WasSeen
  <2>6. PICK m \in 1..Len(recent[n][t]) : Dist(recent[n][t][m], tracks[t][i].at) < MaxDist
    BY <2>5
  <2>7. recent[n][t] \in Seq(Nat)
    BY <2>1, <2>5, DetectionsAreSeqs
  <2>8. recent[n][t][m] \in Range(recent[n][t])
    BY <2>6, <2>7 DEF Range
  <2>9. n <= MaxMisses + 1 /\ MaxMisses \in Nat
    BY <2>2, <2>4, <2>5, Limits
  <2>10. Min({Len(recent), MaxMisses + 1})
           = IF Len(recent) <= MaxMisses + 1 THEN Len(recent) ELSE MaxMisses + 1
    BY <2>2, <2>9, MinOfTwo
  <2>11. n \in 1..Min({Len(recent), MaxMisses + 1})
    BY <2>2, <2>9, <2>10
  <2> QED BY <2>6, <2>8, <2>11
<1> QED BY <1>1, TracksInvariance, PTL

\* The slot offered as empty is none of those at whose centre a tool lay for the
\* last min_hits frames.
THEOREM TakenIsNotOffered == TracksSpec => []TakenSlotNotOffered
<1>1. TracksInv => TakenSlotNotOffered
  BY DEF TracksInv, SceneInv, TakenSlotNotOffered
<1> QED BY <1>1, TracksInvariance, PTL

\* A tool detected at one place only, for as many frames as confirm a track and
\* forget one, is published once, and in the slot where it lies.
THEOREM StillToolIsOne == TracksSpec => []StillToolIsShownOnce
<1>1. TracksInv => StillToolIsShownOnce
  <2> SUFFICES ASSUME TrackerInv, NEW t \in Tools, NEW p \in Places, Lies(recent, t, p, Memory)
               PROVE  Len(Shown(tracks)[t]) = 1 /\ Dist(Shown(tracks)[t][1], p) < HalfSlot
    BY DEF TracksInv, StillToolIsShownOnce
  <2>1. p \in Nat /\ Memory \in Nat /\ Memory >= MinHits /\ Memory > MaxMisses /\ MaxMisses \in Nat
    BY PlacesAssumption, Limits
  <2>2. PICK i \in 1..Len(tracks[t]) :
          /\ tracks[t][i].confirmed /\ Dist(tracks[t][i].at, p) < HalfSlot
          /\ \A j \in 1..Len(tracks[t]) : j # i => tracks[t][j].misses >= Memory
    BY <2>1, LiesIsConfirmed
  <2>3. tracks \in [Tools -> Seq(Track)] /\ tracks[t] \in Seq(Track)
    BY DEF TrackerInv, TracksOK
  <2>4. ASSUME NEW j \in 1..Len(tracks[t]), j # i PROVE FALSE
    <3>1. tracks[t][j] \in Track
      BY <2>3, AtIsNat
    <3>2. tracks[t][j].misses \in 0..MaxMisses /\ tracks[t][j].misses >= Memory
      BY <2>2, <2>4, <3>1 DEF Track
    <3> QED BY <2>1, <3>2
  <2>5. i \in Confirmed(tracks[t]) /\ \A j \in 1..Len(tracks[t]) : j \in Confirmed(tracks[t]) => j = i
    BY <2>2, <2>4 DEF Confirmed
  <2> DEFINE ks == Only(tracks[t], Confirmed(tracks[t]))
  <2>6. Len(ks) = 1 /\ ks[1] = tracks[t][i]
    BY <2>3, <2>5, OnlyOne
  <2>7. /\ Len(Shown(tracks)[t]) = Len(ks)
        /\ \A j \in 1..Len(Shown(tracks)[t]) : Shown(tracks)[t][j] = ks[j].at
    BY <2>3, ShownIs
  <2> HIDE DEF ks
  <2> QED BY <2>2, <2>6, <2>7
<1> QED BY <1>1, TracksInvariance, PTL

----------------------------------------------------------------------------
(* The hand-over *)

\* The frames the node has counted since it lost the hand bound those since it saw it.
CountsAgree == locked => unseen <= (IF missing = None THEN 0 ELSE missing + 1)

ReadyIsLocked == ready => locked /\ (astray => unseen > 0)

\* What may have been commanded since the E-stop, by how far the hand-over has come.
Late(place) == CASE place \in {"above", "let_go"} -> 1
                 [] place \in {"down", "idle"}    -> 2
                 [] OTHER                         -> 0
LateByPhase == late <= Late(phase) /\ (~latch => late = 0)

IInv == TypeOK /\ CountsAgree /\ ReadyIsLocked /\ LateByPhase

SeenOK  == seen \in Seq(Spots) /\ Len(seen) <= StableFrames
LockOK  == locked \in BOOLEAN /\ lockedPos \in Spots \cup {None} /\ (locked => lockedPos # None)
CountOK == missing \in 0..Keep \cup {None} /\ unseen \in 0..Keep + 2 /\ astray \in BOOLEAN
ReadyOK == ready \in BOOLEAN
ViewOK  == taskPose \in Spots \cup {None} /\ taskReady \in BOOLEAN
TaskOK  ==
  /\ phase \in Phases /\ target \in Spots \cup {None}
  /\ phase \in {"above", "down", "place"} => target # None
  /\ taken \in BOOLEAN /\ latch \in BOOLEAN
LateOK == late \in Nat

Types == SeenOK /\ LockOK /\ CountOK /\ ReadyOK /\ ViewOK
Node == Types /\ CountsAgree /\ ReadyIsLocked
Task == TaskOK /\ LateOK /\ LateByPhase

LEMMA IInvInParts == IInv <=> hand \in Views /\ Node /\ Task
BY DEF IInv, TypeOK, Node, Task, Types, SeenOK, LockOK, CountOK, ReadyOK, ViewOK, TaskOK, LateOK

LEMMA PartsInIInv == hand' \in Views /\ Node' /\ Task' => IInv'
BY DEF IInv, TypeOK, Node, Task, Types, SeenOK, LockOK, CountOK, ReadyOK, ViewOK, TaskOK, LateOK,
       Views, Spots, Phases, Late, LateByPhase, CountsAgree, ReadyIsLocked

LEMMA InitIInv == Init => IInv
<1> SUFFICES ASSUME Init PROVE IInv
  OBVIOUS
<1>1. SeenOK
  BY ConstantsAssumption DEF Init, SeenOK
<1>2. LockOK /\ ReadyOK /\ ViewOK
  BY DEF Init, LockOK, ReadyOK, ViewOK
<1>3. CountOK
  <2>1. missing \in 0..Keep \cup {None} /\ unseen \in 0..Keep + 2
    BY ConstantsAssumption DEF Init
  <2>2. astray \in BOOLEAN
    BY DEF Init
  <2> QED BY <2>1, <2>2 DEF CountOK
<1>4. hand \in Views /\ TaskOK
  BY DEF Init, Views, TaskOK, Phases
<1>5. CountsAgree /\ ReadyIsLocked
  BY DEF Init, CountsAgree, ReadyIsLocked
<1>6. LateOK /\ LateByPhase
  BY DEF Init, LateOK, LateByPhase, Late
<1> QED BY <1>1, <1>2, <1>3, <1>4, <1>5, <1>6, IInvInParts DEF Node, Task, Types

----------------------------------------------------------------------------
(* hand_node                                                               *)

\* What a frame may make of the node: what is told is locked, and a lock was seen
\* lately by both counts.
LEMMA FrameLeaves ==
  ASSUME Node, unseen' \in 0..Keep + 2, astray' \in BOOLEAN,
         seen' \in Seq(Spots), Len(seen') <= StableFrames,
         locked' \in BOOLEAN, lockedPos' \in Spots \cup {None}, locked' => lockedPos' # None,
         missing' \in 0..Keep \cup {None},
         locked' => unseen' <= (IF missing' = None THEN 0 ELSE missing' + 1),
         NEW told \in BOOLEAN, told => locked' /\ (astray' => unseen' > 0), NEW where \in Spots \cup {None},
         Publish(told, where)
  PROVE  Node'
<1>1. SeenOK'
  BY DEF SeenOK
<1>2. LockOK' /\ ReadyOK'
  BY DEF LockOK, ReadyOK, Publish
<1>3. CountOK'
  BY DEF CountOK
<1>4. ViewOK'
  BY DEF Publish, ViewOK, Node, Types
<1>5. CountsAgree' /\ ReadyIsLocked'
  BY DEF Publish, CountsAgree, ReadyIsLocked
<1> QED BY <1>1, <1>2, <1>3, <1>4, <1>5 DEF Node, Types

LEMMA RecentBounds ==
  ASSUME SeenOK, NEW p \in Spots
  PROVE  Recent(p) \in Seq(Spots) /\ Len(Recent(p)) <= StableFrames
<1>1. CASE Len(seen) < StableFrames
  BY <1>1, ConstantsAssumption DEF Recent, SeenOK
<1>2. CASE ~(Len(seen) < StableFrames)
  <2>1. seen # <<>> /\ Len(seen) = StableFrames /\ Recent(p) = Append(Tail(seen), p)
    BY <1>2, ConstantsAssumption DEF Recent, SeenOK
  <2>2. Tail(seen) \in Seq(Spots) /\ Len(Tail(seen)) = StableFrames - 1
    BY <2>1 DEF SeenOK
  <2> QED BY <2>1, <2>2, ConstantsAssumption
<1> QED BY <1>1, <1>2

LEMMA ResetLeaves ==
  ASSUME Node, unseen' \in 0..Keep + 2, astray' \in BOOLEAN, ResetState, Publish(FALSE, None)
  PROVE  Node'
<1>1. <<>> \in Seq(Spots) /\ Len(<<>>) <= StableFrames
  BY ConstantsAssumption
<1> QED BY <1>1, FrameLeaves DEF ResetState

LEMMA NotDetectedKeeps ==
  ASSUME Node, NotDetected, unseen' = IF unseen <= Keep + 1 THEN unseen + 1 ELSE Keep + 2,
         astray' = astray
  PROVE  Node'
<1>0. /\ unseen \in 0..Keep + 2 /\ unseen' \in 0..Keep + 2 /\ unseen' > 0
      /\ missing \in 0..Keep \cup {None} /\ astray' \in BOOLEAN
  BY ConstantsAssumption DEF Node, Types, CountOK
<1> DEFINE elapsed == IF missing = None THEN 0 ELSE missing + 1
<1>1. CASE locked /\ elapsed <= Keep
  <2>1. /\ missing' = elapsed /\ seen' = seen /\ locked' = locked /\ lockedPos' = lockedPos
        /\ Publish(TRUE, lockedPos)
    BY <1>1 DEF NotDetected
  <2>2. unseen <= elapsed
    BY <1>1 DEF CountsAgree, Node
  <2>3. elapsed \in Nat
    BY <1>0
  <2> HIDE DEF elapsed
  <2>4. elapsed \in 0..Keep /\ unseen' <= elapsed + 1 /\ unseen' \in Nat
    BY <1>0, <1>1, <2>2, <2>3, ConstantsAssumption
  <2>6. seen \in Seq(Spots) /\ Len(seen) <= StableFrames
    BY DEF Node, Types, SeenOK
  <2>7. locked = TRUE /\ lockedPos \in Spots \cup {None} /\ lockedPos # None
    BY <1>1 DEF Node, Types, LockOK
  <2>8. seen' \in Seq(Spots) /\ Len(seen') <= StableFrames
    BY <2>1, <2>6
  <2>9. locked' \in BOOLEAN /\ lockedPos' \in Spots \cup {None} /\ lockedPos' # None /\ locked'
    BY <2>1, <2>7
  <2>10. missing' \in 0..Keep \cup {None}
    BY <2>1, <2>4
  <2>11. unseen' <= (IF missing' = None THEN 0 ELSE missing' + 1)
    BY <2>1, <2>4, ConstantsAssumption
  <2>12. Node'
    BY <1>0, <2>1, <2>8, <2>9, <2>10, <2>11, FrameLeaves
  <2> QED BY <2>12
<1>2. CASE ~(locked /\ elapsed <= Keep)
  BY <1>0, <1>2, ResetLeaves DEF NotDetected
<1> QED BY <1>1, <1>2

LEMMA WrongPostureKeeps ==
  ASSUME Node, WrongPosture, unseen' \in 0..Keep + 2, astray' \in BOOLEAN
  PROVE  Node'
<1>1. CASE locked
  BY <1>1, ResetLeaves DEF WrongPosture
<1>2. CASE ~locked
  <2>1. /\ seen' = seen /\ locked' = locked /\ lockedPos' = lockedPos /\ missing' = missing
        /\ Publish(FALSE, None)
    BY <1>2 DEF WrongPosture
  <2>2. /\ seen \in Seq(Spots) /\ Len(seen) <= StableFrames
        /\ missing \in 0..Keep \cup {None}
    BY DEF Node, Types, SeenOK, CountOK
  <2>3. locked = FALSE /\ lockedPos \in Spots \cup {None}
    BY <1>2 DEF Node, Types, LockOK
  <2> QED BY <2>1, <2>2, <2>3, FrameLeaves
<1> QED BY <1>1, <1>2

LEMMA OpenPalmKeeps ==
  ASSUME Node, hand \in Spots, OpenPalm(hand), unseen' = 0,
         astray' = (locked /\ locked' /\ hand # lockedPos')
  PROVE  Node'
<1> DEFINE frames == Recent(hand)
<1>1. frames \in Seq(Spots) /\ Len(frames) <= StableFrames
  BY RecentBounds DEF Node, Types
<1>2. locked \in BOOLEAN /\ lockedPos \in Spots \cup {None} /\ (locked => lockedPos # None)
  BY DEF Node, Types, LockOK
<1>0. unseen' \in 0..Keep + 2 /\ astray' \in BOOLEAN
  BY ConstantsAssumption
<1>3. CASE NotYet(frames)
  <2>1. /\ seen' = frames /\ missing' = None /\ locked' = locked /\ lockedPos' = lockedPos
        /\ Publish(FALSE, None)
    BY <1>3 DEF NotYet
  <2> HIDE DEF frames
  <2>4. seen' \in Seq(Spots) /\ Len(seen') <= StableFrames
    BY <1>1, <2>1
  <2>5. locked' \in BOOLEAN /\ lockedPos' \in Spots \cup {None} /\ (locked' => lockedPos' # None)
    BY <1>2, <2>1
  <2>6. missing' \in 0..Keep \cup {None}
    BY <2>1
  <2>7. unseen' <= (IF missing' = None THEN 0 ELSE missing' + 1)
    BY <2>1
  <2>8. Node'
    BY <1>0, <2>1, <2>4, <2>5, <2>6, <2>7, FrameLeaves
  <2> QED BY <2>8
<1>4. CASE Lock(frames)
  <2>1. lockedPos' \in Spots
    BY <1>4 DEF Lock, Between
  <2>2. /\ seen' = frames /\ missing' = None /\ locked' = TRUE /\ ~locked
        /\ Publish(TRUE, lockedPos')
    BY <1>4 DEF Lock
  <2>3. ~astray'
    BY <2>2
  <2>4. lockedPos' # None
    BY <2>1, ConstantsAssumption DEF Spots
  <2> HIDE DEF frames
  <2>5. seen' \in Seq(Spots) /\ Len(seen') <= StableFrames
    BY <1>1, <2>2
  <2>6. locked' \in BOOLEAN /\ lockedPos' \in Spots \cup {None} /\ locked'
    BY <2>1, <2>2
  <2>7. missing' \in 0..Keep \cup {None}
    BY <2>2
  <2>8. unseen' <= (IF missing' = None THEN 0 ELSE missing' + 1)
    BY <2>2
  <2>9. Node'
    BY <1>0, <2>2, <2>3, <2>4, <2>5, <2>6, <2>7, <2>8, FrameLeaves
  <2> QED BY <2>9
<1>5. CASE StillLocked(frames, hand)
  <2>1. locked = TRUE /\ lockedPos \in Spots
    BY <1>2, <1>5 DEF StillLocked
  <2>2. CASE Away(hand, lockedPos) = 0
    <3>1. /\ seen' = frames /\ missing' = None /\ locked' = locked /\ lockedPos' = lockedPos
          /\ Publish(TRUE, lockedPos)
      <4>1. Away(hand, lockedPos) # 1
        BY <2>2
      <4> QED BY <1>5, <2>2, <4>1 DEF StillLocked
    <3>2. hand = lockedPos
      BY <2>1, <2>2, ConstantsAssumption DEF Away, Spots
    <3>3. ~astray'
      BY <3>1, <3>2
    <3> HIDE DEF frames
    <3>4. seen' \in Seq(Spots) /\ Len(seen') <= StableFrames
      BY <1>1, <3>1
    <3>5. locked' \in BOOLEAN /\ lockedPos' \in Spots \cup {None} /\ (locked' => lockedPos' # None)
      BY <1>2, <3>1
    <3>6. missing' \in 0..Keep \cup {None}
      BY <3>1
    <3>7. unseen' <= (IF missing' = None THEN 0 ELSE missing' + 1)
      BY <3>1
    <3>8. locked'
      BY <2>1, <3>1
    <3>9. Node'
      BY <1>0, <2>1, <3>1, <3>3, <3>4, <3>5, <3>6, <3>7, <3>8, FrameLeaves
    <3> QED BY <3>9
  <2>3. CASE Away(hand, lockedPos) = 1
    <3>1. /\ seen' = <<>> /\ missing' = None /\ locked' = FALSE /\ lockedPos' = hand
          /\ Publish(FALSE, None)
      <4>1. Away(hand, lockedPos) # 0
        BY <2>3
      <4> QED BY <1>5, <2>3, <4>1 DEF StillLocked
    <3>2. <<>> \in Seq(Spots) /\ Len(<<>>) <= StableFrames
      BY ConstantsAssumption
    <3> QED BY <1>0, <3>1, <3>2, FrameLeaves
  <2>4. CASE ~(Away(hand, lockedPos) = 0) /\ ~(Away(hand, lockedPos) = 1)
    BY <1>0, <1>5, <2>4, ResetLeaves DEF StillLocked
  <2> QED BY <2>2, <2>3, <2>4
<1> QED BY <1>3, <1>4, <1>5 DEF OpenPalm

LEMMA FrameKeeps ==
  ASSUME IInv, Frame PROVE IInv'
<1>1. hand \in Views /\ Node /\ Task
  BY IInvInParts
<1>2. hand' = hand /\ Task'
  BY <1>1 DEF Frame, task, Task, TaskOK, LateOK, LateByPhase, Late
<1>3. Node'
  <2>1. CASE hand = None
    <3>1. NotDetected
      BY <2>1, ConstantsAssumption DEF Frame
    <3>2. /\ unseen' = IF unseen <= Keep + 1 THEN unseen + 1 ELSE Keep + 2
          /\ astray' = astray
      BY <2>1, ConstantsAssumption DEF Frame, Spots
    <3> QED BY <1>1, <3>1, <3>2, NotDetectedKeeps
  <2>2. CASE hand = Wrong
    <3>1. WrongPosture
      BY <2>2, ConstantsAssumption DEF Frame
    <3>2. unseen' = Keep + 2 /\ astray' = astray
      BY <2>2, ConstantsAssumption DEF Frame, Spots
    <3>3. unseen' \in 0..Keep + 2 /\ astray' \in BOOLEAN
      BY <1>1, <3>2, ConstantsAssumption DEF Node, Types, CountOK
    <3> QED BY <1>1, <3>1, <3>3, WrongPostureKeeps
  <2>3. CASE hand \in Spots
    <3>1. hand # None /\ hand # Wrong
      BY <2>3, ConstantsAssumption DEF Spots
    <3>2. OpenPalm(hand)
      BY <3>1 DEF Frame
    <3>3. unseen' = 0 /\ astray' = (locked /\ locked' /\ hand # lockedPos')
      BY <2>3, <3>1 DEF Frame
    <3> QED BY <1>1, <2>3, <3>2, <3>3, OpenPalmKeeps
  <2> QED BY <1>1, <2>1, <2>2, <2>3 DEF Views
<1>4. hand' \in Views
  BY <1>1, <1>2 DEF Views, Spots
<1> QED BY <1>2, <1>3, <1>4, PartsInIInv

----------------------------------------------------------------------------
(* The hand-over                                                           *)

USE DEF node, view, task

\* What the node and its listener hold is theirs: no step of the hand-over touches it.
LEMMA NodeStands ==
  ASSUME Node, UNCHANGED <<node, view>> PROVE Node'
BY DEF Node, Types, SeenOK, LockOK, CountOK, ReadyOK, ViewOK, CountsAgree, ReadyIsLocked

LEMMA HandMovesKeeps ==
  ASSUME IInv, HandMoves PROVE IInv'
<1>1. Node /\ Task
  BY IInvInParts
<1>2. Node'
  BY <1>1, NodeStands DEF HandMoves
<1>3. Task'
  BY <1>1 DEF HandMoves, Task, TaskOK, LateOK, LateByPhase, Late
<1>4. hand' \in Views
  BY DEF HandMoves
<1> QED BY <1>2, <1>3, <1>4, PartsInIInv

\* What a step of the hand-over must show.
LEMMA TaskStep ==
  ASSUME IInv, UNCHANGED <<hand, node, view>>, Task'
  PROVE  IInv'
<1>1. Node' /\ hand' \in Views
  BY IInvInParts, NodeStands DEF Views, Spots
<1> QED BY <1>1, PartsInIInv

LEMMA BeginKeeps ==
  ASSUME IInv, NEW test \in BOOLEAN, Begin(test) PROVE IInv'
<1>1. Node /\ Task
  BY IInvInParts
<1>2. TaskOK'
  BY <1>1 DEF Begin, Goto, Task, TaskOK, Phases
<1>3. LateOK' /\ LateByPhase'
  BY <1>1 DEF Begin, Goto, Task, TaskOK, LateOK, LateByPhase, Late
<1> QED BY <1>2, <1>3, TaskStep DEF Begin, Task

LEMMA AbortKeeps ==
  ASSUME IInv, Abort PROVE IInv'
<1>1. Node /\ Task
  BY IInvInParts
<1>2. TaskOK'
  BY <1>1 DEF Abort, Ends, Task, TaskOK, Phases
<1>3. LateOK' /\ LateByPhase'
  BY <1>1 DEF Abort, Ends, Task, TaskOK, LateOK, LateByPhase, Late
<1> QED BY <1>2, <1>3, TaskStep DEF Abort, Task

LEMMA WaitHandPoseKeeps ==
  ASSUME IInv, WaitHandPose PROVE IInv'
<1>1. Node /\ Task
  BY IInvInParts
<1>2. TaskOK'
  BY <1>1 DEF WaitHandPose, Goto, Task, TaskOK, Phases
<1>3. LateOK' /\ LateByPhase'
  BY <1>1 DEF WaitHandPose, Goto, Task, TaskOK, LateOK, LateByPhase, Late
<1> QED BY <1>2, <1>3, TaskStep DEF WaitHandPose, Task

LEMMA FetchKeeps ==
  ASSUME IInv, Fetch PROVE IInv'
<1>1. Node /\ Task
  BY IInvInParts
<1>2. TaskOK'
  BY <1>1 DEF Fetch, Goto, Task, TaskOK, Phases
<1>3. LateOK' /\ LateByPhase'
  BY <1>1 DEF Fetch, Goto, Task, TaskOK, LateOK, LateByPhase, Late
<1> QED BY <1>2, <1>3, TaskStep DEF Fetch, Task

LEMMA ApproachKeeps ==
  ASSUME IInv, Approach PROVE IInv'
<1>1. Node /\ Task
  BY IInvInParts
<1>2. TaskOK'
  BY <1>1 DEF Approach, Goto, Command, Task, TaskOK, Phases, ViewOK, Node, Types
<1>3. LateOK' /\ LateByPhase'
  BY <1>1 DEF Approach, Goto, Command, Task, TaskOK, LateOK, LateByPhase, Late
<1> QED BY <1>2, <1>3, TaskStep DEF Approach, Task

LEMMA DescendKeeps ==
  ASSUME IInv, Descend PROVE IInv'
<1>1. Node /\ Task
  BY IInvInParts
<1>2. TaskOK'
  BY <1>1 DEF Descend, Goto, Command, Task, TaskOK, Phases
<1>3. LateOK' /\ LateByPhase'
  BY <1>1 DEF Descend, Goto, Command, Task, TaskOK, LateOK, LateByPhase, Late
<1> QED BY <1>2, <1>3, TaskStep DEF Descend, Task

LEMMA DescendedKeeps ==
  ASSUME IInv, Descended PROVE IInv'
<1>1. Node /\ Task
  BY IInvInParts
<1>2. TaskOK'
  BY <1>1 DEF Descended, Goto, Task, TaskOK, Phases
<1>3. LateOK' /\ LateByPhase'
  BY <1>1 DEF Descended, Goto, Task, TaskOK, LateOK, LateByPhase, Late
<1> QED BY <1>2, <1>3, TaskStep DEF Descended, Task

LEMMA PlaceKeeps ==
  ASSUME IInv, Place PROVE IInv'
<1>1. Node /\ Task
  BY IInvInParts
<1>2. TaskOK'
  BY <1>1 DEF Place, Goto, Command, Task, TaskOK, Phases
<1>3. LateOK' /\ LateByPhase'
  BY <1>1 DEF Place, Goto, Command, Task, TaskOK, LateOK, LateByPhase, Late
<1> QED BY <1>2, <1>3, TaskStep DEF Place, Task

LEMMA LetGoKeeps ==
  ASSUME IInv, LetGo PROVE IInv'
<1>1. Node /\ Task
  BY IInvInParts
<1>2. TaskOK'
  BY <1>1 DEF LetGo, Goto, Task, TaskOK, Phases
<1>3. LateOK' /\ LateByPhase'
  BY <1>1 DEF LetGo, Goto, Task, TaskOK, LateOK, LateByPhase, Late
<1> QED BY <1>2, <1>3, TaskStep DEF LetGo, Task

LEMMA HomeKeeps ==
  ASSUME IInv, Home PROVE IInv'
<1>1. Node /\ Task
  BY IInvInParts
<1>2. TaskOK'
  BY <1>1 DEF Home, Ends, Task, TaskOK, Phases
<1>3. LateOK' /\ LateByPhase'
  BY <1>1 DEF Home, Ends, Task, TaskOK, LateOK, LateByPhase, Late
<1> QED BY <1>2, <1>3, TaskStep DEF Home, Task

LEMMA EStopKeeps ==
  ASSUME IInv, EStop PROVE IInv'
<1>1. Node /\ Task
  BY IInvInParts
<1>2. TaskOK'
  BY <1>1 DEF EStop, Task, TaskOK, Phases
<1>3. LateOK' /\ LateByPhase'
  BY <1>1 DEF EStop, Task, TaskOK, LateOK, LateByPhase, Late
<1> QED BY <1>2, <1>3, TaskStep DEF EStop, Task

LEMMA EStopResetKeeps ==
  ASSUME IInv, EStopReset PROVE IInv'
<1>1. Node /\ Task
  BY IInvInParts
<1>2. TaskOK'
  BY <1>1 DEF EStopReset, Task, TaskOK, Phases
<1>3. LateOK' /\ LateByPhase'
  BY <1>1 DEF EStopReset, Task, TaskOK, LateOK, LateByPhase, Late
<1> QED BY <1>2, <1>3, TaskStep DEF EStopReset, Task

LEMMA StutterKeeps == ASSUME IInv, UNCHANGED vars PROVE IInv'
<1>1. Node /\ Task
  BY IInvInParts
<1>2. Task'
  BY <1>1 DEF vars, Task, TaskOK, LateOK, LateByPhase, Late
<1> QED BY <1>2, TaskStep DEF vars

LEMMA IInvInductive == IInv /\ [Next]_vars => IInv'
BY HandMovesKeeps, FrameKeeps, BeginKeeps, AbortKeeps, WaitHandPoseKeeps, FetchKeeps,
   ApproachKeeps, DescendKeeps, DescendedKeeps, PlaceKeeps, LetGoKeeps, HomeKeeps, EStopKeeps, EStopResetKeeps,
   StutterKeeps
   DEF Next

LEMMA Invariance == Spec => []IInv
<1>1. IInv /\ [Next]_vars => IInv'
  BY IInvInductive
<1> QED BY InitIInv, <1>1, PTL DEF Spec

\* The types of the hand-over's state, among them that there is a target whenever the
\* arm goes down to one, and that a lock has a place.
THEOREM TypeCorrect == Spec => []TypeOK
<1>1. IInv => TypeOK BY DEF IInv
<1> QED BY Invariance, <1>1, PTL

\* What is called ready is locked, an open palm was seen no longer ago than an occlusion
\* may last, and a palm in view lies where the lock is, in whatever order postures, losses
\* and movements come (_handle_no_detection and the checks of _on_hands_msg).
THEOREM ReadyWasSeen == Spec => []ReadyIsFresh
<1>1. IInv => ReadyIsFresh
  <2> SUFFICES ASSUME IInv, ready
                PROVE  locked /\ unseen <= Keep + 1 /\ (astray => unseen > 0)
    BY DEF ReadyIsFresh
  <2>1. /\ locked /\ missing \in 0..Keep \cup {None} /\ unseen \in 0..Keep + 2
        /\ astray => unseen > 0
    BY IInvInParts DEF IInv, ReadyIsLocked, Node, Types, CountOK
  <2>2. unseen <= (IF missing = None THEN 0 ELSE missing + 1)
    BY <2>1 DEF IInv, CountsAgree
  <2> QED BY <2>1, <2>2, ConstantsAssumption
<1> QED BY Invariance, <1>1, PTL

\* However E-stops, resets and aborted hand-overs follow each other, no third motion is
\* commanded after an E-stop.
THEOREM NoThirdMotion == Spec => []TwoMotionsAfterEStop
<1>1. IInv => TwoMotionsAfterEStop
  <2> SUFFICES ASSUME IInv PROVE late <= 2
    BY DEF TwoMotionsAfterEStop
  <2>1. late \in Nat /\ late <= Late(phase)
    BY IInvInParts DEF IInv, LateByPhase, Task, LateOK
  <2>2. Late(phase) \in {0, 1, 2}
    BY DEF Late
  <2> QED BY <2>1, <2>2
<1> QED BY Invariance, <1>1, PTL
=============================================================================
