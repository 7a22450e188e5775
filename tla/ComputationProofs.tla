-------------------------- MODULE ComputationProofs --------------------------
(***************************************************************************)
(* Proofs about Computation.                                               *)
(***************************************************************************)
EXTENDS Computation, SequenceTheorems, FiniteSetTheorems, WellFoundedInduction, TLAPS

LEMMA Least ==
  ASSUME NEW S \in SUBSET Nat, S # {}
  PROVE  \E m \in S : \A n \in S : m <= n
  <1>1. PICK m \in S : \A n \in S : <<n, m>> \notin OpToRel(<, Nat)
    BY NatLessThanWellFounded, WFMin, Zenon
  <1>2. \A n \in S : ~(n < m)
    BY <1>1 DEF OpToRel
  <1> QED BY <1>2

LEMMA Induct ==
  ASSUME NEW T, 0 \in T, \A n \in Nat : n \in T => n + 1 \in T
  PROVE  \A n \in Nat : n \in T
  <1>1. SUFFICES ASSUME Nat \ T # {}
                 PROVE  FALSE
    OBVIOUS
  <1>2. PICK m \in Nat \ T : \A n \in Nat \ T : m <= n
    BY <1>1, Least
  <1>3. m # 0 /\ m - 1 \in Nat
    BY <1>2
  <1>4. m - 1 \in T
    BY <1>2, <1>3
  <1> QED BY <1>2, <1>3, <1>4

(* What a function F gives, again and again, from x.                       *)
Follows(h, F, x, n) == h[0] = x /\ \A k \in 0 .. n - 1 : h[k + 1] = F[h[k]]

LEMMA SomeFollow ==
  ASSUME NEW S, NEW x \in S, NEW F \in [S -> S]
  PROVE  \A n \in Nat : \E h \in [0 .. n -> S] : Follows(h, F, x, n)
  <1> DEFINE T == {n \in Nat : \E h \in [0 .. n -> S] : Follows(h, F, x, n)}
  <1>1. 0 \in T
    <2>1. [k \in 0 .. 0 |-> x] \in [0 .. 0 -> S]
      OBVIOUS
    <2>2. Follows([k \in 0 .. 0 |-> x], F, x, 0)
      BY DEF Follows
    <2> QED BY <2>1, <2>2
  <1>2. ASSUME NEW n \in Nat, n \in T
        PROVE  n + 1 \in T
    <2>1. PICK h \in [0 .. n -> S] : Follows(h, F, x, n)
      BY <1>2
    <2> DEFINE g == [k \in 0 .. n + 1 |-> IF k = n + 1 THEN F[h[n]] ELSE h[k]]
    <2>2. g \in [0 .. n + 1 -> S]
      OBVIOUS
    <2>3. g[0] = x
      BY <2>1 DEF Follows
    <2>4. \A k \in 0 .. n : g[k + 1] = F[g[k]]
      BY <2>1 DEF Follows
    <2> HIDE DEF g
    <2>5. Follows(g, F, x, n + 1)
      BY <2>3, <2>4 DEF Follows
    <2> QED BY <2>2, <2>5
  <1> HIDE DEF T
  <1>3. \A n \in Nat : n \in T
    BY <1>1, <1>2, Induct
  <1> QED BY <1>3 DEF T

Iterates(g, F, x) == g[0] = x /\ \A n \in Nat : g[n + 1] = F[g[n]]

LEMMA Iteration ==
  ASSUME NEW S, NEW x \in S, NEW F \in [S -> S]
  PROVE  \E g \in [Nat -> S] : Iterates(g, F, x)
  <1> DEFINE H(n) == CHOOSE h : h \in [0 .. n -> S] /\ Follows(h, F, x, n)
             g == [n \in Nat |-> H(n)[n]]
  <1>1. \A n \in Nat : H(n) \in [0 .. n -> S] /\ Follows(H(n), F, x, n)
    BY SomeFollow
  <1> HIDE DEF H
  <1>2. g \in [Nat -> S]
    BY <1>1
  <1>3. g[0] = x
    BY <1>1 DEF Follows
  <1>4. ASSUME NEW m \in Nat, NEW n \in Nat, m <= n
        PROVE  H(n)[m] = H(m)[m]
    <2> DEFINE T == {k \in Nat : k <= m => H(n)[k] = H(m)[k]}
    <2>1. 0 \in T
      BY <1>1 DEF Follows
    <2>2. ASSUME NEW k \in Nat, k \in T
          PROVE  k + 1 \in T
      <3>1. CASE k + 1 <= m
        <4>1. H(n)[k + 1] = F[H(n)[k]] /\ H(m)[k + 1] = F[H(m)[k]]
          BY <1>1, <1>4, <3>1 DEF Follows
        <4> QED BY <2>2, <3>1, <4>1
      <3> QED BY <2>2, <3>1
    <2> HIDE DEF T
    <2>3. \A k \in Nat : k \in T
      BY <2>1, <2>2, Induct
    <2> QED BY <2>3 DEF T
  <1>5. ASSUME NEW n \in Nat
        PROVE  g[n + 1] = F[g[n]]
    <2>1. H(n + 1)[n] = H(n)[n]
      BY <1>4
    <2>2. H(n + 1)[n + 1] = F[H(n + 1)[n]]
      BY <1>1 DEF Follows
    <2> QED BY <2>1, <2>2
  <1> HIDE DEF g
  <1> QED BY <1>2, <1>3, <1>5 DEF Iterates


-------------------------------------------------------------------------------
(* Powers of two: there are as many subsets of a set of n elements.        *)
LEMMA Powers == \A n \in Nat : 2 ^ n \in Nat \ {0}
  <1> SUFFICES ASSUME NEW n \in Nat PROVE 2 ^ n \in Nat \ {0}
    OBVIOUS
  <1>1. IsFiniteSet(1 .. n) /\ Cardinality(1 .. n) = n
    BY FS_Interval
  <1>2. IsFiniteSet(SUBSET (1 .. n)) /\ Cardinality(SUBSET (1 .. n)) = 2 ^ n
    BY <1>1, FS_SUBSET
  <1>3. Cardinality(SUBSET (1 .. n)) \in Nat
    BY <1>2, FS_CardinalityType
  <1>4. Cardinality(SUBSET (1 .. n)) # 0
    <2>1. {} \in SUBSET (1 .. n)
      OBVIOUS
    <2> QED BY <1>2, <2>1, FS_EmptySet
  <1> QED BY <1>2, <1>3, <1>4

LEMMA Doubled == \A n \in Nat : 2 ^ (n + 1) = 2 ^ n + 2 ^ n
  <1> SUFFICES ASSUME NEW n \in Nat PROVE 2 ^ (n + 1) = 2 ^ n + 2 ^ n
    OBVIOUS
  <1> DEFINE S == SUBSET (1 .. n)
             T == {A \cup {n + 1} : A \in S}
  <1>1. /\ IsFiniteSet(1 .. n) /\ Cardinality(1 .. n) = n
        /\ IsFiniteSet(1 .. n + 1) /\ Cardinality(1 .. n + 1) = n + 1
    BY FS_Interval
  <1>2. IsFiniteSet(S) /\ Cardinality(S) = 2 ^ n
    BY <1>1, FS_SUBSET
  <1>3. Cardinality(SUBSET (1 .. n + 1)) = 2 ^ (n + 1)
    BY <1>1, FS_SUBSET
  <1>4. SUBSET (1 .. n + 1) = S \cup T
    <2>1. 1 .. n + 1 = (1 .. n) \cup {n + 1}
      OBVIOUS
    <2>2. ASSUME NEW D \in SUBSET (1 .. n + 1), n + 1 \in D PROVE D \in T
      <3>1. D \ {n + 1} \in S /\ D = (D \ {n + 1}) \cup {n + 1}
        BY <2>1, <2>2
      <3> QED BY <3>1
    <2> QED BY <2>1, <2>2
  <1>5. S \cap T = {}
    <2>1. n + 1 \notin 1 .. n
      OBVIOUS
    <2> QED BY <2>1
  <1>6. ExistsBijection(S, T)
    <2> DEFINE f == [A \in S |-> A \cup {n + 1}]
    <2>1. f \in [S -> T]
      OBVIOUS
    <2>2. ASSUME NEW A \in S, NEW D \in S, f[A] = f[D] PROVE A = D
      <3>1. n + 1 \notin A /\ n + 1 \notin D
        OBVIOUS
      <3> QED BY <2>2, <3>1
    <2>3. \A y \in T : \E A \in S : f[A] = y
      OBVIOUS
    <2> HIDE DEF S, T, f
    <2>4. f \in Bijection(S, T)
      BY <2>1, <2>2, <2>3 DEF Bijection, Injection, Surjection, IsInjective
    <2> QED BY <2>4 DEF ExistsBijection
  <1> HIDE DEF S, T
  <1>7. IsFiniteSet(T) /\ Cardinality(T) = Cardinality(S)
    BY <1>2, <1>6, FS_Bijection
  <1>8. Cardinality(S \cup T) = Cardinality(S) + Cardinality(T) - Cardinality(S \cap T)
    BY <1>2, <1>7, FS_Union
  <1>9. Cardinality(S \cap T) = 0
    BY <1>5, FS_EmptySet
  <1>10. PICK c \in Nat : c = Cardinality(S)
    BY <1>2, FS_CardinalityType
  <1>11. Cardinality(S \cup T) = c + c
    BY <1>7, <1>8, <1>9, <1>10
  <1>12. Cardinality(S \cup T) = 2 ^ (n + 1) /\ c = 2 ^ n
    BY <1>2, <1>3, <1>4, <1>10
  <1> QED BY <1>11, <1>12

(* The integers of a width, by one number.                                 *)
Half == 2 ^ (Width - 1)

LEMMA Widths ==
  /\ Half \in Nat \ {0}
  /\ MinInt = -Half /\ MaxInt = Half - 1 /\ Rounds = Half + Half
  /\ Ints = -Half .. Half - 1
  /\ \A i \in Int : Wrap(i) = ((i + Half) % (Half + Half)) - Half
  <1>1. Width - 1 \in Nat /\ (Width - 1) + 1 = Width
    BY SlicesAssumption
  <1>2. Half \in Nat \ {0} /\ 2 ^ Width = Half + Half
    BY <1>1, Powers, Doubled DEF Half
  <1>3. MinInt = -Half /\ MaxInt = Half - 1 /\ Rounds = Half + Half
    BY <1>2 DEF MinInt, MaxInt, Rounds, Half
  <1>4. ASSUME NEW i \in Int PROVE Wrap(i) = ((i + Half) % (Half + Half)) - Half
    <2>1. Wrap(i) = ((i - MinInt) % (Half + Half)) + MinInt
      BY <1>2 DEF Wrap
    <2>2. i - MinInt = i + Half /\ \A a \in Int : a + MinInt = a - Half
      BY <1>2, <1>3
    <2>3. (i + Half) % (Half + Half) \in Int
      BY <1>2
    <2> QED BY <2>1, <2>2, <2>3
  <1> QED BY <1>2, <1>3, <1>4 DEF Ints

LEMMA Wraps ==
  /\ \A i \in Int : Wrap(i) \in Int
  /\ \A i \in Ints : i \in Int /\ Wrap(i) = i
  <1>1. PICK h \in Nat \ {0} : h = Half
    BY Widths
  <1>2. \A i \in Int : ((i + h) % (h + h)) - h \in Int
    OBVIOUS
  <1>3. \A i \in -h .. h - 1 : (i + h) % (h + h) = i + h
    OBVIOUS
  <1>4. \A i \in Int : Wrap(i) \in Int
    BY <1>1, <1>2, Widths
  <1>5. ASSUME NEW i \in Ints PROVE i \in Int /\ Wrap(i) = i
    <2>1. i \in -h .. h - 1 /\ Wrap(i) = ((i + h) % (h + h)) - h
      BY <1>1, Widths
    <2>2. (i + h) % (h + h) = i + h
      BY <1>3, <2>1
    <2> QED BY <2>1, <2>2
  <1> QED BY <1>4, <1>5

-------------------------------------------------------------------------------
(* The rounds of a loop.  F is what it finds, G where it goes on.          *)
Rest(g, step, F, G) ==
  \A n \in Nat :
    g[n + 1] = IF g[n].i \notin G THEN g[n]
               ELSE [i |-> Wrap(g[n].i + step),
                     found |-> IF g[n].i \in F THEN Append(g[n].found, g[n].i) ELSE g[n].found]

Runs(g, s, step, F, G) ==
  g[0] = [i |-> s, found |-> <<>>] /\ Rest(g, step, F, G)

LEMMA RunExists ==
  ASSUME NEW s \in Int, NEW step \in Int, NEW F, NEW G
  PROVE  \E g : Runs(g, s, step, F, G)
  <1> DEFINE S == [i : Int, found : Seq(Int)]
             next == [x \in S |-> IF x.i \notin G THEN x
                                  ELSE [i |-> Wrap(x.i + step),
                                        found |-> IF x.i \in F THEN Append(x.found, x.i) ELSE x.found]]
             x0 == [i |-> s, found |-> <<>>]
  <1>1. x0 \in S
    OBVIOUS
  <1>2. ASSUME NEW x \in S PROVE next[x] \in S
    <2>1. x.i \in Int /\ x.found \in Seq(Int) /\ x.i + step \in Int
      OBVIOUS
    <2>2. Wrap(x.i + step) \in Int
      BY <2>1, Wraps
    <2>3. Append(x.found, x.i) \in Seq(Int)
      BY <2>1
    <2> QED BY <2>1, <2>2, <2>3
  <1>3. PICK g \in [Nat -> S] : Iterates(g, next, x0)
    <2>1. next \in [S -> S]
      BY <1>2
    <2> HIDE DEF S, next, x0
    <2> QED BY <1>1, <2>1, Iteration
  <1>4. \A n \in Nat : g[n] \in S /\ g[n + 1] = next[g[n]]
    BY <1>3 DEF Iterates
  <1> QED BY <1>3, <1>4 DEF Runs, Rest, Iterates

LEMMA RunTypes ==
  ASSUME NEW s \in Int, NEW step \in Int, NEW F, NEW G, NEW g, Runs(g, s, step, F, G)
  PROVE  \A n \in Nat : g[n].i \in Int /\ g[n].found \in Seq(F)
  <1> DEFINE T == {n \in Nat : g[n].i \in Int /\ g[n].found \in Seq(F)}
  <1>1. 0 \in T
    <2>1. g[0].i = s /\ g[0].found = <<>>
      BY DEF Runs
    <2>2. g[0].found \in Seq(F)
      BY <2>1
    <2> QED BY <2>1, <2>2
  <1>2. ASSUME NEW n \in Nat, n \in T PROVE n + 1 \in T
    <2> SUFFICES g[n + 1].i \in Int /\ g[n + 1].found \in Seq(F)
      OBVIOUS
    <2>0. g[n].i \in Int /\ g[n].found \in Seq(F)
      BY <1>2
    <2> HIDE DEF T
    <2>1. CASE g[n].i \notin G
      <3>1. g[n + 1] = g[n]
        BY <2>1 DEF Runs, Rest
      <3> QED BY <2>0, <3>1
    <2>2. CASE g[n].i \in G
      <3>1. g[n + 1] = [i |-> Wrap(g[n].i + step),
                        found |-> IF g[n].i \in F THEN Append(g[n].found, g[n].i) ELSE g[n].found]
        BY <2>2 DEF Runs, Rest
      <3>2. Wrap(g[n].i + step) \in Int
        <4>1. g[n].i + step \in Int
          BY <2>0
        <4> QED BY <4>1, Wraps
      <3>3. g[n].i \in F => Append(g[n].found, g[n].i) \in Seq(F)
        BY <2>0
      <3> QED BY <2>0, <3>1, <3>2, <3>3
    <2> QED BY <2>1, <2>2
  <1> HIDE DEF T
  <1>3. \A n \in Nat : n \in T
    BY <1>1, <1>2, Induct
  <1> QED BY <1>3 DEF T

LEMMA LoopRuns ==
  ASSUME NEW s \in Int, NEW step \in Int, NEW F, NEW G
  PROVE  \E g : Runs(g, s, step, F, G) /\ Loop(s, step, F, G) = g[Rounds]
  <1> DEFINE x0 == [i |-> s, found |-> <<>>]
             next(x) ==
               IF x.i \notin G THEN x
               ELSE [i |-> Wrap(x.i + step),
                     found |-> IF x.i \in F THEN Append(x.found, x.i) ELSE x.found]
             Is(u) == u = [n \in Nat |-> IF n = 0 THEN x0 ELSE next(u[n - 1])]
             u == CHOOSE w : Is(w)
  <1>1. PICK g : Runs(g, s, step, F, G)
    BY RunExists
  <1>2. Loop(s, step, F, G) = u[Rounds]
    BY DEF Loop
  <1>3. g[0] = x0
    BY <1>1 DEF Runs
  <1>4. \A n \in Nat : g[n + 1] = next(g[n])
    BY <1>1 DEF Runs, Rest
  <1> HIDE DEF x0, next
  <1> DEFINE h == [n \in Nat |-> g[n]]
  <1>5. Is(h)
    <2>1. ASSUME NEW n \in Nat PROVE h[n] = IF n = 0 THEN x0 ELSE next(h[n - 1])
      <3>1. CASE n = 0
        BY <1>3, <3>1
      <3>2. CASE n # 0
        <4>1. PICK k \in Nat : k = n - 1 /\ k + 1 = n
          BY <3>2
        <4>2. h[n] = next(h[k])
          BY <1>4, <4>1
        <4> HIDE DEF h
        <4> QED BY <3>2, <4>1, <4>2
      <3> QED BY <3>1, <3>2
    <2>2. h = [n \in Nat |-> h[n]]
      OBVIOUS
    <2> HIDE DEF h
    <2> QED BY <2>1, <2>2
  <1>6. Is(u)
    <2> HIDE DEF Is
    <2> QED BY <1>5
  <1>7. \A n \in Nat : u[n] = g[n]
    <2> HIDE DEF u
    <2> DEFINE T == {n \in Nat : u[n] = g[n]}
    <2>1. 0 \in T
      BY <1>3, <1>6
    <2>2. ASSUME NEW n \in Nat, n \in T PROVE n + 1 \in T
      <3>1. u[n + 1] = next(u[n])
        <4>1. n + 1 \in Nat /\ n + 1 # 0 /\ (n + 1) - 1 = n
          OBVIOUS
        <4> QED BY <1>6, <4>1
      <3> QED BY <1>4, <2>2, <3>1
    <2> HIDE DEF T
    <2>3. \A n \in Nat : n \in T
      BY <2>1, <2>2, Induct
    <2> QED BY <2>3 DEF T
  <1>8. u[Rounds] = g[Rounds]
    <2> HIDE DEF u
    <2> QED BY <1>7, Widths
  <1> HIDE DEF u
  <1> QED BY <1>1, <1>2, <1>8

-------------------------------------------------------------------------------
(* Where a loop is after some rounds, and what it has found if it finds    *)
(* everything that it passes.                                              *)
Place(s, step, k) == s + k * step

LEMMA Places ==
  ASSUME NEW s \in Int, NEW step \in Int
  PROVE  /\ Place(s, step, 0) = s
         /\ \A k \in Int : /\ Place(s, step, k) \in Int
                           /\ Place(s, step, k + 1) = Place(s, step, k) + step
                           /\ Place(s, step, k - 1) = Place(s, step, k) - step
  <1>1. ASSUME NEW k \in Int
        PROVE  k * step \in Int /\ (k + 1) * step = k * step + step /\ (k - 1) * step = k * step - step
    OBVIOUS
  <1>2. 0 * step = 0
    OBVIOUS
  <1>3. ASSUME NEW k \in Int
        PROVE  /\ Place(s, step, k) \in Int
               /\ Place(s, step, k + 1) = Place(s, step, k) + step
               /\ Place(s, step, k - 1) = Place(s, step, k) - step
    <2>1. PICK a \in Int : a = k * step
      BY <1>1
    <2>2. (k + 1) * step = a + step /\ (k - 1) * step = a - step
      BY <1>1, <2>1
    <2> QED BY <2>1, <2>2 DEF Place
  <1> QED BY <1>2, <1>3 DEF Place

LEMMA Made ==
  ASSUME NEW n \in Nat, NEW f
  PROVE  Append([k \in 1 .. n |-> f[k]], f[n + 1]) = [k \in 1 .. n + 1 |-> f[k]]
  <1> DEFINE S == {f[k] : k \in 1 .. n + 1}
             s == [k \in 1 .. n |-> f[k]]
             t == [k \in 1 .. n + 1 |-> f[k]]
  <1>1. s \in Seq(S) /\ t \in Seq(S) /\ Len(s) = n /\ Len(t) = n + 1 /\ f[n + 1] \in S
    OBVIOUS
  <1>2. Append(s, f[n + 1]) \in Seq(S) /\ Len(Append(s, f[n + 1])) = n + 1
    BY <1>1
  <1>3. ASSUME NEW k \in 1 .. n + 1 PROVE Append(s, f[n + 1])[k] = t[k]
    <2>1. CASE k = n + 1
      BY <1>1, <2>1
    <2>2. CASE k # n + 1
      <3>1. k \in 1 .. n
        BY <2>2
      <3> QED BY <1>1, <3>1
    <2> QED BY <2>1, <2>2
  <1> HIDE DEF s, t
  <1> QED BY <1>1, <1>2, <1>3, SeqEqual

(* A loop finds c values if it goes on at c places and no further.         *)
Goes(s, step, F, G, c) ==
  /\ Place(s, step, c) \notin G
  /\ \A k \in 0 .. c - 1 : /\ Place(s, step, k) \in F \cap G
                           /\ Wrap(Place(s, step, k) + step) = Place(s, step, k) + step

LEMMA LoopFinds ==
  ASSUME NEW s \in Int, NEW step \in Int, NEW F, NEW G, NEW g, Runs(g, s, step, F, G),
         NEW c \in Nat, Goes(s, step, F, G, c)
  PROVE  \A n \in Nat : n >= c => g[n].found = [k \in 1 .. c |-> Place(s, step, k - 1)]
  <1> DEFINE f == [k \in Nat |-> Place(s, step, k - 1)]
             T == {n \in Nat : n <= c => /\ g[n].i = Place(s, step, n)
                                         /\ g[n].found = [k \in 1 .. n |-> f[k]]}
  <1>1. 0 \in T
    <2>1. g[0].i = s /\ g[0].found = <<>>
      BY DEF Runs
    <2>2. [k \in 1 .. 0 |-> f[k]] = <<>>
      OBVIOUS
    <2> QED BY <2>1, <2>2, Places
  <1>2. ASSUME NEW n \in Nat, n \in T PROVE n + 1 \in T
    <2> SUFFICES ASSUME n + 1 <= c
                 PROVE  /\ g[n + 1].i = Place(s, step, n + 1)
                        /\ g[n + 1].found = [k \in 1 .. n + 1 |-> f[k]]
      <3> HIDE DEF f
      <3> QED OBVIOUS
    <2>1. n \in 0 .. c - 1 /\ n <= c
      OBVIOUS
    <2>2. g[n].i = Place(s, step, n) /\ g[n].found = [k \in 1 .. n |-> f[k]]
      BY <1>2, <2>1
    <2>3. g[n].i \in F /\ g[n].i \in G
      BY <2>1, <2>2 DEF Goes
    <2>4. /\ g[n + 1].i = Wrap(g[n].i + step)
          /\ g[n + 1].found = Append(g[n].found, g[n].i)
      <3> HIDE DEF T, f
      <3>1. g[n + 1] = [i |-> Wrap(g[n].i + step), found |-> Append(g[n].found, g[n].i)]
        BY <2>3 DEF Runs, Rest
      <3> QED BY <3>1
    <2>5. Wrap(g[n].i + step) = Place(s, step, n + 1)
      BY <2>1, <2>2, Places DEF Goes
    <2>6. f[n + 1] = Place(s, step, n)
      <3>1. n + 1 \in Nat /\ (n + 1) - 1 = n
        OBVIOUS
      <3> QED BY <3>1
    <2> HIDE DEF f
    <2> QED BY <2>2, <2>4, <2>5, <2>6, Made
  <1>3. \A n \in Nat : n \in T
    <2> HIDE DEF T
    <2> QED BY <1>1, <1>2, Induct
  <1>4. g[c].i = Place(s, step, c) /\ g[c].found = [k \in 1 .. c |-> Place(s, step, k - 1)]
    <2>1. g[c].i = Place(s, step, c) /\ g[c].found = [k \in 1 .. c |-> f[k]]
      <3> HIDE DEF f
      <3>1. c \in T
        BY <1>3
      <3> QED BY <3>1
    <2> QED BY <2>1
  <1> DEFINE U == {n \in Nat : n >= c => g[n] = g[c]}
  <1>5. 0 \in U
    OBVIOUS
  <1>6. ASSUME NEW n \in Nat, n \in U PROVE n + 1 \in U
    <2> SUFFICES ASSUME n + 1 >= c, n + 1 # c PROVE g[n + 1] = g[c]
      OBVIOUS
    <2>1. g[n] = g[c]
      BY <1>6
    <2>2. g[n].i \notin G
      BY <1>4, <2>1 DEF Goes
    <2> QED BY <2>1, <2>2 DEF Runs, Rest
  <1>7. \A n \in Nat : n \in U
    <2> HIDE DEF U
    <2> QED BY <1>5, <1>6, Induct
  <1> QED BY <1>4, <1>7

(* What a loop finds.                                                      *)
LEMMA LoopTypes ==
  ASSUME NEW s \in Int, NEW step \in Int, NEW F, NEW G
  PROVE  Loop(s, step, F, G).found \in Seq(F)
  <1>1. PICK g : Runs(g, s, step, F, G) /\ Loop(s, step, F, G) = g[Rounds]
    BY LoopRuns
  <1>2. \A n \in Nat : g[n].found \in Seq(F)
    BY <1>1, RunTypes
  <1>3. Rounds \in Nat
    BY Widths
  <1> QED BY <1>1, <1>2, <1>3

LEMMA LoopIs ==
  ASSUME NEW s \in Int, NEW step \in Int, NEW F, NEW G,
         NEW c \in Nat, c <= Rounds, Goes(s, step, F, G, c)
  PROVE  Loop(s, step, F, G).found = [k \in 1 .. c |-> Place(s, step, k - 1)]
  <1>1. PICK g : Runs(g, s, step, F, G) /\ Loop(s, step, F, G) = g[Rounds]
    BY LoopRuns
  <1>2. \A n \in Nat : n >= c => g[n].found = [k \in 1 .. c |-> Place(s, step, k - 1)]
    BY <1>1, LoopFinds
  <1>3. PICK n \in Nat : n = Rounds
    BY Widths
  <1> QED BY <1>1, <1>2, <1>3

LEMMA Further ==
  ASSUME NEW s \in Int, NEW step \in Int, NEW j \in Nat, NEW k \in Nat, j <= k
  PROVE  /\ step > 0 => Place(s, step, j) + (k - j) <= Place(s, step, k)
         /\ step < 0 => Place(s, step, k) <= Place(s, step, j) - (k - j)
  <1>1. PICK d \in Nat : d = k - j /\ k = j + d
    OBVIOUS
  <1>2. (j + d) * step = j * step + d * step
    OBVIOUS
  <1>3. PICK a \in Int, b \in Int : a = j * step /\ b = d * step
    OBVIOUS
  <1>4. step > 0 => d <= b
    BY <1>3
  <1>5. step < 0 => b <= -d
    BY <1>3
  <1>6. Place(s, step, j) = s + a /\ Place(s, step, k) = s + (a + b)
    BY <1>1, <1>2, <1>3 DEF Place
  <1> QED BY <1>1, <1>3, <1>4, <1>5, <1>6

(* How many places there are before an end.                                *)
Short(step, i, e) == IF step > 0 THEN i < e ELSE i > e

LEMMA HowMany ==
  ASSUME NEW s \in Int, NEW step \in Int \ {0}, NEW e \in Int, NEW N \in Nat,
         ~Short(step, Place(s, step, N), e)
  PROVE  \E c \in 0 .. N :
           /\ Cardinality({k \in 0 .. N : IF step > 0 THEN s + k * step < e ELSE s + k * step > e}) = c
           /\ \A k \in Nat : k < c <=> Short(step, Place(s, step, k), e)
  <1> DEFINE S == {k \in Nat : ~Short(step, Place(s, step, k), e)}
             K == {k \in 0 .. N : IF step > 0 THEN s + k * step < e ELSE s + k * step > e}
  <1>1. S \in SUBSET Nat /\ N \in S
    OBVIOUS
  <1>2. PICK c \in S : \A k \in S : c <= k
    <2> HIDE DEF S
    <2> QED BY <1>1, Least
  <1>3. c \in 0 .. N
    BY <1>1, <1>2
  <1>4. ASSUME NEW k \in Nat PROVE k < c <=> Short(step, Place(s, step, k), e)
    <2>1. CASE k < c
      <3>1. k \notin S
        BY <1>2, <2>1
      <3> QED BY <2>1, <3>1
    <2>2. CASE c <= k
      <3>1. ~Short(step, Place(s, step, c), e) /\ c \in Nat
        BY <1>2
      <3>2. /\ step > 0 => Place(s, step, c) + (k - c) <= Place(s, step, k)
            /\ step < 0 => Place(s, step, k) <= Place(s, step, c) - (k - c)
        BY <2>2, <3>1, Further
      <3> HIDE DEF S
      <3>3. c \in Int /\ k \in Int
        BY <3>1
      <3>4. Place(s, step, c) \in Int /\ Place(s, step, k) \in Int
        BY <3>3, Places
      <3>5. PICK a \in Int, b \in Int : a = Place(s, step, c) /\ b = Place(s, step, k)
        BY <3>4
      <3> QED BY <2>2, <3>1, <3>2, <3>5 DEF Short
    <2> QED BY <1>3, <2>1, <2>2
  <1>5. \A k \in Nat : (IF step > 0 THEN s + k * step < e ELSE s + k * step > e)
                         <=> Short(step, Place(s, step, k), e)
    BY DEF Short, Place
  <1> HIDE DEF S
  <1>6. \A k \in 0 .. N : k \in K <=> k < c
    BY <1>4, <1>5
  <1>7. K = 0 .. c - 1
    <2>1. \A k \in 0 .. c - 1 : k \in 0 .. N /\ k < c
      BY <1>3
    <2>2. \A k \in 0 .. N : k < c => k \in 0 .. c - 1
      BY <1>3
    <2>3. K \subseteq 0 .. N
      OBVIOUS
    <2> HIDE DEF K
    <2> QED BY <1>6, <2>1, <2>2, <2>3
  <1>8. Cardinality(0 .. c - 1) = c
    BY <1>3, FS_Interval
  <1> QED BY <1>3, <1>4, <1>7, <1>8

-------------------------------------------------------------------------------
(* Where the loop of a slice goes on.                                      *)
GoesOn(st, e, length) ==
  {i \in Ints : IF st > 0 THEN i < e /\ i < length ELSE i > e /\ i >= 0}

LEMMA SliceIs ==
  ASSUME NEW length \in 0 .. MaxInt, NEW start \in Ints \cup {None}, NEW end \in Ints \cup {None},
         NEW step \in Ints \cup {None},
         start = None \/ start \in -length .. length - 1,
         step = None \/ (step # 0 /\ {length + step, -1 + step} \subseteq Ints)
  PROVE  evalSlice([i \in 1 .. length |-> i], start, end, step) = Meant(length, start, end, step)
  <1>w. /\ length \in Nat /\ length + 1 <= Half + Half /\ length <= Half - 1
        /\ Half \in Nat \ {0} /\ Rounds = Half + Half /\ Ints = -Half .. Half - 1
        /\ MinInt = -Half /\ MaxInt = Half - 1
    <2>1. PICK h \in Nat \ {0} : h = Half
      BY Widths
    <2> QED BY <2>1, Widths
  <1>1. PICK st \in Int \ {0} : /\ st = Step(step)
                              /\ st = IF step = None THEN 1 ELSE step
    BY <1>w DEF Step
  <1>2. (st > 0 => length - 1 + st <= Half - 1) /\ (st < 0 => -Half <= st)
    BY <1>w, <1>1
  <1>f. \A i \in Ints : FromEnd(i, length) \in Int
    BY <1>w DEF FromEnd
  <1>3. PICK s \in Int : /\ s = Start(start, st, length)
                         /\ st > 0 => 0 <= s /\ s <= length
                         /\ st < 0 => -1 <= s /\ s <= length - 1
    <2>1. CASE start = None
      BY <1>w, <1>1, <2>1 DEF Start
    <2>2. CASE start # None
      <3>1. start \in Int /\ -length <= start /\ start <= length - 1
        BY <1>w, <2>2
      <3> QED BY <1>w, <1>1, <2>2, <3>1 DEF Start, FromEnd
    <2> QED BY <2>1, <2>2
  <1>4. s = IF start = None THEN IF st > 0 THEN 0 ELSE length - 1
            ELSE IF st > 0 THEN Clamp(FromEnd(start, length), 0, length)
            ELSE Clamp(FromEnd(start, length), -1, length - 1)
    <2>1. CASE start = None
      BY <1>3, <2>1 DEF Start
    <2>2. CASE start # None
      <3>1. s = FromEnd(start, length)
        BY <1>3, <2>2 DEF Start
      <3> QED BY <1>w, <1>1, <1>3, <2>2, <3>1 DEF Clamp
    <2> QED BY <2>1, <2>2
  <1>5. PICK e \in Int : e = End(end, st, length)
    BY <1>w, <1>f DEF End
  <1>6. PICK d \in Int :
          d = IF end = None THEN IF st > 0 THEN length ELSE -1
              ELSE IF st > 0 THEN Clamp(FromEnd(end, length), 0, length)
              ELSE Clamp(FromEnd(end, length), -1, length - 1)
    BY <1>w, <1>f DEF Clamp
  <1>7. d = IF st > 0 THEN Clamp(e, 0, length) ELSE Clamp(e, -1, length - 1)
    BY <1>w, <1>1, <1>5, <1>6 DEF End, Clamp
  <1>8. /\ st > 0 => d <= length /\ \A i \in Int : 0 <= i => (i < d <=> i < e /\ i < length)
        /\ st < 0 => -1 <= d /\ \A i \in Int : i <= length - 1 => (i > d <=> i > e /\ i >= 0)
    BY <1>w, <1>5, <1>7 DEF Clamp
  <1>9. ASSUME NEW k \in Nat
        PROVE  /\ Place(s, st, k) \in Int
               /\ st > 0 => s + k <= Place(s, st, k)
               /\ st < 0 => Place(s, st, k) <= s - k
    <2>0. k \in Int /\ 0 \in Nat /\ 0 <= k
      OBVIOUS
    <2>1. Place(s, st, 0) = s /\ Place(s, st, k) \in Int
      BY <2>0, Places
    <2>2. /\ st > 0 => Place(s, st, 0) + (k - 0) <= Place(s, st, k)
          /\ st < 0 => Place(s, st, k) <= Place(s, st, 0) - (k - 0)
      BY <2>0, Further
    <2>3. PICK p \in Int : p = Place(s, st, k)
      BY <2>1
    <2> QED BY <2>1, <2>2, <2>3
  <1>10. ~Short(st, Place(s, st, length), d)
    <2>1. PICK p \in Int : p = Place(s, st, length)
      BY <1>w, <1>9
    <2>2. (st > 0 => s + length <= p) /\ (st < 0 => p <= s - length)
      BY <1>w, <1>9, <2>1
    <2> QED BY <1>w, <1>3, <1>8, <2>1, <2>2 DEF Short
  <1>11. PICK c \in 0 .. length :
           /\ Cardinality({k \in 0 .. length : IF st > 0 THEN s + k * st < d ELSE s + k * st > d}) = c
           /\ \A k \in Nat : k < c <=> Short(st, Place(s, st, k), d)
    BY <1>w, <1>10, HowMany
  <1>12. ASSUME NEW k \in Nat
         PROVE  Place(s, st, k) \in GoesOn(st, e, length) <=> k < c
    <2>1. PICK p \in Int : p = Place(s, st, k)
      BY <1>9
    <2>2. (st > 0 => 0 <= p) /\ (st < 0 => p <= length - 1)
      BY <1>w, <1>3, <1>9, <2>1
    <2>3. p \in GoesOn(st, e, length) <=> Short(st, p, d)
      <3>1. CASE st > 0
        <4>1. 0 <= p /\ (p < d <=> p < e /\ p < length)
          BY <1>8, <2>2, <3>1
        <4>2. p < d => p \in Ints
          BY <1>w, <4>1
        <4> QED BY <3>1, <4>1, <4>2 DEF GoesOn, Short
      <3>2. CASE st < 0
        <4>1. p <= length - 1 /\ (p > d <=> p > e /\ p >= 0)
          BY <1>8, <2>2, <3>2
        <4>2. ~(st > 0)
          BY <3>2
        <4>3. p > d => p \in Ints
          BY <1>w, <4>1
        <4> QED BY <4>1, <4>2, <4>3 DEF GoesOn, Short
      <3> QED BY <3>1, <3>2
    <2> QED BY <1>11, <2>1, <2>3
  <1>13. ASSUME NEW k \in 0 .. c - 1
         PROVE  /\ Place(s, st, k) \in (0 .. length - 1) \cap GoesOn(st, e, length)
                /\ Wrap(Place(s, st, k) + st) = Place(s, st, k) + st
    <2>1. k \in Nat /\ k < c
      OBVIOUS
    <2>2. PICK p \in Int : p = Place(s, st, k)
      BY <1>9, <2>1
    <2>3. p \in GoesOn(st, e, length)
      BY <1>12, <2>1, <2>2
    <2>4. (st > 0 => 0 <= p) /\ (st < 0 => p <= length - 1)
      BY <1>w, <1>3, <1>9, <2>1, <2>2
    <2>5. p \in 0 .. length - 1
      BY <1>w, <1>1, <2>3, <2>4 DEF GoesOn
    <2>6. p + st \in Ints
      BY <1>w, <1>1, <1>2, <2>5
    <2> QED BY <2>2, <2>3, <2>5, <2>6, Wraps
  <1>14. Indices(length, start, end, step) = Loop(s, st, 0 .. length - 1, GoesOn(st, e, length)).found
    BY <1>1, <1>3, <1>5 DEF Indices, GoesOn
  <1>15. Indices(length, start, end, step) = [k \in 1 .. c |-> Place(s, st, k - 1)]
    <2>1. c \in Nat /\ ~(c < c) /\ c <= Rounds
      BY <1>w
    <2>2. Goes(s, st, 0 .. length - 1, GoesOn(st, e, length), c)
      BY <1>12, <1>13, <2>1 DEF Goes
    <2> QED BY <1>14, <2>1, <2>2, LoopIs
  <1>16. evalSlice([i \in 1 .. length |-> i], start, end, step)
           = [k \in 1 .. c |-> Place(s, st, k - 1) + 1]
    <2> DEFINE items == [i \in 1 .. length |-> i]
               is == [k \in 1 .. c |-> Place(s, st, k - 1)]
    <2>1. Len(items) = length
      BY <1>w
    <2>2. evalSlice(items, start, end, step) = [k \in DOMAIN is |-> items[is[k] + 1]]
      BY <1>15, <2>1 DEF evalSlice
    <2>3. ASSUME NEW k \in 1 .. c PROVE items[is[k] + 1] = Place(s, st, k - 1) + 1
      <3>1. k - 1 \in 0 .. c - 1
        OBVIOUS
      <3>2. Place(s, st, k - 1) \in 0 .. length - 1
        BY <1>13, <3>1
      <3> QED BY <1>w, <3>2
    <2> QED BY <2>2, <2>3
  <1>17. Meant(length, start, end, step) = [k \in 1 .. c |-> s + (k - 1) * st + 1]
    BY <1>1, <1>4, <1>6, <1>11 DEF Meant
  <1> QED BY <1>16, <1>17 DEF Place

(* What a slice has are elements, whatever its bounds.                     *)
LEMMA SliceTypes ==
  ASSUME NEW Elems, NEW items \in Seq(Elems), NEW start \in Ints \cup {None},
         NEW end \in Ints \cup {None}, NEW step \in Ints \cup {None}
  PROVE  evalSlice(items, start, end, step) \in Seq(Elems)
  <1>1. PICK length \in Nat : length = Len(items) /\ items \in [1 .. length -> Elems]
    OBVIOUS
  <1>2. \A i \in Ints : i \in Int
    BY Wraps
  <1>3. PICK st \in Int : st = Step(step)
    BY <1>2 DEF Step
  <1>4. PICK s \in Int : s = Start(start, st, length)
    BY <1>2 DEF Start, FromEnd
  <1>5. PICK goes : Indices(length, start, end, step) = Loop(s, st, 0 .. length - 1, goes).found
    BY <1>3, <1>4 DEF Indices
  <1>6. Indices(length, start, end, step) \in Seq(0 .. length - 1)
    BY <1>5, LoopTypes
  <1>7. PICK is \in Seq(0 .. length - 1) :
          evalSlice(items, start, end, step) = [k \in DOMAIN is |-> items[is[k] + 1]]
    BY <1>1, <1>6 DEF evalSlice
  <1>8. PICK n \in Nat : DOMAIN is = 1 .. n /\ is \in [1 .. n -> 0 .. length - 1]
    OBVIOUS
  <1>9. ASSUME NEW k \in 1 .. n PROVE items[is[k] + 1] \in Elems
    <2>1. is[k] + 1 \in 1 .. length
      BY <1>8
    <2> QED BY <1>1, <2>1
  <1> QED BY <1>7, <1>8, <1>9

-------------------------------------------------------------------------------
(* A range means so many numbers, up to its stop.                          *)
Counts(c, s, e, st) ==
  /\ c \in 0 .. Rounds
  /\ \A k \in Nat : k < c <=> Short(st, Place(s, st, k), e)

LEMMA AnyRange ==
  ASSUME NEW r \in builtinRange
  PROVE  /\ r.start \in Ints /\ r.start \in Int /\ r.stop \in Ints /\ r.stop \in Int
         /\ r.step \in Ints /\ r.step \in Int \ {0}
  <1>1. PICK s \in Ints, e \in Ints, st \in Ints \ {0} : r = [start |-> s, stop |-> e, step |-> st]
    BY DEF builtinRange, Range3
  <1>2. s \in Int /\ e \in Int /\ st \in Int
    BY Wraps
  <1> QED BY <1>1, <1>2

LEMMA NumbersAre ==
  ASSUME NEW r \in builtinRange
  PROVE  \E c : /\ Counts(c, r.start, r.stop, r.step)
                /\ Numbers(r) = [k \in 1 .. c |-> Place(r.start, r.step, k - 1)]
  <1>1. PICK s \in Int, e \in Int, st \in Int \ {0} :
          /\ s = r.start /\ e = r.stop /\ st = r.step /\ s \in Ints /\ e \in Ints
    BY AnyRange
  <1>2. PICK N \in Nat : N = Rounds /\ (\A a, b \in Ints : a - b < N)
    <2>1. PICK h \in Nat : h = Half
      BY Widths
    <2> QED BY <2>1, Widths
  <1>3. ~Short(st, Place(s, st, N), e)
    <2>1. PICK p \in Int : p = Place(s, st, N)
      BY Places
    <2>2. Place(s, st, 0) = s
      BY Places
    <2>3. /\ st > 0 => Place(s, st, 0) + (N - 0) <= Place(s, st, N)
          /\ st < 0 => Place(s, st, N) <= Place(s, st, 0) - (N - 0)
      BY <1>2, Further
    <2>4. (st > 0 => s + N <= p) /\ (st < 0 => p <= s - N)
      BY <2>1, <2>2, <2>3
    <2>5. e - s < N /\ s - e < N
      BY <1>1, <1>2
    <2> QED BY <2>1, <2>4, <2>5 DEF Short
  <1>4. PICK c \in 0 .. N :
          /\ Cardinality({k \in 0 .. N : IF st > 0 THEN s + k * st < e ELSE s + k * st > e}) = c
          /\ \A k \in Nat : k < c <=> Short(st, Place(s, st, k), e)
    BY <1>3, HowMany
  <1>5. Numbers(r) = [k \in 1 .. c |-> s + (k - 1) * st]
    BY <1>1, <1>2, <1>4 DEF Numbers, Rounds
  <1> QED BY <1>1, <1>2, <1>4, <1>5 DEF Counts, Place

(* They are all between its start and its stop.                            *)
LEMMA Inside ==
  ASSUME NEW s \in Ints, NEW e \in Ints, NEW st \in Int \ {0}, NEW c, Counts(c, s, e, st),
         NEW k \in Nat, k < c
  PROVE  Place(s, st, k) \in Ints /\ Short(st, Place(s, st, k), e)
  <1>1. Short(st, Place(s, st, k), e)
    BY DEF Counts
  <1>2. k \in Int /\ s \in Int /\ e \in Int /\ 0 \in Nat /\ 0 <= k
    BY Wraps
  <1>3. Place(s, st, k) \in Int /\ Place(s, st, 0) = s
    BY <1>2, Places
  <1>4. PICK p \in Int : p = Place(s, st, k)
    BY <1>3
  <1>5. /\ st > 0 => Place(s, st, 0) + (k - 0) <= Place(s, st, k)
        /\ st < 0 => Place(s, st, k) <= Place(s, st, 0) - (k - 0)
    BY <1>2, Further
  <1>6. (st > 0 => s <= p) /\ (st < 0 => p <= s)
    BY <1>2, <1>3, <1>4, <1>5
  <1>7. PICK h \in Nat \ {0} : Ints = -h .. h - 1
    BY Widths
  <1>8. p \in Ints
    BY <1>1, <1>2, <1>4, <1>6, <1>7 DEF Short
  <1> QED BY <1>1, <1>4, <1>8

(* Loops over it and lists of it find them all.                            *)
LEMMA RangeLoops ==
  ASSUME NEW r \in builtinRange, NEW c \in Nat, Counts(c, r.start, r.stop, r.step),
         c = 0 \/ Place(r.start, r.step, c - 1) + r.step \in Ints
  PROVE  /\ Looped(r) = [k \in 1 .. c |-> Place(r.start, r.step, k - 1)]
         /\ Listed(r) = [k \in 1 .. c |-> Place(r.start, r.step, k - 1)]
  <1>1. PICK s \in Int, e \in Int, st \in Int \ {0} :
          /\ s = r.start /\ e = r.stop /\ st = r.step /\ s \in Ints /\ e \in Ints
    BY AnyRange
  <1>2. Counts(c, s, e, st) /\ (c = 0 \/ Place(s, st, c - 1) + st \in Ints)
    BY <1>1
  <1> DEFINE G == {i \in Ints : Short(st, i, e)}
  <1>3. Looped(r) = Loop(s, st, Ints, G).found
    <2>1. \A i \in Int : ~Ended(r, i) <=> Short(st, i, e)
      BY <1>1 DEF Ended, Short
    <2>2. {i \in Ints : ~Ended(r, i)} = G
      BY <2>1, Wraps
    <2> HIDE DEF G
    <2> QED BY <1>1, <2>2 DEF Looped
  <1>4. Listed(r) = Loop(s, st, Ints, G).found
    BY <1>1 DEF Listed, Short
  <1>6. ASSUME NEW k \in Nat, k < c PROVE Place(s, st, k) \in G
    BY <1>1, <1>2, <1>6, Inside
  <1>7. Goes(s, st, Ints, G, c)
    <2>1. Place(s, st, c) \notin G
      BY <1>2 DEF Counts
    <2>2. ASSUME NEW k \in 0 .. c - 1
          PROVE  /\ Place(s, st, k) \in Ints \cap G
                 /\ Wrap(Place(s, st, k) + st) = Place(s, st, k) + st
      <3>1. k \in Nat /\ k < c /\ k + 1 \in Nat
        OBVIOUS
      <3>2. Place(s, st, k) \in Ints \cap G
        BY <1>6, <3>1
      <3>3. Place(s, st, k + 1) = Place(s, st, k) + st
        BY <3>1, Places
      <3>4. Place(s, st, k) + st \in Ints
        <4>1. CASE k + 1 < c
          BY <1>6, <3>1, <3>3, <4>1
        <4>2. CASE k = c - 1
          BY <1>2, <4>2
        <4> QED BY <4>1, <4>2
      <3> QED BY <3>2, <3>4, Wraps
    <2> HIDE DEF G
    <2> QED BY <2>1, <2>2 DEF Goes
  <1>8. c <= Rounds
    BY <1>2, Widths DEF Counts
  <1>9. Loop(s, st, Ints, G).found = [k \in 1 .. c |-> Place(s, st, k - 1)]
    <2> HIDE DEF G
    <2>1. s \in Int /\ st \in Int
      OBVIOUS
    <2> QED BY <1>7, <1>8, <2>1, LoopIs
  <1> QED BY <1>1, <1>3, <1>4, <1>9

(* What goes without a remainder.                                          *)
LEMMA Divides ==
  ASSUME NEW n \in Nat, NEW d \in Nat \ {0}
  PROVE  Rem(n, d) = 0 <=> \E k \in Nat : n = k * d
  <1>1. Truncate(n, d) = n \div d
    BY DEF Truncate
  <1>2. PICK q \in Nat : q = n \div d
    OBVIOUS
  <1>3. Rem(n, d) = n - d * q
    BY <1>1, <1>2 DEF Rem
  <1>4. PICK a \in Int : a = d * q /\ a = q * d
    OBVIOUS
  <1>5. ASSUME NEW k \in Nat, n = k * d PROVE k = q
    <2>1. (k * d) \div d = k
      OBVIOUS
    <2> QED BY <1>2, <1>5, <2>1
  <1>6. CASE Rem(n, d) = 0
    <2>1. n = q * d
      BY <1>3, <1>4, <1>6
    <2> QED BY <1>6, <2>1
  <1>7. CASE \E k \in Nat : n = k * d
    <2>1. n = q * d
      BY <1>5, <1>7
    <2> QED BY <1>3, <1>4, <1>7, <2>1
  <1> QED BY <1>6, <1>7

(* Its members are the numbers.                                            *)
LEMMA RangeMembers ==
  ASSUME NEW r \in builtinRange, NEW c \in Nat, Counts(c, r.start, r.stop, r.step),
         r.stop - r.start \in Ints, -r.step \in Ints
  PROVE  {i \in Ints : InRange(r, i)} = {Place(r.start, r.step, k) : k \in 0 .. c - 1}
  <1>1. PICK s \in Int, e \in Int, st \in Int \ {0} :
          /\ s = r.start /\ e = r.stop /\ st = r.step /\ s \in Ints /\ e \in Ints
    BY AnyRange
  <1>2. Counts(c, s, e, st) /\ e - s \in Ints /\ -st \in Ints
    BY <1>1
  <1>3. PICK h \in Nat \ {0} : Ints = -h .. h - 1
    BY Widths
  <1>4. ASSUME NEW i \in Ints
        PROVE  InRange(r, i) <=> Short(st, i, e) /\ \E k \in Nat : i = Place(s, st, k)
    <2>0. i \in Int
      BY Wraps
    <2>1. CASE st > 0
      <3>1. InRange(r, i) <=> i >= s /\ i < e /\ Rem(Wrap(i - s), st) = 0
        BY <1>1, <2>1 DEF InRange
      <3>2. ASSUME i >= s, i < e PROVE Wrap(i - s) = i - s /\ i - s \in Nat
        <4>1. i - s \in Ints
          BY <1>2, <1>3, <2>0, <3>2
        <4> QED BY <2>0, <3>2, <4>1, Wraps
      <3>3. ASSUME i >= s, i < e
            PROVE  Rem(Wrap(i - s), st) = 0 <=> \E k \in Nat : i = Place(s, st, k)
        <4>1. PICK n \in Nat : n = i - s /\ n = Wrap(i - s) /\ i = s + n
          BY <2>0, <3>2, <3>3
        <4>2. st \in Nat \ {0}
          BY <2>1
        <4>3. Rem(n, st) = 0 <=> \E k \in Nat : n = k * st
          BY <4>2, Divides
        <4>4. ASSUME NEW k \in Nat PROVE n = k * st <=> i = Place(s, st, k)
          <5>1. PICK a \in Int : a = k * st
            OBVIOUS
          <5> QED BY <4>1, <5>1 DEF Place
        <4> QED BY <4>1, <4>3, <4>4
      <3>4. ASSUME NEW k \in Nat, i = Place(s, st, k) PROVE i >= s
        <4>1. PICK a \in Nat : a = k * st
          BY <2>1
        <4> QED BY <3>4, <4>1 DEF Place
      <3>5. Short(st, i, e) <=> i < e
        BY <2>1 DEF Short
      <3> QED BY <3>1, <3>3, <3>4, <3>5
    <2>2. CASE st < 0
      <3>0. ~(st > 0) /\ Wrap(-st) = -st /\ -st \in Nat \ {0}
        BY <1>2, <2>2, Wraps
      <3>1. InRange(r, i) <=> i <= s /\ i > e /\ Rem(Wrap(s - i), -st) = 0
        BY <1>1, <3>0 DEF InRange
      <3>2. ASSUME i <= s, i > e PROVE Wrap(s - i) = s - i /\ s - i \in Nat
        <4>1. s - i \in Ints
          BY <1>2, <1>3, <2>0, <3>2
        <4> QED BY <2>0, <3>2, <4>1, Wraps
      <3>3. ASSUME i <= s, i > e
            PROVE  Rem(Wrap(s - i), -st) = 0 <=> \E k \in Nat : i = Place(s, st, k)
        <4>1. PICK n \in Nat : n = s - i /\ n = Wrap(s - i) /\ i = s - n
          BY <2>0, <3>2, <3>3
        <4>2. PICK d \in Nat \ {0} : d = -st /\ st = -d
          BY <3>0
        <4>3. Rem(n, d) = 0 <=> \E k \in Nat : n = k * d
          BY Divides
        <4>4. ASSUME NEW k \in Nat PROVE n = k * d <=> i = Place(s, st, k)
          <5>1. PICK a \in Int : a = k * d /\ k * (-d) = -a
            OBVIOUS
          <5> QED BY <4>1, <4>2, <5>1 DEF Place
        <4> QED BY <4>1, <4>2, <4>3, <4>4
      <3>4. ASSUME NEW k \in Nat, i = Place(s, st, k) PROVE i <= s
        <4>1. PICK d \in Nat : d = -st /\ st = -d
          BY <3>0
        <4>2. PICK a \in Nat : a = k * d /\ k * (-d) = -a
          OBVIOUS
        <4> QED BY <3>4, <4>1, <4>2 DEF Place
      <3>5. Short(st, i, e) <=> i > e
        BY <3>0 DEF Short
      <3> QED BY <3>1, <3>3, <3>4, <3>5
    <2> QED BY <2>1, <2>2
  <1>5. ASSUME NEW k \in 0 .. c - 1 PROVE Place(s, st, k) \in Ints /\ Short(st, Place(s, st, k), e)
    <2>1. k \in Nat /\ k < c
      OBVIOUS
    <2> QED BY <1>1, <1>2, <2>1, Inside
  <1>6. ASSUME NEW k \in Nat, Short(st, Place(s, st, k), e) PROVE k \in 0 .. c - 1
    <2>1. k < c
      BY <1>2, <1>6 DEF Counts
    <2> QED BY <2>1
  <1>7. \A k \in 0 .. c - 1 : k \in Nat
    OBVIOUS
  <1>8. {i \in Ints : InRange(r, i)} = {Place(s, st, k) : k \in 0 .. c - 1}
    BY <1>4, <1>5, <1>6, <1>7
  <1> QED BY <1>1, <1>8

(* Of steps upwards the length is how many there are.                      *)
LEMMA RangeLength ==
  ASSUME NEW r \in builtinRange, NEW c \in Nat, Counts(c, r.start, r.stop, r.step),
         r.step > 0, r.stop - r.start \in Ints, r.stop - r.start + r.step - 1 \in Ints
  PROVE  Length(r) = c
  <1>1. PICK s \in Int, e \in Int, st \in Nat \ {0} : s = r.start /\ e = r.stop /\ st = r.step
    BY AnyRange
  <1>2. PICK d \in Int : d = e - s
    OBVIOUS
  <1>3. PICK m \in Int : m = d + st - 1 /\ m \in Ints /\ m = r.stop - r.start + r.step - 1
    BY <1>1, <1>2
  <1>4. PICK h \in Nat \ {0} : Ints = -h .. h - 1
    BY Widths
  <1>5. PICK t \in Int : t = Truncate(m, st) /\ (m < 0 => t <= 0 /\ t >= m)
                         /\ (m >= 0 => t = m \div st /\ t \in Nat /\ t <= m)
    <2>1. CASE m >= 0
      <3>1. Truncate(m, st) = m \div st
        BY <2>1 DEF Truncate
      <3>2. m \div st \in Nat /\ m \div st <= m
        BY <2>1
      <3> QED BY <2>1, <3>1, <3>2
    <2>2. CASE m < 0
      <3>1. PICK n \in Nat : n = -m /\ m = -n
        BY <2>2
      <3>2. Truncate(m, st) = -(n \div st)
        BY <2>2, <3>1 DEF Truncate
      <3>3. PICK q \in Nat : q = n \div st /\ q <= n
        OBVIOUS
      <3> QED BY <2>2, <3>1, <3>2, <3>3
    <2> QED BY <2>1, <2>2
  <1>6. t \in Ints
    BY <1>3, <1>4, <1>5
  <1>7. Length(r) = IF t < 0 THEN 0 ELSE t
    <2>1. Wrap(r.stop - r.start + r.step - 1) = m
      BY <1>3, Wraps
    <2>2. Wrap(t) = t
      BY <1>6, Wraps
    <2> QED BY <1>1, <1>5, <2>1, <2>2 DEF Length, Quo
  <1>8. ASSUME NEW k \in Nat PROVE k < c <=> k * st < d
    <2>1. PICK a \in Int : a = k * st
      OBVIOUS
    <2>2. k < c <=> s + a < e
      BY <1>1, <2>1 DEF Counts, Short, Place
    <2> QED BY <1>2, <2>1, <2>2
  <1>9. CASE m >= 0
    <2>1. t \in Nat /\ t = m \div st /\ m \in Nat
      BY <1>5, <1>9
    <2>2. st * t <= m /\ m < st * t + st
      BY <2>1
    <2>3. PICK a \in Int : a = t * st /\ a = st * t
      BY <2>1
    <2>4. ~(t < c)
      BY <1>3, <1>8, <2>1, <2>2, <2>3
    <2>5. t > 0 => t - 1 < c
      <3> SUFFICES ASSUME t > 0 PROVE t - 1 < c
        OBVIOUS
      <3>1. t - 1 \in Nat /\ (t - 1) * st = t * st - st
        BY <2>1
      <3>2. (t - 1) * st < d
        BY <1>3, <2>2, <2>3, <3>1
      <3> QED BY <1>8, <3>1, <3>2
    <2>6. t = c
      BY <2>1, <2>4, <2>5
    <2> QED BY <1>7, <2>1, <2>6
  <1>10. CASE m < 0
    <2>1. d <= 0 /\ 0 * st = 0
      BY <1>3, <1>10
    <2>2. ~(0 < c)
      BY <1>8, <2>1
    <2> QED BY <1>5, <1>7, <1>10, <2>2
  <1> QED BY <1>9, <1>10

-------------------------------------------------------------------------------
(* What the compiler notes of places that follow each other: those behind  *)
(* r, up to m.                                                             *)
Part(s, r, m) == [k \in 1 .. m - r |-> s[r + k]]

LEMMA NotedIs ==
  ASSUME NEW X, NEW s \in Seq(X), NEW places, NEW m \in 0 .. Len(s), NEW r \in 0 .. m,
         \A i \in 1 .. Len(s) : i \in places <=> r < i /\ i <= m
  PROVE  B!Noted(s, places) = Part(s, r, m)
  <1>1. PICK N \in Nat : N = Len(s)
    OBVIOUS
  <1>2. m \in Nat /\ r \in Nat /\ r <= m /\ m <= N
    BY <1>1
  <1> DEFINE f == [k \in Nat |-> s[r + k]]
             so(n) == IF n <= r THEN 0 ELSE IF n <= m THEN n - r ELSE m - r
             h == [n \in 0 .. N |-> [k \in 1 .. so(n) |-> f[k]]]
             next(n, x) == IF n \in places THEN Append(x, s[n]) ELSE x
             Is(u) == u = [n \in 0 .. N |-> IF n = 0 THEN <<>> ELSE next(n, u[n - 1])]
             u == CHOOSE w : Is(w)
  <1>3. B!Noted(s, places) = u[N]
    BY <1>1 DEF B!Noted
  <1>4. \A n \in 0 .. N : h[n] = [k \in 1 .. so(n) |-> f[k]]
    <2> HIDE DEF f, so
    <2> QED OBVIOUS
  <1>5. h[0] = <<>>
    <2>1. so(0) = 0 /\ 0 \in 0 .. N
      BY <1>2
    <2> HIDE DEF f, so, h
    <2>2. h[0] = [k \in 1 .. 0 |-> f[k]]
      BY <1>4, <2>1
    <2> QED BY <2>2
  <1>6. ASSUME NEW n \in 0 .. N, n # 0 PROVE h[n] = next(n, h[n - 1])
    <2>1. PICK j \in Nat : j = n - 1 /\ n = j + 1 /\ j \in 0 .. N /\ n \in 1 .. N
      BY <1>6
    <2>2. CASE n \in places
      <3>1. r < n /\ n <= m
        BY <1>1, <2>1, <2>2
      <3>2. PICK i \in Nat : i = so(j) /\ so(n) = i + 1 /\ n = r + (i + 1)
        BY <1>2, <2>1, <3>1
      <3>3. f[i + 1] = s[n]
        BY <3>2
      <3> HIDE DEF f, so, h
      <3>4. h[j] = [k \in 1 .. i |-> f[k]] /\ h[n] = [k \in 1 .. i + 1 |-> f[k]]
        BY <1>4, <2>1, <3>2
      <3>5. h[n] = Append(h[j], s[n])
        BY <3>2, <3>3, <3>4, Made
      <3> QED BY <2>1, <2>2, <3>5
    <2>3. CASE n \notin places
      <3>1. ~(r < n /\ n <= m)
        BY <1>1, <2>1, <2>3
      <3>2. so(j) = so(n)
        BY <1>2, <2>1, <3>1
      <3> HIDE DEF f, so, h
      <3> QED BY <1>4, <2>1, <2>3, <3>2
    <2> QED BY <2>2, <2>3
  <1>7. Is(h)
    <2>1. h = [n \in 0 .. N |-> h[n]]
      OBVIOUS
    <2> HIDE DEF h, next
    <2> QED BY <1>5, <1>6, <2>1
  <1>8. Is(u)
    <2> HIDE DEF Is
    <2> QED BY <1>7
  <1> HIDE DEF u, h, next
  <1> DEFINE T == {n \in Nat : n <= N => u[n] = h[n]}
  <1>9. 0 \in T
    BY <1>5, <1>8
  <1>10. ASSUME NEW n \in Nat, n \in T PROVE n + 1 \in T
    <2> SUFFICES ASSUME n + 1 <= N PROVE u[n + 1] = h[n + 1]
      OBVIOUS
    <2>1. n + 1 \in 0 .. N /\ n + 1 # 0 /\ (n + 1) - 1 = n /\ n <= N
      OBVIOUS
    <2>2. u[n + 1] = next(n + 1, u[n])
      BY <1>8, <2>1
    <2>3. h[n + 1] = next(n + 1, h[n])
      BY <1>6, <2>1
    <2> QED BY <1>10, <2>1, <2>2, <2>3
  <1>11. N \in T
    <2> HIDE DEF T, Is
    <2> QED BY <1>9, <1>10, Induct
  <1>12. u[N] = [k \in 1 .. so(N) |-> f[k]]
    <2>1. u[N] = h[N] /\ N \in 0 .. N
      BY <1>11
    <2> HIDE DEF so, f
    <2> QED BY <1>4, <2>1
  <1>13. so(N) = m - r
    BY <1>2
  <1>14. [k \in 1 .. m - r |-> f[k]] = [k \in 1 .. m - r |-> s[r + k]]
    OBVIOUS
  <1> HIDE DEF so, f
  <1> QED BY <1>3, <1>12, <1>13, <1>14 DEF Part

(* A signature in the usual order: m plain parameters, of which the first  *)
(* r have no default value; behind them the star, and the stars.           *)
Shaped(s, m, r) ==
  /\ m \in 0 .. Len(s) /\ r \in 0 .. m
  /\ \A i \in 1 .. Len(s) : s[i].kind = "plain" <=> i <= m
  /\ \A i \in 1 .. m : s[i].optional <=> i > r
  /\ \A i \in 1 .. Len(s) : s[i].kind = "star" => i = m + 1
  /\ \A i \in 1 .. Len(s) : s[i].kind = "stars" => i = m + (IF B!Has(s, "star") THEN 2 ELSE 1)
  /\ \A i, j \in 1 .. Len(s) : i # j => s[i].name # s[j].name
  /\ \A i \in 1 .. Len(s) : s[i].kind \in {"plain", "star", "stars"}

LEMMA Shapes ==
  ASSUME NEW s, B!IsSignature(s), B!Simple(s)
  PROVE  \E m, r \in Nat : Shaped(s, m, r)
  <1>1. PICK N \in Nat : N = Len(s) /\ DOMAIN s = 1 .. N
    BY DEF B!IsSignature
  <1>a. \A i \in 1 .. N : s[i].kind \in {"plain", "star", "stars"} /\ s[i].optional \in BOOLEAN
    <2>1. PICK X : X = [name : Names, kind : B!Kinds, optional : BOOLEAN]
      OBVIOUS
    <2>2. s \in Seq(X)
      BY <2>1 DEF B!IsSignature
    <2>3. \A i \in 1 .. N : s[i] \in X
      BY <1>1, <2>2
    <2> QED BY <2>1, <2>3 DEF B!Kinds
  <1>b. \A i, j \in 1 .. N : i # j => s[i].name # s[j].name
    BY <1>1 DEF B!IsSignature
  <1>c. \A i, j \in 1 .. N : i # j /\ s[i].kind = s[j].kind => s[i].kind = "plain"
    BY <1>1 DEF B!IsSignature
  <1>d. \A i \in 1 .. N : s[i].kind # "plain" => ~s[i].optional
    BY <1>1 DEF B!IsSignature
  <1>3. /\ \A i, j \in 1 .. N : i < j /\ s[j].kind = "plain" =>
             s[i].kind = "plain" /\ (s[i].optional => s[j].optional)
        /\ \A i, j \in 1 .. N : i < j /\ s[j].kind = "star" => s[i].kind = "plain"
    <2> SUFFICES ASSUME NEW i \in 1 .. N, NEW j \in 1 .. N, i < j
                 PROVE  /\ s[j].kind = "plain" => s[i].kind = "plain" /\ (s[i].optional => s[j].optional)
                        /\ s[j].kind = "star" => s[i].kind = "plain"
      OBVIOUS
    <2>1. (CASE s[j].kind = "plain" -> s[i].kind = "plain" /\ (s[i].optional => s[j].optional)
             [] s[j].kind = "star" -> s[i].kind = "plain"
             [] s[j].kind = "stars" -> TRUE)
      BY <1>1 DEF B!Simple
    <2> QED BY <2>1
  <1> DEFINE P == {k \in Nat : k = N \/ (k < N /\ s[k + 1].kind # "plain")}
  <1>4. PICK m \in P : \A k \in P : m <= k
    <2>1. P \in SUBSET Nat /\ N \in P
      OBVIOUS
    <2> HIDE DEF P
    <2> QED BY <2>1, Least
  <1>5. m \in Nat /\ m <= N /\ (m = N \/ (m + 1 \in 1 .. N /\ s[m + 1].kind # "plain"))
    BY <1>4
  <1>6. ASSUME NEW i \in 1 .. N PROVE s[i].kind = "plain" <=> i <= m
    <2>1. ASSUME i <= m PROVE s[i].kind = "plain"
      <3>1. i - 1 \in Nat /\ i - 1 < N /\ ~(m <= i - 1) /\ (i - 1) + 1 = i
        BY <1>5, <2>1
      <3>2. i - 1 \notin P
        BY <1>4, <3>1
      <3> QED BY <3>1, <3>2
    <2>2. ASSUME i > m, s[i].kind = "plain" PROVE FALSE
      <3>1. m + 1 \in 1 .. N /\ s[m + 1].kind # "plain"
        BY <1>5, <2>2
      <3>2. m + 1 < i
        BY <1>5, <2>2, <3>1
      <3> QED BY <1>3, <2>2, <3>1, <3>2
    <2> QED BY <1>5, <2>1, <2>2
  <1> DEFINE O == {k \in Nat : k = m \/ (k < m /\ s[k + 1].optional)}
  <1> HIDE DEF P
  <1>7. PICK r \in O : \A k \in O : r <= k
    <2>1. O \in SUBSET Nat /\ m \in O
      BY <1>5
    <2> HIDE DEF O
    <2> QED BY <2>1, Least
  <1>8. r \in Nat /\ r <= m /\ (r = m \/ (r + 1 \in 1 .. m /\ s[r + 1].optional))
    <2>1. r \in Nat /\ (r = m \/ (r < m /\ s[r + 1].optional)) /\ (r < m => r + 1 \in 1 .. m)
      BY <1>5, <1>7
    <2> QED BY <1>5, <2>1
  <1>9. ASSUME NEW i \in 1 .. m PROVE s[i].optional <=> i > r
    <2>0. i \in 1 .. N /\ i \in Nat
      BY <1>5
    <2>1. ASSUME i <= r, s[i].optional PROVE FALSE
      <3>1. i - 1 \in Nat /\ i - 1 < m /\ ~(r <= i - 1) /\ (i - 1) + 1 = i
        BY <1>5, <1>8, <2>1
      <3>2. i - 1 \in O
        BY <2>1, <3>1
      <3> HIDE DEF O
      <3> QED BY <1>7, <3>1, <3>2
    <2>2. ASSUME i > r PROVE s[i].optional
      <3>1. r + 1 \in 1 .. m /\ s[r + 1].optional /\ r + 1 \in 1 .. N
        BY <1>5, <1>8, <2>2
      <3>2. CASE i = r + 1
        BY <3>1, <3>2
      <3>3. CASE i # r + 1
        <4>1. r + 1 < i
          BY <1>8, <2>0, <2>2, <3>3
        <4>2. s[i].kind = "plain"
          BY <1>5, <1>6, <2>0
        <4> QED BY <1>3, <2>0, <3>1, <4>1, <4>2
      <3> QED BY <3>2, <3>3
    <2>3. i <= r \/ i > r
      BY <1>8, <2>0
    <2> QED BY <1>a, <1>8, <2>0, <2>1, <2>2, <2>3
  <1> HIDE DEF O
  <1>10. ASSUME NEW i \in 1 .. N, s[i].kind = "star" PROVE i = m + 1
    <2>1. ~(i <= m)
      BY <1>6, <1>10
    <2>2. i > m + 1 => m + 1 \in 1 .. N /\ s[m + 1].kind # "plain"
      BY <1>5
    <2> QED BY <1>3, <1>5, <1>10, <2>1, <2>2
  <1>11. ASSUME NEW i \in 1 .. N, s[i].kind = "stars"
         PROVE  i = m + (IF B!Has(s, "star") THEN 2 ELSE 1)
    <2>1. ~(i <= m)
      BY <1>6, <1>11
    <2>2. ASSUME NEW j \in 1 .. N, j > m, j < i PROVE s[j].kind = "star" /\ j = m + 1
      <3>1. s[j].kind # "plain"
        BY <1>5, <1>6, <2>2
      <3>2. j # i
        BY <2>2
      <3>3. s[j].kind # "stars"
        BY <1>c, <1>11, <3>1, <3>2
      <3> QED BY <1>a, <1>10, <3>1, <3>3
    <2>3. CASE B!Has(s, "star")
      <3>1. PICK j \in 1 .. N : s[j].kind = "star" /\ j = m + 1
        BY <1>1, <1>10, <2>3 DEF B!Has
      <3>2. i # m + 1
        BY <1>11, <3>1
      <3>3. i > m + 2 => m + 2 \in 1 .. N /\ m + 2 > m /\ m + 2 < i /\ m + 2 # m + 1
        BY <1>5
      <3>4. ~(i > m + 2)
        BY <2>2, <3>3
      <3> QED BY <1>5, <2>1, <2>3, <3>2, <3>4
    <2>4. CASE ~B!Has(s, "star")
      <3>1. i > m + 1 => m + 1 \in 1 .. N /\ m + 1 > m /\ m + 1 < i
        BY <1>5
      <3>2. ~(i > m + 1)
        BY <1>1, <2>2, <2>4, <3>1 DEF B!Has
      <3> QED BY <1>5, <2>1, <2>4, <3>2
    <2> QED BY <2>3, <2>4
  <1>12. Shaped(s, m, r)
    <2>1. \A i \in 1 .. N : s[i].kind = "stars" => i = m + (IF B!Has(s, "star") THEN 2 ELSE 1)
      BY <1>11
    <2> QED BY <1>a, <1>b, <1>1, <1>5, <1>6, <1>8, <1>9, <1>10, <2>1 DEF Shaped
  <1> QED BY <1>5, <1>8, <1>12

LEMMA Parameters ==
  ASSUME NEW X, NEW s \in Seq(X), NEW m \in Nat, NEW r \in Nat, Shaped(s, m, r)
  PROVE  /\ DOMAIN s = 1 .. Len(s) /\ Len(s) \in Nat /\ m <= Len(s) /\ r <= m
         /\ B!Plain(s) = 1 .. m /\ B!Positional(s) = 1 .. m /\ Cardinality(B!Positional(s)) = m
         /\ B!NumParameters(s) = m /\ B!DefaultCount(s) = m - r
         /\ \A i \in 1 .. m : i > r => B!Defaults(s)[i - r] = s[i]
  <1>1. PICK N \in Nat : N = Len(s) /\ DOMAIN s = 1 .. N
    OBVIOUS
  <1>2. m <= N /\ r <= m /\ (\A i \in 1 .. N : s[i].kind = "plain" <=> i <= m)
        /\ (\A i \in 1 .. m : i \in 1 .. N /\ (s[i].optional <=> i > r))
    BY <1>1 DEF Shaped
  <1>3. B!Plain(s) = 1 .. m
    BY <1>1, <1>2 DEF B!Plain
  <1>4. B!Positional(s) = 1 .. m
    <2>1. ASSUME NEW i \in 1 .. m, NEW j \in 1 .. i PROVE s[j].kind = "plain"
      <3>1. j \in 1 .. N /\ j <= m
        BY <1>2
      <3> QED BY <1>2, <3>1
    <2>2. \A i \in 1 .. m : i \in DOMAIN s /\ s[i].kind = "plain"
      BY <1>1, <1>2
    <2>3. \A i \in DOMAIN s : s[i].kind = "plain" => i \in 1 .. m
      BY <1>1, <1>2
    <2> QED BY <2>1, <2>2, <2>3 DEF B!Positional
  <1>5. Cardinality(1 .. m) = m
    BY FS_Interval
  <1>6. B!NumParameters(s) = m
    <2>0. PICK z \in Nat : z = 0
      OBVIOUS
    <2>1. PICK P : P = B!Plain(s) /\ z = 0
      BY <2>0
    <2>2. \A i \in 1 .. Len(s) : i \in P <=> z < i /\ i <= m
      BY <1>1, <1>2, <1>3, <2>1
    <2>3. m \in 0 .. Len(s) /\ z \in 0 .. m
      BY <1>1, <1>2, <2>1
    <2>4. B!Noted(s, P) = Part(s, z, m)
      BY <2>2, <2>3, NotedIs
    <2>5. Len(Part(s, z, m)) = m
      BY <2>0 DEF Part
    <2> QED BY <2>1, <2>4, <2>5 DEF B!NumParameters
  <1>7. B!Defaults(s) = Part(s, r, m)
    <2> DEFINE O == {i \in B!Plain(s) : s[i].optional}
    <2>1. \A i \in 1 .. Len(s) : i \in O <=> r < i /\ i <= m
      BY <1>1, <1>2, <1>3
    <2>2. m \in 0 .. Len(s) /\ r \in 0 .. m
      BY <1>1, <1>2
    <2>3. B!Defaults(s) = B!Noted(s, O)
      BY DEF B!Defaults
    <2> HIDE DEF O
    <2> QED BY <2>1, <2>2, <2>3, NotedIs
  <1>8. B!DefaultCount(s) = m - r
    <2>1. Len(Part(s, r, m)) = m - r
      BY <1>2 DEF Part
    <2> QED BY <1>7, <2>1 DEF B!DefaultCount
  <1>9. ASSUME NEW i \in 1 .. m, i > r PROVE B!Defaults(s)[i - r] = s[i]
    <2>1. PICK k \in Nat : k = i - r /\ i = r + k /\ k \in 1 .. m - r
      BY <1>2, <1>9
    <2> QED BY <1>7, <2>1 DEF Part
  <1> QED BY <1>1, <1>2, <1>3, <1>4, <1>5, <1>6, <1>8, <1>9

(* The values of the plain parameters.                                     *)
LEMMA Fills ==
  ASSUME NEW X, NEW s \in Seq(X), NEW m \in Nat, NEW r \in Nat, Shaped(s, m, r),
         NEW n \in Nat, NEW ks, NEW i \in 1 .. m
  PROVE  B!Fill(s, n, ks, i) = IF i <= n THEN B!Arg(i)
                               ELSE IF s[i].name \in ks THEN B!Keyword(s[i].name)
                               ELSE IF i > r THEN B!Default(s[i].name) ELSE B!Missing
  <1>1. B!NumParameters(s) - B!DefaultCount(s) = r
    <2>1. B!NumParameters(s) = m /\ B!DefaultCount(s) = m - r /\ r <= m
      BY Parameters
    <2> QED BY <2>1
  <1>2. i > r => B!Defaults(s)[i - r] = s[i]
    BY Parameters
  <1>3. i > n <=> ~(i <= n)
    OBVIOUS
  <1> QED BY <1>1, <1>2, <1>3 DEF B!Fill

LEMMA ValuesDiffer ==
  /\ \A i : B!Arg(i) # B!Missing /\ B!Keyword(i) # B!Missing /\ B!Default(i) # B!Missing
  /\ B!Nothing # B!Missing
  BY DEF B!Arg, B!Keyword, B!Default, B!Missing, B!Nothing

(* A call is refused for a parameter that has no value.                    *)
LEMMA Refused ==
  ASSUME NEW X, NEW s \in Seq(X), NEW m \in Nat, NEW r \in Nat, Shaped(s, m, r),
         NEW n \in Nat, NEW ks
  PROVE  B!Missing \in ToSet(B!Filled(s, n, ks)) <=>
           \E i \in 1 .. m : ~(i <= n) /\ s[i].name \notin ks /\ ~s[i].optional
  <1>1. PICK N \in Nat : N = Len(s) /\ DOMAIN s = 1 .. N /\ m <= N
    BY Parameters
  <1>2. \A i \in 1 .. m : i \in 1 .. N /\ (s[i].optional <=> i > r)
    BY <1>1 DEF Shaped
  <1> DEFINE f == B!Filled(s, n, ks)
  <1>3. /\ DOMAIN f = 1 .. N
        /\ \A i \in 1 .. N : f[i] = IF i <= m THEN B!Fill(s, n, ks, i) ELSE B!Nothing
    <2>1. B!NumParameters(s) = m
      BY Parameters
    <2> QED BY <1>1, <2>1 DEF B!Filled
  <1>4. ASSUME NEW i \in 1 .. N
        PROVE  f[i] = B!Missing <=> i <= m /\ ~(i <= n) /\ s[i].name \notin ks /\ ~s[i].optional
    <2> HIDE DEF f
    <2>1. CASE i <= m
      <3>1. i \in 1 .. m
        BY <2>1
      <3>2. f[i] = IF i <= n THEN B!Arg(i)
                   ELSE IF s[i].name \in ks THEN B!Keyword(s[i].name)
                   ELSE IF i > r THEN B!Default(s[i].name) ELSE B!Missing
        BY <1>3, <2>1, <3>1, Fills
      <3>3. s[i].optional <=> i > r
        BY <1>2, <3>1
      <3> QED BY <2>1, <3>2, <3>3, ValuesDiffer
    <2>2. CASE ~(i <= m)
      BY <1>3, <2>2, ValuesDiffer
    <2> QED BY <2>1, <2>2
  <1>5. B!Missing \in ToSet(f) <=> \E i \in 1 .. N : f[i] = B!Missing
    BY <1>3 DEF ToSet
  <1> HIDE DEF f
  <1>6. \A i \in 1 .. m : i \in 1 .. N /\ i <= m
    BY <1>1
  <1>7. \A i \in 1 .. N : i <= m => i \in 1 .. m
    OBVIOUS
  <1>8. B!Missing \in ToSet(f) <=>
           \E i \in 1 .. m : ~(i <= n) /\ s[i].name \notin ks /\ ~s[i].optional
    BY <1>4, <1>5, <1>6, <1>7
  <1> QED BY <1>8 DEF f

(* What is in the slots of the others.                                     *)
Slots(s, n, ks) == B!Stars(s, ks, B!Star(s, n, B!Filled(s, n, ks)))

Hold(slots, s, m, n, ks) ==
  /\ slots = [i \in 1 .. Len(s) |-> slots[i]]
  /\ \A i \in 1 .. Len(s) :
       slots[i] = IF ~B!Has(s, "stars") /\ s[i].name \in ks THEN B!Keyword(s[i].name)
                  ELSE IF i <= m THEN B!Fill(s, n, ks, i)
                  ELSE IF s[i].kind = "star" THEN B!Rest(m + 1 .. n)
                  ELSE B!More(ks \ {s[j].name : j \in 1 .. m})

LEMMA SlotsAre ==
  ASSUME NEW X, NEW s \in Seq(X), NEW m \in Nat, NEW r \in Nat, Shaped(s, m, r),
         NEW n \in Nat, NEW ks
  PROVE  Hold(Slots(s, n, ks), s, m, n, ks)
  <1>1. PICK N \in Nat : N = Len(s) /\ DOMAIN s = 1 .. N /\ m <= N
    BY Parameters
  <1>2. B!NumParameters(s) = m
    BY Parameters
  <1>3. \A i \in 1 .. N : /\ s[i].kind \in {"plain", "star", "stars"}
                          /\ s[i].kind = "plain" <=> i <= m
                          /\ s[i].kind = "star" => i = m + 1
                          /\ s[i].kind = "stars" => i = m + (IF B!Has(s, "star") THEN 2 ELSE 1)
    BY <1>1 DEF Shaped
  <1> DEFINE f == B!Filled(s, n, ks)
             g == B!Star(s, n, f)
             h == B!Stars(s, ks, g)
             next == m + (IF B!Has(s, "star") THEN 2 ELSE 1)
             names == {s[j].name : j \in 1 .. m}
  <1>4. f = [i \in 1 .. N |-> IF i <= m THEN B!Fill(s, n, ks, i) ELSE B!Nothing]
    BY <1>1, <1>2 DEF B!Filled
  <1> HIDE DEF f
  <1>5. g = IF B!Has(s, "star") THEN [f EXCEPT ![m + 1] = B!Rest(m + 1 .. n)] ELSE f
    BY <1>2 DEF B!Star
  <1> HIDE DEF g
  <1>6. h = IF B!Has(s, "stars") THEN [g EXCEPT ![next] = B!More(ks \ names)]
            ELSE [i \in 1 .. N |-> IF s[i].name \in ks THEN B!Keyword(s[i].name) ELSE g[i]]
    BY <1>1, <1>2 DEF B!Stars
  <1> HIDE DEF h
  <1>7. DOMAIN f = 1 .. N /\ f = [i \in 1 .. N |-> f[i]]
    BY <1>4
  <1>8. DOMAIN g = 1 .. N /\ g = [i \in 1 .. N |-> g[i]]
    BY <1>5, <1>7
  <1>9. h = [i \in 1 .. N |-> h[i]]
    BY <1>6, <1>8
  <1>10. ASSUME NEW i \in 1 .. N
         PROVE  g[i] = IF i <= m THEN B!Fill(s, n, ks, i)
                       ELSE IF s[i].kind = "star" THEN B!Rest(m + 1 .. n) ELSE B!Nothing
    <2>1. f[i] = IF i <= m THEN B!Fill(s, n, ks, i) ELSE B!Nothing
      BY <1>4
    <2>2. s[i].kind = "star" => B!Has(s, "star") /\ i = m + 1 /\ ~(i <= m)
      BY <1>1, <1>3 DEF B!Has
    <2>3. B!Has(s, "star") /\ i = m + 1 => s[i].kind = "star"
      <3> SUFFICES ASSUME B!Has(s, "star"), i = m + 1 PROVE s[i].kind = "star"
        OBVIOUS
      <3>1. PICK j \in 1 .. N : s[j].kind = "star"
        BY <1>1 DEF B!Has
      <3> QED BY <1>3, <3>1
    <2>4. CASE B!Has(s, "star") /\ i = m + 1
      BY <1>5, <1>7, <2>2, <2>3, <2>4
    <2>5. CASE ~(B!Has(s, "star") /\ i = m + 1)
      <3>1. g[i] = f[i]
        BY <1>5, <1>7, <2>5
      <3> QED BY <2>1, <2>2, <2>5, <3>1
    <2> QED BY <2>4, <2>5
  <1>11. ASSUME NEW i \in 1 .. N
         PROVE  h[i] = IF ~B!Has(s, "stars") /\ s[i].name \in ks THEN B!Keyword(s[i].name)
                       ELSE IF i <= m THEN B!Fill(s, n, ks, i)
                       ELSE IF s[i].kind = "star" THEN B!Rest(m + 1 .. n)
                       ELSE B!More(ks \ names)
    <2>1. s[i].kind = "stars" => B!Has(s, "stars") /\ i = next /\ ~(i <= m)
      BY <1>1, <1>3 DEF B!Has
    <2>2. CASE B!Has(s, "stars")
      <3>1. PICK j \in 1 .. N : s[j].kind = "stars" /\ j = next
        BY <1>1, <1>3, <2>2 DEF B!Has
      <3>2. CASE i = next
        <4>1. h[i] = B!More(ks \ names)
          BY <1>6, <1>8, <2>2, <3>2
        <4>2. s[i].kind = "stars"
          BY <3>1, <3>2
        <4> QED BY <2>1, <2>2, <4>1, <4>2
      <3>3. CASE i # next
        <4>1. h[i] = g[i]
          BY <1>6, <1>8, <2>2, <3>3
        <4>2. s[i].kind # "stars"
          BY <2>1, <3>3
        <4>3. i <= m \/ s[i].kind = "star"
          BY <1>3, <4>2
        <4> HIDE DEF next, names
        <4> QED BY <1>10, <2>2, <4>1, <4>3
      <3> QED BY <3>2, <3>3
    <2>3. CASE ~B!Has(s, "stars")
      <3>1. h[i] = IF s[i].name \in ks THEN B!Keyword(s[i].name) ELSE g[i]
        BY <1>6, <2>3
      <3>2. i <= m \/ s[i].kind = "star"
        BY <1>3, <2>1, <2>3
      <3> QED BY <1>10, <2>3, <3>1, <3>2
    <2> QED BY <2>2, <2>3
  <1>12. Slots(s, n, ks) = h
    BY DEF Slots, h, g, f
  <1> HIDE DEF names, next
  <1>13. /\ h = [i \in 1 .. Len(s) |-> h[i]]
         /\ \A i \in 1 .. Len(s) :
              h[i] = IF ~B!Has(s, "stars") /\ s[i].name \in ks THEN B!Keyword(s[i].name)
                     ELSE IF i <= m THEN B!Fill(s, n, ks, i)
                     ELSE IF s[i].kind = "star" THEN B!Rest(m + 1 .. n)
                     ELSE B!More(ks \ names)
    BY <1>1, <1>9, <1>11
  <1> QED BY <1>12, <1>13 DEF names, Hold

(* What a call binds.                                                      *)
Bound(c) == B!callClosure(c.sig, B!Supplied(c), c.keys)

LEMMA Binds ==
  ASSUME NEW c, B!IsCall(c), B!Simple(c.sig)
  PROVE  /\ Bound(c).outcome = "missing" <=> \E i \in B!Plain(c.sig) : B!Valueless(c, i)
         /\ Bound(c).outcome = "bound" => \A i \in B!Plain(c.sig) : B!Meant(c, i, Bound(c).locals[i])
         /\ B!Legal(c) => Bound(c).outcome = "bound" /\ Bound(c).locals = B!Meaning(c)
  <1>1. PICK n \in Nat : n = B!Supplied(c)
    BY DEF B!Supplied, B!IsCall
  <1>2. PICK s : s = c.sig
    OBVIOUS
  <1>3. PICK ks : ks = c.keys
    OBVIOUS
  <1>4. PICK X : s \in Seq(X)
    BY <1>2 DEF B!IsCall, B!IsSignature
  <1>5. PICK m \in Nat, r \in Nat : Shaped(s, m, r)
    BY <1>2, Shapes DEF B!IsCall
  <1>6. PICK N \in Nat : N = Len(s) /\ DOMAIN s = 1 .. N /\ m <= N
    BY <1>4, <1>5, Parameters
  <1>7. B!Plain(s) = 1 .. m /\ B!Positional(s) = 1 .. m /\ Cardinality(B!Positional(s)) = m
    BY <1>4, <1>5, Parameters
  <1>8. /\ \A i \in 1 .. N : /\ s[i].kind \in {"plain", "star", "stars"}
                             /\ s[i].kind = "plain" <=> i <= m
        /\ \A i \in 1 .. m : i \in 1 .. N /\ (s[i].optional <=> i > r)
        /\ \A i, j \in 1 .. N : i # j => s[i].name # s[j].name
    BY <1>6, <1>5 DEF Shaped
  <1>9. /\ \A i : B!ByPosition(c, i) <=> i \in 1 .. m /\ i <= n
        /\ \A i : B!ByKeyword(c, i) <=> i \in 1 .. m /\ s[i].name \in ks
        /\ B!PlainNames(c) = {s[i].name : i \in 1 .. m}
    BY <1>1, <1>2, <1>3, <1>7 DEF B!ByPosition, B!ByKeyword, B!PlainNames
  <1>10. ASSUME NEW i \in 1 .. m
         PROVE  B!Valueless(c, i) <=> ~(i <= n) /\ s[i].name \notin ks /\ ~s[i].optional
    BY <1>2, <1>9 DEF B!Valueless
  <1> DEFINE none == B!Missing \in ToSet(B!Filled(s, n, ks))
  <1>11. Bound(c) = IF none THEN [outcome |-> "missing", locals |-> <<>>]
                    ELSE [outcome |-> "bound", locals |-> Slots(s, n, ks)]
    BY <1>1, <1>2, <1>3 DEF Bound, B!callClosure, Slots, ToSet, B!ToSet
  <1>12. none <=> \E i \in 1 .. m : B!Valueless(c, i)
    <2>1. none <=> \E i \in 1 .. m : ~(i <= n) /\ s[i].name \notin ks /\ ~s[i].optional
      BY <1>4, <1>5, Refused
    <2> HIDE DEF none
    <2> QED BY <1>10, <2>1
  <1> HIDE DEF none
  <1> DEFINE L == Slots(s, n, ks)
  <1>13. /\ L = [i \in 1 .. N |-> L[i]]
         /\ \A i \in 1 .. N :
              L[i] = IF ~B!Has(s, "stars") /\ s[i].name \in ks THEN B!Keyword(s[i].name)
                     ELSE IF i <= m THEN B!Fill(s, n, ks, i)
                     ELSE IF s[i].kind = "star" THEN B!Rest(m + 1 .. n)
                     ELSE B!More(ks \ {s[j].name : j \in 1 .. m})
    <2>1. Hold(L, s, m, n, ks)
      BY <1>4, <1>5, SlotsAre
    <2> HIDE DEF L
    <2> QED BY <1>6, <2>1 DEF Hold
  <1> HIDE DEF L
  <1>14. \A i \in 1 .. m :
           B!Fill(s, n, ks, i) = IF i <= n THEN B!Arg(i)
                                 ELSE IF s[i].name \in ks THEN B!Keyword(s[i].name)
                                 ELSE IF i > r THEN B!Default(s[i].name) ELSE B!Missing
    BY <1>4, <1>5, Fills
  <1>15. ASSUME ~none, NEW i \in 1 .. m
         PROVE  L[i] = IF ~B!Has(s, "stars") /\ s[i].name \in ks THEN B!Keyword(s[i].name)
                       ELSE IF i <= n THEN B!Arg(i)
                       ELSE IF s[i].name \in ks THEN B!Keyword(s[i].name)
                       ELSE B!Default(s[i].name)
    <2>1. i \in 1 .. N /\ i <= m /\ (s[i].optional <=> i > r)
      BY <1>8
    <2>2. ~(i <= n) /\ s[i].name \notin ks => i > r
      BY <1>10, <1>12, <1>15, <2>1
    <2> QED BY <1>13, <1>14, <2>1, <2>2
  <1>16. ASSUME ~none, NEW i \in 1 .. m PROVE B!Meant(c, i, L[i])
    <2>1. ~(i <= n) /\ s[i].name \notin ks => s[i].optional
      BY <1>10, <1>12, <1>16
    <2> QED BY <1>2, <1>9, <1>15, <1>16, <2>1 DEF B!Meant
  <1>17. ASSUME B!Legal(c) PROVE ~none /\ L = B!Meaning(c)
    <2>1. \A i \in 1 .. m : ~B!Valueless(c, i) /\ ~(B!ByPosition(c, i) /\ B!ByKeyword(c, i))
      BY <1>2, <1>7, <1>17 DEF B!Legal
    <2>2. ~none
      BY <1>12, <2>1
    <2>3. ~B!Has(s, "stars") => ks \subseteq {s[i].name : i \in 1 .. m}
      BY <1>2, <1>3, <1>9, <1>17 DEF B!Legal
    <2> DEFINE M == B!Meaning(c)
               value(i) ==
                 CASE B!ByPosition(c, i) -> B!Arg(i)
                   [] B!ByKeyword(c, i) -> B!Keyword(s[i].name)
                   [] i \in 1 .. m /\ ~B!ByPosition(c, i) /\ ~B!ByKeyword(c, i) -> B!Default(s[i].name)
                   [] s[i].kind = "star" -> B!Rest(m + 1 .. n)
                   [] s[i].kind = "stars" -> B!More(ks \ {s[j].name : j \in 1 .. m})
    <2>4. M = [i \in 1 .. N |-> value(i)]
      BY <1>1, <1>2, <1>3, <1>6, <1>7, <1>9 DEF B!Meaning
    <2> HIDE DEF M, value
    <2>5. M = [i \in 1 .. N |-> M[i]]
      BY <2>4
    <2>6. ASSUME NEW i \in 1 .. N PROVE L[i] = M[i]
      <3>1. M[i] = CASE B!ByPosition(c, i) -> B!Arg(i)
                     [] B!ByKeyword(c, i) -> B!Keyword(s[i].name)
                     [] i \in 1 .. m /\ ~B!ByPosition(c, i) /\ ~B!ByKeyword(c, i) -> B!Default(s[i].name)
                     [] s[i].kind = "star" -> B!Rest(m + 1 .. n)
                     [] s[i].kind = "stars" -> B!More(ks \ {s[j].name : j \in 1 .. m})
        BY <2>4 DEF value
      <3>2. CASE i \in 1 .. m
        <4>1. s[i].kind = "plain"
          BY <1>8, <3>2
        <4>2. CASE i <= n
          <5>1. B!ByPosition(c, i) /\ ~B!ByKeyword(c, i) /\ s[i].name \notin ks
            BY <1>9, <2>1, <3>2, <4>2
          <5>2. L[i] = B!Arg(i)
            BY <1>15, <2>2, <3>2, <4>2, <5>1
          <5>3. M[i] = B!Arg(i)
            BY <3>1, <4>1, <5>1
          <5> QED BY <5>2, <5>3
        <4>3. CASE ~(i <= n) /\ s[i].name \in ks
          <5>1. ~B!ByPosition(c, i) /\ B!ByKeyword(c, i)
            BY <1>9, <3>2, <4>3
          <5>2. L[i] = B!Keyword(s[i].name)
            BY <1>15, <2>2, <3>2, <4>3
          <5>3. M[i] = B!Keyword(s[i].name)
            BY <3>1, <4>1, <5>1
          <5> QED BY <5>2, <5>3
        <4>4. CASE ~(i <= n) /\ s[i].name \notin ks
          <5>1. ~B!ByPosition(c, i) /\ ~B!ByKeyword(c, i)
            BY <1>9, <3>2, <4>4
          <5>2. L[i] = B!Default(s[i].name)
            BY <1>15, <2>2, <3>2, <4>4
          <5>3. M[i] = B!Default(s[i].name)
            BY <3>1, <3>2, <4>1, <5>1
          <5> QED BY <5>2, <5>3
        <4> QED BY <4>2, <4>3, <4>4
      <3>3. CASE i \notin 1 .. m
        <4>1. ~(i <= m) /\ ~B!ByPosition(c, i) /\ ~B!ByKeyword(c, i) /\ s[i].kind \in {"star", "stars"}
          BY <1>8, <1>9, <3>3
        <4>2. B!Has(s, "stars") \/ s[i].name \notin ks
          <5>1. \A j \in 1 .. m : s[j].name # s[i].name
            BY <1>8, <3>3
          <5> QED BY <2>3, <5>1
        <4>3. L[i] = IF s[i].kind = "star" THEN B!Rest(m + 1 .. n)
                     ELSE B!More(ks \ {s[j].name : j \in 1 .. m})
          BY <1>13, <4>1, <4>2
        <4>4. M[i] = IF s[i].kind = "star" THEN B!Rest(m + 1 .. n)
                     ELSE B!More(ks \ {s[j].name : j \in 1 .. m})
          BY <3>1, <3>3, <4>1
        <4> QED BY <4>3, <4>4
      <3> QED BY <3>2, <3>3
    <2>7. L = M
      BY <1>13, <2>5, <2>6
    <2> QED BY <2>2, <2>7 DEF M
  <1>18. (Bound(c).outcome = "missing" <=> none) /\ (Bound(c).outcome = "bound" <=> ~none)
    BY <1>11
  <1>19. ~none => Bound(c).locals = L
    BY <1>11 DEF L
  <1>20. Bound(c).outcome = "missing" <=> \E i \in B!Plain(c.sig) : B!Valueless(c, i)
    BY <1>2, <1>7, <1>12, <1>18
  <1>21. Bound(c).outcome = "bound" => \A i \in B!Plain(c.sig) : B!Meant(c, i, Bound(c).locals[i])
    BY <1>2, <1>7, <1>16, <1>18, <1>19
  <1>22. B!Legal(c) => Bound(c).outcome = "bound" /\ Bound(c).locals = B!Meaning(c)
    BY <1>17, <1>18, <1>19
  <1> QED BY <1>20, <1>21, <1>22

LEMMA CallMeans ==
  ASSUME NEW c, B!IsCall(c)
  PROVE  B!BoundAsDefined(c, B!executeCall(c))
  <1> SUFFICES ASSUME B!Simple(c.sig), c.callee # "builtin",
                      B!executeCall(c).outcome \in {"bound", "missing"}
               PROVE  B!executeCall(c) = Bound(c)
    BY Binds DEF B!BoundAsDefined
  <1>1. CASE c.callee = "function"
    BY <1>1 DEF B!executeCall, Bound, B!Supplied
  <1>2. CASE c.callee \in {"method", "class"} /\ c.keys = {}
    <2>1. c.callee # "function"
      BY <1>2
    <2> QED BY <1>2, <2>1 DEF B!executeCall, Bound, B!Supplied
  <1>3. CASE c.callee \in {"method", "class"} /\ c.keys # {}
    <2>1. c.callee # "function"
      BY <1>3
    <2>2. B!executeCall(c) = [outcome |-> "unsupported", locals |-> <<>>]
      BY <1>3, <2>1 DEF B!executeCall
    <2> QED BY <2>2
  <1>4. c.callee \in {"function", "method", "class"}
    BY DEF B!IsCall, B!Callees
  <1> QED BY <1>1, <1>2, <1>3, <1>4

LEMMA RangeMeans ==
  ASSUME NEW r \in builtinRange
  PROVE  LET numbers == Numbers(r)
             ends == numbers = <<>> \/ Last(numbers) + r.step \in Ints
         IN  /\ IsTrue(r) <=> numbers # <<>>
             /\ ends => Looped(r) = numbers /\ Listed(r) = numbers
             /\ r.stop - r.start \in Ints /\ -r.step \in Ints =>
                  {i \in Ints : InRange(r, i)} = ToSet(numbers)
             /\ r.step > 0 /\ r.stop - r.start \in Ints /\ r.stop - r.start + r.step - 1 \in Ints =>
                  Length(r) = Len(numbers)
  <1>1. PICK numbers : numbers = Numbers(r)
    OBVIOUS
  <1>2. PICK c : /\ Counts(c, r.start, r.stop, r.step)
                 /\ numbers = [k \in 1 .. c |-> Place(r.start, r.step, k - 1)]
    BY <1>1, NumbersAre
  <1>3. c \in Nat
    BY <1>2, Widths DEF Counts
  <1>4. r.start \in Int /\ r.stop \in Int /\ r.step \in Int \ {0}
    BY AnyRange
  <1>5. Len(numbers) = c /\ DOMAIN numbers = 1 .. c /\ (numbers = <<>> <=> c = 0)
    BY <1>2, <1>3
  <1>6. ToSet(numbers) = {Place(r.start, r.step, k) : k \in 0 .. c - 1}
    <2>1. ToSet(numbers) = {Place(r.start, r.step, k - 1) : k \in 1 .. c}
      BY <1>2, <1>5 DEF ToSet
    <2>2. /\ \A k \in 1 .. c : k - 1 \in 0 .. c - 1
          /\ \A k \in 0 .. c - 1 : k + 1 \in 1 .. c /\ (k + 1) - 1 = k
      BY <1>3
    <2> QED BY <2>1, <2>2
  <1>7. IsTrue(r) <=> numbers # <<>>
    <2>1. 0 < c <=> Short(r.step, Place(r.start, r.step, 0), r.stop)
      BY <1>2 DEF Counts
    <2>2. Place(r.start, r.step, 0) = r.start
      BY <1>4, Places
    <2>3. IsTrue(r) <=> 0 < c
      BY <2>1, <2>2 DEF IsTrue, Short
    <2> QED BY <1>3, <1>5, <2>3
  <1>8. ASSUME numbers = <<>> \/ Last(numbers) + r.step \in Ints
        PROVE  Looped(r) = numbers /\ Listed(r) = numbers
    <2>1. c = 0 \/ Place(r.start, r.step, c - 1) + r.step \in Ints
      <3>1. CASE c = 0
        BY <3>1
      <3>2. CASE c # 0
        <4>1. Last(numbers) = Place(r.start, r.step, c - 1)
          BY <1>2, <1>3, <1>5, <3>2 DEF Last
        <4> QED BY <1>5, <1>8, <3>2, <4>1
      <3> QED BY <3>1, <3>2
    <2> QED BY <1>2, <1>3, <2>1, RangeLoops
  <1>9. r.stop - r.start \in Ints /\ -r.step \in Ints => {i \in Ints : InRange(r, i)} = ToSet(numbers)
    BY <1>2, <1>3, <1>6, RangeMembers
  <1>10. r.step > 0 /\ r.stop - r.start \in Ints /\ r.stop - r.start + r.step - 1 \in Ints =>
           Length(r) = Len(numbers)
    BY <1>2, <1>3, <1>5, RangeLength
  <1> QED BY <1>1, <1>7, <1>8, <1>9, <1>10

-------------------------------------------------------------------------------
(* The order of texts: where they begin to differ.                         *)
Differ(n, s, t) ==
  /\ n <= Len(s) /\ n < Len(t)
  /\ \A k \in 1 .. n : s[k] = t[k]
  /\ n = Len(s) \/ s[n + 1] < t[n + 1]

LEMMA Predecessor ==
  ASSUME NEW m \in Nat, NEW k \in 1 .. m
  PROVE  \E j \in Nat : k = j + 1 /\ j < m
  <1>1. k - 1 \in Nat /\ k = (k - 1) + 1 /\ k - 1 < m
    OBVIOUS
  <1> QED BY <1>1

LEMMA BeforeIs ==
  ASSUME NEW s \in Seq(Int), NEW t \in Seq(Int)
  PROVE  Before(s, t) <=> \E n \in Nat : Differ(n, s, t)
  <1>1. ASSUME NEW n \in Nat, n <= Len(s), n <= Len(t)
        PROVE  SubSeq(s, 1, n) = SubSeq(t, 1, n) <=> \A k \in 1 .. n : s[k] = t[k]
    <2>1. SubSeq(s, 1, n) \in Seq(Int) /\ SubSeq(t, 1, n) \in Seq(Int)
          /\ Len(SubSeq(s, 1, n)) = n /\ Len(SubSeq(t, 1, n)) = n
      BY <1>1
    <2>2. \A k \in 1 .. n : SubSeq(s, 1, n)[k] = s[k] /\ SubSeq(t, 1, n)[k] = t[k]
      BY <1>1
    <2>3. CASE \A k \in 1 .. n : s[k] = t[k]
      <3>1. \A k \in 1 .. n : SubSeq(s, 1, n)[k] = SubSeq(t, 1, n)[k]
        BY <2>2, <2>3
      <3> QED BY <2>1, <2>3, <3>1, SeqEqual
    <2>4. CASE SubSeq(s, 1, n) = SubSeq(t, 1, n)
      <3>1. \A k \in 1 .. n : s[k] = t[k]
        BY <2>2, <2>4
      <3> QED BY <2>4, <3>1
    <2> QED BY <2>3, <2>4
  <1>2. ASSUME Before(s, t) PROVE \E n \in Nat : Differ(n, s, t)
    <2>1. PICK n \in 0 .. Len(t) - 1 :
            /\ n <= Len(s)
            /\ SubSeq(s, 1, n) = SubSeq(t, 1, n)
            /\ n = Len(s) \/ (n < Len(s) /\ s[n + 1] < t[n + 1])
      BY <1>2 DEF Before
    <2>2. n \in Nat /\ n < Len(t)
      OBVIOUS
    <2>3. \A k \in 1 .. n : s[k] = t[k]
      BY <1>1, <2>1, <2>2
    <2> QED BY <2>1, <2>2, <2>3 DEF Differ
  <1>3. ASSUME NEW n \in Nat, Differ(n, s, t) PROVE Before(s, t)
    <2>1. n <= Len(s) /\ n < Len(t) /\ (n = Len(s) \/ s[n + 1] < t[n + 1])
      BY <1>3 DEF Differ
    <2>2. SubSeq(s, 1, n) = SubSeq(t, 1, n)
      BY <1>1, <1>3, <2>1 DEF Differ
    <2>3. n \in 0 .. Len(t) - 1 /\ (n = Len(s) \/ n < Len(s))
      BY <2>1
    <2> QED BY <2>1, <2>2, <2>3 DEF Before
  <1> QED BY <1>2, <1>3

LEMMA BeforeOneWay ==
  ASSUME NEW s \in Seq(Int), NEW t \in Seq(Int), Before(s, t), Before(t, s)
  PROVE  FALSE
  <1>1. PICK n \in Nat : Differ(n, s, t)
    BY BeforeIs
  <1>2. PICK m \in Nat : Differ(m, t, s)
    BY BeforeIs
  <1>3. \A k \in 1 .. Len(s) : s[k] \in Int
    OBVIOUS
  <1>4. \A k \in 1 .. Len(t) : t[k] \in Int
    OBVIOUS
  <1>5. n < Len(t) /\ m < Len(s)
    BY <1>1, <1>2 DEF Differ
  <1>6. CASE n < m
    <2>1. n + 1 \in 1 .. m /\ n + 1 \in 1 .. Len(s) /\ n # Len(s)
      BY <1>5, <1>6
    <2>2. s[n + 1] < t[n + 1]
      BY <1>1, <2>1 DEF Differ
    <2>3. t[n + 1] = s[n + 1]
      BY <1>2, <2>1 DEF Differ
    <2> QED BY <1>3, <2>1, <2>2, <2>3
  <1>7. CASE m < n
    <2>1. m + 1 \in 1 .. n /\ m + 1 \in 1 .. Len(t) /\ m # Len(t)
      BY <1>5, <1>7
    <2>2. t[m + 1] < s[m + 1]
      BY <1>2, <2>1 DEF Differ
    <2>3. t[m + 1] = s[m + 1]
      BY <1>1, <2>1 DEF Differ
    <2> QED BY <1>4, <2>1, <2>2, <2>3
  <1>8. CASE n = m
    <2>1. n + 1 \in 1 .. Len(s) /\ n + 1 \in 1 .. Len(t) /\ n # Len(s) /\ m # Len(t)
      BY <1>5, <1>8
    <2>2. s[n + 1] < t[n + 1]
      BY <1>1, <2>1 DEF Differ
    <2>3. t[n + 1] < s[n + 1]
      BY <1>2, <1>8, <2>1 DEF Differ
    <2> QED BY <1>3, <1>4, <2>1, <2>2, <2>3
  <1> QED BY <1>6, <1>7, <1>8

(* Of three texts the one in the middle is apart from an end.              *)
LEMMA BeforeApart ==
  ASSUME NEW s \in Seq(Int), NEW t \in Seq(Int), NEW u \in Seq(Int), Before(s, u)
  PROVE  Before(s, t) \/ Before(t, u)
  <1> SUFFICES \E n \in Nat : Differ(n, s, t) \/ Differ(n, t, u)
    BY BeforeIs
  <1>1. PICK n \in Nat : Differ(n, s, u)
    BY BeforeIs
  <1>2. /\ \A k \in 1 .. Len(s) : s[k] \in Int
        /\ \A k \in 1 .. Len(t) : t[k] \in Int
        /\ \A k \in 1 .. Len(u) : u[k] \in Int
    OBVIOUS
  <1>3. /\ n <= Len(s) /\ n < Len(u) /\ (n = Len(s) \/ s[n + 1] < u[n + 1])
        /\ \A k \in 1 .. n : s[k] = u[k]
    BY <1>1 DEF Differ
  <1> DEFINE Ends == {m \in Nat : m >= Len(t) \/ m >= Len(u) \/ t[m + 1] # u[m + 1]}
  <1>4. PICK m \in Ends : \A k \in Ends : m <= k
    <2>1. Len(t) \in Ends
      OBVIOUS
    <2>2. Ends \in SUBSET Nat
      OBVIOUS
    <2> HIDE DEF Ends
    <2> QED BY <2>1, <2>2, Least
  <1>5. m \in Nat /\ m <= Len(t) /\ m <= Len(u)
    <2>1. Len(t) \in Ends /\ Len(u) \in Ends
      OBVIOUS
    <2>2. m \in Nat
      BY <1>4
    <2> HIDE DEF Ends
    <2> QED BY <1>4, <2>1, <2>2
  <1>6. \A k \in 1 .. m : t[k] = u[k]
    <2>1. ASSUME NEW k \in 1 .. m PROVE t[k] = u[k]
      <3>1. PICK j \in Nat : k = j + 1 /\ j < m
        BY <1>5, Predecessor
      <3>2. j \notin Ends
        <4>1. ~(m <= j)
          BY <1>5, <3>1
        <4> HIDE DEF Ends
        <4> QED BY <1>4, <4>1
      <3>3. t[j + 1] = u[j + 1]
        BY <3>2
      <3> QED BY <3>1, <3>3
    <2> QED BY <2>1
  <1>7. m = Len(t) \/ m = Len(u) \/ t[m + 1] # u[m + 1]
    BY <1>4, <1>5
  <1> HIDE DEF Ends
  <1>8. CASE m < n
    <2>1. m < Len(u) /\ m < Len(s) /\ m + 1 \in 1 .. n /\ m + 1 \in 1 .. Len(u) /\ m # Len(u)
      BY <1>3, <1>5, <1>8
    <2>2. s[m + 1] = u[m + 1]
      <3>1. PICK k \in 1 .. n : k = m + 1
        BY <2>1
      <3> QED BY <1>3, <3>1
    <2>3. \A k \in 1 .. m : s[k] = t[k]
      <3>1. \A k \in 1 .. m : k \in 1 .. n
        BY <1>5, <1>8
      <3> QED BY <1>3, <1>6, <3>1
    <2>4. CASE m = Len(t) \/ t[m + 1] < u[m + 1]
      <3>1. Differ(m, t, u)
        BY <1>5, <1>6, <2>1, <2>4 DEF Differ
      <3> QED BY <1>5, <3>1
    <2>5. CASE m # Len(t) /\ ~(t[m + 1] < u[m + 1])
      <3>1. m < Len(t) /\ m + 1 \in 1 .. Len(t)
        BY <1>5, <2>5
      <3>2. s[m + 1] < t[m + 1]
        BY <1>2, <1>7, <2>1, <2>2, <2>5, <3>1
      <3>3. Differ(m, s, t)
        BY <1>5, <2>1, <2>3, <3>1, <3>2 DEF Differ
      <3> QED BY <1>5, <3>3
    <2> QED BY <2>4, <2>5
  <1>9. CASE n <= m
    <2>1. n <= Len(t) /\ n + 1 \in 1 .. Len(u)
      BY <1>3, <1>5, <1>9
    <2>2. \A k \in 1 .. n : t[k] = u[k] /\ s[k] = t[k]
      <3>1. \A k \in 1 .. n : k \in 1 .. m
        BY <1>5, <1>9
      <3> QED BY <1>3, <1>6, <3>1
    <2>3. CASE n = Len(t) \/ t[n + 1] < u[n + 1]
      BY <1>3, <2>1, <2>2, <2>3 DEF Differ
    <2>4. CASE n # Len(t) /\ ~(t[n + 1] < u[n + 1])
      <3>1. n < Len(t) /\ n + 1 \in 1 .. Len(t)
        BY <2>1, <2>4
      <3>2. n = Len(s) \/ s[n + 1] < t[n + 1]
        <4>1. CASE n = Len(s)
          BY <4>1
        <4>2. CASE n # Len(s)
          <5>1. n + 1 \in 1 .. Len(s) /\ s[n + 1] < u[n + 1]
            BY <1>3, <4>2
          <5> QED BY <1>2, <2>1, <2>4, <3>1, <5>1
        <4> QED BY <4>1, <4>2
      <3> QED BY <1>3, <2>2, <3>1, <3>2 DEF Differ
    <2> QED BY <2>3, <2>4
  <1> QED BY <1>5, <1>8, <1>9

-------------------------------------------------------------------------------
(* What is compared of a list, by places: R has the pairs of which the     *)
(* first precedes the second.                                              *)
WeakOrder(N, W) ==
  /\ \A i, j \in 1 .. N : <<i, j>> \in W => <<j, i>> \notin W
  /\ \A i, j, k \in 1 .. N : <<i, k>> \in W => <<i, j>> \in W \/ <<j, k>> \in W

Preceding(items, reverse) ==
  {p \in (1 .. Len(items)) \X (1 .. Len(items)) : Precedes(items[p[1]], items[p[2]], reverse)}

LEMMA LessIsWeak ==
  ASSUME NEW items, IsRow(items), Comparable(items)
  PROVE  /\ \A i, j \in DOMAIN items : LessThan(items[i], items[j]) => ~LessThan(items[j], items[i])
         /\ \A i, j, k \in DOMAIN items :
              LessThan(items[i], items[k]) =>
                LessThan(items[i], items[j]) \/ LessThan(items[j], items[k])
  <1>1. \A i \in DOMAIN items : /\ IsNumber(items[i]) => Of(items[i]) \in Int
                                /\ IsStr(items[i]) => Of(items[i]) \in Seq(Int)
    BY DEF IsRow, ToSet
  <1>2. \A i \in DOMAIN items : IsNumber(items[i]) => ToFloat(items[i]) \in Int
    BY <1>1 DEF ToFloat
  <1>3. \A i, j \in DOMAIN items : \/ IsStr(items[i]) /\ IsStr(items[j])
                                   \/ IsNumber(items[i]) /\ IsNumber(items[j])
    BY DEF Comparable, Ordered, IsNumber
  <1>4. \A i \in DOMAIN items : ~(IsStr(items[i]) /\ IsNumber(items[i]))
    BY DEF IsStr, IsNumber
  <1>5. ASSUME NEW i \in DOMAIN items, NEW j \in DOMAIN items,
               LessThan(items[i], items[j]), LessThan(items[j], items[i])
        PROVE  FALSE
    <2>1. CASE IsStr(items[i]) /\ IsStr(items[j])
      <3>1. Before(Of(items[i]), Of(items[j])) /\ Before(Of(items[j]), Of(items[i]))
        BY <1>4, <1>5, <2>1 DEF LessThan
      <3> QED BY <1>1, <2>1, <3>1, BeforeOneWay
    <2>2. CASE IsNumber(items[i]) /\ IsNumber(items[j])
      <3>1. ToFloat(items[i]) < ToFloat(items[j]) /\ ToFloat(items[j]) < ToFloat(items[i])
        BY <1>4, <1>5, <2>2 DEF LessThan
      <3> QED BY <1>2, <2>2, <3>1
    <2> QED BY <1>3, <2>1, <2>2
  <1>6. ASSUME NEW i \in DOMAIN items, NEW j \in DOMAIN items, NEW k \in DOMAIN items,
               LessThan(items[i], items[k])
        PROVE  LessThan(items[i], items[j]) \/ LessThan(items[j], items[k])
    <2>1. CASE IsStr(items[i])
      <3>1. IsStr(items[j]) /\ IsStr(items[k])
        BY <1>3, <1>4, <2>1
      <3>2. Before(Of(items[i]), Of(items[k]))
        BY <1>4, <1>6, <2>1 DEF LessThan
      <3>3. Before(Of(items[i]), Of(items[j])) \/ Before(Of(items[j]), Of(items[k]))
        BY <1>1, <2>1, <3>1, <3>2, BeforeApart
      <3> QED BY <2>1, <3>1, <3>3 DEF LessThan
    <2>2. CASE ~IsStr(items[i])
      <3>1. IsNumber(items[i]) /\ IsNumber(items[j]) /\ IsNumber(items[k])
        BY <1>3, <2>2
      <3>2. ToFloat(items[i]) < ToFloat(items[k])
        BY <1>4, <1>6, <3>1 DEF LessThan
      <3>3. ToFloat(items[i]) < ToFloat(items[j]) \/ ToFloat(items[j]) < ToFloat(items[k])
        BY <1>2, <3>1, <3>2
      <3> QED BY <3>1, <3>3 DEF LessThan
    <2> QED BY <2>1, <2>2
  <1> QED BY <1>5, <1>6

LEMMA PrecedingIsWeak ==
  ASSUME NEW items, IsRow(items), Comparable(items), NEW reverse
  PROVE  WeakOrder(Len(items), Preceding(items, reverse))
  <1>1. DOMAIN items = 1 .. Len(items)
    BY DEF IsRow
  <1>2. ASSUME NEW i \in 1 .. Len(items), NEW j \in 1 .. Len(items)
        PROVE  <<i, j>> \in Preceding(items, reverse) <=> Precedes(items[i], items[j], reverse)
    BY DEF Preceding
  <1>3. ASSUME NEW i \in 1 .. Len(items), NEW j \in 1 .. Len(items),
               <<i, j>> \in Preceding(items, reverse)
        PROVE  <<j, i>> \notin Preceding(items, reverse)
    <2>1. Precedes(items[i], items[j], reverse) => ~Precedes(items[j], items[i], reverse)
      BY <1>1, LessIsWeak DEF Precedes
    <2> QED BY <1>2, <1>3, <2>1
  <1>4. ASSUME NEW i \in 1 .. Len(items), NEW j \in 1 .. Len(items), NEW k \in 1 .. Len(items),
               <<i, k>> \in Preceding(items, reverse)
        PROVE  <<i, j>> \in Preceding(items, reverse) \/ <<j, k>> \in Preceding(items, reverse)
    <2>1. Precedes(items[i], items[k], reverse) =>
            Precedes(items[i], items[j], reverse) \/ Precedes(items[j], items[k], reverse)
      BY <1>1, LessIsWeak DEF Precedes
    <2> QED BY <1>2, <1>4, <2>1
  <1> QED BY <1>3, <1>4 DEF WeakOrder

-------------------------------------------------------------------------------
(* A value put into a sequence behind its first p elements.                *)
Put(R, p, v) ==
  [k \in 1 .. Len(R) + 1 |-> IF k <= p THEN R[k] ELSE IF k = p + 1 THEN v ELSE R[k - 1]]

LEMMA GreatestIs ==
  ASSUME NEW n \in Nat, NEW S \in SUBSET (0 .. n), 0 \in S
  PROVE  Max(S) \in S /\ \A k \in S : k <= Max(S)
  <1> DEFINE U == {m \in Nat : \A k \in S : k <= m}
  <1>1. n \in U /\ U \in SUBSET Nat
    OBVIOUS
  <1>2. PICK m \in U : \A k \in U : m <= k
    <2> HIDE DEF U
    <2> QED BY <1>1, Least
  <1>3. m \in Nat /\ \A k \in S : k <= m
    OBVIOUS
  <1>4. m \in S
    <2>1. CASE m = 0
      BY <2>1
    <2>2. CASE m # 0
      <3>1. PICK j \in Nat : m = j + 1
        <4>1. m - 1 \in Nat /\ m = (m - 1) + 1
          BY <1>3, <2>2
        <4> QED BY <4>1
      <3>2. j \notin U
        <4>1. ~(m <= j)
          BY <3>1
        <4> HIDE DEF U
        <4> QED BY <1>2, <4>1
      <3>3. PICK k \in S : ~(k <= j)
        BY <3>2
      <3>4. k \in 0 .. n /\ k <= m
        BY <1>3
      <3> HIDE DEF U
      <3>5. k = m
        BY <1>3, <3>1, <3>3, <3>4
      <3> QED BY <3>3, <3>5
    <2> QED BY <2>1, <2>2
  <1> HIDE DEF U
  <1>5. \E x \in S : \A y \in S : x >= y
    <2>1. \A y \in S : y \in Nat /\ m >= y
      BY <1>3
    <2> QED BY <1>4, <2>1
  <1>6. Max(S) \in S /\ \A y \in S : Max(S) >= y
    BY <1>5 DEF Max
  <1>7. \A y \in S : Max(S) >= y => y <= Max(S)
    BY <1>6
  <1> QED BY <1>6, <1>7

LEMMA InsertIsPut ==
  ASSUME NEW V, NEW R \in Seq(V), NEW v \in V, NEW p \in 0 .. Len(R)
  PROVE  InsertAt(R, p + 1, v) = Put(R, p, v) /\ Put(R, p, v) \in Seq(V)
  <1>1. PICK n \in Nat : n = Len(R)
    OBVIOUS
  <1>2. p \in Nat /\ p <= n /\ (p + 1) - 1 = p
    BY <1>1
  <1> DEFINE a == SubSeq(R, 1, p)
             b == SubSeq(R, p + 1, n)
  <1>3. \A i \in 1 .. n : R[i] \in V
    BY <1>1
  <1>4. a \in Seq(V) /\ Len(a) = p /\ \A i \in 1 .. p : a[i] = R[i]
    BY <1>1, <1>2
  <1>5. b \in Seq(V) /\ Len(b) = n - p /\ \A i \in 1 .. n - p : b[i] = R[p + i]
    <2>1. \A i \in p + 1 .. n : R[i] \in V
      BY <1>2, <1>3
    <2>2. /\ b \in Seq(V)
          /\ Len(b) = IF p + 1 <= n THEN n - (p + 1) + 1 ELSE 0
          /\ \A i \in 1 .. n - (p + 1) + 1 : b[i] = R[(p + 1) + i - 1]
      BY <1>2, <2>1, SubSeqProperties
    <2>3. ASSUME NEW i \in 1 .. n - p PROVE b[i] = R[p + i]
      <3>1. i \in 1 .. n - (p + 1) + 1 /\ (p + 1) + i - 1 = p + i
        BY <1>2
      <3> HIDE DEF b
      <3> QED BY <2>2, <3>1
    <2>4. (IF p + 1 <= n THEN n - (p + 1) + 1 ELSE 0) = n - p
      BY <1>2
    <2> QED BY <2>2, <2>3, <2>4
  <1> HIDE DEF a, b
  <1>6. <<v>> \in Seq(V) /\ Len(<<v>>) = 1 /\ <<v>>[1] = v
    OBVIOUS
  <1> DEFINE c == a \o <<v>>
  <1>7. c \in Seq(V) /\ Len(c) = p + 1 /\ \A i \in 1 .. p + 1 : c[i] = IF i <= p THEN R[i] ELSE v
    <2>1. /\ c \in Seq(V) /\ Len(c) = Len(a) + Len(<<v>>)
          /\ \A i \in 1 .. Len(a) + Len(<<v>>) : c[i] = IF i <= Len(a) THEN a[i] ELSE <<v>>[i - Len(a)]
      BY <1>4, <1>6, ConcatProperties
    <2>2. ASSUME NEW i \in 1 .. p + 1 PROVE c[i] = IF i <= p THEN R[i] ELSE v
      <3>1. c[i] = IF i <= p THEN a[i] ELSE <<v>>[i - p]
        BY <1>4, <1>6, <2>1
      <3>2. i <= p => i \in 1 .. p
        BY <1>2
      <3>3. ~(i <= p) => i - p = 1
        BY <1>2
      <3> HIDE DEF c
      <3> QED BY <1>4, <1>6, <3>1, <3>2, <3>3
    <2> QED BY <1>4, <1>6, <2>1, <2>2
  <1> HIDE DEF c
  <1> DEFINE d == c \o b
  <1>8. d \in Seq(V) /\ Len(d) = n + 1
    <2>1. d \in Seq(V) /\ Len(d) = Len(c) + Len(b)
      BY <1>5, <1>7, ConcatProperties
    <2> QED BY <1>2, <1>5, <1>7, <2>1
  <1>9. ASSUME NEW k \in 1 .. n + 1
        PROVE  d[k] = IF k <= p THEN R[k] ELSE IF k = p + 1 THEN v ELSE R[k - 1]
    <2>1. k \in 1 .. Len(c) + Len(b)
      BY <1>2, <1>5, <1>7
    <2>2. d[k] = IF k <= Len(c) THEN c[k] ELSE b[k - Len(c)]
      BY <1>5, <1>7, <2>1, ConcatProperties
    <2> HIDE DEF d
    <2>3. CASE k <= p + 1
      <3>1. k \in 1 .. p + 1 /\ (~(k <= p) => k = p + 1)
        BY <1>2, <2>3
      <3> QED BY <1>7, <2>2, <2>3, <3>1
    <2>4. CASE ~(k <= p + 1)
      <3>1. k - (p + 1) \in 1 .. n - p /\ p + (k - (p + 1)) = k - 1 /\ ~(k <= p) /\ k # p + 1
        BY <1>2, <2>4
      <3>2. d[k] = b[k - (p + 1)]
        BY <1>7, <2>2, <2>4
      <3> QED BY <1>5, <3>1, <3>2
    <2> QED BY <2>3, <2>4
  <1>10. InsertAt(R, p + 1, v) = d
    BY <1>1, <1>2 DEF InsertAt, a, b, c
  <1>11. Put(R, p, v) = d
    <2>1. d = [k \in 1 .. n + 1 |-> d[k]]
      <3> HIDE DEF d
      <3> QED BY <1>8
    <2> HIDE DEF d
    <2>2. Put(R, p, v) = [k \in 1 .. n + 1 |-> IF k <= p THEN R[k] ELSE IF k = p + 1 THEN v ELSE R[k - 1]]
      BY <1>1 DEF Put
    <2> QED BY <1>9, <2>1, <2>2
  <1> HIDE DEF d
  <1> QED BY <1>8, <1>10, <1>11

LEMMA InsertedAt ==
  ASSUME NEW V, NEW R \in Seq(V), NEW v \in V, NEW reverse
  PROVE  \E p \in 0 .. Len(R) :
           /\ InsertIn(R, v, reverse) = Put(R, p, v)
           /\ p # 0 => ~Precedes(v, R[p], reverse)
           /\ \A k \in 1 .. Len(R) : k > p => Precedes(v, R[k], reverse)
  <1>1. PICK n \in Nat : n = Len(R)
    OBVIOUS
  <1> DEFINE S == Behind(R, v, reverse) \cup {0}
  <1>2. S \in SUBSET (0 .. n) /\ 0 \in S
    BY <1>1 DEF Behind
  <1>3. PICK p \in S : p = Max(S) /\ \A k \in S : k <= p
    <2> HIDE DEF S
    <2> QED BY <1>2, GreatestIs
  <1>4. p \in 0 .. Len(R)
    BY <1>1, <1>2
  <1>5. InsertIn(R, v, reverse) = Put(R, p, v)
    BY <1>3, <1>4, InsertIsPut DEF InsertIn
  <1>6. p # 0 => ~Precedes(v, R[p], reverse)
    BY DEF Behind
  <1>7. ASSUME NEW k \in 1 .. Len(R), k > p PROVE Precedes(v, R[k], reverse)
    <2>1. k \notin S
      <3>1. ~(k <= p)
        BY <1>1, <1>4, <1>7
      <3> HIDE DEF S
      <3> QED BY <1>3, <3>1
    <2> QED BY <2>1 DEF Behind
  <1> QED BY <1>4, <1>5, <1>6, <1>7

-------------------------------------------------------------------------------
(* The places that sorting the first n elements has brought together.      *)
Onto(o, n) == o \in [1 .. n -> 1 .. n] /\ \A m \in 1 .. n : \E i \in 1 .. n : o[i] = m

InOrder(o, n, W) ==
  \A i, j \in 1 .. n : i < j => /\ <<o[j], o[i]>> \notin W
                                /\ o[i] < o[j] \/ <<o[i], o[j]>> \in W

(* One more place, put behind those that it does not precede.              *)
More(o, n, p) ==
  [k \in 1 .. n + 1 |-> IF k <= p THEN o[k] ELSE IF k = p + 1 THEN n + 1 ELSE o[k - 1]]

LEMMA MoreIsOnto ==
  ASSUME NEW n \in Nat, NEW o, Onto(o, n), NEW p \in 0 .. n
  PROVE  Onto(More(o, n, p), n + 1)
  <1>1. \A i \in 1 .. n : o[i] \in 1 .. n
    BY DEF Onto
  <1>2. ASSUME NEW k \in 1 .. n + 1 PROVE More(o, n, p)[k] \in 1 .. n + 1
    <2>1. CASE k <= p
      <3>1. k \in 1 .. n
        BY <2>1
      <3> QED BY <1>1, <2>1, <3>1 DEF More
    <2>2. CASE k = p + 1
      BY <2>2 DEF More
    <2>3. CASE k > p + 1
      <3>1. k - 1 \in 1 .. n
        BY <2>3
      <3> QED BY <1>1, <2>3, <3>1 DEF More
    <2> QED BY <2>1, <2>2, <2>3
  <1>3. More(o, n, p) \in [1 .. n + 1 -> 1 .. n + 1]
    BY <1>2 DEF More
  <1>4. ASSUME NEW m \in 1 .. n + 1 PROVE \E k \in 1 .. n + 1 : More(o, n, p)[k] = m
    <2>1. CASE m = n + 1
      <3>1. p + 1 \in 1 .. n + 1 /\ More(o, n, p)[p + 1] = m
        BY <2>1 DEF More
      <3> QED BY <3>1
    <2>2. CASE m # n + 1
      <3>1. m \in 1 .. n
        BY <2>2
      <3>2. PICK i \in 1 .. n : o[i] = m
        BY <3>1 DEF Onto
      <3>3. CASE i <= p
        <4>1. i \in 1 .. n + 1 /\ More(o, n, p)[i] = m
          BY <3>2, <3>3 DEF More
        <4> QED BY <4>1
      <3>4. CASE i > p
        <4>1. i + 1 \in 1 .. n + 1 /\ ~(i + 1 <= p) /\ i + 1 # p + 1 /\ (i + 1) - 1 = i
          BY <3>4
        <4>2. More(o, n, p)[i + 1] = m
          BY <3>2, <4>1 DEF More
        <4> QED BY <4>1, <4>2
      <3> QED BY <3>3, <3>4
    <2> QED BY <2>1, <2>2
  <1> QED BY <1>3, <1>4 DEF Onto

LEMMA MoreIsInOrder ==
  ASSUME NEW N \in Nat, NEW W, WeakOrder(N, W), NEW n \in Nat, n + 1 <= N,
         NEW o, Onto(o, n), InOrder(o, n, W), NEW p \in 0 .. n,
         p # 0 => <<n + 1, o[p]>> \notin W,
         \A k \in 1 .. n : k > p => <<n + 1, o[k]>> \in W
  PROVE  InOrder(More(o, n, p), n + 1, W)
  <1>1. ASSUME NEW i \in 1 .. n PROVE o[i] \in 1 .. N /\ o[i] < n + 1
    <2>1. PICK m \in 1 .. n : m = o[i]
      BY DEF Onto
    <2>2. m \in 1 .. N /\ m < n + 1
      OBVIOUS
    <2> QED BY <2>1, <2>2
  <1>2. n + 1 \in 1 .. N
    OBVIOUS
  <1>3. ASSUME NEW i \in 1 .. n, i <= p PROVE <<n + 1, o[i]>> \notin W
    <2>1. p # 0 /\ p \in 1 .. n
      BY <1>3
    <2>2. <<n + 1, o[p]>> \notin W
      BY <2>1
    <2>3. CASE i = p
      BY <2>2, <2>3
    <2>4. CASE i # p
      <3>1. i < p
        BY <1>3, <2>4
      <3>2. <<o[p], o[i]>> \notin W
        BY <2>1, <3>1 DEF InOrder
      <3>3. o[p] \in 1 .. N /\ o[i] \in 1 .. N
        BY <1>1, <2>1
      <3> QED BY <1>2, <2>2, <3>2, <3>3 DEF WeakOrder
    <2> QED BY <2>3, <2>4
  <1>4. ASSUME NEW i \in 1 .. n, i > p PROVE <<n + 1, o[i]>> \in W /\ <<o[i], n + 1>> \notin W
    <2>1. <<n + 1, o[i]>> \in W
      BY <1>4
    <2> QED BY <1>1, <1>2, <2>1 DEF WeakOrder
  <1> DEFINE m == More(o, n, p)
  <1>5. /\ \A k \in 1 .. n + 1 : k <= p => m[k] = o[k]
        /\ m[p + 1] = n + 1
        /\ \A k \in 1 .. n + 1 : k > p + 1 => m[k] = o[k - 1]
    BY DEF More
  <1> HIDE DEF m
  <1> SUFFICES ASSUME NEW i \in 1 .. n + 1, NEW j \in 1 .. n + 1, i < j
               PROVE  <<m[j], m[i]>> \notin W /\ (m[i] < m[j] \/ <<m[i], m[j]>> \in W)
    BY DEF InOrder, m
  <1>6. CASE j <= p
    <2>1. i \in 1 .. n /\ j \in 1 .. n /\ i <= p
      BY <1>6
    <2>2. m[i] = o[i] /\ m[j] = o[j]
      BY <1>5, <1>6, <2>1
    <2> QED BY <2>1, <2>2 DEF InOrder
  <1>7. CASE j = p + 1
    <2>1. i \in 1 .. n /\ i <= p
      BY <1>7
    <2>2. m[i] = o[i] /\ m[j] = n + 1
      BY <1>5, <1>7, <2>1
    <2>3. <<n + 1, o[i]>> \notin W /\ o[i] < n + 1
      BY <1>1, <1>3, <2>1
    <2> QED BY <2>2, <2>3
  <1>8. CASE j > p + 1
    <2>1. PICK k \in 1 .. n : k = j - 1 /\ k > p
      BY <1>8
    <2>2. m[j] = o[k]
      BY <1>5, <1>8, <2>1
    <2>3. CASE i <= p
      <3>1. i \in 1 .. n /\ i < k /\ m[i] = o[i]
        BY <1>5, <2>1, <2>3
      <3> QED BY <2>2, <3>1 DEF InOrder
    <2>4. CASE i = p + 1
      <3>1. m[i] = n + 1
        BY <1>5, <2>4
      <3> QED BY <1>4, <2>1, <2>2, <3>1
    <2>5. CASE i > p + 1
      <3>1. PICK l \in 1 .. n : l = i - 1 /\ l < k
        BY <2>1, <2>5
      <3>2. m[i] = o[l]
        BY <1>5, <2>5, <3>1
      <3> QED BY <2>2, <3>1, <3>2 DEF InOrder
    <2> QED BY <2>3, <2>4, <2>5
  <1> QED BY <1>6, <1>7, <1>8

-------------------------------------------------------------------------------
(* What is defined from one number to the next has the values it says.     *)
Steps(g, N, x, F) == g[0] = x /\ \A n \in 1 .. N : g[n] = F[<<n, g[n - 1]>>]

LEMMA StepsExist ==
  ASSUME NEW S, NEW x \in S, NEW N \in Nat, NEW F \in [(1 .. N) \X S -> S]
  PROVE  \E g \in [0 .. N -> S] : Steps(g, N, x, F)
  <1> DEFINE T == {n \in Nat : n <= N => \E g \in [0 .. n -> S] : Steps(g, n, x, F)}
  <1>1. 0 \in T
    <2>1. [k \in 0 .. 0 |-> x] \in [0 .. 0 -> S] /\ Steps([k \in 0 .. 0 |-> x], 0, x, F)
      BY DEF Steps
    <2> QED BY <2>1
  <1>2. ASSUME NEW n \in Nat, n \in T PROVE n + 1 \in T
    <2> SUFFICES ASSUME n + 1 <= N PROVE \E g \in [0 .. n + 1 -> S] : Steps(g, n + 1, x, F)
      OBVIOUS
    <2>1. n <= N
      OBVIOUS
    <2>2. PICK h \in [0 .. n -> S] : Steps(h, n, x, F)
      BY <1>2, <2>1
    <2> DEFINE g == [k \in 0 .. n + 1 |-> IF k = n + 1 THEN F[<<n + 1, h[n]>>] ELSE h[k]]
    <2>3. n + 1 \in 1 .. N /\ h[n] \in S
      OBVIOUS
    <2>4. F[<<n + 1, h[n]>>] \in S
      BY <2>3
    <2>5. \A k \in 0 .. n : h[k] \in S /\ k \in 0 .. n + 1 /\ k # n + 1
      OBVIOUS
    <2>6. g \in [0 .. n + 1 -> S]
      <3>1. \A k \in 0 .. n + 1 : k # n + 1 => k \in 0 .. n
        OBVIOUS
      <3> QED BY <2>4, <2>5, <3>1
    <2>7. g[0] = x
      <3>1. 0 \in 0 .. n /\ h[0] = x
        BY <2>2 DEF Steps
      <3> QED BY <2>5, <3>1
    <2>8. ASSUME NEW k \in 1 .. n + 1 PROVE g[k] = F[<<k, g[k - 1]>>]
      <3>1. k - 1 \in 0 .. n
        OBVIOUS
      <3>2. g[k - 1] = h[k - 1]
        BY <2>5, <3>1
      <3>3. CASE k = n + 1
        <4>1. g[k] = F[<<n + 1, h[n]>>] /\ k - 1 = n
          BY <3>3
        <4> HIDE DEF g
        <4> QED BY <3>2, <3>3, <4>1
      <3>4. CASE k # n + 1
        <4>1. g[k] = h[k] /\ k \in 1 .. n
          BY <3>4
        <4> HIDE DEF g
        <4> QED BY <2>2, <3>2, <4>1 DEF Steps
      <3> QED BY <3>3, <3>4
    <2> HIDE DEF g
    <2> QED BY <2>6, <2>7, <2>8 DEF Steps
  <1>3. N \in T
    <2> HIDE DEF T
    <2> QED BY <1>1, <1>2, Induct
  <1> QED BY <1>3

(* sorted, as it goes on.                                                  *)
Growing(g, items, reverse) ==
  /\ g \in [0 .. Len(items) -> Seq(ToSet(items))]
  /\ g[0] = <<>>
  /\ \A n \in 1 .. Len(items) : g[n] = InsertIn(g[n - 1], items[n], reverse)

LEMMA InsertTypes ==
  ASSUME NEW V, NEW R \in Seq(V), NEW v \in V, NEW reverse
  PROVE  InsertIn(R, v, reverse) \in Seq(V)
  <1>1. PICK p \in 0 .. Len(R) : InsertIn(R, v, reverse) = Put(R, p, v)
    BY InsertedAt
  <1> QED BY <1>1, InsertIsPut

LEMMA SortedBySteps ==
  ASSUME NEW items, IsRow(items), NEW reverse
  PROVE  \E g : Growing(g, items, reverse) /\ builtinSorted(items, reverse) = g[Len(items)]
  <1>1. PICK V : V = ToSet(items)
    OBVIOUS
  <1>2. PICK N \in Nat : N = Len(items)
    BY DEF IsRow
  <1>3. \A n \in 1 .. N : items[n] \in V
    BY <1>1, <1>2 DEF IsRow
  <1> DEFINE F == [p \in (1 .. N) \X Seq(V) |-> InsertIn(p[2], items[p[1]], reverse)]
             next(n, y) == InsertIn(y, items[n], reverse)
             Is(u) == u = [n \in 0 .. N |-> IF n = 0 THEN <<>> ELSE next(n, u[n - 1])]
             u == CHOOSE w : Is(w)
  <1>4. F \in [(1 .. N) \X Seq(V) -> Seq(V)]
    BY <1>3, InsertTypes
  <1>5. \A n \in 1 .. N, y \in Seq(V) : F[<<n, y>>] = next(n, y)
    OBVIOUS
  <1>6. builtinSorted(items, reverse) = u[N]
    BY <1>2 DEF builtinSorted
  <1> HIDE DEF F
  <1>7. PICK g \in [0 .. N -> Seq(V)] : Steps(g, N, <<>>, F)
    <2>1. <<>> \in Seq(V)
      OBVIOUS
    <2> QED BY <1>4, <2>1, StepsExist
  <1>8. g[0] = <<>> /\ \A n \in 1 .. N : g[n] = next(n, g[n - 1])
    <2>1. ASSUME NEW n \in 1 .. N PROVE g[n] = next(n, g[n - 1])
      <3>1. g[n - 1] \in Seq(V)
        <4>1. n - 1 \in 0 .. N
          OBVIOUS
        <4> QED BY <4>1
      <3> HIDE DEF next
      <3> QED BY <1>5, <1>7, <3>1 DEF Steps
    <2> QED BY <1>7, <2>1 DEF Steps
  <1> HIDE DEF next
  <1>9. Is(g)
    <2>1. ASSUME NEW n \in 0 .. N PROVE g[n] = IF n = 0 THEN <<>> ELSE next(n, g[n - 1])
      <3>1. n # 0 => n \in 1 .. N
        OBVIOUS
      <3> QED BY <1>8, <3>1
    <2>2. g = [n \in 0 .. N |-> g[n]]
      OBVIOUS
    <2> QED BY <2>1, <2>2
  <1>10. Is(u)
    <2> HIDE DEF Is
    <2> QED BY <1>9
  <1> HIDE DEF u
  <1> DEFINE T == {n \in Nat : n <= N => u[n] = g[n]}
  <1>11. 0 \in T
    BY <1>8, <1>10
  <1>12. ASSUME NEW n \in Nat, n \in T PROVE n + 1 \in T
    <2> SUFFICES ASSUME n + 1 <= N PROVE u[n + 1] = g[n + 1]
      OBVIOUS
    <2>1. n + 1 \in 0 .. N /\ n + 1 \in 1 .. N /\ n + 1 # 0 /\ (n + 1) - 1 = n /\ n <= N
      OBVIOUS
    <2>2. u[n + 1] = next(n + 1, u[n])
      BY <1>10, <2>1
    <2>3. g[n + 1] = next(n + 1, g[n])
      BY <1>8, <2>1
    <2> QED BY <1>12, <2>1, <2>2, <2>3
  <1>13. N \in T
    <2> HIDE DEF T, Is
    <2> QED BY <1>11, <1>12, Induct
  <1>14. u[N] = g[N]
    BY <1>13
  <1>15. Growing(g, items, reverse)
    BY <1>1, <1>2, <1>8 DEF Growing, next
  <1> QED BY <1>2, <1>6, <1>14, <1>15

(* The first n elements, sorted: o has the places that they come from.     *)
Arranged(o, n, R, items, reverse) ==
  /\ Onto(o, n)
  /\ R = [i \in 1 .. n |-> items[o[i]]]
  /\ Comparable(items) => InOrder(o, n, Preceding(items, reverse))

LEMMA SortStep ==
  ASSUME NEW items, IsRow(items), NEW reverse, NEW n \in Nat, n + 1 <= Len(items),
         NEW o, NEW R, Arranged(o, n, R, items, reverse)
  PROVE  \E m : Arranged(m, n + 1, InsertIn(R, items[n + 1], reverse), items, reverse)
  <1>1. PICK V : V = ToSet(items)
    OBVIOUS
  <1>2. PICK N \in Nat : N = Len(items)
    BY DEF IsRow
  <1>3. \A i \in 1 .. N : items[i] \in V
    BY <1>1, <1>2 DEF IsRow
  <1>4. Onto(o, n) /\ R = [i \in 1 .. n |-> items[o[i]]]
    BY DEF Arranged
  <1>5. ASSUME NEW i \in 1 .. n PROVE o[i] \in 1 .. N /\ R[i] = items[o[i]]
    <2>1. PICK k \in 1 .. n : k = o[i]
      BY <1>4 DEF Onto
    <2>2. k \in 1 .. N
      BY <1>2
    <2> QED BY <1>4, <2>1, <2>2
  <1>6. R \in Seq(V) /\ Len(R) = n
    <2>1. \A i \in 1 .. n : items[o[i]] \in V
      BY <1>3, <1>5
    <2>2. [i \in 1 .. n |-> items[o[i]]] \in Seq(V) /\ Len([i \in 1 .. n |-> items[o[i]]]) = n
      BY <2>1
    <2> QED BY <1>4, <2>2
  <1>7. n + 1 \in 1 .. N
    BY <1>2
  <1>8. PICK v \in V : v = items[n + 1]
    BY <1>3, <1>7
  <1>9. PICK p \in 0 .. n :
          /\ InsertIn(R, v, reverse) = Put(R, p, v)
          /\ p # 0 => ~Precedes(v, R[p], reverse)
          /\ \A k \in 1 .. n : k > p => Precedes(v, R[k], reverse)
    BY <1>6, InsertedAt
  <1>10. PICK m : m = More(o, n, p)
    OBVIOUS
  <1>11. Onto(m, n + 1)
    BY <1>4, <1>10, MoreIsOnto
  <1>12. Put(R, p, v) = [k \in 1 .. n + 1 |-> items[m[k]]]
    <2>1. ASSUME NEW k \in 1 .. n + 1
          PROVE  (IF k <= p THEN R[k] ELSE IF k = p + 1 THEN v ELSE R[k - 1]) = items[m[k]]
      <3>1. CASE k <= p
        <4>1. k \in 1 .. n /\ m[k] = o[k]
          BY <1>10, <3>1 DEF More
        <4> QED BY <1>5, <3>1, <4>1
      <3>2. CASE k = p + 1
        <4>1. m[k] = n + 1 /\ ~(k <= p)
          BY <1>10, <3>2 DEF More
        <4> QED BY <1>8, <3>2, <4>1
      <3>3. CASE k > p + 1
        <4>1. k - 1 \in 1 .. n /\ m[k] = o[k - 1] /\ ~(k <= p) /\ k # p + 1
          BY <1>10, <3>3 DEF More
        <4> QED BY <1>5, <4>1
      <3> QED BY <3>1, <3>2, <3>3
    <2> QED BY <1>6, <2>1 DEF Put
  <1>13. Comparable(items) => InOrder(m, n + 1, Preceding(items, reverse))
    <2> SUFFICES ASSUME Comparable(items) PROVE InOrder(m, n + 1, Preceding(items, reverse))
      OBVIOUS
    <2>1. PICK W : W = Preceding(items, reverse)
      OBVIOUS
    <2>2. WeakOrder(N, W)
      BY <1>2, <2>1, PrecedingIsWeak
    <2>3. InOrder(o, n, W)
      BY <2>1 DEF Arranged
    <2>4. ASSUME NEW k \in 1 .. n
          PROVE  <<n + 1, o[k]>> \in W <=> Precedes(v, R[k], reverse)
      BY <1>2, <1>5, <1>7, <1>8, <2>1 DEF Preceding
    <2>5. p # 0 => <<n + 1, o[p]>> \notin W
      <3>1. p # 0 => p \in 1 .. n
        OBVIOUS
      <3> QED BY <1>9, <2>4, <3>1
    <2>6. \A k \in 1 .. n : k > p => <<n + 1, o[k]>> \in W
      BY <1>9, <2>4
    <2>7. n + 1 <= N
      BY <1>7
    <2> QED BY <1>4, <1>10, <2>1, <2>2, <2>3, <2>5, <2>6, <2>7, MoreIsInOrder
  <1> QED BY <1>8, <1>9, <1>11, <1>12, <1>13 DEF Arranged

LEMMA SortMeans ==
  ASSUME NEW items, IsRow(items), NEW reverse
  PROVE  Sorts(items, builtinSorted(items, reverse), reverse)
  <1>1. PICK N \in Nat : N = Len(items)
    BY DEF IsRow
  <1>2. PICK g : Growing(g, items, reverse) /\ builtinSorted(items, reverse) = g[N]
    BY <1>1, SortedBySteps
  <1> DEFINE T == {n \in Nat : n <= N => \E o : Arranged(o, n, g[n], items, reverse)}
  <1>3. 0 \in T
    <2>1. g[0] = <<>>
      BY <1>2 DEF Growing
    <2>2. PICK o : o = [i \in 1 .. 0 |-> 0]
      OBVIOUS
    <2>3. Onto(o, 0) /\ InOrder(o, 0, Preceding(items, reverse))
      BY <2>2 DEF Onto, InOrder
    <2>4. g[0] = [i \in 1 .. 0 |-> items[o[i]]]
      BY <2>1
    <2>5. Arranged(o, 0, g[0], items, reverse)
      BY <2>3, <2>4 DEF Arranged
    <2> QED BY <2>5
  <1>4. ASSUME NEW n \in Nat, n \in T PROVE n + 1 \in T
    <2> SUFFICES ASSUME n + 1 <= N PROVE \E o : Arranged(o, n + 1, g[n + 1], items, reverse)
      OBVIOUS
    <2>1. n <= N /\ n + 1 \in 1 .. N /\ (n + 1) - 1 = n
      OBVIOUS
    <2>2. PICK o : Arranged(o, n, g[n], items, reverse)
      BY <1>4, <2>1
    <2>3. g[n + 1] = InsertIn(g[n], items[n + 1], reverse)
      BY <1>1, <1>2, <2>1 DEF Growing
    <2> QED BY <1>1, <2>2, <2>3, SortStep
  <1>5. N \in T
    <2> HIDE DEF T
    <2> QED BY <1>3, <1>4, Induct
  <1>6. PICK order : Arranged(order, N, g[N], items, reverse)
    BY <1>5
  <1>7. DOMAIN items = 1 .. N
    BY <1>1 DEF IsRow
  <1>8. order \in Surjection(DOMAIN items, DOMAIN items)
    BY <1>6, <1>7 DEF Arranged, Onto, Surjection
  <1>9. PICK result : result = builtinSorted(items, reverse)
    OBVIOUS
  <1>10. result = [i \in DOMAIN items |-> items[order[i]]]
    BY <1>2, <1>6, <1>7, <1>9 DEF Arranged
  <1>11. ASSUME Comparable(items), NEW i \in DOMAIN items, NEW j \in DOMAIN items, i < j
         PROVE  /\ ~Precedes(result[j], result[i], reverse)
                /\ order[i] < order[j] \/ Precedes(result[i], result[j], reverse)
    <2>1. PICK W : W = Preceding(items, reverse)
      OBVIOUS
    <2>2. <<order[j], order[i]>> \notin W /\ (order[i] < order[j] \/ <<order[i], order[j]>> \in W)
      BY <1>6, <1>7, <1>11, <2>1 DEF Arranged, InOrder
    <2>3. order[i] \in 1 .. N /\ order[j] \in 1 .. N
      BY <1>6, <1>7 DEF Arranged, Onto
    <2>4. /\ <<order[j], order[i]>> \in W <=> Precedes(result[j], result[i], reverse)
          /\ <<order[i], order[j]>> \in W <=> Precedes(result[i], result[j], reverse)
      BY <1>1, <1>10, <2>1, <2>3 DEF Preceding
    <2> QED BY <2>2, <2>4
  <1> QED BY <1>8, <1>9, <1>10, <1>11 DEF Sorts

(* min and max, as they go on.                                             *)
Keeping(g, items, reverse) ==
  /\ g \in [0 .. Len(items) -> ToSet(items)]
  /\ g[1] = items[1]
  /\ \A n \in 2 .. Len(items) :
       g[n] = IF Precedes(items[n], g[n - 1], reverse) THEN items[n] ELSE g[n - 1]

LEMMA KeptBySteps ==
  ASSUME NEW items, IsRow(items), NEW reverse
  PROVE  \E g : Keeping(g, items, reverse) /\ Extreme(items, reverse) = g[Len(items)]
  <1>1. PICK V : V = ToSet(items)
    OBVIOUS
  <1>2. PICK N \in Nat \ {0} : N = Len(items)
    BY DEF IsRow
  <1>3. \A n \in 1 .. N : items[n] \in V
    BY <1>1, <1>2 DEF IsRow
  <1> DEFINE next(n, y) ==
               IF n = 1 THEN items[1] ELSE IF Precedes(items[n], y, reverse) THEN items[n] ELSE y
             F == [p \in (1 .. N) \X V |-> next(p[1], p[2])]
             Is(u) == u = [n \in 1 .. N |-> next(n, u[n - 1])]
             u == CHOOSE w : Is(w)
  <1>4. ASSUME NEW n \in 1 .. N, NEW y \in V PROVE next(n, y) \in V
    <2>1. 1 \in 1 .. N
      OBVIOUS
    <2> QED BY <1>3, <2>1
  <1>5. Extreme(items, reverse) = u[N]
    <2>1. u = CHOOSE w : w = [n \in 1 .. N |->
                IF n = 1 THEN items[1]
                ELSE IF Precedes(items[n], w[n - 1], reverse) THEN items[n] ELSE w[n - 1]]
      OBVIOUS
    <2> HIDE DEF u
    <2> QED BY <1>2, <2>1 DEF Extreme
  <1> HIDE DEF next
  <1>6. F \in [(1 .. N) \X V -> V] /\ \A n \in 1 .. N, y \in V : F[<<n, y>>] = next(n, y)
    BY <1>4
  <1> HIDE DEF F
  <1>7. PICK g \in [0 .. N -> V] : Steps(g, N, items[1], F)
    <2>1. items[1] \in V
      <3>1. 1 \in 1 .. N
        OBVIOUS
      <3> QED BY <1>3, <3>1
    <2> QED BY <1>6, <2>1, StepsExist
  <1>8. ASSUME NEW n \in 1 .. N PROVE g[n] = next(n, g[n - 1])
    <2>1. g[n - 1] \in V
      <3>1. n - 1 \in 0 .. N
        OBVIOUS
      <3> QED BY <3>1
    <2> QED BY <1>6, <1>7, <2>1 DEF Steps
  <1> DEFINE h == [n \in 1 .. N |-> g[n]]
  <1>9. next(1, h[0]) = next(1, g[0])
    BY DEF next
  <1>10. Is(h)
    <2>1. ASSUME NEW n \in 1 .. N PROVE h[n] = next(n, h[n - 1])
      <3>1. CASE n = 1
        <4>1. h[n] = next(1, g[0]) /\ n - 1 = 0
          BY <1>8, <3>1
        <4> HIDE DEF h
        <4> QED BY <1>9, <3>1, <4>1
      <3>2. CASE n # 1
        <4>1. n - 1 \in 1 .. N
          BY <3>2
        <4> QED BY <1>8, <4>1
      <3> QED BY <3>1, <3>2
    <2>2. h = [n \in 1 .. N |-> h[n]]
      OBVIOUS
    <2> HIDE DEF h
    <2> QED BY <2>1, <2>2
  <1>11. Is(u)
    <2> HIDE DEF Is
    <2> QED BY <1>10
  <1> HIDE DEF u
  <1> DEFINE T == {n \in Nat : n + 1 <= N => u[n + 1] = g[n + 1]}
  <1>12. 0 \in T
    <2>1. u[1] = next(1, u[0]) /\ g[1] = next(1, g[0])
      <3>1. 1 \in 1 .. N /\ 1 - 1 = 0
        OBVIOUS
      <3> QED BY <1>8, <1>11, <3>1
    <2>2. next(1, u[0]) = next(1, g[0])
      BY DEF next
    <2>3. 0 + 1 = 1
      OBVIOUS
    <2> QED BY <2>1, <2>2, <2>3
  <1>13. ASSUME NEW n \in Nat, n \in T PROVE n + 1 \in T
    <2> SUFFICES ASSUME (n + 1) + 1 <= N PROVE u[(n + 1) + 1] = g[(n + 1) + 1]
      OBVIOUS
    <2>1. (n + 1) + 1 \in 1 .. N /\ ((n + 1) + 1) - 1 = n + 1 /\ n + 1 <= N
      OBVIOUS
    <2>2. u[(n + 1) + 1] = next((n + 1) + 1, u[n + 1])
      BY <1>11, <2>1
    <2>3. g[(n + 1) + 1] = next((n + 1) + 1, g[n + 1])
      BY <1>8, <2>1
    <2> QED BY <1>13, <2>1, <2>2, <2>3
  <1>14. PICK k \in Nat : k + 1 = N
    <2>1. N - 1 \in Nat /\ (N - 1) + 1 = N
      OBVIOUS
    <2> QED BY <2>1
  <1>15. k \in T
    <2> HIDE DEF T, Is
    <2> QED BY <1>12, <1>13, Induct
  <1>16. u[N] = g[N]
    BY <1>14, <1>15
  <1>17. Keeping(g, items, reverse)
    <2>1. g[1] = items[1]
      <3>1. 1 \in 1 .. N
        OBVIOUS
      <3> QED BY <1>8, <3>1 DEF next
    <2>2. \A n \in 2 .. N : g[n] = IF Precedes(items[n], g[n - 1], reverse) THEN items[n] ELSE g[n - 1]
      <3>1. \A n \in 2 .. N : n \in 1 .. N /\ n # 1
        OBVIOUS
      <3> QED BY <1>8, <3>1 DEF next
    <2> QED BY <1>1, <1>2, <2>1, <2>2 DEF Keeping
  <1> QED BY <1>2, <1>5, <1>16, <1>17

(* k has the first of the first n elements that none of these precedes.    *)
Foremost(k, n, items, reverse) ==
  LET W == Preceding(items, reverse)
  IN  /\ k \in 1 .. n
      /\ \A j \in 1 .. n : <<j, k>> \notin W /\ (j < k => <<k, j>> \in W)

LEMMA KeepStep ==
  ASSUME NEW items, IsRow(items), Comparable(items), NEW reverse,
         NEW n \in Nat, n + 1 <= Len(items), NEW k, Foremost(k, n, items, reverse)
  PROVE  IF <<n + 1, k>> \in Preceding(items, reverse)
         THEN Foremost(n + 1, n + 1, items, reverse)
         ELSE Foremost(k, n + 1, items, reverse)
  <1>1. PICK N \in Nat : N = Len(items)
    BY DEF IsRow
  <1>2. PICK W : W = Preceding(items, reverse)
    OBVIOUS
  <1>3. /\ \A i, j \in 1 .. N : <<i, j>> \in W => <<j, i>> \notin W
        /\ \A i, j, l \in 1 .. N : <<i, l>> \in W => <<i, j>> \in W \/ <<j, l>> \in W
    BY <1>1, <1>2, PrecedingIsWeak DEF WeakOrder
  <1>4. k \in 1 .. n /\ \A j \in 1 .. n : <<j, k>> \notin W /\ (j < k => <<k, j>> \in W)
    BY <1>2 DEF Foremost
  <1>5. n + 1 \in 1 .. N /\ k \in 1 .. N /\ k \in 1 .. n + 1 /\ k < n + 1 /\ \A j \in 1 .. n : j \in 1 .. N
    BY <1>1, <1>4
  <1>6. ASSUME NEW j \in 1 .. n + 1 PROVE j \in 1 .. n \/ (j = n + 1 /\ ~(j < k) /\ ~(j < n + 1))
    BY <1>5
  <1>7. CASE <<n + 1, k>> \in W
    <2>1. ASSUME NEW j \in 1 .. n PROVE <<n + 1, j>> \in W /\ <<j, n + 1>> \notin W
      <3>1. <<n + 1, j>> \in W
        BY <1>3, <1>4, <1>5, <1>7
      <3> QED BY <1>3, <1>5, <3>1
    <2>2. <<n + 1, n + 1>> \notin W /\ n + 1 \in 1 .. n + 1
      BY <1>3, <1>5
    <2>3. Foremost(n + 1, n + 1, items, reverse)
      BY <1>2, <1>6, <2>1, <2>2 DEF Foremost
    <2> QED BY <1>2, <1>7, <2>3
  <1>8. CASE <<n + 1, k>> \notin W
    <2>1. Foremost(k, n + 1, items, reverse)
      BY <1>2, <1>4, <1>5, <1>6, <1>8 DEF Foremost
    <2> QED BY <1>2, <1>8, <2>1
  <1> QED BY <1>7, <1>8

LEMMA ExtremeMeans ==
  ASSUME NEW items, IsRow(items), Comparable(items), NEW reverse
  PROVE  IsFirst(items, Extreme(items, reverse), reverse)
  <1>1. PICK N \in Nat \ {0} : N = Len(items)
    BY DEF IsRow
  <1>2. PICK g : Keeping(g, items, reverse) /\ Extreme(items, reverse) = g[N]
    BY <1>1, KeptBySteps
  <1>3. PICK W : W = Preceding(items, reverse)
    OBVIOUS
  <1>4. ASSUME NEW i \in 1 .. N, NEW j \in 1 .. N
        PROVE  <<i, j>> \in W <=> Precedes(items[i], items[j], reverse)
    BY <1>1, <1>3 DEF Preceding
  <1> DEFINE T == {n \in Nat : n + 1 <= N =>
                     \E k : Foremost(k, n + 1, items, reverse) /\ g[n + 1] = items[k]}
  <1>5. 0 \in T
    <2>1. <<1, 1>> \notin W
      <3>1. WeakOrder(N, W) /\ 1 \in 1 .. N
        BY <1>1, <1>3, PrecedingIsWeak
      <3> QED BY <3>1 DEF WeakOrder
    <2>2. Foremost(1, 0 + 1, items, reverse)
      <3>1. 1 \in 1 .. 0 + 1 /\ \A j \in 1 .. 0 + 1 : j = 1 /\ ~(j < 1)
        OBVIOUS
      <3> QED BY <1>3, <2>1, <3>1 DEF Foremost
    <2>3. g[0 + 1] = items[1]
      BY <1>2 DEF Keeping
    <2> QED BY <2>2, <2>3
  <1>6. ASSUME NEW n \in Nat, n \in T PROVE n + 1 \in T
    <2>1. PICK m \in Nat : m = n + 1 /\ m # 0
      OBVIOUS
    <2> SUFFICES ASSUME m + 1 <= N
                 PROVE  \E k : Foremost(k, m + 1, items, reverse) /\ g[m + 1] = items[k]
      BY <2>1
    <2>2. m <= N /\ m + 1 \in 2 .. N /\ (m + 1) - 1 = m /\ m + 1 \in 1 .. N
      BY <2>1
    <2>3. PICK k : Foremost(k, m, items, reverse) /\ g[m] = items[k]
      BY <1>6, <2>1, <2>2
    <2>4. k \in 1 .. N
      BY <2>2, <2>3 DEF Foremost
    <2>5. g[m + 1] = IF Precedes(items[m + 1], items[k], reverse) THEN items[m + 1] ELSE items[k]
      BY <1>1, <1>2, <2>2, <2>3 DEF Keeping
    <2>6. IF <<m + 1, k>> \in W THEN Foremost(m + 1, m + 1, items, reverse)
                                ELSE Foremost(k, m + 1, items, reverse)
      BY <1>1, <1>3, <2>3, KeepStep
    <2> QED BY <1>4, <2>2, <2>4, <2>5, <2>6
  <1>7. PICK n \in Nat : n + 1 = N
    <2>1. N - 1 \in Nat /\ (N - 1) + 1 = N
      OBVIOUS
    <2> QED BY <2>1
  <1>8. n \in T
    <2> HIDE DEF T
    <2> QED BY <1>5, <1>6, Induct
  <1>9. PICK k : Foremost(k, N, items, reverse) /\ g[N] = items[k]
    BY <1>7, <1>8
  <1>10. DOMAIN items = 1 .. N
    BY <1>1 DEF IsRow
  <1>11. k \in 1 .. N /\ \A j \in 1 .. N : <<j, k>> \notin W /\ (j < k => <<k, j>> \in W)
    BY <1>3, <1>9 DEF Foremost
  <1>12. \A j \in 1 .. N : /\ ~Precedes(items[j], items[k], reverse)
                           /\ j < k => Precedes(items[k], items[j], reverse)
    BY <1>4, <1>11
  <1> QED BY <1>2, <1>9, <1>10, <1>11, <1>12 DEF IsFirst

-------------------------------------------------------------------------------
(* Instructions.  What one step takes from a set into it stays there.      *)
LEMMA Stays ==
  ASSUME NEW N \in Nat, NEW S, NEW u, u[0] \in S,
         \A n \in 1 .. N : u[n - 1] \in S => u[n] \in S
  PROVE  \A n \in 0 .. N : u[n] \in S
  <1> DEFINE T == {n \in Nat : n <= N => u[n] \in S}
  <1>1. 0 \in T
    OBVIOUS
  <1>2. ASSUME NEW n \in Nat, n \in T PROVE n + 1 \in T
    <2> SUFFICES ASSUME n + 1 <= N PROVE u[n + 1] \in S
      OBVIOUS
    <2>1. n <= N /\ n + 1 \in 1 .. N /\ (n + 1) - 1 = n
      OBVIOUS
    <2> QED BY <1>2, <2>1
  <1> HIDE DEF T
  <1>3. \A n \in Nat : n \in T
    BY <1>1, <1>2, Induct
  <1> QED BY <1>3 DEF T

LEMMA Offsets ==
  ASSUME NEW widths \in Seq(Nat)
  PROVE  /\ E!Offset(widths)[0] = 0
         /\ \A n \in 1 .. Len(widths) :
              E!Offset(widths)[n] = E!Offset(widths)[n - 1] + widths[n]
         /\ \A n \in 0 .. Len(widths) : E!Offset(widths)[n] \in Nat
  <1>1. PICK N \in Nat : N = Len(widths)
    OBVIOUS
  <1>2. \A n \in 1 .. N : widths[n] \in Nat
    BY <1>1
  <1> DEFINE F == [p \in (1 .. N) \X Nat |-> p[2] + widths[p[1]]]
             Is(w) == w = [n \in 0 .. N |-> IF n = 0 THEN 0 ELSE w[n - 1] + widths[n]]
             u == CHOOSE w : Is(w)
  <1>3. F \in [(1 .. N) \X Nat -> Nat] /\ \A n \in 1 .. N, y \in Nat : F[<<n, y>>] = y + widths[n]
    <2>1. \A n \in 1 .. N, y \in Nat : y + widths[n] \in Nat
      BY <1>2
    <2> QED BY <2>1
  <1>4. E!Offset(widths) = u
    BY <1>1 DEF E!Offset
  <1> HIDE DEF F
  <1>5. PICK g \in [0 .. N -> Nat] : Steps(g, N, 0, F)
    BY <1>3, StepsExist
  <1>6. Is(g)
    <2>1. ASSUME NEW n \in 0 .. N PROVE g[n] = IF n = 0 THEN 0 ELSE g[n - 1] + widths[n]
      <3>1. n # 0 => n \in 1 .. N /\ n - 1 \in 0 .. N
        OBVIOUS
      <3> QED BY <1>3, <1>5, <3>1 DEF Steps
    <2>2. g = [n \in 0 .. N |-> g[n]]
      OBVIOUS
    <2> QED BY <2>1, <2>2
  <1>7. Is(u)
    <2> HIDE DEF Is
    <2> QED BY <1>6
  <1> HIDE DEF u
  <1>8. u[0] = 0
    BY <1>7
  <1>9. ASSUME NEW n \in 1 .. N PROVE u[n] = u[n - 1] + widths[n]
    <2>1. n \in 0 .. N /\ n # 0
      OBVIOUS
    <2> QED BY <1>7, <2>1
  <1>10. \A n \in 0 .. N : u[n] \in Nat
    <2>1. ASSUME NEW n \in 1 .. N, u[n - 1] \in Nat PROVE u[n] \in Nat
      <3>1. PICK y \in Nat : y = widths[n]
        BY <1>2
      <3>2. PICK z \in Nat : z = u[n - 1]
        BY <2>1
      <3>3. u[n] = z + y
        BY <1>9, <3>1, <3>2
      <3> QED BY <3>3
    <2>2. PICK w : w = u
      OBVIOUS
    <2>3. w[0] \in Nat /\ \A n \in 1 .. N : w[n - 1] \in Nat => w[n] \in Nat
      BY <1>8, <2>1, <2>2
    <2>4. \A n \in 0 .. N : w[n] \in Nat
      BY <2>3, Stays
    <2> QED BY <2>2, <2>4
  <1> QED BY <1>1, <1>4, <1>8, <1>9, <1>10

LEMMA ShiftedIs ==
  ASSUME NEW o \in Nat, NEW width \in Nat, Base \in Nat \ {0, 1}
  PROVE  /\ E!Shifted(o, width)[0] = o
         /\ \A n \in 1 .. width : E!Shifted(o, width)[n] = E!Shifted(o, width)[n - 1] \div Base
         /\ \A n \in 0 .. width : E!Shifted(o, width)[n] \in Nat
  <1> DEFINE F == [p \in (1 .. width) \X Nat |-> p[2] \div Base]
             Is(w) == w = [n \in 0 .. width |-> IF n = 0 THEN o ELSE w[n - 1] \div Base]
             u == CHOOSE w : Is(w)
  <1>1. \A y \in Nat : y \div Base \in Nat
    OBVIOUS
  <1>3. F \in [(1 .. width) \X Nat -> Nat] /\ \A n \in 1 .. width, y \in Nat : F[<<n, y>>] = y \div Base
    BY <1>1
  <1>4. E!Shifted(o, width) = u
    BY DEF E!Shifted
  <1> HIDE DEF F
  <1>5. PICK g \in [0 .. width -> Nat] : Steps(g, width, o, F)
    BY <1>3, StepsExist
  <1>6. Is(g)
    <2>1. ASSUME NEW n \in 0 .. width PROVE g[n] = IF n = 0 THEN o ELSE g[n - 1] \div Base
      <3>1. n # 0 => n \in 1 .. width /\ n - 1 \in 0 .. width
        OBVIOUS
      <3> QED BY <1>3, <1>5, <3>1 DEF Steps
    <2>2. g = [n \in 0 .. width |-> g[n]]
      OBVIOUS
    <2> QED BY <2>1, <2>2
  <1>7. Is(u)
    <2> HIDE DEF Is
    <2> QED BY <1>6
  <1> HIDE DEF u
  <1>8. u[0] = o
    BY <1>7
  <1>9. ASSUME NEW n \in 1 .. width PROVE u[n] = u[n - 1] \div Base
    <2>1. n \in 0 .. width /\ n # 0
      OBVIOUS
    <2> QED BY <1>7, <2>1
  <1>10. \A n \in 0 .. width : u[n] \in Nat
    <2>1. \A n \in 1 .. width : u[n - 1] \in Nat => u[n] \in Nat
      BY <1>1, <1>9
    <2> QED BY <1>8, <2>1, Stays
  <1> QED BY <1>4, <1>8, <1>9, <1>10

LEMMA PutTypes ==
  ASSUME NEW o \in Nat, NEW width \in Nat, Base \in Nat \ {0, 1}
  PROVE  E!Put(o, width) \in Seq(Nat) /\ Len(E!Put(o, width)) = width
  <1>1. ASSUME NEW k \in 1 .. width PROVE E!Shifted(o, width)[width - k] % Base \in Nat
    <2>1. width - k \in 0 .. width
      OBVIOUS
    <2>2. PICK y \in Nat : y = E!Shifted(o, width)[width - k]
      BY <2>1, ShiftedIs
    <2>3. y % Base \in Nat
      OBVIOUS
    <2> QED BY <2>2, <2>3
  <1>2. E!Put(o, width) \in [1 .. width -> Nat]
    BY <1>1 DEF E!Put
  <1> QED BY <1>2

LEMMA UintIs ==
  ASSUME NEW o \in Nat, NEW width \in Nat, Base \in Nat \ {0, 1}, E!Fits(o, width)
  PROVE  E!Uint(E!Put(o, width)) = o
  <1>1. PICK b : b = E!Put(o, width)
    OBVIOUS
  <1>2. Len(b) = width
    BY <1>1, PutTypes
  <1>3. PICK s : s = E!Shifted(o, width)
    OBVIOUS
  <1>4. /\ s[0] = o /\ s[width] = 0
        /\ \A n \in 1 .. width : s[n] = s[n - 1] \div Base
        /\ \A n \in 0 .. width : s[n] \in Nat
    BY <1>3, ShiftedIs DEF E!Fits
  <1>5. \A k \in 1 .. width : b[k] = s[width - k] % Base
    BY <1>1, <1>3 DEF E!Put
  <1> DEFINE Is(w) == w = [k \in 0 .. width |-> IF k = 0 THEN 0 ELSE w[k - 1] * Base + b[k]]
             u == CHOOSE w : Is(w)
             h == [k \in 0 .. width |-> s[width - k]]
  <1>6. E!Uint(b) = u[width]
    BY <1>2 DEF E!Uint
  <1>7. Is(h)
    <2>1. ASSUME NEW k \in 0 .. width
          PROVE  s[width - k] = IF k = 0 THEN 0 ELSE h[k - 1] * Base + b[k]
      <3>1. CASE k = 0
        BY <1>4, <3>1
      <3>2. CASE k # 0
        <4>1. PICK n \in 1 .. width : n = width - (k - 1) /\ n - 1 = width - k
          BY <3>2
        <4>2. h[k - 1] = s[n]
          BY <3>2, <4>1
        <4>3. k \in 1 .. width
          BY <3>2
        <4>4. b[k] = s[n - 1] % Base /\ s[n] = s[n - 1] \div Base
          BY <1>4, <1>5, <4>1, <4>3
        <4>5. PICK y \in Nat : y = s[n - 1]
          BY <1>4, <4>1
        <4>6. (y \div Base) * Base + (y % Base) = y
          OBVIOUS
        <4> HIDE DEF h
        <4> QED BY <3>2, <4>1, <4>2, <4>4, <4>5, <4>6
      <3> QED BY <3>1, <3>2
    <2> QED BY <2>1
  <1>8. Is(u)
    <2> HIDE DEF Is
    <2> QED BY <1>7
  <1> HIDE DEF u
  <1> DEFINE T == {k \in Nat : k <= width => u[k] = s[width - k]}
  <1>9. 0 \in T
    <2>1. u[0] = 0 /\ width - 0 = width
      BY <1>8
    <2> QED BY <1>4, <2>1
  <1>10. ASSUME NEW k \in Nat, k \in T PROVE k + 1 \in T
    <2> SUFFICES ASSUME k + 1 <= width PROVE u[k + 1] = s[width - (k + 1)]
      OBVIOUS
    <2>1. k + 1 \in 0 .. width /\ k \in 0 .. width /\ k + 1 # 0 /\ (k + 1) - 1 = k /\ k <= width
      OBVIOUS
    <2>2. u[k + 1] = u[k] * Base + b[k + 1]
      BY <1>8, <2>1
    <2>3. h[k + 1] = h[k] * Base + b[k + 1]
      <3> HIDE DEF h
      <3> QED BY <1>7, <2>1
    <2>4. h[k + 1] = s[width - (k + 1)] /\ h[k] = s[width - k]
      BY <2>1
    <2>5. u[k] = s[width - k]
      BY <1>10, <2>1
    <2> HIDE DEF h, T
    <2> QED BY <2>2, <2>3, <2>4, <2>5
  <1>11. width \in T
    <2> HIDE DEF T, Is
    <2> QED BY <1>9, <1>10, Induct
  <1>12. u[width] = s[0]
    <2>1. width - width = 0
      OBVIOUS
    <2> QED BY <1>11, <2>1
  <1> QED BY <1>1, <1>4, <1>6, <1>12

(* Sequences that are put together, part after part: where each begins.    *)
Begins(at, parts, N) ==
  /\ at[0] = 0
  /\ \A n \in 1 .. N : at[n] = at[n - 1] + Len(parts[n])
  /\ \A n \in 0 .. N : at[n] \in Nat

Together(u, parts, at, n, V) ==
  /\ u[n] \in Seq(V) /\ Len(u[n]) = at[n]
  /\ \A m \in 1 .. n : /\ at[m - 1] + Len(parts[m]) <= at[n]
                       /\ \A k \in 1 .. Len(parts[m]) : u[n][at[m - 1] + k] = parts[m][k]

LEMMA Joins ==
  ASSUME NEW V, NEW N \in Nat, NEW parts, \A n \in 1 .. N : parts[n] \in Seq(V),
         NEW at, Begins(at, parts, N),
         NEW u, u[0] = <<>>, \A n \in 1 .. N : u[n] = u[n - 1] \o parts[n]
  PROVE  \A n \in 0 .. N : Together(u, parts, at, n, V)
  <1> DEFINE T == {n \in Nat : n <= N => Together(u, parts, at, n, V)}
  <1>1. 0 \in T
    <2>1. u[0] \in Seq(V) /\ Len(u[0]) = 0 /\ at[0] = 0
      BY DEF Begins
    <2>2. \A m \in 1 .. 0 : FALSE
      OBVIOUS
    <2>3. Together(u, parts, at, 0, V)
      BY <2>1, <2>2 DEF Together
    <2> QED BY <2>3
  <1>2. ASSUME NEW n \in Nat, n \in T PROVE n + 1 \in T
    <2> SUFFICES ASSUME n + 1 <= N PROVE Together(u, parts, at, n + 1, V)
      OBVIOUS
    <2>1. n <= N /\ n + 1 \in 1 .. N /\ (n + 1) - 1 = n /\ n \in 0 .. N /\ n + 1 \in 0 .. N
      OBVIOUS
    <2>2. Together(u, parts, at, n, V)
      BY <1>2, <2>1
    <2>3. PICK s \in Seq(V) : s = u[n]
      BY <2>2 DEF Together
    <2>4. PICK t \in Seq(V) : t = parts[n + 1]
      BY <2>1
    <2>5. PICK r : r = s \o t
      OBVIOUS
    <2>6. u[n + 1] = r
      BY <2>1, <2>3, <2>4, <2>5
    <2>7. PICK a \in Nat : a = at[n]
      BY <2>1 DEF Begins
    <2>8. at[n + 1] = a + Len(t) /\ Len(s) = a /\ Len(t) \in Nat
      BY <2>1, <2>2, <2>3, <2>4, <2>7 DEF Begins, Together
    <2>9. /\ r \in Seq(V) /\ Len(r) = a + Len(t)
          /\ \A i \in 1 .. a + Len(t) : r[i] = IF i <= a THEN s[i] ELSE t[i - a]
      BY <2>5, <2>8, ConcatProperties
    <2>10. ASSUME NEW m \in 1 .. n
           PROVE  /\ at[m - 1] + Len(parts[m]) <= a + Len(t)
                  /\ \A k \in 1 .. Len(parts[m]) : r[at[m - 1] + k] = parts[m][k]
      <3>1. m - 1 \in 0 .. N /\ m \in 1 .. N
        BY <2>1
      <3>2. PICK b \in Nat, l \in Nat : b = at[m - 1] /\ l = Len(parts[m])
        BY <3>1 DEF Begins
      <3>3. b + l <= a /\ \A k \in 1 .. l : s[b + k] = parts[m][k]
        BY <2>2, <2>3, <2>7, <3>2 DEF Together
      <3>4. ASSUME NEW k \in 1 .. l PROVE r[b + k] = parts[m][k]
        <4>1. b + k \in 1 .. a + Len(t) /\ b + k <= a
          BY <2>8, <3>3
        <4>2. r[b + k] = s[b + k]
          BY <2>9, <4>1
        <4> QED BY <3>3, <4>2
      <3>5. b + l <= a + Len(t)
        BY <2>8, <3>3
      <3> QED BY <3>2, <3>4, <3>5
    <2>11. ASSUME NEW k \in 1 .. Len(t) PROVE r[a + k] = t[k]
      <3>1. a + k \in 1 .. a + Len(t) /\ ~(a + k <= a) /\ (a + k) - a = k
        BY <2>8
      <3> QED BY <2>9, <3>1
    <2>12. ASSUME NEW m \in 1 .. n + 1
           PROVE  /\ at[m - 1] + Len(parts[m]) <= at[n + 1]
                  /\ \A k \in 1 .. Len(parts[m]) : u[n + 1][at[m - 1] + k] = parts[m][k]
      <3>1. CASE m = n + 1
        <4>1. at[m - 1] = a /\ parts[m] = t
          BY <2>1, <2>4, <2>7, <3>1
        <4>2. a + Len(t) <= a + Len(t)
          BY <2>8
        <4> QED BY <2>6, <2>8, <2>11, <4>1, <4>2
      <3>2. CASE m # n + 1
        <4>1. m \in 1 .. n
          BY <3>2
        <4> QED BY <2>6, <2>8, <2>10, <4>1
      <3> QED BY <3>1, <3>2
    <2> QED BY <2>6, <2>8, <2>9, <2>12 DEF Together
  <1> HIDE DEF T
  <1>3. \A n \in Nat : n \in T
    BY <1>1, <1>2, Induct
  <1> QED BY <1>3 DEF T

LEMMA FlatIs ==
  ASSUME NEW V, NEW parts \in Seq(Seq(V)), NEW N \in Nat, N = Len(parts),
         NEW at, Begins(at, parts, N)
  PROVE  \E u : u[N] = FlattenSeq(parts) /\ Together(u, parts, at, N, V)
  <1>1. N = Len(parts)
    OBVIOUS
  <1>2. \A n \in 1 .. N : parts[n] \in Seq(V)
    BY <1>1
  <1>3. CASE N = 0
    <2>1. FlattenSeq(parts) = parts
      BY <1>1, <1>3 DEF FlattenSeq
    <2>2. parts = <<>>
      BY <1>1, <1>3, EmptySeq
    <2>3. PICK u : u = [n \in 0 .. 0 |-> <<>>]
      OBVIOUS
    <2>4. u[0] = <<>> /\ u[0] \in Seq(V) /\ Len(u[0]) = 0
      BY <2>3
    <2>5. at[0] = 0 /\ \A m \in 1 .. 0 : FALSE
      BY DEF Begins
    <2>6. Together(u, parts, at, 0, V)
      BY <2>4, <2>5 DEF Together
    <2> QED BY <1>3, <2>1, <2>2, <2>4, <2>6
  <1>4. CASE N # 0
    <2> DEFINE F == [p \in (1 .. N) \X Seq(V) |-> p[2] \o parts[p[1]]]
               Is(w) == w = [n \in 1 .. N |-> IF n = 1 THEN parts[n] ELSE w[n - 1] \o parts[n]]
               w == CHOOSE x : Is(x)
               u == [n \in 0 .. N |-> IF n = 0 THEN <<>> ELSE w[n]]
    <2>1. FlattenSeq(parts) = w[N]
      BY <1>1, <1>4 DEF FlattenSeq
    <2>2. \A n \in 1 .. N, y \in Seq(V) : y \o parts[n] \in Seq(V)
      BY <1>2, ConcatProperties
    <2>3. F \in [(1 .. N) \X Seq(V) -> Seq(V)] /\ \A n \in 1 .. N, y \in Seq(V) : F[<<n, y>>] = y \o parts[n]
      BY <2>2
    <2> HIDE DEF F
    <2>4. PICK g \in [0 .. N -> Seq(V)] : Steps(g, N, <<>>, F)
      <3>1. <<>> \in Seq(V)
        OBVIOUS
      <3> QED BY <2>3, <3>1, StepsExist
    <2>5. ASSUME NEW n \in 1 .. N PROVE g[n] = g[n - 1] \o parts[n]
      <3>1. n - 1 \in 0 .. N
        OBVIOUS
      <3>2. g[n - 1] \in Seq(V)
        BY <3>1
      <3> QED BY <2>3, <2>4, <3>2 DEF Steps
    <2>6. \A s \in Seq(V) : <<>> \o s = s
      OBVIOUS
    <2> DEFINE h == [n \in 1 .. N |-> g[n]]
    <2>7. Is(h)
      <3>1. ASSUME NEW n \in 1 .. N PROVE g[n] = IF n = 1 THEN parts[n] ELSE h[n - 1] \o parts[n]
        <4>1. CASE n = 1
          <5>1. n - 1 = 0
            BY <4>1
          <5>2. g[n] = <<>> \o parts[n]
            BY <2>4, <2>5, <5>1 DEF Steps
          <5> QED BY <1>2, <2>6, <4>1, <5>2
        <4>2. CASE n # 1
          <5>1. n - 1 \in 1 .. N
            BY <4>2
          <5> QED BY <2>5, <4>2, <5>1
        <4> QED BY <4>1, <4>2
      <3> QED BY <3>1
    <2>8. Is(w)
      <3> HIDE DEF Is
      <3> QED BY <2>7
    <2> HIDE DEF w
    <2>9. ASSUME NEW n \in 1 .. N PROVE u[n] = u[n - 1] \o parts[n]
      <3>1. u[n] = w[n]
        OBVIOUS
      <3>2. CASE n = 1
        <4>1. u[n - 1] = <<>> /\ w[n] = parts[n]
          BY <2>8, <3>2
        <4> HIDE DEF u
        <4> QED BY <1>2, <2>6, <3>1, <4>1
      <3>3. CASE n # 1
        <4>1. n - 1 \in 0 .. N /\ n - 1 # 0
          BY <3>3
        <4>2. u[n - 1] = w[n - 1]
          BY <4>1
        <4>3. w[n] = w[n - 1] \o parts[n]
          BY <2>8, <3>3
        <4> HIDE DEF u
        <4> QED BY <3>1, <4>2, <4>3
      <3> QED BY <3>2, <3>3
    <2>10. u[0] = <<>> /\ u[N] = w[N] /\ N \in 0 .. N
      BY <1>4
    <2> HIDE DEF u
    <2>11. Begins(at, parts, N)
      BY <1>1
    <2>12. Together(u, parts, at, N, V)
      <3>1. \A n \in 0 .. N : Together(u, parts, at, n, V)
        BY <1>2, <2>9, <2>10, <2>11, Joins
      <3> QED BY <2>10, <3>1
    <2> QED BY <2>1, <2>10, <2>12
  <1> QED BY <1>3, <1>4

(* The operations that the machine reads as they are declared, and what    *)
(* instructions consist of.  What is Indexed is a STRING, which the provers *)
(* do not know.                                                            *)
Ops == (STRING \cup E!Indexed) \ E!Misread
Cells == Ops \cup Nat

LEMMA WidthsAgree ==
  ASSUME NEW op \in Ops
  PROVE  /\ E!Reads(op) = E!OperandWidths(op)
         /\ E!OperandWidths(op) \in Seq(Nat)
         /\ op \in E!Jumping => E!OperandWidths(op) = <<4>>
  <1>1. CASE op \in E!Indexed
    BY <1>1 DEF E!Reads, E!OperandWidths, E!Indexed, E!Jumping, E!Calling, E!Misread, Ops
  <1>2. CASE op \in E!Jumping
    BY <1>2 DEF E!Reads, E!OperandWidths, E!Indexed, E!Jumping, E!Calling, E!Misread, Ops
  <1>3. CASE op \in E!Calling
    BY <1>3 DEF E!Reads, E!OperandWidths, E!Indexed, E!Jumping, E!Calling, E!Misread, Ops
  <1>4. CASE op = "OpMakeClass"
    BY <1>4 DEF E!Reads, E!OperandWidths, E!Indexed, E!Jumping, E!Calling, E!Misread, Ops
  <1>5. CASE op \notin E!Indexed \cup E!Jumping \cup E!Calling \cup {"OpMakeClass"}
    <2>1. op \notin E!Indexed /\ op \notin E!Jumping /\ op \notin E!Calling /\ op # "OpMakeClass"
      BY <1>5
    <2>2. op # "OpMakeProperty" /\ op # "OpSetupWith" /\ op # "OpMakeGenerator" /\ op # "OpUnpackRest"
      BY DEF E!Misread, Ops
    <2>3. E!Reads(op) = <<>> /\ E!OperandWidths(op) = <<>>
      BY <2>1, <2>2 DEF E!Reads, E!OperandWidths
    <2> QED BY <2>1, <2>3
  <1> QED BY <1>1, <1>2, <1>3, <1>4, <1>5

(* How many bytes an instruction has.                                      *)
Size(op) == 1 + E!Total(E!OperandWidths(op))

LEMMA MakeIs ==
  ASSUME Base \in Nat \ {0, 1}, NEW op \in Ops, NEW operands \in Seq(Nat),
         NEW w, w = E!OperandWidths(op), Len(operands) = Len(w)
  PROVE  /\ E!Make(op, operands) \in Seq(Cells) /\ Len(E!Make(op, operands)) = Size(op)
         /\ Size(op) \in Nat \ {0}
         /\ E!Make(op, operands)[1] = op
         /\ \A i \in 1 .. Len(w) :
              /\ E!Offset(w)[i - 1] + w[i] <= E!Total(w)
              /\ \A k \in 1 .. w[i] :
                   E!Make(op, operands)[1 + (E!Offset(w)[i - 1] + k)] = E!Put(operands[i], w[i])[k]
  <1>1. w \in Seq(Nat)
    BY WidthsAgree
  <1>2. PICK N \in Nat : N = Len(w)
    BY <1>1
  <1>3. PICK at : at = E!Offset(w)
    OBVIOUS
  <1>4. PICK parts : parts = [i \in 1 .. N |-> E!Put(operands[i], w[i])]
    OBVIOUS
  <1>5. ASSUME NEW i \in 1 .. N
        PROVE  parts[i] = E!Put(operands[i], w[i]) /\ parts[i] \in Seq(Cells) /\ Len(parts[i]) = w[i]
    <2>1. operands[i] \in Nat /\ w[i] \in Nat
      BY <1>1, <1>2
    <2>2. parts[i] = E!Put(operands[i], w[i]) /\ parts[i] \in Seq(Nat) /\ Len(parts[i]) = w[i]
      BY <1>4, <2>1, PutTypes
    <2>3. \A s \in Seq(Nat) : s \in Seq(Cells)
      BY DEF Cells
    <2> QED BY <2>2, <2>3
  <1>6. parts \in Seq(Seq(Cells)) /\ Len(parts) = N
    BY <1>4, <1>5
  <1>7. Begins(at, parts, N)
    <2>1. /\ at[0] = 0 /\ \A n \in 1 .. N : at[n] = at[n - 1] + w[n]
          /\ \A n \in 0 .. N : at[n] \in Nat
      BY <1>1, <1>2, <1>3, Offsets
    <2> QED BY <1>5, <2>1 DEF Begins
  <1>8. PICK f : f = FlattenSeq(parts)
    OBVIOUS
  <1>9. /\ f \in Seq(Cells) /\ Len(f) = at[N]
        /\ \A m \in 1 .. N : /\ at[m - 1] + Len(parts[m]) <= at[N]
                             /\ \A k \in 1 .. Len(parts[m]) : f[at[m - 1] + k] = parts[m][k]
    <2>1. PICK u : u[N] = f /\ Together(u, parts, at, N, Cells)
      BY <1>6, <1>7, <1>8, FlatIs
    <2> QED BY <2>1 DEF Together
  <1>10. E!Make(op, operands) = <<op>> \o f
    <2>1. DOMAIN operands = 1 .. N /\ DOMAIN w = 1 .. N
      BY <1>1, <1>2
    <2>2. [i \in DOMAIN w |-> E!Put(IF i \in DOMAIN operands THEN operands[i] ELSE 0, w[i])] = parts
      BY <1>4, <2>1
    <2>3. E!FlattenSeq(parts) = FlattenSeq(parts)
      BY DEF E!FlattenSeq, FlattenSeq
    <2>4. E!Make(op, operands) = <<op>> \o E!FlattenSeq(parts)
      BY <2>2 DEF E!Make
    <2> QED BY <1>8, <2>3, <2>4
  <1>11. PICK a \in Nat : a = at[N]
    BY <1>7 DEF Begins
  <1>12. E!Total(w) = a
    BY <1>2, <1>3, <1>11 DEF E!Total
  <1>13. <<op>> \in Seq(Cells) /\ Len(<<op>>) = 1 /\ <<op>>[1] = op
    BY DEF Cells
  <1>14. PICK m \in Seq(Cells) : m = E!Make(op, operands)
    BY <1>9, <1>10, <1>13, ConcatProperties
  <1>15. Len(m) = 1 + a /\ m[1] = op /\ \A j \in 1 .. a : m[1 + j] = f[j]
    <2>1. /\ Len(m) = 1 + a
          /\ \A i \in 1 .. 1 + a : m[i] = IF i <= 1 THEN <<op>>[i] ELSE f[i - 1]
      BY <1>8, <1>9, <1>10, <1>11, <1>13, <1>14, ConcatProperties
    <2>2. \A j \in 1 .. a : 1 + j \in 1 .. 1 + a /\ ~(1 + j <= 1) /\ (1 + j) - 1 = j
      OBVIOUS
    <2>3. 1 \in 1 .. 1 + a
      OBVIOUS
    <2> QED BY <1>13, <2>1, <2>2, <2>3
  <1>16. ASSUME NEW i \in 1 .. N
         PROVE  /\ at[i - 1] + w[i] <= a
                /\ \A k \in 1 .. w[i] : m[1 + (at[i - 1] + k)] = E!Put(operands[i], w[i])[k]
    <2>1. at[i - 1] + w[i] <= a
      BY <1>5, <1>9, <1>11
    <2>2. PICK b \in Nat, l \in Nat : b = at[i - 1] /\ l = w[i]
      <3>1. i - 1 \in 0 .. N
        OBVIOUS
      <3>2. at[i - 1] \in Nat
        BY <1>7, <3>1 DEF Begins
      <3>3. w[i] \in Nat
        BY <1>1, <1>2
      <3> QED BY <3>2, <3>3
    <2>3. ASSUME NEW k \in 1 .. l PROVE m[1 + (b + k)] = E!Put(operands[i], w[i])[k]
      <3>1. b + l <= a
        BY <2>1, <2>2
      <3>2. b + k \in 1 .. a
        BY <3>1
      <3>3. f[b + k] = parts[i][k]
        BY <1>5, <1>9, <2>2
      <3> QED BY <1>5, <1>15, <3>2, <3>3
    <2> QED BY <2>1, <2>2, <2>3
  <1> QED BY <1>2, <1>3, <1>12, <1>14, <1>15, <1>16 DEF Size

(* An instruction whose operands fit, and where it is in a program.        *)
FitIn(operands, w) == \A i \in 1 .. Len(w) : E!Fits(operands[i], w[i])

StandsAt(program, pos, op, operands) ==
  /\ pos + Size(op) <= Len(program)
  /\ \A k \in 1 .. Size(op) : program[pos + k] = E!Make(op, operands)[k]

LEMMA DecodeIs ==
  ASSUME Base \in Nat \ {0, 1}, NEW op \in Ops, NEW operands \in Seq(Nat),
         NEW w, w = E!OperandWidths(op), Len(operands) = Len(w),
         FitIn(operands, w),
         NEW program \in Seq(Cells), NEW pos \in Nat, StandsAt(program, pos, op, operands)
  PROVE  E!Decode(program, pos, w) = [op |-> op, operands |-> operands]
  <1>1. w \in Seq(Nat)
    BY WidthsAgree
  <1>2. PICK N \in Nat : N = Len(w)
    BY <1>1
  <1>3. PICK at : at = E!Offset(w)
    OBVIOUS
  <1>4. PICK m : m = E!Make(op, operands)
    OBVIOUS
  <1>5. PICK a \in Nat : a = E!Total(w)
    BY <1>1, <1>2, Offsets DEF E!Total
  <1>6. /\ Size(op) = 1 + a /\ pos + (1 + a) <= Len(program)
        /\ \A k \in 1 .. 1 + a : program[pos + k] = m[k]
    <2>1. Size(op) = 1 + a
      BY <1>5 DEF Size
    <2> QED BY <1>4, <2>1 DEF StandsAt
  <1>7. /\ m[1] = op
        /\ \A i \in 1 .. N : /\ at[i - 1] + w[i] <= a
                             /\ \A k \in 1 .. w[i] : m[1 + (at[i - 1] + k)] = E!Put(operands[i], w[i])[k]
    BY <1>2, <1>3, <1>4, <1>5, MakeIs
  <1>8. program[pos + 1] = op
    <2>1. 1 \in 1 .. 1 + a
      OBVIOUS
    <2> QED BY <1>4, <1>6, <1>7, <2>1
  <1>9. ASSUME NEW i \in 1 .. N
        PROVE  E!Uint(SubSeq(program, pos + 2 + at[i - 1], pos + 2 + at[i - 1] + w[i] - 1)) = operands[i]
    <2>1. PICK b \in Nat, l \in Nat : b = at[i - 1] /\ l = w[i]
      <3>1. i - 1 \in 0 .. N
        OBVIOUS
      <3>2. at[i - 1] \in Nat
        BY <1>1, <1>2, <1>3, <3>1, Offsets
      <3>3. w[i] \in Nat
        BY <1>1, <1>2
      <3> QED BY <3>2, <3>3
    <2>2. b + l <= a
      BY <1>7, <2>1
    <2>3. PICK o \in Nat : o = operands[i]
      BY <1>2
    <2>4. PICK p \in Seq(Nat) : p = E!Put(o, l) /\ Len(p) = l
      BY PutTypes
    <2> DEFINE first == pos + 2 + b
               last == pos + 2 + b + l - 1
               s == SubSeq(program, first, last)
    <2>5. first \in Nat /\ last \in Int /\ first >= 1 /\ last <= Len(program) /\ last - first + 1 = l
      BY <1>6, <2>2
    <2>6. \A k \in first .. last : program[k] \in Cells
      <3>1. \A k \in first .. last : k \in 1 .. Len(program)
        BY <2>5
      <3> QED BY <3>1
    <2>7. s \in Seq(Cells) /\ Len(s) = l /\ \A k \in 1 .. l : s[k] = program[first + k - 1]
      <3> HIDE DEF first, last
      <3>1. /\ s \in Seq(Cells)
            /\ Len(s) = IF first <= last THEN last - first + 1 ELSE 0
            /\ \A k \in 1 .. last - first + 1 : s[k] = program[first + k - 1]
        BY <2>5, <2>6, SubSeqProperties
      <3>2. (IF first <= last THEN last - first + 1 ELSE 0) = l
        BY <2>5
      <3> HIDE DEF s
      <3> QED BY <2>5, <3>1, <3>2
    <2>8. ASSUME NEW k \in 1 .. l PROVE s[k] = p[k]
      <3>1. first + k - 1 = pos + (1 + (b + k)) /\ 1 + (b + k) \in 1 .. 1 + a
        BY <2>2
      <3>2. s[k] = program[pos + (1 + (b + k))]
        <4> HIDE DEF s, first
        <4> QED BY <2>7, <3>1
      <3>3. program[pos + (1 + (b + k))] = m[1 + (b + k)]
        BY <1>4, <1>6, <3>1
      <3>4. m[1 + (b + k)] = p[k]
        BY <1>7, <2>1, <2>3, <2>4
      <3> HIDE DEF s
      <3> QED BY <3>2, <3>3, <3>4
    <2>9. s = p
      <3> HIDE DEF s
      <3>1. p \in Seq(Cells)
        <4>1. \A x \in Seq(Nat) : x \in Seq(Cells)
          BY DEF Cells
        <4> QED BY <4>1
      <3> QED BY <2>4, <2>7, <2>8, <3>1, SeqEqual
    <2>10. E!Fits(o, l)
      BY <1>2, <2>1, <2>3 DEF FitIn
    <2>11. E!Uint(p) = o
      BY <2>4, <2>10, UintIs
    <2> HIDE DEF s
    <2> QED BY <2>1, <2>3, <2>9, <2>11 DEF s
  <1>10. operands = [i \in 1 .. N |-> operands[i]]
    BY <1>2
  <1>11. DOMAIN w = 1 .. N
    BY <1>1, <1>2
  <1>12. [i \in DOMAIN w |-> E!Uint(SubSeq(program, pos + 2 + at[i - 1], pos + 2 + at[i - 1] + w[i] - 1))]
           = operands
    BY <1>9, <1>10, <1>11
  <1> QED BY <1>3, <1>8, <1>12 DEF E!Decode

-------------------------------------------------------------------------------
(* Instructions as they are written: each is laid out behind the one       *)
(* before.                                                                 *)
AreWritten(writ) ==
  /\ writ \in Seq([op : Ops, operands : Seq(Nat)])
  /\ \A n \in 1 .. Len(writ) : Len(writ[n].operands) = Len(E!OperandWidths(writ[n].op))

MadeOf(written) == E!Make(written.op, written.operands)

Laid(program, writ, at, N) ==
  /\ program \in Seq(Cells)
  /\ at[0] = 0 /\ at[N] = Len(program)
  /\ \A n \in 0 .. N : at[n] \in Nat
  /\ \A n \in 1 .. N : /\ at[n] = at[n - 1] + Size(writ[n].op)
                       /\ at[n] <= Len(program)
                       /\ \A k \in 1 .. Size(writ[n].op) : program[at[n - 1] + k] = MadeOf(writ[n])[k]

LEMMA WrittenMakes ==
  ASSUME Base \in Nat \ {0, 1}, NEW writ, AreWritten(writ), NEW n \in 1 .. Len(writ)
  PROVE  /\ writ[n].op \in Ops /\ writ[n].operands \in Seq(Nat)
         /\ writ[n] = [op |-> writ[n].op, operands |-> writ[n].operands]
         /\ Len(writ[n].operands) = Len(E!OperandWidths(writ[n].op))
         /\ MadeOf(writ[n]) \in Seq(Cells) /\ Len(MadeOf(writ[n])) = Size(writ[n].op)
         /\ Size(writ[n].op) \in Nat \ {0} /\ MadeOf(writ[n])[1] = writ[n].op
  <1>1. PICK r \in [op : Ops, operands : Seq(Nat)] : r = writ[n]
    <2>1. PICK S : S = [op : Ops, operands : Seq(Nat)]
      OBVIOUS
    <2>2. writ \in Seq(S)
      BY <2>1 DEF AreWritten
    <2>3. writ[n] \in S
      BY <2>2
    <2> QED BY <2>1, <2>3
  <1>2. r.op \in Ops /\ r.operands \in Seq(Nat) /\ r = [op |-> r.op, operands |-> r.operands]
    <2>1. PICK T : T = Seq(Nat)
      OBVIOUS
    <2>2. r \in [op : Ops, operands : T]
      BY <2>1
    <2>3. r.op \in Ops
      BY <2>2, Zenon
    <2>4. r.operands \in T
      BY <2>2, Zenon
    <2>5. r = [op |-> r.op, operands |-> r.operands]
      BY <2>2, Zenon
    <2> QED BY <2>1, <2>3, <2>4, <2>5
  <1>3. Len(r.operands) = Len(E!OperandWidths(r.op))
    BY <1>1 DEF AreWritten
  <1>4. /\ E!Make(r.op, r.operands) \in Seq(Cells) /\ Len(E!Make(r.op, r.operands)) = Size(r.op)
        /\ Size(r.op) \in Nat \ {0} /\ E!Make(r.op, r.operands)[1] = r.op
    <2>1. PICK o \in Ops, l \in Seq(Nat) : o = r.op /\ l = r.operands
      BY <1>2
    <2>2. PICK w : w = E!OperandWidths(o)
      OBVIOUS
    <2>3. Len(l) = Len(w)
      BY <1>3, <2>1, <2>2
    <2>4. /\ E!Make(o, l) \in Seq(Cells) /\ Len(E!Make(o, l)) = Size(o)
          /\ Size(o) \in Nat \ {0} /\ E!Make(o, l)[1] = o
      BY <2>2, <2>3, MakeIs
    <2> QED BY <2>1, <2>4
  <1> QED BY <1>1, <1>2, <1>3, <1>4 DEF MadeOf

LEMMA LaidBySteps ==
  ASSUME Base \in Nat \ {0, 1}, NEW writ, AreWritten(writ), NEW N \in Nat, N = Len(writ),
         NEW u, u[0] = <<>>, \A n \in 1 .. N : u[n] = u[n - 1] \o MadeOf(writ[n])
  PROVE  /\ \A n \in 0 .. N : u[n] \in Seq(Cells)
         /\ Laid(u[N], writ, [n \in 0 .. N |-> Len(u[n])], N)
  <1>1. PICK parts : parts = [n \in 1 .. N |-> MadeOf(writ[n])]
    OBVIOUS
  <1>2. \A n \in 1 .. N : parts[n] \in Seq(Cells) /\ Len(parts[n]) = Size(writ[n].op)
    BY <1>1, WrittenMakes
  <1>3. \A n \in 0 .. N : u[n] \in Seq(Cells)
    <2>1. ASSUME NEW n \in 1 .. N, u[n - 1] \in Seq(Cells) PROVE u[n] \in Seq(Cells)
      <3>1. PICK s \in Seq(Cells), t \in Seq(Cells) : s = u[n - 1] /\ t = MadeOf(writ[n])
        BY <1>1, <1>2, <2>1
      <3>2. s \o t \in Seq(Cells)
        BY ConcatProperties
      <3> QED BY <3>1, <3>2
    <2>2. u[0] \in Seq(Cells)
      OBVIOUS
    <2> QED BY <2>1, <2>2, Stays
  <1>4. PICK at : at = [n \in 0 .. N |-> Len(u[n])]
    OBVIOUS
  <1>5. \A n \in 0 .. N : at[n] = Len(u[n]) /\ at[n] \in Nat
    BY <1>3, <1>4
  <1>6. at[0] = 0
    BY <1>5
  <1>7. ASSUME NEW n \in 1 .. N PROVE at[n] = at[n - 1] + Len(parts[n])
    <2>1. n - 1 \in 0 .. N /\ n \in 0 .. N
      OBVIOUS
    <2>2. PICK s \in Seq(Cells), t \in Seq(Cells) : s = u[n - 1] /\ t = parts[n]
      BY <1>2, <1>3, <2>1
    <2>3. u[n] = s \o t
      BY <1>1, <2>2
    <2>4. Len(s \o t) = Len(s) + Len(t)
      BY ConcatProperties
    <2> QED BY <1>5, <2>1, <2>2, <2>3, <2>4
  <1>8. Begins(at, parts, N)
    BY <1>5, <1>6, <1>7 DEF Begins
  <1>9. Together(u, parts, at, N, Cells)
    <2>1. \A n \in 1 .. N : u[n] = u[n - 1] \o parts[n]
      BY <1>1
    <2>2. \A n \in 0 .. N : Together(u, parts, at, n, Cells)
      BY <1>2, <1>8, <2>1, Joins
    <2> QED BY <2>2
  <1>10. /\ u[N] \in Seq(Cells) /\ Len(u[N]) = at[N]
         /\ \A m \in 1 .. N : /\ at[m - 1] + Len(parts[m]) <= at[N]
                              /\ \A k \in 1 .. Len(parts[m]) : u[N][at[m - 1] + k] = parts[m][k]
    BY <1>9 DEF Together
  <1>11. ASSUME NEW n \in 1 .. N
         PROVE  /\ at[n] = at[n - 1] + Size(writ[n].op)
                /\ at[n] <= Len(u[N])
                /\ \A k \in 1 .. Size(writ[n].op) : u[N][at[n - 1] + k] = MadeOf(writ[n])[k]
    BY <1>1, <1>2, <1>7, <1>10
  <1>12. Laid(u[N], writ, at, N)
    BY <1>5, <1>6, <1>10, <1>11 DEF Laid
  <1> QED BY <1>3, <1>4, <1>12

(* The next step of a walk.                                                *)
WalkOn(program, reader, last) ==
  IF last.pos >= Len(program) THEN last
  ELSE LET widths == E!Widths(reader, program[last.pos + 1]) IN
       [pos |-> last.pos + 1 + E!Total(widths),
        read |-> Append(last.read, E!Decode(program, last.pos, widths))]

AllFit(writ) ==
  \A n \in 1 .. Len(writ) : FitIn(writ[n].operands, E!OperandWidths(writ[n].op))

LEMMA StepIs ==
  ASSUME Base \in Nat \ {0, 1}, NEW writ, AreWritten(writ), AllFit(writ),
         NEW N \in Nat, N = Len(writ), NEW program, NEW at, Laid(program, writ, at, N), NEW reader,
         NEW n \in 1 .. N
  PROVE  WalkOn(program, reader, [pos |-> at[n - 1], read |-> [i \in 1 .. n - 1 |-> writ[i]]])
           = [pos |-> at[n], read |-> [i \in 1 .. n |-> writ[i]]]
  <1>1. PICK op, operands, w :
          /\ op \in Ops /\ operands \in Seq(Nat)
          /\ op = writ[n].op /\ operands = writ[n].operands /\ w = E!OperandWidths(op)
    BY WrittenMakes
  <1>2. writ[n] = [op |-> op, operands |-> operands] /\ Len(operands) = Len(w)
    BY <1>1, WrittenMakes
  <1>3. PICK size \in Nat \ {0} : size = Size(op)
    BY <1>1, WrittenMakes
  <1>4. PICK b \in Nat, L \in Nat : b = at[n - 1] /\ L = Len(program)
    <2>1. n - 1 \in 0 .. N
      OBVIOUS
    <2>2. program \in Seq(Cells) /\ at[n - 1] \in Nat
      BY <2>1 DEF Laid
    <2>3. Len(program) \in Nat
      BY <2>2
    <2> QED BY <2>2, <2>3
  <1>5. program \in Seq(Cells) /\ at[n] = b + size /\ b + size <= L
    BY <1>1, <1>3, <1>4 DEF Laid
  <1>6. \A k \in 1 .. size : program[b + k] = E!Make(op, operands)[k]
    BY <1>1, <1>3, <1>4 DEF Laid, MadeOf
  <1>7. program[b + 1] = op
    <2>1. 1 \in 1 .. size
      OBVIOUS
    <2>2. E!Make(op, operands)[1] = op
      BY <1>1, WrittenMakes DEF MadeOf
    <2> QED BY <1>6, <2>1, <2>2
  <1>8. E!Widths(reader, op) = w
    BY <1>1, WidthsAgree DEF E!Widths
  <1>9. E!Decode(program, b, w) = writ[n]
    <2>1. FitIn(operands, w)
      BY <1>1 DEF AllFit
    <2>2. StandsAt(program, b, op, operands)
      BY <1>3, <1>4, <1>5, <1>6 DEF StandsAt
    <2>3. /\ op \in Ops /\ operands \in Seq(Nat) /\ program \in Seq(Cells)
          /\ w = E!OperandWidths(op) /\ Len(operands) = Len(w)
      BY <1>1, <1>2, <1>5
    <2>4. E!Decode(program, b, w) = [op |-> op, operands |-> operands]
      BY <2>1, <2>2, <2>3, DecodeIs
    <2> QED BY <1>2, <2>4
  <1>10. b + 1 + E!Total(w) = b + size
    <2>1. size = 1 + E!Total(w)
      BY <1>1, <1>3 DEF Size
    <2>2. PICK t \in Nat : t = E!Total(w)
      <3>1. w \in Seq(Nat)
        BY <1>1, WidthsAgree
      <3>2. Len(w) \in Nat /\ Len(w) \in 0 .. Len(w)
        BY <3>1
      <3>3. E!Offset(w)[Len(w)] \in Nat
        BY <3>1, <3>2, Offsets
      <3> QED BY <3>3 DEF E!Total
    <2> QED BY <2>1, <2>2
  <1>11. Append([i \in 1 .. n - 1 |-> writ[i]], writ[n]) = [i \in 1 .. n |-> writ[i]]
    <2> DEFINE S == {writ[i] : i \in 1 .. N}
               s == [i \in 1 .. n - 1 |-> writ[i]]
               t == [i \in 1 .. n |-> writ[i]]
    <2>1. s \in Seq(S) /\ Len(s) = n - 1 /\ t \in Seq(S) /\ Len(t) = n /\ writ[n] \in S
      OBVIOUS
    <2>2. ASSUME NEW i \in 1 .. n PROVE t[i] = IF i <= n - 1 THEN s[i] ELSE writ[n]
      OBVIOUS
    <2> HIDE DEF s, t, S
    <2>3. /\ Append(s, writ[n]) \in Seq(S) /\ Len(Append(s, writ[n])) = n
          /\ \A i \in 1 .. n : Append(s, writ[n])[i] = IF i <= n - 1 THEN s[i] ELSE writ[n]
      BY <2>1, AppendProperties
    <2>4. Append(s, writ[n]) = t
      BY <2>1, <2>2, <2>3, SeqEqual
    <2> QED BY <2>4 DEF s, t
  <1>12. PICK last : last = [pos |-> b, read |-> [i \in 1 .. n - 1 |-> writ[i]]]
    OBVIOUS
  <1>13. last.pos = b /\ last.read = [i \in 1 .. n - 1 |-> writ[i]]
    BY <1>12
  <1>14. ~(b >= L)
    BY <1>5
  <1>15. WalkOn(program, reader, last)
           = [pos |-> b + 1 + E!Total(w), read |-> Append(last.read, E!Decode(program, b, w))]
    BY <1>4, <1>7, <1>8, <1>13, <1>14 DEF WalkOn
  <1> QED BY <1>4, <1>5, <1>9, <1>10, <1>11, <1>12, <1>13, <1>15

LEMMA WalkIs ==
  ASSUME Base \in Nat \ {0, 1}, NEW writ, AreWritten(writ), AllFit(writ),
         NEW N \in Nat, N = Len(writ), NEW program, NEW at, Laid(program, writ, at, N), NEW reader
  PROVE  E!Walk(program, reader) = writ
  <1>1. PICK L \in Nat : L = Len(program) /\ at[N] = L /\ at[0] = 0
    <2>1. program \in Seq(Cells)
      BY DEF Laid
    <2> QED BY <2>1 DEF Laid
  <1>2. \A n \in 1 .. N : at[n - 1] \in Nat /\ at[n] > at[n - 1]
    <2>1. ASSUME NEW n \in 1 .. N PROVE at[n - 1] \in Nat /\ at[n] > at[n - 1]
      <3>1. n - 1 \in 0 .. N
        OBVIOUS
      <3>2. PICK b \in Nat, size \in Nat \ {0} : b = at[n - 1] /\ size = Size(writ[n].op)
        BY <3>1, WrittenMakes DEF Laid
      <3>3. at[n] = b + size
        BY <3>2 DEF Laid
      <3> QED BY <3>2, <3>3
    <2> QED BY <2>1
  <1>3. N <= L
    <2> DEFINE T == {n \in Nat : n <= N => n <= at[n]}
    <2>1. 0 \in T
      BY <1>1
    <2>2. ASSUME NEW n \in Nat, n \in T PROVE n + 1 \in T
      <3> SUFFICES ASSUME n + 1 <= N PROVE n + 1 <= at[n + 1]
        OBVIOUS
      <3>1. n + 1 \in 1 .. N /\ (n + 1) - 1 = n /\ n <= N /\ n + 1 \in 0 .. N
        OBVIOUS
      <3>2. PICK a \in Nat, b \in Nat : a = at[n] /\ b = at[n + 1]
        BY <1>2, <3>1 DEF Laid
      <3>3. n <= a /\ b > a
        BY <1>2, <2>2, <3>1, <3>2
      <3> QED BY <3>2, <3>3
    <2> HIDE DEF T
    <2>3. N \in T
      BY <2>1, <2>2, Induct
    <2> QED BY <1>1, <2>3 DEF T
  <1> DEFINE start == [pos |-> 0, read |-> <<>>]
             Is(w) == w = [n \in 0 .. L |-> IF n = 0 THEN start ELSE WalkOn(program, reader, w[n - 1])]
             u == CHOOSE w : Is(w)
             Reached(n) == [pos |-> at[n], read |-> [i \in 1 .. n |-> writ[i]]]
             h == [n \in 0 .. L |-> IF n <= N THEN Reached(n) ELSE Reached(N)]
  <1>4. E!Walk(program, reader) = u[L].read
    BY <1>1 DEF E!Walk, WalkOn
  <1>5. Reached(0) = start
    BY <1>1
  <1>6. \A n \in 1 .. N : WalkOn(program, reader, Reached(n - 1)) = Reached(n)
    BY StepIs
  <1>7. WalkOn(program, reader, Reached(N)) = Reached(N)
    <2>1. Reached(N).pos = L
      BY <1>1
    <2> HIDE DEF Reached
    <2> QED BY <1>1, <2>1 DEF WalkOn
  <1> HIDE DEF Reached, start
  <1>8. Is(h)
    <2>1. ASSUME NEW n \in 0 .. L
          PROVE  h[n] = IF n = 0 THEN start ELSE WalkOn(program, reader, h[n - 1])
      <3>1. CASE n = 0
        BY <1>5, <3>1
      <3>2. CASE n # 0 /\ n <= N
        <4>1. n \in 1 .. N /\ n - 1 \in 0 .. L /\ n - 1 <= N
          BY <3>2
        <4>2. h[n] = Reached(n) /\ h[n - 1] = Reached(n - 1)
          BY <3>2, <4>1
        <4> HIDE DEF h
        <4> QED BY <1>6, <3>2, <4>1, <4>2
      <3>3. CASE ~(n <= N)
        <4>1. n - 1 \in 0 .. L /\ n # 0
          BY <3>3
        <4>2. h[n] = Reached(N)
          BY <3>3
        <4>3. h[n - 1] = Reached(N)
          <5>1. CASE n - 1 = N
            BY <4>1, <5>1
          <5>2. CASE n - 1 # N
            <6>1. ~(n - 1 <= N)
              BY <3>3, <5>2
            <6> QED BY <4>1, <6>1
          <5> QED BY <5>1, <5>2
        <4> HIDE DEF h
        <4> QED BY <1>7, <4>1, <4>2, <4>3
      <3> QED BY <3>1, <3>2, <3>3
    <2>2. h = [n \in 0 .. L |-> h[n]]
      OBVIOUS
    <2> HIDE DEF h
    <2> QED BY <2>1, <2>2
  <1>9. Is(u)
    <2> HIDE DEF Is
    <2> QED BY <1>8
  <1> HIDE DEF u
  <1> DEFINE T == {n \in Nat : n <= L => u[n] = h[n]}
  <1>10. 0 \in T
    <2>1. u[0] = start
      BY <1>9
    <2>2. h[0] = Reached(0)
      OBVIOUS
    <2> HIDE DEF h
    <2> QED BY <1>5, <2>1, <2>2
  <1>11. ASSUME NEW n \in Nat, n \in T PROVE n + 1 \in T
    <2> HIDE DEF h
    <2> SUFFICES ASSUME n + 1 <= L PROVE u[n + 1] = h[n + 1]
      OBVIOUS
    <2>1. n + 1 \in 0 .. L /\ n + 1 # 0 /\ (n + 1) - 1 = n /\ n <= L
      OBVIOUS
    <2>2. u[n + 1] = WalkOn(program, reader, u[n])
      BY <1>9, <2>1
    <2>3. h[n + 1] = WalkOn(program, reader, h[n])
      BY <1>8, <2>1
    <2> QED BY <1>11, <2>1, <2>2, <2>3
  <1>12. L \in T
    <2> HIDE DEF T, h
    <2> QED BY <1>10, <1>11, Induct
  <1>13. h[L] = Reached(N)
    <2>1. CASE L = N
      BY <2>1
    <2>2. CASE L # N
      <3>1. ~(L <= N)
        BY <1>3, <2>2
      <3> QED BY <3>1
    <2> QED BY <2>1, <2>2
  <1>14. u[L] = Reached(N)
    <2> HIDE DEF h
    <2> QED BY <1>12, <1>13
  <1>15. Reached(N).read = [i \in 1 .. N |-> writ[i]]
    BY DEF Reached
  <1>16. writ = [i \in 1 .. N |-> writ[i]]
    BY DEF AreWritten
  <1> QED BY <1>4, <1>14, <1>15, <1>16

LEMMA EmittedIs ==
  ASSUME Base \in Nat \ {0, 1}, NEW insts \in Seq(Ops \X Seq(Nat)), NEW N \in Nat, N = Len(insts),
         NEW writ, writ = [n \in 1 .. N |-> [op |-> insts[n][1], operands |-> insts[n][2]]],
         AreWritten(writ)
  PROVE  \E u : /\ u = E!Emitted(insts)
                /\ \A n \in 0 .. N : u[n] \in Seq(Cells)
                /\ Laid(u[N], writ, [n \in 0 .. N |-> Len(u[n])], N)
  <1>1. Len(writ) = N
    OBVIOUS
  <1>2. \A n \in 1 .. N : MadeOf(writ[n]) = E!Make(insts[n][1], insts[n][2])
    BY DEF MadeOf
  <1>3. \A n \in 1 .. N, y \in Seq(Cells) : y \o MadeOf(writ[n]) \in Seq(Cells)
    <2>1. ASSUME NEW n \in 1 .. N, NEW y \in Seq(Cells) PROVE y \o MadeOf(writ[n]) \in Seq(Cells)
      <3>1. PICK t \in Seq(Cells) : t = MadeOf(writ[n])
        BY <1>1, WrittenMakes
      <3>2. y \o t \in Seq(Cells)
        BY ConcatProperties
      <3> QED BY <3>1, <3>2
    <2> QED BY <2>1
  <1> DEFINE F == [p \in (1 .. N) \X Seq(Cells) |-> p[2] \o MadeOf(writ[p[1]])]
             Is(w) == w = [n \in 0 .. N |-> IF n = 0 THEN <<>>
                                            ELSE w[n - 1] \o E!Make(insts[n][1], insts[n][2])]
             u == CHOOSE w : Is(w)
  <1>4. /\ F \in [(1 .. N) \X Seq(Cells) -> Seq(Cells)]
        /\ \A n \in 1 .. N, y \in Seq(Cells) : F[<<n, y>>] = y \o MadeOf(writ[n])
    BY <1>3
  <1>5. E!Emitted(insts) = u
    BY DEF E!Emitted, E!emit
  <1> HIDE DEF F
  <1>6. PICK g \in [0 .. N -> Seq(Cells)] : Steps(g, N, <<>>, F)
    <2>1. <<>> \in Seq(Cells)
      OBVIOUS
    <2> QED BY <1>4, <2>1, StepsExist
  <1>7. Is(g)
    <2>1. ASSUME NEW n \in 0 .. N
          PROVE  g[n] = IF n = 0 THEN <<>> ELSE g[n - 1] \o E!Make(insts[n][1], insts[n][2])
      <3>1. CASE n = 0
        BY <1>6, <3>1 DEF Steps
      <3>2. CASE n # 0
        <4>1. n \in 1 .. N /\ n - 1 \in 0 .. N
          BY <3>2
        <4>2. g[n - 1] \in Seq(Cells)
          BY <4>1
        <4>3. g[n] = F[<<n, g[n - 1]>>]
          BY <1>6, <4>1 DEF Steps
        <4>4. F[<<n, g[n - 1]>>] = g[n - 1] \o MadeOf(writ[n])
          BY <1>4, <4>1, <4>2
        <4> QED BY <1>2, <3>2, <4>1, <4>3, <4>4
      <3> QED BY <3>1, <3>2
    <2>2. g = [n \in 0 .. N |-> g[n]]
      OBVIOUS
    <2> QED BY <2>1, <2>2
  <1>8. Is(u)
    <2> HIDE DEF Is
    <2> QED BY <1>7
  <1> HIDE DEF u
  <1>9. u[0] = <<>>
    BY <1>8
  <1>10. ASSUME NEW n \in 1 .. N PROVE u[n] = u[n - 1] \o MadeOf(writ[n])
    <2>1. n \in 0 .. N /\ n # 0
      OBVIOUS
    <2>2. u[n] = u[n - 1] \o E!Make(insts[n][1], insts[n][2])
      BY <1>8, <2>1
    <2> QED BY <1>2, <2>2
  <1>11. PICK v : v = u
    OBVIOUS
  <1>12. v[0] = <<>> /\ \A n \in 1 .. N : v[n] = v[n - 1] \o MadeOf(writ[n])
    BY <1>9, <1>10, <1>11
  <1>13. /\ \A n \in 0 .. N : v[n] \in Seq(Cells)
         /\ Laid(v[N], writ, [n \in 0 .. N |-> Len(v[n])], N)
    <2> HIDE DEF F
    <2> QED BY <1>1, <1>12, LaidBySteps
  <1> QED BY <1>5, <1>11, <1>13

LEMMA LaidGrows ==
  ASSUME Base \in Nat \ {0, 1}, NEW writ, AreWritten(writ), NEW N \in Nat, N = Len(writ),
         NEW program, NEW at, Laid(program, writ, at, N), NEW m \in 0 .. N
  PROVE  \A n \in 0 .. N : m <= n => at[m] <= at[n]
  <1> DEFINE T == {n \in Nat : n <= N /\ m <= n => at[m] <= at[n]}
  <1>1. \A n \in 0 .. N : at[n] \in Nat
    BY DEF Laid
  <1>2. 0 \in T
    <2>1. m <= 0 => m = 0
      OBVIOUS
    <2> QED BY <1>1, <2>1
  <1>3. ASSUME NEW n \in Nat, n \in T PROVE n + 1 \in T
    <2> SUFFICES ASSUME n + 1 <= N, m <= n + 1 PROVE at[m] <= at[n + 1]
      OBVIOUS
    <2>1. n + 1 \in 1 .. N /\ (n + 1) - 1 = n /\ n <= N /\ n \in 0 .. N /\ n + 1 \in 0 .. N
      OBVIOUS
    <2>2. PICK a \in Nat, b \in Nat, c \in Nat, size \in Nat :
            a = at[m] /\ b = at[n] /\ c = at[n + 1] /\ size = Size(writ[n + 1].op)
      <3>1. Size(writ[n + 1].op) \in Nat
        BY <2>1, WrittenMakes
      <3> QED BY <1>1, <2>1, <3>1
    <2>3. c = b + size
      BY <2>1, <2>2 DEF Laid
    <2>4. CASE m = n + 1
      BY <2>2, <2>4
    <2>5. CASE m # n + 1
      <3>1. m <= n
        BY <2>5
      <3>2. a <= b
        BY <1>3, <2>1, <2>2, <3>1
      <3> QED BY <2>2, <2>3, <3>2
    <2> QED BY <2>4, <2>5
  <1> HIDE DEF T
  <1>4. \A n \in Nat : n \in T
    BY <1>2, <1>3, Induct
  <1> QED BY <1>4 DEF T

(* The same instructions, of which one has another operand.                *)
Retargets(new, writ, N, j, target) ==
  /\ new = [n \in 1 .. N |-> new[n]]
  /\ new[j] = [op |-> writ[j].op, operands |-> <<target>>]
  /\ \A n \in 1 .. N : n # j => new[n] = writ[n]

LEMMA PatchedIs ==
  ASSUME Base \in Nat \ {0, 1}, NEW writ, AreWritten(writ), NEW N \in Nat, N = Len(writ),
         NEW program, NEW at, Laid(program, writ, at, N),
         NEW j \in 1 .. N, writ[j].op \in E!Jumping, NEW target \in Nat,
         NEW new, Retargets(new, writ, N, j, target)
  PROVE  AreWritten(new) /\ Laid(E!changeOperand(program, at[j - 1], target), new, at, N)
  <1>1. PICK op \in Ops : op = writ[j].op /\ E!OperandWidths(op) = <<4>>
    BY WrittenMakes, WidthsAgree
  <1>2. PICK operands \in Seq(Nat) : operands = <<target>> /\ Len(operands) = 1
    <2>1. <<target>> \in Seq(Nat) /\ Len(<<target>>) = 1
      OBVIOUS
    <2> QED BY <2>1
  <1>3. Len(new) = N
    BY DEF Retargets
  <1>4. AreWritten(new)
    <2>1. ASSUME NEW n \in 1 .. N
          PROVE  /\ new[n] \in [op : Ops, operands : Seq(Nat)]
                 /\ Len(new[n].operands) = Len(E!OperandWidths(new[n].op))
      <3>1. CASE n = j
        <4>1. new[n] = [op |-> op, operands |-> operands]
          BY <1>1, <1>2, <3>1 DEF Retargets
        <4>2. Len(<<4>>) = 1
          OBVIOUS
        <4> QED BY <1>1, <1>2, <4>1, <4>2
      <3>2. CASE n # j
        <4>1. new[n] = writ[n]
          BY <3>2 DEF Retargets
        <4>2. PICK o \in Ops, l \in Seq(Nat) :
                writ[n] = [op |-> o, operands |-> l] /\ Len(l) = Len(E!OperandWidths(o))
          <5>1. PICK o, l : o = writ[n].op /\ l = writ[n].operands
            OBVIOUS
          <5>2. /\ o \in Ops /\ l \in Seq(Nat)
                /\ writ[n] = [op |-> o, operands |-> l] /\ Len(l) = Len(E!OperandWidths(o))
            BY <5>1, WrittenMakes
          <5> QED BY <5>2
        <4> QED BY <4>1, <4>2
      <3> QED BY <3>1, <3>2
    <2>2. PICK S : S = [op : Ops, operands : Seq(Nat)]
      OBVIOUS
    <2>3. new \in [1 .. N -> S]
      BY <2>1, <2>2 DEF Retargets
    <2>4. new \in Seq(S)
      <3>1. \A f \in [1 .. N -> S] : f \in Seq(S)
        OBVIOUS
      <3> QED BY <2>3, <3>1
    <2> QED BY <1>3, <2>1, <2>2, <2>4 DEF AreWritten
  <1>5. PICK m \in Seq(Cells), size \in Nat \ {0} :
          m = E!Make(op, operands) /\ size = Size(op) /\ Len(m) = size
    <2>1. MadeOf(new[j]) = E!Make(op, operands) /\ new[j].op = op
      BY <1>1, <1>2 DEF MadeOf, Retargets
    <2>2. j \in 1 .. Len(new)
      BY <1>3
    <2>3. /\ MadeOf(new[j]) \in Seq(Cells) /\ Len(MadeOf(new[j])) = Size(new[j].op)
          /\ Size(new[j].op) \in Nat \ {0}
      BY <1>4, <2>2, WrittenMakes
    <2> QED BY <2>1, <2>3
  <1>6. PICK pos \in Nat, L \in Nat : pos = at[j - 1] /\ L = Len(program)
    <2>1. j - 1 \in 0 .. N
      OBVIOUS
    <2>2. program \in Seq(Cells) /\ at[j - 1] \in Nat
      BY <2>1 DEF Laid
    <2>3. Len(program) \in Nat
      BY <2>2
    <2> QED BY <2>2, <2>3
  <1>7. program \in Seq(Cells) /\ at[j] = pos + size /\ pos + size <= L
    BY <1>1, <1>5, <1>6 DEF Laid
  <1>8. program[pos + 1] = op
    <2>1. MadeOf(writ[j])[1] = op
      BY <1>1, WrittenMakes
    <2>2. 1 \in 1 .. Size(writ[j].op)
      BY <1>1, <1>5
    <2> QED BY <1>6, <2>1, <2>2 DEF Laid
  <1> DEFINE r == [k \in 1 .. L |-> IF k - pos \in 1 .. size THEN m[k - pos] ELSE program[k]]
  <1>9. E!changeOperand(program, at[j - 1], target) = r
    <2>1. DOMAIN program = 1 .. L /\ DOMAIN m = 1 .. size
      BY <1>5, <1>6, <1>7
    <2>2. E!changeOperand(program, pos, target) = E!replaceInstruction(program, pos, m)
      BY <1>2, <1>5, <1>8 DEF E!changeOperand
    <2> QED BY <1>6, <2>1, <2>2 DEF E!replaceInstruction
  <1>10. r \in Seq(Cells) /\ Len(r) = L
    <2>1. ASSUME NEW k \in 1 .. L PROVE r[k] \in Cells
      <3>1. CASE k - pos \in 1 .. size
        <4>1. m[k - pos] \in Cells
          BY <1>5, <3>1
        <4> QED BY <3>1, <4>1
      <3>2. CASE k - pos \notin 1 .. size
        <4>1. program[k] \in Cells
          BY <1>6, <1>7
        <4> QED BY <3>2, <4>1
      <3> QED BY <3>1, <3>2
    <2>2. r \in [1 .. L -> Cells]
      BY <2>1
    <2> HIDE DEF r
    <2> QED BY <2>2
  <1>11. ASSUME NEW n \in 1 .. N, NEW k \in 1 .. Size(writ[n].op)
         PROVE  r[at[n - 1] + k] = MadeOf(new[n])[k]
    <2>1. PICK b \in Nat, s \in Nat \ {0} : b = at[n - 1] /\ s = Size(writ[n].op)
      <3>1. n - 1 \in 0 .. N
        OBVIOUS
      <3>2. at[n - 1] \in Nat
        BY <3>1 DEF Laid
      <3> QED BY <3>2, WrittenMakes
    <2>2. at[n] = b + s /\ b + s <= L /\ program[b + k] = MadeOf(writ[n])[k]
      BY <1>6, <2>1 DEF Laid
    <2>3. k \in 1 .. s /\ b + k \in 1 .. L
      BY <2>1, <2>2
    <2>4. CASE n = j
      <3>1. b = pos /\ s = size
        BY <1>1, <1>5, <1>6, <2>1, <2>4
      <3>2. (b + k) - pos = k /\ k \in 1 .. size
        BY <2>3, <3>1
      <3>3. r[b + k] = m[k]
        BY <2>3, <3>2
      <3>4. MadeOf(new[n]) = m
        BY <1>1, <1>2, <1>5, <2>4 DEF MadeOf, Retargets
      <3> QED BY <2>1, <3>3, <3>4
    <2>5. CASE n # j
      <3>1. (b + k) - pos \notin 1 .. size
        <4>1. CASE n < j
          <5>1. n \in 0 .. N /\ j - 1 \in 0 .. N /\ n <= j - 1
            BY <4>1
          <5>2. at[n] <= at[j - 1]
            BY <5>1, LaidGrows
          <5>3. b + s <= pos
            BY <1>6, <2>2, <5>2
          <5> QED BY <2>3, <5>3
        <4>2. CASE n > j
          <5>1. j \in 0 .. N /\ n - 1 \in 0 .. N /\ j <= n - 1
            BY <4>2
          <5>2. at[j] <= at[n - 1]
            BY <5>1, LaidGrows
          <5>3. pos + size <= b
            BY <1>7, <2>1, <5>2
          <5> QED BY <2>3, <5>3
        <4> QED BY <2>5, <4>1, <4>2
      <3>2. r[b + k] = program[b + k]
        BY <2>3, <3>1
      <3>3. new[n] = writ[n]
        BY <2>5 DEF Retargets
      <3> QED BY <2>1, <2>2, <3>2, <3>3
    <2> QED BY <2>4, <2>5
  <1>12. ASSUME NEW n \in 1 .. N PROVE new[n].op = writ[n].op
    <2>1. CASE n = j
      BY <1>1, <2>1 DEF Retargets
    <2>2. CASE n # j
      BY <2>2 DEF Retargets
    <2> QED BY <2>1, <2>2
  <1> HIDE DEF r
  <1>13. Laid(r, new, at, N)
    BY <1>6, <1>10, <1>11, <1>12 DEF Laid
  <1> QED BY <1>4, <1>9, <1>13

(* Instructions are read as they are written, with the target of the jump. *)
LEMMA ListingMeans ==
  ASSUME Base \in Nat \ {0, 1}, NEW q, IsListing(q), NEW reader
  PROVE  E!Walk(E!Patched(q.instructions, q.jump, q.target), reader) = Written(q)
  <1>1. PICK insts \in Seq(Ops \X Seq(Nat)) : insts = q.instructions
    <2>1. PICK S, T : S = (STRING \ E!Misread) \X Seq(Nat) /\ T = Ops \X Seq(Nat)
      OBVIOUS
    <2>2. S \subseteq T
      BY <2>1 DEF Ops
    <2>3. \A s \in Seq(S) : s \in Seq(T)
      BY <2>2
    <2>4. q.instructions \in Seq(S)
      BY <2>1 DEF IsListing
    <2> QED BY <2>1, <2>3, <2>4
  <1>2. PICK j : j = q.jump
    OBVIOUS
  <1>3. PICK N \in Nat : N = Len(insts) /\ DOMAIN insts = 1 .. N
    BY <1>1
  <1>4. j \in 1 .. N /\ insts[j][1] \in E!Jumping
    BY <1>1, <1>3, <1>2 DEF IsListing
  <1>5. \A n \in 1 .. N : insts[n][1] \in Ops /\ insts[n][2] \in Seq(Nat)
    <2>1. \A n \in 1 .. N : insts[n] \in Ops \X Seq(Nat)
      BY <1>3
    <2> QED BY <2>1
  <1>6. \A n \in 1 .. N : Len(insts[n][2]) = Len(E!OperandWidths(insts[n][1]))
    BY <1>1, <1>3 DEF IsListing
  <1>7. PICK target : target = q.target
    OBVIOUS
  <1>8. PICK writ : writ = [n \in 1 .. N |-> [op |-> insts[n][1], operands |-> insts[n][2]]]
    OBVIOUS
  <1>9. /\ Len(writ) = N
        /\ \A n \in 1 .. N : /\ writ[n] = [op |-> insts[n][1], operands |-> insts[n][2]]
                             /\ writ[n].op = insts[n][1] /\ writ[n].operands = insts[n][2]
    BY <1>8
  <1>10. AreWritten(writ)
    <2>1. PICK S : S = [op : Ops, operands : Seq(Nat)]
      OBVIOUS
    <2>2. ASSUME NEW n \in 1 .. N PROVE writ[n] \in S
      <3>1. PICK o \in Ops, l \in Seq(Nat) : o = insts[n][1] /\ l = insts[n][2]
        BY <1>5
      <3>2. writ[n] = [op |-> o, operands |-> l]
        BY <1>9, <3>1
      <3> QED BY <2>1, <3>2
    <2>3. writ \in [1 .. N -> S]
      BY <1>8, <2>2
    <2>4. writ \in Seq(S)
      <3>1. \A f \in [1 .. N -> S] : f \in Seq(S)
        OBVIOUS
      <3> QED BY <2>3, <3>1
    <2> QED BY <1>6, <1>9, <2>1, <2>4 DEF AreWritten
  <1>11. PICK u : /\ u = E!Emitted(insts)
                  /\ \A n \in 0 .. N : u[n] \in Seq(Cells)
                  /\ Laid(u[N], writ, [n \in 0 .. N |-> Len(u[n])], N)
    BY <1>3, <1>8, <1>10, EmittedIs
  <1>12. PICK at : at = [n \in 0 .. N |-> Len(u[n])]
    OBVIOUS
  <1>13. PICK new : new = Written(q)
    OBVIOUS
  <1>14. new = [n \in 1 .. N |-> [op |-> insts[n][1],
                                  operands |-> IF n = j THEN <<target>> ELSE insts[n][2]]]
    BY <1>1, <1>3, <1>7, <1>13, <1>2 DEF Written
  <1>15. Len(new) = N
    BY <1>14
  <1>16. /\ Retargets(new, writ, N, j, target)
         /\ \A n \in 1 .. N : new[n].op = insts[n][1]
    <2>1. new = [n \in 1 .. N |-> new[n]]
      BY <1>14
    <2>2. new[j] = [op |-> insts[j][1], operands |-> <<target>>]
      BY <1>4, <1>14
    <2>3. \A n \in 1 .. N : n # j => new[n] = [op |-> insts[n][1], operands |-> insts[n][2]]
      BY <1>14
    <2>4. \A n \in 1 .. N : new[n].op = insts[n][1]
      BY <1>14
    <2> QED BY <1>4, <1>9, <2>1, <2>2, <2>3, <2>4 DEF Retargets
  <1>17. \A n \in 1 .. N : FitIn(new[n].operands, E!OperandWidths(new[n].op))
    <2>1. ASSUME NEW n \in 1 .. N PROVE FitIn(new[n].operands, E!OperandWidths(new[n].op))
      <3>1. PICK w : w = E!OperandWidths(insts[n][1])
        OBVIOUS
      <3>2. w \in Seq(Nat)
        BY <1>5, <3>1, WidthsAgree
      <3>3. \A k \in DOMAIN w : E!Fits(new[n].operands[k], w[k])
        BY <1>1, <1>3, <1>13, <3>1 DEF IsListing
      <3>4. DOMAIN w = 1 .. Len(w)
        BY <3>2
      <3> QED BY <1>16, <3>1, <3>3, <3>4 DEF FitIn
    <2> QED BY <2>1
  <1>18. target \in Nat
    <2>1. E!OperandWidths(new[j].op) = <<4>>
      BY <1>4, <1>5, <1>16, WidthsAgree
    <2>2. Len(<<4>>) = 1 /\ <<4>>[1] = 4 /\ 1 \in 1 .. 1
      OBVIOUS
    <2>3. E!Fits(new[j].operands[1], 4)
      BY <1>4, <1>17, <2>1, <2>2 DEF FitIn
    <2>4. new[j].operands[1] = target
      BY <1>4, <1>14
    <2> QED BY <2>3, <2>4 DEF E!Fits
  <1>19. PICK p : p = E!changeOperand(u[N], at[j - 1], target)
    OBVIOUS
  <1>20. AreWritten(new) /\ Laid(p, new, at, N)
    <2>1. writ[j].op \in E!Jumping /\ Laid(u[N], writ, at, N)
      BY <1>4, <1>9, <1>11, <1>12
    <2> QED BY <1>4, <1>9, <1>10, <1>16, <1>18, <1>19, <2>1, PatchedIs
  <1>21. E!Patched(q.instructions, q.jump, q.target) = p
    <2>1. j - 1 \in 0 .. N
      BY <1>4
    <2>2. at[j - 1] = Len(u[j - 1])
      BY <1>12, <2>1
    <2> QED BY <1>1, <1>3, <1>7, <1>11, <1>19, <1>2, <2>2 DEF E!Patched
  <1>22. AllFit(new)
    BY <1>15, <1>17 DEF AllFit
  <1>23. E!Walk(p, reader) = new
    BY <1>15, <1>20, <1>22, WalkIs
  <1> QED BY <1>13, <1>21, <1>23

-------------------------------------------------------------------------------
(* Names.  A number below Base * Base fits in two bytes.                   *)
LEMMA TwoBytes ==
  ASSUME Base \in Nat \ {0, 1}, NEW o \in Nat, o < Base * Base
  PROVE  E!Fits(o, 2)
  <1>1. PICK b \in Nat \ {0} : b = Base
    OBVIOUS
  <1>2. PICK d \in Nat : d = o \div b
    OBVIOUS
  <1>3. b * d <= o
    BY <1>2
  <1>4. d < b
    <2>1. SUFFICES ASSUME d >= b PROVE FALSE
      BY <1>1
    <2>2. PICK e \in Nat : d = b + e
      <3>1. d - b \in Nat /\ d = b + (d - b)
        BY <2>1
      <3> QED BY <3>1
    <2>3. b * d = b * b + b * e /\ b * e \in Nat /\ b * b \in Nat
      BY <2>2
    <2> QED BY <1>1, <1>3, <2>3
  <1>5. d \div b = 0
    BY <1>4
  <1>6. /\ E!Shifted(o, 2)[0] = o
        /\ E!Shifted(o, 2)[1] = E!Shifted(o, 2)[1 - 1] \div Base
        /\ E!Shifted(o, 2)[2] = E!Shifted(o, 2)[2 - 1] \div Base
    <2>1. 2 \in Nat /\ 1 \in 1 .. 2 /\ 2 \in 1 .. 2
      OBVIOUS
    <2> QED BY <2>1, ShiftedIs
  <1>7. 1 - 1 = 0 /\ 2 - 1 = 1
    OBVIOUS
  <1>8. E!Shifted(o, 2)[2] = 0
    BY <1>1, <1>2, <1>5, <1>6, <1>7
  <1> QED BY <1>8 DEF E!Fits

Distinct(names) == \A i, k \in 1 .. Len(names) : names[i] = names[k] => i = k

Holds(names, v) == \E i \in 1 .. Len(names) : names[i] = v

Longer(next, names) ==
  Len(names) <= Len(next) /\ \A i \in 1 .. Len(names) : next[i] = names[i]

LEMMA NameAdded ==
  ASSUME NEW V, NEW names \in Seq(V), NEW v \in V
  PROVE  /\ E!addName(names, v) \in Seq(V)
         /\ Longer(E!addName(names, v), names)
         /\ Holds(E!addName(names, v), v)
         /\ Distinct(names) => Distinct(E!addName(names, v))
  <1>1. PICK n \in Nat : n = Len(names) /\ DOMAIN names = 1 .. n
    OBVIOUS
  <1>2. E!ToSet(names) = {names[i] : i \in 1 .. n}
    BY <1>1 DEF E!ToSet
  <1>3. CASE v \in E!ToSet(names)
    <2>1. E!addName(names, v) = names
      BY <1>3 DEF E!addName
    <2>2. Holds(names, v)
      BY <1>1, <1>2, <1>3 DEF Holds
    <2>3. Longer(names, names)
      BY <1>1 DEF Longer
    <2> QED BY <2>1, <2>2, <2>3
  <1>4. CASE v \notin E!ToSet(names)
    <2>1. PICK next : next = Append(names, v)
      OBVIOUS
    <2>2. E!addName(names, v) = next
      BY <1>4, <2>1 DEF E!addName
    <2>3. next \in Seq(V) /\ Len(next) = n + 1 /\ \A i \in 1 .. n : next[i] = names[i]
      BY <1>1, <2>1, AppendProperties
    <2>4. next[n + 1] = v /\ n + 1 \in 1 .. n + 1
      BY <1>1, <2>1, AppendProperties
    <2>5. \A i \in 1 .. n : names[i] # v
      BY <1>2, <1>4
    <2>6. ASSUME Distinct(names), NEW i \in 1 .. n + 1, NEW k \in 1 .. n + 1, next[i] = next[k]
          PROVE  i = k
      <3>1. CASE i \in 1 .. n /\ k \in 1 .. n
        <4>1. names[i] = names[k]
          BY <2>3, <2>6, <3>1
        <4> QED BY <1>1, <2>6, <3>1, <4>1 DEF Distinct
      <3>2. CASE i = n + 1 /\ k \in 1 .. n
        BY <2>3, <2>4, <2>5, <2>6, <3>2
      <3>3. CASE k = n + 1 /\ i \in 1 .. n
        BY <2>3, <2>4, <2>5, <2>6, <3>3
      <3>4. CASE i = n + 1 /\ k = n + 1
        BY <3>4
      <3> QED BY <3>1, <3>2, <3>3, <3>4
    <2>7. Distinct(names) => Distinct(next)
      BY <2>3, <2>6 DEF Distinct
    <2>8. Holds(next, v)
      BY <2>3, <2>4 DEF Holds
    <2>9. Longer(next, names)
      BY <1>1, <2>3 DEF Longer
    <2> QED BY <2>2, <2>3, <2>7, <2>8, <2>9
  <1> QED BY <1>3, <1>4

LEMMA IndexIs ==
  ASSUME NEW V, NEW names \in Seq(V), NEW v, Holds(names, v)
  PROVE  /\ E!IndexOf(names, v) \in Nat
         /\ E!IndexOf(names, v) + 1 \in 1 .. Len(names)
         /\ names[E!IndexOf(names, v) + 1] = v
  <1>1. PICK S : S = {i \in DOMAIN names : names[i] = v}
    OBVIOUS
  <1>2. S \in SUBSET Nat /\ S # {} /\ \A i \in S : i \in 1 .. Len(names) /\ names[i] = v
    BY <1>1 DEF Holds
  <1>3. \E m \in S : \A n \in S : m <= n
    BY <1>2, Least
  <1>4. PICK m : m = E!Min(S)
    OBVIOUS
  <1>5. m \in S
    BY <1>3, <1>4 DEF E!Min
  <1>6. E!IndexOf(names, v) = m - 1
    BY <1>1, <1>4 DEF E!IndexOf
  <1>7. m \in 1 .. Len(names) /\ names[m] = v /\ m \in Nat
    BY <1>2, <1>5
  <1>8. m - 1 \in Nat /\ (m - 1) + 1 = m
    BY <1>7
  <1> QED BY <1>6, <1>7, <1>8

LEMMA FewNames ==
  ASSUME NEW V, IsFiniteSet(V), NEW names \in Seq(V), Distinct(names)
  PROVE  Len(names) <= Cardinality(V)
  <1>1. PICK n \in Nat : n = Len(names)
    OBVIOUS
  <1>2. names \in [1 .. n -> V]
    BY <1>1
  <1>3. \A i, k \in 1 .. n : names[i] = names[k] => i = k
    BY <1>1 DEF Distinct
  <1>4. names \in Injection(1 .. n, V)
    BY <1>2, <1>3 DEF Injection, IsInjective
  <1>5. Cardinality(1 .. n) = n
    BY FS_Interval
  <1> QED BY <1>1, <1>4, <1>5, FS_Injection

(* The names after each mention: none is lost, moved or there twice.       *)
NamedBy(g, q, N, V) ==
  /\ g[0] = <<>>
  /\ \A n \in 1 .. N : g[n] = E!addName(g[n - 1], q[n])
  /\ \A n \in 0 .. N : g[n] \in Seq(V)

LEMMA NamesStay ==
  ASSUME NEW V, NEW q \in Seq(V), NEW N \in Nat, N = Len(q), NEW g, NamedBy(g, q, N, V)
  PROVE  /\ Distinct(g[N])
         /\ \A n \in 1 .. N : Holds(g[n], q[n])
         /\ \A n \in 0 .. N : Longer(g[N], g[n])
  <1>1. \A n \in 1 .. N : q[n] \in V
    OBVIOUS
  <1>2. ASSUME NEW n \in 1 .. N
        PROVE  /\ Longer(g[n], g[n - 1]) /\ Holds(g[n], q[n])
               /\ Distinct(g[n - 1]) => Distinct(g[n])
    <2>1. n - 1 \in 0 .. N
      OBVIOUS
    <2>2. PICK s \in Seq(V), v \in V : s = g[n - 1] /\ v = q[n]
      BY <1>1, <2>1 DEF NamedBy
    <2>3. g[n] = E!addName(s, v)
      BY <2>2 DEF NamedBy
    <2>4. /\ Longer(E!addName(s, v), s) /\ Holds(E!addName(s, v), v)
          /\ Distinct(s) => Distinct(E!addName(s, v))
      BY NameAdded
    <2> QED BY <2>2, <2>3, <2>4
  <1>3. Distinct(g[N])
    <2> DEFINE T == {n \in Nat : n <= N => Distinct(g[n])}
    <2>1. 0 \in T
      <3>1. g[0] = <<>> /\ Len(<<>>) = 0
        BY DEF NamedBy
      <3> QED BY <3>1 DEF Distinct
    <2>2. ASSUME NEW n \in Nat, n \in T PROVE n + 1 \in T
      <3>1. n + 1 <= N => n + 1 \in 1 .. N /\ (n + 1) - 1 = n /\ n <= N
        OBVIOUS
      <3> QED BY <1>2, <2>2, <3>1
    <2> HIDE DEF T
    <2>3. N \in T
      BY <2>1, <2>2, Induct
    <2> QED BY <2>3 DEF T
  <1>4. ASSUME NEW m \in 0 .. N PROVE Longer(g[N], g[m])
    <2> DEFINE T == {n \in Nat : m <= n /\ n <= N => Longer(g[n], g[m])}
    <2>1. PICK s \in Seq(V) : s = g[m]
      BY DEF NamedBy
    <2>2. Longer(s, s)
      BY DEF Longer
    <2>3. 0 \in T
      <3>1. m <= 0 => m = 0
        OBVIOUS
      <3> QED BY <2>1, <2>2, <3>1
    <2>4. ASSUME NEW n \in Nat, n \in T PROVE n + 1 \in T
      <3> SUFFICES ASSUME m <= n + 1, n + 1 <= N PROVE Longer(g[n + 1], g[m])
        OBVIOUS
      <3>1. CASE m = n + 1
        BY <2>1, <2>2, <3>1
      <3>2. CASE m # n + 1
        <4>1. m <= n /\ n <= N /\ n + 1 \in 1 .. N /\ (n + 1) - 1 = n /\ n \in 0 .. N /\ n + 1 \in 0 .. N
          BY <3>2
        <4>2. PICK x \in Seq(V), y \in Seq(V) : x = g[n] /\ y = g[n + 1]
          BY <4>1 DEF NamedBy
        <4>3. Longer(x, s) /\ Longer(y, x)
          BY <1>2, <2>1, <2>4, <4>1, <4>2
        <4>4. \A i \in 1 .. Len(s) : i \in 1 .. Len(x)
          BY <4>3 DEF Longer
        <4>5. Longer(y, s)
          BY <4>3, <4>4 DEF Longer
        <4> QED BY <2>1, <4>2, <4>5
      <3> QED BY <3>1, <3>2
    <2> HIDE DEF T
    <2>5. N \in T
      BY <2>3, <2>4, Induct
    <2> QED BY <2>5 DEF T
  <1> QED BY <1>2, <1>3, <1>4

LEMMA NamesExist ==
  ASSUME NEW V, NEW q \in Seq(V), NEW N \in Nat, N = Len(q)
  PROVE  \E g : NamedBy(g, q, N, V)
  <1> DEFINE F == [p \in (1 .. N) \X Seq(V) |-> E!addName(p[2], q[p[1]])]
  <1>1. \A n \in 1 .. N, y \in Seq(V) : E!addName(y, q[n]) \in Seq(V)
    <2>1. \A n \in 1 .. N : q[n] \in V
      OBVIOUS
    <2> QED BY <2>1, NameAdded
  <1>2. /\ F \in [(1 .. N) \X Seq(V) -> Seq(V)]
        /\ \A n \in 1 .. N, y \in Seq(V) : F[<<n, y>>] = E!addName(y, q[n])
    BY <1>1
  <1> HIDE DEF F
  <1>3. PICK g \in [0 .. N -> Seq(V)] : Steps(g, N, <<>>, F)
    <2>1. <<>> \in Seq(V)
      OBVIOUS
    <2> QED BY <1>2, <2>1, StepsExist
  <1>4. ASSUME NEW n \in 1 .. N PROVE g[n] = E!addName(g[n - 1], q[n])
    <2>1. n - 1 \in 0 .. N
      OBVIOUS
    <2>2. g[n - 1] \in Seq(V)
      BY <2>1
    <2> QED BY <1>2, <1>3, <2>2 DEF Steps
  <1> QED BY <1>3, <1>4 DEF NamedBy, Steps

LEMMA GlobalIs == "OpGetGlobal" \in Ops /\ E!OperandWidths("OpGetGlobal") = <<2>>
  <1>1. "OpGetGlobal" \in Ops
    <2>1. "OpGetGlobal" \in E!Indexed
      BY DEF E!Indexed
    <2>2. "OpGetGlobal" \notin E!Misread
      BY DEF E!Misread
    <2> QED BY <2>1, <2>2 DEF Ops
  <1>2. E!OperandWidths("OpGetGlobal") = <<2>>
    BY DEF E!OperandWidths, E!Indexed, E!Jumping, E!Calling
  <1> QED BY <1>1, <1>2

(* What is written of mentions, with the names that there are in the end.  *)
LEMMA MentionedIs ==
  ASSUME Base \in Nat \ {0, 1}, NEW V, NEW q \in Seq(V), NEW N \in Nat, N = Len(q),
         NEW g, NamedBy(g, q, N, V),
         NEW writ, writ = [n \in 1 .. N |-> [op |-> "OpGetGlobal",
                                             operands |-> <<E!IndexOf(g[n], q[n])>>]]
  PROVE  /\ AreWritten(writ)
         /\ E!Mentioned(q).names = g[N]
         /\ \E at : Laid(E!Mentioned(q).program, writ, at, N)
  <1>1. "OpGetGlobal" \in Ops /\ E!OperandWidths("OpGetGlobal") = <<2>>
    BY GlobalIs
  <1>2. ASSUME NEW n \in 1 .. N PROVE E!IndexOf(g[n], q[n]) \in Nat
    <2>1. g[n] \in Seq(V) /\ Holds(g[n], q[n])
      <3>1. n \in 0 .. N
        OBVIOUS
      <3> QED BY <3>1, NamesStay DEF NamedBy
    <2> QED BY <2>1, IndexIs
  <1>3. /\ Len(writ) = N
        /\ \A n \in 1 .. N : writ[n] = [op |-> "OpGetGlobal", operands |-> <<E!IndexOf(g[n], q[n])>>]
    OBVIOUS
  <1>4. AreWritten(writ)
    <2>1. PICK S : S = [op : Ops, operands : Seq(Nat)]
      OBVIOUS
    <2>2. ASSUME NEW n \in 1 .. N
          PROVE  writ[n] \in S /\ Len(writ[n].operands) = Len(E!OperandWidths(writ[n].op))
      <3>1. PICK k \in Nat : k = E!IndexOf(g[n], q[n])
        BY <1>2
      <3>2. <<k>> \in Seq(Nat) /\ Len(<<k>>) = 1 /\ Len(<<2>>) = 1
        OBVIOUS
      <3>3. PICK l \in Seq(Nat) : l = <<k>> /\ Len(l) = 1
        BY <3>2
      <3>4. writ[n] = [op |-> "OpGetGlobal", operands |-> l]
        BY <1>3, <3>1, <3>3
      <3> QED BY <1>1, <2>1, <3>2, <3>3, <3>4
    <2>3. writ \in [1 .. N -> S]
      BY <2>2
    <2>4. writ \in Seq(S)
      <3>1. \A f \in [1 .. N -> S] : f \in Seq(S)
        OBVIOUS
      <3> QED BY <2>3, <3>1
    <2> QED BY <1>3, <2>1, <2>2, <2>4 DEF AreWritten
  <1>5. \A n \in 1 .. N : MadeOf(writ[n]) = E!Make("OpGetGlobal", <<E!IndexOf(g[n], q[n])>>)
    BY <1>3 DEF MadeOf
  <1>6. PICK s : s[0] = <<>> /\ \A n \in 1 .. N : s[n] = s[n - 1] \o MadeOf(writ[n])
    <2> DEFINE F == [p \in (1 .. N) \X Seq(Cells) |-> p[2] \o MadeOf(writ[p[1]])]
    <2>1. ASSUME NEW n \in 1 .. N, NEW y \in Seq(Cells) PROVE y \o MadeOf(writ[n]) \in Seq(Cells)
      <3>1. PICK t \in Seq(Cells) : t = MadeOf(writ[n])
        BY <1>3, <1>4, WrittenMakes
      <3>2. y \o t \in Seq(Cells)
        BY ConcatProperties
      <3> QED BY <3>1, <3>2
    <2>2. /\ F \in [(1 .. N) \X Seq(Cells) -> Seq(Cells)]
          /\ \A n \in 1 .. N, y \in Seq(Cells) : F[<<n, y>>] = y \o MadeOf(writ[n])
      BY <2>1
    <2> HIDE DEF F
    <2>3. PICK h \in [0 .. N -> Seq(Cells)] : Steps(h, N, <<>>, F)
      <3>1. <<>> \in Seq(Cells)
        OBVIOUS
      <3> QED BY <2>2, <3>1, StepsExist
    <2>4. ASSUME NEW n \in 1 .. N PROVE h[n] = h[n - 1] \o MadeOf(writ[n])
      <3>1. n - 1 \in 0 .. N
        OBVIOUS
      <3>2. h[n - 1] \in Seq(Cells)
        BY <3>1
      <3> QED BY <2>2, <2>3, <3>2 DEF Steps
    <2> QED BY <2>3, <2>4 DEF Steps
  <1>7. Laid(s[N], writ, [n \in 0 .. N |-> Len(s[n])], N)
    BY <1>3, <1>4, <1>6, LaidBySteps
  <1> DEFINE After(last, v) == LET names == E!addName(last.names, v)
                               IN  [names |-> names,
                                    program |-> E!emit(last.program, "OpGetGlobal", <<E!IndexOf(names, v)>>)]
             start == [names |-> <<>>, program |-> <<>>]
             Is(w) == w = [n \in 0 .. N |-> IF n = 0 THEN start ELSE After(w[n - 1], q[n])]
             u == CHOOSE w : Is(w)
             h == [n \in 0 .. N |-> [names |-> g[n], program |-> s[n]]]
  <1>8. E!Mentioned(q) = u[N]
    BY DEF E!Mentioned
  <1>9. \A n \in 0 .. N : h[n] = [names |-> g[n], program |-> s[n]] /\ h[n].names = g[n] /\ h[n].program = s[n]
    OBVIOUS
  <1>10. h = [n \in 0 .. N |-> h[n]]
    OBVIOUS
  <1> HIDE DEF h
  <1>11. h[0] = start
    BY <1>6, <1>9 DEF NamedBy
  <1>12. ASSUME NEW n \in 1 .. N PROVE h[n] = After(h[n - 1], q[n])
    <2>1. n - 1 \in 0 .. N /\ n \in 0 .. N
      OBVIOUS
    <2>2. g[n] = E!addName(h[n - 1].names, q[n])
      BY <1>9, <2>1 DEF NamedBy
    <2>3. s[n] = E!emit(h[n - 1].program, "OpGetGlobal", <<E!IndexOf(g[n], q[n])>>)
      BY <1>5, <1>6, <1>9, <2>1 DEF E!emit
    <2> QED BY <1>9, <2>1, <2>2, <2>3
  <1> HIDE DEF After, start
  <1>13. Is(h)
    <2>1. ASSUME NEW n \in 0 .. N PROVE h[n] = IF n = 0 THEN start ELSE After(h[n - 1], q[n])
      <3>1. n # 0 => n \in 1 .. N
        OBVIOUS
      <3> QED BY <1>11, <1>12, <3>1
    <2> QED BY <1>10, <2>1
  <1>14. Is(u)
    <2> HIDE DEF Is
    <2> QED BY <1>13
  <1> HIDE DEF u
  <1> DEFINE T == {n \in Nat : n <= N => u[n] = h[n]}
  <1>15. 0 \in T
    <2>1. u[0] = start
      BY <1>14
    <2> QED BY <1>11, <2>1
  <1>16. ASSUME NEW n \in Nat, n \in T PROVE n + 1 \in T
    <2> SUFFICES ASSUME n + 1 <= N PROVE u[n + 1] = h[n + 1]
      OBVIOUS
    <2>1. n + 1 \in 0 .. N /\ n + 1 # 0 /\ (n + 1) - 1 = n /\ n <= N
      OBVIOUS
    <2>2. u[n + 1] = After(u[n], q[n + 1])
      BY <1>14, <2>1
    <2>3. h[n + 1] = After(h[n], q[n + 1])
      BY <1>13, <2>1
    <2> QED BY <1>16, <2>1, <2>2, <2>3
  <1>17. N \in T
    <2> HIDE DEF T
    <2> QED BY <1>15, <1>16, Induct
  <1>18. E!Mentioned(q).names = g[N] /\ E!Mentioned(q).program = s[N]
    <2>1. u[N] = h[N]
      BY <1>17
    <2> HIDE DEF T
    <2>2. N \in 0 .. N
      OBVIOUS
    <2> QED BY <1>8, <1>9, <2>1, <2>2
  <1> QED BY <1>4, <1>7, <1>18

(* Each mention reads the name that was mentioned.                         *)
LEMMA MentionsMean ==
  ASSUME Base \in Nat \ {0, 1}, NEW q, q \in Seq(ToSet(q)), Cardinality(ToSet(q)) <= Base * Base,
         NEW names, names = E!Mentioned(q).names,
         NEW run, run = E!Run(E!Mentioned(q).program)
  PROVE  [i \in DOMAIN run |-> names[run[i].operands[1] + 1]] = q
  <1>1. PICK V : V = ToSet(q)
    OBVIOUS
  <1>2. q \in Seq(V) /\ Cardinality(V) <= Base * Base
    BY <1>1
  <1>3. PICK N \in Nat : N = Len(q) /\ DOMAIN q = 1 .. N
    BY <1>2
  <1>4. IsFiniteSet(V)
    <2>1. V = {q[i] : i \in 1 .. N}
      BY <1>1, <1>3 DEF ToSet
    <2>2. q \in [1 .. N -> V]
      BY <1>2, <1>3
    <2>3. q \in Surjection(1 .. N, V)
      BY <2>1, <2>2 DEF Surjection
    <2>4. IsFiniteSet(1 .. N)
      BY FS_Interval
    <2> QED BY <2>3, <2>4, FS_Surjection
  <1>5. PICK g : NamedBy(g, q, N, V)
    BY <1>2, <1>3, NamesExist
  <1>6. PICK l \in Seq(V) : l = g[N]
    BY <1>3, <1>5 DEF NamedBy
  <1>7. Distinct(l) /\ \A n \in 1 .. N : Holds(g[n], q[n]) /\ Longer(l, g[n])
    <2>1. Distinct(l) /\ \A n \in 1 .. N : Holds(g[n], q[n])
      BY <1>2, <1>3, <1>5, <1>6, NamesStay
    <2>2. \A n \in 0 .. N : Longer(l, g[n])
      BY <1>2, <1>3, <1>5, <1>6, NamesStay
    <2> QED BY <2>1, <2>2
  <1>8. Len(l) <= Base * Base
    <2>1. Len(l) <= Cardinality(V)
      BY <1>4, <1>7, FewNames
    <2>2. Cardinality(V) \in Nat
      BY <1>4, FS_CardinalityType
    <2>3. Base * Base \in Nat /\ Len(l) \in Nat
      OBVIOUS
    <2> QED BY <1>2, <2>1, <2>2, <2>3
  <1>9. ASSUME NEW n \in 1 .. N
        PROVE  /\ E!IndexOf(g[n], q[n]) \in Nat /\ E!Fits(E!IndexOf(g[n], q[n]), 2)
               /\ l[E!IndexOf(g[n], q[n]) + 1] = q[n]
    <2>1. n \in 0 .. N
      OBVIOUS
    <2>2. PICK s \in Seq(V) : s = g[n]
      BY <1>5, <2>1 DEF NamedBy
    <2>3. Holds(s, q[n]) /\ Longer(l, s)
      BY <1>7, <2>2
    <2>4. PICK k : k = E!IndexOf(s, q[n])
      OBVIOUS
    <2>5. k \in Nat /\ k + 1 \in 1 .. Len(s) /\ s[k + 1] = q[n]
      BY <2>3, <2>4, IndexIs
    <2>6. Len(s) <= Len(l) /\ l[k + 1] = q[n]
      BY <2>3, <2>5 DEF Longer
    <2>7. k < Base * Base
      <3>1. PICK b \in Nat : b = Base * Base
        OBVIOUS
      <3> QED BY <1>8, <2>5, <2>6, <3>1
    <2>8. E!Fits(k, 2)
      BY <2>5, <2>7, TwoBytes
    <2> QED BY <2>2, <2>4, <2>5, <2>6, <2>8
  <1>10. PICK writ : writ = [n \in 1 .. N |-> [op |-> "OpGetGlobal",
                                              operands |-> <<E!IndexOf(g[n], q[n])>>]]
    OBVIOUS
  <1>11. PICK at : AreWritten(writ) /\ names = g[N] /\ Laid(E!Mentioned(q).program, writ, at, N)
    BY <1>2, <1>3, <1>5, <1>10, MentionedIs
  <1>12. /\ Len(writ) = N /\ DOMAIN writ = 1 .. N
         /\ \A n \in 1 .. N : /\ writ[n].op = "OpGetGlobal"
                              /\ writ[n].operands = <<E!IndexOf(g[n], q[n])>>
                              /\ writ[n].operands[1] = E!IndexOf(g[n], q[n])
    BY <1>10
  <1>13. AllFit(writ)
    <2>1. ASSUME NEW n \in 1 .. N PROVE FitIn(writ[n].operands, E!OperandWidths(writ[n].op))
      <3>1. E!OperandWidths(writ[n].op) = <<2>>
        BY <1>12, GlobalIs
      <3>2. Len(<<2>>) = 1 /\ <<2>>[1] = 2
        OBVIOUS
      <3>3. ASSUME NEW i \in 1 .. 1 PROVE E!Fits(writ[n].operands[i], <<2>>[i])
        <4>1. i = 1
          OBVIOUS
        <4> QED BY <1>9, <1>12, <3>2, <4>1
      <3> QED BY <3>1, <3>2, <3>3 DEF FitIn
    <2> QED BY <1>12, <2>1 DEF AllFit
  <1>14. run = writ
    <2>1. E!Walk(E!Mentioned(q).program, "machine") = writ
      BY <1>11, <1>12, <1>13, WalkIs
    <2> QED BY <2>1 DEF E!Run
  <1>15. [i \in DOMAIN run |-> names[run[i].operands[1] + 1]] = [i \in 1 .. N |-> q[i]]
    <2>1. ASSUME NEW i \in 1 .. N PROVE names[run[i].operands[1] + 1] = q[i]
      <3>1. run[i].operands[1] = E!IndexOf(g[i], q[i])
        BY <1>12, <1>14
      <3> QED BY <1>6, <1>9, <1>11, <3>1
    <2> QED BY <1>12, <1>14, <2>1
  <1> QED BY <1>3, <1>15

-------------------------------------------------------------------------------
(* Whatever was asked has its answer.                                      *)
Called == \E c \in Calls : asked = <<"call", c>> /\ answer = B!executeCall(c)

Sliced ==
  \E c \in Cuts : /\ asked = <<"slice", c>>
                 /\ answer = evalSlice([i \in 1 .. c[1] |-> i], c[2], c[3], c[4])

Counted ==
  \E r \in builtinRange :
    /\ asked = <<"range", r>>
    /\ answer = [looped |-> Looped(r), listed |-> Listed(r), len |-> Length(r),
                 bool |-> IsTrue(r), in |-> {i \in Ints : InRange(r, i)}]

Sorted ==
  \E items \in Rows :
    /\ asked = <<"row", items>>
    /\ answer = [min |-> builtinMin(items), max |-> builtinMax(items),
                 sorted |-> builtinSorted(items, FALSE),
                 reverse |-> builtinSorted(items, TRUE)]

Assembled ==
  \E q \in Listings :
    LET program == E!Patched(q.instructions, q.jump, q.target)
    IN  /\ asked = <<"instructions", q>>
        /\ answer = [run |-> E!Run(program), listing |-> E!Listing(program)]

LookedUp ==
  \E q \in Mentions :
    LET code == E!Mentioned(q)
        run == E!Run(code.program)
    IN  /\ asked = <<"names", q>>
        /\ answer = [i \in DOMAIN run |-> code.names[run[i].operands[1] + 1]]

Answers ==
  asked = <<"nothing">> \/ Called \/ Sliced \/ Counted \/ Sorted \/ Assembled \/ LookedUp

LEMMA Parts ==
  Answers => /\ asked[1] = "call" => Called
             /\ asked[1] = "slice" => Sliced
             /\ asked[1] = "range" => Counted
             /\ asked[1] = "row" => Sorted
             /\ asked[1] = "instructions" => Assembled
             /\ asked[1] = "names" => LookedUp
  <1>1. Called => asked[1] = "call"
    BY DEF Called
  <1>2. Sliced => asked[1] = "slice"
    BY DEF Sliced
  <1>3. Counted => asked[1] = "range"
    BY DEF Counted
  <1>4. Sorted => asked[1] = "row"
    BY DEF Sorted
  <1>5. Assembled => asked[1] = "instructions"
    BY DEF Assembled
  <1>6. LookedUp => asked[1] = "names"
    BY DEF LookedUp
  <1>7. asked = <<"nothing">> => asked[1] = "nothing"
    OBVIOUS
  <1> QED BY <1>1, <1>2, <1>3, <1>4, <1>5, <1>6, <1>7 DEF Answers

LEMMA Answered == Spec => []Answers
  <1>1. Init => Answers
    BY DEF Init, Answers
  <1>2. Answers /\ [Next]_vars => Answers'
    <2> SUFFICES ASSUME Answers, [Next]_vars PROVE Answers'
      OBVIOUS
    <2>1. CASE Call
      BY <2>1 DEF Call, Ask, Answers, Called
    <2>2. CASE Slice
      BY <2>2 DEF Slice, Ask, Answers, Sliced
    <2>3. CASE Count
      BY <2>3 DEF Count, Ask, Answers, Counted
    <2>4. CASE Sort
      BY <2>4 DEF Sort, Ask, Answers, Sorted
    <2>5. CASE Emit
      BY <2>5 DEF Emit, Ask, Answers, Assembled
    <2>6. CASE Mention
      BY <2>6 DEF Mention, Ask, Answers, LookedUp
    <2>7. CASE UNCHANGED vars
      BY <2>7 DEF vars, Answers, Called, Sliced, Counted, Sorted, Assembled, LookedUp
    <2> QED BY <2>1, <2>2, <2>3, <2>4, <2>5, <2>6, <2>7 DEF Next
  <1> QED BY <1>1, <1>2, PTL DEF Spec

(* A function whose signature is in the usual order, however long, is      *)
(* entered unless a parameter has no value, each plain parameter has what  *)
(* is meant for it, and a legal call binds what it means (callClosure).    *)
THEOREM CallsBind == Spec => []BindsAsDefined
  <1>1. Answers => BindsAsDefined
    <2> SUFFICES ASSUME Answers, asked[1] = "call" PROVE B!BoundAsDefined(asked[2], answer)
      BY DEF BindsAsDefined, Asked, Question
    <2>1. PICK c \in Calls : asked = <<"call", c>> /\ answer = B!executeCall(c)
      BY Parts DEF Called
    <2> QED BY <2>1, CallMeans, ComputationAssumption
  <1> QED BY <1>1, Answered, PTL

(* A slice has the elements it means, in integers of any width, of any     *)
(* length that is one, with any bounds and steps (evalSlice).              *)
THEOREM SlicesFind == Spec => []SlicesAsDefined
  <1>1. Answers => SlicesAsDefined
    <2> SUFFICES ASSUME Answers, asked[1] = "slice",
                        LET length == asked[2][1]
                            start == asked[2][2]
                            step == asked[2][4]
                        IN  /\ start = None \/ start \in -length .. length - 1
                            /\ step = None \/ (step # 0 /\ {length + step, -1 + step} \subseteq Ints)
                 PROVE  answer = Meant(asked[2][1], asked[2][2], asked[2][3], asked[2][4])
      BY DEF SlicesAsDefined, Asked, Question
    <2>1. PICK c \in Cuts : /\ asked = <<"slice", c>>
                            /\ answer = evalSlice([i \in 1 .. c[1] |-> i], c[2], c[3], c[4])
      BY Parts DEF Sliced
    <2>2. asked[2] = c
      BY <2>1
    <2>3. PICK length \in 0 .. MaxInt, start \in Ints \cup {None}, end \in Ints \cup {None},
               step \in Ints \cup {None} : length = c[1] /\ start = c[2] /\ end = c[3] /\ step = c[4]
      BY ComputationAssumption
    <2>4. /\ start = None \/ start \in -length .. length - 1
          /\ step = None \/ (step # 0 /\ {length + step, -1 + step} \subseteq Ints)
      BY <2>2, <2>3
    <2>5. evalSlice([i \in 1 .. length |-> i], start, end, step) = Meant(length, start, end, step)
      BY <2>4, SliceIs
    <2> QED BY <2>1, <2>2, <2>3, <2>5
  <1> QED BY <1>1, Answered, PTL

(* A range, of any start, stop and step, is the numbers it means, whether  *)
(* it is looped over, listed, tested, searched or measured, as long as     *)
(* what is computed on the way is an integer (RangeIterator, RangeObject). *)
THEOREM RangesCount == Spec => []RangesAsDefined
  <1>1. Answers => RangesAsDefined
    <2> SUFFICES ASSUME Answers, asked[1] = "range" PROVE RangesAsDefined
      BY DEF RangesAsDefined, Asked
    <2>1. PICK r \in builtinRange :
            /\ asked = <<"range", r>>
            /\ answer = [looped |-> Looped(r), listed |-> Listed(r), len |-> Length(r),
                         bool |-> IsTrue(r), in |-> {i \in Ints : InRange(r, i)}]
      BY Parts DEF Counted
    <2>2. /\ Question = r /\ answer.looped = Looped(r) /\ answer.listed = Listed(r)
          /\ answer.len = Length(r) /\ answer.bool = IsTrue(r)
          /\ answer.in = {i \in Ints : InRange(r, i)}
      BY <2>1 DEF Question
    <2> QED BY <2>2, RangeMeans DEF RangesAsDefined
  <1> QED BY <1>1, Answered, PTL

(* A list, however long, of anything keeps its elements when it is sorted; *)
(* if they are numbers or texts they ascend, or descend, and equal ones    *)
(* keep their order, and min and max are the first of the least and of the *)
(* greatest (builtinSorted, builtinMin, builtinMax).                       *)
THEOREM SortingSorts == Spec => []SortsAsDefined
  <1>1. Answers => SortsAsDefined
    <2> SUFFICES ASSUME Answers, asked[1] = "row" PROVE SortsAsDefined
      BY DEF SortsAsDefined, Asked
    <2>1. PICK items \in Rows :
            /\ asked = <<"row", items>>
            /\ answer = [min |-> builtinMin(items), max |-> builtinMax(items),
                         sorted |-> builtinSorted(items, FALSE),
                         reverse |-> builtinSorted(items, TRUE)]
      BY Parts DEF Sorted
    <2>2. /\ Question = items
          /\ answer.min = Extreme(items, FALSE) /\ answer.max = Extreme(items, TRUE)
          /\ answer.sorted = builtinSorted(items, FALSE)
          /\ answer.reverse = builtinSorted(items, TRUE)
      BY <2>1 DEF Question, builtinMin, builtinMax
    <2>3. IsRow(items)
      BY ComputationAssumption
    <2> QED BY <2>2, <2>3, SortMeans, ExtremeMeans DEF SortsAsDefined
  <1> QED BY <1>1, Answered, PTL

(* However many instructions are emitted and whatever jump among them gets *)
(* its target, the machine and the listing read what was written, in order *)
(* and with its operands; and each mention of a name reads that name, if   *)
(* there are not more names than two bytes count (Make, changeOperand,     *)
(* addName, ReadOperands, Run).                                            *)
THEOREM InstructionsDecode == Spec => []DecodesAsEmitted
  <1>1. Answers => DecodesAsEmitted
    <2> SUFFICES ASSUME Answers PROVE DecodesAsEmitted
      OBVIOUS
    <2>1. ASSUME asked[1] = "instructions"
          PROVE  answer.run = Written(asked[2]) /\ answer.listing = Written(asked[2])
      <3>1. Assembled
        BY <2>1, Parts
      <3>2. PICK q, program :
              /\ q \in Listings /\ asked = <<"instructions", q>>
              /\ program = E!Patched(q.instructions, q.jump, q.target)
              /\ answer = [run |-> E!Run(program), listing |-> E!Listing(program)]
        BY <3>1 DEF Assembled
      <3>3. IsListing(q)
        BY <3>2, ComputationAssumption
      <3>4. E!Walk(program, "machine") = Written(q) /\ E!Walk(program, "listing") = Written(q)
        BY <3>2, <3>3, ListingMeans, ComputationAssumption
      <3>5. E!Run(program) = Written(q) /\ E!Listing(program) = Written(q)
        BY <3>4 DEF E!Run, E!Listing
      <3> QED BY <3>2, <3>5
    <2>2. ASSUME asked[1] = "names", Cardinality(ToSet(asked[2])) <= Base * Base
          PROVE  answer = asked[2]
      <3>1. LookedUp
        BY <2>2, Parts
      <3>2. PICK q, names, run :
              /\ q \in Mentions /\ asked = <<"names", q>>
              /\ names = E!Mentioned(q).names /\ run = E!Run(E!Mentioned(q).program)
              /\ answer = [i \in DOMAIN run |-> names[run[i].operands[1] + 1]]
        BY <3>1 DEF LookedUp
      <3>3. q \in Seq(ToSet(q))
        BY <3>2, ComputationAssumption
      <3>4. asked[2] = q
        BY <3>2
      <3> QED BY <2>2, <3>2, <3>3, <3>4, MentionsMean, ComputationAssumption
    <2> QED BY <2>1, <2>2 DEF DecodesAsEmitted, Asked, Question
  <1> QED BY <1>1, Answered, PTL
===============================================================================
