--------------------------- MODULE ClassesProofs -----------------------------
(***************************************************************************)
(* Proofs about Classes: for every set of classes, and in whatever order   *)
(* and with whatever bases they are made, the order of search is that of   *)
(* C3 wherever there is one, and methods that cooperate are complete.      *)
(*                                                                         *)
(* The operators of Classes speak of its variables.  What is said of them  *)
(* over time is said here of parameters: bs are the bases of all classes,  *)
(* mr their orders, A a set of ancestors.                                  *)
(***************************************************************************)
EXTENDS Classes, FiniteSetTheorems, SequenceTheorems, WellFoundedInduction, TLAPS

-------------------------------------------------------------------------------
(* Induction, as a fact about sets, and iteration.                         *)
LEMMA Least ==
  ASSUME NEW S \in SUBSET Nat, S # {}
  PROVE  \E m \in S : \A n \in S : m <= n
  <1>1. PICK m \in S : \A n \in S : <<n, m>> \notin OpToRel(<, Nat)
    BY NatLessThanWellFounded, WFMin, Zenon
  <1>2. \A n \in S : ~(n < m)
    BY <1>1 DEF OpToRel
  <1> QED BY <1>2

LEMMA Induct ==
  ASSUME NEW T, 0 \in T, \A n \in Nat : n \in T => n + 1 \in T
  PROVE  \A n \in Nat : n \in T
  <1>1. SUFFICES ASSUME Nat \ T # {}
                 PROVE  FALSE
    OBVIOUS
  <1>2. PICK m \in Nat \ T : \A n \in Nat \ T : m <= n
    BY <1>1, Least
  <1>3. m # 0 /\ m - 1 \in Nat
    BY <1>2
  <1>4. m - 1 \in T
    BY <1>2, <1>3
  <1> QED BY <1>2, <1>3, <1>4

(* What a function F gives, again and again, from x.                       *)
Follows(h, F, x, n) == h[0] = x /\ \A k \in 0 .. n - 1 : h[k + 1] = F[h[k]]

LEMMA SomeFollow ==
  ASSUME NEW S, NEW x \in S, NEW F \in [S -> S]
  PROVE  \A n \in Nat : \E h \in [0 .. n -> S] : Follows(h, F, x, n)
  <1> DEFINE T == {n \in Nat : \E h \in [0 .. n -> S] : Follows(h, F, x, n)}
  <1>1. 0 \in T
    <2>1. [k \in 0 .. 0 |-> x] \in [0 .. 0 -> S]
      OBVIOUS
    <2>2. Follows([k \in 0 .. 0 |-> x], F, x, 0)
      BY DEF Follows
    <2> QED BY <2>1, <2>2
  <1>2. ASSUME NEW n \in Nat, n \in T
        PROVE  n + 1 \in T
    <2>1. PICK h \in [0 .. n -> S] : Follows(h, F, x, n)
      BY <1>2
    <2> DEFINE g == [k \in 0 .. n + 1 |-> IF k = n + 1 THEN F[h[n]] ELSE h[k]]
    <2>2. g \in [0 .. n + 1 -> S]
      OBVIOUS
    <2>3. g[0] = x
      BY <2>1 DEF Follows
    <2>4. \A k \in 0 .. n : g[k + 1] = F[g[k]]
      BY <2>1 DEF Follows
    <2> HIDE DEF g
    <2>5. Follows(g, F, x, n + 1)
      BY <2>3, <2>4 DEF Follows
    <2> QED BY <2>2, <2>5
  <1> HIDE DEF T
  <1>3. \A n \in Nat : n \in T
    BY <1>1, <1>2, Induct
  <1> QED BY <1>3 DEF T

Iterates(g, F, x) == g[0] = x /\ \A n \in Nat : g[n + 1] = F[g[n]]

LEMMA Iteration ==
  ASSUME NEW S, NEW x \in S, NEW F \in [S -> S]
  PROVE  \E g \in [Nat -> S] : Iterates(g, F, x)
  <1> DEFINE H(n) == CHOOSE h : h \in [0 .. n -> S] /\ Follows(h, F, x, n)
             g == [n \in Nat |-> H(n)[n]]
  <1>1. \A n \in Nat : H(n) \in [0 .. n -> S] /\ Follows(H(n), F, x, n)
    BY SomeFollow
  <1> HIDE DEF H
  <1>2. g \in [Nat -> S]
    BY <1>1
  <1>3. g[0] = x
    BY <1>1 DEF Follows
  <1>4. ASSUME NEW m \in Nat, NEW n \in Nat, m <= n
        PROVE  H(n)[m] = H(m)[m]
    <2> DEFINE T == {k \in Nat : k <= m => H(n)[k] = H(m)[k]}
    <2>1. 0 \in T
      BY <1>1 DEF Follows
    <2>2. ASSUME NEW k \in Nat, k \in T
          PROVE  k + 1 \in T
      <3>1. CASE k + 1 <= m
        <4>1. H(n)[k + 1] = F[H(n)[k]] /\ H(m)[k + 1] = F[H(m)[k]]
          BY <1>1, <1>4, <3>1 DEF Follows
        <4> QED BY <2>2, <3>1, <4>1
      <3> QED BY <2>2, <3>1
    <2> HIDE DEF T
    <2>3. \A k \in Nat : k \in T
      BY <2>1, <2>2, Induct
    <2> QED BY <2>3 DEF T
  <1>5. ASSUME NEW n \in Nat
        PROVE  g[n + 1] = F[g[n]]
    <2>1. H(n + 1)[n] = H(n)[n]
      BY <1>4
    <2>2. H(n + 1)[n + 1] = F[H(n + 1)[n]]
      BY <1>1 DEF Follows
    <2> QED BY <2>1, <2>2
  <1> HIDE DEF g
  <1> QED BY <1>2, <1>3, <1>5 DEF Iterates

-------------------------------------------------------------------------------
(* What a class inherits from.                                             *)
Bases == [Classes -> Seq(Classes)]

Parents(bs, S) == UNION {ToSet(bs[k]) : k \in S}

Up(bs, c) ==
  CHOOSE up : up = [n \in Nat |-> IF n = 0 THEN {c}
                                  ELSE {c} \cup UNION {ToSet(bs[k]) : k \in up[n - 1]}]

Ancestry(bs, c) == Up(bs, c)[Cardinality(Classes)]

LEMMA AncestorsAre == \A c : Ancestors(c) = Ancestry(bases, c)
  BY DEF Ancestors, Ancestry, Up

LEMMA ParentsAre ==
  ASSUME NEW bs \in Bases
  PROVE  /\ \A c \in Classes : ToSet(bs[c]) \in SUBSET Classes
         /\ \A S \in SUBSET Classes : Parents(bs, S) \in SUBSET Classes
  <1>1. ASSUME NEW c \in Classes
        PROVE  ToSet(bs[c]) \in SUBSET Classes
    <2>1. bs[c] \in Seq(Classes)
      BY DEF Bases
    <2> QED BY <2>1, ElementOfSeq, LenProperties DEF ToSet
  <1> QED BY <1>1 DEF Parents

LEMMA UpIs ==
  ASSUME NEW bs \in Bases, NEW c \in Classes
  PROVE  /\ Up(bs, c) \in [Nat -> SUBSET Classes]
         /\ Up(bs, c)[0] = {c}
         /\ \A n \in Nat : Up(bs, c)[n + 1] = {c} \cup Parents(bs, Up(bs, c)[n])
  <1> DEFINE S == SUBSET Classes
             F == [A \in S |-> {c} \cup Parents(bs, A)]
             Is(u) == u = [n \in Nat |-> IF n = 0 THEN {c}
                                         ELSE {c} \cup UNION {ToSet(bs[k]) : k \in u[n - 1]}]
  <1>1. {c} \in S /\ F \in [S -> S]
    BY ParentsAre
  <1>2. PICK g \in [Nat -> S] : g[0] = {c} /\ \A n \in Nat : g[n + 1] = F[g[n]]
    <2> HIDE DEF S, F
    <2> QED BY <1>1, Iteration DEF Iterates
  <1>3. Is(g)
    <2>1. ASSUME NEW n \in Nat
          PROVE  g[n] = IF n = 0 THEN {c} ELSE {c} \cup Parents(bs, g[n - 1])
      <3>1. CASE n = 0
        BY <1>2, <3>1
      <3>2. CASE n # 0
        <4>1. n - 1 \in Nat /\ (n - 1) + 1 = n
          BY <3>2
        <4>2. g[n] = F[g[n - 1]] /\ g[n - 1] \in S
          BY <1>2, <4>1
        <4> QED BY <3>2, <4>2
      <3> QED BY <3>1, <3>2
    <2> QED BY <1>2, <2>1 DEF Parents
  <1>4. Is(Up(bs, c))
    <2>1. Up(bs, c) = CHOOSE u : Is(u)
      BY DEF Up
    <2> HIDE DEF Is
    <2> QED BY <1>3, <2>1
  <1> DEFINE u == Up(bs, c)
  <1>5. /\ u = [n \in Nat |-> u[n]]
        /\ \A n \in Nat : u[n] = IF n = 0 THEN {c} ELSE {c} \cup Parents(bs, u[n - 1])
    BY <1>4 DEF Parents
  <1> HIDE DEF u, S, F
  <1>6. u[0] = {c}
    BY <1>5
  <1>7. ASSUME NEW n \in Nat
        PROVE  u[n + 1] = {c} \cup Parents(bs, u[n])
    <2>1. n + 1 \in Nat /\ n + 1 # 0 /\ (n + 1) - 1 = n
      OBVIOUS
    <2> QED BY <1>5, <2>1
  <1>8. \A n \in Nat : u[n] \in SUBSET Classes
    <2> DEFINE T == {n \in Nat : u[n] \in SUBSET Classes}
    <2>1. 0 \in T
      BY <1>6
    <2>2. \A n \in Nat : n \in T => n + 1 \in T
      BY <1>7, ParentsAre
    <2> HIDE DEF T
    <2>3. \A n \in Nat : n \in T
      BY <2>1, <2>2, Induct
    <2> QED BY <2>3 DEF T
  <1>9. u \in [Nat -> SUBSET Classes]
    BY <1>5, <1>8
  <1> QED BY <1>6, <1>7, <1>9 DEF u

Closed(bs, T) == \A k \in T : ToSet(bs[k]) \subseteq T

(* A is the least set with c and with the bases of its classes.            *)
IsAncestry(bs, c, A) ==
  /\ A \in SUBSET Classes /\ c \in A /\ Closed(bs, A)
  /\ \A T \in SUBSET Classes : c \in T /\ Closed(bs, T) => A \subseteq T

(* Going up once more than there are classes finds none that is new.       *)
LEMMA AncestryIs ==
  ASSUME NEW bs \in Bases, NEW c \in Classes
  PROVE  IsAncestry(bs, c, Ancestry(bs, c))
  <1> DEFINE u == Up(bs, c)
             N == Cardinality(Classes)
  <1>1. /\ \A n \in Nat : u[n] \in SUBSET Classes
        /\ u[0] = {c} /\ \A n \in Nat : u[n + 1] = {c} \cup Parents(bs, u[n])
    BY UpIs
  <1>2. N \in Nat /\ IsFiniteSet(Classes)
    BY ClassesAssumption, FS_CardinalityType
  <1> HIDE DEF u, N
  <1>3. \A n \in Nat : c \in u[n] /\ u[n] \subseteq u[n + 1]
    <2> DEFINE T == {n \in Nat : c \in u[n] /\ u[n] \subseteq u[n + 1]}
    <2>1. 0 \in T
      BY <1>1
    <2>2. ASSUME NEW n \in Nat, n \in T
          PROVE  n + 1 \in T
      <3>1. /\ u[n + 1] = {c} \cup Parents(bs, u[n])
            /\ u[(n + 1) + 1] = {c} \cup Parents(bs, u[n + 1])
        BY <1>1
      <3>2. Parents(bs, u[n]) \subseteq Parents(bs, u[n + 1])
        BY <2>2 DEF Parents
      <3> QED BY <3>1, <3>2
    <2> HIDE DEF T
    <2>3. \A n \in Nat : n \in T
      BY <2>1, <2>2, Induct
    <2> QED BY <2>3 DEF T
  <1>4. ASSUME NEW T \in SUBSET Classes, c \in T, Closed(bs, T)
        PROVE  \A n \in Nat : u[n] \subseteq T
    <2> DEFINE I == {n \in Nat : u[n] \subseteq T}
    <2>1. 0 \in I
      BY <1>1, <1>4
    <2>2. ASSUME NEW n \in Nat, n \in I
          PROVE  n + 1 \in I
      <3>1. u[n + 1] = {c} \cup Parents(bs, u[n])
        BY <1>1
      <3> QED BY <1>4, <2>2, <3>1 DEF Parents, Closed
    <2> HIDE DEF I
    <2>3. \A n \in Nat : n \in I
      BY <2>1, <2>2, Induct
    <2> QED BY <2>3 DEF I
  <1>5. \A n \in Nat : u[n + 1] = u[n] \/ Cardinality(u[n]) >= n + 1
    <2> DEFINE T == {n \in Nat : u[n + 1] = u[n] \/ Cardinality(u[n]) >= n + 1}
    <2>1. 0 \in T
      <3>1. Cardinality({c}) = 1
        BY FS_Singleton
      <3>2. Cardinality(u[0]) >= 0 + 1
        BY <1>1, <3>1
      <3> QED BY <3>2
    <2>2. ASSUME NEW n \in Nat, n \in T
          PROVE  n + 1 \in T
      <3>1. CASE u[n + 1] = u[n]
        <4>1. u[(n + 1) + 1] = u[n + 1]
          <5>1. /\ u[n + 1] = {c} \cup Parents(bs, u[n])
                /\ u[(n + 1) + 1] = {c} \cup Parents(bs, u[n + 1])
            BY <1>1
          <5> QED BY <3>1, <5>1
        <4> QED BY <4>1
      <3>2. CASE u[n + 1] # u[n]
        <4>1. /\ IsFiniteSet(u[n + 1]) /\ u[n] \subseteq u[n + 1]
              /\ Cardinality(u[n]) >= n + 1
          BY <1>1, <1>2, <1>3, <2>2, <3>2, FS_Subset
        <4>2. /\ Cardinality(u[n]) < Cardinality(u[n + 1])
              /\ Cardinality(u[n]) \in Nat /\ Cardinality(u[n + 1]) \in Nat
          BY <3>2, <4>1, FS_Subset, FS_CardinalityType
        <4> QED BY <4>1, <4>2
      <3> QED BY <3>1, <3>2
    <2> HIDE DEF T
    <2>3. \A n \in Nat : n \in T
      BY <2>1, <2>2, Induct
    <2> QED BY <2>3 DEF T
  <1>6. u[N + 1] = u[N]
    <2>1. Cardinality(u[N]) <= N /\ Cardinality(u[N]) \in Nat
      BY <1>1, <1>2, FS_Subset, FS_CardinalityType DEF N
    <2> QED BY <1>2, <1>5, <2>1
  <1>7. Closed(bs, u[N])
    BY <1>1, <1>2, <1>6 DEF Closed, Parents
  <1> QED BY <1>1, <1>2, <1>3, <1>4, <1>7 DEF IsAncestry, Ancestry, u, N

LEMMA AncestryOfAncestor ==
  ASSUME NEW bs \in Bases, NEW c \in Classes, NEW k \in Ancestry(bs, c)
  PROVE  k \in Classes /\ Ancestry(bs, k) \subseteq Ancestry(bs, c)
  <1>1. IsAncestry(bs, c, Ancestry(bs, c))
    BY AncestryIs
  <1>2. k \in Classes
    BY <1>1 DEF IsAncestry
  <1>3. IsAncestry(bs, k, Ancestry(bs, k))
    BY <1>2, AncestryIs
  <1> QED BY <1>1, <1>2, <1>3 DEF IsAncestry

(* The ancestors of a class are itself and those of its bases.             *)
LEMMA AncestryOfBases ==
  ASSUME NEW bs \in Bases, NEW c \in Classes
  PROVE  /\ \A b \in ToSet(bs[c]) : b \in Ancestry(bs, c)
         /\ \A x \in Ancestry(bs, c) : x = c \/ \E b \in ToSet(bs[c]) : x \in Ancestry(bs, b)
  <1> DEFINE Bs == ToSet(bs[c])
             S == {c} \cup UNION {Ancestry(bs, b) : b \in Bs}
  <1>1. IsAncestry(bs, c, Ancestry(bs, c))
    BY AncestryIs
  <1>2. Bs \subseteq Ancestry(bs, c)
    BY <1>1 DEF IsAncestry, Closed
  <1>3. \A b \in Bs : b \in Classes /\ IsAncestry(bs, b, Ancestry(bs, b))
    BY <1>1, <1>2, AncestryIs DEF IsAncestry
  <1>4. S \in SUBSET Classes
    BY <1>3 DEF IsAncestry
  <1>5. Closed(bs, S)
    <2> SUFFICES ASSUME NEW k \in S
                 PROVE  ToSet(bs[k]) \subseteq S
      BY DEF Closed
    <2>1. CASE k = c
      BY <1>3, <2>1 DEF IsAncestry
    <2>2. CASE k # c
      <3>1. PICK b \in Bs : k \in Ancestry(bs, b)
        BY <2>2
      <3>2. ToSet(bs[k]) \subseteq Ancestry(bs, b)
        BY <1>3, <3>1 DEF IsAncestry, Closed
      <3> QED BY <3>2
    <2> QED BY <2>1, <2>2
  <1>6. Ancestry(bs, c) \subseteq S
    BY <1>1, <1>4, <1>5 DEF IsAncestry
  <1> QED BY <1>2, <1>6

(* It depends on the bases of the ancestors alone.                         *)
LEMMA AncestrySame ==
  ASSUME NEW bs \in Bases, NEW bs2 \in Bases, NEW T \in SUBSET Classes, Closed(bs, T),
         \A k \in T : bs2[k] = bs[k], NEW c \in T
  PROVE  Ancestry(bs, c) \subseteq T /\ Ancestry(bs2, c) = Ancestry(bs, c)
  <1> DEFINE A == Ancestry(bs, c)
             A2 == Ancestry(bs2, c)
  <1>1. c \in Classes /\ IsAncestry(bs, c, A) /\ IsAncestry(bs2, c, A2)
    BY AncestryIs
  <1> HIDE DEF A, A2
  <1>2. A \subseteq T
    BY <1>1 DEF IsAncestry
  <1>3. Closed(bs2, A)
    BY <1>1, <1>2 DEF IsAncestry, Closed
  <1>4. A2 \subseteq A
    BY <1>1, <1>3 DEF IsAncestry
  <1>5. Closed(bs, A2)
    BY <1>1, <1>2, <1>4 DEF IsAncestry, Closed
  <1>6. A \subseteq A2
    BY <1>1, <1>5 DEF IsAncestry
  <1> QED BY <1>2, <1>4, <1>6 DEF A, A2

-------------------------------------------------------------------------------
(* The merge.  The smallest of some numbers, and the first good head.      *)
LEMMA MinIs ==
  ASSUME NEW S \in SUBSET Nat, S # {}
  PROVE  Min(S) \in S /\ \A n \in S : Min(S) <= n
  BY Least DEF Min

LEMMA FirstGoodIs ==
  ASSUME NEW seqs \in Seq(Seq(Classes))
  PROVE  \/ /\ FirstGood(seqs) = 0
            /\ \A i \in DOMAIN seqs : seqs[i] # <<>> => ~IsGood(seqs[i][1], seqs)
         \/ /\ FirstGood(seqs) \in DOMAIN seqs /\ FirstGood(seqs) # 0
            /\ seqs[FirstGood(seqs)] # <<>>
            /\ IsGood(seqs[FirstGood(seqs)][1], seqs)
  <1> DEFINE I == {i \in 1 .. Len(seqs) : seqs[i] # <<>> /\ IsGood(seqs[i][1], seqs)}
  <1>1. FirstGood(seqs) = IF I # {} THEN Min(I) ELSE 0
    BY DEF FirstGood, SelectInSeq
  <1>2. Len(seqs) \in Nat /\ DOMAIN seqs = 1 .. Len(seqs)
    BY LenProperties
  <1>3. CASE I = {}
    BY <1>1, <1>2, <1>3
  <1>4. CASE I # {}
    <2>1. I \in SUBSET Nat
      BY <1>2
    <2>2. Min(I) \in I
      <3> HIDE DEF I
      <3> QED BY <1>4, <2>1, MinIs
    <2> QED BY <1>1, <1>2, <1>4, <2>2
  <1> QED BY <1>3, <1>4

LEMMA Appended ==
  ASSUME NEW S, NEW s \in Seq(S), NEW x \in S
  PROVE  /\ Append(s, x) \in Seq(S) /\ Len(Append(s, x)) = Len(s) + 1 /\ Append(s, x) # <<>>
         /\ Len(s) \in Nat /\ DOMAIN s = 1 .. Len(s) /\ DOMAIN Append(s, x) = 1 .. Len(s) + 1
         /\ \A i \in 1 .. Len(s) : Append(s, x)[i] = s[i]
         /\ Append(s, x)[Len(s) + 1] = x
         /\ ToSet(Append(s, x)) = ToSet(s) \cup {x}
  <1>1. /\ Append(s, x) \in Seq(S) /\ Len(Append(s, x)) = Len(s) + 1 /\ Append(s, x) # <<>>
        /\ \A i \in 1 .. Len(s) : Append(s, x)[i] = s[i]
        /\ Append(s, x)[Len(s) + 1] = x
    BY AppendProperties
  <1>2. Len(s) \in Nat /\ DOMAIN s = 1 .. Len(s) /\ DOMAIN Append(s, x) = 1 .. Len(s) + 1
    BY <1>1, LenProperties
  <1>3. PICK n, t : n = Len(s) /\ t = Append(s, x)
    OBVIOUS
  <1>4. ToSet(t) = ToSet(s) \cup {x}
    <2>1. \A y : y \in ToSet(t) => y \in ToSet(s) \cup {x}
      BY <1>1, <1>2, <1>3 DEF ToSet
    <2>2. \A y : y \in ToSet(s) \cup {x} => y \in ToSet(t)
      BY <1>1, <1>2, <1>3 DEF ToSet
    <2> QED BY <2>1, <2>2
  <1> QED BY <1>1, <1>2, <1>3, <1>4

LEMMA TailIs ==
  ASSUME NEW S, NEW s \in Seq(S), s # <<>>
  PROVE  /\ Tail(s) \in Seq(S) /\ Len(Tail(s)) = Len(s) - 1 /\ Len(s) \in Nat \ {0}
         /\ \A i \in 1 .. Len(s) - 1 : Tail(s)[i] = s[i + 1]
  BY HeadTailProperties, LenProperties, EmptySeq

(* What the merge of some sequences has come to: what is left of each is   *)
(* its end, and the rest is in the result; what is in the result is in     *)
(* nothing that is left; and it is in the order of each sequence.          *)
AllOf(seqs) == UNION {ToSet(seqs[i]) : i \in DOMAIN seqs}

Gone(s, from) == Len(from) - Len(s)

IsEnd(s, from, result) ==
  /\ s \in Seq(Classes) /\ from \in Seq(Classes)
  /\ Len(s) <= Len(from)
  /\ \A j \in 1 .. Len(s) : s[j] = from[j + Gone(s, from)] /\ s[j] \notin ToSet(result)
  /\ \A j \in 1 .. Gone(s, from) : from[j] \in ToSet(result)

Keeps(result, s) ==
  \A j, k \in DOMAIN s : j < k /\ s[k] \in ToSet(result) => Before(result, s[j], s[k])

Merging(c, from, m) ==
  /\ m \in [seqs : Seq(Seq(Classes)), result : Seq(Classes)]
  /\ m.result # <<>> /\ m.result[1] = c /\ IsInjective(m.result)
  /\ ToSet(m.result) \subseteq {c} \cup AllOf(from)
  /\ DOMAIN m.seqs = DOMAIN from
  /\ \A i \in DOMAIN from : IsEnd(m.seqs[i], from[i], m.result) /\ Keeps(m.result, from[i])

LEMMA MergeBegins ==
  ASSUME NEW from \in Seq(Seq(Classes)), NEW c \in Classes, c \notin AllOf(from)
  PROVE  Merging(c, from, [seqs |-> from, result |-> <<c>>])
  <1> DEFINE r == <<c>>
  <1>1. r \in Seq(Classes) /\ r # <<>> /\ r[1] = c /\ DOMAIN r = 1 .. 1 /\ Len(r) = 1
    OBVIOUS
  <1> HIDE DEF r
  <1>2. ToSet(r) = {c} /\ IsInjective(r)
    BY <1>1 DEF ToSet, IsInjective
  <1>3. ASSUME NEW i \in DOMAIN from
        PROVE  IsEnd(from[i], from[i], r) /\ Keeps(r, from[i])
    <2>1. from[i] \in Seq(Classes)
      BY ElementOfSeq, LenProperties
    <2>2. Len(from[i]) \in Nat /\ DOMAIN from[i] = 1 .. Len(from[i])
      BY <2>1, LenProperties
    <2>3. \A j \in DOMAIN from[i] : from[i][j] \notin ToSet(r)
      BY <1>2 DEF AllOf, ToSet
    <2> QED BY <2>1, <2>2, <2>3 DEF IsEnd, Gone, Keeps
  <1> QED BY <1>1, <1>2, <1>3 DEF Merging, r

(* What is appended to an order is behind all that was there.              *)
LEMMA AppendedIsLast ==
  ASSUME NEW r \in Seq(Classes), NEW y \in Classes \ ToSet(r), IsInjective(r)
  PROVE  /\ IsInjective(Append(r, y))
         /\ \A x, z : Before(r, x, z) => Before(Append(r, y), x, z)
         /\ \A x \in ToSet(r) : Before(Append(r, y), x, y)
  <1>1. PICK t : t = Append(r, y)
    OBVIOUS
  <1>2. /\ Len(r) \in Nat /\ DOMAIN r = 1 .. Len(r) /\ DOMAIN t = 1 .. Len(r) + 1
        /\ \A i \in 1 .. Len(r) : t[i] = r[i]
        /\ t[Len(r) + 1] = y
    BY <1>1, Appended
  <1>3. \A i \in 1 .. Len(r) : r[i] # y
    BY <1>2 DEF ToSet
  <1>4. IsInjective(t)
    BY <1>2, <1>3 DEF IsInjective
  <1>5. \A x, z : Before(r, x, z) => Before(t, x, z)
    BY <1>2 DEF Before
  <1>6. ASSUME NEW x \in ToSet(r)
        PROVE  Before(t, x, y)
    <2>1. PICK i \in DOMAIN r : r[i] = x
      BY DEF ToSet
    <2>2. i \in DOMAIN t /\ Len(r) + 1 \in DOMAIN t /\ i < Len(r) + 1
      BY <1>2, <2>1
    <2>3. t[i] = x /\ t[Len(r) + 1] = y
      BY <1>2, <2>1
    <2> QED BY <2>2, <2>3 DEF Before
  <1> QED BY <1>1, <1>4, <1>5, <1>6

(* A sequence when y is taken, which is in no tail.                        *)
LEMMA EndIsTaken ==
  ASSUME NEW s, NEW from, NEW r \in Seq(Classes), IsEnd(s, from, r),
         NEW y \in Classes \ ToSet(r), s # <<>>, s[1] = y, \A j \in 2 .. Len(s) : s[j] # y
  PROVE  IsEnd(Tail(s), from, Append(r, y))
  <1>1. PICK t, n, g, r2 : t = Tail(s) /\ n = Len(s) /\ g = Gone(s, from) /\ r2 = Append(r, y)
    OBVIOUS
  <1>2. s \in Seq(Classes) /\ from \in Seq(Classes) /\ Len(from) \in Nat /\ n \in Nat \ {0}
    BY <1>1, LenProperties, TailIs DEF IsEnd
  <1>3. t \in Seq(Classes) /\ Len(t) = n - 1 /\ \A i \in 1 .. n - 1 : t[i] = s[i + 1]
    BY <1>1, <1>2, TailIs
  <1>4. g = Len(from) - n /\ g \in Nat /\ Gone(t, from) = g + 1
    BY <1>1, <1>2, <1>3 DEF Gone, IsEnd
  <1>5. ToSet(r2) = ToSet(r) \cup {y}
    BY <1>1, Appended
  <1>6. ASSUME NEW j \in 1 .. Len(t)
        PROVE  t[j] = from[j + Gone(t, from)] /\ t[j] \notin ToSet(r2)
    <2>1. j + 1 \in 2 .. n /\ j + 1 \in 1 .. n /\ j \in 1 .. n - 1
      BY <1>2, <1>3
    <2>2. t[j] = s[j + 1] /\ s[j + 1] # y
      BY <1>1, <1>3, <2>1
    <2>3. s[j + 1] = from[(j + 1) + g] /\ s[j + 1] \notin ToSet(r)
      BY <1>1, <2>1 DEF IsEnd
    <2>4. (j + 1) + g = j + Gone(t, from)
      BY <1>2, <1>3, <1>4
    <2> QED BY <1>5, <2>2, <2>3, <2>4
  <1>7. ASSUME NEW j \in 1 .. Gone(t, from)
        PROVE  from[j] \in ToSet(r2)
    <2>1. CASE j \in 1 .. g
      BY <1>1, <1>5, <2>1 DEF IsEnd
    <2>2. CASE j = g + 1
      <3>1. 1 \in 1 .. Len(s)
        BY <1>1, <1>2
      <3>2. s[1] = from[1 + g]
        BY <1>1, <3>1 DEF IsEnd
      <3>3. j = 1 + g
        BY <1>4, <2>2
      <3> QED BY <1>5, <3>2, <3>3
    <2> QED BY <1>4, <2>1, <2>2
  <1>8. Len(t) <= Len(from)
    BY <1>2, <1>3, <1>4
  <1>9. IsEnd(t, from, r2)
    BY <1>2, <1>3, <1>6, <1>7, <1>8 DEF IsEnd
  <1> QED BY <1>1, <1>9

LEMMA EndIsPassed ==
  ASSUME NEW s, NEW from, NEW r \in Seq(Classes), IsEnd(s, from, r),
         NEW y \in Classes \ ToSet(r), s = <<>> \/ s[1] # y, \A j \in 2 .. Len(s) : s[j] # y
  PROVE  IsEnd(s, from, Append(r, y))
  <1>1. ToSet(Append(r, y)) = ToSet(r) \cup {y}
    BY Appended
  <1>2. s \in Seq(Classes) /\ Len(s) \in Nat
    BY LenProperties DEF IsEnd
  <1>3. \A j \in 1 .. Len(s) : s[j] # y
    <2> SUFFICES ASSUME NEW j \in 1 .. Len(s)
                 PROVE  s[j] # y
      OBVIOUS
    <2>1. CASE j = 1
      <3>1. s # <<>>
        BY <1>2, <2>1, EmptySeq
      <3> QED BY <2>1, <3>1
    <2>2. CASE j \in 2 .. Len(s)
      BY <2>2
    <2> QED BY <1>2, <2>1, <2>2
  <1> HIDE DEF Gone
  <1> QED BY <1>1, <1>3 DEF IsEnd

(* What precedes y in a sequence is in the result when y is taken.         *)
LEMMA OrderIsKept ==
  ASSUME NEW s, NEW from, NEW r \in Seq(Classes), IsEnd(s, from, r), Keeps(r, from),
         IsInjective(r), NEW y \in Classes \ ToSet(r), \A j \in 2 .. Len(s) : s[j] # y
  PROVE  Keeps(Append(r, y), from)
  <1>1. PICK r2, g : r2 = Append(r, y) /\ g = Gone(s, from)
    OBVIOUS
  <1>2. ToSet(r2) = ToSet(r) \cup {y}
    BY <1>1, Appended
  <1>3. /\ \A x, z : Before(r, x, z) => Before(r2, x, z)
        /\ \A x \in ToSet(r) : Before(r2, x, y)
    BY <1>1, AppendedIsLast
  <1>4. /\ s \in Seq(Classes) /\ from \in Seq(Classes) /\ Len(s) \in Nat /\ Len(from) \in Nat
        /\ DOMAIN from = 1 .. Len(from) /\ g \in Nat /\ g = Len(from) - Len(s)
    BY <1>1, LenProperties DEF IsEnd, Gone
  <1>5. ASSUME NEW j \in DOMAIN from, NEW k \in DOMAIN from, j < k, from[k] \in ToSet(r2)
        PROVE  Before(r2, from[j], from[k])
    <2>1. CASE from[k] \in ToSet(r)
      BY <1>3, <1>5, <2>1 DEF Keeps
    <2>2. CASE from[k] \notin ToSet(r)
      <3>1. from[k] = y
        BY <1>2, <1>5, <2>2
      <3>2. k > g
        BY <1>1, <1>4, <2>2 DEF IsEnd
      <3>3. k - g \in 1 .. Len(s)
        BY <1>4, <3>2
      <3>4. s[k - g] = from[(k - g) + g]
        BY <1>1, <3>3 DEF IsEnd
      <3>5. (k - g) + g = k
        BY <1>4
      <3>6. k - g = 1
        BY <1>4, <3>1, <3>3, <3>4, <3>5
      <3>7. j \in 1 .. g
        BY <1>4, <1>5, <3>6
      <3>8. from[j] \in ToSet(r)
        BY <1>1, <3>7 DEF IsEnd
      <3> QED BY <1>3, <3>1, <3>8
    <2> QED BY <2>1, <2>2
  <1>6. Keeps(r2, from)
    BY <1>5 DEF Keeps
  <1> QED BY <1>1, <1>6

Merges == [seqs : Seq(Seq(Classes)), result : Seq(Classes)]

(* A step either finds no good head, or takes one.                         *)
Taken(m) == m.seqs[FirstGood(m.seqs)][1]

LEMMA MergeStepIs ==
  ASSUME NEW m \in Merges
  PROVE  /\ MergeStep(m) \in Merges
         /\ FirstGood(m.seqs) = 0 => MergeStep(m) = m
         /\ FirstGood(m.seqs) # 0 =>
              /\ Taken(m) \in Classes /\ IsGood(Taken(m), m.seqs)
              /\ \E i \in DOMAIN m.seqs : m.seqs[i] # <<>> /\ m.seqs[i][1] = Taken(m)
              /\ MergeStep(m).result = Append(m.result, Taken(m))
              /\ DOMAIN MergeStep(m).seqs = DOMAIN m.seqs
              /\ \A i \in DOMAIN m.seqs :
                   MergeStep(m).seqs[i] =
                     IF m.seqs[i] # <<>> /\ m.seqs[i][1] = Taken(m) THEN Tail(m.seqs[i])
                     ELSE m.seqs[i]
  <1>1. PICK f, y, seqs : f = FirstGood(m.seqs) /\ y = Taken(m) /\ seqs = m.seqs
    OBVIOUS
  <1>2. seqs \in Seq(Seq(Classes)) /\ m.result \in Seq(Classes)
    BY <1>1 DEF Merges
  <1>3. CASE f = 0
    <2>1. MergeStep(m) = m
      BY <1>1, <1>3 DEF MergeStep
    <2> QED BY <1>1, <1>3, <2>1
  <1>4. CASE f # 0
    <2>1. f \in DOMAIN seqs /\ seqs[f] # <<>> /\ IsGood(seqs[f][1], seqs)
      BY <1>1, <1>2, <1>4, FirstGoodIs
    <2>2. y = seqs[f][1]
      BY <1>1 DEF Taken
    <2>3. Len(seqs) \in Nat /\ DOMAIN seqs = 1 .. Len(seqs)
      BY <1>2, LenProperties
    <2>4. \A i \in DOMAIN seqs : seqs[i] \in Seq(Classes)
      BY <1>2, <2>3, ElementOfSeq
    <2>5. y \in Classes
      <3>1. 1 \in 1 .. Len(seqs[f])
        BY <2>1, <2>4, EmptySeq
      <3> QED BY <2>1, <2>2, <2>4, <3>1, ElementOfSeq
    <2> DEFINE w == Without(y, seqs)
    <2>6. MergeStep(m) = [seqs |-> w, result |-> Append(m.result, y)]
      BY <1>1, <1>4, <2>2 DEF MergeStep
    <2>7. /\ DOMAIN w = DOMAIN seqs
          /\ \A i \in DOMAIN seqs :
               w[i] = IF seqs[i] # <<>> /\ seqs[i][1] = y THEN Tail(seqs[i]) ELSE seqs[i]
      BY DEF Without
    <2>8. w \in Seq(Seq(Classes))
      <3>1. \A i \in 1 .. Len(seqs) : w[i] \in Seq(Classes)
        BY <2>3, <2>4, <2>7, TailIs
      <3>2. w \in [1 .. Len(seqs) -> Seq(Classes)]
        BY <2>3, <3>1 DEF Without
      <3> HIDE DEF w
      <3> QED BY <2>3, <3>2
    <2> HIDE DEF w
    <2>9. Append(m.result, y) \in Seq(Classes)
      BY <1>2, <2>5, Appended
    <2>10. MergeStep(m) \in Merges
      BY <2>6, <2>8, <2>9 DEF Merges
    <2>11. MergeStep(m).seqs = w /\ MergeStep(m).result = Append(m.result, y)
      BY <2>6
    <2> QED BY <1>1, <1>4, <2>1, <2>2, <2>5, <2>7, <2>10, <2>11
  <1> QED BY <1>3, <1>4

LEMMA MergeGoesOn ==
  ASSUME NEW from \in Seq(Seq(Classes)), NEW c \in Classes, NEW m, Merging(c, from, m)
  PROVE  /\ Merging(c, from, MergeStep(m))
         /\ FirstGood(m.seqs) # 0 => Len(MergeStep(m).result) = Len(m.result) + 1
  <1>1. m \in Merges /\ MergeStep(m) \in Merges
    BY MergeStepIs DEF Merging, Merges
  <1>2. CASE FirstGood(m.seqs) = 0
    BY <1>1, <1>2, MergeStepIs
  <1>3. CASE FirstGood(m.seqs) # 0
    <2>1. PICK seqs, r, y, m2 : seqs = m.seqs /\ r = m.result /\ y = Taken(m) /\ m2 = MergeStep(m)
      OBVIOUS
    <2>2. /\ m2 \in Merges /\ y \in Classes /\ IsGood(y, seqs)
          /\ m2.result = Append(r, y) /\ DOMAIN m2.seqs = DOMAIN seqs
          /\ \A i \in DOMAIN seqs :
               m2.seqs[i] = IF seqs[i] # <<>> /\ seqs[i][1] = y THEN Tail(seqs[i]) ELSE seqs[i]
      BY <1>1, <1>3, <2>1, MergeStepIs
    <2>3. PICK f \in DOMAIN seqs : seqs[f] # <<>> /\ seqs[f][1] = y
      BY <1>1, <1>3, <2>1, MergeStepIs
    <2>4. /\ r \in Seq(Classes) /\ r # <<>> /\ r[1] = c /\ IsInjective(r)
          /\ ToSet(r) \subseteq {c} \cup AllOf(from) /\ DOMAIN seqs = DOMAIN from
          /\ \A i \in DOMAIN from : IsEnd(seqs[i], from[i], r) /\ Keeps(r, from[i])
      BY <2>1 DEF Merging
    <2>5. y \notin ToSet(r) /\ y \in AllOf(from)
      <3>1. seqs[f] \in Seq(Classes) /\ from[f] \in Seq(Classes)
        BY <2>3, <2>4 DEF IsEnd
      <3>2. /\ Len(seqs[f]) \in Nat \ {0} /\ Len(from[f]) \in Nat /\ Len(seqs[f]) <= Len(from[f])
            /\ DOMAIN from[f] = 1 .. Len(from[f])
        BY <2>3, <2>4, <3>1, LenProperties, EmptySeq DEF IsEnd
      <3>3. 1 \in 1 .. Len(seqs[f]) /\ 1 + Gone(seqs[f], from[f]) \in DOMAIN from[f]
        BY <3>2 DEF Gone
      <3>4. y = from[f][1 + Gone(seqs[f], from[f])] /\ y \notin ToSet(r)
        BY <2>3, <2>4, <3>3 DEF IsEnd
      <3> HIDE DEF Gone
      <3> QED BY <2>3, <2>4, <3>3, <3>4 DEF AllOf, ToSet
    <2>6. \A i \in DOMAIN seqs : \A j \in 2 .. Len(seqs[i]) : seqs[i][j] # y
      BY <2>2 DEF IsGood
    <2>7. ASSUME NEW i \in DOMAIN from
          PROVE  IsEnd(m2.seqs[i], from[i], m2.result) /\ Keeps(m2.result, from[i])
      <3>1. Keeps(m2.result, from[i])
        BY <2>2, <2>4, <2>5, <2>6, OrderIsKept
      <3>2. CASE seqs[i] # <<>> /\ seqs[i][1] = y
        <4>1. IsEnd(seqs[i], from[i], r) /\ i \in DOMAIN seqs
          BY <2>4
        <4>2. IsEnd(Tail(seqs[i]), from[i], Append(r, y))
          BY <2>2, <2>4, <2>5, <2>6, <3>2, <4>1, EndIsTaken
        <4> QED BY <2>2, <3>1, <3>2, <4>1, <4>2
      <3>3. CASE seqs[i] = <<>> \/ seqs[i][1] # y
        BY <2>2, <2>4, <2>5, <2>6, <3>1, <3>3, EndIsPassed
      <3> QED BY <3>2, <3>3
    <2>8. /\ m2.result # <<>> /\ m2.result[1] = c /\ IsInjective(m2.result)
          /\ ToSet(m2.result) = ToSet(r) \cup {y} /\ Len(m2.result) = Len(r) + 1
      <3>1. 1 \in 1 .. Len(r)
        BY <2>4, EmptySeq
      <3>2. IsInjective(Append(r, y))
        BY <2>2, <2>4, <2>5, AppendedIsLast
      <3>3. /\ Append(r, y) # <<>> /\ Append(r, y)[1] = r[1]
            /\ ToSet(Append(r, y)) = ToSet(r) \cup {y} /\ Len(Append(r, y)) = Len(r) + 1
        BY <2>2, <2>4, <3>1, Appended
      <3> QED BY <2>2, <2>4, <3>2, <3>3
    <2>9. Merging(c, from, m2)
      BY <2>2, <2>4, <2>5, <2>7, <2>8 DEF Merging, Merges
    <2> QED BY <2>1, <2>8, <2>9
  <1> QED BY <1>2, <1>3

Merged(c, from) ==
  CHOOSE merged : merged = [n \in Nat |-> IF n = 0 THEN [seqs |-> from, result |-> <<c>>]
                                          ELSE MergeStep(merged[n - 1])]

LEMMA MergedIs ==
  ASSUME NEW from \in Seq(Seq(Classes)), NEW c \in Classes
  PROVE  /\ Merged(c, from)[0] = [seqs |-> from, result |-> <<c>>]
         /\ \A n \in Nat : Merged(c, from)[n + 1] = MergeStep(Merged(c, from)[n])
  <1> DEFINE first == [seqs |-> from, result |-> <<c>>]
             F == [m \in Merges |-> MergeStep(m)]
             Is(u) == u = [n \in Nat |-> IF n = 0 THEN first ELSE MergeStep(u[n - 1])]
  <1>1. first \in Merges
    BY DEF Merges
  <1>2. F \in [Merges -> Merges]
    BY MergeStepIs
  <1>3. PICK g \in [Nat -> Merges] : g[0] = first /\ \A n \in Nat : g[n + 1] = F[g[n]]
    <2> HIDE DEF first, F
    <2>1. \E g \in [Nat -> Merges] : Iterates(g, F, first)
      BY <1>1, <1>2, Iteration
    <2> QED BY <2>1 DEF Iterates
  <1>4. Is(g)
    <2> HIDE DEF first
    <2>1. ASSUME NEW n \in Nat
          PROVE  g[n] = IF n = 0 THEN first ELSE MergeStep(g[n - 1])
      <3>1. CASE n = 0
        BY <1>3, <3>1
      <3>2. CASE n # 0
        <4>1. n - 1 \in Nat /\ (n - 1) + 1 = n
          BY <3>2
        <4>2. g[n] = F[g[n - 1]] /\ g[n - 1] \in Merges
          BY <1>3, <4>1
        <4> QED BY <3>2, <4>2
      <3> QED BY <3>1, <3>2
    <2> QED BY <1>3, <2>1
  <1>5. Is(Merged(c, from))
    <2>1. Merged(c, from) = CHOOSE u : Is(u)
      BY DEF Merged
    <2> HIDE DEF Is
    <2> QED BY <1>4, <2>1
  <1> DEFINE u == Merged(c, from)
  <1>6. \A n \in Nat : u[n] = IF n = 0 THEN first ELSE MergeStep(u[n - 1])
    BY <1>5
  <1> HIDE DEF u, first
  <1>7. u[0] = first
    BY <1>6
  <1>8. ASSUME NEW n \in Nat
        PROVE  u[n + 1] = MergeStep(u[n])
    <2>1. n + 1 \in Nat /\ n + 1 # 0 /\ (n + 1) - 1 = n
      OBVIOUS
    <2> QED BY <1>6, <2>1
  <1> QED BY <1>7, <1>8 DEF u, first

(* An order without repetitions is not longer than there are classes.      *)
LEMMA OrderIsShort ==
  ASSUME NEW r \in Seq(Classes), IsInjective(r)
  PROVE  Len(r) \in Nat /\ Len(r) <= Cardinality(Classes)
  <1>1. Len(r) \in Nat /\ r \in [1 .. Len(r) -> Classes]
    BY LenProperties
  <1>2. IsFiniteSet(1 .. Len(r)) /\ Cardinality(1 .. Len(r)) = Len(r)
    BY <1>1, FS_Interval
  <1>3. IsFiniteSet(Classes) /\ Cardinality(Classes) \in Nat
    BY ClassesAssumption, FS_CardinalityType
  <1>4. \A i, j \in 1 .. Len(r) : i # j => r[i] # r[j]
    BY <1>1 DEF IsInjective
  <1>5. ~(Cardinality(1 .. Len(r)) > Cardinality(Classes))
    <2>1. ASSUME Cardinality(1 .. Len(r)) > Cardinality(Classes)
          PROVE  \E i, j \in 1 .. Len(r) : i # j /\ r[i] = r[j]
      BY <1>1, <1>2, <1>3, <2>1, FS_PigeonHole
    <2> QED BY <1>4, <2>1
  <1> QED BY <1>1, <1>2, <1>3, <1>5

(* The merge goes on until no head is good.                                *)
LEMMA MergeEnds ==
  ASSUME NEW from \in Seq(Seq(Classes)), NEW c \in Classes, c \notin AllOf(from)
  PROVE  \E m : Merge(c, from) = m.result /\ Merging(c, from, m) /\ FirstGood(m.seqs) = 0
  <1> DEFINE u == Merged(c, from)
             N == Cardinality(Classes)
  <1>1. /\ u[0] = [seqs |-> from, result |-> <<c>>]
        /\ \A n \in Nat : u[n + 1] = MergeStep(u[n])
    BY MergedIs
  <1>2. Merge(c, from) = u[N].result
    BY DEF Merge, Merged
  <1> HIDE DEF u
  <1>3. \A n \in Nat : Merging(c, from, u[n])
    <2> DEFINE T == {n \in Nat : Merging(c, from, u[n])}
    <2>1. 0 \in T
      BY <1>1, MergeBegins
    <2>2. \A n \in Nat : n \in T => n + 1 \in T
      BY <1>1, MergeGoesOn
    <2> HIDE DEF T
    <2>3. \A n \in Nat : n \in T
      BY <2>1, <2>2, Induct
    <2> QED BY <2>3 DEF T
  <1>4. \A n \in Nat : FirstGood(u[n].seqs) = 0 \/ Len(u[n].result) = n + 1
    <2> DEFINE T == {n \in Nat : FirstGood(u[n].seqs) = 0 \/ Len(u[n].result) = n + 1}
    <2>1. 0 \in T
      <3>1. u[0].result = <<c>>
        BY <1>1
      <3>2. Len(u[0].result) = 0 + 1
        BY <3>1
      <3> QED BY <3>2
    <2>2. ASSUME NEW n \in Nat, n \in T
          PROVE  n + 1 \in T
      <3>1. u[n + 1] = MergeStep(u[n]) /\ Merging(c, from, u[n])
        BY <1>1, <1>3
      <3>2. CASE FirstGood(u[n].seqs) = 0
        <4>1. u[n + 1] = u[n]
          BY <3>1, <3>2, MergeStepIs DEF Merging, Merges
        <4> QED BY <3>2, <4>1
      <3>3. CASE FirstGood(u[n].seqs) # 0
        <4>1. Len(u[n + 1].result) = Len(u[n].result) + 1
          BY <3>1, <3>3, MergeGoesOn
        <4> QED BY <2>2, <3>3, <4>1
      <3> QED BY <3>2, <3>3
    <2> HIDE DEF T
    <2>3. \A n \in Nat : n \in T
      BY <2>1, <2>2, Induct
    <2> QED BY <2>3 DEF T
  <1>5. N \in Nat
    BY ClassesAssumption, FS_CardinalityType
  <1>6. u[N].result \in Seq(Classes) /\ IsInjective(u[N].result)
    BY <1>3, <1>5 DEF Merging
  <1>7. FirstGood(u[N].seqs) = 0
    <2>1. Len(u[N].result) <= N /\ Len(u[N].result) \in Nat
      BY <1>6, OrderIsShort
    <2> HIDE DEF N
    <2> QED BY <1>4, <1>5, <2>1
  <1> QED BY <1>2, <1>3, <1>5, <1>7

-------------------------------------------------------------------------------
(* What makes an order of class c: of the bases bs, the orders mr.         *)
Precedes(bs, mr, c, x, y) ==
  \/ x = c /\ y # c
  \/ Before(bs[c], x, y)
  \/ \E b \in ToSet(bs[c]) : Before(mr[b], x, y)

HasOrder(bs, mr, c) ==
  \A S \in SUBSET Ancestry(bs, c) :
    S # {} => \E x \in S : \A y \in S : ~Precedes(bs, mr, c, y, x)

IsOrder(bs, mr, c) ==
  /\ mr[c] \in Seq(Classes) /\ mr[c] # <<>> /\ mr[c][1] = c
  /\ IsInjective(mr[c])
  /\ ToSet(mr[c]) \subseteq Ancestry(bs, c)

(* The order is complete, it is as it must be, and so a class is before    *)
(* all that it inherits from.                                              *)
IsC3(bs, mr, c) ==
  /\ ToSet(mr[c]) = Ancestry(bs, c)
  /\ \A x, y \in Ancestry(bs, c) : Precedes(bs, mr, c, x, y) => Before(mr[c], x, y)
  /\ \A a \in Ancestry(bs, c) : \A x \in Ancestry(bs, a) : x # a => Before(mr[c], a, x)

(* What is merged.                                                         *)
From(mr, q) == Append([i \in DOMAIN q |-> mr[q[i]]], q)

LEMMA FromIs ==
  ASSUME NEW mr \in Bases, NEW q \in Seq(Classes)
  PROVE  /\ From(mr, q) \in Seq(Seq(Classes))
         /\ \A b \in ToSet(q) : \E i \in DOMAIN From(mr, q) : From(mr, q)[i] = mr[b]
         /\ \E i \in DOMAIN From(mr, q) : From(mr, q)[i] = q
         /\ \A i \in DOMAIN From(mr, q) :
              From(mr, q)[i] = q \/ \E b \in ToSet(q) : From(mr, q)[i] = mr[b]
  <1>1. Len(q) \in Nat /\ DOMAIN q = 1 .. Len(q) /\ \A i \in 1 .. Len(q) : q[i] \in Classes
    BY LenProperties, ElementOfSeq
  <1> DEFINE f == [i \in DOMAIN q |-> mr[q[i]]]
  <1>2. f \in Seq(Seq(Classes)) /\ Len(f) = Len(q) /\ \A i \in 1 .. Len(q) : f[i] = mr[q[i]]
    <2>1. f \in [1 .. Len(q) -> Seq(Classes)]
      BY <1>1 DEF Bases
    <2>2. \A i \in 1 .. Len(q) : f[i] = mr[q[i]]
      BY <1>1
    <2> HIDE DEF f
    <2> QED BY <1>1, <2>1, <2>2
  <1> HIDE DEF f
  <1>3. PICK g : g = From(mr, q)
    OBVIOUS
  <1>4. /\ g \in Seq(Seq(Classes)) /\ DOMAIN g = 1 .. Len(q) + 1
        /\ \A i \in 1 .. Len(q) : g[i] = f[i]
        /\ g[Len(q) + 1] = q
    <2>1. g = Append(f, q)
      BY <1>3 DEF From, f
    <2>2. /\ Append(f, q) \in Seq(Seq(Classes)) /\ DOMAIN Append(f, q) = 1 .. Len(f) + 1
          /\ \A i \in 1 .. Len(f) : Append(f, q)[i] = f[i]
          /\ Append(f, q)[Len(f) + 1] = q
      BY <1>2, Appended
    <2> QED BY <1>2, <2>1, <2>2
  <1>5. \A i \in 1 .. Len(q) : g[i] = mr[q[i]]
    BY <1>2, <1>4
  <1>6. ASSUME NEW b \in ToSet(q)
        PROVE  \E i \in DOMAIN g : g[i] = mr[b]
    <2>1. PICK i \in 1 .. Len(q) : q[i] = b
      BY <1>1 DEF ToSet
    <2>2. i \in DOMAIN g
      BY <1>1, <1>4
    <2> QED BY <1>5, <2>1, <2>2
  <1>7. Len(q) + 1 \in DOMAIN g
    BY <1>1, <1>4
  <1>8. ASSUME NEW i \in DOMAIN g
        PROVE  g[i] = q \/ \E b \in ToSet(q) : g[i] = mr[b]
    <2>1. CASE i = Len(q) + 1
      BY <1>4, <2>1
    <2>2. CASE i # Len(q) + 1
      <3>1. i \in 1 .. Len(q)
        BY <1>1, <1>4, <2>2
      <3>2. q[i] \in ToSet(q)
        BY <1>1, <3>1 DEF ToSet
      <3> QED BY <1>5, <3>1, <3>2
    <2> QED BY <2>1, <2>2
  <1> QED BY <1>3, <1>4, <1>6, <1>7, <1>8

LEMMA BeforeIsIn ==
  ASSUME NEW s, NEW x, NEW y, Before(s, x, y)
  PROVE  x \in ToSet(s) /\ y \in ToSet(s)
  BY DEF Before, ToSet

(* The merge leaves nothing if what must precede what goes in no circle.   *)
LEMMA NothingIsLeft ==
  ASSUME NEW from \in Seq(Seq(Classes)), NEW c \in Classes, NEW m, Merging(c, from, m),
         FirstGood(m.seqs) = 0,
         \A S \in SUBSET AllOf(from) :
           S # {} => \E x \in S : \A y \in S, i \in DOMAIN from : ~Before(from[i], y, x)
  PROVE  AllOf(from) \subseteq ToSet(m.result)
  <1>1. PICK seqs, r : seqs = m.seqs /\ r = m.result
    OBVIOUS
  <1>2. /\ seqs \in Seq(Seq(Classes)) /\ DOMAIN seqs = DOMAIN from
        /\ \A i \in DOMAIN from : IsEnd(seqs[i], from[i], r)
    BY <1>1 DEF Merging
  <1>3. ASSUME NEW i \in DOMAIN from
        PROVE  /\ Len(seqs[i]) \in Nat /\ Len(from[i]) \in Nat /\ Len(seqs[i]) <= Len(from[i])
               /\ DOMAIN seqs[i] = 1 .. Len(seqs[i]) /\ DOMAIN from[i] = 1 .. Len(from[i])
               /\ Gone(seqs[i], from[i]) = Len(from[i]) - Len(seqs[i])
               /\ \A j \in 1 .. Len(seqs[i]) : seqs[i][j] = from[i][j + Gone(seqs[i], from[i])]
    BY <1>2, LenProperties DEF IsEnd, Gone
  <1>4. ASSUME NEW i \in DOMAIN from, NEW j \in DOMAIN seqs[i], NEW k \in DOMAIN seqs[i], j < k
        PROVE  Before(from[i], seqs[i][j], seqs[i][k])
    <2>1. PICK g : g = Gone(seqs[i], from[i])
      OBVIOUS
    <2>2. j + g \in DOMAIN from[i] /\ k + g \in DOMAIN from[i] /\ j + g < k + g
      BY <1>3, <1>4, <2>1
    <2>3. seqs[i][j] = from[i][j + g] /\ seqs[i][k] = from[i][k + g]
      BY <1>3, <2>1
    <2> QED BY <2>2, <2>3 DEF Before
  <1>5. AllOf(seqs) \in SUBSET AllOf(from)
    <2> SUFFICES ASSUME NEW i \in DOMAIN seqs, NEW j \in DOMAIN seqs[i]
                 PROVE  seqs[i][j] \in AllOf(from)
      BY DEF AllOf, ToSet
    <2>1. PICK g : g = Gone(seqs[i], from[i])
      OBVIOUS
    <2>2. i \in DOMAIN from
      BY <1>2
    <2>3. /\ j \in 1 .. Len(seqs[i]) /\ g = Len(from[i]) - Len(seqs[i])
          /\ Len(seqs[i]) \in Nat /\ Len(from[i]) \in Nat /\ Len(seqs[i]) <= Len(from[i])
          /\ DOMAIN from[i] = 1 .. Len(from[i])
      BY <1>3, <2>1, <2>2
    <2>4. j + g \in DOMAIN from[i] /\ seqs[i][j] = from[i][j + g]
      BY <1>3, <2>1, <2>2, <2>3
    <2>5. from[i][j + g] \in ToSet(from[i])
      BY <2>4 DEF ToSet
    <2> QED BY <2>2, <2>4, <2>5 DEF AllOf
  <1>6. AllOf(seqs) = {}
    <2>1. SUFFICES ASSUME AllOf(seqs) # {}
                   PROVE  FALSE
      OBVIOUS
    <2>2. PICK x \in AllOf(seqs) :
            \A y \in AllOf(seqs), i \in DOMAIN from : ~Before(from[i], y, x)
      BY <1>5, <2>1
    <2>3. \A i \in DOMAIN from : \A j, k \in DOMAIN seqs[i] : j < k => seqs[i][k] # x
      BY <1>2, <1>4, <2>2 DEF AllOf, ToSet
    <2>4. IsGood(x, seqs)
      <3> SUFFICES ASSUME NEW i \in DOMAIN seqs, NEW k \in 2 .. Len(seqs[i])
                   PROVE  seqs[i][k] # x
        BY DEF IsGood
      <3>1. 1 \in DOMAIN seqs[i] /\ k \in DOMAIN seqs[i] /\ 1 < k
        BY <1>2, <1>3
      <3> QED BY <1>2, <2>3, <3>1
    <2>5. PICK i \in DOMAIN seqs : \E k \in DOMAIN seqs[i] : seqs[i][k] = x
      BY DEF AllOf, ToSet
    <2>6. PICK k \in DOMAIN seqs[i] : seqs[i][k] = x
      BY <2>5
    <2>7. k = 1 /\ seqs[i] # <<>>
      <3>1. Len(seqs[i]) \in Nat /\ k \in 1 .. Len(seqs[i]) /\ 1 \in DOMAIN seqs[i]
        BY <1>2, <1>3
      <3>2. ~(1 < k)
        BY <1>2, <2>3, <2>6, <3>1
      <3>3. seqs[i] # <<>>
        BY <3>1
      <3> QED BY <3>1, <3>2, <3>3
    <2> QED BY <1>1, <1>2, <2>4, <2>6, <2>7, FirstGoodIs
  <1>7. ASSUME NEW i \in DOMAIN from, NEW j \in DOMAIN from[i]
        PROVE  from[i][j] \in ToSet(r)
    <2>1. Len(seqs[i]) = 0
      <3>1. ASSUME NEW k \in DOMAIN seqs[i]
            PROVE  FALSE
        <4>1. seqs[i][k] \in ToSet(seqs[i])
          BY DEF ToSet
        <4>2. seqs[i][k] \in AllOf(seqs)
          BY <1>2, <4>1 DEF AllOf
        <4> QED BY <1>6, <4>2
      <3>2. DOMAIN seqs[i] = 1 .. Len(seqs[i]) /\ Len(seqs[i]) \in Nat
        BY <1>3
      <3>3. ~(1 \in 1 .. Len(seqs[i]))
        BY <3>1, <3>2
      <3> QED BY <3>2, <3>3
    <2>2. j \in 1 .. Gone(seqs[i], from[i])
      BY <1>3, <2>1
    <2> HIDE DEF Gone
    <2> QED BY <1>2, <2>2 DEF IsEnd
  <1> QED BY <1>1, <1>7 DEF AllOf, ToSet

-------------------------------------------------------------------------------
(* A class c is made of the bases q, which are in M, with the order o.     *)
Makes(M, bs, mr, c, q, bs2, mr2) ==
  /\ M \in SUBSET Classes /\ c \in Classes \ M
  /\ bs \in Bases /\ mr \in Bases /\ bs2 \in Bases /\ mr2 \in Bases
  /\ q \in Seq(M) /\ bs2[c] = q
  /\ mr2[c] = IF q = <<>> THEN <<c>> ELSE Merge(c, From(mr, q))
  /\ \A k \in M : bs2[k] = bs[k] /\ mr2[k] = mr[k]
  /\ Closed(bs, M) /\ \A k \in M : IsOrder(bs, mr, k)

LEMMA MadeOf ==
  ASSUME NEW M, NEW bs, NEW mr, NEW c, NEW q, NEW bs2, NEW mr2,
         Makes(M, bs, mr, c, q, bs2, mr2)
  PROVE  /\ q \in Seq(Classes) /\ ToSet(q) \subseteq M
         /\ \A k \in M : /\ Ancestry(bs2, k) = Ancestry(bs, k) /\ Ancestry(bs, k) \subseteq M
                         /\ ToSet(bs[k]) \subseteq M
         /\ \A b \in ToSet(q) : Ancestry(bs, b) \subseteq Ancestry(bs2, c)
         /\ \A x \in Ancestry(bs2, c) : x = c \/ \E b \in ToSet(q) : x \in Ancestry(bs, b)
         /\ IsAncestry(bs2, c, Ancestry(bs2, c))
  <1>1. q \in Seq(Classes) /\ ToSet(q) \subseteq M
    <2>1. q \in Seq(M)
      BY DEF Makes
    <2>2. \A i \in DOMAIN q : q[i] \in M
      BY <2>1, LenProperties, ElementOfSeq
    <2>3. q \in Seq(Classes)
      BY <2>1, SeqMonotonic DEF Makes
    <2> QED BY <2>2, <2>3 DEF ToSet
  <1>2. \A k \in M : Ancestry(bs2, k) = Ancestry(bs, k) /\ Ancestry(bs, k) \subseteq M
    BY AncestrySame DEF Makes
  <1>3. \A k \in M : ToSet(bs[k]) \subseteq M
    BY DEF Makes, Closed
  <1>4. c \in Classes /\ bs2 \in Bases /\ ToSet(bs2[c]) = ToSet(q)
    BY DEF Makes
  <1>5. IsAncestry(bs2, c, Ancestry(bs2, c))
    BY <1>4, AncestryIs
  <1>6. \A b \in ToSet(q) : Ancestry(bs2, b) \subseteq Ancestry(bs2, c)
    BY <1>4, AncestryOfBases, AncestryOfAncestor
  <1>7. \A x \in Ancestry(bs2, c) : x = c \/ \E b \in ToSet(q) : x \in Ancestry(bs2, b)
    BY <1>4, AncestryOfBases
  <1> QED BY <1>1, <1>2, <1>3, <1>5, <1>6, <1>7

LEMMA AllFrom ==
  ASSUME NEW M, NEW bs, NEW mr, NEW c, NEW q, NEW bs2, NEW mr2,
         Makes(M, bs, mr, c, q, bs2, mr2)
  PROVE  /\ From(mr, q) \in Seq(Seq(Classes))
         /\ AllOf(From(mr, q)) \subseteq Ancestry(bs2, c)
         /\ c \notin AllOf(From(mr, q))
         /\ \A b \in ToSet(q) : ToSet(mr[b]) \subseteq AllOf(From(mr, q))
         /\ \A x, y : Precedes(bs2, mr2, c, x, y) <=>
                        (x = c /\ y # c) \/ \E i \in DOMAIN From(mr, q) : Before(From(mr, q)[i], x, y)
  <1>1. PICK from : from = From(mr, q)
    OBVIOUS
  <1>8. mr \in Bases /\ q \in Seq(Classes)
    BY MadeOf DEF Makes
  <1>2. /\ from \in Seq(Seq(Classes))
        /\ \A b \in ToSet(q) : \E i \in DOMAIN from : from[i] = mr[b]
        /\ \E i \in DOMAIN from : from[i] = q
        /\ \A i \in DOMAIN from : from[i] = q \/ \E b \in ToSet(q) : from[i] = mr[b]
    BY <1>1, <1>8, FromIs
  <1>3. /\ ToSet(q) \subseteq M /\ c \notin M
        /\ \A b \in ToSet(q) : /\ ToSet(mr[b]) \subseteq Ancestry(bs, b)
                               /\ Ancestry(bs, b) \subseteq M /\ b \in Ancestry(bs, b)
                               /\ Ancestry(bs, b) \subseteq Ancestry(bs2, c)
    <2>1. \A b \in M : ToSet(mr[b]) \subseteq Ancestry(bs, b)
      BY DEF Makes, IsOrder
    <2>2. \A b \in M : b \in Ancestry(bs, b)
      BY AncestryIs DEF Makes, IsAncestry
    <2> QED BY <2>1, <2>2, MadeOf DEF Makes
  <1>4. AllOf(from) \subseteq Ancestry(bs2, c) /\ c \notin AllOf(from)
    <2>1. \A i \in DOMAIN from : ToSet(from[i]) \subseteq Ancestry(bs2, c) /\ c \notin ToSet(from[i])
      BY <1>2, <1>3
    <2> QED BY <2>1 DEF AllOf
  <1>5. \A b \in ToSet(q) : ToSet(mr[b]) \subseteq AllOf(from)
    BY <1>2 DEF AllOf
  <1>6. /\ bs2[c] = q /\ \A b \in ToSet(q) : mr2[b] = mr[b]
    BY <1>3 DEF Makes
  <1>7. ASSUME NEW x, NEW y
        PROVE  Precedes(bs2, mr2, c, x, y) <=>
                 (x = c /\ y # c) \/ \E i \in DOMAIN from : Before(from[i], x, y)
    <2>1. ASSUME Before(q, x, y) \/ \E b \in ToSet(q) : Before(mr[b], x, y)
          PROVE  \E i \in DOMAIN from : Before(from[i], x, y)
      BY <1>2, <2>1
    <2>2. ASSUME NEW i \in DOMAIN from, Before(from[i], x, y)
          PROVE  Before(q, x, y) \/ \E b \in ToSet(q) : Before(mr[b], x, y)
      <3>1. CASE from[i] = q
        BY <2>2, <3>1
      <3>2. CASE from[i] # q
        <4>1. PICK b \in ToSet(q) : from[i] = mr[b]
          BY <1>2, <3>2
        <4> QED BY <2>2, <4>1
      <3> QED BY <3>1, <3>2
    <2>3. Precedes(bs2, mr2, c, x, y) <=>
            (x = c /\ y # c) \/ Before(q, x, y) \/ \E b \in ToSet(q) : Before(mr[b], x, y)
      <3>1. Precedes(bs2, mr2, c, x, y) <=>
              (x = c /\ y # c) \/ Before(q, x, y) \/ \E b \in ToSet(q) : Before(mr2[b], x, y)
        BY <1>6 DEF Precedes
      <3> QED BY <1>6, <3>1
    <2> QED BY <2>1, <2>2, <2>3
  <1> QED BY <1>1, <1>2, <1>4, <1>5, <1>7

(* A class without bases has itself alone.                                 *)
LEMMA RootIsC3 ==
  ASSUME NEW M, NEW bs, NEW mr, NEW c, NEW q, NEW bs2, NEW mr2,
         Makes(M, bs, mr, c, q, bs2, mr2), q = <<>>
  PROVE  IsOrder(bs2, mr2, c) /\ IsC3(bs2, mr2, c)
  <1>1. PICK r : r = mr2[c]
    OBVIOUS
  <1>2. r = <<c>> /\ bs2[c] = q /\ c \in Classes
    BY <1>1 DEF Makes
  <1>3. r \in Seq(Classes) /\ r # <<>> /\ r[1] = c /\ DOMAIN r = 1 .. 1
    BY <1>2
  <1>4. ToSet(r) = {c} /\ IsInjective(r)
    BY <1>3 DEF ToSet, IsInjective
  <1>5. ToSet(q) = {}
    BY DEF ToSet
  <1>6. Ancestry(bs2, c) = {c}
    BY <1>5, MadeOf DEF IsAncestry
  <1>7. IsOrder(bs2, mr2, c)
    BY <1>1, <1>3, <1>4, <1>6 DEF IsOrder
  <1>8. ~Precedes(bs2, mr2, c, c, c)
    BY <1>2, <1>5 DEF Precedes, Before
  <1> QED BY <1>1, <1>4, <1>6, <1>7, <1>8 DEF IsC3

(* Otherwise it has what a merge comes to that finds no good head.         *)
LEMMA ResultOf ==
  ASSUME NEW M, NEW bs, NEW mr, NEW c, NEW q, NEW bs2, NEW mr2,
         Makes(M, bs, mr, c, q, bs2, mr2), q # <<>>
  PROVE  /\ \E m : /\ mr2[c] = m.result /\ Merging(c, From(mr, q), m)
                   /\ FirstGood(m.seqs) = 0
         /\ IsOrder(bs2, mr2, c)
  <1>1. PICK from : from = From(mr, q)
    OBVIOUS
  <1>2. /\ from \in Seq(Seq(Classes)) /\ c \notin AllOf(from)
        /\ AllOf(from) \subseteq Ancestry(bs2, c)
    BY <1>1, AllFrom
  <1>3. c \in Classes /\ mr2[c] = Merge(c, from)
    BY <1>1 DEF Makes
  <1>4. PICK m : Merge(c, from) = m.result /\ Merging(c, from, m) /\ FirstGood(m.seqs) = 0
    BY <1>2, <1>3, MergeEnds
  <1>5. c \in Ancestry(bs2, c)
    BY MadeOf DEF IsAncestry
  <1>6. IsOrder(bs2, mr2, c)
    BY <1>2, <1>3, <1>4, <1>5 DEF Merging, IsOrder
  <1> QED BY <1>1, <1>3, <1>4, <1>6

LEMMA NewIsC3 ==
  ASSUME NEW M, NEW bs, NEW mr, NEW c, NEW q, NEW bs2, NEW mr2,
         Makes(M, bs, mr, c, q, bs2, mr2), HasOrder(bs2, mr2, c),
         \A b \in ToSet(q) : IsC3(bs, mr, b)
  PROVE  IsC3(bs2, mr2, c)
  <1>1. CASE q = <<>>
    BY <1>1, RootIsC3
  <1>2. CASE q # <<>>
    <2>1. PICK from, A : from = From(mr, q) /\ A = Ancestry(bs2, c)
      OBVIOUS
    <2>2. PICK m : mr2[c] = m.result /\ Merging(c, from, m) /\ FirstGood(m.seqs) = 0
      BY <1>2, <2>1, ResultOf
    <2>3. PICK r : r = m.result
      OBVIOUS
    <2>4. /\ from \in Seq(Seq(Classes)) /\ AllOf(from) \subseteq A /\ c \notin AllOf(from)
          /\ \A b \in ToSet(q) : ToSet(mr[b]) \subseteq AllOf(from)
          /\ \A x, y : Precedes(bs2, mr2, c, x, y) <=>
                         (x = c /\ y # c) \/ \E i \in DOMAIN from : Before(from[i], x, y)
      BY <2>1, AllFrom
    <2>5. AllOf(from) \subseteq ToSet(r)
      <3>1. \A S \in SUBSET AllOf(from) :
              S # {} => \E x \in S : \A y \in S, i \in DOMAIN from : ~Before(from[i], y, x)
        BY <2>1, <2>4 DEF HasOrder
      <3> QED BY <2>2, <2>3, <2>4, <3>1, NothingIsLeft DEF Makes
    <2>6. /\ r \in Seq(Classes) /\ r # <<>> /\ r[1] = c
          /\ ToSet(r) \subseteq {c} \cup AllOf(from)
          /\ \A i \in DOMAIN from : Keeps(r, from[i])
      BY <2>2, <2>3 DEF Merging
    <2>7. 1 \in DOMAIN r /\ DOMAIN r = 1 .. Len(r) /\ Len(r) \in Nat
      BY <2>6, LenProperties, EmptySeq
    <2>8. /\ \A b \in ToSet(q) : ToSet(mr[b]) = Ancestry(bs, b)
          /\ \A b \in ToSet(q) : \A a \in Ancestry(bs, b) : \A x \in Ancestry(bs, a) :
               x # a => Before(mr[b], a, x)
      BY DEF IsC3
    <2>9. /\ c \in A /\ ToSet(q) \subseteq M
          /\ \A k \in M : Ancestry(bs2, k) = Ancestry(bs, k) /\ Ancestry(bs, k) \subseteq M
          /\ \A x \in A : x = c \/ \E b \in ToSet(q) : x \in Ancestry(bs, b)
      BY <2>1, MadeOf DEF IsAncestry
    <2>10. ToSet(r) = A
      <3>1. c \in ToSet(r)
        BY <2>6, <2>7 DEF ToSet
      <3>2. A \subseteq ToSet(r)
        BY <2>4, <2>5, <2>8, <2>9, <3>1
      <3> QED BY <2>4, <2>6, <2>9, <3>2
    <2>11. ASSUME NEW x \in A, NEW y \in A, Precedes(bs2, mr2, c, x, y)
           PROVE  Before(r, x, y)
      <3>1. PICK j \in DOMAIN r : r[j] = y
        BY <2>10 DEF ToSet
      <3>2. CASE x = c /\ y # c
        <4>1. 1 < j
          BY <2>6, <2>7, <3>1, <3>2
        <4> QED BY <2>6, <2>7, <3>1, <3>2, <4>1 DEF Before
      <3>3. CASE \E i \in DOMAIN from : Before(from[i], x, y)
        <4>1. PICK i \in DOMAIN from : Before(from[i], x, y)
          BY <3>3
        <4>2. Keeps(r, from[i]) /\ y \in ToSet(r)
          BY <2>6, <2>10
        <4>3. PICK k, l \in DOMAIN from[i] : k < l /\ from[i][k] = x /\ from[i][l] = y
          BY <4>1 DEF Before
        <4> QED BY <4>2, <4>3 DEF Keeps
      <3> QED BY <2>4, <2>11, <3>2, <3>3
    <2>12. ASSUME NEW a \in A, NEW x \in Ancestry(bs2, a), x # a
           PROVE  Before(r, a, x)
      <3>1. CASE a = c
        <4>1. x \in A /\ Precedes(bs2, mr2, c, a, x)
          BY <2>1, <2>12, <3>1 DEF Precedes
        <4> QED BY <2>11, <4>1
      <3>2. CASE a # c
        <4>1. PICK b \in ToSet(q) : a \in Ancestry(bs, b)
          BY <2>9, <3>2
        <4>2. x \in Ancestry(bs, a) /\ b \in M /\ a \in M
          BY <2>9, <2>12, <4>1
        <4>3. Before(mr[b], a, x)
          BY <2>8, <2>12, <4>1, <4>2
        <4>4. mr2[b] = mr[b] /\ bs2[c] = q
          BY <4>2 DEF Makes
        <4>5. Precedes(bs2, mr2, c, a, x)
          BY <4>1, <4>3, <4>4 DEF Precedes
        <4>6. x \in A
          BY <2>4, <2>9, <4>1, <4>3, BeforeIsIn
        <4> QED BY <2>11, <4>5, <4>6
      <3> QED BY <3>1, <3>2
    <2> QED BY <2>1, <2>2, <2>3, <2>10, <2>11, <2>12 DEF IsC3
  <1> QED BY <1>1, <1>2

-------------------------------------------------------------------------------
(* The classes that have an order by the definition of the specification.  *)
Left(c) ==
  CHOOSE left : left = [n \in Nat |-> IF n = 0 THEN Ancestors(c) ELSE Preceded(c, left[n - 1])]

LEMMA LeftIs ==
  ASSUME NEW c
  PROVE  /\ Left(c)[0] = Ancestors(c)
         /\ \A n \in Nat : Left(c)[n + 1] = Preceded(c, Left(c)[n])
  <1> DEFINE S == SUBSET Ancestors(c)
             F == [A \in S |-> Preceded(c, A)]
             Is(u) == u = [n \in Nat |-> IF n = 0 THEN Ancestors(c) ELSE Preceded(c, u[n - 1])]
  <1>1. Ancestors(c) \in S /\ F \in [S -> S]
    BY DEF Preceded
  <1>2. PICK g \in [Nat -> S] : g[0] = Ancestors(c) /\ \A n \in Nat : g[n + 1] = F[g[n]]
    <2> HIDE DEF S, F
    <2>1. \E g \in [Nat -> S] : Iterates(g, F, Ancestors(c))
      BY <1>1, Iteration
    <2> QED BY <2>1 DEF Iterates
  <1>3. Is(g)
    <2>1. ASSUME NEW n \in Nat
          PROVE  g[n] = IF n = 0 THEN Ancestors(c) ELSE Preceded(c, g[n - 1])
      <3>1. CASE n = 0
        BY <1>2, <3>1
      <3>2. CASE n # 0
        <4>1. n - 1 \in Nat /\ (n - 1) + 1 = n
          BY <3>2
        <4>2. g[n] = F[g[n - 1]] /\ g[n - 1] \in S
          BY <1>2, <4>1
        <4> QED BY <3>2, <4>2
      <3> QED BY <3>1, <3>2
    <2> QED BY <1>2, <2>1
  <1>4. Is(Left(c))
    <2>1. Left(c) = CHOOSE u : Is(u)
      BY DEF Left
    <2> HIDE DEF Is
    <2> QED BY <1>3, <2>1
  <1> DEFINE u == Left(c)
  <1>5. \A n \in Nat : u[n] = IF n = 0 THEN Ancestors(c) ELSE Preceded(c, u[n - 1])
    BY <1>4
  <1> HIDE DEF u
  <1>6. u[0] = Ancestors(c)
    BY <1>5
  <1>7. ASSUME NEW n \in Nat
        PROVE  u[n + 1] = Preceded(c, u[n])
    <2>1. n + 1 \in Nat /\ n + 1 # 0 /\ (n + 1) - 1 = n
      OBVIOUS
    <2> QED BY <1>5, <2>1
  <1> QED BY <1>6, <1>7 DEF u

LEMMA OrderableHasOrder ==
  ASSUME NEW c \in Classes, bases \in Bases, Orderable(c)
  PROVE  HasOrder(bases, mro, c)
  <1> DEFINE u == Left(c)
             N == Cardinality(Ancestors(c))
  <1>1. /\ u[0] = Ancestors(c)
        /\ \A n \in Nat : u[n + 1] = Preceded(c, u[n])
    BY LeftIs
  <1>2. u[N] = {}
    BY DEF Orderable, Left
  <1>3. N \in Nat
    <2>1. Ancestors(c) \in SUBSET Classes
      BY AncestorsAre, AncestryIs DEF IsAncestry
    <2> QED BY <2>1, ClassesAssumption, FS_Subset, FS_CardinalityType
  <1> HIDE DEF u, N
  <1>4. SUFFICES ASSUME NEW S \in SUBSET Ancestors(c), S # {},
                        \A x \in S : \E y \in S : Precedes(bases, mro, c, y, x)
                 PROVE  FALSE
    BY AncestorsAre DEF HasOrder
  <1>5. \A x \in S : \E y \in S : MustPrecede(c, y, x)
    BY <1>4 DEF MustPrecede, Precedes
  <1>6. \A n \in Nat : S \subseteq u[n]
    <2> DEFINE T == {n \in Nat : S \subseteq u[n]}
    <2>1. 0 \in T
      BY <1>1
    <2>2. ASSUME NEW n \in Nat, n \in T
          PROVE  n + 1 \in T
      <3>1. u[n + 1] = Preceded(c, u[n])
        BY <1>1
      <3> QED BY <1>5, <2>2, <3>1 DEF Preceded
    <2> HIDE DEF T
    <2>3. \A n \in Nat : n \in T
      BY <2>1, <2>2, Induct
    <2> QED BY <2>3 DEF T
  <1> QED BY <1>2, <1>3, <1>4, <1>6

-------------------------------------------------------------------------------
(* What a class made before has it keeps; and so the orders of all classes *)
(* are right when another is made.                                         *)
Right(bs, mr, k) == (\A a \in Ancestry(bs, k) : HasOrder(bs, mr, a)) => IsC3(bs, mr, k)

LEMMA OldIsSame ==
  ASSUME NEW M, NEW bs, NEW mr, NEW c, NEW q, NEW bs2, NEW mr2,
         Makes(M, bs, mr, c, q, bs2, mr2), NEW k \in M
  PROVE  /\ IsOrder(bs2, mr2, k)
         /\ HasOrder(bs2, mr2, k) <=> HasOrder(bs, mr, k)
         /\ IsC3(bs2, mr2, k) <=> IsC3(bs, mr, k)
  <1>1. /\ \A a \in M : Ancestry(bs2, a) = Ancestry(bs, a) /\ Ancestry(bs, a) \subseteq M
                         /\ ToSet(bs[a]) \subseteq M
        /\ \A a \in M : bs2[a] = bs[a] /\ mr2[a] = mr[a]
        /\ IsOrder(bs, mr, k)
    <2>1. /\ \A a \in M : bs2[a] = bs[a] /\ mr2[a] = mr[a]
          /\ IsOrder(bs, mr, k)
      BY DEF Makes
    <2> QED BY <2>1, MadeOf
  <1>2. \A x, y : Precedes(bs2, mr2, k, x, y) <=> Precedes(bs, mr, k, x, y)
    <2>1. bs2[k] = bs[k] /\ \A b \in ToSet(bs[k]) : mr2[b] = mr[b]
      BY <1>1
    <2> QED BY <2>1 DEF Precedes
  <1>3. IsOrder(bs2, mr2, k)
    BY <1>1 DEF IsOrder
  <1>4. HasOrder(bs2, mr2, k) <=> HasOrder(bs, mr, k)
    BY <1>1, <1>2 DEF HasOrder
  <1>5. \A a \in Ancestry(bs, k) : Ancestry(bs2, a) = Ancestry(bs, a)
    BY <1>1
  <1>6. mr2[k] = mr[k] /\ Ancestry(bs2, k) = Ancestry(bs, k)
    BY <1>1
  <1>7. IsC3(bs2, mr2, k) <=> IsC3(bs, mr, k)
    BY <1>2, <1>5, <1>6 DEF IsC3
  <1> QED BY <1>3, <1>4, <1>7

LEMMA AllAreRight ==
  ASSUME NEW M, NEW bs, NEW mr, NEW c, NEW q, NEW bs2, NEW mr2,
         Makes(M, bs, mr, c, q, bs2, mr2), \A k \in M : Right(bs, mr, k)
  PROVE  \A k \in M \cup {c} : IsOrder(bs2, mr2, k) /\ Right(bs2, mr2, k)
  <1>1. /\ ToSet(q) \subseteq M
        /\ \A k \in M : Ancestry(bs2, k) = Ancestry(bs, k) /\ Ancestry(bs, k) \subseteq M
        /\ \A b \in ToSet(q) : Ancestry(bs, b) \subseteq Ancestry(bs2, c)
        /\ c \in Ancestry(bs2, c)
    BY MadeOf DEF IsAncestry
  <1>2. \A k \in M : /\ IsOrder(bs2, mr2, k)
                     /\ HasOrder(bs2, mr2, k) <=> HasOrder(bs, mr, k)
                     /\ IsC3(bs2, mr2, k) <=> IsC3(bs, mr, k)
    BY OldIsSame
  <1>3. \A k \in M : Right(bs2, mr2, k)
    BY <1>1, <1>2 DEF Right
  <1>4. IsOrder(bs2, mr2, c)
    BY RootIsC3, ResultOf
  <1>5. Right(bs2, mr2, c)
    <2>1. SUFFICES ASSUME \A a \in Ancestry(bs2, c) : HasOrder(bs2, mr2, a)
                   PROVE  IsC3(bs2, mr2, c)
      BY DEF Right
    <2>2. \A b \in ToSet(q) : IsC3(bs, mr, b)
      <3>1. ASSUME NEW b \in ToSet(q)
            PROVE  \A a \in Ancestry(bs, b) : HasOrder(bs, mr, a)
        BY <1>1, <1>2, <2>1
      <3> QED BY <1>1, <3>1 DEF Right
    <2>3. HasOrder(bs2, mr2, c)
      BY <1>1, <2>1
    <2> QED BY <2>2, <2>3, NewIsC3
  <1> QED BY <1>2, <1>3, <1>4, <1>5

-------------------------------------------------------------------------------
(* The inductive invariant.  The classes made are closed under bases and   *)
(* have right orders.  A chain begins with the first class that has the    *)
(* method, and goes on behind it; while all go on by super(C, self), each  *)
(* is behind the one before, and no class that has it was passed over.     *)
TypeOK ==
  /\ made \in SUBSET Classes /\ bases \in Bases /\ mro \in Bases
  /\ methods \in [Classes -> SUBSET Methods]
  /\ self \in Classes \cup {Nobody} /\ name \in Methods
  /\ chain \in Seq(Classes) /\ forms \subseteq Forms

OrdersInv ==
  /\ Closed(bases, made)
  /\ \A k \in made : IsOrder(bases, mro, k) /\ Right(bases, mro, k)

Searched == mro[self]

HasIt(x) == x \in ToSet(Searched) /\ name \in methods[x]

InOrder == \A i, j \in DOMAIN chain : i < j => Before(Searched, chain[i], chain[j])

NonePassed ==
  \A i \in DOMAIN chain : \A x \in ToSet(Searched) :
    HasIt(x) /\ Before(Searched, x, chain[i]) => \E j \in DOMAIN chain : j < i /\ chain[j] = x

ChainInv ==
  chain # <<>> =>
    /\ self \in made
    /\ chain[1] = LookupMethod(self, name)
    /\ \A i \in DOMAIN chain : HasIt(chain[i])
    /\ \A i \in DOMAIN chain : i > 1 => Before(Searched, chain[1], chain[i])
    /\ forms \subseteq {"explicit"} => InOrder /\ NonePassed

IInv == TypeOK /\ OrdersInv /\ ChainInv

(* What a search finds.                                                    *)
LEMMA OrderedBy ==
  ASSUME NEW s \in Seq(Classes), IsInjective(s)
  PROVE  /\ \A x, y : Before(s, x, y) => x # y /\ ~Before(s, y, x)
         /\ \A x, y, z : Before(s, x, y) /\ Before(s, y, z) => Before(s, x, z)
         /\ \A x, y \in ToSet(s) : x = y \/ Before(s, x, y) \/ Before(s, y, x)
  <1>1. DOMAIN s = 1 .. Len(s) /\ Len(s) \in Nat
    BY LenProperties
  <1>2. \A i, j \in DOMAIN s : s[i] = s[j] => i = j
    BY DEF IsInjective
  <1>3. ASSUME NEW x, NEW y, Before(s, x, y)
        PROVE  x # y /\ ~Before(s, y, x)
    <2>1. PICK i, j \in DOMAIN s : i < j /\ s[i] = x /\ s[j] = y
      BY <1>3 DEF Before
    <2>2. x # y
      BY <1>1, <1>2, <2>1
    <2>3. ASSUME NEW k \in DOMAIN s, NEW l \in DOMAIN s, k < l, s[k] = y, s[l] = x
          PROVE  FALSE
      <3>1. k = j /\ l = i
        BY <1>2, <2>1, <2>3
      <3> QED BY <1>1, <2>1, <2>3, <3>1
    <2> QED BY <2>2, <2>3 DEF Before
  <1>4. ASSUME NEW x, NEW y, NEW z, Before(s, x, y), Before(s, y, z)
        PROVE  Before(s, x, z)
    <2>1. PICK i, j \in DOMAIN s : i < j /\ s[i] = x /\ s[j] = y
      BY <1>4 DEF Before
    <2>2. PICK k, l \in DOMAIN s : k < l /\ s[k] = y /\ s[l] = z
      BY <1>4 DEF Before
    <2>3. j = k
      BY <1>2, <2>1, <2>2
    <2>4. i < l
      BY <1>1, <2>1, <2>2, <2>3
    <2> QED BY <2>1, <2>2, <2>4 DEF Before
  <1>5. ASSUME NEW x \in ToSet(s), NEW y \in ToSet(s)
        PROVE  x = y \/ Before(s, x, y) \/ Before(s, y, x)
    <2>1. PICK i \in DOMAIN s : s[i] = x
      BY DEF ToSet
    <2>2. PICK j \in DOMAIN s : s[j] = y
      BY DEF ToSet
    <2>3. i = j \/ i < j \/ j < i
      BY <1>1
    <2> QED BY <2>1, <2>2, <2>3 DEF Before
  <1> QED BY <1>3, <1>4, <1>5

LEMMA FirstIs ==
  ASSUME NEW c, NEW m, mro[c] \in Seq(Classes), IsInjective(mro[c]), LookupMethod(c, m) # Nobody
  PROVE  /\ LookupMethod(c, m) \in ToSet(mro[c]) /\ m \in methods[LookupMethod(c, m)]
         /\ \A x : Before(mro[c], x, LookupMethod(c, m)) => m \notin methods[x]
  <1>1. PICK o, n : o = mro[c] /\ n = LookupMethod(c, m)
    OBVIOUS
  <1> DEFINE I == {i \in 1 .. Len(o) : m \in methods[o[i]]}
  <1>2. n = At(c, IF I # {} THEN Min(I) ELSE 0)
    BY <1>1 DEF LookupMethod, SelectInSeq
  <1>3. o \in Seq(Classes) /\ DOMAIN o = 1 .. Len(o) /\ Len(o) \in Nat
    BY <1>1, LenProperties
  <1>4. I # {} /\ I \in SUBSET Nat
    BY <1>1, <1>2, <1>3 DEF At
  <1>5. PICK p : p = Min(I)
    OBVIOUS
  <1>6. p \in I /\ \A k \in I : p <= k
    <2> HIDE DEF I
    <2> QED BY <1>4, <1>5, MinIs
  <1>7. n = o[p] /\ p \in DOMAIN o
    <2>1. p # 0
      BY <1>6
    <2>2. n = At(c, p)
      BY <1>2, <1>4, <1>5
    <2> QED BY <1>1, <1>3, <1>6, <2>1, <2>2 DEF At
  <1>8. n \in ToSet(o) /\ m \in methods[n]
    BY <1>6, <1>7 DEF ToSet
  <1>9. ASSUME NEW x, Before(o, x, n)
        PROVE  m \notin methods[x]
    <2>1. PICK i, j \in DOMAIN o : i < j /\ o[i] = x /\ o[j] = n
      BY <1>9 DEF Before
    <2>2. j = p
      BY <1>1, <1>7, <2>1 DEF IsInjective
    <2>3. ~(p <= i)
      BY <1>3, <1>7, <2>1, <2>2
    <2> QED BY <1>3, <1>6, <2>1, <2>3
  <1> QED BY <1>1, <1>8, <1>9

(* What is found behind class k, or that nothing is.                       *)
LEMMA NextIs ==
  ASSUME NEW c, NEW m, NEW k \in ToSet(mro[c]), mro[c] \in Seq(Classes), IsInjective(mro[c]),
         Nobody \notin Classes
  PROVE  \/ /\ LookupMethodStartingAfter(c, m, k) = Nobody
            /\ \A x : Before(mro[c], k, x) => m \notin methods[x]
         \/ /\ LookupMethodStartingAfter(c, m, k) \in ToSet(mro[c])
            /\ m \in methods[LookupMethodStartingAfter(c, m, k)]
            /\ Before(mro[c], k, LookupMethodStartingAfter(c, m, k))
            /\ \A x : Before(mro[c], k, x) /\ m \in methods[x]
                        => ~Before(mro[c], x, LookupMethodStartingAfter(c, m, k))
  <1>1. PICK o, n : o = mro[c] /\ n = LookupMethodStartingAfter(c, m, k)
    OBVIOUS
  <1>2. o \in Seq(Classes) /\ DOMAIN o = 1 .. Len(o) /\ Len(o) \in Nat
    BY <1>1, LenProperties
  <1> DEFINE K == {i \in 1 .. Len(o) : o[i] = k}
             skip == SelectInSeq(o, LAMBDA j : j = k)
  <1>3. skip \in DOMAIN o /\ o[skip] = k /\ skip # 0
    <2>1. skip = IF K # {} THEN Min(K) ELSE 0
      BY DEF SelectInSeq
    <2>2. K # {} /\ K \in SUBSET Nat
      BY <1>1, <1>2 DEF ToSet
    <2>3. Min(K) \in K
      <3> HIDE DEF K
      <3> QED BY <2>2, MinIs
    <2>4. skip \in K
      BY <2>1, <2>2, <2>3
    <2> HIDE DEF skip
    <2> QED BY <1>2, <2>4
  <1>4. PICK s : s = skip
    OBVIOUS
  <1> DEFINE I == {i \in s + 1 .. Len(o) : m \in methods[o[i]]}
  <1>5. n = At(c, IF I # {} THEN Min(I) ELSE 0)
    <2>1. n = At(c, SelectInSubSeq(o, skip + 1, Len(o), LAMBDA j : m \in methods[j]))
      BY <1>1, <1>3 DEF LookupMethodStartingAfter
    <2> QED BY <1>4, <2>1 DEF SelectInSubSeq
  <1>6. s \in DOMAIN o /\ o[s] = k
    BY <1>3, <1>4
  <1> HIDE DEF skip
  <1>7. \A i, j \in DOMAIN o : o[i] = o[j] => i = j
    BY <1>1 DEF IsInjective
  <1>8. CASE I = {}
    <2>1. n = Nobody
      BY <1>5, <1>8 DEF At
    <2>2. ASSUME NEW x, Before(o, k, x)
          PROVE  m \notin methods[x]
      <3>1. PICK i, j \in DOMAIN o : i < j /\ o[i] = k /\ o[j] = x
        BY <2>2 DEF Before
      <3>2. j \in s + 1 .. Len(o)
        BY <1>2, <1>6, <1>7, <3>1
      <3> QED BY <1>8, <3>1, <3>2
    <2> QED BY <1>1, <2>1, <2>2
  <1>9. CASE I # {}
    <2>1. PICK p : p = Min(I)
      OBVIOUS
    <2>2. p \in I /\ \A i \in I : p <= i
      <3>1. I \in SUBSET Nat
        BY <1>2, <1>6
      <3> HIDE DEF I
      <3> QED BY <1>9, <2>1, <3>1, MinIs
    <2>3. p \in DOMAIN o /\ s < p /\ p # 0
      BY <1>2, <1>6, <2>2
    <2>4. n = o[p]
      BY <1>1, <1>5, <1>9, <2>1, <2>3 DEF At
    <2>5. n \in ToSet(o) /\ m \in methods[n] /\ Before(o, k, n)
      BY <1>6, <2>2, <2>3, <2>4 DEF ToSet, Before
    <2>6. ASSUME NEW x, Before(o, k, x), m \in methods[x], Before(o, x, n)
          PROVE  FALSE
      <3>1. PICK i, j \in DOMAIN o : i < j /\ o[i] = x /\ o[j] = n
        BY <2>6 DEF Before
      <3>2. PICK g, h \in DOMAIN o : g < h /\ o[g] = k /\ o[h] = x
        BY <2>6 DEF Before
      <3>3. g = s /\ h = i /\ j = p
        BY <1>6, <1>7, <2>3, <2>4, <3>1, <3>2
      <3>4. i \in s + 1 .. Len(o) /\ i < p
        BY <1>2, <1>6, <3>1, <3>2, <3>3
      <3>5. p <= i
        BY <2>2, <2>6, <3>1, <3>4
      <3> QED BY <1>2, <2>3, <3>4, <3>5
    <2> QED BY <1>1, <2>5, <2>6
  <1> QED BY <1>8, <1>9

LEMMA TypeAndOrdersInitially == Init => TypeOK /\ OrdersInv
  <1> SUFFICES ASSUME Init
               PROVE  TypeOK /\ OrdersInv
    OBVIOUS
  <1>1. made = {} /\ bases \in Bases /\ mro \in Bases /\ methods \in [Classes -> SUBSET Methods]
    BY DEF Init, Bases
  <1>2. self \in Classes \cup {Nobody} /\ name \in Methods /\ chain \in Seq(Classes)
    BY DEF Init
  <1>3. forms \subseteq Forms
    BY DEF Init
  <1> QED BY <1>1, <1>2, <1>3 DEF TypeOK, OrdersInv, Closed

(* What a class statement does.                                            *)
LEMMA MakeClassMakes ==
  ASSUME TypeOK, OrdersInv, NEW c \in Classes, NEW bs \in BoundedSeq(made, MaxBases),
         NEW ms \in SUBSET MayHave[c], MakeClass(c, bs, ms)
  PROVE  Makes(made, bases, mro, c, bs, bases', mro')
  <1>1. bs \in Seq(made)
    <2>1. PICK n \in 0 .. MaxBases : bs \in [1 .. n -> made]
      BY DEF BoundedSeq, SeqOf
    <2>2. n \in Nat
      BY <2>1, ClassesAssumption
    <2> QED BY <2>1, <2>2
  <1>2. made \in SUBSET Classes /\ bs \in Seq(Classes) /\ c \in Classes \ made
    BY <1>1, SeqMonotonic DEF TypeOK, MakeClass
  <1>3. bases \in [Classes -> Seq(Classes)] /\ mro \in [Classes -> Seq(Classes)]
    BY DEF TypeOK, Bases
  <1>4. bases' = [bases EXCEPT ![c] = bs]
    BY DEF MakeClass
  <1>5. bases' \in Bases /\ bases'[c] = bs /\ \A k \in made : bases'[k] = bases[k]
    BY <1>2, <1>3, <1>4 DEF Bases
  <1> DEFINE o == computeMRO(c, bs)
  <1>6. mro' = [mro EXCEPT ![c] = o]
    BY DEF MakeClass
  <1>7. o = IF bs = <<>> THEN <<c>> ELSE Merge(c, From(mro, bs))
    BY DEF computeMRO, From
  <1> HIDE DEF o
  <1>8. c \notin AllOf(From(mro, bs))
    <2>1. /\ \A i \in DOMAIN From(mro, bs) :
               From(mro, bs)[i] = bs \/ \E b \in ToSet(bs) : From(mro, bs)[i] = mro[b]
      BY <1>2, FromIs DEF TypeOK
    <2>2. \A b \in made : c \notin ToSet(mro[b])
      <3>1. \A b \in made : Ancestry(bases, b) \subseteq made
        BY <1>2, AncestrySame DEF TypeOK, OrdersInv
      <3> QED BY <1>2, <3>1 DEF OrdersInv, IsOrder
    <2>3. ToSet(bs) \subseteq made
      <3>1. \A i \in DOMAIN bs : bs[i] \in made
        BY <1>1, LenProperties, ElementOfSeq
      <3> QED BY <3>1 DEF ToSet
    <2>4. \A i \in DOMAIN From(mro, bs) : c \notin ToSet(From(mro, bs)[i])
      BY <1>2, <2>1, <2>2, <2>3
    <2> QED BY <2>4 DEF AllOf
  <1>9. o \in Seq(Classes)
    <2>1. CASE bs = <<>>
      BY <1>7, <2>1
    <2>2. CASE bs # <<>>
      <3>1. From(mro, bs) \in Seq(Seq(Classes))
        BY <1>2, FromIs DEF TypeOK
      <3>2. \E m : Merge(c, From(mro, bs)) = m.result /\ Merging(c, From(mro, bs), m)
        BY <1>8, <3>1, MergeEnds
      <3> QED BY <1>7, <2>2, <3>2 DEF Merging
    <2> QED BY <2>1, <2>2
  <1>10. mro' \in Bases /\ mro'[c] = o /\ \A k \in made : mro'[k] = mro[k]
    BY <1>2, <1>3, <1>6, <1>9 DEF Bases
  <1>11. Closed(bases, made) /\ \A k \in made : IsOrder(bases, mro, k)
    BY DEF OrdersInv
  <1> QED BY <1>1, <1>2, <1>5, <1>7, <1>10, <1>11 DEF Makes, TypeOK

LEMMA MakeClassKeeps ==
  ASSUME TypeOK, OrdersInv, NEW c \in Classes, NEW bs \in BoundedSeq(made, MaxBases),
         NEW ms \in SUBSET MayHave[c], MakeClass(c, bs, ms)
  PROVE  TypeOK' /\ OrdersInv'
  <1>1. Makes(made, bases, mro, c, bs, bases', mro')
    BY MakeClassMakes
  <1>2. made' = made \cup {c} /\ bases' \in Bases /\ mro' \in Bases /\ made' \in SUBSET Classes
    BY <1>1 DEF Makes, MakeClass
  <1>3. methods' \in [Classes -> SUBSET Methods]
    <2>1. ms \in SUBSET Methods
      BY ClassesAssumption
    <2> QED BY <2>1 DEF TypeOK, MakeClass
  <1>4. TypeOK'
    BY <1>2, <1>3 DEF TypeOK, MakeClass
  <1>5. Closed(bases', made')
    <2>1. bases'[c] = bs /\ \A k \in made : bases'[k] = bases[k]
      BY <1>1 DEF Makes
    <2>2. ToSet(bs) \subseteq made /\ \A k \in made : ToSet(bases[k]) \subseteq made
      BY <1>1, MadeOf
    <2> QED BY <1>2, <2>1, <2>2 DEF Closed
  <1>6. \A k \in made' : IsOrder(bases', mro', k) /\ Right(bases', mro', k)
    <2>1. \A k \in made : Right(bases, mro, k)
      BY DEF OrdersInv
    <2> QED BY <1>1, <1>2, <2>1, AllAreRight
  <1> QED BY <1>4, <1>5, <1>6 DEF OrdersInv

(* The steps of a chain leave the classes alone.                           *)
LEMMA SameClasses ==
  ASSUME TypeOK, OrdersInv, UNCHANGED <<made, bases, mro, methods>>,
         self' \in Classes \cup {Nobody}, name' \in Methods,
         chain' \in Seq(Classes), forms' \subseteq Forms
  PROVE  TypeOK' /\ OrdersInv'
  <1>1. TypeOK'
    BY DEF TypeOK
  <1>2. made' = made /\ bases' = bases /\ mro' = mro
    OBVIOUS
  <1>3. OrdersInv'
    BY <1>2 DEF OrdersInv
  <1> QED BY <1>1, <1>3

(* The order that is searched.                                             *)
LEMMA SearchedIs ==
  ASSUME TypeOK, OrdersInv, self \in made
  PROVE  Searched \in Seq(Classes) /\ IsInjective(Searched) /\ ToSet(Searched) \subseteq Classes
  <1>1. IsOrder(bases, mro, self)
    BY DEF OrdersInv
  <1>2. Searched \in Seq(Classes) /\ IsInjective(Searched)
    BY <1>1 DEF IsOrder, Searched
  <1>3. \A i \in DOMAIN Searched : Searched[i] \in Classes
    BY <1>2, LenProperties, ElementOfSeq
  <1> QED BY <1>2, <1>3 DEF ToSet

LEMMA CallMethodKeeps ==
  ASSUME TypeOK, OrdersInv, NEW c \in Classes, NEW m \in Methods, CallMethod(c, m)
  PROVE  TypeOK' /\ OrdersInv' /\ ChainInv'
  <1>1. PICK k : k = LookupMethod(c, m)
    OBVIOUS
  <1>2. /\ self' = c /\ name' = m /\ chain' = <<k>> /\ c \in made /\ k # Nobody
        /\ UNCHANGED <<made, bases, mro, methods, forms>>
    BY <1>1 DEF CallMethod
  <1>3. mro[c] \in Seq(Classes) /\ IsInjective(mro[c])
    BY <1>2 DEF OrdersInv, IsOrder
  <1>4. /\ k \in ToSet(mro[c]) /\ m \in methods[k]
        /\ \A x : Before(mro[c], x, k) => m \notin methods[x]
    BY <1>1, <1>2, <1>3, FirstIs
  <1>5. k \in Classes
    <2>1. \A i \in DOMAIN mro[c] : mro[c][i] \in Classes
      BY <1>3, LenProperties, ElementOfSeq
    <2> QED BY <1>4, <2>1 DEF ToSet
  <1>6. TypeOK' /\ OrdersInv'
    <2>1. chain' \in Seq(Classes) /\ forms' \subseteq Forms
      BY <1>2, <1>5 DEF TypeOK
    <2> QED BY <1>2, <2>1, SameClasses
  <1>7. DOMAIN chain' = {1} /\ chain'[1] = k
    <2>1. DOMAIN <<k>> = 1 .. 1 /\ <<k>>[1] = k
      OBVIOUS
    <2> QED BY <1>2, <2>1
  <1>8. Searched' = mro[c]
    BY <1>2 DEF Searched
  <1>9. chain'[1] = LookupMethod(self, name)'
    BY <1>1, <1>2, <1>7 DEF LookupMethod, At, SelectInSeq
  <1>10. HasIt(k)'
    BY <1>2, <1>4, <1>8 DEF HasIt
  <1>11. InOrder' /\ NonePassed'
    <2>1. InOrder'
      BY <1>7 DEF InOrder
    <2>2. \A x : HasIt(x)' => ~Before(Searched, x, k)'
      BY <1>2, <1>4, <1>8 DEF HasIt, Before
    <2> QED BY <1>7, <2>1, <2>2 DEF NonePassed
  <1>12. ChainInv'
    BY <1>2, <1>7, <1>9, <1>10, <1>11 DEF ChainInv
  <1> QED BY <1>6, <1>12

(* A call behind k, the last of the chain or the first.                    *)
LEMMA CallBehindAdds ==
  ASSUME TypeOK, OrdersInv, ChainInv, chain # <<>>, NEW k \in {Last(chain), chain[1]},
         CallBehind(k)
  PROVE  \E next \in Classes :
           /\ chain' = Append(chain, next) /\ UNCHANGED <<made, bases, mro, methods, self, name>>
           /\ HasIt(k) /\ HasIt(next) /\ Before(Searched, k, next)
           /\ \A x : HasIt(x) /\ Before(Searched, k, x) => ~Before(Searched, x, next)
           /\ Before(Searched, chain[1], next)
  <1>1. PICK next : next = LookupMethodStartingAfter(self, name, k)
    OBVIOUS
  <1>2. /\ next # Nobody /\ chain' = Append(chain, next)
        /\ UNCHANGED <<made, bases, mro, methods, self, name>>
    BY <1>1 DEF CallBehind
  <1>3. /\ chain \in Seq(Classes) /\ DOMAIN chain = 1 .. Len(chain) /\ Len(chain) \in Nat \ {0}
        /\ 1 \in DOMAIN chain /\ Len(chain) \in DOMAIN chain
    BY LenProperties, EmptySeq DEF TypeOK
  <1>4. /\ self \in made /\ \A i \in DOMAIN chain : HasIt(chain[i])
        /\ \A i \in DOMAIN chain : i > 1 => Before(Searched, chain[1], chain[i])
    BY DEF ChainInv
  <1>5. HasIt(k) /\ (k = chain[1] \/ Before(Searched, chain[1], k))
    <2>1. CASE k = chain[1]
      BY <1>3, <1>4, <2>1
    <2>2. CASE k = Last(chain)
      <3>1. k = chain[Len(chain)]
        BY <2>2 DEF Last
      <3>2. Len(chain) = 1 \/ Len(chain) > 1
        BY <1>3
      <3> QED BY <1>3, <1>4, <3>1, <3>2
    <2> QED BY <2>1, <2>2
  <1>6. /\ Searched \in Seq(Classes) /\ IsInjective(Searched) /\ ToSet(Searched) \subseteq Classes
    BY <1>4, SearchedIs
  <1>7. /\ next \in ToSet(Searched) /\ name \in methods[next] /\ Before(Searched, k, next)
        /\ \A x : Before(Searched, k, x) /\ name \in methods[x] => ~Before(Searched, x, next)
    <2>1. k \in ToSet(mro[self]) /\ mro[self] \in Seq(Classes) /\ IsInjective(mro[self])
      BY <1>5, <1>6 DEF HasIt, Searched
    <2> QED BY <1>1, <1>2, <2>1, NextIs, ClassesAssumption DEF Searched
  <1>8. Before(Searched, chain[1], next)
    BY <1>5, <1>6, <1>7, OrderedBy
  <1>9. next \in Classes /\ HasIt(next)
    BY <1>6, <1>7 DEF HasIt
  <1> QED BY <1>2, <1>5, <1>7, <1>8, <1>9 DEF HasIt

(* What a longer chain keeps of the one before, however it was called.     *)
LEMMA LongerChain ==
  ASSUME TypeOK, OrdersInv, ChainInv, chain # <<>>, NEW next \in Classes,
         chain' = Append(chain, next), UNCHANGED <<made, bases, mro, methods, self, name>>,
         forms' \subseteq Forms, HasIt(next), Before(Searched, chain[1], next)
  PROVE  /\ TypeOK' /\ OrdersInv' /\ self' \in made' /\ chain'[1] = LookupMethod(self, name)'
         /\ \A i \in DOMAIN chain' : HasIt(chain[i])'
         /\ \A i \in DOMAIN chain' : i > 1 => Before(Searched, chain[1], chain[i])'
  <1>1. /\ chain' \in Seq(Classes) /\ Len(chain) \in Nat
        /\ DOMAIN chain = 1 .. Len(chain) /\ DOMAIN chain' = 1 .. Len(chain) + 1
        /\ \A i \in 1 .. Len(chain) : chain'[i] = chain[i]
        /\ chain'[Len(chain) + 1] = next
    BY Appended DEF TypeOK
  <1>2. 1 \in DOMAIN chain
    BY <1>1, EmptySeq DEF TypeOK
  <1>3. TypeOK' /\ OrdersInv'
    <2>1. self' \in Classes \cup {Nobody} /\ name' \in Methods
      BY DEF TypeOK
    <2> QED BY <1>1, <2>1, SameClasses
  <1>4. Searched' = Searched /\ \A x : HasIt(x)' <=> HasIt(x)
    BY DEF Searched, HasIt
  <1>5. chain'[1] = chain[1]
    BY <1>1, <1>2
  <1>6. LookupMethod(self, name)' = LookupMethod(self, name)
    BY DEF LookupMethod, At, SelectInSeq
  <1>7. /\ self \in made /\ chain[1] = LookupMethod(self, name)
        /\ \A i \in DOMAIN chain : HasIt(chain[i])
        /\ \A i \in DOMAIN chain : i > 1 => Before(Searched, chain[1], chain[i])
    BY DEF ChainInv
  <1>8. ASSUME NEW i \in DOMAIN chain'
        PROVE  HasIt(chain'[i]) /\ (i > 1 => Before(Searched, chain[1], chain'[i]))
    <2>1. CASE i \in DOMAIN chain
      BY <1>1, <1>7, <2>1
    <2>2. CASE i = Len(chain) + 1
      BY <1>1, <2>2
    <2> QED BY <1>1, <2>1, <2>2
  <1>9. \A i \in DOMAIN chain' : HasIt(chain[i])'
    BY <1>4, <1>8 DEF HasIt
  <1>10. \A i \in DOMAIN chain' : i > 1 => Before(Searched, chain[1], chain[i])'
    BY <1>4, <1>5, <1>8 DEF Before
  <1> QED BY <1>3, <1>5, <1>6, <1>7, <1>9, <1>10

LEMMA SuperBareKeeps ==
  ASSUME TypeOK, OrdersInv, ChainInv, SuperBare
  PROVE  TypeOK' /\ OrdersInv' /\ ChainInv'
  <1>1. chain # <<>> /\ CallBehind(chain[1]) /\ forms' = forms \cup {"bare"}
    BY DEF SuperBare, ChainInv
  <1>2. PICK next \in Classes :
          /\ chain' = Append(chain, next) /\ UNCHANGED <<made, bases, mro, methods, self, name>>
          /\ HasIt(next) /\ Before(Searched, chain[1], next)
    BY <1>1, CallBehindAdds
  <1>3. forms' \subseteq Forms /\ ~(forms' \subseteq {"explicit"})
    BY <1>1 DEF TypeOK, Forms
  <1> QED BY <1>1, <1>2, <1>3, LongerChain DEF ChainInv

LEMMA SuperExplicitKeeps ==
  ASSUME TypeOK, OrdersInv, ChainInv, SuperExplicit
  PROVE  TypeOK' /\ OrdersInv' /\ ChainInv'
  <1>1. PICK last : last = Last(chain)
    OBVIOUS
  <1>2. chain # <<>> /\ CallBehind(last) /\ forms' = forms \cup {"explicit"}
    BY <1>1 DEF SuperExplicit
  <1>3. PICK next \in Classes :
          /\ chain' = Append(chain, next) /\ UNCHANGED <<made, bases, mro, methods, self, name>>
          /\ HasIt(last) /\ HasIt(next) /\ Before(Searched, last, next)
          /\ \A x : HasIt(x) /\ Before(Searched, last, x) => ~Before(Searched, x, next)
          /\ Before(Searched, chain[1], next)
    BY <1>1, <1>2, CallBehindAdds
  <1>4. forms' \subseteq Forms
    BY <1>2 DEF TypeOK, Forms
  <1>5. /\ TypeOK' /\ OrdersInv' /\ self' \in made' /\ chain'[1] = LookupMethod(self, name)'
        /\ \A i \in DOMAIN chain' : HasIt(chain[i])'
        /\ \A i \in DOMAIN chain' : i > 1 => Before(Searched, chain[1], chain[i])'
    BY <1>2, <1>3, <1>4, LongerChain
  <1>6. ASSUME forms' \subseteq {"explicit"}
        PROVE  InOrder' /\ NonePassed'
    <2>1. InOrder /\ NonePassed /\ self \in made
      BY <1>2, <1>6 DEF ChainInv
    <2>2. PICK n : n = Len(chain)
      OBVIOUS
    <2>3. /\ n \in Nat \ {0} /\ DOMAIN chain = 1 .. n /\ DOMAIN chain' = 1 .. n + 1
          /\ \A i \in 1 .. n : chain'[i] = chain[i]
          /\ chain'[n + 1] = next /\ chain[n] = last
      <3>1. chain \in Seq(Classes)
        BY DEF TypeOK
      <3>2. n # 0
        BY <1>2, <2>2, <3>1, EmptySeq
      <3> QED BY <1>1, <1>3, <2>2, <3>1, <3>2, Appended DEF Last
    <2>4. Searched' = Searched /\ \A x : HasIt(x)' <=> HasIt(x)
      BY <1>3 DEF Searched, HasIt
    <2>5. /\ \A x, y : Before(Searched, x, y) => x # y /\ ~Before(Searched, y, x)
          /\ \A x, y, z : Before(Searched, x, y) /\ Before(Searched, y, z)
                            => Before(Searched, x, z)
          /\ \A x, y \in ToSet(Searched) :
               x = y \/ Before(Searched, x, y) \/ Before(Searched, y, x)
      BY <2>1, SearchedIs, OrderedBy
    <2>6. ASSUME NEW i \in 1 .. n + 1, NEW j \in 1 .. n + 1, i < j
          PROVE  Before(Searched, chain'[i], chain'[j])
      <3>1. CASE j \in 1 .. n
        BY <1>6, <2>1, <2>3, <2>6, <3>1 DEF InOrder
      <3>2. CASE j = n + 1
        <4>1. i \in 1 .. n /\ (i = n \/ i < n) /\ n \in 1 .. n
          BY <2>3, <2>6, <3>2
        <4>2. i = n \/ Before(Searched, chain[i], last)
          BY <2>1, <2>3, <4>1 DEF InOrder
        <4> QED BY <1>3, <2>3, <2>5, <3>2, <4>1, <4>2
      <3> QED BY <2>3, <3>1, <3>2
    <2>7. ASSUME NEW i \in 1 .. n + 1, NEW x \in ToSet(Searched), HasIt(x),
                 Before(Searched, x, chain'[i])
          PROVE  \E j \in 1 .. n + 1 : j < i /\ chain'[j] = x
      <3>1. CASE i \in 1 .. n
        <4>1. \E j \in 1 .. n : j < i /\ chain[j] = x
          BY <2>1, <2>3, <2>7, <3>1 DEF NonePassed
        <4> QED BY <2>3, <4>1
      <3>2. CASE i = n + 1
        <4>1. n \in 1 .. n /\ n \in 1 .. n + 1 /\ n < i /\ chain'[n] = last
          BY <2>3, <3>2
        <4>2. x = last \/ Before(Searched, x, last)
          BY <1>3, <2>3, <2>5, <2>7, <3>2 DEF HasIt
        <4>3. CASE x = last
          BY <4>1, <4>3
        <4>4. CASE Before(Searched, x, last)
          <5>1. PICK j \in 1 .. n : j < n /\ chain[j] = x
            BY <2>1, <2>3, <2>7, <4>1, <4>4 DEF NonePassed
          <5>2. j \in 1 .. n + 1 /\ j < i
            BY <2>3, <3>2, <5>1
          <5> QED BY <2>3, <5>1, <5>2
        <4> QED BY <4>2, <4>3, <4>4
      <3> QED BY <2>3, <3>1, <3>2
    <2>8. InOrder'
      BY <2>3, <2>4, <2>6 DEF InOrder, Before
    <2>9. NonePassed'
      <3>1. \A i \in DOMAIN chain' : \A x \in ToSet(Searched) :
              HasIt(x) /\ Before(Searched, x, chain'[i])
                => \E j \in DOMAIN chain' : j < i /\ chain'[j] = x
        BY <2>3, <2>7
      <3> QED BY <2>4, <3>1 DEF NonePassed
    <2> QED BY <2>8, <2>9
  <1> QED BY <1>5, <1>6 DEF ChainInv

LEMMA FrontIs ==
  ASSUME NEW s \in Seq(Classes), s # <<>>
  PROVE  /\ Len(s) \in Nat \ {0} /\ DOMAIN s = 1 .. Len(s)
         /\ Front(s) \in Seq(Classes) /\ DOMAIN Front(s) = 1 .. Len(s) - 1
         /\ \A i \in 1 .. Len(s) - 1 : Front(s)[i] = s[i]
  <1>1. Len(s) \in Nat \ {0} /\ DOMAIN s = 1 .. Len(s)
    BY LenProperties, EmptySeq
  <1>2. PICK n : n = Len(s) - 1
    OBVIOUS
  <1>3. n \in Nat /\ \A i \in 1 .. n : s[i] \in Classes
    BY <1>1, <1>2, ElementOfSeq
  <1>4. PICK t : t = SubSeq(s, 1, n)
    OBVIOUS
  <1>5. /\ t \in Seq(Classes) /\ Len(t) = (IF 1 <= n THEN n - 1 + 1 ELSE 0)
        /\ \A i \in 1 .. n - 1 + 1 : t[i] = s[1 + i - 1]
    BY <1>3, <1>4, SubSeqProperties
  <1>6. DOMAIN t = 1 .. n /\ \A i \in 1 .. n : t[i] = s[i]
    <2>1. Len(t) = n
      BY <1>3, <1>5
    <2>2. DOMAIN t = 1 .. n
      BY <1>5, <2>1, LenProperties
    <2>3. ASSUME NEW i \in 1 .. n
          PROVE  t[i] = s[i]
      <3>1. i \in 1 .. n - 1 + 1 /\ 1 + i - 1 = i
        BY <1>3
      <3> QED BY <1>5, <3>1
    <2> QED BY <2>2, <2>3
  <1>7. Front(s) = t
    BY <1>2, <1>4 DEF Front
  <1> QED BY <1>1, <1>2, <1>5, <1>6, <1>7

LEMMA ReturnKeeps ==
  ASSUME TypeOK, OrdersInv, ChainInv, Return
  PROVE  TypeOK' /\ OrdersInv' /\ ChainInv'
  <1>1. /\ chain # <<>> /\ chain' = Front(chain) /\ UNCHANGED <<made, bases, mro, methods, name>>
        /\ self' = (IF Len(chain) = 1 THEN Nobody ELSE self)
        /\ forms' = (IF Len(chain) = 1 THEN {} ELSE forms)
    BY DEF Return
  <1>2. PICK n : n = Len(chain)
    OBVIOUS
  <1>3. /\ n \in Nat \ {0} /\ DOMAIN chain = 1 .. n /\ chain' \in Seq(Classes)
        /\ DOMAIN chain' = 1 .. n - 1 /\ \A i \in 1 .. n - 1 : chain'[i] = chain[i]
    BY <1>1, <1>2, FrontIs DEF TypeOK
  <1>4. TypeOK' /\ OrdersInv'
    <2>1. self' \in Classes \cup {Nobody} /\ name' \in Methods /\ forms' \subseteq Forms
      BY <1>1 DEF TypeOK
    <2> QED BY <1>1, <1>3, <2>1, SameClasses
  <1>5. CASE n = 1
    <2>1. ~(1 \in DOMAIN chain')
      BY <1>3, <1>5
    <2>2. chain' = <<>>
      BY <1>3, <2>1, EmptySeq, LenProperties
    <2> QED BY <1>4, <2>2 DEF ChainInv
  <1>6. CASE n # 1
    <2>1. self' = self /\ forms' = forms
      BY <1>1, <1>2, <1>6
    <2>2. Searched' = Searched /\ \A x : HasIt(x)' <=> HasIt(x)
      BY <1>1, <2>1 DEF Searched, HasIt
    <2>3. LookupMethod(self, name)' = LookupMethod(self, name)
      BY <1>1, <2>1 DEF LookupMethod, At, SelectInSeq
    <2>4. 1 \in 1 .. n - 1 /\ \A i \in 1 .. n - 1 : i \in 1 .. n
      BY <1>3, <1>6
    <2>5. /\ self \in made /\ chain[1] = LookupMethod(self, name)
          /\ \A i \in DOMAIN chain : HasIt(chain[i])
          /\ \A i \in DOMAIN chain : i > 1 => Before(Searched, chain[1], chain[i])
          /\ forms \subseteq {"explicit"} => InOrder /\ NonePassed
      BY <1>1 DEF ChainInv
    <2>6. self' \in made' /\ chain'[1] = LookupMethod(self, name)'
      BY <1>1, <1>3, <2>1, <2>3, <2>4, <2>5
    <2>7. \A i \in DOMAIN chain' : HasIt(chain[i])'
      BY <1>3, <2>2, <2>4, <2>5 DEF HasIt
    <2>8. \A i \in DOMAIN chain' : i > 1 => Before(Searched, chain[1], chain[i])'
      <3>1. \A i \in DOMAIN chain' : i > 1 => Before(Searched, chain'[1], chain'[i])
        BY <1>3, <2>4, <2>5
      <3> QED BY <2>2, <3>1 DEF Before
    <2>9. ASSUME InOrder, NonePassed
          PROVE  InOrder' /\ NonePassed'
      <3>1. \A i, j \in DOMAIN chain' : i < j => Before(Searched, chain'[i], chain'[j])
        BY <1>3, <2>4, <2>9 DEF InOrder
      <3>2. ASSUME NEW i \in DOMAIN chain', NEW x \in ToSet(Searched), HasIt(x),
                   Before(Searched, x, chain'[i])
            PROVE  \E j \in DOMAIN chain' : j < i /\ chain'[j] = x
        <4>1. PICK j \in 1 .. n : j < i /\ chain[j] = x
          BY <1>3, <2>4, <2>9, <3>2 DEF NonePassed
        <4>2. j \in 1 .. n - 1
          BY <1>3, <4>1
        <4> QED BY <1>3, <4>1, <4>2
      <3>3. InOrder'
        BY <2>2, <3>1 DEF InOrder, Before
      <3>4. NonePassed'
        BY <2>2, <3>2 DEF NonePassed
      <3> QED BY <3>3, <3>4
    <2>10. ChainInv'
      BY <2>1, <2>5, <2>6, <2>7, <2>8, <2>9 DEF ChainInv
    <2> QED BY <1>4, <2>10
  <1> QED BY <1>5, <1>6

LEMMA Inductive == IInv /\ [Next]_vars => IInv'
  <1> SUFFICES ASSUME IInv, [Next]_vars
               PROVE  IInv'
    OBVIOUS
  <1>1. TypeOK /\ OrdersInv /\ ChainInv
    BY DEF IInv
  <1>2. ASSUME NEW c \in Classes, NEW bs \in BoundedSeq(made, MaxBases),
               NEW ms \in SUBSET MayHave[c], MakeClass(c, bs, ms)
        PROVE  IInv'
    <2>1. TypeOK' /\ OrdersInv'
      BY <1>1, <1>2, MakeClassKeeps
    <2>2. chain' = <<>>
      BY <1>2 DEF MakeClass
    <2> QED BY <2>1, <2>2 DEF IInv, ChainInv
  <1>3. ASSUME NEW c \in Classes, NEW m \in Methods, CallMethod(c, m)
        PROVE  IInv'
    BY <1>1, <1>3, CallMethodKeeps DEF IInv
  <1>4. CASE SuperExplicit
    BY <1>1, <1>4, SuperExplicitKeeps DEF IInv
  <1>5. CASE SuperBare
    BY <1>1, <1>5, SuperBareKeeps DEF IInv
  <1>6. CASE Return
    BY <1>1, <1>6, ReturnKeeps DEF IInv
  <1>7. CASE UNCHANGED vars
    <2>1. /\ made' = made /\ bases' = bases /\ mro' = mro /\ methods' = methods /\ self' = self
          /\ name' = name /\ chain' = chain /\ forms' = forms
      BY <1>7 DEF vars
    <2>2. TypeOK' /\ OrdersInv'
      BY <1>1, <2>1, SameClasses DEF TypeOK
    <2>3. ChainInv'
      BY <1>1, <2>1 DEF ChainInv, InOrder, NonePassed, HasIt, Searched, Before,
                        LookupMethod, At, SelectInSeq
    <2> QED BY <2>2, <2>3 DEF IInv
  <1> QED BY <1>2, <1>3, <1>4, <1>5, <1>6, <1>7 DEF Next

(* IInv always holds: what Classes keeps to at every step.                 *)
THEOREM Invariant == Spec => []IInv
  <1>1. Init => IInv
    <2>1. Init => chain = <<>>
      BY DEF Init
    <2> QED BY <2>1, TypeAndOrdersInitially DEF IInv, ChainInv
  <1> QED BY <1>1, Inductive, PTL DEF Spec

(* For every set of classes, however they are made of one another: every   *)
(* class gets an order of search that begins with it, searches no class    *)
(* twice and only what it inherits from; and where C3 has an order for the *)
(* class and for all it inherits from, the order is complete and keeps to  *)
(* what C3 asks (computeMRO).                                              *)
THEOREM OrdersOfSearch == Spec => []MroIsC3
  <1>1. IInv => MroIsC3
    <2> SUFFICES ASSUME TypeOK, OrdersInv
                 PROVE  MroIsC3
      BY DEF IInv
    <2>1. MroIsOrder
      BY AncestorsAre DEF MroIsOrder, OrdersInv, IsOrder
    <2>2. ASSUME NEW c \in Sound
          PROVE  IsC3(bases, mro, c)
      <3>1. /\ c \in made /\ Ancestors(c) \subseteq made
            /\ \A a \in Ancestors(c) : Orderable(a)
        BY DEF Sound
      <3>2. \A a \in Ancestry(bases, c) : HasOrder(bases, mro, a)
        BY <3>1, AncestorsAre, OrderableHasOrder DEF TypeOK
      <3> QED BY <3>1, <3>2 DEF OrdersInv, Right
    <2>3. \A c, x, y : MustPrecede(c, x, y) <=> Precedes(bases, mro, c, x, y)
      BY DEF MustPrecede, Precedes
    <2>4. \A c \in Sound :
            /\ ToSet(mro[c]) = Ancestors(c)
            /\ \A x, y \in Ancestors(c) : MustPrecede(c, x, y) => Before(mro[c], x, y)
      BY <2>2, <2>3, AncestorsAre DEF IsC3
    <2> QED BY <2>1, <2>4 DEF MroIsC3
  <1> QED BY <1>1, Invariant, PTL

(* For every hierarchy and every chain of calls by super: the method of    *)
(* the class itself is never entered again; and methods that all go on by  *)
(* super(C, self) run once each, none after one of a class it inherits     *)
(* from, and when there is none to go on with, every ancestor that has the *)
(* method has taken part (LookupMethod, LookupMethodStartingAfter,         *)
(* builtinSuper).                                                          *)
THEOREM Cooperation == Spec => []CooperationIsComplete
  <1>1. IInv => CooperationIsComplete
    <2>1. SUFFICES ASSUME TypeOK, OrdersInv, ChainInv, chain # <<>>
                   PROVE  CooperationIsComplete
      <3>1. chain = <<>> => DOMAIN chain = {}
        OBVIOUS
      <3> QED BY <3>1 DEF IInv, CooperationIsComplete
    <2>2. /\ self \in made
          /\ \A i \in DOMAIN chain : HasIt(chain[i])
          /\ \A i \in DOMAIN chain : i > 1 => Before(Searched, chain[1], chain[i])
          /\ forms \subseteq {"explicit"} => InOrder /\ NonePassed
      BY <2>1 DEF ChainInv
    <2>3. Searched \in Seq(Classes) /\ IsInjective(Searched)
      BY <2>1, <2>2, SearchedIs
    <2>4. /\ \A x, y : Before(Searched, x, y) => x # y /\ ~Before(Searched, y, x)
          /\ \A x, y \in ToSet(Searched) :
               x = y \/ Before(Searched, x, y) \/ Before(Searched, y, x)
      BY <2>3, OrderedBy
    <2>5. \A i \in DOMAIN chain : i > 1 => chain[i] # chain[1]
      BY <2>2, <2>4
    <2>6. ASSUME forms \subseteq {"explicit"}, self \in Sound
          PROVE  /\ IsInjective(chain)
                 /\ \A i, j \in DOMAIN chain : i < j => chain[i] \notin Ancestors(chain[j])
                 /\ LookupMethodStartingAfter(self, name, Last(chain)) = Nobody =>
                      ToSet(chain) = Having(self, name)
      <3>1. InOrder /\ NonePassed
        BY <2>2, <2>6
      <3>2. PICK n : n = Len(chain)
        OBVIOUS
      <3>3. n \in Nat \ {0} /\ DOMAIN chain = 1 .. n /\ n \in DOMAIN chain
        BY <2>1, <3>2, LenProperties, EmptySeq DEF TypeOK
      <3>4. IsC3(bases, mro, self)
        <4>1. \A a \in Ancestry(bases, self) : HasOrder(bases, mro, a)
          <5>1. /\ Ancestors(self) \subseteq made
                /\ \A a \in Ancestors(self) : Orderable(a)
            BY <2>6 DEF Sound
          <5> QED BY <2>1, <5>1, AncestorsAre, OrderableHasOrder DEF TypeOK
        <4> QED BY <2>1, <2>2, <4>1 DEF OrdersInv, Right
      <3>5. /\ ToSet(Searched) = Ancestors(self)
            /\ \A a \in Ancestors(self) : \A x \in Ancestors(a) : x # a => Before(Searched, a, x)
        BY <3>4, AncestorsAre DEF IsC3, Searched
      <3>6. \A i, j \in DOMAIN chain : i < j => Before(Searched, chain[i], chain[j])
        BY <3>1 DEF InOrder
      <3>7. IsInjective(chain)
        <4> SUFFICES ASSUME NEW i \in DOMAIN chain, NEW j \in DOMAIN chain,
                            chain[i] = chain[j], i # j
                     PROVE  FALSE
          BY DEF IsInjective
        <4>1. i < j \/ j < i
          BY <3>3
        <4> QED BY <2>4, <3>6, <4>1
      <3>8. ASSUME NEW i \in DOMAIN chain, NEW j \in DOMAIN chain, i < j
            PROVE  chain[i] \notin Ancestors(chain[j])
        <4>1. Before(Searched, chain[i], chain[j]) /\ chain[j] \in Ancestors(self)
          BY <2>2, <3>5, <3>6, <3>8 DEF HasIt
        <4> QED BY <2>4, <3>5, <4>1
      <3>9. ASSUME LookupMethodStartingAfter(self, name, Last(chain)) = Nobody
            PROVE  ToSet(chain) = Having(self, name)
        <4>1. PICK last : last = Last(chain)
          OBVIOUS
        <4>2. last = chain[n] /\ HasIt(last)
          BY <2>2, <3>2, <3>3, <4>1 DEF Last
        <4>3. \A x : Before(Searched, last, x) => name \notin methods[x]
          <5>1. /\ last \in ToSet(mro[self]) /\ mro[self] \in Seq(Classes)
                /\ IsInjective(mro[self]) /\ Nobody \notin Classes
                /\ ToSet(mro[self]) \subseteq Classes
            BY <2>1, <2>2, <2>3, <4>2, SearchedIs, ClassesAssumption DEF HasIt, Searched
          <5> QED BY <3>9, <4>1, <5>1, NextIs DEF Searched
        <4>4. ASSUME NEW x \in Having(self, name)
              PROVE  x \in ToSet(chain)
          <5>1. x \in ToSet(Searched) /\ HasIt(x)
            BY <3>5 DEF Having, HasIt
          <5>2. x = last \/ Before(Searched, x, last) \/ Before(Searched, last, x)
            BY <2>4, <4>2, <5>1 DEF HasIt
          <5>3. CASE x = last
            BY <3>3, <4>2, <5>3 DEF ToSet
          <5>4. CASE Before(Searched, x, last)
            <6>1. \E j \in DOMAIN chain : chain[j] = x
              BY <3>1, <3>3, <4>2, <5>1, <5>4 DEF NonePassed
            <6> QED BY <6>1 DEF ToSet
          <5>5. CASE Before(Searched, last, x)
            BY <4>3, <5>1, <5>5 DEF HasIt
          <5> QED BY <5>2, <5>3, <5>4, <5>5
        <4>5. ToSet(chain) \subseteq Having(self, name)
          BY <2>2, <3>5 DEF ToSet, Having, HasIt
        <4> QED BY <4>4, <4>5
      <3> QED BY <3>7, <3>8, <3>9
    <2> QED BY <2>1, <2>5, <2>6 DEF CooperationIsComplete
  <1> QED BY <1>1, Invariant, PTL
===============================================================================
