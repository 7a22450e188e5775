----------------------------- MODULE ListsProofs -----------------------------
(***************************************************************************)
(* Proofs about Lists, for any number of objects, arrays and elements.     *)
(***************************************************************************)
EXTENDS Lists, SequenceTheorems, FiniteSetTheorems, TLAPS

(* What is proved of slices, of which nothing is asked here.               *)
Cmp == INSTANCE ComputationProofs
       WITH asked <- <<>>, answer <- <<>>, Names <- {}, Calls <- {}, Cuts <- {}, Rows <- {},
            Base <- 2, Listings <- {}, Mentions <- {}

LEMMA SliceOfElements ==
  ASSUME NEW items \in Seq(Elems), NEW b \in Cuts
  PROVE  evalSlice(items, b[1], b[2], b[3]) \in Seq(Elems)
  <1>1. PICK start \in Ints \cup {None}, end \in Ints \cup {None}, step \in Ints \cup {None} :
          start = b[1] /\ end = b[2] /\ step = b[3]
    BY ListsAssumption
  <1>2. Cmp!Ints = Ints
    BY DEF Cmp!Ints, Cmp!MinInt, Cmp!MaxInt, Ints, MinInt, MaxInt
  <1>3. Cmp!evalSlice(items, start, end, step) \in Seq(Elems)
    <2>1. /\ \A c \in {} : Cmp!B!IsCall(c)
          /\ {} \subseteq (0 .. Cmp!MaxInt) \X (Cmp!Ints \cup {None}) \X (Cmp!Ints \cup {None})
                           \X (Cmp!Ints \cup {None})
          /\ \A row \in {} : Cmp!IsRow(row)
          /\ 2 \in Nat \ {0, 1}
          /\ \A q \in {} : Cmp!IsListing(q)
          /\ \A q \in {} : q \in Seq(Cmp!ToSet(q))
      OBVIOUS
    <2> QED BY <1>2, <2>1, SlicesAssumption, Cmp!SliceTypes
  <1>4. Cmp!evalSlice(items, start, end, step) = evalSlice(items, start, end, step)
    BY DEF Cmp!evalSlice, Cmp!Indices, Cmp!Step, Cmp!Start, Cmp!End, Cmp!Loop, Cmp!FromEnd, Cmp!Rounds, Cmp!Wrap,
      Cmp!Ints, Cmp!MinInt, Cmp!MaxInt,
      evalSlice, Indices, Step, Start, End, Loop, FromEnd, Rounds, Wrap, Ints, MinInt, MaxInt
  <1> QED BY <1>1, <1>3, <1>4

-------------------------------------------------------------------------------
(* What an operation on object o makes of its slice and of the arrays.     *)
Sound(o, r) ==
  /\ r.mem \in Memories /\ r.mem[NoArray] = <<>>
  /\ r.at \in Windows /\ Fits(r.mem, r.at)
  /\ \A p \in Objects \ {o} : Fits(r.mem, at[p])
  /\ \A p \in Objects \ {o} : at[p].arr # at[o].arr => r.mem[at[p].arr] = mem[at[p].arr]

(* The three things that can happen to who shares an array with whom.      *)
Keeps(o, r) ==
  /\ Live(o)
  /\ UNCHANGED <<kind, kin>>
  /\ r.at.arr \in Unused \cup {NoArray, at[o].arr}

Leaves(o, r) ==
  /\ \E k \in Kinds : kind' = [kind EXCEPT ![o] = k] /\ (k = "free" => r.at = Nowhere)
  /\ r.at.arr \in Unused \cup {NoArray}
  /\ Alone(o)

Enters(o, r) ==
  /\ ~Live(o)
  /\ \E k \in Kinds \ {"free"} : kind' = [kind EXCEPT ![o] = k]
  /\ \E p \in Objects : Live(p) /\ r.at.arr = at[p].arr /\ Joins(o, p)

(* Every operation is a step of one object.                                *)
StepOf(o) ==
  \E r : Sound(o, r) /\ Holds(o, r) /\ (Keeps(o, r) \/ Leaves(o, r) \/ Enters(o, r))

Inv == TypeOK /\ SharersAreKin

-------------------------------------------------------------------------------
(* Lemmas about arrays and slices. *)

(* An array is a sequence, whose slots are elements or not yet written. *)
LEMMA ArrayFacts ==
  ASSUME NEW m \in Memories, NEW a \in Arrays \cup {NoArray}
  PROVE  /\ m[a] \in Seq(Elems \cup {Nil})
         /\ Len(m[a]) \in Nat
         /\ DOMAIN m[a] = 1..Len(m[a])
         /\ \A i \in 1..Len(m[a]) : m[a][i] \in Elems \cup {Nil}
  BY DEF Memories

(* What a slice that fits shows are elements, as many as it is long. *)
LEMMA ShownFacts ==
  ASSUME NEW s \in Windows, mem \in Memories, Fits(mem, s)
  PROVE  /\ Shown(s) \in Seq(Elems)
         /\ Len(Shown(s)) = Length(s)
         /\ Length(s) \in 0..MaxLen
         /\ \A i \in 1..Length(s) : Shown(s)[i] = mem[s.arr][s.lo + i]
  <1>1. s.lo \in Nat /\ s.hi \in Nat /\ s.lo <= s.hi
    BY DEF Windows, Fits
  <1>2. \A i \in s.lo + 1 .. s.hi : mem[s.arr][i] \in Elems
    BY DEF Fits
  <1>3. /\ SubSeq(mem[s.arr], s.lo + 1, s.hi) \in Seq(Elems)
        /\ Len(SubSeq(mem[s.arr], s.lo + 1, s.hi)) =
             IF s.lo + 1 <= s.hi THEN s.hi - (s.lo + 1) + 1 ELSE 0
        /\ \A i \in 1 .. s.hi - (s.lo + 1) + 1 :
             SubSeq(mem[s.arr], s.lo + 1, s.hi)[i] = mem[s.arr][s.lo + 1 + i - 1]
    BY <1>1, <1>2, SubSeqProperties
  <1>4. s.hi - s.lo <= MaxLen /\ MaxLen \in Nat
    BY ListsAssumption DEF Fits
  <1>5. QED
    BY <1>1, <1>3, <1>4 DEF Shown, Length

(* Forgetting what no slice shows takes nothing from a slice. *)
LEMMA KeptFacts ==
  ASSUME NEW m \in Memories, NEW h \in [Objects -> Windows], m[NoArray] = <<>>,
         \A o \in Objects : Fits(m, h[o])
  PROVE  /\ Kept(m, h) \in Memories
         /\ Kept(m, h)[NoArray] = <<>>
         /\ \A o \in Objects :
              /\ Fits(Kept(m, h), h[o])
              /\ \A i \in h[o].lo + 1 .. h[o].hi : Kept(m, h)[h[o].arr][i] = m[h[o].arr][i]
  <1> DEFINE K == Kept(m, h)
             A == Arrays \cup {NoArray}
  <1>1. DOMAIN m = A /\ DOMAIN K = A
    BY DEF Memories, Kept
  <1>2. ASSUME NEW a \in A
        PROVE  /\ K[a] \in Seq(Elems \cup {Nil})
               /\ \A o \in Objects : h[o].arr = a => Len(K[a]) = Len(m[a])
               /\ Len(m[a]) = 0 => K[a] = <<>>
    <2>1. CASE \A o \in Objects : h[o].arr # a
      BY <2>1, <1>1 DEF Kept
    <2>2. CASE ~ \A o \in Objects : h[o].arr # a
      <3>1. K[a] = [i \in 1..Len(m[a]) |->
                      IF \E o \in Objects : h[o].arr = a /\ h[o].lo < i /\ i <= h[o].hi
                      THEN m[a][i] ELSE Nil]
        BY <2>2, <1>1, ArrayFacts DEF Kept
      <3>2. QED
        BY <3>1, ArrayFacts
    <2>3. QED
      BY <2>1, <2>2
  <1>3. K \in Memories
    BY <1>1, <1>2 DEF Memories, Kept
  <1>4. K[NoArray] = <<>>
    BY <1>2
  <1>5. ASSUME NEW o \in Objects
        PROVE  /\ Fits(K, h[o])
               /\ \A i \in h[o].lo + 1 .. h[o].hi : K[h[o].arr][i] = m[h[o].arr][i]
    <2>1. h[o].arr \in A /\ h[o].lo \in Nat /\ h[o].hi \in Nat
      BY DEF Windows
    <2>2. Fits(m, h[o])
      OBVIOUS
    <2>3. ASSUME NEW i \in h[o].lo + 1 .. h[o].hi
          PROVE  K[h[o].arr][i] = m[h[o].arr][i]
      <3>1. i \in DOMAIN m[h[o].arr] /\ h[o].lo < i /\ i <= h[o].hi
        BY <2>1, <2>2, ArrayFacts DEF Fits
      <3>2. QED
        BY <3>1, <2>1, <1>1 DEF Kept
    <2>4. Len(K[h[o].arr]) = Len(m[h[o].arr])
      BY <2>1, <1>2
    <2>5. QED
      BY <2>2, <2>3, <2>4 DEF Fits
  <1>6. QED
    BY <1>3, <1>4, <1>5

-------------------------------------------------------------------------------
(* What a step of one object does. *)

(* The others keep their slices, and what they see unless they share. *)
LEMMA OthersFacts ==
  ASSUME TypeOK, NEW o \in Objects, NEW r, Sound(o, r), Holds(o, r)
  PROVE  /\ at' \in [Objects -> Windows] /\ mem' \in Memories /\ mem'[NoArray] = <<>>
         /\ at'[o] = r.at
         /\ \A p \in Objects : Fits(mem', at'[p])
         /\ \A p \in Objects \ {o} :
              /\ at'[p] = at[p]
              /\ Elements(p)' # Elements(p) => at[p].arr = at[o].arr /\ at[p].arr # NoArray
  <1>1. /\ at' = [at EXCEPT ![o] = r.at] /\ mem' = Kept(r.mem, at')
        /\ at \in [Objects -> Windows] /\ r.at \in Windows
    BY DEF Holds, Sound, TypeOK
  <1>2. at' \in [Objects -> Windows] /\ at'[o] = r.at /\ \A p \in Objects \ {o} : at'[p] = at[p]
    BY <1>1
  <1>3. \A p \in Objects : Fits(r.mem, at'[p])
    BY <1>2 DEF Sound
  <1>4. r.mem \in Memories /\ r.mem[NoArray] = <<>>
    BY DEF Sound
  <1>5. /\ mem' \in Memories /\ mem'[NoArray] = <<>>
        /\ \A p \in Objects :
             /\ Fits(mem', at'[p])
             /\ \A i \in at'[p].lo + 1 .. at'[p].hi :
                  mem'[at'[p].arr][i] = r.mem[at'[p].arr][i]
    <2> DEFINE m == r.mem
               h == at'
    <2>1. m \in Memories /\ h \in [Objects -> Windows] /\ m[NoArray] = <<>>
      BY <1>2, <1>4
    <2>2. \A p \in Objects : Fits(m, h[p])
      BY <1>3
    <2>3. mem' = Kept(m, h)
      BY <1>1
    <2> HIDE DEF m, h
    <2>4. /\ Kept(m, h) \in Memories /\ Kept(m, h)[NoArray] = <<>>
          /\ \A p \in Objects :
               /\ Fits(Kept(m, h), h[p])
               /\ \A i \in h[p].lo + 1 .. h[p].hi : Kept(m, h)[h[p].arr][i] = m[h[p].arr][i]
      BY <2>1, <2>2, KeptFacts
    <2>5. QED
      BY <2>3, <2>4 DEF m, h
  <1>6. ASSUME NEW p \in Objects \ {o}, ~(at[p].arr = at[o].arr /\ at[p].arr # NoArray)
        PROVE  Elements(p)' = Elements(p)
    <2>1. at'[p] = at[p] /\ at[p] \in Windows
      BY <1>1, <1>2
    <2>2. r.mem[at[p].arr] = mem[at[p].arr]
      BY <1>6, <1>4 DEF Sound, TypeOK
    <2>3. Fits(mem, at[p]) /\ Fits(mem', at[p])
      BY <1>5, <2>1 DEF TypeOK
    <2>4. \A i \in at[p].lo + 1 .. at[p].hi : mem'[at[p].arr][i] = mem[at[p].arr][i]
      BY <1>5, <2>1, <2>2
    <2> DEFINE lo == at[p].lo
               hi == at[p].hi
               s == SubSeq(mem[at[p].arr], lo + 1, hi)
               t == SubSeq(mem'[at[p].arr], lo + 1, hi)
    <2>5. lo \in Nat /\ hi \in Nat
      BY <2>1 DEF Windows
    <2>6. /\ s \in Seq(Elems)
          /\ Len(s) = IF lo + 1 <= hi THEN hi - (lo + 1) + 1 ELSE 0
          /\ \A i \in 1 .. hi - (lo + 1) + 1 : s[i] = mem[at[p].arr][lo + 1 + i - 1]
      <3>1. \A i \in lo + 1 .. hi : mem[at[p].arr][i] \in Elems
        BY <2>3 DEF Fits
      <3>2. QED
        BY <3>1, <2>5, SubSeqProperties
    <2>7. /\ t \in Seq(Elems)
          /\ Len(t) = IF lo + 1 <= hi THEN hi - (lo + 1) + 1 ELSE 0
          /\ \A i \in 1 .. hi - (lo + 1) + 1 : t[i] = mem'[at[p].arr][lo + 1 + i - 1]
      <3>1. \A i \in lo + 1 .. hi : mem'[at[p].arr][i] \in Elems
        BY <2>3 DEF Fits
      <3>2. QED
        BY <3>1, <2>5, SubSeqProperties
    <2>8. ASSUME NEW i \in 1..Len(s) PROVE s[i] = t[i]
      <3>1. i \in 1 .. hi - (lo + 1) + 1 /\ lo + 1 + i - 1 \in lo + 1 .. hi
        BY <2>5, <2>6
      <3>2. QED
        BY <3>1, <2>4, <2>6, <2>7
    <2>9. s = t
      <3> HIDE DEF s, t
      <3>1. QED
        BY <2>6, <2>7, <2>8, SeqEqual
    <2>10. QED
      BY <2>9, <2>1 DEF Elements, Shown
  <1>7. QED
    BY <1>2, <1>5, <1>6

(* Kin stay kin of each other, and with them whoever looks at one array. *)
LEMMA StepInv ==
  ASSUME Inv, NEW o \in Objects, StepOf(o)
  PROVE  Inv'
  <1>1. PICK r : Sound(o, r) /\ Holds(o, r) /\ (Keeps(o, r) \/ Leaves(o, r) \/ Enters(o, r))
    BY DEF StepOf
  <1>2. /\ at' \in [Objects -> Windows] /\ mem' \in Memories /\ mem'[NoArray] = <<>>
        /\ at'[o] = r.at
        /\ \A p \in Objects : Fits(mem', at'[p])
        /\ \A p \in Objects \ {o} : at'[p] = at[p]
    BY <1>1, OthersFacts DEF Inv
  <1> DEFINE Mutual == /\ kind' \in [Objects -> Kinds]
                       /\ kin' \in [Objects -> SUBSET Objects]
                       /\ \A p \in Objects :
                            /\ kind'[p] = "free" => at'[p] = Nowhere /\ kin'[p] = {p}
                            /\ p \in kin'[p]
                            /\ \A q \in kin'[p] : kin'[q] = kin'[p]
             Shared == \A p, q \in Objects :
                         at'[p].arr = at'[q].arr /\ at'[p].arr # NoArray => q \in kin'[p]
  <1>3. /\ kind \in [Objects -> Kinds] /\ kin \in [Objects -> SUBSET Objects]
        /\ \A p \in Objects :
             /\ kind[p] = "free" => at[p] = Nowhere /\ kin[p] = {p}
             /\ p \in kin[p]
             /\ \A q \in kin[p] : kin[q] = kin[p]
        /\ \A p, q \in Objects : at[p].arr = at[q].arr /\ at[p].arr # NoArray => q \in kin[p]
    BY DEF Inv, TypeOK, SharersAreKin
  <1>u. \A a \in Unused, p \in Objects : at[p].arr # a
    BY DEF Unused
  <1>4. CASE Keeps(o, r)
    <2>1. Mutual
      BY <1>2, <1>3, <1>4 DEF Keeps, Live
    <2>2. Shared
      BY <1>2, <1>3, <1>u, <1>4 DEF Keeps
    <2>3. QED
      BY <2>1, <2>2, <1>2 DEF Inv, TypeOK, SharersAreKin
  <1>5. CASE Leaves(o, r)
    <2>1. /\ \E k \in Kinds : kind' = [kind EXCEPT ![o] = k] /\ (k = "free" => r.at = Nowhere)
          /\ kin' = [p \in Objects |-> IF p = o THEN {o} ELSE kin[p] \ {o}]
      BY <1>5 DEF Leaves, Alone
    <2>2. Mutual
      <3>1. kind' \in [Objects -> Kinds] /\ kin' \in [Objects -> SUBSET Objects]
        BY <2>1, <1>3
      <3>2. ASSUME NEW p \in Objects
            PROVE  /\ kind'[p] = "free" => at'[p] = Nowhere /\ kin'[p] = {p}
                   /\ p \in kin'[p]
        BY <2>1, <1>2, <1>3
      <3>3. ASSUME NEW p \in Objects, NEW q \in kin'[p] PROVE kin'[q] = kin'[p]
        BY <2>1, <1>3, Zenon
      <3>4. QED
        BY <3>1, <3>2, <3>3
    <2>3. Shared
      BY <2>1, <1>2, <1>3, <1>u, <1>5 DEF Leaves
    <2>4. QED
      BY <2>2, <2>3, <1>2 DEF Inv, TypeOK, SharersAreKin
  <1>6. CASE Enters(o, r)
    <2>1. PICK p \in Objects :
            /\ Live(p) /\ r.at.arr = at[p].arr
            /\ kin' = [q \in Objects |-> IF q \in kin[p] \cup {o} THEN kin[p] \cup {o} ELSE kin[q]]
      BY <1>6 DEF Enters, Joins
    <2>2. /\ \E k \in Kinds \ {"free"} : kind' = [kind EXCEPT ![o] = k]
          /\ kind[o] = "free" /\ kin[o] = {o} /\ at[o] = Nowhere
      BY <1>6, <1>3 DEF Enters, Live
    <2>3. \A q \in Objects \ {o} : o \notin kin[q]
      BY <2>2, <1>3
    <2>4. \A q \in Objects : kind[q] = "free" => q \notin kin[p]
      BY <2>1, <1>3 DEF Live
    <2>5. Mutual
      <3>1. kind' \in [Objects -> Kinds] /\ kin' \in [Objects -> SUBSET Objects]
        BY <2>1, <2>2, <1>3
      <3>2. ASSUME NEW q \in Objects
            PROVE  /\ kind'[q] = "free" => at'[q] = Nowhere /\ kin'[q] = {q}
                   /\ q \in kin'[q]
        BY <2>1, <2>2, <2>4, <1>2, <1>3
      <3>3. ASSUME NEW q \in Objects, NEW s \in kin'[q] PROVE kin'[s] = kin'[q]
        <4>1. CASE q \in kin[p] \cup {o}
          <5>1. s \in kin[p] \cup {o} /\ s \in Objects
            BY <4>1, <2>1, <1>3
          <5>2. QED
            BY <4>1, <5>1, <2>1
        <4>2. CASE q \notin kin[p] \cup {o}
          <5>1. s \in kin[q] /\ kin[s] = kin[q] /\ s \in Objects
            BY <4>2, <2>1, <1>3
          <5>2. s \notin kin[p]
            BY <4>2, <5>1, <1>3
          <5>3. s # o
            BY <4>2, <5>1, <2>3
          <5>4. QED
            BY <5>1, <5>2, <5>3, <4>2, <2>1
        <4>3. QED
          BY <4>1, <4>2
      <3>4. QED
        BY <3>1, <3>2, <3>3
    <2>6. Shared
      <3>1. SUFFICES ASSUME NEW q \in Objects, NEW s \in Objects,
                            at'[q].arr = at'[s].arr, at'[q].arr # NoArray
                     PROVE  s \in kin'[q]
        OBVIOUS
      <3>2. CASE q = o
        BY <3>1, <3>2, <2>1, <1>2, <1>3
      <3>3. CASE q # o /\ s = o
        BY <3>1, <3>3, <2>1, <1>2, <1>3
      <3>4. CASE q # o /\ s # o
        BY <3>1, <3>4, <2>1, <1>2, <1>3
      <3>5. QED
        BY <3>2, <3>3, <3>4
    <2>7. QED
      BY <2>5, <2>6, <1>2 DEF Inv, TypeOK, SharersAreKin
  <1>7. QED
    BY <1>1, <1>4, <1>5, <1>6

(* What a step may do to others, as a formula about one step. *)
Noticed ==
  \A o, p \in Objects :
    /\ Elements(o)' # Elements(o) /\ Elements(p)' # Elements(p) => p \in kin[o]
    /\ Length(at[o])' # Length(at[o]) /\ Length(at[p])' # Length(at[p]) => p = o

LEMMA StepNoticed ==
  ASSUME Inv, NEW o \in Objects, StepOf(o)
  PROVE  Noticed
  <1>1. PICK r : Sound(o, r) /\ Holds(o, r)
    BY DEF StepOf
  <1>2. \A p \in Objects \ {o} :
          /\ at'[p] = at[p]
          /\ Elements(p)' # Elements(p) => at[p].arr = at[o].arr /\ at[p].arr # NoArray
    BY <1>1, OthersFacts DEF Inv
  <1>3. \A p \in Objects : Elements(p)' # Elements(p) => p = o \/ p \in kin[o]
    BY <1>2 DEF Inv, SharersAreKin
  <1>4. \A p \in Objects : Length(at[p])' # Length(at[p]) => p = o
    BY <1>2 DEF Length
  <1>5. /\ o \in kin[o]
        /\ \A p \in kin[o] : p \in Objects /\ kin[p] = kin[o]
    BY DEF Inv, TypeOK
  <1>6. QED
    BY <1>3, <1>4, <1>5 DEF Noticed

-------------------------------------------------------------------------------
(* What the operations build on. *)

(* A new array touches no other. *)
LEMMA MadeSound ==
  ASSUME TypeOK, NEW o \in Objects, NEW a, NEW items \in Seq(Elems), NEW cap \in Nat,
         Len(items) <= cap, Len(items) <= MaxLen, a \in Unused \/ cap = 0
  PROVE  /\ Sound(o, Made(a, items, cap))
         /\ Made(a, items, cap).at.arr \in Unused \cup {NoArray}
  <1> DEFINE r == Made(a, items, cap)
  <1>1. /\ mem \in Memories /\ mem[NoArray] = <<>> /\ Len(items) \in Nat
        /\ at \in [Objects -> Windows]
        /\ \A p \in Objects : Fits(mem, at[p])
    BY DEF TypeOK
  <1>2. CASE cap = 0
    <2>1. r = [mem |-> mem, at |-> Nowhere]
      BY <1>2 DEF Made
    <2>2. Nowhere \in Windows /\ Fits(mem, Nowhere) /\ Nowhere.arr = NoArray
      BY <1>1, ListsAssumption DEF Nowhere, Windows, Fits
    <2>3. QED
      BY <2>1, <2>2, <1>1 DEF Sound
  <1>3. CASE cap # 0
    <2> DEFINE new == [i \in 1..cap |-> IF i <= Len(items) THEN items[i] ELSE Nil]
               w == [arr |-> a, lo |-> 0, hi |-> Len(items)]
    <2>1. r = [mem |-> [mem EXCEPT ![a] = new], at |-> w]
      BY <1>3 DEF Made
    <2>2. a \in Unused /\ a \in Arrays /\ a # NoArray /\ \A p \in Objects : at[p].arr # a
      BY <1>3, ListsAssumption DEF Unused, NoArray
    <2>3. /\ new \in Seq(Elems \cup {Nil}) /\ Len(new) = cap
          /\ \A i \in 1..Len(items) : new[i] \in Elems
      <3>1. \A i \in 1..cap : (IF i <= Len(items) THEN items[i] ELSE Nil) \in Elems \cup {Nil}
        BY <1>1
      <3>2. new \in [1..cap -> Elems \cup {Nil}]
        BY <3>1
      <3>3. new \in Seq(Elems \cup {Nil}) /\ Len(new) = cap
        BY <3>2
      <3>4. QED
        BY <3>3, <1>1
    <2> HIDE DEF new
    <2>4. /\ [mem EXCEPT ![a] = new] \in Memories
          /\ [mem EXCEPT ![a] = new][a] = new
          /\ \A b \in Arrays \cup {NoArray} : b # a => [mem EXCEPT ![a] = new][b] = mem[b]
      BY <1>1, <2>2, <2>3 DEF Memories
    <2>5. w \in Windows /\ Fits([mem EXCEPT ![a] = new], w)
      BY <1>1, <2>2, <2>3, <2>4 DEF Windows, Fits
    <2>6. \A p \in Objects : at[p].arr \in Arrays \cup {NoArray}
      BY <1>1 DEF Windows
    <2>7. \A p \in Objects : Fits([mem EXCEPT ![a] = new], at[p])
      BY <1>1, <2>2, <2>4, <2>6 DEF Fits
    <2>8. [mem EXCEPT ![a] = new][NoArray] = <<>>
      BY <1>1, <2>2, <2>4
    <2>9. \A p \in Objects : [mem EXCEPT ![a] = new][at[p].arr] = mem[at[p].arr]
      BY <2>2, <2>4, <2>6
    <2>10. r.mem = [mem EXCEPT ![a] = new] /\ r.at = w /\ w.arr = a
      BY <2>1
    <2> HIDE DEF r, w
    <2>11. Sound(o, r) /\ r.at.arr \in Unused \cup {NoArray}
      BY <2>2, <2>4, <2>5, <2>7, <2>8, <2>9, <2>10 DEF Sound
    <2>12. QED
      BY <2>11 DEF r
  <1>4. QED
    BY <1>2, <1>3

(* A part of an object's slice. *)
PartOf(s, o) ==
  /\ s \in Windows
  /\ s.arr = at[o].arr /\ at[o].lo <= s.lo /\ s.lo <= s.hi /\ s.hi <= at[o].hi

LEMMA CutFacts ==
  ASSUME TypeOK, NEW o \in Objects, NEW n \in 0..Length(at[o])
  PROVE  PartOf(Cut(at[o], n), o) /\ Length(Cut(at[o], n)) = n
  <1>1. at[o] \in Windows /\ Fits(mem, at[o])
    BY DEF TypeOK
  <1>2. QED
    BY <1>1 DEF Cut, PartOf, Length, Windows, Fits

LEMMA PartFits ==
  ASSUME TypeOK, NEW o \in Objects, NEW s, PartOf(s, o)
  PROVE  Fits(mem, s) /\ s \in Windows
  <1>1. at[o] \in Windows /\ Fits(mem, at[o]) /\ MaxLen \in Nat
    BY ListsAssumption DEF TypeOK
  <1>2. QED
    BY <1>1, SMTT(60) DEF PartOf, Windows, Fits

(* Elements written into an array leave elements where there were some. *)
LEMMA WriteFacts ==
  ASSUME TypeOK, NEW o \in Objects, NEW s, PartOf(s, o), NEW items \in Seq(Elems),
         Length(s) + Len(items) <= Cap(s)
  PROVE  LET m == InPlace(s, items).mem IN
         /\ m \in Memories /\ m[NoArray] = <<>>
         /\ \A w \in Windows : Fits(mem, w) => Fits(m, w)
         /\ \A a \in Arrays \cup {NoArray} : a # s.arr => m[a] = mem[a]
         /\ Len(m[s.arr]) = Len(mem[s.arr])
         /\ \A i \in 1..Len(items) : m[s.arr][s.hi + i] \in Elems
  <1> DEFINE old == mem[s.arr]
             new == [i \in DOMAIN old |->
                       IF i - s.hi \in DOMAIN items THEN items[i - s.hi] ELSE old[i]]
             m == [mem EXCEPT ![s.arr] = new]
  <1>1. /\ mem \in Memories /\ mem[NoArray] = <<>> /\ Len(items) \in Nat
        /\ DOMAIN items = 1..Len(items)
        /\ s.arr \in Arrays \cup {NoArray} /\ s.lo \in Nat /\ s.hi \in Nat /\ s.lo <= s.hi
    BY DEF TypeOK, PartOf, Windows
  <1>2. /\ old \in Seq(Elems \cup {Nil}) /\ Len(old) \in Nat /\ DOMAIN old = 1..Len(old)
        /\ \A i \in 1..Len(old) : old[i] \in Elems \cup {Nil}
    BY <1>1, ArrayFacts
  <1>3. InPlace(s, items).mem = m
    BY DEF InPlace
  <1>4. new \in [1..Len(old) -> Elems \cup {Nil}]
    BY <1>1, <1>2
  <1>5. new \in Seq(Elems \cup {Nil}) /\ Len(new) = Len(old)
    BY <1>2, <1>4
  <1>6. \A i \in 1..Len(old) : old[i] \in Elems => new[i] \in Elems
    BY <1>1, <1>2
  <1>7. s.hi + Len(items) <= Len(old)
    BY <1>1, <1>2 DEF Length, Cap
  <1>8. \A i \in 1..Len(items) : new[s.hi + i] \in Elems
    <2>1. SUFFICES ASSUME NEW i \in 1..Len(items) PROVE new[s.hi + i] \in Elems
      OBVIOUS
    <2>2. s.hi + i \in DOMAIN old /\ s.hi + i - s.hi = i /\ items[i] \in Elems
      BY <1>1, <1>2, <1>7
    <2>3. QED
      BY <2>2, <1>1
  <1>9. s.arr = NoArray => new = <<>>
    BY <1>1, <1>2, <1>4, <1>5
  <1> HIDE DEF new
  <1>10. /\ m \in Memories /\ m[s.arr] = new
         /\ \A a \in Arrays \cup {NoArray} : a # s.arr => m[a] = mem[a]
    BY <1>1, <1>5 DEF Memories
  <1>11. m[NoArray] = <<>>
    BY <1>1, <1>9, <1>10
  <1>12. ASSUME NEW w \in Windows, Fits(mem, w) PROVE Fits(m, w)
    <2>1. w.arr \in Arrays \cup {NoArray} /\ w.lo \in Nat /\ w.hi \in Nat
      BY DEF Windows
    <2>2. CASE w.arr # s.arr
      BY <2>1, <2>2, <1>10, <1>12 DEF Fits
    <2>3. CASE w.arr = s.arr
      <3>1. \A i \in w.lo + 1 .. w.hi : i \in 1..Len(old)
        BY <2>1, <2>3, <1>2, <1>12 DEF Fits
      <3>2. QED
        BY <3>1, <2>3, <1>5, <1>6, <1>10, <1>12 DEF Fits
    <2>4. QED
      BY <2>2, <2>3
  <1> HIDE DEF m
  <1>13. QED
    BY <1>3, <1>5, <1>8, <1>10, <1>11, <1>12

(* Elements behind a part of an object's slice, in the array or elsewhere. *)
LEMMA InPlaceSound ==
  ASSUME TypeOK, NEW o \in Objects, NEW s, PartOf(s, o), NEW items \in Seq(Elems),
         Length(s) + Len(items) <= Cap(s), Length(s) + Len(items) <= MaxLen
  PROVE  Sound(o, InPlace(s, items)) /\ InPlace(s, items).at.arr = at[o].arr
  <1> DEFINE m == InPlace(s, items).mem
             w == InPlace(s, items).at
  <1>1. /\ m \in Memories /\ m[NoArray] = <<>>
        /\ \A v \in Windows : Fits(mem, v) => Fits(m, v)
        /\ \A a \in Arrays \cup {NoArray} : a # s.arr => m[a] = mem[a]
        /\ Len(m[s.arr]) = Len(mem[s.arr])
        /\ \A i \in 1..Len(items) : m[s.arr][s.hi + i] \in Elems
    BY WriteFacts
  <1>2. w = [s EXCEPT !.hi = s.hi + Len(items)]
    BY DEF InPlace
  <1>3. /\ s \in Windows /\ Fits(m, s) /\ s.arr = at[o].arr /\ s.lo \in Nat /\ s.hi \in Nat
        /\ Len(items) \in Nat /\ MaxLen \in Nat /\ Len(mem[s.arr]) \in Nat
    <2>1. s \in Windows /\ Fits(mem, s) /\ s.arr = at[o].arr
      BY PartFits DEF PartOf
    <2>2. s.arr \in Arrays \cup {NoArray} /\ s.lo \in Nat /\ s.hi \in Nat
      BY <2>1 DEF Windows
    <2>3. Len(mem[s.arr]) \in Nat
      BY <2>2, ArrayFacts DEF TypeOK
    <2>4. Fits(m, s)
      BY <1>1, <2>1
    <2>5. QED
      BY <2>1, <2>2, <2>3, <2>4, ListsAssumption
  <1>4. w \in Windows /\ w.arr = s.arr /\ w.lo = s.lo /\ w.hi = s.hi + Len(items)
    BY <1>2, <1>3 DEF Windows
  <1>5. Fits(m, w)
    <2>1. ASSUME NEW i \in w.lo + 1 .. w.hi PROVE m[w.arr][i] \in Elems
      <3>1. CASE i <= s.hi
        BY <3>1, <1>3, <1>4 DEF Fits
      <3>2. CASE i > s.hi
        <4>1. i - s.hi \in 1..Len(items) /\ s.hi + (i - s.hi) = i
          BY <3>2, <1>3, <1>4
        <4>2. QED
          BY <4>1, <1>1, <1>4
      <3>3. QED
        BY <3>1, <3>2, <1>3, <1>4
    <2>2. w.lo <= w.hi /\ w.hi <= Len(m[w.arr]) /\ w.hi - w.lo <= MaxLen
      BY <1>1, <1>3, <1>4 DEF Fits, Length, Cap
    <2>3. QED
      BY <2>1, <2>2 DEF Fits
  <1>6. \A p \in Objects : at[p] \in Windows /\ at[p].arr \in Arrays \cup {NoArray} /\ Fits(mem, at[p])
    BY DEF TypeOK, Windows
  <1> HIDE DEF m, w
  <1>7. /\ \A p \in Objects \ {o} : Fits(m, at[p])
        /\ \A p \in Objects \ {o} : at[p].arr # at[o].arr => m[at[p].arr] = mem[at[p].arr]
    BY <1>1, <1>3, <1>6
  <1>8. QED
    BY <1>1, <1>3, <1>4, <1>5, <1>7 DEF Sound, m, w

LEMMA AppendSound ==
  ASSUME TypeOK, NEW o \in Objects, NEW s, PartOf(s, o), NEW items \in Seq(Elems),
         Length(s) + Len(items) <= MaxLen, NEW r \in append(s, items)
  PROVE  Sound(o, r) /\ r.at.arr \in Unused \cup {NoArray, at[o].arr}
  <1>1. CASE Length(s) + Len(items) <= Cap(s)
    BY <1>1, InPlaceSound DEF append
  <1>2. CASE ~(Length(s) + Len(items) <= Cap(s))
    <2> DEFINE all == Shown(s) \o items
    <2>1. Shown(s) \in Seq(Elems) /\ Len(Shown(s)) = Length(s) /\ Length(s) \in Nat
      BY PartFits, ShownFacts DEF TypeOK
    <2>2. all \in Seq(Elems) /\ Len(all) = Length(s) + Len(items) /\ Len(all) \in Nat
      BY <2>1
    <2> HIDE DEF all
    <2>3. PICK a \in Unused, spare \in 0..MaxSpare : r = Made(a, all, Len(all) + spare)
      BY <1>2 DEF append, Elsewhere, Least, all
    <2>4. Len(all) + spare \in Nat /\ Len(all) <= Len(all) + spare
      BY <2>2, ListsAssumption
    <2>5. QED
      BY <2>2, <2>3, <2>4, MadeSound
  <1>3. QED
    BY <1>1, <1>2

(* Results of a known length, and results of an unknown capacity. *)
LEMMA ExactlySound ==
  ASSUME TypeOK, NEW o \in Objects, NEW items \in Seq(Elems), Len(items) <= MaxLen,
         NEW r \in Exactly(items) \cup ByAppends(items)
  PROVE  Sound(o, r) /\ r.at.arr \in Unused \cup {NoArray}
  <1>1. Len(items) \in Nat
    OBVIOUS
  <1>2. CASE r \in Exactly(items)
    <2>1. PICK a \in Unused : r = Made(a, items, Len(items))
      BY <1>2 DEF Exactly, Least
    <2>2. QED
      BY <1>1, <2>1, MadeSound
  <1>3. CASE r \in ByAppends(items) /\ items # <<>>
    <2>1. PICK a \in Unused, spare \in 0..MaxSpare : r = Made(a, items, Len(items) + spare)
      BY <1>3 DEF ByAppends, Elsewhere, Least
    <2>2. Len(items) + spare \in Nat /\ Len(items) <= Len(items) + spare
      BY <1>1, ListsAssumption
    <2>3. QED
      BY <2>1, <2>2, MadeSound
  <1>4. CASE r \in ByAppends(items) /\ items = <<>>
    <2>1. r = Made(NoArray, items, 0) /\ Len(items) <= 0
      BY <1>4 DEF ByAppends
    <2>2. QED
      BY <2>1, MadeSound
  <1>5. QED
    BY <1>2, <1>3, <1>4

(* A change of an object's own elements is a step of it. *)
LEMMA ChangesStep ==
  ASSUME NEW o \in Objects, NEW r, Sound(o, r), Live(o), Changes(o, r),
         r.at.arr \in Unused \cup {NoArray, at[o].arr}
  PROVE  StepOf(o)
  BY DEF Changes, StepOf, Keeps

(* So is a new object with elements of its own. *)
LEMMA NewStep ==
  ASSUME TypeOK, NEW p \in Objects, NEW k \in Kinds \ {"free"}, NEW items \in Seq(Elems),
         NEW rs, rs \subseteq Exactly(items) \cup ByAppends(items),
         IsNew(p, k, items, rs)
  PROVE  StepOf(p)
  <1>1. PICK r \in rs : Holds(p, r)
    BY DEF IsNew
  <1>2. Sound(p, r) /\ r.at.arr \in Unused \cup {NoArray}
    BY <1>1, ExactlySound DEF IsNew
  <1>3. Leaves(p, r)
    BY <1>2 DEF IsNew, Appears, Leaves
  <1>4. QED
    BY <1>1, <1>2, <1>3 DEF StepOf

(* And one that shares the array of another. *)
LEMMA SharesStep ==
  ASSUME TypeOK, NEW p \in Objects, NEW o \in Objects, NEW k \in Kinds \ {"free"}, NEW s,
         PartOf(s, o), Shares(p, k, o, s)
  PROVE  StepOf(p)
  <1> DEFINE r == [mem |-> mem, at |-> s]
  <1>1. Sound(p, r)
    BY PartFits DEF Sound, TypeOK
  <1>2. ~Live(p) /\ kind' = [kind EXCEPT ![p] = k]
    BY DEF Shares, Appears, Least, Live
  <1>3. Enters(p, r)
    BY <1>2 DEF Shares, Enters, PartOf
  <1>4. QED
    BY <1>1, <1>3 DEF StepOf, Shares

-------------------------------------------------------------------------------
(* What the operations compute. *)

LEMMA ElementsFacts ==
  ASSUME TypeOK, NEW o \in Objects
  PROVE  /\ Elements(o) \in Seq(Elems)
         /\ Len(Elements(o)) = Length(at[o])
         /\ Length(at[o]) \in 0..MaxLen
         /\ Length(at[o]) \in Nat
         /\ DOMAIN Elements(o) = 1..Length(at[o])
         /\ Len(Elements(o)) <= MaxLen
         /\ PartOf(at[o], o)
         /\ Length(at[o]) <= Cap(at[o]) /\ Cap(at[o]) \in Int
         /\ kind[o] \in Kinds
  <1>1. /\ at[o] \in Windows /\ Fits(mem, at[o]) /\ mem \in Memories
        /\ at[o].arr \in Arrays \cup {NoArray} /\ at[o].lo \in Nat /\ at[o].hi \in Nat
        /\ kind[o] \in Kinds
    BY DEF TypeOK, Windows
  <1>2. Len(mem[at[o].arr]) \in Nat
    BY <1>1, ArrayFacts
  <1>3. PartOf(at[o], o) /\ Length(at[o]) <= Cap(at[o]) /\ Cap(at[o]) \in Int
    BY <1>1, <1>2 DEF PartOf, Fits, Length, Cap
  <1>4. /\ Shown(at[o]) \in Seq(Elems) /\ Len(Shown(at[o])) = Length(at[o])
        /\ Length(at[o]) \in 0..MaxLen
    BY <1>1, ShownFacts
  <1>5. QED
    BY <1>1, <1>3, <1>4, ListsAssumption DEF Elements

(* A part of a sequence, and its length. *)
LEMMA SubSeqFacts ==
  ASSUME NEW S, NEW q \in Seq(S), NEW m \in Int, NEW n \in Int, 1 <= m, n <= Len(q)
  PROVE  /\ SubSeq(q, m, n) \in Seq(S)
         /\ Len(SubSeq(q, m, n)) = IF m <= n THEN n - m + 1 ELSE 0
  <1>1. \A i \in m..n : q[i] \in S
    OBVIOUS
  <1>2. QED
    BY <1>1, SubSeqProperties

LEMMA ReverseFacts ==
  ASSUME NEW S, NEW q \in Seq(S)
  PROVE  Reverse(q) \in Seq(S) /\ Len(Reverse(q)) = Len(q)
  <1>1. \A i \in 1..Len(q) : q[(Len(q) - i) + 1] \in S
    OBVIOUS
  <1>2. Reverse(q) \in [1..Len(q) -> S]
    BY <1>1 DEF Reverse
  <1>3. QED
    BY <1>2

LEMMA SortingsFacts ==
  ASSUME NEW S, NEW q \in Seq(S), NEW t \in Sortings(q)
  PROVE  t \in Seq(S) /\ Len(t) = Len(q)
  <1>1. DOMAIN q = 1..Len(q) /\ Len(q) \in Nat /\ ToSet(q) \subseteq S
    BY DEF ToSet
  <1>2. t \in [1..Len(q) -> S]
    BY <1>1 DEF Sortings
  <1>3. QED
    BY <1>1, <1>2

LEMMA TimesFacts ==
  ASSUME NEW S, NEW q \in Seq(S), NEW n \in 0..2
  PROVE  Times(q, n) \in Seq(S)
  <1>1. Len(q) \in Nat
    OBVIOUS
  <1>2. n * Len(q) \in Nat /\ (Len(q) = 0 => n * Len(q) = 0)
    <2>1. n = 0 \/ n = 1 \/ n = 2
      OBVIOUS
    <2>2. QED
      BY <1>1, <2>1
  <1>3. ASSUME NEW i \in 1 .. n * Len(q) PROVE q[((i - 1) % Len(q)) + 1] \in S
    <2>1. Len(q) > 0 /\ i - 1 \in Int
      BY <1>1, <1>2
    <2>2. (i - 1) % Len(q) \in 0 .. Len(q) - 1
      BY <2>1, <1>1
    <2>3. QED
      BY <2>2, <1>1
  <1>4. Times(q, n) \in [1 .. n * Len(q) -> S]
    BY <1>3 DEF Times
  <1>5. QED
    BY <1>2, <1>4

(* What is tried as a bound is an integer or None. *)
LEMMA CutsFacts ==
  ASSUME NEW b \in Cuts
  PROVE  b[1] \in Int \cup {None} /\ b[2] \in Int \cup {None}
  BY ListsAssumption DEF Ints

(* The indices that a slice replaces lie in the list. *)
LEMMA ReplacedFacts ==
  ASSUME TypeOK, NEW o \in Objects, NEW p \in Objects, NEW b \in Cuts
  PROVE  Replaced(o, b, p) \in Seq(Elems)
  <1> DEFINE n == Length(at[o])
  <1>1. /\ Elements(o) \in Seq(Elems) /\ Elements(p) \in Seq(Elems)
        /\ n \in Nat /\ Len(Elements(o)) = n
    BY ElementsFacts
  <1>2. Low(b[1], n) \in 0..n /\ High(b[1], b[2], n) \in 0..n
    <2> HIDE DEF n
    <2>1. Low(b[1], n) \in 0..n
      BY <1>1, CutsFacts DEF Low, InLength, FromEnd
    <2>2. QED
      BY <2>1, <1>1, CutsFacts DEF High, InLength, FromEnd
  <1>3. /\ SubSeq(Elements(o), 1, Low(b[1], n)) \in Seq(Elems)
        /\ SubSeq(Elements(o), High(b[1], b[2], n) + 1, n) \in Seq(Elems)
    <2> HIDE DEF n
    <2>1. QED
      BY <1>1, <1>2, SubSeqFacts
  <1>4. QED
    BY <1>1, <1>3, ConcatProperties DEF Replaced

-------------------------------------------------------------------------------
(* Each operation is a step of one object. *)

LEMMA WithoutStep ==
  ASSUME TypeOK, NEW o \in Objects, IsList(o), NEW i \in 0 .. Length(at[o]) - 1, Without(o, i)
  PROVE  StepOf(o)
  <1> DEFINE items == SubSeq(Elements(o), i + 2, Length(at[o]))
             s == Cut(at[o], i)
  <1>1. /\ Elements(o) \in Seq(Elems) /\ Len(Elements(o)) = Length(at[o])
        /\ Length(at[o]) \in Nat /\ Length(at[o]) <= MaxLen
    BY ElementsFacts
  <1>2. items \in Seq(Elems) /\ Len(items) = IF i + 2 <= Length(at[o])
                                             THEN Length(at[o]) - (i + 2) + 1 ELSE 0
    BY <1>1, SubSeqFacts
  <1>3. PartOf(s, o) /\ Length(s) = i
    BY <1>1, CutFacts
  <1>4. PICK r \in append(s, items) : Changes(o, r)
    BY DEF Without
  <1>5. Length(s) + Len(items) <= MaxLen
    BY <1>1, <1>2, <1>3, ListsAssumption
  <1> HIDE DEF items, s
  <1>6. Sound(o, r) /\ r.at.arr \in Unused \cup {NoArray, at[o].arr}
    BY <1>2, <1>3, <1>4, <1>5, AppendSound
  <1>7. QED
    BY <1>4, <1>6, ChangesStep DEF IsList, Live

LEMMA InsertStep ==
  ASSUME TypeOK, NEW o \in Objects, NEW i \in Bounds, NEW x \in Elems, Insert(o, i, x)
  PROVE  StepOf(o)
  <1> DEFINE n == Length(at[o])
             j == InLength(FromEnd(i, n), n)
             items == <<x>> \o SubSeq(Elements(o), j + 1, n)
             s == Cut(at[o], j)
  <1>1. /\ Elements(o) \in Seq(Elems) /\ Len(Elements(o)) = n /\ n \in Nat /\ n < MaxLen
    BY ElementsFacts DEF Insert
  <1>2. j \in 0..n
    <2>1. i \in Int
      BY ListsAssumption DEF Ints
    <2> HIDE DEF n
    <2>2. QED
      BY <2>1, <1>1 DEF InLength, FromEnd
  <1>3. PICK r \in append(s, items) : Changes(o, r)
    BY DEF Insert
  <1>4. IsList(o)
    BY DEF Insert
  <1> HIDE DEF j
  <1>5. PartOf(s, o) /\ Length(s) = j
    BY <1>2, CutFacts
  <1>6. items \in Seq(Elems) /\ Length(s) + Len(items) <= MaxLen
    <2>1. /\ SubSeq(Elements(o), j + 1, n) \in Seq(Elems)
          /\ Len(SubSeq(Elements(o), j + 1, n)) = IF j + 1 <= n THEN n - (j + 1) + 1 ELSE 0
      BY <1>1, <1>2, SubSeqFacts
    <2>2. <<x>> \in Seq(Elems) /\ Len(<<x>>) = 1
      OBVIOUS
    <2>3. items \in Seq(Elems) /\ Len(items) = 1 + Len(SubSeq(Elements(o), j + 1, n))
      BY <2>1, <2>2, ConcatProperties
    <2>4. QED
      BY <2>1, <2>3, <1>1, <1>2, <1>5, ListsAssumption
  <1> HIDE DEF items, s
  <1>7. Sound(o, r) /\ r.at.arr \in Unused \cup {NoArray, at[o].arr}
    BY <1>3, <1>5, <1>6, AppendSound
  <1>8. QED
    BY <1>3, <1>4, <1>7, ChangesStep DEF IsList, Live

(* Overwriting the elements, of which there are as many as before. *)
LEMMA OverwriteStep ==
  ASSUME TypeOK, NEW o \in Objects, IsList(o), NEW items \in Seq(Elems),
         Len(items) = Length(at[o]), Overwrite(o, items)
  PROVE  StepOf(o)
  <1> DEFINE s == Cut(at[o], 0)
             r == InPlace(s, items)
  <1>1. /\ Length(at[o]) \in Nat /\ Length(at[o]) <= MaxLen /\ Length(at[o]) <= Cap(at[o])
    BY ElementsFacts
  <1>2. PartOf(s, o) /\ Length(s) = 0
    BY <1>1, CutFacts
  <1>3. Cap(s) = Cap(at[o])
    BY DEF Cap, Cut, TypeOK, Windows
  <1>4. Sound(o, r) /\ r.at.arr = at[o].arr
    BY <1>1, <1>2, <1>3, InPlaceSound
  <1>5. Changes(o, r)
    BY DEF Overwrite
  <1> HIDE DEF r
  <1>6. QED
    BY <1>4, <1>5, ChangesStep DEF IsList, Live

(* One element is written where there was one. *)
LEMMA SetIndexSound ==
  ASSUME TypeOK, NEW o \in Objects, NEW i \in Bounds, NEW x \in Elems, SetIndex(o, i, x)
  PROVE  LET s == Cut(at[o], FromEnd(i, Length(at[o])))
             r == [mem |-> InPlace(s, <<x>>).mem, at |-> at[o]] IN
         /\ PartOf(s, o) /\ Length(s) + Len(<<x>>) <= Cap(s)
         /\ Sound(o, r) /\ Changes(o, r)
  <1> DEFINE j == FromEnd(i, Length(at[o]))
             s == Cut(at[o], j)
             m == InPlace(s, <<x>>).mem
             r == [mem |-> m, at |-> at[o]]
  <1>1. j \in 0 .. Length(at[o]) - 1 /\ IsList(o)
    BY DEF SetIndex, HasIndex
  <1>2. Changes(o, r)
    BY DEF SetIndex
  <1>3. /\ Length(at[o]) \in Nat /\ Length(at[o]) <= Cap(at[o]) /\ Cap(at[o]) \in Int
        /\ at[o] \in Windows
    BY ElementsFacts DEF TypeOK
  <1> HIDE DEF j
  <1>4. PartOf(s, o) /\ Length(s) = j
    BY <1>1, <1>3, CutFacts
  <1>5. Cap(s) = Cap(at[o])
    BY <1>3 DEF Cap, Cut, Windows
  <1>6. <<x>> \in Seq(Elems) /\ Len(<<x>>) = 1
    OBVIOUS
  <1>7. /\ m \in Memories /\ m[NoArray] = <<>>
        /\ \A w \in Windows : Fits(mem, w) => Fits(m, w)
        /\ \A a \in Arrays \cup {NoArray} : a # s.arr => m[a] = mem[a]
    <2>1. Length(s) + Len(<<x>>) <= Cap(s)
      BY <1>1, <1>3, <1>4, <1>5, <1>6
    <2> HIDE DEF s
    <2>2. QED
      BY <2>1, <1>4, <1>6, WriteFacts
  <1>8. \A p \in Objects : at[p] \in Windows /\ at[p].arr \in Arrays \cup {NoArray} /\ Fits(mem, at[p])
    BY DEF TypeOK, Windows
  <1> HIDE DEF m
  <1>9. Sound(o, r)
    BY <1>4, <1>7, <1>8 DEF Sound, PartOf
  <1>10. Length(s) + Len(<<x>>) <= Cap(s)
    BY <1>1, <1>3, <1>4, <1>5, <1>6
  <1>11. QED
    BY <1>2, <1>4, <1>9, <1>10 DEF m, j

LEMMA SetIndexStep ==
  ASSUME TypeOK, NEW o \in Objects, NEW i \in Bounds, NEW x \in Elems, SetIndex(o, i, x)
  PROVE  StepOf(o)
  <1> DEFINE r == [mem |-> InPlace(Cut(at[o], FromEnd(i, Length(at[o]))), <<x>>).mem,
                   at |-> at[o]]
  <1>1. Sound(o, r) /\ Changes(o, r) /\ r.at = at[o]
    BY SetIndexSound
  <1>2. Live(o)
    BY DEF SetIndex, IsList, Live
  <1>3. QED
    BY <1>1, <1>2, ChangesStep

LEMMA MutateStep ==
  ASSUME TypeOK, NEW o \in Objects, Mutate(o)
  PROVE  StepOf(o)
  <1>e. /\ Elements(o) \in Seq(Elems) /\ Len(Elements(o)) = Length(at[o])
        /\ DOMAIN Elements(o) = 1..Length(at[o])
        /\ Length(at[o]) \in Nat /\ Length(at[o]) <= MaxLen /\ PartOf(at[o], o)
    BY ElementsFacts
  <1>1. ASSUME NEW x \in Elems, AppendItem(o, x) PROVE StepOf(o)
    <2>1. PICK r \in append(at[o], <<x>>) : Changes(o, r)
      BY <1>1 DEF AppendItem
    <2>2. <<x>> \in Seq(Elems) /\ Length(at[o]) + Len(<<x>>) <= MaxLen /\ Live(o)
      BY <1>1, <1>e, ListsAssumption DEF AppendItem, IsList, Live
    <2>3. Sound(o, r) /\ r.at.arr \in Unused \cup {NoArray, at[o].arr}
      BY <1>e, <2>1, <2>2, AppendSound
    <2>4. QED
      BY <2>1, <2>2, <2>3, ChangesStep
  <1>2. ASSUME NEW x \in Elems, RemoveValue(o, x) PROVE StepOf(o)
    <2>1. PICK i \in 1..Length(at[o]) : Without(o, i - 1)
      BY <1>2, <1>e DEF RemoveValue
    <2>2. i - 1 \in 0 .. Length(at[o]) - 1
      BY <1>e
    <2>3. QED
      BY <1>2, <2>1, <2>2, WithoutStep DEF RemoveValue
  <1>3. ASSUME NEW p \in Objects, Extend(o, p) PROVE StepOf(o)
    <2>1. PICK r \in append(at[o], Elements(p)) : Changes(o, r)
      BY <1>3 DEF Extend
    <2>2. /\ Elements(p) \in Seq(Elems) /\ Length(at[o]) + Len(Elements(p)) <= MaxLen
          /\ Live(o)
      BY <1>3, ElementsFacts DEF Extend, IsList, Live
    <2>3. Sound(o, r) /\ r.at.arr \in Unused \cup {NoArray, at[o].arr}
      BY <1>e, <2>1, <2>2, AppendSound
    <2>4. QED
      BY <2>1, <2>2, <2>3, ChangesStep
  <1>4. ASSUME NEW i \in Bounds, Pop(o, i) \/ DeleteIndex(o, i) PROVE StepOf(o)
    BY <1>4, WithoutStep DEF Pop, DeleteIndex, HasIndex
  <1>5. ASSUME NEW i \in Bounds, NEW x \in Elems, Insert(o, i, x) \/ SetIndex(o, i, x)
        PROVE  StepOf(o)
    BY <1>5, InsertStep, SetIndexStep
  <1>6. ASSUME ReverseList(o) PROVE StepOf(o)
    <2>1. Reverse(Elements(o)) \in Seq(Elems) /\ Len(Reverse(Elements(o))) = Length(at[o])
      BY <1>e, ReverseFacts
    <2>2. QED
      BY <1>6, <2>1, OverwriteStep DEF ReverseList
  <1>7. ASSUME Sort(o) PROVE StepOf(o)
    <2>1. PICK t \in Sortings(Elements(o)) : Overwrite(o, t)
      BY <1>7 DEF Sort
    <2>2. t \in Seq(Elems) /\ Len(t) = Length(at[o])
      BY <1>e, SortingsFacts
    <2>3. QED
      BY <1>7, <2>1, <2>2, OverwriteStep DEF Sort
  <1> DEFINE nothing == [mem |-> mem, at |-> Nowhere]
  <1>n. Sound(o, nothing) /\ nothing.at = Nowhere /\ nothing.at.arr = NoArray
    <2>1. Nowhere \in Windows /\ Fits(mem, Nowhere)
      BY ListsAssumption DEF Nowhere, Windows, Fits, TypeOK
    <2>2. QED
      BY <2>1 DEF Sound, TypeOK, Nowhere
  <1>8. ASSUME Clear(o) PROVE StepOf(o)
    <2>1. kind' = [kind EXCEPT ![o] = "list"]
      BY <1>8 DEF Clear, IsList, TypeOK
    <2>2. Leaves(o, nothing)
      BY <1>8, <1>n, <2>1 DEF Clear, Leaves, Kinds
    <2>3. QED
      BY <1>8, <1>n, <2>2 DEF Clear, StepOf
  <1>9. ASSUME NEW b \in Cuts, NEW p \in Objects, SetSlice(o, b, p) PROVE StepOf(o)
    <2>1. PICK r \in Exactly(Replaced(o, b, p)) : Holds(o, r)
      BY <1>9 DEF SetSlice
    <2>2. Replaced(o, b, p) \in Seq(Elems) /\ Len(Replaced(o, b, p)) <= MaxLen
      BY <1>9, ReplacedFacts DEF SetSlice
    <2>3. Sound(o, r) /\ r.at.arr \in Unused \cup {NoArray}
      BY <2>1, <2>2, ExactlySound
    <2>4. kind' = [kind EXCEPT ![o] = "list"]
      BY <1>9 DEF SetSlice, IsList, TypeOK
    <2>5. Leaves(o, r)
      BY <1>9, <2>3, <2>4 DEF SetSlice, Leaves, Kinds
    <2>6. QED
      BY <2>1, <2>3, <2>5 DEF StepOf
  <1>10. ASSUME ForIter(o) PROVE StepOf(o)
    <2> DEFINE s == [at[o] EXCEPT !.lo = @ + 1]
               r == [mem |-> mem, at |-> s]
    <2>1. at[o] \in Windows /\ Length(at[o]) > 0
      BY <1>10 DEF ForIter, TypeOK
    <2>2. PartOf(s, o)
      BY <2>1 DEF PartOf, Windows, Length
    <2>3. s \in Windows /\ Fits(mem, s) /\ s.arr = at[o].arr
      BY <2>2, PartFits DEF PartOf
    <2>4. Live(o) /\ Changes(o, r)
      BY <1>10 DEF ForIter, Live
    <2> HIDE DEF s
    <2>5. Sound(o, r)
      BY <2>3 DEF Sound, TypeOK
    <2>6. QED
      BY <2>3, <2>4, <2>5, ChangesStep
  <1>11. ASSUME Forget(o) PROVE StepOf(o)
    <2>1. Leaves(o, nothing)
      BY <1>11, <1>n DEF Forget, Leaves, Kinds
    <2>2. QED
      BY <1>11, <1>n, <2>1 DEF Forget, StepOf
  <1>12. QED
    BY <1>1, <1>2, <1>3, <1>4, <1>5, <1>6, <1>7, <1>8, <1>9, <1>10, <1>11 DEF Mutate

LEMMA MakeStep ==
  ASSUME TypeOK, NEW o \in Objects, NEW p \in Objects, Make(o, p)
  PROVE  StepOf(p)
  <1>e. \A q \in Objects : Elements(q) \in Seq(Elems) /\ Len(Elements(q)) <= MaxLen
    BY ElementsFacts
  <1>k. "list" \in Kinds \ {"free"} /\ "iterator" \in Kinds \ {"free"} /\ "tuple" \in Kinds \ {"free"}
    BY DEF Kinds
  <1>1. ASSUME Copy(o, p) PROVE StepOf(p)
    BY <1>1, <1>e, <1>k, NewStep DEF Copy
  <1>2. ASSUME NEW q \in Objects, Concatenate(o, q, p) PROVE StepOf(p)
    <2> DEFINE items == Elements(o) \o Elements(q)
    <2>1. items \in Seq(Elems)
      BY <1>e, ConcatProperties
    <2>2. IsNew(p, "list", items, Exactly(items))
      BY <1>2 DEF Concatenate
    <2> HIDE DEF items
    <2>3. QED
      BY <1>k, <2>1, <2>2, NewStep
  <1>3. ASSUME NEW n \in 0..2, Repeat(o, n, p) PROVE StepOf(p)
    <2>1. Times(Elements(o), n) \in Seq(Elems)
      BY <1>e, TimesFacts
    <2>2. QED
      BY <1>3, <1>k, <2>1, NewStep DEF Repeat
  <1>4. ASSUME NEW b \in Cuts, Slice(o, b, p) PROVE StepOf(p)
    <2>2. evalSlice(Elements(o), b[1], b[2], b[3]) \in Seq(Elems)
      BY <1>e, SliceOfElements
    <2>3. kind[o] \in Kinds \ {"free"}
      BY <1>4, <1>k DEF Slice
    <2>4. QED
      BY <1>4, <2>2, <2>3, NewStep DEF Slice
  <1>5. ASSUME Sorted(o, p) PROVE StepOf(p)
    <2>1. PICK t \in Sortings(Elements(o)) : IsNew(p, "list", t, Exactly(t))
      BY <1>5 DEF Sorted
    <2>2. t \in Seq(Elems)
      BY <1>e, SortingsFacts
    <2>3. QED
      BY <1>k, <2>1, <2>2, NewStep
  <1>6. ASSUME Reversed(o, p) PROVE StepOf(p)
    <2>1. Reverse(Elements(o)) \in Seq(Elems)
      BY <1>e, ReverseFacts
    <2>2. QED
      BY <1>6, <1>k, <2>1, NewStep DEF Reversed
  <1>7. QED
    BY <1>1, <1>2, <1>3, <1>4, <1>5, <1>6 DEF Make

LEMMA ShareStep ==
  ASSUME TypeOK, NEW o \in Objects, NEW p \in Objects, Share(o, p)
  PROVE  StepOf(p)
  <1>k. "list" \in Kinds \ {"free"} /\ "iterator" \in Kinds \ {"free"} /\ "tuple" \in Kinds \ {"free"}
    BY DEF Kinds
  <1>1. ASSUME builtinList(o, p) \/ builtinTuple(o, p) \/ GetIter(o, p) PROVE StepOf(p)
    BY <1>1, <1>k, ElementsFacts, SharesStep DEF builtinList, builtinTuple, GetIter
  <1>2. ASSUME NEW before \in 0..MaxLen, NEW after \in 0..MaxLen, UnpackRest(o, before, after, p)
        PROVE  StepOf(p)
    <2> DEFINE s == [arr |-> at[o].arr, lo |-> at[o].lo + before, hi |-> at[o].hi - after]
    <2>1. PartOf(s, o)
      <3>1. at[o] \in Windows /\ before + after <= Length(at[o]) /\ before \in Nat /\ after \in Nat
        BY <1>2, ListsAssumption DEF UnpackRest, TypeOK
      <3>2. at[o].lo \in Nat /\ at[o].hi \in Nat /\ before + after <= at[o].hi - at[o].lo
        BY <3>1 DEF Windows, Length
      <3>3. s \in Windows
        BY <3>1, <3>2 DEF Windows
      <3>4. QED
        BY <3>1, <3>2, <3>3 DEF PartOf
    <2>2. Shares(p, "list", o, s)
      BY <1>2 DEF UnpackRest
    <2> HIDE DEF s
    <2>3. QED
      BY <1>k, <2>1, <2>2, SharesStep
  <1>3. QED
    BY <1>1, <1>2 DEF Share

LEMMA BuildStep ==
  ASSUME TypeOK, NEW p \in Objects, Build(p)
  PROVE  StepOf(p)
  <1>1. PICK n \in 0..MaxLen : \E items \in [1..n -> Elems] :
          BuildList(p, items) \/ BuildTuple(p, items)
    BY DEF Build
  <1>2. PICK items \in [1..n -> Elems] : BuildList(p, items) \/ BuildTuple(p, items)
    BY <1>1
  <1>3. items \in Seq(Elems)
    <2>1. n \in Nat
      BY ListsAssumption
    <2>2. QED
      BY <2>1
  <1>4. "list" \in Kinds \ {"free"} /\ "tuple" \in Kinds \ {"free"}
    BY DEF Kinds
  <1>5. QED
    BY <1>2, <1>3, <1>4, NewStep DEF BuildList, BuildTuple

LEMMA NextIsStep ==
  ASSUME TypeOK, Next
  PROVE  \E o \in Objects : StepOf(o)
  BY MutateStep, MakeStep, ShareStep, BuildStep DEF Next

-------------------------------------------------------------------------------
LEMMA InitInv ==
  ASSUME Init
  PROVE  Inv
  <1>1. Nowhere \in Windows /\ Nowhere.arr = NoArray
    BY DEF Nowhere, Windows, NoArray
  <1>2. mem \in Memories /\ mem[NoArray] = <<>>
    BY DEF Init, Memories
  <1>3. Fits(mem, Nowhere)
    BY <1>1, <1>2, ListsAssumption DEF Fits, Nowhere
  <1>4. TypeOK
    BY <1>1, <1>2, <1>3 DEF Init, TypeOK, Kinds
  <1>5. SharersAreKin
    BY <1>1 DEF Init, SharersAreKin
  <1>6. QED
    BY <1>4, <1>5 DEF Inv

LEMMA StutterInv ==
  ASSUME Inv, UNCHANGED vars
  PROVE  Inv' /\ Noticed
  <1>1. kind' = kind /\ at' = at /\ mem' = mem /\ kin' = kin
    BY DEF vars
  <1>2. Inv'
    BY <1>1 DEF Inv, TypeOK, SharersAreKin, Fits, Windows, Memories
  <1>3. Noticed
    BY <1>1 DEF Noticed, Elements, Shown, Length
  <1>4. QED
    BY <1>2, <1>3

(* Whatever is built, shared, moved and overwritten, and in whatever order: *)
(* every slice lies in its array and shows only what was written into it.  *)
THEOREM TypeCorrect == Spec => []TypeOK
  <1>1. Init => Inv
    BY InitInv
  <1>2. Inv /\ [Next]_vars => Inv'
    <2>1. Inv /\ Next => Inv'
      BY NextIsStep, StepInv DEF Inv
    <2>2. QED
      BY <2>1, StutterInv
  <1>3. Inv => TypeOK
    BY DEF Inv
  <1>4. QED
    BY <1>1, <1>2, <1>3, PTL DEF Spec

(* Only list(), tuple(), iteration and a starred target ever make two      *)
(* objects look at one array.                                              *)
THEOREM OnlyKinShare == Spec => []SharersAreKin
  <1>1. Init => Inv
    BY InitInv
  <1>2. Inv /\ [Next]_vars => Inv'
    <2>1. Inv /\ Next => Inv'
      BY NextIsStep, StepInv DEF Inv
    <2>2. QED
      BY <2>1, StutterInv
  <1>3. Inv => SharersAreKin
    BY DEF Inv
  <1>4. QED
    BY <1>1, <1>2, <1>3, PTL DEF Spec

(* No operation on one object changes the elements of an object that is    *)
(* not its kin, or the number of elements of any other.                    *)
THEOREM NoticedByKin == Spec => OnlyKinNotice
  <1>1. Init => Inv
    BY InitInv
  <1>2. Inv /\ [Next]_vars => Inv' /\ [Noticed]_vars
    <2>1. Inv /\ Next => Inv' /\ Noticed
      BY NextIsStep, StepInv, StepNoticed DEF Inv
    <2>2. QED
      BY <2>1, StutterInv
  <1>3. QED
    BY <1>1, <1>2, PTL DEF Spec, OnlyKinNotice, Noticed

-------------------------------------------------------------------------------
(* That Lists implements ListsContract: what the elements of an object are *)
(* after an operation, where the proofs above say that there are some.     *)

(* What a slice and arrays show.                                           *)
View(r) == SubSeq(r.mem[r.at.arr], r.at.lo + 1, r.at.hi)

(* Nothing is written into the array of another object.                    *)
Spares(o, r) == \A p \in Objects \ {o} : r.mem[at[p].arr] = mem[at[p].arr]

LEMMA SameWindow ==
  ASSUME NEW S, NEW a, NEW b, NEW lo \in Nat, NEW hi \in Nat, lo <= hi,
         \A i \in lo + 1 .. hi : a[i] = b[i] /\ a[i] \in S
  PROVE  /\ SubSeq(a, lo + 1, hi) = SubSeq(b, lo + 1, hi)
         /\ SubSeq(a, lo + 1, hi) \in Seq(S) /\ Len(SubSeq(a, lo + 1, hi)) = hi - lo
         /\ \A i \in 1 .. hi - lo : SubSeq(a, lo + 1, hi)[i] = a[lo + i]
  <1> DEFINE s == SubSeq(a, lo + 1, hi)
             t == SubSeq(b, lo + 1, hi)
             n == hi - lo
  <1>1. lo + 1 \in Int /\ hi \in Int /\ \A i \in lo + 1 .. hi : a[i] \in S /\ b[i] \in S
    OBVIOUS
  <1>2. /\ s \in Seq(S) /\ Len(s) = IF lo + 1 <= hi THEN hi - (lo + 1) + 1 ELSE 0
        /\ \A i \in 1 .. hi - (lo + 1) + 1 : s[i] = a[lo + 1 + i - 1]
    BY <1>1, SubSeqProperties
  <1>3. /\ t \in Seq(S) /\ Len(t) = IF lo + 1 <= hi THEN hi - (lo + 1) + 1 ELSE 0
        /\ \A i \in 1 .. hi - (lo + 1) + 1 : t[i] = b[lo + 1 + i - 1]
    BY <1>1, SubSeqProperties
  <1> HIDE DEF s, t
  <1>4. Len(s) = n /\ Len(t) = n /\ n \in Nat
    BY <1>2, <1>3
  <1>5. \A i \in 1 .. n : i \in 1 .. hi - (lo + 1) + 1 /\ lo + 1 + i - 1 = lo + i
                          /\ lo + i \in lo + 1 .. hi
    OBVIOUS
  <1>6. \A i \in 1 .. n : s[i] = a[lo + i] /\ t[i] = b[lo + i]
    BY <1>2, <1>3, <1>5
  <1>7. \A i \in 1 .. Len(s) : s[i] = t[i]
    BY <1>4, <1>5, <1>6
  <1>8. s = t
    BY <1>2, <1>3, <1>4, <1>7, SeqEqual
  <1> QED BY <1>2, <1>4, <1>6, <1>8 DEF s, t

(* After an operation its object shows the view; the others show as many   *)
(* elements as before, and the same ones if they are spared.               *)
LEMMA ViewFacts ==
  ASSUME TypeOK, NEW o \in Objects, NEW r, Sound(o, r), Holds(o, r)
  PROVE  /\ Elements(o)' = View(r)
         /\ \A p \in Objects \ {o} :
              /\ Elements(p)' \in Seq(Elems) /\ Len(Elements(p)') = Len(Elements(p))
              /\ r.mem[at[p].arr] = mem[at[p].arr] => Elements(p)' = Elements(p)
  <1> DEFINE m == r.mem
             h == at'
  <1>1. /\ h \in [Objects -> Windows] /\ h[o] = r.at /\ \A p \in Objects \ {o} : h[p] = at[p]
        /\ \A p \in Objects : Fits(mem', h[p])
    BY OthersFacts
  <1>2. m \in Memories /\ m[NoArray] = <<>> /\ mem' = Kept(m, h) /\ \A p \in Objects : Fits(m, h[p])
    BY <1>1 DEF Sound, Holds
  <1>3. \A p \in Objects : Elements(p)' = SubSeq(mem'[h[p].arr], h[p].lo + 1, h[p].hi)
    BY DEF Elements, Shown
  <1> HIDE DEF m, h
  <1>4. \A p \in Objects : \A i \in h[p].lo + 1 .. h[p].hi : mem'[h[p].arr][i] = m[h[p].arr][i]
    BY <1>1, <1>2, KeptFacts
  <1>5. ASSUME NEW p \in Objects
        PROVE  /\ Elements(p)' = SubSeq(m[h[p].arr], h[p].lo + 1, h[p].hi)
               /\ Elements(p)' \in Seq(Elems) /\ Len(Elements(p)') = h[p].hi - h[p].lo
    <2> DEFINE a == mem'[h[p].arr]
               b == m[h[p].arr]
               lo == h[p].lo
               hi == h[p].hi
    <2>1. lo \in Nat /\ hi \in Nat /\ lo <= hi
      BY <1>1 DEF Windows, Fits
    <2>2. \A i \in lo + 1 .. hi : a[i] = b[i] /\ a[i] \in Elems
      BY <1>1, <1>4 DEF Fits
    <2>3. Elements(p)' = SubSeq(a, lo + 1, hi)
      BY <1>3
    <2> HIDE DEF a, b, lo, hi
    <2>4. /\ SubSeq(a, lo + 1, hi) = SubSeq(b, lo + 1, hi)
          /\ SubSeq(a, lo + 1, hi) \in Seq(Elems) /\ Len(SubSeq(a, lo + 1, hi)) = hi - lo
      BY <2>1, <2>2, SameWindow
    <2> QED BY <2>3, <2>4 DEF b, lo, hi
  <1>6. Elements(o)' = View(r)
    BY <1>1, <1>5 DEF View, m
  <1>7. ASSUME NEW p \in Objects \ {o}
        PROVE  /\ Len(Elements(p)') = Len(Elements(p))
               /\ m[at[p].arr] = mem[at[p].arr] => Elements(p)' = Elements(p)
    <2>1. Len(Elements(p)) = at[p].hi - at[p].lo
      BY ElementsFacts DEF Length
    <2> QED BY <1>1, <1>5, <2>1 DEF Elements, Shown
  <1> QED BY <1>5, <1>6, <1>7 DEF m

LEMMA MadeView ==
  ASSUME TypeOK, NEW o \in Objects, NEW a, NEW items \in Seq(Elems), NEW cap \in Nat,
         Len(items) <= cap, a \in Unused \/ cap = 0
  PROVE  View(Made(a, items, cap)) = items /\ Spares(o, Made(a, items, cap))
  <1> DEFINE r == Made(a, items, cap)
  <1>1. Len(items) \in Nat
    OBVIOUS
  <1>2. CASE cap = 0
    <2>1. r = [mem |-> mem, at |-> Nowhere]
      BY <1>2 DEF Made
    <2>2. items = <<>>
      BY <1>1, <1>2, EmptySeq
    <2>3. SubSeq(mem[NoArray], 0 + 1, 0) = <<>>
      BY SubSeqEmpty
    <2> QED BY <2>1, <2>2, <2>3 DEF View, Spares, Nowhere
  <1>3. CASE cap # 0
    <2> DEFINE new == [i \in 1..cap |-> IF i <= Len(items) THEN items[i] ELSE Nil]
    <2>1. r = [mem |-> [mem EXCEPT ![a] = new], at |-> [arr |-> a, lo |-> 0, hi |-> Len(items)]]
      BY <1>3 DEF Made
    <2>2. a \in Arrays /\ mem \in Memories /\ \A p \in Objects : at[p].arr # a
      BY <1>3 DEF Unused, TypeOK
    <2>3. \A i \in 0 + 1 .. Len(items) : new[i] = items[i] /\ new[i] \in Elems
      BY <1>1
    <2>4. DOMAIN mem = Arrays \cup {NoArray}
      BY <2>2 DEF Memories
    <2> HIDE DEF new
    <2>5. [mem EXCEPT ![a] = new][a] = new
      BY <2>2, <2>4
    <2>6. SubSeq(new, 0 + 1, Len(items)) = SubSeq(items, 0 + 1, Len(items))
      <3> PICK n \in Nat : n = Len(items)
        BY <1>1
      <3>1. \A i \in 0 + 1 .. n : new[i] = items[i] /\ new[i] \in Elems
        BY <2>3
      <3>2. SubSeq(new, 0 + 1, n) = SubSeq(items, 0 + 1, n)
        BY <3>1, SameWindow
      <3> QED BY <3>2
    <2>7. SubSeq(items, 0 + 1, Len(items)) = items
      BY SubSeqFull
    <2>8. View(r) = SubSeq(new, 0 + 1, Len(items))
      BY <2>1, <2>5 DEF View
    <2>9. Spares(o, r)
      BY <2>1, <2>2 DEF Spares
    <2> HIDE DEF r
    <2> QED BY <2>6, <2>7, <2>8, <2>9 DEF r
  <1> QED BY <1>2, <1>3

(* What is written behind a part of a slice shows behind it.               *)
LEMMA InPlaceView ==
  ASSUME TypeOK, NEW o \in Objects, NEW s, PartOf(s, o), NEW items \in Seq(Elems),
         Length(s) + Len(items) <= Cap(s)
  PROVE  /\ View(InPlace(s, items)) = Shown(s) \o items
         /\ InPlace(s, items).mem = [mem EXCEPT ![s.arr] = InPlace(s, items).mem[s.arr]]
         /\ s.arr \in DOMAIN mem
         /\ \A i \in DOMAIN mem[s.arr] :
              InPlace(s, items).mem[s.arr][i] =
                IF i - s.hi \in 1 .. Len(items) THEN items[i - s.hi] ELSE mem[s.arr][i]
  <1> DEFINE old == mem[s.arr]
             new == [i \in DOMAIN old |->
                       IF i - s.hi \in DOMAIN items THEN items[i - s.hi] ELSE old[i]]
             r == InPlace(s, items)
             n == s.hi - s.lo
             l == Len(items)
  <1>1. r = [mem |-> [mem EXCEPT ![s.arr] = new], at |-> [s EXCEPT !.hi = s.hi + l]]
    BY DEF InPlace
  <1>2. /\ s \in Windows /\ s.arr \in Arrays \cup {NoArray} /\ s.lo \in Nat /\ s.hi \in Nat
        /\ s.lo <= s.hi /\ mem \in Memories /\ Fits(mem, s)
    BY PartFits DEF TypeOK, PartOf, Windows
  <1>3. l \in Nat /\ DOMAIN items = 1 .. l
    OBVIOUS
  <1>4. DOMAIN old = 1 .. Len(old) /\ Len(old) \in Nat
    BY <1>2, ArrayFacts
  <1>5. s.arr \in DOMAIN mem
    BY <1>2 DEF Memories
  <1>6. /\ r.mem = [mem EXCEPT ![s.arr] = new] /\ r.mem[s.arr] = new
        /\ r.at.arr = s.arr /\ r.at.lo = s.lo /\ r.at.hi = s.hi + l
    BY <1>1, <1>2, <1>5 DEF Windows
  <1>7. \A i \in DOMAIN old : new[i] = IF i - s.hi \in 1 .. l THEN items[i - s.hi] ELSE old[i]
    BY <1>3
  <1>8. s.hi + l <= Len(old)
    BY <1>2, <1>3, <1>4 DEF Length, Cap
  <1>9. /\ Shown(s) \in Seq(Elems) /\ Len(Shown(s)) = n
        /\ \A i \in 1 .. n : Shown(s)[i] = old[s.lo + i]
    <2>1. Shown(s) \in Seq(Elems) /\ Len(Shown(s)) = Length(s)
          /\ \A i \in 1 .. Length(s) : Shown(s)[i] = old[s.lo + i]
      BY <1>2, ShownFacts
    <2> QED BY <2>1 DEF Length
  <1>10. View(r) = SubSeq(new, s.lo + 1, s.hi + l)
    BY <1>6 DEF View
  <1>11. \A i \in s.lo + 1 .. s.hi + l : new[i] \in Elems
    <2> SUFFICES ASSUME NEW i \in s.lo + 1 .. s.hi + l PROVE new[i] \in Elems
      OBVIOUS
    <2>1. i \in DOMAIN old
      BY <1>2, <1>3, <1>4, <1>8
    <2>2. CASE i - s.hi \in 1 .. l
      <3>1. items[i - s.hi] \in Elems
        BY <1>3, <2>2
      <3> QED BY <1>7, <2>1, <2>2, <3>1
    <2>3. CASE i - s.hi \notin 1 .. l
      <3>1. i \in s.lo + 1 .. s.hi
        BY <1>2, <1>3, <2>3
      <3>2. old[i] \in Elems
        BY <1>2, <3>1 DEF Fits
      <3> QED BY <1>7, <2>1, <2>3, <3>2
    <2> QED BY <2>2, <2>3
  <1> DEFINE v == SubSeq(new, s.lo + 1, s.hi + l)
             w == Shown(s) \o items
  <1> HIDE DEF new, old, r
  <1>12. v \in Seq(Elems) /\ Len(v) = n + l /\ \A i \in 1 .. n + l : v[i] = new[s.lo + i]
    <2> PICK lo \in Nat, hi \in Nat : lo = s.lo /\ hi = s.hi + l /\ lo <= hi
      BY <1>2, <1>3
    <2>1. \A i \in lo + 1 .. hi : new[i] = new[i] /\ new[i] \in Elems
      BY <1>11
    <2>2. /\ SubSeq(new, lo + 1, hi) \in Seq(Elems) /\ Len(SubSeq(new, lo + 1, hi)) = hi - lo
          /\ \A i \in 1 .. hi - lo : SubSeq(new, lo + 1, hi)[i] = new[lo + i]
      BY <2>1, SameWindow, SMTT(60)
    <2>3. hi - lo = n + l
      BY <1>2, <1>3
    <2> QED BY <2>2, <2>3
  <1>13. w \in Seq(Elems) /\ Len(w) = n + l
         /\ \A i \in 1 .. n + l : w[i] = IF i <= n THEN Shown(s)[i] ELSE items[i - n]
    BY <1>9, ConcatProperties
  <1> HIDE DEF v, w
  <1>14. ASSUME NEW i \in 1 .. n + l PROVE v[i] = w[i]
    <2> PICK j \in DOMAIN old : j = s.lo + i /\ i \in Nat
      BY <1>2, <1>3, <1>4, <1>8
    <2>1. v[i] = new[j]
      BY <1>12
    <2>2. CASE i <= n
      <3>1. j - s.hi \notin 1 .. l /\ i \in 1 .. n
        BY <1>2, <1>3, <2>2
      <3>2. new[j] = old[j]
        BY <1>7, <3>1
      <3>3. Shown(s)[i] = old[j]
        BY <1>9, <3>1
      <3> QED BY <1>13, <2>1, <2>2, <3>2, <3>3
    <2>3. CASE ~(i <= n)
      <3>1. j - s.hi = i - n /\ i - n \in 1 .. l
        BY <1>2, <1>3, <2>3
      <3>2. new[j] = items[i - n]
        BY <1>7, <3>1
      <3> QED BY <1>13, <2>1, <2>3, <3>2
    <2> QED BY <2>2, <2>3
  <1>15. v = w
    BY <1>12, <1>13, <1>14, SeqEqual
  <1> QED BY <1>5, <1>6, <1>7, <1>10, <1>15 DEF old, r, v, w

(* The first elements of an object, and a window on some of them.          *)
LEMMA PartShows ==
  ASSUME TypeOK, NEW o \in Objects, NEW m \in Nat, NEW n \in Nat, m <= n, n <= Length(at[o]),
         NEW s, s.arr = at[o].arr, s.lo = at[o].lo + m, s.hi = at[o].lo + n
  PROVE  Shown(s) = SubSeq(Elements(o), m + 1, n)
  <1> DEFINE a == mem[at[o].arr]
             e == Elements(o)
             x == [i \in 1 .. n |-> a[at[o].lo + i]]
  <1>1. at[o].lo \in Nat /\ Len(e) = Length(at[o]) /\ e \in Seq(Elems) /\ Length(at[o]) \in Nat
    BY ElementsFacts DEF TypeOK, Windows
  <1>2. \A i \in 1 .. Length(at[o]) : e[i] = a[at[o].lo + i]
    BY ShownFacts DEF TypeOK, Elements
  <1> HIDE DEF a, e
  <1> PICK k \in Nat, b \in Nat, f \in Nat :
         k = at[o].lo /\ b = s.lo /\ f = s.hi /\ b = k + m /\ f = k + n
    BY <1>1
  <1>3. /\ SubSeq(e, m + 1, n) \in Seq(Elems) /\ Len(SubSeq(e, m + 1, n)) = n - m
        /\ \A i \in 1 .. n - m : SubSeq(e, m + 1, n)[i] = e[m + i]
    <2>1. \A i \in m + 1 .. n : e[i] = e[i] /\ e[i] \in Elems
      BY <1>1
    <2> QED BY <2>1, SameWindow
  <1> PICK l \in Nat : l = Length(at[o]) /\ n <= l
    BY <1>1
  <1>e. \A i \in 1 .. l : e[i] \in Elems /\ e[i] = a[k + i]
    BY <1>1, <1>2
  <1>4. /\ SubSeq(a, b + 1, f) \in Seq(Elems) /\ Len(SubSeq(a, b + 1, f)) = f - b
        /\ \A i \in 1 .. f - b : SubSeq(a, b + 1, f)[i] = a[b + i]
    <2>1. \A i \in b + 1 .. f : a[i] = a[i] /\ a[i] \in Elems
      <3> SUFFICES ASSUME NEW i \in b + 1 .. f PROVE a[i] \in Elems
        OBVIOUS
      <3> PICK j \in 1 .. l : k + j = i
        <4>1. i - k \in 1 .. l /\ k + (i - k) = i
          OBVIOUS
        <4> QED BY <4>1
      <3> QED BY <1>e
    <2>2. b <= f
      OBVIOUS
    <2> QED BY <2>1, <2>2, SameWindow
  <1>5. ASSUME NEW i \in 1 .. n - m PROVE SubSeq(a, b + 1, f)[i] = SubSeq(e, m + 1, n)[i]
    <2>1. i \in 1 .. f - b /\ m + i \in 1 .. l /\ k + (m + i) = b + i
      OBVIOUS
    <2>2. e[m + i] = a[b + i]
      BY <1>e, <2>1
    <2> QED BY <1>3, <1>4, <2>1, <2>2
  <1>6. f - b = n - m
    OBVIOUS
  <1> DEFINE v == SubSeq(a, b + 1, f)
             w == SubSeq(e, m + 1, n)
  <1> HIDE DEF v, w
  <1>7. v = w
    <2>1. v \in Seq(Elems) /\ w \in Seq(Elems) /\ Len(v) = n - m /\ Len(w) = n - m
          /\ \A i \in 1 .. n - m : v[i] = w[i]
      BY <1>3, <1>4, <1>5, <1>6 DEF v, w
    <2> QED BY <2>1, SeqEqual
  <1> QED BY <1>7 DEF v, w, Shown, a, e

LEMMA CutShows ==
  ASSUME TypeOK, NEW o \in Objects, NEW n \in 0..Length(at[o])
  PROVE  Shown(Cut(at[o], n)) = SubSeq(Elements(o), 1, n)
  <1>1. at[o] \in Windows /\ n \in Nat /\ n <= Length(at[o]) /\ at[o].lo \in Nat
    BY ElementsFacts DEF TypeOK, Windows
  <1>0. 0 \in Nat /\ 0 <= n
    BY <1>1
  <1> DEFINE s == Cut(at[o], n)
  <1>2. s.arr = at[o].arr /\ s.lo = at[o].lo + 0 /\ s.hi = at[o].lo + n
    BY <1>1 DEF Cut, Windows
  <1> HIDE DEF s
  <1>3. Shown(s) = SubSeq(Elements(o), 0 + 1, n)
    BY <1>0, <1>1, <1>2, PartShows
  <1> QED BY <1>3 DEF s

(* append(), in the array or elsewhere, shows what it should.              *)
LEMMA AppendView ==
  ASSUME TypeOK, NEW o \in Objects, NEW s, PartOf(s, o), NEW items \in Seq(Elems),
         NEW r \in append(s, items)
  PROVE  View(r) = Shown(s) \o items
  <1>1. CASE Length(s) + Len(items) <= Cap(s)
    BY <1>1, InPlaceView DEF append
  <1>2. CASE ~(Length(s) + Len(items) <= Cap(s))
    <2> DEFINE all == Shown(s) \o items
    <2>1. Shown(s) \in Seq(Elems)
      BY PartFits, ShownFacts DEF TypeOK
    <2>2. all \in Seq(Elems) /\ Len(all) \in Nat
      BY <2>1
    <2> HIDE DEF all
    <2>3. PICK a \in Unused, spare \in 0..MaxSpare : r = Made(a, all, Len(all) + spare)
      BY <1>2 DEF append, Elsewhere, Least, all
    <2>4. Len(all) + spare \in Nat /\ Len(all) <= Len(all) + spare
      BY <2>2, ListsAssumption
    <2>5. View(r) = all
      BY <2>2, <2>3, <2>4, MadeView
    <2> QED BY <2>5 DEF all
  <1> QED BY <1>1, <1>2

LEMMA ExactlyView ==
  ASSUME TypeOK, NEW o \in Objects, NEW items \in Seq(Elems),
         NEW r \in Exactly(items) \cup ByAppends(items)
  PROVE  View(r) = items /\ Spares(o, r)
  <1>1. Len(items) \in Nat
    OBVIOUS
  <1>2. CASE r \in Exactly(items)
    <2>1. PICK a \in Unused : r = Made(a, items, Len(items))
      BY <1>2 DEF Exactly, Least
    <2> QED BY <1>1, <2>1, MadeView
  <1>3. CASE r \in ByAppends(items) /\ items # <<>>
    <2>1. PICK a \in Unused, spare \in 0..MaxSpare : r = Made(a, items, Len(items) + spare)
      BY <1>3 DEF ByAppends, Elsewhere, Least
    <2>2. Len(items) + spare \in Nat /\ Len(items) <= Len(items) + spare
      BY <1>1, ListsAssumption
    <2> QED BY <2>1, <2>2, MadeView
  <1>4. CASE r \in ByAppends(items) /\ items = <<>>
    <2>1. r = Made(NoArray, items, 0) /\ Len(items) <= 0
      BY <1>4 DEF ByAppends
    <2> QED BY <2>1, MadeView
  <1> QED BY <1>2, <1>3, <1>4

-------------------------------------------------------------------------------
(* The two ways in which the contents of objects change in the contract.   *)
LEMMA ContractChanges ==
  ASSUME Inv, NEW o \in Objects, NEW r, Sound(o, r), Changes(o, r), IsList(o)
  PROVE  C!Changes(o, View(r))
  <1>1. UNCHANGED <<kind, kin>> /\ Holds(o, r) /\ TypeOK
    BY DEF Changes, Inv
  <1>2. /\ Elements(o)' = View(r)
        /\ \A p \in Objects \ {o} :
              /\ Elements(p)' \in Seq(Elems) /\ Len(Elements(p)') = Len(Elements(p))
              /\ r.mem[at[p].arr] = mem[at[p].arr] => Elements(p)' = Elements(p)
    BY <1>1, ViewFacts
  <1>3. ASSUME NEW p \in Objects \ {o}
        PROVE  IF p \in kin[o] THEN C!Disturbs(p) ELSE C!Leaves(p)
    <2> DEFINE c == [q \in Objects |-> Elements(q)]
    <2>0. c[p] = Elements(p) /\ c'[p] = Elements(p)'
      OBVIOUS
    <2>1. CASE p \in kin[o]
      <3>1. {Elements(p)'[i] : i \in DOMAIN Elements(p)'} \subseteq Elems
        BY <1>2
      <3>2. Len(c'[p]) = Len(c[p]) /\ {c'[p][i] : i \in DOMAIN c'[p]} \subseteq Elems
        BY <1>2, <2>0, <3>1
      <3>3. C!Disturbs(p)
        BY <3>2 DEF C!Disturbs, C!ToSet
      <3> QED BY <2>1, <3>3
    <2>2. CASE p \notin kin[o]
      <3>1. at[p].arr # at[o].arr \/ at[p].arr = NoArray
        BY <2>2 DEF Inv, SharersAreKin
      <3>2. r.mem[at[p].arr] = mem[at[p].arr]
        BY <3>1, <1>1 DEF Sound, TypeOK
      <3> QED BY <1>2, <2>2, <3>2 DEF C!Leaves
    <2> QED BY <2>1, <2>2
  <1>4. C!Becomes(o, View(r))
    BY <1>2, <1>3 DEF C!Becomes
  <1> QED BY <1>1, <1>4 DEF C!Changes, C!IsList, IsList, Changes

LEMMA ContractContents ==
  ASSUME TypeOK, NEW o \in Objects, NEW r, Sound(o, r), Holds(o, r), Spares(o, r)
  PROVE  [p \in Objects |-> Elements(p)]' =
           [[p \in Objects |-> Elements(p)] EXCEPT ![o] = View(r)]
  <1>1. Elements(o)' = View(r) /\ \A p \in Objects \ {o} : Elements(p)' = Elements(p)
    BY ViewFacts DEF Spares
  <1> QED BY <1>1

(* The two modules mean the same by what they take from Slices.            *)
LEMMA SameSlices ==
  ASSUME NEW q, NEW i, NEW j, NEW k
  PROVE  C!evalSlice(q, i, j, k) = evalSlice(q, i, j, k)
  BY DEF C!evalSlice, C!Indices, C!Step, C!Start, C!End, C!Loop, C!FromEnd, C!Rounds, C!Wrap, C!MinInt,
    C!MaxInt, C!Ints, evalSlice, Indices, Step, Start, End, Loop, FromEnd, Rounds, Wrap, MinInt, MaxInt, Ints

LEMMA SameParts ==
  ASSUME NEW q, NEW i, NEW j, NEW n
  PROVE  /\ C!Times(q, n) = Times(q, n) /\ C!Reverse(q) = Reverse(q)
         /\ C!FromEnd(i, n) = FromEnd(i, n) /\ C!InLength(i, n) = InLength(i, n)
         /\ C!Low(i, n) = Low(i, n) /\ C!High(i, j, n) = High(i, j, n)
         /\ C!InsertAt(q, i, j) = InsertAt(q, i, j) /\ C!RemoveAt(q, i) = RemoveAt(q, i)
  BY DEF C!Times, C!Reverse, C!FromEnd, C!InLength, C!Low, C!High, C!InsertAt, C!RemoveAt,
    Times, Reverse, FromEnd, InLength, Low, High, InsertAt, RemoveAt

LEMMA ContractRenews ==
  ASSUME TypeOK, NEW o \in Objects, NEW k, NEW r, Sound(o, r), Holds(o, r), Spares(o, r),
         kind' = [kind EXCEPT ![o] = k], Alone(o)
  PROVE  C!Renews(o, k, View(r))
  BY ContractContents DEF C!Renews, C!Alone, Alone

LEMMA ContractNew ==
  ASSUME TypeOK, NEW p \in Objects, NEW k, NEW items \in Seq(Elems),
         NEW rs, rs \subseteq Exactly(items) \cup ByAppends(items), IsNew(p, k, items, rs)
  PROVE  C!IsNew(p, k, items)
  <1>1. PICK r \in rs : Holds(p, r)
    BY DEF IsNew
  <1>2. Sound(p, r) /\ View(r) = items /\ Spares(p, r)
    BY <1>1, ExactlySound, ExactlyView DEF IsNew
  <1>3. ~Live(p) /\ kind' = [kind EXCEPT ![p] = k] /\ Alone(p)
    BY DEF IsNew, Appears, Least
  <1>4. C!Renews(p, k, items)
    BY <1>1, <1>2, <1>3, ContractRenews
  <1> QED BY <1>3, <1>4 DEF C!IsNew, C!Live, Live

LEMMA ContractShares ==
  ASSUME TypeOK, NEW p \in Objects, NEW o \in Objects, NEW k, NEW s, PartOf(s, o),
         Shares(p, k, o, s)
  PROVE  C!Shares(p, k, o, Shown(s))
  <1> DEFINE r == [mem |-> mem, at |-> s]
  <1>1. Sound(p, r) /\ Holds(p, r)
    BY PartFits DEF Sound, TypeOK, Shares
  <1>2. View(r) = Shown(s) /\ Spares(p, r)
    BY DEF View, Shown, Spares
  <1>3. [q \in Objects |-> Elements(q)]' = [[q \in Objects |-> Elements(q)] EXCEPT ![p] = Shown(s)]
    BY <1>1, <1>2, ContractContents
  <1>4. /\ Live(o) /\ ~Live(p) /\ kind' = [kind EXCEPT ![p] = k]
        /\ kin' = [q \in Objects |-> IF q \in kin[o] \cup {p} THEN kin[o] \cup {p} ELSE kin[q]]
    BY DEF Shares, Appears, Least, Joins
  <1> QED BY <1>3, <1>4 DEF C!Shares, C!Live, Live

(* The contract speaks of the elements of an object as the module does.    *)
LEMMA ContractWords ==
  ASSUME TypeOK, NEW o \in Objects
  PROVE  /\ [q \in Objects |-> Elements(q)][o] = Elements(o)
         /\ C!Length(o) = Length(at[o])
         /\ \A i : C!Place(o, i) = FromEnd(i, Length(at[o])) + 1
         /\ C!IsList(o) <=> IsList(o)
         /\ C!Live(o) <=> Live(o)
  BY ElementsFacts, SameParts DEF C!Length, C!Place, C!IsList, C!Live, IsList, Live

-------------------------------------------------------------------------------
(* Each operation carries out what the contract says of it.                *)
LEMMA AppendKept ==
  ASSUME Inv, NEW o \in Objects, NEW x \in Elems, AppendItem(o, x)
  PROVE  C!AppendItem(o, x)
  <1>1. PICK r \in append(at[o], <<x>>) : Changes(o, r)
    BY DEF AppendItem
  <1>2. /\ TypeOK /\ PartOf(at[o], o) /\ <<x>> \in Seq(Elems) /\ IsList(o)
        /\ Length(at[o]) + Len(<<x>>) <= MaxLen /\ Elements(o) \in Seq(Elems)
    BY ElementsFacts, ListsAssumption DEF AppendItem, Inv
  <1>3. Sound(o, r) /\ View(r) = Elements(o) \o <<x>>
    BY <1>1, <1>2, AppendSound, AppendView DEF Elements
  <1>4. Append(Elements(o), x) = Elements(o) \o <<x>>
    BY <1>2, AppendIsConcat
  <1>5. C!Changes(o, Append(Elements(o), x))
    BY <1>1, <1>2, <1>3, <1>4, ContractChanges
  <1> QED BY <1>2, <1>5, ContractWords DEF C!AppendItem

LEMMA ExtendKept ==
  ASSUME Inv, NEW o \in Objects, NEW p \in Objects, Extend(o, p)
  PROVE  C!Extend(o, p)
  <1>1. PICK r \in append(at[o], Elements(p)) : Changes(o, r)
    BY DEF Extend
  <1>2. /\ TypeOK /\ PartOf(at[o], o) /\ Elements(p) \in Seq(Elems) /\ IsList(o)
        /\ Length(at[o]) + Len(Elements(p)) <= MaxLen
    BY ElementsFacts DEF Extend, Inv
  <1>3. Sound(o, r) /\ View(r) = Elements(o) \o Elements(p)
    BY <1>1, <1>2, AppendSound, AppendView DEF Elements
  <1>4. C!Changes(o, Elements(o) \o Elements(p))
    BY <1>1, <1>2, <1>3, ContractChanges
  <1> QED BY <1>2, <1>4, ContractWords DEF C!Extend

(* What comes behind moves up: one element is gone.                        *)
LEMMA WithoutKept ==
  ASSUME Inv, NEW o \in Objects, IsList(o), NEW i \in 0 .. Length(at[o]) - 1, Without(o, i)
  PROVE  C!Changes(o, RemoveAt(Elements(o), i + 1))
  <1> DEFINE s == Cut(at[o], i)
             items == SubSeq(Elements(o), i + 2, Length(at[o]))
  <1>1. PICK r \in append(s, items) : Changes(o, r)
    BY DEF Without
  <1>2. /\ TypeOK /\ Elements(o) \in Seq(Elems) /\ Len(Elements(o)) = Length(at[o])
        /\ Length(at[o]) \in Nat /\ Length(at[o]) <= MaxLen
    BY ElementsFacts DEF Inv
  <1>3. items \in Seq(Elems) /\ Len(items) = IF i + 2 <= Length(at[o])
                                             THEN Length(at[o]) - (i + 2) + 1 ELSE 0
    BY <1>2, SubSeqFacts
  <1>4. PartOf(s, o) /\ Length(s) = i /\ Shown(s) = SubSeq(Elements(o), 1, i)
    BY <1>2, CutFacts, CutShows
  <1>5. Length(s) + Len(items) <= MaxLen
    BY <1>2, <1>3, <1>4, ListsAssumption
  <1>6. Shown(s) \o items = RemoveAt(Elements(o), i + 1)
    <2>1. i + 1 - 1 = i /\ i + 1 + 1 = i + 2 /\ Len(Elements(o)) = Length(at[o])
      BY <1>2
    <2> QED BY <1>4, <2>1 DEF RemoveAt
  <1> HIDE DEF s, items
  <1>7. Sound(o, r) /\ View(r) = Shown(s) \o items
    BY <1>1, <1>2, <1>3, <1>4, <1>5, AppendSound, AppendView
  <1> QED BY <1>1, <1>6, <1>7, ContractChanges

LEMMA DeleteKept ==
  ASSUME Inv, NEW o \in Objects, NEW i \in Bounds, Pop(o, i) \/ DeleteIndex(o, i)
  PROVE  C!Delete(o, i)
  <1> DEFINE j == FromEnd(i, Length(at[o]))
  <1>1. IsList(o) /\ j \in 0 .. Length(at[o]) - 1 /\ Without(o, j)
    BY DEF Pop, DeleteIndex, HasIndex
  <1>2. TypeOK /\ DOMAIN Elements(o) = 1..Length(at[o]) /\ Length(at[o]) \in Nat
    BY ElementsFacts DEF Inv
  <1>3. C!Place(o, i) = j + 1 /\ [q \in Objects |-> Elements(q)][o] = Elements(o)
    BY <1>2, ContractWords
  <1> HIDE DEF j
  <1>4. C!Changes(o, RemoveAt(Elements(o), j + 1))
    BY <1>1, WithoutKept
  <1>5. j + 1 \in DOMAIN Elements(o)
    BY <1>1, <1>2
  <1> QED BY <1>3, <1>4, <1>5, SameParts DEF C!Delete

LEMMA RemoveKept ==
  ASSUME Inv, NEW o \in Objects, NEW x \in Elems, RemoveValue(o, x)
  PROVE  C!RemoveValue(o, x)
  <1> DEFINE e == Elements(o)
  <1>1. TypeOK /\ IsList(o) /\ DOMAIN e = 1..Length(at[o]) /\ Length(at[o]) \in Nat
        /\ Len(e) = Length(at[o])
    BY ElementsFacts DEF Inv, RemoveValue
  <1>2. PICK i \in DOMAIN e :
          e[i] = x /\ (\A j \in 1 .. i - 1 : e[j] # x) /\ Without(o, i - 1)
    BY DEF RemoveValue
  <1>3. i \in 1 .. Len(e) /\ i - 1 \in 0 .. Length(at[o]) - 1 /\ i - 1 + 1 = i
    BY <1>1, <1>2
  <1>4. C!Changes(o, RemoveAt(e, i))
    <2>1. C!Changes(o, RemoveAt(e, i - 1 + 1))
      BY <1>1, <1>2, <1>3, WithoutKept
    <2> QED BY <1>3, <2>1
  <1> HIDE DEF e
  <1>5. C!RemoveFirst(e, x) = RemoveAt(e, i)
    <2> DEFINE I == {j \in 1 .. Len(e) : e[j] = x}
    <2>1. i \in I /\ I \subseteq Int /\ \A j \in I : i <= j
      BY <1>1, <1>2, <1>3
    <2>2. \A j \in I : (\A l \in I : j <= l) => j = i
      BY <2>1
    <2>3. (CHOOSE j \in I : \A l \in I : j <= l) = i
      <3> HIDE DEF I
      <3> QED BY <2>1, <2>2
    <2>4. C!SelectInSeq(e, LAMBDA v : v = x) = i
      BY <2>1, <2>3 DEF C!SelectInSeq, C!Min
    <2> QED BY <1>2, <1>3, <2>4, SameParts DEF C!RemoveFirst
  <1>6. x \in C!ToSet(e)
    BY <1>2 DEF C!ToSet
  <1>7. [q \in Objects |-> Elements(q)][o] = e
    BY DEF e
  <1> QED BY <1>4, <1>5, <1>6, <1>7 DEF C!RemoveValue

LEMMA InsertAtFacts ==
  ASSUME NEW S, NEW q \in Seq(S), NEW j \in 0 .. Len(q), NEW x \in S
  PROVE  InsertAt(q, j + 1, x) = SubSeq(q, 1, j) \o (<<x>> \o SubSeq(q, j + 1, Len(q)))
  <1> PICK n \in Nat : n = Len(q)
    OBVIOUS
  <1> DEFINE front == SubSeq(q, 1, j)
             back == SubSeq(q, j + 1, n)
             one == <<x>>
  <1>1. front \in Seq(S) /\ back \in Seq(S) /\ one \in Seq(S)
    BY SubSeqFacts
  <1>2. (j + 1) - 1 = j
    OBVIOUS
  <1>3. InsertAt(q, j + 1, x) = (front \o one) \o back
    BY <1>2 DEF InsertAt
  <1> HIDE DEF front, back, one
  <1>4. (front \o one) \o back = front \o (one \o back)
    <2>1. ASSUME NEW f \in Seq(S), NEW g \in Seq(S), NEW h \in Seq(S)
          PROVE  (f \o g) \o h = f \o (g \o h)
      OBVIOUS
    <2> QED BY <1>1, <2>1, ZenonT(60)
  <1> QED BY <1>3, <1>4 DEF front, back, one

LEMMA InsertKept ==
  ASSUME Inv, NEW o \in Objects, NEW i \in Bounds, NEW x \in Elems, Insert(o, i, x)
  PROVE  C!Insert(o, i, x)
  <1> DEFINE n == Length(at[o])
             j == InLength(FromEnd(i, n), n)
             e == Elements(o)
             items == <<x>> \o SubSeq(e, j + 1, n)
             s == Cut(at[o], j)
  <1>1. /\ TypeOK /\ e \in Seq(Elems) /\ Len(e) = n /\ n \in Nat /\ n < MaxLen /\ IsList(o)
    BY ElementsFacts DEF Insert, Inv
  <1>2. j \in 0..n
    <2>1. i \in Int
      BY ListsAssumption DEF Ints
    <2> HIDE DEF n
    <2> QED BY <2>1, <1>1 DEF InLength, FromEnd
  <1>3. PICK r \in append(s, items) : Changes(o, r)
    BY DEF Insert
  <1>c. /\ C!Length(o) = n /\ [q \in Objects |-> Elements(q)][o] = e
        /\ C!InLength(C!FromEnd(i, n), n) = j
    BY <1>1, ContractWords, SameParts
  <1> HIDE DEF j
  <1>4. PartOf(s, o) /\ Length(s) = j /\ Shown(s) = SubSeq(e, 1, j)
    BY <1>1, <1>2, CutFacts, CutShows
  <1> HIDE DEF e, n
  <1> DEFINE front == SubSeq(e, 1, j)
             back == SubSeq(e, j + 1, n)
  <1>5. /\ front \in Seq(Elems) /\ back \in Seq(Elems) /\ <<x>> \in Seq(Elems) /\ Len(<<x>>) = 1
        /\ Len(back) = IF j + 1 <= n THEN n - (j + 1) + 1 ELSE 0
    BY <1>1, <1>2, SubSeqFacts
  <1>6. InsertAt(e, j + 1, x) = front \o items
    BY <1>1, <1>2, InsertAtFacts
  <1>7. items \in Seq(Elems) /\ Length(s) + Len(items) <= MaxLen
    <2>1. items \in Seq(Elems) /\ Len(items) = 1 + Len(back)
      BY <1>5, ConcatProperties
    <2> QED BY <2>1, <1>1, <1>2, <1>4, <1>5, ListsAssumption
  <1> HIDE DEF items, s
  <1>8. Sound(o, r) /\ View(r) = front \o items
    BY <1>1, <1>3, <1>4, <1>7, AppendSound, AppendView
  <1>9. C!Changes(o, InsertAt(e, j + 1, x))
    BY <1>1, <1>3, <1>6, <1>8, ContractChanges
  <1> QED BY <1>9, <1>c, SameParts DEF C!Insert

LEMMA SetIndexKept ==
  ASSUME Inv, NEW o \in Objects, NEW i \in Bounds, NEW x \in Elems, SetIndex(o, i, x)
  PROVE  C!SetIndex(o, i, x)
  <1> DEFINE n == Length(at[o])
             j == FromEnd(i, n)
             e == Elements(o)
             s == Cut(at[o], j)
             m == InPlace(s, <<x>>).mem
             r == [mem |-> m, at |-> at[o]]
             a == at[o].arr
  <1>1. /\ TypeOK /\ IsList(o) /\ j \in 0 .. n - 1
        /\ PartOf(s, o) /\ Length(s) + Len(<<x>>) <= Cap(s) /\ Sound(o, r) /\ Changes(o, r)
    BY SetIndexSound DEF Inv, SetIndex, HasIndex
  <1>2. /\ e \in Seq(Elems) /\ Len(e) = n /\ n \in Nat /\ DOMAIN e = 1 .. n
        /\ <<x>> \in Seq(Elems) /\ Len(<<x>>) = 1 /\ <<x>>[1] = x
        /\ at[o].lo \in Nat /\ at[o].hi \in Nat /\ at[o].hi = at[o].lo + n
        /\ at[o] \in Windows /\ Fits(mem, at[o])
        /\ a \in Arrays \cup {NoArray} /\ mem \in Memories
    BY <1>1, ElementsFacts DEF TypeOK, Windows, Length
  <1>3. \A k \in 1 .. n : e[k] = mem[a][at[o].lo + k]
    BY <1>2, ShownFacts DEF Elements
  <1>4. s.arr = a /\ s.hi = at[o].lo + j
    BY <1>2 DEF Cut, Windows
  <1>5. at[o].hi <= Len(mem[a]) /\ DOMAIN mem[a] = 1 .. Len(mem[a]) /\ Len(mem[a]) \in Nat
    BY <1>2, ArrayFacts DEF Fits
  <1>6. \A k \in DOMAIN mem[a] : m[a][k] = IF k - s.hi \in 1 .. 1 THEN <<x>>[k - s.hi] ELSE mem[a][k]
    <2> DEFINE items == <<x>>
    <2>1. m = InPlace(s, items).mem /\ TypeOK /\ PartOf(s, o) /\ items \in Seq(Elems)
          /\ Length(s) + Len(items) <= Cap(s) /\ Len(items) = 1
      BY <1>1, <1>2
    <2> HIDE DEF items, s, m
    <2>2. \A k \in DOMAIN mem[s.arr] :
            InPlace(s, items).mem[s.arr][k] =
              IF k - s.hi \in 1 .. Len(items) THEN items[k - s.hi] ELSE mem[s.arr][k]
      BY <2>1, InPlaceView, ZenonT(60)
    <2> QED BY <2>1, <2>2, <1>4 DEF items
  <1>c. /\ C!Place(o, i) = j + 1 /\ [q \in Objects |-> Elements(q)][o] = e
    BY <1>1, ContractWords
  <1>7. C!Changes(o, View(r))
    BY <1>1, ContractChanges
  <1>8. View(r) = SubSeq(m[a], at[o].lo + 1, at[o].hi)
    BY DEF View
  <1> HIDE DEF n, j, e, s, m, r, a
  <1> PICK lo \in Nat, hi \in Nat, c \in Nat :
         lo = at[o].lo /\ hi = at[o].hi /\ hi = lo + n /\ c = Len(mem[a]) /\ hi <= c
    BY <1>2, <1>5
  <1>d. s.hi = lo + j /\ DOMAIN mem[a] = 1 .. c /\ \A k \in 1 .. n : e[k] = mem[a][lo + k]
    BY <1>3, <1>4, <1>5
  <1>f. n \in Nat /\ j \in Int /\ <<x>>[1] = x
    BY <1>1, <1>2
  <1>g. \A k \in DOMAIN mem[a] : m[a][k] = IF k - s.hi \in 1 .. 1 THEN <<x>>[k - s.hi] ELSE mem[a][k]
    BY <1>6 DEF a
  <1>9. \A k \in 1 .. n : m[a][lo + k] = IF k = j + 1 THEN x ELSE e[k]
    <2> SUFFICES ASSUME NEW k \in 1 .. n PROVE m[a][lo + k] = IF k = j + 1 THEN x ELSE e[k]
      OBVIOUS
    <2>0. j \in Int /\ s.hi = lo + j /\ lo + k \in 1 .. c
      <3>1. lo + k \in 1 .. c
        BY <1>f, SMTT(60)
      <3> QED BY <1>f, <1>d, <3>1
    <2>1. lo + k \in DOMAIN mem[a] /\ (lo + k) - s.hi = k - j
      BY <2>0, <1>d
    <2>2. k - j \in 1 .. 1 <=> k = j + 1
      BY <1>1, <1>2
    <2>3. m[a][lo + k] = IF k - j \in 1 .. 1 THEN <<x>>[k - j] ELSE mem[a][lo + k]
      <3> DEFINE l == lo + k
      <3>1. l \in DOMAIN mem[a] /\ l - s.hi = k - j
        BY <2>1
      <3> HIDE DEF l
      <3>2. m[a][l] = IF l - s.hi \in 1 .. 1 THEN <<x>>[l - s.hi] ELSE mem[a][l]
        BY <1>g, <3>1
      <3> QED BY <3>1, <3>2 DEF l
    <2>4. CASE k = j + 1
      <3>1. k - j = 1
        BY <2>4, <1>1, <1>2
      <3> QED BY <2>2, <2>3, <2>4, <3>1, <1>2
    <2>5. CASE k # j + 1
      BY <2>2, <2>3, <2>5, <1>d
    <2> QED BY <2>4, <2>5
  <1> DEFINE v == SubSeq(m[a], lo + 1, hi)
             w == [e EXCEPT ![j + 1] = x]
  <1>10. v \in Seq(Elems) /\ Len(v) = n /\ \A k \in 1 .. n : v[k] = m[a][lo + k]
    <2>1. \A k \in lo + 1 .. hi : m[a][k] = m[a][k] /\ m[a][k] \in Elems
      <3> SUFFICES ASSUME NEW k \in lo + 1 .. hi PROVE m[a][k] \in Elems
        OBVIOUS
      <3> PICK l \in 1 .. n : lo + l = k
        <4>1. k - lo \in 1 .. n /\ lo + (k - lo) = k
          BY <1>2, SMTT(60)
        <4> QED BY <4>1
      <3>1. e[l] \in Elems
        BY <1>2
      <3> QED BY <1>9, <3>1
    <2>2. lo <= hi /\ hi - lo = n
      BY <1>2
    <2> DEFINE b == m[a]
    <2>3. \A k \in lo + 1 .. hi : b[k] = b[k] /\ b[k] \in Elems
      BY <2>1
    <2> HIDE DEF b
    <2>4. /\ SubSeq(b, lo + 1, hi) \in Seq(Elems) /\ Len(SubSeq(b, lo + 1, hi)) = hi - lo
          /\ \A k \in 1 .. hi - lo : SubSeq(b, lo + 1, hi)[k] = b[lo + k]
      BY ONLY <2>2, <2>3, SameWindow, lo \in Nat, hi \in Nat
    <2> QED BY <2>2, <2>4 DEF b
  <1>11. w \in Seq(Elems) /\ Len(w) = n /\ \A k \in 1 .. n : w[k] = IF k = j + 1 THEN x ELSE e[k]
    <2>1. j + 1 \in 1 .. Len(e)
      BY <1>1, <1>2
    <2> QED BY <1>2, <2>1, ExceptSeq
  <1> HIDE DEF v, w
  <1>12. v = w
    <2>1. Len(v) = Len(w) /\ \A k \in 1 .. Len(v) : v[k] = w[k]
      BY <1>9, <1>10, <1>11
    <2> QED BY <2>1, <1>10, <1>11, SeqEqual
  <1>13. C!Changes(o, w)
    BY <1>7, <1>8, <1>12 DEF v
  <1>14. j + 1 \in DOMAIN e
    BY <1>1, <1>2
  <1> QED BY <1>13, <1>14, <1>c DEF C!SetIndex, w

(* The elements are written over from the first.                           *)
LEMMA OverwriteKept ==
  ASSUME Inv, NEW o \in Objects, IsList(o), NEW items \in Seq(Elems),
         Len(items) = Length(at[o]), Overwrite(o, items)
  PROVE  C!Changes(o, items)
  <1> DEFINE s == Cut(at[o], 0)
             r == InPlace(s, items)
  <1>1. /\ TypeOK /\ Length(at[o]) \in Nat /\ Length(at[o]) <= MaxLen
        /\ Length(at[o]) <= Cap(at[o]) /\ Elements(o) \in Seq(Elems)
    BY ElementsFacts DEF Inv
  <1>2. PartOf(s, o) /\ Length(s) = 0 /\ Shown(s) = SubSeq(Elements(o), 1, 0)
    BY <1>1, CutFacts, CutShows
  <1>3. Cap(s) = Cap(at[o])
    BY <1>1 DEF Cap, Cut, TypeOK, Windows
  <1>4. Shown(s) \o items = items
    <2>1. SubSeq(Elements(o), 1, 0) = <<>>
      BY SubSeqEmpty
    <2> QED BY <1>2, <2>1, ConcatEmptySeq
  <1>5. Changes(o, r)
    BY DEF Overwrite
  <1> HIDE DEF s
  <1>6. Length(s) + Len(items) <= Cap(s) /\ Length(s) + Len(items) <= MaxLen
    BY <1>1, <1>2, <1>3
  <1>7. Sound(o, r) /\ View(r) = items
    BY <1>1, <1>2, <1>4, <1>6, InPlaceSound, InPlaceView
  <1> HIDE DEF r
  <1> QED BY <1>5, <1>7, ContractChanges

LEMMA ReverseKept ==
  ASSUME Inv, NEW o \in Objects, ReverseList(o)
  PROVE  C!ReverseList(o)
  <1>1. TypeOK /\ Elements(o) \in Seq(Elems) /\ Len(Elements(o)) = Length(at[o]) /\ IsList(o)
    BY ElementsFacts DEF Inv, ReverseList
  <1>2. Reverse(Elements(o)) \in Seq(Elems) /\ Len(Reverse(Elements(o))) = Length(at[o])
    BY <1>1, ReverseFacts
  <1>3. C!Changes(o, Reverse(Elements(o)))
    BY <1>1, <1>2, OverwriteKept DEF ReverseList
  <1> QED BY <1>1, <1>3, ContractWords, SameParts DEF C!ReverseList

LEMMA NothingFacts ==
  ASSUME TypeOK, NEW o \in Objects
  PROVE  LET r == [mem |-> mem, at |-> Nowhere] IN
         Sound(o, r) /\ Spares(o, r) /\ View(r) = <<>>
  <1>1. Nowhere \in Windows /\ Fits(mem, Nowhere)
    BY ListsAssumption DEF Nowhere, Windows, Fits, TypeOK
  <1>2. SubSeq(mem[NoArray], 0 + 1, 0) = <<>>
    BY SubSeqEmpty
  <1> QED BY <1>1, <1>2 DEF Sound, Spares, View, TypeOK, Nowhere

LEMMA ClearKept ==
  ASSUME Inv, NEW o \in Objects, Clear(o)
  PROVE  C!Clear(o)
  <1> DEFINE r == [mem |-> mem, at |-> Nowhere]
  <1>1. TypeOK /\ IsList(o) /\ Holds(o, r) /\ Alone(o) /\ kind' = [kind EXCEPT ![o] = "list"]
    BY DEF Inv, TypeOK, Clear, IsList
  <1>2. Sound(o, r) /\ Spares(o, r) /\ View(r) = <<>>
    BY <1>1, NothingFacts
  <1> HIDE DEF r
  <1>3. C!Renews(o, "list", <<>>)
    BY <1>1, <1>2, ContractRenews
  <1> QED BY <1>1, <1>3 DEF C!Clear, C!IsList, IsList

LEMMA ForgetKept ==
  ASSUME Inv, NEW o \in Objects, Forget(o)
  PROVE  C!Forget(o)
  <1> DEFINE r == [mem |-> mem, at |-> Nowhere]
  <1>1. TypeOK /\ Live(o) /\ Holds(o, r) /\ Alone(o) /\ kind' = [kind EXCEPT ![o] = "free"]
    BY DEF Inv, Forget
  <1>2. Sound(o, r) /\ Spares(o, r) /\ View(r) = <<>>
    BY <1>1, NothingFacts
  <1> HIDE DEF r
  <1>3. C!Renews(o, "free", <<>>)
    BY <1>1, <1>2, ContractRenews
  <1> QED BY <1>1, <1>3 DEF C!Forget, C!Live, Live

LEMMA SetSliceKept ==
  ASSUME Inv, NEW o \in Objects, NEW b \in Cuts, NEW p \in Objects, SetSlice(o, b, p)
  PROVE  C!SetSlice(o, b, p)
  <1> DEFINE items == Replaced(o, b, p)
  <1>1. TypeOK /\ IsList(o) /\ Alone(o) /\ kind' = [kind EXCEPT ![o] = "list"]
    BY DEF Inv, TypeOK, SetSlice, IsList
  <1>2. PICK r \in Exactly(items) : Holds(o, r)
    BY DEF SetSlice
  <1>3. items \in Seq(Elems) /\ Len(items) <= MaxLen
    BY <1>1, ReplacedFacts DEF SetSlice
  <1> HIDE DEF items
  <1>4. Sound(o, r) /\ Spares(o, r) /\ View(r) = items
    BY <1>1, <1>2, <1>3, ExactlySound, ExactlyView
  <1>5. C!Renews(o, "list", items)
    BY <1>1, <1>2, <1>4, ContractRenews
  <1>6. /\ [q \in Objects |-> Elements(q)][o] = Elements(o)
        /\ [q \in Objects |-> Elements(q)][p] = Elements(p)
        /\ C!Length(o) = Length(at[o]) /\ C!IsList(o)
    BY <1>1, ContractWords
  <1> QED BY <1>5, <1>6, SameParts DEF C!SetSlice, Replaced, items

(* An iterator goes on with the rest.                                      *)
LEMMA ForIterKept ==
  ASSUME Inv, NEW o \in Objects, ForIter(o)
  PROVE  C!ForIter(o)
  <1> DEFINE s == [at[o] EXCEPT !.lo = @ + 1]
             r == [mem |-> mem, at |-> s]
             n == Length(at[o])
             e == Elements(o)
  <1>1. /\ TypeOK /\ kind[o] = "iterator" /\ n > 0 /\ Holds(o, r) /\ UNCHANGED <<kind, kin>>
    BY DEF Inv, ForIter, Changes
  <1>2. /\ e \in Seq(Elems) /\ Len(e) = n /\ n \in Nat /\ at[o] \in Windows
        /\ at[o].lo \in Nat /\ at[o].hi = at[o].lo + n
    BY <1>1, ElementsFacts DEF TypeOK, Windows, Length
  <1>3. s.arr = at[o].arr /\ s.lo = at[o].lo + 1 /\ s.hi = at[o].lo + n
    BY <1>2 DEF Windows
  <1>4. PartOf(s, o)
    <2>1. s \in Windows
      BY <1>2 DEF Windows
    <2>2. at[o].lo <= at[o].lo + 1 /\ at[o].lo + 1 <= at[o].lo + n
      <3> PICK k \in Nat, l \in Nat : k = at[o].lo /\ l = n
        BY <1>2
      <3>1. l > 0
        BY <1>1
      <3>2. k <= k + 1 /\ k + 1 <= k + l
        BY <3>1
      <3> QED BY <3>2
    <2> HIDE DEF s
    <2> QED BY <2>1, <2>2, <1>2, <1>3 DEF PartOf
  <1>5. Sound(o, r) /\ Spares(o, r) /\ View(r) = Shown(s)
    BY <1>1, <1>4, PartFits DEF Sound, TypeOK, Spares, View, Shown, PartOf
  <1> HIDE DEF s
  <1>6. Shown(s) = SubSeq(e, 1 + 1, n)
    <2>1. 1 \in Nat /\ n \in Nat /\ 1 <= n /\ n <= Length(at[o])
      BY <1>1, <1>2
    <2> HIDE DEF n
    <2> QED BY <1>1, <1>3, <2>1, PartShows
  <1>7. e # <<>> /\ Tail(e) = SubSeq(e, 2, n)
    <2>1. e # <<>>
      BY <1>1, <1>2
    <2> QED BY <2>1, <1>2, TailIsSubSeq
  <1>8. [q \in Objects |-> Elements(q)]' = [[q \in Objects |-> Elements(q)] EXCEPT ![o] = View(r)]
    BY <1>1, <1>5, ContractContents
  <1>9. View(r) = Tail(e)
    <2>1. 1 + 1 = 2
      OBVIOUS
    <2> HIDE DEF e, n, r
    <2> QED BY <1>5, <1>6, <1>7, <2>1
  <1> HIDE DEF r, n
  <1>10. [q \in Objects |-> Elements(q)][o] = e
    OBVIOUS
  <1> HIDE DEF e
  <1> QED BY <1>1, <1>7, <1>8, <1>9, <1>10 DEF C!ForIter

-------------------------------------------------------------------------------
(* What is in ascending order and has every value as often as before is an *)
(* arrangement of it.                                                      *)
Matched(I, J) ==
  \E f \in [I -> J] : /\ \A i, k \in I : f[i] = f[k] => i = k
                      /\ \A j \in J : \E i \in I : f[i] = j

LEMMA SameCount ==
  ASSUME NEW I, NEW J, IsFiniteSet(I), IsFiniteSet(J), Cardinality(I) = Cardinality(J)
  PROVE  Matched(I, J)
  <1>1. ExistsBijection(I, J)
    BY FS_SameCardinalityBij
  <1> QED BY <1>1 DEF Matched, ExistsBijection, Bijection, Injection, Surjection, IsInjective

LEMMA SortingIsArrangement ==
  ASSUME NEW S, NEW s \in Seq(S), NEW t \in Sortings(s)
  PROVE  t \in C!Arrangements(s) /\ C!Ascending(t)
  <1> DEFINE D == DOMAIN s
             T == ToSet(s)
             At(x) == {i \in D : s[i] = x}
             Now(x) == {i \in D : t[i] = x}
  <1>1. t \in [D -> T] /\ \A i, j \in D : i < j => t[i] <= t[j]
    BY DEF Sortings
  <1>2. \A x \in T : Cardinality(At(x)) = Cardinality(Now(x))
    BY <1>1 DEF Sortings
  <1>3. IsFiniteSet(D)
    <2>1. Len(s) \in Nat /\ D = 1 .. Len(s)
      OBVIOUS
    <2> QED BY <2>1, FS_Interval
  <1>4. ASSUME NEW x \in T
        PROVE  \E f \in [Now(x) -> At(x)] :
                 /\ \A i, k \in Now(x) : f[i] = f[k] => i = k
                 /\ \A j \in At(x) : \E i \in Now(x) : f[i] = j
    <2>1. IsFiniteSet(At(x)) /\ IsFiniteSet(Now(x))
      BY <1>3, FS_Subset
    <2>2. Cardinality(Now(x)) = Cardinality(At(x))
      BY <1>2
    <2> DEFINE I == Now(x)
               J == At(x)
    <2>3. IsFiniteSet(I) /\ IsFiniteSet(J) /\ Cardinality(I) = Cardinality(J)
      BY <2>1, <2>2
    <2> HIDE DEF I, J
    <2>4. Matched(I, J)
      BY <2>3, SameCount
    <2> QED BY <2>4 DEF I, J, Matched
  <1> DEFINE F(x) == CHOOSE f \in [Now(x) -> At(x)] :
                       /\ \A i, k \in Now(x) : f[i] = f[k] => i = k
                       /\ \A j \in At(x) : \E i \in Now(x) : f[i] = j
             p == [i \in D |-> F(t[i])[i]]
  <1>5. ASSUME NEW x \in T
        PROVE  /\ F(x) \in [Now(x) -> At(x)]
               /\ \A i, k \in Now(x) : F(x)[i] = F(x)[k] => i = k
               /\ \A j \in At(x) : \E i \in Now(x) : F(x)[i] = j
    <2> HIDE DEF At, Now
    <2> QED BY <1>4
  <1> HIDE DEF F
  <1>6. ASSUME NEW i \in D
        PROVE  t[i] \in T /\ i \in Now(t[i]) /\ p[i] \in D /\ s[p[i]] = t[i]
    <2>1. t[i] \in T /\ i \in Now(t[i])
      BY <1>1
    <2>2. p[i] \in At(t[i])
      <3> PICK x \in T : x = t[i]
        BY <2>1
      <3>1. F(x) \in [Now(x) -> At(x)] /\ i \in Now(x) /\ p[i] = F(x)[i]
        BY <1>5, <2>1
      <3> HIDE DEF Now, At, p
      <3> QED BY <3>1
    <2> QED BY <2>1, <2>2
  <1>7. ASSUME NEW i \in D, NEW k \in D, p[i] = p[k] PROVE i = k
    <2>1. t[i] = t[k]
      BY <1>6, <1>7
    <2>2. i \in Now(t[i]) /\ k \in Now(t[i]) /\ F(t[i])[i] = F(t[i])[k] /\ t[i] \in T
      BY <1>6, <1>7, <2>1
    <2> HIDE DEF Now, At, p
    <2> QED BY <1>5, <2>2
  <1>8. ASSUME NEW j \in D PROVE \E i \in D : p[i] = j
    <2>1. s[j] \in T /\ j \in At(s[j])
      BY DEF ToSet
    <2>2. PICK i \in Now(s[j]) : F(s[j])[i] = j
      BY <1>5, <2>1
    <2>3. i \in D /\ t[i] = s[j]
      BY <2>2
    <2> QED BY <2>2, <2>3
  <1>9. p \in C!Bijection(D, D)
    <2>1. p \in [D -> D]
      BY <1>6
    <2> HIDE DEF p, D
    <2> QED BY <2>1, <1>7, <1>8 DEF C!Bijection, C!Injection, C!Surjection, C!IsInjective
  <1>10. t = [i \in D |-> s[p[i]]]
    <2>1. \A i \in D : t[i] = s[p[i]]
      BY <1>6
    <2> HIDE DEF p, D, T
    <2> QED BY <2>1, <1>1
  <1>11. t \in C!Arrangements(s)
    <2> HIDE DEF p
    <2> QED BY <1>9, <1>10 DEF C!Arrangements
  <1> QED BY <1>1, <1>11 DEF C!Ascending

LEMMA SortKept ==
  ASSUME Inv, NEW o \in Objects, Sort(o)
  PROVE  C!Sort(o)
  <1>1. TypeOK /\ IsList(o) /\ Elements(o) \in Seq(Elems) /\ Len(Elements(o)) = Length(at[o])
    BY ElementsFacts DEF Inv, Sort
  <1>2. PICK t \in Sortings(Elements(o)) : Overwrite(o, t)
    BY DEF Sort
  <1>3. t \in Seq(Elems) /\ Len(t) = Length(at[o])
    BY <1>1, SortingsFacts
  <1>4. C!Changes(o, t)
    BY <1>1, <1>2, <1>3, OverwriteKept
  <1>5. t \in C!Arrangements(Elements(o)) /\ C!Ascending(t)
    BY <1>1, SortingIsArrangement
  <1> QED BY <1>1, <1>4, <1>5, ContractWords DEF C!Sort

-------------------------------------------------------------------------------
(* So do the operations that make an object, and those that share one.     *)
LEMMA MakeKept ==
  ASSUME Inv, NEW o \in Objects, NEW p \in Objects, Make(o, p)
  PROVE  C!Make(o, p)
  <1>e. /\ TypeOK
        /\ \A q \in Objects : Elements(q) \in Seq(Elems) /\ Len(Elements(q)) <= MaxLen
        /\ [q \in Objects |-> Elements(q)][o] = Elements(o)
    BY ElementsFacts DEF Inv
  <1>1. ASSUME Copy(o, p) PROVE C!Copy(o, p)
    <2>1. C!IsNew(p, "list", Elements(o))
      BY <1>1, <1>e, ContractNew DEF Copy
    <2> QED BY <1>1, <1>e, <2>1 DEF Copy, C!Copy, C!IsList, IsList
  <1>2. ASSUME NEW q \in Objects, Concatenate(o, q, p) PROVE C!Concatenate(o, q, p)
    <2> DEFINE items == Elements(o) \o Elements(q)
    <2>1. items \in Seq(Elems)
      BY <1>e, ConcatProperties
    <2>2. IsNew(p, "list", items, Exactly(items))
      BY <1>2 DEF Concatenate
    <2> HIDE DEF items
    <2>3. C!IsNew(p, "list", items)
      BY <1>e, <2>1, <2>2, ContractNew
    <2>4. [r \in Objects |-> Elements(r)][q] = Elements(q)
      OBVIOUS
    <2> QED BY <1>e, <2>3, <2>4 DEF C!Concatenate, items
  <1>3. ASSUME NEW n \in 0..2, Repeat(o, n, p) PROVE C!Repeat(o, n, p)
    <2>1. Times(Elements(o), n) \in Seq(Elems)
      BY <1>e, TimesFacts
    <2>2. C!IsNew(p, "list", Times(Elements(o), n))
      BY <1>3, <1>e, <2>1, ContractNew DEF Repeat
    <2> QED BY <1>e, <2>2, SameParts DEF C!Repeat
  <1>4. ASSUME NEW b \in Cuts, Slice(o, b, p) PROVE C!Slice(o, b, p)
    <2> DEFINE items == evalSlice(Elements(o), b[1], b[2], b[3])
    <2>2. items \in Seq(Elems)
      BY <1>e, SliceOfElements
    <2>3. IsNew(p, kind[o], items, ByAppends(items))
      BY <1>4 DEF Slice
    <2>4. items = C!evalSlice([q \in Objects |-> Elements(q)][o], b[1], b[2], b[3])
      BY <1>e, SameSlices
    <2> HIDE DEF items
    <2>5. C!IsNew(p, kind[o], items)
      BY <1>e, <2>2, <2>3, ContractNew
    <2> QED BY <2>4, <2>5 DEF C!Slice
  <1>5. ASSUME Sorted(o, p) PROVE C!Sorted(o, p)
    <2>1. PICK t \in Sortings(Elements(o)) : IsNew(p, "list", t, Exactly(t))
      BY <1>5 DEF Sorted
    <2>2. t \in Seq(Elems)
      BY <1>e, SortingsFacts
    <2>3. C!IsNew(p, "list", t)
      BY <1>e, <2>1, <2>2, ContractNew
    <2>4. t \in C!Arrangements(Elements(o)) /\ C!Ascending(t)
      BY <1>e, SortingIsArrangement
    <2> QED BY <1>e, <2>3, <2>4 DEF C!Sorted
  <1>6. ASSUME Reversed(o, p) PROVE C!Reversed(o, p)
    <2>1. Reverse(Elements(o)) \in Seq(Elems)
      BY <1>e, ReverseFacts
    <2>2. C!IsNew(p, "iterator", Reverse(Elements(o)))
      BY <1>6, <1>e, <2>1, ContractNew DEF Reversed
    <2> QED BY <1>e, <2>2, SameParts DEF C!Reversed
  <1>c. \A c : Called(c) <=> C!Called(c)
    BY DEF Called, C!Called
  <1> QED BY <1>1, <1>2, <1>3, <1>4, <1>5, <1>6, <1>c DEF Make, C!Make

LEMMA ShareKept ==
  ASSUME Inv, NEW o \in Objects, NEW p \in Objects, Share(o, p)
  PROVE  C!Make(o, p)
  <1>c. \A c : Called(c) <=> C!Called(c)
    BY DEF Called, C!Called
  <1>e. /\ TypeOK /\ PartOf(at[o], o) /\ Shown(at[o]) = Elements(o)
        /\ [q \in Objects |-> Elements(q)][o] = Elements(o) /\ C!Length(o) = Length(at[o])
    BY ElementsFacts, ContractWords DEF Inv, Elements
  <1>1. ASSUME NEW k \in {"list", "tuple", "iterator"}, Shares(p, k, o, at[o])
        PROVE  C!Share(o, k, p)
    <2>1. C!Shares(p, k, o, Elements(o))
      BY <1>1, <1>e, ContractShares
    <2> QED BY <2>1, <1>e DEF C!Share
  <1>2. ASSUME NEW before \in 0..MaxLen, NEW after \in 0..MaxLen, UnpackRest(o, before, after, p)
        PROVE  C!UnpackRest(o, before, after, p)
    <2> DEFINE s == [arr |-> at[o].arr, lo |-> at[o].lo + before, hi |-> at[o].hi - after]
               n == Length(at[o])
    <2>0. before + after <= n /\ Shares(p, "list", o, s)
      BY <1>2 DEF UnpackRest
    <2>1. /\ before \in Nat /\ after \in Nat /\ n \in Nat /\ at[o] \in Windows
          /\ at[o].lo \in Nat /\ at[o].hi \in Nat /\ at[o].hi = at[o].lo + n
      BY <1>e, ElementsFacts, ListsAssumption DEF TypeOK, Windows, Length
    <2> HIDE DEF n
    <2> PICK m \in Nat : m = n - after /\ before <= m /\ m <= n
      <3>1. n - after \in Nat /\ before <= n - after /\ n - after <= n
        BY <2>0, <2>1
      <3> QED BY <3>1
    <2>2. s.arr = at[o].arr /\ s.lo = at[o].lo + before /\ s.hi = at[o].lo + m
      BY <2>1
    <2>3. PartOf(s, o)
      <3>1. s.lo \in Nat /\ s.hi \in Nat /\ at[o].lo <= s.lo /\ s.lo <= s.hi /\ s.hi <= at[o].hi
        BY <2>1, <2>2
      <3>2. s \in Windows
        BY <2>1, <3>1 DEF Windows
      <3> HIDE DEF s
      <3> QED BY <2>2, <3>1, <3>2 DEF PartOf
    <2> HIDE DEF s
    <2>4. Shown(s) = SubSeq(Elements(o), before + 1, m)
      BY <1>e, <2>1, <2>2, PartShows, SMTT(60) DEF n
    <2>5. C!Shares(p, "list", o, SubSeq(Elements(o), before + 1, n - after))
      BY <1>e, <2>0, <2>3, <2>4, ContractShares
    <2> QED BY <1>e, <2>0, <2>5 DEF C!UnpackRest, n
  <1> QED BY <1>1, <1>2, <1>c DEF Share, builtinList, builtinTuple, GetIter, C!Make

LEMMA BuildKept ==
  ASSUME Inv, NEW p \in Objects, Build(p)
  PROVE  C!BuildSome(p)
  <1>1. PICK n \in 0..MaxLen : \E items \in [1..n -> Elems], k \in {"list", "tuple"} :
          IsNew(p, k, items, Exactly(items)) /\ Called(<<"build", p, k, items>>)
    BY DEF Build, BuildList, BuildTuple
  <1> PICK items \in [1..n -> Elems], k \in {"list", "tuple"} :
          IsNew(p, k, items, Exactly(items)) /\ Called(<<"build", p, k, items>>)
    BY <1>1
  <1>2. items \in Seq(Elems) /\ TypeOK
    <2>1. n \in Nat
      BY ListsAssumption
    <2> QED BY <2>1 DEF Inv
  <1>3. C!IsNew(p, k, items)
    BY <1>2, ContractNew
  <1>4. C!Called(<<"build", p, k, items>>)
    BY DEF Called, C!Called
  <1> QED BY <1>3, <1>4 DEF C!BuildSome, C!Build

LEMMA MutateKept ==
  ASSUME Inv, NEW o \in Objects, Mutate(o)
  PROVE  C!Mutate(o)
  <1>c. \A c : Called(c) <=> C!Called(c)
    BY DEF Called, C!Called
  <1>1. ASSUME NEW x \in Elems, AppendItem(o, x), Called(<<"append", o, x>>) PROVE C!Mutate(o)
    BY <1>1, <1>c, AppendKept DEF C!Mutate
  <1>2. ASSUME NEW x \in Elems, RemoveValue(o, x), Called(<<"remove", o, x>>) PROVE C!Mutate(o)
    BY <1>2, <1>c, RemoveKept DEF C!Mutate
  <1>3. ASSUME NEW p \in Objects, Extend(o, p), Called(<<"extend", o, p>>) PROVE C!Mutate(o)
    BY <1>3, <1>c, ExtendKept DEF C!Mutate
  <1>4. ASSUME NEW i \in Bounds, Pop(o, i), Called(<<"pop", o, i>>) PROVE C!Mutate(o)
    BY <1>4, <1>c, DeleteKept DEF C!Mutate
  <1>13. ASSUME NEW i \in Bounds, DeleteIndex(o, i), Called(<<"del", o, i>>) PROVE C!Mutate(o)
    BY <1>13, <1>c, DeleteKept DEF C!Mutate
  <1>5. ASSUME NEW i \in Bounds, NEW x \in Elems, Insert(o, i, x), Called(<<"insert", o, i, x>>)
        PROVE  C!Mutate(o)
    BY <1>5, <1>c, InsertKept DEF C!Mutate
  <1>6. ASSUME NEW i \in Bounds, NEW x \in Elems, SetIndex(o, i, x), Called(<<"set", o, i, x>>)
        PROVE  C!Mutate(o)
    BY <1>6, <1>c, SetIndexKept DEF C!Mutate
  <1>7. ASSUME ReverseList(o), Called(<<"reverse", o>>) PROVE C!Mutate(o)
    BY <1>7, <1>c, ReverseKept DEF C!Mutate
  <1>8. ASSUME Sort(o), Called(<<"sort", o>>) PROVE C!Mutate(o)
    BY <1>8, <1>c, SortKept DEF C!Mutate
  <1>9. ASSUME Clear(o), Called(<<"clear", o>>) PROVE C!Mutate(o)
    BY <1>9, <1>c, ClearKept DEF C!Mutate
  <1>10. ASSUME NEW b \in Cuts, NEW p \in Objects, SetSlice(o, b, p), Called(<<"setslice", o, b, p>>)
         PROVE  C!Mutate(o)
    BY <1>10, <1>c, SetSliceKept DEF C!Mutate
  <1>11. ASSUME ForIter(o), Called(<<"next", o>>) PROVE C!Mutate(o)
    BY <1>11, <1>c, ForIterKept DEF C!Mutate
  <1>12. ASSUME Forget(o), Called(<<"forget", o>>) PROVE C!Mutate(o)
    BY <1>12, <1>c, ForgetKept DEF C!Mutate
  <1> QED
    BY <1>1, <1>2, <1>3, <1>4, <1>5, <1>6, <1>7, <1>8, <1>9, <1>10, <1>11, <1>12, <1>13
    DEF Mutate

LEMMA InitKept == Init => C!Init
  <1>1. \A s : SubSeq(s, 0 + 1, 0) = <<>>
    BY SubSeqEmpty
  <1>2. ASSUME Init, NEW o \in Objects PROVE Elements(o) = <<>>
    BY <1>1, <1>2 DEF Init, Elements, Shown, Nowhere
  <1> QED BY <1>2 DEF Init, C!Init

LEMMA StutterKept == UNCHANGED vars => UNCHANGED C!cvars
  <1> SUFFICES ASSUME UNCHANGED vars PROVE UNCHANGED C!cvars
    OBVIOUS
  <1>1. \A o \in Objects : Elements(o)' = Elements(o)
    BY DEF vars, Elements, Shown
  <1>2. [o \in Objects |-> Elements(o)]' = [o \in Objects |-> Elements(o)]
    BY <1>1
  <1> QED BY <1>2 DEF vars, C!cvars

(* Programs may think of a list as of elements that are its own, except    *)
(* that those of its kin may change with it: windows on shared arrays, and *)
(* everything that moves in them, implement that.                          *)
THEOREM ListsAreAsPromised == Spec => ImplementsContract
  <1>1. Init => Inv /\ C!Init
    BY InitInv, InitKept
  <1>2. Inv /\ [Next]_vars => Inv' /\ [C!Next]_(C!cvars)
    <2>1. Inv /\ Next => Inv'
      BY NextIsStep, StepInv DEF Inv
    <2>2. Inv /\ Next => C!Next
      BY MutateKept, MakeKept, ShareKept, BuildKept DEF Next, C!Next
    <2> QED BY <2>1, <2>2, StutterInv, StutterKept
  <1> QED BY <1>1, <1>2, PTL DEF Spec, ImplementsContract, C!Spec
===============================================================================
